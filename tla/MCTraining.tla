----------------------------- MODULE MCTraining -----------------------------
EXTENDS Training, TLC

MCModels == <<Model(Scenario, "v1.0.3", "active")>>

============================================================================
