----------------------------- MODULE MCExecutor -----------------------------
EXTENDS Executor, TLC

\* The oldest and the newest proposal are about the same parameter; the newest
\* sets it to 0, at which the oldest, whose current is not a number, passes the
\* comparison.  The two between them are about devices of their own: an
\* acceleration that cannot be simulated, and one so small that its device, which
\* no file can be named after, stands still.
MCSlot == <<"Kp", "Acc3", "Acc2", "Kp">>

MCDevice == [s \in {"Kp", "Acc2", "Acc3"} |->
               CASE s = "Kp" -> 1 [] s = "Acc2" -> 2 [] s = "Acc3" -> 3]

MCCurrent == <<NonFloat, Missing, Missing, 1>>

MCNew == <<2, -1, 0, 0>>

MCFatal == {<<"Acc3", -1>>}

MCStill == {<<"Acc2", 0>>}

============================================================================
