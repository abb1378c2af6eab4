--------------------------- MODULE TrainingProofs ---------------------------
(***************************************************************************)
(* Proofs about Training and the file of RegistryFile it shares.           *)
(*                                                                         *)
(* The argument has three layers.  TablesInv is about the database: a row, *)
(* a handler and a tick only know of a job what its audit trail, which     *)
(* grows only, already shows.  FilesInv and SoundInv are about the file:   *)
(* who has which inode open, what is in it, and that every registry that   *)
(* is written, read or remembered anywhere has only decided candidates     *)
(* active.  FileTickInv, CandidateWritten and CandidateInv tie the two     *)
(* together: the tick that saves a candidate is the one the worker's open  *)
(* file belongs to, and as long as nothing is lost every job that is, or   *)
(* is about to be, a candidate has its record in models.jsonl.             *)
(***************************************************************************)
EXTENDS Training, SequenceTheorems, WellFoundedInduction, TLAPS

Registry == Seq(ModelRecord)

NotContents == {Torn, Missing, Unread}

----------------------------------------------------------------------------
\* What a process has open.
FileRecord == [pc : {"closed", "read", "open", "written", "boot"},
               inode : {"none", "tmp", "path", "unlinked"},
               seen : Registry \cup {Unread}]

Saving(p) == file[p].pc \in {"open", "written"}

\* Files hold a registry or are torn; an inode is open exactly while a save, or
\* the boot, is under way; the api saves nothing it did not read a version from.
FileType ==
    /\ path \in Registry \cup {Torn}
    /\ tmp \in Registry \cup {Torn, Missing}
    /\ file \in [Processes -> FileRecord]
    /\ collided \in BOOLEAN
    /\ \A p \in Processes :
          /\ file[p].pc \in {"read", "open", "written"} => file[p].seen \in Registry
          /\ file[p].inode = "none" <=> file[p].pc \in {"closed", "read"}
          /\ file[p].inode = "tmp" => tmp # Missing /\ file[p].pc # "boot"
    /\ file["api"].pc # "boot"
    /\ file["api"].pc # "closed" => file["api"].seen # <<>>

\* A registry that was not cut off.
Whole(contents) == contents \in Registry \ {<<>>}

\* Without a collision, one save is under way at most, the temporary file is its
\* own, and models.jsonl is whole but for a worker that boots.
FileInv ==
    ~collided =>
        /\ \A p \in Processes :
              /\ file[p].inode = "tmp" <=> Saving(p)
              /\ file[p].pc = "open" => tmp = <<>>
              /\ file[p].pc = "written" => Whole(tmp)
        /\ ~(Saving("api") /\ Saving("worker"))
        /\ file["worker"].pc # "boot" => Whole(path)
        /\ file["worker"].pc = "boot" =>
              \/ file["worker"].inode = "path" /\ path = <<>>
              \/ file["worker"].inode = "unlinked" /\ Whole(path)

\* Everything that is on disk or was read from it.
Contents == {path, tmp} \cup {file[p].seen : p \in Processes}

Decided(j) == \E i \in DOMAIN approvals : approvals[i].job = j /\ approvals[i].state # "pending"

\* A candidate is active only after the decision on it.
Sound(models) ==
    \A m \in DOMAIN models :
        models[m].status = "active" /\ models[m].version \in Jobs => Decided(models[m].version)

SoundInv == \A models \in Contents \ NotContents : Sound(models)

Has(models, j) ==
    \E m \in DOMAIN models : models[m].scenario_id = Scenario /\ models[m].version = j

\* The job, of a well-formed scenario, is a candidate, or some process is about to
\* treat it as one.
Candidate(j) ==
    /\ WellFormed(j)
    /\ \/ rows[j].status \in {"shadow", "passed"}
       \/ \E i \in DOMAIN approvals : approvals[i].job = j
       \/ \E k \in Ticks :
             \/ \E item \in tick[k].todo : item.job = j /\ item.status = "shadow"
             \/ tick[k].pc = "record" /\ tick[k].target = "shadow" /\ tick[k].job = j

\* What a save has written has every version that was in the file it read.
Covered ==
    ~collided =>
        \A p \in Processes :
           file[p].pc = "written" => \A j \in Jobs : Has(file[p].seen, j) => Has(tmp, j)

FilesInv == FileType /\ FileInv /\ Covered

\* The worker's save has the candidate of the tick it belongs to.
CandidateWritten ==
    ~collided /\ file["worker"].pc = "written" =>
        \A k \in Ticks : tick[k].pc = "file" => Has(tmp, tick[k].job)

\* As long as nothing is lost the file only changes by a save, and has every
\* candidate.
CandidateInv ==
    /\ lost \in BOOLEAN
    /\ ~lost => /\ \A p \in Processes : file[p].inode \notin {"path", "unlinked"}
                /\ path \in Registry
                /\ \A j \in Jobs : Candidate(j) => Has(path, j)

----------------------------------------------------------------------------
\* Prefixes of WentThrough.
Ran(j) == \E a \in DOMAIN audit[j] : audit[j][a] = "running"

Evaluated(j) ==
    \E a, b \in DOMAIN audit[j] : a < b /\ audit[j][a] = "running" /\ audit[j][b] = "evaluating"

\* The trail of a job shows how it came to a status, or may go on to the next.
Reached(j, status) ==
    /\ status = "running" => Ran(j)
    /\ status = "evaluating" => Evaluated(j)
    /\ status \in {"shadow", "passed"} => WentThrough(j)

ReadyFor(j, target) ==
    /\ target = "evaluating" => Ran(j)
    /\ target = "shadow" => Evaluated(j)
    /\ target = "passed" => WentThrough(j)

\* A row, a handler and a tick are in order.
RowOK(j, row) ==
    /\ row \in Row
    /\ row.status = "absent" => row.scenario = Scenario
    /\ Reached(j, row.status)
    /\ row.status = "passed" => \E i \in DOMAIN approvals : approvals[i].job = j
    /\ row.approval # 0 => row.approval \in DOMAIN approvals /\ approvals[row.approval].job = j

RowsInv == DOMAIN rows = Jobs /\ rows \in [Jobs -> Row] /\ \A j \in Jobs : RowOK(j, rows[j])

Approval == [job : Jobs, state : {"pending", "applying", "approved"}]

LogInv ==
    /\ audit \in [Jobs -> Seq(JOB_STATES)]
    /\ approvals \in Seq(Approval)
    /\ \A i \in DOMAIN approvals : WentThrough(approvals[i].job)

Cancel == [pc : {"new", "cancel", "done"}, job : Jobs \cup {Nothing}]

CancelOK(q) == q \in Cancel /\ (q.pc = "cancel" => q.job \in Jobs /\ Exists(q.job))

CancelsInv == req \in [Cancels -> Cancel] /\ \A c \in Cancels : CancelOK(req[c])

TickOK(q) ==
    /\ q \in Tick
    /\ \A item \in q.todo : Exists(item.job) /\ Reached(item.job, item.status)
    /\ q.pc \in {"file", "record"} => q.job \in Jobs /\ Exists(q.job) /\ ReadyFor(q.job, q.target)
    /\ q.pc = "file" => q.target = "shadow"
    /\ q.pc = "record" => q.target \in {"running", "evaluating", "shadow", "passed"}
    /\ q.pc = "record" /\ q.target = "passed" =>
          q.approval \in DOMAIN approvals /\ approvals[q.approval].job = q.job

TicksInv == tick \in [Ticks -> Tick] /\ \A k \in Ticks : TickOK(tick[k])

\* One tick at most is saving, and the worker has the file in hand for it.
FileTickInv ==
    /\ \A k \in Ticks :
          tick[k].pc = "file" => file["worker"].pc \in {"read", "open", "written"}
    /\ \A k, l \in Ticks : tick[k].pc = "file" /\ tick[l].pc = "file" => k = l

TablesInv == RowsInv /\ LogInv /\ CancelsInv /\ TicksInv

Inv == /\ TablesInv /\ FilesInv /\ SoundInv /\ FileTickInv
       /\ CandidateWritten /\ CandidateInv

----------------------------------------------------------------------------
\* A set of numbers that is not empty has a smallest one.
LEMMA MinInSet ==
    ASSUME NEW T \in SUBSET Nat, T # {}
    PROVE  Min(T) \in T
PROOF
  <1> DEFINE R == OpToRel(<, Nat)
  <1>1. IsWellFoundedOn(R, Nat)
    BY NatLessThanWellFounded
  <1>2. R = {ss \in Nat \X Nat : ss[1] < ss[2]}
    BY DEF OpToRel
  <1> HIDE DEF R
  <1>3. PICK x \in T : \A y \in T : ~(<<y, x>> \in R)
    BY <1>1, WFMin
  <1>4. \A y \in T : ~(y < x)
    BY <1>2, <1>3
  <1>5. \A y \in T : x =< y
    BY <1>4
  <1>. QED
    BY <1>5 DEF Min

\* The index promote() looks up is the one of a record of the version.
LEMMA TargetFacts ==
    ASSUME NEW models \in Registry, NEW j
    PROVE  LET target == TargetIndex(models, Scenario, j)
           IN  /\ target # 0 => /\ target \in DOMAIN models
                                /\ models[target].scenario_id = Scenario
                                /\ models[target].version = j
               /\ Has(models, j) => target # 0
PROOF
  <1> DEFINE I == {i \in 1 .. Len(models) : models[i].scenario_id = Scenario /\ models[i].version = j}
             target == TargetIndex(models, Scenario, j)
  <1>1. target = IF I # {} THEN Min(I) ELSE 0
    BY DEF TargetIndex, SelectInSeq
  <1>2. DOMAIN models = 1 .. Len(models) /\ Len(models) \in Nat
    BY LenProperties DEF Registry
  <1>3. I \in SUBSET Nat
    BY <1>2
  <1>4. I # {} => Min(I) \in I
    BY <1>3, MinInSet
  <1>5. Has(models, j) => I # {}
    BY <1>2 DEF Has
  <1> HIDE DEF target
  <1>6. target # 0 => target \in I
    BY <1>1, <1>4
  <1>7. I # {} => target # 0
    BY <1>1, <1>2, <1>4
  <1>. QED
    BY <1>2, <1>5, <1>6, <1>7 DEF target

\* add_shadow keeps every record and adds the candidate.
LEMMA AddFacts ==
    ASSUME NEW models \in Registry, NEW j \in Jobs
    PROVE  LET new == add_shadow(models, Scenario, j)
           IN  /\ Whole(new)
               /\ Has(new, j)
               /\ \A v \in Jobs : Has(models, v) => Has(new, v)
               /\ Sound(models) => Sound(new)
PROOF
  <1> DEFINE record == Model(Scenario, j, "shadow")
             new == add_shadow(models, Scenario, j)
             n == Len(models) + 1
  <1>1. /\ record \in ModelRecord /\ record.scenario_id = Scenario
        /\ record.version = j /\ record.status = "shadow"
    BY DEF Model, ModelRecord, MODEL_STATUSES
  <1>2. /\ new \in Registry /\ new # <<>> /\ Len(new) = n /\ new[n] = record
        /\ \A m \in 1 .. Len(models) : new[m] = models[m]
    BY <1>1, AppendProperties DEF Registry, add_shadow
  <1>3. /\ Len(models) \in Nat /\ DOMAIN models = 1 .. Len(models) /\ DOMAIN new = 1 .. n
    BY <1>2, LenProperties DEF Registry
  <1> HIDE DEF new, record
  <1>4. \A m \in DOMAIN new : (m \in DOMAIN models /\ new[m] = models[m]) \/ m = n
    BY <1>2, <1>3
  <1>5. \A m \in DOMAIN models : m \in DOMAIN new /\ new[m] = models[m]
    BY <1>2, <1>3
  <1>6. Has(new, j)
    BY <1>1, <1>2, <1>3 DEF Has
  <1>7. \A v \in Jobs : Has(models, v) => Has(new, v)
    BY <1>5 DEF Has
  <1>8. Sound(models) => Sound(new)
    BY <1>1, <1>2, <1>4 DEF Sound
  <1>. QED
    BY <1>2, <1>6, <1>7, <1>8 DEF Whole, new

\* promote keeps every record but for its status, and only the one of the version
\* becomes active.
LEMMA PromoteFacts ==
    ASSUME NEW models \in Registry, models # <<>>, NEW j \in Jobs
    PROVE  LET new == Promote(models, Scenario, j)
           IN  /\ Whole(new)
               /\ \A v \in Jobs : Has(models, v) => Has(new, v)
               /\ Sound(models) /\ Decided(j) => Sound(new)
PROOF
  <1> DEFINE target == TargetIndex(models, Scenario, j)
             new == Promote(models, Scenario, j)
  <1>1. target # 0 => target \in DOMAIN models /\ models[target].version = j
    BY TargetFacts
  <1>2. /\ Len(models) \in Nat /\ DOMAIN models = 1 .. Len(models)
        /\ \A m \in DOMAIN models : models[m] \in ModelRecord
    BY LenProperties, ElementOfSeq DEF Registry
  <1>3. new = [m \in DOMAIN models |->
                  IF m = target
                    THEN [models[m] EXCEPT !.status = "active"]
                  ELSE IF models[m].scenario_id = Scenario /\ models[m].status = "active"
                    THEN [models[m] EXCEPT !.status = "archived"]
                  ELSE models[m]]
    BY DEF Promote
  <1> HIDE DEF new, target
  <1>4. ASSUME NEW m \in DOMAIN models
        PROVE  /\ new[m] \in ModelRecord
               /\ new[m].scenario_id = models[m].scenario_id
               /\ new[m].version = models[m].version
               /\ new[m].status = "active" => m = target \/ models[m].status = "active"
    <2>1. models[m] \in ModelRecord
      BY <1>2
    <2>2. CASE m = target
      <3>1. new[m] = [models[m] EXCEPT !.status = "active"]
        BY <1>3, <2>2
      <3>. QED
        BY <2>1, <2>2, <3>1 DEF ModelRecord, MODEL_STATUSES
    <2>3. CASE m # target /\ models[m].scenario_id = Scenario /\ models[m].status = "active"
      <3>1. new[m] = [models[m] EXCEPT !.status = "archived"]
        BY <1>3, <2>3
      <3>. QED
        BY <2>1, <2>3, <3>1 DEF ModelRecord, MODEL_STATUSES
    <2>4. CASE m # target /\ ~(models[m].scenario_id = Scenario /\ models[m].status = "active")
      <3>1. new[m] = models[m]
        BY <1>3, <2>4
      <3>. QED
        BY <2>1, <3>1
    <2>. QED
      BY <2>2, <2>3, <2>4
  <1>5. DOMAIN new = DOMAIN models /\ new \in [1 .. Len(models) -> ModelRecord]
    BY <1>2, <1>3, <1>4
  <1>6. Whole(new)
    <2>1. new \in Registry
      BY <1>2, <1>5, SeqDef DEF Registry
    <2>2. Len(models) # 0
      BY EmptySeq DEF Registry
    <2>3. new # <<>>
      BY <1>2, <1>5, <2>2
    <2>. QED
      BY <2>1, <2>3 DEF Whole
  <1>7. \A v \in Jobs : Has(models, v) => Has(new, v)
    BY <1>4, <1>5 DEF Has
  <1>8. Sound(models) /\ Decided(j) => Sound(new)
    <2>1. ASSUME Sound(models), Decided(j), NEW m \in DOMAIN new,
                 new[m].status = "active", new[m].version \in Jobs
          PROVE  Decided(new[m].version)
      <3>1. CASE m = target
        <4>1. target # 0
          BY <1>2, <1>5, <2>1, <3>1
        <4>. QED
          BY <1>1, <1>4, <1>5, <2>1, <3>1, <4>1
      <3>2. CASE m # target
        BY <1>4, <1>5, <2>1, <3>2 DEF Sound
      <3>. QED
        BY <3>1, <3>2
    <2>. QED
      BY <2>1 DEF Sound
  <1>. QED
    BY <1>6, <1>7, <1>8 DEF new

----------------------------------------------------------------------------
\* The empty file is a registry, and no mark stands for one.
LEMMA EmptyRegistry == <<>> \in Registry /\ Registry \cap NotContents = {} /\ Torn # Missing
PROOF
  <1>1. <<>> \in Registry
    BY EmptySeq DEF Registry
  <1>2. Registry \cap NotContents = {} /\ Torn # Missing
    BY TrainingAssumption DEF Registry, NotContents
  <1>. QED
    BY <1>1, <1>2

\* The entry of a process changes, the other one's does not.
LEMMA EntryMoves ==
    ASSUME FileType, NEW p \in Processes, NEW f \in FileRecord, file' = [file EXCEPT ![p] = f]
    PROVE  /\ file' \in [Processes -> FileRecord] /\ file'[p] = f
           /\ \A q \in Processes : q # p => file'[q] = file[q]
  BY DEF FileType

\* A process reads the file; the api only goes on with one that is not empty.
LEMMA ReadAllFiles ==
    ASSUME FilesInv, NEW p \in Processes, ReadAll(p), p = "api" => path # <<>>
    PROVE  /\ FilesInv' /\ Contents' \subseteq Contents \cup NotContents
           /\ file'[p].pc = "read" /\ file'[p].seen = path /\ path \in Registry
           /\ file'[p].inode = "none"
           /\ \A q \in Processes : q # p => file'[q] = file[q]
PROOF
  <1> DEFINE f == [Closed EXCEPT !.pc = "read", !.seen = path]
  <1>1. /\ path' = path /\ tmp' = tmp /\ collided' = collided /\ file[p].pc = "closed"
        /\ path \in Registry
    BY DEF ReadAll, Free, FilesInv, FileType
  <1>2. f \in FileRecord /\ f.pc = "read" /\ f.seen = path /\ f.inode = "none"
    BY <1>1 DEF FileRecord, Closed
  <1>3. file' = [file EXCEPT ![p] = f]
    BY DEF ReadAll
  <1> HIDE DEF f
  <1>4. /\ file' \in [Processes -> FileRecord] /\ file'[p] = f
        /\ \A q \in Processes : q # p => file'[q] = file[q]
    BY <1>2, <1>3, EntryMoves DEF FilesInv
  <1>5. FileType'
    BY <1>1, <1>2, <1>4 DEF FilesInv, FileType, Processes
  <1>6. FileInv'
    BY <1>1, <1>2, <1>4 DEF FilesInv, FileInv, Saving, Processes, Whole
  <1>7. Covered'
    BY <1>1, <1>2, <1>4 DEF FilesInv, Covered, Has, Processes
  <1>8. Contents' \subseteq Contents \cup NotContents
    BY <1>1, <1>2, <1>4 DEF Contents, Processes
  <1>. QED
    BY <1>1, <1>2, <1>4, <1>5, <1>6, <1>7, <1>8 DEF FilesInv

\* A process opens the temporary file, possibly under the other one's hands.
LEMMA OpenTmpFiles ==
    ASSUME FilesInv, NEW p \in Processes, OpenTmp(p)
    PROVE  /\ FilesInv' /\ Contents' \subseteq Contents \cup {<<>>}
           /\ path' = path /\ file'[p].pc = "open" /\ file'[p].inode = "tmp"
           /\ \A q \in Processes : q # p => file'[q] = file[q]
           /\ collided => collided'
           /\ \A q \in Processes : file[q].pc = "written" => collided'
PROOF
  <1> DEFINE f == [file[p] EXCEPT !.pc = "open", !.inode = "tmp"]
  <1>1. /\ path' = path /\ tmp' = <<>> /\ file[p].pc = "read"
        /\ collided' = (collided \/ \E q \in Processes : file[q].inode = "tmp")
    BY DEF OpenTmp
  <1>2. /\ f \in FileRecord /\ f.pc = "open" /\ f.seen = file[p].seen /\ f.inode = "tmp"
    BY DEF FilesInv, FileType, FileRecord
  <1>3. file' = [file EXCEPT ![p] = f]
    BY DEF OpenTmp
  <1> HIDE DEF f
  <1>4. /\ file' \in [Processes -> FileRecord] /\ file'[p] = f
        /\ \A q \in Processes : q # p => file'[q] = file[q]
    BY <1>2, <1>3, EntryMoves DEF FilesInv
  <1>5. FileType'
    BY <1>1, <1>2, <1>4, EmptyRegistry DEF FilesInv, FileType, Processes, NotContents
  <1>6. ~collided' => ~collided /\ \A q \in Processes : file[q].inode # "tmp" /\ ~Saving(q)
    BY <1>1 DEF FilesInv, FileInv
  <1>7. \A q \in Processes : file[q].pc = "written" => collided'
    BY <1>6 DEF Saving
  <1>8. FileInv'
    BY <1>1, <1>2, <1>4, <1>6 DEF FilesInv, FileInv, Saving, Processes, Whole
  <1>9. Covered'
    BY <1>1, <1>2, <1>4, <1>7 DEF Covered
  <1>10. Contents' \subseteq Contents \cup {<<>>}
    BY <1>1, <1>2, <1>4 DEF Contents
  <1>11. collided => collided'
    BY <1>1
  <1>. QED
    BY <1>1, <1>2, <1>4, <1>5, <1>7, <1>8, <1>9, <1>10, <1>11 DEF FilesInv

\* What is written over a file is there in the end, or the file is torn; over an
\* empty file it is there.
LEMMA OverlayFacts ==
    ASSUME NEW old \in Registry \cup {Torn}, NEW new \in Registry
    PROVE  /\ Overlay(old, new) \subseteq {new, Torn}
           /\ old = <<>> => Overlay(old, new) = {new}
PROOF
  <1>1. Overlay(old, new) \subseteq {new, Torn}
    BY DEF Overlay
  <1>2. ASSUME old = <<>> PROVE Overlay(old, new) = {new}
    <2>1. old # Torn /\ Len(old) = 0
      BY <1>2, EmptyRegistry, EmptySeq DEF NotContents
    <2>2. Len(new) \in Nat /\ (new # <<>> => Len(new) # 0)
      BY EmptySeq, LenProperties DEF Registry
    <2>3. old = new \/ Len(new) > Len(old)
      BY <1>2, <2>1, <2>2
    <2>. QED
      BY <2>1, <2>3 DEF Overlay
  <1>. QED
    BY <1>1, <1>2

\* A process writes what it has opened and closes it.
LEMMA CloseTmpFiles ==
    ASSUME FilesInv, NEW p \in Processes, NEW new, Whole(new), CloseTmp(p, new),
           \A j \in Jobs : Has(file[p].seen, j) => Has(new, j)
    PROVE  /\ FilesInv' /\ Contents' \subseteq Contents \cup NotContents \cup {new}
           /\ file'[p].pc = "written" /\ file'[p].inode = file[p].inode
           /\ \A q \in Processes : q # p => file'[q] = file[q]
           /\ collided' = collided
           /\ ~collided => tmp' = new
           /\ file[p].inode # "path" => path' = path
PROOF
  <1> DEFINE f == [file[p] EXCEPT !.pc = "written"]
  <1>1. file[p].pc = "open" /\ WriteOpen(p, new) /\ collided' = collided
    BY DEF CloseTmp
  <1>2. /\ f \in FileRecord /\ f.pc = "written" /\ f.seen = file[p].seen
        /\ f.inode = file[p].inode
    BY DEF FilesInv, FileType, FileRecord
  <1>3. file' = [file EXCEPT ![p] = f]
    BY DEF CloseTmp
  <1> HIDE DEF f
  <1>4. /\ file' \in [Processes -> FileRecord] /\ file'[p] = f
        /\ \A q \in Processes : q # p => file'[q] = file[q]
    BY <1>2, <1>3, EntryMoves DEF FilesInv
  <1>5. new \in Registry /\ new # <<>>
    BY DEF Whole
  <1>6. \/ file[p].inode = "tmp" /\ tmp' \in {new, Torn} /\ path' = path
        \/ file[p].inode = "path" /\ path' \in {new, Torn} /\ tmp' = tmp
        \/ file[p].inode = "unlinked" /\ path' = path /\ tmp' = tmp
    <2>1. file[p].inode = "tmp" => tmp \in Registry \cup {Torn}
      BY DEF FilesInv, FileType
    <2>2. path \in Registry \cup {Torn}
      BY DEF FilesInv, FileType
    <2>. QED
      BY <1>1, <1>5, <2>1, <2>2, OverlayFacts DEF WriteOpen
  <1>7. ~collided => tmp' = new /\ path' = path /\ \A q \in Processes : q # p => ~Saving(q)
    <2>1. ASSUME ~collided
          PROVE  file[p].inode = "tmp" /\ tmp = <<>> /\ \A q \in Processes : q # p => ~Saving(q)
      BY <1>1, <2>1 DEF FilesInv, FileInv, Saving, Processes
    <2>2. Overlay(<<>>, new) = {new}
      BY <1>5, EmptyRegistry, OverlayFacts
    <2>. QED
      BY <1>1, <1>6, <2>1, <2>2 DEF WriteOpen
  <1>8. FileType'
    <2>1. path' \in Registry \cup {Torn} /\ tmp' \in Registry \cup {Torn, Missing}
      BY <1>5, <1>6 DEF FilesInv, FileType
    <2>2. ASSUME NEW q \in Processes, file'[q].inode = "tmp"
          PROVE  tmp' # Missing /\ file'[q].pc # "boot"
      <3>1. file[q].inode = "tmp" /\ tmp # Missing /\ file'[q].pc # "boot"
        BY <1>2, <1>4, <2>2 DEF FilesInv, FileType
      <3>2. new # Missing /\ Torn # Missing
        BY <1>5, EmptyRegistry DEF NotContents
      <3>. QED
        BY <1>6, <3>1, <3>2
    <2>3. \A q \in Processes :
             /\ file'[q].pc \in {"read", "open", "written"} => file'[q].seen \in Registry
             /\ file'[q].inode = "none" <=> file'[q].pc \in {"closed", "read"}
      BY <1>1, <1>2, <1>4 DEF FilesInv, FileType
    <2>4. file'["api"].pc # "boot" /\ (file'["api"].pc # "closed" => file'["api"].seen # <<>>)
      BY <1>1, <1>2, <1>4 DEF FilesInv, FileType, Processes
    <2>. QED
      BY <1>1, <1>4, <2>1, <2>2, <2>3, <2>4 DEF FilesInv, FileType
  <1>9. FileInv'
    <2>. SUFFICES ASSUME ~collided' PROVE FileInv'
      BY DEF FileInv
    <2>1. ~collided /\ tmp' = new /\ path' = path /\ \A q \in Processes : q # p => ~Saving(q)
      BY <1>1, <1>7
    <2>2. Whole(new)
      OBVIOUS
    <2>. QED
      BY <1>1, <1>2, <1>4, <2>1, <2>2 DEF FilesInv, FileInv, Saving, Processes, Whole
  <1>10. Covered'
    BY <1>1, <1>2, <1>4, <1>7 DEF Covered, Saving
  <1>11. Contents' \subseteq Contents \cup NotContents \cup {new}
    BY <1>2, <1>4, <1>6 DEF Contents, NotContents
  <1>. QED
    BY <1>1, <1>2, <1>4, <1>6, <1>7, <1>8, <1>9, <1>10, <1>11 DEF FilesInv

\* A save takes effect.
LEMMA ReplaceFiles ==
    ASSUME FilesInv, NEW p \in Processes, Replace(p)
    PROVE  /\ FilesInv' /\ Contents' \subseteq Contents \cup NotContents
           /\ path' = tmp /\ collided' = collided /\ file'[p] = Closed
           /\ \A q \in Processes : q # p => file'[q] = Renamed(file[q])
           /\ \A q \in Processes : q # p => file'[q].pc = file[q].pc
           /\ ~collided => Whole(tmp)
           /\ ~collided => \A q \in Processes : q # p => file[q].inode # "tmp"
PROOF
  <1>1. /\ file[p].pc = "written" /\ tmp # Missing /\ path' = tmp /\ tmp' = Missing
        /\ collided' = collided /\ file'[p] = Closed
        /\ \A q \in Processes : q # p => file'[q] = Renamed(file[q])
        /\ file' = [q \in Processes |-> IF q = p THEN Closed ELSE Renamed(file[q])]
    BY DEF Replace
  <1>2. Closed \in FileRecord /\ Closed.pc = "closed" /\ Closed.inode = "none" /\ Closed.seen = Unread
    BY DEF Closed, FileRecord
  <1>3. ASSUME NEW q \in Processes
        PROVE  /\ Renamed(file[q]) \in FileRecord
               /\ Renamed(file[q]).pc = file[q].pc
               /\ Renamed(file[q]).seen = file[q].seen
               /\ Renamed(file[q]).inode = IF file[q].inode = "tmp" THEN "path"
                                           ELSE IF file[q].inode = "path" THEN "unlinked"
                                           ELSE file[q].inode
    <2>1. file[q] \in FileRecord
      BY DEF FilesInv, FileType
    <2>. QED
      BY <2>1 DEF Renamed, FileRecord
  <1>4. file' \in [Processes -> FileRecord]
    BY <1>1, <1>2, <1>3
  <1>5. FileType'
    <2>1. tmp \in Registry \cup {Torn}
      BY <1>1 DEF FilesInv, FileType
    <2>2. \A q \in Processes :
             /\ file'[q].pc \in {"read", "open", "written"} => file'[q].seen \in Registry
             /\ file'[q].inode = "none" <=> file'[q].pc \in {"closed", "read"}
             /\ file'[q].inode # "tmp"
      BY <1>1, <1>2, <1>3 DEF FilesInv, FileType
    <2>3. file'["api"].pc # "boot" /\ (file'["api"].pc # "closed" => file'["api"].seen # <<>>)
      BY <1>1, <1>2, <1>3 DEF FilesInv, FileType, Processes
    <2>. QED
      BY <1>1, <1>4, <2>1, <2>2, <2>3 DEF FilesInv, FileType
  <1>6. ~collided => Whole(tmp) /\ \A q \in Processes : q # p => ~Saving(q) /\ file[q].inode # "tmp"
    BY <1>1 DEF FilesInv, FileInv, Saving, Processes
  <1>7. FileInv'
    <2>. SUFFICES ASSUME ~collided' PROVE FileInv'
      BY DEF FileInv
    <2>1. ~collided /\ Whole(tmp) /\ \A q \in Processes : q # p => ~Saving(q) /\ file[q].inode # "tmp"
      BY <1>1, <1>6
    <2>2. \A q \in Processes : ~Saving(q)' /\ file'[q].inode # "tmp"
      BY <1>1, <1>2, <1>3, <2>1 DEF Saving
    <2>3. Whole(path')
      BY <1>1, <2>1
    <2>4. file'["worker"].pc = "boot" => file'["worker"].inode = "unlinked"
      <3>. SUFFICES ASSUME file'["worker"].pc = "boot" PROVE file'["worker"].inode = "unlinked"
        OBVIOUS
      <3>1. p # "worker"
        BY <1>1, <1>2
      <3>2. file[ "worker"].pc = "boot" /\ file'["worker"].inode = Renamed(file["worker"]).inode
        BY <1>1, <1>3, <3>1 DEF Processes
      <3>3. file["worker"].inode \in {"path", "unlinked"}
        BY <2>1, <3>2 DEF FilesInv, FileInv
      <3>. QED
        BY <1>3, <3>2, <3>3 DEF Processes
    <2>. QED
      BY <2>2, <2>3, <2>4 DEF FileInv, Saving, Whole, Processes
  <1>8. Covered'
    BY <1>1, <1>2, <1>3, <1>6 DEF Covered, Saving
  <1>9. Contents' \subseteq Contents \cup NotContents
    BY <1>1, <1>2, <1>3 DEF Contents, NotContents
  <1>. QED
    BY <1>1, <1>3, <1>5, <1>6, <1>7, <1>8, <1>9 DEF FilesInv

\* A process that is not booting closes what it has open.
LEMMA CloseFiles ==
    ASSUME FilesInv, NEW p \in Processes, file[p].pc # "boot",
           file' = [file EXCEPT ![p] = Closed], UNCHANGED <<path, tmp, collided>>
    PROVE  /\ FilesInv' /\ Contents' \subseteq Contents \cup NotContents
           /\ path' = path /\ tmp' = tmp /\ collided' = collided /\ file'[p] = Closed
           /\ \A q \in Processes : q # p => file'[q] = file[q]
PROOF
  <1>1. Closed \in FileRecord /\ Closed.pc = "closed" /\ Closed.inode = "none" /\ Closed.seen = Unread
    BY DEF Closed, FileRecord
  <1>2. /\ file' \in [Processes -> FileRecord] /\ file'[p] = Closed
        /\ \A q \in Processes : q # p => file'[q] = file[q]
    BY <1>1, EntryMoves DEF FilesInv
  <1>3. path' = path /\ tmp' = tmp /\ collided' = collided
    OBVIOUS
  <1>4. FileType'
    BY <1>1, <1>2, <1>3 DEF FilesInv, FileType, Processes
  <1>5. FileInv'
    BY <1>1, <1>2, <1>3 DEF FilesInv, FileInv, Saving, Processes, Whole
  <1>6. Covered'
    BY <1>1, <1>2, <1>3 DEF FilesInv, Covered, Has
  <1>7. Contents' \subseteq Contents \cup NotContents
    BY <1>1, <1>2, <1>3 DEF Contents, NotContents
  <1>. QED
    BY <1>2, <1>3, <1>4, <1>5, <1>6, <1>7 DEF FilesInv

\* The worker boots ...
LEMMA TruncateFiles ==
    ASSUME FilesInv, Truncate("worker")
    PROVE  /\ FilesInv' /\ Contents' \subseteq Contents \cup NotContents \cup {<<>>}
           /\ file'["worker"].pc = "boot" /\ file'["api"] = file["api"]
PROOF
  <1> DEFINE f == [pc |-> "boot", inode |-> "path", seen |-> Unread]
  <1>1. path' = <<>> /\ tmp' = tmp /\ collided' = collided /\ file' = [file EXCEPT !["worker"] = f]
    BY DEF Truncate
  <1>2. f \in FileRecord /\ f.pc = "boot" /\ f.inode = "path" /\ f.seen = Unread
    BY DEF FileRecord
  <1> HIDE DEF f
  <1>3. /\ file' \in [Processes -> FileRecord] /\ file'["worker"] = f
        /\ file'["api"] = file["api"]
    BY <1>1, <1>2 DEF FilesInv, FileType, Processes
  <1>4. FileType'
    BY <1>1, <1>2, <1>3, EmptyRegistry DEF FilesInv, FileType, Processes
  <1>5. FileInv'
    BY <1>1, <1>2, <1>3 DEF FilesInv, FileInv, Saving, Processes, Whole
  <1>6. Covered'
    BY <1>1, <1>2, <1>3 DEF FilesInv, Covered, Has, Processes
  <1>7. Contents' \subseteq Contents \cup NotContents \cup {<<>>}
    BY <1>1, <1>2, <1>3 DEF Contents, NotContents, Processes
  <1>. QED
    BY <1>2, <1>3, <1>4, <1>5, <1>6, <1>7 DEF FilesInv

\* ... and generates the file.
LEMMA GenerateFiles ==
    ASSUME FilesInv, Generate("worker", InitialModels)
    PROVE  /\ FilesInv' /\ Contents' \subseteq Contents \cup NotContents \cup {InitialModels}
           /\ file["worker"].pc = "boot" /\ file["worker"].inode \in {"path", "unlinked"}
           /\ file'["worker"].pc = "closed" /\ file'["api"] = file["api"]
PROOF
  <1>1. file["worker"].pc = "boot" /\ WriteOpen("worker", InitialModels) /\ collided' = collided
        /\ file' = [file EXCEPT !["worker"] = Closed]
    BY DEF Generate
  <1>2. Closed \in FileRecord /\ Closed.pc = "closed" /\ Closed.inode = "none" /\ Closed.seen = Unread
    BY DEF Closed, FileRecord
  <1>3. /\ file' \in [Processes -> FileRecord] /\ file'["worker"] = Closed
        /\ file'["api"] = file["api"]
    BY <1>1, <1>2 DEF FilesInv, FileType, Processes
  <1>4. Whole(InitialModels)
    BY TrainingAssumption DEF Whole, Registry
  <1>5. path \in Registry \cup {Torn} /\ file["worker"].inode \in {"path", "unlinked"}
    <2>1. file["worker"] \in FileRecord /\ file["worker"].inode \notin {"none", "tmp"}
      BY <1>1 DEF FilesInv, FileType, Processes
    <2>. QED
      BY <2>1 DEF FilesInv, FileType, FileRecord
  <1>6. /\ tmp' = tmp
        /\ \/ file["worker"].inode = "path" /\ path' \in Overlay(path, InitialModels)
           \/ file["worker"].inode = "unlinked" /\ path' = path
    BY <1>1, <1>5 DEF WriteOpen
  <1>7. path' \in {path, InitialModels, Torn} /\ path' \in Registry \cup {Torn}
    BY <1>4, <1>5, <1>6, OverlayFacts DEF Whole
  <1>8. FileType'
    BY <1>1, <1>2, <1>3, <1>6, <1>7 DEF FilesInv, FileType, Processes
  <1>9. ~collided => Whole(path')
    <2>1. CASE path = <<>>
      <3>1. Overlay(path, InitialModels) = {InitialModels}
        BY <1>4, <1>5, <2>1, OverlayFacts DEF Whole
      <3>. QED
        BY <1>1, <1>4, <1>6, <2>1, <3>1 DEF FilesInv, FileInv, Whole
    <2>2. CASE path # <<>>
      BY <1>1, <1>6, <2>2 DEF FilesInv, FileInv, Whole
    <2>. QED
      BY <2>1, <2>2
  <1>10. FileInv'
    BY <1>1, <1>2, <1>3, <1>6, <1>9 DEF FilesInv, FileInv, Saving, Processes, Whole
  <1>11. Covered'
    BY <1>1, <1>2, <1>3, <1>6 DEF FilesInv, Covered, Has, Processes
  <1>12. Contents' \subseteq Contents \cup NotContents \cup {InitialModels}
    BY <1>2, <1>3, <1>6, <1>7 DEF Contents, NotContents, Processes
  <1>. QED
    BY <1>1, <1>2, <1>3, <1>5, <1>8, <1>10, <1>11, <1>12 DEF FilesInv

----------------------------------------------------------------------------
\* What a step may do to the tables: jobs stay, audit trails grow, approvals are
\* added and decided.
ApprovalsGrow ==
    /\ DOMAIN approvals \subseteq DOMAIN approvals'
    /\ \A i \in DOMAIN approvals :
          /\ approvals'[i].job = approvals[i].job
          /\ approvals[i].state # "pending" => approvals'[i].state # "pending"

AuditGrows ==
    \A j \in Jobs : \A n \in DOMAIN audit[j] : n \in DOMAIN audit'[j] /\ audit'[j][n] = audit[j][n]

Grows ==
    /\ ApprovalsGrow
    /\ AuditGrows
    /\ \A j \in Jobs : Exists(j) => Exists(j)'

\* What an audit trail shows it goes on showing.
LEMMA TrailKept ==
    ASSUME AuditGrows, NEW j \in Jobs
    PROVE  /\ Ran(j) => Ran(j)'
           /\ Evaluated(j) => Evaluated(j)'
           /\ WentThrough(j) => WentThrough(j)'
           /\ \A status : Reached(j, status) => Reached(j, status)'
           /\ \A target : ReadyFor(j, target) => ReadyFor(j, target)'
PROOF
  <1>1. Ran(j) => Ran(j)'
    BY DEF Ran, AuditGrows
  <1>2. Evaluated(j) => Evaluated(j)'
    BY DEF Evaluated, AuditGrows
  <1>3. WentThrough(j) => WentThrough(j)'
    <2>. SUFFICES ASSUME WentThrough(j) PROVE WentThrough(j)'
      OBVIOUS
    <2>1. PICK a, b, c \in DOMAIN audit[j] :
             /\ a < b /\ b < c /\ audit[j][a] = "running"
             /\ audit[j][b] = "evaluating" /\ audit[j][c] = "shadow"
      BY DEF WentThrough
    <2>2. /\ a \in DOMAIN audit'[j] /\ b \in DOMAIN audit'[j] /\ c \in DOMAIN audit'[j]
          /\ audit'[j][a] = "running" /\ audit'[j][b] = "evaluating" /\ audit'[j][c] = "shadow"
      BY <2>1 DEF AuditGrows
    <2>. QED
      BY <2>1, <2>2 DEF WentThrough
  <1>. QED
    BY <1>1, <1>2, <1>3 DEF Reached, ReadyFor

\* The next result of the pipeline is recorded.
LEMMA AuditedTrail ==
    ASSUME audit \in [Jobs -> Seq(JOB_STATES)], NEW j \in Jobs, NEW result \in JOB_STATES,
           Audited(j, result)
    PROVE  /\ audit' \in [Jobs -> Seq(JOB_STATES)] /\ AuditGrows
           /\ ReadyFor(j, result) => Reached(j, result)'
PROOF
  <1> DEFINE trail == Append(audit[j], result)
             n == Len(audit[j]) + 1
  <1>1. audit[j] \in Seq(JOB_STATES) /\ Len(audit[j]) \in Nat /\ DOMAIN audit[j] = 1 .. Len(audit[j])
    BY LenProperties
  <1>2. /\ trail \in Seq(JOB_STATES) /\ Len(trail) = n /\ trail[n] = result
        /\ \A i \in 1 .. Len(audit[j]) : trail[i] = audit[j][i]
    BY <1>1, AppendProperties
  <1>3. DOMAIN trail = 1 .. n
    BY <1>2, LenProperties
  <1>4. /\ audit' \in [Jobs -> Seq(JOB_STATES)] /\ audit'[j] = trail
        /\ \A i \in Jobs : i # j => audit'[i] = audit[i]
    BY <1>2 DEF Audited
  <1> HIDE DEF trail
  <1>5. \A i \in DOMAIN audit[j] : i \in DOMAIN trail /\ trail[i] = audit[j][i] /\ i < n
    BY <1>1, <1>2, <1>3
  <1>6. AuditGrows
    BY <1>4, <1>5 DEF AuditGrows
  <1>7. n \in DOMAIN trail
    BY <1>1, <1>3
  <1>8. ReadyFor(j, result) => Reached(j, result)'
    <2>1. CASE result = "running"
      BY <1>2, <1>4, <1>7, <2>1 DEF Reached, Ran
    <2>2. CASE result = "evaluating"
      <3>1. Ran(j) => Evaluated(j)'
        BY <1>2, <1>4, <1>5, <1>7, <2>2 DEF Ran, Evaluated
      <3>. QED
        BY <2>2, <3>1 DEF ReadyFor, Reached
    <2>3. CASE result = "shadow"
      <3>1. ASSUME Evaluated(j) PROVE WentThrough(j)'
        <4>1. PICK a, b \in DOMAIN audit[j] :
                 a < b /\ audit[j][a] = "running" /\ audit[j][b] = "evaluating"
          BY <3>1 DEF Evaluated
        <4>2. /\ a \in DOMAIN trail /\ b \in DOMAIN trail /\ b < n
              /\ trail[a] = "running" /\ trail[b] = "evaluating" /\ trail[n] = "shadow"
          BY <1>2, <1>5, <2>3, <4>1
        <4>. QED
          BY <1>4, <1>7, <4>1, <4>2 DEF WentThrough
      <3>. QED
        BY <2>3, <3>1 DEF ReadyFor, Reached
    <2>4. CASE result = "passed"
      BY <1>6, <2>4, TrailKept DEF ReadyFor, Reached
    <2>5. CASE result \notin {"running", "evaluating", "shadow", "passed"}
      BY <2>5 DEF Reached
    <2>. QED
      BY <2>1, <2>2, <2>3, <2>4, <2>5
  <1>. QED
    BY <1>4, <1>6, <1>8

\* What is said of a row stays true as the tables grow ...
LEMMA RowKept ==
    ASSUME Grows, NEW j \in Jobs, NEW row, RowOK(j, row)
    PROVE  RowOK(j, row)'
PROOF
  <1>1. Reached(j, row.status)'
    BY TrailKept DEF RowOK, Grows
  <1>. QED
    BY <1>1 DEF RowOK, Grows, ApprovalsGrow

\* ... and so does what is said of a handler of cancel ...
LEMMA CancelKept ==
    ASSUME Grows, NEW q, CancelOK(q)
    PROVE  CancelOK(q)'
  BY DEF CancelOK, Grows

\* ... and of a tick.
LEMMA TickKept ==
    ASSUME Grows, NEW q, TickOK(q)
    PROVE  TickOK(q)'
PROOF
  <1>1. q \in Tick /\ \A item \in q.todo : item.job \in Jobs
    BY DEF TickOK, Tick, Item
  <1>2. \A item \in q.todo : Exists(item.job)' /\ Reached(item.job, item.status)'
    BY <1>1, TrailKept DEF TickOK, Grows
  <1>3. q.pc \in {"file", "record"} => q.job \in Jobs /\ Exists(q.job)' /\ ReadyFor(q.job, q.target)'
    BY TrailKept DEF TickOK, Grows
  <1>4. q.pc = "record" /\ q.target = "passed" =>
           q.approval \in DOMAIN approvals' /\ approvals'[q.approval].job = q.job
    BY DEF TickOK, Grows, ApprovalsGrow
  <1>. QED
    BY <1>1, <1>2, <1>3, <1>4 DEF TickOK

\* A step that changes one row ...
LEMMA RowsMove ==
    ASSUME RowsInv, Grows, NEW j \in Jobs, NEW row, rows' = [rows EXCEPT ![j] = row], RowOK(j, row)'
    PROVE  RowsInv'
PROOF
  <1>1. row \in Row
    BY DEF RowOK
  <1>2. /\ rows' \in [Jobs -> Row] /\ rows'[j] = row
        /\ \A i \in Jobs : i # j => rows'[i] = rows[i]
    BY <1>1 DEF RowsInv
  <1>3. ASSUME NEW i \in Jobs PROVE RowOK(i, rows[i])'
    <2>1. CASE i = j
      BY <1>2, <2>1
    <2>2. CASE i # j
      <3>1. RowOK(i, rows[i]) /\ rows'[i] = rows[i]
        BY <1>2, <2>2 DEF RowsInv
      <3>. QED
        BY <3>1, RowKept
    <2>. QED
      BY <2>1, <2>2
  <1>. QED
    BY <1>2, <1>3 DEF RowsInv

\* ... one handler of cancel ...
LEMMA CancelsMove ==
    ASSUME CancelsInv, Grows, NEW c \in Cancels, NEW q, req' = [req EXCEPT ![c] = q], CancelOK(q)'
    PROVE  CancelsInv'
PROOF
  <1>1. q \in Cancel
    BY DEF CancelOK
  <1>2. /\ req' \in [Cancels -> Cancel] /\ req'[c] = q
        /\ \A d \in Cancels : d # c => req'[d] = req[d]
    BY <1>1 DEF CancelsInv
  <1>3. ASSUME NEW d \in Cancels PROVE CancelOK(req[d])'
    <2>1. CASE d = c
      BY <1>2, <2>1
    <2>2. CASE d # c
      <3>1. CancelOK(req[d]) /\ req'[d] = req[d]
        BY <1>2, <2>2 DEF CancelsInv
      <3>. QED
        BY <3>1, CancelKept
    <2>. QED
      BY <2>1, <2>2
  <1>. QED
    BY <1>2, <1>3 DEF CancelsInv

\* ... or one tick, to something in order, keeps the rest in order.
LEMMA TicksMove ==
    ASSUME TicksInv, Grows, NEW k \in Ticks, NEW q, tick' = [tick EXCEPT ![k] = q], TickOK(q)'
    PROVE  /\ TicksInv' /\ tick'[k] = q
           /\ \A l \in Ticks : l # k => tick'[l] = tick[l]
PROOF
  <1>1. q \in Tick
    BY DEF TickOK
  <1>2. /\ tick' \in [Ticks -> Tick] /\ tick'[k] = q
        /\ \A l \in Ticks : l # k => tick'[l] = tick[l]
    BY <1>1 DEF TicksInv
  <1>3. ASSUME NEW l \in Ticks PROVE TickOK(tick[l])'
    <2>1. CASE l = k
      BY <1>2, <2>1
    <2>2. CASE l # k
      <3>1. TickOK(tick[l]) /\ tick'[l] = tick[l]
        BY <1>2, <2>2 DEF TicksInv
      <3>. QED
        BY <3>1, TickKept
    <2>. QED
      BY <2>1, <2>2
  <1>. QED
    BY <1>2, <1>3 DEF TicksInv

\* The parts of it whose table does not change.
LEMMA TablesKept ==
    ASSUME Grows
    PROVE  /\ RowsInv /\ rows' = rows => RowsInv'
           /\ CancelsInv /\ req' = req => CancelsInv'
           /\ TicksInv /\ tick' = tick => TicksInv'
PROOF
  <1>1. ASSUME RowsInv, rows' = rows PROVE RowsInv'
    <2>1. ASSUME NEW i \in Jobs PROVE RowOK(i, rows[i])'
      <3>1. RowOK(i, rows[i]) /\ rows'[i] = rows[i]
        BY <1>1 DEF RowsInv
      <3>. QED
        BY <3>1, RowKept
    <2>. QED
      BY <1>1, <2>1 DEF RowsInv
  <1>2. ASSUME CancelsInv, req' = req PROVE CancelsInv'
    <2>1. ASSUME NEW d \in Cancels PROVE CancelOK(req[d])'
      <3>1. CancelOK(req[d]) /\ req'[d] = req[d]
        BY <1>2 DEF CancelsInv
      <3>. QED
        BY <3>1, CancelKept
    <2>. QED
      BY <1>2, <2>1 DEF CancelsInv
  <1>3. ASSUME TicksInv, tick' = tick PROVE TicksInv'
    <2>1. ASSUME NEW l \in Ticks PROVE TickOK(tick[l])'
      <3>1. TickOK(tick[l]) /\ tick'[l] = tick[l]
        BY <1>3 DEF TicksInv
      <3>. QED
        BY <3>1, TickKept
    <2>. QED
      BY <1>3, <2>1 DEF TicksInv
  <1>. QED
    BY <1>1, <1>2, <1>3

\* What the table of approvals holds.
LEMMA ApprovalsType ==
    ASSUME LogInv
    PROVE  /\ DOMAIN approvals = 1 .. Len(approvals) /\ Len(approvals) \in Nat
           /\ \A i \in DOMAIN approvals : /\ approvals[i] \in Approval
                                          /\ approvals[i].job \in Jobs
PROOF
  <1>1. approvals \in Seq(Approval)
    BY DEF LogInv
  <1>2. DOMAIN approvals = 1 .. Len(approvals) /\ Len(approvals) \in Nat
    BY <1>1, LenProperties
  <1>3. \A i \in DOMAIN approvals : approvals[i] \in Approval
    BY <1>1, <1>2, ElementOfSeq
  <1>. QED
    BY <1>2, <1>3 DEF Approval

\* The log goes on: what is proposed has been through the pipeline.
LEMMA LogMoves ==
    ASSUME LogInv, Grows, audit' \in [Jobs -> Seq(JOB_STATES)], approvals' \in Seq(Approval),
           \A i \in DOMAIN approvals' : i \in DOMAIN approvals \/ WentThrough(approvals[i].job)'
    PROVE  LogInv'
PROOF
  <1>1. \A i \in DOMAIN approvals : approvals[i].job \in Jobs /\ approvals'[i].job = approvals[i].job
    BY ApprovalsType DEF Grows, ApprovalsGrow
  <1>2. ASSUME NEW i \in DOMAIN approvals' PROVE WentThrough(approvals[i].job)'
    <2>1. CASE i \in DOMAIN approvals
      <3>1. WentThrough(approvals[i].job)
        BY <2>1 DEF LogInv
      <3>2. \A j \in Jobs : WentThrough(j) => WentThrough(j)'
        BY TrailKept DEF Grows
      <3>3. PICK j \in Jobs : j = approvals[i].job
        BY <1>1, <2>1
      <3>4. WentThrough(j)' /\ approvals'[i].job = j
        BY <1>1, <2>1, <3>1, <3>2, <3>3
      <3>. QED
        BY <3>4
    <2>2. CASE i \notin DOMAIN approvals
      BY <2>2
    <2>. QED
      BY <2>1, <2>2
  <1>. QED
    BY <1>2 DEF LogInv

\* The log goes on without a proposal or a decision.
LEMMA LogKept ==
    ASSUME LogInv, Grows, audit' \in [Jobs -> Seq(JOB_STATES)], approvals' = approvals
    PROVE  LogInv'
PROOF
  <1>1. approvals' \in Seq(Approval)
    BY DEF LogInv
  <1>2. \A i \in DOMAIN approvals' : i \in DOMAIN approvals
    OBVIOUS
  <1>. QED
    BY <1>1, <1>2, LogMoves

\* A step that leaves the tables alone lets them grow, by nothing.
LEMMA GrowsByNothing ==
    /\ approvals' = approvals => ApprovalsGrow
    /\ audit' = audit => AuditGrows
    /\ rows' = rows => \A j \in Jobs : Exists(j) => Exists(j)'
  BY DEF ApprovalsGrow, AuditGrows, Exists

\* An idle tick is in order.
LEMMA IdleTickOK == TickOK(IdleTick) /\ TickOK(IdleTick)'
PROOF
  <1>1. /\ IdleTick \in Tick /\ IdleTick.pc = "idle" /\ IdleTick.todo = {}
    BY DEF IdleTick, Tick
  <1>. QED
    BY <1>1 DEF TickOK

----------------------------------------------------------------------------
\* The empty file and the generated one hold no active candidate.
LEMMA SoundContents == Sound(<<>>) /\ Sound(InitialModels)
  BY TrainingAssumption DEF Sound

\* A decision that is taken stays taken, so what is sound stays sound.
LEMMA SoundKept ==
    ASSUME SoundInv, NEW new, Sound(new), ApprovalsGrow,
           Contents' \subseteq Contents \cup NotContents \cup {new}
    PROVE  SoundInv'
PROOF
  <1>1. \A j : Decided(j) => Decided(j)'
    BY DEF Decided, ApprovalsGrow
  <1>2. \A models : Sound(models) => Sound(models)'
    BY <1>1 DEF Sound
  <1>3. ASSUME NEW models \in Contents' \ NotContents PROVE Sound(models)'
    <2>1. Sound(models)
      BY <1>3 DEF SoundInv
    <2>. QED
      BY <1>2, <2>1
  <1>. QED
    BY <1>3 DEF SoundInv

\* A step that is not about the file.
LEMMA FilesKept ==
    ASSUME UNCHANGED fileVars
    PROVE  /\ path' = path /\ tmp' = tmp /\ file' = file /\ collided' = collided
           /\ FilesInv => FilesInv'
           /\ Contents' \subseteq Contents \cup NotContents \cup {<<>>}
PROOF
  <1>1. path' = path /\ tmp' = tmp /\ file' = file /\ collided' = collided
    BY DEF fileVars
  <1>2. FilesInv => FilesInv'
    BY <1>1 DEF FilesInv, FileType, FileInv, Saving, Covered, Has
  <1>3. Contents' = Contents
    BY <1>1 DEF Contents
  <1>. QED
    BY <1>1, <1>2, <1>3

\* No job becomes a candidate in this step.
NoNewCandidate == \A j \in Jobs : Candidate(j)' => Candidate(j)

\* The scenario of a job is fixed by its creation.
FormsKept == \A j \in Jobs : WellFormed(j)' => WellFormed(j)

\* What a step may do to the ticks without a new candidate: they are done with
\* work, or turn to other work than a candidate's.
TicksShrink ==
    \A k \in Ticks :
        /\ tick'[k].todo \subseteq tick[k].todo
        /\ tick'[k].pc = "record" /\ tick'[k].target = "shadow" =>
              /\ tick[k].pc = "record" /\ tick[k].target = "shadow"
              /\ tick'[k].job = tick[k].job
        /\ tick'[k].pc = "file" => tick[k].pc = "file" /\ tick'[k].job = tick[k].job

\* Jobs become candidates by their row, by a proposal or by a tick only.
LEMMA CandidatesKept ==
    ASSUME TicksShrink,
           \A i \in DOMAIN approvals' : i \in DOMAIN approvals /\ approvals'[i].job = approvals[i].job,
           FormsKept,
           \A j \in Jobs :
              rows'[j].status \in {"shadow", "passed"} /\ WellFormed(j) => Candidate(j)
    PROVE  NoNewCandidate
PROOF
  <1>. SUFFICES ASSUME NEW j \in Jobs, Candidate(j)' PROVE Candidate(j)
    BY DEF NoNewCandidate
  <1>0. WellFormed(j)
    BY DEF Candidate, FormsKept
  <1>1. CASE rows'[j].status \in {"shadow", "passed"}
    BY <1>0, <1>1
  <1>2. CASE \E i \in DOMAIN approvals' : approvals'[i].job = j
    BY <1>0, <1>2 DEF Candidate
  <1>3. CASE \E k \in Ticks : \E item \in tick'[k].todo : item.job = j /\ item.status = "shadow"
    BY <1>0, <1>3 DEF Candidate, TicksShrink
  <1>4. CASE \E k \in Ticks : tick'[k].pc = "record" /\ tick'[k].target = "shadow" /\ tick'[k].job = j
    BY <1>0, <1>4 DEF Candidate, TicksShrink
  <1>. QED
    BY <1>1, <1>2, <1>3, <1>4 DEF Candidate

\* A step that leaves rows, approvals and ticks alone makes no candidate.
LEMMA CandidatesSame ==
    /\ tick' = tick => TicksShrink
    /\ rows' = rows =>
          /\ FormsKept
          /\ \A j \in Jobs :
                rows'[j].status \in {"shadow", "passed"} /\ WellFormed(j) => Candidate(j)
    /\ approvals' = approvals =>
          \A i \in DOMAIN approvals' : i \in DOMAIN approvals /\ approvals'[i].job = approvals[i].job
  BY DEF TicksShrink, Candidate, FormsKept, WellFormed

\* The candidates stay in the file as long as nobody else replaces it.
LEMMA CandidateKept ==
    ASSUME CandidateInv, lost' \in {lost, TRUE},
           ~lost' => /\ path' = path
                     /\ \A p \in Processes : file'[p].inode \notin {"path", "unlinked"}
                     /\ \A j \in Jobs : Candidate(j)' => Candidate(j) \/ Has(path, j)
    PROVE  CandidateInv'
PROOF
  <1>1. lost' \in BOOLEAN /\ (~lost' => ~lost)
    BY DEF CandidateInv
  <1>2. ASSUME ~lost' PROVE path' \in Registry /\ \A j \in Jobs : Candidate(j)' => Has(path', j)
    <2>1. path \in Registry /\ \A j \in Jobs : Candidate(j) => Has(path, j)
      BY <1>1, <1>2 DEF CandidateInv
    <2>. QED
      BY <1>2, <2>1
  <1>3. \A j : Has(path, j)' <=> Has(path', j)
    BY DEF Has
  <1>. QED
    BY <1>1, <1>2, <1>3 DEF CandidateInv

\* A step that is not about the file keeps the invariant, given the tables.
LEMMA TableStep ==
    ASSUME Inv, UNCHANGED fileVars, TablesInv', ApprovalsGrow, lost' \in {lost, TRUE},
           \A k \in Ticks : tick'[k].pc = "file" => tick[k].pc = "file" /\ tick'[k].job = tick[k].job,
           ~lost' => \A j \in Jobs : Candidate(j)' => Candidate(j) \/ Has(path, j)
    PROVE  Inv'
PROOF
  <1>1. /\ path' = path /\ tmp' = tmp /\ file' = file /\ collided' = collided /\ FilesInv'
        /\ Contents' \subseteq Contents \cup NotContents \cup {<<>>}
    BY FilesKept DEF Inv
  <1>2. SoundInv'
    BY <1>1, SoundKept, SoundContents DEF Inv
  <1>3. FileTickInv'
    BY <1>1 DEF Inv, FileTickInv
  <1>4. CandidateWritten'
    BY <1>1 DEF Inv, CandidateWritten, Has
  <1>5. CandidateInv'
    <2>1. ~lost' => \A p \in Processes : file'[p].inode \notin {"path", "unlinked"}
      BY <1>1 DEF Inv, CandidateInv
    <2>. QED
      BY <1>1, <2>1, CandidateKept DEF Inv
  <1>. QED
    BY <1>1, <1>2, <1>3, <1>4, <1>5 DEF Inv

----------------------------------------------------------------------------
\* The initial state: no jobs, and the generated registry.
LEMMA InitInv == Init => Inv
PROOF
  <1>. SUFFICES ASSUME Init PROVE Inv
    OBVIOUS
  <1>1. /\ rows = [j \in Jobs |-> NoRow] /\ audit = [j \in Jobs |-> <<>>] /\ approvals = <<>>
        /\ req = [c \in Cancels |-> [pc |-> "new", job |-> Nothing]]
        /\ tick = [k \in Ticks |-> IdleTick] /\ lost = FALSE
    BY DEF Init
  <1>2. /\ path = InitialModels /\ tmp = Missing /\ collided = FALSE
        /\ file = [p \in Processes |-> Closed]
    BY DEF Init, FileInit
  <1>3. RowsInv
    <2>1. /\ NoRow \in Row /\ NoRow.status = "absent" /\ NoRow.approval = 0
          /\ NoRow.scenario = Scenario
      BY DEF NoRow, Row
    <2>2. \A j \in Jobs : RowOK(j, NoRow)
      BY <2>1 DEF RowOK, Reached
    <2>. QED
      BY <1>1, <2>1, <2>2 DEF RowsInv
  <1>4. LogInv
    <2>1. <<>> \in Seq(JOB_STATES) /\ <<>> \in Seq(Approval)
      BY EmptySeq
    <2>. QED
      BY <1>1, <2>1 DEF LogInv
  <1>5. CancelsInv
    BY <1>1 DEF CancelsInv, CancelOK, Cancel
  <1>6. TicksInv
    <2>1. IdleTick \in Tick
      BY IdleTickOK DEF TickOK
    <2>. QED
      BY <1>1, <2>1, IdleTickOK DEF TicksInv
  <1>7. Closed \in FileRecord /\ Closed.pc = "closed" /\ Closed.inode = "none" /\ Closed.seen = Unread
    BY DEF Closed, FileRecord
  <1>8. Whole(InitialModels) /\ InitialModels \in Registry
    BY TrainingAssumption DEF Whole, Registry
  <1>9. FilesInv
    <2>1. FileType
      BY <1>2, <1>7, <1>8 DEF FileType, Processes
    <2>2. FileInv
      BY <1>2, <1>7, <1>8 DEF FileInv, Saving, Processes
    <2>3. Covered
      BY <1>2, <1>7 DEF Covered
    <2>. QED
      BY <2>1, <2>2, <2>3 DEF FilesInv
  <1>10. SoundInv
    BY <1>2, <1>7, SoundContents DEF SoundInv, Contents, NotContents
  <1>11. IdleTick.pc = "idle" /\ IdleTick.todo = {}
    BY DEF IdleTick
  <1>12. FileTickInv /\ CandidateWritten
    BY <1>1, <1>11 DEF FileTickInv, CandidateWritten
  <1>13. CandidateInv
    <2>1. \A j \in Jobs : ~Candidate(j)
      BY <1>1, <1>11 DEF Candidate, NoRow
    <2>. QED
      BY <1>1, <1>2, <1>7, <1>8, <2>1 DEF CandidateInv, Processes
  <1>. QED
    BY <1>3, <1>4, <1>5, <1>6, <1>9, <1>10, <1>12, <1>13 DEF Inv, TablesInv

\* create inserts a queued job.
LEMMA CreateInv ==
    ASSUME Inv, NEW j \in Jobs, Create(j)
    PROVE  Inv'
PROOF
  <1>00. PICK s \in {Scenario, IllFormed} :
            rows' = [rows EXCEPT ![j] = [@ EXCEPT !.status = "queued", !.scenario = s]]
    BY DEF Create
  <1>0. PICK row : row = [rows[j] EXCEPT !.status = "queued", !.scenario = s]
    OBVIOUS
  <1>1. /\ rows' = [rows EXCEPT ![j] = row] /\ Audited(j, "queued") /\ approvals' = approvals
        /\ req' = req /\ tick' = tick /\ lost' = lost /\ UNCHANGED fileVars
    BY <1>00, <1>0 DEF Create
  <1>2. RowOK(j, rows[j]) /\ rows[j] \in Row /\ rows[j].status = "absent"
    BY DEF Create, Exists, Inv, TablesInv, RowsInv
  <1>3. row \in Row /\ row.status = "queued" /\ row.approval = rows[j].approval
    BY <1>0, <1>2 DEF Row, JOB_STATES
  <1>4. /\ audit' \in [Jobs -> Seq(JOB_STATES)] /\ AuditGrows
    BY <1>1, AuditedTrail DEF Inv, TablesInv, LogInv, JOB_STATES
  <1>5. rows'[j] = row /\ \A i \in Jobs : i # j => rows'[i] = rows[i]
    BY <1>1 DEF Inv, TablesInv, RowsInv
  <1>6. Grows
    BY <1>1, <1>3, <1>4, <1>5, GrowsByNothing DEF Grows, Exists
  <1>7. RowOK(j, row)'
    BY <1>1, <1>2, <1>3 DEF RowOK, Reached
  <1>8. TablesInv'
    BY <1>1, <1>4, <1>6, <1>7, RowsMove, LogKept, TablesKept DEF Inv, TablesInv
  <1>9. NoNewCandidate
    <2>1. \A i \in Jobs :
             rows'[i].status \in {"shadow", "passed"} /\ WellFormed(i) => Candidate(i)
      BY <1>3, <1>5 DEF Candidate
    <2>2. FormsKept
      <3>1. WellFormed(j)
        BY <1>2, TrainingAssumption DEF RowOK, WellFormed
      <3>. QED
        BY <1>5, <3>1 DEF FormsKept, WellFormed
    <2>. QED
      BY <1>1, <2>1, <2>2, CandidatesKept, CandidatesSame
  <1>. QED
    BY <1>1, <1>6, <1>8, <1>9, TableStep DEF Grows, NoNewCandidate

\* cancel reads the job ...
LEMMA ReadCancelInv ==
    ASSUME Inv, NEW c \in Cancels, NEW j \in Jobs, ReadCancel(c, j)
    PROVE  Inv'
PROOF
  <1>0. PICK q : q = [pc |-> IF Exists(j) /\ rows[j].status \notin TERMINAL_STATES
                               THEN "cancel" ELSE "done",
                      job |-> j]
    OBVIOUS
  <1>1. /\ req' = [req EXCEPT ![c] = q] /\ rows' = rows /\ audit' = audit /\ approvals' = approvals
        /\ tick' = tick /\ lost' = lost /\ UNCHANGED fileVars
    BY <1>0 DEF ReadCancel
  <1>2. Grows
    BY <1>1, GrowsByNothing DEF Grows
  <1>3. q \in Cancel /\ q.job = j /\ (q.pc = "cancel" => Exists(j))
    BY <1>0 DEF Cancel
  <1>4. CancelOK(q)'
    BY <1>1, <1>3 DEF CancelOK, Exists
  <1>5. LogInv'
    <2>1. LogInv /\ audit' \in [Jobs -> Seq(JOB_STATES)]
      BY <1>1 DEF Inv, TablesInv, LogInv
    <2>. QED
      BY <1>1, <1>2, <2>1, LogKept
  <1>6. TablesInv'
    BY <1>1, <1>2, <1>4, <1>5, CancelsMove, TablesKept DEF Inv, TablesInv
  <1>7. NoNewCandidate
    BY <1>1, CandidatesKept, CandidatesSame
  <1>. QED
    BY <1>1, <1>2, <1>6, <1>7, TableStep, CandidatesSame DEF Grows, NoNewCandidate

\* ... and cancels it, whatever its status is by now.
LEMMA CommitCancelInv ==
    ASSUME Inv, NEW c \in Cancels, CommitCancel(c)
    PROVE  Inv'
PROOF
  <1>1. /\ req[c] \in Cancel /\ req[c].pc = "cancel" /\ req[c].job \in Jobs /\ Exists(req[c].job)
    BY DEF CommitCancel, Inv, TablesInv, CancelsInv, CancelOK
  <1>2. PICK j \in Jobs : j = req[c].job
    BY <1>1
  <1>3. PICK row : row = [rows[j] EXCEPT !.status = "cancelled"]
    OBVIOUS
  <1>4. PICK q : q = [req[c] EXCEPT !.pc = "done"]
    OBVIOUS
  <1>5. /\ rows' = [rows EXCEPT ![j] = row] /\ Audited(j, "cancelled") /\ approvals' = approvals
        /\ req' = [req EXCEPT ![c] = q] /\ tick' = tick /\ lost' = lost /\ UNCHANGED fileVars
    BY <1>2, <1>3, <1>4 DEF CommitCancel
  <1>6. RowOK(j, rows[j]) /\ rows[j] \in Row
    BY DEF Inv, TablesInv, RowsInv
  <1>7. /\ row \in Row /\ row.status = "cancelled" /\ row.approval = rows[j].approval
        /\ row.scenario = rows[j].scenario
    BY <1>3, <1>6 DEF Row, JOB_STATES
  <1>8. /\ audit' \in [Jobs -> Seq(JOB_STATES)] /\ AuditGrows
    BY <1>5, AuditedTrail DEF Inv, TablesInv, LogInv, JOB_STATES
  <1>9. rows'[j] = row /\ \A i \in Jobs : i # j => rows'[i] = rows[i]
    BY <1>5 DEF Inv, TablesInv, RowsInv
  <1>10. Grows
    BY <1>5, <1>7, <1>8, <1>9, GrowsByNothing DEF Grows, Exists
  <1>11. RowOK(j, row)'
    BY <1>5, <1>6, <1>7 DEF RowOK, Reached
  <1>12. CancelOK(q)'
    BY <1>1, <1>4 DEF CancelOK, Cancel
  <1>13. TablesInv'
    BY <1>5, <1>8, <1>10, <1>11, <1>12, RowsMove, CancelsMove, LogKept, TablesKept DEF Inv, TablesInv
  <1>14. NoNewCandidate
    <2>1. \A i \in Jobs :
             rows'[i].status \in {"shadow", "passed"} /\ WellFormed(i) => Candidate(i)
      BY <1>7, <1>9 DEF Candidate
    <2>2. FormsKept
      BY <1>7, <1>9 DEF FormsKept, WellFormed
    <2>. QED
      BY <1>5, <2>1, <2>2, CandidatesKept, CandidatesSame
  <1>. QED
    BY <1>5, <1>10, <1>13, <1>14, TableStep DEF Grows, NoNewCandidate

----------------------------------------------------------------------------
\* A step of a tick that leaves the tables alone.
LEMMA TickTables ==
    ASSUME TablesInv, NEW k \in Ticks, NEW q, TickOK(q), tick' = [tick EXCEPT ![k] = q],
           UNCHANGED <<rows, audit, approvals, req>>
    PROVE  /\ TablesInv' /\ ApprovalsGrow /\ tick'[k] = q
           /\ \A l \in Ticks : l # k => tick'[l] = tick[l]
PROOF
  <1>1. rows' = rows /\ audit' = audit /\ approvals' = approvals /\ req' = req
    OBVIOUS
  <1>2. Grows
    BY <1>1, GrowsByNothing DEF Grows
  <1>3. TickOK(q)'
    BY <1>2, TickKept
  <1>4. TicksInv' /\ tick'[k] = q /\ \A l \in Ticks : l # k => tick'[l] = tick[l]
    BY <1>2, <1>3, TicksMove DEF TablesInv
  <1>5. LogInv /\ audit' \in [Jobs -> Seq(JOB_STATES)]
    BY <1>1 DEF TablesInv, LogInv
  <1>6. LogInv'
    BY <1>1, <1>2, <1>5, LogKept
  <1>. QED
    BY <1>1, <1>2, <1>4, <1>6, TablesKept DEF TablesInv, Grows

\* Such a step makes a candidate only of a job it lists or saves as one.
LEMMA TickCandidates ==
    ASSUME NEW k \in Ticks, NEW q, tick'[k] = q, \A l \in Ticks : l # k => tick'[l] = tick[l],
           rows' = rows, approvals' = approvals,
           \A item \in q.todo : item.status = "shadow" /\ WellFormed(item.job) => Candidate(item.job)
    PROVE  \A j \in Jobs : Candidate(j)' =>
              Candidate(j) \/ (q.pc = "record" /\ q.target = "shadow" /\ q.job = j)
PROOF
  <1>. SUFFICES ASSUME NEW j \in Jobs, Candidate(j)', ~Candidate(j)
                PROVE  q.pc = "record" /\ q.target = "shadow" /\ q.job = j
    OBVIOUS
  <1>1. /\ ~(rows'[j].status \in {"shadow", "passed"})
        /\ ~\E i \in DOMAIN approvals' : approvals'[i].job = j
        /\ WellFormed(j)
    BY DEF Candidate, WellFormed
  <1>2. PICK l \in Ticks : \/ \E item \in tick'[l].todo : item.job = j /\ item.status = "shadow"
                           \/ tick'[l].pc = "record" /\ tick'[l].target = "shadow" /\ tick'[l].job = j
    BY <1>1 DEF Candidate
  <1>3. l = k
    BY <1>1, <1>2 DEF Candidate
  <1>. QED
    BY <1>1, <1>2, <1>3

\* A step of a tick that leaves tables and file alone.
LEMMA QuietTick ==
    ASSUME Inv, NEW k \in Ticks, NEW q, TickOK(q), tick' = [tick EXCEPT ![k] = q],
           UNCHANGED <<rows, audit, approvals, req>>, UNCHANGED fileVars, lost' \in {lost, TRUE},
           q.pc # "file",
           \A item \in q.todo : item.status = "shadow" /\ WellFormed(item.job) => Candidate(item.job),
           q.pc = "record" /\ q.target = "shadow" /\ WellFormed(q.job) => lost'
    PROVE  Inv'
PROOF
  <1>1. /\ TablesInv' /\ ApprovalsGrow /\ tick'[k] = q
        /\ \A l \in Ticks : l # k => tick'[l] = tick[l]
    BY TickTables DEF Inv
  <1>2. rows' = rows /\ approvals' = approvals
    OBVIOUS
  <1>3. ~lost' => \A j \in Jobs : Candidate(j)' => Candidate(j)
    <2>1. \A j \in Jobs : Candidate(j)' => WellFormed(j)
      BY <1>2 DEF Candidate, WellFormed
    <2>2. \A j \in Jobs : Candidate(j)' =>
             Candidate(j) \/ (q.pc = "record" /\ q.target = "shadow" /\ q.job = j)
      BY <1>1, <1>2, TickCandidates
    <2>. QED
      BY <2>1, <2>2
  <1>4. \A l \in Ticks : tick'[l].pc = "file" => tick[l].pc = "file" /\ tick'[l].job = tick[l].job
    BY <1>1
  <1>. QED
    BY <1>1, <1>3, <1>4, TableStep

\* active_jobs lists jobs as they are.
LEMMA ListJobsInv ==
    ASSUME Inv, NEW k \in Ticks, ListJobs(k)
    PROVE  Inv'
PROOF
  <1> DEFINE active == {j \in Jobs : Exists(j) /\ rows[j].status \notin TERMINAL_STATES}
  <1>1. PICK todo : todo = {[job |-> j, status |-> rows[j].status] : j \in active}
    OBVIOUS
  <1>2. PICK q : q = [IdleTick EXCEPT !.pc = "next", !.todo = todo]
    OBVIOUS
  <1>3. /\ tick' = [tick EXCEPT ![k] = q] /\ UNCHANGED <<rows, audit, approvals, req>>
        /\ lost' = lost /\ UNCHANGED fileVars
    BY <1>1, <1>2 DEF ListJobs
  <1>4. ASSUME NEW item \in todo
        PROVE  /\ item \in Item /\ item.job \in Jobs /\ Exists(item.job)
               /\ item.status = rows[item.job].status
    <2>1. PICK j \in active : item = [job |-> j, status |-> rows[j].status]
      BY <1>1
    <2>2. rows[j] \in Row /\ rows[j].status # "absent" /\ rows[j].status \notin TERMINAL_STATES
      BY <2>1 DEF Inv, TablesInv, RowsInv, Exists
    <2>. QED
      BY <2>1, <2>2 DEF Row, Item
  <1>5. /\ q \in Tick /\ q.pc = "next" /\ q.todo = todo
    BY <1>2, <1>4 DEF IdleTick, Tick
  <1>6. \A item \in todo : Reached(item.job, item.status)
    BY <1>4 DEF Inv, TablesInv, RowsInv, RowOK
  <1>7. TickOK(q)
    BY <1>4, <1>5, <1>6 DEF TickOK
  <1>8. \A item \in q.todo : item.status = "shadow" /\ WellFormed(item.job) => Candidate(item.job)
    BY <1>4, <1>5 DEF Candidate
  <1>. QED
    BY <1>3, <1>5, <1>7, <1>8, QuietTick

\* A tick ends, or raises.
LEMMA TickEnds ==
    ASSUME Inv, NEW k \in Ticks, tick' = [tick EXCEPT ![k] = IdleTick],
           UNCHANGED <<rows, audit, approvals, req>>, UNCHANGED fileVars, lost' = lost
    PROVE  Inv'
PROOF
  <1>1. IdleTick.pc = "idle" /\ IdleTick.todo = {}
    BY DEF IdleTick
  <1>. QED
    BY <1>1, IdleTickOK, QuietTick

\* A tick turns to a job that is ready for the next state.
LEMMA TurnsFacts ==
    ASSUME TablesInv, NEW k \in Ticks, NEW item \in tick[k].todo, NEW pc \in {"file", "record"},
           NEW target, NEW approval \in Nat, Turns(k, item, pc, target, approval),
           NEW q, q = [pc |-> pc, todo |-> tick[k].todo \ {item}, job |-> item.job,
                       target |-> target, approval |-> approval]
    PROVE  /\ tick' = [tick EXCEPT ![k] = q]
           /\ q \in Tick /\ q.pc = pc /\ q.job = item.job /\ q.target = target
           /\ q.approval = approval /\ q.todo \subseteq tick[k].todo
           /\ target \in {"running", "evaluating", "shadow", "passed"}
           /\ target = "passed" => item.status = "shadow"
           /\ item.job \in Jobs /\ Exists(item.job) /\ ReadyFor(item.job, target)
           /\ tick[k].pc = "next"
           /\ \A other \in q.todo : Exists(other.job) /\ Reached(other.job, other.status)
           /\ \A other \in q.todo : other.status = "shadow" /\ WellFormed(other.job) => Candidate(other.job)
PROOF
  <1>1. /\ tick[k].pc = "next" /\ item \in tick[k].todo /\ next_happy[item.status] = target
        /\ tick' = [tick EXCEPT ![k] = q]
    BY DEF Turns
  <1>2. /\ tick[k] \in Tick
        /\ \A other \in tick[k].todo : Exists(other.job) /\ Reached(other.job, other.status)
    BY DEF TablesInv, TicksInv, TickOK
  <1>3. tick[k].todo \in SUBSET Item
    BY <1>2 DEF Tick
  <1>4. item \in Item /\ item.job \in Jobs /\ item.status \in JOB_STATES \ TERMINAL_STATES
    BY <1>3 DEF Item
  <1>5. item.status \in {"queued", "running", "evaluating", "shadow"}
    BY <1>4 DEF JOB_STATES, TERMINAL_STATES
  <1>6. /\ item.status = "queued" => target = "running"
        /\ item.status = "running" => target = "evaluating"
        /\ item.status = "evaluating" => target = "shadow"
        /\ item.status = "shadow" => target = "passed"
    BY <1>1 DEF next_happy
  <1>7. ReadyFor(item.job, target)
    BY <1>2, <1>5, <1>6 DEF ReadyFor, Reached
  <1>8. /\ q \in Tick /\ q.pc = pc /\ q.job = item.job /\ q.target = target
        /\ q.approval = approval /\ q.todo \subseteq tick[k].todo
    BY <1>3, <1>4, <1>5, <1>6 DEF Tick, JOB_STATES
  <1>9. \A other \in q.todo : other.status = "shadow" /\ WellFormed(other.job) => Candidate(other.job)
    BY <1>8 DEF Candidate
  <1>. QED
    BY <1>1, <1>2, <1>4, <1>5, <1>6, <1>7, <1>8, <1>9

\* The step to running or evaluating.
LEMMA ProgressInv ==
    ASSUME Inv, NEW k \in Ticks, NEW item \in tick[k].todo, Progress(k, item)
    PROVE  Inv'
PROOF
  <1>1. PICK target \in {"running", "evaluating"} : Turns(k, item, "record", target, 0)
    BY DEF Progress
  <1>2. UNCHANGED <<rows, audit, approvals, req>> /\ UNCHANGED fileVars /\ lost' = lost
    BY DEF Progress
  <1>3. PICK q : q = [pc |-> "record", todo |-> tick[k].todo \ {item}, job |-> item.job,
                      target |-> target, approval |-> 0]
    OBVIOUS
  <1>4. /\ tick' = [tick EXCEPT ![k] = q]
        /\ q \in Tick /\ q.pc = "record" /\ q.job = item.job /\ q.target = target
        /\ item.job \in Jobs /\ Exists(item.job) /\ ReadyFor(item.job, target)
        /\ \A other \in q.todo : Exists(other.job) /\ Reached(other.job, other.status)
        /\ \A other \in q.todo : other.status = "shadow" /\ WellFormed(other.job) => Candidate(other.job)
    BY <1>1, <1>3, TurnsFacts DEF Inv
  <1>5. TickOK(q)
    BY <1>4 DEF TickOK
  <1>. QED
    BY <1>2, <1>4, <1>5, QuietTick

\* The step to shadow, when models.jsonl is missing or the scenario ill-formed.
LEMMA MissingShadowInv ==
    ASSUME Inv, NEW k \in Ticks, NEW item \in tick[k].todo,
           Turns(k, item, "record", "shadow", 0),
           lost' = TRUE \/ (~WellFormed(item.job) /\ lost' = lost),
           UNCHANGED <<rows, audit, approvals, req>>, UNCHANGED fileVars
    PROVE  Inv'
PROOF
  <1>1. PICK q : q = [pc |-> "record", todo |-> tick[k].todo \ {item}, job |-> item.job,
                      target |-> "shadow", approval |-> 0]
    OBVIOUS
  <1>2. /\ tick' = [tick EXCEPT ![k] = q]
        /\ q \in Tick /\ q.pc = "record" /\ q.job = item.job /\ q.target = "shadow"
        /\ item.job \in Jobs /\ Exists(item.job) /\ ReadyFor(item.job, "shadow")
        /\ \A other \in q.todo : Exists(other.job) /\ Reached(other.job, other.status)
        /\ \A other \in q.todo : other.status = "shadow" /\ WellFormed(other.job) => Candidate(other.job)
    BY <1>1, TurnsFacts DEF Inv
  <1>3. TickOK(q)
    BY <1>2 DEF TickOK
  <1>. QED
    BY <1>2, <1>3, QuietTick

\* The step to passed: status and proposal are committed together.
LEMMA SpawnApprovalInv ==
    ASSUME Inv, NEW k \in Ticks, NEW item \in tick[k].todo, SpawnApproval(k, item)
    PROVE  Inv'
PROOF
  <1> DEFINE n == Len(approvals) + 1
  <1>1. PICK q : q = [pc |-> "record", todo |-> tick[k].todo \ {item}, job |-> item.job,
                      target |-> "passed", approval |-> n]
    OBVIOUS
  <1>2. PICK j : j = item.job
    OBVIOUS
  <1>3. PICK row : row = [rows[j] EXCEPT !.status = "passed"]
    OBVIOUS
  <1>4. PICK entry : entry = [job |-> j, state |-> "pending"]
    OBVIOUS
  <1>5. /\ Turns(k, item, "record", "passed", n)
        /\ approvals' = Append(approvals, entry) /\ rows' = [rows EXCEPT ![j] = row]
        /\ audit' = audit /\ req' = req /\ lost' = lost /\ UNCHANGED fileVars
    BY <1>2, <1>3, <1>4 DEF SpawnApproval
  <1>6. /\ DOMAIN approvals = 1 .. Len(approvals) /\ Len(approvals) \in Nat
        /\ approvals \in Seq(Approval)
    BY ApprovalsType DEF Inv, TablesInv, LogInv
  <1>7. /\ tick' = [tick EXCEPT ![k] = q]
        /\ q \in Tick /\ q.pc = "record" /\ q.job = j /\ q.target = "passed" /\ q.approval = n
        /\ q.todo \subseteq tick[k].todo /\ item.status = "shadow"
        /\ j \in Jobs /\ Exists(j) /\ ReadyFor(j, "passed")
        /\ \A other \in q.todo : Exists(other.job) /\ Reached(other.job, other.status)
    BY <1>1, <1>2, <1>5, <1>6, TurnsFacts DEF Inv
  <1>8. entry \in Approval /\ entry.job = j
    BY <1>4, <1>7 DEF Approval
  <1>9. /\ approvals' \in Seq(Approval) /\ DOMAIN approvals' = 1 .. n /\ approvals'[n] = entry
        /\ \A i \in DOMAIN approvals : approvals'[i] = approvals[i]
    <2>1. /\ approvals' \in Seq(Approval) /\ Len(approvals') = n /\ approvals'[n] = entry
          /\ \A i \in 1 .. Len(approvals) : approvals'[i] = approvals[i]
      BY <1>5, <1>6, <1>8, AppendProperties
    <2>. QED
      BY <1>6, <2>1, LenProperties
  <1>10. \A i \in DOMAIN approvals' : i = n \/ i \in DOMAIN approvals
    BY <1>6, <1>9
  <1>11. n \in DOMAIN approvals' /\ ApprovalsGrow
    BY <1>6, <1>9 DEF ApprovalsGrow
  <1>12. RowOK(j, rows[j]) /\ rows[j] \in Row
    BY <1>7 DEF Inv, TablesInv, RowsInv
  <1>13. /\ row \in Row /\ row.status = "passed" /\ row.approval = rows[j].approval
         /\ row.scenario = rows[j].scenario
    BY <1>3, <1>12 DEF Row, JOB_STATES
  <1>14. rows'[j] = row /\ \A i \in Jobs : i # j => rows'[i] = rows[i]
    BY <1>5, <1>7 DEF Inv, TablesInv, RowsInv
  <1>15. Grows
    BY <1>5, <1>11, <1>13, <1>14, GrowsByNothing DEF Grows, Exists
  <1>16. WentThrough(j)'
    <2>1. WentThrough(j)
      BY <1>7 DEF ReadyFor
    <2>. QED
      BY <1>7, <1>15, <2>1, TrailKept DEF Grows
  <1>17. RowOK(j, row)'
    <2>1. row.approval # 0 => row.approval \in DOMAIN approvals' /\ approvals'[row.approval].job = j
      BY <1>11, <1>12, <1>13 DEF RowOK, ApprovalsGrow
    <2>. QED
      BY <1>8, <1>9, <1>11, <1>13, <1>16, <2>1 DEF RowOK, Reached
  <1>18. LogInv'
    <2>1. \A i \in DOMAIN approvals' : i \in DOMAIN approvals \/ WentThrough(approvals[i].job)'
      BY <1>8, <1>9, <1>10, <1>16
    <2>2. LogInv /\ audit' \in [Jobs -> Seq(JOB_STATES)]
      BY <1>5 DEF Inv, TablesInv, LogInv
    <2>. QED
      BY <1>9, <1>15, <2>1, <2>2, LogMoves
  <1>19. TickOK(q)'
    <2>1. \A other \in q.todo : other.job \in Jobs
      BY <1>7 DEF Tick, Item
    <2>2. \A other \in q.todo : Exists(other.job)' /\ Reached(other.job, other.status)'
      BY <1>7, <1>15, <2>1, TrailKept DEF Grows
    <2>3. Exists(j)' /\ ReadyFor(j, "passed")'
      BY <1>7, <1>15, TrailKept DEF Grows
    <2>4. n \in DOMAIN approvals' /\ approvals'[n].job = j
      BY <1>8, <1>9, <1>11
    <2>. QED
      BY <1>7, <2>2, <2>3, <2>4 DEF TickOK
  <1>20. TicksInv' /\ tick'[k] = q /\ \A l \in Ticks : l # k => tick'[l] = tick[l]
    BY <1>7, <1>15, <1>19, TicksMove DEF Inv, TablesInv
  <1>21. TablesInv'
    BY <1>5, <1>7, <1>15, <1>17, <1>18, <1>20, RowsMove, TablesKept DEF Inv, TablesInv
  <1>22. ASSUME NEW i \in Jobs, Candidate(i)' PROVE Candidate(i)
    <2>1. WellFormed(i)
      BY <1>13, <1>14, <1>22 DEF Candidate, WellFormed
    <2>2. CASE i = j
      BY <1>2, <1>7, <2>1, <2>2 DEF Candidate
    <2>3. CASE i # j
      BY <1>7, <1>8, <1>9, <1>10, <1>14, <1>20, <1>22, <2>1, <2>3 DEF Candidate
    <2>. QED
      BY <2>2, <2>3
  <1>23. \A l \in Ticks : tick'[l].pc = "file" => tick[l].pc = "file" /\ tick'[l].job = tick[l].job
    BY <1>7, <1>20
  <1>. QED
    BY <1>5, <1>11, <1>21, <1>22, <1>23, TableStep

\* The record of a step: the row and its audit row.
LEMMA RecordInv ==
    ASSUME Inv, NEW k \in Ticks, Record(k)
    PROVE  Inv'
PROOF
  <1>1. PICK q : q = tick[k]
    OBVIOUS
  <1>2. q.pc = "record" /\ TickOK(q)
    BY <1>1 DEF Record, Inv, TablesInv, TicksInv
  <1>3. PICK j : j = q.job
    OBVIOUS
  <1>4. PICK row : row = RecordedRow(rows[j], q)
    OBVIOUS
  <1>5. PICK r : r = [IdleTick EXCEPT !.pc = "next", !.todo = q.todo]
    OBVIOUS
  <1>6. /\ q \in Tick /\ j \in Jobs /\ Exists(j) /\ ReadyFor(j, q.target)
        /\ q.target \in {"running", "evaluating", "shadow", "passed"}
        /\ q.target = "passed" => q.approval \in DOMAIN approvals /\ approvals[q.approval].job = j
    BY <1>2, <1>3 DEF TickOK
  <1>7. /\ rows' = [rows EXCEPT ![j] = row] /\ Audited(j, q.target)
        /\ tick' = [tick EXCEPT ![k] = r]
        /\ approvals' = approvals /\ req' = req /\ lost' = lost /\ UNCHANGED fileVars
    BY <1>1, <1>3, <1>4, <1>5 DEF Record
  <1>8. RowOK(j, rows[j]) /\ rows[j] \in Row /\ q.approval \in Nat
    BY <1>6 DEF Inv, TablesInv, RowsInv, Tick
  <1>9. q.target = "passed" =>
           row \in Row /\ row.status = rows[j].status /\ row.approval = q.approval
    BY <1>4, <1>8 DEF RecordedRow, Row
  <1>10. q.target = "shadow" =>
           row \in Row /\ row.status = "shadow" /\ row.approval = rows[j].approval
    BY <1>3, <1>4, <1>6, <1>8 DEF RecordedRow, Row, JOB_STATES
  <1>11. q.target \in {"running", "evaluating"} =>
           row \in Row /\ row.status = q.target /\ row.approval = rows[j].approval
    BY <1>4, <1>8 DEF RecordedRow, Row, JOB_STATES
  <1>12. /\ audit' \in [Jobs -> Seq(JOB_STATES)] /\ AuditGrows
         /\ \A target : target = q.target => Reached(j, target)'
    <2>1. /\ q.target \in JOB_STATES /\ audit \in [Jobs -> Seq(JOB_STATES)]
      BY <1>6 DEF JOB_STATES, Inv, TablesInv, LogInv
    <2>. QED
      BY <1>6, <1>7, <2>1, AuditedTrail
  <1>13. rows'[j] = row /\ \A i \in Jobs : i # j => rows'[i] = rows[i]
    BY <1>6, <1>7 DEF Inv, TablesInv, RowsInv
  <1>14. row \in Row /\ row.status # "absent" /\ row.scenario = rows[j].scenario
    <2>1. row.scenario = rows[j].scenario
      BY <1>4, <1>6, <1>8 DEF RecordedRow, Row
    <2>. QED
      BY <1>6, <1>9, <1>10, <1>11, <2>1 DEF Exists
  <1>15. Grows
    BY <1>7, <1>12, <1>13, <1>14, GrowsByNothing DEF Grows, Exists
  <1>16. RowOK(j, row)'
    <2>1. CASE q.target = "passed"
      <3>1. Reached(j, row.status)'
        <4>1. Reached(j, row.status)
          BY <1>8, <1>9, <2>1 DEF RowOK
        <4>. QED
          BY <1>6, <1>12, <4>1, TrailKept
      <3>2. row.status = "passed" => \E i \in DOMAIN approvals' : approvals'[i].job = j
        BY <1>6, <1>7, <2>1
      <3>3. row.approval \in DOMAIN approvals' /\ approvals'[row.approval].job = j
        BY <1>6, <1>7, <1>9, <2>1
      <3>. QED
        BY <1>14, <3>1, <3>2, <3>3 DEF RowOK
    <2>2. CASE q.target # "passed"
      <3>1. row.status = q.target /\ row.status # "passed" /\ row.approval = rows[j].approval
        BY <1>6, <1>10, <1>11, <2>2
      <3>2. Reached(j, row.status)'
        BY <1>12, <3>1
      <3>3. row.approval # 0 => row.approval \in DOMAIN approvals' /\ approvals'[row.approval].job = j
        BY <1>7, <1>8, <3>1 DEF RowOK
      <3>. QED
        BY <1>14, <3>1, <3>2, <3>3 DEF RowOK
    <2>. QED
      BY <2>1, <2>2
  <1>17. r \in Tick /\ r.pc = "next" /\ r.todo = q.todo
    BY <1>5, <1>6 DEF Tick, IdleTick
  <1>18. TickOK(r)'
    <2>1. TickOK(r)
      BY <1>2, <1>17 DEF TickOK
    <2>. QED
      BY <1>15, <2>1, TickKept
  <1>19. TicksInv' /\ tick'[k] = r /\ \A l \in Ticks : l # k => tick'[l] = tick[l]
    BY <1>7, <1>15, <1>18, TicksMove DEF Inv, TablesInv
  <1>20. TablesInv'
    BY <1>6, <1>7, <1>12, <1>15, <1>16, <1>19, RowsMove, LogKept, TablesKept DEF Inv, TablesInv
  <1>21. NoNewCandidate
    <2>1. TicksShrink
      BY <1>1, <1>17, <1>19 DEF TicksShrink
    <2>2. ASSUME NEW i \in Jobs, rows'[i].status \in {"shadow", "passed"}, WellFormed(i)
          PROVE  Candidate(i)
      <3>1. CASE i # j
        BY <1>13, <2>2, <3>1 DEF Candidate
      <3>2. CASE i = j /\ q.target = "passed"
        BY <1>9, <1>13, <2>2, <3>2 DEF Candidate
      <3>3. CASE i = j /\ q.target = "shadow"
        BY <1>1, <1>2, <1>3, <2>2, <3>3 DEF Candidate
      <3>4. CASE i = j /\ q.target \in {"running", "evaluating"}
        BY <1>11, <1>13, <2>2, <3>4
      <3>. QED
        BY <1>6, <3>1, <3>2, <3>3, <3>4
    <2>. QED
      <3>1. FormsKept
        BY <1>13, <1>14 DEF FormsKept, WellFormed
      <3>. QED
        BY <1>7, <2>1, <2>2, <3>1, CandidatesKept, CandidatesSame
  <1>22. \A l \in Ticks : tick'[l].pc = "file" => tick[l].pc = "file" /\ tick'[l].job = tick[l].job
    BY <1>17, <1>19
  <1>. QED
    BY <1>7, <1>15, <1>20, <1>21, <1>22, TableStep DEF Grows, NoNewCandidate

----------------------------------------------------------------------------
\* The parts of the invariant after a step on the file.
LEMMA FileStep ==
    ASSUME Inv, TablesInv', FilesInv', ApprovalsGrow, NEW new, Sound(new),
           Contents' \subseteq Contents \cup NotContents \cup {new},
           FileTickInv', CandidateWritten', CandidateInv'
    PROVE  Inv'
  BY SoundKept DEF Inv

\* A step that leaves all tables alone.
LEMMA TablesSame ==
    ASSUME TablesInv, UNCHANGED <<rows, audit, approvals, req, tick>>
    PROVE  TablesInv' /\ ApprovalsGrow /\ NoNewCandidate
PROOF
  <1>1. rows' = rows /\ audit' = audit /\ approvals' = approvals /\ req' = req /\ tick' = tick
    OBVIOUS
  <1>2. Grows
    BY <1>1, GrowsByNothing DEF Grows
  <1>3. LogInv /\ audit' \in [Jobs -> Seq(JOB_STATES)]
    BY <1>1 DEF TablesInv, LogInv
  <1>4. TablesInv'
    BY <1>1, <1>2, <1>3, LogKept, TablesKept DEF TablesInv
  <1>5. NoNewCandidate
    BY <1>1, CandidatesKept, CandidatesSame
  <1>. QED
    BY <1>2, <1>4, <1>5 DEF Grows

\* What a process has read is a registry like the file, and sound.
LEMMA SeenSound ==
    ASSUME Inv, NEW p \in Processes, file[p].pc \in {"read", "open", "written"}
    PROVE  file[p].seen \in Registry /\ Sound(file[p].seen)
PROOF
  <1>1. file[p].seen \in Registry
    BY DEF Inv, FilesInv, FileType
  <1>2. file[p].seen \in Contents \ NotContents
    BY <1>1, EmptyRegistry DEF Contents
  <1>. QED
    BY <1>1, <1>2 DEF Inv, SoundInv

\* add_shadow reads the file.
LEMMA EnterShadowInv ==
    ASSUME Inv, NEW k \in Ticks, NEW item \in tick[k].todo, EnterShadow(k, item)
    PROVE  Inv'
PROOF
  <1>1. UNCHANGED <<rows, audit, approvals, req>>
    BY DEF EnterShadow
  <1>2. CASE /\ Turns(k, item, "record", "shadow", 0) /\ UNCHANGED fileVars
             /\ lost' = TRUE \/ (~WellFormed(item.job) /\ lost' = lost)
    BY <1>1, <1>2, MissingShadowInv
  <1>3. CASE Turns(k, item, "file", "shadow", 0) /\ ReadAll("worker") /\ lost' = lost
    <2>1. PICK q : q = [pc |-> "file", todo |-> tick[k].todo \ {item}, job |-> item.job,
                        target |-> "shadow", approval |-> 0]
      OBVIOUS
    <2>2. /\ tick' = [tick EXCEPT ![k] = q]
          /\ q \in Tick /\ q.pc = "file" /\ q.job = item.job /\ q.target = "shadow"
          /\ item.job \in Jobs /\ Exists(item.job) /\ ReadyFor(item.job, "shadow")
          /\ \A other \in q.todo : Exists(other.job) /\ Reached(other.job, other.status)
          /\ \A other \in q.todo : other.status = "shadow" /\ WellFormed(other.job) => Candidate(other.job)
      BY <1>3, <2>1, TurnsFacts DEF Inv
    <2>3. TickOK(q)
      BY <2>2 DEF TickOK
    <2>4. /\ TablesInv' /\ ApprovalsGrow /\ tick'[k] = q
          /\ \A l \in Ticks : l # k => tick'[l] = tick[l]
      BY <1>1, <2>2, <2>3, TickTables DEF Inv
    <2>5. /\ FilesInv' /\ Contents' \subseteq Contents \cup NotContents
          /\ file'["worker"].pc = "read" /\ file'["worker"].inode = "none"
          /\ file'["api"] = file["api"]
      BY <1>3, ReadAllFiles DEF Inv, Processes
    <2>6. /\ path' = path /\ file["worker"].pc = "closed"
      BY <1>3 DEF ReadAll, Free
    <2>7. \A l \in Ticks : tick[l].pc # "file"
      BY <2>6 DEF Inv, FileTickInv
    <2>8. FileTickInv' /\ CandidateWritten'
      BY <2>2, <2>4, <2>5, <2>7 DEF FileTickInv, CandidateWritten
    <2>9. CandidateInv'
      <3>1. \A j \in Jobs : Candidate(j)' => Candidate(j)
        BY <1>1, <2>2, <2>4, TickCandidates
      <3>2. ~lost' => \A p \in Processes : file'[p].inode \notin {"path", "unlinked"}
        BY <1>3, <2>5 DEF Inv, CandidateInv, Processes
      <3>. QED
        BY <1>3, <2>6, <3>1, <3>2, CandidateKept DEF Inv
    <2>. QED
      BY <2>4, <2>5, <2>8, <2>9, FileStep, SoundContents
  <1>. QED
    BY <1>2, <1>3 DEF EnterShadow

\* It writes the file with the candidate ...
LEMMA SaveShadowInv ==
    ASSUME Inv, NEW k \in Ticks, SaveShadow(k)
    PROVE  Inv'
PROOF
  <1>1. /\ UNCHANGED <<rows, audit, approvals, req, tick>> /\ lost' = lost /\ tick' = tick
        /\ tick[k].pc = "file"
    BY DEF SaveShadow
  <1>2. TablesInv' /\ ApprovalsGrow /\ NoNewCandidate
    BY <1>1, TablesSame DEF Inv
  <1>3. CASE OpenTmp("worker")
    <2>1. /\ FilesInv' /\ Contents' \subseteq Contents \cup {<<>>}
          /\ path' = path /\ file'["worker"].pc = "open" /\ file'["worker"].inode = "tmp"
          /\ file'["api"] = file["api"]
      BY <1>3, OpenTmpFiles DEF Inv, Processes
    <2>2. FileTickInv' /\ CandidateWritten'
      BY <1>1, <2>1 DEF Inv, FileTickInv, CandidateWritten
    <2>3. CandidateInv'
      <3>1. ~lost' => \A p \in Processes : file'[p].inode \notin {"path", "unlinked"}
        BY <1>1, <2>1 DEF Inv, CandidateInv, Processes
      <3>. QED
        BY <1>1, <1>2, <2>1, <3>1, CandidateKept DEF Inv, NoNewCandidate
    <2>. QED
      BY <1>2, <2>1, <2>2, <2>3, FileStep, SoundContents
  <1>4. CASE CloseTmp("worker", add_shadow(file["worker"].seen, Scenario, tick[k].job))
    <2>1. PICK j \in Jobs : j = tick[k].job
      BY <1>1 DEF Inv, TablesInv, TicksInv, TickOK
    <2>2. PICK new : new = add_shadow(file["worker"].seen, Scenario, j)
      OBVIOUS
    <2>3. file["worker"].seen \in Registry /\ Sound(file["worker"].seen)
      BY <1>4, SeenSound DEF CloseTmp, Processes
    <2>4. /\ Whole(new) /\ Has(new, j) /\ Sound(new)
          /\ \A v \in Jobs : Has(file["worker"].seen, v) => Has(new, v)
      BY <2>2, <2>3, AddFacts
    <2>5. /\ FilesInv' /\ Contents' \subseteq Contents \cup NotContents \cup {new}
          /\ file'["worker"].pc = "written" /\ file'["worker"].inode = file["worker"].inode
          /\ file'["api"] = file["api"] /\ collided' = collided
          /\ ~collided => tmp' = new
          /\ file["worker"].inode # "path" => path' = path
      BY <1>4, <2>1, <2>2, <2>4, CloseTmpFiles DEF Inv, Processes
    <2>6. FileTickInv'
      BY <1>1, <2>5 DEF Inv, FileTickInv
    <2>7. CandidateWritten'
      <3>1. \A l \in Ticks : tick[l].pc = "file" => l = k
        BY <1>1 DEF Inv, FileTickInv
      <3>2. ASSUME ~collided', NEW l \in Ticks, tick'[l].pc = "file" PROVE Has(tmp, tick[l].job)'
        <4>1. tmp' = new /\ tick'[l].job = j
          BY <1>1, <2>1, <2>5, <3>1, <3>2
        <4>. QED
          BY <2>4, <4>1 DEF Has
      <3>. QED
        BY <3>2 DEF CandidateWritten
    <2>8. CandidateInv'
      <3>1. ~lost' => /\ path' = path
                      /\ \A p \in Processes : file'[p].inode \notin {"path", "unlinked"}
        BY <1>1, <2>5 DEF Inv, CandidateInv, Processes
      <3>. QED
        BY <1>1, <1>2, <3>1, CandidateKept DEF Inv, NoNewCandidate
    <2>. QED
      BY <1>2, <2>4, <2>5, <2>6, <2>7, <2>8, FileStep
  <1>. QED
    BY <1>3, <1>4 DEF SaveShadow

\* A save that takes effect keeps the candidates that are in the file it read.
LEMMA EffectKeepsCandidates ==
    ASSUME Inv, NEW p \in Processes, TakesEffect(p),
           ~collided => \A j \in Jobs : Candidate(j)' => Candidate(j) \/ Has(tmp, j)
    PROVE  CandidateInv'
PROOF
  <1>1. /\ Replace(p) /\ lost' = (lost \/ collided \/ path # file[p].seen)
    BY DEF TakesEffect
  <1>2. /\ path' = tmp /\ file'[p] = Closed /\ file[p].pc = "written"
        /\ \A q \in Processes : q # p => file'[q] = Renamed(file[q])
        /\ ~collided => Whole(tmp)
        /\ ~collided => \A q \in Processes : q # p => file[q].inode # "tmp"
    BY <1>1, ReplaceFiles DEF Inv, Replace
  <1>3. lost \in BOOLEAN /\ collided \in BOOLEAN
    BY DEF Inv, CandidateInv, FilesInv, FileType
  <1>4. ASSUME ~lost'
        PROVE  /\ \A q \in Processes : file'[q].inode \notin {"path", "unlinked"}
               /\ path' \in Registry
               /\ \A j \in Jobs : Candidate(j)' => Has(path, j)'
    <2>1. ~lost /\ ~collided /\ path = file[p].seen
      BY <1>1, <1>4
    <2>2. \A q \in Processes : file[q].inode \notin {"path", "unlinked"}
      BY <2>1 DEF Inv, CandidateInv
    <2>3. \A q \in Processes : file'[q].inode \notin {"path", "unlinked"}
      <3>1. \A q \in Processes : q # p => file'[q] = file[q]
        BY <1>2, <2>1, <2>2 DEF Renamed
      <3>. QED
        BY <1>2, <2>2, <3>1 DEF Closed
    <2>4. path' \in Registry
      BY <1>2, <2>1 DEF Whole
    <2>5. \A j \in Jobs : Candidate(j) => Has(tmp, j)
      BY <1>2, <2>1 DEF Inv, CandidateInv, FilesInv, Covered
    <2>6. \A j \in Jobs : Has(tmp, j) => Has(path, j)'
      BY <1>2 DEF Has
    <2>. QED
      BY <2>1, <2>3, <2>4, <2>5, <2>6
  <1>5. lost' \in BOOLEAN
    BY <1>1, <1>3
  <1>. QED
    BY <1>4, <1>5 DEF CandidateInv

\* ... and renames it, or fails.
LEMMA FinishShadowInv ==
    ASSUME Inv, NEW k \in Ticks, FinishShadow(k)
    PROVE  Inv'
PROOF
  <1>1. UNCHANGED <<rows, audit, approvals, req>> /\ tick[k].pc = "file"
    BY DEF FinishShadow
  <1>2. \A l \in Ticks : tick[l].pc = "file" => l = k
    BY <1>1 DEF Inv, FileTickInv
  <1>3. tick[k] \in Tick /\ TickOK(tick[k])
    BY DEF Inv, TablesInv, TicksInv
  <1>4. CASE TakesEffect("worker") /\ tick' = [tick EXCEPT ![k].pc = "record"]
    <2>1. PICK q : q = [tick[k] EXCEPT !.pc = "record"]
      OBVIOUS
    <2>2. /\ q \in Tick /\ q.pc = "record" /\ q.job = tick[k].job /\ q.target = tick[k].target
          /\ q.todo = tick[k].todo
      BY <1>3, <2>1 DEF Tick
    <2>3. TickOK(q) /\ q.target = "shadow" /\ q.job \in Jobs
      BY <1>1, <1>3, <2>2 DEF TickOK
    <2>4. tick' = [tick EXCEPT ![k] = q]
      BY <1>4, <2>1
    <2>5. /\ TablesInv' /\ ApprovalsGrow /\ tick'[k] = q
          /\ \A l \in Ticks : l # k => tick'[l] = tick[l]
      BY <1>1, <2>3, <2>4, TickTables DEF Inv
    <2>6. /\ FilesInv' /\ Contents' \subseteq Contents \cup NotContents
          /\ file'["worker"].pc = "closed" /\ file["worker"].pc = "written"
      BY <1>4, ReplaceFiles DEF Inv, Processes, TakesEffect, Replace, Closed
    <2>7. FileTickInv' /\ CandidateWritten'
      BY <1>2, <2>2, <2>5, <2>6 DEF FileTickInv, CandidateWritten
    <2>8. ~collided => Has(tmp, q.job)
      BY <1>1, <2>2, <2>6 DEF Inv, CandidateWritten
    <2>9. \A j \in Jobs : Candidate(j)' => Candidate(j) \/ q.job = j
      <3>1. \A item \in q.todo : item.status = "shadow" /\ WellFormed(item.job) => Candidate(item.job)
        BY <2>2 DEF Candidate
      <3>. QED
        BY <1>1, <2>5, <3>1, TickCandidates
    <2>10. CandidateInv'
      BY <1>4, <2>8, <2>9, EffectKeepsCandidates DEF Processes
    <2>. QED
      BY <2>5, <2>6, <2>7, <2>10, FileStep, SoundContents
  <1>5. CASE ReplaceFails("worker") /\ tick' = [tick EXCEPT ![k] = IdleTick] /\ UNCHANGED lost
    <2>1. IdleTick.pc = "idle" /\ IdleTick.todo = {}
      BY DEF IdleTick
    <2>2. /\ TablesInv' /\ ApprovalsGrow /\ tick'[k] = IdleTick
          /\ \A l \in Ticks : l # k => tick'[l] = tick[l]
      BY <1>1, <1>5, IdleTickOK, TickTables DEF Inv
    <2>3. /\ FilesInv' /\ Contents' \subseteq Contents \cup NotContents
          /\ path' = path /\ file'["worker"] = Closed /\ file'["api"] = file["api"]
      BY <1>5, CloseFiles DEF Inv, Processes, ReplaceFails
    <2>4. FileTickInv' /\ CandidateWritten'
      BY <1>2, <2>1, <2>2, <2>3 DEF FileTickInv, CandidateWritten, Closed
    <2>5. CandidateInv'
      <3>1. \A j \in Jobs : Candidate(j)' => Candidate(j)
        BY <1>1, <2>1, <2>2, TickCandidates
      <3>2. ~lost' => \A p \in Processes : file'[p].inode \notin {"path", "unlinked"}
        BY <1>5, <2>3 DEF Inv, CandidateInv, Processes, Closed
      <3>. QED
        BY <1>5, <2>3, <3>1, <3>2, CandidateKept DEF Inv
    <2>. QED
      BY <2>2, <2>3, <2>4, <2>5, FileStep, SoundContents
  <1>. QED
    BY <1>4, <1>5 DEF FinishShadow

\* A tick raises, with the file open or not.
LEMMA AbortInv ==
    ASSUME Inv, NEW k \in Ticks, Abort(k)
    PROVE  Inv'
PROOF
  <1>1. /\ UNCHANGED <<rows, audit, approvals, req>> /\ lost' = lost
        /\ tick[k].pc = "file" \/ file["worker"].pc = "closed"
        /\ tick' = [tick EXCEPT ![k] = IdleTick]
        /\ file' = [file EXCEPT !["worker"] = Closed] /\ UNCHANGED <<path, tmp, collided>>
    BY DEF Abort, CloseAll, Free
  <1>2. file["worker"].pc # "boot" /\ \A l \in Ticks : l # k => tick[l].pc # "file"
    BY <1>1 DEF Inv, FileTickInv
  <1>3. IdleTick.pc = "idle" /\ IdleTick.todo = {}
    BY DEF IdleTick
  <1>4. /\ TablesInv' /\ ApprovalsGrow /\ tick'[k] = IdleTick
        /\ \A l \in Ticks : l # k => tick'[l] = tick[l]
    BY <1>1, IdleTickOK, TickTables DEF Inv
  <1>5. /\ FilesInv' /\ Contents' \subseteq Contents \cup NotContents
        /\ path' = path /\ file'["worker"] = Closed /\ file'["api"] = file["api"]
    BY <1>1, <1>2, CloseFiles DEF Inv, Processes
  <1>6. FileTickInv' /\ CandidateWritten'
    BY <1>2, <1>3, <1>4, <1>5 DEF FileTickInv, CandidateWritten, Closed
  <1>7. CandidateInv'
    <2>1. \A j \in Jobs : Candidate(j)' => Candidate(j)
      BY <1>1, <1>3, <1>4, TickCandidates
    <2>2. ~lost' => \A p \in Processes : file'[p].inode \notin {"path", "unlinked"}
      BY <1>1, <1>5 DEF Inv, CandidateInv, Processes, Closed
    <2>. QED
      BY <1>1, <1>5, <2>1, <2>2, CandidateKept DEF Inv
  <1>. QED
    BY <1>4, <1>5, <1>6, <1>7, FileStep, SoundContents

\* The worker restarts ...
LEMMA RestartInv ==
    ASSUME Inv, Restart
    PROVE  Inv'
PROOF
  <1>1. /\ rows' = rows /\ audit' = audit /\ approvals' = approvals /\ req' = req /\ lost' = TRUE
        /\ tick' = [k \in Ticks |-> IdleTick] /\ Truncate("worker")
    BY DEF Restart
  <1>2. Grows
    BY <1>1, GrowsByNothing DEF Grows
  <1>3. LogInv /\ audit' \in [Jobs -> Seq(JOB_STATES)]
    BY <1>1 DEF Inv, TablesInv, LogInv
  <1>4. TicksInv'
    <2>1. IdleTick \in Tick
      BY IdleTickOK DEF TickOK
    <2>2. ASSUME NEW k \in Ticks PROVE TickOK(tick[k])'
      <3>1. tick'[k] = IdleTick
        BY <1>1
      <3>. QED
        BY <3>1, IdleTickOK
    <2>. QED
      BY <1>1, <2>1, <2>2 DEF TicksInv
  <1>5. TablesInv'
    BY <1>1, <1>2, <1>3, <1>4, LogKept, TablesKept DEF Inv, TablesInv
  <1>6. /\ FilesInv' /\ Contents' \subseteq Contents \cup NotContents \cup {<<>>}
        /\ file'["worker"].pc = "boot"
    BY <1>1, TruncateFiles DEF Inv
  <1>7. FileTickInv' /\ CandidateWritten' /\ CandidateInv'
    BY <1>1, <1>6 DEF FileTickInv, CandidateWritten, CandidateInv, IdleTick
  <1>. QED
    BY <1>2, <1>5, <1>6, <1>7, FileStep, SoundContents DEF Grows

\* ... and generates models.jsonl.
LEMMA BootInv ==
    ASSUME Inv, Boot
    PROVE  Inv'
PROOF
  <1>1. /\ UNCHANGED <<rows, audit, approvals, req, tick>> /\ tick' = tick /\ lost' = lost
        /\ Generate("worker", InitialModels)
    BY DEF Boot
  <1>2. TablesInv' /\ ApprovalsGrow
    BY <1>1, TablesSame DEF Inv
  <1>3. /\ FilesInv' /\ Contents' \subseteq Contents \cup NotContents \cup {InitialModels}
        /\ file["worker"].pc = "boot" /\ file["worker"].inode \in {"path", "unlinked"}
        /\ file'["worker"].pc = "closed"
    BY <1>1, GenerateFiles DEF Inv
  <1>4. FileTickInv' /\ CandidateWritten'
    BY <1>1, <1>3 DEF Inv, FileTickInv, CandidateWritten
  <1>5. lost = TRUE
    BY <1>3 DEF Inv, CandidateInv, Processes
  <1>6. CandidateInv'
    BY <1>1, <1>5 DEF CandidateInv
  <1>. QED
    BY <1>2, <1>3, <1>4, <1>6, FileStep, SoundContents

----------------------------------------------------------------------------
\* Decisions are taken, nothing is proposed.
LEMMA Decisions ==
    ASSUME TablesInv, approvals' \in Seq(Approval), DOMAIN approvals' = DOMAIN approvals,
           \A i \in DOMAIN approvals :
              /\ approvals'[i].job = approvals[i].job
              /\ approvals[i].state # "pending" => approvals'[i].state # "pending",
           rows' = rows, audit' = audit, tick' = tick
    PROVE  Grows /\ RowsInv' /\ LogInv' /\ TicksInv' /\ NoNewCandidate
PROOF
  <1>1. ApprovalsGrow
    BY DEF ApprovalsGrow
  <1>2. Grows
    BY <1>1, GrowsByNothing DEF Grows
  <1>3. LogInv /\ audit' \in [Jobs -> Seq(JOB_STATES)]
    BY DEF TablesInv, LogInv
  <1>4. LogInv'
    BY <1>2, <1>3, LogMoves
  <1>5. NoNewCandidate
    BY CandidatesKept, CandidatesSame
  <1>. QED
    BY <1>2, <1>4, <1>5, TablesKept DEF TablesInv

\* The same for one decision, with the handlers of cancel as they are.
LEMMA OneDecision ==
    ASSUME TablesInv, NEW i \in DOMAIN approvals, NEW state \in {"applying", "approved"},
           approvals' = [approvals EXCEPT ![i].state = state],
           rows' = rows, audit' = audit, tick' = tick, req' = req
    PROVE  /\ TablesInv' /\ ApprovalsGrow /\ NoNewCandidate
           /\ approvals'[i].state = state
PROOF
  <1>1. /\ DOMAIN approvals = 1 .. Len(approvals) /\ Len(approvals) \in Nat
        /\ \A m \in DOMAIN approvals : approvals[m] \in Approval
    BY ApprovalsType DEF TablesInv
  <1>2. PICK entry : entry = [approvals[i] EXCEPT !.state = state]
    OBVIOUS
  <1>3. approvals[i] \in Approval
    BY <1>1
  <1>4. entry \in Approval /\ entry.job = approvals[i].job /\ entry.state = state
    BY <1>2, <1>3 DEF Approval
  <1>5. /\ approvals \in [1 .. Len(approvals) -> Approval] /\ approvals' = [approvals EXCEPT ![i] = entry]
    <2>1. approvals \in Seq(Approval)
      BY DEF TablesInv, LogInv
    <2>. QED
      BY <1>2, <2>1, LenProperties
  <1>6. /\ approvals' \in [1 .. Len(approvals) -> Approval] /\ approvals'[i] = entry
        /\ \A m \in DOMAIN approvals : m # i => approvals'[m] = approvals[m]
    BY <1>1, <1>4, <1>5
  <1>7. approvals' \in Seq(Approval) /\ DOMAIN approvals' = DOMAIN approvals
    BY <1>1, <1>6, SeqDef
  <1>8. \A m \in DOMAIN approvals :
           /\ approvals'[m].job = approvals[m].job
           /\ approvals[m].state # "pending" => approvals'[m].state # "pending"
    BY <1>4, <1>6
  <1>9. Grows /\ RowsInv' /\ LogInv' /\ TicksInv' /\ NoNewCandidate
    BY <1>7, <1>8, Decisions
  <1>. QED
    BY <1>4, <1>6, <1>9, TablesKept DEF TablesInv, Grows

\* An approval is decided: the promotion goes on to save the file, or fails.
LEMMA ApproveInv ==
    ASSUME Inv, NEW i \in DOMAIN approvals, Approve(i)
    PROVE  Inv'
PROOF
  <1>1. rows' = rows /\ audit' = audit /\ tick' = tick /\ req' = req /\ lost' = lost
    BY DEF Approve
  <1>2. CASE /\ path # Torn /\ CanPromote(path, Scenario, approvals[i].job) /\ ReadAll("api")
             /\ approvals' = [approvals EXCEPT ![i].state = "applying"]
    <2>1. TablesInv' /\ ApprovalsGrow /\ NoNewCandidate
      BY <1>1, <1>2, OneDecision DEF Inv
    <2>2. path \in Registry
      BY <1>2 DEF Inv, FilesInv, FileType
    <2>3. path # <<>>
      <3>1. DOMAIN path # {}
        BY <1>2, <2>2, TargetFacts DEF CanPromote
      <3>. QED
        BY <3>1
    <2>4. /\ FilesInv' /\ Contents' \subseteq Contents \cup NotContents
          /\ file'["api"].inode = "none" /\ file'["worker"] = file["worker"]
      BY <1>2, <2>3, ReadAllFiles DEF Inv, Processes
    <2>5. path' = path /\ tmp' = tmp /\ collided' = collided
      BY <1>2 DEF ReadAll
    <2>6. FileTickInv' /\ CandidateWritten'
      BY <1>1, <2>4, <2>5 DEF Inv, FileTickInv, CandidateWritten, Has
    <2>7. CandidateInv'
      <3>1. ~lost' => \A p \in Processes : file'[p].inode \notin {"path", "unlinked"}
        BY <1>1, <2>4 DEF Inv, CandidateInv, Processes
      <3>. QED
        BY <1>1, <2>1, <2>5, <3>1, CandidateKept DEF Inv, NoNewCandidate
    <2>. QED
      BY <2>1, <2>4, <2>6, <2>7, FileStep, SoundContents
  <1>3. CASE approvals' = [approvals EXCEPT ![i].state = "approved"] /\ UNCHANGED fileVars
    <2>1. TablesInv' /\ ApprovalsGrow /\ NoNewCandidate
      BY <1>1, <1>3, OneDecision DEF Inv
    <2>. QED
      BY <1>1, <1>3, <2>1, TableStep DEF NoNewCandidate
  <1>. QED
    BY <1>2, <1>3 DEF Approve

\* The promotion writes the file ...
LEMMA SavePromotionInv ==
    ASSUME Inv, NEW i \in DOMAIN approvals, SavePromotion(i)
    PROVE  Inv'
PROOF
  <1>1. /\ UNCHANGED <<rows, audit, approvals, req, tick>> /\ lost' = lost /\ tick' = tick
        /\ approvals[i].state = "applying"
    BY DEF SavePromotion
  <1>2. TablesInv' /\ ApprovalsGrow /\ NoNewCandidate
    BY <1>1, TablesSame DEF Inv
  <1>3. CASE OpenTmp("api")
    <2>1. /\ FilesInv' /\ Contents' \subseteq Contents \cup {<<>>}
          /\ path' = path /\ file'["api"].inode = "tmp" /\ file'["worker"] = file["worker"]
          /\ file["worker"].pc = "written" => collided'
      BY <1>3, OpenTmpFiles DEF Inv, Processes
    <2>2. FileTickInv' /\ CandidateWritten'
      BY <1>1, <2>1 DEF Inv, FileTickInv, CandidateWritten
    <2>3. CandidateInv'
      <3>1. ~lost' => \A p \in Processes : file'[p].inode \notin {"path", "unlinked"}
        BY <1>1, <2>1 DEF Inv, CandidateInv, Processes
      <3>. QED
        BY <1>1, <1>2, <2>1, <3>1, CandidateKept DEF Inv, NoNewCandidate
    <2>. QED
      BY <1>2, <2>1, <2>2, <2>3, FileStep, SoundContents
  <1>4. CASE CloseTmp("api", Promote(file["api"].seen, Scenario, approvals[i].job))
    <2>1. PICK j \in Jobs : j = approvals[i].job
      BY ApprovalsType DEF Inv, TablesInv
    <2>2. PICK new : new = Promote(file["api"].seen, Scenario, j)
      OBVIOUS
    <2>3. /\ file["api"].seen \in Registry /\ Sound(file["api"].seen) /\ file["api"].pc = "open"
          /\ file["api"].seen # <<>>
      BY <1>4, SeenSound DEF CloseTmp, Processes, Inv, FilesInv, FileType
    <2>4. Decided(j)
      BY <1>1, <2>1 DEF Decided
    <2>5. /\ Whole(new) /\ Sound(new)
          /\ \A v \in Jobs : Has(file["api"].seen, v) => Has(new, v)
      BY <2>2, <2>3, <2>4, PromoteFacts
    <2>6. /\ FilesInv' /\ Contents' \subseteq Contents \cup NotContents \cup {new}
          /\ file'["api"].inode = file["api"].inode
          /\ file'["worker"] = file["worker"] /\ collided' = collided
          /\ file["api"].inode # "path" => path' = path
      BY <1>4, <2>1, <2>2, <2>5, CloseTmpFiles DEF Inv, Processes
    <2>7. FileTickInv'
      BY <1>1, <2>6 DEF Inv, FileTickInv
    <2>8. CandidateWritten'
      <3>1. ~collided => file["worker"].pc # "written"
        BY <2>3 DEF Inv, FilesInv, FileInv, Saving
      <3>. QED
        BY <2>6, <3>1 DEF CandidateWritten
    <2>9. CandidateInv'
      <3>1. ~lost' => /\ path' = path
                      /\ \A p \in Processes : file'[p].inode \notin {"path", "unlinked"}
        BY <1>1, <2>6 DEF Inv, CandidateInv, Processes
      <3>. QED
        BY <1>1, <1>2, <3>1, CandidateKept DEF Inv, NoNewCandidate
    <2>. QED
      BY <1>2, <2>5, <2>6, <2>7, <2>8, <2>9, FileStep
  <1>. QED
    BY <1>3, <1>4 DEF SavePromotion

\* ... and renames it, or fails.
LEMMA FinishPromotionInv ==
    ASSUME Inv, NEW i \in DOMAIN approvals, FinishPromotion(i)
    PROVE  Inv'
PROOF
  <1>1. /\ rows' = rows /\ audit' = audit /\ tick' = tick /\ req' = req
        /\ approvals' = [approvals EXCEPT ![i].state = "approved"]
    BY DEF FinishPromotion
  <1>2. TablesInv' /\ ApprovalsGrow /\ NoNewCandidate
    BY <1>1, OneDecision DEF Inv
  <1>3. CASE TakesEffect("api")
    <2>1. /\ FilesInv' /\ Contents' \subseteq Contents \cup NotContents
          /\ file["api"].pc = "written" /\ collided' = collided
          /\ file'["worker"].pc = file["worker"].pc
      BY <1>3, ReplaceFiles DEF Inv, Processes, TakesEffect, Replace
    <2>2. FileTickInv'
      BY <1>1, <2>1 DEF Inv, FileTickInv
    <2>3. CandidateWritten'
      <3>1. ~collided => file["worker"].pc # "written"
        BY <2>1 DEF Inv, FilesInv, FileInv, Saving
      <3>. QED
        BY <2>1, <3>1 DEF CandidateWritten
    <2>4. CandidateInv'
      BY <1>2, <1>3, EffectKeepsCandidates DEF NoNewCandidate, Processes
    <2>. QED
      BY <1>2, <2>1, <2>2, <2>3, <2>4, FileStep, SoundContents
  <1>4. CASE ReplaceFails("api") /\ lost' = lost
    <2>1. /\ FilesInv' /\ Contents' \subseteq Contents \cup NotContents
          /\ path' = path /\ tmp' = tmp /\ collided' = collided
          /\ file'["api"] = Closed /\ file'["worker"] = file["worker"]
      BY <1>4, CloseFiles DEF Inv, Processes, ReplaceFails
    <2>2. FileTickInv' /\ CandidateWritten'
      BY <1>1, <2>1 DEF Inv, FileTickInv, CandidateWritten, Has
    <2>3. CandidateInv'
      <3>1. ~lost' => \A p \in Processes : file'[p].inode \notin {"path", "unlinked"}
        BY <1>4, <2>1 DEF Inv, CandidateInv, Processes, Closed
      <3>. QED
        BY <1>2, <1>4, <2>1, <3>1, CandidateKept DEF Inv, NoNewCandidate
    <2>. QED
      BY <1>2, <2>1, <2>2, <2>3, FileStep, SoundContents
  <1>. QED
    BY <1>3, <1>4 DEF FinishPromotion

\* The api restarts in the middle of a promotion.
LEMMA RestartApiInv ==
    ASSUME Inv, RestartApi
    PROVE  Inv'
PROOF
  <1>1. /\ rows' = rows /\ audit' = audit /\ tick' = tick /\ lost' = lost
        /\ file' = [file EXCEPT !["api"] = Closed] /\ UNCHANGED <<path, tmp, collided>>
        /\ approvals' = [i \in DOMAIN approvals |->
                            IF approvals[i].state = "applying"
                              THEN [approvals[i] EXCEPT !.state = "approved"] ELSE approvals[i]]
        /\ req' = [c \in Cancels |-> IF req[c].pc = "cancel" THEN [req[c] EXCEPT !.pc = "done"]
                                     ELSE req[c]]
    BY DEF RestartApi, CloseAll
  <1>2. /\ DOMAIN approvals = 1 .. Len(approvals) /\ Len(approvals) \in Nat
        /\ \A i \in DOMAIN approvals : approvals[i] \in Approval
    BY ApprovalsType DEF Inv, TablesInv
  <1>3. ASSUME NEW i \in DOMAIN approvals
        PROVE  /\ approvals'[i] \in Approval
               /\ approvals'[i].job = approvals[i].job
               /\ approvals[i].state # "pending" => approvals'[i].state # "pending"
    <2>1. approvals[i] \in Approval
      BY <1>2
    <2>2. approvals'[i] = IF approvals[i].state = "applying"
                            THEN [approvals[i] EXCEPT !.state = "approved"] ELSE approvals[i]
      BY <1>1
    <2>. QED
      BY <2>1, <2>2 DEF Approval
  <1>4. DOMAIN approvals' = DOMAIN approvals /\ approvals' \in [1 .. Len(approvals) -> Approval]
    BY <1>1, <1>2, <1>3
  <1>5. approvals' \in Seq(Approval)
    BY <1>2, <1>4, SeqDef
  <1>6. Grows /\ RowsInv' /\ LogInv' /\ TicksInv' /\ NoNewCandidate
    BY <1>1, <1>3, <1>4, <1>5, Decisions DEF Inv
  <1>7. CancelsInv'
    <2>1. ASSUME NEW c \in Cancels PROVE req'[c] \in Cancel /\ req'[c].pc # "cancel"
      <3>1. req[c] \in Cancel
        BY DEF Inv, TablesInv, CancelsInv
      <3>2. req'[c] = IF req[c].pc = "cancel" THEN [req[c] EXCEPT !.pc = "done"] ELSE req[c]
        BY <1>1
      <3>. QED
        BY <3>1, <3>2 DEF Cancel
    <2>2. req' \in [Cancels -> Cancel]
      BY <1>1, <2>1
    <2>. QED
      BY <2>1, <2>2 DEF CancelsInv, CancelOK
  <1>8. TablesInv' /\ ApprovalsGrow
    BY <1>6, <1>7 DEF TablesInv, Grows
  <1>9. /\ FilesInv' /\ Contents' \subseteq Contents \cup NotContents
        /\ path' = path /\ tmp' = tmp /\ collided' = collided
        /\ file'["api"] = Closed /\ file'["worker"] = file["worker"]
    <2>1. file["api"].pc # "boot"
      BY DEF Inv, FilesInv, FileType
    <2>. QED
      BY <1>1, <2>1, CloseFiles DEF Inv, Processes
  <1>10. FileTickInv' /\ CandidateWritten'
    BY <1>1, <1>9 DEF Inv, FileTickInv, CandidateWritten, Has
  <1>11. CandidateInv'
    <2>1. ~lost' => \A p \in Processes : file'[p].inode \notin {"path", "unlinked"}
      BY <1>1, <1>9 DEF Inv, CandidateInv, Processes, Closed
    <2>. QED
      BY <1>1, <1>6, <1>9, <2>1, CandidateKept DEF Inv, NoNewCandidate
  <1>. QED
    BY <1>8, <1>9, <1>10, <1>11, FileStep, SoundContents

----------------------------------------------------------------------------
\* Every step keeps the invariant.
LEMMA NextInv == Inv /\ [Next]_vars => Inv'
PROOF
  <1>. SUFFICES ASSUME Inv, [Next]_vars PROVE Inv'
    OBVIOUS
  <1>1. CASE ApiStep
    BY <1>1, CreateInv, CommitCancelInv, ReadCancelInv, ApproveInv DEF ApiStep
  <1>2. CASE \E i \in DOMAIN approvals : SavePromotion(i) \/ FinishPromotion(i)
    BY <1>2, SavePromotionInv, FinishPromotionInv
  <1>3. ASSUME NEW k \in Ticks, TickStep(k) PROVE Inv'
    <2>1. CASE SaveShadow(k) \/ FinishShadow(k)
      BY <2>1, SaveShadowInv, FinishShadowInv
    <2>2. CASE ListJobs(k) \/ Record(k)
      BY <2>2, ListJobsInv, RecordInv
    <2>3. CASE TickDone(k)
      BY <2>3, TickEnds DEF TickDone
    <2>4. ASSUME NEW item \in tick[k].todo,
                 \/ Progress(k, item) \/ EnterShadow(k, item) \/ SpawnApproval(k, item)
                 \/ Undecodable(k, item)
          PROVE  Inv'
      <3>1. CASE Undecodable(k, item)
        BY <3>1, TickEnds DEF Undecodable
      <3>. QED
        BY <2>4, <3>1, ProgressInv, EnterShadowInv, SpawnApprovalInv
    <2>. QED
      BY <1>3, <2>1, <2>2, <2>3, <2>4 DEF TickStep
  <1>4. CASE \E k \in Ticks : Abort(k)
    BY <1>4, AbortInv
  <1>5. CASE Restart \/ Boot \/ RestartApi
    BY <1>5, RestartInv, BootInv, RestartApiInv
  <1>6. CASE UNCHANGED vars
    <2>1. UNCHANGED <<rows, audit, approvals, req, tick>> /\ lost' = lost /\ UNCHANGED fileVars
          /\ tick' = tick
      BY <1>6 DEF vars
    <2>2. TablesInv' /\ ApprovalsGrow /\ NoNewCandidate
      BY <2>1, TablesSame DEF Inv
    <2>. QED
      BY <2>1, <2>2, TableStep DEF NoNewCandidate
  <1>. QED
    BY <1>1, <1>2, <1>3, <1>4, <1>5, <1>6 DEF Next

\* The invariant holds in every behaviour.
THEOREM Invariance == Spec => []Inv
  BY InitInv, NextInv, PTL DEF Spec

\* Tables, handlers and ticks keep their types, and no handler or tick works on a
\* job that does not exist (create, cancel, advance_training_jobs).
THEOREM TypeCorrect == Spec => []TypeOK
PROOF
  <1>1. Inv => TypeOK
    BY DEF Inv, TablesInv, RowsInv, LogInv, Approval, CancelsInv, CancelOK, Cancel, TicksInv,
           TickOK, TypeOK
  <1>. QED
    BY <1>1, Invariance, PTL

\* A job that is passed has a promotion to decide, and the approval it links to is
\* its own, however many jobs, ticks, cancels, failures and restarts there are
\* (advance, _spawn_promotion_approval).
THEOREM PassedIsProposed == Spec => []PassedHasApproval
PROOF
  <1>1. Inv => PassedHasApproval
    BY DEF Inv, TablesInv, RowsInv, RowOK, PassedHasApproval
  <1>. QED
    BY <1>1, Invariance, PTL

\* No trained version is proposed, or active, but for a job whose audit trail
\* shows running, evaluating and shadow in this order (next_happy, advance).
THEOREM NoShortcut == Spec => []PipelineHonoured
PROOF
  <1>1. ASSUME Inv PROVE PipelineHonoured
    <2>1. path # Torn => path \in Contents \ NotContents
      BY <1>1, EmptyRegistry DEF Inv, FilesInv, FileType, Contents
    <2>2. path # Torn => Sound(path)
      BY <1>1, <2>1 DEF Inv, SoundInv
    <2>. QED
      BY <1>1, <2>2 DEF Inv, TablesInv, LogInv, Sound, Decided, PipelineHonoured
  <1>. QED
    BY <1>1, Invariance, PTL

\* As long as models.jsonl is not lost or overwritten, the candidate of every
\* promotion proposed for a job of a well-formed scenario is in it (_enter_shadow,
\* add_shadow, promote).
THEOREM CandidatesAreRegistered == Spec => []CandidateRegistered
PROOF
  <1>1. ASSUME Inv, ~lost, NEW i \in DOMAIN approvals, WellFormed(approvals[i].job)
        PROVE  CanPromote(path, Scenario, approvals[i].job)
    <2>1. PICK j \in Jobs : j = approvals[i].job
      BY <1>1, ApprovalsType DEF Inv, TablesInv
    <2>2. Candidate(j)
      BY <1>1, <2>1 DEF Candidate
    <2>3. path \in Registry /\ Has(path, j)
      BY <1>1, <2>2 DEF Inv, CandidateInv
    <2>. QED
      BY <2>1, <2>3, TargetFacts DEF CanPromote
  <1>2. Inv => CandidateRegistered
    BY <1>1 DEF CandidateRegistered
  <1>. QED
    BY <1>2, Invariance, PTL

\* models.jsonl is neither torn nor empty unless two processes met in the one
\* temporary file, or the worker is booting (_write_all).
THEOREM RegistryStaysWhole == Spec => []RegistryWhole
PROOF
  <1>1. Inv => RegistryWhole
    BY EmptyRegistry DEF Inv, FilesInv, FileInv, Whole, NotContents, RegistryWhole
  <1>. QED
    BY <1>1, Invariance, PTL
============================================================================
