--------------------------- MODULE ExecutorProofs ---------------------------
(***************************************************************************)
(* Executor for any proposals, page size and number of crashes.            *)
(*                                                                         *)
(* The argument: the set of executed approvals in memory only grows while  *)
(* the process is up and is what the file says when it starts (DoneInv),   *)
(* an item of the page shows a status that is final or "unsettled"         *)
(* (PageInv); a try-out is charged to the crash it precedes or to an       *)
(* approval that will not be tried again, unless trying it out ends in an  *)
(* exception, which no reportable one does (TryInv, StillInv with          *)
(* OriginInv); memory and file hold the verified changes, or values that   *)
(* cannot be simulated, except between the try-out and the save            *)
(* (DeviceInv).                                                            *)
(***************************************************************************)
EXTENDS Executor, SequenceTheorems, FiniteSetTheorems, TLAPS

Pcs == {"down", "idle", "next", "save", "saving", "report", "reporting", "finish"}

\* The poll is between the try-out or the refusal of an item and its report.
Busy == loop.pc \in {"save", "saving", "report", "reporting"}

Effects == {"undecided", "unsettled", "applied", "failed"}

Listed == [approval : Approvals, effect : Effects \ {"undecided"}]

\* What the page says of an approval that was not "unsettled" is still so.
PageInv ==
    /\ loop \in [pc : Pcs, todo : Seq(Listed), outcome : Outcomes, still : BOOLEAN]
    /\ \A i \in DOMAIN loop.todo :
          LET item == loop.todo[i]
          IN  /\ effect[item.approval] # "undecided"
              /\ item.effect # "unsettled" => effect[item.approval] = item.effect
    /\ Busy => /\ loop.todo # <<>>
               /\ Item.effect = "applied"
               /\ Item.approval \notin done

TablesInv ==
    /\ effect \in [Approvals -> Effects]
    /\ value \in [Slots -> Int]
    /\ paramFile = Torn \/ paramFile \in [Slots -> Int]
    /\ reports \in [Approvals -> Outcomes \cup {"none", "torn"}]
    /\ done \in SUBSET Approvals
    /\ doneFile = Torn \/ doneFile \in SUBSET Approvals
    /\ kept \in SUBSET Approvals
    /\ verified \in [Slots -> Approvals \cup {0}]
    /\ applies \in [Approvals -> Nat]
    /\ crashes \in Nat

Final(a) == effect[a] = "failed" \/ (effect[a] = "applied" /\ Reported(a))

DoneInv ==
    /\ loop.pc # "down" => \A a \in done : Final(a)
    /\ doneFile # Torn => \A a \in doneFile : Final(a)
    /\ loop.pc # "down" /\ doneFile # Torn => doneFile \subseteq done

\* Every parameter is the initial one or comes from a proposal.
Origin(f) ==
    \A s \in Slots : f[s] = Base \/ \E b \in Approvals : Slot[b] = s /\ f[s] = New[b]

OriginInv == Origin(value) /\ (paramFile # Torn => Origin(paramFile))

StillInv == Busy /\ loop.still => ~Reportable(Item.approval)

TryInv ==
    \A a \in Approvals :
        Reportable(a) =>
            /\ applies[a] <= 1 + crashes
            /\ applies[a] <= crashes \/ (loop.pc # "down" /\ a \in done) \/ (Busy /\ a = Item.approval)

\* The verified changes of v and the one of a.
Kept(v, a) == [v EXCEPT ![Slot[a]] = a]

DeviceInv ==
    /\ loop.pc \in {"idle", "next", "report", "reporting", "finish"} => InForce(value, verified)
    /\ loop.pc \in {"save", "saving"} =>
          \/ loop.outcome = "verified" /\ InForce(value, Kept(verified, Item.approval))
          \/ loop.outcome = "rolled_back" /\ InForce(value, verified)
    /\ loop.pc \in {"report", "reporting"} /\ loop.outcome = "verified" =>
          Item.approval \in kept

Inv == /\ TablesInv /\ PageInv /\ DoneInv /\ OriginInv /\ StillInv
       /\ TryInv /\ DeviceInv /\ DeviceMatchesReports

----------------------------------------------------------------------------
\* The page is finite.
LEMMA PageFinite == Page \subseteq Approvals /\ IsFiniteSet(Page) /\ Cardinality(Page) \in Nat
PROOF
  <1>1. Page \subseteq Approvals
    BY DEF Page
  <1>2. IsFiniteSet(Approvals)
    BY FS_Interval, ExecutorAssumption DEF Approvals
  <1>3. IsFiniteSet(Page)
    BY <1>1, <1>2, FS_Subset
  <1>. QED
    BY <1>1, <1>3, FS_CardinalityType

\* What a poll gets: a sequence of approvals with the status they have.
LEMMA PollTodo ==
    ASSUME TablesInv, NEW ids \in SetToSeqs(Page)
    PROVE  LET todo == [i \in DOMAIN ids |-> [approval |-> ids[i], effect |-> effect[ids[i]]]]
           IN  /\ todo \in Seq(Listed)
               /\ \A i \in DOMAIN todo : /\ effect[todo[i].approval] # "undecided"
                                         /\ todo[i].effect = effect[todo[i].approval]
PROOF
  <1> DEFINE n == Cardinality(Page)
             todo == [i \in DOMAIN ids |-> [approval |-> ids[i], effect |-> effect[ids[i]]]]
  <1>1. n \in Nat /\ Page \subseteq Approvals
    BY PageFinite
  <1>2. ids \in [1 .. n -> Page]
    BY DEF SetToSeqs
  <1>3. ASSUME NEW i \in 1 .. n
        PROVE  ids[i] \in Approvals /\ effect[ids[i]] \in Effects \ {"undecided"}
    <2>1. ids[i] \in Page
      BY <1>2, <1>3
    <2>2. ids[i] \in Approvals /\ effect[ids[i]] # "undecided"
      BY <2>1 DEF Page
    <2>. QED
      BY <2>2 DEF TablesInv
  <1>4. \A i \in 1 .. n : /\ todo[i] = [approval |-> ids[i], effect |-> effect[ids[i]]]
                          /\ todo[i] \in Listed
    BY <1>2, <1>3 DEF Listed
  <1>5. todo \in [1 .. n -> Listed] /\ DOMAIN todo = 1 .. n
    BY <1>2, <1>4
  <1>6. todo \in Seq(Listed)
    BY <1>1, <1>5, SeqDef
  <1> HIDE DEF todo
  <1>7. \A i \in DOMAIN todo : /\ effect[todo[i].approval] # "undecided"
                               /\ todo[i].effect = effect[todo[i].approval]
    BY <1>3, <1>4, <1>5
  <1>. QED
    BY <1>6, <1>7 DEF todo

\* The item at hand and the rest of the page.
LEMMA TodoFacts ==
    ASSUME PageInv, loop.todo # <<>>
    PROVE  /\ Item \in Listed /\ Item.approval \in Approvals
           /\ effect[Item.approval] # "undecided"
           /\ Item.effect # "unsettled" => effect[Item.approval] = Item.effect
           /\ Tail(loop.todo) \in Seq(Listed)
           /\ \A i \in DOMAIN Tail(loop.todo) : \E k \in DOMAIN loop.todo :
                 Tail(loop.todo)[i] = loop.todo[k]
PROOF
  <1>1. loop.todo \in Seq(Listed)
    BY DEF PageInv
  <1>2. /\ Len(loop.todo) \in Nat \ {0} /\ DOMAIN loop.todo = 1 .. Len(loop.todo)
    BY <1>1, EmptySeq, LenProperties
  <1>3. Item = loop.todo[1] /\ Item \in Listed
    BY <1>1, <1>2, HeadTailProperties DEF Item
  <1>4. /\ Tail(loop.todo) \in Seq(Listed) /\ Len(Tail(loop.todo)) = Len(loop.todo) - 1
        /\ \A i \in 1 .. Len(Tail(loop.todo)) : Tail(loop.todo)[i] = loop.todo[i + 1]
    BY <1>1, HeadTailProperties
  <1>5. DOMAIN Tail(loop.todo) = 1 .. Len(Tail(loop.todo))
    BY <1>4, LenProperties
  <1>6. \A i \in DOMAIN Tail(loop.todo) : i + 1 \in DOMAIN loop.todo
    BY <1>2, <1>4, <1>5
  <1>7. Item.approval \in Approvals
    BY <1>3 DEF Listed
  <1>8. /\ effect[Item.approval] # "undecided"
        /\ Item.effect # "unsettled" => effect[Item.approval] = Item.effect
    BY <1>2, <1>3 DEF PageInv
  <1>9. \A i \in DOMAIN Tail(loop.todo) : \E k \in DOMAIN loop.todo :
           Tail(loop.todo)[i] = loop.todo[k]
    BY <1>4, <1>5, <1>6
  <1>. QED
    BY <1>3, <1>4, <1>7, <1>8, <1>9

\* One more verified change is in force after the values of before.
LEMMA InForceKept ==
    ASSUME TablesInv, NEW a \in Approvals, InForce(value, verified)
    PROVE  InForce(Changed(a), Kept(verified, a)) /\ Kept(verified, a) \in [Slots -> Approvals \cup {0}]
PROOF
  <1>1. Slot[a] \in Slots /\ a # 0
    BY ExecutorAssumption DEF Approvals
  <1>2. /\ Changed(a)[Slot[a]] = New[a] /\ Kept(verified, a)[Slot[a]] = a
        /\ \A s \in Slots : s # Slot[a] => /\ Changed(a)[s] = value[s]
                                           /\ Kept(verified, a)[s] = verified[s]
        /\ Kept(verified, a) \in [Slots -> Approvals \cup {0}]
    BY <1>1 DEF TablesInv, Changed, Kept
  <1>. QED
    BY <1>1, <1>2 DEF InForce, Promised

\* The value a proposal leaves behind when the device cannot be simulated with it.
LEMMA FatalChange ==
    ASSUME TablesInv, NEW a \in Approvals,
           ~HasValueOf(Fatal, value, ItsDevice(a)), HasValueOf(Fatal, Changed(a), ItsDevice(a))
    PROVE  <<Slot[a], New[a]>> \in Fatal
PROOF
  <1>1. PICK s \in Slots : Device[s] = ItsDevice(a) /\ <<s, Changed(a)[s]>> \in Fatal
    BY DEF HasValueOf
  <1>2. Slot[a] \in Slots
    BY ExecutorAssumption
  <1>3. s # Slot[a] => Changed(a)[s] = value[s]
    BY <1>2 DEF TablesInv, Changed
  <1>4. s = Slot[a]
    BY <1>1, <1>3 DEF HasValueOf
  <1>5. Changed(a)[Slot[a]] = New[a]
    BY <1>2 DEF TablesInv, Changed
  <1>. QED
    BY <1>1, <1>4, <1>5

\* A device at a standstill was brought there by a proposal.
LEMMA StillDevice ==
    ASSUME OriginInv, NEW a \in Approvals, HasValueOf(Still, value, ItsDevice(a))
    PROVE  ~Reportable(a)
PROOF
  <1>1. PICK s \in Slots : Device[s] = ItsDevice(a) /\ <<s, value[s]>> \in Still
    BY DEF HasValueOf
  <1>2. value[s] # Base
    BY <1>1, ExecutorAssumption
  <1>3. PICK b \in Approvals : Slot[b] = s /\ value[s] = New[b]
    BY <1>2 DEF OriginInv, Origin
  <1>4. ItsDevice(b) = ItsDevice(a) /\ <<Slot[b], New[b]>> \in Still
    BY <1>1, <1>3 DEF ItsDevice
  <1>. QED
    BY <1>4 DEF Reportable

\* A change keeps the origin of the parameters.
LEMMA OriginChanged ==
    ASSUME TablesInv, NEW a \in Approvals, Origin(value), New[a] # NonFloat
    PROVE  Origin(Changed(a)) /\ Changed(a) \in [Slots -> Int]
PROOF
  <1>1. Slot[a] \in Slots /\ New[a] \in Int
    BY ExecutorAssumption
  <1>2. /\ Changed(a) \in [Slots -> Int] /\ Changed(a)[Slot[a]] = New[a]
        /\ \A s \in Slots : s # Slot[a] => Changed(a)[s] = value[s]
    BY <1>1 DEF TablesInv, Changed
  <1>3. ASSUME NEW s \in Slots
        PROVE  Changed(a)[s] = Base \/ \E b \in Approvals : Slot[b] = s /\ Changed(a)[s] = New[b]
    BY <1>2 DEF Origin
  <1>. QED
    BY <1>2, <1>3 DEF Origin

----------------------------------------------------------------------------
\* Nothing is approved, tried out or written in the beginning.
LEMMA InitInv == Init => Inv
PROOF
  <1>. SUFFICES ASSUME Init PROVE Inv
    OBVIOUS
  <1>1. loop.pc = "idle" /\ loop.todo = <<>> /\ loop.outcome = "verified" /\ loop = Idle
    BY DEF Init, Idle
  <1>2. /\ kept = {} /\ verified \in [Slots -> Approvals \cup {0}]
        /\ \A s \in Slots : verified[s] = 0
    BY DEF Init
  <1>3. value \in [Slots -> Int] /\ paramFile = value /\ \A s \in Slots : value[s] = Base
    BY ExecutorAssumption DEF Init
  <1>4. 0 \in Nat
    OBVIOUS
  <1>5. TablesInv
    BY <1>2, <1>3, <1>4 DEF Init, TablesInv, Effects
  <1>6. InForce(value, verified)
    BY <1>2, <1>3 DEF InForce, Promised
  <1>7. ~Busy
    BY <1>1 DEF Busy
  <1>8. loop \in [pc : Pcs, todo : Seq(Listed), outcome : Outcomes, still : BOOLEAN]
    <2>1. <<>> \in Seq(Listed)
      BY EmptySeq
    <2>. QED
      BY <1>1, <2>1 DEF Idle, Pcs, Outcomes
  <1>9. PageInv
    BY <1>1, <1>7, <1>8 DEF PageInv
  <1>10. DoneInv
    BY DEF Init, DoneInv
  <1>11. TryInv
    BY DEF Init, TryInv
  <1>12. DeviceInv
    BY <1>1, <1>3, <1>6 DEF DeviceInv
  <1>13. DeviceMatchesReports
    BY <1>3, <1>6 DEF DeviceMatchesReports, Init
  <1>14. OriginInv /\ StillInv
    BY <1>3, <1>7 DEF OriginInv, Origin, StillInv
  <1>. QED
    BY <1>5, <1>9, <1>10, <1>11, <1>12, <1>13, <1>14 DEF Inv

\* The api decides or settles an approval that no poll has as final.
LEMMA EffectMoves ==
    ASSUME Inv, NEW a \in Approvals, NEW status \in Effects \ {"undecided"},
           effect[a] \in {"undecided", "unsettled"},
           effect' = [effect EXCEPT ![a] = status],
           UNCHANGED <<value, files, done, loop, ghosts>>
    PROVE  Inv'
PROOF
  <1>1. /\ effect' \in [Approvals -> Effects] /\ effect'[a] = status
        /\ \A b \in Approvals : b # a => effect'[b] = effect[b]
    BY DEF Inv, TablesInv
  <1>2. /\ value' = value /\ paramFile' = paramFile /\ reports' = reports /\ done' = done
        /\ doneFile' = doneFile /\ loop' = loop /\ kept' = kept /\ verified' = verified
        /\ applies' = applies /\ crashes' = crashes
    BY DEF files, ghosts
  <1>3. TablesInv'
    BY <1>1, <1>2 DEF Inv, TablesInv
  <1>4. \A b \in Approvals : Final(b) => Final(b)'
    BY <1>1, <1>2 DEF Final, Reported
  <1>5. DoneInv'
    <2>1. done \subseteq Approvals /\ (doneFile # Torn => doneFile \subseteq Approvals)
      BY DEF Inv, TablesInv
    <2>. QED
      BY <1>2, <1>4, <2>1 DEF Inv, DoneInv
  <1>6. PageInv'
    <2>1. ASSUME NEW i \in DOMAIN loop.todo
          PROVE  /\ effect'[loop.todo[i].approval] # "undecided"
                 /\ loop.todo[i].effect # "unsettled" =>
                        effect'[loop.todo[i].approval] = loop.todo[i].effect
      <3>1. loop.todo[i] \in Listed
        BY LenProperties, ElementOfSeq DEF Inv, PageInv
      <3>2. loop.todo[i].approval \in Approvals
        BY <3>1 DEF Listed
      <3>3. /\ effect[loop.todo[i].approval] # "undecided"
            /\ loop.todo[i].effect # "unsettled" =>
                  effect[loop.todo[i].approval] = loop.todo[i].effect
            /\ loop.todo[i].effect \in Effects \ {"undecided"}
        BY <3>1 DEF Inv, PageInv, Listed
      <3>. QED
        BY <1>1, <3>2, <3>3 DEF Effects
    <2>2. Busy' = Busy /\ Item' = Item
      BY <1>2 DEF Busy, Item
    <2>. QED
      BY <1>2, <2>1, <2>2 DEF Inv, PageInv
  <1>7. TryInv'
    BY <1>2 DEF Inv, TryInv, Busy, Item
  <1>8. DeviceInv' /\ DeviceMatchesReports'
    BY <1>2 DEF Inv, DeviceInv, DeviceMatchesReports, Item
  <1>9. OriginInv' /\ StillInv'
    BY <1>2 DEF Inv, OriginInv, StillInv, Busy, Item
  <1>. QED
    BY <1>3, <1>5, <1>6, <1>7, <1>8, <1>9 DEF Inv

\* The page as it is, or without its first item, as long as nothing is decided.
LEMMA PageKept ==
    ASSUME Inv, effect' = effect,
           loop' \in [pc : Pcs, todo : Seq(Listed), outcome : Outcomes, still : BOOLEAN],
           \A i \in DOMAIN loop'.todo : \E k \in DOMAIN loop.todo : loop'.todo[i] = loop.todo[k],
           Busy' => /\ loop'.todo # <<>> /\ Item'.effect = "applied" /\ Item'.approval \notin done'
    PROVE  PageInv'
  BY DEF Inv, PageInv

\* Only the poll itself moves on, between two items or from an item that is
\* refused to its report.
LEMMA PlainMove ==
    ASSUME Inv, UNCHANGED <<effect, value, files, done, ghosts>>,
           loop.pc \in {"idle", "next"}, PageInv',
           loop'.pc \in {"idle", "next", "report"},
           loop'.pc = "report" => loop'.outcome = "skipped_stale" /\ loop'.still = FALSE
    PROVE  Inv'
PROOF
  <1>1. /\ effect' = effect /\ value' = value /\ paramFile' = paramFile /\ reports' = reports
        /\ done' = done /\ doneFile' = doneFile /\ kept' = kept /\ verified' = verified
        /\ applies' = applies /\ crashes' = crashes
    BY DEF files, ghosts
  <1>2. ~Busy
    BY DEF Busy
  <1>3. TablesInv'
    BY <1>1 DEF Inv, TablesInv
  <1>4. DoneInv'
    BY <1>1 DEF Inv, DoneInv, Final, Reported
  <1>5. TryInv'
    BY <1>1, <1>2 DEF Inv, TryInv
  <1>6. DeviceInv'
    BY <1>1 DEF Inv, DeviceInv
  <1>7. DeviceMatchesReports'
    BY <1>1 DEF Inv, DeviceMatchesReports
  <1>8. OriginInv'
    BY <1>1 DEF Inv, OriginInv
  <1>9. StillInv'
    BY DEF StillInv, Busy
  <1>. QED
    BY <1>3, <1>4, <1>5, <1>6, <1>7, <1>8, <1>9 DEF Inv

\* The poll reads the page.
LEMMA InvPoll == Inv /\ Poll => Inv'
PROOF
  <1>. SUFFICES ASSUME Inv, Poll PROVE Inv'
    OBVIOUS
  <1>1. PICK ids \in SetToSeqs(Page) :
           loop' = [loop EXCEPT !.pc = "next",
                                !.todo = [i \in DOMAIN ids |->
                                            [approval |-> ids[i], effect |-> effect[ids[i]]]]]
    BY DEF Poll
  <1> DEFINE todo == [i \in DOMAIN ids |-> [approval |-> ids[i], effect |-> effect[ids[i]]]]
  <1>2. /\ todo \in Seq(Listed)
        /\ \A i \in DOMAIN todo : /\ effect[todo[i].approval] # "undecided"
                                  /\ todo[i].effect = effect[todo[i].approval]
    BY PollTodo DEF Inv
  <1> HIDE DEF todo
  <1>3. loop' = [loop EXCEPT !.pc = "next", !.todo = todo]
    BY <1>1 DEF todo
  <1>4. /\ loop' \in [pc : Pcs, todo : Seq(Listed), outcome : Outcomes, still : BOOLEAN]
        /\ loop'.pc = "next" /\ loop'.todo = todo
    BY <1>2, <1>3 DEF Inv, PageInv, Pcs
  <1>5. effect' = effect
    BY DEF Poll
  <1>6. PageInv'
    BY <1>2, <1>4, <1>5 DEF PageInv, Busy
  <1>. QED
    BY <1>4, <1>6, PlainMove DEF Poll

\* The poll goes on to the next item.
LEMMA NextItem ==
    ASSUME Inv, loop.todo # <<>>, NEW still \in BOOLEAN,
           loop' = [loop EXCEPT !.pc = "next", !.todo = Tail(@), !.still = still],
           effect' = effect
    PROVE  PageInv' /\ loop'.pc = "next"
PROOF
  <1>1. /\ Tail(loop.todo) \in Seq(Listed)
        /\ \A i \in DOMAIN Tail(loop.todo) : \E k \in DOMAIN loop.todo :
              Tail(loop.todo)[i] = loop.todo[k]
    BY TodoFacts DEF Inv
  <1>2. /\ loop' \in [pc : Pcs, todo : Seq(Listed), outcome : Outcomes, still : BOOLEAN]
        /\ loop'.pc = "next" /\ loop'.todo = Tail(loop.todo)
    BY <1>1 DEF Inv, PageInv, Pcs
  <1>3. ~Busy'
    BY <1>2 DEF Busy
  <1>. QED
    BY <1>1, <1>2, <1>3, PageKept

\* An item that is executed already or not settled yet.
LEMMA InvSkip == Inv /\ Skip => Inv'
PROOF
  <1>. SUFFICES ASSUME Inv, Skip PROVE Inv'
    OBVIOUS
  <1>1. loop.pc = "next" /\ loop.todo # <<>> /\ loop' = [loop EXCEPT !.todo = Tail(@)]
    BY DEF Skip, Turning
  <1>2. /\ loop' = [loop EXCEPT !.pc = "next", !.todo = Tail(@), !.still = loop.still]
        /\ loop.still \in BOOLEAN
    BY <1>1 DEF Inv, PageInv
  <1>3. PageInv' /\ loop'.pc = "next"
    BY <1>1, <1>2, NextItem DEF Skip
  <1>. QED
    BY <1>1, <1>3, PlainMove DEF Skip

\* A failed side effect: the approval is failed for good.
LEMMA InvExclude == Inv /\ Exclude => Inv'
PROOF
  <1>. SUFFICES ASSUME Inv, Exclude PROVE Inv'
    OBVIOUS
  <1>1. /\ loop.pc = "next" /\ loop.todo # <<>> /\ loop' = [loop EXCEPT !.todo = Tail(@)]
        /\ Item.effect \notin {"unsettled", "applied"} /\ done' = done \cup {Item.approval}
    BY DEF Exclude, Turning
  <1>2. /\ effect' = effect /\ value' = value /\ paramFile' = paramFile /\ reports' = reports
        /\ doneFile' = doneFile /\ kept' = kept /\ verified' = verified
        /\ applies' = applies /\ crashes' = crashes
    BY DEF Exclude, files, ghosts
  <1>3. /\ loop' = [loop EXCEPT !.pc = "next", !.todo = Tail(@), !.still = loop.still]
        /\ loop.still \in BOOLEAN
    <2>1. loop \in [pc : Pcs, todo : Seq(Listed), outcome : Outcomes, still : BOOLEAN]
      BY DEF Inv, PageInv
    <2>. QED
      BY <1>1, <2>1
  <1>4. PageInv' /\ loop'.pc = "next"
    BY <1>1, <1>2, <1>3, NextItem
  <1>5. /\ Item.approval \in Approvals /\ Item \in Listed
        /\ effect[Item.approval] = Item.effect
    BY <1>1, TodoFacts DEF Inv
  <1>6. effect[Item.approval] = "failed"
    BY <1>1, <1>5 DEF Listed, Effects
  <1>7. TablesInv'
    BY <1>1, <1>2, <1>5 DEF Inv, TablesInv
  <1>8. DoneInv'
    BY <1>1, <1>2, <1>6 DEF Inv, DoneInv, Final, Reported
  <1>9. TryInv'
    BY <1>1, <1>2, <1>4 DEF Inv, TryInv, Busy
  <1>10. DeviceInv' /\ DeviceMatchesReports'
    BY <1>1, <1>2, <1>4 DEF Inv, DeviceInv, DeviceMatchesReports
  <1>11. OriginInv' /\ StillInv'
    BY <1>2, <1>4 DEF Inv, OriginInv, StillInv, Busy
  <1>. QED
    BY <1>4, <1>7, <1>8, <1>9, <1>10, <1>11 DEF Inv

\* An item that cannot be started with ends the poll.
LEMMA InvRaises == Inv /\ Raises => Inv'
PROOF
  <1>. SUFFICES ASSUME Inv, Raises PROVE Inv'
    OBVIOUS
  <1>1. loop.pc = "next" /\ loop' = Idle /\ effect' = effect
    BY DEF Raises, Executes, Turning
  <1>2. /\ loop' \in [pc : Pcs, todo : Seq(Listed), outcome : Outcomes, still : BOOLEAN]
        /\ loop'.pc = "idle" /\ loop'.todo = <<>>
    <2>1. <<>> \in Seq(Listed)
      BY EmptySeq
    <2>. QED
      BY <1>1, <2>1 DEF Idle, Pcs, Outcomes
  <1>3. PageInv'
    BY <1>2 DEF PageInv, Busy
  <1>. QED
    BY <1>1, <1>2, <1>3, PlainMove DEF Raises

\* A stale proposal is refused.
LEMMA InvRefuse == Inv /\ Refuse => Inv'
PROOF
  <1>. SUFFICES ASSUME Inv, Refuse PROVE Inv'
    OBVIOUS
  <1>1. /\ loop.pc = "next" /\ loop.todo # <<>> /\ Item.approval \notin done
        /\ Item.effect = "applied" /\ effect' = effect /\ done' = done
        /\ loop' = [loop EXCEPT !.pc = "report", !.outcome = "skipped_stale", !.still = FALSE]
    BY DEF Refuse, Executes, Turning
  <1>2. /\ loop' \in [pc : Pcs, todo : Seq(Listed), outcome : Outcomes, still : BOOLEAN]
        /\ loop'.pc = "report" /\ loop'.todo = loop.todo
        /\ loop'.outcome = "skipped_stale" /\ loop'.still = FALSE
    BY <1>1 DEF Inv, PageInv, Pcs, Outcomes
  <1>3. Item' = Item
    BY <1>2 DEF Item
  <1>4. PageInv'
    BY <1>1, <1>2, <1>3, PageKept
  <1>. QED
    BY <1>1, <1>2, <1>4, PlainMove DEF Refuse

\* The poll stays with its item.
LEMMA SameItem ==
    ASSUME Inv, loop.todo # <<>>, NEW pc \in Pcs, NEW outcome \in Outcomes, NEW still \in BOOLEAN,
           loop' = [loop EXCEPT !.pc = pc, !.outcome = outcome, !.still = still],
           effect' = effect, done' = done,
           Item.effect = "applied", Item.approval \notin done
    PROVE  /\ PageInv' /\ Item' = Item /\ loop'.pc = pc /\ loop'.outcome = outcome
           /\ loop'.still = still
           /\ Item.approval \in Approvals /\ effect[Item.approval] = "applied"
PROOF
  <1>1. /\ loop' \in [pc : Pcs, todo : Seq(Listed), outcome : Outcomes, still : BOOLEAN]
        /\ loop'.pc = pc /\ loop'.todo = loop.todo /\ loop'.outcome = outcome
        /\ loop'.still = still
    BY DEF Inv, PageInv
  <1>2. Item' = Item
    BY <1>1 DEF Item
  <1>3. PageInv'
    BY <1>1, <1>2, PageKept
  <1>4. Item.approval \in Approvals /\ effect[Item.approval] = "applied"
    BY TodoFacts DEF Inv
  <1>. QED
    BY <1>1, <1>2, <1>3, <1>4

\* A proposal that is tried out, and how often it has been if it is reportable.
LEMMA TryOut ==
    ASSUME Inv, StartsTryOut(Item.approval), NEW a, a = Item.approval,
           applies' = Counted(a)
    PROVE  /\ a \in Approvals /\ a \notin done /\ effect[a] = "applied"
           /\ loop.pc = "next" /\ loop.todo # <<>> /\ Item.effect = "applied"
           /\ New[a] # NonFloat /\ ~HasValueOf(Fatal, value, ItsDevice(a))
           /\ InForce(value, verified)
           /\ applies' \in [Approvals -> Nat]
           /\ \A b \in Approvals : b # a => applies'[b] = applies[b]
           /\ \A b \in Approvals : Reportable(b) =>
                 /\ applies'[b] <= 1 + crashes
                 /\ applies'[b] <= crashes \/ b \in done \/ b = a
PROOF
  <1>1. /\ loop.pc = "next" /\ loop.todo # <<>> /\ a \notin done /\ Item.effect = "applied"
        /\ ~CannotStart(a) /\ ~Stale(a)
    BY DEF StartsTryOut, Executes, Turning
  <1>2. a \in Approvals /\ effect[a] = "applied"
    BY <1>1, TodoFacts DEF Inv
  <1>3. New[a] # NonFloat /\ ~HasValueOf(Fatal, value, ItsDevice(a))
    BY <1>1 DEF CannotStart
  <1>4. InForce(value, verified)
    BY <1>1 DEF Inv, DeviceInv
  <1>5. /\ applies' \in [Approvals -> Nat] /\ applies'[a] <= applies[a] + 1
        /\ \A b \in Approvals : b # a => applies'[b] = applies[b]
    BY <1>2, ExecutorAssumption DEF Inv, TablesInv, Counted, TryLimit
  <1>6. ASSUME NEW b \in Approvals, Reportable(b)
        PROVE  /\ applies'[b] <= 1 + crashes
               /\ applies'[b] <= crashes \/ b \in done \/ b = a
    <2>1. ~Busy
      BY <1>1 DEF Busy
    <2>2. applies[b] <= 1 + crashes /\ (applies[b] <= crashes \/ b \in done)
      BY <1>6, <2>1 DEF Inv, TryInv
    <2>3. applies[b] \in Nat /\ applies'[b] \in Nat /\ crashes \in Nat
      BY <1>5 DEF Inv, TablesInv
    <2>. QED
      BY <1>1, <1>5, <2>2, <2>3
  <1>. QED
    BY <1>1, <1>2, <1>3, <1>4, <1>5, <1>6

\* A try-out, verified or rolled back: it is the first since the last crash.
LEMMA InvApply == Inv /\ Apply => Inv'
PROOF
  <1>. SUFFICES ASSUME Inv, Apply PROVE Inv'
    OBVIOUS
  <1>0. PICK a : a = Item.approval
    OBVIOUS
  <1>1. /\ StartsTryOut(a) /\ applies' = Counted(a)
        /\ effect' = effect /\ done' = done /\ crashes' = crashes
        /\ kept' = kept /\ verified' = verified
        /\ paramFile' = paramFile /\ reports' = reports /\ doneFile' = doneFile
    BY <1>0 DEF Apply, files
  <1>2. PICK outcome \in {"verified", "rolled_back"} :
           /\ value' = IF outcome = "verified" THEN Changed(a) ELSE value
           /\ loop' = [loop EXCEPT !.pc = "save", !.outcome = outcome,
                                   !.still = HasValueOf(Still, value, ItsDevice(a))]
    BY <1>0 DEF Apply
  <1>3. /\ a \in Approvals /\ a \notin done /\ effect[a] = "applied"
        /\ loop.pc = "next" /\ loop.todo # <<>> /\ Item.effect = "applied"
        /\ New[a] # NonFloat /\ InForce(value, verified)
        /\ applies' \in [Approvals -> Nat]
        /\ \A b \in Approvals : Reportable(b) =>
              /\ applies'[b] <= 1 + crashes
              /\ applies'[b] <= crashes \/ b \in done \/ b = a
    BY <1>0, <1>1, TryOut
  <1>4. PICK still \in BOOLEAN : still = HasValueOf(Still, value, ItsDevice(a))
    BY DEF HasValueOf
  <1>5. /\ PageInv' /\ Item' = Item /\ loop'.pc = "save" /\ loop'.outcome = outcome
        /\ loop'.still = still
    <2>1. "save" \in Pcs /\ outcome \in Outcomes
      BY DEF Pcs, Outcomes
    <2>2. loop' = [loop EXCEPT !.pc = "save", !.outcome = outcome, !.still = still]
      BY <1>2, <1>4
    <2>. QED
      BY <1>0, <1>1, <1>3, <2>1, <2>2, SameItem
  <1>6. Item'.approval = a
    BY <1>0, <1>5
  <1>7. value' \in [Slots -> Int] /\ Origin(value')
    <2>1. value \in [Slots -> Int] /\ Origin(value) /\ TablesInv
      BY DEF Inv, TablesInv, OriginInv
    <2>2. Changed(a) \in [Slots -> Int] /\ Origin(Changed(a))
      BY <1>3, <2>1, OriginChanged
    <2>3. CASE outcome = "verified"
      BY <1>2, <2>2, <2>3
    <2>4. CASE outcome # "verified"
      BY <1>2, <2>1, <2>4
    <2>. QED
      BY <2>3, <2>4
  <1>8. TablesInv'
    BY <1>1, <1>3, <1>7 DEF Inv, TablesInv
  <1>9. DoneInv'
    BY <1>1, <1>3, <1>5 DEF Inv, DoneInv, Final, Reported
  <1>10. OriginInv'
    BY <1>1, <1>7 DEF Inv, OriginInv
  <1>11. StillInv'
    <2>1. still => ~Reportable(a)
      BY <1>3, <1>4, StillDevice DEF Inv
    <2>. QED
      BY <1>5, <1>6, <2>1 DEF StillInv
  <1>12. TryInv'
    <2>1. Busy'
      BY <1>5 DEF Busy
    <2>. QED
      BY <1>1, <1>3, <1>5, <1>6, <2>1 DEF TryInv
  <1>13. DeviceInv'
    <2>1. CASE outcome = "verified"
      <3>1. InForce(Changed(a), Kept(verified, a))
        BY <1>3, InForceKept DEF Inv
      <3>2. InForce(value', Kept(verified', a))
        BY <1>1, <1>2, <2>1, <3>1
      <3>. QED
        BY <1>5, <1>6, <2>1, <3>2 DEF DeviceInv
    <2>2. CASE outcome = "rolled_back"
      <3>1. InForce(value', verified')
        BY <1>1, <1>2, <1>3, <2>2
      <3>. QED
        BY <1>5, <2>2, <3>1 DEF DeviceInv
    <2>. QED
      BY <2>1, <2>2
  <1>14. DeviceMatchesReports'
    BY <1>1 DEF Inv, DeviceMatchesReports
  <1>. QED
    BY <1>5, <1>8, <1>9, <1>10, <1>11, <1>12, <1>13, <1>14 DEF Inv

\* The record of an idle or dead loop.
LEMMA IdleType ==
    /\ Idle \in [pc : Pcs, todo : Seq(Listed), outcome : Outcomes, still : BOOLEAN]
    /\ Idle.pc = "idle" /\ Idle.todo = <<>>
    /\ [Idle EXCEPT !.pc = "down"] \in [pc : Pcs, todo : Seq(Listed), outcome : Outcomes, still : BOOLEAN]
    /\ [Idle EXCEPT !.pc = "down"].pc = "down" /\ [Idle EXCEPT !.pc = "down"].todo = <<>>
PROOF
  <1>1. <<>> \in Seq(Listed)
    BY EmptySeq
  <1>. QED
    BY <1>1 DEF Idle, Pcs, Outcomes

\* A try-out that raises with the value set: the value is one the device cannot be
\* simulated with, and its proposal is not reportable.
LEMMA InvAbandon == Inv /\ Abandon => Inv'
PROOF
  <1>. SUFFICES ASSUME Inv, Abandon PROVE Inv'
    OBVIOUS
  <1>0. PICK a : a = Item.approval
    OBVIOUS
  <1>1. /\ StartsTryOut(a) /\ applies' = Counted(a) /\ value' = Changed(a) /\ loop' = Idle
        /\ HasValueOf(Fatal, Changed(a), ItsDevice(a))
        /\ effect' = effect /\ done' = done /\ crashes' = crashes
        /\ kept' = kept /\ verified' = verified
        /\ paramFile' = paramFile /\ reports' = reports /\ doneFile' = doneFile
    BY <1>0 DEF Abandon, files
  <1>2. /\ a \in Approvals /\ a \notin done /\ loop.pc = "next"
        /\ New[a] # NonFloat /\ InForce(value, verified)
        /\ ~HasValueOf(Fatal, value, ItsDevice(a))
        /\ applies' \in [Approvals -> Nat]
        /\ \A b \in Approvals : Reportable(b) =>
              /\ applies'[b] <= 1 + crashes
              /\ applies'[b] <= crashes \/ b \in done \/ b = a
    BY <1>0, <1>1, TryOut
  <1>3. <<Slot[a], New[a]>> \in Fatal /\ ~Reportable(a)
    BY <1>1, <1>2, FatalChange DEF Inv, Reportable
  <1>4. /\ loop' \in [pc : Pcs, todo : Seq(Listed), outcome : Outcomes, still : BOOLEAN]
        /\ loop'.pc = "idle" /\ loop'.todo = <<>>
    BY <1>1, IdleType
  <1>5. PageInv' /\ ~Busy'
    BY <1>4 DEF PageInv, Busy
  <1>6. Origin(value') /\ value' \in [Slots -> Int]
    BY <1>1, <1>2, OriginChanged DEF Inv, OriginInv
  <1>7. TablesInv'
    BY <1>1, <1>2, <1>6 DEF Inv, TablesInv
  <1>8. DoneInv'
    BY <1>1, <1>2, <1>4 DEF Inv, DoneInv, Final, Reported
  <1>9. OriginInv' /\ StillInv'
    BY <1>1, <1>5, <1>6 DEF Inv, OriginInv, StillInv
  <1>10. TryInv'
    BY <1>1, <1>2, <1>3, <1>4 DEF TryInv
  <1>11. DeviceInv'
    <2>1. Slot[a] \in Slots
      BY <1>2, ExecutorAssumption
    <2>2. /\ value'[Slot[a]] = New[a]
          /\ \A s \in Slots : s # Slot[a] => value'[s] = value[s]
      BY <1>1, <2>1 DEF Inv, TablesInv, Changed
    <2>3. InForce(value', verified)
      BY <1>2, <1>3, <2>2 DEF InForce
    <2>. QED
      BY <1>1, <1>4, <2>3 DEF DeviceInv
  <1>12. DeviceMatchesReports'
    BY <1>1 DEF Inv, DeviceMatchesReports
  <1>. QED
    BY <1>5, <1>7, <1>8, <1>9, <1>10, <1>11, <1>12 DEF Inv

\* What a poll at work has at hand.
LEMMA BusyFacts ==
    ASSUME Inv, Busy
    PROVE  /\ loop.todo # <<>> /\ Item.effect = "applied" /\ Item.approval \notin done
           /\ Item.approval \in Approvals /\ effect[Item.approval] = "applied"
           /\ loop.outcome \in Outcomes
PROOF
  <1>1. loop.todo # <<>> /\ Item.effect = "applied" /\ Item.approval \notin done
    BY DEF Inv, PageInv
  <1>2. Item.approval \in Approvals /\ effect[Item.approval] = "applied"
    BY <1>1, TodoFacts DEF Inv
  <1>3. loop.outcome \in Outcomes
    BY DEF Inv, PageInv
  <1>. QED
    BY <1>1, <1>2, <1>3

\* A poll at work goes on with its item.
LEMMA NextPhase ==
    ASSUME Inv, Busy, NEW pc \in Pcs, loop' = [loop EXCEPT !.pc = pc],
           effect' = effect, done' = done
    PROVE  /\ PageInv' /\ Item' = Item /\ loop'.pc = pc /\ loop'.outcome = loop.outcome
           /\ loop'.still = loop.still
PROOF
  <1>1. /\ loop' \in [pc : Pcs, todo : Seq(Listed), outcome : Outcomes, still : BOOLEAN]
        /\ loop'.pc = pc /\ loop'.todo = loop.todo /\ loop'.outcome = loop.outcome
        /\ loop'.still = loop.still
    BY DEF Inv, PageInv
  <1>2. Item' = Item
    BY <1>1 DEF Item
  <1>3. /\ loop.todo # <<>> /\ Item.effect = "applied" /\ Item.approval \notin done
    BY BusyFacts
  <1>4. PageInv'
    BY <1>1, <1>2, <1>3, PageKept
  <1>. QED
    BY <1>1, <1>2, <1>4

\* The parameter file is truncated.
LEMMA InvOpenParams == Inv /\ OpenParams => Inv'
PROOF
  <1>. SUFFICES ASSUME Inv, OpenParams PROVE Inv'
    OBVIOUS
  <1>1. /\ loop.pc = "save" /\ paramFile' = Torn /\ loop' = [loop EXCEPT !.pc = "saving"]
        /\ effect' = effect /\ value' = value /\ reports' = reports /\ done' = done
        /\ doneFile' = doneFile /\ kept' = kept /\ verified' = verified
        /\ applies' = applies /\ crashes' = crashes
    BY DEF OpenParams, ghosts
  <1>2. Busy
    BY <1>1 DEF Busy
  <1>3. /\ PageInv' /\ Item' = Item /\ loop'.pc = "saving" /\ loop'.outcome = loop.outcome
        /\ loop'.still = loop.still
    <2>1. PICK pc \in Pcs : pc = "saving"
      BY DEF Pcs
    <2>2. loop' = [loop EXCEPT !.pc = pc] /\ effect' = effect /\ done' = done
      BY <1>1, <2>1
    <2>. QED
      BY <1>2, <2>1, <2>2, NextPhase
  <1>4. TablesInv'
    BY <1>1 DEF Inv, TablesInv
  <1>5. DoneInv'
    BY <1>1, <1>3 DEF Inv, DoneInv, Final, Reported
  <1>6. TryInv'
    BY <1>1, <1>3 DEF Inv, TryInv, Busy
  <1>7. DeviceInv' /\ DeviceMatchesReports'
    BY <1>1, <1>3 DEF Inv, DeviceInv, DeviceMatchesReports
  <1>8. OriginInv' /\ StillInv'
    BY <1>1, <1>2, <1>3 DEF Inv, OriginInv, StillInv
  <1>. QED
    BY <1>3, <1>4, <1>5, <1>6, <1>7, <1>8 DEF Inv

\* The parameter file is written; a verified change is in force from now on.
LEMMA InvWriteParams == Inv /\ WriteParams => Inv'
PROOF
  <1>. SUFFICES ASSUME Inv, WriteParams PROVE Inv'
    OBVIOUS
  <1>1. /\ loop.pc = "saving" /\ paramFile' = value /\ loop' = [loop EXCEPT !.pc = "report"]
        /\ loop.outcome = "verified" => /\ kept' = kept \cup {Item.approval}
                                        /\ verified' = Kept(verified, Item.approval)
        /\ loop.outcome # "verified" => kept' = kept /\ verified' = verified
        /\ effect' = effect /\ value' = value /\ reports' = reports /\ done' = done
        /\ doneFile' = doneFile /\ applies' = applies /\ crashes' = crashes
    BY DEF WriteParams, Kept
  <1>2. Busy
    BY <1>1 DEF Busy
  <1>3. Item.approval \in Approvals
    BY <1>2, BusyFacts
  <1>4. /\ PageInv' /\ Item' = Item /\ loop'.pc = "report" /\ loop'.outcome = loop.outcome
        /\ loop'.still = loop.still
    <2>1. PICK pc \in Pcs : pc = "report"
      BY DEF Pcs
    <2>2. loop' = [loop EXCEPT !.pc = pc] /\ effect' = effect /\ done' = done
      BY <1>1, <2>1
    <2>. QED
      BY <1>2, <2>1, <2>2, NextPhase
  <1>5. /\ kept' \in SUBSET Approvals /\ verified' \in [Slots -> Approvals \cup {0}]
        /\ \A a \in Approvals : a \in kept => a \in kept'
        /\ loop.outcome = "verified" => Item.approval \in kept'
    <2>1. kept \in SUBSET Approvals /\ verified \in [Slots -> Approvals \cup {0}]
      BY DEF Inv, TablesInv
    <2>2. Kept(verified, Item.approval) \in [Slots -> Approvals \cup {0}]
      BY <1>3, <2>1 DEF Kept
    <2>3. CASE loop.outcome = "verified"
      BY <1>1, <1>3, <2>1, <2>2, <2>3
    <2>4. CASE loop.outcome # "verified"
      BY <1>1, <2>1, <2>4
    <2>. QED
      BY <2>3, <2>4
  <1>6. InForce(value, verified')
    <2>1. CASE loop.outcome = "verified"
      BY <1>1, <2>1 DEF Inv, DeviceInv
    <2>2. CASE loop.outcome # "verified"
      BY <1>1, <2>2 DEF Inv, DeviceInv
    <2>. QED
      BY <2>1, <2>2
  <1>7. TablesInv'
    BY <1>1, <1>5 DEF Inv, TablesInv
  <1>8. DoneInv'
    BY <1>1, <1>4 DEF Inv, DoneInv, Final, Reported
  <1>9. TryInv'
    BY <1>1, <1>4 DEF Inv, TryInv, Busy
  <1>10. DeviceInv'
    BY <1>1, <1>4, <1>5, <1>6 DEF DeviceInv
  <1>11. DeviceMatchesReports'
    BY <1>1, <1>5, <1>6 DEF Inv, DeviceMatchesReports
  <1>12. OriginInv' /\ StillInv'
    BY <1>1, <1>2, <1>4 DEF Inv, OriginInv, StillInv
  <1>. QED
    BY <1>4, <1>7, <1>8, <1>9, <1>10, <1>11, <1>12 DEF Inv

\* The report is not written: its approval is not reportable.
LEMMA InvReportRaises == Inv /\ ReportRaises => Inv'
PROOF
  <1>. SUFFICES ASSUME Inv, ReportRaises PROVE Inv'
    OBVIOUS
  <1>0. PICK a : a = Item.approval
    OBVIOUS
  <1>1. /\ loop.pc = "report" /\ loop' = Idle /\ (loop.still \/ ItsDevice(a) \in Unwritable)
        /\ effect' = effect /\ value' = value /\ paramFile' = paramFile /\ reports' = reports
        /\ done' = done /\ doneFile' = doneFile /\ kept' = kept /\ verified' = verified
        /\ applies' = applies /\ crashes' = crashes
    BY <1>0 DEF ReportRaises, CannotReport, files, ghosts
  <1>2. Busy
    BY <1>1 DEF Busy
  <1>3. ~Reportable(a)
    BY <1>0, <1>1, <1>2 DEF Inv, StillInv, Reportable
  <1>4. /\ loop' \in [pc : Pcs, todo : Seq(Listed), outcome : Outcomes, still : BOOLEAN]
        /\ loop'.pc = "idle" /\ loop'.todo = <<>>
    BY <1>1, IdleType
  <1>5. PageInv' /\ ~Busy'
    BY <1>4 DEF PageInv, Busy
  <1>6. TablesInv'
    BY <1>1 DEF Inv, TablesInv
  <1>7. DoneInv'
    BY <1>1, <1>4 DEF Inv, DoneInv, Final, Reported
  <1>8. OriginInv' /\ StillInv'
    BY <1>1, <1>5 DEF Inv, OriginInv, StillInv
  <1>9. TryInv'
    <2>1. ASSUME NEW b \in Approvals, Reportable(b)
          PROVE  applies[b] <= 1 + crashes /\ (applies[b] <= crashes \/ b \in done)
      BY <1>0, <1>3, <2>1 DEF Inv, TryInv
    <2>. QED
      BY <1>1, <1>4, <2>1 DEF TryInv
  <1>10. DeviceInv' /\ DeviceMatchesReports'
    BY <1>1, <1>4 DEF Inv, DeviceInv, DeviceMatchesReports
  <1>. QED
    BY <1>5, <1>6, <1>7, <1>8, <1>9, <1>10 DEF Inv

\* The report is truncated; nobody counts on it yet.
LEMMA InvOpenReport == Inv /\ OpenReport => Inv'
PROOF
  <1>. SUFFICES ASSUME Inv, OpenReport PROVE Inv'
    OBVIOUS
  <1> DEFINE a == Item.approval
  <1>1. /\ loop.pc = "report" /\ reports' = [reports EXCEPT ![a] = "torn"]
        /\ loop' = [loop EXCEPT !.pc = "reporting"]
        /\ effect' = effect /\ value' = value /\ paramFile' = paramFile /\ done' = done
        /\ doneFile' = doneFile /\ kept' = kept /\ verified' = verified
        /\ applies' = applies /\ crashes' = crashes
    BY DEF OpenReport, ghosts
  <1>2. Busy
    BY <1>1 DEF Busy
  <1>3. a \in Approvals /\ a \notin done
    BY <1>2, BusyFacts
  <1>4. /\ PageInv' /\ Item' = Item /\ loop'.pc = "reporting" /\ loop'.outcome = loop.outcome
        /\ loop'.still = loop.still
    <2>1. PICK pc \in Pcs : pc = "reporting"
      BY DEF Pcs
    <2>2. loop' = [loop EXCEPT !.pc = pc] /\ effect' = effect /\ done' = done
      BY <1>1, <2>1
    <2>. QED
      BY <1>2, <2>1, <2>2, NextPhase
  <1> HIDE DEF a
  <1>5. /\ reports' \in [Approvals -> Outcomes \cup {"none", "torn"}]
        /\ reports'[a] = "torn" /\ \A b \in Approvals : b # a => reports'[b] = reports[b]
    BY <1>1, <1>3 DEF Inv, TablesInv
  <1>6. TablesInv'
    BY <1>1, <1>5 DEF Inv, TablesInv
  <1>7. DoneInv'
    <2>1. /\ \A b \in done : Final(b)
          /\ doneFile # Torn => doneFile \subseteq done
      BY <1>1 DEF Inv, DoneInv
    <2>2. \A b \in done : b \in Approvals /\ b # a
      BY <1>3 DEF Inv, TablesInv
    <2>3. \A b \in done : Final(b)'
      BY <1>1, <1>5, <2>1, <2>2 DEF Final, Reported
    <2>. QED
      BY <1>1, <2>1, <2>3 DEF DoneInv
  <1>8. TryInv'
    BY <1>1, <1>4 DEF Inv, TryInv, Busy
  <1>9. DeviceInv'
    BY <1>1, <1>4 DEF Inv, DeviceInv
  <1>10. DeviceMatchesReports'
    <2>1. \A b \in Approvals : reports'[b] = "verified" => reports[b] = "verified"
      BY <1>5
    <2>. QED
      BY <1>1, <2>1 DEF Inv, DeviceMatchesReports
  <1>11. OriginInv' /\ StillInv'
    BY <1>1, <1>2, <1>4 DEF Inv, OriginInv, StillInv
  <1>. QED
    BY <1>4, <1>6, <1>7, <1>8, <1>9, <1>10, <1>11 DEF Inv

\* The report is written and the approval executed.
LEMMA InvWriteReport == Inv /\ WriteReport => Inv'
PROOF
  <1>. SUFFICES ASSUME Inv, WriteReport PROVE Inv'
    OBVIOUS
  <1> DEFINE a == Item.approval
  <1>1. /\ loop.pc = "reporting" /\ reports' = [reports EXCEPT ![a] = loop.outcome]
        /\ done' = done \cup {a}
        /\ loop' = [loop EXCEPT !.pc = "next", !.todo = Tail(@), !.still = FALSE]
        /\ effect' = effect /\ value' = value /\ paramFile' = paramFile
        /\ doneFile' = doneFile /\ kept' = kept /\ verified' = verified
        /\ applies' = applies /\ crashes' = crashes
    BY DEF WriteReport, ghosts
  <1>2. Busy
    BY <1>1 DEF Busy
  <1>3. /\ a \in Approvals /\ a \notin done /\ loop.todo # <<>> /\ loop.outcome \in Outcomes
        /\ effect[a] = "applied"
    BY <1>2, BusyFacts
  <1>4. PageInv' /\ loop'.pc = "next"
    BY <1>1, <1>3, NextItem
  <1>5. loop.outcome = "verified" => a \in kept
    BY <1>1 DEF Inv, DeviceInv
  <1>6. \A b \in Approvals : Reportable(b) =>
           /\ applies[b] <= 1 + crashes
           /\ applies[b] <= crashes \/ b \in done \/ b = a
    BY <1>2 DEF Inv, TryInv
  <1> HIDE DEF a
  <1>7. /\ reports' \in [Approvals -> Outcomes \cup {"none", "torn"}]
        /\ reports'[a] = loop.outcome /\ \A b \in Approvals : b # a => reports'[b] = reports[b]
    BY <1>1, <1>3 DEF Inv, TablesInv
  <1>8. TablesInv'
    BY <1>1, <1>3, <1>7 DEF Inv, TablesInv
  <1>9. DoneInv'
    <2>1. /\ \A b \in done : Final(b)
          /\ doneFile # Torn => doneFile \subseteq done
      BY <1>1 DEF Inv, DoneInv
    <2>2. \A b \in done : b \in Approvals /\ b # a
      BY <1>3 DEF Inv, TablesInv
    <2>3. \A b \in done' : Final(b)'
      BY <1>1, <1>3, <1>7, <2>1, <2>2 DEF Final, Reported
    <2>. QED
      BY <1>1, <2>1, <2>3 DEF DoneInv
  <1>10. TryInv'
    BY <1>1, <1>4, <1>6 DEF TryInv
  <1>11. DeviceInv'
    BY <1>1, <1>4 DEF Inv, DeviceInv
  <1>12. DeviceMatchesReports'
    BY <1>1, <1>5, <1>7 DEF Inv, DeviceMatchesReports
  <1>13. OriginInv' /\ StillInv'
    BY <1>1, <1>4 DEF Inv, OriginInv, StillInv, Busy
  <1>. QED
    BY <1>4, <1>8, <1>9, <1>10, <1>11, <1>12, <1>13 DEF Inv

\* The file of executed approvals is truncated.
LEMMA InvOpenDone == Inv /\ OpenDone => Inv'
PROOF
  <1>. SUFFICES ASSUME Inv, OpenDone PROVE Inv'
    OBVIOUS
  <1>1. /\ loop.pc = "next" /\ loop' = [loop EXCEPT !.pc = "finish"] /\ doneFile' = Torn
        /\ effect' = effect /\ value' = value /\ paramFile' = paramFile /\ reports' = reports
        /\ done' = done /\ kept' = kept /\ verified' = verified /\ applies' = applies /\ crashes' = crashes
    BY DEF OpenDone, ghosts
  <1>2. /\ loop' \in [pc : Pcs, todo : Seq(Listed), outcome : Outcomes, still : BOOLEAN]
        /\ loop'.pc = "finish" /\ loop'.todo = loop.todo
    BY <1>1 DEF Inv, PageInv, Pcs
  <1>3. PageInv'
    <2>1. ~Busy'
      BY <1>2 DEF Busy
    <2>. QED
      BY <1>1, <1>2, <2>1, PageKept
  <1>4. TablesInv'
    BY <1>1 DEF Inv, TablesInv
  <1>5. DoneInv'
    BY <1>1, <1>2 DEF Inv, DoneInv, Final, Reported
  <1>6. TryInv'
    BY <1>1, <1>2 DEF Inv, TryInv, Busy
  <1>7. DeviceInv' /\ DeviceMatchesReports'
    BY <1>1, <1>2 DEF Inv, DeviceInv, DeviceMatchesReports
  <1>8. OriginInv' /\ StillInv'
    BY <1>1, <1>2 DEF Inv, OriginInv, StillInv, Busy
  <1>. QED
    BY <1>3, <1>4, <1>5, <1>6, <1>7, <1>8 DEF Inv

\* ... and written.
LEMMA InvWriteDone == Inv /\ WriteDone => Inv'
PROOF
  <1>. SUFFICES ASSUME Inv, WriteDone PROVE Inv'
    OBVIOUS
  <1>1. /\ loop.pc = "finish" /\ loop' = Idle /\ doneFile' = done
        /\ effect' = effect /\ value' = value /\ paramFile' = paramFile /\ reports' = reports
        /\ done' = done /\ kept' = kept /\ verified' = verified /\ applies' = applies /\ crashes' = crashes
    BY DEF WriteDone, ghosts
  <1>2. /\ loop' \in [pc : Pcs, todo : Seq(Listed), outcome : Outcomes, still : BOOLEAN]
        /\ loop'.pc = "idle" /\ loop'.todo = <<>>
    BY <1>1, IdleType
  <1>3. PageInv'
    BY <1>2 DEF PageInv, Busy
  <1>4. TablesInv'
    BY <1>1 DEF Inv, TablesInv
  <1>5. DoneInv'
    BY <1>1, <1>2 DEF Inv, DoneInv, Final, Reported
  <1>6. TryInv'
    BY <1>1, <1>2 DEF Inv, TryInv, Busy
  <1>7. DeviceInv' /\ DeviceMatchesReports'
    BY <1>1, <1>2 DEF Inv, DeviceInv, DeviceMatchesReports
  <1>8. OriginInv' /\ StillInv'
    BY <1>1, <1>2 DEF Inv, OriginInv, StillInv, Busy
  <1>. QED
    BY <1>3, <1>4, <1>5, <1>6, <1>7, <1>8 DEF Inv

\* A crash: what was tried out since the last one is charged to it.
LEMMA InvCrash == Inv /\ Crash => Inv'
PROOF
  <1>. SUFFICES ASSUME Inv, Crash PROVE Inv'
    OBVIOUS
  <1>1. /\ loop' = [Idle EXCEPT !.pc = "down"] /\ crashes' = crashes + 1
        /\ effect' = effect /\ value' = value /\ paramFile' = paramFile /\ reports' = reports
        /\ done' = done /\ doneFile' = doneFile /\ kept' = kept /\ verified' = verified /\ applies' = applies
    BY DEF Crash, files
  <1>2. /\ loop' \in [pc : Pcs, todo : Seq(Listed), outcome : Outcomes, still : BOOLEAN]
        /\ loop'.pc = "down" /\ loop'.todo = <<>>
    BY <1>1, IdleType
  <1>3. PageInv'
    BY <1>2 DEF PageInv, Busy
  <1>4. TablesInv'
    BY <1>1 DEF Inv, TablesInv
  <1>5. DoneInv'
    BY <1>1, <1>2 DEF Inv, DoneInv, Final, Reported
  <1>6. TryInv'
    <2>1. \A a \in Approvals :
             /\ applies[a] \in Nat /\ crashes \in Nat
             /\ Reportable(a) => applies[a] <= 1 + crashes
      BY DEF Inv, TryInv, TablesInv
    <2>. QED
      BY <1>1, <2>1 DEF TryInv
  <1>7. DeviceInv' /\ DeviceMatchesReports'
    BY <1>1, <1>2 DEF Inv, DeviceInv, DeviceMatchesReports
  <1>8. OriginInv' /\ StillInv'
    BY <1>1, <1>2 DEF Inv, OriginInv, StillInv, Busy
  <1>. QED
    BY <1>3, <1>4, <1>5, <1>6, <1>7, <1>8 DEF Inv

\* The executor starts from files that are whole.
LEMMA InvStart == Inv /\ Start => Inv'
PROOF
  <1>. SUFFICES ASSUME Inv, Start PROVE Inv'
    OBVIOUS
  <1>1. /\ loop.pc = "down" /\ paramFile # Torn /\ doneFile # Torn
        /\ value' = paramFile /\ done' = doneFile /\ loop' = Idle
        /\ effect' = effect /\ paramFile' = paramFile /\ reports' = reports
        /\ doneFile' = doneFile /\ kept' = kept /\ verified' = verified
        /\ applies' = applies /\ crashes' = crashes
    BY DEF Start, files, ghosts
  <1>2. /\ loop' \in [pc : Pcs, todo : Seq(Listed), outcome : Outcomes, still : BOOLEAN]
        /\ loop'.pc = "idle" /\ loop'.todo = <<>>
    BY <1>1, IdleType
  <1>3. PageInv'
    BY <1>2 DEF PageInv, Busy
  <1>4. TablesInv'
    BY <1>1 DEF Inv, TablesInv
  <1>5. DoneInv'
    BY <1>1, <1>2 DEF Inv, DoneInv, Final, Reported
  <1>6. TryInv'
    BY <1>1, <1>2 DEF Inv, TryInv, Busy
  <1>7. DeviceInv' /\ DeviceMatchesReports'
    BY <1>1, <1>2 DEF Inv, DeviceInv, DeviceMatchesReports
  <1>8. OriginInv' /\ StillInv'
    BY <1>1, <1>2 DEF Inv, OriginInv, StillInv, Busy
  <1>. QED
    BY <1>3, <1>4, <1>5, <1>6, <1>7, <1>8 DEF Inv

----------------------------------------------------------------------------
\* The invariant is inductive.
LEMMA InvInductive == Inv /\ [Next]_vars => Inv'
PROOF
  <1>. SUFFICES ASSUME Inv, [Next]_vars PROVE Inv'
    OBVIOUS
  <1>1. ASSUME NEW a \in Approvals, Decide(a) PROVE Inv'
    <2>1. effect[a] = "undecided" /\ "unsettled" \in Effects \ {"undecided"}
      BY <1>1 DEF Decide, Effects
    <2>. QED
      BY <1>1, <2>1, EffectMoves DEF Decide
  <1>2. ASSUME NEW a \in Approvals, Settle(a) PROVE Inv'
    <2>1. PICK status \in {"applied", "failed"} : effect' = [effect EXCEPT ![a] = status]
      BY <1>2 DEF Settle
    <2>2. status \in Effects \ {"undecided"} /\ effect[a] = "unsettled"
      BY <1>2 DEF Settle, Effects
    <2>. QED
      BY <1>2, <2>1, <2>2, EffectMoves DEF Settle
  <1>3. CASE ExecutorStep
    BY <1>3, InvPoll, InvSkip, InvExclude, InvRaises, InvRefuse, InvApply, InvAbandon,
       InvOpenParams, InvWriteParams, InvReportRaises, InvOpenReport, InvWriteReport, InvOpenDone, InvWriteDone, InvStart
       DEF ExecutorStep
  <1>4. CASE Crash
    BY <1>4, InvCrash
  <1>5. CASE UNCHANGED vars
    <2>1. /\ effect' = effect /\ value' = value /\ paramFile' = paramFile /\ reports' = reports
          /\ done' = done /\ doneFile' = doneFile /\ loop' = loop /\ kept' = kept /\ verified' = verified
          /\ applies' = applies /\ crashes' = crashes
      BY <1>5 DEF vars
    <2>2. TablesInv' /\ PageInv'
      BY <2>1 DEF Inv, TablesInv, PageInv, Busy, Item
    <2>3. DoneInv' /\ TryInv'
      BY <2>1 DEF Inv, DoneInv, TryInv, Busy, Item, Final, Reported
    <2>4. DeviceInv' /\ DeviceMatchesReports'
      BY <2>1 DEF Inv, DeviceInv, DeviceMatchesReports, Item
    <2>5. OriginInv' /\ StillInv'
      BY <2>1 DEF Inv, OriginInv, StillInv, Busy, Item
    <2>. QED
      BY <2>2, <2>3, <2>4, <2>5 DEF Inv
  <1>. QED
    BY <1>1, <1>2, <1>3, <1>4, <1>5 DEF Next

\* The conjunction of the invariants holds throughout.
LEMMA InvHolds == Spec => []Inv
  BY InitInv, InvInductive, PTL DEF Spec

\* What is typed in the invariant is typed in the specification.
LEMMA InvImpliesTypeOK == Inv => TypeOK
PROOF
  <1>. SUFFICES ASSUME Inv PROVE TypeOK
    OBVIOUS
  <1>1. loop.pc \in Pcs /\ loop.outcome \in Outcomes /\ loop.todo \in Seq(Listed)
    BY DEF Inv, PageInv
  <1>2. \A i \in DOMAIN loop.todo :
           loop.todo[i].approval \in Approvals /\ effect[loop.todo[i].approval] # "undecided"
    <2>1. \A i \in DOMAIN loop.todo : loop.todo[i] \in Listed
      BY <1>1, LenProperties, ElementOfSeq
    <2>. QED
      BY <2>1 DEF Inv, PageInv, Listed
  <1>3. Busy => loop.todo # <<>> /\ effect[Item.approval] = "applied"
    BY BusyFacts
  <1>. QED
    BY <1>1, <1>2, <1>3 DEF Inv, TablesInv, TypeOK, Effects, Pcs, Busy

\* Files, sets and the poll are well typed, and a poll that writes has an
\* approved and applied item at hand.
THEOREM TypeCorrect == Spec => []TypeOK
  BY InvHolds, InvImpliesTypeOK, PTL

\* What _executed.json lists is settled and, if it was applied, reported on,
\* wherever crashes cut poll_once short.
THEOREM NothingLost == Spec => []DoneIsReported
PROOF
  <1>1. Inv => DoneIsReported
    BY DEF Inv, DoneInv, DoneIsReported, Final
  <1>. QED
    BY <1>1, InvHolds, PTL

\* The parameters on disk are the ones of the last verified changes.
THEOREM DeviceKeepsReports == Spec => []DeviceMatchesReports
  BY InvHolds, PTL DEF Inv

\* A proposal is tried out at most once more than the executor crashed.
THEOREM TriedOncePerCrash == Spec => []TriedOnce
PROOF
  <1>1. Inv => TriedOnce
    BY DEF Inv, TryInv, TriedOnce
  <1>. QED
    BY <1>1, InvHolds, PTL

============================================================================
