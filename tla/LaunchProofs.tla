---------------------------- MODULE LaunchProofs ----------------------------
(***************************************************************************)
(* How processes come together, find out what their machine can do and     *)
(* share it: proofs about DynamicHook, Probe and Exec, for any number of   *)
(* processes, any clocks, alarms, requests, limits and shortages of memory.*)
(*                                                                         *)
(* The processes that meet in a collective call of lpf_exec, lpf_rehook    *)
(* and of the Process objects (src/src/MPI/process.cpp and core.cpp) make  *)
(* the same call, in the same order on each communicator, until failures   *)
(* have set them apart.                                                    *)
(***************************************************************************)
EXTENDS DynamicHook, Probe, Exec, FiniteSetTheorems, SequenceTheorems, TLAPS

----------------------------------------------------------------------------
(* The probe.  What a process does between two syncs is settled by where it *)
(* is: so one compares the syncs that the processes are heading for.        *)

\* Which sync p comes to, or how it ends, unless it finds no memory.
IsLast(p) == loopExit[p] = "Stop" \/ sample[p] + 1 = PreferredSamples
AfterExit(p) ==
  IF loopExit[p] = "Error" THEN "TIMEOUT"
  ELSE IF loop[p] = "explore"
       THEN IF loopExit[p] = "Stop" THEN "before" ELSE "buffers"
       ELSE IF IsLast(p) /\ relation[p] = Relations THEN "times" ELSE "before"
Goal(p) ==
  CASE probe[p] = "resize"     -> "register"
    [] probe[p] \in {"explore", "measure"} -> "guard"
    [] probe[p] = "put"        -> "gather"
    [] probe[p] = "summarize"  -> "release"
    [] probe[p] = "exit"       -> AfterExit(p)
    [] probe[p] = "next range" -> IF range[p] + 1 < MaxRange THEN "guard" ELSE "before"
    [] probe[p] = "next block" -> IF block[p] < Blocks THEN "register" ELSE "SUCCESS"
    [] OTHER                   -> probe[p]

\* In which round of which loop it will be there.
LoopAhead(p) ==
  CASE probe[p] = "explore"    -> "explore"
    [] probe[p] = "measure"    -> "measure"
    [] probe[p] = "next range" -> IF range[p] + 1 < MaxRange THEN "explore" ELSE loop[p]
    [] OTHER                   -> loop[p]
BlockAhead(p) == IF probe[p] = "next block" THEN block[p] + 1 ELSE block[p]
RangeAhead(p) ==
  CASE probe[p] = "next range" -> range[p] + 1
    [] probe[p] = "next block" -> MinRange
    [] OTHER                   -> range[p]
Measured(p) == probe[p] = "exit" /\ loop[p] = "measure"
RelationAhead(p) ==
  CASE probe[p] = "next block"  -> 1
    [] Measured(p) /\ IsLast(p) -> relation[p] + 1
    [] OTHER                    -> relation[p]
SampleAhead(p) ==
  IF Measured(p) THEN (IF IsLast(p) THEN 0 ELSE sample[p] + 1) ELSE sample[p]

\* All who are not short of memory head for the same sync in the same round, or
\* have ended alike.
SameAims(p, q) ==
  /\ Goal(p) = Goal(q)
  /\ Goal(p) \in Syncs =>
       /\ LoopAhead(p) = LoopAhead(q) /\ BlockAhead(p) = BlockAhead(q)
       /\ RangeAhead(p) = RangeAhead(q)
       /\ RelationAhead(p) = RelationAhead(q) /\ SampleAhead(p) = SampleAhead(q)
AimsAgree ==
  \A p, q \in Probers : probe[p] # "FATAL" /\ probe[q] # "FATAL" => SameAims(p, q)

\* Memory is short only before the sync that registers it.
ShortOfMemory ==
  (\E q \in Probers : probe[q] = "FATAL")
    => \A p \in Probers : probe[p] # "FATAL" => Goal(p) = "register"

\* What is on its way in allgather is what the sender contributes, and who waits
\* there has sent it to all.
PutsAreStatuses ==
  \A put \in puts : /\ put.from \in Probers /\ put.to \in Probers /\ put.from # put.to
                    /\ probe[put.from] = "gather"
                    /\ put.status = allStatus[put.from][put.from]
Told ==
  \A p, q \in Probers : probe[q] = "gather" /\ Goal(p) = "gather" =>
    \/ allStatus[p][q] = allStatus[q][q]
    \/ \E put \in puts : put.from = q /\ put.to = p

\* How the loop goes on.
Verdict(p) ==
  LET all == {allStatus[p][q] : q \in Probers} IN
  IF "Error" \in all THEN "Error" ELSE IF "Stop" \in all THEN "Stop" ELSE "Continue"
ExitAhead(p) == IF probe[p] = "summarize" THEN Verdict(p) ELSE loopExit[p]
ExitsAgree ==
  \A p, q \in Probers : Goal(p) = "release" /\ Goal(q) = "release" => ExitAhead(p) = ExitAhead(q)

ProbePlaces == Syncs \cup Outcomes \cup
  {"resize", "explore", "measure", "put", "summarize", "exit", "next range", "next block"}
ProbeTypeOK ==
  /\ probe \in [Probers -> ProbePlaces]
  /\ loop \in [Probers -> {"explore", "measure"}]
  /\ loopExit \in [Probers -> Conditions]
  /\ block \in [Probers -> Nat] /\ range \in [Probers -> Nat]
  /\ relation \in [Probers -> Nat] /\ sample \in [Probers -> Nat]
  /\ allStatus \in [Probers -> [Probers -> Conditions]]

ProbeIInv ==
  /\ ProbeTypeOK /\ AimsAgree /\ ShortOfMemory /\ PutsAreStatuses /\ Told /\ ExitsAgree

\* A process with its part of the program, which nobody else changes.
Apart(q) ==
  /\ probe'[q] = probe[q] /\ loop'[q] = loop[q] /\ loopExit'[q] = loopExit[q]
  /\ block'[q] = block[q] /\ range'[q] = range[q]
  /\ relation'[q] = relation[q] /\ sample'[q] = sample[q]
AimsKept(q) ==
  /\ Goal(q)' = Goal(q)
  /\ Goal(q) \in Syncs =>
       /\ LoopAhead(q)' = LoopAhead(q) /\ BlockAhead(q)' = BlockAhead(q)
       /\ RangeAhead(q)' = RangeAhead(q)
       /\ RelationAhead(q)' = RelationAhead(q) /\ SampleAhead(q)' = SampleAhead(q)

LEMMA ApartAims ==
  ASSUME NEW q, Apart(q)
  PROVE  AimsKept(q)
BY DEF Apart, AimsKept, Goal, AfterExit, IsLast, LoopAhead, BlockAhead, RangeAhead,
   RelationAhead, SampleAhead, Measured

\* The steps of a process between two syncs.
LocalStep(p) ==
  \/ ResizeRegister(p) \/ Explore(p) \/ NextRange(p) \/ Measure(p) \/ NextBlock(p)
  \/ PutStatus(p) \/ Summarize(p) \/ LeaveProbe(p) \/ ExploreExit(p) \/ MeasureExit(p)

LEMMA LocalType ==
  ASSUME ProbeTypeOK, NEW p \in Probers, LocalStep(p)
  PROVE  /\ ProbeTypeOK' /\ \A q \in Probers \ {p} : Apart(q) /\ allStatus'[q] = allStatus[q]
<1>1. /\ probe \in [Probers -> ProbePlaces] /\ loop \in [Probers -> {"explore", "measure"}]
      /\ loopExit \in [Probers -> Conditions]
      /\ block \in [Probers -> Nat] /\ range \in [Probers -> Nat]
      /\ relation \in [Probers -> Nat] /\ sample \in [Probers -> Nat]
      /\ allStatus \in [Probers -> [Probers -> Conditions]]
  BY DEF ProbeTypeOK
<1> USE <1>1 DEF ProbeTypeOK, Apart, To, Set, control, counters
<1>2. CASE ResizeRegister(p)
  BY <1>2 DEF ResizeRegister, ProbePlaces, Syncs, Outcomes
<1>3. CASE Explore(p)
  <2>1. PICK status \in Conditions : allStatus' = [allStatus EXCEPT ![p] =
                       [q \in Probers |-> IF q = p THEN status ELSE "Continue"]]
    BY <1>3 DEF Explore
  <2>2. "Continue" \in Conditions
    BY DEF Conditions
  <2>3. allStatus' \in [Probers -> [Probers -> Conditions]]
    BY <2>1, <2>2
  <2> QED BY <1>3, <2>1, <2>3 DEF Explore, ProbePlaces, Syncs
<1>4. CASE NextRange(p)
  <2>1. PICK at \in {"explore", "before"} :
          /\ probe' = [probe EXCEPT ![p] = at] /\ range' = [range EXCEPT ![p] = range[p] + 1]
          /\ UNCHANGED <<loop, loopExit, block, relation, sample, allStatus>>
    BY <1>4 DEF NextRange
  <2>2. at \in ProbePlaces
    BY DEF ProbePlaces, Syncs
  <2>3. range[p] + 1 \in Nat
    <3>1. range[p] \in Nat
      OBVIOUS
    <3> QED BY <3>1
  <2> QED BY <2>1, <2>2, <2>3
<1>5. CASE Measure(p)
  <2>1. PICK status \in Conditions : allStatus' = [allStatus EXCEPT ![p][p] = status]
    BY <1>5 DEF Measure
  <2>2. allStatus' \in [Probers -> [Probers -> Conditions]]
    BY <2>1
  <2>3. "guard" \in ProbePlaces
    BY DEF ProbePlaces, Syncs
  <2> QED BY <1>5, <2>1, <2>2, <2>3 DEF Measure
<1>6. CASE NextBlock(p)
  <2>1. PICK at \in {"resize", "SUCCESS"} :
          /\ probe' = [probe EXCEPT ![p] = at] /\ range' = [range EXCEPT ![p] = MinRange]
          /\ block' = [block EXCEPT ![p] = block[p] + 1]
          /\ relation' = [relation EXCEPT ![p] = 1]
          /\ UNCHANGED <<loop, loopExit, sample, allStatus>>
    BY <1>6 DEF NextBlock
  <2>2. at \in ProbePlaces
    BY DEF ProbePlaces, Outcomes
  <2>3. MinRange \in Nat
    BY ProbeAssumption
  <2>4. block[p] + 1 \in Nat
    <3>1. block[p] \in Nat
      OBVIOUS
    <3> QED BY <3>1
  <2> QED BY <2>1, <2>2, <2>3, <2>4
<1>7. CASE PutStatus(p)
  BY <1>7 DEF PutStatus, AfterPuts, ProbePlaces, Syncs
<1>8. CASE Summarize(p)
  BY <1>8 DEF Summarize, ProbePlaces, Syncs, Conditions
<1>9. CASE LeaveProbe(p)
  BY <1>9 DEF LeaveProbe, ProbePlaces, Outcomes
<1>10. CASE ExploreExit(p)
  BY <1>10 DEF ExploreExit, ProbePlaces, Syncs
<1>11. CASE MeasureExit(p)
  <2>1. PICK at, s, r :
          /\ at \in {"times", "before"} /\ s \in {0, sample[p] + 1}
          /\ r \in {relation[p] + 1, relation[p]}
          /\ probe' = [probe EXCEPT ![p] = at] /\ sample' = [sample EXCEPT ![p] = s]
          /\ relation' = [relation EXCEPT ![p] = r]
          /\ UNCHANGED <<loop, loopExit, block, range, allStatus>>
    <3>1. PICK at, s, r :
            /\ at = (IF IsLast(p) /\ relation[p] = Relations THEN "times" ELSE "before")
            /\ s = (IF IsLast(p) THEN 0 ELSE sample[p] + 1)
            /\ r = (IF IsLast(p) THEN relation[p] + 1 ELSE relation[p])
      OBVIOUS
    <3>2. /\ probe' = [probe EXCEPT ![p] = at] /\ sample' = [sample EXCEPT ![p] = s]
          /\ relation' = [relation EXCEPT ![p] = r]
          /\ UNCHANGED <<loop, loopExit, block, range, allStatus>>
      BY <1>11, <3>1 DEF MeasureExit, IsLast
    <3> QED BY <3>1, <3>2
  <2>2. at \in ProbePlaces
    BY <2>1 DEF ProbePlaces, Syncs
  <2>3. s \in Nat /\ r \in Nat
    <3>1. sample[p] \in Nat /\ relation[p] \in Nat
      OBVIOUS
    <3> QED BY <2>1, <3>1
  <2> QED BY <2>1, <2>2, <2>3
<1> QED BY <1>2, <1>3, <1>4, <1>5, <1>6, <1>7, <1>8, <1>9, <1>10, <1>11 DEF LocalStep

LEMMA LocalAims ==
  ASSUME ProbeTypeOK, NEW p \in Probers, LocalStep(p)
  PROVE  /\ probe[p] \notin Syncs \cup Outcomes
         /\ \/ probe'[p] # "FATAL" /\ AimsKept(p)
            \/ probe'[p] = "FATAL" /\ Goal(p) = "register"
<1>1. /\ probe \in [Probers -> ProbePlaces] /\ loop \in [Probers -> {"explore", "measure"}]
      /\ loopExit \in [Probers -> Conditions]
      /\ block \in [Probers -> Nat] /\ range \in [Probers -> Nat]
      /\ relation \in [Probers -> Nat] /\ sample \in [Probers -> Nat]
  BY DEF ProbeTypeOK
<1> USE <1>1 DEF To, Set, control, counters, Syncs, Outcomes
<1>2. CASE ResizeRegister(p)
  BY <1>2 DEF ResizeRegister, AimsKept, Goal, LoopAhead, BlockAhead, RangeAhead,
     RelationAhead, SampleAhead, Measured
<1>3. CASE Explore(p)
  BY <1>3 DEF Explore, AimsKept, Goal, LoopAhead, BlockAhead, RangeAhead,
     RelationAhead, SampleAhead, Measured
<1>4. CASE NextRange(p)
  BY <1>4 DEF NextRange, AimsKept, Goal, LoopAhead, BlockAhead, RangeAhead,
     RelationAhead, SampleAhead, Measured
<1>5. CASE Measure(p)
  BY <1>5 DEF Measure, AimsKept, Goal, LoopAhead, BlockAhead, RangeAhead,
     RelationAhead, SampleAhead, Measured
<1>6. CASE NextBlock(p)
  BY <1>6 DEF NextBlock, AimsKept, Goal, LoopAhead, BlockAhead, RangeAhead,
     RelationAhead, SampleAhead, Measured
<1>7. CASE PutStatus(p)
  BY <1>7 DEF PutStatus, AfterPuts, AimsKept, Goal, LoopAhead, BlockAhead, RangeAhead,
     RelationAhead, SampleAhead, Measured
<1>8. CASE Summarize(p)
  BY <1>8 DEF Summarize, AimsKept, Goal, LoopAhead, BlockAhead, RangeAhead,
     RelationAhead, SampleAhead, Measured
<1>9. CASE LeaveProbe(p)
  BY <1>9 DEF LeaveProbe, AimsKept, Goal, AfterExit, LoopAhead, BlockAhead, RangeAhead,
     RelationAhead, SampleAhead, Measured
<1>10. CASE ExploreExit(p)
  BY <1>10 DEF ExploreExit, AimsKept, Goal, AfterExit, LoopAhead, BlockAhead, RangeAhead,
     RelationAhead, SampleAhead, Measured
<1>11. CASE MeasureExit(p)
  BY <1>11 DEF MeasureExit, AimsKept, Goal, AfterExit, IsLast, LoopAhead, BlockAhead,
     RangeAhead, RelationAhead, SampleAhead, Measured
<1> QED BY <1>2, <1>3, <1>4, <1>5, <1>6, <1>7, <1>8, <1>9, <1>10, <1>11 DEF LocalStep

\* What the processes head for, after a step of p: the others stay where they
\* are, and p goes on or finds no memory.
LEMMA LocalAgreement ==
  ASSUME ProbeTypeOK, AimsAgree, ShortOfMemory, NEW p \in Probers, LocalStep(p)
  PROVE  /\ AimsAgree' /\ ShortOfMemory'
<1>1. \A q \in Probers \ {p} : AimsKept(q) /\ probe'[q] = probe[q]
  <2>1. \A q \in Probers \ {p} : Apart(q)
    BY LocalType
  <2> QED BY <2>1, ApartAims DEF Apart
<1>2. /\ probe[p] # "FATAL"
      /\ \/ probe'[p] # "FATAL" /\ AimsKept(p)
         \/ probe'[p] = "FATAL" /\ Goal(p) = "register"
  BY LocalAims DEF Outcomes
<1>3. \A q \in Probers : probe'[q] # "FATAL" => probe[q] # "FATAL" /\ AimsKept(q)
  BY <1>1, <1>2
<1>4. AimsAgree'
  <2> SUFFICES ASSUME NEW q \in Probers, NEW r \in Probers,
                      probe'[q] # "FATAL", probe'[r] # "FATAL"
               PROVE  SameAims(q, r)'
    BY DEF AimsAgree
  <2>1. AimsKept(q) /\ AimsKept(r) /\ SameAims(q, r)
    BY <1>3 DEF AimsAgree
  <2> QED BY <2>1 DEF AimsKept, SameAims
<1>5. ShortOfMemory'
  <2> SUFFICES ASSUME NEW q \in Probers, probe'[q] = "FATAL",
                      NEW r \in Probers, probe'[r] # "FATAL"
               PROVE  Goal(r)' = "register"
    BY DEF ShortOfMemory
  <2>1. Goal(r)' = Goal(r) /\ probe[r] # "FATAL"
    BY <1>3 DEF AimsKept
  <2>2. CASE q = p
    BY <1>2, <2>1, <2>2 DEF AimsAgree, SameAims
  <2>3. CASE q # p
    BY <1>1, <2>1, <2>3 DEF ShortOfMemory
  <2> QED BY <2>2, <2>3
<1> QED BY <1>4, <1>5

\* What the processes know of each other, after a step of p.  Only a step on the
\* way to the first sync of allgather changes p's own status.
LEMMA LocalRest ==
  ASSUME ProbeTypeOK, NEW p \in Probers, LocalStep(p)
  PROVE  \/ /\ puts' = puts
            /\ {Goal(p), Goal(p)'} \cap {"gather", "release"} = {}
         \/ PutStatus(p) \/ Summarize(p)
<1>1. /\ probe \in [Probers -> ProbePlaces] /\ loop \in [Probers -> {"explore", "measure"}]
      /\ loopExit \in [Probers -> Conditions]
  BY DEF ProbeTypeOK
<1> USE <1>1 DEF To, Set, control, counters
<1>2. CASE ResizeRegister(p)
  BY <1>2 DEF ResizeRegister, Goal
<1>3. CASE Explore(p)
  BY <1>3 DEF Explore, Goal
<1>4. CASE NextRange(p)
  BY <1>4 DEF NextRange, Goal
<1>5. CASE Measure(p)
  BY <1>5 DEF Measure, Goal
<1>6. CASE NextBlock(p)
  BY <1>6 DEF NextBlock, Goal
<1>7. CASE LeaveProbe(p)
  BY <1>7 DEF LeaveProbe, Goal, AfterExit
<1>8. CASE ExploreExit(p)
  BY <1>8 DEF ExploreExit, Goal, AfterExit
<1>9. CASE MeasureExit(p)
  BY <1>9 DEF MeasureExit, Goal, AfterExit
<1> QED BY <1>2, <1>3, <1>4, <1>5, <1>6, <1>7, <1>8, <1>9 DEF LocalStep

LEMMA LocalKnowledge ==
  ASSUME ProbeTypeOK, PutsAreStatuses, Told, ExitsAgree, NEW p \in Probers, LocalStep(p)
  PROVE  PutsAreStatuses' /\ Told' /\ ExitsAgree'
<1>1. \A q \in Probers \ {p} :
        /\ probe'[q] = probe[q] /\ loopExit'[q] = loopExit[q]
        /\ allStatus'[q] = allStatus[q] /\ Goal(q)' = Goal(q)
  <2>1. \A q \in Probers \ {p} : Apart(q) /\ allStatus'[q] = allStatus[q]
    BY LocalType
  <2> QED BY <2>1, ApartAims DEF Apart, AimsKept
<1>2. \A q \in Probers \ {p} : ExitAhead(q)' = ExitAhead(q)
  BY <1>1 DEF ExitAhead, Verdict
<1>3. probe[p] # "gather"
  BY LocalAims DEF Syncs
<1>4. \A q \in Probers : probe'[q] = "gather" => Goal(q)' = "gather"
  BY DEF Goal
<1>5. CASE puts' = puts /\ {Goal(p), Goal(p)'} \cap {"gather", "release"} = {}
  <2>1. PutsAreStatuses'
    <3> SUFFICES ASSUME NEW put \in puts
                 PROVE  /\ put.from \in Probers /\ put.to \in Probers /\ put.from # put.to
                        /\ probe'[put.from] = "gather"
                        /\ put.status = allStatus'[put.from][put.from]
      BY <1>5 DEF PutsAreStatuses
    <3> QED BY <1>1, <1>3 DEF PutsAreStatuses
  <2>2. Told'
    <3> SUFFICES ASSUME NEW r \in Probers, NEW q \in Probers,
                        probe'[q] = "gather", Goal(r)' = "gather"
                 PROVE  \/ allStatus'[r][q] = allStatus'[q][q]
                        \/ \E put \in puts : put.from = q /\ put.to = r
      BY <1>5 DEF Told
    <3>1. Goal(q)' = "gather"
      BY <1>4
    <3>2. q # p /\ r # p
      BY <1>5, <3>1
    <3>3. /\ probe[q] = "gather" /\ Goal(r) = "gather"
          /\ allStatus'[r] = allStatus[r] /\ allStatus'[q] = allStatus[q]
      BY <1>1, <3>2
    <3> QED BY <3>3 DEF Told
  <2>3. ExitsAgree'
    BY <1>1, <1>2, <1>5 DEF ExitsAgree
  <2> QED BY <2>1, <2>2, <2>3
<1>6. CASE PutStatus(p)
  <2>1. /\ puts' = puts \cup {[from |-> p, to |-> q, status |-> allStatus[p][p]] :
                                 q \in Probers \ {p}}
        /\ probe[p] = "put" /\ probe' = [probe EXCEPT ![p] = "gather"]
        /\ allStatus' = allStatus
    BY <1>6 DEF PutStatus, AfterPuts, To
  <2>2. probe'[p] = "gather" /\ Goal(p)' = "gather" /\ Goal(p) = "gather"
    <3>1. probe'[p] = "gather"
      BY <2>1 DEF ProbeTypeOK
    <3> QED BY <2>1, <3>1 DEF Goal
  <2>3. PutsAreStatuses'
    <3> SUFFICES ASSUME NEW put \in puts'
                 PROVE  /\ put.from \in Probers /\ put.to \in Probers /\ put.from # put.to
                        /\ probe'[put.from] = "gather"
                        /\ put.status = allStatus'[put.from][put.from]
      BY DEF PutsAreStatuses
    <3>1. CASE put \in puts
      BY <3>1, <1>1, <1>3, <2>1 DEF PutsAreStatuses
    <3>2. CASE put \notin puts
      <4>1. PICK q \in Probers \ {p} : put = [from |-> p, to |-> q, status |-> allStatus[p][p]]
        BY <2>1, <3>2
      <4> QED BY <4>1, <2>1, <2>2
    <3> QED BY <3>1, <3>2
  <2>4. Told'
    <3> SUFFICES ASSUME NEW r \in Probers, NEW q \in Probers,
                        probe'[q] = "gather", Goal(r)' = "gather"
                 PROVE  \/ allStatus[r][q] = allStatus[q][q]
                        \/ \E put \in puts' : put.from = q /\ put.to = r
      BY <2>1 DEF Told
    <3>1. CASE q = p /\ r # p
      <4>1. [from |-> p, to |-> r, status |-> allStatus[p][p]] \in puts'
        BY <2>1, <3>1
      <4> QED BY <4>1, <3>1
    <3>2. CASE q # p
      <4>1. probe[q] = "gather" /\ Goal(r) = "gather"
        BY <3>2, <1>1, <2>2
      <4> QED BY <4>1, <2>1 DEF Told
    <3> QED BY <3>1, <3>2
  <2>5. ExitsAgree'
    BY <1>1, <1>2, <2>2 DEF ExitsAgree
  <2> QED BY <2>3, <2>4, <2>5
<1>7. CASE Summarize(p)
  <2>1. /\ puts' = puts /\ allStatus' = allStatus /\ probe[p] = "summarize"
        /\ probe'[p] = "release" /\ loopExit'[p] = Verdict(p)
    BY <1>7 DEF Summarize, Verdict, To, Set, ProbeTypeOK
  <2>2. Goal(p)' = "release" /\ Goal(p) = "release" /\ ExitAhead(p)' = ExitAhead(p)
    BY <2>1 DEF Goal, ExitAhead
  <2>3. PutsAreStatuses'
    <3> SUFFICES ASSUME NEW put \in puts
                 PROVE  /\ put.from \in Probers /\ put.to \in Probers /\ put.from # put.to
                        /\ probe'[put.from] = "gather"
                        /\ put.status = allStatus'[put.from][put.from]
      BY <2>1 DEF PutsAreStatuses
    <3> QED BY <1>1, <1>3 DEF PutsAreStatuses
  <2>4. Told'
    <3> SUFFICES ASSUME NEW r \in Probers, NEW q \in Probers,
                        probe'[q] = "gather", Goal(r)' = "gather"
                 PROVE  \/ allStatus[r][q] = allStatus[q][q]
                        \/ \E put \in puts : put.from = q /\ put.to = r
      BY <2>1 DEF Told
    <3> QED BY <1>1, <2>1, <2>2 DEF Told
  <2>5. ExitsAgree'
    BY <1>1, <1>2, <2>2 DEF ExitsAgree
  <2> QED BY <2>3, <2>4, <2>5
<1> QED BY <1>5, <1>6, <1>7, LocalRest

----------------------------------------------------------------------------
(* What the library does *)

LEMMA LandKeeps ==
  ASSUME ProbeIInv, NEW put \in puts, Land(put)
  PROVE  ProbeIInv'
<1>1. /\ put.from \in Probers /\ put.to \in Probers /\ put.from # put.to
      /\ probe[put.from] = "gather" /\ put.status = allStatus[put.from][put.from]
  BY DEF ProbeIInv, PutsAreStatuses
<1>2. /\ UNCHANGED <<probe, loop, loopExit, block, range, relation, sample>>
      /\ puts' = puts \ {put}
      /\ allStatus' = [allStatus EXCEPT ![put.to][put.from] = put.status]
  BY DEF Land, control, counters
<1>3. allStatus \in [Probers -> [Probers -> Conditions]]
  BY DEF ProbeIInv, ProbeTypeOK
<1>4. /\ allStatus' \in [Probers -> [Probers -> Conditions]]
      /\ allStatus'[put.to][put.from] = put.status
      /\ \A q, r \in Probers : q # put.to \/ r # put.from => allStatus'[q][r] = allStatus[q][r]
  BY <1>1, <1>2, <1>3
<1>5. \A q \in Probers : AimsKept(q) /\ probe'[q] = probe[q]
  <2>1. \A q \in Probers : Apart(q)
    BY <1>2 DEF Apart
  <2> QED BY <2>1, ApartAims DEF Apart
<1>6. ProbeTypeOK'
  BY <1>2, <1>4 DEF ProbeIInv, ProbeTypeOK
<1>7. AimsAgree'
  <2> SUFFICES ASSUME NEW q \in Probers, NEW r \in Probers,
                      probe'[q] # "FATAL", probe'[r] # "FATAL"
               PROVE  SameAims(q, r)'
    BY DEF AimsAgree
  <2>1. AimsKept(q) /\ AimsKept(r) /\ SameAims(q, r)
    BY <1>5 DEF ProbeIInv, AimsAgree
  <2> QED BY <2>1 DEF AimsKept, SameAims
<1>8. ShortOfMemory'
  BY <1>5 DEF ProbeIInv, ShortOfMemory, AimsKept
<1>9. PutsAreStatuses'
  <2> SUFFICES ASSUME NEW other \in puts'
               PROVE  /\ other.from \in Probers /\ other.to \in Probers
                      /\ other.from # other.to /\ probe'[other.from] = "gather"
                      /\ other.status = allStatus'[other.from][other.from]
    BY DEF PutsAreStatuses
  <2>1. /\ other.from \in Probers /\ other.to \in Probers
        /\ other.from # other.to /\ probe[other.from] = "gather"
        /\ other.status = allStatus[other.from][other.from]
    BY <1>2 DEF ProbeIInv, PutsAreStatuses
  <2> QED BY <2>1, <1>1, <1>2, <1>4
<1>10. Told'
  <2> SUFFICES ASSUME NEW r \in Probers, NEW q \in Probers,
                      probe'[q] = "gather", Goal(r)' = "gather"
               PROVE  \/ allStatus'[r][q] = allStatus'[q][q]
                      \/ \E other \in puts' : other.from = q /\ other.to = r
    BY DEF Told
  <2>1. allStatus'[q][q] = allStatus[q][q]
    BY <1>1, <1>4
  <2>2. CASE r = put.to /\ q = put.from
    BY <2>1, <2>2, <1>1, <1>4
  <2>3. CASE ~ (r = put.to /\ q = put.from)
    <3>1. /\ probe[q] = "gather" /\ Goal(r) = "gather"
          /\ allStatus'[r][q] = allStatus[r][q]
      BY <2>3, <1>4, <1>5 DEF AimsKept
    <3>2. CASE \E other \in puts : other.from = q /\ other.to = r
      BY <3>2, <2>3, <1>2
    <3> QED BY <3>1, <3>2, <2>1 DEF ProbeIInv, Told
  <2> QED BY <2>2, <2>3
<1>11. \A q \in Probers : Goal(q) # "release" \/ probe[q] # "summarize" \/ q # put.to
  <2> SUFFICES ASSUME NEW q \in Probers, q = put.to, probe[q] = "summarize"
               PROVE  FALSE
    OBVIOUS
  <2>1. Goal(put.from) = "gather" /\ Goal(q) = "release"
    BY <1>1 DEF Goal
  <2>2. probe[put.from] # "FATAL"
    BY <1>1
  <2> QED BY <2>1, <2>2, <1>1 DEF ProbeIInv, AimsAgree, SameAims
<1>12. ExitsAgree'
  <2> SUFFICES ASSUME NEW q \in Probers, Goal(q) = "release"
               PROVE  ExitAhead(q)' = ExitAhead(q)
    BY <1>5 DEF ProbeIInv, ExitsAgree, AimsKept
  <2>1. CASE probe[q] # "summarize"
    BY <2>1, <1>2 DEF ExitAhead
  <2>2. CASE q # put.to
    <3>1. \A r \in Probers : allStatus'[q][r] = allStatus[q][r]
      BY <2>2, <1>4
    <3>2. {allStatus'[q][r] : r \in Probers} = {allStatus[q][r] : r \in Probers}
      BY <3>1
    <3>3. Verdict(q)' = Verdict(q)
      BY <3>2 DEF Verdict
    <3> QED BY <3>3, <1>2 DEF ExitAhead
  <2> QED BY <2>1, <2>2, <1>11
<1> QED BY <1>6, <1>7, <1>8, <1>9, <1>10, <1>12 DEF ProbeIInv

\* A sync that somebody misses: it can only be the one that registers the
\* memory, and ends the probe of everybody.
LEMMA MissedSync ==
  ASSUME ProbeIInv, Sync, NEW g \in Probers, Gone(g)
  PROVE  ProbeIInv'
<1>1. PICK s \in Probers : InSync(s)
  BY DEF Sync
<1>2. \A q \in Probers : InSync(q) \/ Gone(q) => Goal(q) = probe[q]
  BY DEF InSync, Gone, Syncs, Outcomes, Goal
<1>3. \A q \in Probers : InSync(q) \/ Gone(q)
  BY DEF Sync
<1>4. \A q \in Probers : InSync(q) => probe[q] \notin Outcomes
  BY DEF InSync, Syncs, Outcomes
<1>5. probe[g] = "FATAL"
  <2> SUFFICES ASSUME probe[g] # "FATAL" PROVE FALSE
    OBVIOUS
  <2>1. probe[s] # "FATAL" /\ Goal(s) = probe[s] /\ Goal(g) = probe[g]
    BY <1>1, <1>2, <1>4 DEF Outcomes
  <2>2. probe[s] = probe[g]
    BY <2>1 DEF ProbeIInv, AimsAgree, SameAims
  <2> QED BY <2>2, <1>1, <1>4 DEF Gone
<1>6. \A q \in Probers : probe[q] # "FATAL" => probe[q] = "register"
  BY <1>2, <1>3, <1>5 DEF ProbeIInv, ShortOfMemory
<1>7. /\ probe' = [p \in Probers |-> IF Gone(p) THEN probe[p] ELSE Interrupted(p)]
      /\ loopExit' = [p \in Probers |-> IF InGather(p) THEN "Error" ELSE loopExit[p]]
      /\ UNCHANGED <<loop, block, range, relation, sample, allStatus, puts>>
      /\ puts = {}
  BY DEF Sync, counters
<1>8. \A q \in Probers : probe'[q] = "FATAL"
  BY <1>6, <1>7 DEF Interrupted, InGather, Gone, Outcomes
<1>9. ProbeTypeOK'
  <2>1. probe' \in [Probers -> ProbePlaces]
    BY <1>7, <1>8 DEF ProbePlaces, Outcomes
  <2>2. loopExit' \in [Probers -> Conditions]
    BY <1>7 DEF ProbeIInv, ProbeTypeOK, Conditions
  <2> QED BY <1>7, <2>1, <2>2 DEF ProbeIInv, ProbeTypeOK
<1>10. \A q \in Probers : Goal(q)' = "FATAL"
  BY <1>8 DEF Goal
<1> QED BY <1>7, <1>8, <1>9, <1>10 DEF ProbeIInv, AimsAgree, ShortOfMemory,
        PutsAreStatuses, Told, ExitsAgree

\* A sync of all: they are in it for the same reason, and go on alike.
LEMMA CommonSync ==
  ASSUME ProbeIInv, Sync, \A q \in Probers : ~ Gone(q)
  PROVE  ProbeIInv'
<1>1. \A q \in Probers : probe[q] \in Syncs
  BY DEF Sync, InSync
<1>2. \A q \in Probers :
        /\ Goal(q) = probe[q] /\ probe[q] # "FATAL" /\ Goal(q) \in Syncs
        /\ LoopAhead(q) = loop[q] /\ BlockAhead(q) = block[q] /\ RangeAhead(q) = range[q]
        /\ RelationAhead(q) = relation[q] /\ SampleAhead(q) = sample[q]
  <2> SUFFICES ASSUME NEW q \in Probers
               PROVE  /\ Goal(q) = probe[q] /\ probe[q] # "FATAL" /\ Goal(q) \in Syncs
                      /\ LoopAhead(q) = loop[q] /\ BlockAhead(q) = block[q]
                      /\ RangeAhead(q) = range[q]
                      /\ RelationAhead(q) = relation[q] /\ SampleAhead(q) = sample[q]
    OBVIOUS
  <2>1. probe[q] \notin {"resize", "explore", "measure", "put", "summarize", "exit",
                         "next range", "next block", "FATAL"}
    BY <1>1 DEF Syncs
  <2>2. Goal(q) = probe[q]
    BY <2>1 DEF Goal
  <2> QED BY <1>1, <2>1, <2>2 DEF LoopAhead, BlockAhead, RangeAhead, RelationAhead,
          SampleAhead, Measured
<1>3. \A q, r \in Probers :
        /\ probe[q] = probe[r] /\ loop[q] = loop[r] /\ block[q] = block[r]
        /\ range[q] = range[r] /\ relation[q] = relation[r] /\ sample[q] = sample[r]
  <2> SUFFICES ASSUME NEW q \in Probers, NEW r \in Probers
               PROVE  /\ probe[q] = probe[r] /\ loop[q] = loop[r] /\ block[q] = block[r]
                      /\ range[q] = range[r] /\ relation[q] = relation[r]
                      /\ sample[q] = sample[r]
    OBVIOUS
  <2>1. SameAims(q, r)
    BY <1>2 DEF ProbeIInv, AimsAgree
  <2> QED BY <2>1, <1>2 DEF SameAims
<1>4. /\ probe' = [p \in Probers |-> After[probe[p]]]
      /\ loopExit' = [p \in Probers |-> loopExit[p]]
      /\ UNCHANGED <<loop, block, range, relation, sample, allStatus, puts>>
      /\ puts = {}
  BY DEF Sync, counters
<1>5. \A q \in Probers : probe'[q] = After[probe[q]] /\ loopExit'[q] = loopExit[q]
  BY <1>4
<1>6. \A q \in Probers :
        /\ probe'[q] \in {"explore", "timed", "next range", "after", "measure", "put",
                          "summarize", "exit", "next block"}
        /\ probe'[q] = "exit" => probe[q] = "release"
        /\ probe'[q] = "summarize" => probe[q] = "gather"
  <2> SUFFICES ASSUME NEW q \in Probers
               PROVE  /\ probe'[q] \in {"explore", "timed", "next range", "after", "measure",
                                        "put", "summarize", "exit", "next block"}
                      /\ probe'[q] = "exit" => probe[q] = "release"
                      /\ probe'[q] = "summarize" => probe[q] = "gather"
    OBVIOUS
  <2>1. probe'[q] = After[probe[q]]
    BY <1>5
  <2>2. /\ After["register"] = "explore" /\ After["buffers"] = "timed"
        /\ After["timed"] = "next range" /\ After["before"] = "after"
        /\ After["after"] = "measure" /\ After["guard"] = "put"
        /\ After["gather"] = "summarize" /\ After["release"] = "exit"
        /\ After["times"] = "next block"
    BY DEF After
  <2>3. probe[q] \in {"register", "buffers", "timed", "before", "after", "guard", "gather",
                      "release", "times"}
    BY <1>1 DEF Syncs
  <2> QED BY <2>1, <2>2, <2>3
<1>7. ProbeTypeOK'
  <2>1. probe' \in [Probers -> ProbePlaces]
    <3>1. \A q \in Probers : After[probe[q]] \in ProbePlaces
      BY <1>5, <1>6 DEF ProbePlaces, Syncs
    <3> QED BY <1>4, <3>1
  <2>2. loopExit' \in [Probers -> Conditions]
    BY <1>4 DEF ProbeIInv, ProbeTypeOK
  <2> QED BY <1>4, <2>1, <2>2 DEF ProbeIInv, ProbeTypeOK
<1>8. AimsAgree'
  <2> SUFFICES ASSUME NEW q \in Probers, NEW r \in Probers
               PROVE  SameAims(q, r)'
    BY DEF AimsAgree
  <2>1. /\ probe'[q] = probe'[r] /\ loop'[q] = loop'[r] /\ block'[q] = block'[r]
        /\ range'[q] = range'[r] /\ relation'[q] = relation'[r] /\ sample'[q] = sample'[r]
    BY <1>3, <1>4, <1>5
  <2>2. probe'[q] = "exit" => loopExit'[q] = loopExit'[r]
    <3> SUFFICES ASSUME probe'[q] = "exit" PROVE loopExit[q] = loopExit[r]
      BY <1>5
    <3>1. probe[q] = "release" /\ probe[r] = "release"
      BY <1>3, <1>6
    <3>2. Goal(q) = "release" /\ Goal(r) = "release"
      BY <1>2, <3>1
    <3> QED BY <3>1, <3>2 DEF ProbeIInv, ExitsAgree, ExitAhead
  <2> QED BY <2>1, <2>2 DEF SameAims, Goal, AfterExit, IsLast, LoopAhead, BlockAhead,
          RangeAhead, RelationAhead, SampleAhead, Measured
<1>9. ShortOfMemory'
  BY <1>6 DEF ShortOfMemory
<1>10. PutsAreStatuses' /\ Told'
  BY <1>4, <1>6 DEF PutsAreStatuses, Told
<1>11. ExitsAgree'
  <2> SUFFICES ASSUME NEW q \in Probers, NEW r \in Probers,
                      Goal(q)' = "release", Goal(r)' = "release"
               PROVE  ExitAhead(q)' = ExitAhead(r)'
    BY DEF ExitsAgree
  <2>1. \A p \in Probers : Goal(p)' = "release" => probe'[p] = "summarize"
    <3>1. \A p \in Probers : probe'[p] = "exit" => Goal(p)' # "release"
      BY DEF Goal, AfterExit
    <3> QED BY <3>1, <1>6 DEF Goal
  <2>2. probe'[q] = "summarize" /\ probe'[r] = "summarize"
    BY <2>1
  <2>3. \A p \in Probers : probe[p] = "gather" /\ Goal(p) = "gather"
    <3>1. probe[q] = "gather"
      BY <2>2, <1>6
    <3>2. \A p \in Probers : probe[p] = "gather"
      BY <3>1, <1>3
    <3> QED BY <3>2, <1>2
  <2>4. \A p \in Probers : allStatus[q][p] = allStatus[p][p] /\ allStatus[r][p] = allStatus[p][p]
    BY <2>3, <1>4 DEF ProbeIInv, Told
  <2>5. {allStatus'[q][p] : p \in Probers} = {allStatus'[r][p] : p \in Probers}
    BY <2>4, <1>4
  <2>6. Verdict(q)' = Verdict(r)'
    BY <2>5 DEF Verdict
  <2> QED BY <2>2, <2>6 DEF ExitAhead
<1> QED BY <1>7, <1>8, <1>9, <1>10, <1>11 DEF ProbeIInv

----------------------------------------------------------------------------
(* The whole probe *)

LEMMA ProbeStarts ==
  ProbeInit => ProbeIInv
<1> SUFFICES ASSUME ProbeInit PROVE ProbeIInv
  OBVIOUS
<1>1. MinRange \in Nat
  BY ProbeAssumption
<1>2. ProbeTypeOK
  BY <1>1 DEF ProbeInit, ProbeTypeOK, ProbePlaces, Conditions
<1>3. \A q \in Probers : probe[q] = "resize" /\ Goal(q) = "register"
  BY DEF ProbeInit, Goal
<1>4. AimsAgree
  BY <1>3 DEF ProbeInit, AimsAgree, SameAims, LoopAhead, BlockAhead, RangeAhead,
     RelationAhead, SampleAhead, Measured
<1>5. PutsAreStatuses
  BY DEF ProbeInit, PutsAreStatuses
<1> QED BY <1>2, <1>3, <1>4, <1>5 DEF ProbeIInv, ShortOfMemory, Told, ExitsAgree

LEMMA ProbeGoesOn ==
  ProbeIInv /\ [ProbeNext]_probeVars => ProbeIInv'
<1> SUFFICES ASSUME ProbeIInv, [ProbeNext]_probeVars PROVE ProbeIInv'
  OBVIOUS
<1>1. CASE UNCHANGED probeVars
  <2>1. \A q \in Probers : AimsKept(q)
    <3>1. \A q \in Probers : Apart(q)
      BY <1>1 DEF Apart, probeVars
    <3> QED BY <3>1, ApartAims
  <2>2. UNCHANGED <<probe, loop, loopExit, block, range, relation, sample, allStatus, puts>>
    BY <1>1 DEF probeVars
  <2>3. ProbeTypeOK'
    BY <2>2 DEF ProbeIInv, ProbeTypeOK
  <2>4. AimsAgree'
    <3> SUFFICES ASSUME NEW q \in Probers, NEW r \in Probers,
                        probe[q] # "FATAL", probe[r] # "FATAL"
                 PROVE  SameAims(q, r)'
      BY <2>2 DEF AimsAgree
    <3>1. AimsKept(q) /\ AimsKept(r) /\ SameAims(q, r)
      BY <2>1 DEF ProbeIInv, AimsAgree
    <3> QED BY <3>1 DEF AimsKept, SameAims
  <2>5. ShortOfMemory' /\ Told'
    BY <2>1, <2>2 DEF ProbeIInv, ShortOfMemory, Told, AimsKept
  <2>6. PutsAreStatuses'
    BY <2>2 DEF ProbeIInv, PutsAreStatuses
  <2>7. \A q \in Probers : Goal(q)' = Goal(q) /\ ExitAhead(q)' = ExitAhead(q)
    BY <2>1, <2>2 DEF AimsKept, ExitAhead, Verdict
  <2>8. ExitsAgree'
    BY <2>7 DEF ProbeIInv, ExitsAgree
  <2> QED BY <2>3, <2>4, <2>5, <2>6, <2>8 DEF ProbeIInv
<1>2. ASSUME NEW p \in Probers, LocalStep(p) PROVE ProbeIInv'
  <2>1. ProbeTypeOK /\ AimsAgree /\ ShortOfMemory /\ PutsAreStatuses /\ Told /\ ExitsAgree
    BY DEF ProbeIInv
  <2>2. ProbeTypeOK'
    BY <1>2, <2>1, LocalType
  <2>3. AimsAgree' /\ ShortOfMemory'
    BY <1>2, <2>1, LocalAgreement
  <2>4. PutsAreStatuses' /\ Told' /\ ExitsAgree'
    BY <1>2, <2>1, LocalKnowledge
  <2> QED BY <2>2, <2>3, <2>4 DEF ProbeIInv
<1>3. CASE \E put \in puts : Land(put)
  BY <1>3, LandKeeps
<1>4. CASE Sync
  BY <1>4, MissedSync, CommonSync
<1> QED BY <1>1, <1>2, <1>3, <1>4 DEF ProbeNext, LocalStep

(* For any number of processes, and whatever clocks and memory say: in every  *)
(* sync of findMachineParams they are for the same reason, in the same round  *)
(* of the same loop, and they end alike unless one found no memory.           *)
THEOREM ProbesAgree == ProbeSpec => []ProbeAgreement
<1>1. ProbeIInv => ProbeAgreement
  <2> SUFFICES ASSUME ProbeIInv, NEW p \in Probers, NEW q \in Probers
               PROVE  /\ InSync(p) /\ InSync(q) => Place(p) = Place(q)
                      /\ Gone(p) /\ Gone(q) =>
                           probe[p] = probe[q] \/ "FATAL" \in {probe[p], probe[q]}
    BY DEF ProbeAgreement
  <2>1. probe[p] # "FATAL" /\ probe[q] # "FATAL" => SameAims(p, q)
    BY DEF ProbeIInv, AimsAgree
  <2>2. CASE InSync(p) /\ InSync(q)
    <3>1. \A r \in Probers : InSync(r) =>
            /\ Goal(r) = probe[r] /\ probe[r] # "FATAL" /\ Goal(r) \in Syncs
            /\ ~ Gone(r)
            /\ LoopAhead(r) = loop[r] /\ BlockAhead(r) = block[r] /\ RangeAhead(r) = range[r]
            /\ RelationAhead(r) = relation[r] /\ SampleAhead(r) = sample[r]
      BY ZenonT(30) DEF InSync, Gone, Syncs, Outcomes, Goal, LoopAhead, BlockAhead, RangeAhead,
         RelationAhead, SampleAhead, Measured
    <3> QED BY <2>1, <2>2, <3>1 DEF SameAims, Place
  <2>3. CASE Gone(p) /\ Gone(q)
    <3>1. ~ InSync(p) /\ Goal(p) = probe[p] /\ Goal(q) = probe[q]
      BY <2>3 DEF InSync, Gone, Syncs, Outcomes, Goal
    <3> QED BY <2>1, <3>1 DEF SameAims
  <2> QED BY <2>2, <2>3
<1> QED BY <1>1, ProbeStarts, ProbeGoesOn, PTL DEF ProbeSpec

----------------------------------------------------------------------------
(* The dynamic hook.  Members know only their communicator, its collective  *)
(* calls and their own turn; all of it follows from the history of the      *)
(* turns that the server has been through.                                  *)

Before     == hook[0] \in {"start", "accepting"}
Settled(p) == p < turn[0] \/ (p = turn[0] /\ hook[0] \notin {"start", "accepting", "growing"})

\* The communicator of turn p, and the turn f in which it was new.
Group(p) == {0} \cup {connections[j] : j \in {i \in 1 .. p - 1 : success[i]}}
Begins(f, p) ==
  /\ f \in 1 .. p
  /\ \A j \in f .. p - 1 : ~ success[j]
  /\ f = 1 \/ success[f - 1]

Arriving == {"start", "accepting", "greeting", "confirming", "waiting"}
Running  == {"growing", "agreeing", "admitting", "splitting", "returned", "aborted"}
Ops      == (SUBSET Pids) \X Nat \X {"allreduce", "accept", "connect", "split"}
OnComm(q) == {op \in entered[q] : op[1] = members[q]}

HookTypeOK ==
  /\ hook \in [Pids -> Arriving \cup Running \cup {"joining", "failed"}]
  /\ hook[0] \notin {"greeting", "confirming", "waiting", "joining"}
  /\ connections \in Seq(Clients) /\ Len(connections) <= NProcs - 1
  /\ portFor \in [Clients -> Int]
  /\ turn \in [Pids -> 1 .. NProcs]
  /\ entered \in [Pids -> SUBSET Ops] /\ \A q \in Pids : IsFiniteSet(entered[q])
  /\ success \in [Clients -> BOOLEAN]
  /\ decided \in [Pids -> [Clients -> {"none", "grow", "skip"}]]
  /\ members \in [Pids -> SUBSET Pids]

\* Every client connects once, and gets a port only in its own turn.
ConnectionsOK ==
  /\ \A i, j \in 1 .. Len(connections) : connections[i] = connections[j] => i = j
  /\ \A i \in 1 .. Len(connections) : hook[connections[i]] \notin {"start", "greeting"}
  /\ Before => turn[0] = 1 /\ \A c \in Clients : portFor[c] = -1
  /\ \A c \in Clients : portFor[c] # -1 => Len(connections) = NProcs - 1
  /\ \A c \in Clients : portFor[c] > 0 =>
       LET p == portFor[c] IN p \in Clients /\ connections[p] = c /\ Settled(p) /\ success[p]

\* Only clients whose time was up are left out.
LeftOut ==
  /\ \A q \in closed : q \in Pids /\ hook[q] \in {"failed", "aborted"}
  /\ \A p \in Clients : ~ success[p] =>
       ~ Before /\ Len(connections) = NProcs - 1 /\ hook[connections[p]] = "failed"

\* The number of a call of the server tells the turn.
ServerCalls ==
  \A op \in entered[0] :
    /\ op[3] = "allreduce" => \E p \in Clients, f \in Clients :
         Settled(p) /\ Begins(f, p) /\ op[1] = Group(p) /\ op[2] = p - f + 1
    /\ op[3] = "accept" => \E p \in Clients : Settled(p) /\ success[p] /\ op[1] = Group(p)

\* Its communicator is that of its turn, even when its time is up.
ServerMember == members[0] = Group(turn[0])

DecidedOK(q) ==
  \A p \in Clients : decided[q][p] # "none" =>
    Settled(p) /\ (decided[q][p] = "grow" <=> success[p])
CallsOK(q, made) ==
  \E f \in 1 .. NProcs :
    /\ Begins(f, turn[q])
    /\ Cardinality(OnComm(q)) = turn[q] - f + made
    /\ \A op \in OnComm(q) : op[2] <= turn[q] - f + made
MemberOK(q) ==
  /\ Len(connections) = NProcs - 1 /\ ~ Before
  /\ members[q] = Group(turn[q]) /\ q \in members[q]
  /\ \A j \in 1 .. turn[q] - 1 : Settled(j)
  /\ \A op \in entered[q] : op[1] \subseteq members[q]
ProcessOK(q) ==
  /\ DecidedOK(q)
  /\ hook[q] \in Arriving => members[q] = {q} /\ entered[q] = {}
  /\ hook[q] = "joining" => portFor[q] > 0 /\ \A op \in entered[q] : op[1] = {q}
  /\ hook[q] \in Running => MemberOK(q)
  /\ hook[q] = "growing" => CallsOK(q, 0)
  /\ hook[q] = "agreeing" => CallsOK(q, 1) /\ turn[q] < NProcs
  /\ hook[q] = "admitting" => turn[q] < NProcs /\ Settled(turn[q]) /\ success[turn[q]]
  /\ hook[q] \in {"splitting", "returned"} => turn[q] = NProcs
  /\ hook[q] = "aborted" => \E j \in 1 .. turn[q] - 1 : ~ success[j]

HookIInv ==
  /\ HookTypeOK /\ ConnectionsOK /\ LeftOut /\ ServerCalls /\ ServerMember
  /\ \A q \in Pids : ProcessOK(q)

----------------------------------------------------------------------------
(* Steps of the dynamic hook *)

LEMMA PidFacts ==
  /\ 0 \in Pids /\ Clients \subseteq Pids /\ 0 \notin Clients /\ NProcs \in Nat \ {0}
  /\ \A p : p \in Clients <=> p \in Nat /\ 1 <= p /\ p < NProcs
BY HookAssumption DEF Pids, Clients

\* A collective call has a new number on its communicator.
LEMMA EnterCall ==
  ASSUME HookTypeOK, NEW q \in Pids, NEW kind \in {"allreduce", "accept", "connect", "split"},
         Enter(q, kind)
  PROVE  /\ entered' \in [Pids -> SUBSET Ops] /\ \A r \in Pids : IsFiniteSet(entered'[r])
         /\ \A r \in Pids : r # q => entered'[r] = entered[r]
         /\ IsFiniteSet(OnComm(q)) /\ Cardinality(OnComm(q)) \in Nat
         /\ entered'[q] = entered[q] \cup {<<members[q], Cardinality(OnComm(q)) + 1, kind>>}
<1>1. /\ entered \in [Pids -> SUBSET Ops] /\ \A r \in Pids : IsFiniteSet(entered[r])
      /\ members \in [Pids -> SUBSET Pids]
  BY DEF HookTypeOK
<1>2. IsFiniteSet(OnComm(q))
  <2>1. OnComm(q) \subseteq entered[q]
    BY DEF OnComm
  <2> QED BY <1>1, <2>1, FS_Subset
<1>3. Cardinality(OnComm(q)) \in Nat
  BY <1>2, FS_CardinalityType
<1>4. PICK op : op = <<members[q], Cardinality(OnComm(q)) + 1, kind>>
  OBVIOUS
<1>5. entered' = [entered EXCEPT ![q] = entered[q] \cup {op}]
  BY <1>4 DEF Enter, ThisCall, OnComm
<1>6. op \in Ops
  <2>1. members[q] \in SUBSET Pids
    BY <1>1
  <2>2. Cardinality(OnComm(q)) + 1 \in Nat
    BY <1>3
  <2> QED BY <1>4, <2>1, <2>2 DEF Ops
<1>7. entered[q] \cup {op} \in SUBSET Ops /\ IsFiniteSet(entered[q] \cup {op})
  <2>1. IsFiniteSet(entered[q] \cup {op})
    BY <1>1, FS_AddElement
  <2>2. entered[q] \in SUBSET Ops
    BY <1>1
  <2> QED BY <1>6, <2>1, <2>2
<1>8. /\ entered' \in [Pids -> SUBSET Ops] /\ entered'[q] = entered[q] \cup {op}
      /\ \A r \in Pids : r # q => entered'[r] = entered[r]
  BY <1>1, <1>5, <1>7
<1>9. \A r \in Pids : IsFiniteSet(entered'[r])
  BY <1>1, <1>7, <1>8
<1> QED BY <1>2, <1>3, <1>4, <1>8, <1>9

\* The client of a turn.
LEMMA ClientOfTurn ==
  ASSUME HookTypeOK, Len(connections) = NProcs - 1, NEW p \in Clients
  PROVE  connections[p] \in Clients
<1>1. p \in 1 .. Len(connections)
  BY PidFacts
<1> QED BY <1>1 DEF HookTypeOK

LEMMA HookTypeKept ==
  ASSUME HookIInv, HookNext
  PROVE  HookTypeOK'
<1>1. /\ hook \in [Pids -> Arriving \cup Running \cup {"joining", "failed"}]
      /\ hook[0] \notin {"greeting", "confirming", "waiting", "joining"}
      /\ connections \in Seq(Clients) /\ Len(connections) <= NProcs - 1
      /\ portFor \in [Clients -> Int]
      /\ turn \in [Pids -> 1 .. NProcs]
      /\ entered \in [Pids -> SUBSET Ops] /\ \A q \in Pids : IsFiniteSet(entered[q])
      /\ success \in [Clients -> BOOLEAN]
      /\ decided \in [Pids -> [Clients -> {"none", "grow", "skip"}]]
      /\ members \in [Pids -> SUBSET Pids]
      /\ HookTypeOK
  BY DEF HookIInv, HookTypeOK
<1> USE PidFacts DEF HookTypeOK, sockets, group, Goto, Arriving, Running
<1>2. CASE Listen
  BY <1>1, <1>2 DEF Listen
<1>3. CASE Confirm
  <2>1. portFor' \in [Clients -> Int]
    BY <1>3 DEF Confirm
  <2> QED BY <1>1, <1>3, <2>1 DEF Confirm
<1>4. ASSUME NEW c \in Clients, Connect(c) PROVE HookTypeOK'
  BY <1>1, <1>4 DEF Connect
<1>5. ASSUME NEW c \in Clients, AcceptClient(c) PROVE HookTypeOK'
  <2>1. Append(connections, c) \in Seq(Clients) /\ Len(Append(connections, c)) = Len(connections) + 1
    BY <1>1
  <2>2. connections' \in Seq(Clients) /\ Len(connections') <= NProcs - 1
    <3>1. Len(connections) \in Nat /\ Len(connections) < NProcs - 1
      BY <1>1, <1>5 DEF AcceptClient
    <3>2. connections' = Append(connections, c) \/ connections' = connections
      BY <1>5 DEF AcceptClient
    <3>3. Len(connections) + 1 <= NProcs - 1
      BY <3>1
    <3> QED BY <1>1, <2>1, <3>2, <3>3
  <2>3. /\ hook' \in [Pids -> Arriving \cup Running \cup {"joining", "failed"}]
        /\ hook'[0] \notin {"greeting", "confirming", "waiting", "joining"}
    BY <1>1, <1>5 DEF AcceptClient
  <2> QED BY <1>1, <1>5, <2>2, <2>3 DEF AcceptClient
<1>6. ASSUME NEW c \in Clients, ReadOK(c) PROVE HookTypeOK'
  BY <1>1, <1>6 DEF ReadOK
<1>7. CASE SendPort
  <2>1. /\ entered' \in [Pids -> SUBSET Ops] /\ \A r \in Pids : IsFiniteSet(entered'[r])
    <3>1. Enter(0, "allreduce")
      BY <1>7 DEF SendPort
    <3> QED BY <1>1, <3>1, EnterCall
  <2>2. portFor' \in [Clients -> Int] /\ success' \in [Clients -> BOOLEAN]
    <3>1. PICK ok \in BOOLEAN :
            /\ success' = [success EXCEPT ![turn[0]] = ok]
            /\ portFor' = IF ok THEN [portFor EXCEPT ![connections[turn[0]]] = turn[0]]
                                ELSE portFor
      BY <1>7 DEF SendPort
    <3>2. turn[0] \in Int
      BY <1>1
    <3>3. portFor' \in [Clients -> Int]
      BY <1>1, <3>1, <3>2
    <3> QED BY <1>1, <3>1, <3>3
  <2> QED BY <1>1, <1>7, <2>1, <2>2 DEF SendPort
<1>8. ASSUME NEW q \in Pids, Join(q) PROVE HookTypeOK'
  <2>1. /\ entered' \in [Pids -> SUBSET Ops] /\ \A r \in Pids : IsFiniteSet(entered'[r])
    <3>1. Enter(q, "allreduce")
      BY <1>8 DEF Join
    <3> QED BY <1>1, <3>1, EnterCall
  <2> QED BY <1>1, <1>8, <2>1 DEF Join
<1>9. ASSUME NEW q \in Pids, Decide(q) PROVE HookTypeOK'
  <2>1. turn[q] \in Clients
    <3>1. turn[q] < NProcs
      BY <1>9 DEF Decide, HookIInv, ProcessOK
    <3> QED BY <1>1, <3>1
  <2>2. decided' \in [Pids -> [Clients -> {"none", "grow", "skip"}]]
    <3>1. PICK d \in {"grow", "skip"} : decided' = [decided EXCEPT ![q][turn[q]] = d]
      BY <1>9 DEF Decide
    <3>2. [decided[q] EXCEPT ![turn[q]] = d] \in [Clients -> {"none", "grow", "skip"}]
      BY <1>1
    <3> QED BY <1>1, <3>1, <3>2
  <2>3. turn' \in [Pids -> 1 .. NProcs]
    <3>1. turn[q] + 1 \in 1 .. NProcs
      BY <2>1
    <3> QED BY <1>1, <1>9, <3>1, ZenonT(30) DEF Decide
  <2>4. entered' \in [Pids -> SUBSET Ops] /\ \A r \in Pids : IsFiniteSet(entered'[r])
    <3>1. CASE Enter(q, "accept")
      BY <1>1, <3>1, EnterCall
    <3>2. CASE entered' = entered
      BY <1>1, <3>2
    <3> QED BY <3>1, <3>2, <1>9 DEF Decide
  <2>5. /\ hook' \in [Pids -> Arriving \cup Running \cup {"joining", "failed"}]
        /\ hook'[0] \notin {"greeting", "confirming", "waiting", "joining"}
    BY <1>1, <1>9 DEF Decide
  <2>6. UNCHANGED <<connections, portFor, success, members>>
    BY <1>9 DEF Decide
  <2> QED BY <1>1, <2>2, <2>3, <2>4, <2>5, <2>6
<1>10. ASSUME NEW q \in Pids, Accepted(q) PROVE HookTypeOK'
  <2>1. turn[q] \in Clients /\ connections[turn[q]] \in Clients
    <3>1. turn[q] < NProcs /\ Len(connections) = NProcs - 1
      BY <1>10 DEF Accepted, HookIInv, ProcessOK, MemberOK
    <3>2. turn[q] \in Clients
      BY <1>1, <3>1
    <3> QED BY <1>1, <3>1, <3>2, ClientOfTurn
  <2>2. turn' \in [Pids -> 1 .. NProcs]
    <3>1. turn[q] + 1 \in 1 .. NProcs
      BY <2>1
    <3> QED BY <1>1, <1>10, <3>1 DEF Accepted
  <2>3. members' \in [Pids -> SUBSET Pids]
    BY <1>1, <1>10, <2>1 DEF Accepted
  <2> QED BY <1>1, <1>10, <2>2, <2>3 DEF Accepted
<1>11. ASSUME NEW c \in Clients, ReadPort(c) PROVE HookTypeOK'
  <2>1. /\ entered' \in [Pids -> SUBSET Ops] /\ \A r \in Pids : IsFiniteSet(entered'[r])
    <3>1. Enter(c, "connect")
      BY <1>11 DEF ReadPort
    <3> QED BY <1>1, <3>1, EnterCall
  <2> QED BY <1>1, <1>11, <2>1 DEF ReadPort
<1>12. ASSUME NEW c \in Clients, Connected(c) PROVE HookTypeOK'
  <2>1. portFor[c] \in Clients
    BY <1>12 DEF Connected, HookIInv, ProcessOK, ConnectionsOK
  <2>2. turn' \in [Pids -> 1 .. NProcs]
    <3>1. portFor[c] + 1 \in 1 .. NProcs
      BY <2>1
    <3> QED BY <1>1, <1>12, <3>1 DEF Connected, FirstTurn
  <2>3. members' \in [Pids -> SUBSET Pids]
    BY <1>1, <1>12 DEF Connected
  <2> QED BY <1>1, <1>12, <2>2, <2>3 DEF Connected
<1>13. ASSUME NEW q \in Pids, EnterSplit(q) PROVE HookTypeOK'
  <2>1. /\ entered' \in [Pids -> SUBSET Ops] /\ \A r \in Pids : IsFiniteSet(entered'[r])
    <3>1. Enter(q, "split")
      BY <1>13 DEF EnterSplit
    <3> QED BY <1>1, <3>1, EnterCall
  <2> QED BY <1>1, <1>13, <2>1 DEF EnterSplit
<1>14. ASSUME NEW q \in Pids, Return(q) PROVE HookTypeOK'
  BY <1>1, <1>14 DEF Return
<1>15. ASSUME NEW q \in Pids, Alarm(q) PROVE HookTypeOK'
  BY <1>1, <1>15 DEF Alarm
<1>16. ASSUME NEW q \in Pids, Exit(q) PROVE HookTypeOK'
  BY <1>1, <1>16 DEF Exit
<1>17. ASSUME NEW c \in Clients, ServerGone(c) PROVE HookTypeOK'
  BY <1>1, <1>17 DEF ServerGone
<1>18. ASSUME NEW q \in Pids, Abort(q) PROVE HookTypeOK'
  BY <1>1, <1>18 DEF Abort
<1> QED BY <1>2, <1>3, <1>4, <1>5, <1>6, <1>7, <1>8, <1>9, <1>10, <1>11, <1>12, <1>13,
        <1>14, <1>15, <1>16, <1>17, <1>18 DEF HookNext, HookStep, ClientStep

\* What has been settled stays so, and the connections with it.
History ==
  /\ Before' => Before
  /\ ~ Before => connections' = connections
  /\ \A p \in Clients : Settled(p) => ~ Before /\ Settled(p)' /\ success'[p] = success[p]

\* The step of a process whose turn has come.
TurnStep(q) == Decide(q) \/ Accepted(q) \/ EnterSplit(q) \/ Return(q) \/ Join(q) \/ Abort(q)

LEMMA HistoryKept ==
  ASSUME HookIInv, HookNext
  PROVE  History
<1>1. /\ hook \in [Pids -> Arriving \cup Running \cup {"joining", "failed"}]
      /\ connections \in Seq(Clients) /\ Len(connections) <= NProcs - 1
      /\ turn \in [Pids -> 1 .. NProcs]
      /\ success \in [Clients -> BOOLEAN]
  BY DEF HookIInv, HookTypeOK
<1>2. Before => turn[0] = 1
  BY DEF HookIInv, ConnectionsOK
<1>3. \A p \in Clients : Settled(p) => ~ Before
  <2> SUFFICES ASSUME NEW p \in Clients, Settled(p), Before
               PROVE  FALSE
    OBVIOUS
  <2>1. p < 1
    BY <1>2 DEF Settled, Before
  <2> QED BY <2>1, PidFacts
\* Most steps leave the history alone.
<1>4. ASSUME Before' => Before, Before \/ connections' = connections, success' = success,
             turn'[0] = turn[0],
             hook'[0] \in {"start", "accepting", "growing"}
               => hook[0] \in {"start", "accepting", "growing"}
      PROVE  History
  BY <1>3, <1>4 DEF History, Settled
<1> USE PidFacts DEF sockets, group, Goto, Before
<1>5. CASE Listen
  BY <1>1, <1>4, <1>5 DEF Listen
<1>6. CASE Confirm
  BY <1>1, <1>4, <1>6 DEF Confirm
<1>7. ASSUME NEW c \in Clients, ClientStep(c) PROVE History
  <2>1. hook'[0] = hook[0] /\ success' = success /\ turn'[0] = turn[0]
    BY <1>1, <1>7 DEF ClientStep, Connect, ReadOK, ReadPort, Connected, ServerGone
  <2>2. connections' = connections
    BY <1>7 DEF ClientStep, Connect, ReadOK, ReadPort, Connected, ServerGone
  <2> QED BY <1>4, <2>1, <2>2
<1>8. ASSUME NEW c \in Clients, AcceptClient(c) PROVE History
  <2>1. hook'[0] = hook[0] /\ success' = success /\ turn'[0] = turn[0] /\ Before
    BY <1>1, <1>8 DEF AcceptClient
  <2> QED BY <1>4, <2>1
<1>9. CASE SendPort
  <2>1. /\ hook[0] = "growing" /\ hook'[0] = "agreeing" /\ turn' = turn
        /\ connections' = connections
    BY <1>1, <1>9 DEF SendPort
  <2>2. PICK ok \in BOOLEAN : success' = [success EXCEPT ![turn[0]] = ok]
    BY <1>9 DEF SendPort
  <2>3. \A p \in Clients : Settled(p) => p < turn[0]
    BY <2>1 DEF Settled
  <2>4. \A p \in Clients : Settled(p) => success'[p] = success[p]
    <3> SUFFICES ASSUME NEW p \in Clients, Settled(p) PROVE success'[p] = success[p]
      OBVIOUS
    <3>1. p # turn[0]
      BY <1>1, <2>3
    <3> QED BY <1>1, <2>2, <3>1
  <2>5. \A p \in Clients : Settled(p) => Settled(p)'
    BY <2>1, <2>3 DEF Settled
  <2> QED BY <1>3, <2>1, <2>4, <2>5 DEF History
<1>10. ASSUME NEW q \in Pids, q # 0, TurnStep(q) PROVE History
  <2>1. hook'[0] = hook[0] /\ success' = success /\ turn'[0] = turn[0]
    BY <1>1, <1>10 DEF TurnStep, Join, Abort, Decide, Accepted, EnterSplit, Return
  <2>2. connections' = connections
    BY <1>10 DEF TurnStep, Join, Abort, Decide, Accepted, EnterSplit, Return
  <2> QED BY <1>4, <2>1, <2>2
<1>11. CASE EnterSplit(0)
  BY <1>1, <1>4, <1>11 DEF EnterSplit
<1>12. CASE Return(0)
  BY <1>1, <1>4, <1>12 DEF Return
<1>13. CASE Decide(0) \/ Accepted(0)
  <2>1. /\ hook[0] \in {"agreeing", "admitting"} /\ success' = success
        /\ connections' = connections
        /\ hook'[0] \in {"growing", "admitting", "aborted"}
    BY <1>1, <1>13 DEF Decide, Accepted
  <2>2. turn'[0] = turn[0] + 1 \/ (turn' = turn /\ hook'[0] = "admitting")
    BY <1>1, <1>13 DEF Decide, Accepted
  <2>3. \A p \in Clients : Settled(p) => Settled(p)'
    <3> SUFFICES ASSUME NEW p \in Clients, p < turn[0] \/ p = turn[0]
                 PROVE  Settled(p)'
      BY DEF Settled
    <3>1. CASE turn'[0] = turn[0] + 1
      <4>1. p < turn[0] + 1
        BY <1>1
      <4> QED BY <3>1, <4>1 DEF Settled
    <3>2. CASE turn' = turn /\ hook'[0] = "admitting"
      BY <3>2 DEF Settled
    <3> QED BY <2>2, <3>1, <3>2
  <2> QED BY <1>3, <2>1, <2>3 DEF History
<1>14. ASSUME NEW q \in Pids, Alarm(q) PROVE History
  BY <1>1, <1>4, <1>14 DEF Alarm
<1>15. ASSUME NEW q \in Pids, Exit(q) PROVE History
  BY <1>1, <1>4, <1>15 DEF Exit
<1>16. ~ Join(0)
  BY DEF Join
<1>17. CASE Abort(0)
  BY <1>1, <1>4, <1>17 DEF Abort
<1> QED BY <1>5, <1>6, <1>7, <1>8, <1>9, <1>10, <1>11, <1>12, <1>13, <1>14, <1>15, <1>16,
        <1>17 DEF HookNext, HookStep, TurnStep

\* So the communicators of settled turns stay the same.
LEMMA GroupKept ==
  ASSUME HookIInv, History, ~ Before, NEW p \in 1 .. NProcs,
         \A j \in 1 .. p - 1 : Settled(j)
  PROVE  /\ Group(p)' = Group(p)
         /\ \A f \in 1 .. NProcs : Begins(f, p)' <=> Begins(f, p)
         /\ \A j \in 1 .. p - 1 : Settled(j)'
<1>1. \A j \in 1 .. p - 1 : j \in Clients
  BY PidFacts
<1>2. connections' = connections
  BY DEF History
<1>3. \A j \in 1 .. p - 1 : success'[j] = success[j] /\ Settled(j)'
  BY <1>1 DEF History
<1>4. Group(p)' = Group(p)
  <2>1. {i \in 1 .. p - 1 : success'[i]} = {i \in 1 .. p - 1 : success[i]}
    BY <1>3
  <2>2. {connections'[j] : j \in {i \in 1 .. p - 1 : success'[i]}}
          = {connections[j] : j \in {i \in 1 .. p - 1 : success[i]}}
    BY <1>2, <2>1
  <2> QED BY <2>2 DEF Group
<1>5. ASSUME NEW f \in 1 .. NProcs PROVE Begins(f, p)' <=> Begins(f, p)
  <2>1. \A j \in f .. p - 1 : j \in 1 .. p - 1
    OBVIOUS
  <2>2. f \in 1 .. p /\ f # 1 => f - 1 \in 1 .. p - 1
    BY PidFacts
  <2> QED BY <1>3, <2>1, <2>2 DEF Begins
<1> QED BY <1>3, <1>4, <1>5

\* A communicator grows by the client of a turn, who was not in it.
LEMMA GroupNext ==
  ASSUME NEW p \in Clients
  PROVE  Group(p + 1) = IF success[p] THEN Group(p) \cup {connections[p]} ELSE Group(p)
<1>1. p \in Nat /\ p >= 1 /\ (p + 1) - 1 = p
  BY PidFacts
<1>2. \A i : i \in 1 .. p <=> i \in 1 .. p - 1 \/ i = p
  BY <1>1
<1>3. {i \in 1 .. (p + 1) - 1 : success[i]}
        = IF success[p] THEN {i \in 1 .. p - 1 : success[i]} \cup {p}
                        ELSE {i \in 1 .. p - 1 : success[i]}
  BY <1>1, <1>2
<1>4. CASE success[p]
  <2>1. {connections[j] : j \in {i \in 1 .. (p + 1) - 1 : success[i]}}
          = {connections[j] : j \in {i \in 1 .. p - 1 : success[i]}} \cup {connections[p]}
    BY <1>3, <1>4
  <2> QED BY <1>4, <2>1 DEF Group
<1>5. CASE ~ success[p]
  BY <1>3, <1>5 DEF Group
<1> QED BY <1>4, <1>5

LEMMA NotYetIn ==
  ASSUME HookTypeOK, ConnectionsOK, Len(connections) = NProcs - 1,
         NEW k \in Clients, NEW p \in 1 .. k
  PROVE  connections[k] \notin Group(p)
<1>1. connections[k] # 0
  BY ClientOfTurn, PidFacts
<1>2. ASSUME NEW j \in 1 .. p - 1 PROVE connections[k] # connections[j]
  <2>1. j \in 1 .. Len(connections) /\ k \in 1 .. Len(connections) /\ j # k
    BY PidFacts
  <2> QED BY <2>1 DEF ConnectionsOK
<1> QED BY <1>1, <1>2 DEF Group

LEMMA SameGroup ==
  ASSUME HookTypeOK, ConnectionsOK, Len(connections) = NProcs - 1,
         NEW t \in 1 .. NProcs, NEW p \in 1 .. t, Group(p) = Group(t)
  PROVE  \A j \in p .. t - 1 : ~ success[j]
<1> SUFFICES ASSUME NEW j \in p .. t - 1, success[j] PROVE FALSE
  OBVIOUS
<1>1. j \in Clients /\ p \in 1 .. j /\ j \in 1 .. t - 1
  BY PidFacts
<1>2. connections[j] \notin Group(p)
  BY <1>1, NotYetIn
<1>3. connections[j] \in Group(t)
  BY <1>1 DEF Group
<1> QED BY <1>2, <1>3

LEMMA BeginsOnce ==
  ASSUME NEW t \in 1 .. NProcs, NEW p \in 1 .. t, \A j \in p .. t - 1 : ~ success[j],
         NEW f \in 1 .. NProcs, NEW g \in 1 .. NProcs, Begins(f, p), Begins(g, t)
  PROVE  f = g
<1>1. NProcs \in Nat
  BY PidFacts
<1>2. /\ f \in 1 .. p /\ g \in 1 .. t
      /\ \A j \in f .. p - 1 : ~ success[j]
      /\ \A j \in g .. t - 1 : ~ success[j]
      /\ f = 1 \/ success[f - 1]
      /\ g = 1 \/ success[g - 1]
  BY DEF Begins
<1>3. CASE f < g
  <2>1. g - 1 \in f .. p - 1 \/ g - 1 \in p .. t - 1
    BY <1>1, <1>2, <1>3
  <2>2. g # 1
    BY <1>1, <1>2, <1>3
  <2> QED BY <1>2, <2>1, <2>2
<1>4. CASE g < f
  <2>1. f - 1 \in g .. t - 1
    BY <1>1, <1>2, <1>4
  <2>2. f # 1
    BY <1>1, <1>2, <1>4
  <2> QED BY <1>2, <2>1, <2>2
<1> QED BY <1>1, <1>2, <1>3, <1>4

\* Who has been matched in allreduce is in a turn that the server has settled.
LEMMA SettledTurn ==
  ASSUME HookIInv, NEW q \in Pids, hook[q] = "agreeing", Matched(q, "allreduce")
  PROVE  turn[q] \in Clients /\ Settled(turn[q])
<1>1. PICK t : t = turn[q]
  OBVIOUS
<1>2. /\ HookTypeOK /\ ConnectionsOK /\ ServerCalls /\ MemberOK(q)
      /\ CallsOK(q, 1) /\ t < NProcs /\ t \in 1 .. NProcs
  BY <1>1 DEF HookIInv, ProcessOK, HookTypeOK, Running
<1>3. t \in Clients
  BY <1>2, PidFacts
<1>4. Len(connections) = NProcs - 1 /\ members[q] = Group(t)
  BY <1>1, <1>2 DEF MemberOK
<1>5. 0 \in members[q]
  BY <1>4 DEF Group
<1>6. PICK op \in entered[0] :
        op = <<members[q], Cardinality(OnComm(q)), "allreduce">>
  BY <1>5 DEF Matched, OnComm
<1>7. op[1] = members[q] /\ op[2] = Cardinality(OnComm(q)) /\ op[3] = "allreduce"
  BY <1>6
<1>8. PICK p \in Clients, f \in Clients :
        Settled(p) /\ Begins(f, p) /\ op[1] = Group(p) /\ op[2] = p - f + 1
  BY <1>2, <1>7 DEF ServerCalls
<1>9. PICK g \in 1 .. NProcs : Begins(g, t) /\ Cardinality(OnComm(q)) = t - g + 1
  BY <1>1, <1>2 DEF CallsOK
<1>10. Group(p) = Group(t) /\ p - f + 1 = t - g + 1
  BY <1>4, <1>7, <1>8, <1>9
<1>11. /\ p \in 1 .. NProcs /\ t \in 1 .. NProcs /\ f \in 1 .. NProcs
       /\ p \in Nat /\ t \in Nat /\ f \in Nat /\ g \in Nat
  BY <1>2, PidFacts
<1>12. f = g
  <2>1. CASE p <= t
    <3>1. p \in 1 .. t
      BY <1>11, <2>1
    <3>2. \A j \in p .. t - 1 : ~ success[j]
      BY <1>2, <1>4, <1>10, <1>11, <3>1, SameGroup
    <3> QED BY <1>8, <1>9, <1>11, <3>1, <3>2, BeginsOnce
  <2>2. CASE t <= p
    <3>1. t \in 1 .. p
      BY <1>11, <2>2
    <3>2. \A j \in t .. p - 1 : ~ success[j]
      BY <1>2, <1>4, <1>10, <1>11, <3>1, SameGroup
    <3> QED BY <1>8, <1>9, <1>11, <3>1, <3>2, BeginsOnce
  <2> QED BY <1>11, <2>1, <2>2
<1>13. p = t
  BY <1>10, <1>11, <1>12
<1> QED BY <1>1, <1>3, <1>8, <1>13

\* A process's own calls leave its communicator and turn in order.
LEMMA DecidedKept ==
  ASSUME History, NEW q \in Pids, DecidedOK(q),
         \A p \in Clients : decided'[q][p] = decided[q][p]
  PROVE  DecidedOK(q)'
BY DEF History, DecidedOK

LEMMA MemberKept ==
  ASSUME HookIInv, History, NEW q \in Pids, MemberOK(q),
         turn'[q] = turn[q], members'[q] = members[q],
         \A op \in entered'[q] : op \in entered[q] \/ op[1] = members[q]
  PROVE  MemberOK(q)'
<1>1. PICK t \in 1 .. NProcs : t = turn[q]
  BY DEF HookIInv, HookTypeOK
<1>2. /\ Len(connections) = NProcs - 1 /\ ~ Before
      /\ members[q] = Group(t) /\ q \in members[q]
      /\ \A j \in 1 .. t - 1 : Settled(j)
      /\ \A op \in entered[q] : op[1] \subseteq members[q]
  BY <1>1 DEF MemberOK
<1>3. Group(t)' = Group(t) /\ \A j \in 1 .. t - 1 : Settled(j)'
  BY <1>2, GroupKept
<1>4. connections' = connections /\ ~ Before'
  BY <1>2 DEF History
<1>5. turn'[q] = t
  BY <1>1
<1>6. members'[q] = Group(turn[q])'
  BY <1>2, <1>3, <1>5
<1>7. \A op \in entered'[q] : op[1] \subseteq members'[q]
  BY <1>2
<1> QED BY <1>2, <1>3, <1>4, <1>5, <1>6, <1>7 DEF MemberOK

LEMMA CallsKept ==
  ASSUME HookIInv, History, NEW q \in Pids, MemberOK(q), NEW made \in Nat, CallsOK(q, made),
         turn'[q] = turn[q], members'[q] = members[q], entered'[q] = entered[q]
  PROVE  CallsOK(q, made)'
<1>1. PICK t \in 1 .. NProcs : t = turn[q]
  BY DEF HookIInv, HookTypeOK
<1>2. ~ Before /\ \A j \in 1 .. t - 1 : Settled(j)
  BY <1>1 DEF MemberOK
<1>3. PICK f \in 1 .. NProcs :
        /\ Begins(f, t) /\ Cardinality(OnComm(q)) = t - f + made
        /\ \A op \in OnComm(q) : op[2] <= t - f + made
  BY <1>1 DEF CallsOK
<1>4. Begins(f, t)'
  BY <1>2, <1>3, GroupKept
<1>5. OnComm(q)' = OnComm(q) /\ turn'[q] = t
  BY <1>1 DEF OnComm
<1>6. Begins(f, turn[q])'
  BY <1>4, <1>5
<1>7. /\ Cardinality(OnComm(q))' = turn'[q] - f + made
      /\ \A op \in OnComm(q)' : op[2] <= turn'[q] - f + made
  BY <1>3, <1>5
<1> QED BY <1>3, <1>6, <1>7 DEF CallsOK

LEMMA CallMade ==
  ASSUME HookIInv, History, NEW q \in Pids, MemberOK(q), CallsOK(q, 0),
         NEW kind \in {"allreduce", "accept", "connect", "split"}, Enter(q, kind),
         turn'[q] = turn[q], members'[q] = members[q]
  PROVE  CallsOK(q, 1)' /\ MemberOK(q)'
<1>1. PICK t \in 1 .. NProcs : t = turn[q]
  BY DEF HookIInv, HookTypeOK
<1>2. ~ Before /\ \A j \in 1 .. t - 1 : Settled(j)
  BY <1>1 DEF MemberOK
<1>3. PICK f \in 1 .. NProcs :
        /\ Begins(f, t) /\ Cardinality(OnComm(q)) = t - f
        /\ \A op \in OnComm(q) : op[2] <= t - f
  <2>1. PICK f \in 1 .. NProcs :
          /\ Begins(f, t) /\ Cardinality(OnComm(q)) = t - f + 0
          /\ \A op \in OnComm(q) : op[2] <= t - f + 0
    BY <1>1 DEF CallsOK
  <2>2. t - f + 0 = t - f
    BY PidFacts
  <2> QED BY <2>1, <2>2
<1>4. Begins(f, t)'
  BY <1>2, <1>3, GroupKept
<1>5. PICK call : call = <<members[q], Cardinality(OnComm(q)) + 1, kind>>
  OBVIOUS
<1>6. entered'[q] = entered[q] \cup {call} /\ IsFiniteSet(OnComm(q))
  BY <1>5, EnterCall DEF HookIInv
<1>7. call[1] = members[q] /\ call[2] = t - f + 1
  BY <1>3, <1>5
<1>8. OnComm(q)' = OnComm(q) \cup {call}
  BY <1>6, <1>7 DEF OnComm
<1>9. t \in Nat /\ f \in Nat /\ NProcs \in Nat
  BY PidFacts
<1>10. call \notin OnComm(q)
  BY <1>3, <1>7, <1>9
<1>11. Cardinality(OnComm(q) \cup {call}) = t - f + 1
  BY <1>3, <1>6, <1>10, FS_AddElement
<1>12. \A op \in OnComm(q) \cup {call} : op[2] <= t - f + 1
  <2> SUFFICES ASSUME NEW op \in OnComm(q), op[2] <= t - f
               PROVE  op[2] <= t - f + 1
    BY <1>3, <1>7, <1>9
  <2>1. entered[q] \in SUBSET Ops /\ op \in entered[q]
    BY DEF HookIInv, HookTypeOK, OnComm
  <2>2. op[2] \in Nat
    BY <2>1 DEF Ops
  <2> QED BY <1>9, <2>2
<1>13. turn'[q] = t
  BY <1>1
<1>14. Begins(f, turn[q])'
  BY <1>4, <1>13
<1>15. CallsOK(q, 1)'
  BY <1>3, <1>8, <1>11, <1>12, <1>13, <1>14 DEF CallsOK
<1>16. \A op \in entered'[q] : op \in entered[q] \/ op[1] = members[q]
  BY <1>6, <1>7
<1>17. MemberOK(q)'
  BY <1>16, MemberKept
<1> QED BY <1>15, <1>17

\* The processes that a step is not about.
LEMMA ProcessKept ==
  ASSUME HookIInv, History, NEW q \in Pids,
         hook'[q] = hook[q], turn'[q] = turn[q], members'[q] = members[q],
         entered'[q] = entered[q], decided'[q] = decided[q],
         hook[q] = "joining" => portFor'[q] > 0
  PROVE  ProcessOK(q)'
<1>1. ProcessOK(q)
  BY DEF HookIInv
<1>2. DecidedOK(q)'
  BY <1>1, DecidedKept DEF ProcessOK
<1>3. hook[q] \in Running => MemberOK(q) /\ MemberOK(q)'
  BY <1>1, MemberKept DEF ProcessOK
<1>4. hook[q] = "growing" => CallsOK(q, 0)'
  BY <1>1, <1>3, CallsKept DEF ProcessOK, Running
<1>5. hook[q] = "agreeing" => CallsOK(q, 1)'
  BY <1>1, <1>3, CallsKept DEF ProcessOK, Running
<1>6. hook[q] = "admitting" => Settled(turn[q])' /\ success'[turn'[q]]
  <2> SUFFICES ASSUME hook[q] = "admitting" PROVE Settled(turn[q])' /\ success'[turn'[q]]
    OBVIOUS
  <2>1. PICK t \in 1 .. NProcs : t = turn[q]
    BY DEF HookIInv, HookTypeOK
  <2>2. t \in Clients /\ Settled(t) /\ success[t]
    BY <1>1, <2>1, PidFacts DEF ProcessOK
  <2>3. Settled(t)' /\ success'[t]
    BY <2>2 DEF History
  <2>4. turn'[q] = t
    BY <2>1
  <2> QED BY <2>3, <2>4
<1>7. hook[q] = "aborted" => \E j \in 1 .. turn'[q] - 1 : ~ success'[j]
  <2> SUFFICES ASSUME hook[q] = "aborted" PROVE \E j \in 1 .. turn[q] - 1 : ~ success'[j]
    OBVIOUS
  <2>1. PICK t \in 1 .. NProcs : t = turn[q]
    BY DEF HookIInv, HookTypeOK
  <2>2. PICK j \in 1 .. t - 1 : ~ success[j]
    BY <1>1, <2>1 DEF ProcessOK
  <2>3. j \in Clients /\ Settled(j)
    BY <1>3, <2>1, <2>2, PidFacts DEF MemberOK, Running
  <2>4. ~ success'[j]
    BY <2>2, <2>3 DEF History
  <2> QED BY <2>1, <2>4
<1> QED BY <1>1, <1>2, <1>3, <1>4, <1>5, <1>6, <1>7 DEF ProcessOK

\* The communicator has the size of the turn until a client is skipped.
LEMMA GroupSize ==
  ASSUME HookTypeOK, ConnectionsOK, Len(connections) = NProcs - 1,
         NEW t \in 1 .. NProcs, \A j \in 1 .. t - 1 : success[j]
  PROVE  Cardinality(Group(t)) = t
<1>1. \A j \in 1 .. t - 1 : j \in 1 .. Len(connections) /\ connections[j] \in Clients
  <2>1. \A j \in 1 .. t - 1 : j \in Clients
    BY PidFacts
  <2> QED BY <2>1, ClientOfTurn, PidFacts
<1>2. PICK f : f = [i \in 0 .. t - 1 |-> IF i = 0 THEN 0 ELSE connections[i]]
  OBVIOUS
<1>3. \A i \in 0 .. t - 1 : i = 0 \/ i \in 1 .. t - 1
  OBVIOUS
<1>4. Group(t) = {0} \cup {connections[j] : j \in 1 .. t - 1}
  <2>1. {i \in 1 .. t - 1 : success[i]} = 1 .. t - 1
    OBVIOUS
  <2> QED BY <2>1 DEF Group
<1>5. f \in [0 .. t - 1 -> Group(t)]
  BY <1>2, <1>3, <1>4
<1>6. \A i, j \in 0 .. t - 1 : f[i] = f[j] => i = j
  BY <1>1, <1>2, <1>3, PidFacts DEF ConnectionsOK
<1>7. \A x \in Group(t) : \E i \in 0 .. t - 1 : f[i] = x
  <2> SUFFICES ASSUME NEW x \in Group(t) PROVE \E i \in 0 .. t - 1 : f[i] = x
    OBVIOUS
  <2>1. CASE x = 0
    BY <1>2, <2>1, PidFacts
  <2>2. CASE \E j \in 1 .. t - 1 : x = connections[j]
    BY <1>2, <2>2
  <2> QED BY <1>4, <2>1, <2>2
<1>8. f \in Bijection(0 .. t - 1, Group(t))
  BY <1>5, <1>6, <1>7 DEF Bijection, Injection, Surjection, IsInjective
<1>9. IsFiniteSet(0 .. t - 1) /\ Cardinality(0 .. t - 1) = t
  <2>1. 0 \in Int /\ t - 1 \in Int /\ ~ (0 > t - 1) /\ (t - 1) - 0 + 1 = t
    BY PidFacts
  <2> QED BY <2>1, FS_Interval
<1>10. Cardinality(Group(t)) = Cardinality(0 .. t - 1)
  BY <1>8, <1>9, FS_Bijection DEF ExistsBijection
<1> QED BY <1>9, <1>10

\* A process comes into a communicator that is new to it.
LEMMA NewCommunicator ==
  ASSUME HookIInv, History, Len(connections) = NProcs - 1, NEW q \in Pids,
         NEW t \in Clients, Settled(t), success[t], turn'[q] = t + 1,
         members'[q] = Group(t) \cup {connections[t]}, q \in members'[q],
         \A op \in entered'[q] : op[1] \subseteq members'[q] /\ op[1] # members'[q]
  PROVE  MemberOK(q)' /\ CallsOK(q, 0)'
<1>1. ~ Before /\ connections' = connections /\ ~ Before' /\ Settled(t)' /\ success'[t]
  BY DEF History
<1>2. t \in Nat /\ t >= 1 /\ t < NProcs /\ NProcs \in Nat /\ t + 1 \in 1 .. NProcs
      /\ (t + 1) - 1 = t
  BY PidFacts
<1>3. \A j \in 1 .. t : Settled(j)
  <2>1. turn[0] \in Nat
    BY PidFacts DEF HookIInv, HookTypeOK
  <2> QED BY <1>2, <2>1 DEF Settled
<1>4. Group(t + 1) = members'[q]
  BY GroupNext
<1>5. \A j \in 1 .. (t + 1) - 1 : Settled(j)
  BY <1>2, <1>3
<1>6. Group(t + 1)' = Group(t + 1) /\ \A j \in 1 .. (t + 1) - 1 : Settled(j)'
  BY <1>1, <1>2, <1>5, GroupKept
<1>7. MemberOK(q)'
  BY <1>1, <1>4, <1>6 DEF MemberOK
<1>8. Begins(t + 1, t + 1)'
  BY <1>1, <1>2 DEF Begins
<1>9. OnComm(q)' = {}
  BY DEF OnComm
<1>10. Cardinality(OnComm(q)') = (t + 1) - (t + 1) + 0
  BY <1>2, <1>9, FS_EmptySet
<1>11. CallsOK(q, 0)'
  <2>1. \A op \in OnComm(q)' : op[2] <= turn'[q] - (t + 1) + 0
    BY <1>9
  <2> QED BY <1>2, <1>8, <1>10, <2>1 DEF CallsOK
<1> QED BY <1>7, <1>11

LEMMA ArrivingKept ==
  ASSUME HookIInv, History, NEW q \in Pids, hook[q] \in Arriving, hook'[q] \in Arriving,
         members'[q] = members[q], entered'[q] = entered[q], decided'[q] = decided[q]
  PROVE  ProcessOK(q)'
<1>1. ProcessOK(q)
  BY DEF HookIInv
<1>2. DecidedOK(q)'
  BY <1>1, DecidedKept DEF ProcessOK
<1> QED BY <1>1, <1>2 DEF ProcessOK, Arriving, Running

LEMMA FailedKept ==
  ASSUME HookIInv, History, NEW q \in Pids, hook'[q] = "failed", decided'[q] = decided[q]
  PROVE  ProcessOK(q)'
<1>1. DecidedOK(q)'
  BY DecidedKept DEF HookIInv, ProcessOK
<1> QED BY <1>1 DEF ProcessOK, Arriving, Running

\* The server has everybody's connection.
LEMMA ConfirmStarts ==
  ASSUME HookIInv, History, Confirm
  PROVE  ProcessOK(0)'
<1>1. /\ hook[0] = "accepting" /\ Len(connections) = NProcs - 1
      /\ UNCHANGED <<connections, turn, entered, success, decided, members>>
      /\ hook'[0] = "growing" /\ 0 \in Pids
  BY PidFacts DEF Confirm, Goto, sockets, group, HookIInv, HookTypeOK
<1>2. turn[0] = 1 /\ members[0] = {0} /\ entered[0] = {} /\ DecidedOK(0)
  BY <1>1 DEF HookIInv, ConnectionsOK, ProcessOK, Before, Arriving
<1>3. DecidedOK(0)'
  BY <1>1, <1>2, DecidedKept
<1>4. Group(1)' = {0}
  BY DEF Group
<1>5. MemberOK(0)'
  <2>1. ~ Before'
    BY <1>1 DEF Before
  <2>2. turn'[0] = 1 /\ members'[0] = {0} /\ entered'[0] = {}
    BY <1>1, <1>2
  <2> QED BY <1>1, <1>4, <2>1, <2>2 DEF MemberOK
<1>6. CallsOK(0, 0)'
  <2>1. Begins(1, 1)'
    BY DEF Begins
  <2>2. OnComm(0)' = {} /\ turn'[0] = 1
    BY <1>1, <1>2 DEF OnComm
  <2>3. Cardinality(OnComm(0)') = 0
    BY <2>2, FS_EmptySet
  <2>4. Begins(1, turn[0])' /\ 1 \in 1 .. NProcs
    BY <2>1, <2>2, PidFacts
  <2> QED BY <2>2, <2>3, <2>4 DEF CallsOK
<1> QED BY <1>1, <1>3, <1>5, <1>6 DEF ProcessOK, Arriving

\* A call for allreduce.
LEMMA AllreduceEntered ==
  ASSUME HookIInv, History, NEW q \in Pids, hook[q] = "growing", turn[q] < NProcs,
         Enter(q, "allreduce"), hook'[q] = "agreeing",
         turn'[q] = turn[q], members'[q] = members[q], decided'[q] = decided[q]
  PROVE  ProcessOK(q)'
<1>1. MemberOK(q) /\ CallsOK(q, 0) /\ DecidedOK(q)
  BY DEF HookIInv, ProcessOK, Running
<1>2. CallsOK(q, 1)' /\ MemberOK(q)'
  BY <1>1, CallMade
<1>3. DecidedOK(q)'
  BY <1>1, DecidedKept
<1> QED BY <1>2, <1>3 DEF ProcessOK, Arriving

LEMMA DecideKeeps ==
  ASSUME HookIInv, History, NEW q \in Pids, Decide(q)
  PROVE  ProcessOK(q)'
<1>1. PICK t \in Clients : t = turn[q] /\ Settled(t)
  BY SettledTurn DEF Decide
<1>2. /\ hook \in [Pids -> Arriving \cup Running \cup {"joining", "failed"}]
      /\ turn \in [Pids -> 1 .. NProcs]
      /\ decided \in [Pids -> [Clients -> {"none", "grow", "skip"}]]
      /\ HookTypeOK
  BY DEF HookIInv, HookTypeOK
<1>3. MemberOK(q) /\ CallsOK(q, 1) /\ DecidedOK(q) /\ t < NProcs
  BY <1>1 DEF HookIInv, ProcessOK, Running, Decide
<1>4. hook[q] = "agreeing" /\ members' = members /\ connections' = connections
  BY DEF Decide, sockets
<1>5. Settled(t)' /\ success'[t] = success[t]
  BY <1>1 DEF History
<1>6. CASE success[t]
  <2>1. /\ decided' = [decided EXCEPT ![q][t] = "grow"] /\ Enter(q, "accept")
        /\ hook'[q] = "admitting" /\ turn' = turn
    BY <1>1, <1>2, <1>6 DEF Decide, AllSuccess, Goto
  <2>2. entered'[q] = entered[q] \cup {<<members[q], Cardinality(OnComm(q)) + 1, "accept">>}
    BY <1>2, <2>1, EnterCall
  <2>3. \A op \in entered'[q] : op \in entered[q] \/ op[1] = members[q]
    BY <2>2
  <2>4. MemberOK(q)'
    BY <1>3, <1>4, <2>1, <2>3, MemberKept
  <2>5. \A p \in Clients : decided'[q][p] = IF p = t THEN "grow" ELSE decided[q][p]
    BY <1>2, <2>1
  <2>6. DecidedOK(q)'
    <3> SUFFICES ASSUME NEW p \in Clients, decided'[q][p] # "none"
                 PROVE  Settled(p)' /\ (decided'[q][p] = "grow" <=> success'[p])
      BY DEF DecidedOK
    <3>1. CASE p = t
      BY <1>5, <1>6, <2>5, <3>1
    <3>2. CASE p # t
      BY <1>3, <2>5, <3>2 DEF DecidedOK, History
    <3> QED BY <3>1, <3>2
  <2>7. turn'[q] = t
    BY <1>1, <2>1
  <2>8. Settled(turn[q])' /\ success'[turn'[q]] /\ turn'[q] < NProcs
    BY <1>3, <1>5, <1>6, <2>7
  <2> QED BY <2>1, <2>4, <2>6, <2>8 DEF ProcessOK, Arriving
<1>7. CASE ~ success[t]
  <2>1. /\ decided' = [decided EXCEPT ![q][t] = "skip"] /\ entered' = entered
        /\ hook'[q] = "growing" /\ turn'[q] = t + 1
    BY <1>1, <1>2, <1>7 DEF Decide, AllSuccess, Goto
  <2>2. \A p \in Clients : decided'[q][p] = IF p = t THEN "skip" ELSE decided[q][p]
    BY <1>2, <2>1
  <2>3. DecidedOK(q)'
    <3> SUFFICES ASSUME NEW p \in Clients, decided'[q][p] # "none"
                 PROVE  Settled(p)' /\ (decided'[q][p] = "grow" <=> success'[p])
      BY DEF DecidedOK
    <3>1. CASE p = t
      BY <1>5, <1>7, <2>2, <3>1
    <3>2. CASE p # t
      BY <1>3, <2>2, <3>2 DEF DecidedOK, History
    <3> QED BY <3>1, <3>2
  <2>4. /\ Len(connections) = NProcs - 1 /\ ~ Before
        /\ members[q] = Group(t) /\ q \in members[q]
        /\ \A j \in 1 .. t - 1 : Settled(j)
        /\ \A op \in entered[q] : op[1] \subseteq members[q]
    BY <1>1, <1>3 DEF MemberOK
  <2>5. t \in Nat /\ t >= 1 /\ t + 1 \in 1 .. NProcs /\ (t + 1) - 1 = t /\ NProcs \in Nat
        /\ t \in 1 .. NProcs
    BY PidFacts
  <2>6. \A j \in 1 .. (t + 1) - 1 : Settled(j)
    <3>1. \A j \in 1 .. t : j \in 1 .. t - 1 \/ j = t
      BY <2>5
    <3> QED BY <1>1, <2>4, <2>5, <3>1
  <2>7. /\ Group(t + 1)' = Group(t + 1) /\ \A j \in 1 .. (t + 1) - 1 : Settled(j)'
        /\ \A f \in 1 .. NProcs : Begins(f, t + 1)' <=> Begins(f, t + 1)
    BY <2>4, <2>5, <2>6, GroupKept
  <2>8. Group(t + 1) = Group(t)
    BY <1>7, GroupNext
  <2>9. MemberOK(q)'
    <3>1. ~ Before'
      BY <2>4 DEF History
    <3>2. members'[q] = Group(turn[q])'
      BY <1>4, <2>1, <2>4, <2>7, <2>8
    <3> QED BY <1>4, <2>1, <2>4, <2>7, <3>1, <3>2 DEF MemberOK
  <2>10. PICK f \in 1 .. NProcs :
           /\ Begins(f, t) /\ Cardinality(OnComm(q)) = t - f + 1
           /\ \A op \in OnComm(q) : op[2] <= t - f + 1
    BY <1>1, <1>3 DEF CallsOK
  <2>11. Begins(f, t + 1)
    <3>1. f \in 1 .. t + 1
      BY <2>5, <2>10 DEF Begins
    <3>2. \A j \in f .. (t + 1) - 1 : ~ success[j]
      <4>1. \A j \in f .. (t + 1) - 1 : j \in f .. t - 1 \/ j = t
        BY <2>5
      <4> QED BY <1>7, <2>10, <4>1 DEF Begins
    <3> QED BY <2>10, <3>1, <3>2 DEF Begins
  <2>12. OnComm(q)' = OnComm(q) /\ t - f + 1 = (t + 1) - f + 0
    BY <1>4, <2>1, <2>5 DEF OnComm
  <2>13. Begins(f, turn[q])'
    BY <2>1, <2>7, <2>11
  <2>14. CallsOK(q, 0)'
    <3>1. /\ Cardinality(OnComm(q)') = turn'[q] - f + 0
          /\ \A op \in OnComm(q)' : op[2] <= turn'[q] - f + 0
      BY <2>1, <2>10, <2>12
    <3> QED BY <2>13, <3>1 DEF CallsOK
  <2> QED BY <2>1, <2>3, <2>9, <2>14 DEF ProcessOK, Arriving
<1> QED BY <1>6, <1>7

LEMMA AcceptedKeeps ==
  ASSUME HookIInv, History, NEW q \in Pids, Accepted(q)
  PROVE  ProcessOK(q)'
<1>1. /\ HookTypeOK /\ ConnectionsOK /\ turn \in [Pids -> 1 .. NProcs]
      /\ members \in [Pids -> SUBSET Pids]
      /\ hook \in [Pids -> Arriving \cup Running \cup {"joining", "failed"}]
  BY DEF HookIInv, HookTypeOK
<1>2. PICK t \in Clients : t = turn[q] /\ Settled(t) /\ success[t]
  BY <1>1, PidFacts DEF Accepted, HookIInv, ProcessOK
<1>3. MemberOK(q) /\ DecidedOK(q)
  BY DEF Accepted, HookIInv, ProcessOK, Running
<1>4. /\ hook'[q] \in {"growing", "aborted"} /\ turn'[q] = t + 1 /\ entered' = entered
      /\ decided' = decided /\ members'[q] = members[q] \cup {connections[t]}
  BY <1>1, <1>2 DEF Accepted, Goto
<1>5. /\ members[q] = Group(t) /\ Len(connections) = NProcs - 1 /\ q \in members[q]
      /\ \A op \in entered[q] : op[1] \subseteq members[q]
  BY <1>2, <1>3 DEF MemberOK
<1>6. connections[t] \notin Group(t)
  <2>1. t \in 1 .. t
    BY PidFacts
  <2> QED BY <1>1, <1>5, <2>1, NotYetIn
<1>7. \A op \in entered'[q] : op[1] \subseteq members'[q] /\ op[1] # members'[q]
  BY <1>4, <1>5, <1>6
<1>8. MemberOK(q)' /\ CallsOK(q, 0)'
  BY <1>2, <1>4, <1>5, <1>7, NewCommunicator
<1>9. DecidedOK(q)'
  BY <1>3, <1>4, DecidedKept
<1>10. ASSUME hook'[q] = "aborted" PROVE \E j \in 1 .. turn'[q] - 1 : ~ success'[j]
  <2>1. Cardinality(members[q] \cup {connections[t]}) # t + 1
    BY <1>1, <1>2, <1>10 DEF Accepted, Goto, Sized
  <2>2. members[q] \cup {connections[t]} = Group(t + 1) /\ t + 1 \in 1 .. NProcs
    <3>1. t + 1 \in 1 .. NProcs
      BY PidFacts
    <3>2. Group(t + 1) = Group(t) \cup {connections[t]}
      BY <1>2, GroupNext
    <3> QED BY <1>5, <3>1, <3>2
  <2>3. PICK j \in 1 .. (t + 1) - 1 : ~ success[j]
    BY <1>1, <1>5, <2>1, <2>2, GroupSize
  <2>4. j \in 1 .. turn[q] - 1 /\ j \in Clients
    BY <1>2, <2>3, PidFacts
  <2>5. ~ success'[j]
    BY <1>3, <2>3, <2>4 DEF History, MemberOK
  <2>6. j \in 1 .. turn'[q] - 1
    BY <1>4, <2>3
  <2> QED BY <2>5, <2>6
<1> QED BY <1>4, <1>8, <1>9, <1>10 DEF ProcessOK, Arriving

LEMMA AbortKeeps ==
  ASSUME HookIInv, History, NEW q \in Pids, Abort(q)
  PROVE  ProcessOK(q)'
<1>1. hook \in [Pids -> Arriving \cup Running \cup {"joining", "failed"}]
  BY DEF HookIInv, HookTypeOK
<1>2. /\ hook'[q] = "aborted" /\ MemberOK(q) /\ DecidedOK(q)
      /\ UNCHANGED <<connections, turn, entered, decided, members>>
  BY <1>1 DEF Abort, Goto, sockets, group, HookIInv, ProcessOK, Running
<1>3. MemberOK(q)'
  BY <1>2, MemberKept
<1>4. DecidedOK(q)'
  BY <1>2, DecidedKept
<1>5. PICK t \in 1 .. NProcs : t = turn[q] /\ turn'[q] = t
  BY <1>2 DEF HookIInv, HookTypeOK
<1>6. PICK j \in 1 .. t - 1 : ~ success[j]
  <2>1. Cardinality(Group(t)) # t
    BY <1>2, <1>5 DEF Abort, Sized, MemberOK
  <2> QED BY <1>2, <2>1, GroupSize DEF HookIInv, MemberOK
<1>7. ~ success'[j]
  <2>1. j \in Clients /\ Settled(j)
    BY <1>2, <1>5, <1>6, PidFacts DEF MemberOK
  <2> QED BY <1>6, <2>1 DEF History
<1> QED BY <1>2, <1>3, <1>4, <1>5, <1>7 DEF ProcessOK, Arriving

LEMMA GroupGrows ==
  ASSUME NEW b \in Nat, NEW a \in 1 .. b
  PROVE  Group(a) \subseteq Group(b)
<1>1. \A i \in 1 .. a - 1 : i \in 1 .. b - 1
  OBVIOUS
<1> QED BY <1>1 DEF Group

\* The members that a client sees accept it are those of its turn.
LEMMA ConnectedKeeps ==
  ASSUME HookIInv, History, NEW c \in Clients, Connected(c)
  PROVE  ProcessOK(c)'
<1>1. /\ HookTypeOK /\ ConnectionsOK /\ turn \in [Pids -> 1 .. NProcs]
      /\ members \in [Pids -> SUBSET Pids] /\ ServerCalls
      /\ hook \in [Pids -> Arriving \cup Running \cup {"joining", "failed"}]
      /\ c \in Pids /\ c # 0 /\ 0 \in Pids
  BY PidFacts DEF HookIInv, HookTypeOK
<1>2. /\ portFor[c] > 0 /\ DecidedOK(c) /\ \A op \in entered[c] : op[1] = {c}
  BY <1>1 DEF HookIInv, ProcessOK, Connected
<1>3. PICK p \in Clients : /\ p = portFor[c] /\ connections[p] = c /\ Settled(p) /\ success[p]
                           /\ Len(connections) = NProcs - 1
  BY <1>1, <1>2, PidFacts DEF ConnectionsOK
<1>4. PICK acceptors : acceptors = members[0] \ {c}
  OBVIOUS
<1>5. /\ \A r \in acceptors : \E op \in entered[r] : op[1] = acceptors /\ op[3] = "accept"
      /\ members'[c] = acceptors \cup {c} /\ turn'[c] = p + 1 /\ hook'[c] = "growing"
      /\ entered' = entered /\ decided' = decided
  BY <1>1, <1>3, <1>4 DEF Connected, FirstTurn, Goto
<1>6. PICK t \in 1 .. NProcs : t = turn[0]
  BY <1>1
<1>7. /\ p <= t /\ p \in Nat /\ p >= 1 /\ p < NProcs /\ t \in Nat /\ NProcs \in Nat
      /\ p \in 1 .. NProcs
  BY <1>3, <1>6, PidFacts DEF Settled
<1>8. c \notin Group(p)
  <2>1. p \in 1 .. p
    BY <1>7
  <2> QED BY <1>1, <1>3, <2>1, NotYetIn
\* A server whose time is up still is in the communicator of its last turn.
<1>9. acceptors = Group(p)
  <2>1. members[0] = Group(t)
    BY <1>6 DEF HookIInv, ServerMember
  <2>2. 0 \in acceptors
    BY <1>1, <1>4, <2>1 DEF Group
  <2>3. PICK op \in entered[0] : op[1] = acceptors /\ op[3] = "accept"
    BY <1>5, <2>2
  <2>4. PICK k \in Clients : Settled(k) /\ success[k] /\ acceptors = Group(k)
    BY <1>1, <2>3 DEF ServerCalls
  <2>5. k \in 1 .. NProcs /\ k \in Nat
    BY PidFacts
  <2>6. k <= p
    <3> SUFFICES ASSUME p < k PROVE FALSE
      BY <1>7, <2>5
    <3>1. p \in 1 .. k - 1
      BY <1>7, <2>5
    <3>2. c \in Group(k)
      BY <1>3, <3>1 DEF Group
    <3> QED BY <1>4, <2>4, <3>2
  <2>7. Group(k) \subseteq Group(p)
    <3>1. k \in 1 .. p
      BY <1>7, <2>5, <2>6
    <3> QED BY <1>7, <3>1, GroupGrows
  <2>8. Group(p) \subseteq Group(t)
    <3>1. p \in 1 .. t
      BY <1>7
    <3> QED BY <3>1, GroupGrows
  <2> QED BY <1>4, <1>8, <2>1, <2>4, <2>7, <2>8
<1>10. members'[c] = Group(p) \cup {connections[p]} /\ c \in members'[c]
  BY <1>3, <1>5, <1>9
<1>11. \A op \in entered'[c] : op[1] \subseteq members'[c] /\ op[1] # members'[c]
  <2>1. 0 \in members'[c]
    BY <1>10 DEF Group
  <2> QED BY <1>1, <1>2, <1>5, <1>10, <2>1
<1>12. MemberOK(c)' /\ CallsOK(c, 0)'
  BY <1>1, <1>3, <1>5, <1>10, <1>11, NewCommunicator
<1>13. DecidedOK(c)'
  BY <1>1, <1>2, <1>5, DecidedKept
<1> QED BY <1>5, <1>12, <1>13 DEF ProcessOK, Arriving

\* The other steps.
LEMMA ReadPortKeeps ==
  ASSUME HookIInv, History, NEW c \in Clients, ReadPort(c)
  PROVE  ProcessOK(c)'
<1>1. /\ HookTypeOK /\ hook \in [Pids -> Arriving \cup Running \cup {"joining", "failed"}]
      /\ c \in Pids
  BY PidFacts DEF HookIInv, HookTypeOK
<1>2. hook[c] = "waiting" /\ members[c] = {c} /\ entered[c] = {} /\ DecidedOK(c)
  BY <1>1 DEF ReadPort, HookIInv, ProcessOK, Arriving
<1>3. /\ Enter(c, "connect") /\ hook'[c] = "joining" /\ portFor' = portFor /\ portFor[c] > 0
      /\ decided' = decided
  BY <1>1 DEF ReadPort, Goto, sockets
<1>4. entered'[c] = entered[c] \cup {<<members[c], Cardinality(OnComm(c)) + 1, "connect">>}
  BY <1>1, <1>3, EnterCall
<1>5. \A op \in entered'[c] : op[1] = {c}
  BY <1>2, <1>4
<1>6. DecidedOK(c)'
  BY <1>1, <1>2, <1>3, DecidedKept
<1> QED BY <1>3, <1>5, <1>6 DEF ProcessOK, Arriving, Running

LEMMA SplitKeeps ==
  ASSUME HookIInv, History, NEW q \in Pids, EnterSplit(q) \/ Return(q)
  PROVE  ProcessOK(q)'
<1>1. /\ HookTypeOK /\ hook \in [Pids -> Arriving \cup Running \cup {"joining", "failed"}]
  BY DEF HookIInv, HookTypeOK
<1>2. MemberOK(q) /\ DecidedOK(q) /\ turn[q] = NProcs
  BY DEF EnterSplit, Return, HookIInv, ProcessOK, Running
<1>3. /\ hook'[q] \in {"splitting", "returned"}
      /\ UNCHANGED <<turn, decided, members>>
  BY <1>1 DEF EnterSplit, Return, Goto, group
<1>4. \A op \in entered'[q] : op \in entered[q] \/ op[1] = members[q]
  <2>1. CASE EnterSplit(q)
    <3>1. entered'[q] = entered[q] \cup {<<members[q], Cardinality(OnComm(q)) + 1, "split">>}
      BY <1>1, <2>1, EnterCall DEF EnterSplit
    <3> QED BY <3>1
  <2>2. CASE Return(q)
    BY <2>2 DEF Return, group
  <2> QED BY <2>1, <2>2
<1>5. MemberOK(q)'
  BY <1>2, <1>3, <1>4, MemberKept
<1>6. DecidedOK(q)'
  BY <1>2, <1>3, DecidedKept
<1> QED BY <1>2, <1>3, <1>5, <1>6 DEF ProcessOK, Arriving

\* What a step of q leaves alone.
SameFor(r) ==
  /\ hook'[r] = hook[r] /\ turn'[r] = turn[r] /\ members'[r] = members[r]
  /\ entered'[r] = entered[r] /\ decided'[r] = decided[r]
  /\ hook[r] = "joining" => portFor'[r] > 0

LEMMA ProcessesKept ==
  ASSUME HookIInv, HookNext, History, NEW r \in Pids
  PROVE  ProcessOK(r)'
<1>1. /\ hook \in [Pids -> Arriving \cup Running \cup {"joining", "failed"}]
      /\ turn \in [Pids -> 1 .. NProcs] /\ members \in [Pids -> SUBSET Pids]
      /\ entered \in [Pids -> SUBSET Ops]
      /\ decided \in [Pids -> [Clients -> {"none", "grow", "skip"}]]
      /\ portFor \in [Clients -> Int]
      /\ 0 \in Pids /\ Clients \subseteq Pids /\ HookTypeOK
  BY PidFacts DEF HookIInv, HookTypeOK
<1>2. hook[r] = "joining" => r \in Clients /\ portFor[r] > 0
  <2>1. hook[r] = "joining" => r # 0 /\ portFor[r] > 0
    BY DEF HookIInv, HookTypeOK, ProcessOK
  <2>2. r # 0 => r \in Clients
    BY PidFacts DEF Pids, Clients
  <2> QED BY <2>1, <2>2
<1>3. SameFor(r) => ProcessOK(r)'
  BY ProcessKept DEF SameFor
<1> USE DEF SameFor, sockets, group, Goto
<1>4. CASE Listen
  <2>1. r # 0 => SameFor(r)
    BY <1>1, <1>2, <1>4 DEF Listen
  <2>2. r = 0 => ProcessOK(r)'
    BY <1>1, <1>4, ArrivingKept DEF Listen, Arriving
  <2> QED BY <1>3, <2>1, <2>2
<1>5. CASE Confirm
  <2>1. hook[r] # "joining"
    <3>1. Before
      BY <1>5 DEF Confirm, Before
    <3>2. hook[r] = "joining" => portFor[r] = -1
      BY <1>2, <3>1 DEF HookIInv, ConnectionsOK
    <3> QED BY <1>2, <3>2
  <2>2. r # 0 => SameFor(r)
    BY <1>1, <1>5, <2>1 DEF Confirm
  <2>3. r = 0 => ProcessOK(r)'
    BY <1>5, ConfirmStarts
  <2> QED BY <1>3, <2>2, <2>3
<1>6. ASSUME NEW c \in Clients, Connect(c) \/ ReadOK(c) PROVE ProcessOK(r)'
  <2>1. r # c => SameFor(r)
    BY <1>1, <1>2, <1>6 DEF Connect, ReadOK
  <2>2. r = c => ProcessOK(r)'
    <3>1. /\ hook[c] \in Arriving /\ hook'[c] \in Arriving
          /\ UNCHANGED <<members, entered, decided>>
      BY <1>1, <1>6 DEF Connect, ReadOK, Arriving
    <3> QED BY <3>1, ArrivingKept
  <2> QED BY <1>3, <2>1, <2>2
<1>7. ASSUME NEW c \in Clients, AcceptClient(c) PROVE ProcessOK(r)'
  <2>1. r # c \/ hook' = hook => SameFor(r)
    BY <1>1, <1>2, <1>7 DEF AcceptClient
  <2>2. r = c /\ hook' # hook => ProcessOK(r)'
    <3> SUFFICES ASSUME r = c, hook' # hook PROVE ProcessOK(r)'
      OBVIOUS
    <3>1. /\ hook[c] \in Arriving /\ hook'[c] \in Arriving
          /\ UNCHANGED <<members, entered, decided>>
      BY <1>1, <1>7 DEF AcceptClient, Arriving
    <3> QED BY <3>1, ArrivingKept
  <2> QED BY <1>3, <2>1, <2>2
<1>8. CASE SendPort
  <2>1. Enter(0, "allreduce")
    BY <1>8 DEF SendPort
  <2>2. r # 0 => SameFor(r)
    <3>1. r # 0 => entered'[r] = entered[r]
      BY <1>1, <2>1, EnterCall
    <3>2. r # 0 => /\ hook'[r] = hook[r] /\ turn'[r] = turn[r] /\ members'[r] = members[r]
                   /\ decided'[r] = decided[r]
      BY <1>1, <1>8 DEF SendPort
    <3>3. hook[r] = "joining" => portFor'[r] > 0
      <4>1. PICK c : portFor' = portFor \/ portFor' = [portFor EXCEPT ![c] = turn[0]]
        BY <1>8 DEF SendPort
      <4>2. turn[0] > 0
        BY <1>1
      <4> QED BY <1>1, <1>2, <4>1, <4>2
    <3> QED BY <3>1, <3>2, <3>3
  <2>3. r = 0 => ProcessOK(r)'
    <3>1. /\ hook[0] = "growing" /\ turn[0] < NProcs /\ hook'[0] = "agreeing"
          /\ UNCHANGED <<turn, decided, members>>
      BY <1>1, <1>8 DEF SendPort
    <3> QED BY <1>1, <2>1, <3>1, AllreduceEntered
  <2> QED BY <1>3, <2>2, <2>3
<1>9. ASSUME NEW q \in Pids, Join(q) PROVE ProcessOK(r)'
  <2>1. Enter(q, "allreduce")
    BY <1>9 DEF Join
  <2>2. r # q => SameFor(r)
    <3>1. r # q => entered'[r] = entered[r]
      BY <1>1, <2>1, EnterCall
    <3> QED BY <1>1, <1>2, <1>9, <3>1 DEF Join
  <2>3. r = q => ProcessOK(r)'
    <3>1. /\ hook[q] = "growing" /\ turn[q] < NProcs /\ hook'[q] = "agreeing"
          /\ UNCHANGED <<turn, decided, members>>
      BY <1>1, <1>9 DEF Join
    <3> QED BY <2>1, <3>1, AllreduceEntered
  <2> QED BY <1>3, <2>2, <2>3
<1>10. ASSUME NEW q \in Pids, Decide(q) PROVE ProcessOK(r)'
  <2>1. r # q => entered'[r] = entered[r]
    <3>1. Enter(q, "accept") \/ entered' = entered
      BY <1>10 DEF Decide
    <3> QED BY <1>1, <3>1, EnterCall
  <2>2. r # q => hook'[r] = hook[r] /\ turn'[r] = turn[r]
    BY <1>1, <1>10 DEF Decide
  <2>3. r # q => decided'[r] = decided[r]
    <3>1. PICK d : decided' = [decided EXCEPT ![q][turn[q]] = d]
      BY <1>10 DEF Decide
    <3> QED BY <1>1, <3>1
  <2>4. members' = members /\ portFor' = portFor
    BY <1>10 DEF Decide
  <2>5. r # q => SameFor(r)
    BY <1>2, <2>1, <2>2, <2>3, <2>4
  <2> QED BY <1>3, <1>10, <2>5, DecideKeeps
<1>11. ASSUME NEW q \in Pids, Accepted(q) PROVE ProcessOK(r)'
  <2>1. r # q => SameFor(r)
    BY <1>1, <1>2, <1>11 DEF Accepted
  <2> QED BY <1>3, <1>11, <2>1, AcceptedKeeps
<1>12. ASSUME NEW c \in Clients, ReadPort(c) PROVE ProcessOK(r)'
  <2>1. Enter(c, "connect") /\ c \in Pids
    BY <1>1, <1>12 DEF ReadPort
  <2>2. r # c => entered'[r] = entered[r]
    BY <1>1, <2>1, EnterCall
  <2>3. r # c => SameFor(r)
    BY <1>1, <1>2, <1>12, <2>2 DEF ReadPort
  <2> QED BY <1>3, <1>12, <2>3, ReadPortKeeps
<1>13. ASSUME NEW c \in Clients, Connected(c) PROVE ProcessOK(r)'
  <2>1. r # c => SameFor(r)
    BY <1>1, <1>2, <1>13 DEF Connected
  <2> QED BY <1>3, <1>13, <2>1, ConnectedKeeps
<1>14. ASSUME NEW q \in Pids, EnterSplit(q) \/ Return(q) PROVE ProcessOK(r)'
  <2>1. r # q => entered'[r] = entered[r]
    <3>1. Enter(q, "split") \/ entered' = entered
      BY <1>14 DEF EnterSplit, Return
    <3> QED BY <1>1, <3>1, EnterCall
  <2>2. r # q => SameFor(r)
    BY <1>1, <1>2, <1>14, <2>1 DEF EnterSplit, Return
  <2> QED BY <1>3, <1>14, <2>2, SplitKeeps
<1>15. ASSUME NEW q \in Pids, Alarm(q) \/ ServerGone(q) PROVE ProcessOK(r)'
  <2>1. r # q => SameFor(r)
    BY <1>1, <1>2, <1>15 DEF Alarm, ServerGone
  <2>2. r = q => ProcessOK(r)'
    <3>1. hook'[q] = "failed" /\ decided' = decided
      BY <1>1, <1>15 DEF Alarm, ServerGone
    <3> QED BY <3>1, FailedKept
  <2> QED BY <1>3, <2>1, <2>2
<1>16. ASSUME NEW q \in Pids, Exit(q) PROVE ProcessOK(r)'
  <2>1. SameFor(r)
    BY <1>1, <1>2, <1>16 DEF Exit
  <2> QED BY <1>3, <2>1
<1>17. ASSUME NEW q \in Pids, Abort(q) PROVE ProcessOK(r)'
  <2>1. r # q => SameFor(r)
    BY <1>1, <1>2, <1>17 DEF Abort
  <2> QED BY <1>3, <1>17, <2>1, AbortKeeps
<1> QED BY <1>1, <1>4, <1>5, <1>6, <1>7, <1>8, <1>9, <1>10, <1>11, <1>12, <1>13,
        <1>14, <1>15, <1>16, <1>17 DEF HookNext, HookStep, ClientStep

----------------------------------------------------------------------------
(* What all processes share *)

LEMMA ConnectionsKept ==
  ASSUME HookIInv, History, connections' = connections, portFor' = portFor,
         Before' => turn'[0] = turn[0],
         \A q \in Pids : hook'[q] \in {"start", "greeting"} => hook[q] \in {"start", "greeting"}
  PROVE  ConnectionsOK'
<1>1. /\ ConnectionsOK /\ connections \in Seq(Clients) /\ portFor \in [Clients -> Int]
      /\ Clients \subseteq Pids
  BY PidFacts DEF HookIInv, HookTypeOK
<1>2. \A i \in 1 .. Len(connections) : connections[i] \in Pids
  BY <1>1
<1>3. \A i \in 1 .. Len(connections') : hook'[connections'[i]] \notin {"start", "greeting"}
  BY <1>1, <1>2 DEF ConnectionsOK
<1>4. Before' => turn'[0] = 1 /\ \A c \in Clients : portFor'[c] = -1
  BY <1>1 DEF ConnectionsOK, History
<1>5. ASSUME NEW c \in Clients, portFor'[c] > 0
      PROVE  /\ portFor'[c] \in Clients /\ connections'[portFor'[c]] = c
             /\ Settled(portFor[c])' /\ success'[portFor'[c]]
  <2>1. PICK p : p = portFor[c]
    OBVIOUS
  <2>2. p \in Clients /\ connections[p] = c /\ Settled(p) /\ success[p]
    BY <1>1, <1>5, <2>1 DEF ConnectionsOK
  <2>3. Settled(p)' /\ success'[p]
    BY <2>2 DEF History
  <2>4. portFor'[c] = p
    BY <2>1
  <2> QED BY <2>2, <2>3, <2>4
<1> QED BY <1>1, <1>3, <1>4, <1>5 DEF ConnectionsOK

\* Nobody starts anew, and a call that has failed has ended.
LEMMA Phases ==
  ASSUME HookIInv, HookNext, NEW q \in Pids
  PROVE  /\ hook'[q] \in {"start", "greeting"} => hook[q] \in {"start", "greeting"}
         /\ hook[q] \in {"failed", "aborted"} => hook'[q] = hook[q]
<1>1. hook \in [Pids -> Arriving \cup Running \cup {"joining", "failed"}]
  BY DEF HookIInv, HookTypeOK
<1> USE <1>1, PidFacts DEF Goto
<1>2. CASE Listen \/ Confirm \/ SendPort
  BY <1>2 DEF Listen, Confirm, SendPort
<1>3. ASSUME NEW c \in Clients, ClientStep(c) \/ AcceptClient(c)
      PROVE  /\ hook'[q] \in {"start", "greeting"} => hook[q] \in {"start", "greeting"}
             /\ hook[q] \in {"failed", "aborted"} => hook'[q] = hook[q]
  BY <1>3 DEF ClientStep, Connect, ReadOK, ReadPort, Connected, ServerGone, AcceptClient
<1>4. ASSUME NEW r \in Pids, TurnStep(r)
      PROVE  /\ hook'[q] \in {"start", "greeting"} => hook[q] \in {"start", "greeting"}
             /\ hook[q] \in {"failed", "aborted"} => hook'[q] = hook[q]
  BY <1>4 DEF TurnStep, Join, Abort, Decide, Accepted, EnterSplit, Return
<1>5. ASSUME NEW r \in Pids, Alarm(r) \/ Exit(r)
      PROVE  /\ hook'[q] \in {"start", "greeting"} => hook[q] \in {"start", "greeting"}
             /\ hook[q] \in {"failed", "aborted"} => hook'[q] = hook[q]
  BY <1>5 DEF Alarm, Ended, Exit
<1> QED BY <1>2, <1>3, <1>4, <1>5 DEF HookNext, HookStep, TurnStep

\* A server that is listening has not begun to count turns.
LEMMA EarlySteps ==
  ASSUME HookIInv, HookNext
  PROVE  /\ Before' => turn'[0] = turn[0]
         /\ \/ portFor' = portFor /\ (connections' = connections \/ Before)
            \/ Confirm \/ SendPort
<1>1. /\ hook \in [Pids -> Arriving \cup Running \cup {"joining", "failed"}]
      /\ turn \in [Pids -> 1 .. NProcs]
  BY DEF HookIInv, HookTypeOK
<1> USE <1>1, PidFacts DEF Goto, sockets, group, Before
<1>2. CASE Listen \/ Confirm \/ SendPort
  BY <1>2 DEF Listen, Confirm, SendPort
<1>3. ASSUME NEW c \in Clients, ClientStep(c) \/ AcceptClient(c)
      PROVE  /\ turn'[0] = turn[0] /\ portFor' = portFor
             /\ connections' = connections \/ Before
  BY <1>3 DEF ClientStep, Connect, ReadOK, ReadPort, Connected, ServerGone, AcceptClient
<1>4. ASSUME NEW r \in Pids, TurnStep(r)
      PROVE  /\ Before' => turn'[0] = turn[0]
             /\ portFor' = portFor /\ connections' = connections
  BY <1>4 DEF TurnStep, Join, Abort, Decide, Accepted, EnterSplit, Return
<1>5. ASSUME NEW r \in Pids, Alarm(r) \/ Exit(r)
      PROVE  turn'[0] = turn[0] /\ portFor' = portFor /\ connections' = connections
  BY <1>5 DEF Alarm, Exit
<1> QED BY <1>2, <1>3, <1>4, <1>5 DEF HookNext, HookStep, TurnStep

LEMMA ConnectionsGoOn ==
  ASSUME HookIInv, HookNext, History
  PROVE  ConnectionsOK'
<1>1. /\ ConnectionsOK /\ connections \in Seq(Clients) /\ Len(connections) <= NProcs - 1
      /\ Len(connections) \in Nat
      /\ portFor \in [Clients -> Int]
      /\ hook \in [Pids -> Arriving \cup Running \cup {"joining", "failed"}]
      /\ turn \in [Pids -> 1 .. NProcs] /\ success \in [Clients -> BOOLEAN]
      /\ Clients \subseteq Pids /\ 0 \in Pids /\ 0 \notin Clients
  BY PidFacts DEF HookIInv, HookTypeOK
<1>2. \A q \in Pids : hook'[q] \in {"start", "greeting"} => hook[q] \in {"start", "greeting"}
  BY Phases
<1>3. Before' => turn'[0] = turn[0]
  BY EarlySteps
<1>4. CASE portFor' = portFor /\ connections' = connections
  BY <1>2, <1>3, <1>4, ConnectionsKept
<1>5. CASE Confirm
  <2>1. /\ connections' = connections /\ ~ Before' /\ Len(connections) = NProcs - 1
        /\ \A c \in Clients : portFor'[c] = 0
    BY <1>1, <1>5 DEF Confirm, Goto, Before
  <2>2. \A i \in 1 .. Len(connections) : hook'[connections[i]] \notin {"start", "greeting"}
    BY <1>1, <1>2 DEF ConnectionsOK
  <2> QED BY <1>1, <2>1, <2>2 DEF ConnectionsOK
<1>6. CASE SendPort
  <2>1. PICK p \in Clients : p = turn[0]
    BY <1>1, <1>6, PidFacts DEF SendPort
  <2>2. /\ connections' = connections /\ turn' = turn /\ hook'[0] = "agreeing" /\ ~ Before'
        /\ hook[0] = "growing"
    BY <1>1, <1>6 DEF SendPort, Goto, Before
  <2>3. Len(connections) = NProcs - 1
    BY <1>1, <2>2 DEF HookIInv, ProcessOK, MemberOK, Running
  <2>4. PICK ok \in BOOLEAN :
          /\ success' = [success EXCEPT ![p] = ok]
          /\ portFor' = IF ok THEN [portFor EXCEPT ![connections[p]] = p] ELSE portFor
    BY <1>6, <2>1 DEF SendPort
  <2>5. connections[p] \in Clients
    BY <2>3, ClientOfTurn DEF HookIInv
  <2>6. ASSUME NEW c \in Clients, portFor'[c] > 0
        PROVE  /\ portFor'[c] \in Clients /\ connections'[portFor'[c]] = c
               /\ Settled(portFor[c])' /\ success'[portFor'[c]]
    <3>1. PICK n : n = portFor'[c]
      OBVIOUS
    <3>2. CASE ok /\ c = connections[p]
      <4>1. n = p
        BY <1>1, <2>4, <2>5, <3>1, <3>2
      <4>2. success'[p]
        BY <1>1, <2>4, <3>2
      <4>3. Settled(p)'
        BY <2>1, <2>2 DEF Settled
      <4> QED BY <2>2, <3>1, <3>2, <4>1, <4>2, <4>3
    <3>3. CASE ~ (ok /\ c = connections[p])
      <4>1. n = portFor[c]
        BY <1>1, <2>4, <3>1, <3>3
      <4>2. n \in Clients /\ connections[n] = c /\ Settled(n) /\ success[n]
        BY <1>1, <2>6, <3>1, <4>1 DEF ConnectionsOK
      <4>3. Settled(n)' /\ success'[n]
        BY <4>2 DEF History
      <4> QED BY <2>2, <3>1, <4>2, <4>3
    <3> QED BY <3>2, <3>3
  <2>7. \A i \in 1 .. Len(connections) : hook'[connections[i]] \notin {"start", "greeting"}
    BY <1>1, <1>2 DEF ConnectionsOK
  <2> QED BY <1>1, <2>2, <2>3, <2>6, <2>7 DEF ConnectionsOK
<1>7. CASE Before /\ portFor' = portFor /\ connections' # connections
  <2>1. PICK c \in Clients : AcceptClient(c)
    <3>1. \A c \in Clients : ClientStep(c) => connections' = connections
      BY DEF ClientStep, Connect, ReadOK, ReadPort, Connected, ServerGone, sockets
    <3>2. \A q \in Pids : HookStep(q) \/ Alarm(q) \/ Exit(q) => connections' = connections
      BY DEF HookStep, SendPort, Join, Abort, Decide, Accepted, EnterSplit, Return, Alarm, Exit, sockets
    <3>3. Listen \/ Confirm => connections' = connections
      BY DEF Listen, Confirm, sockets
    <3> QED BY <1>7, <3>1, <3>2, <3>3 DEF HookNext
  <2>2. /\ hook[c] = "greeting" /\ connections' = Append(connections, c)
        /\ hook' = [hook EXCEPT ![c] = "confirming"]
    BY <1>7, <2>1 DEF AcceptClient, Goto
  <2>3. PICK n \in Nat : n = Len(connections)
    BY <1>1
  <2>4. /\ Len(connections') = n + 1 /\ connections'[n + 1] = c
        /\ \A i \in 1 .. n : connections'[i] = connections[i]
    BY <1>1, <2>2, <2>3
  <2>5. \A i \in 1 .. n : connections[i] # c
    BY <1>1, <2>2, <2>3 DEF ConnectionsOK
  <2>6. \A i, j \in 1 .. n + 1 : connections'[i] = connections'[j] => i = j
    <3> SUFFICES ASSUME NEW i \in 1 .. n + 1, NEW j \in 1 .. n + 1,
                        connections'[i] = connections'[j]
                 PROVE  i = j
      OBVIOUS
    <3>1. (i \in 1 .. n \/ i = n + 1) /\ (j \in 1 .. n \/ j = n + 1)
      BY <2>3
    <3> QED BY <1>1, <2>3, <2>4, <2>5, <3>1 DEF ConnectionsOK
  <2>7. \A i \in 1 .. n + 1 : hook'[connections'[i]] \notin {"start", "greeting"}
    <3>1. \A i \in 1 .. n : connections[i] \in Pids
                            /\ hook[connections[i]] \notin {"start", "greeting"}
      BY <1>1, <2>3 DEF ConnectionsOK
    <3>2. \A i \in 1 .. n + 1 : i \in 1 .. n \/ i = n + 1
      BY <2>3
    <3>3. hook'[c] = "confirming"
      BY <1>1, <2>2
    <3> QED BY <1>1, <1>2, <2>4, <3>1, <3>2, <3>3
  <2>8. turn[0] = 1 /\ \A d \in Clients : portFor'[d] = -1
    BY <1>7, <1>1 DEF ConnectionsOK
  <2> QED BY <1>3, <2>4, <2>6, <2>7, <2>8 DEF ConnectionsOK
<1> QED BY <1>4, <1>5, <1>6, <1>7, EarlySteps

LEMMA LeftOutKept ==
  ASSUME HookIInv, HookNext, History
  PROVE  LeftOut'
<1>1. /\ LeftOut /\ success \in [Clients -> BOOLEAN] /\ turn \in [Pids -> 1 .. NProcs]
      /\ 0 \in Pids /\ HookTypeOK
  BY PidFacts DEF HookIInv, HookTypeOK
<1>2. \A q \in closed' : q \in Pids /\ hook'[q] \in {"failed", "aborted"}
  <2>1. \A q \in closed' : q \in closed \/ (q \in Pids /\ hook[q] \in {"failed", "aborted"})
    <3>1. CASE \E q \in Pids : Exit(q)
      BY <3>1 DEF Exit
    <3>2. CASE closed' = closed
      BY <3>2
    <3>3. closed' = closed \/ \E q \in Pids : Exit(q)
      <4>1. \A c \in Clients : ClientStep(c) \/ AcceptClient(c) => closed' = closed
        BY DEF ClientStep, Connect, ReadOK, ReadPort, Connected, ServerGone, AcceptClient, sockets
      <4>2. \A q \in Pids : HookStep(q) \/ Alarm(q) => closed' = closed
        BY DEF HookStep, SendPort, Join, Abort, Decide, Accepted, EnterSplit, Return, Alarm, sockets
      <4>3. Listen \/ Confirm => closed' = closed
        BY DEF Listen, Confirm, sockets
      <4> QED BY <4>1, <4>2, <4>3 DEF HookNext
    <3> QED BY <3>1, <3>2, <3>3
  <2> QED BY <1>1, <2>1, Phases DEF LeftOut
\* A client whose turn has come has not been a member, so it has not aborted.
<1>3. ASSUME NEW p \in Clients, hook[0] = "growing", p = turn[0],
             hook[connections[p]] = "aborted", connections[p] \in Clients
      PROVE  FALSE
  <2>1. PICK c \in Clients : c = connections[p]
    BY <1>3
  <2>2. c \in Pids /\ c # 0
    BY <2>1, PidFacts
  <2>3. MemberOK(c)
    BY <1>3, <2>1, <2>2 DEF HookIInv, ProcessOK, Running
  <2>4. PICK j \in 1 .. turn[c] - 1 : connections[j] = c /\ Settled(j)
    BY <2>2, <2>3 DEF MemberOK, Group
  <2>5. turn[c] \in 1 .. NProcs
    BY <1>1, <2>2
  <2>6. j \in 1 .. Len(connections) /\ p \in 1 .. Len(connections)
    BY <2>3, <2>5, PidFacts DEF MemberOK
  <2>7. j = p
    BY <2>1, <2>4, <2>6 DEF HookIInv, ConnectionsOK
  <2>8. ~ Settled(p)
    BY <1>1, <1>3 DEF Settled
  <2> QED BY <2>4, <2>7, <2>8
<1>4. ASSUME NEW p \in Clients, ~ success'[p]
      PROVE  ~ Before' /\ Len(connections') = NProcs - 1 /\ hook'[connections'[p]] = "failed"
  <2>1. CASE SendPort /\ p = turn[0]
    <3>1. PICK ok \in (IF connections[p] \in closed THEN BOOLEAN ELSE {TRUE}) :
            success' = [success EXCEPT ![p] = ok]
      BY <2>1 DEF SendPort
    <3>2. connections[p] \in closed
      BY <1>1, <1>4, <3>1
    <3>3. hook[0] = "growing" /\ connections' = connections
      BY <2>1 DEF SendPort
    <3>4. Len(connections) = NProcs - 1
      BY <1>1, <3>3 DEF HookIInv, ProcessOK, MemberOK, Running
    <3>5. connections[p] \in Clients
      BY <1>1, <3>4, ClientOfTurn
    <3>6. hook[connections[p]] = "failed" /\ connections[p] \in Pids
      BY <1>1, <1>3, <2>1, <3>2, <3>3, <3>5 DEF LeftOut
    <3>7. hook'[connections[p]] = "failed"
      BY <3>6, Phases
    <3> QED BY <3>3, <3>4, <3>7 DEF History, Before
  <2>2. CASE ~ (SendPort /\ p = turn[0])
    <3>1. success' = success \/ SendPort
      <4>1. \A c \in Clients : ClientStep(c) \/ AcceptClient(c) => success' = success
        BY DEF ClientStep, Connect, ReadOK, ReadPort, Connected, ServerGone, AcceptClient, group
      <4>2. \A q \in Pids : HookStep(q) \/ Alarm(q) \/ Exit(q) => success' = success \/ SendPort
        BY DEF HookStep, Join, Abort, Decide, Accepted, EnterSplit, Return, Alarm, Exit, group
      <4>3. Listen \/ Confirm => success' = success
        BY DEF Listen, Confirm, group
      <4> QED BY <4>1, <4>2, <4>3 DEF HookNext
    <3>2. success'[p] = success[p]
      <4>1. CASE SendPort
        <5>1. PICK ok : success' = [success EXCEPT ![turn[0]] = ok]
          BY <4>1 DEF SendPort
        <5> QED BY <1>1, <2>2, <4>1, <5>1
      <4> QED BY <3>1, <4>1
    <3>3. ~ Before /\ Len(connections) = NProcs - 1 /\ hook[connections[p]] = "failed"
      BY <1>1, <1>4, <3>2 DEF LeftOut
    <3>4. connections[p] \in Pids
      BY <1>1, <3>3, ClientOfTurn, PidFacts
    <3>5. hook'[connections[p]] = "failed"
      BY <3>3, <3>4, Phases
    <3> QED BY <3>3, <3>5 DEF History
  <2> QED BY <2>1, <2>2
<1> QED BY <1>2, <1>4 DEF LeftOut

\* The meaning of the server's calls does not change.
LEMMA CallMeaningKept ==
  ASSUME HookIInv, History, NEW op \in entered[0]
  PROVE  /\ op[3] = "allreduce" => \E p \in Clients, f \in Clients :
              Settled(p)' /\ Begins(f, p)' /\ op[1] = Group(p)' /\ op[2] = p - f + 1
         /\ op[3] = "accept" => \E p \in Clients :
              Settled(p)' /\ success'[p] /\ op[1] = Group(p)'
<1>1. ASSUME NEW p \in Clients, Settled(p)
      PROVE  /\ Settled(p)' /\ success'[p] = success[p] /\ Group(p)' = Group(p)
             /\ \A f \in Clients : Begins(f, p)' <=> Begins(f, p)
  <2>1. turn[0] \in Nat /\ p \in Nat /\ p \in 1 .. NProcs /\ Clients \subseteq 1 .. NProcs
    BY PidFacts DEF HookIInv, HookTypeOK
  <2>2. \A j \in 1 .. p - 1 : Settled(j)
    BY <1>1, <2>1 DEF Settled
  <2>3. ~ Before /\ Settled(p)' /\ success'[p] = success[p]
    BY <1>1 DEF History
  <2>4. Group(p)' = Group(p) /\ \A f \in 1 .. NProcs : Begins(f, p)' <=> Begins(f, p)
    BY <2>1, <2>2, <2>3, GroupKept
  <2> QED BY <2>1, <2>3, <2>4
<1>2. ASSUME op[3] = "allreduce"
      PROVE  \E p \in Clients, f \in Clients :
               Settled(p)' /\ Begins(f, p)' /\ op[1] = Group(p)' /\ op[2] = p - f + 1
  <2>1. PICK p \in Clients, f \in Clients :
          Settled(p) /\ Begins(f, p) /\ op[1] = Group(p) /\ op[2] = p - f + 1
    BY <1>2 DEF HookIInv, ServerCalls
  <2> QED BY <2>1, <1>1
<1>3. ASSUME op[3] = "accept"
      PROVE  \E p \in Clients : Settled(p)' /\ success'[p] /\ op[1] = Group(p)'
  <2>1. PICK p \in Clients : Settled(p) /\ success[p] /\ op[1] = Group(p)
    BY <1>3 DEF HookIInv, ServerCalls
  <2> QED BY <2>1, <1>1
<1> QED BY <1>2, <1>3

LEMMA ServerCallsKept ==
  ASSUME HookIInv, HookNext, History
  PROVE  ServerCalls'
<1>1. /\ HookTypeOK /\ 0 \in Pids /\ 0 \notin Clients
      /\ turn \in [Pids -> 1 .. NProcs] /\ entered \in [Pids -> SUBSET Ops]
      /\ hook \in [Pids -> Arriving \cup Running \cup {"joining", "failed"}]
  BY PidFacts DEF HookIInv, HookTypeOK
<1>2. CASE entered'[0] = entered[0]
  BY <1>2, CallMeaningKept DEF ServerCalls
<1>3. CASE SendPort
  <2>1. Enter(0, "allreduce") /\ hook[0] = "growing" /\ turn' = turn /\ hook'[0] = "agreeing"
    BY <1>1, <1>3 DEF SendPort, Goto
  <2>2. PICK call : call = <<members[0], Cardinality(OnComm(0)) + 1, "allreduce">>
    OBVIOUS
  <2>3. entered'[0] = entered[0] \cup {call}
    BY <1>1, <2>1, <2>2, EnterCall
  <2>4. PICK p \in Clients : p = turn[0]
    BY <1>1, <1>3, PidFacts DEF SendPort
  <2>5. MemberOK(0) /\ CallsOK(0, 0)
    BY <1>1, <2>1 DEF HookIInv, ProcessOK, Running
  <2>6. /\ members[0] = Group(p) /\ ~ Before
        /\ \A j \in 1 .. p - 1 : Settled(j)
    BY <2>4, <2>5 DEF MemberOK
  <2>7. PICK f \in 1 .. NProcs : Begins(f, p) /\ Cardinality(OnComm(0)) = p - f + 0
    BY <2>4, <2>5 DEF CallsOK
  <2>8. /\ p \in 1 .. NProcs /\ p \in Nat /\ f \in Nat /\ f \in Clients
        /\ p - f + 0 + 1 = p - f + 1
    BY <2>7, PidFacts DEF Begins
  <2>9. Group(p)' = Group(p) /\ Begins(f, p)'
    BY <2>6, <2>7, <2>8, GroupKept
  <2>10. Settled(p)'
    BY <2>1, <2>4 DEF Settled
  <2>11. /\ call[1] = Group(p)' /\ call[2] = p - f + 1 /\ call[3] = "allreduce"
    BY <2>2, <2>6, <2>7, <2>8, <2>9
  <2> QED BY <2>3, <2>8, <2>9, <2>10, <2>11, CallMeaningKept DEF ServerCalls
<1>4. CASE Decide(0) /\ entered'[0] # entered[0]
  <2>1. PICK t \in Clients : t = turn[0] /\ Settled(t)
    BY <1>1, <1>4, SettledTurn DEF Decide
  <2>2. Enter(0, "accept") /\ success[t]
    BY <1>4, <2>1 DEF Decide, AllSuccess
  <2>3. PICK call : call = <<members[0], Cardinality(OnComm(0)) + 1, "accept">>
    OBVIOUS
  <2>4. entered'[0] = entered[0] \cup {call}
    BY <1>1, <2>2, <2>3, EnterCall
  <2>5. MemberOK(0)
    BY <1>1, <1>4 DEF Decide, HookIInv, ProcessOK, Running
  <2>6. /\ members[0] = Group(t) /\ ~ Before
        /\ \A j \in 1 .. t - 1 : Settled(j)
    BY <2>1, <2>5 DEF MemberOK
  <2>7. t \in 1 .. NProcs
    BY PidFacts
  <2>8. Group(t)' = Group(t) /\ Settled(t)' /\ success'[t]
    BY <2>1, <2>2, <2>6, <2>7, GroupKept DEF History
  <2>9. call[1] = Group(t)' /\ call[3] = "accept"
    BY <2>3, <2>6, <2>8
  <2> QED BY <2>4, <2>8, <2>9, CallMeaningKept DEF ServerCalls
<1>5. CASE EnterSplit(0)
  <2>1. PICK call : call = <<members[0], Cardinality(OnComm(0)) + 1, "split">>
    OBVIOUS
  <2>2. entered'[0] = entered[0] \cup {call}
    BY <1>1, <1>5, <2>1, EnterCall DEF EnterSplit
  <2>3. call[3] = "split"
    BY <2>1
  <2> QED BY <2>2, <2>3, CallMeaningKept DEF ServerCalls
<1>6. entered'[0] = entered[0] \/ SendPort \/ Decide(0) \/ EnterSplit(0)
  <2>1. \A c \in Clients : ClientStep(c) \/ AcceptClient(c) => entered'[0] = entered[0]
    BY <1>1, EnterCall DEF ClientStep, Connect, ReadOK, ReadPort, Connected, ServerGone,
       AcceptClient, group, Enter
  <2>2. \A q \in Pids : HookStep(q) \/ Alarm(q) \/ Exit(q) =>
          entered'[0] = entered[0] \/ SendPort \/ Decide(0) \/ EnterSplit(0)
    BY <1>1 DEF HookStep, Join, Abort, Decide, Accepted, EnterSplit, Return, Alarm, Exit, group, Enter
  <2>3. Listen \/ Confirm => entered'[0] = entered[0]
    BY DEF Listen, Confirm, group
  <2> QED BY <2>1, <2>2, <2>3 DEF HookNext
<1> QED BY <1>2, <1>3, <1>4, <1>5, <1>6

LEMMA ServerMemberKept ==
  ASSUME HookIInv, HookNext, History, HookTypeOK', ProcessOK(0)'
  PROVE  ServerMember'
<1>1. /\ 0 \in Pids /\ 0 \notin Clients /\ HookTypeOK
      /\ turn \in [Pids -> 1 .. NProcs] /\ members \in [Pids -> SUBSET Pids]
      /\ hook \in [Pids -> Arriving \cup Running \cup {"joining", "failed"}]
  BY PidFacts DEF HookIInv, HookTypeOK
<1>2. CASE hook'[0] \in Running
  BY <1>2 DEF ProcessOK, MemberOK, ServerMember
<1>3. CASE hook'[0] \notin Running
  <2>1. turn'[0] = turn[0] /\ members'[0] = members[0]
    <3>1. \A c \in Clients : ClientStep(c) \/ AcceptClient(c) =>
            turn'[0] = turn[0] /\ members'[0] = members[0]
      BY <1>1 DEF ClientStep, Connect, ReadOK, ReadPort, Connected, ServerGone,
         AcceptClient, group
    <3>2. \A q \in Pids : TurnStep(q) /\ q # 0 => turn'[0] = turn[0] /\ members'[0] = members[0]
      BY <1>1 DEF TurnStep, Join, Abort, Decide, Accepted, EnterSplit, Return, group
    <3>3. TurnStep(0) \/ SendPort => hook'[0] \in Running
      BY <1>1 DEF TurnStep, Join, Abort, Decide, Accepted, EnterSplit, Return, SendPort, Goto, Running
    <3>4. \A q \in Pids : Alarm(q) \/ Exit(q) => turn'[0] = turn[0] /\ members'[0] = members[0]
      BY DEF Alarm, Exit, group
    <3>5. Listen \/ Confirm => turn'[0] = turn[0] /\ members'[0] = members[0]
      BY DEF Listen, Confirm, group
    <3> QED BY <1>3, <3>1, <3>2, <3>3, <3>4, <3>5 DEF HookNext, HookStep, TurnStep
  <2>2. PICK t \in 1 .. NProcs : t = turn[0]
    BY <1>1
  <2>3. members[0] = Group(t)
    BY <2>2 DEF HookIInv, ServerMember
  <2>4. Group(t)' = Group(t)
    <3>1. CASE Before
      <4>1. t = 1
        BY <2>2, <3>1 DEF HookIInv, ConnectionsOK
      <4> QED BY <4>1 DEF Group
    <3>2. CASE ~ Before
      <4>1. \A j \in 1 .. t - 1 : Settled(j)
        BY <2>2 DEF Settled
      <4> QED BY <3>2, <4>1, GroupKept
    <3> QED BY <3>1, <3>2
  <2>5. turn'[0] = t
    BY <2>1, <2>2
  <2> QED BY <2>1, <2>3, <2>4, <2>5 DEF ServerMember
<1> QED BY <1>2, <1>3

----------------------------------------------------------------------------
(* The whole hook *)

LEMMA HookStarts ==
  HookInit => HookIInv
<1> SUFFICES ASSUME HookInit PROVE HookIInv
  OBVIOUS
<1>1. \A q \in Pids : IsFiniteSet(entered[q])
  BY FS_EmptySet DEF HookInit
<1>2. HookTypeOK
  <2>1. 1 \in 1 .. NProcs
    BY PidFacts
  <2>2. connections \in Seq(Clients) /\ Len(connections) <= NProcs - 1
    BY PidFacts DEF HookInit
  <2>3. \A q \in Pids : {q} \in SUBSET Pids
    OBVIOUS
  <2>4. 0 \in Pids
    BY PidFacts
  <2> QED BY <1>1, <2>1, <2>2, <2>3, <2>4 DEF HookInit, HookTypeOK, Arriving
<1>3. ConnectionsOK
  <2>1. connections = <<>> /\ turn[0] = 1 /\ \A c \in Clients : portFor[c] = -1
    BY PidFacts DEF HookInit
  <2>2. Len(connections) = 0
    BY <2>1
  <2> QED BY <2>1, <2>2 DEF ConnectionsOK
<1>4. LeftOut
  BY DEF HookInit, LeftOut
<1>5. ServerCalls /\ ServerMember
  <2>1. entered[0] = {} /\ members[0] = {0} /\ turn[0] = 1
    BY PidFacts DEF HookInit
  <2>2. Group(1) = {0}
    BY DEF Group
  <2> QED BY <2>1, <2>2 DEF ServerCalls, ServerMember
<1>6. \A q \in Pids : ProcessOK(q)
  BY DEF HookInit, ProcessOK, DecidedOK, Arriving, Running
<1> QED BY <1>2, <1>3, <1>4, <1>5, <1>6 DEF HookIInv

LEMMA HookGoesOn ==
  HookIInv /\ [HookNext]_hookVars => HookIInv'
<1> SUFFICES ASSUME HookIInv, [HookNext]_hookVars PROVE HookIInv'
  OBVIOUS
<1>1. CASE HookNext
  <2>1. History
    BY <1>1, HistoryKept
  <2>2. HookTypeOK'
    BY <1>1, HookTypeKept
  <2>3. \A q \in Pids : ProcessOK(q)'
    BY <1>1, <2>1, ProcessesKept
  <2>4. ServerMember'
    BY <1>1, <2>1, <2>2, <2>3, ServerMemberKept, PidFacts
  <2>5. ConnectionsOK' /\ LeftOut' /\ ServerCalls'
    BY <1>1, <2>1, ConnectionsGoOn, LeftOutKept, ServerCallsKept
  <2> QED BY <2>2, <2>3, <2>4, <2>5 DEF HookIInv
<1>2. CASE UNCHANGED hookVars
  <2>1. UNCHANGED <<hook, backlog, connections, portFor, closed, turn, entered, success,
                    decided, members>>
    BY <1>2 DEF hookVars
  <2>2. History
    <3>1. \A p \in Clients : Settled(p) => ~ Before
      <4>1. turn[0] \in Nat
        BY PidFacts DEF HookIInv, HookTypeOK
      <4> QED BY <4>1, PidFacts DEF Settled, Before, HookIInv, ConnectionsOK
    <3> QED BY <2>1, <3>1 DEF History, Settled, Before
  <2>3. \A q \in Pids : ProcessOK(q)'
    <3> SUFFICES ASSUME NEW q \in Pids PROVE ProcessOK(q)'
      OBVIOUS
    <3>1. hook[q] = "joining" => portFor'[q] > 0
      BY <2>1 DEF HookIInv, ProcessOK
    <3> QED BY <2>1, <2>2, <3>1, ProcessKept
  <2>4. HookTypeOK'
    BY <2>1 DEF HookIInv, HookTypeOK
  <2>5. ConnectionsOK'
    BY <2>1, <2>2, ConnectionsKept
  <2>6. LeftOut' /\ ServerMember'
    BY <2>1 DEF HookIInv, LeftOut, ServerMember, Before, Group
  <2>7. ServerCalls'
    BY <2>1, <2>2, CallMeaningKept DEF ServerCalls
  <2> QED BY <2>3, <2>4, <2>5, <2>6, <2>7 DEF HookIInv
<1> QED BY <1>1, <1>2

\* When all connections are there, they are everybody's.
LEMMA AllConnected ==
  ASSUME HookIInv, Len(connections) = NProcs - 1, NEW c \in Clients
  PROVE  \E j \in Clients : connections[j] = c
<1>1. PICK f : f = [j \in Clients |-> connections[j]]
  OBVIOUS
<1>2. IsFiniteSet(Clients)
  <2>1. 1 \in Int /\ NProcs - 1 \in Int
    BY PidFacts
  <2> QED BY <2>1, FS_Interval DEF Clients
<1>3. f \in [Clients -> Clients]
  BY <1>1, ClientOfTurn DEF HookIInv
<1>4. \A a, b \in Clients : f[a] = f[b] => a = b
  <2>1. \A a \in Clients : a \in 1 .. Len(connections)
    BY PidFacts
  <2> QED BY <1>1, <2>1 DEF HookIInv, ConnectionsOK
<1>5. f \in Injection(Clients, Clients)
  BY <1>3, <1>4 DEF Injection, IsInjective
<1>6. f \in Surjection(Clients, Clients)
  BY <1>2, <1>5, FS_Injection
<1> QED BY <1>1, <1>6 DEF Surjection

(* For any number of processes and of alarms, with or without assertions: the  *)
(* members decide alike on every client, those who return are in one           *)
(* communicator, of all but the skipped clients, those have failed, and no     *)
(* assertion fails unless there are any.                                       *)
THEOREM HooksAgree == HookSpec => []HookAgreement
<1>1. HookIInv => HookAgreement
  <2> SUFFICES ASSUME HookIInv PROVE HookAgreement
    OBVIOUS
  <2>1. ASSUME NEW q \in Pids, NEW r \in Pids, NEW p \in Clients
        PROVE  {decided[q][p], decided[r][p]} # {"grow", "skip"}
    <3>1. DecidedOK(q) /\ DecidedOK(r)
      BY DEF HookIInv, ProcessOK
    <3> QED BY <3>1 DEF DecidedOK
  <2>2. ASSUME NEW q \in Pids, hook[q] = "returned"
        PROVE  members[q] = Pids \ Skipped
    <3>1. members[q] = Group(NProcs) /\ Len(connections) = NProcs - 1
      <4>1. ProcessOK(q)
        BY DEF HookIInv
      <4> QED BY <2>2, <4>1 DEF ProcessOK, MemberOK, Running
    <3>2. Clients = 1 .. NProcs - 1 /\ Pids = {0} \cup Clients /\ 0 \notin Clients
      BY PidFacts DEF Pids, Clients
    <3>3. \A j \in Clients : connections[j] \in Clients
      BY <3>1, ClientOfTurn DEF HookIInv
    <3>4. \A i, j \in Clients : connections[i] = connections[j] => i = j
      BY <3>1, <3>2 DEF HookIInv, ConnectionsOK
    <3>5. ASSUME NEW r \in Pids PROVE r \in Group(NProcs) <=> r \notin Skipped
      <4>1. CASE r = 0
        BY <3>2, <3>3, <4>1 DEF Group, Skipped
      <4>2. CASE r # 0
        <5>1. PICK j \in Clients : connections[j] = r
          BY <3>1, <3>2, <4>2, AllConnected
        <5>2. r \in Group(NProcs) <=> success[j]
          BY <3>2, <3>4, <4>2, <5>1 DEF Group
        <5>3. r \in Skipped <=> ~ success[j]
          BY <3>4, <5>1 DEF Skipped
        <5> QED BY <5>2, <5>3
      <4> QED BY <4>1, <4>2
    <3>6. Group(NProcs) \subseteq Pids
      BY <3>2, <3>3 DEF Group
    <3> QED BY <3>1, <3>5, <3>6
  <2>3. ASSUME NEW c \in Skipped PROVE hook[c] = "failed"
    BY DEF Skipped, HookIInv, LeftOut
  <2>4. ASSUME NEW q \in Pids, hook[q] = "aborted" PROVE Skipped # {}
    <3>1. PICK t \in 1 .. NProcs : t = turn[q]
      BY DEF HookIInv, HookTypeOK
    <3>2. PICK j \in 1 .. t - 1 : ~ success[j]
      BY <2>4, <3>1 DEF HookIInv, ProcessOK
    <3>3. j \in Clients
      BY PidFacts
    <3> QED BY <3>2, <3>3 DEF Skipped
  <2> QED BY <2>1, <2>2, <2>3, <2>4 DEF HookAgreement
<1> QED BY <1>1, HookStarts, HookGoesOn, PTL DEF HookSpec

----------------------------------------------------------------------------
(* Processes and their communicators *)

\* An id tells of each communicator it was made of which call made it.
Marks == Int \X Int

LEMMA IdAppend ==
  ASSUME NEW s \in Seq(Marks), NEW i \in Int, NEW k \in Int
  PROVE  /\ Append(s, <<i, k>>) \in Seq(Marks)
         /\ Append(s, <<i, k>>) # <<>>
         /\ Len(Append(s, <<i, k>>)) = Len(s) + 1
         /\ Append(s, <<i, k>>)[Len(s) + 1] = <<i, k>>
<1>1. <<i, k>> \in Marks  BY DEF Marks
<1> QED  BY <1>1, AppendProperties

LEMMA Leftover ==
  ASSUME NEW a \in Nat, NEW b \in Nat \ {0}
  PROVE  a % b \in 0 .. (b - 1) /\ (a < b => a % b = a) /\ a % b <= a
  OBVIOUS

LEMMA MinIs ==
  ASSUME NEW S \in SUBSET Int, IsFiniteSet(S), S # {}
  PROVE  Min(S) \in S /\ \A x \in S : Min(S) <= x
<1> DEFINE Below(x) == {y \in S : y < x}
           T == {Below(x) : x \in S}
<1>1. T \subseteq FiniteSubsetsOf(S)
  BY FS_Subset DEF FiniteSubsetsOf
<1>2. PICK U \in T : \A V \in T : ~ (<<V, U>> \in StrictSubsetOrdering(S))
  <2>1. IsWellFoundedOn(StrictSubsetOrdering(S), FiniteSubsetsOf(S))
    BY FS_StrictSubsetOrderingWellFounded
  <2>2. T # {}  OBVIOUS
  <2> HIDE DEF T
  <2> QED  BY <1>1, <2>1, <2>2, WFMin
<1>3. PICK x \in S : U = Below(x)  OBVIOUS
<1>4. \A y \in S : x <= y
  <2> SUFFICES ASSUME NEW y \in S, y < x PROVE FALSE  OBVIOUS
  <2>1. Below(y) \in T  OBVIOUS
  <2>2. Below(y) \subseteq U /\ y \in U /\ y \notin Below(y)
    <3>1. x \in Int /\ y \in Int /\ \A z \in S : z \in Int  OBVIOUS
    <3>2. \A z \in S : z < y => z < x  BY <3>1
    <3>3. ~ (y < y)  BY <3>1
    <3> HIDE DEF T
    <3> QED  BY <1>3, <3>2, <3>3
  <2>3. U \subseteq S  BY <1>3
  <2> QED  BY <1>2, <2>1, <2>2, <2>3 DEF StrictSubsetOrdering
<1> QED  BY <1>4 DEF Min

LEMMA PidType ==
  ASSUME NEW X, X.members \subseteq World, NEW q
  PROVE  Pid(q, X) \in Nat
<1>1. {r \in X.members : r < q} \in SUBSET World  OBVIOUS
<1> QED  BY <1>1, ExecAssumption, FS_Subset, FS_CardinalityType DEF Pid

LEMMA PidLess ==
  ASSUME NEW X, X.members \subseteq World,
         NEW q \in X.members, NEW r \in X.members, q < r
  PROVE  Pid(q, X) < Pid(r, X)
<1> DEFINE A == {s \in X.members : s < q}
           B == {s \in X.members : s < r}
<1>1. A \subseteq B /\ q \in B /\ q \notin A
  <2>1. q \in Int /\ r \in Int /\ \A s \in X.members : s \in Int
    BY ExecAssumption
  <2> QED  BY <2>1
<1>2. IsFiniteSet(B)
  BY ExecAssumption, FS_Subset, B \in SUBSET World
<1>3. Cardinality(A) \in Nat /\ Cardinality(B) \in Nat /\ Cardinality(A) <= Cardinality(B)
  BY <1>1, <1>2, FS_Subset, FS_CardinalityType
<1>4. Cardinality(A) # Cardinality(B)
  BY <1>1, <1>2, FS_Subset
<1> QED  BY <1>3, <1>4 DEF Pid

LEMMA RootIs ==
  ASSUME NEW X, X.members \subseteq World, NEW q \in X.members
  PROVE  Root(X) \in X.members /\ Root(X) <= q /\ Pid(Root(X), X) = 0
<1>1. Root(X) \in X.members /\ \A r \in X.members : Root(X) <= r
  <2>1. IsFiniteSet(X.members)  BY ExecAssumption, FS_Subset
  <2> QED  BY <2>1, ExecAssumption, MinIs DEF Root
<1>2. {r \in X.members : r < Root(X)} = {}
  <2>1. Root(X) \in Int /\ \A r \in X.members : r \in Int
    BY <1>1, ExecAssumption
  <2> QED  BY <1>1, <2>1
<1> QED  BY <1>1, <1>2, FS_EmptySet DEF Pid

\* Of the processes with the same slaves the requested one is the root, and the
\* root of the communicator is requested.
LEMMA RequestedIsRoot ==
  ASSUME NEW X, X.members \subseteq World, NEW q \in X.members, NEW req \in Nat \ {0},
         NEW Y, Y.members = {r \in X.members : Subgroup(r, X, req) = Subgroup(q, X, req)}
  PROVE  /\ InMachine(q, X, req) => q = Root(Y)
         /\ ~ InMachine(q, X, req) => q # Root(X)
<1>1. ASSUME InMachine(q, X, req) PROVE q = Root(Y)
  <2>1. Y.members \subseteq World /\ q \in Y.members  OBVIOUS
  <2>2. Root(Y) \in Y.members /\ Root(Y) <= q  BY <2>1, RootIs
  <2>3. SUFFICES ASSUME Root(Y) < q PROVE FALSE
    <3>1. Root(Y) \in Int /\ q \in Int  BY <2>1, <2>2, ExecAssumption
    <3> QED  BY <2>2, <3>1
  <2>4. Pid(Root(Y), X) < Pid(q, X)
    BY <2>2, <2>3, PidLess
  <2>5. Pid(q, X) \in Nat /\ Pid(Root(Y), X) \in Nat /\ Pid(q, X) < req
    BY <1>1, PidType DEF InMachine
  <2>6. Pid(q, X) % req = Pid(q, X)
    BY <2>5, Leftover
  <2>7. Pid(Root(Y), X) % req = Pid(Root(Y), X)
    <3>1. Pid(Root(Y), X) < req  BY <2>4, <2>5
    <3> QED  BY <2>5, <3>1, Leftover
  <2> QED  BY <2>2, <2>4, <2>5, <2>6, <2>7 DEF Subgroup
<1>2. ASSUME q = Root(X) PROVE InMachine(q, X, req)
  BY <1>2, RootIs DEF InMachine
<1> QED  BY <1>1, <1>2

----------------------------------------------------------------------------
(* The invariant.  The type of the state *)

ExecOps == {"exec", "split", "table", "symbol", "interface", "handler",
            "barrier", "sync", "clone"}
ExecPlaces == ExecOps \cup {"slave", "user"}
Comms == [id : Seq(Marks), members : SUBSET World]
CallRecords == [comm : Comms, i : Nat, op : ExecOps, val : Int]
Frames == [at : ExecPlaces, world : Comms, machine : Comms, left : Int]

ExecTypeOK ==
  /\ stack \in [World -> Seq(Frames)]
  /\ called \in [World -> SUBSET CallRecords]
  /\ done \in [World -> SUBSET Comms]
  /\ \A q \in World : IsFiniteSet(called[q])

(* Communicators.  The id tells one of processes with their slaves from a   *)
(* machine and from a copy of one, and from a call of the communicator that *)
(* it was made of follows which it is.                                      *)
IsWorld(X)   == X.id = <<>> \/ X.id[Len(X.id)][2] >= 0
IsMachine(X) == X.id # <<>> /\ X.id[Len(X.id)][2] = -1

SubOf(q, e) ==
  Comm(Append(e.comm.id, <<e.i, Subgroup(q, e.comm, e.val)>>),
       {r \in e.comm.members : Subgroup(r, e.comm, e.val) = Subgroup(q, e.comm, e.val)})
MachineOf(e) ==
  Comm(Append(e.comm.id, <<e.i, -1>>), {r \in e.comm.members : InMachine(r, e.comm, e.val)})
CloneOf(e) == Comm(Append(e.comm.id, <<e.i, -2>>), e.comm.members)

\* The process q has got the communicator X.
Made(q, X) ==
  \/ X = WORLD
  \/ \E e \in called[q] :
       \/ e.op = "split" /\ X = SubOf(q, e)
       \/ e.op = "split" /\ InMachine(q, e.comm, e.val) /\ X = MachineOf(e)
       \/ e.op = "clone" /\ X = CloneOf(e)

(* Calls.  Before the function runs on a machine there are as many as Base  *)
(* says, and which they are is known.                                       *)
Base(X) == IF IsMachine(X) THEN NSymbols + 4 ELSE 2
OpAt(X, i) == IF i = Base(X) THEN "barrier" ELSE IF i = Base(X) - 1 THEN "interface"
              ELSE IF i = 1 THEN "table" ELSE "symbol"

\* The calls on a communicator have the numbers from 1 on.
Listed(q) == \A c \in called[q] :
  /\ q \in c.comm.members
  /\ c.i \in 1 .. Number(q, c.comm)
  /\ \A d \in called[q] : d.comm = c.comm /\ d.i = c.i => d = c
  /\ \A j \in 1 .. Number(q, c.comm) : \E d \in Calls(q, c.comm) : d.i = j

\* Calls for a process and its slaves: those of the process come first.
WorldCall(q, c) ==
  /\ c.op = IF c.i % 2 = 1 THEN "exec" ELSE "split"
  /\ c \in called[Root(c.comm)]
  /\ c.op = "exec" /\ c.val > 0 =>
       [comm |-> c.comm, i |-> c.i + 1, op |-> "split", val |-> c.val] \in called[q]
  /\ c.op = "split" => c.val > 0

\* Calls on a machine: each is made after all have made the one before, and
\* nobody makes one after the symbol that a process could not look up.
MachineCall(q, c) ==
  /\ c.i <= Base(c.comm) => c.op = OpAt(c.comm, c.i)
  /\ c.i > Base(c.comm) => c.op \in {"clone", "sync"}
  /\ c.op = "sync" => c.i = Number(q, c.comm)
  /\ \A r \in c.comm.members : c.i - 1 <= Number(r, c.comm)
  /\ c.op = "symbol" /\ c.val = -1 => \A r \in World : Number(r, c.comm) <= c.i

CallOK(q, c) == /\ Made(q, c.comm)
                /\ IF IsWorld(c.comm) THEN WorldCall(q, c) ELSE MachineCall(q, c)

Agree(q, r) ==
  \A c \in called[q], d \in called[r] :
    c.comm.id = d.comm.id => c.comm = d.comm /\ (c.i = d.i => c.op = d.op)

CallsAgree ==
  /\ \A q \in World : Listed(q) /\ \A c \in called[q] : CallOK(q, c)
  /\ \A q, r \in World : Agree(q, r)

----------------------------------------------------------------------------
(* A process makes calls *)

\* The process q makes the calls New on X, with the next numbers.
Enters(q, X, New) ==
  /\ called' = [called EXCEPT ![q] = @ \cup New]
  /\ New \in SUBSET CallRecords /\ IsFiniteSet(New)
  /\ \A c \in New : c.comm = X /\ c.i \in (Number(q, X) + 1) .. (Number(q, X) + Cardinality(New))
  /\ \A j \in (Number(q, X) + 1) .. (Number(q, X) + Cardinality(New)) : \E c \in New : c.i = j
  /\ \A c, d \in New : c.i = d.i => c = d

LEMMA NumberType ==
  ASSUME ExecTypeOK, NEW q \in World, NEW X
  PROVE  Number(q, X) \in Nat /\ IsFiniteSet(Calls(q, X)) /\ Calls(q, X) \subseteq called[q]
<1>1. Calls(q, X) \in SUBSET called[q] /\ IsFiniteSet(called[q])
  BY DEF Calls, ExecTypeOK
<1> QED  BY <1>1, FS_Subset, FS_CardinalityType DEF Number

LEMMA Entered ==
  ASSUME ExecTypeOK, NEW q \in World, Listed(q), NEW X, NEW New, Enters(q, X, New),
         q \in X.members
  PROVE  /\ \A r \in World : called[r] \subseteq called'[r] /\ (r # q => called'[r] = called[r])
         /\ called'[q] = called[q] \cup New
         /\ called' \in [World -> SUBSET CallRecords]
         /\ \A r \in World : IsFiniteSet(called'[r])
         /\ \A r \in World : \A Y : (r # q \/ Y # X) =>
              Calls(r, Y)' = Calls(r, Y) /\ Number(r, Y)' = Number(r, Y)
         /\ Calls(q, X)' = Calls(q, X) \cup New
         /\ Number(q, X)' = Number(q, X) + Cardinality(New)
         /\ Cardinality(New) \in Nat
         /\ \A r \in World : \A Y : Number(r, Y) <= Number(r, Y)'
         /\ Listed(q)'
         /\ \A r \in World : r # q /\ Listed(r) => Listed(r)'
<1>1. /\ \A r \in World : called[r] \subseteq called'[r] /\ (r # q => called'[r] = called[r])
      /\ called'[q] = called[q] \cup New
      /\ called' \in [World -> SUBSET CallRecords]
  BY DEF Enters, ExecTypeOK
<1>2. \A r \in World : IsFiniteSet(called'[r])
  <2>1. IsFiniteSet(called[q] \cup New)
    BY FS_Union DEF Enters, ExecTypeOK
  <2> QED  BY <1>1, <2>1 DEF ExecTypeOK
<1>3. \A r \in World : \A Y : (r # q \/ Y # X) =>
        Calls(r, Y)' = Calls(r, Y) /\ Number(r, Y)' = Number(r, Y)
  <2>1. SUFFICES ASSUME NEW r \in World, NEW Y, r # q \/ Y # X
                 PROVE  Calls(r, Y)' = Calls(r, Y)
    BY DEF Number
  <2>2. \A c \in New : c.comm = X  BY DEF Enters
  <2> QED  BY <1>1, <2>1, <2>2 DEF Calls
<1>4. Calls(q, X)' = Calls(q, X) \cup New
  <2>1. \A c \in New : c.comm = X  BY DEF Enters
  <2> QED  BY <1>1, <2>1 DEF Calls
<1>5. Cardinality(New) \in Nat /\ IsFiniteSet(New)
  BY FS_CardinalityType DEF Enters
<1>6. Calls(q, X) \cap New = {}
  <2>1. SUFFICES ASSUME NEW c \in Calls(q, X), c \in New PROVE FALSE  OBVIOUS
  <2>2. c.i \in 1 .. Number(q, X)
    <3>1. c \in called[q] /\ c.comm = X  BY DEF Calls
    <3> QED  BY <3>1 DEF Listed
  <2>3. c.i \in (Number(q, X) + 1) .. (Number(q, X) + Cardinality(New))
    BY <2>1 DEF Enters
  <2> QED  BY <2>2, <2>3, <1>5, NumberType
<1>7. Number(q, X)' = Number(q, X) + Cardinality(New)
  <2>1. IsFiniteSet(Calls(q, X)) /\ Number(q, X) \in Nat  BY NumberType
  <2>2. Cardinality(Calls(q, X) \cup New) = Number(q, X) + Cardinality(New) - Cardinality({})
    BY <2>1, <1>5, <1>6, FS_Union DEF Number
  <2>3. Number(q, X)' = Cardinality(Calls(q, X) \cup New)
    BY <1>4 DEF Number
  <2> QED  BY <2>1, <2>2, <2>3, <1>5, FS_EmptySet
<1>8. \A r \in World : \A Y : Number(r, Y) <= Number(r, Y)'
  <2>1. SUFFICES ASSUME NEW r \in World, NEW Y PROVE Number(r, Y) <= Number(r, Y)'  OBVIOUS
  <2>2. Number(r, Y) \in Nat  BY NumberType
  <2>3. CASE r # q \/ Y # X  BY <2>2, <2>3, <1>3
  <2>4. CASE r = q /\ Y = X  BY <2>2, <2>4, <1>5, <1>7
  <2> QED  BY <2>3, <2>4
<1>9. Listed(q)'
  <2>1. SUFFICES ASSUME NEW c \in called'[q]
                 PROVE  /\ q \in c.comm.members
                        /\ c.i \in 1 .. Number(q, c.comm)'
                        /\ \A d \in called'[q] : d.comm = c.comm /\ d.i = c.i => d = c
                        /\ \A j \in 1 .. Number(q, c.comm)' : \E d \in Calls(q, c.comm)' : d.i = j
    BY DEF Listed
  <2> DEFINE n == Number(q, X)
             m == Cardinality(New)
  <2>2. n \in Nat /\ m \in Nat /\ \A Y : Number(q, Y) \in Nat  BY <1>5, NumberType
  <2>3. CASE c.comm # X
    <3>1. c \in called[q]  BY <2>3, <1>1 DEF Enters
    <3>2. \A d \in called'[q] : d.comm = c.comm => d \in called[q]
      BY <2>3, <1>1 DEF Enters
    <3>3. Calls(q, c.comm)' = Calls(q, c.comm) /\ Number(q, c.comm)' = Number(q, c.comm)
      BY <2>3, <1>3
    <3>4. /\ q \in c.comm.members
          /\ c.i \in 1 .. Number(q, c.comm)
          /\ \A d \in called[q] : d.comm = c.comm /\ d.i = c.i => d = c
          /\ \A j \in 1 .. Number(q, c.comm) : \E d \in Calls(q, c.comm) : d.i = j
      BY <3>1 DEF Listed
    <3> QED  BY <3>1, <3>2, <3>3, <3>4
  <2>4. CASE c.comm = X
    <3>1. Number(q, X)' = n + m /\ Calls(q, X)' = Calls(q, X) \cup New
      BY <1>4, <1>7
    <3>2. \A d \in Calls(q, X) : d.i \in 1 .. n /\ \A e \in Calls(q, X) : e.i = d.i => e = d
      BY DEF Listed, Calls
    <3>3. \A d \in New : d.i \in (n + 1) .. (n + m) /\ \A e \in New : e.i = d.i => e = d
      BY DEF Enters
    <3>4. \A d \in called'[q] : d.comm = X => d \in Calls(q, X) \cup New
      BY <1>1 DEF Calls
    <3>5. \A d, e \in Calls(q, X) \cup New : e.i = d.i => e = d
      BY <3>2, <3>3, <2>2
    <3>6. \A d \in Calls(q, X) \cup New : d.i \in 1 .. (n + m)
      BY <3>2, <3>3, <2>2
    <3>7. \A j \in 1 .. n : \E d \in Calls(q, X) : d.i = j
      <4>1. SUFFICES ASSUME NEW j \in 1 .. n PROVE \E d \in Calls(q, X) : d.i = j  OBVIOUS
      <4>2. Calls(q, X) # {}
        BY <4>1, FS_EmptySet, NumberType DEF Number
      <4>3. PICK d \in called[q] : d.comm = X  BY <4>2 DEF Calls
      <4> QED  BY <4>3 DEF Listed
    <3>8. \A j \in (n + 1) .. (n + m) : \E d \in New : d.i = j
      BY DEF Enters
    <3>9. \A j \in 1 .. (n + m) : \E d \in Calls(q, X) \cup New : d.i = j
      <4>1. \A j \in 1 .. (n + m) : j \in 1 .. n \/ j \in (n + 1) .. (n + m)  BY <2>2
      <4> QED  BY <4>1, <3>7, <3>8
    <3> HIDE DEF n, m
    <3>10. c \in Calls(q, X) \cup New  BY <2>1, <2>4, <3>4
    <3> QED  BY <2>4, <3>1, <3>4, <3>5, <3>6, <3>9, <3>10
  <2> QED  BY <2>3, <2>4
<1>10. ASSUME NEW r \in World, r # q, Listed(r) PROVE Listed(r)'
  <2>1. called'[r] = called[r]  BY <1>1, <1>10
  <2>2. \A Y : Calls(r, Y)' = Calls(r, Y) /\ Number(r, Y)' = Number(r, Y)  BY <1>3, <1>10
  <2>3. SUFFICES ASSUME NEW c \in called'[r]
                 PROVE  /\ r \in c.comm.members
                        /\ c.i \in 1 .. Number(r, c.comm)'
                        /\ \A d \in called'[r] : d.comm = c.comm /\ d.i = c.i => d = c
                        /\ \A j \in 1 .. Number(r, c.comm)' : \E d \in Calls(r, c.comm)' : d.i = j
    BY DEF Listed
  <2> QED  BY <1>10, <2>1, <2>2, <2>3 DEF Listed
<1> QED  BY <1>1, <1>2, <1>3, <1>4, <1>5, <1>7, <1>8, <1>9, <1>10

LEMMA OneCall ==
  ASSUME ExecTypeOK, NEW q \in World, NEW X \in Comms, NEW op \in ExecOps, NEW v \in Int,
         called' = [called EXCEPT ![q] = @ \cup {NextCall(q, X, op, v)}]
  PROVE  /\ Enters(q, X, {NextCall(q, X, op, v)})
         /\ Cardinality({NextCall(q, X, op, v)}) = 1
<1>1. Number(q, X) \in Nat  BY NumberType
<1>2. NextCall(q, X, op, v) \in CallRecords /\ NextCall(q, X, op, v).comm = X
      /\ NextCall(q, X, op, v).i = Number(q, X) + 1
  BY <1>1 DEF NextCall, CallRecords
<1>3. Cardinality({NextCall(q, X, op, v)}) = 1 /\ IsFiniteSet({NextCall(q, X, op, v)})
  BY FS_Singleton
<1> QED  BY <1>1, <1>2, <1>3 DEF Enters

\* The two calls of Split.
Two(q, X, v, c, d) == /\ c = NextCall(q, X, "exec", v)
                      /\ d = [NextCall(q, X, "split", v) EXCEPT !.i = @ + 1]

Calling(q, New) == called' = [called EXCEPT ![q] = @ \cup New]

LEMMA TwoCalls ==
  ASSUME ExecTypeOK, NEW q \in World, NEW X, X \in Comms, NEW v, v \in Int,
         NEW c, NEW d, Two(q, X, v, c, d),
         NEW New, New = {c, d}, Calling(q, New)
  PROVE  Enters(q, X, New) /\ Cardinality(New) = 2
<1>1. Number(q, X) \in Nat  BY NumberType
<1>2. /\ c = [comm |-> X, i |-> Number(q, X) + 1, op |-> "exec", val |-> v]
      /\ d = [comm |-> X, i |-> Number(q, X) + 2, op |-> "split", val |-> v]
  BY <1>1 DEF NextCall, Two
<1>3. {c, d} \in SUBSET CallRecords /\ c # d
  BY <1>1, <1>2 DEF CallRecords, ExecOps
<1>4. IsFiniteSet({c, d}) /\ Cardinality({c, d}) = 2
  <2>1. IsFiniteSet({c}) /\ Cardinality({c}) = 1  BY FS_Singleton
  <2>2. d \notin {c}  BY <1>3
  <2>3. IsFiniteSet({c} \cup {d}) /\ Cardinality({c} \cup {d}) = 1 + 1
    BY <2>1, <2>2, FS_AddElement
  <2>4. {c} \cup {d} = {c, d}  OBVIOUS
  <2> QED  BY <2>3, <2>4
<1>5. \A j \in (Number(q, X) + 1) .. (Number(q, X) + 2) : \E e \in {c, d} : e.i = j
  BY <1>1, <1>2
<1>6. \A e \in {c, d} : e.comm = X /\ e.i \in (Number(q, X) + 1) .. (Number(q, X) + 2)
  BY <1>1, <1>2
<1>7. \A e, f \in {c, d} : e.i = f.i => e = f
  BY <1>1, <1>2
<1> QED  BY <1>3, <1>4, <1>5, <1>6, <1>7 DEF Enters, Calling

LEMMA NoCall ==
  ASSUME ExecTypeOK, NEW q \in World, NEW X, called' = called
  PROVE  Enters(q, X, {}) /\ Cardinality({}) = 0
<1>1. Number(q, X) \in Nat  BY NumberType
<1>2. called' = [called EXCEPT ![q] = @ \cup {}]  BY DEF ExecTypeOK
<1>3. (Number(q, X) + 1) .. (Number(q, X) + 0) = {}  BY <1>1
<1> QED  BY <1>2, <1>3, FS_EmptySet DEF Enters

----------------------------------------------------------------------------
(* What follows for the communicators *)

LEMMA CallType ==
  ASSUME ExecTypeOK, NEW q \in World, NEW e \in called[q]
  PROVE  /\ e \in CallRecords /\ e.comm \in Comms /\ e.i \in Nat /\ e.val \in Int
         /\ e.comm.id \in Seq(Marks) /\ e.comm.members \subseteq World
         /\ e = [comm |-> e.comm, i |-> e.i, op |-> e.op, val |-> e.val]
<1>1. e \in CallRecords  BY DEF ExecTypeOK
<1>2. e.comm \in Comms /\ e.i \in Nat /\ e.val \in Int
      /\ e = [comm |-> e.comm, i |-> e.i, op |-> e.op, val |-> e.val]
  BY <1>1 DEF CallRecords
<1>3. e.comm.id \in Seq(Marks) /\ e.comm.members \subseteq World
  BY <1>2 DEF Comms
<1> QED  BY <1>1, <1>2, <1>3

\* A split is for processes with their slaves, a copy of a communicator is of one
\* that a function runs on.
LEMMA SplitCall ==
  ASSUME ExecTypeOK, CallsAgree, NEW q \in World, NEW e \in called[q], e.op = "split"
  PROVE  /\ IsWorld(e.comm) /\ e.val \in Nat \ {0}
         /\ q \in e.comm.members /\ Root(e.comm) \in e.comm.members
         /\ e \in called[Root(e.comm)]
<1>1. Listed(q) /\ CallOK(q, e)  BY DEF CallsAgree
<1>2. IsWorld(e.comm)
  <2>1. SUFFICES ASSUME MachineCall(q, e) PROVE FALSE  BY <1>1 DEF CallOK
  <2>2. Base(e.comm) \in Nat  BY ExecAssumption DEF Base
  <2>3. e.i \in Nat  BY CallType
  <2> QED  BY <2>1, <2>2, <2>3 DEF MachineCall, OpAt
<1>3. WorldCall(q, e)  BY <1>1, <1>2 DEF CallOK
<1>4. q \in e.comm.members  BY <1>1 DEF Listed
<1>5. Root(e.comm) \in e.comm.members  BY <1>4, CallType, RootIs
<1>6. e.val \in Nat \ {0}  BY <1>3, CallType DEF WorldCall
<1> QED  BY <1>2, <1>3, <1>4, <1>5, <1>6 DEF WorldCall

LEMMA CloneCall ==
  ASSUME ExecTypeOK, CallsAgree, NEW q \in World, NEW e \in called[q], e.op = "clone"
  PROVE  ~ IsWorld(e.comm) /\ q \in e.comm.members
<1>1. Listed(q) /\ CallOK(q, e)  BY DEF CallsAgree
<1>2. ~ WorldCall(q, e)  BY DEF WorldCall
<1> QED  BY <1>1, <1>2 DEF CallOK, Listed

LEMMA SubgroupType ==
  ASSUME NEW X, X.members \subseteq World, NEW q, NEW v \in Nat \ {0}
  PROVE  Subgroup(q, X, v) \in Nat
<1>1. Pid(q, X) \in Nat  BY PidType
<1>2. Pid(q, X) % v \in 0 .. (v - 1)  BY <1>1, Leftover
<1> QED  BY <1>2 DEF Subgroup

\* What one call makes of its communicator.
LEMMA Kinds ==
  ASSUME NEW s \in Seq(Marks), NEW i \in Int, NEW k \in Int,
         NEW X, X.id = Append(s, <<i, k>>)
  PROVE  /\ X.id \in Seq(Marks) /\ X.id # <<>> /\ Len(X.id) = Len(s) + 1
         /\ IsWorld(X) <=> k >= 0
         /\ IsMachine(X) <=> k = -1
<1>1. /\ X.id \in Seq(Marks) /\ X.id # <<>> /\ Len(X.id) = Len(s) + 1
      /\ X.id[Len(s) + 1] = <<i, k>>
  BY IdAppend
<1>2. X.id[Len(X.id)][2] = k  BY <1>1
<1> QED  BY <1>1, <1>2 DEF IsWorld, IsMachine

\* The ways a communicator is made.
MadeBy(q, X, e, k) ==
  /\ X.id = Append(e.comm.id, <<e.i, k>>)
  /\ \/ e.op = "split" /\ X = SubOf(q, e) /\ k = Subgroup(q, e.comm, e.val)
     \/ e.op = "split" /\ InMachine(q, e.comm, e.val) /\ X = MachineOf(e) /\ k = -1
     \/ e.op = "clone" /\ X = CloneOf(e) /\ k = -2

LEMMA MadeHow ==
  ASSUME ExecTypeOK, CallsAgree, NEW q \in World, NEW X, Made(q, X)
  PROVE  /\ X \in Comms /\ q \in X.members
         /\ X = WORLD \/ \E e \in called[q] : \E k \in Int : MadeBy(q, X, e, k)
         /\ X = WORLD => IsWorld(X)
         /\ \A e \in called[q] : \A k \in Int : MadeBy(q, X, e, k) =>
              /\ Len(X.id) = Len(e.comm.id) + 1 /\ X.id # <<>>
              /\ IsWorld(X) <=> k >= 0
              /\ IsMachine(X) <=> k = -1
              /\ e.op = "split" /\ k # -1 => k >= 0
<1>1. ASSUME X = WORLD PROVE X \in Comms /\ q \in X.members /\ IsWorld(X)
  <2>1. X = [id |-> <<>>, members |-> World]  BY <1>1 DEF WORLD, Comm
  <2>2. <<>> \in Seq(Marks)  BY EmptySeq
  <2> QED  BY <2>1, <2>2 DEF Comms, IsWorld
<1>2. ASSUME NEW e \in called[q], NEW k \in Int, MadeBy(q, X, e, k)
      PROVE  /\ X \in Comms /\ q \in X.members
             /\ Len(X.id) = Len(e.comm.id) + 1 /\ X.id # <<>>
             /\ IsWorld(X) <=> k >= 0
             /\ IsMachine(X) <=> k = -1
             /\ e.op = "split" /\ k # -1 => k >= 0
  <2>1. e.comm.id \in Seq(Marks) /\ e.comm.members \subseteq World /\ e.i \in Int
    BY CallType
  <2>2. X.id = Append(e.comm.id, <<e.i, k>>)  BY <1>2 DEF MadeBy
  <2>3. /\ X.id \in Seq(Marks) /\ X.id # <<>> /\ Len(X.id) = Len(e.comm.id) + 1
        /\ IsWorld(X) <=> k >= 0
        /\ IsMachine(X) <=> k = -1
    BY <2>1, <2>2, Kinds, ZenonT(30)
  <2>4. X = [id |-> X.id, members |-> X.members] /\ X.members \subseteq e.comm.members
        /\ q \in X.members
    <3>1. q \in e.comm.members  BY DEF CallsAgree, Listed
    <3> QED  BY <1>2, <3>1 DEF MadeBy, SubOf, MachineOf, CloneOf, Comm
  <2>5. X \in Comms  BY <2>1, <2>3, <2>4 DEF Comms
  <2>6. e.op = "split" /\ k # -1 => k >= 0
    <3>1. SUFFICES ASSUME e.op = "split", k # -1 PROVE k >= 0  OBVIOUS
    <3>2. k = Subgroup(q, e.comm, e.val)  BY <1>2, <3>1 DEF MadeBy
    <3>3. e.val \in Nat \ {0}  BY <3>1, SplitCall
    <3>4. Subgroup(q, e.comm, e.val) \in Nat  BY <3>3, <2>1, SubgroupType
    <3> QED  BY <3>2, <3>4
  <2> QED  BY <2>3, <2>4, <2>5, <2>6
<1>3. CASE X # WORLD
  <2>1. PICK e \in called[q] :
          \/ e.op = "split" /\ X = SubOf(q, e)
          \/ e.op = "split" /\ InMachine(q, e.comm, e.val) /\ X = MachineOf(e)
          \/ e.op = "clone" /\ X = CloneOf(e)
    BY <1>3 DEF Made
  <2>2. \E k \in Int : MadeBy(q, X, e, k)
    <3>1. CASE e.op = "split" /\ X = SubOf(q, e)
      <4>1. e.val \in Nat \ {0} /\ e.comm.members \subseteq World  BY <3>1, SplitCall, CallType
      <4>2. Subgroup(q, e.comm, e.val) \in Int  BY <4>1, SubgroupType
      <4>3. X.id = Append(e.comm.id, <<e.i, Subgroup(q, e.comm, e.val)>>)  BY <3>1 DEF SubOf, Comm
      <4> QED  BY <3>1, <4>2, <4>3 DEF MadeBy
    <3>2. CASE e.op = "split" /\ InMachine(q, e.comm, e.val) /\ X = MachineOf(e)
      <4>1. X.id = Append(e.comm.id, <<e.i, -1>>)  BY <3>2 DEF MachineOf, Comm
      <4> QED  BY <3>2, <4>1 DEF MadeBy
    <3>3. CASE e.op = "clone" /\ X = CloneOf(e)
      <4>1. X.id = Append(e.comm.id, <<e.i, -2>>)  BY <3>3 DEF CloneOf, Comm
      <4> QED  BY <3>3, <4>1 DEF MadeBy
    <3> QED  BY <2>1, <3>1, <3>2, <3>3
  <2> QED  BY <2>2, <1>2, <1>3
<1> QED  BY <1>1, <1>2, <1>3

\* The id determines the communicator, whoever has it.
LEMMA SameComm ==
  ASSUME ExecTypeOK, CallsAgree, NEW q \in World, NEW r \in World,
         NEW X, NEW Y, Made(q, X), Made(r, Y), X.id = Y.id
  PROVE  X = Y
<1>1. WORLD.id = <<>>  BY DEF WORLD, Comm
<1>2. CASE X = WORLD \/ Y = WORLD
  BY <1>1, <1>2, MadeHow
<1>3. CASE X # WORLD /\ Y # WORLD
  <2>1. PICK e \in called[q], k \in Int : MadeBy(q, X, e, k)  BY <1>3, MadeHow
  <2>2. PICK f \in called[r], l \in Int : MadeBy(r, Y, f, l)  BY <1>3, MadeHow
  <2>3. e.comm.id = f.comm.id /\ e.i = f.i /\ k = l
    <3>1. e.comm.id \in Seq(Marks) /\ f.comm.id \in Seq(Marks)
          /\ e.i \in Int /\ f.i \in Int
      BY CallType
    <3>2. Append(e.comm.id, <<e.i, k>>) = Append(f.comm.id, <<f.i, l>>)
      BY <2>1, <2>2 DEF MadeBy
    <3>3. PICK a \in Marks : a = <<e.i, k>>  BY <3>1 DEF Marks
    <3>4. PICK b \in Marks : b = <<f.i, l>>  BY <3>1 DEF Marks
    <3>5. Append(e.comm.id, a) = Append(f.comm.id, b)  BY <3>2, <3>3, <3>4
    <3>6. PICK s \in Seq(Marks) : s = e.comm.id  BY <3>1
    <3>7. PICK t \in Seq(Marks) : t = f.comm.id  BY <3>1
    <3>8. Append(s, a) = Append(t, b)  BY <3>5, <3>6, <3>7
    <3>9. s = t /\ a = b
      BY ONLY <3>8, AppendInjective
    <3> QED  BY <3>3, <3>4, <3>6, <3>7, <3>9
  <2>4. e.comm = f.comm /\ e.op = f.op
    BY <2>3 DEF CallsAgree, Agree
  <2>5. CASE e.op = "clone"
    <3>1. X = CloneOf(e) /\ Y = CloneOf(f)
      BY <2>1, <2>2, <2>4, <2>5 DEF MadeBy
    <3> QED  BY <3>1, <2>3, <2>4 DEF CloneOf
  <2>6. CASE e.op = "split"
    <3>1. e = f
      <4>1. e \in called[Root(e.comm)] /\ f \in called[Root(e.comm)] /\ Root(e.comm) \in World
        BY <2>4, <2>6, SplitCall, CallType
      <4> QED  BY <4>1, <2>3, <2>4 DEF CallsAgree, Listed
    <3>2. CASE k = -1
      <4>1. X = MachineOf(e)
        <5>1. SUFFICES ASSUME -1 = Subgroup(q, e.comm, e.val) PROVE FALSE
          BY <2>1, <2>6, <3>2 DEF MadeBy
        <5>2. Subgroup(q, e.comm, e.val) \in Nat  BY <2>6, SplitCall, CallType, SubgroupType
        <5> QED  BY <5>1, <5>2
      <4>2. Y = MachineOf(e)
        <5>1. SUFFICES ASSUME -1 = Subgroup(r, e.comm, e.val) PROVE FALSE
          BY <2>2, <2>3, <2>6, <3>1, <3>2 DEF MadeBy
        <5>2. Subgroup(r, e.comm, e.val) \in Nat  BY <2>6, SplitCall, CallType, SubgroupType
        <5> QED  BY <5>1, <5>2
      <4> QED  BY <4>1, <4>2
    <3>3. CASE k # -1
      <4>1. X = SubOf(q, e) /\ Y = SubOf(r, e) /\ Subgroup(q, e.comm, e.val) = Subgroup(r, e.comm, e.val)
        BY <2>1, <2>2, <2>3, <2>6, <3>1, <3>3 DEF MadeBy
      <4> QED  BY <4>1 DEF SubOf
    <3> QED  BY <3>2, <3>3
  <2> QED  BY <2>1, <2>5, <2>6 DEF MadeBy
<1> QED  BY <1>2, <1>3

----------------------------------------------------------------------------
(* When the calls of a process agree with those of the others *)

WorldEntry(q, X, New) ==
  \A c \in New :
    /\ c.op = IF c.i % 2 = 1 THEN "exec" ELSE "split"
    /\ q = Root(X) \/ c \in called[Root(X)]
    /\ c.op = "exec" /\ c.val > 0 =>
         [comm |-> X, i |-> c.i + 1, op |-> "split", val |-> c.val] \in New
    /\ c.op = "split" => c.val > 0

MachineEntry(q, X, New) ==
  New # {} =>
    /\ Cardinality(New) = 1
    /\ \A c \in New :
         /\ c.i <= Base(X) => c.op = OpAt(X, c.i)
         /\ c.i > Base(X) => /\ c.op \in {"clone", "sync"}
                             /\ \A r \in X.members : \A d \in Calls(r, X) :
                                  d.i = c.i => d.op = c.op
    /\ \A r \in X.members : Number(q, X) <= Number(r, X)
    /\ \A c \in Calls(q, X) : c.op # "sync"
    /\ \A r \in X.members : \A d \in Calls(r, X) :
         d.i = Number(q, X) /\ d.op = "symbol" => d.val # -1

MayEnter(q, X, New) ==
  /\ Made(q, X)
  /\ IF IsWorld(X) THEN WorldEntry(q, X, New) ELSE MachineEntry(q, X, New)

LEMMA MadeKept ==
  ASSUME NEW q, called[q] \subseteq called'[q], NEW X, Made(q, X)
  PROVE  Made(q, X)'
  BY DEF Made, SubOf, MachineOf, CloneOf, WORLD, Comm, InMachine, Subgroup, Pid

LEMMA CallsStep ==
  ASSUME ExecTypeOK, CallsAgree, NEW q \in World, NEW X, NEW New,
         Enters(q, X, New), MayEnter(q, X, New)
  PROVE  CallsAgree'
<1> DEFINE n == Number(q, X)
<1>1. X \in Comms /\ q \in X.members /\ X.members \subseteq World
  BY MadeHow DEF MayEnter, Comms
<1>2. Listed(q)  BY DEF CallsAgree
<1>3. /\ \A r \in World : called[r] \subseteq called'[r] /\ (r # q => called'[r] = called[r])
      /\ called'[q] = called[q] \cup New
      /\ \A r \in World : \A Y : (r # q \/ Y # X) =>
           Calls(r, Y)' = Calls(r, Y) /\ Number(r, Y)' = Number(r, Y)
      /\ Calls(q, X)' = Calls(q, X) \cup New
      /\ Number(q, X)' = n + Cardinality(New)
      /\ Cardinality(New) \in Nat
      /\ \A r \in World : \A Y : Number(r, Y) <= Number(r, Y)'
      /\ \A r \in World : Listed(r)'
  BY <1>1, <1>2, Entered DEF CallsAgree
<1>4. \A r \in World : \A Y : Made(r, Y) => Made(r, Y)'
  BY <1>3, MadeKept
<1>5. \A r \in World : \A Y : Number(r, Y) \in Nat /\ Number(r, Y)' \in Nat
  <2>1. \A r \in World : \A Y : Number(r, Y) \in Nat  BY NumberType
  <2>2. \A r \in World : \A Y : Number(r, Y)' \in Nat
    BY <2>1, <1>3
  <2> QED  BY <2>1, <2>2
<1>6. New \in SUBSET CallRecords /\ \A c \in New : c.comm = X /\ c.i \in (n + 1) .. (n + Cardinality(New))
  BY DEF Enters
<1>7. ASSUME NEW r \in World, NEW c \in called[r] PROVE CallOK(r, c)'
  <2>1. CallOK(r, c)  BY DEF CallsAgree
  <2>2. Made(r, c.comm)'  BY <2>1, <1>4 DEF CallOK
  <2>3. ASSUME WorldCall(r, c), IsWorld(c.comm) PROVE WorldCall(r, c)'
    <3>1. Root(c.comm) \in World
      <4>1. r \in c.comm.members  BY DEF CallsAgree, Listed
      <4> QED  BY <4>1, CallType, RootIs
    <3> QED  BY <2>3, <3>1, <1>3 DEF WorldCall, Root
  <2>4. ASSUME MachineCall(r, c), ~ IsWorld(c.comm) PROVE MachineCall(r, c)'
    <3>1. c.op = "sync" => c.i = Number(r, c.comm)'
      <4>1. SUFFICES ASSUME c.op = "sync", r = q, c.comm = X, New # {} PROVE FALSE
        <5>1. New = {} => Number(q, X)' = Number(q, X)
          BY <1>3, <1>5, FS_EmptySet
        <5> QED  BY <2>4, <1>3, <5>1 DEF MachineCall
      <4>2. c \in Calls(q, X)  BY <4>1 DEF Calls
      <4> QED  BY <4>1, <4>2, <2>4 DEF MayEnter, MachineEntry
    <3>2. \A s \in c.comm.members : c.i - 1 <= Number(s, c.comm)'
      <4>1. c.comm.members \subseteq World /\ c.i \in Nat  BY CallType
      <4>2. \A s \in c.comm.members : c.i - 1 <= Number(s, c.comm)  BY <2>4 DEF MachineCall
      <4>3. SUFFICES ASSUME NEW s \in c.comm.members PROVE c.i - 1 <= Number(s, c.comm)'  OBVIOUS
      <4>4. Number(s, c.comm) <= Number(s, c.comm)' /\ Number(s, c.comm) \in Nat
            /\ Number(s, c.comm)' \in Nat
        BY <4>1, <1>3, <1>5
      <4> QED  BY <4>1, <4>2, <4>4
    <3>3. c.op = "symbol" /\ c.val = -1 => \A s \in World : Number(s, c.comm)' <= c.i
      <4>1. SUFFICES ASSUME c.op = "symbol", c.val = -1, NEW s \in World
                     PROVE  Number(s, c.comm)' <= c.i
        OBVIOUS
      <4>2. Number(s, c.comm) <= c.i  BY <2>4, <4>1 DEF MachineCall
      <4>3. SUFFICES ASSUME s = q, c.comm = X, New # {} PROVE Number(q, X)' <= c.i
        <5>1. New = {} => Number(q, X)' = Number(q, X)
          BY <1>3, <1>5, FS_EmptySet
        <5> QED  BY <4>2, <1>3, <5>1
      <4>4. r \in X.members /\ c \in Calls(r, X)
        BY <4>3 DEF CallsAgree, Listed, Calls
      <4>5. Cardinality(New) = 1 /\ c.i # n
        BY <4>1, <4>3, <4>4, <2>4 DEF MayEnter, MachineEntry
      <4>6. n <= c.i /\ n \in Nat /\ c.i \in Nat  BY <4>2, <4>3, <1>5, CallType
      <4>7. Number(q, X)' = n + 1  BY <1>3, <4>5
      <4> HIDE DEF n
      <4> QED  BY <4>5, <4>6, <4>7
    <3>4. Base(c.comm)' = Base(c.comm) /\ OpAt(c.comm, c.i)' = OpAt(c.comm, c.i)
      BY DEF Base, OpAt, IsMachine
    <3> QED  BY <2>4, <3>1, <3>2, <3>3, <3>4 DEF MachineCall
  <2> QED  BY <2>1, <2>2, <2>3, <2>4 DEF CallOK, IsWorld
<1>8. ASSUME NEW c \in New PROVE CallOK(q, c)'
  <2>1. c.comm = X /\ c.i \in (n + 1) .. (n + Cardinality(New))  BY <1>6
  <2>2. Made(q, X)'  BY <1>4 DEF MayEnter
  <2>3. ASSUME WorldEntry(q, X, New) PROVE WorldCall(q, c)'
    <3>1. Root(X) \in World  BY <1>1, RootIs
    <3>2. c \in called'[Root(X)]
      BY <3>1, <2>3, <1>3 DEF WorldEntry
    <3> QED  BY <2>1, <2>3, <3>2, <1>3 DEF WorldEntry, WorldCall, Root
  <2>4. ASSUME MachineEntry(q, X, New), ~ IsWorld(X) PROVE MachineCall(q, c)'
    <3>1. Cardinality(New) = 1 /\ c.i = n + 1 /\ n \in Nat /\ Number(q, X)' = n + 1
      <4>1. Cardinality(New) = 1  BY <2>4 DEF MachineEntry
      <4>2. n \in Nat  BY <1>5
      <4>3. Number(q, X)' = n + 1  BY <4>1, <1>3
      <4> HIDE DEF n
      <4> QED  BY <4>1, <4>2, <4>3, <2>1
    <3>2. \A s \in X.members : c.i - 1 <= Number(s, X)'
      <4>1. SUFFICES ASSUME NEW s \in X.members PROVE c.i - 1 <= Number(s, X)'  OBVIOUS
      <4>2. n <= Number(s, X)  BY <2>4 DEF MachineEntry
      <4>3. Number(s, X) <= Number(s, X)' /\ Number(s, X) \in Nat /\ Number(s, X)' \in Nat
        BY <1>1, <1>3, <1>5
      <4> HIDE DEF n
      <4> QED  BY <3>1, <4>2, <4>3
    <3>3. c.op = "symbol" /\ c.val = -1 => \A s \in World : Number(s, X)' <= c.i
      <4>1. SUFFICES ASSUME NEW s \in World, c.i < Number(s, X)' PROVE FALSE
        <5>1. \A s \in World : Number(s, X)' \in Nat /\ c.i \in Nat  BY <1>5, <3>1
        <5> QED  BY <5>1
      <4>2. s # q  BY <3>1, <4>1
      <4>3. Number(s, X)' = Number(s, X)  BY <4>2, <1>3
      <4>4. c.i + 1 \in 1 .. Number(s, X)
        <5>1. Number(s, X) \in Nat  BY <1>5
        <5> HIDE DEF n
        <5> QED  BY <3>1, <4>1, <4>3, <5>1
      <4>5. PICK d \in Calls(s, X) : d.i = c.i + 1
        <5>1. Calls(s, X) # {}
          <6>1. Number(s, X) # 0  BY <4>4
          <6> QED  BY <6>1, FS_EmptySet DEF Number
        <5>2. PICK d \in called[s] : d.comm = X  BY <5>1 DEF Calls
        <5>3. Listed(s)  BY DEF CallsAgree
        <5> QED  BY <5>2, <5>3, <4>4 DEF Listed
      <4>6. d \in called[s] /\ d.comm = X  BY DEF Calls
      <4>7. MachineCall(s, d)
        BY <4>6, <2>4 DEF CallsAgree, CallOK
      <4>8. d.i - 1 <= n  BY <4>6, <4>7, <1>1 DEF MachineCall
      <4> HIDE DEF n
      <4> QED  BY <4>5, <4>8, <3>1
    <3>4. c.op # "sync" \/ c.i = Number(q, X)'  BY <3>1
    <3>5. Base(X)' = Base(X) /\ OpAt(X, c.i)' = OpAt(X, c.i)
      BY DEF Base, OpAt, IsMachine
    <3>6. /\ c.i <= Base(X) => c.op = OpAt(X, c.i)
          /\ c.i > Base(X) => c.op \in {"clone", "sync"}
      BY <2>4 DEF MachineEntry
    <3> QED  BY <2>1, <3>2, <3>3, <3>4, <3>5, <3>6 DEF MachineCall
  <2> QED  BY <2>1, <2>2, <2>3, <2>4 DEF CallOK, IsWorld, MayEnter
<1>9. \A r \in World : \A c \in called'[r] : CallOK(r, c)'
  BY <1>3, <1>7, <1>8
<1>10. ASSUME NEW r \in World, NEW s \in World, NEW c \in called'[r], NEW d \in called'[s],
              c.comm.id = d.comm.id
       PROVE  c.comm = d.comm /\ (c.i = d.i => c.op = d.op)
  <2>1. Made(r, c.comm) /\ Made(s, d.comm)
    <3>1. \A t \in World : \A e \in called'[t] : Made(t, e.comm)
      <4>1. \A t \in World : \A e \in called[t] : Made(t, e.comm)
        BY DEF CallsAgree, CallOK
      <4>2. \A e \in New : Made(q, e.comm)  BY <1>6 DEF MayEnter
      <4> QED  BY <4>1, <4>2, <1>3
    <3> QED  BY <3>1
  <2>2. c.comm = d.comm  BY <2>1, <1>10, SameComm
  <2>3. ASSUME c.i = d.i PROVE c.op = d.op
    <3>1. CallOK(r, c)' /\ CallOK(s, d)'  BY <1>9
    <3>2. CASE IsWorld(c.comm)
      <4>1. WorldCall(r, c)' /\ WorldCall(s, d)'  BY <2>2, <3>1, <3>2 DEF CallOK, IsWorld
      <4> QED  BY <4>1, <2>3 DEF WorldCall
    <3>3. CASE ~ IsWorld(c.comm)
      <4>1. MachineCall(r, c)' /\ MachineCall(s, d)'  BY <2>2, <3>1, <3>3 DEF CallOK, IsWorld
      <4>2. CASE c.i <= Base(c.comm)
        <5>1. c.op = OpAt(c.comm, c.i) /\ d.op = OpAt(c.comm, c.i)
          BY <4>1, <4>2, <2>2, <2>3 DEF MachineCall, Base, OpAt, IsMachine
        <5> QED  BY <5>1
      <4>3. CASE ~ (c.i <= Base(c.comm))
        <5>0. c.i > Base(c.comm)
          <6>1. c.i \in Nat
            <7>1. c \in CallRecords  BY <1>3, <1>6, CallType
            <7> QED  BY <7>1 DEF CallRecords
          <6>2. Base(c.comm) \in Nat  BY ExecAssumption DEF Base
          <6> QED  BY <4>3, <6>1, <6>2
        <5>1. ASSUME NEW t \in World, NEW e \in called[t], NEW f \in New, e.comm = f.comm, e.i = f.i,
                     ~ IsWorld(f.comm), f.i > Base(f.comm)
              PROVE  e.op = f.op
          <6>1. t \in X.members /\ e \in Calls(t, X) /\ f.comm = X
            BY <5>1, <1>6 DEF CallsAgree, Listed, Calls
          <6> QED  BY <5>1, <6>1 DEF MayEnter, MachineEntry
        <5>2. CASE c \in called[r] /\ d \in called[s]
          BY <5>2, <1>10, <2>3 DEF CallsAgree, Agree
        <5>3. CASE c \in New /\ d \in New
          BY <5>3, <2>3 DEF Enters
        <5>4. CASE c \in called[r] /\ d \in New
          BY <5>1, <5>4, <5>0, <2>2, <2>3, <3>3
        <5>5. CASE c \in New /\ d \in called[s]
          BY <5>1, <5>5, <5>0, <2>2, <2>3, <3>3
        <5> QED  BY <1>3, <5>2, <5>3, <5>4, <5>5
      <4> QED  BY <4>2, <4>3
    <3> QED  BY <3>2, <3>3
  <2> QED  BY <2>2, <2>3
<1> QED
  <2>1. \A r, s \in World : Agree(r, s)'  BY <1>10 DEF Agree
  <2> QED  BY <2>1, <1>3, <1>9 DEF CallsAgree

----------------------------------------------------------------------------
(* The stack of a process *)

\* Where the calls of a process on a machine put it.
Position(q, f) ==
  LET n == Number(q, f.machine) IN
  /\ f.at \in {"table", "symbol", "interface", "barrier", "user", "split", "clone", "sync"}
  /\ f.at = "table" => IsMachine(f.machine) /\ n = 1
  /\ f.at = "symbol" => /\ IsMachine(f.machine) /\ f.left \in 0 .. NSymbols
                        /\ n = NSymbols + 2 - f.left
  /\ f.at = "interface" => n = Base(f.machine) - 1
  /\ f.at = "barrier" => n = Base(f.machine)
  /\ f.at \in {"user", "split"} => n >= Base(f.machine) /\ Complete(q, f.machine)
  /\ f.at \in {"clone", "sync"} => n > Base(f.machine)
  /\ f.at \in {"user", "split", "clone"} => \A c \in Calls(q, f.machine) : c.op # "sync"
  /\ f.at = "sync" => \E c \in Calls(q, f.machine) : c.i = n /\ c.op = "sync"

\* Between two lpf_exec the calls for a process and its slaves come in pairs.
FrameOK(q, f) ==
  /\ IsWorld(f.world) /\ Made(q, f.world) /\ Number(q, f.world) % 2 = 0
  /\ f.at = "split" => Number(q, f.world) > 0
  /\ f.at = "user" => q = Root(f.world)
  /\ IF f.machine = SELF THEN f.at \in {"slave", "user", "split"}
     ELSE /\ q = Root(f.world) /\ ~ IsWorld(f.machine) /\ Made(q, f.machine)
          /\ Position(q, f)

\* The frames below the last wait for the machine or the copy above them to end;
\* a frame without a machine, but for the first, is that of a slave.
StackShape(q) ==
  LET s == stack[q] IN
  /\ s # <<>> => s[1].machine = SELF
  /\ \A k \in 2 .. Len(s) : s[k].machine = SELF =>
       /\ s[k].at # "user" /\ (s[k].at = "split" => q # Root(s[k].world))
       /\ q # Root(s[k - 1].world)
  /\ \A k \in 1 .. Len(s) - 1 :
       s[k].at \in {"split", "clone"} /\ (s[k].at = "clone" => Complete(q, s[k].machine))
  /\ \A j, k \in 1 .. Len(s) : j < k =>
       /\ s[j].machine # SELF => s[j].machine # s[k].machine
       /\ \/ s[j].world = s[k].world /\ s[j].machine # SELF
          \/ Len(s[j].world.id) < Len(s[k].world.id)

StackOK(q) == StackShape(q) /\ \A k \in 1 .. Len(stack[q]) : FrameOK(q, stack[q][k])

\* What the last call is going to make is new.
Fresh(q) ==
  Alive(q) => \A e, c \in called[q] :
    /\ Top(q).at = "split" /\ e.comm = Top(q).world /\ e.i = Number(q, e.comm) =>
         c.comm # SubOf(q, e) /\ c.comm # MachineOf(e)
    /\ Top(q).at = "clone" /\ e.comm = Top(q).machine /\ e.i = Number(q, e.comm) =>
         c.comm # CloneOf(e)

\* A process leaves a machine after the sync at the end or after a symbol that
\* some process could not look up.
LeftAt(q, X) ==
  \E c \in Calls(q, X) :
    /\ c.i = Number(q, X)
    /\ \/ c.op = "sync"
       \/ \E r \in World : \E d \in Calls(r, X) : d.i = c.i /\ d.op = "symbol" /\ d.val = -1
Left(q) == \A X \in done[q] : X # SELF => LeftAt(q, X)

CallerOK(q) == StackOK(q) /\ Fresh(q) /\ Left(q)
InStep == ExecTypeOK /\ CallsAgree /\ \A q \in World : CallerOK(q)

\* Processes that are out of step are beyond this.
ExecIInv == /\ called = [q \in World |-> called[q]]
            /\ Unshared \/ InStep

----------------------------------------------------------------------------
(* What the calls of one process leave as it is *)

LEMMA Parity ==
  ASSUME NEW n \in Nat
  PROVE  /\ (n + 2) % 2 = n % 2
         /\ n % 2 = 0 => (n + 1) % 2 = 1
  OBVIOUS

LEMMA FrameKept ==
  ASSUME ExecTypeOK, CallsAgree, NEW q \in World, NEW X, NEW New,
         Enters(q, X, New), MayEnter(q, X, New),
         NEW r \in World, NEW f, FrameOK(r, f),
         f.machine.members \subseteq World,
         r = q => \/ New = {}
                  \/ f.machine # X /\ (f.world = X => Cardinality(New) = 2)
  PROVE  FrameOK(r, f)'
<1>1. q \in X.members  BY MadeHow DEF MayEnter
<1>2. Listed(q)  BY DEF CallsAgree
<1>3. /\ \A s \in World : called[s] \subseteq called'[s]
      /\ \A s \in World : \A Y : (s # q \/ Y # X) =>
           Calls(s, Y)' = Calls(s, Y) /\ Number(s, Y)' = Number(s, Y)
      /\ Calls(q, X)' = Calls(q, X) \cup New
      /\ Number(q, X)' = Number(q, X) + Cardinality(New)
      /\ \A s \in World : \A Y : Number(s, Y) <= Number(s, Y)'
  BY <1>1, <1>2, Entered
<1>4. \A Y : Number(r, Y) \in Nat  BY NumberType
<1>5. Made(r, f.world)'  BY <1>3, MadeKept DEF FrameOK
<1>6. Number(r, f.world)' % 2 = 0 /\ Number(r, f.world) <= Number(r, f.world)'
      /\ Number(r, f.world)' \in Nat
  <2>1. CASE r # q \/ f.world # X  BY <2>1, <1>3, <1>4 DEF FrameOK
  <2>2. CASE r = q /\ New = {} /\ f.world = X
    <3>1. Number(r, X)' = Number(r, X)  BY <2>2, <1>3, <1>4, FS_EmptySet
    <3> QED  BY <2>2, <3>1, <1>4 DEF FrameOK
  <2>3. CASE r = q /\ Cardinality(New) = 2 /\ f.world = X
    <3>1. Number(r, X)' = Number(r, X) + 2  BY <2>3, <1>3
    <3>2. Number(r, X) % 2 = 0 /\ Number(r, X) \in Nat  BY <2>3, <1>4 DEF FrameOK
    <3> QED  BY <2>3, <3>1, <3>2, Parity
  <2> QED  BY <2>1, <2>2, <2>3
<1>7. f.at = "split" => Number(r, f.world)' > 0
  BY <1>4, <1>6 DEF FrameOK
<1>8. ASSUME f.machine # SELF PROVE Made(r, f.machine)' /\ Position(r, f)'
  <2>1. Made(r, f.machine) /\ Position(r, f)  BY <1>8 DEF FrameOK
  <2>2. Calls(r, f.machine)' = Calls(r, f.machine)
        /\ Number(r, f.machine)' = Number(r, f.machine)
    <3>1. CASE r # q \/ f.machine # X  BY <3>1, <1>3
    <3>2. CASE r = q /\ New = {} /\ f.machine = X
      <4>1. Calls(q, X)' = Calls(q, X)  BY <1>3, <3>2
      <4> QED  BY <3>2, <4>1 DEF Number
    <3> QED  BY <3>1, <3>2
  <2>3. Complete(r, f.machine) => Complete(r, f.machine)'
    <3>1. SUFFICES ASSUME Complete(r, f.machine), NEW s \in f.machine.members
                   PROVE  Number(s, f.machine)' >= Number(r, f.machine)'
      BY DEF Complete
    <3>2. Number(s, f.machine) >= Number(r, f.machine)  BY <3>1 DEF Complete
    <3>3. Number(s, f.machine) \in Nat /\ Number(s, f.machine) <= Number(s, f.machine)'
      BY <1>3, NumberType
    <3>4. Number(s, f.machine)' \in Nat
      <4>1. CASE s # q \/ f.machine # X  BY <4>1, <1>3, <3>3
      <4>2. CASE s = q /\ f.machine = X
        <5>1. Cardinality(New) \in Nat  BY <1>1, <1>2, Entered
        <5> QED  BY <4>2, <5>1, <1>3, <3>3
      <4> QED  BY <4>1, <4>2
    <3> QED  BY <2>2, <3>2, <3>3, <3>4, <1>4
  <2>4. Made(r, f.machine)'  BY <2>1, <1>3, MadeKept
  <2> QED  BY <2>1, <2>2, <2>3, <2>4 DEF Position, Base, IsMachine
<1> QED  BY <1>5, <1>6, <1>7, <1>8 DEF FrameOK, IsWorld, SELF, Root

LEMMA LeftKept ==
  ASSUME ExecTypeOK, CallsAgree, NEW q \in World, NEW X, NEW New,
         Enters(q, X, New), MayEnter(q, X, New),
         NEW r \in World, NEW Y, LeftAt(r, Y)
  PROVE  LeftAt(r, Y)'
<1>1. q \in X.members /\ X.members \subseteq World  BY MadeHow DEF MayEnter, Comms
<1>2. Listed(q)  BY DEF CallsAgree
<1>3. /\ \A s \in World : called[s] \subseteq called'[s]
      /\ \A s \in World : \A Z : (s # q \/ Z # X) =>
           Calls(s, Z)' = Calls(s, Z) /\ Number(s, Z)' = Number(s, Z)
      /\ Calls(q, X)' = Calls(q, X) \cup New
  BY <1>1, <1>2, Entered
<1>4. \A s \in World : \A Z : Calls(s, Z) \subseteq Calls(s, Z)'
  BY <1>3
<1>5. PICK c \in Calls(r, Y) :
        /\ c.i = Number(r, Y)
        /\ \/ c.op = "sync"
           \/ \E s \in World : \E d \in Calls(s, Y) : d.i = c.i /\ d.op = "symbol" /\ d.val = -1
  BY DEF LeftAt
<1>6. Number(r, Y)' = Number(r, Y)
  <2>1. SUFFICES ASSUME r = q, Y = X, New # {} PROVE FALSE
    <3>1. CASE r # q \/ Y # X  BY <3>1, <1>3
    <3>2. CASE r = q /\ Y = X /\ New = {}
      <4>1. Calls(q, X)' = Calls(q, X)  BY <1>3, <3>2
      <4> QED  BY <3>2, <4>1 DEF Number
    <3> QED  BY <2>1, <3>1, <3>2
  <2>2. ~ IsWorld(X)
    <3>1. SUFFICES ASSUME IsWorld(X) PROVE FALSE  OBVIOUS
    <3>2. \A s \in World : \A d \in Calls(s, X) : d.op \in {"exec", "split"}
      <4>1. SUFFICES ASSUME NEW s \in World, NEW d \in Calls(s, X) PROVE d.op \in {"exec", "split"}
        OBVIOUS
      <4>2. d \in called[s] /\ d.comm = X  BY DEF Calls
      <4> QED  BY <4>2, <3>1 DEF CallsAgree, CallOK, WorldCall
    <3> QED  BY <2>1, <3>2, <1>5
  <2>3. MachineEntry(q, X, New)  BY <2>2 DEF MayEnter
  <2>4. c.op # "sync"  BY <2>1, <2>3, <1>5 DEF MachineEntry
  <2>5. PICK s \in World : \E d \in Calls(s, X) : d.i = c.i /\ d.op = "symbol" /\ d.val = -1
    BY <2>1, <2>4, <1>5
  <2>6. PICK d \in Calls(s, X) : d.i = c.i /\ d.op = "symbol" /\ d.val = -1
    BY <2>5
  <2>7. s \in X.members  BY DEF CallsAgree, Listed, Calls
  <2> QED  BY <2>1, <2>3, <2>6, <2>7, <1>5 DEF MachineEntry
<1> QED
  <2>1. c \in Calls(r, Y)' /\ c.i = Number(r, Y)'  BY <1>4, <1>5, <1>6
  <2>2. \/ c.op = "sync"
        \/ \E s \in World : \E d \in Calls(s, Y)' : d.i = c.i /\ d.op = "symbol" /\ d.val = -1
    BY <1>4, <1>5
  <2> QED  BY <2>1, <2>2 DEF LeftAt

LEMMA CompleteKept ==
  ASSUME ExecTypeOK, CallsAgree, NEW q \in World, NEW X, NEW New,
         Enters(q, X, New), MayEnter(q, X, New),
         NEW r \in World, NEW Y, Y.members \subseteq World, Complete(r, Y),
         r = q => New = {} \/ Y # X
  PROVE  Complete(r, Y)'
<1>1. q \in X.members  BY MadeHow DEF MayEnter
<1>2. Listed(q)  BY DEF CallsAgree
<1>3. /\ \A s \in World : \A Z : (s # q \/ Z # X) =>
           Calls(s, Z)' = Calls(s, Z) /\ Number(s, Z)' = Number(s, Z)
      /\ Calls(q, X)' = Calls(q, X) \cup New
      /\ Number(q, X)' = Number(q, X) + Cardinality(New)
      /\ Cardinality(New) \in Nat
      /\ \A s \in World : \A Z : Number(s, Z) <= Number(s, Z)'
  BY <1>1, <1>2, Entered
<1>4. Number(r, Y)' = Number(r, Y)
  <2>1. CASE r # q \/ Y # X  BY <2>1, <1>3
  <2>2. CASE r = q /\ Y = X /\ New = {}
    <3>1. Calls(q, X)' = Calls(q, X)  BY <1>3, <2>2
    <3> QED  BY <2>2, <3>1 DEF Number
  <2> QED  BY <2>1, <2>2
<1>5. SUFFICES ASSUME NEW s \in Y.members PROVE Number(s, Y)' >= Number(r, Y)'
  BY DEF Complete
<1>6. Number(s, Y) >= Number(r, Y)  BY DEF Complete
<1>7. Number(s, Y) \in Nat /\ Number(r, Y) \in Nat /\ Number(s, Y) <= Number(s, Y)'
  BY <1>3, NumberType
<1>8. Number(s, Y)' \in Nat
  <2>1. CASE s # q \/ Y # X  BY <2>1, <1>3, <1>7
  <2>2. CASE s = q /\ Y = X  BY <2>2, <1>3, <1>7
  <2> QED  BY <2>1, <2>2
<1> QED  BY <1>4, <1>6, <1>7, <1>8

LEMMA FrameType ==
  ASSUME ExecTypeOK, NEW q \in World, NEW k \in 1 .. Len(stack[q])
  PROVE  /\ stack[q][k] \in Frames /\ stack[q][k].world \in Comms
         /\ stack[q][k].machine \in Comms /\ stack[q][k].machine.members \subseteq World
         /\ stack[q][k].world.members \subseteq World
         /\ Len(stack[q][k].world.id) \in Nat
<1>1. stack[q] \in Seq(Frames)  BY DEF ExecTypeOK
<1>2. stack[q][k] \in Frames  BY <1>1
<1>3. stack[q][k].world \in Comms /\ stack[q][k].machine \in Comms  BY <1>2 DEF Frames
<1>4. stack[q][k].machine.members \subseteq World /\ stack[q][k].world.members \subseteq World
      /\ stack[q][k].world.id \in Seq(Marks)
  BY <1>3 DEF Comms
<1>5. Len(stack[q][k].world.id) \in Nat
  BY <1>4, LenProperties
<1> QED  BY <1>2, <1>3, <1>4, <1>5

\* Another process is not affected.
LEMMA Others ==
  ASSUME InStep, NEW q \in World, NEW X, NEW New,
         Enters(q, X, New), MayEnter(q, X, New),
         NEW r \in World, r # q \/ New = {}, stack'[r] = stack[r], done'[r] = done[r]
  PROVE  CallerOK(r)'
<1>1. ExecTypeOK /\ CallsAgree /\ CallerOK(r)  BY DEF InStep
<1>2. q \in X.members  BY <1>1, MadeHow DEF MayEnter
<1>3. called'[r] = called[r]
      /\ \A Y : Number(r, Y)' = Number(r, Y)
  <2>1. /\ r # q => called'[r] = called[r]
        /\ called'[q] = called[q] \cup New
    BY <1>1, <1>2, Entered DEF CallsAgree
  <2>2. CASE r # q
    <3>1. called'[r] = called[r]  BY ONLY <2>1, <2>2
    <3> QED  BY ONLY <3>1 DEF Number, Calls
  <2>3. CASE r = q /\ New = {}
    <3>1. called'[r] = called[r]  BY ONLY <2>1, <2>3
    <3> QED  BY ONLY <3>1 DEF Number, Calls
  <2> QED  BY ONLY <2>2, <2>3, r # q \/ New = {}
<1>4. StackShape(r)'
  <2>1. StackShape(r)  BY <1>1 DEF CallerOK, StackOK
  <2>2. \A Y : Y.members \subseteq World /\ Complete(r, Y) => Complete(r, Y)'
    BY <1>1, CompleteKept
  <2>3. \A k \in 1 .. Len(stack[r]) : stack[r][k].machine.members \subseteq World
    BY <1>1, FrameType
  <2>4. ASSUME NEW k \in 1 .. Len(stack[r]) - 1, stack[r][k].at = "clone"
        PROVE  Complete(r, stack[r][k].machine)'
    <3>1. k \in 1 .. Len(stack[r])
      <4>1. Len(stack[r]) \in Nat  BY <1>1 DEF ExecTypeOK
      <4> QED  BY <4>1
    <3>2. PICK Y : Y = stack[r][k].machine  OBVIOUS
    <3>3. Complete(r, Y) /\ Y.members \subseteq World
      BY <2>1, <2>3, <2>4, <3>1, <3>2 DEF StackShape
    <3>4. Complete(r, Y)'  BY <2>2, <3>3
    <3>5. stack'[r][k].machine = Y  BY <3>2
    <3> QED  BY <3>4, <3>5
  <2> QED  BY <2>1, <2>4 DEF StackShape, SELF, Root
<1>5. \A k \in 1 .. Len(stack'[r]) : FrameOK(r, stack[r][k])'
  <2>1. SUFFICES ASSUME NEW k \in 1 .. Len(stack[r]) PROVE FrameOK(r, stack[r][k])'
    OBVIOUS
  <2>2. PICK f : f = stack[r][k]  OBVIOUS
  <2>3. FrameOK(r, f)  BY <1>1, <2>2 DEF CallerOK, StackOK
  <2>4. f.machine.members \subseteq World  BY <1>1, <2>2, FrameType
  <2>5. FrameOK(r, f)'  BY <1>1, <2>3, <2>4, FrameKept
  <2>6. stack'[r][k] = f  BY <2>2
  <2> QED  BY <2>5, <2>6
<1>6. Fresh(r)'
  <2>1. Fresh(r)  BY <1>1 DEF CallerOK
  <2>2. Alive(r)' = Alive(r) /\ Top(r)' = Top(r)  BY DEF Alive, Top
  <2> QED  BY <2>1, <2>2, <1>3 DEF Fresh
<1>7. Left(r)'
  <2>1. \A Y : LeftAt(r, Y) => LeftAt(r, Y)'  BY <1>1, LeftKept
  <2> QED  BY <2>1, <1>1 DEF CallerOK, Left, SELF
<1> QED  BY <1>4, <1>5, <1>6, <1>7 DEF CallerOK, StackOK

\* A frame below the last stays as it is, if the calls are not on its machine and
\* those for its process and slaves come in a pair.
SetApart(f, X, New) == New = {} \/ (f.machine # X /\ (f.world = X => Cardinality(New) = 2))

LEMMA BelowKept ==
  ASSUME InStep, NEW q \in World, NEW X, NEW New,
         Enters(q, X, New), MayEnter(q, X, New),
         NEW k \in 1 .. Len(stack[q]), NEW f, f = stack[q][k], SetApart(f, X, New)
  PROVE  FrameOK(q, f)' /\ (Complete(q, f.machine) => Complete(q, f.machine)')
<1>1. ExecTypeOK /\ CallsAgree /\ FrameOK(q, f) /\ f.machine.members \subseteq World
  BY FrameType DEF InStep, CallerOK, StackOK
<1>2. FrameOK(q, f)'  BY <1>1, FrameKept DEF SetApart
<1>3. Complete(q, f.machine) => Complete(q, f.machine)'
  <2>1. New = {} \/ f.machine # X  BY DEF SetApart
  <2>2. PICK Y : Y = f.machine  OBVIOUS
  <2>3. Complete(q, Y) => Complete(q, Y)'  BY <1>1, <2>1, <2>2, CompleteKept
  <2> QED  BY <2>2, <2>3
<1> QED  BY <1>2, <1>3

\* What is on a machine or is for all its slaves at once is apart from the frames
\* below.
LEMMA BelowApart ==
  ASSUME InStep, NEW q \in World, stack[q] # <<>>, NEW n, n = Len(stack[q]),
         NEW X, NEW New,
         \/ New = {}
         \/ X = stack[q][n].machine /\ X # SELF
         \/ X = stack[q][n].world /\ Cardinality(New) = 2,
         NEW k \in 1 .. (n - 1)
  PROVE  SetApart(stack[q][k], X, New)
<1>1. n \in Nat \ {0} /\ stack[q] \in Seq(Frames)
  BY DEF InStep, ExecTypeOK
<1>2. k \in 1 .. n /\ n \in 1 .. n /\ k < n  BY <1>1
<1>3. FrameOK(q, stack[q][k]) /\ FrameOK(q, stack[q][n]) /\ StackShape(q)
  BY <1>2 DEF InStep, CallerOK, StackOK
<1>4. IsWorld(stack[q][k].world) /\ IsWorld(stack[q][n].world)
      /\ (stack[q][k].machine # SELF => ~ IsWorld(stack[q][k].machine))
      /\ (stack[q][n].machine # SELF => ~ IsWorld(stack[q][n].machine))
  BY <1>3 DEF FrameOK
<1>5. stack[q][k].machine # SELF => stack[q][k].machine # stack[q][n].machine
  BY <1>2, <1>3 DEF StackShape
<1>6. stack[q][n].world # SELF
  <2>1. q \in stack[q][n].world.members
    BY <1>3, MadeHow DEF InStep, FrameOK
  <2> QED  BY <2>1 DEF SELF, Comm
<1> QED  BY <1>4, <1>5, <1>6 DEF SetApart

\* The frames above the m-th end, if there are any, and the m-th one changes.
LEMMA Cut ==
  ASSUME InStep, NEW q \in World, NEW X, NEW New,
         Enters(q, X, New), MayEnter(q, X, New),
         NEW m \in Nat, m <= Len(stack[q]),
         NEW t \in Seq(Frames), stack' = [stack EXCEPT ![q] = t], Len(t) = m,
         \A k \in 1 .. (m - 1) : t[k] = stack[q][k],
         m > 0 => /\ t[m].world = stack[q][m].world /\ t[m].machine = stack[q][m].machine
                  /\ FrameOK(q, t[m])',
         m > 1 /\ t[m].machine = SELF =>
           t[m].at # "user" /\ (t[m].at = "split" => q # Root(t[m].world)),
         \A k \in 1 .. (m - 1) : SetApart(stack[q][k], X, New)
  PROVE  /\ StackOK(q)' /\ stack' \in [World -> Seq(Frames)] /\ stack'[q] = t
         /\ \A r \in World : r # q => stack'[r] = stack[r]
<1>1. /\ Len(stack[q]) \in Nat /\ stack[q] \in Seq(Frames) /\ stack \in [World -> Seq(Frames)]
      /\ \A k \in 1 .. m : k \in 1 .. Len(stack[q])
  BY DEF InStep, ExecTypeOK
<1>4. /\ stack'[q] = t /\ stack' \in [World -> Seq(Frames)]
      /\ \A r \in World : r # q => stack'[r] = stack[r]
  BY <1>1
<1>5. StackShape(q)  BY DEF InStep, CallerOK, StackOK
<1>6. ASSUME NEW k \in 1 .. m PROVE FrameOK(q, t[k])'
  <2>1. CASE k = m  BY <2>1
  <2>2. CASE k # m
    <3>1. k \in 1 .. (m - 1)  BY <2>2
    <3>2. t[k] = stack[q][k] /\ k \in 1 .. Len(stack[q])  BY <3>1, <1>1
    <3> QED  BY <3>1, <3>2, BelowKept
  <2> QED  BY <2>1, <2>2
<1>7. StackShape(q)'
  <2>1. t # <<>> => t[1].machine = SELF
    <3>1. CASE m = 0  BY <3>1
    <3>2. CASE m > 0
      <4>1. stack[q] # <<>>  BY <3>2, <1>1
      <4>2. stack[q][1].machine = SELF  BY <4>1, <1>5 DEF StackShape
      <4>3. CASE m = 1  BY <4>2, <4>3
      <4>4. CASE m # 1
        <5>1. 1 \in 1 .. (m - 1)  BY <3>2, <4>4
        <5> QED  BY <4>2, <5>1
      <4> QED  BY <4>3, <4>4
    <3> QED  BY <3>1, <3>2
  <2>2. ASSUME NEW k \in 2 .. m, t[k].machine = SELF
        PROVE  /\ t[k].at # "user" /\ (t[k].at = "split" => q # Root(t[k].world))
               /\ q # Root(t[k - 1].world)
    <3>1. k - 1 \in 1 .. (m - 1) /\ t[k - 1] = stack[q][k - 1] /\ k \in 2 .. Len(stack[q])
      <4>1. k - 1 \in 1 .. (m - 1) /\ k \in 2 .. Len(stack[q])  BY <1>1
      <4> QED  BY <4>1
    <3>2. t[k].machine = stack[q][k].machine
      <4>1. CASE k = m  BY <4>1
      <4>2. CASE k # m
        <5>1. k \in 1 .. (m - 1)  BY <4>2
        <5> QED  BY <5>1
      <4> QED  BY <4>1, <4>2
    <3>3. q # Root(t[k - 1].world)  BY <2>2, <3>1, <3>2, <1>5 DEF StackShape
    <3>4. t[k].at # "user" /\ (t[k].at = "split" => q # Root(t[k].world))
      <4>1. CASE k = m  BY <4>1, <2>2
      <4>2. CASE k # m
        <5>1. k \in 1 .. (m - 1)  BY <4>2
        <5>2. t[k] = stack[q][k]  BY <5>1
        <5> QED  BY <5>2, <2>2, <3>1, <1>5 DEF StackShape
      <4> QED  BY <4>1, <4>2
    <3> QED  BY <3>3, <3>4
  <2>3. ASSUME NEW k \in 1 .. (m - 1)
        PROVE  /\ stack'[q][k].at \in {"split", "clone"}
               /\ stack'[q][k].at = "clone" => Complete(q, stack[q][k].machine)'
    <3>1. t[k] = stack[q][k] /\ k \in 1 .. Len(stack[q]) /\ k \in 1 .. (Len(stack[q]) - 1)
      BY <1>1
    <3>2. t[k].at \in {"split", "clone"} /\ (t[k].at = "clone" => Complete(q, t[k].machine))
      BY <3>1, <1>5 DEF StackShape
    <3>3. PICK Y : Y = t[k].machine  OBVIOUS
    <3>4. Complete(q, Y) => Complete(q, Y)'  BY <3>1, <3>3, BelowKept
    <3>5. stack'[q][k].machine = Y /\ stack'[q][k].at = t[k].at  BY <3>3, <1>4
    <3> QED  BY <3>2, <3>3, <3>4, <3>5
  <2>4. ASSUME NEW j \in 1 .. m, NEW k \in 1 .. m, j < k
        PROVE  /\ t[j].machine # SELF => t[j].machine # t[k].machine
               /\ \/ t[j].world = t[k].world /\ t[j].machine # SELF
                  \/ Len(t[j].world.id) < Len(t[k].world.id)
    <3>1. \A l \in 1 .. m : t[l].machine = stack[q][l].machine /\ t[l].world = stack[q][l].world
      <4>1. SUFFICES ASSUME NEW l \in 1 .. m
                     PROVE  t[l].machine = stack[q][l].machine /\ t[l].world = stack[q][l].world
        OBVIOUS
      <4>2. CASE l = m  BY <4>2
      <4>3. CASE l # m
        <5>1. l \in 1 .. (m - 1)  BY <4>3
        <5> QED  BY <5>1
      <4> QED  BY <4>2, <4>3
    <3>2. /\ stack[q][j].machine # SELF => stack[q][j].machine # stack[q][k].machine
          /\ \/ stack[q][j].world = stack[q][k].world /\ stack[q][j].machine # SELF
             \/ Len(stack[q][j].world.id) < Len(stack[q][k].world.id)
      BY <2>4, <1>1, <1>5 DEF StackShape
    <3> QED  BY <3>1, <3>2
  <2>5. Len(stack'[q]) = m /\ (stack'[q] # <<>> => stack'[q][1].machine = SELF)
    BY <1>4, <2>1
  <2>6. \A k \in 2 .. m : stack'[q][k].machine = SELF =>
          /\ stack'[q][k].at # "user" /\ (stack'[q][k].at = "split" => q # Root(stack'[q][k].world))
          /\ q # Root(stack'[q][k - 1].world)
    BY <1>4, <2>2
  <2>7. \A j, k \in 1 .. m : j < k =>
          /\ stack'[q][j].machine # SELF => stack'[q][j].machine # stack'[q][k].machine
          /\ \/ stack'[q][j].world = stack'[q][k].world /\ stack'[q][j].machine # SELF
             \/ Len(stack'[q][j].world.id) < Len(stack'[q][k].world.id)
    BY <1>4, <2>4
  <2> QED  BY <2>3, <2>5, <2>6, <2>7 DEF StackShape, SELF, Root
<1>8. \A k \in 1 .. Len(stack'[q]) : FrameOK(q, stack[q][k])'
  <2>1. SUFFICES ASSUME NEW k \in 1 .. m PROVE FrameOK(q, stack[q][k])'
    BY <1>4
  <2>2. PICK f : f = t[k]  OBVIOUS
  <2>3. FrameOK(q, f)' /\ stack'[q][k] = f  BY <2>2, <1>4, <1>6
  <2> QED  BY <2>3
<1> QED  BY <1>4, <1>7, <1>8 DEF StackOK

LEMMA Push ==
  ASSUME InStep, NEW q \in World, NEW X, NEW New,
         Enters(q, X, New), MayEnter(q, X, New),
         stack[q] # <<>>, NEW n, n = Len(stack[q]),
         NEW g \in Frames, stack' = [stack EXCEPT ![q] = Append(@, g)],
         FrameOK(q, g)',
         stack[q][n].at \in {"split", "clone"},
         stack[q][n].at = "clone" => Complete(q, stack[q][n].machine),
         g.machine = SELF => g.at = "slave" /\ q # Root(stack[q][n].world),
         \A k \in 1 .. n : SetApart(stack[q][k], X, New),
         \A k \in 1 .. n : stack[q][k].machine # SELF => stack[q][k].machine # g.machine,
         \/ stack[q][n].world = g.world /\ stack[q][n].machine # SELF
         \/ Len(stack[q][n].world.id) < Len(g.world.id),
         Len(g.world.id) \in Nat
  PROVE  /\ StackOK(q)' /\ stack' \in [World -> Seq(Frames)]
         /\ Alive(q)' /\ Top(q)' = g
         /\ \A r \in World : r # q => stack'[r] = stack[r]
<1>1. n \in Nat \ {0} /\ stack[q] \in Seq(Frames) /\ stack \in [World -> Seq(Frames)]
  BY DEF InStep, ExecTypeOK
<1>2. PICK t \in Seq(Frames) : t = Append(stack[q], g)
  BY <1>1, AppendProperties
<1>3. /\ Len(t) = n + 1 /\ t[n + 1] = g /\ t # <<>>
      /\ \A k \in 1 .. n : t[k] = stack[q][k]
  BY <1>1, <1>2, AppendProperties
<1>4. /\ stack'[q] = t /\ stack' \in [World -> Seq(Frames)]
      /\ \A r \in World : r # q => stack'[r] = stack[r]
  BY <1>1, <1>2
<1>5. StackShape(q)  BY DEF InStep, CallerOK, StackOK
<1>6. ASSUME NEW k \in 1 .. (n + 1) PROVE FrameOK(q, t[k])'
  <2>1. CASE k = n + 1  BY <2>1, <1>3
  <2>2. CASE k # n + 1
    <3>1. k \in 1 .. n /\ t[k] = stack[q][k]  BY <2>2, <1>1, <1>3
    <3> QED  BY <3>1, BelowKept
  <2> QED  BY <2>1, <2>2
<1>7. StackShape(q)'
  <2>1. t[1].machine = SELF
    <3>1. 1 \in 1 .. n  BY <1>1
    <3> QED  BY <3>1, <1>3, <1>5 DEF StackShape
  <2>2. ASSUME NEW k \in 2 .. (n + 1), t[k].machine = SELF
        PROVE  /\ t[k].at # "user" /\ (t[k].at = "split" => q # Root(t[k].world))
               /\ q # Root(t[k - 1].world)
    <3>1. k - 1 \in 1 .. n /\ t[k - 1] = stack[q][k - 1]  BY <1>1, <1>3, SMTT(20)
    <3>2. CASE k = n + 1
      <4>1. g.at = "slave" /\ q # Root(stack[q][n].world) /\ k - 1 = n  BY <2>2, <3>2, <1>1, <1>3
      <4> QED  BY <4>1, <3>1, <3>2, <1>3
    <3>3. CASE k # n + 1
      <4>1. k \in 2 .. n /\ k \in 1 .. n  BY <3>3, <1>1
      <4>2. t[k] = stack[q][k]  BY <4>1, <1>3
      <4> QED  BY <4>1, <4>2, <3>1, <2>2, <1>5 DEF StackShape
    <3> QED  BY <3>2, <3>3
  <2>3. ASSUME NEW k \in 1 .. n
        PROVE  /\ stack'[q][k].at \in {"split", "clone"}
               /\ stack'[q][k].at = "clone" => Complete(q, stack[q][k].machine)'
    <3>1. t[k] = stack[q][k]  BY <1>3
    <3>2. t[k].at \in {"split", "clone"} /\ (t[k].at = "clone" => Complete(q, t[k].machine))
      <4>1. CASE k = n  BY <4>1, <3>1
      <4>2. CASE k # n
        <5>1. k \in 1 .. (n - 1)  BY <4>2, <1>1
        <5> QED  BY <5>1, <3>1, <1>5 DEF StackShape
      <4> QED  BY <4>1, <4>2
    <3>3. PICK Y : Y = t[k].machine  OBVIOUS
    <3>4. Complete(q, Y) => Complete(q, Y)'  BY <3>1, <3>3, BelowKept
    <3>5. stack'[q][k].machine = Y /\ stack'[q][k].at = t[k].at  BY <3>3, <1>4
    <3> QED  BY <3>2, <3>3, <3>4, <3>5
  <2>4. ASSUME NEW j \in 1 .. (n + 1), NEW k \in 1 .. (n + 1), j < k
        PROVE  /\ t[j].machine # SELF => t[j].machine # t[k].machine
               /\ \/ t[j].world = t[k].world /\ t[j].machine # SELF
                  \/ Len(t[j].world.id) < Len(t[k].world.id)
    <3>1. j \in 1 .. n /\ t[j] = stack[q][j]
      <4>1. j \in 1 .. n  BY <2>4, <1>1
      <4> QED  BY <4>1, <1>3
    <3>2. CASE k # n + 1
      <4>1. k \in 1 .. n  BY <3>2, <1>1
      <4>2. t[k] = stack[q][k]  BY <4>1, <1>3
      <4> QED  BY <2>4, <3>1, <4>1, <4>2, <1>5 DEF StackShape
    <3>3. CASE k = n + 1
      <4>1. t[k] = g  BY <3>3, <1>3
      <4>2. CASE j = n  BY <4>1, <4>2, <3>1
      <4>3. CASE j # n
        <5>1. j < n /\ n \in 1 .. n  BY <4>3, <3>1, <1>1
        <5>2. \/ stack[q][j].world = stack[q][n].world /\ stack[q][j].machine # SELF
              \/ Len(stack[q][j].world.id) < Len(stack[q][n].world.id)
          BY <5>1, <3>1, <1>5 DEF StackShape
        <5>3. Len(stack[q][j].world.id) \in Nat /\ Len(stack[q][n].world.id) \in Nat
          BY <5>1, <3>1, FrameType DEF InStep
        <5>4. PICK a \in Nat : a = Len(stack[q][j].world.id)  BY <5>3
        <5>5. PICK b \in Nat : b = Len(stack[q][n].world.id)  BY <5>3
        <5>6. PICK c \in Nat : c = Len(g.world.id)  OBVIOUS
        <5>7. b <= c
          <6>1. CASE stack[q][n].world = g.world  BY <6>1, <5>5, <5>6
          <6>2. CASE Len(stack[q][n].world.id) < Len(g.world.id)
            <7>1. b < c  BY ONLY <6>2, <5>5, <5>6
            <7> QED  BY <7>1
          <6> QED  BY <6>1, <6>2
        <5>8. \/ stack[q][j].world = g.world /\ stack[q][j].machine # SELF
              \/ Len(stack[q][j].world.id) < Len(g.world.id)
          <6>1. CASE Len(stack[q][j].world.id) < Len(stack[q][n].world.id)
            <7>1. a < b  BY <6>1, <5>4, <5>5
            <7>2. a < c  BY <7>1, <5>7
            <7> QED  BY <7>2, <5>4, <5>6
          <6>2. CASE stack[q][j].world = stack[q][n].world /\ stack[q][j].machine # SELF
            BY <6>2
          <6> QED  BY <5>2, <6>1, <6>2
        <5> QED  BY <5>8, <4>1, <3>1
      <4> QED  BY <4>2, <4>3
    <3> QED  BY <3>2, <3>3
  <2>5. Len(stack'[q]) = n + 1 /\ stack'[q] # <<>> /\ stack'[q][1].machine = SELF
    BY <1>3, <1>4, <2>1
  <2>6. \A k \in 2 .. (n + 1) : stack'[q][k].machine = SELF =>
          /\ stack'[q][k].at # "user" /\ (stack'[q][k].at = "split" => q # Root(stack'[q][k].world))
          /\ q # Root(stack'[q][k - 1].world)
    BY <1>4, <2>2
  <2>7. \A j, k \in 1 .. (n + 1) : j < k =>
          /\ stack'[q][j].machine # SELF => stack'[q][j].machine # stack'[q][k].machine
          /\ \/ stack'[q][j].world = stack'[q][k].world /\ stack'[q][j].machine # SELF
             \/ Len(stack'[q][j].world.id) < Len(stack'[q][k].world.id)
    BY ONLY <1>4, <2>4
  <2>8. \A k \in 1 .. Len(stack'[q]) - 1 : k \in 1 .. n
    BY <2>5, <1>1
  <2> QED  BY <2>3, <2>5, <2>6, <2>7, <2>8 DEF StackShape, SELF, Root
<1>8. \A k \in 1 .. Len(stack'[q]) : FrameOK(q, stack[q][k])'
  <2>1. SUFFICES ASSUME NEW k \in 1 .. (n + 1) PROVE FrameOK(q, stack[q][k])'
    BY <1>3, <1>4
  <2>2. PICK f : f = t[k]  OBVIOUS
  <2>3. FrameOK(q, f)' /\ stack'[q][k] = f  BY <2>2, <1>4, <1>6
  <2> QED  BY <2>3
<1>9. Alive(q)' /\ Top(q)' = g  BY <1>3, <1>4 DEF Alive, Top
<1> QED  BY <1>4, <1>7, <1>8, <1>9 DEF StackOK

----------------------------------------------------------------------------
(* The parts of a step *)

LEMMA Unmade ==
  ASSUME ExecTypeOK, CallsAgree, NEW q \in World, NEW X, Made(q, X),
         NEW e, e.i \in Nat, e.i > Number(q, X),
         NEW Y, NEW k, k \in Int, Y.id = Append(X.id, <<e.i, k>>)
  PROVE  ~ Made(q, Y)
<1>1. SUFFICES ASSUME Made(q, Y) PROVE FALSE  OBVIOUS
<1>2. X \in Comms  BY MadeHow
<1>3. X.id \in Seq(Marks)  BY <1>2 DEF Comms
<1>4. PICK a \in Marks : a = <<e.i, k>>
  <2>1. <<e.i, k>> \in Marks  BY DEF Marks
  <2> QED  BY <2>1
<1>5. PICK s \in Seq(Marks) : s = X.id  BY <1>3
<1>6. Y # WORLD
  <2>1. Append(s, a) # <<>>  BY AppendProperties
  <2> QED  BY <2>1, <1>4, <1>5 DEF WORLD, Comm
<1>7. PICK f \in called[q], l \in Int : MadeBy(q, Y, f, l)  BY <1>1, <1>6, MadeHow
<1>8. Y.id = Append(f.comm.id, <<f.i, l>>)  BY <1>7 DEF MadeBy
<1>9. PICK b \in Marks : b = <<f.i, l>>
  <2>1. f.i \in Int  BY CallType
  <2>2. <<f.i, l>> \in Marks  BY <2>1 DEF Marks
  <2> QED  BY <2>2
<1>10. PICK t \in Seq(Marks) : t = f.comm.id  BY CallType
<1>11. Append(s, a) = Append(t, b)  BY <1>4, <1>5, <1>8, <1>9, <1>10
<1>12. s = t /\ a = b  BY ONLY <1>11, AppendInjective
<1>13. f.comm.id = X.id /\ f.i = e.i  BY <1>4, <1>5, <1>9, <1>10, <1>12
<1>14. Made(q, f.comm) /\ f.i \in 1 .. Number(q, f.comm)  BY DEF CallsAgree, CallOK, Listed
<1>15. f.comm = X  BY <1>13, <1>14, SameComm
<1> QED
  <2>1. Number(q, X) \in Nat  BY NumberType
  <2> QED  BY <2>1, <1>13, <1>14, <1>15

\* What the call that a process is making now will make is new to it.
LEMMA FreshStep ==
  ASSUME ExecTypeOK, CallsAgree, NEW q \in World, NEW X, NEW New,
         Enters(q, X, New), MayEnter(q, X, New), New # {},
         NEW g, Top(q)' = g,
         g.at = "split" => g.world = X /\ \A e \in New : e.val \in Nat \ {0},
         g.at = "clone" => g.machine = X
  PROVE  Fresh(q)'
<1> DEFINE n == Number(q, X)
           m == Cardinality(New)
<1>1. X \in Comms /\ X.members \subseteq World /\ q \in X.members
  BY MadeHow DEF MayEnter, Comms
<1>2. Listed(q)  BY DEF CallsAgree
<1>3. /\ called'[q] = called[q] \cup New
      /\ Number(q, X)' = n + m /\ m \in Nat
  BY <1>1, <1>2, Entered
<1>4. n \in Nat  BY NumberType
<1>5. m # 0  BY FS_EmptySet DEF Enters
<1>6. \A c \in New : c \in CallRecords /\ c.comm = X  BY DEF Enters
<1>7. \A c \in called'[q] : Made(q, c.comm)
  BY <1>3, <1>6 DEF MayEnter, CallsAgree, CallOK
<1>8. ASSUME NEW e \in called'[q], e.comm = X, e.i = Number(q, X)'
      PROVE  e \in New /\ e.i \in Nat /\ e.i > n
  <2>1. e.i = n + m  BY <1>3, <1>8
  <2>2. ASSUME e \in called[q] PROVE FALSE
    <3>1. e.i \in 1 .. n  BY <2>2, <1>2, <1>8 DEF Listed
    <3> HIDE DEF n, m
    <3> QED  BY <3>1, <2>1, <1>3, <1>4, <1>5
  <2> HIDE DEF n, m
  <2> QED  BY <2>1, <2>2, <1>3, <1>4, <1>5
<1>9. SUFFICES ASSUME NEW e \in called'[q], NEW c \in called'[q]
               PROVE  /\ g.at = "split" /\ e.comm = g.world /\ e.i = Number(q, e.comm)' =>
                           c.comm # SubOf(q, e) /\ c.comm # MachineOf(e)
                      /\ g.at = "clone" /\ e.comm = g.machine /\ e.i = Number(q, e.comm)' =>
                           c.comm # CloneOf(e)
  BY DEF Fresh
<1>10. ASSUME g.at = "split", e.comm = g.world, e.i = Number(q, e.comm)'
       PROVE  c.comm # SubOf(q, e) /\ c.comm # MachineOf(e)
  <2>1. e.comm = X /\ e \in New /\ e.i \in Nat /\ e.i > Number(q, X)
    BY <1>8, <1>10
  <2>2. e.val \in Nat \ {0}  BY <1>10, <2>1
  <2>3. Subgroup(q, X, e.val) \in Nat  BY <1>1, <2>2, SubgroupType
  <2>4. SubOf(q, e).id = Append(X.id, <<e.i, Subgroup(q, X, e.val)>>)
        /\ MachineOf(e).id = Append(X.id, <<e.i, -1>>)
    BY <2>1 DEF SubOf, MachineOf, Comm
  <2>5. ~ Made(q, SubOf(q, e)) /\ ~ Made(q, MachineOf(e))
    <3>1. Made(q, X)  BY DEF MayEnter
    <3>2. PICK k : k = Subgroup(q, X, e.val)  OBVIOUS
    <3>3. ~ Made(q, SubOf(q, e))  BY <2>1, <2>3, <2>4, <3>1, <3>2, Unmade
    <3>4. PICK l : l = -1  OBVIOUS
    <3>5. ~ Made(q, MachineOf(e))  BY <2>1, <2>4, <3>1, <3>4, Unmade
    <3> QED  BY <3>3, <3>5
  <2> QED  BY <2>5, <1>7
<1>11. ASSUME g.at = "clone", e.comm = g.machine, e.i = Number(q, e.comm)'
       PROVE  c.comm # CloneOf(e)
  <2>1. e.comm = X /\ e.i \in Nat /\ e.i > Number(q, X)
    BY <1>8, <1>11
  <2>2. CloneOf(e).id = Append(X.id, <<e.i, -2>>)
    BY <2>1 DEF CloneOf, Comm
  <2>3. Made(q, X)  BY DEF MayEnter
  <2>4. PICK l : l = -2  OBVIOUS
  <2>5. ~ Made(q, CloneOf(e))  BY <2>1, <2>2, <2>3, <2>4, Unmade
  <2> QED  BY <2>5, <1>7
<1> QED  BY <1>10, <1>11

\* A step of one process, put together.
LEMMA Conclude ==
  ASSUME InStep, NEW q \in World, NEW X, NEW New,
         Enters(q, X, New), MayEnter(q, X, New),
         stack' \in [World -> Seq(Frames)], StackOK(q)', Fresh(q)',
         \A r \in World : r # q => stack'[r] = stack[r],
         done' \in [World -> SUBSET Comms],
         \A r \in World : r # q => done'[r] = done[r],
         \A Y \in done'[q] : Y \in done[q] \/ Y = SELF \/ LeftAt(q, Y)
  PROVE  InStep'
<1>1. ExecTypeOK /\ CallsAgree /\ \A r \in World : CallerOK(r)  BY DEF InStep
<1>2. q \in X.members  BY <1>1, MadeHow DEF MayEnter
<1>3. called' \in [World -> SUBSET CallRecords] /\ \A r \in World : IsFiniteSet(called'[r])
  BY <1>1, <1>2, Entered DEF CallsAgree
<1>4. ExecTypeOK'  BY <1>3 DEF ExecTypeOK
<1>5. CallsAgree'  BY <1>1, CallsStep
<1>6. \A r \in World : r # q => CallerOK(r)'  BY Others
<1>7. Left(q)'
  <2>1. \A Y : LeftAt(q, Y) => LeftAt(q, Y)'  BY <1>1, LeftKept
  <2> QED  BY <1>1, <2>1 DEF CallerOK, Left, SELF
<1>8. CallerOK(q)'  BY <1>7 DEF CallerOK
<1> QED  BY <1>4, <1>5, <1>6, <1>8 DEF InStep

LEMMA TopIs ==
  ASSUME InStep, NEW q \in World, Alive(q), NEW n, n = Len(stack[q])
  PROVE  /\ n \in Nat \ {0} /\ stack[q] \in Seq(Frames) /\ n \in 1 .. n
         /\ Top(q) = stack[q][n] /\ Top(q) \in Frames
         /\ FrameOK(q, Top(q)) /\ StackShape(q)
         /\ Top(q).world \in Comms /\ Top(q).world.members \subseteq World
         /\ q \in Top(q).world.members /\ Top(q).world # SELF
         /\ Top(q).machine \in Comms /\ Top(q).machine.members \subseteq World
         /\ Top(q).machine # SELF => q \in Top(q).machine.members
<1>1. n \in Nat \ {0} /\ stack[q] \in Seq(Frames) /\ Top(q) = stack[q][n]
  BY DEF InStep, ExecTypeOK, Alive, Top
<1>2. n \in 1 .. n  BY <1>1
<1>3. FrameOK(q, Top(q)) /\ StackShape(q) /\ Top(q) \in Frames
  BY <1>1, <1>2 DEF InStep, CallerOK, StackOK
<1>4. Top(q).world \in Comms /\ q \in Top(q).world.members
  BY <1>3, MadeHow DEF FrameOK, InStep
<1>5. Top(q).machine \in Comms  BY <1>3 DEF Frames
<1>6. Top(q).world.members \subseteq World /\ Top(q).machine.members \subseteq World
  BY <1>4, <1>5 DEF Comms
<1>7. Top(q).machine # SELF => q \in Top(q).machine.members
  BY <1>3, MadeHow DEF FrameOK, InStep
<1>8. Top(q).world # SELF  BY <1>4 DEF SELF, Comm
<1> QED  BY <1>1, <1>2, <1>3, <1>4, <1>5, <1>6, <1>7, <1>8

----------------------------------------------------------------------------
(* Steps on a machine *)

LEMMA BaseType ==
  ASSUME NEW X
  PROVE  /\ Base(X) \in Nat /\ Base(X) >= 2 /\ NSymbols \in Nat
         /\ IsMachine(X) => Base(X) = NSymbols + 4
  BY ExecAssumption DEF Base

\* The calls of a machine, by their numbers.
LEMMA CallAt ==
  ASSUME ExecTypeOK, CallsAgree, NEW r \in World, NEW X, ~ IsWorld(X), NEW c \in Calls(r, X)
  PROVE  /\ r \in X.members /\ c.i \in Nat /\ MachineCall(r, c) /\ c.comm = X
         /\ c \in called[r]
         /\ c.i \in 1 .. Number(r, X)
         /\ c.i <= Base(X) => c.op = OpAt(X, c.i)
  BY CallType DEF Calls, CallsAgree, CallOK, Listed, MachineCall

LEMMA NoSyncYet ==
  ASSUME ExecTypeOK, CallsAgree, NEW q \in World, NEW X, ~ IsWorld(X), Number(q, X) <= Base(X)
  PROVE  \A c \in Calls(q, X) : c.op # "sync"
<1>1. SUFFICES ASSUME NEW c \in Calls(q, X) PROVE c.op # "sync"  OBVIOUS
<1>2. c.i \in 1 .. Number(q, X) /\ (c.i <= Base(X) => c.op = OpAt(X, c.i))  BY CallAt
<1>3. c.i <= Base(X)
  <2>1. Number(q, X) \in Nat /\ Base(X) \in Nat  BY NumberType, BaseType
  <2> QED  BY <1>2, <2>1
<1> QED  BY <1>2, <1>3 DEF OpAt

\* A failing look-up that a process could have missed.
NoneFailed(q, X) ==
  \A r \in X.members : \A d \in Calls(r, X) :
    d.i = Number(q, X) /\ d.op = "symbol" => d.val # -1

\* The next call of q on X can be op.
CanCall(q, X, op) ==
  LET i == Number(q, X) + 1 IN
  /\ \A r \in X.members : Number(q, X) <= Number(r, X)
  /\ i <= Base(X) => op = OpAt(X, i)
  /\ i > Base(X) => /\ op \in {"clone", "sync"}
                    /\ \A r \in X.members : \A d \in Calls(r, X) : d.i = i => d.op = op
  /\ \A c \in Calls(q, X) : c.op # "sync"
  /\ NoneFailed(q, X)

Makes(q, X, op, v) == called' = [called EXCEPT ![q] = @ \cup {NextCall(q, X, op, v)}]

LEMMA MachineEnter ==
  ASSUME ExecTypeOK, CallsAgree, NEW q \in World, NEW X, ~ IsWorld(X), Made(q, X),
         NEW op, op \in ExecOps, NEW v, v \in Int, CanCall(q, X, op), Makes(q, X, op, v),
         NEW c, c = NextCall(q, X, op, v), NEW New, New = {c}
  PROVE  /\ Enters(q, X, New) /\ MayEnter(q, X, New)
         /\ Cardinality(New) = 1
         /\ Number(q, X)' = Number(q, X) + 1
         /\ Calls(q, X)' = Calls(q, X) \cup New
         /\ c.op = op /\ c.i = Number(q, X) + 1
<1>1. X \in Comms /\ q \in X.members  BY MadeHow
<1>2. /\ Enters(q, X, New)
      /\ Cardinality(New) = 1
  BY <1>1, OneCall DEF Makes
<1>3. c.op = op /\ c.i = Number(q, X) + 1
  BY DEF NextCall
<1>4. MachineEntry(q, X, New)
  BY <1>2, <1>3 DEF MachineEntry, NoneFailed, CanCall
<1>5. Number(q, X)' = Number(q, X) + 1 /\ Calls(q, X)' = Calls(q, X) \cup New
  BY <1>1, <1>2, Entered DEF CallsAgree
<1> QED  BY <1>2, <1>3, <1>4, <1>5 DEF MayEnter

\* The process can go on with op, the last frame having left symbols to do.
CanGoOn(q, X, op, left) ==
  LET i == Number(q, X) + 1 IN
  /\ op \in {"symbol", "interface", "barrier", "clone", "sync"}
  /\ Complete(q, X)
  /\ op = "symbol" => IsMachine(X) /\ left \in 0 .. NSymbols /\ i = NSymbols + 2 - left
  /\ op = "interface" => i = Base(X) - 1
  /\ op = "barrier" => i = Base(X)
  /\ op \in {"clone", "sync"} =>
       i > Base(X) /\ (\A r \in X.members : \A d \in Calls(r, X) : d.i = i => d.op = op)
  /\ \A c \in Calls(q, X) : c.op # "sync"
  /\ NoneFailed(q, X)

\* The frame f with its process in op.
Becomes(f, op, g) == /\ g \in Frames /\ g = [f EXCEPT !.at = op]
                     /\ g.at = op /\ g.world = f.world /\ g.machine = f.machine

\* A process goes on with the next call on its machine.
LEMMA GoOnStep ==
  ASSUME InStep, NEW q \in World, Alive(q), Top(q).machine # SELF,
         NEW f, f.world = Top(q).world, f.machine = Top(q).machine,
         NEW X, X = Top(q).machine,
         NEW op, NEW v, v \in {0, -1},
         NEW g, Becomes(f, op, g),
         GoOn(q, f, op, v), done' = done,
         CanGoOn(q, X, op, g.left)
  PROVE  InStep'
<1>b. PICK i : i = Number(q, X) + 1  OBVIOUS
<1>c. /\ op \in {"symbol", "interface", "barrier", "clone", "sync"}
      /\ Complete(q, X)
      /\ op = "symbol" => IsMachine(X) /\ g.left \in 0 .. NSymbols /\ i = NSymbols + 2 - g.left
      /\ op = "interface" => i = Base(X) - 1
      /\ op = "barrier" => i = Base(X)
      /\ op \in {"clone", "sync"} =>
           i > Base(X) /\ (\A r \in X.members : \A d \in Calls(r, X) : d.i = i => d.op = op)
      /\ \A c \in Calls(q, X) : c.op # "sync"
      /\ NoneFailed(q, X)
  BY <1>b DEF CanGoOn
<1>d. /\ g \in Frames /\ g = [f EXCEPT !.at = op]
      /\ g.at = op /\ g.world = f.world /\ g.machine = f.machine
  BY DEF Becomes
<1> USE <1>b, <1>c, <1>d
<1>a. PICK c : c = NextCall(q, X, op, v)  OBVIOUS
<1>0. PICK n : n = Len(stack[q])  OBVIOUS
<1>1. ExecTypeOK /\ CallsAgree  BY DEF InStep
<1>2. /\ n \in Nat \ {0} /\ stack[q] \in Seq(Frames) /\ n \in 1 .. n
      /\ Top(q) = stack[q][n] /\ FrameOK(q, Top(q)) /\ StackShape(q)
      /\ X.members \subseteq World /\ q \in X.members
  BY <1>0, TopIs
<1>3. ~ IsWorld(X) /\ Made(q, X) /\ q = Root(f.world)  BY <1>2 DEF FrameOK
<1>4. stack' = [stack EXCEPT ![q][n] = g] /\ called' = [called EXCEPT ![q] = @ \cup {c}]
  BY <1>0, <1>a DEF GoOn
<1>5. \A r \in X.members : Number(q, X) <= Number(r, X)
  <2>1. SUFFICES ASSUME NEW r \in X.members PROVE Number(q, X) <= Number(r, X)  OBVIOUS
  <2>2. Number(r, X) >= Number(q, X)  BY DEF Complete
  <2>3. Number(r, X) \in Nat /\ Number(q, X) \in Nat  BY <1>1, <1>2, NumberType
  <2> QED  BY <2>2, <2>3
<1>6. Number(q, X) \in Nat /\ i \in Nat \ {0}
  <2>1. Number(q, X) \in Nat  BY <1>1, NumberType
  <2> QED  BY <2>1
<1>7. i <= Base(X) => op = OpAt(X, i)
  <2>1. Base(X) \in Nat /\ Base(X) >= 2 /\ NSymbols \in Nat
        /\ (IsMachine(X) => Base(X) = NSymbols + 4)
    BY BaseType
  <2>2. CASE op = "symbol"
    <3>1. i = NSymbols + 2 - g.left /\ g.left \in 0 .. NSymbols /\ Base(X) = NSymbols + 4
      BY <2>1, <2>2
    <3>2. i # 1 /\ i # Base(X) /\ i # Base(X) - 1
      BY <3>1, <2>1
    <3> QED  BY <3>2, <2>2 DEF OpAt
  <2>3. CASE op = "interface"
    <3>1. i = Base(X) - 1 /\ i # Base(X)  BY <2>1, <2>3
    <3> QED  BY <3>1, <2>3 DEF OpAt
  <2>4. CASE op = "barrier"  BY <2>4 DEF OpAt
  <2>5. CASE op \in {"clone", "sync"}
    BY <2>1, <2>5, <1>6
  <2> QED  BY <2>2, <2>3, <2>4, <2>5
<1>8. i > Base(X) => /\ op \in {"clone", "sync"}
                     /\ \A r \in X.members : \A d \in Calls(r, X) : d.i = i => d.op = op
  <2>1. Base(X) \in Nat /\ Base(X) >= 2 /\ NSymbols \in Nat
        /\ (IsMachine(X) => Base(X) = NSymbols + 4)
    BY BaseType
  <2>2. SUFFICES ASSUME i > Base(X) PROVE op \in {"clone", "sync"}  OBVIOUS
  <2>3. op # "symbol"
    <3>1. SUFFICES ASSUME op = "symbol" PROVE FALSE  OBVIOUS
    <3>2. i = NSymbols + 2 - g.left /\ g.left \in 0 .. NSymbols /\ Base(X) = NSymbols + 4
      BY <2>1, <3>1
    <3> QED  BY <2>1, <2>2, <3>2
  <2>4. op # "interface" /\ op # "barrier"  BY <2>1, <2>2, <1>6
  <2> QED  BY <2>3, <2>4
<1>9. /\ Enters(q, X, {c}) /\ MayEnter(q, X, {c})
      /\ Cardinality({c}) = 1
      /\ Number(q, X)' = i
      /\ Calls(q, X)' = Calls(q, X) \cup {c}
      /\ c.op = op /\ c.i = i
  <2>1. op \in ExecOps  BY DEF ExecOps
  <2>2. Makes(q, X, op, v)  BY <1>4, <1>a DEF Makes
  <2>3. CanCall(q, X, op)  BY <1>5, <1>7, <1>8 DEF CanCall
  <2>4. v \in Int  OBVIOUS
  <2>5. PICK New : New = {c}  OBVIOUS
  <2>6. /\ Enters(q, X, New) /\ MayEnter(q, X, New)
        /\ Cardinality(New) = 1
        /\ Number(q, X)' = Number(q, X) + 1
        /\ Calls(q, X)' = Calls(q, X) \cup New
        /\ c.op = op /\ c.i = Number(q, X) + 1
    BY ONLY q \in World, <2>4, <2>5, <1>a, <1>1, <1>3, <2>1, <2>2, <2>3, MachineEnter
  <2> QED  BY <2>5, <2>6
<1>10. FrameOK(q, g)'
  <2>1. /\ IsWorld(f.world) /\ Made(q, f.world) /\ Number(q, f.world) % 2 = 0
        /\ X # SELF
    BY <1>2 DEF FrameOK
  <2>2. f.world # X  BY <2>1, <1>3
  <2>3. called[q] \subseteq called'[q]
        /\ \A Y : Y # X => Number(q, Y)' = Number(q, Y)
    BY <1>1, <1>2, <1>9, Entered DEF CallsAgree
  <2>4. Made(q, f.world)' /\ Made(q, X)'  BY <2>1, <2>3, <1>3, MadeKept
  <2>5. Number(q, f.world)' % 2 = 0  BY <2>1, <2>2, <2>3
  <2>6. \A e \in Calls(q, X)' : op = "clone" => e.op # "sync"
    BY <1>9
  <2>7. op = "sync" => \E e \in Calls(q, X)' : e.i = i /\ e.op = "sync"
    BY <1>9
  <2>8. Position(q, g)'
    BY <1>9, <2>6, <2>7 DEF Position, Base, IsMachine
  <2> QED  BY <2>1, <2>4, <2>5, <2>8, <1>3 DEF FrameOK, IsWorld, SELF, Root
<1>11. PICK t \in Seq(Frames) : t = [stack[q] EXCEPT ![n] = g]
  BY <1>0, <1>2, ExceptSeq
<1>12. /\ Len(t) = n /\ t[n] = g
       /\ \A k \in 1 .. (n - 1) : t[k] = stack[q][k]
  BY <1>0, <1>2, <1>11
<1>13. stack' = [stack EXCEPT ![q] = t]
  BY <1>1, <1>4, <1>11 DEF ExecTypeOK
<1>14. StackOK(q)' /\ stack' \in [World -> Seq(Frames)] /\ stack'[q] = t
       /\ \A r \in World : r # q => stack'[r] = stack[r]
  <2>1. \A k \in 1 .. (n - 1) : SetApart(stack[q][k], X, {c})
    BY <1>0, <1>2, BelowApart DEF Alive
  <2>2. n <= Len(stack[q]) /\ n \in Nat  BY <1>0, <1>2
  <2>3. /\ t[n].world = stack[q][n].world /\ t[n].machine = stack[q][n].machine
        /\ t[n].machine # SELF /\ FrameOK(q, t[n])'
    <3>1. t[n] = g  BY <1>12
    <3>2. FrameOK(q, t[n])'
      <4>1. PICK h : h = t[n]  OBVIOUS
      <4> QED  BY <4>1, <3>1, <1>10
    <3> QED  BY <1>2, <3>1, <3>2
  <2> QED  BY ONLY InStep, q \in World, <1>9, <1>12, <1>13, <2>1, <2>2, <2>3, Cut
<1>15. Fresh(q)'
  <2>1. Top(q)' = g
    <3>1. Len(stack'[q]) = n  BY <1>12, <1>14
    <3> QED  BY <3>1, <1>12, <1>14 DEF Top
  <2>2. g.at # "split" /\ (g.at = "clone" => g.machine = X) /\ {c} # {}  OBVIOUS
  <2> QED  BY ONLY q \in World, <1>1, <1>9, <2>1, <2>2, FreshStep
<1> QED  BY <1>1, <1>9, <1>14, <1>15, Conclude DEF ExecTypeOK

----------------------------------------------------------------------------
(* The actions: what happens on a machine *)

LEMMA NoneBad ==
  ASSUME ~ Unshared
  PROVE  \A r \in World : \A c \in called[r] : c.op \in {"table", "interface"} => c.val # -1
<1>1. SUFFICES ASSUME NEW r \in World, NEW c \in called[r], c.op \in {"table", "interface"},
                      c.val = -1
               PROVE  Unshared
  OBVIOUS
<1>2. <<r, c>> \in UNION {{q} \X called[q] : q \in World}  OBVIOUS
<1>3. <<r, c>> \in Failures  BY <1>1, <1>2 DEF Failures
<1> QED  BY <1>1, <1>3 DEF Unshared

LEMMA VerdictsType ==
  ASSUME NEW op, NEW v \in Verdicts(op)
  PROVE  v \in {0, -1}
  BY DEF Verdicts

LEMMA At ==
  ASSUME NEW f \in Frames, NEW op \in ExecPlaces, NEW g, g = [f EXCEPT !.at = op]
  PROVE  Becomes(f, op, g) /\ g.left = f.left
  BY DEF Frames, Becomes

LEMMA WithLeft ==
  ASSUME NEW f \in Frames, NEW l, l \in Int, NEW g, g = [f EXCEPT !.left = l]
  PROVE  /\ g \in Frames /\ g.at = f.at /\ g.world = f.world /\ g.machine = f.machine
         /\ g.left = l
  BY DEF Frames

\* A process in a call on a machine.
LEMMA OnMachine ==
  ASSUME InStep, NEW q \in World, Alive(q), NEW X, X = Top(q).machine,
         X # SELF \/ Top(q).at \notin {"slave", "user", "split"}
  PROVE  /\ X # SELF /\ ~ IsWorld(X) /\ Made(q, X) /\ Position(q, Top(q))
         /\ q \in X.members /\ X.members \subseteq World /\ X \in Comms
         /\ Number(q, X) \in Nat /\ q = Root(Top(q).world)
<1>1. FrameOK(q, Top(q)) /\ (X # SELF => q \in X.members) /\ X.members \subseteq World /\ X \in Comms
  BY TopIs
<1>2. X # SELF /\ ~ IsWorld(X) /\ Made(q, X) /\ Position(q, Top(q)) /\ q = Root(Top(q).world)
  BY <1>1 DEF FrameOK
<1>3. Number(q, X) \in Nat  BY NumberType DEF InStep
<1> QED  BY <1>1, <1>2, <1>3

\* Which call of all it is.
LEMMA OpOf ==
  ASSUME ExecTypeOK, CallsAgree, NEW X, ~ IsWorld(X), X.members \subseteq World,
         NEW r \in X.members, NEW d \in Calls(r, X), d.i <= Base(X)
  PROVE  d.op = OpAt(X, d.i) /\ r \in World /\ d \in called[r]
  BY CallAt

LEMMA TableStep ==
  ASSUME InStep, ~ Unshared, NEW q \in World, Table(q)
  PROVE  InStep'
<1>1. Alive(q) /\ Top(q).at = "table" /\ ExecTypeOK /\ CallsAgree
  BY DEF Table, Returned, Is, InStep
<1>2. PICK X : X = Top(q).machine  OBVIOUS
<1>3. /\ X # SELF /\ ~ IsWorld(X) /\ Made(q, X) /\ Position(q, Top(q))
      /\ q \in X.members /\ X.members \subseteq World
  BY <1>1, <1>2, OnMachine
<1>4. IsMachine(X) /\ Number(q, X) = 1 /\ Complete(q, X) /\ done' = done
  BY <1>1, <1>2, <1>3 DEF Position, Table, Returned
<1>5. OpAt(X, 1) = "table" /\ 1 <= Base(X) /\ NSymbols \in Nat
  <2>1. Base(X) = NSymbols + 4 /\ NSymbols \in Nat  BY <1>4, BaseType
  <2>2. 1 # Base(X) /\ 1 # Base(X) - 1 /\ 1 <= Base(X)  BY <2>1
  <2> QED  BY <2>1, <2>2 DEF OpAt
<1>6. \A r \in X.members : \A d \in Calls(r, X) : d.i = 1 => d.op = "table" /\ d.val # -1
  <2>1. SUFFICES ASSUME NEW r \in X.members, NEW d \in Calls(r, X), d.i = 1
                 PROVE  d.op = "table" /\ d.val # -1
    OBVIOUS
  <2>2. d.op = "table" /\ r \in World /\ d \in called[r]
    BY <2>1, <1>1, <1>3, <1>5, OpOf
  <2> QED  BY <2>2, NoneBad
<1>7. ~ OwnFailed(q, X)  BY <1>3, <1>4, <1>6 DEF OwnFailed
<1>8. PICK v \in Verdicts("symbol") : GoOn(q, [Top(q) EXCEPT !.left = NSymbols], "symbol", v)
  BY <1>2, <1>7 DEF Table
<1>9. PICK f : f = [Top(q) EXCEPT !.left = NSymbols]  OBVIOUS
<1>10. PICK g : g = [f EXCEPT !.at = "symbol"]  OBVIOUS
<1>11. /\ f.world = Top(q).world /\ f.machine = X
       /\ Becomes(f, "symbol", g) /\ g.left = NSymbols
  <2>1. Top(q) \in Frames  BY <1>1, TopIs
  <2>2. NSymbols \in Int /\ "symbol" \in ExecPlaces  BY <1>5 DEF ExecPlaces, ExecOps
  <2>3. f \in Frames /\ f.world = Top(q).world /\ f.machine = X /\ f.left = NSymbols
    BY <2>1, <2>2, <1>2, <1>9, WithLeft
  <2> QED  BY <2>2, <2>3, <1>10, At
<1>12. v \in {0, -1}  BY VerdictsType
<1>13. NoneFailed(q, X)  BY <1>4, <1>6 DEF NoneFailed
<1>14. \A c \in Calls(q, X) : c.op # "sync"
  BY <1>1, <1>3, <1>4, <1>5, NoSyncYet
<1>15. 1 + 1 = NSymbols + 2 - g.left /\ g.left \in 0 .. NSymbols  BY <1>5, <1>11
<1>16. CanGoOn(q, X, "symbol", g.left)
  BY <1>4, <1>13, <1>14, <1>15 DEF CanGoOn
<1>17. PICK op : op = "symbol"  OBVIOUS
<1>18. GoOn(q, f, op, v)  BY <1>8, <1>9, <1>17
<1> QED
  BY ONLY InStep, q \in World, <1>1, <1>2, <1>3, <1>4, <1>11, <1>12, <1>16, <1>17, <1>18, GoOnStep

LEMMA NextSymbolStep ==
  ASSUME InStep, ~ Unshared, NEW q \in World, NextSymbol(q), ~ Failed(q, Top(q).machine)
  PROVE  InStep'
<1>1. Alive(q) /\ Top(q).at = "symbol" /\ ExecTypeOK /\ CallsAgree
  BY DEF NextSymbol, Returned, Is, InStep
<1>2. PICK X : X = Top(q).machine  OBVIOUS
<1>3. /\ X # SELF /\ ~ IsWorld(X) /\ Made(q, X) /\ Position(q, Top(q))
      /\ q \in X.members /\ X.members \subseteq World
  BY <1>1, <1>2, OnMachine
<1>4. /\ IsMachine(X) /\ Complete(q, X) /\ done' = done
      /\ Top(q).left \in 0 .. NSymbols /\ Number(q, X) = NSymbols + 2 - Top(q).left
  BY <1>1, <1>2, <1>3 DEF Position, NextSymbol, Returned
<1>5. Base(X) = NSymbols + 4 /\ NSymbols \in Nat  BY <1>4, BaseType
<1>6. NoneFailed(q, X)
  BY <1>2 DEF NoneFailed, Failed
<1>7. PICK op : op = IF Top(q).left > 0 THEN "symbol" ELSE "interface"  OBVIOUS
<1>8. PICK v \in Verdicts(op) : GoOn(q, [Top(q) EXCEPT !.left = @ - 1], op, v)
  BY <1>2, <1>7 DEF NextSymbol
<1>9. PICK f : f = [Top(q) EXCEPT !.left = @ - 1]  OBVIOUS
<1>10. PICK g : g = [f EXCEPT !.at = op]  OBVIOUS
<1>11. /\ f.world = Top(q).world /\ f.machine = X
       /\ Becomes(f, op, g) /\ g.left = Top(q).left - 1
  <2>1. Top(q) \in Frames  BY <1>1, TopIs
  <2>2. Top(q).left - 1 \in Int /\ op \in ExecPlaces  BY <1>4, <1>7 DEF ExecPlaces, ExecOps
  <2>3. f = [Top(q) EXCEPT !.left = Top(q).left - 1]  BY <1>9
  <2>4. f \in Frames /\ f.world = Top(q).world /\ f.machine = X /\ f.left = Top(q).left - 1
    BY <2>1, <2>2, <2>3, <1>2, WithLeft
  <2> QED  BY <2>2, <2>4, <1>10, At
<1>12. v \in {0, -1}  BY VerdictsType
<1>13. \A c \in Calls(q, X) : c.op # "sync"
  <2>1. Number(q, X) <= Base(X)  BY <1>4, <1>5
  <2> QED  BY <2>1, <1>1, <1>3, NoSyncYet
<1>14. PICK i : i = Number(q, X) + 1  OBVIOUS
<1>15. op = "symbol" => /\ IsMachine(X) /\ g.left \in 0 .. NSymbols
                        /\ i = NSymbols + 2 - g.left
  BY <1>4, <1>5, <1>7, <1>11, <1>14
<1>16. op = "interface" => i = Base(X) - 1
  BY <1>4, <1>5, <1>7, <1>14
<1>17. CanGoOn(q, X, op, g.left)
  <2>1. op \in {"symbol", "interface"}  BY <1>7
  <2> QED  BY <2>1, <1>4, <1>6, <1>13, <1>14, <1>15, <1>16 DEF CanGoOn
<1>18. GoOn(q, f, op, v)  BY <1>8, <1>9
<1> QED
  BY ONLY InStep, q \in World, <1>1, <1>2, <1>3, <1>4, <1>11, <1>12, <1>17, <1>18, GoOnStep

LEMMA ConstructedStep ==
  ASSUME InStep, ~ Unshared, NEW q \in World, Constructed(q)
  PROVE  InStep'
<1>1. Alive(q) /\ Top(q).at = "interface" /\ ExecTypeOK /\ CallsAgree
  BY DEF Constructed, Returned, Is, InStep
<1>2. PICK X : X = Top(q).machine  OBVIOUS
<1>3. /\ X # SELF /\ ~ IsWorld(X) /\ Made(q, X) /\ Position(q, Top(q))
      /\ q \in X.members /\ X.members \subseteq World
  BY <1>1, <1>2, OnMachine
<1>4. Complete(q, X) /\ Number(q, X) = Base(X) - 1
  BY <1>1, <1>2, <1>3 DEF Position, Constructed, Returned
<1>5. Base(X) \in Nat /\ Base(X) >= 2  BY BaseType
<1>6. \A r \in X.members : \A d \in Calls(r, X) :
        d.i = Number(q, X) => d.op = "interface" /\ d.val # -1
  <2>1. SUFFICES ASSUME NEW r \in X.members, NEW d \in Calls(r, X), d.i = Number(q, X)
                 PROVE  d.op = "interface" /\ d.val # -1
    OBVIOUS
  <2>2. d.i <= Base(X) /\ d.i # Base(X) /\ d.i = Base(X) - 1  BY <2>1, <1>4, <1>5
  <2>3. d.op = OpAt(X, d.i) /\ r \in World /\ d \in called[r]
    BY <2>2, <1>1, <1>3, OpOf
  <2>4. d.op = "interface"  BY <2>2, <2>3 DEF OpAt
  <2> QED  BY <2>3, <2>4, NoneBad
<1>7. ~ OwnFailed(q, X) /\ ~ Failed(q, X)
  BY <1>3, <1>6 DEF OwnFailed, Failed
<1>8. GoOn(q, Top(q), "barrier", 0) /\ done' = done
  BY <1>2, <1>7 DEF Constructed
<1>9. PICK f : f = Top(q)  OBVIOUS
<1>10. PICK g : g = [f EXCEPT !.at = "barrier"]  OBVIOUS
<1>11. /\ f.world = Top(q).world /\ f.machine = X
       /\ Becomes(f, "barrier", g)
  <2>1. Top(q) \in Frames  BY <1>1, TopIs
  <2>2. "barrier" \in ExecPlaces  BY DEF ExecPlaces, ExecOps
  <2> QED  BY <2>1, <2>2, <1>2, <1>9, <1>10, At
<1>12. NoneFailed(q, X)  BY <1>6 DEF NoneFailed
<1>13. \A c \in Calls(q, X) : c.op # "sync"
  <2>1. Number(q, X) <= Base(X)  BY <1>4, <1>5
  <2> QED  BY <2>1, <1>1, <1>3, NoSyncYet
<1>14. PICK i : i = Number(q, X) + 1  OBVIOUS
<1>15. i = Base(X)  BY <1>4, <1>5, <1>14
<1>16. PICK v, op : v = 0 /\ op = "barrier"  OBVIOUS
<1>17. CanGoOn(q, X, op, g.left)
  BY <1>4, <1>12, <1>13, <1>14, <1>15, <1>16 DEF CanGoOn
<1>18. GoOn(q, f, op, v) /\ v \in {0, -1}  BY <1>8, <1>9, <1>16
<1> QED
  BY ONLY InStep, q \in World, <1>1, <1>2, <1>3, <1>8, <1>11, <1>16, <1>17, <1>18, GoOnStep

\* What a process in its function can do.
LEMMA UserCall ==
  ASSUME InStep, NEW q \in World, Is(q, "user"), Top(q).machine # SELF,
         NEW op, op \in {"clone", "sync"}, NEW v, v \in {0, -1}, Together(q, op),
         GoOn(q, Top(q), op, v), done' = done
  PROVE  InStep'
<1>1. Alive(q) /\ Top(q).at = "user" /\ ExecTypeOK /\ CallsAgree
  BY DEF Is, InStep
<1>2. PICK X : X = Top(q).machine  OBVIOUS
<1>3. /\ X # SELF /\ ~ IsWorld(X) /\ Made(q, X) /\ Position(q, Top(q))
      /\ q \in X.members /\ X.members \subseteq World /\ Number(q, X) \in Nat
  BY <1>1, <1>2, OnMachine
<1>4. /\ Complete(q, X) /\ Number(q, X) >= Base(X)
      /\ \A c \in Calls(q, X) : c.op # "sync"
  BY <1>1, <1>2, <1>3 DEF Position
<1>5. Base(X) \in Nat /\ Base(X) >= 2  BY BaseType
<1>6. NoneFailed(q, X)
  <2>1. SUFFICES ASSUME NEW r \in X.members, NEW d \in Calls(r, X), d.i = Number(q, X)
                 PROVE  d.op # "symbol"
    BY DEF NoneFailed
  <2>2. MachineCall(r, d) /\ d.comm = X  BY <1>1, <1>3, CallAt
  <2>3. CASE d.i = Base(X)  BY <2>2, <2>3, <1>5 DEF MachineCall, OpAt
  <2>4. CASE d.i # Base(X)
    <3>1. d.i > Base(X)  BY <2>1, <2>4, <1>3, <1>4, <1>5
    <3> QED  BY <2>2, <3>1 DEF MachineCall
  <2> QED  BY <2>3, <2>4
<1>7. PICK f : f = Top(q)  OBVIOUS
<1>8. PICK g : g = [f EXCEPT !.at = op]  OBVIOUS
<1>9. /\ f.world = Top(q).world /\ f.machine = X
      /\ Becomes(f, op, g)
  <2>1. Top(q) \in Frames  BY <1>1, TopIs
  <2>2. op \in ExecPlaces  BY DEF ExecPlaces, ExecOps
  <2> QED  BY <2>1, <2>2, <1>2, <1>7, <1>8, At
<1>10. PICK i : i = Number(q, X) + 1  OBVIOUS
<1>11. i > Base(X)  BY <1>3, <1>4, <1>5, <1>10
<1>12. \A r \in X.members : \A d \in Calls(r, X) : d.i = i => d.op = op
  BY <1>2, <1>10 DEF Together
<1>13. GoOn(q, f, op, v)  BY <1>7
<1>14. CanGoOn(q, X, op, g.left)
  BY <1>4, <1>6, <1>10, <1>11, <1>12 DEF CanGoOn
<1> QED
  BY ONLY InStep, q \in World, v \in {0, -1}, done' = done,
     <1>1, <1>2, <1>3, <1>9, <1>13, <1>14, GoOnStep

----------------------------------------------------------------------------
(* The actions: returns *)

LEMMA CutStep ==
  ASSUME InStep, NEW q \in World, NEW X, NEW New,
         Enters(q, X, New), MayEnter(q, X, New),
         NEW m \in Nat \ {0}, m <= Len(stack[q]),
         NEW h, h = stack[q][m], NEW at, at \in {"user", "slave"}, NEW g, Becomes(h, at, g),
         NEW t \in Seq(Frames), stack' = [stack EXCEPT ![q] = t], Len(t) = m, t[m] = g,
         \A k \in 1 .. (m - 1) : t[k] = stack[q][k],
         FrameOK(q, g)', m > 1 /\ g.machine = SELF => at = "slave",
         \A k \in 1 .. (m - 1) : SetApart(stack[q][k], X, New),
         done' \in [World -> SUBSET Comms],
         \A r \in World : r # q => done'[r] = done[r],
         \A Y \in done'[q] : Y \in done[q] \/ Y = SELF \/ LeftAt(q, Y)
  PROVE  InStep'
<1>1. g.at = at /\ g.world = h.world /\ g.machine = h.machine  BY DEF Becomes
<1>2. /\ StackOK(q)' /\ stack' \in [World -> Seq(Frames)] /\ stack'[q] = t
      /\ \A r \in World : r # q => stack'[r] = stack[r]
  <2>1. FrameOK(q, t[m])'
    <3>1. PICK f : f = t[m]  OBVIOUS
    <3> QED  BY <3>1
  <2>2. t[m].world = stack[q][m].world /\ t[m].machine = stack[q][m].machine /\ FrameOK(q, t[m])'
    BY <1>1, <2>1
  <2>3. m > 1 /\ t[m].machine = SELF => t[m].at # "user" /\ (t[m].at = "split" => q # Root(t[m].world))
    BY <1>1
  <2>4. m \in Nat  OBVIOUS
  <2> QED  BY <2>2, <2>3, <2>4, Cut
<1>3. Fresh(q)'
  <2>1. Top(q)' = g  BY <1>2 DEF Top
  <2> QED  BY <2>1, <1>1 DEF Fresh
<1> QED  BY <1>2, <1>3, Conclude

\* A call on the machine returns to the function.
LEMMA ToUser ==
  ASSUME InStep, NEW q \in World, Alive(q), Top(q).at \in {"barrier", "clone"},
         Complete(q, Top(q).machine),
         stack' = [stack EXCEPT ![q][Len(stack[q])].at = "user"],
         called' = called, done' = done
  PROVE  InStep'
<1>0. PICK n : n = Len(stack[q])  OBVIOUS
<1>1. PICK h : h = Top(q)  OBVIOUS
<1>2. PICK g : g = [h EXCEPT !.at = "user"]  OBVIOUS
<1>3. /\ n \in Nat \ {0} /\ stack[q] \in Seq(Frames) /\ n \in 1 .. n
      /\ h = stack[q][n] /\ h \in Frames /\ FrameOK(q, h)
      /\ h.machine.members \subseteq World /\ q \in h.world.members
  BY <1>0, <1>1, TopIs
<1>4. Becomes(h, "user", g)
  <2>1. "user" \in ExecPlaces  BY DEF ExecPlaces
  <2> QED  BY <2>1, <1>2, <1>3, At
<1>5. ExecTypeOK /\ CallsAgree  BY DEF InStep
<1>6. h.machine # SELF /\ Position(q, h) /\ ~ IsWorld(h.machine) /\ h.at \in {"barrier", "clone"}
      /\ Complete(q, h.machine)
  BY <1>1, <1>3 DEF FrameOK
<1>7. FrameOK(q, g)
  <2>1. g.at = "user" /\ g.world = h.world /\ g.machine = h.machine  BY <1>4 DEF Becomes
  <2>2. Number(q, h.machine) >= Base(h.machine)
    <3>1. Base(h.machine) \in Nat /\ Number(q, h.machine) \in Nat  BY <1>5, BaseType, NumberType
    <3> QED  BY <3>1, <1>6 DEF Position
  <2>3. \A c \in Calls(q, h.machine) : c.op # "sync"
    <3>1. CASE h.at = "clone"  BY <3>1, <1>6 DEF Position
    <3>2. CASE h.at = "barrier"
      <4>1. Number(q, h.machine) <= Base(h.machine)
        <5>1. Base(h.machine) \in Nat  BY BaseType
        <5> QED  BY <5>1, <3>2, <1>6 DEF Position
      <4> QED  BY <4>1, <1>5, <1>6, NoSyncYet
    <3> QED  BY <3>1, <3>2, <1>6
  <2>4. Position(q, g)  BY <2>1, <2>2, <2>3, <1>6 DEF Position
  <2> QED  BY <2>1, <2>4, <1>3, <1>6 DEF FrameOK
<1>8. PICK X, New : X = h.world /\ New = {}  OBVIOUS
<1>9. Enters(q, X, New) /\ MayEnter(q, X, New)
  <2>1. Made(q, X) /\ IsWorld(X)  BY <1>3, <1>8 DEF FrameOK
  <2>2. WorldEntry(q, X, New)  BY <1>8 DEF WorldEntry
  <2> QED  BY <2>1, <2>2, <1>5, <1>8, NoCall DEF MayEnter
<1>10. FrameOK(q, g)'
  <2>1. g.machine.members \subseteq World  BY <1>3, <1>4 DEF Becomes
  <2> QED  BY <2>1, <1>5, <1>7, <1>8, <1>9, FrameKept
<1>11. PICK t \in Seq(Frames) : t = [stack[q] EXCEPT ![n] = g]
  <2>1. g \in Frames  BY <1>4 DEF Becomes
  <2> QED  BY <2>1, <1>0, <1>3, ExceptSeq
<1>12. /\ Len(t) = n /\ t[n] = g
       /\ \A k \in 1 .. (n - 1) : t[k] = stack[q][k]
  BY <1>0, <1>3, <1>11
<1>13. stack' = [stack EXCEPT ![q] = t]
  BY <1>0, <1>2, <1>3, <1>5, <1>11 DEF ExecTypeOK
<1>14. \A k \in 1 .. (n - 1) : SetApart(stack[q][k], X, New)  BY <1>8 DEF SetApart
<1>15. g.machine # SELF  BY <1>4, <1>6 DEF Becomes
<1>16. n <= Len(stack[q])  BY <1>0, <1>3
<1>17. done' \in [World -> SUBSET Comms]  BY <1>5 DEF ExecTypeOK
<1>18. PICK at : at = "user"  OBVIOUS
<1> QED
  BY ONLY InStep, q \in World, done' = done, <1>3, <1>4, <1>9, <1>10, <1>12, <1>13, <1>14, <1>15,
     <1>16, <1>17, <1>18, CutStep

\* When the last frame ends, its process returns to the one below it.
LEMMA Resume ==
  ASSUME InStep, NEW q \in World, NEW X, NEW New,
         Enters(q, X, New), MayEnter(q, X, New),
         NEW m \in Nat \ {0}, m < Len(stack[q]), NEW h, h = stack[q][m], SetApart(h, X, New),
         NEW at, at = IF Root(h.world) # q THEN "slave" ELSE "user", NEW g, Becomes(h, at, g)
  PROVE  FrameOK(q, g)' /\ (m > 1 /\ g.machine = SELF => at = "slave")
<1>1. m \in 1 .. Len(stack[q]) /\ m \in 1 .. (Len(stack[q]) - 1) /\ Len(stack[q]) \in Nat
  BY DEF InStep, ExecTypeOK
<1>2. FrameOK(q, h) /\ StackShape(q)  BY <1>1 DEF InStep, CallerOK, StackOK
<1>4. g.at = at /\ g.world = h.world /\ g.machine = h.machine  BY DEF Becomes
<1>5. h.at \in {"split", "clone"} /\ (h.at = "clone" => Complete(q, h.machine))
  BY <1>1, <1>2 DEF StackShape
<1>6. ASSUME h.machine = SELF PROVE FrameOK(q, g) /\ (m > 1 => at = "slave")
  <2>1. FrameOK(q, g)  BY <1>2, <1>4, <1>6 DEF FrameOK
  <2>2. ASSUME m > 1 PROVE at = "slave"
    <3>1. m \in 2 .. Len(stack[q])  BY <2>2, <1>1
    <3>2. h.at = "split"  BY <1>2, <1>5, <1>6 DEF FrameOK
    <3> QED  BY <3>1, <3>2, <1>2, <1>6 DEF StackShape
  <2> QED  BY <2>1, <2>2
<1>7. ASSUME h.machine # SELF PROVE FrameOK(q, g)
  <2>1. Position(q, h) /\ q = Root(h.world)  BY <1>2, <1>7 DEF FrameOK
  <2>2. at = "user"  BY <2>1
  <2>3. Complete(q, h.machine) /\ \A c \in Calls(q, h.machine) : c.op # "sync"
    <3>1. CASE h.at = "split"
      BY ONLY <2>1, <3>1 DEF Position
    <3>2. CASE h.at = "clone"
      BY ONLY <2>1, <1>5, <3>2 DEF Position
    <3> QED  BY <3>1, <3>2, <1>5
  <2>4. Number(q, h.machine) >= Base(h.machine)
    <3>1. Base(h.machine) \in Nat /\ Number(q, h.machine) \in Nat
      BY BaseType, NumberType DEF InStep
    <3> QED  BY ONLY <3>1, <2>1, <1>5 DEF Position
  <2>5. Position(q, g)  BY <1>4, <2>2, <2>3, <2>4 DEF Position
  <2> QED  BY ONLY <1>2, <1>4, <2>1, <2>2, <2>5, <1>7 DEF FrameOK
<1>8. FrameOK(q, g)'
  <2>1. g.machine.members \subseteq World  BY <1>1, <1>4, FrameType DEF InStep
  <2>2. New = {} \/ (g.machine # X /\ (g.world = X => Cardinality(New) = 2))
    BY <1>4 DEF SetApart
  <2>3. ExecTypeOK /\ CallsAgree  BY DEF InStep
  <2> QED  BY <1>6, <1>7, <2>1, <2>2, <2>3, FrameKept
<1> QED  BY <1>4, <1>6, <1>8

\* The last frame ends.
Resumes(q, n) ==
  IF n = 1 THEN stack' = [stack EXCEPT ![q] = <<>>]
  ELSE \E h, at, g :
         /\ h = stack[q][n - 1] /\ at = IF Root(h.world) # q THEN "slave" ELSE "user"
         /\ g = [h EXCEPT !.at = at]
         /\ stack' = [stack EXCEPT ![q] = [SubSeq(stack[q], 1, n - 1) EXCEPT ![n - 1] = g]]

LEMMA Lower ==
  ASSUME NEW S, NEW s \in Seq(S), NEW n, n \in Nat, n <= Len(s), NEW m \in Nat \ {0}, m = n - 1,
         NEW g \in S, NEW t, t = [SubSeq(s, 1, n - 1) EXCEPT ![n - 1] = g]
  PROVE  /\ t \in Seq(S) /\ Len(t) = m /\ t[m] = g
         /\ \A k \in 1 .. (m - 1) : t[k] = s[k]
<1>1. PICK u \in Seq(S) : u = SubSeq(s, 1, m) /\ Len(u) = m /\ \A k \in 1 .. m : u[k] = s[k]
  <2>1. SubSeq(s, 1, m) \in Seq(S)  OBVIOUS
  <2>2. Len(SubSeq(s, 1, m)) = m  OBVIOUS
  <2>3. \A k \in 1 .. m : SubSeq(s, 1, m)[k] = s[k]  OBVIOUS
  <2> QED  BY <2>1, <2>2, <2>3
<1>2. t \in Seq(S) /\ t = [u EXCEPT ![m] = g] /\ Len(t) = m
  <2>1. m \in 1 .. Len(u)  BY <1>1
  <2>2. /\ [u EXCEPT ![m] = g] \in Seq(S)
        /\ Len([u EXCEPT ![m] = g]) = Len(u)
    BY ONLY <2>1, g \in S, u \in Seq(S), ExceptSeq
  <2>3. t = [u EXCEPT ![m] = g]  BY <1>1
  <2> QED  BY ONLY <2>2, <2>3, <1>1
<1>3. t[m] = g
  <2>1. m \in 1 .. Len(u)  BY <1>1
  <2> QED  BY <2>1, <1>1, <1>2
<1>4. ASSUME NEW k \in 1 .. (m - 1) PROVE t[k] = s[k]
  <2>1. k \in 1 .. Len(u) /\ k # m /\ k \in 1 .. m  BY <1>1
  <2>2. m \in 1 .. Len(u)  BY <1>1
  <2>3. \A j \in 1 .. Len(u) : [u EXCEPT ![m] = g][j] = IF j = m THEN g ELSE u[j]
    BY ONLY <2>2, g \in S, u \in Seq(S), ExceptSeq
  <2>4. t[k] = u[k]  BY ONLY <2>1, <2>3, <1>2
  <2> QED  BY ONLY <2>1, <2>4, <1>1
<1> QED  BY <1>1, <1>2, <1>3, <1>4

LEMMA Pop ==
  ASSUME InStep, NEW q \in World, Alive(q), NEW n, n = Len(stack[q]), NEW X, NEW New,
         Enters(q, X, New), MayEnter(q, X, New),
         Resumes(q, n),
         \A k \in 1 .. (n - 1) : SetApart(stack[q][k], X, New),
         done' \in [World -> SUBSET Comms],
         \A r \in World : r # q => done'[r] = done[r],
         \A Y \in done'[q] : Y \in done[q] \/ Y = SELF \/ LeftAt(q, Y)
  PROVE  InStep'
<1>1. n \in Nat \ {0} /\ stack[q] \in Seq(Frames) /\ n \in 1 .. n  BY TopIs
<1>2. stack \in [World -> Seq(Frames)]  BY DEF InStep, ExecTypeOK
<1>3. CASE n = 1
  <2>1. PICK t \in Seq(Frames) : t = <<>>  BY EmptySeq
  <2>2. Len(t) = 0 /\ stack' = [stack EXCEPT ![q] = t]  BY <2>1, <1>3 DEF Resumes
  <2>3. PICK m \in Nat : m = 0  OBVIOUS
  <2>4. /\ StackOK(q)' /\ stack' \in [World -> Seq(Frames)] /\ stack'[q] = t
        /\ \A r \in World : r # q => stack'[r] = stack[r]
    <3>1. 1 .. (m - 1) = {}  BY <2>3
    <3>2. m <= Len(stack[q]) /\ ~ (m > 0) /\ ~ (m > 1) /\ Len(t) = m  BY <1>1, <2>2, <2>3
    <3>3. (\A k \in 1 .. (m - 1) : t[k] = stack[q][k])
          /\ (\A k \in 1 .. (m - 1) : SetApart(stack[q][k], X, New))
      BY <3>1
    <3> QED  BY ONLY InStep, q \in World, Enters(q, X, New), MayEnter(q, X, New), <2>2, <3>2, <3>3, Cut
  <2>5. Fresh(q)'  BY <2>1, <2>4 DEF Fresh, Alive
  <2> QED  BY <2>4, <2>5, Conclude
<1>4. CASE n > 1
  <2>1. PICK m \in Nat \ {0} : m = n - 1
    <3>1. n - 1 \in Nat \ {0}  BY ONLY <1>1, <1>4
    <3> QED  BY ONLY <3>1
  <2>2. m < Len(stack[q]) /\ m <= Len(stack[q]) /\ m \in 1 .. (n - 1) /\ m \in 1 .. Len(stack[q])
    <3>1. m < n /\ m <= n /\ m \in 1 .. (n - 1) /\ m \in 1 .. n
      BY ONLY <1>1, <2>1, m \in Nat \ {0}
    <3> QED  BY ONLY <3>1, n = Len(stack[q])
  <2>3. PICK h, at, g :
          /\ h = stack[q][m] /\ at = IF Root(h.world) # q THEN "slave" ELSE "user"
          /\ g = [h EXCEPT !.at = at]
          /\ stack' = [stack EXCEPT ![q] = [SubSeq(stack[q], 1, n - 1) EXCEPT ![n - 1] = g]]
    BY <1>4, <2>1 DEF Resumes
  <2>4. Becomes(h, at, g) /\ at \in {"user", "slave"}
    <3>1. h \in Frames  BY <2>2, <2>3, FrameType DEF InStep
    <3>2. at \in {"user", "slave"}  BY <2>3
    <3>3. at \in ExecPlaces  BY <3>2 DEF ExecPlaces
    <3> QED  BY ONLY <3>1, <3>2, <3>3, <2>3, At
  <2>5. SetApart(h, X, New)  BY <2>2, <2>3
  <2>6. FrameOK(q, g)' /\ (m > 1 /\ g.machine = SELF => at = "slave")
    BY ONLY InStep, q \in World, Enters(q, X, New), MayEnter(q, X, New), m \in Nat \ {0},
       <2>2, <2>3, <2>4, <2>5, Resume
  <2>7. PICK t : t = [SubSeq(stack[q], 1, n - 1) EXCEPT ![n - 1] = g]  OBVIOUS
  <2>8. /\ t \in Seq(Frames) /\ Len(t) = m /\ t[m] = g
        /\ \A k \in 1 .. (m - 1) : t[k] = stack[q][k]
    <3>1. n \in Nat /\ n <= Len(stack[q]) /\ g \in Frames  BY <1>1, <2>4 DEF Becomes
    <3>2. PICK s \in Seq(Frames) : s = stack[q]  BY <1>1
    <3>3. n <= Len(s) /\ t = [SubSeq(s, 1, n - 1) EXCEPT ![n - 1] = g]  BY ONLY <3>1, <3>2, <2>7
    <3>4. /\ t \in Seq(Frames) /\ Len(t) = m /\ t[m] = g
          /\ \A k \in 1 .. (m - 1) : t[k] = s[k]
      <4>1. PICK S : S = Frames  OBVIOUS
      <4>2. s \in Seq(S) /\ g \in S  BY ONLY <4>1, <3>1, s \in Seq(Frames)
      <4>3. n \in Nat /\ n <= Len(s) /\ m = n - 1
        BY ONLY <3>1, <3>3, <2>1
      <4>4. t = [SubSeq(s, 1, n - 1) EXCEPT ![n - 1] = g]  BY ONLY <3>3
      <4>5. /\ t \in Seq(S) /\ Len(t) = m /\ t[m] = g
            /\ \A k \in 1 .. (m - 1) : t[k] = s[k]
        BY ONLY <4>2, <4>3, <4>4, m \in Nat \ {0}, Lower
      <4> QED  BY ONLY <4>1, <4>5
    <3> QED  BY ONLY <3>2, <3>4
  <2>10. stack' = [stack EXCEPT ![q] = t]  BY <2>3, <2>7
  <2>11. \A k \in 1 .. (m - 1) : SetApart(stack[q][k], X, New)
    <3>1. \A k \in 1 .. (m - 1) : k \in 1 .. (n - 1)  BY <1>1, <2>1
    <3> QED  BY <3>1
  <2>12. /\ h = stack[q][m] /\ Len(t) = m /\ t[m] = g
         /\ \A k \in 1 .. (m - 1) : t[k] = stack[q][k]
    BY ONLY <2>3, <2>8
  <2> QED
    BY ONLY InStep, q \in World, Enters(q, X, New), MayEnter(q, X, New), <2>8,
       done' \in [World -> SUBSET Comms],
       \A r \in World : r # q => done'[r] = done[r],
       \A Y \in done'[q] : Y \in done[q] \/ Y = SELF \/ LeftAt(q, Y),
       m \in Nat \ {0}, <2>2, <2>4, <2>6, <2>10, <2>11, <2>12, CutStep
<1> QED  BY ONLY <1>1, <1>3, <1>4
LEMMA RunFunctionStep ==
  ASSUME InStep, NEW q \in World, RunFunction(q)
  PROVE  InStep'
<1>1. /\ Alive(q) /\ Top(q).at = "barrier" /\ Complete(q, Top(q).machine)
      /\ stack' = [stack EXCEPT ![q][Len(stack[q])].at = "user"]
      /\ called' = called /\ done' = done
  BY DEF RunFunction, Returned, Is
<1> QED  BY ONLY InStep, q \in World, <1>1, ToUser

LEMMA ClonedFails ==
  ASSUME InStep, NEW q \in World, Cloned(q), Failed(q, Top(q).machine)
  PROVE  InStep'
<1>1. /\ Alive(q) /\ Top(q).at = "clone" /\ Complete(q, Top(q).machine)
      /\ stack' = [stack EXCEPT ![q][Len(stack[q])].at = "user"]
      /\ called' = called /\ done' = done
  BY DEF Cloned, Returned, Is
<1> QED  BY ONLY InStep, q \in World, <1>1, ToUser

\* Where a frame is for the same slaves as the last one, so is the one below the last.
LEMMA Nested ==
  ASSUME InStep, NEW q \in World, NEW n, n = Len(stack[q]),
         NEW k \in 1 .. (n - 1), stack[q][n - 1].world # stack[q][n].world
  PROVE  stack[q][k].world # stack[q][n].world
<1>0. n \in Nat  BY DEF InStep, ExecTypeOK
<1>1. k \in 1 .. n /\ n - 1 \in 1 .. n /\ n \in 1 .. n /\ n - 1 < n  BY <1>0
<1>2. /\ Len(stack[q][k].world.id) \in Nat /\ Len(stack[q][n - 1].world.id) \in Nat
      /\ Len(stack[q][n].world.id) \in Nat
  BY <1>1, FrameType DEF InStep
<1>3. StackShape(q)  BY DEF InStep, CallerOK, StackOK
<1>4. Len(stack[q][n - 1].world.id) < Len(stack[q][n].world.id)
  BY <1>1, <1>3 DEF StackShape
<1>5. CASE k = n - 1  BY <1>5
<1>6. CASE k # n - 1
  <2>1. k < n - 1  BY <1>0, <1>6
  <2>2. \/ stack[q][k].world = stack[q][n - 1].world
        \/ Len(stack[q][k].world.id) < Len(stack[q][n - 1].world.id)
    BY <2>1, <1>1, <1>3 DEF StackShape
  <2>3. CASE stack[q][k].world = stack[q][n - 1].world  BY <2>3
  <2>4. CASE Len(stack[q][k].world.id) < Len(stack[q][n - 1].world.id)
    <3>1. SUFFICES ASSUME stack[q][k].world = stack[q][n].world PROVE FALSE  OBVIOUS
    <3>2. Len(stack[q][k].world.id) = Len(stack[q][n].world.id)  BY <3>1
    <3>3. PICK a \in Nat : a = Len(stack[q][k].world.id)  BY <1>2
    <3>4. PICK b \in Nat : b = Len(stack[q][n - 1].world.id)  BY <1>2
    <3>5. b < a /\ a < b  BY ONLY <1>4, <2>4, <3>2, <3>3, <3>4
    <3> QED  BY ONLY <3>5, a \in Nat, b \in Nat
  <2> QED  BY <2>2, <2>3, <2>4
<1> QED  BY <1>5, <1>6

\* The call that ends a Process object is apart from the frames below.
LEMMA EndApart ==
  ASSUME InStep, NEW q \in World, Alive(q), NEW n, n = Len(stack[q]),
         NEW W, W = stack[q][n].world,
         n > 1 => stack[q][n - 1].world # W,
         NEW New, NEW k \in 1 .. (n - 1)
  PROVE  SetApart(stack[q][k], W, New)
<1>1. n \in Nat \ {0} /\ W # SELF /\ IsWorld(W)
  BY TopIs DEF FrameOK
<1>2. n > 1 /\ k \in 1 .. n  BY <1>1
<1>3. stack[q][k].world # W  BY <1>2, Nested
<1>4. FrameOK(q, stack[q][k])  BY <1>2 DEF InStep, CallerOK, StackOK
<1>5. stack[q][k].machine # W  BY <1>1, <1>4 DEF FrameOK
<1> QED  BY <1>3, <1>5 DEF SetApart

LEMMA OuterResumes ==
  ASSUME NEW q \in World, stack[q] \in Seq(Frames), NEW n \in Nat \ {0}, n = Len(stack[q]),
         NEW outer, outer = SubSeq(stack[q], 1, n - 1), NEW at,
         n > 1 => at = IF Root(stack[q][n - 1].world) # q THEN "slave" ELSE "user",
         stack' = [stack EXCEPT ![q] = IF outer = <<>> THEN <<>>
                                       ELSE [outer EXCEPT ![Len(outer)].at = at]]
  PROVE  Resumes(q, n)
<1>1. CASE n = 1
  <2>1. outer = <<>>  BY <1>1
  <2> QED  BY <2>1, <1>1 DEF Resumes
<1>2. CASE n # 1
  <2>1. PICK m \in Nat \ {0} : m = n - 1
    <3>1. n - 1 \in Nat \ {0}  BY ONLY <1>2, n \in Nat \ {0}
    <3> QED  BY ONLY <3>1
  <2>2. Len(outer) = m /\ outer # <<>> /\ outer[m] = stack[q][m]
    <3>1. outer \in Seq(Frames) /\ Len(outer) = m  BY <2>1
    <3>2. outer # <<>>  BY <3>1
    <3>3. outer[m] = stack[q][m]
      <4>1. m \in 1 .. m /\ m <= n /\ n \in Nat  BY ONLY <2>1, m \in Nat \ {0}, n \in Nat \ {0}
      <4>2. outer = SubSeq(stack[q], 1, m)  BY ONLY <2>1, outer = SubSeq(stack[q], 1, n - 1)
      <4> QED  BY ONLY <4>1, <4>2, n = Len(stack[q]), stack[q] \in Seq(Frames), m \in Nat \ {0}
    <3> QED  BY <3>1, <3>2, <3>3
  <2>3. PICK h : h = stack[q][m]  OBVIOUS
  <2>4. PICK g : g = [h EXCEPT !.at = at]  OBVIOUS
  <2>5. [outer EXCEPT ![Len(outer)].at = at] = [outer EXCEPT ![m] = g]
    BY ONLY <2>2, <2>3, <2>4
  <2>6. stack' = [stack EXCEPT ![q] = [SubSeq(stack[q], 1, n - 1) EXCEPT ![n - 1] = g]]
    BY <2>1, <2>2, <2>5
  <2>7. at = IF Root(h.world) # q THEN "slave" ELSE "user"
    <3>1. n > 1  BY ONLY <1>2, n \in Nat \ {0}
    <3> QED  BY <3>1, <2>1, <2>3
  <2> QED  BY ONLY <1>2, <2>1, <2>3, <2>4, <2>6, <2>7 DEF Resumes
<1> QED  BY <1>1, <1>2

LEMMA LeaveStep ==
  ASSUME InStep, NEW q \in World, Alive(q), Leave(q),
         \/ Len(stack[q]) = 1 /\ Top(q).at = "user"
         \/ Top(q).machine # SELF /\ LeftAt(q, Top(q).machine)
  PROVE  InStep'
<1>0. PICK n : n = Len(stack[q])  OBVIOUS
<1>1. PICK X, Y : X = Top(q).world /\ Y = Top(q).machine  OBVIOUS
<1>2. /\ n \in Nat \ {0} /\ stack[q] \in Seq(Frames) /\ n \in 1 .. n
      /\ Top(q) = stack[q][n] /\ FrameOK(q, Top(q)) /\ StackShape(q)
      /\ X \in Comms /\ Y \in Comms /\ X = stack[q][n].world
  BY <1>0, <1>1, TopIs
<1>3. q = Root(X) /\ Made(q, X) /\ IsWorld(X) /\ Number(q, X) % 2 = 0
  BY <1>1, <1>2 DEF FrameOK
<1>4. ExecTypeOK /\ CallsAgree  BY DEF InStep
<1>5. Y = SELF \/ LeftAt(q, Y)
  <2>1. Len(stack[q]) = 1 => stack[q][1].machine = SELF  BY <1>0, <1>2 DEF StackShape, Alive
  <2> QED  BY <2>1, <1>0, <1>1, <1>2
<1>6. done' = [done EXCEPT ![q] = @ \cup {Y}]  BY <1>1 DEF Leave
<1>7. /\ done' \in [World -> SUBSET Comms]
      /\ \A r \in World : r # q => done'[r] = done[r]
      /\ \A Z \in done'[q] : Z \in done[q] \/ Z = SELF \/ LeftAt(q, Z)
  BY <1>2, <1>4, <1>5, <1>6 DEF ExecTypeOK
<1>8. Resumes(q, n)
  <2>1. PICK outer : outer = SubSeq(stack[q], 1, n - 1)  OBVIOUS
  <2>2. PICK at : at = IF outer # <<>> /\ Root(outer[Len(outer)].world) # q THEN "slave" ELSE "user"
    OBVIOUS
  <2>3. stack' = [stack EXCEPT ![q] = IF outer = <<>> THEN <<>>
                                      ELSE [outer EXCEPT ![Len(outer)].at = at]]
    BY <1>0, <2>1, <2>2 DEF Leave
  <2>4. n > 1 => at = IF Root(stack[q][n - 1].world) # q THEN "slave" ELSE "user"
    <3>1. SUFFICES ASSUME n > 1
                   PROVE  at = IF Root(stack[q][n - 1].world) # q THEN "slave" ELSE "user"
      OBVIOUS
    <3>2. Len(outer) = n - 1 /\ outer \in Seq(Frames)  BY <1>0, <1>2, <2>1
    <3>3. outer # <<>> /\ outer[n - 1] = stack[q][n - 1]
      <4>1. PICK m \in Nat \ {0} : m = n - 1
        <5>1. n - 1 \in Nat \ {0}  BY ONLY <1>2, <3>1
        <5> QED  BY ONLY <5>1
      <4>2. m \in 1 .. m /\ m <= n /\ n \in Nat  BY ONLY <1>2, <4>1, m \in Nat \ {0}
      <4>3. outer = SubSeq(stack[q], 1, m)  BY ONLY <2>1, <4>1
      <4>4. outer[m] = stack[q][m]  BY ONLY <4>2, <4>3, <1>0, <1>2, m \in Nat \ {0}
      <4>5. outer # <<>>  BY ONLY <3>2, <4>1, m \in Nat \ {0}
      <4> QED  BY ONLY <4>1, <4>4, <4>5
    <3> QED  BY ONLY <2>2, <3>2, <3>3
  <2> QED  BY ONLY q \in World, <1>0, <1>2, <2>1, <2>3, <2>4, OuterResumes
<1>9. CASE Rehooked(q)
  <2>1. called' = called
    <3>1. called' = [called EXCEPT ![q] = @]  BY <1>9 DEF Leave
    <3> QED  BY <3>1, <1>4 DEF ExecTypeOK
  <2>2. PICK New : New = {}  OBVIOUS
  <2>3. Enters(q, X, New) /\ MayEnter(q, X, New)
    <3>1. WorldEntry(q, X, New)  BY <2>2 DEF WorldEntry
    <3> QED  BY <3>1, <2>1, <2>2, <1>3, <1>4, NoCall DEF MayEnter
  <2>4. \A k \in 1 .. (n - 1) : SetApart(stack[q][k], X, New)  BY <2>2 DEF SetApart
  <2> QED  BY ONLY InStep, q \in World, Alive(q), <1>0, <1>7, <1>8, <2>3, <2>4, Pop
<1>10. CASE ~ Rehooked(q)
  <2>1. PICK c : c = NextCall(q, X, "exec", 0)  OBVIOUS
  <2>2. called' = [called EXCEPT ![q] = @ \cup {c}]
    <3>1. called' = [called EXCEPT ![q] = Signal(q, X)]  BY <1>1, <1>10 DEF Leave
    <3> QED  BY <3>1, <2>1 DEF Signal
  <2>3. PICK New : New = {c}  OBVIOUS
  <2>4. Enters(q, X, New)
    <3>1. "exec" \in ExecOps /\ 0 \in Int  BY DEF ExecOps
    <3> QED  BY <3>1, <2>1, <2>2, <2>3, <1>2, <1>4, OneCall
  <2>5. MayEnter(q, X, New)
    <3>1. c.op = "exec" /\ c.val = 0 /\ c.i = Number(q, X) + 1  BY <2>1 DEF NextCall
    <3>2. c.i % 2 = 1
      <4>1. Number(q, X) \in Nat  BY <1>4, NumberType
      <4> QED  BY <3>1, <4>1, <1>3, Parity
    <3>3. WorldEntry(q, X, New)  BY <3>1, <3>2, <2>3, <1>3 DEF WorldEntry
    <3> QED  BY <3>3, <1>3 DEF MayEnter
  <2>6. n > 1 => stack[q][n - 1].world # X
    BY <1>0, <1>1, <1>10 DEF Rehooked
  <2>7. \A k \in 1 .. (n - 1) : SetApart(stack[q][k], X, New)
    BY ONLY InStep, q \in World, Alive(q), <1>0, <1>2, <2>6, EndApart
  <2> QED  BY ONLY InStep, q \in World, Alive(q), <1>0, <1>7, <1>8, <2>4, <2>5, <2>7, Pop
<1> QED  BY <1>9, <1>10

\* A slave whose master is gone.
LEMMA WakeEnds ==
  ASSUME InStep, NEW q \in World, Is(q, "slave"), NEW X, X = Top(q).world,
         NEW c \in Calls(Root(X), X), c.i = Number(q, X) + 1, ~ (c.val > 0),
         stack' = [stack EXCEPT ![q] =
                     LET outer == SubSeq(@, 1, Len(@) - 1) IN
                       IF outer = <<>> THEN <<>>
                       ELSE [outer EXCEPT ![Len(outer)].at = "slave"]],
         called' = [called EXCEPT ![q] = @ \cup {c}], done' = done
  PROVE  InStep'
<1>0. PICK n : n = Len(stack[q])  OBVIOUS
<1>1. Alive(q) /\ Top(q).at = "slave" /\ ExecTypeOK /\ CallsAgree  BY DEF Is, InStep
<1>2. /\ n \in Nat \ {0} /\ stack[q] \in Seq(Frames) /\ n \in 1 .. n
      /\ Top(q) = stack[q][n] /\ FrameOK(q, Top(q)) /\ StackShape(q)
      /\ X \in Comms /\ X.members \subseteq World /\ q \in X.members /\ X = stack[q][n].world
  BY <1>0, <1>1, TopIs
<1>3. Top(q).machine = SELF /\ Made(q, X) /\ IsWorld(X)
  BY <1>1, <1>2 DEF FrameOK, Position
<1>4. Root(X) \in World  BY <1>2, RootIs
<1>5. c \in called[Root(X)] /\ c.comm = X  BY DEF Calls
<1>6. WorldCall(Root(X), c)  BY <1>1, <1>3, <1>4, <1>5 DEF CallsAgree, CallOK
<1>7. PICK New : New = {c}  OBVIOUS
<1>8. Enters(q, X, New)
  <2>1. c \in CallRecords  BY <1>1, <1>4, <1>5, CallType
  <2>2. Cardinality(New) = 1 /\ IsFiniteSet(New)  BY <1>7, FS_Singleton
  <2>3. Number(q, X) \in Nat  BY <1>1, NumberType
  <2> QED  BY <2>1, <2>2, <2>3, <1>5, <1>7 DEF Enters
<1>9. MayEnter(q, X, New)
  <2>1. WorldEntry(q, X, New)
    BY <1>5, <1>6, <1>7 DEF WorldEntry, WorldCall
  <2> QED  BY <2>1, <1>3 DEF MayEnter
<1>10. n > 1 => /\ q # Root(stack[q][n - 1].world)
                /\ stack[q][n - 1].world # X
  <2>1. SUFFICES ASSUME n > 1
                 PROVE  q # Root(stack[q][n - 1].world) /\ stack[q][n - 1].world # X
    OBVIOUS
  <2>2. n \in 2 .. n /\ n - 1 \in 1 .. n /\ n - 1 < n  BY <2>1, <1>2
  <2>3. q # Root(stack[q][n - 1].world)  BY <2>2, <1>0, <1>2, <1>3 DEF StackShape
  <2>4. FrameOK(q, stack[q][n - 1])  BY <2>2, <1>0 DEF InStep, CallerOK, StackOK
  <2>5. stack[q][n - 1].machine = SELF  BY <2>3, <2>4 DEF FrameOK
  <2>6. Len(stack[q][n - 1].world.id) < Len(stack[q][n].world.id)
    BY <2>2, <2>5, <1>0, <1>2 DEF StackShape
  <2>7. Len(stack[q][n].world.id) \in Nat  BY <1>0, <1>1, <1>2, FrameType
  <2>8. ASSUME stack[q][n - 1].world = X PROVE FALSE
    <3>1. Len(stack[q][n].world.id) < Len(stack[q][n].world.id)  BY <2>6, <2>8, <1>2
    <3>2. PICK a \in Nat : a = Len(stack[q][n].world.id)  BY <2>7
    <3>3. a < a  BY ONLY <3>1, <3>2
    <3> QED  BY ONLY <3>3, a \in Nat
  <2> QED  BY <2>3, <2>8
<1>11. Resumes(q, n)
  <2>1. PICK outer : outer = SubSeq(stack[q], 1, n - 1)  OBVIOUS
  <2>2. PICK at : at = "slave"  OBVIOUS
  <2>3. stack' = [stack EXCEPT ![q] = IF outer = <<>> THEN <<>>
                                      ELSE [outer EXCEPT ![Len(outer)].at = at]]
    BY <1>0, <2>1, <2>2
  <2>4. n > 1 => at = IF Root(stack[q][n - 1].world) # q THEN "slave" ELSE "user"
    BY ONLY <2>2, <1>10
  <2> QED  BY ONLY q \in World, <1>0, <1>2, <2>1, <2>3, <2>4, OuterResumes
<1>12. \A k \in 1 .. (n - 1) : SetApart(stack[q][k], X, New)
  <2>1. n > 1 => stack[q][n - 1].world # X  BY <1>10
  <2> QED  BY ONLY InStep, q \in World, <1>1, <1>0, <1>2, <2>1, EndApart
<1>13. /\ done' \in [World -> SUBSET Comms]
       /\ \A r \in World : r # q => done'[r] = done[r]
       /\ \A Z \in done'[q] : Z \in done[q] \/ Z = SELF \/ LeftAt(q, Z)
  BY <1>1 DEF ExecTypeOK
<1> QED  BY ONLY InStep, q \in World, <1>1, <1>0, <1>8, <1>9, <1>11, <1>12, <1>13, Pop
----------------------------------------------------------------------------
(* The actions: calls for a process and its slaves *)

LEMMA SplitStep ==
  ASSUME InStep, NEW q \in World, Alive(q), NEW X, X = Top(q).world,
         NEW v, v \in Nat \ {0}, Split(q, v),
         Top(q).at = "user" \/ (Top(q).at = "slave" /\ q # Root(X)),
         NEW c, NEW d, Two(q, X, v, c, d),
         q = Root(X) \/ {c, d} \subseteq called[Root(X)]
  PROVE  InStep'
<1>0. PICK n : n = Len(stack[q])  OBVIOUS
<1>1. PICK h : h = Top(q)  OBVIOUS
<1>2. PICK g : g = [h EXCEPT !.at = "split"]  OBVIOUS
<1>3. /\ n \in Nat \ {0} /\ stack[q] \in Seq(Frames) /\ n \in 1 .. n
      /\ h = stack[q][n] /\ h \in Frames /\ FrameOK(q, h) /\ StackShape(q)
      /\ h.machine.members \subseteq World /\ X \in Comms /\ X # SELF /\ X = stack[q][n].world
      /\ h.world = X /\ q \in X.members
  BY <1>0, <1>1, TopIs
<1>4. Becomes(h, "split", g)
  <2>1. "split" \in ExecPlaces  BY DEF ExecPlaces, ExecOps
  <2> QED  BY ONLY <2>1, <1>2, <1>3, At
<1>5. ExecTypeOK /\ CallsAgree  BY DEF InStep
<1>6. g.at = "split" /\ g.world = X /\ g.machine = h.machine /\ g \in Frames
  BY <1>3, <1>4 DEF Becomes
<1>7. PICK New : New = {c, d}  OBVIOUS
<1>8. Number(q, X) \in Nat /\ Number(q, X) % 2 = 0 /\ IsWorld(X) /\ Made(q, X)
  BY <1>3, <1>5, NumberType DEF FrameOK
<1>9. /\ c = [comm |-> X, i |-> Number(q, X) + 1, op |-> "exec", val |-> v]
      /\ d = [comm |-> X, i |-> Number(q, X) + 2, op |-> "split", val |-> v]
  BY <1>8 DEF NextCall, Two
<1>10. Enters(q, X, New) /\ Cardinality(New) = 2
  <2>1. Calling(q, New)  BY <1>7 DEF Split, Two, Calling
  <2>2. v \in Int  OBVIOUS
  <2>3. X \in Comms  BY <1>3
  <2>4. ExecTypeOK  BY <1>5
  <2> QED
    BY ONLY q \in World, Two(q, X, v, c, d), <1>7, <2>1, <2>2, <2>3, <2>4, TwoCalls
<1>11. MayEnter(q, X, New)
  <2>1. c.i % 2 = 1 /\ d.i % 2 = 0  BY ONLY <1>8, <1>9, Parity
  <2>2. c.op = "exec" /\ d.op = "split" /\ d.val > 0 /\ c.i + 1 = d.i
        /\ d = [comm |-> X, i |-> c.i + 1, op |-> "split", val |-> c.val]
    BY ONLY <1>8, <1>9, v \in Nat \ {0}
  <2>3. WorldEntry(q, X, New)
    BY <2>1, <2>2, <1>7 DEF WorldEntry
  <2> QED  BY ONLY <2>3, <1>8 DEF MayEnter
<1>12. h.machine # X
  BY <1>3, <1>8 DEF FrameOK
<1>13. FrameOK(q, h)'
  BY <1>3, <1>5, <1>10, <1>11, <1>12, FrameKept
<1>14. Number(q, X)' > 0
  <2>1. Number(q, X)' = Number(q, X) + 2
    BY <1>3, <1>5, <1>10, Entered DEF CallsAgree
  <2> QED  BY ONLY <2>1, <1>8
<1>15. FrameOK(q, g)'
  <2>1. /\ IsWorld(X) /\ Made(q, X)' /\ Number(q, X)' % 2 = 0
        /\ h.machine # SELF => /\ q = Root(X) /\ ~ IsWorld(h.machine) /\ Made(q, h.machine)'
                               /\ Position(q, h)'
    BY ONLY <1>3, <1>13 DEF FrameOK, IsWorld, SELF, Root
  <2>2. h.machine # SELF => Position(q, g)'
    <3>1. SUFFICES ASSUME h.machine # SELF PROVE Position(q, g)'  OBVIOUS
    <3>2. h.at = "user"
      <4>1. FrameOK(q, h)  BY <1>3
      <4>2. q = Root(X)  BY <2>1, <3>1
      <4> QED  BY <4>2, <1>1
    <3>3. Position(q, h)'  BY <2>1, <3>1
    <3> QED  BY ONLY <3>2, <3>3, <1>6 DEF Position, Base, IsMachine
  <2>3. g.machine = SELF => g.at \in {"slave", "user", "split"}  BY <1>6
  <2> QED  BY ONLY <2>1, <2>2, <1>6, <1>14 DEF FrameOK, IsWorld, SELF, Root
<1>16. PICK t \in Seq(Frames) : t = [stack[q] EXCEPT ![n] = g]
  BY ONLY <1>0, <1>3, <1>6, ExceptSeq
<1>17. /\ Len(t) = n /\ t[n] = g
       /\ \A k \in 1 .. (n - 1) : t[k] = stack[q][k]
  BY ONLY <1>0, <1>3, <1>16
<1>18. stack' = [stack EXCEPT ![q] = t]
  <2>1. stack' = [stack EXCEPT ![q][n].at = "split"]  BY <1>0 DEF Split
  <2> QED  BY ONLY <2>1, <1>2, <1>3, <1>5, <1>16, q \in World DEF ExecTypeOK
<1>19. StackOK(q)' /\ stack' \in [World -> Seq(Frames)] /\ stack'[q] = t
       /\ \A r \in World : r # q => stack'[r] = stack[r]
  <2>1. \A k \in 1 .. (n - 1) : SetApart(stack[q][k], X, New)
    BY ONLY InStep, q \in World, Alive(q), <1>0, <1>3, <1>10, BelowApart DEF Alive
  <2>2. n <= Len(stack[q]) /\ n \in Nat  BY ONLY <1>0, <1>3
  <2>3. FrameOK(q, t[n])'
    <3>1. PICK f : f = t[n]  OBVIOUS
    <3> QED  BY ONLY <3>1, <1>15, <1>17
  <2>4. t[n].world = stack[q][n].world /\ t[n].machine = stack[q][n].machine /\ FrameOK(q, t[n])'
    BY ONLY <1>3, <1>6, <1>17, <2>3
  <2>5. n > 1 /\ t[n].machine = SELF => t[n].at # "user" /\ (t[n].at = "split" => q # Root(t[n].world))
    <3>1. SUFFICES ASSUME n > 1, g.machine = SELF PROVE q # Root(X)
      BY <1>6, <1>17
    <3>2. n \in 2 .. n  BY ONLY <3>1, <1>3
    <3>3. h.at # "user"  BY ONLY <3>1, <3>2, <1>0, <1>3, <1>6 DEF StackShape
    <3> QED  BY <3>3, <1>1
  <2> QED
    BY ONLY InStep, q \in World, t \in Seq(Frames), <1>10, <1>11, <1>17, <1>18, <2>1, <2>2, <2>4, <2>5, Cut
<1>20. Fresh(q)'
  <2>1. Top(q)' = g
    <3>1. Len(stack'[q]) = n  BY <1>17, <1>19
    <3> QED  BY ONLY <3>1, <1>17, <1>19 DEF Top
  <2>2. \A e \in New : e.val \in Nat \ {0}
    BY ONLY <1>7, <1>9, v \in Nat \ {0}
  <2>3. /\ g.at = "split" => g.world = X /\ \A e \in New : e.val \in Nat \ {0}
        /\ g.at = "clone" => g.machine = X
        /\ New # {}
    BY ONLY <2>2, <1>6, <1>7
  <2> QED  BY ONLY q \in World, <1>5, <1>10, <1>11, <2>1, <2>3, FreshStep
<1>21. done' = done  BY DEF Split
<1> QED
  BY ONLY InStep, q \in World, <1>5, <1>10, <1>11, <1>19, <1>20, <1>21, Conclude DEF ExecTypeOK

LEMMA StartExecStep ==
  ASSUME InStep, NEW q \in World, NEW P \in Requests, StartExec(q, P)
  PROVE  InStep'
<1>1. Alive(q) /\ Top(q).at = "user"  BY DEF StartExec, Is
<1>2. PICK X : X = Top(q).world  OBVIOUS
<1>3. X.members \subseteq World /\ q \in X.members /\ FrameOK(q, Top(q))
  BY <1>1, <1>2, TopIs
<1>4. q = Root(X)  BY <1>1, <1>2, <1>3 DEF FrameOK
<1>5. PICK v : v = Min({Cardinality(X.members), P})  OBVIOUS
<1>6. v \in Nat \ {0}
  <2>1. IsFiniteSet(X.members)  BY <1>3, ExecAssumption, FS_Subset
  <2>2. Cardinality(X.members) \in Nat \ {0}
    BY <2>1, <1>3, FS_CardinalityType, FS_EmptySet
  <2>3. P \in Nat \ {0}  BY ExecAssumption
  <2>4. PICK S : S = {Cardinality(X.members), P}  OBVIOUS
  <2>5. IsFiniteSet(S)
    <3>1. IsFiniteSet({Cardinality(X.members)})  BY FS_Singleton
    <3>2. IsFiniteSet({Cardinality(X.members)} \cup {P})  BY ONLY <3>1, FS_AddElement
    <3>3. S = {Cardinality(X.members)} \cup {P}  BY <2>4
    <3> QED  BY ONLY <3>2, <3>3
  <2>6. S \in SUBSET Int /\ S # {}  BY ONLY <2>2, <2>3, <2>4
  <2>7. Min(S) \in S  BY ONLY <2>5, <2>6, MinIs
  <2> QED  BY ONLY <2>2, <2>3, <2>4, <2>7, <1>5
<1>7. Split(q, v)  BY <1>2, <1>5 DEF StartExec
<1>8. PICK c : c = NextCall(q, X, "exec", v)  OBVIOUS
<1>9. PICK d : d = [NextCall(q, X, "split", v) EXCEPT !.i = @ + 1]  OBVIOUS
<1>10. Two(q, X, v, c, d)  BY <1>8, <1>9 DEF Two
<1> QED
  BY ONLY InStep, q \in World, <1>1, <1>2, <1>4, <1>6, <1>7, <1>10, SplitStep

LEMMA WakeStep ==
  ASSUME InStep, NEW q \in World, Wake(q)
  PROVE  InStep'
<1>1. Alive(q) /\ Top(q).at = "slave" /\ Is(q, "slave") /\ ExecTypeOK /\ CallsAgree
  BY DEF Wake, Is, InStep
<1>2. PICK X : X = Top(q).world  OBVIOUS
<1>3. PICK c \in Calls(Root(X), X) :
       /\ c.i = Number(q, X) + 1
       /\ IF c.val > 0 THEN Split(q, c.val)
          ELSE /\ stack' = [stack EXCEPT ![q] =
                    LET outer == SubSeq(@, 1, Len(@) - 1) IN
                      IF outer = <<>> THEN <<>>
                      ELSE [outer EXCEPT ![Len(outer)].at = "slave"]]
               /\ called' = [called EXCEPT ![q] = @ \cup {c}]
               /\ UNCHANGED done
  BY <1>2 DEF Wake
<1>4. CASE ~ (c.val > 0)
  BY ONLY InStep, q \in World, c \in Calls(Root(X), X), <1>1, <1>2, <1>3, <1>4, WakeEnds
<1>5. CASE c.val > 0
  <2>1. X.members \subseteq World /\ q \in X.members /\ FrameOK(q, Top(q))
    BY <1>1, <1>2, TopIs
  <2>2. IsWorld(X) /\ Number(q, X) % 2 = 0 /\ Number(q, X) \in Nat
    BY <2>1, <1>1, <1>2, NumberType DEF FrameOK
  <2>3. Root(X) \in World  BY <2>1, RootIs
  <2>4. c \in called[Root(X)] /\ c.comm = X  BY DEF Calls
  <2>5. WorldCall(Root(X), c) /\ c.i \in 1 .. Number(Root(X), X)
    BY <1>1, <2>2, <2>3, <2>4 DEF CallsAgree, CallOK, Listed
  <2>6. c.val \in Nat \ {0} /\ c = [comm |-> X, i |-> c.i, op |-> c.op, val |-> c.val]
    <3>1. c.val \in Int /\ c = [comm |-> c.comm, i |-> c.i, op |-> c.op, val |-> c.val]
      BY <1>1, <2>3, <2>4, CallType
    <3> QED  BY ONLY <3>1, <2>4, <1>5
  <2>7. c.op = "exec"
    <3>1. c.i % 2 = 1  BY ONLY <1>3, <2>2, Parity
    <3> QED  BY ONLY <3>1, <2>5 DEF WorldCall
  <2>8. [comm |-> X, i |-> c.i + 1, op |-> "split", val |-> c.val] \in called[Root(X)]
    BY <2>4, <2>5, <2>7, <1>5 DEF WorldCall
  <2>9. q # Root(X)
    BY ONLY <1>3, <2>2, <2>5
  <2>10. PICK v : v = c.val  OBVIOUS
  <2>11. PICK d : d = [NextCall(q, X, "split", v) EXCEPT !.i = @ + 1]  OBVIOUS
  <2>12. c = NextCall(q, X, "exec", v)
    BY ONLY <2>6, <2>7, <2>10, <1>3 DEF NextCall
  <2>13. d \in called[Root(X)]
    <3>1. d = [comm |-> X, i |-> c.i + 1, op |-> "split", val |-> v]
      BY ONLY <2>2, <2>11, <1>3 DEF NextCall
    <3> QED  BY ONLY <3>1, <2>8, <2>10
  <2>14. {c, d} \subseteq called[Root(X)]  BY ONLY <2>4, <2>13
  <2>15. Split(q, v) /\ v \in Nat \ {0}  BY <1>3, <1>5, <2>6, <2>10
  <2>16. Two(q, X, v, c, d)  BY ONLY <2>11, <2>12 DEF Two
  <2> QED
    BY ONLY InStep, q \in World, <1>1, <1>2, <2>9, <2>14, <2>15, <2>16, SplitStep
<1> QED  BY <1>4, <1>5
----------------------------------------------------------------------------
(* The actions: new communicators *)

\* Every machine of the stack has calls of its process.
LEMMA HasCalls ==
  ASSUME InStep, NEW q \in World, NEW f, FrameOK(q, f), f.machine # SELF
  PROVE  Number(q, f.machine) >= 1
<1>1. Position(q, f)  BY DEF FrameOK
<1>2. /\ Base(f.machine) \in Nat /\ Base(f.machine) >= 2 /\ NSymbols \in Nat
      /\ Number(q, f.machine) \in Nat
  BY BaseType, NumberType DEF InStep
<1>3. /\ f.at \in {"table", "symbol", "interface", "barrier", "user", "split", "clone", "sync"}
      /\ f.at = "table" => Number(q, f.machine) = 1
      /\ f.at = "symbol" => /\ f.left \in 0 .. NSymbols
                            /\ Number(q, f.machine) = NSymbols + 2 - f.left
      /\ f.at = "interface" => Number(q, f.machine) = Base(f.machine) - 1
      /\ f.at = "barrier" => Number(q, f.machine) = Base(f.machine)
      /\ f.at \in {"user", "split"} => Number(q, f.machine) >= Base(f.machine)
      /\ f.at \in {"clone", "sync"} => Number(q, f.machine) > Base(f.machine)
  BY ONLY <1>1 DEF Position
<1> QED  BY ONLY <1>2, <1>3

LEMMA NoneYet ==
  ASSUME ExecTypeOK, NEW q \in World, NEW X, \A c \in called[q] : c.comm # X
  PROVE  Number(q, X) = 0 /\ Calls(q, X) = {}
<1>1. Calls(q, X) = {}  BY DEF Calls
<1> QED  BY <1>1, FS_EmptySet DEF Number

\* The first call of a process on a machine or a copy of one, with a frame for it.
Opens(q, M, op) == /\ op = OpAt(M, 1)
                   /\ (op = "table" /\ IsMachine(M)) \/ (op = "interface" /\ Base(M) = 2)
                   /\ \A c \in called[q] : c.comm # M

\* A frame for W can come on the n-th one.
Above(q, n, W) == /\ stack[q][n].at \in {"split", "clone"}
                  /\ stack[q][n].at = "clone" => Complete(q, stack[q][n].machine)
                  /\ \/ stack[q][n].world = W /\ stack[q][n].machine # SELF
                     \/ Len(stack[q][n].world.id) < Len(W.id)
Pushes(q, g) == stack' = [stack EXCEPT ![q] = Append(@, g)]

LEMMA PushCall ==
  ASSUME InStep, NEW q \in World, Alive(q), NEW n, n = Len(stack[q]),
         NEW M, Made(q, M), ~ IsWorld(M),
         NEW W, Made(q, W), IsWorld(W), Number(q, W) % 2 = 0, q = Root(W),
         NEW op, Opens(q, M, op),
         NEW v, v \in {0, -1}, Makes(q, M, op, v),
         NEW g, g = Frame(op, W, M), Pushes(q, g), Above(q, n, W),
         done' = done
  PROVE  InStep'
<1>a. /\ op = OpAt(M, 1)
      /\ (op = "table" /\ IsMachine(M)) \/ (op = "interface" /\ Base(M) = 2)
      /\ \A c \in called[q] : c.comm # M
  BY DEF Opens
<1>1. ExecTypeOK /\ CallsAgree  BY DEF InStep
<1>2. /\ n \in Nat \ {0} /\ stack[q] # <<>>
  BY TopIs DEF Alive
<1>3. M \in Comms /\ q \in M.members /\ W \in Comms /\ q \in W.members
  BY <1>1, MadeHow
<1>4. M.members \subseteq World /\ M # SELF /\ W # M /\ Len(W.id) \in Nat
  <2>1. M.members \subseteq World /\ W.id \in Seq(Marks)  BY <1>3 DEF Comms
  <2>2. M # SELF  BY <1>3 DEF SELF, Comm
  <2> QED  BY <2>1, <2>2, LenProperties
<1>5. Number(q, M) = 0 /\ Calls(q, M) = {}  BY <1>1, <1>a, NoneYet
<1>6. PICK c : c = NextCall(q, M, op, v)  OBVIOUS
<1>7. PICK New : New = {c}  OBVIOUS
<1>8. CanCall(q, M, op)
  <2>1. \A r \in M.members : Number(q, M) <= Number(r, M)
    <3>1. \A r \in M.members : Number(r, M) \in Nat  BY <1>1, <1>4, NumberType
    <3> QED  BY <3>1, <1>5
  <2>2. Base(M) \in Nat /\ Base(M) >= 2  BY BaseType
  <2>3. NoneFailed(q, M)
    <3>1. SUFFICES ASSUME NEW r \in M.members, NEW d \in Calls(r, M), d.i = Number(q, M)
                   PROVE  FALSE
      BY DEF NoneFailed
    <3>2. r \in World  BY <1>4
    <3>3. d.i \in 1 .. Number(r, M)  BY <3>2, <1>1, CallAt
    <3> QED  BY ONLY <3>1, <3>3, <1>5
  <2>4. /\ Number(q, M) + 1 = 1 /\ ~ (1 > Base(M)) /\ \A d \in Calls(q, M) : d.op # "sync"
    BY ONLY <2>2, <1>5
  <2>5. op = OpAt(M, Number(q, M) + 1) /\ ~ (Number(q, M) + 1 > Base(M))
    <3>1. op = OpAt(M, 1)  BY <1>a
    <3> QED  BY ONLY <3>1, <2>4
  <2> QED  BY ONLY <2>1, <2>3, <2>4, <2>5 DEF CanCall
<1>9. /\ Enters(q, M, New) /\ MayEnter(q, M, New)
      /\ Number(q, M)' = 1 /\ New # {}
  <2>1. op \in ExecOps /\ v \in Int  BY <1>a DEF ExecOps
  <2>2. /\ Enters(q, M, New) /\ MayEnter(q, M, New)
        /\ Number(q, M)' = Number(q, M) + 1
    BY ONLY q \in World, Made(q, M), ~ IsWorld(M), Makes(q, M, op, v),
       <1>1, <1>6, <1>7, <1>8, <2>1, MachineEnter
  <2> QED  BY ONLY <2>2, <1>5, <1>7
<1>10. g \in Frames /\ g.at = op /\ g.world = W /\ g.machine = M
  <2>1. op \in ExecPlaces  BY <1>a DEF ExecPlaces, ExecOps
  <2> QED  BY ONLY <2>1, <1>3, g = Frame(op, W, M) DEF Frame, Frames
<1>11. FrameOK(q, g)'
  <2>1. called[q] \subseteq called'[q] /\ Number(q, W)' = Number(q, W)
    BY <1>1, <1>3, <1>4, <1>9, Entered DEF CallsAgree
  <2>2. Made(q, W)' /\ Made(q, M)'  BY <2>1, MadeKept
  <2>3. Position(q, g)'
    <3>1. (op = "table" /\ IsMachine(M)) \/ (op = "interface" /\ Base(M) = 2)  BY <1>a
    <3> QED  BY ONLY <3>1, <1>9, <1>10 DEF Position, Base, IsMachine
  <2>4. /\ IsWorld(W) /\ ~ IsWorld(M) /\ q = Root(W) /\ Number(q, W)' % 2 = 0
        /\ op # "split" /\ op # "user"
    BY <1>a, <2>1
  <2> QED  BY ONLY <2>2, <2>3, <2>4, <1>4, <1>10 DEF FrameOK, IsWorld, SELF, Root
<1>12. ASSUME NEW k \in 1 .. n PROVE stack[q][k].machine # M /\ stack[q][k].world # M
  <2>1. FrameOK(q, stack[q][k])  BY DEF InStep, CallerOK, StackOK
  <2>2. PICK f : f = stack[q][k]  OBVIOUS
  <2>3. f.world # M  BY <2>1, <2>2 DEF FrameOK
  <2>4. f.machine # M
    <3>1. SUFFICES ASSUME f.machine = M PROVE FALSE  OBVIOUS
    <3>2. Number(q, f.machine) >= 1  BY <3>1, <1>4, <2>1, <2>2, HasCalls
    <3> QED  BY ONLY <3>1, <3>2, <1>5
  <2> QED  BY <2>2, <2>3, <2>4
<1>13. \A k \in 1 .. n : SetApart(stack[q][k], M, New)  BY <1>12 DEF SetApart
<1>14. /\ StackOK(q)' /\ stack' \in [World -> Seq(Frames)]
       /\ Alive(q)' /\ Top(q)' = g
       /\ \A r \in World : r # q => stack'[r] = stack[r]
  <2>1. g.machine # SELF  BY <1>4, <1>10
  <2>2. \A k \in 1 .. n : stack[q][k].machine # SELF => stack[q][k].machine # g.machine
    BY <1>10, <1>12
  <2>3. /\ \/ stack[q][n].world = g.world /\ stack[q][n].machine # SELF
           \/ Len(stack[q][n].world.id) < Len(g.world.id)
        /\ Len(g.world.id) \in Nat
    BY <1>4, <1>10 DEF Above
  <2>4. /\ stack' = [stack EXCEPT ![q] = Append(@, g)]
        /\ stack[q][n].at \in {"split", "clone"}
        /\ stack[q][n].at = "clone" => Complete(q, stack[q][n].machine)
    BY DEF Above, Pushes
  <2> QED
    BY ONLY InStep, q \in World, n = Len(stack[q]), <1>2, <1>9, <1>10, <1>11, <1>13,
       <2>1, <2>2, <2>3, <2>4, Push
<1>15. Fresh(q)'
  BY <1>a, <1>10, <1>14 DEF Fresh
<1>16. /\ done' \in [World -> SUBSET Comms]
       /\ \A r \in World : r # q => done'[r] = done[r]
       /\ \A Z \in done'[q] : Z \in done[q] \/ Z = SELF \/ LeftAt(q, Z)
  BY <1>1 DEF ExecTypeOK
<1> QED  BY ONLY InStep, q \in World, <1>9, <1>14, <1>15, <1>16, Conclude

\* The last call in the pair of an lpf_exec.
LEMMA LastSplit ==
  ASSUME InStep, NEW q \in World, Alive(q), Top(q).at = "split", NEW W, W = Top(q).world,
         NEW i, i = Number(q, W), NEW e, e = CHOOSE c \in Calls(q, W) : c.i = i
  PROVE  /\ e \in called[q] /\ e.comm = W /\ e.i = i /\ i \in Nat
         /\ e.op = "split" /\ e.val \in Nat \ {0}
<1>1. ExecTypeOK /\ CallsAgree  BY DEF InStep
<1>2. FrameOK(q, Top(q))  BY TopIs
<1>3. i > 0 /\ i % 2 = 0 /\ IsWorld(W) /\ i \in Nat
  BY <1>1, <1>2, NumberType DEF FrameOK
<1>4. PICK d \in called[q] : d.comm = W
  <2>1. Calls(q, W) # {}  BY <1>3, FS_EmptySet DEF Number
  <2> QED  BY <2>1 DEF Calls
<1>5. \E c \in Calls(q, W) : c.i = i
  <2>1. i \in 1 .. Number(q, W)  BY <1>3
  <2> QED  BY <2>1, <1>1, <1>4 DEF CallsAgree, Listed
<1>6. e \in Calls(q, W) /\ e.i = i  BY <1>5
<1>7. e \in called[q] /\ e.comm = W  BY <1>6 DEF Calls
<1>8. WorldCall(q, e)  BY <1>1, <1>3, <1>7 DEF CallsAgree, CallOK
<1>9. e.op = "split"  BY ONLY <1>3, <1>6, <1>8 DEF WorldCall
<1> QED  BY <1>1, <1>3, <1>6, <1>7, <1>9, SplitCall
\* Grouped, in terms of the split e.
GroupedBy(q, e) ==
  IF InMachine(q, Top(q).world, e.val)
    THEN \E v \in Verdicts("table") :
           /\ stack' = [stack EXCEPT ![q] = Append(@, Frame("table", SubOf(q, e), MachineOf(e)))]
           /\ called' = [called EXCEPT ![q] = @ \cup {NextCall(q, MachineOf(e), "table", v)}]
    ELSE /\ stack' = [stack EXCEPT ![q] = Append(@, Frame("slave", SubOf(q, e), SELF))]
         /\ called' = called

LEMMA GroupedIs ==
  ASSUME NEW q, Grouped(q), NEW e,
         e = CHOOSE c \in Calls(q, Top(q).world) : c.i = Number(q, Top(q).world),
         e.comm = Top(q).world, e.i = Number(q, Top(q).world)
  PROVE  GroupedBy(q, e)
<1> DEFINE world == Top(q).world
           i     == Number(q, world)
           req   == (CHOOSE c \in Calls(q, world) : c.i = i).val
           team  == {r \in world.members : Subgroup(r, world, req) = Subgroup(q, world, req)}
           asked == {r \in world.members : InMachine(r, world, req)}
           sub   == Comm(Append(world.id, <<i, Subgroup(q, world, req)>>), team)
           machine == Comm(Append(world.id, <<i, -1>>), asked)
<1>1. IF InMachine(q, world, req)
        THEN \E v \in Verdicts("table") :
               /\ stack' = [stack EXCEPT ![q] = Append(@, Frame("table", sub, machine))]
               /\ called' = [called EXCEPT ![q] = @ \cup {NextCall(q, machine, "table", v)}]
        ELSE /\ stack' = [stack EXCEPT ![q] = Append(@, Frame("slave", sub, SELF))]
             /\ called' = called
  BY DEF Grouped
<1>2. world = e.comm /\ i = e.i /\ req = e.val  OBVIOUS
<1>3. team = {r \in e.comm.members : Subgroup(r, e.comm, e.val) = Subgroup(q, e.comm, e.val)}
  BY ONLY <1>2
<1>4. asked = {r \in e.comm.members : InMachine(r, e.comm, e.val)}
  BY ONLY <1>2
<1>5. sub = SubOf(q, e)
  <2> HIDE DEF world, i, req, team
  <2> QED  BY ONLY <1>2, <1>3 DEF SubOf
<1>6. machine = MachineOf(e)
  <2> HIDE DEF world, i, req, asked
  <2> QED  BY ONLY <1>2, <1>4 DEF MachineOf
<1>7. InMachine(q, world, req) <=> InMachine(q, Top(q).world, e.val)
  <2>1. world = Top(q).world  OBVIOUS
  <2> HIDE DEF world, req
  <2> QED  BY ONLY <1>2, <2>1
<1> HIDE DEF world, i, req, sub, machine
<1> QED  BY ONLY <1>1, <1>5, <1>6, <1>7 DEF GroupedBy

LEMMA GroupedStep ==
  ASSUME InStep, NEW q \in World, Grouped(q)
  PROVE  InStep'
<1>0. PICK n : n = Len(stack[q])  OBVIOUS
<1>1. Alive(q) /\ Top(q).at = "split" /\ ExecTypeOK /\ CallsAgree
  BY DEF Grouped, Is, InStep
<1>2. PICK W, i : W = Top(q).world /\ i = Number(q, W)  OBVIOUS
<1>3. PICK e : e = CHOOSE c \in Calls(q, W) : c.i = i  OBVIOUS
<1>4. /\ e \in called[q] /\ e.comm = W /\ e.i = i /\ i \in Nat
      /\ e.op = "split" /\ e.val \in Nat \ {0}
  BY ONLY InStep, q \in World, <1>1, <1>2, <1>3, LastSplit
<1>5. PICK S, M : S = SubOf(q, e) /\ M = MachineOf(e)  OBVIOUS
<1>6. /\ S = Comm(Append(W.id, <<i, Subgroup(q, W, e.val)>>),
                  {r \in W.members : Subgroup(r, W, e.val) = Subgroup(q, W, e.val)})
      /\ M = Comm(Append(W.id, <<i, -1>>), {r \in W.members : InMachine(r, W, e.val)})
  BY <1>4, <1>5 DEF SubOf, MachineOf
<1>7. /\ n \in Nat \ {0} /\ n \in 1 .. n /\ Top(q) = stack[q][n] /\ FrameOK(q, Top(q)) /\ StackShape(q)
      /\ W \in Comms /\ W.members \subseteq World /\ q \in W.members /\ stack[q][n].world = W
      /\ W.id \in Seq(Marks)
  BY <1>0, <1>1, <1>2, TopIs DEF Comms
<1>8. Made(q, S) /\ (InMachine(q, W, e.val) => Made(q, M))
  BY <1>4, <1>5 DEF Made
<1>9. \A c \in called[q] : c.comm # S /\ c.comm # M
  BY <1>1, <1>2, <1>4, <1>5 DEF InStep, CallerOK, Fresh
<1>10. /\ IsWorld(S) /\ ~ IsWorld(M) /\ IsMachine(M) /\ Len(S.id) = Len(W.id) + 1
       /\ S.members = {r \in W.members : Subgroup(r, W, e.val) = Subgroup(q, W, e.val)}
       /\ Len(W.id) \in Nat /\ S \in Comms
  <2>1. PICK k \in Int : k = Subgroup(q, W, e.val) /\ k >= 0
    <3>1. Subgroup(q, W, e.val) \in Nat  BY <1>4, <1>7, SubgroupType
    <3> QED  BY <3>1
  <2>2. PICK l \in Int : l = -1  OBVIOUS
  <2>3. S.id = Append(W.id, <<i, k>>) /\ M.id = Append(W.id, <<i, l>>)
        /\ S.members = {r \in W.members : Subgroup(r, W, e.val) = Subgroup(q, W, e.val)}
    BY <1>6, <2>1, <2>2 DEF Comm
  <2>4. i \in Int  BY <1>4
  <2>5. IsWorld(S) /\ Len(S.id) = Len(W.id) + 1
    <3>1. W.id \in Seq(Marks) /\ S.id = Append(W.id, <<i, k>>)  BY ONLY <1>7, <2>3
    <3>2. IsWorld(S) <=> k >= 0
      BY ONLY <3>1, <2>4, k \in Int, Kinds
    <3>3. Len(S.id) = Len(W.id) + 1
      BY ONLY <3>1, <2>4, k \in Int, Kinds
    <3> QED  BY ONLY <3>2, <3>3, <2>1
  <2>6. ~ IsWorld(M) /\ IsMachine(M)
    <3>1. (IsWorld(M) <=> l >= 0) /\ (IsMachine(M) <=> l = -1)
      BY ONLY <1>7, <2>3, <2>4, l \in Int, Kinds
    <3> QED  BY <3>1, <2>2
  <2>7. Len(W.id) \in Nat  BY <1>7, LenProperties
  <2>8. S \in Comms  BY <1>1, <1>8, MadeHow
  <2> QED  BY <2>3, <2>5, <2>6, <2>7, <2>8
<1>11. /\ InMachine(q, W, e.val) => q = Root(S)
       /\ ~ InMachine(q, W, e.val) => q # Root(W)
  BY <1>4, <1>7, <1>10, RequestedIsRoot
<1>12. Number(q, S) = 0  BY <1>1, <1>9, NoneYet
<1>13. PICK z : z = 0  OBVIOUS
<1>14. done' = done  BY DEF Grouped
<1>15. IF InMachine(q, W, e.val)
         THEN \E v \in Verdicts("table") :
                /\ stack' = [stack EXCEPT ![q] = Append(@, Frame("table", S, M))]
                /\ called' = [called EXCEPT ![q] = @ \cup {NextCall(q, M, "table", v)}]
         ELSE /\ stack' = [stack EXCEPT ![q] = Append(@, Frame("slave", S, SELF))]
              /\ called' = called
  <2>1. e = CHOOSE c \in Calls(q, Top(q).world) : c.i = Number(q, Top(q).world)  BY <1>2, <1>3
  <2>2. e.comm = Top(q).world /\ e.i = Number(q, Top(q).world)  BY ONLY <1>2, <1>4
  <2>3. GroupedBy(q, e)
    BY ONLY Grouped(q), <2>1, <2>2, GroupedIs
  <2> QED  BY ONLY <2>3, <1>2, <1>5 DEF GroupedBy
<1>16. stack[q][n].at = "split" /\ Len(stack[q][n].world.id) < Len(S.id)
  <2>1. Len(W.id) < Len(S.id)  BY ONLY <1>10
  <2> QED  BY <2>1, <1>1, <1>7
<1>17. CASE InMachine(q, W, e.val)
  <2>1. PICK v \in Verdicts("table") :
                /\ stack' = [stack EXCEPT ![q] = Append(@, Frame("table", S, M))]
                /\ called' = [called EXCEPT ![q] = @ \cup {NextCall(q, M, "table", v)}]
    BY <1>15, <1>17
  <2>2. PICK op : op = "table"  OBVIOUS
  <2>3. v \in {0, -1}  BY VerdictsType
  <2>4. PICK g : g = Frame(op, S, M)  OBVIOUS
  <2>5. Makes(q, M, op, v) /\ Pushes(q, g)
    BY ONLY <2>1, <2>2, <2>4 DEF Makes, Pushes
  <2>6. Opens(q, M, op)
    <3>1. Base(M) = NSymbols + 4 /\ NSymbols \in Nat  BY <1>10, BaseType
    <3>2. 1 # Base(M) /\ 1 # Base(M) - 1  BY ONLY <3>1
    <3>3. \A c \in called[q] : c.comm # M  BY <1>9
    <3>4. op = OpAt(M, 1)  BY ONLY <3>2, <2>2 DEF OpAt
    <3>5. IsMachine(M)  BY <1>10
    <3> QED  BY ONLY <3>3, <3>4, <3>5, <2>2 DEF Opens
  <2>7. Number(q, S) % 2 = 0  BY <1>12
  <2>8. Made(q, M) /\ ~ IsWorld(M) /\ Made(q, S) /\ IsWorld(S) /\ q = Root(S)
    BY <1>8, <1>10, <1>11, <1>17
  <2>9. Above(q, n, S)  BY ONLY <1>16 DEF Above
  <2> QED
    BY ONLY InStep, q \in World, <1>0, <1>1, <1>14,
       <2>3, <2>4, <2>5, <2>6, <2>7, <2>8, <2>9, PushCall
<1>18. CASE ~ InMachine(q, W, e.val)
  <2>1. PICK g : g = Frame("slave", S, SELF)  OBVIOUS
  <2>2. stack' = [stack EXCEPT ![q] = Append(@, g)] /\ called' = called
    BY ONLY <1>15, <1>18, <2>1
  <2>3. g.at = "slave" /\ g.world = S /\ g.machine = SELF  BY <2>1 DEF Frame
  <2>4. g \in Frames
    <3>1. SELF \in Comms
      <4>1. <<>> \in Seq(Marks)  BY EmptySeq
      <4> QED  BY <4>1 DEF SELF, Comm, Comms
    <3>2. "slave" \in ExecPlaces  BY DEF ExecPlaces
    <3> QED  BY ONLY <3>1, <3>2, <1>10, <2>1 DEF Frame, Frames
  <2>5. FrameOK(q, g)
    <3>1. Number(q, S) % 2 = 0  BY <1>12
    <3> QED  BY <3>1, <2>3, <1>8, <1>10 DEF FrameOK
  <2>6. PICK X, New : X = W /\ New = {}  OBVIOUS
  <2>7. Enters(q, X, New) /\ MayEnter(q, X, New)
    <3>1. Made(q, X) /\ IsWorld(X)  BY <1>2, <1>7, <2>6 DEF FrameOK
    <3>2. WorldEntry(q, X, New)  BY <2>6 DEF WorldEntry
    <3> QED  BY <3>1, <3>2, <1>1, <2>2, <2>6, NoCall DEF MayEnter
  <2>8. FrameOK(q, g)'
    <3>1. g.machine.members \subseteq World  BY <2>3 DEF SELF, Comm
    <3> QED  BY <3>1, <1>1, <2>5, <2>6, <2>7, FrameKept
  <2>9. \A k \in 1 .. n : SetApart(stack[q][k], X, New)  BY <2>6 DEF SetApart
  <2>10. /\ StackOK(q)' /\ stack' \in [World -> Seq(Frames)]
         /\ Alive(q)' /\ Top(q)' = g
         /\ \A r \in World : r # q => stack'[r] = stack[r]
    <3>1. /\ stack[q] # <<>>
          /\ stack[q][n].at \in {"split", "clone"}
          /\ stack[q][n].at = "clone" => Complete(q, stack[q][n].machine)
      BY <1>1, <1>16 DEF Alive
    <3>2. g.machine = SELF => g.at = "slave" /\ q # Root(stack[q][n].world)
      BY <1>7, <1>11, <1>18, <2>3
    <3>3. /\ \A k \in 1 .. n : stack[q][k].machine # SELF => stack[q][k].machine # g.machine
          /\ Len(g.world.id) \in Nat /\ Len(stack[q][n].world.id) < Len(g.world.id)
      <4>1. Len(S.id) \in Nat  BY ONLY <1>10
      <4> QED  BY <4>1, <1>16, <2>3
    <3> QED
      BY ONLY InStep, q \in World, <1>0, <2>2, <2>4, <2>7, <2>8, <2>9, <3>1, <3>2, <3>3, Push
  <2>11. Fresh(q)'  BY <2>3, <2>10 DEF Fresh
  <2>12. /\ done' \in [World -> SUBSET Comms]
         /\ \A r \in World : r # q => done'[r] = done[r]
         /\ \A Z \in done'[q] : Z \in done[q] \/ Z = SELF \/ LeftAt(q, Z)
    BY <1>1, <1>14 DEF ExecTypeOK
  <2> QED  BY ONLY InStep, q \in World, <2>7, <2>10, <2>11, <2>12, Conclude
<1> QED  BY <1>17, <1>18

LEMMA ClonedStep ==
  ASSUME InStep, NEW q \in World, Cloned(q), ~ Failed(q, Top(q).machine)
  PROVE  InStep'
<1>0. PICK n : n = Len(stack[q])  OBVIOUS
<1>1. Alive(q) /\ Top(q).at = "clone" /\ ExecTypeOK /\ CallsAgree /\ Complete(q, Top(q).machine)
  BY DEF Cloned, Returned, Is, InStep
<1>2. PICK X, i, W : X = Top(q).machine /\ i = Number(q, X) /\ W = Top(q).world  OBVIOUS
<1>3. /\ X # SELF /\ ~ IsWorld(X) /\ Made(q, X) /\ Position(q, Top(q))
      /\ q \in X.members /\ X \in Comms /\ q = Root(W) /\ i \in Nat
  BY <1>1, <1>2, OnMachine
<1>4. /\ n \in Nat \ {0} /\ n \in 1 .. n /\ Top(q) = stack[q][n] /\ FrameOK(q, Top(q))
  BY <1>0, <1>1, TopIs
<1>5. Base(X) \in Nat /\ Base(X) >= 2 /\ i > Base(X) /\ \A c \in Calls(q, X) : c.op # "sync"
  BY <1>1, <1>2, <1>3, BaseType DEF Position
<1>6. PICK e \in called[q] : e.comm = X /\ e.i = i /\ e.op = "clone"
  <2>1. Calls(q, X) # {}  BY <1>2, <1>5, FS_EmptySet DEF Number
  <2>2. PICK d \in called[q] : d.comm = X  BY <2>1 DEF Calls
  <2>3. i \in 1 .. Number(q, X)  BY ONLY <1>2, <1>3, <1>5
  <2>4. PICK e \in Calls(q, X) : e.i = i  BY <2>2, <2>3, <1>1 DEF CallsAgree, Listed
  <2>5. MachineCall(q, e) /\ e.comm = X /\ e \in called[q]  BY <1>1, <1>3, CallAt
  <2>6. e.op \in {"clone", "sync"}  BY ONLY <1>5, <2>4, <2>5 DEF MachineCall
  <2> QED  BY <2>4, <2>5, <2>6, <1>5
<1>7. PICK M : M = CloneOf(e)  OBVIOUS
<1>8. M = Comm(Append(X.id, <<i, -2>>), X.members)  BY <1>6, <1>7 DEF CloneOf
<1>9. Made(q, M)  BY <1>6, <1>7 DEF Made
<1>10. ~ IsWorld(M) /\ Base(M) = 2
  <2>1. PICK l \in Int : l = -2  OBVIOUS
  <2>2. M.id = Append(X.id, <<i, l>>)  BY <1>8, <2>1 DEF Comm
  <2>3. X.id \in Seq(Marks) /\ i \in Int  BY <1>3 DEF Comms
  <2>4. (IsWorld(M) <=> l >= 0) /\ (IsMachine(M) <=> l = -1)
    BY ONLY <2>2, <2>3, l \in Int, Kinds
  <2> QED  BY <2>1, <2>4 DEF Base
<1>11. \A c \in called[q] : c.comm # M
  BY <1>1, <1>2, <1>6, <1>7 DEF InStep, CallerOK, Fresh
<1>12. done' = done
       /\ \E v \in Verdicts("interface") :
            /\ stack' = [stack EXCEPT ![q] = Append(@, Frame("interface", W, M))]
            /\ called' = [called EXCEPT ![q] = @ \cup {NextCall(q, M, "interface", v)}]
  BY <1>2, <1>8 DEF Cloned
<1>13. PICK v \in Verdicts("interface") :
            /\ stack' = [stack EXCEPT ![q] = Append(@, Frame("interface", W, M))]
            /\ called' = [called EXCEPT ![q] = @ \cup {NextCall(q, M, "interface", v)}]
  BY <1>12
<1>14. PICK op : op = "interface"  OBVIOUS
<1>15. v \in {0, -1}  BY VerdictsType
<1>16. PICK g : g = Frame(op, W, M)  OBVIOUS
<1>17. Makes(q, M, op, v) /\ Pushes(q, g)
  BY ONLY <1>13, <1>14, <1>16 DEF Makes, Pushes
<1>18. Opens(q, M, op)
  BY ONLY <1>10, <1>11, <1>14 DEF OpAt, Opens
<1>19. Made(q, W) /\ IsWorld(W) /\ Number(q, W) % 2 = 0
  BY <1>2, <1>4 DEF FrameOK
<1>20. Above(q, n, W)  BY <1>1, <1>2, <1>3, <1>4 DEF Above
<1>21. q = Root(W) /\ ~ IsWorld(M) /\ done' = done  BY <1>3, <1>10, <1>12
<1> QED
  BY ONLY InStep, q \in World, <1>0, <1>1, <1>9, <1>15, <1>16, <1>17,
     <1>18, <1>19, <1>20, <1>21, PushCall

LEMMA RehookStep ==
  ASSUME InStep, NEW q \in World, Rehook(q)
  PROVE  InStep'
<1>1. Is(q, "user") /\ Top(q).machine # SELF /\ Together(q, "clone") /\ done' = done
  BY DEF Rehook
<1>2. PICK v \in Verdicts("clone") : GoOn(q, Top(q), "clone", v)  BY DEF Rehook
<1>3. PICK op : op = "clone"  OBVIOUS
<1>4. v \in {0, -1}  BY VerdictsType
<1>5. Together(q, op) /\ GoOn(q, Top(q), op, v) /\ op \in {"clone", "sync"}  BY <1>1, <1>2, <1>3
<1> QED  BY ONLY InStep, q \in World, <1>1, <1>4, <1>5, UserCall

LEMMA EndFunctionStep ==
  ASSUME InStep, NEW q \in World, EndFunction(q)
  PROVE  InStep'
<1>1. Alive(q) /\ Top(q).at = "user" /\ Is(q, "user")  BY DEF EndFunction, Is
<1>2. CASE Len(stack[q]) = 1
  BY ONLY InStep, q \in World, EndFunction(q), <1>1, <1>2, LeaveStep DEF EndFunction
<1>3. CASE Len(stack[q]) # 1
  <2>1. Together(q, "sync") /\ GoOn(q, Top(q), "sync", 0) /\ done' = done
    BY <1>3 DEF EndFunction
  <2>2. PICK op, v : op = "sync" /\ v = 0  OBVIOUS
  <2>3. Top(q).machine # SELF
    <3>1. PICK n : n = Len(stack[q])  OBVIOUS
    <3>2. n \in Nat \ {0} /\ Top(q) = stack[q][n] /\ StackShape(q)  BY <1>1, <3>1, TopIs
    <3>3. n \in 2 .. n
      <4>1. n # 1  BY <3>1, <1>3
      <4> QED  BY ONLY <3>2, <4>1
    <3> QED  BY ONLY <3>1, <3>2, <3>3, <1>1 DEF StackShape
  <2>4. Together(q, op) /\ GoOn(q, Top(q), op, v) /\ op \in {"clone", "sync"} /\ v \in {0, -1}
    BY <2>1, <2>2
  <2> QED  BY ONLY InStep, q \in World, <1>1, <2>1, <2>3, <2>4, UserCall
<1> QED  BY <1>2, <1>3

LEMMA ReturnFromExecStep ==
  ASSUME InStep, NEW q \in World, ReturnFromExec(q)
  PROVE  InStep'
<1>1. Alive(q) /\ Top(q).at = "sync" /\ Leave(q)
  BY DEF ReturnFromExec, Returned, Is
<1>2. PICK X : X = Top(q).machine  OBVIOUS
<1>3. X # SELF /\ Position(q, Top(q))  BY <1>1, <1>2, OnMachine
<1>4. LeftAt(q, X)  BY <1>1, <1>2, <1>3 DEF Position, LeftAt
<1> QED  BY ONLY InStep, q \in World, <1>1, <1>2, <1>3, <1>4, LeaveStep

\* Somebody could not look up a symbol.
LEMMA NextSymbolFails ==
  ASSUME InStep, NEW q \in World, NextSymbol(q), Failed(q, Top(q).machine)
  PROVE  InStep'
<1>1. Alive(q) /\ Top(q).at = "symbol" /\ Leave(q) /\ ExecTypeOK /\ CallsAgree
  BY DEF NextSymbol, Returned, Is, InStep
<1>2. PICK X : X = Top(q).machine  OBVIOUS
<1>3. /\ X # SELF /\ ~ IsWorld(X) /\ Position(q, Top(q)) /\ q \in X.members
      /\ X.members \subseteq World
  BY <1>1, <1>2, OnMachine
<1>4. /\ IsMachine(X) /\ Top(q).left \in 0 .. NSymbols /\ Number(q, X) = NSymbols + 2 - Top(q).left
  BY <1>1, <1>2, <1>3 DEF Position
<1>5. Base(X) = NSymbols + 4 /\ NSymbols \in Nat  BY <1>4, BaseType
<1>6. PICK m : m = Number(q, X)  OBVIOUS
<1>7. m \in Nat /\ m >= 2 /\ m < Base(X) - 1 /\ m < Base(X) /\ m # 1  BY ONLY <1>4, <1>5, <1>6
<1>8. PICK r \in X.members : \E d \in Calls(r, X) : d.i = m /\ d.val = -1
  BY <1>2, <1>6 DEF Failed
<1>9. PICK d \in Calls(r, X) : d.i = m /\ d.val = -1  BY <1>8
<1>10. OpAt(X, m) = "symbol"  BY ONLY <1>7, <1>5 DEF OpAt
<1>11. d.op = "symbol" /\ r \in World
  <2>1. d.i <= Base(X)  BY ONLY <1>7, <1>9, <1>5
  <2> QED  BY <2>1, <1>1, <1>3, <1>9, <1>10, OpOf
<1>12. PICK c \in Calls(q, X) : c.i = m
  <2>1. Calls(q, X) # {}  BY ONLY <1>6, <1>7, FS_EmptySet DEF Number
  <2>2. PICK b \in called[q] : b.comm = X  BY <2>1 DEF Calls
  <2>3. m \in 1 .. Number(q, X)  BY ONLY <1>6, <1>7
  <2> QED  BY <2>2, <2>3, <1>1 DEF CallsAgree, Listed
<1>13. LeftAt(q, X)  BY <1>6, <1>9, <1>11, <1>12 DEF LeftAt
<1> QED  BY ONLY InStep, q \in World, <1>1, <1>2, <1>3, <1>13, LeaveStep
----------------------------------------------------------------------------
(* The invariant holds *)

LEMMA UnsharedIs ==
  ASSUME NEW r \in World, NEW c \in called[r], c.op \in {"table", "interface"}, c.val = -1
  PROVE  Unshared
<1>1. <<r, c>> \in UNION {{q} \X called[q] : q \in World}  OBVIOUS
<1>2. <<r, c>> \in Failures  BY <1>1 DEF Failures
<1> QED  BY <1>2 DEF Unshared

\* No call is taken back.
LEMMA CallsGrow ==
  ASSUME called = [q \in World |-> called[q]], [ExecNext]_execVars
  PROVE  /\ called' = [q \in World |-> called'[q]]
         /\ \A r \in World : called[r] \subseteq called'[r]
<1>1. SUFFICES ASSUME NEW q \in World, NEW New, Calling(q, New)
               PROVE  /\ called' = [r \in World |-> called'[r]]
                      /\ \A r \in World : called[r] \subseteq called'[r]
  <2>1. CASE UNCHANGED execVars  BY <2>1 DEF execVars
  <2>2. CASE ExecNext
    <3>1. PICK q \in World : ExecStep(q) \/ \E P \in Requests : StartExec(q, P)
      BY <2>2 DEF ExecNext
    <3>2. \A frame, op, v : GoOn(q, frame, op, v) => \E New : Calling(q, New)
      BY DEF GoOn, Calling
    <3>3. \A v : Split(q, v) => \E New : Calling(q, New)
      BY DEF Split, Calling
    <3>4. Leave(q) => \E New : Calling(q, New)
      <4>1. SUFFICES ASSUME Leave(q) PROVE \E New : Calling(q, New)  OBVIOUS
      <4>2. CASE Rehooked(q)
        <5>1. called' = [called EXCEPT ![q] = @ \cup {}]  BY <4>1, <4>2 DEF Leave
        <5> QED  BY <5>1 DEF Calling
      <4>3. CASE ~ Rehooked(q)  BY <4>1, <4>3 DEF Leave, Signal, Calling
      <4> QED  BY <4>2, <4>3
    <3>5. called' = called => \E New : Calling(q, New)
      <4>1. called' = called => called' = [called EXCEPT ![q] = @ \cup {}]  OBVIOUS
      <4> QED  BY <4>1 DEF Calling
    <3>6. \E New : Calling(q, New)
      <4>1. CASE \E P \in Requests : StartExec(q, P)  BY <3>3, <4>1 DEF StartExec
      <4>2. CASE Wake(q)  BY <3>3, <4>2 DEF Wake, Calling
      <4>3. CASE Grouped(q)
        <5>1. (\E New : called' = [called EXCEPT ![q] = @ \cup New]) \/ called' = called
          BY <4>3 DEF Grouped
        <5> QED  BY <5>1, <3>5 DEF Calling
      <4>4. CASE Table(q)  BY <3>2, <4>4 DEF Table
      <4>5. CASE NextSymbol(q)  BY <3>2, <3>4, <4>5 DEF NextSymbol
      <4>6. CASE Constructed(q)  BY <3>2, <3>4, <4>6 DEF Constructed
      <4>7. CASE RunFunction(q)  BY <3>5, <4>7 DEF RunFunction
      <4>8. CASE Rehook(q)  BY <3>2, <4>8 DEF Rehook
      <4>9. CASE Cloned(q)
        <5>1. (\E New : called' = [called EXCEPT ![q] = @ \cup New]) \/ called' = called
          BY <4>9 DEF Cloned
        <5> QED  BY <5>1, <3>5 DEF Calling
      <4>10. CASE EndFunction(q)  BY <3>2, <3>4, <4>10 DEF EndFunction
      <4>11. CASE ReturnFromExec(q)  BY <3>4, <4>11 DEF ReturnFromExec
      <4> QED
        BY <3>1, <4>1, <4>2, <4>3, <4>4, <4>5, <4>6, <4>7, <4>8, <4>9, <4>10, <4>11 DEF ExecStep
    <3> QED  BY <3>6, <1>1
  <2> QED  BY <2>1, <2>2
<1>2. called' = [called EXCEPT ![q] = @ \cup New]  BY <1>1 DEF Calling
<1> QED  BY <1>2

LEMMA UnsharedStays ==
  ASSUME called = [q \in World |-> called[q]], [ExecNext]_execVars, Unshared
  PROVE  Unshared'
<1>1. PICK f \in UNION {{q} \X called[q] : q \in World} :
        f[2].val = -1 /\ f[2].op \in {"table", "interface"}
  BY DEF Unshared, Failures
<1>2. PICK q \in World : f \in {q} \X called[q]  BY <1>1
<1>3. f \in {q} \X called'[q]  BY <1>2, CallsGrow
<1>4. f \in UNION {{r} \X called'[r] : r \in World}  BY <1>3
<1>5. f \in Failures'  BY <1>1, <1>4 DEF Failures
<1> QED  BY <1>1, <1>5 DEF Unshared

LEMMA InStepInit ==
  ASSUME ExecInit
  PROVE  InStep
<1>1. \A q \in World : called[q] = {} /\ done[q] = {}  BY DEF ExecInit
<1>2. WORLD \in Comms /\ SELF \in Comms
  <2>1. <<>> \in Seq(Marks)  BY EmptySeq
  <2> QED  BY <2>1 DEF WORLD, SELF, Comm, Comms
<1>3. ASSUME NEW q \in World
      PROVE  \E f \in Frames : /\ stack[q] = <<f>> /\ f.world = WORLD /\ f.machine = SELF
                               /\ f.at \in {"user", "slave"} /\ (f.at = "user" => q = Root(WORLD))
  <2>1. PICK at : at = IF q = Root(WORLD) THEN "user" ELSE "slave"  OBVIOUS
  <2>2. PICK f : f = Frame(at, WORLD, SELF)  OBVIOUS
  <2>3. stack[q] = <<f>>  BY <2>1, <2>2 DEF ExecInit
  <2>4. at \in ExecPlaces  BY <2>1 DEF ExecPlaces
  <2>5. f \in Frames /\ f.world = WORLD /\ f.machine = SELF /\ f.at = at
    BY <2>2, <2>4, <1>2 DEF Frame, Frames
  <2> QED  BY <2>1, <2>3, <2>5
<1>4. ExecTypeOK
  <2>1. stack \in [World -> Seq(Frames)]
    <3>1. ASSUME NEW q \in World PROVE stack[q] \in Seq(Frames)
      <4>1. PICK f \in Frames : stack[q] = <<f>>  BY <1>3
      <4>2. <<f>> \in Seq(Frames)  BY ONLY f \in Frames
      <4> QED  BY <4>1, <4>2
    <3> QED  BY <3>1 DEF ExecInit
  <2>2. called \in [World -> SUBSET CallRecords] /\ done \in [World -> SUBSET Comms]
    BY DEF ExecInit
  <2> QED  BY <2>1, <2>2, <1>1, FS_EmptySet DEF ExecTypeOK
<1>5. CallsAgree  BY <1>1 DEF CallsAgree, Listed, Agree
<1>6. ASSUME NEW q \in World PROVE CallerOK(q)
  <2>1. PICK f \in Frames : /\ stack[q] = <<f>> /\ f.world = WORLD /\ f.machine = SELF
                            /\ f.at \in {"user", "slave"} /\ (f.at = "user" => q = Root(WORLD))
    BY <1>3
  <2>2. Len(stack[q]) = 1 /\ stack[q][1] = f  BY <2>1
  <2>3. FrameOK(q, f)
    <3>1. Number(q, WORLD) = 0  BY <1>1, <1>4, NoneYet
    <3>2. IsWorld(WORLD) /\ Made(q, WORLD)  BY DEF IsWorld, Made, WORLD, Comm
    <3> QED  BY <2>1, <3>1, <3>2 DEF FrameOK
  <2>4. StackShape(q)
    <3>1. /\ \A k \in 2 .. Len(stack[q]) : FALSE
          /\ \A k \in 1 .. Len(stack[q]) - 1 : FALSE
          /\ \A j, k \in 1 .. Len(stack[q]) : ~ (j < k)
      BY <2>2
    <3>2. stack[q][1].machine = SELF  BY <2>1, <2>2
    <3> QED  BY <3>1, <3>2 DEF StackShape
  <2>5. StackOK(q)
    <3>1. \A k \in 1 .. Len(stack[q]) : k = 1  BY <2>2
    <3> QED  BY <3>1, <2>2, <2>3, <2>4 DEF StackOK
  <2>6. Fresh(q) /\ Left(q)  BY <1>1 DEF Fresh, Left
  <2> QED  BY <2>5, <2>6 DEF CallerOK
<1> QED  BY <1>4, <1>5, <1>6 DEF InStep

LEMMA InStepStep ==
  ASSUME InStep, ~ Unshared, ExecNext
  PROVE  InStep'
<1>1. PICK q \in World : ExecStep(q) \/ \E P \in Requests : StartExec(q, P)
  BY DEF ExecNext
<1>2. CASE \E P \in Requests : StartExec(q, P)  BY <1>2, StartExecStep
<1>3. CASE Wake(q)  BY <1>3, WakeStep
<1>4. CASE Grouped(q)  BY <1>4, GroupedStep
<1>5. CASE Table(q)  BY <1>5, TableStep
<1>6. CASE NextSymbol(q)  BY <1>6, NextSymbolStep, NextSymbolFails
<1>7. CASE Constructed(q)  BY <1>7, ConstructedStep
<1>8. CASE RunFunction(q)  BY <1>8, RunFunctionStep
<1>9. CASE Rehook(q)  BY <1>9, RehookStep
<1>10. CASE Cloned(q)  BY <1>10, ClonedStep, ClonedFails
<1>11. CASE EndFunction(q)  BY <1>11, EndFunctionStep
<1>12. CASE ReturnFromExec(q)  BY <1>12, ReturnFromExecStep
<1> QED
  BY <1>1, <1>2, <1>3, <1>4, <1>5, <1>6, <1>7, <1>8, <1>9, <1>10, <1>11, <1>12 DEF ExecStep

LEMMA InStepStutters ==
  ASSUME InStep, UNCHANGED execVars
  PROVE  InStep'
<1>0. stack' = stack /\ called' = called /\ done' = done  BY DEF execVars
<1>1. ExecTypeOK /\ CallsAgree  BY DEF InStep
<1>2. PICK q \in World : TRUE  BY ExecAssumption
<1>3. PICK X, New : X = WORLD /\ New = {}  OBVIOUS
<1>4. Enters(q, X, New) /\ MayEnter(q, X, New)
  <2>1. Made(q, X) /\ IsWorld(X)  BY <1>3 DEF Made, IsWorld, WORLD, Comm
  <2>2. WorldEntry(q, X, New)  BY <1>3 DEF WorldEntry
  <2> QED  BY <2>1, <2>2, <1>0, <1>1, <1>3, NoCall DEF MayEnter
<1>5. ExecTypeOK'  BY <1>0, <1>1 DEF ExecTypeOK
<1>6. CallsAgree'  BY <1>1, <1>4, CallsStep
<1>7. \A r \in World : CallerOK(r)'  BY ONLY InStep, q \in World, <1>0, <1>3, <1>4, Others
<1> QED  BY <1>5, <1>6, <1>7 DEF InStep

LEMMA InStepShows ==
  ASSUME InStep
  PROVE  ExecInStep
<1>0. ExecTypeOK /\ CallsAgree  BY DEF InStep
<1>1. SUFFICES ASSUME NEW q \in World, NEW r \in World, NEW c \in called[q]
               PROVE  /\ \A d \in called[r] : d.comm.id = c.comm.id =>
                           d.comm = c.comm /\ (d.i = c.i => d.op = c.op)
                      /\ c.comm \in done[r] => c.i <= Number(r, c.comm)
  BY DEF ExecInStep
<1>2. Agree(q, r) /\ Agree(r, q)  BY <1>0 DEF CallsAgree
<1>3. \A d \in called[r] : d.comm.id = c.comm.id =>
        d.comm = c.comm /\ (d.i = c.i => d.op = c.op)
  BY <1>2 DEF Agree
<1>4. SUFFICES ASSUME c.comm \in done[r] PROVE c.i <= Number(r, c.comm)
  BY <1>3
<1>5. PICK X : X = c.comm  OBVIOUS
<1>6. /\ q \in X.members /\ c.i \in 1 .. Number(q, X)
      /\ Number(q, X) \in Nat /\ Number(r, X) \in Nat
  BY <1>0, <1>5, NumberType DEF CallsAgree, Listed
<1>7. X # SELF  BY <1>6 DEF SELF, Comm
<1>8. LeftAt(r, X)  BY <1>4, <1>5, <1>7 DEF InStep, CallerOK, Left
<1>9. PICK b \in Calls(r, X) :
        /\ b.i = Number(r, X)
        /\ \/ b.op = "sync"
           \/ \E s \in World : \E d \in Calls(s, X) : d.i = b.i /\ d.op = "symbol" /\ d.val = -1
  BY <1>8 DEF LeftAt
<1>10. \A s \in World : \A d \in Calls(s, X) : d.op \in {"sync", "symbol"} => ~ IsWorld(X)
  BY <1>0 DEF CallsAgree, CallOK, Calls, WorldCall
<1>11. CASE b.op = "sync"
  <2>1. ~ IsWorld(X)  BY <1>10, <1>11
  <2>2. c \in Calls(q, X)  BY <1>5 DEF Calls
  <2>3. r \in X.members /\ b.i \in 1 .. Number(r, X) /\ b.comm = X /\ b \in called[r]
    BY <2>1, <1>0, CallAt
  <2>4. c.i - 1 <= Number(r, X)
    <3>1. MachineCall(q, c)  BY <2>1, <2>2, <1>0, CallAt
    <3> QED  BY <3>1, <2>3, <1>5 DEF MachineCall
  <2>5. SUFFICES ASSUME c.i = Number(r, X) + 1 PROVE FALSE
    <3>1. c.i = Number(r, X) + 1 \/ c.i <= Number(r, X)  BY ONLY <2>4, <1>6
    <3> QED  BY <3>1, <1>5
  <2>6. b.i \in 1 .. Number(q, X) /\ b.i < Number(q, X)
    BY ONLY <2>3, <2>5, <1>6, <1>9
  <2>7. PICK a \in Calls(q, X) : a.i = b.i  BY <2>6, <1>0, <1>5 DEF CallsAgree, Listed
  <2>8. a \in called[q] /\ a.comm = X  BY DEF Calls
  <2>9. a.op = "sync"  BY <2>3, <2>7, <2>8, <1>2, <1>11 DEF Agree
  <2>10. MachineCall(q, a)  BY <2>1, <1>0, CallAt
  <2>11. a.i = Number(q, X)  BY ONLY <2>8, <2>9, <2>10 DEF MachineCall
  <2> QED  BY ONLY <2>6, <2>7, <2>11, <1>6
<1>12. CASE \E s \in World : \E d \in Calls(s, X) : d.i = b.i /\ d.op = "symbol" /\ d.val = -1
  <2>1. PICK s \in World : \E d \in Calls(s, X) : d.i = b.i /\ d.op = "symbol" /\ d.val = -1
    BY <1>12
  <2>2. PICK d \in Calls(s, X) : d.i = b.i /\ d.op = "symbol" /\ d.val = -1  BY <2>1
  <2>3. ~ IsWorld(X)  BY <2>2, <1>10
  <2>4. MachineCall(s, d) /\ d.comm = X  BY <2>3, <1>0, CallAt
  <2>5. Number(q, X) <= d.i  BY <2>2, <2>4 DEF MachineCall
  <2> QED  BY ONLY <2>2, <2>5, <1>5, <1>6, <1>9
<1> QED  BY <1>9, <1>11, <1>12

(* On every communicator the processes make the same calls in the same      *)
(* order, and none leaves a machine while another is in a call that it has  *)
(* not made: Process::exec, slave, broadcastSymbol and hook stay in step,   *)
(* whatever look-up or copy of a communicator fails, until a process has no *)
(* memory for its table of symbols or its Interface.                        *)
THEOREM CallsInStep == ExecSpec => []ExecInStep
<1>1. ExecInit => ExecIInv
  <2>1. ExecInit => called = [q \in World |-> called[q]]  BY DEF ExecInit
  <2> QED  BY <2>1, InStepInit DEF ExecIInv
<1>2. ExecIInv /\ [ExecNext]_execVars => ExecIInv'
  <2>1. SUFFICES ASSUME ExecIInv, [ExecNext]_execVars PROVE ExecIInv'  OBVIOUS
  <2>2. called = [q \in World |-> called[q]]  BY <2>1 DEF ExecIInv
  <2>3. called' = [q \in World |-> called'[q]]  BY <2>1, <2>2, CallsGrow
  <2>4. ASSUME ~ Unshared' PROVE InStep'
    <3>1. ~ Unshared  BY <2>1, <2>2, <2>4, UnsharedStays
    <3>2. InStep  BY <2>1, <3>1 DEF ExecIInv
    <3> QED  BY <2>1, <3>1, <3>2, InStepStep, InStepStutters
  <2> QED  BY <2>3, <2>4 DEF ExecIInv
<1>3. ExecIInv => ExecInStep
  BY InStepShows DEF ExecIInv, ExecInStep
<1> QED  BY <1>1, <1>2, <1>3, PTL DEF ExecSpec
=============================================================================
