------------------------------- MODULE Probe -------------------------------
(***************************************************************************)
(* The probe of the machine parameters, src/src/common/machineparams.cpp:  *)
(* an SPMD program on the library itself.  How many messages it tries and  *)
(* how many samples it takes depends on each process's clock and memory;   *)
(* so in every round the processes tell each other, with puts, whether     *)
(* they want to go on.                                                     *)
(*                                                                         *)
(* A put is in the other process's memory some time before the end of the  *)
(* sync that follows it.  A sync waits for all processes, and fails when   *)
(* one of them has left the program.  The messages that are timed, and the *)
(* times, are left out.                                                    *)
(***************************************************************************)
EXTENDS Integers, FiniteSets

CONSTANTS
  Probers,           \* the processes
  Blocks,            \* DATAPOINTS, 7
  MinRange,          \* minRange, 3
  MaxRange,          \* maxRange, 60
  Relations,         \* N, 4: the h-relations that are measured
  PreferredSamples,  \* preferredSamples, 100
  MinSamples         \* minSamples, 10

ASSUME ProbeAssumption ==
  /\ IsFiniteSet(Probers) /\ Probers # {}
  /\ {Blocks, MinRange, MaxRange, Relations, PreferredSamples} \subseteq Nat \ {0}
  /\ MinRange < MaxRange /\ MinSamples \in Nat

VARIABLES
  probe,      \* per process: where it is
  loop,       \* per process: the loop that it is in
  loopExit,   \* per process: how the loop goes on
  block,      \* per process: the index of the block size
  range,      \* per process: nMsgs is 2 to the power of range
  relation,   \* per process: j
  sample,     \* per process: i
  allStatus,  \* per process: its array of everybody's status
  puts        \* statuses on their way: [from, to, status]

probeVars == <<probe, loop, loopExit, block, range, relation, sample, allStatus, puts>>
counters  == <<block, range, relation, sample>>
control   == <<loop, loopExit>>

Conditions == {"Continue", "Stop", "Error"}

\* Where a process is in talpf_sync, and where it goes on: for the memory
\* register, the buffers and the messages of the two loops, the three of
\* allgather, and for the times.
Syncs == {"register", "buffers", "timed", "before", "after", "guard", "gather",
          "release", "times"}
After == [register |-> "explore", buffers |-> "timed", timed |-> "next range",
          before |-> "after", after |-> "measure", guard |-> "put",
          gather |-> "summarize", release |-> "exit", times |-> "next block"]
Outcomes == {"SUCCESS", "TIMEOUT", "FATAL"}

ProbeInit ==
  /\ probe = [p \in Probers |-> "resize"]
  /\ loop = [p \in Probers |-> "explore"]
  /\ loopExit = [p \in Probers |-> "Continue"]
  /\ block = [p \in Probers |-> 1]
  /\ range = [p \in Probers |-> MinRange]
  /\ relation = [p \in Probers |-> 1]
  /\ sample = [p \in Probers |-> 0]
  /\ allStatus = [p \in Probers |-> [q \in Probers |-> "Continue"]]
  /\ puts = {}

To(p, at) == probe' = [probe EXCEPT ![p] = at]
Set(f, p, v) == f' = [f EXCEPT ![p] = v]

----------------------------------------------------------------------------
(* findMachineParams between two syncs *)

\* lpf_resize_memory_register, which may find no memory.
ResizeRegister(p) ==
  /\ probe[p] = "resize"
  /\ To(p, "register") \/ To(p, "FATAL")
  /\ UNCHANGED <<control, counters, allStatus, puts>>

\* What the clock says, and the memory for the buffers.
Explore(p) ==
  /\ probe[p] = "explore"
  /\ \E status \in Conditions :
       allStatus' = [allStatus EXCEPT ![p] =
                       [q \in Probers |-> IF q = p THEN status ELSE "Continue"]]
  /\ To(p, "guard")
  /\ Set(loop, p, "explore")
  /\ UNCHANGED <<loopExit, counters, puts>>

\* Only the last relation is stopped when the time is up.
Measure(p) ==
  /\ probe[p] = "measure"
  /\ \E status \in Conditions :
       /\ status = "Stop" => relation[p] = Relations /\ sample[p] > MinSamples
       /\ allStatus' = [allStatus EXCEPT ![p][p] = status]
  /\ To(p, "guard")
  /\ Set(loop, p, "measure")
  /\ UNCHANGED <<loopExit, counters, puts>>

\* Variant: no sync between the puts and the use of what they bring.
NoSync    == "summarize"
AfterPuts == "gather"

PutStatus(p) ==
  /\ probe[p] = "put"
  /\ puts' = puts \cup {[from |-> p, to |-> q, status |-> allStatus[p][p]] :
                          q \in Probers \ {p}}
  /\ To(p, AfterPuts)
  /\ UNCHANGED <<control, counters, allStatus>>

Summarize(p) ==
  /\ probe[p] = "summarize"
  /\ LET all == {allStatus[p][q] : q \in Probers} IN
       Set(loopExit, p, IF "Error" \in all THEN "Error"
                        ELSE IF "Stop" \in all THEN "Stop" ELSE "Continue")
  /\ To(p, "release")
  /\ UNCHANGED <<loop, counters, allStatus, puts>>

LeaveProbe(p) ==
  /\ probe[p] = "exit"
  /\ loopExit[p] = "Error"
  /\ To(p, "TIMEOUT")
  /\ UNCHANGED <<control, counters, allStatus, puts>>

ExploreExit(p) ==
  /\ probe[p] = "exit" /\ loop[p] = "explore"
  /\ \/ loopExit[p] = "Stop" /\ To(p, "before")
     \/ loopExit[p] = "Continue" /\ To(p, "buffers")
  /\ UNCHANGED <<control, counters, allStatus, puts>>

MeasureExit(p) ==
  LET last == loopExit[p] = "Stop" \/ sample[p] + 1 = PreferredSamples IN
    /\ probe[p] = "exit" /\ loop[p] = "measure"
    /\ loopExit[p] # "Error"
    /\ Set(sample, p, IF last THEN 0 ELSE sample[p] + 1)
    /\ Set(relation, p, IF last THEN relation[p] + 1 ELSE relation[p])
    /\ To(p, IF last /\ relation[p] = Relations THEN "times" ELSE "before")
    /\ UNCHANGED <<control, block, range, allStatus, puts>>

NextRange(p) ==
  /\ probe[p] = "next range"
  /\ Set(range, p, range[p] + 1)
  /\ To(p, IF range[p] + 1 < MaxRange THEN "explore" ELSE "before")
  /\ UNCHANGED <<control, block, relation, sample, allStatus, puts>>

\* The minimum of the times is taken; the next block size starts anew.
NextBlock(p) ==
  /\ probe[p] = "next block"
  /\ Set(block, p, block[p] + 1)
  /\ Set(range, p, MinRange)
  /\ Set(relation, p, 1)
  /\ To(p, IF block[p] < Blocks THEN "resize" ELSE "SUCCESS")
  /\ UNCHANGED <<control, sample, allStatus, puts>>

----------------------------------------------------------------------------
(* The library *)

Land(put) ==
  /\ puts' = puts \ {put}
  /\ allStatus' = [allStatus EXCEPT ![put.to][put.from] = put.status]
  /\ UNCHANGED <<probe, control, counters>>

InSync(p) == probe[p] \in Syncs
Gone(p)   == probe[p] \in Outcomes

\* A sync that fails in allgather makes its result Error.
InGather(p)    == probe[p] \in {"guard", "gather", "release"}
Interrupted(p) == IF InGather(p) THEN "exit" ELSE "FATAL"

Sync ==
  /\ \A p \in Probers : InSync(p) \/ Gone(p)
  /\ \E p \in Probers : InSync(p)
  /\ puts = {}
  /\ LET fails == \E q \in Probers : Gone(q) IN
       /\ probe' = [p \in Probers |-> IF Gone(p) THEN probe[p]
                                      ELSE IF fails THEN Interrupted(p) ELSE After[probe[p]]]
       /\ loopExit' = [p \in Probers |-> IF fails /\ InGather(p) THEN "Error" ELSE loopExit[p]]
  /\ UNCHANGED <<loop, counters, allStatus, puts>>

ProbeNext ==
  \/ \E p \in Probers :
       \/ ResizeRegister(p) \/ Explore(p) \/ NextRange(p) \/ Measure(p) \/ NextBlock(p)
       \/ PutStatus(p) \/ Summarize(p) \/ LeaveProbe(p) \/ ExploreExit(p) \/ MeasureExit(p)
  \/ \E put \in puts : Land(put)
  \/ Sync

ProbeSpec == ProbeInit /\ [][ProbeNext]_probeVars

----------------------------------------------------------------------------
(* Properties *)

Place(p) == <<probe[p], loop[p], block[p], range[p], relation[p], sample[p]>>

(* Whatever the clocks say, the processes are in every sync for the same    *)
(* reason, in the same round of the same loop, and end with the same result *)
(* - unless one of them had to leave, which ends the probe of the others.   *)
ProbeAgreement ==
  \A p, q \in Probers :
    /\ InSync(p) /\ InSync(q) /\ (\A r \in Probers : InSync(r)) => Place(p) = Place(q)
    /\ Gone(p) /\ Gone(q) => probe[p] = probe[q] \/ "FATAL" \in {probe[p], probe[q]}
=============================================================================
