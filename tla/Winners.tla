------------------------------ MODULE Winners ------------------------------
(***************************************************************************)
(* What sorting of messages promises: of all writes pushed to a byte, the  *)
(* one with the highest priority is popped, once, and whoever asks may     *)
(* write a byte only above the priority that is pending there.             *)
(***************************************************************************)
EXTENDS Integers

CONSTANTS Bytes, Ids   \* addresses; priorities, zero the lowest

VARIABLES
  registered, \* the bytes that can be written
  pending,    \* per byte: the highest priority pushed, or None
  answers,    \* for every priority and registered byte: may it be written?
  event       \* the last push or pop

None == -1

winnerVars == <<registered, pending, answers, event>>

Answers(pend, reg) == {<<id, b, id > pend[b]>> : id \in Ids, b \in reg}

Init ==
  /\ registered = {}
  /\ pending = [b \in Bytes |-> None]
  /\ answers = {}
  /\ event = [op |-> "none", id |-> None, bytes |-> {}]

Register ==
  /\ registered' \subseteq Bytes
  /\ UNCHANGED <<pending, event>>

Push ==
  /\ event'.op = "push"
  /\ event'.bytes \subseteq registered
  /\ pending' = [b \in Bytes |-> IF b \in event'.bytes /\ event'.id > pending[b]
                                 THEN event'.id ELSE pending[b]]
  /\ UNCHANGED registered

\* Some of the bytes that the same priority has won are given out.
Pop ==
  /\ event'.op = "pop"
  /\ event'.bytes # {}
  /\ \A b \in event'.bytes : pending[b] = event'.id
  /\ pending' = [b \in Bytes |-> IF b \in event'.bytes THEN None ELSE pending[b]]
  /\ UNCHANGED registered

\* Nothing is given out only when nothing is pending.
PopNothing ==
  /\ event'.op = "empty"
  /\ \A b \in Bytes : pending[b] = None
  /\ UNCHANGED <<registered, pending>>

Clear ==
  /\ event'.op = "clear"
  /\ pending' = [b \in Bytes |-> None]
  /\ UNCHANGED registered

Next ==
  /\ Register \/ Push \/ Pop \/ PopNothing \/ Clear
  /\ answers' = Answers(pending', registered')

Spec == Init /\ [][Next]_winnerVars
=============================================================================
