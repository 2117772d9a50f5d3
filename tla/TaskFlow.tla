------------------------------ MODULE TaskFlow ------------------------------
(***************************************************************************)
(* How the examples run: src/examples.  On every process the program makes *)
(* tasks in order; a task runs when the earlier tasks that it depends on   *)
(* by the data they name are done (the OmpSs-2 runtime).  The tasks call   *)
(* talpf_put and talpf_sync; a put reads and writes memory at any time     *)
(* before its sender has left the sync that follows it.                    *)
(*                                                                         *)
(* What a sync waits for is that of IBVerbs, in one step: the own puts; as *)
(* many arrivals of this superstep as are expected, which is exchanged     *)
(* with everybody, remembered or given; and, with a barrier, the others.   *)
(***************************************************************************)
EXTENDS Integers, Sequences, FiniteSets

CONSTANTS
  Settings,      \* what the programs are run with
  App(_),        \* the program of a setting: [name, tasks, memory], for 0 .. nranks - 1
  Effect(_, _)   \* the memory after a task that computes

VARIABLES
  setting,   \* the setting of the program
  ended,     \* per process: the tasks that have ended, by their number
  syncs,     \* per process: the syncs that have begun
  memory,    \* per process: what is in each area
  inTransit, \* puts that have not been done
  arrived,   \* puts that have been done
  cached     \* per process: the number of arrivals it remembers, or Nothing

flowVars == <<setting, ended, syncs, memory, inTransit, arrived, cached>>

Nothing == -1

Task(kind, in, out) == [kind |-> kind, in |-> in, out |-> out]
PutTask(in, out, src, to, dst) ==
  [kind |-> "put", in |-> in, out |-> out, src |-> src, to |-> to, dst |-> dst]
SyncTask(out, mode, barrier) ==
  [kind |-> "sync", in |-> {}, out |-> out, mode |-> mode, barrier |-> barrier]
DefaultSync(out) == SyncTask(out, "default", TRUE)
WaitTask == Task("taskwait", {}, {})

Apps == [s \in Settings |-> App(s)]
app  == Apps[setting]
Ranks == DOMAIN app.tasks

FlowInit ==
  /\ setting \in Settings
  /\ ended = [r \in Ranks |-> {}]
  /\ syncs = [r \in Ranks |-> {}]
  /\ memory = [r \in Ranks |-> app.memory[r]]
  /\ inTransit = {}
  /\ arrived = {}
  /\ cached = [r \in Ranks |-> Nothing]

Conflict(a, b) ==
  \/ "taskwait" \in {a.kind, b.kind}
  \/ a.out \cap (b.in \cup b.out) # {}
  \/ a.in \cap b.out # {}

\* The earlier tasks of a process that a task depends on.
Before(tasks) == [n \in DOMAIN tasks |-> {k \in 1 .. n - 1 : Conflict(tasks[k], tasks[n])}]
Dependencies  == [s \in Settings |-> [r \in DOMAIN Apps[s].tasks |-> Before(Apps[s].tasks[r])]]

Ready(r, n) ==
  /\ n \in DOMAIN app.tasks[r] \ ended[r]
  /\ Dependencies[setting][r][n] \subseteq ended[r]

End(r, n) == ended' = [ended EXCEPT ![r] = @ \cup {n}]

Compute(r, n) ==
  /\ Ready(r, n)
  /\ app.tasks[r][n].kind \notin {"put", "sync"}
  /\ memory' = [memory EXCEPT ![r] = Effect(app.tasks[r][n], @)]
  /\ End(r, n)
  /\ UNCHANGED <<setting, syncs, inTransit, arrived, cached>>

Superstep(r) == Cardinality(syncs[r])

PutData(r, n) ==
  LET task == app.tasks[r][n] IN
    /\ Ready(r, n)
    /\ task.kind = "put"
    /\ inTransit' = inTransit \cup
         {[from |-> r, task |-> n, src |-> task.src, to |-> task.to, dst |-> task.dst,
           superstep |-> Superstep(r)]}
    /\ End(r, n)
    /\ UNCHANGED <<setting, syncs, memory, arrived, cached>>

Deliver(p) ==
  /\ memory' = [memory EXCEPT ![p.to][p.dst] = memory[p.from][p.src]]
  /\ inTransit' = inTransit \ {p}
  /\ arrived' = arrived \cup {p}
  /\ UNCHANGED <<setting, ended, syncs, cached>>

----------------------------------------------------------------------------
(* talpf_sync: the k-th of a process ends the superstep k - 1 *)

BeginSync(r, n) ==
  /\ Ready(r, n)
  /\ app.tasks[r][n].kind = "sync"
  /\ n \notin syncs[r]
  /\ syncs' = [syncs EXCEPT ![r] = @ \cup {n}]
  /\ UNCHANGED <<setting, ended, memory, inTransit, arrived, cached>>

\* The sync that a process has begun last.
SyncOf(r) == app.tasks[r][CHOOSE n \in syncs[r] : \A m \in syncs[r] : m <= n]
Arrivals(r) == Cardinality({p \in arrived : p.to = r /\ p.superstep = Superstep(r) - 1})

Exchanging(r) == \/ SyncOf(r).mode = "default"
                 \/ SyncOf(r).mode = "cached" /\ cached[r] = Nothing
Expected(r) == IF SyncOf(r).mode = "cached" THEN cached[r] ELSE 0

Received(r) ==
  LET k == Superstep(r) IN
    /\ \A p \in inTransit : p.from = r => p.superstep >= k
    /\ \/ /\ Exchanging(r)
          /\ \A q \in Ranks : Superstep(q) >= k
          /\ \A p \in inTransit : p.to = r => p.superstep >= k
       \/ /\ ~ Exchanging(r)
          /\ Arrivals(r) >= Expected(r)

EndSync(r, n) ==
  LET k == Superstep(r) IN
    /\ n \in syncs[r] \ ended[r]
    /\ Received(r)
    /\ SyncOf(r).barrier =>
         \A q \in Ranks : Superstep(q) > k \/ (Superstep(q) = k /\ Received(q))
    /\ cached' = [cached EXCEPT ![r] = CASE SyncOf(r).mode = "default" -> Nothing
                                         [] Exchanging(r) -> Arrivals(r)
                                         [] OTHER -> @]
    /\ End(r, n)
    /\ UNCHANGED <<setting, syncs, memory, inTransit, arrived>>

FlowNext ==
  \/ \E r \in Ranks : \E n \in DOMAIN app.tasks[r] :
       Compute(r, n) \/ PutData(r, n) \/ BeginSync(r, n) \/ EndSync(r, n)
  \/ \E p \in inTransit : Deliver(p)

FlowSpec == FlowInit /\ [][FlowNext]_flowVars
=============================================================================
