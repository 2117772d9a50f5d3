---------------------------- MODULE DynamicHook ----------------------------
(***************************************************************************)
(* lpf_mpi_initialize_over_tcp: independent processes become one MPI       *)
(* communicator, src/src/MPI/dynamichook.cpp.  Process 0 accepts a socket  *)
(* connection from each of the others, in any order, and confirms them     *)
(* when all are there.  Then the communicator grows by one client at a     *)
(* time: the server sends it the name of an MPI port and its turn p, all   *)
(* members agree on whether that worked, and accept it.  At the end the    *)
(* ranks are made those that the caller has asked for.                     *)
(*                                                                         *)
(* An alarm ends the call of a process wherever it is.  Its sockets stay   *)
(* open until the process exits.  A process whose build has assertions     *)
(* aborts when its communicator has not the size of its turn, which is so  *)
(* in every turn after one in which a client was skipped.                  *)
(***************************************************************************)
EXTENDS Integers, Sequences, FiniteSets

CONSTANTS
  NProcs,     \* nprocs
  Debug,      \* the processes, each started by itself, whose build has assertions
  MaxAlarms   \* bound: processes whose time is up

ASSUME HookAssumption ==
  NProcs \in Nat \ {0} /\ Debug \subseteq Nat /\ MaxAlarms \in Nat

Pids    == 0 .. NProcs - 1
Clients == 1 .. NProcs - 1

VARIABLES
  hook,        \* per process: where it is
  backlog,     \* clients whose connection the server has not accepted
  connections, \* clients in the order in which they were accepted
  portFor,     \* per client: the turn that the server has sent it, 0 for just OK,
               \* or -1
  closed,      \* processes that have exited: their sockets are closed
  turn,        \* per process: p of the loop
  entered,     \* per process: the collective calls it has made, each with its
               \* communicator and its number on it
  success,     \* per turn: what the server contributes
  decided,     \* per process and turn: grow, skip, or not decided
  members      \* per process: its communicator

hookVars == <<hook, backlog, connections, portFor, closed, turn, entered, success,
              decided, members>>

sockets == <<backlog, connections, portFor, closed>>
group   == <<turn, entered, success, decided, members>>

HookInit ==
  /\ hook        = [q \in Pids |-> "start"]
  /\ backlog     = {}
  /\ connections = <<>>
  /\ portFor     = [c \in Clients |-> -1]
  /\ closed      = {}
  /\ turn        = [q \in Pids |-> 1]
  /\ entered     = [q \in Pids |-> {}]
  /\ success     = [p \in Clients |-> TRUE]
  /\ decided     = [q \in Pids |-> [p \in Clients |-> "none"]]
  /\ members     = [q \in Pids |-> {q}]

Goto(q, phase) == hook' = [hook EXCEPT ![q] = phase]

----------------------------------------------------------------------------
(* Connecting: serverAcceptsClients and clientConnectsToServer *)

Listen == /\ hook[0] = "start"
          /\ Goto(0, "accepting")
          /\ UNCHANGED <<sockets, group>>

\* A client tries until the server listens.
Connect(c) ==
  /\ hook[c] = "start"
  /\ hook[0] = "accepting"
  /\ c \notin backlog
  /\ backlog' = backlog \cup {c}
  /\ Goto(c, "greeting")
  /\ UNCHANGED <<connections, portFor, closed, group>>

\* accept, and both sides send their magic value; a connection that the client
\* has closed is dropped.  The server waits for the client without a limit.
AcceptClient(c) ==
  /\ hook[0] = "accepting"
  /\ Len(connections) < NProcs - 1
  /\ c \in backlog
  /\ backlog' = backlog \ {c}
  /\ \/ /\ hook[c] = "greeting"
        /\ connections' = Append(connections, c)
        /\ Goto(c, "confirming")
     \/ /\ c \in closed
        /\ UNCHANGED <<connections, hook>>
  /\ UNCHANGED <<portFor, closed, group>>

\* Everybody is there: the server closes its ports, writes OK to all clients
\* and opens an MPI port.
Confirm ==
  /\ hook[0] = "accepting"
  /\ Len(connections) = NProcs - 1
  /\ backlog' = {}
  /\ portFor' = [c \in Clients |-> 0]
  /\ Goto(0, "growing")
  /\ UNCHANGED <<connections, closed, group>>

ReadOK(c) ==
  /\ hook[c] = "confirming"
  /\ portFor[c] >= 0
  /\ Goto(c, "waiting")
  /\ UNCHANGED <<sockets, group>>

----------------------------------------------------------------------------
(* Growing: the loop of dynamicHook *)

\* MPI matches the collective calls on a communicator by their order.
ThisCall(q, kind) ==
  <<members[q], Cardinality({op \in entered[q] : op[1] = members[q]}) + 1, kind>>
Enter(q, kind) == entered' = [entered EXCEPT ![q] = @ \cup {ThisCall(q, kind)}]

\* All members of q's communicator have made the call q is in.
Matched(q, kind) ==
  \E op \in entered[q] :
    /\ op = <<members[q], Cardinality({o \in entered[q] : o[1] = members[q]}), kind>>
    /\ \A r \in members[q] : op \in entered[r]

\* ASSERT( np == p ), in a build that has assertions.
Sized(q, comm, p) == q \in Debug => Cardinality(comm) = p

\* The server sends the port to the client of this turn and closes the
\* connection.  With a client that has exited, some of that may fail.
SendPort ==
  LET p == turn[0]
      c == connections[p] IN
    /\ hook[0] = "growing" /\ p < NProcs
    /\ Sized(0, members[0], p)
    /\ \E ok \in IF c \in closed THEN BOOLEAN ELSE {TRUE} :
         /\ success' = [success EXCEPT ![p] = ok]
         /\ portFor' = IF ok THEN [portFor EXCEPT ![c] = p] ELSE portFor
    /\ Enter(0, "allreduce")
    /\ Goto(0, "agreeing")
    /\ UNCHANGED <<backlog, connections, closed, turn, decided, members>>

Join(q) ==
  /\ q # 0
  /\ hook[q] = "growing" /\ turn[q] < NProcs
  /\ Sized(q, members[q], turn[q])
  /\ Enter(q, "allreduce")
  /\ Goto(q, "agreeing")
  /\ UNCHANGED <<sockets, turn, success, decided, members>>

\* A turn that begins with a communicator of another size ends the process.
Abort(q) ==
  /\ hook[q] = "growing" /\ turn[q] < NProcs
  /\ ~ Sized(q, members[q], turn[q])
  /\ Goto(q, "aborted")
  /\ UNCHANGED <<sockets, group>>

\* Variant: everybody looks at its own success.
OwnSuccess(q, p) == q # 0 \/ success[p]
AllSuccess(q, p) == success[p]

\* MPI_Allreduce: accept the client, or go on without it.
Decide(q) ==
  LET p == turn[q] IN
    /\ hook[q] = "agreeing"
    /\ Matched(q, "allreduce")
    /\ IF AllSuccess(q, p)
         THEN /\ decided' = [decided EXCEPT ![q][p] = "grow"]
              /\ Enter(q, "accept")
              /\ Goto(q, "admitting")
              /\ turn' = turn
         ELSE /\ decided' = [decided EXCEPT ![q][p] = "skip"]
              /\ turn' = [turn EXCEPT ![q] = p + 1]
              /\ Goto(q, "growing")
              /\ entered' = entered
    /\ UNCHANGED <<sockets, success, members>>

ConnectCall(c) == <<{c}, 1, "connect">>

\* MPI_Comm_accept and MPI_Intercomm_merge: the client has connected.
Accepted(q) ==
  LET c == connections[turn[q]] IN
    /\ hook[q] = "admitting"
    /\ Matched(q, "accept")
    /\ ConnectCall(c) \in entered[c]
    /\ members' = [members EXCEPT ![q] = @ \cup {c}]
    /\ turn' = [turn EXCEPT ![q] = @ + 1]
    /\ Goto(q, IF Sized(q, members[q] \cup {c}, turn[q] + 1) THEN "growing" ELSE "aborted")
    /\ UNCHANGED <<sockets, entered, success, decided>>

\* The client has read the port and its turn, and connects.
ReadPort(c) ==
  /\ hook[c] = "waiting"
  /\ portFor[c] > 0
  /\ Enter(c, "connect")
  /\ Goto(c, "joining")
  /\ UNCHANGED <<sockets, turn, success, decided, members>>

\* Variant: the client starts with its own turn.
SameTurn(c)  == portFor[c]
FirstTurn(c) == portFor[c] + 1

\* MPI_Comm_connect and MPI_Intercomm_merge: the others accept.
Connected(c) ==
  LET acceptors == members[0] \ {c} IN
    /\ hook[c] = "joining"
    /\ \A r \in acceptors : \E op \in entered[r] : op[1] = acceptors /\ op[3] = "accept"
    /\ members' = [members EXCEPT ![c] = acceptors \cup {c}]
    /\ turn' = [turn EXCEPT ![c] = FirstTurn(c)]
    /\ Goto(c, "growing")
    /\ UNCHANGED <<sockets, entered, success, decided>>

\* MPI_Comm_split by pid.
EnterSplit(q) ==
  /\ hook[q] = "growing" /\ turn[q] = NProcs
  /\ Goto(q, "splitting")
  /\ Enter(q, "split")
  /\ UNCHANGED <<sockets, turn, success, decided, members>>

Return(q) ==
  /\ hook[q] = "splitting"
  /\ Matched(q, "split")
  /\ Goto(q, "returned")
  /\ UNCHANGED <<sockets, group>>

----------------------------------------------------------------------------
(* Timeouts *)

Ended(q) == hook[q] \in {"returned", "failed", "aborted"}

\* SIGALRM: the call ends with an exception, which jumps out of anything.
Alarm(q) ==
  /\ ~ Ended(q)
  /\ Cardinality({r \in Pids : hook[r] = "failed"}) < MaxAlarms
  /\ Goto(q, "failed")
  /\ UNCHANGED <<sockets, group>>

Exit(q) ==
  /\ hook[q] \in {"failed", "aborted"}
  /\ q \notin closed
  /\ closed' = closed \cup {q}
  /\ UNCHANGED <<hook, backlog, connections, portFor, group>>

\* The connection ends before the client has read what it waits for.
ServerGone(c) ==
  /\ 0 \in closed
  /\ (hook[c] = "confirming" /\ portFor[c] = -1) \/ (hook[c] = "waiting" /\ portFor[c] = 0)
  /\ Goto(c, "failed")
  /\ UNCHANGED <<sockets, group>>

HookStep(q) ==
  \/ SendPort /\ q = 0
  \/ Join(q) \/ Abort(q) \/ Decide(q) \/ Accepted(q) \/ EnterSplit(q) \/ Return(q)

ClientStep(c) == Connect(c) \/ ReadOK(c) \/ ReadPort(c) \/ Connected(c) \/ ServerGone(c)

HookNext ==
  \/ Listen \/ Confirm
  \/ \E c \in Clients : ClientStep(c) \/ AcceptClient(c)
  \/ \E q \in Pids : HookStep(q) \/ Alarm(q) \/ Exit(q)

\* Processes that are not blocked go on, and so does a connected client.
HookFairness ==
  /\ WF_hookVars(Listen \/ Confirm)
  /\ \A c \in Clients : WF_hookVars(ClientStep(c)) /\ WF_hookVars(AcceptClient(c))
  /\ \A q \in Pids : WF_hookVars(HookStep(q))

HookSpec == HookInit /\ [][HookNext]_hookVars /\ HookFairness

----------------------------------------------------------------------------
(* Properties *)

\* The clients that the server could not tell their turn.
Skipped == {connections[p] : p \in {i \in Clients : ~ success[i]}}

(* The members decide alike on every client.  Processes whose call returns *)
(* are in one communicator, of all processes but the skipped, and a        *)
(* process is skipped only when its own time was up: nobody is left out    *)
(* who still waits.  ASSERT( np == p ) and ASSERT( np == p + 1 ) fail only *)
(* after a client was skipped.  Both, that the call returns without the    *)
(* skipped and that assertions fail then, are exceptions to what mpi.h     *)
(* says: see NobodyMissing.                                                *)
HookAgreement ==
  /\ \A q, r \in Pids : \A p \in Clients :
       {decided[q][p], decided[r][p]} # {"grow", "skip"}
  /\ \A q \in Pids : hook[q] = "returned" => members[q] = Pids \ Skipped
  /\ \A c \in Skipped : hook[c] = "failed"
  /\ Skipped = {} => \A q \in Pids : hook[q] # "aborted"

(* mpi.h: an error is returned when any of the clients fails to connect     *)
(* within the timeout, so that who returns has everybody in its             *)
(* communicator.  Without assertions the others return without the skipped. *)
NobodyMissing == \A q \in Pids : hook[q] = "returned" => members[q] = Pids

(* Once the server listens, all processes are connected, whatever the order *)
(* in which the clients arrive, unless somebody's time is up: none waits    *)
(* for one that waits for it.                                               *)
HookEnds ==
  hook[0] = "accepting" ~>
    (\/ \E q \in Pids : hook[q] = "failed"
     \/ \A q \in Pids : hook[q] = "returned" /\ members[q] = Pids)
=============================================================================
