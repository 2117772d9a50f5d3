# TALPF in TLA+

TALPF is a task-aware variant of LPF: a bulk-synchronous parallel (BSP) library
for remote memory access over InfiniBand, whose communication primitives are
called from OmpSs-2 tasks.  This directory holds its formal model: TLA+ modules,
TLC configurations that check them on small instances, and proofs that TLAPS
checks for every instance.  Paths below are relative to the repository.

* [The system](#the-system): components, state, operations, hard behaviours
* [The modules](#the-modules): what models what, and how
* [The runs](#the-runs): what TLC checks, with which bounds
* [Fairness](#fairness)
* [What the runs found](#what-the-runs-found)
* [The proofs](#the-proofs)
* [Abstractions, and what is not modelled](#abstractions-and-what-is-not-modelled)
* [Plan](#plan)

## The system

An SPMD program runs on `nprocs` processes.  Its life on each of them:

    main -> lpf_hook / lpf_exec -> Process::hook -> spmd(ctx, pid, nprocs, args)
                                        |
      user tasks:  talpf_put/get/atomics, talpf_sync      (core.cpp)
                        |                                   Interface
                        v                                   MessageQueue
      engine:      IBVerbs::put, ..., sync                  IBVerbs
                        ^
      polling task: doLocalProgress, doRemoteProgress, processBlock,
                    processSyncRequest, forever

Three kinds of tasks share an `IBVerbs` object without a lock: tasks that
communicate, one task that synchronises, and the polling task.

| Component | State | Operations | Properties that make it correct |
|---|---|---|---|
| InfiniBand engine, `src/MPI/ibverbs.cpp` | atomic counters `m_numMsgs`, `m_numMsgsSync[]`; ring `m_recvCounts[1024]`; `m_sync_counter`; cache `m_sync_cached(_value)`; `m_blockTask`; `syncRequest`; staged and connected queue pairs; completion queues; shared receive queue | put, get, fetch-and-add, compare-and-swap; sync in modes DEFAULT, CACHED, MSG(n), each of the last two with or without a barrier; resize; registration; the polling task | what a superstep communicates is complete when its sync exits; counters of different supersteps are not confused; collectives match; a receive is always posted; sync ends |
| Message queue, `mesgqueue.cpp` | `m_resized`, `m_vote`, sizes | resizing, registration, sync | a resize takes effect at the next sync, on everybody or nobody |
| Interface and `Process::hook`, `interface.cpp`, `process.cpp` | `m_aborted` | sync, abort, hook, rehook, exec | processes that stop early, fail or finish come to one verdict; nobody is left in a sync |
| API, `core.cpp` | none | the C functions: no-ops after an abort | see above |
| Memory table and registers, `memorytable.cpp`, `common/memreg.hpp` | slot arrays, local and global halves, `m_added` | add, remove, reserve, sync | global slots are the same number on all processes; a failed registration fails everywhere |
| Sparse set, `common/sparseset.hpp` | `m_domain`, `m_map`, `m_size` | insert, erase, clear, reset, shrink, extend, iteration | it behaves as a set, until it is shrunk too far; `m_map` inverts `m_domain` |
| `Process::exec`, slaves, symbols, `trysync.hpp`, `communication.hpp` | a stack of `Process` objects, sub-communicators, broadcast names | exec, the slave loop, broadcast with agreement on errors, hook, rehook | root and slaves make the same calls on every communicator; every call returns |
| Dynamic hook, `dynamichook.cpp` | sockets, MPI ports, clients, a timer | connect, accept, retry, growing the communicator by a client at a time | all are connected or an error is returned; those that return are in one communicator |
| Sparse all-to-all (NBX) and waiting, `mpilib.cpp` 246-685 | send lists, active requests, barrier | allToAll, isend, irecv, iwaitall | every byte arrives in its round; everybody terminates |
| Other MPI wrappers, `mpilib.cpp` | none | forwarding | |
| Message sorting, `messagesort.cpp` | regions of overlapping slots, a priority per block | addRegister, delRegister, pushWrite, popWrite, canWrite, clear | each byte goes to the highest priority pushed to it, once |
| IPC messages, `ipcmesg.hpp`, `micromsg.hpp` | cursor in a buffer | write, read; variable-length numbers | reading inverts writing |
| Time, `time.cpp` | seconds and nanoseconds | arithmetic, comparison | exact and normalised, also below zero |
| Start-up, `init.cpp`, `machineparams.cpp` | the command line; the loops of the machine probe | copying arguments back; agreeing on when to stop measuring | arguments are kept, whatever MPI does to the array; the processes leave each loop together |
| Examples, `examples/jacobi`, `examples/nbody` | halo rows, blocks of particles | tasks with dependencies that put and sync | every task reads what its iteration needs |
| Configuration getters, logging, stub, debug layer, tests | | | input and output |

Components meet as follows.  `MessageQueue` owns the `IBVerbs` engine and the
memory table and hands every call on; `Interface` turns the outcome of the vote
into `LPF_ERR_FATAL`; `Process::hook` votes for aborting when the SPMD function
returns.  Processes meet in the collectives of one MPI communicator (the vote,
the exchange of counters, the barriers, the exchange of queue-pair addresses) and
on the fabric, where the immediate data of a write carries the sender's
`m_sync_counter`.

Before that, processes have to find each other (`dynamichook.cpp`, when they are
not started by MPI) and to be given something to run (`Process::exec`: a root
process broadcasts symbols, splits the machine and runs the function, the others
are slaves in a loop).  On top, the examples are programs whose correctness rests on
what sync promises in each mode, and on their task dependencies.

What makes it hard:

* A sync hands its second half over to the polling task and returns; whatever
  depends on it waits for a task event.  Order between the tasks comes only from
  the program's dependencies and from the spin on `m_numMsgs`.
* A process that has completed a superstep may run ahead of its peers by as many
  supersteps as the modes allow; its messages are told apart by a counter modulo
  1024.
* Every process decides for itself which collectives it calls, from its mode, its
  cache and the vote.
* Processes may return early, fail, or resize while others do not.
* A failure on one process must reach the others before they are in a collective
  call that it will never make (`TRYSYNC`, `lpf_exec`, the growing communicator).
* Termination without knowing what one will receive (NBX), and tags that are used
  again in the next round.
* Containers that keep a permutation, merge intervals or cut numbers into pieces
  are right only through an invariant that no single call shows.

The full list of hazards, with lines and the properties that cover them, is in
`PROJECT.json`.

## The modules

    Collectives      the MPI collectives of a communicator (external)
      Machine        the fabric, as the engine uses it (external)
        IBVerbs      the engine
          Spmd       an SPMD program over MessageQueue, Interface, Process::hook;
                     Next, fairness, the properties
            MCSpmd   programs for TLC
            SpmdProofs, SpmdOrderProofs, SpmdDeliveryProofs   the theorems
      Registration   the memory tables and registers of all processes; uses
                     MemoryRegister
        MCRegistration   instances for TLC
        RegistrationProofs, RegistrationOrderProofs   the theorems
    MemoryRegister   which slot number a registration gets
    Bsp              what core.h promises; Spmd implements it

    MCMessages       what processes and library exchange, keep and compute
      SparseExchange   Comm::allToAll (NBX)    LibraryProofs  its theorems
      WaitAll          isend, irecv, iwaitall  LibraryProofs  its theorem
      SparseSet        common/sparseset.hpp    LibraryProofs  its theorems
      MessageSort      messagesort.cpp         SortProofs     the theorems
        Winners          what it promises
      IpcMessage       ipcmesg.hpp, micromsg.hpp  LibraryProofs  its theorem
      Time             time.cpp                LibraryProofs  its theorem
      Arguments        init.cpp                LibraryProofs  its theorem

    MCLaunch         how programs come to run, and the programs of the repository
      DynamicHook      dynamichook.cpp         LaunchProofs  the theorems
      Exec             lpf_exec, lpf_rehook    LaunchProofs  its theorem
      Probe            machineparams.cpp       LaunchProofs  the theorems
      Jacobi, Nbody    the six example solvers, over  TaskFlow

In `MCMessages` and `MCLaunch` one component is at work in each behaviour (`part`), from
its own initial states, while the others stand still: they share no state, and one
model checks them all.

`Spmd` and `Registration` meet only in `MessageQueue::sync`, where the memory
table comes first, and in the vote; each leaves out the other's half.

**`Collectives`** keeps for each process the sequence of collective `calls` it
made.  The n-th call of every process belongs together and completes on a process
when all have made it; calls with different names never complete each other, which
MPI leaves undefined.

**`Machine`** has the sets of work requests on the `wire`, `executed` at their
target, and the completions not yet polled (`cqLocal`, `cqRemote`), and the number of
receives posted (`srq`).  `Deliver` executes a request: requests of one queue pair
in the order of their supersteps (within a superstep the program may issue in any
order), others in any order.  `DestroyQPs` loses what is in flight.

**`IBVerbs`** keeps the names of the C++ members.  Each member function that
changes state is an action:

| Code | Action |
|---|---|
| `put`, `get`, `atomic_fetch_and_add`, `atomic_cmp_and_swp` 715-1039 | the operators of those names; all count one request and end in one signalled write with immediate (`Post`) |
| `stageQPs` 257, `resizeMesgq` 599 | the operators of those names |
| `doLocalProgress` 431, `doRemoteProgress` 474 | the same, one completion at a time |
| `processBlock` 543 | `processBlock` |
| `processSyncRequest` 501 | `processSyncRequest`, with a disjunct for entering the barrier, one for ending without a barrier, one for ending with it |
| `sync` 1044 | cut where it waits for somebody: `SyncEnter` (up to the blocking vote), `SyncAborted` or `SyncVoted`, `reconnectQPs` and `SyncReconnected`, then after the spin `SyncKnown` or `SyncExchange`/`SyncExchanged`, which hand the request over, and `SyncReleased` when the event is gone |

`m_numMsgsSync[p]` is the *set* of requests counted, not an array of numbers: the
code only uses, for each peer, how many there are, and so does the model
(`SumFor`); the set lets the properties say which.  `m_qps[p]` has the staged and
the connected queue pairs as the superstep that made them plus one, or 0 when there are none, so that a property can tell a
resized connection from the one before.  `m_sync_counter` is not
bounded but by the length of the programs.

**`Spmd`** adds a program, the same on all processes: a sequence of supersteps
with a mode, a barrier flag, whether the message queue is resized, and the
operations.  `LegalProgram` is what the modes demand of a program: counts that
CACHED reuses are the same (the example n-body programs are written to that rule,
`src/examples/README` 60-76).  `Communicate`, `resizeMesgQueue`, `sync` and
`Return` are the calls of the program, guarded as in `core.cpp` by
`isAborted()`.  `VoteFailed`, `SyncReturns` and `SyncDone` are the ways out of
sync.  `Quitters` may return before the end.  `sent` and `executed` are history:
no action reads them but to avoid issuing an operation twice.

**`Bsp`** is the promise: a process leaves a superstep only when all it issued
there and all directed at it there is complete; a barrier waits for the slowest;
`LPF_SUCCESS` means that all have left the SPMD function; a process that knows of an abort
already may be told so in the step in which it leaves.  `Spmd` implements it
under the mapping `issued` = requests of `sent`, `done` = requests of `executed`,
`left` = processes no longer in the SPMD function.

**`MemoryRegister`** is the data structure of `common/memreg.hpp` without its
records: the number of slots, the stack of free ones, the first never used.  `Add`,
`Remove` and `Reserve` are its member functions; `NewSlot` is what `add` returns.

**`Registration`** has one such register for the table and one for the engine on
each process, both split in a local and a global half.

| Code | Action |
|---|---|
| `MemoryTable::addGlobal`, `addLocal`, `remove` 36-61, with `IBVerbs::regLocal` and `dereg` | `addGlobal`, `addLocal`, `removeGlobal`, `removeLocal` |
| `MemoryTable::reserve` 64, `MessageQueue::resizeMemreg` 86 | `resizeMemreg`, which may run out of memory after any of the four registers |
| `Interface::sync` 169, `abort` 156, up to the first agreement of `MemoryTable::sync` | `sync`, `abort` |
| `IBVerbs::regGlobal` 667, once for each element of `m_added` | `Agreed` and `Failing` (after the agreement), `Gathered` (after the keys have been exchanged, up to the next agreement or the barrier) |
| the end of `MemoryTable::sync` 104-109, then the vote | `Fenced`, `Voted` |

All processes make the same collective calls (`lpf_register_global`,
`lpf_deregister` of a global slot, `talpf_sync`) in the same order, as core.h
1543 and 1705 demand.  The model generates the program as it goes: `history` is
the calls made so far, `pos[p]` how many of them `p` has made; whoever is ahead
extends it (`Collective`).  Local registrations and reservations are each
process's own business and may come anywhere.  A registration is named by the call
that made it, and its key is its name, so that a property can say *which*
registration a slot, a record or a key belongs to.  `trace` is history: the global
register as it was before each call; no action but `Collective` touches it, and only
the invariant reads it.

**`SparseExchange`** is the loop of `Comm::allToAll` with send lists (mpilib.cpp
569-686).  `allToAll` starts the first chunk of every message; `TestSends` is
`MPI_Testsome` on the own sends with the continuation of those that are longer, and
enters the non-blocking barrier when none is left; `Receive` is the probe and
receive, which throws when there is no room; `TestBarrier` leaves.
A synchronous send is complete only when it has been received, so a chunk is first
`inFlight`, then `matched`, then tested.  Between two exchanges the caller has a
barrier (`CallerEnters`, `CallerLeaves`): all messages carry one tag.

**`WaitAll`** is `irecv`, `isend` and `iwaitall` (246-430), whose names the actions have.
MPI keeps the order of messages between two processes (`channel`) and may complete a
send before it is received (`Testsome`, `WaitSome`) but need not (`TestReceived`, `WaitReceived`:
the steps to which fairness applies).

**`SparseSet`** has an action per member function; `elements` and `used` are history, the
set that the calls describe and everything inserted since the last reset, and `cut` says that a
shrink has gone below something of `used`.  `shrink` is what the code does in that case too, and so is what
follows, up to an access beyond the end of the vectors (`InVectors`).

**`MessageSort`** has an action per member function of `messagesort.cpp`.  `Winners` is
what it promises: of the writes pushed to a byte the one with the highest priority
is popped, once; `canWrite` answers accordingly.  The refinement maps the blocks of
the live regions to `pending`, a priority for each address, and `event` says which
bytes a push or a pop is about.

**`IpcMessage`** writes and reads the fields of a message with the variable-length
numbers of both classes; **`Time`** adds, subtracts, multiplies and compares, with the
exact number of nanoseconds as history; **`Arguments`** is the loop that copies the
command line back into the strings that `main` will see: of a new array (`NewArray`), or of the old one
that MPI has edited in place (`EditedInPlace`), whose entries then are other strings (`target`) than
those whose lengths are known.  `CopyBack` ends in `copied`, `aborted`, or `undefined` when
`strncpy` would write to NULL or beyond a string.

**`DynamicHook`**:

| Code | Action |
|---|---|
| `serverAcceptsClients` 165-391, `clientConnectsToServer` 393-503 | `Listen`, `Connect`, `AcceptClient`, `Confirm`, `ReadOK` |
| the loop of `dynamicHook` 577-703 | `SendPort` (server) and `Join` (members) up to the agreement, `Decide`, then `Accepted`, `ReadPort` and `Connected` |
| `ASSERT( np == p )` 632 and `ASSERT( np == p + 1 )` 698, in the processes of `Debug` | `Sized`, `Abort`, and the outcome `aborted` of `Accepted` |
| the split by pid | `EnterSplit`, `Return` |
| the alarm, the sockets it leaves to the end of the process | `Alarm`, `Exit`, `ServerGone` |

**`Exec`** gives each process a stack of `Process` objects, each with its communicator and
the machine that runs the function.  `StartExec` and `Wake` are the broadcast with which
the root makes the slaves of `Process::slave` follow it into exec or out of the loop;
`Grouped` is what follows the split; `Table`, `NextSymbol` the symbols with their agreements;
`Constructed`, `RunFunction`, `EndFunction`, `ReturnFromExec` are `Process::hook`;
`Rehook`, `Cloned` are `lpf_rehook`.  A communicator is known by how it was made, and a
collective call by its number on it.

**`Probe`** is the control of `findMachineParams`: the puts with which the processes tell each
other whether to go on, and the seven reasons to be in a sync.

**`TaskFlow`** runs tasks in any order that their dependencies allow, with the promise of
sync in one step; **`Jacobi`** and **`Nbody`** give it the tasks of the solvers in the order in
which the sources create them.  What is in memory is which iteration's row (`Jacobi`) or
whose particles (`Nbody`) it is.

## The runs

`modes`, `barrier`, `two_senders`, `quit_msg`, `resize_msg` and `resize_put` use module `MCSpmd`;
`registration`, `register_fails` and `quit_register` use `MCRegistration`; `messages` uses `MCMessages`, `launch`
uses `MCLaunch`; `hook_timeout` checks `DynamicHook` by itself.

| Run | Instance | Shows |
|---|---|---|
| `modes` | 2 processes, ring of 4, 201 programs of 4 supersteps: connect, two supersteps with every legal pair of modes, barriers and three communication patterns (none; a put; a get and a fetch-and-add), and a last LPF_SYNC_MSG superstep with a compare-and-swap | `TypeOK`, `SyncDelivers` (both ends of talpf_put's promise), `LocalCompletion`, `IssuerDelivers`, and that the engine implements `Bsp` |
| `barrier` | 3 processes, ring of a single counter, 2 receives each: 4 programs of up to 7 supersteps that mix the modes and resize a second time, and one in the default mode that each process may leave early | with a barrier in every superstep the ring does not matter (`BarrierDelivers`, `NoExcess`), collectives match, a receive is posted, reconnecting finds staged queue pairs, every resize takes effect, the second one too (`ResizeTakesEffect`); the inductive invariant `IInv`; all exit with one verdict (`ExitAgreement`); every sync exits (`SyncExits`) |
| `two_senders`, `quit_msg`, `resize_msg`, `resize_put` | 2 or 3 processes | four disagreements with the documentation, below |
| `registration` | 2 processes, all programs of 4 collective calls (and the sync of `abort`), one local registration each, reservations of 2 or 3 slots at any time; process 1 may run out of memory and its device may fail | `IInv`; slots agree, differ, do not leak and are reserved; keys are those of the same registration on every process, and known after a sync; collectives match |
| `register_fails`, `quit_register` | 2 processes, 2 collective calls | two more disagreements, below |
| `messages` | 3 processes, two exchanges in a row with one or two messages of up to two chunks, or none, each and one process that may lack room; two rounds of planned messages; all operations of the containers and encodings on small data | exchanges deliver every byte in its own round, are over when they return, and end (`RoundDelivers`, `QuietOnReturn`, `ExchangeEnds`, `WaitallDelivers`, `WaitallEnds`); the sparse set is a set (`IsSet`); sorting implements `Winners`; `RoundTrip`, `TimeExact`, `ArgumentsKept` |
| `launch` | 4 processes that connect, two of which have assertions and one of which may run out of time anywhere; exec and rehook on 3 processes with one failure anywhere; a probe on 2; six settings of the particles, on rings of up to 4 processes, and five of the heat equation, on 2 or 3 | one communicator of all that were not skipped, or a failure, and an end (`HookAgreement`, `HookEnds`); root and slaves in step, and an end (`ExecInStep`, `ExecEnds`); the loops of the probe are left together (`ProbeAgreement`); the examples' tasks read what they need (`HaloFresh`, `ForcesComplete`) |
| `hook_timeout` | 3 processes without assertions, one of which may run out of time | a disagreement, below |

Bounds.  A ring of 4 with 4 supersteps never wraps, so `modes` asks about the
protocol itself.  In `barrier` all supersteps share one counter, which is the
worst ring there is: a barrier in every superstep keeps their arrivals apart without
it.  In `two_senders` a ring of 2 stands for 1024, which only postpones the wrap.  Two
processes suffice for pairs of modes because a count is the sum over senders;
three appear where a third party matters: votes, two senders to one receiver, a
leaver and two who stay.  `registration` has two processes because what it compares are pairs; four calls make
room for two registrations, a removal that recycles a slot, and a sync, or for a
registration that is removed before its sync while another one waits; sizes 2 and
3 over the initial 1 (one slot is the library's own) make growing, growing again
and being short possible while slots are in use.  With five calls the run passes
as well, in a few minutes.  `PostCount` 2 is the smallest number of receives with
which three processes' barrier programs are served (each receives at most two
requests in a superstep, as `lpf_resize_message_queue` has the program declare).
`BarrierSpec` lets a process return early only from the program in the default mode:
what happens to the others is `quit_msg`.

In `messages`: `MaxMsgSize` and `MaxSend` 2 with messages of 0 to 3 bytes make one, two and no
chunks, to others and to oneself; `RecvSize` 4 is short for one pattern.
Two exchanges and two rounds suffice, since only neighbouring ones can be confused.  Sets of up to
5 numbers (`MaxElement` 4) have all permutations of erasing and inserting.  Sorting has areas that overlap
and touch (`Memory` 7, blocks of `Grain` 2, so that bytes at both ends of an area are in no
whole block), two slots, two regions, two priorities.  `Base` 4 stands for
128, with widths of 8 and 64 values, so that numbers take one, two and three bytes and fill their type.
A second has 5 nanoseconds; seconds go from -3 to 3, factors from -2 to 3.  Up to 3
arguments of length 0 to 2, in a new array or edited in place.

In `launch`: with four processes there is a server, a client that joins first, one that joins
while the others accept, and one that may fail between.  Processes 1 and 3 have assertions (`SomeBuilds`), so that
after a client was skipped some survivors abort and others would go on.  Machines of 2 of 3
processes leave one slave over, exec nests once (`MaxDepth` 2), each process calls it once at
each level, one symbol follows the function's name.  The probe has 2 block sizes, 2 ranges, 2 relations and
up to 3 samples; the code's 7, 57, 4 and 100 only repeat.

The heat equation has 2 rows and 1 to 3 steps, odd and even, with and
without warm-up; a sleep every step instead of every fourth.  The particles have one block for each process.
On a ring of 4 a block travels past a process that is neither its owner nor its last reader, and
the buffer of the first round is received into again in the third: the default and the cached
solver run on it for one step.  On a ring of 3 all three solvers run for two steps, so that both buffers are
received into again, by blocks of the next step.  The acknowledged solver is not run on a ring of 4, of which
`ForcesComplete` makes an exception ([below](#what-the-runs-found)).

These runs disable the check for deadlock, as all their components finish; that they do
not stop too early is what the liveness properties of `messages` and `launch` say.

## Fairness

`FairSpec` assumes weak fairness of the program's next step of each process, of
each of the four parts of its polling loop, and of the fabric.  The polling loop
calls its parts in turn and waits a fixed time (`doProgress`, ibverbs.cpp 558-572),
so a part that stays enabled is executed; reliable connections deliver; tasks
that are ready are scheduled, provided that there is a second worker thread
while sync spins (ibverbs.cpp 1086), which the model assumes.  A program is not
assumed to be friendly beyond that: it goes on calling or returns.  The `FairSpec` of
`Registration` is the same assumption without the fabric: the program goes on, and a
collective that everybody has entered returns.

`ExchangeFairness`, `WaitFairness`, `HookFairness` and `ExecFairness` say the same of one
process's own loop: who is not blocked goes on, what was sent arrives, a
collective call that everybody has made returns, a client that is connected is accepted, and
the user's functions end.  An alarm and a failure are never forced to happen.  In the composed runs
they apply to the component at work; `BarrierSpec` has that of `FairSpec`.

## What the runs found

1. `two_senders`: `SyncDelivers` fails for LPF_SYNC_MSG without a barrier.  A
   sender waits for nobody, so it may be `RingSize` supersteps ahead of its
   receiver; its arrivals are then counted for the receiver's current superstep,
   whose sync completes although another sender's data is missing.  In the
   code this takes a lead of 1024 supersteps.
2. `quit_msg`: only the default mode votes.  When a process returns early, a
   peer in LPF_SYNC_MSG or LPF_SYNC_CACHED with a barrier never leaves its sync,
   while core.h 2061 guarantees that sync does not deadlock.
3. `resize_msg`: `MessageQueue::sync` clears `m_resized` after a sync of any mode,
   but only the default mode looks at it: a resize before LPF_SYNC_MSG or
   LPF_SYNC_CACHED never takes effect, while core.h 2266 says that it determines
   the subsequent supersteps.
4. `resize_put`: `IBVerbs::sync` swaps queue pairs before it waits for the
   requests on the old ones; a put in the same superstep as a resize may lose its
   completion, after which the wait never ends.

5. `register_fails`: when `ibv_reg_mr` fails in `regGlobal`, the process calls
   `allreduceAnd(true)` while the others call `allreduceOr(false)` (ibverbs.cpp 682,
   686).  MPI does not define what comes out; if it is false, the others go on to
   exchange keys with a process that has left.  `reconnectQPs` shows what was
   meant: the one that fails calls `allreduceOr(true)`.
6. `quit_register`: the memory table synchronises before the vote, so a process
   that returns early meets its peers' agreement on a registration with its vote.
   Even in the default mode sync may then never return.

7. `hook_timeout`: a client whose time is up before it is told its turn is skipped (dynamichook.cpp 676), and
   the others return `LPF_SUCCESS` without it, while mpi.h 89 says that an error is returned when any of
   the clients fails to connect within the timeout.  `HookAgreement`, which holds, makes an exception of
   the clients in `Skipped`.

Further disagreements met while modelling are not runs of their own: a property makes an
explicit exception of them, or the inputs stop short of them.

* *Assertions of the dynamic hook.*  In a build with assertions the processes of `hook_timeout` do not get that
  far: the next turn begins with `ASSERT( np == p )` (dynamichook.cpp 632), which no longer holds once a client was
  skipped, and they abort; `ASSERT( np == p + 1 )` (698) is about the same numbers one client later, and
  is not reached when the first has failed.  `HookAgreement` says that this is the only case in which they fail.
* *Shrinking a sparse set.*  `shrink` pops the end of `m_domain` and cuts `m_map` at the same length,
  but after insertions these are not the same numbers: 0 and 2 inserted in 0 .. 2, then shrunk to 0, leave
  a maximum of 1, and 2 is no longer found.  sparseset.t.cpp 218 says that shrinking "does not
  remove any values", and tests it with sets in which that happens to be so.  The library does not shrink its sets
  so: only `MemoryTable::m_added` can shrink, and never below what was ever in it.  `cut` in `SparseSet`;
  `IsSet` holds up to there.
* *Arguments removed in place.*  When MPI removes arguments in the array it was given, init.cpp 131 writes through
  entries that MPI has cleared or moved, with the lengths of what was there before.  The comment at
  init.cpp 74 says that the removal of arguments is handled.  `inPlace` in `Arguments`; `ArgumentsKept` still asks
  that giving up is right in that case.
* *Acknowledgements instead of barriers.*  The acknowledgement of a round (solver_talpf_cached_ack.c 52) waits for the
  last sync but not for the forces that
  read the buffer it stands for, and it is counted with the blocks.  On a ring of four the
  predecessor may put its next block into a buffer that is in use; `src/examples/README` 73 says that the
  dummy message avoids the barrier.  `Overtaken` in `Nbody`: without that exception TLC's
  simulation finds `ForcesComplete` violated in the setting of four processes, the third solver and one time step.
* *Failures that are not shared.*  When one process has no memory for its `Interface`
  (interface.cpp 87) or for the table of symbols (process.cpp 193), the agreement that is to tell
  the others pairs up with other calls of theirs, and they wait for ever.  `Unshared`
  in `Exec`; all other failures, at every place, are in the run.
* *Warm-up of the heat equation.*  After an odd number of steps of warm-up the matrices
  are swapped but not the slots of the halos (solver_talpf_default.c 84).  `Displaced` in `Jacobi`.
* *Clearing a single block* in `MessageSort` (messagesort.cpp 218) leaves its mark: `clear_` is called
  when no region has exactly one block pending.  Nothing in the repository pushes writes.

## The proofs

`SpmdProofs` proves, for every finite non-empty set of processes,
every set of legal programs, every positive ring size, every number of receives
and every set of quitters:

* `Invariant`: `Spec => []IInv`
* `TypeCorrect`: `Spec => []TypeOK`
* `LocallyComplete`: `Spec => []LocalCompletion`
* `IssuersAreServed`: `Spec => []IssuerDelivers`

`SpmdOrderProofs` proves, for the same constants but that `Disciplined`: nobody returns early,
or every superstep has the default mode:

* `OrderInvariant`, `VotesInvariant`: `Spec => []OrderInv`, `Spec => []VotesInv`
* `CollectivesMatch`: `Spec => []MatchingCollectives`
* `AlwaysStaged`: `Spec => []StagedWhenReconnecting`
* `ExitsAgree`: `Spec => []ExitAgreement`
* `ResizedInTime`: `Spec => []ResizeTakesEffect`, if resizing supersteps have the default mode
  (`DefaultResizes`): after each resize the queue pairs connected are of that superstep or a later one

`SpmdDeliveryProofs` proves, if `Disciplined` and if `RingSuffices`: two supersteps that use the
same of the `RingSize` counters of arrivals (1024 in the code) have a barrier in between:

* `DeliveryInvariant`: `Spec => []DeliveryInv`
* `OperationsDelivered`: `Spec => []SyncDelivers`
* `BarriersDeliver`: `Spec => []BarrierDelivers`
* `NeverInExcess`: `Spec => []NoExcess`
* `BspImplemented`: `Spec => ImplementsBsp`, that is, every step of `Spmd` is one of `Bsp` or leaves
  its variables alone
* `ReceivesPosted`: `Spec => []ReceivePosted`, if in addition programs resize before they communicate
  (`DefaultResizes`, `ResizesApart`) and send no process more operations between two barriers
  than it posts receives (`ReceivesSuffice`)

The hypotheses are what the code needs: finding 1 is what happens without `RingSuffices`, finding 2
what happens without `Disciplined`, and finding 3 what happens without `DefaultResizes`.  Without
`ReceivesSuffice` a request is refused: the programs of run `barrier` send as many as there are
receives, and with one receive less TLC finds `ReceivePosted` violated.

`RegistrationProofs` proves, for every number of
processes, any length of programs, all sizes, any set of processes that quit, run out
of memory or have a device that fails:

* `RegistrationInvariant`: `Spec => []IInv`
* `RegistrationTypeCorrect`: `Spec => []TypeOK`
* `GlobalSlotsAgree`: `Spec => []SlotsAgree`
* `SlotsAreDistinct`: `Spec => []SlotsDiffer`
* `NoSlotLeaks`: `Spec => []NothingLeaks`
* `SyncRegisters`: `Spec => []RegisteredBySync`

`RegistrationOrderProofs` proves for the same constants

* `RoomForAll`: `Spec => []SlotsReserved`
* `CollectivesMatch`: `Spec => []MatchingCollectives`

and, if nobody returns early from the spmd function (`Quitters = {}`),

* `ListsAgree`: `Spec => []AgendaInv`
* `KeysBelongTogether`: `Spec => []KeysOfTheSameRegistration`

`LaunchProofs` proves, for any number of processes, with and without assertions, all clocks, alarms and shortages of memory,

* `ProbesAgree`: `ProbeSpec => []ProbeAgreement`
* `HooksAgree`: `HookSpec => []HookAgreement`

and, for all processes, requests, numbers of symbols, depths of nested calls and failures,

* `CallsInStep`: `ExecSpec => []ExecInStep`

`LibraryProofs` proves, for sets of every size, for all processes, send lists, sizes of chunks and
numbers of exchanges, for all times and factors, and for all rounds of planned messages in which a tag
of a destination belongs to one message, all sizes and every positive limit on a message, for all messages
of numbers, booleans and blobs in every base from 2 on, and for all command lines:

* `SetInvariant`: `SetSpec => []SetIInv`
* `SparseSetIsSet`: `SetSpec => []IsSet`, which speaks of sets that are not `cut`
* `ExchangeInvariant`: `ExchangeSpec => []ExchangeIInv`
* `QuietWhenReturning`: `ExchangeSpec => []QuietOnReturn`
* `RoundsDeliver`: `ExchangeSpec => []RoundDelivers`
* `TimesAreExact`: `TimeSpec => []TimeExact`
* `MessagesDelivered`: `WaitSpec => []WaitallDelivers`
* `MessagesRoundTrip`: `IpcSpec => []RoundTrip`
* `CommandLineKept`: `ArgumentsSpec => []ArgumentsKept`, of which only the part on giving up speaks of arrays
  edited in place

`SortProofs` proves, for all areas of memory, however they overlap and touch, every size of a block, all
priorities and any number of slots and regions,

* `SortInvariant`: `SortSpec => []SortIInv`
* `WinnersImplemented`: `SortSpec => ImplementsWinners`, the refinement of `Winners`

### The engine

Assumed: `ProcsAssumption`, `RingSizeAssumption`, `PostCountAssumption` and
`ProgramsAssumption`, which TLC evaluates in every run.

The argument.  `LocalCompletion` says that nothing of a process is outstanding
once its sync counts or announces what it sent.  The spin waits for
`m_numMsgs = 0`, so one needs that `m_numMsgs` counts at least what is
outstanding: `Conserved`.  It is an inequality because destroying queue pairs may
lose completions that `m_numMsgs` still counts (that is finding 4).  From there
nothing new becomes outstanding until the sync is over: `Phases` ties the place
of the sync task to its event, its request and the state of the process, so that
the program issues nothing meanwhile.  `IssuerDelivers` needs in addition that
the process had issued all of its superstep when it entered sync: `AllIssued`;
an issued request that is not outstanding has been executed.  Type correctness
is not independent: that `m_numMsgs` never becomes negative follows from
`Conserved` (every completion polled is outstanding), that a sync task never has
two events or none to give back from `Phases`, and that what is contributed to an
exchange has a cardinality from `FiniteCounts`.  Hence the invariant `IInv` is
the conjunction of all, and run `barrier` checks it with TLC.

`SpmdProofs` has one lemma per action for `TypeOK`, one lemma per
other conjunct and group of actions, then the step theorem and the four theorems.

### The order of the collectives

Each process decides on its own about its next collective call, and it knows no more than the
mode of its superstep, its cache, its request to resize and the outcome of votes.  That all
decide alike cannot be an invariant about pairs of processes, which may be supersteps apart.
`SpmdOrderProofs` compares each with the program instead: `Takes(prog, s, op)` says whether
superstep `s` calls the collective `op`, `Moment(s, op)` numbers these collectives in their order, and
`Place(prog, t)` is how many there are up to moment `t`, the cardinality of the `Agenda`.  A
process has a moment too: five times its superstep plus the `Stage` of its sync.  `OrderInv` says that
the calls a process has made are the agenda up to where it is (`Ordered`), and carries what
the process needs to decide rightly: its cache is valid exactly if the program says so
(`Situated`, with `CacheNext`), it wants to reconnect exactly if its superstep resizes
(`Resizing`), and a vote it has been released from has been cast by all (`Voted`), so that
its outcome is that of the program.  A step either makes the next call of the agenda
(`CallsNext`) or moves on where the agenda has none (`GoesOn`).  The place of a collective in
the agenda determines it (`PlaceUnique`, `MomentUnique`); `CollectivesMatch` follows.

`VotesInv` adds what a vote tells: who is past one knows that all cast it and that nobody
aborted, so nobody can have left before; who was told of an abort was told of a vote that all had
cast.  Two that have left were told of the same vote, since a process does not get past a vote in
which another one aborted: `ExitsAgree`.

### Delivery

A target does not know what is sent to it.  It waits until a counter reaches a number, and takes that
for everything having come.  `DeliveryInv` says why it may, in these parts:

* `Stamped`, `Numbered`: a request carries the number of the superstep that issued it;
* `Booked`: what a process counts, and what it announces in the exchange, is what it sent;
* `Cached`, `Expecting`: the number waited for is `Inbound`, how many operations the program
  directs at the process in that superstep, whether it was summed up (`SumIsInbound`; by `Ordered` all
  contributions belong to the same superstep) or comes from the cache (`CacheIsInbound`; by
  `LegalProgram` the superstep that filled it has the same number);
* `Served`: all that is directed at a process in a superstep it has stopped counting has arrived;
* `Counted`: the counter is at most the number of arrivals of supersteps that use it and that are not
  over (`Arrived`).  It is an inequality because `reconnectQPs` destroys completions that
  nobody has polled: what they tell of has arrived and is never counted;
* `Fenced`: who is past a barrier knows that all have entered it.

The counter of a superstep is shared with those of other supersteps, from processes that run ahead.
`Settled` shows that nothing of them has arrived while it matters: the issuer would be past a barrier
that the target has not entered, by `RingSuffices` and `Fenced`.  So all that is counted belongs to
the target's superstep, and the chain counter <= arrived <= sent <= `Inbound` has no room when
the counter has reached `Inbound`: everything has been sent and has arrived (`AllHere`).  From this
follows `Served` for the next superstep, when `processSyncRequest` ends the wait.

The refinement then is a list of steps: `Communicate` is `Issue`, an arrival `Complete`,
`SyncDone` `Sync`, `Return` `Leave`, `VoteFailed` `Exit`, and all other steps change nothing that `Bsp` sees.
That `Sync` and `Exit` are allowed is `SyncDelivers`, `BarrierDelivers` and the invariant of the votes.

A queue pair does not retry when the receiver has no receive posted, so a process must never be sent
more than it has posted.  `Stocked` accounts for its receives: the shared queue has those that no
arrival has taken, and polling an arrival posts the receive again, so that both together are what was
posted by `lpf_resize_message_queue` (`Supplied`).  What is on its way to a process or not polled by it
(`Unseen`) can only be of the superstep it is counting or of later ones up to the next
barrier (`NotFarAhead`, from `Fenced` and `Served`).  These are operations of the program, each at
most once (`UnseenBound`), which is where `ReceivesSuffice` comes in.

### Memory registration

Assumed: `ProcsAssumption` and `BoundsAssumption`.

The argument.  The global register of a process, but for its size, is a function of
the collective calls it has made: that is what `trace` records, and `InStep` says
that each process has the register the trace prescribes at its position.  It holds
because `Reserve` leaves the stack of free slots and the first unused slot alone
(`ReserveKeeps`, and `DealtIsEnough`: `Add` and `Remove` do not look at the size).
`NamesKept` says that a global registration has the slot that the trace dealt out at
its name, which is one number for all processes: `SlotsAgree` follows.

That slots are not shared or lost needs `WellFormed`: the stack holds numbers below
the first unused one, each once.  Then `Add` deals out a slot that nobody has, and
`Remove` gives back one (`AddDeals`, `RemoveReturns`, and their counterparts for
both halves).  `TableKept` says that the slots in hand are those of the registrations
held; `EngineKept` says the same of the engine, whose slot a registration has
unless it is `Waiting` in `m_added`; `AddedKept` keeps that list free of duplicates and
of slots that have been removed, which is why `remove` may tell the two
cases apart by looking there.  During sync the iterator `next` divides the list in
those that have their engine slot and those that wait, and one slot of the engine is
`Pending` between the agreement and the exchange.

`RegistrationProofs` has one lemma per action; `StepOf` and `ProgressOf` reduce each
to the process that takes the step.

`RegisteredBySync` looks at the history, which `IInv` relates to the list in no way.
The last part of the module adds `Fresh`: what is in `m_added` was registered after the last sync
that the process completed. A step keeps it because what is in the list afterwards was there
before under the same name or has just been registered (`Joins`), and because a call that is
completed with something in the list is no sync (`Advances`). By `EngineKept` only what waits
in the list has no slot of the engine.

### The order of registrations, their keys and their room

How many collective calls a sync makes depends on the list `m_added` of the process, which it fills and
empties at its own pace.  `AgendaInv` says that there are `lists` and `base` that are the same for all:
`lists[k]` are the names to be registered before the `k`-th call of the program, as the history alone makes
them, and `base[k]` is how many collectives all syncs before that call have made.  `Listed` says that the
list of a process is the one at its position, in the same order, `Located` that it has made `base` plus its
`Progress` calls, and `Made` that each of them is the one that `Falls` there.  The difficult step is to
remove a registration that has not been synchronised: `Erase` puts the last element of the list into its
place, and does so on all processes because the order of the lists is the same too (`EraseEffect`).  As soon as
one process returns early, the others meet the calls of `abort` where they are themselves in agreements:
hence `Quitters = {}`, without which MPI defines no outcome.

A process in the exchange of keys then contributes the key of the registration it has reached, and so do
all others, because it is the same place in the same list (`SameCall`, `KeysGathered`): under its slot of the
engine, which may differ from theirs, it gets their keys of that registration.  `KeysInv` carries that from
there until the registration is removed.

`RoomInv` is about sizes.  A process adds to a register that is full if more is in hand than it has
reserved.  The program counts what it `Held` when it registers, and `Ample` says that at every
registration of the history the trace had fewer slots in hand than was granted to *any* process; a process that
comes to the same call later, when others may have been granted more, finds the same slots in hand as
the first (`RoomToRegister`).  The engine has at most one slot for each registration of the
table, on the same side of local and global (`Sided`, `EngineRoom`); with the one it takes before an
exchange it stays within the capacity, which is one more than what the program is granted.
`Sized` also has to survive a `reserve` that runs out of memory between two of its four registers: it grants
the capacity last.

### The sparse set

Assumed: `MaxElementAssumption`.

The argument.  `contains` looks at `m_map`, the iterator at `m_domain`; they agree because each is the
inverse of the other and because the first `m_size` places hold the elements.
Inserting and erasing exchange two numbers (`ExchangeMoves`): the one in question
and the one at the boundary `m_size`.  The delicate operation is `shrink`, which pops a part of
`m_domain` that it finds by looking at its end, and then cuts `m_map` at the same
length.  That takes the same numbers from both only if what is popped stands in its own
place: nothing beyond all that has ever been used has been moved, which is the last conjunct of
`Intact`.  A shrink into what has been used breaks it, which is finding 7: `SetIInv` is `Intact` until then.

### The sparse exchange

Assumed: `ProcsAssumption` and `ExchangeAssumption`.

The argument.  A process returns when its own sends are done and everybody has entered the
barrier.  That all is over then needs three facts.  `PhaseCalls`: the number of barriers a
process has entered follows from its place, and as long as there is anything in its arrays
it has not entered that of the exchange.  `OnePending`: whatever is travelling
or received without the sender's knowledge is the only chunk of its message, and belongs to
a pending send, so that a process with an empty array has nothing on its
way; that a tested send gives up exactly one chunk is the heart of `TestKeeps`.  `Together`:
nobody is an exchange ahead.  If one returns while another has something on its way, the
other has entered an even number of barriers, at least as many as the first, which has
entered an odd number: it is an exchange ahead.

A receiver without room is part of the theorem: nobody returns from an exchange in which
something addressed to it is still travelling.

That what was sent has arrived (`RoundsDeliver`) is a second invariant, on top of the first.  `Paired`
says which exchange of a receiver a sender's chunks are for, since the two may be one barrier apart;
`Delivered` says of each message that what has been received of it are chunks that follow each other
from byte 0 (`Successive`), which reach as far (`Reach`) as the chunk begins that is travelling, or
ends that is received but not yet tested, or the whole message if there is none.  `SendsProgress` ties the
sender's count to that chunk.  Receiving adds one place at the end (`AppendNext`) and disturbs no other
message (`AppendChunk`).  At the return `QuietOnReturn` leaves the last case only: the whole
message.  The property speaks of chunks that follow each other rather than of a sum of
their lengths: the same thing, but without a recursion over the sequence.

### Waiting for requests

Assumed: `ProcsAssumption` and `RoundsAssumption`.

The argument.  For each message of a round there is one stream: what is in the buffer of the receiver,
then the chunks in the channel, then what is to be sent.  `Streams` says that they continue each
other.  The places of a message in the channel need not be next to each other, as messages between
the same two processes share it; `Leads` says that a set of places begins at one byte and ends at another, and
`Chain` that each of them continues those before it.  Sending appends to the channel
(`AppendLeads`), receiving takes its head, which moves all places (`TailLeads`).  `Counted` says that
`nMsgs` is the number of messages that are not complete, so that the loop ends with all of
them; what `m_irecvs` still expects is the rest of the message (`BufferOK`).

That two rounds do not mix is `Drained`: nothing is in a channel to a process that is through with the
round of the sender.  It holds for one that leaves its loop because a chunk at the head of a channel would
continue a message that is complete (`HeadFits`), and it stays true because who still
sends is not behind anybody (`NotLeftBehind`): `Apart`, by the barrier at the end of a round.

### Time

Assumed: `TimeAssumption`.

The argument.  The exact value stays that of the seconds and the nanoseconds (`Normalised` is inductive).  A
sum carries at most one second, a difference borrows at most one.  A product is put together from the
quotients and remainders of C, which round towards zero (`DividesExactly`); the remainders add up
because both numbers have the sign of the factor.  That comparing the two numbers compares the times
follows because normalised times are in the order of their seconds (`MoreSeconds`).

### Encodings

Assumed: `EncodingAssumption`: a base of at least 2, numbers that are within the width of their type, and
bytes that are natural numbers.

`Encode` and `Decode` are recursive functions, and of such a function even that it exists has to
be shown.  `EncoderExists` and `ReaderExists` do so by the least counterexample (`LeastOf`: a non-empty
set of natural numbers has a least element, from the well-foundedness of strict inclusion of finite
sets): below it a function exists, and with one more value it exists there too.  `Says` is what
has to hold of the bytes of a number: all but the last have the mark, and a reader of any width
above the number ends with it.  It holds of one byte (`OneByte`), and of one more byte before the bytes
of the quotient (`MoreBytes`: the reader starts at the last byte, so it has read the quotient before it
comes to the first one, whose mark the remainder takes away); hence of every number (`EncodeSays`), again
by the least counterexample.

The invariant `IpcIInv` places the fields: `Layout` says that the bytes of each field are in the
buffer from its cursor to the next one's, and `CursorOK` that the receiver stands at the start of the
first field that it has not read.  A number ends where the sender ended it, because the mark makes its
last byte the only candidate (`NumberIs`).  `NoBytesLeft` is the part of `RoundTrip` on `bytesLeft`: fields
only go forward, so when the cursor is at the end all that is left has no bytes, and only a blob can
have none.

### The command line

Assumed: `ArgumentsAssumption`, lengths are natural numbers.

The loop of `init.cpp` gives each argument the first string after the last one's that is long enough.
`InOrder` says that the arguments before the current one are in the list, in order, each once
and none in a string that is too short.  That giving up is right needs an invariant on all the other ways to
place the arguments (`Ways`): in each of them the arguments that are left stand behind the strings
that have been looked at (`Greedy`).  A string that is too short for the current argument holds it in no
way, and with all strings looked at there is no way.  A new array leaves every string in its place, so that
each argument is copied to a string with room for it (`HasRoom`) and nothing else is written there.

### The probe

Assumed: `ProbeAssumption`.

The argument.  Between two syncs a process does nothing that depends on others; so one
compares the syncs the processes are heading for, and in which round (`Goal`, `LoopAhead`, ...).
`AimsAgree` says that all head for the same, and a step of one process does not change what it
heads for.  A sync could separate them only where they go on by `loopExit`; there `ExitsAgree`
says that they decide alike, because what each has in its array is what the others contributed
(`Told`), unless it is still on its way, and a sync leaves nothing on its way.  A
process that finds no memory is the exception: then all others head for the sync
after `lpf_resize_memory_register` (`ShortOfMemory`), which fails for all.

### The dynamic hook

Assumed: `HookAssumption`; nothing about the order of clients, alarms and exits.

The argument.  What a member knows (its communicator, the number of calls it has made on it,
its turn, what it decided) follows from the history of the turns that the server has settled:
`Group(p)` is the communicator of turn p, and `Begins(f, p)` says in which turn it was new.  `MemberOK`
and `CallsOK` tie a member's variables to them, `ServerCalls` the calls of the server.  A
call of allreduce that has been matched has the number of one of the server's calls on the same
communicator; since clients connect once (`ConnectionsOK`), communicator and number together
tell the turn (`SameGroup`, `BeginsOnce`), so the server has contributed to just this
turn (`SettledTurn`) and all see the same.  A client that connects finds those who accept it to be the
group of the turn it was sent, even if the server is ahead or has failed (`ConnectedKeeps`).  That
nobody who waits is left out needs that a turn fails only for a client whose own time was up
(`LeftOut`) and that the connections are those of all clients (`AllConnected`, by counting).
A process that aborts stops where it is (`AbortKeeps`), so that the assertions add no case to what members
know; they only decide how many get to return.  Until a client is skipped a communicator has the size of its
turn (`GroupSize`), so no assertion fails before.

### Process::exec

Assumed: `ExecAssumption`.

The argument.  A communicator is known by the calls that made it, and a process is in a collective
call with whoever has the same communicator.  A process has one because of a call it has made (`Made`);
since calls with the same place on the same communicator are the same call, two that have the
same communicator agree on its members and on what is called there (`Agree`).  On the communicator of a
Process object and its slaves, calls come in pairs, an exec and the two splits, and the root makes each
first: `WorldCall`.  On that of a machine the `i`-th call is a table, a symbol, an interface or a
barrier according to `i` alone (`OpAt`), and nobody makes it before all have made the one before:
`MachineCall`.  What comes after the barrier depends on the function, which is the same
on all; a look-up that fails is the last call of everybody, because all see the minimum.
The calls of a process are in turn determined by where it is: `Position` gives the number of calls on the
machine at each place of hook and exec, `StackShape` says what the frames below the last wait for, and
that no two of them share a communicator they could call on.  `Fresh` says that a communicator about to be
made is new, so that nobody has called on it; `Left` why a process has left a machine: a sync as
the last call or a symbol not found, after either of which no other process makes a call.

The step theorem has one lemma per action, over the common `Enters`: the process makes some calls with
the next numbers on one communicator, which leaves all that is known of other processes
(`Others`) and of other communicators alone.  The invariant `ExecIInv` is `InStep` until a failure is not
shared (`Unshared`), beyond which nothing holds: those are the failures listed
[above](#what-the-runs-found).

### Message sorting

Assumed: `SortAssumption`; in particular blocks have at least one byte and what is registered has
memory.

A refinement asks for more than an invariant: what `Winners` has as state, `pending` and
`answers`, is here computed from the live regions, and every step has to change it as one of the
actions of `Winners` does.  The invariant `SortIInv` says what makes that computation simple.
`RegionsOK`: a live region stands in `m_regions` under its number, and two live regions neither
overlap nor touch.  `SlotsOK`: the area of a slot in use lies in a live region, and the slot is redirected
there with the right offset.  `WritesOK`: a region has a mark for each whole block of its memory
and no other, and either all marks are zero and `m_min` and `m_max` are reset or both are blocks,
`m_min` holds a mark, and all marks lie between them; hence `popWrite`, which begins at `m_min` and ends
a run at the first mark that differs, passes over nothing.  `DirtyOK`: a region with marks is in
`m_dirty`.

The live regions do not touch, so an address is in at most one block of one region
(`OneBlock`), and what is pending there is what that block holds less one (`PendingIs`), or nothing
(`NonePending`).  `Shown` collects this, together with what follows for `canWrite`, as a predicate on a
state, implied by `SortIInv`: a step is compared on its two sides, `Shown` before it and `Shown` after it.
`PushStep` and `PopStep` then speak of marks only: a push raises a run of marks in one region, and the
bytes of its event are those of the run (`RunBytes`); a pop clears a run.  `AddStep` shows that
regions are merged while all marks are zero (`m_dirty = {}` is the guard of `addRegister`), so that nothing
pending can move, and that the new region, from the lowest base to the highest end of all it touches,
touches none of the others (`UnionIs`).  `popNothing` needs `DirtyOK`: it looks at dirty regions only.

### Only model-checked

`HaloFresh` and `ForcesComplete`, about the programs of the examples: recursion puts these together from
their supersteps, and a proof, which has not been written, would first have to say where in them each
task stands; and the liveness properties `SyncExits`, `ExchangeEnds`, `WaitallEnds`, `HookEnds` and
`ExecEnds` (temporal reasoning with fairness is out of the reach of the proof system).

## Abstractions, and what is not modelled

* Memory contents and slots: an operation is its kind and its two ends.
* Large messages are split into chained writes of which only the last is
  signalled and counted: one request.  A get is a read followed by a write with
  immediate on the same queue pair, and so are the atomics: one request.
* `allreduceSum` is called once for each process in a row; the model has one
  exchange.  The collectives between the two barriers of `reconnectQPs` (exchange
  of addresses, agreement that all have connected) are passed over by the
  barriers; its failures are not modelled.
* In `Spmd` no memory is registered, so that sync does not begin with the memory table;
  in `Registration` nothing is communicated, so that the engine's part of sync is
  the vote or nothing.
* Registrations have memory: the size 0, for which nothing is registered with the
  device, takes the same path without a failure.  The slots of the message
  sorter, whose range follows that of the table, are not modelled, nor is the resizing
  of the message queue that `resizeMemreg` ends with.
* `m_added` is the sequence its iterator runs through.  A record stays in its slot when
  it is removed, as in the code; shrinking, which happens only when a smaller
  reservation follows one that failed half way, clears no slot in use.
* A process whose sync throws takes no further step.  `regLocal` does not fail.
* Completions and arrivals are polled one at a time, not in batches of
  `POLL_BATCH`.  The ring index has no overflow of `m_sync_counter`.
* Completion queues never overflow, posting never fails, and no completion has a
  bad status.
* All tasks that communicate come before the sync task of their superstep
  and after that of the one before, as the programs' dependencies say.  Their
  completion is not waited for: sync does.  A task that issues during sync would
  meet the race at ibverbs.cpp 1093-1097, which is listed as a hazard.
* `Process::hook` is modelled without exceptions in the SPMD function.
* `SparseExchange`: MPI delivers a chunk to whoever probes, in any order; the sender of
  a message has one chunk of it under way, as in the code.  The caller's barrier between exchanges
  stands for what the users of `allToAll` do in between.
* `SparseSet` has 0 as its minimum, as all users do; an access beyond the end of its vectors, after a shrink
  that went too far, ends the behaviour.
* `MessageSort`: slots are registered while nothing is pending, since a region that
  changes its base would move the pending writes; a write that is pushed holds at least one whole
  block, since with less the sizes wrap around.
* `IpcMessage` without the debugging mode, which puts types and identifiers as text before each field.
* `Time`: whole nanoseconds; not reading the clock, rounding of doubles, printing.  Factors
  apply to times that are not negative: for others the truncation loses a part.
* `Arguments`: MPI adds no arguments, and does not both edit the old array and return another one.
* `DynamicHook`: looking up addresses, select and partial reads are one step; clients are those
  with the right magic value; the server waits for a client that has connected without a limit, as
  the code does.
* `Exec`: the function on a machine does the same on all its processes; failures are those of memory
  and of symbols that are not found, not of MPI.
* `Probe`: neither what is timed nor the statistics.
* `TaskFlow`: sync is its promise in one step, for programs that issue all puts before it.  The
  puts of a superstep may be done in any order until then.  Floating-point
  values and files are left out.

Not modelled, with the reason:

* the failures of the engine (posting, bad completions, a device that runs out while resizing): what
  the verbs leave behind after an error depends on the device, and the code gives up;
* start and end of the polling task, and a process with a single worker thread;
* the windows and one-sided operations of `mpilib.cpp`, which belong to engines that the
  repository no longer has;
* `config.cpp`, each of whose functions reads an environment variable; logging, assertions,
  stack traces, random numbers; the stub, whose calls return constants; the debug layer's macros
  and the tests.

Components that are not modelled at all are listed in `PROJECT.json` with the
reason.

## Plan

Done: the engine and its programs; memory registration; sparse set; `Process::exec`; the dynamic
hook; the sparse exchange and waiting; sorting, encodings, time, the command line; the machine probe;
the examples.

Left, in this order:

1. Failures of the engine: running out of memory in `resizeMesgQueue` (staged in
   part), then the life of the polling task around constructor and destructor.
2. Exceptions in the SPMD function, and rehook after an abort: `Exec` and `Spmd` composed.
3. Proofs: the programs of the examples.
