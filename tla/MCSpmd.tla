------------------------------ MODULE MCSpmd ------------------------------
(***************************************************************************)
(* Small programs on two or three processes for TLC.                       *)
(***************************************************************************)
EXTENDS Spmd

Op(op, i, j)  == [src |-> i, dst |-> j, op |-> op, id |-> 0]
Step(mode, barrier, resize, rma) ==
  [mode |-> mode, barrier |-> barrier, resize |-> resize, rma |-> rma]

Connect          == Step("DEFAULT", TRUE, TRUE, {})
Default(rma)     == Step("DEFAULT", TRUE, FALSE, rma)
Cached(rma)      == Step("CACHED", FALSE, FALSE, rma)
CachedBar(rma)   == Step("CACHED", TRUE, FALSE, rma)
Msg(rma)         == Step("MSG", FALSE, FALSE, rma)
MsgBar(rma)      == Step("MSG", TRUE, FALSE, rma)

Put(i, j) == Op("put", i, j)

\* Two processes, every mode with and without a barrier, every operation.
Patterns == { {}, {Put(1, 2)}, {Op("get", 2, 1), Op("fetch_add", 1, 2)} }
Modern   == {Step(mode, barrier, FALSE, rma) :
               mode \in {"CACHED", "MSG"}, barrier \in BOOLEAN, rma \in Patterns}
Plain    == {Default(rma) : rma \in Patterns}
AllModes == {prog \in {<<Connect, u, v, Msg({Op("cmp_swp", 2, 1)})>> :
                         u, v \in Modern \cup Plain} : LegalProgram(prog)}

\* Programs with a barrier after every superstep: long ones among two of the
\* processes, and short ones among three.
LongBarrier == {
  <<Connect, Default({Put(1, 2), Op("get", 2, 1)}), CachedBar({Put(2, 1)}),
    CachedBar({Op("fetch_add", 1, 1)}), MsgBar({Op("cmp_swp", 1, 2), Put(1, 2)}),
    Default({})>>,
  <<Connect, MsgBar({Put(1, 2)}), CachedBar({Put(2, 1), Put(1, 1)}),
    MsgBar({}), CachedBar({Put(2, 1), Op("get", 2, 1)}), Connect,
    CachedBar({Put(1, 2)})>> }

AmongThree == {
  <<Connect, CachedBar({Put(1, 2), Put(3, 2)}), CachedBar({Put(1, 2), Put(2, 2)})>>,
  <<Connect, Default({Put(1, 2), Put(3, 2)}), MsgBar({Put(2, 1), Put(3, 1)}),
    MsgBar({Put(1, 2)})>> }
AllBarrier == LongBarrier \cup AmongThree

\* Default synchronisation only: what a program needs that may return early.
OnlyDefault == { <<Connect, Default({Put(1, 2), Put(2, 3)}), Default({Put(3, 1)})>> }

\* The two sets of programs in one run: of those with a barrier, only a program
\* that synchronises in the default mode is left early.
BarrierOrDefault == AllBarrier \cup OnlyDefault
Ends(p) == step[p] = Len(program) \/ m_aborted[p] # 0
EarlyFromDefault ==
  program \notin OnlyDefault =>
    \A p \in Procs : run[p] = "spmd" /\ run'[p] # "spmd" => Ends(p)
BarrierSpec == Init /\ [][Next /\ EarlyFromDefault]_vars /\ Fairness

\* Two senders, one receiver, LPF_SYNC_MSG without barrier.
TwoSenders == { <<Connect, Msg({Put(1, 3), Put(2, 3)}), Msg({Put(1, 3)}),
                  Msg({Put(1, 3), Put(2, 3)})>> }

\* A synchronisation without a vote while another process returns early.
MsgBarrier == { <<Connect, MsgBar({}), MsgBar({})>> }

\* The message queue is resized in a superstep that ends with LPF_SYNC_MSG.
ResizeMsg == { <<Step("MSG", TRUE, TRUE, {}), Default({})>> }

\* The message queue is resized in a superstep that also communicates.
ResizeAndPut == { <<Connect, Step("DEFAULT", TRUE, TRUE, {Put(1, 2)})>> }

Procs2 == 1..2
Procs3 == 1..3
=============================================================================
