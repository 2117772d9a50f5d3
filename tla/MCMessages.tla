----------------------------- MODULE MCMessages -----------------------------
(***************************************************************************)
(* What the processes and the library exchange, keep and compute, for TLC: *)
(* one component is at work in every behaviour, the others stay as they    *)
(* are.                                                                    *)
(***************************************************************************)
EXTENDS SparseExchange, WaitAll, SparseSet, MessageSort, IpcMessage, Time, Arguments

VARIABLE part   \* the component at work

Parts == {"exchange", "waitall", "set", "sort", "ipc", "time", "arguments"}

exchangeOwn == <<nbx, exchange, sends, inFlight, matched, received, asked>>
waitOwn     == <<waitall, round, toSend, m_irecvs, nMsgs, m_largeSends, m_imsgs,
                 channel, buffers>>
mcVars == <<part, exchangeVars, waitVars, setVars, sortVars, ipcVars, timeVars,
            argVars>>

MCInit == /\ part \in Parts
          /\ ExchangeInit /\ WaitInit /\ SetInit /\ SortInit /\ IpcInit /\ TimeInit
          /\ ArgumentsInit
          /\ part # "arguments" => arglengths = <<1>> /\ new_argv = <<1>> /\ ~ inPlace

At(p) == part = p /\ part' = p

MCNext ==
  \/ At("exchange") /\ ExchangeNext
     /\ UNCHANGED <<waitOwn, setVars, sortVars, ipcVars, timeVars, argVars>>
  \/ At("waitall") /\ WaitNext
     /\ UNCHANGED <<exchangeOwn, setVars, sortVars, ipcVars, timeVars, argVars>>
  \/ At("set") /\ SetNext /\ ~ cut   \* IsSet leaves open what comes after a cut
     /\ UNCHANGED <<exchangeVars, waitOwn, sortVars, ipcVars, timeVars, argVars>>
  \/ At("sort") /\ SortNext
     /\ UNCHANGED <<exchangeVars, waitOwn, setVars, ipcVars, timeVars, argVars>>
  \/ At("ipc") /\ IpcNext
     /\ UNCHANGED <<exchangeVars, waitOwn, setVars, sortVars, timeVars, argVars>>
  \/ At("time") /\ TimeNext
     /\ UNCHANGED <<exchangeVars, waitOwn, setVars, sortVars, ipcVars, argVars>>
  \/ At("arguments") /\ ArgumentsNext
     /\ UNCHANGED <<exchangeVars, waitOwn, setVars, sortVars, ipcVars, timeVars>>

\* The fairness that ExchangeFairness and WaitFairness state, for the
\* component at work.
MCFairness ==
  \A p \in Procs :
    /\ WF_exchangeVars(part = "exchange" /\ Progress(p))
    /\ WF_exchangeVars(part = "exchange" /\ Receive(p))
    /\ WF_waitVars(part = "waitall" /\ WaitSteps(p))
    /\ WF_waitVars(part = "waitall" /\ Recv(p))
    /\ WF_waitVars(part = "waitall" /\ TestReceived(p))
    /\ WF_waitVars(part = "waitall" /\ WaitReceived(p))

MCSpec == MCInit /\ [][MCNext]_mcVars /\ MCFairness

\* Processes and messages: of one chunk, of two, empty, to oneself; the second
\* process can be sent more than it has room for.
P3 == 1..3
Message(i, dst, size) == [id |-> i, dst |-> dst, size |-> size]
Lists == << {{Message(1, 2, 3)}, {Message(1, 2, 1), Message(2, 3, 2)}},
            {{}, {Message(1, 1, 3)}},
            {{Message(1, 2, 2)}, {Message(1, 3, 0)}} >>

\* The same tags in two rounds, from other senders.
Plan(src, dst, tag, size) == [src |-> src, dst |-> dst, tag |-> tag, size |-> size]
TwoRounds == << {Plan(1, 2, 0, 3), Plan(3, 2, 1, 1), Plan(2, 1, 0, 0), Plan(2, 1, 1, 3)},
                {Plan(1, 2, 0, 3), Plan(2, 3, 0, 1), Plan(3, 1, 0, 2)} >>

\* Two areas that a third one overlaps and touches.
ThreeAreas == {[base |-> 0, size |-> 4], [base |-> 5, size |-> 2], [base |-> 3, size |-> 4]}
TwoIds == {0, 1}

\* Numbers of one, two and three bytes, at the limits of each.
TwoWidths == [uchar |-> 8, ulong |-> 64]
SomeNumbers == [uchar |-> {0, 3, 4, 7}, ulong |-> {5, 16, 63}]
TwoBlobs == {<<>>, <<7, 0>>}
OneType == {2}

SmallFactors == -2 .. 3

ThreeLengths == 0 .. 2
=============================================================================
