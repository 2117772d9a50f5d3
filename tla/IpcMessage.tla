---------------------------- MODULE IpcMessage ----------------------------
(***************************************************************************)
(* Messages between processes, src/src/MPI/ipcmesg.hpp, and their encoding *)
(* of numbers, which src/src/common/micromsg.hpp has too: a type, then     *)
(* fields that the receiver reads in the same order with the same types.   *)
(* A number takes as many bytes as it needs, CHAR_BIT - 1 bits in each,    *)
(* the lowest first, every byte but the last with its highest bit set.     *)
(*                                                                         *)
(* This is the layout without debugging; with it every field starts with   *)
(* its type and its identifier, in text, and reading them is asserted.     *)
(***************************************************************************)
EXTENDS Integers, Sequences

CONSTANTS
  Base,       \* 2 ^ (CHAR_BIT - 1)
  Widths,     \* per integer type: 2 to the number of its bits
  Numbers,    \* bound: per integer type, the numbers that are sent
  Blobs,      \* bound: the blobs that are sent
  MsgTypes,   \* the values of MsgEnum, a byte each
  MaxSize,    \* bytes in the buffer
  MaxFields   \* bound: fields in a message

ASSUME EncodingAssumption ==
  /\ Base \in Nat \ {0, 1} /\ MaxSize \in Nat \ {0}
  /\ {"bool", "blob"} \cap DOMAIN Widths = {}
  /\ \A t \in DOMAIN Widths : Widths[t] \in Nat /\ Numbers[t] \subseteq 0 .. Widths[t] - 1
  /\ MsgTypes \subseteq Nat /\ Blobs \subseteq Seq(Nat)

VARIABLES
  phase,      \* idle, writing, sent or reading
  m_buffer,   \* what has been written or received
  m_msgSize,  \* m_size: the size of the buffer or of what was received
  m_pos,      \* the cursor
  fields,     \* history: per field its kind, value and first byte
  results     \* history: the values that were read, and where reading stopped

ipcVars == <<phase, m_buffer, m_msgSize, m_pos, fields, results>>

IpcInit == /\ phase = "idle"
           /\ m_buffer = <<>>
           /\ m_msgSize = 0 /\ m_pos = 0
           /\ fields = <<>>
           /\ results = <<>>

Encode(number) ==
  LET enc[n \in 0 .. number] ==
        IF n < Base THEN <<n>> ELSE <<Base + (n % Base)>> \o enc[n \div Base] IN
  enc[number]

\* The bytes of the number at pos: up to the first one without the mark.
NumberEnd(pos) == CHOOSE e \in pos .. Len(m_buffer) - 1 :
  /\ m_buffer[e + 1] < Base
  /\ \A i \in pos .. e - 1 : m_buffer[i + 1] >= Base
\* What is read from the bytes, from the last to the first.
\* Variant: the mark is taken for a part of the number.
Unmasked(bytes, width) ==
  LET result[k \in 0 .. Len(bytes)] ==
        IF k = 0 THEN 0 ELSE (result[k - 1] * Base + bytes[Len(bytes) - k + 1]) % width IN
  result[Len(bytes)]
Decode(bytes, width) ==
  LET result[k \in 0 .. Len(bytes)] ==
        IF k = 0 THEN 0
        ELSE (result[k - 1] * Base + (bytes[Len(bytes) - k + 1] % Base)) % width IN
  result[Len(bytes)]

\* newMsg, writeMsg: the type, and the cursor behind it.
newMsg(type) ==
  /\ phase = "idle"
  /\ phase' = "writing"
  /\ m_buffer' = <<type>>
  /\ m_msgSize' = MaxSize
  /\ m_pos' = 1
  /\ fields' = <<>>
  /\ results' = <<>>

Put(kind, value, bytes) ==
  /\ phase = "writing"
  /\ Len(fields) < MaxFields
  /\ m_buffer' = m_buffer \o bytes
  /\ m_pos' = m_pos + Len(bytes)
  /\ fields' = Append(fields, [kind |-> kind, value |-> value, at |-> m_pos])
  /\ UNCHANGED <<phase, m_msgSize, results>>

writeNumber(t, n) == /\ m_pos + Len(Encode(n)) <= m_msgSize
                     /\ Put(t, n, Encode(n))
writeBool(b)      == /\ m_pos < m_msgSize
                     /\ Put("bool", b, Encode(IF b THEN 1 ELSE 0))
\* The assertion leaves the last byte of the buffer unused.
writeBlob(blob)   == /\ Len(blob) < m_msgSize - m_pos
                     /\ Put("blob", blob, blob)

\* Before it is sent, the message can be started again: the type stays.
rewind ==
  /\ phase = "writing"
  /\ m_pos' = 1
  /\ m_buffer' = <<m_buffer[1]>>
  /\ fields' = <<>>
  /\ UNCHANGED <<phase, m_msgSize, results>>

send ==
  /\ phase = "writing"
  /\ phase' = "sent"
  /\ m_buffer' = SubSeq(m_buffer, 1, m_pos)
  /\ UNCHANGED <<m_msgSize, m_pos, fields, results>>

\* recvMsg, readMsg: as large as what has arrived.
recvMsg ==
  /\ phase = "sent"
  /\ phase' = "reading"
  /\ m_msgSize' = Len(m_buffer)
  /\ m_pos' = 1
  /\ UNCHANGED <<m_buffer, fields, results>>

Got(value, pos) ==
  /\ m_pos' = pos
  /\ results' = Append(results, [value |-> value, end |-> pos])
  /\ UNCHANGED <<phase, m_buffer, m_msgSize, fields>>

NumberAt(width) == Decode(SubSeq(m_buffer, m_pos + 1, NumberEnd(m_pos) + 1), width)

\* The receiver reads what the sender has written, in order.
Expects(kinds) == /\ phase = "reading"
                  /\ Len(results) < Len(fields)
                  /\ fields[Len(results) + 1].kind \in kinds

readNumber == /\ Expects(DOMAIN Widths)
              /\ Got(NumberAt(Widths[fields[Len(results) + 1].kind]), NumberEnd(m_pos) + 1)
readBool   == /\ Expects({"bool"})
              /\ Got(NumberAt(2 * Base) # 0, NumberEnd(m_pos) + 1)
readBlob   == /\ Expects({"blob"})
              /\ LET n == Len(fields[Len(results) + 1].value) IN
                 Got(SubSeq(m_buffer, m_pos + 1, m_pos + n), m_pos + n)

bytesLeft == m_msgSize - m_pos

done == /\ phase = "reading"
        /\ Len(results) = Len(fields)
        /\ phase' = "idle"
        /\ UNCHANGED <<m_buffer, m_msgSize, m_pos, fields, results>>

IpcNext ==
  \/ \E type \in MsgTypes : newMsg(type)
  \/ \E t \in DOMAIN Widths : \E n \in Numbers[t] : writeNumber(t, n)
  \/ \E b \in BOOLEAN : writeBool(b)
  \/ \E blob \in Blobs : writeBlob(blob)
  \/ rewind \/ send \/ recvMsg
  \/ readNumber \/ readBool \/ readBlob \/ done

IpcSpec == IpcInit /\ [][IpcNext]_ipcVars

----------------------------------------------------------------------------
(* Properties *)

\* Where field i ends in the buffer of the sender.
EndOf(i) == IF i < Len(fields) THEN fields[i + 1].at ELSE Len(m_buffer)

IsEmptyBlob(f) == f.kind = "blob" /\ Len(f.value) = 0

(* The receiver reads the values that were written, its cursor is behind   *)
(* each field where the sender's was, however many bytes the numbers before *)
(* it took, and bytesLeft is zero when, and only when, all have been read. *)
RoundTrip ==
  phase = "reading" =>
    /\ \A i \in DOMAIN results : /\ results[i].value = fields[i].value
                                 /\ results[i].end = EndOf(i)
    /\ (bytesLeft = 0) <=> (\A i \in DOMAIN fields :
                              i > Len(results) => IsEmptyBlob(fields[i]))
=============================================================================
