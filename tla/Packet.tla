------------------------------- MODULE Packet -------------------------------
(* Packet, the serialisation buffer: values are put behind each other and      *)
(* taken out in the same order.  Nothing checks that a value fits or is there: *)
(* the callers see that it fits, but the handlers of the fighter server take   *)
(* their fields out of a payload of whatever length the client gave it.        *)
EXTENDS Integers, Sequences

CONSTANTS Byte, Unset,       \* the values of a byte; what new leaves in one
          m_bufferSize,
          ValueSizes         \* sizes of the types << and >> take, and of PutData

ASSUME PacketAssumption == /\ m_bufferSize \in Nat \ {0}
                           /\ ValueSizes \subseteq Nat \ {0}

VARIABLES
  m_buffer, m_front, m_rear, m_dataSize,
  use,        \* "fresh", "built" by <<, "received" through GetBufferPtr, "sent" from it
  written,    \* the bytes put in since the last Clear
  taken,      \* the bytes taken out
  missing     \* which of them were taken before anything was put there

packetVars == <<m_buffer, m_front, m_rear, m_dataSize, use, written, taken, missing>>

Place == 0..m_bufferSize - 1

PacketInit == /\ m_buffer = [p \in Place |-> Unset]
              /\ m_front = -1 /\ m_rear = -1 /\ m_dataSize = 0
              /\ use = "fresh" /\ written = <<>> /\ taken = <<>> /\ missing = {}

Clear == /\ m_front' = -1 /\ m_rear' = -1 /\ m_dataSize' = 0
         /\ use' = "fresh" /\ written' = <<>> /\ taken' = <<>> /\ missing' = {}
         /\ UNCHANGED m_buffer

Copied(first, bytes) ==
  [p \in Place |-> IF p >= first /\ p < first + Len(bytes) THEN bytes[p - first + 1] ELSE m_buffer[p]]

\* 2^32 - 1, which -1 is as an unsigned number, modulo the size.
Unsigned == ((65536 % m_bufferSize) * (65536 % m_bufferSize) - 1) % m_bufferSize

Moved(position, size) == (position + size) % m_bufferSize

\* operator<< and PutData, by a caller whose packet fits.
Put(bytes) == /\ use \in {"fresh", "built"}
              /\ Len(written) + Len(bytes) <= m_bufferSize
              /\ m_buffer' = Copied(m_rear + 1, bytes)
              /\ m_rear' = Moved(m_rear, Len(bytes))
              /\ m_dataSize' = m_dataSize + Len(bytes)
              /\ use' = "built" /\ written' = written \o bytes
              /\ UNCHANGED <<m_front, taken, missing>>

\* readProc: a payload dequeued to GetBufferPtr(), then MoveWritePos.  Its
\* argument is unsigned, so the sum is as well: 0 moves from -1 to 2^32 - 1.
receive(bytes) ==
  /\ use = "fresh" /\ Len(bytes) <= m_bufferSize
  /\ m_buffer' = Copied(0, bytes)
  /\ m_rear' = IF bytes = <<>> THEN Unsigned ELSE Moved(m_rear, Len(bytes))
  /\ m_dataSize' = m_dataSize + Len(bytes)
  /\ use' = "received" /\ written' = bytes
  /\ UNCHANGED <<m_front, taken, missing>>

\* operator>> and GetData, of a value that was put in or not: behind the last
\* byte they copy what the buffer held.  The read ends inside the buffer.
Take(size) == /\ use \in {"built", "received"}
              /\ Len(taken) + size <= m_bufferSize
              /\ taken' = taken \o [i \in 1..size |-> m_buffer[m_front + i]]
              /\ missing' = missing \cup
                   {i \in Len(taken) + 1..Len(taken) + size : i > Len(written)}
              /\ m_front' = Moved(m_front, size)
              /\ m_dataSize' = m_dataSize - size
              /\ UNCHANGED <<m_buffer, m_rear, use, written>>

\* unicast and broadcast enqueue GetDataSize() bytes from GetBufferPtr() and end
\* with MoveReadPos(retval), which broadcast to nobody leaves uninitialized.
send == /\ use = "built"
        /\ use' = "sent"
        /\ \E retval \in 0..m_bufferSize :
             /\ m_front' = (m_front + retval) % m_bufferSize
             /\ m_dataSize' = m_dataSize - retval
        /\ UNCHANGED <<m_buffer, m_rear, written, taken, missing>>

PacketNext == \/ \E k \in ValueSizes : \/ \E bytes \in [1..k -> Byte] : Put(bytes)
                                       \/ Take(k)
              \/ \E k \in ValueSizes \cup {0} : \E bytes \in [1..k -> Byte] : receive(bytes)
              \/ send \/ Clear

PacketSpec == PacketInit /\ [][PacketNext]_packetVars
-----------------------------------------------------------------------------
(* What is taken out of a packet is what was put in, byte for byte and in the  *)
(* same order, whatever the sizes of the values and the earlier uses of the    *)
(* buffer, except for the bytes that were not there yet.  Of a payload, whose  *)
(* fields the handlers take without looking at its length, these are the ones  *)
(* behind its end, they come as the buffer held them, and m_dataSize below     *)
(* zero would tell.                                                            *)
TakenAsWritten ==
  use # "sent" =>
    /\ Len(taken) + m_dataSize = Len(written)
    /\ \A i \in 1..Len(taken) : i \notin missing => i <= Len(written) /\ taken[i] = written[i]
    /\ \A i \in 1..Len(written) : m_buffer[i - 1] = written[i]
    /\ use = "received" =>
         /\ missing = Len(written) + 1..Len(taken)
         /\ \A i \in missing : taken[i] = m_buffer[i - 1]
         /\ m_dataSize < 0 <=> missing # {}
=============================================================================
