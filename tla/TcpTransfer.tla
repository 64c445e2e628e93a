----------------------------- MODULE TcpTransfer -----------------------------
(* SU_SendTCPBuffer and SU_ReadTCPBuffer of socks.c: a program that sends   *)
(* buffers on one end of a stream and a program that reads buffers on the   *)
(* other, over a network that takes and gives them in parts. The bytes are  *)
(* numbered in the order the sender wants them to be read.                  *)
EXTENDS Integers, Sequences

CONSTANTS Last,        \* the sender's last byte
          SendSizes, PacketSizes, ReadSizes,   \* sizes of the buffers, and of the parts given to send at a time (0: all)
          Capacity,    \* bytes on the way
          MaxWait      \* the timeout of a read, in ticks

VARIABLES wire, out, peer,   \* the bytes on the way; the sender's end and the reader's: "open", "closed"
          sender,      \* the buffer being sent: its first byte, size, packet_size, what is left of it, total and answer
          next,        \* (history) the sender's next byte, if all it was told is true
          reader,      \* the buffer being read
          told         \* (history) the bytes of the buffers the reader was told of, and whether a read has ended in the middle of one

vars == <<wire, out, peer, sender, next, reader, told>>

Resting == [at |-> "rest", first |-> 0, size |-> 0, packet |-> 0, left |-> 0, ret |-> 0]
Away == [at |-> "rest", size |-> 0, full |-> FALSE, timed |-> FALSE, time |-> 0, buf |-> << >>, ret |-> 0]

Init ==
  /\ wire = << >> /\ out = "open" /\ peer = "open"
  /\ sender = Resting /\ next = 1
  /\ reader = Away /\ told = [bytes |-> << >>, cut |-> FALSE]

-----------------------------------------------------------------------------
(* SU_SendTCPBuffer                                                         *)
Smaller(a, b) == IF a < b THEN a ELSE b
Send ==
  /\ sender.at = "rest" /\ out = "open"
  /\ \E size \in SendSizes, packet \in PacketSizes :
       /\ next + size - 1 <= Last
       /\ sender' = [at |-> "send", first |-> next, size |-> size, packet |-> IF packet = 0 THEN size ELSE packet, left |-> size, ret |-> 0]
  /\ UNCHANGED <<wire, out, peer, next, reader, told>>

\* Variant of FirstLeft for which every part begins where the buffer does.
FirstOfBuffer == sender.first
FirstLeft == sender.first + sender.size - sender.left

\* send takes a part of the packet, one byte at least.
SendPart ==
  /\ sender.at = "send" /\ sender.left > 0 /\ peer = "open"
  /\ \E n \in 1..Smaller(Smaller(sender.left, sender.packet), Capacity - Len(wire)) :
       /\ wire' = wire \o [k \in 1..n |-> FirstLeft + k - 1]
       /\ sender' = [sender EXCEPT !.left = @ - n, !.ret = sender.size - (sender.left - n)]
  /\ UNCHANGED <<out, peer, next, reader, told>>
\* A full network: a socket that does not block says EAGAIN, and send is called again. Any other failure ends the call, and its answer is
\* that of send, whatever went before.
SendFails ==
  /\ sender.at = "send" /\ sender.left > 0
  /\ sender' = [sender EXCEPT !.at = "sent", !.ret = -1]
  /\ UNCHANGED <<wire, out, peer, next, reader, told>>
SendReturns ==
  /\ (sender.at = "send" /\ sender.left = 0) \/ sender.at = "sent"
  /\ IF sender.ret > 0 THEN next' = next + sender.ret /\ out' = out
     ELSE next' = next /\ out' = "closed"       \* a program that is told of an error can but close
  /\ sender' = Resting /\ UNCHANGED <<wire, peer, reader, told>>
CloseSender ==
  /\ sender.at = "rest" /\ out = "open" /\ out' = "closed"
  /\ UNCHANGED <<wire, peer, sender, next, reader, told>>

-----------------------------------------------------------------------------
(* SU_ReadTCPBuffer. select waits for what is left of TimeOut: it counts     *)
(* the time down in the caller's structure.                                 *)
Read ==
  /\ reader.at = "rest" /\ peer = "open"
  /\ \E size \in ReadSizes, full \in BOOLEAN, timed \in BOOLEAN :
       reader' = [Away EXCEPT !.at = "select", !.size = size, !.full = full, !.timed = timed, !.time = IF timed THEN MaxWait ELSE 0]
  /\ UNCHANGED <<wire, out, peer, sender, next, told>>

Readable == wire # << >> \/ out = "closed"
SelectReady ==
  /\ reader.at = "select" /\ Readable /\ reader' = [reader EXCEPT !.at = "recv"]
  /\ UNCHANGED <<wire, out, peer, sender, next, told>>
\* Variant of TimeLeft for a select that leaves the structure alone: every part may take the whole time.
TimeLeftWhole(r) == r.time
TimeLeft(r) == r.time - 1
WaitOne ==
  /\ reader.at = "select" /\ ~Readable /\ reader.timed /\ reader.time > 0
  /\ reader' = [reader EXCEPT !.time = TimeLeft(reader)]
  /\ UNCHANGED <<wire, out, peer, sender, next, told>>
SelectTimesOut ==
  /\ reader.at = "select" /\ ~Readable /\ reader.timed /\ reader.time = 0
  /\ reader' = [reader EXCEPT !.at = "done", !.ret = -2]
  /\ UNCHANGED <<wire, out, peer, sender, next, told>>

\* Variant of Goes for which one part is enough.
GoesNever(r) == FALSE
Goes(r) == r.full /\ Len(r.buf) < r.size
\* Variant of Missing that forgets what has been read.
MissingAll(r) == r.size
Missing(r) == r.size - Len(r.buf)
Recv ==
  /\ reader.at = "recv" /\ wire # << >>
  /\ \E n \in 1..Smaller(Len(wire), Missing(reader)) :
       LET r == [reader EXCEPT !.buf = @ \o SubSeq(wire, 1, n), !.ret = Len(reader.buf) + n] IN
       /\ wire' = SubSeq(wire, n + 1, Len(wire))
       /\ reader' = [r EXCEPT !.at = IF Goes(r) THEN "select" ELSE "done"]
  /\ UNCHANGED <<out, peer, sender, next, told>>
\* The end of the stream answers 0, an error -1 (EINTR at recv, too; EAGAIN begins again): what was read before is not told.
RecvEnds ==
  /\ reader.at = "recv"
  /\ \/ wire = << >> /\ out = "closed" /\ reader' = [reader EXCEPT !.at = "done", !.ret = 0]
     \/ reader' = [reader EXCEPT !.at = "done", !.ret = -1]
  /\ UNCHANGED <<wire, out, peer, sender, next, told>>
ReadReturns ==
  /\ reader.at = "done"
  /\ told' = IF reader.ret > 0 THEN [told EXCEPT !.bytes = @ \o SubSeq(reader.buf, 1, reader.ret)]
             ELSE [told EXCEPT !.cut = @ \/ reader.buf # << >>]
  /\ peer' = IF reader.ret \in {0, -1} THEN "closed" ELSE peer
  /\ reader' = Away /\ UNCHANGED <<wire, out, sender, next>>

Network == WaitOne \/ SelectReady \/ SelectTimesOut \/ Recv \/ RecvEnds \/ ReadReturns
Next == Send \/ SendPart \/ SendFails \/ SendReturns \/ CloseSender \/ Read \/ Network
\* The reader's calls go on: select returns when there is something to read, and time passes.
Fairness == WF_vars(Network)
Spec == Init /\ [][Next]_vars /\ Fairness
-----------------------------------------------------------------------------
TypeOK ==
  /\ out \in {"open", "closed"} /\ peer \in {"open", "closed"} /\ Len(wire) <= Capacity
  /\ sender.at \in {"rest", "send", "sent"} /\ sender.left \in 0..sender.size /\ sender.ret \in -1..sender.size
  /\ reader.at \in {"rest", "select", "recv", "done"} /\ reader.ret \in -2..reader.size /\ Len(reader.buf) <= reader.size

\* However send and recv split the buffers: as long as no read has ended with an error, the end or a timeout after a part of its buffer, what the reader
\* is told, holds and has before it is the sender's bytes in their order, none twice and none left out. A program that was told of
\* all its bytes (next) has put neither more nor less on the way.
BytesInOrder ==
  LET seen == told.bytes \o reader.buf \o wire IN
  /\ ~told.cut => seen = [k \in 1..Len(seen) |-> k]
  /\ ~told.cut /\ sender.at = "rest" /\ out = "open" => Len(seen) = next - 1

\* skyutils.h of WaitForFullBuffer: "don't return until error, or 'size' bytes has been read" (socks.c:188).
FullIsFull == reader.at = "done" /\ reader.full /\ reader.ret > 0 => reader.ret = reader.size /\ Len(reader.buf) = reader.size

\* A read with a timeout ends, whatever the sender does, if it sends one byte at a time as well.
TimedReadReturns == reader.at = "select" /\ reader.timed ~> reader.at = "rest"
=============================================================================
