--------------------------- MODULE ChannelsProofs ---------------------------
(***************************************************************************)
(* Theorems about the parts of MCChannels that have no proofs of their own *)
(* elsewhere, and about all of them put together.                          *)
(*                                                                         *)
(* Of TcpTransfer, for buffers, packets, networks and timeouts of any      *)
(* size: what the reader is told is what was sent.  TcpInv says it place   *)
(* by place: where each byte is, of those told of, held and on the way     *)
(* (InOrder), and how many there are (Counted), next to what the two calls *)
(* know at each of their steps (CallsKnow).                                *)
(*                                                                         *)
(* Of DebugLink, for any threads, slots, links and calls: the steps of a   *)
(* thread are first told apart by what they do to slots and links (Does),  *)
(* so that each part of DebugInv is looked at once per kind of step.  What *)
(* holds whoever is in the channel is LinkInv; while one thread at a time  *)
(* is, each link is in its place (SlotInv), and what is on it goes on      *)
(* where the console stopped reading (StreamInv).                          *)
(***************************************************************************)
EXTENDS MCChannels, SequenceTheorems, WellFoundedInduction, ThreadsProofs

-----------------------------------------------------------------------------
(* Sequences.                                                              *)

\* What is taken from the front of a sequence, and what is left of it.
LEMMA CutInTwo ==
  ASSUME NEW S, NEW s \in Seq(S), NEW n \in 0..Len(s)
  PROVE  /\ SubSeq(s, 1, n) \in Seq(S) /\ Len(SubSeq(s, 1, n)) = n
         /\ \A k \in 1..n : SubSeq(s, 1, n)[k] = s[k]
         /\ SubSeq(s, n + 1, Len(s)) \in Seq(S) /\ Len(SubSeq(s, n + 1, Len(s))) = Len(s) - n
         /\ \A k \in 1..(Len(s) - n) : SubSeq(s, n + 1, Len(s))[k] = s[n + k]
<1>1. Len(s) \in Nat /\ \A k \in 1..Len(s) : s[k] \in S
  BY LenProperties, ElementOfSeq
<1>2. /\ SubSeq(s, 1, n) \in Seq(S) /\ Len(SubSeq(s, 1, n)) = n
      /\ \A k \in 1..n : SubSeq(s, 1, n)[k] = s[k]
  <2>1. \A k \in 1..n : s[k] \in S
    BY <1>1
  <2>2. /\ SubSeq(s, 1, n) \in Seq(S)
        /\ Len(SubSeq(s, 1, n)) = IF 1 <= n THEN n - 1 + 1 ELSE 0
        /\ \A k \in 1..(n - 1 + 1) : SubSeq(s, 1, n)[k] = s[1 + k - 1]
    BY <1>1, <2>1, SubSeqProperties
  <2>3. QED
    BY <1>1, <2>2
<1>3. /\ SubSeq(s, n + 1, Len(s)) \in Seq(S) /\ Len(SubSeq(s, n + 1, Len(s))) = Len(s) - n
      /\ \A k \in 1..(Len(s) - n) : SubSeq(s, n + 1, Len(s))[k] = s[n + k]
  <2>1. \A k \in (n + 1)..Len(s) : s[k] \in S
    BY <1>1
  <2>2. /\ SubSeq(s, n + 1, Len(s)) \in Seq(S)
        /\ Len(SubSeq(s, n + 1, Len(s))) = IF n + 1 <= Len(s) THEN Len(s) - (n + 1) + 1 ELSE 0
        /\ \A k \in 1..(Len(s) - (n + 1) + 1) : SubSeq(s, n + 1, Len(s))[k] = s[(n + 1) + k - 1]
    BY <1>1, <2>1, SubSeqProperties
  <2>3. QED
    BY <1>1, <2>2
<1>4. QED
  BY <1>2, <1>3

\* Sequences that go on counting where others stop.
CountsFrom(s, n) == \A k \in 1..Len(s) : s[k] = n + k

LEMMA CountsOn ==
  ASSUME NEW s \in Seq(Nat), NEW t \in Seq(Nat), NEW n \in Nat
  PROVE  /\ s \o t \in Seq(Nat) /\ Len(s \o t) = Len(s) + Len(t)
         /\ CountsFrom(s, n) /\ CountsFrom(t, n + Len(s)) => CountsFrom(s \o t, n)
<1>1. Len(s) \in Nat /\ Len(t) \in Nat
  BY LenProperties
<1>2. /\ s \o t \in Seq(Nat) /\ Len(s \o t) = Len(s) + Len(t)
      /\ \A k \in 1..(Len(s) + Len(t)) : (s \o t)[k] = IF k <= Len(s) THEN s[k] ELSE t[k - Len(s)]
  BY ConcatProperties
<1>3. ASSUME CountsFrom(s, n), CountsFrom(t, n + Len(s)), NEW k \in 1..(Len(s) + Len(t))
      PROVE  (s \o t)[k] = n + k
  <2>1. CASE k <= Len(s)
    BY <1>1, <1>2, <1>3, <2>1 DEF CountsFrom
  <2>2. CASE ~(k <= Len(s))
    <3>1. k - Len(s) \in 1..Len(t) /\ (n + Len(s)) + (k - Len(s)) = n + k
      BY <1>1, <2>2
    <3>2. t[k - Len(s)] = n + k
      BY <1>3, <3>1 DEF CountsFrom
    <3>3. QED
      BY <1>2, <2>2, <3>2
  <2>3. QED
    BY <2>1, <2>2
<1>4. QED
  BY <1>2, <1>3 DEF CountsFrom

LEMMA CountsInTwo ==
  ASSUME NEW s \in Seq(Nat), NEW n \in Nat, CountsFrom(s, n), NEW m \in 0..Len(s)
  PROVE  /\ CountsFrom(SubSeq(s, 1, m), n)
         /\ CountsFrom(SubSeq(s, m + 1, Len(s)), n + m)
<1>1. Len(s) \in Nat
  BY LenProperties
<1>2. QED
  BY <1>1, CutInTwo DEF CountsFrom

-----------------------------------------------------------------------------
(* TcpTransfer.                                                            *)

TcpAssumptions ==
  /\ SendSizes \subseteq Nat /\ PacketSizes \subseteq Nat /\ ReadSizes \subseteq Nat
  /\ Capacity \in Nat /\ MaxWait \in Nat

Senders == [at : {"rest", "send", "sent"}, first : Nat, size : Nat, packet : Nat, left : Nat, ret : Int]
Readers == [at : {"rest", "select", "recv", "done"}, size : Nat, full : BOOLEAN, timed : BOOLEAN, time : Int,
            buf : Seq(Nat), ret : Int]

\* The changes of two fields at a time.
Filled(s, left, ret) == [s EXCEPT !.left = left, !.ret = ret]
Failed(s, ret) == [s EXCEPT !.at = "sent", !.ret = ret]
Answered(r, ret) == [r EXCEPT !.at = "done", !.ret = ret]
Buffered(r, buf, ret) == [r EXCEPT !.buf = buf, !.ret = ret]

LEMMA FilledIs ==
  ASSUME NEW s \in Senders, NEW left \in Nat, NEW ret \in Int
  PROVE  /\ Filled(s, left, ret) \in Senders
         /\ Filled(s, left, ret).left = left /\ Filled(s, left, ret).ret = ret
         /\ Filled(s, left, ret).at = s.at /\ Filled(s, left, ret).first = s.first
         /\ Filled(s, left, ret).size = s.size
  BY DEF Senders, Filled

LEMMA FailedIs ==
  ASSUME NEW s \in Senders, NEW ret \in Int
  PROVE  /\ Failed(s, ret) \in Senders
         /\ Failed(s, ret).at = "sent" /\ Failed(s, ret).ret = ret
         /\ Failed(s, ret).size = s.size /\ Failed(s, ret).left = s.left
  BY DEF Senders, Failed

LEMMA AnsweredIs ==
  ASSUME NEW r \in Readers, NEW ret \in Int
  PROVE  /\ Answered(r, ret) \in Readers
         /\ Answered(r, ret).at = "done" /\ Answered(r, ret).ret = ret
         /\ Answered(r, ret).size = r.size /\ Answered(r, ret).buf = r.buf
  BY DEF Readers, Answered

LEMMA BufferedIs ==
  ASSUME NEW r \in Readers, NEW buf \in Seq(Nat), NEW ret \in Int
  PROVE  /\ Buffered(r, buf, ret) \in Readers
         /\ Buffered(r, buf, ret).buf = buf /\ Buffered(r, buf, ret).ret = ret
         /\ Buffered(r, buf, ret).size = r.size /\ Buffered(r, buf, ret).full = r.full
  BY DEF Readers, Buffered

TcpShape ==
  /\ tcp_wire \in Seq(Nat) /\ Len(tcp_wire) <= Capacity
  /\ tcp_out \in {"open", "closed"} /\ tcp_peer \in {"open", "closed"} /\ tcp_next \in Nat \ {0}
  /\ tcp_sender \in Senders /\ tcp_sender.left <= tcp_sender.size
  /\ -1 <= tcp_sender.ret /\ tcp_sender.ret <= tcp_sender.size
  /\ tcp_reader \in Readers /\ Len(tcp_reader.buf) <= tcp_reader.size
  /\ -2 <= tcp_reader.ret /\ tcp_reader.ret <= tcp_reader.size
  /\ tcp_told \in [bytes : Seq(Nat), cut : BOOLEAN]

\* A call that sends has an open socket, and knows how much of its buffer is sent; a read that is done
\* tells all of its buffer, or an error.
CallsKnow ==
  /\ tcp_sender.at # "rest" => tcp_out = "open"
  /\ tcp_sender.at = "send" =>
       tcp_sender.first = tcp_next /\ tcp_sender.ret = tcp_sender.size - tcp_sender.left
  /\ tcp_sender.at = "sent" => tcp_sender.ret = -1
  /\ tcp_reader.at = "rest" => tcp_reader.buf = << >>
  /\ tcp_reader.at = "done" /\ tcp_reader.ret > 0 => tcp_reader.ret = Len(tcp_reader.buf)
  /\ Tcp!FullIsFull

Had == Len(tcp_told.bytes) + Len(tcp_reader.buf)

InOrder ==
  /\ CountsFrom(tcp_told.bytes, 0)
  /\ CountsFrom(tcp_reader.buf, Len(tcp_told.bytes))
  /\ CountsFrom(tcp_wire, Had)

Counted ==
  /\ tcp_sender.at = "rest" /\ tcp_out = "open" => Had + Len(tcp_wire) = tcp_next - 1
  /\ tcp_sender.at = "send" => Had + Len(tcp_wire) = tcp_next - 1 + (tcp_sender.size - tcp_sender.left)

TcpInv == TcpShape /\ CallsKnow /\ (~tcp_told.cut => InOrder /\ Counted)

LEMMA Lengths ==
  ASSUME TcpShape
  PROVE  /\ Len(tcp_wire) \in Nat /\ Len(tcp_told.bytes) \in Nat /\ Len(tcp_reader.buf) \in Nat /\ Had \in Nat
         /\ tcp_told.bytes \in Seq(Nat) /\ tcp_reader.buf \in Seq(Nat)
  BY LenProperties DEF TcpShape, Readers, Had

LEMMA TcpInitInv ==
  ASSUME TcpAssumptions, Tcp!Init
  PROVE  TcpInv
<1>1. << >> \in Seq(Nat) /\ Len(<< >>) = 0
  BY EmptySeq
<1>2. TcpShape
  BY <1>1 DEF Tcp!Init, Tcp!Resting, Tcp!Away, TcpShape, Senders, Readers, TcpAssumptions
<1>3. CallsKnow
  BY DEF Tcp!Init, Tcp!Resting, Tcp!Away, CallsKnow, Tcp!FullIsFull
<1>4. InOrder /\ Counted
  BY <1>1 DEF Tcp!Init, Tcp!Resting, Tcp!Away, InOrder, Counted, CountsFrom, Had
<1>5. QED
  BY <1>2, <1>3, <1>4 DEF TcpInv

\* Steps that change only what the sender's call knows.
LEMMA SendKeeps ==
  ASSUME TcpAssumptions, TcpInv, Tcp!Send \/ Tcp!SendFails \/ Tcp!SendReturns \/ Tcp!CloseSender
  PROVE  TcpInv'
<1>0. TcpShape /\ CallsKnow
  BY DEF TcpInv
<1>1. TcpShape'
  <2>1. CASE Tcp!Send
    BY <1>0, <2>1 DEF Tcp!Send, TcpShape, Senders, TcpAssumptions
  <2>2. CASE Tcp!SendFails
    <3>1. tcp_sender' = Failed(tcp_sender, -1) /\ -1 \in Int
      BY <2>2 DEF Tcp!SendFails, Failed
    <3>2. /\ tcp_sender' \in Senders /\ tcp_sender'.ret = -1
          /\ tcp_sender'.left = tcp_sender.left /\ tcp_sender'.size = tcp_sender.size
      BY <1>0, <3>1, FailedIs DEF TcpShape
    <3>3. -1 <= tcp_sender'.ret /\ tcp_sender'.ret <= tcp_sender'.size
      BY <3>2 DEF Senders
    <3>4. QED
      BY <1>0, <2>2, <3>2, <3>3 DEF Tcp!SendFails, TcpShape
  <2>3. CASE Tcp!SendReturns
    BY <1>0, <2>3 DEF Tcp!SendReturns, Tcp!Resting, TcpShape, Senders
  <2>4. CASE Tcp!CloseSender
    BY <1>0, <2>4 DEF Tcp!CloseSender, TcpShape
  <2>5. QED
    BY <2>1, <2>2, <2>3, <2>4
<1>2. UNCHANGED <<tcp_wire, tcp_peer, tcp_reader, tcp_told>>
  BY DEF Tcp!Send, Tcp!SendFails, Tcp!SendReturns, Tcp!CloseSender
<1>3. InOrder => InOrder'
  BY <1>2 DEF InOrder, Had
<1>4. CallsKnow' /\ (Counted => Counted')
  <2>1. CASE Tcp!Send
    BY <1>0, <1>2, <2>1 DEF Tcp!Send, TcpShape, Senders, TcpAssumptions, CallsKnow, Counted, Had, Tcp!FullIsFull
  <2>2. CASE Tcp!SendFails
    BY <1>0, <1>2, <2>2 DEF Tcp!SendFails, TcpShape, Senders, CallsKnow, Counted, Tcp!FullIsFull
  <2>3. CASE Tcp!SendReturns
    BY <1>0, <1>2, <2>3, Lengths DEF Tcp!SendReturns, Tcp!Resting, TcpShape, Senders, CallsKnow, Counted, Had, Tcp!FullIsFull
  <2>4. CASE Tcp!CloseSender
    BY <1>0, <1>2, <2>4 DEF Tcp!CloseSender, CallsKnow, Counted, Tcp!FullIsFull
  <2>5. QED
    BY <2>1, <2>2, <2>3, <2>4
<1>5. QED
  BY <1>1, <1>2, <1>3, <1>4 DEF TcpInv

\* send takes the next bytes of the buffer, and as many as it says.
LEMMA SendPartKeeps ==
  ASSUME TcpAssumptions, TcpInv, Tcp!SendPart
  PROVE  TcpInv'
<1>0. TcpShape /\ CallsKnow /\ (~tcp_told.cut => InOrder /\ Counted)
  BY DEF TcpInv
<1>1. PICK n \in 1..Tcp!Smaller(Tcp!Smaller(tcp_sender.left, tcp_sender.packet), Capacity - Len(tcp_wire)) :
        /\ tcp_wire' = tcp_wire \o [k \in 1..n |-> Tcp!FirstLeft + k - 1]
        /\ tcp_sender' = [tcp_sender EXCEPT !.left = @ - n, !.ret = tcp_sender.size - (tcp_sender.left - n)]
  BY DEF Tcp!SendPart
<1> DEFINE piece == [k \in 1..n |-> Tcp!FirstLeft + k - 1]
           sent == tcp_sender.size - tcp_sender.left
<1>2. /\ tcp_sender.at = "send" /\ tcp_sender.left > 0
      /\ UNCHANGED <<tcp_out, tcp_peer, tcp_next, tcp_reader, tcp_told>>
  BY DEF Tcp!SendPart
<1>3. n \in Nat \ {0} /\ n <= tcp_sender.left /\ n <= Capacity - Len(tcp_wire)
  BY <1>0, <1>1, Lengths DEF Tcp!Smaller, TcpShape, Senders, TcpAssumptions
<1>4. sent \in Nat /\ Tcp!FirstLeft = tcp_next + sent
  BY <1>0, <1>2 DEF CallsKnow, TcpShape, Senders, Tcp!FirstLeft
<1> HIDE DEF sent
<1>5. piece \in Seq(Nat) /\ Len(piece) = n /\ \A k \in 1..n : piece[k] = tcp_next + sent + k - 1
  BY <1>0, <1>3, <1>4 DEF TcpShape
<1> HIDE DEF piece
<1>6. tcp_wire' = tcp_wire \o piece
  BY <1>1 DEF piece
<1>7. tcp_wire' \in Seq(Nat) /\ Len(tcp_wire') = Len(tcp_wire) + n
  BY <1>0, <1>5, <1>6, CountsOn DEF TcpShape
<1>8. /\ tcp_sender' \in Senders /\ tcp_sender'.left = tcp_sender.left - n
      /\ tcp_sender'.ret = sent + n /\ tcp_sender'.at = "send"
      /\ tcp_sender'.size = tcp_sender.size /\ tcp_sender'.first = tcp_sender.first
  <2>1. /\ tcp_sender \in Senders /\ tcp_sender.left - n \in Nat /\ sent + n \in Int
        /\ tcp_sender.size - (tcp_sender.left - n) = sent + n
    BY <1>0, <1>3 DEF TcpShape, Senders, sent
  <2>2. tcp_sender' = Filled(tcp_sender, tcp_sender.left - n, sent + n)
    BY <1>1, <2>1 DEF Filled
  <2>3. QED
    BY <1>2, <2>1, <2>2, FilledIs
<1>9. TcpShape'
  <2>1. Len(tcp_wire) + n <= Capacity
    BY <1>0, <1>3, Lengths DEF TcpAssumptions
  <2>2. tcp_sender'.left <= tcp_sender'.size /\ -1 <= tcp_sender'.ret /\ tcp_sender'.ret <= tcp_sender'.size
    BY <1>0, <1>3, <1>8 DEF TcpShape, Senders, sent
  <2>3. QED
    BY <1>0, <1>2, <1>7, <1>8, <2>1, <2>2 DEF TcpShape
<1>10. CallsKnow'
  <2>1. tcp_sender'.ret = tcp_sender'.size - tcp_sender'.left
    BY <1>0, <1>3, <1>8 DEF TcpShape, Senders, sent
  <2>2. QED
    BY <1>0, <1>2, <1>8, <2>1 DEF CallsKnow, Tcp!FullIsFull
<1>11. ASSUME ~tcp_told.cut PROVE InOrder' /\ Counted'
  <2>1. Had \in Nat /\ Had' = Had /\ Had + Len(tcp_wire) = tcp_next - 1 + sent
    BY <1>0, <1>2, <1>11, Lengths DEF Counted, Had, sent
  <2>2. CountsFrom(piece, Had + Len(tcp_wire))
    <3>1. tcp_next \in Nat /\ Len(tcp_wire) \in Nat
      BY <1>0, Lengths DEF TcpShape
    <3>2. QED
      BY <1>3, <1>4, <1>5, <2>1, <3>1 DEF CountsFrom
  <2>3. CountsFrom(tcp_wire', Had)
    BY <1>0, <1>5, <1>6, <1>11, <2>1, <2>2, CountsOn DEF InOrder, TcpShape
  <2>4. InOrder'
    BY <1>0, <1>2, <1>11, <2>1, <2>3 DEF InOrder
  <2>5. Counted'
    <3>1. tcp_sender'.size - tcp_sender'.left = sent + n
      BY <1>0, <1>3, <1>8 DEF TcpShape, Senders, sent
    <3>2. Had + Len(tcp_wire') = tcp_next - 1 + (sent + n)
      <4>1. tcp_next \in Nat /\ Len(tcp_wire) \in Nat
        BY <1>0, Lengths DEF TcpShape
      <4>2. QED
        BY <1>3, <1>4, <1>7, <2>1, <4>1
    <3>3. QED
      BY <1>2, <1>8, <2>1, <3>1, <3>2 DEF Counted
  <2>6. QED
    BY <2>4, <2>5
<1>12. QED
  BY <1>2, <1>9, <1>10, <1>11 DEF TcpInv

\* Steps that change only what the reader's call knows.
LEMMA WaitKeeps ==
  ASSUME TcpAssumptions, TcpInv,
         Tcp!Read \/ Tcp!SelectReady \/ Tcp!WaitOne \/ Tcp!SelectTimesOut \/ Tcp!RecvEnds
  PROVE  TcpInv'
<1>0. TcpShape /\ CallsKnow /\ (~tcp_told.cut => InOrder /\ Counted)
  BY DEF TcpInv
<1>1. UNCHANGED <<tcp_wire, tcp_out, tcp_peer, tcp_sender, tcp_next, tcp_told>>
  BY DEF Tcp!Read, Tcp!SelectReady, Tcp!WaitOne, Tcp!SelectTimesOut, Tcp!RecvEnds
<1>2. /\ tcp_reader' \in Readers /\ tcp_reader'.buf = tcp_reader.buf
      /\ -2 <= tcp_reader'.ret /\ tcp_reader'.ret <= tcp_reader'.size /\ Len(tcp_reader'.buf) <= tcp_reader'.size
      /\ tcp_reader'.at # "rest" /\ (tcp_reader'.at = "done" => tcp_reader'.ret <= 0)
  <2>1. /\ tcp_reader \in Readers /\ tcp_reader.size \in Nat /\ tcp_reader.time \in Int
        /\ -2 <= tcp_reader.ret /\ tcp_reader.ret <= tcp_reader.size /\ Len(tcp_reader.buf) <= tcp_reader.size
    BY <1>0 DEF TcpShape, Readers
  <2>2. CASE Tcp!Read
    <3>1. PICK size \in ReadSizes, full \in BOOLEAN, timed \in BOOLEAN :
            tcp_reader' = [Tcp!Away EXCEPT !.at = "select", !.size = size, !.full = full, !.timed = timed,
                                           !.time = IF timed THEN MaxWait ELSE 0]
      BY <2>2 DEF Tcp!Read
    <3>2. /\ tcp_reader' = [at |-> "select", size |-> size, full |-> full, timed |-> timed,
                            time |-> IF timed THEN MaxWait ELSE 0, buf |-> << >>, ret |-> 0]
          /\ size \in Nat /\ MaxWait \in Nat
      BY <3>1 DEF Tcp!Away, TcpAssumptions
    <3>3. tcp_reader.buf = << >> /\ << >> \in Seq(Nat) /\ Len(<< >>) = 0
      BY <1>0, <2>2, EmptySeq DEF Tcp!Read, CallsKnow
    <3>4. QED
      BY <3>2, <3>3 DEF Readers
  <2>3. CASE Tcp!SelectReady
    BY <2>1, <2>3 DEF Tcp!SelectReady, Readers
  <2>4. CASE Tcp!WaitOne
    <3>1. tcp_reader.at = "select" /\ tcp_reader' = [tcp_reader EXCEPT !.time = tcp_reader.time - 1]
      BY <2>4 DEF Tcp!WaitOne, Tcp!TimeLeft
    <3>2. QED
      BY <2>1, <3>1 DEF Readers
  <2>5. CASE Tcp!SelectTimesOut \/ Tcp!RecvEnds
    <3>1. PICK ret \in {0, -1, -2} : tcp_reader' = Answered(tcp_reader, ret)
      BY <2>5 DEF Tcp!SelectTimesOut, Tcp!RecvEnds, Answered
    <3>2. ret \in Int /\ -2 <= ret /\ ret <= 0
      OBVIOUS
    <3>3. /\ tcp_reader' \in Readers /\ tcp_reader'.at = "done" /\ tcp_reader'.ret = ret
          /\ tcp_reader'.size = tcp_reader.size /\ tcp_reader'.buf = tcp_reader.buf
      BY <2>1, <3>1, <3>2, AnsweredIs
    <3>4. QED
      BY <2>1, <3>2, <3>3
  <2>6. QED
    BY <2>2, <2>3, <2>4, <2>5
<1>3. TcpShape'
  BY <1>0, <1>1, <1>2 DEF TcpShape
<1>4. CallsKnow'
  BY <1>0, <1>1, <1>2 DEF CallsKnow, Tcp!FullIsFull, Readers
<1>5. (InOrder => InOrder') /\ (Counted => Counted')
  BY <1>1, <1>2 DEF InOrder, Counted, Had
<1>6. QED
  BY <1>0, <1>1, <1>3, <1>4, <1>5 DEF TcpInv

\* recv gives the next bytes that are on the way.
LEMMA RecvKeeps ==
  ASSUME TcpAssumptions, TcpInv, Tcp!Recv
  PROVE  TcpInv'
<1>0. TcpShape /\ CallsKnow /\ (~tcp_told.cut => InOrder /\ Counted)
  BY DEF TcpInv
<1>1. PICK n \in 1..Tcp!Smaller(Len(tcp_wire), Tcp!Missing(tcp_reader)) :
        LET r == [tcp_reader EXCEPT !.buf = @ \o SubSeq(tcp_wire, 1, n), !.ret = Len(tcp_reader.buf) + n]
        IN  /\ tcp_wire' = SubSeq(tcp_wire, n + 1, Len(tcp_wire))
            /\ tcp_reader' = [r EXCEPT !.at = IF Tcp!Goes(r) THEN "select" ELSE "done"]
  BY DEF Tcp!Recv
<1> DEFINE front == SubSeq(tcp_wire, 1, n)
           buf == tcp_reader.buf \o front
           r == Buffered(tcp_reader, buf, Len(tcp_reader.buf) + n)
<1>2. UNCHANGED <<tcp_out, tcp_peer, tcp_sender, tcp_next, tcp_told>>
  BY DEF Tcp!Recv
<1>3. n \in 1..Len(tcp_wire) /\ n <= tcp_reader.size - Len(tcp_reader.buf)
  BY <1>0, <1>1, Lengths DEF Tcp!Smaller, Tcp!Missing, TcpShape, Readers
<1>4. /\ front \in Seq(Nat) /\ Len(front) = n
      /\ tcp_wire' \in Seq(Nat) /\ Len(tcp_wire') = Len(tcp_wire) - n
  <2>1. tcp_wire \in Seq(Nat) /\ n \in 0..Len(tcp_wire)
    BY <1>0, <1>3, Lengths DEF TcpShape
  <2>2. tcp_wire' = SubSeq(tcp_wire, n + 1, Len(tcp_wire))
    BY <1>1
  <2>3. QED
    BY <2>1, <2>2, CutInTwo
<1> HIDE DEF front
<1>5. buf \in Seq(Nat) /\ Len(buf) = Len(tcp_reader.buf) + n
  BY <1>0, <1>4, CountsOn, Lengths
<1> HIDE DEF buf
<1>6. tcp_reader' = [r EXCEPT !.at = IF Tcp!Goes(r) THEN "select" ELSE "done"]
  BY <1>1 DEF buf, front, Buffered
<1>7. /\ r \in Readers /\ r.buf = buf /\ r.ret = Len(buf) /\ r.size = tcp_reader.size /\ r.full = tcp_reader.full
      /\ Len(buf) <= r.size
  <2>1. tcp_reader \in Readers /\ tcp_reader.size \in Nat /\ Len(tcp_reader.buf) + n \in Int
    BY <1>0, <1>3, Lengths DEF TcpShape, Readers
  <2>2. Len(buf) <= tcp_reader.size
    BY <1>0, <1>3, <1>5, <2>1, Lengths
  <2>3. /\ r \in Readers /\ r.buf = buf /\ r.ret = Len(tcp_reader.buf) + n
        /\ r.size = tcp_reader.size /\ r.full = tcp_reader.full
    BY <1>5, <2>1, BufferedIs
  <2>4. QED
    BY <1>5, <2>2, <2>3
<1> HIDE DEF r
<1>8. /\ tcp_reader' \in Readers /\ tcp_reader'.buf = buf /\ tcp_reader'.ret = Len(buf)
      /\ tcp_reader'.size = r.size /\ tcp_reader'.full = r.full /\ tcp_reader'.at \in {"select", "done"}
      /\ tcp_reader'.at = "done" => ~(r.full /\ Len(r.buf) < r.size)
  BY <1>6, <1>7 DEF Readers, Tcp!Goes
<1>9. TcpShape'
  <2>1. Len(tcp_wire') <= Capacity
    BY <1>0, <1>3, <1>4, Lengths DEF TcpShape, TcpAssumptions
  <2>2. Len(buf) \in Nat
    BY <1>0, <1>3, <1>5, Lengths
  <2>3. QED
    BY <1>0, <1>2, <1>4, <1>7, <1>8, <2>1, <2>2 DEF TcpShape
<1>10. CallsKnow'
  <2>1. Len(buf) \in Nat /\ r.size \in Nat
    BY <1>0, <1>3, <1>5, <1>7, Lengths DEF Readers
  <2>2. QED
    BY <1>0, <1>2, <1>7, <1>8, <2>1 DEF CallsKnow, Tcp!FullIsFull
<1>11. ASSUME ~tcp_told.cut PROVE InOrder' /\ Counted'
  <2>1. Had' = Had + n /\ Had' + Len(tcp_wire') = Had + Len(tcp_wire)
    <3>1. Len(tcp_reader'.buf) = Len(tcp_reader.buf) + n
      BY <1>5, <1>8
    <3>2. /\ Len(tcp_told.bytes) \in Nat /\ Len(tcp_reader.buf) \in Nat /\ Len(tcp_wire) \in Nat
          /\ Had \in Nat /\ n \in Nat
      BY <1>0, <1>3, Lengths
    <3>3. Had = Len(tcp_told.bytes) + Len(tcp_reader.buf) /\ Had' = Len(tcp_told'.bytes) + Len(tcp_reader'.buf)
      BY DEF Had
    <3>4. Len(tcp_told'.bytes) = Len(tcp_told.bytes)
      BY <1>2
    <3> DEFINE a == Len(tcp_told.bytes) b == Len(tcp_reader.buf) c == Len(tcp_reader'.buf)
    <3>5. a \in Nat /\ b \in Nat /\ n \in Nat /\ c = b + n /\ Had = a + b /\ Had' = a + c
      BY <3>1, <3>2, <3>3, <3>4
    <3> HIDE DEF a, b, c
    <3>6. Had' = Had + n
      BY <3>5
    <3>7. QED
      BY <1>4, <3>2, <3>6
  <2>2. CountsFrom(front, Had) /\ CountsFrom(tcp_wire', Had + n)
    <3>1. CountsFrom(tcp_wire, Had) /\ tcp_wire \in Seq(Nat) /\ n \in 0..Len(tcp_wire)
      BY <1>0, <1>3, <1>11, Lengths DEF InOrder, TcpShape
    <3>2. QED
      BY <1>0, <1>1, <3>1, CountsInTwo, Lengths DEF front
  <2>3. CountsFrom(buf, Len(tcp_told.bytes))
    BY <1>0, <1>4, <1>11, <2>2, CountsOn, Lengths DEF InOrder, Had, buf
  <2>4. InOrder'
    BY <1>0, <1>2, <1>8, <1>11, <2>1, <2>2, <2>3 DEF InOrder
  <2>5. Counted'
    BY <1>0, <1>2, <1>11, <2>1 DEF Counted
  <2>6. QED
    BY <2>4, <2>5
<1>12. QED
  BY <1>2, <1>9, <1>10, <1>11 DEF TcpInv

\* What the program is told goes from the buffer to the bytes it was told of.
LEMMA ReadReturnsKeeps ==
  ASSUME TcpAssumptions, TcpInv, Tcp!ReadReturns
  PROVE  TcpInv'
<1>0. TcpShape /\ CallsKnow /\ (~tcp_told.cut => InOrder /\ Counted)
  BY DEF TcpInv
<1>1. /\ tcp_reader.at = "done" /\ tcp_reader' = Tcp!Away
      /\ UNCHANGED <<tcp_wire, tcp_out, tcp_sender, tcp_next>>
      /\ tcp_peer' \in {"open", "closed"}
  BY <1>0 DEF Tcp!ReadReturns, TcpShape
<1>2. tcp_reader' \in Readers /\ tcp_reader'.buf = << >> /\ Len(<< >>) = 0 /\ tcp_reader'.at = "rest"
      /\ tcp_reader'.ret = 0 /\ tcp_reader'.size = 0
  BY <1>1, EmptySeq DEF Tcp!Away, Readers
<1>3. CallsKnow'
  BY <1>0, <1>1, <1>2 DEF CallsKnow, Tcp!FullIsFull
<1>4. CASE tcp_reader.ret > 0
  <2>1. tcp_told' = [tcp_told EXCEPT !.bytes = @ \o tcp_reader.buf]
    <3>1. SubSeq(tcp_reader.buf, 1, tcp_reader.ret) = tcp_reader.buf
      BY <1>0, <1>1, <1>4, Lengths, SubSeqFull DEF CallsKnow
    <3>2. QED
      BY <1>4, <3>1 DEF Tcp!ReadReturns
  <2>2. /\ tcp_told' \in [bytes : Seq(Nat), cut : BOOLEAN] /\ tcp_told'.cut = tcp_told.cut
        /\ tcp_told'.bytes = tcp_told.bytes \o tcp_reader.buf
        /\ Len(tcp_told'.bytes) = Len(tcp_told.bytes) + Len(tcp_reader.buf)
    BY <1>0, <2>1, CountsOn, Lengths DEF TcpShape
  <2>3. TcpShape'
    BY <1>0, <1>1, <1>2, <2>2 DEF TcpShape
  <2>4. Had' = Had
    <3>1. Len(tcp_reader'.buf) = 0
      BY <1>2
    <3>2. Len(tcp_told.bytes) \in Nat /\ Len(tcp_reader.buf) \in Nat
      BY <1>0, Lengths
    <3>3. Had = Len(tcp_told.bytes) + Len(tcp_reader.buf) /\ Had' = Len(tcp_told'.bytes) + Len(tcp_reader'.buf)
      BY DEF Had
    <3> DEFINE a == Len(tcp_told.bytes) b == Len(tcp_reader.buf) a1 == Len(tcp_told'.bytes) b1 == Len(tcp_reader'.buf)
    <3>4. a \in Nat /\ b \in Nat /\ a1 = a + b /\ b1 = 0 /\ Had = a + b /\ Had' = a1 + b1
      BY <2>2, <3>1, <3>2, <3>3
    <3> HIDE DEF a, b, a1, b1
    <3>5. QED
      BY <3>4
  <2>5. ASSUME ~tcp_told.cut PROVE InOrder' /\ Counted'
    <3>1. CountsFrom(tcp_told'.bytes, 0)
      <4>1. /\ tcp_told.bytes \in Seq(Nat) /\ tcp_reader.buf \in Seq(Nat)
            /\ CountsFrom(tcp_told.bytes, 0) /\ CountsFrom(tcp_reader.buf, 0 + Len(tcp_told.bytes))
        BY <1>0, <2>5, Lengths DEF InOrder
      <4>2. 0 \in Nat
        OBVIOUS
      <4>3. CountsFrom(tcp_told.bytes \o tcp_reader.buf, 0)
        BY <4>1, <4>2, CountsOn
      <4>4. QED
        BY <2>2, <4>3
    <3>2. CountsFrom(<< >>, Len(tcp_told'.bytes))
      BY <1>2 DEF CountsFrom
    <3>3. QED
      BY <1>0, <1>1, <1>2, <2>2, <2>4, <2>5, <3>1, <3>2 DEF InOrder, Counted
  <2>6. QED
    BY <1>3, <2>2, <2>3, <2>5 DEF TcpInv
<1>5. CASE ~(tcp_reader.ret > 0)
  <2>1. tcp_told' = [tcp_told EXCEPT !.cut = @ \/ tcp_reader.buf # << >>]
    BY <1>5 DEF Tcp!ReadReturns
  <2>2. /\ tcp_told' \in [bytes : Seq(Nat), cut : BOOLEAN] /\ tcp_told'.bytes = tcp_told.bytes
        /\ ~tcp_told'.cut => ~tcp_told.cut /\ tcp_reader.buf = << >>
    BY <1>0, <2>1 DEF TcpShape
  <2>3. TcpShape'
    BY <1>0, <1>1, <1>2, <2>2 DEF TcpShape
  <2>4. ASSUME ~tcp_told'.cut PROVE InOrder' /\ Counted'
    BY <1>0, <1>1, <1>2, <2>2, <2>4 DEF InOrder, Counted, Had
  <2>5. QED
    BY <1>3, <2>3, <2>4 DEF TcpInv
<1>6. QED
  BY <1>4, <1>5

LEMMA TcpStepInv ==
  ASSUME TcpAssumptions, TcpInv, [Tcp!Next]_(Tcp!vars)
  PROVE  TcpInv'
<1>1. CASE UNCHANGED Tcp!vars
  BY <1>1 DEF Tcp!vars, TcpInv, TcpShape, CallsKnow, InOrder, Counted, Had, Tcp!FullIsFull
<1>2. QED
  BY <1>1, SendKeeps, SendPartKeeps, WaitKeeps, RecvKeeps, ReadReturnsKeeps DEF Tcp!Next, Tcp!Network

\* What is in its places is in order.
LEMMA TcpInvMeans ==
  ASSUME TcpInv
  PROVE  Tcp!BytesInOrder /\ Tcp!FullIsFull
<1> DEFINE seen == tcp_told.bytes \o tcp_reader.buf \o tcp_wire
<1>0. TcpShape /\ CallsKnow /\ (~tcp_told.cut => InOrder /\ Counted)
  BY DEF TcpInv
<1>1. /\ tcp_told.bytes \in Seq(Nat) /\ tcp_reader.buf \in Seq(Nat) /\ tcp_wire \in Seq(Nat)
      /\ Len(tcp_told.bytes) \in Nat /\ Len(tcp_reader.buf) \in Nat /\ Had \in Nat
  BY <1>0, Lengths DEF TcpShape
<1> DEFINE known == tcp_told.bytes \o tcp_reader.buf
<1>2. /\ known \in Seq(Nat) /\ Len(known) = Had
      /\ ~tcp_told.cut => CountsFrom(known, 0)
  <2>1. known \in Seq(Nat) /\ Len(known) = Len(tcp_told.bytes) + Len(tcp_reader.buf)
    BY <1>1, CountsOn
  <2>2. ~tcp_told.cut => CountsFrom(tcp_told.bytes, 0) /\ CountsFrom(tcp_reader.buf, 0 + Len(tcp_told.bytes))
    BY <1>0, <1>1 DEF InOrder
  <2>3. 0 \in Nat
    OBVIOUS
  <2>4. QED
    BY <1>1, <2>1, <2>2, <2>3, CountsOn DEF Had
<1> HIDE DEF known
<1>3. /\ seen \in Seq(Nat) /\ Len(seen) = Had + Len(tcp_wire)
      /\ ~tcp_told.cut => CountsFrom(seen, 0)
  <2>1. seen = known \o tcp_wire
    BY DEF known
  <2>2. ~tcp_told.cut => CountsFrom(tcp_wire, 0 + Len(known))
    BY <1>0, <1>1, <1>2 DEF InOrder
  <2>3. 0 \in Nat
    OBVIOUS
  <2> HIDE DEF seen
  <2>4. QED
    BY <1>1, <1>2, <2>1, <2>2, <2>3, CountsOn
<1> HIDE DEF seen
<1>4. ~tcp_told.cut => seen = [k \in 1..Len(seen) |-> k]
  <2>1. seen = [k \in 1..Len(seen) |-> seen[k]]
    BY <1>3, LenProperties
  <2>2. QED
    BY <1>3, <2>1 DEF CountsFrom
<1>5. ~tcp_told.cut /\ tcp_sender.at = "rest" /\ tcp_out = "open" => Len(seen) = tcp_next - 1
  BY <1>0, <1>3 DEF Counted
<1>6. QED
  BY <1>0, <1>4, <1>5 DEF Tcp!BytesInOrder, seen, CallsKnow

\* What the reader of a stream is told, holds and has before it is what was sent, in order and once; and a buffer that is to be full is
\* (SU_SendTCPBuffer, SU_ReadTCPBuffer), whatever the sizes of the buffers, the packets and the parts the network makes of them.
THEOREM TransfersInOrder ==
  ASSUME TcpAssumptions
  PROVE  Tcp!Spec => [](Tcp!BytesInOrder /\ Tcp!FullIsFull)
<1>1. Tcp!Init => TcpInv
  BY TcpInitInv
<1>2. TcpInv /\ [Tcp!Next]_(Tcp!vars) => TcpInv'
  BY TcpStepInv
<1>3. TcpInv => Tcp!BytesInOrder /\ Tcp!FullIsFull
  BY TcpInvMeans
<1>4. QED
  BY <1>1, <1>2, <1>3, PTL DEF Tcp!Spec

-----------------------------------------------------------------------------
(* DebugLink.                                                              *)

DebugAssumptions ==
  MaxSockets \in Nat \ {0} /\ NoSock \notin Links /\ MaxCalls \in Nat /\ Room \in Nat /\ LenWords \in {1, 2}

Sending == {"select", "send"}
Places == {"idle", "reopen", "connect", "store", "inited", "file", "slot"} \cup Sending
Runs == [at : Places, msg : Nat, i : Debug!Slots, new : Links \cup {NoSock}, put : 0..(LenWords + 3)]
Words == Nat \X Nat
Consoles == [link : Links \cup {NoSock}, got : {0, 1, 3, 4}, text : Seq(Words), lost : BOOLEAN]

ProgramShape ==
  /\ debug_initDone \in BOOLEAN /\ debug_output \subseteq {"file", "socket"} /\ debug_file \in {"none", "open", "closed"}
  /\ debug_slot \in [Debug!Slots -> Links \cup {NoSock}] /\ debug_run \in [Printers -> Runs] /\ debug_calls \in 0..MaxCalls
  /\ debug_mixed \in BOOLEAN /\ debug_broken \in BOOLEAN
  /\ debug_up \in [Links -> {"free", "open", "closed"}] /\ debug_sent \in [Links -> Seq(Nat)]
  /\ \A t \in Printers : debug_run[t].at = "idle" => debug_run[t] = Debug!Idle
  /\ \A t \in Printers : debug_run[t].at = "store" => debug_run[t].new \in Links
ChannelShape ==
  /\ debug_peer \in [Links -> {"waiting", "served", "gone"}]
  /\ debug_wire \in [Links -> Seq(Words)] /\ \A c \in Links : Len(debug_wire[c]) <= Room
  /\ debug_backlog \in Seq(Links) /\ debug_shown \in [Links -> Seq(Nat)]
  /\ debug_console \in Consoles /\ Len(debug_console.text) = (IF debug_console.got = 4 THEN 1 ELSE 0)

\* Where a step takes the thread that makes it.
Gone(f, t, place) == [f EXCEPT ![t].at = place]
GoneTo(f, t, place, i) == [f EXCEPT ![t].at = place, ![t].i = i]
GoneWith(f, t, place, i, new) == [f EXCEPT ![t].at = place, ![t].i = i, ![t].new = new]
GonePut(f, t, place, put) == [f EXCEPT ![t].at = place, ![t].put = put]
Placed(f, t, r) == [f EXCEPT ![t] = r]

LEMMA GoneIs ==
  ASSUME NEW f \in [Printers -> Runs], NEW t \in Printers, NEW place \in Places
  PROVE  /\ Gone(f, t, place) \in [Printers -> Runs]
         /\ Gone(f, t, place)[t].at = place /\ Gone(f, t, place)[t].i = f[t].i
         /\ Gone(f, t, place)[t].msg = f[t].msg /\ Gone(f, t, place)[t].new = f[t].new /\ Gone(f, t, place)[t].put = f[t].put
         /\ \A u \in Printers \ {t} : Gone(f, t, place)[u] = f[u]
  BY DEF Runs, Gone

LEMMA GoneToIs ==
  ASSUME NEW f \in [Printers -> Runs], NEW t \in Printers, NEW place \in Places, NEW i \in Debug!Slots
  PROVE  /\ GoneTo(f, t, place, i) \in [Printers -> Runs]
         /\ GoneTo(f, t, place, i)[t].at = place /\ GoneTo(f, t, place, i)[t].i = i
         /\ GoneTo(f, t, place, i)[t].msg = f[t].msg /\ GoneTo(f, t, place, i)[t].new = f[t].new
         /\ \A u \in Printers \ {t} : GoneTo(f, t, place, i)[u] = f[u]
  BY DEF Runs, GoneTo

LEMMA GoneWithIs ==
  ASSUME NEW f \in [Printers -> Runs], NEW t \in Printers, NEW place \in Places, NEW i \in Debug!Slots,
         NEW new \in Links \cup {NoSock}
  PROVE  /\ GoneWith(f, t, place, i, new) \in [Printers -> Runs]
         /\ GoneWith(f, t, place, i, new)[t].at = place /\ GoneWith(f, t, place, i, new)[t].i = i
         /\ GoneWith(f, t, place, i, new)[t].msg = f[t].msg /\ GoneWith(f, t, place, i, new)[t].new = new
         /\ \A u \in Printers \ {t} : GoneWith(f, t, place, i, new)[u] = f[u]
  BY DEF Runs, GoneWith

LEMMA GonePutIs ==
  ASSUME NEW f \in [Printers -> Runs], NEW t \in Printers, NEW place \in Places, NEW put \in 0..(LenWords + 3)
  PROVE  /\ GonePut(f, t, place, put) \in [Printers -> Runs]
         /\ GonePut(f, t, place, put)[t].at = place /\ GonePut(f, t, place, put)[t].i = f[t].i
         /\ GonePut(f, t, place, put)[t].msg = f[t].msg /\ GonePut(f, t, place, put)[t].put = put
         /\ \A u \in Printers \ {t} : GonePut(f, t, place, put)[u] = f[u]
  BY DEF Runs, GonePut

LEMMA PlacedIs ==
  ASSUME NEW f \in [Printers -> Runs], NEW t \in Printers, NEW r \in Runs
  PROVE  /\ Placed(f, t, r) \in [Printers -> Runs] /\ Placed(f, t, r)[t] = r
         /\ \A u \in Printers \ {t} : Placed(f, t, r)[u] = f[u]
  BY DEF Placed

LEMMA IdleIs ==
  ASSUME DebugAssumptions
  PROVE  Debug!Idle \in Runs /\ Debug!Idle.at = "idle" /\ Debug!Idle.i = 1 /\ Debug!Idle.msg = 0 /\ Debug!Idle.new = NoSock
         /\ Debug!Idle.put = 0
  BY DEF Debug!Idle, Runs, Places, Debug!Slots, DebugAssumptions

\* A set of numbers that is not empty has a smallest one.
LEMMA MinIs ==
  ASSUME NEW S \in SUBSET Nat, S # {}
  PROVE  Debug!Min(S) \in S
<1>1. \E x \in S : \A y \in S : ~(<<y, x>> \in OpToRel(<, Nat))
  BY WFMin, NatLessThanWellFounded, Zenon
<1>2. \E x \in S : \A y \in S : ~(y < x)
  BY <1>1, Zenon DEF OpToRel
<1>3. \E x \in S : \A y \in S : x <= y
  BY <1>2
<1>4. QED
  BY <1>3 DEF Debug!Min

LEMMA MinOfTwo ==
  ASSUME NEW a \in Int, NEW b \in Int
  PROVE  Debug!Min({a, b}) = IF a <= b THEN a ELSE b
  BY DEF Debug!Min

\* A thread that begins a message.
Printing(place, msg) == [Debug!Idle EXCEPT !.at = place, !.msg = msg]

LEMMA PrintingIs ==
  ASSUME DebugAssumptions, NEW place \in Places, NEW msg \in Nat
  PROVE  Printing(place, msg) \in Runs /\ Printing(place, msg).at = place
<1>1. 1 \in Debug!Slots
  BY DEF DebugAssumptions, Debug!Slots
<1>2. 0 \in 0..(LenWords + 3)
  BY DEF DebugAssumptions
<1>3. QED
  BY <1>1, <1>2 DEF Printing, Debug!Idle, Runs

-----------------------------------------------------------------------------
(* Where the thread goes that makes the step.                              *)

Moves(t) ==
  /\ debug_run' \in [Printers -> Runs] /\ \A u \in Printers \ {t} : debug_run'[u] = debug_run[u]
  /\ debug_run'[t].at = "idle" => debug_run'[t] = Debug!Idle

LEMMA GoMoves ==
  ASSUME ProgramShape, NEW t \in Printers, NEW place \in Places \ {"idle"}, Debug!Go(t, place)
  PROVE  /\ Moves(t) /\ debug_run'[t].at = place /\ debug_run'[t].i = debug_run[t].i
         /\ debug_run'[t].msg = debug_run[t].msg /\ debug_run'[t].new = debug_run[t].new /\ debug_run'[t].put = debug_run[t].put
<1>1. debug_run' = Gone(debug_run, t, place)
  BY DEF Debug!Go, Gone
<1>2. QED
  BY <1>1, GoneIs DEF ProgramShape, Moves

LEMMA BackMoves ==
  ASSUME DebugAssumptions, ProgramShape, NEW t \in Printers, Debug!Back(t)
  PROVE  Moves(t) /\ debug_run'[t].at = "idle"
<1>1. debug_run' = Placed(debug_run, t, Debug!Idle)
  BY DEF Debug!Back, Placed
<1>2. QED
  BY <1>1, PlacedIs, IdleIs DEF ProgramShape, Moves

LEMMA SkipMoves ==
  ASSUME DebugAssumptions, ProgramShape, NEW t \in Printers, NEW i \in Debug!Slots, Debug!Skip(t, i)
  PROVE  Moves(t) /\ debug_run'[t].at \in {"idle", "slot"}
<1>1. CASE i = MaxSockets
  BY <1>1, BackMoves DEF Debug!Skip
<1>2. CASE i # MaxSockets
  <2>1. debug_run' = GoneTo(debug_run, t, "slot", i + 1)
    BY <1>2 DEF Debug!Skip, GoneTo
  <2>2. i + 1 \in Debug!Slots /\ "slot" \in Places
    BY <1>2 DEF Debug!Slots, DebugAssumptions, Places
  <2>3. QED
    BY <2>1, <2>2, GoneToIs DEF ProgramShape, Moves
<1>3. QED
  BY <1>1, <1>2

LEMMA ResumeMoves ==
  ASSUME DebugAssumptions, ProgramShape, NEW t \in Printers, Debug!Resume(t)
  PROVE  Moves(t) /\ debug_run'[t].at \in {"idle", "inited"}
<1>1. "inited" \in Places \ {"idle"}
  BY DEF Places
<1>2. QED
  BY <1>1, BackMoves, GoMoves DEF Debug!Resume

LEMMA EnterMoves ==
  ASSUME DebugAssumptions, ProgramShape, NEW t \in Printers, NEW r \in Runs, r.at # "idle", Debug!Enter(t, r)
  PROVE  /\ Moves(t) /\ debug_run[t].at = "idle" /\ debug_run'[t] = r
         /\ debug_calls' \in 0..MaxCalls /\ debug_mixed' \in BOOLEAN
         /\ ~debug_mixed' => ~debug_mixed /\ \A u \in Printers \ {t} : debug_run[u].at = "idle"
<1>1. debug_run' = Placed(debug_run, t, r) /\ debug_run[t] = Debug!Idle
  BY DEF Debug!Enter, Placed
<1>2. Moves(t) /\ debug_run[t].at = "idle" /\ debug_run'[t] = r
  BY <1>1, PlacedIs, IdleIs DEF ProgramShape, Moves
<1>3. debug_calls' \in 0..MaxCalls
  BY DEF Debug!Enter, ProgramShape, DebugAssumptions
<1>4. /\ debug_mixed' \in BOOLEAN
      /\ ~debug_mixed' => ~debug_mixed /\ \A u \in Printers \ {t} : debug_run[u].at = "idle"
  BY IdleIs DEF Debug!Enter, ProgramShape
<1>5. QED
  BY <1>2, <1>3, <1>4

-----------------------------------------------------------------------------
(* What the steps of a thread do, as far as the invariants can tell.       *)

Elsewhere(place) == place \in Places /\ place \notin Sending /\ place # "store"

\* Who enters alone, and who closes the file, is seen.
Seen(t) ==
  /\ Moves(t)
  /\ ~debug_mixed' =>
       /\ ~debug_mixed
       /\ debug_run[t].at = "idle" /\ debug_run'[t].at # "idle" => \A u \in Printers \ {t} : debug_run[u].at = "idle"
  /\ debug_file' = "closed" => debug_run'[t].at = "reopen" \/ (debug_file = "closed" /\ debug_run[t].at # "reopen")

Quietly(t) ==
  /\ Elsewhere(debug_run[t].at) /\ Elsewhere(debug_run'[t].at)
  /\ debug_broken' => debug_broken \/ (debug_file = "closed" /\ debug_run[t].at = "file")
  /\ UNCHANGED <<debug_slot, debug_up, debug_sent, Debug!channel>>
Connects(t, c) ==
  /\ Elsewhere(debug_run[t].at) /\ debug_run[t].at # "idle"
  /\ debug_run'[t].at = "store" /\ debug_run'[t].new = c /\ debug_slot[debug_run'[t].i] = NoSock /\ debug_up[c] = "free"
  /\ debug_up' = [debug_up EXCEPT ![c] = "open"] /\ debug_peer' = [debug_peer EXCEPT ![c] = "waiting"]
  /\ debug_backlog' = Append(debug_backlog, c)
  /\ UNCHANGED <<debug_slot, debug_sent, debug_broken, debug_wire, debug_console, debug_shown>>
Stores(t) ==
  /\ debug_run[t].at = "store" /\ Elsewhere(debug_run'[t].at)
  /\ debug_slot' = [debug_slot EXCEPT ![debug_run[t].i] = debug_run[t].new]
  /\ UNCHANGED <<debug_up, debug_sent, debug_broken, Debug!channel>>
Begins(t) ==
  /\ debug_run[t].at = "slot" /\ debug_run'[t].at = "select" /\ debug_run'[t].put = 0
  /\ debug_run'[t].i = debug_run[t].i /\ debug_run'[t].msg = debug_run[t].msg
  /\ debug_slot[debug_run[t].i] # NoSock
  /\ debug_sent' = [debug_sent EXCEPT ![debug_slot[debug_run[t].i]] = Append(@, debug_run[t].msg)]
  /\ UNCHANGED <<debug_slot, debug_up, debug_broken, Debug!channel>>
Selects(t) ==
  /\ debug_run[t].at = "select" /\ debug_run'[t].at = "send" /\ debug_slot[debug_run[t].i] # NoSock
  /\ debug_run'[t].i = debug_run[t].i /\ debug_run'[t].msg = debug_run[t].msg /\ debug_run'[t].put = debug_run[t].put
  /\ UNCHANGED <<debug_slot, debug_up, debug_sent, debug_broken, Debug!channel>>
Sends(t) ==
  /\ debug_run[t].at = "send" /\ debug_slot[debug_run[t].i] # NoSock
  /\ IF debug_run[t].put + 1 = Debug!Size THEN debug_run'[t].at \in {"idle", "slot"}
     ELSE /\ debug_run'[t].at \in Sending /\ debug_run'[t].put = debug_run[t].put + 1
          /\ debug_run'[t].i = debug_run[t].i /\ debug_run'[t].msg = debug_run[t].msg
  /\ LET c == debug_slot[debug_run[t].i] IN
       /\ debug_up[c] = "open" /\ ~Debug!Full(c)
       /\ debug_wire' = IF debug_peer[c] = "gone" THEN debug_wire
                        ELSE [debug_wire EXCEPT ![c] = Append(@, <<debug_run[t].msg, debug_run[t].put + 1>>)]
  /\ UNCHANGED <<debug_slot, debug_up, debug_sent, debug_broken, debug_peer, debug_backlog, debug_console, debug_shown>>
Drops(t) ==
  /\ debug_run[t].at \in Sending /\ debug_slot[debug_run[t].i] # NoSock /\ debug_run'[t].at \in {"idle", "slot"}
  /\ debug_up' = [debug_up EXCEPT ![debug_slot[debug_run[t].i]] = "closed"]
  /\ debug_slot' = [debug_slot EXCEPT ![debug_run[t].i] = NoSock]
  /\ UNCHANGED <<debug_sent, debug_broken, Debug!channel>>
Loses(t) ==
  /\ debug_run[t].at \in Sending /\ debug_slot[debug_run[t].i] = NoSock /\ debug_run'[t].at \in {"idle", "slot"}
  /\ UNCHANGED <<debug_slot, debug_up, debug_sent, Debug!channel>>

Does(t) ==
  Quietly(t) \/ (\E c \in Links : Connects(t, c)) \/ Stores(t) \/ Begins(t) \/ Selects(t) \/ Sends(t) \/ Drops(t)
  \/ Loses(t)

\* The other variables of the program keep their types.
RestTyped ==
  /\ debug_initDone' \in BOOLEAN /\ debug_output' \subseteq {"file", "socket"} /\ debug_file' \in {"none", "open", "closed"}
  /\ debug_calls' \in 0..MaxCalls /\ debug_mixed' \in BOOLEAN /\ debug_broken' \in BOOLEAN

LEMMA CallDoes ==
  ASSUME DebugAssumptions, ProgramShape, NEW t \in Printers, Debug!Call(t)
  PROVE  Seen(t) /\ Quietly(t) /\ RestTyped
<1>0. /\ debug_run \in [Printers -> Runs] /\ Debug!Idle \in Runs /\ Debug!Idle.at = "idle"
      /\ \A r \in Runs : r.at \in Places
  BY IdleIs DEF ProgramShape, Runs
<1>1. CASE Debug!SetOutput(t)
  <2>1. Moves(t)
    BY <1>0, <1>1 DEF Debug!SetOutput, Moves
  <2>2. QED
    BY <1>0, <1>1, <2>1 DEF Debug!SetOutput, Debug!channel, Seen, Quietly, Elsewhere, Sending, Places, RestTyped, ProgramShape, DebugAssumptions
<1>2. ASSUME NEW r \in Runs, Elsewhere(r.at), r.at # "idle", Debug!Enter(t, r),
             debug_file' = "closed" => r.at = "reopen" \/ debug_file = "closed",
             debug_file' \in {"none", "open", "closed"},
             UNCHANGED <<debug_initDone, debug_output, debug_slot, debug_up, debug_sent, debug_broken, Debug!channel>>
      PROVE  Seen(t) /\ Quietly(t) /\ RestTyped
  <2>1. /\ Moves(t) /\ debug_run[t].at = "idle" /\ debug_run'[t] = r
        /\ debug_calls' \in 0..MaxCalls /\ debug_mixed' \in BOOLEAN
        /\ ~debug_mixed' => ~debug_mixed /\ \A u \in Printers \ {t} : debug_run[u].at = "idle"
    BY <1>2, EnterMoves
  <2>2. Seen(t)
    BY <1>2, <2>1 DEF Seen
  <2>3. Quietly(t)
    BY <1>2, <2>1 DEF Quietly, Elsewhere, Sending, Places
  <2>4. RestTyped
    BY <1>2, <2>1 DEF RestTyped, ProgramShape
  <2>5. QED
    BY <2>2, <2>3, <2>4
<1>3. CASE Debug!FileSetOptions(t)
  <2>1. Debug!Enter(t, [Debug!Idle EXCEPT !.at = "reopen"])
    BY <1>3 DEF Debug!FileSetOptions
  <2>2. [Debug!Idle EXCEPT !.at = "reopen"] \in Runs /\ [Debug!Idle EXCEPT !.at = "reopen"].at = "reopen"
    BY <1>0 DEF Runs, Places
  <2>3. QED
    BY <1>2, <1>3, <2>1, <2>2 DEF Debug!FileSetOptions, Elsewhere, Sending, Places, ProgramShape
<1>4. CASE Debug!SocketSetOptions(t)
  <2>1. Debug!Enter(t, [Debug!Idle EXCEPT !.at = "connect"])
    BY <1>4 DEF Debug!SocketSetOptions
  <2>2. [Debug!Idle EXCEPT !.at = "connect"] \in Runs /\ [Debug!Idle EXCEPT !.at = "connect"].at = "connect"
    BY <1>0 DEF Runs, Places
  <2>3. QED
    BY <1>2, <1>4, <2>1, <2>2 DEF Debug!SocketSetOptions, Elsewhere, Sending, Places, ProgramShape
<1>5. CASE Debug!PrintDebug(t)
  <2> DEFINE r == [Debug!Idle EXCEPT !.at = IF debug_initDone THEN "file" ELSE "connect", !.msg = debug_calls + 1]
  <2>1. Debug!Enter(t, r)
    BY <1>5 DEF Debug!PrintDebug
  <2>2. r \in Runs /\ r.at \in {"file", "connect"}
    <3>1. debug_calls + 1 \in Nat /\ (IF debug_initDone THEN "file" ELSE "connect") \in Places
      BY DEF ProgramShape, DebugAssumptions, Places
    <3>2. r = Printing(IF debug_initDone THEN "file" ELSE "connect", debug_calls + 1)
      BY DEF Printing
    <3> HIDE DEF r
    <3>3. QED
      BY <3>1, <3>2, PrintingIs
  <2> HIDE DEF r
  <2>3. QED
    BY <1>2, <1>5, <2>1, <2>2 DEF Debug!PrintDebug, Elsewhere, Sending, Places, ProgramShape
<1>6. QED
  BY <1>1, <1>3, <1>4, <1>5 DEF Debug!Call

LEMMA ThreadDoes ==
  ASSUME DebugAssumptions, ProgramShape, NEW t \in Printers, Debug!Thread(t) \/ Debug!ShortSend(t)
  PROVE  Seen(t) /\ Does(t) /\ RestTyped
<1>0. /\ debug_run \in [Printers -> Runs] /\ debug_run[t] \in Runs /\ debug_run[t].i \in Debug!Slots
      /\ \A r \in Runs : r.at \in Places
  BY DEF ProgramShape, Runs
<1>1. CASE Debug!Reopen(t)
  <2>1. Moves(t) /\ debug_run'[t].at = "idle" /\ debug_run[t].at = "reopen"
    BY <1>1, BackMoves DEF Debug!Reopen
  <2>2. Seen(t) /\ RestTyped
    BY <1>1, <2>1 DEF Debug!Reopen, Seen, RestTyped, ProgramShape
  <2>3. Quietly(t)
    BY <1>1, <2>1 DEF Debug!Reopen, Quietly, Elsewhere, Sending, Places
  <2>4. QED
    BY <2>2, <2>3 DEF Does
<1>2. CASE Debug!Connect(t)
  <2>1. CASE Debug!Resume(t) /\ UNCHANGED <<debug_up, debug_peer, debug_backlog>>
    <3>1. Moves(t) /\ debug_run'[t].at \in {"idle", "inited"} /\ debug_run[t].at = "connect"
      BY <1>2, <2>1, ResumeMoves DEF Debug!Connect
    <3>2. Seen(t) /\ RestTyped
      BY <1>2, <3>1 DEF Debug!Connect, Seen, RestTyped, ProgramShape
    <3>3. Quietly(t)
      BY <1>2, <2>1, <3>1 DEF Debug!Connect, Debug!channel, Quietly, Elsewhere, Sending, Places
    <3>4. QED
      BY <3>2, <3>3 DEF Does
  <2>2. CASE ~(Debug!Resume(t) /\ UNCHANGED <<debug_up, debug_peer, debug_backlog>>)
    <3>1. PICK c \in Links :
            /\ debug_up[c] = "free" /\ Debug!Free # {}
            /\ debug_run' = [debug_run EXCEPT ![t].at = "store", ![t].i = Debug!Min(Debug!Free), ![t].new = c]
            /\ debug_up' = [debug_up EXCEPT ![c] = "open"] /\ debug_peer' = [debug_peer EXCEPT ![c] = "waiting"]
            /\ debug_backlog' = Append(debug_backlog, c)
      BY <1>2, <2>2 DEF Debug!Connect
    <3> DEFINE i == Debug!Min(Debug!Free)
    <3>2. i \in Debug!Slots /\ debug_slot[i] = NoSock
      <4>1. Debug!Free \in SUBSET Nat
        BY DEF Debug!Free, Debug!Slots, DebugAssumptions
      <4>2. i \in Debug!Free
        BY <3>1, <4>1, MinIs
      <4>3. QED
        BY <4>2 DEF Debug!Free
    <3>3. debug_run' = GoneWith(debug_run, t, "store", i, c)
      BY <3>1 DEF GoneWith
    <3> HIDE DEF i
    <3>4. /\ debug_run' \in [Printers -> Runs] /\ debug_run'[t].at = "store" /\ debug_run'[t].i = i
          /\ debug_run'[t].new = c /\ \A u \in Printers \ {t} : debug_run'[u] = debug_run[u]
      BY <1>0, <3>2, <3>3, GoneWithIs DEF Places
    <3>5. Moves(t) /\ debug_run[t].at = "connect"
      BY <1>2, <3>4 DEF Moves, Debug!Connect
    <3>6. Seen(t) /\ RestTyped
      BY <1>2, <3>5 DEF Debug!Connect, Seen, RestTyped, ProgramShape
    <3>7. Connects(t, c)
      BY <1>2, <3>1, <3>2, <3>4, <3>5 DEF Debug!Connect, Connects, Elsewhere, Sending, Places
    <3>8. QED
      BY <3>6, <3>7 DEF Does
  <2>3. QED
    BY <2>1, <2>2
<1>3. CASE Debug!Store(t)
  <2>1. Moves(t) /\ debug_run'[t].at \in {"idle", "inited"} /\ debug_run[t].at = "store"
    BY <1>3, ResumeMoves DEF Debug!Store
  <2>2. Seen(t) /\ RestTyped
    BY <1>3, <2>1 DEF Debug!Store, Seen, RestTyped, ProgramShape
  <2>3. Stores(t)
    BY <1>3, <2>1 DEF Debug!Store, Stores, Elsewhere, Sending, Places
  <2>4. QED
    BY <2>2, <2>3 DEF Does
<1>4. CASE Debug!Inited(t)
  <2>1. debug_run' = GoneWith(debug_run, t, "file", 1, NoSock)
    BY <1>4 DEF Debug!Inited, GoneWith
  <2>2. 1 \in Debug!Slots /\ "file" \in Places /\ NoSock \in Links \cup {NoSock}
    BY DEF Debug!Slots, DebugAssumptions, Places
  <2>3. /\ debug_run' \in [Printers -> Runs] /\ debug_run'[t].at = "file"
        /\ \A u \in Printers \ {t} : debug_run'[u] = debug_run[u]
    BY <1>0, <2>1, <2>2, GoneWithIs
  <2>4. Moves(t) /\ debug_run[t].at = "inited"
    BY <1>4, <2>3 DEF Debug!Inited, Moves
  <2>5. Seen(t) /\ RestTyped
    BY <1>4, <2>3, <2>4 DEF Debug!Inited, Seen, RestTyped, ProgramShape
  <2>6. Quietly(t)
    BY <1>4, <2>3, <2>4 DEF Debug!Inited, Quietly, Elsewhere, Sending, Places
  <2>7. QED
    BY <2>5, <2>6 DEF Does
<1>5. CASE Debug!WriteFile(t)
  <2>1. Moves(t) /\ debug_run'[t].at = "slot" /\ debug_run[t].at = "file"
    BY <1>5, GoMoves DEF Debug!WriteFile, Places
  <2>2. Seen(t) /\ RestTyped
    BY <1>5, <2>1 DEF Debug!WriteFile, Seen, RestTyped, ProgramShape
  <2>3. Quietly(t)
    BY <1>5, <2>1 DEF Debug!WriteFile, Quietly, Elsewhere, Sending, Places
  <2>4. QED
    BY <2>2, <2>3 DEF Does
<1>6. CASE Debug!NextSlot(t)
  <2> DEFINE i == debug_run[t].i
  <2>1. CASE \/ "socket" \notin debug_output /\ Debug!Back(t) /\ UNCHANGED debug_sent
             \/ Debug!Skip(t, i) /\ UNCHANGED debug_sent
    <3>1. Moves(t) /\ debug_run'[t].at \in {"idle", "slot"} /\ debug_run[t].at = "slot"
      BY <1>0, <1>6, <2>1, BackMoves, SkipMoves DEF Debug!NextSlot
    <3>2. Seen(t) /\ RestTyped
      BY <1>6, <3>1 DEF Debug!NextSlot, Seen, RestTyped, ProgramShape
    <3>3. Quietly(t)
      BY <1>6, <2>1, <3>1 DEF Debug!NextSlot, Quietly, Elsewhere, Sending, Places
    <3>4. QED
      BY <3>2, <3>3 DEF Does
  <2>2. CASE /\ debug_slot[i] # NoSock /\ debug_run' = [debug_run EXCEPT ![t].at = "select", ![t].put = 0]
             /\ debug_sent' = [debug_sent EXCEPT ![debug_slot[i]] = Append(@, debug_run[t].msg)]
    <3>1. "select" \in Places \ {"idle"} /\ 0 \in 0..(LenWords + 3) /\ debug_run' = GonePut(debug_run, t, "select", 0)
      BY <2>2 DEF Places, Sending, GonePut, DebugAssumptions
    <3>2. /\ Moves(t) /\ debug_run'[t].at = "select" /\ debug_run[t].at = "slot" /\ debug_run'[t].put = 0
          /\ debug_run'[t].i = debug_run[t].i /\ debug_run'[t].msg = debug_run[t].msg
      BY <1>0, <1>6, <3>1, GonePutIs DEF Debug!NextSlot, Moves
    <3>3. Seen(t) /\ RestTyped
      BY <1>6, <3>2 DEF Debug!NextSlot, Seen, RestTyped, ProgramShape
    <3>4. Begins(t)
      BY <1>6, <2>2, <3>2 DEF Debug!NextSlot, Begins
    <3>5. QED
      BY <3>3, <3>4 DEF Does
  <2>3. QED
    BY <1>6, <2>1, <2>2 DEF Debug!NextSlot
<1>7. CASE Debug!Select(t)
  <2>1. "send" \in Places \ {"idle"}
    BY DEF Places, Sending
  <2>2. /\ Moves(t) /\ debug_run[t].at = "select" /\ debug_run'[t].at = "send" /\ debug_run'[t].i = debug_run[t].i
        /\ debug_run'[t].msg = debug_run[t].msg /\ debug_run'[t].put = debug_run[t].put
    BY <1>7, <2>1, GoMoves DEF Debug!Select
  <2>3. Seen(t) /\ RestTyped
    BY <1>7, <2>2 DEF Debug!Select, Seen, RestTyped, ProgramShape
  <2>4. Selects(t)
    BY <1>7, <2>2 DEF Debug!Select, Debug!LinkOf, Selects
  <2>5. QED
    BY <2>3, <2>4 DEF Does
<1>8. CASE Debug!Send(t)
  <2> DEFINE c == debug_slot[debug_run[t].i] put == debug_run[t].put + 1
             place == IF put \in Debug!Starts THEN "select" ELSE "send"
  <2>1. /\ debug_run[t].at = "send" /\ c # NoSock /\ debug_up[c] = "open" /\ ~Debug!Full(c)
        /\ debug_wire' = IF debug_peer[c] = "gone" THEN debug_wire
                         ELSE [debug_wire EXCEPT ![c] = Append(@, <<debug_run[t].msg, put>>)]
        /\ IF put = Debug!Size THEN Debug!Skip(t, debug_run[t].i) ELSE debug_run' = [debug_run EXCEPT ![t].at = place, ![t].put = put]
        /\ UNCHANGED <<debug_slot, debug_up, debug_sent, debug_broken, debug_peer, debug_backlog, debug_console, debug_shown>>
    BY <1>8 DEF Debug!Send, Debug!LinkOf
  <2>2. /\ Moves(t)
        /\ IF put = Debug!Size THEN debug_run'[t].at \in {"idle", "slot"}
           ELSE /\ debug_run'[t].at \in Sending /\ debug_run'[t].put = put
                /\ debug_run'[t].i = debug_run[t].i /\ debug_run'[t].msg = debug_run[t].msg
    <3>1. CASE put = Debug!Size
      BY <1>0, <2>1, <3>1, SkipMoves
    <3>2. CASE put # Debug!Size
      <4>1. debug_run[t].put \in 0..(LenWords + 3) /\ Debug!Size = LenWords + 4 /\ LenWords \in Nat
        BY <1>0 DEF Runs, Debug!Size, Debug!TypeWords, DebugAssumptions
      <4>2. put \in 0..(LenWords + 3)
        BY <3>2, <4>1
      <4>3. place \in Places \ {"idle"} /\ place \in Sending
        BY DEF Places, Sending
      <4>4. debug_run' = GonePut(debug_run, t, place, put)
        BY <2>1, <3>2 DEF GonePut
      <4> HIDE DEF place, put
      <4>5. QED
        BY <1>0, <3>2, <4>2, <4>3, <4>4, GonePutIs DEF Moves
    <3>3. QED
      BY <3>1, <3>2
  <2>3. Seen(t) /\ RestTyped
    BY <1>8, <2>1, <2>2 DEF Debug!Send, Seen, RestTyped, ProgramShape, Sending
  <2>4. Sends(t)
    BY <2>1, <2>2 DEF Sends
  <2>5. QED
    BY <2>3, <2>4 DEF Does
<1>9. CASE Debug!DropLink(t) \/ Debug!ShortSend(t)
  <2>0. Debug!Drop(t) /\ debug_run[t].at \in Sending /\ debug_slot[debug_run[t].i] # NoSock
    BY <1>9 DEF Debug!DropLink, Debug!ShortSend, Debug!Stalled, Debug!Sending, Debug!LinkOf, Sending
  <2>1. Moves(t) /\ debug_run'[t].at \in {"idle", "slot"} /\ debug_run[t].at \in Sending
    BY <1>0, <2>0, SkipMoves DEF Debug!Drop
  <2>2. Seen(t) /\ RestTyped
    BY <2>0, <2>1 DEF Debug!Drop, Seen, RestTyped, ProgramShape, Sending
  <2>3. Drops(t)
    BY <2>0, <2>1 DEF Debug!Drop, Debug!LinkOf, Debug!Emptied, Drops
  <2>4. QED
    BY <2>2, <2>3 DEF Does
<1>10. CASE Debug!LostLink(t)
  <2>1. Moves(t) /\ debug_run'[t].at \in {"idle", "slot"} /\ debug_run[t].at \in Sending
    BY <1>0, <1>10, SkipMoves DEF Debug!LostLink, Debug!Sending, Sending
  <2>2. Seen(t) /\ RestTyped
    BY <1>10, <2>1 DEF Debug!LostLink, Seen, RestTyped, ProgramShape, Sending
  <2>3. Loses(t)
    BY <1>10, <2>1 DEF Debug!LostLink, Debug!LinkOf, Loses
  <2>4. QED
    BY <2>2, <2>3 DEF Does
<1>11. QED
  BY <1>1, <1>2, <1>3, <1>4, <1>5, <1>6, <1>7, <1>8, <1>9, <1>10 DEF Debug!Thread

LEMMA DoesKeepsShape ==
  ASSUME DebugAssumptions, ProgramShape, ChannelShape, NEW t \in Printers, Seen(t), Does(t), RestTyped
  PROVE  ProgramShape' /\ ChannelShape'
<1>0. /\ debug_run[t] \in Runs /\ debug_run[t].i \in Debug!Slots /\ debug_run[t].msg \in Nat
      /\ debug_slot[debug_run[t].i] \in Links \cup {NoSock}
  BY DEF ProgramShape, Runs
<1>1. /\ debug_run' \in [Printers -> Runs]
      /\ \A u \in Printers : debug_run'[u].at = "idle" => debug_run'[u] = Debug!Idle
  BY DEF ProgramShape, Seen, Moves
<1>2. ASSUME debug_run'[t].at # "store" \/ debug_run'[t].new \in Links
      PROVE  \A u \in Printers : debug_run'[u].at = "store" => debug_run'[u].new \in Links
  BY <1>2 DEF ProgramShape, Seen, Moves
<1>3. CASE Quietly(t)
  <2>1. ProgramShape'
    BY <1>1, <1>2, <1>3 DEF Quietly, Elsewhere, ProgramShape, RestTyped
  <2>2. QED
    BY <1>3, <2>1 DEF Quietly, Debug!channel, ChannelShape
<1>4. ASSUME NEW c \in Links, Connects(t, c) PROVE ProgramShape' /\ ChannelShape'
  <2>1. ProgramShape'
    BY <1>1, <1>2, <1>4 DEF Connects, ProgramShape, RestTyped
  <2>2. debug_backlog' \in Seq(Links)
    BY <1>4, AppendProperties DEF Connects, ChannelShape
  <2>3. QED
    BY <1>4, <2>1, <2>2 DEF Connects, ChannelShape
<1>5. CASE Stores(t)
  <2>1. debug_run[t].new \in Links
    BY <1>5 DEF Stores, ProgramShape
  <2>2. ProgramShape'
    BY <1>1, <1>2, <1>5, <2>1 DEF Stores, Elsewhere, ProgramShape, RestTyped
  <2>3. QED
    BY <1>5, <2>2 DEF Stores, Debug!channel, ChannelShape
<1>6. CASE Begins(t)
  <2> DEFINE c == debug_slot[debug_run[t].i]
  <2>1. c \in Links /\ debug_sent[c] \in Seq(Nat) /\ debug_sent' = [debug_sent EXCEPT ![c] = Append(@, debug_run[t].msg)]
    BY <1>0, <1>6 DEF Begins, ProgramShape
  <2>2. Append(debug_sent[c], debug_run[t].msg) \in Seq(Nat)
    BY <1>0, <2>1, AppendProperties
  <2> HIDE DEF c
  <2>3. debug_sent' \in [Links -> Seq(Nat)]
    BY <2>1, <2>2 DEF ProgramShape
  <2>4. ProgramShape'
    BY <1>1, <1>2, <1>6, <2>3 DEF Begins, ProgramShape, RestTyped
  <2>5. QED
    BY <1>6, <2>4 DEF Begins, Debug!channel, ChannelShape
<1>7. CASE Sends(t)
  <2>1. debug_run'[t].at # "store"
    BY <1>7 DEF Sends, Sending
  <2>2. ProgramShape'
    BY <1>1, <1>2, <1>7, <2>1 DEF Sends, ProgramShape, RestTyped
  <2> DEFINE c == debug_slot[debug_run[t].i] word == <<debug_run[t].msg, debug_run[t].put + 1>>
  <2>3. word \in Words
    BY <1>0 DEF Words, Runs, DebugAssumptions
  <2>4. /\ c \in Links /\ debug_wire[c] \in Seq(Words) /\ Len(debug_wire[c]) <= Room
        /\ debug_peer[c] # "gone" => Len(debug_wire[c]) # Room
        /\ debug_wire' = IF debug_peer[c] = "gone" THEN debug_wire ELSE [debug_wire EXCEPT ![c] = Append(@, word)]
    BY <1>0, <1>7 DEF Sends, Debug!Full, ChannelShape
  <2> HIDE DEF c, word
  <2>5. /\ Append(debug_wire[c], word) \in Seq(Words) /\ Len(debug_wire[c]) \in Nat
        /\ Len(Append(debug_wire[c], word)) = Len(debug_wire[c]) + 1
    BY <2>3, <2>4, AppendProperties, LenProperties
  <2>6. debug_wire' \in [Links -> Seq(Words)] /\ \A d \in Links : Len(debug_wire'[d]) <= Room
    BY <2>4, <2>5 DEF ChannelShape, DebugAssumptions
  <2>7. QED
    BY <1>7, <2>2, <2>6 DEF Sends, ChannelShape
<1>8. CASE Drops(t)
  <2>1. ProgramShape'
    BY <1>0, <1>1, <1>2, <1>8 DEF Drops, ProgramShape, RestTyped
  <2>2. QED
    BY <1>8, <2>1 DEF Drops, Debug!channel, ChannelShape
<1>9. CASE Loses(t)
  <2>1. ProgramShape'
    BY <1>1, <1>2, <1>9 DEF Loses, ProgramShape, RestTyped
  <2>2. QED
    BY <1>9, <2>1 DEF Loses, Debug!channel, ChannelShape
<1>10. CASE Selects(t)
  <2>1. ProgramShape'
    BY <1>1, <1>2, <1>10 DEF Selects, ProgramShape, RestTyped
  <2>2. QED
    BY <1>10, <2>1 DEF Selects, Debug!channel, ChannelShape
<1>11. QED
  BY <1>3, <1>4, <1>5, <1>6, <1>7, <1>8, <1>9, <1>10 DEF Does

-----------------------------------------------------------------------------
(* The console.                                                            *)

Read(r, got, text) == [r EXCEPT !.got = got, !.text = text]

LEMMA ReadIs ==
  ASSUME NEW r \in Consoles, NEW got \in {0, 1, 3, 4}, NEW text \in Seq(Words)
  PROVE  /\ Read(r, got, text) \in Consoles /\ Read(r, got, text).link = r.link
         /\ Read(r, got, text).got = got /\ Read(r, got, text).text = text /\ Read(r, got, text).lost = r.lost
  BY DEF Read, Consoles

\* What the console reads, and what becomes of it.
Takes(c, n) ==
  /\ debug_console.link = c /\ n \in 1..Len(debug_wire[c]) /\ n <= Debug!Wanted(debug_console.got)
  /\ debug_wire' = [debug_wire EXCEPT ![c] = SubSeq(debug_wire[c], n + 1, Len(debug_wire[c]))]
HangsUp(c) ==
  /\ debug_console.link = c /\ debug_console' = Debug!NoLink /\ debug_peer' = [debug_peer EXCEPT ![c] = "gone"]
  /\ UNCHANGED <<debug_backlog, debug_shown>>
Has(c, got, text) ==
  /\ debug_console' = Read(debug_console, got, text) /\ got \in {0, 1, 3, 4} /\ text \in Seq(Words)
  /\ Len(text) = (IF got = 4 THEN 1 ELSE 0)
  /\ UNCHANGED <<debug_peer, debug_backlog>>
Strays(c) ==
  /\ debug_console' \in Consoles /\ debug_console'.link = c /\ debug_console'.lost
  /\ debug_console'.got = debug_console.got /\ debug_console'.text = debug_console.text
  /\ UNCHANGED <<debug_peer, debug_backlog, debug_shown>>
Piece(c, n) == debug_console.text \o SubSeq(debug_wire[c], 1, n)
Reads(c, n) ==
  \/ (debug_console.lost \/ (debug_console.got = 0 /\ debug_wire[c][1][2] # 1)) /\ Strays(c)
  \/ ~debug_console.lost /\ HangsUp(c)
  \/ ~debug_console.lost /\ debug_console.got = 0 /\ Has(c, 1, debug_console.text) /\ UNCHANGED debug_shown
  \/ ~debug_console.lost /\ debug_console.got = 1 /\ n = 2 /\ Has(c, 3, debug_console.text) /\ UNCHANGED debug_shown
  \/ ~debug_console.lost /\ debug_console.got = 3 /\ n = 1 /\ Has(c, 4, Piece(c, n)) /\ UNCHANGED debug_shown
  \/ /\ ~debug_console.lost /\ debug_console.got \in {3, 4} /\ debug_console.got + n = 5 /\ Has(c, 0, << >>)
     /\ Len(Piece(c, n)) = 2 /\ Piece(c, n) \in Seq(Words)
     /\ debug_shown' = [debug_shown EXCEPT ![c] = Append(@, Debug!TextOf(Piece(c, n)))]

LEMMA HasIs ==
  ASSUME ChannelShape, NEW c, NEW got, NEW text, Has(c, got, text)
  PROVE  /\ debug_console'.link = debug_console.link /\ debug_console'.lost = debug_console.lost
         /\ debug_console'.got = got /\ debug_console'.text = text /\ UNCHANGED <<debug_peer, debug_backlog>>
  BY ReadIs DEF ChannelShape, Has

LEMMA PieceIs ==
  ASSUME ChannelShape, NEW c \in Links, NEW n \in 1..Len(debug_wire[c])
  PROVE  /\ Piece(c, n) \in Seq(Words) /\ Len(Piece(c, n)) = Len(debug_console.text) + n
         /\ \A k \in 1..Len(debug_console.text) : Piece(c, n)[k] = debug_console.text[k]
         /\ \A k \in 1..n : Piece(c, n)[Len(debug_console.text) + k] = debug_wire[c][k]
<1> DEFINE w == debug_wire[c] x == debug_console.text f == SubSeq(w, 1, n)
<1>1. w \in Seq(Words) /\ x \in Seq(Words) /\ Len(w) \in Nat /\ Len(x) \in Nat /\ n \in 0..Len(w)
  BY LenProperties DEF ChannelShape, Consoles
<1>2. f \in Seq(Words) /\ Len(f) = n /\ \A k \in 1..n : f[k] = w[k]
  <2> HIDE DEF w
  <2>1. QED
    BY <1>1, CutInTwo
<1> HIDE DEF f
<1>3. /\ x \o f \in Seq(Words) /\ Len(x \o f) = Len(x) + n
      /\ \A k \in 1..(Len(x) + n) : (x \o f)[k] = IF k <= Len(x) THEN x[k] ELSE f[k - Len(x)]
  BY <1>1, <1>2, ConcatProperties
<1>4. ASSUME NEW k \in 1..n PROVE (x \o f)[Len(x) + k] = w[k]
  BY <1>1, <1>2, <1>3
<1>5. QED
  BY <1>1, <1>3, <1>4 DEF Piece, f

LEMMA TextIsNat ==
  ASSUME NEW w \in Seq(Words), Len(w) = 2
  PROVE  Debug!TextOf(w) \in Nat
<1>1. w[1] \in Words
  BY ElementOfSeq
<1>2. QED
  BY <1>1 DEF Words, Debug!TextOf

LEMMA RecvReads ==
  ASSUME DebugAssumptions, ChannelShape, Debug!Recv
  PROVE  \E c \in Links : \E n \in Nat : Takes(c, n) /\ Reads(c, n)
<1>1. PICK c \in Links : c = debug_console.link
  BY DEF Debug!Recv, ChannelShape, Consoles
<1>2. /\ debug_console.got \in {0, 1, 3, 4} /\ debug_console \in Consoles /\ debug_console.text \in Seq(Words)
      /\ debug_wire[c] \in Seq(Words) /\ Len(debug_wire[c]) \in Nat
      /\ Len(debug_console.text) = (IF debug_console.got = 4 THEN 1 ELSE 0)
  BY <1>1, LenProperties DEF ChannelShape, Consoles
<1> DEFINE got == debug_console.got text == debug_console.text most == Debug!Min({Debug!Wanted(got), Len(debug_wire[c])})
<1>3. Debug!Wanted(got) = IF got = 0 THEN 1 ELSE IF got = 1 THEN 2 ELSE 5 - got
  BY <1>2 DEF Debug!Wanted
<1>4. most \in Int /\ most <= Debug!Wanted(got) /\ most <= Len(debug_wire[c])
  BY <1>2, <1>3, MinOfTwo
<1>5. PICK n \in 1..most :
        /\ debug_wire' = [debug_wire EXCEPT ![c] = SubSeq(debug_wire[c], n + 1, Len(debug_wire[c]))]
        /\ \/ debug_console.lost /\ UNCHANGED <<debug_console, debug_peer, debug_backlog, debug_shown>>
           \/ ~debug_console.lost /\ (got = 0 \/ (got = 1 /\ n < 2)) /\ Debug!HangUp
           \/ ~debug_console.lost /\ got = 0 /\ debug_wire[c][1][2] = 1 /\ debug_console' = [debug_console EXCEPT !.got = 1]
              /\ UNCHANGED <<debug_peer, debug_backlog, debug_shown>>
           \/ ~debug_console.lost /\ got = 0 /\ debug_wire[c][1][2] # 1 /\ debug_console' = [debug_console EXCEPT !.lost = TRUE]
              /\ UNCHANGED <<debug_peer, debug_backlog, debug_shown>>
           \/ ~debug_console.lost /\ got = 1 /\ n = 2 /\ debug_console' = [debug_console EXCEPT !.got = 3]
              /\ UNCHANGED <<debug_peer, debug_backlog, debug_shown>>
           \/ /\ ~debug_console.lost /\ got > 1 /\ got + n < 5
              /\ debug_console' = [debug_console EXCEPT !.got = got + n, !.text = @ \o SubSeq(debug_wire[c], 1, n)]
              /\ UNCHANGED <<debug_peer, debug_backlog, debug_shown>>
           \/ /\ ~debug_console.lost /\ got > 1 /\ got + n = 5 /\ debug_console' = [debug_console EXCEPT !.got = 0, !.text = << >>]
              /\ debug_shown' = [debug_shown EXCEPT ![c] = Append(@, Debug!TextOf(text \o SubSeq(debug_wire[c], 1, n)))]
              /\ UNCHANGED <<debug_peer, debug_backlog>>
  BY <1>1 DEF Debug!Recv
<1> HIDE DEF most
<1>6. n \in 1..Len(debug_wire[c]) /\ n <= Debug!Wanted(got)
  BY <1>2, <1>3, <1>4
<1>7. Takes(c, n)
  BY <1>1, <1>5, <1>6 DEF Takes
<1> SUFFICES Reads(c, n)
  BY <1>2, <1>6, <1>7
<1>8. /\ Piece(c, n) \in Seq(Words) /\ Len(Piece(c, n)) = Len(text) + n
  BY <1>6, PieceIs
<1>9. CASE debug_console.lost
  BY <1>1, <1>2, <1>5, <1>9 DEF Reads, Strays
<1>10. CASE ~debug_console.lost /\ (got = 0 \/ (got = 1 /\ n < 2)) /\ Debug!HangUp
  BY <1>1, <1>10 DEF Reads, HangsUp, Debug!HangUp
<1>11. CASE /\ ~debug_console.lost /\ got = 0 /\ debug_wire[c][1][2] = 1 /\ debug_console' = [debug_console EXCEPT !.got = 1]
            /\ UNCHANGED <<debug_peer, debug_backlog, debug_shown>>
  <2>1. debug_console' = Read(debug_console, 1, text)
    BY <1>2, <1>11 DEF Read, Consoles
  <2>2. QED
    BY <1>2, <1>11, <2>1 DEF Reads, Has
<1>12. CASE /\ ~debug_console.lost /\ got = 0 /\ debug_wire[c][1][2] # 1 /\ debug_console' = [debug_console EXCEPT !.lost = TRUE]
            /\ UNCHANGED <<debug_peer, debug_backlog, debug_shown>>
  BY <1>1, <1>2, <1>12 DEF Reads, Strays, Consoles
<1>13. CASE /\ ~debug_console.lost /\ got = 1 /\ n = 2 /\ debug_console' = [debug_console EXCEPT !.got = 3]
            /\ UNCHANGED <<debug_peer, debug_backlog, debug_shown>>
  <2>1. debug_console' = Read(debug_console, 3, text)
    BY <1>2, <1>13 DEF Read, Consoles
  <2>2. QED
    BY <1>2, <1>13, <2>1 DEF Reads, Has
<1>14. CASE /\ ~debug_console.lost /\ got > 1 /\ got + n < 5
            /\ debug_console' = [debug_console EXCEPT !.got = got + n, !.text = @ \o SubSeq(debug_wire[c], 1, n)]
            /\ UNCHANGED <<debug_peer, debug_backlog, debug_shown>>
  <2>1. got = 3 /\ n = 1 /\ got + n = 4
    BY <1>2, <1>6, <1>14
  <2>2. debug_console' = Read(debug_console, 4, Piece(c, n))
    BY <1>2, <1>14, <2>1 DEF Read, Piece, Consoles
  <2>3. QED
    BY <1>2, <1>8, <1>14, <2>1, <2>2 DEF Reads, Has
<1>15. CASE /\ ~debug_console.lost /\ got > 1 /\ got + n = 5 /\ debug_console' = [debug_console EXCEPT !.got = 0, !.text = << >>]
            /\ debug_shown' = [debug_shown EXCEPT ![c] = Append(@, Debug!TextOf(text \o SubSeq(debug_wire[c], 1, n)))]
            /\ UNCHANGED <<debug_peer, debug_backlog>>
  <2>1. debug_console' = Read(debug_console, 0, << >>) /\ << >> \in Seq(Words) /\ Len(<< >>) = 0
    BY <1>2, <1>15, EmptySeq DEF Read
  <2>2. got \in {3, 4} /\ Len(Piece(c, n)) = 2
    BY <1>2, <1>6, <1>8, <1>15
  <2>3. QED
    BY <1>8, <1>15, <2>1, <2>2 DEF Reads, Has, Piece
<1>16. QED
  BY <1>5, <1>9, <1>10, <1>11, <1>12, <1>13, <1>14, <1>15

ConsoleStep == Debug!Accept \/ Debug!Recv \/ Debug!EndOfLink \/ Debug!Restart

LEMMA AcceptedIs ==
  ASSUME NEW c \in Links
  PROVE  LET k == [Debug!NoLink EXCEPT !.link = c] IN
         k \in Consoles /\ k.link = c /\ k.got = 0 /\ k.text = << >> /\ Len(k.text) = 0 /\ ~k.lost
<1>1. << >> \in Seq(Words) /\ Len(<< >>) = 0
  BY EmptySeq
<1>2. QED
  BY <1>1 DEF Debug!NoLink, Consoles

LEMMA NoLinkIs ==
  /\ Debug!NoLink \in Consoles /\ Debug!NoLink.link = NoSock
  /\ Debug!NoLink.got = 0 /\ Debug!NoLink.text = << >> /\ Len(Debug!NoLink.text) = 0 /\ ~Debug!NoLink.lost
<1>1. << >> \in Seq(Words) /\ Len(<< >>) = 0
  BY EmptySeq
<1>2. QED
  BY <1>1 DEF Debug!NoLink, Consoles

LEMMA BacklogInTwo ==
  ASSUME ChannelShape, debug_backlog # << >>
  PROVE  /\ Head(debug_backlog) = debug_backlog[1] /\ debug_backlog[1] \in Links /\ Len(debug_backlog) \in Nat \ {0}
         /\ Tail(debug_backlog) \in Seq(Links) /\ Len(Tail(debug_backlog)) = Len(debug_backlog) - 1
         /\ \A k \in 1..Len(Tail(debug_backlog)) : Tail(debug_backlog)[k] = debug_backlog[k + 1]
  BY HeadTailProperties, LenProperties, ElementOfSeq DEF ChannelShape

LEMMA ConsoleKeepsShape ==
  ASSUME DebugAssumptions, ProgramShape, ChannelShape, ConsoleStep
  PROVE  ProgramShape' /\ ChannelShape'
<1>1. ProgramShape'
  BY DEF ConsoleStep, Debug!Accept, Debug!Recv, Debug!EndOfLink, Debug!Restart, Debug!program, ProgramShape
<1>2. CASE Debug!Accept
  <2> DEFINE c == Head(debug_backlog) k == [Debug!NoLink EXCEPT !.link = c]
  <2>1. /\ debug_console' = k /\ debug_backlog' = Tail(debug_backlog) /\ debug_backlog # << >>
        /\ debug_peer' = [debug_peer EXCEPT ![c] = "served"] /\ UNCHANGED <<debug_wire, debug_shown>>
    BY <1>2 DEF Debug!Accept
  <2>2. c \in Links /\ k \in Consoles /\ Len(k.text) = 0 /\ k.got = 0 /\ Tail(debug_backlog) \in Seq(Links)
    BY <2>1, BacklogInTwo, AcceptedIs
  <2> HIDE DEF c, k
  <2>3. QED
    BY <1>1, <2>1, <2>2 DEF ChannelShape
<1>3. CASE Debug!Recv
  <2>1. PICK c \in Links, n \in Nat : Takes(c, n) /\ Reads(c, n)
    BY <1>3, RecvReads
  <2>2. debug_wire' \in [Links -> Seq(Words)] /\ \A d \in Links : Len(debug_wire'[d]) <= Room
    <3> DEFINE left == SubSeq(debug_wire[c], n + 1, Len(debug_wire[c]))
    <3>1. /\ debug_wire[c] \in Seq(Words) /\ Len(debug_wire[c]) \in Nat /\ n \in 0..Len(debug_wire[c])
          /\ Len(debug_wire[c]) <= Room
      BY <2>1, LenProperties DEF Takes, ChannelShape
    <3>2. left \in Seq(Words) /\ Len(left) = Len(debug_wire[c]) - n
      BY <3>1, CutInTwo
    <3>3. debug_wire' = [debug_wire EXCEPT ![c] = left]
      BY <2>1 DEF Takes
    <3>4. Len(left) <= Room
      BY <3>1, <3>2 DEF DebugAssumptions
    <3> HIDE DEF left
    <3>5. QED
      BY <3>2, <3>3, <3>4 DEF ChannelShape
  <2>3. /\ debug_console' \in Consoles /\ Len(debug_console'.text) = (IF debug_console'.got = 4 THEN 1 ELSE 0)
        /\ debug_backlog' = debug_backlog /\ debug_peer' \in [Links -> {"waiting", "served", "gone"}]
    <3>1. CASE Strays(c)
      BY <3>1 DEF Strays, ChannelShape
    <3>2. CASE HangsUp(c)
      BY <3>2, NoLinkIs DEF HangsUp, ChannelShape
    <3>3. ASSUME NEW got, NEW text, Has(c, got, text)
          PROVE  /\ debug_console' \in Consoles /\ Len(debug_console'.text) = (IF debug_console'.got = 4 THEN 1 ELSE 0)
                 /\ debug_backlog' = debug_backlog /\ debug_peer' = debug_peer
      BY <3>3, ReadIs DEF Has, ChannelShape
    <3>4. QED
      BY <2>1, <3>1, <3>2, <3>3 DEF Reads, ChannelShape
  <2>4. debug_shown' \in [Links -> Seq(Nat)]
    <3>1. CASE debug_shown' = debug_shown
      BY <3>1 DEF ChannelShape
    <3>2. CASE debug_shown' # debug_shown
      <4> DEFINE m == Debug!TextOf(Piece(c, n))
      <4>1. Len(Piece(c, n)) = 2 /\ Piece(c, n) \in Seq(Words) /\ debug_shown' = [debug_shown EXCEPT ![c] = Append(@, m)]
        BY <2>1, <3>2 DEF Reads, Strays, HangsUp
      <4>2. m \in Nat
        BY <4>1, TextIsNat
      <4> HIDE DEF m
      <4>3. Append(debug_shown[c], m) \in Seq(Nat)
        BY <4>2, AppendProperties DEF ChannelShape
      <4>4. QED
        BY <4>1, <4>3 DEF ChannelShape
    <3>3. QED
      BY <3>1, <3>2
  <2>5. QED
    BY <1>1, <2>2, <2>3, <2>4 DEF ChannelShape
<1>4. CASE Debug!EndOfLink
  <2>1. debug_console' = Debug!NoLink /\ debug_peer' \in [Links -> {"waiting", "served", "gone"}]
        /\ UNCHANGED <<debug_wire, debug_backlog, debug_shown>>
    BY <1>4 DEF Debug!EndOfLink, Debug!HangUp, ChannelShape
  <2>2. QED
    BY <1>1, <2>1, NoLinkIs DEF ChannelShape
<1>5. CASE Debug!Restart
  <2>1. << >> \in Seq(Words) /\ << >> \in Seq(Links) /\ Len(<< >>) = 0
    BY EmptySeq
  <2>2. QED
    BY <1>1, <1>5, <2>1, NoLinkIs DEF Debug!Restart, ChannelShape, DebugAssumptions
<1>6. QED
  BY <1>2, <1>3, <1>4, <1>5 DEF ConsoleStep

-----------------------------------------------------------------------------
(* The links, whoever is in the channel.                                   *)

\* The console serves the link it reads; those that wait are in the backlog, once; a link that was not used is empty, and none in a slot is that.
Served == \A c \in Links : debug_peer[c] = "served" <=> debug_console.link = c
Queued ==
  /\ \A k \in 1..Len(debug_backlog) : debug_peer[debug_backlog[k]] = "waiting"
  /\ \A k, l \in 1..Len(debug_backlog) : debug_backlog[k] = debug_backlog[l] => k = l
Fresh ==
  /\ \A c \in Links : debug_peer[c] = "waiting" => debug_shown[c] = << >>
  /\ \A c \in Links : debug_up[c] = "free" =>
       debug_sent[c] = << >> /\ debug_shown[c] = << >> /\ debug_wire[c] = << >> /\ debug_peer[c] = "gone"
Used ==
  /\ \A i \in Debug!Slots : debug_slot[i] # NoSock => debug_up[debug_slot[i]] # "free"
  /\ \A t \in Printers : debug_run[t].at = "store" => debug_up[debug_run[t].new] # "free"
LinkInv == Served /\ Queued /\ Fresh /\ Used

LEMMA DoesKeepsLinks ==
  ASSUME DebugAssumptions, ProgramShape, ChannelShape, LinkInv, NEW t \in Printers, Seen(t), Does(t)
  PROVE  LinkInv'
<1>0. /\ debug_run[t] \in Runs /\ debug_run[t].i \in Debug!Slots
      /\ debug_slot[debug_run[t].i] \in Links \cup {NoSock}
  BY DEF ProgramShape, Runs
<1>1. Served /\ Queued /\ Fresh /\ Used
  BY DEF LinkInv
<1>2. ASSUME UNCHANGED <<debug_up, debug_sent, Debug!channel>> PROVE Served' /\ Queued' /\ Fresh'
  BY <1>1, <1>2 DEF Debug!channel, Served, Queued, Fresh
<1>3. CASE Quietly(t)
  <2>1. Used'
    BY <1>1, <1>3 DEF Quietly, Elsewhere, Seen, Moves, Used
  <2>2. QED
    BY <1>2, <1>3, <2>1 DEF Quietly, LinkInv
<1>4. ASSUME NEW c \in Links, Connects(t, c) PROVE LinkInv'
  <2>1. debug_peer[c] = "gone" /\ debug_console.link # c /\ debug_shown[c] = << >>
    BY <1>1, <1>4 DEF Connects, Fresh, Served
  <2>2. Served'
    BY <1>1, <1>4, <2>1 DEF Connects, Served, ChannelShape
  <2>3. Queued'
    <3>1. Len(debug_backlog) \in Nat /\ \A k \in 1..Len(debug_backlog) : debug_backlog[k] \in Links
      BY LenProperties, ElementOfSeq DEF ChannelShape
    <3>2. /\ Len(debug_backlog') = Len(debug_backlog) + 1 /\ debug_backlog'[Len(debug_backlog) + 1] = c
          /\ \A k \in 1..Len(debug_backlog) : debug_backlog'[k] = debug_backlog[k]
      BY <1>4, AppendProperties DEF Connects, ChannelShape
    <3>3. \A k \in 1..Len(debug_backlog) : debug_backlog[k] # c
      BY <1>1, <2>1 DEF Queued
    <3>4. debug_peer' \in [Links -> {"waiting", "served", "gone"}] /\ debug_peer'[c] = "waiting"
          /\ \A d \in Links \ {c} : debug_peer'[d] = debug_peer[d]
      BY <1>4 DEF Connects, ChannelShape
    <3>5. \A k \in 1..(Len(debug_backlog) + 1) : k \in 1..Len(debug_backlog) \/ k = Len(debug_backlog) + 1
      BY <3>1
    <3>6. \A k \in 1..(Len(debug_backlog) + 1) : debug_peer'[debug_backlog'[k]] = "waiting"
      BY <1>1, <3>1, <3>2, <3>3, <3>4, <3>5 DEF Queued
    <3>7. \A k, l \in 1..(Len(debug_backlog) + 1) : debug_backlog'[k] = debug_backlog'[l] => k = l
      BY <1>1, <3>1, <3>2, <3>3, <3>5 DEF Queued
    <3>8. QED
      BY <3>2, <3>6, <3>7 DEF Queued
  <2>4. Fresh'
    BY <1>1, <1>4, <2>1 DEF Connects, Fresh, ChannelShape, ProgramShape
  <2>5. Used'
    BY <1>1, <1>4 DEF Connects, Seen, Moves, Used, ProgramShape
  <2>6. QED
    BY <2>2, <2>3, <2>4, <2>5 DEF LinkInv
<1>5. CASE Stores(t)
  <2>1. debug_up[debug_run[t].new] # "free"
    BY <1>1, <1>5 DEF Stores, Used
  <2>2. \A i \in Debug!Slots : debug_slot'[i] # NoSock => debug_up'[debug_slot'[i]] # "free"
    BY <1>0, <1>1, <1>5, <2>1 DEF Stores, Used, ProgramShape
  <2>3. \A u \in Printers : debug_run'[u].at = "store" => debug_up'[debug_run'[u].new] # "free"
    <3>1. debug_run'[t].at # "store" /\ \A u \in Printers \ {t} : debug_run'[u] = debug_run[u]
      BY <1>5 DEF Stores, Elsewhere, Seen, Moves
    <3>2. QED
      BY <1>1, <1>5, <3>1 DEF Stores, Used
  <2>4. Used'
    BY <2>2, <2>3 DEF Used
  <2>5. QED
    BY <1>2, <1>5, <2>4 DEF Stores, LinkInv
<1>6. CASE Begins(t)
  <2> DEFINE c == debug_slot[debug_run[t].i]
  <2>1. /\ c \in Links /\ debug_up[c] # "free"
        /\ debug_sent' = [debug_sent EXCEPT ![c] = Append(@, debug_run[t].msg)]
    BY <1>0, <1>1, <1>6 DEF Begins, Used
  <2> HIDE DEF c
  <2>2. Fresh'
    BY <1>1, <1>6, <2>1 DEF Begins, Debug!channel, Fresh, ProgramShape
  <2>3. Used'
    BY <1>1, <1>6 DEF Begins, Seen, Moves, Used
  <2>4. Served' /\ Queued'
    BY <1>1, <1>6 DEF Begins, Debug!channel, Served, Queued
  <2>5. QED
    BY <2>2, <2>3, <2>4 DEF LinkInv
<1>7. CASE Sends(t)
  <2>1. Served' /\ Queued'
    BY <1>1, <1>7 DEF Sends, Served, Queued
  <2> DEFINE c == debug_slot[debug_run[t].i] w == Append(debug_wire[c], <<debug_run[t].msg, debug_run[t].put + 1>>)
  <2>2. debug_up[c] = "open" /\ debug_wire' \in {debug_wire, [debug_wire EXCEPT ![c] = w]}
    BY <1>7 DEF Sends
  <2> HIDE DEF c, w
  <2>3. Fresh'
    BY <1>1, <1>7, <2>2 DEF Sends, Fresh, ChannelShape
  <2>4. Used'
    BY <1>1, <1>7 DEF Sends, Sending, Seen, Moves, Used
  <2>5. QED
    BY <2>1, <2>3, <2>4 DEF LinkInv
<1>8. CASE Drops(t)
  <2> DEFINE c == debug_slot[debug_run[t].i]
  <2>1. c \in Links /\ debug_up[c] # "free" /\ debug_up' = [debug_up EXCEPT ![c] = "closed"]
    BY <1>0, <1>1, <1>8 DEF Drops, Used
  <2> HIDE DEF c
  <2>2. /\ UNCHANGED <<debug_sent, Debug!channel>> /\ debug_run'[t].at # "store"
        /\ debug_slot' = [debug_slot EXCEPT ![debug_run[t].i] = NoSock]
    BY <1>8 DEF Drops
  <2>3. \A d \in Links : debug_up'[d] = "free" <=> debug_up[d] = "free"
    BY <2>1 DEF ProgramShape
  <2>4. Served' /\ Queued'
    BY <1>1, <2>2 DEF Debug!channel, Served, Queued
  <2>5. Fresh'
    BY <1>1, <2>2, <2>3 DEF Debug!channel, Fresh
  <2>6. \A i \in Debug!Slots : debug_slot'[i] # NoSock => debug_slot[i] \in Links /\ debug_slot'[i] = debug_slot[i]
    BY <2>2 DEF ProgramShape
  <2>7. \A u \in Printers : debug_run'[u].at = "store" => debug_run'[u] = debug_run[u] /\ debug_run[u].new \in Links
    BY <2>2 DEF Seen, Moves, ProgramShape
  <2>8. Used'
    BY <1>1, <2>3, <2>6, <2>7 DEF Used
  <2>9. QED
    BY <2>4, <2>5, <2>8 DEF LinkInv
<1>9. CASE Loses(t)
  <2>1. Used'
    BY <1>1, <1>9 DEF Loses, Seen, Moves, Used
  <2>2. QED
    BY <1>2, <1>9, <2>1 DEF Loses, LinkInv
<1>10. CASE Selects(t)
  <2>1. Used'
    BY <1>1, <1>10 DEF Selects, Seen, Moves, Used
  <2>2. QED
    BY <1>2, <1>10, <2>1 DEF Selects, LinkInv
<1>11. QED
  BY <1>3, <1>4, <1>5, <1>6, <1>7, <1>8, <1>9, <1>10 DEF Does

LEMMA ConsoleKeepsLinks ==
  ASSUME DebugAssumptions, ProgramShape, ChannelShape, LinkInv, ConsoleStep
  PROVE  LinkInv'
<1>0. Served /\ Queued /\ Fresh /\ Used
  BY DEF LinkInv
<1>1. Used'
  BY <1>0 DEF ConsoleStep, Debug!Accept, Debug!Recv, Debug!EndOfLink, Debug!Restart, Debug!program, Used
<1>2. CASE Debug!Accept
  <2> DEFINE c == Head(debug_backlog) k == [Debug!NoLink EXCEPT !.link = c]
  <2>1. /\ debug_console' = k /\ debug_backlog' = Tail(debug_backlog) /\ debug_backlog # << >> /\ debug_console.link = NoSock
        /\ debug_peer' = [debug_peer EXCEPT ![c] = "served"] /\ UNCHANGED <<debug_wire, debug_shown, debug_up, debug_sent>>
    BY <1>2 DEF Debug!Accept, Debug!program
  <2>2. /\ c \in Links /\ k.link = c /\ c = debug_backlog[1] /\ Len(debug_backlog) \in Nat \ {0}
        /\ Len(debug_backlog') = Len(debug_backlog) - 1
        /\ \A j \in 1..Len(debug_backlog') : debug_backlog'[j] = debug_backlog[j + 1] /\ debug_backlog[j + 1] \in Links
    BY <2>1, BacklogInTwo, AcceptedIs, ElementOfSeq DEF ChannelShape
  <2> HIDE DEF c, k
  <2>3. Served'
    BY <1>0, <2>1, <2>2 DEF Served, ChannelShape, DebugAssumptions
  <2>4. Queued'
    <3>1. \A j \in 1..Len(debug_backlog') : j + 1 \in 1..Len(debug_backlog) /\ j + 1 # 1
      BY <2>2
    <3>2. 1 \in 1..Len(debug_backlog)
      BY <2>2
    <3>3. \A j \in 1..Len(debug_backlog') : debug_backlog'[j] # c /\ debug_peer[debug_backlog'[j]] = "waiting"
      BY <1>0, <2>2, <3>1, <3>2 DEF Queued
    <3>4. \A j, l \in 1..Len(debug_backlog') : debug_backlog'[j] = debug_backlog'[l] => j = l
      <4>1. ASSUME NEW j \in 1..Len(debug_backlog'), NEW l \in 1..Len(debug_backlog'), debug_backlog'[j] = debug_backlog'[l]
            PROVE  j = l
        <5>1. debug_backlog[j + 1] = debug_backlog[l + 1]
          BY <2>2, <4>1
        <5>2. j + 1 = l + 1
          BY <1>0, <3>1, <5>1 DEF Queued
        <5>3. QED
          BY <2>2, <5>2
      <4>2. QED
        BY <4>1
    <3>5. QED
      BY <2>1, <2>2, <3>3, <3>4 DEF Queued, ChannelShape
  <2>5. Fresh'
    <3>1. debug_peer[c] = "waiting"
      BY <1>0, <2>2 DEF Queued
    <3>2. QED
      BY <1>0, <2>1, <2>2, <3>1 DEF Fresh, ChannelShape
  <2>6. QED
    BY <1>1, <2>3, <2>4, <2>5 DEF LinkInv
<1>3. CASE Debug!Recv
  <2>1. PICK c \in Links, n \in Nat : Takes(c, n) /\ Reads(c, n)
    BY <1>3, RecvReads
  <2>2. debug_peer[c] = "served" /\ debug_up[c] # "free" /\ UNCHANGED <<debug_up, debug_sent>>
    BY <1>0, <1>3, <2>1 DEF Takes, Served, Fresh, Debug!Recv, Debug!program
  <2>3. /\ debug_wire' \in [Links -> Seq(Words)] /\ debug_shown' \in [Links -> Seq(Nat)]
        /\ \A d \in Links \ {c} : debug_wire'[d] = debug_wire[d] /\ debug_shown'[d] = debug_shown[d]
    <3>1. ChannelShape'
      BY ConsoleKeepsShape, <1>3 DEF ConsoleStep
    <3>2. \A d \in Links \ {c} : debug_wire'[d] = debug_wire[d]
      BY <2>1 DEF Takes, ChannelShape
    <3>3. \A d \in Links \ {c} : debug_shown'[d] = debug_shown[d]
      BY <2>1 DEF Reads, HangsUp, Strays, ChannelShape
    <3>4. QED
      BY <3>1, <3>2, <3>3 DEF ChannelShape
  <2>4. CASE HangsUp(c)
    <3>1. Served'
      BY <1>0, <2>1, <2>2, <2>4, NoLinkIs DEF HangsUp, Takes, Served, ChannelShape, DebugAssumptions
    <3>2. Queued'
      <4>1. \A k \in 1..Len(debug_backlog) : debug_backlog[k] \in Links
        BY ElementOfSeq, LenProperties DEF ChannelShape
      <4>2. QED
        BY <1>0, <2>2, <2>4, <4>1 DEF HangsUp, Queued, ChannelShape
    <3>3. Fresh'
      BY <1>0, <2>2, <2>3, <2>4 DEF HangsUp, Fresh, ChannelShape
    <3>4. QED
      BY <1>1, <3>1, <3>2, <3>3 DEF LinkInv
  <2>5. CASE ~HangsUp(c)
    <3>1. debug_console'.link = c /\ debug_console.link = c /\ UNCHANGED <<debug_peer, debug_backlog>>
      <4>1. debug_console.link = c
        BY <2>1 DEF Takes
      <4>2. Strays(c) \/ \E got, text : Has(c, got, text)
        BY <2>1, <2>5 DEF Reads
      <4>3. QED
        BY <4>1, <4>2, HasIs DEF Strays
    <3>2. Served' /\ Queued'
      BY <1>0, <3>1 DEF Served, Queued
    <3>3. Fresh'
      BY <1>0, <2>2, <2>3, <3>1 DEF Fresh
    <3>4. QED
      BY <1>1, <3>2, <3>3 DEF LinkInv
  <2>6. QED
    BY <2>4, <2>5
<1>4. CASE Debug!EndOfLink
  <2> DEFINE c == debug_console.link
  <2>1. /\ c \in Links /\ debug_console' = Debug!NoLink /\ debug_peer' = [debug_peer EXCEPT ![c] = "gone"]
        /\ UNCHANGED <<debug_backlog, debug_shown, debug_wire, debug_up, debug_sent>>
    BY <1>4 DEF Debug!EndOfLink, Debug!HangUp, Debug!program, ChannelShape, Consoles
  <2>2. debug_peer[c] = "served"
    BY <1>0, <2>1 DEF Served
  <2>3. \A k \in 1..Len(debug_backlog) : debug_backlog[k] \in Links
    BY ElementOfSeq, LenProperties DEF ChannelShape
  <2>4. Served'
    BY <1>0, <2>1, NoLinkIs DEF Served, ChannelShape, DebugAssumptions
  <2> HIDE DEF c
  <2>5. Queued' /\ Fresh'
    BY <1>0, <2>1, <2>2, <2>3 DEF Queued, Fresh, ChannelShape
  <2>6. QED
    BY <1>1, <2>4, <2>5 DEF LinkInv
<1>5. CASE Debug!Restart
  <2>1. Served'
    BY <1>5, NoLinkIs DEF Debug!Restart, Served, DebugAssumptions
  <2>2. Queued'
    BY <1>5, EmptySeq DEF Debug!Restart, Queued
  <2>3. Fresh'
    BY <1>0, <1>5 DEF Debug!Restart, Debug!program, Fresh
  <2>4. QED
    BY <1>1, <2>1, <2>2, <2>3 DEF LinkInv
<1>6. QED
  BY <1>2, <1>3, <1>4, <1>5 DEF ConsoleStep

-----------------------------------------------------------------------------
(* As long as one thread at a time is in the channel.                      *)

OneIn == \A t, u \in Printers : debug_run[t].at # "idle" /\ debug_run[u].at # "idle" => t = u
\* A file is closed only where another is opened in its place.
FileKept == ~debug_broken /\ (debug_file = "closed" => \E t \in Printers : debug_run[t].at = "reopen")
\* What is in a slot is open and in no other; what is about to be put into one is open and in none, and the slot is free; what is open is one of the two;
\* and who sends has something to send to.
SlotsOpen == \A i \in Debug!Slots : debug_slot[i] # NoSock => debug_up[debug_slot[i]] = "open"
SlotsDiffer == \A i, j \in Debug!Slots : debug_slot[i] = debug_slot[j] /\ debug_slot[i] # NoSock => i = j
StoresNew == \A t \in Printers : debug_run[t].at = "store" =>
  /\ debug_up[debug_run[t].new] = "open" /\ debug_slot[debug_run[t].i] = NoSock
  /\ \A i \in Debug!Slots : debug_slot[i] # debug_run[t].new
OpenKnown == \A c \in Links : debug_up[c] = "open" =>
  (\E i \in Debug!Slots : debug_slot[i] = c) \/ \E t \in Printers : debug_run[t].at = "store" /\ debug_run[t].new = c
SendersHaveLinks == \A t \in Printers : debug_run[t].at \in Sending => debug_slot[debug_run[t].i] # NoSock
SlotInv == SlotsOpen /\ SlotsDiffer /\ StoresNew /\ OpenKnown /\ SendersHaveLinks
Alone == OneIn /\ FileKept /\ SlotInv

LEMMA OneStaysIn ==
  ASSUME OneIn, NEW t \in Printers, Seen(t), ~debug_mixed'
  PROVE  /\ OneIn'
         /\ debug_run[t].at # "idle" \/ debug_run'[t].at # "idle" =>
              \A u \in Printers \ {t} : debug_run[u].at = "idle" /\ debug_run'[u].at = "idle"
         /\ \A u \in Printers \ {t} : debug_run'[u] = debug_run[u]
  BY DEF OneIn, Seen, Moves

LEMMA DoesKeepsAlone ==
  ASSUME DebugAssumptions, ProgramShape, Alone, NEW t \in Printers, Seen(t), Does(t), ~debug_mixed'
  PROVE  Alone'
<1>0. /\ debug_run[t] \in Runs /\ debug_run[t].i \in Debug!Slots
      /\ debug_slot[debug_run[t].i] \in Links \cup {NoSock} /\ NoSock \notin Links
  BY DEF ProgramShape, Runs, DebugAssumptions
<1>1. OneIn /\ FileKept /\ SlotsOpen /\ SlotsDiffer /\ StoresNew /\ OpenKnown /\ SendersHaveLinks
  BY DEF Alone, SlotInv
<1>2. /\ OneIn'
      /\ debug_run[t].at # "idle" \/ debug_run'[t].at # "idle" =>
           \A u \in Printers \ {t} : debug_run[u].at = "idle" /\ debug_run'[u].at = "idle"
      /\ \A u \in Printers \ {t} : debug_run'[u] = debug_run[u]
  BY <1>1, OneStaysIn
<1>3. FileKept'
  <2>1. ~debug_broken'
    <3>1. CASE Quietly(t)
      <4>1. debug_run[t].at # "file" \/ debug_file # "closed"
        BY <1>1, <1>2 DEF FileKept
      <4>2. QED
        BY <1>1, <3>1, <4>1 DEF Quietly, FileKept
    <3>2. CASE Loses(t)
      BY <1>1, <3>2 DEF Loses, SendersHaveLinks
    <3>3. CASE ~Quietly(t) /\ ~Loses(t)
      BY <1>1, <3>3 DEF Does, Connects, Stores, Begins, Selects, Sends, Drops, FileKept
    <3>4. QED
      BY <3>1, <3>2, <3>3
  <2>2. debug_file' = "closed" => \E u \in Printers : debug_run'[u].at = "reopen"
    <3>1. CASE debug_run'[t].at = "reopen"
      BY <3>1
    <3>2. CASE debug_file = "closed" /\ debug_run[t].at # "reopen"
      BY <1>1, <1>2, <3>2 DEF FileKept
    <3>3. QED
      BY <3>1, <3>2 DEF Seen
  <2>3. QED
    BY <2>1, <2>2 DEF FileKept
<1>4. CASE Quietly(t)
  <2>1. SlotInv'
    BY <1>1, <1>2, <1>4 DEF Quietly, Elsewhere, SlotInv, SlotsOpen, SlotsDiffer, StoresNew, OpenKnown, SendersHaveLinks
  <2>2. QED
    BY <1>2, <1>3, <2>1 DEF Alone
<1>5. ASSUME NEW c \in Links, Connects(t, c) PROVE Alone'
  <2>1. /\ debug_run'[t].at = "store" /\ debug_run'[t].new = c /\ debug_slot[debug_run'[t].i] = NoSock
        /\ debug_up[c] = "free" /\ debug_up'[c] = "open" /\ \A d \in Links \ {c} : debug_up'[d] = debug_up[d]
        /\ debug_slot' = debug_slot /\ debug_run[t].at # "store"
    BY <1>5 DEF Connects, ProgramShape, Elsewhere
  <2>2. \A i \in Debug!Slots : debug_slot[i] # c
    BY <1>1, <2>1, <1>0 DEF SlotsOpen
  <2>3. SlotsOpen' /\ SlotsDiffer'
    BY <1>1, <2>1, <2>2 DEF SlotsOpen, SlotsDiffer, ProgramShape
  <2>4. StoresNew' /\ SendersHaveLinks'
    BY <1>2, <2>1, <2>2 DEF StoresNew, SendersHaveLinks, Sending
  <2>5. OpenKnown'
    BY <1>1, <1>2, <2>1 DEF OpenKnown
  <2>6. QED
    BY <1>2, <1>3, <2>3, <2>4, <2>5 DEF Alone, SlotInv
<1>6. CASE Stores(t)
  <2> DEFINE i == debug_run[t].i c == debug_run[t].new
  <2>1. /\ i \in Debug!Slots /\ c \in Links /\ debug_slot[i] = NoSock /\ debug_up[c] = "open"
        /\ \A j \in Debug!Slots : debug_slot[j] # c
    BY <1>0, <1>1, <1>6 DEF Stores, StoresNew, ProgramShape
  <2>2. /\ debug_slot' = [debug_slot EXCEPT ![i] = c] /\ debug_up' = debug_up
        /\ Elsewhere(debug_run'[t].at) /\ debug_run[t].at = "store" /\ debug_run[t].new = c
    BY <1>6 DEF Stores
  <2> HIDE DEF i, c
  <2>3. debug_slot'[i] = c /\ \A j \in Debug!Slots \ {i} : debug_slot'[j] = debug_slot[j]
    BY <2>1, <2>2 DEF ProgramShape
  <2>4. \A u \in Printers : debug_run'[u].at # "store" /\ debug_run'[u].at \notin Sending
    BY <1>2, <2>2 DEF Elsewhere, Sending
  <2>5. SlotsOpen' /\ SlotsDiffer'
    BY <1>1, <2>1, <2>2, <2>3 DEF SlotsOpen, SlotsDiffer
  <2>6. StoresNew' /\ SendersHaveLinks'
    BY <2>4 DEF StoresNew, SendersHaveLinks
  <2>7. OpenKnown'
    <3>1. ASSUME NEW d \in Links, debug_up'[d] = "open" PROVE \E j \in Debug!Slots : debug_slot'[j] = d
      <4>1. CASE d = c
        BY <2>1, <2>3, <4>1
      <4>2. CASE d # c
        <5>1. PICK j \in Debug!Slots : debug_slot[j] = d
          BY <1>1, <1>2, <2>2, <3>1, <4>2 DEF OpenKnown
        <5>2. j # i
          BY <1>0, <2>1, <5>1
        <5>3. QED
          BY <2>3, <5>1, <5>2
      <4>3. QED
        BY <4>1, <4>2
    <3>2. QED
      BY <3>1 DEF OpenKnown
  <2>8. QED
    BY <1>2, <1>3, <2>5, <2>6, <2>7 DEF Alone, SlotInv
<1>7. CASE Begins(t) \/ Selects(t) \/ Sends(t)
  <2>1. /\ UNCHANGED <<debug_slot, debug_up>> /\ debug_run[t].at # "store" /\ debug_run'[t].at # "store"
        /\ debug_run'[t].at \in Sending => debug_run'[t].i = debug_run[t].i /\ debug_slot[debug_run[t].i] # NoSock
    BY <1>7 DEF Begins, Selects, Sends, Sending
  <2>2. SlotInv'
    BY <1>1, <1>2, <2>1 DEF SlotInv, SlotsOpen, SlotsDiffer, StoresNew, OpenKnown, SendersHaveLinks
  <2>3. QED
    BY <1>2, <1>3, <2>2 DEF Alone
<1>8. CASE Drops(t)
  <2> DEFINE i == debug_run[t].i c == debug_slot[i]
  <2>1. /\ i \in Debug!Slots /\ c \in Links /\ debug_slot[i] = c /\ debug_run[t].at \in Sending
        /\ debug_slot' = [debug_slot EXCEPT ![i] = NoSock] /\ debug_up' = [debug_up EXCEPT ![c] = "closed"]
        /\ debug_run'[t].at \in {"idle", "slot"}
    BY <1>0, <1>8 DEF Drops
  <2>2. \A u \in Printers : debug_run'[u].at # "store" /\ debug_run'[u].at \notin Sending /\ debug_run[u].at # "store"
    BY <1>2, <2>1 DEF Sending
  <2> HIDE DEF i, c
  <2>3. /\ debug_slot'[i] = NoSock /\ \A j \in Debug!Slots \ {i} : debug_slot'[j] = debug_slot[j] /\ debug_slot[j] # c
        /\ debug_up'[c] = "closed" /\ \A d \in Links \ {c} : debug_up'[d] = debug_up[d]
    BY <1>0, <1>1, <2>1 DEF ProgramShape, SlotsDiffer
  <2>4. SlotsOpen' /\ SlotsDiffer'
    BY <1>1, <2>1, <2>3 DEF SlotsOpen, SlotsDiffer, ProgramShape
  <2>5. StoresNew' /\ SendersHaveLinks'
    BY <2>2 DEF StoresNew, SendersHaveLinks
  <2>6. OpenKnown'
    <3>1. ASSUME NEW d \in Links, debug_up'[d] = "open" PROVE \E j \in Debug!Slots : debug_slot'[j] = d
      <4>1. d # c /\ debug_up[d] = "open"
        BY <2>1, <2>3, <3>1
      <4>2. PICK j \in Debug!Slots : debug_slot[j] = d
        BY <1>1, <2>2, <4>1 DEF OpenKnown
      <4>3. QED
        BY <2>1, <2>3, <4>1, <4>2
    <3>2. QED
      BY <3>1 DEF OpenKnown
  <2>7. QED
    BY <1>2, <1>3, <2>4, <2>5, <2>6 DEF Alone, SlotInv
<1>9. CASE Loses(t)
  BY <1>1, <1>9 DEF Loses, SendersHaveLinks
<1>10. QED
  BY <1>4, <1>5, <1>6, <1>7, <1>8, <1>9 DEF Does

-----------------------------------------------------------------------------
(* What is on a link: the messages sent on it one after the other, five    *)
(* words each, but for the words that have been read.                      *)

\* w goes on where the first n words of the messages of s stop.
Continues(w, s, n) ==
  /\ n + Len(w) <= 5 * Len(s)
  /\ \A m \in 1..Len(s) : \A o \in 1..5 : 5 * (m - 1) + o - n \in 1..Len(w) => w[5 * (m - 1) + o - n] = <<s[m], o>>

LEMMA ContinuesEmpty == Continues(<< >>, << >>, 0)
  BY DEF Continues

LEMMA ContinuesBehind ==
  ASSUME NEW w \in Seq(Words), NEW s \in Seq(Nat), NEW n \in Nat, Continues(w, s, n), NEW j \in 0..Len(w)
  PROVE  Continues(SubSeq(w, j + 1, Len(w)), s, n + j)
<1> DEFINE v == SubSeq(w, j + 1, Len(w))
<1>1. /\ Len(w) \in Nat /\ Len(s) \in Nat /\ Len(v) = Len(w) - j
      /\ \A k \in 1..(Len(w) - j) : v[k] = w[j + k]
  BY CutInTwo, LenProperties
<1> HIDE DEF v
<1>2. (n + j) + Len(v) <= 5 * Len(s)
  BY <1>1 DEF Continues
<1>3. ASSUME NEW m \in 1..Len(s), NEW o \in 1..5, 5 * (m - 1) + o - (n + j) \in 1..Len(v)
      PROVE  v[5 * (m - 1) + o - (n + j)] = <<s[m], o>>
  <2> DEFINE k == 5 * (m - 1) + o - (n + j)
  <2>1. m \in Int /\ o \in Int /\ n \in Int /\ j \in Int
    BY <1>1
  <2>2. j + k = 5 * (m - 1) + o - n
    BY <2>1
  <2>3. k \in 1..(Len(w) - j)
    BY <1>1, <1>3
  <2> HIDE DEF k
  <2>4. v[k] = w[j + k] /\ j + k \in 1..Len(w)
    BY <1>1, <2>3
  <2>5. w[j + k] = <<s[m], o>>
    BY <1>3, <2>2, <2>4 DEF Continues
  <2>6. QED
    BY <2>4, <2>5 DEF k
<1>4. QED
  BY <1>2, <1>3 DEF Continues, v

\* The words of a message of which o have been read.
LEMMA ContinuesFirst ==
  ASSUME NEW w \in Seq(Words), NEW s \in Seq(Nat), NEW k \in Nat, NEW o \in 0..4, Continues(w, s, 5 * k + o), w # << >>
  PROVE  k + 1 \in 1..Len(s) /\ \A j \in 1..Len(w) : o + j <= 5 => w[j] = <<s[k + 1], o + j>>
<1>1. Len(w) \in Nat \ {0} /\ Len(s) \in Nat
  BY LenProperties, EmptySeq
<1>2. k + 1 \in 1..Len(s)
  BY <1>1 DEF Continues
<1>3. ASSUME NEW j \in 1..Len(w), o + j <= 5
      PROVE  w[j] = <<s[k + 1], o + j>>
  <2>1. 5 * ((k + 1) - 1) + (o + j) - (5 * k + o) = j /\ o + j \in 1..5
    BY <1>1, <1>3
  <2>2. QED
    BY <1>2, <2>1 DEF Continues
<1>4. QED
  BY <1>2, <1>3

LEMMA ContinuesAfterBegin ==
  ASSUME NEW w \in Seq(Words), NEW s \in Seq(Nat), NEW n \in Nat, Continues(w, s, n), NEW msg \in Nat
  PROVE  Continues(w, Append(s, msg), n)
<1> DEFINE u == Append(s, msg)
<1>1. /\ Len(w) \in Nat /\ Len(s) \in Nat /\ Len(u) = Len(s) + 1
      /\ \A m \in 1..Len(s) : u[m] = s[m]
  BY LenProperties, AppendProperties
<1> HIDE DEF u
<1>2. n + Len(w) <= 5 * Len(u)
  BY <1>1 DEF Continues
<1>3. ASSUME NEW m \in 1..Len(u), NEW o \in 1..5, 5 * (m - 1) + o - n \in 1..Len(w)
      PROVE  w[5 * (m - 1) + o - n] = <<u[m], o>>
  <2>1. m \in 1..Len(s)
    BY <1>1, <1>3 DEF Continues
  <2>2. QED
    BY <1>1, <1>3, <2>1 DEF Continues
<1>4. QED
  BY <1>2, <1>3 DEF Continues, u

\* The last message goes on with its next word.
LEMMA ContinuesAfterWord ==
  ASSUME NEW w \in Seq(Words), NEW s \in Seq(Nat), s # << >>, NEW n \in Nat, NEW put \in 0..4, Continues(w, s, n),
         n + Len(w) = 5 * (Len(s) - 1) + put
  PROVE  /\ Continues(Append(w, <<s[Len(s)], put + 1>>), s, n)
         /\ n + Len(Append(w, <<s[Len(s)], put + 1>>)) = 5 * (Len(s) - 1) + put + 1
<1> DEFINE x == <<s[Len(s)], put + 1>> v == Append(w, x) lw == Len(w) ls == Len(s)
<1>1. lw \in Nat /\ ls \in Nat \ {0} /\ s[ls] \in Nat
  BY LenProperties, EmptySeq, ElementOfSeq
<1>2. x \in Words
  BY <1>1 DEF Words
<1>3. Len(v) = lw + 1 /\ v[lw + 1] = x /\ \A k \in 1..lw : v[k] = w[k]
  <2> HIDE DEF x
  <2>1. QED
    BY <1>2, AppendProperties
<1>4. /\ n + lw = 5 * (ls - 1) + put
      /\ \A m \in 1..ls : \A o \in 1..5 : 5 * (m - 1) + o - n \in 1..lw => w[5 * (m - 1) + o - n] = <<s[m], o>>
  BY DEF Continues
<1> HIDE DEF v, lw, ls
<1>5. n + Len(v) = 5 * (ls - 1) + put + 1
  BY <1>1, <1>3, <1>4
<1>6. ASSUME NEW m \in 1..ls, NEW o \in 1..5, 5 * (m - 1) + o - n \in 1..Len(v)
      PROVE  v[5 * (m - 1) + o - n] = <<s[m], o>>
  <2> DEFINE k == 5 * (m - 1) + o - n
  <2>1. k \in 1..(lw + 1) /\ m \in Int /\ o \in Int /\ lw \in Int /\ ls \in Int
    BY <1>1, <1>3, <1>6
  <2>2. CASE k <= lw
    <3>1. k \in 1..lw
      BY <2>1, <2>2
    <3>2. QED
      BY <1>3, <1>4, <3>1
  <2>3. CASE ~(k <= lw)
    <3>1. k = lw + 1 /\ m = ls /\ o = put + 1
      <4>1. k = lw + 1
        <5> HIDE DEF k
        <5>1. QED
          BY <2>1, <2>3
      <4>2. 5 * m + o = 5 * ls + put + 1
        BY <1>1, <1>4, <2>1, <4>1
      <4>3. QED
        <5>1. m \in Int /\ ls \in Int /\ o \in 1..5 /\ put + 1 \in 1..5 /\ m <= ls
          BY <1>1, <2>1
        <5> HIDE DEF k
        <5>2. ~(m <= ls - 1)
          BY <4>2, <5>1
        <5>3. m = ls
          BY <5>1, <5>2
        <5>4. QED
          BY <4>1, <4>2, <5>1, <5>3
    <3>2. x = <<s[ls], put + 1>>
      BY DEF ls
    <3> HIDE DEF k, x
    <3>3. v[k] = <<s[m], o>>
      BY <1>3, <3>1, <3>2
    <3>4. QED
      BY <3>3 DEF k
  <2>4. QED
    BY <2>2, <2>3
<1>7. n + Len(v) <= 5 * ls
  BY <1>1, <1>5
<1>8. Continues(v, s, n)
  BY <1>6, <1>7 DEF Continues, ls
<1>9. QED
  BY <1>5, <1>8 DEF v, ls

-----------------------------------------------------------------------------
(* The streams.                                                            *)

Writes(t, c) == debug_run[t].at \in Sending /\ debug_slot[debug_run[t].i] = c
\* The words of a link that have been read.
ReadOf(c) == 5 * Len(debug_shown[c]) + (IF debug_console.link = c THEN debug_console.got ELSE 0)

\* The console knows what comes next, and what it has got of the text of a message is of the message that is next to be shown.
Ready ==
  /\ ~debug_console.lost
  /\ \A c \in Links : debug_console.link = c /\ debug_console.got = 4 =>
       debug_console.text[1] = <<debug_sent[c][Len(debug_shown[c]) + 1], 4>> /\ Len(debug_shown[c]) < Len(debug_sent[c])
\* Who sends, sends the last message of its link.
Begun == \A t \in Printers, c \in Links : Writes(t, c) =>
  /\ debug_sent[c] # << >> /\ debug_sent[c][Len(debug_sent[c])] = debug_run[t].msg
  /\ debug_run[t].put < 5
ShownWhole == \A c \in Links : \A k \in 1..Len(debug_shown[c]) :
  k <= Len(debug_sent[c]) /\ debug_shown[c][k] = debug_sent[c][k]
\* On the way is what was sent and has not been read: all of it, if the link is open, but for what a thread has still to send.
StreamOf(c) ==
  /\ Continues(debug_wire[c], debug_sent[c], ReadOf(c))
  /\ debug_up[c] = "open" /\ (\A t \in Printers : ~Writes(t, c)) =>
       ReadOf(c) + Len(debug_wire[c]) = 5 * Len(debug_sent[c])
  /\ \A t \in Printers : Writes(t, c) =>
       ReadOf(c) + Len(debug_wire[c]) = 5 * (Len(debug_sent[c]) - 1) + debug_run[t].put
Streams == \A c \in Links : debug_peer[c] # "gone" => StreamOf(c)
StreamInv == Ready /\ Begun /\ ShownWhole /\ Streams

\* Links on which nothing happens.
LEMMA StreamStays ==
  ASSUME NEW c \in Links, debug_peer[c] # "gone" => StreamOf(c), debug_peer'[c] # "gone" => debug_peer[c] # "gone",
         debug_wire'[c] = debug_wire[c], debug_sent'[c] = debug_sent[c], debug_shown'[c] = debug_shown[c],
         debug_up'[c] = "open" => debug_up[c] = "open",
         ReadOf(c)' = ReadOf(c), \A t \in Printers : ~Writes(t, c) /\ ~Writes(t, c)'
  PROVE  debug_peer'[c] # "gone" => StreamOf(c)'
<1>1. SUFFICES ASSUME debug_peer'[c] # "gone" PROVE StreamOf(c)'
  OBVIOUS
<1>2. /\ Continues(debug_wire[c], debug_sent[c], ReadOf(c))
      /\ debug_up[c] = "open" => ReadOf(c) + Len(debug_wire[c]) = 5 * Len(debug_sent[c])
  BY <1>1 DEF StreamOf
<1>3. Continues(debug_wire'[c], debug_sent'[c], ReadOf(c)')
  BY <1>2
<1>4. debug_up'[c] = "open" => ReadOf(c)' + Len(debug_wire'[c]) = 5 * Len(debug_sent'[c])
  BY <1>2
<1> HIDE DEF Writes, ReadOf
<1>5. QED
  BY <1>3, <1>4 DEF StreamOf

LEMMA DoesKeepsStreams ==
  ASSUME DebugAssumptions, LenWords = 1, ProgramShape, ChannelShape, LinkInv, Alone, StreamInv,
         NEW t \in Printers, Seen(t), Does(t), ~debug_mixed'
  PROVE  StreamInv'
<1>0. /\ debug_run[t] \in Runs /\ debug_run[t].i \in Debug!Slots /\ debug_run[t].msg \in Nat
      /\ debug_slot[debug_run[t].i] \in Links \cup {NoSock} /\ NoSock \notin Links
  BY DEF ProgramShape, Runs, DebugAssumptions
<1>1. /\ Ready /\ Begun /\ ShownWhole /\ Streams /\ OneIn /\ SlotsOpen /\ SlotsDiffer /\ SendersHaveLinks
      /\ Served /\ Fresh
  BY DEF StreamInv, Alone, SlotInv, LinkInv
<1>2. /\ debug_run[t].at # "idle" =>
           \A u \in Printers \ {t} : debug_run[u].at = "idle" /\ debug_run'[u].at = "idle"
      /\ \A u \in Printers \ {t} : debug_run'[u] = debug_run[u]
  BY <1>1, OneStaysIn
<1>3. ASSUME debug_run[t].at # "idle" PROVE \A u \in Printers \ {t} : \A d \in Links : ~Writes(u, d) /\ ~Writes(u, d)'
  BY <1>2, <1>3 DEF Writes, Sending
<1>4. \A d \in Links : /\ debug_wire[d] \in Seq(Words) /\ debug_sent[d] \in Seq(Nat) /\ debug_shown[d] \in Seq(Nat)
                       /\ Len(debug_shown[d]) \in Nat /\ ReadOf(d) \in Nat /\ Len(debug_wire[d]) \in Nat /\ Len(debug_sent[d]) \in Nat
  BY LenProperties DEF ChannelShape, ProgramShape, ReadOf, Consoles
<1>5. debug_console' = debug_console /\ debug_shown' = debug_shown /\ \A d \in Links : ReadOf(d)' = ReadOf(d)
  BY <1>1 DEF Does, Quietly, Connects, Stores, Begins, Selects, Sends, Drops, Loses, Debug!channel, ReadOf
<1>14. ASSUME debug_sent' = debug_sent PROVE Ready'
  BY <1>1, <1>5, <1>14 DEF Ready
<1>6. CASE Quietly(t)
  <2>1. UNCHANGED <<debug_slot, debug_up, debug_sent, debug_wire, debug_peer>>
    BY <1>6 DEF Quietly, Debug!channel
  <2>2. \A u \in Printers, d \in Links : (Writes(u, d)' <=> Writes(u, d)) /\ (Writes(u, d) => debug_run'[u] = debug_run[u])
    BY <1>2, <1>6, <2>1 DEF Quietly, Elsewhere, Writes
  <2>3. Begun' /\ ShownWhole'
    BY <1>1, <1>5, <2>1, <2>2 DEF Begun, ShownWhole
  <2>4. \A d \in Links : StreamOf(d) => StreamOf(d)'
    BY <1>5, <2>1, <2>2 DEF StreamOf
  <2>5. QED
    BY <1>1, <1>14, <2>1, <2>3, <2>4 DEF Streams, StreamInv
<1>7. ASSUME NEW c \in Links, Connects(t, c) PROVE StreamInv'
  <2>1. /\ debug_run[t].at \notin Sending \cup {"idle"} /\ debug_run'[t].at \notin Sending /\ debug_up[c] = "free"
        /\ debug_up'[c] = "open" /\ \A d \in Links \ {c} : debug_up'[d] = debug_up[d] /\ debug_peer'[d] = debug_peer[d]
        /\ UNCHANGED <<debug_slot, debug_sent, debug_wire, debug_shown, debug_console>>
    BY <1>7 DEF Connects, Elsewhere, Sending, ProgramShape, ChannelShape
  <2>2. \A u \in Printers, d \in Links : ~Writes(u, d) /\ ~Writes(u, d)'
    BY <1>3, <2>1 DEF Writes
  <2>3. Begun' /\ ShownWhole'
    BY <1>1, <2>1, <2>2 DEF Begun, ShownWhole
  <2>4. ASSUME NEW d \in Links, debug_peer'[d] # "gone" PROVE StreamOf(d)'
    <3>1. CASE d = c
      <4>1. debug_sent[c] = << >> /\ debug_wire[c] = << >> /\ debug_shown[c] = << >> /\ debug_peer[c] = "gone"
        BY <1>1, <2>1 DEF Fresh
      <4>2. debug_console.link # c
        BY <1>1, <4>1 DEF Served
      <4>3. ReadOf(c) = 0 /\ Len(debug_sent[c]) = 0 /\ Len(debug_wire[c]) = 0
        BY <4>1, <4>2, EmptySeq DEF ReadOf
      <4>4. Continues(debug_wire'[c], debug_sent'[c], ReadOf(c)')
        BY <1>5, <2>1, <4>1, <4>3, ContinuesEmpty
      <4>5. ReadOf(c)' + Len(debug_wire'[c]) = 5 * Len(debug_sent'[c])
        BY <1>5, <2>1, <4>3
      <4>6. QED
        BY <2>2, <3>1, <4>4, <4>5 DEF StreamOf
    <3>2. CASE d # c
      <4>1. /\ debug_peer'[d] = debug_peer[d] /\ debug_up'[d] = debug_up[d] /\ debug_wire'[d] = debug_wire[d]
            /\ debug_sent'[d] = debug_sent[d] /\ debug_shown'[d] = debug_shown[d]
        BY <2>1, <3>2
      <4>2. QED
        BY <1>1, <1>5, <2>2, <2>4, <4>1, StreamStays DEF Streams
    <3>3. QED
      BY <3>1, <3>2
  <2>5. QED
    BY <1>14, <2>1, <2>3, <2>4 DEF Streams, StreamInv
<1>8. CASE Stores(t)
  <2>1. /\ debug_run[t].at \notin Sending \cup {"idle"} /\ debug_run'[t].at \notin Sending
        /\ UNCHANGED <<debug_up, debug_sent, debug_wire, debug_shown, debug_console, debug_peer>>
    BY <1>8 DEF Stores, Elsewhere, Sending, Debug!channel
  <2>2. \A u \in Printers, d \in Links : ~Writes(u, d) /\ ~Writes(u, d)'
    BY <1>3, <2>1 DEF Writes
  <2>3. Begun' /\ ShownWhole'
    BY <1>1, <2>1, <2>2 DEF Begun, ShownWhole
  <2>4. ASSUME NEW d \in Links, debug_peer'[d] # "gone" PROVE StreamOf(d)'
    BY <1>1, <1>5, <2>1, <2>2, <2>4, StreamStays DEF Streams
  <2>5. QED
    BY <1>14, <2>1, <2>3, <2>4 DEF Streams, StreamInv
<1>9. CASE Begins(t)
  <2>0. PICK c \in Links, msg \in Nat : c = debug_slot[debug_run[t].i] /\ msg = debug_run[t].msg
    BY <1>0, <1>9 DEF Begins
  <2>1. /\ c \in Links /\ msg \in Nat /\ debug_sent' = [debug_sent EXCEPT ![c] = Append(@, msg)]
        /\ debug_run[t].at = "slot" /\ debug_run'[t].at = "select" /\ debug_run'[t].put = 0 /\ debug_run'[t].msg = msg /\ debug_up[c] = "open"
        /\ debug_slot'[debug_run'[t].i] = c
        /\ UNCHANGED <<debug_slot, debug_up, debug_wire, debug_shown, debug_console, debug_peer>>
    BY <1>0, <1>1, <1>9, <2>0 DEF Begins, SlotsOpen, Debug!channel
  <2>2. /\ debug_sent'[c] = Append(debug_sent[c], msg) /\ \A d \in Links \ {c} : debug_sent'[d] = debug_sent[d]
    BY <2>1 DEF ProgramShape
  <2>3. /\ Len(debug_sent'[c]) = Len(debug_sent[c]) + 1 /\ debug_sent'[c][Len(debug_sent[c]) + 1] = msg
        /\ \A k \in 1..Len(debug_sent[c]) : debug_sent'[c][k] = debug_sent[c][k]
    BY <1>4, <2>1, <2>2, AppendProperties
  <2>4. /\ \A u \in Printers, d \in Links : ~Writes(u, d)
        /\ \A u \in Printers, d \in Links : Writes(u, d)' => u = t /\ d = c
    BY <1>3, <2>1 DEF Writes, Sending
  <2>5. debug_sent'[c] # << >>
    BY <1>4, <2>3, EmptySeq
  <2>6. Begun'
    BY <2>1, <2>3, <2>4, <2>5 DEF Begun
  <2>7. ShownWhole'
    <3>1. ASSUME NEW d \in Links, NEW k \in 1..Len(debug_shown[d])
          PROVE  k <= Len(debug_sent'[d]) /\ debug_shown[d][k] = debug_sent'[d][k]
      <4>1. k <= Len(debug_sent[d]) /\ debug_shown[d][k] = debug_sent[d][k] /\ k \in Nat
        BY <1>1, <1>4 DEF ShownWhole
      <4>2. CASE d = c
        BY <1>4, <2>1, <2>3, <4>1, <4>2
      <4>3. CASE d # c
        BY <2>2, <4>1, <4>3
      <4>4. QED
        BY <4>2, <4>3
    <3>2. QED
      BY <2>1, <3>1 DEF ShownWhole
  <2>8. ASSUME NEW d \in Links, debug_peer'[d] # "gone" PROVE StreamOf(d)'
    <3>1. CASE d = c
      <4>1. Continues(debug_wire[c], debug_sent[c], ReadOf(c)) /\ ReadOf(c) + Len(debug_wire[c]) = 5 * Len(debug_sent[c])
        BY <1>1, <2>1, <2>4, <2>8, <3>1 DEF Streams, StreamOf
      <4>2. Continues(debug_wire[c], debug_sent'[c], ReadOf(c))
        BY <1>4, <2>1, <2>2, <4>1, ContinuesAfterBegin
      <4>3. ReadOf(c) + Len(debug_wire[c]) = 5 * (Len(debug_sent'[c]) - 1)
        BY <1>4, <2>1, <2>3, <4>1
      <4>4. Writes(t, c)' /\ debug_wire' = debug_wire
        BY <2>1 DEF Writes, Sending
      <4>5. Continues(debug_wire'[c], debug_sent'[c], ReadOf(c)')
        BY <1>5, <2>1, <4>2
      <4>6. ReadOf(c)' + Len(debug_wire'[c]) = 5 * (Len(debug_sent'[c]) - 1) + debug_run'[t].put
        BY <1>4, <1>5, <2>1, <2>3, <4>3, <4>4
      <4>7. QED
        BY <2>1, <2>4, <3>1, <4>4, <4>5, <4>6 DEF StreamOf
    <3>2. CASE d # c
      <4>1. /\ debug_peer'[d] = debug_peer[d] /\ debug_up'[d] = debug_up[d] /\ debug_wire'[d] = debug_wire[d]
            /\ debug_sent'[d] = debug_sent[d] /\ debug_shown'[d] = debug_shown[d]
            /\ \A u \in Printers : ~Writes(u, d) /\ ~Writes(u, d)'
        BY <2>1, <2>2, <2>4, <3>2
      <4>2. QED
        BY <1>1, <1>5, <2>8, <4>1, StreamStays DEF Streams
    <3>3. QED
      BY <3>1, <3>2
  <2>9. Ready'
    <3>1. ASSUME NEW d \in Links, debug_console.link = d, debug_console.got = 4
          PROVE  debug_console.text[1] = <<debug_sent'[d][Len(debug_shown[d]) + 1], 4>> /\ Len(debug_shown[d]) < Len(debug_sent'[d])
      <4> DEFINE k == Len(debug_shown[d]) + 1
      <4>1. debug_console.text[1] = <<debug_sent[d][k], 4>> /\ k \in 1..Len(debug_sent[d])
        BY <1>1, <1>4, <3>1 DEF Ready
      <4> HIDE DEF k
      <4>2. debug_sent'[d][k] = debug_sent[d][k] /\ k <= Len(debug_sent'[d])
        <5>1. CASE d = c
          BY <1>4, <2>3, <4>1, <5>1
        <5>2. CASE d # c
          BY <1>4, <2>2, <4>1, <5>2
        <5>3. QED
          BY <5>1, <5>2
      <4>3. QED
        BY <1>4, <4>1, <4>2 DEF k
    <3>2. QED
      BY <1>1, <1>5, <3>1 DEF Ready
  <2>10. QED
    BY <2>6, <2>7, <2>8, <2>9 DEF Streams, StreamInv
<1>15. CASE Selects(t)
  <2>1. UNCHANGED <<debug_slot, debug_up, debug_sent, debug_wire, debug_peer>> /\ debug_run[t].at \in Sending
    BY <1>15 DEF Selects, Debug!channel, Sending
  <2>2. \A u \in Printers, d \in Links :
          /\ Writes(u, d)' <=> Writes(u, d)
          /\ Writes(u, d) => debug_run'[u].msg = debug_run[u].msg /\ debug_run'[u].put = debug_run[u].put
    BY <1>2, <1>15, <2>1 DEF Selects, Sending, Writes
  <2>3. Begun' /\ ShownWhole'
    BY <1>1, <1>5, <2>1, <2>2 DEF Begun, ShownWhole
  <2>4. \A d \in Links : StreamOf(d) => StreamOf(d)'
    BY <1>5, <2>1, <2>2 DEF StreamOf
  <2>5. QED
    BY <1>1, <1>14, <2>1, <2>3, <2>4 DEF Streams, StreamInv
<1>10. CASE Sends(t)
  <2>0. PICK c \in Links, put \in 0..4, msg \in Nat :
          c = debug_slot[debug_run[t].i] /\ put = debug_run[t].put /\ msg = debug_run[t].msg
    BY <1>0, <1>10 DEF Sends, Runs, Begun, Writes, Sending, StreamInv
  <2>1. /\ c \in Links /\ msg \in Nat /\ put \in 0..4 /\ Writes(t, c) /\ debug_run[t].at # "idle"
        /\ debug_wire' = IF debug_peer[c] = "gone" THEN debug_wire ELSE [debug_wire EXCEPT ![c] = Append(@, <<msg, put + 1>>)]
        /\ UNCHANGED <<debug_slot, debug_up, debug_sent, debug_shown, debug_console, debug_peer>>
    BY <1>0, <1>10, <2>0 DEF Sends, Writes, Sending
  <2>2. /\ put = 4 => ~Writes(t, c)'
        /\ put # 4 => Writes(t, c)' /\ debug_run'[t].msg = msg /\ debug_run'[t].put = put + 1
    <3>1. Debug!Size = 5
      BY DEF Debug!Size, Debug!TypeWords
    <3>2. QED
      BY <1>0, <1>10, <2>0, <2>1, <3>1 DEF Sends, Writes, Sending
  <2>3. \A u \in Printers, d \in Links : Writes(u, d) \/ Writes(u, d)' => u = t /\ d = c
    <3>1. Writes(t, c)' => \A d \in Links : Writes(t, d)' => d = c
      BY DEF Writes
    <3>2. put # 4 => Writes(t, c)'
      BY <2>2
    <3>3. put = 4 => \A d \in Links : ~Writes(t, d)'
      <4>1. Debug!Size = 5
        BY DEF Debug!Size, Debug!TypeWords
      <4>2. QED
        BY <1>10, <2>0, <4>1 DEF Sends, Writes, Sending
    <3>4. \A d \in Links : Writes(t, d) => d = c
      BY <2>0 DEF Writes
    <3>5. QED
      BY <1>3, <2>1, <3>1, <3>2, <3>3, <3>4
  <2>4. debug_sent[c] # << >> /\ debug_sent[c][Len(debug_sent[c])] = msg
    BY <1>1, <2>0, <2>1 DEF Begun
  <2>5. Begun'
    BY <2>1, <2>2, <2>3, <2>4 DEF Begun
  <2>6. ShownWhole'
    BY <1>1, <2>1 DEF ShownWhole
  <2>7. ASSUME NEW d \in Links, debug_peer'[d] # "gone" PROVE StreamOf(d)'
    <3>1. CASE d = c
      <4> DEFINE x == <<msg, put + 1>>
      <4>1. debug_wire'[c] = Append(debug_wire[c], x)
        BY <2>1, <2>7, <3>1 DEF ChannelShape
      <4>2. Continues(debug_wire[c], debug_sent[c], ReadOf(c)) /\ ReadOf(c) + Len(debug_wire[c]) = 5 * (Len(debug_sent[c]) - 1) + put
        BY <1>1, <2>0, <2>1, <2>7, <3>1 DEF Streams, StreamOf
      <4>3. /\ Continues(Append(debug_wire[c], x), debug_sent[c], ReadOf(c))
            /\ ReadOf(c) + Len(Append(debug_wire[c], x)) = 5 * (Len(debug_sent[c]) - 1) + put + 1
        BY <1>4, <2>1, <2>4, <4>2, ContinuesAfterWord
      <4> HIDE DEF x
      <4>4. /\ Continues(debug_wire'[c], debug_sent'[c], ReadOf(c)')
            /\ ReadOf(c)' + Len(debug_wire'[c]) = 5 * (Len(debug_sent'[c]) - 1) + put + 1
        BY <1>5, <2>1, <4>1, <4>3
      <4>5. CASE put = 4
        <5>1. /\ \A u \in Printers : ~Writes(u, c)'
              /\ 5 * (Len(debug_sent'[c]) - 1) + put + 1 = 5 * Len(debug_sent'[c])
          BY <1>4, <2>1, <2>2, <2>3, <4>5
        <5>2. QED
          BY <3>1, <4>4, <5>1 DEF StreamOf
      <4>6. CASE put # 4
        <5>1. 5 * (Len(debug_sent'[c]) - 1) + put + 1 = 5 * (Len(debug_sent'[c]) - 1) + debug_run'[t].put
          <6>1. debug_run'[t].put = put + 1 /\ Len(debug_sent'[c]) \in Int
            BY <1>4, <2>1, <2>2, <4>6
          <6>2. \A a \in Int : a + put + 1 = a + (put + 1)
            BY <2>1
          <6>3. 5 * (Len(debug_sent'[c]) - 1) \in Int
            BY <6>1
          <6>4. QED
            BY <6>1, <6>2, <6>3
        <5>2. Writes(t, c)' /\ \A u \in Printers : Writes(u, c)' => u = t
          BY <2>1, <2>2, <2>3, <4>6
        <5>3. QED
          BY <3>1, <4>4, <5>1, <5>2 DEF StreamOf
      <4>7. QED
        BY <4>5, <4>6
    <3>2. CASE d # c
      <4>1. /\ debug_peer'[d] = debug_peer[d] /\ debug_up'[d] = debug_up[d] /\ debug_wire'[d] = debug_wire[d]
            /\ debug_sent'[d] = debug_sent[d] /\ debug_shown'[d] = debug_shown[d]
            /\ \A u \in Printers : ~Writes(u, d) /\ ~Writes(u, d)'
        BY <2>1, <2>3, <3>2 DEF ChannelShape
      <4>2. QED
        BY <1>1, <1>5, <2>7, <4>1, StreamStays DEF Streams
    <3>3. QED
      BY <3>1, <3>2
  <2>8. QED
    BY <1>14, <2>1, <2>5, <2>6, <2>7 DEF Streams, StreamInv
<1>11. CASE Drops(t)
  <2>0. PICK c \in Links : c = debug_slot[debug_run[t].i]
    BY <1>0, <1>11 DEF Drops
  <2>1. /\ c \in Links /\ debug_run[t].at \in Sending /\ debug_run'[t].at \notin Sending
        /\ debug_up' = [debug_up EXCEPT ![c] = "closed"]
        /\ UNCHANGED <<debug_sent, debug_wire, debug_shown, debug_console, debug_peer>>
    BY <1>0, <1>11, <2>0 DEF Drops, Debug!channel, Sending
  <2>2. \A u \in Printers, d \in Links : ~Writes(u, d)' /\ (Writes(u, d) => d = c)
    BY <1>3, <2>0, <2>1 DEF Writes, Sending
  <2>3. Begun' /\ ShownWhole'
    BY <1>1, <2>1, <2>2 DEF Begun, ShownWhole
  <2>4. ASSUME NEW d \in Links, debug_peer'[d] # "gone" PROVE StreamOf(d)'
    <3>1. CASE d = c
      <4>1. Continues(debug_wire[c], debug_sent[c], ReadOf(c))
        BY <1>1, <2>1, <2>4, <3>1 DEF Streams, StreamOf
      <4>2. Continues(debug_wire'[c], debug_sent'[c], ReadOf(c)') /\ debug_up'[c] = "closed"
        BY <1>5, <2>1, <4>1 DEF ProgramShape
      <4>3. QED
        BY <2>2, <3>1, <4>2 DEF StreamOf
    <3>2. CASE d # c
      <4>1. /\ debug_peer'[d] = debug_peer[d] /\ debug_up'[d] = debug_up[d] /\ debug_wire'[d] = debug_wire[d]
            /\ debug_sent'[d] = debug_sent[d] /\ debug_shown'[d] = debug_shown[d]
            /\ \A u \in Printers : ~Writes(u, d) /\ ~Writes(u, d)'
        BY <2>1, <2>2, <3>2 DEF ProgramShape
      <4>2. QED
        BY <1>1, <1>5, <2>4, <4>1, StreamStays DEF Streams
    <3>3. QED
      BY <3>1, <3>2
  <2>5. QED
    BY <1>14, <2>1, <2>3, <2>4 DEF Streams, StreamInv
<1>12. CASE Loses(t)
  BY <1>1, <1>12 DEF Loses, SendersHaveLinks
<1>13. QED
  BY <1>6, <1>7, <1>8, <1>9, <1>10, <1>11, <1>12, <1>15 DEF Does

\* Links the console does not read from in a step.
LEMMA StreamWaits ==
  ASSUME NEW c \in Links, debug_peer[c] # "gone" => StreamOf(c), debug_peer'[c] # "gone" => debug_peer[c] # "gone",
         debug_wire'[c] = debug_wire[c], ReadOf(c)' = ReadOf(c), UNCHANGED <<debug_run, debug_slot, debug_up, debug_sent>>
  PROVE  debug_peer'[c] # "gone" => StreamOf(c)'
<1>1. SUFFICES ASSUME debug_peer'[c] # "gone" PROVE StreamOf(c)'
  OBVIOUS
<1>2. \A t \in Printers : Writes(t, c)' <=> Writes(t, c)
  BY DEF Writes
<1> HIDE DEF Writes, ReadOf
<1>3. QED
  BY <1>1, <1>2 DEF StreamOf

\* The link it reads from.
LEMMA StreamGoesOn ==
  ASSUME ProgramShape, ChannelShape, NEW c \in Links, NEW n \in Nat, Takes(c, n), StreamOf(c), ReadOf(c) \in Nat,
         ReadOf(c)' = ReadOf(c) + n, UNCHANGED <<debug_run, debug_slot, debug_up, debug_sent>>
  PROVE  StreamOf(c)'
<1> DEFINE rest == SubSeq(debug_wire[c], n + 1, Len(debug_wire[c]))
<1>1. /\ debug_wire[c] \in Seq(Words) /\ debug_sent[c] \in Seq(Nat) /\ n \in 0..Len(debug_wire[c])
      /\ Len(debug_wire[c]) \in Nat
  BY LenProperties DEF ChannelShape, ProgramShape, Takes
<1>2. debug_wire'[c] = rest
  BY DEF Takes, ChannelShape
<1>3. Len(rest) = Len(debug_wire[c]) - n
  BY <1>1, CutInTwo
<1>4. Continues(debug_wire[c], debug_sent[c], ReadOf(c))
  BY DEF StreamOf
<1>5. Continues(rest, debug_sent[c], ReadOf(c) + n)
  BY <1>1, <1>4, ContinuesBehind
<1> HIDE DEF rest
<1>6. ReadOf(c)' + Len(debug_wire'[c]) = ReadOf(c) + Len(debug_wire[c])
  BY <1>1, <1>2, <1>3
<1>7. Continues(debug_wire'[c], debug_sent'[c], ReadOf(c)')
  BY <1>2, <1>5
<1>8. \A t \in Printers : Writes(t, c)' <=> Writes(t, c)
  BY DEF Writes
<1> HIDE DEF Writes, ReadOf
<1>9. QED
  BY <1>6, <1>7, <1>8 DEF StreamOf

LEMMA ConsoleKeepsStreams ==
  ASSUME DebugAssumptions, LenWords = 1, ProgramShape, ChannelShape, LinkInv, StreamInv, ConsoleStep
  PROVE  StreamInv'
<1>0. /\ Ready /\ Begun /\ ShownWhole /\ Streams /\ Served /\ Queued /\ Fresh
      /\ UNCHANGED <<debug_run, debug_slot, debug_up, debug_sent>> /\ NoSock \notin Links
  BY DEF StreamInv, LinkInv, DebugAssumptions, ConsoleStep, Debug!Accept, Debug!Recv, Debug!EndOfLink, Debug!Restart,
         Debug!program
<1>1. Begun'
  BY <1>0 DEF Begun, Writes
<1>2. \A d \in Links : /\ debug_wire[d] \in Seq(Words) /\ debug_sent[d] \in Seq(Nat) /\ debug_shown[d] \in Seq(Nat)
                       /\ Len(debug_shown[d]) \in Nat /\ ReadOf(d) \in Nat /\ Len(debug_wire[d]) \in Nat
  BY LenProperties DEF ChannelShape, ProgramShape, ReadOf, Consoles
<1>3. CASE Debug!Accept
  <2>0. PICK c \in Links : c = Head(debug_backlog) /\ c = debug_backlog[1] /\ 1 \in 1..Len(debug_backlog)
    BY <1>3, BacklogInTwo DEF Debug!Accept
  <2>1. /\ debug_console' = [Debug!NoLink EXCEPT !.link = c] /\ debug_console.link = NoSock
        /\ debug_peer' = [debug_peer EXCEPT ![c] = "served"] /\ UNCHANGED <<debug_wire, debug_shown>>
    BY <1>3, <2>0 DEF Debug!Accept
  <2>2. debug_console'.link = c /\ debug_console'.got = 0 /\ ~debug_console'.lost
    BY <2>1, AcceptedIs
  <2>3. Ready'
    BY <2>2 DEF Ready
  <2>4. ShownWhole'
    BY <1>0, <2>1 DEF ShownWhole
  <2>5. debug_peer[c] = "waiting"
    BY <1>0, <2>0 DEF Queued
  <2>6. \A d \in Links : ReadOf(d)' = ReadOf(d)
    BY <1>0, <1>2, <2>1, <2>2 DEF ReadOf
  <2>7. \A d \in Links : debug_peer'[d] # "gone" => debug_peer[d] # "gone"
    BY <2>1, <2>5 DEF ChannelShape
  <2>8. Streams'
    BY <1>0, <2>1, <2>6, <2>7, StreamWaits DEF Streams
  <2>9. QED
    BY <1>1, <2>3, <2>4, <2>8 DEF StreamInv
\* The link is given up: nothing is asked of it any more.
<1>4. ASSUME NEW c \in Links, debug_console.link = c, debug_console' = Debug!NoLink,
             debug_peer' = [debug_peer EXCEPT ![c] = "gone"], debug_shown' = debug_shown,
             \A d \in Links \ {c} : debug_wire'[d] = debug_wire[d]
      PROVE  StreamInv'
  <2>1. Ready' /\ debug_console'.link = NoSock
    BY <1>4, NoLinkIs DEF Ready
  <2>2. ShownWhole'
    BY <1>0, <1>4 DEF ShownWhole
  <2>3. debug_peer'[c] = "gone" /\ \A d \in Links \ {c} : debug_peer'[d] = debug_peer[d]
    BY <1>4 DEF ChannelShape
  <2>4. \A d \in Links \ {c} : ReadOf(d)' = ReadOf(d)
    BY <1>0, <1>4, <2>1 DEF ReadOf
  <2>5. ASSUME NEW d \in Links, d # c PROVE debug_peer'[d] # "gone" => StreamOf(d)'
    BY <1>0, <1>4, <2>3, <2>4, <2>5, StreamWaits DEF Streams
  <2>6. QED
    BY <1>1, <2>1, <2>2, <2>3, <2>5 DEF Streams, StreamInv
<1>5. CASE Debug!Recv
  <2>1. PICK c \in Links, n \in Nat : Takes(c, n) /\ Reads(c, n)
    BY <1>0, <1>5, RecvReads
  <2>2. /\ debug_console.link = c /\ debug_peer[c] = "served" /\ n \in 1..Len(debug_wire[c])
        /\ n <= Debug!Wanted(debug_console.got) /\ ~debug_console.lost
    BY <1>0, <2>1 DEF Takes, Served, Ready
  <2>3. \A d \in Links \ {c} : debug_wire'[d] = debug_wire[d]
    BY <2>1 DEF Takes, ChannelShape
  <2>4. CASE HangsUp(c)
    BY <1>4, <2>3, <2>4 DEF HangsUp
  <2>5. CASE ~HangsUp(c)
    <3> DEFINE got == debug_console.got k == Len(debug_shown[c]) m == debug_sent[c][k + 1] w == debug_wire[c]
    <3>1. StreamOf(c) /\ got \in {0, 1, 3, 4} /\ debug_console \in Consoles
      BY <1>0, <2>2 DEF Streams, ChannelShape, Consoles
    <3>2. /\ w # << >> /\ ReadOf(c) = 5 * k + got /\ k \in Nat
          /\ Continues(w, debug_sent[c], 5 * k + got)
      <4>1. w # << >>
        BY <1>2, <2>2, EmptySeq
      <4>2. ReadOf(c) = 5 * k + got /\ k \in Nat
        BY <1>2, <2>2 DEF ReadOf
      <4>3. Continues(w, debug_sent[c], ReadOf(c))
        BY <3>1 DEF StreamOf
      <4> HIDE DEF k, got, w
      <4>4. QED
        BY <4>1, <4>2, <4>3
    <3>3. k + 1 \in 1..Len(debug_sent[c]) /\ \A j \in 1..Len(w) : got + j <= 5 => w[j] = <<m, got + j>>
      <4>1. /\ w \in Seq(Words) /\ debug_sent[c] \in Seq(Nat) /\ k \in Nat /\ got \in 0..4 /\ w # << >>
            /\ Continues(w, debug_sent[c], 5 * k + got)
        BY <1>2, <3>1, <3>2
      <4> HIDE DEF w, k, got
      <4>2. k + 1 \in 1..Len(debug_sent[c]) /\ \A j \in 1..Len(w) : got + j <= 5 => w[j] = <<debug_sent[c][k + 1], got + j>>
        BY <4>1, ContinuesFirst
      <4>3. QED
        BY <4>2
    <3>4. m \in Nat
      BY <1>2, <3>3, ElementOfSeq
    <3>5. ~Strays(c)
      <4>1. 1 \in 1..Len(w)
        BY <1>2, <2>2
      <4>2. got = 0 => w[1] = <<m, 1>>
        BY <3>3, <4>1
      <4>3. got = 0 => w[1][2] = 1
        BY <4>2
      <4>4. ASSUME Strays(c) PROVE FALSE
        <5>1. debug_console'.lost /\ debug_console'.link = c
          BY <4>4 DEF Strays
        <5>2. \/ debug_console'.lost = FALSE
              \/ debug_console.got = 0 /\ debug_wire[c][1][2] # 1
          <6>1. \/ debug_console.got = 0 /\ debug_wire[c][1][2] # 1
                \/ \E x, y : Has(c, x, y)
            BY <2>1, <2>2, <2>5 DEF Reads
          <6>2. QED
            BY <2>2, <6>1, HasIs
        <5>3. QED
          BY <4>3, <5>1, <5>2
      <4>5. QED
        BY <4>4
    <3>6. \/ got = 0 /\ n = 1 /\ Has(c, 1, debug_console.text) /\ debug_shown' = debug_shown
          \/ got = 1 /\ n = 2 /\ Has(c, 3, debug_console.text) /\ debug_shown' = debug_shown
          \/ got = 3 /\ n = 1 /\ Has(c, 4, Piece(c, n)) /\ debug_shown' = debug_shown
          \/ /\ got \in {3, 4} /\ n = 5 - got /\ Has(c, 0, << >>) /\ Len(Piece(c, n)) = 2 /\ Piece(c, n) \in Seq(Words)
             /\ debug_shown' = [debug_shown EXCEPT ![c] = Append(@, Debug!TextOf(Piece(c, n)))]
      <4>1. got = 0 => Debug!Wanted(got) = 1
        BY DEF Debug!Wanted
      <4>2. n \in Nat /\ n >= 1
        BY <1>2, <2>2
      <4>3. got = 0 => n = 1
        BY <2>2, <4>1, <4>2
      <4>4. got + n = 5 => n = 5 - got
        BY <3>1, <4>2
      <4>5. QED
        BY <2>1, <2>2, <2>5, <3>5, <4>3, <4>4 DEF Reads
    <3>7. /\ debug_console'.link = c /\ ~debug_console'.lost /\ UNCHANGED debug_peer
          /\ got = 0 => debug_console'.got = 1
          /\ got = 1 => debug_console'.got = 3
      BY <2>2, <3>6, HasIs
    <3>8. \A d \in Links \ {c} : debug_shown'[d] = debug_shown[d]
      BY <3>6 DEF ChannelShape
    <3>9. \A j \in 1..n : got + j <= 5 => w[j] = <<m, got + j>>
      BY <1>2, <2>2, <3>3
    \* The text is of one message.
    <3>10. \/ n = 5 - got /\ got \in {3, 4} /\ debug_console'.got = 0 /\ debug_shown'[c] = Append(debug_shown[c], m)
           \/ got = 3 /\ n = 1 /\ debug_console'.got = 4 /\ debug_console'.text[1] = <<m, 4>> /\ debug_shown' = debug_shown
           \/ got = 0 /\ n = 1 /\ debug_console'.got = 1 /\ debug_shown' = debug_shown
           \/ got = 1 /\ n = 2 /\ debug_console'.got = 3 /\ debug_shown' = debug_shown
      <4>1. CASE got = 3 /\ n = 1 /\ Has(c, 4, Piece(c, n)) /\ debug_shown' = debug_shown
        <5>1. debug_console'.text = Piece(c, n) /\ debug_console'.got = 4
          BY <4>1, HasIs
        <5>2. Len(debug_console.text) = 0
          BY <4>1 DEF ChannelShape
        <5>3. Piece(c, n)[1] = w[1]
          BY <2>2, <4>1, <5>2, PieceIs
        <5>4. w[1] = <<m, 4>>
          BY <3>9, <4>1
        <5>5. QED
          BY <4>1, <5>1, <5>3, <5>4
      <4>2. CASE /\ got \in {3, 4} /\ n = 5 - got /\ Has(c, 0, << >>)
                 /\ debug_shown' = [debug_shown EXCEPT ![c] = Append(@, Debug!TextOf(Piece(c, n)))]
        <5>1. debug_console'.got = 0
          BY <4>2, HasIs
        <5>2. Piece(c, n)[1] = <<m, 4>> /\ Piece(c, n)[2] = <<m, 5>>
          <6>1. CASE got = 3
            <7>1. Len(debug_console.text) = 0 /\ n = 2
              BY <4>2, <6>1 DEF ChannelShape
            <7>2. Piece(c, n)[1] = w[1] /\ Piece(c, n)[2] = w[2]
              BY <2>2, <7>1, PieceIs
            <7>3. w[1] = <<m, 4>> /\ w[2] = <<m, 5>>
              BY <3>9, <6>1, <7>1
            <7>4. QED
              BY <7>2, <7>3
          <6>2. CASE got = 4
            <7>1. Len(debug_console.text) = 1 /\ n = 1
              BY <4>2, <6>2 DEF ChannelShape
            <7>2. Piece(c, n)[1] = debug_console.text[1] /\ Piece(c, n)[2] = w[1]
              BY <2>2, <7>1, PieceIs
            <7>3. w[1] = <<m, 5>>
              BY <3>9, <6>2, <7>1
            <7>4. debug_console.text[1] = <<m, 4>>
              BY <1>0, <2>2, <6>2 DEF Ready
            <7>5. QED
              BY <7>2, <7>3, <7>4
          <6>3. QED
            BY <4>2, <6>1, <6>2
        <5>3. Debug!Size = 5
          BY DEF Debug!Size, Debug!TypeWords
        <5>4. Debug!TextOf(Piece(c, n)) = m
          <6> DEFINE x == Piece(c, n) y == m
          <6>1. x[1] = <<y, 4>> /\ x[2] = <<y, 5>>
            BY <5>2
          <6> HIDE DEF x, y
          <6>2. Debug!TextOf(x) = y
            BY <5>3, <6>1 DEF Debug!TextOf
          <6>3. QED
            BY <6>2 DEF x, y
        <5>5. debug_shown'[c] = Append(debug_shown[c], m)
          BY <4>2, <5>4 DEF ChannelShape
        <5>6. QED
          BY <4>2, <5>1, <5>5
      <4>3. QED
        BY <3>6, <3>7, <4>1, <4>2
    <3>11. ShownWhole'
      <4>1. CASE debug_shown' = debug_shown
        BY <1>0, <4>1 DEF ShownWhole
      <4>2. CASE debug_shown'[c] = Append(debug_shown[c], m)
        <5>1. /\ Len(debug_shown'[c]) = k + 1 /\ debug_shown'[c][k + 1] = m
              /\ \A j \in 1..k : debug_shown'[c][j] = debug_shown[c][j]
          BY <1>2, <3>4, <4>2, AppendProperties
        <5>2. ASSUME NEW d \in Links, NEW j \in 1..Len(debug_shown'[d])
              PROVE  j <= Len(debug_sent[d]) /\ debug_shown'[d][j] = debug_sent[d][j]
          <6>1. CASE d # c
            BY <1>0, <3>8, <5>2, <6>1 DEF ShownWhole
          <6>2. CASE d = c /\ j \in 1..k
            BY <1>0, <5>1, <6>2 DEF ShownWhole
          <6>3. CASE d = c /\ j = k + 1
            BY <1>2, <3>2, <3>3, <5>1, <6>3
          <6>4. QED
            BY <3>2, <5>1, <5>2, <6>1, <6>2, <6>3
        <5>3. QED
          BY <1>0, <5>2 DEF ShownWhole
      <4>3. QED
        BY <3>10, <4>1, <4>2
    <3>12. ReadOf(c)' = ReadOf(c) + n
      <4>1. ReadOf(c)' = 5 * Len(debug_shown'[c]) + debug_console'.got
        BY <3>7 DEF ReadOf
      <4>2. debug_shown'[c] = Append(debug_shown[c], m) => Len(debug_shown'[c]) = k + 1
        BY <1>2, <3>4, AppendProperties
      <4>3. debug_shown' = debug_shown => Len(debug_shown'[c]) = k
        OBVIOUS
      <4>4. got \in Int /\ k \in Int /\ ReadOf(c) = 5 * k + got
        BY <3>1, <3>2
      <4> HIDE DEF k, got, m
      <4>5. QED
        BY <3>10, <4>1, <4>2, <4>3, <4>4
    <3>13. Ready'
      <4>1. ASSUME NEW d \in Links, debug_console'.link = d, debug_console'.got = 4
            PROVE  debug_console'.text[1] = <<debug_sent[d][Len(debug_shown'[d]) + 1], 4>> /\ Len(debug_shown'[d]) < Len(debug_sent[d])
        <5>1. d = c /\ debug_console'.text[1] = <<m, 4>> /\ debug_shown' = debug_shown
          BY <3>7, <3>10, <4>1
        <5>2. k < Len(debug_sent[c])
          BY <1>2, <3>2, <3>3, LenProperties
        <5>3. QED
          BY <5>1, <5>2
      <4>2. QED
        BY <1>0, <3>7, <4>1 DEF Ready
    <3>14. \A d \in Links \ {c} : ReadOf(d)' = ReadOf(d)
      BY <2>2, <3>7, <3>8 DEF ReadOf
    <3>15. ASSUME NEW d \in Links, debug_peer'[d] # "gone" PROVE StreamOf(d)'
      <4>1. CASE d = c
        BY <1>0, <1>2, <2>1, <3>1, <3>12, <4>1, StreamGoesOn
      <4>2. CASE d # c
        BY <1>0, <2>3, <3>7, <3>14, <3>15, <4>2, StreamWaits DEF Streams
      <4>3. QED
        BY <4>1, <4>2
    <3>16. QED
      BY <1>1, <3>11, <3>13, <3>15 DEF Streams, StreamInv
  <2>6. QED
    BY <2>4, <2>5
<1>6. CASE Debug!EndOfLink
  <2>1. PICK c \in Links : c = debug_console.link
    BY <1>6 DEF Debug!EndOfLink, ChannelShape, Consoles
  <2>2. /\ debug_console' = Debug!NoLink /\ debug_peer' = [debug_peer EXCEPT ![c] = "gone"] /\ debug_shown' = debug_shown
        /\ debug_wire' = debug_wire
    BY <1>6, <2>1 DEF Debug!EndOfLink, Debug!HangUp
  <2>3. QED
    BY <1>4, <2>1, <2>2
<1>7. CASE Debug!Restart
  <2>1. debug_console' = Debug!NoLink /\ debug_shown' = debug_shown /\ debug_peer' = [c \in Links |-> "gone"]
    BY <1>7 DEF Debug!Restart
  <2>2. Ready' /\ ShownWhole' /\ Streams'
    BY <1>0, <2>1, NoLinkIs DEF Ready, ShownWhole, Streams
  <2>3. QED
    BY <1>1, <2>2 DEF StreamInv
<1>8. QED
  BY <1>3, <1>5, <1>6, <1>7 DEF ConsoleStep

-----------------------------------------------------------------------------
(* All of it.                                                              *)

DebugInv ==
  /\ ProgramShape /\ ChannelShape /\ LinkInv
  /\ ~debug_mixed => Alone
  /\ LenWords = 1 /\ ~debug_mixed => StreamInv

LEMMA DebugInitInv ==
  ASSUME DebugAssumptions, Debug!Init
  PROVE  DebugInv
<1>1. /\ << >> \in Seq(Words) /\ << >> \in Seq(Nat) /\ << >> \in Seq(Links) /\ Len(<< >>) = 0
      /\ Debug!Idle \in Runs /\ Debug!Idle.at = "idle" /\ NoSock \notin Links /\ Room \in Nat /\ MaxCalls \in Nat
  BY EmptySeq, IdleIs DEF DebugAssumptions
<1>2. /\ Debug!NoLink \in Consoles /\ Debug!NoLink.link = NoSock
      /\ Debug!NoLink.got = 0 /\ Len(Debug!NoLink.text) = 0 /\ ~Debug!NoLink.lost
  BY NoLinkIs
<1>3. /\ debug_run = [t \in Printers |-> Debug!Idle] /\ debug_slot = [i \in Debug!Slots |-> NoSock] /\ debug_file = "none"
      /\ debug_up = [c \in Links |-> "free"] /\ debug_peer = [c \in Links |-> "gone"]
      /\ debug_wire = [c \in Links |-> << >>] /\ debug_sent = [c \in Links |-> << >>] /\ debug_shown = [c \in Links |-> << >>]
      /\ debug_backlog = << >> /\ debug_console = Debug!NoLink /\ debug_mixed = FALSE /\ debug_broken = FALSE
      /\ debug_initDone = FALSE /\ debug_output \subseteq {"file", "socket"} /\ debug_calls = 0
  BY DEF Debug!Init
<1>4. ProgramShape
  <2>1. debug_run \in [Printers -> Runs] /\ \A t \in Printers : debug_run[t] = Debug!Idle
    BY <1>1, <1>3
  <2>2. debug_slot \in [Debug!Slots -> Links \cup {NoSock}] /\ debug_up \in [Links -> {"free", "open", "closed"}]
    BY <1>3
  <2>3. debug_sent \in [Links -> Seq(Nat)] /\ debug_calls \in 0..MaxCalls
    BY <1>1, <1>3
  <2>4. \A t \in Printers : debug_run[t].at # "store"
    BY <1>1, <2>1
  <2>5. QED
    BY <1>3, <2>1, <2>2, <2>3, <2>4 DEF ProgramShape
<1>5. ChannelShape
  BY <1>1, <1>2, <1>3 DEF ChannelShape
<1>6. LinkInv
  BY <1>1, <1>2, <1>3 DEF LinkInv, Served, Queued, Fresh, Used
<1>7. Alone
  <2>1. \A t \in Printers : debug_run[t].at = "idle"
    BY <1>1, <1>3
  <2>2. OneIn /\ FileKept /\ StoresNew /\ SendersHaveLinks
    BY <1>3, <2>1 DEF OneIn, FileKept, StoresNew, SendersHaveLinks, Sending
  <2>3. SlotsOpen /\ SlotsDiffer /\ OpenKnown
    BY <1>3 DEF SlotsOpen, SlotsDiffer, OpenKnown
  <2>4. QED
    BY <2>2, <2>3 DEF Alone, SlotInv
<1>8. StreamInv
  <2>1. Ready /\ ShownWhole /\ Streams
    BY <1>1, <1>2, <1>3 DEF Ready, ShownWhole, Streams
  <2>2. Begun
    BY <1>1, <1>3 DEF Begun, Writes, Sending
  <2>3. QED
    BY <2>1, <2>2 DEF StreamInv
<1>9. QED
  BY <1>4, <1>5, <1>6, <1>7, <1>8 DEF DebugInv

LEMMA DebugStepInv ==
  ASSUME DebugAssumptions, DebugInv, [Debug!Next]_(Debug!vars)
  PROVE  DebugInv'
<1>0. /\ ProgramShape /\ ChannelShape /\ LinkInv
      /\ ~debug_mixed => Alone
      /\ LenWords = 1 /\ ~debug_mixed => StreamInv
  BY DEF DebugInv
<1>1. ASSUME NEW t \in Printers, Debug!Call(t) \/ Debug!Thread(t) \/ Debug!ShortSend(t)
      PROVE  DebugInv'
  <2>1. Seen(t) /\ Does(t) /\ RestTyped
    BY <1>0, <1>1, CallDoes, ThreadDoes DEF Does
  <2>2. ProgramShape' /\ ChannelShape'
    BY <1>0, <2>1, DoesKeepsShape
  <2>3. LinkInv'
    BY <1>0, <2>1, DoesKeepsLinks
  <2>4. ~debug_mixed' => ~debug_mixed
    BY <2>1 DEF Seen
  <2>5. ~debug_mixed' => Alone'
    BY <1>0, <2>1, <2>4, DoesKeepsAlone
  <2>6. LenWords = 1 /\ ~debug_mixed' => StreamInv'
    BY <1>0, <2>1, <2>4, DoesKeepsStreams
  <2>7. QED
    BY <2>2, <2>3, <2>5, <2>6 DEF DebugInv
<1>2. CASE ConsoleStep
  <2>1. ProgramShape' /\ ChannelShape'
    BY <1>0, <1>2, ConsoleKeepsShape
  <2>2. LinkInv'
    BY <1>0, <1>2, ConsoleKeepsLinks
  <2>3. UNCHANGED Debug!program
    BY <1>2 DEF ConsoleStep, Debug!Accept, Debug!Recv, Debug!EndOfLink, Debug!Restart
  <2>4. Alone' = Alone /\ debug_mixed' = debug_mixed
    BY <2>3 DEF Debug!program, Alone, OneIn, FileKept, SlotInv, SlotsOpen, SlotsDiffer, StoresNew, OpenKnown, SendersHaveLinks
  <2>5. LenWords = 1 /\ ~debug_mixed' => StreamInv'
    BY <1>0, <1>2, <2>4, ConsoleKeepsStreams
  <2>6. QED
    BY <1>0, <2>1, <2>2, <2>4, <2>5 DEF DebugInv
<1>3. CASE UNCHANGED Debug!vars
  <2>1. /\ ProgramShape' = ProgramShape /\ ChannelShape' = ChannelShape /\ LinkInv' = LinkInv /\ debug_mixed' = debug_mixed
    BY <1>3 DEF Debug!vars, ProgramShape, ChannelShape, LinkInv, Served, Queued, Fresh, Used
  <2>2. Alone' = Alone
    BY <1>3 DEF Debug!vars, Alone, OneIn, FileKept, SlotInv, SlotsOpen, SlotsDiffer, StoresNew, OpenKnown, SendersHaveLinks
  <2>3. StreamInv' = StreamInv
    BY <1>3 DEF Debug!vars, StreamInv, Ready, Begun, ShownWhole, Streams, StreamOf, Writes, ReadOf
  <2>4. QED
    BY <1>0, <2>1, <2>2, <2>3 DEF DebugInv
<1>4. QED
  BY <1>1, <1>2, <1>3 DEF Debug!Next, ConsoleStep

\* A link is in one slot, or is about to be: none, one or the other.
LEMMA LinksAreInSlots ==
  ASSUME DebugAssumptions, DebugInv
  PROVE  Debug!LinksInSlots
<1> SUFFICES ASSUME ~debug_mixed, NEW c \in Links
             PROVE  LET in == {i \in Debug!Slots : debug_slot[i] = c}
                        new == {t \in Printers : debug_run[t].at = "store" /\ debug_run[t].new = c}
                    IN /\ Cardinality(in) + Cardinality(new) = (IF debug_up[c] = "open" THEN 1 ELSE 0)
                       /\ \A t \in new : debug_slot[debug_run[t].i] = NoSock
  <2>1. \A S : Debug!Cardinality(S) = Cardinality(S)
    BY DEF Debug!Cardinality, Cardinality
  <2>2. QED
    BY <2>1 DEF Debug!LinksInSlots
<1> DEFINE in == {i \in Debug!Slots : debug_slot[i] = c}
           new == {t \in Printers : debug_run[t].at = "store" /\ debug_run[t].new = c}
<1>1. /\ OneIn /\ SlotsOpen /\ SlotsDiffer /\ StoresNew /\ OpenKnown
  BY DEF DebugInv, Alone, SlotInv
<1>2. c # NoSock
  BY DEF DebugAssumptions
<1>3. \A t \in new : debug_slot[debug_run[t].i] = NoSock
  BY <1>1 DEF StoresNew
<1>4. Cardinality({}) = 0 /\ \A x : Cardinality({x}) = 1
  BY FS_EmptySet, FS_Singleton
<1>5. CASE debug_up[c] # "open"
  <2>1. in = {} /\ new = {}
    BY <1>1, <1>2, <1>5 DEF SlotsOpen, StoresNew
  <2>2. QED
    BY <1>3, <1>4, <1>5, <2>1
<1>6. CASE \E i \in Debug!Slots : debug_slot[i] = c
  <2>1. PICK i \in Debug!Slots : debug_slot[i] = c
    BY <1>6
  <2>2. in = {i} /\ new = {} /\ debug_up[c] = "open"
    BY <1>1, <1>2, <2>1 DEF SlotsOpen, SlotsDiffer, StoresNew
  <2>3. QED
    BY <1>3, <1>4, <2>2
<1>7. CASE debug_up[c] = "open" /\ \A i \in Debug!Slots : debug_slot[i] # c
  <2>1. PICK t \in Printers : debug_run[t].at = "store" /\ debug_run[t].new = c
    BY <1>1, <1>7 DEF OpenKnown
  <2>2. \A u \in new : u = t
    BY <1>1, <2>1 DEF OneIn
  <2>3. in = {} /\ new = {t}
    <3>1. in = {}
      BY <1>7
    <3>2. t \in new
      BY <2>1
    <3> HIDE DEF new
    <3>3. QED
      BY <2>2, <3>1, <3>2
  <2>4. Cardinality(in) = 0 /\ Cardinality(new) = 1
    <3> HIDE DEF in, new
    <3>1. QED
      BY <1>4, <2>3
  <2>5. QED
    BY <1>3, <1>7, <2>4
<1>8. QED
  BY <1>5, <1>6, <1>7

\* The texts shown are the first of the messages that were begun.
LEMMA TextsAreWhole ==
  ASSUME DebugInv, LenWords = 1
  PROVE  Debug!WholeUnlessMixed
<1> SUFFICES ASSUME ~debug_mixed
             PROVE  ~debug_broken /\ ~debug_console.lost /\ \A c \in Links : Debug!IsPrefix(debug_shown[c], debug_sent[c])
  BY DEF Debug!WholeUnlessMixed
<1>1. FileKept /\ Ready /\ ShownWhole
  BY DEF DebugInv, Alone, StreamInv
<1>2. ~debug_broken /\ ~debug_console.lost
  BY <1>1 DEF FileKept, Ready
<1>3. ASSUME NEW c \in Links
      PROVE  Debug!IsPrefix(debug_shown[c], debug_sent[c])
  <2> DEFINE q == debug_shown[c] n == Len(q) s == debug_sent[c]
  <2>1. q \in Seq(Nat) /\ n \in Nat /\ s \in Seq(Nat) /\ Len(s) \in Nat
    BY LenProperties DEF DebugInv, ChannelShape, ProgramShape
  <2>2. \A k \in 1..n : k <= Len(s) /\ q[k] = s[k]
    BY <1>1 DEF ShownWhole
  <2>3. n <= Len(s)
    <3>1. n = 0 \/ n \in 1..n
      BY <2>1
    <3>2. QED
      BY <2>1, <2>2, <3>1
  <2> HIDE DEF q, s
  <2>4. /\ SubSeq(q, 1, n) \in Seq(Nat) /\ Len(SubSeq(q, 1, n)) = n /\ \A k \in 1..n : SubSeq(q, 1, n)[k] = q[k]
        /\ SubSeq(s, 1, n) \in Seq(Nat) /\ Len(SubSeq(s, 1, n)) = n /\ \A k \in 1..n : SubSeq(s, 1, n)[k] = s[k]
    <3>1. n \in 0..Len(s) /\ n \in 0..Len(q)
      BY <2>1, <2>3
    <3>2. QED
      BY <2>1, <3>1, CutInTwo
  <2>5. SubSeq(q, 1, n) = SubSeq(s, 1, n)
    <3>1. \A k \in 1..n : SubSeq(q, 1, n)[k] = SubSeq(s, 1, n)[k]
      BY <2>2, <2>4
    <3> HIDE DEF n
    <3>2. QED
      BY <2>4, <3>1, SeqEqual
  <2>6. Debug!IsPrefix(q, s)
    BY <2>3, <2>5 DEF Debug!IsPrefix
  <2>7. QED
    BY <2>6 DEF q, s
<1>4. QED
  BY <1>2, <1>3

LEMMA DebugInvTypes ==
  ASSUME DebugInv
  PROVE  Debug!TypeOK
<1>0. ProgramShape /\ ChannelShape
  BY DEF DebugInv
<1>1. Debug!ToSet(debug_backlog) \subseteq Links
  BY <1>0, LenProperties, ElementOfSeq DEF ChannelShape, Debug!ToSet
<1>2. QED
  BY <1>0, <1>1 DEF ProgramShape, ChannelShape, Runs, Consoles, Sending, Debug!TypeOK

-----------------------------------------------------------------------------
(* All parts, of which one moves.                                          *)

\* A part moves by its own steps only.
LEMMA OnePartMoves ==
  ASSUME [PartsNext]_partsVars
  PROVE  /\ part' = part
         /\ part = "debug" => [Debug!Next]_(Debug!vars)
         /\ IF part = "sem" THEN [Next]_vars ELSE UNCHANGED vars
         /\ part = "tcp" => [Tcp!Next]_(Tcp!vars)
         /\ part = "reg" => [Reg!Next]_(Reg!vars)
<1>1. CASE UNCHANGED partsVars
  BY <1>1 DEF partsVars, debugVars, tcpVars, regVars, Debug!vars, Tcp!vars, Reg!vars
<1>2. CASE PartsNext
  BY <1>2 DEF PartsNext, OthersStay
<1>3. QED
  BY <1>1, <1>2

\* The same of the part that moves bytes in PartsSpec.
THEOREM BytesComeInOrder ==
  ASSUME TcpAssumptions
  PROVE  PartsSpec => []BytesInOrder
<1> DEFINE Inv == part = "tcp" => TcpInv
<1>1. PartsInit => Inv
  BY TcpInitInv DEF PartsInit
<1>2. Inv /\ [PartsNext]_partsVars => Inv'
  BY OnePartMoves, TcpStepInv
<1>3. Inv => BytesInOrder
  BY TcpInvMeans DEF BytesInOrder
<1> HIDE DEF Inv
<1>4. QED
  BY <1>1, <1>2, <1>3, PTL DEF PartsSpec

\* RegistryFileProofs, of the same state.
RegP == INSTANCE RegistryFileProofs WITH
  file <- reg_file, head <- reg_head, rest <- reg_rest, lock <- reg_lock, at <- reg_at, tree <- reg_tree, done <- reg_done,
  excuse <- reg_excuse

LEMMA SameInit ==
  ASSUME Reg!Init
  PROVE  RegP!Init
  BY DEF Reg!Init, RegP!Init

LEMMA SameStep ==
  ASSUME [Reg!Next]_(Reg!vars)
  PROVE  [RegP!Next]_(RegP!vars)
<1>1. CASE UNCHANGED Reg!vars
  BY <1>1 DEF Reg!vars, RegP!vars
<1>2. CASE Reg!Next
  <2>1. PICK p \in Procs :
          \/ Reg!OpenExisting(p) \/ Reg!OpenMissing(p) \/ Reg!Create(p) \/ Reg!LockFound(p) \/ Reg!LockMade(p) \/ Reg!LockFails(p)
          \/ Reg!LoadWhole(p) \/ Reg!LoadTorn(p) \/ Reg!LoadEmpty(p) \/ Reg!DieFailed(p) \/ Reg!Set(p) \/ Reg!Write(p)
          \/ Reg!Unlock(p) \/ Reg!Fclose(p) \/ Reg!Crash(p)
    BY <1>2 DEF Reg!Next
  <2>2. \/ RegP!OpenExisting(p) \/ RegP!OpenMissing(p) \/ RegP!Create(p) \/ RegP!LockFound(p) \/ RegP!LockMade(p) \/ RegP!LockFails(p)
        \/ RegP!LoadWhole(p) \/ RegP!LoadTorn(p) \/ RegP!LoadEmpty(p) \/ RegP!DieFailed(p) \/ RegP!Set(p) \/ RegP!Write(p)
        \/ RegP!Unlock(p) \/ RegP!Fclose(p) \/ RegP!Crash(p)
    <3>1. CASE Reg!OpenExisting(p) BY <3>1 DEF Reg!OpenExisting, RegP!OpenExisting, Reg!Go, RegP!Go, Reg!fileVars, RegP!fileVars
    <3>2. CASE Reg!OpenMissing(p) BY <3>2 DEF Reg!OpenMissing, RegP!OpenMissing, Reg!Go, RegP!Go, Reg!fileVars, RegP!fileVars
    <3>3. CASE Reg!Create(p) BY <3>3 DEF Reg!Create, RegP!Create, Reg!Go, RegP!Go, Reg!Excused, RegP!Excused
    <3>4. CASE Reg!LockFound(p)
      BY <3>4 DEF Reg!LockFound, RegP!LockFound, Reg!Lock, RegP!Lock, Reg!LockFree, RegP!LockFree, Reg!Go, RegP!Go, Reg!Excused, RegP!Excused, Reg!fileVars, RegP!fileVars
    <3>5. CASE Reg!LockMade(p)
      BY <3>5 DEF Reg!LockMade, RegP!LockMade, Reg!Lock, RegP!Lock, Reg!LockFree, RegP!LockFree, Reg!Go, RegP!Go, Reg!Excused, RegP!Excused, Reg!fileVars, RegP!fileVars
    <3>6. CASE Reg!LockFails(p)
      BY <3>6 DEF Reg!LockFails, RegP!LockFails, Reg!LockFree, RegP!LockFree, Reg!Go, RegP!Go, Reg!fileVars, RegP!fileVars
    <3>7. CASE Reg!LoadWhole(p) BY <3>7 DEF Reg!LoadWhole, RegP!LoadWhole, Reg!Go, RegP!Go, Reg!fileVars, RegP!fileVars
    <3>8. CASE Reg!LoadTorn(p) BY <3>8 DEF Reg!LoadTorn, RegP!LoadTorn, Reg!Go, RegP!Go, Reg!End, RegP!End, Reg!fileVars, RegP!fileVars
    <3>9. CASE Reg!LoadEmpty(p) BY <3>9 DEF Reg!LoadEmpty, RegP!LoadEmpty, Reg!Go, RegP!Go, Reg!fileVars, RegP!fileVars
    <3>10. CASE Reg!DieFailed(p) BY <3>10 DEF Reg!DieFailed, RegP!DieFailed, Reg!End, RegP!End, Reg!fileVars, RegP!fileVars
    <3>11. CASE Reg!Set(p) BY <3>11 DEF Reg!Set, RegP!Set, Reg!fileVars, RegP!fileVars
    <3>12. CASE Reg!Write(p) BY <3>12 DEF Reg!Write, RegP!Write, Reg!Go, RegP!Go, Reg!Full, RegP!Full, Reg!Excused, RegP!Excused
    <3>13. CASE Reg!Unlock(p) BY <3>13 DEF Reg!Unlock, RegP!Unlock, Reg!Go, RegP!Go, Reg!fileVars, RegP!fileVars
    <3>14. CASE Reg!Fclose(p)
      BY <3>14 DEF Reg!Fclose, RegP!Fclose, Reg!Go, RegP!Go, Reg!Full, RegP!Full, Reg!Excused, RegP!Excused, Reg!fileVars, RegP!fileVars
    <3>15. CASE Reg!Crash(p) BY <3>15 DEF Reg!Crash, RegP!Crash, Reg!End, RegP!End, Reg!Excused, RegP!Excused, Reg!fileVars, RegP!fileVars
    <3>16. QED BY <2>1, <3>1, <3>2, <3>3, <3>4, <3>5, <3>6, <3>7, <3>8, <3>9, <3>10, <3>11, <3>12, <3>13, <3>14, <3>15
  <2>3. QED BY <2>2 DEF RegP!Next
<1>3. QED
  BY <1>1, <1>2

\* What RegistryFileProofs proves of processes that share a registry file, of the part that is one in PartsSpec.
THEOREM SettingsAreKeptUnlessExcused ==
  ASSUME Nobody \notin Procs, Big \in BOOLEAN, Start \subseteq {"none", "written"}
  PROVE  PartsSpec => []KeptUnlessExcused
<1> DEFINE Inv == part = "reg" => RegP!IInv
<1>0. RegP!Assumptions
  BY DEF RegP!Assumptions
<1>1. PartsInit => Inv
  BY <1>0, SameInit, RegP!InitIInv DEF PartsInit
<1>2. Inv /\ [PartsNext]_partsVars => Inv'
  BY <1>0, OnePartMoves, SameStep, RegP!StepKeepsIInv
<1>3. Inv => KeptUnlessExcused
  BY DEF KeptUnlessExcused, Reg!KeptUnlessExcused, Reg!Quiet, RegP!IInv, RegP!FileKeeps, RegP!Closing
<1> HIDE DEF Inv
<1>4. QED
  BY <1>1, <1>2, <1>3, PTL DEF PartsSpec

\* No connection of the debug channel leaks or is in two slots while no two threads are in the channel, whatever the slots, the links, the calls
\* and the room of the network.
THEOREM LinksStayInSlots ==
  ASSUME DebugAssumptions
  PROVE  PartsSpec => []LinksInSlots
<1> DEFINE Inv == part = "debug" => DebugInv
<1>1. PartsInit => Inv
  BY DebugInitInv DEF PartsInit
<1>2. Inv /\ [PartsNext]_partsVars => Inv'
  BY OnePartMoves, DebugStepInv
<1>3. Inv => LinksInSlots
  BY LinksAreInSlots DEF LinksInSlots
<1> HIDE DEF Inv
<1>4. QED
  BY <1>1, <1>2, <1>3, PTL DEF PartsSpec

\* What a console shows is the first of the messages sent to it, whole and in order, while no two threads are in the channel: on a build whose
\* size_t has 32 bits, as the SU_u32 the console reads for it. Nothing is said of a build with another size_t: MCDebugLink64.cfg shows that
\* there no message comes through.
THEOREM MessagesAreWholeOn32Bits ==
  ASSUME DebugAssumptions, LenWords = 1
  PROVE  PartsSpec => []WholeUnlessMixed
<1> DEFINE Inv == part = "debug" => DebugInv
<1>1. PartsInit => Inv
  BY DebugInitInv DEF PartsInit
<1>2. Inv /\ [PartsNext]_partsVars => Inv'
  BY OnePartMoves, DebugStepInv
<1>3. Inv => WholeUnlessMixed
  BY TextsAreWhole DEF WholeUnlessMixed
<1> HIDE DEF Inv
<1>4. QED
  BY <1>1, <1>2, <1>3, PTL DEF PartsSpec

\* All parts keep their types, each by its own invariant.
THEOREM PartsKeepTypes ==
  ASSUME DebugAssumptions, Assumptions, TcpAssumptions, Nobody \notin Procs, Big \in BOOLEAN,
         Start \subseteq {"none", "written"}
  PROVE  PartsSpec => []PartsTyped
<1> DEFINE Inv == /\ part = "debug" => DebugInv
                  /\ part = "sem" => TokenInv
                  /\ part = "tcp" => TcpInv
                  /\ part = "reg" => RegP!IInv
<1>0. RegP!Assumptions
  BY DEF RegP!Assumptions
<1>1. PartsInit => Inv
  BY <1>0, DebugInitInv, InitTokenInv, TcpInitInv, SameInit, RegP!InitIInv DEF PartsInit
<1>2. Inv /\ [PartsNext]_partsVars => Inv'
  BY <1>0, OnePartMoves, DebugStepInv, StepKeepsTokens, TcpStepInv, SameStep, RegP!StepKeepsIInv
<1>3. Inv => PartsTyped
  <2>1. TcpInv => Tcp!TypeOK
    BY DEF TcpInv, TcpShape, Senders, Readers, Tcp!TypeOK
  <2>2. RegP!IInv => Reg!TypeOK
    BY DEF RegP!IInv, RegP!TypeOK, Reg!TypeOK
  <2>3. QED
    BY <2>1, <2>2, DebugInvTypes DEF PartsTyped, TokenInv
<1> HIDE DEF Inv
<1>4. QED
  BY <1>1, <1>2, <1>3, PTL DEF PartsSpec

=============================================================================
