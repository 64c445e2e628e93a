----------------------------- MODULE ByteQueue -----------------------------
(***************************************************************************)
(* What a growing buffer promises to a serializer: a queue of bytes.       *)
(* Bytes are appended at the end and consumed at the front; room can be    *)
(* reserved at the end, to be filled in later.  A reserved byte that has   *)
(* not been filled in is a Hole: nothing is said about what it reads as.   *)
(*                                                                         *)
(* There is no allocated size here, no growth and no memory.               *)
(***************************************************************************)
EXTENDS Naturals, Sequences

CONSTANTS Byte,   \* the values a byte can take
          Hole    \* a reserved byte nobody has written yet

VARIABLE bytes    \* the queue, oldest byte first

Init == bytes = << >>

Enqueue(data) == bytes' = bytes \o data

Reserve(len) == bytes' = bytes \o [i \in 1..len |-> Hole]

\* The bytes from position at + 1 on are replaced, inside the queue.
Fill(at, data) ==
  /\ at + Len(data) <= Len(bytes)
  /\ bytes' = [i \in DOMAIN bytes |->
                 IF i \in (at + 1)..(at + Len(data)) THEN data[i - at] ELSE bytes[i]]

Consume(len) ==
  /\ len <= Len(bytes)
  /\ bytes' = SubSeq(bytes, len + 1, Len(bytes))

Clear == bytes' = << >>

Next ==
  \/ \E data \in Seq(Byte) : Enqueue(data)
  \/ \E len \in Nat : Reserve(len)
  \/ \E at \in Nat, data \in Seq(Byte) : Fill(at, data)
  \/ \E len \in Nat : Consume(len)
  \/ Clear

Spec == Init /\ [][Next]_bytes
=============================================================================
