-------------------------- MODULE SkyBufferProofs --------------------------
(***************************************************************************)
(* Proofs about SkyBuffer, for every set of bytes, every default size and  *)
(* every bound: the buffer's position stays inside the block, the client   *)
(* never meets memory nobody wrote, and the buffer implements ByteQueue.   *)
(***************************************************************************)
EXTENDS SkyBuffer, SequenceTheorems, TLAPS

\* The inductive invariant: the three checked ones, and what an object that
\* does not exist yet looks like (SU_BF_Alloc does not touch the ghosts and
\* takes no room away).
IInv ==
  /\ TypeOK
  /\ WithinAllocation
  /\ NoForeignByte
  /\ life = "none" => pos = 0 /\ size = 0
  /\ call # Idle => life = "ready"

\* A chunk is a sequence of bytes of its own length.
LEMMA ChunkIsSequence ==
  ASSUME NEW d \in Chunks
  PROVE  /\ Len(d) \in Nat
         /\ d \in [1..Len(d) -> Byte]
         /\ d \in Seq(Byte)
<1>1. PICK n \in 0..MaxChunk : d \in [1..n -> Byte]
  BY DEF Chunks, Chunk
<1>2. n \in Nat
  BY SkyBufferAssumption
<1>3. QED
  BY <1>1, <1>2

\* The call in progress has a length that agrees with its data.
LEMMA CallTyped ==
  ASSUME call \in Calls
  PROVE  /\ call.len \in Nat
         /\ call.op = "add" => call.data \in Chunks /\ call.len = Len(call.data)
         /\ call.op = "reserve" => call.len \in 0..MaxChunk
<1>1. CASE call = Idle
  BY <1>1 DEF Idle
<1>2. ASSUME NEW d \in Chunks, call = AddCall(d)
      PROVE  /\ call.len \in Nat
             /\ call.op = "add" => call.data \in Chunks /\ call.len = Len(call.data)
             /\ call.op # "reserve"
  BY <1>2, ChunkIsSequence DEF AddCall
<1>3. ASSUME NEW n \in 0..MaxChunk, call = ReserveCall(n)
      PROVE  /\ call.len \in Nat /\ call.len \in 0..MaxChunk
             /\ call.op # "add"
  BY <1>3, SkyBufferAssumption DEF ReserveCall
<1>4. QED
  BY <1>1, <1>2, <1>3 DEF Calls

\* SU_BF_Realloc asked for at least the position: the block stays as large
\* as the bytes in use, and it keeps them.
LEMMA ReallocKeeps ==
  ASSUME TypeOK, WithinAllocation,
         NEW requested \in Nat, pos <= requested, Realloc(requested)
  PROVE  /\ size' \in Nat /\ pos <= size'
         /\ mem' \in [1..size' -> Cell]
         /\ \A i \in 1..pos : mem'[i] = mem[i]
<1>1. PICK n \in NewSizes(requested) : size' = n /\ mem' = Resized(mem, size, n)
  BY DEF Realloc
<1>2. n \in Nat /\ pos <= n
  BY SkyBufferAssumption DEF NewSizes, TypeOK, WithinAllocation
<1>3. QED
  BY <1>1, <1>2 DEF Resized, TypeOK, WithinAllocation, Cell

\* memcpy inside the bytes in use changes the cells it covers and no other.
LEMMA OverlaidCells ==
  ASSUME NEW n \in Nat, NEW m \in [1..n -> Cell],
         NEW at \in Nat, NEW d \in Chunks
  PROVE  /\ Overlaid(m, at, d) \in [1..n -> Cell]
         /\ \A i \in 1..n : Overlaid(m, at, d)[i] =
              IF i \in (at + 1)..(at + Len(d)) THEN d[i - at] ELSE m[i]
         /\ \A i \in (at + 1)..(at + Len(d)) : i - at \in 1..Len(d) /\ d[i - at] \in Byte
<1>1. Len(d) \in Nat /\ d \in [1..Len(d) -> Byte]
  BY ChunkIsSequence
<1>2. \A i \in (at + 1)..(at + Len(d)) : i - at \in 1..Len(d) /\ d[i - at] \in Byte
  BY <1>1
<1>3. \A i \in 1..n :
        (IF i \in (at + 1)..(at + Len(d)) THEN d[i - at] ELSE m[i]) \in Cell
  BY <1>2 DEF Cell
<1>4. QED
  BY <1>2, <1>3 DEF Overlaid

LEMMA IdleIsCall == Idle \in Calls
BY DEF Calls

LEMMA FreshTyped ==
  ASSUME NEW n \in Nat
  PROVE  Fresh(n) \in [1..n -> Cell]
BY DEF Fresh, Cell

LEMMA InitIInv == Init => IInv
<1> SUFFICES ASSUME Init PROVE IInv
  OBVIOUS
<1>1. mem \in [1..size -> Cell]
  BY FreshTyped, 0 \in Nat DEF Init
<1>2. TypeOK
  BY <1>1, IdleIsCall DEF Init, TypeOK
<1>3. WithinAllocation
  BY DEF Init, WithinAllocation
<1>4. NoForeignByte
  BY DEF Init, NoForeignByte
<1>5. QED
  BY <1>2, <1>3, <1>4 DEF Init, IInv

\* Growth, forced or not, disturbs nothing the invariant speaks of.
LEMMA GrowthKeepsIInv ==
  ASSUME IInv, life = "ready",
         NEW requested \in Nat, pos <= requested, Realloc(requested),
         UNCHANGED <<life, pos, delegate, call, ghosts>>
  PROVE  IInv'
<1>1. /\ size' \in Nat /\ pos <= size'
      /\ mem' \in [1..size' -> Cell]
      /\ \A i \in 1..pos : mem'[i] = mem[i]
  BY ReallocKeeps DEF IInv
<1>2. TypeOK'
  BY <1>1 DEF IInv, TypeOK, ghosts, Calls, Cell
<1>3. WithinAllocation'
  BY <1>1 DEF IInv, WithinAllocation, ghosts
<1>4. NoForeignByte'
  BY <1>1 DEF IInv, NoForeignByte, ghosts, TypeOK
<1>5. QED
  BY <1>2, <1>3, <1>4 DEF IInv

LEMMA ReserveKeepsIInv == IInv /\ BF_ReserveBytes => IInv'
<1> SUFFICES ASSUME IInv, BF_ReserveBytes PROVE IInv'
  OBVIOUS
<1> DEFINE new == [at |-> pos, len |-> call.len]
<1>1. call.len \in Nat /\ call # Idle
  BY CallTyped DEF IInv, TypeOK, BF_ReserveBytes, Idle
<1>2. pos \in Nat /\ size \in Nat /\ pos' = pos + call.len /\ pos' <= size
  BY <1>1 DEF BF_ReserveBytes, NoRoom, IInv, TypeOK
<1>3. reserved' = reserved \cup {new}
  BY DEF BF_ReserveBytes
<1>4. \A r \in reserved : r.at \in Nat /\ r.len \in Nat /\ r.at + r.len <= pos
  BY DEF IInv, TypeOK, WithinAllocation
<1>5. new.at = pos /\ new.len = call.len /\ new \in [at : Nat, len : Nat]
  BY <1>1, <1>2
<1> HIDE DEF new
<1>6. holes' \subseteq 1..pos'
  <2>1. holes \subseteq 1..pos
    BY DEF IInv, WithinAllocation
  <2>2. holes' = holes \cup (pos + 1)..(pos + call.len)
    BY DEF BF_ReserveBytes
  <2>3. ASSUME NEW i \in holes' PROVE i \in 1..pos'
    <3>1. i \in holes \/ i \in (pos + 1)..(pos + call.len)
      BY <2>2, <2>3
    <3>2. CASE i \in holes
      BY <1>1, <1>2, <2>1, <3>2
    <3>3. CASE i \in (pos + 1)..(pos + call.len)
      BY <1>1, <1>2, <3>3
    <3>4. QED
      BY <3>1, <3>2, <3>3
  <2>4. QED
    BY <2>3
<1>7. TypeOK'
  <2>1. reserved' \subseteq [at : Nat, len : Nat]
    BY <1>3, <1>5 DEF IInv, TypeOK
  <2>2. call' \in Calls
    BY IdleIsCall DEF BF_ReserveBytes
  <2>3. pos' \in Nat /\ holes' \subseteq Nat \ {0}
    BY <1>1, <1>2, <1>6
  <2>4. QED
    BY <2>1, <2>2, <2>3 DEF BF_ReserveBytes, IInv, TypeOK
<1>8. WithinAllocation'
  <2>1. \A r \in reserved' : r.at + r.len <= pos'
    BY <1>1, <1>2, <1>3, <1>4, <1>5
  <2>2. pos' <= size'
    BY <1>2 DEF BF_ReserveBytes
  <2>3. QED
    BY <1>6, <2>1, <2>2 DEF WithinAllocation
<1>9. NoForeignByte'
  <2>1. ASSUME NEW r \in reserved', NEW s \in reserved', r # s
        PROVE  (r.at + 1)..(r.at + r.len) \cap (s.at + 1)..(s.at + s.len) = {}
    <3>1. CASE r \in reserved /\ s \in reserved
      BY <2>1, <3>1 DEF IInv, NoForeignByte
    <3>2. CASE r \in reserved /\ s = new
      BY <1>1, <1>2, <1>4, <1>5, <3>2
    <3>3. CASE s \in reserved /\ r = new
      BY <1>1, <1>2, <1>4, <1>5, <3>3
    <3>4. QED
      BY <1>3, <2>1, <3>1, <3>2, <3>3
  <2>2. ASSUME NEW i \in 1..pos', i \notin holes' PROVE mem'[i] \in Byte
    BY <1>1, <1>2, <2>2 DEF BF_ReserveBytes, IInv, NoForeignByte
  <2>3. QED
    BY <2>1, <2>2 DEF NoForeignByte
<1>10. QED
  BY <1>1, <1>7, <1>8, <1>9 DEF IInv, BF_ReserveBytes

LEMMA AddKeepsIInv == IInv /\ BF_AddToBuffer => IInv'
<1> SUFFICES ASSUME IInv, BF_AddToBuffer PROVE IInv'
  OBVIOUS
<1> DEFINE data == call.data
           written == Overlaid(mem, pos, data)
<1>1. call.len \in Nat /\ call # Idle /\ data \in Chunks /\ call.len = Len(data)
  BY CallTyped DEF IInv, TypeOK, BF_AddToBuffer, Idle
<1>2. /\ pos \in Nat /\ size \in Nat /\ mem \in [1..size -> Cell]
      /\ pos' = pos + call.len /\ pos' <= size /\ size' = size
  BY <1>1 DEF BF_AddToBuffer, NoRoom, IInv, TypeOK
<1>3. mem' = written
  BY DEF BF_AddToBuffer
<1> HIDE DEF data
<1>4. /\ mem' \in [1..size -> Cell]
      /\ \A i \in 1..size : mem'[i] =
           IF i \in (pos + 1)..(pos + Len(data)) THEN data[i - pos] ELSE mem[i]
      /\ \A i \in (pos + 1)..(pos + Len(data)) : data[i - pos] \in Byte
  <2>1. /\ written \in [1..size -> Cell]
        /\ \A i \in 1..size : written[i] =
             IF i \in (pos + 1)..(pos + Len(data)) THEN data[i - pos] ELSE mem[i]
        /\ \A i \in (pos + 1)..(pos + Len(data)) : data[i - pos] \in Byte
    BY <1>1, <1>2, OverlaidCells
  <2> HIDE DEF written
  <2>2. QED
    BY <1>3, <2>1
<1> HIDE DEF written
<1>5. TypeOK'
  <2>1. pos' \in Nat
    BY <1>1, <1>2
  <2>2. QED
    BY <1>2, <1>4, <2>1, IdleIsCall DEF BF_AddToBuffer, IInv, TypeOK, ghosts
<1>6. WithinAllocation'
  BY <1>1, <1>2 DEF BF_AddToBuffer, IInv, WithinAllocation, ghosts, TypeOK
<1>7. NoForeignByte'
  <2>1. ASSUME NEW i \in 1..pos', i \notin holes' PROVE mem'[i] \in Byte
    <3>1. holes' = holes /\ i \in 1..size
      BY <1>1, <1>2 DEF BF_AddToBuffer, ghosts
    <3>2. CASE i \in 1..pos
      <4>1. mem[i] \in Byte
        BY <2>1, <3>1, <3>2 DEF IInv, NoForeignByte
      <4>2. mem'[i] = mem[i]
        BY <1>1, <1>2, <1>4, <3>1, <3>2
      <4>3. QED
        BY <4>1, <4>2
    <3>3. CASE i \in (pos + 1)..(pos + Len(data))
      BY <1>4, <3>1, <3>3
    <3>4. QED
      BY <1>1, <1>2, <3>2, <3>3
  <2>2. reserved' = reserved
    BY DEF BF_AddToBuffer, ghosts
  <2>3. QED
    BY <2>1, <2>2 DEF IInv, NoForeignByte
<1>8. QED
  BY <1>1, <1>5, <1>6, <1>7 DEF IInv, BF_AddToBuffer

LEMMA ConsumeKeepsIInv == IInv /\ BF_ConsumeBufferLength => IInv'
<1> SUFFICES ASSUME IInv, BF_ConsumeBufferLength PROVE IInv'
  OBVIOUS
<1>1. PICK request \in 0..(MaxLength + 1) :
        /\ pos' = pos - Clamped(request)
        /\ mem' = MovedDown(mem, Clamped(request), pos - Clamped(request))
        /\ holes' = {i - Clamped(request) : i \in {h \in holes : h > Clamped(request)}}
  BY DEF BF_ConsumeBufferLength
<1> DEFINE len == Clamped(request)
<1>2. pos \in Nat /\ size \in Nat /\ pos <= size /\ mem \in [1..size -> Cell]
  BY DEF IInv, TypeOK, WithinAllocation
<1>3. len \in 0..pos
  BY <1>2, SkyBufferAssumption DEF Clamped
<1> HIDE DEF len
<1>4. pos' \in Nat /\ pos' = pos - len /\ size' = size /\ reserved' = {}
  BY <1>1, <1>2, <1>3 DEF BF_ConsumeBufferLength, len
<1>5. \A i \in 1..size : mem'[i] = IF i <= pos - len THEN mem[i + len] ELSE mem[i]
  BY <1>1, <1>2 DEF MovedDown, len
<1>6. mem' \in [1..size -> Cell]
  BY <1>1, <1>2, <1>3 DEF MovedDown, len
<1>7. holes' \subseteq 1..pos'
  BY <1>1, <1>2, <1>3, <1>4 DEF IInv, WithinAllocation, len
<1>8. TypeOK'
  <2>1. holes' \subseteq Nat \ {0} /\ reserved' \subseteq [at : Nat, len : Nat]
    BY <1>4, <1>7
  <2>2. QED
    BY <1>4, <1>6, <2>1 DEF BF_ConsumeBufferLength, IInv, TypeOK
<1>9. WithinAllocation'
  BY <1>2, <1>3, <1>4, <1>7 DEF WithinAllocation
<1>10. NoForeignByte'
  <2>1. ASSUME NEW i \in 1..pos', i \notin holes' PROVE mem'[i] \in Byte
    <3>1. i + len \in 1..pos /\ mem'[i] = mem[i + len]
      BY <1>2, <1>3, <1>4, <1>5
    <3>2. i + len \notin holes
      BY <1>1, <1>3, <1>4, <2>1 DEF len
    <3>3. QED
      BY <3>1, <3>2 DEF IInv, NoForeignByte
  <2>2. QED
    BY <1>4, <2>1 DEF NoForeignByte
<1>11. QED
  BY <1>8, <1>9, <1>10 DEF IInv, BF_ConsumeBufferLength, Ready

LEMMA WriteKeepsIInv == IInv /\ BF_WriteToReservedBytes => IInv'
<1> SUFFICES ASSUME IInv, BF_WriteToReservedBytes PROVE IInv'
  OBVIOUS
<1>1. PICK r \in reserved, data \in Chunks :
        /\ Len(data) <= r.len
        /\ mem' = Overlaid(mem, r.at, data)
        /\ holes' = holes \ (r.at + 1)..(r.at + Len(data))
  BY DEF BF_WriteToReservedBytes
<1>2. r.at \in Nat /\ r.len \in Nat /\ r.at + r.len <= pos /\ Len(data) \in Nat
  BY ChunkIsSequence DEF IInv, TypeOK, WithinAllocation
<1>3. pos \in Nat /\ size \in Nat /\ pos <= size /\ mem \in [1..size -> Cell]
  BY DEF IInv, TypeOK, WithinAllocation
<1>4. /\ mem' \in [1..size -> Cell]
      /\ \A i \in 1..size : mem'[i] =
           IF i \in (r.at + 1)..(r.at + Len(data)) THEN data[i - r.at] ELSE mem[i]
      /\ \A i \in (r.at + 1)..(r.at + Len(data)) : data[i - r.at] \in Byte
  <2>1. mem' = Overlaid(mem, r.at, data)
    BY <1>1
  <2>2. /\ Overlaid(mem, r.at, data) \in [1..size -> Cell]
        /\ \A i \in 1..size : Overlaid(mem, r.at, data)[i] =
             IF i \in (r.at + 1)..(r.at + Len(data)) THEN data[i - r.at] ELSE mem[i]
        /\ \A i \in (r.at + 1)..(r.at + Len(data)) : data[i - r.at] \in Byte
    <3>1. r.at \in Nat
      BY <1>2
    <3>2. size \in Nat /\ mem \in [1..size -> Cell]
      BY <1>3
    <3>3. QED
      BY <3>1, <3>2, OverlaidCells
  <2>3. QED
    BY <2>1, <2>2
<1>5. TypeOK'
  BY <1>1, <1>4 DEF BF_WriteToReservedBytes, IInv, TypeOK
<1>6. WithinAllocation'
  BY <1>1 DEF BF_WriteToReservedBytes, IInv, WithinAllocation
<1>7. NoForeignByte'
  <2>1. ASSUME NEW i \in 1..pos', i \notin holes' PROVE mem'[i] \in Byte
    BY <1>1, <1>3, <1>4, <2>1 DEF BF_WriteToReservedBytes, IInv, NoForeignByte
  <2>2. reserved' = reserved
    BY DEF BF_WriteToReservedBytes
  <2>3. QED
    BY <2>1, <2>2 DEF IInv, NoForeignByte
<1>8. QED
  BY <1>5, <1>6, <1>7 DEF IInv, BF_WriteToReservedBytes, Ready

LEMMA RequestKeepsIInv == IInv /\ Request => IInv'
<1> SUFFICES ASSUME IInv, Request PROVE IInv'
  OBVIOUS
<1>1. call' \in Calls
  BY DEF Request, Calls
<1>2. UNCHANGED <<life, mem, size, pos, delegate, reserved, holes>> /\ life = "ready"
  BY DEF Request, object, ghosts, Ready
<1>3. QED
  BY <1>1, <1>2 DEF IInv, TypeOK, WithinAllocation, NoForeignByte

\* The operations that start again: nothing is in the buffer afterwards.
LEMMA RestartKeepsIInv ==
  ASSUME IInv, BF_Alloc \/ BF_Init \/ BF_Free \/ BF_Empty
  PROVE  IInv'
<1>1. pos' = 0 /\ call' = call
  BY DEF BF_Alloc, BF_Init, BF_Free, BF_Empty
<1>2. size' \in Nat /\ mem' \in [1..size' -> Cell]
  <2>1. CASE BF_Init
    BY <2>1, FreshTyped, SkyBufferAssumption DEF BF_Init
  <2>2. CASE BF_Alloc \/ BF_Free
    BY <2>2, FreshTyped DEF BF_Alloc, BF_Free
  <2>3. CASE BF_Empty
    BY <2>3 DEF BF_Empty, IInv, TypeOK
  <2>4. QED
    BY <2>1, <2>2, <2>3
<1>3. /\ reserved' \subseteq reserved /\ holes' \subseteq holes
      /\ \A r \in reserved' : r.at + r.len <= 0
      /\ holes' \subseteq 1..0
  <2>1. CASE BF_Alloc
    BY <2>1 DEF BF_Alloc, ghosts, IInv, WithinAllocation
  <2>2. CASE BF_Init \/ BF_Free \/ BF_Empty
    BY <2>2 DEF BF_Init, BF_Free, BF_Empty
  <2>3. QED
    BY <2>1, <2>2
<1>4. life' \in {"none", "raw", "ready"} /\ delegate' \in BOOLEAN
  BY DEF BF_Alloc, BF_Init, BF_Free, BF_Empty, IInv, TypeOK
<1>5. call = Idle /\ (life' = "none" => size' = 0)
  BY DEF BF_Alloc, BF_Init, BF_Free, BF_Empty, Ready, IInv
<1>6. TypeOK'
  BY <1>1, <1>2, <1>3, <1>4 DEF IInv, TypeOK
<1>7. WithinAllocation'
  BY <1>1, <1>2, <1>3 DEF WithinAllocation
<1>8. NoForeignByte'
  BY <1>1, <1>3 DEF IInv, NoForeignByte
<1>9. QED
  BY <1>1, <1>5, <1>6, <1>7, <1>8 DEF IInv

LEMMA NextKeepsIInv == IInv /\ [Next]_vars => IInv'
<1> SUFFICES ASSUME IInv, [Next]_vars PROVE IInv'
  OBVIOUS
<1>1. CASE BF_Alloc \/ BF_Init \/ BF_Free \/ BF_Empty
  BY <1>1, RestartKeepsIInv
<1>2. CASE Request
  BY <1>2, RequestKeepsIInv
<1>3. CASE Grow
  <2>1. call.len \in Nat /\ pos \in Nat
    BY CallTyped DEF IInv, TypeOK
  <2>2. pos + call.len \in Nat /\ pos <= pos + call.len
    BY <2>1
  <2>3. QED
    BY <1>3, <2>2, GrowthKeepsIInv DEF Grow, IInv
<1>4. CASE BF_ReserveBytes
  BY <1>4, ReserveKeepsIInv
<1>5. CASE BF_AddToBuffer
  BY <1>5, AddKeepsIInv
<1>6. CASE BF_ConsumeBufferLength
  BY <1>6, ConsumeKeepsIInv
<1>7. CASE BF_WriteToReservedBytes
  BY <1>7, WriteKeepsIInv
<1>8. CASE BF_ForceResize
  <2>1. size \in Nat /\ pos <= size
    BY DEF IInv, TypeOK, WithinAllocation
  <2>2. QED
    BY <1>8, <2>1, GrowthKeepsIInv DEF BF_ForceResize, Ready
<1>9. CASE UNCHANGED vars
  BY <1>9 DEF vars, object, ghosts, IInv, TypeOK, WithinAllocation, NoForeignByte
<1>10. QED
  BY <1>1, <1>2, <1>3, <1>4, <1>5, <1>6, <1>7, <1>8, <1>9 DEF Next

LEMMA Invariant == Spec => []IInv
BY InitIInv, NextKeepsIInv, PTL DEF Spec

\* Every variable of the buffer keeps its type, for any constants.
THEOREM TypeCorrect == Spec => []TypeOK
<1>1. IInv => TypeOK
  BY DEF IInv
<1>2. QED
  BY <1>1, Invariant, PTL

\* The position never passes the allocated size and a write to a position
\* that is still reserved stays inside the buffer, whatever the delegate
\* answers to SU_BF_Realloc.
THEOREM StaysWithinAllocation == Spec => []WithinAllocation
<1>1. IInv => WithinAllocation
  BY DEF IInv
<1>2. QED
  BY <1>1, Invariant, PTL

\* Reservations are disjoint, and outside them a reader meets only bytes the
\* client wrote, through any growth, consumption and rewriting.
THEOREM NeverExposesForeignBytes == Spec => []NoForeignByte
<1>1. IInv => NoForeignByte
  BY DEF IInv
<1>2. QED
  BY <1>1, Invariant, PTL

-----------------------------------------------------------------------------
(* The buffer implements the abstract queue.                               *)

Item == Byte \cup {Hole}

\* The abstract content is a sequence of pos items.
LEMMA ContentTyped ==
  ASSUME IInv
  PROVE  /\ Content \in Seq(Item) /\ Len(Content) = pos
         /\ \A i \in 1..pos : Content[i] = IF i \in holes THEN Hole ELSE mem[i]
<1>1. pos \in Nat
  BY DEF IInv, TypeOK
<1>2. \A i \in 1..pos : (IF i \in holes THEN Hole ELSE mem[i]) \in Item
  BY DEF IInv, NoForeignByte, Item
<1>3. Content \in [1..pos -> Item]
  BY <1>2 DEF Content
<1>4. QED
  BY <1>1, <1>3 DEF Content

\* The same, one step later.
LEMMA NextContentTyped ==
  ASSUME IInv'
  PROVE  /\ Content' \in Seq(Item) /\ Len(Content') = pos'
         /\ \A i \in 1..pos' : Content'[i] = IF i \in holes' THEN Hole ELSE mem'[i]
<1>1. pos' \in Nat
  BY DEF IInv, TypeOK
<1>2. \A i \in 1..pos' : (IF i \in holes' THEN Hole ELSE mem'[i]) \in Item
  BY DEF IInv, NoForeignByte, Item
<1>3. Content' \in [1..pos' -> Item]
  BY <1>2 DEF Content
<1>4. QED
  BY <1>1, <1>3 DEF Content

\* Growing shows nothing of itself: the content is as it was.
LEMMA GrowthStutters ==
  ASSUME IInv, IInv', pos' = pos, holes' = holes,
         \A i \in 1..pos : mem'[i] = mem[i]
  PROVE  Content' = Content
<1>1. \A i \in 1..pos : Content'[i] = Content[i]
  BY ContentTyped, NextContentTyped
<1>2. QED
  BY <1>1, ContentTyped, NextContentTyped, SeqEqual

\* Appending to the content, cell by cell.
LEMMA AppendedContent ==
  ASSUME IInv, IInv', NEW s \in Seq(Item), pos' = pos + Len(s),
         \A i \in 1..pos : Content'[i] = Content[i],
         \A i \in 1..Len(s) : Content'[pos + i] = s[i]
  PROVE  Content' = Content \o s
<1> DEFINE new == Content'
           cat == Content \o s
<1>1. pos \in Nat /\ Len(s) \in Nat
  BY DEF IInv, TypeOK
<1>2. /\ cat \in Seq(Item) /\ Len(cat) = pos + Len(s)
      /\ \A i \in 1..(pos + Len(s)) : cat[i] = IF i <= pos THEN Content[i] ELSE s[i - pos]
  BY ContentTyped, ConcatProperties
<1>3. new \in Seq(Item) /\ Len(new) = pos + Len(s)
  BY NextContentTyped
<1> HIDE DEF cat
<1>4. ASSUME NEW i \in 1..(pos + Len(s)) PROVE new[i] = cat[i]
  <2>1. CASE i <= pos
    BY <1>1, <1>2, <2>1
  <2>2. CASE i > pos
    <3>1. PICK k \in 1..Len(s) : i = pos + k /\ i - pos = k
      <4>1. i - pos \in 1..Len(s) /\ i = pos + (i - pos)
        BY <1>1, <2>2
      <4>2. QED
        BY <4>1
    <3>2. new[pos + k] = s[k]
      OBVIOUS
    <3>3. cat[i] = s[i - pos]
      BY <1>1, <1>2, <2>2
    <3>4. QED
      BY <3>1, <3>2, <3>3
  <2>3. QED
    BY <1>1, <2>1, <2>2
<1> HIDE DEF new
<1>5. new = cat
  BY <1>2, <1>3, <1>4, SeqEqual
<1>6. QED
  BY <1>5 DEF new, cat

LEMMA ReserveImplements ==
  ASSUME IInv, IInv', BF_ReserveBytes
  PROVE  Queue!Reserve(call.len)
<1> DEFINE room == [i \in 1..call.len |-> Hole]
<1>1. call.len \in Nat /\ pos \in Nat /\ pos' = pos + call.len
  BY CallTyped DEF IInv, TypeOK, BF_ReserveBytes
<1>2. room \in Seq(Item) /\ Len(room) = call.len /\ \A i \in 1..call.len : room[i] = Hole
  BY <1>1 DEF Item
<1> HIDE DEF room
<1>3. holes \subseteq 1..pos /\ holes' = holes \cup (pos + 1)..(pos + call.len) /\ mem' = mem
  BY DEF IInv, WithinAllocation, BF_ReserveBytes
<1>4. ASSUME NEW i \in 1..pos PROVE Content'[i] = Content[i]
  <2>1. i \in 1..pos' /\ (i \in holes' <=> i \in holes)
    BY <1>1, <1>3
  <2>2. QED
    BY <1>3, <2>1, ContentTyped, NextContentTyped
<1>5. ASSUME NEW i \in 1..call.len PROVE Content'[pos + i] = room[i]
  <2>1. pos + i \in holes' /\ pos + i \in 1..pos'
    BY <1>1, <1>3
  <2>2. QED
    BY <1>2, <2>1, NextContentTyped
<1>6. Content' = Content \o room
  BY <1>1, <1>2, <1>4, <1>5, AppendedContent
<1>7. QED
  BY <1>6 DEF Queue!Reserve, room

LEMMA AddImplements ==
  ASSUME IInv, IInv', BF_AddToBuffer
  PROVE  call.data \in Chunks /\ Queue!Enqueue(call.data)
<1> DEFINE data == call.data
<1>1. /\ data \in Chunks /\ call.len = Len(data) /\ Len(data) \in Nat
      /\ data \in Seq(Byte) /\ data \in Seq(Item) /\ data \in [1..Len(data) -> Byte]
  <2>1. data \in Chunks /\ call.len = Len(data)
    BY CallTyped DEF IInv, TypeOK, BF_AddToBuffer
  <2>2. QED
    BY <2>1, ChunkIsSequence DEF Item
<1>2. /\ pos \in Nat /\ pos' = pos + Len(data) /\ pos' <= size
      /\ size \in Nat /\ mem \in [1..size -> Cell]
      /\ mem' = Overlaid(mem, pos, data) /\ holes' = holes /\ holes \subseteq 1..pos
  BY <1>1 DEF IInv, TypeOK, BF_AddToBuffer, NoRoom, ghosts, WithinAllocation
<1> HIDE DEF data
<1>3. \A i \in 1..size : mem'[i] =
        IF i \in (pos + 1)..(pos + Len(data)) THEN data[i - pos] ELSE mem[i]
  BY <1>2 DEF Overlaid
<1>4. \A i \in 1..pos : Content'[i] = Content[i]
  BY <1>1, <1>2, <1>3, ContentTyped, NextContentTyped
<1>5. ASSUME NEW i \in 1..Len(data) PROVE Content'[pos + i] = data[i]
  <2>1. /\ pos + i \in 1..pos' /\ pos + i \in 1..size /\ pos + i \notin holes
        /\ pos + i \in (pos + 1)..(pos + Len(data)) /\ (pos + i) - pos = i
    BY <1>1, <1>2
  <2>2. QED
    BY <1>2, <1>3, <2>1, NextContentTyped
<1>6. Content' = Content \o data
  BY <1>1, <1>2, <1>4, <1>5, AppendedContent
<1>7. QED
  BY <1>1, <1>6 DEF Queue!Enqueue, data

LEMMA ConsumeImplements ==
  ASSUME IInv, IInv', BF_ConsumeBufferLength
  PROVE  \E len \in 0..pos : Queue!Consume(len)
<1>1. PICK request \in 0..(MaxLength + 1) :
        /\ pos' = pos - Clamped(request)
        /\ mem' = MovedDown(mem, Clamped(request), pos - Clamped(request))
        /\ holes' = {i - Clamped(request) : i \in {h \in holes : h > Clamped(request)}}
  BY DEF BF_ConsumeBufferLength
<1> DEFINE len == Clamped(request)
           new == Content'
           rest == SubSeq(Content, len + 1, pos)
<1>2. /\ pos \in Nat /\ size \in Nat /\ pos <= size /\ mem \in [1..size -> Cell]
      /\ holes \subseteq 1..pos
  BY DEF IInv, TypeOK, WithinAllocation
<1>3. len \in 0..pos
  BY <1>2, SkyBufferAssumption DEF Clamped
<1> HIDE DEF len
<1>4. /\ rest \in Seq(Item) /\ Len(rest) = pos - len
      /\ \A i \in 1..(pos - len) : rest[i] = Content[i + len]
  <2>1. \A i \in (len + 1)..pos : Content[i] \in Item
    BY <1>2, <1>3, ContentTyped
  <2>2. /\ rest \in Seq(Item)
        /\ Len(rest) = IF len + 1 <= pos THEN pos - (len + 1) + 1 ELSE 0
        /\ \A i \in 1..(pos - (len + 1) + 1) : rest[i] = Content[(len + 1) + i - 1]
    BY <1>2, <1>3, <2>1, SubSeqProperties
  <2> HIDE DEF rest
  <2>3. pos - (len + 1) + 1 = pos - len /\ (len + 1 > pos => pos - len = 0)
    BY <1>2, <1>3
  <2>4. \A i \in 1..(pos - len) : (len + 1) + i - 1 = i + len
    BY <1>2, <1>3
  <2>5. QED
    BY <1>2, <1>3, <2>2, <2>3, <2>4
<1>5. pos' = pos - len /\ new \in Seq(Item) /\ Len(new) = pos - len
  BY <1>1, NextContentTyped DEF len
<1>6. ASSUME NEW i \in 1..(pos - len) PROVE new[i] = Content[i + len]
  <2>1. i + len \in 1..pos /\ i \in 1..pos' /\ i \in 1..size /\ mem'[i] = mem[i + len]
    BY <1>1, <1>2, <1>3, <1>5 DEF MovedDown, len
  <2>2. i \in holes' <=> i + len \in holes
    BY <1>1, <1>2, <1>3 DEF len
  <2>3. QED
    BY <2>1, <2>2, ContentTyped, NextContentTyped
<1> HIDE DEF new, rest
<1>7. new = rest
  BY <1>2, <1>3, <1>4, <1>5, <1>6, SeqEqual
<1>8. len \in Nat /\ len <= Len(Content) /\ new = SubSeq(Content, len + 1, Len(Content))
  BY <1>2, <1>3, <1>7, ContentTyped DEF rest
<1>9. QED
  BY <1>3, <1>8 DEF Queue!Consume, new

LEMMA WriteImplements ==
  ASSUME IInv, IInv', BF_WriteToReservedBytes
  PROVE  \E at \in 0..pos, data \in Chunks : Queue!Fill(at, data)
<1>1. PICK r \in reserved, data \in Chunks :
        /\ Len(data) <= r.len
        /\ mem' = Overlaid(mem, r.at, data)
        /\ holes' = holes \ (r.at + 1)..(r.at + Len(data))
  BY DEF BF_WriteToReservedBytes
<1> DEFINE at == r.at
           n == Len(data)
           new == Content'
           filled == [i \in DOMAIN Content |->
                        IF i \in (at + 1)..(at + n) THEN data[i - at] ELSE Content[i]]
<1>2. at \in Nat /\ r.len \in Nat /\ at + r.len <= pos /\ n \in Nat /\ data \in Seq(Byte)
  BY ChunkIsSequence DEF IInv, TypeOK, WithinAllocation
<1>3. /\ pos \in Nat /\ size \in Nat /\ pos <= size /\ mem \in [1..size -> Cell]
      /\ pos' = pos /\ at + n <= pos
  BY <1>1, <1>2 DEF IInv, TypeOK, WithinAllocation, BF_WriteToReservedBytes
<1>4. \A i \in 1..size : mem'[i] =
        IF i \in (at + 1)..(at + n) THEN data[i - at] ELSE mem[i]
  BY <1>1, <1>3 DEF Overlaid
<1>5. \A i : i \in holes' <=> i \in holes /\ i \notin (at + 1)..(at + n)
  BY <1>1
<1>6. Content \in [1..pos -> Item] /\ new \in [1..pos -> Item]
  BY <1>3, ContentTyped, NextContentTyped
<1> HIDE DEF at, n
<1>7. ASSUME NEW i \in 1..pos
      PROVE  new[i] = IF i \in (at + 1)..(at + n) THEN data[i - at] ELSE Content[i]
  <2>1. i \in 1..size /\ i \in 1..pos'
    BY <1>3
  <2>2. QED
    BY <1>4, <1>5, <2>1, ContentTyped, NextContentTyped
<1> HIDE DEF new
<1>8. new = filled
  BY <1>6, <1>7
<1>9. at + n <= Len(Content)
  BY <1>3, ContentTyped
<1>10. QED
  <2>1. at \in 0..pos
    BY <1>2, <1>3
  <2>2. Queue!Fill(at, data)
    BY <1>8, <1>9 DEF Queue!Fill, new, n
  <2>3. QED
    BY <2>1, <2>2

LEMMA EmptyContent ==
  ASSUME pos' = 0
  PROVE  Content' = << >>
BY DEF Content

\* What the client asks for stays within its own bound.
Bounded == pos + call.len <= MaxLength

LEMMA BoundedKept == IInv /\ Bounded /\ [Next]_vars => Bounded'
<1> SUFFICES ASSUME IInv, Bounded, [Next]_vars PROVE Bounded'
  OBVIOUS
<1>1. pos \in Nat /\ call.len \in Nat /\ MaxLength \in Nat
  BY CallTyped, SkyBufferAssumption DEF IInv, TypeOK
<1>2. CASE BF_Alloc \/ BF_Init \/ BF_Free \/ BF_Empty
  <2>1. pos' = 0 /\ call' = call
    BY <1>2 DEF BF_Alloc, BF_Init, BF_Free, BF_Empty
  <2>2. QED
    BY <1>1, <2>1 DEF Bounded
<1>3. CASE Request
  BY <1>3 DEF Request, object, Bounded, ReserveCall, AddCall
<1>4. CASE BF_ReserveBytes \/ BF_AddToBuffer
  <2>1. pos' = pos + call.len /\ call'.len = 0
    BY <1>4 DEF BF_ReserveBytes, BF_AddToBuffer, Idle
  <2>2. QED
    BY <1>1, <2>1 DEF Bounded
<1>5. CASE BF_ConsumeBufferLength
  <2>1. PICK request \in 0..(MaxLength + 1) : pos' = pos - Clamped(request)
    BY <1>5 DEF BF_ConsumeBufferLength
  <2>2. Clamped(request) \in 0..pos
    BY <1>1 DEF Clamped
  <2>3. call' = call
    BY <1>5 DEF BF_ConsumeBufferLength
  <2>4. QED
    BY <1>1, <2>1, <2>2, <2>3 DEF Bounded
<1>6. CASE Grow \/ BF_WriteToReservedBytes \/ BF_ForceResize \/ UNCHANGED vars
  BY <1>6 DEF Grow, BF_WriteToReservedBytes, BF_ForceResize, vars, object, Bounded
<1>7. QED
  BY <1>2, <1>3, <1>4, <1>5, <1>6 DEF Next

LEMMA StaysBounded == Spec => []Bounded
<1>1. Init => Bounded
  BY SkyBufferAssumption DEF Init, Idle, Bounded
<1>2. QED
  BY <1>1, BoundedKept, Invariant, PTL DEF Spec

\* Every step of the buffer is a step of the queue, with the inputs its
\* client can give, or shows nothing.
LEMMA StepImplements == IInv /\ IInv' /\ Bounded /\ [Next]_vars => [QueueStep]_Content
<1> SUFFICES ASSUME IInv, IInv', Bounded, [Next]_vars
             PROVE  QueueStep \/ Content' = Content
  OBVIOUS
<1>0. 0..pos \subseteq 0..MaxLength
  BY CallTyped, SkyBufferAssumption DEF IInv, TypeOK, Bounded
<1>1. CASE BF_Alloc \/ BF_Init \/ BF_Free \/ BF_Empty
  <2>1. pos' = 0
    BY <1>1 DEF BF_Alloc, BF_Init, BF_Free, BF_Empty
  <2>2. QED
    BY <2>1, EmptyContent DEF QueueStep, Queue!Clear
<1>2. CASE Request
  BY <1>2 DEF Request, object, ghosts, Content
<1>3. CASE Grow
  <2>1. pos + call.len \in Nat /\ pos <= pos + call.len
    BY CallTyped DEF IInv, TypeOK
  <2>2. \A i \in 1..pos : mem'[i] = mem[i]
    BY <1>3, <2>1, ReallocKeeps DEF Grow, IInv
  <2>3. QED
    BY <1>3, <2>2, GrowthStutters DEF Grow, ghosts
<1>4. CASE BF_ForceResize
  <2>1. size \in Nat /\ pos <= size
    BY DEF IInv, TypeOK, WithinAllocation
  <2>2. \A i \in 1..pos : mem'[i] = mem[i]
    BY <1>4, <2>1, ReallocKeeps DEF BF_ForceResize, IInv
  <2>3. QED
    BY <1>4, <2>2, GrowthStutters DEF BF_ForceResize, ghosts
<1>5. CASE BF_ReserveBytes
  <2>1. call.len \in 0..MaxChunk
    BY <1>5, CallTyped DEF BF_ReserveBytes, IInv, TypeOK
  <2>2. QED
    BY <1>5, <2>1, ReserveImplements DEF QueueStep
<1>6. CASE BF_AddToBuffer
  BY <1>6, AddImplements DEF QueueStep
<1>7. CASE BF_ConsumeBufferLength
  BY <1>0, <1>7, ConsumeImplements DEF QueueStep
<1>8. CASE BF_WriteToReservedBytes
  BY <1>0, <1>8, WriteImplements DEF QueueStep
<1>9. CASE UNCHANGED vars
  BY <1>9 DEF vars, object, ghosts, Content
<1>10. QED
  BY <1>1, <1>2, <1>3, <1>4, <1>5, <1>6, <1>7, <1>8, <1>9 DEF Next

\* A step with those inputs is a step of the queue.
LEMMA QueueStepIsNext == QueueStep => Queue!Next
<1>1. \A d \in Chunks : d \in Seq(Byte)
  BY ChunkIsSequence
<1>2. 0..MaxChunk \subseteq Nat /\ 0..MaxLength \subseteq Nat
  BY SkyBufferAssumption
<1>3. QED
  BY <1>1, <1>2 DEF QueueStep, Queue!Next

LEMMA InitImplements == Init => Queue!Init
BY DEF Init, Queue!Init, Content

\* SU_Buffer implements the byte queue: whatever the delegate answers, what
\* is in the buffer is what was added and filled in, in order, less what was
\* consumed from the front; and the queue is given no input but those the
\* client of the buffer gave.
THEOREM ImplementsClientsQueue == Spec => ImplementsQueue
<1>1. Init => QueueInit
  BY InitImplements DEF QueueInit
<1>2. QED
  BY <1>1, StepImplements, Invariant, StaysBounded, PTL DEF Spec, ImplementsQueue

\* The buffer is a queue of any bytes, with no bound on what is asked of it.
THEOREM ImplementsByteQueue == Spec => Queue!Spec
<1>1. IInv /\ IInv' /\ Bounded /\ [Next]_vars => [Queue!Next]_Content
  BY StepImplements, QueueStepIsNext
<1>2. QED
  BY <1>1, InitImplements, Invariant, StaysBounded, PTL DEF Spec, Queue!Spec

-----------------------------------------------------------------------------
(* The room a buffer has is never taken back.                              *)

\* A resize that asks for at least what there is, or that was found to lack
\* room, leaves at least as many bytes, whatever the delegate answers.
LEMMA ReallocGrows ==
  ASSUME TypeOK, NEW requested \in Nat, size <= requested, Realloc(requested)
  PROVE  size' >= size
<1>1. PICK n \in NewSizes(requested) : size' = n
  BY DEF Realloc
<1>2. size \in Nat /\ delegate \in BOOLEAN /\ MaxSize \in Nat
  BY SkyBufferAssumption DEF TypeOK
<1>3. CASE delegate
  <2>1. PICK k \in 0..MaxSize : n = IF k < requested THEN requested ELSE k
    BY <1>3 DEF NewSizes
  <2>2. QED
    BY <1>1, <1>2, <2>1
<1>4. CASE ~delegate
  BY <1>1, <1>2, <1>4 DEF NewSizes
<1>5. QED
  BY <1>3, <1>4

LEMMA StepNeverShrinks ==
  IInv /\ [Next]_vars => [size' >= size \/ BF_Init \/ BF_Free]_vars
<1> SUFFICES ASSUME IInv, Next, ~BF_Init, ~BF_Free PROVE size' >= size
  OBVIOUS
<1>1. size \in Nat /\ pos \in Nat /\ call.len \in Nat /\ TypeOK
  BY CallTyped DEF IInv, TypeOK
<1>2. CASE BF_Alloc
  BY <1>1, <1>2 DEF BF_Alloc, IInv
<1>3. CASE Grow
  BY <1>1, <1>3, ReallocGrows DEF Grow, NoRoom
<1>4. CASE BF_ForceResize
  BY <1>1, <1>4, ReallocGrows DEF BF_ForceResize
<1>5. CASE \/ BF_Empty \/ Request \/ BF_ReserveBytes \/ BF_AddToBuffer
           \/ BF_ConsumeBufferLength \/ BF_WriteToReservedBytes
  <2>1. size' = size
    BY <1>5 DEF BF_Empty, Request, object, BF_ReserveBytes, BF_AddToBuffer,
                BF_ConsumeBufferLength, BF_WriteToReservedBytes
  <2>2. QED
    BY <1>1, <2>1
<1>6. QED
  BY <1>2, <1>3, <1>4, <1>5 DEF Next

\* SU_BF_Realloc never takes room back, even when the delegate answers less
\* than what is allocated: the loops of SU_BF_AddToBuffer and
\* SU_BF_ReserveBytes ask it for more than the block holds, and
\* SU_BF_ForceResize for what it holds.
THEOREM RoomIsNeverTakenBack == Spec => NeverShrinks
BY StepNeverShrinks, Invariant, PTL DEF Spec, NeverShrinks
=============================================================================
