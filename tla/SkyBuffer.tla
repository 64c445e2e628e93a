----------------------------- MODULE SkyBuffer -----------------------------
(***************************************************************************)
(* SU_Buffer (src/buffer.c): a growing buffer for serialization.           *)
(*                                                                         *)
(* The C object is a malloc'ed block, its allocated size, the position of  *)
(* the next free byte and an optional delegate that chooses the new size   *)
(* when the block must grow.  AddToBuffer and ReserveBytes call the        *)
(* internal SU_BF_Realloc in a loop until the request fits; a call that is *)
(* in that loop is kept in the variable "call", one action per turn, so    *)
(* that a loop that never ends is a behaviour of the model.                *)
(*                                                                         *)
(* The client respects the header: it initializes the object before using  *)
(* it and writes only to positions that are still reserved, with no more   *)
(* bytes than it reserved.                                                 *)
(***************************************************************************)
EXTENDS Naturals, Sequences

CONSTANTS
  Byte,          \* the values the client writes
  Junk,          \* what malloc'ed memory holds before it is written
  Hole,          \* the abstract queue's reserved byte (refinement only)
  DefaultSizes,  \* the sizes SU_BF_Init is called with
  MaxChunk,      \* bound: bytes in one client request
  MaxLength,     \* bound: bytes the client keeps in the buffer
  MaxSize        \* bound: sizes the delegate returns, and forced resizes

ASSUME SkyBufferAssumption ==
  /\ Junk \notin Byte /\ Hole \notin Byte
  /\ DefaultSizes \subseteq Nat
  /\ MaxChunk \in Nat /\ MaxLength \in Nat /\ MaxSize \in Nat

VARIABLES
  life,      \* "none" (no object), "raw" (SU_BF_Alloc only) or "ready"
  mem,       \* the block, cell i being the byte at offset i - 1
  size,      \* buffer->size
  pos,       \* buffer->pos
  delegate,  \* is there a requestNewBufferSize delegate
  call,      \* the request that is looping for room, Idle if none
  reserved,  \* the reservations the client may still write to
  holes      \* the cells below pos that were reserved and never written

object == <<life, mem, size, pos, delegate>>
ghosts == <<reserved, holes>>
vars == <<object, call, ghosts>>

Cell == Byte \cup {Junk}
Chunk(n) == [1..n -> Byte]
Chunks == UNION {Chunk(n) : n \in 0..MaxChunk}

Idle == [op |-> "idle", len |-> 0, data |-> << >>]
AddCall(data) == [op |-> "add", len |-> Len(data), data |-> data]
ReserveCall(len) == [op |-> "reserve", len |-> len, data |-> << >>]
Calls == {Idle} \cup {AddCall(d) : d \in Chunks} \cup {ReserveCall(n) : n \in 0..MaxChunk}

\* The n cells of a block obtained from malloc.
Fresh(n) == [i \in 1..n |-> Junk]

\* realloc keeps the cells that fit in the new block.
\* Mutant: the old block is dropped and a fresh one taken.
ResizedAnew(m, old, new) == [i \in 1..new |-> Junk]
Resized(m, old, new) == [i \in 1..new |-> IF i <= old THEN m[i] ELSE Junk]

\* memcpy of data to the offset at.
Overlaid(m, at, data) ==
  [i \in DOMAIN m |-> IF i \in (at + 1)..(at + Len(data)) THEN data[i - at] ELSE m[i]]

\* memmove of the n cells that follow offset len to the front of the block.
\* Mutant: the remaining data is left where it was.
NotMoved(m, len, n) == m
MovedDown(m, len, n) == [i \in DOMAIN m |-> IF i <= n THEN m[i + len] ELSE m[i]]

\* Mutant: the test for room is off by one.
NoRoomOffByOne == pos + call.len > size + 1
NoRoom == pos + call.len > size

\* A request to consume more than there is consumes everything.
\* Mutant: it is taken as it comes.
Unclamped(request) == request
Clamped(request) == IF request > pos THEN pos ELSE request

-----------------------------------------------------------------------------
(* SU_BF_Realloc: the default policy doubles the size; a delegate may      *)
(* answer any size, and an answer under the request is raised to it.       *)

\* Mutants: the delegate's answer is taken as it comes; the default policy
\* grows by a quarter, which is nothing for a small block.
NewSizesUnchecked(requested) == IF delegate THEN 0..MaxSize ELSE {2 * size}
NewSizesByQuarter(requested) ==
  IF delegate THEN {IF n < requested THEN requested ELSE n : n \in 0..MaxSize}
              ELSE {size + size \div 4}
NewSizes(requested) ==
  IF delegate THEN {IF n < requested THEN requested ELSE n : n \in 0..MaxSize}
              ELSE {2 * size}

Realloc(requested) ==
  \E n \in NewSizes(requested) :
    /\ size' = n
    /\ mem' = Resized(mem, size, n)

-----------------------------------------------------------------------------
(* The exported operations.                                                *)

Ready == life = "ready" /\ call = Idle

Init ==
  /\ life = "none" /\ mem = Fresh(0) /\ size = 0 /\ pos = 0 /\ delegate = FALSE
  /\ call = Idle
  /\ reserved = {} /\ holes = {}

BF_Alloc ==
  /\ life = "none"
  /\ life' = "raw"
  /\ mem' = Fresh(0) /\ size' = 0 /\ pos' = 0 /\ delegate' = FALSE
  /\ UNCHANGED <<call, ghosts>>

\* SU_BF_Create is BF_Alloc followed by this; on a buffer already in use it
\* gives the old block back and starts again.
BF_Init ==
  /\ life \in {"raw", "ready"} /\ call = Idle
  /\ \E n \in DefaultSizes, d \in BOOLEAN :
       /\ size' = n /\ mem' = Fresh(n) /\ delegate' = d
  /\ life' = "ready" /\ pos' = 0
  /\ reserved' = {} /\ holes' = {}
  /\ UNCHANGED call

BF_Free ==
  /\ life \in {"raw", "ready"} /\ call = Idle
  /\ life' = "none"
  /\ mem' = Fresh(0) /\ size' = 0 /\ pos' = 0 /\ delegate' = FALSE
  /\ reserved' = {} /\ holes' = {}
  /\ UNCHANGED call

BF_Empty ==
  /\ Ready
  /\ pos' = 0
  /\ reserved' = {} /\ holes' = {}
  /\ UNCHANGED <<life, mem, size, delegate, call>>

\* A request for room: SU_BF_ReserveBytes or SU_BF_AddToBuffer is entered.
Request ==
  /\ Ready
  /\ \/ \E n \in 0..MaxChunk : pos + n <= MaxLength /\ call' = ReserveCall(n)
     \/ \E d \in Chunks : pos + Len(d) <= MaxLength /\ call' = AddCall(d)
  /\ UNCHANGED <<object, ghosts>>

\* One turn of the loop of that request.
Grow ==
  /\ call # Idle /\ NoRoom
  /\ Realloc(pos + call.len)
  /\ UNCHANGED <<life, pos, delegate, call, ghosts>>

BF_ReserveBytes ==
  /\ call.op = "reserve" /\ ~NoRoom
  /\ pos' = pos + call.len
  /\ reserved' = reserved \cup {[at |-> pos, len |-> call.len]}
  /\ holes' = holes \cup (pos + 1)..(pos + call.len)
  /\ call' = Idle
  /\ UNCHANGED <<life, mem, size, delegate>>

BF_AddToBuffer ==
  /\ call.op = "add" /\ ~NoRoom
  /\ mem' = Overlaid(mem, pos, call.data)
  /\ pos' = pos + call.len
  /\ call' = Idle
  /\ UNCHANGED <<life, size, delegate, ghosts>>

\* The header: a reserved position becomes invalid when bytes are consumed.
BF_ConsumeBufferLength ==
  /\ Ready
  /\ \E request \in 0..(MaxLength + 1) :
       LET len == Clamped(request) IN
         /\ pos' = pos - len
         /\ mem' = MovedDown(mem, len, pos - len)
         /\ holes' = {i - len : i \in {h \in holes : h > len}}
  /\ reserved' = {}
  /\ UNCHANGED <<life, size, delegate, call>>

BF_WriteToReservedBytes ==
  /\ Ready
  /\ \E r \in reserved, data \in Chunks :
       /\ Len(data) <= r.len
       /\ mem' = Overlaid(mem, r.at, data)
       /\ holes' = holes \ (r.at + 1)..(r.at + Len(data))
  /\ UNCHANGED <<life, size, pos, delegate, call, reserved>>

BF_ForceResize ==
  /\ Ready /\ 2 * size <= MaxSize
  /\ Realloc(size)
  /\ UNCHANGED <<life, pos, delegate, call, ghosts>>

Next ==
  \/ BF_Alloc \/ BF_Init \/ BF_Free \/ BF_Empty
  \/ Request \/ Grow \/ BF_ReserveBytes \/ BF_AddToBuffer
  \/ BF_ConsumeBufferLength \/ BF_WriteToReservedBytes \/ BF_ForceResize

\* A call that has started goes on: nothing but the caller's own thread is
\* involved.
Fairness == WF_vars(Grow \/ BF_ReserveBytes \/ BF_AddToBuffer)

Spec == Init /\ [][Next]_vars /\ Fairness

-----------------------------------------------------------------------------
(* Properties.                                                             *)

TypeOK ==
  /\ life \in {"none", "raw", "ready"}
  /\ size \in Nat /\ pos \in Nat
  /\ mem \in [1..size -> Cell]
  /\ delegate \in BOOLEAN
  /\ call \in Calls
  /\ reserved \subseteq [at : Nat, len : Nat]
  /\ holes \subseteq Nat \ {0}

\* The position never passes the allocated size, whatever the delegate
\* answers, and every position the client still holds leads to a write
\* inside the bytes of the buffer (SU_BF_Realloc, SU_BF_ReserveBytes and
\* SU_BF_ConsumeBufferLength together).
WithinAllocation ==
  /\ pos <= size
  /\ \A r \in reserved : r.at + r.len <= pos
  /\ holes \subseteq 1..pos

\* Two reservations never share a byte, and the client's own bytes are the
\* only ones a reader of the buffer can meet outside the holes: growth and
\* consumption never expose memory nobody wrote.
NoForeignByte ==
  /\ \A r, s \in reserved :
       r # s => (r.at + 1)..(r.at + r.len) \cap (s.at + 1)..(s.at + s.len) = {}
  /\ \A i \in 1..pos : i \notin holes => mem[i] \in Byte

\* The room a buffer has is never taken back while it holds bytes, even by
\* a delegate that answers less than what is allocated: only SU_BF_Init and
\* SU_BF_Free make it smaller.
NeverShrinks == [][size' >= size \/ BF_Init \/ BF_Free]_vars

\* A request for room always returns (header: the buffer "will be
\* reallocated according to the configured policy").
RequestReturns == (call # Idle) ~> (call = Idle)

\* The buffer is a queue of bytes: what a reader sees is what was appended
\* and filled in, in order, less what was consumed.
Content == [i \in 1..pos |-> IF i \in holes THEN Hole ELSE mem[i]]

Queue == INSTANCE ByteQueue WITH bytes <- Content

QueueInit == Queue!Init
\* Queue!Next with its inputs cut to those a client of this model can give,
\* so that TLC can enumerate them.
QueueStep ==
  \/ \E d \in Chunks : Queue!Enqueue(d)
  \/ \E n \in 0..MaxChunk : Queue!Reserve(n)
  \/ \E at \in 0..MaxLength, d \in Chunks : Queue!Fill(at, d)
  \/ \E n \in 0..MaxLength : Queue!Consume(n)
  \/ Queue!Clear

ImplementsQueue ==
  QueueInit /\ [][QueueStep]_Content
=============================================================================
