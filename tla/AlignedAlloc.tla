---------------------------- MODULE AlignedAlloc ----------------------------
(* SU_malloc, SU_calloc, SU_strdup_memory, SU_realloc, SU_free of memory.c: *)
(* blocks of libc with the user's part moved to an aligned address, and a   *)
(* header of ten bytes before it: the size (8), a key (1), the padding (1). *)
EXTENDS Integers

CONSTANTS Grain,      \* what the addresses of libc's malloc are multiples of
          Top,        \* the arena is 0..Top-1
          Sizes       \* what the client asks for

VARIABLES blocks,     \* what libc has given out: address and length
          header,     \* what is in front of the addresses the client holds
          held,       \* the pointers the client holds
          broken,     \* "no"; "overrun", "null" when a copy went past its block, or to NULL: nothing holds of what follows
          shrunk      \* history: the most bytes a call has taken off a block

allocVars == <<blocks, header, held, broken, shrunk>>

Align == 16           \* SU_MALLOC_ALIGN_SIZE
HeadSize == 10        \* 2 + sizeof(size_t)
HeaderKeys == {"SU_MALLOC_KEY", "overwritten"}

\* Variant of Pad that does not ask whether the header fits in.
PadUnchecked(at) == IF at % Align = 0 THEN Align ELSE at % Align
Pad(at) ==
  LET pad == IF at % Align = 0 THEN Align ELSE at % Align
  IN IF pad < HeadSize THEN pad + Align ELSE pad

Apart(a, n, b, m) == a + n <= b \/ b + m <= a

\* What libc may answer: any place that is not in use. When it refuses, SU_malloc, SU_calloc and SU_strdup_memory tell the client NULL and change
\* nothing: only SU_realloc goes on.
LibcPlaces(len) ==
  {at \in 0..(Top - len) : at % Grain = 0 /\ \A b \in blocks : Apart(at, len, b.at, b.len)}

\* The header of the block at this address, and the headers that a copy of n bytes to it destroys.
HeaderAt(at, size, h) ==
  [p \in DOMAIN h \cup {at + Pad(at)} |->
     IF p = at + Pad(at) THEN [key |-> "SU_MALLOC_KEY", pad |-> Pad(at), size |-> size] ELSE h[p]]
Copied(to, n, h) ==
  [p \in DOMAIN h |-> IF Apart(p - HeadSize, HeadSize, to, n) THEN h[p] ELSE [h[p] EXCEPT !.key = "overwritten"]]

\* Variant of Without that leaves the key of a freed block as it is.
StillThere(p, h) == h
\* SU_MALLOC_KEY2 is written over the key; then the memory is libc's, and nothing may rely on what is in it.
Without(p, h) == [q \in DOMAIN h \ {p} |-> h[q]]

AllocInit == blocks = {} /\ header = << >> /\ held = {} /\ broken = "no" /\ shrunk = 0

SU_malloc ==
  \E size \in Sizes : \E at \in LibcPlaces(size + 2 * Align) :
    /\ blocks' = blocks \cup {[at |-> at, len |-> size + 2 * Align]}
    /\ header' = HeaderAt(at, size, header)
    /\ held' = held \cup {at + Pad(at)}
    /\ UNCHANGED <<broken, shrunk>>

\* A new block whose bytes are all written: cleared, or with a text and its NUL.
Filled(size) ==
  \E at \in LibcPlaces(size + 2 * Align) :
    /\ blocks' = blocks \cup {[at |-> at, len |-> size + 2 * Align]}
    /\ header' = Copied(at + Pad(at), size, HeaderAt(at, size, header))
    /\ held' = held \cup {at + Pad(at)}
    /\ UNCHANGED <<broken, shrunk>>
SU_calloc == \E size \in Sizes : Filled(size)
SU_strdup_memory == \E size \in Sizes : Filled(size)

\* The new block is taken, and as many bytes copied as the old one has, before the old one is freed: whether they fit in nobody asks. So a copy
\* into a block that is smaller by more than what its padding leaves goes past its end; and one of a block that libc refused goes to NULL.
SU_realloc ==
  \E p \in held, size \in Sizes :
    /\ header[p].key = "SU_MALLOC_KEY"
    /\ shrunk' = IF header[p].size - size > shrunk THEN header[p].size - size ELSE shrunk
    /\ \/ \E at \in LibcPlaces(size + 2 * Align) :
            /\ Pad(at) + header[p].size <= size + 2 * Align
            /\ header' = Without(p, Copied(at + Pad(at), header[p].size, HeaderAt(at, size, header)))
            /\ blocks' = {b \in blocks : b.at # p - header[p].pad} \cup {[at |-> at, len |-> size + 2 * Align]}
            /\ held' = (held \ {p}) \cup {at + Pad(at)}
            /\ UNCHANGED broken
       \/ \E at \in LibcPlaces(size + 2 * Align) :
            /\ Pad(at) + header[p].size > size + 2 * Align
            /\ broken' = "overrun" /\ UNCHANGED <<blocks, header, held>>
       \/ broken' = "null" /\ UNCHANGED <<blocks, header, held>>

SU_free ==
  \E p \in held :
    /\ header[p].key = "SU_MALLOC_KEY"
    /\ header' = Without(p, header)
    /\ blocks' = {b \in blocks : b.at # p - header[p].pad}
    /\ held' = held \ {p}
    /\ UNCHANGED <<broken, shrunk>>

AllocNext == broken = "no" /\ (SU_malloc \/ SU_calloc \/ SU_strdup_memory \/ SU_realloc \/ SU_free)
AllocSpec == AllocInit /\ [][AllocNext]_allocVars
-----------------------------------------------------------------------------
AllocTypeOK ==
  /\ \A b \in blocks : b.at \in 0..Top /\ b.len \in Nat
  /\ \A p \in DOMAIN header : header[p].key \in HeaderKeys
  /\ DOMAIN header = held
  /\ broken \in {"no", "overrun", "null"} /\ shrunk \in Nat

\* What is behind the bytes of every block at the least: the largest padding is 24, of an address 8 behind a multiple of 16.
Slack == 2 * Align - 24

\* Every pointer the client holds is aligned; its header, with the key and the padding as written, and its bytes are inside of one block of libc
\* that begins where SU_free will say it does. So no header is under the bytes of another block, whatever was resized and copied before, as long
\* as no copy has gone past the end of its block: and none goes there before a block was made smaller by more than the slack behind it.
HeldBlocksAreWhole ==
  /\ broken = "overrun" => shrunk > Slack
  /\ broken = "no" =>
       \A p \in held :
         LET h == header[p] at == p - h.pad IN
         /\ p % Align = 0 /\ h.key = "SU_MALLOC_KEY"
         /\ \E b \in blocks : b.at = at /\ at <= p - HeadSize /\ p + h.size <= at + b.len
=============================================================================
