-------------------------- MODULE StructuresProofs --------------------------
(***************************************************************************)
(* Theorems about the parts that Structures composes: they keep their      *)
(* types, and more of three of them.                                       *)
(*                                                                         *)
(* AlignedAlloc, for an arena and requests of any size and any libc that   *)
(* aligns to a multiple of eight: every block the client holds is whole.   *)
(* The invariant is one of any blocks, headers and pointers, since         *)
(* SU_realloc goes through a state in which both the old and the new block *)
(* are held.                                                               *)
(*                                                                         *)
(* LinkedList, for a heap of any size: the chain has all the cells that    *)
(* are used, and keeps their order. The invariant says nothing of the walk *)
(* over the cells: it gives them numbers, and each cell is linked to the   *)
(* one with the next number. That the walk meets them in this order is a   *)
(* lemma, by least counterexample over the steps it still has to go.       *)
(*                                                                         *)
(* Archive, for files, contents and programs of any size: while a close    *)
(* goes on, the first resources lie in the file, each header at its place; *)
(* afterwards what was promised lies in it from some place on, as far as   *)
(* the file goes. That a reader who starts anywhere SU_AR_OpenArchive may  *)
(* start finds what lies there is a lemma, by least counterexample over    *)
(* the headers he still has to read.                                       *)
(***************************************************************************)
EXTENDS Structures, TLAPS, SequenceTheorems, FiniteSetTheorems, NaturalsInduction, WellFoundedInduction

Assumptions ==
  /\ \E k \in Nat \ {0} : Grain = 8 * k
  /\ Top \in Nat /\ Sizes \subseteq Nat

Records == [key : HeaderKeys, pad : {16, 24}, size : Nat]
Blocks == [at : Nat, len : Nat]

\* Where the block of libc begins that this pointer is in, by its header, and the block.
Start(p, h) == p - h[p].pad
BlockOf(p, h) == [at |-> Start(p, h), len |-> h[p].size + 2 * Align]

AllApart(B) == \A b, c \in B : b = c \/ Apart(b.at, b.len, c.at, c.len)
HeldWell(p, h, B) ==
  /\ p \in Nat /\ p % Align = 0 /\ h[p].key = "SU_MALLOC_KEY"
  /\ Start(p, h) \in Nat /\ BlockOf(p, h) \in B
Well(B, h, P) ==
  /\ B \subseteq Blocks /\ \A b \in B : b.at \in 0..Top /\ b.len >= 2 * Align
  /\ h \in [P -> Records]
  /\ AllApart(B)
  /\ \A p \in P : HeldWell(p, h, B)
  /\ \A p, q \in P : Start(p, h) = Start(q, h) => p = q
IInv ==
  /\ Well(blocks, header, held)
  /\ broken \in {"no", "overrun", "null"} /\ shrunk \in Nat
  /\ broken = "overrun" => shrunk > Slack

-----------------------------------------------------------------------------
\* The pointer is aligned, behind a header that fits.
LEMMA PadAligns ==
  ASSUME Assumptions, NEW at \in Nat, at % Grain = 0
  PROVE  Pad(at) \in {16, 24} /\ (at + Pad(at)) % Align = 0
<1>1. PICK k \in Nat \ {0} : Grain = 8 * k BY DEF Assumptions
<1>2. at = Grain * (at \div Grain) /\ at \div Grain \in Nat
  <2>1. Grain \in Nat \ {0} BY <1>1
  <2> QED BY <2>1
<1>3. PICK j \in Nat : at = 8 * j
  <2>1. PICK q \in Nat : at = Grain * q BY <1>2
  <2>2. at = 8 * (k * q) /\ k * q \in Nat BY <1>1, <2>1
  <2> QED BY <2>2
<1>4. at % 16 = 0 \/ at % 16 = 8 BY <1>3
<1>5. CASE at % 16 = 0 BY <1>5 DEF Pad, Align, HeadSize
<1>6. CASE at % 16 = 8
  <2>1. Pad(at) = 24 BY <1>6 DEF Pad, Align, HeadSize
  <2>2. (at + 24) % 16 = 0 BY <1>6
  <2> QED BY <2>1, <2>2 DEF Align
<1> QED BY <1>4, <1>5, <1>6

\* Where libc puts a block: padded by 16 or 24, so that what was asked for fits behind the padding.
LEMMA PlaceIsPadded ==
  ASSUME Assumptions, NEW n, NEW at \in LibcPlaces(n)
  PROVE  at \in Nat /\ Pad(at) \in {16, 24}
<1>1. at \in Nat /\ at % Grain = 0 BY DEF LibcPlaces
<1> QED BY <1>1, PadAligns

LEMMA PlaceHasRoom ==
  ASSUME Assumptions, NEW size \in Nat, NEW at \in LibcPlaces(size + 2 * Align)
  PROVE  Pad(at) + 0 <= size + 2 * Align /\ Pad(at) + size <= size + 2 * Align
<1>1. Pad(at) \in {16, 24} BY PlaceIsPadded
<1> QED BY <1>1 DEF Align

\* A new block with its header, while n bytes are written behind it: nothing that is held is touched.
LEMMA NewBlockKeeps ==
  ASSUME Assumptions, Well(blocks, header, held),
         NEW size \in Nat, NEW at \in LibcPlaces(size + 2 * Align), NEW n \in Nat, Pad(at) + n <= size + 2 * Align,
         NEW g, g = Copied(at + Pad(at), n, HeaderAt(at, size, header)) \/ g = HeaderAt(at, size, header)
  PROVE  /\ Well(blocks \cup {[at |-> at, len |-> size + 2 * Align]}, g, held \cup {at + Pad(at)})
         /\ at + Pad(at) \notin held
         /\ \A p \in held : g[p] = header[p] /\ Start(p, header) # at
<1> DEFINE new == at + Pad(at)
           block == [at |-> at, len |-> size + 2 * Align]
           B == blocks \cup {block}
<1>1. /\ at \in Nat /\ at \in 0..Top /\ at % Grain = 0
      /\ \A b \in blocks : Apart(at, size + 2 * Align, b.at, b.len)
  BY DEF LibcPlaces, Assumptions, Align
<1>2. Pad(at) \in {16, 24} /\ new % Align = 0 BY <1>1, PadAligns
<1>3. new \in Nat BY <1>1, <1>2
<1>4. ASSUME NEW p \in held
      PROVE  /\ p \in Nat /\ p # new /\ Start(p, header) # at /\ Apart(p - HeadSize, HeadSize, new, n)
             /\ header[p].pad \in {16, 24} /\ header[p].size \in Nat /\ header[p].key = "SU_MALLOC_KEY"
  <2>1. /\ p \in Nat /\ header[p].pad \in {16, 24} /\ header[p].size \in Nat
        /\ header[p].key = "SU_MALLOC_KEY" /\ Start(p, header) \in Nat /\ BlockOf(p, header) \in blocks
    BY DEF Well, HeldWell, Records
  <2>2. Apart(at, size + 2 * Align, Start(p, header), header[p].size + 2 * Align) BY <1>1, <2>1 DEF BlockOf
  <2> QED BY <1>1, <1>2, <2>1, <2>2 DEF Apart, Start, Align, HeadSize
<1>5. DOMAIN header = held BY DEF Well
<1>6. /\ DOMAIN g = held \cup {new} /\ g = [p \in held \cup {new} |-> g[p]]
      /\ \A p \in held : g[p] = header[p]
      /\ g[new] = [key |-> "SU_MALLOC_KEY", pad |-> Pad(at), size |-> size]
  <2>1. /\ DOMAIN HeaderAt(at, size, header) = held \cup {new}
        /\ HeaderAt(at, size, header) = [p \in held \cup {new} |-> HeaderAt(at, size, header)[p]]
        /\ \A p \in held : HeaderAt(at, size, header)[p] = header[p]
        /\ HeaderAt(at, size, header)[new] = [key |-> "SU_MALLOC_KEY", pad |-> Pad(at), size |-> size]
    BY <1>4, <1>5 DEF HeaderAt
  <2>2. CASE g = HeaderAt(at, size, header) BY <2>1, <2>2
  <2>3. CASE g = Copied(new, n, HeaderAt(at, size, header))
    <3>1. Apart(new - HeadSize, HeadSize, new, n) BY <1>3 DEF Apart, HeadSize
    <3> HIDE DEF new
    <3>2. \A p \in held \cup {new} : Apart(p - HeadSize, HeadSize, new, n) BY <1>4, <3>1
    <3>3. g = [p \in held \cup {new} |-> HeaderAt(at, size, header)[p]]
      BY <2>1, <2>3, <3>2 DEF Copied
    <3> QED BY <2>1, <3>3
  <2> QED BY <2>2, <2>3
<1>7. g \in [held \cup {new} -> Records]
  <2>1. \A p \in held : header[p] \in Records BY DEF Well
  <2>2. [key |-> "SU_MALLOC_KEY", pad |-> Pad(at), size |-> size] \in Records BY <1>2 DEF Records, HeaderKeys
  <2> HIDE DEF new
  <2> QED BY <1>6, <2>1, <2>2
<1>8. B \subseteq Blocks /\ \A b \in B : b.at \in 0..Top /\ b.len >= 2 * Align
  BY <1>1 DEF Well, Blocks, Align
<1>9. AllApart(B)
  <2> SUFFICES ASSUME NEW b \in B, NEW c \in B PROVE b = c \/ Apart(b.at, b.len, c.at, c.len)
    BY DEF AllApart
  <2>1. CASE b \in blocks /\ c \in blocks BY <2>1 DEF Well, AllApart
  <2>2. CASE b = block /\ c \in blocks BY <1>1, <2>2
  <2>3. CASE c = block /\ b \in blocks BY <1>1, <2>3 DEF Apart
  <2>4. CASE b = block /\ c = block BY <2>4
  <2> QED BY <2>1, <2>2, <2>3, <2>4
<1>10. Start(new, g) = at
  <2>1. g[new].pad = Pad(at) BY <1>6
  <2>2. (at + Pad(at)) - Pad(at) = at BY <1>1, <1>2
  <2> QED BY <2>1, <2>2 DEF Start
<1>11. \A p \in held : Start(p, g) = Start(p, header) BY <1>6 DEF Start
<1>12. ASSUME NEW p \in held \cup {new} PROVE HeldWell(p, g, B)
  <2>1. CASE p \in held
    <3>1. g[p] = header[p] /\ Start(p, g) = Start(p, header) BY <1>6, <1>11, <2>1
    <3>2. BlockOf(p, g) = BlockOf(p, header) BY <3>1 DEF BlockOf
    <3> QED BY <2>1, <3>1, <3>2 DEF Well, HeldWell
  <2>2. CASE p = new
    <3>1. g[p].key = "SU_MALLOC_KEY" /\ g[p].size = size BY <1>6, <2>2
    <3>2. BlockOf(p, g) = block BY <1>10, <2>2, <3>1 DEF BlockOf
    <3> QED BY <1>1, <1>2, <1>3, <1>10, <2>2, <3>1, <3>2 DEF HeldWell
  <2> QED BY <2>1, <2>2
<1>13. ASSUME NEW p \in held \cup {new}, NEW q \in held \cup {new}, Start(p, g) = Start(q, g) PROVE p = q
  <2>1. \A r \in held : Start(r, g) # at BY <1>4, <1>11
  <2>2. \A r, s \in held : Start(r, g) = Start(s, g) => r = s BY <1>11 DEF Well
  <2> HIDE DEF new
  <2> QED BY <1>10, <1>13, <2>1, <2>2
<1>14. Well(B, g, held \cup {new}) BY <1>7, <1>8, <1>9, <1>12, <1>13 DEF Well
<1> QED BY <1>4, <1>6, <1>14

\* A block that is given back takes only its own pointer with it.
LEMMA ReleaseKeeps ==
  ASSUME NEW B, NEW h, NEW P, Well(B, h, P), NEW p \in P
  PROVE  Well({b \in B : b.at # Start(p, h)}, Without(p, h), P \ {p})
<1> DEFINE C == {b \in B : b.at # Start(p, h)}
           g == Without(p, h)
<1>1. g \in [P \ {p} -> Records] /\ \A q \in P \ {p} : g[q] = h[q] BY DEF Well, Without
<1>2. \A q \in P \ {p} : Start(q, g) = Start(q, h) /\ BlockOf(q, g) = BlockOf(q, h) BY <1>1 DEF Start, BlockOf
<1>3. C \subseteq B OBVIOUS
<1>4. ASSUME NEW q \in P \ {p} PROVE HeldWell(q, g, C)
  <2>1. Start(q, h) # Start(p, h) BY DEF Well
  <2>2. BlockOf(q, h) \in C BY <2>1 DEF Well, HeldWell, BlockOf
  <2> HIDE DEF C, g
  <2> QED BY <1>1, <1>2, <2>2 DEF Well, HeldWell
<1>5. \A q, r \in P \ {p} : Start(q, g) = Start(r, g) => q = r BY <1>2 DEF Well
<1> HIDE DEF C, g
<1> QED BY <1>1, <1>3, <1>4, <1>5 DEF Well, AllApart, C, g

LEMMA CopyKeeps ==
  ASSUME Assumptions, Well(blocks, header, held),
         NEW size \in Nat, NEW at \in LibcPlaces(size + 2 * Align), NEW n \in Nat, Pad(at) + n <= size + 2 * Align
  PROVE  /\ Well(blocks \cup {[at |-> at, len |-> size + 2 * Align]}, Copied(at + Pad(at), n, HeaderAt(at, size, header)),
                 held \cup {at + Pad(at)})
         /\ at + Pad(at) \notin held
         /\ \A q \in held : Copied(at + Pad(at), n, HeaderAt(at, size, header))[q] = header[q] /\ Start(q, header) # at
<1>1. PICK g : g = Copied(at + Pad(at), n, HeaderAt(at, size, header)) OBVIOUS
<1>3. g = Copied(at + Pad(at), n, HeaderAt(at, size, header)) \/ g = HeaderAt(at, size, header) BY <1>1
<1>2. /\ Well(blocks \cup {[at |-> at, len |-> size + 2 * Align]}, g, held \cup {at + Pad(at)})
      /\ at + Pad(at) \notin held /\ \A p \in held : g[p] = header[p] /\ Start(p, header) # at
  BY <1>3, NewBlockKeeps, ZenonT(60)
<1> QED BY <1>1, <1>2

\* What SU_realloc leaves when the copy fits: the new block and its header, without the old ones.
LEMMA ResizedKeeps ==
  ASSUME Assumptions, Well(blocks, header, held),
         NEW p \in held, NEW size \in Nat, NEW at \in LibcPlaces(size + 2 * Align),
         Pad(at) + header[p].size <= size + 2 * Align
  PROVE  Well({b \in blocks : b.at # p - header[p].pad} \cup {[at |-> at, len |-> size + 2 * Align]},
              Without(p, Copied(at + Pad(at), header[p].size, HeaderAt(at, size, header))),
              (held \ {p}) \cup {at + Pad(at)})
<1> DEFINE g == Copied(at + Pad(at), header[p].size, HeaderAt(at, size, header))
           block == [at |-> at, len |-> size + 2 * Align]
           new == at + Pad(at)
<1>1. header[p].size \in Nat BY DEF Well, Records
<1>2. Well(blocks \cup {block}, g, held \cup {new}) /\ new \notin held /\ g[p] = header[p] /\ Start(p, header) # at
  <2>1. PICK n \in Nat : n = header[p].size /\ Pad(at) + n <= size + 2 * Align BY <1>1
  <2> HIDE DEF g, block, new
  <2>2. /\ Well(blocks \cup {block}, Copied(new, n, HeaderAt(at, size, header)), held \cup {new})
        /\ new \notin held
        /\ \A q \in held : Copied(new, n, HeaderAt(at, size, header))[q] = header[q] /\ Start(q, header) # at
    BY <2>1, CopyKeeps DEF block, new
  <2>3. g = Copied(new, n, HeaderAt(at, size, header)) BY <2>1 DEF g, new
  <2> QED BY <2>2, <2>3
<1>3. Start(p, g) = Start(p, header) BY <1>2 DEF Start
<1>4. Well({b \in blocks \cup {block} : b.at # Start(p, g)}, Without(p, g), (held \cup {new}) \ {p})
  BY <1>2, ReleaseKeeps
<1>5. {b \in blocks \cup {block} : b.at # Start(p, g)} = {b \in blocks : b.at # p - header[p].pad} \cup {block}
  <2>1. block.at # Start(p, header) BY <1>2
  <2> HIDE DEF block, g
  <2> QED BY <1>3, <2>1 DEF Start
<1>6. (held \cup {new}) \ {p} = (held \ {p}) \cup {new} BY <1>2
<1> HIDE DEF g, block, new
<1>7. Well({b \in blocks : b.at # p - header[p].pad} \cup {block}, Without(p, g), (held \ {p}) \cup {new})
  BY <1>4, <1>5, <1>6
<1> QED BY <1>7 DEF g, block, new

LEMMA StepKeepsIInv ==
  ASSUME Assumptions, IInv, [AllocNext]_allocVars
  PROVE  IInv'
<1>1. CASE SU_malloc
  <2>1. PICK size \in Sizes : \E at \in LibcPlaces(size + 2 * Align) :
          /\ blocks' = blocks \cup {[at |-> at, len |-> size + 2 * Align]}
          /\ header' = HeaderAt(at, size, header)
          /\ held' = held \cup {at + Pad(at)} /\ UNCHANGED <<broken, shrunk>>
    BY <1>1 DEF SU_malloc
  <2>2. PICK at \in LibcPlaces(size + 2 * Align) :
          /\ blocks' = blocks \cup {[at |-> at, len |-> size + 2 * Align]}
          /\ header' = HeaderAt(at, size, header)
          /\ held' = held \cup {at + Pad(at)} /\ UNCHANGED <<broken, shrunk>>
    BY <2>1
  <2>3. size \in Nat /\ 0 \in Nat /\ Pad(at) + 0 <= size + 2 * Align BY PlaceHasRoom DEF Assumptions
  <2>4. Well(blocks', header', held') BY <2>2, <2>3, NewBlockKeeps DEF IInv
  <2> QED BY <2>2, <2>4 DEF IInv
<1>2. ASSUME NEW size \in Sizes, Filled(size) PROVE IInv'
  <2>1. PICK at \in LibcPlaces(size + 2 * Align) :
          /\ blocks' = blocks \cup {[at |-> at, len |-> size + 2 * Align]}
          /\ header' = Copied(at + Pad(at), size, HeaderAt(at, size, header))
          /\ held' = held \cup {at + Pad(at)} /\ UNCHANGED <<broken, shrunk>>
    BY <1>2 DEF Filled
  <2>2. size \in Nat /\ Pad(at) + size <= size + 2 * Align BY PlaceHasRoom DEF Assumptions
  <2>3. Well(blocks', header', held') BY <2>1, <2>2, NewBlockKeeps DEF IInv
  <2> QED BY <2>1, <2>3 DEF IInv
<1>3. CASE SU_realloc
  <2>1. PICK p \in held, size \in Sizes :
          /\ shrunk' = IF header[p].size - size > shrunk THEN header[p].size - size ELSE shrunk
          /\ \/ \E at \in LibcPlaces(size + 2 * Align) :
                  /\ Pad(at) + header[p].size <= size + 2 * Align
                  /\ header' = Without(p, Copied(at + Pad(at), header[p].size, HeaderAt(at, size, header)))
                  /\ blocks' = {b \in blocks : b.at # p - header[p].pad} \cup {[at |-> at, len |-> size + 2 * Align]}
                  /\ held' = (held \ {p}) \cup {at + Pad(at)}
                  /\ UNCHANGED broken
             \/ \E at \in LibcPlaces(size + 2 * Align) :
                  /\ Pad(at) + header[p].size > size + 2 * Align
                  /\ broken' = "overrun" /\ UNCHANGED <<blocks, header, held>>
             \/ broken' = "null" /\ UNCHANGED <<blocks, header, held>>
    BY <1>3, Zenon DEF SU_realloc
  <2>2. header[p].size \in Nat /\ size \in Nat /\ shrunk \in Nat BY DEF IInv, Well, Records, Assumptions
  <2>3. shrunk' \in Nat /\ shrunk' >= shrunk /\ shrunk' >= header[p].size - size BY <2>1, <2>2
  <2>4. ASSUME NEW at \in LibcPlaces(size + 2 * Align),
               Pad(at) + header[p].size <= size + 2 * Align,
               header' = Without(p, Copied(at + Pad(at), header[p].size, HeaderAt(at, size, header))),
               blocks' = {b \in blocks : b.at # p - header[p].pad} \cup {[at |-> at, len |-> size + 2 * Align]},
               held' = (held \ {p}) \cup {at + Pad(at)}, UNCHANGED broken
        PROVE  IInv'
    <3>1. Well(blocks', header', held') BY <2>2, <2>4, ResizedKeeps DEF IInv
    <3>2. broken' = "overrun" => shrunk' > Slack BY <2>2, <2>3, <2>4 DEF IInv, Slack, Align
    <3> QED BY <2>3, <2>4, <3>1, <3>2 DEF IInv
  <2>5. ASSUME NEW at \in LibcPlaces(size + 2 * Align),
               Pad(at) + header[p].size > size + 2 * Align,
               broken' = "overrun", UNCHANGED <<blocks, header, held>>
        PROVE  IInv'
    <3>1. Pad(at) \in {16, 24} BY PlaceIsPadded
    <3>2. shrunk' > Slack BY <2>2, <2>3, <2>5, <3>1 DEF Slack, Align
    <3> QED BY <2>3, <2>5, <3>2 DEF IInv
  <2>6. ASSUME broken' = "null", UNCHANGED <<blocks, header, held>> PROVE IInv'
    BY <2>3, <2>6 DEF IInv
  <2> QED BY <2>1, <2>4, <2>5, <2>6, Zenon
<1>4. CASE SU_free
  <2>1. PICK p \in held :
          /\ header' = Without(p, header)
          /\ blocks' = {b \in blocks : b.at # Start(p, header)}
          /\ held' = held \ {p} /\ UNCHANGED <<broken, shrunk>>
    BY <1>4 DEF SU_free, Start
  <2>2. Well(blocks', header', held') BY <2>1, ReleaseKeeps DEF IInv
  <2> QED BY <2>1, <2>2 DEF IInv
<1>5. CASE UNCHANGED allocVars BY <1>5 DEF allocVars, IInv
<1> QED BY <1>1, <1>2, <1>3, <1>4, <1>5 DEF AllocNext, SU_calloc, SU_strdup_memory

\* The blocks, the headers and the pointers keep their types (memory.c:107-195).
THEOREM TypeCorrect ==
  ASSUME Assumptions
  PROVE  AllocSpec => []AllocTypeOK
<1>1. AllocInit => IInv
  <2>1. AllocInit => Well(blocks, header, held) BY DEF AllocInit, Well, AllApart
  <2> QED BY <2>1 DEF AllocInit, IInv
<1>2. IInv /\ [AllocNext]_allocVars => IInv' BY StepKeepsIInv
<1>3. IInv => AllocTypeOK BY DEF IInv, Well, Blocks, Records, AllocTypeOK
<1> QED BY <1>1, <1>2, <1>3, PTL DEF AllocSpec

\* Whatever is allocated, resized to any size and freed, in any order and at any addresses: a pointer the client holds is aligned, its header is
\* as SU_malloc wrote it, and header and bytes are in one block that begins where SU_free will say, until SU_realloc has copied past the end of
\* its new block or to NULL; and it has not copied past the end of one before it took more than eight bytes off a block.
THEOREM BlocksStayWhole ==
  ASSUME Assumptions
  PROVE  AllocSpec => []HeldBlocksAreWhole
<1>1. AllocInit => IInv
  <2>1. AllocInit => Well(blocks, header, held) BY DEF AllocInit, Well, AllApart
  <2> QED BY <2>1 DEF AllocInit, IInv
<1>2. IInv /\ [AllocNext]_allocVars => IInv' BY StepKeepsIInv
<1>3. IInv => HeldBlocksAreWhole
  <2> SUFFICES ASSUME IInv, NEW p \in held, broken = "no"
               PROVE  /\ p % Align = 0 /\ header[p].key = "SU_MALLOC_KEY"
                      /\ \E b \in blocks : /\ b.at = p - header[p].pad /\ p - header[p].pad <= p - HeadSize
                                           /\ p + header[p].size <= p - header[p].pad + b.len
    BY DEF HeldBlocksAreWhole, IInv
  <2>1. HeldWell(p, header, blocks) /\ header[p].pad \in {16, 24} /\ header[p].size \in Nat BY DEF IInv, Well, Records
  <2>2. /\ BlockOf(p, header).at = p - header[p].pad /\ BlockOf(p, header).len = header[p].size + 32
        /\ BlockOf(p, header) \in blocks
    BY <2>1 DEF HeldWell, BlockOf, Start, Align
  <2>3. p \in Nat /\ p - header[p].pad <= p - HeadSize /\ p + header[p].size <= p - header[p].pad + (header[p].size + 32)
    BY <2>1 DEF HeldWell, HeadSize
  <2> QED BY <2>1, <2>2, <2>3 DEF HeldWell
<1> QED BY <1>1, <1>2, <1>3, PTL DEF AllocSpec

-----------------------------------------------------------------------------
(* LinkedList: a chain of cells is in order if numbers can be given to its  *)
(* cells such that each cell is linked to the one with the next number.     *)

ListLinks == [next : Cells \cup {Null}, data : List!Data]
\* Of the cells in u, x is the one with the lowest number from k on, or there is none.
First(u, r, k, x) ==
  \/ x = Null /\ \A d \in u : r[d] < k
  \/ x \in u /\ r[x] >= k /\ \A d \in u : r[d] >= k => r[x] <= r[d]
InOrder(u, head, content, r) ==
  /\ r \in [u -> Nat] /\ \A c, d \in u : r[c] = r[d] => c = d
  /\ First(u, r, 0, head)
  /\ \A c \in u : First(u, r, r[c] + 1, content[c].next)
Chained(r) == InOrder(list_used, list_list, list_cell, r)
ListInv == List!TypeOK /\ \E r \in [list_used -> Nat] : Chained(r)

\* A set of naturals with an element has a least one.
LEMMA LeastOf ==
  ASSUME NEW S \in SUBSET Nat, S # {}
  PROVE  \E x \in S : \A y \in S : x <= y
<1>1. \E x \in S : \A y \in S : ~(<<y, x>> \in OpToRel(<, Nat))
  BY WFMin, NatLessThanWellFounded, Zenon
<1>2. \E x \in S : \A y \in S : ~(y < x)
  BY <1>1, Zenon DEF OpToRel
<1> QED
  BY <1>2

-----------------------------------------------------------------------------
\* The walk over the cells, row by row: from each cell n steps on.
Row(n, w) == [c \in Cells \cup {Null} |-> IF c = Null \/ n = 0 THEN << >> ELSE <<c>> \o w[list_cell[c].next]]

LEMMA WalkByRows ==
  /\ Cardinality(Cells) \in Nat
  /\ \A n \in 0..Cardinality(Cells) : List!Walk[n] = Row(n, List!Walk[n - 1])
<1> DEFINE Rows(k, f) == f = [n \in 0..k |-> Row(n, f[n - 1])]
           T == {k \in Nat : ~ \E f : Rows(k, f)}
<1>1. Cardinality(Cells) \in Nat
  BY StructuresAssumption, FS_CardinalityType
<1>2. \A v, w : Row(0, v) = Row(0, w)
  BY DEF Row
<1>3. T = {}
  <2> SUFFICES ASSUME T # {} PROVE FALSE
    OBVIOUS
  <2>1. T \in SUBSET Nat
    OBVIOUS
  <2> HIDE DEF T
  <2>2. PICK m \in T : \A y \in T : m <= y
    BY <2>1, LeastOf
  <2> USE DEF T
  <2>3. m \in Nat /\ ~ \E f : Rows(m, f)
    BY <2>2
  <2>4. CASE m = 0
    <3> DEFINE f == [n \in 0..0 |-> Row(0, << >>)]
    <3>1. \A n \in 0..0 : n = 0
      OBVIOUS
    <3>2. \A n \in 0..0 : Row(0, << >>) = Row(n, f[n - 1])
      <4> HIDE DEF f
      <4> QED BY <1>2, <3>1
    <3>3. [n \in 0..0 |-> Row(0, << >>)] = [n \in 0..0 |-> Row(n, f[n - 1])]
      BY <3>2, Zenon
    <3>4. Rows(0, f)
      BY <3>3
    <3> QED BY <2>3, <2>4, <3>4
  <2>5. CASE m # 0
    <3>1. m - 1 \in Nat /\ ~(m <= m - 1)
      BY <2>3, <2>5
    <3>2. ~(m - 1 \in T)
      BY <2>2, <3>1
    <3>3. PICK f : Rows(m - 1, f)
      BY <3>1, <3>2
    <3> DEFINE g == [n \in 0..m |-> IF n = m THEN Row(m, f[m - 1]) ELSE f[n]]
    <3>4. g[m - 1] = f[m - 1]
      BY <3>1
    <3>5. \A n \in 0..m : g[n] = Row(n, g[n - 1])
      <4> SUFFICES ASSUME NEW n \in 0..m PROVE g[n] = Row(n, g[n - 1])
        OBVIOUS
      <4>1. CASE n = m
        BY <3>4, <4>1
      <4>2. CASE n # m
        <5>1. n \in 0..(m - 1) /\ g[n] = f[n]
          BY <2>3, <4>2
        <5>2. f[n] = Row(n, f[n - 1])
          BY <3>3, <5>1
        <5>3. CASE n = 0
          BY <1>2, <5>1, <5>2, <5>3
        <5>4. CASE n # 0
          <6>1. n - 1 \in 0..m /\ n - 1 # m
            BY <2>3, <5>1, <5>4
          <6>2. g[n - 1] = f[n - 1]
            BY <6>1
          <6> QED BY <5>1, <5>2, <6>2
        <5> QED BY <5>3, <5>4
      <4> QED BY <4>1, <4>2
    <3>6. \A n \in 0..m : (IF n = m THEN Row(m, f[m - 1]) ELSE f[n]) = Row(n, g[n - 1])
      BY <3>5
    <3>7. [n \in 0..m |-> IF n = m THEN Row(m, f[m - 1]) ELSE f[n]] = [n \in 0..m |-> Row(n, g[n - 1])]
      <4> HIDE DEF g
      <4> QED BY <3>6, Zenon
    <3>8. Rows(m, g)
      BY <3>7
    <3> QED BY <2>3, <3>8
  <2> QED BY <2>4, <2>5
<1>4. \E f : Rows(Cardinality(Cells), f)
  BY <1>1, <1>3
<1>5. List!Walk = CHOOSE f : Rows(Cardinality(Cells), f)
  BY Zenon DEF List!Walk, Row, List!Cardinality, Cardinality, List!IsFiniteSet, IsFiniteSet
<1>6. Rows(Cardinality(Cells), List!Walk)
  <2> HIDE DEF Rows
  <2> QED BY <1>4, <1>5, Zenon
<1> QED
  BY <1>1, <1>6

-----------------------------------------------------------------------------
\* The cells from c on, and what a walk from c that goes to the end has met: each of these once, in order, and the last one.
From(r, c) == IF c = Null THEN {} ELSE {d \in list_used : r[d] >= r[c]}
Walked(r, w, c) ==
  /\ w \in Seq(list_used)
  /\ \A i \in 1..Len(w) : w[i] \in From(r, c)
  /\ \A d \in From(r, c) : \E i \in 1..Len(w) : w[i] = d
  /\ \A i, j \in 1..Len(w) : i < j => r[w[i]] < r[w[j]]
  /\ IF c = Null THEN Len(w) = 0 ELSE Len(w) # 0 /\ w[1] = c /\ list_cell[w[Len(w)]].next = Null

\* What is behind a cell.
LEMMA FromNext ==
  ASSUME List!TypeOK, NEW r, Chained(r), NEW c \in list_used
  PROVE  LET x == list_cell[c].next
         IN /\ c \in Cells /\ c # Null /\ x \in list_used \cup {Null}
            /\ From(r, x) = From(r, c) \ {c} /\ c \in From(r, c)
            /\ \A d \in From(r, x) : r[c] < r[d]
<1> DEFINE x == list_cell[c].next
<1>1. list_used \subseteq Cells /\ c \in Cells /\ c # Null
  BY StructuresAssumption DEF List!TypeOK
<1>2. First(list_used, r, r[c] + 1, x) /\ r \in [list_used -> Nat] /\ \A d, e \in list_used : r[d] = r[e] => d = e
  BY DEF Chained, InOrder
<1> HIDE DEF x
<1>3. \A d \in list_used : r[d] \in Nat
  BY <1>2
<1>4. From(r, c) = {d \in list_used : r[d] >= r[c]}
  BY <1>1 DEF From
<1>5. c \in From(r, c)
  BY <1>3, <1>4
<1>6. \A d \in list_used : r[d] >= r[c] + 1 <=> (r[d] >= r[c] /\ d # c)
  BY <1>2, <1>3
<1>7. CASE x = Null /\ \A d \in list_used : r[d] < r[c] + 1
  <2>1. \A d \in list_used : ~(r[d] >= r[c] + 1)
    BY <1>3, <1>7
  <2>2. From(r, x) = {}
    BY <1>7 DEF From
  <2>3. From(r, c) \ {c} = {}
    BY <1>4, <1>6, <2>1
  <2> QED BY <1>1, <1>5, <1>7, <2>2, <2>3 DEF x
<1>8. CASE x \in list_used /\ r[x] >= r[c] + 1 /\ \A d \in list_used : r[d] >= r[c] + 1 => r[x] <= r[d]
  <2>1. x # Null
    BY <1>1, <1>8, StructuresAssumption
  <2>2. From(r, x) = {d \in list_used : r[d] >= r[x]}
    BY <2>1 DEF From
  <2>3. \A d \in list_used : r[d] >= r[x] <=> r[d] >= r[c] + 1
    BY <1>3, <1>8
  <2>4. From(r, x) = From(r, c) \ {c}
    BY <1>4, <1>6, <2>2, <2>3
  <2>5. \A d \in From(r, x) : r[c] < r[d]
    BY <1>3, <2>2, <2>3
  <2> QED BY <1>1, <1>5, <1>8, <2>4, <2>5 DEF x
<1> QED
  BY <1>2, <1>7, <1>8 DEF First

\* A walk from the next cell, and the cell before it.
LEMMA WalkOneBack ==
  ASSUME List!TypeOK, NEW r, Chained(r), NEW c \in list_used, NEW w, Walked(r, w, list_cell[c].next)
  PROVE  Walked(r, <<c>> \o w, c)
<1> DEFINE x == list_cell[c].next
           v == <<c>> \o w
<1>1. /\ c \in Cells /\ c # Null /\ x \in list_used \cup {Null}
      /\ From(r, x) = From(r, c) \ {c} /\ c \in From(r, c)
      /\ \A d \in From(r, x) : r[c] < r[d]
  BY FromNext
<1>2. Walked(r, w, x)
  OBVIOUS
<1> HIDE DEF x
<1>3. w \in Seq(list_used) /\ <<c>> \in Seq(list_used) /\ Len(<<c>>) = 1 /\ <<c>>[1] = c
  BY <1>2 DEF Walked
<1>4. PICK n \in Nat : n = Len(w)
  BY <1>3, LenProperties
<1>5. /\ v \in Seq(list_used) /\ Len(v) = 1 + n
      /\ \A i \in 1..(1 + n) : v[i] = IF i <= 1 THEN <<c>>[i] ELSE w[i - 1]
  BY <1>3, <1>4, ConcatProperties
<1> HIDE DEF v
<1>6. v[1] = c /\ \A i \in 1..(1 + n) : i # 1 => v[i] = w[i - 1] /\ i - 1 \in 1..n
  <2>1. 1 \in 1..(1 + n)
    BY <1>4
  <2>2. \A i \in 1..(1 + n) : i # 1 => ~(i <= 1) /\ i - 1 \in 1..n
    BY <1>4
  <2> QED BY <1>3, <1>5, <2>1, <2>2
<1>7. \A i \in 1..n : v[i + 1] = w[i] /\ i + 1 \in 1..(1 + n)
  <2>1. \A i \in 1..n : i + 1 \in 1..(1 + n) /\ i + 1 # 1 /\ (i + 1) - 1 = i
    BY <1>4
  <2> QED BY <1>6, <2>1
<1>8. \A i \in 1..(1 + n) : v[i] \in From(r, c)
  BY <1>1, <1>2, <1>4, <1>6 DEF Walked
<1>9. \A d \in From(r, c) : \E i \in 1..(1 + n) : v[i] = d
  <2> TAKE d \in From(r, c)
  <2>1. CASE d = c
    <3>1. 1 \in 1..(1 + n)
      BY <1>4
    <3> QED BY <1>6, <2>1, <3>1
  <2>2. CASE d # c
    <3>1. PICK i \in 1..n : w[i] = d
      BY <1>1, <1>2, <1>4, <2>2 DEF Walked
    <3> QED BY <1>7, <3>1
  <2> QED BY <2>1, <2>2
<1>10. \A i, j \in 1..(1 + n) : i < j => r[v[i]] < r[v[j]]
  <2> SUFFICES ASSUME NEW i \in 1..(1 + n), NEW j \in 1..(1 + n), i < j PROVE r[v[i]] < r[v[j]]
    OBVIOUS
  <2>1. j # 1 /\ j - 1 \in 1..n
    BY <1>4
  <2>2. v[j] = w[j - 1] /\ w[j - 1] \in From(r, x)
    BY <1>2, <1>4, <1>6, <2>1 DEF Walked
  <2>3. CASE i = 1
    BY <1>1, <1>6, <2>2, <2>3
  <2>4. CASE i # 1
    <3>1. i - 1 \in 1..n /\ i - 1 < j - 1
      BY <1>4, <2>4
    <3>2. v[i] = w[i - 1]
      BY <1>6, <2>4
    <3> QED BY <1>2, <1>4, <2>1, <2>2, <3>1, <3>2 DEF Walked
  <2> QED BY <2>3, <2>4
<1>11. list_cell[v[1 + n]].next = Null
  <2>1. CASE x = Null
    <3>1. n = 0
      BY <1>2, <1>4, <2>1 DEF Walked
    <3> QED BY <1>6, <2>1, <3>1 DEF x
  <2>2. CASE x # Null
    <3>1. n # 0 /\ list_cell[w[n]].next = Null
      BY <1>2, <1>4, <2>2 DEF Walked
    <3>2. n \in 1..n /\ n + 1 = 1 + n
      BY <1>4, <3>1
    <3>3. v[n + 1] = w[n]
      BY <1>7, <3>2
    <3> QED BY <3>1, <3>2, <3>3
  <2> QED BY <2>1, <2>2
<1>12. Walked(r, v, c)
  <2>1. Len(v) = 1 + n /\ 1 + n # 0
    BY <1>4, <1>5
  <2> QED BY <1>1, <1>5, <1>6, <1>8, <1>9, <1>10, <1>11, <2>1 DEF Walked
<1> QED
  BY <1>12 DEF v

\* With as many steps as there are cells from c on, the walk goes to the end.
LEMMA WalkGoesOn ==
  ASSUME List!TypeOK, NEW r, Chained(r)
  PROVE  \A n \in 0..Cardinality(Cells), c \in list_used \cup {Null} :
           Cardinality(From(r, c)) <= n => Walked(r, List!Walk[n][c], c)
<1> DEFINE K == Cardinality(Cells)
           Fine(n) == \A c \in list_used \cup {Null} : Cardinality(From(r, c)) <= n => Walked(r, List!Walk[n][c], c)
           T == {n \in 0..K : ~Fine(n)}
<1>1. K \in Nat /\ \A n \in 0..K : List!Walk[n] = Row(n, List!Walk[n - 1])
  BY WalkByRows
<1>2. list_used \subseteq Cells /\ IsFiniteSet(list_used) /\ Null \notin list_used
  BY StructuresAssumption, FS_Subset DEF List!TypeOK
<1>3. \A c \in list_used \cup {Null} : IsFiniteSet(From(r, c)) /\ Cardinality(From(r, c)) \in Nat
  <2> TAKE c \in list_used \cup {Null}
  <2>1. From(r, c) \in SUBSET list_used
    BY DEF From
  <2> QED BY <1>2, <2>1, FS_Subset, FS_CardinalityType
<1> HIDE DEF K
<1>4. T = {}
  <2> SUFFICES ASSUME T # {} PROVE FALSE
    OBVIOUS
  <2>1. T \in SUBSET Nat
    BY <1>1
  <2> HIDE DEF T
  <2>2. PICK m \in T : \A y \in T : m <= y
    BY <2>1, LeastOf
  <2>3. m \in 0..K /\ ~Fine(m)
    BY <2>2 DEF T
  <2>4. PICK c \in list_used \cup {Null} : Cardinality(From(r, c)) <= m /\ ~Walked(r, List!Walk[m][c], c)
    BY <2>3
  <2>5. List!Walk[m][c] = IF c = Null \/ m = 0 THEN << >> ELSE <<c>> \o List!Walk[m - 1][list_cell[c].next]
    <3>1. c \in Cells \cup {Null}
      BY <1>2
    <3> QED BY <1>1, <2>3, <3>1 DEF Row
  <2>6. CASE c = Null
    <3>1. List!Walk[m][c] = << >> /\ From(r, c) = {}
      BY <2>5, <2>6 DEF From
    <3>2. << >> \in Seq(list_used) /\ Len(<< >>) = 0
      OBVIOUS
    <3>3. 1..Len(<< >>) = {}
      BY <3>2
    <3>4. Walked(r, << >>, c)
      BY <2>6, <3>1, <3>2, <3>3 DEF Walked
    <3> QED BY <2>4, <3>1, <3>4
  <2>7. CASE c # Null
    <3> DEFINE x == list_cell[c].next
    <3>1. c \in list_used
      BY <2>7
    <3>2. x \in list_used \cup {Null} /\ From(r, x) = From(r, c) \ {c} /\ c \in From(r, c)
      BY <3>1, FromNext
    <3> HIDE DEF x
    <3>3. Cardinality(From(r, x)) = Cardinality(From(r, c)) - 1 /\ Cardinality(From(r, x)) \in Nat
      <4>1. IsFiniteSet(From(r, c)) /\ c \in From(r, c)
        BY <1>3, <3>2
      <4>2. Cardinality(From(r, c) \ {c}) = Cardinality(From(r, c)) - 1
        BY <4>1, FS_RemoveElement
      <4>3. Cardinality(From(r, x)) \in Nat
        BY <1>3, <3>2
      <4> QED BY <3>2, <4>2, <4>3
    <3>4. m # 0 /\ m - 1 \in 0..K /\ Cardinality(From(r, x)) <= m - 1 /\ ~(m <= m - 1)
      BY <1>1, <1>3, <2>3, <2>4, <3>3
    <3>5. Fine(m - 1)
      BY <2>2, <3>4 DEF T
    <3>6. Walked(r, List!Walk[m - 1][x], x)
      BY <3>2, <3>4, <3>5
    <3>7. Walked(r, <<c>> \o List!Walk[m - 1][x], c)
      BY <3>1, <3>6, WalkOneBack DEF x
    <3> QED BY <2>4, <2>5, <2>7, <3>4, <3>7 DEF x
  <2> QED BY <2>6, <2>7
<1> QED
  BY <1>4 DEF K

\* The cells of the chain are those that are used, each once, in order.
LEMMA ChainHasAll ==
  ASSUME List!TypeOK, NEW r, Chained(r)
  PROVE  From(r, list_list) = list_used /\ Walked(r, List!Chain, list_list)
<1> DEFINE K == Cardinality(Cells)
<1>1. K \in Nat
  BY StructuresAssumption, FS_CardinalityType
<1>2. list_used \subseteq Cells /\ Cardinality(list_used) <= K /\ Null \notin list_used
  BY StructuresAssumption, FS_Subset DEF List!TypeOK
<1>3. r \in [list_used -> Nat] /\ First(list_used, r, 0, list_list)
  BY DEF Chained, InOrder
<1>4. \A d \in list_used : r[d] \in Nat /\ r[d] >= 0 /\ ~(r[d] < 0)
  BY <1>3
<1>5. From(r, list_list) = list_used /\ list_list \in list_used \cup {Null}
  <2>1. CASE list_list = Null /\ \A d \in list_used : r[d] < 0
    BY <1>4, <2>1 DEF From
  <2>2. CASE list_list \in list_used /\ \A d \in list_used : r[d] >= 0 => r[list_list] <= r[d]
    <3>1. \A d \in list_used : r[d] >= r[list_list]
      BY <1>4, <2>2
    <3> QED BY <1>2, <2>2, <3>1 DEF From
  <2> QED BY <1>3, <2>1, <2>2 DEF First
<1>6. List!Chain = List!Walk[K][list_list]
  BY Zenon DEF List!Chain, List!Cardinality, Cardinality, List!IsFiniteSet, IsFiniteSet
<1>7. K \in 0..K
  BY <1>1
<1>8. Cardinality(From(r, list_list)) <= K
  BY <1>2, <1>5
<1> HIDE DEF K
<1>9. Walked(r, List!Walk[K][list_list], list_list)
  BY <1>5, <1>7, <1>8, WalkGoesOn DEF K
<1> QED
  BY <1>5, <1>6, <1>9

-----------------------------------------------------------------------------
\* A step keeps the chain, and the order of the cells that are left.
LinksTyped == list_used \subseteq Cells /\ list_list \in Cells \cup {Null} /\ list_cell \in [Cells -> ListLinks]
OrderKept(r, s) == \A c, d \in list_used \cap list_used' : r[c] < r[d] => s[c] < s[d]
DataKept == \A c \in list_used \cap list_used' : list_cell'[c].data = list_cell[c].data
ChainKept(r) == LinksTyped' /\ DataKept /\ \E s \in [list_used' -> Nat] : InOrder(list_used', list_list', list_cell', s) /\ OrderKept(r, s)

\* A new cell behind prev, or at the head: numbers are doubled, and it comes in between.
LEMMA AddKeeps ==
  ASSUME List!TypeOK, NEW r, Chained(r), NEW prev \in list_used \cup {Null}, NEW d \in List!Data, List!AddAfter(prev, d)
  PROVE  ChainKept(r)
<1>1. PICK n \in Cells \ list_used :
        /\ list_used' = list_used \cup {n}
        /\ IF prev = Null
             THEN /\ list_list' = n
                  /\ list_cell' = [list_cell EXCEPT ![n] = [next |-> list_list, data |-> d]]
             ELSE /\ list_list' = list_list
                  /\ list_cell' = [list_cell EXCEPT ![n] = [next |-> list_cell[prev].next, data |-> d], ![prev].next = n]
  BY DEF List!AddAfter
<1>2. /\ list_used \subseteq Cells /\ list_list \in Cells \cup {Null} /\ list_cell \in [Cells -> ListLinks]
      /\ Null \notin Cells /\ n \in Cells /\ n \notin list_used /\ n # Null /\ n # prev
  BY <1>1, StructuresAssumption DEF List!TypeOK, ListLinks
<1>3. /\ \A c, e \in list_used : r[c] = r[e] => c = e
      /\ First(list_used, r, 0, list_list)
      /\ \A c \in list_used : r[c] \in Nat /\ First(list_used, r, r[c] + 1, list_cell[c].next)
  BY DEF Chained, InOrder
<1> DEFINE behind == IF prev = Null THEN list_list ELSE list_cell[prev].next
<1>4. behind \in Cells \cup {Null}
  BY <1>2 DEF ListLinks
<1>5. /\ list_cell' \in [Cells -> ListLinks]
      /\ list_cell'[n] = [next |-> behind, data |-> d]
      /\ \A c \in list_used : c # prev => list_cell'[c] = list_cell[c]
      /\ prev # Null => list_cell'[prev].next = n /\ list_cell'[prev].data = list_cell[prev].data
  <2>1. [next |-> behind, data |-> d] \in ListLinks
    BY <1>4 DEF ListLinks
  <2>2. CASE prev = Null
    <3>1. list_cell' = [list_cell EXCEPT ![n] = [next |-> behind, data |-> d]]
      BY <1>1, <2>2
    <3> HIDE DEF behind
    <3> QED BY <1>2, <2>1, <2>2, <3>1
  <2>3. CASE prev # Null
    <3>1. list_cell' = [list_cell EXCEPT ![n] = [next |-> behind, data |-> d], ![prev].next = n]
      BY <1>1, <2>3
    <3>2. prev \in Cells /\ prev \in list_used
      BY <1>2, <2>3
    <3> HIDE DEF behind
    <3>3. list_cell' = [c \in Cells |-> IF c = n THEN [next |-> behind, data |-> d]
                                       ELSE IF c = prev THEN [list_cell[prev] EXCEPT !.next = n] ELSE list_cell[c]]
      BY <1>2, <3>1, <3>2
    <3>4. list_cell[prev] \in ListLinks
      BY <1>2, <3>2
    <3>5. /\ [list_cell[prev] EXCEPT !.next = n] \in ListLinks
          /\ [list_cell[prev] EXCEPT !.next = n].next = n
          /\ [list_cell[prev] EXCEPT !.next = n].data = list_cell[prev].data
      BY <1>2, <3>4 DEF ListLinks
    <3>6. \A c \in Cells : list_cell'[c] \in ListLinks
      BY <1>2, <2>1, <3>3, <3>5
    <3> QED BY <1>2, <2>3, <3>2, <3>3, <3>5, <3>6
  <2> QED BY <2>2, <2>3
<1>6. LinksTyped' /\ DataKept
  <2>1. list_list' \in Cells \cup {Null}
    BY <1>1, <1>2
  <2>2. DataKept
    <3> SUFFICES ASSUME NEW c \in list_used PROVE list_cell'[c].data = list_cell[c].data
      BY DEF DataKept
    <3> QED BY <1>2, <1>5, StructuresAssumption
  <2> QED BY <1>1, <1>2, <1>5, <2>1, <2>2 DEF LinksTyped
<1> DEFINE m == IF prev = Null THEN 0 ELSE 2 * r[prev] + 2
           s == [c \in list_used' |-> IF c = n THEN m ELSE 2 * r[c] + 1]
<1>7. /\ m \in Nat /\ s[n] = m /\ \A c \in list_used : s[c] = 2 * r[c] + 1 /\ s[c] \in Nat /\ s[c] # m
      /\ s \in [list_used' -> Nat]
  <2>1. m \in Nat /\ \A c \in list_used : 2 * r[c] + 1 \in Nat /\ 2 * r[c] + 1 # m
    BY <1>3
  <2> HIDE DEF m
  <2>2. s[n] = m /\ \A c \in list_used : s[c] = 2 * r[c] + 1
    BY <1>1, <1>2
  <2>3. \A c \in list_used' : (IF c = n THEN m ELSE 2 * r[c] + 1) \in Nat
    BY <1>1, <2>1
  <2> QED BY <2>1, <2>2, <2>3
<1> HIDE DEF s, behind
<1>8. \A c, e \in list_used' : s[c] = s[e] => c = e
  <2>1. \A c, e \in list_used : s[c] = s[e] => r[c] = r[e]
    BY <1>3, <1>7
  <2> HIDE DEF m
  <2> QED BY <1>1, <1>3, <1>7, <2>1
<1>9. OrderKept(r, s)
  <2>1. \A c, e \in list_used : r[c] < r[e] => s[c] < s[e]
    BY <1>3, <1>7
  <2> QED BY <2>1 DEF OrderKept
\* What was first from k on still is: if the new cell comes before it, or if it comes before the new cell.
<1> HIDE DEF m
<1>10. ASSUME NEW k \in Nat, NEW j \in {2 * k, 2 * k + 1}, NEW x, First(list_used, r, k, x), m < j \/ (x # Null /\ s[x] <= m)
       PROVE  First(list_used', s, j, x)
  <2>1. \A e \in list_used : (r[e] >= k <=> s[e] >= j) /\ (r[e] < k <=> s[e] < j)
    BY <1>3, <1>7
  <2>2. j \in Nat
    OBVIOUS
  <2>3. CASE m < j
    <3>1. s[n] < j /\ ~(s[n] >= j)
      BY <1>7, <2>2, <2>3
    <3>2. CASE x = Null /\ \A e \in list_used : r[e] < k
      BY <1>1, <2>1, <3>1, <3>2 DEF First
    <3>3. CASE x \in list_used /\ r[x] >= k /\ \A e \in list_used : r[e] >= k => r[x] <= r[e]
      <4>1. \A e \in list_used : s[e] >= j => s[x] <= s[e]
        BY <1>3, <1>7, <2>1, <3>3
      <4> QED BY <1>1, <2>1, <3>1, <3>3, <4>1 DEF First
    <3> QED BY <1>10, <3>2, <3>3 DEF First
  <2>4. CASE x # Null /\ s[x] <= m
    <3>1. x \in list_used /\ r[x] >= k /\ \A e \in list_used : r[e] >= k => r[x] <= r[e]
      BY <1>10, <2>4 DEF First
    <3>2. \A e \in list_used : s[e] >= j => s[x] <= s[e]
      BY <1>3, <1>7, <2>1, <3>1
    <3> QED BY <1>1, <1>7, <2>1, <2>4, <3>1, <3>2 DEF First
  <2> QED BY <1>10, <2>3, <2>4
<1>11. First(list_used', s, 0, list_list')
  <2>1. CASE prev = Null
    <3>1. s[n] = 0 /\ \A e \in list_used' : s[n] <= s[e] /\ s[n] >= 0
      BY <1>1, <1>7, <2>1 DEF m
    <3> QED BY <1>1, <2>1, <3>1 DEF First
  <2>2. CASE prev # Null
    <3>1. prev \in list_used /\ r[prev] \in Nat /\ m = 2 * r[prev] + 2
      BY <1>3, <2>2 DEF m
    <3>2. list_list \in list_used /\ r[list_list] <= r[prev]
      BY <1>3, <3>1 DEF First
    <3>3. list_list # Null /\ s[list_list] <= m
      BY <1>2, <1>3, <1>7, <3>1, <3>2
    <3>4. 0 \in Nat /\ 0 \in {2 * 0, 2 * 0 + 1}
      OBVIOUS
    <3>5. First(list_used', s, 0, list_list)
      BY <1>3, <1>10, <3>3, <3>4
    <3> QED BY <1>1, <2>2, <3>5
  <2> QED BY <2>1, <2>2
<1>12. First(list_used', s, s[n] + 1, list_cell'[n].next)
  <2>1. list_cell'[n].next = behind /\ s[n] = m
    BY <1>5, <1>7
  <2>2. CASE prev = Null
    <3>1. m = 0 /\ 0 \in Nat /\ m + 1 \in {2 * 0, 2 * 0 + 1} /\ m < m + 1
      BY <2>2 DEF m
    <3>2. First(list_used, r, 0, behind)
      BY <1>3, <2>2 DEF behind
    <3> QED BY <1>10, <2>1, <3>1, <3>2
  <2>3. CASE prev # Null
    <3> DEFINE k == r[prev] + 1
    <3>1. First(list_used, r, k, behind) /\ r[prev] \in Nat
      BY <1>3, <2>3 DEF behind
    <3>2. m = 2 * r[prev] + 2
      BY <2>3 DEF m
    <3>3. k \in Nat /\ m + 1 \in {2 * k, 2 * k + 1} /\ m < m + 1
      BY <3>1, <3>2
    <3> HIDE DEF k
    <3> QED BY <1>10, <2>1, <3>1, <3>3
  <2> QED BY <2>2, <2>3
<1>13. ASSUME NEW c \in list_used
       PROVE  First(list_used', s, s[c] + 1, list_cell'[c].next)
  <2>1. r[c] \in Nat /\ s[c] = 2 * r[c] + 1
    BY <1>3, <1>7
  <2>2. CASE c = prev
    <3>1. list_cell'[c].next = n /\ m = s[c] + 1
      BY <1>2, <1>5, <2>1, <2>2, StructuresAssumption DEF m
    <3>2. \A e \in list_used' : s[e] \in Nat
      BY <1>7
    <3> QED BY <1>1, <1>7, <3>1, <3>2 DEF First
  <2>3. CASE c # prev
    <3> DEFINE k == r[c] + 1
               x == list_cell[c].next
    <3>1. list_cell'[c].next = x /\ First(list_used, r, k, x)
      BY <1>3, <1>5, <2>3
    <3>2. k \in Nat /\ s[c] + 1 = 2 * k /\ s[c] + 1 \in {2 * k, 2 * k + 1} /\ 2 * k \in Nat
      BY <2>1
    <3> HIDE DEF x
    <3>3. CASE m < s[c] + 1
      <4> HIDE DEF k
      <4> QED BY <1>10, <3>1, <3>2, <3>3
    <3>4. CASE ~(m < s[c] + 1)
      <4>1. prev # Null
        <5> SUFFICES ASSUME prev = Null PROVE FALSE
          OBVIOUS
        <5>1. m = 0
          BY DEF m
        <5> QED BY <2>1, <3>4, <5>1
      <4>2. prev \in list_used /\ r[prev] \in Nat /\ m = 2 * r[prev] + 2
        BY <1>3, <4>1 DEF m
      <4>3. r[prev] >= k
        <5>1. r[prev] >= r[c]
          BY <2>1, <3>4, <4>2
        <5>2. r[prev] # r[c]
          BY <1>3, <2>3, <4>2
        <5> QED BY <2>1, <4>2, <5>1, <5>2
      <4>4. x \in list_used /\ r[x] <= r[prev]
        <5> HIDE DEF k
        <5> QED BY <1>3, <3>1, <3>2, <4>2, <4>3 DEF First
      <4>5. x # Null /\ s[x] <= m
        BY <1>2, <1>3, <1>7, <4>2, <4>4
      <4> HIDE DEF k
      <4> QED BY <1>10, <3>1, <3>2, <4>5
    <3> QED BY <3>3, <3>4
  <2> QED BY <2>2, <2>3
<1>14. InOrder(list_used', list_list', list_cell', s)
  <2>1. \A c \in list_used' : First(list_used', s, s[c] + 1, list_cell'[c].next)
    BY <1>1, <1>12, <1>13
  <2> QED BY <1>7, <1>8, <1>11, <2>1 DEF InOrder
<1> QED
  BY <1>6, <1>7, <1>9, <1>14 DEF ChainKept

\* The same of the places in the chain.
LEMMA ChainInOrder ==
  ASSUME List!TypeOK, NEW r, Chained(r)
  PROVE  LET ch == List!Chain
         IN /\ ch \in Seq(list_used) /\ DOMAIN ch = 1..Len(ch) /\ Len(ch) \in Nat
            /\ \A j \in 1..Len(ch) : ch[j] \in list_used
            /\ \A d \in list_used : \E j \in 1..Len(ch) : ch[j] = d
            /\ \A j, m \in 1..Len(ch) : j < m => r[ch[j]] < r[ch[m]]
<1> DEFINE ch == List!Chain
<1>1. From(r, list_list) = list_used /\ Walked(r, ch, list_list)
  BY ChainHasAll
<1> HIDE DEF ch
<1>2. ch \in Seq(list_used)
  BY <1>1, Zenon DEF Walked
<1>3. DOMAIN ch = 1..Len(ch) /\ Len(ch) \in Nat
  BY <1>2, LenProperties
<1>4. \A j \in 1..Len(ch) : ch[j] \in list_used
  BY <1>1, Zenon DEF Walked
<1>5. \A d \in list_used : \E j \in 1..Len(ch) : ch[j] = d
  BY <1>1, Zenon DEF Walked
<1>6. \A j, m \in 1..Len(ch) : j < m => r[ch[j]] < r[ch[m]]
  BY <1>1, Zenon DEF Walked
<1> QED
  BY <1>2, <1>3, <1>4, <1>5, <1>6 DEF ch

-----------------------------------------------------------------------------
\* The cells of the chain that are left behind the cell at position i (0: the head): the first of these.
LEMMA FirstLeftIsFirst ==
  ASSUME List!TypeOK, NEW r, Chained(r), NEW Gone, NEW i \in 0..Len(List!Chain)
  PROVE  First(list_used \ Gone, r, IF i = 0 THEN 0 ELSE r[List!Chain[i]] + 1, List!FirstLeft(i, Gone))
<1> DEFINE ch == List!Chain
           k == IF i = 0 THEN 0 ELSE r[ch[i]] + 1
           left == {j \in DOMAIN ch : j > i /\ ch[j] \notin Gone}
           x == List!FirstLeft(i, Gone)
<1>1. /\ ch \in Seq(list_used) /\ DOMAIN ch = 1..Len(ch) /\ Len(ch) \in Nat
      /\ \A j \in 1..Len(ch) : ch[j] \in list_used
      /\ \A d \in list_used : \E j \in 1..Len(ch) : ch[j] = d
      /\ \A j, m \in 1..Len(ch) : j < m => r[ch[j]] < r[ch[m]]
  BY ChainInOrder
<1>2. \A d \in list_used : r[d] \in Nat
  BY DEF Chained, InOrder
<1>3. x = IF left = {} THEN Null ELSE ch[List!Min(left)]
  BY Zenon DEF List!FirstLeft
<1> HIDE DEF x, ch
<1>4. k \in Nat /\ \A j \in 1..Len(ch) : j <= i => r[ch[j]] < k
  <2>1. CASE i = 0
    BY <2>1
  <2>2. CASE i # 0
    <3>1. i \in 1..Len(ch) /\ k = r[ch[i]] + 1 /\ r[ch[i]] \in Nat
      BY <1>1, <1>2, <2>2 DEF ch
    <3>2. ASSUME NEW j \in 1..Len(ch), j <= i PROVE r[ch[j]] <= r[ch[i]] /\ r[ch[j]] \in Nat
      <4>1. j = i \/ j < i
        BY <3>2
      <4> QED BY <1>1, <1>2, <3>1, <4>1
    <3> HIDE DEF k
    <3> QED BY <3>1, <3>2
  <2> QED BY <2>1, <2>2
<1>5. \A j \in 1..Len(ch) : j > i => r[ch[j]] >= k
  <2>1. CASE i = 0
    BY <1>1, <1>2, <2>1
  <2>2. CASE i # 0
    <3>1. i \in 1..Len(ch) /\ k = r[ch[i]] + 1 /\ r[ch[i]] \in Nat
      BY <1>1, <1>2, <2>2 DEF ch
    <3>2. ASSUME NEW j \in 1..Len(ch), j > i PROVE r[ch[i]] < r[ch[j]] /\ r[ch[j]] \in Nat
      BY <1>1, <1>2, <3>1, <3>2
    <3> HIDE DEF k
    <3> QED BY <3>1, <3>2
  <2> QED BY <2>1, <2>2
<1> HIDE DEF k
<1>6. CASE left = {}
  <2>1. \A d \in list_used \ Gone : r[d] < k
    <3> TAKE d \in list_used \ Gone
    <3>1. PICK j \in 1..Len(ch) : ch[j] = d
      BY <1>1
    <3>2. ~(j > i)
      BY <1>1, <1>6, <3>1
    <3>3. j <= i
      BY <3>2
    <3> QED BY <1>4, <3>1, <3>3
  <2> QED BY <1>3, <1>6, <2>1 DEF First, k, ch, x
<1>7. CASE left # {}
  <2>1. left \in SUBSET Nat
    BY <1>1
  <2> DEFINE m == List!Min(left)
  <2>2. m \in left /\ \A y \in left : m <= y
    <3>1. \E y \in left : \A z \in left : y <= z
      BY <1>7, <2>1, LeastOf
    <3> HIDE DEF left
    <3> QED BY <3>1, Zenon DEF List!Min
  <2> HIDE DEF m
  <2>3. m \in 1..Len(ch) /\ m > i /\ ch[m] \notin Gone /\ x = ch[m]
    BY <1>1, <1>3, <1>7, <2>2 DEF m
  <2>4. x \in list_used \ Gone /\ r[x] >= k
    BY <1>1, <1>5, <2>3
  <2>5. \A d \in list_used \ Gone : r[d] >= k => r[x] <= r[d]
    <3> SUFFICES ASSUME NEW d \in list_used \ Gone, r[d] >= k PROVE r[x] <= r[d]
      OBVIOUS
    <3>1. PICK j \in 1..Len(ch) : ch[j] = d
      BY <1>1
    <3>2. ~(j <= i)
      <4> SUFFICES ASSUME j <= i PROVE FALSE
        OBVIOUS
      <4>1. r[d] < k
        BY <1>4, <3>1
      <4> QED BY <1>2, <1>4, <4>1
    <3>3. j \in left
      BY <1>1, <3>1, <3>2
    <3>4. m <= j
      BY <2>2, <3>3
    <3>5. m = j \/ m < j
      BY <2>3, <3>4
    <3> QED BY <1>1, <1>2, <2>3, <3>1, <3>5
  <2> QED BY <2>4, <2>5 DEF First, k, ch, x
<1> QED
  BY <1>6, <1>7

\* Each cell has one position, and the positions are in order.
LEMMA PositionsInOrder ==
  ASSUME List!TypeOK, NEW r, Chained(r)
  PROVE  /\ Len(List!Chain) \in Nat /\ DOMAIN List!Chain = 1..Len(List!Chain)
         /\ \A j \in DOMAIN List!Chain : List!Chain[j] \in list_used /\ List!Position(List!Chain[j]) = j
         /\ \A c \in list_used : List!Position(c) \in DOMAIN List!Chain /\ List!Chain[List!Position(c)] = c
         /\ \A c, d \in list_used : r[c] < r[d] <=> List!Position(c) < List!Position(d)
<1> DEFINE ch == List!Chain
<1>1. /\ DOMAIN ch = 1..Len(ch) /\ Len(ch) \in Nat
      /\ \A j \in 1..Len(ch) : ch[j] \in list_used
      /\ \A d \in list_used : \E j \in 1..Len(ch) : ch[j] = d
      /\ \A j, m \in 1..Len(ch) : j < m => r[ch[j]] < r[ch[m]]
  BY ChainInOrder
<1>2. \A d \in list_used : r[d] \in Nat
  BY DEF Chained, InOrder
<1>3. \A c : List!Position(c) = CHOOSE j \in DOMAIN ch : ch[j] = c
  BY Zenon DEF List!Position
<1> HIDE DEF ch
<1>4. \A j, m \in 1..Len(ch) : ch[j] = ch[m] => j = m
  <2> SUFFICES ASSUME NEW j \in 1..Len(ch), NEW m \in 1..Len(ch), ch[j] = ch[m], j # m PROVE FALSE
    OBVIOUS
  <2>1. j < m \/ m < j
    OBVIOUS
  <2>2. r[ch[j]] \in Nat /\ r[ch[m]] \in Nat
    BY <1>1, <1>2
  <2> QED BY <1>1, <2>1, <2>2
<1>5. \A c \in list_used : List!Position(c) \in DOMAIN ch /\ ch[List!Position(c)] = c
  <2> TAKE c \in list_used
  <2>1. \E j \in DOMAIN ch : ch[j] = c
    BY <1>1
  <2> QED BY <1>3, <2>1, Zenon
<1>6. \A j \in DOMAIN ch : ch[j] \in list_used /\ List!Position(ch[j]) = j
  <2> TAKE j \in DOMAIN ch
  <2>1. ch[j] \in list_used
    BY <1>1
  <2>2. List!Position(ch[j]) \in DOMAIN ch /\ ch[List!Position(ch[j])] = ch[j]
    BY <1>5, <2>1
  <2> QED BY <1>1, <1>4, <2>1, <2>2
<1>7. \A c, d \in list_used : r[c] < r[d] <=> List!Position(c) < List!Position(d)
  <2> TAKE c, d \in list_used
  <2> DEFINE p == List!Position(c)
             q == List!Position(d)
  <2>1. p \in 1..Len(ch) /\ q \in 1..Len(ch) /\ ch[p] = c /\ ch[q] = d
    BY <1>1, <1>5
  <2> HIDE DEF p, q
  <2>2. p < q => r[c] < r[d]
    BY <1>1, <2>1
  <2>3. q < p => r[d] < r[c]
    BY <1>1, <2>1
  <2>4. p = q => r[c] = r[d]
    BY <2>1
  <2>5. (p < q \/ q < p \/ p = q) /\ r[c] \in Nat /\ r[d] \in Nat
    BY <1>2, <2>1
  <2>6. r[c] < r[d] <=> p < q
    BY <2>2, <2>3, <2>4, <2>5, <2>1
  <2> QED BY <2>6 DEF p, q
<1> QED
  BY <1>1, <1>5, <1>6, <1>7 DEF ch

\* The cells taken out of the chain, wherever they are: the numbers of the others stay.
LEMMA UnlinkKeeps ==
  ASSUME List!TypeOK, NEW r, Chained(r), NEW doomed, List!Unlink(doomed)
  PROVE  ChainKept(r)
<1> DEFINE ch == List!Chain
           Gone == {ch[i] : i \in doomed \cap DOMAIN ch}
           kept == list_used \ Gone
           s == [c \in kept |-> r[c]]
<1>1. /\ DOMAIN ch = 1..Len(ch) /\ Len(ch) \in Nat
      /\ \A j \in DOMAIN ch : ch[j] \in list_used /\ List!Position(ch[j]) = j
      /\ \A c \in list_used : List!Position(c) \in DOMAIN ch /\ ch[List!Position(c)] = c
  BY PositionsInOrder
<1>2. /\ list_used \subseteq Cells /\ Null \notin Cells /\ list_cell \in [Cells -> ListLinks]
      /\ \A c \in list_used : list_cell[c].next \in Cells \cup {Null} /\ c # Null
  BY StructuresAssumption DEF List!TypeOK, ListLinks
<1>3. /\ \A c \in list_used : r[c] \in Nat /\ First(list_used, r, r[c] + 1, list_cell[c].next)
      /\ \A c, d \in list_used : r[c] = r[d] => c = d
  BY DEF Chained, InOrder
<1>4. /\ list_used' = kept
      /\ list_list' = List!FirstLeft(0, Gone)
      /\ list_cell' = [c \in Cells |-> IF c \in Gone THEN List!Blank
                                       ELSE IF c \in List!ToSet(ch) /\ list_cell[c].next \in Gone
                                         THEN [list_cell[c] EXCEPT !.next = List!FirstLeft(List!Position(c), Gone)]
                                         ELSE list_cell[c]]
  BY DEF List!Unlink
<1>5. Gone \subseteq list_used /\ Null \notin Gone
  BY <1>1, <1>2
<1>6. \A c : c \in List!ToSet(ch) <=> c \in list_used
  <2>1. List!ToSet(ch) = {ch[i] : i \in DOMAIN ch}
    BY Zenon DEF List!ToSet
  <2> HIDE DEF ch
  <2> QED BY <1>1, <2>1
<1>7. \A x, k : First(kept, r, k, x) => x \in Cells \cup {Null}
  BY <1>2 DEF First
<1>8. First(kept, r, 0, List!FirstLeft(0, Gone))
  <2>1. 0 \in 0..Len(ch)
    BY <1>1
  <2> HIDE DEF Gone
  <2>2. First(list_used \ Gone, r, IF 0 = 0 THEN 0 ELSE r[List!Chain[0]] + 1, List!FirstLeft(0, Gone))
    BY <2>1, FirstLeftIsFirst
  <2> QED BY <2>2
<1>9. \A c \in list_used : First(kept, r, r[c] + 1, List!FirstLeft(List!Position(c), Gone))
  <2> TAKE c \in list_used
  <2> DEFINE i == List!Position(c)
  <2>1. i \in 0..Len(ch) /\ i # 0 /\ ch[i] = c
    BY <1>1
  <2> HIDE DEF Gone, i
  <2>2. First(list_used \ Gone, r, IF i = 0 THEN 0 ELSE r[List!Chain[i]] + 1, List!FirstLeft(i, Gone))
    BY <2>1, FirstLeftIsFirst
  <2> QED BY <2>1, <2>2 DEF i
<1>10. List!Blank \in ListLinks
  <2>1. (CHOOSE e \in Elems : TRUE) \in Elems
    BY StructuresAssumption
  <2>2. (CHOOSE e \in Elems : TRUE) \in List!Data
    BY <2>1 DEF List!Data
  <2> QED BY <2>2 DEF List!Blank, ListLinks
<1> HIDE DEF Gone, ch, s
<1>11. ASSUME NEW c \in list_used
       PROVE  LET x == List!FirstLeft(List!Position(c), Gone)
                  cut == [list_cell[c] EXCEPT !.next = x]
              IN x \in Cells \cup {Null} /\ cut \in ListLinks /\ cut.next = x /\ cut.data = list_cell[c].data
  <2> DEFINE x == List!FirstLeft(List!Position(c), Gone)
  <2>1. x \in Cells \cup {Null}
    BY <1>7, <1>9
  <2>2. list_cell[c] \in ListLinks
    BY <1>2
  <2> HIDE DEF x
  <2>3. LET cut == [list_cell[c] EXCEPT !.next = x] IN cut \in ListLinks /\ cut.next = x /\ cut.data = list_cell[c].data
    BY <2>1, <2>2 DEF ListLinks
  <2> QED BY <2>1, <2>3 DEF x
<1>12. list_cell' \in [Cells -> ListLinks]
  <2>1. ASSUME NEW c \in Cells
        PROVE  (IF c \in Gone THEN List!Blank
                ELSE IF c \in List!ToSet(ch) /\ list_cell[c].next \in Gone
                  THEN [list_cell[c] EXCEPT !.next = List!FirstLeft(List!Position(c), Gone)]
                  ELSE list_cell[c]) \in ListLinks
    <3>1. CASE c \in Gone
      BY <1>10, <3>1
    <3>2. CASE c \notin Gone /\ c \in List!ToSet(ch) /\ list_cell[c].next \in Gone
      BY <1>6, <1>11, <3>2
    <3>3. CASE c \notin Gone /\ ~(c \in List!ToSet(ch) /\ list_cell[c].next \in Gone)
      BY <1>2, <3>3
    <3> QED BY <3>1, <3>2, <3>3
  <2> QED BY <1>4, <2>1
<1>13. ASSUME NEW c \in kept
       PROVE  /\ list_cell'[c].data = list_cell[c].data
              /\ First(kept, r, r[c] + 1, list_cell'[c].next)
  <2>1. c \in list_used /\ c \in Cells /\ c \notin Gone
    BY <1>2
  <2>2. CASE list_cell[c].next \in Gone
    <3>1. list_cell'[c] = [list_cell[c] EXCEPT !.next = List!FirstLeft(List!Position(c), Gone)]
      BY <1>4, <1>6, <2>1, <2>2
    <3>2. list_cell'[c].next = List!FirstLeft(List!Position(c), Gone) /\ list_cell'[c].data = list_cell[c].data
      BY <1>11, <2>1, <3>1
    <3> QED BY <1>9, <2>1, <3>2
  <2>3. CASE list_cell[c].next \notin Gone
    <3>1. list_cell'[c] = list_cell[c]
      BY <1>4, <2>1, <2>3
    <3>2. First(list_used, r, r[c] + 1, list_cell[c].next)
      BY <1>3, <2>1
    <3>3. First(kept, r, r[c] + 1, list_cell[c].next)
      BY <2>3, <3>2 DEF First
    <3> QED BY <3>1, <3>3
  <2> QED BY <2>2, <2>3
<1>14. \A c \in kept : s[c] = r[c]
  BY DEF s
<1>15. ASSUME NEW x, NEW k, First(kept, r, k, x)
       PROVE  First(kept, s, k, x)
  BY <1>14, <1>15 DEF First
<1>16. s \in [kept -> Nat] /\ \A c, d \in kept : s[c] = s[d] => c = d
  BY <1>3 DEF s
<1> HIDE DEF kept
<1>17. \A c \in kept : First(kept, s, s[c] + 1, list_cell'[c].next)
  BY <1>13, <1>14, <1>15
<1>18. InOrder(list_used', list_list', list_cell', s)
  BY <1>4, <1>8, <1>15, <1>16, <1>17 DEF InOrder
<1>19. OrderKept(r, s) /\ DataKept
  BY <1>4, <1>13, <1>14 DEF OrderKept, DataKept
<1>20. LinksTyped'
  <2>1. list_list' \in Cells \cup {Null} /\ list_used' \subseteq Cells
    BY <1>2, <1>4, <1>7, <1>8 DEF kept
  <2> QED BY <1>12, <2>1 DEF LinksTyped
<1> QED
  BY <1>4, <1>16, <1>18, <1>19, <1>20 DEF ChainKept

\* The cells all given back.
LEMMA FreeAllKeeps ==
  ASSUME List!TypeOK, NEW r, Chained(r), List!FreeAll
  PROVE  ChainKept(r)
<1> DEFINE s == [c \in {} |-> 0]
<1>1. List!ToSet(List!Chain) = {List!Chain[i] : i \in DOMAIN List!Chain}
  BY Zenon DEF List!ToSet
<1>2. /\ \A j \in DOMAIN List!Chain : List!Chain[j] \in list_used
      /\ \A c \in list_used : List!Position(c) \in DOMAIN List!Chain /\ List!Chain[List!Position(c)] = c
  BY PositionsInOrder
<1>3. list_used' = {}
  BY <1>1, <1>2 DEF List!FreeAll
<1>4. list_list' = Null
  BY DEF List!FreeAll
<1>5. list_cell' \in [Cells -> ListLinks]
  <2>1. (CHOOSE e \in Elems : TRUE) \in List!Data
    BY StructuresAssumption DEF List!Data
  <2>2. List!Blank \in ListLinks
    BY <2>1 DEF List!Blank, ListLinks
  <2>3. list_cell \in [Cells -> ListLinks]
    BY DEF List!TypeOK, ListLinks
  <2>4. list_cell' = [c \in Cells |-> IF c \in List!ToSet(List!Chain) THEN List!Blank ELSE list_cell[c]]
    BY DEF List!FreeAll
  <2> QED BY <2>2, <2>3, <2>4
<1>6. LinksTyped' /\ DataKept
  BY <1>3, <1>4, <1>5 DEF LinksTyped, DataKept
<1>7. s \in [list_used' -> Nat] /\ OrderKept(r, s)
  BY <1>3 DEF OrderKept
<1>8. InOrder(list_used', list_list', list_cell', s)
  BY <1>3, <1>4, <1>7 DEF InOrder, First
<1> QED
  BY <1>6, <1>7, <1>8 DEF ChainKept

\* Nothing done.
LEMMA RestKeeps ==
  ASSUME List!TypeOK, NEW r, Chained(r), UNCHANGED <<list_used, list_list, list_cell>>
  PROVE  ChainKept(r)
<1>1. LinksTyped' /\ DataKept /\ OrderKept(r, r)
  BY DEF LinksTyped, DataKept, OrderKept, List!TypeOK, ListLinks
<1>2. InOrder(list_used', list_list', list_cell', r) /\ r \in [list_used' -> Nat]
  BY DEF Chained, InOrder
<1> QED
  BY <1>1, <1>2 DEF ChainKept

-----------------------------------------------------------------------------
(* Every call of a list, and what the invariant says of it.                 *)

\* What the walks to a place in the list find there.
LEMMA PlacesOfTheChain ==
  ASSUME List!TypeOK, NEW r, Chained(r)
  PROVE  /\ list_list = Null <=> Len(List!Chain) = 0
         /\ list_list # Null => List!Last(List!Chain) \in list_used
         /\ List!Chain # << >> => list_cell[List!Last(List!Chain)].next = Null
         /\ \A p \in Int : p > 0 /\ list_list # Null =>
              List!Chain[IF p < Len(List!Chain) THEN p ELSE Len(List!Chain)] \in list_used
<1> DEFINE ch == List!Chain
           n == Len(ch)
<1>1. n \in Nat /\ DOMAIN ch = 1..n /\ \A j \in 1..n : ch[j] \in list_used
  BY PositionsInOrder
<1>2. /\ ch \in Seq(list_used)
      /\ IF list_list = Null THEN n = 0 ELSE n # 0 /\ list_cell[ch[n]].next = Null
  <2>1. Walked(r, ch, list_list)
    BY ChainHasAll
  <2> HIDE DEF ch
  <2> QED BY <2>1 DEF Walked
<1>3. List!Last(ch) = ch[n]
  BY Zenon DEF List!Last
<1> HIDE DEF ch
<1>4. ch = << >> <=> n = 0
  BY <1>2
<1> HIDE DEF n
<1>5. n # 0 => n \in 1..n
  BY <1>1
<1>6. \A p \in Int : p > 0 /\ n # 0 => (IF p < n THEN p ELSE n) \in 1..n
  BY <1>1
<1>7. list_list # Null => ch[n] \in list_used
  BY <1>1, <1>2, <1>5
<1>8. ch # << >> => list_cell[ch[n]].next = Null
  BY <1>2, <1>4
<1>9. \A p \in Int : p > 0 /\ list_list # Null => ch[IF p < n THEN p ELSE n] \in list_used
  <2> SUFFICES ASSUME NEW p \in Int, p > 0, list_list # Null PROVE ch[IF p < n THEN p ELSE n] \in list_used
    OBVIOUS
  <2> DEFINE q == IF p < n THEN p ELSE n
  <2>1. q \in 1..n
    BY <1>2, <1>6
  <2> HIDE DEF q
  <2>2. ch[q] \in list_used
    BY <1>1, <2>1
  <2> QED BY <2>2 DEF q
<1> QED
  BY <1>2, <1>3, <1>7, <1>8, <1>9 DEF ch, n

LEMMA AddsKeep ==
  ASSUME List!TypeOK, NEW r, Chained(r), NEW d \in List!Data
  PROVE  /\ List!AddTail(d) => ChainKept(r)
         /\ List!AddHead(d) => ChainKept(r)
         /\ \A p \in Int : List!AddPos(p, d) => ChainKept(r)
<1>1. Null \in list_used \cup {Null}
  OBVIOUS
<1>2. \A prev \in list_used \cup {Null} : List!AddAfter(prev, d) => ChainKept(r)
  BY AddKeeps
<1>3. List!AddHead(d) => ChainKept(r)
  BY <1>1, <1>2 DEF List!AddHead
<1>4. List!AddTail(d) => ChainKept(r)
  <2>1. (IF list_list = Null THEN Null ELSE List!Last(List!Chain)) \in list_used \cup {Null}
    BY PlacesOfTheChain
  <2> QED BY <1>2, <2>1 DEF List!AddTail
<1>5. ASSUME NEW p \in Int, List!AddPos(p, d) PROVE ChainKept(r)
  <2>1. CASE p <= 0 \/ list_list = Null
    BY <1>3, <1>5, <2>1 DEF List!AddPos
  <2>2. CASE ~(p <= 0 \/ list_list = Null)
    <3> DEFINE prev == List!Chain[IF p < Len(List!Chain) THEN p ELSE Len(List!Chain)]
    <3>1. prev \in list_used
      <4>1. p > 0 /\ list_list # Null
        BY <2>2
      <4> HIDE DEF prev
      <4> QED BY <4>1, PlacesOfTheChain DEF prev
    <3>2. List!AddAfter(prev, d)
      BY <1>5, <2>2 DEF List!AddPos
    <3> HIDE DEF prev
    <3> QED BY <1>2, <3>1, <3>2
  <2> QED BY <2>1, <2>2
<1> QED
  BY <1>3, <1>4, <1>5

LEMMA ListNextKeeps ==
  ASSUME List!TypeOK, NEW r, Chained(r), List!Next
  PROVE  ChainKept(r) /\ list_kind' = list_kind
<1>1. \A e, f \in Elems : e \in List!Data /\ <<e, f>> \in List!Data
  BY DEF List!Data
<1>2. List!Positions \subseteq Int
  BY DEF List!Positions
<1>3. \A n, x : List!Call(n, x) => list_kind' = list_kind
  BY DEF List!Call
<1>4. \A x : List!Answer(x) => ChainKept(r) /\ list_kind' = list_kind
  BY RestKeeps DEF List!Answer
<1>5. \A doomed : List!Unlink(doomed) => ChainKept(r)
  BY UnlinkKeeps
<1>6. List!FreeAll => ChainKept(r)
  BY FreeAllKeeps
<1>7. \A d \in List!Data : /\ List!AddTail(d) => ChainKept(r)
                           /\ List!AddHead(d) => ChainKept(r)
                           /\ \A p \in Int : List!AddPos(p, d) => ChainKept(r)
  BY AddsKeep
<1>8. CASE List!ListNext
  <2>1. CASE List!AddElementTail \/ List!AddElementHead \/ List!AddElementPos
    BY <1>1, <1>2, <1>3, <1>7, <2>1, Zenon DEF List!AddElementTail, List!AddElementHead, List!AddElementPos
  <2>2. CASE List!DelElementElem \/ List!DelElementTail \/ List!DelElementHead \/ List!DelElementPos
    BY <1>3, <1>5, <2>2, Zenon DEF List!DelElementElem, List!DelElementTail, List!DelElementHead, List!DelElementPos,
         List!DelTail, List!DelHead, List!DelPos
  <2>3. CASE List!GetElementTail \/ List!GetElementHead \/ List!GetElementPos \/ List!ListCount
    BY <1>4, <2>3, Zenon DEF List!GetElementTail, List!GetElementHead, List!GetElementPos, List!ListCount
  <2>4. CASE List!FreeList \/ List!FreeListElem
    BY <1>3, <1>6, <2>4, Zenon DEF List!FreeList, List!FreeListElem
  <2> QED BY <1>8, <2>1, <2>2, <2>3, <2>4 DEF List!ListNext
<1>9. CASE List!AssocNext
  <2>1. CASE List!AddAssocTail \/ List!AddAssocHead \/ List!AddAssocPos
    BY <1>1, <1>2, <1>3, <1>7, <2>1, Zenon DEF List!AddAssocTail, List!AddAssocHead, List!AddAssocPos
  <2>2. CASE List!DelAssocLeft \/ List!DelAssocTail \/ List!DelAssocHead \/ List!DelAssocPos
    BY <1>3, <1>5, <2>2, Zenon DEF List!DelAssocLeft, List!DelAssocTail, List!DelAssocHead, List!DelAssocPos,
         List!DelTail, List!DelHead, List!DelPos
  <2>3. CASE List!GetAssocTail \/ List!GetAssocHead \/ List!GetAssocPos \/ List!GetAssocLeft \/ List!AssocCount
    BY <1>4, <2>3, Zenon DEF List!GetAssocTail, List!GetAssocHead, List!GetAssocPos, List!GetAssocLeft, List!AssocCount
  <2>4. CASE List!FreeAssoc \/ List!FreeAssocAssoc
    BY <1>3, <1>6, <2>4, Zenon DEF List!FreeAssoc, List!FreeAssocAssoc
  <2> QED BY <1>9, <2>1, <2>2, <2>3, <2>4 DEF List!AssocNext
<1> QED
  BY <1>8, <1>9 DEF List!Next

LEMMA ListInitInv == List!Init => ListInv
<1> SUFFICES ASSUME List!Init PROVE ListInv
  OBVIOUS
<1>1. list_used = {} /\ list_list = Null /\ list_cell = [c \in Cells |-> List!Blank] /\ list_kind \in {"list", "assoc"}
  BY DEF List!Init
<1>2. List!Blank \in ListLinks
  <2>1. (CHOOSE e \in Elems : TRUE) \in List!Data
    BY StructuresAssumption DEF List!Data
  <2> QED BY <2>1 DEF List!Blank, ListLinks
<1>3. List!TypeOK
  BY <1>1, <1>2 DEF List!TypeOK, ListLinks
<1> DEFINE s == [c \in {} |-> 0]
<1>4. s \in [list_used -> Nat] /\ Chained(s)
  BY <1>1 DEF Chained, InOrder, First
<1> QED
  BY <1>3, <1>4 DEF ListInv

LEMMA ListStepInv == ListInv /\ List!Next => ListInv'
<1> SUFFICES ASSUME ListInv, List!Next PROVE ListInv'
  OBVIOUS
<1>1. PICK r \in [list_used -> Nat] : Chained(r)
  BY DEF ListInv
<1>2. List!TypeOK /\ list_kind \in {"list", "assoc"}
  BY DEF ListInv, List!TypeOK
<1>3. ChainKept(r) /\ list_kind' = list_kind
  BY <1>1, <1>2, ListNextKeeps
<1>4. List!TypeOK'
  BY <1>2, <1>3 DEF ChainKept, LinksTyped, List!TypeOK, ListLinks
<1>5. \E s \in [list_used' -> Nat] : InOrder(list_used', list_list', list_cell', s)
  BY <1>3 DEF ChainKept
<1> QED
  BY <1>4, <1>5 DEF ListInv, Chained

LEMMA ListInvKept == ListInv => List!TypeOK /\ List!NoCellLost
<1> SUFFICES ASSUME ListInv PROVE List!TypeOK /\ List!NoCellLost
  OBVIOUS
<1>1. PICK r \in [list_used -> Nat] : Chained(r)
  BY DEF ListInv
<1>2. List!TypeOK
  BY DEF ListInv
<1>3. List!ToSet(List!Chain) = {List!Chain[i] : i \in DOMAIN List!Chain}
  BY Zenon DEF List!ToSet
<1>4. /\ \A j \in DOMAIN List!Chain : List!Chain[j] \in list_used
      /\ \A c \in list_used : List!Position(c) \in DOMAIN List!Chain /\ List!Chain[List!Position(c)] = c
  BY <1>1, <1>2, PositionsInOrder
<1>5. List!ToSet(List!Chain) = list_used
  BY <1>3, <1>4
<1>6. List!Chain # << >> => list_cell[List!Last(List!Chain)].next = Null
  BY <1>1, <1>2, PlacesOfTheChain
<1> QED
  BY <1>2, <1>5, <1>6 DEF List!NoCellLost

-----------------------------------------------------------------------------
\* Whatever numbers are given to the cells: their order is that of the positions.
OrderSeen ==
  \A r \in [list_used -> Nat] : Chained(r) =>
    \A c, d \in list_used : r[c] < r[d] <=> List!Position(c) < List!Position(d)

LEMMA SeenInOrder == List!TypeOK => OrderSeen
  BY PositionsInOrder DEF OrderSeen

\* Of the positions of what is searched: the first of a run is doomed, and no other data is.
LEMMA DoomedAreEqual ==
  ASSUME List!TypeOK, NEW r, Chained(r), NEW same, NEW i \in DOMAIN List!Chain
  PROVE  /\ List!Contents[i] \in same /\ (i > 1 => List!Contents[i - 1] \notin same) => i \in List!Doomed(same)
         /\ i \in List!Doomed(same) => List!Contents[i] \in same
<1>1. DOMAIN List!Chain = 1..Len(List!Chain) /\ Len(List!Chain) \in Nat
  BY PositionsInOrder
<1>2. List!Doomed(same) = {j \in DOMAIN List!Chain : \E k \in 1..j :
                             /\ \A m \in k..j : List!Contents[m] \in same
                             /\ k > 1 => List!Contents[k - 1] \notin same
                             /\ (j - k) % 2 = 0}
  BY Zenon DEF List!Doomed
<1>3. i \in Nat /\ i \in 1..i /\ (i - i) % 2 = 0 /\ (\A m \in i..i : m = i) /\ \A k \in 1..i : i \in k..i
  BY <1>1
<1>4. ASSUME List!Contents[i] \in same, i > 1 => List!Contents[i - 1] \notin same
      PROVE  i \in List!Doomed(same)
  <2>1. \A m \in i..i : List!Contents[m] \in same
    BY <1>3, <1>4
  <2> QED BY <1>2, <1>3, <1>4, <2>1, Zenon
<1>5. ASSUME i \in List!Doomed(same)
      PROVE  List!Contents[i] \in same
  BY <1>2, <1>3, <1>5, Zenon
<1> QED
  BY <1>4, <1>5

\* What taking out the doomed ones leaves.
LEMMA DeletedAreEqual ==
  ASSUME List!TypeOK, NEW r, Chained(r), NEW same, List!Unlink(List!Doomed(same)), NEW i \in DOMAIN List!Chain
  PROVE  /\ List!Contents[i] \in same /\ (i > 1 => List!Contents[i - 1] \notin same) => List!Chain[i] \notin list_used'
         /\ List!Contents[i] \notin same => List!Chain[i] \in list_used'
<1> DEFINE ch == List!Chain
           doomed == List!Doomed(same)
<1>1. list_used' = list_used \ {ch[j] : j \in doomed \cap DOMAIN ch}
  BY DEF List!Unlink
<1>2. \A j \in DOMAIN ch : ch[j] \in list_used /\ List!Position(ch[j]) = j
  BY PositionsInOrder
<1>3. /\ List!Contents[i] \in same /\ (i > 1 => List!Contents[i - 1] \notin same) => i \in doomed
      /\ i \in doomed => List!Contents[i] \in same
  BY DoomedAreEqual
<1> HIDE DEF ch, doomed
<1>4. i \in DOMAIN ch
  BY DEF ch
<1>5. ch[i] \in {ch[j] : j \in doomed \cap DOMAIN ch} <=> i \in doomed
  BY <1>2, <1>4
<1>6. ch[i] \in list_used' <=> i \notin doomed
  BY <1>1, <1>2, <1>4, <1>5
<1> QED
  BY <1>3, <1>6 DEF ch

\* The calls that delete by value are the removals of what is equal to their argument; no other call is told as one.
LEMMA DeletesByValue ==
  ASSUME List!Next
  PROVE  list_op'[1] = "delete" =>
           \E same : /\ List!Unlink(List!Doomed(same))
                     /\ \A d \in List!Data : d \in same <=> List!Matches(d, list_op'[2])
<1> DEFINE P == list_op'[1] = "delete" =>
                  \E same : /\ List!Unlink(List!Doomed(same))
                            /\ \A d \in List!Data : d \in same <=> List!Matches(d, list_op'[2])
<1> SUFFICES P
  OBVIOUS
<1>1. \A x : list_op' = <<"answer", x>> => list_op'[1] # "delete"
  OBVIOUS
<1>2. \A x : List!Answer(x) => P
  BY <1>1 DEF List!Answer
<1>3. \A n, x : List!Call(n, x) => list_op' = <<n, x>>
  BY DEF List!Call
<1>4. \A n, x : list_op' = <<n, x>> => list_op'[1] = n /\ list_op'[2] = x
  OBVIOUS
<1>5. \A n, x : List!Call(n, x) /\ n # "delete" => P
  BY <1>3, <1>4
<1>6. "add" # "delete" /\ "tail" # "delete" /\ "head" # "delete" /\ "pos" # "delete" /\ "free" # "delete" /\ "free_data" # "delete"
  OBVIOUS
<1>7. ASSUME list_kind = "list", NEW e \in Elems, List!Unlink(List!Doomed({e})), List!Call("delete", e) PROVE P
  <2>1. \A d \in List!Data : d \in {e} <=> List!Matches(d, list_op'[2])
    BY <1>3, <1>4, <1>7 DEF List!Matches
  <2> QED BY <1>7, <2>1
<1>8. ASSUME list_kind = "assoc", NEW e \in Elems,
             List!Unlink(List!Doomed({d \in List!Data : d[1] = e})), List!Call("delete", e)
      PROVE  P
  <2> DEFINE same == {d \in List!Data : d[1] = e}
  <2>1. list_op'[2] = e
    BY <1>3, <1>4, <1>8
  <2>2. \A d \in List!Data : d \in same <=> List!Matches(d, list_op'[2])
    BY <1>8, <2>1 DEF List!Matches
  <2>3. List!Unlink(List!Doomed(same))
    BY <1>8
  <2> HIDE DEF same
  <2> QED BY <2>2, <2>3
<1> HIDE DEF P
<1>9. CASE list_kind = "list" /\ List!ListNext
  <2>1. CASE List!DelElementElem
    BY <1>7, <1>9, <2>1, Zenon DEF List!DelElementElem
  <2>2. CASE List!AddElementTail \/ List!AddElementHead \/ List!AddElementPos
    BY <1>5, <1>6, <2>2, Zenon DEF List!AddElementTail, List!AddElementHead, List!AddElementPos
  <2>3. CASE List!DelElementTail \/ List!DelElementHead \/ List!DelElementPos
    BY <1>5, <1>6, <2>3, Zenon DEF List!DelElementTail, List!DelElementHead, List!DelElementPos
  <2>4. CASE List!GetElementTail \/ List!GetElementHead \/ List!GetElementPos \/ List!ListCount
    BY <1>2, <2>4, Zenon DEF List!GetElementTail, List!GetElementHead, List!GetElementPos, List!ListCount
  <2>5. CASE List!FreeList \/ List!FreeListElem
    BY <1>5, <1>6, <2>5, Zenon DEF List!FreeList, List!FreeListElem
  <2> QED BY <1>9, <2>1, <2>2, <2>3, <2>4, <2>5 DEF List!ListNext
<1>10. CASE list_kind = "assoc" /\ List!AssocNext
  <2>1. CASE List!DelAssocLeft
    BY <1>8, <1>10, <2>1, Zenon DEF List!DelAssocLeft
  <2>2. CASE List!AddAssocTail \/ List!AddAssocHead \/ List!AddAssocPos
    BY <1>5, <1>6, <2>2, Zenon DEF List!AddAssocTail, List!AddAssocHead, List!AddAssocPos
  <2>3. CASE List!DelAssocTail \/ List!DelAssocHead \/ List!DelAssocPos
    BY <1>5, <1>6, <2>3, Zenon DEF List!DelAssocTail, List!DelAssocHead, List!DelAssocPos
  <2>4. CASE List!GetAssocTail \/ List!GetAssocHead \/ List!GetAssocPos \/ List!GetAssocLeft \/ List!AssocCount
    BY <1>2, <2>4, Zenon DEF List!GetAssocTail, List!GetAssocHead, List!GetAssocPos, List!GetAssocLeft, List!AssocCount
  <2>5. CASE List!FreeAssoc \/ List!FreeAssocAssoc
    BY <1>5, <1>6, <2>5, Zenon DEF List!FreeAssoc, List!FreeAssocAssoc
  <2> QED BY <1>10, <2>1, <2>2, <2>3, <2>4, <2>5 DEF List!AssocNext
<1> QED
  BY <1>9, <1>10 DEF List!Next

LEMMA StepKeepsSurvivors == ListInv /\ List!Next => List!Survivors
<1>1. (List!TypeOK => OrderSeen)'
  BY SeenInOrder, PTL
<1>2. ListInv /\ List!Next => ListInv'
  BY ListStepInv
<1> SUFFICES ASSUME ListInv, List!Next PROVE List!Survivors
  OBVIOUS
<1>3. PICK r \in [list_used -> Nat] : Chained(r)
  BY DEF ListInv
<1>4. List!TypeOK /\ ChainKept(r)
  BY <1>3, ListNextKeeps DEF ListInv
<1>5. PICK s \in [list_used' -> Nat] : InOrder(list_used', list_list', list_cell', s) /\ OrderKept(r, s)
  BY <1>4 DEF ChainKept
<1>6. OrderSeen'
  BY <1>1, <1>2 DEF ListInv
<1>7. \A c, d \in list_used' : s[c] < s[d] <=> List!Position(c)' < List!Position(d)'
  BY <1>5, <1>6 DEF OrderSeen, Chained
<1>8. \A c, d \in list_used : r[c] < r[d] <=> List!Position(c) < List!Position(d)
  BY <1>3, <1>4, PositionsInOrder
<1>9. \A c, d \in list_used \cap list_used' : List!Position(c) < List!Position(d) => List!Position(c)' < List!Position(d)'
  BY <1>5, <1>7, <1>8 DEF OrderKept
<1>10. \A c \in list_used \cap list_used' : list_cell'[c].data = list_cell[c].data
  BY <1>4 DEF ChainKept, DataKept
<1>11. ASSUME list_op'[1] = "delete", NEW i \in DOMAIN List!Chain
       PROVE  /\ List!Matches(List!Contents[i], list_op'[2]) /\ (i > 1 => ~List!Matches(List!Contents[i - 1], list_op'[2]))
                   => List!Chain[i] \notin list_used'
              /\ ~List!Matches(List!Contents[i], list_op'[2]) => List!Chain[i] \in list_used'
  <2>1. PICK same : /\ List!Unlink(List!Doomed(same))
                    /\ \A d \in List!Data : d \in same <=> List!Matches(d, list_op'[2])
    BY <1>11, DeletesByValue
  <2>2. \A j \in DOMAIN List!Chain : List!Contents[j] \in List!Data
    <3> TAKE j \in DOMAIN List!Chain
    <3>1. List!Chain[j] \in list_used
      BY <1>3, <1>4, PositionsInOrder
    <3>2. List!Contents[j] = list_cell[List!Chain[j]].data
      BY Zenon DEF List!Contents
    <3>3. list_cell[List!Chain[j]] \in ListLinks
      BY <1>4, <3>1 DEF List!TypeOK, ListLinks
    <3>4. \A x \in ListLinks : x.data \in List!Data
      BY DEF ListLinks
    <3> QED BY <3>2, <3>3, <3>4
  <2>3. i > 1 => i - 1 \in DOMAIN List!Chain
    <3>1. DOMAIN List!Chain = 1..Len(List!Chain) /\ Len(List!Chain) \in Nat
      BY <1>3, <1>4, PositionsInOrder
    <3> QED BY <3>1
  <2>4. /\ List!Contents[i] \in same /\ (i > 1 => List!Contents[i - 1] \notin same) => List!Chain[i] \notin list_used'
        /\ List!Contents[i] \notin same => List!Chain[i] \in list_used'
    BY <1>3, <1>4, <2>1, DeletedAreEqual
  <2> QED BY <2>1, <2>2, <2>3, <2>4
<1> QED
  BY <1>9, <1>10, <1>11 DEF List!Survivors
-----------------------------------------------------------------------------
(* Sequences: functions on 1..n are sequences, and so are beginnings.      *)

LEMMA FunctionIsSeq ==
  ASSUME NEW S, NEW n \in Nat, NEW f \in [1..n -> S]
  PROVE  f \in Seq(S) /\ Len(f) = n
<1>1. f \in Seq(S)
  OBVIOUS
<1>2. Len(f) \in Nat /\ DOMAIN f = 1..Len(f)
  BY <1>1, LenProperties
<1>3. 1..Len(f) = 1..n
  BY <1>2
<1> QED
  BY <1>1, <1>2, <1>3

LEMMA Beginning ==
  ASSUME NEW S, NEW s, NEW k \in Nat, \A i \in 1..k : s[i] \in S
  PROVE  SubSeq(s, 1, k) \in Seq(S) /\ Len(SubSeq(s, 1, k)) = k /\ \A i \in 1..k : SubSeq(s, 1, k)[i] = s[i]
<1>1. 1 \in Int /\ k \in Int /\ k - 1 + 1 = k /\ (~(1 <= k) => k = 0)
  OBVIOUS
<1>2. /\ SubSeq(s, 1, k) \in Seq(S) /\ Len(SubSeq(s, 1, k)) = (IF 1 <= k THEN k - 1 + 1 ELSE 0)
      /\ \A i \in 1..(k - 1 + 1) : SubSeq(s, 1, k)[i] = s[1 + i - 1]
  BY <1>1, SubSeqProperties
<1>3. \A i \in 1..k : 1 + i - 1 = i
  OBVIOUS
<1> QED
  BY <1>1, <1>2, <1>3


-----------------------------------------------------------------------------
(* Archive: what a close has put into the file stays where it was put, as   *)
(* far as the file goes.                                                    *)

Named == ResNames \cup {Null}
HeaderItems ==
  [is : {"header"}, comp : Nat, orig : Nat, type : {"NONE", "other"}, index : Indexes, name : Named]
Items ==
  {Arch!Sig} \cup {Arch!Count(n) : n \in 0..MaxRes} \cup {Arch!Ofs(n) : n \in Nat}
    \cup {Arch!Byte(b) : b \in ContentBytes} \cup HeaderItems
Resources ==
  [isfile : BOOLEAN, data : Seq(ContentBytes), orig : Nat, comp : Nat, type : {"NONE", "other"}, index : Indexes, name : Named]
Puts == [index : Indexes, name : Named, data : Seq(ContentBytes)]
Places == [hdr : HeaderItems, offset : Nat]
FoundOnes(k) == [mode : {"none", "read", "garbage"}, res : {t \in Seq(Places) : Len(t) <= k}]

LEMMA ItemKinds ==
  /\ \A x \in Items : /\ x.is = "header" => x \in HeaderItems
                      /\ x.is = "count" => x.n \in 0..MaxRes
                      /\ x.is = "offset" => x.at \in Nat
                      /\ x.is = "signature" <=> x = Arch!Sig
  /\ Arch!Sig \in Items /\ Arch!Sig.is = "signature"
  /\ \A n \in 0..MaxRes : Arch!Count(n) \in Items /\ Arch!Count(n).is = "count" /\ Arch!Count(n).n = n
  /\ \A n \in Nat : Arch!Ofs(n) \in Items /\ Arch!Ofs(n).is = "offset" /\ Arch!Ofs(n).at = n
  /\ \A b \in ContentBytes : Arch!Byte(b) \in Items /\ Arch!Byte(b).is = "byte"
  /\ \A h \in HeaderItems : h \in Items /\ h.is = "header" /\ h.comp \in Nat
<1>1. \A h \in HeaderItems : h.is = "header" /\ h.comp \in Nat
  BY DEF HeaderItems
<1>2. \A x \in Items : \/ x = Arch!Sig \/ x \in HeaderItems
                       \/ \E n \in 0..MaxRes : x = Arch!Count(n)
                       \/ \E n \in Nat : x = Arch!Ofs(n)
                       \/ \E b \in ContentBytes : x = Arch!Byte(b)
  BY DEF Items
<1>3. Arch!Sig.is = "signature"
  BY DEF Arch!Sig
<1>4. \A n \in 0..MaxRes : Arch!Count(n).is = "count" /\ Arch!Count(n).n = n
  BY DEF Arch!Count
<1>5. \A n \in Nat : Arch!Ofs(n).is = "offset" /\ Arch!Ofs(n).at = n
  BY DEF Arch!Ofs
<1>6. \A b \in ContentBytes : Arch!Byte(b).is = "byte"
  BY DEF Arch!Byte
<1>7. \A x \in Items : /\ x.is = "header" => x \in HeaderItems
                       /\ x.is = "count" => x.n \in 0..MaxRes
                       /\ x.is = "offset" => x.at \in Nat
                       /\ x.is = "signature" <=> x = Arch!Sig
  BY <1>1, <1>2, <1>3, <1>4, <1>5, <1>6
<1>8. /\ Arch!Sig \in Items /\ \A n \in 0..MaxRes : Arch!Count(n) \in Items
      /\ \A n \in Nat : Arch!Ofs(n) \in Items
      /\ \A b \in ContentBytes : Arch!Byte(b) \in Items
      /\ \A h \in HeaderItems : h \in Items
  BY DEF Items
<1> QED
  BY <1>1, <1>3, <1>4, <1>5, <1>6, <1>7, <1>8

-----------------------------------------------------------------------------
\* The reader, row by row: k headers from each place on.
HeaderRow(f, k, rest) == [at \in 1..(Len(f) + 1) |-> Arch!HeadersAt(f, k, at, rest)]

LEMMA HeadersByRows ==
  ASSUME NEW f
  PROVE  \A k \in 0..MaxRes : Arch!Headers(f)[k] = HeaderRow(f, k, Arch!Headers(f)[k - 1])
<1> DEFINE Rows(n, h) == h = [k \in 0..n |-> HeaderRow(f, k, h[k - 1])]
           T == {n \in Nat : ~ \E h : Rows(n, h)}
<1>1. MaxRes \in Nat
  BY StructuresAssumption
<1>2. \A v, w : HeaderRow(f, 0, v) = HeaderRow(f, 0, w)
  BY DEF HeaderRow, Arch!HeadersAt
<1>3. T = {}
  <2> SUFFICES ASSUME T # {} PROVE FALSE
    OBVIOUS
  <2>1. T \in SUBSET Nat
    OBVIOUS
  <2> HIDE DEF T
  <2>2. PICK m \in T : \A y \in T : m <= y
    BY <2>1, LeastOf
  <2> USE DEF T
  <2>3. m \in Nat /\ ~ \E h : Rows(m, h)
    BY <2>2
  <2>4. CASE m = 0
    <3> DEFINE g == [k \in 0..0 |-> HeaderRow(f, 0, << >>)]
    <3>1. \A k \in 0..0 : k = 0
      OBVIOUS
    <3>2. \A k \in 0..0 : HeaderRow(f, 0, << >>) = HeaderRow(f, k, g[k - 1])
      <4> HIDE DEF g
      <4> QED BY <1>2, <3>1
    <3>3. [k \in 0..0 |-> HeaderRow(f, 0, << >>)] = [k \in 0..0 |-> HeaderRow(f, k, g[k - 1])]
      BY <3>2, Zenon
    <3>4. Rows(0, g)
      BY <3>3
    <3> QED BY <2>3, <2>4, <3>4
  <2>5. CASE m # 0
    <3>1. m - 1 \in Nat /\ ~(m <= m - 1)
      BY <2>3, <2>5
    <3>2. ~(m - 1 \in T)
      BY <2>2, <3>1
    <3>3. PICK h : Rows(m - 1, h)
      BY <3>1, <3>2
    <3> DEFINE g == [k \in 0..m |-> IF k = m THEN HeaderRow(f, m, h[m - 1]) ELSE h[k]]
    <3>4. g[m - 1] = h[m - 1]
      BY <3>1
    <3>5. \A k \in 0..m : g[k] = HeaderRow(f, k, g[k - 1])
      <4> SUFFICES ASSUME NEW k \in 0..m PROVE g[k] = HeaderRow(f, k, g[k - 1])
        OBVIOUS
      <4>1. CASE k = m
        BY <3>4, <4>1
      <4>2. CASE k # m
        <5>1. k \in 0..(m - 1) /\ g[k] = h[k]
          BY <2>3, <4>2
        <5>2. h[k] = HeaderRow(f, k, h[k - 1])
          BY <3>3, <5>1
        <5>3. CASE k = 0
          BY <1>2, <5>1, <5>2, <5>3
        <5>4. CASE k # 0
          <6>1. k - 1 \in 0..m /\ k - 1 # m
            BY <2>3, <5>1, <5>4
          <6>2. g[k - 1] = h[k - 1]
            BY <6>1
          <6> QED BY <5>1, <5>2, <6>2
        <5> QED BY <5>3, <5>4
      <4> QED BY <4>1, <4>2
    <3>6. \A k \in 0..m : (IF k = m THEN HeaderRow(f, m, h[m - 1]) ELSE h[k]) = HeaderRow(f, k, g[k - 1])
      BY <3>5
    <3>7. [k \in 0..m |-> IF k = m THEN HeaderRow(f, m, h[m - 1]) ELSE h[k]] = [k \in 0..m |-> HeaderRow(f, k, g[k - 1])]
      <4> HIDE DEF g
      <4> QED BY <3>6, Zenon
    <3>8. Rows(m, g)
      BY <3>7
    <3> QED BY <2>3, <3>8
  <2> QED BY <2>4, <2>5
<1>4. \E h : Rows(MaxRes, h)
  BY <1>1, <1>3
<1>5. Arch!Headers(f) = CHOOSE h : Rows(MaxRes, h)
  BY Zenon DEF Arch!Headers, HeaderRow
<1>6. Rows(MaxRes, Arch!Headers(f))
  <2> HIDE DEF Rows
  <2> QED BY <1>4, <1>5, Zenon
<1> QED
  BY <1>6

LEMMA NothingFound ==
  \A n \in Nat : Arch!NULL \in FoundOnes(n) /\ Arch!Garbage \in FoundOnes(n) /\ Arch!Found(<< >>) \in FoundOnes(n)
<1> TAKE n \in Nat
<1>1. << >> \in {t \in Seq(Places) : Len(t) <= n}
  BY EmptySeq
<1> QED
  BY <1>1 DEF FoundOnes, Arch!NULL, Arch!Garbage, Arch!Found

\* What the reader finds from a place on, whatever is in the file, is an archive with at most k resources, or no archive.
LEMMA HeadersTyped ==
  ASSUME NEW f \in Seq(Items)
  PROVE  \A k \in 0..MaxRes : \A at \in 1..(Len(f) + 1) : Arch!Headers(f)[k][at] \in FoundOnes(k)
<1> DEFINE H == Arch!Headers(f)
           T == {k \in 0..MaxRes : ~ \A at \in 1..(Len(f) + 1) : H[k][at] \in FoundOnes(k)}
<1>1. MaxRes \in Nat /\ Len(f) \in Nat /\ DOMAIN f = 1..Len(f) /\ \A i \in 1..Len(f) : f[i] \in Items
  BY StructuresAssumption, LenProperties
<1>2. \A k \in 0..MaxRes : H[k] = HeaderRow(f, k, H[k - 1])
  BY HeadersByRows
<1> HIDE DEF H
<1>3. T \in SUBSET Nat
  BY <1>1
<1>4. T = {}
  <2> SUFFICES ASSUME T # {} PROVE FALSE
    OBVIOUS
  <2> HIDE DEF T
  <2>1. PICK k \in T : \A y \in T : k <= y
    BY <1>3, LeastOf
  <2> USE DEF T
  <2>2. PICK at \in 1..(Len(f) + 1) : H[k][at] \notin FoundOnes(k)
    BY <2>1
  <2>3. k \in 0..MaxRes /\ H[k][at] = Arch!HeadersAt(f, k, at, H[k - 1])
    BY <1>2, <2>1 DEF HeaderRow
  <2>4. \A n \in Nat : Arch!NULL \in FoundOnes(n) /\ Arch!Garbage \in FoundOnes(n) /\ Arch!Found(<< >>) \in FoundOnes(n)
    BY NothingFound
  <2>5. k # 0 /\ at <= Len(f) /\ f[at].is = "header"
    BY <1>1, <2>2, <2>3, <2>4 DEF Arch!HeadersAt
  <2> DEFINE seek == Arch!Sought(f, at + 1 + f[at].comp)
             after == H[k - 1][seek]
  <2>6. f[at] \in HeaderItems /\ f[at].comp \in Nat
    BY <1>1, <2>5, ItemKinds
  <2>7. seek \in 1..(Len(f) + 1)
    BY <1>1, <2>6 DEF Arch!Sought
  <2>8. k - 1 \in 0..MaxRes /\ k - 1 \notin T
    BY <1>1, <2>1, <2>3, <2>5
  <2>9. after \in FoundOnes(k - 1)
    BY <2>7, <2>8
  <2>10. H[k][at] = IF after.mode # "read" THEN after
                    ELSE Arch!Found(<<[hdr |-> f[at], offset |-> at + 1]>> \o after.res)
    <3>1. ~(at > Len(f)) /\ ~(k = 0) /\ ~(f[at].is # "header")
      BY <1>1, <2>5
    <3> QED BY <2>3, <3>1, Zenon DEF Arch!HeadersAt
  <2> HIDE DEF after, seek
  <2> DEFINE s == after.res
  <2>11. after.res \in Seq(Places) /\ Len(s) <= k - 1
    BY <2>9 DEF FoundOnes
  <2>12. Len(s) \in Nat /\ Len(s) <= k
    BY <2>3, <2>11, LenProperties
  <2>13. after \in FoundOnes(k)
    BY <2>9, <2>11, <2>12 DEF FoundOnes
  <2>14. [hdr |-> f[at], offset |-> at + 1] \in Places
    BY <2>6 DEF Places
  <2> DEFINE t == <<[hdr |-> f[at], offset |-> at + 1]>> \o s
  <2>15. t \in Seq(Places) /\ Len(t) = 1 + Len(s)
    <3>1. <<[hdr |-> f[at], offset |-> at + 1]>> \in Seq(Places) /\ Len(<<[hdr |-> f[at], offset |-> at + 1]>>) = 1
      BY <2>14
    <3> HIDE DEF s
    <3> QED BY <2>11, <3>1, ConcatProperties DEF s
  <2>16. Arch!Found(t) \in FoundOnes(k)
    <3>1. Len(t) <= k
      BY <2>3, <2>11, <2>12, <2>15
    <3> HIDE DEF t
    <3> QED BY <2>15, <3>1 DEF FoundOnes, Arch!Found
  <2> QED BY <2>2, <2>10, <2>13, <2>16
<1> QED
  BY <1>4 DEF H

LEMMA ReadTyped ==
  ASSUME NEW f \in Seq(Items), NEW at \in Nat \ {0}
  PROVE  Arch!ReadHeaders(f, at) \in FoundOnes(MaxRes)
<1>1. Len(f) \in Nat /\ MaxRes \in Nat /\ \A i \in 1..Len(f) : f[i] \in Items
  BY StructuresAssumption, LenProperties
<1>2. Arch!NULL \in FoundOnes(MaxRes) /\ Arch!Garbage \in FoundOnes(MaxRes)
  BY <1>1, NothingFound
<1>3. CASE at + 1 <= Len(f) /\ f[at] = Arch!Sig /\ f[at + 1].is = "count"
  <2>1. f[at + 1].n \in 0..MaxRes /\ at + 2 \in 1..(Len(f) + 1)
    BY <1>1, <1>3, ItemKinds
  <2>2. Arch!Headers(f)[f[at + 1].n][at + 2] \in FoundOnes(f[at + 1].n)
    BY <2>1, HeadersTyped
  <2>3. FoundOnes(f[at + 1].n) \subseteq FoundOnes(MaxRes)
    <3> DEFINE n == f[at + 1].n
    <3>1. n \in 0..MaxRes
      BY <2>1
    <3> HIDE DEF n
    <3>2. \A t \in Seq(Places) : Len(t) <= n => Len(t) <= MaxRes
      BY <1>1, <3>1, LenProperties
    <3>3. FoundOnes(n) \subseteq FoundOnes(MaxRes)
      BY <3>2 DEF FoundOnes
    <3> QED BY <3>3 DEF n
  <2>4. Arch!ReadHeaders(f, at) = Arch!Headers(f)[f[at + 1].n][at + 2]
    BY <1>1, <1>3 DEF Arch!ReadHeaders
  <2> QED BY <2>2, <2>3, <2>4
<1>4. CASE ~(at + 1 <= Len(f) /\ f[at] = Arch!Sig /\ f[at + 1].is = "count")
  <2>1. Arch!ReadHeaders(f, at) \in {Arch!NULL, Arch!Garbage}
    BY <1>1, <1>4 DEF Arch!ReadHeaders
  <2> QED BY <1>2, <2>1
<1> QED
  BY <1>3, <1>4
-----------------------------------------------------------------------------
\* In f, from the item `at` on, as far as f goes, are the signature and the resources of ps, each with its header at a place p; there is no other
\* signature.
HeaderOf(r) == [is |-> "header", comp |-> Len(r.data), orig |-> Len(r.data), type |-> "NONE", index |-> r.index, name |-> r.name]
PlacesOf(ps, at, p) ==
  /\ p \in [1..(Len(ps) + 1) -> Nat] /\ p[1] = at + 2
  /\ \A k \in 1..Len(ps) : p[k + 1] = p[k] + 1 + Len(ps[k].data)
  /\ \A j, k \in 1..(Len(ps) + 1) : j < k => p[j] < p[k]
Laid(f, ps, at, p) ==
  /\ PlacesOf(ps, at, p)
  /\ \A q \in 1..Len(f) : f[q] = Arch!Sig <=> q = at
  /\ \A k \in 1..Len(ps) :
       /\ p[k] <= Len(f) => f[p[k]] = HeaderOf(ps[k])
       /\ \A i \in 1..Len(ps[k].data) : p[k] + i <= Len(f) => f[p[k] + i] = Arch!Byte(ps[k].data[i])

LEMMA HeadersAreItems ==
  ASSUME NEW r \in Puts
  PROVE  /\ HeaderOf(r) \in HeaderItems /\ HeaderOf(r).is = "header" /\ HeaderOf(r).comp = Len(r.data)
         /\ HeaderOf(r).orig = Len(r.data) /\ HeaderOf(r).type = "NONE" /\ HeaderOf(r).index = r.index /\ HeaderOf(r).name = r.name
         /\ Len(r.data) \in Nat /\ r.data \in Seq(ContentBytes)
<1>1. r.data \in Seq(ContentBytes) /\ r.index \in Indexes /\ r.name \in Named
  BY DEF Puts
<1>2. Len(r.data) \in Nat
  BY <1>1, LenProperties
<1> QED
  BY <1>1, <1>2 DEF HeaderOf, HeaderItems

\* The last k of the resources, with their places.
LastOnes(f, n, p, k) == [j \in 1..k |-> [hdr |-> f[p[n - k + j]], offset |-> p[n - k + j] + 1]]

\* The reader finds the headers that were written, or none when the last of them is missing.
LEMMA ReaderFinds ==
  ASSUME NEW f \in Seq(Items), NEW ps \in Seq(Puts), Len(ps) \in 1..MaxRes, NEW at \in Nat \ {0}, NEW p, Laid(f, ps, at, p)
  PROVE  \A k \in 0..Len(ps) :
           Arch!Headers(f)[k][Arch!Sought(f, p[Len(ps) + 1 - k])]
             = IF k = 0 \/ p[Len(ps)] <= Len(f) THEN Arch!Found(LastOnes(f, Len(ps), p, k)) ELSE Arch!NULL
<1> DEFINE H == Arch!Headers(f)
           n == Len(ps)
           Right(k) == H[k][Arch!Sought(f, p[n + 1 - k])]
                         = IF k = 0 \/ p[n] <= Len(f) THEN Arch!Found(LastOnes(f, n, p, k)) ELSE Arch!NULL
           T == {k \in 0..n : ~Right(k)}
<1>1. Len(f) \in Nat /\ n \in 1..MaxRes /\ n \in Nat /\ MaxRes \in Nat /\ \A i \in 1..Len(f) : f[i] \in Items
  BY StructuresAssumption, LenProperties
<1>2. \A k \in 0..MaxRes : H[k] = HeaderRow(f, k, H[k - 1])
  BY HeadersByRows
<1>3. /\ \A k \in 1..(n + 1) : p[k] \in Nat
      /\ \A k \in 1..n : p[k + 1] = p[k] + 1 + Len(ps[k].data)
      /\ \A j, k \in 1..(n + 1) : j < k => p[j] < p[k]
      /\ \A k \in 1..n : p[k] <= Len(f) => f[p[k]] = HeaderOf(ps[k])
      /\ p[1] = at + 2
  BY DEF Laid, PlacesOf
<1>4. \A k \in 1..n : ps[k] \in Puts
  BY <1>1, LenProperties
<1> HIDE DEF H, n
<1>5. \A k \in 1..(n + 1) : p[k] >= 1
  <2> TAKE k \in 1..(n + 1)
  <2>1. CASE k = 1
    BY <1>3, <2>1
  <2>2. CASE k # 1
    <3>1. 1 \in 1..(n + 1) /\ 1 < k
      BY <1>1, <2>2
    <3>2. p[1] < p[k] /\ p[1] \in Nat /\ p[k] \in Nat
      BY <1>3, <3>1
    <3> QED BY <3>2
  <2> QED BY <2>1, <2>2
<1>6. \A k \in 1..(n + 1) : Arch!Sought(f, p[k]) \in 1..(Len(f) + 1)
  BY <1>1, <1>3, <1>5 DEF Arch!Sought
<1>7. T \in SUBSET Nat
  BY <1>1
<1>8. T = {}
  <2> SUFFICES ASSUME T # {} PROVE FALSE
    OBVIOUS
  <2> HIDE DEF T
  <2>1. PICK k \in T : \A y \in T : k <= y
    BY <1>7, LeastOf
  <2> USE DEF T
  <2> DEFINE j == n + 1 - k
             q == Arch!Sought(f, p[j])
  <2>2. k \in 0..n /\ ~Right(k) /\ k \in 0..MaxRes /\ j \in 1..(n + 1) /\ q \in 1..(Len(f) + 1)
    BY <1>1, <1>6, <2>1
  <2>3. H[k][q] = Arch!HeadersAt(f, k, q, H[k - 1])
    BY <1>2, <2>2 DEF HeaderRow
  <2>4. CASE k = 0
    <3>1. LastOnes(f, n, p, 0) = << >>
      BY DEF LastOnes
    <3>2. H[k][q] = Arch!Found(<< >>)
      BY <2>3, <2>4 DEF Arch!HeadersAt
    <3> QED BY <2>2, <2>4, <3>1, <3>2
  <2>5. CASE k # 0
    <3>1. j \in 1..n /\ j + 1 \in 1..(n + 1) /\ j + 1 = n + 1 - (k - 1) /\ k - 1 \in 0..n /\ k - 1 \notin T
      BY <1>1, <2>1, <2>2, <2>5
    <3>2. Right(k - 1)
      BY <3>1
    <3>3. p[j] \in Nat /\ p[n] \in Nat /\ (j = n \/ p[j] < p[n]) /\ n \in 1..(n + 1)
      <4>1. n \in 1..(n + 1) /\ (j = n \/ j < n)
        BY <1>1, <3>1
      <4> QED BY <1>3, <2>2, <4>1
    <3> DEFINE x == p[j]
    <3>6. q = IF x > Len(f) THEN Len(f) + 1 ELSE x
      BY DEF Arch!Sought
    <3>4. CASE p[j] > Len(f)
      <4>1. q > Len(f) /\ ~(p[n] <= Len(f))
        <5>1. ~(p[n] <= Len(f))
          <6>1. x \in Nat /\ p[n] \in Nat /\ x > Len(f) /\ Len(f) \in Nat
            BY <1>1, <3>3, <3>4
          <6>2. p[n] = x \/ x < p[n]
            BY <3>3, Zenon
          <6> HIDE DEF x
          <6> QED BY <6>1, <6>2
        <5>2. q > Len(f)
          BY <1>1, <3>4, <3>6
        <5> QED BY <5>1, <5>2
      <4>2. H[k][q] = Arch!NULL
        BY <2>3, <2>5, <4>1 DEF Arch!HeadersAt
      <4> QED BY <2>2, <2>5, <4>1, <4>2
    <3>5. CASE p[j] <= Len(f)
      <4>1. q = p[j] /\ f[q] = HeaderOf(ps[j])
        <5>1. q = p[j]
          BY <1>1, <3>3, <3>5, <3>6
        <5> QED BY <1>3, <3>1, <3>5, <5>1
      <4>2. f[q].is = "header" /\ f[q].comp = Len(ps[j].data)
        BY <1>4, <3>1, <4>1, HeadersAreItems
      <4>3. q + 1 + f[q].comp = p[j + 1]
        BY <1>3, <3>1, <4>1, <4>2
      <4> DEFINE after == H[k - 1][Arch!Sought(f, p[j + 1])]
      <4>4. ~(q > Len(f))
        BY <1>1, <3>3, <3>5, <4>1
      <4>5. H[k][q] = IF after.mode # "read" THEN after ELSE Arch!Found(<<[hdr |-> f[q], offset |-> q + 1]>> \o after.res)
        BY <2>3, <2>5, <4>2, <4>3, <4>4, Zenon DEF Arch!HeadersAt
      <4>6. after = IF k - 1 = 0 \/ p[n] <= Len(f) THEN Arch!Found(LastOnes(f, n, p, k - 1)) ELSE Arch!NULL
        BY <3>1, <3>2
      <4> HIDE DEF after, q
      <4>7. CASE p[n] <= Len(f)
        <5> DEFINE s == LastOnes(f, n, p, k - 1)
                   t == <<[hdr |-> f[q], offset |-> q + 1]>> \o s
        <5>1. after.mode = "read" /\ after.res = s
          BY <4>6, <4>7 DEF Arch!Found
        <5>2. t = LastOnes(f, n, p, k)
          <6> DEFINE Z == {[hdr |-> f[p[i]], offset |-> p[i] + 1] : i \in 1..n}
          <6>1. k - 1 \in Nat /\ \A i \in 1..(k - 1) : n - (k - 1) + i \in 1..n
            BY <1>1, <2>2, <3>1
          <6>2. s \in [1..(k - 1) -> Z]
            BY <6>1 DEF LastOnes
          <6>3. s \in Seq(Z) /\ Len(s) = k - 1
            <7> HIDE DEF s, Z
            <7> QED BY <6>1, <6>2, FunctionIsSeq
          <6>4. [hdr |-> f[q], offset |-> q + 1] \in Z
            BY <3>1, <4>1
          <6>5. t \in Seq(Z) /\ Len(t) = k /\ t[1] = [hdr |-> f[q], offset |-> q + 1] /\ \A i \in 2..k : t[i] = s[i - 1]
            <7> HIDE DEF Z, s
            <7>1. <<[hdr |-> f[q], offset |-> q + 1]>> \in Seq(Z) /\ Len(<<[hdr |-> f[q], offset |-> q + 1]>>) = 1
              BY <6>4
            <7>2. /\ t \in Seq(Z) /\ Len(t) = 1 + Len(s)
                  /\ \A i \in 1..(1 + Len(s)) : t[i] = IF i <= 1 THEN [hdr |-> f[q], offset |-> q + 1] ELSE s[i - 1]
              BY <6>3, <7>1, ConcatProperties
            <7> QED BY <2>2, <2>5, <6>3, <7>2
          <6>6. LastOnes(f, n, p, k) \in [1..k -> Z]
            <7>1. \A i \in 1..k : n - k + i \in 1..n
              BY <1>1, <2>2
            <7> QED BY <7>1 DEF LastOnes
          <6>7. k \in Nat /\ LastOnes(f, n, p, k) \in Seq(Z) /\ Len(LastOnes(f, n, p, k)) = k
            <7> HIDE DEF Z
            <7>1. k \in Nat
              BY <2>2
            <7> QED BY <6>6, <7>1, FunctionIsSeq
          <6>8. \A i \in 1..k : t[i] = LastOnes(f, n, p, k)[i]
            <7> TAKE i \in 1..k
            <7>1. LastOnes(f, n, p, k)[i] = [hdr |-> f[p[n - k + i]], offset |-> p[n - k + i] + 1]
              BY DEF LastOnes
            <7>2. CASE i = 1
              <8>1. n - k + i = j
                BY <1>1, <2>2, <7>2
              <8> QED BY <4>1, <6>5, <7>1, <7>2, <8>1
            <7>3. CASE i # 1
              <8>1. i - 1 \in 1..(k - 1) /\ i \in 2..k /\ n - (k - 1) + (i - 1) = n - k + i
                BY <1>1, <2>2, <7>3
              <8>2. s[i - 1] = [hdr |-> f[p[n - (k - 1) + (i - 1)]], offset |-> p[n - (k - 1) + (i - 1)] + 1]
                BY <8>1 DEF LastOnes
              <8> QED BY <6>5, <7>1, <8>1, <8>2
            <7> QED BY <7>2, <7>3
          <6> HIDE DEF t, Z
          <6> QED BY <6>5, <6>7, <6>8, SeqEqual
        <5> QED BY <2>2, <2>5, <4>5, <4>7, <5>1, <5>2 DEF q
      <4>8. CASE ~(p[n] <= Len(f))
        <5>1. j # n
          BY <3>5, <4>8
        <5>2. after = Arch!NULL /\ after.mode = "none"
          BY <1>1, <4>6, <4>8, <5>1, <2>2 DEF Arch!NULL
        <5> QED BY <2>2, <2>5, <4>5, <4>8, <5>2 DEF q
      <4> QED BY <4>7, <4>8
    <3> QED BY <1>1, <3>3, <3>4, <3>5
  <2> QED BY <2>4, <2>5
<1> QED
  BY <1>8 DEF H, n

Counted(f, n, at) == at + 1 <= Len(f) => f[at + 1] = Arch!Count(n)

\* Only where they were put are the resources found, and only if the last header is there.
LEMMA FoundWhereLaid ==
  ASSUME NEW f \in Seq(Items), NEW ps \in Seq(Puts), Len(ps) \in 1..MaxRes, NEW at \in Nat \ {0}, NEW p, Laid(f, ps, at, p),
         Counted(f, Len(ps), at), NEW b \in Nat \ {0}
  PROVE  /\ p[Len(ps)] \in Nat
         /\ Arch!ReadHeaders(f, b)
              = IF b = at /\ p[Len(ps)] <= Len(f) THEN Arch!Found(LastOnes(f, Len(ps), p, Len(ps))) ELSE Arch!NULL
<1> DEFINE n == Len(ps)
           H == Arch!Headers(f)
           res == LastOnes(f, n, p, n)
<1>1. Len(f) \in Nat /\ n \in 1..MaxRes /\ n \in Nat /\ MaxRes \in Nat
  BY StructuresAssumption, LenProperties
<1>2. /\ \A k \in 1..(n + 1) : p[k] \in Nat
      /\ \A j, k \in 1..(n + 1) : j < k => p[j] < p[k]
      /\ p[1] = at + 2
      /\ \A q \in 1..Len(f) : f[q] = Arch!Sig <=> q = at
  BY DEF Laid, PlacesOf
<1>3. H[n][Arch!Sought(f, p[n + 1 - n])] = IF n = 0 \/ p[n] <= Len(f) THEN Arch!Found(res) ELSE Arch!NULL
  <2>1. n \in 0..n
    BY <1>1
  <2> HIDE DEF res, H
  <2> QED BY <2>1, ReaderFinds DEF res, H
<1> HIDE DEF n, H, res
<1>4. 1 \in 1..(n + 1) /\ n \in 1..(n + 1) /\ n # 0 /\ n + 1 - n = 1
  BY <1>1
<1>5. p[n] \in Nat /\ p[n] >= at + 2
  <2>1. CASE n = 1
    BY <1>2, <1>4, <2>1
  <2>2. CASE n # 1
    <3>1. 1 < n
      BY <1>1, <2>2
    <3>2. p[1] < p[n] /\ p[n] \in Nat
      BY <1>2, <1>4, <3>1
    <3> QED BY <1>2, <3>2
  <2> QED BY <2>1, <2>2
<1>6. Arch!ReadHeaders(f, b) = IF b = at /\ p[n] <= Len(f) THEN Arch!Found(res) ELSE Arch!NULL
  <2>1. CASE b + 1 > Len(f)
    <3>1. ~(b = at /\ p[n] <= Len(f))
      BY <1>1, <1>5, <2>1
    <3> QED BY <2>1, <3>1 DEF Arch!ReadHeaders
  <2>2. CASE ~(b + 1 > Len(f)) /\ b # at
    <3>1. b \in 1..Len(f)
      BY <1>1, <2>2
    <3>2. f[b] # Arch!Sig
      BY <1>2, <2>2, <3>1
    <3> QED BY <2>2, <3>2 DEF Arch!ReadHeaders
  <2>3. CASE ~(b + 1 > Len(f)) /\ b = at
    <3>1. b \in 1..Len(f) /\ b + 1 <= Len(f)
      BY <1>1, <2>3
    <3>2. f[b] = Arch!Sig /\ f[b + 1] = Arch!Count(n)
      BY <1>2, <2>3, <3>1 DEF Counted, n
    <3>3. f[b + 1].is = "count" /\ f[b + 1].n = n
      BY <3>2 DEF Arch!Count
    <3>4. Arch!ReadHeaders(f, b) = H[n][b + 2]
      BY <2>3, <3>2, <3>3 DEF Arch!ReadHeaders, H
    <3>5. Arch!Sought(f, p[n + 1 - n]) = b + 2
      <4>1. Arch!Sought(f, b + 2) = b + 2
        BY <1>1, <3>1 DEF Arch!Sought
      <4> QED BY <1>2, <1>4, <2>3, <4>1
    <3> QED BY <1>3, <1>4, <2>3, <3>4, <3>5
  <2> QED BY <2>1, <2>2, <2>3
<1> QED
  BY <1>5, <1>6 DEF n, res

\* What is read of a resource is what was put there, or nothing if the end of it is not there.
LEMMA ReadAsPut ==
  ASSUME NEW f \in Seq(Items), NEW ps \in Seq(Puts), Len(ps) \in 1..MaxRes, NEW at \in Nat \ {0}, NEW p, Laid(f, ps, at, p),
         p[Len(ps)] <= Len(f), NEW k \in 1..Len(ps)
  PROVE  /\ LastOnes(f, Len(ps), p, Len(ps))[k].hdr = HeaderOf(ps[k]) /\ p[k + 1] \in Nat
         /\ Arch!ReadResource(f, LastOnes(f, Len(ps), p, Len(ps))[k], Len(ps[k].data))
              = IF p[k + 1] - 1 > Len(f) THEN << >> ELSE <<Arch!Bytes(ps[k].data)>>
<1> DEFINE n == Len(ps)
           a == LastOnes(f, n, p, n)
           r == ps[k]
           L == Len(r.data)
           read == IF p[k + 1] - 1 > Len(f) THEN << >> ELSE <<Arch!Bytes(r.data)>>
<1>1. Len(f) \in Nat /\ n \in 1..MaxRes /\ n \in Nat /\ k \in 1..n /\ r \in Puts
  BY StructuresAssumption, LenProperties
<1>2. /\ \A j \in 1..(n + 1) : p[j] \in Nat
      /\ p[k + 1] = p[k] + 1 + L
      /\ \A i, j \in 1..(n + 1) : i < j => p[i] < p[j]
      /\ p[k] <= Len(f) => f[p[k]] = HeaderOf(r)
      /\ \A i \in 1..L : p[k] + i <= Len(f) => f[p[k] + i] = Arch!Byte(r.data[i])
  BY DEF Laid, PlacesOf
<1>3. /\ HeaderOf(r).is = "header" /\ HeaderOf(r).comp = L /\ HeaderOf(r).orig = L /\ HeaderOf(r).type = "NONE"
      /\ L \in Nat /\ r.data \in Seq(ContentBytes)
  BY <1>1, HeadersAreItems
<1>4. p[n] <= Len(f)
  OBVIOUS
<1>5. a[k] = [hdr |-> f[p[k]], offset |-> p[k] + 1]
  <2>1. n - n + k = k
    BY <1>1
  <2>2. a[k] = [hdr |-> f[p[n - n + k]], offset |-> p[n - n + k] + 1]
    BY <1>1, Zenon DEF LastOnes
  <2> QED BY <2>1, <2>2
<1> HIDE DEF n, a, r, L
<1>6. p[k] \in Nat /\ p[k] <= Len(f) /\ p[k + 1] \in Nat
  <2>1. k \in 1..(n + 1) /\ n \in 1..(n + 1) /\ (k = n \/ k < n) /\ k + 1 \in 1..(n + 1)
    BY <1>1
  <2>2. p[k] \in Nat /\ p[n] \in Nat /\ (p[k] = p[n] \/ p[k] < p[n])
    BY <1>2, <2>1
  <2> QED BY <1>1, <1>2, <1>4, <2>1, <2>2
<1>7. a[k].hdr = HeaderOf(r) /\ a[k].offset = p[k] + 1
  BY <1>2, <1>5, <1>6
<1>8. Arch!ReadResource(f, a[k], L) = read
  <2>1. a[k].offset + L - 1 = p[k + 1] - 1 /\ a[k].hdr.type = "NONE"
    BY <1>2, <1>3, <1>6, <1>7
  <2>2. CASE p[k + 1] - 1 > Len(f)
    <3>1. Arch!ReadResource(f, a[k], L) = << >>
      BY <2>1, <2>2 DEF Arch!ReadResource
    <3> QED BY <2>2, <3>1
  <2>3. CASE ~(p[k + 1] - 1 > Len(f))
    <3> DEFINE content == [i \in 1..L |-> f[a[k].offset + i - 1]]
    <3>1. Arch!ReadResource(f, a[k], L) = <<content>>
      BY <2>1, <2>3 DEF Arch!ReadResource, Arch!NONE
    <3>2. DOMAIN r.data = 1..L
      BY <1>3, LenProperties DEF L
    <3>3. \A i \in 1..L : f[a[k].offset + i - 1] = Arch!Byte(r.data[i])
      <4> TAKE i \in 1..L
      <4>1. a[k].offset + i - 1 = p[k] + i /\ p[k] + i <= Len(f)
        <5> DEFINE x == p[k]
        <5>1. a[k].offset = x + 1 /\ x \in Nat /\ p[k + 1] = x + 1 + L /\ L \in Nat /\ Len(f) \in Nat /\ i \in Nat /\ i <= L
          BY <1>1, <1>2, <1>3, <1>6, <1>7
        <5>2. x + 1 + L - 1 <= Len(f)
          BY <2>3, <5>1
        <5> HIDE DEF x
        <5>3. a[k].offset + i - 1 = x + i /\ x + i <= Len(f)
          BY <5>1, <5>2
        <5> QED BY <5>3 DEF x
      <4> QED BY <1>2, <4>1
    <3>4. content = Arch!Bytes(r.data)
      BY <3>2, <3>3 DEF Arch!Bytes
    <3> QED BY <2>3, <3>1, <3>4
  <2> QED BY <2>2, <2>3
<1> QED
  BY <1>6, <1>7, <1>8 DEF n, a, r, L

-----------------------------------------------------------------------------
Unique(s) ==
  \A i, j \in 1..Len(s) : i # j => (/\ s[i].index # 0 => s[i].index # s[j].index
                                    /\ s[i].name # Null => s[i].name # s[j].name)
\* The file ends behind the resources, with the offset; a program before them adds its own.
Ended(f, at, end) ==
  IF at = 1 THEN Len(f) = end ELSE Len(f) = end + 1 /\ f[Len(f)] = Arch!Ofs(at - 1)
Kept(f, ps, isCut) ==
  /\ Len(ps) \in 1..MaxRes /\ Unique(ps)
  /\ \E at \in Nat \ {0} : \E p \in [1..(Len(ps) + 1) -> Nat] :
       Laid(f, ps, at, p) /\ Counted(f, Len(ps), at) /\ (isCut \/ Ended(f, at, p[Len(ps) + 1]))

\* A resource that is the only one with its number or its name is found by it.
LEMMA FoundByKey ==
  ASSUME NEW s, NEW n \in Nat, Len(s) = n, NEW k \in 1..n
  PROVE  /\ \A x : s[k].hdr.index = x /\ (\A i \in 1..n : i # k => s[i].hdr.index # x)
                   => Arch!ResIndex(Arch!Found(s), x) = k
         /\ \A x : s[k].hdr.name = x /\ x # Null /\ (\A i \in 1..n : i # k => s[i].hdr.name # x)
                   => Arch!ResName(Arch!Found(s), x) = k
<1>1. Arch!Min({k}) = k
  BY DEF Arch!Min
<1>2. ASSUME NEW x, s[k].hdr.index = x, \A i \in 1..n : i # k => s[i].hdr.index # x
      PROVE  Arch!ResIndex(Arch!Found(s), x) = k
  <2>1. {i \in 1..Len(s) : s[i].hdr.index = x} = {k}
    BY <1>2
  <2>2. Arch!ResIndex(Arch!Found(s), x)
          = IF {i \in 1..Len(s) : s[i].hdr.index = x} # {} THEN Arch!Min({i \in 1..Len(s) : s[i].hdr.index = x}) ELSE 0
    BY DEF Arch!ResIndex, Arch!SelectInSeq, Arch!Found
  <2> QED BY <1>1, <2>1, <2>2
<1>3. ASSUME NEW x, s[k].hdr.name = x, x # Null, \A i \in 1..n : i # k => s[i].hdr.name # x
      PROVE  Arch!ResName(Arch!Found(s), x) = k
  <2> DEFINE I == {i \in 1..Len(s) : s[i].hdr.name # Null /\ s[i].hdr.name = x}
  <2>1. I = {k}
    BY <1>3
  <2>2. Arch!ResName(Arch!Found(s), x) = IF I # {} THEN Arch!Min(I) ELSE 0
    BY DEF Arch!ResName, Arch!SelectInSeq, Arch!Found
  <2> QED BY <1>1, <2>1, <2>2
<1> QED
  BY <1>2, <1>3

\* An archive that is kept is found where it begins, at the beginning or where the end of the file says.
LEMMA StartsWhereLaid ==
  ASSUME NEW f \in Seq(Items), NEW ps \in Seq(Puts), Len(ps) \in 1..MaxRes, NEW at \in Nat \ {0}, NEW p, Laid(f, ps, at, p),
         Counted(f, Len(ps), at), NEW b \in Arch!Starts(f)
  PROVE  /\ b \in Nat \ {0}
         /\ Ended(f, at, p[Len(ps) + 1]) => b = at /\ p[Len(ps)] <= Len(f)
<1> DEFINE n == Len(ps)
           head == Arch!ReadHeaders(f, 1)
<1>1. Len(f) \in Nat /\ n \in 1..MaxRes /\ n \in Nat /\ \A i \in 1..Len(f) : f[i] \in Items
  BY StructuresAssumption, LenProperties
<1>2. /\ p[n] \in Nat
      /\ head = IF 1 = at /\ p[n] <= Len(f) THEN Arch!Found(LastOnes(f, n, p, n)) ELSE Arch!NULL
  BY FoundWhereLaid
<1>3. b \in IF head.mode # "none" \/ f = << >> THEN {1}
            ELSE IF Arch!Last(f).is = "offset" THEN {Arch!Last(f).at + 1} ELSE 1..(Len(f) + 1)
  BY DEF Arch!Starts
<1>4. Arch!Last(f) = f[Len(f)]
  BY DEF Arch!Last
<1>5. f # << >> => Len(f) \in 1..Len(f)
  BY <1>1, EmptySeq
<1>6. b \in Nat \ {0}
  <2>1. CASE head.mode # "none" \/ f = << >>
    BY <1>3, <2>1
  <2>2. CASE ~(head.mode # "none" \/ f = << >>) /\ f[Len(f)].is = "offset"
    <3>1. f[Len(f)].at \in Nat
      BY <1>1, <1>5, <2>2, ItemKinds
    <3>2. b = f[Len(f)].at + 1
      BY <1>3, <1>4, <2>2
    <3> QED BY <3>1, <3>2
  <2>3. CASE ~(head.mode # "none" \/ f = << >>) /\ f[Len(f)].is # "offset"
    BY <1>1, <1>3, <1>4, <2>3
  <2> QED BY <2>1, <2>2, <2>3
<1>7. ASSUME Ended(f, at, p[n + 1]) PROVE b = at /\ p[n] <= Len(f)
  <2>1. p[n + 1] \in Nat /\ p[n] < p[n + 1] /\ p[n + 1] <= Len(f)
    <3>1. n \in 1..(n + 1) /\ n + 1 \in 1..(n + 1) /\ n < n + 1
      BY <1>1
    <3>2. p[n] < p[n + 1] /\ p[n + 1] \in Nat
      <4> HIDE DEF n
      <4> QED BY <3>1 DEF Laid, PlacesOf, n
    <3>3. Len(f) = p[n + 1] \/ Len(f) = p[n + 1] + 1
      BY <1>7 DEF Ended
    <3> QED BY <3>2, <3>3
  <2>2. p[n] <= Len(f)
    BY <1>1, <1>2, <2>1
  <2>3. CASE at = 1
    <3>1. head.mode = "read"
      BY <1>2, <2>2, <2>3 DEF Arch!Found
    <3>2. b = 1
      BY <1>3, <3>1
    <3> QED BY <2>2, <2>3, <3>2
  <2>4. CASE at # 1
    <3>1. head.mode = "none"
      BY <1>2, <2>4 DEF Arch!NULL
    <3>2. f # << >>
      BY <1>1, <1>2, <2>1, EmptySeq
    <3>3. f[Len(f)] = Arch!Ofs(at - 1)
      BY <1>7, <2>4 DEF Ended
    <3>4. f[Len(f)].is = "offset" /\ f[Len(f)].at = at - 1
      BY <3>3 DEF Arch!Ofs
    <3>5. b = at - 1 + 1
      BY <1>3, <1>4, <3>1, <3>2, <3>4
    <3> QED BY <2>2, <3>5
  <2> QED BY <2>3, <2>4
<1> QED
  BY <1>6, <1>7

\* What is kept can be read.
ReadRight(f, a, k, r, isCut) ==
  /\ Arch!SU_AR_ReadRes(a, f, k) = <<Arch!Bytes(r.data)>> \/ (isCut /\ Arch!SU_AR_ReadRes(a, f, k) = << >>)
  /\ Arch!ReadResource(f, a.res[k], a.res[k].hdr.orig) = Arch!SU_AR_ReadRes(a, f, k)
  /\ r.index # 0 => Arch!ResIndex(a, r.index) = k
  /\ r.name # Null => Arch!ResName(a, r.name) = k
ReadFrom(f, b, ps, isCut) ==
  LET a == Arch!ReadHeaders(f, b)
  IN /\ ~isCut => a.mode = "read" /\ Len(a.res) = Len(ps)
     /\ \A k \in DOMAIN a.res : ReadRight(f, a, k, ps[k], isCut)

LEMMA EachIsRead ==
  ASSUME NEW f \in Seq(Items), NEW ps \in Seq(Puts), Len(ps) \in 1..MaxRes, NEW at \in Nat \ {0}, NEW p, Laid(f, ps, at, p),
         p[Len(ps)] <= Len(f), Unique(ps), NEW isCut, isCut \/ Ended(f, at, p[Len(ps) + 1])
  PROVE  LET a == Arch!Found(LastOnes(f, Len(ps), p, Len(ps)))
         IN /\ a.mode = "read" /\ Len(a.res) = Len(ps) /\ DOMAIN a.res = 1..Len(ps)
            /\ \A k \in 1..Len(ps) : ReadRight(f, a, k, ps[k], isCut)
<1> DEFINE n == Len(ps)
           s == LastOnes(f, n, p, n)
           a == Arch!Found(s)
<1>1. n \in 1..MaxRes /\ n \in Nat /\ Len(f) \in Nat /\ DOMAIN ps = 1..n /\ \A k \in 1..n : ps[k] \in Puts
  BY StructuresAssumption, LenProperties
<1>2. a.mode = "read" /\ a.res = s
  BY DEF Arch!Found
<1>3. DOMAIN s = 1..n
  BY Zenon DEF LastOnes
<1>4. Len(s) = n
  <2> DEFINE Z == {s[i] : i \in 1..n}
  <2> HIDE DEF s
  <2>1. s \in [1..n -> Z]
    <3>1. s = [i \in 1..n |-> s[i]]
      BY <1>3, Zenon DEF s, LastOnes
    <3> QED BY <3>1
  <2> HIDE DEF Z
  <2> QED BY <1>1, <2>1, FunctionIsSeq
<1>5. ASSUME NEW k \in 1..n PROVE ReadRight(f, a, k, ps[k], isCut)
  <2> DEFINE r == ps[k]
             got == IF p[k + 1] - 1 > Len(f) THEN << >> ELSE <<Arch!Bytes(r.data)>>
  <2>1. \A i \in 1..n : s[i].hdr = HeaderOf(ps[i])
    BY ReadAsPut
  <2>2. p[k + 1] \in Nat /\ Arch!ReadResource(f, s[k], Len(r.data)) = got
    BY ReadAsPut
  <2>3. /\ \A i \in 1..n : s[i].hdr.index = ps[i].index /\ s[i].hdr.name = ps[i].name
        /\ s[k].hdr.comp = Len(r.data) /\ s[k].hdr.orig = Len(r.data)
    <3> HIDE DEF s
    <3> QED BY <1>1, <2>1, HeadersAreItems
  <2>4. Arch!SU_AR_ReadRes(a, f, k) = got
    <3>1. k \in DOMAIN a.res
      BY <1>2, <1>3
    <3>2. Arch!SU_AR_ReadRes(a, f, k) = Arch!ReadResource(f, a.res[k], a.res[k].hdr.comp)
      BY <3>1 DEF Arch!SU_AR_ReadRes
    <3> HIDE DEF a, s, got
    <3> QED BY <1>2, <2>2, <2>3, <3>2
  <2>5. got = <<Arch!Bytes(r.data)>> \/ (isCut /\ got = << >>)
    <3>1. CASE isCut
      BY <3>1
    <3>2. CASE ~isCut
      <4>1. Len(f) = p[n + 1] \/ Len(f) = p[n + 1] + 1
        BY <3>2 DEF Ended
      <4>2. (\A i, j \in 1..(n + 1) : i < j => p[i] < p[j]) /\ \A i \in 1..(n + 1) : p[i] \in Nat
        BY DEF Laid, PlacesOf
      <4>3. k + 1 \in 1..(n + 1) /\ n + 1 \in 1..(n + 1) /\ (k + 1 = n + 1 \/ k + 1 < n + 1)
        BY <1>1
      <4>4. p[k + 1] \in Nat /\ p[n + 1] \in Nat /\ (p[k + 1] = p[n + 1] \/ p[k + 1] < p[n + 1])
        BY <4>2, <4>3
      <4>5. ~(p[k + 1] - 1 > Len(f))
        BY <4>1, <4>4
      <4> QED BY <4>5
    <3> QED BY <3>1, <3>2
  <2>6. ASSUME r.index # 0 PROVE Arch!ResIndex(a, r.index) = k
    <3>1. s[k].hdr.index = r.index /\ \A i \in 1..n : i # k => s[i].hdr.index # r.index
      BY <1>1, <2>3, <2>6 DEF Unique
    <3> HIDE DEF s, n, r
    <3> QED BY <1>1, <1>4, <3>1, FoundByKey
  <2>7. ASSUME r.name # Null PROVE Arch!ResName(a, r.name) = k
    <3>1. s[k].hdr.name = r.name /\ \A i \in 1..n : i # k => s[i].hdr.name # r.name
      BY <1>1, <2>3, <2>7 DEF Unique
    <3> HIDE DEF s, n, r
    <3>2. \A x : s[k].hdr.name = x /\ x # Null /\ (\A i \in 1..n : i # k => s[i].hdr.name # x) => Arch!ResName(Arch!Found(s), x) = k
      BY <1>1, <1>4, FoundByKey
    <3> QED BY <2>7, <3>1, <3>2
  <2> HIDE DEF got, a, s
  <2> QED BY <1>2, <2>2, <2>3, <2>4, <2>5, <2>6, <2>7 DEF ReadRight
<1> QED
  <2> HIDE DEF a, s
  <2>1. a.mode = "read" /\ Len(a.res) = n /\ DOMAIN a.res = 1..n /\ \A k \in 1..n : ReadRight(f, a, k, ps[k], isCut)
    BY <1>2, <1>3, <1>4, <1>5
  <2> QED BY <2>1 DEF a, s

LEMMA KeptIsRead ==
  ASSUME NEW f \in Seq(Items), NEW ps \in Seq(Puts), NEW isCut, Kept(f, ps, isCut), NEW b \in Arch!Starts(f)
  PROVE  ReadFrom(f, b, ps, isCut)
<1> DEFINE n == Len(ps)
<1>1. n \in 1..MaxRes /\ Unique(ps)
  BY DEF Kept
<1>2. PICK at \in Nat \ {0}, p \in [1..(n + 1) -> Nat] :
        Laid(f, ps, at, p) /\ Counted(f, n, at) /\ (isCut \/ Ended(f, at, p[n + 1]))
  BY DEF Kept
<1> DEFINE a == Arch!ReadHeaders(f, b)
           s == LastOnes(f, n, p, n)
<1>3. b \in Nat \ {0} /\ (Ended(f, at, p[n + 1]) => b = at /\ p[n] <= Len(f))
  BY <1>1, <1>2, StartsWhereLaid
<1>4. p[n] \in Nat /\ a = IF b = at /\ p[n] <= Len(f) THEN Arch!Found(s) ELSE Arch!NULL
  BY <1>1, <1>2, <1>3, FoundWhereLaid
<1>5. CASE ~(b = at /\ p[n] <= Len(f))
  <2>1. isCut
    BY <1>2, <1>3, <1>5
  <2>2. a.res = << >>
    BY <1>4, <1>5 DEF Arch!NULL
  <2>3. DOMAIN a.res = {}
    BY <2>2
  <2> QED BY <2>1, <2>3 DEF ReadFrom
<1>6. CASE b = at /\ p[n] <= Len(f)
  <2>1. a = Arch!Found(s)
    BY <1>4, <1>6
  <2> DEFINE g == Arch!Found(s)
  <2>2. g.mode = "read" /\ Len(g.res) = n /\ DOMAIN g.res = 1..n /\ \A k \in 1..n : ReadRight(f, g, k, ps[k], isCut)
    BY <1>1, <1>2, <1>6, EachIsRead
  <2> HIDE DEF g
  <2> QED BY <2>1, <2>2 DEF ReadFrom, g
<1> QED
  BY <1>5, <1>6

LEMMA KeptAll ==
  ASSUME arch_file \in Seq(Items), arch_promised \in Seq(Puts),
         arch_promised # << >> => Kept(arch_file, arch_promised, arch_cut)
  PROVE  Arch!ArchiveKeepsAll
<1> SUFFICES ASSUME arch_promised # << >> PROVE \A b \in Arch!Starts(arch_file) : ReadFrom(arch_file, b, arch_promised, arch_cut)
  BY DEF Arch!ArchiveKeepsAll, ReadFrom, ReadRight
<1> TAKE b \in Arch!Starts(arch_file)
<1> QED
  BY KeptIsRead

-----------------------------------------------------------------------------
(* What closing an archive writes, resource by resource.                    *)
LaidSoFar(f, ps, n, p) ==
  Laid(f, ps, 1, p) /\ Len(f) = p[Len(ps) + 1] - 1 /\ f[2] = Arch!Count(n)

LEMMA BytesAreItems ==
  ASSUME NEW c \in Seq(ContentBytes)
  PROVE  /\ Arch!Bytes(c) \in Seq(Items) /\ Len(Arch!Bytes(c)) = Len(c) /\ Len(c) \in Nat
         /\ \A i \in 1..Len(c) : Arch!Bytes(c)[i] = Arch!Byte(c[i]) /\ Arch!Bytes(c)[i] # Arch!Sig
<1>1. DOMAIN c = 1..Len(c) /\ Len(c) \in Nat /\ \A i \in 1..Len(c) : c[i] \in ContentBytes
  BY LenProperties
<1>2. \A i \in 1..Len(c) : Arch!Byte(c[i]) \in Items /\ Arch!Byte(c[i]) # Arch!Sig
  BY <1>1, ItemKinds
<1>3. Arch!Bytes(c) = [i \in 1..Len(c) |-> Arch!Byte(c[i])]
  BY <1>1 DEF Arch!Bytes
<1>4. Arch!Bytes(c) \in [1..Len(c) -> Items]
  BY <1>2, <1>3
<1>5. Arch!Bytes(c) \in Seq(Items) /\ Len(Arch!Bytes(c)) = Len(c)
  BY <1>1, <1>4, FunctionIsSeq
<1> QED
  BY <1>1, <1>2, <1>3, <1>5

LEMMA LaidAtFirst ==
  ASSUME NEW n \in 0..MaxRes
  PROVE  /\ <<Arch!Sig, Arch!Count(n)>> \in Seq(Items)
         /\ \E p \in [1..(Len(<< >>) + 1) -> Nat] : LaidSoFar(<<Arch!Sig, Arch!Count(n)>>, << >>, n, p)
<1> DEFINE f == <<Arch!Sig, Arch!Count(n)>>
           p == [k \in 1..1 |-> 3]
<1>1. Arch!Sig \in Items /\ Arch!Count(n) \in Items /\ Arch!Count(n) # Arch!Sig
  BY ItemKinds
<1>2. f \in Seq(Items) /\ Len(f) = 2 /\ f[1] = Arch!Sig /\ f[2] = Arch!Count(n)
  BY <1>1
<1>3. Len(<< >>) = 0 /\ p \in [1..1 -> Nat] /\ p[1] = 3
  OBVIOUS
<1> HIDE DEF f, p
<1>4. \A q \in 1..Len(f) : f[q] = Arch!Sig <=> q = 1
  BY <1>1, <1>2
<1>5. PlacesOf(<< >>, 1, p)
  BY <1>3 DEF PlacesOf
<1>6. Laid(f, << >>, 1, p)
  BY <1>3, <1>4, <1>5 DEF Laid
<1>7. LaidSoFar(f, << >>, n, p)
  BY <1>2, <1>3, <1>6 DEF LaidSoFar
<1> QED
  BY <1>2, <1>3, <1>7 DEF f

\* One resource more.
LEMMA PlaceOfNext ==
  ASSUME NEW ps \in Seq(Puts), NEW r \in Puts, NEW at \in Nat, NEW p, PlacesOf(ps, at, p)
  PROVE  LET q == [k \in 1..(Len(ps) + 2) |-> IF k <= Len(ps) + 1 THEN p[k] ELSE p[Len(ps) + 1] + 1 + Len(r.data)]
         IN PlacesOf(Append(ps, r), at, q)
<1> DEFINE n == Len(ps)
           q == [k \in 1..(n + 2) |-> IF k <= n + 1 THEN p[k] ELSE p[n + 1] + 1 + Len(r.data)]
           t == Append(ps, r)
<1>1. n \in Nat /\ Len(r.data) \in Nat
  BY LenProperties, HeadersAreItems
<1>2. Len(t) = n + 1 /\ t[n + 1] = r /\ \A k \in 1..n : t[k] = ps[k]
  BY AppendProperties
<1>3. /\ \A k \in 1..(n + 1) : p[k] \in Nat
      /\ p[1] = at + 2
      /\ \A k \in 1..n : p[k + 1] = p[k] + 1 + Len(ps[k].data)
      /\ \A j, k \in 1..(n + 1) : j < k => p[j] < p[k]
  BY DEF PlacesOf
<1> HIDE DEF n, t
<1>4. n + 1 \in 1..(n + 1) /\ p[n + 1] \in Nat
  BY <1>1, <1>3
<1>5. /\ \A k \in 1..(n + 1) : q[k] = p[k] /\ q[k] \in Nat
      /\ q[n + 2] = p[n + 1] + 1 + Len(r.data) /\ q[n + 2] \in Nat
  <2>1. n + 2 \in 1..(n + 2) /\ ~(n + 2 <= n + 1) /\ \A k \in 1..(n + 1) : k \in 1..(n + 2) /\ k <= n + 1
    BY <1>1
  <2>2. q[n + 2] = p[n + 1] + 1 + Len(r.data)
    BY <2>1
  <2>3. \A k \in 1..(n + 1) : q[k] = p[k]
    BY <2>1
  <2>4. p[n + 1] + 1 + Len(r.data) \in Nat
    BY <1>1, <1>4
  <2> HIDE DEF q
  <2> QED BY <1>3, <2>2, <2>3, <2>4
<1>6. q \in [1..(n + 2) -> Nat]
  <2>1. \A k \in 1..(n + 2) : k \in 1..(n + 1) \/ k = n + 2
    BY <1>1
  <2>2. \A k \in 1..(n + 2) : (IF k <= n + 1 THEN p[k] ELSE p[n + 1] + 1 + Len(r.data)) \in Nat
    BY <1>1, <1>3, <1>4
  <2> QED BY <2>2
<1> HIDE DEF q
<1>7. q[1] = at + 2
  BY <1>1, <1>3, <1>5
<1>8. \A k \in 1..(n + 1) : q[k + 1] = q[k] + 1 + Len(t[k].data)
  <2> TAKE k \in 1..(n + 1)
  <2>1. CASE k = n + 1
    BY <1>1, <1>2, <1>4, <1>5, <2>1
  <2>2. CASE k # n + 1
    <3>1. k \in 1..n /\ k + 1 \in 1..(n + 1)
      BY <1>1, <2>2
    <3> QED BY <1>2, <1>3, <1>5, <3>1
  <2> QED BY <2>1, <2>2
<1>9. ASSUME NEW j \in 1..(n + 2), NEW k \in 1..(n + 2), j < k PROVE q[j] < q[k]
  <2>1. j \in 1..(n + 1)
    BY <1>1, <1>9
  <2>2. CASE k = n + 2
    <3>1. j = n + 1 \/ j < n + 1
      BY <1>1, <2>1
    <3>2. p[j] \in Nat /\ (p[j] = p[n + 1] \/ p[j] < p[n + 1])
      BY <1>3, <1>4, <2>1, <3>1
    <3> QED BY <1>1, <1>4, <1>5, <2>1, <2>2, <3>2
  <2>3. CASE k # n + 2
    <3>1. k \in 1..(n + 1)
      BY <1>1, <2>3
    <3> QED BY <1>3, <1>5, <1>9, <2>1, <3>1
  <2> QED BY <2>2, <2>3
<1>10. n + 2 = n + 1 + 1
  BY <1>1
<1>11. PlacesOf(t, at, q)
  BY <1>2, <1>6, <1>7, <1>8, <1>9, <1>10 DEF PlacesOf
<1> QED
  BY <1>11 DEF n, q, t

LEMMA LayNext ==
  ASSUME NEW f \in Seq(Items), NEW ps \in Seq(Puts), NEW n, NEW p, LaidSoFar(f, ps, n, p), NEW r \in Puts
  PROVE  \E q \in [1..(Len(Append(ps, r)) + 1) -> Nat] :
           LaidSoFar(Append(f, HeaderOf(r)) \o Arch!Bytes(r.data), Append(ps, r), n, q)
<1> DEFINE m == Len(ps)
           t == Append(ps, r)
           L == Len(r.data)
           h == HeaderOf(r)
           g == Append(f, h) \o Arch!Bytes(r.data)
           q == [k \in 1..(m + 2) |-> IF k <= m + 1 THEN p[k] ELSE p[m + 1] + 1 + L]
           F == Len(f)
<1>1. m \in Nat /\ F \in Nat /\ L \in Nat /\ r.data \in Seq(ContentBytes) /\ h \in Items /\ h # Arch!Sig
  <2>1. h \in HeaderItems /\ h.is = "header"
    BY HeadersAreItems
  <2> QED BY <2>1, LenProperties, HeadersAreItems, ItemKinds
<1>2. Len(t) = m + 1 /\ t[m + 1] = r /\ \A k \in 1..m : t[k] = ps[k]
  BY AppendProperties
<1>3. PlacesOf(t, 1, q)
  BY PlaceOfNext DEF LaidSoFar, Laid
<1>4. /\ PlacesOf(ps, 1, p) /\ F = p[m + 1] - 1 /\ f[2] = Arch!Count(n)
      /\ \A i \in 1..F : f[i] = Arch!Sig <=> i = 1
      /\ \A k \in 1..m :
           /\ p[k] <= F => f[p[k]] = HeaderOf(ps[k])
           /\ \A i \in 1..Len(ps[k].data) : p[k] + i <= F => f[p[k] + i] = Arch!Byte(ps[k].data[i])
  BY DEF LaidSoFar, Laid
<1>5. /\ \A k \in 1..(m + 1) : p[k] \in Nat
      /\ p[1] = 3
      /\ \A k \in 1..m : p[k + 1] = p[k] + 1 + Len(ps[k].data)
      /\ \A j, k \in 1..(m + 1) : j < k => p[j] < p[k]
  BY <1>4 DEF PlacesOf
<1>6. /\ Len(g) = F + 1 + L
      /\ \A i \in 1..F : g[i] = f[i]
      /\ g[F + 1] = h
      /\ \A i \in 1..L : g[F + 1 + i] = Arch!Byte(r.data[i]) /\ g[F + 1 + i] # Arch!Sig
  <2> DEFINE u == Append(f, h)
             v == Arch!Bytes(r.data)
  <2>1. u \in Seq(Items) /\ Len(u) = F + 1 /\ u[F + 1] = h /\ \A i \in 1..F : u[i] = f[i]
    BY <1>1, AppendProperties
  <2>2. v \in Seq(Items) /\ Len(v) = L /\ \A i \in 1..L : v[i] = Arch!Byte(r.data[i]) /\ v[i] # Arch!Sig
    BY <1>1, BytesAreItems
  <2> HIDE DEF u, v, F, L
  <2>3. /\ Len(u \o v) = F + 1 + L
        /\ \A i \in 1..(F + 1 + L) : (u \o v)[i] = IF i <= F + 1 THEN u[i] ELSE v[i - (F + 1)]
    <3>1. /\ Len(u \o v) = Len(u) + Len(v)
          /\ \A i \in 1..(Len(u) + Len(v)) : (u \o v)[i] = IF i <= Len(u) THEN u[i] ELSE v[i - Len(u)]
      BY <2>1, <2>2, ConcatProperties, Zenon
    <3> QED BY <2>1, <2>2, <3>1, Zenon
  <2>4. \A i \in 1..L : F + 1 + i \in 1..(F + 1 + L) /\ ~(F + 1 + i <= F + 1) /\ F + 1 + i - (F + 1) = i
    BY <1>1
  <2>5. \A i \in 1..F : i \in 1..(F + 1 + L) /\ i <= F + 1
    BY <1>1
  <2>6. F + 1 \in 1..(F + 1 + L) /\ F + 1 <= F + 1
    BY <1>1
  <2> QED BY <2>1, <2>2, <2>3, <2>4, <2>5, <2>6 DEF u, v
<1>7. /\ \A k \in 1..(m + 1) : q[k] = p[k]
      /\ q[m + 2] = p[m + 1] + 1 + L
  BY <1>1
<1> HIDE DEF m, t, L, h, g, q, F
<1>8. m + 1 \in 1..(m + 1) /\ p[m + 1] = F + 1
  BY <1>1, <1>4, <1>5
<1>9. F >= 2
  <2>1. m = 0 \/ 1 < m + 1
    BY <1>1
  <2>2. 1 \in 1..(m + 1)
    BY <1>1
  <2>3. p[m + 1] >= 3
    BY <1>5, <1>8, <2>1, <2>2
  <2> QED BY <1>1, <1>8, <2>3
<1>10. ASSUME NEW i \in 1..Len(g) PROVE g[i] = Arch!Sig <=> i = 1
  <2>1. CASE i <= F
    <3>1. i \in 1..F
      BY <1>1, <1>6, <2>1
    <3> QED BY <1>4, <1>6, <3>1
  <2>2. CASE i = F + 1
    BY <1>1, <1>6, <1>9, <2>2
  <2>3. CASE ~(i <= F) /\ i # F + 1
    <3>1. i - (F + 1) \in 1..L /\ F + 1 + (i - (F + 1)) = i /\ i # 1
      BY <1>1, <1>6, <1>9, <2>3
    <3>2. g[i] # Arch!Sig
      BY <1>6, <3>1
    <3> QED BY <3>1, <3>2
  <2> QED BY <2>1, <2>2, <2>3
<1>11. ASSUME NEW k \in 1..(m + 1)
       PROVE  /\ q[k] <= Len(g) => g[q[k]] = HeaderOf(t[k])
              /\ \A i \in 1..Len(t[k].data) : q[k] + i <= Len(g) => g[q[k] + i] = Arch!Byte(t[k].data[i])
  <2>1. CASE k = m + 1
    BY <1>2, <1>6, <1>7, <1>8, <2>1 DEF h, L
  <2>2. CASE k # m + 1
    <3>1. k \in 1..m /\ k + 1 \in 1..(m + 1) /\ (k + 1 = m + 1 \/ k + 1 < m + 1)
      BY <1>1, <2>2
    <3>2. t[k] = ps[k] /\ q[k] = p[k] /\ p[k] \in Nat /\ p[k + 1] \in Nat
      BY <1>2, <1>5, <1>7, <3>1
    <3>3. p[k + 1] <= F + 1 /\ p[k + 1] = p[k] + 1 + Len(ps[k].data) /\ ps[k] \in Puts
      <4>1. p[k + 1] = p[m + 1] \/ p[k + 1] < p[m + 1]
        BY <1>5, <1>8, <3>1
      <4>2. ps[k] \in Puts
        BY <3>1, LenProperties DEF m
      <4> QED BY <1>1, <1>5, <1>8, <3>1, <3>2, <4>1, <4>2
    <3>4. Len(ps[k].data) \in Nat
      BY <3>3, HeadersAreItems
    <3>5. p[k] >= 3
      <4>1. 1 \in 1..(m + 1) /\ (k = 1 \/ 1 < k)
        BY <1>1, <3>1
      <4> QED BY <1>5, <3>2, <4>1
    <3>6. p[k] \in 1..F /\ \A i \in 1..Len(ps[k].data) : p[k] + i \in 1..F
      <4> DEFINE x == p[k]
                 y == Len(ps[k].data)
      <4>1. x \in Nat /\ x >= 3 /\ y \in Nat /\ x + 1 + y <= F + 1
        BY <3>2, <3>3, <3>4, <3>5
      <4> HIDE DEF x, y
      <4>2. x \in 1..F /\ \A i \in 1..y : x + i \in 1..F
        BY <1>1, <4>1
      <4> QED BY <4>2 DEF x, y
    <3>7. f[p[k]] = HeaderOf(ps[k]) /\ \A i \in 1..Len(ps[k].data) : f[p[k] + i] = Arch!Byte(ps[k].data[i])
      <4>1. p[k] <= F /\ \A i \in 1..Len(ps[k].data) : p[k] + i <= F
        BY <1>1, <3>6
      <4> QED BY <1>4, <3>1, <4>1
    <3> QED BY <1>6, <3>2, <3>6, <3>7
  <2> QED BY <2>1, <2>2
<1>12. Laid(g, t, 1, q)
  BY <1>2, <1>3, <1>10, <1>11 DEF Laid
<1>13. Len(g) = q[Len(t) + 1] - 1 /\ g[2] = Arch!Count(n)
  <2>1. Len(t) + 1 = m + 2 /\ 2 \in 1..F
    BY <1>1, <1>2, <1>9
  <2>2. q[m + 2] - 1 = F + 1 + L
    BY <1>1, <1>7, <1>8
  <2> QED BY <1>4, <1>6, <2>1, <2>2
<1>14. q \in [1..(Len(t) + 1) -> Nat]
  BY <1>3 DEF PlacesOf
<1> QED
  BY <1>12, <1>13, <1>14 DEF LaidSoFar, g, t, h

\* The end: the offset, and everything is kept.
LEMMA LayEnd ==
  ASSUME NEW f \in Seq(Items), NEW ps \in Seq(Puts), NEW p \in [1..(Len(ps) + 1) -> Nat], LaidSoFar(f, ps, Len(ps), p),
         Len(ps) \in 1..MaxRes, Unique(ps)
  PROVE  Kept(Append(f, Arch!Ofs(0)), ps, FALSE)
<1> DEFINE n == Len(ps)
           g == Append(f, Arch!Ofs(0))
           F == Len(f)
<1>1. F \in Nat /\ n \in 1..MaxRes /\ n \in Nat /\ MaxRes \in Nat /\ Arch!Ofs(0) \in Items /\ Arch!Ofs(0) # Arch!Sig
  <2>1. 0 \in Nat
    OBVIOUS
  <2> QED BY <2>1, StructuresAssumption, LenProperties, ItemKinds
<1>2. Len(g) = F + 1 /\ g[F + 1] = Arch!Ofs(0) /\ \A i \in 1..F : g[i] = f[i]
  BY <1>1, AppendProperties
<1>3. /\ PlacesOf(ps, 1, p) /\ F = p[n + 1] - 1 /\ f[2] = Arch!Count(n)
      /\ \A i \in 1..F : f[i] = Arch!Sig <=> i = 1
      /\ \A k \in 1..n :
           /\ p[k] <= F => f[p[k]] = HeaderOf(ps[k])
           /\ \A i \in 1..Len(ps[k].data) : p[k] + i <= F => f[p[k] + i] = Arch!Byte(ps[k].data[i])
  BY DEF LaidSoFar, Laid
<1>4. /\ \A k \in 1..(n + 1) : p[k] \in Nat
      /\ p[1] = 3
      /\ \A k \in 1..n : p[k + 1] = p[k] + 1 + Len(ps[k].data)
      /\ \A j, k \in 1..(n + 1) : j < k => p[j] < p[k]
  BY <1>3 DEF PlacesOf
<1>5. \A k \in 1..n : ps[k] \in Puts /\ Len(ps[k].data) \in Nat
  BY LenProperties, HeadersAreItems
<1> HIDE DEF n, g, F
<1>6. n + 1 \in 1..(n + 1) /\ 1 \in 1..(n + 1) /\ 1 < n + 1
  BY <1>1
<1>7. p[n + 1] = F + 1 /\ F >= 3
  <2>1. p[n + 1] \in Nat /\ p[1] < p[n + 1] /\ p[1] = 3
    BY <1>4, <1>6
  <2> QED BY <1>1, <1>3, <2>1
<1>8. ASSUME NEW i \in 1..Len(g) PROVE g[i] = Arch!Sig <=> i = 1
  <2>1. i \in 1..F \/ i = F + 1
    BY <1>1, <1>2
  <2>2. CASE i \in 1..F
    BY <1>2, <1>3, <2>2
  <2>3. CASE i = F + 1
    BY <1>1, <1>2, <1>7, <2>3
  <2> QED BY <2>1, <2>2, <2>3
<1>9. ASSUME NEW k \in 1..n
      PROVE  /\ p[k] <= Len(g) => g[p[k]] = HeaderOf(ps[k])
             /\ \A i \in 1..Len(ps[k].data) : p[k] + i <= Len(g) => g[p[k] + i] = Arch!Byte(ps[k].data[i])
  <2> DEFINE x == p[k]
             y == Len(ps[k].data)
  <2>1. k \in 1..(n + 1) /\ k + 1 \in 1..(n + 1) /\ (k = 1 \/ 1 < k) /\ (k + 1 = n + 1 \/ k + 1 < n + 1)
    BY <1>1
  <2>2. x \in Nat /\ y \in Nat /\ x >= 3 /\ x + 1 + y <= F + 1
    <3>1. x \in Nat /\ y \in Nat /\ p[k + 1] = x + 1 + y /\ p[k + 1] \in Nat
      BY <1>4, <1>5, <2>1
    <3>2. x >= 3
      BY <1>4, <1>6, <2>1
    <3>3. p[k + 1] = p[n + 1] \/ p[k + 1] < p[n + 1]
      BY <1>4, <1>6, <2>1
    <3> QED BY <1>1, <1>7, <3>1, <3>2, <3>3
  <2> HIDE DEF x, y
  <2>3. x \in 1..F /\ x <= F /\ \A i \in 1..y : x + i \in 1..F /\ x + i <= F
    BY <1>1, <2>2
  <2>4. f[x] = HeaderOf(ps[k]) /\ \A i \in 1..y : f[x + i] = Arch!Byte(ps[k].data[i])
    BY <1>3, <2>3 DEF x, y
  <2> QED BY <1>2, <2>3, <2>4 DEF x, y
<1>10. Laid(g, ps, 1, p)
  BY <1>3, <1>8, <1>9 DEF Laid, n
<1>11. Counted(g, n, 1)
  <2>1. 1 + 1 = 2 /\ 2 \in 1..F
    BY <1>1, <1>7
  <2> QED BY <1>2, <1>3, <2>1 DEF Counted
<1>12. Ended(g, 1, p[n + 1])
  BY <1>2, <1>7 DEF Ended
<1> QED
  BY <1>1, <1>10, <1>11, <1>12 DEF Kept, g, n

-----------------------------------------------------------------------------
(* What happens to a file that is kept.                                     *)
LEMMA KeptWithoutEnd ==
  ASSUME NEW f \in Seq(Items), NEW ps \in Seq(Puts), NEW isCut, Kept(f, ps, isCut), NEW m \in 0..(Len(f) - 1)
  PROVE  SubSeq(f, 1, m) \in Seq(Items) /\ Kept(SubSeq(f, 1, m), ps, TRUE)
<1> DEFINE g == SubSeq(f, 1, m)
<1>1. Len(f) \in Nat /\ m \in Nat /\ \A i \in 1..Len(f) : f[i] \in Items
  BY LenProperties
<1>2. \A i \in 1..m : f[i] \in Items
  BY <1>1
<1>3. g \in Seq(Items) /\ Len(g) = m /\ \A i \in 1..m : g[i] = f[i]
  BY <1>1, <1>2, Beginning
<1> HIDE DEF g
<1>4. PICK at \in Nat \ {0}, p \in [1..(Len(ps) + 1) -> Nat] : Laid(f, ps, at, p) /\ Counted(f, Len(ps), at)
  BY DEF Kept
<1>5. \A i \in Nat \ {0} : i <= Len(g) => i <= Len(f) /\ g[i] = f[i]
  <2> TAKE i \in Nat \ {0}
  <2> HAVE i <= Len(g)
  <2>1. i \in 1..m /\ i <= Len(f)
    BY <1>1, <1>3
  <2> QED BY <1>3, <2>1
<1>6. \A k \in 1..Len(ps) : p[k] \in Nat \ {0} /\ \A i \in 1..Len(ps[k].data) : p[k] + i \in Nat \ {0}
  <2>1. Len(ps) \in Nat /\ 1 \in 1..(Len(ps) + 1)
    BY LenProperties
  <2>2. /\ p[1] = at + 2 /\ \A k \in 1..(Len(ps) + 1) : p[k] \in Nat
        /\ \A j, k \in 1..(Len(ps) + 1) : j < k => p[j] < p[k]
    BY <1>4 DEF Laid, PlacesOf
  <2> TAKE k \in 1..Len(ps)
  <2>3. k \in 1..(Len(ps) + 1) /\ (k = 1 \/ 1 < k)
    BY <2>1
  <2>4. p[k] \in Nat /\ p[k] # 0
    BY <2>1, <2>2, <2>3
  <2>5. ps[k] \in Puts
    BY LenProperties
  <2>6. Len(ps[k].data) \in Nat
    BY <2>5, HeadersAreItems
  <2> QED BY <2>4, <2>6
<1>7. Laid(g, ps, at, p)
  <2>1. PlacesOf(ps, at, p)
    BY <1>4 DEF Laid
  <2>2. \A q \in 1..Len(g) : g[q] = Arch!Sig <=> q = at
    <3>1. \A q \in 1..Len(g) : q \in 1..Len(f) /\ g[q] = f[q]
      BY <1>1, <1>3
    <3> QED BY <1>4, <3>1 DEF Laid
  <2>3. ASSUME NEW k \in 1..Len(ps)
        PROVE  /\ p[k] <= Len(g) => g[p[k]] = HeaderOf(ps[k])
               /\ \A i \in 1..Len(ps[k].data) : p[k] + i <= Len(g) => g[p[k] + i] = Arch!Byte(ps[k].data[i])
    BY <1>4, <1>5, <1>6 DEF Laid
  <2> QED BY <2>1, <2>2, <2>3 DEF Laid
<1>8. Counted(g, Len(ps), at)
  <2>1. at + 1 \in Nat \ {0}
    OBVIOUS
  <2> QED BY <1>4, <1>5, <2>1 DEF Counted
<1>9. Kept(g, ps, TRUE)
  BY <1>4, <1>7, <1>8 DEF Kept
<1> QED
  BY <1>3, <1>9 DEF g

\* A program in front: everything is further on by its length, which the end tells.
LEMMA KeptBehindProgram ==
  ASSUME NEW f \in Seq(Items), NEW ps \in Seq(Puts), Kept(f, ps, FALSE), f[1] = Arch!Sig, NEW c \in Seq(ContentBytes), c # << >>
  PROVE  /\ Arch!Bytes(c) \o f \o <<Arch!Ofs(Len(c))>> \in Seq(Items)
         /\ Kept(Arch!Bytes(c) \o f \o <<Arch!Ofs(Len(c))>>, ps, FALSE)
<1> DEFINE n == Len(ps)
           F == Len(f)
           L == Len(c)
           o == Arch!Ofs(L)
           g == Arch!Bytes(c) \o f \o <<o>>
<1>1. F \in Nat /\ n \in 1..MaxRes /\ n \in Nat /\ MaxRes \in Nat /\ L \in Nat /\ L # 0 /\ o \in Items /\ o # Arch!Sig /\ Unique(ps)
  <2>1. L \in Nat /\ L # 0
    BY LenProperties, EmptySeq
  <2>2. o \in Items /\ o # Arch!Sig
    BY <2>1, ItemKinds
  <2> QED BY <2>1, <2>2, StructuresAssumption, LenProperties DEF Kept
<1>2. /\ g \in Seq(Items) /\ Len(g) = L + F + 1
      /\ \A i \in 1..L : g[i] # Arch!Sig
      /\ \A i \in 1..F : g[L + i] = f[i]
      /\ g[L + F + 1] = o
  <2> DEFINE v == Arch!Bytes(c)
             w == v \o f
  <2>1. v \in Seq(Items) /\ Len(v) = L /\ \A i \in 1..L : v[i] # Arch!Sig
    BY BytesAreItems
  <2> HIDE DEF v, L, F, o
  <2>2. /\ w \in Seq(Items) /\ Len(w) = L + F
        /\ \A i \in 1..(L + F) : w[i] = IF i <= L THEN v[i] ELSE f[i - L]
    <3>1. /\ w \in Seq(Items) /\ Len(w) = Len(v) + Len(f)
          /\ \A i \in 1..(Len(v) + Len(f)) : w[i] = IF i <= Len(v) THEN v[i] ELSE f[i - Len(v)]
      BY <2>1, ConcatProperties, Zenon
    <3> QED BY <2>1, <3>1, Zenon DEF F
  <2> HIDE DEF w
  <2>3. <<o>> \in Seq(Items) /\ Len(<<o>>) = 1 /\ <<o>>[1] = o
    BY <1>1
  <2>4. /\ w \o <<o>> \in Seq(Items) /\ Len(w \o <<o>>) = L + F + 1
        /\ \A i \in 1..(L + F + 1) : (w \o <<o>>)[i] = IF i <= L + F THEN w[i] ELSE <<o>>[i - (L + F)]
    <3>1. /\ w \o <<o>> \in Seq(Items) /\ Len(w \o <<o>>) = Len(w) + Len(<<o>>)
          /\ \A i \in 1..(Len(w) + Len(<<o>>)) : (w \o <<o>>)[i] = IF i <= Len(w) THEN w[i] ELSE <<o>>[i - Len(w)]
      BY <2>2, <2>3, ConcatProperties, Zenon
    <3> QED BY <2>2, <2>3, <3>1, Zenon
  <2>5. \A i \in 1..L : i \in 1..(L + F) /\ i <= L /\ i \in 1..(L + F + 1) /\ i <= L + F
    BY <1>1
  <2>6. \A i \in 1..F : L + i \in 1..(L + F) /\ ~(L + i <= L) /\ L + i - L = i /\ L + i \in 1..(L + F + 1) /\ L + i <= L + F
    BY <1>1
  <2>7. L + F + 1 \in 1..(L + F + 1) /\ ~(L + F + 1 <= L + F) /\ L + F + 1 - (L + F) = 1
    BY <1>1
  <2>8. \A i \in 1..L : (w \o <<o>>)[i] # Arch!Sig
    BY <2>1, <2>2, <2>4, <2>5
  <2>9. \A i \in 1..F : (w \o <<o>>)[L + i] = f[i]
    <3> TAKE i \in 1..F
    <3>1. w[L + i] = f[i]
      <4> DEFINE j == L + i
      <4>1. j \in 1..(L + F) /\ ~(j <= L) /\ j - L = i
        BY <1>1
      <4> HIDE DEF j
      <4>2. w[j] = f[j - L]
        BY <2>2, <4>1
      <4> QED BY <4>1, <4>2 DEF j
    <3>2. (w \o <<o>>)[L + i] = w[L + i]
      BY <2>4, <2>6
    <3> QED BY <3>1, <3>2
  <2>10. (w \o <<o>>)[L + F + 1] = o
    BY <2>3, <2>4, <2>7
  <2> QED BY <2>4, <2>8, <2>9, <2>10 DEF w, v
<1> HIDE DEF n, F, L, o, g
<1>3. PICK at \in Nat \ {0}, p \in [1..(n + 1) -> Nat] :
        Laid(f, ps, at, p) /\ Counted(f, n, at) /\ Ended(f, at, p[n + 1])
  BY DEF Kept, n
<1>4. /\ p[1] = at + 2
      /\ \A k \in 1..(n + 1) : p[k] \in Nat
      /\ \A k \in 1..n : p[k + 1] = p[k] + 1 + Len(ps[k].data)
      /\ \A j, k \in 1..(n + 1) : j < k => p[j] < p[k]
      /\ \A q \in 1..F : f[q] = Arch!Sig <=> q = at
      /\ \A k \in 1..n :
           /\ p[k] <= F => f[p[k]] = HeaderOf(ps[k])
           /\ \A i \in 1..Len(ps[k].data) : p[k] + i <= F => f[p[k] + i] = Arch!Byte(ps[k].data[i])
  BY <1>3 DEF Laid, PlacesOf, n, F
<1>5. n + 1 \in 1..(n + 1) /\ 1 \in 1..(n + 1) /\ 1 < n + 1
  BY <1>1
<1>6. p[n + 1] \in Nat /\ p[n + 1] > 3
  BY <1>4, <1>5
<1>7. F = p[n + 1] \/ F = p[n + 1] + 1
  BY <1>3 DEF Ended, F
<1>8. at = 1
  <2>1. 1 \in 1..F
    BY <1>1, <1>6, <1>7
  <2> QED BY <1>4, <2>1
<1>9. F = p[n + 1]
  BY <1>3, <1>8 DEF Ended, F
<1>10. \A k \in 1..n : ps[k] \in Puts /\ Len(ps[k].data) \in Nat
  BY LenProperties, HeadersAreItems DEF n
<1> DEFINE q == [k \in 1..(n + 1) |-> p[k] + L]
<1>11. q \in [1..(n + 1) -> Nat] /\ \A k \in 1..(n + 1) : q[k] = p[k] + L
  BY <1>1, <1>4
<1> HIDE DEF q
<1>12. PlacesOf(ps, L + 1, q)
  <2>1. q[1] = L + 1 + 2
    BY <1>1, <1>4, <1>5, <1>8, <1>11
  <2>2. \A k \in 1..n : q[k + 1] = q[k] + 1 + Len(ps[k].data)
    <3> TAKE k \in 1..n
    <3>1. k \in 1..(n + 1) /\ k + 1 \in 1..(n + 1)
      BY <1>1
    <3>2. p[k] \in Nat /\ p[k + 1] = p[k] + 1 + Len(ps[k].data) /\ Len(ps[k].data) \in Nat
      BY <1>4, <1>10, <3>1
    <3>3. q[k] = p[k] + L /\ q[k + 1] = p[k + 1] + L
      BY <1>11, <3>1
    <3> DEFINE x == p[k]
               y == Len(ps[k].data)
    <3>4. x \in Nat /\ y \in Nat /\ q[k] = x + L /\ q[k + 1] = x + 1 + y + L
      BY <3>2, <3>3
    <3> HIDE DEF x, y
    <3>5. q[k + 1] = q[k] + 1 + y
      BY <1>1, <3>4
    <3> QED BY <3>5 DEF y
  <2>3. \A j, k \in 1..(n + 1) : j < k => q[j] < q[k]
    <3> TAKE j, k \in 1..(n + 1)
    <3> HAVE j < k
    <3>1. p[j] \in Nat /\ p[k] \in Nat /\ p[j] < p[k]
      BY <1>4
    <3> QED BY <1>1, <1>11, <3>1
  <2> QED BY <1>11, <2>1, <2>2, <2>3 DEF PlacesOf, n
<1>13. ASSUME NEW i \in 1..Len(g) PROVE g[i] = Arch!Sig <=> i = L + 1
  <2>1. CASE i \in 1..L
    BY <1>1, <1>2, <2>1
  <2>2. CASE i \notin 1..L /\ i # L + F + 1
    <3>1. i - L \in 1..F /\ L + (i - L) = i /\ (i - L = 1 <=> i = L + 1)
      BY <1>1, <1>2, <2>2
    <3>2. g[i] = f[i - L]
      BY <1>2, <3>1
    <3> QED BY <1>4, <1>8, <3>1, <3>2
  <2>3. CASE i = L + F + 1
    BY <1>1, <1>2, <1>6, <1>9, <2>3
  <2> QED BY <2>1, <2>2, <2>3
<1>14. ASSUME NEW k \in 1..n
       PROVE  /\ q[k] <= Len(g) => g[q[k]] = HeaderOf(ps[k])
              /\ \A i \in 1..Len(ps[k].data) : q[k] + i <= Len(g) => g[q[k] + i] = Arch!Byte(ps[k].data[i])
  <2> DEFINE x == p[k]
             y == Len(ps[k].data)
  <2>1. k \in 1..(n + 1) /\ k + 1 \in 1..(n + 1) /\ (k = 1 \/ 1 < k) /\ (k + 1 = n + 1 \/ k + 1 < n + 1)
    BY <1>1
  <2>2. x \in Nat /\ y \in Nat /\ x >= 3 /\ x + 1 + y <= F
    <3>1. x \in Nat /\ y \in Nat /\ p[k + 1] = x + 1 + y /\ p[k + 1] \in Nat
      BY <1>4, <1>10, <2>1
    <3>2. x >= 3
      BY <1>4, <1>5, <1>8, <2>1
    <3>3. p[k + 1] = p[n + 1] \/ p[k + 1] < p[n + 1]
      BY <1>4, <1>5, <2>1
    <3> QED BY <1>1, <1>6, <1>9, <3>1, <3>2, <3>3
  <2>3. q[k] = L + x
    BY <1>1, <1>11, <2>1, <2>2
  <2> HIDE DEF x, y
  <2>4. x \in 1..F /\ x <= F /\ \A i \in 1..y : x + i \in 1..F /\ x + i <= F /\ L + x + i = L + (x + i)
    BY <1>1, <2>2
  <2>5. f[x] = HeaderOf(ps[k]) /\ \A i \in 1..y : f[x + i] = Arch!Byte(ps[k].data[i])
    BY <1>4, <2>4 DEF x, y
  <2>6. g[L + x] = f[x] /\ \A i \in 1..y : g[L + x + i] = f[x + i]
    BY <1>2, <2>4
  <2> QED BY <2>3, <2>5, <2>6 DEF y
<1>15. Laid(g, ps, L + 1, q)
  BY <1>12, <1>13, <1>14 DEF Laid, n
<1>16. Counted(g, n, L + 1)
  <2>1. 1 + 1 <= F /\ 2 \in 1..F /\ L + 1 + 1 = L + 2
    BY <1>1, <1>6, <1>9
  <2>2. f[2] = Arch!Count(n)
    BY <1>3, <1>8, <2>1 DEF Counted, F
  <2> QED BY <1>2, <2>1, <2>2 DEF Counted
<1>17. Ended(g, L + 1, q[n + 1])
  <2>1. q[n + 1] = F + L /\ L + 1 - 1 = L /\ L + 1 # 1
    BY <1>1, <1>5, <1>6, <1>9, <1>11
  <2>2. Len(g) = q[n + 1] + 1 /\ g[Len(g)] = Arch!Ofs(L)
    BY <1>1, <1>2, <2>1 DEF o
  <2> DEFINE b == L + 1
             e == q[n + 1]
  <2>3. b # 1 /\ Len(g) = e + 1 /\ g[Len(g)] = Arch!Ofs(b - 1)
    <3>1. b # 1
      BY <1>1
    <3>2. Len(g) = e + 1
      BY <2>2
    <3>3. g[Len(g)] = Arch!Ofs(b - 1)
      <4>1. b - 1 = L
        BY <1>1
      <4> HIDE DEF b
      <4> QED BY <2>2, <4>1
    <3> HIDE DEF b, e
    <3> QED BY <3>1, <3>2, <3>3
  <2> HIDE DEF b, e
  <2>4. Ended(g, b, e)
    BY <2>3 DEF Ended
  <2> QED BY <2>4 DEF b, e
<1>18. L + 1 \in Nat \ {0}
  BY <1>1
<1>19. Kept(g, ps, FALSE)
  BY <1>1, <1>11, <1>15, <1>16, <1>17, <1>18 DEF Kept, n
<1> QED
  BY <1>2, <1>19 DEF g, o, L

-----------------------------------------------------------------------------
(* The invariant.                                                           *)
Waiting(res) ==
  /\ res \in Seq(Resources) /\ Len(res) <= MaxRes /\ Unique(res)
  /\ \A j \in 1..Len(res) :
       ~res[j].isfile => res[j].orig = Len(res[j].data) /\ res[j].comp = Len(res[j].data) /\ res[j].type = "NONE"
Filling ==
  /\ arch_arch \in [mode : {"write"}, res : Seq(Resources)]
  /\ Waiting(arch_arch.res) /\ arch_promised = << >>
\* The headers and contents of the first resources are in the file; while data are to follow, also the next header.
Written(a) ==
  \E f \in Seq(Items), p \in [1..(Len(a.put) + 1) -> Nat] :
    /\ LaidSoFar(f, a.put, Len(a.res), p)
    /\ IF a.mode = "header" THEN arch_file = f
       ELSE /\ arch_file = Append(f, Arch!Hdr(a.res[a.i]))
            /\ a.res[a.i].type = "NONE" /\ a.res[a.i].orig = a.res[a.i].comp
Closing ==
  /\ arch_arch \in [mode : {"header", "data"}, res : Seq(Resources), i : Nat, ok : BOOLEAN, put : Seq(Puts)]
  /\ Waiting(arch_arch.res) /\ arch_promised = << >>
  /\ arch_arch.i \in 1..(Len(arch_arch.res) + 1) /\ (arch_arch.mode = "data" => arch_arch.i <= Len(arch_arch.res))
  /\ Len(arch_arch.put) = arch_arch.i - 1
  /\ \A j \in 1..Len(arch_arch.put) :
       arch_arch.put[j].index = arch_arch.res[j].index /\ arch_arch.put[j].name = arch_arch.res[j].name
  /\ arch_arch.ok => Written(arch_arch)
ArchInv ==
  /\ arch_disk \in FileContents \cup {Arch!Gone} /\ arch_cut \in BOOLEAN
  /\ arch_file \in Seq(Items) /\ arch_promised \in Seq(Puts)
  /\ arch_promised # << >> => Kept(arch_file, arch_promised, arch_cut)
  /\ arch_arch \in FoundOnes(MaxRes) \/ Filling \/ Closing

LEMMA ContentsAreSequences ==
  /\ FileContents \subseteq Seq(ContentBytes) /\ MaxRes \in Nat
  /\ Arch!NULL \in FoundOnes(MaxRes) /\ Arch!NULL.mode = "none"
  /\ << >> \in Seq(Puts) /\ << >> \in Seq(Items) /\ << >> \in Seq(ContentBytes) /\ << >> \in Seq(Resources) /\ Len(<< >>) = 0
<1>1. FileContents \subseteq Seq(ContentBytes) /\ MaxRes \in Nat
  BY StructuresAssumption
<1>2. Arch!NULL.mode = "none"
  BY DEF Arch!NULL
<1> QED
  BY <1>1, <1>2, NothingFound, EmptySeq

\* What mode tells of the archive.
LEMMA ModeTells ==
  ASSUME ArchInv
  PROVE  /\ arch_arch.mode \in {"none", "read", "garbage"} <=> arch_arch \in FoundOnes(MaxRes)
         /\ arch_arch.mode = "write" <=> Filling
         /\ arch_arch.mode \in {"header", "data"} <=> Closing
<1>1. arch_arch \in FoundOnes(MaxRes) => arch_arch.mode \in {"none", "read", "garbage"}
  BY DEF FoundOnes
<1>2. Filling => arch_arch.mode = "write"
  BY DEF Filling
<1>3. Closing => arch_arch.mode \in {"header", "data"}
  BY DEF Closing
<1> QED
  BY <1>1, <1>2, <1>3 DEF ArchInv

LEMMA ArchInitInv == Arch!Init => ArchInv
<1> SUFFICES ASSUME Arch!Init PROVE ArchInv
  OBVIOUS
<1>1. arch_disk \in FileContents \cup {Arch!Gone} /\ arch_cut \in BOOLEAN /\ arch_file = << >> /\ arch_promised = << >>
      /\ arch_arch = Arch!NULL
  BY DEF Arch!Init
<1> QED
  BY <1>1, ContentsAreSequences DEF ArchInv

\* Putting a resource into the table.
LEMMA PutKeeps ==
  ASSUME ArchInv, NEW r \in Resources, Arch!Put(r),
         ~r.isfile => r.orig = Len(r.data) /\ r.comp = Len(r.data) /\ r.type = "NONE"
  PROVE  ArchInv'
<1> DEFINE res == arch_arch.res
<1>1. /\ arch_arch.mode = "write" /\ Len(res) < MaxRes /\ Arch!CheckIndexNameUnique(r.index, r.name)
      /\ arch_arch' = [arch_arch EXCEPT !.res = Append(@, r)]
      /\ UNCHANGED <<arch_disk, arch_file, arch_out, arch_promised, arch_cut>>
  BY DEF Arch!Put
<1>2. Filling
  BY <1>1, ModeTells
<1>3. arch_arch \in [mode : {"write"}, res : Seq(Resources)] /\ Waiting(res) /\ arch_promised = << >>
  BY <1>2 DEF Filling
<1>4. res \in Seq(Resources) /\ Len(res) \in Nat /\ DOMAIN res = 1..Len(res)
  BY <1>3, LenProperties
<1> DEFINE s == Append(res, r)
           n == Len(res)
<1>5. s \in Seq(Resources) /\ Len(s) = n + 1 /\ s[n + 1] = r /\ \A j \in 1..n : s[j] = res[j]
  BY <1>4, AppendProperties
<1>6. arch_arch' = [arch_arch EXCEPT !.res = s]
  BY <1>1
<1> HIDE DEF s
<1>7. arch_arch' \in [mode : {"write"}, res : Seq(Resources)] /\ arch_arch'.res = s
  BY <1>3, <1>5, <1>6
<1>8. \A j \in 1..n : (r.index # 0 => res[j].index # r.index) /\ (r.name # Null => res[j].name # r.name)
  BY <1>1, <1>4 DEF Arch!CheckIndexNameUnique
<1> HIDE DEF n, res
<1>9. n \in Nat /\ n < MaxRes /\ MaxRes \in Nat /\ Unique(res) /\ n = Len(res)
  BY <1>1, <1>3, <1>4, ContentsAreSequences DEF Waiting, n
<1>10. Unique(s)
  <2> SUFFICES ASSUME NEW i \in 1..(n + 1), NEW j \in 1..(n + 1), i # j
               PROVE  /\ s[i].index # 0 => s[i].index # s[j].index
                      /\ s[i].name # Null => s[i].name # s[j].name
    BY <1>5 DEF Unique
  <2>1. CASE i \in 1..n /\ j \in 1..n
    <3>1. s[i] = res[i] /\ s[j] = res[j]
      BY <1>5, <2>1
    <3> QED BY <1>9, <2>1, <3>1 DEF Unique
  <2>2. CASE i \in 1..n /\ j = n + 1
    <3>1. s[i] = res[i] /\ s[j] = r
      BY <1>5, <2>2
    <3> QED BY <1>8, <2>2, <3>1
  <2>3. CASE i = n + 1 /\ j \in 1..n
    <3>1. s[i] = r /\ s[j] = res[j]
      BY <1>5, <2>3
    <3> QED BY <1>8, <2>3, <3>1
  <2> QED BY <1>9, <2>1, <2>2, <2>3
<1>11. \A j \in 1..(n + 1) :
         ~s[j].isfile => s[j].orig = Len(s[j].data) /\ s[j].comp = Len(s[j].data) /\ s[j].type = "NONE"
  <2> TAKE j \in 1..(n + 1)
  <2>1. CASE j = n + 1
    <3>1. s[j] = r
      BY <1>5, <2>1
    <3> QED BY <3>1
  <2>2. CASE j # n + 1
    <3>1. j \in 1..n
      BY <1>9, <2>2
    <3>2. s[j] = res[j]
      BY <1>5, <3>1
    <3> QED BY <1>3, <1>9, <3>1, <3>2 DEF Waiting
  <2> QED BY <2>1, <2>2
<1>12. Waiting(s)
  BY <1>5, <1>9, <1>10, <1>11 DEF Waiting
<1>13. Filling'
  BY <1>1, <1>3, <1>7, <1>12 DEF Filling
<1> QED
  BY <1>1, <1>13 DEF ArchInv

\* The next header: a file's size is taken now.
LEMMA CompressedIsAResource ==
  ASSUME NEW r \in Resources, arch_disk \in FileContents \cup {Arch!Gone}
  PROVE  /\ Arch!Compressed(r) \in Resources /\ Arch!Hdr(Arch!Compressed(r)) \in HeaderItems
         /\ Arch!Compressed(r).isfile = r.isfile /\ Arch!Compressed(r).index = r.index /\ Arch!Compressed(r).name = r.name
         /\ ~r.isfile => Arch!Compressed(r) = r
         /\ r.isfile /\ ~Arch!CompressFails(r) => /\ Arch!Compressed(r).type = "NONE"
                                                  /\ Arch!Compressed(r).orig = Arch!Compressed(r).comp
<1> DEFINE size == Len(arch_disk)
           c == [r EXCEPT !.orig = size, !.comp = IF r.type = "NONE" THEN size ELSE 0]
<1>1. /\ r.isfile \in BOOLEAN /\ r.data \in Seq(ContentBytes) /\ r.orig \in Nat /\ r.comp \in Nat /\ r.type \in {"NONE", "other"}
      /\ r.index \in Indexes /\ r.name \in Named
  BY DEF Resources
<1>2. \A x \in Resources : Arch!Hdr(x) \in HeaderItems
  <2> TAKE x \in Resources
  <2>1. x.comp \in Nat /\ x.orig \in Nat /\ x.type \in {"NONE", "other"} /\ x.index \in Indexes /\ x.name \in Named
    BY DEF Resources
  <2> QED BY <2>1 DEF Arch!Hdr, HeaderItems
<1>3. CASE ~r.isfile \/ arch_disk = Arch!Gone
  <2>1. Arch!Compressed(r) = r /\ (r.isfile => Arch!CompressFails(r))
    BY <1>3 DEF Arch!Compressed, Arch!CompressFails
  <2> QED BY <1>2, <2>1
<1>4. CASE r.isfile /\ arch_disk # Arch!Gone
  <2>1. size \in Nat
    BY <1>4, ContentsAreSequences, LenProperties
  <2>2. Arch!Compressed(r) = c
    BY <1>4 DEF Arch!Compressed, Arch!NONE
  <2> HIDE DEF size
  <2>3. c \in Resources /\ c.isfile = r.isfile /\ c.index = r.index /\ c.name = r.name /\ c.type = r.type
        /\ c.orig = size /\ (r.type = "NONE" => c.comp = size)
    BY <2>1 DEF Resources
  <2>4. ~Arch!CompressFails(r) => r.type = "NONE"
    BY <1>4 DEF Arch!CompressFails, Arch!NONE
  <2> QED BY <1>2, <1>4, <2>2, <2>3, <2>4
<1> QED
  BY <1>3, <1>4

LEMMA BeginFlushKeeps == ArchInv /\ Arch!BeginFlush => ArchInv'
<1> SUFFICES ASSUME ArchInv, Arch!BeginFlush PROVE ArchInv'
  OBVIOUS
<1> DEFINE res == arch_arch.res
           n == Len(res)
           a == [mode |-> "header", res |-> res, i |-> 1, ok |-> TRUE, put |-> << >>]
<1>1. /\ arch_arch.mode = "write" /\ arch_file' = <<Arch!Sig, Arch!Count(n)>> /\ arch_arch' = a
      /\ UNCHANGED <<arch_disk, arch_out, arch_promised, arch_cut>>
  BY DEF Arch!BeginFlush
<1>2. res \in Seq(Resources) /\ Waiting(res) /\ arch_promised = << >>
  BY <1>1, ModeTells DEF Filling, Waiting
<1>3. n \in 0..MaxRes
  BY <1>2, LenProperties, ContentsAreSequences DEF Waiting
<1>4. arch_file' \in Seq(Items)
      /\ \E p \in [1..(Len(<< >>) + 1) -> Nat] : LaidSoFar(arch_file', << >>, n, p)
  BY <1>1, <1>3, LaidAtFirst
<1> HIDE DEF res, n
<1>5. /\ arch_arch' \in [mode : {"header", "data"}, res : Seq(Resources), i : Nat, ok : BOOLEAN, put : Seq(Puts)]
      /\ arch_arch'.mode = "header" /\ arch_arch'.res = res /\ arch_arch'.i = 1 /\ arch_arch'.put = << >> /\ Len(arch_arch'.put) = 0
  BY <1>1, <1>2, ContentsAreSequences
<1>6. Written(arch_arch)'
  BY <1>4, <1>5 DEF Written, n
<1>7. Closing'
  <2>1. 1 \in 1..(Len(res) + 1)
    BY <1>3 DEF n
  <2>2. \A j \in 1..Len(arch_arch'.put) : FALSE
    BY <1>5
  <2>3. Len(arch_arch'.put) = arch_arch'.i - 1 /\ arch_arch'.i \in 1..(Len(arch_arch'.res) + 1)
    BY <1>5, <2>1
  <2> QED BY <1>1, <1>2, <1>5, <1>6, <2>2, <2>3 DEF Closing
<1> QED
  BY <1>1, <1>2, <1>4, <1>7 DEF ArchInv

LEMMA FlushHeaderKeeps == ArchInv /\ Arch!FlushHeader => ArchInv'
<1> SUFFICES ASSUME ArchInv, Arch!FlushHeader PROVE ArchInv'
  OBVIOUS
<1> DEFINE a == arch_arch
           res == arch_arch.res
           r == Arch!Compressed(res[a.i])
           s == [res EXCEPT ![a.i] = r]
<1>1. /\ a.mode = "header" /\ a.i <= Len(res)
      /\ arch_file' = Append(arch_file, Arch!Hdr(r))
      /\ arch_arch' = [a EXCEPT !.mode = "data", !.res[a.i] = r, !.ok = @ /\ ~Arch!CompressFails(res[a.i])]
      /\ UNCHANGED <<arch_disk, arch_out, arch_promised, arch_cut>>
  BY DEF Arch!FlushHeader
<1>2. Closing
  BY <1>1, ModeTells
<1>3. /\ a \in [mode : {"header", "data"}, res : Seq(Resources), i : Nat, ok : BOOLEAN, put : Seq(Puts)]
      /\ Waiting(res) /\ arch_promised = << >> /\ a.i \in 1..(Len(res) + 1) /\ Len(a.put) = a.i - 1
      /\ \A j \in 1..Len(a.put) : a.put[j].index = res[j].index /\ a.put[j].name = res[j].name
      /\ a.ok => Written(a)
  BY <1>2 DEF Closing
<1>4. res \in Seq(Resources) /\ Len(res) \in Nat /\ a.i \in 1..Len(res) /\ res[a.i] \in Resources
  <2>1. res \in Seq(Resources)
    BY <1>3
  <2>2. Len(res) \in Nat /\ \A j \in 1..Len(res) : res[j] \in Resources
    BY <2>1, LenProperties
  <2>3. a.i \in 1..Len(res)
    BY <1>1, <1>3, <2>2
  <2> QED BY <2>1, <2>2, <2>3
<1>5. arch_disk \in FileContents \cup {Arch!Gone} /\ arch_file \in Seq(Items)
  BY DEF ArchInv
<1>6. /\ r \in Resources /\ Arch!Hdr(r) \in HeaderItems
      /\ r.isfile = res[a.i].isfile /\ r.index = res[a.i].index /\ r.name = res[a.i].name
      /\ ~res[a.i].isfile => r = res[a.i]
      /\ res[a.i].isfile /\ ~Arch!CompressFails(res[a.i]) => r.type = "NONE" /\ r.orig = r.comp
  BY <1>4, <1>5, CompressedIsAResource
<1> HIDE DEF r
<1>7. s \in Seq(Resources) /\ Len(s) = Len(res) /\ \A j \in 1..Len(res) : s[j] = IF j = a.i THEN r ELSE res[j]
  <2>1. DOMAIN res = 1..Len(res)
    BY <1>4, LenProperties
  <2> QED BY <1>4, <1>6, <2>1, ExceptSeq
<1> DEFINE b == [a EXCEPT !.mode = "data", !.res = s, !.ok = a.ok /\ ~Arch!CompressFails(res[a.i])]
<1>8. arch_arch' = b
  <2>1. a.res = res
    OBVIOUS
  <2> QED BY <1>1, Zenon
<1>9. /\ b \in [mode : {"header", "data"}, res : Seq(Resources), i : Nat, ok : BOOLEAN, put : Seq(Puts)]
      /\ b.mode = "data" /\ b.res = s /\ b.i = a.i /\ b.put = a.put /\ b.ok = (a.ok /\ ~Arch!CompressFails(res[a.i]))
  <2>1. (a.ok /\ ~Arch!CompressFails(res[a.i])) \in BOOLEAN
    OBVIOUS
  <2> HIDE DEF s, res
  <2> QED BY <1>3, <1>7, <2>1
<1> HIDE DEF b, s, res
<1>10. Waiting(s)
  <2>1. Unique(s)
    <3> SUFFICES ASSUME NEW i \in 1..Len(s), NEW j \in 1..Len(s), i # j
                 PROVE  /\ s[i].index # 0 => s[i].index # s[j].index
                        /\ s[i].name # Null => s[i].name # s[j].name
      BY DEF Unique
    <3>1. \A k \in 1..Len(s) : s[k].index = res[k].index /\ s[k].name = res[k].name
      BY <1>6, <1>7
    <3>2. i \in 1..Len(res) /\ j \in 1..Len(res)
      BY <1>7
    <3>3. Unique(res)
      BY <1>3 DEF Waiting
    <3>4. /\ res[i].index # 0 => res[i].index # res[j].index
          /\ res[i].name # Null => res[i].name # res[j].name
      BY <3>2, <3>3 DEF Unique
    <3> QED BY <3>1, <3>4
  <2>2. ASSUME NEW j \in 1..Len(s), ~s[j].isfile
        PROVE  s[j].orig = Len(s[j].data) /\ s[j].comp = Len(s[j].data) /\ s[j].type = "NONE"
    <3>1. s[j] = res[j] /\ j \in 1..Len(res)
      BY <1>6, <1>7, <2>2
    <3> QED BY <1>3, <2>2, <3>1 DEF Waiting
  <2> QED BY <1>3, <1>7, <2>1, <2>2 DEF Waiting
<1>11. ASSUME b.ok PROVE Written(arch_arch)'
  <2>1. PICK p \in [1..(Len(a.put) + 1) -> Nat] : LaidSoFar(arch_file, a.put, Len(res), p)
    BY <1>1, <1>3, <1>9, <1>11 DEF Written, res
  <2>2. s[a.i] = r
    BY <1>4, <1>7
  <2>3. r.type = "NONE" /\ r.orig = r.comp
    <3>1. CASE res[a.i].isfile
      BY <1>6, <1>9, <1>11, <3>1
    <3>2. CASE ~res[a.i].isfile
      BY <1>3, <1>4, <1>6, <3>2 DEF Waiting
    <3> QED BY <3>1, <3>2
  <2>4. arch_arch'.mode = "data" /\ arch_arch'.res = s /\ arch_arch'.i = a.i /\ arch_arch'.put = a.put
    BY <1>8, <1>9
  <2>5. arch_file' = Append(arch_file, Arch!Hdr(s[a.i]))
    BY <1>1, <2>2
  <2> QED BY <1>5, <1>7, <2>1, <2>2, <2>3, <2>4, <2>5 DEF Written
<1>12. Closing'
  <2>1. \A j \in 1..Len(a.put) : a.put[j].index = s[j].index /\ a.put[j].name = s[j].name
    <3> TAKE j \in 1..Len(a.put)
    <3>1. j \in 1..Len(res) /\ s[j] = IF j = a.i THEN r ELSE res[j]
      BY <1>3, <1>4, <1>7
    <3> QED BY <1>3, <1>6, <3>1
  <2>2. a.i \in 1..(Len(s) + 1) /\ a.i <= Len(s)
    BY <1>4, <1>7
  <2>3. b.ok => Written(arch_arch)'
    BY <1>11
  <2>4. /\ arch_arch' \in [mode : {"header", "data"}, res : Seq(Resources), i : Nat, ok : BOOLEAN, put : Seq(Puts)]
        /\ arch_arch'.res = s /\ arch_arch'.i = a.i /\ arch_arch'.put = a.put /\ arch_arch'.ok = b.ok
    BY <1>8, <1>9
  <2>5. arch_promised' = << >>
    BY <1>1, <1>3
  <2> HIDE DEF a
  <2> QED BY <1>3, <1>10, <2>1, <2>2, <2>3, <2>4, <2>5 DEF Closing
<1>13. arch_file' \in Seq(Items)
  BY <1>1, <1>5, <1>6, ItemKinds, AppendProperties
<1> QED
  BY <1>1, <1>3, <1>5, <1>12, <1>13 DEF ArchInv

\* The contents: what is copied fits the header, unless the call fails.
LEMMA CopiedFits ==
  ASSUME NEW r \in Resources, arch_disk \in FileContents \cup {Arch!Gone},
         ~r.isfile => r.comp = Len(r.data)
  PROVE  /\ Arch!Copied(r) \in Seq(ContentBytes)
         /\ ~Arch!CopyFails(r) => Len(Arch!Copied(r)) = r.comp
<1>1. r.isfile \in BOOLEAN /\ r.data \in Seq(ContentBytes) /\ r.comp \in Nat
  BY DEF Resources
<1>2. CASE Arch!CopyFails(r)
  <2>1. Arch!Copied(r) = << >>
    BY <1>2 DEF Arch!Copied
  <2> QED BY <1>2, <2>1, ContentsAreSequences
<1>3. CASE ~Arch!CopyFails(r) /\ r.isfile
  <2>1. arch_disk # Arch!Gone /\ ~(Len(arch_disk) < r.comp) /\ Arch!Copied(r) = SubSeq(arch_disk, 1, r.comp)
    BY <1>3 DEF Arch!Copied, Arch!CopyFails
  <2>2. arch_disk \in Seq(ContentBytes) /\ Len(arch_disk) \in Nat /\ \A i \in 1..Len(arch_disk) : arch_disk[i] \in ContentBytes
    <3>1. arch_disk \in Seq(ContentBytes)
      BY <2>1, ContentsAreSequences
    <3> QED BY <3>1, LenProperties
  <2>3. \A i \in 1..r.comp : arch_disk[i] \in ContentBytes
    <3>1. r.comp <= Len(arch_disk)
      BY <1>1, <2>1, <2>2
    <3> QED BY <1>1, <2>2, <3>1
  <2>4. SubSeq(arch_disk, 1, r.comp) \in Seq(ContentBytes) /\ Len(SubSeq(arch_disk, 1, r.comp)) = r.comp
    BY <1>1, <2>3, Beginning
  <2> QED BY <2>1, <2>4
<1>4. CASE ~Arch!CopyFails(r) /\ ~r.isfile
  <2>1. Arch!Copied(r) = r.data
    BY <1>4 DEF Arch!Copied
  <2> QED BY <1>1, <1>4, <2>1
<1> QED
  BY <1>2, <1>3, <1>4

LEMMA FlushDataKeeps == ArchInv /\ Arch!FlushData => ArchInv'
<1> SUFFICES ASSUME ArchInv, Arch!FlushData PROVE ArchInv'
  OBVIOUS
<1> DEFINE a == arch_arch
           res == arch_arch.res
           r == res[a.i]
           data == Arch!Copied(r)
           x == [index |-> r.index, name |-> r.name, data |-> data]
           put == Append(a.put, x)
<1>1. /\ a.mode = "data"
      /\ arch_file' = arch_file \o Arch!Bytes(data)
      /\ arch_arch' = [a EXCEPT !.mode = "header", !.i = @ + 1, !.ok = @ /\ ~Arch!CopyFails(r), !.put = Append(@, x)]
      /\ UNCHANGED <<arch_disk, arch_out, arch_promised, arch_cut>>
  BY DEF Arch!FlushData
<1>2. Closing
  BY <1>1, ModeTells
<1>3. /\ a \in [mode : {"header", "data"}, res : Seq(Resources), i : Nat, ok : BOOLEAN, put : Seq(Puts)]
      /\ Waiting(res) /\ arch_promised = << >> /\ a.i \in 1..(Len(res) + 1) /\ a.i <= Len(res) /\ Len(a.put) = a.i - 1
      /\ \A j \in 1..Len(a.put) : a.put[j].index = res[j].index /\ a.put[j].name = res[j].name
      /\ a.ok => Written(a)
  BY <1>1, <1>2 DEF Closing
<1>4. res \in Seq(Resources) /\ Len(res) \in Nat /\ a.i \in 1..Len(res) /\ r \in Resources
  <2>1. res \in Seq(Resources)
    BY <1>3
  <2>2. Len(res) \in Nat /\ \A j \in 1..Len(res) : res[j] \in Resources
    BY <2>1, LenProperties
  <2>3. a.i \in 1..Len(res)
    BY <1>3, <2>2
  <2> QED BY <2>1, <2>2, <2>3
<1>5. arch_disk \in FileContents \cup {Arch!Gone} /\ arch_file \in Seq(Items)
  BY DEF ArchInv
<1>6. ~r.isfile => r.comp = Len(r.data) /\ r.orig = Len(r.data) /\ r.type = "NONE"
  BY <1>3, <1>4 DEF Waiting
<1>7. data \in Seq(ContentBytes) /\ (~Arch!CopyFails(r) => Len(data) = r.comp)
  BY <1>4, <1>5, <1>6, CopiedFits
<1> HIDE DEF data
<1>8. x \in Puts /\ x.index = r.index /\ x.name = r.name /\ x.data = data
  BY <1>4, <1>7 DEF Puts, Resources
<1> HIDE DEF x
<1>9. put \in Seq(Puts) /\ Len(put) = Len(a.put) + 1 /\ put[Len(a.put) + 1] = x /\ \A j \in 1..Len(a.put) : put[j] = a.put[j]
  <2>1. a.put \in Seq(Puts)
    BY <1>3
  <2> QED BY <1>8, <2>1, AppendProperties
<1> DEFINE ok == (a.ok /\ ~Arch!CopyFails(r))
           b == [a EXCEPT !.mode = "header", !.i = a.i + 1, !.ok = ok, !.put = put]
<1>10. arch_arch' = b
  BY <1>1, Zenon
<1>11. /\ b \in [mode : {"header", "data"}, res : Seq(Resources), i : Nat, ok : BOOLEAN, put : Seq(Puts)]
       /\ b.mode = "header" /\ b.res = res /\ b.i = a.i + 1 /\ b.put = put /\ b.ok = ok
  <2>1. ok \in BOOLEAN
    OBVIOUS
  <2>2. a.i + 1 \in Nat
    BY <1>3
  <2> HIDE DEF put, ok
  <2> QED BY <1>3, <1>9, <2>1, <2>2
<1> HIDE DEF b, put
<1>12. ASSUME ok PROVE Written(arch_arch)'
  <2>1. PICK f \in Seq(Items), p \in [1..(Len(a.put) + 1) -> Nat] :
          /\ LaidSoFar(f, a.put, Len(res), p)
          /\ arch_file = Append(f, Arch!Hdr(r)) /\ r.type = "NONE" /\ r.orig = r.comp
    BY <1>1, <1>3, <1>12 DEF Written
  <2>2. Arch!Hdr(r) = HeaderOf(x)
    BY <1>7, <1>8, <1>12, <2>1 DEF Arch!Hdr, HeaderOf
  <2>3. arch_file' = Append(f, HeaderOf(x)) \o Arch!Bytes(x.data)
    BY <1>1, <1>8, <2>1, <2>2
  <2>4. a.put \in Seq(Puts)
    BY <1>3
  <2>5. \E q \in [1..(Len(Append(a.put, x)) + 1) -> Nat] :
          LaidSoFar(Append(f, HeaderOf(x)) \o Arch!Bytes(x.data), Append(a.put, x), Len(res), q)
    BY <1>8, <2>1, <2>4, LayNext
  <2>6. PICK q \in [1..(Len(put) + 1) -> Nat] : LaidSoFar(arch_file', put, Len(res), q)
    BY <2>3, <2>5 DEF put
  <2>7. arch_arch'.mode = "header" /\ arch_arch'.res = res /\ arch_arch'.put = put
    BY <1>10, <1>11
  <2>8. arch_file' \in Seq(Items)
    BY <1>1, <1>5, <1>7, BytesAreItems, ConcatProperties
  <2> QED BY <2>6, <2>7, <2>8 DEF Written
<1>13. arch_file' \in Seq(Items)
  BY <1>1, <1>5, <1>7, BytesAreItems, ConcatProperties
<1>14. Closing'
  <2>1. \A j \in 1..Len(put) : put[j].index = res[j].index /\ put[j].name = res[j].name
    <3> TAKE j \in 1..Len(put)
    <3>1. CASE j = a.i
      <4>1. put[j] = x
        BY <1>3, <1>4, <1>9, <3>1
      <4> QED BY <1>8, <3>1, <4>1
    <3>2. CASE j # a.i
      <4>1. j \in 1..Len(a.put) /\ put[j] = a.put[j]
        BY <1>3, <1>4, <1>9, <3>2
      <4> QED BY <1>3, <4>1
    <3> QED BY <3>1, <3>2
  <2>2. a.i + 1 \in 1..(Len(res) + 1) /\ Len(put) = a.i + 1 - 1
    BY <1>3, <1>4, <1>9
  <2>3. /\ arch_arch' \in [mode : {"header", "data"}, res : Seq(Resources), i : Nat, ok : BOOLEAN, put : Seq(Puts)]
        /\ arch_arch'.mode = "header" /\ arch_arch'.res = res /\ arch_arch'.i = a.i + 1 /\ arch_arch'.put = put /\ arch_arch'.ok = ok
    BY <1>10, <1>11
  <2>4. arch_promised' = << >> /\ (ok => Written(arch_arch)')
    BY <1>1, <1>3, <1>12
  <2> HIDE DEF a, ok, res
  <2> QED BY <1>3, <2>1, <2>2, <2>3, <2>4 DEF Closing
<1> QED
  BY <1>1, <1>3, <1>5, <1>13, <1>14 DEF ArchInv

LEMMA BeginningOfItems ==
  ASSUME NEW f \in Seq(Items), NEW n \in 0..Len(f)
  PROVE  SubSeq(f, 1, n) \in Seq(Items)
<1>1. Len(f) \in Nat /\ \A i \in 1..Len(f) : f[i] \in Items
  BY LenProperties
<1>2. n \in Nat /\ \A i \in 1..n : f[i] \in Items
  BY <1>1
<1> QED
  BY <1>2, Beginning

LEMMA EndFlushKeeps == ArchInv /\ Arch!EndFlush => ArchInv'
<1> SUFFICES ASSUME ArchInv, Arch!EndFlush PROVE ArchInv'
  OBVIOUS
<1> DEFINE a == arch_arch
           res == arch_arch.res
           put == arch_arch.put
<1>1. /\ a.mode = "header" /\ a.i > Len(res)
      /\ \/ arch_file' = Append(arch_file, Arch!Ofs(0)) /\ arch_cut' = FALSE
         \/ \E n \in 0..(Len(Append(arch_file, Arch!Ofs(0))) - 1) :
               arch_file' = SubSeq(Append(arch_file, Arch!Ofs(0)), 1, n) /\ arch_cut' = TRUE
      /\ arch_promised' = (IF a.ok THEN put ELSE << >>) /\ arch_cut' \in BOOLEAN /\ arch_arch' = Arch!NULL
      /\ UNCHANGED <<arch_disk, arch_out>>
  BY DEF Arch!EndFlush
<1>2. Closing
  BY <1>1, ModeTells
<1>3. /\ a \in [mode : {"header", "data"}, res : Seq(Resources), i : Nat, ok : BOOLEAN, put : Seq(Puts)]
      /\ Waiting(res) /\ a.i \in 1..(Len(res) + 1) /\ Len(put) = a.i - 1
      /\ \A j \in 1..Len(put) : put[j].index = res[j].index /\ put[j].name = res[j].name
      /\ a.ok => Written(a)
  BY <1>2 DEF Closing
<1>4. res \in Seq(Resources) /\ put \in Seq(Puts) /\ a.ok \in BOOLEAN /\ a.i \in Nat
  BY <1>3
<1>5. Len(res) \in Nat /\ Len(res) <= MaxRes /\ Unique(res) /\ MaxRes \in Nat /\ Len(put) = Len(res)
  <2>1. Len(res) \in Nat /\ Len(res) <= MaxRes /\ Unique(res) /\ MaxRes \in Nat
    BY <1>3, <1>4, LenProperties, ContentsAreSequences DEF Waiting
  <2> QED BY <1>1, <1>3, <1>4, <2>1
<1>6. arch_file \in Seq(Items) /\ arch_disk \in FileContents \cup {Arch!Gone}
  BY DEF ArchInv
<1> HIDE DEF a, res, put
<1> DEFINE whole == Append(arch_file, Arch!Ofs(0))
<1>w. whole \in Seq(Items)
  <2>1. 0 \in Nat
    OBVIOUS
  <2>2. Arch!Ofs(0) \in Items
    BY <2>1, ItemKinds
  <2> QED BY <1>6, <2>2, AppendProperties
<1>e. \/ arch_file' = whole /\ arch_cut' = FALSE
      \/ \E n \in 0..(Len(whole) - 1) : arch_file' = SubSeq(whole, 1, n) /\ arch_cut' = TRUE
  BY <1>1
<1> HIDE DEF whole
<1>7. arch_file' \in Seq(Items)
  BY <1>w, <1>e, BeginningOfItems
<1>8. arch_promised' \in Seq(Puts)
  BY <1>1, <1>4, ContentsAreSequences
<1>9. ASSUME arch_promised' # << >> PROVE Kept(arch_file', arch_promised', arch_cut')
  <2>1. a.ok /\ arch_promised' = put /\ put # << >>
    BY <1>1, <1>9
  <2>2. Len(put) \in 1..MaxRes
    BY <1>4, <1>5, <2>1, EmptySeq
  <2>3. Unique(put)
    BY <1>3, <1>5 DEF Unique
  <2>4. PICK p \in [1..(Len(put) + 1) -> Nat] : LaidSoFar(arch_file, put, Len(put), p)
    BY <1>1, <1>3, <1>5, <2>1 DEF Written, a, res, put
  <2>5. Kept(whole, put, FALSE)
    BY <1>4, <1>6, <2>2, <2>3, <2>4, LayEnd DEF whole
  <2>6. ASSUME NEW n \in 0..(Len(whole) - 1) PROVE Kept(SubSeq(whole, 1, n), put, TRUE)
    BY <1>4, <1>w, <2>5, KeptWithoutEnd
  <2> QED BY <1>e, <2>1, <2>5, <2>6
<1> QED
  BY <1>1, <1>6, <1>7, <1>8, <1>9, ContentsAreSequences DEF ArchInv

LEMMA WriteFailsKeeps == ArchInv /\ Arch!WriteFails => ArchInv'
<1> SUFFICES ASSUME ArchInv, Arch!WriteFails PROVE ArchInv'
  OBVIOUS
<1>1. /\ arch_arch.mode \in {"header", "data"} /\ arch_arch' = Arch!NULL /\ arch_cut' = TRUE
      /\ UNCHANGED <<arch_disk, arch_out, arch_promised>>
  BY DEF Arch!WriteFails
<1>2. PICK n \in 0..Len(arch_file) : arch_file' = SubSeq(arch_file, 1, n)
  BY DEF Arch!WriteFails
<1>3. arch_promised = << >>
  BY <1>1, ModeTells DEF Closing
<1>4. arch_file \in Seq(Items) /\ arch_disk \in FileContents \cup {Arch!Gone}
  BY DEF ArchInv
<1>5. arch_file' \in Seq(Items)
  BY <1>2, <1>4, BeginningOfItems
<1> QED
  BY <1>1, <1>3, <1>4, <1>5, ContentsAreSequences DEF ArchInv

-----------------------------------------------------------------------------
(* The other actions.                                                       *)
LEMMA AddResKeeps == ArchInv /\ Arch!SU_AR_AddRes => ArchInv'
<1> SUFFICES ASSUME ArchInv, Arch!SU_AR_AddRes PROVE ArchInv'
  OBVIOUS
<1>1. PICK c \in FileContents, index \in Indexes, name \in Named :
        Arch!Put([isfile |-> FALSE, data |-> c, orig |-> Len(c), comp |-> Len(c), type |-> Arch!NONE, index |-> index, name |-> name])
  BY DEF Arch!SU_AR_AddRes, Named
<1> DEFINE r == [isfile |-> FALSE, data |-> c, orig |-> Len(c), comp |-> Len(c), type |-> "NONE", index |-> index, name |-> name]
<1>2. Arch!Put(r)
  BY <1>1 DEF Arch!NONE
<1>3. c \in Seq(ContentBytes) /\ Len(c) \in Nat
  <2>1. c \in Seq(ContentBytes)
    BY ContentsAreSequences
  <2> QED BY <2>1, LenProperties
<1>4. r \in Resources /\ r.orig = Len(r.data) /\ r.comp = Len(r.data) /\ r.type = "NONE"
  BY <1>3 DEF Resources
<1> HIDE DEF r
<1> QED
  BY <1>2, <1>4, PutKeeps

LEMMA AddResFileKeeps == ArchInv /\ Arch!SU_AR_AddResFile => ArchInv'
<1> SUFFICES ASSUME ArchInv, Arch!SU_AR_AddResFile PROVE ArchInv'
  OBVIOUS
<1>1. PICK type \in {"NONE", "other"}, index \in Indexes, name \in Named :
        Arch!Put([isfile |-> TRUE, data |-> << >>, orig |-> 0, comp |-> 0, type |-> type, index |-> index, name |-> name])
  BY DEF Arch!SU_AR_AddResFile, Named, Arch!NONE
<1> DEFINE r == [isfile |-> TRUE, data |-> << >>, orig |-> 0, comp |-> 0, type |-> type, index |-> index, name |-> name]
<1>2. Arch!Put(r)
  BY <1>1
<1>3. r \in Resources /\ r.isfile
  BY ContentsAreSequences DEF Resources
<1> HIDE DEF r
<1> QED
  BY <1>2, <1>3, PutKeeps

LEMMA CreateArchiveKeeps == ArchInv /\ Arch!SU_AR_CreateArchive => ArchInv'
<1> SUFFICES ASSUME ArchInv, Arch!SU_AR_CreateArchive PROVE ArchInv'
  OBVIOUS
<1> DEFINE a == [mode |-> "write", res |-> << >>]
<1>1. /\ arch_file' = << >> /\ arch_arch' = a /\ arch_promised' = << >>
      /\ arch_disk' = arch_disk /\ arch_cut' = arch_cut
  BY DEF Arch!SU_AR_CreateArchive
<1>2. a \in [mode : {"write"}, res : Seq(Resources)] /\ a.res = << >>
  BY ContentsAreSequences
<1> HIDE DEF a
<1>3. Waiting(<< >>)
  <2>1. \A j \in 1..Len(<< >>) : FALSE
    BY ContentsAreSequences
  <2>2. Unique(<< >>)
    BY <2>1 DEF Unique
  <2>3. Len(<< >>) <= MaxRes /\ << >> \in Seq(Resources)
    BY ContentsAreSequences
  <2> QED BY <2>1, <2>2, <2>3 DEF Waiting
<1>4. Filling'
  BY <1>1, <1>2, <1>3 DEF Filling
<1> QED
  BY <1>1, <1>4, ContentsAreSequences DEF ArchInv

\* Wherever an archive is looked for, it is in the file or just behind.
LEMMA StartsArePlaces ==
  ASSUME NEW f \in Seq(Items), NEW at \in Arch!Starts(f)
  PROVE  at \in Nat \ {0}
<1>1. Len(f) \in Nat /\ \A i \in 1..Len(f) : f[i] \in Items
  BY LenProperties
<1>2. CASE at = 1
  BY <1>2
<1>3. CASE f # << >> /\ Arch!Last(f).is = "offset" /\ at = Arch!Last(f).at + 1
  <2>1. Len(f) \in 1..Len(f)
    BY <1>1, <1>3, EmptySeq
  <2>2. Arch!Last(f) = f[Len(f)] /\ f[Len(f)] \in Items
    BY <1>1, <2>1 DEF Arch!Last
  <2>3. Arch!Last(f).at \in Nat
    BY <1>3, <2>2, ItemKinds
  <2> QED BY <1>3, <2>3
<1>4. CASE at \in 1..(Len(f) + 1)
  BY <1>1, <1>4
<1> QED
  BY <1>2, <1>3, <1>4 DEF Arch!Starts

LEMMA OpenArchiveKeeps == ArchInv /\ Arch!SU_AR_OpenArchive => ArchInv'
<1> SUFFICES ASSUME ArchInv, Arch!SU_AR_OpenArchive PROVE ArchInv'
  OBVIOUS
<1>1. PICK at \in Arch!Starts(arch_file) : arch_arch' = Arch!ReadHeaders(arch_file, at)
  BY DEF Arch!SU_AR_OpenArchive
<1>2. UNCHANGED <<arch_disk, arch_file, arch_out, arch_promised, arch_cut>>
  BY DEF Arch!SU_AR_OpenArchive
<1>3. arch_file \in Seq(Items)
  BY DEF ArchInv
<1>4. at \in Nat \ {0}
  BY <1>1, <1>3, StartsArePlaces
<1>5. arch_arch' \in FoundOnes(MaxRes)
  BY <1>1, <1>3, <1>4, ReadTyped
<1> QED
  BY <1>2, <1>5 DEF ArchInv

LEMMA CloseArchiveKeeps == ArchInv /\ Arch!SU_AR_CloseArchive => ArchInv'
<1> SUFFICES ASSUME ArchInv, Arch!SU_AR_CloseArchive PROVE ArchInv'
  OBVIOUS
<1>1. arch_arch' = Arch!NULL /\ UNCHANGED <<arch_disk, arch_file, arch_promised, arch_cut>>
  BY DEF Arch!SU_AR_CloseArchive
<1> QED
  BY <1>1, ContentsAreSequences DEF ArchInv

\* What is around the archive may change, and the place a resource was saved to.
LEMMA ArchRests ==
  ASSUME ArchInv, arch_disk' \in FileContents \cup {Arch!Gone}, UNCHANGED <<arch_file, arch_arch, arch_promised, arch_cut>>
  PROVE  ArchInv'
<1>1. Filling => Filling'
  BY DEF Filling
<1>2. Closing => Closing'
  <2>1. Written(arch_arch)' <=> Written(arch_arch)
    BY DEF Written
  <2> QED BY <2>1 DEF Closing
<1> QED
  BY <1>1, <1>2 DEF ArchInv

LEMMA AppendToBinaryKeeps == ArchInv /\ Arch!AppendToBinary => ArchInv'
<1> SUFFICES ASSUME ArchInv, Arch!AppendToBinary PROVE ArchInv'
  OBVIOUS
<1>1. arch_arch = Arch!NULL /\ ~arch_cut /\ arch_file # << >> /\ arch_file[1] = Arch!Sig
      /\ UNCHANGED <<arch_disk, arch_arch, arch_out, arch_promised, arch_cut>>
  BY DEF Arch!AppendToBinary
<1>2. PICK c \in FileContents \ {<< >>} : arch_file' = Arch!Bytes(c) \o arch_file \o <<Arch!Ofs(Len(c))>>
  BY DEF Arch!AppendToBinary
<1>3. arch_file \in Seq(Items) /\ arch_promised \in Seq(Puts) /\ arch_disk \in FileContents \cup {Arch!Gone} /\ arch_cut = FALSE
      /\ (arch_promised # << >> => Kept(arch_file, arch_promised, FALSE))
  BY <1>1 DEF ArchInv
<1>4. c \in Seq(ContentBytes) /\ c # << >>
  BY <1>2, ContentsAreSequences
<1>5. arch_promised # << >> => Kept(arch_file', arch_promised, FALSE)
  BY <1>1, <1>2, <1>3, <1>4, KeptBehindProgram
<1>6. arch_file' \in Seq(Items)
  <2>1. Len(c) \in Nat /\ Arch!Bytes(c) \in Seq(Items)
    BY <1>4, BytesAreItems
  <2>2. Arch!Ofs(Len(c)) \in Items
    BY <2>1, ItemKinds
  <2>3. <<Arch!Ofs(Len(c))>> \in Seq(Items)
    BY <2>2
  <2>4. Arch!Bytes(c) \o arch_file \in Seq(Items)
    BY <1>3, <2>1, ConcatProperties
  <2> QED BY <1>2, <2>3, <2>4, ConcatProperties
<1> QED
  BY <1>1, <1>3, <1>5, <1>6, ContentsAreSequences DEF ArchInv

LEMMA LoseEndKeeps == ArchInv /\ Arch!LoseEnd => ArchInv'
<1> SUFFICES ASSUME ArchInv, Arch!LoseEnd PROVE ArchInv'
  OBVIOUS
<1>1. arch_arch = Arch!NULL /\ arch_cut' = TRUE /\ UNCHANGED <<arch_disk, arch_arch, arch_out, arch_promised>>
  BY DEF Arch!LoseEnd
<1>2. PICK n \in 0..(Len(arch_file) - 1) : arch_file' = SubSeq(arch_file, 1, n)
  BY DEF Arch!LoseEnd
<1>3. arch_file \in Seq(Items) /\ arch_promised \in Seq(Puts) /\ arch_disk \in FileContents \cup {Arch!Gone}
      /\ (arch_promised # << >> => Kept(arch_file, arch_promised, arch_cut))
  BY DEF ArchInv
<1>4. arch_promised # << >> => Kept(arch_file', arch_promised, TRUE)
  BY <1>2, <1>3, KeptWithoutEnd
<1>5. arch_file' \in Seq(Items)
  <2>1. Len(arch_file) \in Nat /\ \A i \in 1..Len(arch_file) : arch_file[i] \in Items
    BY <1>3, LenProperties
  <2>2. n \in Nat /\ \A i \in 1..n : arch_file[i] \in Items
    BY <2>1
  <2> QED BY <1>2, <2>2, Beginning
<1> QED
  BY <1>1, <1>3, <1>4, <1>5, ContentsAreSequences DEF ArchInv

LEMMA ArchStepInv == ArchInv /\ Arch!Next => ArchInv'
<1>1. ArchInv /\ Arch!SU_AR_ReadResToFile => ArchInv'
  <2> SUFFICES ASSUME ArchInv, Arch!SU_AR_ReadResToFile PROVE ArchInv'
    OBVIOUS
  <2>1. UNCHANGED <<arch_disk, arch_file, arch_arch, arch_promised, arch_cut>>
    BY DEF Arch!SU_AR_ReadResToFile
  <2> QED BY <2>1, ArchRests DEF ArchInv
<1>2. ArchInv /\ Arch!ChangeSource => ArchInv'
  <2> SUFFICES ASSUME ArchInv, Arch!ChangeSource PROVE ArchInv'
    OBVIOUS
  <2>1. arch_disk' \in FileContents \cup {Arch!Gone} /\ UNCHANGED <<arch_file, arch_arch, arch_promised, arch_cut>>
    BY DEF Arch!ChangeSource
  <2> QED BY <2>1, ArchRests
<1> QED
  BY <1>1, <1>2, CreateArchiveKeeps, AddResKeeps, AddResFileKeeps, BeginFlushKeeps, FlushHeaderKeeps, FlushDataKeeps, EndFlushKeeps, WriteFailsKeeps,
     OpenArchiveKeeps, CloseArchiveKeeps, AppendToBinaryKeeps, LoseEndKeeps DEF Arch!Next

LEMMA ArchInvKeeps == ArchInv => Arch!ArchiveKeepsAll
  BY KeptAll DEF ArchInv

LEMMA ArchInvTyped == ArchInv => Arch!TypeOK
<1> SUFFICES ASSUME ArchInv PROVE Arch!TypeOK
  OBVIOUS
<1>1. arch_arch.mode \in {"none", "write", "header", "data", "read", "garbage"} /\ Len(arch_arch.res) <= MaxRes
  <2>1. CASE arch_arch \in FoundOnes(MaxRes)
    BY <2>1 DEF FoundOnes
  <2>2. CASE Filling
    BY <2>2 DEF Filling, Waiting
  <2>3. CASE Closing
    BY <2>3 DEF Closing, Waiting
  <2> QED BY <2>1, <2>2, <2>3 DEF ArchInv
<1>2. Len(arch_promised) <= MaxRes
  <2>1. CASE arch_promised = << >>
    BY <2>1, ContentsAreSequences
  <2>2. CASE arch_promised # << >>
    BY <2>2, ContentsAreSequences DEF ArchInv, Kept
  <2> QED BY <2>1, <2>2
<1> QED
  BY <1>1, <1>2 DEF ArchInv, Arch!TypeOK

-----------------------------------------------------------------------------
(* Words and WebPages: types.                                               *)

\* A cursor is NULL or at the rest of a string; every user has one.
WordsInv == Words!TypeOK /\ DOMAIN words_current = Users

LEMMA WordsInitInv == Words!Init => WordsInv
<1> SUFFICES ASSUME Words!Init PROVE WordsInv
  OBVIOUS
<1>1. words_fn \in {"wild", "file", "buffer", "search", "parse"}
  BY DEF Words!Init, Words!Inputs
<1>2. words_cursor = Words!NoString /\ words_current = [u \in Users |-> Words!NoString] /\ words_answer = << >>
  BY DEF Words!Init
<1>3. Words!NoString[1] = "NULL"
  BY DEF Words!NoString
<1>4. Len(words_answer) <= 1
  BY <1>2, EmptySeq
<1> QED
  BY <1>1, <1>2, <1>3, <1>4 DEF WordsInv, Words!TypeOK

LEMMA WordsStepInv == WordsInv /\ Words!Next => WordsInv'
<1> SUFFICES ASSUME WordsInv, Words!Next PROVE WordsInv'
  OBVIOUS
<1>1. ASSUME NEW f, NEW value, Words!Call(f, value) PROVE WordsInv'
  <2>1. words_answer' = <<value>> /\ UNCHANGED <<words_fn, words_cursor, words_current>>
    BY <1>1 DEF Words!Call, Words!parsing
  <2>2. Len(<<value>>) <= 1
    OBVIOUS
  <2> QED BY <2>1, <2>2 DEF WordsInv, Words!TypeOK
<1>2. ASSUME NEW u \in Users, NEW c PROVE Words!Told(u, c)[2][1] \in {"NULL", "at"}
  <2>1. \A r : Words!Cut(r)[2][1] \in {"NULL", "at"}
    BY DEF Words!Cut, Words!NoString
  <2>2. Words!NoString[1] = "NULL"
    BY DEF Words!NoString
  <2> QED BY <2>1, <2>2 DEF Words!Told
<1>3. ASSUME NEW u \in Users, Words!strparse(u), UNCHANGED <<words_fn, words_arg, words_answer>> PROVE WordsInv'
  <2>1. words_cursor' = Words!Told(u, words_cursor)[2] /\ UNCHANGED words_current
    BY <1>3 DEF Words!strparse
  <2> QED BY <1>2, <1>3, <2>1 DEF WordsInv, Words!TypeOK
<1>4. ASSUME NEW u \in Users, Words!strparse_r(u), UNCHANGED <<words_fn, words_arg, words_answer>> PROVE WordsInv'
  <2>1. words_current' = [words_current EXCEPT ![u] = Words!Told(u, words_current[u])[2]] /\ UNCHANGED words_cursor
    BY <1>4 DEF Words!strparse_r
  <2> DEFINE x == Words!Told(u, words_current[u])[2]
  <2>2. x[1] \in {"NULL", "at"}
    BY <1>2
  <2>3. words_current' = [words_current EXCEPT ![u] = x]
    BY <2>1
  <2> HIDE DEF x
  <2>4. DOMAIN words_current' = Users /\ \A v \in Users : words_current'[v] = IF v = u THEN x ELSE words_current[v]
    BY <2>3 DEF WordsInv
  <2> QED BY <1>4, <2>1, <2>2, <2>4 DEF WordsInv, Words!TypeOK
<1>5. Words!CallWild \/ Words!CallFile \/ Words!CallBuffer \/ Words!CallSearch => WordsInv'
  BY <1>1 DEF Words!CallWild, Words!CallFile, Words!CallBuffer, Words!CallSearch
<1> QED
  BY <1>3, <1>4, <1>5 DEF Words!Next, Words!Parse

-----------------------------------------------------------------------------
\* An input of a tag and the tags behind it.
InputPlaces(other) == [input : {Page!Input(t, other) : t \in Page!Tags}, behind : Seq(Page!Tags)]
\* What SU_GetNextInput may tell: nothing, or an input.
ToldInputs == {<< >>} \cup {<<x>> : x \in {Page!Input(t, "") : t \in Page!Tags}}

\* The tag an input ends with is its own or one behind it.
LEMMA EndsBehind ==
  ASSUME NEW tags \in Seq(Page!Tags), NEW i \in 1..Len(tags)
  PROVE  Page!End(tags, i) \in {0} \cup i..Len(tags)
<1> DEFINE s == Page!From(tags, i + 1)
           I == {k \in 1..Len(s) : s[k].tag = "textarea" /\ s[k].ends}
           n == IF I # {} THEN Page!Min(I) ELSE 0
<1>1. Len(tags) \in Nat
  BY LenProperties
<1>2. s = SubSeq(tags, i + 1, Len(tags)) /\ Len(s) = Len(tags) - i
  BY <1>1, SubSeqProperties DEF Page!From
<1> HIDE DEF s
<1>3. n \in {0} \cup 1..(Len(tags) - i)
  <2>1. CASE I = {}
    BY <2>1
  <2>2. CASE I # {}
    <3>1. PICK x \in I : \A y \in I : x <= y
      <4>1. I \in SUBSET Nat
        BY <1>1, <1>2
      <4> HIDE DEF I
      <4> QED BY <2>2, <4>1, LeastOf
    <3>2. Page!Min(I) = CHOOSE y \in I : \A z \in I : y <= z
      BY DEF Page!Min
    <3>3. Page!Min(I) \in I
      <4> HIDE DEF I
      <4> QED BY <3>1, <3>2
    <3> QED BY <1>2, <2>2, <3>3
  <2> QED BY <2>1, <2>2
<1>4. Page!SelectInSeq(s, LAMBDA t : t.tag = "textarea" /\ t.ends) = n
  BY DEF Page!SelectInSeq
<1> HIDE DEF n
<1>5. Page!End(tags, i) = IF tags[i].tag # "textarea" \/ tags[i].ends THEN i ELSE IF n = 0 THEN 0 ELSE i + n
  BY <1>4 DEF Page!End, s
<1> QED
  BY <1>1, <1>3, <1>5

\* The inputs from a tag on; I are those from later ones on.
InputsFrom(tags, other, i, I) ==
  IF i > Len(tags) THEN << >>
  ELSE IF ~Page!IsInput(tags[i]) \/ ~Page!Named(tags, i) THEN I[i + 1]
  ELSE << [input |-> Page!Input(tags[i], other), behind |-> Page!From(tags, Page!End(tags, i) + 1)] >> \o I[Page!End(tags, i) + 1]

LEMMA InputsOfTyped ==
  ASSUME NEW tags \in Seq(Page!Tags), NEW other
  PROVE  Page!InputsOf(tags, other) \in Seq(InputPlaces(other))
<1> DEFINE N == Len(tags) + 1
           S == Seq(InputPlaces(other))
           Rows(m, h) == h \in [(N - m)..N -> S] /\ \A i \in (N - m)..N : h[i] = InputsFrom(tags, other, i, h)
           T == {m \in Nat : m < N /\ ~ \E h : Rows(m, h)}
<1>1. Len(tags) \in Nat /\ N \in Nat /\ \A i \in 1..Len(tags) : tags[i] \in Page!Tags
  BY LenProperties
<1>2. ASSUME NEW i \in 1..N, NEW h, \A j \in (i + 1)..N : h[j] \in S
      PROVE  /\ InputsFrom(tags, other, i, h) \in S
             /\ \A g : (\A j \in (i + 1)..N : g[j] = h[j]) => InputsFrom(tags, other, i, g) = InputsFrom(tags, other, i, h)
  <2>1. CASE i > Len(tags)
    <3>1. \A g : InputsFrom(tags, other, i, g) = << >>
      BY <2>1 DEF InputsFrom
    <3> QED BY <3>1, EmptySeq
  <2>2. CASE ~(i > Len(tags)) /\ (~Page!IsInput(tags[i]) \/ ~Page!Named(tags, i))
    <3>1. \A g : InputsFrom(tags, other, i, g) = g[i + 1]
      BY <2>2 DEF InputsFrom
    <3>2. i + 1 \in (i + 1)..N
      BY <1>1, <2>2
    <3> HIDE DEF S
    <3> QED BY <1>2, <3>1, <3>2
  <2>3. CASE ~(i > Len(tags)) /\ Page!IsInput(tags[i]) /\ Page!Named(tags, i)
    <3> DEFINE e == Page!End(tags, i)
               r == [input |-> Page!Input(tags[i], other), behind |-> Page!From(tags, e + 1)]
    <3>1. i \in 1..Len(tags)
      BY <1>1, <2>3
    <3>2. e \in i..Len(tags)
      <4>1. e # 0
        BY <2>3 DEF Page!Named
      <4> QED BY <3>1, <4>1, EndsBehind
    <3>3. \A g : InputsFrom(tags, other, i, g) = <<r>> \o g[e + 1]
      BY <2>3 DEF InputsFrom
    <3>4. e + 1 \in (i + 1)..N
      BY <1>1, <3>1, <3>2
    <3>5. Page!From(tags, e + 1) \in Seq(Page!Tags)
      <4>1. e + 1 \in Int /\ \A j \in (e + 1)..Len(tags) : tags[j] \in Page!Tags
        BY <1>1, <3>1, <3>2
      <4> QED BY <1>1, <4>1, SubSeqProperties DEF Page!From
    <3>6. r \in InputPlaces(other)
      <4> HIDE DEF e
      <4> QED BY <1>1, <3>1, <3>5 DEF InputPlaces
    <3> HIDE DEF e, r
    <3>7. <<r>> \in S
      BY <3>6
    <3>8. h[e + 1] \in S
      BY <1>2, <3>4
    <3>9. <<r>> \o h[e + 1] \in S
      BY <3>7, <3>8, ConcatProperties
    <3> HIDE DEF S
    <3> QED BY <3>3, <3>4, <3>9
  <2> QED BY <2>1, <2>2, <2>3
<1> HIDE DEF S
<1>3. T = {}
  <2> SUFFICES ASSUME T # {} PROVE FALSE
    OBVIOUS
  <2>1. T \in SUBSET Nat
    OBVIOUS
  <2> HIDE DEF T
  <2>2. PICK m \in T : \A y \in T : m <= y
    BY <2>1, LeastOf
  <2> USE DEF T
  <2>3. m \in Nat /\ m < N /\ ~ \E h : Rows(m, h)
    BY <2>2
  <2> DEFINE i == N - m
  <2>4. i \in 1..N
    BY <1>1, <2>3
  <2>5. \E h : \A j \in (i + 1)..N : h[j] \in S /\ h[j] = InputsFrom(tags, other, j, h)
    <3>1. CASE m = 0
      <4>1. \A j \in (i + 1)..N : FALSE
        BY <1>1, <3>1
      <4> QED BY <4>1
    <3>2. CASE m # 0
      <4>1. m - 1 \in Nat /\ m - 1 < N /\ ~(m <= m - 1)
        BY <1>1, <2>3, <3>2
      <4>2. ~(m - 1 \in T)
        BY <2>2, <4>1
      <4>3. PICK h : Rows(m - 1, h)
        BY <4>1, <4>2
      <4>4. N - (m - 1) = i + 1
        BY <1>1, <2>3
      <4> QED BY <4>3, <4>4
    <3> QED BY <3>1, <3>2
  <2>6. PICK h : \A j \in (i + 1)..N : h[j] \in S /\ h[j] = InputsFrom(tags, other, j, h)
    BY <2>5
  <2> DEFINE g == [j \in i..N |-> IF j = i THEN InputsFrom(tags, other, i, h) ELSE h[j]]
  <2>7. \A j \in i..N : j = i \/ j \in (i + 1)..N
    BY <1>1, <2>4
  <2>8. InputsFrom(tags, other, i, h) \in S
    BY <1>2, <2>4, <2>6
  <2>9. g \in [i..N -> S] /\ g[i] = InputsFrom(tags, other, i, h)
    BY <1>1, <2>4, <2>6, <2>7, <2>8
  <2>10. \A j \in (i + 1)..N : g[j] = h[j]
    <3> TAKE j \in (i + 1)..N
    <3>1. j \in i..N /\ j # i
      BY <1>1, <2>4
    <3> QED BY <3>1
  <2> HIDE DEF g
  <2>11. \A j \in i..N : g[j] = InputsFrom(tags, other, j, g)
    <3> TAKE j \in i..N
    <3>1. \A k \in (j + 1)..N : g[k] = h[k] /\ h[k] \in S
      <4>1. \A k \in (j + 1)..N : k \in (i + 1)..N
        BY <1>1, <2>4
      <4> QED BY <2>6, <2>10, <4>1
    <3>2. j \in 1..N
      BY <1>1, <2>4
    <3>3. InputsFrom(tags, other, j, g) = InputsFrom(tags, other, j, h)
      BY <1>2, <3>1, <3>2
    <3>4. CASE j = i
      BY <2>9, <3>3, <3>4
    <3>5. CASE j # i
      BY <2>6, <2>7, <2>10, <3>3, <3>5
    <3> QED BY <3>4, <3>5
  <2>12. Rows(m, g)
    BY <2>9, <2>11
  <2> QED BY <2>3, <2>12
<1>4. \E h : Rows(Len(tags), h)
  <2>1. Len(tags) < N
    BY <1>1
  <2> QED BY <1>1, <1>3, <2>1
<1>5. PICK h : Rows(Len(tags), h)
  BY <1>4
<1>6. h \in [1..N -> S] /\ \A i \in 1..N : h[i] = InputsFrom(tags, other, i, h)
  <2>1. N - Len(tags) = 1
    BY <1>1
  <2> QED BY <1>5, <2>1
<1> HIDE DEF N
<1> DEFINE J == CHOOSE I : I = [i \in 1..N |-> InputsFrom(tags, other, i, I)]
<1>7. h = [i \in 1..N |-> InputsFrom(tags, other, i, h)]
  <2>1. h = [i \in 1..N |-> h[i]]
    BY <1>6
  <2>2. [i \in 1..N |-> h[i]] = [i \in 1..N |-> InputsFrom(tags, other, i, h)]
    BY <1>6, Zenon
  <2> QED BY <2>1, <2>2
<1>8. J = [i \in 1..N |-> InputsFrom(tags, other, i, J)]
  <2> DEFINE Is(I) == I = [i \in 1..N |-> InputsFrom(tags, other, i, I)]
  <2>1. Is(h)
    BY <1>7
  <2>2. J = CHOOSE I : Is(I)
    OBVIOUS
  <2> HIDE DEF Is, J
  <2>3. Is(J)
    BY <2>1, <2>2, Zenon
  <2> QED BY <2>3 DEF Is
<1>9. Page!InputsOf(tags, other) = J[1]
  BY Zenon DEF Page!InputsOf, InputsFrom, N
<1> HIDE DEF J
\* What J is from a place on, h is.
<1> DEFINE D == {m \in Nat : m < N /\ J[N - m] # h[N - m]}
<1>10. D = {}
  <2> SUFFICES ASSUME D # {} PROVE FALSE
    OBVIOUS
  <2>1. D \in SUBSET Nat
    OBVIOUS
  <2> HIDE DEF D
  <2>2. PICK m \in D : \A y \in D : m <= y
    BY <2>1, LeastOf
  <2> USE DEF D
  <2>3. N \in Nat /\ m \in Nat /\ m < N /\ J[N - m] # h[N - m]
    BY <1>1, <2>2 DEF N
  <2>4. N - m \in 1..N
    BY <2>3
  <2>5. ASSUME NEW j \in (N - m + 1)..N PROVE J[j] = h[j] /\ h[j] \in S
    <3>1. N - j \in Nat /\ N - j < N /\ ~(m <= N - j) /\ N - (N - j) = j /\ j \in 1..N
      BY <2>3, <2>4
    <3>2. ~(N - j \in D)
      BY <2>2, <3>1
    <3> QED BY <1>6, <3>1, <3>2
  <2>6. InputsFrom(tags, other, N - m, J) = InputsFrom(tags, other, N - m, h)
    BY <1>2, <2>4, <2>5
  <2>7. J[N - m] = InputsFrom(tags, other, N - m, J)
    BY <1>8, <2>4
  <2> QED BY <1>6, <2>3, <2>4, <2>6, <2>7
<1>11. J[1] = h[1] /\ 1 \in 1..N
  <2>1. Len(tags) \in Nat /\ Len(tags) < N /\ N - Len(tags) = 1 /\ 1 \in 1..N
    BY <1>1 DEF N
  <2>2. ~(Len(tags) \in D)
    BY <1>10
  <2> QED BY <2>1, <2>2
<1> QED
  BY <1>6, <1>9, <1>11 DEF S

PageInv ==
  /\ page_fn \in {"link", "host", "form", "encode"} /\ Len(page_answer) <= 1
  /\ page_cursor \in Seq(Page!Tags) /\ page_inputs \in Seq(ToldInputs)

LEMMA PagesAreTags == \A p \in Page!Pages : p \in Seq(Page!Tags)
<1>1. ASSUME NEW n \in 0..3, NEW p \in [1..n -> Page!Tags] PROVE p \in Seq(Page!Tags)
  BY FunctionIsSeq
<1>2. ASSUME NEW f \in Page!Tags, NEW e \in Page!Tags, NEW t \in Page!Tags, NEW u \in Page!Tags
      PROVE  <<f, t, e, f, u, e>> \in Seq(Page!Tags)
  OBVIOUS
<1> DEFINE short == UNION {[1..n -> Page!Tags] : n \in 0..3}
           forms == {<<f, t, e, f, u, e>> : f \in {x \in Page!Tags : x.tag = "form"}, e \in {x \in Page!Tags : x.tag = "/form"},
                                            t \in Page!Tags, u \in Page!Tags}
<1>3. \A p \in short : p \in Seq(Page!Tags)
  BY <1>1
<1>4. \A p \in forms : p \in Seq(Page!Tags)
  <2>1. \A p \in forms : \E f \in Page!Tags, e \in Page!Tags, t \in Page!Tags, u \in Page!Tags : p = <<f, t, e, f, u, e>>
    OBVIOUS
  <2>2. SUFFICES ASSUME NEW p \in forms PROVE p \in Seq(Page!Tags)
    OBVIOUS
  <2>3. PICK f \in Page!Tags, e \in Page!Tags, t \in Page!Tags, u \in Page!Tags : p = <<f, t, e, f, u, e>>
    BY <2>1, <2>2
  <2>4. <<f, t, e, f, u, e>> \in Seq(Page!Tags)
    BY <1>2
  <2> HIDE DEF forms
  <2> QED BY <2>3, <2>4
<1>5. Page!Pages = short \cup forms
  BY DEF Page!Pages
<1> HIDE DEF short, forms
<1> QED
  BY <1>3, <1>4, <1>5

LEMMA PageInitInv == Page!Init => PageInv
<1> SUFFICES ASSUME Page!Init PROVE PageInv
  OBVIOUS
<1>1. page_fn \in DOMAIN Page!Inputs /\ page_arg \in Page!Inputs[page_fn] /\ page_answer = << >> /\ page_inputs = << >>
      /\ page_cursor = IF page_fn = "form" THEN page_arg ELSE << >>
  BY DEF Page!Init
<1>2. page_fn \in {"link", "host", "form", "encode"} /\ Page!Inputs["form"] = Page!Pages
  <2>1. \A l, h, f, e : LET r == [link |-> l, host |-> h, form |-> f, encode |-> e]
                        IN r["form"] = f /\ \A x \in DOMAIN r : x \in {"link", "host", "form", "encode"}
    OBVIOUS
  <2> DEFINE links == Page!Urls \X Page!Hrefs
             hosts == [scheme : {"http", "https", "ftp", ""}, user : BOOLEAN, host : Hosts, port : {0, 8080}, path : {<< >>, <<"d", "q">>}]
             bytes == (UNION {[1..n -> EncodedBytes] : n \in 0..4}) \X {4, 13}
  <2>2. Page!Inputs = [link |-> links, host |-> hosts, form |-> Page!Pages, encode |-> bytes]
    BY DEF Page!Inputs
  <2> HIDE DEF links, hosts, bytes
  <2> QED BY <1>1, <2>1, <2>2
<1>3. page_cursor \in Seq(Page!Tags)
  BY <1>1, <1>2, PagesAreTags, EmptySeq
<1> QED
  BY <1>1, <1>2, <1>3, EmptySeq DEF PageInv

LEMMA NextInputTyped ==
  ASSUME NEW tags \in Seq(Page!Tags)
  PROVE  Page!GetNextInput(tags)[1] \in ToldInputs /\ Page!GetNextInput(tags)[2] \in Seq(Page!Tags)
<1> DEFINE found == Page!InputsOf(tags, "")
<1>1. Page!GetNextInput(tags) = IF found = << >> THEN << << >>, tags>> ELSE << <<found[1].input>>, found[1].behind>>
  BY DEF Page!GetNextInput, Page!NULL
<1>2. found \in Seq(InputPlaces(""))
  BY InputsOfTyped
<1> HIDE DEF found
<1>3. CASE found = << >>
  BY <1>1, <1>3 DEF ToldInputs
<1>4. CASE found # << >>
  <2>1. found[1] \in InputPlaces("")
    <3>1. Len(found) \in Nat /\ DOMAIN found = 1..Len(found) /\ (Len(found) = 0 => found = << >>)
      BY <1>2, LenProperties, EmptySeq
    <3>2. 1 \in 1..Len(found)
      BY <1>4, <3>1
    <3> QED BY <1>2, <3>1, <3>2, ElementOfSeq
  <2>2. found[1].input \in {Page!Input(t, "") : t \in Page!Tags} /\ found[1].behind \in Seq(Page!Tags)
    BY <2>1 DEF InputPlaces
  <2>3. <<found[1].input>> \in ToldInputs
    BY <2>2 DEF ToldInputs
  <2>4. Page!GetNextInput(tags) = << <<found[1].input>>, found[1].behind>>
    BY <1>1, <1>4
  <2> DEFINE x == <<found[1].input>>
             y == found[1].behind
  <2>5. Page!GetNextInput(tags) = <<x, y>> /\ x \in ToldInputs /\ y \in Seq(Page!Tags)
    BY <2>2, <2>3, <2>4
  <2> HIDE DEF x, y
  <2> QED BY <2>5
<1> QED
  BY <1>3, <1>4

LEMMA PageStepInv == PageInv /\ Page!Next => PageInv'
<1> SUFFICES ASSUME PageInv, Page!Next PROVE PageInv'
  OBVIOUS
<1>1. ASSUME NEW f, NEW value, Page!Call(f, value) PROVE PageInv'
  <2>1. page_answer' = <<value>> /\ UNCHANGED <<page_fn, page_cursor, page_inputs>>
    BY <1>1 DEF Page!Call
  <2>2. Len(<<value>>) <= 1
    OBVIOUS
  <2> QED BY <2>1, <2>2 DEF PageInv
<1>2. Page!CallLink \/ Page!CallHost \/ Page!CallForm \/ Page!CallEncode => PageInv'
  BY <1>1 DEF Page!CallLink, Page!CallHost, Page!CallForm, Page!CallEncode
<1>3. Page!CallNextInput => PageInv'
  <2> SUFFICES ASSUME Page!CallNextInput PROVE PageInv'
    OBVIOUS
  <2>1. /\ page_inputs' = Append(page_inputs, Page!GetNextInput(page_cursor)[1])
        /\ page_cursor' = Page!GetNextInput(page_cursor)[2] /\ UNCHANGED <<page_fn, page_answer>>
    BY DEF Page!CallNextInput
  <2>2. Page!GetNextInput(page_cursor)[1] \in ToldInputs /\ Page!GetNextInput(page_cursor)[2] \in Seq(Page!Tags)
    BY NextInputTyped DEF PageInv
  <2>3. page_inputs' \in Seq(ToldInputs)
    BY <2>1, <2>2, AppendProperties DEF PageInv
  <2> QED BY <2>1, <2>2, <2>3 DEF PageInv
<1> QED
  BY <1>2, <1>3 DEF Page!Next

LEMMA PageInvTyped == PageInv => Page!TypeOK
<1> SUFFICES ASSUME PageInv PROVE Page!TypeOK
  OBVIOUS
<1>1. Page!ToSet(page_cursor) \subseteq Page!Tags
  BY LenProperties DEF PageInv, Page!ToSet
<1>2. \A x \in ToldInputs : Len(x) <= 1
  <2>1. \A x \in ToldInputs : x = << >> \/ \E y : x = <<y>>
    BY Zenon DEF ToldInputs
  <2>2. \A y : Len(<<y>>) <= 1
    OBVIOUS
  <2>3. Len(<< >>) <= 1
    OBVIOUS
  <2> QED BY <2>1, <2>2, <2>3
<1>3. \A k \in DOMAIN page_inputs : Len(page_inputs[k]) <= 1
  <2>1. page_inputs \in Seq(ToldInputs)
    BY DEF PageInv
  <2> QED BY <1>2, <2>1, LenProperties
<1> QED
  BY <1>1, <1>3 DEF PageInv, Page!TypeOK

-----------------------------------------------------------------------------
(* These parts among those that Structures composes.                       *)

StructuresInv ==
  /\ structure = "list" => ListInv
  /\ structure = "words" => WordsInv
  /\ structure = "arch" => ArchInv
  /\ structure = "page" => PageInv

LEMMA StructuresInitInv == StructuresInit => StructuresInv
BY ListInitInv, WordsInitInv, ArchInitInv, PageInitInv DEF StructuresInit, StructuresInv

LEMMA StructuresStepInv == StructuresInv /\ [StructuresNext]_structuresVars => StructuresInv'
<1> SUFFICES ASSUME StructuresInv, [StructuresNext]_structuresVars PROVE StructuresInv'
  OBVIOUS
<1>1. CASE structure = "list" /\ List!Next /\ OthersRest("list")
  <2>1. ListInv' /\ structure' = "list"
    BY <1>1, ListStepInv DEF StructuresInv, OthersRest
  <2> QED BY <2>1 DEF StructuresInv
<1>2. CASE structure = "words" /\ Words!Next /\ OthersRest("words")
  <2>1. WordsInv' /\ structure' = "words"
    BY <1>2, WordsStepInv DEF StructuresInv, OthersRest
  <2> QED BY <2>1 DEF StructuresInv
<1>3. CASE structure = "arch" /\ Arch!Next /\ OthersRest("arch")
  <2>1. ArchInv' /\ structure' = "arch"
    BY <1>3, ArchStepInv DEF StructuresInv, OthersRest
  <2> QED BY <2>1 DEF StructuresInv
<1>4. CASE structure = "page" /\ Page!Next /\ OthersRest("page")
  <2>1. PageInv' /\ structure' = "page"
    BY <1>4, PageStepInv DEF StructuresInv, OthersRest
  <2> QED BY <2>1 DEF StructuresInv
<1>5. CASE structure = "block" /\ AllocNext /\ OthersRest("block")
  <2>1. structure' = "block"
    BY <1>5 DEF OthersRest
  <2> QED BY <2>1 DEF StructuresInv
<1>6. CASE UNCHANGED structuresVars
  <2>1. UNCHANGED structure /\ UNCHANGED listVars /\ UNCHANGED wordsVars /\ UNCHANGED archVars /\ UNCHANGED pageVars
    BY <1>6 DEF structuresVars
  <2>2. List!TypeOK' = List!TypeOK
    BY <2>1 DEF List!TypeOK, listVars
  <2>3. ListInv => ListInv'
    <3> SUFFICES ASSUME ListInv PROVE ListInv'
      OBVIOUS
    <3>1. PICK r \in [list_used -> Nat] : Chained(r)
      BY DEF ListInv
    <3>2. InOrder(list_used', list_list', list_cell', r) /\ r \in [list_used' -> Nat]
      BY <2>1, <3>1 DEF Chained, listVars
    <3> QED BY <2>2, <3>2 DEF ListInv, Chained
  <2>4. ArchInv => ArchInv'
    BY <2>1, ArchRests DEF ArchInv, archVars
  <2>5. WordsInv => WordsInv'
    BY <2>1 DEF WordsInv, Words!TypeOK, wordsVars
  <2>6. PageInv => PageInv'
    BY <2>1 DEF PageInv, pageVars
  <2> QED BY <2>1, <2>3, <2>4, <2>5, <2>6 DEF StructuresInv
<1> QED
  BY <1>1, <1>2, <1>3, <1>4, <1>5, <1>6 DEF StructuresNext

\* The cells malloc gave for a list are those it reaches, and nobody holds one that was freed, whatever was added, deleted and freed, for a heap
\* of any size (liste.c).
THEOREM ListsKeepTheirCells ==
  StructuresSpec => []NoCellLost
<1>1. StructuresInit => StructuresInv
  BY StructuresInitInv
<1>2. StructuresInv /\ [StructuresNext]_structuresVars => StructuresInv'
  BY StructuresStepInv
<1>3. StructuresInv => NoCellLost
  BY ListInvKept DEF StructuresInv, NoCellLost
<1> QED
  BY <1>1, <1>2, <1>3, PTL DEF StructuresSpec

\* What a call leaves in a list keeps its order and its data, wherever cells come and go around it; a removal by value takes out the first of
\* each run of equal data, and nothing else than what is equal (liste.c).
THEOREM ListsKeepTheirOrder ==
  StructuresSpec => SurvivorsKeepOrder
<1>1. StructuresInit => StructuresInv
  BY StructuresInitInv
<1>2. StructuresInv /\ [StructuresNext]_structuresVars => StructuresInv'
  BY StructuresStepInv
<1>3. StructuresInv /\ [StructuresNext]_structuresVars => [structure = "list" => List!Survivors]_listVars
  <2> SUFFICES ASSUME StructuresInv, [StructuresNext]_structuresVars, structure = "list", ~UNCHANGED listVars
               PROVE  List!Survivors
    OBVIOUS
  <2>1. ~UNCHANGED structuresVars
    BY DEF structuresVars
  <2>2. List!Next
    BY <2>1 DEF StructuresNext
  <2> QED BY <2>2, StepKeepsSurvivors DEF StructuresInv
<1> QED
  BY <1>1, <1>2, <1>3, PTL DEF StructuresSpec, SurvivorsKeepOrder

\* What a close that answers true has put into an archive comes back to whoever opens the file: every resource under its number, its index and
\* its name, with the content that was copied, also when the archive was appended to a program; and what comes from a file that lost its
\* end, a full disk's when it was closed or later, is whole. For archives, contents and programs of any size, and sources that change meanwhile (arch.c).
THEOREM ArchivesKeepAll ==
  StructuresSpec => []ArchiveKeepsAll
<1>1. StructuresInit => StructuresInv
  BY StructuresInitInv
<1>2. StructuresInv /\ [StructuresNext]_structuresVars => StructuresInv'
  BY StructuresStepInv
<1>3. StructuresInv => ArchiveKeepsAll
  BY ArchInvKeeps DEF StructuresInv, ArchiveKeepsAll
<1> QED
  BY <1>1, <1>2, <1>3, PTL DEF StructuresSpec

\* What the part that allocates does is what AlignedAlloc does.
LEMMA StructuresAllocate == StructuresSpec => AllocSpec
<1>1. StructuresInit => AllocInit
  BY DEF StructuresInit
<1>2. [StructuresNext]_structuresVars => [AllocNext]_allocVars
  <2> SUFFICES ASSUME [StructuresNext]_structuresVars PROVE [AllocNext]_allocVars
    OBVIOUS
  <2>1. CASE UNCHANGED structuresVars
    BY <2>1 DEF structuresVars
  <2>2. ASSUME NEW p, p # "block", OthersRest(p) PROVE UNCHANGED allocVars
    BY <2>2 DEF OthersRest
  <2>3. "list" # "block" /\ "words" # "block" /\ "arch" # "block" /\ "page" # "block"
    OBVIOUS
  <2> QED BY <2>1, <2>2, <2>3 DEF StructuresNext
<1> QED
  BY <1>1, <1>2, PTL DEF StructuresSpec, AllocSpec

\* The blocks of a client who also uses the other parts are whole as well.
THEOREM StructuresKeepBlocksWhole ==
  ASSUME Assumptions
  PROVE  StructuresSpec => []HeldBlocksAreWhole
<1>1. AllocSpec => []HeldBlocksAreWhole
  BY BlocksStayWhole
<1> QED
  BY <1>1, StructuresAllocate, PTL

\* Every part keeps its types: the links of a list lead to cells, cursors to strings, an archive object is in one of its modes with as many
\* resources as there may be, and the inputs of a page are told from its tags (liste.c, string.c, memory.c, arch.c, web.c).
THEOREM StructuresKeepTypes ==
  ASSUME Assumptions
  PROVE  StructuresSpec => []StructuresTyped
<1>1. StructuresInit => StructuresInv
  BY StructuresInitInv
<1>2. StructuresInv /\ [StructuresNext]_structuresVars => StructuresInv'
  BY StructuresStepInv
<1>3. StructuresInv /\ AllocTypeOK => StructuresTyped
  BY ArchInvTyped, PageInvTyped DEF StructuresInv, StructuresTyped, ListInv, WordsInv
<1>4. AllocSpec => []AllocTypeOK
  BY TypeCorrect
<1> QED
  BY <1>1, <1>2, <1>3, <1>4, StructuresAllocate, PTL DEF StructuresSpec
=============================================================================
