----------------------------- MODULE LinkedList -----------------------------
(* The chained lists and association lists of liste.c, on a heap of cells.  *)
(* A list is the address of its first cell. Both kinds are the same cells   *)
(* with one datum or two; a datum of an association list is a pair.         *)
EXTENDS Integers, SequencesExt

CONSTANTS Cells,    \* addresses malloc may answer; as many cells as a list may have
          Elems,    \* what the client puts in a list, and the sides of a pair
          NoCell    \* NULL

VARIABLES kind,     \* "list" or "assoc": which of the two kinds this list is
          used,     \* the cells malloc has given out and free has not taken back
          cell,     \* the content of the cells
          list,     \* the first cell, or NoCell
          op        \* the last call and its argument

vars == <<kind, used, cell, list, op>>

Data == Elems \cup (Elems \X Elems)
Positions == -1..(Cardinality(Cells) + 1)

\* What is in a cell that is not in use: nothing a list may depend on.
Blank == [next |-> NoCell, data |-> CHOOSE e \in Elems : TRUE]

\* The cells from c on, as far as they go on (a chain that runs longer than the heap is a ring).
Walk[n \in 0..Cardinality(Cells)] ==
  [c \in Cells \cup {NoCell} |-> IF c = NoCell \/ n = 0 THEN << >> ELSE <<c>> \o Walk[n - 1][cell[c].next]]

Chain == Walk[Cardinality(Cells)][list]
Contents == [i \in DOMAIN Chain |-> cell[Chain[i]].data]

Init ==
  /\ kind \in {"list", "assoc"}
  /\ used = {} /\ list = NoCell
  /\ cell = [c \in Cells |-> Blank]
  /\ op = <<"none">>

-----------------------------------------------------------------------------
(* The operations, for a datum of either kind.                              *)

\* A cell from malloc goes between prev (NoCell: the head) and what follows it.
AddAfter(prev, d) ==
  \E n \in Cells \ used :
    /\ used' = used \cup {n}
    /\ IF prev = NoCell
         THEN /\ list' = n
              /\ cell' = [cell EXCEPT ![n] = [next |-> list, data |-> d]]
         ELSE /\ list' = list
              /\ cell' = [cell EXCEPT ![n] = [next |-> cell[prev].next, data |-> d],
                                      ![prev].next = n]

AddTail(d) == AddAfter(IF list = NoCell THEN NoCell ELSE Last(Chain), d)
AddHead(d) == AddAfter(NoCell, d)

\* Beyond the end is at the end.
AddPos(p, d) ==
  IF p <= 0 \/ list = NoCell THEN AddHead(d)
  ELSE AddAfter(Chain[IF p < Len(Chain) THEN p ELSE Len(Chain)], d)

\* What the cell at position i is linked to when the cells of Gone are out (0: the head).
FirstLeft(i, Gone) ==
  LET left == {j \in DOMAIN Chain : j > i /\ Chain[j] \notin Gone} IN IF left = {} THEN NoCell ELSE Chain[Min(left)]
Position(c) == CHOOSE i \in DOMAIN Chain : Chain[i] = c

\* The cells at those positions of doomed that the list has are freed, and the cells before them linked to what is left.
Unlink(doomed) ==
  LET Gone == {Chain[i] : i \in doomed \cap DOMAIN Chain}
  IN /\ used' = used \ Gone
     /\ list' = FirstLeft(0, Gone)
     /\ cell' = [c \in Cells |-> IF c \in Gone THEN Blank
                                 ELSE IF c \in ToSet(Chain) /\ cell[c].next \in Gone
                                   THEN [cell[c] EXCEPT !.next = FirstLeft(Position(c), Gone)]
                                   ELSE cell[c]]

DelTail == Unlink({Len(Chain)})
DelHead == Unlink({1})
DelPos(p) == Unlink({IF p <= 0 THEN 1 ELSE p + 1})

\* Variant of Doomed that stops at the first one.
DoomedFirst(same) == {i \in DOMAIN Chain : Contents[i] \in same /\ \A j \in 1..(i - 1) : Contents[j] \notin same}

\* The positions deleted by value: the walk goes on behind the cell after a deleted one, so that every other one of a run of
\* equal data is deleted, from the first of the run on.
Doomed(same) ==
  {i \in DOMAIN Chain : \E k \in 1..i :
     /\ \A j \in k..i : Contents[j] \in same
     /\ k > 1 => Contents[k - 1] \notin same
     /\ (i - k) % 2 = 0}

\* Variant of FreeAll that stops at the last cell, as the walks to the tail do.
FreeAllButLast ==
  /\ used' = used \ {c \in ToSet(Chain) : cell[c].next # NoCell} /\ list' = NoCell
  /\ cell' = [c \in Cells |-> Blank]

\* The cells go back to malloc; the address stays with the client, who must drop it.
FreeAll ==
  /\ used' = used \ ToSet(Chain) /\ list' = NoCell
  /\ cell' = [c \in Cells |-> IF c \in ToSet(Chain) THEN Blank ELSE cell[c]]

GetTail == IF list = NoCell THEN << >> ELSE <<Last(Contents)>>
GetPos(p) == LET i == IF p <= 0 THEN 1 ELSE p + 1 IN IF i \in DOMAIN Contents THEN <<Contents[i]>> ELSE << >>
GetLeft(l) == LET i == SelectInSeq(Contents, LAMBDA d : d[1] = l) IN IF i = 0 THEN << >> ELSE <<Contents[i][2]>>

Call(name, arg) == op' = <<name, arg>> /\ UNCHANGED kind
Answer(a) == op' = <<"answer", a>> /\ UNCHANGED <<kind, used, cell, list>>
-----------------------------------------------------------------------------
(* The calls on a list.                                                     *)
AddElementTail == \E e \in Elems : AddTail(e) /\ Call("add", e)
AddElementHead == \E e \in Elems : AddHead(e) /\ Call("add", e)
AddElementPos == \E p \in Positions, e \in Elems : AddPos(p, e) /\ Call("add", e)
DelElementElem == \E e \in Elems : Unlink(Doomed({e})) /\ Call("delete", e)
DelElementTail == DelTail /\ Call("tail", 0)
DelElementHead == DelHead /\ Call("head", 0)
DelElementPos == \E p \in Positions : DelPos(p) /\ Call("pos", p)
GetElementTail == Answer(GetTail)
GetElementHead == Answer(GetPos(0))
GetElementPos == \E p \in Positions : Answer(GetPos(p))
FreeList == FreeAll /\ Call("free", 0)
FreeListElem == FreeAll /\ Call("free_data", Contents)
ListCount == Answer(Len(Chain))

(* The calls on an association list.                                        *)
AddAssocTail == \E l, r \in Elems : AddTail(<<l, r>>) /\ Call("add", <<l, r>>)
AddAssocHead == \E l, r \in Elems : AddHead(<<l, r>>) /\ Call("add", <<l, r>>)
AddAssocPos == \E p \in Positions, l, r \in Elems : AddPos(p, <<l, r>>) /\ Call("add", <<l, r>>)
DelAssocLeft == \E l \in Elems : Unlink(Doomed({d \in Data : d[1] = l})) /\ Call("delete", l)
DelAssocTail == DelTail /\ Call("tail", 0)
DelAssocHead == DelHead /\ Call("head", 0)
DelAssocPos == \E p \in Positions : DelPos(p) /\ Call("pos", p)
GetAssocTail == Answer(GetTail)
GetAssocHead == Answer(GetPos(0))
GetAssocPos == \E p \in Positions : Answer(GetPos(p))
GetAssocLeft == \E l \in Elems : Answer(GetLeft(l))
FreeAssoc == FreeAll /\ Call("free", 0)
FreeAssocAssoc == FreeAll /\ Call("free_data", Contents)
AssocCount == Answer(Len(Chain))

ListNext ==
  \/ AddElementTail \/ AddElementHead \/ AddElementPos
  \/ DelElementElem \/ DelElementTail \/ DelElementHead \/ DelElementPos
  \/ GetElementTail \/ GetElementHead \/ GetElementPos
  \/ FreeList \/ FreeListElem \/ ListCount
AssocNext ==
  \/ AddAssocTail \/ AddAssocHead \/ AddAssocPos
  \/ DelAssocLeft \/ DelAssocTail \/ DelAssocHead \/ DelAssocPos
  \/ GetAssocTail \/ GetAssocHead \/ GetAssocPos \/ GetAssocLeft
  \/ FreeAssoc \/ FreeAssocAssoc \/ AssocCount
Next == (kind = "list" /\ ListNext) \/ (kind = "assoc" /\ AssocNext)
-----------------------------------------------------------------------------
TypeOK ==
  /\ kind \in {"list", "assoc"} /\ used \subseteq Cells /\ list \in Cells \cup {NoCell}
  /\ cell \in [Cells -> [next : Cells \cup {NoCell}, data : Data]]

\* The list reaches every cell that was allocated for it and no cell that was freed, and ends: nothing leaks, nothing dangles, no ring.
NoCellLost ==
  /\ ToSet(Chain) = used
  /\ Chain # << >> => cell[Last(Chain)].next = NoCell

\* What one call leaves in the list keeps its order and its data, whatever was added or removed around it. A removal by value takes out
\* all that match but those right behind one taken out, and nothing that does not match.
Matches(d, v) == IF kind = "list" THEN d = v ELSE d[1] = v
Survivors ==
  /\ \A c, d \in used \cap used' : Position(c) < Position(d) => Position(c)' < Position(d)'
  /\ \A c \in used \cap used' : cell'[c].data = cell[c].data
  /\ op'[1] = "delete" => \A i \in DOMAIN Chain :
       /\ Matches(Contents[i], op'[2]) /\ (i > 1 => ~Matches(Contents[i - 1], op'[2])) => Chain[i] \notin used'
       /\ ~Matches(Contents[i], op'[2]) => Chain[i] \in used'
SurvivorsKeepOrder == [][Survivors]_vars
=============================================================================
