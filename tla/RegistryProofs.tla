--------------------------- MODULE RegistryProofs ---------------------------
(***************************************************************************)
(* The registry of the unix build, for any keys, names and values: its     *)
(* tree is one, in memory and in the file, and for a program that keeps to *)
(* the rules (Careful) it is the map of KeyStore.                          *)
(*                                                                         *)
(* The first half is about trees: what the searches find and what each     *)
(* change leaves.  IInv puts together the types (Shape, LastOK) and that   *)
(* both trees are attached and, for a careful program, unshadowed          *)
(* (TreesOK).  The second half maps each step to one of KeyStore, with     *)
(* lemmas that tell the entries of a changed tree from those before.       *)
(***************************************************************************)
EXTENDS Registry, SequenceTheorems, FiniteSetTheorems, TLAPS

Entries == [name : Names, value : Values]
Trees == [keys : SUBSET Paths, values : [Paths -> Seq(Entries)]]

-----------------------------------------------------------------------------
(* Searches.                                                               *)

\* A set of numbers has a least one: if not, what is below all of it has room for its own
\* successors.
LEMMA LeastExists ==
  ASSUME NEW T, T \subseteq Nat, T # {}
  PROVE  \E i \in T : \A j \in T : i <= j
<1> SUFFICES ASSUME \A i \in T : \E j \in T : j < i
             PROVE  FALSE
  OBVIOUS
<1> DEFINE L == {n \in Nat : \A i \in T : n < i}
           f == [n \in L |-> n + 1]
<1>1. PICK k \in T : TRUE
  OBVIOUS
<1>2. 0 \in L
  OBVIOUS
<1>3. ASSUME NEW n \in L PROVE n + 1 \in L \ {0}
  <2>1. n \in Nat /\ \A i \in T : n < i
    OBVIOUS
  <2>2. \A i \in T : n + 1 <= i
    BY <2>1
  <2>3. \A i \in T : n + 1 < i
    BY <2>1, <2>2
  <2>4. QED
    BY <2>1, <2>3
<1>4. IsFiniteSet(L) /\ Cardinality(L) \in Nat
  <2>1. L \in SUBSET (0..k)
    BY <1>1
  <2>2. IsFiniteSet(0..k)
    BY <1>1, FS_Interval
  <2>3. QED
    BY <2>1, <2>2, FS_Subset, FS_CardinalityType
<1>5. IsFiniteSet(L \ {0}) /\ Cardinality(L \ {0}) < Cardinality(L)
  BY <1>2, <1>4, FS_RemoveElement
<1>6. f \in [L -> L \ {0}]
  BY <1>3
<1>7. \E m, n \in L : m # n /\ f[m] = f[n]
  <2> HIDE DEF f, L
  <2>1. QED
    BY <1>4, <1>5, <1>6, FS_PigeonHole
<1>8. QED
  BY <1>7

\* The search for a name stops at a place of that name.
LEMMA FirstIsPlace ==
  ASSUME NEW t \in Trees, NEW path \in Paths, NEW name, Places(t, path, name) # {}
  PROVE  /\ FirstOf(t, path, name) \in 1..Len(t.values[path])
         /\ t.values[path][FirstOf(t, path, name)].name = name
         /\ \A j \in Places(t, path, name) : FirstOf(t, path, name) <= j
<1>1. t.values[path] \in Seq(Entries) /\ DOMAIN t.values[path] = 1..Len(t.values[path])
  BY DEF Trees
<1>2. Places(t, path, name) \subseteq Nat
  BY <1>1 DEF Places
<1>3. \E i \in Places(t, path, name) : \A j \in Places(t, path, name) : i <= j
  BY <1>2, LeastExists
<1>4. /\ FirstOf(t, path, name) \in Places(t, path, name)
      /\ \A j \in Places(t, path, name) : FirstOf(t, path, name) <= j
  BY <1>3 DEF FirstOf
<1>5. QED
  BY <1>1, <1>4 DEF Places

LEMMA FoundIsValue ==
  ASSUME NEW t \in Trees, NEW path \in Paths, NEW name, Has(t, path, name)
  PROVE  Found(t, path, name) \in Values
<1>1. t.values[path] \in Seq(Entries) /\ FirstOf(t, path, name) \in 1..Len(t.values[path])
  BY FirstIsPlace DEF Has, Trees
<1>2. t.values[path][FirstOf(t, path, name)] \in Entries
  BY <1>1, ElementOfSeq
<1>3. QED
  BY <1>2 DEF Found, Entries

\* Where a name has one place, the search finds it.
LEMMA OnlyPlaceIsFirst ==
  ASSUME NEW t \in Trees, NEW path \in Paths, NEW i \in 1..Len(t.values[path]),
         \A j \in 1..Len(t.values[path]) : t.values[path][j].name = t.values[path][i].name => j = i
  PROVE  FirstOf(t, path, t.values[path][i].name) = i
<1>1. DOMAIN t.values[path] = 1..Len(t.values[path])
  BY DEF Trees
<1>2. i \in Places(t, path, t.values[path][i].name)
  BY <1>1 DEF Places
<1>3. QED
  BY <1>2, FirstIsPlace

-----------------------------------------------------------------------------
(* Sequences.                                                              *)

LEMMA RemoveAtProperties ==
  ASSUME NEW S, NEW s \in Seq(S), NEW i \in 1..Len(s)
  PROVE  /\ RemoveAt(s, i) \in Seq(S)
         /\ Len(RemoveAt(s, i)) = Len(s) - 1
         /\ \A j \in 1..(Len(s) - 1) : RemoveAt(s, i)[j] = IF j < i THEN s[j] ELSE s[j + 1]
<1> DEFINE a == SubSeq(s, 1, i - 1)
           b == SubSeq(s, i + 1, Len(s))
<1>1. \A j \in 1..Len(s) : s[j] \in S
  BY ElementOfSeq
<1>2. Len(s) \in Nat
  BY LenProperties
<1>3. /\ a \in Seq(S) /\ Len(a) = i - 1
      /\ \A j \in 1..(i - 1) : a[j] = s[j]
  <2>1. \A j \in 1..(i - 1) : s[j] \in S
    BY <1>1, <1>2
  <2>2. /\ a \in Seq(S) /\ Len(a) = IF 1 <= i - 1 THEN (i - 1) - 1 + 1 ELSE 0
        /\ \A j \in 1..((i - 1) - 1 + 1) : a[j] = s[1 + j - 1]
    BY <1>2, <2>1, SubSeqProperties
  <2>3. QED
    BY <1>2, <2>2
<1>4. /\ b \in Seq(S) /\ Len(b) = Len(s) - i
      /\ \A j \in 1..(Len(s) - i) : b[j] = s[i + j]
  <2>1. \A j \in (i + 1)..Len(s) : s[j] \in S
    BY <1>1, <1>2
  <2>2. /\ b \in Seq(S) /\ Len(b) = IF i + 1 <= Len(s) THEN Len(s) - (i + 1) + 1 ELSE 0
        /\ \A j \in 1..(Len(s) - (i + 1) + 1) : b[j] = s[(i + 1) + j - 1]
    BY <1>2, <2>1, SubSeqProperties
  <2>3. QED
    BY <1>2, <2>2
<1>5. RemoveAt(s, i) = a \o b
  BY DEF RemoveAt
<1> HIDE DEF a, b
<1>6. /\ a \o b \in Seq(S) /\ Len(a \o b) = Len(a) + Len(b)
      /\ \A j \in 1..(Len(a) + Len(b)) : (a \o b)[j] = IF j <= Len(a) THEN a[j] ELSE b[j - Len(a)]
  BY <1>3, <1>4, ConcatProperties
<1>7. ASSUME NEW j \in 1..(Len(s) - 1)
      PROVE  (a \o b)[j] = IF j < i THEN s[j] ELSE s[j + 1]
  <2>1. Len(a) = i - 1 /\ Len(b) = Len(s) - i /\ j \in 1..(Len(a) + Len(b))
    BY <1>2, <1>3, <1>4
  <2>2. CASE j < i
    <3>1. (a \o b)[j] = a[j]
      BY <1>2, <1>6, <2>1, <2>2
    <3>2. a[j] = s[j]
      BY <1>2, <1>3, <2>2
    <3>3. QED
      BY <2>2, <3>1, <3>2
  <2>3. CASE ~(j < i)
    <3>1. (a \o b)[j] = b[j - (i - 1)]
      BY <1>2, <1>6, <2>1, <2>3
    <3>2. j - (i - 1) \in 1..(Len(s) - i) /\ i + (j - (i - 1)) = j + 1
      BY <1>2, <2>3
    <3>3. b[j - (i - 1)] = s[j + 1]
      BY <1>4, <3>2
    <3>4. QED
      BY <2>3, <3>1, <3>3
  <2>4. QED
    BY <2>2, <2>3
<1>8. QED
  BY <1>2, <1>3, <1>4, <1>5, <1>6, <1>7

\* The keys on the way to a key.
LEMMA WayProperties ==
  ASSUME NEW path \in Paths
  PROVE  /\ path \in Seq(STRING) /\ Len(path) \in Nat \ {0}
         /\ path \in Way(path) /\ Way(path) \subseteq Paths
         /\ \A n \in 1..Len(path) : Len(SubSeq(path, 1, n)) = n
         /\ \A q \in Way(path) : Way(q) \subseteq Way(path)
         /\ \A q \in Paths : IsPrefix(q, path) <=> q \in Way(path)
<1>1. path \in Seq(STRING) /\ Len(path) \in Nat \ {0}
  BY RegistryAssumption, EmptySeq DEF Paths
<1>2. ASSUME NEW n \in 1..Len(path)
      PROVE  Len(SubSeq(path, 1, n)) = n /\ SubSeq(path, 1, n) \in Seq(STRING)
  <2>1. \A i \in 1..n : path[i] \in STRING
    BY <1>1, ElementOfSeq
  <2>2. QED
    BY <1>1, <2>1, SubSeqProperties
<1>3. path \in Way(path)
  BY <1>1, SubSeqFull DEF Way
<1>4. ASSUME NEW n \in 1..Len(path) PROVE SubSeq(path, 1, n) \in Paths
  <2>1. SubSeq(path, 1, n) # << >>
    BY <1>1, <1>2, EmptySeq
  <2>2. QED
    BY <2>1, RegistryAssumption DEF Paths
<1>5. ASSUME NEW n \in 1..Len(path), NEW m \in 1..n
      PROVE  SubSeq(SubSeq(path, 1, n), 1, m) = SubSeq(path, 1, m)
  <2>1. SubSeq(SubSeq(path, 1, n), 1, m) = SubSeq(path, 1 + 1 - 1, 1 + m - 1)
    BY <1>1, SubSeqOfSubSeq
  <2>2. QED
    BY <1>1, <2>1
<1>6. ASSUME NEW q \in Way(path) PROVE Way(q) \subseteq Way(path)
  <2>1. PICK n \in 1..Len(path) : q = SubSeq(path, 1, n)
    BY DEF Way
  <2>2. Len(q) = n
    BY <1>2, <2>1
  <2>3. ASSUME NEW m \in 1..n PROVE SubSeq(q, 1, m) \in Way(path)
    <3>1. SubSeq(q, 1, m) = SubSeq(path, 1, m) /\ m \in 1..Len(path)
      BY <1>1, <1>5, <2>1
    <3>2. QED
      BY <3>1 DEF Way
  <2>4. QED
    BY <2>2, <2>3 DEF Way
<1>7. ASSUME NEW q \in Paths PROVE IsPrefix(q, path) <=> q \in Way(path)
  <2>1. q \in Seq(STRING) /\ Len(q) \in Nat \ {0} /\ SubSeq(q, 1, Len(q)) = q
    BY RegistryAssumption, EmptySeq, SubSeqFull DEF Paths
  <2>2. ASSUME IsPrefix(q, path) PROVE q \in Way(path)
    <3>1. Len(q) \in 1..Len(path) /\ q = SubSeq(path, 1, Len(q))
      BY <1>1, <2>1, <2>2 DEF IsPrefix
    <3>2. QED
      BY <3>1 DEF Way
  <2>3. ASSUME NEW n \in 1..Len(path), q = SubSeq(path, 1, n) PROVE IsPrefix(q, path)
    BY <1>1, <1>2, <2>1, <2>3 DEF IsPrefix
  <2>4. QED
    BY <2>2, <2>3 DEF Way
<1>8. QED
  BY <1>1, <1>2, <1>3, <1>4, <1>6, <1>7 DEF Way

-----------------------------------------------------------------------------
(* The changes of a tree.                                                  *)

\* No key without its parent, no value without its key.
Attached(t) ==
  /\ \A path \in t.keys : Way(path) \subseteq t.keys
  /\ \A path \in Paths : t.values[path] # << >> => path \in t.keys

\* No name twice in a key.
Unshadowed(t) ==
  \A path \in Paths : \A i, j \in 1..Len(t.values[path]) :
    t.values[path][i].name = t.values[path][j].name => i = j

\* A setter that writes over the value of a name changes nothing but that value.
LEMMA SetInPlace ==
  ASSUME NEW s \in Seq(Entries), NEW i \in 1..Len(s), NEW v \in Values
  PROVE  /\ [s EXCEPT ![i].value = v] \in Seq(Entries)
         /\ Len([s EXCEPT ![i].value = v]) = Len(s)
         /\ \A j \in 1..Len(s) :
              /\ [s EXCEPT ![i].value = v][j].name = s[j].name
              /\ [s EXCEPT ![i].value = v][j].value = IF j = i THEN v ELSE s[j].value
<1>1. \A j \in 1..Len(s) : s[j] \in Entries
  BY ElementOfSeq
<1> DEFINE e == [s[i] EXCEPT !.value = v]
<1>2. e \in Entries /\ e.name = s[i].name /\ e.value = v
  BY <1>1 DEF Entries
<1>3. [s EXCEPT ![i].value = v] = [s EXCEPT ![i] = e]
  OBVIOUS
<1> HIDE DEF e
<1>4. /\ [s EXCEPT ![i] = e] \in Seq(Entries)
      /\ Len([s EXCEPT ![i] = e]) = Len(s)
      /\ \A j \in 1..Len(s) : [s EXCEPT ![i] = e][j] = IF j = i THEN e ELSE s[j]
  BY <1>2, ExceptSeq
<1>5. QED
  BY <1>2, <1>3, <1>4

\* The values of a key, in the terms of the library of sequences.
LEMMA ValuesOfKey ==
  ASSUME NEW t \in Trees, NEW path \in Paths
  PROVE  /\ t.values[path] \in Seq(Entries) /\ Len(t.values[path]) \in Nat
         /\ DOMAIN t.values[path] = 1..Len(t.values[path])
         /\ \A i \in 1..Len(t.values[path]) :
              /\ t.values[path][i].name \in Names /\ t.values[path][i].value \in Values
<1>1. t.values[path] \in Seq(Entries)
  BY DEF Trees
<1>2. \A i \in 1..Len(t.values[path]) : t.values[path][i] \in Entries
  BY <1>1, ElementOfSeq
<1>3. QED
  BY <1>1, <1>2, LenProperties DEF Entries

\* The tree a setter leaves: the value is written over the one found first, or added.
LEMMA WithValueForms ==
  ASSUME NEW t \in Trees, NEW path \in Paths, NEW name \in Names, NEW v \in Values
  PROVE  LET s == t.values[path]
             i == FirstOf(t, path, name)
             u == WithValue(t, path, name, v)
         IN  /\ u \in Trees /\ u.keys = t.keys \cup Way(path)
             /\ \A p \in Paths \ {path} : u.values[p] = t.values[p]
             /\ Reusable(t, path, name) =>
                  /\ i \in 1..Len(s) /\ s[i].name = name
                  /\ Len(u.values[path]) = Len(s)
                  /\ \A j \in 1..Len(s) :
                       /\ u.values[path][j].name = s[j].name
                       /\ u.values[path][j].value = IF j = i THEN v ELSE s[j].value
             /\ ~Reusable(t, path, name) =>
                  /\ Len(u.values[path]) = Len(s) + 1
                  /\ \A j \in 1..Len(s) : u.values[path][j] = s[j]
                  /\ u.values[path][Len(s) + 1] = [name |-> name, value |-> v]
<1> DEFINE s == t.values[path]
           i == FirstOf(t, path, name)
           keys == t.keys \cup Way(path)
           u == WithValue(t, path, name, v)
<1>1. s \in Seq(Entries) /\ Len(s) \in Nat
  BY ValuesOfKey
<1>2. keys \in SUBSET Paths
  BY WayProperties DEF Trees
<1>3. CASE Reusable(t, path, name)
  <2>1. i \in 1..Len(s) /\ s[i].name = name
    BY <1>3, FirstIsPlace DEF Reusable, Has
  <2> DEFINE r == [s EXCEPT ![i].value = v]
  <2>2. u = [keys |-> keys, values |-> [t.values EXCEPT ![path] = r]]
    BY <1>3 DEF WithValue
  <2>3. r \in Seq(Entries)
    BY <1>1, <2>1, SetInPlace
  <2>4. /\ u \in Trees /\ u.keys = keys
        /\ \A p \in Paths : u.values[p] = IF p = path THEN r ELSE t.values[p]
    <3> HIDE DEF r, u, keys, s
    <3>1. QED
      BY <1>2, <2>2, <2>3 DEF Trees
  <2>5. /\ Len(r) = Len(s)
        /\ \A j \in 1..Len(s) : r[j].name = s[j].name /\ r[j].value = IF j = i THEN v ELSE s[j].value
    BY <1>1, <2>1, SetInPlace
  <2> HIDE DEF i, keys, r, u
  <2>6. u.values[path] = r
    BY <2>4
  <2>7. /\ Len(u.values[path]) = Len(s)
        /\ \A j \in 1..Len(s) :
             /\ u.values[path][j].name = s[j].name
             /\ u.values[path][j].value = IF j = i THEN v ELSE s[j].value
    BY <2>5, <2>6
  <2>8. QED
    BY <1>3, <2>1, <2>4, <2>7 DEF i, keys, u
<1>4. CASE ~Reusable(t, path, name)
  <2> DEFINE e == [name |-> name, value |-> v]
  <2>1. e \in Entries
    BY DEF Entries
  <2>2. u = [keys |-> keys, values |-> [t.values EXCEPT ![path] = Append(s, e)]]
    BY <1>4 DEF WithValue
  <2>3. /\ Append(s, e) \in Seq(Entries) /\ Len(Append(s, e)) = Len(s) + 1
        /\ \A j \in 1..Len(s) : Append(s, e)[j] = s[j]
        /\ Append(s, e)[Len(s) + 1] = e
    BY <1>1, <2>1, AppendProperties
  <2>4. /\ u \in Trees /\ u.keys = keys
        /\ \A p \in Paths : u.values[p] = IF p = path THEN Append(s, e) ELSE t.values[p]
    <3> HIDE DEF e, u, keys, s
    <3>1. QED
      BY <1>2, <2>2, <2>3 DEF Trees
  <2> HIDE DEF e, keys, u
  <2>5. QED
    BY <1>4, <2>3, <2>4 DEF e, keys, u
<1>5. QED
  BY <1>3, <1>4

LEMMA WithValueKeeps ==
  ASSUME NEW t \in Trees, Attached(t), NEW path \in Paths, NEW name \in Names, NEW v \in Values
  PROVE  /\ WithValue(t, path, name, v) \in Trees /\ Attached(WithValue(t, path, name, v))
         /\ Unshadowed(t) /\ (Has(t, path, name) => Found(t, path, name).type = "str")
              => Unshadowed(WithValue(t, path, name, v))
<1> DEFINE s == t.values[path]
           i == FirstOf(t, path, name)
           u == WithValue(t, path, name, v)
<1>1. /\ u \in Trees /\ u.keys = t.keys \cup Way(path)
      /\ \A p \in Paths \ {path} : u.values[p] = t.values[p]
      /\ Reusable(t, path, name) =>
           /\ i \in 1..Len(s) /\ s[i].name = name
           /\ Len(u.values[path]) = Len(s)
           /\ \A j \in 1..Len(s) : u.values[path][j].name = s[j].name
      /\ ~Reusable(t, path, name) =>
           /\ Len(u.values[path]) = Len(s) + 1
           /\ \A j \in 1..Len(s) : u.values[path][j] = s[j]
           /\ u.values[path][Len(s) + 1] = [name |-> name, value |-> v]
  BY WithValueForms
<1>2. Attached(u)
  <2>1. path \in Way(path) /\ \A p \in Way(path) : Way(p) \subseteq Way(path)
    BY WayProperties
  <2> HIDE DEF u
  <2>2. \A p \in Paths : p # path => (u.values[p] # << >> => p \in t.keys)
    BY <1>1 DEF Attached
  <2>3. QED
    BY <1>1, <2>1, <2>2 DEF Attached
<1>3. ASSUME Unshadowed(t), Has(t, path, name) => Found(t, path, name).type = "str"
      PROVE  Unshadowed(u)
  <2>1. Len(s) \in Nat /\ DOMAIN s = 1..Len(s)
    BY ValuesOfKey
  <2>2. \A j, k \in 1..Len(s) : s[j].name = s[k].name => j = k
    BY <1>3 DEF Unshadowed
  <2>3. ~Reusable(t, path, name) => \A j \in 1..Len(s) : s[j].name # name
    <3>1. ~Reusable(t, path, name) => ~Has(t, path, name)
      BY <1>3 DEF Reusable
    <3>2. path \notin t.keys => s = << >>
      BY DEF Attached
    <3>3. s = << >> => Len(s) = 0
      BY EmptySeq
    <3>4. QED
      BY <2>1, <3>1, <3>2, <3>3 DEF Has, Places
  <2>4. ASSUME NEW j \in 1..Len(u.values[path]), NEW k \in 1..Len(u.values[path]),
               u.values[path][j].name = u.values[path][k].name
        PROVE  j = k
    <3> HIDE DEF u, s, i
    <3>1. CASE Reusable(t, path, name)
      BY <1>1, <2>2, <2>4, <3>1
    <3>2. CASE ~Reusable(t, path, name)
      <4>1. /\ j = Len(s) + 1 \/ (j \in 1..Len(s) /\ u.values[path][j].name # name)
            /\ k = Len(s) + 1 \/ (k \in 1..Len(s) /\ u.values[path][k].name # name)
        BY <1>1, <2>1, <2>3, <3>2
      <4>2. u.values[path][Len(s) + 1].name = name
        BY <1>1, <3>2
      <4>3. QED
        BY <1>1, <2>2, <2>4, <3>2, <4>1, <4>2
    <3>3. QED
      BY <3>1, <3>2
  <2>5. QED
    <3> HIDE DEF u
    <3>1. \A p \in Paths : p # path => u.values[p] = t.values[p]
      BY <1>1
    <3>2. QED
      BY <1>3, <2>4, <3>1 DEF Unshadowed
<1>4. QED
  BY <1>1, <1>2, <1>3

\* The tree a deletion leaves: the values behind the deleted one move up.
LEMMA WithoutValueForms ==
  ASSUME NEW t \in Trees, NEW path \in Paths, NEW name, Has(t, path, name)
  PROVE  LET s == t.values[path]
             i == FirstOf(t, path, name)
             u == WithoutValue(t, path, name)
         IN  /\ i \in 1..Len(s) /\ s[i].name = name
             /\ u \in Trees /\ u.keys = t.keys
             /\ \A p \in Paths \ {path} : u.values[p] = t.values[p]
             /\ Len(u.values[path]) = Len(s) - 1
             /\ \A j \in 1..(Len(s) - 1) : u.values[path][j] = IF j < i THEN s[j] ELSE s[j + 1]
<1> DEFINE s == t.values[path]
           i == FirstOf(t, path, name)
           r == RemoveAt(s, i)
           u == WithoutValue(t, path, name)
<1>1. s \in Seq(Entries) /\ i \in 1..Len(s) /\ s[i].name = name
  BY ValuesOfKey, FirstIsPlace DEF Has
<1>2. /\ r \in Seq(Entries) /\ Len(r) = Len(s) - 1
      /\ \A j \in 1..(Len(s) - 1) : r[j] = IF j < i THEN s[j] ELSE s[j + 1]
  BY <1>1, RemoveAtProperties
<1>3. u = [t EXCEPT !.values = [t.values EXCEPT ![path] = r]]
  BY DEF WithoutValue
<1>4. /\ u \in Trees /\ u.keys = t.keys
      /\ \A p \in Paths : u.values[p] = IF p = path THEN r ELSE t.values[p]
  <2> HIDE DEF u, r
  <2>1. QED
    BY <1>2, <1>3 DEF Trees
<1> HIDE DEF r, u
<1>5. QED
  BY <1>1, <1>2, <1>4 DEF u

LEMMA WithoutValueKeeps ==
  ASSUME NEW t \in Trees, Attached(t), NEW path \in Paths, NEW name, Has(t, path, name)
  PROVE  /\ WithoutValue(t, path, name) \in Trees /\ Attached(WithoutValue(t, path, name))
         /\ Unshadowed(t) => Unshadowed(WithoutValue(t, path, name))
<1> DEFINE s == t.values[path]
           i == FirstOf(t, path, name)
           u == WithoutValue(t, path, name)
<1>1. /\ i \in 1..Len(s) /\ u \in Trees /\ u.keys = t.keys
      /\ \A p \in Paths \ {path} : u.values[p] = t.values[p]
      /\ Len(u.values[path]) = Len(s) - 1
      /\ \A j \in 1..(Len(s) - 1) : u.values[path][j] = IF j < i THEN s[j] ELSE s[j + 1]
  BY WithoutValueForms
<1>2. path \in t.keys /\ Len(s) \in Nat
  BY ValuesOfKey DEF Has
<1> HIDE DEF i, u
<1>3. Attached(u)
  BY <1>1, <1>2 DEF Attached
<1>4. ASSUME Unshadowed(t) PROVE Unshadowed(u)
  <2>1. \A j, k \in 1..Len(s) : s[j].name = s[k].name => j = k
    BY <1>4 DEF Unshadowed
  <2>2. ASSUME NEW j \in 1..(Len(s) - 1), NEW k \in 1..(Len(s) - 1),
               u.values[path][j].name = u.values[path][k].name
        PROVE  j = k
    <3> HIDE DEF s
    <3> DEFINE at(m) == IF m < i THEN m ELSE m + 1
    <3>1. \A m \in 1..(Len(s) - 1) : at(m) \in 1..Len(s) /\ u.values[path][m] = s[at(m)]
      BY <1>1, <1>2
    <3>2. at(j) = at(k)
      BY <2>1, <2>2, <3>1
    <3>3. QED
      BY <1>1, <1>2, <3>2
  <2>3. QED
    BY <1>1, <1>4, <2>2 DEF Unshadowed
<1>5. QED
  BY <1>1, <1>3, <1>4 DEF u

LEMMA WithoutKeyKeeps ==
  ASSUME NEW t \in Trees, Attached(t), NEW path \in Paths
  PROVE  /\ WithoutKey(t, path) \in Trees /\ Attached(WithoutKey(t, path))
         /\ Unshadowed(t) => Unshadowed(WithoutKey(t, path))
<1> DEFINE u == WithoutKey(t, path)
<1>1. /\ u \in Trees /\ u.keys = t.keys \ Below(path)
      /\ \A p \in Paths : u.values[p] = IF p \in Below(path) THEN << >> ELSE t.values[p]
  <2>1. << >> \in Seq(Entries)
    BY EmptySeq
  <2>2. QED
    BY <2>1 DEF WithoutKey, Trees
<1> HIDE DEF u
<1>2. \A p \in Paths : p \in Below(path) <=> path \in Way(p)
  BY WayProperties DEF Below
<1>3. \A p \in Paths : \A q \in Way(p) : q \in Below(path) => p \in Below(path)
  BY <1>2, WayProperties
<1>4. Attached(u)
  <2>1. t.keys \subseteq Paths
    BY DEF Trees
  <2>2. \A p \in u.keys : Way(p) \subseteq u.keys
    BY <1>1, <1>3, <2>1 DEF Attached
  <2>3. QED
    BY <1>1, <2>2 DEF Attached
<1>5. Unshadowed(t) => Unshadowed(u)
  BY <1>1, EmptySeq DEF Unshadowed
<1>6. QED
  BY <1>1, <1>4, <1>5 DEF u

LEMMA MoreKeysKeep ==
  ASSUME NEW t \in Trees, Attached(t), NEW path \in Paths
  PROVE  LET u == [t EXCEPT !.keys = @ \cup Way(path)]
         IN  /\ u \in Trees /\ u.keys = t.keys \cup Way(path) /\ u.values = t.values
             /\ Attached(u) /\ (Unshadowed(t) => Unshadowed(u))
<1> DEFINE u == [t EXCEPT !.keys = @ \cup Way(path)]
<1>1. u \in Trees /\ u.keys = t.keys \cup Way(path) /\ u.values = t.values
  BY WayProperties DEF Trees
<1>2. \A p \in Way(path) : Way(p) \subseteq Way(path)
  BY WayProperties
<1> HIDE DEF u
<1>3. Attached(u) /\ (Unshadowed(t) => Unshadowed(u))
  BY <1>1, <1>2 DEF Attached, Unshadowed
<1>4. QED
  BY <1>1, <1>3 DEF u

LEMMA EmptyTreeIsTree ==
  EmptyTree \in Trees /\ Attached(EmptyTree) /\ Unshadowed(EmptyTree)
  BY EmptySeq DEF EmptyTree, Trees, Attached, Unshadowed

-----------------------------------------------------------------------------
(* The inductive invariant.                                                *)

Disks == [state : {"absent", "empty", "whole"}, tree : Trees]

LastOK == last.call \in Calls /\ last.ok \in BOOLEAN /\ last.value \in Values \cup {None}

Shape ==
  /\ root \in BOOLEAN /\ loaded \in BOOLEAN /\ undefined \in BOOLEAN
  /\ regFile \in {"null", "open", "closed"}
  /\ tree \in Trees /\ disk \in Disks
  /\ disk.state # "whole" => disk.tree = EmptyTree
  /\ ~root => tree = EmptyTree
  /\ IsOpen => root

TreesOK ==
  /\ Attached(tree) /\ Attached(disk.tree)
  /\ Careful => Unshadowed(tree) /\ Unshadowed(disk.tree)

IInv == Shape /\ LastOK /\ TreesOK

\* What the file holds once the registry is closed.
LEMMA FlushedIs ==
  ASSUME Shape
  PROVE  /\ Flushed \in Disks /\ Flushed.tree = IF IsOpen THEN tree ELSE disk.tree
         /\ Flushed.state # "whole" => Flushed.tree = EmptyTree /\ Flushed = disk /\ ~IsOpen
         /\ [Flushed EXCEPT !.state = "empty"] \in Disks
         /\ [Flushed EXCEPT !.state = "empty"].state = "empty"
         /\ [Flushed EXCEPT !.state = "empty"].tree = Flushed.tree
<1>1. CASE IsOpen
  <2>1. Flushed = [state |-> "whole", tree |-> tree]
    BY <1>1 DEF Flushed
  <2>2. QED
    BY <1>1, <2>1 DEF Shape, Disks
<1>2. CASE ~IsOpen
  <2>1. Flushed = disk
    BY <1>2 DEF Flushed
  <2>2. QED
    BY <1>2, <2>1 DEF Shape, Disks
<1>3. QED
  BY <1>1, <1>2

\* Told of a call, and what it told.
LEMMA ToldIsOK ==
  ASSUME NEW call \in Calls, NEW ok \in BOOLEAN, NEW value \in Values \cup {None},
         last' = Told(call, ok, value)
  PROVE  LastOK'
  BY DEF Told, LastOK

LEMMA CallsAre ==
  /\ <<"open">> \in Calls /\ <<"close">> \in Calls /\ <<"exit">> \in Calls
  /\ \A path \in Keys, name \in Names :
       /\ \A value \in Values : <<"set", path, name, value>> \in Calls
       /\ \A type \in {"str", "int"} : <<"get", path, name, type>> \in Calls
       /\ <<"delvalue", path, name>> \in Calls
  /\ \A path \in Keys : <<"createkeys", path>> \in Calls
  /\ \A path \in Paths : <<"delkey", path>> \in Calls
  BY DEF Calls

\* What opening, closing and the end of the program do to the trees: the one in memory is
\* new, or the one of the file, which is what was in the file or in memory.
LEMMA FileStep ==
  ASSUME Shape, LastOK, OpenRegistry \/ CloseRegistry \/ Exit
  PROVE  /\ Shape' /\ LastOK'
         /\ tree' \in {tree, disk.tree, EmptyTree} /\ disk'.tree \in {tree, disk.tree}
<1>1. CASE UseUnopened
  BY <1>1 DEF UseUnopened, Shape, LastOK, IsOpen
<1>2. CASE OpenNoPath /\ root' = TRUE /\ UNCHANGED undefined
  <2>1. LastOK'
    BY <1>2, CallsAre, ToldIsOK DEF OpenNoPath
  <2>2. QED
    BY <1>2, <2>1, FlushedIs, EmptyTreeIsTree DEF OpenNoPath, Shape, IsOpen
<1>3. CASE OpenNoLock /\ root' = TRUE /\ UNCHANGED undefined
  <2>1. LastOK'
    BY <1>3, CallsAre, ToldIsOK DEF OpenNoLock
  <2>2. QED
    BY <1>3, <2>1, FlushedIs, EmptyTreeIsTree DEF OpenNoLock, Shape, IsOpen
<1>4. CASE OpenNew /\ root' = TRUE /\ UNCHANGED undefined
  <2>1. LastOK'
    BY <1>4, CallsAre, ToldIsOK DEF OpenNew
  <2>2. QED
    BY <1>4, <2>1, FlushedIs, EmptyTreeIsTree DEF OpenNew, Shape, IsOpen
<1>5. CASE OpenLoad /\ root' = TRUE /\ UNCHANGED undefined
  <2>1. loaded' \in BOOLEAN
    BY <1>5 DEF OpenLoad
  <2>2. LastOK'
    BY <1>5, <2>1, CallsAre, ToldIsOK DEF OpenLoad
  <2>3. QED
    BY <1>5, <2>1, <2>2, FlushedIs DEF OpenLoad, Shape, IsOpen, Disks
<1>6. CASE CloseRegistry /\ ~UseUnopened
  <2>1. LastOK'
    BY <1>6, CallsAre, ToldIsOK DEF CloseRegistry
  <2>2. QED
    BY <1>6, <2>1, FlushedIs, EmptyTreeIsTree DEF CloseRegistry, Shape, IsOpen
<1>7. CASE Exit
  <2>1. LastOK'
    BY <1>7, CallsAre, ToldIsOK DEF Exit
  <2>2. QED
    BY <1>7, <2>1, EmptyTreeIsTree DEF Exit, Shape, IsOpen
<1>8. QED
  BY <1>1, <1>2, <1>3, <1>4, <1>5, <1>6, <1>7 DEF OpenRegistry, CloseRegistry

LEMMA FileKeeps ==
  ASSUME IInv, OpenRegistry \/ CloseRegistry \/ Exit
  PROVE  IInv'
  BY FileStep, EmptyTreeIsTree DEF IInv, TreesOK

\* A call that works on the tree in memory.
LEMMA EditKeeps ==
  ASSUME IInv, Keep, LastOK', tree' \in Trees, Attached(tree'), ~root => tree' = tree,
         Careful /\ Unshadowed(tree) => Unshadowed(tree')
  PROVE  IInv'
<1>1. Shape'
  BY DEF IInv, Shape, Keep, IsOpen
<1>2. TreesOK'
  BY DEF IInv, TreesOK, Keep
<1>3. QED
  BY <1>1, <1>2 DEF IInv

LEMMA SetKeeps ==
  ASSUME IInv, NEW path \in Keys, NEW name \in Names, NEW value \in Values, SetValue(path, name, value)
  PROVE  IInv'
<1>1. LastOK'
  BY CallsAre, ToldIsOK DEF SetValue, IInv, Shape
<1>2. CASE root /\ path \in Paths
  <2>1. tree' = WithValue(tree, path, name, value) /\ Keep
    BY <1>2 DEF SetValue
  <2>2. Careful => (Has(tree, path, name) => Found(tree, path, name).type = "str")
    BY <1>2 DEF SetValue
  <2>3. QED
    BY <1>1, <1>2, <2>1, <2>2, WithValueKeeps, EditKeeps DEF IInv, Shape, TreesOK
<1>3. CASE ~(root /\ path \in Paths)
  BY <1>1, <1>3, EditKeeps DEF SetValue, IInv, Shape, TreesOK
<1>4. QED
  BY <1>2, <1>3

LEMMA CreateKeysKeeps ==
  ASSUME IInv, NEW path \in Keys, CreateKeys(path)
  PROVE  IInv'
<1>1. LastOK'
  BY CallsAre, ToldIsOK DEF CreateKeys, IInv, Shape
<1>2. CASE root /\ path \in Paths
  <2>1. tree' = [tree EXCEPT !.keys = @ \cup Way(path)] /\ Keep
    BY <1>2 DEF CreateKeys
  <2>2. QED
    BY <1>1, <1>2, <2>1, MoreKeysKeep, EditKeeps DEF IInv, Shape, TreesOK
<1>3. CASE ~(root /\ path \in Paths)
  BY <1>1, <1>3, EditKeeps DEF CreateKeys, IInv, Shape, TreesOK
<1>4. QED
  BY <1>2, <1>3

LEMMA GetKeeps ==
  ASSUME IInv, NEW path \in Keys, NEW name \in Names, NEW type \in {"str", "int"}, GetValue(path, name, type)
  PROVE  IInv'
<1>1. root /\ path \in Paths /\ Has(tree, path, name) => Found(tree, path, name) \in Values
  BY FoundIsValue DEF IInv, Shape
<1>2. LastOK'
  BY <1>1, CallsAre, ToldIsOK DEF GetValue
<1>3. QED
  BY <1>2, EditKeeps DEF GetValue, IInv, Shape, TreesOK

LEMMA DelValueKeeps ==
  ASSUME IInv, NEW path \in Keys, NEW name \in Names, DelValue(path, name)
  PROVE  IInv'
<1>1. LastOK'
  BY CallsAre, ToldIsOK DEF DelValue, IInv, Shape
<1>2. CASE root /\ path \in Paths /\ Has(tree, path, name)
  <2>1. tree' = WithoutValue(tree, path, name) /\ Keep
    BY <1>2 DEF DelValue
  <2>2. QED
    BY <1>1, <1>2, <2>1, WithoutValueKeeps, EditKeeps DEF IInv, Shape, TreesOK
<1>3. CASE ~(root /\ path \in Paths /\ Has(tree, path, name))
  BY <1>1, <1>3, EditKeeps DEF DelValue, IInv, Shape, TreesOK
<1>4. QED
  BY <1>2, <1>3

LEMMA DelKeyKeeps ==
  ASSUME IInv, NEW path \in Paths, DelKey(path)
  PROVE  IInv'
<1>1. LastOK'
  BY CallsAre, ToldIsOK DEF DelKey, IInv, Shape
<1>2. CASE root /\ Len(path) > 1 /\ path \in tree.keys
  <2>1. tree' = WithoutKey(tree, path) /\ Keep
    BY <1>2 DEF DelKey
  <2>2. QED
    BY <1>1, <1>2, <2>1, WithoutKeyKeeps, EditKeeps DEF IInv, Shape, TreesOK
<1>3. CASE ~(root /\ Len(path) > 1 /\ path \in tree.keys)
  BY <1>1, <1>3, EditKeeps DEF DelKey, IInv, Shape, TreesOK
<1>4. QED
  BY <1>2, <1>3

LEMMA IInvInit == Init => IInv
<1> SUFFICES ASSUME Init PROVE IInv
  OBVIOUS
<1>1. Shape /\ TreesOK
  BY EmptyTreeIsTree DEF Init, Shape, TreesOK, Disks, IsOpen
<1>2. LastOK
  BY CallsAre DEF Init, Told, LastOK
<1>3. QED
  BY <1>1, <1>2 DEF IInv

LEMMA IInvStep == IInv /\ [Next]_vars => IInv'
<1> SUFFICES ASSUME IInv, [Next]_vars PROVE IInv'
  OBVIOUS
<1>1. \A v \in Strings : StrValue(v) \in Values
  BY DEF Values
<1>2. \A v \in Ints : IntValue(v) \in Values
  BY DEF Values
<1>3. ASSUME NEW path \in Keys, NEW name \in Names,
             \/ \E v \in Strings : SetStrValue(path, name, v)
             \/ \E v \in Ints : SetIntValue(path, name, v)
      PROVE  IInv'
  BY <1>1, <1>2, <1>3, SetKeeps DEF SetStrValue, SetIntValue
<1>4. ASSUME NEW path \in Keys, NEW name \in Names, GetStrValue(path, name) \/ GetIntValue(path, name)
      PROVE  IInv'
  BY <1>4, GetKeeps DEF GetStrValue, GetIntValue
<1>5. CASE UNCHANGED vars
  BY <1>5 DEF vars, IInv, Shape, LastOK, TreesOK, IsOpen
<1>6. QED
  BY <1>3, <1>4, <1>5, FileKeeps, CreateKeysKeeps, DelValueKeeps, DelKeyKeeps DEF Next

-----------------------------------------------------------------------------
\* Every variable keeps its type: in particular a getter never tells a value that
\* nobody could have set, whatever the order of the values it searches.
THEOREM TypeCorrect == Spec => []TypeOK
<1>1. IInv => TypeOK
  BY DEF IInv, Shape, LastOK, TypeOK, IsTree, Trees, Entries, Disks
<1>2. QED
  BY <1>1, IInvInit, IInvStep, PTL DEF Spec

\* Neither in memory nor in the file is there a key without its parent, or a value
\* without its key, whatever is created and deleted in whatever order.
THEOREM KeysHaveParents == Spec => []NothingDetached
<1>1. IInv => NothingDetached
  BY DEF IInv, TreesOK, Attached, NothingDetached
<1>2. QED
  BY <1>1, IInvInit, IInvStep, PTL DEF Spec

\* For a program that deletes an int before it sets the name again, a name has one
\* value in a key.
THEOREM NamesHaveOneValue ==
  ASSUME Careful
  PROVE  Spec => []NoShadowedValue
<1>1. ASSUME IInv PROVE NoShadowedValue
  <2>1. \A t \in {tree, disk.tree} : t \in Trees /\ Unshadowed(t)
    BY <1>1 DEF IInv, Shape, TreesOK, Disks
  <2>2. ASSUME NEW t \in {tree, disk.tree}, NEW path \in Paths,
               NEW i \in DOMAIN t.values[path], NEW j \in DOMAIN t.values[path],
               t.values[path][i].name = t.values[path][j].name
        PROVE  i = j
    <3>1. i \in 1..Len(t.values[path]) /\ j \in 1..Len(t.values[path])
      BY <2>1, ValuesOfKey
    <3>2. QED
      BY <2>1, <2>2, <3>1 DEF Unshadowed
  <2>3. QED
    BY <2>2 DEF NoShadowedValue
<1>2. QED
  BY <1>1, IInvInit, IInvStep, PTL DEF Spec

-----------------------------------------------------------------------------
(* The registry as a map.                                                  *)

LEMMA EntryIs ==
  ASSUME NEW t
  PROVE  /\ Entry(t) = [e \in Paths \X Names |-> Entry(t)[e]]
         /\ \A path \in Paths, name \in Names :
              Entry(t)[<<path, name>>] = IF Has(t, path, name) THEN Found(t, path, name) ELSE None
  BY DEF Entry

LEMMA HasIsPlace ==
  ASSUME NEW t \in Trees, Attached(t), NEW path \in Paths, NEW name
  PROVE  Has(t, path, name) <=> \E i \in 1..Len(t.values[path]) : t.values[path][i].name = name
<1>1. DOMAIN t.values[path] = 1..Len(t.values[path])
  BY ValuesOfKey
<1>2. t.values[path] = << >> => Len(t.values[path]) = 0
  BY EmptySeq
<1>3. QED
  BY <1>1, <1>2 DEF Has, Places, Attached

\* The entry of a name that has one place in its key.
LEMMA EntryAtPlace ==
  ASSUME NEW t \in Trees, Attached(t), Unshadowed(t), NEW path \in Paths,
         NEW i \in 1..Len(t.values[path])
  PROVE  Entry(t)[<<path, t.values[path][i].name>>] = t.values[path][i].value
<1> DEFINE name == t.values[path][i].name
<1>1. Has(t, path, name) /\ name \in Names
  BY HasIsPlace, ValuesOfKey
<1>2. FirstOf(t, path, name) = i
  BY OnlyPlaceIsFirst DEF Unshadowed
<1>3. Found(t, path, name) = t.values[path][i].value
  BY <1>2 DEF Found
<1> HIDE DEF name
<1>4. Entry(t)[<<path, name>>] = t.values[path][i].value
  BY <1>1, <1>3, EntryIs
<1>5. QED
  BY <1>4 DEF name

LEMMA NoEntry ==
  ASSUME NEW t \in Trees, Attached(t), NEW path \in Paths, NEW name \in Names,
         \A i \in 1..Len(t.values[path]) : t.values[path][i].name # name
  PROVE  Entry(t)[<<path, name>>] = None
  BY HasIsPlace, EntryIs

LEMMA SameEntry ==
  ASSUME NEW t \in Trees, Attached(t), NEW u \in Trees, Attached(u),
         NEW path \in Paths, NEW name \in Names, u.values[path] = t.values[path]
  PROVE  Entry(u)[<<path, name>>] = Entry(t)[<<path, name>>]
<1>1. Has(u, path, name) <=> Has(t, path, name)
  BY HasIsPlace
<1>2. Places(u, path, name) = Places(t, path, name)
  BY DEF Places
<1>3. Found(u, path, name) = Found(t, path, name)
  BY <1>2 DEF FirstOf, Found
<1>4. QED
  BY <1>1, <1>3, EntryIs

IsMap(g) == g = [e \in Paths \X Names |-> g[e]]

\* A map is told by its entries.
LEMMA EntriesTell ==
  ASSUME NEW t, NEW g, IsMap(g),
         \A path \in Paths, name \in Names : Entry(t)[<<path, name>>] = g[<<path, name>>]
  PROVE  Entry(t) = g
<1>1. ASSUME NEW e \in Paths \X Names PROVE Entry(t)[e] = g[e]
  <2>1. PICK path \in Paths, name \in Names : e = <<path, name>>
    OBVIOUS
  <2>2. QED
    BY <2>1
<1>2. Entry(t) = [e \in Paths \X Names |-> Entry(t)[e]]
  BY EntryIs
<1>3. Entry(t) = [e \in Paths \X Names |-> g[e]]
  BY <1>1, <1>2
<1>4. QED
  BY <1>3 DEF IsMap

\* Setting a value sets the entry, and no other.
LEMMA SetEntry ==
  ASSUME NEW t \in Trees, Attached(t), Unshadowed(t), NEW path \in Paths, NEW name \in Names,
         NEW v \in Values, Has(t, path, name) => Found(t, path, name).type = "str"
  PROVE  Entry(WithValue(t, path, name, v)) = [Entry(t) EXCEPT ![<<path, name>>] = v]
<1> DEFINE s == t.values[path]
           i == FirstOf(t, path, name)
           u == WithValue(t, path, name, v)
           g == [Entry(t) EXCEPT ![<<path, name>>] = v]
<1>1. u \in Trees /\ Attached(u) /\ Unshadowed(u)
  BY WithValueKeeps
<1>2. /\ \A p \in Paths \ {path} : u.values[p] = t.values[p]
      /\ Reusable(t, path, name) =>
           /\ i \in 1..Len(s) /\ s[i].name = name
           /\ Len(u.values[path]) = Len(s)
           /\ \A j \in 1..Len(s) : /\ u.values[path][j].name = s[j].name
                                  /\ u.values[path][j].value = IF j = i THEN v ELSE s[j].value
      /\ ~Reusable(t, path, name) =>
           /\ Len(u.values[path]) = Len(s) + 1
           /\ \A j \in 1..Len(s) : u.values[path][j] = s[j]
           /\ u.values[path][Len(s) + 1] = [name |-> name, value |-> v]
  BY WithValueForms
<1>3. Len(s) \in Nat
  BY ValuesOfKey
<1> HIDE DEF i, u
<1>4. Entry(u)[<<path, name>>] = v
  <2>1. PICK j \in 1..Len(u.values[path]) : u.values[path][j].name = name /\ u.values[path][j].value = v
    <3>1. CASE Reusable(t, path, name)
      BY <1>2, <3>1
    <3>2. CASE ~Reusable(t, path, name)
      <4>1. Len(s) + 1 \in 1..Len(u.values[path])
        BY <1>2, <1>3, <3>2
      <4>2. /\ u.values[path][Len(s) + 1].name = name
            /\ u.values[path][Len(s) + 1].value = v
        BY <1>2, <3>2
      <4>3. QED
        BY <4>1, <4>2
    <3>3. QED
      BY <3>1, <3>2
  <2>2. QED
    BY <1>1, <2>1, EntryAtPlace
<1>5. ASSUME NEW n \in Names \ {name} PROVE Entry(u)[<<path, n>>] = Entry(t)[<<path, n>>]
  <2>1. CASE \E j \in 1..Len(s) : s[j].name = n
    <3>1. PICK j \in 1..Len(s) : s[j].name = n
      BY <2>1
    <3>2. /\ j \in 1..Len(u.values[path]) /\ u.values[path][j].name = n
          /\ u.values[path][j].value = s[j].value
      <4>1. CASE Reusable(t, path, name)
        BY <1>2, <3>1, <4>1
      <4>2. CASE ~Reusable(t, path, name)
        BY <1>2, <1>3, <3>1, <4>2
      <4>3. QED
        BY <4>1, <4>2
    <3>3. QED
      BY <1>1, <3>1, <3>2, EntryAtPlace
  <2>2. CASE ~\E j \in 1..Len(s) : s[j].name = n
    <3>1. \A j \in 1..Len(u.values[path]) : u.values[path][j].name # n
      <4>1. CASE Reusable(t, path, name)
        BY <1>2, <2>2, <4>1
      <4>2. CASE ~Reusable(t, path, name)
        <5>1. ASSUME NEW j \in 1..Len(u.values[path]) PROVE u.values[path][j].name # n
          <6>1. j \in 1..Len(s) \/ j = Len(s) + 1
            BY <1>2, <1>3, <4>2
          <6>2. CASE j \in 1..Len(s)
            <7>1. u.values[path][j] = s[j]
              BY <1>2, <4>2, <6>2
            <7>2. QED
              BY <2>2, <6>2, <7>1
          <6>3. CASE j = Len(s) + 1
            <7>1. u.values[path][Len(s) + 1].name = name
              BY <1>2, <4>2
            <7>2. QED
              BY <6>3, <7>1
          <6>4. QED
            BY <6>1, <6>2, <6>3
        <5>2. QED
          BY <5>1
      <4>3. QED
        BY <4>1, <4>2
    <3>2. QED
      BY <1>1, <2>2, <3>1, NoEntry
  <2>3. QED
    BY <2>1, <2>2
<1>6. ASSUME NEW p \in Paths \ {path}, NEW n \in Names PROVE Entry(u)[<<p, n>>] = Entry(t)[<<p, n>>]
  BY <1>1, <1>2, SameEntry
<1>7. \A p \in Paths, n \in Names : g[<<p, n>>] = IF p = path /\ n = name THEN v ELSE Entry(t)[<<p, n>>]
  BY EntryIs
<1>8. IsMap(g)
  BY EntryIs DEF IsMap
<1> HIDE DEF g
<1>9. \A p \in Paths, n \in Names : Entry(u)[<<p, n>>] = g[<<p, n>>]
  BY <1>4, <1>5, <1>6, <1>7
<1>10. Entry(u) = g
  BY <1>8, <1>9, EntriesTell
<1>11. QED
  BY <1>10 DEF u, g

\* Deleting a value empties the entry, and no other.
LEMMA DelEntry ==
  ASSUME NEW t \in Trees, Attached(t), Unshadowed(t), NEW path \in Paths, NEW name \in Names,
         Has(t, path, name)
  PROVE  Entry(WithoutValue(t, path, name)) = [Entry(t) EXCEPT ![<<path, name>>] = None]
<1> DEFINE s == t.values[path]
           i == FirstOf(t, path, name)
           u == WithoutValue(t, path, name)
           g == [Entry(t) EXCEPT ![<<path, name>>] = None]
<1>1. u \in Trees /\ Attached(u) /\ Unshadowed(u)
  BY WithoutValueKeeps
<1>2. /\ i \in 1..Len(s) /\ s[i].name = name
      /\ u \in Trees /\ u.keys = t.keys
      /\ \A p \in Paths \ {path} : u.values[p] = t.values[p]
      /\ Len(u.values[path]) = Len(s) - 1
      /\ \A j \in 1..(Len(s) - 1) : u.values[path][j] = IF j < i THEN s[j] ELSE s[j + 1]
  BY WithoutValueForms
<1>3. Len(s) \in Nat /\ \A j, k \in 1..Len(s) : s[j].name = s[k].name => j = k
  BY ValuesOfKey DEF Unshadowed
<1> HIDE DEF i, u
<1>4. \A j \in 1..Len(u.values[path]) :
        \E k \in 1..Len(s) : k # i /\ u.values[path][j] = s[k]
  <2>1. ASSUME NEW j \in 1..(Len(s) - 1)
        PROVE  \E k \in 1..Len(s) : k # i /\ u.values[path][j] = s[k]
    <3>1. CASE j < i
      BY <1>2, <1>3, <3>1
    <3>2. CASE ~(j < i)
      <4>1. j + 1 \in 1..Len(s) /\ j + 1 # i
        BY <1>2, <1>3, <3>2
      <4>2. QED
        BY <1>2, <3>2, <4>1
    <3>3. QED
      BY <3>1, <3>2
  <2>2. QED
    BY <1>2, <2>1
<1>5. \A k \in 1..Len(s) : k # i =>
        \E j \in 1..Len(u.values[path]) : u.values[path][j] = s[k]
  <2>1. ASSUME NEW k \in 1..Len(s), k # i
        PROVE  \E j \in 1..(Len(s) - 1) : u.values[path][j] = s[k]
    <3>1. CASE k < i
      <4>1. k \in 1..(Len(s) - 1)
        BY <1>2, <1>3, <3>1
      <4>2. QED
        BY <1>2, <3>1, <4>1
    <3>2. CASE ~(k < i)
      <4>1. k - 1 \in 1..(Len(s) - 1) /\ ~(k - 1 < i) /\ (k - 1) + 1 = k
        BY <1>2, <1>3, <2>1, <3>2
      <4>2. QED
        BY <1>2, <4>1
    <3>3. QED
      BY <3>1, <3>2
  <2>2. QED
    BY <1>2, <2>1
<1>6. Entry(u)[<<path, name>>] = None
  <2>1. \A j \in 1..Len(u.values[path]) : u.values[path][j].name # name
    BY <1>2, <1>3, <1>4
  <2>2. QED
    BY <1>1, <2>1, NoEntry
<1>7. ASSUME NEW n \in Names \ {name} PROVE Entry(u)[<<path, n>>] = Entry(t)[<<path, n>>]
  <2>1. CASE \E k \in 1..Len(s) : s[k].name = n
    <3>1. PICK k \in 1..Len(s) : s[k].name = n
      BY <2>1
    <3>2. PICK j \in 1..Len(u.values[path]) : u.values[path][j] = s[k]
      BY <1>2, <1>5, <3>1
    <3>3. Entry(u)[<<path, u.values[path][j].name>>] = u.values[path][j].value
      BY <1>1, EntryAtPlace
    <3>4. Entry(t)[<<path, s[k].name>>] = s[k].value
      BY EntryAtPlace
    <3>5. QED
      BY <3>1, <3>2, <3>3, <3>4
  <2>2. CASE ~\E k \in 1..Len(s) : s[k].name = n
    <3>1. \A j \in 1..Len(u.values[path]) : u.values[path][j].name # n
      BY <1>4, <2>2
    <3>2. QED
      BY <1>1, <2>2, <3>1, NoEntry
  <2>3. QED
    BY <2>1, <2>2
<1>8. ASSUME NEW p \in Paths \ {path}, NEW n \in Names PROVE Entry(u)[<<p, n>>] = Entry(t)[<<p, n>>]
  BY <1>1, <1>2, SameEntry
<1>9. \A p \in Paths, n \in Names : g[<<p, n>>] = IF p = path /\ n = name THEN None ELSE Entry(t)[<<p, n>>]
  BY EntryIs
<1>10. IsMap(g)
  BY EntryIs DEF IsMap
<1> HIDE DEF g
<1>11. \A p \in Paths, n \in Names : Entry(u)[<<p, n>>] = g[<<p, n>>]
  BY <1>6, <1>7, <1>8, <1>9
<1>12. Entry(u) = g
  BY <1>10, <1>11, EntriesTell
<1>13. QED
  BY <1>12 DEF u, g

\* Deleting a key empties the entries of all keys below it.
LEMMA DelKeyEntries ==
  ASSUME NEW t \in Trees, Attached(t), NEW path \in Paths
  PROVE  Entry(WithoutKey(t, path)) =
           [e \in Paths \X Names |-> IF IsPrefix(path, e[1]) THEN None ELSE Entry(t)[e]]
<1> DEFINE u == WithoutKey(t, path)
           g == [e \in Paths \X Names |-> IF IsPrefix(path, e[1]) THEN None ELSE Entry(t)[e]]
<1>1. u \in Trees /\ Attached(u)
  BY WithoutKeyKeeps
<1>2. \A p \in Paths : u.values[p] = IF IsPrefix(path, p) THEN << >> ELSE t.values[p]
  BY DEF WithoutKey, Below
<1> HIDE DEF u
<1>3. ASSUME NEW p \in Paths, NEW n \in Names
      PROVE  Entry(u)[<<p, n>>] = IF IsPrefix(path, p) THEN None ELSE Entry(t)[<<p, n>>]
  <2>1. CASE IsPrefix(path, p)
    <3>1. Len(u.values[p]) = 0
      BY <1>2, <2>1, EmptySeq
    <3>2. QED
      BY <1>1, <2>1, <3>1, NoEntry
  <2>2. CASE ~IsPrefix(path, p)
    BY <1>1, <1>2, <2>2, SameEntry
  <2>3. QED
    BY <2>1, <2>2
<1>4. \A p \in Paths, n \in Names : Entry(u)[<<p, n>>] = g[<<p, n>>]
  <2> HIDE DEF u
  <2>1. \A p \in Paths, n \in Names : g[<<p, n>>] = IF IsPrefix(path, p) THEN None ELSE Entry(t)[<<p, n>>]
    OBVIOUS
  <2> HIDE DEF g
  <2>2. QED
    BY <1>3, <2>1
<1>5. IsMap(g)
  BY DEF IsMap
<1> HIDE DEF g
<1>6. Entry(u) = g
  BY <1>4, <1>5, EntriesTell
<1>7. QED
  BY <1>6 DEF u, g

\* A key without values does not show.
LEMMA MoreKeysNoEntries ==
  ASSUME NEW t \in Trees, Attached(t), NEW path \in Paths
  PROVE  Entry([t EXCEPT !.keys = @ \cup Way(path)]) = Entry(t)
<1> DEFINE u == [t EXCEPT !.keys = @ \cup Way(path)]
<1>1. u \in Trees /\ Attached(u) /\ u.values = t.values
  BY MoreKeysKeep
<1> HIDE DEF u
<1>2. \A p \in Paths, n \in Names : Entry(u)[<<p, n>>] = Entry(t)[<<p, n>>]
  BY <1>1, SameEntry
<1>3. IsMap(Entry(t))
  BY EntryIs DEF IsMap
<1>4. Entry(u) = Entry(t)
  BY <1>2, <1>3, EntriesTell
<1>5. QED
  BY <1>4 DEF u

LEMMA EmptyEntries == Entry(EmptyTree) = KS!Empty
  BY DEF Entry, EmptyTree, Has, KS!Empty, KS!Entries, KS!Paths, Paths

-----------------------------------------------------------------------------
(* Every step of the registry is a step of the map, or changes nothing.     *)

\* What every call of KeyStore that opens has to do.
LEMMA OpenIsOpen ==
  ASSUME Shape, IsOpen' \in BOOLEAN, disk'.tree = Flushed.tree,
         IsOpen' => Entry(tree') = Entry(disk'.tree),
         last' = Told(<<"open">>, IsOpen', None)
  PROVE  KS!Open
<1>1. disk'.tree = IF IsOpen THEN tree ELSE disk.tree
  BY FlushedIs
<1>2. Entry(EmptyTree) = KS!Empty
  BY EmptyEntries
<1>3. QED
  BY <1>1, <1>2 DEF KS!Open, KS!Told, Told

LEMMA OpenImplements ==
  ASSUME Shape, OpenRegistry
  PROVE  KS!Open \/ UNCHANGED KS!vars
<1>1. CASE UseUnopened
  BY <1>1 DEF UseUnopened, KS!vars, IsOpen
<1>2. CASE OpenNoPath
  <2>1. IsOpen' = FALSE
    BY <1>2 DEF OpenNoPath, IsOpen
  <2>2. QED
    BY <1>2, <2>1, OpenIsOpen DEF OpenNoPath
<1>3. CASE OpenNoLock
  <2>1. IsOpen' = FALSE
    BY <1>3 DEF OpenNoLock, IsOpen
  <2>2. disk'.tree = Flushed.tree
    BY <1>3, FlushedIs DEF OpenNoLock
  <2>3. QED
    BY <1>3, <2>1, <2>2, OpenIsOpen DEF OpenNoLock
<1>4. CASE OpenNew
  <2>1. IsOpen' = TRUE
    BY <1>4 DEF OpenNew, IsOpen
  <2>2. disk'.tree = Flushed.tree /\ tree' = Flushed.tree
    BY <1>4, FlushedIs DEF OpenNew
  <2>3. QED
    BY <1>4, <2>1, <2>2, OpenIsOpen DEF OpenNew
<1>5. CASE OpenLoad
  <2>1. IsOpen' = loaded' /\ IsOpen' \in BOOLEAN
    BY <1>5 DEF OpenLoad, IsOpen
  <2>2. QED
    BY <1>5, <2>1, OpenIsOpen DEF OpenLoad
<1>6. QED
  BY <1>1, <1>2, <1>3, <1>4, <1>5 DEF OpenRegistry

LEMMA CloseImplements ==
  ASSUME Shape, CloseRegistry
  PROVE  KS!Close \/ UNCHANGED KS!vars
<1>1. CASE UseUnopened
  BY <1>1 DEF UseUnopened, KS!vars, IsOpen
<1>2. CASE ~UseUnopened
  <2>1. last' = Told(<<"close">>, TRUE, None)
    BY <1>2 DEF CloseRegistry
  <2>2. IsOpen' = FALSE
    BY <1>2 DEF CloseRegistry, IsOpen
  <2>3. disk'.tree = IF IsOpen THEN tree ELSE disk.tree
    BY <1>2, FlushedIs DEF CloseRegistry
  <2>4. QED
    BY <2>1, <2>2, <2>3, EmptyEntries DEF KS!Close, KS!Told, Told
<1>3. QED
  BY <1>1, <1>2

LEMMA ExitImplements ==
  ASSUME Exit
  PROVE  KS!Exit
<1>1. IsOpen' = FALSE
  BY DEF Exit, IsOpen
<1>2. QED
  BY <1>1, EmptyEntries DEF Exit, KS!Exit, KS!Told, Told

\* A careful program calls when the registry is open, or was never opened.
LEMMA CarefulCall ==
  ASSUME Shape, Careful, MayCall, Keep
  PROVE  /\ root \in BOOLEAN /\ root = IsOpen
         /\ IsOpen' = IsOpen /\ disk' = disk
  BY DEF Shape, MayCall, Keep, IsOpen

LEMMA SetImplements ==
  ASSUME IInv, Careful, NEW path \in Keys, NEW name \in Names, NEW value \in Values,
         SetValue(path, name, value)
  PROVE  KS!Set(path, name, value)
<1>1. root = IsOpen /\ IsOpen' = IsOpen /\ disk' = disk
  BY CarefulCall DEF SetValue, IInv
<1>2. last' = KS!Told(<<"set", path, name, value>>, IsOpen /\ path \in Paths, None)
  BY <1>1 DEF SetValue, Told, KS!Told
<1>3. CASE IsOpen /\ path \in Paths
  <2>1. tree' = WithValue(tree, path, name, value)
    BY <1>1, <1>3 DEF SetValue
  <2>2. Entry(tree') = [Entry(tree) EXCEPT ![<<path, name>>] = value]
    BY <1>3, <2>1, SetEntry DEF SetValue, IInv, Shape, TreesOK
  <2>3. QED
    BY <1>1, <1>2, <1>3, <2>2 DEF KS!Set, KS!Paths, Paths
<1>4. CASE ~(IsOpen /\ path \in Paths)
  <2>1. tree' = tree
    BY <1>1, <1>4 DEF SetValue
  <2>2. QED
    BY <1>1, <1>2, <1>4, <2>1 DEF KS!Set, KS!Paths, Paths
<1>5. QED
  BY <1>3, <1>4

LEMMA CreateKeysImplements ==
  ASSUME IInv, Careful, NEW path \in Keys, CreateKeys(path)
  PROVE  KS!CreateKeys(path)
<1>1. root = IsOpen /\ IsOpen' = IsOpen /\ disk' = disk
  BY CarefulCall DEF CreateKeys, IInv
<1>2. last' = KS!Told(<<"createkeys", path>>, IsOpen /\ path \in Paths, None)
  BY <1>1 DEF CreateKeys, Told, KS!Told
<1>3. Entry(tree') = Entry(tree)
  BY MoreKeysNoEntries DEF CreateKeys, IInv, Shape, TreesOK
<1>4. QED
  BY <1>1, <1>2, <1>3 DEF KS!CreateKeys, KS!Paths, Paths

Store == IF IsOpen THEN Entry(tree) ELSE Entry(EmptyTree)

\* An entry of the map is what a search of the open registry finds.
LEMMA EntryOfStore ==
  ASSUME IInv, NEW path \in Paths, NEW name \in Names
  PROVE  /\ Store[<<path, name>>] =
              IF IsOpen /\ Has(tree, path, name) THEN Found(tree, path, name) ELSE None
         /\ Store[<<path, name>>] # None <=> IsOpen /\ Has(tree, path, name)
<1>1. ~Has(EmptyTree, path, name)
  BY DEF Has, EmptyTree
<1>2. Store[<<path, name>>] =
        IF IsOpen /\ Has(tree, path, name) THEN Found(tree, path, name) ELSE None
  BY <1>1, EntryIs DEF Store
<1>3. Has(tree, path, name) => Found(tree, path, name) # None
  BY FoundIsValue, RegistryAssumption DEF IInv, Shape
<1>4. QED
  BY <1>2, <1>3

LEMMA GetImplements ==
  ASSUME IInv, Careful, NEW path \in Keys, NEW name \in Names, NEW type \in {"str", "int"},
         GetValue(path, name, type)
  PROVE  KS!Get(path, name, type)
<1> DEFINE value == IF path \in Paths THEN Store[<<path, name>>] ELSE None
           ok == value # None => value.type = type
<1>1. root = IsOpen /\ IsOpen' = IsOpen /\ disk' = disk /\ tree' = tree
  BY CarefulCall DEF GetValue, IInv
<1>2. CASE root /\ path \in Paths /\ Has(tree, path, name)
  <2>1. value = Found(tree, path, name) /\ value # None
    BY <1>1, <1>2, EntryOfStore
  <2> HIDE DEF value
  <2>2. last' = KS!Told(<<"get", path, name, type>>, value.type = type,
                        IF value.type = type THEN value ELSE None)
    BY <1>2, <2>1 DEF GetValue, Told, KS!Told
  <2>3. ok = (value.type = type)
    BY <2>1
  <2> HIDE DEF ok
  <2>4. last' = KS!Told(<<"get", path, name, type>>, ok, IF ok THEN value ELSE None)
    BY <2>2, <2>3
  <2>5. QED
    BY <1>1, <2>4 DEF KS!Get, KS!Paths, Paths, value, ok, Store
<1>3. CASE ~(root /\ path \in Paths /\ Has(tree, path, name))
  <2>1. value = None
    BY <1>1, <1>3, EntryOfStore
  <2>2. last' = KS!Told(<<"get", path, name, type>>, TRUE, None)
    BY <1>3 DEF GetValue, Told, KS!Told
  <2>3. ok = TRUE
    BY <2>1
  <2> HIDE DEF value, ok
  <2>4. last' = KS!Told(<<"get", path, name, type>>, ok, IF ok THEN value ELSE None)
    BY <2>1, <2>2, <2>3
  <2>5. QED
    BY <1>1, <2>4 DEF KS!Get, KS!Paths, Paths, value, ok, Store
<1>4. QED
  BY <1>2, <1>3

LEMMA DelValueImplements ==
  ASSUME IInv, Careful, NEW path \in Keys, NEW name \in Names, DelValue(path, name)
  PROVE  KS!DelValue(path, name)
<1>1. root = IsOpen /\ IsOpen' = IsOpen /\ disk' = disk
  BY CarefulCall DEF DelValue, IInv
<1>2. (path \in Paths /\ Store[<<path, name>>] # None) = (root /\ path \in Paths /\ Has(tree, path, name))
  BY <1>1, EntryOfStore
<1>3. last' = KS!Told(<<"delvalue", path, name>>, path \in Paths /\ Store[<<path, name>>] # None, None)
  BY <1>2 DEF DelValue, Told, KS!Told
<1>4. CASE root /\ path \in Paths /\ Has(tree, path, name)
  <2>1. tree' = WithoutValue(tree, path, name)
    BY <1>4 DEF DelValue
  <2>2. Entry(tree') = [Entry(tree) EXCEPT ![<<path, name>>] = None]
    BY <1>4, <2>1, DelEntry DEF IInv, Shape, TreesOK
  <2>3. QED
    BY <1>1, <1>2, <1>3, <1>4, <2>2 DEF KS!DelValue, KS!Paths, Paths, Store
<1>5. CASE ~(root /\ path \in Paths /\ Has(tree, path, name))
  <2>1. tree' = tree
    BY <1>5 DEF DelValue
  <2>2. QED
    BY <1>1, <1>2, <1>3, <1>5, <2>1 DEF KS!DelValue, KS!Paths, Paths, Store
<1>6. QED
  BY <1>4, <1>5

LEMMA DelKeyImplements ==
  ASSUME IInv, Careful, NEW path \in Paths, DelKey(path)
  PROVE  KS!DelKey(path)
<1> DEFINE ok == root /\ Len(path) > 1 /\ path \in tree.keys
           below == {e \in KS!Entries : KS!IsPrefix(path, e[1])}
           after == [e \in KS!Entries |-> IF e \in below THEN None ELSE Store[e]]
<1>1. root \in BOOLEAN /\ root = IsOpen /\ IsOpen' = IsOpen /\ disk' = disk
  BY CarefulCall DEF DelKey, IInv
<1>2. KS!Entries = Paths \X Names /\ \A p : KS!IsPrefix(path, p) <=> IsPrefix(path, p)
  BY DEF KS!Entries, KS!Paths, Paths, KS!IsPrefix, IsPrefix
<1>3. ok \in BOOLEAN /\ (ok => IsOpen /\ Len(path) > 1)
  BY <1>1
<1>4. ASSUME Len(path) > 1, NEW e \in below, Store[e] # None
      PROVE  ok
  <2>1. PICK p \in Paths, n \in Names : e = <<p, n>>
    BY <1>2
  <2>2. IsPrefix(path, p)
    BY <1>2, <2>1
  <2>3. IsOpen /\ p \in tree.keys
    BY <1>4, <2>1, EntryOfStore DEF Has
  <2>4. path \in Way(p) /\ Way(p) \subseteq tree.keys
    BY <2>2, <2>3, WayProperties DEF IInv, TreesOK, Attached
  <2>5. QED
    BY <1>1, <1>4, <2>3, <2>4
<1>5. last' = KS!Told(<<"delkey", path>>, ok, None)
  BY DEF DelKey, Told, KS!Told
<1>6. Store' = IF ok THEN after ELSE Store
  <2>1. CASE ok
    <3>1. tree' = WithoutKey(tree, path)
      BY <2>1 DEF DelKey
    <3>2. Entry(tree') = [e \in Paths \X Names |-> IF IsPrefix(path, e[1]) THEN None ELSE Entry(tree)[e]]
      BY <3>1, DelKeyEntries DEF IInv, Shape, TreesOK
    <3>3. Store = Entry(tree) /\ Store' = Entry(tree')
      BY <1>1, <2>1 DEF Store
    <3>4. after = [e \in Paths \X Names |-> IF IsPrefix(path, e[1]) THEN None ELSE Entry(tree)[e]]
      BY <1>2, <3>3
    <3>5. QED
      BY <2>1, <3>2, <3>3, <3>4
  <2>2. CASE ~ok
    <3>1. tree' = tree
      BY <2>2 DEF DelKey
    <3>2. QED
      BY <1>1, <2>2, <3>1 DEF Store
  <2>3. QED
    BY <2>1, <2>2
<1> HIDE DEF ok
<1>7. QED
  BY <1>1, <1>3, <1>4, <1>5, <1>6 DEF KS!DelKey, Store

LEMMA InitImplements == Init => KS!Init
<1> SUFFICES ASSUME Init PROVE KS!Init
  OBVIOUS
<1>1. IsOpen = FALSE /\ disk.tree = EmptyTree
  BY DEF Init, IsOpen
<1>2. QED
  BY <1>1, EmptyEntries DEF Init, KS!Init, KS!Told, Told

LEMMA StepImplements ==
  ASSUME Careful
  PROVE  IInv /\ [Next]_vars => [KS!Next]_(KS!vars)
<1> SUFFICES ASSUME IInv, [Next]_vars PROVE KS!Next \/ UNCHANGED KS!vars
  OBVIOUS
<1>1. Shape
  BY DEF IInv
<1>2. CASE OpenRegistry \/ CloseRegistry \/ Exit
  BY <1>1, <1>2, OpenImplements, CloseImplements, ExitImplements DEF KS!Next
<1>3. ASSUME NEW path \in Keys, NEW name \in Names,
             \/ \E v \in Strings : SetStrValue(path, name, v)
             \/ \E v \in Ints : SetIntValue(path, name, v)
      PROVE  KS!Next
  <2>1. PICK value \in Values : SetValue(path, name, value)
    BY <1>3 DEF SetStrValue, SetIntValue, Values
  <2>2. KS!Set(path, name, value)
    BY <2>1, SetImplements
  <2>3. QED
    BY <2>2 DEF KS!Next
<1>4. ASSUME NEW path \in Keys, NEW name \in Names, GetStrValue(path, name) \/ GetIntValue(path, name)
      PROVE  KS!Next
  <2>1. PICK type \in {"str", "int"} : GetValue(path, name, type)
    BY <1>4 DEF GetStrValue, GetIntValue
  <2>2. KS!Get(path, name, type)
    BY <2>1, GetImplements
  <2>3. QED
    BY <2>2 DEF KS!Next
<1>5. ASSUME NEW path \in Keys, NEW name \in Names, DelValue(path, name)
      PROVE  KS!Next
  <2>1. KS!DelValue(path, name)
    BY <1>5, DelValueImplements
  <2>2. QED
    BY <2>1 DEF KS!Next
<1>6. ASSUME NEW path \in Keys, CreateKeys(path)
      PROVE  KS!Next
  BY <1>6, CreateKeysImplements DEF KS!Next
<1>7. ASSUME NEW path \in Paths, DelKey(path)
      PROVE  KS!Next
  BY <1>7, DelKeyImplements DEF KS!Next, KS!Paths, Paths
<1>8. CASE UNCHANGED vars
  BY <1>8 DEF vars, KS!vars, IsOpen
<1>9. QED
  BY <1>2, <1>3, <1>4, <1>5, <1>6, <1>7, <1>8 DEF Next

\* For a program that keeps to the rules the registry is the map of KeyStore: the order of
\* the search, the keys made on the way and the file do not show, and a close followed by
\* an open gives back all there was.
THEOREM ImplementsKeyStore ==
  ASSUME Careful
  PROVE  Spec => ImplementsStore
<1>1. Init => KS!Init
  BY InitImplements
<1>2. IInv /\ [Next]_vars => [KS!Next]_(KS!vars)
  BY StepImplements
<1>3. QED
  BY <1>1, <1>2, IInvInit, IInvStep, PTL DEF Spec, ImplementsStore, KS!Spec

\* A setter that answers true has set what a getter finds, if the program is one that
\* deletes an int before it sets the name again: others are deceived (run registry_ints).
THEOREM CarefulSetIsSeen ==
  ASSUME Careful
  PROVE  Spec => SetIsSeen
<1> DEFINE Seen == \A path \in Paths, name \in Names, value \in Values :
                     IsOpen /\ last' = Told(<<"set", path, name, value>>, TRUE, None) /\ last' # last
                       => Found(tree', path, name) = value
<1>1. ASSUME IInv, [Next]_vars PROVE [Seen]_vars
  <2>1. SUFFICES ASSUME NEW path \in Paths, NEW name \in Names, NEW value \in Values, IsOpen,
                        last' = Told(<<"set", path, name, value>>, TRUE, None), last' # last
                 PROVE  Found(tree', path, name) = value
    OBVIOUS
  <2>2. last'.call[1] = "set" /\ last'.call = <<"set", path, name, value>>
    BY <2>1 DEF Told
  <2>3. SetValue(path, name, value)
    <3>1. ASSUME NEW p \in Keys, NEW n \in Names, NEW v \in Values, SetValue(p, n, v)
          PROVE  p = path /\ n = name /\ v = value
      BY <2>2, <3>1 DEF SetValue, Told
    <3>2. ~(OpenRegistry \/ CloseRegistry \/ Exit)
      <4>1. last' # last
        BY <2>1
      <4>2. QED
        BY <2>2, <4>1 DEF OpenRegistry, CloseRegistry, Exit, UseUnopened, OpenNoPath, OpenNoLock, OpenNew, OpenLoad, Told
    <3>3. \A p \in Keys, n \in Names :
            ~(GetStrValue(p, n) \/ GetIntValue(p, n) \/ DelValue(p, n))
      BY <2>2 DEF GetStrValue, GetIntValue, GetValue, DelValue, Told
    <3>4. \A p \in Keys : ~CreateKeys(p) /\ (p \in Paths => ~DelKey(p))
      BY <2>2 DEF CreateKeys, DelKey, Told
    <3>5. PICK p \in Keys, n \in Names :
            (\E v \in Strings : SetStrValue(p, n, v)) \/ (\E v \in Ints : SetIntValue(p, n, v))
      BY <1>1, <2>1, <3>2, <3>3, <3>4 DEF Next, vars, Paths
    <3>6. PICK v \in Values : SetValue(p, n, v)
      BY <3>5 DEF SetStrValue, SetIntValue, Values
    <3>7. QED
      BY <3>1, <3>6
  <2>4. tree \in Trees /\ Attached(tree) /\ Unshadowed(tree) /\ root
    BY <1>1, <2>1 DEF IInv, Shape, TreesOK
  <2>5. tree' = WithValue(tree, path, name, value)
    BY <2>3, <2>4 DEF SetValue
  <2>6. Entry(tree') = [Entry(tree) EXCEPT ![<<path, name>>] = value]
    BY <2>3, <2>4, <2>5, SetEntry DEF SetValue
  <2>7. Entry(tree')[<<path, name>>] = value
    BY <2>6, EntryIs
  <2>8. QED
    BY <2>7, EntryIs, RegistryAssumption
<1>2. QED
  BY <1>1, IInvInit, IInvStep, PTL DEF Spec, SetIsSeen
=============================================================================
