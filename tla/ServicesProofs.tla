--------------------------- MODULE ServicesProofs ---------------------------
(***************************************************************************)
(* Theorems about the parts of Services, for tables, lists, descriptors,   *)
(* programs and answers of any size. Each part has an inductive invariant  *)
(* of its own, and the last section puts them together: only the part that *)
(* was chosen at the start moves.                                          *)
(***************************************************************************)
EXTENDS Services, TLAPS, SequenceTheorems, FiniteSetTheorems, NaturalsInduction, WellFoundedInduction

-----------------------------------------------------------------------------
(* Sequences: functions on 1..n are sequences, and so are beginnings.      *)

LEMMA FunctionIsSeq ==
  ASSUME NEW S, NEW n \in Nat, NEW f \in [1..n -> S]
  PROVE  f \in Seq(S) /\ Len(f) = n
<1>1. f \in Seq(S)
  OBVIOUS
<1>2. Len(f) \in Nat /\ DOMAIN f = 1..Len(f)
  BY <1>1, LenProperties
<1>3. 1..Len(f) = 1..n
  BY <1>2
<1> QED
  BY <1>1, <1>2, <1>3

LEMMA Beginning ==
  ASSUME NEW S, NEW s, NEW k \in Nat, \A i \in 1..k : s[i] \in S
  PROVE  SubSeq(s, 1, k) \in Seq(S) /\ Len(SubSeq(s, 1, k)) = k /\ \A i \in 1..k : SubSeq(s, 1, k)[i] = s[i]
<1>1. 1 \in Int /\ k \in Int /\ k - 1 + 1 = k /\ (~(1 <= k) => k = 0)
  OBVIOUS
<1>2. /\ SubSeq(s, 1, k) \in Seq(S) /\ Len(SubSeq(s, 1, k)) = (IF 1 <= k THEN k - 1 + 1 ELSE 0)
      /\ \A i \in 1..(k - 1 + 1) : SubSeq(s, 1, k)[i] = s[1 + i - 1]
  BY <1>1, SubSeqProperties
<1>3. \A i \in 1..k : 1 + i - 1 = i
  OBVIOUS
<1> QED
  BY <1>1, <1>2, <1>3

-----------------------------------------------------------------------------
(* HttpClient: the actions that are left, and what becomes of sockets.     *)

Elements(f) == {f[i] : i \in DOMAIN f}
HttpTyped ==
  /\ http_at \in {"next", "send", "wait", "more", "answered", "crashed", "done"} /\ http_sock \in {"none", "open", "closed"}
  /\ http_held \in BOOLEAN /\ http_failed \in BOOLEAN /\ http_lost \in BOOLEAN /\ http_ret \in {1, 0, -1, -2, -10}
FramesKept ==
  /\ http_frames \in Seq(Elements(http_frames)) /\ Len(http_frames) <= MaxDepth + 1
  /\ http_at # "done" => Len(http_frames) >= 1

LEMMA InItsRange ==
  ASSUME NEW S, NEW f \in Seq(S)
  PROVE  f \in Seq(Elements(f))
<1>1. f \in [1..Len(f) -> S] /\ DOMAIN f = 1..Len(f) /\ Len(f) \in Nat
  BY LenProperties
<1>2. f = [i \in 1..Len(f) |-> f[i]] /\ \A i \in 1..Len(f) : f[i] \in Elements(f)
  BY <1>1 DEF Elements
<1>3. f \in [1..Len(f) -> Elements(f)]
  BY <1>2
<1> QED
  BY <1>1, <1>3

\* The innermost run goes on with its next action.
LEMMA DoneKeeps ==
  ASSUME NEW S, NEW f \in Seq(S), Len(f) >= 1
  PROVE  Http!Done(f) \in Seq(Elements(Http!Done(f))) /\ Len(Http!Done(f)) = Len(f)
<1> DEFINE n == Len(f)
           t == Tail(f[n])
           T == S \cup {t}
<1>1. n \in Nat /\ n \in 1..n /\ f \in [1..n -> S] /\ DOMAIN f = 1..n
  BY LenProperties
<1>2. f \in Seq(T) /\ t \in T
  BY <1>1
<1>3. Http!Done(f) = [f EXCEPT ![n] = t]
  BY <1>1 DEF Http!Done
<1> HIDE DEF n, t, T
<1>4. [f EXCEPT ![n] = t] \in Seq(T) /\ Len([f EXCEPT ![n] = t]) = Len(f)
  BY <1>1, <1>2, ExceptSeq DEF n
<1> QED
  BY <1>3, <1>4, InItsRange

LEMMA NextActionKeeps ==
  ASSUME FramesKept, http_at # "done", Http!NextAction
  PROVE  FramesKept'
<1>1. http_frames' = Http!Done(http_frames) /\ http_at' = "next"
  BY DEF Http!NextAction
<1>2. Http!Done(http_frames) \in Seq(Elements(Http!Done(http_frames))) /\ Len(Http!Done(http_frames)) = Len(http_frames)
  BY DoneKeeps DEF FramesKept
<1>3. http_frames' \in Seq(Elements(http_frames')) /\ Len(http_frames') = Len(http_frames)
  BY <1>1, <1>2
<1> QED
  BY <1>3 DEF FramesKept, Elements

LEMMA ReturnsKeeps ==
  ASSUME FramesKept, http_at # "done", NEW code, Http!Returns(code)
  PROVE  FramesKept' /\ http_at' \in {"next", "done"} /\ http_sock' = "none" /\ http_ret' \in {code, http_ret}
<1>1. http_sock' = "none"
  BY DEF Http!Returns
<1>2. MaxDepth \in Nat
  BY ServicesAssumption
<1>3. CASE Len(http_frames) = 1
  <2>1. http_frames' = << >> /\ http_at' = "done" /\ http_ret' = code
    BY <1>3 DEF Http!Returns
  <2>2. Len(http_frames') = 0 /\ http_frames' \in Seq(Elements(http_frames'))
    BY <2>1, EmptySeq
  <2> QED BY <1>1, <1>2, <2>1, <2>2 DEF FramesKept, Elements
<1>4. CASE Len(http_frames) # 1
  <2> DEFINE S == Elements(http_frames)
             g == Http!Front(http_frames)
  <2>1. http_frames' = Http!Done(g) /\ http_at' = "next" /\ http_ret' = http_ret
    BY <1>4 DEF Http!Returns
  <2>2. http_frames \in Seq(S) /\ Len(http_frames) \in Nat /\ Len(http_frames) >= 2 /\ Len(http_frames) <= MaxDepth + 1
    <3>1. http_frames \in Seq(S) /\ Len(http_frames) <= MaxDepth + 1 /\ Len(http_frames) >= 1
      BY DEF FramesKept
    <3> HIDE DEF S
    <3>2. Len(http_frames) \in Nat
      BY <3>1, LenProperties
    <3> DEFINE m == Len(http_frames)
    <3>3. m \in Nat /\ m >= 1 /\ m # 1
      BY <1>4, <3>1, <3>2
    <3> HIDE DEF m
    <3>4. m >= 2
      BY <3>3
    <3> QED BY <3>1, <3>2, <3>4 DEF m
  <2> HIDE DEF S
  <2>3. \A i \in 1..(Len(http_frames) - 1) : http_frames[i] \in S
    BY <2>2
  <2>4. g \in Seq(S) /\ Len(g) = Len(http_frames) - 1
    <3>1. 1 <= Len(http_frames) - 1 /\ 1 \in Int /\ Len(http_frames) - 1 \in Int /\ Len(http_frames) - 1 - 1 + 1 = Len(http_frames) - 1
      BY <2>2
    <3> QED BY <2>3, <3>1, SubSeqProperties DEF Http!Front
  <2> HIDE DEF g
  <2>5. Len(g) >= 1
    BY <2>2, <2>4
  <2>6. Http!Done(g) \in Seq(Elements(Http!Done(g))) /\ Len(Http!Done(g)) = Len(g)
    BY <2>4, <2>5, DoneKeeps
  <2>7. http_frames' \in Seq(Elements(http_frames')) /\ Len(http_frames') = Len(http_frames) - 1
    BY <2>1, <2>4, <2>6
  <2>8. Len(http_frames') <= MaxDepth + 1 /\ Len(http_frames') >= 1
    BY <1>2, <2>2, <2>7
  <2> QED BY <1>1, <2>1, <2>7, <2>8 DEF FramesKept, Elements
<1> QED
  BY <1>3, <1>4

-----------------------------------------------------------------------------
(* HttpClient: an answer and what has come of it.                          *)

End == [tag |-> "end"]
Tokens == HeaderLines \cup BodyBytes \cup {End, [tag |-> "CR"], [tag |-> "LF"]}
Parses == [code : Int, toReceive : Int, length : Int, data : Seq(Tokens), location : Seq(Locations)]
Whole(a) == a.lines \o <<End>> \o a.body

\* The first so many tokens have come: a part of the header, or all of it, the line that ends it and some of the body.
Came(a, p) ==
  LET w == Whole(http_answer)
      n == Len(http_answer.lines)
  IN /\ p \in 0..Len(w) /\ http_wire = SubSeq(w, p + 1, Len(w))
     /\ a.length < 0 => p <= n /\ ~http_held /\ a.data = << >>
     /\ a.length >= 0 => p > n /\ a.length = Len(a.data)
     /\ a.length >= 0 /\ ~(http_held /\ p > n + 1) => a.data = SubSeq(w, n + 2, p)
     /\ a.length >= 0 /\ http_held /\ p > n + 1 => a.data = Http!CRLF \o SubSeq(w, n + 2, p)
Begun(a) ==
  /\ http_answer \in Answers /\ http_held \in BOOLEAN /\ a \in Parses /\ a.toReceive \in {-1, Len(http_answer.body)}
  /\ \E p \in Nat : Came(a, p)
AnswerKept ==
  /\ http_at = "send" => ~http_held
  /\ http_at = "wait" /\ http_sock = "open" => ~http_held /\ http_answer \in Answers /\ http_wire = Whole(http_answer)
  /\ http_at = "more" => http_sock = "open" /\ Begun(http_ans)
  /\ Http!DataIsTheBody
HttpInv == HttpTyped /\ FramesKept /\ Http!SocketsClosed /\ AnswerKept

\* Of what a line tells.
LEMMA LinesTell ==
  ASSUME NEW l \in HeaderLines
  PROVE  /\ l.tag # "end" /\ (l.tag = "code" => l.code \in Int) /\ (l.tag = "length" => l.length \in Int)
         /\ (l.tag = "location" => l.location \in Locations)
BY DEF HeaderLines

\* An answer is its lines, an empty line and its body, one after the other.
LEMMA WholeAnswer ==
  ASSUME NEW a \in Answers
  PROVE  /\ a.lines \in Seq(HeaderLines) /\ Len(a.lines) \in Nat /\ Len(a.body) \in Nat
         /\ Whole(a) \in Seq(Tokens) /\ Len(Whole(a)) = Len(a.lines) + 1 + Len(a.body)
         /\ \A i \in 1..Len(a.lines) : Whole(a)[i] = a.lines[i]
         /\ Whole(a)[Len(a.lines) + 1] = End
         /\ a.body = SubSeq(Whole(a), Len(a.lines) + 2, Len(Whole(a)))
<1> DEFINE L == a.lines
           b == a.body
           h == L \o <<End>>
<1>1. L \in Seq(HeaderLines) /\ b \in Seq(BodyBytes)
  BY AnswersAssumption
<1> HIDE DEF L, b
<1>2. L \in Seq(Tokens) /\ b \in Seq(Tokens) /\ End \in Tokens /\ Len(L) \in Nat /\ Len(b) \in Nat
  BY <1>1, LenProperties DEF Tokens
<1>3. <<End>> \in Seq(Tokens) /\ Len(<<End>>) = 1 /\ <<End>>[1] = End
  BY <1>2
<1>4. /\ h \in Seq(Tokens) /\ Len(h) = Len(L) + 1
      /\ \A i \in 1..(Len(L) + 1) : h[i] = IF i <= Len(L) THEN L[i] ELSE <<End>>[i - Len(L)]
  BY <1>2, <1>3, ConcatProperties
<1>5. (\A i \in 1..Len(L) : h[i] = L[i]) /\ h[Len(L) + 1] = End
  BY <1>2, <1>3, <1>4
<1> HIDE DEF h
<1> DEFINE w == h \o b
<1>6. /\ w \in Seq(Tokens) /\ Len(w) = Len(L) + 1 + Len(b)
      /\ \A i \in 1..(Len(h) + Len(b)) : w[i] = IF i <= Len(h) THEN h[i] ELSE b[i - Len(h)]
  <2>1. h \in Seq(Tokens) /\ b \in Seq(Tokens) /\ Len(h) = Len(L) + 1
    BY <1>2, <1>4
  <2>2. /\ w \in Seq(Tokens) /\ Len(w) = Len(h) + Len(b)
        /\ \A i \in 1..(Len(h) + Len(b)) : w[i] = IF i <= Len(h) THEN h[i] ELSE b[i - Len(h)]
    BY <2>1, ConcatProperties
  <2> QED BY <2>1, <2>2
<1>7. w = Whole(a)
  BY DEF Whole, L, b, h
<1> HIDE DEF w
<1>8. (\A i \in 1..Len(L) : w[i] = L[i]) /\ w[Len(L) + 1] = End
  BY <1>2, <1>4, <1>5, <1>6
<1>9. b = SubSeq(w, Len(L) + 2, Len(w))
  <2>1. \A i \in (Len(L) + 2)..Len(w) : w[i] \in Tokens
    BY <1>2, <1>6
  <2> DEFINE s == SubSeq(w, Len(L) + 2, Len(w))
             m == Len(L) + 2
             k == Len(w)
  <2>2. m \in Int /\ k \in Int
    BY <1>2, <1>6
  <2>3. /\ s \in Seq(Tokens) /\ Len(s) = (IF m <= k THEN k - m + 1 ELSE 0)
        /\ \A i \in 1..(k - m + 1) : s[i] = w[m + i - 1]
    BY <2>1, <2>2, SubSeqProperties
  <2>4. k - m + 1 = Len(b) /\ Len(s) = Len(b)
    BY <1>2, <1>6, <2>3
  <2>5. \A i \in 1..Len(b) : s[i] = b[i]
    <3>1. \A i \in 1..Len(b) : m + i - 1 = Len(h) + i /\ Len(h) + i \in 1..(Len(h) + Len(b)) /\ ~(Len(h) + i <= Len(h)) /\ Len(h) + i - Len(h) = i
      <4>1. PICK x \in Nat, y \in Nat, z \in Nat : x = Len(L) /\ y = Len(b) /\ z = Len(h) /\ z = x + 1
        BY <1>2, <1>4
      <4>2. \A i \in 1..y : (x + 2) + i - 1 = z + i /\ z + i \in 1..(z + y) /\ ~(z + i <= z) /\ z + i - z = i
        BY <4>1
      <4> QED BY <4>1, <4>2
    <3> HIDE DEF m
    <3> QED BY <1>6, <2>3, <2>4, <3>1
  <2> HIDE DEF s
  <2>6. b = s
    BY <1>2, <2>3, <2>4, <2>5, SeqEqual
  <2> QED BY <2>6 DEF s
<1> QED
  BY <1>1, <1>2, <1>6, <1>7, <1>8, <1>9 DEF L, b

\* A part of a part.
LEMMA PartOfPart ==
  ASSUME NEW S, NEW s \in Seq(S), NEW a \in Nat \ {0}, NEW b \in Nat, a <= b + 1, b <= Len(s),
         NEW i \in Nat \ {0}, NEW j \in Nat, i <= j + 1, j <= b - a + 1
  PROVE  SubSeq(SubSeq(s, a, b), i, j) = SubSeq(s, a + i - 1, a + j - 1)
<1> DEFINE t == SubSeq(s, a, b)
           u == SubSeq(t, i, j)
           v == SubSeq(s, a + i - 1, a + j - 1)
<1>1. Len(s) \in Nat /\ s \in [1..Len(s) -> S]
  BY LenProperties
<1>2. /\ t \in Seq(S) /\ Len(t) = b - a + 1
      /\ \A k \in 1..(b - a + 1) : t[k] = s[a + k - 1]
  <2>1. \A k \in a..b : s[k] \in S
    BY <1>1
  <2>2. t \in Seq(S) /\ Len(t) = (IF a <= b THEN b - a + 1 ELSE 0) /\ \A k \in 1..(b - a + 1) : t[k] = s[a + k - 1]
    BY <2>1, SubSeqProperties
  <2> QED BY <2>2
<1> HIDE DEF t
<1>3. /\ u \in Seq(S) /\ Len(u) = j - i + 1
      /\ \A k \in 1..(j - i + 1) : u[k] = t[i + k - 1]
  <2>1. \A k \in i..j : t[k] \in S
    BY <1>1, <1>2
  <2> HIDE DEF v
  <2>2. i \in Int /\ j \in Int
    OBVIOUS
  <2>3. u \in Seq(S) /\ Len(u) = (IF i <= j THEN j - i + 1 ELSE 0) /\ \A k \in 1..(j - i + 1) : u[k] = t[i + k - 1]
    BY <2>1, <2>2, SubSeqProperties, SMTT(30)
  <2> QED BY <2>3
<1> HIDE DEF u
<1> DEFINE x == a + i - 1
           y == a + j - 1
<1>4. x \in Int /\ y \in Int /\ y - x + 1 = j - i + 1 /\ (x <= y <=> i <= j) /\ 1 <= x /\ y <= Len(s)
  BY <1>1
<1>5. \A k \in x..y : s[k] \in S
  BY <1>1, <1>4
<1>6. v = SubSeq(s, x, y)
  OBVIOUS
<1> HIDE DEF x, y, v
<1>7. /\ v \in Seq(S) /\ Len(v) = (IF x <= y THEN y - x + 1 ELSE 0)
      /\ \A k \in 1..(y - x + 1) : v[k] = s[x + k - 1]
  BY <1>4, <1>5, <1>6, SubSeqProperties
<1>8. Len(v) = j - i + 1 /\ \A k \in 1..(j - i + 1) : v[k] = s[x + k - 1]
  BY <1>4, <1>7
<1>9. \A k \in 1..(j - i + 1) : i + k - 1 \in 1..(b - a + 1) /\ a + (i + k - 1) - 1 = x + k - 1
  BY DEF x
<1>10. \A k \in 1..(j - i + 1) : u[k] = v[k]
  <2> TAKE k \in 1..(j - i + 1)
  <2>1. u[k] = t[i + k - 1] /\ v[k] = s[x + k - 1]
    BY <1>3, <1>8
  <2>2. t[i + k - 1] = s[a + (i + k - 1) - 1]
    BY <1>2, <1>9
  <2>3. a + (i + k - 1) - 1 = x + k - 1
    BY <1>9
  <2> QED BY <2>1, <2>2, <2>3, Zenon
<1>11. u = v
  BY <1>3, <1>7, <1>8, <1>10, SeqEqual
<1> QED
  BY <1>11 DEF t, u, v

LEMMA LastThere ==
  ASSUME NEW n \in Nat, NEW I \in SUBSET (1..n), I # {}
  PROVE  Http!Max(I) \in I
<1> DEFINE D == {n - x : x \in I}
<1>1. D \in SUBSET Nat /\ D # {}
  <2>1. \A x \in I : x \in 1..n
    OBVIOUS
  <2>2. \A x \in 1..n : n - x \in Nat
    OBVIOUS
  <2> QED BY <2>1, <2>2
<1>2. \E x \in D : \A y \in D : ~(<<y, x>> \in OpToRel(<, Nat))
  BY <1>1, WFMin, NatLessThanWellFounded, Zenon
<1>3. \E x \in D : \A y \in D : ~(y < x)
  BY <1>1, <1>2, Zenon DEF OpToRel
<1>4. PICK x \in I : \A y \in I : ~(n - y < n - x)
  BY <1>3
<1>5. \A y \in I : x >= y
  BY <1>4
<1> QED
  BY <1>5 DEF Http!Max

LEMMA FirstThere ==
  ASSUME NEW I \in SUBSET Nat, NEW x \in I, \A y \in I : x <= y
  PROVE  Http!Min(I) = x
<1>1. \A z \in I : (\A y \in I : z <= y) => z = x
  OBVIOUS
<1> QED
  BY <1>1 DEF Http!Min

\* The last line that tells something is one that tells it.
LEMMA ToldThere ==
  ASSUME NEW S, NEW L \in Seq(S), NEW tag
  PROVE  Http!Told(tag, L) = 0 \/ (Http!Told(tag, L) \in 1..Len(L) /\ L[Http!Told(tag, L)].tag = tag)
<1> DEFINE I == {i \in 1..Len(L) : L[i].tag = tag}
<1>1. Len(L) \in Nat /\ I \in SUBSET (1..Len(L))
  BY LenProperties
<1>2. Http!Told(tag, L) = IF I # {} THEN Http!Max(I) ELSE 0
  BY Zenon DEF Http!Told, Http!SelectLastInSeq
<1>3. \A i \in I : i \in 1..Len(L) /\ L[i].tag = tag
  OBVIOUS
<1> HIDE DEF I
<1> QED
  BY <1>1, <1>2, <1>3, LastThere

\* The header changes the code, the length to wait for and the place to go to.
LEMMA HeaderTells ==
  ASSUME NEW L \in Seq(HeaderLines), NEW a \in Parses
  PROVE  /\ Http!Header(a, L) \in Parses /\ Http!Header(a, L).length = a.length /\ Http!Header(a, L).data = a.data
         /\ \/ Http!Header(a, L).toReceive = a.toReceive
            \/ \E i \in 1..Len(L) : L[i].tag = "length" /\ Http!Header(a, L).toReceive = L[i].length
<1> DEFINE c == Http!Told("code", L)
           n == Http!Told("length", L)
           o == Http!Told("location", L)
           cv == IF c = 0 THEN a.code ELSE L[c].code
           nv == IF n = 0 THEN a.toReceive ELSE L[n].length
           ov == IF o = 0 THEN a.location ELSE <<L[o].location>>
<1>1. Http!Header(a, L) = [a EXCEPT !.code = cv, !.toReceive = nv, !.location = ov]
  BY DEF Http!Header
<1>2. \A i \in 1..Len(L) : L[i] \in HeaderLines
  BY LenProperties
<1>3. /\ c = 0 \/ (c \in 1..Len(L) /\ L[c].tag = "code")
      /\ n = 0 \/ (n \in 1..Len(L) /\ L[n].tag = "length")
      /\ o = 0 \/ (o \in 1..Len(L) /\ L[o].tag = "location")
  BY ToldThere
<1> HIDE DEF c, n, o
<1>4. a.code \in Int /\ a.toReceive \in Int /\ a.location \in Seq(Locations)
  BY DEF Parses
<1>5. cv \in Int /\ nv \in Int
  BY <1>2, <1>3, <1>4, LinesTell
<1>6. ov \in Seq(Locations)
  <2>1. o # 0 => L[o].location \in Locations
    BY <1>2, <1>3, LinesTell
  <2> QED BY <1>4, <2>1
<1>7. nv = a.toReceive \/ \E i \in 1..Len(L) : L[i].tag = "length" /\ nv = L[i].length
  BY <1>3
<1> HIDE DEF cv, nv, ov
<1>8. /\ [a EXCEPT !.code = cv, !.toReceive = nv, !.location = ov] \in Parses
      /\ [a EXCEPT !.code = cv, !.toReceive = nv, !.location = ov].toReceive = nv
      /\ [a EXCEPT !.code = cv, !.toReceive = nv, !.location = ov].length = a.length
      /\ [a EXCEPT !.code = cv, !.toReceive = nv, !.location = ov].data = a.data
  BY <1>5, <1>6 DEF Parses
<1> QED
  BY <1>1, <1>7, <1>8

LEMMA LinesBegin ==
  \A s : \A k \in Nat : (\A i \in 1..k : s[i] \in HeaderLines) =>
    SubSeq(s, 1, k) \in Seq(HeaderLines) /\ Len(SubSeq(s, 1, k)) = k /\ \A i \in 1..k : SubSeq(s, 1, k)[i] = s[i]
<1> TAKE s
<1> TAKE k \in Nat
<1> HAVE \A i \in 1..k : s[i] \in HeaderLines
<1> QED
  BY Beginning

\* What comes of an answer, where the header ends in it, and lines that are of the header.
Part(a, p, n) == SubSeq(Whole(a), p + 1, p + n)
EndsAt(a, p, n) == IF p + n <= Len(a.lines) THEN 0 ELSE Len(a.lines) + 1 - p
OfHeader(a, L) == L \in Seq(HeaderLines) /\ \A i \in 1..Len(L) : \E j \in 1..Len(a.lines) : L[i] = a.lines[j]

\* What comes while the header does: lines of it, and perhaps its end.
LEMMA HeaderComes ==
  ASSUME NEW a \in Answers, NEW p \in 0..Len(a.lines), NEW n \in Nat, p + n <= Len(Whole(a))
  PROVE  /\ Part(a, p, n) \in Seq(Tokens) /\ Len(Part(a, p, n)) = n
         /\ OfHeader(a, Http!LinesOf(Part(a, p, n)))
         /\ Http!EndOfHeader(Part(a, p, n)) = EndsAt(a, p, n)
<1> DEFINE w == Whole(a)
           N == Len(a.lines)
           all == Part(a, p, n)
           I == {i \in 1..Len(all) : all[i].tag = "end"}
<1>1. /\ a.lines \in Seq(HeaderLines) /\ N \in Nat /\ Len(a.body) \in Nat
      /\ w \in Seq(Tokens) /\ Len(w) = N + 1 + Len(a.body)
      /\ \A i \in 1..N : w[i] = a.lines[i]
      /\ w[N + 1] = End
  BY WholeAnswer
<1>2. \A i \in 1..N : a.lines[i] \in HeaderLines
  BY <1>1
<1>3. p \in Nat /\ p <= N /\ N \in Nat /\ Len(w) \in Nat /\ p + n <= Len(w) /\ all = SubSeq(w, p + 1, p + n)
  <2>1. N \in Nat BY <1>1
  <2>2. p \in 0..N OBVIOUS
  <2>3. p \in Nat /\ p <= N BY <2>1, <2>2
  <2>4. Len(w) \in Nat BY <1>1, LenProperties
  <2>5. p + n <= Len(w) OBVIOUS
  <2>6. all = SubSeq(w, p + 1, p + n) BY DEF Part
  <2> QED BY <2>1, <2>3, <2>4, <2>5, <2>6
<1> HIDE DEF w, N, all
<1>4. all \in Seq(Tokens) /\ Len(all) = n /\ \A i \in 1..n : all[i] = w[p + i]
  <2>1. \A i \in (p + 1)..(p + n) : w[i] \in Tokens
    <3>1. \A i \in (p + 1)..(p + n) : i \in 1..Len(w)
      BY <1>3
    <3>2. \A i \in 1..Len(w) : w[i] \in Tokens
      BY <1>1, LenProperties
    <3> QED BY <3>1, <3>2
  <2>2. p + 1 \in Int /\ p + n \in Int /\ p + n - (p + 1) + 1 = n /\ (p + 1 <= p + n <=> 1 <= n) /\ (~(1 <= n) => n = 0)
    BY <1>3
  <2>3. /\ all \in Seq(Tokens) /\ Len(all) = (IF p + 1 <= p + n THEN p + n - (p + 1) + 1 ELSE 0)
        /\ \A i \in 1..(p + n - (p + 1) + 1) : all[i] = w[p + 1 + i - 1]
    BY <1>3, <2>1, <2>2, SubSeqProperties
  <2>4. \A i \in 1..n : p + 1 + i - 1 = p + i
    BY <1>3
  <2> QED BY <2>2, <2>3, <2>4
<1>5. \A i \in 1..n : p + i <= N => p + i \in 1..N /\ all[i] = a.lines[p + i]
  <2>1. \A i \in 1..n : p + i <= N => p + i \in 1..N
    BY <1>3
  <2>2. \A i \in 1..N : w[i] = a.lines[i]
    BY <1>1
  <2> QED BY <1>4, <2>1, <2>2
<1>6. \A i \in 1..n : p + i <= N => all[i] \in HeaderLines /\ all[i].tag # "end"
  BY <1>2, <1>5, LinesTell
<1>7. Http!EndOfHeader(all) = IF I # {} THEN Http!Min(I) ELSE 0
  BY Zenon DEF Http!EndOfHeader, Http!SelectInSeq
<1>8. CASE p + n <= N
  <2>1. I = {}
    <3>1. \A i \in 1..n : p + i <= N
      BY <1>3, <1>8
    <3>2. \A i \in 1..n : all[i].tag # "end"
      BY <1>6, <3>1
    <3> QED BY <1>4, <3>2
  <2>2. Http!EndOfHeader(all) = 0 /\ Http!LinesOf(all) = all
    BY <1>7, <2>1 DEF Http!LinesOf
  <2>3. \A i \in 1..n : p + i <= N
    BY <1>3, <1>8
  <2>4. all \in Seq(HeaderLines)
    <3>1. \A i \in 1..n : all[i] \in HeaderLines
      BY <1>6, <2>3
    <3>2. all \in [1..n -> Tokens] /\ n \in Nat
      BY <1>4, LenProperties
    <3>3. all \in [1..n -> HeaderLines] /\ n \in Nat
      BY <3>1, <3>2
    <3> QED BY <3>3, FunctionIsSeq
  <2>5. OfHeader(a, all)
    BY <1>4, <1>5, <2>3, <2>4 DEF N, OfHeader
  <2>6. EndsAt(a, p, n) = 0
    BY <1>8 DEF EndsAt, N
  <2> QED BY <1>4, <2>2, <2>5, <2>6 DEF all
<1>9. CASE ~(p + n <= N)
  <2> DEFINE e == N + 1 - p
  <2>1. e \in 1..n /\ p + e = N + 1 /\ e \in Nat
    BY <1>1, <1>3, <1>9
  <2>0. e = N + 1 - p
    OBVIOUS
  <2> HIDE DEF e
  <2>2. e \in I
    <3>1. all[e] = End
      BY <1>1, <1>4, <2>1
    <3> QED BY <1>4, <2>1, <3>1 DEF End
  <2>3. \A i \in I : e <= i
    <3>1. ASSUME NEW i \in 1..n, i < e PROVE all[i].tag # "end"
      <4>1. p + i <= N
        BY <1>3, <2>0, <3>1
      <4> QED BY <1>6, <4>1
    <3>2. \A i \in I : i \in 1..n /\ all[i].tag = "end"
      BY <1>4
    <3>3. \A i \in 1..n : all[i].tag = "end" => e <= i
      BY <2>1, <3>1
    <3> QED BY <3>2, <3>3
  <2>4. I \in SUBSET Nat
    BY <1>4
  <2>5. Http!EndOfHeader(all) = e
    <3> HIDE DEF I
    <3>1. Http!Min(I) = e /\ I # {}
      BY <2>2, <2>3, <2>4, FirstThere
    <3> QED BY <1>7, <3>1
  <2>6. e # 0 /\ e - 1 \in 0..n
    BY <1>3, <2>1
  <2>7. Http!LinesOf(all) = SubSeq(all, 1, e - 1)
    BY <2>5, <2>6 DEF Http!LinesOf
  <2> DEFINE s == SubSeq(all, 1, e - 1)
  <2>8. \A i \in 1..(e - 1) : i \in 1..n /\ p + i <= N
    BY <1>3, <2>1
  <2>9. /\ s \in Seq(HeaderLines) /\ Len(s) = e - 1
        /\ \A i \in 1..(e - 1) : s[i] = all[i]
    <3>1. \A i \in 1..(e - 1) : all[i] \in HeaderLines
      BY <1>6, <2>8
    <3>2. PICK k \in Nat : k = e - 1
      BY <2>6
    <3>4. \A i \in 1..k : all[i] \in HeaderLines
      BY <3>1, <3>2
    <3>3. SubSeq(all, 1, k) \in Seq(HeaderLines) /\ Len(SubSeq(all, 1, k)) = k /\ \A i \in 1..k : SubSeq(all, 1, k)[i] = all[i]
      <4>1. k \in Nat
        BY <3>2
      <4> QED BY <3>4, <4>1, LinesBegin
    <3> QED BY <3>2, <3>3
  <2> HIDE DEF s
  <2>10. \A i \in 1..Len(s) : \E j \in 1..N : s[i] = a.lines[j]
    BY <1>5, <2>8, <2>9
  <2>11. OfHeader(a, s)
    BY <2>9, <2>10 DEF N, OfHeader
  <2>12. EndsAt(a, p, n) = e
    BY <1>9, <2>0 DEF EndsAt, N
  <2> QED BY <1>4, <2>5, <2>7, <2>11, <2>12 DEF s, all
<1> QED
  BY <1>8, <1>9

LEMMA BeginsWith ==
  ASSUME NEW S, NEW s \in Seq(S), NEW t \in Seq(S)
  PROVE  Http!IsPrefix(s, s \o t)
<1> DEFINE u == s \o t
<1>1. /\ u \in Seq(S) /\ Len(u) = Len(s) + Len(t) /\ Len(s) \in Nat /\ Len(t) \in Nat
      /\ \A i \in 1..(Len(s) + Len(t)) : u[i] = IF i <= Len(s) THEN s[i] ELSE t[i - Len(s)]
  BY ConcatProperties, LenProperties
<1> HIDE DEF u
<1>2. \A i \in 1..Len(s) : i \in 1..Len(u) /\ u[i] = s[i] /\ s[i] \in S
  BY <1>1, LenProperties
<1>3. PICK k \in Nat : k = Len(s)
  BY <1>1
<1>4. /\ SubSeq(u, 1, k) \in Seq(S) /\ Len(SubSeq(u, 1, k)) = k /\ \A i \in 1..k : SubSeq(u, 1, k)[i] = u[i]
  BY <1>2, <1>3, Beginning
<1>5. SubSeq(u, 1, k) = s
  BY <1>2, <1>3, <1>4, SeqEqual
<1>6. SubSeq(s, 1, k) = s
  BY <1>3, SubSeqFull
<1>7. Len(s) <= Len(u)
  BY <1>1
<1> QED
  BY <1>3, <1>5, <1>6, <1>7 DEF Http!IsPrefix, u

\* The header of an answer says the length of its body; what the header tells does not change its data.
LEMMA HeaderOfAnswer ==
  ASSUME NEW a \in Answers, NEW L, OfHeader(a, L), NEW b \in Parses, b.toReceive \in {-1, Len(a.body)}
  PROVE  /\ Http!Header(b, L) \in Parses /\ Http!Header(b, L).length = b.length /\ Http!Header(b, L).data = b.data
         /\ Http!Header(b, L).toReceive \in {-1, Len(a.body)}
<1>1. \A j \in 1..Len(a.lines) : a.lines[j].tag = "length" => a.lines[j].length = Len(a.body)
  BY AnswersAssumption, LenProperties
<1>2. \A i \in 1..Len(L) : L[i].tag = "length" => L[i].length = Len(a.body)
  BY <1>1 DEF OfHeader
<1>3. L \in Seq(HeaderLines)
  BY DEF OfHeader
<1> QED
  BY <1>2, <1>3, HeaderTells

\* An answer that is as long as its header says is the body.
LEMMA CompleteIsBody ==
  ASSUME Begun(http_ans), http_ans.toReceive >= 0, http_ans.length >= http_ans.toReceive
  PROVE  \/ http_ans.data = http_answer.body
         \/ http_held /\ Http!IsPrefix(Http!CRLF, http_ans.data) /\ Http!IsPrefix(http_ans.data, Http!CRLF \o http_answer.body)
<1> DEFINE w == Whole(http_answer)
           N == Len(http_answer.lines)
           b == http_answer.body
           d == http_ans.data
<1>1. http_answer \in Answers /\ http_ans \in Parses /\ http_ans.toReceive \in {-1, Len(b)}
  BY DEF Begun
<1>2. N \in Nat /\ Len(b) \in Nat /\ w \in Seq(Tokens) /\ Len(w) = N + 1 + Len(b) /\ b = SubSeq(w, N + 2, Len(w))
  BY <1>1, WholeAnswer
<1>3. PICK n \in Nat, m \in Nat, k \in Nat : n = N /\ m = Len(b) /\ k = Len(w) /\ k = n + 1 + m
  <2>1. N \in Nat /\ Len(b) \in Nat /\ Len(w) = N + 1 + Len(b)
    BY <1>2
  <2> DEFINE lb == Len(b)
             lw == Len(w)
  <2> HIDE DEF N, lb, lw
  <2>2. N \in Nat /\ lb \in Nat /\ lw = N + 1 + lb
    BY <2>1 DEF lb, lw
  <2>3. \E n \in Nat, m \in Nat, k \in Nat : n = N /\ m = lb /\ k = lw /\ k = n + 1 + m
    BY <2>2
  <2> QED BY <2>3 DEF lb, lw
<1>4. PICK p \in Nat : Came(http_ans, p)
  BY DEF Begun
<1> DEFINE l == http_ans.length
<1>5. http_ans.toReceive = m /\ l >= m /\ l >= 0 /\ l \in Int
  <2>1. http_ans.toReceive = m /\ l >= m
    BY <1>1, <1>3
  <2>2. l \in Int
    BY <1>1 DEF Parses
  <2> QED BY <1>3, <2>1, <2>2
<1>6. /\ p <= k /\ p > n /\ l = Len(d)
      /\ ~(http_held /\ p > n + 1) => d = SubSeq(w, n + 2, p)
      /\ http_held /\ p > n + 1 => d = Http!CRLF \o SubSeq(w, n + 2, p)
  <2>1. /\ p \in 0..Len(w)
        /\ l >= 0 => p > N /\ l = Len(d)
        /\ l >= 0 /\ ~(http_held /\ p > N + 1) => d = SubSeq(w, N + 2, p)
        /\ l >= 0 /\ http_held /\ p > N + 1 => d = Http!CRLF \o SubSeq(w, N + 2, p)
    BY <1>4 DEF Came
  <2> HIDE DEF w, N, d, l
  <2>6. p \in 0..Len(w)
    BY <2>1
  <2>7. k = Len(w) /\ k \in Nat
    BY <1>3
  <2>8. p \in 0..k
    BY <2>6, <2>7, Zenon
  <2>2. p <= k
    BY <2>7, <2>8
  <2>3. p > N /\ l = Len(d)
    BY <1>5, <2>1
  <2>4. /\ ~(http_held /\ p > N + 1) => d = SubSeq(w, N + 2, p)
        /\ http_held /\ p > N + 1 => d = Http!CRLF \o SubSeq(w, N + 2, p)
    <3>1. l >= 0 BY <1>5
    <3> QED BY <2>1, <3>1, Zenon
  <2>5. n = N
    BY <1>3
  <2> QED BY <2>2, <2>3, <2>4, <2>5, Zenon
<1>7. w \in Seq(Tokens) /\ Len(w) = k /\ b = SubSeq(w, n + 2, k)
  BY <1>2, <1>3
<1> HIDE DEF w, N, b, d, l
<1> DEFINE x == SubSeq(w, n + 2, p)
<1>8. \A i \in 1..k : w[i] \in Tokens
  BY <1>7, LenProperties
<1>9. x \in Seq(Tokens) /\ Len(x) = p - n - 1
  <2>1. \A i \in (n + 2)..p : i \in 1..k
    BY <1>6
  <2>2. \A i \in (n + 2)..p : w[i] \in Tokens
    BY <1>8, <2>1
  <2>3. PICK o \in Nat : o = n + 2
    OBVIOUS
  <2>4. SubSeq(w, o, p) \in Seq(Tokens) /\ Len(SubSeq(w, o, p)) = (IF o <= p THEN p - o + 1 ELSE 0)
    BY <2>2, <2>3, SubSeqProperties
  <2>5. (IF o <= p THEN p - o + 1 ELSE 0) = p - n - 1
    BY <1>6, <2>3
  <2> QED BY <2>3, <2>4, <2>5
<1>10. CASE ~(http_held /\ p > n + 1)
  <2>1. d = x
    BY <1>6, <1>10
  <2>2. l = p - n - 1
    BY <1>6, <1>9, <2>1
  <2>3. p = k
    BY <1>3, <1>5, <1>6, <2>2
  <2> QED BY <1>7, <2>1, <2>3 DEF b, d
<1>11. CASE http_held /\ p > n + 1
  <2> DEFINE y == SubSeq(w, p + 1, k)
             c == Http!CRLF
  <2>1. c \in Seq(Tokens)
    BY DEF Http!CRLF, Tokens
  <2>2. b = x \o y
    <3>1. PICK o \in Nat : o = n + 2 /\ o >= 1 /\ o <= k + 1 /\ o - 1 <= p
      BY <1>3, <1>6, <1>11
    <3>2. o \in 1..(k + 1) /\ p \in (o - 1)..k /\ k \in p..k
      BY <1>6, <3>1
    <3>3. SubSeq(w, o, p) \o SubSeq(w, p + 1, k) = SubSeq(w, o, k)
      BY <1>7, <3>2, ConcatAdjacentSubSeq
    <3> QED BY <1>7, <3>1, <3>3
  <2>3. y \in Seq(Tokens)
    <3>1. \A i \in (p + 1)..k : i \in 1..k
      OBVIOUS
    <3>2. \A i \in (p + 1)..k : w[i] \in Tokens
      BY <1>8, <3>1
    <3>3. p + 1 \in Int /\ k \in Int
      OBVIOUS
    <3> QED BY <3>2, <3>3, SubSeqProperties
  <2>4. d = c \o x
    BY <1>6, <1>11
  <2> HIDE DEF x, y, c
  <2>5. d \in Seq(Tokens)
    BY <1>9, <2>1, <2>4, ConcatProperties
  <2>6. c \o b = d \o y
    <3>1. (c \o x) \o y = c \o (x \o y)
      BY <1>9, <2>1, <2>3, ConcatAssociative
    <3> QED BY <2>2, <2>4, <3>1, Zenon
  <2>7. Http!IsPrefix(c, d)
    BY <1>9, <2>1, <2>4, BeginsWith
  <2>8. Http!IsPrefix(d, c \o b)
    <3>1. Http!IsPrefix(d, d \o y)
      BY <2>3, <2>5, BeginsWith
    <3> QED BY <2>6, <3>1, Zenon
  <2> QED BY <1>11, <2>7, <2>8 DEF b, c, d
<1> QED
  BY <1>10, <1>11

\* The length alone is set.
LEMMA LengthSet ==
  ASSUME NEW h \in Parses
  PROVE  LET r == [h EXCEPT !.length = 0] IN r \in Parses /\ r.toReceive = h.toReceive /\ r.length = 0 /\ r.data = h.data
BY SMTT(30) DEF Parses

\* What becomes of what is known of an answer when more of its header comes, and perhaps the beginning of its body.
LEMMA HeaderArrives ==
  ASSUME NEW a \in Answers, NEW b \in Parses, b.toReceive \in {-1, Len(a.body)}, b.length < 0, b.data = << >>,
         NEW p \in 0..Len(a.lines), NEW n \in Nat, p + n <= Len(Whole(a))
  PROVE  LET N == Len(a.lines)
             r == Http!ParseHeader(b, Part(a, p, n))
         IN /\ r \in Parses /\ r.toReceive \in {-1, Len(a.body)}
            /\ p + n <= N => r.length < 0 /\ r.data = << >> /\ (n # 0 => Http!EndOfHeader(Part(a, p, n)) # n)
            /\ p + n > N => r.length >= 0 /\ r.length = Len(r.data) /\ r.data = SubSeq(Whole(a), N + 2, p + n)
            /\ p + n > N + 1 => Http!EndOfHeader(Part(a, p, n)) # n
<1> DEFINE w == Whole(a)
           N == Len(a.lines)
           came == Part(a, p, n)
           L == Http!LinesOf(came)
           e == Http!EndOfHeader(came)
           h == Http!Header(b, L)
           r == Http!ParseHeader(b, came)
<1>1. /\ came \in Seq(Tokens) /\ Len(came) = n /\ OfHeader(a, L)
      /\ e = IF p + n <= N THEN 0 ELSE N + 1 - p
  <2>1. came \in Seq(Tokens) /\ Len(came) = n /\ OfHeader(a, L) /\ e = EndsAt(a, p, n)
    BY HeaderComes
  <2> QED BY <2>1 DEF EndsAt
<1>2. w \in Seq(Tokens) /\ N \in Nat /\ Len(w) \in Nat
  BY WholeAnswer, LenProperties
<1>3. p \in Nat /\ p <= N /\ p + n <= Len(w)
  <2>1. p \in 0..N /\ N \in Nat
    BY <1>2
  <2> QED BY <2>1
<1>4. r = IF e = 0 THEN h ELSE IF e = Len(came) THEN [h EXCEPT !.length = 0] ELSE Http!Data(h, SubSeq(came, e + 1, Len(came)))
  BY DEF Http!ParseHeader
<1> HIDE DEF L
<1>5. h \in Parses /\ h.length = b.length /\ h.data = b.data /\ h.toReceive \in {-1, Len(a.body)}
  BY <1>1, HeaderOfAnswer
<1> HIDE DEF w, N, came, e, h, r
<1>6. CASE p + n <= N
  <2>1. r = h /\ e = 0
    BY <1>1, <1>4, <1>6
  <2>2. ~(p + n > N) /\ ~(p + n > N + 1)
    BY <1>2, <1>3, <1>6
  <2> QED BY <1>5, <1>6, <2>1, <2>2 DEF r, N, w, came, e
<1>7. CASE ~(p + n <= N)
  <2>1. e = N + 1 - p /\ e \in Nat /\ e >= 1 /\ e <= n /\ p + n > N
    BY <1>1, <1>2, <1>3, <1>7
  <2>2. CASE e = n
    <3>1. p + n = N + 1
      BY <1>2, <1>3, <2>1, <2>2
    <3>2. r = [h EXCEPT !.length = 0]
      BY <1>1, <1>4, <2>1, <2>2
    <3>3. SubSeq(w, N + 2, p + n) = << >>
      BY <1>2, <3>1, SubSeqEmpty
    <3>4. r \in Parses /\ r.toReceive = h.toReceive /\ r.length = 0 /\ r.data = h.data
      BY <1>5, <3>2, LengthSet, Zenon
    <3>5. Len(<< >>) = 0
      OBVIOUS
    <3>6. r.toReceive \in {-1, Len(a.body)} /\ r.data = SubSeq(w, N + 2, p + n)
      BY <1>5, <3>3, <3>4
    <3>7. r.length >= 0 /\ r.length = Len(r.data)
      BY <1>5, <3>4, <3>5
    <3>8. ~(p + n > N + 1) /\ ~(p + n <= N)
      BY <1>2, <1>3, <3>1
    <3> QED BY <3>4, <3>6, <3>7, <3>8 DEF r, N, w, came
  <2>3. CASE e # n
    <3>1. e + 1 <= n /\ p + n > N + 1
      BY <1>2, <1>3, <2>1, <2>3
    <3> DEFINE x == SubSeq(came, e + 1, n)
    <3>2. x = SubSeq(w, N + 2, p + n)
      <4>1. p + 1 \in Nat \ {0} /\ p + n \in Nat /\ p + 1 <= p + n + 1 /\ e + 1 \in Nat \ {0} /\ e + 1 <= n + 1 /\ n <= p + n - (p + 1) + 1
        BY <1>3, <2>1
      <4>2. x = SubSeq(w, p + 1 + (e + 1) - 1, p + 1 + n - 1)
        <5>1. p + 1 \in Nat \ {0} BY <4>1
        <5>2. p + n \in Nat BY <4>1
        <5>3. e + 1 \in Nat \ {0} BY <4>1
        <5>4. p + 1 <= (p + n) + 1 BY <4>1
        <5>5. p + n <= Len(w) BY <1>3
        <5>6. e + 1 <= n + 1 BY <4>1
        <5>7. n <= (p + n) - (p + 1) + 1 BY <4>1
        <5>8. SubSeq(SubSeq(w, p + 1, p + n), e + 1, n) = SubSeq(w, (p + 1) + (e + 1) - 1, (p + 1) + n - 1)
          <6> DEFINE u == p + 1
                     v == p + n
                     o == e + 1
          <6>1. u \in Nat \ {0} /\ v \in Nat /\ o \in Nat \ {0} /\ n \in Nat /\ u <= v + 1 /\ v <= Len(w) /\ o <= n + 1 /\ n <= v - u + 1
            BY <5>1, <5>2, <5>3, <5>4, <5>5, <5>6, <5>7
          <6> HIDE DEF u, v, o
          <6>2. SubSeq(SubSeq(w, u, v), o, n) = SubSeq(w, u + o - 1, u + n - 1)
            BY <1>2, <6>1, PartOfPart, SMTT(20)
          <6> QED BY <6>2 DEF u, v, o
        <5> QED BY <5>8 DEF came, Part, w
      <4>3. p + 1 + (e + 1) - 1 = N + 2 /\ p + 1 + n - 1 = p + n
        BY <1>2, <1>3, <2>1
      <4> QED BY <4>2, <4>3
    <3>3. x \in Seq(Tokens) /\ Len(x) \in Nat
      <4>1. \A i \in (e + 1)..n : i \in 1..Len(came)
        BY <1>1, <2>1
      <4>2. \A i \in 1..Len(came) : came[i] \in Tokens
        BY <1>1, LenProperties
      <4>3. \A i \in (e + 1)..n : came[i] \in Tokens
        BY <4>1, <4>2
      <4>4. e + 1 \in Int /\ n \in Int
        BY <2>1
      <4>5. x \in Seq(Tokens)
        BY <4>3, <4>4, SubSeqProperties
      <4> QED BY <4>5, LenProperties
    <3>4. r = Http!Data(h, x)
      BY <1>1, <1>4, <2>1, <2>3
    <3> HIDE DEF x
    <3>5. Http!Data(h, x) = [h EXCEPT !.data = x, !.length = Len(x)]
      BY DEF Http!Data
    <3>6. r \in Parses /\ r.toReceive = h.toReceive /\ r.length = Len(x) /\ r.data = x
      <4>1. Len(x) \in Int
        BY <3>3
      <4>2. r = [h EXCEPT !.data = x, !.length = Len(x)] /\ h \in Parses
        BY <1>5, <3>4, <3>5
      <4>3. \A l \in Int : l = Len(x) => r \in Parses /\ r.toReceive = h.toReceive /\ r.length = l /\ r.data = x
        <5> TAKE l \in Int
        <5> HAVE l = Len(x)
        <5>1. r = [h EXCEPT !.data = x, !.length = l]
          BY <4>2
        <5> QED BY <3>3, <4>2, <5>1 DEF Parses
      <4> QED BY <4>1, <4>3
    <3>7. r.toReceive \in {-1, Len(a.body)} /\ r.data = SubSeq(w, N + 2, p + n)
      BY <1>5, <3>2, <3>6
    <3>8. r.length >= 0 /\ r.length = Len(r.data)
      BY <3>3, <3>6
    <3> QED BY <1>7, <2>3, <3>6, <3>7, <3>8 DEF r, N, w, came, e
  <2> QED BY <2>2, <2>3
<1> QED
  BY <1>6, <1>7

\* A beginning of the body, and what follows it.
LEMMA BodyGrows ==
  ASSUME NEW a \in Answers, NEW p \in Nat, NEW n \in Nat, p >= Len(a.lines) + 1, p + n <= Len(Whole(a))
  PROVE  LET w == Whole(a)
             N == Len(a.lines)
         IN /\ SubSeq(w, N + 2, p) \in Seq(Tokens) /\ Len(SubSeq(w, N + 2, p)) = p - N - 1
            /\ SubSeq(w, p + 1, p + n) \in Seq(Tokens)
            /\ SubSeq(w, N + 2, p) \o SubSeq(w, p + 1, p + n) = SubSeq(w, N + 2, p + n)
<1> DEFINE w == Whole(a)
           N == Len(a.lines)
           x == SubSeq(w, N + 2, p)
           y == SubSeq(w, p + 1, p + n)
<1>1. w \in Seq(Tokens) /\ N \in Nat /\ Len(w) \in Nat /\ Len(w) = N + 1 + Len(a.body)
  BY WholeAnswer, LenProperties
<1>2. p >= N + 1 /\ p + n <= Len(w)
  OBVIOUS
<1>7. PICK m \in Nat, q \in Nat : m = N /\ q = Len(w) /\ p >= m + 1 /\ p + n <= q
  BY <1>1, <1>2
<1> HIDE DEF w, N
<1>3. \A i \in 1..Len(w) : w[i] \in Tokens
  BY <1>1, LenProperties
<1>4. x \in Seq(Tokens) /\ Len(x) = p - N - 1
  <2>1. \A i \in (m + 2)..p : i \in 1..q
    BY <1>7
  <2>2. \A i \in (m + 2)..p : w[i] \in Tokens
    BY <1>3, <1>7, <2>1
  <2>3. PICK o \in Nat : o = m + 2
    BY <1>7
  <2>4. SubSeq(w, o, p) \in Seq(Tokens) /\ Len(SubSeq(w, o, p)) = (IF o <= p THEN p - o + 1 ELSE 0)
    BY <2>2, <2>3, SubSeqProperties
  <2>5. (IF o <= p THEN p - o + 1 ELSE 0) = p - N - 1
    BY <1>1, <1>2, <1>7, <2>3
  <2> QED BY <1>7, <2>3, <2>4, <2>5
<1>5. y \in Seq(Tokens)
  <2>1. \A i \in (p + 1)..(p + n) : i \in 1..q
    BY <1>7
  <2>2. \A i \in (p + 1)..(p + n) : w[i] \in Tokens
    BY <1>3, <1>7, <2>1
  <2>3. p + 1 \in Int /\ p + n \in Int
    OBVIOUS
  <2> QED BY <2>2, <2>3, SubSeqProperties
<1>6. x \o y = SubSeq(w, N + 2, p + n)
  <2>1. PICK o \in Nat, k \in Nat : o = m + 2 /\ k = p + n /\ o >= 1 /\ o <= q + 1 /\ o - 1 <= p
    BY <1>7
  <2>4. o \in 1..(q + 1) /\ p \in (o - 1)..q /\ k \in p..q
    BY <1>7, <2>1
  <2>2. o \in 1..(Len(w) + 1) /\ p \in (o - 1)..Len(w) /\ k \in p..Len(w)
    BY <1>7, <2>4
  <2>3. SubSeq(w, o, p) \o SubSeq(w, p + 1, k) = SubSeq(w, o, k)
    BY <1>1, <2>2, ConcatAdjacentSubSeq
  <2> QED BY <1>7, <2>1, <2>3
<1> QED
  BY <1>4, <1>5, <1>6 DEF w, N, x, y

\* More of the body: what has come already, the line end behind the header if it was held and nothing has come yet, and the rest.
LEMMA BodyArrives ==
  ASSUME NEW a \in Answers, NEW b \in Parses, b.length = Len(b.data), http_held \in BOOLEAN,
         NEW p \in Nat, NEW n \in Nat \ {0}, p >= Len(a.lines) + 1, p + n <= Len(Whole(a)),
         ~(http_held /\ p > Len(a.lines) + 1) => b.data = SubSeq(Whole(a), Len(a.lines) + 2, p),
         http_held /\ p > Len(a.lines) + 1 => b.data = Http!CRLF \o SubSeq(Whole(a), Len(a.lines) + 2, p)
  PROVE  LET all == SubSeq(Whole(a), p + 1, p + n)
             to == SubSeq(Whole(a), Len(a.lines) + 2, p + n)
             r == Http!More(b, all)
         IN /\ r \in Parses /\ r.toReceive = b.toReceive /\ r.length >= 0 /\ r.length = Len(r.data)
            /\ r.data = IF http_held THEN Http!CRLF \o to ELSE to
<1> DEFINE w == Whole(a)
           N == Len(a.lines)
           x == SubSeq(w, N + 2, p)
           y == SubSeq(w, p + 1, p + n)
           z == SubSeq(w, N + 2, p + n)
           c == Http!CRLF
           r == Http!More(b, y)
<1>1. x \in Seq(Tokens) /\ Len(x) = p - N - 1 /\ y \in Seq(Tokens) /\ x \o y = z
  BY BodyGrows
<1>2. N \in Nat /\ p >= N + 1
  BY WholeAnswer
<1>3. b.data = IF http_held /\ p > N + 1 THEN c \o x ELSE x
  BY Zenon
<1>4. c \in Seq(Tokens) /\ Len(c) = 2
  BY DEF Http!CRLF, Tokens
<1> DEFINE g == IF http_held /\ b.data = << >> THEN c ELSE << >>
<1>5. r = [b EXCEPT !.data = @ \o (g \o y), !.length = @ + Len(g \o y)]
  BY DEF Http!More
<1> HIDE DEF w, N, x, y, z, c, r
<1>6. b.data \in Seq(Tokens) /\ g \in Seq(Tokens) /\ g \o y \in Seq(Tokens)
  <2>1. g \in Seq(Tokens)
    BY <1>4
  <2>2. b.data \in Seq(Tokens)
    BY DEF Parses
  <2> HIDE DEF g
  <2> QED BY <1>1, <2>1, <2>2, ConcatProperties
<1>7. b.data \o (g \o y) = IF http_held THEN c \o z ELSE z
  <2>1. CASE ~http_held
    <3>1. b.data = x /\ g = << >>
      BY <1>3, <2>1
    <3>2. g \o y = y
      BY <1>1, <3>1, ConcatEmptySeq
    <3> QED BY <1>1, <2>1, <3>1, <3>2
  <2>2. CASE http_held /\ p > N + 1
    <3>1. b.data = c \o x
      BY <1>3, <2>2
    <3>6. x \in Seq(Tokens) /\ y \in Seq(Tokens) /\ c \in Seq(Tokens)
      BY <1>1, <1>4
    <3>2. Len(b.data) = Len(c) + Len(x) /\ Len(x) \in Nat
      <4>1. Len(c \o x) = Len(c) + Len(x) /\ Len(x) \in Nat
        BY <3>6, ConcatProperties, LenProperties
      <4> QED BY <3>1, <4>1
    <3>3. b.data # << >>
      <4>1. Len(b.data) # 0
        BY <1>4, <3>2
      <4> QED BY <4>1
    <3>4. g \o y = y
      BY <1>1, <3>3, ConcatEmptySeq
    <3>5. (c \o x) \o y = c \o (x \o y)
      BY <3>6, ConcatAssociative
    <3> QED BY <1>1, <2>2, <3>1, <3>4, <3>5
  <2>3. CASE http_held /\ ~(p > N + 1)
    <3>1. b.data = x
      BY <1>3, <2>3
    <3>2. Len(x) = 0
      BY <1>1, <1>2, <2>3
    <3>3. x = << >>
      BY <1>1, <3>2, EmptySeq
    <3>4. g = c
      BY <2>3, <3>1, <3>3
    <3>5. z = y
      BY <1>1, <3>3, ConcatEmptySeq
    <3>6. << >> \o (c \o y) = c \o y
      <4>1. c \o y \in Seq(Tokens)
        BY <1>1, <1>4, ConcatProperties
      <4> QED BY <4>1, ConcatEmptySeq
    <3> QED BY <2>3, <3>1, <3>3, <3>4, <3>5, <3>6
  <2> QED BY <2>1, <2>2, <2>3
<1> HIDE DEF g
<1> DEFINE gy == g \o y
           grown == b.data \o gy
           ln == b.length + Len(gy)
<1>8. grown \in Seq(Tokens) /\ ln = Len(grown) /\ ln \in Nat
  <2>1. gy \in Seq(Tokens) /\ b.data \in Seq(Tokens)
    BY <1>6
  <2> HIDE DEF gy
  <2>2. grown \in Seq(Tokens) /\ Len(grown) = Len(b.data) + Len(gy) /\ Len(grown) \in Nat
    BY <2>1, ConcatProperties, LenProperties
  <2>3. b.length = Len(b.data)
    OBVIOUS
  <2> QED BY <2>2, <2>3
<1>9. r = [b EXCEPT !.data = grown, !.length = ln]
  BY <1>5
<1> HIDE DEF grown, ln
<1>10. r \in Parses /\ r.toReceive = b.toReceive /\ r.length = ln /\ r.data = grown
  <2>1. grown \in Seq(Tokens) /\ ln \in Int
    BY <1>8
  <2>2. b \in Parses
    OBVIOUS
  <2> QED BY <1>9, <2>1, <2>2 DEF Parses
<1>11. grown = IF http_held THEN c \o z ELSE z
  BY <1>7 DEF grown
<1>12. r.length >= 0 /\ r.length = Len(r.data)
  BY <1>8, <1>10
<1> QED
  BY <1>10, <1>11, <1>12 DEF r, z, c, w, N, y

\* Before the first of an answer has come, and after: what is known is of what has come.
LEMMA BeganBegun ==
  ASSUME HttpTyped, AnswerKept, http_at \in {"wait", "more"}, http_sock = "open"
  PROVE  Begun(Http!Began)
<1>1. CASE http_at = "more"
  BY <1>1 DEF AnswerKept, Http!Began
<1>2. CASE http_at = "wait"
  <2> DEFINE w == Whole(http_answer)
             b == Http!Blank
  <2>1. ~http_held /\ http_answer \in Answers /\ http_wire = w
    BY <1>2 DEF AnswerKept
  <2>2. w \in Seq(Tokens) /\ Len(w) \in Nat /\ Len(http_answer.lines) \in Nat
    BY <2>1, WholeAnswer, LenProperties
  <2>3. Http!Began = b
    BY <1>2 DEF Http!Began
  <2>4. b = [code |-> 0, toReceive |-> -1, length |-> -1, data |-> << >>, location |-> << >>]
    BY DEF Http!Blank, Http!NoAnswer
  <2> HIDE DEF b
  <2>5. b \in Parses /\ b.toReceive = -1 /\ b.length = -1 /\ b.data = << >>
    BY <2>4 DEF Parses
  <2> HIDE DEF w
  <2>6. http_wire = SubSeq(w, 0 + 1, Len(w)) /\ 0 \in 0..Len(w)
    <3>1. SubSeq(w, 1, Len(w)) = w
      BY <2>2, SubSeqFull
    <3> QED BY <2>1, <2>2, <3>1
  <2>7. Came(b, 0)
    BY <2>1, <2>2, <2>5, <2>6 DEF Came, w
  <2>8. http_held \in BOOLEAN
    BY DEF HttpTyped
  <2> QED BY <2>1, <2>3, <2>5, <2>7, <2>8 DEF Begun
<1> QED
  BY <1>1, <1>2

\* More of an answer comes.
LEMMA RecvBegun ==
  ASSUME HttpTyped, AnswerKept, Http!Recv
  PROVE  Begun(http_ans)'
<1>1. http_answer' = http_answer /\ http_at \in {"wait", "more"} /\ http_sock = "open"
  BY DEF Http!Recv
<1>2. PICK b : b = Http!Began
  OBVIOUS
<1>3. Begun(b)
  BY <1>1, <1>2, BeganBegun
<1>4. PICK p \in Nat : Came(b, p)
  BY <1>3 DEF Begun
<1>5. PICK n \in 0..Len(http_wire) :
         /\ n = 0 => b.length < 0
         /\ http_wire' = SubSeq(http_wire, n + 1, Len(http_wire))
         /\ http_ans' = (IF b.length >= 0 THEN Http!More(b, SubSeq(http_wire, 1, n)) ELSE Http!ParseHeader(b, SubSeq(http_wire, 1, n)))
         /\ http_held' = (http_held \/ (b.length < 0 /\ n # 0 /\ Http!EndOfHeader(SubSeq(http_wire, 1, n)) = n))
  BY <1>2 DEF Http!Recv, Http!Parsed
<1>6. PICK a \in Answers : a = http_answer
  BY <1>3 DEF Begun
<1>7. PICK N \in Nat, K \in Nat : N = Len(a.lines) /\ K = Len(Whole(a)) /\ Whole(a) \in Seq(Tokens)
  BY WholeAnswer, LenProperties
<1>8. /\ b \in Parses /\ b.toReceive \in {-1, Len(a.body)} /\ http_held \in BOOLEAN /\ b.length \in Int
  BY <1>3, <1>6 DEF Begun, Parses
<1>9. /\ p \in 0..K /\ http_wire = SubSeq(Whole(a), p + 1, K)
      /\ b.length < 0 => p <= N /\ ~http_held /\ b.data = << >>
      /\ b.length >= 0 => p > N /\ b.length = Len(b.data)
      /\ b.length >= 0 /\ ~(http_held /\ p > N + 1) => b.data = SubSeq(Whole(a), N + 2, p)
      /\ b.length >= 0 /\ http_held /\ p > N + 1 => b.data = Http!CRLF \o SubSeq(Whole(a), N + 2, p)
  BY <1>4, <1>6, <1>7 DEF Came
<1>10. p <= K
  BY <1>7, <1>9
<1>11. Len(http_wire) = K - p
  <2>1. \A i \in 1..K : Whole(a)[i] \in Tokens
    BY <1>7, LenProperties
  <2>2. \A i \in (p + 1)..K : Whole(a)[i] \in Tokens
    BY <2>1
  <2>3. Len(SubSeq(Whole(a), p + 1, K)) = IF p + 1 <= K THEN K - (p + 1) + 1 ELSE 0
    <3>1. p + 1 \in Int /\ K \in Int
      OBVIOUS
    <3> QED BY <2>2, <3>1, SubSeqProperties
  <2>4. (IF p + 1 <= K THEN K - (p + 1) + 1 ELSE 0) = K - p
    BY <1>10
  <2> QED BY <1>9, <2>3, <2>4
<1>12. n \in Nat /\ p + n <= K
  <2>1. n \in 0..(K - p)
    BY <1>5, <1>11
  <2> QED BY <1>10, <2>1
<1>13. SubSeq(http_wire, 1, n) = Part(a, p, n)
  <2>1. SubSeq(SubSeq(Whole(a), p + 1, K), 1, n) = SubSeq(Whole(a), (p + 1) + 1 - 1, (p + 1) + n - 1)
    <3> DEFINE u == p + 1
    <3>1. u \in Nat \ {0} /\ u <= K + 1 /\ K <= Len(Whole(a)) /\ 1 \in Nat \ {0} /\ 1 <= n + 1 /\ n <= K - u + 1
      BY <1>7, <1>10, <1>12
    <3> HIDE DEF u
    <3>2. SubSeq(SubSeq(Whole(a), u, K), 1, n) = SubSeq(Whole(a), u + 1 - 1, u + n - 1)
      BY <1>7, <1>12, <3>1, PartOfPart
    <3> QED BY <3>2 DEF u
  <2>2. (p + 1) + 1 - 1 = p + 1 /\ (p + 1) + n - 1 = p + n
    BY <1>12
  <2> QED BY <1>9, <2>1, <2>2 DEF Part
<1>14. http_wire' = SubSeq(Whole(a), (p + n) + 1, K)
  <2>1. SubSeq(SubSeq(Whole(a), p + 1, K), n + 1, K - p) = SubSeq(Whole(a), (p + 1) + (n + 1) - 1, (p + 1) + (K - p) - 1)
    <3> DEFINE u == p + 1
               v == n + 1
               j == K - p
    <3>1. u \in Nat \ {0} /\ u <= K + 1 /\ K <= Len(Whole(a)) /\ v \in Nat \ {0} /\ j \in Nat /\ v <= j + 1 /\ j <= K - u + 1
      BY <1>7, <1>10, <1>12
    <3> HIDE DEF u, v, j
    <3>2. SubSeq(SubSeq(Whole(a), u, K), v, j) = SubSeq(Whole(a), u + v - 1, u + j - 1)
      BY <1>7, <3>1, PartOfPart
    <3> QED BY <3>2 DEF u, v, j
  <2>2. (p + 1) + (n + 1) - 1 = (p + n) + 1 /\ (p + 1) + (K - p) - 1 = K
    BY <1>12
  <2> QED BY <1>5, <1>9, <1>11, <2>1, <2>2
<1>15. PICK q \in Nat : q = p + n /\ q <= K
  BY <1>12
<1>16. q \in 0..K /\ http_wire' = SubSeq(Whole(a), q + 1, K)
  BY <1>14, <1>15
<1>17. http_answer' = a
  BY <1>1, <1>6
<1>18. CASE b.length < 0
  <2>1. p <= N /\ ~http_held /\ b.data = << >>
    BY <1>9, <1>18
  <2>2. ~(b.length >= 0)
    BY <1>8, <1>18
  <2>3. http_ans' = Http!ParseHeader(b, Part(a, p, n)) /\ http_held' = (n # 0 /\ Http!EndOfHeader(Part(a, p, n)) = n)
    BY <1>5, <1>13, <1>18, <2>1, <2>2
  <2> DEFINE r == Http!ParseHeader(b, Part(a, p, n))
  <2>4. /\ r \in Parses /\ r.toReceive \in {-1, Len(a.body)}
        /\ q <= N => r.length < 0 /\ r.data = << >> /\ (n # 0 => Http!EndOfHeader(Part(a, p, n)) # n)
        /\ q > N => r.length >= 0 /\ r.length = Len(r.data) /\ r.data = SubSeq(Whole(a), N + 2, q)
        /\ q > N + 1 => Http!EndOfHeader(Part(a, p, n)) # n
    <3>1. p \in 0..Len(a.lines) /\ p + n <= Len(Whole(a))
      BY <1>7, <1>12, <2>1
    <3>2. /\ r \in Parses /\ r.toReceive \in {-1, Len(a.body)}
          /\ p + n <= Len(a.lines) => r.length < 0 /\ r.data = << >> /\ (n # 0 => Http!EndOfHeader(Part(a, p, n)) # n)
          /\ p + n > Len(a.lines) => r.length >= 0 /\ r.length = Len(r.data) /\ r.data = SubSeq(Whole(a), Len(a.lines) + 2, p + n)
          /\ p + n > Len(a.lines) + 1 => Http!EndOfHeader(Part(a, p, n)) # n
      BY <1>8, <1>12, <1>18, <2>1, <3>1, HeaderArrives
    <3> HIDE DEF r
    <3> QED BY <1>7, <1>15, <3>2
  <2> HIDE DEF r
  <2>5. http_held' \in BOOLEAN /\ (q <= N => ~http_held') /\ (q > N + 1 => ~http_held')
    BY <2>3, <2>4
  <2>6. http_ans' = r
    BY <2>3 DEF r
  <2>7. r.length \in Int
    BY <2>4 DEF Parses
  <2>8. /\ r.length < 0 => q <= N /\ ~http_held' /\ r.data = << >>
        /\ r.length >= 0 => q > N /\ r.length = Len(r.data)
        /\ r.length >= 0 /\ ~(http_held' /\ q > N + 1) => r.data = SubSeq(Whole(a), N + 2, q)
        /\ r.length >= 0 /\ http_held' /\ q > N + 1 => r.data = Http!CRLF \o SubSeq(Whole(a), N + 2, q)
    <3>1. CASE q <= N
      <4>1. r.length < 0 /\ ~(r.length >= 0)
        BY <2>4, <2>7, <3>1
      <4> QED BY <2>4, <2>5, <3>1, <4>1
    <3>2. CASE q > N
      <4>1. r.length >= 0 /\ ~(r.length < 0)
        BY <2>4, <2>7, <3>2
      <4> QED BY <2>4, <2>5, <3>2, <4>1
    <3>3. q <= N \/ q > N
      BY <1>7, <1>15
    <3> QED BY <3>1, <3>2, <3>3
  <2>9. Came(http_ans, q)'
    BY <1>7, <1>16, <1>17, <2>6, <2>8 DEF Came
  <2> QED BY <1>17, <2>4, <2>5, <2>6, <2>9 DEF Begun
<1>19. CASE b.length >= 0
  <2>1. p > N /\ b.length = Len(b.data) /\ n # 0
    BY <1>5, <1>8, <1>9, <1>19
  <2>2. ~(b.length < 0)
    BY <1>8, <1>19
  <2>3. http_ans' = Http!More(b, Part(a, p, n)) /\ http_held' = http_held
    BY <1>5, <1>8, <1>13, <1>19, <2>2
  <2> DEFINE r == Http!More(b, Part(a, p, n))
             to == SubSeq(Whole(a), N + 2, q)
  <2>4. /\ r \in Parses /\ r.toReceive = b.toReceive /\ r.length >= 0 /\ r.length = Len(r.data)
        /\ r.data = IF http_held THEN Http!CRLF \o to ELSE to
    <3>1. p >= Len(a.lines) + 1 /\ p + n <= Len(Whole(a)) /\ n \in Nat \ {0}
      BY <1>7, <1>12, <2>1
    <3>2. /\ ~(http_held /\ p > Len(a.lines) + 1) => b.data = SubSeq(Whole(a), Len(a.lines) + 2, p)
          /\ http_held /\ p > Len(a.lines) + 1 => b.data = Http!CRLF \o SubSeq(Whole(a), Len(a.lines) + 2, p)
      BY <1>7, <1>9, <1>19
    <3>3. LET m == SubSeq(Whole(a), Len(a.lines) + 2, p + n)
              s == Http!More(b, SubSeq(Whole(a), p + 1, p + n)) IN
          /\ s \in Parses /\ s.toReceive = b.toReceive /\ s.length >= 0 /\ s.length = Len(s.data)
          /\ s.data = IF http_held THEN Http!CRLF \o m ELSE m
      BY <1>8, <2>1, <3>1, <3>2, BodyArrives
    <3> QED BY <1>7, <1>15, <3>3 DEF Part
  <2> HIDE DEF r, to
  <2>5. q > N + 1 /\ r.length \in Int
    BY <1>12, <1>15, <2>1, <2>4 DEF Parses
  <2>6. http_ans' = r
    BY <2>3 DEF r
  <2>7. /\ ~(r.length < 0) /\ (~(http_held /\ q > N + 1) => r.data = to)
        /\ (http_held /\ q > N + 1 => r.data = Http!CRLF \o to)
    BY <2>4, <2>5
  <2>8. q > N
    BY <2>5
  <2>9. Came(http_ans, q)'
    BY <1>7, <1>16, <1>17, <2>3, <2>4, <2>6, <2>7, <2>8 DEF Came, to
  <2> QED BY <1>8, <1>17, <2>3, <2>4, <2>6, <2>9 DEF Begun
<1> QED
  BY <1>8, <1>18, <1>19

LEMMA BegunIsTheBody ==
  ASSUME Begun(http_ans)
  PROVE  Http!DataIsTheBody
BY CompleteIsBody DEF Http!DataIsTheBody

\* Between two connections there is no answer to say anything of.
LEMMA NoData ==
  ASSUME http_at \in {"next", "done", "crashed"}
  PROVE  AnswerKept
BY DEF AnswerKept, Http!DataIsTheBody

LEMMA HttpInitInv ==
  ASSUME Http!Init
  PROVE  HttpInv
<1>1. HttpTyped /\ Http!SocketsClosed
  BY DEF Http!Init, HttpTyped, Http!SocketsClosed
<1>2. PICK list : http_frames = <<list>>
  BY DEF Http!Init
<1>3. FramesKept
  <2> DEFINE f == <<list>>
  <2>1. f \in Seq({list}) /\ Len(f) = 1
    OBVIOUS
  <2> HIDE DEF f
  <2>2. f \in Seq(Elements(f))
    BY <2>1, InItsRange
  <2>3. http_frames = f
    BY <1>2 DEF f
  <2>4. MaxDepth \in Nat
    BY ServicesAssumption
  <2>5. Len(http_frames) = 1 /\ 1 <= MaxDepth + 1
    BY <2>1, <2>3, <2>4
  <2> QED BY <2>2, <2>3, <2>5 DEF FramesKept
<1>4. AnswerKept
  BY NoData DEF Http!Init
<1> QED
  BY <1>1, <1>3, <1>4 DEF HttpInv

\* What is left to do is changed only where an action or a run is left, or a redirection begins.
LEMMA FramesStay ==
  ASSUME FramesKept, UNCHANGED http_frames, http_at # "done"
  PROVE  FramesKept'
BY DEF FramesKept, Elements

LEMMA FramesStep ==
  ASSUME HttpTyped, FramesKept, Http!Next
  PROVE  FramesKept'
<1>1. CASE Http!Return
  <2>1. http_at # "done" /\ Http!Returns(0)
    BY <1>1 DEF Http!Return
  <2> QED BY <2>1, ReturnsKeeps
<1>2. CASE Http!Refused
  <2>1. http_at # "done" /\ (Http!NextAction \/ Http!Returns(-10))
    BY <1>2 DEF Http!Refused
  <2> QED BY <2>1, ReturnsKeeps, NextActionKeeps
<1>3. CASE Http!CreateConnection
  BY <1>3, FramesStay DEF Http!CreateConnection, Http!Connectable
<1>4. CASE Http!CreateConnectionFails
  <2>1. http_at # "done" /\ Http!Returns(-1)
    BY <1>4 DEF Http!CreateConnectionFails, Http!Connectable
  <2> QED BY <2>1, ReturnsKeeps
<1>5. CASE Http!SendCommand
  BY <1>5, FramesStay DEF Http!SendCommand, Http!Sent
<1>6. CASE Http!SendCommandFails
  <2>1. http_at # "done" /\ Http!NextAction
    BY <1>6 DEF Http!SendCommandFails
  <2> QED BY <2>1, NextActionKeeps
<1>7. CASE Http!SendFile
  BY <1>7, FramesStay DEF Http!SendFile
<1>8. CASE Http!Recv
  BY <1>8, FramesStay DEF Http!Recv
<1>9. CASE Http!RecvCut
  BY <1>9, FramesStay DEF Http!RecvCut
<1>10. CASE Http!Ended
  <2>1. http_at # "done" /\ (Http!Returns(-2) \/ UNCHANGED http_frames)
    BY <1>10 DEF Http!Ended
  <2> QED BY <2>1, ReturnsKeeps, FramesStay
<1>11. CASE Http!TimedOut
  <2>1. http_at # "done" /\ (Http!Returns(-2) \/ UNCHANGED http_frames)
    BY <1>11 DEF Http!TimedOut
  <2> QED BY <2>1, ReturnsKeeps, FramesStay
<1>12. CASE Http!Callback
  <2>1. http_at # "done" /\ Http!NextAction
    BY <1>12 DEF Http!Callback
  <2> QED BY <2>1, NextActionKeeps
<1>13. CASE Http!Moved
  <2>1. http_at # "done"
    BY <1>13 DEF Http!Moved
  <2>2. CASE UNCHANGED http_frames
    BY <2>1, <2>2, FramesStay
  <2>3. CASE Http!Returns(-10)
    BY <2>1, <2>3, ReturnsKeeps
  <2>4. CASE ~(UNCHANGED http_frames) /\ ~Http!Returns(-10)
    <3>1. Len(http_frames) <= MaxDepth /\ http_at' = "next" /\ \E x : http_frames' = Append(http_frames, x)
      BY <1>13, <2>4 DEF Http!Moved
    <3>2. PICK x : http_frames' = Append(http_frames, x)
      BY <3>1
    <3> DEFINE S == Elements(http_frames) \cup {x}
               g == Append(http_frames, x)
    <3>3. http_frames \in Seq(Elements(http_frames))
      BY DEF FramesKept
    <3>4. http_frames \in Seq(S) /\ x \in S
      <4> DEFINE E == Elements(http_frames)
      <4> HIDE DEF E
      <4>1. http_frames \in Seq(E)
        BY <3>3 DEF E
      <4>2. http_frames \in Seq(E \cup {x})
        BY <4>1
      <4> QED BY <4>2 DEF E
    <3> HIDE DEF S
    <3>5. g \in Seq(S) /\ Len(g) = Len(http_frames) + 1 /\ Len(http_frames) \in Nat
      BY <3>4, AppendProperties, LenProperties
    <3> HIDE DEF g
    <3>6. g \in Seq(Elements(g))
      BY <3>5, InItsRange
    <3>7. http_frames' = g
      BY <3>2 DEF g
    <3>8. MaxDepth \in Nat
      BY ServicesAssumption
    <3>9. PICK m \in Nat : m = Len(http_frames) /\ m <= MaxDepth
      BY <3>1, <3>5
    <3>10. Len(http_frames') = m + 1
      BY <3>5, <3>7, <3>9
    <3>11. m + 1 <= MaxDepth + 1 /\ m + 1 >= 1
      BY <3>8, <3>9
    <3> QED BY <3>6, <3>7, <3>10, <3>11 DEF FramesKept
  <2> QED BY <2>2, <2>3, <2>4
<1> QED
  BY <1>1, <1>2, <1>3, <1>4, <1>5, <1>6, <1>7, <1>8, <1>9, <1>10, <1>11, <1>12, <1>13 DEF Http!Next

\* Where a run is left the socket is, too.
LEMMA Leaves ==
  ASSUME HttpTyped, NEW code \in {0, -1, -2, -10}, Http!Returns(code) \/ (Http!NextAction /\ code = 0)
  PROVE  http_at' \in {"next", "done"} /\ http_sock' = "none" /\ http_ret' \in {1, 0, -1, -2, -10}
<1>1. CASE Http!NextAction
  BY <1>1 DEF Http!NextAction, HttpTyped
<1>2. CASE Http!Returns(code)
  <2>1. http_sock' = "none" /\ http_at' \in {"next", "done"} /\ http_ret' \in {code, http_ret}
    BY <1>2 DEF Http!Returns
  <2> QED BY <2>1 DEF HttpTyped
<1> QED
  BY <1>1, <1>2

\* A step that leaves the run, or the action.
LEMMA LeavesKeep ==
  ASSUME HttpTyped, Http!SocketsClosed, Http!Returns(0) \/ Http!Returns(-1) \/ Http!Returns(-2) \/ Http!Returns(-10) \/ Http!NextAction,
         http_held' = http_held, http_lost' \in BOOLEAN, http_failed' \in BOOLEAN, http_lost' => http_failed'
  PROVE  HttpTyped' /\ Http!SocketsClosed' /\ AnswerKept'
<1>1. http_at' \in {"next", "done"} /\ http_sock' = "none" /\ http_ret' \in {1, 0, -1, -2, -10}
  BY Leaves
<1>2. (http_at \in {"next", "done", "crashed"})'
  BY <1>1
<1>3. AnswerKept'
  BY <1>2, NoData, PTL
<1>4. HttpTyped'
  BY <1>1 DEF HttpTyped
<1>5. Http!SocketsClosed'
  BY DEF Http!SocketsClosed
<1> QED
  BY <1>3, <1>4, <1>5

LEMMA HttpStep ==
  ASSUME HttpInv, Http!Next
  PROVE  HttpTyped' /\ Http!SocketsClosed' /\ AnswerKept'
<1> USE DEF HttpInv
<1>0. HttpTyped /\ Http!SocketsClosed /\ AnswerKept
  OBVIOUS
<1> DEFINE Left == Http!Returns(0) \/ Http!Returns(-1) \/ Http!Returns(-2) \/ Http!Returns(-10) \/ Http!NextAction
           Well == http_held' = http_held /\ http_lost' \in BOOLEAN /\ http_failed' \in BOOLEAN /\ (http_lost' => http_failed')
<1>1. ASSUME Left, Well PROVE HttpTyped' /\ Http!SocketsClosed' /\ AnswerKept'
  BY <1>0, <1>1, LeavesKeep
<1>2. CASE Http!Return
  <2>1. Left BY <1>2 DEF Http!Return
  <2>2. Well BY <1>0, <1>2 DEF Http!Return, HttpTyped, Http!SocketsClosed
  <2> QED BY <1>1, <2>1, <2>2
<1>3. CASE Http!Refused
  <2>1. Left BY <1>3 DEF Http!Refused
  <2>2. Well BY <1>0, <1>3 DEF Http!Refused, Http!Fails, HttpTyped
  <2> QED BY <1>1, <2>1, <2>2
<1>4. CASE Http!CreateConnection
  <2>1. /\ http_at' = "send" /\ http_sock' = "open" /\ http_held' = FALSE
        /\ UNCHANGED <<http_lost, http_failed, http_ret>>
    BY <1>4 DEF Http!CreateConnection
  <2> QED BY <1>0, <2>1 DEF HttpTyped, Http!SocketsClosed, AnswerKept, Http!DataIsTheBody
<1>5. CASE Http!CreateConnectionFails
  <2>1. Left BY <1>5 DEF Http!CreateConnectionFails
  <2>2. Well BY <1>0, <1>5 DEF Http!CreateConnectionFails, Http!Fails, HttpTyped
  <2> QED BY <1>1, <2>1, <2>2
<1>6. CASE Http!SendCommand
  <2>1. /\ http_at = "send" /\ http_at' = "wait" /\ UNCHANGED <<http_sock, http_held, http_lost, http_failed, http_ret>>
        /\ \E a \in Answers : http_answer' = a /\ http_wire' = a.lines \o <<[tag |-> "end"]>> \o a.body
    BY <1>6 DEF Http!SendCommand, Http!Sent
  <2>2. http_answer' \in Answers /\ http_wire' = Whole(http_answer')
    BY <2>1 DEF Whole, End
  <2>3. ~http_held'
    BY <1>0, <2>1 DEF AnswerKept
  <2>4. HttpTyped' /\ Http!SocketsClosed'
    BY <1>0, <2>1 DEF HttpTyped, Http!SocketsClosed
  <2>5. AnswerKept'
    BY <2>1, <2>2, <2>3 DEF AnswerKept, Http!DataIsTheBody, Whole
  <2> QED BY <2>4, <2>5
<1>7. CASE Http!SendCommandFails
  <2>1. Left BY <1>7 DEF Http!SendCommandFails
  <2>2. Well BY <1>0, <1>7 DEF Http!SendCommandFails, Http!Fails, Http!Loses, HttpTyped
  <2> QED BY <1>1, <2>1, <2>2
<1>8. CASE Http!SendFile
  <2>1. http_at' = "wait" /\ http_sock' = "closed" /\ UNCHANGED <<http_held, http_lost, http_failed, http_ret>>
    BY <1>8 DEF Http!SendFile
  <2> QED BY <1>0, <2>1 DEF HttpTyped, Http!SocketsClosed, AnswerKept, Http!DataIsTheBody
<1>9. CASE Http!Recv
  <2>1. Begun(http_ans)'
    BY <1>0, <1>9, RecvBegun
  <2>2. /\ (http_at' = "more" /\ http_sock' = "open") \/ (http_at' = "answered" /\ http_sock' = "closed")
        /\ UNCHANGED <<http_lost, http_failed, http_ret>>
    <3>1. http_sock = "open" /\ UNCHANGED <<http_lost, http_failed, http_ret>>
      BY <1>9 DEF Http!Recv
    <3>2. PICK n : IF Http!Complete(Http!Parsed(n)) THEN http_at' = "answered" /\ http_sock' = "closed" ELSE http_at' = "more" /\ http_sock' = http_sock
      BY <1>9 DEF Http!Recv
    <3>3. (http_at' = "answered" /\ http_sock' = "closed") \/ (http_at' = "more" /\ http_sock' = http_sock)
      BY <3>2, Zenon
    <3> QED BY <3>1, <3>3
  <2>3. Http!DataIsTheBody'
    BY <2>1, BegunIsTheBody, PTL
  <2>4. AnswerKept'
    BY <2>1, <2>2, <2>3 DEF AnswerKept
  <2>5. http_held' \in BOOLEAN
    BY <2>1 DEF Begun
  <2> QED BY <1>0, <2>2, <2>4, <2>5 DEF HttpTyped, Http!SocketsClosed
<1>10. CASE Http!RecvCut
  <2>1. http_at' = "crashed" /\ UNCHANGED <<http_sock, http_held, http_lost, http_failed, http_ret>>
    BY <1>10 DEF Http!RecvCut
  <2> QED BY <1>0, <2>1 DEF HttpTyped, Http!SocketsClosed, AnswerKept, Http!DataIsTheBody
\* What has come is the answer.
<1>11. ASSUME http_at = "more", http_at' = "answered", http_sock' = "closed", UNCHANGED <<http_answer, http_ans, http_held, http_lost, http_failed, http_ret>>
       PROVE  HttpTyped' /\ Http!SocketsClosed' /\ AnswerKept'
  <2>1. Begun(http_ans)
    BY <1>0, <1>11 DEF AnswerKept
  <2>2. Http!DataIsTheBody'
    BY <1>11, <2>1, CompleteIsBody DEF Http!DataIsTheBody, Http!CRLF
  <2> QED BY <1>0, <1>11, <2>2 DEF HttpTyped, Http!SocketsClosed, AnswerKept
<1>12. CASE Http!Ended
  <2>1. CASE http_at = "wait"
    <3>1. Left BY <1>12, <2>1 DEF Http!Ended
    <3>2. Well BY <1>0, <1>12, <2>1 DEF Http!Ended, Http!Closed, Http!Fails, HttpTyped
    <3> QED BY <1>1, <3>1, <3>2
  <2>2. CASE http_at # "wait"
    BY <1>11, <1>12, <2>2 DEF Http!Ended, Http!Closed
  <2> QED BY <2>1, <2>2
<1>13. CASE Http!TimedOut
  <2>1. CASE http_at = "wait" \/ http_ans.length = -1
    <3>1. Left BY <1>13, <2>1 DEF Http!TimedOut
    <3>2. Well BY <1>0, <1>13, <2>1 DEF Http!TimedOut, Http!Loses, Http!Fails, HttpTyped
    <3> QED BY <1>1, <3>1, <3>2
  <2>2. CASE ~(http_at = "wait" \/ http_ans.length = -1)
    BY <1>11, <1>13, <2>2 DEF Http!TimedOut
  <2> QED BY <2>1, <2>2
<1>14. CASE Http!Callback
  <2>1. Left BY <1>14 DEF Http!Callback
  <2>2. Well BY <1>0, <1>14 DEF Http!Callback, HttpTyped, Http!SocketsClosed
  <2> QED BY <1>1, <2>1, <2>2
<1>15. CASE Http!Moved
  <2>1. UNCHANGED <<http_answer, http_ans, http_held, http_lost>>
    BY <1>15 DEF Http!Moved
  <2>2. CASE Http!Returns(-10) /\ Http!Fails
    <3>1. Well
      BY <1>0, <2>1, <2>2 DEF Http!Fails, HttpTyped
    <3> QED BY <1>1, <2>2, <3>1
  <2>3. CASE ~(Http!Returns(-10) /\ Http!Fails)
    <3>1. UNCHANGED <<http_failed, http_ret>> /\ ((http_at' = "crashed" /\ http_sock' = http_sock) \/ (http_at' = "next" /\ http_sock' = "none"))
      <4>1. CASE http_ans.location = << >>
        <5>1. http_at' = "crashed" /\ UNCHANGED <<http_frames, http_sock, http_wire, http_sent, http_failed, http_ret>>
          BY <1>15, <4>1, Zenon DEF Http!Moved
        <5> QED BY <5>1
      <4>2. CASE http_ans.location # << >> /\ http_ans.location[1].ssl
        BY <1>15, <2>3, <4>2, Zenon DEF Http!Moved
      <4>3. CASE http_ans.location # << >> /\ ~http_ans.location[1].ssl
        <5>1. UNCHANGED <<http_failed, http_ret>> /\ http_at' = "next" /\ http_sock' = "none"
          BY <1>15, <4>3 DEF Http!Moved
        <5> QED BY <5>1
      <4> QED BY <4>1, <4>2, <4>3
    <3> QED BY <1>0, <2>1, <3>1 DEF HttpTyped, Http!SocketsClosed, AnswerKept, Http!DataIsTheBody
  <2> QED BY <2>2, <2>3
<1> QED
  BY <1>2, <1>3, <1>4, <1>5, <1>6, <1>7, <1>8, <1>9, <1>10, <1>12, <1>13, <1>14, <1>15 DEF Http!Next

LEMMA HttpStepInv ==
  ASSUME HttpInv, [Http!Next]_(Http!vars)
  PROVE  HttpInv'
<1>1. CASE Http!Next
  BY <1>1, HttpStep, FramesStep DEF HttpInv
<1>2. CASE UNCHANGED Http!vars
  <2>1. /\ http_frames' = http_frames /\ http_at' = http_at /\ http_sock' = http_sock /\ http_wire' = http_wire
        /\ http_answer' = http_answer /\ http_ans' = http_ans /\ http_held' = http_held /\ http_lost' = http_lost
        /\ http_failed' = http_failed /\ http_ret' = http_ret
    BY <1>2 DEF Http!vars
  <2>2. HttpTyped' /\ FramesKept' /\ Http!SocketsClosed'
    BY <2>1 DEF HttpInv, HttpTyped, FramesKept, Elements, Http!SocketsClosed
  <2>3. Begun(http_ans)' <=> Begun(http_ans)
    <3>1. \A p : Came(http_ans, p)' <=> Came(http_ans, p)
      <4> TAKE p
      <4>1. Whole(http_answer)' = Whole(http_answer)
        BY <2>1 DEF Whole
      <4> QED BY <2>1, <4>1, Zenon DEF Came, Http!CRLF
    <3>2. \A p \in Nat : Came(http_ans, p)' <=> Came(http_ans, p)
      BY <3>1
    <3> QED BY <2>1, <3>2, Zenon DEF Begun
  <2>4. Http!DataIsTheBody' <=> Http!DataIsTheBody
    BY <2>1 DEF Http!DataIsTheBody, Http!CRLF
  <2>5. Whole(http_answer)' = Whole(http_answer)
    BY <2>1 DEF Whole
  <2>6. AnswerKept'
    BY <2>1, <2>3, <2>4, <2>5, Zenon DEF HttpInv, AnswerKept
  <2> QED BY <2>2, <2>6 DEF HttpInv
<1> QED
  BY <1>1, <1>2

LEMMA HttpInvKept ==
  ASSUME HttpInv
  PROVE  Http!TypeOK /\ Http!SocketsClosed /\ Http!DataIsTheBody
BY DEF HttpInv, HttpTyped, FramesKept, AnswerKept, Http!TypeOK

-----------------------------------------------------------------------------
(* HttpClient: recursive functions, row by row.                            *)

LEMMA LeastOf ==
  ASSUME NEW S \in SUBSET Nat, S # {}
  PROVE  \E x \in S : \A y \in S : x <= y
<1>1. \E x \in S : \A y \in S : ~(<<y, x>> \in OpToRel(<, Nat))
  BY WFMin, NatLessThanWellFounded, Zenon
<1>2. \E x \in S : \A y \in S : ~(y < x)
  BY <1>1, Zenon DEF OpToRel
<1> QED
  BY <1>2

\* The row i of the cookies that are chosen of a jar, of what lines make of a jar, and of a directory and those above it, after the row v.
Chooses(j, i, v) == IF i = 0 THEN << >> ELSE IF Http!Due(j[i]) THEN Append(v, j[i]) ELSE v
Keeps(lines, i, v) ==
  IF i = 0 THEN Http!cookies
  ELSE IF lines[i].tag # "cookie" THEN v
  ELSE <<Http!Put(v[1], Http!Cookie(lines[i])), Http!Given(v[2], Http!Cookie(lines[i]))>>
Climbs(directory, i, v) == IF i = 0 THEN directory ELSE Http!Up(v)
Row(of, x, i, v) == IF of = 1 THEN Chooses(x, i, v) ELSE IF of = 2 THEN Keeps(x, i, v) ELSE Climbs(x, i, v)

IsRows(of, x, n, h) == h = [i \in 0..n |-> Row(of, x, i, h[i - 1])]

LEMMA RowsThere ==
  ASSUME NEW of, NEW x, NEW N \in Nat
  PROVE  \E h : IsRows(of, x, N, h)
<1> DEFINE Rows(n, h) == h = [i \in 0..n |-> Row(of, x, i, h[i - 1])]
           T == {n \in Nat : ~ \E h : Rows(n, h)}
<1>1. \A v, w : Row(of, x, 0, v) = Row(of, x, 0, w)
  BY DEF Row, Chooses, Keeps, Climbs
<1>2. T = {}
  <2> SUFFICES ASSUME T # {} PROVE FALSE
    OBVIOUS
  <2>1. T \in SUBSET Nat
    OBVIOUS
  <2> HIDE DEF T
  <2>2. PICK m \in T : \A y \in T : m <= y
    BY <2>1, LeastOf
  <2> USE DEF T
  <2>3. m \in Nat /\ ~ \E h : Rows(m, h)
    BY <2>2
  <2>4. CASE m = 0
    <3> DEFINE g == [i \in 0..0 |-> Row(of, x, 0, << >>)]
    <3>1. \A i \in 0..0 : i = 0
      OBVIOUS
    <3>2. \A i \in 0..0 : Row(of, x, 0, << >>) = Row(of, x, i, g[i - 1])
      <4> HIDE DEF g
      <4> QED BY <1>1, <3>1
    <3>3. [i \in 0..0 |-> Row(of, x, 0, << >>)] = [i \in 0..0 |-> Row(of, x, i, g[i - 1])]
      BY <3>2, Zenon
    <3>4. Rows(0, g)
      BY <3>3
    <3> QED BY <2>3, <2>4, <3>4
  <2>5. CASE m # 0
    <3>1. m - 1 \in Nat /\ ~(m <= m - 1)
      BY <2>3, <2>5
    <3>2. ~(m - 1 \in T)
      BY <2>2, <3>1
    <3>3. PICK h : Rows(m - 1, h)
      BY <3>1, <3>2
    <3> DEFINE g == [i \in 0..m |-> IF i = m THEN Row(of, x, m, h[m - 1]) ELSE h[i]]
    <3>4. g[m - 1] = h[m - 1]
      BY <3>1
    <3>5. \A i \in 0..m : g[i] = Row(of, x, i, g[i - 1])
      <4> SUFFICES ASSUME NEW i \in 0..m PROVE g[i] = Row(of, x, i, g[i - 1])
        OBVIOUS
      <4>1. CASE i = m
        BY <3>4, <4>1
      <4>2. CASE i # m
        <5>1. i \in 0..(m - 1) /\ g[i] = h[i]
          BY <2>3, <4>2
        <5>2. h[i] = Row(of, x, i, h[i - 1])
          BY <3>3, <5>1
        <5>3. CASE i = 0
          BY <1>1, <5>1, <5>2, <5>3
        <5>4. CASE i # 0
          <6>1. i - 1 \in 0..m /\ i - 1 # m
            BY <2>3, <5>1, <5>4
          <6>2. g[i - 1] = h[i - 1]
            BY <6>1
          <6> QED BY <5>1, <5>2, <6>2
        <5> QED BY <5>3, <5>4
      <4> QED BY <4>1, <4>2
    <3>6. \A i \in 0..m : (IF i = m THEN Row(of, x, m, h[m - 1]) ELSE h[i]) = Row(of, x, i, g[i - 1])
      BY <3>5
    <3>7. [i \in 0..m |-> IF i = m THEN Row(of, x, m, h[m - 1]) ELSE h[i]] = [i \in 0..m |-> Row(of, x, i, g[i - 1])]
      <4> HIDE DEF g
      <4> QED BY <3>6, Zenon
    <3>8. Rows(m, g)
      BY <3>7
    <3> QED BY <2>3, <3>8
  <2> QED BY <2>4, <2>5
<1>3. \E h : Rows(N, h)
  BY <1>2
<1> QED
  BY <1>3, Zenon DEF IsRows

LEMMA ChosenByRows ==
  ASSUME NEW j, Len(j) \in Nat
  PROVE  /\ Http!Chosen(j)[0] = << >>
         /\ \A i \in 1..Len(j) : Http!Chosen(j)[i] = IF Http!Due(j[i]) THEN Append(Http!Chosen(j)[i - 1], j[i]) ELSE Http!Chosen(j)[i - 1]
<1> DEFINE Rows(h) == h = [i \in 0..Len(j) |-> Chooses(j, i, h[i - 1])]
<1>1. \A i, v : Row(1, j, i, v) = Chooses(j, i, v)
  BY DEF Row
<1>0. PICK N \in Nat : N = Len(j)
  OBVIOUS
<1>2. PICK h : IsRows(1, j, N, h)
  BY RowsThere, Zenon
<1>9. h = [i \in 0..Len(j) |-> Row(1, j, i, h[i - 1])]
  BY <1>0, <1>2, Zenon DEF IsRows
<1>3. Rows(h)
  BY <1>1, <1>9, Zenon
<1>4. Http!Chosen(j) = CHOOSE C : Rows(C)
  BY Zenon DEF Http!Chosen, Chooses
<1>5. Rows(Http!Chosen(j))
  <2> HIDE DEF Rows
  <2> QED BY <1>3, <1>4, Zenon
<1>6. \A i \in 0..Len(j) : Http!Chosen(j)[i] = Chooses(j, i, Http!Chosen(j)[i - 1])
  BY <1>5
<1> QED
  BY <1>6 DEF Chooses

LEMMA JarsByRows ==
  ASSUME NEW lines, Len(lines) \in Nat
  PROVE  /\ Http!Jars(lines)[0] = Http!cookies
         /\ \A i \in 1..Len(lines) : Http!Jars(lines)[i] = Keeps(lines, i, Http!Jars(lines)[i - 1])
<1> DEFINE Rows(h) == h = [i \in 0..Len(lines) |-> Keeps(lines, i, h[i - 1])]
<1>1. \A i, v : Row(2, lines, i, v) = Keeps(lines, i, v)
  BY DEF Row
<1>0. PICK N \in Nat : N = Len(lines)
  OBVIOUS
<1>2. PICK h : IsRows(2, lines, N, h)
  BY RowsThere, Zenon
<1>9. h = [i \in 0..Len(lines) |-> Row(2, lines, i, h[i - 1])]
  BY <1>0, <1>2, Zenon DEF IsRows
<1>3. Rows(h)
  BY <1>1, <1>9, Zenon
<1>4. Http!Jars(lines) = CHOOSE J : Rows(J)
  BY Zenon DEF Http!Jars, Keeps
<1>5. Rows(Http!Jars(lines))
  <2> HIDE DEF Rows
  <2> QED BY <1>3, <1>4, Zenon
<1>6. \A i \in 0..Len(lines) : Http!Jars(lines)[i] = Keeps(lines, i, Http!Jars(lines)[i - 1])
  BY <1>5
<1>7. 0 \in 0..Len(lines) /\ \A i \in 1..Len(lines) : i \in 0..Len(lines)
  OBVIOUS
<1>8. \A v : Keeps(lines, 0, v) = Http!cookies
  BY DEF Keeps
<1> QED
  BY <1>6, <1>7, <1>8, Zenon

-----------------------------------------------------------------------------
(* HttpClient: cookies. A jar has one of each name, domain and path, with  *)
(* the value it was given last.                                            *)

JarKept(j, l) ==
  /\ j \in Seq(Elements(j))
  /\ \A i, k \in 1..Len(j) : Http!Key(j[i]) = Http!Key(j[k]) => i = k
  /\ DOMAIN l = {Http!Key(j[i]) : i \in 1..Len(j)}
  /\ \A i \in 1..Len(j) : l[Http!Key(j[i])] = j[i].value

LEMMA PutKeepsJar ==
  ASSUME NEW j, NEW l, JarKept(j, l), NEW c
  PROVE  JarKept(Http!Put(j, c), Http!Given(l, c))
<1> DEFINE I == {i \in 1..Len(j) : j[i].name = c.name /\ j[i].domain = c.domain /\ j[i].path = c.path}
           S == Elements(j) \cup {c}
           p == Http!Put(j, c)
           g == Http!Given(l, c)
           k == Http!Key(c)
<1>1. j \in Seq(S) /\ Len(j) \in Nat /\ c \in S
  <2>1. j \in Seq(Elements(j))
    BY DEF JarKept
  <2>2. j \in [1..Len(j) -> Elements(j)] /\ Len(j) \in Nat
    BY <2>1, LenProperties
  <2>3. j \in [1..Len(j) -> S]
    BY <2>2
  <2> QED BY <2>2, <2>3
<1>2. \A i, m \in 1..Len(j) : Http!Key(j[i]) = Http!Key(j[m]) => i = m
  BY DEF JarKept
<1>3. DOMAIN l = {Http!Key(j[i]) : i \in 1..Len(j)} /\ \A i \in 1..Len(j) : l[Http!Key(j[i])] = j[i].value
  BY DEF JarKept
<1>4. g = [x \in DOMAIN l \cup {k} |-> IF x = k THEN c.value ELSE l[x]]
  BY DEF Http!Given
<1>5. p = IF I = {} THEN Append(j, c) ELSE [j EXCEPT ![Http!Min(I)] = c]
  <2> DEFINE same == Http!SelectInSeq(j, LAMBDA d : d.name = c.name /\ d.domain = c.domain /\ d.path = c.path)
  <2>1. same = IF I # {} THEN Http!Min(I) ELSE 0
    BY Zenon DEF Http!SelectInSeq
  <2>2. p = IF same = 0 THEN Append(j, c) ELSE [j EXCEPT ![same] = c]
    BY Zenon DEF Http!Put
  <2>3. I # {} => Http!Min(I) # 0
    <3> SUFFICES ASSUME I # {} PROVE Http!Min(I) # 0
      OBVIOUS
    <3>1. I \in SUBSET Nat
      BY <1>1
    <3> HIDE DEF I
    <3>2. PICK x \in I : \A y \in I : x <= y
      BY <3>1, LeastOf
    <3>3. Http!Min(I) = x
      BY <3>1, <3>2, FirstThere
    <3> USE DEF I
    <3> QED BY <3>2, <3>3
  <2> HIDE DEF same, I
  <2> QED BY <2>1, <2>2, <2>3
<1>6. \A i \in 1..Len(j) : i \in I <=> Http!Key(j[i]) = k
  BY DEF Http!Key
<1> HIDE DEF p, g, S
<1>7. CASE I = {}
  <2>1. p = Append(j, c)
    BY <1>5, <1>7
  <2>2. /\ p \in Seq(S) /\ Len(p) = Len(j) + 1 /\ p[Len(j) + 1] = c
        /\ \A i \in 1..Len(j) : p[i] = j[i]
    BY <1>1, <2>1, AppendProperties
  <2>3. p \in Seq(Elements(p))
    BY <2>2, InItsRange
  <2>4. \A i \in 1..Len(j) : Http!Key(j[i]) # k
    BY <1>6, <1>7
  <2>5. 1..Len(p) = 1..Len(j) \cup {Len(j) + 1} /\ ~(Len(j) + 1 \in 1..Len(j))
    BY <1>1, <2>2
  <2>6. \A i, m \in 1..Len(p) : Http!Key(p[i]) = Http!Key(p[m]) => i = m
    <3> HIDE DEF k, I
    <3>1. Http!Key(p[Len(j) + 1]) = k /\ \A i \in 1..Len(j) : Http!Key(p[i]) = Http!Key(j[i])
      BY <2>2 DEF k
    <3> QED BY <1>2, <2>4, <2>5, <3>1, Zenon
  <2>7. DOMAIN g = {Http!Key(p[i]) : i \in 1..Len(p)}
    <3> HIDE DEF k, I
    <3>1. Http!Key(p[Len(j) + 1]) = k /\ \A i \in 1..Len(j) : Http!Key(p[i]) = Http!Key(j[i])
      BY <2>2 DEF k
    <3>2. DOMAIN g = {Http!Key(j[i]) : i \in 1..Len(j)} \cup {k}
      BY <1>3, <1>4
    <3> QED BY <2>5, <3>1, <3>2
  <2>8. \A i \in 1..Len(p) : g[Http!Key(p[i])] = p[i].value
    <3> HIDE DEF I
    <3>1. g[k] = c.value
      BY <1>4
    <3>2. \A i \in 1..Len(j) : g[Http!Key(j[i])] = j[i].value
      <4> HIDE DEF k
      <4> QED BY <1>3, <1>4, <2>4
    <3> QED BY <2>2, <2>5, <3>1, <3>2
  <2> QED BY <2>3, <2>6, <2>7, <2>8 DEF JarKept, p, g
<1>8. CASE I # {}
  <2>1. I \in SUBSET Nat
    BY <1>1
  <2>2. PICK e \in I : Http!Min(I) = e
    <3> HIDE DEF I
    <3>1. PICK x \in I : \A y \in I : x <= y
      BY <1>8, <2>1, LeastOf
    <3> QED BY <2>1, <3>1, FirstThere
  <2>3. p = [j EXCEPT ![e] = c]
    BY <1>5, <1>8, <2>2
  <2>4. e \in 1..Len(j) /\ Http!Key(j[e]) = k
    BY <1>6
  <2>5. p \in Seq(S) /\ Len(p) = Len(j) /\ \A i \in 1..Len(j) : p[i] = IF i = e THEN c ELSE j[i]
    BY <1>1, <2>3, <2>4, ExceptSeq
  <2>6. p \in Seq(Elements(p))
    BY <2>5, InItsRange
  <2> HIDE DEF I
  <2>7. \A i \in 1..Len(j) : Http!Key(p[i]) = Http!Key(j[i])
    BY <2>4, <2>5
  <2>8. \A i, m \in 1..Len(p) : Http!Key(p[i]) = Http!Key(p[m]) => i = m
    BY <1>2, <2>5, <2>7
  <2> HIDE DEF k
  <2>9. DOMAIN g = {Http!Key(p[i]) : i \in 1..Len(p)}
    <3>1. k \in DOMAIN l
      BY <1>3, <2>4
    <3>2. DOMAIN g = {Http!Key(j[i]) : i \in 1..Len(j)}
      BY <1>3, <1>4, <3>1
    <3> QED BY <2>5, <2>7, <3>2
  <2>10. \A i \in 1..Len(p) : g[Http!Key(p[i])] = p[i].value
    <3> SUFFICES ASSUME NEW i \in 1..Len(j) PROVE g[Http!Key(p[i])] = p[i].value
      BY <2>5
    <3>1. CASE i = e
      BY <1>4, <2>4, <2>5, <2>7, <3>1
    <3>2. CASE i # e
      <4>1. Http!Key(j[i]) # k
        BY <1>2, <2>4, <3>2
      <4>2. Http!Key(j[i]) \in DOMAIN l
        BY <1>3
      <4> QED BY <1>3, <1>4, <2>5, <2>7, <3>2, <4>1, <4>2
    <3> QED BY <3>1, <3>2
  <2> QED BY <2>6, <2>8, <2>9, <2>10 DEF JarKept, p, g
<1> QED
  BY <1>7, <1>8

\* However many lines set cookies, the jar stays one.
LEMMA LinesKeepJar ==
  ASSUME JarKept(http_jar, http_latest), NEW lines, NEW N \in Nat, N = Len(lines)
  PROVE  JarKept(Http!Jars(lines)[N][1], Http!Jars(lines)[N][2])
<1> DEFINE J == Http!Jars(lines)
           Good(i) == JarKept(J[i][1], J[i][2])
           T == {i \in 0..N : ~Good(i)}
<1>1. J[0] = Http!cookies /\ \A i \in 1..N : J[i] = Keeps(lines, i, J[i - 1])
  BY JarsByRows
<1> HIDE DEF J
<1>2. Good(0)
  BY <1>1 DEF Http!cookies
<1>3. \A i \in 1..N : Good(i - 1) => Good(i)
  <2> SUFFICES ASSUME NEW i \in 1..N, Good(i - 1) PROVE Good(i)
    OBVIOUS
  <2>1. i # 0
    OBVIOUS
  <2>2. CASE lines[i].tag # "cookie"
    BY <1>1, <2>1, <2>2 DEF Keeps
  <2>3. CASE lines[i].tag = "cookie"
    <3> DEFINE c == Http!Cookie(lines[i])
               j == J[i - 1][1]
               l == J[i - 1][2]
    <3>1. J[i] = <<Http!Put(j, c), Http!Given(l, c)>>
      BY <1>1, <2>1, <2>3 DEF Keeps
    <3>2. JarKept(j, l)
      OBVIOUS
    <3> HIDE DEF c, j, l
    <3>3. JarKept(Http!Put(j, c), Http!Given(l, c))
      BY <3>2, PutKeepsJar
    <3> QED BY <3>1, <3>3
  <2> QED BY <2>2, <2>3
<1> HIDE DEF Good
<1>4. T = {}
  <2> SUFFICES ASSUME T # {} PROVE FALSE
    OBVIOUS
  <2>1. T \in SUBSET Nat
    OBVIOUS
  <2> HIDE DEF T
  <2>2. PICK m \in T : \A y \in T : m <= y
    BY <2>1, LeastOf
  <2> USE DEF T
  <2>3. m \in 1..N /\ ~Good(m)
    BY <1>2, <2>2
  <2>4. ~(m - 1 \in T) /\ m - 1 \in 0..N
    BY <2>2, <2>3
  <2> QED BY <1>3, <2>3, <2>4
<1> QED
  BY <1>4 DEF Good, J

\* What is sent with a command is, of every cookie of the jar that is due, the last value.
Due(l) == {k \in DOMAIN l : <<Http!Act.host, k[2]>> \in Within /\ Http!IsPath([path |-> k[3]])}

LEMMA AllDueIsChosen ==
  ASSUME NEW j, NEW l, JarKept(j, l)
  PROVE  LET s == Http!Chosen(j)[Len(j)] IN
         /\ Len(s) = Cardinality(Due(l))
         /\ {<<Http!Key(c), c.value>> : c \in Http!ToSet(s)} = {<<k, l[k]>> : k \in Due(l)}
<1> DEFINE C == Http!Chosen(j)
           N == Len(j)
           S == Elements(j)
           D(i) == {x \in 1..i : Http!Due(j[x])}
           K(i) == {Http!Key(j[x]) : x \in D(i)}
           Good(i) == /\ C[i] \in Seq(S) /\ {C[i][x] : x \in 1..Len(C[i])} = {j[x] : x \in D(i)}
                      /\ IsFiniteSet(K(i)) /\ Len(C[i]) = Cardinality(K(i))
           T == {i \in 0..N : ~Good(i)}
<1>1. j \in Seq(S) /\ N \in Nat /\ \A i \in 1..N : j[i] \in S
  <2>1. j \in Seq(S)
    BY DEF JarKept
  <2> HIDE DEF S
  <2> QED BY <2>1, LenProperties
<1>2. \A i, x \in 1..N : Http!Key(j[i]) = Http!Key(j[x]) => i = x
  BY DEF JarKept
<1>3. C[0] = << >> /\ \A i \in 1..N : C[i] = IF Http!Due(j[i]) THEN Append(C[i - 1], j[i]) ELSE C[i - 1]
  BY <1>1, ChosenByRows
<1> HIDE DEF C, S
<1>4. Good(0)
  <2>1. D(0) = {} /\ K(0) = {}
    OBVIOUS
  <2> HIDE DEF D, K
  <2>2. IsFiniteSet({}) /\ Cardinality({}) = 0
    BY FS_EmptySet
  <2>3. << >> \in Seq(S) /\ Len(<< >>) = 0
    OBVIOUS
  <2>4. {C[0][x] : x \in 1..Len(C[0])} = {} /\ {j[x] : x \in D(0)} = {}
    <3>1. Len(C[0]) = 0
      BY <1>3, <2>3
    <3>2. 1..0 = {}
      OBVIOUS
    <3> QED BY <2>1, <3>1, <3>2
  <2> QED BY <1>3, <2>1, <2>2, <2>3, <2>4
<1>5. \A i \in 1..N : Good(i - 1) => Good(i)
  <2> SUFFICES ASSUME NEW i \in 1..N, Good(i - 1) PROVE Good(i)
    OBVIOUS
  <2>1. 1..i = 1..(i - 1) \cup {i} /\ i - 1 \in Nat /\ i \in Nat
    BY <1>1
  <2>2. CASE ~Http!Due(j[i])
    <3>1. D(i) = D(i - 1)
      BY <2>1, <2>2
    <3>2. C[i] = C[i - 1]
      BY <1>3, <2>2
    <3> HIDE DEF D
    <3> QED BY <3>1, <3>2
  <2>3. CASE Http!Due(j[i])
    <3> DEFINE a == C[i - 1]
    <3>1. C[i] = Append(a, j[i])
      BY <1>3, <2>3
    <3>2. a \in Seq(S) /\ j[i] \in S /\ Len(a) \in Nat
      BY <1>1, LenProperties
    <3>3. /\ Append(a, j[i]) \in Seq(S) /\ Len(Append(a, j[i])) = Len(a) + 1
          /\ \A x \in 1..Len(a) : Append(a, j[i])[x] = a[x]
          /\ Append(a, j[i])[Len(a) + 1] = j[i]
      <4> HIDE DEF a
      <4> QED BY <3>2, AppendProperties
    <3>4. D(i) = D(i - 1) \cup {i}
      BY <2>1, <2>3
    <3>5. D(i - 1) \in SUBSET (1..N) /\ ~(i \in D(i - 1))
      BY <1>1, <2>1
    <3> DEFINE k == Http!Key(j[i])
    <3>6. K(i) = K(i - 1) \cup {k}
      <4> HIDE DEF D
      <4> QED BY <3>4
    <3>7. ~(k \in K(i - 1))
      <4> HIDE DEF D
      <4> QED BY <1>2, <3>5
    <3>8. IsFiniteSet(K(i - 1)) /\ Len(a) = Cardinality(K(i - 1))
      OBVIOUS
    <3>9. {C[i][x] : x \in 1..Len(C[i])} = {j[x] : x \in D(i)}
      <4>1. 1..(Len(a) + 1) = 1..Len(a) \cup {Len(a) + 1}
        <5>1. \A y \in Nat : 1..(y + 1) = 1..y \cup {y + 1}
          OBVIOUS
        <5> HIDE DEF a
        <5> QED BY <3>2, <5>1
      <4>2. {a[x] : x \in 1..Len(a)} = {j[x] : x \in D(i - 1)}
        OBVIOUS
      <4> HIDE DEF a, D
      <4>3. {Append(a, j[i])[x] : x \in 1..(Len(a) + 1)} = {a[x] : x \in 1..Len(a)} \cup {j[i]}
        BY <3>3, <4>1
      <4>4. C[i] = Append(a, j[i]) /\ Len(C[i]) = Len(a) + 1
        BY <3>1, <3>3
      <4>5. {C[i][x] : x \in 1..Len(C[i])} = {a[x] : x \in 1..Len(a)} \cup {j[i]}
        BY <4>3, <4>4
      <4>6. {j[x] : x \in D(i)} = {j[x] : x \in D(i - 1)} \cup {j[i]}
        BY <3>4
      <4> QED BY <4>2, <4>5, <4>6
    <3> HIDE DEF K, k, a
    <3>10. IsFiniteSet(K(i)) /\ Cardinality(K(i)) = Cardinality(K(i - 1)) + 1
      BY <3>6, <3>7, <3>8, FS_AddElement
    <3> QED BY <3>1, <3>3, <3>8, <3>9, <3>10
  <2> QED BY <2>2, <2>3
<1>6. T = {}
  <2> HIDE DEF Good
  <2> SUFFICES ASSUME T # {} PROVE FALSE
    OBVIOUS
  <2>1. T \in SUBSET Nat
    BY <1>1
  <2> HIDE DEF T
  <2>2. PICK m \in T : \A y \in T : m <= y
    BY <2>1, LeastOf
  <2> USE DEF T
  <2>3. m \in 1..N /\ ~Good(m)
    BY <1>4, <2>2
  <2>4. ~(m - 1 \in T) /\ m - 1 \in 0..N
    BY <2>2, <2>3
  <2> QED BY <1>5, <2>3, <2>4
<1>7. Good(N)
  <2> HIDE DEF Good
  <2> QED BY <1>1, <1>6
<1>8. DOMAIN l = {Http!Key(j[i]) : i \in 1..N} /\ \A i \in 1..N : l[Http!Key(j[i])] = j[i].value
  BY DEF JarKept
<1>9. Due(l) = K(N)
  <2>1. \A i \in 1..N : (<<Http!Act.host, Http!Key(j[i])[2]>> \in Within /\ Http!IsPath([path |-> Http!Key(j[i])[3]])) <=> Http!Due(j[i])
    BY DEF Http!Key, Http!Due, Http!IsPath
  <2> DEFINE P(k) == <<Http!Act.host, k[2]>> \in Within /\ Http!IsPath([path |-> k[3]])
  <2>2. Due(l) = {k \in {Http!Key(j[i]) : i \in 1..N} : P(k)}
    BY <1>8 DEF Due
  <2>3. \A i \in 1..N : P(Http!Key(j[i])) <=> Http!Due(j[i])
    BY <2>1
  <2> HIDE DEF P
  <2> QED BY <2>2, <2>3
<1>10. Http!ToSet(C[N]) = {j[x] : x \in D(N)}
  <2>1. C[N] \in Seq(S) /\ {C[N][x] : x \in 1..Len(C[N])} = {j[x] : x \in D(N)}
    BY <1>7
  <2>2. DOMAIN C[N] = 1..Len(C[N])
    BY <2>1
  <2> QED BY <2>1, <2>2 DEF Http!ToSet
<1>11. {<<Http!Key(c), c.value>> : c \in Http!ToSet(C[N])} = {<<k, l[k]>> : k \in Due(l)}
  <2>1. \A x \in D(N) : l[Http!Key(j[x])] = j[x].value
    BY <1>8
  <2> HIDE DEF D
  <2> QED BY <1>9, <1>10, <2>1
<1> QED
  BY <1>7, <1>9, <1>11 DEF C

\* A beginning of what is left to come is as long as it says, and so are the lines of the header in it.
LEMMA LinesHaveLength ==
  ASSUME NEW s, NEW n \in Nat
  PROVE  Len(Http!LinesOf(SubSeq(s, 1, n))) \in Nat
<1> DEFINE S == {s[i] : i \in 1..n}
           all == SubSeq(s, 1, n)
           I == {i \in 1..Len(all) : all[i].tag = "end"}
<1>1. \A i \in 1..n : s[i] \in S
  OBVIOUS
<1> HIDE DEF S
<1>2. all \in Seq(S) /\ Len(all) = n
  BY <1>1, Beginning
<1> HIDE DEF all
<1>3. CASE Http!EndOfHeader(all) = 0
  BY <1>2, <1>3 DEF Http!LinesOf, all
<1>4. CASE Http!EndOfHeader(all) # 0
  <2>1. Http!EndOfHeader(all) = IF I # {} THEN Http!Min(I) ELSE 0
    BY Zenon DEF Http!EndOfHeader, Http!SelectInSeq
  <2>2. I \in SUBSET (1..n)
    BY <1>2
  <2> HIDE DEF I
  <2>3. I # {}
    BY <1>4, <2>1
  <2>4. I \in SUBSET Nat
    BY <2>2
  <2>5. PICK x \in I : \A y \in I : x <= y
    BY <2>3, <2>4, LeastOf
  <2>6. Http!EndOfHeader(all) = x /\ x \in 1..n
    BY <2>1, <2>2, <2>3, <2>4, <2>5, FirstThere
  <2>7. PICK e \in Nat : e = x - 1 /\ e <= n
    BY <2>6
  <2>8. \A i \in 1..e : i \in 1..n
    BY <2>7
  <2>9. \A i \in 1..n : all[i] \in S
    BY <1>2, LenProperties
  <2>10. Len(SubSeq(all, 1, e)) = e
    BY <2>8, <2>9, Beginning
  <2>11. Http!LinesOf(all) = SubSeq(all, 1, e)
    BY <1>4, <2>6, <2>7 DEF Http!LinesOf
  <2> QED BY <2>7, <2>10, <2>11 DEF all
<1> QED
  BY <1>3, <1>4

-----------------------------------------------------------------------------
(* HttpClient: addresses.                                                  *)

\* The empty segment, what is before the double slash, and strings with these.
Nothing == ""
Scheme == "http:"
Segments == STRING \cup {Nothing, Scheme}
Site(host) == <<Scheme, Nothing, host>>
LEMMA Written ==
  /\ STRING \subseteq Segments /\ Nothing \in Segments /\ Scheme \in Segments
  /\ \A u : Http!Host(u) = IF Len(u) > 2 THEN u[3] ELSE Nothing
  /\ \A u : Http!Path(u) = IF Len(u) > 3 THEN SubSeq(u, 4, Len(u)) ELSE <<Nothing>>
  /\ \A u : Http!Up(u) = IF Len(u) > 2 THEN Append(SubSeq(u, 1, Len(u) - 2), Nothing) ELSE u
<1>1. STRING \subseteq Segments /\ Nothing \in Segments /\ Scheme \in Segments
  BY DEF Segments
<1>2. \A u : Http!Host(u) = IF Len(u) > 2 THEN u[3] ELSE Nothing
  BY Zenon DEF Http!Host, Nothing
<1>3. \A u : Http!Path(u) = IF Len(u) > 3 THEN SubSeq(u, 4, Len(u)) ELSE <<Nothing>>
  BY Zenon DEF Http!Path, Nothing
<1>4. \A u : Http!Up(u) = IF Len(u) > 2 THEN Append(SubSeq(u, 1, Len(u) - 2), Nothing) ELSE u
  BY Zenon DEF Http!Up, Nothing
<1> QED
  BY <1>1, <1>2, <1>3, <1>4

\* The host and the path of an URL.
LEMMA HostAndPath ==
  ASSUME NEW u \in Seq(Segments)
  PROVE  Http!Host(u) \in Segments /\ Http!Path(u) \in Seq(Segments)
<1>1. Len(u) \in Nat /\ \A i \in 1..Len(u) : u[i] \in Segments
  BY LenProperties
<1>2. Http!Host(u) \in Segments
  BY <1>1, Written
<1>3. \A i \in 4..Len(u) : u[i] \in Segments
  BY <1>1
<1>4. SubSeq(u, 4, Len(u)) \in Seq(Segments)
  BY <1>1, <1>3, SubSeqProperties
<1>5. <<Nothing>> \in Seq(Segments)
  BY Written
<1> QED
  BY <1>2, <1>4, <1>5, Written

LEMMA PathOfSite ==
  ASSUME NEW host \in Segments, NEW p \in Seq(Segments)
  PROVE  LET u == Site(host) \o p IN
         /\ Site(host) \in Seq(Segments) /\ Len(Site(host)) = 3 /\ u \in Seq(Segments) /\ Len(u) = 3 + Len(p)
         /\ Http!Host(u) = host /\ (p # << >> => Http!Path(u) = p)
<1> DEFINE s == Site(host)
           u == s \o p
<1>1. s \in Seq(Segments) /\ Len(s) = 3 /\ s[3] = host
  BY Written DEF Site
<1> HIDE DEF s
<1>2. /\ u \in Seq(Segments) /\ Len(u) = 3 + Len(p) /\ Len(p) \in Nat
      /\ \A i \in 1..(3 + Len(p)) : u[i] = IF i <= 3 THEN s[i] ELSE p[i - 3]
  <2>1. /\ u \in Seq(Segments) /\ Len(u) = Len(s) + Len(p)
        /\ \A i \in 1..(Len(s) + Len(p)) : u[i] = IF i <= Len(s) THEN s[i] ELSE p[i - Len(s)]
    BY <1>1, ConcatProperties
  <2>2. Len(p) \in Nat
    BY LenProperties
  <2> HIDE DEF u
  <2> QED BY <1>1, <2>1, <2>2
<1> HIDE DEF u
<1>3. PICK n \in Nat : n = Len(p)
  BY <1>2
<1>4. u[3] = host
  BY <1>1, <1>2, <1>3
<1>5. Http!Host(u) = host
  BY <1>2, <1>3, <1>4, Written
<1>6. ASSUME p # << >> PROVE Http!Path(u) = p
  <2>1. n >= 1
    <3>1. Len(p) \in Nat \ {0}
      BY <1>6, EmptySeq
    <3> QED BY <1>3, <3>1
  <2>2. Http!Path(u) = SubSeq(u, 4, 3 + n)
    BY <1>2, <1>3, <2>1, Written
  <2> DEFINE v == SubSeq(u, 4, 3 + n)
  <2>3. \A i \in 4..(3 + n) : u[i] \in Segments
    BY <1>2, <1>3, LenProperties
  <2>4. 3 + n - 4 + 1 = n /\ 4 <= 3 + n /\ 3 + n \in Int
    BY <2>1
  <2>5. v \in Seq(Segments) /\ Len(v) = n /\ \A i \in 1..n : v[i] = u[4 + i - 1]
    BY <2>3, <2>4, SubSeqProperties
  <2> HIDE DEF v
  <2>6. \A i \in 1..n : 4 + i - 1 \in 1..(3 + n) /\ ~(4 + i - 1 <= 3) /\ 4 + i - 1 - 3 = i
    OBVIOUS
  <2>7. \A i \in 1..n : v[i] = p[i]
    BY <1>2, <1>3, <2>5, <2>6
  <2>8. v = p
    BY <1>3, <2>5, <2>7, SeqEqual
  <2> QED BY <2>2, <2>8 DEF v
<1> QED
  BY <1>1, <1>2, <1>5, <1>6 DEF s, u

\* What is before the last segment.
LEMMA BeforeLast ==
  ASSUME NEW s \in Seq(Segments), NEW e \in Segments
  PROVE  Append(s, e) \in Seq(Segments) /\ Len(Append(s, e)) = Len(s) + 1 /\ \A m \in 0..Len(s) : SubSeq(Append(s, e), 1, m) = SubSeq(s, 1, m)
<1> DEFINE a == Append(s, e)
<1>1. /\ a \in Seq(Segments) /\ Len(a) = Len(s) + 1 /\ Len(s) \in Nat
      /\ \A i \in 1..Len(s) : a[i] = s[i]
  BY AppendProperties, LenProperties
<1> HIDE DEF a
<1>2. \A i \in 1..Len(s) : s[i] \in Segments
  BY LenProperties
<1>3. ASSUME NEW m \in 0..Len(s) PROVE SubSeq(a, 1, m) = SubSeq(s, 1, m)
  <2>1. m \in Nat /\ \A i \in 1..m : i \in 1..Len(s)
    BY <1>1
  <2>2. (\A i \in 1..m : a[i] \in Segments) /\ (\A i \in 1..m : s[i] \in Segments)
    BY <1>1, <1>2, <2>1
  <2>3. SubSeq(a, 1, m) \in Seq(Segments) /\ Len(SubSeq(a, 1, m)) = m /\ \A i \in 1..m : SubSeq(a, 1, m)[i] = a[i]
    BY <2>1, <2>2, Beginning
  <2>4. SubSeq(s, 1, m) \in Seq(Segments) /\ Len(SubSeq(s, 1, m)) = m /\ \A i \in 1..m : SubSeq(s, 1, m)[i] = s[i]
    BY <2>1, <2>2, Beginning
  <2> QED BY <1>1, <2>1, <2>3, <2>4, SeqEqual
<1> QED
  BY <1>1, <1>3 DEF a

\* The beginnings of a sequence, and beginnings of those.
LEMMA BeginningOfBeginning ==
  ASSUME NEW s \in Seq(Segments), NEW k \in 0..Len(s)
  PROVE  SubSeq(s, 1, k) \in Seq(Segments) /\ Len(SubSeq(s, 1, k)) = k /\ \A m \in 0..k : SubSeq(SubSeq(s, 1, k), 1, m) = SubSeq(s, 1, m)
<1>1. Len(s) \in Nat /\ \A i \in 1..Len(s) : s[i] \in Segments
  BY LenProperties
<1>2. k \in Nat /\ \A i \in 1..k : i \in 1..Len(s)
  BY <1>1
<1>3. \A i \in 1..k : s[i] \in Segments
  BY <1>1, <1>2
<1> DEFINE t == SubSeq(s, 1, k)
<1>4. t \in Seq(Segments) /\ Len(t) = k /\ \A i \in 1..k : t[i] = s[i]
  BY <1>2, <1>3, Beginning
<1> HIDE DEF t
<1>5. ASSUME NEW m \in 0..k PROVE SubSeq(t, 1, m) = SubSeq(s, 1, m)
  <2>1. m \in Nat /\ \A i \in 1..m : i \in 1..k
    BY <1>2
  <2>2. (\A i \in 1..m : t[i] \in Segments) /\ (\A i \in 1..m : s[i] \in Segments)
    BY <1>3, <1>4, <2>1
  <2>3. SubSeq(t, 1, m) \in Seq(Segments) /\ Len(SubSeq(t, 1, m)) = m /\ \A i \in 1..m : SubSeq(t, 1, m)[i] = t[i]
    BY <2>1, <2>2, Beginning
  <2>4. SubSeq(s, 1, m) \in Seq(Segments) /\ Len(SubSeq(s, 1, m)) = m /\ \A i \in 1..m : SubSeq(s, 1, m)[i] = s[i]
    BY <2>1, <2>2, Beginning
  <2> QED BY <1>4, <2>1, <2>3, <2>4, SeqEqual
<1> QED
  BY <1>4, <1>5 DEF t

\* The directory of a page, and those above it.
Above(directory, n) == CHOOSE B : B = [k \in 0..n |-> Climbs(directory, k, B[k - 1])]
LEMMA AboveByRows ==
  ASSUME NEW directory, NEW n \in Nat
  PROVE  Above(directory, n)[0] = directory /\ \A k \in 1..n : Above(directory, n)[k] = Http!Up(Above(directory, n)[k - 1])
<1> DEFINE Rows(h) == h = [k \in 0..n |-> Climbs(directory, k, h[k - 1])]
<1>1. \A k, v : Row(3, directory, k, v) = Climbs(directory, k, v)
  BY DEF Row
<1>2. PICK h : IsRows(3, directory, n, h)
  BY RowsThere, Zenon
<1>3. h = [k \in 0..n |-> Row(3, directory, k, h[k - 1])]
  BY <1>2, Zenon DEF IsRows
<1>4. Rows(h)
  BY <1>1, <1>3, Zenon
<1>5. Above(directory, n) = CHOOSE B : Rows(B)
  BY Zenon DEF Above
<1>6. Rows(Above(directory, n))
  <2> HIDE DEF Rows
  <2> QED BY <1>4, <1>5, Zenon
<1>7. \A k \in 0..n : Above(directory, n)[k] = Climbs(directory, k, Above(directory, n)[k - 1])
  <2> HIDE DEF Above
  <2> QED BY <1>6
<1> QED
  BY <1>7 DEF Climbs

\* Going up leads to an URL; as long as there are directories above the page, to these.
LEMMA UpTheDirectories ==
  ASSUME NEW s \in Seq(Segments), NEW n \in Nat
  PROVE  LET B == Above(Append(s, Nothing), n) IN
         /\ \A k \in 0..n : B[k] \in Seq(Segments) /\ Len(B[k]) >= 1
         /\ n < Len(s) => \A k \in 0..n : B[k] = Append(SubSeq(s, 1, Len(s) - k), Nothing)
<1> DEFINE B == Above(Append(s, Nothing), n)
           Url(k) == B[k] \in Seq(Segments) /\ Len(B[k]) >= 1
           There(k) == n < Len(s) => B[k] = Append(SubSeq(s, 1, Len(s) - k), Nothing)
           Good(k) == Url(k) /\ There(k)
           T == {k \in 0..n : ~Good(k)}
<1>1. B[0] = Append(s, Nothing) /\ \A k \in 1..n : B[k] = Http!Up(B[k - 1])
  BY AboveByRows
<1> HIDE DEF B
<1>2. Len(s) \in Nat /\ SubSeq(s, 1, Len(s)) = s
  BY LenProperties, SubSeqFull
<1>3. PICK N \in Nat : N = Len(s)
  BY <1>2
<1>4. Good(0)
  <2>1. Append(s, Nothing) \in Seq(Segments) /\ Len(Append(s, Nothing)) = N + 1
    BY <1>3, BeforeLast, Written
  <2>2. N - 0 = N
    OBVIOUS
  <2> QED BY <1>1, <1>2, <1>3, <2>1, <2>2
<1>5. ASSUME NEW k \in 1..n, Good(k - 1) PROVE Good(k)
  <2> DEFINE u == B[k - 1]
  <2>1. u \in Seq(Segments) /\ Len(u) >= 1 /\ Len(u) \in Nat
    BY <1>5, LenProperties
  <2>2. B[k] = IF Len(u) > 2 THEN Append(SubSeq(u, 1, Len(u) - 2), Nothing) ELSE u
    BY <1>1, Written
  <2> HIDE DEF u
  <2>3. PICK m \in Nat : m = Len(u)
    BY <2>1
  <2>4. CASE ~(m > 2)
    <3>1. ~(n < N)
      <4> SUFFICES ASSUME n < N PROVE FALSE
        OBVIOUS
      <4>1. N - (k - 1) \in 0..N /\ N - (k - 1) >= 2
        OBVIOUS
      <4>2. u = Append(SubSeq(s, 1, N - (k - 1)), Nothing)
        BY <1>3, <1>5 DEF u
      <4>3. SubSeq(s, 1, N - (k - 1)) \in Seq(Segments) /\ Len(SubSeq(s, 1, N - (k - 1))) = N - (k - 1)
        BY <1>3, <4>1, BeginningOfBeginning
      <4>4. Len(u) = N - (k - 1) + 1
        BY <4>2, <4>3, BeforeLast, Written
      <4> QED BY <2>3, <2>4, <4>1, <4>4
    <3>2. B[k] = u
      BY <2>2, <2>3, <2>4
    <3> QED BY <1>3, <2>1, <3>1, <3>2
  <2>5. CASE m > 2
    <3>1. B[k] = Append(SubSeq(u, 1, m - 2), Nothing) /\ m - 2 \in 0..m /\ m - 2 \in Nat
      BY <2>2, <2>3, <2>5
    <3>2. SubSeq(u, 1, m - 2) \in Seq(Segments) /\ Len(SubSeq(u, 1, m - 2)) = m - 2
      BY <2>1, <2>3, <3>1, BeginningOfBeginning
    <3>3. Append(SubSeq(u, 1, m - 2), Nothing) \in Seq(Segments) /\ Len(Append(SubSeq(u, 1, m - 2), Nothing)) = m - 2 + 1
      BY <3>2, BeforeLast, Written
    <3>4. Url(k)
      BY <2>5, <3>1, <3>3
    <3>5. ASSUME n < N PROVE B[k] = Append(SubSeq(s, 1, N - k), Nothing)
      <4>1. N - (k - 1) \in 0..N /\ N - k \in 0..(N - (k - 1)) /\ N - (k - 1) + 1 - 2 = N - k
        BY <3>5
      <4>2. u = Append(SubSeq(s, 1, N - (k - 1)), Nothing)
        BY <1>3, <1>5, <3>5 DEF u
      <4> DEFINE t == SubSeq(s, 1, N - (k - 1))
      <4>3. t \in Seq(Segments) /\ Len(t) = N - (k - 1) /\ SubSeq(t, 1, N - k) = SubSeq(s, 1, N - k)
        BY <1>3, <4>1, BeginningOfBeginning
      <4> HIDE DEF t
      <4>4. Len(u) = N - (k - 1) + 1 /\ SubSeq(u, 1, N - k) = SubSeq(t, 1, N - k)
        BY <4>1, <4>2, <4>3, BeforeLast, Written DEF t
      <4>5. m - 2 = N - k
        BY <2>3, <4>1, <4>4
      <4> QED BY <3>1, <4>3, <4>4, <4>5
    <3> QED BY <1>3, <3>4, <3>5
  <2> QED BY <2>4, <2>5
<1>6. T = {}
  <2> HIDE DEF Good
  <2> SUFFICES ASSUME T # {} PROVE FALSE
    OBVIOUS
  <2>1. T \in SUBSET Nat
    OBVIOUS
  <2> HIDE DEF T
  <2>2. PICK m \in T : \A y \in T : m <= y
    BY <2>1, LeastOf
  <2> USE DEF T
  <2>3. m \in 1..n /\ ~Good(m)
    BY <1>4, <2>2
  <2>4. ~(m - 1 \in T) /\ m - 1 \in 0..n
    BY <2>2, <2>3
  <2> QED BY <1>5, <2>3, <2>4
<1> QED
  BY <1>6 DEF B


\* Where a redirection leads: of whatever it tells, to a host and a path; of a place relative to the page, to its host and to the directory told.
LEMMA LeadsWhereTold ==
  ASSUME NEW host \in Segments, NEW path \in Seq(Segments), NEW to \in Locations
  PROVE  LET url == IF to.host # "" THEN <<"http:", "", to.host>> \o to.path ELSE Http!AddLocationToUrl(host, path, to) IN
         /\ Http!Host(url) \in Segments /\ Http!Path(url) \in Seq(Segments)
         /\ to.host = "" /\ to.up < Len(path) /\ (to.root => to.up = 0) =>
              /\ Http!Host(url) = host
              /\ Http!Path(url) = (IF to.root THEN << >> ELSE SubSeq(path, 1, Len(path) - 1 - to.up)) \o to.path
<1> DEFINE url == IF to.host # "" THEN <<"http:", "", to.host>> \o to.path ELSE Http!AddLocationToUrl(host, path, to)
           here == Site(host) \o path
           before == IF path = << >> THEN here ELSE Http!Front(here)
           B == Above(Append(before, Nothing), to.up)
           p == to.path
           n == to.up
<1>1. /\ to.host \in STRING /\ p \in Seq(STRING) /\ n \in Nat /\ (to.host = Nothing => p # << >>)
  BY DEF Locations, Nothing
<1>2. p \in Seq(Segments) /\ to.host \in Segments
  <2>1. p \in [1..Len(p) -> STRING] /\ Len(p) \in Nat
    BY <1>1, LenProperties
  <2>2. p \in [1..Len(p) -> Segments]
    BY <2>1, Written
  <2>3. PICK k \in Nat : k = Len(p)
    BY <2>1
  <2>4. p \in Seq(Segments)
    BY <2>2, <2>3, FunctionIsSeq
  <2> QED BY <1>1, <2>4, Written
<1>3. url = IF to.host # Nothing THEN Site(to.host) \o p ELSE Http!AddLocationToUrl(host, path, to)
  BY Zenon DEF Site, Nothing, Scheme
<1>4. Http!AddLocationToUrl(host, path, to) = IF to.root THEN Site(host) \o p ELSE Http!Front(B[n]) \o p
  <2>1. Append(before, Nothing) = IF path = << >> THEN Append(here, Nothing) ELSE Append(Http!Front(here), Nothing)
    OBVIOUS
  <2> DEFINE directory == IF path = << >> THEN Append(here, Nothing) ELSE Append(Http!Front(here), Nothing)
  <2>2. Http!AddLocationToUrl(host, path, to) = IF to.root THEN Site(host) \o p ELSE Http!Front(Above(directory, n)[n]) \o p
    BY Zenon DEF Http!AddLocationToUrl, Above, Climbs, Site, Nothing, Scheme
  <2> QED BY <2>1, <2>2, Zenon
<1> HIDE DEF url, B
<1>5. /\ here \in Seq(Segments) /\ Len(here) = 3 + Len(path) /\ Len(path) \in Nat
      /\ Site(host) \in Seq(Segments) /\ Len(Site(host)) = 3
  BY PathOfSite, LenProperties
<1>6. before \in Seq(Segments) /\ (path # << >> => before = SubSeq(here, 1, 2 + Len(path)) /\ Len(before) = 2 + Len(path))
  <2> HIDE DEF here
  <2>1. ASSUME path # << >> PROVE before = SubSeq(here, 1, 2 + Len(path)) /\ before \in Seq(Segments) /\ Len(before) = 2 + Len(path)
    <3>1. before = SubSeq(here, 1, Len(here) - 1)
      BY <2>1 DEF Http!Front
    <3>2. PICK l \in Nat : l = Len(path)
      BY <1>5
    <3>3. Len(here) - 1 = 2 + l /\ 2 + l \in 0..Len(here)
      BY <1>5, <3>2
    <3>4. SubSeq(here, 1, 2 + l) \in Seq(Segments) /\ Len(SubSeq(here, 1, 2 + l)) = 2 + l
      BY <1>5, <3>3, BeginningOfBeginning
    <3> QED BY <3>1, <3>2, <3>3, <3>4
  <2> QED BY <1>5, <2>1
<1> HIDE DEF here, before
<1>7. /\ \A k \in 0..n : B[k] \in Seq(Segments) /\ Len(B[k]) >= 1
      /\ n < Len(before) => \A k \in 0..n : B[k] = Append(SubSeq(before, 1, Len(before) - k), Nothing)
  BY <1>1, <1>6, UpTheDirectories DEF B
<1>8. Http!Front(B[n]) \in Seq(Segments)
  <2>1. B[n] \in Seq(Segments) /\ Len(B[n]) >= 1 /\ Len(B[n]) \in Nat
    BY <1>1, <1>7, LenProperties
  <2>2. Len(B[n]) - 1 \in 0..Len(B[n])
    BY <2>1
  <2> QED BY <2>1, <2>2, BeginningOfBeginning DEF Http!Front
<1>9. url \in Seq(Segments)
  <2>1. CASE to.host # Nothing
    BY <1>2, <1>3, <2>1, PathOfSite
  <2>2. CASE to.host = Nothing /\ to.root
    BY <1>2, <1>3, <1>4, <2>2, PathOfSite
  <2>3. CASE to.host = Nothing /\ ~to.root
    <3>1. url = Http!Front(B[n]) \o p
      BY <1>3, <1>4, <2>3, Zenon
    <3> QED BY <1>2, <1>8, <3>1, ConcatProperties
  <2> QED BY <2>1, <2>2, <2>3
<1>10. Http!Host(url) \in Segments /\ Http!Path(url) \in Seq(Segments)
  BY <1>9, HostAndPath
<1>11. ASSUME to.host = Nothing, n < Len(path), to.root => n = 0
       PROVE  Http!Host(url) = host /\ Http!Path(url) = (IF to.root THEN << >> ELSE SubSeq(path, 1, Len(path) - 1 - n)) \o p
  <2>1. p # << >>
    BY <1>1, <1>11
  <2>2. CASE to.root
    <3>1. url = Site(host) \o p
      BY <1>3, <1>4, <1>11, <2>2
    <3>2. Http!Host(url) = host /\ Http!Path(url) = p
      BY <1>2, <2>1, <3>1, PathOfSite
    <3>3. << >> \o p = p
      BY <1>2, ConcatEmptySeq
    <3> QED BY <2>2, <3>2, <3>3
  <2>3. CASE ~to.root
    <3> DEFINE q == SubSeq(path, 1, Len(path) - 1 - n)
    <3>1. PICK l \in Nat : l = Len(path)
      BY <1>5
    <3>2. l >= 1 /\ n < l /\ l - 1 - n \in 0..l /\ 2 + l - n = 3 + (l - 1 - n)
      BY <1>1, <1>11, <3>1
    <3>3. path # << >>
      BY <3>1, <3>2
    <3>4. before = SubSeq(here, 1, 2 + l) /\ Len(before) = 2 + l /\ before \in Seq(Segments)
      BY <1>6, <3>1, <3>3
    <3>5. B[n] = Append(SubSeq(before, 1, 2 + l - n), Nothing)
      <4>1. n < Len(before) /\ n \in 0..n
        BY <1>1, <3>2, <3>4
      <4>2. B[n] = Append(SubSeq(before, 1, Len(before) - n), Nothing)
        BY <1>7, <4>1
      <4>3. Len(before) = 2 + l
        BY <3>4
      <4>4. PICK d : d = Len(before)
        OBVIOUS
      <4>5. B[n] = Append(SubSeq(before, 1, d - n), Nothing) /\ d = 2 + l
        BY <4>2, <4>3, <4>4
      <4>6. d - n = 2 + l - n
        <5>1. n \in Nat /\ l \in Nat
          BY <1>1, <3>1
        <5> HIDE DEF n
        <5> QED BY <4>5, <5>1
      <4> QED BY <4>5, <4>6
    <3>6. 2 + l - n \in 0..(2 + l) /\ 2 + l - n \in Nat /\ 2 + l \in 0..Len(here)
      <4>1. Len(here) = 3 + l
        BY <1>5, <3>1
      <4>2. n \in Nat /\ n < l /\ l \in Nat
        BY <1>1, <3>1, <3>2
      <4> HIDE DEF n
      <4>3. 2 + l - n \in 0..(2 + l) /\ 2 + l - n \in Nat /\ 2 + l \in 0..(3 + l)
        BY <4>2
      <4> QED BY <4>1, <4>3
    <3> DEFINE b == SubSeq(before, 1, 2 + l - n)
    <3>7. b \in Seq(Segments) /\ Len(b) = 2 + l - n /\ b = SubSeq(here, 1, 2 + l - n)
      BY <1>5, <3>4, <3>6, BeginningOfBeginning
    <3> HIDE DEF b
    <3>8. Http!Front(B[n]) = b
      <4>0. B[n] = Append(b, Nothing)
        BY <3>5 DEF b
      <4>1. Len(B[n]) = 2 + l - n + 1 /\ \A m \in 0..(2 + l - n) : SubSeq(B[n], 1, m) = SubSeq(b, 1, m)
        <5>1. Nothing \in Segments
          BY Written
        <5>2. Len(Append(b, Nothing)) = Len(b) + 1 /\ \A m \in 0..Len(b) : SubSeq(Append(b, Nothing), 1, m) = SubSeq(b, 1, m)
          BY <3>7, <5>1, BeforeLast
        <5> QED BY <3>7, <4>0, <5>2, Zenon
      <4>2. Len(B[n]) - 1 = 2 + l - n
        BY <3>6, <4>1
      <4>3. Http!Front(B[n]) = SubSeq(b, 1, 2 + l - n)
        BY <3>6, <4>1, <4>2 DEF Http!Front
      <4> QED BY <3>7, <4>3, SubSeqFull
    <3>9. q \in Seq(Segments) /\ Len(q) = l - 1 - n
      BY <3>1, <3>2, BeginningOfBeginning
    <3>10. b = Site(host) \o q
      <4> DEFINE c == Site(host) \o q
                 m == 2 + l - n
      <4>1. /\ c \in Seq(Segments) /\ Len(c) = 3 + Len(q)
            /\ \A i \in 1..(3 + Len(q)) : c[i] = IF i <= 3 THEN Site(host)[i] ELSE q[i - 3]
        <5> HIDE DEF q
        <5>1. /\ c \in Seq(Segments) /\ Len(c) = Len(Site(host)) + Len(q)
              /\ \A i \in 1..(Len(Site(host)) + Len(q)) : c[i] = IF i <= Len(Site(host)) THEN Site(host)[i] ELSE q[i - Len(Site(host))]
          <6>1. Site(host) \in Seq(Segments) /\ q \in Seq(Segments)
            BY <1>5, <3>9
          <6> QED BY <6>1, ConcatProperties, Zenon
        <5> HIDE DEF c
        <5> QED BY <1>5, <5>1
      <4>2. \A i \in 1..(3 + l) : here[i] = IF i <= 3 THEN Site(host)[i] ELSE path[i - 3]
        BY <1>5, <3>1, ConcatProperties DEF here
      <4>3. \A i \in 1..(l - 1 - n) : q[i] = path[i]
        <5>1. l - 1 - n \in Nat /\ \A i \in 1..(l - 1 - n) : i \in 1..Len(path)
          BY <3>1, <3>2
        <5>2. \A i \in 1..(l - 1 - n) : path[i] \in Segments
          BY <5>1, LenProperties
        <5> QED BY <3>1, <5>1, <5>2, Beginning
      <4>4. \A i \in 1..m : b[i] = here[i]
        <5>1. m \in Nat /\ \A i \in 1..m : i \in 1..Len(here)
          BY <1>1, <1>5, <3>1, <3>6
        <5>2. \A i \in 1..m : here[i] \in Segments
          BY <1>5, <5>1, LenProperties
        <5> QED BY <3>7, <5>1, <5>2, Beginning
      <4> HIDE DEF q
      <4>5. m \in Nat /\ Len(b) = m /\ Len(c) = m /\ 3 + Len(q) = m
        BY <3>2, <3>6, <3>7, <3>9, <4>1
      <4>6. \A i \in 1..m : i \in 1..(3 + l) /\ (~(i <= 3) => i - 3 \in 1..(l - 1 - n))
        BY <1>1, <3>2
      <4> HIDE DEF c, m
      <4>7. \A i \in 1..m : b[i] = c[i]
        <5> TAKE i \in 1..m
        <5>1. b[i] = here[i] /\ here[i] = IF i <= 3 THEN Site(host)[i] ELSE path[i - 3]
          BY <4>2, <4>4, <4>6
        <5>2. c[i] = IF i <= 3 THEN Site(host)[i] ELSE q[i - 3]
          BY <4>1, <4>5
        <5>3. ~(i <= 3) => q[i - 3] = path[i - 3]
          BY <4>3, <4>6
        <5> QED BY <5>1, <5>2, <5>3
      <4>8. b = c
        BY <3>7, <4>1, <4>5, <4>7, SeqEqual
      <4> QED BY <4>8 DEF c
    <3> HIDE DEF q
    <3>11. url = Http!Front(B[n]) \o p
      BY <1>3, <1>4, <1>11, <2>3
    <3>12. url = Site(host) \o (q \o p)
      <4>1. (Site(host) \o q) \o p = Site(host) \o (q \o p)
        <5>1. Site(host) \in Seq(Segments) /\ q \in Seq(Segments) /\ p \in Seq(Segments)
          BY <1>2, <1>5, <3>9
        <5> HIDE DEF p
        <5> QED BY <5>1, ConcatAssociative
      <4> QED BY <3>8, <3>10, <3>11, <4>1, Zenon
    <3>13. q \o p \in Seq(Segments) /\ q \o p # << >>
      <4>1. q \o p \in Seq(Segments) /\ Len(q \o p) = Len(q) + Len(p)
        BY <1>2, <3>9, ConcatProperties
      <4>2. Len(p) \in Nat \ {0} /\ Len(q) \in Nat
        BY <1>2, <2>1, <3>2, <3>9, EmptySeq
      <4>3. Len(q \o p) # 0
        BY <4>1, <4>2
      <4> QED BY <4>1, <4>3, EmptySeq
    <3>14. Http!Host(url) = host /\ Http!Path(url) = q \o p
      BY <3>12, <3>13, PathOfSite
    <3> QED BY <2>3, <3>14 DEF q
  <2> QED BY <2>2, <2>3
<1> QED
  BY <1>10, <1>11 DEF url, Nothing

-----------------------------------------------------------------------------
(* HttpClient: what is sent, and where. An action inside a run that is not *)
(* the outermost one is a redirection, and the only one of its run.        *)

Asked == [command : STRING \cup {"GET"}, host : Segments, path : Seq(Segments), file : STRING \cup {"none"}, ssl : BOOLEAN]
Runs(f) ==
  /\ f \in Seq(Seq(Asked))
  /\ \A k \in 2..Len(f) : Len(f[k]) <= 1
  /\ \A k \in 1..(Len(f) - 1) : f[k] # << >>
CommandsInv ==
  /\ Runs(http_frames)
  /\ http_at \in {"send", "wait", "more", "answered"} => Http!Last(http_frames) # << >>
  /\ http_at = "answered" => http_ans \in Parses
  /\ Http!RedirectedWhereTold
  /\ JarKept(http_jar, http_latest)
  /\ Http!LatestIsSent

\* The innermost run goes on with its next action; if it is one of a redirection, there is none.
LEMMA DoneRuns ==
  ASSUME NEW f, Runs(f), NEW n \in Nat, n = Len(f), n >= 1, f[n] # << >>
  PROVE  Runs(Http!Done(f)) /\ Len(Http!Done(f)) = n /\ (n > 1 => Http!Done(f)[n] = << >>)
<1> DEFINE g == Http!Done(f)
<1>1. f \in Seq(Seq(Asked)) /\ (\A k \in 2..n : Len(f[k]) <= 1) /\ (\A k \in 1..(n - 1) : f[k] # << >>)
  BY DEF Runs
<1>2. n \in 1..n /\ \A k \in 1..n : f[k] \in Seq(Asked)
  BY <1>1, LenProperties
<1>3. f[n] \in Seq(Asked) /\ Len(f[n]) \in Nat /\ Tail(f[n]) \in Seq(Asked) /\ Len(Tail(f[n])) = Len(f[n]) - 1
  BY <1>2, HeadTailProperties, LenProperties
<1>4. g = [f EXCEPT ![n] = Tail(f[n])]
  BY <1>1, <1>2 DEF Http!Done
<1> HIDE DEF g
<1>5. g \in Seq(Seq(Asked)) /\ Len(g) = n /\ \A k \in 1..n : g[k] = IF k = n THEN Tail(f[n]) ELSE f[k]
  <2>1. n \in 1..Len(f) /\ Tail(f[n]) \in Seq(Asked)
    BY <1>2, <1>3
  <2> QED BY <1>1, <1>4, <2>1, ExceptSeq
<1>6. ASSUME n > 1 PROVE g[n] = << >>
  <2>1. n \in 2..n
    BY <1>6
  <2>2. Len(f[n]) <= 1
    BY <1>1, <2>1
  <2>3. Len(f[n]) \in Nat \ {0}
    BY <1>3, EmptySeq
  <2>4. Len(Tail(f[n])) = 0
    <3>1. PICK c \in Nat : c = Len(f[n])
      BY <1>3
    <3>2. c <= 1 /\ c # 0
      BY <2>2, <2>3, <3>1, Zenon
    <3>3. c = 1
      BY <3>2
    <3> QED BY <1>3, <3>1, <3>3
  <2>5. g[n] = Tail(f[n])
    BY <1>2, <1>5
  <2> QED BY <1>3, <2>4, <2>5, EmptySeq
<1>7. \A k \in 2..n : Len(g[k]) <= 1
  <2> SUFFICES ASSUME NEW k \in 2..n PROVE Len(g[k]) <= 1
    OBVIOUS
  <2>1. CASE k = n
    <3>1. Len(<< >>) <= 1
      OBVIOUS
    <3>2. n > 1
      BY <2>1
    <3> QED BY <1>6, <2>1, <3>1, <3>2
  <2>2. CASE k # n
    <3>1. k \in 1..n
      OBVIOUS
    <3>2. g[k] = f[k]
      BY <1>5, <2>2, <3>1
    <3> QED BY <1>1, <3>2
  <2> QED BY <2>1, <2>2
<1>8. \A k \in 1..(n - 1) : g[k] # << >>
  <2> SUFFICES ASSUME NEW k \in 1..(n - 1) PROVE g[k] # << >>
    OBVIOUS
  <2>1. k \in 1..n /\ k # n
    OBVIOUS
  <2>2. g[k] = f[k]
    BY <1>5, <2>1
  <2> QED BY <1>1, <2>2
<1> QED
  BY <1>5, <1>6, <1>7, <1>8 DEF Runs, g

\* The runs but the innermost one.
LEMMA FrontRuns ==
  ASSUME NEW f, Runs(f), NEW n \in Nat, n = Len(f), n > 1
  PROVE  Runs(Http!Front(f)) /\ Len(Http!Front(f)) = n - 1 /\ Http!Front(f)[n - 1] # << >>
<1> DEFINE g == Http!Front(f)
<1>1. f \in Seq(Seq(Asked)) /\ (\A k \in 2..n : Len(f[k]) <= 1) /\ (\A k \in 1..(n - 1) : f[k] # << >>)
  BY DEF Runs
<1>2. PICK m \in Nat : m = n - 1 /\ m >= 1
  OBVIOUS
<1>3. \A k \in 1..m : k \in 1..n /\ k \in 1..(n - 1)
  BY <1>2
<1>4. \A k \in 1..m : f[k] \in Seq(Asked)
  BY <1>1, <1>3, LenProperties
<1>5. g = SubSeq(f, 1, m)
  BY <1>2 DEF Http!Front
<1> HIDE DEF g
<1>6. g \in Seq(Seq(Asked)) /\ Len(g) = m /\ \A k \in 1..m : g[k] = f[k]
  BY <1>4, <1>5, Beginning
<1>7. \A k \in 2..m : Len(g[k]) <= 1
  <2> SUFFICES ASSUME NEW k \in 2..m PROVE Len(g[k]) <= 1
    OBVIOUS
  <2>1. k \in 1..m /\ k \in 2..n
    BY <1>2
  <2> QED BY <1>1, <1>6, <2>1
<1>8. \A k \in 1..m : g[k] # << >>
  <2> SUFFICES ASSUME NEW k \in 1..m PROVE g[k] # << >>
    OBVIOUS
  <2>1. k \in 1..(n - 1)
    BY <1>2
  <2> QED BY <1>1, <1>6, <2>1
<1>9. (\A k \in 1..(m - 1) : g[k] # << >>) /\ g[m] # << >>
  BY <1>2, <1>8
<1> QED
  BY <1>2, <1>6, <1>7, <1>9 DEF Runs, g

\* Where an action or a run is left, the next one is not one of a redirection.
LEMMA LeavesTold ==
  ASSUME CommandsInv, FramesKept, http_at # "done", UNCHANGED <<http_ans, http_jar, http_latest>>,
         (Http!NextAction /\ Http!Last(http_frames) # << >>) \/ (\E code : Http!Returns(code))
  PROVE  CommandsInv'
<1>1. Runs(http_frames) /\ JarKept(http_jar, http_latest)
  BY DEF CommandsInv
<1>2. PICK n \in Nat : n = Len(http_frames) /\ n >= 1
  BY LenProperties DEF FramesKept
<1>3. http_at' \in {"next", "done"} /\ Runs(http_frames') /\ (http_at' = "next" /\ Len(http_frames') > 1 => Http!Last(http_frames') = << >>)
  <2>1. CASE Http!NextAction /\ Http!Last(http_frames) # << >>
    <3>1. http_frames[n] # << >>
      BY <1>2, <2>1 DEF Http!Last
    <3>2. Runs(Http!Done(http_frames)) /\ Len(Http!Done(http_frames)) = n /\ (n > 1 => Http!Done(http_frames)[n] = << >>)
      BY <1>1, <1>2, <3>1, DoneRuns
    <3>3. http_frames' = Http!Done(http_frames) /\ http_at' = "next"
      BY <2>1 DEF Http!NextAction
    <3> QED BY <3>2, <3>3 DEF Http!Last
  <2>2. ASSUME NEW code, Http!Returns(code) PROVE http_at' \in {"next", "done"} /\ Runs(http_frames') /\ (http_at' = "next" /\ Len(http_frames') > 1 => Http!Last(http_frames') = << >>)
    <3>1. CASE n = 1
      <4>1. http_frames' = << >> /\ http_at' = "done"
        BY <1>2, <2>2, <3>1 DEF Http!Returns
      <4>2. << >> \in Seq(Seq(Asked)) /\ Len(<< >>) = 0 /\ 2..0 = {} /\ 1..(0 - 1) = {}
        OBVIOUS
      <4>3. Runs(<< >>)
        BY <4>2 DEF Runs
      <4> QED BY <4>1, <4>3
    <3>2. CASE n # 1
      <4> DEFINE g == Http!Front(http_frames)
      <4>1. n > 1
        BY <1>2, <3>2
      <4>2. Runs(g) /\ Len(g) = n - 1 /\ g[n - 1] # << >>
        BY <1>1, <1>2, <4>1, FrontRuns
      <4>3. http_frames' = Http!Done(g) /\ http_at' = "next"
        BY <1>2, <2>2, <3>2 DEF Http!Returns
      <4> HIDE DEF g
      <4>4. PICK m \in Nat : m = n - 1 /\ m >= 1
        BY <4>1
      <4>5. Runs(Http!Done(g)) /\ Len(Http!Done(g)) = m /\ (m > 1 => Http!Done(g)[m] = << >>)
        BY <4>2, <4>4, DoneRuns
      <4> QED BY <4>3, <4>5 DEF Http!Last
    <3> QED BY <3>1, <3>2
  <2> QED BY <2>1, <2>2
<1>4. Http!RedirectedWhereTold' /\ Http!LatestIsSent'
  <2>1. ~(http_at' = "next" /\ Len(http_frames') > 1 /\ Http!Last(http_frames') # << >>) /\ http_at' # "wait"
    BY <1>3
  <2> QED BY <2>1, Zenon DEF Http!RedirectedWhereTold, Http!LatestIsSent, Http!Last
<1>5. JarKept(http_jar, http_latest)'
  BY <1>1 DEF JarKept, Elements
<1>6. Runs(http_frames)'
  BY <1>3 DEF Runs
<1> QED
  BY <1>3, <1>4, <1>5, <1>6 DEF CommandsInv

\* Where the same action goes on.
LEMMA StaysTold ==
  ASSUME CommandsInv, UNCHANGED http_frames, http_at' # "next", Http!LatestIsSent', JarKept(http_jar, http_latest)',
         http_at' \in {"send", "wait", "more", "answered"} => Http!Last(http_frames) # << >>, http_at' = "answered" => http_ans' \in Parses
  PROVE  CommandsInv'
<1>1. Http!RedirectedWhereTold'
  BY Zenon DEF Http!RedirectedWhereTold
<1>2. Runs(http_frames)'
  BY DEF CommandsInv, Runs
<1>3. http_at' \in {"send", "wait", "more", "answered"} => Http!Last(http_frames)' # << >>
  BY DEF Http!Last
<1>4. http_at' = "answered" => http_ans' \in Parses
  OBVIOUS
<1> QED
  BY <1>1, <1>2, <1>3, <1>4 DEF CommandsInv

\* What is sent with a command that is sent now.
LEMMA CookiesTold ==
  ASSUME JarKept(http_jar, http_latest), Http!SendCookies, UNCHANGED <<http_frames, http_jar, http_latest>>
  PROVE  Http!LatestIsSent'
<1> DEFINE s == Http!Chosen(http_jar)[Len(http_jar)]
<1>1. http_sent' = s
  BY DEF Http!SendCookies
<1>2. Len(s) = Cardinality(Due(http_latest)) /\ {<<Http!Key(c), c.value>> : c \in Http!ToSet(s)} = {<<k, http_latest[k]>> : k \in Due(http_latest)}
  BY AllDueIsChosen
<1> HIDE DEF s
<1>3. Http!Act' = Http!Act
  BY DEF Http!Act, Http!Last
<1>4. \A c : Http!IsPath(c)' <=> Http!IsPath(c)
  BY <1>3 DEF Http!IsPath
<1> DEFINE due == {k \in DOMAIN http_latest' : <<Http!Act'.host, k[2]>> \in Within /\ Http!IsPath([path |-> k[3]])'}
<1>5. due = Due(http_latest)
  BY <1>3, <1>4 DEF Due
<1>6. Http!Cardinality(due) = Cardinality(due)
  BY Zenon DEF Http!Cardinality, Cardinality
<1>7. Len(http_sent') = Http!Cardinality(due) /\ {<< <<c.name, c.domain, c.path>>, c.value>> : c \in Http!ToSet(http_sent')} = {<<k, http_latest'[k]>> : k \in due}
  <2> HIDE DEF due
  <2> QED BY <1>1, <1>2, <1>5, <1>6 DEF Http!Key
<1> QED
  BY <1>7 DEF Http!LatestIsSent, Http!ToSet

LEMMA CommandsInitInv ==
  ASSUME Http!Init
  PROVE  CommandsInv
<1>1. PICK list \in Requests : http_frames = <<list>>
  BY Zenon DEF Http!Init
<1>2. http_at = "next" /\ http_jar = << >> /\ http_latest = << >>
  BY Zenon DEF Http!Init
<1>3. list \in Seq(Asked)
  <2>1. Actions \subseteq Asked
    <3>1. Seq(STRING) \subseteq Seq(Segments)
      <4>1. \A S, T : S \subseteq T => Seq(S) \subseteq Seq(T)
        OBVIOUS
      <4> QED BY <4>1, Written, Zenon
    <3> QED BY <3>1, Written DEF Actions, Asked
  <2>2. list \in Seq(Actions)
    BY RequestsAssumption
  <2> QED BY <2>1, <2>2
<1>4. Runs(http_frames) /\ Len(http_frames) = 1
  <2>1. <<list>> \in Seq(Seq(Asked)) /\ Len(<<list>>) = 1 /\ 2..1 = {} /\ 1..(1 - 1) = {}
    BY <1>3
  <2> QED BY <1>1, <2>1 DEF Runs
<1>5. JarKept(http_jar, http_latest)
  <2>1. << >> \in Seq({}) /\ Len(<< >>) = 0 /\ 1..0 = {} /\ DOMAIN << >> = {}
    OBVIOUS
  <2>2. << >> \in Seq(Elements(<< >>))
    BY <2>1, InItsRange
  <2>3. JarKept(<< >>, << >>)
    BY <2>1, <2>2 DEF JarKept
  <2> QED BY <1>2, <2>3
<1>6. Http!RedirectedWhereTold /\ Http!LatestIsSent
  <2>1. ~(Len(http_frames) > 1) /\ http_at # "wait"
    BY <1>2, <1>4
  <2> QED BY <2>1, Zenon DEF Http!RedirectedWhereTold, Http!LatestIsSent
<1> QED
  BY <1>2, <1>4, <1>5, <1>6 DEF CommandsInv

\* What comes of a header sets cookies.
LEMMA RecvKeepsJar ==
  ASSUME JarKept(http_jar, http_latest), Http!Recv
  PROVE  JarKept(http_jar, http_latest)'
<1>1. PICK n \in 0..Len(http_wire) : Http!KeepCookies(IF Http!Began.length >= 0 THEN << >> ELSE Http!LinesOf(SubSeq(http_wire, 1, n)))
  BY Zenon DEF Http!Recv
<1> DEFINE lines == IF Http!Began.length >= 0 THEN << >> ELSE Http!LinesOf(SubSeq(http_wire, 1, n))
<1>2. Len(lines) \in Nat
  <2>1. n \in Nat
    OBVIOUS
  <2>2. Len(Http!LinesOf(SubSeq(http_wire, 1, n))) \in Nat
    BY <2>1, LinesHaveLength
  <2>3. Len(<< >>) \in Nat
    OBVIOUS
  <2> QED BY <2>2, <2>3, Zenon
<1>3. Http!KeepCookies(lines)
  BY <1>1
<1> HIDE DEF lines
<1>4. PICK N \in Nat : N = Len(lines)
  BY <1>2
<1>5. JarKept(Http!Jars(lines)[N][1], Http!Jars(lines)[N][2])
  BY <1>4, LinesKeepJar
<1>6. http_jar' = Http!Jars(lines)[N][1] /\ http_latest' = Http!Jars(lines)[N][2]
  BY <1>3, <1>4, Zenon DEF Http!KeepCookies
<1>7. JarKept(http_jar', http_latest')
  BY <1>5, <1>6
<1> QED
  BY <1>7 DEF JarKept, Elements

\* A redirection is an action of its own, where it was told.
LEMMA MovedTold ==
  ASSUME CommandsInv, FramesKept, Http!Moved, http_ans.location # << >>, ~http_ans.location[1].ssl
  PROVE  CommandsInv'
<1> DEFINE to == http_ans.location[1]
           act == Http!Act
           url == IF to.host # "" THEN <<"http:", "", to.host>> \o to.path ELSE Http!AddLocationToUrl(act.host, act.path, to)
           new == [command |-> "GET", host |-> Http!Host(url), path |-> Http!Path(url), file |-> "none", ssl |-> FALSE]
<1>1. /\ http_at = "answered" /\ http_at' = "next" /\ http_frames' = Append(http_frames, <<new>>)
      /\ UNCHANGED <<http_ans, http_jar, http_latest>>
  BY Zenon DEF Http!Moved, Http!cookies
<1> HIDE DEF url
<1>2. Runs(http_frames) /\ JarKept(http_jar, http_latest) /\ Http!Last(http_frames) # << >> /\ http_ans \in Parses
  BY <1>1 DEF CommandsInv
<1>3. PICK n \in Nat : n = Len(http_frames) /\ n >= 1
  BY <1>1, LenProperties DEF FramesKept
<1>4. /\ http_frames \in Seq(Seq(Asked)) /\ \A k \in 2..n : Len(http_frames[k]) <= 1
      /\ \A k \in 1..(n - 1) : http_frames[k] # << >>
  BY <1>2, <1>3 DEF Runs
<1>5. act \in Asked /\ act = Head(http_frames[n]) /\ http_frames[n] # << >>
  <2>1. http_frames[n] # << >> /\ act = Head(http_frames[n])
    BY <1>2, <1>3 DEF Http!Last, Http!Act
  <2>2. n \in 1..n
    BY <1>3
  <2>3. http_frames[n] \in Seq(Asked)
    BY <1>3, <1>4, <2>2, LenProperties
  <2> QED BY <2>1, <2>3, HeadTailProperties
<1> HIDE DEF act
<1>6. act.host \in Segments /\ act.path \in Seq(Segments)
  BY <1>5 DEF Asked
<1>7. to \in Locations
  <2>1. http_ans.location \in Seq(Locations)
    BY <1>2 DEF Parses
  <2>2. 1 \in 1..Len(http_ans.location)
    <3>1. Len(http_ans.location) \in Nat \ {0}
      BY <2>1, EmptySeq
    <3>2. \A m \in Nat \ {0} : 1 \in 1..m
      OBVIOUS
    <3> QED BY <3>1, <3>2
  <2> QED BY <2>1, <2>2, LenProperties
<1> HIDE DEF to
<1>8. /\ Http!Host(url) \in Segments /\ Http!Path(url) \in Seq(Segments)
      /\ to.host = "" /\ to.up < Len(act.path) /\ (to.root => to.up = 0) =>
           /\ Http!Host(url) = act.host
           /\ Http!Path(url) = (IF to.root THEN << >> ELSE SubSeq(act.path, 1, Len(act.path) - 1 - to.up)) \o to.path
  BY <1>6, <1>7, LeadsWhereTold, Zenon DEF url
<1>9. new \in Asked /\ new.host = Http!Host(url) /\ new.path = Http!Path(url)
  BY <1>8 DEF Asked
<1> HIDE DEF new
<1>10. <<new>> \in Seq(Asked) /\ Len(<<new>>) = 1 /\ Head(<<new>>) = new
  BY <1>9
<1> DEFINE f == Append(http_frames, <<new>>)
<1>11. /\ f \in Seq(Seq(Asked)) /\ Len(f) = n + 1 /\ f[n + 1] = <<new>>
       /\ \A k \in 1..n : f[k] = http_frames[k]
  BY <1>3, <1>4, <1>10, AppendProperties
<1>12. http_frames' = f
  BY <1>1
<1> HIDE DEF f
<1>13. \A k \in 2..(n + 1) : Len(f[k]) <= 1
  <2> SUFFICES ASSUME NEW k \in 2..(n + 1) PROVE Len(f[k]) <= 1
    OBVIOUS
  <2>1. CASE k = n + 1
    <3>1. f[k] = <<new>> /\ Len(<<new>>) = 1
      BY <1>10, <1>11, <2>1
    <3>2. Len(f[k]) = 1
      BY <3>1
    <3> QED BY <3>2
  <2>2. CASE k # n + 1
    <3>1. k \in 1..n /\ k \in 2..n
      BY <1>3, <2>2
    <3> QED BY <1>4, <1>11, <3>1
  <2> QED BY <2>1, <2>2
<1>14. \A k \in 1..n : f[k] # << >>
  <2> SUFFICES ASSUME NEW k \in 1..n PROVE f[k] # << >>
    OBVIOUS
  <2>1. CASE k = n
    BY <1>5, <1>11, <2>1
  <2>2. CASE k # n
    <3>1. k \in 1..(n - 1)
      BY <1>3, <2>2
    <3> QED BY <1>4, <1>11, <3>1
  <2> QED BY <2>1, <2>2
<1>15. Runs(http_frames)'
  <2>1. n + 1 - 1 = n
    OBVIOUS
  <2> QED BY <1>11, <1>12, <1>13, <1>14, <2>1 DEF Runs
<1>16. Http!RedirectedWhereTold'
  <2>1. Http!Act' = new
    BY <1>10, <1>11, <1>12 DEF Http!Act, Http!Last
  <2>2. Head(http_frames'[Len(http_frames') - 1]) = act
    <3>1. Len(http_frames') - 1 = n /\ n \in 1..n
      BY <1>3, <1>11, <1>12
    <3>2. http_frames'[n] = http_frames[n]
      BY <1>11, <1>12, <3>1
    <3> QED BY <1>5, <3>1, <3>2
  <2>3. http_ans'.location[1] = to
    BY <1>1 DEF to
  <2>4. LET from == Head(http_frames'[Len(http_frames') - 1])
            there == http_ans'.location[1]
        IN there.host = "" /\ there.up < Len(from.path) /\ (there.root => there.up = 0) =>
             /\ Http!Act'.host = from.host
             /\ Http!Act'.path = (IF there.root THEN << >> ELSE SubSeq(from.path, 1, Len(from.path) - 1 - there.up)) \o there.path
    BY <1>8, <1>9, <2>1, <2>2, <2>3, Zenon
  <2> QED BY <2>4, Zenon DEF Http!RedirectedWhereTold
<1>17. Http!LatestIsSent'
  BY <1>1 DEF Http!LatestIsSent
<1>18. JarKept(http_jar, http_latest)'
  BY <1>1, <1>2 DEF JarKept, Elements
<1> QED
  BY <1>1, <1>15, <1>16, <1>17, <1>18 DEF CommandsInv

LEMMA CommandsStep ==
  ASSUME HttpInv, CommandsInv, Http!Next
  PROVE  CommandsInv'
<1>0. HttpTyped /\ FramesKept /\ AnswerKept
  BY DEF HttpInv
<1> DEFINE Left == (Http!NextAction /\ Http!Last(http_frames) # << >>) \/ (\E code : Http!Returns(code))
<1>1. ASSUME Left, http_at # "done", UNCHANGED <<http_ans, http_jar, http_latest>> PROVE CommandsInv'
  BY <1>0, <1>1, LeavesTold
<1>2. ASSUME UNCHANGED <<http_frames, http_jar, http_latest>>, http_at' \notin {"next", "wait"},
             http_at' \in {"send", "wait", "more", "answered"} => Http!Last(http_frames) # << >>, http_at' = "answered" => http_ans' \in Parses
      PROVE  CommandsInv'
  <2>1. JarKept(http_jar, http_latest)'
    BY <1>2 DEF CommandsInv, JarKept, Elements
  <2>2. Http!LatestIsSent'
    BY <1>2 DEF Http!LatestIsSent
  <2> QED BY <1>2, <2>1, <2>2, StaysTold
<1>3. http_at \in {"send", "wait", "more", "answered"} => Http!Last(http_frames) # << >>
  BY DEF CommandsInv
<1>4. CASE Http!Return
  BY <1>1, <1>4 DEF Http!Return, Http!cookies
<1>5. CASE Http!Refused
  BY <1>1, <1>5 DEF Http!Refused, Http!cookies
<1>6. CASE Http!CreateConnection
  BY <1>2, <1>6 DEF Http!CreateConnection, Http!Connectable, Http!cookies
<1>7. CASE Http!CreateConnectionFails
  BY <1>1, <1>7 DEF Http!CreateConnectionFails, Http!Connectable, Http!cookies
<1>8. ASSUME http_at = "send", http_at' = "wait", Http!SendCookies, UNCHANGED <<http_frames, http_jar, http_latest>>
      PROVE  CommandsInv'
  <2>1. JarKept(http_jar, http_latest)
    BY DEF CommandsInv
  <2>2. Http!LatestIsSent'
    BY <1>8, <2>1, CookiesTold
  <2>3. JarKept(http_jar, http_latest)'
    BY <1>8, <2>1 DEF JarKept, Elements
  <2> QED BY <1>3, <1>8, <2>2, <2>3, StaysTold
<1>9. CASE Http!SendCommand
  BY <1>8, <1>9 DEF Http!SendCommand, Http!Sent, Http!cookies
<1>10. CASE Http!SendCommandFails
  BY <1>1, <1>3, <1>10 DEF Http!SendCommandFails, Http!cookies
<1>11. CASE Http!SendFile
  BY <1>8, <1>11 DEF Http!SendFile, Http!cookies
<1>12. CASE Http!Recv
  <2>1. Begun(http_ans)'
    BY <1>0, <1>12, RecvBegun
  <2>2. http_ans' \in Parses
    BY <2>1 DEF Begun
  <2>3. http_at \in {"wait", "more"} /\ http_at' \in {"more", "answered"} /\ http_frames' = http_frames
    BY <1>12 DEF Http!Recv
  <2>4. JarKept(http_jar, http_latest)'
    BY <1>12, RecvKeepsJar DEF CommandsInv
  <2>5. Http!LatestIsSent'
    BY <2>3 DEF Http!LatestIsSent
  <2> QED BY <1>3, <2>2, <2>3, <2>4, <2>5, StaysTold
<1>13. CASE Http!RecvCut
  BY <1>2, <1>13 DEF Http!RecvCut, Http!cookies
\* What has come is the answer.
<1>14. ASSUME http_at = "more", http_at' = "answered", UNCHANGED <<http_frames, http_ans, http_jar, http_latest>>
       PROVE  CommandsInv'
  <2>1. http_ans \in Parses
    BY <1>0, <1>14 DEF AnswerKept, Begun
  <2> QED BY <1>2, <1>3, <1>14, <2>1
<1>15. CASE Http!Ended
  <2>1. CASE http_at = "wait"
    BY <1>1, <1>15, <2>1 DEF Http!Ended, Http!cookies
  <2>2. CASE http_at # "wait"
    BY <1>14, <1>15, <2>2 DEF Http!Ended, Http!cookies
  <2> QED BY <2>1, <2>2
<1>16. CASE Http!TimedOut
  <2>1. CASE http_at = "wait" \/ http_ans.length = -1
    BY <1>1, <1>16, <2>1 DEF Http!TimedOut, Http!cookies
  <2>2. CASE ~(http_at = "wait" \/ http_ans.length = -1)
    BY <1>14, <1>16, <2>2 DEF Http!TimedOut, Http!cookies
  <2> QED BY <2>1, <2>2
<1>17. CASE Http!Callback
  BY <1>1, <1>3, <1>17 DEF Http!Callback, Http!cookies
<1>18. CASE Http!Moved
  <2>1. http_at = "answered" /\ UNCHANGED <<http_ans, http_jar, http_latest>>
    BY <1>18, Zenon DEF Http!Moved, Http!cookies
  <2>2. CASE http_ans.location = << >>
    <3>1. http_at' = "crashed" /\ UNCHANGED http_frames
      BY <1>18, <2>2, Zenon DEF Http!Moved
    <3> QED BY <1>2, <2>1, <3>1
  <2>3. CASE http_ans.location # << >> /\ http_ans.location[1].ssl
    <3>1. Http!Returns(-10)
      BY <1>18, <2>3, Zenon DEF Http!Moved
    <3> QED BY <1>1, <2>1, <3>1
  <2>4. CASE http_ans.location # << >> /\ ~http_ans.location[1].ssl
    BY <1>0, <1>18, <2>4, MovedTold
  <2> QED BY <2>2, <2>3, <2>4
<1> QED
  BY <1>4, <1>5, <1>6, <1>7, <1>9, <1>10, <1>11, <1>12, <1>13, <1>15, <1>16, <1>17, <1>18 DEF Http!Next

LEMMA CommandsStepInv ==
  ASSUME HttpInv, CommandsInv, [Http!Next]_(Http!vars)
  PROVE  CommandsInv'
<1>1. CASE Http!Next
  BY <1>1, CommandsStep
<1>2. CASE UNCHANGED Http!vars
  <2>1. UNCHANGED <<http_frames, http_at, http_ans, http_jar, http_sent, http_latest>>
    BY <1>2 DEF Http!vars
  <2>2. Runs(http_frames)' /\ JarKept(http_jar, http_latest)'
    BY <2>1 DEF CommandsInv, Runs, JarKept, Elements
  <2>3. Http!Act' = Http!Act /\ Http!Last(http_frames)' = Http!Last(http_frames)
    BY <2>1 DEF Http!Act, Http!Last
  <2>4. Http!RedirectedWhereTold'
    <3>1. Http!RedirectedWhereTold
      BY DEF CommandsInv
    <3> QED BY <2>1, <2>3, <3>1, Zenon DEF Http!RedirectedWhereTold
  <2>5. Http!LatestIsSent'
    <3>1. \A c : Http!IsPath(c)' <=> Http!IsPath(c)
      BY <2>3 DEF Http!IsPath
    <3>2. Http!LatestIsSent
      BY DEF CommandsInv
    <3> QED BY <2>1, <2>3, <3>1, <3>2 DEF Http!LatestIsSent, Http!ToSet
  <2> QED BY <2>1, <2>2, <2>3, <2>4, <2>5 DEF CommandsInv
<1> QED
  BY <1>1, <1>2

-----------------------------------------------------------------------------
(* SharedFile: programs that open one file.                                *)

FileAccesses == {"none", "any", "new", "read", "write", "append", "both"}
FileSteps == {"none", "check", "create", "open", "close"}
FileModes == {"NULL", "rb", "wb", "ab"}

FileShapes ==
  /\ file_file = << >> \/ \E content \in Seq(Nat) : file_file = <<content>>
  /\ file_call \in [Programs -> [step : FileSteps, access : FileAccesses, create : BOOLEAN, there : BOOLEAN, refused : BOOLEAN]]
  /\ file_handle \in [Programs -> [mode : FileModes, offset : Nat, linked : BOOLEAN]]
  /\ file_writes \in 0..MaxWrites /\ file_emptied \subseteq Programs
  /\ \A p \in Programs : file_handle[p].mode \in {"wb", "ab"} /\ file_handle[p].linked => File!Exists

\* A file that has been there since a call began is still there; and a call that was not to empty it comes to fopen's "wb" only if it was
\* told that the file may not be opened.
ThereStays == \A p \in Programs : file_call[p].there => File!Exists
RefusedFirst ==
  \A p \in Programs :
    /\ file_call[p].step = "create" /\ file_call[p].access \notin {"any", "write"} /\ file_call[p].there => file_call[p].refused
    /\ file_call[p].step \in {"open", "close"} => file_call[p].access \in DOMAIN File!Mode
FileInv == FileShapes /\ ThereStays /\ RefusedFirst /\ File!NotEmptiedUnasked


-----------------------------------------------------------------------------
LEMMA FileInitInv ==
  ASSUME File!Init
  PROVE  FileInv
<1>1. file_file = << >> /\ ~File!Exists /\ file_writes \in 0..MaxWrites /\ file_emptied = {} BY ServicesAssumption DEF File!Init, File!Exists
<1>2. file_call \in [Programs -> [step : FileSteps, access : FileAccesses, create : BOOLEAN, there : BOOLEAN, refused : BOOLEAN]]
      /\ \A p \in Programs : file_call[p].step = "none" /\ ~file_call[p].there
  BY DEF File!Init, File!NoCall, FileSteps, FileAccesses
<1>3. file_handle \in [Programs -> [mode : FileModes, offset : Nat, linked : BOOLEAN]] /\ \A p \in Programs : file_handle[p].mode = "NULL"
  BY DEF File!Init, File!NoHandle, FileModes
<1>4. FileShapes BY <1>1, <1>2, <1>3 DEF FileShapes
<1>5. ThereStays /\ RefusedFirst BY <1>2 DEF ThereStays, RefusedFirst
<1> QED BY <1>1, <1>4, <1>5 DEF FileInv, File!NotEmptiedUnasked

\* A call that goes on, or returns, while the file and the handles are left alone.
LEMMA CallGoesOn ==
  ASSUME FileInv, NEW p \in Programs, UNCHANGED <<file_file, file_handle, file_writes, file_emptied>>,
         NEW c \in [step : FileSteps, access : FileAccesses, create : BOOLEAN, there : BOOLEAN, refused : BOOLEAN],
         file_call' = [file_call EXCEPT ![p] = c], c.there => File!Exists,
         c.step = "create" /\ c.access \notin {"any", "write"} /\ c.there => c.refused,
         c.step \in {"open", "close"} => c.access \in DOMAIN File!Mode
  PROVE  FileInv'
<1>1. FileShapes' BY DEF FileInv, FileShapes, File!Exists
<1>2. ThereStays' BY DEF FileInv, FileShapes, ThereStays, File!Exists
<1>3. RefusedFirst' BY DEF FileInv, FileShapes, RefusedFirst, File!Mode
<1>4. File!NotEmptiedUnasked' BY DEF FileInv, File!NotEmptiedUnasked
<1> QED BY <1>1, <1>2, <1>3, <1>4 DEF FileInv

LEMMA ReturnIsACall ==
  File!NoCall \in [step : FileSteps, access : FileAccesses, create : BOOLEAN, there : BOOLEAN, refused : BOOLEAN]
  BY DEF File!NoCall, FileSteps, FileAccesses

LEMMA CallBegins ==
  ASSUME FileInv, NEW p \in Programs, NEW step \in {"check", "create", "open"}, NEW access \in FileAccesses, NEW create \in BOOLEAN,
         File!Begin(p, step, access, create), step = "open" => access \in DOMAIN File!Mode, step = "create" => access = "any"
  PROVE  FileInv'
<1> DEFINE c == [step |-> step, access |-> access, create |-> create, there |-> File!Exists, refused |-> FALSE]
<1>1. File!Exists \in BOOLEAN BY DEF File!Exists
<1>2. c \in [step : FileSteps, access : FileAccesses, create : BOOLEAN, there : BOOLEAN, refused : BOOLEAN] BY <1>1 DEF FileSteps
<1> QED BY <1>2, CallGoesOn DEF File!Begin

\* fopen, from a step that may use this mode.
LEMMA OpensKeeps ==
  ASSUME FileInv, NEW p \in Programs, NEW mode \in {"rb", "wb", "ab"}, File!Opens(p, mode), file_writes' = file_writes,
         mode = "wb" /\ file_call[p].there /\ ~file_call[p].refused => file_call[p].access \in {"any", "write"},
         NEW c \in [step : FileSteps, access : FileAccesses, create : BOOLEAN, there : BOOLEAN, refused : BOOLEAN],
         file_call' = [file_call EXCEPT ![p] = c], c.there => file_call[p].there, c.step = "none" \/ (c.step = "close" /\ c.access \in DOMAIN File!Mode)
  PROVE  FileInv'
<1>1. File!Exists' BY DEF File!Opens, File!Exists
<1>2. file_emptied' = {} BY DEF File!Opens, FileInv, File!NotEmptiedUnasked
<1>3. file_file' = << >> \/ \E content \in Seq(Nat) : file_file' = <<content>>
  <2>1. << >> \in Seq(Nat) OBVIOUS
  <2> QED BY <2>1 DEF File!Opens, FileInv, FileShapes
<1>4. file_handle' \in [Programs -> [mode : FileModes, offset : Nat, linked : BOOLEAN]] BY DEF File!Opens, FileInv, FileShapes, FileModes
<1>5. file_call' \in [Programs -> [step : FileSteps, access : FileAccesses, create : BOOLEAN, there : BOOLEAN, refused : BOOLEAN]]
  BY DEF FileInv, FileShapes
<1>6. FileShapes' BY <1>1, <1>2, <1>3, <1>4, <1>5 DEF FileInv, FileShapes
<1>7. ThereStays' BY <1>1 DEF ThereStays
<1>8. RefusedFirst' BY DEF FileInv, FileShapes, RefusedFirst
<1> QED BY <1>2, <1>6, <1>7, <1>8 DEF FileInv, File!NotEmptiedUnasked

\* A write puts numbers into the file.
LEMMA WriteKeeps ==
  ASSUME FileInv, NEW p \in Programs, File!SU_WriteFile(p), file_handle[p].linked
  PROVE  FileInv'
<1>1. PICK content \in Seq(Nat) : file_file = <<content>>
  BY DEF FileInv, FileShapes, File!SU_WriteFile, File!Exists
<1>2. PICK k \in Nat : file_file' = <<File!At(content, k, file_writes + 1)>> /\ file_handle' = [file_handle EXCEPT ![p].offset = k]
  <2> DEFINE k == IF file_handle[p].mode = "ab" THEN Len(file_file[1]) + 1 ELSE file_handle[p].offset + 1
  <2>1. file_file[1] = content BY <1>1
  <2>2. Len(content) \in Nat /\ file_handle[p].offset \in Nat BY DEF FileInv, FileShapes
  <2>3. k \in Nat BY <2>1, <2>2
  <2>4. file_file' = <<File!At(content, k, file_writes + 1)>> /\ file_handle' = [file_handle EXCEPT ![p].offset = k]
    BY <2>1 DEF File!SU_WriteFile
  <2> QED BY <2>3, <2>4
<1>3. File!At(content, k, file_writes + 1) \in Seq(Nat)
  <2>1. file_writes + 1 \in Nat BY ServicesAssumption DEF FileInv, FileShapes
  <2>2. PICK n \in Nat : n = IF k > Len(content) THEN k ELSE Len(content) OBVIOUS
  <2>3. \A i \in 1..n : (IF i = k THEN file_writes + 1 ELSE IF i \in DOMAIN content THEN content[i] ELSE 0) \in Nat BY <2>1
  <2>4. File!At(content, k, file_writes + 1) = [i \in 1..n |-> IF i = k THEN file_writes + 1 ELSE IF i \in DOMAIN content THEN content[i] ELSE 0]
    BY <2>2 DEF File!At
  <2>5. File!At(content, k, file_writes + 1) \in [1..n -> Nat] BY <2>3, <2>4
  <2>6. n \in Nat BY <2>2
  <2> QED BY <2>5, <2>6
<1>4. file_writes' \in 0..MaxWrites /\ UNCHANGED <<file_call, file_emptied>> BY ServicesAssumption DEF File!SU_WriteFile, FileInv, FileShapes
<1>5. File!Exists' BY <1>2 DEF File!Exists
<1>6. file_handle' \in [Programs -> [mode : FileModes, offset : Nat, linked : BOOLEAN]] BY <1>2 DEF FileInv, FileShapes
<1>7. FileShapes' BY <1>2, <1>3, <1>4, <1>5, <1>6 DEF FileInv, FileShapes
<1>8. ThereStays' BY <1>5 DEF ThereStays
<1>9. RefusedFirst' BY <1>4 DEF FileInv, RefusedFirst
<1> QED BY <1>4, <1>7, <1>8, <1>9 DEF FileInv, File!NotEmptiedUnasked

\* One to a file that is on no path changes nothing that is.
LEMMA LostWriteKeeps ==
  ASSUME FileInv, NEW p \in Programs, File!SU_WriteFile(p), ~file_handle[p].linked
  PROVE  FileInv'
<1>1. UNCHANGED <<file_file, file_handle, file_call, file_emptied>> BY DEF File!SU_WriteFile
<1>2. file_writes' \in 0..MaxWrites BY ServicesAssumption DEF File!SU_WriteFile, FileInv, FileShapes
<1>3. FileShapes' BY <1>1, <1>2 DEF FileInv, FileShapes, File!Exists
<1>4. ThereStays' /\ RefusedFirst' BY <1>1 DEF FileInv, ThereStays, RefusedFirst, File!Exists
<1> QED BY <1>1, <1>3, <1>4 DEF FileInv, File!NotEmptiedUnasked

LEMMA RemoveKeeps ==
  ASSUME FileInv, File!Remove
  PROVE  FileInv'
<1> DEFINE Calls == [step : FileSteps, access : FileAccesses, create : BOOLEAN, there : BOOLEAN, refused : BOOLEAN]
           Opened == [mode : FileModes, offset : Nat, linked : BOOLEAN]
<1>1. /\ file_file' = << >> /\ UNCHANGED <<file_writes, file_emptied>>
      /\ file_call' = [p \in Programs |-> [file_call[p] EXCEPT !.there = FALSE]]
      /\ file_handle' = [p \in Programs |-> [file_handle[p] EXCEPT !.linked = FALSE]]
  BY DEF File!Remove
<1>2. /\ \A p \in Programs : file_call[p] \in Calls /\ file_handle[p] \in Opened
      /\ file_writes \in 0..MaxWrites /\ file_emptied \subseteq Programs
  BY DEF FileInv, FileShapes
<1>3. \A p \in Programs : /\ file_call'[p] \in Calls /\ ~file_call'[p].there
                          /\ file_call'[p].step = file_call[p].step /\ file_call'[p].access = file_call[p].access
                          /\ file_handle'[p] \in Opened /\ ~file_handle'[p].linked
  BY <1>1, <1>2
<1>4. file_call' \in [Programs -> Calls] /\ file_handle' \in [Programs -> Opened] BY <1>1, <1>3
<1> HIDE DEF Calls, Opened
<1>5. FileShapes' BY <1>1, <1>2, <1>3, <1>4 DEF FileShapes, Calls, Opened
<1>6. ThereStays' /\ RefusedFirst' BY <1>3 DEF FileInv, ThereStays, RefusedFirst
<1> QED BY <1>1, <1>5, <1>6 DEF FileInv, File!NotEmptiedUnasked

LEMMA FileStepInv ==
  ASSUME FileInv, [File!Next]_(File!vars)
  PROVE  FileInv'
<1> DEFINE Calls == [step : FileSteps, access : FileAccesses, create : BOOLEAN, there : BOOLEAN, refused : BOOLEAN]
<1>1. ASSUME NEW p \in Programs, File!SU_CreateFile(p) PROVE FileInv'
  <2>1. PICK FailIsExists \in BOOLEAN :
          File!Begin(p, IF FailIsExists THEN "check" ELSE "create", IF FailIsExists THEN "new" ELSE "any", FALSE)
    BY <1>1 DEF File!SU_CreateFile
  <2>2. CASE FailIsExists
    <3>1. File!Begin(p, "check", "new", FALSE) BY <2>1, <2>2
    <3> QED BY <3>1, CallBegins DEF FileAccesses
  <2>3. CASE ~FailIsExists
    <3>1. File!Begin(p, "create", "any", FALSE) BY <2>1, <2>3
    <3> QED BY <3>1, CallBegins DEF FileAccesses
  <2> QED BY <2>2, <2>3
<1>2. ASSUME NEW p \in Programs, File!Check(p) PROVE FileInv'
  <2>1. file_call[p] \in Calls /\ File!Exists \in BOOLEAN BY DEF FileInv, FileShapes, File!Exists
  <2>2. CASE File!Returns(p) BY <1>2, <2>2, CallGoesOn, ReturnIsACall DEF File!Check, File!Returns, File!NoCall
  <2>3. CASE ~File!Exists /\ File!To(p, "create")
    <3> DEFINE c == [file_call[p] EXCEPT !.step = "create"]
    <3>1. file_call' = [file_call EXCEPT ![p] = c] BY <2>3 DEF File!To
    <3>2. c \in Calls /\ c.there = file_call[p].there BY <2>1 DEF FileSteps
    <3>3. ~c.there BY <2>3, <3>2 DEF FileInv, ThereStays
    <3>4. c.step = "create" BY <2>1
    <3> HIDE DEF c
    <3> QED BY <1>2, <3>1, <3>2, <3>3, <3>4, CallGoesOn DEF File!Check
  <2>4. CASE file_call' = [file_call EXCEPT ![p].step = "create", ![p].refused = File!Exists]
    <3> DEFINE c == [file_call[p] EXCEPT !.step = "create", !.refused = File!Exists]
    <3>1. file_call' = [file_call EXCEPT ![p] = c] BY <2>4 DEF FileInv, FileShapes
    <3>2. c \in Calls /\ c.there = file_call[p].there /\ c.refused = File!Exists /\ c.step = "create" BY <2>1 DEF FileSteps
    <3>3. file_call[p].there => File!Exists BY DEF FileInv, ThereStays
    <3> HIDE DEF c
    <3> QED BY <1>2, <3>1, <3>2, <3>3, CallGoesOn DEF File!Check
  <2> QED BY <1>2, <2>2, <2>3, <2>4 DEF File!Check, File!Checked
<1>3. ASSUME NEW p \in Programs, File!SU_OpenFile(p) PROVE FileInv'
  <2>1. PICK access \in DOMAIN File!Mode, create \in BOOLEAN : File!Begin(p, "open", access, create) BY <1>3 DEF File!SU_OpenFile
  <2>2. access \in FileAccesses BY DEF File!Mode, FileAccesses
  <2> QED BY <2>1, <2>2, CallBegins
<1>4. ASSUME NEW p \in Programs, File!Open(p) PROVE FileInv'
  <2>1. file_call[p].access \in DOMAIN File!Mode BY <1>4 DEF File!Open, FileInv, RefusedFirst
  <2>2. File!Mode[file_call[p].access] \in {"rb", "wb", "ab"} /\ (File!Mode[file_call[p].access] = "wb" => file_call[p].access = "write")
    BY <2>1 DEF File!Mode
  <2>3. File!NoCall.there = FALSE /\ File!NoCall.step = "none" BY DEF File!NoCall
  <2> QED BY <1>4, <2>2, <2>3, ReturnIsACall, OpensKeeps DEF File!Open, File!Returns
<1>5. ASSUME NEW p \in Programs, File!OpenFails(p) PROVE FileInv'
  <2>1. file_call[p] \in Calls /\ File!Exists \in BOOLEAN BY DEF FileInv, FileShapes, File!Exists
  <2>2. CASE File!Returns(p) BY <1>5, <2>2, CallGoesOn, ReturnIsACall DEF File!OpenFails, File!Returns, File!NoCall
  <2>3. CASE file_call' = [file_call EXCEPT ![p].step = "create", ![p].refused = File!Exists]
    <3> DEFINE c == [file_call[p] EXCEPT !.step = "create", !.refused = File!Exists]
    <3>1. file_call' = [file_call EXCEPT ![p] = c] BY <2>3 DEF FileInv, FileShapes
    <3>2. c \in Calls /\ c.there = file_call[p].there /\ c.refused = File!Exists /\ c.step = "create" BY <2>1 DEF FileSteps
    <3>3. file_call[p].there => File!Exists BY DEF FileInv, ThereStays
    <3> HIDE DEF c
    <3> QED BY <1>5, <3>1, <3>2, <3>3, CallGoesOn DEF File!OpenFails
  <2> QED BY <1>5, <2>2, <2>3 DEF File!OpenFails
<1>6. ASSUME NEW p \in Programs, File!Create(p) PROVE FileInv'
  <2>1. file_call[p] \in Calls BY DEF FileInv, FileShapes
  <2>2. file_call[p].there /\ ~file_call[p].refused => file_call[p].access \in {"any", "write"}
    BY <1>6 DEF File!Create, FileInv, RefusedFirst
  <2>3. CASE File!Returns(p)
    <3>1. File!NoCall.there = FALSE /\ File!NoCall.step = "none" BY DEF File!NoCall
    <3> QED BY <1>6, <2>2, <2>3, <3>1, ReturnIsACall, OpensKeeps DEF File!Create, File!Returns
  <2>4. CASE file_call[p].access \in DOMAIN File!Mode /\ file_call' = [file_call EXCEPT ![p].step = "close"]
    <3> DEFINE c == [file_call[p] EXCEPT !.step = "close"]
    <3>1. file_call' = [file_call EXCEPT ![p] = c] BY <2>4
    <3>2. c \in Calls /\ c.there = file_call[p].there /\ c.access = file_call[p].access /\ c.step = "close" BY <2>1 DEF FileSteps
    <3> HIDE DEF c
    <3> QED BY <1>6, <2>2, <2>4, <3>1, <3>2, OpensKeeps DEF File!Create
  <2> QED BY <1>6, <2>3, <2>4 DEF File!Create
<1>7. ASSUME NEW p \in Programs, File!CreateFails(p) PROVE FileInv'
  BY <1>7, CallGoesOn, ReturnIsACall DEF File!CreateFails, File!Returns, File!NoCall
<1>8. ASSUME NEW p \in Programs, File!Reopen(p) PROVE FileInv'
  <2> DEFINE c == [file_call[p] EXCEPT !.step = "open", !.create = FALSE]
  <2>1. file_call[p] \in Calls BY DEF FileInv, FileShapes
  <2>2. file_call' = [file_call EXCEPT ![p] = c] BY <1>8 DEF File!Reopen, FileInv, FileShapes
  <2>3. c \in Calls /\ c.there = file_call[p].there /\ c.access = file_call[p].access /\ c.step = "open" BY <2>1 DEF FileSteps
  <2>4. c.access \in DOMAIN File!Mode BY <1>8, <2>3 DEF File!Reopen, FileInv, RefusedFirst
  <2>5. file_handle' \in [Programs -> [mode : FileModes, offset : Nat, linked : BOOLEAN]] BY <1>8 DEF File!Reopen, FileInv, FileShapes, File!NoHandle, FileModes
  <2>6. \A q \in Programs : file_handle'[q].mode \in {"wb", "ab"} /\ file_handle'[q].linked => File!Exists
    BY <1>8 DEF File!Reopen, FileInv, FileShapes, File!NoHandle
  <2>7. UNCHANGED <<file_file, file_writes, file_emptied>> BY <1>8 DEF File!Reopen
  <2> HIDE DEF c
  <2>8. FileShapes' BY <2>2, <2>3, <2>5, <2>6, <2>7 DEF FileInv, FileShapes, File!Exists
  <2>9. ThereStays' BY <2>2, <2>3, <2>7 DEF FileInv, FileShapes, ThereStays, File!Exists
  <2>10. RefusedFirst' BY <2>2, <2>3, <2>4 DEF FileInv, FileShapes, RefusedFirst
  <2> QED BY <2>7, <2>8, <2>9, <2>10 DEF FileInv, File!NotEmptiedUnasked
<1>9. ASSUME NEW p \in Programs, File!SU_CloseFile(p) PROVE FileInv'
  <2>1. file_handle' \in [Programs -> [mode : FileModes, offset : Nat, linked : BOOLEAN]] BY <1>9 DEF File!SU_CloseFile, FileInv, FileShapes, File!NoHandle, FileModes
  <2> QED BY <1>9, <2>1 DEF File!SU_CloseFile, FileInv, FileShapes, ThereStays, RefusedFirst, File!NotEmptiedUnasked, File!Exists, File!NoHandle
<1>10. CASE UNCHANGED File!vars
  BY <1>10 DEF File!vars, FileInv, FileShapes, ThereStays, RefusedFirst, File!NotEmptiedUnasked, File!Exists
<1>11. ASSUME NEW p \in Programs, File!SU_WriteFile(p) PROVE FileInv' BY <1>11, WriteKeeps, LostWriteKeeps
<1>12. ASSUME File!Remove PROVE FileInv' BY <1>12, RemoveKeeps
<1> QED BY <1>1, <1>2, <1>3, <1>4, <1>5, <1>6, <1>7, <1>8, <1>9, <1>10, <1>11, <1>12 DEF File!Next

LEMMA FileInvTypes ==
  ASSUME FileInv
  PROVE  File!TypeOK
<1>1. Len(file_file) <= 1
  <2>1. CASE file_file = << >> BY <2>1
  <2>2. CASE \E content \in Seq(Nat) : file_file = <<content>>
    <3>1. PICK content \in Seq(Nat) : file_file = <<content>> BY <2>2
    <3> QED BY <3>1
  <2>3. file_file = << >> \/ \E content \in Seq(Nat) : file_file = <<content>> BY DEF FileInv, FileShapes
  <2> QED BY <2>1, <2>2, <2>3
<1>2. \A p \in Programs : file_handle[p].mode \in FileModes /\ file_call[p].step \in FileSteps BY DEF FileInv, FileShapes
<1> QED BY <1>1, <1>2 DEF FileInv, FileShapes, File!TypeOK, FileModes, FileSteps

-----------------------------------------------------------------------------
(* Daemon: the program, its son and its grandson.                          *)

Processes == [at : {"none", "fork", "setsid", "fork_2", "chdir", "fd_0", "fd_1", "fd_2", "exit", "gone", "true", "false"},
              fds : [0..3 -> {"closed", "term", "null"}], text : BOOLEAN, leads : BOOLEAN, cwd : {"home", "/"}]

\* Who there is: a son when the father exits, a grandson when the son exits.
Family ==
  /\ daemon_procs \in [1..3 -> Processes]
  /\ \/ daemon_procs[1].at \in {"fork", "false"} /\ daemon_procs[2].at = "none"
     \/ daemon_procs[1].at \in {"exit", "gone"} /\ daemon_procs[2].at \in {"setsid", "fork_2", "false", "exit", "gone"}
  /\ \/ daemon_procs[2].at \notin {"exit", "gone"} /\ daemon_procs[3].at = "none"
     \/ /\ daemon_procs[2].at \in {"exit", "gone"}
        /\ daemon_procs[3].at \in {"chdir", "fd_0", "fd_1", "fd_2", "true", "false"}

\* What the grandson has done, and what it has from the program that was started.
Progress ==
  LET d == daemon_procs[3] IN
  /\ daemon_procs[2].at # "none" => daemon_procs[2].fds[3] = daemon_procs[1].fds[3]
  /\ ~d.leads
  /\ d.at # "none" => d.fds[3] = daemon_procs[1].fds[3]
  /\ d.at \in {"fd_0", "fd_1", "fd_2", "true"} => d.cwd = "/"
  /\ d.at \in {"fd_1", "fd_2", "true"} => d.fds[0] = "null"
  /\ d.at \in {"fd_2", "true"} => d.fds[1] = "null"
  /\ d.at = "true" => d.fds[2] = "null"

\* Each father that is gone has printed what was in the buffer.
Prints(q) == q.text = TRUE /\ q.fds[1] = "term"
PrintedByFathers ==
  /\ daemon_procs[2].at # "none" => (Prints(daemon_procs[2]) <=> Prints(daemon_procs[1]))
  /\ daemon_printed = IF ~Prints(daemon_procs[1]) THEN 0
                      ELSE (IF daemon_procs[1].at = "gone" THEN 1 ELSE 0) + (IF daemon_procs[2].at = "gone" THEN 1 ELSE 0)

IdsAsAsked ==
  /\ daemon_asked = Daemon!NotAsked => daemon_ids \in [user : {"root", "plain"}, group : {"first"}]
  /\ Daemon!BecomesWhoAsked
DaemonInv == Family /\ Progress /\ PrintedByFathers /\ IdsAsAsked

LEMMA DaemonInitInv ==
  ASSUME Daemon!Init
  PROVE  DaemonInv
<1>1. PICK open \in SUBSET Daemon!Fds, text \in BOOLEAN :
        daemon_procs = [p \in Daemon!Pids |->
          IF p = 1 THEN [Daemon!NoProcess EXCEPT !.at = "fork", !.fds = [f \in Daemon!Fds |-> IF f \in open THEN "term" ELSE "closed"],
                                                 !.text = text]
          ELSE Daemon!NoProcess]
  BY DEF Daemon!Init
<1> DEFINE fds == [f \in Daemon!Fds |-> IF f \in open THEN "term" ELSE "closed"]
           first == [Daemon!NoProcess EXCEPT !.at = "fork", !.fds = fds, !.text = text]
<1>2. Daemon!NoProcess \in Processes /\ Daemon!NoProcess.at = "none" /\ ~Daemon!NoProcess.leads
  BY DEF Daemon!NoProcess, Processes, Daemon!Fds
<1>3. fds \in [0..3 -> {"closed", "term", "null"}]
  BY DEF Daemon!Fds
<1> HIDE DEF fds
<1>4. first \in Processes /\ first.at = "fork"
  BY <1>2, <1>3 DEF Processes
<1>5. daemon_procs = [p \in 1..3 |-> IF p = 1 THEN first ELSE Daemon!NoProcess]
  BY <1>1 DEF Daemon!Pids, fds
<1> HIDE DEF first
<1>6. /\ daemon_procs \in [1..3 -> Processes] /\ daemon_procs[1] = first
      /\ daemon_procs[2] = Daemon!NoProcess /\ daemon_procs[3] = Daemon!NoProcess
  BY <1>2, <1>4, <1>5
<1>7. Family /\ Progress
  BY <1>2, <1>4, <1>6 DEF Family, Progress
<1>8. PrintedByFathers
  <2>1. daemon_printed = 0 /\ daemon_procs[1].at = "fork" /\ daemon_procs[2].at = "none"
    BY <1>2, <1>4, <1>6 DEF Daemon!Init
  <2> QED
    BY <2>1 DEF PrintedByFathers
<1>9. IdsAsAsked
  BY DEF IdsAsAsked, Daemon!BecomesWhoAsked, Daemon!Init
<1> QED
  BY <1>7, <1>8, <1>9 DEF DaemonInv

\* The lowest free number is the one that was closed, as those below it are in use.
LEMMA ReopenedIs ==
  ASSUME NEW fds \in [0..3 -> {"closed", "term", "null"}], NEW f \in 0..2, \A g \in 0..(f - 1) : fds[g] = "null"
  PROVE  Daemon!Reopened(fds, f) = [fds EXCEPT ![f] = "null"]
<1> DEFINE free == {g \in Daemon!Fds : fds[g] = "closed"} \cup {f}
<1>1. free \subseteq 0..3 /\ f \in free /\ \A g \in free : f <= g
  BY DEF Daemon!Fds
<1>2. \A m \in free : (\A g \in free : m <= g) => m = f
  BY <1>1
<1> HIDE DEF free
<1>3. Daemon!Min(free) = f
  BY <1>1, <1>2 DEF Daemon!Min
<1>4. Daemon!Reopened(fds, f) = [[fds EXCEPT ![f] = "closed"] EXCEPT ![f] = "null"]
  BY <1>3 DEF Daemon!Reopened, free
<1> QED
  BY <1>4

\* A step of one process, which is not its fork: what it may become.
LEMMA ProcessStepKeeps ==
  ASSUME DaemonInv, NEW p \in 1..3, NEW q \in Processes, daemon_procs' = [daemon_procs EXCEPT ![p] = q],
         UNCHANGED <<daemon_ids, daemon_asked>>,
         q.text = daemon_procs[p].text, p < 3 => q.fds = daemon_procs[p].fds,
         \/ /\ p = 1 /\ daemon_procs[p].at = "exit" /\ q.at = "gone"
         \/ /\ p = 1 /\ daemon_procs[p].at = "fork" /\ q.at = "false"
         \/ /\ p = 2 /\ daemon_procs[p].at \in {"setsid", "fork_2"} /\ q.at \in {"fork_2", "false"}
         \/ /\ p = 2 /\ daemon_procs[p].at = "exit" /\ q.at = "gone"
         \/ /\ p = 3 /\ daemon_procs[p].at \in {"chdir", "fd_0", "fd_1", "fd_2"} /\ q.at \in {"fd_0", "fd_1", "fd_2", "true", "false"}
            /\ ~q.leads /\ q.fds[3] = daemon_procs[p].fds[3]
            /\ q.at \in {"fd_0", "fd_1", "fd_2", "true"} => q.cwd = "/"
            /\ q.at \in {"fd_1", "fd_2", "true"} => q.fds[0] = "null"
            /\ q.at \in {"fd_2", "true"} => q.fds[1] = "null"
            /\ q.at = "true" => q.fds[2] = "null",
         daemon_printed' = IF q.at = "gone" /\ Prints(q) THEN daemon_printed + 1 ELSE daemon_printed
  PROVE  DaemonInv'
<1>0. p = 1 \/ p = 2 \/ p = 3
  OBVIOUS
<1>1. /\ daemon_procs' \in [1..3 -> Processes]
      /\ daemon_procs'[1] = IF p = 1 THEN q ELSE daemon_procs[1]
      /\ daemon_procs'[2] = IF p = 2 THEN q ELSE daemon_procs[2]
      /\ daemon_procs'[3] = IF p = 3 THEN q ELSE daemon_procs[3]
  BY DEF DaemonInv, Family
<1>2. Family'
  BY <1>0, <1>1 DEF DaemonInv, Family
<1>3. Progress'
  BY <1>0, <1>1 DEF DaemonInv, Progress, Family
<1>4. PrintedByFathers'
  <2>1. p < 3 => (Prints(q) <=> Prints(daemon_procs[p]))
    BY DEF Prints
  <2>2. CASE p = 1 BY <1>1, <2>1, <2>2 DEF DaemonInv, Family, PrintedByFathers
  <2>3. CASE p = 2 BY <1>1, <2>1, <2>3 DEF DaemonInv, Family, PrintedByFathers
  <2>4. CASE p = 3 BY <1>1, <2>4 DEF DaemonInv, Family, PrintedByFathers
  <2> QED BY <1>0, <2>2, <2>3, <2>4
<1>5. IdsAsAsked'
  BY DEF DaemonInv, IdsAsAsked, Daemon!BecomesWhoAsked
<1> QED
  BY <1>2, <1>3, <1>4, <1>5 DEF DaemonInv

LEMMA DaemonStepInv ==
  ASSUME DaemonInv, [Daemon!Next]_(Daemon!vars)
  PROVE  DaemonInv'
<1>0. daemon_procs \in [1..3 -> Processes] /\ \A p \in 1..3 : p = 1 \/ p = 2 \/ p = 3
  BY DEF DaemonInv, Family
<1>1. ASSUME NEW p \in 1..3, p < 3, Daemon!FirstFork(p) \/ Daemon!SecondFork(p) PROVE DaemonInv'
  <2>0. p = 1 \/ p = 2
    BY <1>1
  <2> DEFINE to == IF p = 1 THEN "setsid" ELSE "chdir"
             father == [daemon_procs[p] EXCEPT !.at = "exit"]
             son == [daemon_procs[p] EXCEPT !.at = to, !.leads = FALSE]
  <2>1. /\ daemon_procs[p].at = IF p = 1 THEN "fork" ELSE "fork_2"
        /\ daemon_procs' = [daemon_procs EXCEPT ![p].at = "exit", ![p + 1] = [daemon_procs[p] EXCEPT !.at = to, !.leads = FALSE]]
        /\ UNCHANGED <<daemon_ids, daemon_asked, daemon_printed>>
    <3>1. CASE p = 1 BY <1>1, <3>1 DEF Daemon!FirstFork, Daemon!SecondFork, Daemon!Forks, DaemonInv, Family
    <3>2. CASE p = 2 BY <1>1, <3>2 DEF Daemon!FirstFork, Daemon!SecondFork, Daemon!Forks, DaemonInv, Family
    <3> QED BY <2>0, <3>1, <3>2
  <2>2. daemon_procs' = [daemon_procs EXCEPT ![p] = father, ![p + 1] = son]
    BY <2>1
  <2>3. daemon_procs[p] \in Processes /\ to \in {"setsid", "chdir"}
    BY <1>0
  <2>4. /\ father \in Processes /\ father.at = "exit" /\ father.text = daemon_procs[p].text /\ father.fds = daemon_procs[p].fds
    BY <2>3 DEF Processes
  <2>5. /\ son \in Processes /\ son.at = to /\ ~son.leads /\ son.text = daemon_procs[p].text /\ son.fds = daemon_procs[p].fds
    BY <2>3 DEF Processes
  <2>6. (Prints(father) <=> Prints(daemon_procs[p])) /\ (Prints(son) <=> Prints(daemon_procs[p]))
    BY <2>4, <2>5 DEF Prints
  <2> HIDE DEF father, son
  <2>7. CASE p = 1
    <3>1. /\ daemon_procs' \in [1..3 -> Processes] /\ daemon_procs'[1] = father /\ daemon_procs'[2] = son
          /\ daemon_procs'[3] = daemon_procs[3]
      BY <1>0, <2>2, <2>4, <2>5, <2>7
    <3>2. Family' /\ Progress'
      BY <2>1, <2>4, <2>5, <2>7, <3>1 DEF DaemonInv, Family, Progress
    <3>3. PrintedByFathers' /\ IdsAsAsked'
      BY <2>1, <2>4, <2>5, <2>6, <2>7, <3>1 DEF DaemonInv, Family, PrintedByFathers, IdsAsAsked, Daemon!BecomesWhoAsked
    <3> QED
      BY <3>2, <3>3 DEF DaemonInv
  <2>8. CASE p = 2
    <3>1. /\ daemon_procs' \in [1..3 -> Processes] /\ daemon_procs'[1] = daemon_procs[1] /\ daemon_procs'[2] = father
          /\ daemon_procs'[3] = son
      BY <1>0, <2>2, <2>4, <2>5, <2>8
    <3>2. Family'
      BY <2>1, <2>4, <2>5, <2>8, <3>1 DEF DaemonInv, Family
    <3>3. PrintedByFathers' /\ IdsAsAsked'
      BY <2>1, <2>4, <2>5, <2>6, <2>8, <3>1 DEF DaemonInv, Family, PrintedByFathers, IdsAsAsked, Daemon!BecomesWhoAsked
    <3>4. Progress'
      <4>1. daemon_procs[2].fds[3] = daemon_procs[1].fds[3]
        BY <2>1, <2>8 DEF DaemonInv, Progress
      <4> QED
        BY <2>4, <2>5, <2>8, <3>1, <4>1 DEF Progress
    <3> QED
      BY <3>2, <3>3, <3>4 DEF DaemonInv
  <2> QED
    BY <2>0, <2>7, <2>8
<1>2. ASSUME NEW p \in 1..3, NEW to, to \in {"false", "gone"}, Daemon!To(p, to), UNCHANGED <<daemon_ids, daemon_asked>>,
             \/ daemon_procs[p].at \in {"fork", "setsid", "fork_2", "chdir"} /\ to = "false"
                /\ daemon_printed' = daemon_printed
             \/ daemon_procs[p].at = "exit" /\ to = "gone"
                /\ daemon_printed' = IF Prints(daemon_procs[p]) THEN daemon_printed + 1 ELSE daemon_printed
      PROVE  DaemonInv'
  <2> DEFINE q == [daemon_procs[p] EXCEPT !.at = to]
  <2>1. daemon_procs' = [daemon_procs EXCEPT ![p] = q]
    BY <1>2 DEF Daemon!To
  <2>2. /\ q \in Processes /\ q.at = to /\ q.text = daemon_procs[p].text /\ q.fds = daemon_procs[p].fds
        /\ q.leads = daemon_procs[p].leads
    BY <1>0, <1>2 DEF Processes
  <2> HIDE DEF q
  <2>3. p = 3 => ~q.leads
    BY <2>2 DEF DaemonInv, Progress
  <2>4. \/ /\ p = 1 /\ daemon_procs[p].at = "exit" /\ q.at = "gone"
        \/ /\ p = 1 /\ daemon_procs[p].at = "fork" /\ q.at = "false"
        \/ /\ p = 2 /\ daemon_procs[p].at \in {"setsid", "fork_2"} /\ q.at = "false"
        \/ /\ p = 2 /\ daemon_procs[p].at = "exit" /\ q.at = "gone"
        \/ /\ p = 3 /\ daemon_procs[p].at = "chdir" /\ q.at = "false"
    BY <1>2, <2>2 DEF DaemonInv, Family
  <2>5. daemon_printed' = IF q.at = "gone" /\ Prints(q) THEN daemon_printed + 1 ELSE daemon_printed
    BY <1>2, <2>2 DEF Prints
  <2>6. p < 3 => q.fds = daemon_procs[p].fds
    BY <2>2
  <2> QED
    BY <1>2, <2>1, <2>2, <2>3, <2>4, <2>5, <2>6, ProcessStepKeeps
<1>3. ASSUME NEW p \in 1..3, Daemon!Exit(p) PROVE DaemonInv'
  BY <1>2, <1>3 DEF Daemon!Exit, Prints
<1>4. ASSUME NEW p \in 1..3, Daemon!Failed(p), daemon_procs[p].at \in {"fork", "setsid", "fork_2", "chdir"} PROVE DaemonInv'
  BY <1>2, <1>4 DEF Daemon!Failed
<1>5. ASSUME NEW p \in 1..3, Daemon!Setsid(p), ~Daemon!Failed(p) PROVE DaemonInv'
  <2> DEFINE q == [daemon_procs[p] EXCEPT !.at = "fork_2", !.leads = TRUE]
  <2>1. daemon_procs' = [daemon_procs EXCEPT ![p] = q] /\ UNCHANGED <<daemon_ids, daemon_asked, daemon_printed>>
    BY <1>0, <1>5 DEF Daemon!Setsid
  <2>2. q \in Processes /\ q.at = "fork_2" /\ q.text = daemon_procs[p].text /\ q.fds = daemon_procs[p].fds
    BY <1>0 DEF Processes
  <2> HIDE DEF q
  <2>3. p = 2 /\ daemon_procs[p].at = "setsid"
    BY <1>5 DEF Daemon!Setsid, DaemonInv, Family
  <2> QED
    BY <2>1, <2>2, <2>3, ProcessStepKeeps
<1>6. ASSUME NEW p \in 1..3, Daemon!Chdir(p), ~Daemon!Failed(p) PROVE DaemonInv'
  <2> DEFINE q == [daemon_procs[p] EXCEPT !.at = "fd_0", !.cwd = "/"]
  <2>1. daemon_procs' = [daemon_procs EXCEPT ![p] = q] /\ UNCHANGED <<daemon_ids, daemon_asked, daemon_printed>>
    BY <1>0, <1>6 DEF Daemon!Chdir
  <2>2. /\ q \in Processes /\ q.at = "fd_0" /\ q.text = daemon_procs[p].text /\ q.fds = daemon_procs[p].fds
        /\ q.leads = daemon_procs[p].leads /\ q.cwd = "/"
    BY <1>0 DEF Processes
  <2> HIDE DEF q
  <2>3. p = 3 /\ daemon_procs[p].at = "chdir"
    BY <1>6 DEF Daemon!Chdir, DaemonInv, Family
  <2>4. ~q.leads
    BY <2>2, <2>3 DEF DaemonInv, Progress
  <2> QED
    BY <2>1, <2>2, <2>3, <2>4, ProcessStepKeeps
<1>7. ASSUME NEW p \in 1..3, Daemon!Reopen(p) PROVE DaemonInv'
  <2>1. PICK f \in 0..2 :
          /\ daemon_procs[p].at = Daemon!At[f] /\ UNCHANGED <<daemon_ids, daemon_asked, daemon_printed>>
          /\ \/ daemon_procs' = [daemon_procs EXCEPT ![p].at = IF f = 2 THEN "true" ELSE Daemon!At[f + 1], ![p].fds = Daemon!Reopened(@, f)]
             \/ daemon_procs' = [daemon_procs EXCEPT ![p].at = "false", ![p].fds = [@ EXCEPT ![f] = "closed"]]
    BY <1>7 DEF Daemon!Reopen
  <2> DEFINE old == daemon_procs[p].fds
             next == IF f = 0 THEN "fd_1" ELSE IF f = 1 THEN "fd_2" ELSE "true"
             done == [daemon_procs[p] EXCEPT !.at = next, !.fds = [old EXCEPT ![f] = "null"]]
             fail == [daemon_procs[p] EXCEPT !.at = "false", !.fds = [old EXCEPT ![f] = "closed"]]
  <2>2. /\ Daemon!At[f] = (IF f = 0 THEN "fd_0" ELSE IF f = 1 THEN "fd_1" ELSE "fd_2")
        /\ (IF f = 2 THEN "true" ELSE Daemon!At[f + 1]) = next
    BY DEF Daemon!At
  <2>3. p = 3
    BY <2>1, <2>2 DEF DaemonInv, Family
  <2>4. old \in [0..3 -> {"closed", "term", "null"}] /\ \A g \in 0..(f - 1) : old[g] = "null"
    <3>1. old \in [0..3 -> {"closed", "term", "null"}] BY <1>0 DEF Processes
    <3> QED BY <2>1, <2>2, <2>3, <3>1 DEF DaemonInv, Progress
  <2>5. Daemon!Reopened(old, f) = [old EXCEPT ![f] = "null"]
    BY <2>4, ReopenedIs
  <2>6. daemon_procs' = [daemon_procs EXCEPT ![p] = done] \/ daemon_procs' = [daemon_procs EXCEPT ![p] = fail]
    BY <1>0, <2>1, <2>2, <2>5
  <2>12. /\ [old EXCEPT ![f] = "null"] \in [0..3 -> {"closed", "term", "null"}]
         /\ [old EXCEPT ![f] = "closed"] \in [0..3 -> {"closed", "term", "null"}]
         /\ next \in {"fd_1", "fd_2", "true"} /\ daemon_procs[p] \in Processes
         /\ next = IF f = 0 THEN "fd_1" ELSE IF f = 1 THEN "fd_2" ELSE "true"
    BY <1>0, <2>4
  <2> HIDE DEF next
  <2>13. /\ [old EXCEPT ![f] = "null"][f] = "null"
         /\ \A g \in 0..3 : g # f => [old EXCEPT ![f] = "null"][g] = old[g] /\ [old EXCEPT ![f] = "closed"][g] = old[g]
    BY <2>4
  <2>7. /\ done \in Processes /\ done.at = next /\ done.text = daemon_procs[p].text /\ done.leads = daemon_procs[p].leads
        /\ done.cwd = daemon_procs[p].cwd /\ done.fds[f] = "null" /\ \A g \in 0..3 : g # f => done.fds[g] = old[g]
    BY <2>12, <2>13 DEF Processes
  <2>8. /\ fail \in Processes /\ fail.at = "false" /\ fail.text = daemon_procs[p].text /\ fail.leads = daemon_procs[p].leads
        /\ \A g \in 0..3 : g # f => fail.fds[g] = old[g]
    BY <2>4, <2>12 DEF Processes
  <2> HIDE DEF done, fail
  <2>9. ~daemon_procs[p].leads /\ daemon_procs[p].cwd = "/"
    BY <2>1, <2>2, <2>3 DEF DaemonInv, Progress
  <2>10. CASE daemon_procs' = [daemon_procs EXCEPT ![p] = done]
    <3>1. ~done.leads /\ done.fds[3] = daemon_procs[p].fds[3] /\ done.cwd = "/" /\ done.at # "gone"
      BY <2>4, <2>7, <2>9, <2>12
    <3>2. /\ done.at \in {"fd_1", "fd_2", "true"} => done.fds[0] = "null"
          /\ done.at \in {"fd_2", "true"} => done.fds[1] = "null"
          /\ done.at = "true" => done.fds[2] = "null"
      BY <2>4, <2>7, <2>12
    <3>3. daemon_procs[p].at \in {"chdir", "fd_0", "fd_1", "fd_2"} /\ done.at \in {"fd_0", "fd_1", "fd_2", "true", "false"}
      BY <2>1, <2>2, <2>7, <2>12
    <3>4. daemon_printed' = IF done.at = "gone" /\ Prints(done) THEN daemon_printed + 1 ELSE daemon_printed
      BY <2>1, <3>1
    <3>5. ~(p < 3) /\ UNCHANGED <<daemon_ids, daemon_asked>>
      BY <2>1, <2>3
    <3> QED
      BY <2>3, <2>7, <2>10, <3>1, <3>2, <3>3, <3>4, <3>5, ProcessStepKeeps
  <2>11. CASE daemon_procs' = [daemon_procs EXCEPT ![p] = fail]
    <3>1. ~fail.leads /\ fail.fds[3] = daemon_procs[p].fds[3] /\ fail.at # "gone"
      BY <2>4, <2>8, <2>9
    <3>2. daemon_procs[p].at \in {"chdir", "fd_0", "fd_1", "fd_2"}
      BY <2>1, <2>2
    <3>3. daemon_printed' = IF fail.at = "gone" /\ Prints(fail) THEN daemon_printed + 1 ELSE daemon_printed
      BY <2>1, <3>1
    <3>4. ~(p < 3) /\ UNCHANGED <<daemon_ids, daemon_asked>>
      BY <2>1, <2>3
    <3> QED
      BY <2>3, <2>8, <2>11, <3>1, <3>2, <3>3, <3>4, ProcessStepKeeps
  <2> QED
    BY <2>6, <2>10, <2>11
<1>8. ASSUME NEW p \in 1..3, Daemon!SU_SetUserGroup(p) PROVE DaemonInv'
  <2>1. PICK user, group \in {"none", "unknown", "other"} :
          LET what == [user |-> user, group |-> group]
              after == Daemon!Change(Daemon!Change([user |-> daemon_ids.user, group |-> daemon_ids.group, ok |-> TRUE],
                                                   Daemon!Order[1], what), Daemon!Order[2], what)
          IN /\ daemon_ids' = [user |-> after.user, group |-> after.group]
             /\ daemon_asked' = [user |-> user, group |-> group, from |-> daemon_ids.user, ok |-> after.ok]
    BY <1>8 DEF Daemon!SU_SetUserGroup
  <2> DEFINE what == [user |-> user, group |-> group]
             start == [user |-> daemon_ids.user, group |-> daemon_ids.group, ok |-> TRUE]
             middle == Daemon!Change(start, "group", what)
             after == Daemon!Change(middle, "user", what)
  <2>2. /\ daemon_ids' = [user |-> after.user, group |-> after.group]
        /\ daemon_asked' = [user |-> user, group |-> group, from |-> daemon_ids.user, ok |-> after.ok]
    BY <2>1 DEF Daemon!Order
  <2>3. daemon_ids \in [user : {"root", "plain"}, group : {"first"}] /\ UNCHANGED <<daemon_procs, daemon_printed>>
    BY <1>8 DEF Daemon!SU_SetUserGroup, DaemonInv, IdsAsAsked
  <2>4. /\ middle.user = daemon_ids.user
        /\ middle.group = IF group = "none" \/ group = "unknown" \/ daemon_ids.user # "root" THEN daemon_ids.group ELSE group
        /\ middle.ok = (group = "none" \/ (group # "unknown" /\ daemon_ids.user = "root"))
        /\ middle = [user |-> middle.user, group |-> middle.group, ok |-> middle.ok]
    BY <2>3 DEF Daemon!Change
  <2> HIDE DEF middle
  <2>5. /\ after.group = middle.group
        /\ after.user = IF ~middle.ok \/ user = "none" \/ user = "unknown" \/ daemon_ids.user # "root" THEN daemon_ids.user ELSE user
        /\ after.ok = (middle.ok /\ (user = "none" \/ (user # "unknown" /\ daemon_ids.user = "root")))
    BY <2>3, <2>4 DEF Daemon!Change
  <2> HIDE DEF after
  <2>6. Daemon!BecomesWhoAsked'
    BY <2>2, <2>3, <2>4, <2>5 DEF Daemon!BecomesWhoAsked
  <2>7. (daemon_asked # Daemon!NotAsked)'
    <3>1. daemon_asked'.from # "nobody" BY <2>2, <2>3
    <3> QED BY <3>1 DEF Daemon!NotAsked
  <2> QED
    BY <2>3, <2>6, <2>7 DEF DaemonInv, Family, Progress, PrintedByFathers, Prints, IdsAsAsked
<1>9. CASE UNCHANGED Daemon!vars
  BY <1>9 DEF Daemon!vars, DaemonInv, Family, Progress, PrintedByFathers, Prints, IdsAsAsked, Daemon!BecomesWhoAsked
<1>10. CASE Daemon!Next
  <2>1. PICK p \in 1..3 :
          \/ (p < 3 /\ (Daemon!FirstFork(p) \/ Daemon!SecondFork(p) \/ Daemon!ForkFails(p)))
          \/ Daemon!Exit(p) \/ Daemon!Setsid(p) \/ Daemon!Chdir(p) \/ Daemon!Reopen(p) \/ Daemon!SU_SetUserGroup(p)
    BY <1>10 DEF Daemon!Next, Daemon!Pids
  <2>2. CASE p < 3 /\ (Daemon!FirstFork(p) \/ Daemon!SecondFork(p))
    BY <1>1, <2>2
  <2>3. CASE Daemon!ForkFails(p)
    BY <1>4, <2>3 DEF Daemon!ForkFails
  <2>4. CASE Daemon!Setsid(p)
    BY <1>4, <1>5, <2>4 DEF Daemon!Setsid
  <2>5. CASE Daemon!Chdir(p)
    BY <1>4, <1>6, <2>5 DEF Daemon!Chdir
  <2> QED
    BY <1>3, <1>7, <1>8, <2>1, <2>2, <2>3, <2>4, <2>5
<1> QED
  BY <1>9, <1>10

LEMMA DaemonInvDaemonized ==
  ASSUME DaemonInv
  PROVE  Daemon!Daemonized /\ Daemon!BecomesWhoAsked /\ Daemon!TypeOK
<1> DEFINE Back == {p \in Daemon!Pids : daemon_procs[p].at \in {"true", "false"}}
<1>1. Cardinality(Back) <= 1
  <2>1. Back = {} \/ \E p \in 1..3 : Back = {p}
    <3>1. \A p, q \in Back : p = q
      BY DEF DaemonInv, Family, Daemon!Pids
    <3>2. Back \subseteq 1..3
      BY DEF Daemon!Pids
    <3> HIDE DEF Back
    <3> QED
      BY <3>1, <3>2
  <2> HIDE DEF Back
  <2>2. CASE Back = {} BY <2>2, FS_EmptySet
  <2>3. CASE \E p \in 1..3 : Back = {p} BY <2>3, FS_Singleton
  <2> QED BY <2>1, <2>2, <2>3
<1>2. ASSUME NEW p \in Daemon!Pids, daemon_procs[p].at = "true"
      PROVE  /\ \A f \in 0..2 : daemon_procs[p].fds[f] = "null"
             /\ daemon_procs[p].fds[3] = daemon_procs[1].fds[3] /\ ~daemon_procs[p].leads /\ daemon_procs[p].cwd = "/"
  <2>1. p = 3
    BY <1>2 DEF DaemonInv, Family, Daemon!Pids
  <2> QED
    BY <1>2, <2>1 DEF DaemonInv, Progress
<1>4. daemon_procs[1].at = "gone" /\ daemon_procs[2].at = "gone" /\ daemon_procs[1].text /\ daemon_procs[1].fds[1] = "term"
        => daemon_printed = 2
  BY DEF DaemonInv, PrintedByFathers, Prints
<1>5. Daemon!Daemonized
  <2>1. \A p \in Daemon!Pids : daemon_procs[p].at = "true" =>
          /\ \A f \in 0..2 : daemon_procs[p].fds[f] = "null"
          /\ daemon_procs[p].fds[3] = daemon_procs[1].fds[3] /\ ~daemon_procs[p].leads /\ daemon_procs[p].cwd = "/"
    BY <1>2
  <2>2. Daemon!Cardinality(Back) = Cardinality(Back)
    BY Zenon DEF Daemon!Cardinality, Cardinality
  <2> QED
    BY <1>1, <1>4, <2>1, <2>2 DEF Daemon!Daemonized
<1>6. Daemon!TypeOK
  <2>1. daemon_printed \in 0..3 BY DEF DaemonInv, PrintedByFathers
  <2>2. \A p \in 1..3 : daemon_procs[p].fds \in [0..3 -> {"closed", "term", "null"}] BY DEF DaemonInv, Family, Processes
  <2> QED BY <2>1, <2>2 DEF Daemon!TypeOK, Daemon!Pids, Daemon!Fds
<1> QED
  BY <1>5, <1>6 DEF DaemonInv, IdsAsAsked

-----------------------------------------------------------------------------
(* Endpoints: descriptors and the structures they are in.                  *)

Kinds == {"none", "server", "client"}
Passes == [slot : Slots \cup {0}, ready : SUBSET Descriptors, inside : BOOLEAN]
EndsTyped ==
  /\ ends_fd \in [Descriptors -> {"free", "stream", "listen", "dgram"}]
  /\ ends_blocks \subseteq Descriptors /\ ends_lost \subseteq Descriptors
  /\ ends_held \in [Slots -> [kind : Kinds, sock : Descriptors \cup {0}]]
  /\ ends_pass \in Passes

\* A descriptor is open if it was lost or is in a structure, and not both; it is in one structure; a slot with no structure has none.
EndsOwned ==
  /\ \A f \in Descriptors : ends_fd[f] # "free" <=> (f \in ends_lost \/ \E x \in Slots : ends_held[x].sock = f)
  /\ \A x \in Slots : ends_held[x].sock \notin ends_lost
  /\ \A x, y \in Slots : ends_held[x].sock = ends_held[y].sock /\ ends_held[x].sock # 0 => x = y
  /\ \A x \in Slots : ends_held[x].kind = "none" => ends_held[x].sock = 0
EndsInv == EndsTyped /\ EndsOwned

LEMMA EndsInitInv ==
  ASSUME Ends!Init
  PROVE  EndsInv
<1>1. Descriptors \subseteq Nat \ {0}
  BY ServicesAssumption
<1>2. ends_held \in [Slots -> [kind : Kinds, sock : Descriptors \cup {0}]]
      /\ \A x \in Slots : ends_held[x].kind = "none" /\ ends_held[x].sock = 0
  BY DEF Ends!Init, Ends!Empty, Ends!NotASocket, Kinds
<1>3. EndsTyped
  BY <1>2 DEF EndsTyped, Ends!Init, Ends!Idle, Passes
<1>4. EndsOwned
  BY <1>1, <1>2 DEF EndsOwned, Ends!Init
<1> QED
  BY <1>3, <1>4 DEF EndsInv

\* The number the system gives is a free one.
LEMMA NewIsFree ==
  ASSUME Ends!FreeFds # {}
  PROVE  Ends!New \in Descriptors /\ ends_fd[Ends!New] = "free"
<1>1. Ends!FreeFds \in SUBSET Nat
  BY ServicesAssumption DEF Ends!FreeFds
<1>2. \E x \in Ends!FreeFds : \A y \in Ends!FreeFds : ~(<<y, x>> \in OpToRel(<, Nat))
  BY <1>1, WFMin, NatLessThanWellFounded, Zenon
<1>3. \E x \in Ends!FreeFds : \A y \in Ends!FreeFds : ~(y < x)
  BY <1>1, <1>2, Zenon DEF OpToRel
<1>4. \E x \in Ends!FreeFds : \A y \in Ends!FreeFds : x <= y
  BY <1>1, <1>3
<1>5. Ends!Min(Ends!FreeFds) \in Ends!FreeFds
  BY <1>4 DEF Ends!Min
<1> QED
  BY <1>5 DEF Ends!New, Ends!FreeFds

\* A new descriptor, in a structure of its own or lost.
LEMMA HoldKeeps ==
  ASSUME EndsInv, Ends!FreeFds # {}, NEW x \in Slots, Ends!Free(x), NEW kind \in {"server", "client"}, NEW how \in {"stream", "dgram"},
         Ends!Hold(x, kind, how), UNCHANGED ends_pass
  PROVE  EndsInv'
<1> DEFINE n == Ends!New
<1>1. n \in Descriptors /\ ends_fd[n] = "free" /\ n # 0
  BY NewIsFree, ServicesAssumption
<1>2. /\ ends_fd' = [ends_fd EXCEPT ![n] = how] /\ ends_blocks' = ends_blocks \cup {n}
      /\ ends_held' = [ends_held EXCEPT ![x] = [kind |-> kind, sock |-> n]] /\ ends_lost' = ends_lost
  BY DEF Ends!Hold, Ends!Opened
<1> HIDE DEF n
<1>3. ends_held[x].sock = 0 /\ n \notin ends_lost /\ \A y \in Slots : ends_held[y].sock # n
  BY <1>1 DEF EndsInv, EndsOwned, Ends!Free
<1>4. /\ ends_held' \in [Slots -> [kind : Kinds, sock : Descriptors \cup {0}]]
      /\ ends_held'[x].sock = n /\ ends_held'[x].kind # "none"
      /\ \A y \in Slots : y # x => ends_held'[y] = ends_held[y]
  BY <1>1, <1>2 DEF EndsInv, EndsTyped, Kinds
<1>5. EndsTyped'
  BY <1>1, <1>2, <1>4 DEF EndsInv, EndsTyped
<1>6. /\ ends_fd'[n] = how /\ how # "free"
      /\ \A f \in Descriptors : f # n => ends_fd'[f] = ends_fd[f]
  BY <1>1, <1>2 DEF EndsInv, EndsTyped
<1>7. ASSUME NEW f \in Descriptors
      PROVE  ends_fd'[f] # "free" <=> (f \in ends_lost' \/ \E y \in Slots : ends_held'[y].sock = f)
  <2>1. CASE f = n BY <1>4, <1>6, <2>1
  <2>2. CASE f # n
    <3>1. (\E y \in Slots : ends_held'[y].sock = f) <=> (\E y \in Slots : ends_held[y].sock = f)
      BY <1>3, <1>4, <2>2, ServicesAssumption
    <3> QED BY <1>2, <1>6, <2>2, <3>1 DEF EndsInv, EndsOwned
  <2> QED BY <2>1, <2>2
<1>8. \A y \in Slots : ends_held'[y].sock \notin ends_lost'
  BY <1>2, <1>3, <1>4 DEF EndsInv, EndsOwned
<1>9. \A y, z \in Slots : ends_held'[y].sock = ends_held'[z].sock /\ ends_held'[y].sock # 0 => y = z
  BY <1>3, <1>4 DEF EndsInv, EndsOwned
<1>10. \A y \in Slots : ends_held'[y].kind = "none" => ends_held'[y].sock = 0
  BY <1>4 DEF EndsInv, EndsOwned
<1> QED
  BY <1>5, <1>7, <1>8, <1>9, <1>10 DEF EndsInv, EndsOwned

LEMMA LoseKeeps ==
  ASSUME EndsInv, Ends!FreeFds # {}, NEW how \in {"stream", "dgram"}, Ends!Lose(how), UNCHANGED ends_pass
  PROVE  EndsInv'
<1> DEFINE n == Ends!New
<1>1. n \in Descriptors /\ ends_fd[n] = "free" /\ n # 0
  BY NewIsFree, ServicesAssumption
<1>2. /\ ends_fd' = [ends_fd EXCEPT ![n] = how] /\ ends_blocks' = ends_blocks \cup {n}
      /\ ends_held' = ends_held /\ ends_lost' = ends_lost \cup {n}
  BY DEF Ends!Lose, Ends!Opened
<1> HIDE DEF n
<1>3. \A y \in Slots : ends_held[y].sock # n
  BY <1>1 DEF EndsInv, EndsOwned
<1>4. EndsTyped'
  BY <1>1, <1>2 DEF EndsInv, EndsTyped
<1>5. EndsOwned'
  BY <1>1, <1>2, <1>3 DEF EndsInv, EndsTyped, EndsOwned
<1> QED
  BY <1>4, <1>5 DEF EndsInv

\* The descriptor of a structure is closed, and its number taken out.
LEMMA CloseKeeps ==
  ASSUME EndsInv, NEW x \in Slots, NEW left \in [kind : Kinds, sock : {0}], Ends!Close(x, left)
  PROVE  EndsInv'
<1> DEFINE f == ends_held[x].sock
<1>1. /\ ends_fd' = IF f = 0 THEN ends_fd ELSE [ends_fd EXCEPT ![f] = "free"]
      /\ ends_blocks' = ends_blocks \ {f} /\ ends_held' = [ends_held EXCEPT ![x] = left]
      /\ UNCHANGED <<ends_lost, ends_pass>>
  BY DEF Ends!Close, Ends!NotASocket
<1>2. f \in Descriptors \cup {0} /\ f \notin ends_lost /\ 0 \notin Descriptors
  BY ServicesAssumption DEF EndsInv, EndsTyped, EndsOwned
<1>3. \A y \in Slots : y # x => ends_held[y].sock # f \/ f = 0
  BY DEF EndsInv, EndsOwned
<1> HIDE DEF f
<1>4. /\ ends_held' \in [Slots -> [kind : Kinds, sock : Descriptors \cup {0}]] /\ ends_held'[x].sock = 0
      /\ \A y \in Slots : y # x => ends_held'[y] = ends_held[y]
  BY <1>1 DEF EndsInv, EndsTyped
<1>5. EndsTyped'
  BY <1>1, <1>2, <1>4 DEF EndsInv, EndsTyped
<1>6. ASSUME NEW g \in Descriptors
      PROVE  ends_fd'[g] # "free" <=> (g \in ends_lost' \/ \E y \in Slots : ends_held'[y].sock = g)
  <2>1. CASE g = f
    BY <1>1, <1>2, <1>3, <1>4, <2>1 DEF EndsInv, EndsTyped
  <2>2. CASE g # f
    <3>1. ends_fd'[g] = ends_fd[g]
      BY <1>1, <2>2 DEF EndsInv, EndsTyped
    <3>2. (\E y \in Slots : ends_held'[y].sock = g) <=> (\E y \in Slots : ends_held[y].sock = g)
      BY <1>2, <1>4, <2>2 DEF f
    <3> QED BY <1>1, <3>1, <3>2 DEF EndsInv, EndsOwned
  <2> QED BY <2>1, <2>2
<1>7. \A y \in Slots : ends_held'[y].sock \notin ends_lost'
  BY <1>1, <1>2, <1>4 DEF EndsInv, EndsOwned, EndsTyped
<1>8. \A y, z \in Slots : ends_held'[y].sock = ends_held'[z].sock /\ ends_held'[y].sock # 0 => y = z
  BY <1>4 DEF EndsInv, EndsOwned
<1>9. \A y \in Slots : ends_held'[y].kind = "none" => ends_held'[y].sock = 0
  BY <1>4 DEF EndsInv, EndsOwned
<1> QED
  BY <1>5, <1>6, <1>7, <1>8, <1>9 DEF EndsInv, EndsOwned

\* The other calls leave alone who has what: one descriptor listens, some block.
LEMMA NobodyMovesKeeps ==
  ASSUME EndsInv, UNCHANGED <<ends_held, ends_lost>>, ends_pass' \in Passes, ends_blocks' \subseteq Descriptors,
         \/ ends_fd' = ends_fd
         \/ \E f \in Descriptors : ends_fd[f] = "stream" /\ ends_fd' = [ends_fd EXCEPT ![f] = "listen"]
  PROVE  EndsInv'
<1>1. /\ ends_fd' \in [Descriptors -> {"free", "stream", "listen", "dgram"}]
      /\ \A f \in Descriptors : ends_fd'[f] = "free" <=> ends_fd[f] = "free"
  BY DEF EndsInv, EndsTyped
<1> QED
  BY <1>1 DEF EndsInv, EndsTyped, EndsOwned

LEMMA EndsStepInv ==
  ASSUME EndsInv, [Ends!Next]_(Ends!vars)
  PROVE  EndsInv'
<1>0. /\ ends_blocks \subseteq Descriptors /\ ends_pass \in Passes /\ 0 \notin Descriptors
      /\ \A x \in Slots : ends_held[x] \in [kind : Kinds, sock : Descriptors \cup {0}]
  BY ServicesAssumption DEF EndsInv, EndsTyped
<1>1. ASSUME NEW r, Ends!Result(r), ends_pass' \in Passes PROVE EndsInv'
  BY <1>0, <1>1, NobodyMovesKeeps DEF Ends!Result
<1>2. ASSUME NEW x \in Slots, Ends!SU_CreateServer(x) PROVE EndsInv'
  BY <1>0, <1>1, <1>2, HoldKeeps DEF Ends!SU_CreateServer
<1>3. ASSUME NEW x \in Slots, Ends!SU_ClientConnect(x) PROVE EndsInv'
  BY <1>0, <1>1, <1>3, HoldKeeps, LoseKeeps DEF Ends!SU_ClientConnect
<1>4. ASSUME NEW x \in Slots, Ends!SU_ServerListen(x) PROVE EndsInv'
  BY <1>0, <1>1, <1>4, NobodyMovesKeeps DEF Ends!SU_ServerListen, Ends!NotASocket
<1>5. ASSUME NEW x \in Slots, NEW y \in Slots, Ends!SU_ServerAcceptConnection(x, y) PROVE EndsInv'
  BY <1>0, <1>1, <1>5, HoldKeeps DEF Ends!SU_ServerAcceptConnection
<1>6. ASSUME NEW x \in Slots, Ends!Disconnect(x) \/ Ends!FreeStructure(x) PROVE EndsInv'
  <2>1. Ends!Empty \in [kind : Kinds, sock : {0}]
    BY DEF Ends!Empty, Ends!NotASocket, Kinds
  <2>2. Ends!Disconnected(ends_held[x]) \in [kind : Kinds, sock : {0}]
    BY <1>0 DEF Ends!Disconnected, Ends!NotASocket
  <2> QED
    BY <1>6, <2>1, <2>2, CloseKeeps DEF Ends!Disconnect, Ends!FreeStructure
<1>7. ASSUME NEW x \in Slots, Ends!SU_UDPSend(x) PROVE EndsInv'
  BY <1>0, <1>1, <1>7 DEF Ends!SU_UDPSend
<1>8. ASSUME NEW x \in Slots, Ends!SU_UDPReceiveFrom(x) \/ Ends!SU_SetSocketBlocking(x) PROVE EndsInv'
  <2>1. UNCHANGED <<ends_fd, ends_held, ends_lost, ends_pass>> /\ ends_blocks' \subseteq ends_blocks \cup {ends_held[x].sock}
        /\ ends_held[x].sock # 0
    BY <1>8 DEF Ends!SU_UDPReceiveFrom, Ends!SU_SetSocketBlocking, Ends!NotASocket
  <2>2. ends_blocks' \subseteq Descriptors
    BY <1>0, <2>1
  <2> QED
    BY <1>0, <2>1, <2>2, NobodyMovesKeeps
<1>9. CASE Ends!SU_WakeUpComputer
  BY <1>0, <1>1, <1>9, LoseKeeps DEF Ends!SU_WakeUpComputer
<1>10. CASE Ends!SelectMulti
  <2>1. CASE UNCHANGED ends_pass
    BY <1>0, <1>1, <1>10, <2>1 DEF Ends!SelectMulti
  <2>2. ASSUME NEW ready \in SUBSET Ends!Sons \ {{}},
               ends_pass' = [slot |-> 1, ready |-> {ends_held[x].sock : x \in ready}, inside |-> FALSE], Ends!Result("none")
        PROVE  EndsInv'
    <3>1. {ends_held[x].sock : x \in ready} \subseteq Descriptors
      BY <1>0, <2>2 DEF Ends!Sons, Ends!NotASocket
    <3>2. 1 \in Slots
      BY ServicesAssumption
    <3>3. ends_pass' \in Passes
      BY <2>2, <3>1, <3>2 DEF Passes
    <3> QED
      BY <1>1, <2>2, <3>3
  <2> QED
    BY <1>10, <2>1, <2>2 DEF Ends!SelectMulti
<1>11. CASE Ends!Visit
  <2>1. ends_pass' \in Passes
    BY <1>0, <1>11 DEF Ends!Visit, Passes
  <2> QED
    BY <1>0, <1>11, <2>1, NobodyMovesKeeps DEF Ends!Visit
<1>12. CASE Ends!Passed
  <2>1. ends_pass' \in Passes
    <3>1. CASE ends_pass.slot + 1 \in Slots
      <4>1. ends_pass' = [ends_pass EXCEPT !.slot = ends_pass.slot + 1, !.inside = FALSE]
        BY <1>12, <3>1 DEF Ends!Passed
      <4> QED
        BY <1>0, <3>1, <4>1 DEF Passes
    <3>2. CASE ends_pass.slot + 1 \notin Slots
      <4>1. ends_pass' = Ends!Idle
        BY <1>12, <3>2 DEF Ends!Passed
      <4> QED
        BY <4>1 DEF Ends!Idle, Passes
    <3> QED BY <3>1, <3>2
  <2> QED
    BY <1>0, <1>12, <2>1, NobodyMovesKeeps DEF Ends!Passed
<1>13. CASE UNCHANGED Ends!vars
  BY <1>13 DEF Ends!vars, EndsInv, EndsTyped, EndsOwned
<1> QED
  BY <1>2, <1>3, <1>4, <1>5, <1>6, <1>7, <1>8, <1>9, <1>10, <1>11, <1>12, <1>13 DEF Ends!Next

LEMMA EndsInvKept ==
  ASSUME EndsInv
  PROVE  Ends!SocketsKept /\ Ends!TypeOK
<1> DEFINE owned == {ends_held[x].sock : x \in Slots} \ {0}
<1>1. owned \subseteq Descriptors
  BY DEF EndsInv, EndsTyped
<1>2. {f \in Descriptors : ends_fd[f] # "free"} = owned \cup ends_lost
  <2>1. \A f \in Descriptors : f \in owned <=> \E x \in Slots : ends_held[x].sock = f
    BY ServicesAssumption
  <2> HIDE DEF owned
  <2> QED BY <1>1, <2>1 DEF EndsInv, EndsTyped, EndsOwned
<1>3. owned \cap ends_lost = {}
  BY DEF EndsInv, EndsOwned
<1>4. Ends!SocketsKept
  BY <1>2, <1>3 DEF Ends!SocketsKept, Ends!NotASocket, EndsInv, EndsOwned
<1>5. Ends!TypeOK
  BY DEF Ends!TypeOK, EndsInv, EndsTyped, Ends!NotASocket, Kinds, Passes
<1> QED
  BY <1>4, <1>5

-----------------------------------------------------------------------------
(* WinRegistry: the keys of the system, and the handles that calls open.   *)

KeyFunctions == {"openkeys", "createkeys", "get", "length", "set", "delkey", "delvalue"}
KeyCalls == [op : KeyFunctions, path : KeyPaths, name : ValueNames, type : Types, i : Nat \ {0}, h : Handles \cup {"0"}, seen : BOOLEAN]
KeysTyped ==
  /\ key_keys \subseteq Key!AllKeys /\ Key!Root \in key_keys
  /\ \A k \in key_keys \ {Key!Root} : Key!Front(k) \in key_keys
CallTyped ==
  /\ key_client \subseteq Handles /\ "0" \notin Handles
  /\ key_call = Key!Idle \/ key_call \in KeyCalls

\* The walk holds the handle of the last key it has come to, which the program has not, and of none before the first step.
Walked ==
  key_call # Key!Idle =>
    /\ key_call.i <= Len(key_call.path) + 1
    /\ IF key_call.i = 1 THEN key_call.h = "0"
       ELSE key_call.h \in Handles \ key_client /\ key_handle[key_call.h] = SubSeq(key_call.path, 1, key_call.i - 1)
KeyInv == KeysTyped /\ CallTyped /\ Walked /\ Key!HandlesKept

LEMMA PathsAreSequences ==
  \A p \in KeyPaths : p \in Seq(STRING) /\ Len(p) \in Nat \ {0}
BY ServicesAssumption, EmptySeq

LEMMA BeginningOfPath ==
  ASSUME NEW p \in Seq(STRING), NEW n \in 0..Len(p)
  PROVE  SubSeq(p, 1, n) \in Seq(STRING) /\ Len(SubSeq(p, 1, n)) = n /\ \A k \in 1..n : SubSeq(p, 1, n)[k] = p[k]
<1>1. n \in Nat /\ \A k \in 1..n : p[k] \in STRING
  BY LenProperties
<1> QED
  BY <1>1, Beginning

\* All keys but the root are a name longer than another key or the root.
LEMMA KeysAreSequences ==
  /\ \A k \in Key!AllKeys : k \in Seq(STRING)
  /\ \A k \in Key!AllKeys : k = Key!Root \/ Len(k) \in Nat \ {0}
<1>1. \A p \in KeyPaths : \A n \in 1..Len(p) : SubSeq(p, 1, n) \in Seq(STRING) /\ Len(SubSeq(p, 1, n)) = n
  <2> TAKE p \in KeyPaths
  <2> TAKE n \in 1..Len(p)
  <2>1. p \in Seq(STRING) /\ n \in 0..Len(p)
    BY PathsAreSequences
  <2> QED BY <2>1, BeginningOfPath
<1>2. ASSUME NEW k \in Key!AllKeys
      PROVE  k = Key!Root \/ \E p \in KeyPaths : \E n \in 1..Len(p) : k = SubSeq(p, 1, n)
  BY DEF Key!AllKeys
<1>3. Key!Root \in Seq(STRING)
  BY DEF Key!Root
<1>4. \A p \in KeyPaths : \A n \in 1..Len(p) : n \in Nat \ {0}
  BY PathsAreSequences
<1> QED
  BY <1>1, <1>2, <1>3, <1>4

LEMMA KeyInitInv ==
  ASSUME Key!Init
  PROVE  KeyInv
<1>1. key_keys = {Key!Root} /\ key_handle = << >> /\ key_client = {} /\ key_call = Key!Idle
  BY DEF Key!Init
<1>2. DOMAIN key_handle = {}
  BY <1>1
<1>3. KeysTyped
  BY <1>1 DEF KeysTyped, Key!AllKeys
<1>4. CallTyped
  BY <1>1, ServicesAssumption DEF CallTyped
<1> QED
  BY <1>1, <1>2, <1>3, <1>4 DEF KeyInv, Walked, Key!HandlesKept

\* A call that is running: where it is, and what it will open.
LEMMA OnTheWay ==
  ASSUME KeyInv, key_call # Key!Idle
  PROVE  /\ key_call \in KeyCalls /\ key_call.path \in Seq(STRING) /\ Len(key_call.path) \in Nat \ {0}
         /\ Key!Here = SubSeq(key_call.path, 1, key_call.i - 1)
         /\ Key!Here \in Seq(STRING)
         /\ DOMAIN key_handle = key_client \cup ({key_call.h} \ {"0"}) /\ key_call.h \notin key_client
<1>1. key_call \in KeyCalls
  BY DEF KeyInv, CallTyped
<1>2. key_call.path \in KeyPaths /\ key_call.i \in Nat \ {0} /\ key_call.i <= Len(key_call.path) + 1
  BY <1>1 DEF KeyCalls, KeyInv, Walked
<1>3. key_call.path \in Seq(STRING) /\ Len(key_call.path) \in Nat \ {0}
  BY <1>2, PathsAreSequences
<1>4. DOMAIN key_handle = key_client \cup ({key_call.h} \ {"0"}) /\ key_call.h \notin key_client
  BY DEF KeyInv, Walked, Key!HandlesKept, Key!NoHandle, CallTyped
<1>5. CASE key_call.i = 1
  <2>1. key_call.h = "0" /\ Key!Here = << >>
    BY <1>5 DEF KeyInv, Walked, Key!Here, Key!NoHandle, Key!Root
  <2>2. SubSeq(key_call.path, 1, 0) = << >>
    BY <1>3, SubSeqEmpty
  <2> QED BY <1>1, <1>3, <1>4, <1>5, <2>1, <2>2
<1>6. CASE key_call.i # 1
  <2>1. key_call.h # "0" /\ Key!Here = SubSeq(key_call.path, 1, key_call.i - 1)
    BY <1>6, ServicesAssumption DEF KeyInv, Walked, Key!Here, Key!NoHandle
  <2>2. key_call.i - 1 \in 0..Len(key_call.path)
    BY <1>2, <1>3
  <2>3. Key!Here \in Seq(STRING)
    BY <1>3, <2>1, <2>2, BeginningOfPath
  <2> QED BY <1>1, <1>3, <1>4, <2>1, <2>3
<1> QED
  BY <1>5, <1>6

\* The next key of the walk is one that may be there, and the walk is in the key above it.
LEMMA NextOfPath ==
  ASSUME KeyInv, key_call # Key!Idle, key_call.i <= Len(key_call.path)
  PROVE  /\ Key!Next1 = SubSeq(key_call.path, 1, key_call.i) /\ Key!Next1 \in Key!AllKeys
         /\ Key!Next1 # Key!Root /\ Key!Front(Key!Next1) = Key!Here
<1> DEFINE p == key_call.path
           i == key_call.i
<1>1. p \in Seq(STRING) /\ i \in Nat \ {0} /\ i \in 1..Len(p) /\ Len(p) \in Nat /\ p \in KeyPaths /\ Key!Here = SubSeq(p, 1, i - 1)
  BY OnTheWay DEF KeyCalls
<1>2. Key!Next1 = Append(Key!Here, p[i])
  BY DEF Key!Next1
<1> HIDE DEF p, i
<1>3. /\ SubSeq(p, 1, i - 1) \in Seq(STRING) /\ Len(SubSeq(p, 1, i - 1)) = i - 1
      /\ \A k \in 1..(i - 1) : SubSeq(p, 1, i - 1)[k] = p[k]
  <2>1. i - 1 \in 0..Len(p) BY <1>1
  <2> QED BY <1>1, <2>1, BeginningOfPath
<1>4. /\ SubSeq(p, 1, i) \in Seq(STRING) /\ Len(SubSeq(p, 1, i)) = i
      /\ \A k \in 1..i : SubSeq(p, 1, i)[k] = p[k]
  <2>1. i \in 0..Len(p) BY <1>1
  <2> QED BY <1>1, <2>1, BeginningOfPath
<1>5. p[i] \in STRING
  BY <1>1
<1> DEFINE a == SubSeq(p, 1, i - 1)
           b == SubSeq(p, 1, i)
           c == Append(a, p[i])
<1>6. /\ c \in Seq(STRING) /\ Len(c) = i /\ \A k \in 1..(i - 1) : c[k] = a[k]
      /\ c[i] = p[i]
  <2>1. Len(c) = (i - 1) + 1 /\ c[(i - 1) + 1] = p[i]
    BY <1>3, <1>5, AppendProperties
  <2>2. (i - 1) + 1 = i BY <1>1
  <2> QED BY <1>3, <1>5, <2>1, <2>2, AppendProperties
<1> HIDE DEF a, b, c
<1>7. c = b
  <2>1. \A k \in 1..i : k \in 1..(i - 1) \/ k = i
    BY <1>1
  <2>2. \A k \in 1..i : c[k] = b[k]
    BY <1>3, <1>4, <1>6, <2>1 DEF a, b
  <2>3. b \in Seq(STRING) /\ Len(b) = i
    BY <1>4 DEF b
  <2> QED BY <1>6, <2>2, <2>3, SeqEqual
<1>8. c # Key!Root
  BY <1>1, <1>6, EmptySeq DEF Key!Root
<1>9. Key!Front(c) = a
  <2>1. Key!Front(c) = SubSeq(c, 1, i - 1)
    BY <1>6 DEF Key!Front
  <2>2. /\ SubSeq(c, 1, i - 1) \in Seq(STRING) /\ Len(SubSeq(c, 1, i - 1)) = i - 1
        /\ \A k \in 1..(i - 1) : SubSeq(c, 1, i - 1)[k] = c[k]
    <3>1. i - 1 \in 0..Len(c) BY <1>1, <1>6
    <3> QED BY <1>6, <3>1, BeginningOfPath
  <2>3. a \in Seq(STRING) /\ Len(a) = i - 1
    BY <1>3 DEF a
  <2> QED BY <1>6, <2>1, <2>2, <2>3, SeqEqual
<1>10. b \in Key!AllKeys
  BY <1>1 DEF Key!AllKeys, b
<1> QED
  BY <1>1, <1>2, <1>7, <1>8, <1>9, <1>10 DEF a, b, c, p, i

\* A key that is deleted with all below it leaves the key above each other one.
LEMMA DeletingKeeps ==
  ASSUME KeysTyped, NEW k \in Seq(STRING), k # Key!Root, Key!WithoutKey(k)
  PROVE  KeysTyped'
<1>1. key_keys' = key_keys \ {j \in key_keys : Key!IsPrefix(k, j)}
  BY DEF Key!WithoutKey, Key!Below
<1>2. Len(k) \in Nat \ {0}
  BY EmptySeq DEF Key!Root
<1>3. ~Key!IsPrefix(k, Key!Root)
  BY <1>2 DEF Key!IsPrefix, Key!Root
<1>4. ASSUME NEW j \in key_keys \ {Key!Root}, Key!IsPrefix(k, Key!Front(j))
      PROVE  Key!IsPrefix(k, j)
  <2>1. j \in Seq(STRING) /\ Len(j) \in Nat \ {0} /\ Len(j) - 1 \in 0..Len(j)
    BY KeysAreSequences DEF KeysTyped
  <2>2. /\ Len(Key!Front(j)) = Len(j) - 1 /\ Key!Front(j) \in Seq(STRING)
        /\ \A m \in 1..(Len(j) - 1) : Key!Front(j)[m] = j[m]
    BY <2>1, BeginningOfPath DEF Key!Front
  <2> DEFINE n == Len(k)
  <2>3. n \in 0..(Len(j) - 1) /\ n \in 0..Len(j)
    BY <1>2, <1>4, <2>1, <2>2 DEF Key!IsPrefix
  <2>4. SubSeq(Key!Front(j), 1, n) = SubSeq(k, 1, n)
    BY <1>4 DEF Key!IsPrefix
  <2> HIDE DEF n
  <2>5. /\ SubSeq(j, 1, n) \in Seq(STRING) /\ Len(SubSeq(j, 1, n)) = n
        /\ \A m \in 1..n : SubSeq(j, 1, n)[m] = j[m]
    BY <2>1, <2>3, BeginningOfPath
  <2>6. /\ SubSeq(Key!Front(j), 1, n) \in Seq(STRING) /\ Len(SubSeq(Key!Front(j), 1, n)) = n
        /\ \A m \in 1..n : SubSeq(Key!Front(j), 1, n)[m] = Key!Front(j)[m]
    BY <2>2, <2>3, BeginningOfPath
  <2>7. \A m \in 1..n : m \in 1..(Len(j) - 1)
    BY <2>1, <2>3
  <2>8. \A m \in 1..n : SubSeq(Key!Front(j), 1, n)[m] = SubSeq(j, 1, n)[m]
    BY <2>2, <2>5, <2>6, <2>7
  <2>9. SubSeq(Key!Front(j), 1, n) = SubSeq(j, 1, n)
    BY <2>5, <2>6, <2>8, SeqEqual
  <2>10. n <= Len(j)
    BY <2>1, <2>3
  <2> QED BY <2>4, <2>9, <2>10 DEF Key!IsPrefix, n
<1>5. ASSUME NEW j \in key_keys' \ {Key!Root}
      PROVE  Key!Front(j) \in key_keys'
  <2>1. j \in key_keys \ {Key!Root} /\ ~Key!IsPrefix(k, j)
    BY <1>1, <1>5
  <2>2. Key!Front(j) \in key_keys
    BY <2>1 DEF KeysTyped
  <2> QED BY <1>1, <1>4, <2>1, <2>2
<1> QED
  BY <1>1, <1>3, <1>5 DEF KeysTyped

\* A call that ends closes the handle the walk has.
LEMMA FinishKeeps ==
  ASSUME KeyInv, key_call # Key!Idle, NEW a, Key!Finish(a, key_call.h), KeysTyped', UNCHANGED key_client
  PROVE  KeyInv'
<1>1. key_call' = Key!Idle /\ DOMAIN key_handle' = DOMAIN key_handle \ {key_call.h}
  BY DEF Key!Finish, Key!Closed
<1>2. DOMAIN key_handle = key_client \cup ({key_call.h} \ {"0"}) /\ key_call.h \notin key_client
  BY OnTheWay
<1>3. DOMAIN key_handle' = key_client'
  BY <1>1, <1>2 DEF KeyInv, CallTyped
<1> QED
  BY <1>1, <1>3 DEF KeyInv, CallTyped, Walked, Key!HandlesKept

LEMMA BeginKeeps ==
  ASSUME KeyInv, NEW op \in KeyFunctions, Key!Begin(op)
  PROVE  KeyInv'
<1>1. PICK p \in KeyPaths, n \in ValueNames, t \in Types :
        key_call' = [op |-> op, path |-> p, name |-> n, type |-> t, i |-> 1, h |-> "0", seen |-> FALSE]
  BY DEF Key!Begin, Key!NoHandle
<1>2. key_call = Key!Idle /\ UNCHANGED <<key_keys, key_values, key_handle, key_client>>
  BY DEF Key!Begin
<1>3. key_call' \in KeyCalls /\ key_call'.i = 1 /\ key_call'.path = p /\ key_call'.h = "0"
  BY <1>1 DEF KeyCalls
<1>4. key_call' # Key!Idle
  <2>1. key_call'.op # "idle" BY <1>3 DEF KeyCalls, KeyFunctions
  <2> QED BY <2>1 DEF Key!Idle
<1>5. Len(p) \in Nat \ {0}
  BY PathsAreSequences
<1>6. KeysTyped' /\ CallTyped'
  BY <1>2, <1>3 DEF KeyInv, KeysTyped, CallTyped
<1>7. Walked'
  BY <1>3, <1>5 DEF Walked
<1>8. Key!HandlesKept'
  BY <1>2, <1>3, <1>4 DEF KeyInv, Key!HandlesKept, Key!NoHandle, CallTyped
<1> QED
  BY <1>6, <1>7, <1>8 DEF KeyInv

LEMMA WalkStepKeeps ==
  ASSUME KeyInv, Key!WalkStep
  PROVE  KeyInv'
<1>1. key_call # Key!Idle /\ key_call.i <= Len(key_call.path)
  BY DEF Key!WalkStep, Key!Walking
<1>2. PICK h \in Handles \ DOMAIN key_handle :
        /\ key_handle' = [g \in (DOMAIN key_handle \ {key_call.h}) \cup {h} |-> IF g = h THEN Key!Next1 ELSE key_handle[g]]
        /\ key_call' = [key_call EXCEPT !.i = @ + 1, !.h = h]
  BY DEF Key!WalkStep
<1>3. key_keys' = key_keys \cup {Key!Next1} /\ key_client' = key_client
      /\ (Key!Next1 \in key_keys \/ Key!Here \in key_keys)
  BY DEF Key!WalkStep
<1>4. /\ Key!Next1 = SubSeq(key_call.path, 1, key_call.i) /\ Key!Next1 \in Key!AllKeys
      /\ Key!Next1 # Key!Root /\ Key!Front(Key!Next1) = Key!Here
  BY <1>1, NextOfPath
<1>5. /\ key_call \in KeyCalls /\ Len(key_call.path) \in Nat \ {0}
      /\ DOMAIN key_handle = key_client \cup ({key_call.h} \ {"0"}) /\ key_call.h \notin key_client
  BY <1>1, OnTheWay
<1>6. KeysTyped'
  <2>1. key_keys' \subseteq Key!AllKeys /\ Key!Root \in key_keys'
    BY <1>3, <1>4 DEF KeyInv, KeysTyped
  <2>2. \A k \in key_keys' \ {Key!Root} : Key!Front(k) \in key_keys'
    BY <1>3, <1>4 DEF KeyInv, KeysTyped
  <2> QED BY <2>1, <2>2 DEF KeysTyped
<1>7. /\ key_call' \in KeyCalls /\ key_call'.i = key_call.i + 1 /\ key_call'.h = h /\ key_call'.path = key_call.path
      /\ key_call'.op = key_call.op
  <2>1. key_call.i + 1 \in Nat \ {0} /\ key_call.i \in Nat
    BY <1>5 DEF KeyCalls
  <2>2. key_call' = [key_call EXCEPT !.i = key_call.i + 1, !.h = h]
    BY <1>2, Zenon
  <2> DEFINE n == key_call.i + 1
  <2> HIDE DEF n
  <2>3. key_call' = [key_call EXCEPT !.i = n, !.h = h] /\ n \in Nat \ {0}
    BY <2>1, <2>2 DEF n
  <2>4. /\ key_call' \in KeyCalls /\ key_call'.i = n /\ key_call'.h = h /\ key_call'.path = key_call.path
        /\ key_call'.op = key_call.op
    BY <1>5, <2>3 DEF KeyCalls
  <2> QED BY <2>4 DEF n
<1>8. key_call' # Key!Idle
  <2>1. key_call'.op # "idle" BY <1>7 DEF KeyCalls, KeyFunctions
  <2> QED BY <2>1 DEF Key!Idle
<1>9. key_call.i \in Nat \ {0} /\ key_call.i + 1 # 1 /\ key_call.i + 1 - 1 = key_call.i /\ key_call.i + 1 <= Len(key_call.path) + 1
  BY <1>1, <1>5 DEF KeyCalls
<1>10. h \notin key_client /\ h # "0"
  BY <1>5, ServicesAssumption
<1>11. key_handle'[h] = Key!Next1 /\ DOMAIN key_handle' = (DOMAIN key_handle \ {key_call.h}) \cup {h}
  BY <1>2
<1>12. Walked'
  BY <1>3, <1>4, <1>7, <1>9, <1>10, <1>11 DEF Walked
<1>13. CallTyped'
  BY <1>3, <1>7 DEF KeyInv, CallTyped
<1>14. DOMAIN key_handle' = key_client' \cup ({key_call'.h} \ {"0"})
  BY <1>3, <1>5, <1>7, <1>10, <1>11
<1>15. Key!HandlesKept'
  BY <1>8, <1>14 DEF Key!HandlesKept, Key!NoHandle
<1> QED
  BY <1>6, <1>12, <1>13, <1>15 DEF KeyInv

\* The program is given the last handle of the walk, which is at least one key deep.
LEMMA ReturnKeyKeeps ==
  ASSUME KeyInv, Key!ReturnKey
  PROVE  KeyInv'
<1>1. key_call # Key!Idle /\ key_call.i > Len(key_call.path)
  BY DEF Key!ReturnKey, Key!Arrived
<1>2. key_client' = key_client \cup {key_call.h} /\ key_call' = Key!Idle /\ UNCHANGED <<key_keys, key_handle>>
  BY DEF Key!ReturnKey
<1>3. /\ key_call \in KeyCalls /\ Len(key_call.path) \in Nat \ {0}
      /\ DOMAIN key_handle = key_client \cup ({key_call.h} \ {"0"}) /\ key_call.h \notin key_client
  BY <1>1, OnTheWay
<1>4. key_call.i # 1
  BY <1>1, <1>3 DEF KeyCalls
<1>5. key_call.h \in Handles
  BY <1>1, <1>4 DEF KeyInv, Walked
<1>6. CallTyped' /\ KeysTyped'
  BY <1>2, <1>5 DEF KeyInv, CallTyped, KeysTyped
<1>7. DOMAIN key_handle' = key_client'
  BY <1>2, <1>3, <1>5, ServicesAssumption
<1> QED
  BY <1>2, <1>6, <1>7 DEF KeyInv, Walked, Key!HandlesKept

LEMMA CloseKeyKeeps ==
  ASSUME KeyInv, Key!SU_RB_CloseKey
  PROVE  KeyInv'
<1>1. PICK h \in key_client : key_handle' = Key!Closed(h) /\ key_client' = key_client \ {h}
  BY DEF Key!SU_RB_CloseKey
<1>2. key_call = Key!Idle /\ UNCHANGED <<key_keys, key_call>>
  BY DEF Key!SU_RB_CloseKey
<1>3. DOMAIN key_handle' = DOMAIN key_handle \ {h}
  BY <1>1 DEF Key!Closed
<1> QED
  BY <1>1, <1>2, <1>3 DEF KeyInv, CallTyped, KeysTyped, Walked, Key!HandlesKept

\* What Windows is asked about the value changes nothing but the call.
LEMMA QueryTypeKeeps ==
  ASSUME KeyInv, Key!QueryType
  PROVE  KeyInv'
<1>1. key_call # Key!Idle /\ UNCHANGED <<key_keys, key_client>>
  BY DEF Key!QueryType, Key!Arrived
<1>2. KeysTyped'
  BY <1>1 DEF KeyInv, KeysTyped
<1>3. CASE \E v \in Key!Stored(key_call.name) : v.type # key_call.type
  <2>1. Key!Finish(<<key_call.op, FALSE>>, key_call.h)
    BY <1>3 DEF Key!QueryType
  <2> QED BY <1>1, <1>2, <2>1, FinishKeeps
<1>4. CASE ~\E v \in Key!Stored(key_call.name) : v.type # key_call.type
  <2>1. key_call' = [key_call EXCEPT !.seen = TRUE] /\ UNCHANGED key_handle
    BY <1>4 DEF Key!QueryType
  <2>2. key_call \in KeyCalls
    BY <1>1, OnTheWay
  <2>3. /\ key_call' \in KeyCalls /\ key_call'.i = key_call.i /\ key_call'.h = key_call.h /\ key_call'.path = key_call.path
        /\ key_call'.op = key_call.op
    BY <2>1, <2>2 DEF KeyCalls
  <2>4. key_call' # Key!Idle
    <3>1. key_call'.op # "idle" BY <2>3 DEF KeyCalls, KeyFunctions
    <3> QED BY <3>1 DEF Key!Idle
  <2>5. Walked'
    BY <1>1, <2>1, <2>3 DEF KeyInv, Walked
  <2>6. CallTyped'
    BY <1>1, <2>3 DEF KeyInv, CallTyped
  <2>7. Key!HandlesKept'
    BY <1>1, <2>1, <2>3, <2>4 DEF KeyInv, Key!HandlesKept
  <2> QED BY <1>2, <2>5, <2>6, <2>7 DEF KeyInv
<1> QED
  BY <1>3, <1>4

LEMMA SetValueKeeps ==
  ASSUME KeyInv, Key!SetValue
  PROVE  KeyInv'
<1>1. key_call # Key!Idle /\ UNCHANGED <<key_keys, key_client>>
  BY DEF Key!SetValue, Key!Arrived
<1>2. PICK ok \in {~MayDeny, TRUE} : Key!Finish(<<"set", ok /\ Key!Here \in key_keys>>, key_call.h)
  BY DEF Key!SetValue
<1>3. KeysTyped'
  BY <1>1 DEF KeyInv, KeysTyped
<1> QED
  BY <1>1, <1>2, <1>3, FinishKeeps

LEMMA DelKeyKeeps ==
  ASSUME KeyInv, Key!DelKey
  PROVE  KeyInv'
<1> DEFINE k == Append(Key!Here, key_call.name)
<1>1. key_call # Key!Idle /\ UNCHANGED key_client
  BY DEF Key!DelKey, Key!Arrived
<1>2. Key!Here \in Seq(STRING) /\ key_call.name \in STRING
  BY <1>1, OnTheWay, ServicesAssumption DEF KeyCalls
<1>3. k \in Seq(STRING) /\ k # Key!Root
  BY <1>2, AppendProperties DEF Key!Root
<1>4. CASE Key!Deletable(k)
  <2>1. Key!WithoutKey(k) /\ Key!Finish(<<"delkey", TRUE>>, key_call.h)
    BY <1>4 DEF Key!DelKey
  <2>2. KeysTyped'
    BY <1>3, <2>1, DeletingKeeps DEF KeyInv
  <2> QED BY <1>1, <2>1, <2>2, FinishKeeps
<1>5. CASE ~Key!Deletable(k)
  <2>1. Key!Finish(<<"delkey", FALSE>>, key_call.h) /\ UNCHANGED key_keys
    BY <1>5 DEF Key!DelKey
  <2>2. KeysTyped'
    BY <2>1 DEF KeyInv, KeysTyped
  <2> QED BY <1>1, <2>1, <2>2, FinishKeeps
<1> QED
  BY <1>4, <1>5

\* Other programs move no handle.
LEMMA OthersKeep ==
  ASSUME KeyInv, Key!Others
  PROVE  KeyInv'
<1>1. UNCHANGED <<key_handle, key_client, key_call>>
  BY DEF Key!Others
<1>2. KeysTyped'
  <2>1. CASE \E k \in Key!AllKeys \ {Key!Root} : Key!Front(k) \in key_keys /\ key_keys' = key_keys \cup {k}
    BY <2>1 DEF KeyInv, KeysTyped
  <2>2. CASE \E k \in key_keys \ {Key!Root} : Key!WithoutKey(k)
    BY <2>2, DeletingKeeps, KeysAreSequences DEF KeyInv, KeysTyped
  <2>3. CASE UNCHANGED key_keys
    BY <2>3 DEF KeyInv, KeysTyped
  <2> QED BY <2>1, <2>2, <2>3 DEF Key!Others
<1> QED
  BY <1>1, <1>2 DEF KeyInv, CallTyped, Walked, Key!HandlesKept

LEMMA KeyStepInv ==
  ASSUME KeyInv, [Key!Next]_(Key!vars)
  PROVE  KeyInv'
<1>1. ASSUME NEW op \in KeyFunctions, Key!Begin(op) PROVE KeyInv'
  BY <1>1, BeginKeeps
<1>2. CASE Key!WalkStep BY <1>2, WalkStepKeeps
<1>3. CASE Key!WalkFails
  <2>1. key_call # Key!Idle /\ UNCHANGED <<key_keys, key_client>>
    BY <1>3 DEF Key!WalkFails, Key!Walking
  <2>2. KeysTyped'
    BY <2>1 DEF KeyInv, KeysTyped
  <2> QED BY <1>3, <2>1, <2>2, FinishKeeps DEF Key!WalkFails
<1>4. CASE Key!ReturnKey BY <1>4, ReturnKeyKeeps
<1>5. CASE Key!SU_RB_CloseKey BY <1>5, CloseKeyKeeps
<1>6. CASE Key!QueryType BY <1>6, QueryTypeKeeps
<1>7. CASE Key!QueryValue
  <2>1. key_call # Key!Idle /\ UNCHANGED <<key_keys, key_client>>
    BY <1>7 DEF Key!QueryValue, Key!Arrived
  <2>2. KeysTyped'
    BY <2>1 DEF KeyInv, KeysTyped
  <2> QED BY <1>7, <2>1, <2>2, FinishKeeps DEF Key!QueryValue
<1>8. CASE Key!SetValue BY <1>8, SetValueKeeps
<1>9. CASE Key!DelKey BY <1>9, DelKeyKeeps
<1>10. CASE Key!DelValue
  <2>1. key_call # Key!Idle /\ UNCHANGED <<key_keys, key_client>>
    BY <1>10 DEF Key!DelValue, Key!Arrived
  <2>2. KeysTyped'
    BY <2>1 DEF KeyInv, KeysTyped
  <2> QED BY <1>10, <2>1, <2>2, FinishKeeps DEF Key!DelValue
<1>11. CASE Key!Others BY <1>11, OthersKeep
<1>12. CASE UNCHANGED Key!vars
  BY <1>12 DEF Key!vars, KeyInv, KeysTyped, CallTyped, Walked, Key!HandlesKept
<1> QED
  BY <1>1, <1>2, <1>3, <1>4, <1>5, <1>6, <1>7, <1>8, <1>9, <1>10, <1>11, <1>12
  DEF Key!Next, KeyFunctions, Key!SU_RB_OpenKeys, Key!SU_RB_CreateKeys, Key!SU_RB_GetValue, Key!SU_RB_GetLength,
      Key!SU_RB_SetValue, Key!SU_RB_DelKey, Key!SU_RB_DelValue

LEMMA KeyInvKept ==
  ASSUME KeyInv
  PROVE  Key!HandlesKept /\ Key!TypeOK
<1>1. CASE key_call = Key!Idle
  BY <1>1 DEF KeyInv, KeysTyped, CallTyped, Key!HandlesKept, Key!TypeOK
<1>2. CASE key_call # Key!Idle
  <2>1. key_call.h \in Handles \cup {"0"}
    BY <1>2 DEF KeyInv, CallTyped, KeyCalls
  <2>2. DOMAIN key_handle = key_client \cup ({key_call.h} \ {"0"})
    BY <1>2, OnTheWay
  <2> QED BY <2>1, <2>2 DEF KeyInv, KeysTyped, CallTyped, Key!HandlesKept, Key!TypeOK
<1> QED
  BY <1>1, <1>2

-----------------------------------------------------------------------------
(* DebugViewer: the table of programs, and the list of their messages.     *)

ListenerPlaces == {"accept", "say", "put", "enter", "count", "start", "ended"}
Linked == {"receive", "say", "put", "bye", "putbye", "remove"}
ChildPlaces == Linked \cup {"away", "connected", "count", "ended"}
Listeners == [at : ListenerPlaces, new : Clients \cup {Nil}, idx : Window!Entries, seen : Int]
Children == [at : ChildPlaces, idx : Window!Entries, seen : Int, n : Int]
Messages == (Clients \cup {Nil}) \X Int
TableTyped ==
  /\ window_ConnStrs \in [Window!Entries -> Clients \cup {Nil}] /\ window_NbConns \in Int
  /\ window_listener \in Listeners /\ window_child \in [Clients -> Children] /\ window_raced \in BOOLEAN
MessagesTyped ==
  /\ window_L_sem \in Clients \cup {Nil, "window", "listener"}
  /\ window_L_Messages \in Seq(Messages) /\ window_due \in Seq(Messages)
  /\ window_drain \in 0..(Len(window_L_Messages) + 1)
  /\ window_isDisplayed \in {"on", "off"} /\ window_config \in {"on", "off", "absent"}

\* While the window shows the list it has the semaphore, so that nothing is added to the list it forgets.
ShownAlone == window_drain # 0 => window_L_sem = "window"

\* The program the listener is at waits for its thread, and waits for ever when the thread could not be made.
NewIsConnected ==
  /\ window_listener.at \in {"say", "put", "enter", "count", "start"} => window_listener.new # Nil
  /\ window_listener.at = "accept" => window_listener.new = Nil
  /\ window_listener.new # Nil =>
       window_listener.new \in Clients /\ window_child[window_listener.new].at = "connected"

\* An entry of the table is that of the program the listener starts, or could not start, or of a thread that runs, which have no other.
Owner(i) ==
  \/ window_listener.at \in {"count", "start", "ended"} /\ window_listener.new = window_ConnStrs[i] /\ window_listener.idx = i
  \/ window_child[window_ConnStrs[i]].idx = i /\ window_child[window_ConnStrs[i]].at \in Linked
EntriesOwned ==
  /\ \A i \in Window!Entries : window_ConnStrs[i] # Nil => Owner(i)
  /\ \A c \in Clients : window_child[c].at \in Linked => window_ConnStrs[window_child[c].idx] = c
  /\ window_listener.at \in {"count", "start"} => window_ConnStrs[window_listener.idx] = window_listener.new

\* The count is that of the entries, but for the thread that is about to write what it has read; who is let in finds an entry.
Occupied == {i \in Window!Entries : window_ConnStrs[i] # Nil}
EntriesCounted ==
  /\ \A c \in Clients : window_child[c].at = "count" =>
       window_listener.at # "count" /\ window_child[c].seen = window_NbConns /\ Cardinality(Occupied) = window_NbConns - 1
  /\ \A c, d \in Clients : window_child[c].at = "count" /\ window_child[d].at = "count" => c = d
  /\ window_listener.at = "count" => window_listener.seen = window_NbConns /\ Cardinality(Occupied) = window_NbConns + 1
  /\ ~Window!Counting => Cardinality(Occupied) = window_NbConns
  /\ window_listener.at \in {"say", "put", "enter"} => Cardinality(Occupied) < MaxConns

MessagesInv == MessagesTyped /\ ShownAlone /\ Window!NoMessageLost
TableInv == TableTyped /\ NewIsConnected /\ (~window_raced => EntriesOwned /\ EntriesCounted)
WindowInv == MessagesInv /\ TableInv

-----------------------------------------------------------------------------
\* The table has entries; how many of them are used, and when all are.
LEMMA EntriesFinite ==
  /\ 1 \in Window!Entries /\ IsFiniteSet(Window!Entries) /\ Cardinality(Window!Entries) = MaxConns
  /\ IsFiniteSet(Occupied) /\ Cardinality(Occupied) \in Nat
<1>1. MaxConns \in Nat \ {0}
  BY ServicesAssumption
<1>2. 1 \in 1..MaxConns
  BY <1>1
<1>3. IsFiniteSet(1..MaxConns) /\ Cardinality(1..MaxConns) = MaxConns
  <2>1. 1 <= MaxConns /\ MaxConns - 1 + 1 = MaxConns /\ MaxConns \in Int
    BY <1>1
  <2> QED BY <1>1, <2>1, FS_Interval
<1>4. Window!Entries = 1..MaxConns
  BY DEF Window!Entries
<1>5. Occupied \subseteq Window!Entries
  BY DEF Occupied
<1>6. IsFiniteSet(Occupied)
  BY <1>3, <1>4, <1>5, FS_Subset
<1> QED
  BY <1>2, <1>3, <1>4, <1>6, FS_CardinalityType

LEMMA SomeEntryIsFree ==
  ASSUME Cardinality(Occupied) < MaxConns
  PROVE  Window!FreeEntries # {}
<1>1. SUFFICES ASSUME Window!FreeEntries = {} PROVE FALSE
  OBVIOUS
<1>2. Occupied = Window!Entries
  BY <1>1 DEF Occupied, Window!FreeEntries
<1>3. MaxConns \in Nat
  BY ServicesAssumption
<1> QED
  BY <1>2, <1>3, EntriesFinite

LEMMA FirstFree ==
  ASSUME Window!FreeEntries # {}
  PROVE  Window!Min(Window!FreeEntries) \in Window!FreeEntries
<1>1. Window!FreeEntries \in SUBSET Nat
  BY ServicesAssumption DEF Window!FreeEntries, Window!Entries
<1>2. \E x \in Window!FreeEntries : \A y \in Window!FreeEntries : ~(<<y, x>> \in OpToRel(<, Nat))
  BY <1>1, WFMin, NatLessThanWellFounded, Zenon
<1>3. \E x \in Window!FreeEntries : \A y \in Window!FreeEntries : ~(y < x)
  BY <1>1, <1>2, Zenon DEF OpToRel
<1>4. \E x \in Window!FreeEntries : \A y \in Window!FreeEntries : x <= y
  BY <1>1, <1>3
<1> QED
  BY <1>4 DEF Window!Min

\* The first element of a sequence is the one that RemoveFirst takes out.
LEMMA RemoveHead ==
  ASSUME NEW S, NEW s \in Seq(S), s # << >>
  PROVE  Window!RemoveFirst(s, s[1]) = Tail(s)
<1>1. Len(s) \in Nat \ {0}
  BY EmptySeq
<1> DEFINE I == {i \in 1..Len(s) : s[i] = s[1]}
<1>2. 1 \in I /\ \A y \in I : 1 <= y
  BY <1>1
<1>3. \A x \in I : x <= 1 => x = 1
  BY <1>1
<1> HIDE DEF I
<1>4. Window!Min(I) = 1
  BY <1>2, <1>3 DEF Window!Min
<1>5. Window!SelectInSeq(s, LAMBDA v : v = s[1]) = 1
  BY <1>2, <1>4, Zenon DEF Window!SelectInSeq, I
<1>6. \E i \in 1..Len(s) : s[i] = s[1]
  BY <1>2 DEF I
<1>7. Window!RemoveFirst(s, s[1]) = Window!RemoveAt(s, 1)
  BY <1>5, <1>6, Zenon DEF Window!RemoveFirst
<1>8. Window!RemoveAt(s, 1) = SubSeq(s, 1, 0) \o SubSeq(s, 2, Len(s))
  BY DEF Window!RemoveAt
<1>9. SubSeq(s, 1, 0) = << >> /\ SubSeq(s, 2, Len(s)) = Tail(s)
  BY SubSeqEmpty, TailIsSubSeq
<1>10. Tail(s) \in Seq(S)
  BY HeadTailProperties
<1> QED
  BY <1>7, <1>8, <1>9, <1>10, ConcatEmptySeq

-----------------------------------------------------------------------------
\* What is left of the list from a place on, when a message is put behind it.
LEMMA BehindTheRest ==
  ASSUME NEW S, NEW s \in Seq(S), NEW m \in S
  PROVE  SubSeq(Append(s, m), 1, Len(Append(s, m))) = Append(SubSeq(s, 1, Len(s)), m)
<1>1. Append(s, m) \in Seq(S)
  BY AppendProperties
<1>2. SubSeq(Append(s, m), 1, Len(Append(s, m))) = Append(s, m)
  BY <1>1, SubSeqFull
<1>3. SubSeq(s, 1, Len(s)) = s
  BY SubSeqFull
<1> QED
  BY <1>2, <1>3

LEMMA TakeKeeps ==
  ASSUME MessagesInv, NEW who \in Clients \cup {"listener"}, Window!Take(who),
         UNCHANGED <<window_L_Messages, window_due, window_drain, window_isDisplayed, window_config>>
  PROVE  MessagesInv'
<1>1. window_L_sem = Nil /\ window_L_sem' = who
  BY DEF Window!Take
<1>2. window_drain = 0
  BY <1>1, ServicesAssumption DEF MessagesInv, ShownAlone
<1> QED
  BY <1>1, <1>2 DEF MessagesInv, MessagesTyped, ShownAlone, Window!NoMessageLost

LEMMA PutKeeps ==
  ASSUME MessagesInv, NEW who \in Clients \cup {"listener"}, NEW m \in Messages, Window!PutMessage(who, m),
         UNCHANGED <<window_drain, window_isDisplayed, window_config>>
  PROVE  MessagesInv'
<1>1. /\ window_L_sem = who /\ window_L_sem' = Nil
      /\ window_L_Messages' = Append(window_L_Messages, m) /\ window_due' = Append(window_due, m)
  BY DEF Window!PutMessage
<1>2. window_drain = 0
  BY <1>1, ServicesAssumption DEF MessagesInv, ShownAlone
<1>3. window_L_Messages \in Seq(Messages) /\ window_due \in Seq(Messages)
  BY DEF MessagesInv, MessagesTyped
<1>4. window_L_Messages' \in Seq(Messages) /\ window_due' \in Seq(Messages)
  BY <1>1, <1>3, AppendProperties
<1>5. SubSeq(window_L_Messages, 1, Len(window_L_Messages)) = window_due
  BY <1>2 DEF MessagesInv, Window!NoMessageLost
<1>6. SubSeq(window_L_Messages', 1, Len(window_L_Messages')) = window_due'
  BY <1>1, <1>3, <1>5, BehindTheRest
<1>7. Window!NoMessageLost'
  BY <1>2, <1>6 DEF Window!NoMessageLost
<1>8. window_drain' \in 0..(Len(window_L_Messages') + 1)
  BY <1>2, <1>4, LenProperties
<1> QED
  BY <1>1, <1>2, <1>4, <1>7, <1>8 DEF MessagesInv, MessagesTyped, ShownAlone

LEMMA DrainKeeps ==
  ASSUME MessagesInv, Window!Drain
  PROVE  MessagesInv'
<1>1. /\ window_drain = 0 /\ window_drain' = 1 /\ window_L_sem' = "window"
      /\ UNCHANGED <<window_L_Messages, window_due, window_isDisplayed, window_config>>
  BY DEF Window!Drain
<1>2. 1 \in 0..(Len(window_L_Messages) + 1)
  BY LenProperties DEF MessagesInv, MessagesTyped
<1>3. Window!NoMessageLost'
  BY <1>1 DEF MessagesInv, Window!NoMessageLost
<1> QED
  BY <1>1, <1>2, <1>3 DEF MessagesInv, MessagesTyped, ShownAlone

LEMMA ShowOneKeeps ==
  ASSUME MessagesInv, Window!ShowOne
  PROVE  MessagesInv'
<1> DEFINE M == window_L_Messages
           d == window_drain
<1>1. /\ d \in 1..Len(M) /\ window_due' = Window!RemoveFirst(window_due, M[d]) /\ window_drain' = d + 1
      /\ UNCHANGED <<window_L_Messages, window_L_sem, window_isDisplayed, window_config>>
  BY DEF Window!ShowOne
<1>2. M \in Seq(Messages) /\ window_due \in Seq(Messages) /\ Len(M) \in Nat
  BY LenProperties DEF MessagesInv, MessagesTyped
<1>3. SubSeq(M, d, Len(M)) = window_due
  BY <1>1 DEF MessagesInv, Window!NoMessageLost
<1> HIDE DEF M, d
<1>4. Len(M) \in d..Len(M)
  BY <1>1, <1>2
<1>5. Head(window_due) = M[d] /\ Tail(window_due) = SubSeq(M, d + 1, Len(M))
  BY <1>1, <1>2, <1>3, <1>4, HeadTailOfSubSeq
<1>6. window_due # << >>
  <2>1. Len(SubSeq(M, d, Len(M))) = Len(M) - d + 1
    <3>1. \A i \in d..Len(M) : M[i] \in Messages
      BY <1>1, <1>2
    <3> QED BY <1>1, <1>2, <3>1, SubSeqProperties
  <2>2. Len(window_due) # 0
    BY <1>1, <1>2, <1>3, <2>1
  <2> QED BY <2>2, EmptySeq
<1>7. window_due' = Tail(window_due)
  <2>1. window_due[1] = M[d]
    BY <1>5
  <2> QED BY <1>1, <1>2, <1>6, <2>1, RemoveHead
<1>8. window_due' \in Seq(Messages)
  BY <1>2, <1>6, <1>7, HeadTailProperties
<1>9. window_drain' \in 0..(Len(M) + 1) /\ window_drain' # 0 /\ window_drain # 0
  BY <1>1, <1>2 DEF d
<1>10. Window!NoMessageLost'
  BY <1>1, <1>5, <1>7, <1>9 DEF Window!NoMessageLost, M
<1> QED
  BY <1>1, <1>8, <1>9, <1>10 DEF MessagesInv, MessagesTyped, ShownAlone, M

LEMMA DrainedKeeps ==
  ASSUME MessagesInv, Window!Drained
  PROVE  MessagesInv'
<1>1. /\ window_drain > Len(window_L_Messages) /\ window_drain' = 0 /\ window_L_Messages' = << >> /\ window_L_sem' = Nil
      /\ UNCHANGED <<window_due, window_isDisplayed, window_config>>
  BY DEF Window!Drained, Window!Forgotten
<1>2. Len(window_L_Messages) \in Nat /\ window_drain \in Nat /\ window_drain # 0
  BY <1>1, LenProperties DEF MessagesInv, MessagesTyped
<1>3. SubSeq(window_L_Messages, window_drain, Len(window_L_Messages)) = << >>
  BY <1>1, <1>2, SubSeqEmpty
<1>4. window_due = << >>
  BY <1>2, <1>3 DEF MessagesInv, Window!NoMessageLost
<1>5. SubSeq(window_L_Messages', 1, Len(window_L_Messages')) = << >>
  <2>1. Len(window_L_Messages') = 0 BY <1>1, EmptySeq
  <2> QED BY <2>1, SubSeqEmpty
<1>6. Window!NoMessageLost'
  BY <1>1, <1>4, <1>5 DEF Window!NoMessageLost
<1>7. << >> \in Seq(Messages) /\ 0 \in 0..(Len(window_L_Messages') + 1)
  <2>1. Len(window_L_Messages') = 0 BY <1>1, EmptySeq
  <2> QED BY <2>1, EmptySeq
<1> QED
  BY <1>1, <1>4, <1>6, <1>7 DEF MessagesInv, MessagesTyped, ShownAlone

LEMMA NoMessages ==
  ASSUME window_L_sem = Nil, window_L_Messages = << >>, window_due = << >>, window_drain = 0
  PROVE  /\ ShownAlone /\ Window!NoMessageLost /\ window_drain \in 0..(Len(window_L_Messages) + 1)
         /\ window_L_Messages \in Seq(Messages) /\ window_due \in Seq(Messages)
<1>1. Len(window_L_Messages) = 0
  BY EmptySeq
<1>2. SubSeq(window_L_Messages, 1, Len(window_L_Messages)) = << >>
  BY <1>1, SubSeqEmpty
<1> QED
  BY <1>1, <1>2, EmptySeq DEF ShownAlone, Window!NoMessageLost

-----------------------------------------------------------------------------
\* With no program there the table is empty and nobody has counted.
LEMMA EmptyTable ==
  ASSUME window_ConnStrs = Window!Fresh.ConnStrs, window_NbConns = 0, window_listener = Window!Fresh.listener,
         window_child = Window!Fresh.child, window_raced = FALSE
  PROVE  TableInv
<1>1. /\ window_ConnStrs = [i \in Window!Entries |-> Nil]
      /\ window_listener = [at |-> "accept", new |-> Nil, idx |-> 1, seen |-> 0]
      /\ window_child = [c \in Clients |-> Window!Away]
  BY DEF Window!Fresh
<1>2. 1 \in Window!Entries
  BY EntriesFinite
<1>3. window_listener \in Listeners /\ window_listener.at = "accept" /\ window_listener.new = Nil
  BY <1>1, <1>2 DEF Listeners, ListenerPlaces
<1>4. \A c \in Clients : window_child[c] \in Children /\ window_child[c].at = "away"
  BY <1>1, <1>2 DEF Window!Away, Children, ChildPlaces
<1>5. TableTyped
  <2>1. window_ConnStrs \in [Window!Entries -> Clients \cup {Nil}]
    BY <1>1
  <2>2. window_child \in [Clients -> Children]
    BY <1>1, <1>4
  <2>3. window_raced \in BOOLEAN
    OBVIOUS
  <2> QED BY <1>3, <2>1, <2>2, <2>3 DEF TableTyped
<1>6. Occupied = {}
  BY <1>1 DEF Occupied
<1>7. Cardinality(Occupied) = 0
  BY <1>6, FS_EmptySet
<1>8. NewIsConnected
  BY <1>3 DEF NewIsConnected
<1>9. EntriesOwned
  BY <1>1, <1>3, <1>4 DEF EntriesOwned, Linked
<1>10. EntriesCounted
  BY <1>3, <1>4, <1>7 DEF EntriesCounted
<1> QED
  BY <1>5, <1>8, <1>9, <1>10 DEF TableInv

\* The table, the count and the places that matter to them stay.
LEMMA TableStays ==
  ASSUME TableInv, UNCHANGED <<window_ConnStrs, window_NbConns, window_listener, window_child, window_raced>>
  PROVE  TableInv'
<1>1. Occupied' = Occupied
  BY DEF Occupied
<1>2. TableTyped' /\ NewIsConnected'
  BY DEF TableInv, TableTyped, NewIsConnected
<1>3. EntriesOwned => EntriesOwned'
  BY DEF EntriesOwned, Owner
<1>4. EntriesCounted => EntriesCounted'
  BY <1>1 DEF EntriesCounted, Window!Counting
<1> QED
  BY <1>2, <1>3, <1>4 DEF TableInv

\* A thread goes to another place, and what it remembers of the table stays.
LEMMA StepOfChild ==
  ASSUME window_child \in [Clients -> Children], NEW c \in Clients, NEW place \in ChildPlaces, NEW n \in Int,
         window_child' = [window_child EXCEPT ![c] = [window_child[c] EXCEPT !.at = place, !.n = n]]
  PROVE  /\ window_child' \in [Clients -> Children]
         /\ window_child'[c].at = place /\ window_child'[c].idx = window_child[c].idx
         /\ window_child'[c].seen = window_child[c].seen
         /\ \A d \in Clients : d # c => window_child'[d] = window_child[d]
<1>1. window_child[c] \in Children
  OBVIOUS
<1> DEFINE r == [window_child[c] EXCEPT !.at = place, !.n = n]
<1>2. r \in Children /\ r.at = place /\ r.idx = window_child[c].idx /\ r.seen = window_child[c].seen
  BY <1>1 DEF Children
<1> HIDE DEF r
<1>3. window_child' = [window_child EXCEPT ![c] = r]
  BY DEF r
<1> QED
  BY <1>2, <1>3

LEMMA LinkedStaysLinked ==
  ASSUME TableInv, NEW c \in Clients, window_child[c].at \in Linked, NEW place \in Linked, NEW n \in Int,
         window_child' = [window_child EXCEPT ![c] = [window_child[c] EXCEPT !.at = place, !.n = n]],
         UNCHANGED <<window_ConnStrs, window_NbConns, window_listener, window_raced>>
  PROVE  TableInv'
<1>1. window_child \in [Clients -> Children]
  BY DEF TableInv, TableTyped
<1>2. place \in ChildPlaces
  BY DEF ChildPlaces
<1>3. /\ window_child' \in [Clients -> Children]
      /\ window_child'[c].at = place /\ window_child'[c].idx = window_child[c].idx
      /\ \A d \in Clients : d # c => window_child'[d] = window_child[d]
  BY <1>1, <1>2, StepOfChild
<1>4. place # "connected" /\ place # "count" /\ window_child[c].at # "connected" /\ window_child[c].at # "count"
  BY DEF Linked
<1>5. Occupied' = Occupied
  BY DEF Occupied
<1>6. TableTyped'
  BY <1>3 DEF TableInv, TableTyped
<1>7. NewIsConnected'
  BY <1>3, <1>4 DEF TableInv, NewIsConnected
<1>8. ASSUME EntriesOwned PROVE EntriesOwned'
  <2>1. \A d \in Clients : window_child'[d].idx = window_child[d].idx /\ (window_child'[d].at \in Linked <=> window_child[d].at \in Linked)
    BY <1>3
  <2>2. \A i \in Window!Entries : window_ConnStrs[i] # Nil => window_ConnStrs[i] \in Clients
    BY DEF TableInv, TableTyped
  <2>3. \A i \in Window!Entries : window_ConnStrs[i] # Nil => (Owner(i) => Owner(i)')
    BY <2>1, <2>2 DEF Owner
  <2> QED BY <1>8, <2>1, <2>3 DEF EntriesOwned
<1>9. ASSUME EntriesCounted PROVE EntriesCounted'
  <2>1. \A d \in Clients : (window_child'[d].at = "count" <=> window_child[d].at = "count")
                           /\ (window_child[d].at = "count" => window_child'[d] = window_child[d])
    BY <1>3, <1>4
  <2>2. Window!Counting' = Window!Counting
    BY <2>1 DEF Window!Counting
  <2> QED BY <1>5, <1>9, <2>1, <2>2 DEF EntriesCounted
<1> QED
  BY <1>6, <1>7, <1>8, <1>9 DEF TableInv

-----------------------------------------------------------------------------
LEMMA AcceptKeeps ==
  ASSUME TableInv, Window!Accept
  PROVE  TableInv'
<1>1. PICK c \in Clients :
        /\ window_child[c].at = "away" /\ window_child' = [window_child EXCEPT ![c].at = "connected"]
        /\ window_listener' = IF window_NbConns >= MaxConns THEN [window_listener EXCEPT !.at = "ended"]
                              ELSE [window_listener EXCEPT !.at = "say", !.new = c]
  BY DEF Window!Accept
<1>2. window_listener.at = "accept" /\ UNCHANGED <<window_ConnStrs, window_NbConns, window_raced>>
  BY DEF Window!Accept
<1>3. window_child \in [Clients -> Children] /\ window_listener \in Listeners /\ window_NbConns \in Int
  BY DEF TableInv, TableTyped
<1>4. window_child' = [window_child EXCEPT ![c] = [window_child[c] EXCEPT !.at = "connected", !.n = window_child[c].n]]
  <2>1. window_child[c] \in Children BY <1>3
  <2>2. [window_child[c] EXCEPT !.at = "connected"] = [window_child[c] EXCEPT !.at = "connected", !.n = window_child[c].n]
    BY <2>1 DEF Children
  <2> QED BY <1>1, <2>2
<1>5. /\ window_child' \in [Clients -> Children]
      /\ window_child'[c].at = "connected" /\ window_child'[c].idx = window_child[c].idx
      /\ \A d \in Clients : d # c => window_child'[d] = window_child[d]
  <2>1. "connected" \in ChildPlaces /\ window_child[c].n \in Int
    BY <1>3 DEF ChildPlaces, Children
  <2> QED BY <1>3, <1>4, <2>1, StepOfChild
<1>6. /\ window_listener' \in Listeners
      /\ \/ window_listener'.at = "ended" /\ window_NbConns >= MaxConns
         \/ window_listener'.at = "say" /\ window_listener'.new = c /\ ~(window_NbConns >= MaxConns)
  BY <1>1, <1>3 DEF Listeners, ListenerPlaces
<1>7. Occupied' = Occupied
  BY <1>2 DEF Occupied
<1>8. TableTyped'
  BY <1>2, <1>5, <1>6 DEF TableInv, TableTyped
<1>9. NewIsConnected'
  <2>1. window_listener.new = Nil /\ Nil \notin Clients
    BY <1>2, ServicesAssumption DEF TableInv, NewIsConnected
  <2>2. window_listener'.at = "ended" => window_listener'.new = Nil
    BY <1>1, <1>3, <1>6, <2>1 DEF Listeners
  <2> QED BY <1>5, <1>6, <2>1, <2>2 DEF NewIsConnected
<1>10. ASSUME EntriesOwned PROVE EntriesOwned'
  <2>1. \A d \in Clients : (window_child'[d].at \in Linked <=> window_child[d].at \in Linked)
                           /\ (window_child[d].at \in Linked => window_child'[d].idx = window_child[d].idx)
    BY <1>1, <1>5 DEF Linked
  <2>2. \A i \in Window!Entries : window_ConnStrs[i] # Nil => window_ConnStrs[i] \in Clients
    BY DEF TableInv, TableTyped
  <2>3. \A i \in Window!Entries : window_ConnStrs[i] # Nil => (Owner(i) => Owner(i)')
    BY <1>2, <2>1, <2>2 DEF Owner
  <2> QED BY <1>2, <1>6, <1>10, <2>1, <2>3 DEF EntriesOwned
<1>11. ASSUME EntriesCounted PROVE EntriesCounted'
  <2>1. \A d \in Clients : (window_child'[d].at = "count" <=> window_child[d].at = "count")
                           /\ (window_child[d].at = "count" => window_child'[d] = window_child[d])
    BY <1>1, <1>5
  <2>2. ~Window!Counting' <=> ~Window!Counting
    BY <1>2, <1>6, <2>1 DEF Window!Counting
  <2>3. Cardinality(Occupied) \in Nat /\ MaxConns \in Nat
    BY EntriesFinite, ServicesAssumption
  <2>4. Cardinality(Occupied) = window_NbConns \/ Cardinality(Occupied) = window_NbConns - 1
    BY <1>2, <1>11 DEF EntriesCounted, Window!Counting
  <2>5. window_listener'.at = "say" => Cardinality(Occupied) < MaxConns
    BY <1>3, <1>6, <2>3, <2>4
  <2> QED BY <1>2, <1>6, <1>7, <1>11, <2>1, <2>2, <2>5 DEF EntriesCounted
<1> QED
  BY <1>2, <1>8, <1>9, <1>10, <1>11 DEF TableInv

\* The listener goes on between two places at which it has a program and no entry.
LEMMA ListenerGoesOn ==
  ASSUME TableInv, window_listener.at \in {"say", "put"}, NEW place \in {"put", "enter"},
         window_listener' = [window_listener EXCEPT !.at = place],
         UNCHANGED <<window_ConnStrs, window_NbConns, window_child, window_raced>>
  PROVE  TableInv'
<1>1. window_listener \in Listeners
  BY DEF TableInv, TableTyped
<1>2. /\ window_listener' \in Listeners /\ window_listener'.at = place /\ window_listener'.new = window_listener.new
  BY <1>1 DEF Listeners, ListenerPlaces
<1>3. Occupied' = Occupied
  BY DEF Occupied
<1>4. TableTyped' /\ NewIsConnected'
  BY <1>2 DEF TableInv, TableTyped, NewIsConnected
<1>5. ASSUME EntriesOwned PROVE EntriesOwned'
  <2>1. \A i \in Window!Entries : Owner(i) => Owner(i)'
    BY DEF Owner
  <2> QED BY <1>2, <1>5, <2>1 DEF EntriesOwned
<1>6. EntriesCounted => EntriesCounted'
  BY <1>2, <1>3 DEF EntriesCounted, Window!Counting
<1> QED
  BY <1>4, <1>5, <1>6 DEF TableInv

LEMMA EnterKeeps ==
  ASSUME TableInv, Window!Enter
  PROVE  TableInv'
<1>1. window_listener.at = "enter" /\ UNCHANGED <<window_NbConns, window_child>>
  BY DEF Window!Enter
<1>2. window_listener \in Listeners /\ window_NbConns \in Int /\ window_raced \in BOOLEAN
      /\ window_ConnStrs \in [Window!Entries -> Clients \cup {Nil}]
  BY DEF TableInv, TableTyped
<1>3. window_listener.new \in Clients /\ window_child[window_listener.new].at = "connected"
  BY <1>1 DEF TableInv, NewIsConnected
<1>4. CASE Window!FreeEntries = {}
  <2>1. window_listener' = [window_listener EXCEPT !.at = "start", !.idx = 1] /\ UNCHANGED <<window_ConnStrs, window_raced>>
    BY <1>4 DEF Window!Enter
  <2>2. window_listener' \in Listeners /\ window_listener'.new = window_listener.new
    BY <1>2, <2>1, EntriesFinite DEF Listeners, ListenerPlaces
  <2>3. TableTyped' /\ NewIsConnected'
    BY <1>1, <1>3, <2>1, <2>2 DEF TableInv, TableTyped, NewIsConnected
  <2>4. ASSUME EntriesCounted PROVE FALSE
    <3>1. Cardinality(Occupied) < MaxConns
      BY <1>1, <2>4 DEF EntriesCounted
    <3> QED BY <1>4, <3>1, SomeEntryIsFree
  <2> QED BY <2>1, <2>3, <2>4 DEF TableInv
<1>5. CASE Window!FreeEntries # {}
  <2> DEFINE new == window_listener.new
  <2>1. PICK j \in Window!Entries : j = Window!Min(Window!FreeEntries) /\ window_ConnStrs[j] = Nil
    BY <1>5, FirstFree DEF Window!FreeEntries
  <2>2. /\ window_ConnStrs' = [window_ConnStrs EXCEPT ![j] = new]
        /\ window_listener' = [window_listener EXCEPT !.at = "count", !.idx = j, !.seen = window_NbConns]
        /\ window_raced' = (window_raced \/ Window!Counting)
    BY <1>5, <2>1 DEF Window!Enter
  <2>3. /\ window_listener' \in Listeners /\ window_listener'.at = "count" /\ window_listener'.idx = j
        /\ window_listener'.seen = window_NbConns /\ window_listener'.new = new
    BY <1>2, <2>1, <2>2 DEF Listeners, ListenerPlaces
  <2> HIDE DEF new
  <2>4. /\ window_ConnStrs' \in [Window!Entries -> Clients \cup {Nil}] /\ window_ConnStrs'[j] = new
        /\ \A i \in Window!Entries : i # j => window_ConnStrs'[i] = window_ConnStrs[i]
    BY <1>2, <1>3, <2>1, <2>2 DEF new
  <2>5. window_raced' \in BOOLEAN /\ (~window_raced' => ~window_raced /\ ~Window!Counting)
    BY <1>2, <2>2
  <2>6. TableTyped'
    BY <1>1, <2>3, <2>4, <2>5 DEF TableInv, TableTyped
  <2>7. NewIsConnected'
    BY <1>1, <1>3, <2>3, ServicesAssumption DEF NewIsConnected, new
  <2>8. Nil \notin Clients
    BY ServicesAssumption
  <2>9. ASSUME EntriesOwned PROVE EntriesOwned'
    <3>1. \A i \in Window!Entries : i # j /\ window_ConnStrs[i] # Nil => Owner(i)'
      <4>1. \A i \in Window!Entries : window_ConnStrs[i] # Nil =>
              window_child[window_ConnStrs[i]].idx = i /\ window_child[window_ConnStrs[i]].at \in Linked
        BY <1>1, <2>9 DEF EntriesOwned, Owner
      <4> QED BY <1>1, <2>4, <4>1 DEF Owner
    <3>2. Owner(j)'
      BY <2>3, <2>4 DEF Owner
    <3>3. \A c \in Clients : window_child[c].at \in Linked => window_child[c].idx # j
      <4>1. \A c \in Clients : window_child[c].at \in Linked => window_ConnStrs[window_child[c].idx] = c
        BY <2>9 DEF EntriesOwned
      <4> QED BY <2>1, <2>8, <4>1
    <3>4. \A c \in Clients : window_child[c].at \in Linked => window_child[c].idx \in Window!Entries
      BY DEF TableInv, TableTyped, Children
    <3>5. \A c \in Clients : window_child'[c].at \in Linked => window_ConnStrs'[window_child'[c].idx] = c
      BY <1>1, <2>4, <2>9, <3>3, <3>4 DEF EntriesOwned
    <3> QED BY <2>3, <2>4, <3>1, <3>2, <3>5 DEF EntriesOwned
  <2>10. ASSUME EntriesCounted, ~Window!Counting PROVE EntriesCounted'
    <3>1. Occupied' = Occupied \cup {j} /\ j \notin Occupied
      BY <1>3, <2>1, <2>4, <2>8 DEF Occupied, new
    <3>2. Cardinality(Occupied') = Cardinality(Occupied) + 1
      BY <3>1, EntriesFinite, FS_AddElement
    <3>3. Cardinality(Occupied) = window_NbConns
      BY <2>10 DEF EntriesCounted
    <3>4. \A c \in Clients : window_child'[c].at # "count"
      BY <1>1, <2>10 DEF Window!Counting
    <3>5. Window!Counting'
      BY <2>3 DEF Window!Counting
    <3> QED BY <1>1, <2>3, <3>2, <3>3, <3>4, <3>5 DEF EntriesCounted
  <2> QED BY <2>5, <2>6, <2>7, <2>9, <2>10 DEF TableInv
<1> QED
  BY <1>4, <1>5

LEMMA CountUpKeeps ==
  ASSUME TableInv, Window!CountUp
  PROVE  TableInv'
<1>1. /\ window_listener.at = "count" /\ window_NbConns' = window_listener.seen + 1
      /\ window_listener' = [window_listener EXCEPT !.at = "start"]
      /\ UNCHANGED <<window_ConnStrs, window_child, window_raced>>
  BY DEF Window!CountUp
<1>2. window_listener \in Listeners
  BY DEF TableInv, TableTyped
<1>3. /\ window_listener' \in Listeners /\ window_listener'.at = "start" /\ window_listener'.new = window_listener.new
      /\ window_listener'.idx = window_listener.idx
  BY <1>1, <1>2 DEF Listeners, ListenerPlaces
<1>4. window_listener.seen \in Int /\ window_listener.seen + 1 \in Int
  BY <1>2 DEF Listeners
<1>5. Occupied' = Occupied
  BY <1>1 DEF Occupied
<1>6. TableTyped' /\ NewIsConnected'
  BY <1>1, <1>3, <1>4 DEF TableInv, TableTyped, NewIsConnected
<1>7. ASSUME EntriesOwned PROVE EntriesOwned'
  <2>1. \A i \in Window!Entries : Owner(i) => Owner(i)'
    BY <1>1, <1>3 DEF Owner
  <2> QED BY <1>1, <1>3, <1>7, <2>1 DEF EntriesOwned
<1>8. ASSUME EntriesCounted PROVE EntriesCounted'
  <2>1. \A c \in Clients : window_child[c].at # "count"
    BY <1>1, <1>8 DEF EntriesCounted
  <2>2. Cardinality(Occupied') = window_NbConns'
    BY <1>1, <1>4, <1>5, <1>8 DEF EntriesCounted
  <2> QED BY <1>1, <1>3, <2>1, <2>2 DEF EntriesCounted
<1> QED
  BY <1>1, <1>6, <1>7, <1>8 DEF TableInv

LEMMA StartFailsKeeps ==
  ASSUME TableInv, Window!StartFails
  PROVE  TableInv'
<1>1. /\ window_listener.at = "start" /\ window_listener' = [window_listener EXCEPT !.at = "ended"]
      /\ UNCHANGED <<window_ConnStrs, window_NbConns, window_child, window_raced>>
  BY DEF Window!StartFails
<1>2. /\ window_listener' \in Listeners /\ window_listener'.at = "ended"
      /\ window_listener'.new = window_listener.new /\ window_listener'.idx = window_listener.idx
  BY <1>1 DEF TableInv, TableTyped, Listeners, ListenerPlaces
<1>3. Occupied' = Occupied
  BY <1>1 DEF Occupied
<1>4. TableTyped' /\ NewIsConnected'
  BY <1>1, <1>2 DEF TableInv, TableTyped, NewIsConnected
<1>5. EntriesOwned => EntriesOwned'
  BY <1>1, <1>2 DEF EntriesOwned, Owner
<1>6. EntriesCounted => EntriesCounted'
  BY <1>1, <1>2, <1>3 DEF EntriesCounted, Window!Counting
<1> QED
  BY <1>1, <1>4, <1>5, <1>6 DEF TableInv

LEMMA StartChildKeeps ==
  ASSUME TableInv, Window!StartChild
  PROVE  TableInv'
<1> DEFINE new == window_listener.new
           r == [Window!Away EXCEPT !.at = "receive", !.idx = window_listener.idx]
<1>1. /\ window_listener.at = "start" /\ window_child' = [window_child EXCEPT ![new] = r]
      /\ window_listener' = [window_listener EXCEPT !.at = "accept", !.new = Nil, !.idx = 1, !.seen = 0]
      /\ UNCHANGED <<window_ConnStrs, window_NbConns, window_raced>>
  BY DEF Window!StartChild
<1>2. new \in Clients /\ window_child[new].at = "connected"
  BY <1>1 DEF TableInv, NewIsConnected
<1>3. window_listener \in Listeners /\ window_child \in [Clients -> Children]
  BY DEF TableInv, TableTyped
<1>4. r \in Children /\ r.at = "receive" /\ r.idx = window_listener.idx
  <2>1. Window!Away \in Children
    BY EntriesFinite DEF Window!Away, Children, ChildPlaces
  <2>2. window_listener.idx \in Window!Entries /\ "receive" \in ChildPlaces
    BY <1>3 DEF Listeners, ChildPlaces, Linked
  <2> QED BY <2>1, <2>2 DEF Children
<1> HIDE DEF r
<1>5. window_listener' \in Listeners /\ window_listener'.at = "accept"
  <2>1. window_listener' = [at |-> "accept", new |-> Nil, idx |-> 1, seen |-> 0]
    BY <1>1, <1>3 DEF Listeners
  <2> QED BY <2>1, EntriesFinite DEF Listeners, ListenerPlaces
<1> HIDE DEF new
<1>6. /\ window_child' \in [Clients -> Children] /\ window_child'[new] = r
      /\ \A c \in Clients : c # new => window_child'[c] = window_child[c]
  BY <1>1, <1>2, <1>3, <1>4
<1>7. Occupied' = Occupied
  BY <1>1 DEF Occupied
<1>8. TableTyped' /\ NewIsConnected'
  BY <1>1, <1>5, <1>6 DEF TableInv, TableTyped, NewIsConnected
<1>9. ASSUME EntriesOwned PROVE EntriesOwned'
  <2>1. ASSUME NEW i \in Window!Entries, window_ConnStrs[i] # Nil PROVE Owner(i)'
    <3>1. Owner(i)
      BY <1>9, <2>1 DEF EntriesOwned
    <3>2. window_ConnStrs[i] \in Clients
      BY <2>1 DEF TableInv, TableTyped
    <3>3. CASE new = window_ConnStrs[i]
      BY <1>1, <1>2, <1>4, <1>6, <3>1, <3>3 DEF Owner, Linked, new
    <3>4. CASE new # window_ConnStrs[i]
      BY <1>1, <1>6, <3>1, <3>2, <3>4 DEF Owner, new
    <3> QED BY <3>3, <3>4
  <2>2. window_ConnStrs[window_listener.idx] = new
    BY <1>1, <1>9 DEF EntriesOwned, new
  <2>3. \A c \in Clients : window_child'[c].at \in Linked => window_ConnStrs'[window_child'[c].idx] = c
    BY <1>1, <1>4, <1>6, <1>9, <2>2 DEF EntriesOwned
  <2> QED BY <1>1, <1>5, <2>1, <2>3 DEF EntriesOwned
<1>10. ASSUME EntriesCounted PROVE EntriesCounted'
  <2>1. \A c \in Clients : (window_child'[c].at = "count" <=> window_child[c].at = "count")
                           /\ (window_child[c].at = "count" => window_child'[c] = window_child[c])
    BY <1>2, <1>4, <1>6
  <2>2. ~Window!Counting' <=> ~Window!Counting
    BY <1>1, <1>5, <2>1 DEF Window!Counting
  <2> QED BY <1>1, <1>5, <1>7, <1>10, <2>1, <2>2 DEF EntriesCounted
<1> QED
  BY <1>1, <1>8, <1>9, <1>10 DEF TableInv

LEMMA RemoveConnectKeeps ==
  ASSUME TableInv, NEW c \in Clients, Window!RemoveConnect(c)
  PROVE  TableInv'
<1>1. PICK j \in Window!Entries : j = window_child[c].idx
  BY DEF TableInv, TableTyped, Children
<1> DEFINE r == [window_child[c] EXCEPT !.at = "count", !.seen = window_NbConns]
<1>2. /\ window_child[c].at = "remove" /\ window_ConnStrs' = [window_ConnStrs EXCEPT ![j] = Nil]
      /\ window_raced' = (window_raced \/ Window!Counting) /\ UNCHANGED <<window_NbConns, window_listener>>
  BY <1>1 DEF Window!RemoveConnect, Window!Vacated
<1>3. /\ window_child \in [Clients -> Children] /\ window_listener \in Listeners /\ window_NbConns \in Int /\ window_raced \in BOOLEAN
      /\ window_ConnStrs \in [Window!Entries -> Clients \cup {Nil}]
  BY DEF TableInv, TableTyped
<1>4. window_child' = [window_child EXCEPT ![c] = r]
  BY <1>3 DEF Window!RemoveConnect
<1>5. r \in Children /\ r.at = "count" /\ r.seen = window_NbConns
  <2>1. window_child[c] \in Children /\ "count" \in ChildPlaces
    BY <1>3 DEF ChildPlaces
  <2> QED BY <1>3, <2>1 DEF Children
<1> HIDE DEF r
<1>6. /\ window_child' \in [Clients -> Children] /\ window_child'[c] = r
      /\ \A d \in Clients : d # c => window_child'[d] = window_child[d]
  BY <1>3, <1>4, <1>5
<1>7. /\ window_ConnStrs' \in [Window!Entries -> Clients \cup {Nil}] /\ window_ConnStrs'[j] = Nil
      /\ \A i \in Window!Entries : i # j => window_ConnStrs'[i] = window_ConnStrs[i]
  BY <1>2, <1>3
<1>8. window_raced' \in BOOLEAN /\ (~window_raced' => ~window_raced /\ ~Window!Counting)
  BY <1>2, <1>3
<1>9. TableTyped'
  BY <1>2, <1>6, <1>7, <1>8 DEF TableInv, TableTyped
<1>10. NewIsConnected'
  BY <1>2, <1>6 DEF TableInv, NewIsConnected
<1>11. ASSUME EntriesOwned PROVE EntriesOwned' /\ window_ConnStrs[j] = c
  <2>1. window_ConnStrs[j] = c
    BY <1>1, <1>2, <1>11 DEF EntriesOwned, Linked
  <2>2. \A i \in Window!Entries : i # j => window_ConnStrs[i] # c
    <3>1. ASSUME NEW i \in Window!Entries, window_ConnStrs[i] = c PROVE i = j
      <4>1. Owner(i)
        BY <1>11, <3>1, ServicesAssumption DEF EntriesOwned
      <4>2. window_listener.new # c
        BY <1>2, ServicesAssumption DEF TableInv, NewIsConnected
      <4> QED BY <1>1, <3>1, <4>1, <4>2 DEF Owner
    <3> QED BY <3>1
  <2>3. ASSUME NEW i \in Window!Entries, window_ConnStrs'[i] # Nil PROVE Owner(i)'
    <3>1. i # j /\ window_ConnStrs'[i] = window_ConnStrs[i] /\ window_ConnStrs[i] # c
      BY <1>7, <2>2, <2>3
    <3>2. Owner(i) /\ window_ConnStrs[i] \in Clients
      BY <1>3, <1>11, <2>3, <3>1 DEF EntriesOwned
    <3> QED BY <1>2, <1>6, <3>1, <3>2 DEF Owner
  <2>4. ASSUME NEW d \in Clients, window_child'[d].at \in Linked PROVE window_ConnStrs'[window_child'[d].idx] = d
    <3>1. d # c /\ window_child'[d] = window_child[d]
      BY <1>5, <1>6, <2>4 DEF Linked
    <3>2. window_ConnStrs[window_child[d].idx] = d /\ window_child[d].idx \in Window!Entries
      BY <1>3, <1>11, <2>4, <3>1 DEF EntriesOwned, Children
    <3>3. window_child[d].idx # j
      BY <2>1, <3>1, <3>2
    <3> QED BY <1>7, <3>1, <3>2, <3>3
  <2>5. ASSUME window_listener'.at \in {"count", "start"} PROVE window_ConnStrs'[window_listener'.idx] = window_listener'.new
    <3>1. window_ConnStrs[window_listener.idx] = window_listener.new /\ window_listener.idx \in Window!Entries
      BY <1>2, <1>3, <1>11, <2>5 DEF EntriesOwned, Listeners
    <3>2. window_listener.new # c
      BY <1>2, <2>5 DEF TableInv, NewIsConnected
    <3> QED BY <1>2, <1>7, <2>1, <3>1, <3>2
  <2> QED BY <2>1, <2>3, <2>4, <2>5 DEF EntriesOwned
<1>12. ASSUME EntriesCounted, ~Window!Counting, window_ConnStrs[j] = c PROVE EntriesCounted'
  <2>1. Occupied' = Occupied \ {j} /\ j \in Occupied
    BY <1>7, <1>12, ServicesAssumption DEF Occupied
  <2>2. Cardinality(Occupied') = Cardinality(Occupied) - 1
    BY <2>1, EntriesFinite, FS_RemoveElement
  <2>3. Cardinality(Occupied) = window_NbConns
    BY <1>12 DEF EntriesCounted
  <2>4. \A d \in Clients : window_child'[d].at = "count" <=> d = c
    BY <1>5, <1>6, <1>12 DEF Window!Counting
  <2>5. Window!Counting' /\ window_listener.at # "count"
    BY <1>12, <2>4 DEF Window!Counting
  <2>6. window_listener.at \in {"say", "put", "enter"} => Cardinality(Occupied') < MaxConns
    <3>1. Cardinality(Occupied) \in Nat /\ MaxConns \in Nat
      BY EntriesFinite, ServicesAssumption
    <3>2. window_listener.at \in {"say", "put", "enter"} => Cardinality(Occupied) < MaxConns
      BY <1>12 DEF EntriesCounted
    <3> QED BY <2>2, <3>1, <3>2
  <2> QED BY <1>2, <1>5, <1>6, <2>2, <2>3, <2>4, <2>5, <2>6 DEF EntriesCounted
<1> QED
  BY <1>8, <1>9, <1>10, <1>11, <1>12 DEF TableInv

LEMMA CountDownKeeps ==
  ASSUME TableInv, NEW c \in Clients, Window!CountDown(c)
  PROVE  TableInv'
<1>1. /\ window_child[c].at = "count" /\ window_NbConns' = window_child[c].seen - 1
      /\ window_child' = [window_child EXCEPT ![c].at = "ended"]
      /\ UNCHANGED <<window_ConnStrs, window_listener, window_raced>>
  BY DEF Window!CountDown, Window!Step
<1>2. window_child \in [Clients -> Children]
  BY DEF TableInv, TableTyped
<1>3. window_child' = [window_child EXCEPT ![c] = [window_child[c] EXCEPT !.at = "ended", !.n = window_child[c].n]]
  <2>1. window_child[c] \in Children BY <1>2
  <2>2. [window_child[c] EXCEPT !.at = "ended"] = [window_child[c] EXCEPT !.at = "ended", !.n = window_child[c].n]
    BY <2>1 DEF Children
  <2> QED BY <1>1, <2>2
<1>4. /\ window_child' \in [Clients -> Children]
      /\ window_child'[c].at = "ended" /\ window_child'[c].idx = window_child[c].idx
      /\ \A d \in Clients : d # c => window_child'[d] = window_child[d]
  <2>1. "ended" \in ChildPlaces /\ window_child[c].n \in Int
    BY <1>2 DEF ChildPlaces, Children
  <2> QED BY <1>2, <1>3, <2>1, StepOfChild
<1>5. Occupied' = Occupied
  BY <1>1 DEF Occupied
<1>6. window_child[c].seen - 1 \in Int
  BY <1>2 DEF Children
<1>7. TableTyped' /\ NewIsConnected'
  BY <1>1, <1>4, <1>6 DEF TableInv, TableTyped, NewIsConnected
<1>8. ASSUME EntriesOwned PROVE EntriesOwned'
  <2>1. \A d \in Clients : (window_child'[d].at \in Linked <=> window_child[d].at \in Linked)
                           /\ window_child'[d].idx = window_child[d].idx
    BY <1>1, <1>4 DEF Linked
  <2>2. \A i \in Window!Entries : window_ConnStrs[i] # Nil => window_ConnStrs[i] \in Clients
    BY DEF TableInv, TableTyped
  <2>3. \A i \in Window!Entries : window_ConnStrs[i] # Nil => (Owner(i) => Owner(i)')
    BY <1>1, <2>1, <2>2 DEF Owner
  <2> QED BY <1>1, <1>8, <2>1, <2>3 DEF EntriesOwned
<1>9. ASSUME EntriesCounted PROVE EntriesCounted'
  <2>1. /\ window_listener.at # "count" /\ window_child[c].seen = window_NbConns
        /\ Cardinality(Occupied) = window_NbConns - 1
    BY <1>1, <1>9 DEF EntriesCounted
  <2>2. \A d \in Clients : window_child'[d].at # "count"
    BY <1>1, <1>4, <1>9 DEF EntriesCounted
  <2> QED BY <1>1, <1>5, <1>9, <2>1, <2>2 DEF EntriesCounted
<1> QED
  BY <1>1, <1>7, <1>8, <1>9 DEF TableInv

-----------------------------------------------------------------------------
LEMMA WindowInitInv ==
  ASSUME Window!Init
  PROVE  WindowInv
<1>1. TableInv
  BY EmptyTable DEF Window!Init
<1>2. MessagesInv
  BY NoMessages DEF Window!Init, MessagesInv, MessagesTyped
<1> QED
  BY <1>1, <1>2 DEF WindowInv

\* A thread at the same place for the others: the messages stay, or the semaphore is taken, or a message put.
LEMMA ChildStepKeeps ==
  ASSUME WindowInv, NEW c \in Clients,
         Window!Receive(c) \/ Window!Hangup(c) \/ Window!ChildTake(c) \/ Window!ChildPut(c)
  PROVE  WindowInv'
<1>1. UNCHANGED <<window_ConnStrs, window_NbConns, window_listener, window_raced>>
  BY DEF Window!Receive, Window!Hangup, Window!ChildTake, Window!ChildPut
<1>2. window_child \in [Clients -> Children] /\ window_child[c] \in Children
  BY DEF WindowInv, TableInv, TableTyped
<1>3. /\ window_child[c].n \in Int /\ window_child[c].n + 1 \in Int
      /\ \A place \in Linked : [window_child[c] EXCEPT !.at = place] = [window_child[c] EXCEPT !.at = place, !.n = window_child[c].n]
  <2>1. window_child[c].n \in Int /\ window_child[c].n + 1 \in Int
    BY <1>2 DEF Children
  <2>2. ASSUME NEW place \in Linked
        PROVE  [window_child[c] EXCEPT !.at = place] = [window_child[c] EXCEPT !.at = place, !.n = window_child[c].n]
    BY <1>2 DEF Children
  <2> QED BY <2>1, <2>2
<1>4. \A place \in Linked : [window_child EXCEPT ![c].at = place] = [window_child EXCEPT ![c] = [window_child[c] EXCEPT !.at = place, !.n = window_child[c].n]]
  BY <1>2, <1>3
<1>5. /\ window_child[c].at \in Linked
      /\ \E place \in Linked, n \in Int : window_child' = [window_child EXCEPT ![c] = [window_child[c] EXCEPT !.at = place, !.n = n]]
  <2>1. CASE Window!Receive(c)
    <3>1. PICK place \in {"say", "receive"} : window_child' = [window_child EXCEPT ![c].n = @ + 1, ![c].at = place]
      BY <2>1 DEF Window!Receive
    <3>2. window_child' = [window_child EXCEPT ![c] = [window_child[c] EXCEPT !.at = place, !.n = window_child[c].n + 1]]
      BY <1>2, <3>1 DEF Children
    <3>3. place \in Linked /\ window_child[c].at \in Linked
      BY <2>1 DEF Window!Receive, Linked
    <3> QED BY <1>3, <3>2, <3>3
  <2>2. CASE Window!Hangup(c)
    BY <1>3, <1>4, <2>2 DEF Window!Hangup, Window!Step, Linked
  <2>3. CASE Window!ChildTake(c)
    <3>1. PICK place \in Linked : window_child' = [window_child EXCEPT ![c].at = place]
      BY <2>3 DEF Window!ChildTake, Window!Step, Linked
    <3>2. window_child[c].at \in Linked
      BY <2>3 DEF Window!ChildTake, Linked
    <3>3. window_child' = [window_child EXCEPT ![c] = [window_child[c] EXCEPT !.at = place, !.n = window_child[c].n]]
      BY <1>4, <3>1, Zenon
    <3> QED BY <1>3, <3>2, <3>3, Zenon
  <2>4. CASE Window!ChildPut(c)
    <3>1. PICK place \in Linked : window_child' = [window_child EXCEPT ![c].at = place]
      BY <2>4 DEF Window!ChildPut, Window!Step, Linked
    <3>2. window_child[c].at \in Linked
      BY <2>4 DEF Window!ChildPut, Linked
    <3>3. window_child' = [window_child EXCEPT ![c] = [window_child[c] EXCEPT !.at = place, !.n = window_child[c].n]]
      BY <1>4, <3>1, Zenon
    <3> QED BY <1>3, <3>2, <3>3, Zenon
  <2> QED BY <2>1, <2>2, <2>3, <2>4
<1>6. TableInv'
  BY <1>1, <1>5, LinkedStaysLinked DEF WindowInv
<1>7. MessagesInv'
  <2>1. CASE Window!Receive(c) \/ Window!Hangup(c)
    BY <2>1 DEF Window!Receive, Window!Hangup, Window!window, WindowInv, MessagesInv, MessagesTyped, ShownAlone, Window!NoMessageLost
  <2>2. CASE Window!ChildTake(c)
    BY <2>2, TakeKeeps DEF Window!ChildTake, Window!window, WindowInv
  <2>3. CASE Window!ChildPut(c)
    <3>1. \A n \in Int : <<c, n>> \in Messages
      BY DEF Messages
    <3>2. \E n \in Int : Window!PutMessage(c, <<c, n>>)
      <4>1. -1 \in Int OBVIOUS
      <4>2. Window!PutMessage(c, <<c, -1>>) \/ Window!PutMessage(c, <<c, window_child[c].n>>)
        BY <2>3, Zenon DEF Window!ChildPut
      <4> QED BY <1>3, <4>1, <4>2, Zenon
    <3>3. UNCHANGED <<window_drain, window_isDisplayed, window_config>>
      BY <2>3 DEF Window!ChildPut, Window!window
    <3> QED BY <3>1, <3>2, <3>3, PutKeeps DEF WindowInv
  <2> QED BY <2>1, <2>2, <2>3
<1> QED
  BY <1>6, <1>7 DEF WindowInv

LEMMA WindowStepInv ==
  ASSUME WindowInv, [Window!Next]_(Window!vars)
  PROVE  WindowInv'
<1> USE DEF Window!window
<1>1. CASE Window!Drain
  BY <1>1, DrainKeeps, TableStays DEF WindowInv, Window!Drain
<1>2. CASE Window!ShowOne
  BY <1>2, ShowOneKeeps, TableStays DEF WindowInv, Window!ShowOne
<1>3. CASE Window!Drained
  BY <1>3, DrainedKeeps, TableStays DEF WindowInv, Window!Drained
<1>4. CASE Window!UpdateDisplayTable
  <2>1. TableInv'
    BY <1>4, TableStays DEF WindowInv, Window!UpdateDisplayTable
  <2>2. MessagesInv'
    BY <1>4 DEF Window!UpdateDisplayTable, WindowInv, MessagesInv, MessagesTyped, ShownAlone, Window!NoMessageLost
  <2> QED BY <2>1, <2>2 DEF WindowInv
<1>5. CASE Window!SaveAndLoadCfg
  <2>1. /\ window_L_sem' = Nil /\ window_L_Messages' = << >> /\ window_due' = << >> /\ window_drain' = 0
        /\ window_isDisplayed' \in {"on", "off"} /\ window_config' \in {"on", "off", "absent"}
    BY <1>5 DEF Window!SaveAndLoadCfg, Window!Started, WindowInv, MessagesInv, MessagesTyped
  <2>2. MessagesInv'
    <3>1. (window_L_sem = Nil /\ window_L_Messages = << >> /\ window_due = << >> /\ window_drain = 0)'
      BY <2>1
    <3>2. (/\ ShownAlone /\ Window!NoMessageLost /\ window_drain \in 0..(Len(window_L_Messages) + 1)
           /\ window_L_Messages \in Seq(Messages) /\ window_due \in Seq(Messages))'
      BY <3>1, NoMessages, PTL
    <3> QED BY <2>1, <3>2 DEF MessagesInv, MessagesTyped
  <2>3. TableInv'
    <3>1. (/\ window_ConnStrs = Window!Fresh.ConnStrs /\ window_NbConns = 0 /\ window_listener = Window!Fresh.listener
           /\ window_child = Window!Fresh.child /\ window_raced = FALSE)'
      BY <1>5 DEF Window!SaveAndLoadCfg, Window!Started
    <3> QED BY <3>1, EmptyTable, PTL
  <2> QED BY <2>2, <2>3 DEF WindowInv
<1>6. CASE Window!Accept \/ Window!Enter \/ Window!CountUp \/ Window!StartChild \/ Window!StartFails \/ \E c \in Clients : Window!RemoveConnect(c) \/ Window!CountDown(c)
  <2>1. TableInv'
    BY <1>6, AcceptKeeps, EnterKeeps, CountUpKeeps, StartChildKeeps, StartFailsKeeps, RemoveConnectKeeps, CountDownKeeps DEF WindowInv
  <2>2. UNCHANGED <<window_L_sem, window_L_Messages, window_due, window_drain, window_isDisplayed, window_config>>
    BY <1>6 DEF Window!Accept, Window!Enter, Window!CountUp, Window!StartChild, Window!StartFails, Window!RemoveConnect, Window!CountDown
  <2>3. MessagesInv'
    BY <2>2 DEF WindowInv, MessagesInv, MessagesTyped, ShownAlone, Window!NoMessageLost
  <2> QED BY <2>1, <2>3 DEF WindowInv
<1>7. CASE Window!ListenerTake
  <2>1. TableInv'
    BY <1>7, ListenerGoesOn DEF WindowInv, Window!ListenerTake
  <2>2. MessagesInv'
    BY <1>7, TakeKeeps DEF WindowInv, Window!ListenerTake
  <2> QED BY <2>1, <2>2 DEF WindowInv
<1>8. CASE Window!ListenerPut
  <2>1. TableInv'
    BY <1>8, ListenerGoesOn DEF WindowInv, Window!ListenerPut
  <2>2. <<window_listener.new, 0>> \in Messages
    BY DEF WindowInv, TableInv, TableTyped, Listeners, Messages
  <2>3. Window!PutMessage("listener", <<window_listener.new, 0>>) /\ UNCHANGED <<window_drain, window_isDisplayed, window_config>>
    BY <1>8 DEF Window!ListenerPut
  <2>4. MessagesInv'
    BY <2>2, <2>3, PutKeeps DEF WindowInv
  <2> QED BY <2>1, <2>4 DEF WindowInv
<1>9. CASE \E c \in Clients : Window!Receive(c) \/ Window!Hangup(c) \/ Window!ChildTake(c) \/ Window!ChildPut(c)
  BY <1>9, ChildStepKeeps
<1>10. CASE UNCHANGED Window!vars
  <2>1. TableInv'
    BY <1>10, TableStays DEF WindowInv, Window!vars
  <2>2. MessagesInv'
    BY <1>10 DEF Window!vars, WindowInv, MessagesInv, MessagesTyped, ShownAlone, Window!NoMessageLost
  <2> QED BY <2>1, <2>2 DEF WindowInv
<1> QED
  BY <1>1, <1>2, <1>3, <1>4, <1>5, <1>6, <1>7, <1>8, <1>9, <1>10 DEF Window!Next

LEMMA WindowInvKept ==
  ASSUME WindowInv
  PROVE  Window!TypeOK /\ Window!NoMessageLost /\ Window!EntryPerLink
<1>1. Window!TypeOK
  BY DEF WindowInv, TableInv, TableTyped, MessagesInv, MessagesTyped, Window!TypeOK, Listeners
<1>2. ASSUME EntriesOwned, EntriesCounted PROVE Window!EntryPerLink
  <2>1. window_listener.at = "enter" => Window!FreeEntries # {}
    BY <1>2, SomeEntryIsFree DEF EntriesCounted
  <2> QED BY <1>2, <2>1 DEF EntriesOwned, Owner, Linked, Window!EntryPerLink
<1>3. window_raced => Window!EntryPerLink
  BY DEF Window!EntryPerLink
<1> QED
  BY <1>1, <1>2, <1>3 DEF WindowInv, TableInv, MessagesInv

-----------------------------------------------------------------------------
(* All parts together.                                                     *)

\* A step is one of the part that was chosen; the other ones stay where they are.
LEMMA OneServiceMoves ==
  ASSUME [ServicesNext]_servicesVars
  PROVE  /\ service' = service
         /\ service = "key" => [Key!Next]_(Key!vars)
         /\ service = "window" => [Window!Next]_(Window!vars)
         /\ service = "ends" => [Ends!Next]_(Ends!vars)
         /\ service = "http" => [Http!Next]_(Http!vars)
         /\ service = "daemon" => [Daemon!Next]_(Daemon!vars)
         /\ service = "file" => [File!Next]_(File!vars)
<1>1. CASE UNCHANGED servicesVars
  <2>1. service' = service /\ UNCHANGED keyVars /\ UNCHANGED windowVars /\ UNCHANGED endsVars /\ UNCHANGED httpVars /\ UNCHANGED daemonVars /\ UNCHANGED fileVars
    BY <1>1, Zenon DEF servicesVars
  <2>2. UNCHANGED Key!vars BY <2>1 DEF keyVars, Key!vars
  <2>3. UNCHANGED Window!vars BY <2>1 DEF windowVars, Window!vars
  <2>4. UNCHANGED Ends!vars BY <2>1 DEF endsVars, Ends!vars
  <2>5. UNCHANGED Http!vars BY <2>1 DEF httpVars, Http!vars
  <2>6. UNCHANGED Daemon!vars BY <2>1 DEF daemonVars, Daemon!vars
  <2>7. UNCHANGED File!vars BY <2>1 DEF fileVars, File!vars
  <2> QED BY <2>1, <2>2, <2>3, <2>4, <2>5, <2>6, <2>7
<1>2. CASE ServicesNext
  BY <1>2 DEF ServicesNext, OthersStay
<1> QED
  BY <1>1, <1>2

ServicesInv ==
  /\ service = "key" => KeyInv
  /\ service = "window" => WindowInv
  /\ service = "ends" => EndsInv
  /\ service = "http" => HttpInv /\ CommandsInv
  /\ service = "daemon" => DaemonInv
  /\ service = "file" => FileInv

LEMMA ServicesInitInv ==
  ASSUME ServicesInit
  PROVE  ServicesInv
BY KeyInitInv, WindowInitInv, EndsInitInv, HttpInitInv, CommandsInitInv, DaemonInitInv, FileInitInv DEF ServicesInit, ServicesInv

LEMMA ServicesStepInv ==
  ASSUME ServicesInv, [ServicesNext]_servicesVars
  PROVE  ServicesInv'
<1>1. service' = service
  BY OneServiceMoves
<1>2. service = "key" => KeyInv' BY OneServiceMoves, KeyStepInv DEF ServicesInv
<1>3. service = "window" => WindowInv' BY OneServiceMoves, WindowStepInv DEF ServicesInv
<1>4. service = "ends" => EndsInv' BY OneServiceMoves, EndsStepInv DEF ServicesInv
<1>5. service = "http" => HttpInv' /\ CommandsInv' BY OneServiceMoves, HttpStepInv, CommandsStepInv DEF ServicesInv
<1>6. service = "daemon" => DaemonInv' BY OneServiceMoves, DaemonStepInv DEF ServicesInv
<1>7. service = "file" => FileInv' BY OneServiceMoves, FileStepInv DEF ServicesInv
<1> QED
  BY <1>1, <1>2, <1>3, <1>4, <1>5, <1>6, <1>7 DEF ServicesInv

\* Every message the viewer takes comes to its window once, in the order in which it was put into the list, whatever threads put them there
\* meanwhile (su_dbg_win.c).
THEOREM MessagesReachTheWindow ==
  ServicesSpec => []NoMessageLost
<1>1. ServicesInit => ServicesInv
  BY ServicesInitInv
<1>2. ServicesInv /\ [ServicesNext]_servicesVars => ServicesInv'
  BY ServicesStepInv
<1>3. ServicesInv => NoMessageLost
  BY WindowInvKept DEF ServicesInv, NoMessageLost
<1> QED
  BY <1>1, <1>2, <1>3, PTL DEF ServicesSpec

\* However an answer is cut into packets, but inside a line of its header, its data is the body the server sent, if it is as long as the header
\* says: whatever the requests, the redirections and the answers (ParseBuffer, WaitForAnswer of web.c).
THEOREM AnswersAreBodies ==
  ServicesSpec => []DataIsTheBody
<1>1. ServicesInit => ServicesInv
  BY ServicesInitInv
<1>2. ServicesInv /\ [ServicesNext]_servicesVars => ServicesInv'
  BY ServicesStepInv
<1>3. ServicesInv => DataIsTheBody
  BY HttpInvKept DEF ServicesInv, DataIsTheBody
<1> QED
  BY <1>1, <1>2, <1>3, PTL DEF ServicesSpec

\* Whatever servers answer and however often they redirect: a command takes along, of the cookies of an end of its host's name and of a beginning of its
\* directory's text, each once and with the value it was given last; and a redirection to a place relative to its page leads to the page's host, and to the directory it tells of as long
\* as there are so many above the page (SendCookies, ParseBuffer, SU_AddLocationToUrl of web.c).
THEOREM CommandsGoAsTold ==
  ServicesSpec => []CommandsAsTold
<1>1. ServicesInit => ServicesInv
  BY ServicesInitInv
<1>2. ServicesInv /\ [ServicesNext]_servicesVars => ServicesInv'
  BY ServicesStepInv
<1>3. ServicesInv => CommandsAsTold
  BY DEF ServicesInv, CommandsInv, CommandsAsTold
<1> QED
  BY <1>1, <1>2, <1>3, PTL DEF ServicesSpec

\* Of the processes that SU_Daemonize makes, one comes back, away from the terminal; and who asks for another user or group becomes it,
\* or is told that he did not, whoever may fork, change its group and its user (utils.c).
THEOREM OneDaemonComesBack ==
  ServicesSpec => []DaemonAsAsked
<1>1. ServicesInit => ServicesInv
  BY ServicesInitInv
<1>2. ServicesInv /\ [ServicesNext]_servicesVars => ServicesInv'
  BY ServicesStepInv
<1>3. ServicesInv => DaemonAsAsked
  BY DaemonInvDaemonized DEF ServicesInv, DaemonAsAsked
<1> QED
  BY <1>1, <1>2, <1>3, PTL DEF ServicesSpec

\* A call that is to fail if the file exists, or to read or to append, empties it only if the file was missing at some time since the call began, or
\* if the call was not let open it at first: whatever other programs create, empty, write and remove between its steps (utils.c).
THEOREM NoFileIsEmptiedUnasked ==
  ServicesSpec => []NotEmptiedUnasked
<1>1. ServicesInit => ServicesInv
  BY ServicesInitInv
<1>2. ServicesInv /\ [ServicesNext]_servicesVars => ServicesInv'
  BY ServicesStepInv
<1>3. ServicesInv => NotEmptiedUnasked
  BY DEF ServicesInv, FileInv, NotEmptiedUnasked
<1> QED
  BY <1>1, <1>2, <1>3, PTL DEF ServicesSpec

\* Every part keeps its types, for any values of the constants.
THEOREM ServicesKeepTypes ==
  ServicesSpec => []ServicesTyped
<1>1. ServicesInit => ServicesInv
  BY ServicesInitInv
<1>2. ServicesInv /\ [ServicesNext]_servicesVars => ServicesInv'
  BY ServicesStepInv
<1>3. ServicesInv => ServicesTyped
  BY KeyInvKept, WindowInvKept, EndsInvKept, HttpInvKept, DaemonInvDaemonized, FileInvTypes DEF ServicesInv, ServicesTyped
<1> QED
  BY <1>1, <1>2, <1>3, PTL DEF ServicesSpec

\* Whatever the calls, the failures and the order in which threads and programs come: a handle of a key, a descriptor of a socket, an entry of
\* the viewer's table is reached by its one owner and by nobody else, and a run without a failure leaves no socket open (registry.c, socks.c,
\* web.c, su_dbg_win.c).
THEOREM EverythingIsReached ==
  ServicesSpec => []NothingLost
<1>1. ServicesInit => ServicesInv
  BY ServicesInitInv
<1>2. ServicesInv /\ [ServicesNext]_servicesVars => ServicesInv'
  BY ServicesStepInv
<1>3. ServicesInv => NothingLost
  BY KeyInvKept, WindowInvKept, EndsInvKept, HttpInvKept DEF ServicesInv, NothingLost
<1> QED
  BY <1>1, <1>2, <1>3, PTL DEF ServicesSpec

=============================================================================
