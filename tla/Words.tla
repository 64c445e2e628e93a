------------------------------- MODULE Words -------------------------------
(* The string functions of string.c. A string is a sequence of characters   *)
(* without the NUL; an index one beyond the last character is the NUL.      *)
EXTENDS Integers, SequencesExt

CONSTANTS Letters,     \* the characters of the texts
          MaxWord,     \* the longest text of an input
          Size,        \* the size of the client's buffers, NUL included
          Users        \* those who cut strings at the same time

VARIABLES fn, arg, answer,             \* the function, what it is given, what it answers
          own, text, cursor, current, told   \* per user of SU_strparse, see below

vars == <<fn, arg, answer, own, text, cursor, current, told>>
parsing == <<own, text, cursor, current, told>>

Star == "*"
LF == "\n"
Words(C, n) == UNION {[1..k -> C] : k \in 0..n}
Upto(s, n) == SubSeq(s, 1, IF n < Len(s) THEN n ELSE Len(s))
From(s, i) == SubSeq(s, i, Len(s))
First(s, c) == SelectInSeq(s, LAMBDA x : x = c)       \* strchr: 0 for NULL
Undefined == "undefined"                              \* what a read outside of a string may lead to
IsAt(s, f, i) == i + Len(f) - 1 <= Len(s) /\ SubSeq(s, i, i + Len(f) - 1) = f

-----------------------------------------------------------------------------
(* Copies.                                                                  *)
strcpy(src, len) == Upto(src, len - 1)

\* Variant of strcat that leaves no room for the NUL.
strcatFull(dest, src, len) == IF src = << >> THEN Undefined ELSE dest \o Upto(src, len - Len(dest))

\* The first character is copied before the end of src is looked for: an empty src is passed over.
strcat(dest, src, len) ==
  IF Len(dest) >= len - 1 THEN dest
  ELSE IF src = << >> THEN Undefined
  ELSE dest \o Upto(src, len - 1 - Len(dest))

\* vsnprintf is given one byte less than there is, and keeps one of those for its NUL.
snprintf(src, len) ==
  LET dest == Upto(src, len - 2) IN <<dest, IF Len(dest) = len - 1 THEN -1 ELSE Len(dest)>>
strnlen(s, max) == IF Len(s) > max THEN max ELSE Len(s)
TrimLeft(s) == LET i == SelectInSeq(s, LAMBDA x : x # " ") IN IF i = 0 THEN << >> ELSE From(s, i)
\* Of a text of blanks only it goes on below the first byte.
TrimRight(s) ==
  LET i == SelectLastInSeq(s, LAMBDA x : x # " ") IN IF i = 0 THEN Undefined ELSE Upto(s, i)
ExtractFileName(s, len) == strcpy(From(s, SelectLastInSeq(s, LAMBDA x : x = "/") + 1), len)
strchrl(s, l) == SelectInSeq(s, LAMBDA x : x \in ToSet(l))
strrchrl(s, l) == SelectLastInSeq(s, LAMBDA x : x \in ToSet(l))

-----------------------------------------------------------------------------
(* Searches: the index of what is found, 0 for NULL.                        *)
strstr(s, f) ==
  LET At == {i \in 1..(Len(s) + 1) : IsAt(s, f, i)}
  IN IF At = {} THEN 0 ELSE CHOOSE i \in At : \A j \in At : i <= j

toupper(c) == IF c = "a" THEN "A" ELSE IF c = "b" THEN "B" ELSE c
tolower(c) == IF c = "A" THEN "a" ELSE IF c = "B" THEN "b" ELSE c
strtoupper(s) == [i \in DOMAIN s |-> toupper(s[i])]
strtolower(s) == [i \in DOMAIN s |-> tolower(s[i])]
strcasecmp(s, p) == strtoupper(s) = strtoupper(p)

\* One pass: after a mismatch the search starts anew at the next character, or behind this one when it is a first character.
nocasestrstr(s, f) ==
  LET Same(i, j) == toupper(s[i]) = toupper(f[j])
      Scan[i \in 1..(Len(s) + 1), ret \in 1..(Len(s) + 1), j \in 1..(Len(f) + 1)] ==
        IF j > Len(f) THEN ret
        ELSE IF i > Len(s) THEN 0
        ELSE IF Same(i, j) THEN Scan[i + 1, ret, j + 1]
        ELSE Scan[i + 1, i + 1, IF Same(i, 1) THEN 2 ELSE 1]
  IN Scan[1, 1, 1]

\* memcmp of the whole needle reads beyond the haystack, which goes on with the bytes of beyond.
memmem(s, f, beyond) ==
  LET Found == {i \in 1..Len(s) : s[i] = f[1] /\ IsAt(s \o beyond, f, i)}
  IN IF Len(f) > Len(s) \/ Found = {} THEN 0 ELSE CHOOSE i \in Found : \A j \in Found : i <= j

-----------------------------------------------------------------------------
(* SU_strwcmp and SU_strwparse in one: whether the text equals the wild     *)
(* word, and the pieces that stood for the stars. (Parts of the wild word   *)
(* are shorter than the 1024 bytes of the copy, and the buffer of           *)
(* SU_strwparse has room for all pieces.)                                   *)
AtEndUnchecked(s, i) == TRUE
AtEnd(s, i) == IF i > Len(s) + 1 THEN Undefined ELSE i = Len(s) + 1
Match(s, w, find(_, _)) ==
  LET No == [equal |-> FALSE, pieces |-> << >>]
      With(p, m) == [m EXCEPT !.pieces = <<p>> \o @]
      W[i \in 1..(2 * Len(s) + 2), j \in 1..(Len(w) + 1)] ==
        CASE i > Len(s) + 1 -> [equal |-> Undefined, pieces |-> << >>]
          [] i = Len(s) + 1 /\ j > Len(w) -> [No EXCEPT !.equal = TRUE]
          [] i = Len(s) + 1 /\ j <= Len(w) ->
               IF w[j] = Star /\ j = Len(w) THEN [equal |-> TRUE, pieces |-> << << >> >>] ELSE No
          [] i <= Len(s) /\ j > Len(w) -> No
          [] i <= Len(s) /\ j <= Len(w) /\ w[j] # Star -> IF s[i] = w[j] THEN W[i + 1, j + 1] ELSE No
          [] i <= Len(s) /\ j = Len(w) /\ w[j] = Star -> [equal |-> TRUE, pieces |-> <<From(s, i)>>]
          [] OTHER ->
               LET next == First(From(w, j + 1), Star)
                   part == IF next = 0 THEN From(w, j + 1) ELSE SubSeq(w, j + 1, j + next - 1)
                   at == find(From(s, i), part)
                   behind == i + at - 1 + Len(part)
                   piece == SubSeq(s, i, i + at - 2)
               IN IF at = 0 THEN No
                  ELSE IF next # 0 THEN With(piece, W[behind, j + 1 + Len(part)])
                  ELSE [equal |-> AtEnd(s, behind), pieces |-> <<piece>>]
  IN W[1, 1]
strwcmp(s, w) == Match(s, w, strstr).equal
strwparse(s, w) == Match(s, w, strstr)
nocasestrwcmp(s, w) == Match(strtoupper(s), strtoupper(w), nocasestrstr).equal
nocasestrwparse(s, w) == Match(strtolower(s), strtolower(w), strstr)

-----------------------------------------------------------------------------
(* Lines of a file. One more character is read than is kept: the line end,  *)
(* or, when the line is too long for S, a character that is lost.           *)
\* Variant of Room that stops one character too early.
RoomOffByOne(len) == len - 2
Room(len) == len - 1
ReadLine(file, len) ==
  LET start == SelectInSeq(file, LAMBDA x : x # LF)
      body == From(file, start)
      end == First(body, LF)
      S == Upto(body, IF end \in 1..Room(len) THEN end - 1 ELSE Room(len))
  IN IF start = 0 THEN [eof |-> TRUE]
     ELSE [eof |-> FALSE, line |-> S, rest |-> From(body, Len(S) + 2)]

Lines(file, len) ==
  LET L[i \in 1..(Len(file) + 1)] ==
        LET r == ReadLine(From(file, i), len)
        IN IF r.eof THEN << >> ELSE <<r.line>> \o L[Len(file) - Len(r.rest) + 1]
  IN L[1]

\* A line of a configuration: its name and its value, or none.
Config(S) ==
  LET q == TrimLeft(S)
      p == First(q, " ")
  IN IF q = << >> \/ (q # << >> /\ q[1] = "#") THEN << >>
     ELSE IF p = 0 THEN <<q, << >> >> ELSE <<Upto(q, p - 1), TrimLeft(From(q, p + 1))>>
ParseConfig(file, len) == SelectSeq([i \in DOMAIN Lines(file, len) |-> Config(Lines(file, len)[i])], LAMBDA c : c # << >>)

-----------------------------------------------------------------------------
(* SU_strparse cuts a string at a delimiter, one piece per call, with a     *)
(* cursor that is global; SU_strparse_r with a cursor of the caller's.      *)
(* own[u] tells which of them u uses; told[u] is what u was answered.       *)
Delim == ","
NoString == <<"NULL">>       \* a cursor is <<"NULL">> or <<"at", what is left of the string>>

\* Variant of Cut that steps over empty pieces, as strtok does.
CutTok(rest) ==
  LET from == SelectInSeq(rest, LAMBDA x : x # Delim)
      piece == IF from = 0 THEN << >> ELSE From(rest, from)
      p == First(piece, Delim)
  IN IF p = 0 THEN <<piece, NoString>> ELSE <<Upto(piece, p - 1), <<"at", From(piece, p + 1)>> >>
Cut(rest) ==
  LET p == First(rest, Delim) IN
  IF p = 0 THEN <<rest, NoString>> ELSE <<Upto(rest, p - 1), <<"at", From(rest, p + 1)>> >>

Started(u) == told[u] # << >>
Ended(u) == Started(u) /\ Last(told[u]) = NoString
Told(u, c) ==
  LET at == IF Started(u) THEN c ELSE <<"at", text[u]>>
  IN IF at = NoString THEN <<NoString, at>> ELSE Cut(at[2])

strparse(u) ==
  /\ ~own[u] /\ ~Ended(u)
  /\ cursor' = Told(u, cursor)[2]
  /\ told' = [told EXCEPT ![u] = Append(@, Told(u, cursor)[1])]
  /\ UNCHANGED <<own, text, current>>
strparse_r(u) ==
  /\ own[u] /\ ~Ended(u)
  /\ current' = [current EXCEPT ![u] = Told(u, @)[2]]
  /\ told' = [told EXCEPT ![u] = Append(@, Told(u, current[u])[1])]
  /\ UNCHANGED <<own, text, cursor>>

-----------------------------------------------------------------------------
(* One call of a function on any input, or users who cut their strings.     *)
Call(f, value) == fn = f /\ answer = << >> /\ answer' = <<value>> /\ UNCHANGED <<fn, arg, parsing>>

Inputs ==
  [wild |-> Words(Letters, MaxWord) \X Words(Letters \cup {Star}, MaxWord),
   file |-> Words({"a", " ", "#", LF}, MaxWord + 1),
   buffer |-> Words({"a"}, 2) \X Words({"b", " ", "/"}, 3) \X (1..MaxWord),
   search |-> Words(Letters, MaxWord) \X (Words(Letters, 2) \ {<< >>}) \X Words(Letters, 1),
   parse |-> {<< >>}]

Init ==
  /\ fn \in DOMAIN Inputs /\ arg \in Inputs[fn] /\ answer = << >>
  /\ fn = "buffer" => Len(arg[1]) < arg[3]
  /\ own \in [Users -> BOOLEAN] /\ text \in [Users -> Words({"a", Delim}, MaxWord - 1)]
  /\ fn # "parse" => own = [u \in Users |-> TRUE] /\ text = [u \in Users |-> << >>]
  /\ cursor = NoString /\ current = [u \in Users |-> NoString] /\ told = [u \in Users |-> << >>]

CallWild ==
  Call("wild", [strwcmp |-> strwcmp(arg[1], arg[2]), strwparse |-> strwparse(arg[1], arg[2]),
                nocasestrwcmp |-> nocasestrwcmp(arg[1], arg[2]), nocasestrwparse |-> nocasestrwparse(arg[1], arg[2])])
CallFile == Call("file", [lines |-> Lines(arg, Size), config |-> ParseConfig(arg, Size)])
CallBuffer ==
  LET a == arg[1] b == arg[2] n == arg[3] IN
  Call("buffer", [strcpy |-> strcpy(b, n), strcat |-> strcat(a, b, n), snprintf |-> snprintf(b, n), strnlen |-> strnlen(b, n),
                  trimleft |-> TrimLeft(b), trimright |-> TrimRight(b), filename |-> ExtractFileName(b, n),
                  strchrl |-> strchrl(b, <<" ", "/">>), strrchrl |-> strrchrl(b, <<" ", "/">>)])
CallSearch ==
  Call("search", [strstr |-> strstr(arg[1], arg[2]), nocasestrstr |-> nocasestrstr(arg[1], arg[2]),
                  memmem |-> memmem(arg[1], arg[2], arg[3]), strcasecmp |-> strcasecmp(arg[1], arg[2])])
Parse == fn = "parse" /\ (\E u \in Users : strparse(u) \/ strparse_r(u)) /\ UNCHANGED <<fn, arg, answer>>
Next == CallWild \/ CallFile \/ CallBuffer \/ CallSearch \/ Parse
-----------------------------------------------------------------------------
TypeOK ==
  /\ fn \in {"wild", "file", "buffer", "search", "parse"} /\ Len(answer) <= 1
  /\ cursor[1] \in {"NULL", "at"} /\ \A u \in Users : current[u][1] \in {"NULL", "at"}

Answered(f) == fn = f /\ answer # << >>

\* What a wild word means: each star stands for any piece.
Matches(s, w) ==
  LET M[i \in 1..(Len(s) + 1), j \in 1..(Len(w) + 1)] ==
        IF j > Len(w) THEN i > Len(s)
        ELSE IF w[j] = Star THEN \E k \in i..(Len(s) + 1) : M[k, j + 1]
        ELSE i <= Len(s) /\ s[i] = w[j] /\ M[i + 1, j + 1]
  IN M[1, 1]
Rebuilt(w, pieces) ==
  LET R[j \in 1..(Len(w) + 1), k \in 1..(Len(pieces) + 1)] ==
        IF j > Len(w) THEN << >>
        ELSE IF w[j] = Star THEN pieces[k] \o R[j + 1, k + 1] ELSE <<w[j]>> \o R[j + 1, k]
  IN R[1, 1]

\* A wild word that is said to equal a text does, and SU_strwparse's pieces put in the place of the stars are the text again. (Only this half
\* of string.c's "True if wild equals s" holds: the search never goes back, so that "aba" is said not to equal "*a".)
WildMatches ==
  Answered("wild") =>
    LET s == arg[1] w == arg[2] a == answer[1] IN
    /\ a.strwcmp = a.strwparse.equal /\ a.strwcmp \in BOOLEAN
    /\ a.strwcmp => Matches(s, w) /\ Rebuilt(w, a.strwparse.pieces) = s

\* The lines of a file whose lines all fit are the pieces between line ends that are not empty, in order, and the configuration
\* is, for each that is not a comment, a name without blanks and the rest without leading blanks.
Pieces(s, c) ==
  LET cuts == SetToSortSeq({0, Len(s) + 1} \cup {i \in DOMAIN s : s[i] = c}, <)
  IN [k \in 1..(Len(cuts) - 1) |-> SubSeq(s, cuts[k] + 1, cuts[k + 1] - 1)]
LinesTold ==
  Answered("file") =>
    LET read == answer[1].lines
        config == answer[1].config
        whole == SelectSeq(Pieces(arg, LF), LAMBDA l : l # << >>)
        entries == SelectSeq(read, LAMBDA l : TrimLeft(l) # << >> /\ TrimLeft(l)[1] # "#")
    IN /\ \A l \in ToSet(read) : Len(l) < Size
       /\ (\A l \in ToSet(whole) : Len(l) < Size) => read = whole
       /\ Len(config) = Len(entries)
       /\ \A i \in DOMAIN config :
            /\ config[i][1] # << >> /\ First(config[i][1], " ") = 0
            /\ config[i][2] = TrimLeft(config[i][2])
            /\ SelectSeq(config[i][1] \o config[i][2], LAMBDA c : c # " ") = SelectSeq(entries[i], LAMBDA c : c # " ")

\* What is copied into a buffer of n bytes leaves one for the NUL and is cut nowhere else; a search in memory tells the first place inside it
\* if there is one, whatever follows the memory. SU_nocasestrstr, which string.c calls "like strstr(), but nocase", is not: it does not go back
\* after a mismatch, and may miss a place, or tell the next one (3 for "ab" in "aab"); where it tells one, the word is there or right in front.
\* SU_snprintf keeps one byte less than there is room for, and does not tell: string.c:83 has "Returns -1 if string truncated", it answers -1 for
\* a buffer of one byte only.
BuffersKept ==
  /\ Answered("buffer") =>
       LET a == answer[1] n == arg[3] IN
       /\ a.strcpy = Upto(arg[2], n - 1)
       /\ a.snprintf = <<Upto(arg[2], n - 2), IF n = 1 THEN -1 ELSE Min({Len(arg[2]), n - 2})>>
       /\ arg[2] # << >> => a.strcat = Upto(arg[1] \o arg[2], n - 1)
       /\ Len(a.filename) < n /\ (Len(arg[2]) < n => a.filename = Last(Pieces(arg[2], "/")))
  /\ Answered("search") =>
       LET a == answer[1] s == arg[1] f == arg[2] IN
       /\ a.strstr # 0 => a.memmem = a.strstr
       /\ a.nocasestrstr # 0 => \E i \in {a.nocasestrstr - 1, a.nocasestrstr} : i > 0 /\ IsAt(strtoupper(s), strtoupper(f), i)

\* Whoever cuts a string with a cursor of his own is told its pieces, empty ones too, one by one; so is the only user of the global cursor.
PiecesAreOwn ==
  \A u \in Users : (own[u] \/ \A v \in Users \ {u} : own[v]) =>
    IF Ended(u) THEN Front(told[u]) = Pieces(text[u], Delim) ELSE IsPrefix(told[u], Pieces(text[u], Delim))
=============================================================================
