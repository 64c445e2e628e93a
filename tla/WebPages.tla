------------------------------ MODULE WebPages ------------------------------
(* Functions of web.c on what servers answer and on addresses: links,       *)
(* frames and forms of pages, hosts of URLs, encodings. A page is a         *)
(* sequence of tags. An URL is a sequence of segments, the text between its *)
(* slashes: "http://h/a/" is <<"http:", "", "h", "a", "">>.                 *)
EXTENDS Integers, SequencesExt

CONSTANTS Hosts, Dotted,   \* names of hosts, and segments, hosts among them, with a dot
          Names, NoName,   \* names of inputs
          Bytes            \* what strings that are encoded have: no 0

VARIABLES fn, arg, answer,   \* the function, what it is given, what it answers
          cursor, inputs     \* SW_GetInput_String, as the tags that are left, and (history) the inputs told

vars == <<fn, arg, answer, cursor, inputs>>

NULL == << >>          \* a pointer is this, or a sequence of one
Upto(s, n) == SubSeq(s, 1, n)
From(s, i) == SubSeq(s, i, Len(s))

-----------------------------------------------------------------------------
(* SU_RetrieveLink, SU_RetrieveFrame: the address of a link of the page url. *)
\* Behind "http://" the first slash ends the host; of "https://" it is the second slash itself.
Root(url) == IF url[1] = "https:" THEN Upto(url, 1) ELSE Upto(url, 3)
\* A slash at the end is taken away, and then what has a dot in it: the page, or the host when there is no page.
Directory(url) ==
  LET u == IF Last(url) = "" THEN Front(url) ELSE url IN IF Last(u) \in Dotted THEN Front(u) ELSE u
\* Variant of UpOne that leaves the first directory.
UpNone(url) == IF Len(url) > 4 THEN Front(url) ELSE url
UpOne(url) == Front(url)
RetrieveUrl(url, href) ==
  LET Back[k \in 0..href.up] == IF k = 0 THEN Directory(url) ELSE IF Len(Back[k - 1]) <= 1 THEN << >> ELSE UpOne(Back[k - 1])
      from == Back[href.up]
  IN CASE href.kind = "absolute" -> <<"http:", "">> \o href.path
       [] href.kind = "root" -> Root(url) \o (IF url[1] = "https:" THEN <<"">> ELSE << >>) \o href.path
       [] href.kind = "relative" -> IF from = << >> THEN << >> ELSE (IF Last(from) = "" THEN Front(from) ELSE from) \o href.path

\* GetHostFromURL without a proxy, for an URL [scheme, user, host, port, path]. Of an FTP URL without a user the whole rest is taken
\* for the host; of an URL without a scheme, all of it.
DefaultPort == 80
GetHostFromURL(u) ==
  CASE u.scheme = "https" -> [code |-> -10]
    [] u.scheme = "http" \/ (u.scheme = "ftp" /\ u.user) ->
         [code |-> 0, host |-> <<u.host>>, port |-> IF u.port = 0 THEN DefaultPort ELSE u.port, path |-> IF u.path = << >> THEN <<"">> ELSE u.path]
    [] OTHER -> [code |-> 0, host |-> <<u.host>> \o u.path, port |-> IF u.port = 0 THEN DefaultPort ELSE u.port, path |-> <<"">>]

-----------------------------------------------------------------------------
(* Forms. A tag is [tag, name, type, ends]: ends tells of a textarea whether *)
(* its end follows. Of a select only its own tag is looked at.              *)
IsInput(t) == t.tag \in {"input", "select", "textarea"}
\* The tag an input at i ends with: a textarea that is not closed goes on to the end of a later one; if there is none it has no name.
End(tags, i) ==
  IF tags[i].tag # "textarea" \/ tags[i].ends THEN i
  ELSE LET n == SelectInSeq(From(tags, i + 1), LAMBDA t : t.tag = "textarea" /\ t.ends) IN IF n = 0 THEN 0 ELSE i + n
Named(tags, i) == tags[i].name # NoName /\ End(tags, i) # 0
Input(t, other) ==
  [name |-> t.name, type |-> IF t.type # "" THEN t.type ELSE IF t.tag = "textarea" THEN "textarea" ELSE other]

\* The inputs that have a name, in order, each with the tags behind it; other is the type of those that do not tell one.
InputsOf(tags, other) ==
  LET I[i \in 1..(Len(tags) + 1)] ==
        IF i > Len(tags) THEN << >>
        ELSE IF ~IsInput(tags[i]) \/ ~Named(tags, i) THEN I[i + 1]
        ELSE << [input |-> Input(tags[i], other), behind |-> From(tags, End(tags, i) + 1)] >> \o I[End(tags, i) + 1]
  IN I[1]
\* SU_GetNextInput. After the last one the position stays.
GetNextInput(tags) ==
  LET found == InputsOf(tags, "")
  IN IF found = << >> THEN <<NULL, tags>> ELSE << <<found[1].input>>, found[1].behind>>

Find(page, i, tag) == LET n == SelectInSeq(From(page, i), LAMBDA t : t.tag = tag) IN IF n = 0 THEN 0 ELSE i + n - 1
\* Variant of NextForm that does not pass over the end of the form before.
FormAgain(page, start) == Find(page, start, "form")
NextForm(page, start) == LET end == Find(page, start, "/form") IN IF end = 0 THEN 0 ELSE Find(page, end, "form")
\* What is between the num-th "<form" and the next "/form".
FormTags(page, num) ==
  LET Start[k \in 0..num] == IF k = 0 THEN Find(page, 1, "form") ELSE IF Start[k - 1] = 0 THEN 0 ELSE NextForm(page, Start[k - 1])
      end == IF Start[num] = 0 THEN 0 ELSE Find(page, Start[num], "/form")
  IN IF end = 0 THEN NULL ELSE <<SubSeq(page, Start[num], end - 1)>>
\* Each input is put before those that were found already.
RetrieveForm(page, num) ==
  LET tags == FormTags(page, num) IN
  IF tags = NULL THEN NULL
  ELSE << Reverse(LET found == InputsOf(tags[1], "text") IN [i \in DOMAIN found |-> found[i].input]) >>

-----------------------------------------------------------------------------
(* http_base64_encode: three bytes make four numbers of six bits; 64 is the *)
(* character that fills up. A char is signed: shifted right, a byte from    *)
(* 128 on is negative, and so is the place in the alphabet it is used for.  *)
(* SU_EncodeURL: three places for a byte that is not printed, as long as    *)
(* there is room for them and the NUL.                                      *)
Pad == 64
Outside == -1          \* whatever is in front of the alphabet
Shifted(byte, place) == IF byte < 128 THEN place ELSE Outside
Sextets(a, b, c) ==
  <<Shifted(a, a \div 4), Shifted(b, (a % 4) * 16 + b \div 16), Shifted(c, (b % 16) * 4 + c \div 64), c % 64>>
\* Variant of Rest that does not fill up after two bytes.
RestShort(s) == IF Len(s) = 1 THEN Upto(Sextets(s[1], 0, 0), 2) \o <<Pad, Pad>> ELSE Upto(Sextets(s[1], s[2], 0), 3)
Rest(s) == IF Len(s) = 1 THEN Upto(Sextets(s[1], 0, 0), 2) \o <<Pad, Pad>> ELSE Upto(Sextets(s[1], s[2], 0), 3) \o <<Pad>>
Base64(s) ==
  LET n == Len(s) \div 3
      whole == FoldLeft(LAMBDA out, k : out \o Sextets(s[3 * k - 2], s[3 * k - 1], s[3 * k]), << >>, [k \in 1..n |-> k])
  IN IF Len(s) % 3 = 0 THEN whole ELSE whole \o Rest(From(s, 3 * n + 1))

Printed(b) == b \in 33..126
EncodeURL(s, len) ==
  LET E[i \in 1..(Len(s) + 1), pos \in 0..len] ==
        IF i > Len(s) THEN << >>
        ELSE IF Printed(s[i]) THEN IF pos + 1 >= len THEN << >> ELSE <<s[i]>> \o E[i + 1, pos + 1]
        ELSE IF pos + 3 >= len THEN << >> ELSE <<"%", s[i] \div 16, s[i] % 16>> \o E[i + 1, pos + 3]
  IN E[1, 0]

-----------------------------------------------------------------------------
Tags ==
  [tag : {"input", "select"}, name : Names \cup {NoName}, type : {"", "radio"}, ends : {TRUE}]
  \cup [tag : {"textarea"}, name : Names, type : {""}, ends : BOOLEAN]
  \cup [tag : {"form", "/form", "a"}, name : {NoName}, type : {""}, ends : {TRUE}]
Pages == (UNION {[1..n -> Tags] : n \in 0..3}) \cup
         {<<f, t, e, f, u, e>> : f \in {x \in Tags : x.tag = "form"}, e \in {x \in Tags : x.tag = "/form"}, t, u \in Tags}
Urls == {<<s, "", h>> \o p : s \in {"http:", "https:"}, h \in Hosts, p \in {<< >>, <<"">>, <<"d", "">>, <<"d", "p">>, <<"d", "e", "p.x">>}}
Hrefs == [kind : {"absolute", "root"}, up : {0}, path : {<<"h", "q">>}] \cup [kind : {"relative"}, up : 0..3, path : {<<"q">>, <<"f", "q">>}]
Inputs ==
  [link |-> Urls \X Hrefs,
   host |-> [scheme : {"http", "https", "ftp", ""}, user : BOOLEAN, host : Hosts, port : {0, 8080}, path : {<< >>, <<"d", "q">>}],
   form |-> Pages,
   encode |-> (UNION {[1..n -> Bytes] : n \in 0..4}) \X {4, 13}]

Init ==
  /\ fn \in DOMAIN Inputs /\ arg \in Inputs[fn] /\ answer = << >>
  /\ cursor = (IF fn = "form" THEN arg ELSE << >>) /\ inputs = << >>

Call(f, value) == fn = f /\ answer = << >> /\ answer' = <<value>> /\ UNCHANGED <<fn, arg, cursor, inputs>>
CallLink == Call("link", RetrieveUrl(arg[1], arg[2]))
CallHost == Call("host", GetHostFromURL(arg))
CallForm == Call("form", <<RetrieveForm(arg, 0), RetrieveForm(arg, 1)>>)
CallEncode == Call("encode", [base64 |-> Base64(arg[1]), url |-> EncodeURL(arg[1], arg[2])])
\* SU_GetInput begins with the whole page; a program reads the inputs one by one.
CallNextInput ==
  /\ fn = "form" /\ answer # << >> /\ (inputs # << >> => Last(inputs) # NULL)
  /\ inputs' = Append(inputs, GetNextInput(cursor)[1]) /\ cursor' = GetNextInput(cursor)[2]
  /\ UNCHANGED <<fn, arg, answer>>
Next == CallLink \/ CallHost \/ CallForm \/ CallEncode \/ CallNextInput
-----------------------------------------------------------------------------
TypeOK ==
  /\ fn \in {"link", "host", "form", "encode"} /\ Len(answer) <= 1 /\ ToSet(cursor) \subseteq Tags
  /\ \A k \in DOMAIN inputs : Len(inputs[k]) <= 1

\* A link to a place relative to a page, whose name has a dot or ends with a slash, or to the root of a server leads to the same
\* server, and where a browser would be led, if there are as many directories as "../" and the host is not taken for a page
\* (SU_RetrieveLink).
AddressTold ==
  /\ fn = "link" /\ answer # << >> /\ arg[2].kind = "relative" /\ Len(arg[1]) > 3 /\ (Last(arg[1]) = "" \/ Last(arg[1]) \in Dotted) =>
       LET url == arg[1] href == arg[2] IN
       Len(url) - 4 >= href.up /\ ~(Len(url) = 4 /\ url[3] \in Dotted) => answer[1] = Upto(url, Len(url) - 1 - href.up) \o href.path
  /\ fn = "link" /\ answer # << >> /\ arg[2].kind = "root" /\ arg[1][1] = "http:" => answer[1] = Upto(arg[1], 3) \o arg[2].path

\* Two forms that are closed, with what inputs a page has inside them: the forms' inputs, the first last, are the inputs of the page read one
\* by one, those without a type with "text" for one. Textareas have to be closed.
Text(input) == IF input.type = "" THEN [input EXCEPT !.type = "text"] ELSE input
WellFormed(page) ==
  /\ \A i \in DOMAIN page : page[i].tag = "textarea" => page[i].ends
  /\ \A i \in DOMAIN page : page[i].tag = "form" <=> (i % 3 = 1)
  /\ \A i \in DOMAIN page : page[i].tag = "/form" <=> (i % 3 = 0)
FormTold ==
  fn = "form" /\ inputs # << >> /\ WellFormed(arg) /\ Len(arg) = 6 /\ Last(inputs) = NULL =>
      Reverse(answer[1][1][1]) \o Reverse(answer[1][2][1]) = [i \in 1..(Len(inputs) - 1) |-> Text(inputs[i][1])]

\* What is encoded can be decoded: the numbers of six bits are those of the bytes, if none is from 128 on, and an URL is cut between two
\* characters only.
EncodingTold ==
  fn = "encode" /\ answer # << >> =>
    LET s == arg[1]
        out == SelectSeq(answer[1].base64, LAMBDA x : x # Pad)
        Bit(seq, width, k) == (seq[(k \div width) + 1] \div 2^(width - 1 - (k % width))) % 2
    IN /\ Len(answer[1].base64) = 4 * ((Len(s) + 2) \div 3)
       /\ Len(out) * 6 >= Len(s) * 8
       /\ (\A i \in DOMAIN s : s[i] < 128) => \A k \in 0..(Len(s) * 8 - 1) : Bit(s, 8, k) = Bit(out, 6, k)
       /\ Len(answer[1].url) < arg[2]
       /\ \E n \in 0..Len(s) : answer[1].url = EncodeURL(Upto(s, n), 3 * Len(s) + 1)
=============================================================================
