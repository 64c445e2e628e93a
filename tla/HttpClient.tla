----------------------------- MODULE HttpClient -----------------------------
(* SU_ExecuteActions of web.c, built without SSL and used without a proxy:  *)
(* a list of HTTP actions, one connection each, and the actions of          *)
(* redirections inside them. A path is a sequence of segments; an URL       *)
(* without its scheme is a sequence of segments too, the host first, and an *)
(* empty last one is a slash at its end.                                    *)
EXTENDS Integers, SequencesExt

CONSTANTS Requests,    \* lists of actions: sequences of [command, host, path, file, ssl]
          Answers,     \* what servers answer: [lines, body], sequences of tagged header lines and bytes
          Known,       \* hosts whose name is resolved
          Within,      \* pairs of a host and a domain its name ends with
          Files,       \* segments with a dot in them
          Begins,      \* pairs of a segment and one that begins with it
          MaxDepth     \* redirections inside each other

VARIABLES frames,      \* the actions that are left, of the list and of each redirection
          at,          \* where the innermost SU_ExecuteActions is
          sock,        \* its socket: "none", "open", "closed"
          wire, answer,  \* what the server has yet to send, and (history) its whole answer
          ans,         \* the SU_TAnswer: none yet is NoAnswer
          held,        \* the line end behind the header was left in the buffer
          jar, sent,   \* SW_Cookies, and those that were sent with the command
          latest,      \* (history) the value each cookie was given last
          lost, failed,  \* (history) a socket was left open; a run or a command failed
          ret          \* the result of the outermost run

vars == <<frames, at, sock, wire, answer, ans, held, jar, sent, latest, lost, failed, ret>>

NoAnswer == [code |-> -1, toReceive |-> -1, length |-> -1, data |-> << >>, location |-> << >>]
Blank == [NoAnswer EXCEPT !.code = 0]         \* what ParseBuffer begins with
CRLF == <<[tag |-> "CR"], [tag |-> "LF"]>>
Act == Head(Last(frames))

Init ==
  /\ \E list \in Requests : frames = <<list>>
  /\ at = "next" /\ sock = "none" /\ wire = << >> /\ answer = [lines |-> << >>, body |-> << >>]
  /\ ans = NoAnswer /\ held = FALSE /\ jar = << >> /\ sent = << >> /\ latest = << >> /\ lost = FALSE /\ failed = FALSE /\ ret = 1

-----------------------------------------------------------------------------
(* URLs.                                                                    *)
\* Of "/a/b" the directory is "/a" if b has a dot, else b is taken for one.
ExtractPath(path) == IF path # << >> /\ Last(path) \in Files \cup {""} THEN Front(path) ELSE path

\* SU_AddLocationToUrl for a location that begins with a slash (root) or not, and with up times "../". Each of these goes
\* back to the last slash but one, were it one of "http://". A path that ends with a slash has an empty last segment.
UpFromSlash(url) == IF Len(url) > 1 THEN Append(Front(url), "") ELSE url
Up(url) == IF Len(url) > 2 THEN Append(SubSeq(url, 1, Len(url) - 2), "") ELSE url
AddLocationToUrl(host, path, location) ==
  LET here == <<"http:", "", host>> \o path
      directory == IF path = << >> THEN Append(here, "") ELSE Append(Front(here), "")
      Back[k \in 0..location.up] == IF k = 0 THEN directory ELSE Up(Back[k - 1])
  IN IF location.root THEN <<"http:", "", host>> \o location.path
     ELSE Front(Back[location.up]) \o location.path
\* GetHostFromURL of the result: the host is what is between the double slash and the next one; if there is none, the path is "/".
Host(url) == IF Len(url) > 2 THEN url[3] ELSE ""
Path(url) == IF Len(url) > 3 THEN SubSeq(url, 4, Len(url)) ELSE <<"">>

-----------------------------------------------------------------------------
(* Leaving an action, a run. The result of a redirection's run is ignored.  *)
Done(f) == [f EXCEPT ![Len(f)] = Tail(@)]
NextAction == frames' = Done(frames) /\ at' = "next" /\ sock' = "none" /\ wire' = << >> /\ sent' = << >> /\ ret' = ret
Returns(code) ==
  /\ sock' = "none" /\ wire' = << >> /\ sent' = << >>
  /\ IF Len(frames) = 1 THEN frames' = << >> /\ at' = "done" /\ ret' = code
     ELSE frames' = Done(Front(frames)) /\ at' = "next" /\ ret' = ret
Fails == failed' = TRUE
Loses == lost' = (lost \/ sock = "open")
cookies == <<jar, latest>>

Return ==
  /\ at = "next" /\ Last(frames) = << >> /\ Returns(0)
  /\ UNCHANGED <<answer, ans, held, cookies, lost, failed>>
Refused ==
  /\ at = "next" /\ Last(frames) # << >>
  /\ IF Act.command = "unknown" THEN NextAction ELSE Act.ssl /\ Returns(-10)
  /\ Fails /\ UNCHANGED <<answer, ans, held, cookies, lost>>

Connectable == at = "next" /\ Last(frames) # << >> /\ Act.command # "unknown" /\ ~Act.ssl
CreateConnection ==
  /\ Connectable /\ Act.host \in Known
  /\ at' = "send" /\ sock' = "open" /\ ans' = NoAnswer /\ held' = FALSE
  /\ UNCHANGED <<frames, wire, answer, cookies, sent, lost, failed, ret>>
\* No socket, or no connection; or an unknown host: the socket stays open.
CreateConnectionFails ==
  /\ Connectable /\ Returns(-1) /\ Fails
  /\ lost' = lost \/ (Act.host \notin Known /\ lost' = TRUE)
  /\ UNCHANGED <<answer, ans, held, cookies>>

-----------------------------------------------------------------------------
(* SendCommand. Whether the bytes were sent is only asked for files.        *)
\* Whether the text of the directory begins with that of the cookie's path (a pattern, the path and a star): the last segment of the path may end
\* inside of one of the directory. Of no segments, and of an empty one, the text is "/".
IsPath(c) ==
  LET directory == ExtractPath(Act.path) n == Len(c.path) IN
  \/ c.path \in {<< >>, <<"">>}
  \/ n <= Len(directory) /\ IsPrefix(Front(c.path), directory) /\ <<c.path[n], directory[n]>> \in Begins
Due(c) == <<Act.host, c.domain>> \in Within /\ IsPath(c)
\* Of the first i cookies of a jar those that go with the command.
Chosen(j) == LET C[i \in 0..Len(j)] == IF i = 0 THEN << >> ELSE IF Due(j[i]) THEN Append(C[i - 1], j[i]) ELSE C[i - 1] IN C
SendCookies == sent' = Chosen(jar)[Len(jar)]
Sent ==
  /\ at' = "wait" /\ SendCookies /\ \E a \in Answers : answer' = a /\ wire' = a.lines \o <<[tag |-> "end"]>> \o a.body
  /\ UNCHANGED <<frames, sock, ans, held, cookies, lost, failed, ret>>
SendCommand == at = "send" /\ Act.command # "PUT" /\ Act.file # "missing" /\ Sent
\* A part's file is missing, empty or cannot be sent: the socket stays open. The run goes on with the next action.
SendCommandFails ==
  /\ at = "send" /\ Act.file # "none" /\ NextAction /\ Fails
  /\ \/ Act.command = "POST" /\ Loses
     \/ Act.command = "PUT" /\ IF Act.file = "missing" THEN Loses ELSE lost' = lost
  /\ UNCHANGED <<answer, ans, held, cookies>>
\* When a file was PUT its socket is closed, and then listened to.
SendFile ==
  /\ at = "send" /\ Act.command = "PUT" /\ Act.file = "found"
  /\ at' = "wait" /\ sock' = "closed" /\ SendCookies
  /\ UNCHANGED <<frames, wire, answer, ans, held, cookies, lost, failed, ret>>

-----------------------------------------------------------------------------
(* WaitForAnswer and ParseBuffer                                            *)
\* Variant of Put that looks at the names only.
PutByName(j, c) ==
  LET same == SelectInSeq(j, LAMBDA d : d.name = c.name)
  IN IF same = 0 THEN Append(j, c) ELSE [j EXCEPT ![same] = c]
Put(j, c) ==
  LET same == SelectInSeq(j, LAMBDA d : d.name = c.name /\ d.domain = c.domain /\ d.path = c.path)
  IN IF same = 0 THEN Append(j, c) ELSE [j EXCEPT ![same] = c]
Cookie(line) ==
  [name |-> line.name, value |-> line.value, domain |-> IF line.domain = "" THEN Act.host ELSE line.domain, path |-> IF line.path = << >> THEN ExtractPath(Act.path) ELSE line.path]
\* Of several lines that tell the same the last one counts.
Told(tag, lines) == SelectLastInSeq(lines, LAMBDA l : l.tag = tag)
Header(a, lines) ==
  LET code == Told("code", lines)
      length == Told("length", lines)
      location == Told("location", lines)
  IN [a EXCEPT !.code = IF code = 0 THEN @ ELSE lines[code].code,
               !.toReceive = IF length = 0 THEN @ ELSE lines[length].length,
               !.location = IF location = 0 THEN @ ELSE <<lines[location].location>>]

\* Variant of Data that keeps the line end which is behind the header.
DataKept(a, bytes) == [a EXCEPT !.data = CRLF \o bytes, !.length = 2 + Len(bytes)]
Data(a, bytes) == [a EXCEPT !.data = bytes, !.length = Len(bytes)]
More(a, bytes) ==
  LET all == (IF held /\ a.data = << >> THEN CRLF ELSE << >>) \o bytes
  IN [a EXCEPT !.data = @ \o all, !.length = @ + Len(all)]

\* An empty line ends the header. One that is the last of what came begins the data, and stays in the buffer.
EndOfHeader(all) == SelectInSeq(all, LAMBDA i : i.tag = "end")
LinesOf(all) == IF EndOfHeader(all) = 0 THEN all ELSE SubSeq(all, 1, EndOfHeader(all) - 1)
ParseHeader(began, all) ==
  LET end == EndOfHeader(all)
      a == Header(began, LinesOf(all))
  IN IF end = 0 THEN a ELSE IF end = Len(all) THEN [a EXCEPT !.length = 0] ELSE Data(a, SubSeq(all, end + 1, Len(all)))
\* What the first i lines make of the jar and of the values that were given last.
Key(c) == <<c.name, c.domain, c.path>>
Given(v, c) == [k \in DOMAIN v \cup {Key(c)} |-> IF k = Key(c) THEN c.value ELSE v[k]]
Jars(lines) ==
  LET J[i \in 0..Len(lines)] ==
        IF i = 0 THEN cookies
        ELSE IF lines[i].tag # "cookie" THEN J[i - 1]
        ELSE <<Put(J[i - 1][1], Cookie(lines[i])), Given(J[i - 1][2], Cookie(lines[i]))>>
  IN J
KeepCookies(lines) == LET all == Jars(lines)[Len(lines)] IN jar' = all[1] /\ latest' = all[2]

\* recv gives some whole lines or bytes more; a line that has not come as a whole waits for its end, if all goes well.
Began == IF at = "wait" THEN Blank ELSE ans
Parsed(n) == IF Began.length >= 0 THEN More(Began, SubSeq(wire, 1, n)) ELSE ParseHeader(Began, SubSeq(wire, 1, n))
Complete(a) == a.toReceive >= 0 /\ a.length >= a.toReceive
Recv ==
  /\ at \in {"wait", "more"} /\ sock = "open"
  /\ \E n \in 0..Len(wire) :
       /\ n = 0 => wire # << >> /\ Began.length < 0
       /\ wire' = SubSeq(wire, n + 1, Len(wire)) /\ ans' = Parsed(n)
       /\ held' = (held \/ (Began.length < 0 /\ n # 0 /\ EndOfHeader(SubSeq(wire, 1, n)) = n))
       /\ KeepCookies(IF Began.length >= 0 THEN << >> ELSE LinesOf(SubSeq(wire, 1, n)))
       /\ IF Complete(Parsed(n)) THEN at' = "answered" /\ sock' = "closed" ELSE at' = "more" /\ sock' = sock
  /\ UNCHANGED <<frames, answer, sent, lost, failed, ret>>

\* The line end of a line that has come in part is searched for beyond what has come, in what was in the buffer before: it may not be found
\* there (then Recv, with the lines before), or the length that is left becomes negative.
RecvCut ==
  /\ at \in {"wait", "more"} /\ sock = "open" /\ (at = "more" => ans.length < 0)
  /\ \E i \in DOMAIN wire : wire[i].tag = "end"
  /\ at' = "crashed" /\ UNCHANGED <<frames, sock, wire, answer, ans, held, cookies, sent, lost, failed, ret>>

\* Variant of Closed that forgets the socket.
NotClosed == Loses
Closed == lost' = lost
\* The server closes the connection, or there is an error: what has come is the answer.
Ended ==
  /\ at \in {"wait", "more"} /\ sock = "open" /\ Closed
  /\ IF at = "wait" THEN Returns(-2) /\ Fails
     ELSE at' = "answered" /\ sock' = "closed" /\ UNCHANGED <<frames, wire, sent, failed, ret>>
  /\ UNCHANGED <<answer, ans, held, cookies>>
\* Before the first byte the socket stays open; before the data there is no answer; some of the data is an answer. To listen to a socket that is closed
\* is an error at once.
TimedOut ==
  /\ at \in {"wait", "more"}
  /\ IF at = "wait" THEN Returns(-2) /\ Fails /\ Loses
     ELSE /\ lost' = lost
          /\ IF ans.length = -1 THEN Returns(-2) /\ Fails
             ELSE at' = "answered" /\ sock' = "closed" /\ UNCHANGED <<frames, wire, sent, failed, ret>>
  /\ UNCHANGED <<answer, ans, held, cookies>>

\* What the codes mean: but for the redirections, a callback of the client.
Callback ==
  /\ at = "answered" /\ ans.code \notin {301, 302, 303} /\ NextAction
  /\ UNCHANGED <<answer, ans, held, cookies, lost, failed>>
\* A redirection is an action of its own, GET with the same file; without a location the program crashes.
Moved ==
  /\ at = "answered" /\ ans.code \in {301, 302, 303}
  /\ IF ans.location = << >> THEN at' = "crashed" /\ UNCHANGED <<frames, sock, wire, sent, failed, ret>>
     ELSE LET to == ans.location[1] IN
          IF to.ssl THEN Returns(-10) /\ Fails
          ELSE /\ Len(frames) <= MaxDepth
               /\ LET url == IF to.host # "" THEN <<"http:", "", to.host>> \o to.path ELSE AddLocationToUrl(Act.host, Act.path, to) IN
                  frames' = Append(frames, <<[command |-> "GET", host |-> Host(url), path |-> Path(url), file |-> "none", ssl |-> FALSE]>>)
               /\ at' = "next" /\ sock' = "none" /\ wire' = << >> /\ sent' = << >> /\ UNCHANGED <<failed, ret>>
  /\ UNCHANGED <<answer, ans, held, cookies, lost>>

Next ==
  \/ Return \/ Refused \/ CreateConnection \/ CreateConnectionFails
  \/ SendCommand \/ SendCommandFails \/ SendFile
  \/ Recv \/ RecvCut \/ Ended \/ TimedOut \/ Callback \/ Moved
-----------------------------------------------------------------------------
TypeOK ==
  /\ at \in {"next", "send", "wait", "more", "answered", "crashed", "done"} /\ sock \in {"none", "open", "closed"}
  /\ Len(frames) <= MaxDepth + 1 /\ lost \in BOOLEAN /\ failed \in BOOLEAN /\ held \in BOOLEAN /\ ret \in {1, 0, -1, -2, -10}

\* However the answer is cut into packets, unless one ends inside a line of the header (RecvCut): an answer that is as long as its header says
\* is the server's body. Only if a packet ended with the line end behind the header, this line end is the beginning of the data, and as much may
\* be missing at its end.
DataIsTheBody ==
  at = "answered" /\ ans.toReceive >= 0 /\ ans.length >= ans.toReceive =>
    \/ ans.data = answer.body
    \/ held /\ IsPrefix(CRLF, ans.data) /\ IsPrefix(ans.data, CRLF \o answer.body)

\* Over all answers and redirections: what is sent with a command is, of every cookie that was ever set for an end of the host's name and for a
\* beginning of the text of the directory (so one of /d goes to /de, too), the value it was given last, and each once.
LatestIsSent ==
  at = "wait" =>
    LET due == {k \in DOMAIN latest : <<Act.host, k[2]>> \in Within /\ IsPath([path |-> k[3]])} IN
    /\ Len(sent) = Cardinality(due)
    /\ {<< <<c.name, c.domain, c.path>>, c.value>> : c \in ToSet(sent)} = {<<k, latest[k]>> : k \in due}

\* A redirection to a place relative to the page leads to the same host, and to the directory the "../" lead to, if there are so many
\* directories above the page.
RedirectedWhereTold ==
  at = "next" /\ Len(frames) > 1 /\ Last(frames) # << >> =>
    LET from == Head(frames[Len(frames) - 1])
        to == ans.location[1]
    IN to.host = "" /\ to.up < Len(from.path) /\ (to.root => to.up = 0) =>
         /\ Act.host = from.host
         /\ Act.path = (IF to.root THEN << >> ELSE SubSeq(from.path, 1, Len(from.path) - 1 - to.up)) \o to.path

\* A run, with its redirections, that had no failure has left no socket open.
SocketsClosed == lost => failed
=============================================================================
