------------------------------ MODULE DebugLink ------------------------------
(* The debug channel: threads of a program call SU_DBG_PrintDebug (debug.c) *)
(* without a lock; it sends each message to the consoles in its slots, as a *)
(* length, a type and a text; su_dbg_console.c takes one program at a time, *)
(* in the order they connected. A stream is a sequence of 4-byte words, and *)
(* the k-th word of message m is <<m, k>>; a text is two words long.        *)
EXTENDS Integers, SequencesExt, FiniteSetsExt

CONSTANTS Threads,
          MaxSockets,  \* SU_DBG_MAX_SOCKETS
          Links,       \* the connections there may be in one run of the program, in their order
          NoSock,      \* SU_NOT_A_SOCKET
          MaxCalls,    \* calls the program makes in one run
          Room,        \* words the network holds for a receiver that does not read
          LenWords     \* the length is a size_t: 1 word or 2; the console takes a SU_u32

VARIABLES initDone, output, file,   \* SU_DBG_InitDone, SU_DBG_Output, and what SU_DBG_OUT_FILE_File points to
          slot,        \* SU_DBG_OUT_SOCKET_Socks
          run,         \* where each thread is, with its message, slot and new connection
          calls,       \* calls so far; a message has the number of its call
          up,          \* the program's end of each link: "free", "open", "closed"
          peer,        \* the console's end: "waiting", "served", "gone"
          wire,        \* what is on the way
          backlog,     \* links the console has not accepted, in their order
          console,     \* the link the console serves, the words of a message it has got, those of the text; it may be lost in the stream
          sent, shown, \* (history) per link, the messages begun and the messages whose texts were shown
          mixed,       \* (history) two threads were in the channel at a time
          broken       \* (history) a thread used a closed file or waited for no socket

vars == <<initDone, output, file, slot, run, calls, up, peer, wire, backlog, console, sent, shown, mixed, broken>>
program == <<initDone, output, file, slot, run, calls, up, sent, mixed, broken>>
channel == <<peer, wire, backlog, console, shown>>

Slots == 1..MaxSockets
Idle == [at |-> "idle", msg |-> 0, i |-> 1, new |-> NoSock, put |-> 0]
NoLink == [link |-> NoSock, got |-> 0, text |-> << >>, lost |-> FALSE]
\* Variant of TypeWords with a type of 32 bits.
TypeWordsNarrow == 1
TypeWords == 2
\* A message is sent in three parts: before each one select is asked.
Starts == {0, LenWords, LenWords + TypeWords}
Size == LenWords + TypeWords + 2

Init ==
  /\ initDone = FALSE /\ output \in SUBSET {"file", "socket"} /\ file = "none"
  /\ slot = [i \in Slots |-> NoSock] /\ run = [t \in Threads |-> Idle] /\ calls = 0
  /\ up = [c \in Links |-> "free"] /\ peer = [c \in Links |-> "gone"] /\ wire = [c \in Links |-> << >>]
  /\ backlog = << >> /\ console = NoLink
  /\ sent = [c \in Links |-> << >>] /\ shown = [c \in Links |-> << >>]
  /\ mixed = FALSE /\ broken = FALSE

-----------------------------------------------------------------------------
(* Calls of the program.                                                    *)
Go(t, at) == run' = [run EXCEPT ![t].at = at]
Back(t) == run' = [run EXCEPT ![t] = Idle]
Enter(t, r) ==
  /\ calls < MaxCalls /\ calls' = calls + 1
  /\ run[t] = Idle /\ run' = [run EXCEPT ![t] = r]
  /\ mixed' = (mixed \/ \E u \in Threads \ {t} : run[u] # Idle)

\* SU_DBG_SetOutput (and SetFlags, without a flag of the messages): one assignment.
SetOutput(t) ==
  /\ run[t] = Idle /\ calls < MaxCalls /\ calls' = calls + 1
  /\ output' \in SUBSET {"file", "socket"} \ {output}
  /\ UNCHANGED <<initDone, file, slot, run, up, sent, mixed, broken, channel>>

\* SU_DBG_OUT_FILE_SetOptions: the old file is closed, then the new one is opened, or none.
FileSetOptions(t) ==
  /\ Enter(t, [Idle EXCEPT !.at = "reopen"])
  /\ file' = IF file = "open" THEN "closed" ELSE file
  /\ UNCHANGED <<initDone, output, slot, up, sent, broken, channel>>
Reopen(t) ==
  /\ run[t].at = "reopen" /\ Back(t)
  /\ file' \in {"none", "open"}
  /\ UNCHANGED <<initDone, output, slot, calls, up, sent, mixed, broken, channel>>

SocketSetOptions(t) ==
  /\ Enter(t, [Idle EXCEPT !.at = "connect"])
  /\ UNCHANGED <<initDone, output, file, slot, up, sent, broken, channel>>

\* The first free slot is looked for; a host that answers is put into it when SU_ClientConnect is back. (A message tells that the thread is
\* in SU_DBG_Init, which connects to the hosts of the environment.)
Free == {i \in Slots : slot[i] = NoSock}
Resume(t) == IF run[t].msg = 0 THEN Back(t) ELSE Go(t, "inited")
Connect(t) ==
  /\ run[t].at = "connect"
  /\ \/ /\ Free # {}
        /\ \E c \in Links :
             /\ up[c] = "free" /\ (\A d \in Links : d < c => up[d] # "free")
             /\ run' = [run EXCEPT ![t].at = "store", ![t].i = Min(Free), ![t].new = c]
             /\ up' = [up EXCEPT ![c] = "open"] /\ peer' = [peer EXCEPT ![c] = "waiting"] /\ backlog' = Append(backlog, c)
     \/ Resume(t) /\ UNCHANGED <<up, peer, backlog>>
  /\ UNCHANGED <<initDone, output, file, slot, calls, sent, mixed, broken, wire, console, shown>>
Store(t) ==
  /\ run[t].at = "store" /\ slot' = [slot EXCEPT ![run[t].i] = run[t].new] /\ Resume(t)
  /\ UNCHANGED <<initDone, output, file, calls, up, sent, mixed, broken, channel>>

\* SU_DBG_PrintDebug. The flag is set when SU_DBG_Init is through: who prints meanwhile initialises, too.
PrintDebug(t) ==
  /\ Enter(t, [Idle EXCEPT !.at = IF initDone THEN "file" ELSE "connect", !.msg = calls + 1])
  /\ UNCHANGED <<initDone, output, file, slot, up, sent, broken, channel>>
Inited(t) ==
  /\ run[t].at = "inited" /\ initDone' = TRUE /\ run' = [run EXCEPT ![t].at = "file", ![t].i = 1, ![t].new = NoSock]
  /\ UNCHANGED <<output, file, slot, calls, up, sent, mixed, broken, channel>>
WriteFile(t) ==
  /\ run[t].at = "file" /\ Go(t, "slot")
  /\ broken' = (broken \/ ("file" \in output /\ file = "closed"))
  /\ UNCHANGED <<initDone, output, file, slot, calls, up, sent, mixed, channel>>

\* The next slot that is in use, or the end of the call.
Skip(t, i) == IF i = MaxSockets THEN Back(t) ELSE run' = [run EXCEPT ![t].at = "slot", ![t].i = i + 1]
NextSlot(t) ==
  /\ run[t].at = "slot"
  /\ LET i == run[t].i IN
     IF "socket" \notin output THEN Back(t) /\ UNCHANGED sent
     ELSE IF slot[i] = NoSock THEN Skip(t, i) /\ UNCHANGED sent
     ELSE run' = [run EXCEPT ![t].at = "select", ![t].put = 0] /\ sent' = [sent EXCEPT ![slot[i]] = Append(@, run[t].msg)]
  /\ UNCHANGED <<initDone, output, file, slot, calls, up, mixed, broken, channel>>

Sending(t) == run[t].at \in {"select", "send"}
LinkOf(t) == slot[run[t].i]
Full(c) == peer[c] # "gone" /\ Len(wire[c]) = Room

\* select answers as soon as there is room for anything; send then waits without a time limit until it has put all of the part.
Select(t) ==
  /\ run[t].at = "select" /\ LinkOf(t) # NoSock /\ ~Full(LinkOf(t)) /\ Go(t, "send")
  /\ UNCHANGED <<initDone, output, file, slot, calls, up, sent, mixed, broken, channel>>
Send(t) ==
  /\ run[t].at = "send" /\ LinkOf(t) # NoSock
  /\ LET c == LinkOf(t) put == run[t].put + 1 IN
       /\ up[c] = "open" /\ ~Full(c)
       /\ wire' = IF peer[c] = "gone" THEN wire ELSE [wire EXCEPT ![c] = Append(@, <<run[t].msg, put>>)]
       /\ IF put = Size THEN Skip(t, run[t].i)
          ELSE run' = [run EXCEPT ![t].at = IF put \in Starts THEN "select" ELSE "send", ![t].put = put]
  /\ UNCHANGED <<initDone, output, file, slot, calls, up, sent, mixed, broken, peer, backlog, console, shown>>

\* Variant of TimedOut that waits without an end.
TimedOutNever(t) == FALSE
\* select waits ten seconds for any room.
TimedOut(t) == run[t].at = "select" /\ Full(LinkOf(t))

\* Variant of Emptied that leaves the closed socket in its slot.
NotEmptied(i) == slot
Emptied(i) == [slot EXCEPT ![i] = NoSock]

\* The link is closed when select has waited in vain, when the other end is gone, or when send comes back before it has put all (a signal).
\* Its slot is free again.
Drop(t) ==
  /\ up' = [up EXCEPT ![LinkOf(t)] = "closed"] /\ slot' = Emptied(run[t].i)
  /\ Skip(t, run[t].i)
  /\ UNCHANGED <<initDone, output, file, calls, sent, mixed, broken, channel>>
DropLink(t) ==
  /\ Sending(t) /\ LinkOf(t) # NoSock
  /\ TimedOut(t) \/ peer[LinkOf(t)] = "gone" \/ up[LinkOf(t)] = "closed"
  /\ Drop(t)
Stalled(t) == run[t].at = "send" /\ LinkOf(t) # NoSock /\ Full(LinkOf(t))
ShortSend(t) == Stalled(t) /\ Drop(t)

\* Another thread has closed it meanwhile: select and close are given SU_NOT_A_SOCKET.
LostLink(t) ==
  /\ Sending(t) /\ LinkOf(t) = NoSock
  /\ broken' = TRUE /\ Skip(t, run[t].i)
  /\ UNCHANGED <<initDone, output, file, slot, calls, up, sent, mixed, channel>>

Thread(t) ==
  \/ Reopen(t) \/ Connect(t) \/ Store(t) \/ Inited(t) \/ WriteFile(t) \/ NextSlot(t)
  \/ Select(t) \/ Send(t) \/ DropLink(t) \/ LostLink(t)
Call(t) == SetOutput(t) \/ FileSetOptions(t) \/ SocketSetOptions(t) \/ PrintDebug(t)

-----------------------------------------------------------------------------
(* The console: main and GetSocketMessages.                                 *)
Accept ==
  /\ console.link = NoSock /\ backlog # << >>
  /\ console' = [NoLink EXCEPT !.link = Head(backlog)] /\ backlog' = Tail(backlog)
  /\ peer' = [peer EXCEPT ![Head(backlog)] = "served"]
  /\ UNCHANGED <<program, wire, shown>>

HangUp == console' = NoLink /\ peer' = [peer EXCEPT ![console.link] = "gone"] /\ UNCHANGED <<backlog, shown>>
\* Words of a recv: of the length (a SU_u32), of the type, or of what is missing of the text.
Wanted(got) == CASE got = 0 -> 1 [] got = 1 -> 2 [] OTHER -> 5 - got
\* The message two words are the text of: none, if they are something else.
TextOf(w) == IF w[1][1] = w[2][1] /\ w[1][2] = Size - 1 /\ w[2][2] = Size THEN w[1][1] ELSE 0
Recv ==
  /\ console.link # NoSock /\ wire[console.link] # << >>
  /\ LET c == console.link w == wire[c] got == console.got IN
     \E n \in 1..Min({Wanted(got), Len(w)}) :
       /\ wire' = [wire EXCEPT ![c] = SubSeq(w, n + 1, Len(w))]
       /\ \/ console.lost /\ UNCHANGED <<console, peer, backlog, shown>>
          \* A length or a type that comes in pieces ends the link.
          \/ ~console.lost /\ (got = 0 \/ (got = 1 /\ n < 2)) /\ HangUp
          \/ ~console.lost /\ got = 0 /\ w[1][2] = 1 /\ console' = [console EXCEPT !.got = 1] /\ UNCHANGED <<peer, backlog, shown>>
          \* Something else is taken for a length: from here on nothing is known of what is shown.
          \/ ~console.lost /\ got = 0 /\ w[1][2] # 1 /\ console' = [console EXCEPT !.lost = TRUE] /\ UNCHANGED <<peer, backlog, shown>>
          \/ ~console.lost /\ got = 1 /\ n = 2 /\ console' = [console EXCEPT !.got = 3] /\ UNCHANGED <<peer, backlog, shown>>
          \/ /\ ~console.lost /\ got > 1 /\ got + n < 5
             /\ console' = [console EXCEPT !.got = got + n, !.text = @ \o SubSeq(w, 1, n)] /\ UNCHANGED <<peer, backlog, shown>>
          \/ /\ ~console.lost /\ got > 1 /\ got + n = 5 /\ console' = [console EXCEPT !.got = 0, !.text = << >>]
             /\ shown' = [shown EXCEPT ![c] = Append(@, TextOf(console.text \o SubSeq(w, 1, n)))] /\ UNCHANGED <<peer, backlog>>
  /\ UNCHANGED program
EndOfLink ==
  /\ console.link # NoSock /\ wire[console.link] = << >> /\ up[console.link] = "closed"
  /\ HangUp /\ UNCHANGED <<program, wire>>

\* The console is ended and started again.
Restart ==
  /\ \E c \in Links : peer[c] # "gone"
  /\ peer' = [c \in Links |-> "gone"] /\ wire' = [c \in Links |-> << >>] /\ backlog' = << >> /\ console' = NoLink
  /\ UNCHANGED <<program, shown>>

Next == (\E t \in Threads : Call(t) \/ Thread(t) \/ ShortSend(t)) \/ Accept \/ Recv \/ EndOfLink \/ Restart
\* Every thread that is in the library goes on, as far as it can: select's timeout is one of its steps, a signal that ends a send is not, and
\* the console need not read.
Fairness == \A t \in Threads : WF_vars(Thread(t))
Spec == Init /\ [][Next]_vars /\ Fairness
-----------------------------------------------------------------------------
TypeOK ==
  /\ initDone \in BOOLEAN /\ output \subseteq {"file", "socket"} /\ file \in {"none", "open", "closed"}
  /\ slot \in [Slots -> Links \cup {NoSock}] /\ calls \in 0..MaxCalls /\ mixed \in BOOLEAN /\ broken \in BOOLEAN
  /\ \A t \in Threads : run[t].i \in Slots
  /\ \A c \in Links : up[c] \in {"free", "open", "closed"} /\ peer[c] \in {"waiting", "served", "gone"} /\ Len(wire[c]) <= Room
  /\ ToSet(backlog) \subseteq Links /\ console.got \in 0..4 /\ console.lost \in BOOLEAN

\* As long as no two threads are in the channel at a time, a console shows on each link the texts of the first messages that were sent on it, whole,
\* in order and each once, whatever timeouts, sends that came back short, ends of the console or reconnections there were, and no closed file or
\* missing socket is used. It holds where size_t has the 32 bits that the console reads for it (LenWords = 1), and on no other build.
WholeUnlessMixed ==
  ~mixed => ~broken /\ ~console.lost /\ \A c \in Links : IsPrefix(shown[c], sent[c])

\* As long as no two threads are in the channel at a time, every open link is in one slot, or about to be put into a slot that is free: none leaks,
\* and none is overwritten or sent to twice.
LinksInSlots ==
  ~mixed =>
    \A c \in Links :
      LET in == {i \in Slots : slot[i] = c}
          new == {t \in Threads : run[t].at = "store" /\ run[t].new = c}
      IN /\ Cardinality(in) + Cardinality(new) = (IF up[c] = "open" THEN 1 ELSE 0)
         /\ \A t \in new : slot[run[t].i] = NoSock

\* Every call of a thread comes to an end, whether the console reads, serves another program or is gone, but for one thing: select answers when
\* there is room for a part of what is sent, and the send that follows waits for the rest without a limit. A call that does not stay in such a send
\* for ever is back.
CallsReturn == \A t \in Threads : ([]<>~Stalled(t)) => (run[t] # Idle ~> run[t] = Idle)
=============================================================================
