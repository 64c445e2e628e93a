----------------------------- MODULE DebugViewer -----------------------------
(* The graphical console of tools/su_dbg_win, GTK build: a thread that      *)
(* accepts programs, a thread for each of them that receives its messages   *)
(* (as the text console of DebugLink does), and the window, whose timer     *)
(* shows what they have put into a list.                                    *)
EXTENDS Integers, SequencesExt, FiniteSetsExt

CONSTANTS Clients,   \* the programs that connect, each one once
          MaxConns,  \* MAX_CONNS
          None,
          MaxMsgs    \* messages of one program

VARIABLES ConnStrs,  \* who is in each entry of the table, None for a free entry
          NbConns,
          listener,  \* the accepting thread: where it is, with the new program and its entry
          child,     \* the thread of each program
          L_sem,     \* who holds the semaphore
          L_Messages,
          drain,     \* the window's timer: 0, or the next message of the list it shows
          isDisplayed, config,   \* DisplayTable for the type of the messages, and that of the configuration file ("absent")
          due,       \* (history) the messages that were put into the list and are not on the screen
          raced      \* (history) two threads counted at a time

vars == <<ConnStrs, NbConns, listener, child, L_sem, L_Messages, drain, isDisplayed, config, due, raced>>

Entries == 1..MaxConns
Away == [at |-> "away", idx |-> 1, seen |-> 0, n |-> 0]

Fresh ==
  [ConnStrs |-> [i \in Entries |-> None], listener |-> [at |-> "accept", new |-> None, idx |-> 1, seen |-> 0],
   child |-> [c \in Clients |-> Away]]
Init ==
  /\ ConnStrs = Fresh.ConnStrs /\ NbConns = 0 /\ listener = Fresh.listener /\ child = Fresh.child
  /\ L_sem = None /\ L_Messages = << >> /\ drain = 0
  /\ config \in {"on", "off", "absent"} /\ isDisplayed = (IF config = "absent" THEN "on" ELSE config)     \* LoadCfg
  /\ due = << >> /\ raced = FALSE
Started ==
  /\ ConnStrs' = Fresh.ConnStrs /\ NbConns' = 0 /\ listener' = Fresh.listener /\ child' = Fresh.child
  /\ L_sem' = None /\ L_Messages' = << >> /\ drain' = 0 /\ due' = << >> /\ raced' = FALSE

-----------------------------------------------------------------------------
(* DisplayMessage: wait for the semaphore, append, post. (A message is its  *)
(* program and a number: 0 that it came, -1 that it went.)                  *)
Take(who) == L_sem = None /\ L_sem' = who
PutMessage(who, m) == L_sem = who /\ L_sem' = None /\ L_Messages' = Append(L_Messages, m) /\ due' = Append(due, m)
window == <<drain, isDisplayed, config>>

\* timeout_callback shows and frees one message after the other, and forgets the list.
Drain ==
  /\ drain = 0 /\ L_Messages # << >> /\ L_sem = None
  /\ L_sem' = "window" /\ drain' = 1
  /\ UNCHANGED <<ConnStrs, NbConns, listener, child, L_Messages, isDisplayed, config, due, raced>>
ShowOne ==
  /\ drain \in 1..Len(L_Messages)
  /\ due' = RemoveFirst(due, L_Messages[drain]) /\ drain' = drain + 1
  /\ UNCHANGED <<ConnStrs, NbConns, listener, child, L_sem, L_Messages, isDisplayed, config, raced>>
\* Variant of Forgotten that leaves the last message in the list.
LastLeft == <<Last(L_Messages)>>
Forgotten == << >>
Drained ==
  /\ drain > Len(L_Messages) /\ drain' = 0 /\ L_Messages' = Forgotten /\ L_sem' = None
  /\ UNCHANGED <<ConnStrs, NbConns, listener, child, isDisplayed, config, due, raced>>

\* The dialog sets the types.
UpdateDisplayTable ==
  /\ isDisplayed' \in {"on", "off"} \ {isDisplayed}
  /\ UNCHANGED <<ConnStrs, NbConns, listener, child, L_sem, L_Messages, drain, config, due, raced>>

\* The window is closed: the types are saved, and loaded when the program is started again.
SaveAndLoadCfg ==
  /\ drain = 0 /\ config' = isDisplayed /\ isDisplayed' = config'
  /\ Started

-----------------------------------------------------------------------------
(* ThreadFunc and SetNewConnect. The count is read, then written.           *)
Counting == listener.at = "count" \/ \E c \in Clients : child[c].at = "count"

Accept ==
  /\ listener.at = "accept"
  /\ \E c \in Clients :
       /\ child[c].at = "away" /\ child' = [child EXCEPT ![c].at = "connected"]
       /\ listener' = IF NbConns >= MaxConns THEN [listener EXCEPT !.at = "ended"] ELSE [listener EXCEPT !.at = "say", !.new = c]
  /\ UNCHANGED <<ConnStrs, NbConns, L_sem, L_Messages, due, raced, window>>
ListenerTake ==
  /\ listener.at = "say" /\ Take("listener") /\ listener' = [listener EXCEPT !.at = "put"]
  /\ UNCHANGED <<ConnStrs, NbConns, child, L_Messages, due, raced, window>>
ListenerPut ==
  /\ listener.at = "put" /\ PutMessage("listener", <<listener.new, 0>>) /\ listener' = [listener EXCEPT !.at = "enter"]
  /\ UNCHANGED <<ConnStrs, NbConns, child, raced, window>>

FreeEntries == {i \in Entries : ConnStrs[i] = None}
\* A table that is full though the count is not makes it answer the first entry.
Enter ==
  /\ listener.at = "enter"
  /\ IF FreeEntries = {} THEN listener' = [listener EXCEPT !.at = "start", !.idx = 1] /\ UNCHANGED <<ConnStrs, raced>>
     ELSE /\ ConnStrs' = [ConnStrs EXCEPT ![Min(FreeEntries)] = listener.new]
          /\ listener' = [listener EXCEPT !.at = "count", !.idx = Min(FreeEntries), !.seen = NbConns]
          /\ raced' = (raced \/ Counting)
  /\ UNCHANGED <<NbConns, child, L_sem, L_Messages, due, window>>
CountUp ==
  /\ listener.at = "count" /\ NbConns' = listener.seen + 1 /\ listener' = [listener EXCEPT !.at = "start"]
  /\ UNCHANGED <<ConnStrs, child, L_sem, L_Messages, due, raced, window>>
StartChild ==
  /\ listener.at = "start"
  /\ child' = [child EXCEPT ![listener.new] = [Away EXCEPT !.at = "receive", !.idx = listener.idx]]
  /\ listener' = [listener EXCEPT !.at = "accept", !.new = None, !.idx = 1, !.seen = 0]
  /\ UNCHANGED <<ConnStrs, NbConns, L_sem, L_Messages, due, raced, window>>
\* NewThread fails: the accepting thread ends, and leaves the entry, the count and the socket as they are.
StartFails ==
  /\ listener.at = "start" /\ listener' = [listener EXCEPT !.at = "ended"]
  /\ UNCHANGED <<ConnStrs, NbConns, child, L_sem, L_Messages, due, raced, window>>

-----------------------------------------------------------------------------
(* ThreadFuncChild, GetSocketMessages and RemoveConnect.                    *)
Step(c, at) == child' = [child EXCEPT ![c].at = at]
Receive(c) ==
  /\ child[c].at = "receive" /\ child[c].n < MaxMsgs
  /\ child' = [child EXCEPT ![c].n = @ + 1, ![c].at = IF isDisplayed = "on" THEN "say" ELSE "receive"]
  /\ UNCHANGED <<ConnStrs, NbConns, listener, L_sem, L_Messages, due, raced, window>>
Hangup(c) ==
  /\ child[c].at = "receive" /\ Step(c, "bye")
  /\ UNCHANGED <<ConnStrs, NbConns, listener, L_sem, L_Messages, due, raced, window>>
ChildTake(c) ==
  /\ \/ child[c].at = "say" /\ Step(c, "put")
     \/ child[c].at = "bye" /\ Step(c, "putbye")
  /\ Take(c) /\ UNCHANGED <<ConnStrs, NbConns, listener, L_Messages, due, raced, window>>
ChildPut(c) ==
  /\ \/ child[c].at = "put" /\ Step(c, "receive") /\ PutMessage(c, <<c, child[c].n>>)
     \/ child[c].at = "putbye" /\ Step(c, "remove") /\ PutMessage(c, <<c, -1>>)
  /\ UNCHANGED <<ConnStrs, NbConns, listener, raced, window>>

\* Variant of Vacated that frees the entry of whoever came first.
VacatedFirst(c) == 1
Vacated(c) == child[c].idx
RemoveConnect(c) ==
  /\ child[c].at = "remove" /\ ConnStrs' = [ConnStrs EXCEPT ![Vacated(c)] = None]
  /\ child' = [child EXCEPT ![c].at = "count", ![c].seen = NbConns] /\ raced' = (raced \/ Counting)
  /\ UNCHANGED <<NbConns, listener, L_sem, L_Messages, due, window>>
CountDown(c) ==
  /\ child[c].at = "count" /\ NbConns' = child[c].seen - 1 /\ Step(c, "ended")
  /\ UNCHANGED <<ConnStrs, listener, L_sem, L_Messages, due, raced, window>>

Next ==
  \/ Drain \/ ShowOne \/ Drained \/ UpdateDisplayTable \/ SaveAndLoadCfg
  \/ Accept \/ ListenerTake \/ ListenerPut \/ Enter \/ CountUp \/ StartChild \/ StartFails
  \/ \E c \in Clients : Receive(c) \/ Hangup(c) \/ ChildTake(c) \/ ChildPut(c) \/ RemoveConnect(c) \/ CountDown(c)
-----------------------------------------------------------------------------
TypeOK ==
  /\ NbConns \in Int /\ listener.idx \in Entries /\ L_sem \in Clients \cup {None, "window", "listener"}
  /\ isDisplayed \in {"on", "off"} /\ config \in {"on", "off", "absent"} /\ drain \in 0..(Len(L_Messages) + 1)
  /\ \A i \in Entries : ConnStrs[i] \in Clients \cup {None}

\* What is in the list and not yet on the screen is what was put there and not yet shown: every message of every thread comes to the screen once, and
\* in the order of their coming, though the timer forgets the whole list when it is through with it.
NoMessageLost == SubSeq(L_Messages, IF drain = 0 THEN 1 ELSE drain, Len(L_Messages)) = due

\* As long as no two threads count at a time: each program whose messages are received has an entry of the table for itself, no entry is left to a
\* program that is gone, and there is one for every program that is let in. (The entry of a program whose thread could not be made is kept by nobody;
\* that happens once, as nobody else is let in after it.)
EntryPerLink ==
  ~raced =>
    /\ \A i \in Entries : ConnStrs[i] # None =>
         \/ listener.at \in {"count", "start", "ended"} /\ listener.new = ConnStrs[i] /\ listener.idx = i
         \/ child[ConnStrs[i]].idx = i /\ child[ConnStrs[i]].at \in {"receive", "say", "put", "bye", "putbye", "remove"}
    /\ \A c \in Clients : child[c].at \in {"receive", "say", "put", "bye", "putbye", "remove"} => ConnStrs[child[c].idx] = c
    /\ listener.at = "enter" => FreeEntries # {}
=============================================================================
