------------------------------ MODULE Services ------------------------------
(* The parts of the library that deal with something outside the program:   *)
(* the registry of Windows, the programs that show their messages in the    *)
(* viewer, sockets, servers, processes and files that others use. They      *)
(* share no state, so each behaviour is one of a single part: which one is  *)
(* chosen at the start.                                                     *)
EXTENDS Integers, FiniteSets, Sequences

CONSTANTS
  Off,                                     \* the state of a part that another behaviour is of
  Nil,                                     \* no name, no program
  KeyPaths, ValueNames, Types, Handles, MayDeny, Recursive,   \* of WinRegistry
  Clients, MaxConns, MaxMsgs,              \* of DebugViewer
  Descriptors, Slots, MaxPackets,          \* of Endpoints
  Requests, Answers, Known, Within, Files, Begins, MaxDepth,   \* of HttpClient
  MayFail,                                 \* of Daemon
  Programs, MaxWrites                      \* of SharedFile

\* NULL is no program; numbers of handles and of descriptors are not 0, a path is not empty; there is an entry, and a son.
ASSUME ServicesAssumption ==
  /\ "0" \notin Handles /\ KeyPaths \subseteq Seq(STRING) \ {<< >>} /\ ValueNames \subseteq STRING
  /\ {Nil, "window", "listener"} \cap Clients = {} /\ Nil \notin {"window", "listener"} /\ MaxConns \in Nat \ {0}
  /\ Descriptors \subseteq Nat \ {0} /\ \E n \in 1..Cardinality(Slots) : Slots = 1..n
  /\ MaxDepth \in Nat /\ MaxWrites \in Nat

\* A place is an URL, or, without a host, a path: relative, or one that begins with a slash (root). A path that is "/" has an empty segment.
Locations ==
  {l \in [host : STRING, root : BOOLEAN, up : Nat, path : Seq(STRING), ssl : BOOLEAN] : l.host = "" => l.path # << >>}
\* What a line of a header tells. A length is that of the body.
HeaderLines ==
  [tag : {"code"}, code : Nat] \cup [tag : {"length"}, length : Nat] \cup [tag : {"location"}, location : Locations]
    \cup [tag : {"cookie"}, name : STRING, value : Nat, domain : STRING, path : Seq(STRING)]
BodyBytes == [tag : {"byte"}, byte : 0..255]
Actions == [command : STRING, host : STRING, path : Seq(STRING), file : STRING, ssl : BOOLEAN]
ASSUME RequestsAssumption == Requests \subseteq Seq(Actions)
ASSUME AnswersAssumption ==
  \A a \in Answers :
    /\ a.lines \in Seq(HeaderLines) /\ a.body \in Seq(BodyBytes)
    /\ \A i \in DOMAIN a.lines : a.lines[i].tag = "length" => a.lines[i].length = Len(a.body)

VARIABLES service,   \* the part this behaviour is of; Off: none of these
  key_keys, key_values, key_handle, key_client, key_call, key_answer,
  window_ConnStrs, window_NbConns, window_listener, window_child, window_L_sem, window_L_Messages, window_drain,
  window_isDisplayed, window_config, window_due, window_raced,
  ends_fd, ends_blocks, ends_held, ends_pass, ends_lost, ends_ret,
  http_frames, http_at, http_sock, http_wire, http_answer, http_ans, http_held, http_jar, http_sent, http_latest,
  http_lost, http_failed, http_ret,
  daemon_procs, daemon_ids, daemon_asked, daemon_printed,
  file_file, file_call, file_handle, file_writes, file_emptied

Key == INSTANCE WinRegistry WITH
  Paths <- KeyPaths, Names <- ValueNames, keys <- key_keys, values <- key_values, handle <- key_handle,
  client <- key_client, call <- key_call, answer <- key_answer
Window == INSTANCE DebugViewer WITH
  None <- Nil, ConnStrs <- window_ConnStrs,
  NbConns <- window_NbConns, listener <- window_listener, child <- window_child, L_sem <- window_L_sem,
  L_Messages <- window_L_Messages, drain <- window_drain, isDisplayed <- window_isDisplayed, config <- window_config,
  due <- window_due, raced <- window_raced
Ends == INSTANCE Endpoints WITH
  Fds <- Descriptors, fd <- ends_fd, blocks <- ends_blocks, held <- ends_held,
  pass <- ends_pass, lost <- ends_lost, ret <- ends_ret
Http == INSTANCE HttpClient WITH
  frames <- http_frames, at <- http_at, sock <- http_sock, wire <- http_wire, answer <- http_answer,
  ans <- http_ans, held <- http_held, jar <- http_jar, sent <- http_sent, latest <- http_latest, lost <- http_lost,
  failed <- http_failed, ret <- http_ret
Daemon == INSTANCE Daemon WITH
  procs <- daemon_procs, ids <- daemon_ids, asked <- daemon_asked, printed <- daemon_printed
File == INSTANCE SharedFile WITH
  file <- file_file, call <- file_call, handle <- file_handle,
  writes <- file_writes, emptied <- file_emptied

-----------------------------------------------------------------------------
AllServices == {"key", "window", "ends", "http", "daemon", "file"}
\* A part that is not the one has no state.
ServicesInit ==
  /\ service \in AllServices \cup {Off}
  /\ IF service = "key" THEN Key!Init
     ELSE key_keys = Off /\ key_values = Off /\ key_handle = Off /\ key_client = Off /\ key_call = Off /\
          key_answer = Off
  /\ IF service = "window" THEN Window!Init
     ELSE window_ConnStrs = Off /\ window_NbConns = Off /\ window_listener = Off /\ window_child = Off /\
          window_L_sem = Off /\ window_L_Messages = Off /\ window_drain = Off /\ window_isDisplayed = Off /\
          window_config = Off /\ window_due = Off /\ window_raced = Off
  /\ IF service = "ends" THEN Ends!Init
     ELSE ends_fd = Off /\ ends_blocks = Off /\ ends_held = Off /\ ends_pass = Off /\ ends_lost = Off /\
          ends_ret = Off
  /\ IF service = "http" THEN Http!Init
     ELSE http_frames = Off /\ http_at = Off /\ http_sock = Off /\ http_wire = Off /\ http_answer = Off /\
          http_ans = Off /\ http_held = Off /\ http_jar = Off /\ http_sent = Off /\ http_latest = Off /\
          http_lost = Off /\ http_failed = Off /\ http_ret = Off
  /\ IF service = "daemon" THEN Daemon!Init
     ELSE daemon_procs = Off /\ daemon_ids = Off /\ daemon_asked = Off /\ daemon_printed = Off
  /\ IF service = "file" THEN File!Init
     ELSE file_file = Off /\ file_call = Off /\ file_handle = Off /\ file_writes = Off /\ file_emptied = Off

keyVars == <<key_keys, key_values, key_handle, key_client, key_call, key_answer>>
windowVars == <<window_ConnStrs, window_NbConns, window_listener, window_child, window_L_sem, window_L_Messages,
                window_drain, window_isDisplayed, window_config, window_due, window_raced>>
endsVars == <<ends_fd, ends_blocks, ends_held, ends_pass, ends_lost, ends_ret>>
httpVars == <<http_frames, http_at, http_sock, http_wire, http_answer, http_ans, http_held, http_jar, http_sent,
              http_latest, http_lost, http_failed, http_ret>>
daemonVars == <<daemon_procs, daemon_ids, daemon_asked, daemon_printed>>
fileVars == <<file_file, file_call, file_handle, file_writes, file_emptied>>
\* Only the part that was chosen moves.
OthersStay(p) ==
  /\ UNCHANGED service
  /\ p # "key" => UNCHANGED keyVars
  /\ p # "window" => UNCHANGED windowVars
  /\ p # "ends" => UNCHANGED endsVars
  /\ p # "http" => UNCHANGED httpVars
  /\ p # "daemon" => UNCHANGED daemonVars
  /\ p # "file" => UNCHANGED fileVars
ServicesNext ==
  \/ service = "key" /\ Key!Next /\ OthersStay("key")
  \/ service = "window" /\ Window!Next /\ OthersStay("window")
  \/ service = "ends" /\ Ends!Next /\ OthersStay("ends")
  \/ service = "http" /\ Http!Next /\ OthersStay("http")
  \/ service = "daemon" /\ Daemon!Next /\ OthersStay("daemon")
  \/ service = "file" /\ File!Next /\ OthersStay("file")
servicesVars == <<service, keyVars, windowVars, endsVars, httpVars, daemonVars, fileVars>>
ServicesSpec == ServicesInit /\ [][ServicesNext]_servicesVars
-----------------------------------------------------------------------------
\* Every part keeps its types.
ServicesTyped ==
  /\ service = "key" => Key!TypeOK
  /\ service = "window" => Window!TypeOK
  /\ service = "ends" => Ends!TypeOK
  /\ service = "http" => Http!TypeOK
  /\ service = "daemon" => Daemon!TypeOK
  /\ service = "file" => File!TypeOK

\* What a part was given by malloc, by the system or by a program that connects, it reaches: handles of registry keys
\* (registry.c), descriptors of sockets (socks.c, web.c), entries of the viewer's table (su_dbg_win.c). Each has one owner, and nobody holds what was given back.
NothingLost ==
  /\ service = "key" => Key!HandlesKept
  /\ service = "ends" => Ends!SocketsKept
  /\ service = "http" => Http!SocketsClosed
  /\ service = "window" => Window!EntryPerLink

\* Every message the viewer takes comes to its window once, in order (su_dbg_win.c).
NoMessageLost ==
  /\ service = "window" => Window!NoMessageLost

\* The data of an answer is the body the server sent, however it was cut into packets (ParseBuffer, WaitForAnswer).
DataIsTheBody ==
  /\ service = "http" => Http!DataIsTheBody

\* A command goes where its action or a redirection told, and takes the cookies of its host and directory along, with the latest values
\* (SendCookies, SU_AddLocationToUrl).
CommandsAsTold ==
  /\ service = "http" => Http!LatestIsSent /\ Http!RedirectedWhereTold

\* One process comes back from SU_Daemonize, away from the terminal; it becomes the user and group that were asked for, or is told that it
\* did not (SU_SetUserGroup).
DaemonAsAsked ==
  /\ service = "daemon" => Daemon!Daemonized /\ Daemon!BecomesWhoAsked

\* Nobody who opens a file for reading or appending empties it, whatever other programs do meanwhile (SU_OpenFile).
NotEmptiedUnasked ==
  /\ service = "file" => File!NotEmptiedUnasked
=============================================================================
