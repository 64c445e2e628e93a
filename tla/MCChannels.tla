----------------------------- MODULE MCChannels -----------------------------
(* The parts whose calls wait for another thread, process or machine. One run *)
(* checks all of them, each one by itself: which one is chosen at the start.  *)
EXTENDS Threads

CONSTANTS Off,  \* the state of a part that is not being checked
  Printers, MaxSockets, Links, NoSock, MaxCalls, Room, LenWords,   \* of DebugLink, Printers for its Threads
  Last, SendSizes, PacketSizes, ReadSizes, Capacity, MaxWait,   \* of TcpTransfer
  Procs, Nobody, Start, Big, Faults                             \* of RegistryFile

VARIABLES part,   \* the part that is being checked
  debug_initDone, debug_output, debug_file, debug_slot, debug_run, debug_calls, debug_up, debug_peer, debug_wire,
  debug_backlog, debug_console, debug_sent, debug_shown, debug_mixed, debug_broken,
  tcp_wire, tcp_out, tcp_peer, tcp_sender, tcp_next, tcp_reader, tcp_told,
  reg_file, reg_head, reg_rest, reg_lock, reg_at, reg_tree, reg_done, reg_excuse

-----------------------------------------------------------------------------
TimesGiven == {-1, 1, 2}

Debug == INSTANCE DebugLink WITH
  Threads <- Printers,
  initDone <- debug_initDone, output <- debug_output, file <- debug_file, slot <- debug_slot, run <- debug_run,
  calls <- debug_calls, up <- debug_up, peer <- debug_peer, wire <- debug_wire, backlog <- debug_backlog,
  console <- debug_console, sent <- debug_sent, shown <- debug_shown, mixed <- debug_mixed, broken <- debug_broken
Tcp == INSTANCE TcpTransfer WITH
  wire <- tcp_wire, out <- tcp_out, peer <- tcp_peer, sender <- tcp_sender, next <- tcp_next, reader <- tcp_reader,
  told <- tcp_told
Reg == INSTANCE RegistryFile WITH
  file <- reg_file, head <- reg_head, rest <- reg_rest, lock <- reg_lock, at <- reg_at, tree <- reg_tree, done <- reg_done,
  excuse <- reg_excuse

-----------------------------------------------------------------------------
Parts == {"debug", "sem", "tcp", "reg"}
\* A part that is not being checked has no state; that of Threads, which this module extends, stays in an initial state.
PartsInit ==
  /\ part \in Parts
  /\ Init /\ (part # "sem" => now = 0)
  /\ IF part = "debug" THEN Debug!Init
     ELSE debug_initDone = Off /\ debug_output = Off /\ debug_file = Off /\ debug_slot = Off /\ debug_run = Off /\
          debug_calls = Off /\ debug_up = Off /\ debug_peer = Off /\ debug_wire = Off /\ debug_backlog = Off /\
          debug_console = Off /\ debug_sent = Off /\ debug_shown = Off /\ debug_mixed = Off /\ debug_broken = Off
  /\ IF part = "tcp" THEN Tcp!Init
     ELSE tcp_wire = Off /\ tcp_out = Off /\ tcp_peer = Off /\ tcp_sender = Off /\ tcp_next = Off /\
          tcp_reader = Off /\ tcp_told = Off
  /\ IF part = "reg" THEN Reg!Init
     ELSE reg_file = Off /\ reg_head = Off /\ reg_rest = Off /\ reg_lock = Off /\ reg_at = Off /\ reg_tree = Off /\
          reg_done = Off /\ reg_excuse = Off

debugVars == <<debug_initDone, debug_output, debug_file, debug_slot, debug_run, debug_calls, debug_up, debug_peer,
               debug_wire, debug_backlog, debug_console, debug_sent, debug_shown, debug_mixed, debug_broken>>
tcpVars == <<tcp_wire, tcp_out, tcp_peer, tcp_sender, tcp_next, tcp_reader, tcp_told>>
regVars == <<reg_file, reg_head, reg_rest, reg_lock, reg_at, reg_tree, reg_done, reg_excuse>>
\* Only the part that is being checked moves.
OthersStay(p) ==
  /\ UNCHANGED part
  /\ p # "debug" => UNCHANGED debugVars
  /\ p # "sem" => UNCHANGED vars
  /\ p # "tcp" => UNCHANGED tcpVars
  /\ p # "reg" => UNCHANGED regVars
PartsNext ==
  \/ part = "debug" /\ Debug!Next /\ OthersStay("debug")
  \/ part = "sem" /\ Next /\ OthersStay("sem")
  \/ part = "tcp" /\ Tcp!Next /\ OthersStay("tcp")
  \/ part = "reg" /\ Reg!Next /\ OthersStay("reg")
partsVars == <<part, debugVars, vars, tcpVars, regVars>>
\* The fairness of each part, and nothing else: its threads go on, time passes, select returns.
PartsFairness ==
  /\ \A t \in Printers : WF_partsVars(part = "debug" /\ Debug!Thread(t) /\ OthersStay("debug"))
  /\ WF_partsVars(part = "sem" /\ Tick /\ OthersStay("sem"))
  /\ \A t \in {"main", "other"} : WF_partsVars(part = "sem" /\ Waits(t) /\ OthersStay("sem"))
  /\ WF_partsVars(part = "tcp" /\ Tcp!Network /\ OthersStay("tcp"))
PartsSpec == PartsInit /\ [][PartsNext]_partsVars /\ PartsFairness
-----------------------------------------------------------------------------
\* Every part keeps its types.
PartsTyped ==
  /\ part = "debug" => Debug!TypeOK
  /\ part = "sem" => TypeOK
  /\ part = "tcp" => Tcp!TypeOK
  /\ part = "reg" => Reg!TypeOK

\* Debug messages come whole, in order and once (SU_DBG_PrintDebug), unless two threads are in the channel at a time: on a build whose size_t
\* has 32 bits. On others they do not come at all (MCDebugLink64.cfg).
WholeUnlessMixed ==
  /\ part = "debug" => Debug!WholeUnlessMixed

\* No connection of the debug channel leaks or is in two slots, unless two threads are in the channel at a time.
LinksInSlots ==
  /\ part = "debug" => Debug!LinksInSlots

\* What the reader is told is what was sent, in order, none twice and none left out, and a full buffer when it asks
\* for one (SU_SendTCPBuffer, SU_ReadTCPBuffer).
BytesInOrder ==
  /\ part = "tcp" => Tcp!BytesInOrder /\ Tcp!FullIsFull

\* Settings of processes that closed the registry are in its file, but for a race, a crash or a full disk in a close (SU_RB_CloseRegistry).
KeptUnlessExcused ==
  /\ part = "reg" => Reg!KeptUnlessExcused

\* What waits comes back: every call of the debug channel unless the send it is in stalls for ever, every timed wait for the semaphore unless the
\* process is stopped or dead, every timed read.
CallsReturn ==
  /\ \A t \in Printers :
       ([]<>~(part = "debug" /\ Debug!Stalled(t))) =>
         (part = "debug" /\ debug_run[t] # Debug!Idle ~> part = "debug" /\ debug_run[t] = Debug!Idle)
  /\ \A t \in {"main", "other"} :
       part = "sem" /\ at[t] = "timedwait" ~> part = "sem" /\ (at[t] # "timedwait" \/ process # "running")
  /\ part = "tcp" /\ tcp_reader.at = "select" /\ tcp_reader.timed ~> part = "tcp" /\ tcp_reader.at = "rest"
=============================================================================
