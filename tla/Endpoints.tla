----------------------------- MODULE Endpoints -----------------------------
(* Servers and clients of socks.c: the structures a program holds, the      *)
(* descriptors of the process in them, and SU_SelectMultiSocketForRead,     *)
(* whose callbacks may close and open sockets while it goes on.             *)
EXTENDS Integers, FiniteSetsExt, TLC

CONSTANTS Fds,         \* numbers of descriptors, 0 not among them
          Slots,       \* 1..n: the sons of the program's SU_TMultiSocket, and places for its other structures
          MaxPackets   \* packets of an UDP text

VARIABLES fd,          \* a descriptor is "free", "stream", "listen" or "dgram"
          blocks,      \* the descriptors whose calls block
          held,        \* the structure in each slot: [kind, sock]
          pass,        \* SU_SelectMultiSocketForRead: the slot it is at (0: not called), those ready, whether in the callback
          lost,        \* (history) descriptors of structures that were freed without closing them
          ret          \* what the last call has answered

vars == <<fd, blocks, held, pass, lost, ret>>

NotASocket == 0
Empty == [kind |-> "none", sock |-> NotASocket]
Idle == [slot |-> 0, ready |-> {}, inside |-> FALSE]
Free(x) == held[x].kind = "none"
Program == pass.slot = 0 \/ pass.inside        \* whose turn it is

Init ==
  /\ fd = [f \in Fds |-> "free"] /\ blocks = {} /\ held = [x \in Slots |-> Empty]
  /\ pass = Idle /\ lost = {} /\ ret = "none"

-----------------------------------------------------------------------------
(* The operating system: the lowest number that is free (external).         *)
FreeFds == {f \in Fds : fd[f] = "free"}
New == Min(FreeFds)
Opened(how) == fd' = [fd EXCEPT ![New] = how] /\ blocks' = blocks \cup {New}
Result(r) == ret' = r /\ UNCHANGED <<fd, blocks, held, lost>>
Hold(x, kind, how) ==
  /\ Opened(how) /\ held' = [held EXCEPT ![x] = [kind |-> kind, sock |-> New]]
  /\ ret' = "ok" /\ UNCHANGED <<lost>>
Lose(how) ==
  /\ Opened(how) /\ lost' = lost \cup {New} /\ UNCHANGED held

\* A type that is no type, no descriptor, a failure to bind or to connect (the socket is closed again): NULL.
SU_CreateServer(x) ==
  /\ Program /\ Free(x)
  /\ Result("NULL") \/ (FreeFds # {} /\ \E how \in {"stream", "dgram"} : Hold(x, "server", how))
  /\ UNCHANGED pass
\* After an unknown name the structure is freed, and the socket not closed.
SU_ClientConnect(x) ==
  /\ Program /\ Free(x)
  /\ \/ Result("NULL")
     \/ FreeFds # {} /\ \E how \in {"stream", "dgram"} : Hold(x, "client", how) \/ (Lose(how) /\ ret' = "NULL")
  /\ UNCHANGED pass

SU_ServerListen(x) ==
  /\ Program /\ held[x].kind = "server"
  /\ \/ Result("-1")
     \/ /\ held[x].sock # NotASocket /\ fd[held[x].sock] = "stream"
        /\ fd' = [fd EXCEPT ![held[x].sock] = "listen"] /\ ret' = "ok" /\ UNCHANGED <<blocks, held, lost>>
  /\ UNCHANGED pass
\* SU_ServerAcceptConnection, and with a timeout: 0 when nobody comes.
SU_ServerAcceptConnection(x, y) ==
  /\ Program /\ held[x].kind = "server" /\ Free(y)
  /\ \/ Result("-1")
     \/ held[x].sock \in blocks /\ Result("0")
     \/ held[x].sock # NotASocket /\ fd[held[x].sock] = "listen" /\ FreeFds # {} /\ Hold(y, "client", "stream")
  /\ UNCHANGED pass

\* Variant of Disconnected that leaves the number in the structure.
NumberLeft(s) == s
Disconnected(s) == [s EXCEPT !.sock = NotASocket]
\* SU_ServerDisconnect, SU_ClientDisconnect; SU_FreeSI, SU_FreeCS.
Close(x, left) ==
  /\ fd' = IF held[x].sock = NotASocket THEN fd ELSE [fd EXCEPT ![held[x].sock] = "free"]
  /\ blocks' = blocks \ {held[x].sock}
  /\ held' = [held EXCEPT ![x] = left] /\ ret' = "void" /\ UNCHANGED <<lost, pass>>
Disconnect(x) == Program /\ ~Free(x) /\ Close(x, Disconnected(held[x]))
FreeStructure(x) == Program /\ ~Free(x) /\ Close(x, Empty)

-----------------------------------------------------------------------------
\* The answers of sendto are added up, those of failures (-1) too; here a packet has one byte.
Sum(sent, k) == sent - (k - sent)
SU_UDPSend(x) ==
  /\ Program /\ held[x].kind = "server"
  /\ \/ Result("-1")                                     \* an unknown name
     \/ held[x].sock # NotASocket /\ fd[held[x].sock] = "dgram" /\ \E k \in 1..MaxPackets : \E sent \in 0..k : Result(ToString(Sum(sent, k)))
  /\ UNCHANGED pass
\* Blocking is only ever taken away, for later calls too.
SU_UDPReceiveFrom(x) ==
  /\ Program /\ held[x].kind = "server" /\ held[x].sock # NotASocket /\ fd[held[x].sock] = "dgram"
  /\ \E Blocking \in BOOLEAN : blocks' = IF Blocking THEN blocks ELSE blocks \ {held[x].sock}
  /\ ret' \in {"-1", "ok"} /\ UNCHANGED <<fd, held, lost, pass>>
SU_SetSocketBlocking(x) ==
  /\ Program /\ held[x].sock # NotASocket
  /\ \E Block \in BOOLEAN : blocks' = IF Block THEN blocks \cup {held[x].sock} ELSE blocks \ {held[x].sock}
  /\ ret' = "ok" /\ UNCHANGED <<fd, held, lost, pass>>

\* A server is made first: when the address of the card is wrong it is never freed. One packet.
SU_WakeUpComputer ==
  /\ Program /\ FreeFds # {}
  /\ \/ Lose("dgram") /\ ret' = "false"
     \/ Result("true") \/ Result("false")
  /\ UNCHANGED pass

-----------------------------------------------------------------------------
Sons == {x \in Slots : held[x].kind = "client" /\ held[x].sock # NotASocket}
SelectMulti ==
  /\ pass.slot = 0
  /\ \/ Result("-1") /\ UNCHANGED pass
     \/ Result("-2") /\ UNCHANGED pass
     \/ \E ready \in SUBSET Sons \ {{}} :
          /\ pass' = [slot |-> 1, ready |-> {held[x].sock : x \in ready}, inside |-> FALSE]
          /\ Result("none")
\* At each son: its callback is called when its number, as it is now, is among those that were ready.
Asked(x) == held[x].kind = "client" /\ held[x].sock \in pass.ready
Visit ==
  /\ pass.slot # 0 /\ ~pass.inside /\ Asked(pass.slot) /\ pass' = [pass EXCEPT !.inside = TRUE]
  /\ UNCHANGED <<fd, blocks, held, lost, ret>>
Passed ==
  /\ pass.slot # 0 /\ (pass.inside \/ ~Asked(pass.slot))
  /\ IF pass.slot + 1 \in Slots THEN pass' = [pass EXCEPT !.slot = @ + 1, !.inside = FALSE] /\ ret' = ret
     ELSE pass' = Idle /\ ret' = "0"
  /\ UNCHANGED <<fd, blocks, held, lost>>

Next ==
  \/ \E x \in Slots :
       \/ SU_CreateServer(x) \/ SU_ClientConnect(x) \/ SU_ServerListen(x) \/ Disconnect(x) \/ FreeStructure(x)
       \/ SU_UDPSend(x) \/ SU_UDPReceiveFrom(x) \/ SU_SetSocketBlocking(x)
       \/ \E y \in Slots : SU_ServerAcceptConnection(x, y)
  \/ SU_WakeUpComputer \/ SelectMulti \/ Visit \/ Passed
-----------------------------------------------------------------------------
TypeOK ==
  /\ fd \in [Fds -> {"free", "stream", "listen", "dgram"}] /\ blocks \subseteq Fds /\ lost \subseteq Fds
  /\ \A x \in Slots : held[x].kind \in {"none", "server", "client"} /\ held[x].sock \in Fds \cup {NotASocket}
  /\ pass.slot \in Slots \cup {0}

\* However calls fail, and callbacks close and open sockets: every descriptor that is open is the one of exactly one structure, or was lost by
\* a call that freed a structure without closing it; no structure has a number that was closed, and may be another's by now.
SocketsKept ==
  LET owned == {held[x].sock : x \in Slots} \ {NotASocket} IN
  /\ {f \in Fds : fd[f] # "free"} = owned \cup lost /\ owned \cap lost = {}
  /\ \A x, y \in Slots : held[x].sock = held[y].sock /\ x # y => held[x].sock = NotASocket
=============================================================================
