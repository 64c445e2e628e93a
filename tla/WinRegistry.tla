---------------------------- MODULE WinRegistry ----------------------------
(* The registry of the Windows build (registry.c 40-630): SU_RB_* over the  *)
(* registry of the system, which other programs change between two calls    *)
(* of the Windows API. One thread of the library; one API call is one step. *)
EXTENDS Integers, SequencesExt

CONSTANTS Paths,      \* the keys below the four roots the library knows: sequences of names
          Names,      \* names of values and of keys to delete
          Types,      \* REG_SZ, REG_DWORD, REG_BINARY
          Handles,    \* what the system numbers opened keys with
          MayDeny,    \* does the system refuse access at times
          Recursive   \* only SHDeleteKey is there, not RegDeleteKeyEx (one of them always is)

VARIABLES keys,       \* the keys there are (external: the system's)
          values,     \* the values there are: key, name, type (external)
          handle,     \* the open handles and their keys (external)
          client,     \* the handles the program was given and has not closed
          call,       \* the function being run
          answer      \* what the last function answered

vars == <<keys, values, handle, client, call, answer>>

Idle == [op |-> "idle"]
NoHandle == "0"
Root == << >>         \* a predefined key: it is always there and needs no handle
AllKeys == {Root} \cup UNION {{SubSeq(p, 1, n) : n \in 1..Len(p)} : p \in Paths}
Here == IF call.h = NoHandle THEN Root ELSE handle[call.h]

Init ==
  /\ keys = {Root} /\ values = {} /\ handle = << >> /\ client = {}
  /\ call = Idle /\ answer = <<"none">>

Closed(h) == [g \in DOMAIN handle \ {h} |-> handle[g]]
\* Variant of Finish that leaves the last key of the walk open.
FinishLeaking(a, h) == handle' = handle /\ call' = Idle /\ answer' = a
Finish(a, h) == handle' = Closed(h) /\ call' = Idle /\ answer' = a

-----------------------------------------------------------------------------
(* A call begins with the walk to the key that holds the value: all names   *)
(* of the path but the last. DelKey and DelValue have the name as the last. *)
Begin(op) ==
  /\ call = Idle
  /\ \E p \in Paths, n \in Names, t \in Types :
       call' = [op |-> op, path |-> p, name |-> n, type |-> t, i |-> 1, h |-> NoHandle, seen |-> FALSE]
  /\ UNCHANGED <<keys, values, handle, client, answer>>

\* One step of the walk: the next key is opened, or for a Set or CreateKeys made; the one before is closed, also when this fails.
Walking == call # Idle /\ (call # Idle => call.i <= Len(call.path))
Creates == call.op \in {"set", "createkeys"}
Asks == {"get", "length"}
Next1 == Append(Here, call.path[call.i])
WalkStep ==
  /\ Walking
  /\ Next1 \in keys \/ (Creates /\ Here \in keys)
  /\ \E h \in Handles \ DOMAIN handle :
       /\ handle' = [g \in (DOMAIN handle \ {call.h}) \cup {h} |-> IF g = h THEN Next1 ELSE handle[g]]
       /\ call' = [call EXCEPT !.i = @ + 1, !.h = h]
  /\ keys' = keys \cup {Next1} /\ UNCHANGED <<values, client, answer>>
WalkFails ==
  /\ Walking
  /\ MayDeny \/ ~(Next1 \in keys \/ (Creates /\ Here \in keys))
  /\ Finish(IF call.op = "get" THEN <<"get", TRUE, "default">> ELSE <<call.op, FALSE>>, call.h)
  /\ UNCHANGED <<keys, values, client>>

Arrived(op) == call # Idle /\ (call # Idle => call.op = op /\ call.i > Len(call.path))
Stored(n) == {v \in values : v.key = Here /\ v.name = n}

\* SU_RB_OpenKeys, SU_RB_CreateKeys: the handle is the program's, who must close it.
ReturnKey ==
  /\ Arrived("openkeys") \/ Arrived("createkeys")
  /\ client' = client \cup {call.h} /\ call' = Idle /\ answer' = <<call.op, TRUE>>
  /\ UNCHANGED <<keys, values, handle>>
SU_RB_CloseKey ==
  /\ call = Idle /\ \E h \in client : handle' = Closed(h) /\ client' = client \ {h}
  /\ UNCHANGED <<keys, values, call, answer>>

\* The type is asked first; a value of another type ends the call, no value at all does not.
QueryType ==
  /\ \E op \in Asks : Arrived(op)
  /\ ~call.seen
  /\ IF \E v \in Stored(call.name) : v.type # call.type
       THEN Finish(<<call.op, FALSE>>, call.h)
       ELSE call' = [call EXCEPT !.seen = TRUE] /\ UNCHANGED <<handle, answer>>
  /\ UNCHANGED <<keys, values, client>>
\* Then the value or its length, whatever its type is by now; with no value the program keeps what it had.
QueryValue ==
  /\ \E op \in Asks : Arrived(op)
  /\ call.seen
  /\ Finish(<<call.op, TRUE, IF Stored(call.name) = {} THEN "default" ELSE (CHOOSE v \in Stored(call.name) : TRUE).type>>, call.h)
  /\ UNCHANGED <<keys, values, client>>

Held(n) == [key |-> Here, name |-> n, type |-> call.type]
SetValue ==
  /\ Arrived("set")
  /\ \E ok \in {~MayDeny, TRUE} :
       /\ values' = IF ok /\ Here \in keys THEN (values \ Stored(call.name)) \cup {Held(call.name)} ELSE values
       /\ Finish(<<"set", ok /\ Here \in keys>>, call.h)
  /\ UNCHANGED <<keys, client>>

\* Variant of Below that does not look at the keys below.
Alone(k) == {j \in keys : j = k}
\* RegDeleteKeyEx refuses a key that has others below it; SHDeleteKey takes them with it.
Below(k) == {j \in keys : IsPrefix(k, j)}
Deletable(k) == k \in keys /\ (Recursive \/ Below(k) = {k})
WithoutKey(k) == keys' = keys \ Below(k) /\ values' = {v \in values : ~IsPrefix(k, v.key)}
DelKey ==
  /\ Arrived("delkey")
  /\ LET k == Append(Here, call.name) IN
       IF Deletable(k) THEN WithoutKey(k) /\ Finish(<<"delkey", TRUE>>, call.h)
       ELSE Finish(<<"delkey", FALSE>>, call.h) /\ UNCHANGED <<keys, values>>
  /\ UNCHANGED client
DelValue ==
  /\ Arrived("delvalue")
  /\ values' = values \ Stored(call.name) /\ Finish(<<"delvalue", Stored(call.name) # {}>>, call.h)
  /\ UNCHANGED <<keys, client>>

\* Another program: it makes or deletes a key, or sets a value.
Others ==
  /\ \/ \E k \in AllKeys \ {Root} : Front(k) \in keys /\ keys' = keys \cup {k} /\ UNCHANGED values
     \/ \E k \in keys \ {Root} : Below(k) = {k} /\ WithoutKey(k)
     \/ \E k \in keys \ {Root}, n \in Names, t \in Types :
          /\ values' = {v \in values : v.key # k \/ v.name # n} \cup {[key |-> k, name |-> n, type |-> t]}
          /\ UNCHANGED keys
  /\ UNCHANGED <<handle, client, call, answer>>

SU_RB_OpenKeys == Begin("openkeys")
SU_RB_CreateKeys == Begin("createkeys")
SU_RB_GetValue == Begin("get")
SU_RB_GetLength == Begin("length")
SU_RB_SetValue == Begin("set")
SU_RB_DelKey == Begin("delkey")
SU_RB_DelValue == Begin("delvalue")

Next ==
  \/ SU_RB_OpenKeys \/ SU_RB_CreateKeys \/ SU_RB_GetValue \/ SU_RB_GetLength \/ SU_RB_SetValue
  \/ SU_RB_DelKey \/ SU_RB_DelValue
  \/ WalkStep \/ WalkFails \/ ReturnKey \/ SU_RB_CloseKey
  \/ QueryType \/ QueryValue \/ SetValue \/ DelKey \/ DelValue \/ Others
-----------------------------------------------------------------------------
TypeOK ==
  /\ keys \subseteq AllKeys /\ Root \in keys /\ client \subseteq DOMAIN handle /\ DOMAIN handle \subseteq Handles
  /\ \A k \in keys \ {Root} : Front(k) \in keys

\* Whatever fails on the way, a call leaves no handle open but the one it gives to the program; and while it runs it has one.
HandlesKept ==
  DOMAIN handle = client \cup (IF call = Idle THEN {} ELSE {call.h} \ {NoHandle})
=============================================================================
