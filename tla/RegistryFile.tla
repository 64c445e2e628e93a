---------------------------- MODULE RegistryFile ----------------------------
(* The registry file of the unix build as several processes share it:      *)
(* SU_RB_OpenRegistry and SU_RB_CloseRegistry, one call to libc or the      *)
(* system per step. Registry.tla has what one process sees of the tree;     *)
(* here a tree is the set of the processes whose settings are in it.        *)
EXTENDS FiniteSets, Naturals

CONSTANTS Procs,      \* the processes; each one sets a value of its own
          Nobody,
          Start,      \* what there may be at the start: a subset of {"none", "written"}, a file with no setting of Procs
          Big,        \* the tree is larger than the buffer of stdio: a part of it is written before fclose
          Faults      \* what may go wrong: a subset of {"crash", "full"}

VARIABLES file,       \* "none", "empty" (just made) or "written"
          head, rest, \* the trees that the part that is written first and the part fclose writes are of
          lock,       \* who holds the lock on the file
          at,         \* where each process is
          tree,       \* the tree it has in memory
          done,       \* (history) the processes whose close has answered true since
          excuse      \* (history) what has happened that can lose a setting

vars == <<file, head, rest, lock, at, tree, done, excuse>>
fileVars == <<file, head, rest>>

Init ==
  /\ file \in Start /\ head = {} /\ rest = {} /\ lock = Nobody
  /\ at = [p \in Procs |-> "out"] /\ tree = [p \in Procs |-> {}]
  /\ done = {} /\ excuse = {}

Go(p, from, to) == at[p] = from /\ at' = [at EXCEPT ![p] = to]
Excused(it, what) == excuse' = IF it THEN excuse \cup {what} ELSE excuse

\* A process ends, whatever the way: the system takes its lock away, what it had in memory is lost. It may be started again.
End(p) ==
  /\ at' = [at EXCEPT ![p] = "out"] /\ tree' = [tree EXCEPT ![p] = {}]
  /\ lock' = IF lock = p THEN Nobody ELSE lock
  /\ UNCHANGED <<fileVars, done>>

-----------------------------------------------------------------------------
(* SU_RB_OpenRegistry                                                       *)
OpenExisting(p) == file # "none" /\ Go(p, "out", "found") /\ UNCHANGED <<fileVars, lock, tree, done, excuse>>
OpenMissing(p) == file = "none" /\ Go(p, "out", "missing") /\ UNCHANGED <<fileVars, lock, tree, done, excuse>>

\* "w+b" empties the file that another process may have made and written since.
Create(p) ==
  /\ Go(p, "missing", "made") /\ file' = "empty" /\ head' = {} /\ rest' = {}
  /\ Excused(file = "written", "race")
  /\ UNCHANGED <<lock, tree, done>>

\* Variant of LockFree that takes the answer of flock for granted.
LockIgnored(p) == TRUE
LockFree(p) == lock = Nobody

\* The lock protects too little: it is free before the last write of a close, and the process that made the file does not look what another
\* has written since.
Lock(p, from, to) ==
  /\ LockFree(p) /\ Go(p, from, to) /\ lock' = p
  /\ tree' = [tree EXCEPT ![p] = {}]
  /\ Excused((\E q \in Procs : at[q] = "unlocked") \/ (from = "made" /\ file = "written"), "race")
  /\ UNCHANGED <<fileVars, done>>
LockFound(p) == Lock(p, "found", "locked")
LockMade(p) == Lock(p, "made", "open")

\* A lock that is held makes the open fail, and the closed FILE stays in _SU_RB_RegFile, the root without a name.
LockFails(p) ==
  /\ ~LockFree(p) /\ (Go(p, "found", "failed") \/ Go(p, "made", "failed"))
  /\ UNCHANGED <<fileVars, lock, tree, done, excuse>>

LoadWhole(p) ==
  /\ file = "written" /\ head = rest /\ Go(p, "locked", "open")
  /\ tree' = [tree EXCEPT ![p] = head]
  /\ UNCHANGED <<fileVars, lock, done, excuse>>
\* Of a torn file a part is read, and the registry is then open with this part, though the open may have answered false (OpenLoad of
\* Registry.tla); a length that is read from it may also be anything, and kill the process.
LoadTorn(p) ==
  /\ file = "written" /\ head # rest /\ at[p] = "locked"
  /\ \/ Go(p, "locked", "open") /\ (\E t \in SUBSET (head \cup rest) : tree' = [tree EXCEPT ![p] = t]) /\ UNCHANGED <<fileVars, lock, done>>
     \/ End(p)
  /\ UNCHANGED excuse
\* An empty file has no name for the root: the open fails, the file stays open and locked.
LoadEmpty(p) ==
  /\ file = "empty" /\ Go(p, "locked", "unnamed")
  /\ UNCHANGED <<fileVars, lock, tree, done, excuse>>

\* After an open that failed the next open or close uses the FILE that is closed and takes the length of the name the root has not:
\* the process dies there, or ends without another call.
DieFailed(p) == at[p] \in {"failed", "unnamed"} /\ End(p) /\ UNCHANGED excuse

Set(p) ==
  /\ at[p] = "open" /\ tree' = [tree EXCEPT ![p] = @ \cup {p}]
  /\ UNCHANGED <<fileVars, lock, at, done, excuse>>

-----------------------------------------------------------------------------
(* SU_RB_CloseRegistry: the tree is written into the buffer, the file is     *)
(* unlocked, and fclose writes what is still in the buffer. The result of no *)
(* write is looked at: close answers true when the disk was full, too.      *)
Full == {FALSE, "full" \in Faults}
Write(p) ==
  /\ Go(p, "open", "written")
  /\ \E full \in Full :
       /\ IF Big /\ ~full THEN file' = "written" /\ head' = tree[p] ELSE UNCHANGED <<file, head>>
       /\ Excused(Big /\ full, "full")
  /\ UNCHANGED <<rest, lock, tree, done>>
Unlock(p) ==
  /\ Go(p, "written", "unlocked") /\ lock' = Nobody
  /\ UNCHANGED <<fileVars, tree, done, excuse>>
Fclose(p) ==
  /\ Go(p, "unlocked", "out")
  /\ \E full \in Full :
       /\ IF full THEN UNCHANGED fileVars
          ELSE file' = "written" /\ rest' = tree[p] /\ head' = IF Big THEN head ELSE tree[p]
       /\ Excused(full, "full")
  /\ done' = done \cup (tree[p] \cap {p}) /\ tree' = [tree EXCEPT ![p] = {}]
  /\ UNCHANGED lock

\* A process dies by itself, in the middle of anything.
Crash(p) ==
  /\ "crash" \in Faults /\ at[p] # "out" /\ End(p)
  /\ Excused(Big /\ at[p] \in {"written", "unlocked"}, "crash")

Next ==
  \E p \in Procs :
    \/ OpenExisting(p) \/ OpenMissing(p) \/ Create(p) \/ LockFound(p) \/ LockMade(p) \/ LockFails(p)
    \/ LoadWhole(p) \/ LoadTorn(p) \/ LoadEmpty(p) \/ DieFailed(p)
    \/ Set(p) \/ Write(p) \/ Unlock(p) \/ Fclose(p) \/ Crash(p)
Spec == Init /\ [][Next]_vars
-----------------------------------------------------------------------------
TypeOK ==
  /\ file \in {"none", "empty", "written"} /\ head \in SUBSET Procs /\ rest \in SUBSET Procs
  /\ lock \in Procs \cup {Nobody} /\ tree \in [Procs -> SUBSET Procs] /\ done \subseteq Procs /\ excuse \subseteq {"race", "crash", "full"}
  /\ at \in [Procs -> {"out", "missing", "found", "made", "locked", "failed", "unnamed", "open", "written", "unlocked"}]

Quiet == \A p \in Procs : at[p] = "out"

\* skyutils.h:987 of SU_RB_CloseRegistry: "Flush all writings since registry was opened and close it. True on success."
WritingsKept == Quiet => done \subseteq head

\* There are three ways to lose a setting of a process whose close has answered true: another process opened the file before fclose had
\* written it, or made the file anew that was written by then; a process died in the middle of a close of a tree larger than the buffer;
\* the disk was full. Without one of these the file is whole and has every setting, whatever opens failed and whoever died, of a failed
\* open or with the registry open. (A file that its maker never closed stays empty, and no later open succeeds: then no close has answered
\* true either, as the file can only have been made when there was none.)
KeptUnlessExcused == excuse = {} /\ Quiet => done \subseteq head /\ head = rest
=============================================================================
