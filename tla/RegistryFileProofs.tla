------------------------ MODULE RegistryFileProofs ------------------------
(***************************************************************************)
(* Theorems about RegistryFile, for any number of processes, trees smaller *)
(* and larger than the buffer of stdio, and any faults: its type invariant, *)
(* and that only a race, a crash in a close or a full disk loses what a    *)
(* process has set and closed.                                             *)
(***************************************************************************)
EXTENDS RegistryFile, TLAPS

\* Where a process holds the lock, and where it has part of the file in its hands.
Holding == {"locked", "unnamed", "open", "written"}
Busy == Holding \cup {"unlocked"}
Closing == {"written", "unlocked"}

\* Who has the lock is where the lock is held; a file that was not written has no settings.
LockInv ==
  /\ \A p \in Procs : lock = p <=> at[p] \in Holding
  /\ file # "written" => head = {} /\ rest = {}

\* Before anything that excuses a loss: one process at a time is busy with the file, its tree has what was closed, and so has the file,
\* unless it is just being written over; of a large tree that is being closed the first part is in the file.
OneBusy == \A p, q \in Procs : at[p] \in Busy /\ at[q] \in Busy => p = q
TreeKeeps == \A p \in Procs : at[p] \in {"open"} \cup Closing => done \subseteq tree[p]
FileKeeps == (Big => \A p \in Procs : at[p] \notin Closing) => head = rest /\ done \subseteq head
HeadKeeps == Big => \A p \in Procs : at[p] \in Closing => file = "written" /\ head = tree[p]

IInv == TypeOK /\ LockInv /\ (excuse = {} => OneBusy /\ TreeKeeps /\ FileKeeps /\ HeadKeeps)

Assumptions == Nobody \notin Procs /\ Big \in BOOLEAN /\ Start \subseteq {"none", "written"}

-----------------------------------------------------------------------------
LEMMA InitIInv ==
  ASSUME Assumptions, Init
  PROVE  IInv
  BY DEF Assumptions, Init, IInv, TypeOK, LockInv, OneBusy, TreeKeeps, FileKeeps, HeadKeeps, Holding, Busy, Closing

\* What is left of a process that ended: its lock and its tree are gone.
LEMMA EndKeepsTypes ==
  ASSUME Assumptions, TypeOK, LockInv, NEW p \in Procs, End(p), excuse' \subseteq {"race", "crash", "full"}
  PROVE  TypeOK' /\ LockInv'
  BY DEF End, fileVars, TypeOK, LockInv, Holding, Assumptions

LEMMA StepKeepsTypes ==
  ASSUME Assumptions, TypeOK, LockInv, Next
  PROVE  TypeOK' /\ LockInv'
<1> USE DEF TypeOK, LockInv, Holding, Assumptions, fileVars, Go, Excused
<1>1. PICK p \in Procs :
        \/ OpenExisting(p) \/ OpenMissing(p) \/ Create(p) \/ LockFound(p) \/ LockMade(p) \/ LockFails(p)
        \/ LoadWhole(p) \/ LoadTorn(p) \/ LoadEmpty(p) \/ DieFailed(p)
        \/ Set(p) \/ Write(p) \/ Unlock(p) \/ Fclose(p) \/ Crash(p)
  BY DEF Next
<1>2. CASE OpenExisting(p) BY <1>2 DEF OpenExisting
<1>3. CASE OpenMissing(p) BY <1>3 DEF OpenMissing
<1>4. CASE Create(p) BY <1>4 DEF Create
<1>5. CASE LockFound(p) BY <1>5 DEF LockFound, Lock, LockFree
<1>6. CASE LockMade(p) BY <1>6 DEF LockMade, Lock, LockFree
<1>7. CASE LockFails(p) BY <1>7 DEF LockFails
<1>8. CASE LoadWhole(p) BY <1>8 DEF LoadWhole
<1>9. CASE LoadTorn(p)
  <2>1. excuse' = excuse BY <1>9 DEF LoadTorn
  <2>2. CASE End(p) BY <2>1, <2>2, EndKeepsTypes
  <2>3. CASE ~End(p)
    <3>1. PICK t \in SUBSET (head \cup rest) : tree' = [tree EXCEPT ![p] = t] BY <1>9, <2>3 DEF LoadTorn
    <3>2. at[p] = "locked" /\ at' = [at EXCEPT ![p] = "open"] /\ UNCHANGED <<file, head, rest, lock, done>>
      BY <1>9, <2>3 DEF LoadTorn
    <3>3. t \in SUBSET Procs BY <3>1
    <3> QED BY <2>1, <3>1, <3>2, <3>3
  <2> QED BY <2>2, <2>3
<1>10. CASE LoadEmpty(p) BY <1>10 DEF LoadEmpty
<1>11. CASE DieFailed(p) BY <1>11, EndKeepsTypes DEF DieFailed
<1>12. CASE Set(p) BY <1>12 DEF Set
<1>13. CASE Write(p)
  <2>1. tree[p] \in SUBSET Procs BY Zenon
  <2>2. file' \in {file, "written"} /\ head' \in SUBSET Procs /\ rest' = rest BY <1>13, <2>1 DEF Write
  <2>3. file' # "written" => file' = file /\ head' = head BY <1>13 DEF Write
  <2>4. excuse' \subseteq {"race", "crash", "full"} BY <1>13 DEF Write
  <2>5. at[p] = "open" /\ at' = [at EXCEPT ![p] = "written"] /\ UNCHANGED <<lock, tree, done>> BY <1>13 DEF Write
  <2> QED BY <2>2, <2>3, <2>4, <2>5
<1>14. CASE Unlock(p) BY <1>14 DEF Unlock
<1>15. CASE Fclose(p)
  <2>1. tree[p] \in SUBSET Procs BY Zenon
  <2>2. file' \in {file, "written"} /\ head' \in SUBSET Procs /\ rest' \in SUBSET Procs BY <1>15, <2>1 DEF Fclose
  <2>3. file' # "written" => file' = file /\ head' = head /\ rest' = rest BY <1>15 DEF Fclose
  <2>4. excuse' \subseteq {"race", "crash", "full"} BY <1>15 DEF Fclose
  <2>5. /\ at[p] = "unlocked" /\ at' = [at EXCEPT ![p] = "out"] /\ UNCHANGED lock
        /\ tree' = [tree EXCEPT ![p] = {}] /\ done' \subseteq Procs
    BY <1>15 DEF Fclose
  <2> QED BY <2>2, <2>3, <2>4, <2>5
<1>16. CASE Crash(p) BY <1>16, EndKeepsTypes DEF Crash
<1> QED BY <1>1, <1>2, <1>3, <1>4, <1>5, <1>6, <1>7, <1>8, <1>9, <1>10, <1>11, <1>12, <1>13, <1>14, <1>15, <1>16

-----------------------------------------------------------------------------
(* What the steps do to the file before anything excuses a loss.            *)

\* A lock that is taken without a race is taken when nobody is busy.
LEMMA LockIsTakenAlone ==
  ASSUME Assumptions, IInv, NEW p \in Procs, NEW from \in {"found", "made"}, NEW to \in {"locked", "open"},
         Lock(p, from, to), excuse' = {}
  PROVE  /\ excuse = {} /\ \A q \in Procs : at[q] \notin Busy
         /\ head = rest /\ done \subseteq head
         /\ from = "made" => done = {}
<1>1. excuse = {} /\ lock = Nobody /\ \A q \in Procs : at[q] # "unlocked"
  BY DEF Lock, LockFree, Excused
<1>2. \A q \in Procs : at[q] \notin Holding
  BY <1>1 DEF IInv, LockInv, Assumptions
<1>3. \A q \in Procs : at[q] \notin Busy
  BY <1>1, <1>2 DEF Busy
<1>4. head = rest /\ done \subseteq head
  BY <1>1, <1>3 DEF IInv, FileKeeps, Busy, Holding, Closing
<1>5. from = "made" => head = {}
  BY <1>1 DEF Lock, Excused, IInv, LockInv
<1> QED BY <1>1, <1>3, <1>4, <1>5

\* The end of a process that was not in its close, or whose close has written nothing yet, disturbs nothing.
LEMMA EndKeepsSettings ==
  ASSUME Assumptions, IInv, NEW p \in Procs, End(p), excuse = {}, ~(Big /\ at[p] \in Closing)
  PROVE  OneBusy' /\ TreeKeeps' /\ FileKeeps' /\ HeadKeeps'
<1> USE DEF Holding, Busy, Closing
<1>0. TypeOK BY DEF IInv
<1>1. OneBusy' /\ TreeKeeps' BY <1>0 DEF End, IInv, TypeOK, OneBusy, TreeKeeps
<1>2. (Big => \A q \in Procs : at'[q] \notin Closing) => (Big => \A q \in Procs : at[q] \notin Closing)
  BY <1>0 DEF End, TypeOK
<1>3. FileKeeps' BY <1>2 DEF End, fileVars, IInv, FileKeeps
<1>4. HeadKeeps' BY <1>0 DEF End, fileVars, IInv, TypeOK, HeadKeeps
<1> QED BY <1>1, <1>3, <1>4

LEMMA StepKeepsSettings ==
  ASSUME Assumptions, IInv, Next, excuse' = {}
  PROVE  OneBusy' /\ TreeKeeps' /\ FileKeeps' /\ HeadKeeps'
<1> USE DEF Holding, Busy, Closing, fileVars, Go
<1>0. TypeOK /\ LockInv BY DEF IInv
<1>1. PICK p \in Procs :
        \/ OpenExisting(p) \/ OpenMissing(p) \/ Create(p) \/ LockFound(p) \/ LockMade(p) \/ LockFails(p)
        \/ LoadWhole(p) \/ LoadTorn(p) \/ LoadEmpty(p) \/ DieFailed(p)
        \/ Set(p) \/ Write(p) \/ Unlock(p) \/ Fclose(p) \/ Crash(p)
  BY DEF Next
<1>2. CASE OpenExisting(p) BY <1>0, <1>2 DEF OpenExisting, IInv, TypeOK, OneBusy, TreeKeeps, FileKeeps, HeadKeeps
<1>3. CASE OpenMissing(p) BY <1>0, <1>3 DEF OpenMissing, IInv, TypeOK, OneBusy, TreeKeeps, FileKeeps, HeadKeeps
<1>4. CASE Create(p)
  <2>1. excuse = {} /\ file # "written" BY <1>4 DEF Create, Excused
  <2>2. OneBusy' /\ TreeKeeps' BY <1>0, <1>4, <2>1 DEF Create, IInv, TypeOK, OneBusy, TreeKeeps
  <2>3. (Big => \A q \in Procs : at'[q] \notin Closing) => (Big => \A q \in Procs : at[q] \notin Closing)
    BY <1>0, <1>4 DEF Create, TypeOK
  <2>4. (Big => \A q \in Procs : at'[q] \notin Closing) => done = {}
    BY <1>0, <2>1, <2>3 DEF IInv, FileKeeps, LockInv
  <2>5. FileKeeps' BY <1>4, <2>4 DEF Create, FileKeeps
  <2>6. Big => \A q \in Procs : at'[q] \notin Closing
    BY <1>0, <1>4, <2>1 DEF Create, IInv, TypeOK, HeadKeeps
  <2> QED BY <2>2, <2>5, <2>6 DEF HeadKeeps
<1>5. CASE LockFound(p)
  <2>1. Lock(p, "found", "locked") BY <1>5 DEF LockFound
  <2>2. /\ excuse = {} /\ \A q \in Procs : at[q] \notin Busy
        /\ head = rest /\ done \subseteq head
    BY <2>1, LockIsTakenAlone
  <2> QED BY <1>0, <2>1, <2>2 DEF Lock, TypeOK, OneBusy, TreeKeeps, FileKeeps, HeadKeeps
<1>6. CASE LockMade(p)
  <2>1. Lock(p, "made", "open") BY <1>6 DEF LockMade
  <2>2. /\ excuse = {} /\ \A q \in Procs : at[q] \notin Busy
        /\ head = rest /\ done = {}
    BY <2>1, LockIsTakenAlone
  <2> QED BY <1>0, <2>1, <2>2 DEF Lock, TypeOK, OneBusy, TreeKeeps, FileKeeps, HeadKeeps
<1>7. CASE LockFails(p) BY <1>0, <1>7 DEF LockFails, IInv, TypeOK, OneBusy, TreeKeeps, FileKeeps, HeadKeeps
<1>8. CASE LoadWhole(p)
  <2>1. excuse = {} /\ at[p] = "locked" BY <1>8 DEF LoadWhole
  <2>2. \A q \in Procs : at[q] \in Busy => q = p BY <2>1 DEF IInv, OneBusy
  <2>3. head = rest /\ done \subseteq head BY <2>1, <2>2 DEF IInv, FileKeeps
  <2>4. tree'[p] = head BY <1>0, <1>8 DEF LoadWhole, TypeOK
  <2> QED BY <1>0, <1>8, <2>1, <2>2, <2>3, <2>4 DEF LoadWhole, TypeOK, OneBusy, TreeKeeps, FileKeeps, HeadKeeps
<1>9. CASE LoadTorn(p)
  <2>1. excuse = {} /\ at[p] = "locked" /\ head # rest BY <1>9 DEF LoadTorn
  <2>2. \A q \in Procs : at[q] \in Busy => q = p BY <2>1 DEF IInv, OneBusy
  <2> QED BY <2>1, <2>2 DEF IInv, FileKeeps
<1>10. CASE LoadEmpty(p) BY <1>0, <1>10 DEF LoadEmpty, IInv, TypeOK, OneBusy, TreeKeeps, FileKeeps, HeadKeeps
<1>11. CASE DieFailed(p)
  <2>1. excuse = {} /\ End(p) /\ at[p] \notin Closing BY <1>11 DEF DieFailed
  <2> QED BY <2>1, EndKeepsSettings
<1>12. CASE Set(p) BY <1>0, <1>12 DEF Set, IInv, TypeOK, OneBusy, TreeKeeps, FileKeeps, HeadKeeps
<1>13. CASE Write(p)
  <2>1. excuse = {} /\ at[p] = "open" /\ rest' = rest BY <1>13 DEF Write, Excused
  <2>2. \A q \in Procs : at[q] \in Busy => q = p BY <2>1 DEF IInv, OneBusy
  <2>3. head = rest /\ done \subseteq head BY <2>1, <2>2 DEF IInv, FileKeeps
  <2>4. OneBusy' /\ TreeKeeps' BY <1>0, <1>13, <2>1, <2>2 DEF Write, IInv, TypeOK, OneBusy, TreeKeeps
  <2>5. at'[p] = "written" BY <1>0, <1>13 DEF Write, TypeOK
  <2>6. Big => file' = "written" /\ head' = tree[p] BY <1>13 DEF Write, Excused
  <2>7. ~Big => head' = head BY <1>13 DEF Write
  <2>8. tree' = tree /\ done' = done BY <1>13 DEF Write
  <2>9. FileKeeps' BY <2>1, <2>3, <2>5, <2>7, <2>8 DEF FileKeeps, Assumptions
  <2>10. \A q \in Procs : at'[q] \in Closing => q = p BY <1>0, <1>13, <2>2 DEF Write, TypeOK
  <2>11. HeadKeeps' BY <2>6, <2>8, <2>10 DEF HeadKeeps
  <2> QED BY <2>4, <2>9, <2>11
<1>14. CASE Unlock(p) BY <1>0, <1>14 DEF Unlock, IInv, TypeOK, OneBusy, TreeKeeps, FileKeeps, HeadKeeps
<1>15. CASE Fclose(p)
  <2>1. excuse = {} /\ at[p] = "unlocked" BY <1>15 DEF Fclose, Excused
  <2>2. \A q \in Procs : at[q] \in Busy => q = p BY <2>1 DEF IInv, OneBusy
  <2>3. done \subseteq tree[p] BY <2>1 DEF IInv, TreeKeeps
  <2>4. Big => head = tree[p] BY <2>1 DEF IInv, HeadKeeps
  <2>5. head' = tree[p] /\ rest' = tree[p] /\ done' \subseteq tree[p] BY <1>15, <2>3, <2>4 DEF Fclose, Excused
  <2> QED BY <1>0, <1>15, <2>2, <2>5 DEF Fclose, TypeOK, OneBusy, TreeKeeps, FileKeeps, HeadKeeps
<1>16. CASE Crash(p)
  <2>1. excuse = {} /\ ~(Big /\ at[p] \in Closing) /\ End(p) BY <1>16 DEF Crash, Excused
  <2> QED BY <2>1, EndKeepsSettings
<1> QED BY <1>1, <1>2, <1>3, <1>4, <1>5, <1>6, <1>7, <1>8, <1>9, <1>10, <1>11, <1>12, <1>13, <1>14, <1>15, <1>16

LEMMA StepKeepsIInv ==
  ASSUME Assumptions, IInv, [Next]_vars
  PROVE  IInv'
<1>1. CASE Next
  <2>1. TypeOK' /\ LockInv' BY <1>1, StepKeepsTypes DEF IInv
  <2>2. excuse' = {} => OneBusy' /\ TreeKeeps' /\ FileKeeps' /\ HeadKeeps' BY <1>1, StepKeepsSettings
  <2> QED BY <2>1, <2>2 DEF IInv
<1>2. CASE UNCHANGED vars
  BY <1>2 DEF vars, IInv, TypeOK, LockInv, OneBusy, TreeKeeps, FileKeeps, HeadKeeps
<1> QED BY <1>1, <1>2

LEMMA Invariant ==
  ASSUME Assumptions
  PROVE  Spec => []IInv
<1>1. Init => IInv BY InitIInv
<1>2. IInv /\ [Next]_vars => IInv' BY StepKeepsIInv
<1> QED BY <1>1, <1>2, PTL DEF Spec

\* The state of the file and of the processes keeps its types (SU_RB_OpenRegistry, SU_RB_CloseRegistry).
THEOREM TypeCorrect ==
  ASSUME Assumptions
  PROVE  Spec => []TypeOK
<1>1. IInv => TypeOK BY DEF IInv
<1> QED BY <1>1, Invariant, PTL

\* However many processes open, set, close and die, of opens that failed, too: unless one opened the file before another's fclose, or
\* made anew a file that was written by then, or died in a close of a large tree, or the disk was full, the file has what every process
\* has set and closed (SU_RB_CloseRegistry).
THEOREM SettingsAreKept ==
  ASSUME Assumptions
  PROVE  Spec => []KeptUnlessExcused
<1>1. IInv => KeptUnlessExcused
  BY DEF IInv, FileKeeps, KeptUnlessExcused, Quiet, Closing
<1> QED BY <1>1, Invariant, PTL
=============================================================================
