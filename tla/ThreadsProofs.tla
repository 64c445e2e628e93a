--------------------------- MODULE ThreadsProofs ---------------------------
(***************************************************************************)
(* Theorems about Threads, for any number of threads, any count of the     *)
(* semaphore, any timeouts and any length of a second: no token of the     *)
(* semaphore is lost or made, and a timed wait is not told of a timeout    *)
(* before its time.                                                        *)
(***************************************************************************)
EXTENDS Threads, FiniteSetTheorems, TLAPS

Assumptions ==
  /\ IsFiniteSet(Others) /\ Initial \in Nat /\ Sec \in Nat \ {0}
  /\ Timeouts \subseteq Int /\ MaxTime \in Nat /\ Sec <= MaxTime + 1

\* Who waits has not got the semaphore, so that a token it takes is counted once.
TokenInv == TypeOK /\ NoTokenLost /\ \A t \in Threads : at[t] # "idle" => t \notin holds

\* The end given to sem_timedwait is the end that was asked for, but for the one case in which sem_timedwait refuses it.
DeadlineOK(t) ==
  /\ since[t][1] \in Nat /\ since[t][2] \in Nat /\ until[t][1] \in Nat /\ until[t][2] \in Nat
  /\ \/ until[t][1] * Sec + until[t][2] = since[t][1] + since[t][2] /\ until[t][2] < Sec
     \/ (since[t][1] % Sec) + since[t][2] = Sec
DeadlineInv ==
  /\ until \in [Threads -> Int \X Int] /\ since \in [Threads -> Int \X Int]
  /\ \A t \in Threads : at[t] = "timedwait" => DeadlineOK(t)

-----------------------------------------------------------------------------
LEMMA ThreadsAreFinite ==
  ASSUME Assumptions
  PROVE  IsFiniteSet(Threads)
  BY FS_AddElement DEF Assumptions, Threads

\* A thread that takes a token, and one that gives it back.
LEMMA OneMoreHolds ==
  ASSUME Assumptions, TypeOK, NEW t \in Threads, t \notin holds
  PROVE  Cardinality(holds \cup {t}) = Cardinality(holds) + 1 /\ Cardinality(holds) \in Nat
<1>1. IsFiniteSet(holds) BY ThreadsAreFinite, FS_Subset DEF TypeOK
<1> QED BY <1>1, FS_AddElement, FS_CardinalityType

LEMMA OneLessHolds ==
  ASSUME Assumptions, TypeOK, NEW t \in holds
  PROVE  Cardinality(holds \ {t}) = Cardinality(holds) - 1 /\ Cardinality(holds) \in Nat /\ Cardinality(holds \ {t}) \in Nat
<1>1. IsFiniteSet(holds) BY ThreadsAreFinite, FS_Subset DEF TypeOK
<1> QED BY <1>1, FS_RemoveElement, FS_CardinalityType

LEMMA InitTokenInv ==
  ASSUME Assumptions, Init
  PROVE  TokenInv
  BY FS_EmptySet DEF Assumptions, Init, TokenInv, TypeOK, NoTokenLost, Threads

\* Answering a thread that has not got the semaphore, with or without a token.
LEMMA AnswerKeeps ==
  ASSUME Assumptions, TokenInv, NEW t \in Threads, t \notin holds, UNCHANGED <<now, life, process>>,
         \/ Take(t)
         \/ Answer(t, "-1") /\ sem' = sem
  PROVE  TokenInv'
<1> USE DEF TokenInv, TypeOK, NoTokenLost, Assumptions
<1>1. Cardinality(holds \cup {t}) = Cardinality(holds) + 1 /\ Cardinality(holds) \in Nat BY OneMoreHolds
<1>2. CASE Take(t)
  <2>1. /\ at' = [at EXCEPT ![t] = "idle"] /\ answer' = [answer EXCEPT ![t] = "0"]
        /\ holds' = holds \cup {t} /\ sem > 0 /\ sem' = sem - 1
    BY <1>2 DEF Take, Answer
  <2> QED BY <1>1, <2>1
<1>3. CASE Answer(t, "-1") /\ sem' = sem
  <2>1. at' = [at EXCEPT ![t] = "idle"] /\ answer' = [answer EXCEPT ![t] = "-1"] /\ holds' = holds
    BY <1>3 DEF Answer
  <2> QED BY <1>3, <2>1
<1> QED BY <1>2, <1>3

LEMMA StepKeepsTokens ==
  ASSUME Assumptions, TokenInv, [Next]_vars
  PROVE  TokenInv'
<1> USE DEF TokenInv, TypeOK, NoTokenLost, Assumptions
<1>1. CASE Tick BY <1>1 DEF Tick, waiting
<1>2. CASE Continue BY <1>2 DEF Continue, waiting
<1>3. ASSUME NEW t \in Threads, Calls(t) PROVE TokenInv'
  <2>1. CASE SU_CreateThread(t) BY <2>1 DEF SU_CreateThread, waiting, Threads
  <2>2. CASE Return(t) BY <2>2 DEF Return, waiting
  <2>3. CASE SU_WaitForThread(t) BY <2>3 DEF SU_WaitForThread, waiting, Threads
  <2>4. CASE SU_SuspendThread(t) BY <2>4 DEF SU_SuspendThread, Signalled, waiting
  <2>5. CASE SU_KillThread(t) BY <2>5 DEF SU_KillThread, Signalled, waiting
  <2>6. CASE SU_SEM_POST(t)
    <3>1. t \in holds /\ sem' = sem + 1 /\ holds' = holds \ {t} /\ UNCHANGED <<now, life, at, answer, process>>
      BY <2>6 DEF SU_SEM_POST
    <3>2. /\ Cardinality(holds \ {t}) = Cardinality(holds) - 1
          /\ Cardinality(holds) \in Nat /\ Cardinality(holds \ {t}) \in Nat
      BY <3>1, OneLessHolds
    <3> QED BY <3>1, <3>2
  <2>7. CASE SU_SemTryWait(t)
    BY <2>7, AnswerKeeps DEF SU_SemTryWait
  <2>8. CASE SU_SemWaitTimeout(t)
    <3>1. PICK how \in {"wait", "timedwait"} : at' = [at EXCEPT ![t] = how]
      BY <2>8 DEF SU_SemWaitTimeout
    <3>2. t \notin holds /\ answer' = [answer EXCEPT ![t] = "none"] /\ UNCHANGED <<now, sem, life, holds, process>>
      BY <2>8 DEF SU_SemWaitTimeout
    <3> QED BY <3>1, <3>2
  <2> QED BY <1>3, <2>1, <2>2, <2>3, <2>4, <2>5, <2>6, <2>7, <2>8 DEF Calls
<1>4. ASSUME NEW t \in Threads, Waits(t) PROVE TokenInv'
  <2>1. t \notin holds BY <1>4 DEF Waits, Taken, Refused, TimedOut
  <2> QED BY <1>4, <2>1, AnswerKeeps DEF Waits, Taken, Refused, TimedOut
<1>5. ASSUME NEW t \in Threads, Interrupted(t) PROVE TokenInv'
  BY <1>5 DEF Interrupted, AfterSignal, waiting
<1>6. CASE UNCHANGED vars BY <1>6 DEF vars
<1> QED BY <1>1, <1>2, <1>3, <1>4, <1>5, <1>6 DEF Next

\* The clock, the semaphore and the threads keep their types (threads.c).
THEOREM TypeCorrect ==
  ASSUME Assumptions
  PROVE  Spec => []TypeOK
<1>1. Init => TokenInv BY InitTokenInv
<1>2. TokenInv /\ [Next]_vars => TokenInv' BY StepKeepsTokens
<1>3. TokenInv => TypeOK BY DEF TokenInv
<1> QED BY <1>1, <1>2, <1>3, PTL DEF Spec

\* However posts, timeouts, signals and interruptions meet, the count of the semaphore and the threads that were told they have it are what
\* it was created with: no post is lost, no token is taken twice (SU_SemWaitTimeout, SU_SemTryWait, SU_SEM_POST).
THEOREM TokensAreKept ==
  ASSUME Assumptions
  PROVE  Spec => []NoTokenLost
<1>1. Init => TokenInv BY InitTokenInv
<1>2. TokenInv /\ [Next]_vars => TokenInv' BY StepKeepsTokens
<1>3. TokenInv => NoTokenLost BY DEF TokenInv
<1> QED BY <1>1, <1>2, <1>3, PTL DEF Spec

-----------------------------------------------------------------------------
(* The end of a timed wait.                                                *)

\* Seconds and the rest of them.
LEMMA SecondsAndRest ==
  ASSUME Assumptions, NEW n \in Nat
  PROVE  /\ n \div Sec \in Nat /\ n % Sec \in 0..(Sec - 1)
         /\ (n \div Sec) * Sec + (n % Sec) = n
  BY DEF Assumptions

\* What is carried keeps the end, unless it falls exactly on a second.
LEMMA CarriedKeepsTheEnd ==
  ASSUME Assumptions, NEW n \in Nat, NEW m \in Nat, NEW c, c = Carried(n \div Sec, (n % Sec) + m)
  PROVE  /\ c \in Nat \X Nat
         /\ (c[1] * Sec + c[2] = n + m /\ c[2] < Sec) \/ (n % Sec) + m = Sec
<1> DEFINE s == n \div Sec
           r == n % Sec
           u == r + m
<1>1. s \in Nat /\ r \in 0..(Sec - 1) /\ s * Sec + r = n BY SecondsAndRest
<1>2. u \in Nat BY <1>1
<1>3. CASE u > Sec
  <2>1. u \div Sec \in Nat /\ u % Sec \in 0..(Sec - 1) /\ (u \div Sec) * Sec + (u % Sec) = u BY <1>2, SecondsAndRest
  <2>2. c = <<s + (u \div Sec), u % Sec>> BY <1>3 DEF Carried
  <2>3. (s + (u \div Sec)) * Sec = s * Sec + (u \div Sec) * Sec
    <3> HIDE DEF s, u
    <3> QED BY <1>1, <2>1 DEF Assumptions
  <2>4. s * Sec \in Nat /\ (u \div Sec) * Sec \in Nat
    <3> HIDE DEF s, u
    <3> QED BY <1>1, <2>1 DEF Assumptions
  <2>5. (s + (u \div Sec)) * Sec + (u % Sec) = n + m
    <3>1. u = r + m OBVIOUS
    <3> HIDE DEF s, u, r
    <3> QED BY <1>1, <1>2, <2>1, <2>3, <2>4, <3>1 DEF Assumptions
  <2> HIDE DEF s, u, r
  <2> QED BY <1>1, <2>1, <2>2, <2>5 DEF Assumptions
<1>4. CASE u < Sec
  <2>1. c = <<s, u>> BY <1>1, <1>2, <1>4 DEF Carried, Assumptions
  <2>2. s * Sec + u = n + m
    <3>1. u = r + m OBVIOUS
    <3>2. s * Sec \in Nat
      <4> HIDE DEF s
      <4> QED BY <1>1 DEF Assumptions
    <3> HIDE DEF s, u, r
    <3> QED BY <1>1, <3>1, <3>2 DEF Assumptions
  <2> HIDE DEF s, u, r
  <2> QED BY <1>1, <1>2, <1>4, <2>1, <2>2
<1>5. CASE u = Sec
  <2>1. c = <<s, u>> BY <1>5 DEF Carried, Assumptions
  <2>2. (n % Sec) + m = Sec BY <1>5
  <2> HIDE DEF s, u, r
  <2> QED BY <1>1, <1>2, <2>1, <2>2
<1> QED BY <1>2, <1>3, <1>4, <1>5 DEF Assumptions

LEMMA InitDeadlineInv ==
  ASSUME Assumptions, Init
  PROVE  DeadlineInv
  BY DEF Init, DeadlineInv

\* A step that leaves the ends of the waits alone and begins no wait.
LEMMA DeadlinesStay ==
  ASSUME TypeOK, DeadlineInv, UNCHANGED waiting,
         \A t \in Threads : at'[t] = "timedwait" => at[t] = "timedwait"
  PROVE  DeadlineInv'
  BY DEF DeadlineInv, DeadlineOK, waiting

LEMMA AnswerForgetsDeadline ==
  ASSUME TypeOK, DeadlineInv, NEW t \in Threads, NEW a, Answer(t, a)
  PROVE  DeadlineInv'
  BY DEF TypeOK, DeadlineInv, DeadlineOK, Answer

LEMMA StepKeepsDeadlines ==
  ASSUME Assumptions, TypeOK, DeadlineInv, [Next]_vars
  PROVE  DeadlineInv'
<1> USE DEF waiting
<1>1. CASE Tick BY <1>1, DeadlinesStay DEF Tick
<1>2. CASE Continue BY <1>2, DeadlinesStay DEF Continue
<1>3. ASSUME NEW t \in Threads, Calls(t) PROVE DeadlineInv'
  <2>1. CASE SU_SemTryWait(t)
    BY <2>1, AnswerForgetsDeadline DEF SU_SemTryWait, Take
  <2>2. CASE SU_SemWaitTimeout(t)
    <3>1. PICK msec \in Timeouts :
            /\ at' = [at EXCEPT ![t] = IF msec < 0 THEN "wait" ELSE "timedwait"]
            /\ until' = [until EXCEPT ![t] = IF msec < 0 THEN @ ELSE Carried(now \div Sec, (now % Sec) + msec)]
            /\ since' = [since EXCEPT ![t] = <<now, msec>>]
      BY <2>2 DEF SU_SemWaitTimeout
    <3>2. msec \in Int /\ now \in Nat BY DEF Assumptions, TypeOK
    <3>3. CASE msec < 0 BY <3>1, <3>2, <3>3 DEF DeadlineInv, DeadlineOK, TypeOK
    <3>4. CASE msec >= 0
      <4>0. PICK c : c = Carried(now \div Sec, (now % Sec) + msec) OBVIOUS
      <4>1. /\ c \in Nat \X Nat
            /\ (c[1] * Sec + c[2] = now + msec /\ c[2] < Sec) \/ (now % Sec) + msec = Sec
        BY <3>2, <3>4, <4>0, CarriedKeepsTheEnd
      <4>2. until' = [until EXCEPT ![t] = c]
        <5>1. until' = [until EXCEPT ![t] = IF msec < 0 THEN @ ELSE c] BY <3>1, <4>0, Zenon
        <5>2. ~(msec < 0) BY <3>2, <3>4
        <5> QED BY <5>1, <5>2, Zenon
      <4>3. DeadlineOK(t)' BY <3>1, <3>2, <3>4, <4>1, <4>2 DEF DeadlineInv, DeadlineOK
      <4>4. \A u \in Threads \ {t} : at'[u] = at[u] /\ until'[u] = until[u] /\ since'[u] = since[u]
        BY <3>1, <4>2 DEF TypeOK, DeadlineInv
      <4>5. until' \in [Threads -> Int \X Int] /\ since' \in [Threads -> Int \X Int]
        BY <3>1, <3>2, <4>1, <4>2 DEF DeadlineInv
      <4> QED BY <4>3, <4>4, <4>5 DEF DeadlineInv, DeadlineOK
    <3> QED BY <3>2, <3>3, <3>4
  <2>3. CASE ~SU_SemTryWait(t) /\ ~SU_SemWaitTimeout(t)
    BY <1>3, <2>3, DeadlinesStay
       DEF Calls, SU_CreateThread, Return, SU_WaitForThread, SU_SuspendThread, SU_KillThread, Signalled, SU_SEM_POST
  <2> QED BY <2>1, <2>2, <2>3
<1>4. ASSUME NEW t \in Threads, Waits(t) PROVE DeadlineInv'
  BY <1>4, AnswerForgetsDeadline DEF Waits, Taken, Refused, TimedOut, Take
<1>5. ASSUME NEW t \in Threads, Interrupted(t) PROVE DeadlineInv'
  BY <1>5, DeadlinesStay DEF Interrupted, AfterSignal
<1>6. CASE UNCHANGED vars BY <1>6, DeadlinesStay DEF vars
<1> QED BY <1>1, <1>2, <1>3, <1>4, <1>5, <1>6 DEF Next

LEMMA NobodyIsToldEarly ==
  ASSUME Assumptions, TypeOK, DeadlineInv, [Next]_vars
  PROVE  NotEarly
<1> SUFFICES ASSUME NEW t \in Threads, at[t] = "timedwait", at'[t] = "idle", answer'[t] = "-1",
                    now < since[t][1] + since[t][2]
             PROVE  (since[t][1] % Sec) + since[t][2] = Sec
  BY DEF NotEarly, Early
<1>1. DeadlineOK(t) BY DEF DeadlineInv
<1>2. Refused(t) \/ TimedOut(t)
  <2>1. PICK u \in Threads : Calls(u) \/ Waits(u) \/ Interrupted(u)
    BY DEF Next, Tick, Continue, vars
  <2>2. at'[u] # at[u] => u = t
    BY <2>1 DEF Calls, Waits, Interrupted, AfterSignal, waiting, SU_CreateThread, Return, SU_WaitForThread, SU_SuspendThread,
       SU_KillThread, Signalled, SU_SEM_POST, SU_SemTryWait, SU_SemWaitTimeout, Taken, Refused, TimedOut, Take, Answer, TypeOK
  <2>3. CASE Calls(u)
    BY <2>3 DEF Calls, SU_CreateThread, Return, SU_WaitForThread, SU_SuspendThread,
       SU_KillThread, Signalled, SU_SEM_POST, SU_SemTryWait, SU_SemWaitTimeout, Take, Answer, TypeOK
  <2>4. CASE Waits(u)
    BY <2>4 DEF Waits, Taken, Refused, TimedOut, Take, Answer, TypeOK
  <2>5. CASE Interrupted(u)
    BY <2>5 DEF Interrupted, AfterSignal
  <2> QED BY <2>1, <2>3, <2>4, <2>5
<1>3. CASE Refused(t) BY <1>1, <1>3 DEF Refused, Valid, DeadlineOK, Assumptions
<1>4. CASE TimedOut(t)
  <2>1. now \in Int /\ since[t][1] + since[t][2] \in Int BY <1>1 DEF TypeOK, Assumptions, DeadlineOK
  <2>2. now >= until[t][1] * Sec + until[t][2] BY <1>4 DEF TimedOut
  <2>3. until[t][1] * Sec + until[t][2] # since[t][1] + since[t][2] BY <2>1, <2>2
  <2> QED BY <1>1, <2>3 DEF DeadlineOK
<1> QED BY <1>2, <1>3, <1>4

\* A thread that waits with a timeout is told of one only when its time is over, or when the end it computed falls exactly on a second,
\* whatever interrupted it (SU_SemWaitTimeout).
THEOREM TimeoutsComeInTime ==
  ASSUME Assumptions
  PROVE  Spec => TimeoutNotEarly
<1>1. Init => TokenInv /\ DeadlineInv BY InitTokenInv, InitDeadlineInv
<1>2. TokenInv /\ DeadlineInv /\ [Next]_vars => TokenInv' /\ DeadlineInv'
  BY StepKeepsTokens, StepKeepsDeadlines DEF TokenInv
<1>3. TokenInv /\ DeadlineInv /\ [Next]_vars => [NotEarly]_vars
  BY NobodyIsToldEarly DEF TokenInv
<1> QED BY <1>1, <1>2, <1>3, PTL DEF Spec, TimeoutNotEarly
=============================================================================
