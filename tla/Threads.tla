------------------------------- MODULE Threads -------------------------------
(* Threads and semaphores of the unix build (threads.c, the macros of       *)
(* skyutils.h), over pthreads, used as examples/TestThread uses them: a     *)
(* semaphore guards something, who has taken it posts it. A tick of the     *)
(* clock is an abstract microsecond, a second has Sec of them.              *)
EXTENDS Integers, FiniteSets

CONSTANTS Main, Others,   \* the thread that is there, and those it creates
          Initial,        \* the count the semaphore is created with
          Sec, Timeouts,  \* ticks of a second, and times given to SU_SemWaitTimeout; negative: no timeout
          MaxTime

VARIABLES now,
          sem,       \* the count of the semaphore
          life,      \* "none", "running", "ended", "joined"; and "detached" or "kept" as it was created
          at,        \* where each thread is in the library
          until,     \* the time it gives to sem_timedwait: seconds and microseconds
          since,     \* (history) when its call began, and the timeout it gave
          answer,    \* what it was answered last
          holds,     \* (history) the threads that were told that they have the semaphore
          process    \* "running", "stopped" or "dead": signals are sent to the whole process

vars == <<now, sem, life, at, until, since, answer, holds, process>>
waiting == <<until, since>>

Threads == Others \cup {Main}
Alive(t) == process = "running" /\ life[t] \in {"kept", "detached"}

Init ==
  /\ now \in 0..(Sec - 1) /\ sem = Initial
  /\ life = [t \in Threads |-> IF t = Main THEN "kept" ELSE "none"]
  /\ at = [t \in Threads |-> "idle"] /\ until = [t \in Threads |-> <<0, 0>>] /\ since = [t \in Threads |-> <<0, 0>>]
  /\ answer = [t \in Threads |-> "none"] /\ holds = {} /\ process = "running"

Tick == process # "dead" /\ now < MaxTime /\ now' = now + 1 /\ UNCHANGED <<sem, life, at, waiting, answer, holds, process>>

-----------------------------------------------------------------------------
SU_CreateThread(t) ==
  /\ Alive(t) /\ at[t] = "idle"
  /\ \E u \in Others : life[u] = "none" /\ \E how \in {"kept", "detached"} : life' = [life EXCEPT ![u] = how]
  /\ UNCHANGED <<now, sem, at, waiting, answer, holds, process>>
Return(t) ==
  /\ t # Main /\ Alive(t) /\ at[t] = "idle" /\ t \notin holds
  /\ life' = [life EXCEPT ![t] = IF @ = "detached" THEN "joined" ELSE "ended"]
  /\ UNCHANGED <<now, sem, at, waiting, answer, holds, process>>
\* A thread that was created detached, or joined before, is not waited for.
SU_WaitForThread(t) ==
  /\ Alive(t) /\ at[t] = "idle"
  /\ \E u \in Others : life[u] = "ended" /\ life' = [life EXCEPT ![u] = "joined"]
  /\ UNCHANGED <<now, sem, at, waiting, answer, holds, process>>

\* SU_SuspendThread, SU_TermThread, SU_KillThread: pthread_kill gives these signals to a thread, and the process obeys. So no thread is left
\* to call SU_ResumeThread: the signal that continues comes from outside.
Signalled(t, p) ==
  /\ Alive(t) /\ at[t] = "idle" /\ process' = p
  /\ UNCHANGED <<now, sem, life, at, waiting, answer, holds>>
SU_SuspendThread(t) == Signalled(t, "stopped")
SU_KillThread(t) == Signalled(t, "dead")
Continue == process = "stopped" /\ process' = "running" /\ UNCHANGED <<now, sem, life, at, waiting, answer, holds>>

-----------------------------------------------------------------------------
Answer(t, a) ==
  /\ at' = [at EXCEPT ![t] = "idle"] /\ answer' = [answer EXCEPT ![t] = a]
  /\ holds' = IF a = "0" THEN holds \cup {t} ELSE holds
  /\ until' = [until EXCEPT ![t] = <<0, 0>>] /\ since' = [since EXCEPT ![t] = <<0, 0>>]
Take(t) == sem > 0 /\ sem' = sem - 1 /\ Answer(t, "0")

SU_SEM_POST(t) ==
  /\ Alive(t) /\ at[t] = "idle" /\ t \in holds
  /\ sem' = sem + 1 /\ holds' = holds \ {t}
  /\ UNCHANGED <<now, life, at, waiting, answer, process>>

SU_SemTryWait(t) ==
  /\ Alive(t) /\ at[t] = "idle" /\ t \notin holds
  /\ Take(t) \/ (sem = 0 /\ sem' = sem /\ Answer(t, "-1"))
  /\ UNCHANGED <<now, life, process>>

\* Variant of Carried that forgets to carry.
NotCarried(s, u) == <<s, u % Sec>>

\* The time of the end. (msec * 1000 is an int: two thousand seconds at most.)
Carried(s, u) == IF u > Sec THEN <<s + u \div Sec, u % Sec>> ELSE <<s, u>>
SU_SemWaitTimeout(t) ==
  /\ Alive(t) /\ at[t] = "idle" /\ t \notin holds
  /\ \E msec \in Timeouts :
       /\ now + msec <= MaxTime
       /\ at' = [at EXCEPT ![t] = IF msec < 0 THEN "wait" ELSE "timedwait"]
       /\ until' = [until EXCEPT ![t] = IF msec < 0 THEN @ ELSE Carried(now \div Sec, (now % Sec) + msec)]
       /\ since' = [since EXCEPT ![t] = <<now, msec>>]
  /\ answer' = [answer EXCEPT ![t] = "none"]
  /\ UNCHANGED <<now, sem, life, holds, process>>

\* What sem_wait and sem_timedwait do (external). A number of microseconds that is no part of a second is refused, at once.
Valid(t) == until[t][2] < Sec
Taken(t) ==
  /\ Alive(t) /\ (at[t] = "wait" \/ (at[t] = "timedwait" /\ Valid(t)))
  /\ Take(t) /\ UNCHANGED <<now, life, process>>
Refused(t) ==
  /\ Alive(t) /\ at[t] = "timedwait" /\ ~Valid(t)
  /\ Answer(t, "-1") /\ UNCHANGED <<now, sem, life, process>>
\* A post that comes with the end of the time may be seen or not.
TimedOut(t) ==
  /\ Alive(t) /\ at[t] = "timedwait" /\ Valid(t) /\ now >= until[t][1] * Sec + until[t][2]
  /\ Answer(t, "-1") /\ UNCHANGED <<now, sem, life, process>>

\* Variant of AfterSignal that takes the end of the wait for success.
AfterSignalDone(t) == Answer(t, "0")
AfterSignal(t) == UNCHANGED <<at, answer, holds, waiting>>
\* EINTR: the wait begins again, for the same end.
Interrupted(t) ==
  /\ Alive(t) /\ at[t] \in {"wait", "timedwait"}
  /\ AfterSignal(t) /\ UNCHANGED <<now, sem, life, process>>

Waits(t) == Taken(t) \/ Refused(t) \/ TimedOut(t)
Calls(t) ==
  \/ SU_CreateThread(t) \/ Return(t) \/ SU_WaitForThread(t) \/ SU_SuspendThread(t) \/ SU_KillThread(t)
  \/ SU_SEM_POST(t) \/ SU_SemTryWait(t) \/ SU_SemWaitTimeout(t)
Next == Tick \/ Continue \/ \E t \in Threads : Calls(t) \/ Waits(t) \/ Interrupted(t)
Fairness == WF_vars(Tick) /\ \A t \in Threads : WF_vars(Waits(t))
Spec == Init /\ [][Next]_vars /\ Fairness
-----------------------------------------------------------------------------
TypeOK ==
  /\ now \in 0..MaxTime /\ sem \in 0..Initial /\ holds \subseteq Threads /\ process \in {"running", "stopped", "dead"}
  /\ at \in [Threads -> {"idle", "wait", "timedwait"}] /\ answer \in [Threads -> {"none", "0", "-1"}]
  /\ life \in [Threads -> {"none", "kept", "detached", "ended", "joined"}]

\* However posts, timeouts and signals meet: what the semaphore counts and what threads were told to have is always what it was created with. No post
\* is lost to a thread that gives up, and no thread goes on that has not taken it.
NoTokenLost == sem + Cardinality(holds) = Initial

\* threads.c:185 and skyutils.h:816 of SU_SemWaitTimeout: "-1 if timed out". A thread is told so only when its time is over.
Early(t) == at[t] = "timedwait" /\ at'[t] = "idle" /\ answer'[t] = "-1" /\ now < since[t][1] + since[t][2]
NeverEarly == [][\A t \in Threads : ~Early(t)]_vars

\* An end that falls exactly on a second is not carried into the seconds: sem_timedwait refuses it, and NeverEarly does not hold. It does of every
\* other end, whatever is posted, stopped and interrupted meanwhile.
NotEarly == \A t \in Threads : Early(t) => (since[t][1] % Sec) + since[t][2] = Sec
TimeoutNotEarly == [][NotEarly]_vars

\* A wait with a timeout ends, whether somebody posts or not, unless the process is stopped or killed.
TimedWaitReturns == \A t \in Threads : at[t] = "timedwait" ~> at[t] # "timedwait" \/ process # "running"
=============================================================================
