------------------------------- MODULE Daemon -------------------------------
(* SU_Daemonize and SU_SetUserGroup of utils.c: the program, its son and    *)
(* its grandson, which goes on as the daemon.                               *)
EXTENDS Integers, FiniteSetsExt

CONSTANTS MayFail      \* whether fork, setsid, chdir and open may fail

VARIABLES procs,       \* the processes: where each is, its descriptors, its unwritten output, whether it leads a session, its directory
          ids,         \* the user and the group the daemon runs as
          asked,       \* what SU_SetUserGroup was asked for
          printed      \* how often what was in the buffer of stdout came out at the terminal

vars == <<procs, ids, asked, printed>>

Pids == 1..3
Fds == 0..3            \* 3 stands for a file of the program
NoProcess == [at |-> "none", fds |-> [f \in Fds |-> "closed"], text |-> FALSE, leads |-> FALSE, cwd |-> "home"]
NotAsked == [user |-> "none", group |-> "none", from |-> "nobody", ok |-> FALSE]

\* A program may be started without some of its standard descriptors.
Init ==
  /\ \E open \in SUBSET Fds, text \in BOOLEAN :
       procs = [p \in Pids |-> IF p = 1 THEN [NoProcess EXCEPT !.at = "fork", !.fds = [f \in Fds |-> IF f \in open THEN "term" ELSE "closed"], !.text = text]
                               ELSE NoProcess]
  /\ ids \in [user : {"root", "plain"}, group : {"first"}] /\ asked = NotAsked /\ printed = 0

To(p, at) == procs' = [procs EXCEPT ![p].at = at]
Failed(p) == MayFail /\ To(p, "false") /\ UNCHANGED <<ids, asked, printed>>

\* The son has a copy of everything, of the output that was not written too; the father exits.
Forks(p, from, to) ==
  /\ procs[p].at = from
  /\ procs' = [procs EXCEPT ![p].at = "exit", ![p + 1] = [procs[p] EXCEPT !.at = to, !.leads = FALSE]]
  /\ UNCHANGED <<ids, asked, printed>>
\* Variants of FirstFork and SecondFork.
NoSecondFork(p) == procs[p].at = "fork_2" /\ To(p, "chdir") /\ UNCHANGED <<ids, asked, printed>>
FirstFork(p) == Forks(p, "fork", "setsid")
SecondFork(p) == Forks(p, "fork_2", "chdir")
ForkFails(p) == procs[p].at \in {"fork", "fork_2"} /\ Failed(p)
\* exit writes what is in the buffer.
Exit(p) ==
  /\ procs[p].at = "exit" /\ To(p, "gone")
  /\ printed' = IF procs[p].text /\ procs[p].fds[1] = "term" THEN printed + 1 ELSE printed
  /\ UNCHANGED <<ids, asked>>

Setsid(p) ==
  /\ procs[p].at = "setsid"
  /\ Failed(p) \/ (procs' = [procs EXCEPT ![p].at = "fork_2", ![p].leads = TRUE] /\ UNCHANGED <<ids, asked, printed>>)
Chdir(p) ==
  /\ procs[p].at = "chdir"
  /\ Failed(p) \/ (procs' = [procs EXCEPT ![p].at = "fd_0", ![p].cwd = "/"] /\ UNCHANGED <<ids, asked, printed>>)

\* close and open of one standard descriptor: the lowest number that is free is the one that was closed, or else the new one is closed again.
\* Variant of Reopened without the close.
OpenedOnly(fds, f) ==
  LET free == {g \in Fds : fds[g] = "closed"}
  IN IF free = {} \/ Min(free) # f THEN fds ELSE [fds EXCEPT ![f] = "null"]
Reopened(fds, f) ==
  LET new == Min({g \in Fds : fds[g] = "closed"} \cup {f})
  IN [[fds EXCEPT ![f] = "closed"] EXCEPT ![new] = IF new = f THEN "null" ELSE "closed"]
At == [f \in 0..2 |-> CASE f = 0 -> "fd_0" [] f = 1 -> "fd_1" [] f = 2 -> "fd_2"]
Reopen(p) ==
  \E f \in 0..2 :
    /\ procs[p].at = At[f]
    /\ \/ procs' = [procs EXCEPT ![p].at = IF f = 2 THEN "true" ELSE At[f + 1], ![p].fds = Reopened(@, f)] /\ UNCHANGED <<ids, asked, printed>>
       \/ MayFail /\ procs' = [procs EXCEPT ![p].at = "false", ![p].fds = [@ EXCEPT ![f] = "closed"]] /\ UNCHANGED <<ids, asked, printed>>

-----------------------------------------------------------------------------
(* SU_SetUserGroup: the group, then the user. The first failure ends it, and *)
(* what was changed before stays.                                           *)
UserFirst == <<"user", "group">>
Order == <<"group", "user">>
Change(who, id, what) ==
  IF ~who.ok \/ what[id] = "none" THEN who
  ELSE IF what[id] = "unknown" \/ who.user # "root" THEN [who EXCEPT !.ok = FALSE]
  ELSE [who EXCEPT ![id] = what[id]]
SU_SetUserGroup(p) ==
  /\ procs[p].at = "true" /\ asked = NotAsked
  /\ \E user, group \in {"none", "unknown", "other"} :
       LET what == [user |-> user, group |-> group]
           after == Change(Change([user |-> ids.user, group |-> ids.group, ok |-> TRUE], Order[1], what), Order[2], what)
       IN /\ ids' = [user |-> after.user, group |-> after.group]
          /\ asked' = [user |-> user, group |-> group, from |-> ids.user, ok |-> after.ok]
  /\ UNCHANGED <<procs, printed>>

Next ==
  \E p \in Pids :
    \/ (p < 3 /\ (FirstFork(p) \/ SecondFork(p) \/ ForkFails(p)))
    \/ Exit(p) \/ Setsid(p) \/ Chdir(p) \/ Reopen(p) \/ SU_SetUserGroup(p)
-----------------------------------------------------------------------------
TypeOK == printed \in 0..3 /\ \A p \in Pids : procs[p].fds \in [Fds -> {"closed", "term", "null"}]

\* Whatever fails, and whatever the program was started with: one process at most comes back from SU_Daemonize; if it is told true its standard
\* descriptors are all those of /dev/null, its other files are as they were, it leads no session, so that it cannot get a terminal, and keeps no
\* directory busy. What was in the buffer of stdout has been printed when both fathers are gone, by each of them.
Daemonized ==
  /\ Cardinality({p \in Pids : procs[p].at \in {"true", "false"}}) <= 1
  /\ \A p \in Pids : procs[p].at = "true" =>
       /\ \A f \in 0..2 : procs[p].fds[f] = "null"
       /\ procs[p].fds[3] = procs[1].fds[3] /\ ~procs[p].leads /\ procs[p].cwd = "/"
  /\ procs[1].at = "gone" /\ procs[2].at = "gone" /\ procs[1].text /\ procs[1].fds[1] = "term" => printed = 2

\* A daemon that was root and asks for a user and a group that there are becomes both. Whoever is told of success is what he asked for; whoever is told of
\* a failure is the user he was, and may have the new group already.
BecomesWhoAsked ==
  asked # NotAsked =>
    /\ asked.from = "root" /\ asked.user # "unknown" /\ asked.group # "unknown" => asked.ok
    /\ asked.ok => ids.user = (IF asked.user = "none" THEN asked.from ELSE asked.user) /\ (asked.group # "none" => ids.group = asked.group)
    /\ ~asked.ok => ids.user = asked.from
=============================================================================
