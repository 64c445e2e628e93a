------------------------------ MODULE MemTrace ------------------------------
(***************************************************************************)
(* The tracing allocator of src/memory.c: SU_malloc_trace and its family   *)
(* record every block in a list, report blocks that are freed twice or     *)
(* written out of bounds, and count the bytes in use.  Any thread of the   *)
(* program calls them.                                                     *)
(*                                                                         *)
(* The list is protected by a critical section that the first call makes.  *)
(* The counter and parts of SU_realloc_trace are not: they are split here  *)
(* into the reads and writes another thread can come between.              *)
(*                                                                         *)
(* A list node and the SU_TAlloc record it carries are one Node.  The      *)
(* order of the list is left out: an entry is looked up by its block.      *)
(*                                                                         *)
(* Clients use only the blocks they were given, and hand each of these to  *)
(* one call at a time.  The one error they make is the one the trace    *)
(* mode is for: freeing or resizing a block they freed under that mode.    *)
(***************************************************************************)
EXTENDS Integers, FiniteSets

CONSTANTS
  Threads,        \* the threads of the program
  Blocks,         \* the addresses libc's malloc hands out (bound: memory)
  Nodes,          \* the addresses of list nodes with their record
  Sizes,          \* the sizes clients ask for
  Word,           \* bound: SU_total_memory_allocated is counted modulo this
  First,          \* the thread that makes the first call before the others
                  \* start, NoThread if they all start together
  RecordMayFail,  \* may malloc of a record return NULL
  EnvTrace,       \* the SU_MALLOC_TRACE environment variable
  Walks,          \* the list walks clients make: "check", "stats", "print"
  NoThread, NoBlock, NoNode

ASSUME MemTraceAssumption ==
  /\ NoThread \notin Threads /\ NoBlock \notin Blocks /\ NoNode \notin Nodes
  /\ Sizes \subseteq Nat \ {0}
  /\ Word \in Nat \ {0}
  /\ First \in Threads \cup {NoThread} /\ RecordMayFail \in BOOLEAN /\ EnvTrace \in BOOLEAN
  /\ Walks \subseteq {"check", "stats", "print"}

VARIABLES
  sem_init,  \* SU_sem_init
  lock,      \* the thread inside SU_alloc_trace_sem, NoThread if none
  check,     \* SU_env_check: 0 is silent, 1 reports, 2 reports and aborts
  trace,     \* SU_env_trace
  total,     \* SU_total_memory_allocated
  heap,      \* the blocks libc has handed out and not taken back
  bound,     \* the size behind which the tail bound of each block is written
  list,      \* the nodes linked in SU_alloc_trace_list
  rec,       \* the record of each node
  fn,        \* the function each thread is in
  step,      \* where it is in that function
  loc,       \* its local variables, and the outermost call it made
  owned,     \* ghost: the blocks the clients may use
  stale,     \* ghost: the blocks they freed into quarantine
  reports,   \* ghost: reports on a block its caller owned, or misused
  aborted    \* abort was called

section == <<sem_init, lock>>
config == <<check, trace>>
memory == <<heap, bound, list, rec>>
control == <<fn, step, loc>>
client == <<owned, stale>>
outcome == <<reports, aborted>>
vars == <<section, config, total, memory, control, client, outcome>>

Functions == {"none", "malloc", "realloc", "free", "walk", "config"}
Records == [ptr : Blocks \cup {NoBlock}, size : Nat, freed : BOOLEAN]
NoRecord == [ptr |-> NoBlock, size |-> 0, freed |-> FALSE]
Locals == [op : {"none", "malloc", "realloc", "free", "config"} \cup Walks,
           ptr : Blocks \cup {NoBlock}, new : Blocks \cup {NoBlock},
           node : Nodes \cup {NoNode}, size : Nat, tmp : Nat]
NoLocals == [op |-> "none", ptr |-> NoBlock, new |-> NoBlock,
             node |-> NoNode, size |-> 0, tmp |-> 0]

\* The steps between SU_CRITICAL_ENTER and SU_CRITICAL_LEAVE.
Inside == {"scan", "load_freed", "store_freed", "mark", "release", "unlink", "leave"}
Outside == {"idle", "check", "init", "set", "raw", "load", "store", "enter",
            "test", "load_old", "store_old", "resize", "load_new", "store_new", "rebound"}
InSection(t) == step[t] \in Inside

\* size_t arithmetic.
Plus(n, s) == (n + s) % Word
\* Mutant: the subtraction does not wrap.
MinusUnwrapped(n, s) == n - s
Minus(n, s) == (n - s) % Word

\* The unprotected updates of the counter: a read, then a write.
StoreAfter == [load |-> "store", load_freed |-> "store_freed",
               load_old |-> "store_old", load_new |-> "store_new"]

\* The nodes a scan of the list for a block can stop at.
Found(b) == {n \in list : rec[n].ptr = b}

\* The tail bound of the block of a record is where the record says.
BoundsHold(n) == bound[rec[n].ptr] = rec[n].size

Go(t, s) == step' = [step EXCEPT ![t] = s] /\ UNCHANGED fn
Enters(t, f, s) == fn' = [fn EXCEPT ![t] = f] /\ step' = [step EXCEPT ![t] = s]

\* The local variables of t at the start of a call, and as they are bound.
Begins(t, op, ptr, size) ==
  loc' = [loc EXCEPT ![t] = [NoLocals EXCEPT !.op = op, !.ptr = ptr, !.size = size]]
BindNew(t, b) == loc' = [loc EXCEPT ![t].new = b]
BindNode(t, n) == loc' = [loc EXCEPT ![t].node = n]
BindTmp(t, n) == loc' = [loc EXCEPT ![t].tmp = n]
Unbind(t) == loc' = [loc EXCEPT ![t] = NoLocals]

\* The outermost call of t returns, and gives blocks to the clients.
Return(t, given) ==
  /\ Enters(t, "none", "idle")
  /\ Unbind(t)
  /\ owned' = owned \cup given

\* SU_printf_trace_debug: a report, and with MALLOC_CHECK_ at 2 the end.
Report(t) ==
  /\ reports' = reports \cup
       (IF check = 0 THEN {} ELSE {IF loc[t].ptr \in stale THEN "misuse" ELSE "legal"})
  /\ aborted' = (check = 2)

At(t, f, s) == fn[t] = f /\ step[t] = s

\* A thread that runs the client's code, once it has been started.
MayCall(t) == step[t] = "idle" /\ (sem_init \/ First \in {t, NoThread})

-----------------------------------------------------------------------------
Init ==
  /\ sem_init = FALSE /\ lock = NoThread
  /\ check = 2 /\ trace = FALSE
  /\ total = 0
  /\ heap = {} /\ bound = [b \in Blocks |-> 0]
  /\ list = {} /\ rec = [n \in Nodes |-> NoRecord]
  /\ fn = [t \in Threads |-> "none"] /\ step = [t \in Threads |-> "idle"]
  /\ loc = [t \in Threads |-> NoLocals]
  /\ owned = {} /\ stale = {}
  /\ reports = {} /\ aborted = FALSE

(* The calls.  A block is out of its owner's hands while a call has it.    *)

\* SU_malloc_trace; SU_calloc_trace and SU_strdup_trace fill what it
\* returns, SU_realloc_trace of NULL is it.
CallMalloc(t) ==
  /\ MayCall(t)
  /\ \E s \in Sizes : Begins(t, "malloc", NoBlock, s)
  /\ Enters(t, "malloc", "check")
  /\ UNCHANGED <<section, config, total, memory, client, outcome>>

CallFree(t) ==
  /\ MayCall(t)
  /\ \E b \in owned \cup stale :
       /\ Begins(t, "free", b, 0)
       /\ owned' = owned \ {b}
  /\ Enters(t, "free", "check")
  /\ UNCHANGED <<section, config, total, memory, stale, outcome>>

CallRealloc(t) ==
  /\ MayCall(t)
  /\ \E b \in owned \cup stale, s \in Sizes \cup {0} :
       /\ Begins(t, "realloc", b, s)
       /\ owned' = owned \ {b}
  /\ Enters(t, "realloc", "check")
  /\ UNCHANGED <<section, config, total, memory, stale, outcome>>

\* SU_check_memory, SU_alloc_stats, and SU_alloc_trace_print, which does not
\* call SU_malloc_CheckInit.
CallWalk(t) ==
  /\ MayCall(t)
  /\ \E w \in Walks :
       /\ Begins(t, w, NoBlock, 0)
       /\ Enters(t, "walk", IF w = "print" THEN "enter" ELSE "check")
  /\ UNCHANGED <<section, config, total, memory, client, outcome>>

CallSetMallocConfig(t) ==
  /\ MayCall(t)
  /\ Begins(t, "config", NoBlock, 0)
  /\ Enters(t, "config", "check")
  /\ UNCHANGED <<section, config, total, memory, client, outcome>>

-----------------------------------------------------------------------------
(* What the functions have in common.                                      *)

\* Where a function goes on after SU_malloc_CheckInit.
AfterInit(f) == CASE f = "malloc" -> "raw" [] f = "config" -> "set" [] OTHER -> "enter"

\* SU_malloc_CheckInit, the test ...
\* Mutant: the test is dropped.
CheckInitUntested(t) ==
  /\ step[t] = "check"
  /\ Go(t, "init")
  /\ UNCHANGED <<section, config, total, memory, loc, client, outcome>>
CheckInit(t) ==
  /\ step[t] = "check"
  /\ Go(t, IF sem_init THEN AfterInit(fn[t]) ELSE "init")
  /\ UNCHANGED <<section, config, total, memory, loc, client, outcome>>

\* ... and what it does when the test found no critical section: a mutex
\* somebody is in is open again.  The environment is read unless
\* SU_SetMallocConfig is the caller.
InitSection(t) ==
  /\ step[t] = "init"
  /\ lock' = NoThread /\ sem_init' = TRUE
  /\ IF fn[t] = "config" THEN UNCHANGED config ELSE check' = 2 /\ trace' = EnvTrace
  /\ Go(t, AfterInit(fn[t]))
  /\ UNCHANGED <<total, memory, loc, client, outcome>>

SetMallocConfig(t) ==
  /\ step[t] = "set"
  /\ check' \in 0..2 /\ trace' \in BOOLEAN
  /\ Return(t, {})
  /\ UNCHANGED <<section, total, memory, stale, outcome>>

Enter(t) ==
  /\ step[t] = "enter" /\ lock = NoThread
  /\ lock' = t
  /\ Go(t, "scan")
  /\ UNCHANGED <<sem_init, config, total, memory, loc, client, outcome>>

\* Leaving the critical section.  SU_realloc_trace goes on without it; when
\* it called SU_malloc_trace for a larger block, it copies and frees the
\* old one; the others return.
Leave(t) ==
  /\ step[t] = "leave"
  /\ lock' = NoThread
  /\ \/ /\ fn[t] = "realloc"
        /\ Go(t, "test")
        /\ UNCHANGED <<loc, owned>>
     \/ /\ fn[t] = "malloc" /\ loc[t].op = "realloc"
        /\ Enters(t, "free", "check")
        /\ UNCHANGED <<loc, owned>>
     \/ /\ fn[t] \in {"free", "walk"} \/ loc[t].op = "malloc"
        /\ Return(t, {loc[t].new} \ {NoBlock})
  /\ UNCHANGED <<sem_init, config, total, memory, stale, outcome>>

\* SU_total_memory_allocated is read; it is written at a later step.
Load(t) ==
  /\ step[t] \in DOMAIN StoreAfter
  /\ BindTmp(t, total)
  /\ Go(t, StoreAfter[step[t]])
  /\ UNCHANGED <<section, config, total, memory, client, outcome>>

-----------------------------------------------------------------------------
(* SU_malloc_trace.                                                        *)

\* libc's malloc; when it fails a realloc leaves the old block as it was.
MallocRaw(t) ==
  /\ At(t, "malloc", "raw")
  /\ \/ \E b \in Blocks \ heap :
          /\ heap' = heap \cup {b}
          /\ BindNew(t, b)
          /\ Go(t, "load")
          /\ UNCHANGED owned
     \/ /\ heap = Blocks
        /\ Return(t, {loc[t].ptr} \ {NoBlock})
        /\ UNCHANGED heap
  /\ UNCHANGED <<section, config, total, bound, list, rec, stale, outcome>>

MallocStore(t) ==
  /\ At(t, "malloc", "store")
  /\ total' = Plus(loc[t].tmp, loc[t].size)
  /\ bound' = [bound EXCEPT ![loc[t].new] = loc[t].size]
  /\ Go(t, "enter")
  /\ UNCHANGED <<section, config, heap, list, rec, loc, client, outcome>>

\* The block gets a record: the one an earlier block left at its address, or
\* a new one.
MallocRecord(t) ==
  /\ At(t, "malloc", "scan")
  /\ \E n \in IF Found(loc[t].new) # {} THEN Found(loc[t].new) ELSE Nodes \ list :
       /\ list' = list \cup {n}
       /\ rec' = [rec EXCEPT ![n] =
            [ptr |-> loc[t].new, size |-> loc[t].size, freed |-> FALSE]]
  /\ Go(t, "leave")
  /\ UNCHANGED <<section, config, total, heap, bound, loc, client, outcome>>

\* No memory for the record: the call returns NULL from inside the section.
MallocNoRecord(t) ==
  /\ At(t, "malloc", "scan")
  /\ RecordMayFail /\ Found(loc[t].new) = {}
  /\ heap' = heap \ {loc[t].new}
  /\ Return(t, {loc[t].ptr} \ {NoBlock})
  /\ UNCHANGED <<section, config, total, bound, list, rec, stale, outcome>>

-----------------------------------------------------------------------------
(* SU_free_trace, inside the critical section.                             *)

\* The scan and the tests: an unknown block and one that was freed are
\* reported and left alone, a block without its tail bound is reported.
\* Mutants: the record is not asked whether its block was freed; the report
\* of a block that was freed returns without leaving the section.
FreeScanOfAny(t) ==
  /\ At(t, "free", "scan")
  /\ \/ /\ Found(loc[t].ptr) = {}
        /\ Report(t) /\ Go(t, "leave") /\ UNCHANGED loc
     \/ \E n \in Found(loc[t].ptr) :
          /\ UNCHANGED outcome
          /\ BindNode(t, n)
          /\ Go(t, "load_freed")
  /\ UNCHANGED <<section, config, total, memory, client>>
FreeScanReturning(t) ==
  /\ At(t, "free", "scan")
  /\ \/ /\ \A n \in Found(loc[t].ptr) : rec[n].freed
        /\ Report(t) /\ Return(t, {})
     \/ \E n \in Found(loc[t].ptr) :
          /\ ~rec[n].freed
          /\ BindNode(t, n)
          /\ Go(t, "load_freed")
          /\ UNCHANGED <<owned, outcome>>
  /\ UNCHANGED <<section, config, total, memory, stale>>
FreeScan(t) ==
  /\ At(t, "free", "scan")
  /\ \/ /\ \A n \in Found(loc[t].ptr) : rec[n].freed
        /\ Report(t) /\ Go(t, "leave") /\ UNCHANGED loc
     \/ \E n \in Found(loc[t].ptr) :
          /\ ~rec[n].freed
          /\ IF BoundsHold(n) THEN UNCHANGED outcome ELSE Report(t)
          /\ BindNode(t, n)
          /\ Go(t, "load_freed")
  /\ UNCHANGED <<section, config, total, memory, client>>

FreeStore(t) ==
  /\ At(t, "free", "store_freed")
  /\ total' = Minus(loc[t].tmp, rec[loc[t].node].size)
  /\ Go(t, IF trace THEN "mark" ELSE "release")
  /\ UNCHANGED <<section, config, memory, loc, client, outcome>>

\* In trace mode the block is not given back, so that a later use of it can
\* be reported.
FreeMark(t) ==
  /\ At(t, "free", "mark")
  /\ rec' = [rec EXCEPT ![loc[t].node].freed = TRUE]
  /\ stale' = stale \cup {loc[t].ptr}
  /\ Go(t, "leave")
  /\ UNCHANGED <<section, config, total, heap, bound, list, loc, owned, outcome>>

\* Otherwise the block goes back to libc, and its record and node after it.
\* Mutant: the section is left before the record is unlinked.
FreeReleaseLeaving(t) ==
  /\ At(t, "free", "release")
  /\ heap' = heap \ {rec[loc[t].node].ptr}
  /\ lock' = NoThread
  /\ Go(t, "unlink")
  /\ UNCHANGED <<sem_init, config, total, bound, list, rec, loc, client, outcome>>
FreeRelease(t) ==
  /\ At(t, "free", "release")
  /\ heap' = heap \ {rec[loc[t].node].ptr}
  /\ Go(t, "unlink")
  /\ UNCHANGED <<section, config, total, bound, list, rec, loc, client, outcome>>

\* Mutants: the node stays linked; another node is unlinked.
FreeUnlinkNone(t) ==
  /\ At(t, "free", "unlink")
  /\ Go(t, "leave")
  /\ UNCHANGED <<section, config, total, memory, loc, client, outcome>>
FreeUnlinkAny(t) ==
  /\ At(t, "free", "unlink")
  /\ \E n \in list : list' = list \ {n}
  /\ Go(t, "leave")
  /\ UNCHANGED <<section, config, total, heap, bound, rec, loc, client, outcome>>
FreeUnlink(t) ==
  /\ At(t, "free", "unlink")
  /\ list' = list \ {loc[t].node}
  /\ Go(t, "leave")
  /\ UNCHANGED <<section, config, total, heap, bound, rec, loc, client, outcome>>

-----------------------------------------------------------------------------
(* SU_realloc_trace: the scan is inside the critical section, the rest uses *)
(* the record it found outside of it.                                      *)

ReallocScan(t) ==
  /\ At(t, "realloc", "scan")
  /\ \E n \in IF Found(loc[t].ptr) # {} THEN Found(loc[t].ptr) ELSE {NoNode} :
       BindNode(t, n)
  /\ Go(t, "leave")
  /\ UNCHANGED <<section, config, total, memory, client, outcome>>

\* Unknown or freed: reported, NULL.
ReallocRefuse(t) ==
  /\ At(t, "realloc", "test")
  /\ loc[t].node = NoNode \/ rec[loc[t].node].freed
  /\ Report(t)
  /\ Return(t, {})
  /\ UNCHANGED <<section, config, total, memory, stale>>

\* Size 0 frees, a larger size asks for another block, any other shrinks.
ReallocTest(t) ==
  /\ At(t, "realloc", "test")
  /\ loc[t].node # NoNode /\ ~rec[loc[t].node].freed
  /\ \/ loc[t].size = 0 /\ Enters(t, "free", "check")
     \/ loc[t].size > rec[loc[t].node].size /\ Enters(t, "malloc", "check")
     \/ loc[t].size \in 1..rec[loc[t].node].size /\ Go(t, "load_old")
  /\ UNCHANGED <<section, config, total, memory, loc, client, outcome>>

ReallocStoreOld(t) ==
  /\ At(t, "realloc", "store_old")
  /\ total' = Minus(loc[t].tmp, rec[loc[t].node].size)
  /\ Go(t, "resize")
  /\ UNCHANGED <<section, config, memory, loc, client, outcome>>

ReallocResize(t) ==
  /\ At(t, "realloc", "resize")
  /\ rec' = [rec EXCEPT ![loc[t].node].size = loc[t].size]
  /\ Go(t, "load_new")
  /\ UNCHANGED <<section, config, total, heap, bound, list, loc, client, outcome>>

ReallocStoreNew(t) ==
  /\ At(t, "realloc", "store_new")
  /\ total' = Plus(loc[t].tmp, rec[loc[t].node].size)
  /\ Go(t, "rebound")
  /\ UNCHANGED <<section, config, memory, loc, client, outcome>>

\* Mutant: the tail bound is not written at the new size.
ReallocUnbound(t) ==
  /\ At(t, "realloc", "rebound")
  /\ Return(t, {loc[t].ptr})
  /\ UNCHANGED <<section, config, total, memory, stale, outcome>>
ReallocRebound(t) ==
  /\ At(t, "realloc", "rebound")
  /\ bound' = [bound EXCEPT ![rec[loc[t].node].ptr] = loc[t].size]
  /\ Return(t, {loc[t].ptr})
  /\ UNCHANGED <<section, config, total, heap, list, rec, stale, outcome>>

-----------------------------------------------------------------------------
(* SU_check_memory reads the bounds of every block in the list; the other  *)
(* walks read the records only.                                            *)
WalkScan(t) ==
  /\ At(t, "walk", "scan")
  /\ IF loc[t].op = "check" /\ \E n \in list : ~BoundsHold(n)
        THEN Report(t) ELSE UNCHANGED outcome
  /\ Go(t, "leave")
  /\ UNCHANGED <<section, config, total, memory, loc, client>>

-----------------------------------------------------------------------------
Call(t) == CallMalloc(t) \/ CallFree(t) \/ CallRealloc(t) \/ CallWalk(t) \/ CallSetMallocConfig(t)

Step(t) ==
  \/ CheckInit(t) \/ InitSection(t) \/ SetMallocConfig(t) \/ Enter(t) \/ Leave(t) \/ Load(t)
  \/ MallocRaw(t) \/ MallocStore(t) \/ MallocRecord(t) \/ MallocNoRecord(t)
  \/ FreeScan(t) \/ FreeStore(t) \/ FreeMark(t) \/ FreeRelease(t) \/ FreeUnlink(t)
  \/ ReallocScan(t) \/ ReallocRefuse(t) \/ ReallocTest(t) \/ ReallocStoreOld(t)
  \/ ReallocResize(t) \/ ReallocStoreNew(t) \/ ReallocRebound(t)
  \/ WalkScan(t)

Next == ~aborted /\ \E t \in Threads : Call(t) \/ Step(t)

\* The scheduler runs every thread that can run.  Nothing is assumed of the
\* critical section: pthread mutexes are not fair.
Fairness == \A t \in Threads : WF_vars(~aborted /\ Step(t))

Spec == Init /\ [][Next]_vars /\ Fairness

-----------------------------------------------------------------------------
(* Properties.                                                             *)

TypeOK ==
  /\ sem_init \in BOOLEAN /\ lock \in Threads \cup {NoThread}
  /\ check \in 0..2 /\ trace \in BOOLEAN
  /\ total \in 0..(Word - 1)
  /\ heap \subseteq Blocks /\ bound \in [Blocks -> Nat]
  /\ list \subseteq Nodes /\ rec \in [Nodes -> Records]
  /\ fn \in [Threads -> Functions] /\ step \in [Threads -> Inside \cup Outside]
  /\ loc \in [Threads -> Locals]
  /\ owned \subseteq Blocks /\ stale \subseteq Blocks
  /\ reports \subseteq {"legal", "misuse"} /\ aborted \in BOOLEAN

\* One thread at a time is between SU_CRITICAL_ENTER and SU_CRITICAL_LEAVE
\* (memory.c:39, "to protect the use of SU_alloc_trace_list"): every path of
\* every function, and the making of the section by the first call.
MutualExclusion == \A t \in Threads : InSection(t) => lock = t

\* The block a call of realloc or free has in hand and not yet given back.
HasOld(t) ==
  /\ loc[t].ptr # NoBlock /\ loc[t].ptr \notin stale
  /\ ~(fn[t] = "free" /\ step[t] \in {"release", "unlink", "leave"})

\* The list holds at most one record of a block, and a block in use has one,
\* with its freed flag down; when no call is on, it has a record of each block in
\* use or in quarantine and of no other: no order of the unlocked calls of malloc
\* and free and of the locked updates of the list loses, doubles or leaves a record.
OneRecordPerBlock ==
  /\ \A m, n \in list : rec[m].ptr = rec[n].ptr => m = n
  /\ \A b \in owned \cup {loc[t].ptr : t \in {u \in Threads : HasOld(u)}} :
       b \in heap /\ \E n \in Found(b) : ~rec[n].freed
  /\ (\A t \in Threads : step[t] = "idle") => {rec[n].ptr : n \in list} = owned \cup stale

\* A thread that walks the list from inside the section reads the bounds of
\* the blocks it names: all of them are still memory of the program, though
\* free gives a block back before it unlinks the record.
NoDanglingRead ==
  \A t \in Threads : step[t] = "scan" => \A n \in list : rec[n].ptr \in heap

\* SU_realloc_trace uses the record it found after it left the section: the
\* record is still in the list then, and still the one of its block.
RecordStaysFound ==
  \A t \in Threads :
    /\ fn[t] = "realloc" /\ step[t] \notin {"check", "enter", "scan"}
    /\ loc[t].node # NoNode
    => loc[t].node \in list /\ rec[loc[t].node].ptr = loc[t].ptr

\* A block freed in trace mode is never handed out again and keeps the record
\* that tells where it was freed, whatever the mode is set to later.
Quarantine ==
  \A b \in stale :
    /\ b \in heap \ owned
    /\ \A t \in Threads : loc[t].new # b
    /\ \E n \in Found(b) : rec[n].freed

\* With MALLOC_CHECK_ at 2 a report ends the program: none is ever made on
\* the call of a client that uses its own blocks.
LegalCallNotReported == "legal" \notin reports

\* The section is always left again.
LockReleased == \A t \in Threads : lock = t ~> lock # t \/ aborted
=============================================================================
