------------------------------ MODULE MCMemory ------------------------------
(* What one program keeps in its memory: a growing buffer, and the section  *)
(* of the tracing allocator when records can be had, which need fairness.   *)
(* They share no state, so each behaviour is one of a single part; the      *)
(* other one stays in its initial state.                                    *)
EXTENDS SkyBuffer

CONSTANTS
  Threads, Blocks, Nodes, Sizes, Word, First, RecordMayFail, EnvTrace, Walks, NoThread, NoBlock, NoNode   \* of MemTrace

VARIABLES part, sem_init, lock, check, trace, total, heap, bound, list, rec, fn, step, loc, owned, stale, reports, aborted

traceVars == <<sem_init, lock, check, trace, total, heap, bound, list, rec, fn, step, loc, owned, stale, reports, aborted>>

Trace == INSTANCE MemTrace

-----------------------------------------------------------------------------
MemoryInit == part \in {"buffer", "trace"} /\ Init /\ Trace!Init
MemoryNext ==
  /\ UNCHANGED part
  /\ \/ part = "buffer" /\ Next /\ UNCHANGED traceVars
     \/ part = "trace" /\ Trace!Next /\ UNCHANGED vars
     \/ aborted /\ UNCHANGED <<vars, traceVars>>     \* the program has ended
MemorySpec == MemoryInit /\ [][MemoryNext]_<<part, vars, traceVars>> /\ Fairness /\ Trace!Fairness

\* The section is always left again.
LockReleased == Trace!LockReleased
=============================================================================
