--------------------------- MODULE MemTraceProofs ---------------------------
(***************************************************************************)
(* Theorems about MemTrace, for any number of threads, blocks, nodes and   *)
(* sizes: its type invariant, and, when one thread makes its first call    *)
(* before the others start, mutual exclusion of the critical section of    *)
(* the list, one record for each block, the quarantine, and reports of     *)
(* nothing but misuse.                                                     *)
(*                                                                         *)
(* The last four rest on one inductive invariant, IInv: it says which call *)
(* has which block in hand at each of its steps (Holds, Raw, Unlinking),   *)
(* so that the records of the list, the quarantine and the tail bounds can *)
(* be told from the hands the blocks are in.                               *)
(***************************************************************************)
EXTENDS MemTrace, TLAPS

\* What a thread's place in a function tells of its local variables.
LocalsOK(t) ==
  /\ loc[t].op \in {"free", "realloc"} => loc[t].ptr \in Blocks
  /\ fn[t] = "free" => loc[t].op \in {"free", "realloc"}
  /\ fn[t] = "realloc" => loc[t].op = "realloc"
  /\ step[t] \in {"load_freed", "store_freed", "mark", "release", "unlink",
                  "load_old", "store_old", "resize", "load_new", "store_new", "rebound"}
       => loc[t].node \in Nodes

TypeInv == TypeOK /\ \A t \in Threads : LocalsOK(t)

\* A step of t leaves the control state of the other threads alone.
OthersStay(t) ==
  \A u \in Threads \ {t} : loc'[u] = loc[u] /\ fn'[u] = fn[u] /\ step'[u] = step[u]

-----------------------------------------------------------------------------
(* The operators the actions are made of.                                  *)

\* The counter stays within its width.
LEMMA WordArithmetic ==
  ASSUME NEW n \in Nat, NEW s \in Nat
  PROVE  Plus(n, s) \in 0..(Word - 1) /\ Minus(n, s) \in 0..(Word - 1)
  BY MemTraceAssumption DEF Plus, Minus

LEMMA LocalTypes ==
  ASSUME TypeOK, NEW t \in Threads
  PROVE  /\ loc[t].op \in {"none", "malloc", "realloc", "free", "config"} \cup Walks
         /\ loc[t].ptr \in Blocks \cup {NoBlock} /\ loc[t].new \in Blocks \cup {NoBlock}
         /\ loc[t].node \in Nodes \cup {NoNode}
         /\ loc[t].size \in Nat /\ loc[t].tmp \in Nat
  BY DEF TypeOK, Locals

LEMMA RecordTypes ==
  ASSUME TypeOK, NEW n \in Nodes
  PROVE  rec[n].ptr \in Blocks \cup {NoBlock} /\ rec[n].size \in Nat /\ rec[n].freed \in BOOLEAN
  BY DEF TypeOK, Records

LEMMA GoLemma ==
  ASSUME TypeOK, NEW t \in Threads, NEW s \in Inside \cup Outside, Go(t, s)
  PROVE  /\ step' \in [Threads -> Inside \cup Outside] /\ fn' = fn
         /\ step'[t] = s /\ \A u \in Threads \ {t} : step'[u] = step[u]
  BY DEF Go, TypeOK

LEMMA EntersLemma ==
  ASSUME TypeOK, NEW t \in Threads, NEW f \in Functions, NEW s \in Inside \cup Outside,
         Enters(t, f, s)
  PROVE  /\ step' \in [Threads -> Inside \cup Outside] /\ fn' \in [Threads -> Functions]
         /\ step'[t] = s /\ fn'[t] = f
         /\ \A u \in Threads \ {t} : step'[u] = step[u] /\ fn'[u] = fn[u]
  BY DEF Enters, TypeOK

LEMMA BeginsLemma ==
  ASSUME TypeOK, NEW t \in Threads,
         NEW op \in {"none", "malloc", "realloc", "free", "config"} \cup Walks,
         NEW b \in Blocks \cup {NoBlock}, NEW s \in Nat, Begins(t, op, b, s)
  PROVE  /\ loc' \in [Threads -> Locals]
         /\ loc'[t].op = op /\ loc'[t].ptr = b
         /\ \A u \in Threads \ {t} : loc'[u] = loc[u]
<1>1. [NoLocals EXCEPT !.op = op, !.ptr = b, !.size = s] \in Locals
  BY DEF NoLocals, Locals
<1>2. QED
  BY <1>1 DEF Begins, TypeOK, NoLocals

LEMMA BindNewLemma ==
  ASSUME TypeOK, NEW t \in Threads, NEW b \in Blocks, BindNew(t, b)
  PROVE  /\ loc' \in [Threads -> Locals]
         /\ loc'[t].op = loc[t].op /\ loc'[t].ptr = loc[t].ptr
         /\ \A u \in Threads \ {t} : loc'[u] = loc[u]
<1>1. [loc[t] EXCEPT !.new = b] \in Locals
  BY DEF TypeOK, Locals
<1>2. QED
  BY <1>1 DEF BindNew, TypeOK, Locals

LEMMA BindNodeLemma ==
  ASSUME TypeOK, NEW t \in Threads, NEW n \in Nodes \cup {NoNode}, BindNode(t, n)
  PROVE  /\ loc' \in [Threads -> Locals]
         /\ loc'[t].op = loc[t].op /\ loc'[t].ptr = loc[t].ptr /\ loc'[t].node = n
         /\ \A u \in Threads \ {t} : loc'[u] = loc[u]
<1>1. [loc[t] EXCEPT !.node = n] \in Locals
  BY DEF TypeOK, Locals
<1>2. QED
  BY <1>1 DEF BindNode, TypeOK, Locals

LEMMA BindTmpLemma ==
  ASSUME TypeOK, NEW t \in Threads, NEW n \in Nat, BindTmp(t, n)
  PROVE  /\ loc' \in [Threads -> Locals]
         /\ loc'[t].op = loc[t].op /\ loc'[t].ptr = loc[t].ptr /\ loc'[t].node = loc[t].node
         /\ \A u \in Threads \ {t} : loc'[u] = loc[u]
<1>1. [loc[t] EXCEPT !.tmp = n] \in Locals
  BY DEF TypeOK, Locals
<1>2. QED
  BY <1>1 DEF BindTmp, TypeOK, Locals

LEMMA ReturnLemma ==
  ASSUME TypeOK, NEW t \in Threads, NEW given \in SUBSET Blocks, Return(t, given)
  PROVE  /\ OthersStay(t) /\ LocalsOK(t)'
         /\ step' \in [Threads -> Inside \cup Outside] /\ fn' \in [Threads -> Functions]
         /\ step'[t] = "idle"
         /\ loc' \in [Threads -> Locals] /\ owned' \subseteq Blocks
<1>1. NoLocals \in Locals /\ NoLocals.op = "none"
  BY DEF NoLocals, Locals
<1>2. Enters(t, "none", "idle") /\ loc' = [loc EXCEPT ![t] = NoLocals]
      /\ owned' = owned \cup given
  BY DEF Return, Unbind
<1>3. /\ step' \in [Threads -> Inside \cup Outside] /\ fn' \in [Threads -> Functions]
      /\ step'[t] = "idle" /\ fn'[t] = "none"
      /\ \A u \in Threads \ {t} : step'[u] = step[u] /\ fn'[u] = fn[u]
  BY <1>2, EntersLemma DEF Functions, Outside
<1>4. QED
  BY <1>1, <1>2, <1>3 DEF TypeOK, OthersStay, LocalsOK

LEMMA ReportLemma ==
  ASSUME TypeOK, NEW t, Report(t)
  PROVE  reports' \subseteq {"legal", "misuse"} /\ aborted' \in BOOLEAN
  BY DEF Report, TypeOK

\* What holds of the thread that moves, and is left alone in the others,
\* holds of all of them.
LEMMA OthersKeep ==
  ASSUME TypeInv, TypeOK', NEW t \in Threads, OthersStay(t), LocalsOK(t)'
  PROVE  TypeInv'
  BY DEF TypeInv, LocalsOK, OthersStay

-----------------------------------------------------------------------------
LEMMA TypeInvInit == Init => TypeInv
<1> SUFFICES ASSUME Init PROVE TypeInv
  OBVIOUS
<1>1. rec \in [Nodes -> Records]
  BY DEF Init, Records, NoRecord
<1>2. NoLocals \in Locals /\ NoLocals.op = "none"
  BY DEF NoLocals, Locals
<1>3. loc \in [Threads -> Locals] /\ \A t \in Threads : loc[t].op = "none"
  BY <1>2 DEF Init
<1>4. bound \in [Blocks -> Nat] /\ 0 \in 0..(Word - 1)
  BY MemTraceAssumption DEF Init
<1>5. fn \in [Threads -> Functions] /\ step \in [Threads -> Inside \cup Outside]
  BY DEF Init, Functions, Outside
<1>6. TypeOK
  <2> USE DEF Init
  <2>1. total \in 0..(Word - 1) /\ check \in 0..2
    BY <1>4
  <2>2. QED
    BY <1>1, <1>3, <1>4, <1>5, <2>1 DEF TypeOK
<1>7. \A t \in Threads : LocalsOK(t)
  BY <1>3 DEF Init, LocalsOK
<1>8. QED
  BY <1>6, <1>7 DEF TypeInv

LEMMA CallMallocTypes ==
  ASSUME TypeInv, NEW t \in Threads, CallMalloc(t) PROVE TypeInv'
<1> USE MemTraceAssumption DEF OthersStay, TypeOK, LocalsOK, CallMalloc, MayCall,
   Functions, Outside, section, config, memory, control, client, outcome
<1>1. TypeOK /\ LocalsOK(t)
  BY DEF TypeInv
<1>2. OthersStay(t) /\ LocalsOK(t)'
  BY <1>1, BeginsLemma, EntersLemma
<1>3. TypeOK'
  BY <1>1, BeginsLemma, EntersLemma
<1>4. QED
  BY <1>2, <1>3, OthersKeep

LEMMA CallFreeTypes ==
  ASSUME TypeInv, NEW t \in Threads, CallFree(t) PROVE TypeInv'
<1> USE MemTraceAssumption DEF OthersStay, TypeOK, LocalsOK, CallFree, MayCall, Functions,
   Outside, section, config, memory, control, client, outcome
<1>1. TypeOK /\ LocalsOK(t)
  BY DEF TypeInv
<1>2. OthersStay(t) /\ LocalsOK(t)'
  BY <1>1, BeginsLemma, EntersLemma
<1>3. TypeOK'
  BY <1>1, BeginsLemma, EntersLemma
<1>4. QED
  BY <1>2, <1>3, OthersKeep

LEMMA CallReallocTypes ==
  ASSUME TypeInv, NEW t \in Threads, CallRealloc(t) PROVE TypeInv'
<1> USE MemTraceAssumption DEF OthersStay, TypeOK, LocalsOK, CallRealloc, MayCall,
   Functions, Outside, section, config, memory, control, client, outcome
<1>1. TypeOK /\ LocalsOK(t)
  BY DEF TypeInv
<1>2. OthersStay(t) /\ LocalsOK(t)'
  BY <1>1, BeginsLemma, EntersLemma
<1>3. TypeOK'
  BY <1>1, BeginsLemma, EntersLemma
<1>4. QED
  BY <1>2, <1>3, OthersKeep

LEMMA CallWalkTypes ==
  ASSUME TypeInv, NEW t \in Threads, CallWalk(t) PROVE TypeInv'
<1> USE MemTraceAssumption DEF OthersStay, TypeOK, LocalsOK, CallWalk, MayCall, Functions,
   Outside, section, config, memory, control, client, outcome
<1>1. TypeOK /\ LocalsOK(t)
  BY DEF TypeInv
<1>2. OthersStay(t) /\ LocalsOK(t)'
  BY <1>1, BeginsLemma, EntersLemma
<1>3. TypeOK'
  BY <1>1, BeginsLemma, EntersLemma
<1>4. QED
  BY <1>2, <1>3, OthersKeep

LEMMA CallSetMallocConfigTypes ==
  ASSUME TypeInv, NEW t \in Threads, CallSetMallocConfig(t) PROVE TypeInv'
<1> USE MemTraceAssumption DEF OthersStay, TypeOK, LocalsOK, CallSetMallocConfig, MayCall,
   Functions, Outside, section, config, memory, control, client, outcome
<1>1. TypeOK /\ LocalsOK(t)
  BY DEF TypeInv
<1>2. OthersStay(t) /\ LocalsOK(t)'
  BY <1>1, BeginsLemma, EntersLemma
<1>3. TypeOK'
  BY <1>1, BeginsLemma, EntersLemma
<1>4. QED
  BY <1>2, <1>3, OthersKeep

LEMMA CheckInitTypes ==
  ASSUME TypeInv, NEW t \in Threads, CheckInit(t) PROVE TypeInv'
<1> USE MemTraceAssumption DEF OthersStay, TypeOK, LocalsOK, CheckInit, AfterInit, Outside,
   section, config, memory, control, client, outcome
<1>1. TypeOK /\ LocalsOK(t)
  BY DEF TypeInv
<1>2. OthersStay(t) /\ LocalsOK(t)'
  BY <1>1, GoLemma
<1>3. TypeOK'
  BY <1>1, GoLemma
<1>4. QED
  BY <1>2, <1>3, OthersKeep

LEMMA InitSectionTypes ==
  ASSUME TypeInv, NEW t \in Threads, InitSection(t) PROVE TypeInv'
<1> USE MemTraceAssumption DEF OthersStay, TypeOK, LocalsOK, InitSection, AfterInit,
   Outside, section, config, memory, control, client, outcome
<1>1. TypeOK /\ LocalsOK(t)
  BY DEF TypeInv
<1>2. OthersStay(t) /\ LocalsOK(t)'
  BY <1>1, GoLemma
<1>3. TypeOK'
  BY <1>1, GoLemma
<1>4. QED
  BY <1>2, <1>3, OthersKeep

LEMMA SetMallocConfigTypes ==
  ASSUME TypeInv, NEW t \in Threads, SetMallocConfig(t) PROVE TypeInv'
<1> USE MemTraceAssumption DEF OthersStay, TypeOK, LocalsOK, SetMallocConfig, section,
   config, memory, control, client, outcome
<1>1. TypeOK /\ LocalsOK(t)
  BY DEF TypeInv
<1>2. OthersStay(t) /\ LocalsOK(t)'
  BY <1>1, ReturnLemma
<1>3. TypeOK'
  BY <1>1, ReturnLemma
<1>4. QED
  BY <1>2, <1>3, OthersKeep

LEMMA EnterTypes ==
  ASSUME TypeInv, NEW t \in Threads, Enter(t) PROVE TypeInv'
<1> USE MemTraceAssumption DEF OthersStay, TypeOK, LocalsOK, Enter, Inside, section,
   config, memory, control, client, outcome
<1>1. TypeOK /\ LocalsOK(t)
  BY DEF TypeInv
<1>2. OthersStay(t) /\ LocalsOK(t)'
  BY <1>1, GoLemma
<1>3. TypeOK'
  BY <1>1, GoLemma
<1>4. QED
  BY <1>2, <1>3, OthersKeep

LEMMA LeaveTypes ==
  ASSUME TypeInv, NEW t \in Threads, Leave(t) PROVE TypeInv'
<1> USE MemTraceAssumption DEF OthersStay, TypeOK, LocalsOK, Leave, Functions, Outside,
   section, config, memory, control, client, outcome
<1>1. TypeOK /\ LocalsOK(t)
  BY DEF TypeInv
<1>2. OthersStay(t) /\ LocalsOK(t)'
  BY <1>1, GoLemma, EntersLemma, ReturnLemma, LocalTypes
<1>3. TypeOK'
  BY <1>1, GoLemma, EntersLemma, ReturnLemma, LocalTypes
<1>4. QED
  BY <1>2, <1>3, OthersKeep

LEMMA LoadTypes ==
  ASSUME TypeInv, NEW t \in Threads, Load(t) PROVE TypeInv'
<1> USE MemTraceAssumption DEF OthersStay, TypeOK, LocalsOK, Load, StoreAfter, Inside,
   Outside, section, config, memory, control, client, outcome
<1>1. TypeOK /\ LocalsOK(t)
  BY DEF TypeInv
<1>2. OthersStay(t) /\ LocalsOK(t)'
  BY <1>1, GoLemma, BindTmpLemma
<1>3. TypeOK'
  BY <1>1, GoLemma, BindTmpLemma
<1>4. QED
  BY <1>2, <1>3, OthersKeep

LEMMA MallocRawTypes ==
  ASSUME TypeInv, NEW t \in Threads, MallocRaw(t) PROVE TypeInv'
<1> USE MemTraceAssumption DEF OthersStay, TypeOK, LocalsOK, MallocRaw, At, Outside,
   section, config, memory, control, client, outcome
<1>1. TypeOK /\ LocalsOK(t)
  BY DEF TypeInv
<1>2. OthersStay(t) /\ LocalsOK(t)'
  BY <1>1, GoLemma, BindNewLemma, ReturnLemma, LocalTypes
<1>3. TypeOK'
  BY <1>1, GoLemma, BindNewLemma, ReturnLemma, LocalTypes
<1>4. QED
  BY <1>2, <1>3, OthersKeep

LEMMA MallocStoreTypes ==
  ASSUME TypeInv, NEW t \in Threads, MallocStore(t) PROVE TypeInv'
<1> USE MemTraceAssumption DEF OthersStay, TypeOK, LocalsOK, MallocStore, At, Outside,
   section, config, memory, control, client, outcome
<1>1. TypeOK /\ LocalsOK(t)
  BY DEF TypeInv
<1>2. OthersStay(t) /\ LocalsOK(t)'
  BY <1>1, GoLemma, LocalTypes
<1>3. TypeOK'
  BY <1>1, GoLemma, LocalTypes, WordArithmetic
<1>4. QED
  BY <1>2, <1>3, OthersKeep

LEMMA MallocRecordTypes ==
  ASSUME TypeInv, NEW t \in Threads, MallocRecord(t) PROVE TypeInv'
<1> USE MemTraceAssumption DEF OthersStay, TypeOK, LocalsOK, MallocRecord, At, Inside,
   Records, Found, section, config, memory, control, client, outcome
<1>1. TypeOK /\ LocalsOK(t)
  BY DEF TypeInv
<1>2. OthersStay(t) /\ LocalsOK(t)'
  BY <1>1, GoLemma, LocalTypes
<1>3. TypeOK'
  BY <1>1, GoLemma, LocalTypes
<1>4. QED
  BY <1>2, <1>3, OthersKeep

LEMMA MallocNoRecordTypes ==
  ASSUME TypeInv, NEW t \in Threads, MallocNoRecord(t) PROVE TypeInv'
<1> USE MemTraceAssumption DEF OthersStay, TypeOK, LocalsOK, MallocNoRecord, At, section,
   config, memory, control, client, outcome
<1>1. TypeOK /\ LocalsOK(t)
  BY DEF TypeInv
<1>2. OthersStay(t) /\ LocalsOK(t)'
  BY <1>1, ReturnLemma, LocalTypes
<1>3. TypeOK'
  BY <1>1, ReturnLemma, LocalTypes
<1>4. QED
  BY <1>2, <1>3, OthersKeep

LEMMA FreeScanTypes ==
  ASSUME TypeInv, NEW t \in Threads, FreeScan(t) PROVE TypeInv'
<1> USE MemTraceAssumption DEF OthersStay, TypeOK, LocalsOK, FreeScan, At, Inside, Found,
   section, config, memory, control, client, outcome
<1>1. TypeOK /\ LocalsOK(t)
  BY DEF TypeInv
<1>2. OthersStay(t) /\ LocalsOK(t)'
  BY <1>1, GoLemma, BindNodeLemma, ReportLemma, RecordTypes
<1>3. /\ loc' \in [Threads -> Locals] /\ reports' \subseteq {"legal", "misuse"}
      /\ aborted' \in BOOLEAN
  BY <1>1, BindNodeLemma, ReportLemma
<1>4. TypeOK'
  BY <1>1, <1>3, GoLemma
<1>5. QED
  BY <1>2, <1>4, OthersKeep

LEMMA FreeStoreTypes ==
  ASSUME TypeInv, NEW t \in Threads, FreeStore(t) PROVE TypeInv'
<1> USE MemTraceAssumption DEF OthersStay, TypeOK, LocalsOK, FreeStore, At, Inside,
   section, config, memory, control, client, outcome
<1>1. TypeOK /\ LocalsOK(t)
  BY DEF TypeInv
<1>2. OthersStay(t) /\ LocalsOK(t)'
  BY <1>1, GoLemma, LocalTypes
<1>3. loc[t].tmp \in Nat /\ rec[loc[t].node].size \in Nat
  BY <1>1, LocalTypes, RecordTypes
<1>4. total' \in 0..(Word - 1)
  BY <1>3, WordArithmetic
<1>5. TypeOK'
  BY <1>1, <1>4, GoLemma
<1>6. QED
  BY <1>2, <1>5, OthersKeep

LEMMA FreeMarkTypes ==
  ASSUME TypeInv, NEW t \in Threads, FreeMark(t) PROVE TypeInv'
<1> USE MemTraceAssumption DEF OthersStay, TypeOK, LocalsOK, FreeMark, At, Inside, section,
   config, memory, control, client, outcome
<1>1. TypeOK /\ LocalsOK(t)
  BY DEF TypeInv
<1>2. OthersStay(t) /\ LocalsOK(t)'
  BY <1>1, GoLemma
<1>3. [rec EXCEPT ![loc[t].node].freed = TRUE] \in [Nodes -> Records]
  BY <1>1 DEF TypeOK, Records
<1>4. TypeOK'
  BY <1>1, <1>3, GoLemma
<1>5. QED
  BY <1>2, <1>4, OthersKeep

LEMMA FreeReleaseTypes ==
  ASSUME TypeInv, NEW t \in Threads, FreeRelease(t) PROVE TypeInv'
<1> USE MemTraceAssumption DEF OthersStay, TypeOK, LocalsOK, FreeRelease, At, Inside,
   section, config, memory, control, client, outcome
<1>1. TypeOK /\ LocalsOK(t)
  BY DEF TypeInv
<1>2. OthersStay(t) /\ LocalsOK(t)'
  BY <1>1, GoLemma
<1>3. TypeOK'
  BY <1>1, GoLemma
<1>4. QED
  BY <1>2, <1>3, OthersKeep

LEMMA FreeUnlinkTypes ==
  ASSUME TypeInv, NEW t \in Threads, FreeUnlink(t) PROVE TypeInv'
<1> USE MemTraceAssumption DEF OthersStay, TypeOK, LocalsOK, FreeUnlink, At, Inside,
   section, config, memory, control, client, outcome
<1>1. TypeOK /\ LocalsOK(t)
  BY DEF TypeInv
<1>2. OthersStay(t) /\ LocalsOK(t)'
  BY <1>1, GoLemma
<1>3. TypeOK'
  BY <1>1, GoLemma
<1>4. QED
  BY <1>2, <1>3, OthersKeep

LEMMA ReallocScanTypes ==
  ASSUME TypeInv, NEW t \in Threads, ReallocScan(t) PROVE TypeInv'
<1> USE MemTraceAssumption DEF OthersStay, TypeOK, LocalsOK, ReallocScan, At, Inside,
   Found, section, config, memory, control, client, outcome
<1>1. TypeOK /\ LocalsOK(t)
  BY DEF TypeInv
<1>2. OthersStay(t) /\ LocalsOK(t)'
  BY <1>1, GoLemma, BindNodeLemma
<1>3. TypeOK'
  BY <1>1, GoLemma, BindNodeLemma
<1>4. QED
  BY <1>2, <1>3, OthersKeep

LEMMA ReallocRefuseTypes ==
  ASSUME TypeInv, NEW t \in Threads, ReallocRefuse(t) PROVE TypeInv'
<1> USE MemTraceAssumption DEF OthersStay, TypeOK, LocalsOK, ReallocRefuse, At, section,
   config, memory, control, client, outcome
<1>1. TypeOK /\ LocalsOK(t)
  BY DEF TypeInv
<1>2. OthersStay(t) /\ LocalsOK(t)'
  BY <1>1, ReturnLemma, ReportLemma
<1>3. TypeOK'
  BY <1>1, ReturnLemma, ReportLemma
<1>4. QED
  BY <1>2, <1>3, OthersKeep

LEMMA ReallocTestTypes ==
  ASSUME TypeInv, NEW t \in Threads, ReallocTest(t) PROVE TypeInv'
<1> USE MemTraceAssumption DEF OthersStay, TypeOK, LocalsOK, ReallocTest, At, Functions,
   Outside, section, config, memory, control, client, outcome
<1>1. TypeOK /\ LocalsOK(t)
  BY DEF TypeInv
<1>2. OthersStay(t) /\ LocalsOK(t)'
  BY <1>1, GoLemma, EntersLemma, LocalTypes
<1>3. TypeOK'
  BY <1>1, GoLemma, EntersLemma, LocalTypes
<1>4. QED
  BY <1>2, <1>3, OthersKeep

LEMMA ReallocStoreOldTypes ==
  ASSUME TypeInv, NEW t \in Threads, ReallocStoreOld(t) PROVE TypeInv'
<1> USE MemTraceAssumption DEF OthersStay, TypeOK, LocalsOK, ReallocStoreOld, At, Outside,
   section, config, memory, control, client, outcome
<1>1. TypeOK /\ LocalsOK(t)
  BY DEF TypeInv
<1>2. OthersStay(t) /\ LocalsOK(t)'
  BY <1>1, GoLemma, LocalTypes
<1>3. loc[t].tmp \in Nat /\ rec[loc[t].node].size \in Nat
  BY <1>1, LocalTypes, RecordTypes
<1>4. total' \in 0..(Word - 1)
  BY <1>3, WordArithmetic
<1>5. TypeOK'
  BY <1>1, <1>4, GoLemma
<1>6. QED
  BY <1>2, <1>5, OthersKeep

LEMMA ReallocResizeTypes ==
  ASSUME TypeInv, NEW t \in Threads, ReallocResize(t) PROVE TypeInv'
<1> USE MemTraceAssumption DEF OthersStay, TypeOK, LocalsOK, ReallocResize, At, Outside,
   section, config, memory, control, client, outcome
<1>1. TypeOK /\ LocalsOK(t)
  BY DEF TypeInv
<1>2. OthersStay(t) /\ LocalsOK(t)'
  BY <1>1, GoLemma, LocalTypes
<1>3. [rec EXCEPT ![loc[t].node].size = loc[t].size] \in [Nodes -> Records]
  <2>1. loc[t].node \in Nodes /\ loc[t].size \in Nat
    BY <1>1, LocalTypes DEF LocalsOK, ReallocResize, At
  <2>2. [rec[loc[t].node] EXCEPT !.size = loc[t].size] \in Records
    BY <1>1, <2>1 DEF TypeOK, Records
  <2>3. QED
    BY <1>1, <2>1, <2>2 DEF TypeOK
<1>4. TypeOK'
  BY <1>1, <1>3, GoLemma, LocalTypes
<1>5. QED
  BY <1>2, <1>4, OthersKeep

LEMMA ReallocStoreNewTypes ==
  ASSUME TypeInv, NEW t \in Threads, ReallocStoreNew(t) PROVE TypeInv'
<1> USE MemTraceAssumption DEF OthersStay, TypeOK, LocalsOK, ReallocStoreNew, At, Outside,
   section, config, memory, control, client, outcome
<1>1. TypeOK /\ LocalsOK(t)
  BY DEF TypeInv
<1>2. OthersStay(t) /\ LocalsOK(t)'
  BY <1>1, GoLemma, LocalTypes
<1>3. loc[t].tmp \in Nat /\ rec[loc[t].node].size \in Nat
  BY <1>1, LocalTypes, RecordTypes
<1>4. total' \in 0..(Word - 1)
  BY <1>3, WordArithmetic
<1>5. TypeOK'
  BY <1>1, <1>4, GoLemma
<1>6. QED
  BY <1>2, <1>5, OthersKeep

LEMMA ReallocReboundTypes ==
  ASSUME TypeInv, NEW t \in Threads, ReallocRebound(t) PROVE TypeInv'
<1> USE MemTraceAssumption DEF OthersStay, TypeOK, LocalsOK, ReallocRebound, At, section,
   config, memory, control, client, outcome
<1>1. TypeOK /\ LocalsOK(t)
  BY DEF TypeInv
<1>2. OthersStay(t) /\ LocalsOK(t)'
  BY <1>1, ReturnLemma, LocalTypes
<1>3. TypeOK'
  BY <1>1, ReturnLemma, LocalTypes
<1>4. QED
  BY <1>2, <1>3, OthersKeep

LEMMA WalkScanTypes ==
  ASSUME TypeInv, NEW t \in Threads, WalkScan(t) PROVE TypeInv'
<1> USE MemTraceAssumption DEF OthersStay, TypeOK, LocalsOK, WalkScan, At, Inside, section,
   config, memory, control, client, outcome
<1>1. TypeOK /\ LocalsOK(t)
  BY DEF TypeInv
<1>2. OthersStay(t) /\ LocalsOK(t)'
  BY <1>1, GoLemma, ReportLemma
<1>3. TypeOK'
  BY <1>1, GoLemma, ReportLemma
<1>4. QED
  BY <1>2, <1>3, OthersKeep

LEMMA TypeInvStep == TypeInv /\ [Next]_vars => TypeInv'
<1> SUFFICES ASSUME TypeInv, [Next]_vars PROVE TypeInv'
  OBVIOUS
<1>1. ASSUME NEW t \in Threads, Call(t) PROVE TypeInv'
  BY <1>1, CallMallocTypes, CallFreeTypes, CallReallocTypes, CallWalkTypes,
     CallSetMallocConfigTypes DEF Call
<1>2. ASSUME NEW t \in Threads, Step(t) PROVE TypeInv'
  BY <1>2, CheckInitTypes, InitSectionTypes, SetMallocConfigTypes, EnterTypes, LeaveTypes,
     LoadTypes, MallocRawTypes, MallocStoreTypes, MallocRecordTypes, MallocNoRecordTypes,
     FreeScanTypes, FreeStoreTypes, FreeMarkTypes, FreeReleaseTypes, FreeUnlinkTypes,
     ReallocScanTypes, ReallocRefuseTypes, ReallocTestTypes, ReallocStoreOldTypes,
     ReallocResizeTypes, ReallocStoreNewTypes, ReallocReboundTypes, WalkScanTypes DEF Step
<1>3. CASE UNCHANGED vars
  BY <1>3 DEF vars, section, config, memory, control, client, outcome, TypeInv, TypeOK, LocalsOK
<1>4. QED
  BY <1>1, <1>2, <1>3 DEF Next

\* Every variable keeps its type: in particular the counter never leaves its
\* width, and every pointer a function goes on with is one it found.
THEOREM TypeCorrect == Spec => []TypeOK
<1>1. TypeInv => TypeOK
  BY DEF TypeInv
<1>2. QED
  BY <1>1, TypeInvInit, TypeInvStep, PTL DEF Spec

-----------------------------------------------------------------------------
(* The critical section.  Until it is made, First is the only thread that   *)
(* has left the client's code, so nobody is inside when it is made.        *)

SectionInv ==
  /\ MutualExclusion
  /\ ~sem_init => \A t \in Threads : step[t] # "idle" => t = First
  /\ \A t \in Threads : step[t] = "init" => ~sem_init

\* A step that neither makes, enters nor leaves the section.
Quiet(t) ==
  /\ sem_init' = sem_init /\ lock' = lock
  /\ step[t] # "idle" \/ sem_init \/ First \in {t, NoThread}
  /\ \A u \in Threads \ {t} : step'[u] = step[u]
  /\ step'[t] # "init" /\ (InSection(t)' => InSection(t))

LEMMA QuietKeepsSection ==
  ASSUME First \in Threads, SectionInv, NEW t \in Threads, Quiet(t)
  PROVE  SectionInv'
  BY MemTraceAssumption DEF Quiet, SectionInv, MutualExclusion, InSection, Inside

LEMMA OthersAreQuiet ==
  ASSUME TypeInv, NEW t \in Threads,
         CallMalloc(t) \/ CallFree(t) \/ CallRealloc(t) \/ CallWalk(t)
         \/ CallSetMallocConfig(t) \/ SetMallocConfig(t) \/ Load(t) \/ MallocRaw(t)
         \/ MallocStore(t) \/ MallocRecord(t) \/ MallocNoRecord(t) \/ FreeScan(t)
         \/ FreeStore(t) \/ FreeMark(t) \/ FreeRelease(t) \/ FreeUnlink(t)
         \/ ReallocScan(t) \/ ReallocRefuse(t) \/ ReallocTest(t) \/ ReallocStoreOld(t)
         \/ ReallocResize(t) \/ ReallocStoreNew(t) \/ ReallocRebound(t) \/ WalkScan(t)
  PROVE  Quiet(t)
<1> USE DEF TypeInv
<1>1. CASE CallMalloc(t)
  BY <1>1 DEF Quiet, CallMalloc, MayCall, Enters, InSection, Inside, TypeOK, section
<1>2. CASE CallFree(t)
  BY <1>2 DEF Quiet, CallFree, MayCall, Enters, InSection, Inside, TypeOK, section
<1>3. CASE CallRealloc(t)
  BY <1>3 DEF Quiet, CallRealloc, MayCall, Enters, InSection, Inside, TypeOK, section
<1>4. CASE CallWalk(t)
  BY <1>4 DEF Quiet, CallWalk, MayCall, Enters, InSection, Inside, TypeOK, section
<1>5. CASE CallSetMallocConfig(t)
  BY <1>5 DEF Quiet, CallSetMallocConfig, MayCall, Enters, InSection, Inside, TypeOK, section
<1>6. CASE SetMallocConfig(t)
  BY <1>6 DEF Quiet, SetMallocConfig, Return, Enters, InSection, Inside, TypeOK, section
<1>7. CASE Load(t)
  BY <1>7 DEF Quiet, Load, Go, StoreAfter, InSection, Inside, TypeOK, section
<1>8. CASE MallocRaw(t)
  BY <1>8 DEF Quiet, MallocRaw, At, Go, Return, Enters, InSection, Inside, TypeOK, section
<1>9. CASE MallocStore(t)
  BY <1>9 DEF Quiet, MallocStore, At, Go, InSection, Inside, TypeOK, section
<1>10. CASE MallocRecord(t)
  BY <1>10 DEF Quiet, MallocRecord, At, Go, InSection, Inside, TypeOK, section
<1>11. CASE MallocNoRecord(t)
  BY <1>11 DEF Quiet, MallocNoRecord, At, Return, Enters, InSection, Inside, TypeOK, section
<1>12. CASE FreeScan(t)
  BY <1>12 DEF Quiet, FreeScan, At, Go, InSection, Inside, TypeOK, section
<1>13. CASE FreeStore(t)
  BY <1>13 DEF Quiet, FreeStore, At, Go, InSection, Inside, TypeOK, section
<1>14. CASE FreeMark(t)
  BY <1>14 DEF Quiet, FreeMark, At, Go, InSection, Inside, TypeOK, section
<1>15. CASE FreeRelease(t)
  BY <1>15 DEF Quiet, FreeRelease, At, Go, InSection, Inside, TypeOK, section
<1>16. CASE FreeUnlink(t)
  BY <1>16 DEF Quiet, FreeUnlink, At, Go, InSection, Inside, TypeOK, section
<1>17. CASE ReallocScan(t)
  BY <1>17 DEF Quiet, ReallocScan, At, Go, InSection, Inside, TypeOK, section
<1>18. CASE ReallocRefuse(t)
  BY <1>18 DEF Quiet, ReallocRefuse, At, Return, Enters, InSection, Inside, TypeOK, section
<1>19. CASE ReallocTest(t)
  BY <1>19 DEF Quiet, ReallocTest, At, Go, Enters, InSection, Inside, TypeOK, section
<1>20. CASE ReallocStoreOld(t)
  BY <1>20 DEF Quiet, ReallocStoreOld, At, Go, InSection, Inside, TypeOK, section
<1>21. CASE ReallocResize(t)
  BY <1>21 DEF Quiet, ReallocResize, At, Go, InSection, Inside, TypeOK, section
<1>22. CASE ReallocStoreNew(t)
  BY <1>22 DEF Quiet, ReallocStoreNew, At, Go, InSection, Inside, TypeOK, section
<1>23. CASE ReallocRebound(t)
  BY <1>23 DEF Quiet, ReallocRebound, At, Return, Enters, InSection, Inside, TypeOK, section
<1>24. CASE WalkScan(t)
  BY <1>24 DEF Quiet, WalkScan, At, Go, InSection, Inside, TypeOK, section
<1>25. QED
  BY <1>1, <1>2, <1>3, <1>4, <1>5, <1>6, <1>7, <1>8, <1>9, <1>10, <1>11, <1>12, <1>13,
     <1>14, <1>15, <1>16, <1>17, <1>18, <1>19, <1>20, <1>21, <1>22, <1>23, <1>24

LEMMA SectionInvStep ==
  ASSUME First \in Threads, TypeInv, SectionInv, [Next]_vars
  PROVE  SectionInv'
<1> USE MemTraceAssumption DEF SectionInv, MutualExclusion, InSection, Inside, TypeInv, TypeOK,
    section, control, Go, Enters, Return
<1>1. ASSUME NEW t \in Threads, Call(t) \/ Step(t) PROVE SectionInv'
  <2>1. CASE CheckInit(t)
    BY <2>1 DEF CheckInit, AfterInit
  <2>2. CASE InitSection(t)
    BY <2>2 DEF InitSection, AfterInit
  <2>3. CASE Enter(t)
    BY <2>3 DEF Enter
  <2>4. CASE Leave(t)
    BY <2>4 DEF Leave
  <2>5. CASE Quiet(t)
    BY <2>5, QuietKeepsSection
  <2>6. QED
    BY <1>1, <2>1, <2>2, <2>3, <2>4, <2>5, OthersAreQuiet DEF Call, Step
<1>2. CASE UNCHANGED vars
  BY <1>2 DEF vars
<1>3. QED
  BY <1>1, <1>2 DEF Next

\* No two threads are inside the critical section of the list, whatever they
\* call, when one thread's first call comes before the others start.
THEOREM SectionIsExclusive ==
  ASSUME First \in Threads
  PROVE  Spec => []MutualExclusion
<1>1. Init => SectionInv
  BY MemTraceAssumption DEF Init, SectionInv, MutualExclusion, InSection, Inside
<1>2. TypeInv /\ SectionInv /\ [Next]_vars => SectionInv'
  BY SectionInvStep
<1>3. SectionInv => MutualExclusion
  BY DEF SectionInv
<1>4. QED
  BY <1>1, <1>2, <1>3, TypeInvInit, TypeInvStep, PTL DEF Spec
-----------------------------------------------------------------------------
(* The records and the blocks: who has which block in hand.                *)

\* The steps of each function.
Places(f) ==
  CASE f = "none" -> {"idle"}
    [] f = "config" -> {"check", "init", "set"}
    [] f = "walk" -> {"check", "init", "enter", "scan", "leave"}
    [] f = "malloc" -> {"check", "init", "raw", "load", "store", "enter", "scan", "leave"}
    [] f = "free" -> {"check", "init", "enter", "scan", "load_freed", "store_freed", "mark",
                      "release", "unlink", "leave"}
    [] OTHER -> {"check", "init", "enter", "scan", "leave", "test", "load_old", "store_old",
                 "resize", "load_new", "store_new", "rebound"}

\* SU_malloc_trace has a block of libc that it has not returned yet.
Took(t) == fn[t] = "malloc" /\ step[t] \in {"load", "store", "enter", "scan", "leave"}

\* What the outermost call tells of the place of a thread, and of its blocks.
ControlOK(t) ==
  /\ step[t] \in Places(fn[t])
  /\ fn[t] = "malloc" => loc[t].op \in {"malloc", "realloc"}
  /\ fn[t] = "walk" => loc[t].op \in Walks
  /\ loc[t].op \in Walks => fn[t] = "walk"
  /\ loc[t].op = "malloc" => fn[t] = "malloc"
  /\ loc[t].op \in {"free", "realloc"} => fn[t] \in {"malloc", "free", "realloc"}
  /\ loc[t].op \notin {"free", "realloc"} => loc[t].ptr = NoBlock
  /\ Took(t) => loc[t].new # NoBlock
  /\ loc[t].new # NoBlock => Took(t) \/ (fn[t] = "free" /\ loc[t].op = "realloc")
  /\ fn[t] = "realloc" /\ step[t] \in {"check", "init"} => loc[t].node = NoNode

ControlInv == \A t \in Threads : ControlOK(t)

\* The new values of the control state of the thread that moves.
Moved(t, l, f, s) ==
  /\ OthersStay(t)
  /\ loc'[t] = l /\ fn'[t] = f /\ step'[t] = s

\* What each kind of step does to the control state.
LEMMA GoMoves ==
  ASSUME TypeOK, NEW t \in Threads, NEW s, Go(t, s), UNCHANGED loc
  PROVE  Moved(t, loc[t], fn[t], s)
  BY DEF Go, Moved, OthersStay, TypeOK

LEMMA BindMoves ==
  ASSUME TypeOK, NEW t \in Threads, NEW s, Go(t, s)
  PROVE  /\ \A b : BindNew(t, b) => Moved(t, [loc[t] EXCEPT !.new = b], fn[t], s)
         /\ \A n : BindNode(t, n) => Moved(t, [loc[t] EXCEPT !.node = n], fn[t], s)
         /\ \A n : BindTmp(t, n) => Moved(t, [loc[t] EXCEPT !.tmp = n], fn[t], s)
  BY DEF Go, BindNew, BindNode, BindTmp, Moved, OthersStay, TypeOK

LEMMA EntersMoves ==
  ASSUME TypeOK, NEW t \in Threads, NEW f, NEW s, Enters(t, f, s), UNCHANGED loc
  PROVE  Moved(t, loc[t], f, s)
  BY DEF Enters, Moved, OthersStay, TypeOK

LEMMA BeginsMoves ==
  ASSUME TypeOK, NEW t \in Threads, NEW op, NEW b, NEW n, NEW f, NEW s,
         Begins(t, op, b, n), Enters(t, f, s)
  PROVE  Moved(t, [NoLocals EXCEPT !.op = op, !.ptr = b, !.size = n], f, s)
  BY DEF Begins, Enters, Moved, OthersStay, TypeOK

LEMMA ReturnMoves ==
  ASSUME TypeOK, NEW t \in Threads, NEW given, Return(t, given)
  PROVE  Moved(t, NoLocals, "none", "idle") /\ owned' = owned \cup given
  BY DEF Return, Unbind, Enters, Moved, OthersStay, TypeOK

-----------------------------------------------------------------------------
\* A call has b in hand and the list has a record of it: the block to be freed or
\* resized until its record is out of the list, and the new one from its record on.
Holds(t, b) ==
  \/ b = loc[t].ptr /\ b \notin stale /\ ~At(t, "free", "leave")
  \/ b = loc[t].new /\ (At(t, "malloc", "leave") \/ fn[t] = "free")

\* The call took b from libc and the list has no record of it yet.
Raw(t, b) == b = loc[t].new /\ fn[t] = "malloc" /\ step[t] # "leave"

\* The block is libc's again, or even another call's, and its record still linked.
Unlinking(t, b) == b = loc[t].ptr /\ At(t, "free", "unlink")

Recorded(b) == b \in owned \cup stale \/ \E t \in Threads : Holds(t, b)

\* A block is the clients', in quarantine, or in the hands of one call.
OneHolder ==
  /\ owned \cap stale = {}
  /\ \A t \in Threads, b \in Blocks : Holds(t, b) =>
        b \notin owned \cup stale /\ \A u \in Threads : Holds(u, b) => u = t
  /\ \A t \in Threads : loc[t].new # NoBlock => loc[t].new # loc[t].ptr

RawApart ==
  \A t \in Threads, b \in Blocks : Raw(t, b) =>
    /\ b \in heap /\ b \notin owned \cup stale
    /\ \A u \in Threads : (Raw(u, b) => u = t) /\ (Holds(u, b) => Unlinking(u, b))

InHeap ==
  /\ owned \cup stale \subseteq heap
  /\ \A t \in Threads, b \in Blocks : Holds(t, b) => b \in heap \/ Unlinking(t, b)

\* The records of the list are those of the recorded blocks, one for each, and the
\* freed flag is the quarantine.
RecordsMatch ==
  /\ \A m, n \in list : rec[m].ptr = rec[n].ptr => m = n
  /\ \A n \in list : /\ rec[n].ptr \in Blocks /\ Recorded(rec[n].ptr)
                     /\ rec[n].freed <=> rec[n].ptr \in stale
  /\ \A b \in Blocks : Recorded(b) => \E n \in list : rec[n].ptr = b

\* The node a call goes on with is the one of its block; a block that is freed or
\* resized is not in quarantine once that was tested.
NodeOK(t) ==
  \/ fn[t] = "free" /\ step[t] \in {"load_freed", "store_freed", "mark", "release", "unlink"}
  \/ fn[t] = "realloc" /\ step[t] \notin {"check", "init", "enter", "scan"}
  => /\ loc[t].node \in list /\ rec[loc[t].node].ptr = loc[t].ptr
     /\ step[t] \notin {"leave", "test"} => loc[t].ptr \notin stale
PtrOK(t) == loc[t].op = "realloc" /\ fn[t] = "malloc" => loc[t].ptr \notin stale
NodesHeld == \A t \in Threads : NodeOK(t) /\ PtrOK(t)

ClaimInv == OneHolder /\ RawApart /\ InHeap /\ RecordsMatch /\ NodesHeld

\* Between the new size and the new bound of SU_realloc_trace.
Resizing(t) == fn[t] = "realloc" /\ step[t] \in {"load_new", "store_new", "rebound"}
Settled(t, b) == Holds(t, b) /\ ~Unlinking(t, b) /\ ~Resizing(t)

\* The tail bound of a block is where its record says, unless a call is about to move it.
BoundsMatch ==
  \A n \in list : rec[n].ptr \in owned \/ (\E t \in Threads : Settled(t, rec[n].ptr)) => BoundsHold(n)
SizeOK(t) ==
  /\ fn[t] = "malloc" /\ step[t] \in {"enter", "scan"} => bound[loc[t].new] = loc[t].size
  /\ Resizing(t) => rec[loc[t].node].size = loc[t].size
BoundInv == BoundsMatch /\ \A t \in Threads : SizeOK(t)

IInv == TypeInv /\ SectionInv /\ ControlInv /\ ClaimInv /\ BoundInv

-----------------------------------------------------------------------------
\* The blocks that t and the clients have together stay the same, whoever of them has which.
Handover(t) ==
  /\ OthersStay(t) /\ UNCHANGED <<heap, list, stale>>
  /\ \A n \in list : rec'[n].ptr = rec[n].ptr /\ rec'[n].freed = rec[n].freed
  /\ \A b \in Blocks : /\ b \in owned' \/ Holds(t, b)' <=> b \in owned \/ Holds(t, b)
                       /\ ~(b \in owned' /\ Holds(t, b)')
                       /\ Raw(t, b)' => Raw(t, b)
                       /\ Unlinking(t, b)' <=> Unlinking(t, b)
  /\ loc'[t].new # NoBlock => loc'[t].new # loc'[t].ptr
  /\ NodeOK(t)' /\ PtrOK(t)'

LEMMA OthersHoldTheSame ==
  ASSUME NEW t \in Threads, OthersStay(t), UNCHANGED stale
  PROVE  \A u \in Threads \ {t} : \A b :
           /\ Holds(u, b)' <=> Holds(u, b)
           /\ Raw(u, b)' <=> Raw(u, b)
           /\ Unlinking(u, b)' <=> Unlinking(u, b)
  BY DEF OthersStay, Holds, Raw, Unlinking, At

LEMMA HandoverKeepsClaims ==
  ASSUME TypeOK, TypeOK', ClaimInv, NEW t \in Threads, Handover(t)
  PROVE  ClaimInv'
<1>1. \A u \in Threads \ {t} : \A b : /\ Holds(u, b)' <=> Holds(u, b)
                                      /\ Raw(u, b)' <=> Raw(u, b)
                                      /\ Unlinking(u, b)' <=> Unlinking(u, b)
  BY OthersHoldTheSame DEF Handover
<1>2. UNCHANGED <<heap, list, stale>> /\ owned' \subseteq Blocks /\ owned \subseteq Blocks
      /\ stale \subseteq Blocks
  BY DEF Handover, TypeOK
<1>3. \A b \in Blocks : /\ b \in owned' \/ Holds(t, b)' <=> b \in owned \/ Holds(t, b)
                        /\ ~(b \in owned' /\ Holds(t, b)')
                        /\ Raw(t, b)' => Raw(t, b)
                        /\ Unlinking(t, b)' <=> Unlinking(t, b)
  BY DEF Handover
<1>0. \A b \in Blocks : Unlinking(t, b)' => Holds(t, b)'
  BY DEF Handover, NodeOK, Unlinking, Holds, At
<1>4. OneHolder'
  <2>1. \A u \in Threads : loc'[u].new # NoBlock => loc'[u].new # loc'[u].ptr
    BY DEF Handover, OthersStay, ClaimInv, OneHolder
  <2>2. owned' \cap stale' = {}
    BY <1>2, <1>3 DEF ClaimInv, OneHolder
  <2>3. ASSUME NEW u \in Threads, NEW b \in Blocks, Holds(u, b)'
        PROVE  b \notin owned' \cup stale' /\ \A v \in Threads : Holds(v, b)' => v = u
    BY <1>1, <1>2, <1>3, <2>3 DEF ClaimInv, OneHolder
  <2>4. QED
    BY <2>1, <2>2, <2>3 DEF OneHolder
<1>5. RawApart'
  <2>1. ASSUME NEW u \in Threads, NEW b \in Blocks, Raw(u, b)'
        PROVE  /\ b \in heap' /\ b \notin owned' \cup stale'
               /\ \A v \in Threads : (Raw(v, b)' => v = u) /\ (Holds(v, b)' => Unlinking(v, b)')
    <3>1. Raw(u, b)
      BY <1>1, <1>3, <2>1
    <3>2. b \in heap' /\ b \notin stale' /\ b \notin owned
      BY <1>2, <3>1 DEF ClaimInv, RawApart
    <3>3. \A v \in Threads : (Raw(v, b)' => v = u)
      BY <1>1, <1>3, <3>1 DEF ClaimInv, RawApart
    <3>4. b \notin owned' /\ \A v \in Threads : Holds(v, b)' => Unlinking(v, b)'
      BY <1>0, <1>1, <1>3, <3>1, <3>2 DEF ClaimInv, RawApart
    <3>5. QED
      BY <3>2, <3>3, <3>4
  <2>2. QED
    BY <2>1 DEF RawApart
<1>6. InHeap'
  BY <1>0, <1>1, <1>2, <1>3 DEF ClaimInv, InHeap
<1>7. RecordsMatch'
  <2>1. \A b \in Blocks : Recorded(b)' <=> Recorded(b)
    BY <1>1, <1>2, <1>3 DEF Recorded
  <2>2. QED
    BY <1>2, <2>1 DEF Handover, ClaimInv, RecordsMatch
<1>8. NodesHeld'
  <2>1. ASSUME NEW u \in Threads \ {t} PROVE NodeOK(u)' /\ PtrOK(u)'
    <3>1. NodeOK(u) /\ PtrOK(u)
      BY DEF ClaimInv, NodesHeld
    <3>2. QED
      BY <1>2, <3>1 DEF Handover, OthersStay, NodeOK, PtrOK
  <2>2. QED
    BY <2>1 DEF Handover, NodesHeld
<1>9. QED
  BY <1>4, <1>5, <1>6, <1>7, <1>8 DEF ClaimInv

\* A step after which t and the clients together have no settled block they had not before.
LEMMA HandoverKeepsBounds ==
  ASSUME TypeOK, ClaimInv, BoundInv, NEW t \in Threads, OthersStay(t), UNCHANGED <<list, bound, rec, stale>>,
         \A b \in Blocks : b \in owned' \/ Settled(t, b)' => b \in owned \/ Settled(t, b),
         SizeOK(t)'
  PROVE  BoundInv'
<1>1. \A u \in Threads \ {t} : \A b : Settled(u, b)' <=> Settled(u, b)
  BY OthersHoldTheSame DEF Settled, Resizing, OthersStay
<1>2. BoundsMatch'
  BY <1>1 DEF BoundInv, BoundsMatch, BoundsHold, ClaimInv, RecordsMatch
<1>3. \A u \in Threads \ {t} : SizeOK(u)'
  BY DEF BoundInv, SizeOK, Resizing, OthersStay
<1>4. QED
  BY <1>2, <1>3 DEF BoundInv

-----------------------------------------------------------------------------
\* A step of t that moves no block and no record, and takes t to a place it may be at.
Still(t) ==
  /\ OthersStay(t) /\ UNCHANGED <<heap, bound, list, rec, owned, stale>>
  /\ loc'[t].ptr = loc[t].ptr /\ loc'[t].new = loc[t].new
  /\ \A b \in Blocks : /\ Holds(t, b)' <=> Holds(t, b)
                       /\ Raw(t, b)' => Raw(t, b)
                       /\ Unlinking(t, b)' <=> Unlinking(t, b)
  /\ Resizing(t) => Resizing(t)'
  /\ ControlOK(t)' /\ NodeOK(t)' /\ PtrOK(t)' /\ SizeOK(t)'

LEMMA ControlKept ==
  ASSUME ControlInv, NEW t \in Threads, OthersStay(t), ControlOK(t)'
  PROVE  ControlInv'
  BY DEF ControlInv, ControlOK, OthersStay, Took

LEMMA StillKeeps ==
  ASSUME IInv, TypeOK', NEW t \in Threads, Still(t)
  PROVE  ControlInv' /\ ClaimInv' /\ BoundInv'
<1>1. ControlInv'
  BY ControlKept DEF IInv, Still
<1>2. \A b \in Blocks : b \in owned => ~Holds(t, b)
  BY DEF IInv, ClaimInv, OneHolder
<1>3. loc[t].new # NoBlock => loc[t].new # loc[t].ptr
  BY DEF IInv, ClaimInv, OneHolder
<1>4. Handover(t)
  BY <1>2, <1>3 DEF Still, Handover
<1>5. ClaimInv'
  BY <1>4, HandoverKeepsClaims DEF IInv, TypeInv
<1>6. \A b \in Blocks : Settled(t, b)' => Settled(t, b)
  BY DEF Still, Settled
<1>7. BoundInv'
  BY <1>6, HandoverKeepsBounds DEF IInv, TypeInv, Still
<1>8. QED
  BY <1>1, <1>5, <1>7

\* The facts about t that the steps below start from.
LEMMA Own ==
  ASSUME IInv, NEW t \in Threads
  PROVE  /\ TypeOK /\ LocalsOK(t) /\ ControlOK(t) /\ NodeOK(t) /\ PtrOK(t) /\ SizeOK(t)
         /\ loc[t].ptr \in Blocks \cup {NoBlock} /\ loc[t].new \in Blocks \cup {NoBlock}
  BY LocalTypes DEF IInv, TypeInv, ControlInv, ClaimInv, NodesHeld, BoundInv

LEMMA CheckInitKeeps ==
  ASSUME IInv, TypeOK', NEW t \in Threads, CheckInit(t)
  PROVE  ControlInv' /\ ClaimInv' /\ BoundInv'
<1>1. /\ step[t] = "check" /\ Moved(t, loc[t], fn[t], IF sem_init THEN AfterInit(fn[t]) ELSE "init")
      /\ UNCHANGED <<heap, bound, list, rec, owned, stale>>
  BY GoMoves DEF CheckInit, memory, client, IInv, TypeInv
<1>2. Still(t)
  BY <1>1, Own DEF Still, Moved, AfterInit, ControlOK, Places, Took, NodeOK, PtrOK, SizeOK,
     Resizing, Holds, Raw, Unlinking, At
<1>3. QED
  BY <1>2, StillKeeps
LEMMA InitSectionKeeps ==
  ASSUME IInv, TypeOK', NEW t \in Threads, InitSection(t)
  PROVE  ControlInv' /\ ClaimInv' /\ BoundInv'
<1>1. step[t] = "init" /\ Moved(t, loc[t], fn[t], AfterInit(fn[t]))
      /\ UNCHANGED <<heap, bound, list, rec, owned, stale>>
  BY GoMoves DEF InitSection, memory, client, IInv, TypeInv
<1>2. Still(t)
  BY <1>1, Own DEF AfterInit, Still, Moved, ControlOK, Places, Took, NodeOK, PtrOK, SizeOK,
     Resizing, Holds, Raw, Unlinking, At
<1>3. QED
  BY <1>2, StillKeeps

LEMMA EnterKeeps ==
  ASSUME IInv, TypeOK', NEW t \in Threads, Enter(t)
  PROVE  ControlInv' /\ ClaimInv' /\ BoundInv'
<1>1. step[t] = "enter" /\ Moved(t, loc[t], fn[t], "scan")
      /\ UNCHANGED <<heap, bound, list, rec, owned, stale>>
  BY GoMoves DEF Enter, memory, client, IInv, TypeInv
<1>2. Still(t)
  BY <1>1, Own DEF Still, Moved, ControlOK, Places, Took, NodeOK, PtrOK, SizeOK,
     Resizing, Holds, Raw, Unlinking, At
<1>3. QED
  BY <1>2, StillKeeps

LEMMA LoadKeeps ==
  ASSUME IInv, TypeOK', NEW t \in Threads, Load(t)
  PROVE  ControlInv' /\ ClaimInv' /\ BoundInv'
<1>1. /\ step[t] \in {"load", "load_freed", "load_old", "load_new"}
      /\ Moved(t, [loc[t] EXCEPT !.tmp = total], fn[t], StoreAfter[step[t]])
      /\ UNCHANGED <<heap, bound, list, rec, owned, stale>>
  BY BindMoves DEF Load, StoreAfter, memory, client, IInv, TypeInv
<1>2. /\ loc'[t].op = loc[t].op /\ loc'[t].ptr = loc[t].ptr /\ loc'[t].new = loc[t].new
      /\ loc'[t].node = loc[t].node /\ loc'[t].size = loc[t].size
  BY <1>1, Own DEF Moved, TypeOK, Locals
<1>3. \/ step[t] = "load" /\ step'[t] = "store"
      \/ step[t] = "load_freed" /\ step'[t] = "store_freed"
      \/ step[t] = "load_old" /\ step'[t] = "store_old"
      \/ step[t] = "load_new" /\ step'[t] = "store_new"
  BY <1>1 DEF Moved, StoreAfter
<1>4. OthersStay(t) /\ fn'[t] = fn[t]
  BY <1>1 DEF Moved
<1>5. Still(t)
  BY <1>1, <1>2, <1>3, <1>4, Own DEF Still, ControlOK, Places, Took, NodeOK, PtrOK, SizeOK,
     Resizing, Holds, Raw, Unlinking, At
<1>6. QED
  BY <1>5, StillKeeps

LEMMA FreeStoreKeeps ==
  ASSUME IInv, TypeOK', NEW t \in Threads, FreeStore(t)
  PROVE  ControlInv' /\ ClaimInv' /\ BoundInv'
<1>1. At(t, "free", "store_freed") /\ Moved(t, loc[t], fn[t], IF trace THEN "mark" ELSE "release")
      /\ UNCHANGED <<heap, bound, list, rec, owned, stale>>
  BY GoMoves DEF FreeStore, memory, client, IInv, TypeInv
<1>2. Still(t)
  BY <1>1, Own DEF Still, Moved, ControlOK, Places, Took, NodeOK, PtrOK, SizeOK,
     Resizing, Holds, Raw, Unlinking, At
<1>3. QED
  BY <1>2, StillKeeps

LEMMA ReallocTestKeeps ==
  ASSUME IInv, TypeOK', NEW t \in Threads, ReallocTest(t)
  PROVE  ControlInv' /\ ClaimInv' /\ BoundInv'
<1>1. /\ At(t, "realloc", "test") /\ loc[t].node # NoNode /\ ~rec[loc[t].node].freed
      /\ \/ Moved(t, loc[t], "free", "check")
         \/ Moved(t, loc[t], "malloc", "check")
         \/ Moved(t, loc[t], fn[t], "load_old")
      /\ UNCHANGED <<heap, bound, list, rec, owned, stale>>
  BY GoMoves, EntersMoves DEF ReallocTest, memory, client, IInv, TypeInv
<1>2. loc[t].ptr \notin stale
  BY <1>1, Own DEF NodeOK, At, IInv, ClaimInv, RecordsMatch
<1>3. loc[t].op = "realloc" /\ loc[t].new = NoBlock
  BY <1>1, Own DEF LocalsOK, ControlOK, Took, At
<1>4. Still(t)
  <2>1. CASE Moved(t, loc[t], "free", "check")
    BY <1>1, <1>2, <1>3, <2>1, Own, MemTraceAssumption DEF Still, Moved, ControlOK, Places, Took, NodeOK, PtrOK, SizeOK,
       Resizing, Holds, Raw, Unlinking, At
  <2>2. CASE Moved(t, loc[t], "malloc", "check")
    BY <1>1, <1>2, <1>3, <2>2, Own, MemTraceAssumption DEF Still, Moved, ControlOK, Places, Took, NodeOK, PtrOK, SizeOK,
       Resizing, Holds, Raw, Unlinking, At
  <2>3. CASE Moved(t, loc[t], fn[t], "load_old")
    BY <1>1, <1>2, <1>3, <2>3, Own DEF Still, Moved, ControlOK, Places, Took, NodeOK, PtrOK, SizeOK,
       Resizing, Holds, Raw, Unlinking, At
  <2>4. QED
    BY <1>1, <2>1, <2>2, <2>3
<1>5. QED
  BY <1>4, StillKeeps

LEMMA ReallocStoreOldKeeps ==
  ASSUME IInv, TypeOK', NEW t \in Threads, ReallocStoreOld(t)
  PROVE  ControlInv' /\ ClaimInv' /\ BoundInv'
<1>1. At(t, "realloc", "store_old") /\ Moved(t, loc[t], fn[t], "resize")
      /\ UNCHANGED <<heap, bound, list, rec, owned, stale>>
  BY GoMoves DEF ReallocStoreOld, memory, client, IInv, TypeInv
<1>2. Still(t)
  BY <1>1, Own DEF Still, Moved, ControlOK, Places, Took, NodeOK, PtrOK, SizeOK,
     Resizing, Holds, Raw, Unlinking, At
<1>3. QED
  BY <1>2, StillKeeps

LEMMA ReallocStoreNewKeeps ==
  ASSUME IInv, TypeOK', NEW t \in Threads, ReallocStoreNew(t)
  PROVE  ControlInv' /\ ClaimInv' /\ BoundInv'
<1>1. At(t, "realloc", "store_new") /\ Moved(t, loc[t], fn[t], "rebound")
      /\ UNCHANGED <<heap, bound, list, rec, owned, stale>>
  BY GoMoves DEF ReallocStoreNew, memory, client, IInv, TypeInv
<1>2. Still(t)
  BY <1>1, Own DEF Still, Moved, ControlOK, Places, Took, NodeOK, PtrOK, SizeOK,
     Resizing, Holds, Raw, Unlinking, At
<1>3. QED
  BY <1>2, StillKeeps

LEMMA WalkScanKeeps ==
  ASSUME IInv, TypeOK', NEW t \in Threads, WalkScan(t)
  PROVE  ControlInv' /\ ClaimInv' /\ BoundInv'
<1>1. At(t, "walk", "scan") /\ Moved(t, loc[t], fn[t], "leave")
      /\ UNCHANGED <<heap, bound, list, rec, owned, stale>>
  BY GoMoves DEF WalkScan, memory, client, IInv, TypeInv
<1>2. Still(t)
  BY <1>1, Own DEF Still, Moved, ControlOK, Places, Took, NodeOK, PtrOK, SizeOK,
     Resizing, Holds, Raw, Unlinking, At
<1>3. QED
  BY <1>2, StillKeeps

\* A call that scans for the block it was given finds its record, and only that.
LEMMA ScanFinds ==
  ASSUME IInv, NEW t \in Threads, step[t] = "scan", fn[t] \in {"free", "realloc"}
  PROVE  /\ loc[t].ptr \in Blocks /\ Found(loc[t].ptr) # {}
         /\ \A n \in Found(loc[t].ptr) :
              /\ n \in list /\ n \in Nodes /\ rec[n].ptr = loc[t].ptr
              /\ rec[n].freed <=> loc[t].ptr \in stale
<1>1. loc[t].ptr \in Blocks
  BY Own DEF LocalsOK
<1>2. Recorded(loc[t].ptr)
  BY DEF Recorded, Holds, At
<1>3. QED
  BY <1>1, <1>2, Own DEF IInv, ClaimInv, RecordsMatch, Found, TypeOK

LEMMA FreeScanKeeps ==
  ASSUME IInv, TypeOK', NEW t \in Threads, FreeScan(t)
  PROVE  ControlInv' /\ ClaimInv' /\ BoundInv'
<1>1. At(t, "free", "scan") /\ UNCHANGED <<heap, bound, list, rec, owned, stale>>
  BY DEF FreeScan, memory, client
<1>2. CASE (\A n \in Found(loc[t].ptr) : rec[n].freed) /\ Go(t, "leave") /\ UNCHANGED loc
  <2>1. loc[t].ptr \in stale
    BY <1>1, <1>2, ScanFinds DEF At
  <2>2. Moved(t, loc[t], fn[t], "leave")
    BY <1>2, Own, GoMoves
  <2>3. Still(t)
    BY <1>1, <2>1, <2>2, Own DEF Still, Moved, ControlOK, Places, Took, NodeOK, PtrOK, SizeOK,
       Resizing, Holds, Raw, Unlinking, At
  <2>4. QED
    BY <2>3, StillKeeps
<1>3. ASSUME NEW n \in Found(loc[t].ptr), ~rec[n].freed, BindNode(t, n), Go(t, "load_freed")
      PROVE  ControlInv' /\ ClaimInv' /\ BoundInv'
  <2>1. n \in list /\ rec[n].ptr = loc[t].ptr /\ loc[t].ptr \notin stale
    BY <1>1, <1>3, ScanFinds DEF At
  <2>2. Moved(t, [loc[t] EXCEPT !.node = n], fn[t], "load_freed")
    BY <1>3, Own, BindMoves
  <2>3. /\ loc'[t].op = loc[t].op /\ loc'[t].ptr = loc[t].ptr /\ loc'[t].new = loc[t].new
        /\ loc'[t].node = n
    BY <2>2, Own DEF Moved, TypeOK, Locals
  <2>4. Still(t)
    BY <1>1, <2>1, <2>2, <2>3, Own DEF Still, Moved, ControlOK, Places, Took, NodeOK, PtrOK, SizeOK,
       Resizing, Holds, Raw, Unlinking, At
  <2>5. QED
    BY <2>4, StillKeeps
<1>4. QED
  BY <1>2, <1>3 DEF FreeScan

LEMMA ReallocScanKeeps ==
  ASSUME IInv, TypeOK', NEW t \in Threads, ReallocScan(t)
  PROVE  ControlInv' /\ ClaimInv' /\ BoundInv'
<1>1. At(t, "realloc", "scan") /\ UNCHANGED <<heap, bound, list, rec, owned, stale>>
  BY DEF ReallocScan, memory, client
<1>2. PICK n \in Found(loc[t].ptr) : BindNode(t, n) /\ Go(t, "leave")
  BY <1>1, ScanFinds DEF ReallocScan, At
<1>3. n \in list /\ rec[n].ptr = loc[t].ptr
  BY <1>1, ScanFinds DEF At
<1>4. Moved(t, [loc[t] EXCEPT !.node = n], fn[t], "leave")
  BY <1>2, Own, BindMoves
<1>5. /\ loc'[t].op = loc[t].op /\ loc'[t].ptr = loc[t].ptr /\ loc'[t].new = loc[t].new
      /\ loc'[t].node = n
  BY <1>4, Own DEF Moved, TypeOK, Locals
<1>6. Still(t)
  BY <1>1, <1>3, <1>4, <1>5, Own DEF Still, Moved, ControlOK, Places, Took, NodeOK, PtrOK, SizeOK,
     Resizing, Holds, Raw, Unlinking, At
<1>7. QED
  BY <1>6, StillKeeps

-----------------------------------------------------------------------------
(* The calls and returns: blocks change hands.                              *)

\* A step in which t and the clients hand blocks to each other.
Exchange(t) ==
  /\ Handover(t) /\ UNCHANGED <<bound, rec>> /\ ControlOK(t)' /\ SizeOK(t)'
  /\ \A b \in Blocks : b \in owned' \/ Settled(t, b)' => b \in owned \/ Settled(t, b)

LEMMA ExchangeKeeps ==
  ASSUME IInv, TypeOK', NEW t \in Threads, Exchange(t)
  PROVE  ControlInv' /\ ClaimInv' /\ BoundInv'
<1>1. ControlInv'
  BY ControlKept DEF IInv, Exchange, Handover
<1>2. ClaimInv'
  BY HandoverKeepsClaims DEF IInv, TypeInv, Exchange
<1>3. BoundInv'
  BY HandoverKeepsBounds DEF IInv, TypeInv, Exchange, Handover
<1>4. QED
  BY <1>1, <1>2, <1>3

\* A thread in the client's code has nothing in hand.
LEMMA IdleHasNothing ==
  ASSUME IInv, NEW t \in Threads, step[t] = "idle"
  PROVE  /\ fn[t] = "none" /\ loc[t].ptr = NoBlock /\ loc[t].new = NoBlock
         /\ \A b \in Blocks : ~Holds(t, b) /\ ~Raw(t, b) /\ ~Unlinking(t, b)
<1>1. fn[t] = "none"
  BY Own DEF ControlOK, Places, TypeOK, Functions
<1>2. loc[t].ptr = NoBlock /\ loc[t].new = NoBlock
  BY <1>1, Own DEF ControlOK, Took
<1>3. QED
  BY <1>1, <1>2, MemTraceAssumption DEF Holds, Raw, Unlinking, At

\* The start of a call that is given a block or none: b left the clients' hands, or is in quarantine.
LEMMA BeginsExchange ==
  ASSUME IInv, NEW t \in Threads, step[t] = "idle", NEW op, NEW b \in Blocks \cup {NoBlock}, NEW n, NEW f, NEW s,
         Moved(t, [NoLocals EXCEPT !.op = op, !.ptr = b, !.size = n], f, s),
         UNCHANGED <<heap, bound, list, rec, stale>>, owned' = owned \ {b}, b \in owned \cup stale \cup {NoBlock},
         \/ op = "malloc" /\ b = NoBlock /\ f = "malloc" /\ s = "check"
         \/ op = "free" /\ b # NoBlock /\ f = "free" /\ s = "check"
         \/ op = "realloc" /\ b # NoBlock /\ f = "realloc" /\ s = "check"
         \/ op \in Walks /\ b = NoBlock /\ f = "walk" /\ s \in {"check", "enter"}
         \/ op = "config" /\ b = NoBlock /\ f = "config" /\ s = "check"
  PROVE  Exchange(t)
<1>1. /\ fn'[t] = f /\ step'[t] = s /\ OthersStay(t)
      /\ loc'[t].op = op /\ loc'[t].ptr = b /\ loc'[t].new = NoBlock /\ loc'[t].node = NoNode
  BY DEF Moved, NoLocals
<1>2. NodeOK(t)' /\ PtrOK(t)' /\ SizeOK(t)'
  BY <1>1 DEF NodeOK, PtrOK, SizeOK, Resizing
<1>3. ControlOK(t)'
  BY <1>1, MemTraceAssumption DEF ControlOK, Places, Took
<1>4. \A c \in Blocks : ~Raw(t, c)' /\ ~Unlinking(t, c)' /\ (Holds(t, c)' <=> c = b /\ b \notin stale)
  BY <1>1, MemTraceAssumption DEF Raw, Unlinking, Holds, At
<1>5. \A c \in Blocks : c \in owned => c \notin stale
  BY DEF IInv, ClaimInv, OneHolder
<1>6. Handover(t)
  BY <1>1, <1>2, <1>4, <1>5, IdleHasNothing, MemTraceAssumption DEF Handover
<1>7. \A c \in Blocks : c \in owned' \/ Settled(t, c)' => c \in owned
  BY <1>4, MemTraceAssumption DEF Settled
<1>8. QED
  BY <1>2, <1>3, <1>6, <1>7 DEF Exchange

LEMMA CallMallocKeeps ==
  ASSUME IInv, TypeOK', NEW t \in Threads, CallMalloc(t)
  PROVE  ControlInv' /\ ClaimInv' /\ BoundInv'
<1>1. PICK n \in Sizes : Begins(t, "malloc", NoBlock, n) /\ Enters(t, "malloc", "check")
  BY DEF CallMalloc
<1>2. Moved(t, [NoLocals EXCEPT !.op = "malloc", !.ptr = NoBlock, !.size = n], "malloc", "check")
  BY <1>1, Own, BeginsMoves
<1>3. step[t] = "idle" /\ UNCHANGED <<heap, bound, list, rec, stale>> /\ owned' = owned \ {NoBlock}
  BY Own, MemTraceAssumption DEF CallMalloc, MayCall, memory, client, TypeOK
<1>4. Exchange(t)
  BY <1>2, <1>3, BeginsExchange
<1>5. QED
  BY <1>4, ExchangeKeeps

LEMMA CallFreeKeeps ==
  ASSUME IInv, TypeOK', NEW t \in Threads, CallFree(t)
  PROVE  ControlInv' /\ ClaimInv' /\ BoundInv'
<1>1. PICK b \in owned \cup stale :
        Begins(t, "free", b, 0) /\ owned' = owned \ {b} /\ Enters(t, "free", "check")
  BY DEF CallFree
<1>2. Moved(t, [NoLocals EXCEPT !.op = "free", !.ptr = b, !.size = 0], "free", "check")
  BY <1>1, Own, BeginsMoves
<1>3. step[t] = "idle" /\ UNCHANGED <<heap, bound, list, rec, stale>> /\ b \in Blocks /\ b # NoBlock
  BY Own, MemTraceAssumption DEF CallFree, MayCall, memory, TypeOK
<1>4. Exchange(t)
  BY <1>1, <1>2, <1>3, BeginsExchange
<1>5. QED
  BY <1>4, ExchangeKeeps

LEMMA CallReallocKeeps ==
  ASSUME IInv, TypeOK', NEW t \in Threads, CallRealloc(t)
  PROVE  ControlInv' /\ ClaimInv' /\ BoundInv'
<1>1. PICK b \in owned \cup stale, n \in Sizes \cup {0} :
        Begins(t, "realloc", b, n) /\ owned' = owned \ {b} /\ Enters(t, "realloc", "check")
  BY DEF CallRealloc
<1>2. Moved(t, [NoLocals EXCEPT !.op = "realloc", !.ptr = b, !.size = n], "realloc", "check")
  BY <1>1, Own, BeginsMoves
<1>3. step[t] = "idle" /\ UNCHANGED <<heap, bound, list, rec, stale>> /\ b \in Blocks /\ b # NoBlock
  BY Own, MemTraceAssumption DEF CallRealloc, MayCall, memory, TypeOK
<1>4. Exchange(t)
  BY <1>1, <1>2, <1>3, BeginsExchange
<1>5. QED
  BY <1>4, ExchangeKeeps

LEMMA CallWalkKeeps ==
  ASSUME IInv, TypeOK', NEW t \in Threads, CallWalk(t)
  PROVE  ControlInv' /\ ClaimInv' /\ BoundInv'
<1>1. PICK w \in Walks : /\ Begins(t, w, NoBlock, 0)
                         /\ Enters(t, "walk", IF w = "print" THEN "enter" ELSE "check")
  BY DEF CallWalk
<1>2. PICK s \in {"check", "enter"} : Enters(t, "walk", s)
  BY <1>1
<1>3. Moved(t, [NoLocals EXCEPT !.op = w, !.ptr = NoBlock, !.size = 0], "walk", s)
  BY <1>1, <1>2, Own, BeginsMoves
<1>4. step[t] = "idle" /\ UNCHANGED <<heap, bound, list, rec, stale>> /\ owned' = owned \ {NoBlock}
  BY Own, MemTraceAssumption DEF CallWalk, MayCall, memory, client, TypeOK
<1>5. Exchange(t)
  BY <1>3, <1>4, BeginsExchange
<1>6. QED
  BY <1>5, ExchangeKeeps

LEMMA CallSetMallocConfigKeeps ==
  ASSUME IInv, TypeOK', NEW t \in Threads, CallSetMallocConfig(t)
  PROVE  ControlInv' /\ ClaimInv' /\ BoundInv'
<1>1. Moved(t, [NoLocals EXCEPT !.op = "config", !.ptr = NoBlock, !.size = 0], "config", "check")
  BY Own, BeginsMoves DEF CallSetMallocConfig
<1>2. step[t] = "idle" /\ UNCHANGED <<heap, bound, list, rec, stale>> /\ owned' = owned \ {NoBlock}
  BY Own, MemTraceAssumption DEF CallSetMallocConfig, MayCall, memory, client, TypeOK
<1>3. Exchange(t)
  BY <1>1, <1>2, BeginsExchange
<1>4. QED
  BY <1>3, ExchangeKeeps

\* What a return gives to the clients is what the call has in hand.
LEMMA ReturnHandsOver ==
  ASSUME IInv, NEW t \in Threads, NEW given, Return(t, given), UNCHANGED <<heap, list, rec, stale>>,
         given \subseteq Blocks, \A b \in Blocks : (b \in given <=> Holds(t, b)) /\ ~Unlinking(t, b)
  PROVE  Handover(t) /\ ControlOK(t)' /\ SizeOK(t)' /\ \A b \in Blocks : ~Settled(t, b)'
<1>1. /\ fn'[t] = "none" /\ step'[t] = "idle" /\ OthersStay(t) /\ owned' = owned \cup given
      /\ loc'[t].op = "none" /\ loc'[t].ptr = NoBlock /\ loc'[t].new = NoBlock
  BY Own, ReturnMoves DEF Moved, NoLocals
<1>2. NodeOK(t)' /\ PtrOK(t)' /\ SizeOK(t)'
  BY <1>1 DEF NodeOK, PtrOK, SizeOK, Resizing
<1>3. ControlOK(t)'
  BY <1>1, MemTraceAssumption DEF ControlOK, Places, Took
<1>4. \A c \in Blocks : ~Raw(t, c)' /\ ~Unlinking(t, c)' /\ ~Holds(t, c)'
  BY <1>1, MemTraceAssumption DEF Raw, Unlinking, Holds, At
<1>5. Handover(t)
  BY <1>1, <1>2, <1>4 DEF Handover
<1>6. QED
  BY <1>2, <1>3, <1>4, <1>5 DEF Settled

LEMMA ReturnKeeps ==
  ASSUME IInv, TypeOK', NEW t \in Threads, NEW given, Return(t, given), UNCHANGED <<heap, bound, list, rec, stale>>,
         given \subseteq Blocks, ~Resizing(t),
         \A b \in Blocks : (b \in given <=> Holds(t, b)) /\ ~Unlinking(t, b)
  PROVE  ControlInv' /\ ClaimInv' /\ BoundInv'
<1>1. Handover(t) /\ ControlOK(t)' /\ SizeOK(t)' /\ \A b \in Blocks : ~Settled(t, b)'
  BY ReturnHandsOver
<1>2. \A b \in Blocks : b \in owned' => b \in owned \/ Settled(t, b)
  BY DEF Return, Settled
<1>3. Exchange(t)
  BY <1>1, <1>2 DEF Exchange
<1>4. QED
  BY <1>3, ExchangeKeeps

LEMMA SetMallocConfigKeeps ==
  ASSUME IInv, TypeOK', NEW t \in Threads, SetMallocConfig(t)
  PROVE  ControlInv' /\ ClaimInv' /\ BoundInv'
<1>1. fn[t] = "config"
  BY Own DEF SetMallocConfig, ControlOK, Places, TypeOK, Functions
<1>2. loc[t].ptr = NoBlock /\ loc[t].new = NoBlock
  BY <1>1, Own DEF ControlOK, Took
<1>3. ~Resizing(t) /\ \A b \in Blocks : ~Holds(t, b) /\ ~Unlinking(t, b)
  BY <1>1, <1>2, MemTraceAssumption DEF Holds, Unlinking, Resizing, At
<1>4. Return(t, {}) /\ UNCHANGED <<heap, bound, list, rec, stale>>
  BY DEF SetMallocConfig, memory
<1>5. QED
  BY <1>3, <1>4, ReturnKeeps

LEMMA LeaveKeeps ==
  ASSUME IInv, TypeOK', NEW t \in Threads, Leave(t)
  PROVE  ControlInv' /\ ClaimInv' /\ BoundInv'
<1>1. step[t] = "leave" /\ UNCHANGED <<heap, bound, list, rec, stale>>
  BY DEF Leave, memory
<1>2. CASE fn[t] = "realloc" /\ Go(t, "test") /\ UNCHANGED <<loc, owned>>
  <2>1. Moved(t, loc[t], fn[t], "test")
    BY <1>2, Own, GoMoves
  <2>2. Still(t)
    BY <1>1, <1>2, <2>1, Own DEF Still, Moved, ControlOK, Places, Took, NodeOK, PtrOK, SizeOK,
       Resizing, Holds, Raw, Unlinking, At
  <2>3. QED
    BY <2>2, StillKeeps
<1>3. CASE fn[t] = "malloc" /\ loc[t].op = "realloc" /\ Enters(t, "free", "check") /\ UNCHANGED <<loc, owned>>
  <2>1. Moved(t, loc[t], "free", "check")
    BY <1>3, Own, EntersMoves
  <2>2. Still(t)
    BY <1>1, <1>3, <2>1, Own DEF Still, Moved, ControlOK, Places, Took, NodeOK, PtrOK, SizeOK,
       Resizing, Holds, Raw, Unlinking, At
  <2>3. QED
    BY <2>2, StillKeeps
<1>4. CASE (fn[t] \in {"free", "walk"} \/ loc[t].op = "malloc") /\ Return(t, {loc[t].new} \ {NoBlock})
  <2>1. ~Resizing(t) /\ \A b \in Blocks : ~Unlinking(t, b)
    BY <1>1, <1>4, Own DEF ControlOK, Resizing, Unlinking, At
  <2>2. \A b \in Blocks : b = loc[t].new <=> Holds(t, b)
    BY <1>1, <1>4, Own, MemTraceAssumption DEF ControlOK, Took, Holds, At
  <2>3. QED
    BY <1>1, <1>4, <2>1, <2>2, Own, MemTraceAssumption, ReturnKeeps
<1>5. QED
  BY <1>2, <1>3, <1>4 DEF Leave

LEMMA ReallocRefuseKeeps ==
  ASSUME IInv, TypeOK', NEW t \in Threads, ReallocRefuse(t)
  PROVE  ControlInv' /\ ClaimInv' /\ BoundInv'
<1>1. At(t, "realloc", "test") /\ Return(t, {}) /\ UNCHANGED <<heap, bound, list, rec, stale>>
  BY DEF ReallocRefuse, memory
<1>2. loc[t].node \in list /\ rec[loc[t].node].ptr = loc[t].ptr
  BY <1>1, Own DEF NodeOK, At
<1>3. loc[t].ptr \in stale
  BY <1>2, Own, MemTraceAssumption DEF ReallocRefuse, IInv, ClaimInv, RecordsMatch, TypeOK
<1>4. ~Resizing(t) /\ \A b \in Blocks : ~Holds(t, b) /\ ~Unlinking(t, b)
  BY <1>1, <1>3, Own DEF Holds, Unlinking, Resizing, ControlOK, Took, At
<1>5. QED
  BY <1>1, <1>4, ReturnKeeps

-----------------------------------------------------------------------------
(* The steps that take, record, mark, release and unlink a block.          *)

LEMMA MallocRawKeeps ==
  ASSUME IInv, TypeOK', NEW t \in Threads, MallocRaw(t)
  PROVE  ControlInv' /\ ClaimInv' /\ BoundInv'
<1>1. At(t, "malloc", "raw") /\ UNCHANGED <<bound, list, rec, stale>>
  BY DEF MallocRaw
<1>2. loc[t].new = NoBlock /\ loc[t].op \in {"malloc", "realloc"} /\ ~Resizing(t)
  BY <1>1, Own DEF ControlOK, Took, Resizing, At
<1>3. \A b \in Blocks : (Holds(t, b) <=> b = loc[t].ptr) /\ ~Unlinking(t, b) /\ ~Raw(t, b)
  BY <1>1, <1>2, Own, MemTraceAssumption DEF ControlOK, PtrOK, Holds, Unlinking, Raw, At
<1>4. CASE heap = Blocks /\ Return(t, {loc[t].ptr} \ {NoBlock}) /\ UNCHANGED heap
  BY <1>1, <1>2, <1>3, <1>4, Own, MemTraceAssumption, ReturnKeeps
<1>5. ASSUME NEW b \in Blocks \ heap, heap' = heap \cup {b}, BindNew(t, b), Go(t, "load"), UNCHANGED owned
      PROVE  ControlInv' /\ ClaimInv' /\ BoundInv'
  <2>1. Moved(t, [loc[t] EXCEPT !.new = b], fn[t], "load")
    BY <1>5, Own, BindMoves
  <2>2. /\ loc'[t].op = loc[t].op /\ loc'[t].ptr = loc[t].ptr /\ loc'[t].new = b
        /\ fn'[t] = "malloc" /\ step'[t] = "load" /\ OthersStay(t)
    BY <1>1, <2>1, Own DEF Moved, TypeOK, Locals, At
  <2>3. ControlOK(t)' /\ NodeOK(t)' /\ PtrOK(t)' /\ SizeOK(t)'
    BY <1>1, <1>2, <2>2, Own, MemTraceAssumption DEF ControlOK, Places, Took, NodeOK, PtrOK, SizeOK, Resizing, At
  <2>4. ControlInv'
    BY <2>2, <2>3, ControlKept DEF IInv
  <2>5. /\ \A c \in Blocks : /\ Holds(t, c)' <=> Holds(t, c)
                             /\ ~Unlinking(t, c)'
                             /\ Raw(t, c)' <=> c = b
        /\ ~Resizing(t)'
    BY <1>1, <1>2, <1>3, <2>2, Own DEF PtrOK, ControlOK, Holds, Unlinking, Raw, Resizing, At
  <2>6. \A u \in Threads \ {t} : \A c : /\ Holds(u, c)' <=> Holds(u, c)
                                        /\ Raw(u, c)' <=> Raw(u, c)
                                        /\ Unlinking(u, c)' <=> Unlinking(u, c)
    BY <1>1, <2>2, OthersHoldTheSame
  <2>7. b # loc[t].ptr
    BY <1>3, <1>5 DEF IInv, ClaimInv, InHeap
  <2>8. OneHolder'
    <3>1. \A u \in Threads : loc'[u].new # NoBlock => loc'[u].new # loc'[u].ptr
      BY <2>2, <2>7 DEF IInv, ClaimInv, OneHolder, OthersStay
    <3>2. \A u \in Threads, c \in Blocks : Holds(u, c)' <=> Holds(u, c)
      BY <2>5, <2>6
    <3>3. QED
      BY <1>1, <1>5, <3>1, <3>2 DEF IInv, ClaimInv, OneHolder
  <2>9. RawApart'
    <3>1. ASSUME NEW u \in Threads \ {t}, NEW c \in Blocks, Raw(u, c)'
          PROVE  c # b
      BY <1>5, <2>6, <3>1 DEF IInv, ClaimInv, RawApart
    <3>2. b \notin owned \cup stale /\ \A u \in Threads : Holds(u, b) => Unlinking(u, b)
      BY <1>5 DEF IInv, ClaimInv, InHeap
    <3>3. ASSUME NEW u \in Threads, NEW c \in Blocks, Raw(u, c)'
          PROVE  /\ c \in heap' /\ c \notin owned' \cup stale'
                 /\ \A v \in Threads : (Raw(v, c)' => v = u) /\ (Holds(v, c)' => Unlinking(v, c)')
      <4>1. CASE u = t
        BY <1>1, <1>3, <1>5, <2>5, <2>6, <3>1, <3>2, <3>3, <4>1
      <4>2. CASE u # t
        <5>1. Raw(u, c) /\ c # b
          BY <2>6, <3>1, <3>3, <4>2
        <5>2. /\ c \in heap /\ c \notin owned \cup stale
              /\ \A v \in Threads : (Raw(v, c) => v = u) /\ (Holds(v, c) => Unlinking(v, c))
          BY <5>1 DEF IInv, ClaimInv, RawApart
        <5>3. QED
          BY <1>1, <1>3, <1>5, <2>5, <2>6, <5>1, <5>2
      <4>3. QED
        BY <4>1, <4>2
    <3>4. QED
      BY <3>3 DEF RawApart
  <2>10. InHeap'
    BY <1>1, <1>3, <1>5, <2>5, <2>6 DEF IInv, ClaimInv, InHeap
  <2>11. RecordsMatch'
    <3>1. \A c \in Blocks : Recorded(c)' <=> Recorded(c)
      BY <1>1, <1>5, <2>5, <2>6 DEF Recorded
    <3>2. QED
      BY <1>1, <3>1 DEF IInv, ClaimInv, RecordsMatch
  <2>12. NodesHeld'
    BY <1>1, <2>2, <2>3 DEF IInv, ClaimInv, NodesHeld, NodeOK, PtrOK, OthersStay
  <2>13. BoundInv'
    <3>1. \A c \in Blocks : Settled(t, c)' => Settled(t, c)
      BY <1>2, <1>3, <2>5 DEF Settled
    <3>2. QED
      BY <1>1, <1>5, <2>2, <2>3, <3>1, HandoverKeepsBounds DEF IInv, TypeInv
  <2>14. QED
    BY <2>4, <2>8, <2>9, <2>10, <2>11, <2>12, <2>13 DEF ClaimInv
<1>6. QED
  BY <1>4, <1>5 DEF MallocRaw

LEMMA MallocStoreKeeps ==
  ASSUME IInv, TypeOK', NEW t \in Threads, MallocStore(t)
  PROVE  ControlInv' /\ ClaimInv' /\ BoundInv'
<1>1. /\ At(t, "malloc", "store") /\ Moved(t, loc[t], fn[t], "enter")
      /\ UNCHANGED <<heap, list, rec, owned, stale>>
      /\ bound' = [bound EXCEPT ![loc[t].new] = loc[t].size]
  BY Own, GoMoves DEF MallocStore, client
<1>2. loc[t].new \in Blocks /\ Raw(t, loc[t].new)
  BY <1>1, Own DEF ControlOK, Took, Raw, At
<1>3. ControlOK(t)' /\ NodeOK(t)' /\ PtrOK(t)' /\ OthersStay(t)
  BY <1>1, Own DEF Moved, ControlOK, Places, Took, NodeOK, PtrOK, At
<1>4. \A b \in Blocks : /\ Holds(t, b)' <=> Holds(t, b)
                        /\ Raw(t, b)' <=> Raw(t, b)
                        /\ ~Unlinking(t, b)' /\ ~Unlinking(t, b)
                        /\ Settled(t, b)' <=> Settled(t, b)
  BY <1>1, Own DEF Moved, Holds, Raw, Unlinking, Settled, Resizing, At
<1>5. Handover(t)
  BY <1>1, <1>3, <1>4 DEF Handover, Moved, IInv, ClaimInv, OneHolder
<1>6. ClaimInv'
  BY <1>5, HandoverKeepsClaims DEF IInv, TypeInv
<1>7. ControlInv'
  BY <1>3, ControlKept DEF IInv
<1>8. \A u \in Threads \ {t}, b \in Blocks : Settled(u, b)' <=> Settled(u, b)
  BY <1>1, <1>3, OthersHoldTheSame DEF Settled, Resizing, OthersStay
<1>9. BoundsMatch'
  <2>1. ASSUME NEW n \in list, rec[n].ptr \in owned \/ \E u \in Threads : Settled(u, rec[n].ptr)'
        PROVE  BoundsHold(n)'
    <3>1. rec[n].ptr \in Blocks
      BY DEF IInv, ClaimInv, RecordsMatch
    <3>2. rec[n].ptr \in owned \/ \E u \in Threads : Settled(u, rec[n].ptr)
      BY <1>1, <1>4, <1>8, <2>1, <3>1
    <3>3. rec[n].ptr # loc[t].new
      BY <1>2, <3>2 DEF IInv, ClaimInv, RawApart, Settled
    <3>4. BoundsHold(n)
      BY <3>2 DEF IInv, BoundInv, BoundsMatch
    <3>5. QED
      BY <1>1, <3>1, <3>3, <3>4, Own DEF BoundsHold, TypeOK
  <2>2. QED
    BY <1>1, <2>1 DEF BoundsMatch
<1>10. \A u \in Threads : SizeOK(u)'
  <2>1. SizeOK(t)'
    BY <1>1, <1>2, Own DEF SizeOK, Moved, TypeOK, Resizing, At
  <2>2. ASSUME NEW u \in Threads \ {t} PROVE SizeOK(u)'
    <3>1. /\ SizeOK(u) /\ loc'[u] = loc[u] /\ fn'[u] = fn[u] /\ step'[u] = step[u]
      BY <1>3 DEF IInv, BoundInv, OthersStay
    <3>2. CASE fn[u] = "malloc" /\ step[u] \in {"enter", "scan"}
      <4>1. loc[u].new \in Blocks /\ Raw(u, loc[u].new)
        BY <3>2, Own DEF ControlOK, Took, Raw
      <4>2. loc[u].new # loc[t].new
        BY <1>2, <4>1 DEF IInv, ClaimInv, RawApart
      <4>3. QED
        BY <1>1, <3>1, <3>2, <4>1, <4>2, Own DEF SizeOK, Resizing, TypeOK
    <3>3. CASE ~(fn[u] = "malloc" /\ step[u] \in {"enter", "scan"})
      BY <1>1, <3>1, <3>3 DEF SizeOK, Resizing
    <3>4. QED
      BY <3>2, <3>3
  <2>3. QED
    BY <2>1, <2>2
<1>11. QED
  BY <1>6, <1>7, <1>9, <1>10 DEF BoundInv

\* Whoever scans the list is alone with it: no record there is about to be unlinked.
LEMMA ScanIsAlone ==
  ASSUME IInv, NEW t \in Threads, step[t] = "scan"
  PROVE  \A u \in Threads, b \in Blocks : ~Unlinking(u, b)
  BY DEF IInv, SectionInv, MutualExclusion, InSection, Inside, Unlinking, At

\* When the new block gets its record, the list has none of it and nobody else has it.
LEMMA RawUnrecorded ==
  ASSUME IInv, NEW t \in Threads, At(t, "malloc", "scan")
  PROVE  /\ loc[t].new \in Blocks /\ loc[t].new \in heap /\ loc[t].new \notin owned \cup stale
         /\ ~Recorded(loc[t].new) /\ Found(loc[t].new) = {}
         /\ \A u \in Threads : Raw(u, loc[t].new) <=> u = t
<1>1. loc[t].new \in Blocks /\ Raw(t, loc[t].new)
  BY Own DEF ControlOK, Took, Raw, At
<1>2. /\ loc[t].new \in heap /\ loc[t].new \notin owned \cup stale
      /\ \A u \in Threads : (Raw(u, loc[t].new) => u = t) /\ ~Holds(u, loc[t].new)
  BY <1>1, ScanIsAlone DEF IInv, ClaimInv, RawApart, At
<1>3. ~Recorded(loc[t].new)
  BY <1>2 DEF Recorded
<1>4. Found(loc[t].new) = {}
  BY <1>1, <1>3 DEF Found, IInv, ClaimInv, RecordsMatch
<1>5. QED
  BY <1>1, <1>2, <1>3, <1>4

LEMMA MallocRecordKeeps ==
  ASSUME IInv, TypeOK', NEW t \in Threads, MallocRecord(t)
  PROVE  ControlInv' /\ ClaimInv' /\ BoundInv'
<1> DEFINE b == loc[t].new
<1>1. /\ At(t, "malloc", "scan") /\ Moved(t, loc[t], "malloc", "leave")
      /\ UNCHANGED <<heap, bound, owned, stale>>
  BY Own, GoMoves DEF MallocRecord, client, At
<1>2. PICK n \in Nodes \ list :
        /\ list' = list \cup {n}
        /\ rec' = [rec EXCEPT ![n] = [ptr |-> loc[t].new, size |-> loc[t].size, freed |-> FALSE]]
  BY <1>1, RawUnrecorded DEF MallocRecord
<1>3. /\ b \in Blocks /\ b \in heap /\ b \notin owned \cup stale /\ ~Recorded(b)
      /\ \A u \in Threads : Raw(u, b) <=> u = t
  BY <1>1, RawUnrecorded
<1>4. /\ rec'[n].ptr = b /\ rec'[n].size = loc[t].size /\ ~rec'[n].freed
      /\ \A m \in list : rec'[m] = rec[m] /\ m # n
  BY <1>2, Own DEF TypeOK
<1>5. OthersStay(t) /\ fn'[t] = "malloc" /\ step'[t] = "leave" /\ loc'[t] = loc[t]
  BY <1>1 DEF Moved
<1>6. ControlOK(t)' /\ NodeOK(t)' /\ PtrOK(t)' /\ SizeOK(t)' /\ ~Resizing(t)'
  BY <1>1, <1>5, Own DEF ControlOK, Places, Took, NodeOK, PtrOK, SizeOK, Resizing, At
<1>7. ControlInv'
  BY <1>5, <1>6, ControlKept DEF IInv
<1>8. \A c \in Blocks : /\ Holds(t, c)' <=> Holds(t, c) \/ c = b
                        /\ ~Raw(t, c)' /\ ~Unlinking(t, c)'
                        /\ Settled(t, c)' <=> Settled(t, c) \/ c = b
  BY <1>1, <1>5, Own DEF ControlOK, PtrOK, Holds, Raw, Unlinking, Settled, Resizing, At
<1>9. \A u \in Threads \ {t} : \A c : /\ Holds(u, c)' <=> Holds(u, c)
                                      /\ Raw(u, c)' <=> Raw(u, c)
                                      /\ Unlinking(u, c)' <=> Unlinking(u, c)
                                      /\ Settled(u, c)' <=> Settled(u, c)
  BY <1>1, <1>5, OthersHoldTheSame DEF Settled, Resizing, OthersStay
<1>10. \A c \in Blocks : Recorded(c)' <=> Recorded(c) \/ c = b
  BY <1>1, <1>8, <1>9 DEF Recorded
<1>11. OneHolder'
  <2>1. \A u \in Threads : loc'[u].new # NoBlock => loc'[u].new # loc'[u].ptr
    BY <1>5 DEF IInv, ClaimInv, OneHolder, OthersStay
  <2>2. \A u \in Threads : ~Holds(u, b)
    BY <1>3 DEF Recorded
  <2>3. ASSUME NEW u \in Threads, NEW c \in Blocks, Holds(u, c)'
        PROVE  c \notin owned' \cup stale' /\ \A v \in Threads : Holds(v, c)' => v = u
    BY <1>1, <1>3, <1>8, <1>9, <2>2, <2>3 DEF IInv, ClaimInv, OneHolder
  <2>4. QED
    BY <1>1, <2>1, <2>3 DEF IInv, ClaimInv, OneHolder
<1>12. RawApart'
  <2>1. ASSUME NEW u \in Threads, NEW c \in Blocks, Raw(u, c)'
        PROVE  /\ c \in heap' /\ c \notin owned' \cup stale'
               /\ \A v \in Threads : (Raw(v, c)' => v = u) /\ (Holds(v, c)' => Unlinking(v, c)')
    <3>1. u # t /\ Raw(u, c)
      BY <1>8, <1>9, <2>1
    <3>2. c # b
      BY <1>3, <3>1
    <3>3. /\ c \in heap /\ c \notin owned \cup stale
          /\ \A v \in Threads : (Raw(v, c) => v = u) /\ (Holds(v, c) => Unlinking(v, c))
      BY <3>1 DEF IInv, ClaimInv, RawApart
    <3>4. ~Unlinking(t, c)
      BY <1>1 DEF Unlinking, At
    <3>5. QED
      BY <1>1, <1>8, <1>9, <3>2, <3>3, <3>4
  <2>2. QED
    BY <2>1 DEF RawApart
<1>13. InHeap'
  BY <1>1, <1>3, <1>8, <1>9 DEF IInv, ClaimInv, InHeap, Unlinking, At
<1>14. RecordsMatch'
  <2>1. \A m \in list : rec[m].ptr # b
    BY <1>3 DEF IInv, ClaimInv, RecordsMatch
  <2>2. \A m1, m2 \in list' : rec'[m1].ptr = rec'[m2].ptr => m1 = m2
    BY <1>2, <1>4, <2>1 DEF IInv, ClaimInv, RecordsMatch
  <2>3. ASSUME NEW m \in list'
        PROVE  /\ rec'[m].ptr \in Blocks /\ Recorded(rec[m].ptr)'
               /\ rec'[m].freed <=> rec'[m].ptr \in stale'
    <3>1. CASE m = n
      <4>1. rec'[m].ptr = loc[t].new /\ ~rec'[m].freed
        BY <1>4, <3>1
      <4>2. Recorded(rec[m].ptr)' <=> \E c \in Blocks : c = loc[t].new /\ Recorded(c)'
        BY <1>3, <4>1 DEF Recorded, Holds, At
      <4>3. QED
        BY <1>1, <1>3, <1>10, <4>1, <4>2
    <3>2. CASE m \in list
      <4>1. rec'[m] = rec[m] /\ rec[m].ptr \in Blocks /\ Recorded(rec[m].ptr)
            /\ (rec[m].freed <=> rec[m].ptr \in stale)
        BY <1>4, <3>2 DEF IInv, ClaimInv, RecordsMatch
      <4>2. Recorded(rec[m].ptr)' <=> \E c \in Blocks : c = rec[m].ptr /\ Recorded(c)'
        BY <4>1 DEF Recorded, Holds, At
      <4>3. QED
        BY <1>1, <1>10, <4>1, <4>2
    <3>3. QED
      BY <1>2, <3>1, <3>2
  <2>4. ASSUME NEW c \in Blocks, Recorded(c)' PROVE \E m \in list' : rec'[m].ptr = c
    <3>1. CASE c = b
      BY <1>2, <1>4, <3>1
    <3>2. CASE Recorded(c)
      <4>1. PICK m \in list : rec[m].ptr = c
        BY <3>2 DEF IInv, ClaimInv, RecordsMatch
      <4>2. QED
        BY <1>2, <1>4, <4>1
    <3>3. QED
      BY <1>10, <2>4, <3>1, <3>2
  <2>5. QED
    BY <2>2, <2>3, <2>4 DEF RecordsMatch
<1>15. NodesHeld'
  BY <1>1, <1>2, <1>4, <1>5, <1>6 DEF IInv, ClaimInv, NodesHeld, NodeOK, PtrOK, OthersStay
<1>16. BoundInv'
  <2>1. BoundsHold(n)'
    BY <1>1, <1>4, Own DEF BoundsHold, SizeOK, At
  <2>2. ASSUME NEW m \in list, rec[m].ptr \in owned \/ \E u \in Threads : Settled(u, rec[m].ptr)'
        PROVE  BoundsHold(m)'
    <3>1. rec[m].ptr \in Blocks /\ rec[m].ptr # b
      BY <1>3 DEF IInv, ClaimInv, RecordsMatch
    <3>2. BoundsHold(m)
      BY <1>4, <1>8, <1>9, <2>2, <3>1 DEF IInv, BoundInv, BoundsMatch
    <3>3. QED
      BY <1>1, <1>4, <3>2 DEF BoundsHold
  <2>3. BoundsMatch'
    BY <1>1, <1>2, <1>4, <2>1, <2>2 DEF BoundsMatch
  <2>4. ASSUME NEW u \in Threads \ {t} PROVE SizeOK(u)'
    <3>1. SizeOK(u) /\ (Resizing(u) => loc[u].node \in list)
      BY DEF IInv, BoundInv, ClaimInv, NodesHeld, NodeOK, Resizing
    <3>2. QED
      BY <1>1, <1>4, <1>5, <3>1 DEF SizeOK, Resizing, OthersStay
  <2>5. QED
    BY <1>6, <2>3, <2>4 DEF BoundInv
<1>17. QED
  BY <1>7, <1>11, <1>12, <1>13, <1>14, <1>15, <1>16 DEF ClaimInv

LEMMA MallocNoRecordKeeps ==
  ASSUME IInv, TypeOK', NEW t \in Threads, MallocNoRecord(t)
  PROVE  ControlInv' /\ ClaimInv' /\ BoundInv'
<1> DEFINE b == loc[t].new
<1>1. /\ At(t, "malloc", "scan") /\ Return(t, {loc[t].ptr} \ {NoBlock})
      /\ UNCHANGED <<bound, list, rec, stale>> /\ heap' = heap \ {b}
  BY DEF MallocNoRecord
<1>2. /\ fn'[t] = "none" /\ step'[t] = "idle" /\ OthersStay(t)
      /\ owned' = owned \cup ({loc[t].ptr} \ {NoBlock})
      /\ loc'[t].op = "none" /\ loc'[t].ptr = NoBlock /\ loc'[t].new = NoBlock
  BY <1>1, Own, ReturnMoves DEF Moved, NoLocals
<1>3. /\ b \in Blocks /\ ~Recorded(b) /\ \A u \in Threads : Raw(u, b) <=> u = t
  BY <1>1, RawUnrecorded
<1>4. NodeOK(t)' /\ PtrOK(t)' /\ SizeOK(t)' /\ ~Resizing(t)'
  BY <1>2 DEF NodeOK, PtrOK, SizeOK, Resizing
<1>5. ControlInv'
  <2>1. ControlOK(t)'
    BY <1>2, MemTraceAssumption DEF ControlOK, Places, Took
  <2>2. QED
    BY <1>2, <2>1, ControlKept DEF IInv
<1>6. \A c \in Blocks : /\ Holds(t, c) <=> c = loc[t].ptr
                        /\ ~Unlinking(t, c) /\ ~Unlinking(t, c)' /\ ~Raw(t, c)' /\ ~Holds(t, c)'
                        /\ Settled(t, c) <=> Holds(t, c)
  BY <1>1, <1>2, Own, MemTraceAssumption DEF ControlOK, PtrOK, Holds, Raw, Unlinking, Settled, Resizing, At
<1>7. \A u \in Threads \ {t} : \A c : /\ Holds(u, c)' <=> Holds(u, c)
                                      /\ Raw(u, c)' <=> Raw(u, c)
                                      /\ Unlinking(u, c)' <=> Unlinking(u, c)
                                      /\ Settled(u, c)' <=> Settled(u, c)
  BY <1>1, <1>2, OthersHoldTheSame DEF Settled, Resizing, OthersStay
<1>8. \A c \in Blocks : c \in owned' <=> c \in owned \/ Holds(t, c)
  BY <1>2, <1>6, MemTraceAssumption
<1>9. owned' \subseteq Blocks /\ stale \subseteq Blocks
  BY <1>1 DEF TypeOK
<1>10. OneHolder'
  <2>1. \A u \in Threads : loc'[u].new # NoBlock => loc'[u].new # loc'[u].ptr
    BY <1>2 DEF IInv, ClaimInv, OneHolder, OthersStay
  <2>2. owned' \cap stale' = {}
    BY <1>1, <1>8, <1>9 DEF IInv, ClaimInv, OneHolder
  <2>3. ASSUME NEW u \in Threads, NEW c \in Blocks, Holds(u, c)'
        PROVE  c \notin owned' \cup stale' /\ \A v \in Threads : Holds(v, c)' => v = u
    BY <1>1, <1>6, <1>7, <1>8, <2>3 DEF IInv, ClaimInv, OneHolder
  <2>4. QED
    BY <2>1, <2>2, <2>3 DEF OneHolder
<1>11. RawApart'
  <2>1. ASSUME NEW u \in Threads, NEW c \in Blocks, Raw(u, c)'
        PROVE  /\ c \in heap' /\ c \notin owned' \cup stale'
               /\ \A v \in Threads : (Raw(v, c)' => v = u) /\ (Holds(v, c)' => Unlinking(v, c)')
    <3>1. u # t /\ Raw(u, c)
      BY <1>6, <1>7, <2>1
    <3>2. c # b
      BY <1>3, <3>1
    <3>3. /\ c \in heap /\ c \notin owned \cup stale
          /\ \A v \in Threads : (Raw(v, c) => v = u) /\ (Holds(v, c) => Unlinking(v, c))
      BY <3>1 DEF IInv, ClaimInv, RawApart
    <3>4. QED
      BY <1>1, <1>6, <1>7, <1>8, <3>2, <3>3
  <2>2. QED
    BY <2>1 DEF RawApart
<1>12. InHeap'
  <2>1. b \notin owned \cup stale /\ \A u \in Threads : ~Holds(u, b)
    BY <1>3 DEF Recorded
  <2>2. \A c \in Blocks : Holds(t, c) => c \in heap
    BY <1>6 DEF IInv, ClaimInv, InHeap
  <2>3. owned' \cup stale' \subseteq heap'
    BY <1>1, <1>8, <1>9, <2>1, <2>2 DEF IInv, ClaimInv, InHeap
  <2>4. QED
    BY <1>1, <1>6, <1>7, <2>1, <2>3 DEF IInv, ClaimInv, InHeap
<1>13. RecordsMatch'
  <2>1. \A c \in Blocks : Recorded(c)' <=> Recorded(c)
    BY <1>1, <1>6, <1>7, <1>8 DEF Recorded
  <2>2. QED
    BY <1>1, <2>1 DEF IInv, ClaimInv, RecordsMatch
<1>14. NodesHeld'
  BY <1>1, <1>2, <1>4 DEF IInv, ClaimInv, NodesHeld, NodeOK, PtrOK, OthersStay
<1>15. BoundInv'
  <2>1. \A c \in Blocks : c \in owned' \/ Settled(t, c)' => c \in owned \/ Settled(t, c)
    BY <1>6, <1>8 DEF Settled
  <2>2. QED
    BY <1>1, <1>2, <1>4, <2>1, HandoverKeepsBounds DEF IInv, TypeInv
<1>16. QED
  BY <1>5, <1>10, <1>11, <1>12, <1>13, <1>14, <1>15 DEF ClaimInv

\* The block a call frees or resizes past its tests: its record is in the list, and nobody
\* else has it in hand.
LEMMA InHand ==
  ASSUME IInv, NEW t \in Threads,
         \/ fn[t] = "free" /\ step[t] \in {"load_freed", "store_freed", "mark", "release", "unlink"}
         \/ fn[t] = "realloc" /\ step[t] \in {"load_old", "store_old", "resize", "load_new", "store_new", "rebound"}
  PROVE  /\ loc[t].ptr \in Blocks /\ loc[t].ptr \notin owned \cup stale /\ Holds(t, loc[t].ptr)
         /\ loc[t].node \in list /\ loc[t].node \in Nodes /\ rec[loc[t].node].ptr = loc[t].ptr
         /\ \A n \in list : rec[n].ptr = loc[t].ptr <=> n = loc[t].node
         /\ \A u \in Threads : Holds(u, loc[t].ptr) <=> u = t
<1>1. /\ loc[t].ptr \in Blocks /\ loc[t].ptr \notin stale
      /\ loc[t].node \in list /\ rec[loc[t].node].ptr = loc[t].ptr
  BY Own DEF LocalsOK, NodeOK
<1>2. Holds(t, loc[t].ptr)
  BY <1>1 DEF Holds, At
<1>3. QED
  BY <1>1, <1>2, Own DEF TypeOK, IInv, ClaimInv, OneHolder, RecordsMatch

\* The node of another call is not that one.
LEMMA OthersNode ==
  ASSUME IInv, NEW t \in Threads, NEW u \in Threads, Holds(t, loc[t].ptr), loc[t].ptr \in Blocks,
         loc[t].ptr \notin stale, u # t,
         \/ fn[u] = "free" /\ step[u] \in {"load_freed", "store_freed", "mark", "release", "unlink"}
         \/ fn[u] = "realloc" /\ step[u] \notin {"check", "init", "enter", "scan"}
  PROVE  loc[u].node \in list /\ rec[loc[u].node].ptr = loc[u].ptr /\ loc[u].ptr # loc[t].ptr
<1>1. loc[u].node \in list /\ rec[loc[u].node].ptr = loc[u].ptr
  BY Own DEF NodeOK
<1>2. ~Holds(u, loc[t].ptr)
  BY DEF IInv, ClaimInv, OneHolder
<1>3. QED
  BY <1>1, <1>2 DEF Holds, At

\* Nor is the block it is about to record.
LEMMA RawIsOther ==
  ASSUME IInv, NEW t \in Threads, NEW u \in Threads, NEW b \in Blocks, Raw(u, b),
         Holds(t, loc[t].ptr), ~At(t, "free", "unlink")
  PROVE  b # loc[t].ptr
  BY DEF IInv, ClaimInv, RawApart, Unlinking

LEMMA FreeMarkKeeps ==
  ASSUME IInv, TypeOK', NEW t \in Threads, FreeMark(t)
  PROVE  ControlInv' /\ ClaimInv' /\ BoundInv'
<1> DEFINE b == loc[t].ptr
<1> DEFINE n == loc[t].node
<1>1. /\ At(t, "free", "mark") /\ Moved(t, loc[t], "free", "leave")
      /\ UNCHANGED <<heap, bound, list, owned>> /\ stale' = stale \cup {b}
      /\ rec' = [rec EXCEPT ![n].freed = TRUE]
  BY Own, GoMoves DEF FreeMark, At
<1>2. /\ b \in Blocks /\ b \notin owned \cup stale /\ Holds(t, b)
      /\ n \in list /\ n \in Nodes /\ rec[n].ptr = b
      /\ \A m \in list : rec[m].ptr = b <=> m = n
      /\ \A u \in Threads : Holds(u, b) <=> u = t
  BY <1>1, InHand DEF At
<1>3. \A m \in list : /\ rec'[m].ptr = rec[m].ptr /\ rec'[m].size = rec[m].size
                      /\ rec'[m].freed <=> m = n \/ rec[m].freed
  BY <1>1, Own DEF TypeOK, Records
<1>4. OthersStay(t) /\ fn'[t] = "free" /\ step'[t] = "leave" /\ loc'[t] = loc[t]
  BY <1>1 DEF Moved
<1>5. ControlOK(t)' /\ NodeOK(t)' /\ PtrOK(t)' /\ SizeOK(t)' /\ ~Resizing(t)'
  BY <1>1, <1>4, Own DEF ControlOK, Places, Took, NodeOK, PtrOK, SizeOK, Resizing, At
<1>6. ControlInv'
  BY <1>4, <1>5, ControlKept DEF IInv
<1>7. loc[t].new # NoBlock => loc[t].new # b
  BY DEF IInv, ClaimInv, OneHolder
<1>8. \A c \in Blocks : /\ Holds(t, c)' <=> Holds(t, c) /\ c # b
                        /\ ~Raw(t, c)' /\ ~Raw(t, c) /\ ~Unlinking(t, c)' /\ ~Unlinking(t, c)
                        /\ Settled(t, c)' => Settled(t, c)
  BY <1>1, <1>2, <1>4, <1>7, MemTraceAssumption DEF Holds, Raw, Unlinking, Settled, Resizing, At
<1>9. \A u \in Threads \ {t}, c \in Blocks : /\ Holds(u, c)' <=> Holds(u, c)
                                             /\ Raw(u, c)' <=> Raw(u, c)
                                             /\ Unlinking(u, c)' <=> Unlinking(u, c)
                                             /\ Settled(u, c)' <=> Settled(u, c)
  <2>1. ASSUME NEW u \in Threads \ {t}, NEW c \in Blocks
        PROVE  Holds(u, c)' <=> Holds(u, c)
    <3>1. ~Holds(u, b)
      BY <1>2
    <3>2. QED
      BY <1>1, <1>4, <3>1 DEF OthersStay, Holds, At
  <2>2. ASSUME NEW u \in Threads \ {t}, NEW c \in Blocks
        PROVE  (Raw(u, c)' <=> Raw(u, c)) /\ (Unlinking(u, c)' <=> Unlinking(u, c))
               /\ (Resizing(u)' <=> Resizing(u))
    BY <1>4 DEF OthersStay, Raw, Unlinking, Resizing, At
  <2>3. QED
    BY <2>1, <2>2 DEF Settled
<1>10. \A c \in Blocks : Recorded(c)' <=> Recorded(c)
  BY <1>1, <1>2, <1>8, <1>9 DEF Recorded
<1>11. OneHolder'
  <2>1. \A u \in Threads : loc'[u].new # NoBlock => loc'[u].new # loc'[u].ptr
    BY <1>4 DEF IInv, ClaimInv, OneHolder, OthersStay
  <2>2. ASSUME NEW u \in Threads, NEW c \in Blocks, Holds(u, c)'
        PROVE  c \notin owned' \cup stale' /\ \A v \in Threads : Holds(v, c)' => v = u
    <3>1. Holds(u, c) /\ c # b
      BY <1>2, <1>8, <1>9, <2>2
    <3>2. QED
      BY <1>1, <1>8, <1>9, <3>1 DEF IInv, ClaimInv, OneHolder
  <2>3. QED
    BY <1>1, <1>2, <2>1, <2>2 DEF IInv, ClaimInv, OneHolder
<1>12. RawApart'
  <2>1. ASSUME NEW u \in Threads, NEW c \in Blocks, Raw(u, c)'
        PROVE  /\ c \in heap' /\ c \notin owned' \cup stale'
               /\ \A v \in Threads : (Raw(v, c)' => v = u) /\ (Holds(v, c)' => Unlinking(v, c)')
    <3>1. u # t /\ Raw(u, c)
      BY <1>8, <1>9, <2>1
    <3>2. c # b
      BY <1>1, <1>2, <3>1, RawIsOther DEF At
    <3>3. /\ c \in heap /\ c \notin owned \cup stale
          /\ \A v \in Threads : (Raw(v, c) => v = u) /\ (Holds(v, c) => Unlinking(v, c))
      BY <3>1 DEF IInv, ClaimInv, RawApart
    <3>4. QED
      BY <1>1, <1>8, <1>9, <3>2, <3>3
  <2>2. QED
    BY <2>1 DEF RawApart
<1>13. InHeap'
  BY <1>1, <1>2, <1>8, <1>9 DEF IInv, ClaimInv, InHeap
<1>14. RecordsMatch'
  <2>1. ASSUME NEW m \in list
        PROVE  /\ rec'[m].ptr \in Blocks /\ Recorded(rec[m].ptr)'
               /\ rec'[m].freed <=> rec'[m].ptr \in stale'
    <3>1. rec[m].ptr \in Blocks /\ Recorded(rec[m].ptr) /\ (rec[m].freed <=> rec[m].ptr \in stale)
      BY DEF IInv, ClaimInv, RecordsMatch
    <3>2. Recorded(rec[m].ptr)' <=> \E c \in Blocks : c = rec[m].ptr /\ Recorded(c)'
      BY <1>3, <3>1 DEF Recorded, Holds, At
    <3>3. rec'[m].freed <=> rec'[m].ptr \in stale'
      BY <1>1, <1>2, <1>3, <3>1
    <3>4. QED
      BY <1>3, <1>10, <3>1, <3>2, <3>3
  <2>2. \A m1, m2 \in list : rec'[m1].ptr = rec'[m2].ptr => m1 = m2
    BY <1>3 DEF IInv, ClaimInv, RecordsMatch
  <2>3. \A c \in Blocks : Recorded(c)' => \E m \in list : rec'[m].ptr = c
    BY <1>3, <1>10 DEF IInv, ClaimInv, RecordsMatch
  <2>4. QED
    BY <1>1, <2>1, <2>2, <2>3 DEF RecordsMatch
<1>15. NodesHeld'
  <2>1. ASSUME NEW u \in Threads \ {t} PROVE NodeOK(u)' /\ PtrOK(u)'
    <3>1. NodeOK(u) /\ PtrOK(u) /\ LocalsOK(u)
      BY Own
    <3>2. ~Holds(u, b)
      BY <1>2
    <3>3. NodeOK(u)'
      BY <1>1, <1>2, <1>3, <1>4, <3>1, <3>2, OthersNode DEF NodeOK, OthersStay
    <3>4. PtrOK(u)'
      BY <1>1, <1>4, <3>1, <3>2 DEF PtrOK, OthersStay, Holds, At
    <3>5. QED
      BY <3>3, <3>4
  <2>2. QED
    BY <1>5, <2>1 DEF NodesHeld
<1>16. BoundInv'
  <2>1. BoundsMatch'
    BY <1>1, <1>3, <1>8, <1>9 DEF IInv, ClaimInv, RecordsMatch, BoundInv, BoundsMatch, BoundsHold
  <2>2. ASSUME NEW u \in Threads \ {t} PROVE SizeOK(u)'
    <3>1. SizeOK(u) /\ (Resizing(u) => loc[u].node \in list)
      BY DEF IInv, BoundInv, ClaimInv, NodesHeld, NodeOK, Resizing
    <3>2. QED
      BY <1>1, <1>3, <1>4, <3>1 DEF SizeOK, Resizing, OthersStay
  <2>3. QED
    BY <1>5, <2>1, <2>2 DEF BoundInv
<1>17. QED
  BY <1>6, <1>11, <1>12, <1>13, <1>14, <1>15, <1>16 DEF ClaimInv

LEMMA FreeReleaseKeeps ==
  ASSUME IInv, TypeOK', NEW t \in Threads, FreeRelease(t)
  PROVE  ControlInv' /\ ClaimInv' /\ BoundInv'
<1> DEFINE b == loc[t].ptr
<1>1. /\ At(t, "free", "release") /\ Moved(t, loc[t], "free", "unlink")
      /\ UNCHANGED <<bound, list, rec, owned, stale>>
      /\ heap' = heap \ {rec[loc[t].node].ptr}
  BY Own, GoMoves DEF FreeRelease, client, At
<1>2. /\ b \in Blocks /\ b \notin owned \cup stale /\ Holds(t, b)
      /\ loc[t].node \in list /\ rec[loc[t].node].ptr = b
      /\ \A u \in Threads : Holds(u, b) <=> u = t
  BY <1>1, InHand DEF At
<1>3. heap' = heap \ {b}
  BY <1>1, <1>2
<1>4. OthersStay(t) /\ fn'[t] = "free" /\ step'[t] = "unlink" /\ loc'[t] = loc[t]
  BY <1>1 DEF Moved
<1>5. ControlOK(t)' /\ NodeOK(t)' /\ PtrOK(t)' /\ SizeOK(t)'
  BY <1>1, <1>2, <1>4, Own DEF ControlOK, Places, Took, NodeOK, PtrOK, SizeOK, Resizing, At
<1>6. ControlInv'
  BY <1>4, <1>5, ControlKept DEF IInv
<1>7. \A c \in Blocks : /\ Holds(t, c)' <=> Holds(t, c)
                        /\ ~Raw(t, c)' /\ ~Unlinking(t, c) /\ (Unlinking(t, c)' <=> c = b)
                        /\ Settled(t, c)' => Settled(t, c)
  BY <1>1, <1>4 DEF Holds, Raw, Unlinking, Settled, Resizing, At
<1>8. \A u \in Threads \ {t} : \A c : /\ Holds(u, c)' <=> Holds(u, c)
                                      /\ Raw(u, c)' <=> Raw(u, c)
                                      /\ Unlinking(u, c)' <=> Unlinking(u, c)
                                      /\ Settled(u, c)' <=> Settled(u, c)
  BY <1>1, <1>4, OthersHoldTheSame DEF Settled, Resizing, OthersStay
<1>9. \A u \in Threads, c \in Blocks : Holds(u, c)' <=> Holds(u, c)
  BY <1>7, <1>8
<1>10. OneHolder'
  BY <1>1, <1>4, <1>9 DEF IInv, ClaimInv, OneHolder, OthersStay
<1>11. RawApart'
  <2>1. ASSUME NEW u \in Threads, NEW c \in Blocks, Raw(u, c)'
        PROVE  /\ c \in heap' /\ c \notin owned' \cup stale'
               /\ \A v \in Threads : (Raw(v, c)' => v = u) /\ (Holds(v, c)' => Unlinking(v, c)')
    <3>1. u # t /\ Raw(u, c)
      BY <1>7, <1>8, <2>1
    <3>2. c # b
      BY <1>1, <1>2, <3>1, RawIsOther DEF At
    <3>3. /\ c \in heap /\ c \notin owned \cup stale
          /\ \A v \in Threads : (Raw(v, c) => v = u) /\ (Holds(v, c) => Unlinking(v, c))
      BY <3>1 DEF IInv, ClaimInv, RawApart
    <3>4. QED
      BY <1>1, <1>3, <1>7, <1>8, <3>2, <3>3
  <2>2. QED
    BY <2>1 DEF RawApart
<1>12. InHeap'
  BY <1>1, <1>2, <1>3, <1>7, <1>8 DEF IInv, ClaimInv, InHeap
<1>13. RecordsMatch'
  <2>1. \A c \in Blocks : Recorded(c)' <=> Recorded(c)
    BY <1>1, <1>9 DEF Recorded
  <2>2. QED
    BY <1>1, <2>1 DEF IInv, ClaimInv, RecordsMatch
<1>14. NodesHeld'
  BY <1>1, <1>4, <1>5 DEF IInv, ClaimInv, NodesHeld, NodeOK, PtrOK, OthersStay
<1>15. BoundInv'
  BY <1>1, <1>4, <1>5, <1>7, HandoverKeepsBounds DEF IInv, TypeInv
<1>16. QED
  BY <1>6, <1>10, <1>11, <1>12, <1>13, <1>14, <1>15 DEF ClaimInv

LEMMA FreeUnlinkKeeps ==
  ASSUME IInv, TypeOK', NEW t \in Threads, FreeUnlink(t)
  PROVE  ControlInv' /\ ClaimInv' /\ BoundInv'
<1> DEFINE b == loc[t].ptr
<1> DEFINE n == loc[t].node
<1>1. /\ At(t, "free", "unlink") /\ Moved(t, loc[t], "free", "leave")
      /\ UNCHANGED <<heap, bound, rec, owned, stale>> /\ list' = list \ {n}
  BY Own, GoMoves DEF FreeUnlink, client, At
<1>2. /\ b \in Blocks /\ b \notin owned \cup stale /\ Holds(t, b)
      /\ n \in list /\ n \in Nodes /\ rec[n].ptr = b
      /\ \A m \in list : rec[m].ptr = b <=> m = n
      /\ \A u \in Threads : Holds(u, b) <=> u = t
  BY <1>1, InHand DEF At
<1>3. OthersStay(t) /\ fn'[t] = "free" /\ step'[t] = "leave" /\ loc'[t] = loc[t]
  BY <1>1 DEF Moved
<1>4. ControlOK(t)' /\ NodeOK(t)' /\ PtrOK(t)' /\ SizeOK(t)' /\ ~Resizing(t)'
  BY <1>1, <1>3, Own DEF ControlOK, Places, Took, NodeOK, PtrOK, SizeOK, Resizing, At
<1>5. ControlInv'
  BY <1>3, <1>4, ControlKept DEF IInv
<1>6. loc[t].new # NoBlock => loc[t].new # b
  BY DEF IInv, ClaimInv, OneHolder
<1>7. \A c \in Blocks : /\ Holds(t, c)' <=> Holds(t, c) /\ c # b
                        /\ ~Raw(t, c)' /\ ~Unlinking(t, c)' /\ (Unlinking(t, c) <=> c = b)
                        /\ Settled(t, c)' => Settled(t, c)
  BY <1>1, <1>2, <1>3, <1>6, MemTraceAssumption DEF Holds, Raw, Unlinking, Settled, Resizing, At
<1>8. \A u \in Threads \ {t} : \A c : /\ Holds(u, c)' <=> Holds(u, c)
                                      /\ Raw(u, c)' <=> Raw(u, c)
                                      /\ Unlinking(u, c)' <=> Unlinking(u, c)
                                      /\ Settled(u, c)' <=> Settled(u, c)
  BY <1>1, <1>3, OthersHoldTheSame DEF Settled, Resizing, OthersStay
<1>9. \A c \in Blocks : Recorded(c)' <=> Recorded(c) /\ c # b
  BY <1>1, <1>2, <1>7, <1>8 DEF Recorded
<1>10. OneHolder'
  <2>1. \A u \in Threads : loc'[u].new # NoBlock => loc'[u].new # loc'[u].ptr
    BY <1>3 DEF IInv, ClaimInv, OneHolder, OthersStay
  <2>2. \A u \in Threads, c \in Blocks : Holds(u, c)' => Holds(u, c)
    BY <1>7, <1>8
  <2>3. QED
    BY <1>1, <2>1, <2>2 DEF IInv, ClaimInv, OneHolder
<1>11. RawApart'
  <2>1. ASSUME NEW u \in Threads, NEW c \in Blocks, Raw(u, c)'
        PROVE  /\ c \in heap' /\ c \notin owned' \cup stale'
               /\ \A v \in Threads : (Raw(v, c)' => v = u) /\ (Holds(v, c)' => Unlinking(v, c)')
    <3>1. u # t /\ Raw(u, c)
      BY <1>7, <1>8, <2>1
    <3>2. /\ c \in heap /\ c \notin owned \cup stale
          /\ \A v \in Threads : (Raw(v, c) => v = u) /\ (Holds(v, c) => Unlinking(v, c))
      BY <3>1 DEF IInv, ClaimInv, RawApart
    <3>3. QED
      BY <1>1, <1>7, <1>8, <3>2
  <2>2. QED
    BY <2>1 DEF RawApart
<1>12. InHeap'
  BY <1>1, <1>7, <1>8 DEF IInv, ClaimInv, InHeap
<1>13. RecordsMatch'
  BY <1>1, <1>2, <1>9 DEF IInv, ClaimInv, RecordsMatch
<1>14. NodesHeld'
  <2>1. ASSUME NEW u \in Threads \ {t} PROVE NodeOK(u)' /\ PtrOK(u)'
    <3>1. NodeOK(u) /\ PtrOK(u)
      BY Own
    <3>2. NodeOK(u)'
      BY <1>1, <1>2, <1>3, <3>1, OthersNode DEF NodeOK, OthersStay
    <3>3. PtrOK(u)'
      BY <1>1, <1>3, <3>1 DEF PtrOK, OthersStay
    <3>4. QED
      BY <3>2, <3>3
  <2>2. QED
    BY <1>4, <2>1 DEF NodesHeld
<1>15. BoundInv'
  <2>1. BoundsMatch'
    BY <1>1, <1>7, <1>8 DEF IInv, ClaimInv, RecordsMatch, BoundInv, BoundsMatch, BoundsHold
  <2>2. \A u \in Threads \ {t} : SizeOK(u)'
    BY <1>1, <1>3 DEF IInv, BoundInv, SizeOK, Resizing, OthersStay
  <2>3. QED
    BY <1>4, <2>1, <2>2 DEF BoundInv
<1>16. QED
  BY <1>5, <1>10, <1>11, <1>12, <1>13, <1>14, <1>15 DEF ClaimInv

LEMMA ReallocResizeKeeps ==
  ASSUME IInv, TypeOK', NEW t \in Threads, ReallocResize(t)
  PROVE  ControlInv' /\ ClaimInv' /\ BoundInv'
<1> DEFINE b == loc[t].ptr
<1> DEFINE n == loc[t].node
<1>1. /\ At(t, "realloc", "resize") /\ Moved(t, loc[t], "realloc", "load_new")
      /\ UNCHANGED <<heap, bound, list, owned, stale>>
      /\ rec' = [rec EXCEPT ![n].size = loc[t].size]
  BY Own, GoMoves DEF ReallocResize, client, At
<1>2. /\ b \in Blocks /\ b \notin owned \cup stale /\ Holds(t, b)
      /\ n \in list /\ n \in Nodes /\ rec[n].ptr = b
      /\ \A m \in list : rec[m].ptr = b <=> m = n
      /\ \A u \in Threads : Holds(u, b) <=> u = t
  BY <1>1, InHand DEF At
<1>3. \A m \in list : /\ rec'[m].ptr = rec[m].ptr /\ rec'[m].freed = rec[m].freed
                      /\ rec'[m].size = IF m = n THEN loc[t].size ELSE rec[m].size
  BY <1>1, Own DEF TypeOK, Records
<1>4. OthersStay(t) /\ fn'[t] = "realloc" /\ step'[t] = "load_new" /\ loc'[t] = loc[t]
  BY <1>1 DEF Moved
<1>5. ControlOK(t)' /\ NodeOK(t)' /\ PtrOK(t)' /\ SizeOK(t)' /\ Resizing(t)'
  BY <1>1, <1>2, <1>3, <1>4, Own DEF ControlOK, Places, Took, NodeOK, PtrOK, SizeOK, Resizing, At
<1>6. ControlInv'
  BY <1>4, <1>5, ControlKept DEF IInv
<1>7. \A c \in Blocks : /\ Holds(t, c)' <=> Holds(t, c)
                        /\ ~Raw(t, c)' /\ ~Unlinking(t, c)' /\ ~Unlinking(t, c) /\ ~Settled(t, c)'
  BY <1>1, <1>4 DEF Holds, Raw, Unlinking, Settled, Resizing, At
<1>8. Handover(t)
  BY <1>1, <1>3, <1>4, <1>5, <1>7 DEF Handover, IInv, ClaimInv, OneHolder
<1>9. ClaimInv'
  BY <1>8, HandoverKeepsClaims DEF IInv, TypeInv
<1>10. \A u \in Threads \ {t} : \A c : Settled(u, c)' <=> Settled(u, c)
  BY <1>1, <1>4, OthersHoldTheSame DEF Settled, Resizing, OthersStay
<1>11. BoundsMatch'
  <2>1. ASSUME NEW m \in list, rec[m].ptr \in owned \/ \E u \in Threads : Settled(u, rec[m].ptr)'
        PROVE  BoundsHold(m)'
    <3>1. rec[m].ptr \in Blocks
      BY DEF IInv, ClaimInv, RecordsMatch
    <3>2. rec[m].ptr \in owned \/ \E u \in Threads \ {t} : Settled(u, rec[m].ptr)
      BY <1>7, <1>10, <1>3, <2>1, <3>1
    <3>3. m # n
      BY <1>2, <3>2 DEF Settled
    <3>4. BoundsHold(m)
      BY <3>2 DEF IInv, BoundInv, BoundsMatch
    <3>5. QED
      BY <1>1, <1>3, <3>3, <3>4 DEF BoundsHold
  <2>2. QED
    BY <1>1, <1>3, <2>1 DEF BoundsMatch
<1>12. ASSUME NEW u \in Threads \ {t} PROVE SizeOK(u)'
  <2>1. SizeOK(u) /\ (Resizing(u) => loc[u].node \in list /\ loc[u].node # n)
    BY <1>2, Own, OthersNode DEF Resizing
  <2>2. QED
    BY <1>1, <1>3, <1>4, <2>1 DEF SizeOK, Resizing, OthersStay
<1>13. QED
  BY <1>5, <1>6, <1>9, <1>11, <1>12 DEF BoundInv

LEMMA ReallocReboundKeeps ==
  ASSUME IInv, TypeOK', NEW t \in Threads, ReallocRebound(t)
  PROVE  ControlInv' /\ ClaimInv' /\ BoundInv'
<1> DEFINE b == loc[t].ptr
<1> DEFINE n == loc[t].node
<1>1. /\ At(t, "realloc", "rebound") /\ Return(t, {b})
      /\ UNCHANGED <<heap, list, rec, stale>>
      /\ bound' = [bound EXCEPT ![rec[n].ptr] = loc[t].size]
  BY DEF ReallocRebound
<1>2. /\ b \in Blocks /\ b \notin owned \cup stale /\ Holds(t, b)
      /\ n \in list /\ n \in Nodes /\ rec[n].ptr = b
      /\ \A m \in list : rec[m].ptr = b <=> m = n
      /\ \A u \in Threads : Holds(u, b) <=> u = t
  BY <1>1, InHand DEF At
<1>3. OthersStay(t) /\ owned' = owned \cup {b}
  BY <1>1, Own, ReturnMoves DEF Moved
<1>4. \A c \in Blocks : (c \in {b} <=> Holds(t, c)) /\ ~Unlinking(t, c)
  BY <1>1, <1>2, Own DEF ControlOK, Took, Holds, Unlinking, At
<1>5. Handover(t) /\ ControlOK(t)' /\ SizeOK(t)' /\ \A c \in Blocks : ~Settled(t, c)'
  BY <1>1, <1>2, <1>4, ReturnHandsOver
<1>6. ControlInv'
  BY <1>3, <1>5, ControlKept DEF IInv
<1>7. ClaimInv'
  BY <1>5, HandoverKeepsClaims DEF IInv, TypeInv
<1>8. \A u \in Threads \ {t} : \A c : Settled(u, c)' <=> Settled(u, c)
  BY <1>1, <1>3, OthersHoldTheSame DEF Settled, Resizing, OthersStay
<1>9. \A c \in Blocks : bound'[c] = IF c = b THEN loc[t].size ELSE bound[c]
  BY <1>1, <1>2, Own DEF TypeOK
<1>10. BoundsMatch'
  <2>1. ASSUME NEW m \in list, rec[m].ptr \in owned' \/ \E u \in Threads : Settled(u, rec[m].ptr)'
        PROVE  BoundsHold(m)'
    <3>1. rec[m].ptr \in Blocks
      BY DEF IInv, ClaimInv, RecordsMatch
    <3>2. CASE m = n
      <4>1. rec[n].size = loc[t].size
        BY <1>1, Own DEF SizeOK, Resizing, At
      <4>2. QED
        BY <1>1, <1>2, <1>9, <3>2, <4>1 DEF BoundsHold
    <3>3. CASE m # n
      <4>1. rec[m].ptr # b
        BY <1>2, <3>3
      <4>2. rec[m].ptr \in owned \/ \E u \in Threads \ {t} : Settled(u, rec[m].ptr)
        BY <1>1, <1>3, <1>5, <1>8, <2>1, <3>1, <4>1
      <4>3. BoundsHold(m)
        BY <4>2 DEF IInv, BoundInv, BoundsMatch
      <4>4. QED
        BY <1>1, <1>9, <3>1, <4>1, <4>3 DEF BoundsHold
    <3>4. QED
      BY <3>2, <3>3
  <2>2. QED
    BY <1>1, <2>1 DEF BoundsMatch
<1>11. ASSUME NEW u \in Threads \ {t} PROVE SizeOK(u)'
  <2>1. SizeOK(u) /\ loc'[u] = loc[u] /\ fn'[u] = fn[u] /\ step'[u] = step[u]
    BY <1>3, Own DEF OthersStay
  <2>2. fn[u] = "malloc" /\ step[u] \in {"enter", "scan"} => loc[u].new \in Blocks /\ loc[u].new # b
    <3>1. SUFFICES ASSUME fn[u] = "malloc", step[u] \in {"enter", "scan"}
                   PROVE  loc[u].new \in Blocks /\ loc[u].new # b
      OBVIOUS
    <3>2. loc[u].new \in Blocks /\ Raw(u, loc[u].new)
      BY <3>1, Own DEF ControlOK, Took, Raw
    <3>3. QED
      BY <1>1, <1>2, <3>2, RawIsOther DEF At
  <2>3. QED
    BY <1>1, <1>9, <2>1, <2>2 DEF SizeOK, Resizing
<1>12. QED
  BY <1>5, <1>6, <1>7, <1>10, <1>11 DEF BoundInv

-----------------------------------------------------------------------------
LEMMA IInvInit == Init => IInv
<1> SUFFICES ASSUME Init PROVE IInv
  OBVIOUS
<1>1. SectionInv
  BY MemTraceAssumption DEF Init, SectionInv, MutualExclusion, InSection, Inside
<1>2. \A t \in Threads : /\ fn[t] = "none" /\ step[t] = "idle" /\ loc[t].op = "none"
                         /\ loc[t].ptr = NoBlock /\ loc[t].new = NoBlock
  BY DEF Init, NoLocals
<1>3. \A t \in Threads : ControlOK(t) /\ NodeOK(t) /\ PtrOK(t) /\ SizeOK(t)
  BY <1>2, MemTraceAssumption DEF ControlOK, Places, Took, NodeOK, PtrOK, SizeOK, Resizing
<1>4. \A t \in Threads, b \in Blocks : ~Holds(t, b) /\ ~Raw(t, b) /\ ~Unlinking(t, b)
  BY <1>2, MemTraceAssumption DEF Holds, Raw, Unlinking, At
<1>5. list = {} /\ owned = {} /\ stale = {}
  BY DEF Init
<1>6. ClaimInv
  BY <1>2, <1>3, <1>4, <1>5 DEF ClaimInv, OneHolder, RawApart, InHeap, RecordsMatch, Recorded, NodesHeld
<1>7. BoundInv
  BY <1>3, <1>5 DEF BoundInv, BoundsMatch
<1>8. QED
  BY <1>1, <1>3, <1>6, <1>7, TypeInvInit DEF IInv, ControlInv

LEMMA IInvStep ==
  ASSUME First \in Threads, IInv, [Next]_vars
  PROVE  IInv'
<1>1. TypeInv' /\ TypeOK'
  BY TypeInvStep DEF IInv, TypeInv
<1>2. SectionInv'
  BY SectionInvStep DEF IInv
<1>3. ASSUME NEW t \in Threads, Call(t) PROVE ControlInv' /\ ClaimInv' /\ BoundInv'
  BY <1>1, <1>3, CallMallocKeeps, CallFreeKeeps, CallReallocKeeps, CallWalkKeeps,
     CallSetMallocConfigKeeps DEF Call
<1>4. ASSUME NEW t \in Threads, Step(t) PROVE ControlInv' /\ ClaimInv' /\ BoundInv'
  BY <1>1, <1>4, CheckInitKeeps, InitSectionKeeps, SetMallocConfigKeeps, EnterKeeps, LeaveKeeps,
     LoadKeeps, MallocRawKeeps, MallocStoreKeeps, MallocRecordKeeps, MallocNoRecordKeeps,
     FreeScanKeeps, FreeStoreKeeps, FreeMarkKeeps, FreeReleaseKeeps, FreeUnlinkKeeps,
     ReallocScanKeeps, ReallocRefuseKeeps, ReallocTestKeeps, ReallocStoreOldKeeps,
     ReallocResizeKeeps, ReallocStoreNewKeeps, ReallocReboundKeeps, WalkScanKeeps DEF Step
<1>5. CASE UNCHANGED vars
  <2>1. UNCHANGED <<heap, bound, list, rec, fn, step, loc, owned, stale>>
    BY <1>5 DEF vars, memory, control, client
  <2>2. \A t \in Threads : /\ ControlOK(t)' <=> ControlOK(t)
                           /\ NodeOK(t)' <=> NodeOK(t)
                           /\ PtrOK(t)' <=> PtrOK(t)
                           /\ SizeOK(t)' <=> SizeOK(t)
                           /\ Resizing(t)' <=> Resizing(t)
    BY <2>1 DEF ControlOK, Took, NodeOK, PtrOK, SizeOK, Resizing
  <2>3. \A t \in Threads : \A b : /\ Holds(t, b)' <=> Holds(t, b)
                                  /\ Raw(t, b)' <=> Raw(t, b)
                                  /\ Unlinking(t, b)' <=> Unlinking(t, b)
    BY <2>1 DEF Holds, Raw, Unlinking, At
  <2>4. ControlInv'
    BY <2>2 DEF IInv, ControlInv
  <2>5. ClaimInv'
    BY <2>1, <2>2, <2>3 DEF IInv, ClaimInv, OneHolder, RawApart, InHeap, RecordsMatch, Recorded, NodesHeld
  <2>6. BoundInv'
    BY <2>1, <2>2, <2>3 DEF IInv, BoundInv, BoundsMatch, BoundsHold, Settled
  <2>7. QED
    BY <1>1, <1>2, <2>4, <2>5, <2>6 DEF IInv
<1>6. QED
  BY <1>1, <1>2, <1>3, <1>4, <1>5 DEF IInv, Next

\* A thread outside of all calls has no block in its hands.
LEMMA IdleHasNone ==
  ASSUME NEW t \in Threads, ControlOK(t), step[t] = "idle"
  PROVE  loc[t].ptr = NoBlock /\ loc[t].new = NoBlock
<1>1. fn[t] = "none"
  BY DEF ControlOK, Places
<1>2. QED
  BY <1>1 DEF ControlOK, Took, At, Places

\* What the inductive invariant says of the records, of the quarantine, and of whoever scans.
LEMMA IInvImplies ==
  ASSUME IInv
  PROVE  OneRecordPerBlock /\ NoDanglingRead /\ RecordStaysFound /\ Quarantine
<1>1. \A b \in Blocks : Recorded(b) => \E n \in Found(b) : rec[n].freed <=> b \in stale
  BY DEF IInv, ClaimInv, RecordsMatch, Found
<1>2. owned \subseteq Blocks /\ stale \subseteq Blocks
  BY DEF IInv, TypeInv, TypeOK
<1>3. OneRecordPerBlock
  <2>1. ASSUME NEW t \in Threads, HasOld(t)
        PROVE  loc[t].ptr \in heap /\ \E n \in Found(loc[t].ptr) : ~rec[n].freed
    <3>1. loc[t].ptr \in Blocks /\ loc[t].ptr \notin stale
      BY <2>1, Own DEF HasOld
    <3>2. Holds(t, loc[t].ptr) /\ ~Unlinking(t, loc[t].ptr)
      BY <2>1, <3>1 DEF HasOld, Holds, Unlinking, At
    <3>3. QED
      BY <1>1, <3>1, <3>2 DEF IInv, ClaimInv, InHeap, Recorded
  <2>2. ASSUME NEW b \in owned
        PROVE  b \in heap /\ \E n \in Found(b) : ~rec[n].freed
    BY <1>1, <1>2 DEF IInv, ClaimInv, InHeap, OneHolder, Recorded
  <2>3. ASSUME \A t \in Threads : step[t] = "idle"
        PROVE  {rec[n].ptr : n \in list} = owned \cup stale
    <3>1. \A t \in Threads : loc[t].ptr = NoBlock /\ loc[t].new = NoBlock
      BY <2>3, Own, IdleHasNone
    <3>2. \A b \in Blocks : Recorded(b) <=> b \in owned \cup stale
      BY <3>1, MemTraceAssumption DEF Recorded, Holds
    <3>3. QED
      BY <1>2, <3>2 DEF IInv, ClaimInv, RecordsMatch
  <2>4. QED
    BY <2>1, <2>2, <2>3 DEF OneRecordPerBlock, IInv, ClaimInv, RecordsMatch
<1>4. NoDanglingRead
  BY ScanIsAlone DEF NoDanglingRead, IInv, ClaimInv, RecordsMatch, Recorded, InHeap
<1>5. RecordStaysFound
  BY Own DEF RecordStaysFound, ControlOK, NodeOK
<1>6. Quarantine
  <2>1. ASSUME NEW b \in stale, NEW t \in Threads PROVE loc[t].new # b
    <3>1. SUFFICES ASSUME loc[t].new = b PROVE FALSE
      OBVIOUS
    <3>2. Raw(t, b) \/ Holds(t, b)
      BY <1>2, <3>1, Own, MemTraceAssumption DEF ControlOK, Took, Raw, Holds, At
    <3>3. QED
      BY <1>2, <3>2 DEF IInv, ClaimInv, RawApart, OneHolder
  <2>2. QED
    BY <1>1, <1>2, <2>1 DEF Quarantine, IInv, ClaimInv, InHeap, OneHolder, Recorded
<1>7. QED
  BY <1>3, <1>4, <1>5, <1>6

\* A block in use has one record, the block a call frees or resizes has one too,
\* no two records are of the same block, and when no call is on there are records of
\* the blocks in use and in quarantine and of no others: the unlocked calls of malloc
\* and free and the locked updates of the list may come in any order.
THEOREM RecordsAreOfBlocks ==
  ASSUME First \in Threads
  PROVE  Spec => []OneRecordPerBlock
  BY IInvInit, IInvStep, IInvImplies, PTL DEF Spec

\* Whoever is inside the section to scan the list finds only blocks there that
\* are still memory of the program.
THEOREM ScansReadLiveBlocks ==
  ASSUME First \in Threads
  PROVE  Spec => []NoDanglingRead
  BY IInvInit, IInvStep, IInvImplies, PTL DEF Spec

\* The record SU_realloc_trace found stays the record of its block, and in the
\* list, though the section is left before the record is used.
THEOREM FoundRecordIsKept ==
  ASSUME First \in Threads
  PROVE  Spec => []RecordStaysFound
  BY IInvInit, IInvStep, IInvImplies, PTL DEF Spec

\* A block freed in trace mode keeps its record and is never handed out again.
THEOREM QuarantineIsKept ==
  ASSUME First \in Threads
  PROVE  Spec => []Quarantine
  BY IInvInit, IInvStep, IInvImplies, PTL DEF Spec

-----------------------------------------------------------------------------
(* The reports.                                                            *)

\* free reports a block its caller owned neither as unknown, nor as freed, nor as overrun.
LEMMA FreeReportsMisuse ==
  ASSUME IInv, LegalCallNotReported, NEW t \in Threads, FreeScan(t)
  PROVE  LegalCallNotReported'
<1>1. At(t, "free", "scan")
  BY DEF FreeScan
<1>2. loc[t].ptr \in stale => LegalCallNotReported'
  BY DEF FreeScan, Report, LegalCallNotReported, outcome
<1>3. CASE loc[t].ptr \notin stale
  <2>1. \A n \in Found(loc[t].ptr) : n \in list /\ rec[n].ptr = loc[t].ptr /\ ~rec[n].freed
    BY <1>1, <1>3, ScanFinds DEF At
  <2>2. Settled(t, loc[t].ptr)
    BY <1>1, <1>3 DEF Settled, Holds, Unlinking, Resizing, At
  <2>3. \A n \in Found(loc[t].ptr) : BoundsHold(n)
    BY <2>1, <2>2 DEF IInv, BoundInv, BoundsMatch
  <2>4. Found(loc[t].ptr) # {}
    BY <1>1, ScanFinds DEF At
  <2>5. UNCHANGED outcome
    BY <2>1, <2>3, <2>4 DEF FreeScan
  <2>6. QED
    BY <2>5 DEF outcome, LegalCallNotReported
<1>4. QED
  BY <1>2, <1>3

LEMMA ReallocReportsMisuse ==
  ASSUME IInv, LegalCallNotReported, NEW t \in Threads, ReallocRefuse(t)
  PROVE  LegalCallNotReported'
<1>1. At(t, "realloc", "test")
  BY DEF ReallocRefuse
<1>2. loc[t].node \in list /\ rec[loc[t].node].ptr = loc[t].ptr
  BY <1>1, Own DEF NodeOK, At
<1>3. loc[t].ptr \in stale
  BY <1>2, Own, MemTraceAssumption DEF ReallocRefuse, IInv, ClaimInv, RecordsMatch, TypeOK
<1>4. QED
  BY <1>3 DEF ReallocRefuse, Report, LegalCallNotReported

LEMMA OthersDoNotReport ==
  ASSUME "check" \notin Walks, IInv, LegalCallNotReported, NEW t \in Threads, Call(t) \/ Step(t),
         ~FreeScan(t), ~ReallocRefuse(t)
  PROVE  LegalCallNotReported'
<1> USE DEF outcome, LegalCallNotReported
<1>1. CASE Call(t)
  BY <1>1 DEF Call, CallMalloc, CallFree, CallRealloc, CallWalk, CallSetMallocConfig
<1>2. CASE CheckInit(t) \/ InitSection(t) \/ SetMallocConfig(t) \/ Enter(t) \/ Leave(t) \/ Load(t)
  BY <1>2 DEF CheckInit, InitSection, SetMallocConfig, Enter, Leave, Load
<1>3. CASE MallocRaw(t) \/ MallocStore(t) \/ MallocRecord(t) \/ MallocNoRecord(t)
  BY <1>3 DEF MallocRaw, MallocStore, MallocRecord, MallocNoRecord
<1>4. CASE FreeStore(t) \/ FreeMark(t) \/ FreeRelease(t) \/ FreeUnlink(t)
  BY <1>4 DEF FreeStore, FreeMark, FreeRelease, FreeUnlink
<1>5. CASE ReallocScan(t) \/ ReallocTest(t) \/ ReallocStoreOld(t) \/ ReallocResize(t)
           \/ ReallocStoreNew(t) \/ ReallocRebound(t)
  BY <1>5 DEF ReallocScan, ReallocTest, ReallocStoreOld, ReallocResize, ReallocStoreNew, ReallocRebound
<1>6. CASE WalkScan(t)
  <2>1. loc[t].op \in Walks
    BY <1>6, Own DEF WalkScan, ControlOK, At
  <2>2. QED
    BY <1>6, <2>1 DEF WalkScan
<1>7. QED
  BY <1>1, <1>2, <1>3, <1>4, <1>5, <1>6 DEF Step

\* With no SU_check_memory among the calls, every report is of a block its caller
\* freed before: none is made on a call that uses its own blocks, so that
\* MALLOC_CHECK_ ends no program but one that misuses a block.
THEOREM ReportsAreOfMisuse ==
  ASSUME First \in Threads, "check" \notin Walks
  PROVE  Spec => []LegalCallNotReported
<1>1. Init => LegalCallNotReported
  BY DEF Init, LegalCallNotReported
<1>2. IInv /\ LegalCallNotReported /\ [Next]_vars => LegalCallNotReported'
  BY FreeReportsMisuse, ReallocReportsMisuse, OthersDoNotReport
     DEF Next, vars, outcome, LegalCallNotReported
<1>3. QED
  BY <1>1, <1>2, IInvInit, IInvStep, PTL DEF Spec
=============================================================================
