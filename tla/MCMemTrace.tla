----------------------------- MODULE MCMemTrace -----------------------------
(* The instances of MemTrace that TLC checks.                              *)
EXTENDS MemTrace, FiniteSetsExt, TLC

\* Blocks and nodes are addresses: any two of them can change places.
Symmetry == Permutations(Blocks) \cup Permutations(Nodes)

SumSizes(nodes) == FoldSet(LAMBDA n, sum : rec[n].size + sum, 0, nodes)

\* skyutils.h:555, "Returns the total size allocated": when no call is under
\* way the counter is the sum of the sizes of the blocks in use.
TotalMatches ==
  (\A t \in Threads : step[t] = "idle")
    => total = SumSizes({n \in list : ~rec[n].freed}) % Word
=============================================================================
