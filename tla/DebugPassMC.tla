---------------------------- MODULE DebugPassMC ----------------------------
(***************************************************************************)
(* DebugPass for TLC: the vertices' values are interchangeable, and two    *)
(* states are the same one when they differ only in what no step and no    *)
(* property reads: what the list holds beyond its counts, what a vector    *)
(* holds after a write that failed, the batch of a slot that is free, and  *)
(* the number of a buffer but for whether a command names it.              *)
(***************************************************************************)
EXTENDS DebugPass, TLC

Symmetry == Permutations(Vertices)

InUse(array) == <<Len(array.vals), SubSeq(array.vals, 1, array.num)>>

Kept(vec) == <<vec.size, vec.state, vec.written, IF vec.written THEN vec.data ELSE <<>>>>

Batch(f) ==
  <<intended[f],
    [k \in 1 .. Len(commands[f]) |->
       <<commands[f][k].num,
         commands[f][k].vertices = vertexBuf[f].made,
         commands[f][k].indices = indexBuf[f].made>>]>>

View ==
  <<InUse(vertices), InUse(indices), given, owner, last,
    [f \in Frames |-> <<Kept(vertexBuf[f]), Kept(indexBuf[f])>>],
    [f \in Frames |-> IF owner[f] = "free" THEN <<>> ELSE Batch(f)]>>
=============================================================================
