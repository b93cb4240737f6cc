------------------------------ MODULE LineList ------------------------------
(* What debug_draw.c promises: the points and lines given since the last   *)
(* clear, in order, each line between the points its caller named.         *)
EXTENDS Sequences, Integers

CONSTANT Vertices

VARIABLES points, lines

vars == <<points, lines>>

Init == points = <<>> /\ lines = <<>>

AddPoint(v) ==
  /\ points' = Append(points, v)
  /\ UNCHANGED lines

AddLine(i, j) ==
  /\ lines' = Append(lines, <<points[i + 1], points[j + 1]>>)
  /\ UNCHANGED points

Clear == points' = <<>> /\ lines' = <<>>

Next ==
  \/ \E v \in Vertices : AddPoint(v)
  \/ \E i, j \in 0 .. Len(points) - 1 : AddLine(i, j)
  \/ Clear

Spec == Init /\ [][Next]_vars
=============================================================================
