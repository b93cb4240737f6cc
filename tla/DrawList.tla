------------------------------ MODULE DrawList ------------------------------
(***************************************************************************)
(* debug_draw.c: the list of vertices and indices that the world and main  *)
(* fill and the debug pass empties.  Both arrays double when they are full *)
(* and never shrink; a clear only resets the counts, so that what is       *)
(* beyond them is left over from earlier frames.                           *)
(***************************************************************************)
EXTENDS Integers, Sequences

CONSTANTS
  Vertices,      \* values of debug_draw_vertex_t
  Unset,         \* what memory holds before it is written
  Capacity,      \* CAPACITY, 1024 in debug_draw_list_new
  MaxNum         \* bound: most vertices or indices in the list

ASSUME UnsetAssumption == Unset \notin Vertices /\ Unset \notin Nat
ASSUME CapacityAssumption == Capacity \in Nat \ {0}
ASSUME MaxNumAssumption == MaxNum \in Nat

VARIABLES vertices, indices

drawListVars == <<vertices, indices>>

(* An array: what is allocated, and the count of what is in use.            *)
Array(S) == [vals : Seq(S \cup {Unset}), num : Nat]

DrawListTypeOK ==
  /\ vertices \in Array(Vertices)
  /\ vertices.num <= Len(vertices.vals)
  /\ indices \in Array(Nat)
  /\ indices.num <= Len(indices.vals)

Blank(n) == [k \in 1 .. n |-> Unset]

EmptyArray == [vals |-> Blank(Capacity), num |-> 0]

DrawListInit == vertices = EmptyArray /\ indices = EmptyArray

(* Mutant: the new memory is not filled from the old.                      *)
GrownAfresh(array, required) ==
  IF Len(array.vals) < required
  THEN [array EXCEPT !.vals = Blank(2 * Len(@))]
  ELSE array

(* realloc to twice the capacity when one more element does not fit.       *)
Grown(array, required) ==
  IF Len(array.vals) < required
  THEN [array EXCEPT !.vals = @ \o Blank(Len(@))]
  ELSE array

(* debug_draw_list_vertex; the index it returns is array.num.              *)
WithVertex(array, vertex) ==
  LET a == Grown(array, array.num + 1)
  IN  [vals |-> [a.vals EXCEPT ![a.num + 1] = vertex], num |-> a.num + 1]

(* Mutant: room is made for one index only.                                *)
WithLineShort(array, i, j) ==
  LET a == Grown(array, array.num + 1)
  IN  [vals |-> [a.vals EXCEPT ![a.num + 1] = i, ![a.num + 2] = j],
       num  |-> a.num + 2]

(* debug_draw_list_line.                                                   *)
WithLine(array, i, j) ==
  LET a == Grown(array, array.num + 2)
  IN  [vals |-> [a.vals EXCEPT ![a.num + 1] = i, ![a.num + 2] = j],
       num  |-> a.num + 2]

(* What debug_draw_list_vertex_num and debug_draw_list_index_num return:   *)
(* both read vertices.num.                                                 *)
VertexNum == vertices.num
IndexNum == vertices.num

---------------------------------------------------------------------------
Vertex(v) ==
  /\ vertices.num < MaxNum
  /\ vertices' = WithVertex(vertices, v)
  /\ UNCHANGED indices

(* A caller names vertices by the indices it was given since the last      *)
(* clear.                                                                  *)
Line(i, j) ==
  /\ indices.num + 2 <= MaxNum
  /\ indices' = WithLine(indices, i, j)
  /\ UNCHANGED vertices

(* Mutant: the indices are kept.                                           *)
ClearVertices ==
  /\ vertices' = [vertices EXCEPT !.num = 0]
  /\ UNCHANGED indices

Clear ==
  /\ vertices' = [vertices EXCEPT !.num = 0]
  /\ indices' = [indices EXCEPT !.num = 0]

DrawListNext ==
  \/ \E v \in Vertices : Vertex(v)
  \/ \E i, j \in 0 .. vertices.num - 1 : Line(i, j)
  \/ Clear

DrawListSpec == DrawListInit /\ [][DrawListNext]_drawListVars

---------------------------------------------------------------------------
(* Every index the device will be given names a vertex of the list, after  *)
(* any sequence of fills, growths and clears.                              *)
IndicesInRange ==
  \A k \in 1 .. indices.num : indices.vals[k] \in 0 .. vertices.num - 1

(* One doubling is always enough for a line, even in an array of one       *)
(* element, because the array is never empty and lines fill it in pairs.   *)
RoomForLines ==
  /\ Len(vertices.vals) > 0
  /\ Len(indices.vals) > 0
  /\ \E n \in 0 .. indices.num : indices.num = 2 * n

(* The inductive invariant of debug_draw.c's arrays: they are typed, have  *)
(* room, and hold indices of vertices that are there.                      *)
DrawListInv == DrawListTypeOK /\ RoomForLines /\ IndicesInRange

Points == SubSeq(vertices.vals, 1, vertices.num)

LineAt(k) ==
  <<vertices.vals[indices.vals[2 * k - 1] + 1], vertices.vals[indices.vals[2 * k] + 1]>>

Lines == [k \in 1 .. indices.num \div 2 |-> LineAt(k)]

Promise == INSTANCE LineList WITH points <- Points, lines <- Lines

(* The two arrays keep the points and lines given since the last clear,    *)
(* unchanged by the growth of either array and by what earlier frames left *)
(* in them.                                                                *)
KeepsLines == Promise!Spec
=============================================================================
