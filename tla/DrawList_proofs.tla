--------------------------- MODULE DrawList_proofs ---------------------------
(***************************************************************************)
(* Proofs about the draw list, for any capacity, any vertices and any      *)
(* number of fills and clears.                                             *)
(***************************************************************************)
EXTENDS DrawList, SequenceTheorems, TLAPS

(* Doubling an array that is not empty makes room for what is at most      *)
(* twice its length, and keeps the elements it has.                        *)
LEMMA GrownFacts ==
  ASSUME NEW S, NEW array \in Array(S),
         NEW required \in Nat, required <= 2 * Len(array.vals)
  PROVE  LET g == Grown(array, required)
         IN  /\ g \in Array(S)
             /\ g.num = array.num
             /\ Len(g.vals) >= required
             /\ Len(g.vals) >= Len(array.vals)
             /\ \A k \in 1 .. Len(array.vals) : g.vals[k] = array.vals[k]
<1> DEFINE T == S \cup {Unset}
           old == array.vals
           blank == Blank(Len(old))
           g == Grown(array, required)
<1>1. /\ old \in Seq(T)
      /\ Len(old) \in Nat
      /\ array.num \in Nat
      /\ required \in Nat
      /\ required <= 2 * Len(old)
  BY LenProperties DEF Array
<1>2. blank \in Seq(T) /\ Len(blank) = Len(old)
  BY <1>1 DEF Blank
<1>3. /\ Len(old) < required => g = [array EXCEPT !.vals = old \o blank]
      /\ ~(Len(old) < required) => g = array
  BY DEF Grown
<1>4. array = [vals |-> old, num |-> array.num]
  BY DEF Array
<1> HIDE DEF T, old, blank, g
<1>5. /\ old \o blank \in Seq(T)
      /\ Len(old \o blank) = 2 * Len(old)
      /\ \A k \in 1 .. Len(old) : (old \o blank)[k] = old[k]
  <2>1. /\ old \o blank \in Seq(T)
        /\ Len(old \o blank) = Len(old) + Len(blank)
        /\ \A k \in 1 .. Len(old) + Len(blank) :
             (old \o blank)[k] = IF k <= Len(old) THEN old[k] ELSE blank[k - Len(old)]
    BY <1>1, <1>2, ConcatProperties
  <2> QED
    BY <1>1, <1>2, <2>1
<1>6. g.vals = (IF Len(old) < required THEN old \o blank ELSE old) /\ g.num = array.num
  <2>1. CASE Len(old) < required
    BY <1>3, <1>4, <2>1
  <2>2. CASE ~(Len(old) < required)
    BY <1>3, <1>4, <2>2
  <2> QED
    BY <2>1, <2>2
<1>7. g = [vals |-> g.vals, num |-> g.num]
  BY <1>3, <1>4
<1>8. g \in Array(S)
  BY <1>1, <1>5, <1>6, <1>7 DEF Array, T
<1>9. /\ Len(g.vals) >= required
      /\ Len(g.vals) >= Len(old)
      /\ \A k \in 1 .. Len(old) : g.vals[k] = old[k]
  BY <1>1, <1>5, <1>6
<1> QED
  BY <1>6, <1>8, <1>9 DEF g, old

(* debug_draw_list_vertex puts the vertex behind those there are.          *)
LEMMA WithVertexFacts ==
  ASSUME NEW S, NEW array \in Array(S), array.num <= Len(array.vals),
         Len(array.vals) > 0, NEW x \in S
  PROVE  LET a == WithVertex(array, x)
         IN  /\ a \in Array(S)
             /\ a.num = array.num + 1
             /\ a.num <= Len(a.vals)
             /\ a.vals[a.num] = x
             /\ \A k \in 1 .. array.num : a.vals[k] = array.vals[k]
<1> DEFINE g == Grown(array, array.num + 1)
           a == WithVertex(array, x)
<1>1. Len(array.vals) \in Nat /\ array.num \in Nat
  BY LenProperties DEF Array
<1>2. /\ g \in Array(S)
      /\ g.num = array.num
      /\ Len(g.vals) >= array.num + 1
      /\ \A k \in 1 .. Len(array.vals) : g.vals[k] = array.vals[k]
  BY <1>1, GrownFacts
<1>3. a = [vals |-> [g.vals EXCEPT ![array.num + 1] = x], num |-> array.num + 1]
  BY <1>2 DEF WithVertex
<1> HIDE DEF g
<1>4. g.vals \in Seq(S \cup {Unset}) /\ Len(g.vals) \in Nat
  BY <1>2, LenProperties DEF Array
<1>5. array.num + 1 \in 1 .. Len(g.vals) /\ x \in S \cup {Unset}
  BY <1>1, <1>2, <1>4
<1>6. /\ a.vals \in Seq(S \cup {Unset})
      /\ Len(a.vals) = Len(g.vals)
      /\ \A k \in 1 .. Len(g.vals) : a.vals[k] = IF k = array.num + 1 THEN x ELSE g.vals[k]
  BY <1>3, <1>4, <1>5, ExceptSeq
<1>7. a \in Array(S) /\ a.num = array.num + 1
  BY <1>1, <1>3, <1>6 DEF Array
<1> HIDE DEF a
<1>8. a.num <= Len(a.vals) /\ a.vals[a.num] = x
  BY <1>1, <1>2, <1>4, <1>5, <1>6, <1>7
<1>9. ASSUME NEW k \in 1 .. array.num PROVE a.vals[k] = array.vals[k]
  BY <1>1, <1>2, <1>4, <1>6
<1> QED
  BY <1>7, <1>8, <1>9 DEF a

(* debug_draw_list_line puts the two indices behind those there are.       *)
LEMMA WithLineFacts ==
  ASSUME NEW S, NEW array \in Array(S), array.num <= Len(array.vals),
         array.num + 2 <= 2 * Len(array.vals), NEW x \in S, NEW y \in S
  PROVE  LET a == WithLine(array, x, y)
         IN  /\ a \in Array(S)
             /\ a.num = array.num + 2
             /\ a.num <= Len(a.vals)
             /\ a.vals[array.num + 1] = x
             /\ a.vals[array.num + 2] = y
             /\ \A k \in 1 .. array.num : a.vals[k] = array.vals[k]
<1> DEFINE g == Grown(array, array.num + 2)
           h == [g.vals EXCEPT ![array.num + 1] = x]
           a == WithLine(array, x, y)
<1>1. Len(array.vals) \in Nat /\ array.num \in Nat
  BY LenProperties DEF Array
<1>2. /\ g \in Array(S)
      /\ g.num = array.num
      /\ Len(g.vals) >= array.num + 2
      /\ \A k \in 1 .. Len(array.vals) : g.vals[k] = array.vals[k]
  BY <1>1, GrownFacts
<1>3. a = [vals |-> [h EXCEPT ![array.num + 2] = y], num |-> array.num + 2]
  BY <1>2 DEF WithLine
<1> HIDE DEF g
<1>4. g.vals \in Seq(S \cup {Unset}) /\ Len(g.vals) \in Nat
  BY <1>2, LenProperties DEF Array
<1>5. /\ array.num + 1 \in 1 .. Len(g.vals)
      /\ array.num + 2 \in 1 .. Len(g.vals)
      /\ x \in S \cup {Unset}
      /\ y \in S \cup {Unset}
  BY <1>1, <1>2, <1>4
<1>6. /\ h \in Seq(S \cup {Unset})
      /\ Len(h) = Len(g.vals)
      /\ \A k \in 1 .. Len(g.vals) : h[k] = IF k = array.num + 1 THEN x ELSE g.vals[k]
  BY <1>4, <1>5, ExceptSeq
<1> HIDE DEF h
<1>7. /\ a.vals \in Seq(S \cup {Unset})
      /\ Len(a.vals) = Len(g.vals)
      /\ \A k \in 1 .. Len(g.vals) : a.vals[k] = IF k = array.num + 2 THEN y ELSE h[k]
  BY <1>3, <1>5, <1>6, ExceptSeq
<1>8. a \in Array(S) /\ a.num = array.num + 2
  BY <1>1, <1>3, <1>7 DEF Array
<1> HIDE DEF a
<1>9. /\ a.num <= Len(a.vals)
      /\ a.vals[array.num + 1] = x
      /\ a.vals[array.num + 2] = y
  BY <1>1, <1>2, <1>4, <1>5, <1>6, <1>7, <1>8
<1>10. ASSUME NEW k \in 1 .. array.num PROVE a.vals[k] = array.vals[k]
  <2>1. /\ k \in 1 .. Len(array.vals)
        /\ k \in 1 .. Len(g.vals)
        /\ k # array.num + 1
        /\ k # array.num + 2
    BY <1>1, <1>2, <1>4
  <2>2. a.vals[k] = h[k] /\ h[k] = g.vals[k] /\ g.vals[k] = array.vals[k]
    BY <1>2, <1>6, <1>7, <2>1
  <2> QED
    BY <2>2
<1> QED
  BY <1>8, <1>9, <1>10 DEF a

---------------------------------------------------------------------------
(* The invariant.                                                          *)

LEMMA InvInit == DrawListInit => DrawListInv
<1> SUFFICES ASSUME DrawListInit PROVE DrawListInv
  OBVIOUS
<1>1. Capacity \in Nat /\ Capacity > 0
  BY CapacityAssumption
<1>2. Blank(Capacity) \in Seq(Vertices \cup {Unset}) /\ Blank(Capacity) \in Seq(Nat \cup {Unset})
  BY <1>1 DEF Blank
<1>3. Len(Blank(Capacity)) = Capacity
  BY <1>1 DEF Blank
<1>4. vertices = [vals |-> Blank(Capacity), num |-> 0] /\ indices = vertices
  BY DEF DrawListInit, EmptyArray
<1>5. DrawListTypeOK
  BY <1>1, <1>2, <1>3, <1>4 DEF DrawListTypeOK, Array
<1>6. RoomForLines
  <2>1. indices.num = 2 * 0
    BY <1>4
  <2> QED
    BY <1>1, <1>3, <1>4, <2>1 DEF RoomForLines
<1>7. IndicesInRange
  BY <1>4 DEF IndicesInRange
<1> QED
  BY <1>5, <1>6, <1>7 DEF DrawListInv

(* What a vertex does to the arrays.                                       *)
LEMMA VertexStep ==
  ASSUME DrawListInv, NEW v \in Vertices, Vertex(v)
  PROVE  /\ vertices' \in Array(Vertices)
         /\ vertices'.num = vertices.num + 1
         /\ vertices'.num <= Len(vertices'.vals)
         /\ vertices'.vals[vertices.num + 1] = v
         /\ \A k \in 1 .. vertices.num : vertices'.vals[k] = vertices.vals[k]
         /\ indices' = indices
<1>1. /\ vertices \in Array(Vertices)
      /\ vertices.num <= Len(vertices.vals)
      /\ Len(vertices.vals) > 0
  BY DEF DrawListInv, DrawListTypeOK, RoomForLines
<1>2. vertices' = WithVertex(vertices, v) /\ indices' = indices
  BY DEF Vertex
<1>3. LET a == WithVertex(vertices, v)
      IN  /\ a \in Array(Vertices)
          /\ a.num = vertices.num + 1
          /\ a.num <= Len(a.vals)
          /\ a.vals[a.num] = v
          /\ \A k \in 1 .. vertices.num : a.vals[k] = vertices.vals[k]
  BY <1>1, WithVertexFacts
<1> QED
  BY <1>2, <1>3

(* What a line does to the arrays; one doubling makes room for it.         *)
LEMMA LineStep ==
  ASSUME DrawListInv, NEW i \in 0 .. vertices.num - 1, NEW j \in 0 .. vertices.num - 1,
         Line(i, j)
  PROVE  /\ indices' \in Array(Nat)
         /\ indices'.num = indices.num + 2
         /\ indices'.num <= Len(indices'.vals)
         /\ indices'.vals[indices.num + 1] = i
         /\ indices'.vals[indices.num + 2] = j
         /\ \A k \in 1 .. indices.num : indices'.vals[k] = indices.vals[k]
         /\ vertices' = vertices
<1>1. /\ indices \in Array(Nat)
      /\ indices.num <= Len(indices.vals)
      /\ Len(indices.vals) > 0
      /\ vertices.num \in Nat
      /\ indices.num \in Nat
      /\ Len(indices.vals) \in Nat
  BY LenProperties DEF DrawListInv, DrawListTypeOK, RoomForLines, Array
<1>2. indices.num + 2 <= 2 * Len(indices.vals)
  <2>1. PICK n \in 0 .. indices.num : indices.num = 2 * n
    BY DEF DrawListInv, RoomForLines
  <2> QED
    BY <1>1, <2>1
<1> DEFINE N == Nat
           a == WithLine(indices, i, j)
<1>3. i \in N /\ j \in N /\ indices \in Array(N)
  BY <1>1
<1>4. indices' = a /\ vertices' = vertices
  BY DEF Line
<1> HIDE DEF N
<1>5. /\ a \in Array(N)
      /\ a.num = indices.num + 2
      /\ a.num <= Len(a.vals)
      /\ a.vals[indices.num + 1] = i
      /\ a.vals[indices.num + 2] = j
      /\ \A k \in 1 .. indices.num : a.vals[k] = indices.vals[k]
  <2>1. /\ i \in N /\ j \in N /\ indices \in Array(N)
        /\ indices.num <= Len(indices.vals)
        /\ indices.num + 2 <= 2 * Len(indices.vals)
    BY <1>1, <1>2, <1>3
  <2> QED
    BY <2>1, WithLineFacts
<1> HIDE DEF a
<1> QED
  BY <1>4, <1>5 DEF N

(* What a clear does to the arrays.                                        *)
LEMMA ClearStep ==
  ASSUME DrawListInv, Clear
  PROVE  /\ vertices' \in Array(Vertices) /\ vertices'.num = 0
         /\ vertices'.vals = vertices.vals
         /\ indices' \in Array(Nat) /\ indices'.num = 0
         /\ indices'.vals = indices.vals
  BY DEF DrawListInv, DrawListTypeOK, Clear, Array

LEMMA InvNext == DrawListInv /\ [DrawListNext]_drawListVars => DrawListInv'
<1> SUFFICES ASSUME DrawListInv, [DrawListNext]_drawListVars
             PROVE  DrawListInv'
  OBVIOUS
<1>0. /\ vertices \in Array(Vertices) /\ indices \in Array(Nat)
      /\ vertices.num \in Nat /\ indices.num \in Nat
      /\ vertices.num <= Len(vertices.vals) /\ Len(vertices.vals) \in Nat
      /\ indices.num <= Len(indices.vals) /\ Len(indices.vals) \in Nat
      /\ Len(vertices.vals) > 0 /\ Len(indices.vals) > 0
  BY LenProperties DEF DrawListInv, DrawListTypeOK, RoomForLines, Array
<1>1. ASSUME NEW v \in Vertices, Vertex(v) PROVE DrawListInv'
  <2>1. DrawListTypeOK'
    BY <1>0, <1>1, VertexStep DEF DrawListTypeOK
  <2>2. RoomForLines'
    <3>1. Len(vertices'.vals) > 0
      <4>1. vertices'.num = vertices.num + 1 /\ vertices'.num <= Len(vertices'.vals)
        BY <1>1, VertexStep
      <4>2. Len(vertices'.vals) \in Nat
        BY <1>1, VertexStep, LenProperties DEF Array
      <4> QED
        BY <1>0, <4>1, <4>2
    <3> QED
      BY <1>1, <3>1, VertexStep DEF DrawListInv, RoomForLines
  <2>3. IndicesInRange'
    <3>1. vertices'.num = vertices.num + 1 /\ indices' = indices
      BY <1>1, VertexStep
    <3> QED
      BY <1>0, <3>1 DEF DrawListInv, IndicesInRange
  <2> QED
    BY <2>1, <2>2, <2>3 DEF DrawListInv
<1>2. ASSUME NEW i \in 0 .. vertices.num - 1, NEW j \in 0 .. vertices.num - 1, Line(i, j)
      PROVE  DrawListInv'
  <2>1. /\ indices' \in Array(Nat)
        /\ indices'.num = indices.num + 2
        /\ indices'.num <= Len(indices'.vals)
        /\ indices'.vals[indices.num + 1] = i
        /\ indices'.vals[indices.num + 2] = j
        /\ \A k \in 1 .. indices.num : indices'.vals[k] = indices.vals[k]
        /\ vertices' = vertices
    BY <1>2, LineStep
  <2>2. DrawListTypeOK'
    BY <1>0, <2>1 DEF DrawListTypeOK
  <2>3. RoomForLines'
    <3>1. Len(indices'.vals) \in Nat
      BY <2>1, LenProperties DEF Array
    <3>2. PICK n \in 0 .. indices.num : indices.num = 2 * n
      BY DEF DrawListInv, RoomForLines
    <3>3. indices'.num = 2 * (n + 1) /\ n + 1 \in 0 .. indices'.num
      BY <1>0, <2>1, <3>2
    <3>4. \E m \in 0 .. indices'.num : indices'.num = 2 * m
      BY <3>3
    <3>5. Len(indices'.vals) > 0
      BY <1>0, <2>1, <3>1
    <3>6. Len(vertices'.vals) > 0
      BY <2>1 DEF DrawListInv, RoomForLines
    <3> QED
      BY <3>4, <3>5, <3>6 DEF RoomForLines
  <2>4. IndicesInRange'
    <3> SUFFICES ASSUME NEW k \in 1 .. indices'.num
                 PROVE  indices'.vals[k] \in 0 .. vertices'.num - 1
      BY DEF IndicesInRange
    <3>1. k \in 1 .. indices.num \/ k = indices.num + 1 \/ k = indices.num + 2
      <4>1. indices.num \in Nat /\ indices'.num = indices.num + 2
        BY <1>0, <2>1
      <4> QED
        BY <4>1
    <3>2. ASSUME k \in 1 .. indices.num PROVE indices'.vals[k] \in 0 .. vertices'.num - 1
      BY <2>1, <3>2 DEF DrawListInv, IndicesInRange
    <3> QED
      BY <2>1, <3>1, <3>2
  <2> QED
    BY <2>2, <2>3, <2>4 DEF DrawListInv
<1>3. ASSUME Clear PROVE DrawListInv'
  <2>1. /\ vertices' \in Array(Vertices) /\ vertices'.num = 0
        /\ vertices'.vals = vertices.vals
        /\ indices' \in Array(Nat) /\ indices'.num = 0
        /\ indices'.vals = indices.vals
    BY <1>3, ClearStep
  <2>2. DrawListTypeOK'
    BY <1>0, <2>1 DEF DrawListTypeOK
  <2>3. RoomForLines'
    <3>1. indices'.num = 2 * 0
      BY <2>1
    <3> QED
      BY <1>0, <2>1, <3>1 DEF RoomForLines
  <2>4. IndicesInRange'
    BY <2>1 DEF IndicesInRange
  <2> QED
    BY <2>2, <2>3, <2>4 DEF DrawListInv
<1>4. ASSUME UNCHANGED drawListVars PROVE DrawListInv'
  BY <1>4 DEF DrawListInv, DrawListTypeOK, RoomForLines, IndicesInRange, drawListVars
<1> QED
  BY <1>1, <1>2, <1>3, <1>4 DEF DrawListNext

(* The arrays of debug_draw.c are typed, never need more than one doubling *)
(* and hold indices of vertices that are there, whatever the callers add.  *)
THEOREM ListInvariant == DrawListSpec => []DrawListInv
<1>1. DrawListInit => DrawListInv
  BY InvInit
<1>2. DrawListInv /\ [DrawListNext]_drawListVars => DrawListInv'
  BY InvNext
<1> QED
  BY <1>1, <1>2, PTL DEF DrawListSpec

(* Every index debug_pass_render writes names a vertex it writes.          *)
THEOREM IndicesValid == DrawListSpec => []IndicesInRange
<1>1. DrawListInv => IndicesInRange
  BY DEF DrawListInv
<1> QED
  BY <1>1, ListInvariant, PTL

---------------------------------------------------------------------------
(* The refinement of LineList.                                             *)

(* The elements in use are a sequence of their own.                        *)
LEMMA PrefixFacts ==
  ASSUME NEW S, NEW array \in Array(S), array.num <= Len(array.vals)
  PROVE  /\ SubSeq(array.vals, 1, array.num) \in Seq(S \cup {Unset})
         /\ Len(SubSeq(array.vals, 1, array.num)) = array.num
         /\ \A k \in 1 .. array.num : SubSeq(array.vals, 1, array.num)[k] = array.vals[k]
<1>1. /\ array.vals \in Seq(S \cup {Unset})
      /\ array.num \in Nat
      /\ Len(array.vals) \in Nat
  BY LenProperties DEF Array
<1>2. \A k \in 1 .. array.num : array.vals[k] \in S \cup {Unset}
  BY <1>1, ElementOfSeq
<1>3. /\ SubSeq(array.vals, 1, array.num) \in Seq(S \cup {Unset})
      /\ Len(SubSeq(array.vals, 1, array.num))
           = IF 1 <= array.num THEN array.num - 1 + 1 ELSE 0
      /\ \A k \in 1 .. array.num - 1 + 1 :
           SubSeq(array.vals, 1, array.num)[k] = array.vals[1 + k - 1]
  BY <1>1, <1>2, SubSeqProperties
<1> QED
  BY <1>1, <1>3

(* The points are the vertices below the count.                            *)
LEMMA PointsFacts ==
  ASSUME DrawListInv
  PROVE  /\ Points \in Seq(Vertices \cup {Unset})
         /\ Len(Points) = vertices.num
         /\ \A k \in 1 .. vertices.num : Points[k] = vertices.vals[k]
<1>1. vertices \in Array(Vertices) /\ vertices.num <= Len(vertices.vals)
  BY DEF DrawListInv, DrawListTypeOK
<1> QED
  BY <1>1, PrefixFacts DEF Points

(* Half of the indices is the number of lines, and both indices of a line  *)
(* lie below the count and name a vertex.                                  *)
LEMMA HalfFacts ==
  ASSUME DrawListInv
  PROVE  /\ indices.num \div 2 \in Nat
         /\ indices.num = 2 * (indices.num \div 2)
         /\ (indices.num + 2) \div 2 = indices.num \div 2 + 1
         /\ \A k \in 1 .. indices.num \div 2 :
              /\ 2 * k - 1 \in 1 .. indices.num
              /\ 2 * k \in 1 .. indices.num
              /\ indices.vals[2 * k - 1] \in 0 .. vertices.num - 1
              /\ indices.vals[2 * k] \in 0 .. vertices.num - 1
<1>1. PICK n \in Nat : indices.num = 2 * n
  <2>1. PICK n \in 0 .. indices.num : indices.num = 2 * n
    BY DEF DrawListInv, RoomForLines
  <2> QED
    BY <2>1
<1>2. indices.num \div 2 = n /\ (indices.num + 2) \div 2 = n + 1
  <2>1. (2 * n) \div 2 = n /\ (2 * n + 2) \div 2 = n + 1
    OBVIOUS
  <2> QED
    BY <1>1, <2>1
<1>3. \A k \in 1 .. n : 2 * k - 1 \in 1 .. indices.num /\ 2 * k \in 1 .. indices.num
  BY <1>1
<1>4. \A m \in 1 .. indices.num : indices.vals[m] \in 0 .. vertices.num - 1
  BY DEF DrawListInv, IndicesInRange
<1>5. \A k \in 1 .. n : /\ indices.vals[2 * k - 1] \in 0 .. vertices.num - 1
                        /\ indices.vals[2 * k] \in 0 .. vertices.num - 1
  BY <1>3, <1>4
<1> QED
  BY <1>1, <1>2, <1>3, <1>5

LEMMA InitImplements == DrawListInit => Promise!Init
<1> SUFFICES ASSUME DrawListInit PROVE Promise!Init
  OBVIOUS
<1>1. DrawListInv
  BY InvInit
<1>2. vertices.num = 0 /\ indices.num = 0
  BY DEF DrawListInit, EmptyArray
<1>3. Points = <<>>
  <2>1. Points \in Seq(Vertices \cup {Unset}) /\ Len(Points) = 0
    BY <1>1, <1>2, PointsFacts
  <2> QED
    BY <2>1, EmptySeq
<1>4. Lines = <<>>
  BY <1>2 DEF Lines
<1> QED
  BY <1>3, <1>4 DEF Promise!Init

(* A vertex is a point behind those there are; no line changes.            *)
LEMMA VertexImplements ==
  ASSUME DrawListInv, NEW v \in Vertices, Vertex(v)
  PROVE  Promise!AddPoint(v)
<1> DEFINE T == Vertices \cup {Unset}
           P == Points
           Q == Points'
<1>1. /\ vertices' \in Array(Vertices)
      /\ vertices'.num = vertices.num + 1
      /\ vertices'.num <= Len(vertices'.vals)
      /\ vertices'.vals[vertices.num + 1] = v
      /\ \A k \in 1 .. vertices.num : vertices'.vals[k] = vertices.vals[k]
      /\ indices' = indices
  BY VertexStep
<1>2. vertices.num \in Nat
  BY DEF DrawListInv, DrawListTypeOK, Array
<1>3. Q = Append(P, v)
  <2>1. /\ P \in Seq(T)
        /\ Len(P) = vertices.num
        /\ \A k \in 1 .. vertices.num : P[k] = vertices.vals[k]
    BY PointsFacts
  <2>2. /\ Q \in Seq(T)
        /\ Len(Q) = vertices'.num
        /\ \A k \in 1 .. vertices'.num : Q[k] = vertices'.vals[k]
    BY <1>1, PrefixFacts DEF Points
  <2>3. v \in T
    OBVIOUS
  <2> HIDE DEF P, Q, T
  <2>4. /\ Append(P, v) \in Seq(T)
        /\ Len(Append(P, v)) = Len(P) + 1
        /\ \A k \in 1 .. Len(P) : Append(P, v)[k] = P[k]
        /\ Append(P, v)[Len(P) + 1] = v
    BY <2>1, <2>3, AppendProperties
  <2>5. Len(Q) = Len(Append(P, v))
    BY <1>1, <2>1, <2>2, <2>4
  <2>6. ASSUME NEW k \in 1 .. Len(Q) PROVE Q[k] = Append(P, v)[k]
    <3>1. k \in 1 .. vertices.num \/ k = vertices.num + 1
      BY <1>1, <1>2, <2>2
    <3>2. ASSUME k \in 1 .. vertices.num PROVE Q[k] = Append(P, v)[k]
      <4>1. Append(P, v)[k] = vertices.vals[k]
        BY <2>1, <2>4, <3>2
      <4>2. Q[k] = vertices'.vals[k]
        BY <2>2
      <4> QED
        BY <1>1, <3>2, <4>1, <4>2
    <3>3. ASSUME k = vertices.num + 1 PROVE Q[k] = Append(P, v)[k]
      BY <1>1, <2>1, <2>2, <2>4, <3>3
    <3> QED
      BY <3>1, <3>2, <3>3
  <2> QED
    BY <2>2, <2>4, <2>5, <2>6, SeqEqual
<1>4. Lines' = Lines
  <2>1. ASSUME NEW k \in 1 .. indices.num \div 2
        PROVE  LineAt(k)' = LineAt(k)
    <3>1. /\ indices.vals[2 * k - 1] + 1 \in 1 .. vertices.num
          /\ indices.vals[2 * k] + 1 \in 1 .. vertices.num
      BY <1>2, HalfFacts
    <3> QED
      BY <1>1, <3>1 DEF LineAt
  <2> QED
    BY <1>1, <2>1 DEF Lines
<1> QED
  BY <1>3, <1>4 DEF Promise!AddPoint

(* Two indices are a line behind those there are, between the points they  *)
(* name; no point changes.                                                 *)
LEMMA LineImplements ==
  ASSUME DrawListInv, NEW i \in 0 .. vertices.num - 1, NEW j \in 0 .. vertices.num - 1,
         Line(i, j)
  PROVE  Promise!AddLine(i, j)
<1> DEFINE T == Vertices \cup {Unset}
           D == T \X T
           e == <<Points[i + 1], Points[j + 1]>>
           L == Lines
           M == Lines'
<1>1. /\ indices'.num = indices.num + 2
      /\ indices'.vals[indices.num + 1] = i
      /\ indices'.vals[indices.num + 2] = j
      /\ \A k \in 1 .. indices.num : indices'.vals[k] = indices.vals[k]
      /\ vertices' = vertices
  BY LineStep
<1>2. /\ vertices.num \in Nat
      /\ indices.num \in Nat
      /\ vertices.vals \in Seq(T)
      /\ vertices.num <= Len(vertices.vals)
      /\ Len(vertices.vals) \in Nat
  BY LenProperties DEF DrawListInv, DrawListTypeOK, Array
<1>3. \A k \in 0 .. vertices.num - 1 : vertices.vals[k + 1] \in T
  BY <1>2, ElementOfSeq
<1>4. PICK n \in Nat : /\ indices.num = 2 * n
                      /\ indices.num \div 2 = n
                      /\ indices'.num \div 2 = n + 1
  BY <1>1, HalfFacts
<1>5. e = <<vertices.vals[i + 1], vertices.vals[j + 1]>> /\ e \in D
  <2>1. Points[i + 1] = vertices.vals[i + 1] /\ Points[j + 1] = vertices.vals[j + 1]
    BY <1>2, PointsFacts
  <2> QED
    BY <1>3, <2>1
<1>6. /\ L \in Seq(D)
      /\ Len(L) = n
      /\ \A k \in 1 .. n : L[k] = LineAt(k)
  <2>1. \A k \in 1 .. n : LineAt(k) \in D
    BY <1>3, <1>4, HalfFacts DEF LineAt
  <2>2. L = [k \in 1 .. n |-> LineAt(k)]
    BY <1>4 DEF Lines
  <2> HIDE DEF L, D
  <2> QED
    BY <1>4, <2>1, <2>2
<1>7. /\ M = [k \in 1 .. n + 1 |-> LineAt(k)']
      /\ \A k \in 1 .. n : LineAt(k)' = LineAt(k)
      /\ LineAt(n + 1)' = e
  <2>1. M = [k \in 1 .. n + 1 |-> LineAt(k)']
    BY <1>4 DEF Lines
  <2>2. ASSUME NEW k \in 1 .. n PROVE LineAt(k)' = LineAt(k)
    <3>1. 2 * k - 1 \in 1 .. indices.num /\ 2 * k \in 1 .. indices.num
      BY <1>4
    <3> QED
      BY <1>1, <3>1 DEF LineAt
  <2>3. LineAt(n + 1)' = e
    <3>1. 2 * (n + 1) - 1 = indices.num + 1 /\ 2 * (n + 1) = indices.num + 2
      BY <1>4
    <3>2. LineAt(n + 1)'
            = <<vertices'.vals[indices'.vals[2 * (n + 1) - 1] + 1],
                vertices'.vals[indices'.vals[2 * (n + 1)] + 1]>>
      BY DEF LineAt
    <3> QED
      BY <1>1, <1>5, <3>1, <3>2
  <2> QED
    BY <2>1, <2>2, <2>3
<1>8. M = Append(L, e)
  <2> HIDE DEF L, M, D, e
  <2>1. /\ Append(L, e) \in Seq(D)
        /\ Len(Append(L, e)) = n + 1
        /\ \A k \in 1 .. n : Append(L, e)[k] = L[k]
        /\ Append(L, e)[n + 1] = e
    BY <1>5, <1>6, AppendProperties
  <2>2. \A k \in 1 .. n : L[k] \in D
    BY <1>6, ElementOfSeq
  <2>3. \A k \in 1 .. n + 1 : M[k] = Append(L, e)[k]
    <3> SUFFICES ASSUME NEW k \in 1 .. n + 1 PROVE M[k] = Append(L, e)[k]
      OBVIOUS
    <3>1. k \in 1 .. n \/ k = n + 1
      BY <1>4
    <3> QED
      BY <1>6, <1>7, <2>1, <3>1
  <2>4. \A k \in 1 .. n + 1 : Append(L, e)[k] \in D
    BY <2>1, <1>4, ElementOfSeq
  <2>5. M \in Seq(D) /\ Len(M) = n + 1
    BY <1>4, <1>7, <2>3, <2>4
  <2> QED
    BY <2>1, <2>3, <2>5, SeqEqual
<1>9. Points' = Points
  BY <1>1 DEF Points
<1> QED
  BY <1>8, <1>9 DEF Promise!AddLine

(* A clear leaves no points and no lines.                                  *)
LEMMA ClearImplements ==
  ASSUME DrawListInv, Clear
  PROVE  Promise!Clear
<1>1. /\ vertices' \in Array(Vertices) /\ vertices'.num = 0
      /\ vertices'.vals = vertices.vals
      /\ indices'.num = 0
  BY ClearStep
<1>2. Points' = <<>>
  <2>1. Len(vertices'.vals) \in Nat
    BY <1>1, LenProperties DEF Array
  <2>2. SubSeq(vertices'.vals, 1, 0) = <<>>
    BY SubSeqEmpty
  <2> QED
    BY <1>1, <2>2 DEF Points
<1>3. Lines' = <<>>
  BY <1>1 DEF Lines
<1> QED
  BY <1>2, <1>3 DEF Promise!Clear

(* debug_draw.c implements the list of lines: what is read back from the   *)
(* two arrays is what was added since the last clear, whatever grew and    *)
(* whatever earlier frames left behind.                                    *)
THEOREM ListImplemented == DrawListSpec => KeepsLines
<1>1. DrawListInit => Promise!Init
  BY InitImplements
<1>2. DrawListInv /\ [DrawListNext]_drawListVars => [Promise!Next]_<<Points, Lines>>
  <2> SUFFICES ASSUME DrawListInv, [DrawListNext]_drawListVars
               PROVE  [Promise!Next]_<<Points, Lines>>
    OBVIOUS
  <2>1. ASSUME NEW v \in Vertices, Vertex(v) PROVE Promise!Next
    BY <2>1, VertexImplements DEF Promise!Next
  <2>2. ASSUME NEW i \in 0 .. vertices.num - 1, NEW j \in 0 .. vertices.num - 1, Line(i, j)
        PROVE  Promise!Next
    <3>1. Len(Points) = vertices.num
      BY PointsFacts
    <3> QED
      BY <2>2, <3>1, LineImplements DEF Promise!Next
  <2>3. ASSUME Clear PROVE Promise!Next
    BY <2>3, ClearImplements DEF Promise!Next
  <2>4. ASSUME UNCHANGED drawListVars PROVE UNCHANGED <<Points, Lines>>
    BY <2>4 DEF drawListVars, Points, Lines, LineAt
  <2> QED
    BY <2>1, <2>2, <2>3, <2>4 DEF DrawListNext
<1>3. UNCHANGED <<Points, Lines>> <=> UNCHANGED Promise!vars
  BY DEF Promise!vars
<1>4. DrawListInv /\ [DrawListNext]_drawListVars => [Promise!Next]_(Promise!vars)
  BY <1>2, <1>3
<1> QED
  BY <1>1, <1>4, ListInvariant, PTL DEF DrawListSpec, KeepsLines, Promise!Spec
=============================================================================
