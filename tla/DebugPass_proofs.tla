--------------------------- MODULE DebugPass_proofs ---------------------------
(***************************************************************************)
(* Proofs about the debug pass, for any number of slots and viewports, any *)
(* sizes of elements and buffers, and whatever growth or map fails: the    *)
(* device draws the lines that were given from the buffers they were       *)
(* written to.                                                             *)
(***************************************************************************)
EXTENDS DebugPass, DrawList_proofs

---------------------------------------------------------------------------
(* The parts.                                                              *)

(* gpu_vector_reserve, whatever it answers: a vector that has grown holds  *)
(* nothing.                                                                *)
LEMMA ReserveFacts ==
  ASSUME NEW S, NEW vec, IsVector(vec, S), NEW required \in Nat,
         NEW result \in VectorResults
  PROVE  /\ IsVector(Reserve(vec, required, result), S)
         /\ ~Fits(vec, required) => ~Reserve(vec, required, result).written
<1> DEFINE new == [size    |-> GrownSize(vec.size, required),
                   made    |-> IF result = "no_buffer" THEN vec.made ELSE vec.made + 1,
                   state   |-> IF Stale(vec) THEN "undefined"
                               ELSE IF result = "unmapped" THEN "ok" ELSE result,
                   written |-> FALSE,
                   data    |-> <<>>]
<1>1. new.state \in States
  BY VectorResultsAssumption DEF States
<1>2. new.made \in Nat /\ new.data \in Seq(S) /\ new.written = FALSE
  BY DEF IsVector
<1>3. IsVector(new, S)
  BY <1>1, <1>2 DEF IsVector
<1>4. Reserve(vec, required, result) = IF Fits(vec, required) THEN vec ELSE new
  BY DEF Reserve
<1> HIDE DEF new
<1> QED
  BY <1>2, <1>3, <1>4

(* gpu_vector_write: what it was given is there when it has returned 0 and *)
(* there is memory, and it leaves the vector alone when there is nothing   *)
(* to write.                                                               *)
LEMMA WriteFacts ==
  ASSUME NEW S, NEW vec, IsVector(vec, S), NEW src \in Seq(S),
         NEW elementSize \in Nat, NEW result \in VectorResults
  PROVE  LET w == Write(vec, src, elementSize, result)
         IN  /\ IsVector(w, S)
             /\ Len(src) = 0 => w = vec
             /\ Len(src) # 0 /\ HoldsWrite(w) => w.data = src
<1> DEFINE required == elementSize * Len(src)
           grown == Reserve(vec, required, result)
           growthFails == ~Fits(vec, required) /\ result \notin {"ok", "unmapped"}
           w == Write(vec, src, elementSize, result)
<1>1. required \in Nat
  OBVIOUS
<1> HIDE DEF required
<1>2. IsVector(grown, S) /\ (growthFails => ~grown.written)
  BY <1>1, ReserveFacts
<1>3. w = IF Len(src) = 0 THEN vec
          ELSE IF growthFails THEN grown
          ELSE IF Stale(grown) THEN [grown EXCEPT !.state = "undefined", !.written = FALSE]
          ELSE IF result = "unmapped" THEN [grown EXCEPT !.written = FALSE]
          ELSE Copied(grown, src)
  BY DEF Write, required
<1> HIDE DEF grown, growthFails, w
<1>4. CASE Len(src) = 0
  BY <1>3, <1>4 DEF w
<1>5. CASE Len(src) # 0 /\ growthFails
  BY <1>2, <1>3, <1>5 DEF w, HoldsWrite
<1>6. CASE Len(src) # 0 /\ ~growthFails
  <2>1. /\ "undefined" \in States
        /\ grown = [size    |-> grown.size,
                    made    |-> grown.made,
                    state   |-> grown.state,
                    written |-> grown.written,
                    data    |-> grown.data]
        /\ grown.made \in Nat /\ grown.state \in States /\ grown.data \in Seq(S)
    BY <1>2 DEF IsVector, States
  <2>2. CASE Stale(grown)
    <3>1. w = [grown EXCEPT !.state = "undefined", !.written = FALSE]
      BY <1>3, <1>6, <2>2
    <3>2. w = [size |-> grown.size, made |-> grown.made, state |-> "undefined",
               written |-> FALSE, data |-> grown.data]
      BY <2>1, <3>1
    <3>3. IsVector(w, S) /\ ~HoldsWrite(w)
      BY <2>1, <3>2 DEF IsVector, HoldsWrite
    <3> QED
      BY <1>6, <3>3 DEF w
  <2>3. CASE ~Stale(grown) /\ result = "unmapped"
    <3>1. w = [grown EXCEPT !.written = FALSE]
      BY <1>3, <1>6, <2>3
    <3>2. w = [size |-> grown.size, made |-> grown.made, state |-> grown.state,
               written |-> FALSE, data |-> grown.data]
      BY <2>1, <3>1
    <3>3. IsVector(w, S) /\ ~HoldsWrite(w)
      BY <2>1, <3>2 DEF IsVector, HoldsWrite
    <3> QED
      BY <1>6, <3>3 DEF w
  <2>4. CASE ~Stale(grown) /\ result # "unmapped"
    <3>1. w = [grown EXCEPT !.written = TRUE, !.data = src]
      BY <1>3, <1>6, <2>4 DEF Copied
    <3>2. w = [size |-> grown.size, made |-> grown.made, state |-> grown.state,
               written |-> TRUE, data |-> src]
      BY <2>1, <3>1
    <3>3. IsVector(w, S) /\ w.data = src
      BY <2>1, <3>2 DEF IsVector
    <3> QED
      BY <1>6, <3>3 DEF w
  <2> QED
    BY <2>2, <2>3, <2>4
<1> QED
  BY <1>4, <1>5, <1>6

LEMMA SuccessorType ==
  ASSUME NEW f \in Frames
  PROVE  Successor(f) \in Frames
BY SlotNumAssumption DEF Successor, Frames

---------------------------------------------------------------------------
(* The list.                                                               *)

(* What a segment does to the arrays.                                      *)
LEMMA SegmentStep ==
  ASSUME ListHoldsGiven, NEW v \in Vertices, NEW w \in Vertices, DrawSegment(v, w)
  PROVE  LET n == 2 * Len(given)
         IN  /\ n \in Nat
             /\ vertices' \in Array(Vertices) /\ vertices'.num = n + 2
             /\ vertices'.num <= Len(vertices'.vals)
             /\ vertices'.vals[n + 1] = v /\ vertices'.vals[n + 2] = w
             /\ \A k \in 1 .. n : vertices'.vals[k] = vertices.vals[k]
             /\ indices' \in Array(Nat) /\ indices'.num = n + 2
             /\ indices'.num <= Len(indices'.vals)
             /\ indices'.vals[n + 1] = n /\ indices'.vals[n + 2] = n + 1
             /\ \A k \in 1 .. n : indices'.vals[k] = indices.vals[k]
<1> DEFINE n == 2 * Len(given)
           a == WithVertex(vertices, v)
           b == WithVertex(a, w)
           N == Nat
           c == WithLine(indices, n, n + 1)
<1>1. /\ vertices \in Array(Vertices) /\ indices \in Array(N)
      /\ vertices.num = n /\ indices.num = n /\ n \in N
      /\ vertices.num <= Len(vertices.vals) /\ Len(vertices.vals) > 0
      /\ indices.num <= Len(indices.vals) /\ Len(indices.vals) > 0
      /\ Len(indices.vals) \in Nat
  BY LenProperties
  DEF ListHoldsGiven, DrawListInv, DrawListTypeOK, RoomForLines, SegmentLists, Array
<1>2. vertices' = b /\ indices' = c
  BY <1>1 DEF DrawSegment
<1>3. indices.num + 2 <= 2 * Len(indices.vals)
  <2>1. PICK k \in 0 .. indices.num : indices.num = 2 * k
    BY DEF ListHoldsGiven, DrawListInv, RoomForLines
  <2> QED
    BY <1>1, <2>1
<1>4. n + 1 \in N
  BY <1>1
<1> HIDE DEF n, N
<1>5. /\ a \in Array(Vertices) /\ a.num = n + 1 /\ a.num <= Len(a.vals)
      /\ a.vals[a.num] = v /\ \A k \in 1 .. n : a.vals[k] = vertices.vals[k]
  BY <1>1, WithVertexFacts
<1> HIDE DEF a
<1>6. Len(a.vals) > 0 /\ a.num \in Nat
  BY <1>1, <1>5, LenProperties DEF Array, N
<1>7. /\ b \in Array(Vertices) /\ b.num = a.num + 1 /\ b.num <= Len(b.vals)
      /\ b.vals[b.num] = w /\ \A k \in 1 .. a.num : b.vals[k] = a.vals[k]
  BY <1>5, <1>6, WithVertexFacts
<1> HIDE DEF b
<1>8. /\ c \in Array(N) /\ c.num = indices.num + 2 /\ c.num <= Len(c.vals)
      /\ c.vals[indices.num + 1] = n /\ c.vals[indices.num + 2] = n + 1
      /\ \A k \in 1 .. indices.num : c.vals[k] = indices.vals[k]
  BY <1>1, <1>3, <1>4, WithLineFacts
<1> HIDE DEF c
<1>9. n \in Nat /\ n + 1 + 1 = n + 2 /\ n + 1 \in 1 .. n + 1
      /\ \A k \in 1 .. n : k \in 1 .. n + 1
  BY <1>1 DEF N
<1>10. /\ b.num = n + 2 /\ b.vals[n + 1] = v /\ b.vals[n + 2] = w
       /\ \A k \in 1 .. n : b.vals[k] = vertices.vals[k]
  BY <1>5, <1>7, <1>9
<1> QED
  BY <1>1, <1>2, <1>7, <1>8, <1>9, <1>10 DEF n, N

LEMMA ListDrawSegment ==
  ASSUME ListHoldsGiven, NEW v \in Vertices, NEW w \in Vertices, DrawSegment(v, w)
  PROVE  ListHoldsGiven'
<1> DEFINE n == 2 * Len(given)
<1>1. /\ n \in Nat
      /\ vertices' \in Array(Vertices) /\ vertices'.num = n + 2
      /\ vertices'.num <= Len(vertices'.vals)
      /\ vertices'.vals[n + 1] = v /\ vertices'.vals[n + 2] = w
      /\ \A k \in 1 .. n : vertices'.vals[k] = vertices.vals[k]
      /\ indices' \in Array(Nat) /\ indices'.num = n + 2
      /\ indices'.num <= Len(indices'.vals)
      /\ indices'.vals[n + 1] = n /\ indices'.vals[n + 2] = n + 1
      /\ \A k \in 1 .. n : indices'.vals[k] = indices.vals[k]
  BY SegmentStep
<1>2. /\ given' \in SegmentLists /\ Len(given) \in Nat /\ Len(given') = Len(given) + 1
      /\ given'[Len(given) + 1] = <<v, w>>
      /\ \A k \in 1 .. Len(given) : given'[k] = given[k]
  BY DEF ListHoldsGiven, SegmentLists, DrawSegment
<1>3. 2 * Len(given') = n + 2
  BY <1>2
<1>4. \A k \in 1 .. n + 2 : indices'.vals[k] = k - 1
  <2> SUFFICES ASSUME NEW k \in 1 .. n + 2 PROVE indices'.vals[k] = k - 1
    OBVIOUS
  <2>1. CASE k \in 1 .. n
    BY <1>1, <2>1 DEF ListHoldsGiven, Holds
  <2>2. CASE k = n + 1 \/ k = n + 2
    BY <1>1, <2>2
  <2> QED
    BY <1>1, <2>1, <2>2
<1>5. ASSUME NEW k \in 1 .. Len(given')
      PROVE  given'[k] = <<vertices'.vals[2 * k - 1], vertices'.vals[2 * k]>>
  <2>1. CASE k \in 1 .. Len(given)
    <3>1. 2 * k - 1 \in 1 .. n /\ 2 * k \in 1 .. n
      BY <1>2, <2>1
    <3> HIDE DEF n
    <3> QED
      BY <1>1, <1>2, <2>1, <3>1 DEF ListHoldsGiven, Holds
  <2>2. CASE k = Len(given) + 1
    <3>1. 2 * k - 1 = n + 1 /\ 2 * k = n + 2
      BY <1>2, <2>2
    <3> HIDE DEF n
    <3> QED
      BY <1>1, <1>2, <2>2, <3>1
  <2> QED
    BY <1>2, <2>1, <2>2
<1> HIDE DEF n
<1>6. DrawListTypeOK'
  BY <1>1 DEF DrawListTypeOK
<1>7. RoomForLines'
  <2>1. Len(vertices'.vals) > 0 /\ Len(indices'.vals) > 0
    BY <1>1, LenProperties DEF Array
  <2>2. Len(given') \in 0 .. indices'.num /\ indices'.num = 2 * Len(given')
    BY <1>1, <1>2, <1>3
  <2> QED
    BY <2>1, <2>2 DEF RoomForLines
<1>8. IndicesInRange'
  BY <1>1, <1>4 DEF IndicesInRange
<1>9. Holds(vertices'.vals, indices'.vals, given')
  BY <1>3, <1>4, <1>5 DEF Holds
<1> QED
  BY <1>1, <1>2, <1>3, <1>6, <1>7, <1>8, <1>9 DEF ListHoldsGiven, DrawListInv

LEMMA ListCleared ==
  ASSUME ListHoldsGiven, Clear, given' = <<>>
  PROVE  ListHoldsGiven'
<1>1. DrawListInv'
  BY InvNext DEF ListHoldsGiven, DrawListNext
<1>2. vertices'.num = 0 /\ indices'.num = 0
  BY ClearStep DEF ListHoldsGiven
<1>3. given' \in SegmentLists /\ Len(given') = 0
  BY DEF SegmentLists
<1>4. Holds(vertices'.vals, indices'.vals, given')
  BY <1>3 DEF Holds
<1> QED
  BY <1>1, <1>2, <1>3, <1>4 DEF ListHoldsGiven

LEMMA ListUnchanged ==
  ASSUME ListHoldsGiven, UNCHANGED <<vertices, indices, given>>
  PROVE  ListHoldsGiven'
BY DEF ListHoldsGiven, DrawListInv, DrawListTypeOK, RoomForLines, IndicesInRange, Holds

---------------------------------------------------------------------------
(* The slots.                                                              *)

LEMMA SlotUnchanged ==
  ASSUME NEW f \in Frames, SlotRecorded(f),
         vertexBuf'[f] = vertexBuf[f], indexBuf'[f] = indexBuf[f],
         commands'[f] = commands[f], intended'[f] = intended[f]
  PROVE  SlotRecorded(f)'
BY DEF SlotRecorded, BuffersHold, BuffersWritten

LEMMA PassInvInit == PassInit => PassInv
<1> SUFFICES ASSUME PassInit PROVE PassInv
  OBVIOUS
<1>1. DrawListInv
  BY InvInit DEF PassInit
<1>2. given = <<>> /\ vertices.num = 0 /\ indices.num = 0
  BY DEF PassInit, DrawListInit, EmptyArray
<1>3. given \in SegmentLists /\ Len(given) = 0
  BY <1>2 DEF SegmentLists
<1>4. ListHoldsGiven
  BY <1>1, <1>2, <1>3 DEF ListHoldsGiven, Holds
<1>5. last \in Frames /\ owner = [f \in Frames |-> "free"]
  BY SlotNumAssumption DEF PassInit, Init, Frames
<1>6. IsVector(NewVector, Vertices \cup {Unset}) /\ IsVector(NewVector, Nat \cup {Unset})
  BY DEF IsVector, NewVector, States
<1>7. SlotsTyped
  BY <1>5, <1>6 DEF SlotsTyped, PassInit, SegmentLists
<1> QED
  BY <1>4, <1>5, <1>7 DEF PassInv, EmptyOnceRendered

LEMMA InvDrawSegment ==
  ASSUME PassInv, NEW v \in Vertices, NEW w \in Vertices, DrawSegment(v, w)
  PROVE  PassInv'
<1>1. ListHoldsGiven'
  BY ListDrawSegment DEF PassInv
<1>2. UNCHANGED <<owner, last, vertexBuf, indexBuf, commands, intended>>
  BY DEF DrawSegment
<1>3. SlotsTyped'
  BY <1>2 DEF PassInv, SlotsTyped
<1>4. EmptyOnceRendered'
  BY <1>2 DEF PassInv, SlotsTyped, EmptyOnceRendered, DrawSegment
<1>5. \A f \in Frames : owner'[f] # "free" => SlotRecorded(f)'
  BY <1>2, SlotUnchanged DEF PassInv
<1> QED
  BY <1>1, <1>3, <1>4, <1>5 DEF PassInv

LEMMA InvTakeSlot ==
  ASSUME PassInv, TakeSlot
  PROVE  PassInv'
<1> DEFINE g == Successor(last)
<1>1. g \in Frames
  BY SuccessorType DEF PassInv, SlotsTyped
<1> HIDE DEF g
<1>2. /\ \A f \in Frames : owner[f] # "host"
      /\ owner' = [owner EXCEPT ![g] = "host"] /\ last' = g
      /\ commands' = [commands EXCEPT ![g] = <<>>]
      /\ intended' = [intended EXCEPT ![g] = <<>>]
      /\ UNCHANGED <<vertices, indices, vertexBuf, indexBuf, given>>
  BY DEF TakeSlot, Take, g
<1>3. ListHoldsGiven'
  BY <1>2, ListUnchanged DEF PassInv
<1>4. SlotsTyped'
  <2>1. <<>> \in Seq([vertices : Nat, indices : Nat, num : Nat]) /\ <<>> \in SegmentLists
    BY DEF SegmentLists
  <2> QED
    BY <1>1, <1>2, <2>1 DEF PassInv, SlotsTyped
<1>5. commands'[g] = <<>> /\ intended'[g] = <<>>
  BY <1>1, <1>2 DEF PassInv, SlotsTyped
<1>6. EmptyOnceRendered'
  BY <1>2, <1>5 DEF EmptyOnceRendered
<1>7. ASSUME NEW f \in Frames, owner'[f] # "free"
      PROVE  SlotRecorded(f)'
  <2>1. CASE f = g
    BY <1>5, <2>1 DEF SlotRecorded
  <2>2. CASE f # g
    BY <1>2, <1>7, <2>2, SlotUnchanged DEF PassInv, SlotsTyped
  <2> QED
    BY <2>1, <2>2
<1> QED
  BY <1>3, <1>4, <1>6, <1>7 DEF PassInv

(* What a render leaves in the slot that the host owns.                    *)
LEMMA RenderStep ==
  ASSUME PassInv, \E r, s \in VectorResults : Render(r, s), NEW f \in Frames, f = last
  PROVE  \E vb, ib :
      /\ IsVector(vb, Vertices \cup {Unset}) /\ IsVector(ib, Nat \cup {Unset})
      /\ given = <<>> => vb = vertexBuf[f] /\ ib = indexBuf[f]
      /\ given # <<>> /\ HoldsWrite(vb) /\ HoldsWrite(ib) =>
           /\ 2 * Len(given) <= Len(vb.data) /\ 2 * Len(given) <= Len(ib.data)
           /\ Holds(vb.data, ib.data, given)
      /\ vertexBuf' = [vertexBuf EXCEPT ![f] = vb]
      /\ indexBuf' = [indexBuf EXCEPT ![f] = ib]
      /\ commands' = [commands EXCEPT ![f] = Append(@,
           [vertices |-> vb.made, indices |-> ib.made, num |-> 2 * Len(given)])]
      /\ intended' = [intended EXCEPT ![f] = @ \o given]
      /\ UNCHANGED <<owner, last>>
<1> PICK r \in VectorResults, s \in VectorResults : Render(r, s)
  OBVIOUS
<1> DEFINE n == 2 * Len(given)
           vsrc == SubSeq(vertices.vals, 1, VertexNum)
           isrc == SubSeq(indices.vals, 1, IndexNum)
           vb == Write(vertexBuf[f], vsrc, VertexSize, r)
           ib == Write(indexBuf[f], isrc, IndexSize, s)
<1>1. /\ Len(given) \in Nat /\ n \in Nat
      /\ vertices \in Array(Vertices) /\ vertices.num <= Len(vertices.vals)
      /\ indices \in Array(Nat) /\ indices.num <= Len(indices.vals)
      /\ VertexNum = n /\ IndexNum = n /\ vertices.num = n /\ indices.num = n
  BY DEF PassInv, ListHoldsGiven, DrawListInv, DrawListTypeOK, SegmentLists, VertexNum, IndexNum
<1> HIDE DEF n
<1>2. /\ vsrc \in Seq(Vertices \cup {Unset}) /\ Len(vsrc) = n
      /\ \A k \in 1 .. n : vsrc[k] = vertices.vals[k]
  <2>1. vsrc = SubSeq(vertices.vals, 1, vertices.num)
    BY <1>1
  <2> HIDE DEF vsrc
  <2> QED
    BY <1>1, <2>1, PrefixFacts
<1>3. /\ isrc \in Seq(Nat \cup {Unset}) /\ Len(isrc) = n
      /\ \A k \in 1 .. n : isrc[k] = indices.vals[k]
  <2>1. isrc = SubSeq(indices.vals, 1, indices.num)
    BY <1>1
  <2> HIDE DEF isrc
  <2> QED
    BY <1>1, <2>1, PrefixFacts
<1> HIDE DEF vsrc, isrc
<1>4. /\ IsVector(vertexBuf[f], Vertices \cup {Unset}) /\ IsVector(indexBuf[f], Nat \cup {Unset})
      /\ VertexSize \in Nat /\ IndexSize \in Nat
  BY ElementSizeAssumption DEF PassInv, SlotsTyped
<1>5. /\ IsVector(vb, Vertices \cup {Unset})
      /\ n = 0 => vb = vertexBuf[f]
      /\ n # 0 /\ HoldsWrite(vb) => vb.data = vsrc
  BY <1>1, <1>2, <1>4, WriteFacts DEF vb
<1>6. /\ IsVector(ib, Nat \cup {Unset})
      /\ n = 0 => ib = indexBuf[f]
      /\ n # 0 /\ HoldsWrite(ib) => ib.data = isrc
  BY <1>1, <1>3, <1>4, WriteFacts DEF ib
<1>7. /\ vertexBuf' = [vertexBuf EXCEPT ![f] = vb]
      /\ indexBuf' = [indexBuf EXCEPT ![f] = ib]
      /\ commands' = [commands EXCEPT ![f] = Append(@,
           [vertices |-> vertexBuf'[f].made, indices |-> indexBuf'[f].made, num |-> n])]
      /\ intended' = [intended EXCEPT ![f] = @ \o given]
      /\ UNCHANGED <<owner, last>>
  BY <1>1 DEF Render, vsrc, isrc
<1> HIDE DEF vb, ib
<1>8. vertexBuf'[f] = vb /\ indexBuf'[f] = ib
  BY <1>7 DEF PassInv, SlotsTyped
<1>9. ASSUME n # 0, HoldsWrite(vb), HoldsWrite(ib)
      PROVE  Holds(vb.data, ib.data, given)
  <2>1. \A k \in 1 .. 2 * Len(given) : ib.data[k] = k - 1
    BY <1>1, <1>3, <1>6, <1>9 DEF PassInv, ListHoldsGiven, Holds, n
  <2>2. ASSUME NEW k \in 1 .. Len(given)
        PROVE  given[k] = <<vb.data[2 * k - 1], vb.data[2 * k]>>
    <3>1. 2 * k - 1 \in 1 .. n /\ 2 * k \in 1 .. n
      BY <1>1 DEF n
    <3>2. given[k] = <<vertices.vals[2 * k - 1], vertices.vals[2 * k]>>
      BY DEF PassInv, ListHoldsGiven, Holds
    <3> QED
      BY <1>2, <1>5, <1>9, <3>1, <3>2
  <2> QED
    BY <2>1, <2>2 DEF Holds
<1>10. given = <<>> <=> n = 0
  BY <1>1 DEF PassInv, ListHoldsGiven, SegmentLists, n
<1>11. ASSUME given # <<>>, HoldsWrite(vb), HoldsWrite(ib)
       PROVE  n <= Len(vb.data) /\ n <= Len(ib.data)
  BY <1>1, <1>2, <1>3, <1>5, <1>6, <1>10, <1>11
<1> QED
  BY <1>5, <1>6, <1>7, <1>8, <1>9, <1>10, <1>11 DEF n

LEMMA InvRender ==
  ASSUME PassInv, \E r, s \in VectorResults : Render(r, s)
  PROVE  PassInv'
<1> PICK f \in Frames : f = last
  BY DEF PassInv, SlotsTyped
<1>1. PICK vb, ib :
      /\ IsVector(vb, Vertices \cup {Unset}) /\ IsVector(ib, Nat \cup {Unset})
      /\ given = <<>> => vb = vertexBuf[f] /\ ib = indexBuf[f]
      /\ given # <<>> /\ HoldsWrite(vb) /\ HoldsWrite(ib) =>
           /\ 2 * Len(given) <= Len(vb.data) /\ 2 * Len(given) <= Len(ib.data)
           /\ Holds(vb.data, ib.data, given)
      /\ vertexBuf' = [vertexBuf EXCEPT ![f] = vb]
      /\ indexBuf' = [indexBuf EXCEPT ![f] = ib]
      /\ commands' = [commands EXCEPT ![f] = Append(@,
           [vertices |-> vb.made, indices |-> ib.made, num |-> 2 * Len(given)])]
      /\ intended' = [intended EXCEPT ![f] = @ \o given]
      /\ UNCHANGED <<owner, last>>
  BY RenderStep
<1> DEFINE c == [vertices |-> vb.made, indices |-> ib.made, num |-> 2 * Len(given)]
           Record == [vertices : Nat, indices : Nat, num : Nat]
<1>2. owner[f] = "host" /\ Clear /\ given' = <<>>
  BY DEF Render
<1>3. ListHoldsGiven'
  BY <1>2, ListCleared DEF PassInv
<1>4. EmptyOnceRendered'
  BY <1>2 DEF EmptyOnceRendered
<1>5. /\ given \in SegmentLists /\ Len(given) \in Nat /\ intended[f] \in SegmentLists
      /\ commands[f] \in Seq(Record) /\ c \in Record
      /\ given = <<>> => Len(given) = 0
  BY <1>1 DEF PassInv, ListHoldsGiven, SlotsTyped, SegmentLists, IsVector
<1>6. /\ vertexBuf'[f] = vb /\ indexBuf'[f] = ib
      /\ commands'[f] = Append(commands[f], c)
      /\ intended'[f] = intended[f] \o given
      /\ \A g \in Frames : g # f =>
           /\ vertexBuf'[g] = vertexBuf[g] /\ indexBuf'[g] = indexBuf[g]
           /\ commands'[g] = commands[g] /\ intended'[g] = intended[g]
  BY <1>1 DEF PassInv, SlotsTyped
<1>7. SlotsTyped'
  <2>1. Append(commands[f], c) \in Seq(Record) /\ intended[f] \o given \in SegmentLists
    BY <1>5 DEF SegmentLists
  <2>2. commands' = [commands EXCEPT ![f] = Append(@, c)]
    BY <1>1
  <2> HIDE DEF c
  <2>3. commands' \in [Frames -> Seq(Record)] /\ intended' \in [Frames -> SegmentLists]
    BY <1>1, <2>1, <2>2 DEF PassInv, SlotsTyped
  <2>4. /\ vertexBuf' = [g \in Frames |-> vertexBuf'[g]]
        /\ indexBuf' = [g \in Frames |-> indexBuf'[g]]
    BY <1>1 DEF PassInv, SlotsTyped
  <2>5. \A g \in Frames : IsVector(vertexBuf'[g], Vertices \cup {Unset})
                              /\ IsVector(indexBuf'[g], Nat \cup {Unset})
    BY <1>1, <1>6 DEF PassInv, SlotsTyped
  <2> QED
    BY <1>1, <2>3, <2>4, <2>5 DEF PassInv, SlotsTyped
<1>8. SlotRecorded(f)
  BY <1>2 DEF PassInv
<1>9. SlotRecorded(f)'
  <2>1. CASE commands[f] = <<>>
    <3>1. intended'[f] = given /\ commands'[f] = <<c>>
      <4>1. intended[f] = <<>>
        BY <1>8, <2>1 DEF SlotRecorded
      <4>2. <<>> \o given = given
        BY <1>5 DEF SegmentLists
      <4>3. Append(<<>>, c) = <<c>>
        OBVIOUS
      <4> HIDE DEF c
      <4> QED
        BY <1>6, <2>1, <4>1, <4>2, <4>3
    <3>2. /\ Len(commands'[f]) = 1 /\ commands'[f][1] = c /\ commands'[f] # <<>>
      BY <3>1
    <3>3. intended'[f] # <<>> /\ BuffersWritten(f)' => BuffersHold(f)'
      BY <1>1, <1>6, <3>1 DEF BuffersHold, BuffersWritten
    <3> QED
      BY <1>6, <3>1, <3>2, <3>3 DEF SlotRecorded
  <2>2. CASE commands[f] # <<>>
    <3>1. given = <<>>
      BY <1>2, <2>2 DEF PassInv, EmptyOnceRendered
    <3>2. /\ vertexBuf'[f] = vertexBuf[f] /\ indexBuf'[f] = indexBuf[f]
          /\ intended'[f] = intended[f]
      BY <1>1, <1>5, <1>6, <3>1 DEF SegmentLists
    <3>3. c.num = 0
      BY <1>5, <3>1
    <3>4. /\ Len(commands[f]) \in Nat /\ Len(commands[f]) > 0
          /\ Len(commands'[f]) = Len(commands[f]) + 1
          /\ commands'[f][Len(commands[f]) + 1] = c
          /\ \A k \in 1 .. Len(commands[f]) : commands'[f][k] = commands[f][k]
      <4> HIDE DEF c, Record
      <4> QED
        BY <1>5, <1>6, <2>2
    <3> HIDE DEF c
    <3>5. \A k \in 2 .. Len(commands'[f]) : commands'[f][k].num = 0
      <4> SUFFICES ASSUME NEW k \in 2 .. Len(commands'[f]) PROVE commands'[f][k].num = 0
        OBVIOUS
      <4>1. CASE k \in 2 .. Len(commands[f])
        BY <1>8, <3>4, <4>1 DEF SlotRecorded
      <4>2. CASE k = Len(commands[f]) + 1
        BY <3>3, <3>4, <4>2
      <4> QED
        BY <3>4, <4>1, <4>2
    <3>6. \A k \in 1 .. Len(commands'[f]) : commands'[f][k].num > 0 =>
            /\ commands'[f][k].vertices = vertexBuf'[f].made
            /\ commands'[f][k].indices = indexBuf'[f].made
      <4> SUFFICES ASSUME NEW k \in 1 .. Len(commands'[f]), commands'[f][k].num > 0
                   PROVE  /\ commands'[f][k].vertices = vertexBuf'[f].made
                          /\ commands'[f][k].indices = indexBuf'[f].made
        OBVIOUS
      <4>1. k \in 1 .. Len(commands[f])
        BY <3>3, <3>4
      <4> QED
        BY <1>8, <3>2, <3>4, <4>1 DEF SlotRecorded
    <3>7. commands'[f] # <<>> /\ commands'[f][1].num = 2 * Len(intended'[f])
      <4>1. commands'[f][1] = commands[f][1] /\ commands'[f] # <<>>
        BY <3>4
      <4> QED
        BY <1>8, <2>2, <3>2, <4>1 DEF SlotRecorded
    <3>8. intended'[f] # <<>> /\ BuffersWritten(f)' => BuffersHold(f)'
      BY <1>8, <3>2 DEF SlotRecorded, BuffersHold, BuffersWritten
    <3> QED
      BY <3>5, <3>6, <3>7, <3>8 DEF SlotRecorded
  <2> QED
    BY <2>1, <2>2
<1>10. ASSUME NEW g \in Frames, owner'[g] # "free"
       PROVE  SlotRecorded(g)'
  <2>1. CASE g = f
    BY <1>9, <2>1
  <2>2. CASE g # f
    BY <1>1, <1>6, <1>10, <2>2, SlotUnchanged DEF PassInv
  <2> QED
    BY <2>1, <2>2
<1> QED
  BY <1>3, <1>4, <1>7, <1>10 DEF PassInv

LEMMA InvSubmitSlot ==
  ASSUME PassInv, SubmitSlot
  PROVE  PassInv'
<1>1. /\ owner[last] = "host" /\ last \in Frames
      /\ owner' = [owner EXCEPT ![last] = "device"]
      /\ UNCHANGED <<last, vertices, indices, vertexBuf, indexBuf, commands, given, intended>>
  BY DEF SubmitSlot, Hand, passVars, PassInv, SlotsTyped
<1>2. ListHoldsGiven'
  BY <1>1, ListUnchanged DEF PassInv
<1>3. SlotsTyped'
  BY <1>1 DEF PassInv, SlotsTyped
<1>4. EmptyOnceRendered'
  BY <1>1 DEF PassInv, SlotsTyped, EmptyOnceRendered
<1>5. ASSUME NEW f \in Frames, owner'[f] # "free"
      PROVE  SlotRecorded(f)'
  BY <1>1, <1>5, SlotUnchanged DEF PassInv, SlotsTyped
<1> QED
  BY <1>2, <1>3, <1>4, <1>5 DEF PassInv

LEMMA InvRetireSlot ==
  ASSUME PassInv, NEW f \in Frames, RetireSlot(f)
  PROVE  PassInv'
<1>1. /\ owner[f] = "device"
      /\ owner' = [owner EXCEPT ![f] = "free"]
      /\ UNCHANGED <<last, vertices, indices, vertexBuf, indexBuf, commands, given, intended>>
  BY DEF RetireSlot, Retire, passVars
<1>2. ListHoldsGiven'
  BY <1>1, ListUnchanged DEF PassInv
<1>3. SlotsTyped'
  BY <1>1 DEF PassInv, SlotsTyped
<1>4. EmptyOnceRendered'
  BY <1>1 DEF PassInv, SlotsTyped, EmptyOnceRendered
<1>5. ASSUME NEW g \in Frames, owner'[g] # "free"
      PROVE  SlotRecorded(g)'
  BY <1>1, <1>5, SlotUnchanged DEF PassInv, SlotsTyped
<1> QED
  BY <1>2, <1>3, <1>4, <1>5 DEF PassInv

---------------------------------------------------------------------------
(* The theorems.                                                           *)

LEMMA PassInvNext == PassInv /\ [PassNext]_allVars => PassInv'
<1> SUFFICES ASSUME PassInv, [PassNext]_allVars PROVE PassInv'
  OBVIOUS
<1>1. CASE \E v, w \in Vertices : DrawSegment(v, w)
  BY <1>1, InvDrawSegment
<1>2. CASE TakeSlot
  BY <1>2, InvTakeSlot
<1>3. CASE \E r, s \in VectorResults : Render(r, s)
  BY <1>3, InvRender
<1>4. CASE SubmitSlot
  BY <1>4, InvSubmitSlot
<1>5. CASE \E f \in Frames : RetireSlot(f)
  BY <1>5, InvRetireSlot
<1>6. CASE UNCHANGED allVars
  <2>1. UNCHANGED <<owner, last, vertices, indices, vertexBuf, indexBuf, commands, given,
                    intended>>
    BY <1>6 DEF allVars, passVars
  <2>2. ListHoldsGiven'
    BY <2>1, ListUnchanged DEF PassInv
  <2>3. SlotsTyped' /\ EmptyOnceRendered'
    BY <2>1 DEF PassInv, SlotsTyped, EmptyOnceRendered
  <2>4. \A f \in Frames : owner'[f] # "free" => SlotRecorded(f)'
    BY <2>1, SlotUnchanged DEF PassInv
  <2> QED
    BY <2>2, <2>3, <2>4 DEF PassInv
<1> QED
  BY <1>1, <1>2, <1>3, <1>4, <1>5, <1>6 DEF PassNext, PassStep

(* debug_pass.c and debug_draw.c between them keep every given line in     *)
(* one place until the device has drawn it: the list until the first       *)
(* viewport is rendered, then the slot's buffers until the fence.          *)
THEOREM PassInvariant == PassSpec => []PassInv
<1>1. PassInit => PassInv
  BY PassInvInit
<1>2. PassInv /\ [PassNext]_allVars => PassInv'
  BY PassInvNext
<1> QED
  BY <1>1, <1>2, PTL DEF PassSpec

(* The buffers that a recorded draw names are never replaced before the    *)
(* device is done with them, although gpu_vector_reserve destroys them     *)
(* without waiting for it.                                                 *)
THEOREM BuffersStayAlive == PassSpec => []BuffersAlive
<1>1. PassInv => BuffersAlive
  BY DEF PassInv, BuffersAlive, SlotRecorded
<1> QED
  BY <1>1, PassInvariant, PTL

LEMMA HoldingDraws ==
  ASSUME PassInv, NEW f \in Frames, owner[f] = "device", commands[f] # <<>>,
         intended[f] # <<>> => BuffersWritten(f)
  PROVE  DrawsItsLines(f)
<1> DEFINE n == Len(intended[f])
           vs == vertexBuf[f].data
           is == indexBuf[f].data
           Record == [vertices : Nat, indices : Nat, num : Nat]
<1>1. SlotRecorded(f)
  BY DEF PassInv
<1>2. /\ intended[f] \in SegmentLists /\ n \in Nat /\ commands[f] \in Seq(Record)
      /\ vs \in Seq(Vertices \cup {Unset}) /\ is \in Seq(Nat \cup {Unset})
  <2>1. /\ IsVector(vertexBuf[f], Vertices \cup {Unset})
        /\ IsVector(indexBuf[f], Nat \cup {Unset})
        /\ commands \in [Frames -> Seq(Record)] /\ intended \in [Frames -> SegmentLists]
    BY DEF PassInv, SlotsTyped
  <2>2. vs \in Seq(Vertices \cup {Unset}) /\ is \in Seq(Nat \cup {Unset})
    BY <2>1 DEF IsVector
  <2> QED
    BY <2>1, <2>2 DEF SegmentLists
<1>3. 1 \in 1 .. Len(commands[f]) /\ Len(commands[f]) \in Nat
  <2>1. commands[f] \in Seq(Record) /\ commands[f] # <<>>
    BY <1>2
  <2> HIDE DEF Record
  <2> QED
    BY <2>1
<1>4. commands[f][1].num = 2 * n /\ (2 * n) \div 2 = n
  <2>1. commands[f][1].num = 2 * n
    BY <1>1 DEF SlotRecorded
  <2> HIDE DEF n
  <2>2. (2 * n) \div 2 = n
    BY <1>2
  <2> QED
    BY <2>1, <2>2
<1>5. /\ 2 * n <= Len(vs) /\ 2 * n <= Len(is)
      /\ Holds(vs, is, intended[f])
  <2>1. CASE intended[f] = <<>>
    BY <1>2, <2>1 DEF Holds
  <2>2. CASE intended[f] # <<>>
    BY <1>1, <2>2 DEF SlotRecorded, BuffersHold
  <2> QED
    BY <2>1, <2>2
<1>6. Readable(f, commands[f][1])
  <2>1. ASSUME NEW k \in 1 .. 2 * n PROVE is[k] < Len(vs)
    <3>1. is[k] = k - 1 /\ Len(vs) \in Nat
      BY <1>2, <1>5 DEF Holds
    <3> HIDE DEF is, vs
    <3> QED
      BY <1>2, <1>5, <3>1
  <2> QED
    BY <1>4, <1>5, <2>1 DEF Readable
<1>7. Drawn(f, commands[f][1]) = intended[f]
  <2>1. Drawn(f, commands[f][1]) = [k \in 1 .. n |-> <<vs[is[2 * k - 1] + 1], vs[is[2 * k] + 1]>>]
    BY <1>4 DEF Drawn
  <2>2. ASSUME NEW k \in 1 .. n
        PROVE  <<vs[is[2 * k - 1] + 1], vs[is[2 * k] + 1]>> = intended[f][k]
    <3>1. 2 * k - 1 \in 1 .. 2 * n /\ 2 * k \in 1 .. 2 * n
      BY <1>2
    <3>2. is[2 * k - 1] = 2 * k - 2 /\ is[2 * k] = 2 * k - 1
      <4>1. is[2 * k - 1] = 2 * k - 1 - 1 /\ is[2 * k] = 2 * k - 1
        BY <1>5, <3>1 DEF Holds
      <4>2. 2 * k - 1 - 1 = 2 * k - 2
        OBVIOUS
      <4> QED
        BY <4>1, <4>2
    <3>3. is[2 * k - 1] + 1 = 2 * k - 1 /\ is[2 * k] + 1 = 2 * k
      BY <1>2, <3>2
    <3> QED
      BY <1>5, <3>3 DEF Holds
  <2>3. intended[f] = [k \in 1 .. n |-> intended[f][k]]
    BY <1>2 DEF SegmentLists
  <2> QED
    BY <2>1, <2>2, <2>3
<1>8. \A j \in 1 .. Len(commands[f]) : j # 1 => commands[f][j].num = 0
  BY <1>1, <1>3 DEF SlotRecorded
<1> QED
  BY <1>3, <1>6, <1>7, <1>8 DEF DrawsItsLines

(* Each line the program gives is drawn exactly once, from its own         *)
(* vertices, by every batch that renders a viewport, unless a growth or a  *)
(* map failed when that batch's own lines were written: however slots and  *)
(* viewports follow each other, and whatever has failed for other batches, *)
(* of other slots or earlier of the same.                                  *)
THEOREM LinesDrawn == PassSpec => []DrawsWhatWasGiven
<1>1. PassInv => DrawsWhatWasGiven
  BY HoldingDraws DEF DrawsWhatWasGiven
<1> QED
  BY <1>1, PassInvariant, PTL
=============================================================================
