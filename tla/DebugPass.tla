----------------------------- MODULE DebugPass -----------------------------
(***************************************************************************)
(* The path of a line from the draw list to the screen: debug_pass.c with  *)
(* the draw list, the buffers of each frame slot and the device that reads *)
(* them later.  The frame loop around it is FrameQueue's: a slot belongs   *)
(* to the host while it is recorded and to the device until its fence is   *)
(* signaled.                                                               *)
(***************************************************************************)
EXTENDS DrawList, GpuVector, FrameQueue

CONSTANTS
  ViewportNum,     \* most viewports one frame may render
  VertexSize,      \* sizeof (debug_draw_vertex_t), 24
  IndexSize        \* sizeof (debug_draw_index_t), 4

ASSUME ViewportNumAssumption == ViewportNum \in Nat \ {0}
ASSUME ElementSizeAssumption == VertexSize \in Nat \ {0} /\ IndexSize \in Nat \ {0}
ASSUME SlotNumAssumption == FrameNum \in Nat \ {0}

VARIABLES
  vertexBuf,       \* frame->vertices, per slot
  indexBuf,        \* frame->indices, per slot
  commands,        \* the draw commands recorded in the slot's batch
  given,           \* history: lines given since the list was last rendered
  intended         \* history: the lines the slot's batch was recorded for

passVars == <<vertexBuf, indexBuf, commands, given, intended>>
allVars == <<vertices, indices, owner, last, passVars>>

PassInit ==
  /\ DrawListInit
  /\ Init
  /\ vertexBuf = [f \in Frames |-> NewVector]
  /\ indexBuf = [f \in Frames |-> NewVector]
  /\ commands = [f \in Frames |-> <<>>]
  /\ given = <<>>
  /\ intended = [f \in Frames |-> <<>>]

(* world.c's draw and main's temporary_debug_draw give each line two       *)
(* vertices of its own, at different places.                               *)
DrawSegment(v, w) ==
  /\ v # w
  /\ vertices.num + 2 <= MaxNum
  /\ \A f \in Frames : owner[f] # "host"
  /\ vertices' = WithVertex(WithVertex(vertices, v), w)
  /\ indices' = WithLine(indices, vertices.num, vertices.num + 1)
  /\ given' = Append(given, <<v, w>>)
  /\ UNCHANGED <<owner, last, vertexBuf, indexBuf, commands, intended>>

(* renderer_render_frame up to the wait for the fence of the next slot,    *)
(* whose pools are then reset.                                             *)
TakeSlot ==
  /\ Take
  /\ commands' = [commands EXCEPT ![last'] = <<>>]
  /\ intended' = [intended EXCEPT ![last'] = <<>>]
  /\ UNCHANGED <<vertices, indices, vertexBuf, indexBuf, given>>

(* Mutant: the list is not cleared.                                        *)
RenderNoClear(vertexResult, indexResult) ==
  /\ owner[last] = "host"
  /\ Len(commands[last]) < ViewportNum
  /\ vertexBuf' = [vertexBuf EXCEPT ![last] =
       Write(@, SubSeq(vertices.vals, 1, VertexNum), VertexSize, vertexResult)]
  /\ indexBuf' = [indexBuf EXCEPT ![last] =
       Write(@, SubSeq(indices.vals, 1, IndexNum), IndexSize, indexResult)]
  /\ commands' = [commands EXCEPT ![last] = Append(@,
       [vertices |-> vertexBuf'[last].made, indices |-> indexBuf'[last].made,
        num |-> IndexNum])]
  /\ intended' = [intended EXCEPT ![last] = @ \o given]
  /\ given' = <<>>
  /\ UNCHANGED <<owner, last, vertices, indices>>

(* Mutant: every slot renders from the buffers of slot 0.                  *)
RenderShared(vertexResult, indexResult) ==
  /\ owner[last] = "host"
  /\ Len(commands[last]) < ViewportNum
  /\ vertexBuf' = [f \in Frames |->
       Write(vertexBuf[0], SubSeq(vertices.vals, 1, VertexNum), VertexSize, vertexResult)]
  /\ indexBuf' = [f \in Frames |->
       Write(indexBuf[0], SubSeq(indices.vals, 1, IndexNum), IndexSize, indexResult)]
  /\ commands' = [commands EXCEPT ![last] = Append(@,
       [vertices |-> vertexBuf'[last].made, indices |-> indexBuf'[last].made,
        num |-> IndexNum])]
  /\ Clear
  /\ intended' = [intended EXCEPT ![last] = @ \o given]
  /\ given' = <<>>
  /\ UNCHANGED <<owner, last>>

(* debug_pass_render, for one of the frame's viewports: the list goes to   *)
(* the slot's buffers and is cleared, and the buffers' handles and the     *)
(* number of indices go into the command buffer.                           *)
Render(vertexResult, indexResult) ==
  /\ owner[last] = "host"
  /\ Len(commands[last]) < ViewportNum
  /\ vertexBuf' = [vertexBuf EXCEPT ![last] =
       Write(@, SubSeq(vertices.vals, 1, VertexNum), VertexSize, vertexResult)]
  /\ indexBuf' = [indexBuf EXCEPT ![last] =
       Write(@, SubSeq(indices.vals, 1, IndexNum), IndexSize, indexResult)]
  /\ commands' = [commands EXCEPT ![last] = Append(@,
       [vertices |-> vertexBuf'[last].made, indices |-> indexBuf'[last].made,
        num |-> IndexNum])]
  /\ Clear
  /\ intended' = [intended EXCEPT ![last] = @ \o given]
  /\ given' = <<>>
  /\ UNCHANGED <<owner, last>>

(* vkQueueSubmit, after any number of the viewports has been rendered:     *)
(* those that were not acquired are culled, possibly all of them.          *)
SubmitSlot == Hand /\ UNCHANGED <<vertices, indices, passVars>>

(* The device has executed the slot's batch.                               *)
RetireSlot(f) == Retire(f) /\ UNCHANGED <<vertices, indices, passVars>>

(* A handle of a destroyed buffer or memory has been destroyed again, or   *)
(* mapped: the model stops, as nothing can be said of the program.         *)
Undefined ==
  \E f \in Frames : vertexBuf[f].state = "undefined" \/ indexBuf[f].state = "undefined"

PassStep ==
  \/ \E v, w \in Vertices : DrawSegment(v, w)
  \/ TakeSlot
  \/ \E r, s \in VectorResults : Render(r, s)
  \/ SubmitSlot
  \/ \E f \in Frames : RetireSlot(f)

PassNext ==
  \/ ~Undefined /\ PassStep
  \/ Undefined /\ UNCHANGED allVars

PassSpec == PassInit /\ [][PassNext]_allVars

---------------------------------------------------------------------------
(* What the device draws for a command: pairs of indices, looked up in the *)
(* vertex buffer, as the two buffers are when it executes.                 *)
Drawn(f, command) ==
  LET vs == vertexBuf[f].data
      is == indexBuf[f].data
  IN  [k \in 1 .. command.num \div 2 |-> <<vs[is[2 * k - 1] + 1], vs[is[2 * k] + 1]>>]

Readable(f, command) ==
  /\ command.num <= Len(indexBuf[f].data)
  /\ \A k \in 1 .. command.num : indexBuf[f].data[k] < Len(vertexBuf[f].data)

(* While the device may execute a slot's batch, the buffers the batch names *)
(* are the slot's: no growth, of a later frame's or of another viewport's   *)
(* of the same frame, has put others in their place.  If they do not exist, *)
(* or have no memory, it is because a growth for this slot failed.          *)
BuffersAlive ==
  \A f \in Frames : owner[f] = "device" =>
    \A k \in 1 .. Len(commands[f]) :
      LET c == commands[f][k]
      IN  c.num > 0 => vertexBuf[f].made = c.vertices /\ indexBuf[f].made = c.indices

(* The batch of slot f draws the lines it was recorded for, each once: one *)
(* of its commands does, and the others draw nothing.                      *)
DrawsItsLines(f) ==
  \E k \in 1 .. Len(commands[f]) :
    /\ Readable(f, commands[f][k])
    /\ Drawn(f, commands[f][k]) = intended[f]
    /\ \A j \in 1 .. Len(commands[f]) : j # k => commands[f][j].num = 0

(* Both of the slot's writes returned 0, into memory its buffers have.     *)
BuffersWritten(f) == HoldsWrite(vertexBuf[f]) /\ HoldsWrite(indexBuf[f])

(***************************************************************************)
(* The device draws each line the program gave exactly once and with its   *)
(* own vertices, although the list, the slot's buffers and the other       *)
(* slots' are written again before it executes; lines given to frames      *)
(* without a viewport are drawn by the next frame that has one.            *)
(* debug_pass_render ignores the results of gpu_vector_write and draws all *)
(* the same: what a batch draws after a growth or a map that failed in its *)
(* own slot is left open, but the batches of the other slots, and those    *)
(* that had nothing to write, draw what they should.                       *)
(***************************************************************************)
DrawsWhatWasGiven ==
  \A f \in Frames :
    /\ owner[f] = "device" /\ commands[f] # <<>>
    /\ intended[f] # <<>> => BuffersWritten(f)
    => DrawsItsLines(f)

(***************************************************************************)
(* The strengthening of both that every step preserves.  The list holds    *)
(* the lines given since it was last rendered, two vertices and two        *)
(* indices for each; once a viewport of the slot has been rendered it is   *)
(* empty, so that a second viewport's writes leave the buffers alone; and  *)
(* from then on until the fence the buffers hold what was intended, if     *)
(* the writes have not failed.                                             *)
(***************************************************************************)
SegmentLists == Seq(Vertices \X Vertices)

(* What an array or a buffer holds that the given lines are in.            *)
Holds(vs, is, segments) ==
  /\ \A k \in 1 .. 2 * Len(segments) : is[k] = k - 1
  /\ \A k \in 1 .. Len(segments) : segments[k] = <<vs[2 * k - 1], vs[2 * k]>>

ListHoldsGiven ==
  /\ DrawListInv
  /\ given \in SegmentLists
  /\ vertices.num = 2 * Len(given)
  /\ indices.num = 2 * Len(given)
  /\ Holds(vertices.vals, indices.vals, given)

SlotsTyped ==
  /\ owner \in [Frames -> {"free", "host", "device"}]
  /\ last \in Frames
  /\ \A f \in Frames : owner[f] = "host" => f = last
  /\ vertexBuf = [f \in Frames |-> vertexBuf[f]]
  /\ indexBuf = [f \in Frames |-> indexBuf[f]]
  /\ \A f \in Frames : IsVector(vertexBuf[f], Vertices \cup {Unset})
                          /\ IsVector(indexBuf[f], Nat \cup {Unset})
  /\ commands \in [Frames -> Seq([vertices : Nat, indices : Nat, num : Nat])]
  /\ intended \in [Frames -> SegmentLists]

EmptyOnceRendered == owner[last] = "host" /\ commands[last] # <<>> => given = <<>>

BuffersHold(f) ==
  LET vs == vertexBuf[f].data
      is == indexBuf[f].data
  IN  /\ 2 * Len(intended[f]) <= Len(vs) /\ 2 * Len(intended[f]) <= Len(is)
      /\ Holds(vs, is, intended[f])

SlotRecorded(f) ==
  /\ commands[f] = <<>> => intended[f] = <<>>
  /\ commands[f] # <<>> => commands[f][1].num = 2 * Len(intended[f])
  /\ \A k \in 2 .. Len(commands[f]) : commands[f][k].num = 0
  /\ \A k \in 1 .. Len(commands[f]) : commands[f][k].num > 0 =>
       commands[f][k].vertices = vertexBuf[f].made /\ commands[f][k].indices = indexBuf[f].made
  /\ intended[f] # <<>> /\ BuffersWritten(f) => BuffersHold(f)

(* Every viewport's write of debug_pass.c, in the order of the frame loop. *)
PassInv ==
  /\ ListHoldsGiven
  /\ SlotsTyped
  /\ EmptyOnceRendered
  /\ \A f \in Frames : owner[f] # "free" => SlotRecorded(f)
=============================================================================
