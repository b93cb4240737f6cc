--------------------------- MODULE Present_proofs ---------------------------
(***************************************************************************)
(* Proofs about what viewport_acquire takes from the presentation engine,  *)
(* semaphores and images, and about what is drawn and shown: for any       *)
(* number of viewports and images, and any number of slots up to that of   *)
(* the acquire semaphores.                                                 *)
(***************************************************************************)
EXTENDS Renderer_proofs

---------------------------------------------------------------------------
(* Acquires, with frames culled in part or whole and any order of present  *)
(* requests and batches.                                                   *)


(* What is assumed of the constants, and of the world outside: the engine, *)
(* vkQueueSubmit and vkQueuePresentKHR do not give the answers that the    *)
(* code mistakes or ignores, the device is not lost, and vkQueueWaitIdle   *)
(* waits for what is to be presented as well.                              *)
PlainAnswers ==
  /\ FrameNum <= AcquireNum
  /\ "suboptimal" \notin AcquireResults
  /\ SubmitResults = {"ok"}
  /\ PresentResults = {"ok"}
  /\ DeviceMayBeLost = FALSE
  /\ IdleWaitsForPresents = TRUE

PresentStep == \E result \in PresentResults : Present(result)

LEMMA NotLost ==
  ASSUME DeviceMayBeLost = FALSE
  PROVE  ~DeviceLost
BY DEF DeviceLost

LEMMA AppendedOps ==
  ASSUME TypeOK, NEW op \in Op, queue' = Append(queue, op)
  PROVE  ToSet(queue') = ToSet(queue) \cup {op}
<1>1. queue \in Seq(Op) /\ Len(queue) \in Nat /\ DOMAIN queue = 1 .. Len(queue)
  BY DEF TypeOK
<1>2. /\ DOMAIN queue' = 1 .. Len(queue) + 1
      /\ \A k \in 1 .. Len(queue) : queue'[k] = queue[k]
      /\ queue'[Len(queue) + 1] = op
  BY <1>1
<1>3. \A m \in DOMAIN queue' : m \in DOMAIN queue \/ m = Len(queue) + 1
  BY <1>1, <1>2
<1> QED
  BY <1>1, <1>2, <1>3 DEF ToSet

LEMMA RemovedOps ==
  ASSUME TypeOK, NEW n \in 1 .. Len(queue), queue' = RemoveAt(queue, n)
  PROVE  /\ ToSet(queue') \subseteq ToSet(queue)
         /\ ToSet(queue) \subseteq ToSet(queue') \cup {queue[n]}
<1>1. queue \in Seq(Op) /\ Len(queue) \in Nat /\ DOMAIN queue = 1 .. Len(queue)
  BY DEF TypeOK
<1>2. /\ queue' \in Seq(Op) /\ Len(queue') = Len(queue) - 1
      /\ \A k \in 1 .. Len(queue) - 1 :
           queue'[k] = IF k < n THEN queue[k] ELSE queue[k + 1]
  BY <1>1, RemoveAtFacts
<1>3. DOMAIN queue' = 1 .. Len(queue) - 1
  BY <1>1, <1>2, LenProperties
<1>4. \A k \in DOMAIN queue' : \E m \in DOMAIN queue : queue'[k] = queue[m]
  <2> TAKE k \in DOMAIN queue'
  <2>1. k \in DOMAIN queue /\ k + 1 \in DOMAIN queue
    BY <1>1, <1>3
  <2> QED
    BY <1>2, <1>3, <2>1
<1>5. \A m \in DOMAIN queue : m = n \/ \E k \in DOMAIN queue' : queue'[k] = queue[m]
  <2> TAKE m \in DOMAIN queue
  <2>1. CASE m < n
    <3>1. m \in DOMAIN queue' /\ m \in 1 .. Len(queue) - 1
      BY <1>1, <1>3, <2>1
    <3> QED
      BY <1>2, <2>1, <3>1
  <2>2. CASE m > n
    <3>1. m - 1 \in DOMAIN queue' /\ m - 1 \in 1 .. Len(queue) - 1 /\ ~(m - 1 < n) /\ (m - 1) + 1 = m
      BY <1>1, <1>3, <2>2
    <3>2. queue'[m - 1] = queue[m]
      BY <1>2, <3>1
    <3> QED
      BY <3>1, <3>2
  <2>3. m < n \/ m = n \/ m > n
    BY <1>1
  <2> QED
    BY <2>1, <2>2, <2>3
<1> QED
  BY <1>4, <1>5 DEF ToSet

LEMMA OpsTyped ==
  ASSUME TypeOK, NEW op \in ToSet(queue)
  PROVE  op \in Op
BY DEF TypeOK, ToSet

---------------------------------------------------------------------------
(* The two rotations.                                                      *)

LEMMA BackwardsFacts ==
  ASSUME NEW num \in Nat \ {0}, NEW from \in 0 .. num - 1, NEW steps \in 0 .. num - 1
  PROVE  /\ Backwards(from, steps, num) \in 0 .. num - 1
         /\ Backwards(from, 0, num) = from
         /\ Backwards(from, from, num) = 0
BY DEF Backwards

(* A frame later every other slot's batch is one frame older.              *)
LEMMA FrameAges ==
  ASSUME NEW f \in Frames, NEW g \in Frames, f # g
  PROVE  LET age == Backwards(Predecessor(g), f, FrameNum)
         IN  /\ age \in Nat /\ age + 1 < FrameNum
             /\ Backwards(g, f, FrameNum) = age + 1
BY FrameNumAssumption DEF Frames, Predecessor, Backwards

(* An acquire later every semaphore is one acquire older, and none of      *)
(* those that are not too old is the next.                                 *)
LEMMA SemAges ==
  ASSUME NEW v \in Viewports, acquireIndex[v] \in AcquireSlots,
         NEW age \in Nat, age + 1 < AcquireNum
  PROVE  /\ Backwards(NextSlot(v), age + 1, AcquireNum)
              = Backwards(acquireIndex[v], age, AcquireNum)
         /\ NextSlot(v) # Backwards(acquireIndex[v], age, AcquireNum)
BY AcquireNumAssumption DEF NextSlot, AcquireSlots, Backwards

BatchInStep(op) ==
  \A s \in op.waits :
    /\ IsBatch(op)
    /\ acquireIndex[s[1]] \in AcquireSlots
    /\ s[2] = SlotSem(s[1], op.frame)

(* No acquire: the batches that were there are as they were.               *)
LEMMA InStepUnchanged ==
  ASSUME TypeOK, RotationsInStep, UNCHANGED acquireIndex,
         \A v \in Viewports : AcquireFrame(v)' = AcquireFrame(v)
  PROVE  \A op \in ToSet(queue) : BatchInStep(op)'
<1> SUFFICES ASSUME NEW op \in ToSet(queue), NEW s \in op.waits
             PROVE  /\ IsBatch(op)
                    /\ acquireIndex'[s[1]] \in AcquireSlots
                    /\ s[2] = SlotSem(s[1], op.frame)'
  BY DEF BatchInStep, IsBatch
<1>1. s[1] \in Viewports
  BY OpsTyped DEF Op, AcquireSems
<1> QED
  BY <1>1 DEF RotationsInStep, SlotSem

LEMMA InStepInit == Init => RotationsInStep
BY DEF Init, RotationsInStep, ToSet

LEMMA InStepBeginFrame ==
  ASSUME TypeOK, RotationsInStep, BeginFrame
  PROVE  RotationsInStep'
<1>1. UNCHANGED <<acquireIndex, queue>> /\ pc' = "wait"
  BY DEF BeginFrame, Goto, deviceVars, swapchainVars
<1>2. \A v \in Viewports : AcquireFrame(v)' = AcquireFrame(v)
  BY PredecessorFacts DEF BeginFrame, Goto, AcquireFrame, TypeOK
<1> QED
  BY <1>1, <1>2, InStepUnchanged DEF RotationsInStep, BatchInStep, IsBatch

LEMMA InStepWait ==
  ASSUME TypeOK, RotationsInStep, WaitForFence
  PROVE  RotationsInStep'
<1>1. UNCHANGED <<acquireIndex, queue>> /\ pc' = "acquire" /\ acquired' = {}
  BY DEF WaitForFence, Goto, swapchainVars
<1>2. \A v \in Viewports : AcquireFrame(v)' = AcquireFrame(v)
  BY ViewportNumAssumption DEF WaitForFence, Goto, AcquireFrame, Viewports
<1> QED
  BY <1>1, <1>2, InStepUnchanged DEF RotationsInStep, BatchInStep, IsBatch

LEMMA InStepAcquire ==
  ASSUME PlainAnswers, TypeOK, SlotInv, RotationsInStep,
         NEW result \in AcquireResults, Acquire(result)
  PROVE  RotationsInStep'
<1>1. /\ pc = "acquire" /\ next \in Viewports /\ next' = next + 1
      /\ acquireIndex' = [acquireIndex EXCEPT ![next] = NextSlot(next)]
      /\ acquired' \subseteq acquired \cup {next}
      /\ UNCHANGED <<pc, queue, frameIndex>>
  BY ViewportNumAssumption
  DEF Acquire, ViewportAcquire, deviceVars, TypeOK, Viewports
<1>2. ASSUME NEW v \in acquired' PROVE v < next'
  <2>1. next \in Nat /\ next < next'
    BY <1>1 DEF Viewports
  <2>2. v = next \/ (v \in acquired /\ v \in Nat /\ v < next)
    BY <1>1 DEF RotationsInStep, TypeOK, Viewports
  <2> QED
    BY <1>1, <2>1, <2>2
<1>3. ASSUME NEW op \in ToSet(queue), NEW s \in op.waits
      PROVE  /\ IsBatch(op)
             /\ acquireIndex'[s[1]] \in AcquireSlots
             /\ s[2] = SlotSem(s[1], op.frame)'
  <2>1. s[1] \in Viewports /\ op.frame \in Frames
    BY OpsTyped DEF Op, AcquireSems
  <2>2. op.frame # frameIndex
    BY <1>1 DEF RotationsInStep, SlotInv, HostHoldsSlot, DeviceUses, Pending
  <2>3. IsBatch(op) /\ acquireIndex[s[1]] \in AcquireSlots /\ s[2] = SlotSem(s[1], op.frame)
    BY DEF RotationsInStep
  <2>4. CASE s[1] # next
    <3>1. AcquireFrame(s[1])' = AcquireFrame(s[1])
      BY <1>1, <2>1, <2>4 DEF AcquireFrame, TypeOK, Viewports
    <3>2. acquireIndex'[s[1]] = acquireIndex[s[1]]
      BY <1>1, <2>1, <2>4 DEF TypeOK, SwapchainTypeOK
    <3> QED
      BY <2>3, <3>1, <3>2 DEF SlotSem
  <2>5. CASE s[1] = next
    <3> DEFINE v == s[1]
               age == Backwards(Predecessor(frameIndex), op.frame, FrameNum)
    <3>1. AcquireFrame(v) = Predecessor(frameIndex) /\ AcquireFrame(v)' = frameIndex
      BY <1>1, <2>1, <2>5 DEF AcquireFrame, Viewports
    <3>2. acquireIndex'[v] = NextSlot(v) /\ NextSlot(v) \in AcquireSlots
      BY <1>1, <2>1, <2>5, NextSlotType DEF TypeOK, SwapchainTypeOK
    <3>3. /\ age \in Nat /\ age + 1 < FrameNum
          /\ Backwards(frameIndex, op.frame, FrameNum) = age + 1
      BY <2>1, <2>2, FrameAges DEF TypeOK
    <3>4. SlotSem(v, op.frame) = Backwards(acquireIndex[v], age, AcquireNum)
      BY <3>1 DEF SlotSem
    <3>5. SlotSem(v, op.frame)' = Backwards(NextSlot(v), age + 1, AcquireNum)
      BY <3>1, <3>2, <3>3 DEF SlotSem
    <3> HIDE DEF age
    <3>6. age + 1 < AcquireNum
      BY <3>3, FrameNumAssumption, AcquireNumAssumption DEF PlainAnswers
    <3> QED
      BY <2>1, <2>3, <3>2, <3>3, <3>4, <3>5, <3>6, SemAges
  <2> QED
    BY <2>4, <2>5
<1> QED
  BY <1>1, <1>2, <1>3 DEF RotationsInStep, IsBatch

LEMMA InStepRecord ==
  ASSUME TypeOK, RotationsInStep, Record
  PROVE  RotationsInStep'
<1>1. UNCHANGED <<acquireIndex, queue>> /\ pc = "acquire" /\ pc' = "submit"
  BY DEF Record, Goto, deviceVars, swapchainVars
<1>2. \A v \in Viewports : AcquireFrame(v)' = AcquireFrame(v)
  BY ViewportNumAssumption DEF Record, Goto, AcquireFrame, Viewports, TypeOK
<1>3. \A s \in batch'.waits : s = OnAcquire(s[1])'
  BY DEF Record, OnAcquire, swapchainVars
<1> QED
  BY <1>1, <1>2, <1>3, InStepUnchanged DEF RotationsInStep, BatchInStep, IsBatch

(* A batch is submitted with the semaphores of its frame.                  *)
LEMMA InStepSubmit ==
  ASSUME TypeOK, SlotInv, RotationsInStep, NEW result \in SubmitResults, Submit(result)
  PROVE  RotationsInStep'
<1>1. UNCHANGED <<acquireIndex, frameIndex, batch>> /\ pc = "submit" /\ pc' = "present"
  BY DEF Submit, Goto, swapchainVars
<1>2. \A v \in Viewports : AcquireFrame(v)' = AcquireFrame(v) /\ AcquireFrame(v)' = frameIndex
  BY <1>1 DEF AcquireFrame
<1>3. ToSet(queue') \subseteq ToSet(queue) \cup {batch}
  BY AppendedOps DEF Submit, TypeOK
<1>4. BatchInStep(batch)'
  <2> SUFFICES ASSUME NEW s \in batch.waits
               PROVE  /\ IsBatch(batch)
                      /\ acquireIndex'[s[1]] \in AcquireSlots
                      /\ s[2] = SlotSem(s[1], batch.frame)'
    BY <1>1 DEF BatchInStep, IsBatch
  <2>1. s \in AcquireSems /\ batch.frame = frameIndex /\ IsBatch(batch)
    BY <1>1 DEF TypeOK, Op, SlotInv, HostHoldsSlot
  <2>2. s[1] \in Viewports /\ s[2] \in AcquireSlots /\ s[2] = acquireIndex[s[1]]
    BY <1>1, <2>1 DEF AcquireSems, RotationsInStep, OnAcquire
  <2>3. Backwards(frameIndex, frameIndex, FrameNum) = 0
    BY BackwardsFacts, FrameNumAssumption DEF TypeOK, Frames
  <2>4. Backwards(acquireIndex[s[1]], 0, AcquireNum) = acquireIndex[s[1]]
    BY <2>2, BackwardsFacts, AcquireNumAssumption DEF AcquireSlots
  <2> QED
    BY <1>1, <1>2, <2>1, <2>2, <2>3, <2>4 DEF SlotSem
<1>5. \A op \in ToSet(queue') : BatchInStep(op)'
  BY <1>1, <1>2, <1>3, <1>4, InStepUnchanged DEF Submit
<1> QED
  BY <1>1, <1>5 DEF RotationsInStep, BatchInStep, IsBatch

(* The host goes on without an acquire, and what is left of the queue, or  *)
(* a present request put behind it, is in step.                            *)
LEMMA InStepElse ==
  ASSUME TypeOK, RotationsInStep, UNCHANGED <<acquireIndex, frameIndex>>,
         \/ UNCHANGED <<pc, next, acquired, batch>>
         \/ pc \notin {"wait", "acquire", "submit"} /\ pc' \notin {"wait", "acquire", "submit"},
         \A op \in ToSet(queue') : op \in ToSet(queue) \/ op.waits = {}
  PROVE  RotationsInStep'
<1>1. \A v \in Viewports : AcquireFrame(v)' = AcquireFrame(v)
  BY DEF AcquireFrame
<1>2. \A op \in ToSet(queue') : BatchInStep(op)'
  BY <1>1, InStepUnchanged DEF BatchInStep
<1>3. (pc = "acquire" => \A v \in acquired : v < next)'
  BY DEF RotationsInStep
<1>4. (pc = "submit" => \A s \in batch.waits : s = OnAcquire(s[1]))'
  BY DEF RotationsInStep, OnAcquire
<1> QED
  BY <1>2, <1>3, <1>4 DEF RotationsInStep, BatchInStep, IsBatch

LEMMA PresentOp ==
  ASSUME TypeOK, PresentStep
  PROVE  /\ ToSet(queue) \subseteq ToSet(queue')
         /\ \/ /\ queue' = queue
               /\ batch.targets = {} \/ "failed" \in PresentResults
            \/ \E op \in ToSet(queue') :
                 /\ ~IsBatch(op) /\ op.waits = {} /\ op.targets = batch.targets
                 /\ ToSet(queue') = ToSet(queue) \cup {op}
<1> DEFINE op == Request
<1>1. op \in Op /\ ~IsBatch(op) /\ op.waits = {} /\ op.targets = batch.targets
  BY DEF TypeOK, Op, IsBatch, Request
<1>2. \/ queue' = queue /\ (batch.targets = {} \/ "failed" \in PresentResults)
      \/ queue' = Append(queue, op)
  BY DEF PresentStep, Present, PresentAs
<1> HIDE DEF op
<1> QED
  BY <1>1, <1>2, AppendedOps

LEMMA InStepNext ==
  ASSUME PlainAnswers, TypeOK, SlotInv, RotationsInStep, [Next]_vars
  PROVE  RotationsInStep'
<1> USE DEF Goto, hostVars, deviceVars, swapchainVars
<1>1. CASE BeginFrame
  BY <1>1, InStepBeginFrame
<1>2. CASE WaitForFence
  BY <1>2, InStepWait
<1>3. CASE \E result \in AcquireResults : Acquire(result)
  BY <1>3, InStepAcquire
<1>4. CASE Record
  BY <1>4, InStepRecord
<1>5. CASE \E result \in SubmitResults : Submit(result)
  BY <1>5, InStepSubmit
<1>6. CASE PresentStep
  BY <1>6, PresentOp, InStepElse DEF PresentStep, Present, PresentAs
<1>7. CASE Quit \/ Teardown
  BY <1>7, InStepElse DEF Quit, Teardown, RendererDelete, CameraDelete
<1>8. ASSUME NEW n \in 1 .. Len(queue), StartBatch(n) PROVE RotationsInStep'
  BY <1>8, RemovedOps, InStepElse DEF StartBatch
<1>9. ASSUME NEW n \in 1 .. Len(queue), PresentImages(n) PROVE RotationsInStep'
  BY <1>9, RemovedOps, InStepElse DEF PresentImages
<1>10. CASE FinishBatch
  BY <1>10, InStepElse DEF FinishBatch
<1>11. CASE \E s \in AcquireSems : EngineSignal(s)
  BY <1>11, InStepElse DEF EngineSignal
<1>12. CASE \E v \in Viewports : EngineFlip(v)
  BY <1>12, InStepElse DEF EngineFlip
<1>13. CASE UNCHANGED vars
  BY <1>13, InStepElse DEF vars
<1> QED
  BY <1>1, <1>2, <1>3, <1>4, <1>5, <1>6, <1>7, <1>8, <1>9, <1>10, <1>11, <1>12, <1>13,
     NotLost
  DEF Next, FrameStep, PresentStep, Terminated, PlainAnswers

---------------------------------------------------------------------------
(* Every semaphore given to the engine is waited for by a batch.           *)

LEMMA SemsAcquire ==
  ASSUME PlainAnswers, TypeOK, RotationsInStep, SemsWaitedFor,
         NEW result \in AcquireResults, Acquire(result)
  PROVE  SemsWaitedFor'
<1>1. /\ pc = "acquire" /\ next \in Viewports
      /\ acquireIndex' = [acquireIndex EXCEPT ![next] = NextSlot(next)]
      /\ acquireIndex'[next] = NextSlot(next)
      /\ \A v \in acquired : v \in Viewports /\ v # next /\ acquireIndex'[v] = acquireIndex[v]
      /\ acquired \subseteq acquired'
      /\ UNCHANGED <<pc, queue, batch>>
  BY ViewportNumAssumption
  DEF Acquire, ViewportAcquire, hostVars, deviceVars, TypeOK, SwapchainTypeOK, Viewports,
      RotationsInStep
<1>2. \/ UNCHANGED acquireSem
      \/ /\ acquireSem' = [acquireSem EXCEPT ![<<next, NextSlot(next)>>] = "pending"]
         /\ next \in acquired'
  BY DEF Acquire, ViewportAcquire, TakeImage, Reported, PlainAnswers
<1> SUFFICES ASSUME NEW s \in AcquireSems, acquireSem'[s] # "unsignaled"
             PROVE  SemWaitedFor(s)'
  BY DEF SemsWaitedFor, SemWaitedFor
<1>3. CASE acquireSem[s] # "unsignaled"
  <2>1. SemWaitedFor(s)
    BY <1>3 DEF SemsWaitedFor, SemWaitedFor
  <2> QED
    BY <1>1, <2>1 DEF SemWaitedFor, OnAcquire
<1>4. CASE acquireSem[s] = "unsignaled"
  <2>1. s = <<next, NextSlot(next)>> /\ next \in acquired'
    BY <1>2, <1>4 DEF TypeOK, SwapchainTypeOK
  <2> QED
    BY <1>1, <2>1 DEF SemWaitedFor, OnAcquire
<1> QED
  BY <1>3, <1>4

LEMMA SemsStartBatch ==
  ASSUME TypeOK, SemsWaitedFor, NEW n \in 1 .. Len(queue), StartBatch(n)
  PROVE  SemsWaitedFor'
<1> SUFFICES ASSUME NEW s \in AcquireSems, acquireSem'[s] # "unsignaled"
             PROVE  SemWaitedFor(s)'
  BY DEF SemsWaitedFor, SemWaitedFor
<1>1. acquireSem[s] # "unsignaled" /\ s \notin queue[n].waits
  BY DEF StartBatch
<1>2. SemWaitedFor(s)
  BY <1>1 DEF SemsWaitedFor, SemWaitedFor
<1> QED
  BY <1>1, <1>2, RemovedOps DEF SemWaitedFor, OnAcquire, StartBatch, hostVars

(* No semaphore is given away, and those that were are waited for.         *)
LEMMA SemsElse ==
  ASSUME SemsWaitedFor,
         \A s \in AcquireSems : acquireSem'[s] # "unsignaled" => acquireSem[s] # "unsignaled",
         \A s \in AcquireSems : SemWaitedFor(s) => SemWaitedFor(s)'
  PROVE  SemsWaitedFor'
BY DEF SemsWaitedFor, SemWaitedFor

LEMMA SemsNext ==
  ASSUME PlainAnswers, TypeOK, SlotInv, RotationsInStep, SemsWaitedFor, [Next]_vars
  PROVE  SemsWaitedFor'
<1> USE DEF Goto, hostVars, deviceVars, swapchainVars
<1>1. CASE BeginFrame \/ WaitForFence \/ Quit \/ Teardown
  BY <1>1, SemsElse
  DEF BeginFrame, WaitForFence, Quit, Teardown, RendererDelete, CameraDelete, SemWaitedFor
<1>3. CASE \E result \in AcquireResults : Acquire(result)
  BY <1>3, SemsAcquire
<1>4. CASE Record
  <2>1. \A s \in AcquireSems : SemWaitedFor(s) => SemWaitedFor(s)'
    BY <1>4 DEF Record, SemWaitedFor
  <2> QED
    BY <1>4, <2>1, SemsElse DEF Record
<1>5. CASE \E result \in SubmitResults : Submit(result)
  <2>1. ToSet(queue') = ToSet(queue) \cup {batch}
    BY <1>5, AppendedOps DEF Submit, TypeOK, PlainAnswers
  <2>2. \A s \in AcquireSems : SemWaitedFor(s) => SemWaitedFor(s)'
    BY <1>5, <2>1 DEF Submit, SemWaitedFor
  <2> QED
    BY <1>5, <2>2, SemsElse DEF Submit
<1>6. CASE PresentStep
  <2>1. \A s \in AcquireSems : SemWaitedFor(s) => SemWaitedFor(s)'
    BY <1>6, PresentOp DEF PresentStep, Present, PresentAs, SemWaitedFor
  <2> QED
    BY <1>6, <2>1, SemsElse DEF PresentStep, Present, PresentAs
<1>8. ASSUME NEW n \in 1 .. Len(queue), StartBatch(n) PROVE SemsWaitedFor'
  BY <1>8, SemsStartBatch
<1>9. ASSUME NEW n \in 1 .. Len(queue), PresentImages(n) PROVE SemsWaitedFor'
  <2>1. queue[n].waits = {}
    <3>1. queue[n] \in ToSet(queue) /\ ~IsBatch(queue[n])
      BY <1>9 DEF PresentImages, IsBatch, ToSet, TypeOK
    <3> QED
      BY <3>1 DEF RotationsInStep
  <2>2. \A s \in AcquireSems : SemWaitedFor(s) => SemWaitedFor(s)'
    BY <1>9, <2>1, RemovedOps DEF PresentImages, SemWaitedFor, OnAcquire
  <2> QED
    BY <1>9, <2>2, SemsElse DEF PresentImages
<1>10. CASE FinishBatch
  BY <1>10, SemsElse DEF FinishBatch, SemWaitedFor, OnAcquire
<1>11. CASE \E s \in AcquireSems : EngineSignal(s)
  <2>1. \A s \in AcquireSems : acquireSem'[s] # "unsignaled" => acquireSem[s] # "unsignaled"
    BY <1>11 DEF EngineSignal, SignalAcquire, TypeOK, SwapchainTypeOK
  <2>2. \A s \in AcquireSems : SemWaitedFor(s) => SemWaitedFor(s)'
    BY <1>11 DEF EngineSignal, SemWaitedFor, OnAcquire
  <2> QED
    BY <2>1, <2>2, SemsElse
<1>12. CASE \E v \in Viewports : EngineFlip(v)
  BY <1>12, SemsElse DEF EngineFlip, SemWaitedFor, OnAcquire
<1>13. CASE UNCHANGED vars
  BY <1>13, SemsElse DEF vars, SemWaitedFor, OnAcquire
<1> QED
  BY <1>1, <1>3, <1>4, <1>5, <1>6, <1>8, <1>9, <1>10, <1>11, <1>12, <1>13, NotLost
  DEF Next, FrameStep, PresentStep, Terminated, PlainAnswers

---------------------------------------------------------------------------
(* Every image taken from the engine is on its way back.                   *)

ImageOnItsWay(v, i) ==
  \/ \E op \in ToSet(queue) : ~IsBatch(op) /\ <<v, i>> \in op.targets
  \/ pc \in {"submit", "present"} /\ <<v, i>> \in batch.targets
  \/ pc = "acquire" /\ v \in acquired /\ i = imageIndex[v]

(* The queue and the batch, which a step changes or leaves ...             *)
LEMMA ImagesKept ==
  ASSUME ImagesOnTheirWay,
         \A v \in Viewports : Taken(v)' \subseteq Taken(v),
         \A v \in Viewports : \A i \in Taken(v)' : ImageOnItsWay(v, i) => ImageOnItsWay(v, i)',
         \A op \in ToSet(queue') : OneImageEach(op), OneImageEach(batch')
  PROVE  ImagesOnTheirWay'
<1>1. (\A op \in ToSet(queue) : OneImageEach(op))' /\ OneImageEach(batch)'
  BY DEF OneImageEach
<1>2. \A v \in Viewports : \A i \in Taken(v)' : ImageOnItsWay(v, i)'
  BY DEF ImagesOnTheirWay, ImageOnItsWay
<1> QED
  BY <1>1, <1>2 DEF ImagesOnTheirWay, ImageOnItsWay

(* ... and the images, when the engine and the screen are left alone.      *)
LEMMA TakenUnchanged ==
  ASSUME UNCHANGED <<avail, display>>
  PROVE  \A v \in Viewports : Taken(v)' = Taken(v)
BY DEF Taken, Displayed

LEMMA ImagesInit == Init => ImagesOnTheirWay
<1> SUFFICES ASSUME Init PROVE ImagesOnTheirWay
  OBVIOUS
<1>1. \A v \in Viewports : Taken(v) = {}
  BY DEF Init, SwapchainInit, Taken
<1>2. ToSet(queue) = {} /\ OneImageEach(batch)
  BY DEF Init, NoBatch, ToSet, OneImageEach
<1> QED
  BY <1>1, <1>2 DEF ImagesOnTheirWay

LEMMA ImagesAcquire ==
  ASSUME PlainAnswers, TypeOK, RotationsInStep, ImagesOnTheirWay,
         NEW result \in AcquireResults, Acquire(result)
  PROVE  ImagesOnTheirWay'
<1>1. /\ pc = "acquire" /\ next \in Viewports
      /\ \A v \in acquired : v # next
      /\ acquired \subseteq acquired'
      /\ UNCHANGED <<pc, queue, batch, display>>
  BY ViewportNumAssumption
  DEF Acquire, ViewportAcquire, hostVars, deviceVars, TypeOK, Viewports, RotationsInStep
<1>2. \/ UNCHANGED <<avail, imageIndex>>
      \/ \E i \in avail[next] :
           /\ avail' = [avail EXCEPT ![next] = @ \ {i}]
           /\ imageIndex' = [imageIndex EXCEPT ![next] = i]
           /\ next \in acquired'
  BY DEF Acquire, ViewportAcquire, TakeImage, Reported, PlainAnswers
<1>3. (\A op \in ToSet(queue) : OneImageEach(op))' /\ OneImageEach(batch)'
  BY <1>1 DEF ImagesOnTheirWay, OneImageEach
<1>4. ASSUME NEW v \in Viewports, NEW i \in Taken(v)' PROVE ImageOnItsWay(v, i)'
  <2>1. CASE i \in Taken(v)
    <3>1. ImageOnItsWay(v, i)
      BY <2>1 DEF ImagesOnTheirWay, ImageOnItsWay
    <3>2. v \in acquired => imageIndex'[v] = imageIndex[v]
      BY <1>1, <1>2 DEF TypeOK, SwapchainTypeOK
    <3> QED
      BY <1>1, <3>1, <3>2 DEF ImageOnItsWay
  <2>2. CASE i \notin Taken(v)
    <3>1. i \in avail[v] /\ i \notin avail'[v]
      BY <1>1, <1>4, <2>2 DEF Taken, Displayed
    <3>2. v = next /\ next \in acquired' /\ imageIndex'[v] = i
      BY <1>1, <1>2, <3>1 DEF TypeOK, SwapchainTypeOK
    <3> QED
      BY <1>1, <3>2 DEF ImageOnItsWay
  <2> QED
    BY <2>1, <2>2
<1> QED
  BY <1>3, <1>4 DEF ImagesOnTheirWay, ImageOnItsWay

(* The images of a present request go to the screen.                       *)
LEMMA ImagesPresented ==
  ASSUME TypeOK, ImagesOnTheirWay, NEW n \in 1 .. Len(queue), PresentImages(n)
  PROVE  ImagesOnTheirWay'
<1>1. queue[n] \in ToSet(queue) /\ queue[n] \in Op /\ OneImageEach(queue[n])
  BY DEF ToSet, TypeOK, ImagesOnTheirWay
<1>2. /\ ToSet(queue') \subseteq ToSet(queue)
      /\ ToSet(queue) \subseteq ToSet(queue') \cup {queue[n]}
      /\ UNCHANGED <<pc, acquired, batch, avail, imageIndex>>
  BY RemovedOps DEF PresentImages, hostVars
<1>3. ASSUME NEW v \in Viewports
      PROVE  /\ \A i \in Displayed(v) : i \in Displayed(v)'
             /\ \A i \in Images : <<v, i>> \in queue[n].targets => i \in Displayed(v)'
  <2>1. display[v] \in Seq(Images)
    BY DEF TypeOK, SwapchainTypeOK
  <2>2. CASE \E i \in Images : <<v, i>> \in queue[n].targets
    <3>1. PICK i \in Images : <<v, i>> \in queue[n].targets
      BY <2>2
    <3>2. (CHOOSE j \in Images : <<v, j>> \in queue[n].targets) = i
      BY <1>1, <3>1 DEF OneImageEach
    <3>3. display'[v] = Append(display[v], i)
      BY <2>2, <3>2 DEF PresentImages, Show
    <3>4. /\ \A k \in 1 .. Len(display[v]) : k \in 1 .. Len(display'[v]) /\ display'[v][k] = display[v][k]
          /\ Len(display[v]) + 1 \in 1 .. Len(display'[v])
          /\ display'[v][Len(display[v]) + 1] = i
      BY <2>1, <3>3
    <3>5. \A j \in Images : <<v, j>> \in queue[n].targets => j = i
      BY <1>1, <3>1 DEF OneImageEach
    <3> QED
      BY <3>4, <3>5 DEF Displayed
  <2>3. CASE ~ \E i \in Images : <<v, i>> \in queue[n].targets
    <3>1. display'[v] = display[v]
      BY <2>3 DEF PresentImages, Show
    <3> QED
      BY <2>3, <3>1 DEF Displayed
  <2> QED
    BY <2>2, <2>3
<1>4. ASSUME NEW v \in Viewports, NEW i \in Taken(v)'
      PROVE  i \in Taken(v) /\ <<v, i>> \notin queue[n].targets
  BY <1>2, <1>3 DEF Taken
<1>5. ASSUME NEW v \in Viewports, NEW i \in Taken(v)', ImageOnItsWay(v, i)
      PROVE  ImageOnItsWay(v, i)'
  BY <1>2, <1>4, <1>5 DEF ImageOnItsWay
<1>6. (\A op \in ToSet(queue') : OneImageEach(op)) /\ OneImageEach(batch')
  BY <1>2 DEF ImagesOnTheirWay
<1> QED
  BY <1>4, <1>5, <1>6, ImagesKept

LEMMA ImagesFlip ==
  ASSUME TypeOK, ImagesOnTheirWay, NEW w \in Viewports, EngineFlip(w)
  PROVE  ImagesOnTheirWay'
<1>1. UNCHANGED <<pc, acquired, batch, queue, imageIndex>>
  BY DEF EngineFlip, hostVars, deviceVars
<1>2. ASSUME NEW v \in Viewports, NEW i \in Taken(v)' PROVE i \in Taken(v)
  <2>1. CASE v # w
    BY <2>1, <1>2 DEF EngineFlip, Flip, Taken, Displayed, TypeOK, SwapchainTypeOK
  <2>2. CASE v = w
    <3>1. display[v] \in Seq(Images) /\ Len(display[v]) > 1 /\ display'[v] = Tail(display[v])
          /\ avail'[v] = avail[v] \cup {Head(display[v])}
      BY <2>2 DEF EngineFlip, Flip, TypeOK, SwapchainTypeOK
    <3>2. ASSUME NEW n \in 1 .. Len(display[v]) PROVE display[v][n] # i
      <4>1. CASE n = 1
        BY <1>2, <3>1, <4>1 DEF Taken
      <4>2. CASE n > 1
        <5>1. n - 1 \in 1 .. Len(display'[v]) /\ display'[v][n - 1] = display[v][n]
          BY <3>1, <4>2
        <5> QED
          BY <1>2, <5>1 DEF Taken, Displayed
      <4> QED
        BY <4>1, <4>2
    <3> QED
      BY <1>2, <3>1, <3>2 DEF Taken, Displayed
  <2> QED
    BY <2>1, <2>2
<1> QED
  BY <1>1, <1>2, ImagesKept DEF ImagesOnTheirWay, ImageOnItsWay

LEMMA ImagesNext ==
  ASSUME PlainAnswers, TypeOK, SlotInv, RotationsInStep, ImagesOnTheirWay, [Next]_vars
  PROVE  ImagesOnTheirWay'
<1> USE DEF Goto, hostVars, deviceVars, swapchainVars
<1>0. (\A op \in ToSet(queue) : OneImageEach(op)) /\ OneImageEach(batch)
  BY DEF ImagesOnTheirWay
<1>1. CASE BeginFrame \/ WaitForFence \/ Quit \/ Teardown
  BY <1>0, <1>1, TakenUnchanged, ImagesKept
  DEF BeginFrame, WaitForFence, Quit, Teardown, RendererDelete, CameraDelete, ImageOnItsWay
<1>2. CASE \E result \in AcquireResults : Acquire(result)
  BY <1>2, ImagesAcquire
<1>3. CASE Record
  <2>1. OneImageEach(batch')
    BY <1>3 DEF Record, OneImageEach
  <2>2. \A v \in Viewports : \A i \in Taken(v)' : ImageOnItsWay(v, i) => ImageOnItsWay(v, i)'
    BY <1>3 DEF Record, ImageOnItsWay
  <2> QED
    BY <1>0, <1>3, <2>1, <2>2, TakenUnchanged, ImagesKept DEF Record
<1>4. CASE \E result \in SubmitResults : Submit(result)
  <2>1. ToSet(queue') = ToSet(queue) \cup {batch}
    BY <1>4, AppendedOps DEF Submit, TypeOK, PlainAnswers
  <2>2. \A v \in Viewports : \A i \in Taken(v)' : ImageOnItsWay(v, i) => ImageOnItsWay(v, i)'
    BY <1>4, <2>1 DEF Submit, ImageOnItsWay
  <2> QED
    BY <1>0, <1>4, <2>1, <2>2, TakenUnchanged, ImagesKept DEF Submit
<1>5. CASE PresentStep
  <2>1. \A op \in ToSet(queue') : op \in ToSet(queue) \/ op.targets = batch.targets
    BY <1>5, PresentOp
  <2>2. \A op \in ToSet(queue') : OneImageEach(op)
    BY <1>0, <2>1 DEF OneImageEach
  <2>3. \A v \in Viewports : \A i \in Taken(v)' : ImageOnItsWay(v, i) => ImageOnItsWay(v, i)'
    BY <1>5, PresentOp DEF PresentStep, Present, PresentAs, ImageOnItsWay, PlainAnswers
  <2> QED
    BY <1>0, <1>5, <2>2, <2>3, TakenUnchanged, ImagesKept DEF PresentStep, Present, PresentAs
<1>6. ASSUME NEW n \in 1 .. Len(queue), StartBatch(n) PROVE ImagesOnTheirWay'
  <2>1. /\ ToSet(queue') \subseteq ToSet(queue)
        /\ ToSet(queue) \subseteq ToSet(queue') \cup {queue[n]}
        /\ IsBatch(queue[n])
    BY <1>6, RemovedOps DEF StartBatch, IsBatch
  <2>2. \A v \in Viewports : \A i \in Taken(v)' : ImageOnItsWay(v, i) => ImageOnItsWay(v, i)'
    BY <1>6, <2>1 DEF StartBatch, ImageOnItsWay
  <2> QED
    BY <1>0, <1>6, <2>1, <2>2, TakenUnchanged, ImagesKept DEF StartBatch
<1>7. ASSUME NEW n \in 1 .. Len(queue), PresentImages(n) PROVE ImagesOnTheirWay'
  BY <1>7, ImagesPresented
<1>8. CASE FinishBatch \/ \E s \in AcquireSems : EngineSignal(s)
  BY <1>0, <1>8, TakenUnchanged, ImagesKept DEF FinishBatch, EngineSignal, ImageOnItsWay
<1>9. CASE \E v \in Viewports : EngineFlip(v)
  BY <1>9, ImagesFlip
<1>10. CASE UNCHANGED vars
  BY <1>0, <1>10, TakenUnchanged, ImagesKept DEF vars, ImageOnItsWay
<1> QED
  BY <1>1, <1>2, <1>3, <1>4, <1>5, <1>6, <1>7, <1>8, <1>9, <1>10, NotLost
  DEF Next, FrameStep, PresentStep, Terminated, PlainAnswers

---------------------------------------------------------------------------
LEMMA QuietNext ==
  ASSUME PlainAnswers, TypeOK, QuietAtTheEnd, [Next]_vars
  PROVE  QuietAtTheEnd'
<1> USE DEF QuietAtTheEnd, Goto, hostVars, deviceVars, swapchainVars
<1>1. CASE BeginFrame \/ FrameStep \/ Quit
  BY <1>1
  DEF BeginFrame, FrameStep, WaitForFence, Acquire, Record, Submit, Present, PresentAs, Quit
<1>2. CASE Teardown \/ UNCHANGED vars
  BY <1>2 DEF Teardown, RendererDelete, CameraDelete, vars, PlainAnswers
<1>3. ASSUME NEW n \in 1 .. Len(queue), StartBatch(n) \/ PresentImages(n)
      PROVE  QuietAtTheEnd'
  <2>1. queue # <<>>
    BY <1>3
  <2> QED
    BY <1>3, <2>1 DEF StartBatch, PresentImages
<1>4. CASE FinishBatch
  BY <1>4 DEF FinishBatch
<1>5. CASE (\E s \in AcquireSems : EngineSignal(s)) \/ (\E v \in Viewports : EngineFlip(v))
  BY <1>5 DEF EngineSignal, EngineFlip
<1> QED
  BY <1>1, <1>2, <1>3, <1>4, <1>5, NotLost DEF Next, Terminated, PlainAnswers

(* As long as no answer is mistaken, the rotation of acquire semaphores    *)
(* keeps step with that of the frame slots, and every semaphore and image  *)
(* taken from the engine is on its way to being waited for and given back, *)
(* also across frames whose viewports are culled.                          *)
THEOREM AcquiresInvariant ==
  ASSUME PlainAnswers
  PROVE  Spec => []AcquiresInv
<1>1. Init => AcquiresInv
  <2>1. Init => RotationsInStep /\ ImagesOnTheirWay
    BY InStepInit, ImagesInit
  <2>2. Init => SemsWaitedFor /\ QuietAtTheEnd
    BY DEF Init, SwapchainInit, SemsWaitedFor, QuietAtTheEnd
  <2> QED
    BY <2>1, <2>2 DEF AcquiresInv
<1>2. FramesInv /\ AcquiresInv /\ [Next]_vars => AcquiresInv'
  BY InStepNext, SemsNext, ImagesNext, QuietNext DEF FramesInv, SlotInv, AcquiresInv
<1> QED
  BY <1>1, <1>2, SlotsInvariant, PTL DEF Spec

(* viewport_acquire hands the engine a semaphore that is unsignaled and    *)
(* that nothing submitted still waits for, whatever is culled.             *)
THEOREM SemaphoresFresh ==
  ASSUME PlainAnswers
  PROVE  Spec => []AcquireSemFresh
<1>1. ASSUME FramesInv, AcquiresInv, pc = "acquire", next <= ViewportNum
      PROVE  LET s == <<next, NextSlot(next)>>
             IN  /\ acquireSem[s] = "unsignaled"
                 /\ \A op \in ToSet(queue) : s \notin op.waits
  <2> DEFINE s == <<next, NextSlot(next)>>
  <2>1. next \in Viewports
    BY <1>1, ViewportNumAssumption DEF FramesInv, TypeOK, Viewports
  <2>2. s \in AcquireSems
    BY <1>1, <2>1, NextSlotType DEF FramesInv, AcquireSems
  <2>3. ASSUME NEW op \in ToSet(queue), s \in op.waits PROVE FALSE
    <3> DEFINE age == Backwards(Predecessor(frameIndex), op.frame, FrameNum)
    <3>1. /\ IsBatch(op) /\ acquireIndex[next] \in AcquireSlots
          /\ NextSlot(next) = SlotSem(next, op.frame)
      BY <1>1, <2>3 DEF AcquiresInv, RotationsInStep
    <3>2. op.frame \in Frames /\ frameIndex \in Frames
      BY <1>1, OpsTyped DEF FramesInv, TypeOK, Op
    <3>3. op.frame # frameIndex
      BY <1>1, <3>1 DEF FramesInv, HostHoldsSlot, DeviceUses, Pending
    <3>4. age \in Nat /\ age + 1 < FrameNum
      BY <3>2, <3>3, FrameAges
    <3>5. SlotSem(next, op.frame) = Backwards(acquireIndex[next], age, AcquireNum)
      BY <1>1, <2>1 DEF SlotSem, AcquireFrame, Viewports
    <3> HIDE DEF age
    <3>6. age + 1 < AcquireNum
      BY <3>4, FrameNumAssumption, AcquireNumAssumption DEF PlainAnswers
    <3> QED
      BY <2>1, <3>1, <3>4, <3>5, <3>6, SemAges
  <2>4. next \notin acquired
    BY <1>1 DEF AcquiresInv, RotationsInStep, FramesInv, TypeOK, Viewports
  <2>5. acquireSem[s] = "unsignaled"
    BY <1>1, <2>2, <2>3, <2>4 DEF AcquiresInv, SemsWaitedFor, SemWaitedFor
  <2> QED
    BY <2>3, <2>5
<1>2. FramesInv /\ AcquiresInv => AcquireSemFresh
  BY <1>1 DEF AcquireSemFresh
<1> QED
  BY <1>2, SlotsInvariant, AcquiresInvariant, PTL

(* renderer_delete and camera_delete destroy nothing that the device, the  *)
(* engine or the screen still uses.                                        *)
THEOREM TeardownFindsIdle ==
  ASSUME PlainAnswers
  PROVE  Spec => []TeardownIdle
<1>1. AcquiresInv => TeardownIdle
  <2> SUFFICES ASSUME AcquiresInv PROVE TeardownIdle
    OBVIOUS
  <2>1. ASSUME pc \in {"no_frames", "deleted"} PROVE ToSet(queue) = {} /\ Pending = {}
    BY <2>1 DEF AcquiresInv, QuietAtTheEnd, Pending, ToSet
  <2> QED
    BY <2>1 DEF TeardownIdle, AcquiresInv, SemsWaitedFor, SemWaitedFor, ImagesOnTheirWay
<1> QED
  BY <1>1, AcquiresInvariant, PTL

---------------------------------------------------------------------------
(* Present requests, which no fence covers, take the signals of their      *)
(* batches and show images that nothing draws to.                          *)

(***************************************************************************)
(* What is assumed: batches and present requests keep their order, as      *)
(* Vulkan says of the operations of one queue, vkQueueSubmit succeeds and  *)
(* the device is not lost.  Frames may be culled, in part or as a whole,   *)
(* and vkQueuePresentKHR may fail: what follows holds of the slots in      *)
(* which that has not happened, and says that it spoils no other slot.     *)
(***************************************************************************)
InOrder ==
  /\ PresentHolds = TRUE
  /\ SubmitResults = {"ok"}
  /\ DeviceMayBeLost = FALSE

LEMMA AppendedAt ==
  ASSUME TypeOK, NEW op \in Op, queue' = Append(queue, op)
  PROVE  /\ Len(queue) \in Nat /\ Len(queue') = Len(queue) + 1
         /\ DOMAIN queue = 1 .. Len(queue)
         /\ DOMAIN queue' = 1 .. Len(queue) + 1
         /\ \A k \in DOMAIN queue : queue'[k] = queue[k]
         /\ queue'[Len(queue) + 1] = op
<1>1. queue \in Seq(Op)
  BY DEF TypeOK
<1> QED
  BY <1>1

(* With PresentHolds only the first operation of the queue begins.         *)
LEMMA FirstBegins ==
  ASSUME PresentHolds = TRUE, TypeOK,
         NEW n \in 1 .. Len(queue), StartBatch(n) \/ PresentImages(n)
  PROVE  /\ n = 1
         /\ Len(queue) \in Nat /\ Len(queue') = Len(queue) - 1
         /\ DOMAIN queue = 1 .. Len(queue)
         /\ DOMAIN queue' = 1 .. Len(queue) - 1
         /\ 1 \in DOMAIN queue /\ queue[1] \in Op
         /\ \A k \in DOMAIN queue' : k + 1 \in DOMAIN queue /\ queue'[k] = queue[k + 1]
         /\ \A m \in DOMAIN queue : m # 1 => m - 1 \in DOMAIN queue' /\ queue'[m - 1] = queue[m]
<1>1. queue \in Seq(Op) /\ Len(queue) \in Nat /\ DOMAIN queue = 1 .. Len(queue)
  BY DEF TypeOK
<1>2. n = 1
  <2>1. ~ (1 \in 1 .. n - 1)
    BY DEF StartBatch, PresentImages, CanBegin
  <2> QED
    BY <1>1, <2>1
<1>3. queue' = RemoveAt(queue, 1)
  BY <1>2 DEF StartBatch, PresentImages
<1>4. /\ queue' \in Seq(Op) /\ Len(queue') = Len(queue) - 1
      /\ \A k \in 1 .. Len(queue) - 1 :
           queue'[k] = IF k < 1 THEN queue[k] ELSE queue[k + 1]
  BY <1>1, <1>2, <1>3, RemoveAtFacts
<1>5. DOMAIN queue' = 1 .. Len(queue) - 1
  BY <1>1, <1>4, LenProperties
<1>6. \A k \in DOMAIN queue' : k + 1 \in DOMAIN queue /\ queue'[k] = queue[k + 1]
  BY <1>1, <1>4, <1>5
<1>7. \A m \in DOMAIN queue : m # 1 => m - 1 \in DOMAIN queue' /\ queue'[m - 1] = queue[m]
  <2> SUFFICES ASSUME NEW m \in DOMAIN queue, m # 1
               PROVE  m - 1 \in DOMAIN queue' /\ queue'[m - 1] = queue[m]
    OBVIOUS
  <2>1. m - 1 \in DOMAIN queue' /\ (m - 1) + 1 = m
    BY <1>1, <1>5
  <2> QED
    BY <1>6, <2>1
<1> QED
  BY <1>1, <1>2, <1>4, <1>5, <1>6, <1>7

LEMMA HeadBegins ==
  ASSUME InOrder, TypeOK, NEW n \in 1 .. Len(queue), StartBatch(n) \/ PresentImages(n)
  PROVE  /\ n = 1
         /\ Len(queue) \in Nat /\ Len(queue') = Len(queue) - 1
         /\ DOMAIN queue = 1 .. Len(queue)
         /\ DOMAIN queue' = 1 .. Len(queue) - 1
         /\ 1 \in DOMAIN queue /\ queue[1] \in Op
         /\ \A k \in DOMAIN queue' : k + 1 \in DOMAIN queue /\ queue'[k] = queue[k + 1]
         /\ \A m \in DOMAIN queue : m # 1 => m - 1 \in DOMAIN queue' /\ queue'[m - 1] = queue[m]
BY FirstBegins DEF InOrder

(* The present request that vkQueuePresentKHR puts behind the queue, or    *)
(* that the slot of the frame is left without.                             *)
LEMMA PresentAppends ==
  ASSUME TypeOK, PresentStep
  PROVE  \/ /\ \E op \in Op : queue' = Append(queue, op) /\ Shows(op, batch)
            /\ unpresented' = unpresented
         \/ queue' = queue /\ unpresented' = unpresented \cup {frameIndex}
<1> DEFINE op == Request
<1>1. op \in Op /\ Shows(op, batch)
  BY DEF TypeOK, Op, IsBatch, Shows, Request
<1>2. \/ queue' = Append(queue, op) /\ unpresented' = unpresented
      \/ queue' = queue /\ unpresented' = unpresented \cup {frameIndex}
  BY DEF PresentStep, Present, PresentAs
<1> HIDE DEF op
<1> QED
  BY <1>1, <1>2

---------------------------------------------------------------------------
(* Each batch that has not completed is followed by its present request.   *)

LEMMA FollowsElse ==
  ASSUME PresentFollows, UNCHANGED <<queue, unpresented>>,
         ToSet(running') \subseteq ToSet(running),
         pc = "present" => pc' = "present" /\ batch' = batch
  PROVE  PresentFollows'
BY DEF PresentFollows, Shows, IsBatch

LEMMA FollowsSubmit ==
  ASSUME InOrder, TypeOK, PresentFollows, NEW result \in SubmitResults, Submit(result)
  PROVE  PresentFollows'
<1>1. /\ queue' = Append(queue, batch) /\ batch \in Op
      /\ pc = "submit" /\ pc' = "present" /\ UNCHANGED <<batch, running, unpresented>>
  BY DEF Submit, Goto, InOrder, TypeOK
<1>2. ASSUME NEW n \in DOMAIN queue', IsBatch(queue'[n]), queue'[n] # batch,
             queue'[n].frame \notin unpresented
      PROVE  \E m \in n + 1 .. Len(queue') : Shows(queue'[m], queue'[n])
  <2>1. n \in DOMAIN queue /\ queue'[n] = queue[n]
    BY <1>1, <1>2, AppendedAt
  <2>2. PICK m \in n + 1 .. Len(queue) : Shows(queue[m], queue[n])
    BY <1>1, <1>2, <2>1 DEF PresentFollows
  <2>3. m \in n + 1 .. Len(queue') /\ queue'[m] = queue[m]
    BY <1>1, <2>1, <2>2, AppendedAt
  <2> QED
    BY <2>1, <2>2, <2>3
<1>3. ASSUME NEW op \in ToSet(running), op.frame \notin unpresented
      PROVE  \E n \in DOMAIN queue' : Shows(queue'[n], op)
  <2>1. PICK n \in DOMAIN queue : Shows(queue[n], op)
    BY <1>1, <1>3 DEF PresentFollows
  <2> QED
    BY <1>1, <2>1, AppendedAt
<1> QED
  BY <1>1, <1>2, <1>3 DEF PresentFollows, Shows, IsBatch

(* The frame has its request ...                                           *)
LEMMA FollowsRequest ==
  ASSUME TypeOK, PresentFollows, PresentStep, UNCHANGED unpresented,
         NEW req \in Op, queue' = Append(queue, req), Shows(req, batch)
  PROVE  PresentFollows'
<1>1. queue' = Append(queue, req) /\ Shows(req, batch)
  OBVIOUS
<1>2. UNCHANGED <<batch, running>>
  BY DEF PresentStep, Present, PresentAs
<1>3. ASSUME NEW n \in DOMAIN queue', IsBatch(queue'[n]), queue'[n].frame \notin unpresented
      PROVE  \E m \in n + 1 .. Len(queue') : Shows(queue'[m], queue'[n])
  <2>1. n \in DOMAIN queue /\ queue'[n] = queue[n]
    BY <1>1, <1>3, AppendedAt DEF Shows
  <2>2. CASE queue[n] = batch
    <3>1. Len(queue) + 1 \in n + 1 .. Len(queue')
      BY <1>1, <2>1, AppendedAt
    <3> QED
      BY <1>1, <2>1, <2>2, <3>1, AppendedAt
  <2>3. CASE queue[n] # batch
    <3>1. PICK m \in n + 1 .. Len(queue) : Shows(queue[m], queue[n])
      BY <1>3, <2>1, <2>3 DEF PresentFollows
    <3>2. m \in n + 1 .. Len(queue') /\ queue'[m] = queue[m]
      BY <1>1, <2>1, <3>1, AppendedAt
    <3> QED
      BY <2>1, <3>1, <3>2
  <2> QED
    BY <2>2, <2>3
<1>4. ASSUME NEW op \in ToSet(running), op.frame \notin unpresented
      PROVE  \E n \in DOMAIN queue' : Shows(queue'[n], op)
  <2>1. CASE op = batch
    BY <1>1, <2>1, AppendedAt
  <2>2. CASE op # batch
    <3>1. PICK n \in DOMAIN queue : Shows(queue[n], op)
      BY <1>4, <2>2 DEF PresentFollows
    <3> QED
      BY <1>1, <3>1, AppendedAt
  <2> QED
    BY <2>1, <2>2
<1> QED
  BY <1>2, <1>3, <1>4 DEF PresentFollows, Shows, IsBatch

(* ... or its slot is left without, and no batch of it is promised one.    *)
LEMMA FollowsPresent ==
  ASSUME TypeOK, PresentFollows, HostPresents, PresentStep
  PROVE  PresentFollows'
<1>1. CASE queue' = queue /\ unpresented' = unpresented \cup {frameIndex}
  <2>1. UNCHANGED running /\ batch.frame = frameIndex
    BY DEF PresentStep, Present, PresentAs, Goto, HostPresents
  <2> QED
    BY <1>1, <2>1 DEF PresentFollows, Shows, IsBatch
<1> QED
  BY <1>1, PresentAppends, FollowsRequest

(* When the first of the queue begins, the others keep their requests.     *)
LEMMA FollowsBegin ==
  ASSUME InOrder, TypeOK, PresentFollows,
         NEW n \in 1 .. Len(queue), StartBatch(n) \/ PresentImages(n)
  PROVE  /\ \A k \in DOMAIN queue' : IsBatch(queue'[k]) /\ queue'[k].frame \notin unpresented =>
              \/ pc = "present" /\ queue'[k] = batch
              \/ \E m \in k + 1 .. Len(queue') : Shows(queue'[m], queue'[k])
         /\ IsBatch(queue[1]) /\ queue[1].frame \notin unpresented =>
              \/ pc = "present" /\ queue[1] = batch
              \/ \E m \in DOMAIN queue' : Shows(queue'[m], queue[1])
<1>1. ASSUME NEW k \in DOMAIN queue', IsBatch(queue'[k]), queue'[k].frame \notin unpresented,
             ~(pc = "present" /\ queue'[k] = batch)
      PROVE  \E m \in k + 1 .. Len(queue') : Shows(queue'[m], queue'[k])
  <2>1. k + 1 \in DOMAIN queue /\ queue'[k] = queue[k + 1]
    BY HeadBegins
  <2>2. PICK m \in (k + 1) + 1 .. Len(queue) : Shows(queue[m], queue[k + 1])
    BY <1>1, <2>1 DEF PresentFollows
  <2>0. /\ Len(queue) \in Nat /\ Len(queue') = Len(queue) - 1
        /\ DOMAIN queue = 1 .. Len(queue) /\ k \in 1 .. Len(queue) - 1
    BY HeadBegins
  <2>3. m \in DOMAIN queue /\ m # 1 /\ m - 1 \in k + 1 .. Len(queue')
    BY <2>0, <2>2
  <2>4. queue'[m - 1] = queue[m]
    BY <2>3, HeadBegins
  <2> QED
    BY <2>1, <2>2, <2>3, <2>4
<1>2. ASSUME IsBatch(queue[1]), queue[1].frame \notin unpresented,
             ~(pc = "present" /\ queue[1] = batch)
      PROVE  \E m \in DOMAIN queue' : Shows(queue'[m], queue[1])
  <2>1. 1 \in DOMAIN queue
    BY HeadBegins
  <2>2. PICK m \in 1 + 1 .. Len(queue) : Shows(queue[m], queue[1])
    BY <1>2, <2>1 DEF PresentFollows
  <2>3. m \in DOMAIN queue /\ m # 1
    BY <2>2, HeadBegins
  <2> QED
    BY <2>2, <2>3, HeadBegins
<1> QED
  BY <1>1, <1>2

LEMMA FollowsStartBatch ==
  ASSUME InOrder, TypeOK, PresentFollows, NEW n \in 1 .. Len(queue), StartBatch(n)
  PROVE  PresentFollows'
<1>1. n = 1 /\ UNCHANGED <<pc, batch, unpresented>> /\ IsBatch(queue[1])
  BY HeadBegins DEF StartBatch, hostVars, IsBatch
<1>2. ToSet(running') \subseteq ToSet(running) \cup {queue[1]}
  <2>1. /\ Len(running) \in Nat /\ DOMAIN running = 1 .. Len(running)
        /\ DOMAIN running' = 1 .. Len(running) + 1
        /\ \A k \in 1 .. Len(running) : running'[k] = running[k]
        /\ running'[Len(running) + 1] = queue[1]
    BY <1>1, HeadBegins DEF StartBatch, TypeOK
  <2>2. \A k \in DOMAIN running' : k \in DOMAIN running \/ k = Len(running) + 1
    BY <2>1
  <2> QED
    BY <2>1, <2>2 DEF ToSet
<1>3. ASSUME NEW op \in ToSet(running), NEW m \in DOMAIN queue, Shows(queue[m], op)
      PROVE  \E k \in DOMAIN queue' : Shows(queue'[k], op)
  BY <1>1, <1>3, HeadBegins DEF Shows
<1> QED
  BY <1>1, <1>2, <1>3, FollowsBegin DEF PresentFollows, Shows, IsBatch

(* A request whose turn it is is not that of a batch still executing.      *)
LEMMA FollowsPresentImages ==
  ASSUME InOrder, TypeOK, PresentFollows, SignalsTaken,
         NEW n \in 1 .. Len(queue), PresentImages(n)
  PROVE  PresentFollows'
<1>1. n = 1 /\ UNCHANGED <<pc, batch, running, unpresented>> /\ onFinished[queue[1].frame]
  BY HeadBegins DEF PresentImages, hostVars
<1>2. queue[1].frame \notin unpresented => \A op \in ToSet(running) : op.frame # queue[1].frame
  BY <1>1, HeadBegins DEF SignalsTaken, Op
<1>3. ASSUME NEW op \in ToSet(running), op.frame \notin unpresented,
             NEW m \in DOMAIN queue, Shows(queue[m], op)
      PROVE  \E k \in DOMAIN queue' : Shows(queue'[k], op)
  <2>1. m # 1
    BY <1>2, <1>3 DEF Shows
  <2> QED
    BY <1>3, <2>1, HeadBegins
<1> QED
  BY <1>1, <1>3, FollowsBegin DEF PresentFollows, Shows, IsBatch

LEMMA FinishShrinks ==
  ASSUME TypeOK, FinishBatch
  PROVE  /\ ToSet(running') \subseteq ToSet(running)
         /\ Head(running) \in ToSet(running) /\ Head(running) \in Op
         /\ OneBatchPerSlot => \A op \in ToSet(running') : op.frame # Head(running).frame
<1>1. /\ running \in Seq(Op) /\ Len(running) \in Nat /\ Len(running) >= 1
      /\ DOMAIN running = 1 .. Len(running) /\ Head(running) = running[1]
      /\ DOMAIN running' = 1 .. Len(running) - 1
      /\ \A k \in 1 .. Len(running) - 1 : running'[k] = running[k + 1]
  BY DEF TypeOK, FinishBatch
<1>2. 1 \in DOMAIN running /\ \A k \in DOMAIN running' : k + 1 \in DOMAIN running /\ k + 1 # 1
  BY <1>1
<1>3. ASSUME OneBatchPerSlot, NEW k \in DOMAIN running'
      PROVE  running'[k].frame # running[1].frame
  BY <1>1, <1>2, <1>3 DEF OneBatchPerSlot
<1> QED
  BY <1>1, <1>2, <1>3 DEF ToSet

LEMMA FollowsNext ==
  ASSUME InOrder, TypeOK, PresentFollows, SignalsTaken, HostPresents, [Next]_vars
  PROVE  PresentFollows'
<1> USE DEF Goto, hostVars, deviceVars, swapchainVars
<1>1. CASE BeginFrame \/ WaitForFence \/ Record \/ Quit \/ Teardown
  BY <1>1, FollowsElse
  DEF BeginFrame, WaitForFence, Record, Quit, Teardown, RendererDelete, CameraDelete
<1>2. CASE \E result \in AcquireResults : Acquire(result)
  BY <1>2, FollowsElse DEF Acquire
<1>3. CASE \E result \in SubmitResults : Submit(result)
  BY <1>3, FollowsSubmit
<1>4. CASE PresentStep
  BY <1>4, FollowsPresent
<1>5. CASE \E n \in 1 .. Len(queue) : StartBatch(n) \/ PresentImages(n)
  BY <1>5, FollowsStartBatch, FollowsPresentImages
<1>6. CASE FinishBatch
  BY <1>6, FinishShrinks, FollowsElse DEF FinishBatch
<1>7. CASE (\E s \in AcquireSems : EngineSignal(s)) \/ (\E v \in Viewports : EngineFlip(v))
  BY <1>7, FollowsElse DEF EngineSignal, EngineFlip
<1>8. CASE UNCHANGED vars
  BY <1>8, FollowsElse DEF vars
<1> QED
  BY <1>1, <1>2, <1>3, <1>4, <1>5, <1>6, <1>7, <1>8, NotLost
  DEF Next, FrameStep, PresentStep, Terminated, InOrder

---------------------------------------------------------------------------
(* on_finished is signaled only while a request that takes it is due.      *)

Due(f) == \E n \in DOMAIN queue : ~IsBatch(queue[n]) /\ queue[n].frame = f

DueBefore(q, n, f) == \E m \in 1 .. n - 1 : ~IsBatch(q[m]) /\ q[m].frame = f

(* What SignalsTaken says of one slot.                                     *)
SignalTaken(f) ==
  /\ \A op \in ToSet(running) : op.frame # f
  /\ \A n \in DOMAIN queue : IsBatch(queue[n]) /\ queue[n].frame = f => DueBefore(queue, n, f)
  /\ (pc = "present" /\ frameIndex = f) \/ Due(f)

LEMMA SignalsElse ==
  ASSUME SignalsTaken, UNCHANGED <<queue, onFinished, unpresented>>,
         ToSet(running') \subseteq ToSet(running),
         pc = "present" => pc' = "present" /\ frameIndex' = frameIndex
  PROVE  SignalsTaken'
BY DEF SignalsTaken, IsBatch

LEMMA SignalsSubmit ==
  ASSUME InOrder, TypeOK, SignalsTaken, HostPresents,
         NEW result \in SubmitResults, Submit(result)
  PROVE  SignalsTaken'
<1>1. /\ queue' = Append(queue, batch) /\ batch \in Op /\ batch.frame = frameIndex
      /\ pc = "submit" /\ UNCHANGED <<running, onFinished, unpresented>>
  BY DEF Submit, Goto, InOrder, TypeOK, HostPresents
<1> SUFFICES ASSUME NEW f \in Frames \ unpresented, onFinished[f] PROVE SignalTaken(f)'
  BY <1>1 DEF SignalsTaken, SignalTaken, Due, DueBefore, IsBatch
<1>2. SignalTaken(f) /\ Due(f)
  BY <1>1 DEF SignalsTaken, SignalTaken, Due, DueBefore
<1>3. PICK m \in DOMAIN queue : ~IsBatch(queue[m]) /\ queue[m].frame = f
  BY <1>2 DEF Due
<1>4. m \in DOMAIN queue' /\ queue'[m] = queue[m] /\ m \in 1 .. Len(queue)
  BY <1>1, AppendedAt
<1>5. ASSUME NEW n \in DOMAIN queue', IsBatch(queue'[n]), queue'[n].frame = f
      PROVE  DueBefore(queue', n, f)
  <2>1. CASE n = Len(queue) + 1
    <3>1. m \in 1 .. n - 1
      BY <1>1, <1>4, <2>1, AppendedAt
    <3> QED
      BY <1>3, <1>4, <3>1 DEF DueBefore
  <2>2. CASE n # Len(queue) + 1
    <3>1. n \in DOMAIN queue /\ queue'[n] = queue[n]
      BY <1>1, <2>2, AppendedAt
    <3>2. PICK k \in 1 .. n - 1 : ~IsBatch(queue[k]) /\ queue[k].frame = f
      BY <1>2, <1>5, <3>1 DEF SignalTaken, DueBefore
    <3>3. queue'[k] = queue[k]
      BY <1>1, <3>1, <3>2, AppendedAt
    <3> QED
      BY <3>2, <3>3 DEF DueBefore
  <2> QED
    BY <2>1, <2>2
<1>6. Due(f)'
  BY <1>3, <1>4 DEF Due, IsBatch
<1> QED
  BY <1>1, <1>2, <1>5, <1>6 DEF SignalTaken, DueBefore, IsBatch

LEMMA SignalsRequest ==
  ASSUME TypeOK, SignalsTaken, HostPresents, PresentStep, UNCHANGED unpresented,
         NEW req \in Op, queue' = Append(queue, req), Shows(req, batch)
  PROVE  SignalsTaken'
<1>1. queue' = Append(queue, req) /\ Shows(req, batch)
  OBVIOUS
<1>2. UNCHANGED <<running, onFinished>> /\ req.frame = frameIndex /\ ~IsBatch(req)
  BY <1>1 DEF PresentStep, Present, PresentAs, Goto, HostPresents, Shows
<1> SUFFICES ASSUME NEW f \in Frames \ unpresented, onFinished[f] PROVE SignalTaken(f)'
  BY <1>2 DEF SignalsTaken, SignalTaken, Due, DueBefore, IsBatch
<1>3. SignalTaken(f)
  BY DEF SignalsTaken, SignalTaken, Due, DueBefore
<1>4. Due(f)'
  <2>1. CASE Due(f)
    <3>1. PICK m \in DOMAIN queue : ~IsBatch(queue[m]) /\ queue[m].frame = f
      BY <2>1 DEF Due
    <3>2. m \in DOMAIN queue' /\ queue'[m] = queue[m]
      BY <1>1, AppendedAt
    <3> QED
      BY <3>1, <3>2 DEF Due, IsBatch
  <2>2. CASE frameIndex = f
    <3>1. Len(queue) + 1 \in DOMAIN queue' /\ queue'[Len(queue) + 1] = req
      BY <1>1, AppendedAt
    <3> QED
      BY <1>2, <2>2, <3>1 DEF Due, IsBatch
  <2> QED
    BY <1>3, <2>1, <2>2 DEF SignalTaken
<1>5. ASSUME NEW n \in DOMAIN queue', IsBatch(queue'[n]), queue'[n].frame = f
      PROVE  DueBefore(queue', n, f)
  <2>1. n \in DOMAIN queue /\ queue'[n] = queue[n]
    BY <1>1, <1>2, <1>5, AppendedAt
  <2>2. PICK k \in 1 .. n - 1 : ~IsBatch(queue[k]) /\ queue[k].frame = f
    BY <1>3, <1>5, <2>1 DEF SignalTaken, DueBefore
  <2>3. queue'[k] = queue[k]
    BY <1>1, <2>1, <2>2, AppendedAt
  <2> QED
    BY <2>2, <2>3 DEF DueBefore
<1> QED
  BY <1>2, <1>3, <1>4, <1>5 DEF SignalTaken, DueBefore, IsBatch

LEMMA SignalsPresent ==
  ASSUME TypeOK, SignalsTaken, HostPresents, PresentStep
  PROVE  SignalsTaken'
<1>1. CASE queue' = queue /\ unpresented' = unpresented \cup {frameIndex}
  <2>1. UNCHANGED <<running, onFinished>> /\ pc = "present"
    BY DEF PresentStep, Present, PresentAs, Goto
  <2> QED
    BY <1>1, <2>1 DEF SignalsTaken, IsBatch
<1> QED
  BY <1>1, PresentAppends, SignalsRequest

(* What the first operation leaves behind is due as it was, unless it took *)
(* the signal.                                                             *)
LEMMA SignalsBegin ==
  ASSUME InOrder, TypeOK, NEW n \in 1 .. Len(queue), StartBatch(n) \/ PresentImages(n),
         NEW f \in Frames, SignalTaken(f), IsBatch(queue[1]) \/ queue[1].frame # f
  PROVE  /\ \A k \in DOMAIN queue' :
              IsBatch(queue'[k]) /\ queue'[k].frame = f => DueBefore(queue', k, f)
         /\ (pc = "present" /\ frameIndex = f) \/ Due(f)'
<1>1. ASSUME NEW k \in DOMAIN queue', IsBatch(queue'[k]), queue'[k].frame = f
      PROVE  DueBefore(queue', k, f)
  <2>1. k + 1 \in DOMAIN queue /\ queue'[k] = queue[k + 1]
    BY HeadBegins
  <2>2. PICK m \in 1 .. (k + 1) - 1 : ~IsBatch(queue[m]) /\ queue[m].frame = f
    BY <1>1, <2>1 DEF SignalTaken, DueBefore
  <2>0. Len(queue) \in Nat /\ DOMAIN queue = 1 .. Len(queue) /\ k \in 1 .. Len(queue) - 1
    BY HeadBegins
  <2>5. m # 1
    BY <2>2
  <2>3. m \in DOMAIN queue /\ m # 1 /\ m - 1 \in 1 .. k - 1
    BY <2>0, <2>5
  <2>4. queue'[m - 1] = queue[m]
    BY <2>3, HeadBegins
  <2> QED
    BY <2>2, <2>3, <2>4 DEF DueBefore
<1>2. ASSUME Due(f) PROVE Due(f)'
  <2>1. PICK m \in DOMAIN queue : ~IsBatch(queue[m]) /\ queue[m].frame = f
    BY <1>2 DEF Due
  <2>2. m - 1 \in DOMAIN queue' /\ queue'[m - 1] = queue[m]
    BY <2>1, HeadBegins
  <2> QED
    BY <2>1, <2>2 DEF Due, IsBatch
<1> QED
  BY <1>1, <1>2 DEF SignalTaken

LEMMA SignalsStartBatch ==
  ASSUME InOrder, TypeOK, SignalsTaken, NEW n \in 1 .. Len(queue), StartBatch(n)
  PROVE  SignalsTaken'
<1>1. n = 1 /\ UNCHANGED <<pc, frameIndex, onFinished, unpresented>> /\ IsBatch(queue[1])
  BY HeadBegins DEF StartBatch, hostVars, IsBatch
<1> SUFFICES ASSUME NEW f \in Frames \ unpresented, onFinished[f] PROVE SignalTaken(f)'
  BY <1>1 DEF SignalsTaken, SignalTaken, Due, DueBefore, IsBatch
<1>2. SignalTaken(f)
  BY DEF SignalsTaken, SignalTaken, Due, DueBefore
<1>3. queue[1].frame # f
  <2>1. ~DueBefore(queue, 1, f)
    BY DEF DueBefore
  <2> QED
    BY <1>1, <1>2, <2>1, HeadBegins DEF SignalTaken
<1>4. \A op \in ToSet(running') : op.frame # f
  <2>1. /\ Len(running) \in Nat /\ DOMAIN running = 1 .. Len(running)
        /\ DOMAIN running' = 1 .. Len(running) + 1
        /\ \A k \in 1 .. Len(running) : running'[k] = running[k]
        /\ running'[Len(running) + 1] = queue[1]
    BY <1>1, HeadBegins DEF StartBatch, TypeOK
  <2>2. \A k \in DOMAIN running' : k \in DOMAIN running \/ k = Len(running) + 1
    BY <2>1
  <2> QED
    BY <1>2, <1>3, <2>1, <2>2 DEF SignalTaken, ToSet
<1> QED
  BY <1>1, <1>2, <1>4, SignalsBegin DEF SignalTaken, DueBefore, IsBatch

LEMMA SignalsPresentImages ==
  ASSUME InOrder, TypeOK, SignalsTaken, NEW n \in 1 .. Len(queue), PresentImages(n)
  PROVE  SignalsTaken'
<1>1. /\ n = 1 /\ UNCHANGED <<pc, frameIndex, running, unpresented>>
      /\ queue[1].frame \in Frames
      /\ onFinished' = [onFinished EXCEPT ![queue[1].frame] = FALSE]
  BY HeadBegins DEF PresentImages, hostVars, Op
<1> SUFFICES ASSUME NEW f \in Frames \ unpresented, onFinished'[f] PROVE SignalTaken(f)'
  BY <1>1 DEF SignalsTaken, SignalTaken, Due, DueBefore, IsBatch
<1>2. queue[1].frame # f /\ onFinished[f]
  BY <1>1 DEF TypeOK
<1>3. SignalTaken(f)
  BY <1>2 DEF SignalsTaken, SignalTaken, Due, DueBefore
<1> QED
  BY <1>1, <1>2, <1>3, SignalsBegin DEF SignalTaken, DueBefore, IsBatch

(* The batch that completes has its request behind it, and no other batch  *)
(* of its slot is there.                                                   *)
LEMMA SignalsFinish ==
  ASSUME TypeOK, SlotInv, PresentFollows, SignalsTaken, HostPresents, FinishBatch
  PROVE  SignalsTaken'
<1> DEFINE done == Head(running)
<1>1. /\ UNCHANGED <<pc, frameIndex, queue, unpresented>>
      /\ done \in ToSet(running) /\ done.frame \in Frames
      /\ onFinished' = [onFinished EXCEPT ![done.frame] = TRUE]
      /\ ToSet(running') \subseteq ToSet(running)
      /\ \A op \in ToSet(running') : op.frame # done.frame
  BY FinishShrinks DEF FinishBatch, hostVars, Op, SlotInv
<1>2. \A n \in DOMAIN queue : IsBatch(queue[n]) => queue[n].frame # done.frame
  BY <1>1 DEF SlotInv, OneBatchPerSlot, ToSet
<1>3. \/ done.frame \in unpresented
      \/ (pc = "present" /\ frameIndex = done.frame) \/ Due(done.frame)
  BY <1>1 DEF PresentFollows, HostPresents, Shows, Due
<1> HIDE DEF done
<1> SUFFICES ASSUME NEW f \in Frames \ unpresented, onFinished'[f] PROVE SignalTaken(f)'
  BY <1>1 DEF SignalsTaken, SignalTaken, Due, DueBefore, IsBatch
<1>4. CASE f = done.frame
  BY <1>1, <1>2, <1>3, <1>4 DEF SignalTaken, DueBefore, Due, IsBatch
<1>5. CASE f # done.frame
  <2>1. onFinished[f]
    BY <1>1, <1>5 DEF TypeOK
  <2>2. SignalTaken(f)
    BY <2>1 DEF SignalsTaken, SignalTaken, Due, DueBefore
  <2> QED
    BY <1>1, <2>2 DEF SignalTaken, DueBefore, Due, IsBatch
<1> QED
  BY <1>4, <1>5

LEMMA SignalsNext ==
  ASSUME InOrder, TypeOK, SlotInv, PresentFollows, SignalsTaken, HostPresents, [Next]_vars
  PROVE  SignalsTaken'
<1> USE DEF Goto, hostVars, deviceVars, swapchainVars
<1>1. CASE BeginFrame \/ WaitForFence \/ Record \/ Quit \/ Teardown
  BY <1>1, SignalsElse
  DEF BeginFrame, WaitForFence, Record, Quit, Teardown, RendererDelete, CameraDelete
<1>2. CASE \E result \in AcquireResults : Acquire(result)
  BY <1>2, SignalsElse DEF Acquire
<1>3. CASE \E result \in SubmitResults : Submit(result)
  BY <1>3, SignalsSubmit
<1>4. CASE PresentStep
  BY <1>4, SignalsPresent
<1>5. CASE \E n \in 1 .. Len(queue) : StartBatch(n) \/ PresentImages(n)
  BY <1>5, SignalsStartBatch, SignalsPresentImages
<1>6. CASE FinishBatch
  BY <1>6, SignalsFinish
<1>7. CASE (\E s \in AcquireSems : EngineSignal(s)) \/ (\E v \in Viewports : EngineFlip(v))
  BY <1>7, SignalsElse DEF EngineSignal, EngineFlip
<1>8. CASE UNCHANGED vars
  BY <1>8, SignalsElse DEF vars
<1> QED
  BY <1>1, <1>2, <1>3, <1>4, <1>5, <1>6, <1>7, <1>8, NotLost
  DEF Next, FrameStep, PresentStep, Terminated, InOrder

(* What is submitted and presented is of the current slot.                 *)
LEMMA HostPresentsNext ==
  ASSUME TypeOK, HostPresents, [Next]_vars
  PROVE  HostPresents'
<1> USE DEF HostPresents, Goto, hostVars, deviceVars, swapchainVars
<1>1. CASE BeginFrame \/ WaitForFence \/ Quit \/ Teardown
  BY <1>1 DEF BeginFrame, WaitForFence, Quit, Teardown, RendererDelete, CameraDelete
<1>2. ASSUME NEW result \in AcquireResults, Acquire(result) PROVE HostPresents'
  BY <1>2 DEF Acquire
<1>3. CASE Record
  BY <1>3 DEF Record
<1>4. CASE (\E result \in SubmitResults : Submit(result)) \/ PresentStep
  BY <1>4 DEF Submit, PresentStep, Present, PresentAs
<1>5. CASE \E n \in 1 .. Len(queue) : StartBatch(n) \/ PresentImages(n)
  BY <1>5 DEF StartBatch, PresentImages
<1>6. CASE FinishBatch \/ DeviceLost
  BY <1>6 DEF FinishBatch, DeviceLost
<1>7. CASE (\E s \in AcquireSems : EngineSignal(s)) \/ (\E v \in Viewports : EngineFlip(v))
  BY <1>7 DEF EngineSignal, EngineFlip
<1>8. CASE UNCHANGED vars
  BY <1>8 DEF vars
<1> QED
  BY <1>1, <1>2, <1>3, <1>4, <1>5, <1>6, <1>7, <1>8
  DEF Next, FrameStep, PresentStep, Terminated
---------------------------------------------------------------------------
(* The engine never has an image twice.                                    *)

(* A present request adds the images it shows, and no others.              *)
LEMMA ShownImages ==
  ASSUME TypeOK, NEW n \in 1 .. Len(queue), PresentImages(n), NEW v \in Viewports
  PROVE  \/ display'[v] = display[v]
         \/ \E i \in Images : /\ <<v, i>> \in queue[n].targets
                              /\ display'[v] = Append(display[v], i)
<1>1. CASE \E i \in Images : <<v, i>> \in queue[n].targets
  <2>1. PICK i \in Images : /\ <<v, i>> \in queue[n].targets
                            /\ i = CHOOSE j \in Images : <<v, j>> \in queue[n].targets
    BY <1>1
  <2>2. display'[v] = Append(display[v], i)
    BY <1>1, <2>1 DEF PresentImages, Show
  <2> QED
    BY <2>1, <2>2
<1>2. CASE ~ \E i \in Images : <<v, i>> \in queue[n].targets
  BY <1>2 DEF PresentImages, Show
<1> QED
  BY <1>1, <1>2

LEMMA AppendedImage ==
  ASSUME NEW q \in Seq(Images), NEW i \in Images
  PROVE  /\ Append(q, i) \in Seq(Images)
         /\ Len(q) \in Nat /\ Len(Append(q, i)) = Len(q) + 1
         /\ \A k \in 1 .. Len(q) : Append(q, i)[k] = q[k]
         /\ Append(q, i)[Len(q) + 1] = i
OBVIOUS

LEMMA FlippedImages ==
  ASSUME TypeOK, NEW w \in Viewports, EngineFlip(w)
  PROVE  /\ \A v \in Viewports : v # w => display'[v] = display[v] /\ avail'[v] = avail[v]
         /\ Len(display[w]) \in Nat /\ 1 \in 1 .. Len(display[w])
         /\ avail'[w] = avail[w] \cup {display[w][1]}
         /\ Len(display'[w]) = Len(display[w]) - 1
         /\ \A k \in 1 .. Len(display'[w]) :
              k + 1 \in 1 .. Len(display[w]) /\ k + 1 # 1 /\ display'[w][k] = display[w][k + 1]
<1>1. display[w] \in Seq(Images) /\ Len(display[w]) > 1
  BY DEF TypeOK, SwapchainTypeOK, EngineFlip, Flip
<1>2. display'[w] = Tail(display[w]) /\ avail'[w] = avail[w] \cup {Head(display[w])}
  BY DEF TypeOK, SwapchainTypeOK, EngineFlip, Flip
<1>3. \A v \in Viewports : v # w => display'[v] = display[v] /\ avail'[v] = avail[v]
  BY DEF TypeOK, SwapchainTypeOK, EngineFlip, Flip
<1> QED
  BY <1>1, <1>2, <1>3

LEMMA ApartUnchanged ==
  ASSUME EngineApart, UNCHANGED <<avail, display>>
  PROVE  EngineApart'
BY DEF EngineApart, Displayed

LEMMA AcquireTakes ==
  ASSUME TypeOK, NEW result \in AcquireResults, Acquire(result)
  PROVE  /\ next \in Viewports /\ UNCHANGED <<pc, queue, display>>
         /\ \A v \in Viewports : avail'[v] \subseteq avail[v]
<1>1. next \in Viewports /\ UNCHANGED <<pc, queue, display>>
  BY ViewportNumAssumption
  DEF Acquire, ViewportAcquire, hostVars, deviceVars, TypeOK, Viewports
<1>2. avail \in [Viewports -> SUBSET Images]
  BY DEF TypeOK, SwapchainTypeOK
<1>3. CASE UNCHANGED avail
  BY <1>1, <1>3
<1>4. ASSUME NEW i, avail' = [avail EXCEPT ![next] = @ \ {i}]
      PROVE  \A v \in Viewports : avail'[v] \subseteq avail[v]
  BY <1>1, <1>2, <1>4
<1>5. UNCHANGED avail \/ \E i : avail' = [avail EXCEPT ![next] = @ \ {i}]
  BY DEF Acquire, ViewportAcquire, TakeImage
<1> QED
  BY <1>1, <1>3, <1>4, <1>5

LEMMA ApartAcquire ==
  ASSUME TypeOK, EngineApart, NEW result \in AcquireResults, Acquire(result)
  PROVE  EngineApart'
<1>1. \A v \in Viewports : avail'[v] \subseteq avail[v]
  BY AcquireTakes
<1>2. UNCHANGED display
  BY AcquireTakes
<1>3. \A v \in Viewports : Displayed(v)' = Displayed(v)
  BY <1>2 DEF Displayed
<1>4. \A v \in Viewports : avail'[v] \cap Displayed(v)' = {}
  BY <1>1, <1>3 DEF EngineApart
<1> QED
  BY <1>2, <1>4 DEF EngineApart

LEMMA ApartFlip ==
  ASSUME TypeOK, EngineApart, NEW w \in Viewports, EngineFlip(w)
  PROVE  EngineApart'
<1>1. ASSUME NEW v \in Viewports, v # w
      PROVE  /\ avail'[v] \cap Displayed(v)' = {}
             /\ \A m, n \in 1 .. Len(display'[v]) : display'[v][m] = display'[v][n] => m = n
  <2>1. display'[v] = display[v] /\ avail'[v] = avail[v]
    BY <1>1, FlippedImages
  <2> QED
    BY <2>1 DEF EngineApart, Displayed
<1>2. \A k \in 1 .. Len(display'[w]) : display'[w][k] \notin avail[w] \cup {display[w][1]}
  <2> SUFFICES ASSUME NEW k \in 1 .. Len(display'[w])
               PROVE  display[w][k + 1] \notin avail[w] \cup {display[w][1]}
    BY FlippedImages
  <2>1. k + 1 \in 1 .. Len(display[w]) /\ 1 \in 1 .. Len(display[w]) /\ k + 1 # 1
    BY FlippedImages
  <2>2. display[w][k + 1] # display[w][1]
    BY <2>1 DEF EngineApart
  <2>3. display[w][k + 1] \notin avail[w]
    BY <2>1 DEF EngineApart, Displayed
  <2> QED
    BY <2>2, <2>3
<1>3. avail'[w] \cap Displayed(w)' = {}
  BY <1>2, FlippedImages DEF Displayed
<1>4. ASSUME NEW m \in 1 .. Len(display'[w]), NEW n \in 1 .. Len(display'[w]),
             display'[w][m] = display'[w][n]
      PROVE  m = n
  <2>1. /\ m + 1 \in 1 .. Len(display[w]) /\ display'[w][m] = display[w][m + 1]
        /\ n + 1 \in 1 .. Len(display[w]) /\ display'[w][n] = display[w][n + 1]
    BY FlippedImages
  <2>2. display[w][m + 1] = display[w][n + 1]
    BY <1>4, <2>1
  <2>3. m + 1 = n + 1
    BY <2>1, <2>2 DEF EngineApart
  <2> QED
    BY <2>3
<1>5. \A v \in Viewports :
        /\ avail'[v] \cap Displayed(v)' = {}
        /\ \A m, n \in 1 .. Len(display'[v]) : display'[v][m] = display'[v][n] => m = n
  BY <1>1, <1>3, <1>4
<1> QED
  BY <1>5 DEF EngineApart

LEMMA ApartPresentImages ==
  ASSUME InOrder, TypeOK, EngineApart, TargetsTaken,
         NEW n \in 1 .. Len(queue), PresentImages(n)
  PROVE  EngineApart'
<1> SUFFICES ASSUME NEW v \in Viewports
             PROVE  /\ avail[v] \cap Displayed(v)' = {}
                    /\ \A j, k \in 1 .. Len(display'[v]) : display'[v][j] = display'[v][k] => j = k
  BY DEF EngineApart, PresentImages
<1>1. CASE display'[v] = display[v]
  BY <1>1 DEF EngineApart, Displayed
<1>2. ASSUME NEW i \in Images, <<v, i>> \in queue[n].targets, display'[v] = Append(display[v], i)
      PROVE  /\ avail[v] \cap Displayed(v)' = {}
             /\ \A j, k \in 1 .. Len(display'[v]) : display'[v][j] = display'[v][k] => j = k
  <2>1. n \in DOMAIN queue /\ ~IsBatch(queue[n])
    BY HeadBegins DEF PresentImages, IsBatch
  <2>2. i \in Taken(v)
    BY <1>2, <2>1 DEF TargetsTaken
  <2>3. i \notin avail[v] /\ \A k \in 1 .. Len(display[v]) : display[v][k] # i
    BY <2>2 DEF Taken, Displayed
  <2>4. /\ Len(display[v]) \in Nat /\ Len(display'[v]) = Len(display[v]) + 1
        /\ \A k \in 1 .. Len(display[v]) : display'[v][k] = display[v][k]
        /\ display'[v][Len(display[v]) + 1] = i
    BY <1>2, AppendedImage DEF TypeOK, SwapchainTypeOK
  <2>5. \A k \in 1 .. Len(display'[v]) : k \in 1 .. Len(display[v]) \/ k = Len(display[v]) + 1
    BY <2>4
  <2>6. \A k \in 1 .. Len(display[v]) : display[v][k] \notin avail[v]
    BY DEF EngineApart, Displayed
  <2>7. avail[v] \cap Displayed(v)' = {}
    BY <2>3, <2>4, <2>5, <2>6 DEF Displayed
  <2>8. \A j, k \in 1 .. Len(display'[v]) : display'[v][j] = display'[v][k] => j = k
    BY <2>3, <2>4, <2>5 DEF EngineApart
  <2> QED
    BY <2>7, <2>8
<1> QED
  BY <1>1, <1>2, ShownImages

LEMMA ApartNext ==
  ASSUME InOrder, TypeOK, EngineApart, TargetsTaken, [Next]_vars
  PROVE  EngineApart'
<1> USE DEF Goto, hostVars, deviceVars, swapchainVars
<1>1. \/ BeginFrame \/ WaitForFence \/ Record \/ PresentStep \/ Quit \/ Teardown
      \/ FinishBatch \/ DeviceLost
      => EngineApart'
  BY ApartUnchanged
  DEF BeginFrame, WaitForFence, Record, PresentStep, Present, PresentAs, Quit, Teardown,
      RendererDelete, CameraDelete, FinishBatch, DeviceLost
<1>2. CASE \E result \in AcquireResults : Acquire(result)
  BY <1>2, ApartAcquire
<1>3. CASE \E result \in SubmitResults : Submit(result)
  BY <1>3, ApartUnchanged DEF Submit
<1>4. CASE \E n \in 1 .. Len(queue) : StartBatch(n) \/ PresentImages(n)
  BY <1>4, ApartUnchanged, ApartPresentImages DEF StartBatch
<1>5. CASE \E s \in AcquireSems : EngineSignal(s)
  BY <1>5, ApartUnchanged DEF EngineSignal
<1>6. CASE \E v \in Viewports : EngineFlip(v)
  BY <1>6, ApartFlip
<1>7. CASE UNCHANGED vars
  BY <1>7, ApartUnchanged DEF vars
<1> QED
  BY <1>1, <1>2, <1>3, <1>4, <1>5, <1>6, <1>7 DEF Next, FrameStep, PresentStep, Terminated
---------------------------------------------------------------------------
(* What the host or a request holds is the renderer's, and held once.      *)

LEMMA TargetsTyped ==
  ASSUME TypeOK
  PROVE  /\ HostTargets \subseteq Targets
         /\ \A n \in DOMAIN queue : queue[n].targets \subseteq Targets
         /\ \A t \in Targets : t[1] \in Viewports /\ t[2] \in Images /\ t = <<t[1], t[2]>>
<1>1. HostTargets \subseteq Targets
  <2>1. \A v \in acquired : <<v, imageIndex[v]>> \in Targets
    BY DEF TypeOK, SwapchainTypeOK, Targets
  <2> QED
    BY <2>1 DEF HostTargets, TypeOK, Op
<1>2. \A n \in DOMAIN queue : queue[n].targets \subseteq Targets
  <2>1. \A n \in DOMAIN queue : queue[n] \in Op
    BY DEF TypeOK
  <2> QED
    BY <2>1 DEF Op
<1> QED
  BY <1>1, <1>2 DEF Targets

LEMMA TakenElse ==
  ASSUME TypeOK, TargetsTaken, UNCHANGED queue, HostTargets' \subseteq HostTargets,
         \A v \in Viewports : Taken(v) \subseteq Taken(v)'
  PROVE  TargetsTaken'
<1>1. \A t \in HostTargets' : t[2] \in Taken(t[1])'
  BY TargetsTyped DEF TargetsTaken
<1>2. \A n \in DOMAIN queue : ~IsBatch(queue[n]) =>
        \A t \in queue[n].targets : t[2] \in Taken(t[1])'
  BY TargetsTyped DEF TargetsTaken
<1> QED
  BY <1>1, <1>2 DEF TargetsTaken, IsBatch

LEMMA TakenAcquire ==
  ASSUME TypeOK, EngineApart, TargetsTaken,
         NEW result \in AcquireResults, Acquire(result)
  PROVE  TargetsTaken'
<1>1. /\ pc = "acquire" /\ UNCHANGED <<pc, queue, display>> /\ next \in Viewports
      /\ acquired' = acquired \/ acquired' = acquired \cup {next}
  BY AcquireTakes DEF Acquire
<1>2. CASE acquired' = acquired /\ UNCHANGED imageIndex
  <2>1. \A v \in Viewports : avail'[v] \subseteq avail[v]
    BY AcquireTakes
  <2>2. \A v \in Viewports : Taken(v) \subseteq Taken(v)'
    BY <1>1, <2>1 DEF Taken, Displayed
  <2>3. HostTargets' = HostTargets
    BY <1>1, <1>2 DEF HostTargets
  <2> QED
    BY <1>1, <2>2, <2>3, TakenElse
<1>3. ASSUME NEW w \in Viewports, w = next, NEW i \in avail[w],
             avail' = [avail EXCEPT ![w] = @ \ {i}],
             imageIndex' = [imageIndex EXCEPT ![w] = i]
      PROVE  TargetsTaken'
  <2>0. avail \in [Viewports -> SUBSET Images] /\ imageIndex \in [Viewports -> Images]
    BY DEF TypeOK, SwapchainTypeOK
  <2>1. i \in Images /\ i \notin Taken(w) /\ i \in Taken(w)'
    <3>1. i \in Images /\ i \notin Displayed(w)
      BY <1>1, <1>3, <2>0 DEF EngineApart
    <3>2. i \notin avail'[w]
      BY <1>1, <1>3, <2>0
    <3>3. i \notin {display'[w][k] : k \in 1 .. Len(display'[w])}
      BY <1>1, <3>1 DEF Displayed
    <3>4. Taken(w)' = Images \ (avail'[w] \cup {display'[w][k] : k \in 1 .. Len(display'[w])})
      BY <1>1 DEF Taken, Displayed
    <3>5. i \notin Taken(w)
      BY <1>3 DEF Taken
    <3> QED
      BY <3>1, <3>2, <3>3, <3>4, <3>5
  <2>2. \A v \in Viewports : Taken(v) \subseteq Taken(v)'
    BY <1>1, <1>3 DEF Taken, Displayed, TypeOK, SwapchainTypeOK
  <2>3. \A t \in HostTargets' : t \in HostTargets \/ t = <<w, i>>
    <3>1. HostTargets' = {<<v, imageIndex'[v]>> : v \in acquired'}
      BY <1>1 DEF HostTargets
    <3>2. HostTargets = {<<v, imageIndex[v]>> : v \in acquired}
      BY <1>1 DEF HostTargets
    <3>3. ASSUME NEW v \in acquired'
          PROVE  <<v, imageIndex'[v]>> \in HostTargets \/ <<v, imageIndex'[v]>> = <<w, i>>
      <4>1. CASE v = w
        BY <1>1, <1>3, <2>0, <4>1
      <4>2. CASE v # w
        <5>1. v \in acquired /\ imageIndex'[v] = imageIndex[v]
          BY <1>1, <1>3, <2>0, <4>2
        <5> QED
          BY <3>2, <5>1
      <4> QED
        BY <4>1, <4>2
    <3> QED
      BY <3>1, <3>3
  <2>4. \A t \in HostTargets' : t[2] \in Taken(t[1])'
    <3>1. \A t \in HostTargets : t[2] \in Taken(t[1])'
      BY <2>2, TargetsTyped DEF TargetsTaken
    <3>2. <<w, i>>[2] \in Taken(<<w, i>>[1])'
      BY <2>1
    <3> QED
      BY <2>3, <3>1, <3>2
  <2>5. ASSUME NEW n \in DOMAIN queue, ~IsBatch(queue[n])
        PROVE  /\ \A t \in queue[n].targets : t[2] \in Taken(t[1])'
               /\ <<w, i>> \notin queue[n].targets
    BY <2>1, <2>2, <2>5, TargetsTyped DEF TargetsTaken
  <2>6. ASSUME NEW n \in DOMAIN queue, ~IsBatch(queue[n])
        PROVE  queue[n].targets \cap HostTargets' = {}
    BY <2>3, <2>5, <2>6 DEF TargetsTaken
  <2> QED
    BY <1>1, <2>4, <2>5, <2>6 DEF TargetsTaken, IsBatch
<1>4. \/ acquired' = acquired /\ UNCHANGED imageIndex
      \/ \E i \in avail[next] : /\ avail' = [avail EXCEPT ![next] = @ \ {i}]
                                /\ imageIndex' = [imageIndex EXCEPT ![next] = i]
  BY DEF Acquire, ViewportAcquire, TakeImage, Reported
<1> QED
  BY <1>1, <1>2, <1>3, <1>4

(* An operation put behind the queue: a batch, or a request that takes     *)
(* over what the host held.                                                *)
LEMMA TakenAppend ==
  ASSUME TypeOK, TargetsTaken, NEW op \in Op, queue' = Append(queue, op),
         UNCHANGED <<avail, display>>,
         IF IsBatch(op) THEN HostTargets' = HostTargets
         ELSE HostTargets' = {} /\ op.targets = HostTargets
  PROVE  TargetsTaken'
<1>1. \A v \in Viewports : Taken(v)' = Taken(v)
  BY TakenUnchanged
<1>2. \A n \in DOMAIN queue' : \/ n \in DOMAIN queue /\ queue'[n] = queue[n]
                               \/ n = Len(queue) + 1 /\ n \notin DOMAIN queue /\ queue'[n] = op
  BY AppendedAt
<1>3. op.targets \subseteq Targets
  BY DEF Op
<1>4. \A t \in HostTargets' : t[2] \in Taken(t[1])'
  BY <1>1, TargetsTyped DEF TargetsTaken
<1>5. ASSUME NEW n \in DOMAIN queue', ~IsBatch(queue'[n])
      PROVE  /\ \A t \in queue'[n].targets : t[2] \in Taken(t[1])'
             /\ queue'[n].targets \cap HostTargets' = {}
  BY <1>1, <1>2, <1>3, <1>5, TargetsTyped DEF TargetsTaken
<1>6. ASSUME NEW m \in DOMAIN queue', NEW n \in DOMAIN queue',
             ~IsBatch(queue'[m]), ~IsBatch(queue'[n]), m # n
      PROVE  queue'[m].targets \cap queue'[n].targets = {}
  <2>1. CASE m \in DOMAIN queue /\ n \in DOMAIN queue
    BY <1>2, <1>6, <2>1 DEF TargetsTaken
  <2>2. CASE m \notin DOMAIN queue
    <3>1. n \in DOMAIN queue /\ queue'[n] = queue[n] /\ queue'[m] = op
      BY <1>2, <1>6, <2>2
    <3> QED
      BY <1>6, <3>1 DEF TargetsTaken
  <2>3. CASE n \notin DOMAIN queue
    <3>1. m \in DOMAIN queue /\ queue'[m] = queue[m] /\ queue'[n] = op
      BY <1>2, <1>6, <2>3
    <3> QED
      BY <1>6, <3>1 DEF TargetsTaken
  <2> QED
    BY <2>1, <2>2, <2>3
<1> QED
  BY <1>4, <1>5, <1>6 DEF TargetsTaken, IsBatch

(* The first operation begins: a batch, or a request whose images only     *)
(* the engine has from now on.                                             *)
LEMMA TakenBegin ==
  ASSUME InOrder, TypeOK, TargetsTaken, NEW n \in 1 .. Len(queue),
         StartBatch(n) \/ PresentImages(n)
  PROVE  TargetsTaken'
<1>1. 1 \in DOMAIN queue /\ HostTargets' = HostTargets
  <2>1. UNCHANGED <<pc, acquired, imageIndex, batch>>
    BY DEF StartBatch, PresentImages, hostVars
  <2> QED
    BY <2>1, HeadBegins DEF HostTargets
<1>2. ASSUME NEW t \in Targets, t[2] \in Taken(t[1]),
             IsBatch(queue[1]) \/ t \notin queue[1].targets
      PROVE  t[2] \in Taken(t[1])'
  <2>1. t[1] \in Viewports /\ t[2] \in Images /\ t = <<t[1], t[2]>>
    BY TargetsTyped
  <2>2. CASE display'[t[1]] = display[t[1]]
    BY <1>2, <2>2 DEF StartBatch, PresentImages, Taken, Displayed
  <2>3. ASSUME NEW i \in Images, <<t[1], i>> \in queue[1].targets, ~IsBatch(queue[1]),
               display'[t[1]] = Append(display[t[1]], i)
        PROVE  t[2] \in Taken(t[1])'
    <3>1. i # t[2]
      BY <1>2, <2>1, <2>3
    <3>2. /\ Len(display[t[1]]) \in Nat /\ Len(display'[t[1]]) = Len(display[t[1]]) + 1
          /\ \A k \in 1 .. Len(display[t[1]]) : display'[t[1]][k] = display[t[1]][k]
          /\ display'[t[1]][Len(display[t[1]]) + 1] = i
      BY <2>1, <2>3, AppendedImage DEF TypeOK, SwapchainTypeOK
    <3>3. \A k \in 1 .. Len(display'[t[1]]) :
            k \in 1 .. Len(display[t[1]]) \/ k = Len(display[t[1]]) + 1
      BY <3>2
    <3>4. \A k \in 1 .. Len(display[t[1]]) : display[t[1]][k] # t[2]
      BY <1>2 DEF Taken, Displayed
    <3>5. t[2] \notin Displayed(t[1])'
      BY <3>1, <3>2, <3>3, <3>4 DEF Displayed
    <3>6. t[2] \notin avail'[t[1]]
      BY <1>2 DEF Taken, StartBatch, PresentImages
    <3> QED
      BY <2>1, <3>5, <3>6 DEF Taken
  <2>4. \/ display'[t[1]] = display[t[1]]
        \/ \E i \in Images : /\ <<t[1], i>> \in queue[1].targets /\ ~IsBatch(queue[1])
                             /\ display'[t[1]] = Append(display[t[1]], i)
    <3>1. CASE StartBatch(n)
      BY <3>1 DEF StartBatch
    <3>2. CASE PresentImages(n)
      <4>1. n = 1 /\ ~IsBatch(queue[1])
        BY <3>2, HeadBegins DEF PresentImages, IsBatch
      <4> QED
        BY <2>1, <3>2, <4>1, ShownImages
    <3> QED
      BY <3>1, <3>2
  <2> QED
    BY <2>2, <2>3, <2>4
<1>3. ASSUME NEW t \in HostTargets PROVE t[2] \in Taken(t[1])'
  BY <1>1, <1>2, TargetsTyped DEF TargetsTaken
<1>4. ASSUME NEW k \in DOMAIN queue, k # 1, ~IsBatch(queue[k]), NEW t \in queue[k].targets
      PROVE  t[2] \in Taken(t[1])'
  <2>1. t \in Targets /\ t[2] \in Taken(t[1])
    BY <1>4, TargetsTyped DEF TargetsTaken
  <2>2. IsBatch(queue[1]) \/ t \notin queue[1].targets
    BY <1>1, <1>4 DEF TargetsTaken
  <2> QED
    BY <1>2, <2>1, <2>2
<1>5. \A k \in DOMAIN queue' : k + 1 \in DOMAIN queue /\ k + 1 # 1 /\ queue'[k] = queue[k + 1]
  BY HeadBegins
<1>6. ASSUME NEW k \in DOMAIN queue', NEW m \in DOMAIN queue',
             ~IsBatch(queue'[k]), ~IsBatch(queue'[m]), m # k
      PROVE  queue'[m].targets \cap queue'[k].targets = {}
  <2>1. m + 1 # k + 1
    BY <1>6, HeadBegins
  <2> QED
    BY <1>5, <1>6, <2>1 DEF TargetsTaken
<1>7. ASSUME NEW k \in DOMAIN queue', ~IsBatch(queue'[k])
      PROVE  /\ \A t \in queue'[k].targets : t[2] \in Taken(t[1])'
             /\ queue'[k].targets \cap HostTargets' = {}
  BY <1>1, <1>4, <1>5, <1>7 DEF TargetsTaken
<1> QED
  BY <1>1, <1>3, <1>6, <1>7 DEF TargetsTaken, IsBatch

LEMMA TakenFlip ==
  ASSUME TypeOK, TargetsTaken, NEW w \in Viewports, EngineFlip(w)
  PROVE  TargetsTaken'
<1>1. ASSUME NEW v \in Viewports PROVE Taken(v) \subseteq Taken(v)'
  <2>1. CASE v # w
    BY <2>1, FlippedImages DEF Taken, Displayed
  <2>2. CASE v = w
    BY <2>2, FlippedImages DEF Taken, Displayed
  <2> QED
    BY <2>1, <2>2
<1>2. UNCHANGED queue /\ HostTargets' = HostTargets
  BY DEF EngineFlip, hostVars, deviceVars, HostTargets
<1> QED
  BY <1>1, <1>2, TakenElse

LEMMA TakenNext ==
  ASSUME InOrder, TypeOK, SlotInv, HostPresents, EngineApart, TargetsTaken, [Next]_vars
  PROVE  TargetsTaken'
<1> USE DEF Goto, hostVars, deviceVars, swapchainVars
<1>1. CASE BeginFrame \/ WaitForFence \/ Record \/ Quit \/ Teardown \/ FinishBatch
  <2>1. UNCHANGED queue /\ HostTargets' \subseteq HostTargets /\ UNCHANGED <<avail, display>>
    BY <1>1
    DEF BeginFrame, WaitForFence, Record, Quit, Teardown, RendererDelete, CameraDelete,
        FinishBatch, HostTargets
  <2> QED
    BY <2>1, TakenUnchanged, TakenElse
<1>2. CASE \E result \in AcquireResults : Acquire(result)
  BY <1>2, TakenAcquire
<1>3. CASE \E result \in SubmitResults : Submit(result)
  <2>1. batch \in Op /\ IsBatch(batch) /\ queue' = Append(queue, batch)
    BY <1>3 DEF Submit, InOrder, TypeOK, SlotInv, HostHoldsSlot
  <2>2. HostTargets' = HostTargets /\ UNCHANGED <<avail, display>>
    BY <1>3 DEF Submit, HostTargets
  <2> QED
    BY <2>1, <2>2, TakenAppend
<1>4. CASE PresentStep
  <2>1. UNCHANGED <<avail, display>> /\ HostTargets' = {} /\ HostTargets = batch.targets
    BY <1>4 DEF PresentStep, Present, PresentAs, HostTargets
  <2>2. CASE queue' = queue
    BY <2>1, <2>2, TakenUnchanged, TakenElse
  <2>3. ASSUME NEW req \in Op, queue' = Append(queue, req), Shows(req, batch)
        PROVE  TargetsTaken'
    BY <2>1, <2>3, TakenAppend DEF Shows
  <2> QED
    BY <1>4, <2>2, <2>3, PresentAppends
<1>5. CASE \E n \in 1 .. Len(queue) : StartBatch(n) \/ PresentImages(n)
  BY <1>5, TakenBegin
<1>6. CASE \E s \in AcquireSems : EngineSignal(s)
  BY <1>6, TakenUnchanged, TakenElse DEF EngineSignal, HostTargets
<1>7. CASE \E v \in Viewports : EngineFlip(v)
  BY <1>7, TakenFlip
<1>8. CASE UNCHANGED vars
  BY <1>8, TakenUnchanged, TakenElse DEF vars, HostTargets
<1> QED
  BY <1>1, <1>2, <1>3, <1>4, <1>5, <1>6, <1>7, <1>8, NotLost
  DEF Next, FrameStep, PresentStep, Terminated, InOrder
---------------------------------------------------------------------------
(* When the queue executes in order, vkQueueSubmit succeeds and the device *)
(* is not lost, every batch of a slot that has had a present request in    *)
(* each of its frames is followed by the request that takes its signal of  *)
(* on_finished and shows its images, whatever was culled, or presented in  *)
(* vain, in the other slots.  And whatever the slot, nobody else shows or  *)
(* is handed the images that a request is to show or the host draws to.    *)
THEOREM PresentsInvariant ==
  ASSUME InOrder
  PROVE  Spec => []PresentsInv
<1>1. Init => PresentsInv
  <2> SUFFICES ASSUME Init PROVE PresentsInv
    OBVIOUS
  <2>1. PresentFollows /\ SignalsTaken /\ HostPresents
    BY DEF Init, PresentFollows, SignalsTaken, HostPresents, ToSet
  <2>2. EngineApart
    BY DEF Init, SwapchainInit, EngineApart, Displayed
  <2>3. TargetsTaken
    BY DEF Init, TargetsTaken, HostTargets
  <2> QED
    BY <2>1, <2>2, <2>3 DEF PresentsInv
<1>2. FramesInv /\ PresentsInv /\ [Next]_vars => PresentsInv'
  BY FollowsNext, SignalsNext, HostPresentsNext, ApartNext, TakenNext
  DEF FramesInv, SlotInv, PresentsInv
<1> QED
  BY <1>1, <1>2, SlotsInvariant, PTL DEF Spec

(* A batch that completes finds the on_finished of its slot unsignaled:    *)
(* the present request of the slot's last frame has taken the signal,      *)
(* although no fence waits for present requests.  The slots in which a     *)
(* frame went without a request are the only exception: one that culled    *)
(* all its viewports, or whose vkQueuePresentKHR failed.                   *)
THEOREM SignalsFresh ==
  ASSUME InOrder
  PROVE  Spec => []OnFinishedFresh
<1>1. FramesInv /\ PresentsInv => OnFinishedFresh
  <2> SUFFICES ASSUME FramesInv, PresentsInv, running # <<>>,
                      Head(running).frame \notin unpresented
               PROVE  ~onFinished[Head(running).frame]
    BY DEF OnFinishedFresh
  <2>1. running \in Seq(Op) /\ 1 \in DOMAIN running /\ Head(running) = running[1]
    BY DEF FramesInv, TypeOK
  <2>2. running[1] \in ToSet(running) /\ running[1] \in Op
    BY <2>1 DEF ToSet
  <2> QED
    BY <2>1, <2>2 DEF PresentsInv, SignalsTaken, Op
<1> QED
  BY <1>1, SlotsInvariant, PresentsInvariant, PTL

(* An image that a submitted batch draws to is neither on the screen nor   *)
(* free to be acquired again, and no other batch draws to it, of the       *)
(* batches whose slot has had a present request in each of its frames.     *)
(* A frame culled as a whole in another slot, or presented in vain there,  *)
(* takes no image from them.                                               *)
THEOREM TargetsExclusive ==
  ASSUME InOrder
  PROVE  Spec => []RenderTargetExclusive
<1> DEFINE Held(op) == \/ pc = "present" /\ op = batch
                       \/ \E n \in DOMAIN queue : Shows(queue[n], op)
<1>1. ASSUME FramesInv, PresentsInv, NEW op \in PresentedBatches PROVE Held(op)
  <2>0. op \in Pending /\ IsBatch(op) /\ op.frame \notin unpresented
    BY <1>1 DEF PresentedBatches
  <2>1. CASE op \in ToSet(running)
    BY <1>1, <2>0, <2>1 DEF PresentsInv, PresentFollows
  <2>2. CASE op \in ToSet(queue)
    <3>1. PICK n \in DOMAIN queue : op = queue[n]
      BY <2>2 DEF ToSet
    <3>2. queue \in Seq(Op) /\ DOMAIN queue = 1 .. Len(queue) /\ Len(queue) \in Nat
      BY <1>1 DEF FramesInv, TypeOK
    <3>3. n + 1 .. Len(queue) \subseteq DOMAIN queue
      BY <3>1, <3>2
    <3>4. \/ pc = "present" /\ queue[n] = batch
          \/ \E m \in n + 1 .. Len(queue) : Shows(queue[m], queue[n])
      BY <1>1, <2>0, <3>1 DEF PresentsInv, PresentFollows
    <3> QED
      BY <3>1, <3>3, <3>4
  <2> QED
    BY <2>0, <2>1, <2>2 DEF Pending
<1>2. ASSUME FramesInv, NEW op \in Pending, NEW other \in Pending, IsBatch(op), IsBatch(other),
             op.frame = other.frame
      PROVE  op = other
  BY <1>2 DEF FramesInv, OneBatchPerSlot, Pending, ToSet
<1>3. ASSUME FramesInv, PresentsInv, NEW op \in PresentedBatches,
             NEW other \in PresentedBatches, op # other
      PROVE  op.targets \cap other.targets = {}
  <2>0. op \in Pending /\ other \in Pending /\ IsBatch(op) /\ IsBatch(other)
    BY DEF PresentedBatches
  <2>1. Held(op) /\ Held(other)
    BY <1>1, <1>3
  <2>2. pc = "present" => HostTargets = batch.targets
    BY DEF HostTargets
  <2>3. CASE op = batch /\ pc = "present"
    BY <1>3, <2>1, <2>2, <2>3 DEF PresentsInv, TargetsTaken, Shows
  <2>4. CASE other = batch /\ pc = "present"
    BY <1>3, <2>1, <2>2, <2>4 DEF PresentsInv, TargetsTaken, Shows
  <2>5. ASSUME NEW m \in DOMAIN queue, NEW n \in DOMAIN queue,
               Shows(queue[m], op), Shows(queue[n], other)
        PROVE  op.targets \cap other.targets = {}
    <3>1. m # n
      BY <1>2, <1>3, <2>0, <2>5 DEF Shows
    <3> QED
      BY <1>3, <2>5, <3>1 DEF PresentsInv, TargetsTaken, Shows
  <2> QED
    BY <2>1, <2>3, <2>4, <2>5
<1>4. ASSUME FramesInv, PresentsInv, NEW op \in PresentedBatches, NEW t \in op.targets
      PROVE  t[2] \in Taken(t[1])
  <2>1. Held(op)
    BY <1>1, <1>4
  <2> QED
    BY <1>4, <2>1 DEF PresentsInv, TargetsTaken, HostTargets, Shows
<1>5. FramesInv /\ PresentsInv => RenderTargetExclusive
  BY <1>3, <1>4 DEF RenderTargetExclusive
<1> QED
  BY <1>5, SlotsInvariant, PresentsInvariant, PTL

---------------------------------------------------------------------------
(* Every wait is for something that is about to be done.                   *)

(* What is assumed: the answers that the code understands, and a queue     *)
(* that executes in order.  Frames may be culled in part or whole.         *)
PlainQueue == PlainAnswers /\ PresentHolds = TRUE

LEMMA BatchRuns ==
  ASSUME TypeOK, NEW n \in 1 .. Len(queue), StartBatch(n)
  PROVE  ToSet(running) \cup {queue[n]} \subseteq ToSet(running')
<1>1. running' = Append(running, queue[n]) /\ running \in Seq(Op)
  BY DEF StartBatch, TypeOK
<1>2. /\ Len(running) \in Nat /\ DOMAIN running = 1 .. Len(running)
      /\ DOMAIN running' = 1 .. Len(running) + 1
      /\ \A k \in 1 .. Len(running) : k \in DOMAIN running' /\ running'[k] = running[k]
      /\ Len(running) + 1 \in DOMAIN running' /\ running'[Len(running) + 1] = queue[n]
  BY <1>1
<1> QED
  BY <1>2 DEF ToSet

LEMMA OthersRunOn ==
  ASSUME TypeOK, FinishBatch
  PROVE  ToSet(running) \subseteq ToSet(running') \cup {Head(running)}
<1>1. /\ running \in Seq(Op) /\ Len(running) \in Nat /\ Len(running) >= 1
      /\ DOMAIN running = 1 .. Len(running) /\ Head(running) = running[1]
      /\ DOMAIN running' = 1 .. Len(running) - 1
      /\ \A k \in 1 .. Len(running) - 1 : running'[k] = running[k + 1]
  BY DEF TypeOK, FinishBatch
<1>2. ASSUME NEW k \in DOMAIN running, k # 1
      PROVE  k - 1 \in DOMAIN running' /\ running'[k - 1] = running[k]
  <2>1. k - 1 \in 1 .. Len(running) - 1 /\ (k - 1) + 1 = k
    BY <1>1, <1>2
  <2> QED
    BY <1>1, <2>1
<1> QED
  BY <1>1, <1>2 DEF ToSet

LEMMA FencesElse ==
  ASSUME FencesDue,
         \A f \in Frames : fence[f] => fence'[f],
         \A f \in Frames : HostUses(f) => HostUses(f)' \/ DeviceUses(f)',
         \A f \in Frames : DeviceUses(f) => DeviceUses(f)' \/ fence'[f]
  PROVE  FencesDue'
BY DEF FencesDue

(* A batch is submitted from its slot's use by the host until its fence.   *)
LEMMA FencesNext ==
  ASSUME PlainAnswers, TypeOK, SlotInv, FencesDue, [Next]_vars
  PROVE  FencesDue'
<1> USE DEF Goto, hostVars, deviceVars, swapchainVars
<1>1. CASE \/ BeginFrame \/ Quit \/ Teardown
           \/ (\E result \in AcquireResults : Acquire(result)) \/ Record
           \/ (\E s \in AcquireSems : EngineSignal(s)) \/ (\E v \in Viewports : EngineFlip(v))
           \/ UNCHANGED vars
  <2>1. UNCHANGED <<fence, queue, running>>
    BY <1>1 DEF BeginFrame, Quit, Teardown, RendererDelete, CameraDelete, Acquire, Record,
                EngineSignal, EngineFlip, vars
  <2>2. \A f \in Frames : DeviceUses(f) => DeviceUses(f)'
    BY <2>1 DEF DeviceUses, Pending, IsBatch, ToSet
  <2>3. \A f \in Frames : HostUses(f) => HostUses(f)'
    BY <1>1 DEF HostUses, BeginFrame, Quit, Teardown, RendererDelete, CameraDelete, Acquire,
                Record, EngineSignal, EngineFlip, vars
  <2> QED
    BY <2>1, <2>2, <2>3, FencesElse
<1>2. CASE WaitForFence
  <2>1. /\ pc = "wait" /\ pc' = "acquire" /\ UNCHANGED <<frameIndex, queue, running>>
        /\ \A f \in Frames : f # frameIndex => fence'[f] = fence[f]
    BY <1>2 DEF WaitForFence, TypeOK
  <2>2. \A f \in Frames : DeviceUses(f) => DeviceUses(f)'
    BY <2>1 DEF DeviceUses, Pending, IsBatch, ToSet
  <2> QED
    BY <2>1, <2>2 DEF FencesDue, HostUses
<1>3. ASSUME NEW result \in SubmitResults, Submit(result) PROVE FencesDue'
  <2>1. /\ pc = "submit" /\ pc' = "present" /\ queue' = Append(queue, batch) /\ batch \in Op
        /\ UNCHANGED <<frameIndex, fence, running>>
    BY <1>3 DEF Submit, PlainAnswers, TypeOK
  <2>2. ToSet(queue') = ToSet(queue) \cup {batch}
    BY <2>1, AppendedOps
  <2>3. IsBatch(batch) /\ batch.frame = frameIndex
    BY <2>1 DEF SlotInv, HostHoldsSlot
  <2>4. Pending' = Pending \cup {batch}
    BY <2>1, <2>2 DEF Pending
  <2>5. \A f \in Frames : DeviceUses(f) \/ HostUses(f) => DeviceUses(f)'
    BY <2>3, <2>4 DEF DeviceUses, HostUses, IsBatch
  <2> QED
    BY <2>1, <2>5, FencesElse
<1>4. CASE PresentStep
  <2>1. ToSet(queue) \subseteq ToSet(queue')
    BY <1>4, PresentOp
  <2>3. pc = "present" /\ UNCHANGED <<fence, running>>
    BY <1>4 DEF PresentStep, Present, PresentAs
  <2>2. \A f \in Frames : DeviceUses(f) => DeviceUses(f)'
    BY <2>1, <2>3 DEF DeviceUses, Pending, IsBatch, ToSet
  <2> QED
    BY <2>2, <2>3, FencesElse DEF HostUses
<1>5. ASSUME NEW n \in 1 .. Len(queue), StartBatch(n) PROVE FencesDue'
  <2>1. /\ UNCHANGED <<pc, frameIndex, fence>> /\ running' = Append(running, queue[n])
        /\ queue' = RemoveAt(queue, n) /\ queue[n] \in Op /\ running \in Seq(Op)
    BY <1>5 DEF StartBatch, TypeOK
  <2>2. ToSet(queue) \subseteq ToSet(queue') \cup {queue[n]}
    BY <2>1, RemovedOps
  <2>3. ToSet(running) \cup {queue[n]} \subseteq ToSet(running')
    BY <1>5, BatchRuns
  <2>4. \A f \in Frames : DeviceUses(f) => DeviceUses(f)'
    BY <2>2, <2>3 DEF DeviceUses, Pending, IsBatch
  <2> QED
    BY <2>1, <2>4, FencesElse DEF HostUses
<1>6. ASSUME NEW n \in 1 .. Len(queue), PresentImages(n) PROVE FencesDue'
  <2>1. /\ UNCHANGED <<pc, frameIndex, fence, running>> /\ ~IsBatch(queue[n])
        /\ queue' = RemoveAt(queue, n)
    BY <1>6 DEF PresentImages, IsBatch
  <2>2. ToSet(queue) \subseteq ToSet(queue') \cup {queue[n]}
    BY <2>1, RemovedOps
  <2>3. \A f \in Frames : DeviceUses(f) => DeviceUses(f)'
    BY <2>1, <2>2 DEF DeviceUses, Pending, IsBatch
  <2> QED
    BY <2>1, <2>3, FencesElse DEF HostUses
<1>7. CASE FinishBatch
  <2>1. /\ UNCHANGED <<pc, frameIndex, queue>>
        /\ Head(running).frame \in Frames
        /\ \A f \in Frames : fence'[f] = (fence[f] \/ f = Head(running).frame)
    BY <1>7, FinishShrinks DEF FinishBatch, TypeOK, Op
  <2>2. ToSet(running) \subseteq ToSet(running') \cup {Head(running)}
    BY <1>7, OthersRunOn
  <2>3. \A f \in Frames : DeviceUses(f) => DeviceUses(f)' \/ fence'[f]
    BY <2>1, <2>2 DEF DeviceUses, Pending, IsBatch
  <2> QED
    BY <2>1, <2>3, FencesElse DEF HostUses
<1> QED
  BY <1>1, <1>2, <1>3, <1>4, <1>5, <1>6, <1>7, NotLost
  DEF Next, FrameStep, PresentStep, Terminated, PlainAnswers

---------------------------------------------------------------------------
(* The signals of on_finished that present requests wait for.              *)

SignalHere(f) == onFinished[f] \/ \E op \in ToSet(running) : op.frame = f

(* What is due at a place in the queue depends on what is before it.       *)
LEMMA DueKept ==
  ASSUME NEW f, NEW n \in Nat, SignalDue(f, n),
         SignalHere(f) => SignalHere(f)',
         \A k \in 1 .. n - 1 : queue'[k] = queue[k]
  PROVE  SignalDue(f, n)'
<1>1. CASE \E m \in 1 .. n - 1 :
             Gives(queue[m], f) /\ \A k \in m + 1 .. n - 1 : ~Takes(queue[k], f)
  <2>1. PICK m \in 1 .. n - 1 :
               Gives(queue[m], f) /\ \A k \in m + 1 .. n - 1 : ~Takes(queue[k], f)
    BY <1>1
  <2>2. \A k \in m + 1 .. n - 1 : k \in 1 .. n - 1
    OBVIOUS
  <2>3. Gives(queue'[m], f) /\ \A k \in m + 1 .. n - 1 : ~Takes(queue'[k], f)
    BY <2>1, <2>2
  <2> QED
    BY <2>1, <2>3 DEF SignalDue, Gives, Takes, IsBatch
<1>2. CASE SignalHere(f) /\ \A k \in 1 .. n - 1 : ~Takes(queue[k], f)
  BY <1>2 DEF SignalDue, SignalHere, Takes, IsBatch
<1> QED
  BY <1>1, <1>2 DEF SignalDue, SignalHere

(* Behind the first operation one place less.                              *)
LEMMA DueBehind ==
  ASSUME PresentHolds = TRUE, TypeOK, RunningBatches, NEW f \in Frames,
         NEW i \in 1 .. Len(queue), StartBatch(i) \/ PresentImages(i),
         NEW n \in 1 .. Len(queue), SignalDue(f, n + 1)
  PROVE  SignalDue(f, n)'
<1>1. /\ i = 1 /\ Len(queue) \in Nat /\ DOMAIN queue = 1 .. Len(queue)
      /\ DOMAIN queue' = 1 .. Len(queue) - 1 /\ queue[1] \in Op
      /\ \A k \in DOMAIN queue' : k + 1 \in DOMAIN queue /\ queue'[k] = queue[k + 1]
  BY FirstBegins
<1>2. \A k \in 1 .. n - 1 : k + 1 \in 1 .. (n + 1) - 1 /\ queue'[k] = queue[k + 1]
  BY <1>1
<1>3. CASE SignalHere(f)' /\ \A k \in 2 .. (n + 1) - 1 : ~Takes(queue[k], f)
  <2>1. \A k \in 1 .. n - 1 : k + 1 \in 2 .. (n + 1) - 1
    BY <1>1
  <2> QED
    BY <1>2, <1>3, <2>1 DEF SignalDue, SignalHere, Takes, IsBatch
<1>4. CASE \E m \in 2 .. (n + 1) - 1 :
             Gives(queue[m], f) /\ \A k \in m + 1 .. (n + 1) - 1 : ~Takes(queue[k], f)
  <2>1. PICK m \in 2 .. (n + 1) - 1 :
               Gives(queue[m], f) /\ \A k \in m + 1 .. (n + 1) - 1 : ~Takes(queue[k], f)
    BY <1>4
  <2>2. m - 1 \in 1 .. n - 1 /\ (m - 1) + 1 = m
    BY <1>1
  <2>3. \A k \in (m - 1) + 1 .. n - 1 : k \in 1 .. n - 1 /\ k + 1 \in m + 1 .. (n + 1) - 1
    BY <1>1
  <2>4. Gives(queue'[m - 1], f)
    BY <1>2, <2>1, <2>2
  <2>5. \A k \in (m - 1) + 1 .. n - 1 : ~Takes(queue'[k], f)
    BY <1>2, <2>1, <2>3
  <2> QED
    BY <2>2, <2>4, <2>5 DEF SignalDue, Gives, Takes, IsBatch
<1>5. CASE Gives(queue[1], f) /\ \A k \in 2 .. (n + 1) - 1 : ~Takes(queue[k], f)
  <2>1. StartBatch(1)
    BY <1>1, <1>5 DEF Gives, IsBatch, PresentImages
  <2>2. 1 \in 1 .. Len(queue)
    BY <1>1
  <2>3. queue[1] \in ToSet(running')
    BY <2>1, <2>2, BatchRuns
  <2> QED
    BY <1>3, <1>5, <2>3 DEF SignalHere, Gives
<1>6. CASE SignalHere(f) /\ \A k \in 1 .. (n + 1) - 1 : ~Takes(queue[k], f)
  <2>1. 1 \in 1 .. (n + 1) - 1 /\ \A k \in 2 .. (n + 1) - 1 : k \in 1 .. (n + 1) - 1
    BY <1>1
  <2>2. CASE StartBatch(i)
    <3>1. SignalHere(f)'
      BY <1>6, <2>2, BatchRuns DEF SignalHere, StartBatch
    <3> QED
      BY <1>3, <1>6, <2>1, <3>1
  <2>3. CASE PresentImages(i)
    <3>1. queue[1].frame # f
      BY <1>1, <1>6, <2>1, <2>3 DEF Takes, PresentImages, IsBatch
    <3>2. onFinished'[f] = onFinished[f] /\ running' = running
      BY <1>1, <2>3, <3>1 DEF PresentImages, TypeOK
    <3>3. SignalHere(f)'
      BY <1>6, <3>2 DEF SignalHere, ToSet
    <3> QED
      BY <1>3, <1>6, <2>1, <3>3
  <2> QED
    BY <2>2, <2>3
<1>7. \A m \in 1 .. (n + 1) - 1 : m = 1 \/ m \in 2 .. (n + 1) - 1
  BY <1>1
<1>8. 1 + 1 = 2
  OBVIOUS
<1> QED
  BY <1>4, <1>5, <1>6, <1>7, <1>8 DEF SignalDue, SignalHere

LEMMA SignalsDueElse ==
  ASSUME TypeOK, SignalsDue, UNCHANGED queue,
         pc' = "present" => pc = "present" /\ batch' = batch,
         \A f \in Frames : SignalHere(f) => SignalHere(f)'
  PROVE  SignalsDue'
<1>1. Len(queue) \in Nat
  BY DEF TypeOK
<1>2. ASSUME NEW f \in Frames, NEW n \in 1 .. Len(queue) + 1, RequestAt(f, n)'
      PROVE  SignalDue(f, n)'
  <2>1. RequestAt(f, n)
    BY <1>2 DEF RequestAt, Takes, IsBatch
  <2>2. SignalDue(f, n) /\ n \in Nat
    BY <1>1, <2>1 DEF SignalsDue
  <2> QED
    BY <2>2, DueKept
<1> QED
  BY <1>2 DEF SignalsDue

(* A batch gives the signal of its slot to the request that comes next.    *)
LEMMA SignalsDueSubmit ==
  ASSUME PlainAnswers, TypeOK, SlotInv, SignalsDue,
         NEW result \in SubmitResults, Submit(result)
  PROVE  SignalsDue'
<1>1. /\ pc = "submit" /\ queue' = Append(queue, batch) /\ batch \in Op
      /\ UNCHANGED <<batch, onFinished, running>>
  BY DEF Submit, Goto, PlainAnswers, TypeOK
<1>2. IsBatch(batch) /\ batch.frame = frameIndex
  BY <1>1 DEF SlotInv, HostHoldsSlot
<1>3. /\ Len(queue) \in Nat /\ Len(queue') = Len(queue) + 1
      /\ DOMAIN queue = 1 .. Len(queue) /\ DOMAIN queue' = 1 .. Len(queue) + 1
      /\ \A k \in DOMAIN queue : queue'[k] = queue[k]
      /\ queue'[Len(queue) + 1] = batch
  BY <1>1, AppendedAt
<1> SUFFICES ASSUME NEW f \in Frames, NEW n \in 1 .. Len(queue') + 1, RequestAt(f, n)'
             PROVE  SignalDue(f, n)'
  BY DEF SignalsDue
<1>4. CASE n \in DOMAIN queue
  <2>1. n \in Nat /\ queue'[n] = queue[n] /\ n # Len(queue') + 1
        /\ \A k \in 1 .. n - 1 : queue'[k] = queue[k]
    BY <1>3, <1>4
  <2>2. RequestAt(f, n) /\ n \in 1 .. Len(queue) + 1
    BY <1>3, <1>4, <2>1 DEF RequestAt, Takes, IsBatch
  <2>3. SignalDue(f, n)
    BY <2>2 DEF SignalsDue
  <2>4. SignalHere(f) => SignalHere(f)'
    BY <1>1 DEF SignalHere, ToSet
  <2> QED
    BY <2>1, <2>3, <2>4, DueKept
<1>5. CASE n = Len(queue') + 1 /\ batch.frame = f
  <2>1. n - 1 = Len(queue) + 1 /\ n - 1 \in 1 .. n - 1
    BY <1>3, <1>5
  <2>2. \A k \in (n - 1) + 1 .. n - 1 : FALSE
    BY <1>3, <1>5
  <2>3. Gives(queue'[n - 1], f)
    BY <1>2, <1>3, <1>5, <2>1 DEF Gives
  <2> QED
    BY <2>1, <2>2, <2>3 DEF SignalDue, Gives, Takes, IsBatch
<1>6. n \in DOMAIN queue \/ (n = Len(queue') + 1 /\ batch.frame = f)
  <2>1. n # Len(queue) + 1
    BY <1>1, <1>2, <1>3 DEF RequestAt, Takes, IsBatch
  <2> QED
    BY <1>1, <1>3, <2>1 DEF RequestAt
<1> QED
  BY <1>4, <1>5, <1>6

LEMMA SignalsDuePresent ==
  ASSUME TypeOK, SignalsDue, PresentStep
  PROVE  SignalsDue'
<1> DEFINE op == Request
<1>1. op \in Op /\ op.frame = batch.frame
  BY DEF TypeOK, Op, Request
<1>2. /\ pc = "present" /\ pc' = "idle" /\ UNCHANGED <<onFinished, running>>
      /\ queue' = queue \/ queue' = Append(queue, op)
  BY DEF PresentStep, Present, PresentAs, Goto
<1> HIDE DEF op
<1>3. \A f \in Frames : SignalHere(f) => SignalHere(f)'
  BY <1>2 DEF SignalHere, ToSet
<1>4. CASE queue' = queue
  BY <1>2, <1>3, <1>4, SignalsDueElse
<1>5. CASE queue' = Append(queue, op)
  <2>1. /\ Len(queue) \in Nat
        /\ DOMAIN queue = 1 .. Len(queue) /\ DOMAIN queue' = 1 .. Len(queue) + 1
        /\ \A k \in DOMAIN queue : queue'[k] = queue[k]
        /\ queue'[Len(queue) + 1] = op
    BY <1>1, <1>5, AppendedAt
  <2> SUFFICES ASSUME NEW f \in Frames, NEW n \in 1 .. Len(queue') + 1, RequestAt(f, n)'
               PROVE  SignalDue(f, n)'
    BY DEF SignalsDue
  <2>2. n \in DOMAIN queue' /\ ~IsBatch(queue'[n]) /\ queue'[n].frame = f
    BY <1>2 DEF RequestAt, Takes, IsBatch
  <2>3. RequestAt(f, n)
    <3>1. CASE n = Len(queue) + 1
      BY <1>1, <1>2, <2>1, <2>2, <3>1 DEF RequestAt
    <3>2. CASE n # Len(queue) + 1
      BY <2>1, <2>2, <3>2 DEF RequestAt, Takes
    <3> QED
      BY <3>1, <3>2
  <2>4. n \in Nat /\ n \in 1 .. Len(queue) + 1 /\ \A k \in 1 .. n - 1 : queue'[k] = queue[k]
    BY <2>1, <2>2
  <2>5. SignalDue(f, n)
    BY <2>3, <2>4 DEF SignalsDue
  <2> QED
    BY <1>3, <2>4, <2>5, DueKept
<1> QED
  BY <1>2, <1>4, <1>5

LEMMA SignalsDueBegin ==
  ASSUME PresentHolds = TRUE, TypeOK, RunningBatches, SignalsDue,
         NEW i \in 1 .. Len(queue), StartBatch(i) \/ PresentImages(i)
  PROVE  SignalsDue'
<1>1. UNCHANGED <<pc, batch>>
  BY DEF StartBatch, PresentImages, hostVars
<1>2. /\ Len(queue) \in Nat /\ Len(queue') = Len(queue) - 1
      /\ DOMAIN queue = 1 .. Len(queue) /\ DOMAIN queue' = 1 .. Len(queue) - 1
      /\ \A k \in DOMAIN queue' : k + 1 \in DOMAIN queue /\ queue'[k] = queue[k + 1]
  BY FirstBegins
<1> SUFFICES ASSUME NEW f \in Frames, NEW n \in 1 .. Len(queue') + 1, RequestAt(f, n)'
             PROVE  SignalDue(f, n)'
  BY DEF SignalsDue
<1>3. n \in 1 .. Len(queue) /\ n + 1 \in 1 .. Len(queue) + 1
  BY <1>2
<1>4. RequestAt(f, n + 1)
  <2>1. CASE n \in DOMAIN queue' /\ Takes(queue'[n], f)
    BY <1>2, <2>1 DEF RequestAt
  <2>2. CASE n = Len(queue') + 1 /\ pc' = "present" /\ batch'.frame = f
    <3>1. n + 1 = Len(queue) + 1
      BY <1>2, <2>2
    <3> QED
      BY <1>1, <2>2, <3>1 DEF RequestAt
  <2> QED
    BY <2>1, <2>2 DEF RequestAt, Takes, IsBatch
<1>5. SignalDue(f, n + 1)
  BY <1>3, <1>4 DEF SignalsDue
<1> QED
  BY <1>3, <1>5, DueBehind

LEMMA SignalsDueNext ==
  ASSUME PlainQueue, TypeOK, SlotInv, SignalsDue, [Next]_vars
  PROVE  SignalsDue'
<1> USE DEF Goto, hostVars, deviceVars, swapchainVars
<1>1. CASE \/ BeginFrame \/ WaitForFence \/ Quit \/ Teardown
           \/ (\E result \in AcquireResults : Acquire(result)) \/ Record
           \/ (\E s \in AcquireSems : EngineSignal(s)) \/ (\E v \in Viewports : EngineFlip(v))
           \/ UNCHANGED vars
  <2>1. UNCHANGED <<queue, onFinished, running>>
    BY <1>1 DEF BeginFrame, WaitForFence, Quit, Teardown, RendererDelete, CameraDelete, Acquire,
                Record, EngineSignal, EngineFlip, vars
  <2>2. pc' = "present" => pc = "present" /\ batch' = batch
    BY <1>1 DEF BeginFrame, WaitForFence, Quit, Teardown, RendererDelete, CameraDelete, Acquire,
                Record, EngineSignal, EngineFlip, vars
  <2>3. \A f \in Frames : SignalHere(f) => SignalHere(f)'
    BY <2>1 DEF SignalHere, ToSet
  <2> QED
    BY <2>1, <2>2, <2>3, SignalsDueElse
<1>2. CASE \E result \in SubmitResults : Submit(result)
  BY <1>2, SignalsDueSubmit DEF PlainQueue
<1>3. CASE PresentStep
  BY <1>3, SignalsDuePresent
<1>4. ASSUME NEW n \in 1 .. Len(queue), StartBatch(n) \/ PresentImages(n) PROVE SignalsDue'
  BY <1>4, SignalsDueBegin DEF PlainQueue, SlotInv
<1>5. CASE FinishBatch
  <2>1. UNCHANGED <<queue, pc, batch>> /\ Head(running).frame \in Frames
    BY <1>5, FinishShrinks DEF FinishBatch, Op
  <2>2. \A f \in Frames : onFinished'[f] = (onFinished[f] \/ f = Head(running).frame)
    BY <1>5, <2>1 DEF FinishBatch, TypeOK
  <2>3. \A f \in Frames : SignalHere(f) => SignalHere(f)'
    BY <1>5, <2>2, OthersRunOn DEF SignalHere
  <2> QED
    BY <2>1, <2>3, SignalsDueElse
<1> QED
  BY <1>1, <1>2, <1>3, <1>4, <1>5, NotLost
  DEF Next, FrameStep, PresentStep, Terminated, PlainQueue, PlainAnswers

---------------------------------------------------------------------------
(* The semaphores that submitted batches wait for.                         *)

LEMMA BackwardsInjective ==
  ASSUME NEW num \in Nat \ {0}, NEW from \in 0 .. num - 1,
         NEW a \in 0 .. num - 1, NEW b \in 0 .. num - 1,
         Backwards(from, a, num) = Backwards(from, b, num)
  PROVE  a = b
BY DEF Backwards

(* No two slots have a viewport's semaphore: there are enough of them.     *)
LEMMA SlotSemsApart ==
  ASSUME FrameNum <= AcquireNum, TypeOK, NEW v \in Viewports,
         acquireIndex[v] \in AcquireSlots, NEW f \in Frames, NEW g \in Frames,
         SlotSem(v, f) = SlotSem(v, g)
  PROVE  f = g
<1> DEFINE Age(h) == Backwards(AcquireFrame(v), h, FrameNum)
<1>1. AcquireFrame(v) \in Frames
  BY PredecessorFacts DEF AcquireFrame, TypeOK
<1>2. Age(f) \in Frames /\ Age(g) \in Frames
  BY <1>1, BackwardsFacts, FrameNumAssumption DEF Frames
<1>3. Backwards(acquireIndex[v], Age(f), AcquireNum) = Backwards(acquireIndex[v], Age(g), AcquireNum)
  BY DEF SlotSem
<1> HIDE DEF Age
<1>4. Age(f) \in 0 .. AcquireNum - 1 /\ Age(g) \in 0 .. AcquireNum - 1
  BY <1>2, FrameNumAssumption, AcquireNumAssumption DEF Frames
<1>5. Age(f) = Age(g)
  BY <1>3, <1>4, BackwardsInjective, AcquireNumAssumption DEF AcquireSlots
<1> QED
  BY <1>1, <1>5, BackwardsInjective, FrameNumAssumption DEF Frames, Age

LEMMA LastSem ==
  ASSUME NEW v \in Viewports, acquireIndex[v] \in AcquireSlots, frameIndex \in Frames,
         AcquireFrame(v) = frameIndex
  PROVE  SlotSem(v, frameIndex) = acquireIndex[v]
BY BackwardsFacts, FrameNumAssumption, AcquireNumAssumption DEF SlotSem, Frames, AcquireSlots

(* What the first batch has waited for, nothing else waits for.            *)
LEMMA WaitedForOnce ==
  ASSUME PlainQueue, TypeOK, AcquiredRotated, SlotInv, RotationsInStep,
         NEW i \in 1 .. Len(queue), StartBatch(i), NEW s \in AcquireSems, SemWaitedFor(s)'
  PROVE  s \notin queue[i].waits
<1> SUFFICES ASSUME s \in queue[i].waits PROVE FALSE
  OBVIOUS
<1>1. /\ i = 1 /\ 1 \in DOMAIN queue /\ queue[1] \in Op /\ queue[1] \in ToSet(queue)
      /\ Len(queue) \in Nat /\ DOMAIN queue = 1 .. Len(queue)
      /\ DOMAIN queue' = 1 .. Len(queue) - 1
      /\ \A k \in DOMAIN queue' : k + 1 \in DOMAIN queue /\ queue'[k] = queue[k + 1]
  BY FirstBegins DEF PlainQueue, ToSet
<1>2. /\ s[1] \in Viewports /\ s[2] \in AcquireSlots /\ s = <<s[1], s[2]>>
      /\ queue[1].frame \in Frames /\ frameIndex \in Frames
      /\ IsBatch(queue[1]) /\ acquireIndex[s[1]] \in AcquireSlots
      /\ s[2] = SlotSem(s[1], queue[1].frame)
  BY <1>1 DEF AcquireSems, RotationsInStep, Op, TypeOK
<1>3. CASE \E op \in ToSet(queue') : s \in op.waits
  <2>1. PICK k \in DOMAIN queue' : s \in queue'[k].waits
    BY <1>3 DEF ToSet
  <2>2. /\ k + 1 \in DOMAIN queue /\ k + 1 # 1 /\ s \in queue[k + 1].waits
        /\ queue[k + 1] \in ToSet(queue) /\ queue[k + 1].frame \in Frames
    <3>1. k + 1 \in DOMAIN queue /\ queue'[k] = queue[k + 1] /\ k \in 1 .. Len(queue) - 1
      BY <1>1
    <3>2. k + 1 # 1
      BY <1>1, <3>1
    <3>3. queue[k + 1] \in Op
      BY <3>1 DEF TypeOK
    <3> QED
      BY <2>1, <3>1, <3>2, <3>3 DEF ToSet, Op
  <2>3. IsBatch(queue[k + 1]) /\ s[2] = SlotSem(s[1], queue[k + 1].frame)
    BY <2>2 DEF RotationsInStep
  <2>4. queue[k + 1].frame = queue[1].frame
    BY <1>2, <2>2, <2>3, SlotSemsApart DEF PlainQueue, PlainAnswers
  <2> QED
    BY <1>1, <1>2, <2>2, <2>3, <2>4 DEF SlotInv, OneBatchPerSlot
<1>4. ASSUME s = OnAcquire(s[1]), AcquireFrame(s[1]) = frameIndex, pc \in {"acquire", "submit"}
      PROVE  FALSE
  <2>1. SlotSem(s[1], frameIndex) = SlotSem(s[1], queue[1].frame)
    BY <1>2, <1>4, LastSem DEF OnAcquire
  <2>2. queue[1].frame = frameIndex
    BY <1>2, <2>1, SlotSemsApart DEF PlainQueue, PlainAnswers
  <2>3. DeviceUses(frameIndex)
    BY <1>1, <1>2, <2>2 DEF DeviceUses, Pending
  <2> QED
    BY <1>4, <2>3 DEF SlotInv, HostHoldsSlot
<1>5. UNCHANGED <<pc, frameIndex, next, acquired, batch, acquireIndex>>
  BY DEF StartBatch, hostVars
<1>6. CASE pc = "submit" /\ s \in batch.waits
  <2>1. s = OnAcquire(s[1]) /\ AcquireFrame(s[1]) = frameIndex
    BY <1>6 DEF RotationsInStep, AcquireFrame
  <2> QED
    BY <1>4, <1>6, <2>1
<1>7. CASE pc = "acquire" /\ s[1] \in acquired /\ s = OnAcquire(s[1])
  <2>1. s[1] < next /\ next \in Int /\ s[1] \in Int
    BY <1>2, <1>7 DEF RotationsInStep, TypeOK, Viewports
  <2>2. AcquireFrame(s[1]) = frameIndex
    BY <1>7, <2>1 DEF AcquireFrame
  <2> QED
    BY <1>4, <1>7, <2>2
<1> QED
  BY <1>3, <1>5, <1>6, <1>7 DEF SemWaitedFor, OnAcquire

LEMMA SemsDueElse ==
  ASSUME SemsDue,
         \A s \in AcquireSems : SemWaitedFor(s)' => SemWaitedFor(s),
         \A s \in AcquireSems : acquireSem[s] # "unsignaled" => acquireSem'[s] # "unsignaled"
  PROVE  SemsDue'
BY DEF SemsDue, SemWaitedFor

(* viewport_acquire has given the engine the semaphore it will be waited   *)
(* for by.                                                                 *)
LEMMA SemsDueAcquire ==
  ASSUME PlainAnswers, TypeOK, RotationsInStep, SemsDue,
         NEW result \in AcquireResults, Acquire(result)
  PROVE  SemsDue'
<1>1. /\ pc = "acquire" /\ next \in Viewports
      /\ acquireIndex'[next] = NextSlot(next)
      /\ \A v \in acquired : v \in Viewports /\ v # next /\ acquireIndex'[v] = acquireIndex[v]
      /\ acquired' = IF Reported(result) THEN acquired \cup {next} ELSE acquired
      /\ UNCHANGED <<pc, queue, batch>>
  BY ViewportNumAssumption
  DEF Acquire, ViewportAcquire, hostVars, deviceVars, TypeOK, SwapchainTypeOK, Viewports,
      RotationsInStep
<1>2. /\ \A s \in AcquireSems : acquireSem[s] # "unsignaled" => acquireSem'[s] # "unsignaled"
      /\ Reported(result) => acquireSem'[<<next, NextSlot(next)>>] = "pending"
  <2>1. <<next, NextSlot(next)>> \in AcquireSems
    BY <1>1, NextSlotType DEF AcquireSems, TypeOK
  <2>2. acquireSem \in [AcquireSems -> {"unsignaled", "pending", "signaled"}]
    BY DEF TypeOK, SwapchainTypeOK
  <2>3. \/ UNCHANGED acquireSem /\ ~Reported(result)
        \/ acquireSem' = [acquireSem EXCEPT ![<<next, NextSlot(next)>>] = "pending"]
    BY DEF Acquire, ViewportAcquire, TakeImage, Reported
  <2> QED
    BY <2>1, <2>2, <2>3
<1> SUFFICES ASSUME NEW s \in AcquireSems, SemWaitedFor(s)' PROVE acquireSem'[s] # "unsignaled"
  BY DEF SemsDue
<1>3. SemWaitedFor(s) \/ (Reported(result) /\ s = <<next, NextSlot(next)>>)
  <2>1. CASE \E op \in ToSet(queue') : s \in op.waits
    BY <1>1, <2>1 DEF SemWaitedFor, ToSet
  <2>2. CASE s[1] \in acquired' /\ s = <<s[1], acquireIndex'[s[1]]>>
    BY <1>1, <2>2 DEF SemWaitedFor, OnAcquire
  <2> QED
    BY <1>1, <2>1, <2>2 DEF SemWaitedFor, OnAcquire
<1> QED
  BY <1>2, <1>3 DEF SemsDue

LEMMA SemsDueNext ==
  ASSUME PlainQueue, TypeOK, AcquiredRotated, SlotInv, RotationsInStep, SemsDue, [Next]_vars
  PROVE  SemsDue'
<1> USE DEF Goto, hostVars, deviceVars, swapchainVars
<1>1. CASE BeginFrame \/ WaitForFence \/ Quit \/ Teardown
  <2>1. UNCHANGED <<queue, acquireSem>> /\ (pc' = "acquire" => acquired' = {}) /\ pc' # "submit"
    BY <1>1 DEF BeginFrame, WaitForFence, Quit, Teardown, RendererDelete, CameraDelete
  <2>2. \A s \in AcquireSems : SemWaitedFor(s)' => SemWaitedFor(s)
    BY <2>1 DEF SemWaitedFor, ToSet
  <2> QED
    BY <2>1, <2>2, SemsDueElse
<1>2. CASE \E result \in AcquireResults : Acquire(result)
  BY <1>2, SemsDueAcquire DEF PlainQueue
<1>3. CASE Record
  <2>1. /\ pc = "acquire" /\ pc' = "submit" /\ UNCHANGED <<queue, acquired, acquireIndex, acquireSem>>
        /\ batch'.waits = {OnAcquire(v) : v \in acquired}
    BY <1>3 DEF Record
  <2>2. \A s \in batch'.waits : s[1] \in acquired /\ s = OnAcquire(s[1])
    BY <2>1 DEF OnAcquire
  <2>3. \A s \in AcquireSems : SemWaitedFor(s)' => SemWaitedFor(s)
    BY <2>1, <2>2 DEF SemWaitedFor, ToSet
  <2> QED
    BY <2>1, <2>3, SemsDueElse
<1>4. CASE \E result \in SubmitResults : Submit(result)
  <2>1. ToSet(queue') = ToSet(queue) \cup {batch} /\ pc = "submit" /\ pc' = "present"
        /\ UNCHANGED acquireSem
    BY <1>4, AppendedOps DEF Submit, TypeOK, PlainAnswers, PlainQueue
  <2>2. \A s \in AcquireSems : SemWaitedFor(s)' => SemWaitedFor(s)
    BY <2>1 DEF SemWaitedFor
  <2> QED
    BY <2>1, <2>2, SemsDueElse
<1>5. CASE PresentStep
  <2>1. pc' = "idle" /\ UNCHANGED acquireSem
    BY <1>5 DEF PresentStep, Present, PresentAs
  <2>2. \A s \in AcquireSems : SemWaitedFor(s)' => SemWaitedFor(s)
    BY <1>5, <2>1, PresentOp DEF SemWaitedFor
  <2> QED
    BY <2>1, <2>2, SemsDueElse
<1>6. ASSUME NEW n \in 1 .. Len(queue), StartBatch(n) PROVE SemsDue'
  <2>1. ASSUME NEW s \in AcquireSems, SemWaitedFor(s)' PROVE acquireSem'[s] # "unsignaled"
    <3>1. s \notin queue[n].waits
      BY <1>6, <2>1, WaitedForOnce
    <3>2. SemWaitedFor(s)
      BY <1>6, <2>1, RemovedOps DEF StartBatch, SemWaitedFor, OnAcquire
    <3> QED
      BY <1>6, <3>1, <3>2 DEF StartBatch, SemsDue
  <2> QED
    BY <2>1 DEF SemsDue
<1>7. ASSUME NEW n \in 1 .. Len(queue), PresentImages(n) PROVE SemsDue'
  <2>1. \A s \in AcquireSems : SemWaitedFor(s)' => SemWaitedFor(s)
    BY <1>7, RemovedOps DEF PresentImages, SemWaitedFor, OnAcquire
  <2> QED
    BY <1>7, <2>1, SemsDueElse DEF PresentImages
<1>8. CASE \/ FinishBatch \/ (\E v \in Viewports : EngineFlip(v)) \/ UNCHANGED vars
  <2>1. UNCHANGED <<pc, queue, acquired, batch, acquireIndex, acquireSem>>
    BY <1>8 DEF FinishBatch, EngineFlip, vars
  <2>2. \A s \in AcquireSems : SemWaitedFor(s)' => SemWaitedFor(s)
    BY <2>1 DEF SemWaitedFor, OnAcquire, ToSet
  <2> QED
    BY <2>1, <2>2, SemsDueElse
<1>9. CASE \E s \in AcquireSems : EngineSignal(s)
  <2>1. UNCHANGED <<pc, queue, acquired, batch, acquireIndex>>
    BY <1>9 DEF EngineSignal
  <2>2. \A s \in AcquireSems : SemWaitedFor(s)' => SemWaitedFor(s)
    BY <2>1 DEF SemWaitedFor, OnAcquire, ToSet
  <2>3. \A s \in AcquireSems : acquireSem[s] # "unsignaled" => acquireSem'[s] # "unsignaled"
    BY <1>9 DEF EngineSignal, SignalAcquire, TypeOK, SwapchainTypeOK
  <2> QED
    BY <2>2, <2>3, SemsDueElse
<1> QED
  BY <1>1, <1>2, <1>3, <1>4, <1>5, <1>6, <1>7, <1>8, <1>9, NotLost
  DEF Next, FrameStep, PresentStep, Terminated, PlainQueue, PlainAnswers

---------------------------------------------------------------------------
(* An image for the next acquire: none that was taken is lost.             *)
LEMMA ImagesDue ==
  ASSUME FramesInv, AcquiresInv, NEW i \in Images, NEW j \in Images, i # j
  PROVE  ImageDue
<1> SUFFICES ASSUME pc = "acquire", next <= ViewportNum, avail[next] = {},
                    ~ \E op \in ToSet(queue) :
                        ~IsBatch(op) /\ \E k \in Images : <<next, k>> \in op.targets
             PROVE  Len(display[next]) > 1
  BY DEF ImageDue
<1>1. next \in Viewports /\ display[next] \in Seq(Images)
  BY ViewportNumAssumption DEF FramesInv, TypeOK, SwapchainTypeOK, Viewports
<1>2. next \notin acquired
  BY <1>1 DEF AcquiresInv, RotationsInStep, Viewports
<1>3. Taken(next) = {}
  BY <1>1, <1>2 DEF AcquiresInv, ImagesOnTheirWay, Taken
<1>4. i \in Displayed(next) /\ j \in Displayed(next)
  BY <1>3 DEF Taken
<1>5. PICK m \in 1 .. Len(display[next]) : i = display[next][m]
  BY <1>4 DEF Displayed
<1>6. PICK n \in 1 .. Len(display[next]) : j = display[next][n]
  BY <1>4 DEF Displayed
<1>7. m # n /\ Len(display[next]) \in Nat
  BY <1>1, <1>5, <1>6
<1> QED
  BY <1>7

(* What renderer_render_frame, the device and the engine wait for without  *)
(* a timeout is always on its way: the fence of a slot has its batch, the  *)
(* semaphores of a batch have been given to the engine, a present request  *)
(* has the signal of its own batch before it, and an image is to come.     *)
(* The code asks for swapchains of three images; two are enough.           *)
THEOREM WaitsAreDue ==
  ASSUME PlainQueue, NEW i \in Images, NEW j \in Images, i # j
  PROVE  Spec => []WaitsEnd
<1> DEFINE AllDue == FencesDue /\ SemsDue /\ SignalsDue
<1>1. Init => AllDue
  <2> SUFFICES ASSUME Init PROVE AllDue
    OBVIOUS
  <2>1. FencesDue
    BY DEF Init, FencesDue
  <2>2. SemsDue
    BY DEF Init, SemsDue, SemWaitedFor, ToSet
  <2>3. SignalsDue
    BY DEF Init, SignalsDue, RequestAt
  <2> QED
    BY <2>1, <2>2, <2>3
<1>2. FramesInv /\ AcquiresInv /\ AllDue /\ [Next]_vars => AllDue'
  BY FencesNext, SemsDueNext, SignalsDueNext DEF FramesInv, SlotInv, AcquiresInv, PlainQueue
<1>3. FramesInv /\ AcquiresInv /\ AllDue => WaitsEnd
  BY ImagesDue DEF WaitsEnd
<1>4. Spec => []AcquiresInv
  BY AcquiresInvariant DEF PlainQueue
<1> HIDE DEF AllDue
<1> QED
  BY <1>1, <1>2, <1>3, <1>4, SlotsInvariant, PTL DEF Spec

(* The host waits: for the fence of a slot, in vkQueueWaitIdle, for an     *)
(* image.                                                                  *)
HostBlocks ==
  \/ pc = "wait" /\ ~fence[frameIndex]
  \/ pc = "quitting" /\ Pending # {}
  \/ pc = "acquire" /\ next <= ViewportNum /\ avail[next] = {}

(* Somebody else can take a step: a batch completes, the first operation   *)
(* of the queue begins, or has a semaphore to come, the screen refreshes.  *)
OthersMove ==
  \/ running # <<>>
  \/ /\ queue # <<>>
     /\ IF IsBatch(queue[1])
        THEN \/ \A s \in queue[1].waits : acquireSem[s] = "signaled"
             \/ \E s \in queue[1].waits : acquireSem[s] = "pending"
        ELSE onFinished[queue[1].frame]
  \/ pc = "acquire" /\ Len(display[next]) > 1

(* No wait goes round in a circle: whenever renderer_render_frame or       *)
(* renderer_delete blocks, the device, the engine or the screen does not.  *)
THEOREM HostIsNeverStuck ==
  ASSUME PlainQueue, NEW i \in Images, NEW j \in Images, i # j
  PROVE  Spec => [](HostBlocks => OthersMove)
<1>1. ASSUME TypeOK, WaitsEnd, queue # <<>> PROVE OthersMove
  <2>1. queue \in Seq(Op) /\ 1 \in DOMAIN queue /\ queue[1] \in Op /\ queue[1] \in ToSet(queue)
        /\ Len(queue) \in Nat /\ 1 \in 1 .. Len(queue) + 1
    BY <1>1 DEF TypeOK, ToSet
  <2>2. CASE IsBatch(queue[1])
    <3>1. \A s \in queue[1].waits : acquireSem[s] # "unsignaled"
      BY <1>1, <2>1 DEF WaitsEnd, SemsDue, SemWaitedFor, Op
    <3>2. \A s \in queue[1].waits : acquireSem[s] \in {"unsignaled", "pending", "signaled"}
      BY <1>1, <2>1 DEF TypeOK, SwapchainTypeOK, Op
    <3> QED
      BY <1>1, <2>2, <3>1, <3>2 DEF OthersMove
  <2>3. CASE ~IsBatch(queue[1])
    <3> DEFINE f == queue[1].frame
    <3>1. f \in Frames /\ RequestAt(f, 1)
      BY <2>1, <2>3 DEF Op, RequestAt, Takes
    <3>2. SignalDue(f, 1)
      BY <1>1, <2>1, <3>1 DEF WaitsEnd, SignalsDue
    <3>3. onFinished[f] \/ ToSet(running) # {}
      BY <3>2 DEF SignalDue
    <3> QED
      BY <1>1, <2>3, <3>3 DEF OthersMove, ToSet
  <2> QED
    BY <2>2, <2>3
<1>2. ASSUME TypeOK, WaitsEnd, HostBlocks, queue = <<>> PROVE OthersMove
  <2>1. ToSet(queue) = {} /\ (running = <<>> => Pending = {})
    BY <1>2 DEF Pending, ToSet
  <2>2. CASE pc = "wait" /\ ~fence[frameIndex]
    BY <1>2, <2>1, <2>2 DEF WaitsEnd, FencesDue, HostUses, DeviceUses, TypeOK, OthersMove
  <2>3. CASE pc = "quitting" /\ Pending # {}
    BY <2>1, <2>3 DEF OthersMove
  <2>4. CASE pc = "acquire" /\ next <= ViewportNum /\ avail[next] = {}
    BY <1>2, <2>1, <2>4 DEF WaitsEnd, ImageDue, OthersMove
  <2> QED
    BY <1>2, <2>2, <2>3, <2>4 DEF HostBlocks
<1>3. FramesInv /\ WaitsEnd => (HostBlocks => OthersMove)
  BY <1>1, <1>2 DEF FramesInv
<1>4. Spec => []WaitsEnd
  BY WaitsAreDue
<1> QED
  BY <1>3, <1>4, SlotsInvariant, PTL
=============================================================================
