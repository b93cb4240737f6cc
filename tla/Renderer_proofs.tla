--------------------------- MODULE Renderer_proofs ---------------------------
(***************************************************************************)
(* Proofs about the frame loop, for any number of viewports, images, frame *)
(* slots and acquire semaphores, whatever the engine, vkQueueSubmit and    *)
(* vkQueuePresentKHR answer, however present requests are ordered with     *)
(* batches, and even if the device is lost.                                *)
(***************************************************************************)
EXTENDS Renderer, SequenceTheorems, TLAPS

(* What is left of a sequence of operations when the n-th has begun.       *)
LEMMA RemoveAtFacts ==
  ASSUME NEW S, NEW q \in Seq(S), NEW n \in 1 .. Len(q)
  PROVE  /\ RemoveAt(q, n) \in Seq(S)
         /\ Len(RemoveAt(q, n)) = Len(q) - 1
         /\ \A k \in 1 .. Len(q) - 1 :
              RemoveAt(q, n)[k] = IF k < n THEN q[k] ELSE q[k + 1]
<1> DEFINE a == SubSeq(q, 1, n - 1)
           b == SubSeq(q, n + 1, Len(q))
<1>1. a \in Seq(S) /\ Len(a) = n - 1 /\ \A k \in 1 .. n - 1 : a[k] = q[k]
  OBVIOUS
<1>2. b \in Seq(S) /\ Len(b) = Len(q) - n /\ \A k \in 1 .. Len(q) - n : b[k] = q[n + k]
  OBVIOUS
<1>3. RemoveAt(q, n) = a \o b
  BY DEF RemoveAt
<1> HIDE DEF a, b
<1>0. Len(q) \in Nat /\ n \in Nat /\ n >= 1 /\ n <= Len(q)
  BY LenProperties
<1>4. Len(a \o b) = Len(q) - 1 /\ a \o b \in Seq(S)
  <2>1. a \o b \in Seq(S) /\ Len(a \o b) = Len(a) + Len(b)
    BY <1>1, <1>2, ConcatProperties
  <2> QED
    BY <1>0, <1>1, <1>2, <2>1
<1>5. ASSUME NEW k \in 1 .. Len(q) - 1
      PROVE  (a \o b)[k] = IF k < n THEN q[k] ELSE q[k + 1]
  <2>0. (a \o b)[k] = IF k <= Len(a) THEN a[k] ELSE b[k - Len(a)]
    BY <1>0, <1>1, <1>2, ConcatProperties
  <2>1. CASE k < n
    BY <1>0, <1>1, <2>0, <2>1
  <2>2. CASE k >= n
    <3>1. (a \o b)[k] = b[k - (n - 1)]
      BY <1>0, <1>1, <2>0, <2>2
    <3>2. k - (n - 1) \in 1 .. Len(q) - n /\ n + (k - (n - 1)) = k + 1
      BY <1>0, <2>2
    <3>3. b[k - (n - 1)] = q[k + 1]
      BY <1>2, <3>2
    <3> QED
      BY <1>0, <2>2, <3>1, <3>3
  <2>3. k < n \/ k >= n
    BY <1>0
  <2> QED
    BY <2>1, <2>2, <2>3, Zenon
<1> QED
  BY <1>3, <1>4, <1>5

---------------------------------------------------------------------------
(* Type correctness.  Record names the semaphores of the acquired          *)
(* viewports, so it needs that these have acquired at least once.          *)

TypedInv == TypeOK /\ AcquiredRotated

LEMMA NextSlotType ==
  ASSUME TypeOK, NEW v \in Viewports
  PROVE  NextSlot(v) \in AcquireSlots
<1>1. acquireIndex[v] \in AcquireSlots \/ acquireIndex[v] = -1
  BY DEF TypeOK, SwapchainTypeOK
<1>2. CASE acquireIndex[v] = -1
  BY <1>2, AcquireNumAssumption DEF NextSlot, AcquireSlots
<1>3. CASE acquireIndex[v] \in AcquireSlots
  BY <1>3, AcquireNumAssumption DEF NextSlot, AcquireSlots
<1> QED
  BY <1>1, <1>2, <1>3

LEMMA TypedInit == Init => TypedInv
<1> SUFFICES ASSUME Init PROVE TypedInv
  OBVIOUS
<1> USE DEF Init, SwapchainInit
<1>1. SwapchainTypeOK
  BY AcquireNumAssumption DEF SwapchainTypeOK, AcquireSlots
<1>2. batch \in Op
  BY FrameNumAssumption DEF NoBatch, Op, Frames
<1>3. queue \in Seq(Op) /\ running \in Seq(Op)
  OBVIOUS
<1>4. pc \in HostStates /\ next \in 1 .. ViewportNum + 1 /\ frameIndex \in Frames
  BY FrameNumAssumption, ViewportNumAssumption DEF HostStates, Frames
<1> QED
  BY <1>1, <1>2, <1>3, <1>4 DEF TypedInv, TypeOK, AcquiredRotated

(* One turn of the acquire loop keeps the viewports' types and leaves the  *)
(* viewports it counts as acquired with a semaphore.                       *)
LEMMA TypedAcquire ==
  ASSUME TypedInv, NEW result \in AcquireResults, Acquire(result)
  PROVE  TypedInv'
<1> USE DEF TypedInv
<1> DEFINE v == next
           s == <<v, NextSlot(v)>>
<1>1. v \in Viewports /\ next' \in 1 .. ViewportNum + 1
  BY ViewportNumAssumption DEF TypeOK, Acquire, Viewports
<1>2. NextSlot(v) \in AcquireSlots /\ s \in AcquireSems
  BY <1>1, NextSlotType DEF AcquireSems
<1>3. acquireIndex' = [acquireIndex EXCEPT ![v] = NextSlot(v)]
  BY DEF Acquire, ViewportAcquire
<1>4. avail' \in [Viewports -> SUBSET Images]
  BY <1>1 DEF TypeOK, SwapchainTypeOK, Acquire, ViewportAcquire, TakeImage
<1>5. acquireSem' \in [AcquireSems -> {"unsignaled", "pending", "signaled"}]
  BY <1>1, <1>2 DEF TypeOK, SwapchainTypeOK, Acquire, ViewportAcquire, TakeImage
<1>6. imageIndex' \in [Viewports -> Images]
  BY <1>1 DEF TypeOK, SwapchainTypeOK, Acquire, ViewportAcquire
<1>7. SwapchainTypeOK'
  BY <1>1, <1>2, <1>3, <1>4, <1>5, <1>6
  DEF TypeOK, SwapchainTypeOK, Acquire, ViewportAcquire
<1>8. acquired' \in SUBSET Viewports
  BY <1>1 DEF TypeOK, Acquire
<1>9. AcquiredRotated'
  BY <1>1, <1>2, <1>3 DEF AcquiredRotated, Acquire, TypeOK, SwapchainTypeOK
<1> QED
  BY <1>1, <1>7, <1>8, <1>9 DEF TypeOK, Acquire, deviceVars

LEMMA TypedRecord ==
  ASSUME TypedInv, Record
  PROVE  TypedInv'
<1> USE DEF TypedInv
<1>1. \A v \in acquired : v \in Viewports /\ OnAcquire(v) \in AcquireSems
  BY DEF TypeOK, AcquiredRotated, OnAcquire, AcquireSems
<1>2. \A v \in acquired : <<v, imageIndex[v]>> \in Targets
  BY <1>1 DEF TypeOK, SwapchainTypeOK, Targets
<1>3. batch' \in Op
  BY <1>1, <1>2 DEF Record, Op, TypeOK
<1> QED
  BY <1>3 DEF Record, Goto, TypeOK, HostStates, AcquiredRotated, deviceVars,
              swapchainVars, SwapchainTypeOK

(* A batch that begins leaves its semaphores unsignaled; the images of a   *)
(* present request go to the end of their viewports' queues.               *)
LEMMA TypedStartBatch ==
  ASSUME TypedInv, NEW n \in 1 .. Len(queue), StartBatch(n)
  PROVE  TypedInv'
<1> USE DEF TypedInv
<1>1. queue[n] \in Op
  BY DEF TypeOK
<1>2. queue' \in Seq(Op)
  BY RemoveAtFacts DEF TypeOK, StartBatch
<1>3. running' \in Seq(Op)
  BY <1>1 DEF TypeOK, StartBatch
<1>4. acquireSem' \in [AcquireSems -> {"unsignaled", "pending", "signaled"}]
  BY DEF TypeOK, SwapchainTypeOK, StartBatch
<1> QED
  BY <1>2, <1>3, <1>4
  DEF StartBatch, hostVars, TypeOK, SwapchainTypeOK, AcquiredRotated

LEMMA TypedPresentImages ==
  ASSUME TypedInv, NEW n \in 1 .. Len(queue), PresentImages(n)
  PROVE  TypedInv'
<1> USE DEF TypedInv
<1> DEFINE targets == queue[n].targets
           Shown(v) == CHOOSE i \in Images : <<v, i>> \in targets
<1>1. queue' \in Seq(Op)
  BY RemoveAtFacts DEF TypeOK, PresentImages
<1>2. onFinished' \in [Frames -> BOOLEAN]
  BY DEF TypeOK, PresentImages
<1>3. ASSUME NEW v \in Viewports
      PROVE  (IF \E i \in Images : <<v, i>> \in targets
              THEN Append(display[v], Shown(v)) ELSE display[v]) \in Seq(Images)
  <2>1. display[v] \in Seq(Images)
    BY DEF TypeOK, SwapchainTypeOK
  <2>2. CASE \E i \in Images : <<v, i>> \in targets
    <3>1. Shown(v) \in Images
      BY <2>2
    <3> QED
      BY <2>1, <2>2, <3>1
  <2>3. CASE ~ \E i \in Images : <<v, i>> \in targets
    BY <2>1, <2>3
  <2> QED
    BY <2>2, <2>3
<1>4. display' \in [Viewports -> Seq(Images)]
  BY <1>3 DEF PresentImages, Show
<1> QED
  BY <1>1, <1>2, <1>4
  DEF PresentImages, hostVars, TypeOK, SwapchainTypeOK, AcquiredRotated

LEMMA TypedFlip ==
  ASSUME TypedInv, NEW v \in Viewports, EngineFlip(v)
  PROVE  TypedInv'
<1> USE DEF TypedInv
<1>1. display[v] \in Seq(Images) /\ display[v] # <<>>
  BY DEF TypeOK, SwapchainTypeOK, EngineFlip, Flip
<1>2. Head(display[v]) \in Images /\ Tail(display[v]) \in Seq(Images)
  BY <1>1
<1>3. display' \in [Viewports -> Seq(Images)] /\ avail' \in [Viewports -> SUBSET Images]
  BY <1>2 DEF TypeOK, SwapchainTypeOK, EngineFlip, Flip
<1> QED
  BY <1>3 DEF EngineFlip, hostVars, deviceVars, TypeOK, SwapchainTypeOK, AcquiredRotated

LEMMA TypedNext == TypedInv /\ [Next]_vars => TypedInv'
<1> SUFFICES ASSUME TypedInv, [Next]_vars PROVE TypedInv'
  OBVIOUS
<1> USE DEF TypedInv, TypeOK, SwapchainTypeOK, AcquiredRotated, HostStates,
            hostVars, deviceVars, swapchainVars, Goto
<1>1. CASE BeginFrame
  BY <1>1, FrameNumAssumption DEF BeginFrame, Frames
<1>2. CASE WaitForFence
  BY <1>2, ViewportNumAssumption DEF WaitForFence
<1>3. CASE \E result \in AcquireResults : Acquire(result)
  BY <1>3, TypedAcquire
<1>4. CASE Record
  BY <1>4, TypedRecord
<1>5. CASE \E result \in SubmitResults : Submit(result)
  <2>1. queue' = queue \/ queue' = Append(queue, batch)
    BY <1>5 DEF Submit
  <2>2. Append(queue, batch) \in Seq(Op)
    OBVIOUS
  <2>3. queue' \in Seq(Op)
    BY <2>1, <2>2
  <2> QED
    BY <1>5, <2>3 DEF Submit
<1>6. CASE \E result \in PresentResults : Present(result)
  <2>1. Request \in Op
    BY DEF Request, Op
  <2>2. queue' \in Seq(Op) /\ unpresented' \in SUBSET Frames
    <3>1. \/ queue' = queue /\ unpresented' = unpresented \cup {frameIndex}
          \/ queue' = Append(queue, Request) /\ unpresented' = unpresented
      BY <1>6 DEF Present, PresentAs
    <3>2. Append(queue, Request) \in Seq(Op)
      BY <2>1, AppendProperties
    <3> QED
      BY <3>1, <3>2
  <2>3. UNCHANGED <<frameIndex, next, acquired, batch, fence, onFinished, running, swapchainVars>>
        /\ pc' = "idle"
    BY <1>6 DEF Present, PresentAs
  <2> QED
    BY <2>2, <2>3
<1>7. CASE Quit
  BY <1>7 DEF Quit
<1>8. CASE Teardown
  BY <1>8 DEF Teardown, RendererDelete, CameraDelete
<1>9. CASE \E n \in 1 .. Len(queue) : StartBatch(n)
  BY <1>9, TypedStartBatch
<1>10. CASE \E n \in 1 .. Len(queue) : PresentImages(n)
  BY <1>10, TypedPresentImages
<1>11. CASE FinishBatch
  <2>1. running' \in Seq(Op)
    BY <1>11 DEF FinishBatch
  <2>2. fence' \in [Frames -> BOOLEAN] /\ onFinished' \in [Frames -> BOOLEAN]
    BY <1>11 DEF FinishBatch
  <2> QED
    BY <1>11, <2>1, <2>2 DEF FinishBatch
<1>12. CASE \E s \in AcquireSems : EngineSignal(s)
  BY <1>12 DEF EngineSignal, SignalAcquire
<1>13. CASE \E v \in Viewports : EngineFlip(v)
  BY <1>13, TypedFlip
<1>14. CASE DeviceLost
  <2>1. queue' \in Seq(Op) /\ running' \in Seq(Op)
    BY <1>14 DEF DeviceLost
  <2>2. fence' \in [Frames -> BOOLEAN]
    BY <1>14 DEF DeviceLost
  <2> QED
    BY <1>14, <2>1, <2>2 DEF DeviceLost
<1>15. CASE UNCHANGED vars
  BY <1>15 DEF vars
<1> QED
  BY <1>1, <1>2, <1>3, <1>4, <1>5, <1>6, <1>7, <1>8, <1>9, <1>10, <1>11, <1>12,
     <1>13, <1>14, <1>15 DEF Next, FrameStep, Terminated

(* Every variable of the frame loop keeps its type: the slot index stays   *)
(* below frame_num, the rotation below MAX_FRAMES_IN_FLIGHT.               *)
THEOREM TypeCorrect == Spec => []TypeOK
<1>1. TypedInv => TypeOK
  BY DEF TypedInv
<1> QED
  BY <1>1, TypedInit, TypedNext, PTL DEF Spec

---------------------------------------------------------------------------
(* Ownership of the frame slots.  A slot's fence is waited for by the host *)
(* only; what makes that enough is that the fence stays unsignaled as long *)
(* as a batch of the slot is submitted (BatchesFenced), and it does because*)
(* the batch that signals it is the only one of that slot                  *)
(* (OneBatchPerSlot): a second one could otherwise still execute.          *)

SlotInv == BatchesFenced /\ OneBatchPerSlot /\ RunningBatches /\ HostHoldsSlot

(* Without a submission nothing is added to what the device has to do.     *)
LEMMA SlotInvUnchanged ==
  ASSUME SlotInv, UNCHANGED <<pc, frameIndex, batch, fence, queue, running>>
  PROVE  SlotInv'
BY DEF SlotInv, BatchesFenced, OneBatchPerSlot, RunningBatches, HostHoldsSlot,
       DeviceUses, Pending, IsBatch, ToSet

LEMMA SlotInvInit == Init => SlotInv
BY DEF Init, SlotInv, BatchesFenced, OneBatchPerSlot, RunningBatches, HostHoldsSlot,
       Pending, ToSet

(* The host moves, submits nothing and leaves the fences alone.            *)
LEMMA SlotInvHostMoves ==
  ASSUME SlotInv, UNCHANGED <<fence, queue, running>>, pc' \notin {"acquire", "submit"}
  PROVE  SlotInv'
BY DEF SlotInv, BatchesFenced, OneBatchPerSlot, RunningBatches, HostHoldsSlot,
       Pending, IsBatch, ToSet

LEMMA SlotInvWait ==
  ASSUME TypeOK, SlotInv, WaitForFence
  PROVE  SlotInv'
<1> USE DEF SlotInv, WaitForFence, Goto
<1>1. ~DeviceUses(frameIndex)
  BY DEF BatchesFenced, DeviceUses
<1>2. fence' \in [Frames -> BOOLEAN] /\ ~fence'[frameIndex]
  BY DEF TypeOK
<1>3. \A op \in Pending : IsBatch(op) => ~fence'[op.frame]
  BY DEF TypeOK, BatchesFenced
<1>4. Pending' = Pending
  BY DEF Pending, ToSet
<1>5. BatchesFenced'
  BY <1>3, <1>4 DEF BatchesFenced, IsBatch
<1>6. HostHoldsSlot'
  BY <1>1, <1>2, <1>4 DEF HostHoldsSlot, DeviceUses, IsBatch
<1> QED
  BY <1>4, <1>5, <1>6 DEF OneBatchPerSlot, RunningBatches, IsBatch, ToSet

LEMMA SlotInvRecord ==
  ASSUME SlotInv, Record
  PROVE  SlotInv'
<1> USE DEF SlotInv, Record, Goto, deviceVars
<1>1. Pending' = Pending
  BY DEF Pending, ToSet
<1>2. HostHoldsSlot'
  BY <1>1 DEF HostHoldsSlot, DeviceUses, IsBatch
<1> QED
  BY <1>1, <1>2 DEF BatchesFenced, OneBatchPerSlot, RunningBatches, IsBatch, ToSet

(* What an operation appended to the queue does to the invariant.          *)
LEMMA SlotInvAppend ==
  ASSUME TypeOK, SlotInv, NEW op \in Op, queue' = Append(queue, op),
         UNCHANGED <<fence, running>>, pc' \notin {"acquire", "submit"},
         IsBatch(op) => ~fence[op.frame] /\ ~DeviceUses(op.frame)
  PROVE  SlotInv'
<1> USE DEF SlotInv
<1>1. queue \in Seq(Op) /\ running \in Seq(Op)
  BY DEF TypeOK
<1>2. /\ DOMAIN queue' = 1 .. Len(queue) + 1
      /\ \A k \in 1 .. Len(queue) : queue'[k] = queue[k]
      /\ queue'[Len(queue) + 1] = op
      /\ DOMAIN queue = 1 .. Len(queue)
      /\ Len(queue) \in Nat
  BY <1>1
<1>3. \A m \in DOMAIN queue' : m \in DOMAIN queue \/ m = Len(queue) + 1
  BY <1>2
<1>4. ToSet(queue') = ToSet(queue) \cup {op}
  BY <1>2, <1>3 DEF ToSet
<1>5. Pending' = Pending \cup {op}
  BY <1>4 DEF Pending
<1>6. BatchesFenced'
  BY <1>5 DEF BatchesFenced, IsBatch
<1>7. ASSUME IsBatch(op)
      PROVE  /\ \A m \in DOMAIN queue : IsBatch(queue[m]) => queue[m].frame # op.frame
             /\ \A m \in DOMAIN running : running[m].frame # op.frame
  BY <1>7 DEF DeviceUses, Pending, ToSet, RunningBatches
<1>8. ASSUME NEW m \in DOMAIN queue', NEW n \in DOMAIN queue',
             IsBatch(queue'[m]), IsBatch(queue'[n]), queue'[m].frame = queue'[n].frame
      PROVE  m = n
  BY <1>2, <1>3, <1>7, <1>8 DEF OneBatchPerSlot
<1>9. ASSUME NEW m \in DOMAIN queue', NEW n \in DOMAIN running, IsBatch(queue'[m])
      PROVE  queue'[m].frame # running[n].frame
  BY <1>2, <1>3, <1>7, <1>9 DEF OneBatchPerSlot
<1>10. OneBatchPerSlot'
  BY <1>8, <1>9 DEF OneBatchPerSlot, IsBatch
<1> QED
  BY <1>6, <1>10 DEF RunningBatches, HostHoldsSlot, IsBatch, ToSet

LEMMA SlotInvSubmit ==
  ASSUME TypeOK, SlotInv, NEW result \in SubmitResults, Submit(result)
  PROVE  SlotInv'
<1> USE DEF Submit, Goto
<1>1. CASE queue' = Append(queue, batch)
  <2>1. IsBatch(batch) => ~fence[batch.frame] /\ ~DeviceUses(batch.frame)
    BY DEF SlotInv, HostHoldsSlot
  <2> QED
    BY <1>1, <2>1, SlotInvAppend DEF TypeOK
<1>2. CASE queue' = queue
  BY <1>2, SlotInvHostMoves
<1> QED
  BY <1>1, <1>2

LEMMA SlotInvPresent ==
  ASSUME TypeOK, SlotInv, NEW result \in PresentResults, Present(result)
  PROVE  SlotInv'
<1> USE DEF Present, PresentAs, Goto
<1>1. Request \in Op /\ ~IsBatch(Request)
  BY DEF TypeOK, Request, Op, IsBatch
<1>2. CASE queue' = Append(queue, Request)
  BY <1>1, <1>2, SlotInvAppend
<1>3. CASE queue' = queue
  BY <1>3, SlotInvHostMoves
<1> QED
  BY <1>2, <1>3

(* Taking the n-th operation off the queue: what is left is part of what   *)
(* was there, and still has one batch per slot.                            *)
LEMMA SlotInvDequeue ==
  ASSUME TypeOK, SlotInv, NEW n \in 1 .. Len(queue), queue' = RemoveAt(queue, n)
  PROVE  \E J \in [DOMAIN queue' -> DOMAIN queue] :
           /\ \A k \in DOMAIN queue' : queue'[k] = queue[J[k]] /\ J[k] # n
           /\ \A k, m \in DOMAIN queue' : J[k] = J[m] => k = m
<1> DEFINE J == [k \in DOMAIN queue' |-> IF k < n THEN k ELSE k + 1]
<1>1. queue \in Seq(Op)
  BY DEF TypeOK
<1>2. /\ Len(queue) \in Nat
      /\ DOMAIN queue = 1 .. Len(queue)
      /\ DOMAIN queue' = 1 .. Len(queue) - 1
      /\ \A k \in 1 .. Len(queue) - 1 :
           queue'[k] = IF k < n THEN queue[k] ELSE queue[k + 1]
  <2>1. queue' \in Seq(Op) /\ Len(queue') = Len(queue) - 1
    BY <1>1, RemoveAtFacts
  <2>2. \A k \in 1 .. Len(queue) - 1 :
          queue'[k] = IF k < n THEN queue[k] ELSE queue[k + 1]
    BY <1>1, RemoveAtFacts
  <2> QED
    BY <1>1, <2>1, <2>2, LenProperties
<1>3. J \in [DOMAIN queue' -> DOMAIN queue]
  BY <1>2
<1>4. \A k \in DOMAIN queue' : queue'[k] = queue[J[k]] /\ J[k] # n
  BY <1>2
<1>5. \A k, m \in DOMAIN queue' : J[k] = J[m] => k = m
  BY <1>2
<1> HIDE DEF J
<1> QED
  BY <1>3, <1>4, <1>5

LEMMA SlotInvStartBatch ==
  ASSUME TypeOK, SlotInv, NEW n \in 1 .. Len(queue), StartBatch(n)
  PROVE  SlotInv'
<1> USE DEF SlotInv
<1>1. PICK J \in [DOMAIN queue' -> DOMAIN queue] :
        /\ \A k \in DOMAIN queue' : queue'[k] = queue[J[k]] /\ J[k] # n
        /\ \A k, m \in DOMAIN queue' : J[k] = J[m] => k = m
  BY SlotInvDequeue DEF StartBatch
<1>2. n \in DOMAIN queue /\ queue[n] \in Op /\ IsBatch(queue[n])
  BY DEF TypeOK, StartBatch, IsBatch
<1>3. /\ DOMAIN running' = 1 .. Len(running) + 1
      /\ \A k \in 1 .. Len(running) : running'[k] = running[k]
      /\ running'[Len(running) + 1] = queue[n]
      /\ DOMAIN running = 1 .. Len(running)
      /\ Len(running) \in Nat
  BY <1>2 DEF TypeOK, StartBatch
<1>4. \A k \in DOMAIN running' : k \in DOMAIN running \/ k = Len(running) + 1
  BY <1>3
<1>5. ToSet(queue') \subseteq ToSet(queue)
  BY <1>1 DEF ToSet
<1>6. ToSet(running') \subseteq ToSet(running) \cup {queue[n]}
  BY <1>3, <1>4 DEF ToSet
<1>7. queue[n] \in ToSet(queue)
  BY <1>2 DEF ToSet
<1>8. Pending' \subseteq Pending
  BY <1>5, <1>6, <1>7 DEF Pending
<1>9. UNCHANGED <<pc, frameIndex, batch, fence>>
  BY DEF StartBatch, hostVars
<1>10. BatchesFenced' /\ HostHoldsSlot'
  BY <1>8, <1>9 DEF BatchesFenced, HostHoldsSlot, DeviceUses, IsBatch
<1>11. RunningBatches'
  BY <1>2, <1>6 DEF RunningBatches, IsBatch
<1>12. ASSUME NEW k \in DOMAIN queue', NEW m \in DOMAIN queue',
              IsBatch(queue'[k]), IsBatch(queue'[m]), queue'[k].frame = queue'[m].frame
       PROVE  k = m
  BY <1>1, <1>12 DEF OneBatchPerSlot
<1>13. \A k \in DOMAIN running : running[k].frame # queue[n].frame
  BY <1>2 DEF OneBatchPerSlot
<1>14. ASSUME NEW k \in DOMAIN running', NEW m \in DOMAIN running',
              running'[k].frame = running'[m].frame
       PROVE  k = m
  BY <1>3, <1>4, <1>13, <1>14 DEF OneBatchPerSlot
<1>15. ASSUME NEW k \in DOMAIN queue', NEW m \in DOMAIN running', IsBatch(queue'[k])
       PROVE  queue'[k].frame # running'[m].frame
  <2>1. CASE m \in DOMAIN running
    BY <1>1, <1>3, <1>15, <2>1 DEF OneBatchPerSlot
  <2>2. CASE m = Len(running) + 1
    BY <1>1, <1>2, <1>3, <1>15, <2>2 DEF OneBatchPerSlot
  <2> QED
    BY <1>4, <2>1, <2>2
<1>16. OneBatchPerSlot'
  BY <1>12, <1>14, <1>15 DEF OneBatchPerSlot, IsBatch
<1> QED
  BY <1>10, <1>11, <1>16

LEMMA SlotInvPresentImages ==
  ASSUME TypeOK, SlotInv, NEW n \in 1 .. Len(queue), PresentImages(n)
  PROVE  SlotInv'
<1> USE DEF SlotInv
<1>1. PICK J \in [DOMAIN queue' -> DOMAIN queue] :
        /\ \A k \in DOMAIN queue' : queue'[k] = queue[J[k]] /\ J[k] # n
        /\ \A k, m \in DOMAIN queue' : J[k] = J[m] => k = m
  BY SlotInvDequeue DEF PresentImages
<1>2. UNCHANGED <<pc, frameIndex, batch, fence, running>>
  BY DEF PresentImages, hostVars
<1>3. ToSet(queue') \subseteq ToSet(queue)
  BY <1>1 DEF ToSet
<1>4. Pending' \subseteq Pending
  BY <1>2, <1>3 DEF Pending
<1>5. BatchesFenced' /\ HostHoldsSlot' /\ RunningBatches'
  BY <1>2, <1>4
  DEF BatchesFenced, HostHoldsSlot, RunningBatches, DeviceUses, IsBatch, ToSet
<1>6. OneBatchPerSlot'
  BY <1>1, <1>2 DEF OneBatchPerSlot, IsBatch
<1> QED
  BY <1>5, <1>6

(* The batch that completes is the only one of its slot, so the fence it   *)
(* signals is no other batch's, nor the one the host holds.                *)
LEMMA SlotInvFinishBatch ==
  ASSUME TypeOK, SlotInv, FinishBatch
  PROVE  SlotInv' /\ ~HostUses(Head(running).frame)
<1> USE DEF SlotInv
<1> DEFINE done == Head(running)
<1>1. /\ running \in Seq(Op) /\ Len(running) \in Nat /\ Len(running) >= 1
      /\ done = running[1] /\ done \in Op /\ 1 \in DOMAIN running
      /\ DOMAIN running = 1 .. Len(running)
  BY DEF TypeOK, FinishBatch
<1>2. /\ DOMAIN running' = 1 .. Len(running) - 1
      /\ \A k \in 1 .. Len(running) - 1 : running'[k] = running[k + 1]
  BY <1>1 DEF FinishBatch
<1>3. \A k \in DOMAIN running' : k + 1 \in DOMAIN running /\ k + 1 # 1
  BY <1>1, <1>2
<1>4. UNCHANGED <<pc, frameIndex, batch, queue>>
  BY DEF FinishBatch, hostVars
<1>5. done.frame \in Frames /\ fence' = [fence EXCEPT ![done.frame] = TRUE]
  BY <1>1 DEF Op, FinishBatch
<1>6. done \in Pending /\ IsBatch(done)
  BY <1>1 DEF Pending, ToSet, RunningBatches
<1> HIDE DEF done
<1>7. ToSet(running') \subseteq ToSet(running)
  BY <1>2, <1>3 DEF ToSet
<1>8. Pending' \subseteq Pending
  BY <1>4, <1>7 DEF Pending
<1>9. ASSUME NEW op \in Pending', IsBatch(op)
      PROVE  op.frame # done.frame
  <2>1. CASE op \in ToSet(queue')
    BY <1>1, <1>4, <1>9, <2>1 DEF ToSet, OneBatchPerSlot
  <2>2. CASE op \in ToSet(running')
    <3>1. PICK k \in DOMAIN running' : op = running'[k]
      BY <2>2 DEF ToSet
    <3>2. op = running[k + 1] /\ k + 1 \in DOMAIN running /\ k + 1 # 1
      BY <1>2, <1>3, <3>1
    <3> QED
      BY <1>1, <3>2 DEF OneBatchPerSlot
  <2> QED
    BY <2>1, <2>2 DEF Pending
<1>10. BatchesFenced'
  <2>1. SUFFICES ASSUME NEW op \in Pending', IsBatch(op) PROVE ~fence'[op.frame]
    BY DEF BatchesFenced, IsBatch
  <2>2. op.frame # done.frame /\ op \in Pending /\ ~fence[op.frame]
    BY <1>8, <1>9, <2>1 DEF BatchesFenced
  <2>3. op \in Op
    BY <2>2 DEF Pending, ToSet, TypeOK
  <2> QED
    BY <1>5, <2>2, <2>3 DEF TypeOK, Op
<1>11. ~HostUses(done.frame)
  BY <1>6 DEF HostUses, HostHoldsSlot, DeviceUses
<1>12. HostHoldsSlot'
  BY <1>4, <1>5, <1>8, <1>11
  DEF HostHoldsSlot, HostUses, DeviceUses, IsBatch, TypeOK
<1>13. ASSUME NEW k \in DOMAIN running', NEW m \in DOMAIN running',
              running'[k].frame = running'[m].frame
       PROVE  k = m
  <2>1. k + 1 = m + 1
    BY <1>2, <1>3, <1>13 DEF OneBatchPerSlot
  <2> QED
    BY <1>1, <1>2, <2>1
<1>14. ASSUME NEW k \in DOMAIN queue', NEW m \in DOMAIN running', IsBatch(queue'[k])
       PROVE  queue'[k].frame # running'[m].frame
  BY <1>2, <1>3, <1>4, <1>14 DEF OneBatchPerSlot
<1>15. OneBatchPerSlot'
  BY <1>4, <1>13, <1>14 DEF OneBatchPerSlot, IsBatch
<1>16. RunningBatches'
  BY <1>7 DEF RunningBatches, IsBatch
<1> QED
  BY <1>10, <1>11, <1>12, <1>15, <1>16 DEF done

(* A device that is lost is done with all that was submitted, and signals  *)
(* no fence of a slot that the host holds.                                 *)
LEMMA SlotInvLost ==
  ASSUME TypeOK, SlotInv, DeviceLost
  PROVE  SlotInv'
<1> USE DEF SlotInv, DeviceLost, hostVars
<1>1. Pending' = {} /\ ToSet(running') = {}
  BY DEF Pending, ToSet
<1>2. OneBatchPerSlot'
  BY DEF OneBatchPerSlot
<1>3. HostHoldsSlot'
  BY <1>1 DEF HostHoldsSlot, HostUses, DeviceUses, IsBatch, TypeOK
<1> QED
  BY <1>1, <1>2, <1>3 DEF BatchesFenced, RunningBatches

LEMMA SlotInvNext == TypeOK /\ SlotInv /\ [Next]_vars => SlotInv'
<1> SUFFICES ASSUME TypeOK, SlotInv, [Next]_vars PROVE SlotInv'
  OBVIOUS
<1>1. CASE BeginFrame
  BY <1>1, SlotInvHostMoves DEF BeginFrame, Goto, deviceVars
<1>2. CASE WaitForFence
  BY <1>2, SlotInvWait
<1>3. CASE \E result \in AcquireResults : Acquire(result)
  BY <1>3, SlotInvUnchanged DEF Acquire, deviceVars
<1>4. CASE Record
  BY <1>4, SlotInvRecord
<1>5. CASE \E result \in SubmitResults : Submit(result)
  BY <1>5, SlotInvSubmit
<1>6. CASE \E result \in PresentResults : Present(result)
  BY <1>6, SlotInvPresent
<1>7. CASE Quit
  BY <1>7, SlotInvHostMoves DEF Quit, Goto, deviceVars
<1>8. CASE Teardown
  BY <1>8, SlotInvHostMoves DEF Teardown, RendererDelete, CameraDelete, Goto, deviceVars
<1>9. CASE \E n \in 1 .. Len(queue) : StartBatch(n)
  BY <1>9, SlotInvStartBatch
<1>10. CASE \E n \in 1 .. Len(queue) : PresentImages(n)
  BY <1>10, SlotInvPresentImages
<1>11. CASE FinishBatch
  BY <1>11, SlotInvFinishBatch
<1>12. CASE \E s \in AcquireSems : EngineSignal(s)
  BY <1>12, SlotInvUnchanged DEF EngineSignal, hostVars, deviceVars
<1>13. CASE \E v \in Viewports : EngineFlip(v)
  BY <1>13, SlotInvUnchanged DEF EngineFlip, hostVars, deviceVars
<1>14. CASE DeviceLost
  BY <1>14, SlotInvLost
<1>15. CASE UNCHANGED vars
  BY <1>15, SlotInvUnchanged DEF vars, hostVars, deviceVars
<1> QED
  BY <1>1, <1>2, <1>3, <1>4, <1>5, <1>6, <1>7, <1>8, <1>9, <1>10, <1>11, <1>12,
     <1>13, <1>14, <1>15 DEF Next, FrameStep, Terminated

(* renderer.c's bookkeeping of slots, fences and submissions is inductive. *)
THEOREM SlotsInvariant == Spec => []FramesInv
<1>1. Init => TypedInv /\ SlotInv
  BY TypedInit, SlotInvInit
<1>2. TypedInv /\ SlotInv /\ [Next]_vars => TypedInv' /\ SlotInv'
  BY TypedNext, SlotInvNext DEF TypedInv
<1>3. TypedInv /\ SlotInv => FramesInv
  BY DEF TypedInv, SlotInv, FramesInv
<1> QED
  BY <1>1, <1>2, <1>3, PTL DEF Spec

(* The pools and buffers of a slot are never reset or written while a      *)
(* batch recorded in that slot is queued or executing, even if acquires or *)
(* submissions fail and whatever order present requests are executed in.   *)
THEOREM FramesExclusive == Spec => []FrameExclusive
<1>1. FramesInv => FrameExclusive
  BY DEF FramesInv, HostHoldsSlot, FrameExclusive, HostUses
<1> QED
  BY <1>1, SlotsInvariant, PTL

---------------------------------------------------------------------------
(* The frame loop implements FrameQueue: slots with a single owner, taken  *)
(* by the host in rotation and only when free.                             *)

SlotOwner == [f \in Frames |-> Owner(f)]

LastSlot == IF pc = "wait" THEN Predecessor(frameIndex) ELSE frameIndex

LEMMA PredecessorFacts ==
  ASSUME NEW f \in Frames
  PROVE  /\ Predecessor(f) \in Frames
         /\ Slots!Successor(Predecessor(f)) = f
         /\ Predecessor(IF f + 1 >= FrameNum THEN 0 ELSE f + 1) = f
BY FrameNumAssumption DEF Predecessor, Slots!Successor, Frames

LEMMA SlotsInit == Init => Slots!Init
BY DEF Init, Slots!Init, Slots!Frames, Frames, Owner, HostUses

LEMMA SlotsUnchanged ==
  ASSUME UNCHANGED <<SlotOwner, LastSlot>>
  PROVE  UNCHANGED Slots!vars
BY DEF Slots!vars, SlotOwner, LastSlot

(* The wait for the fence is what takes the slot.                          *)
LEMMA WaitTakesSlot ==
  ASSUME TypeOK, WaitForFence
  PROVE  Slots!Take
<1> USE DEF WaitForFence, Goto, Owner, HostUses
<1>1. frameIndex \in Frames /\ LastSlot = Predecessor(frameIndex) /\ LastSlot' = frameIndex
  BY DEF TypeOK, LastSlot
<1>2. Slots!Successor(LastSlot) = frameIndex
  BY <1>1, PredecessorFacts
<1>3. \A f \in Frames : SlotOwner[f] # "host"
  BY DEF SlotOwner
<1>4. SlotOwner[frameIndex] = "free"
  BY <1>1 DEF SlotOwner
<1>5. SlotOwner' = [SlotOwner EXCEPT ![frameIndex] = "host"]
  <2>1. \A f \in Frames : Owner(f)' = IF f = frameIndex THEN "host" ELSE Owner(f)
    BY DEF TypeOK
  <2> QED
    BY <1>1, <2>1 DEF SlotOwner
<1> QED
  BY <1>1, <1>2, <1>3, <1>4, <1>5 DEF Slots!Take, Slots!Frames, Frames, SlotOwner, LastSlot

(* The submission hands it to the device, whether or not the device took   *)
(* the batch.                                                              *)
LEMMA SubmitHandsSlot ==
  ASSUME FramesInv, NEW result \in SubmitResults, Submit(result)
  PROVE  Slots!Hand
<1> USE DEF Submit, Goto, Owner, HostUses
<1>1. frameIndex \in Frames /\ LastSlot = frameIndex /\ LastSlot' = LastSlot
  BY DEF FramesInv, TypeOK, LastSlot
<1>2. SlotOwner[frameIndex] = "host" /\ ~fence[frameIndex]
  BY <1>1 DEF SlotOwner, FramesInv, HostHoldsSlot
<1>3. SlotOwner' = [SlotOwner EXCEPT ![frameIndex] = "device"]
  <2>1. \A f \in Frames : Owner(f)' = IF f = frameIndex THEN "device" ELSE Owner(f)
    BY <1>2
  <2> QED
    BY <1>1, <2>1 DEF SlotOwner
<1> QED
  BY <1>1, <1>2, <1>3 DEF Slots!Hand, Slots!Frames, Frames, SlotOwner, LastSlot

(* The completion of its only batch frees it.                              *)
LEMMA FinishRetiresSlot ==
  ASSUME FramesInv, FinishBatch
  PROVE  \E f \in Frames : Slots!Retire(f)
<1> DEFINE f == Head(running).frame
<1>1. f \in Frames /\ Head(running) \in Pending /\ IsBatch(Head(running))
  <2>1. running \in Seq(Op) /\ running # <<>>
    BY DEF FramesInv, TypeOK, FinishBatch
  <2>2. Head(running) \in Op /\ Head(running) \in ToSet(running)
    BY <2>1 DEF ToSet
  <2> QED
    BY <2>2 DEF Op, Pending, FramesInv, RunningBatches
<1>2. ~HostUses(f) /\ ~fence[f]
  BY <1>1, SlotInvFinishBatch DEF FramesInv, SlotInv, BatchesFenced
<1>3. UNCHANGED <<pc, frameIndex>> /\ fence' = [fence EXCEPT ![f] = TRUE]
  BY DEF FinishBatch, hostVars
<1> HIDE DEF f
<1>4. SlotOwner[f] = "device"
  BY <1>1, <1>2 DEF SlotOwner, Owner
<1>5. \A g \in Frames : Owner(g)' = IF g = f THEN "free" ELSE Owner(g)
  BY <1>1, <1>2, <1>3 DEF Owner, HostUses, FramesInv, TypeOK
<1>6. SlotOwner' = [SlotOwner EXCEPT ![f] = "free"]
  BY <1>1, <1>5 DEF SlotOwner
<1>7. Slots!Retire(f)
  BY <1>1, <1>3, <1>4, <1>6 DEF Slots!Retire, SlotOwner, LastSlot, Predecessor
<1> QED
  BY <1>1, <1>7

(* The loss of the device frees all the slots that were its own.           *)
LEMMA LossRetiresSlots ==
  ASSUME FramesInv, DeviceLost
  PROVE  Slots!RetireAll
<1> USE DEF DeviceLost, hostVars, Owner, HostUses
<1>1. \A f \in Frames :
        Owner(f)' = IF Owner(f) = "device" THEN "free" ELSE Owner(f)
  BY DEF FramesInv, TypeOK, HostHoldsSlot
<1>2. SlotOwner' = [f \in Frames |-> IF SlotOwner[f] = "device" THEN "free" ELSE SlotOwner[f]]
  BY <1>1 DEF SlotOwner
<1> QED
  BY <1>2 DEF Slots!RetireAll, Slots!Frames, Frames, SlotOwner, LastSlot, Predecessor

LEMMA SlotsStep == FramesInv /\ [Next]_vars => [Slots!Next]_(Slots!vars)
<1> SUFFICES ASSUME FramesInv, [Next]_vars PROVE Slots!Next \/ UNCHANGED Slots!vars
  OBVIOUS
<1> USE DEF FramesInv, SlotOwner, LastSlot, Owner, HostUses, hostVars, deviceVars, Goto
<1>1. CASE BeginFrame
  <2>1. LastSlot' = LastSlot
    BY <1>1, PredecessorFacts DEF BeginFrame, TypeOK
  <2>2. SlotOwner' = SlotOwner
    BY <1>1 DEF BeginFrame
  <2> QED
    BY <2>1, <2>2, SlotsUnchanged
<1>2. CASE WaitForFence
  BY <1>2, WaitTakesSlot DEF Slots!Next
<1>3. CASE \E result \in AcquireResults : Acquire(result)
  BY <1>3, SlotsUnchanged DEF Acquire
<1>4. CASE Record
  <2>1. SlotOwner' = SlotOwner /\ LastSlot' = LastSlot
    BY <1>4 DEF Record
  <2> QED
    BY <2>1, SlotsUnchanged
<1>5. CASE \E result \in SubmitResults : Submit(result)
  BY <1>5, SubmitHandsSlot DEF Slots!Next
<1>6. CASE \E result \in PresentResults : Present(result)
  BY <1>6, SlotsUnchanged DEF Present, PresentAs
<1>7. CASE Quit
  BY <1>7, SlotsUnchanged DEF Quit
<1>8. CASE Teardown
  BY <1>8, SlotsUnchanged DEF Teardown, RendererDelete, CameraDelete
<1>9. CASE \E n \in 1 .. Len(queue) : StartBatch(n)
  BY <1>9, SlotsUnchanged DEF StartBatch
<1>10. CASE \E n \in 1 .. Len(queue) : PresentImages(n)
  BY <1>10, SlotsUnchanged DEF PresentImages
<1>11. CASE FinishBatch
  BY <1>11, FinishRetiresSlot DEF Slots!Next, Slots!Frames, Frames
<1>12. CASE \E s \in AcquireSems : EngineSignal(s)
  BY <1>12, SlotsUnchanged DEF EngineSignal
<1>13. CASE \E v \in Viewports : EngineFlip(v)
  BY <1>13, SlotsUnchanged DEF EngineFlip
<1>14. CASE DeviceLost
  BY <1>14, LossRetiresSlots DEF Slots!Next
<1>15. CASE UNCHANGED vars
  BY <1>15, SlotsUnchanged DEF vars
<1> QED
  BY <1>1, <1>2, <1>3, <1>4, <1>5, <1>6, <1>7, <1>8, <1>9, <1>10, <1>11, <1>12,
     <1>13, <1>14, <1>15 DEF Next, FrameStep, Terminated

(* The fences, pools and queue of renderer.c implement frame slots with a  *)
(* single owner, used in rotation.                                         *)
THEOREM SlotsImplemented == Spec => SlotsSafe
BY SlotsInit, SlotsStep, SlotsInvariant, PTL DEF Spec, SlotsSafe, Slots!SafeSpec

---------------------------------------------------------------------------
(* What the liveness of Renderer rests on: how far the host thread is from *)
(* its return, and what the device, the engine and the screen have still   *)
(* to do.                                                                  *)

HostPhase ==
  CASE pc = "wait"      -> ViewportNum + 4
    [] pc = "acquire"   -> ViewportNum + 4 - next
    [] pc = "submit"    -> 2
    [] pc = "present"   -> 1
    [] pc = "quitting"  -> 2
    [] pc = "no_frames" -> 1
    [] OTHER            -> 0

PendingSems == {s \in AcquireSems : acquireSem[s] = "pending"}

UnsignaledFences == {f \in Frames : ~fence[f]}

(* An operation begins or is dropped, a batch completes, a fence or a      *)
(* semaphore is signaled, an image leaves the screen; and none of them     *)
(* takes back one before it.                                               *)
LessToDo ==
  \/ Len(queue') < Len(queue)
  \/ queue' = queue /\ Len(running') < Len(running)
  \/ UNCHANGED <<queue, running, display, acquireSem>>
       /\ UnsignaledFences' \subseteq UnsignaledFences /\ UnsignaledFences' # UnsignaledFences
  \/ UNCHANGED <<queue, running, display>> /\ PendingSems' \subseteq PendingSems
       /\ PendingSems' # PendingSems
  \/ /\ UNCHANGED <<queue, running, acquireSem>>
     /\ \A v \in Viewports : Len(display'[v]) <= Len(display[v])
     /\ \E v \in Viewports : Len(display'[v]) < Len(display[v])

(* From the wait for the fence to the return of renderer_render_frame, and *)
(* from renderer_delete to the end of camera_delete.                       *)
FrameNears ==
  [][pc \notin {"idle", "deleted"} =>
       HostPhase' < HostPhase \/ (HostPhase' = HostPhase /\ LessToDo)]_vars

LEMMA HostNears ==
  ASSUME TypeOK, FrameStep \/ Teardown
  PROVE  HostPhase' < HostPhase
<1>1. next \in 1 .. ViewportNum + 1 /\ ViewportNum \in Nat
  BY ViewportNumAssumption DEF TypeOK
<1>2. CASE WaitForFence
  <2>1. pc = "wait" /\ pc' = "acquire" /\ next' = 1
    BY <1>2 DEF WaitForFence, Goto
  <2>2. HostPhase = ViewportNum + 4 /\ HostPhase' = ViewportNum + 4 - 1
    BY <2>1 DEF HostPhase
  <2> QED BY <1>1, <2>2
<1>3. ASSUME NEW result \in AcquireResults, Acquire(result) PROVE HostPhase' < HostPhase
  <2>1. pc = "acquire" /\ pc' = "acquire" /\ next' = next + 1
    BY <1>3 DEF Acquire
  <2>2. HostPhase = ViewportNum + 4 - next /\ HostPhase' = ViewportNum + 4 - (next + 1)
    BY <2>1 DEF HostPhase
  <2> QED BY <1>1, <2>2
<1>4. CASE Record
  <2>1. HostPhase = ViewportNum + 4 - next /\ HostPhase' = 2
    BY <1>4 DEF Record, Goto, HostPhase
  <2> QED BY <1>1, <2>1
<1>5. ASSUME NEW result \in SubmitResults, Submit(result) PROVE HostPhase' < HostPhase
  <2>1. HostPhase = 2 /\ HostPhase' = 1
    BY <1>5 DEF Submit, Goto, HostPhase
  <2> QED BY <2>1
<1>6. ASSUME NEW result \in PresentResults, Present(result) PROVE HostPhase' < HostPhase
  <2>1. HostPhase = 1 /\ HostPhase' = 0
    BY <1>6 DEF Present, PresentAs, Goto, HostPhase
  <2> QED BY <2>1
<1>7. CASE RendererDelete
  <2>1. HostPhase = 2 /\ HostPhase' = 1
    BY <1>7 DEF RendererDelete, Goto, HostPhase
  <2> QED BY <2>1
<1>8. CASE CameraDelete
  <2>1. HostPhase = 1 /\ HostPhase' = 0
    BY <1>8 DEF CameraDelete, Goto, HostPhase
  <2> QED BY <2>1
<1> QED BY <1>2, <1>3, <1>4, <1>5, <1>6, <1>7, <1>8 DEF FrameStep, Teardown

LEMMA DeviceNears ==
  ASSUME TypeOK,
         \/ \E n \in 1 .. Len(queue) : StartBatch(n) \/ PresentImages(n)
         \/ FinishBatch
         \/ DeviceLost
  PROVE  HostPhase' = HostPhase /\ LessToDo
<1>1. queue \in Seq(Op) /\ running \in Seq(Op)
  BY DEF TypeOK
<1>2. ASSUME pc' = pc, next' = next PROVE HostPhase' = HostPhase
  BY <1>2 DEF HostPhase
<1>3. ASSUME NEW n \in 1 .. Len(queue), StartBatch(n) \/ PresentImages(n)
      PROVE  HostPhase' = HostPhase /\ LessToDo
  <2>1. queue' = RemoveAt(queue, n) /\ UNCHANGED <<pc, next>>
    BY <1>3 DEF StartBatch, PresentImages, hostVars
  <2>2. Len(queue') = Len(queue) - 1 /\ Len(queue) \in Nat
    BY <1>1, <2>1, RemoveAtFacts, LenProperties
  <2>3. Len(queue') < Len(queue)
    BY <2>2
  <2> QED BY <1>2, <2>1, <2>3 DEF LessToDo
<1>4. CASE FinishBatch
  <2>1. queue' = queue /\ running # <<>> /\ running' = Tail(running) /\ UNCHANGED <<pc, next>>
    BY <1>4 DEF FinishBatch, hostVars
  <2>2. Len(running') < Len(running)
    BY <1>1, <2>1
  <2> QED BY <1>2, <2>1, <2>2 DEF LessToDo
<1>5. CASE DeviceLost
  <2>1. queue' = <<>> /\ running' = <<>> /\ UNCHANGED <<pc, next, display, acquireSem>>
    BY <1>5 DEF DeviceLost, hostVars, swapchainVars
  <2>2. CASE queue # <<>>
    <3>1. Len(queue') < Len(queue)
      BY <1>1, <2>1, <2>2, EmptySeq, LenProperties
    <3> QED BY <1>2, <2>1, <3>1 DEF LessToDo
  <2>3. CASE queue = <<>> /\ running # <<>>
    <3>1. Len(running') < Len(running)
      BY <1>1, <2>1, <2>3, EmptySeq, LenProperties
    <3> QED BY <1>2, <2>1, <2>3, <3>1 DEF LessToDo
  <2>4. CASE queue = <<>> /\ running = <<>>
    <3>1. PICK f \in Frames : ~fence[f] /\ ~HostUses(f)
      BY <1>5, <2>4 DEF DeviceLost
    <3>2. \A g \in Frames : fence'[g] = (fence[g] \/ ~HostUses(g))
      BY <1>5 DEF DeviceLost
    <3>3. UnsignaledFences' \subseteq UnsignaledFences /\ f \in UnsignaledFences \ UnsignaledFences'
      BY <3>1, <3>2 DEF UnsignaledFences
    <3> QED BY <1>2, <2>1, <2>4, <3>3 DEF LessToDo
  <2> QED BY <2>2, <2>3, <2>4
<1> QED BY <1>3, <1>4, <1>5

LEMMA EngineNears ==
  ASSUME TypeOK,
         (\E s \in AcquireSems : EngineSignal(s)) \/ (\E v \in Viewports : EngineFlip(v))
  PROVE  HostPhase' = HostPhase /\ LessToDo
<1>1. /\ acquireSem \in [AcquireSems -> {"unsignaled", "pending", "signaled"}]
      /\ display \in [Viewports -> Seq(Images)]
  BY DEF TypeOK, SwapchainTypeOK
<1>2. ASSUME pc' = pc, next' = next PROVE HostPhase' = HostPhase
  BY <1>2 DEF HostPhase
<1>3. ASSUME NEW s \in AcquireSems, EngineSignal(s) PROVE HostPhase' = HostPhase /\ LessToDo
  <2>1. /\ UNCHANGED <<pc, next, queue, running, display>>
        /\ acquireSem[s] = "pending"
        /\ acquireSem' = [acquireSem EXCEPT ![s] = "signaled"]
    BY <1>3 DEF EngineSignal, SignalAcquire, hostVars, deviceVars
  <2>2. PendingSems' = PendingSems \ {s} /\ s \in PendingSems
    BY <1>1, <2>1 DEF PendingSems
  <2> QED BY <1>2, <2>1, <2>2 DEF LessToDo
<1>4. ASSUME NEW v \in Viewports, EngineFlip(v) PROVE HostPhase' = HostPhase /\ LessToDo
  <2>1. /\ UNCHANGED <<pc, next, queue, running, acquireSem>>
        /\ Len(display[v]) > 1
        /\ display' = [display EXCEPT ![v] = Tail(display[v])]
    BY <1>4 DEF EngineFlip, Flip, hostVars, deviceVars
  <2>2. display[v] \in Seq(Images) /\ display[v] # <<>>
    BY <1>1, <2>1
  <2>3. Len(Tail(display[v])) < Len(display[v])
    BY <2>2
  <2>4. \A u \in Viewports : display'[u] = IF u = v THEN Tail(display[v]) ELSE display[u]
    BY <1>1, <2>1
  <2>5. \A u \in Viewports : Len(display[u]) \in Nat
    BY <1>1
  <2>6. Len(display'[v]) < Len(display[v])
    BY <2>3, <2>4
  <2>7. ASSUME NEW u \in Viewports PROVE Len(display'[u]) <= Len(display[u])
    <3>1. CASE u = v
      <4>1. display'[u] = Tail(display[v]) /\ Tail(display[v]) \in Seq(Images)
        BY <2>2, <2>4, <3>1
      <4>2. Len(display'[u]) \in Nat
        BY <4>1
      <4>3. Len(display'[u]) < Len(display[u])
        BY <2>6, <3>1
      <4> QED BY <2>5, <4>2, <4>3
    <3>2. CASE u # v
      <4>1. display'[u] = display[u]
        BY <2>4, <3>2
      <4> QED BY <2>5, <4>1
    <3> QED BY <3>1, <3>2
  <2> QED BY <1>2, <2>1, <2>6, <2>7 DEF LessToDo
<1> QED BY <1>3, <1>4

(* A frame and a teardown come to their end after finitely many steps of   *)
(* all that takes part: each step brings the host thread nearer to its     *)
(* return, or leaves it where it is and the others with less to do.        *)
THEOREM FramesEnd == Spec => FrameNears
<1> DEFINE A == pc \notin {"idle", "deleted"} =>
                  HostPhase' < HostPhase \/ (HostPhase' = HostPhase /\ LessToDo)
<1>1. TypeOK /\ [Next]_vars => [A]_vars
  <2> SUFFICES ASSUME TypeOK, Next, pc \notin {"idle", "deleted"}
               PROVE  HostPhase' < HostPhase \/ (HostPhase' = HostPhase /\ LessToDo)
    OBVIOUS
  <2>1. ~BeginFrame /\ ~Quit /\ ~Terminated
    BY DEF BeginFrame, Quit, Terminated, Goto
  <2> QED BY <2>1, HostNears, DeviceNears, EngineNears DEF Next
<1>2. Spec => [][A]_vars
  BY <1>1, TypeCorrect, PTL DEF Spec
<1> QED BY <1>2 DEF FrameNears

---------------------------------------------------------------------------
(* What is submitted stays in its queue, no farther from its turn, until   *)
(* it has begun: a batch is then the last that executes, the images of a   *)
(* present request wait for the screen.                                    *)
QueueKeeps(n) ==
  \/ \E m \in 1 .. n : m \in DOMAIN queue' /\ queue'[m] = queue[n]
  \/ IsBatch(queue[n]) /\ running' = Append(running, queue[n])
  \/ ~IsBatch(queue[n]) /\ Show(queue[n].targets)

(* What executes goes on until its fence is signaled.                      *)
DeviceKeeps(n) ==
  \/ \E m \in 1 .. n : m \in DOMAIN running' /\ running'[m] = running[n]
  \/ fence'[running[n].frame]

(* No submission is lost or put off, unless all of them are.               *)
SubmissionsAdvance ==
  [][\/ DeviceLost
     \/ /\ \A n \in DOMAIN queue : QueueKeeps(n)
        /\ \A n \in DOMAIN running : DeviceKeeps(n)]_vars

LEMMA QueueKept ==
  ASSUME TypeOK, Next, ~DeviceLost, NEW n \in DOMAIN queue
  PROVE  QueueKeeps(n)
<1>1. queue \in Seq(Op) /\ DOMAIN queue = 1 .. Len(queue) /\ Len(queue) \in Nat
      /\ n \in 1 .. Len(queue) /\ n \in 1 .. n
  <2>1. queue \in Seq(Op)
    BY DEF TypeOK
  <2>2. DOMAIN queue = 1 .. Len(queue) /\ Len(queue) \in Nat
    BY <2>1, LenProperties
  <2> QED BY <2>1, <2>2
<1>2. ASSUME queue' = queue PROVE QueueKeeps(n)
  BY <1>1, <1>2 DEF QueueKeeps
<1>3. ASSUME NEW op \in Op, queue' = Append(queue, op) PROVE QueueKeeps(n)
  <2>1. n \in DOMAIN queue' /\ queue'[n] = queue[n]
    BY <1>1, <1>3, AppendProperties, LenProperties
  <2> QED BY <1>1, <2>1 DEF QueueKeeps
<1>4. ASSUME NEW k \in 1 .. Len(queue), queue' = RemoveAt(queue, k), k # n PROVE QueueKeeps(n)
  <2>1. /\ queue' \in Seq(Op) /\ Len(queue') = Len(queue) - 1
        /\ \A j \in 1 .. Len(queue) - 1 : queue'[j] = IF j < k THEN queue[j] ELSE queue[j + 1]
    BY <1>1, <1>4, RemoveAtFacts
  <2>2. DOMAIN queue' = 1 .. Len(queue) - 1
    BY <2>1, LenProperties
  <2>3. CASE n < k
    <3>1. n \in 1 .. Len(queue) - 1
      BY <1>1, <2>3
    <3> QED BY <1>1, <2>1, <2>2, <2>3, <3>1 DEF QueueKeeps
  <2>4. CASE n > k
    <3>1. n - 1 \in 1 .. Len(queue) - 1 /\ n - 1 \in 1 .. n /\ ~(n - 1 < k) /\ (n - 1) + 1 = n
      BY <1>1, <2>4
    <3>2. queue'[n - 1] = queue[n]
      BY <2>1, <3>1
    <3> QED BY <2>2, <3>1, <3>2 DEF QueueKeeps
  <2> QED BY <1>1, <1>4, <2>3, <2>4
<1>5. ASSUME FrameStep PROVE QueueKeeps(n)
  <2>1. CASE queue' = queue
    BY <1>2, <2>1
  <2>2. CASE queue' # queue
    <3>1. batch \in Op
      BY DEF TypeOK
    <3>2. Request \in Op
      BY <3>1 DEF Request, Op
    <3>3. \E op \in Op : queue' = Append(queue, op)
      BY <1>5, <2>2, <3>1, <3>2
      DEF FrameStep, WaitForFence, Acquire, Record, Submit, Present, PresentAs, deviceVars
    <3> QED BY <1>3, <3>3
  <2> QED BY <2>1, <2>2
<1>6. ASSUME NEW k \in 1 .. Len(queue), StartBatch(k) PROVE QueueKeeps(n)
  <2>1. /\ queue' = RemoveAt(queue, k) /\ IsBatch(queue[k])
        /\ running' = Append(running, queue[k])
    BY <1>6 DEF StartBatch, IsBatch
  <2>2. CASE k = n
    BY <2>1, <2>2 DEF QueueKeeps
  <2> QED BY <1>4, <2>1, <2>2
<1>7. ASSUME NEW k \in 1 .. Len(queue), PresentImages(k) PROVE QueueKeeps(n)
  <2>1. queue' = RemoveAt(queue, k) /\ ~IsBatch(queue[k]) /\ Show(queue[k].targets)
    BY <1>7 DEF PresentImages, IsBatch
  <2>2. CASE k = n
    BY <2>1, <2>2 DEF QueueKeeps
  <2> QED BY <1>4, <2>1, <2>2
<1>8. ASSUME \/ BeginFrame \/ Quit \/ Teardown \/ Terminated \/ FinishBatch
             \/ (\E s \in AcquireSems : EngineSignal(s)) \/ (\E v \in Viewports : EngineFlip(v))
      PROVE  QueueKeeps(n)
  <2>1. queue' = queue
    BY <1>8 DEF BeginFrame, Quit, Teardown, RendererDelete, CameraDelete, Terminated, FinishBatch,
       EngineSignal, EngineFlip, deviceVars, vars
  <2> QED BY <1>2, <2>1
<1> QED BY <1>5, <1>6, <1>7, <1>8 DEF Next

LEMMA DeviceKept ==
  ASSUME TypeOK, Next, ~DeviceLost, NEW n \in DOMAIN running
  PROVE  DeviceKeeps(n)
<1>1. running \in Seq(Op) /\ DOMAIN running = 1 .. Len(running) /\ Len(running) \in Nat
      /\ n \in 1 .. Len(running) /\ n \in 1 .. n
  <2>1. running \in Seq(Op)
    BY DEF TypeOK
  <2>2. DOMAIN running = 1 .. Len(running) /\ Len(running) \in Nat
    BY <2>1, LenProperties
  <2> QED BY <2>1, <2>2
<1>2. ASSUME running' = running PROVE DeviceKeeps(n)
  BY <1>1, <1>2 DEF DeviceKeeps
<1>3. ASSUME NEW k \in 1 .. Len(queue), StartBatch(k) PROVE DeviceKeeps(n)
  <2>1. queue[k] \in Op /\ running' = Append(running, queue[k])
    BY <1>3, ElementOfSeq DEF TypeOK, StartBatch
  <2>2. n \in DOMAIN running' /\ running'[n] = running[n]
    BY <1>1, <2>1, AppendProperties, LenProperties
  <2> QED BY <1>1, <2>2 DEF DeviceKeeps
<1>4. ASSUME FinishBatch PROVE DeviceKeeps(n)
  <2>1. /\ running # <<>> /\ running' = Tail(running)
        /\ fence' = [fence EXCEPT ![Head(running).frame] = TRUE]
    BY <1>4 DEF FinishBatch
  <2>2. /\ Head(running) = running[1] /\ running' \in Seq(Op) /\ Len(running') = Len(running) - 1
        /\ \A k \in 1 .. Len(running) - 1 : running'[k] = running[k + 1]
    BY <1>1, <2>1, HeadTailProperties
  <2>3. CASE n = 1
    <3>1. running[n].frame \in Frames
      <4>1. running[n] \in Op
        BY <1>1, ElementOfSeq
      <4> QED BY <4>1 DEF Op
    <3>2. fence \in [Frames -> BOOLEAN] /\ Head(running) = running[n]
      BY <2>2, <2>3 DEF TypeOK
    <3>3. fence'[running[n].frame] = TRUE
      BY <2>1, <3>1, <3>2
    <3> QED BY <3>3 DEF DeviceKeeps
  <2>4. CASE n # 1
    <3>1. n - 1 \in 1 .. Len(running) - 1 /\ n - 1 \in 1 .. n /\ (n - 1) + 1 = n
      BY <1>1, <2>4
    <3>2. DOMAIN running' = 1 .. Len(running) - 1
      BY <2>2, LenProperties
    <3>3. running'[n - 1] = running[n]
      BY <2>2, <3>1
    <3> QED BY <3>1, <3>2, <3>3 DEF DeviceKeeps
  <2> QED BY <2>3, <2>4
<1>5. ASSUME \/ BeginFrame \/ FrameStep \/ Quit \/ Teardown \/ Terminated
             \/ (\E k \in 1 .. Len(queue) : PresentImages(k))
             \/ (\E s \in AcquireSems : EngineSignal(s)) \/ (\E v \in Viewports : EngineFlip(v))
      PROVE  DeviceKeeps(n)
  <2>1. running' = running
    BY <1>5 DEF BeginFrame, FrameStep, WaitForFence, Acquire, Record, Submit, Present, PresentAs, Quit, Teardown,
       RendererDelete, CameraDelete, Terminated, PresentImages, EngineSignal, EngineFlip, deviceVars, vars
  <2> QED BY <1>2, <2>1
<1> QED BY <1>3, <1>4, <1>5 DEF Next

(* Whatever is submitted stays submitted as long as there is a device: no  *)
(* batch is dropped or put off before its fence is signaled, and no        *)
(* present request before its images wait for the screen.                  *)
THEOREM SubmissionsAreKept == Spec => SubmissionsAdvance
<1> DEFINE A == \/ DeviceLost
                \/ /\ \A n \in DOMAIN queue : QueueKeeps(n)
                   /\ \A n \in DOMAIN running : DeviceKeeps(n)
<1>1. TypeOK /\ [Next]_vars => [A]_vars
  BY QueueKept, DeviceKept
<1>2. Spec => [][A]_vars
  BY <1>1, TypeCorrect, PTL DEF Spec
<1> QED BY <1>2 DEF SubmissionsAdvance
=============================================================================
