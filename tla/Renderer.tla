------------------------------ MODULE Renderer ------------------------------
(***************************************************************************)
(* The frame loop of renderer.c: the host thread in renderer_render_frame, *)
(* the device that executes what it submits, and the presentation engine,  *)
(* from the state in which renderer_new and camera_new have succeeded to   *)
(* the teardown of both.                                                   *)
(*                                                                         *)
(* One call of renderer_render_frame is split where the device or the      *)
(* engine can run in between and be noticed: the choice of the frame slot, *)
(* the wait for its fence, each viewport_acquire, the recording, the       *)
(* submission and the presentation.                                        *)
(***************************************************************************)
EXTENDS Swapchain, SequencesExt

CONSTANTS
  FrameNum,        \* ren->frame_num, the slots renderer_new sets up
  SubmitResults,   \* what vkQueueSubmit may answer
  PresentResults,  \* what vkQueuePresentKHR may answer
  PresentHolds,    \* a present request holds back the batches behind it
  IdleWaitsForPresents,  \* vkQueueWaitIdle waits for present requests too
  DeviceMayBeLost  \* the device may stop and drop what was submitted

ASSUME FrameNumAssumption == FrameNum \in Nat \ {0}
ASSUME SubmitResultsAssumption == SubmitResults \subseteq {"ok", "failed"}
ASSUME PresentResultsAssumption == PresentResults \subseteq {"ok", "failed"}
ASSUME DeviceAssumption ==
  {PresentHolds, IdleWaitsForPresents, DeviceMayBeLost} \subseteq BOOLEAN

Frames == 0 .. FrameNum - 1

VARIABLES
  pc,              \* where the host thread is
  frameIndex,      \* ren->frame_index
  next,            \* the viewport viewport_acquire is called on next
  acquired,        \* the viewports left after the cull
  batch,           \* the command buffer and present info being built
  unpresented,     \* history: slots that have had a frame without a present request
  fence,           \* frame->is_in_flight is signaled, per slot
  onFinished,      \* frame->on_finished is signaled, per slot
  queue,           \* operations submitted to present_queue, not yet begun
  running          \* batches the device is executing, oldest first

hostVars == <<pc, frameIndex, next, acquired, batch, unpresented>>
deviceVars == <<fence, onFinished, queue, running>>
vars == <<hostVars, deviceVars, swapchainVars>>

Targets == Viewports \X Images

(* A submission or a present request: the slot it belongs to, the acquire  *)
(* semaphores it waits for, the images it writes or shows.                 *)
Op == [kind : {"batch", "present"}, frame : Frames,
       waits : SUBSET AcquireSems, targets : SUBSET Targets]

HostStates ==
  {"idle", "wait", "acquire", "submit", "present", "quitting", "no_frames", "deleted"}

NoBatch == [kind |-> "batch", frame |-> 0, waits |-> {}, targets |-> {}]

TypeOK ==
  /\ SwapchainTypeOK
  /\ pc \in HostStates
  /\ frameIndex \in Frames
  /\ next \in 1 .. ViewportNum + 1
  /\ acquired \in SUBSET Viewports
  /\ batch \in Op
  /\ unpresented \in SUBSET Frames
  /\ fence \in [Frames -> BOOLEAN]
  /\ onFinished \in [Frames -> BOOLEAN]
  /\ queue \in Seq(Op)
  /\ running \in Seq(Op)

(* Fences are created signaled; frame_index starts at 0.                   *)
Init ==
  /\ SwapchainInit
  /\ pc = "idle"
  /\ frameIndex = 0
  /\ next = 1
  /\ acquired = {}
  /\ batch = NoBatch
  /\ unpresented = {}
  /\ fence = [f \in Frames |-> TRUE]
  /\ onFinished = [f \in Frames |-> FALSE]
  /\ queue = <<>>
  /\ running = <<>>

---------------------------------------------------------------------------
(* The host thread: renderer_render_frame.                                 *)

Goto(from, to) == pc = from /\ pc' = to

(* The loop of main calls renderer_render_frame; it moves to the next slot *)
BeginFrame ==
  /\ Goto("idle", "wait")
  /\ frameIndex' = IF frameIndex + 1 >= FrameNum THEN 0 ELSE frameIndex + 1
  /\ UNCHANGED <<next, acquired, batch, unpresented, deviceVars, swapchainVars>>

(* Mutant: the fence is reset without having been waited for.              *)
WaitForFenceNoWait ==
  /\ Goto("wait", "acquire")
  /\ fence' = [fence EXCEPT ![frameIndex] = FALSE]
  /\ next' = 1
  /\ acquired' = {}
  /\ UNCHANGED <<frameIndex, batch, unpresented, onFinished, queue, running,
                 swapchainVars>>

(* vkWaitForFences blocks until the slot's last submission is done; then   *)
(* the fence and the slot's pools are reset and the cameras are asked for  *)
(* their viewports.  Its result is not looked at: on a lost device it      *)
(* returns too, see DeviceLost.                                            *)
WaitForFence ==
  /\ Goto("wait", "acquire")
  /\ fence[frameIndex]
  /\ fence' = [fence EXCEPT ![frameIndex] = FALSE]
  /\ next' = 1
  /\ acquired' = {}
  /\ UNCHANGED <<frameIndex, batch, unpresented, onFinished, queue, running,
                 swapchainVars>>

(* One turn of the acquire loop: a viewport that does not report success   *)
(* is culled.                                                              *)
Acquire(result) ==
  /\ pc = "acquire"
  /\ next <= ViewportNum
  /\ ViewportAcquire(next, result)
  /\ acquired' = IF Reported(result) THEN acquired \cup {next} ELSE acquired
  /\ next' = next + 1
  /\ UNCHANGED <<pc, frameIndex, batch, unpresented, deviceVars>>

(* Mutant: swapchain_num is not incremented.                               *)
RecordNoSwapchain ==
  /\ Goto("acquire", "submit")
  /\ next > ViewportNum
  /\ batch' = [kind    |-> "batch",
               frame   |-> frameIndex,
               waits   |-> {OnAcquire(v) : v \in acquired},
               targets |-> {}]
  /\ UNCHANGED <<frameIndex, next, acquired, unpresented, deviceVars, swapchainVars>>

(* The slot's buffers and descriptor set are written, the wait semaphores, *)
(* swapchains and image indices collected, the command buffer recorded.    *)
Record ==
  /\ Goto("acquire", "submit")
  /\ next > ViewportNum
  /\ batch' = [kind    |-> "batch",
               frame   |-> frameIndex,
               waits   |-> {OnAcquire(v) : v \in acquired},
               targets |-> {<<v, imageIndex[v]>> : v \in acquired}]
  /\ UNCHANGED <<frameIndex, next, acquired, unpresented, deviceVars, swapchainVars>>

(* vkQueueSubmit: its result is not looked at.                             *)
Submit(result) ==
  /\ Goto("submit", "present")
  /\ \/ /\ result = "ok"
        /\ queue' = Append(queue, batch)
     \/ /\ result = "failed"
        /\ UNCHANGED queue
  /\ UNCHANGED <<frameIndex, next, acquired, batch, unpresented, fence, onFinished,
                 running, swapchainVars>>

(***************************************************************************)
(* vkQueuePresentKHR, only when there is a swapchain to present to.  Its   *)
(* result is only logged.  "ok" is every answer with which the request is  *)
(* queued: Vulkan waits for the semaphore and takes the images back also   *)
(* when it answers that a swapchain is out of date.  "failed" is an answer *)
(* with which nothing is queued, as when memory runs out.                  *)
(***************************************************************************)
PresentAs(op, result) ==
  /\ Goto("present", "idle")
  /\ \/ /\ batch.targets # {}
        /\ result = "ok"
        /\ queue' = Append(queue, op)
        /\ UNCHANGED unpresented
     \/ /\ batch.targets = {} \/ result = "failed"
        /\ unpresented' = unpresented \cup {frameIndex}
        /\ UNCHANGED queue
  /\ UNCHANGED <<frameIndex, next, acquired, batch, fence, onFinished, running,
                 swapchainVars>>

Request == [batch EXCEPT !.kind = "present", !.waits = {}]

(* Mutant: the request waits for the on_finished of another slot.          *)
PresentOtherSlot(result) ==
  PresentAs([Request EXCEPT !.frame = (@ + 1) % FrameNum], result)

Present(result) == PresentAs(Request, result)

---------------------------------------------------------------------------
(* Teardown: cleanup_cli_state, from the state the main loop exits in.     *)

(* poll.should_exit or g_interrupted ends the loop between two frames.     *)
Quit ==
  /\ Goto("idle", "quitting")
  /\ UNCHANGED <<frameIndex, next, acquired, batch, unpresented, deviceVars, swapchainVars>>

(* Mutant: the queue is not waited for.                                    *)
RendererDeleteNoWait ==
  /\ Goto("quitting", "no_frames")
  /\ UNCHANGED <<frameIndex, next, acquired, batch, unpresented, deviceVars, swapchainVars>>

(* renderer_delete: vkQueueWaitIdle, then the slots are destroyed.  Vulkan *)
(* promises that the batches are done, not that the present requests are.  *)
RendererDelete ==
  /\ Goto("quitting", "no_frames")
  /\ \A op \in ToSet(queue) : op.kind # "batch"
  /\ IdleWaitsForPresents => queue = <<>>
  /\ running = <<>>
  /\ UNCHANGED <<frameIndex, next, acquired, batch, unpresented, deviceVars, swapchainVars>>

(* sdl_display_end_session: camera_delete, viewport_delete of each.        *)
CameraDelete ==
  /\ Goto("no_frames", "deleted")
  /\ UNCHANGED <<frameIndex, next, acquired, batch, unpresented, deviceVars, swapchainVars>>

Terminated == pc = "deleted" /\ UNCHANGED vars

---------------------------------------------------------------------------
(* The host writes the slot's pools, viewport_buf and debug buffers.       *)
HostUses(f) == f = frameIndex /\ pc \in {"acquire", "submit"}

(***************************************************************************)
(* The device.  Batches begin in submission order and so do present        *)
(* requests.  With PresentHolds the two kinds keep their order too: Vulkan *)
(* says of vkQueuePresentKHR that it is processed in issue order with the  *)
(* other operations of the queue.  Without it a later batch may begin      *)
(* before an earlier present request whose semaphore is not signaled yet.  *)
(***************************************************************************)
CanBegin(n) ==
  \A m \in 1 .. n - 1 : ~PresentHolds /\ queue[m].kind # queue[n].kind

StartBatch(n) ==
  /\ queue[n].kind = "batch"
  /\ CanBegin(n)
  /\ \A s \in queue[n].waits : acquireSem[s] = "signaled"
  /\ acquireSem' = [s \in AcquireSems |->
                      IF s \in queue[n].waits THEN "unsignaled" ELSE acquireSem[s]]
  /\ running' = Append(running, queue[n])
  /\ queue' = RemoveAt(queue, n)
  /\ UNCHANGED <<hostVars, fence, onFinished, avail, display, acquireIndex, imageIndex>>

(* Mutant: the submission is given the fence of the current slot.          *)
FinishBatchCurrentFence ==
  /\ running # <<>>
  /\ fence' = [fence EXCEPT ![frameIndex] = TRUE]
  /\ onFinished' = [onFinished EXCEPT ![Head(running).frame] = TRUE]
  /\ running' = Tail(running)
  /\ UNCHANGED <<hostVars, queue, swapchainVars>>

(* Mutant: the present request waits for no semaphore.                     *)
PresentImagesNoWait(n) ==
  /\ queue[n].kind = "present"
  /\ CanBegin(n)
  /\ Show(queue[n].targets)
  /\ queue' = RemoveAt(queue, n)
  /\ UNCHANGED <<hostVars, fence, onFinished, running, avail, acquireIndex,
                 acquireSem, imageIndex>>

(* Batches complete in submission order: on_finished and is_in_flight of   *)
(* the slot are signaled.                                                  *)
FinishBatch ==
  /\ running # <<>>
  /\ fence' = [fence EXCEPT ![Head(running).frame] = TRUE]
  /\ onFinished' = [onFinished EXCEPT ![Head(running).frame] = TRUE]
  /\ running' = Tail(running)
  /\ UNCHANGED <<hostVars, queue, swapchainVars>>

PresentImages(n) ==
  /\ queue[n].kind = "present"
  /\ CanBegin(n)
  /\ onFinished[queue[n].frame]
  /\ onFinished' = [onFinished EXCEPT ![queue[n].frame] = FALSE]
  /\ Show(queue[n].targets)
  /\ queue' = RemoveAt(queue, n)
  /\ UNCHANGED <<hostVars, fence, running, avail, acquireIndex, acquireSem, imageIndex>>

(* The device stops.  Vulkan then counts what was submitted as no longer   *)
(* in use, and waits for it return in finite time, even for the fence of a *)
(* submission that failed: that a wait returns is what a fence stands for  *)
(* here.  Nothing is recorded of the loss, so that later submissions may   *)
(* still be taken; the device may drop them again.                         *)
DeviceLost ==
  /\ DeviceMayBeLost
  /\ queue # <<>> \/ running # <<>> \/ \E f \in Frames : ~fence[f] /\ ~HostUses(f)
  /\ queue' = <<>>
  /\ running' = <<>>
  /\ fence' = [f \in Frames |-> fence[f] \/ ~HostUses(f)]
  /\ UNCHANGED <<hostVars, onFinished, swapchainVars>>

EngineSignal(s) ==
  /\ SignalAcquire(s)
  /\ UNCHANGED <<hostVars, deviceVars, avail, display, acquireIndex, imageIndex>>

EngineFlip(v) ==
  /\ Flip(v)
  /\ UNCHANGED <<hostVars, deviceVars, acquireIndex, acquireSem, imageIndex>>

---------------------------------------------------------------------------
FrameStep ==
  \/ WaitForFence
  \/ \E result \in AcquireResults : Acquire(result)
  \/ Record
  \/ \E result \in SubmitResults : Submit(result)
  \/ \E result \in PresentResults : Present(result)

Teardown == RendererDelete \/ CameraDelete

Next ==
  \/ BeginFrame
  \/ FrameStep
  \/ Quit
  \/ Teardown
  \/ Terminated
  \/ \E n \in 1 .. Len(queue) : StartBatch(n) \/ PresentImages(n)
  \/ FinishBatch
  \/ DeviceLost
  \/ \E s \in AcquireSems : EngineSignal(s)
  \/ \E v \in Viewports : EngineFlip(v)

Spec == Init /\ [][Next]_vars

(***************************************************************************)
(* The host thread runs whenever it is not blocked, the device executes    *)
(* what is submitted, the engine signals what it promised and the screen   *)
(* refreshes.  vkAcquireNextImageKHR need not answer before there is an    *)
(* image to hand out: it may fail at any time, but nothing makes it fail.  *)
(* When to draw another frame and when to quit are left to the program.    *)
(***************************************************************************)
AcquireDue ==
  /\ next <= ViewportNum
  /\ avail[next] # {}
  /\ \E result \in AcquireResults : Acquire(result)

HostStep ==
  \/ WaitForFence
  \/ AcquireDue
  \/ Record
  \/ \E result \in SubmitResults : Submit(result)
  \/ \E result \in PresentResults : Present(result)

Fairness ==
  /\ WF_vars(HostStep)
  /\ WF_vars(Teardown)
  /\ WF_vars(\E n \in 1 .. Len(queue) : StartBatch(n))
  /\ WF_vars(\E n \in 1 .. Len(queue) : PresentImages(n))
  /\ WF_vars(FinishBatch)
  /\ \A s \in AcquireSems : WF_vars(EngineSignal(s))
  /\ \A v \in Viewports : WF_vars(EngineFlip(v))

FairSpec == Spec /\ Fairness

---------------------------------------------------------------------------
(* Safety.                                                                 *)

Pending == ToSet(queue) \cup ToSet(running)

IsBatch(op) == op.kind = "batch"

DeviceUses(f) == \E op \in Pending : IsBatch(op) /\ op.frame = f

(* renderer.c resets a slot's command pool, descriptor pool and buffers    *)
(* and writes them again while the other slots' batches execute: never     *)
(* while a batch recorded in that slot is still queued or executing.       *)
FrameExclusive == \A f \in Frames : ~(HostUses(f) /\ DeviceUses(f))

(* The strengthening of FrameExclusive that every step preserves: the      *)
(* fence of a slot stays unsignaled while a batch of it is submitted, and  *)
(* no slot has two batches, so that the fence the host waits for is that   *)
(* of the only batch there is.                                             *)
AcquiredRotated == \A v \in acquired : acquireIndex[v] \in AcquireSlots

BatchesFenced == \A op \in Pending : IsBatch(op) => ~fence[op.frame]

OneBatchPerSlot ==
  /\ \A m, n \in DOMAIN queue :
       IsBatch(queue[m]) /\ IsBatch(queue[n]) /\ queue[m].frame = queue[n].frame => m = n
  /\ \A m, n \in DOMAIN running : running[m].frame = running[n].frame => m = n
  /\ \A m \in DOMAIN queue : \A n \in DOMAIN running :
       IsBatch(queue[m]) => queue[m].frame # running[n].frame

RunningBatches == \A op \in ToSet(running) : IsBatch(op)

HostHoldsSlot ==
  /\ pc \in {"acquire", "submit"} => ~fence[frameIndex] /\ ~DeviceUses(frameIndex)
  /\ pc = "submit" => IsBatch(batch) /\ batch.frame = frameIndex

(* renderer.c's frame slots, stated so that each step can be checked alone *)
FramesInv ==
  /\ TypeOK
  /\ AcquiredRotated
  /\ BatchesFenced
  /\ OneBatchPerSlot
  /\ RunningBatches
  /\ HostHoldsSlot

(* viewport_acquire must hand the engine a semaphore that is unsignaled    *)
(* and that nothing submitted still waits for, although the rotation of    *)
(* MAX_FRAMES_IN_FLIGHT semaphores knows nothing of the fences: the        *)
(* frame_num slots are what keeps it from catching up with itself.         *)
AcquireSemFresh ==
  pc = "acquire" /\ next <= ViewportNum =>
    LET s == <<next, NextSlot(next)>>
    IN  /\ acquireSem[s] = "unsignaled"
        /\ \A op \in ToSet(queue) : s \notin op.waits

(***************************************************************************)
(* The strengthening of AcquireSemFresh and TeardownIdle.  The rotations   *)
(* of slots and semaphores, which know nothing of each other, keep step:   *)
(* as many frames as a slot's batch is old, so many acquires old is the    *)
(* semaphore it waits for; and nothing that is acquired gets lost on its   *)
(* way to the device and back to the engine.                               *)
(***************************************************************************)
Predecessor(f) == IF f = 0 THEN FrameNum - 1 ELSE f - 1

Backwards(from, steps, num) == IF steps <= from THEN from - steps ELSE from - steps + num

(* The slot of the frame in which viewport_acquire was last called on v.   *)
AcquireFrame(v) ==
  IF pc = "wait" \/ (pc = "acquire" /\ next <= v) THEN Predecessor(frameIndex) ELSE frameIndex

(* The semaphore that v was given in the last frame of slot f.             *)
SlotSem(v, f) ==
  Backwards(acquireIndex[v], Backwards(AcquireFrame(v), f, FrameNum), AcquireNum)

RotationsInStep ==
  /\ pc = "acquire" => \A v \in acquired : v < next
  /\ pc = "submit" => \A s \in batch.waits : s = OnAcquire(s[1])
  /\ \A op \in ToSet(queue) : \A s \in op.waits :
       /\ IsBatch(op)
       /\ acquireIndex[s[1]] \in AcquireSlots
       /\ s[2] = SlotSem(s[1], op.frame)

SemWaitedFor(s) ==
  \/ \E op \in ToSet(queue) : s \in op.waits
  \/ pc = "submit" /\ s \in batch.waits
  \/ pc = "acquire" /\ s[1] \in acquired /\ s = OnAcquire(s[1])

SemsWaitedFor ==
  \A s \in AcquireSems : acquireSem[s] # "unsignaled" => SemWaitedFor(s)

OneImageEach(op) == \A t, u \in op.targets : t[1] = u[1] => t = u

ImagesOnTheirWay ==
  /\ \A op \in ToSet(queue) : OneImageEach(op)
  /\ OneImageEach(batch)
  /\ \A v \in Viewports : \A i \in Taken(v) :
       \/ \E op \in ToSet(queue) : ~IsBatch(op) /\ <<v, i>> \in op.targets
       \/ pc \in {"submit", "present"} /\ <<v, i>> \in batch.targets
       \/ pc = "acquire" /\ v \in acquired /\ i = imageIndex[v]

QuietAtTheEnd == pc \in {"no_frames", "deleted"} => queue = <<>> /\ running = <<>>

(* From MAX_FRAMES_IN_FLIGHT >= frame_num on, and as long as no submission *)
(* or presentation fails and VK_SUBOPTIMAL_KHR is not answered.            *)
AcquiresInv ==
  /\ RotationsInStep
  /\ SemsWaitedFor
  /\ ImagesOnTheirWay
  /\ QuietAtTheEnd

(***************************************************************************)
(* on_finished belongs to the slot, not to the image, and no fence covers  *)
(* the present request that waits for it.  A batch that completes finds it *)
(* unsignaled, because the request of the slot's previous frame has taken  *)
(* the signal, unless there was no such request: a frame whose viewports   *)
(* were all culled leaves its signal to the slot's next frame.  It takes a *)
(* queue that works in issue order, see CanBegin.                          *)
(***************************************************************************)
OnFinishedFresh ==
  running # <<>> /\ onFinished[Head(running).frame] => Head(running).frame \in unpresented

(* The batches whose slot has had a present request in each of its frames. *)
PresentedBatches == {op \in Pending : IsBatch(op) /\ op.frame \notin unpresented}

(* An image that a submitted batch draws to is still the renderer's: not   *)
(* on the screen, not free to be handed out, and drawn to by one batch.    *)
(* What a slot without a present request spoils is no other slot's.        *)
RenderTargetExclusive ==
  \A op \in PresentedBatches : \A t \in op.targets :
    /\ t[2] \in Taken(t[1])
    /\ \A other \in PresentedBatches \ {op} : t \notin other.targets

(***************************************************************************)
(* The strengthening of RenderTargetExclusive and OnFinishedFresh: each    *)
(* batch of a slot that has always presented has its present request       *)
(* behind it, the slot's on_finished is signaled only while a request that *)
(* takes it is due, and what waits to be shown, and what the host holds,   *)
(* is the renderer's, one time each, whatever the slot.                    *)
(***************************************************************************)
Shows(request, op) ==
  ~IsBatch(request) /\ request.frame = op.frame /\ request.targets = op.targets

PresentFollows ==
  /\ \A n \in DOMAIN queue : IsBatch(queue[n]) /\ queue[n].frame \notin unpresented =>
       \/ pc = "present" /\ queue[n] = batch
       \/ \E m \in n + 1 .. Len(queue) : Shows(queue[m], queue[n])
  /\ \A op \in ToSet(running) : op.frame \notin unpresented =>
       \/ pc = "present" /\ op = batch
       \/ \E n \in DOMAIN queue : Shows(queue[n], op)

SignalsTaken ==
  \A f \in Frames \ unpresented : onFinished[f] =>
    /\ \A op \in ToSet(running) : op.frame # f
    /\ \A n \in DOMAIN queue : IsBatch(queue[n]) /\ queue[n].frame = f =>
         \E m \in 1 .. n - 1 : ~IsBatch(queue[m]) /\ queue[m].frame = f
    /\ \/ pc = "present" /\ frameIndex = f
       \/ \E n \in DOMAIN queue : ~IsBatch(queue[n]) /\ queue[n].frame = f

HostPresents == pc \in {"submit", "present"} => batch.frame = frameIndex

EngineApart ==
  \A v \in Viewports :
    /\ avail[v] \cap Displayed(v) = {}
    /\ \A m, n \in 1 .. Len(display[v]) : display[v][m] = display[v][n] => m = n

HostTargets ==
  IF pc = "acquire" THEN {<<v, imageIndex[v]>> : v \in acquired}
  ELSE IF pc \in {"submit", "present"} THEN batch.targets ELSE {}

TargetsTaken ==
  /\ \A t \in HostTargets : t[2] \in Taken(t[1])
  /\ \A n \in DOMAIN queue : ~IsBatch(queue[n]) =>
       /\ \A t \in queue[n].targets : t[2] \in Taken(t[1])
       /\ queue[n].targets \cap HostTargets = {}
       /\ \A m \in DOMAIN queue :
            ~IsBatch(queue[m]) /\ m # n => queue[m].targets \cap queue[n].targets = {}

(* As long as present requests hold back the batches behind them.          *)
PresentsInv ==
  /\ PresentFollows
  /\ SignalsTaken
  /\ HostPresents
  /\ EngineApart
  /\ TargetsTaken

(***************************************************************************)
(* Every wait without a timeout is for something that somebody is about to *)
(* do.  A fence that is not signaled has its batch submitted, or its slot  *)
(* is the host's; the semaphores of a submitted batch are the engine's to  *)
(* signal, or signaled; a present request has its on_finished signaled, or *)
(* a batch of its slot before it, with no other request that would take    *)
(* that signal; and an image is free, or will be, on the screen or before. *)
(***************************************************************************)
FencesDue == \A f \in Frames : fence[f] \/ HostUses(f) \/ DeviceUses(f)

SemsDue == \A s \in AcquireSems : SemWaitedFor(s) => acquireSem[s] # "unsignaled"

Gives(op, f) == IsBatch(op) /\ op.frame = f
Takes(op, f) == ~IsBatch(op) /\ op.frame = f

SignalDue(f, n) ==
  \/ \E m \in 1 .. n - 1 : Gives(queue[m], f) /\ \A k \in m + 1 .. n - 1 : ~Takes(queue[k], f)
  \/ /\ \A k \in 1 .. n - 1 : ~Takes(queue[k], f)
     /\ onFinished[f] \/ \E op \in ToSet(running) : op.frame = f

RequestAt(f, n) ==
  \/ n \in DOMAIN queue /\ Takes(queue[n], f)
  \/ n = Len(queue) + 1 /\ pc = "present" /\ batch.frame = f

SignalsDue ==
  \A f \in Frames : \A n \in 1 .. Len(queue) + 1 : RequestAt(f, n) => SignalDue(f, n)

ImageDue ==
  pc = "acquire" /\ next <= ViewportNum =>
    \/ avail[next] # {}
    \/ Len(display[next]) > 1
    \/ \E op \in ToSet(queue) : ~IsBatch(op) /\ \E i \in Images : <<next, i>> \in op.targets

WaitsEnd == FencesDue /\ SemsDue /\ SignalsDue /\ ImageDue

(* renderer_delete and camera_delete destroy what the device, the engine   *)
(* and the screen use: when they do, nothing is submitted, every acquire   *)
(* semaphore has been waited for and every image given back.  For present  *)
(* requests this is what IdleWaitsForPresents says, not Vulkan.            *)
TeardownIdle ==
  /\ pc \in {"no_frames", "deleted"} => Pending = {}
  /\ pc = "deleted" =>
       /\ \A s \in AcquireSems : acquireSem[s] = "unsignaled"
       /\ \A v \in Viewports : Taken(v) = {}

(* viewport.h: viewport_acquire returns "Non-zero if the swapchain has     *)
(* been acquired", so an image never leaves the engine without the frame   *)
(* loop counting its viewport among the acquired ones.                     *)
AcquireReported ==
  [][\A v \in Viewports : avail'[v] \subseteq avail[v] /\ avail'[v] # avail[v]
                            => v \in acquired']_vars

---------------------------------------------------------------------------
(* Liveness.                                                               *)

(* renderer_render_frame blocks without a timeout on the fence, and        *)
(* vkAcquireNextImageKHR until there is an image to hand out: both always  *)
(* let it go on, without the help of an error, so that the main loop gets  *)
(* back to its events.                                                     *)
FrameReturns == pc = "wait" ~> pc = "idle"

(* An image taken from the engine is presented and later handed back.      *)
ImagesReturn ==
  \A v \in Viewports : \A i \in Images : i \in Taken(v) ~> i \notin Taken(v)

(* Once the main loop has ended, the teardown gets past vkQueueWaitIdle.   *)
QuitCompletes == pc = "quitting" ~> pc = "deleted"

---------------------------------------------------------------------------
(* The abstract specification.                                             *)

(* A slot is the device's from the submission until the fence says so.     *)
Owner(f) == IF HostUses(f) THEN "host" ELSE IF fence[f] THEN "free" ELSE "device"

Slots == INSTANCE FrameQueue
           WITH owner <- [f \in Frames |-> Owner(f)],
                last  <- IF pc = "wait" THEN Predecessor(frameIndex) ELSE frameIndex

(* The fences, pools and queue of renderer.c implement slots with a single *)
(* owner that are used in rotation ...                                     *)
SlotsSafe == Slots!SafeSpec

(* ... and that all come back.                                             *)
SlotsReturn == Slots!SlotsReturn
=============================================================================
