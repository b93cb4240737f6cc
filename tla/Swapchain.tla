----------------------------- MODULE Swapchain -----------------------------
(***************************************************************************)
(* The viewports of viewport.c and the presentation engine behind them.    *)
(*                                                                         *)
(* A viewport owns one swapchain.  viewport_acquire asks the presentation  *)
(* engine for an image and hands it one of the viewport's on_image_acquire *)
(* semaphores, taken in rotation; the engine signals that semaphore later, *)
(* when the image may really be written.  The renderer gives the image     *)
(* back by presenting it.  This module has the state of one set of         *)
(* viewports and the steps on it; Renderer composes them with the frame    *)
(* loop and the device queue.                                              *)
(***************************************************************************)
EXTENDS Integers, Sequences, FiniteSets

CONSTANTS
  ViewportNum,     \* viewports of the cameras passed to renderer_render_frame
  AcquireNum,      \* MAX_FRAMES_IN_FLIGHT: on_image_acquire semaphores of each
  Images,          \* the images of a swapchain (the code asks for at least 3)
  AcquireResults   \* what vkAcquireNextImageKHR may answer

ASSUME ViewportNumAssumption == ViewportNum \in Nat
ASSUME AcquireNumAssumption == AcquireNum \in Nat \ {0}
ASSUME AcquireResultsAssumption ==
  AcquireResults \subseteq {"success", "suboptimal", "out_of_date"}

Viewports == 1 .. ViewportNum
AcquireSlots == 0 .. AcquireNum - 1
AcquireSems == Viewports \X AcquireSlots

VARIABLES
  avail,           \* images the engine can hand out, per viewport
  display,         \* images presented and not yet released, oldest first
  acquireIndex,    \* vp->image_acquire_index
  acquireSem,      \* vp->on_image_acquire: unsignaled, pending or signaled
  imageIndex       \* vp->image_index

swapchainVars == <<avail, display, acquireIndex, acquireSem, imageIndex>>

SwapchainTypeOK ==
  /\ avail \in [Viewports -> SUBSET Images]
  /\ display \in [Viewports -> Seq(Images)]
  /\ acquireIndex \in [Viewports -> AcquireSlots \cup {-1}]
  /\ acquireSem \in [AcquireSems -> {"unsignaled", "pending", "signaled"}]
  /\ imageIndex \in [Viewports -> Images]

(* viewport_new: the rotation starts at -1, so that the first acquire uses *)
(* semaphore 0.  image_index is not set: it holds what malloc returned.    *)
SwapchainInit ==
  /\ avail = [v \in Viewports |-> Images]
  /\ display = [v \in Viewports |-> <<>>]
  /\ acquireIndex = [v \in Viewports |-> -1]
  /\ acquireSem = [s \in AcquireSems |-> "unsignaled"]
  /\ imageIndex \in [Viewports -> Images]

(* Mutant: one semaphore less than there are slots.                        *)
NextSlotShort(v) ==
  IF acquireIndex[v] + 2 >= AcquireNum THEN 0 ELSE acquireIndex[v] + 1

NextSlot(v) ==
  IF acquireIndex[v] + 1 >= AcquireNum THEN 0 ELSE acquireIndex[v] + 1

(***************************************************************************)
(* viewport_acquire up to its test of the result.  The rotation moves on   *)
(* whatever the answer.  "suboptimal" is VK_SUBOPTIMAL_KHR, a success code *)
(* of Vulkan: the engine has handed the image over and will signal the     *)
(* semaphore.  With timeout UINT64_MAX the call blocks while no image is   *)
(* available; "out_of_date", which stands for every error, may then end    *)
(* the wait, but nothing makes it come.                                    *)
(***************************************************************************)
TakeImage(v, i) ==
  /\ i \in avail[v]
  /\ avail' = [avail EXCEPT ![v] = @ \ {i}]
  /\ acquireSem' = [acquireSem EXCEPT ![<<v, NextSlot(v)>>] = "pending"]

ViewportAcquire(v, result) ==
  /\ acquireIndex' = [acquireIndex EXCEPT ![v] = NextSlot(v)]
  /\ \/ /\ result = "success"
        /\ \E i \in avail[v] :
             /\ TakeImage(v, i)
             /\ imageIndex' = [imageIndex EXCEPT ![v] = i]
     \/ /\ result = "suboptimal"
        /\ \E i \in avail[v] : TakeImage(v, i)
        /\ UNCHANGED imageIndex
     \/ /\ result = "out_of_date"
        /\ UNCHANGED <<avail, acquireSem, imageIndex>>
  /\ UNCHANGED display

(* viewport_acquire returns non-zero for VK_SUCCESS only.                  *)
Reported(result) == result = "success"

(* viewport_get_on_acquire: the semaphore of the viewport's last acquire.  *)
OnAcquire(v) == <<v, acquireIndex[v]>>

---------------------------------------------------------------------------
(* The presentation engine.                                                *)

(* The engine has finished with an acquired image.                         *)
SignalAcquire(s) ==
  /\ acquireSem[s] = "pending"
  /\ acquireSem' = [acquireSem EXCEPT ![s] = "signaled"]

(* FIFO present mode: at a vertical blank the next presented image takes   *)
(* the screen and the one it replaces can be handed out again.             *)
Flip(v) ==
  /\ Len(display[v]) > 1
  /\ display' = [display EXCEPT ![v] = Tail(@)]
  /\ avail' = [avail EXCEPT ![v] = @ \cup {Head(display[v])}]

(* A present request puts each target image behind those already waiting.  *)
Show(targets) ==
  display' = [v \in Viewports |->
                IF \E i \in Images : <<v, i>> \in targets
                THEN Append(display[v], CHOOSE i \in Images : <<v, i>> \in targets)
                ELSE display[v]]

Displayed(v) == {display[v][n] : n \in 1 .. Len(display[v])}

(* Images of v that the engine has handed out and not got back.            *)
Taken(v) == Images \ (avail[v] \cup Displayed(v))
=============================================================================
