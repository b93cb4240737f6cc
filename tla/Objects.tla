------------------------------ MODULE Objects ------------------------------
(***************************************************************************)
(* The handles the program makes of SDL, Vulkan, flecs and libuv, in the   *)
(* order in which the *_new functions make them, and the order in which    *)
(* the *_delete functions destroy them.                                    *)
(*                                                                         *)
(* Most deletions test the handle first (Tested); those of a viewport's    *)
(* image views, framebuffers and semaphores and of SDL itself do not.      *)
(***************************************************************************)
EXTENDS Integers, Sequences, SequencesExt

CONSTANTS
  ImageNum,      \* vp->image_num
  AcquireNum,    \* MAX_FRAMES_IN_FLIGHT
  FrameNum       \* ren->frame_num

ASSUME ImageNumAssumption == ImageNum \in Nat
ASSUME AcquireNumAssumption == AcquireNum \in Nat
ASSUME FrameNumAssumption == FrameNum \in Nat

(* The blocks of a sequence, all of them of one size, one after another.   *)
Joined(blocks, size) ==
  [k \in 1 .. Len(blocks) * size |-> blocks[((k - 1) \div size) + 1][((k - 1) % size) + 1]]

(* What a loop with n turns makes or destroys, a block in each turn.       *)
Each(n, F(_)) == Joined([i \in 1 .. n |-> F(i)], Len(F(1)))

(* The deletions of some handles.                                          *)
Tested(handles) == [k \in DOMAIN handles |-> [handle |-> handles[k], tested |-> TRUE]]
Untested(handles) == [k \in DOMAIN handles |-> [handle |-> handles[k], tested |-> FALSE]]

---------------------------------------------------------------------------
(* What creation makes.  SDL, window and extension list of the display:    *)
DisplayNew == <<<<"sdl">>, <<"window">>, <<"extensions">>>>

DeviceNew == <<<<"instance">>, <<"device">>>>

Image(i) == <<<<"view", i>>, <<"framebuffer", i>>>>
Semaphore(i) == <<<<"on_image_acquire", i>>>>

SurfaceInit == <<<<"swapchain">>>>

ViewportNew == SurfaceInit \o Each(ImageNum, Image) \o Each(AcquireNum, Semaphore)

CameraNew == <<<<"render_pass">>>> \o ViewportNew

SessionBegin == <<<<"surface">>>> \o CameraNew

Vector(f, name) == <<<<"buffer", f, name>>, <<"memory", f, name>>>>

DebugFrameInit(f) == Vector(f, "vertices") \o Vector(f, "indices")

FrameInit(f) ==
  <<<<"command_pool", f>>, <<"on_finished", f>>, <<"is_in_flight", f>>>>
    \o Vector(f, "viewport_buf") \o <<<<"descriptor_pool", f>>>> \o DebugFrameInit(f)

LoadShaders == <<<<"vertex_shader">>, <<"fragment_shader">>>>

CreatePipeline == <<<<"pipeline_layout">>, <<"pipeline">>>>

DebugPassNew == <<<<"ddl">>>> \o LoadShaders \o CreatePipeline

RendererNew == <<<<"viewport_layout">>>> \o DebugPassNew \o Each(FrameNum, FrameInit)

WorldNew == <<<<"world">>>>

---------------------------------------------------------------------------
(* What deletion destroys, given what has been made.  image_num is 0 until *)
(* the swapchain has given its images.                                     *)
ViewportDelete(made) ==
  Untested(IF <<"swapchain">> \in made THEN Each(ImageNum, Image) ELSE <<>>)
    \o Tested(SurfaceInit) \o Untested(Each(AcquireNum, Semaphore))

(* viewport_num is 0 until the render pass has been created.               *)
CameraDelete(made) ==
  IF <<"render_pass">> \in made
  THEN ViewportDelete(made) \o Untested(<<<<"render_pass">>>>)
  ELSE <<>>

(* sdl_display_end_session: dp->camera is NULL again once its render pass  *)
(* is gone.                                                                *)
SessionEnd(made) == CameraDelete(made) \o Tested(<<<<"surface">>>>)

FrameCleanup(f) ==
  DebugFrameInit(f) \o <<<<"descriptor_pool", f>>>> \o Vector(f, "viewport_buf")
    \o <<<<"command_pool", f>>, <<"on_finished", f>>, <<"is_in_flight", f>>>>

DebugPassDelete ==
  <<<<"pipeline">>, <<"pipeline_layout">>>> \o LoadShaders \o <<<<"ddl">>>>

RendererDelete ==
  Tested(Each(FrameNum, FrameCleanup) \o DebugPassDelete \o <<<<"viewport_layout">>>>)

(* Without the session, which sdl_display_delete ends first.               *)
DisplayDelete(made) ==
  IF <<"sdl">> \in made
  THEN Tested(<<<<"window">>, <<"extensions">>>>) \o Untested(<<<<"sdl">>>>)
  ELSE <<>>

DeviceDelete == Tested(<<<<"device">>, <<"instance">>>>)

---------------------------------------------------------------------------
Handles ==
  ToSet(DisplayNew \o DeviceNew \o SessionBegin \o RendererNew \o WorldNew)
    \cup {<<"client">>, <<"server">>}

OfDevice == ToSet(CameraNew \o RendererNew) \ {<<"ddl">>}
OfSwapchain == ToSet(Each(ImageNum, LAMBDA i : <<<<"view", i>>>>))

(* A handle and one that it may not outlive: what Vulkan calls the parent  *)
(* of an object, the window of the surface, SDL's video subsystem of the   *)
(* window, and the draw list that world_new keeps.                         *)
Uses ==
  {<<<<"window">>, <<"sdl">>>>, <<<<"surface">>, <<"window">>>>,
   <<<<"surface">>, <<"instance">>>>, <<<<"device">>, <<"instance">>>>,
   <<<<"swapchain">>, <<"surface">>>>, <<<<"world">>, <<"ddl">>>>}
    \cup {<<h, <<"device">>>> : h \in OfDevice}
    \cup {<<h, <<"swapchain">>>> : h \in OfSwapchain}
=============================================================================
