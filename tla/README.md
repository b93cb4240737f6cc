# Verification of mdo-core

TLA+ models, TLC runs and TLAPS proofs for mdo-core, the C core of
Mondradiko: a program that opens a window, simulates a field of stars in an
entity store and draws them with Vulkan, or runs headless, as a network client
or server. All paths below are relative to the repository.

Contents: [the system](#the-system), [modules](#modules),
[correspondence](#how-the-modules-correspond-to-the-code),
[runs](#runs), [bounds](#bounds), [fairness](#fairness), [proofs](#proofs),
[what the models show of the code](#what-the-models-show-of-the-code),
[not modelled](#not-modelled), [plan](#plan).

## The system

| Component | Code | State it keeps | Operations |
|---|---|---|---|
| Frame loop | `src/renderer/renderer.c` | `frame_index`; per slot a command pool, a descriptor pool, buffers, `is_in_flight`, `on_finished` | `renderer_new`, `renderer_render_frame`, `renderer_delete` |
| Viewports | `src/renderer/viewport.c` | a swapchain, `image_index`, `image_acquire_index`, four `on_image_acquire` semaphores | `viewport_new`, `viewport_acquire`, the getters, `viewport_delete` |
| Cameras | `src/renderer/camera.c` | a render pass and the viewports of the camera | `camera_new`, `camera_acquire`, `camera_delete` |
| Debug draw list | `src/renderer/debug/debug_draw.c` | two growing arrays and their counts | `vertex`, `line`, `clear`, the getters |
| GPU vectors | `src/gpu/gpu_vector.c` | a buffer, its memory and its size | `new`, `reserve`, `write`, `delete` |
| Debug pass | `src/renderer/debug/debug_pass.c` | pipeline; per slot two vectors | `debug_pass_render`, init and cleanup |
| World | `src/world/world.c` | entities with transform, star and colour; the two systems | `world_new`, `world_step`, `world_delete` |
| SDL display | `src/displays/sdl/` | the window, the session with its camera | `begin_session`, `poll`, `end_session` |
| Command line program | `cli/main.c` | the objects above, `poll`, `g_interrupted` | creation, main loop, signals, cleanup |
| Network | `src/network/` | a libuv loop with its handles, one socket or connection | `new`, `listen`, `on_connection`, `connect`, `on_connect`, `update`, `delete` |
| GPU device, shader | `src/gpu/` | Vulkan instance, device, queue; shader modules | creation and deletion |
| Extension list | `displays/sdl/sdl_display.c`, `gpu/gpu_device.c` | a string of names and the array cut from it | `get_instance_extensions`, `split_list` |
| Log | `src/log.c`, `src/log-win32.c` | two buffers on the stack | `log_at` |

**Interactions.** The main loop is one thread: it polls the display, steps the
world (whose draw system adds lines to the renderer's draw list), renders a
frame and runs the network loop without waiting. `renderer_render_frame` asks
every camera for its viewports, every viewport for an image, has the debug pass
write the draw list into buffers of the current frame slot, submits one command
buffer and one present request. What runs concurrently with the host thread is
the device, which executes what was submitted up to `frame_num` (2) frames
earlier, and the presentation engine with the screen. They share fences, two
kinds of semaphores, the slots' buffers and the images. Signals interrupt the
host thread at any point. Clients and servers are processes of their own that
meet through the kernel's sockets on one port; either may be killed or started
again at any point. `log_at` is called by everything, by the validation layers
with texts of any length.

**What is hard.**

- *Reuse of frame slots.* The host rewrites a slot's pools and buffers while the
  other slots' batches execute. One fence per slot separates them.
- *Two rotations that know nothing of each other.* `frame_index` rotates over
  the slots, `image_acquire_index` over four semaphores per viewport and also
  when an acquire fails. Only the first is guarded by a wait.
- *Presentation has no fence.* A present request waits for the semaphore
  `on_finished` of its slot, which belongs to the slot and not to the image.
- *Partial failure.* A viewport whose acquire fails is culled, in a session with
  one viewport the whole frame with it; a failed `vkQueueSubmit`, buffer growth or
  map is ignored, a failed `vkQueuePresentKHR` only logged.
- *Stale data.* Counts are reset and memory is not, in the draw list and in the
  slots' buffers; component pointers outlive the rows they point to, and handles the
  buffers they name.
- *An order written nowhere.* Both systems of the world run in one phase; which one
  runs first follows from the store's ids.
- *Processes that come and go.* libuv reports an address in use at `uv_listen`
  and not at `uv_tcp_bind`; a connection may end between its being established
  and the callback; the accepted connection is a handle on a dead stack frame.
- *Two passes over one text.* `split_list` and `log_at` count in one place and
  copy in another, by slightly different rules, into buffers of fixed size.
- *Termination.* Every wait of the frame is unbounded; quit events and signals
  must still end the loop, and cleanup must delete objects in an order in which
  nothing outlives what it uses.

What makes each component correct:

| Component | Properties |
|---|---|
| Frame loop | `FrameExclusive`, `OnFinishedFresh`, `TeardownIdle`, `AcquiresInv`, `PresentsInv`, `WaitsEnd`, `FrameReturns`, `QuitCompletes`; implements `FrameQueue` (`SlotsSafe`, `SlotsReturn`) |
| Viewports | `AcquireSemFresh`, `RenderTargetExclusive`, `ImagesReturn`, `AcquireReported` (violated) |
| Draw list | `IndicesInRange`; implements `LineList` (`KeepsLines`) |
| Vectors, debug pass | `BuffersAlive`, `DrawsWhatWasGiven` |
| World | `StarsWhole`, `DrawsAfterOrbit`, `StarsRandomized` (violated) |
| Network | `ListensWhileRunning`, `WalksLiveHandles`, `ConnectionsServed`; implements `Service` (`ServiceSafe`, `RequestsAnswered`) |
| Extension list | `ExtensionsArrive`, `StaysInBounds` |
| Log | `LogPrints`, `ListLogged` |
| Program, display, device | `NothingDangles`, `DestroysOnlyMade`, `ExitIsClean`, `SignalHeeded`, `QuitHeeded`, `StepIsTimed` (violated) |

## Modules

```
FrameQueue   abstract: slots with one owner, taken in rotation
Swapchain    viewports and the presentation engine behind them
Renderer     Swapchain + frame loop + device queue; implements FrameQueue
RendererMC   symmetry of the images
Renderer_proofs   types, slots and their refinement
Present_proofs    acquire semaphores, images, the teardown; on_finished,
                  present requests and what is drawn
LineList     abstract: the points and lines given since the last clear
DrawList     the two growing arrays; implements LineList
DrawList_proofs   theorems about DrawList
GpuVector    a device buffer that grows, as operators on records
DebugPass    DrawList + GpuVector + FrameQueue: a line's way to the device
DebugPassMC  symmetry of the vertices, and a view without what nothing reads
DebugPass_proofs  theorems about DebugPass
World        creation of the stars through stale pointers; the two systems
World_proofs      theorems about World
Objects      the handles each component makes and destroys, in order
Main         creation, main loop, signals and cleanup, over Objects
Main_proofs       theorems about Main and the lists of Objects
Service      abstract: one server at a time, requests answered once
Network      client and server processes over TCP; implements Service
Network_proofs    theorems about Network
LogLines     log_at: a text cut into lines
ExtensionList     LogLines + the list of instance extensions, joined and cut
ExtensionListMC   all lists of names and all texts up to a length
Text_proofs       theorems about LogLines and ExtensionList
```

`DebugPass` takes `FrameQueue` for the frame loop around it, and `Renderer`
is shown to implement `FrameQueue`, both by TLC and by proof: what the debug
pass relies on, that a slot is the device's until its fence is signaled, is what
the renderer provides.

Mutated forms of the definitions, marked `Mutant` in their comments, stand
before the definitions they vary; no specification uses them. Replacing the
definition by one of them must break the property that `PROJECT.json` pairs
it with, which is how we know that each property can fail.

## How the modules correspond to the code

`PROJECT.json` maps each definition to lines. In outline:

**Swapchain.** `acquireIndex`, `imageIndex` and `acquireSem` are the viewport's
members. `acquireSem` has the value `pending` from the acquire until the engine
signals it. `ViewportAcquire` is `viewport_acquire`: the rotation moves on
whatever the answer, `image_index` is only set on `VK_SUCCESS`.
`VK_SUBOPTIMAL_KHR` (a success code of Vulkan) hands out an image, and the code
reports failure. `vkAcquireNextImageKHR` has no timeout: it succeeds only when there is
an image, and may fail at any time. The engine is external: `avail` and `display` are the images it
can hand out and those presented; `Flip` is a vertical blank in FIFO mode, which
releases the image that leaves the screen. One image always stays on the screen.

**Renderer.** One call of `renderer_render_frame` is the sequence `BeginFrame`
(rotation of `frame_index`), `WaitForFence` (wait and reset of the fence, reset
of the pools, collection of viewports), `Acquire` once per viewport, `Record`
(buffers, descriptor set, command buffer, wait semaphores), `Submit` and
`Present`. The steps are split exactly where the device can have moved in
between with an effect the host sees. `queue` holds what was submitted, `running`
what executes. Batches begin and complete in submission order among themselves,
and so do present requests. Vulkan says of `vkQueuePresentKHR` that it is processed
in issue order with the queue's other operations: `PresentHolds = TRUE`. With `FALSE` a
batch may begin before an earlier present request whose semaphore is not signaled.
`Present` covers the frame without a swapchain to present to and the request that
fails; `unpresented` is a history variable, the slots this has happened to so far. The
properties about `on_finished` are about the other slots, because these two cases
really spoil the slot they happen to.
`Quit`, `RendererDelete` and `CameraDelete` are the exit of the main loop and the
cleanup of renderer and session. `vkQueueWaitIdle` is promised to wait for the batches;
`IdleWaitsForPresents` says whether it waits for present requests as well.
`DeviceLost` (where `DeviceMayBeLost`) drops what was submitted and lets the waits for
fences return, as `vkWaitForFences` does on a lost device with an answer the code does
not look at; nothing is recorded of the loss, so later calls may answer anything.

**DrawList, GpuVector, DebugPass.** An array is its contents (everything
allocated, the unwritten part `Unset`) and its count. The arrays double once per
call when they are full. A vector is its size, the number of buffers made for
it, what its two handles name, the contents, and whether the last write returned 0.
Any of the four Vulkan calls in a growth and a write may fail. A failed growth
leaves handles of what it has destroyed (`no_memory`, `no_buffer`); the next growth
destroys them again and the next write may map them, and the vector is `undefined`.
From there on nothing can be said of the program and the model stops (`Undefined`). A
failed map leaves what the memory held. `Render` is `debug_pass_render` for
one viewport: both writes, the draw command with the handles and the count at
that moment, the clear. `Drawn` is what the device reads later: the contents of
the slot's buffers at the time of execution, not of recording; both results of
`gpu_vector_write` are ignored, and the draw recorded, as in the code.
`given` and `intended` are history variables. `world.c` and `main` add their lines
between frames, never while a slot is recorded, as the main loop is sequential.

**World.** `memory[n][c][row]` is column `c` of the table of entities with the
first `n` components. `MoveEntity` is the part of flecs that `ecs_get_mut` calls
for a component the entity does not have. No component has a constructor, so
neither the new cell nor the row left behind is written. `RandomizeStar` writes
through the three pointers where they point. Values are abstracted to the
turn of the loop they were made in and the number of orbit steps since; the
arithmetic is left out. `SystemInit` is one call of `ecs_system_init`; the system's
entity gets the next id (`NewId`). `WorldStep` begins `ecs_progress`, in which each
system of the phase runs once, the one with the smallest id first (`RunsNext`, flecs'
`compare_entity`): `Orbit` moves the rows of table 3, `Draw` reads them. That `orbit` is
first is nowhere in these actions, it follows from the order of the `SystemInit`s.

**Objects, Main.** `Objects` lists, function by function, the handles of SDL,
Vulkan, flecs and libuv in the order in which the `*_new` functions make them and
the `*_delete` functions destroy them, with the tests the latter make (most test
a handle before they destroy it; a viewport's images and semaphores are not
tested). An argument that is not known ends the program before anything is made (`failed`).
`Main` makes and destroys them one per step, so that failures and
signals can come in between; `todo` is what is still to be made. `DeleteCall` is
one call in `cleanup_cli_state`, whose deletions are looked up in the state it is
called in and kept in `doomed` until `DeleteObject` has made them. A deletion is a
handle and whether the code tests it first. Signals that arrive
before `signal ()` was called meet SDL's handlers if SDL is initialised, which
turn them into quit events, or kill the process.

**Network.** A process is `down`, or where it is in its life: `bound` (or
`in_use`, the error that `uv_tcp_bind` delays), in its main loop, and between
`uv_close` and the end. `OnConnection` and `ShedLoad` are what `uv_run` does in
`network_server_update`, `OnConnect` what it does in `network_client_update`.
`handles` is the loop's queue without libuv's own: the socket, and behind it,
once, the handle that `on_connection` leaves there from its stack frame. Each
call of `on_connection` has its frame at the same place, so the handle is
initialised again and again at one address; this is what the build does and no
rule guarantees it. External, and modelled from how the code uses them:
`SO_REUSEADDR` is set, so only a listening socket is in the way of a bind;
`uv_listen` succeeds for the first of those that are bound; a connection is made
in one step with its entry into the backlog, or refused when nobody listens or
the backlog stays full; without a descriptor left (`EMFILE`) libuv accepts and
closes everything that waits; a connection that ended in good order before the
client's update still counts as established. Other errors of bind are left out.
`uv_loop_close` finds the closing socket and gives up with `EBUSY`, so that the
descriptors of accepted connections stay open until the process ends.

**LogLines, ExtensionList.** `log_at` is a step per character or line, with the
code's `idx`, `line_len` and `last_line`. A read or a write outside of
the two buffers leads to the state `undefined`, in which nothing more is said.
`GetNames`, `Measure` (the loop that adds up `list_len`), `Allocate`, `Join` and
`EndList` are `get_instance_extensions`; `GetNoNames` is an SDL that fails or names no
extension, an answer the code does not look at, and leads to `undefined`; `Count`, `LogList`, `TestNum`, `InElement`, `Cut` and `SplitReturn` are `split_list`. The
array is modelled as offsets into the list: an element is the string that starts
there in the list as it is then, so that a terminator written too early or too
late would show. `split_list` logs the list through the same `log_at`.
`Fields` is the reference for both, what lies between the marks of a text; it is
defined by counting marks (`Before`) and not by the loops' way of going through it.

## Runs

| Run | Question | Expected |
|---|---|---|
| `renderer_loop` | One viewport, acquires succeed or fail and whole frames are culled, queue in issue order. Do slots and semaphores keep step and does nothing acquired get lost (`AcquiresInv`)? Is whatever is waited for on its way (`WaitsEnd`)? Is nothing in use at teardown (`TeardownIdle`)? Does every frame return (`FrameReturns`), every image come back (`ImagesReturn`), every slot (`SlotsReturn`), and does the program get through `vkQueueWaitIdle` (`QuitCompletes`)? | pass |
| `renderer_viewports` | Two viewports, either or both of which may be culled from a frame, present requests that may fail, and as many slots as acquire semaphores. Is an image that a batch of an always-presented slot draws to never shown, handed out or drawn twice (`RenderTargetExclusive`), is such a slot's `on_finished` unsignaled when a batch signals it (`OnFinishedFresh`), is every semaphore given to the engine unsignaled and waited for by nothing (`AcquireSemFresh`), and does the invariant of the proof hold (`PresentsInv`)? | pass |
| `renderer_degraded` | Every answer of the engine, `VK_SUBOPTIMAL_KHR` included, submissions and present requests that fail, a device that is lost, batches that overtake present requests. Do the slots still have one owner (`FrameExclusive`, `SlotsSafe`), and does the invariant of the proof hold (`FramesInv`)? | pass |
| `acquire_suboptimal` | Does `viewport_acquire` report every image it acquired (`AcquireReported`)? | violation |
| `draw_list` | Any sequence of fills and clears: do the arrays keep what they were given (`KeepsLines`, `IndicesInRange`)? | pass |
| `debug_pass` | Frames of none, one or two viewports, buffers that grow, fail to or are not mapped: are a batch's buffers never replaced (`BuffersAlive`), and does the device draw each line once wherever the slot's writes succeeded (`DrawsWhatWasGiven`)? Does the invariant of the proofs hold (`PassInv`)? | pass |
| `world` | 30 stars: do position and velocity of a star belong together (`StarsWhole`), do the two systems, in the order of their ids, show each star where the step has moved it (`DrawsAfterOrbit`)? Does the invariant of the proofs hold (`WorldInv`)? | pass |
| `star_pointers` | Does each entity get the values randomized for it (`StarsRandomized`)? | violation |
| `main_loop` | Every combination of arguments, failing creations, signals and quit events: is no handle destroyed while another needs it (`NothingDangles`), none that was never made (`DestroysOnlyMade`), every one before a normal exit (`ExitIsClean`), and no signal or quit event ignored (`SignalHeeded`, `QuitHeeded`)? Does the invariant of the proofs hold (`MainInv`)? | pass |
| `network` | Two servers and two clients that start, leave and are killed at any point: does the one server that runs its loop listen (`ListensWhileRunning`), does cleanup stay clear of the dead handle (`WalksLiveHandles`), is every connection accepted or ended (`ConnectionsServed`), every request answered (`RequestsAnswered`), once and truly (`ServiceSafe`)? `NetworkInv` is the invariant of the proof. | pass |
| `text` | Every text and every list of names up to a length: does `log_at` print the lines of the text (`LogPrints`), does `vkCreateInstance` get the names SDL gave (`ExtensionsArrive`), within the buffers (`StaysInBounds`), and is each name logged on a line of its own (`ListLogged`)? Does the invariant of the proofs hold (`TextInv`)? | pass |
| `poll_dt` | Is the elapsed time given to `world_step` a measured one (`StepIsTimed`)? | violation |

Deadlock is checked except in `renderer_degraded`, where the program really
blocks for ever after a failed submission, or with no image left, and in the violation run on
`VK_SUBOPTIMAL_KHR`, where it may run out of images.

## Bounds

- **Slots, semaphores, images.** The runs use the code's own 2 slots and the 3
  images the swapchain is asked for. The violation run
  has the code's 4 semaphores (`MAX_FRAMES_IN_FLIGHT`), the others have 2: that is the boundary of the rotation, and with
  fewer it is violated; the proofs cover every larger number. The frame loop
  itself is not bounded: frames go on for ever and the state space is finite.
- **Viewports.** One for liveness and for the degraded engine, two where
  viewports of one frame differ from each other.
- **`MaxNum = 4`** in the draw list. With capacity 1 each array grows twice in
  `draw_list`. In `debug_pass` the capacity is 2 and each grows once; the vertex
  buffer of a slot grows twice (from 2 bytes to 4 for one line, to 9 for two,
  in half-steps rounded down) and the index buffer once, in every interleaving
  with the other slot.
- **Failures in `debug_pass`.** A map that fails, a memory that cannot be bound and a
  buffer that cannot be created, for each vector by itself. A memory that cannot be
  allocated differs from the last in one buffer made, is left to the proof, and
  passes too when it is added.
- **`StarNum = 30`, `MaxSteps = 3`.** Creation is sequential and each turn of
  the loop does the same to the next row. 30 only serves to have a run of some
  length, the proofs cover every number; 2 show the finding.
- **Main** has no bounds; it uses 3 images, 4 semaphores and 2 slots.
- **Network.** Two servers (for the race between bind and listen) and two
  clients, a backlog of 2 (the code asks for 10556) and 2 descriptors, which are
  used up after two connections, so that shedding happens while connections of
  clients that have left still hold theirs. Processes start again without bound.
- **Text.** Buffers of 10 and 6 characters for the code's 512 and 256, with every
  text of up to 11 characters: 1 below each limit to 1 and more above it, with
  newlines anywhere. Lists of 1 to 3 names of 1 or 2 letters with room for 2 in
  the array (the code's is 32). `sdl_display.c` asks SDL for at most 16 names, so
  the array is large enough and the error path of `split_list` is not taken by
  the program as it stands; the run takes it.
- **Symmetry.** The images are interchangeable in `renderer_viewports` and
  `renderer_degraded`, the vertices in `debug_pass`; none of the three has a liveness
  property. The view of `debug_pass` tells no two states apart that differ only in
  what no step and no property reads.

## Fairness

`Renderer!Fairness` asks for weak fairness only: of the host's steps within a
frame and within the teardown (a thread that is not blocked runs), of the
device's beginning and completing what is submitted (Vulkan's guarantee of
forward progress), of the engine's signalling each acquired image, and of the
vertical blank. The host's fairness (`HostStep`) takes an acquire only where there is an
image to hand out (`AcquireDue`): an error may end `vkAcquireNextImageKHR` at any time,
but nothing makes it, so that the call blocks when no image comes back. The mutant that
presents nothing loses images in this way and breaks `FrameReturns` and `SlotsReturn`.
Nothing is assumed of `BeginFrame` and `Quit`: neither has to happen. `Main!FairSpec` only asks that the main thread runs; signals and the
window's close need not happen. `Network!Fairness` asks that a process that runs
gets on (its main loop calls `update` again and again without waiting) and that
the kernel answers a connection request in the end; nothing makes a process
start, leave or be killed. Blocking calls are disabled actions, so a wait
that never ends shows up as a violated leads-to.

## Proofs

`Renderer_proofs` proves, for every number of viewports, slots, semaphores and
every set of images, whatever the engine, `vkQueueSubmit` and `vkQueuePresentKHR` answer,
whether or not the device may be lost and for both values of `PresentHolds`, from the module's named assumptions only:

| Theorem | Statement |
|---|---|
| `TypeCorrect` | `Spec => []TypeOK` |
| `SlotsInvariant` | `Spec => []FramesInv` |
| `FramesExclusive` | `Spec => []FrameExclusive` |
| `SlotsImplemented` | `Spec => SlotsSafe`, the safety part of `FrameQueue` under the refinement mapping |
| `FramesEnd`, `SubmissionsAreKept` | `Spec => FrameNears`, `Spec => SubmissionsAdvance`, see "What liveness rests on" |

`TypeOK` is not inductive: `Record` names the semaphores of the acquired
viewports, which are only in `AcquireSems` if each has been acquired at least
once. `AcquiredRotated` says so. `FrameExclusive` is not inductive either. That
the host does not touch a slot the device uses follows from the fence it waited
for, if the fence is that of the slot's only submission: the rest of `FramesInv` says
that a submitted batch's fence is unsignaled (`BatchesFenced`), that a slot has
at most one batch (`OneBatchPerSlot`), that only batches execute
(`RunningBatches`), and that from the reset of the fence to the submission the
fence is unsignaled and no batch of the slot is pending (`HostHoldsSlot`). The
proof has one lemma per action, and one step per conjunct an action disturbs.

The refinement maps a slot's owner to `host` between the wait and the
submission, else to `free` or `device` by the fence; `last` is `frame_index`,
except that it stays at the predecessor until the wait is over. `WaitForFence`
is the abstract `Take`, `Submit` is `Hand`, `FinishBatch` is `Retire`, `DeviceLost` is
`RetireAll`, all else stutters. `Submit` maps to `Hand` also when it fails, which is how the lost slot
shows: the device never gives it back, unless it is lost.

`Present_proofs` adds, under `PlainAnswers`: at least as many semaphores as slots
(`FrameNum <= AcquireNum`; the code has 2 and 4), no `VK_SUBOPTIMAL_KHR`, submissions
and present requests that are taken, a device that is not lost, and a
`vkQueueWaitIdle` that waits for present requests too (which only `TeardownFindsIdle`
and its invariant need, and Vulkan does not promise). Any viewport may be culled from
any frame, all of them included, and batches may overtake present requests.

| Theorem | Statement |
|---|---|
| `AcquiresInvariant` | `Spec => []AcquiresInv` |
| `SemaphoresFresh` | `Spec => []AcquireSemFresh` |
| `TeardownFindsIdle` | `Spec => []TeardownIdle` |

`AcquireSemFresh` is about two rotations of different lengths of which only one
is guarded. `RotationsInStep` ties them together: each viewport is asked once per
frame, so the semaphore that a queued batch waits for is as many acquires old as
the batch's slot is frames old (`SlotSem`). `FramesInv` gives that the slot of a
queued batch is not the current one, so its age is below `FrameNum`, and a
semaphore that old is not the one the rotation comes to next, since
`FrameNum <= AcquireNum`. That a semaphore nobody waits for is unsignaled is
`SemsWaitedFor`; `ImagesOnTheirWay` says the same of images. At the teardown
the queue is empty (`QuietAtTheEnd`), so both have nothing left to point at.

It also proves, under `InOrder`: the queue works in issue order (`PresentHolds`), which
is Vulkan's rule, submissions succeed and the device is not lost. Any frame may be culled
as a whole, any present request may fail, `VK_SUBOPTIMAL_KHR` is allowed, and no relation
between slots and semaphores is needed.

| Theorem | Statement |
|---|---|
| `PresentsInvariant` | `Spec => []PresentsInv` |
| `SignalsFresh` | `Spec => []OnFinishedFresh` |
| `TargetsExclusive` | `Spec => []RenderTargetExclusive` |

The fence of a slot says that its batch has completed, not that its present
request has been executed: when the slot is used again the request may still be
queued. `SignalsTaken` says that then it stands before the slot's next batch in
the queue, and takes the signal before that batch can begin. `PresentFollows`
gives each batch in the queue or executing its request further back, which is how
the exclusiveness of requests (`TargetsTaken`) becomes that of batches: two
batches share an image only if they share a request, hence a slot, and
`OneBatchPerSlot` makes them one. A slot that has had a frame without a present request
(`unpresented`) may have a signal too many, so nothing is claimed of its signal and of
what its batches draw. That it harms no other slot is what the invariant
has to carry: its requests still name images that are the renderer's, whenever they are
shown, and no other slot's batch draws to those. `EngineApart` is needed to see that an image
taken from the engine is not still on the screen.

It also proves, under `PlainQueue`: `PlainAnswers` and a queue that executes in
submission order. Frames may be culled in part or whole.

| Theorem | Statement |
|---|---|
| `WaitsAreDue` | for any two different images, `Spec => []WaitsEnd` |
| `HostIsNeverStuck` | likewise, `Spec => [](HostBlocks => OthersMove)` |

`WaitsEnd` is the part of the liveness properties that is not fairness: nothing
waits for what nobody is going to do. An unsignaled fence has its batch submitted,
or its slot is the host's (`FencesDue`). The semaphores of a batch have been given to
the engine and not been waited for by another (`SemsDue`, the converse of
`SemsWaitedFor`); since a batch resets them, this needs that no two batches share
one, which the two rotations in step give: different slots have different semaphores
as long as there are as many (`SlotSemsApart`). A present request has in the queue
before it, or executing, or already signaled, a batch of its slot whose signal no
request in between takes (`SignalsDue`); this also holds when frames are culled and
`OnFinishedFresh` does not. While the host waits for an image, one is free, one waits
on the screen for its successor, or a request that shows it is queued (`ImageDue`);
that needs two images in a swapchain, the code asks for three. What the first
operation of the queue waits for is therefore executing, signaled or the engine's
to signal: no wait goes round in a circle, which `HostIsNeverStuck` states with the
guards of the steps themselves (`ENABLED` being out of reach): whenever the host
blocks on a fence, in `vkQueueWaitIdle` or for an image, a batch can complete, the
first operation of the queue can begin, a semaphore it waits for can be signaled, or
the screen can refresh. That those steps are taken is their fairness.

`Network_proofs` proves, for every set of servers and clients, every backlog and
every descriptor limit:

| Theorem | Statement |
|---|---|
| `NetworkInvariant` | `Spec => []NetworkInv` |
| `OneServerListens` | `Spec => []ListensWhileRunning` |
| `LiveHandlesWalked` | `Spec => []WalksLiveHandles` |
| `ServiceImplemented` | `Spec => ServiceSafe`, the safety part of `Service` under the refinement mapping |
| `LineIsKept`, `AnswerIsKept` | `Spec => LineMoves`, `Spec => AnswerStays`, see "What liveness rests on" |

`ListensWhileRunning` and `SocketFirst` are inductive. The refinement needs more.
When a server stops, `Service` may deny only clients that were admitted and
not told, all others keep their answer: `EndsAgree` gives that a connection is up
exactly if it is in one backlog or held by one server, so that stopping one
server does not touch what another holds, and `ToldOnce` that a callback is
due only to a client that has not been told. A server's end after `uv_close`
stutters: `Request` counts a connection that ended in good order as admitted.

`DrawList_proofs` proves, for every capacity, every set of vertices and every
bound on their number, from `CapacityAssumption`:

| Theorem | Statement |
|---|---|
| `ListInvariant` | `DrawListSpec => []DrawListInv` |
| `IndicesValid` | `DrawListSpec => []IndicesInRange` |
| `ListImplemented` | `DrawListSpec => KeepsLines`, which is `LineList!Spec` under the refinement mapping |

`DrawListTypeOK` is not inductive either: `debug_draw_list_line` doubles an array
once and then writes two elements, which fits only if the array is not empty and
an odd number of indices is never in use (with one element allocated and in use,
a doubling leaves room for one). `RoomForLines` says both. The refinement maps the
points to the vertices below the count and each line to the pair of vertices its
two indices name; that adding a vertex changes no line needs `IndicesInRange`, and
that a growth changes none is the lemma `GrownFacts`.

`DebugPass_proofs` stands on these lemmas and proves, for every number of slots
and viewports, every size of elements and buffers and every pattern of growths
and maps that fail, up to the first use of a destroyed handle:

| Theorem | Statement |
|---|---|
| `PassInvariant` | `PassSpec => []PassInv` |
| `BuffersStayAlive` | `PassSpec => []BuffersAlive` |
| `LinesDrawn` | `PassSpec => []DrawsWhatWasGiven` |

Both properties speak of the device, the reasons are on the host. `PassInv` follows
a line on its way. Until a viewport is rendered the list holds it, with the
indices counting up (`ListHoldsGiven`); this is what makes the wrong counter of
`debug_draw_list_index_num` harmless. Rendering the first viewport moves it to the
slot's buffers (`SlotRecorded`, `BuffersHold`), and they keep it until the fence:
the other slots write to their own, and a second viewport finds the list empty
(`EmptyOnceRendered`), for which `gpu_vector_write` returns without reserving
anything. That no line is added between two viewports of a frame, and that only
one slot is the host's, is `FrameQueue`'s ownership. If a growth or a map fails nothing is
claimed of the lines of that batch (`BuffersWritten`): the code draws the new number of
indices from whatever the buffers hold. The other slots' batches, those that had
nothing to write, and the slot's own next one after a failed map draw what they should.

`World_proofs` proves, for every number of stars and steps:

| Theorem | Statement |
|---|---|
| `WorldInvariant` | `Spec => []WorldInv` |
| `StarsStayWhole` | `Spec => []StarsWhole` |
| `LinesFollowStars` | `Spec => []DrawsAfterOrbit` |

`StarsWhole` says nothing of the creation, so `WorldInv` has to: what
`randomize_star` wrote through the stale pointers of one turn lies in the first
rows of tables 1 and 2 (`LeftBehind`), and the next entity, which gets those rows,
takes both values along; row *r* of table 3 therefore has the transform and the
star of turn *r* - 1 (`RowsOneTurnLate`). That the stale pointers all name row 1 is
`OneOnItsWay` and `PointersStale`. `DrawsAfterOrbit` speaks of the end of a step, when
both systems have run. `SystemsOrdered` says that `orbit` has the smaller id once
`draw` has one and so is never left alone behind it in `toRun`; `DrawnLast`, that what
was drawn is then what table 3 still holds.

`Main_proofs` proves, for every number of images, acquire semaphores and frame
slots, with or without a window, as a client or as a server:

| Theorem | Statement |
|---|---|
| `MainInvariant` | `Spec => []MainInv` |
| `NoHandleDangles` | `Spec => []NothingDangles` |
| `UntestedDeletesAreSafe` | `Spec => []DestroysOnlyMade` |
| `NothingIsLeaked` | `Spec => []ExitIsClean` |
| `RequestIsKept`, `StopIsNeared` | `Spec => RequestKept`, `Spec => StopNears`, see "What liveness rests on" |

None of the three properties is inductive, since each speaks of the handles that
exist and not of those that come next. While handles are made, what exists and
what is to do together are everything, and each handle comes after the one
it uses (`Creating`, `Founded`). While they are destroyed, `CleaningUp` says that
after some number of calls (`CleanedUp`) everything the later calls have to destroy
still exists (`Left`), and that nothing else does but what the running call is
about to destroy; that its deletions are in an order in which nothing loses what it
uses (`Orderly`); and that what it destroys without a test exists and occurs once
(`UntestedMade`). The work is in the lists of `Objects`: `Deletes` is what a call
promises for the set of handles it finds and the set it leaves, and one lemma
per delete function shows it, for lists whose middle part has a length that is a
constant (`EachImage`, `EachFrame`). The second end of the session, which
`sdl_display_delete` calls after `main` has, finds nothing and promises nothing.
`DestroysOnlyMade` is why `main.c:221` must return after a failed creation: then
`pc` is never `cleanup` with a part of the handles missing.

`Text_proofs` proves, for all sizes of the two buffers and of the array, any
letters, any names that are not empty and any texts:

| Theorem | Statement |
|---|---|
| `TextInvariant` | `Spec => []TextInv` |
| `LinesAreLogged` | `Spec => []LogPrints` |
| `NothingOverflows` | `Spec => []StaysInBounds` |
| `ExtensionsAreAskedFor` | `Spec => []ExtensionsArrive` |
| `ExtensionsAreLogged` | `Spec => []ListLogged` |
| `LoopsComeToEnd` | `Spec => LoopsEnd`, see "What liveness rests on" |

`TextInv` is one loop invariant per loop. `Printing` is that of `log_at`: as many lines
are printed as there are newlines before `idx`, `last_line` is where the next one
starts, and `line_len` is one more than its length so far unless it is the first.
That a line never overruns its buffer unless `Fits` is false, and that the length
copied is never negative, follow. The string of the extensions changes its
separators under way, from spaces to newlines to NULs, so the invariants say what
does not change: cut at separators, whichever they are, it is the names SDL gave
and an empty rest (`Joined`). Each loop then only has to say how far the exchange
has come (`Counting`, `Cutting`) and what it has counted, which is `Before`, the
number of separators before `i`. The first loop of `split_list` and the second one
agree because both count these. `Elements` puts each offset at the start of a field,
and with all other separators gone the string that starts there is the name.
The length measured for the list is `Characters` plus one for each name; the last of
these is the NUL's. The lemmas are about fields: where one starts and ends
(`FieldFacts`), and what is left of the fields when a character is
appended, exchanged or put in front (`FieldsGrow`, `FieldsPrepend`).

### What liveness rests on

A leads-to holds because nothing on the way is lost, because no wait goes round in
a circle, because each step brings the end nearer, and because the steps are taken.
The last is fairness and stays with TLC. The others are about single steps and are
theorems, for every value of the constants; the formulas are defined in the proof
modules, each next to its theorem.

- **The program ends when it is asked to** (`SignalHeeded`, `QuitHeeded`).
  `RequestIsKept`: a request (`Asked`) moves from the event queue to
  `should_exit` to the cleanup and is never dropped, although each poll resets
  `should_exit`. `StopIsNeared`: while there is one, each step of `main` lowers a
  rank, and no signal, event or stutter raises it, unless the process has ended. The
  rank is lexicographic: `Phase`, then the handles still to make, the calls of the
  cleanup, the deletions of the running call. A quit event that arrives right after
  a poll has to pass the loop's test once more before it is seen, so `Phase` counts
  two rounds of the loop for a request not yet seen and one for one that is
  (`Decided`). That a program without a window never has a quit event, which would
  never be polled, is the invariant `Unseen`; that each place of `main` has an action,
  `HandlersInOrder`.
- **A frame returns and a teardown completes** (`FrameReturns`, `QuitCompletes`).
  `FramesEnd`: outside of `idle` each step lowers `HostPhase`, the distance of the host
  from its return, or leaves it and lowers what others have to do (`LessToDo`):
  operations queued, batches executing, semaphores not yet signaled, images on the
  screen. `HostIsNeverStuck` above says that when the host blocks one of these steps
  is possible. Together a frame cannot go on for ever. `ImagesReturn` and
  `SlotsReturn` also need that images and slots are not lost: `ImagesOnTheirWay`, and
  `FencesDue` in `WaitsEnd`, say where they are, and `SubmissionsAreKept` that they get
  on from there, unless the device is lost. An operation that is queued gets no farther from the head of the queue
  until it has begun, and a batch that executes is not dropped before its fence is
  signaled.
- **Connections are accepted, clients are told** (`ConnectionsServed`,
  `RequestsAnswered`). `LineIsKept`: a connection that waits is never overtaken, and
  with each update of its server it moves up, is accepted, or has ended. That the
  server with a backlog runs its loop, so that an update is possible, is
  `OneServerListens`. `AnswerIsKept`: a call of `on_connect` that is due stays due, and
  an answer given stays given, until the client has made the call or ended.
- **The loops over text end.** `LoopsComeToEnd`: the turns left of the loops over the
  names, over the list and over the text that is logged on the way, lexicographically.
  No run states this.

### Only model-checked

Every safety property of a passing run is a theorem. Only model-checked are the
liveness properties themselves (`FrameReturns`, `ImagesReturn`, `QuitCompletes`,
`SlotsReturn`, `SignalHeeded`, `QuitHeeded`, `ConnectionsServed`,
`RequestsAnswered`): liveness under fairness is outside this prover's reach, like
`ENABLED`. So is induction over data, which is why `Fields`, `Before` and
`Characters` are defined by sets and their cardinality and not by recursion: a
loop invariant then needs no more than how they grow by one.

## What the models show of the code

Disagreements with what the repository says, each with a run:

1. `viewport_acquire` returns 0 for `VK_SUBOPTIMAL_KHR`
   (`src/renderer/viewport.c:277`), although the image was acquired;
   `include/renderer/viewport.h:52` promises non-zero "if the swapchain has been
   acquired". The image is never presented. After as many such answers as there
   are spare images `vkAcquireNextImageKHR` blocks for ever.
2. `world_new` keeps the pointers `ecs_get_mut` returned while it adds further
   components (`src/world/world.c:265-269`); `lib/flecs/docs/Manual.md:726`
   speaks of a pointer "that can be safely modified". Entity *k* ends up with
   the transform and star randomized for entity *k* - 1, the first with
   uninitialised ones. Since both are shifted together the field of stars looks
   right, which is what `StarsWhole` shows.
3. `sdl_display_poll` never sets `dt`, which `include/displays/display.h:9`
   calls the time elapsed; `main` steps the world by what its stack held.

Limits of the design that no document denies, found when the properties were
checked under wider constants, and the reason for some constants above:

- A frame whose viewports are all culled signals `on_finished` and presents
  nothing; in the SDL session, with its one viewport, every failed acquire makes such
  a frame. The slot's next present request then finds the semaphore signaled and
  may show an image before its batch completes. `OnFinishedFresh` and
  `RenderTargetExclusive` are false for such a slot (drop `unpresented` from either and
  `renderer_viewports` is violated); they say that it is that slot alone.
- A `vkQueuePresentKHR` that fails without queueing anything has the same effect, and
  the images acquired for it never come back: after as many as are spare,
  `vkAcquireNextImageKHR` blocks for ever.
- If batches may overtake present requests, two signals of one slot's
  `on_finished` can merge and a present request waits for ever. `OnFinishedFresh`
  and the liveness properties need a queue that works in issue order.
- A failed `vkQueueSubmit` leaves its slot's fence reset: the host blocks for ever
  when it comes back to the slot, unless the device is lost.
- `renderer_delete` relies on `vkQueueWaitIdle` for present requests too, which wait
  for the `on_finished` it destroys; Vulkan only promises the batches.
- A buffer growth that fails leaves the handles of what it destroyed in the vector, and
  the next growth destroys them again. After a failed growth or map the draw is recorded
  all the same, with the new number of indices.
- `get_instance_extensions` writes its NUL to an allocation of no bytes if SDL names no
  extension, and reads pointers that were never set if SDL fails.
- With more slots than `MAX_FRAMES_IN_FLIGHT`, `AcquireSemFresh` fails.
- Only the first viewport of a frame draws the debug lines; while none is
  acquired the draw list grows without bound.
- `network_client_connect` ignores the answer of `uv_tcp_connect`: if it fails at
  once, `on_connect` is never called and the client runs on without a connection.
  `RequestsAnswered` is about requests libuv has taken.
- A server never closes an accepted connection. Once its descriptors are used up
  every further client is told that it is connected and then disconnected, for
  as long as the server runs.
- `network_server_delete` reaches `uv_loop_close` without a run of the loop, so
  the loop never closes. That is what keeps it from going through the queue as
  far as the handle on the dead stack frame: running the loop once more, as libuv
  asks for, breaks `WalksLiveHandles`.
- `log_at` leaves its buffers for a text of 512 bytes or more, for a line of 256
  or more and for a last line (not the first) of 255 or more: `Fits` is the exact
  condition.

## Not modelled

- **What Vulkan's create functions are given** (formats, pipeline state, queue
  families, memory types): only that a handle is made or not, and when.
- **Floating-point arithmetic** of orbits, colours and projections: neither TLC
  nor the provers have it.
- **flecs**: 45 000 of the repository's 49 000 lines of C are this vendored
  entity store. It is a library to the code above and is modelled as external,
  as far as `world.c` depends on it: the moves between its tables. Of the other
  lines the maps cover about half; headers, Vulkan's create structures and logging make
  up most of the rest.
- **Reading shader files** (`gpu_shader.c`): a shader is a handle that is made or
  not. Files have no state here that the program changes.
- **The choice of a physical device and a queue family**: answers of the driver.
- **Colours and headings of log lines, shaders, CMake**: no state of the program.
- **Failures of `malloc`**: nowhere handled in the code.
- **`vkWaitForFences` and `vkQueueWaitIdle` failing for lack of memory**: only their
  failure on a lost device is modelled.
- **What a device memory holds behind the elements last written, and what a program does
  after using a destroyed handle**: the models stop there.
- **The log call in `signal_handler`**: a signal sets `g_interrupted`; that the handler
  also uses stdio is not modelled.

## Plan

All modules of the plan are written: the frame loop with the engine, the draw
list and its way to the device, the world, the program, the network, the log and
the extension list.

What could follow:

1. A refinement of `log_at` and `split_list` by one abstract specification of text
   that is cut at marks.
2. The pairing of viewports and cameras at `renderer.c:262-286`, once a
   pass reads the camera.
