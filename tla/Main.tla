-------------------------------- MODULE Main --------------------------------
(***************************************************************************)
(* cli/main.c: the handles of the program from creation to cleanup, the    *)
(* main loop that polls the display and updates world, renderer and        *)
(* network, and the two ways to end it: the window's quit event and the    *)
(* signals.                                                                *)
(***************************************************************************)
EXTENDS Objects

VARIABLES
  isHeadless,      \* cli->is_headless
  isClient,        \* cli->is_client
  made,            \* the handles that exist
  todo,            \* handles still to create
  doomed,          \* deletions of the running delete function, still to do
  calls,           \* calls of cleanup_cli_state not yet made
  pc,              \* where main is
  shouldExit,      \* poll.should_exit
  dt,              \* poll.dt: "unset" as on main's stack, or "measured"
  interrupted,     \* g_interrupted
  handlers,        \* signals that have signal_handler installed
  quitEvent        \* SDL_QUIT is in the event queue

vars == <<isHeadless, isClient, made, todo, doomed, calls, pc, shouldExit, dt,
          interrupted, handlers, quitEvent>>

args == <<isHeadless, isClient>>

Signals == {"SIGTERM", "SIGINT"}

Network == IF isClient THEN <<"client">> ELSE <<"server">>

CreationOrder ==
  (IF isHeadless THEN <<>>
   ELSE DisplayNew \o DeviceNew \o SessionBegin \o RendererNew \o WorldNew)
    \o <<Network>>

(* Mutant: the renderer goes before the world that draws into its list.    *)
DeleteCallsSwapped ==
  <<"network", "renderer", "world", "session", "session", "display", "device">>

(* Mutant: the network is forgotten.                                       *)
DeleteCallsNoNetwork == <<"world", "renderer", "session", "session", "display", "device">>

(* The calls of cleanup_cli_state.  The session is ended twice, by main    *)
(* and by sdl_display_delete.                                              *)
DeleteCalls ==
  <<"network", "world", "renderer", "session", "session", "display", "device">>

(* The deletions of a call, made in the state it is called in.             *)
Deletion(call) ==
  CASE call = "network"  -> Tested(<<Network>>)
    [] call = "world"    -> Tested(WorldNew)
    [] call = "renderer" -> RendererDelete
    [] call = "session"  -> SessionEnd(made)
    [] call = "display"  -> DisplayDelete(made)
    [] call = "device"   -> DeviceDelete

LoopStates == {"test", "poll", "step", "render", "update"}

TypeOK ==
  /\ isHeadless \in BOOLEAN /\ isClient \in BOOLEAN
  /\ made \subseteq Handles
  /\ todo \in Seq(Handles)
  /\ doomed \in Seq([handle : Handles, tested : BOOLEAN])
  /\ calls \in Seq(ToSet(DeleteCalls))
  /\ pc \in LoopStates \cup {"create", "handlers", "cleanup", "exited", "failed", "killed"}
  /\ shouldExit \in BOOLEAN
  /\ dt \in {"unset", "measured"}
  /\ interrupted \in BOOLEAN
  /\ handlers \subseteq Signals
  /\ quitEvent \in BOOLEAN

(* parse_cli_args and init_cli_state.  At an argument it does not know the *)
(* first returns 1, and so does main.                                      *)
Init ==
  /\ isHeadless \in BOOLEAN
  /\ isClient \in BOOLEAN
  /\ made = {}
  /\ todo = CreationOrder
  /\ doomed = <<>>
  /\ calls = <<>>
  /\ pc \in {"create", "failed"}
  /\ shouldExit = FALSE
  /\ dt = "unset"
  /\ interrupted = FALSE
  /\ handlers = {}
  /\ quitEvent = FALSE

---------------------------------------------------------------------------
(* Mutant: main cleans up after a failed creation.                         *)
CreateObjectCleansUp ==
  /\ pc = "create"
  /\ todo # <<>>
  /\ \/ /\ made' = made \cup {Head(todo)}
        /\ todo' = Tail(todo)
        /\ UNCHANGED <<pc, calls>>
     \/ /\ Head(todo) # <<"client">>
        /\ pc' = "cleanup"
        /\ todo' = <<>>
        /\ calls' = DeleteCalls
        /\ UNCHANGED made
  /\ UNCHANGED <<args, doomed, shouldExit, dt, interrupted, handlers, quitEvent>>

(* create_cli_objects: main returns at the first failure, and leaves what  *)
(* was already made to the end of the process.  A handle may exist when    *)
(* its function fails at a later call.  The client's creation ignores what *)
(* libuv answers and never fails, and neither do the functions that only   *)
(* allocate memory.                                                        *)
CreateObject ==
  /\ pc = "create"
  /\ todo # <<>>
  /\ \/ /\ made' = made \cup {Head(todo)}
        /\ todo' = Tail(todo)
        /\ UNCHANGED pc
     \/ /\ Head(todo) \notin {<<"client">>, <<"world">>, <<"ddl">>, <<"extensions">>}
        /\ \/ made' = made \cup {Head(todo)}
           \/ UNCHANGED made
        /\ pc' = "failed"
        /\ UNCHANGED todo
  /\ UNCHANGED <<args, doomed, calls, shouldExit, dt, interrupted, handlers, quitEvent>>

Created ==
  /\ pc = "create"
  /\ todo = <<>>
  /\ pc' = "handlers"
  /\ UNCHANGED <<args, made, todo, doomed, calls, shouldExit, dt, interrupted, handlers, quitEvent>>

(* Mutant: the second call installs the handler of another signal.         *)
InstallHandlerQuit ==
  /\ pc = "handlers"
  /\ \/ /\ handlers = {}
        /\ handlers' = {"SIGTERM"}
        /\ UNCHANGED pc
     \/ /\ handlers = {"SIGTERM"}
        /\ handlers' = {"SIGTERM", "SIGQUIT"}
        /\ pc' = "test"
  /\ UNCHANGED <<args, made, todo, doomed, calls, shouldExit, dt, interrupted, quitEvent>>

(* signal (SIGTERM), then signal (SIGINT).                                 *)
InstallHandler ==
  /\ pc = "handlers"
  /\ \/ /\ handlers = {}
        /\ handlers' = {"SIGTERM"}
        /\ UNCHANGED pc
     \/ /\ handlers = {"SIGTERM"}
        /\ handlers' = Signals
        /\ pc' = "test"
  /\ UNCHANGED <<args, made, todo, doomed, calls, shouldExit, dt, interrupted, quitEvent>>

(* Mutant: the loop ends on a signal only.                                 *)
TestSignalOnly ==
  /\ pc = "test"
  /\ IF ~interrupted
     THEN pc' = (IF isHeadless THEN "update" ELSE "poll") /\ UNCHANGED calls
     ELSE pc' = "cleanup" /\ calls' = DeleteCalls
  /\ UNCHANGED <<args, made, todo, doomed, shouldExit, dt, interrupted, handlers, quitEvent>>

(* Mutant: the loop ends on a quit event only.                             *)
TestQuitOnly ==
  /\ pc = "test"
  /\ IF ~shouldExit
     THEN pc' = (IF isHeadless THEN "update" ELSE "poll") /\ UNCHANGED calls
     ELSE pc' = "cleanup" /\ calls' = DeleteCalls
  /\ UNCHANGED <<args, made, todo, doomed, shouldExit, dt, interrupted, handlers, quitEvent>>

(* while (!poll.should_exit && !g_interrupted).                            *)
Test ==
  /\ pc = "test"
  /\ IF ~shouldExit /\ ~interrupted
     THEN pc' = (IF isHeadless THEN "update" ELSE "poll") /\ UNCHANGED calls
     ELSE pc' = "cleanup" /\ calls' = DeleteCalls
  /\ UNCHANGED <<args, made, todo, doomed, shouldExit, dt, interrupted, handlers, quitEvent>>

(* sdl_display_poll: should_run and should_render are always set, dt never.*)
Poll ==
  /\ pc = "poll"
  /\ shouldExit' = quitEvent
  /\ quitEvent' = FALSE
  /\ pc' = "step"
  /\ UNCHANGED <<args, made, todo, doomed, calls, dt, interrupted, handlers>>

(* world_step, renderer_render_frame (which returns, see Renderer), and    *)
(* the run of the network loop, which does not wait.                       *)
LoopStep ==
  /\ \/ pc = "step" /\ pc' = "render"
     \/ pc = "render" /\ pc' = "update"
     \/ pc = "update" /\ pc' = "test"
  /\ UNCHANGED <<args, made, todo, doomed, calls, shouldExit, dt, interrupted, handlers, quitEvent>>

(* cleanup_cli_state calls a delete function ...                           *)
DeleteCall ==
  /\ pc = "cleanup"
  /\ doomed = <<>>
  /\ calls # <<>>
  /\ doomed' = Deletion(Head(calls))
  /\ calls' = Tail(calls)
  /\ UNCHANGED <<args, made, todo, pc, shouldExit, dt, interrupted, handlers, quitEvent>>

(* ... which destroys its handles, those it tests only when they exist.    *)
DeleteObject ==
  /\ pc = "cleanup"
  /\ doomed # <<>>
  /\ made' = made \ {Head(doomed).handle}
  /\ doomed' = Tail(doomed)
  /\ UNCHANGED <<args, todo, calls, pc, shouldExit, dt, interrupted, handlers, quitEvent>>

Exit ==
  /\ pc = "cleanup"
  /\ doomed = <<>>
  /\ calls = <<>>
  /\ pc' = "exited"
  /\ UNCHANGED <<args, made, todo, doomed, calls, shouldExit, dt, interrupted, handlers, quitEvent>>

Ended == pc \in {"exited", "failed", "killed"}

Stay == Ended /\ UNCHANGED vars

---------------------------------------------------------------------------
(* The environment.                                                        *)

(* A signal reaches signal_handler once that is installed.  Before, SDL's  *)
(* own handler turns it into a quit event if SDL is initialised; otherwise *)
(* it kills the process.                                                   *)
Signal(s) ==
  /\ ~Ended
  /\ \/ /\ s \in handlers
        /\ interrupted' = TRUE
        /\ UNCHANGED <<pc, quitEvent>>
     \/ /\ s \notin handlers /\ <<"sdl">> \in made
        /\ quitEvent' = TRUE
        /\ UNCHANGED <<pc, interrupted>>
     \/ /\ s \notin handlers /\ <<"sdl">> \notin made
        /\ pc' = "killed"
        /\ UNCHANGED <<interrupted, quitEvent>>
  /\ UNCHANGED <<args, made, todo, doomed, calls, shouldExit, dt, handlers>>

CloseWindow ==
  /\ ~Ended
  /\ <<"window">> \in made
  /\ quitEvent' = TRUE
  /\ UNCHANGED <<args, made, todo, doomed, calls, pc, shouldExit, dt, interrupted, handlers>>

---------------------------------------------------------------------------
MainStep ==
  \/ CreateObject \/ Created \/ InstallHandler
  \/ Test \/ Poll \/ LoopStep
  \/ DeleteCall \/ DeleteObject \/ Exit

Next ==
  \/ MainStep
  \/ Stay
  \/ \E s \in Signals : Signal(s)
  \/ CloseWindow

Spec == Init /\ [][Next]_vars

(* The main thread runs; nothing makes a user close the window.            *)
FairSpec == Spec /\ WF_vars(MainStep)

---------------------------------------------------------------------------
(* No handle is destroyed, or made too early, while another still needs    *)
(* it, wherever the creation fails or the loop ends.                       *)
NothingDangles == \A u \in Uses : u[1] \in made => u[2] \in made

(* What viewport_delete, camera_delete and sdl_display_delete destroy      *)
(* without a test exists: they run only after a complete creation.         *)
DestroysOnlyMade ==
  pc = "cleanup" /\ doomed # <<>> /\ ~Head(doomed).tested => Head(doomed).handle \in made

(* A normal exit has destroyed everything that was made.                   *)
ExitIsClean == pc = "exited" => made = {}

---------------------------------------------------------------------------
(* The four are part of an inductive invariant.                            *)

(* What a delete function leaves nothing of.                               *)
Owned(call) ==
  IF call = "network" THEN {Network}
  ELSE IF isHeadless THEN {}
  ELSE CASE call = "world"    -> ToSet(WorldNew)
         [] call = "renderer" -> ToSet(RendererNew)
         [] call = "session"  -> ToSet(SessionBegin)
         [] call = "display"  -> ToSet(DisplayNew)
         [] call = "device"   -> ToSet(DeviceNew)

(* What is left to the calls after the n-th; the second end of the session *)
(* finds nothing.                                                          *)
Due(n) == {k \in n + 1 .. Len(DeleteCalls) : \A j \in 1 .. k - 1 : DeleteCalls[j] # DeleteCalls[k]}
Left(n) == UNION {Owned(DeleteCalls[k]) : k \in Due(n)}

(* Every handle is made after the one it uses.                             *)
Founded ==
  \A i \in DOMAIN todo, u \in Uses :
    u[1] = todo[i] => u[2] \in made \/ \E j \in 1 .. i - 1 : todo[j] = u[2]

Creating ==
  pc = "create" =>
    /\ made \cup ToSet(todo) = ToSet(CreationOrder)
    /\ Founded
    /\ doomed = <<>>

(* From the end of the creation to the cleanup everything exists.          *)
Running ==
  pc \in LoopStates \cup {"handlers"} => made = ToSet(CreationOrder) /\ doomed = <<>>

DoomedHandles == {doomed[k].handle : k \in DOMAIN doomed}

(* Every handle is destroyed before the one it uses.                       *)
Orderly ==
  \A i \in DOMAIN doomed, u \in Uses :
    u[2] = doomed[i].handle /\ u[1] \in made => \E j \in 1 .. i - 1 : doomed[j].handle = u[1]

(* What is destroyed without a test exists, and is destroyed once.         *)
UntestedMade ==
  \A i \in DOMAIN doomed :
    ~doomed[i].tested =>
      /\ doomed[i].handle \in made
      /\ \A j \in DOMAIN doomed \ {i} : doomed[j].handle # doomed[i].handle

(* After n calls, with the deletions of the last one under way.            *)
CleanedUp(n) ==
  /\ calls = SubSeq(DeleteCalls, n + 1, Len(DeleteCalls))
  /\ n = 0 => doomed = <<>>
  /\ Left(n) \subseteq made
  /\ made \subseteq Left(n) \cup DoomedHandles
  /\ DoomedHandles \cap Left(n) = {}

CleaningUp ==
  pc = "cleanup" =>
    /\ \E n \in 0 .. Len(DeleteCalls) : CleanedUp(n)
    /\ Orderly
    /\ UntestedMade

MainInv ==
  /\ TypeOK
  /\ NothingDangles
  /\ Creating
  /\ Running
  /\ CleaningUp
  /\ ExitIsClean
---------------------------------------------------------------------------

(* A signal caught at any point of a frame ends the program by way of the  *)
(* cleanup, in every mode.                                                 *)
SignalHeeded == interrupted ~> Ended

(* The window's quit event is not lost between two polls, although every   *)
(* poll resets should_exit.                                                *)
QuitHeeded == quitEvent ~> Ended

(* display.h: dt is the "Time elapsed this frame, in seconds."; world_step *)
(* is given it.                                                            *)
StepIsTimed == pc = "step" => dt = "measured"
=============================================================================
