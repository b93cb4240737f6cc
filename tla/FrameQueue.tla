---------------------------- MODULE FrameQueue ----------------------------
(***************************************************************************)
(* What renderer.c promises about its frame slots, with the fences,        *)
(* semaphores and queues left out.                                         *)
(*                                                                         *)
(* A slot (struct frame_data: command pool, descriptor pool, buffers) has  *)
(* one owner at a time.  The host takes the slots in rotation, at most one *)
(* at a time and only a free one, hands it to the device, and the device   *)
(* eventually gives it back.                                               *)
(***************************************************************************)
EXTENDS Integers

CONSTANT FrameNum    \* as in Renderer, which assumes it positive

Frames == 0 .. FrameNum - 1

VARIABLES owner, last

vars == <<owner, last>>

Init ==
  /\ owner = [f \in Frames |-> "free"]
  /\ last = 0

Successor(f) == IF f + 1 >= FrameNum THEN 0 ELSE f + 1

Take ==
  /\ \A f \in Frames : owner[f] # "host"
  /\ owner[Successor(last)] = "free"
  /\ owner' = [owner EXCEPT ![Successor(last)] = "host"]
  /\ last' = Successor(last)

Hand ==
  /\ owner[last] = "host"
  /\ owner' = [owner EXCEPT ![last] = "device"]
  /\ UNCHANGED last

Retire(f) ==
  /\ owner[f] = "device"
  /\ owner' = [owner EXCEPT ![f] = "free"]
  /\ UNCHANGED last

(* A device that is lost gives back all it has.                            *)
RetireAll ==
  /\ owner' = [f \in Frames |-> IF owner[f] = "device" THEN "free" ELSE owner[f]]
  /\ UNCHANGED last

Next == Take \/ Hand \/ (\E f \in Frames : Retire(f)) \/ RetireAll

SafeSpec == Init /\ [][Next]_vars

(* Every slot that is taken becomes free again.                            *)
SlotsReturn == \A f \in Frames : owner[f] # "free" ~> owner[f] = "free"

Spec == SafeSpec /\ SlotsReturn
=============================================================================
