----------------------------- MODULE GpuVector -----------------------------
(***************************************************************************)
(* gpu_vector.c: a buffer the host writes and the device reads, grown by   *)
(* half until the data fits.  Growing destroys the buffer and its memory   *)
(* before others are created; the data is not copied, as every write       *)
(* starts from the first element.                                          *)
(*                                                                         *)
(* A vector is a record: size is vec->size, made counts the buffers        *)
(* created for it and so names the one vec->buffer holds, data is what the *)
(* memory holds, written says whether the last gpu_vector_write that had   *)
(* something to write returned 0, and state what the two handles name:     *)
(*   "ok"         a buffer and the memory bound to it;                     *)
(*   "unbound"    a buffer and memory that could not be bound to it;       *)
(*   "no_memory"  a buffer, and memory that has been freed;                *)
(*   "no_buffer"  neither a buffer nor memory: both have been destroyed;   *)
(*   "undefined"  a handle of what was destroyed has been used again, and  *)
(*                nothing can be said of what the program does next.       *)
(***************************************************************************)
EXTENDS Integers, Sequences

CONSTANTS
  InitialSize,     \* 1024 bytes in gpu_vector_new
  VectorResults    \* how a growth and a map may end, see Reserve and Write

States == {"ok", "unbound", "no_memory", "no_buffer", "undefined"}

ASSUME InitialSizeAssumption == InitialSize \in Nat \ {0, 1}
ASSUME VectorResultsAssumption ==
  VectorResults \subseteq {"ok", "unmapped", "unbound", "no_memory", "no_buffer"}

NewVector ==
  [size |-> InitialSize, made |-> 1, state |-> "ok", written |-> FALSE, data |-> <<>>]

IsVector(vec, S) ==
  /\ vec = [size    |-> vec.size,
            made    |-> vec.made,
            state   |-> vec.state,
            written |-> vec.written,
            data    |-> vec.data]
  /\ vec.made \in Nat /\ vec.state \in States /\ vec.written \in BOOLEAN /\ vec.data \in Seq(S)

(* A handle names something that has been destroyed.                       *)
Stale(vec) == vec.state \in {"no_memory", "no_buffer", "undefined"}

(* vec->size += vec->size >> 1, until the required size fits.              *)
GrownSize(size, required) ==
  LET grow[s \in Nat] == IF required > s THEN grow[s + s \div 2] ELSE s
  IN  grow[size]

Fits(vec, required) == required <= vec.size

(* gpu_vector_reserve.  Each of vkCreateBuffer, vkAllocateMemory and       *)
(* vkBindBufferMemory may fail; what was there before is destroyed first,  *)
(* and the new size stays.  vec->buffer and vec->memory are not reset when *)
(* what they name is destroyed, so that the growth after a failed one      *)
(* destroys it again.                                                      *)
Reserve(vec, required, result) ==
  IF Fits(vec, required)
  THEN vec
  ELSE [size    |-> GrownSize(vec.size, required),
        made    |-> IF result = "no_buffer" THEN vec.made ELSE vec.made + 1,
        state   |-> IF Stale(vec) THEN "undefined"
                    ELSE IF result = "unmapped" THEN "ok" ELSE result,
        written |-> FALSE,
        data    |-> <<>>]

Copied(vec, src) == [vec EXCEPT !.written = TRUE, !.data = src]

(* Mutant: the data is written without having made room for it.            *)
WriteUnreserved(vec, src, elementSize, result) ==
  IF elementSize * Len(src) > vec.size
  THEN [vec EXCEPT !.written = TRUE, !.data = SubSeq(src, 1, vec.size \div elementSize)]
  ELSE Copied(vec, src)

(* gpu_vector_write: what is behind the elements written is not modelled.  *)
(* It returns 1 without having copied anything when the growth or the map  *)
(* fails, and then the memory holds what it held; memory that does not     *)
(* exist any more is mapped all the same when the size that a failed       *)
(* growth has left suffices.                                               *)
Write(vec, src, elementSize, result) ==
  LET required == elementSize * Len(src)
      grown == Reserve(vec, required, result)
      growthFails == ~Fits(vec, required) /\ result \notin {"ok", "unmapped"}
  IN  IF Len(src) = 0 THEN vec
      ELSE IF growthFails THEN grown
      ELSE IF Stale(grown) THEN [grown EXCEPT !.state = "undefined", !.written = FALSE]
      ELSE IF result = "unmapped" THEN [grown EXCEPT !.written = FALSE]
      ELSE Copied(grown, src)

(* The device reads what the last write was given.                         *)
HoldsWrite(vec) == vec.state = "ok" /\ vec.written
=============================================================================
