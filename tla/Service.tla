------------------------------ MODULE Service ------------------------------
(***************************************************************************)
(* What client and server of src/network/ promise between them, with the   *)
(* sockets, queues and loops left out: at most one server serves the       *)
(* port, a request is admitted only while one does, and each request is    *)
(* answered at most once, with what became of it.                          *)
(***************************************************************************)
CONSTANTS Servers, Clients

VARIABLES
  serving,         \* the server that listens, if there is one
  request          \* what has become of the connection each client asked for

vars == <<serving, request>>

Answers == {"up", "failed"}

Init ==
  /\ serving = {}
  /\ request = [c \in Clients |-> "none"]

Serve(s) ==
  /\ serving = {}
  /\ serving' = {s}
  /\ UNCHANGED request

(* Clients that were admitted and not told yet may be turned down by it.   *)
Stop ==
  /\ serving # {}
  /\ serving' = {}
  /\ \E lost \in SUBSET {c \in Clients : request[c] = "admitted"} :
       request' = [c \in Clients |-> IF c \in lost THEN "denied" ELSE request[c]]

Step(c, from, to) ==
  /\ request[c] = from
  /\ request' = [request EXCEPT ![c] = to]
  /\ UNCHANGED serving

Ask(c) == Step(c, "none", "asked")

Admit(c) == serving # {} /\ Step(c, "asked", "admitted")

Deny(c) == Step(c, "asked", "denied")

Tell(c) == Step(c, "admitted", "up") \/ Step(c, "denied", "failed")

Leave(c) == \E from \in {"asked", "admitted", "denied"} \cup Answers : Step(c, from, "none")

Next ==
  \/ \E s \in Servers : Serve(s)
  \/ Stop
  \/ \E c \in Clients : Ask(c) \/ Admit(c) \/ Deny(c) \/ Tell(c) \/ Leave(c)

SafeSpec == Init /\ [][Next]_vars

(* Who asks is answered, unless it leaves.                                 *)
Answered ==
  \A c \in Clients : request[c] = "asked" ~> request[c] \in Answers \cup {"none"}
=============================================================================
