------------------------------ MODULE Network ------------------------------
(***************************************************************************)
(* network_server.c and network_client.c: processes that start, run their  *)
(* main loop, leave it or are killed, and start again, on one machine and  *)
(* one port.                                                               *)
(*                                                                         *)
(* TCP and libuv are external: the kernel's listening sockets, backlogs    *)
(* and connections, and what the calls the code makes do to them.  Each    *)
(* call that another process can notice is a step of its own.              *)
(***************************************************************************)
EXTENDS Integers, Sequences

CONSTANTS
  Servers,         \* processes run with --server
  Clients,         \* processes run without
  Backlog,         \* connections the kernel keeps for a listening socket
  MaxDescriptors,  \* connections a process can hold
  Gone             \* stands for a connection whose client has ended

ASSUME BacklogAssumption == Backlog \in Nat \ {0}
ASSUME MaxDescriptorsAssumption == MaxDescriptors \in Nat
ASSUME GoneAssumption == Gone \notin Clients

VARIABLES
  server,          \* where each server process is
  listening,       \* the servers whose socket listens
  backlog,         \* connections of a server not yet accepted, oldest first
  held,            \* clients whose connection a server has accepted
  descriptors,     \* the descriptors a server holds for connections
  handles,         \* server->loop's handles, libuv's own left out
  client,          \* where each client process is
  callback,        \* a call of on_connect is due
  link,            \* the client's connection
  told             \* the status on_connect was given

serverVars == <<server, listening, backlog, held, descriptors, handles>>
clientVars == <<client, callback, link, told>>
vars == <<serverVars, clientVars>>

TypeOK ==
  /\ server \in [Servers -> {"down", "bound", "in_use", "loop", "closing"}]
  /\ listening \subseteq Servers
  /\ backlog \in [Servers -> Seq(Clients \cup {Gone})]
  /\ \A s \in Servers : Len(backlog[s]) <= Backlog
  /\ held \in [Servers -> SUBSET Clients]
  /\ descriptors \in [Servers -> 0 .. MaxDescriptors]
  /\ handles \in [Servers -> Seq({"socket", "client"})]
  /\ client \in [Clients -> {"down", "loop"}]
  /\ callback \in [Clients -> BOOLEAN]
  /\ link \in [Clients -> {"none", "sent", "up", "ended", "reset"}]
  /\ told \in [Clients -> {"nothing", "up", "failed"}]

Init ==
  /\ server = [s \in Servers |-> "down"]
  /\ listening = {}
  /\ backlog = [s \in Servers |-> <<>>]
  /\ held = [s \in Servers |-> {}]
  /\ descriptors = [s \in Servers |-> 0]
  /\ handles = [s \in Servers |-> <<>>]
  /\ client = [c \in Clients |-> "down"]
  /\ callback = [c \in Clients |-> FALSE]
  /\ link = [c \in Clients |-> "none"]
  /\ told = [c \in Clients |-> "nothing"]

Members(q) == {q[n] : n \in DOMAIN q} \ {Gone}

Waiting(s) == Members(backlog[s])

Linked(clients, state) == [c \in Clients |-> IF c \in clients THEN state ELSE link[c]]

---------------------------------------------------------------------------
(* The server process.                                                     *)

(* network_server_new up to uv_tcp_bind, whose answer is not looked at:    *)
(* libuv keeps an address in use for uv_listen to report.  With the        *)
(* SO_REUSEADDR it sets, only a socket that listens is in the way.         *)
ServerNew(s) ==
  /\ server[s] = "down"
  /\ server' = [server EXCEPT ![s] = IF listening = {} THEN "bound" ELSE "in_use"]
  /\ handles' = [handles EXCEPT ![s] = <<"socket">>]
  /\ UNCHANGED <<listening, backlog, held, descriptors, clientVars>>

(* uv_listen: 0 for the first of those that are bound.                     *)
CanListen(s) == server[s] = "bound" /\ listening = {}

(* Mutant: the answer of uv_listen is not looked at either.                *)
ServerListenIgnored(s) ==
  /\ server[s] \in {"bound", "in_use"}
  /\ server' = [server EXCEPT ![s] = "loop"]
  /\ listening' = IF CanListen(s) THEN listening \cup {s} ELSE listening
  /\ UNCHANGED <<handles, backlog, held, descriptors, clientVars>>

(* server_listen.  On an error network_server_new, create_cli_objects and  *)
(* main return, and the process ends.                                      *)
ServerListen(s) ==
  /\ server[s] \in {"bound", "in_use"}
  /\ \/ /\ CanListen(s)
        /\ server' = [server EXCEPT ![s] = "loop"]
        /\ listening' = listening \cup {s}
        /\ UNCHANGED handles
     \/ /\ ~CanListen(s)
        /\ server' = [server EXCEPT ![s] = "down"]
        /\ handles' = [handles EXCEPT ![s] = <<>>]
        /\ UNCHANGED listening
  /\ UNCHANGED <<backlog, held, descriptors, clientVars>>

(* Mutant: a status of 0 is taken for an error.                            *)
OnConnectionRefuses(s) ==
  /\ server[s] = "loop"
  /\ backlog[s] # <<>>
  /\ UNCHANGED vars

(* uv_run finds the socket readable, accepts a descriptor and calls        *)
(* on_connection with status 0, which puts a handle on its own stack into  *)
(* the loop's queue and moves the descriptor to it.  The next call finds   *)
(* that handle at the same place of the stack: it is in the queue once.    *)
(* Nothing ever closes the descriptor.                                     *)
OnConnection(s) ==
  /\ server[s] = "loop"
  /\ backlog[s] # <<>>
  /\ descriptors[s] < MaxDescriptors
  /\ backlog' = [backlog EXCEPT ![s] = Tail(@)]
  /\ held' = [held EXCEPT ![s] = @ \cup ({Head(backlog[s])} \ {Gone})]
  /\ descriptors' = [descriptors EXCEPT ![s] = @ + 1]
  /\ handles' = [handles EXCEPT ![s] = <<"socket", "client">>]
  /\ UNCHANGED <<server, listening, clientVars>>

(* Without a descriptor left libuv accepts and closes all that wait and    *)
(* does not call on_connection.                                            *)
ShedLoad(s) ==
  /\ server[s] = "loop"
  /\ backlog[s] # <<>>
  /\ descriptors[s] = MaxDescriptors
  /\ backlog' = [backlog EXCEPT ![s] = <<>>]
  /\ link' = Linked(Waiting(s), "ended")
  /\ UNCHANGED <<server, listening, held, descriptors, handles, client, callback, told>>

(* network_server_update: uv_run without waiting.                          *)
ServerUpdate(s) == OnConnection(s) \/ ShedLoad(s)

(* Mutant: the loop is run once more for uv_close to take effect.          *)
ServerCloseRun(s) ==
  /\ server[s] = "loop"
  /\ server' = [server EXCEPT ![s] = "closing"]
  /\ listening' = listening \ {s}
  /\ backlog' = [backlog EXCEPT ![s] = <<>>]
  /\ link' = Linked(Waiting(s), "reset")
  /\ handles' = [handles EXCEPT ![s] = Tail(@)]
  /\ UNCHANGED <<held, descriptors, client, callback, told>>

(* network_server_delete: uv_close closes the descriptor of the socket,    *)
(* and the kernel resets what waits; the handle stays in the queue, as     *)
(* closing, since the loop does not run any more.                          *)
ServerClose(s) ==
  /\ server[s] = "loop"
  /\ server' = [server EXCEPT ![s] = "closing"]
  /\ listening' = listening \ {s}
  /\ backlog' = [backlog EXCEPT ![s] = <<>>]
  /\ link' = Linked(Waiting(s), "reset")
  /\ UNCHANGED <<held, descriptors, handles, client, callback, told>>

(* uv_loop_close goes through the queue to the first handle that is not    *)
(* libuv's own, and gives up; the loop is freed.  The descriptors of the   *)
(* connections are closed when the process has cleaned up and ends.        *)
ServerExit(s) ==
  /\ server[s] = "closing"
  /\ server' = [server EXCEPT ![s] = "down"]
  /\ link' = Linked(held[s], "ended")
  /\ held' = [held EXCEPT ![s] = {}]
  /\ descriptors' = [descriptors EXCEPT ![s] = 0]
  /\ handles' = [handles EXCEPT ![s] = <<>>]
  /\ UNCHANGED <<listening, backlog, client, callback, told>>

(* A signal that is not caught, at any point: the kernel closes it all.    *)
ServerKill(s) ==
  /\ server[s] # "down"
  /\ server' = [server EXCEPT ![s] = "down"]
  /\ listening' = listening \ {s}
  /\ link' = [c \in Clients |-> IF c \in Waiting(s) THEN "reset"
                                ELSE IF c \in held[s] THEN "ended" ELSE link[c]]
  /\ backlog' = [backlog EXCEPT ![s] = <<>>]
  /\ held' = [held EXCEPT ![s] = {}]
  /\ descriptors' = [descriptors EXCEPT ![s] = 0]
  /\ handles' = [handles EXCEPT ![s] = <<>>]
  /\ UNCHANGED <<client, callback, told>>

---------------------------------------------------------------------------
(* The client process.                                                     *)

(* Mutant: client->connect is assigned after uv_tcp_connect.               *)
ClientConnectReset(c) ==
  /\ client[c] = "down"
  /\ client' = [client EXCEPT ![c] = "loop"]
  /\ link' = [link EXCEPT ![c] = "sent"]
  /\ UNCHANGED <<callback, told, serverVars>>

(* Mutant: a client whose connection failed connects again.                *)
ClientConnectAgain(c) ==
  /\ client[c] = "down" \/ told[c] = "failed"
  /\ client' = [client EXCEPT ![c] = "loop"]
  /\ link' = [link EXCEPT ![c] = "sent"]
  /\ callback' = [callback EXCEPT ![c] = TRUE]
  /\ told' = [told EXCEPT ![c] = "nothing"]
  /\ UNCHANGED serverVars

(* network_client_new and network_client_connect.  uv_tcp_connect may fail *)
(* at once; its answer is not looked at and on_connect will not be called. *)
ClientConnect(c) ==
  /\ client[c] = "down"
  /\ client' = [client EXCEPT ![c] = "loop"]
  /\ \/ /\ link' = [link EXCEPT ![c] = "sent"]
        /\ callback' = [callback EXCEPT ![c] = TRUE]
     \/ UNCHANGED <<link, callback>>
  /\ UNCHANGED <<told, serverVars>>

(* network_client_update: uv_run finds the connection established, or not, *)
(* and calls on_connect with the status, once.  A connection that ended in *)
(* good order meanwhile counts as established.                             *)
OnConnect(c) ==
  /\ client[c] = "loop"
  /\ callback[c]
  /\ link[c] # "sent"
  /\ told' = [told EXCEPT ![c] = IF link[c] = "reset" THEN "failed" ELSE "up"]
  /\ callback' = [callback EXCEPT ![c] = FALSE]
  /\ UNCHANGED <<client, link, serverVars>>

Abandoned(q, c) == [n \in DOMAIN q |-> IF q[n] = c THEN Gone ELSE q[n]]

(* network_client_delete and the end of the process, or its being killed:  *)
(* the descriptor is closed, and the loop does not run any more.  Servers  *)
(* do not notice.                                                          *)
ClientDelete(c) ==
  /\ client[c] = "loop"
  /\ client' = [client EXCEPT ![c] = "down"]
  /\ link' = [link EXCEPT ![c] = "none"]
  /\ callback' = [callback EXCEPT ![c] = FALSE]
  /\ told' = [told EXCEPT ![c] = "nothing"]
  /\ backlog' = [s \in Servers |-> Abandoned(backlog[s], c)]
  /\ held' = [s \in Servers |-> held[s] \ {c}]
  /\ UNCHANGED <<server, listening, descriptors, handles>>

---------------------------------------------------------------------------
(* The kernel answers a connection request: into the backlog of the socket *)
(* that listens, a refusal if there is none, and if the backlog stays full *)
(* a timeout.                                                              *)

Admit(c, s) ==
  /\ link[c] = "sent"
  /\ Len(backlog[s]) < Backlog
  /\ backlog' = [backlog EXCEPT ![s] = Append(@, c)]
  /\ link' = [link EXCEPT ![c] = "up"]
  /\ UNCHANGED <<server, listening, held, descriptors, handles, client, callback, told>>

Refuse(c) ==
  /\ link[c] = "sent"
  /\ \A s \in listening : Len(backlog[s]) = Backlog
  /\ link' = [link EXCEPT ![c] = "reset"]
  /\ UNCHANGED <<client, callback, told, serverVars>>

Answer(c) == Refuse(c) \/ \E s \in listening : Admit(c, s)

---------------------------------------------------------------------------
Next ==
  \/ \E s \in Servers :
       \/ ServerNew(s)
       \/ ServerListen(s)
       \/ ServerUpdate(s)
       \/ ServerClose(s)
       \/ ServerExit(s)
       \/ ServerKill(s)
  \/ \E c \in Clients :
       \/ ClientConnect(c)
       \/ OnConnect(c)
       \/ ClientDelete(c)
       \/ Answer(c)

Spec == Init /\ [][Next]_vars

(***************************************************************************)
(* A process that is running gets on with its creation, its turns of the   *)
(* main loop (which call update without waiting) and its cleanup, and the  *)
(* kernel answers a request in the end.  Nothing makes a process start,    *)
(* leave its loop or be killed.                                            *)
(***************************************************************************)
Fairness ==
  /\ \A s \in Servers : WF_vars(ServerListen(s)) /\ WF_vars(ServerUpdate(s))
                        /\ WF_vars(ServerExit(s))
  /\ \A c \in Clients : WF_vars(OnConnect(c)) /\ WF_vars(Answer(c))

FairSpec == Spec /\ Fairness

---------------------------------------------------------------------------
(* network_server.c gives up on the process when uv_listen fails and       *)
(* closes the socket before anything else: whatever the order in which     *)
(* servers bind, listen and end, the one that listens is the one that      *)
(* runs its loop, so that no connection waits for a server that does not   *)
(* update, and there is only one.                                          *)
ListensWhileRunning ==
  /\ listening = {s \in Servers : server[s] = "loop"}
  /\ \A s, t \in listening : s = t
  /\ \A s \in Servers : backlog[s] # <<>> => s \in listening

(* The strengthening that every step preserves and the promise below rests *)
(* on.  A connection is in one place: a client's established connection    *)
(* waits in the backlog of one server or is held by one, whatever restarts *)
(* or leaves; and who has been told, or has left, is not told again.  The  *)
(* socket is the first handle of a loop.                                   *)
Distinct(q) == \A m, n \in DOMAIN q : q[m] = q[n] => m = n \/ q[m] = Gone

Has(s, c) == c \in Waiting(s) \cup held[s]

EndsAgree ==
  /\ \A c \in Clients : link[c] = "up" <=> \E s \in Servers : Has(s, c)
  /\ \A s, t \in Servers : \A c \in held[s] : c \notin Waiting(t) /\ (c \in held[t] => s = t)
  /\ \A s \in Servers : Distinct(backlog[s])

ToldOnce ==
  \A c \in Clients :
    /\ link[c] = "sent" => callback[c]
    /\ callback[c] => link[c] # "none" /\ told[c] = "nothing"
    /\ client[c] = "down" => ~callback[c] /\ link[c] = "none" /\ told[c] = "nothing"

SocketFirst ==
  \A s \in Servers : server[s] # "down" => handles[s] # <<>> /\ handles[s][1] = "socket"

NetworkInv ==
  /\ TypeOK
  /\ ListensWhileRunning
  /\ EndsAgree
  /\ ToldOnce
  /\ SocketFirst

(* on_connection leaves the address of a dead stack frame in the loop's    *)
(* queue.  network_server_delete must not go through the queue that far:   *)
(* the first handle uv_loop_close meets is the socket, which is part of    *)
(* the server that has not been freed.                                     *)
WalksLiveHandles ==
  \A s \in Servers : server[s] = "closing" => handles[s] # <<>> /\ Head(handles[s]) = "socket"

(* A client whose connection is established, which it may have been told,  *)
(* is accepted by a server's on_connection, unless the connection ends.    *)
ConnectionsServed ==
  \A c \in Clients : link[c] = "up" ~> link[c] # "up" \/ \E s \in Servers : c \in held[s]

---------------------------------------------------------------------------
Request(c) ==
  IF told[c] # "nothing" THEN told[c]
  ELSE CASE link[c] \in {"up", "ended"} -> "admitted"
         [] link[c] = "sent"  -> "asked"
         [] link[c] = "reset" -> "denied"
         [] link[c] = "none"  -> "none"

Promise == INSTANCE Service
             WITH serving <- listening, request <- [c \in Clients |-> Request(c)]

(* The servers and clients of src/network/ keep the promise ...            *)
ServiceSafe == Promise!SafeSpec

(* ... and each client that asks is answered, however servers come and go. *)
RequestsAnswered == Promise!Answered
=============================================================================
