--------------------------- MODULE Network_proofs ---------------------------
(***************************************************************************)
(* Proofs about servers and clients, for any number of each, any backlog   *)
(* and any limit of descriptors, with every order of starts, ends, kills   *)
(* and answers of the kernel.                                              *)
(***************************************************************************)
EXTENDS Network, SequenceTheorems, TLAPS

LEMMA EmptyBacklog == Members(<<>>) = {} /\ Distinct(<<>>)
<1>1. DOMAIN << >> = {}
  OBVIOUS
<1> QED
  BY <1>1 DEF Members, Distinct

(* The backlog when a connection is accepted ...                           *)
LEMMA TailFacts ==
  ASSUME NEW S, NEW q \in Seq(S), q # <<>>, Distinct(q)
  PROVE  /\ Tail(q) \in Seq(S)
         /\ Len(Tail(q)) <= Len(q)
         /\ Distinct(Tail(q))
         /\ Members(Tail(q)) = Members(q) \ {Head(q)}
<1>1. /\ Tail(q) \in Seq(S)
      /\ Len(q) \in Nat \ {0}
      /\ Len(Tail(q)) = Len(q) - 1
      /\ \A n \in 1 .. Len(q) - 1 : Tail(q)[n] = q[n + 1]
      /\ Head(q) = q[1]
  BY EmptySeq, HeadTailProperties, LenProperties
<1>2. DOMAIN q = 1 .. Len(q) /\ DOMAIN Tail(q) = 1 .. Len(q) - 1
  BY <1>1, LenProperties
<1>3. Distinct(Tail(q))
  <2> SUFFICES ASSUME NEW m \in 1 .. Len(q) - 1, NEW n \in 1 .. Len(q) - 1,
                      Tail(q)[m] = Tail(q)[n], m # n
               PROVE  Tail(q)[m] = Gone
    BY <1>2 DEF Distinct
  <2>1. m + 1 \in 1 .. Len(q) /\ n + 1 \in 1 .. Len(q) /\ m + 1 # n + 1
    BY <1>1
  <2> QED
    BY <1>1, <1>2, <2>1 DEF Distinct
<1>4. Members(Tail(q)) = Members(q) \ {Head(q)}
  <2>1. ASSUME NEW x \in Members(Tail(q)) PROVE x \in Members(q) \ {Head(q)}
    <3>1. PICK n \in 1 .. Len(q) - 1 : x = Tail(q)[n]
      BY <1>2, <2>1 DEF Members
    <3>2. n + 1 \in 1 .. Len(q) /\ 1 \in 1 .. Len(q) /\ n + 1 # 1 /\ x = q[n + 1]
      BY <1>1, <3>1
    <3> QED
      BY <1>1, <1>2, <2>1, <3>2 DEF Members, Distinct
  <2>2. ASSUME NEW x \in Members(q) \ {Head(q)} PROVE x \in Members(Tail(q))
    <3>1. PICK n \in 1 .. Len(q) : x = q[n]
      BY <1>2, <2>2 DEF Members
    <3>2. n - 1 \in 1 .. Len(q) - 1 /\ x = Tail(q)[n - 1]
      BY <1>1, <2>2, <3>1
    <3> QED
      BY <1>2, <2>2, <3>2 DEF Members
  <2> QED
    BY <2>1, <2>2
<1> QED
  BY <1>1, <1>3, <1>4

(* ... when one is admitted ...                                            *)
LEMMA AppendFacts ==
  ASSUME NEW S, NEW q \in Seq(S), NEW c \in S, c # Gone, Distinct(q), c \notin Members(q)
  PROVE  /\ Append(q, c) \in Seq(S)
         /\ Len(Append(q, c)) = Len(q) + 1
         /\ Distinct(Append(q, c))
         /\ Members(Append(q, c)) = Members(q) \cup {c}
<1>1. /\ Append(q, c) \in Seq(S)
      /\ Len(Append(q, c)) = Len(q) + 1
      /\ Len(q) \in Nat
      /\ DOMAIN q = 1 .. Len(q)
      /\ DOMAIN Append(q, c) = 1 .. Len(q) + 1
      /\ \A n \in 1 .. Len(q) : Append(q, c)[n] = q[n]
      /\ Append(q, c)[Len(q) + 1] = c
  BY AppendProperties, LenProperties
<1>2. \A n \in 1 .. Len(q) + 1 : n \in 1 .. Len(q) \/ n = Len(q) + 1
  BY <1>1
<1>3. \A n \in 1 .. Len(q) : q[n] # c
  BY <1>1 DEF Members
<1>4. Distinct(Append(q, c))
  BY <1>1, <1>2, <1>3 DEF Distinct
<1>5. Members(Append(q, c)) = Members(q) \cup {c}
  <2>1. ASSUME NEW x \in Members(Append(q, c)) PROVE x \in Members(q) \cup {c}
    BY <1>1, <1>2, <2>1 DEF Members
  <2>2. ASSUME NEW x \in Members(q) \cup {c} PROVE x \in Members(Append(q, c))
    <3>1. CASE x = c
      <4>1. Len(q) + 1 \in 1 .. Len(q) + 1
        BY <1>1
      <4> QED
        BY <1>1, <3>1, <4>1 DEF Members
    <3>2. CASE x \in Members(q)
      <4>1. PICK n \in 1 .. Len(q) : x = q[n]
        BY <1>1, <3>2 DEF Members
      <4>2. n \in 1 .. Len(q) + 1
        BY <1>1
      <4> QED
        BY <1>1, <3>2, <4>1, <4>2 DEF Members
    <3> QED
      BY <2>2, <3>1, <3>2
  <2> QED
    BY <2>1, <2>2
<1> QED
  BY <1>1, <1>4, <1>5

(* ... and when a client that waits leaves.                                *)
LEMMA LeaveFacts ==
  ASSUME NEW S, NEW q \in Seq(S), NEW c, c # Gone, Gone \in S, Distinct(q)
  PROVE  /\ Abandoned(q, c) \in Seq(S)
         /\ Len(Abandoned(q, c)) = Len(q)
         /\ Distinct(Abandoned(q, c))
         /\ Members(Abandoned(q, c)) = Members(q) \ {c}
<1> DEFINE r == Abandoned(q, c)
<1>0. r = [n \in DOMAIN q |-> IF q[n] = c THEN Gone ELSE q[n]]
  BY DEF Abandoned
<1> HIDE DEF r
<1>1. DOMAIN q = 1 .. Len(q) /\ Len(q) \in Nat /\ \A n \in 1 .. Len(q) : q[n] \in S
  BY LenProperties, ElementOfSeq
<1>2. r \in [1 .. Len(q) -> S]
  BY <1>0, <1>1
<1>3. r \in Seq(S) /\ Len(r) = Len(q)
  BY <1>1, <1>2
<1>4. Distinct(r) /\ Members(r) = Members(q) \ {c}
  BY <1>0, <1>1, <1>2 DEF Distinct, Members
<1> QED
  BY <1>3, <1>4 DEF r

---------------------------------------------------------------------------
(* The invariant, action by action.                                        *)

LEMMA InvInit == Init => NetworkInv
<1> SUFFICES ASSUME Init PROVE NetworkInv
  OBVIOUS
<1> USE DEF Init
<1>1. TypeOK
  BY BacklogAssumption, MaxDescriptorsAssumption DEF TypeOK
<1>2. \A s \in Servers : Waiting(s) = {} /\ Distinct(backlog[s])
  <2>1. \A s \in Servers : backlog[s] = <<>>
    OBVIOUS
  <2> QED
    BY <2>1, EmptyBacklog DEF Waiting
<1>3. EndsAgree
  BY <1>2 DEF EndsAgree, Has
<1> QED
  BY <1>1, <1>3 DEF NetworkInv, ListensWhileRunning, ToldOnce, SocketFirst

(* Whose connection waits for one server waits for no other.               *)
LEMMA WaitingFacts ==
  ASSUME NetworkInv
  PROVE  /\ \A s \in Servers : Waiting(s) \subseteq Clients
         /\ \A s, t \in Servers : s # t => Waiting(s) \cap Waiting(t) = {}
         /\ \A s \in Servers : server[s] # "loop" => backlog[s] = <<>> /\ Waiting(s) = {}
<1>1. ASSUME NEW s \in Servers PROVE Waiting(s) \subseteq Clients
  <2>1. backlog[s] \in Seq(Clients \cup {Gone})
    BY DEF NetworkInv, TypeOK
  <2> QED
    BY <2>1, LenProperties, ElementOfSeq DEF Waiting, Members
<1>2. ASSUME NEW s \in Servers, server[s] # "loop" PROVE backlog[s] = <<>> /\ Waiting(s) = {}
  <2>1. backlog[s] = <<>>
    BY <1>2 DEF NetworkInv, ListensWhileRunning
  <2> QED
    BY <2>1, EmptyBacklog DEF Waiting
<1>3. \A s, t \in Servers : s # t => server[s] # "loop" \/ server[t] # "loop"
  BY DEF NetworkInv, ListensWhileRunning
<1> QED
  BY <1>1, <1>2, <1>3

(* A step that ends connections, at both ends.                             *)
LEMMA EndsDropped ==
  ASSUME NetworkInv, NEW lost,
         \A c \in Clients : link'[c] = "up" <=> link[c] = "up" /\ c \notin lost,
         \A s \in Servers : /\ Waiting(s)' = Waiting(s) \ lost
                            /\ held'[s] = held[s] \ lost
                            /\ Distinct(backlog[s])'
  PROVE  EndsAgree'
<1>1. \A s \in Servers, c \in Clients : Has(s, c)' <=> Has(s, c) /\ c \notin lost
  BY DEF Has
<1>2. \A c \in Clients : link'[c] = "up" <=> \E s \in Servers : Has(s, c)'
  BY <1>1 DEF NetworkInv, EndsAgree
<1>3. \A s, t \in Servers : \A c \in held'[s] :
         c \notin Waiting(t)' /\ (c \in held'[t] => s = t)
  BY DEF NetworkInv, EndsAgree
<1> QED
  BY <1>2, <1>3 DEF EndsAgree

(* The steps of a server process that leave every connection as it is.     *)
LEMMA InvServerNew ==
  ASSUME NetworkInv, NEW s \in Servers, ServerNew(s)
  PROVE  NetworkInv'
<1> USE DEF NetworkInv, ServerNew, clientVars
<1>1. TypeOK'
  BY DEF TypeOK
<1>2. ListensWhileRunning'
  BY DEF TypeOK, ListensWhileRunning
<1>3. EndsAgree' /\ ToldOnce'
  BY DEF EndsAgree, Has, Waiting, ToldOnce
<1>4. SocketFirst'
  BY DEF TypeOK, SocketFirst
<1> QED
  BY <1>1, <1>2, <1>3, <1>4

LEMMA InvServerListen ==
  ASSUME NetworkInv, NEW s \in Servers, ServerListen(s)
  PROVE  NetworkInv'
<1> USE DEF NetworkInv, ServerListen, CanListen, clientVars
<1>1. TypeOK' /\ ListensWhileRunning'
  <2>1. CASE CanListen(s)
    <3>1. /\ server' = [server EXCEPT ![s] = "loop"]
          /\ listening' = {s} /\ listening = {}
          /\ UNCHANGED <<handles, backlog, held, descriptors, client, callback, link, told>>
      BY <2>1
    <3> QED
      BY <3>1 DEF TypeOK, ListensWhileRunning
  <2>2. CASE ~CanListen(s)
    <3>1. /\ server' = [server EXCEPT ![s] = "down"]
          /\ handles' = [handles EXCEPT ![s] = <<>>]
          /\ server[s] # "loop"
          /\ UNCHANGED <<listening, backlog, held, descriptors, client, callback, link, told>>
      BY <2>2
    <3>2. server' \in [Servers -> {"down", "bound", "in_use", "loop", "closing"}]
      BY <3>1 DEF TypeOK
    <3>3. handles' \in [Servers -> Seq({"socket", "client"})]
      BY <3>1 DEF TypeOK
    <3>4. listening = {t \in Servers : server'[t] = "loop"}
      BY <3>1 DEF TypeOK, ListensWhileRunning
    <3> QED
      BY <3>1, <3>2, <3>3, <3>4 DEF TypeOK, ListensWhileRunning
  <2> QED
    BY <2>1, <2>2
<1>3. EndsAgree' /\ ToldOnce'
  BY DEF EndsAgree, Has, Waiting, ToldOnce
<1>4. SocketFirst'
  BY DEF TypeOK, SocketFirst
<1> QED
  BY <1>1, <1>3, <1>4

LEMMA InvOnConnection ==
  ASSUME NetworkInv, NEW s \in Servers, OnConnection(s)
  PROVE  NetworkInv'
<1> USE DEF NetworkInv
<1> DEFINE q == backlog[s]
<1>1. /\ q \in Seq(Clients \cup {Gone})
      /\ q # <<>>
      /\ Distinct(q)
      /\ server[s] = "loop"
      /\ descriptors[s] \in 0 .. MaxDescriptors /\ descriptors[s] < MaxDescriptors
  BY DEF OnConnection, TypeOK, EndsAgree
<1>2. /\ Tail(q) \in Seq(Clients \cup {Gone})
      /\ Len(Tail(q)) <= Len(q)
      /\ Distinct(Tail(q))
      /\ Members(Tail(q)) = Members(q) \ {Head(q)}
  BY <1>1, TailFacts
<1>3. Len(q) \in Nat /\ Len(Tail(q)) \in Nat /\ Len(q) <= Backlog
  BY <1>1, <1>2, LenProperties DEF TypeOK
<1>4. Head(q) \in Clients \cup {Gone} /\ {Head(q)} \ {Gone} \subseteq Waiting(s)
  <2>1. 1 \in DOMAIN q /\ Head(q) = q[1] /\ q[1] \in Clients \cup {Gone}
    BY <1>1, EmptySeq, HeadTailProperties, LenProperties, ElementOfSeq
  <2> QED
    BY <2>1 DEF Waiting, Members
<1>5. /\ backlog' = [backlog EXCEPT ![s] = Tail(q)]
      /\ held' = [held EXCEPT ![s] = @ \cup ({Head(q)} \ {Gone})]
      /\ descriptors' = [descriptors EXCEPT ![s] = @ + 1]
      /\ handles' = [handles EXCEPT ![s] = <<"socket", "client">>]
      /\ UNCHANGED <<server, listening, client, callback, link, told>>
  BY DEF OnConnection, clientVars
<1>6. \A t \in Servers : backlog'[t] = IF t = s THEN Tail(q) ELSE backlog[t]
  BY <1>5 DEF TypeOK
<1>7. \A t \in Servers : held'[t] = IF t = s THEN held[t] \cup ({Head(q)} \ {Gone}) ELSE held[t]
  BY <1>5 DEF TypeOK
<1>8. \A t \in Servers : Waiting(t)' = IF t = s THEN Waiting(t) \ {Head(q)} ELSE Waiting(t)
  BY <1>2, <1>6 DEF Waiting
<1> HIDE DEF q
<1>9. TypeOK'
  <2>1. backlog' \in [Servers -> Seq(Clients \cup {Gone})]
    BY <1>2, <1>5 DEF TypeOK
  <2>2. \A t \in Servers : Len(backlog'[t]) <= Backlog
    <3>1. \A t \in Servers : Len(backlog[t]) <= Backlog
      BY DEF TypeOK
    <3>2. Len(Tail(q)) <= Backlog
      BY <1>2, <1>3, BacklogAssumption
    <3> QED
      BY <1>6, <3>1, <3>2
  <2>3. held' \in [Servers -> SUBSET Clients]
    BY <1>4, <1>5 DEF TypeOK
  <2>4. descriptors' \in [Servers -> 0 .. MaxDescriptors]
    BY <1>1, <1>5, MaxDescriptorsAssumption DEF TypeOK
  <2>5. handles' \in [Servers -> Seq({"socket", "client"})]
    BY <1>5 DEF TypeOK
  <2> QED
    BY <1>5, <2>1, <2>2, <2>3, <2>4, <2>5 DEF TypeOK
<1>10. ListensWhileRunning'
  BY <1>1, <1>5, <1>6 DEF ListensWhileRunning
<1>11. EndsAgree'
  <2>1. \A t \in Servers, c \in Clients : Has(t, c)' <=> Has(t, c)
    BY <1>4, <1>7, <1>8, GoneAssumption DEF Has
  <2>2. \A t \in Servers : Distinct(backlog'[t])
    BY <1>2, <1>6 DEF EndsAgree
  <2>3. \A t \in Servers : t # s => Head(q) \notin Waiting(t) \/ Head(q) = Gone
    BY <1>1 DEF ListensWhileRunning, Waiting, Members
  <2>4. \A t, u \in Servers : \A c \in held'[t] :
           c \notin Waiting(u)' /\ (c \in held'[u] => t = u)
    <3> SUFFICES ASSUME NEW t \in Servers, NEW u \in Servers, NEW c \in held'[t]
                 PROVE  c \notin Waiting(u)' /\ (c \in held'[u] => t = u)
      OBVIOUS
    <3>1. CASE c \in held[t]
      <4>1. c \notin Waiting(u) /\ c \notin Waiting(s) /\ (c \in held[u] => t = u)
        BY <3>1 DEF EndsAgree
      <4>2. Waiting(u)' \subseteq Waiting(u) /\ held'[u] \subseteq held[u] \cup Waiting(s)
        BY <1>4, <1>7, <1>8
      <4> QED
        BY <4>1, <4>2
    <3>2. CASE c \notin held[t]
      <4>1. t = s /\ c = Head(q) /\ c # Gone /\ c \in Waiting(s)
        BY <1>4, <1>7, <3>2
      <4> QED
        BY <1>7, <1>8, <2>3, <4>1 DEF EndsAgree
    <3> QED
      BY <3>1, <3>2
  <2> QED
    BY <1>5, <2>1, <2>2, <2>4 DEF EndsAgree
<1>12. ToldOnce'
  BY <1>5 DEF ToldOnce
<1>13. SocketFirst'
  BY <1>5 DEF TypeOK, SocketFirst
<1> QED
  BY <1>9, <1>10, <1>11, <1>12, <1>13

LEMMA InvShedLoad ==
  ASSUME NetworkInv, NEW s \in Servers, ShedLoad(s)
  PROVE  NetworkInv'
<1> USE DEF NetworkInv
<1>1. /\ backlog' = [backlog EXCEPT ![s] = <<>>]
      /\ link' = [c \in Clients |-> IF c \in Waiting(s) THEN "ended" ELSE link[c]]
      /\ server[s] = "loop"
      /\ UNCHANGED <<server, listening, held, descriptors, handles, client, callback, told>>
  BY DEF ShedLoad, Linked
<1>2. /\ \A t \in Servers : backlog'[t] = IF t = s THEN <<>> ELSE backlog[t]
  BY <1>1 DEF TypeOK
<1>3. TypeOK'
  BY <1>1, <1>2, BacklogAssumption DEF TypeOK
<1>4. ListensWhileRunning'
  BY <1>1, <1>2 DEF ListensWhileRunning
<1>5. EndsAgree'
  <2>1. \A c \in Clients : link'[c] = "up" <=> link[c] = "up" /\ c \notin Waiting(s)
    BY <1>1
  <2>2. ASSUME NEW t \in Servers
        PROVE  /\ Waiting(t)' = Waiting(t) \ Waiting(s)
               /\ held'[t] = held[t] \ Waiting(s)
               /\ Distinct(backlog[t])'
    <3>1. Waiting(t)' = IF t = s THEN {} ELSE Waiting(t)
      BY <1>2, EmptyBacklog DEF Waiting
    <3>2. Waiting(t)' = Waiting(t) \ Waiting(s)
      BY <3>1, WaitingFacts
    <3>3. held'[t] = held[t] \ Waiting(s)
      BY <1>1 DEF EndsAgree
    <3>4. Distinct(backlog[t])'
      BY <1>2, EmptyBacklog DEF EndsAgree
    <3> QED
      BY <3>2, <3>3, <3>4
  <2> QED
    BY <2>1, <2>2, EndsDropped
<1>6. ToldOnce'
  <2>1. \A c \in Waiting(s) : c \in Clients => link[c] = "up"
    BY DEF EndsAgree, Has
  <2> QED
    BY <1>1, <2>1 DEF ToldOnce
<1>7. SocketFirst'
  BY <1>1 DEF SocketFirst
<1> QED
  BY <1>3, <1>4, <1>5, <1>6, <1>7

LEMMA InvServerClose ==
  ASSUME NetworkInv, NEW s \in Servers, ServerClose(s)
  PROVE  NetworkInv'
<1> USE DEF NetworkInv
<1>1. /\ backlog' = [backlog EXCEPT ![s] = <<>>]
      /\ link' = [c \in Clients |-> IF c \in Waiting(s) THEN "reset" ELSE link[c]]
      /\ server[s] = "loop"
      /\ server' = [server EXCEPT ![s] = "closing"]
      /\ listening' = listening \ {s}
      /\ UNCHANGED <<held, descriptors, handles, client, callback, told>>
  BY DEF ServerClose, Linked
<1>2. /\ \A t \in Servers : backlog'[t] = IF t = s THEN <<>> ELSE backlog[t]
      /\ \A t \in Servers : server'[t] = IF t = s THEN "closing" ELSE server[t]
  BY <1>1 DEF TypeOK
<1>3. TypeOK'
  BY <1>1, <1>2, BacklogAssumption DEF TypeOK
<1>4. ListensWhileRunning'
  BY <1>1, <1>2 DEF ListensWhileRunning
<1>5. EndsAgree'
  <2>1. \A c \in Clients : link'[c] = "up" <=> link[c] = "up" /\ c \notin Waiting(s)
    BY <1>1
  <2>2. ASSUME NEW t \in Servers
        PROVE  /\ Waiting(t)' = Waiting(t) \ Waiting(s)
               /\ held'[t] = held[t] \ Waiting(s)
               /\ Distinct(backlog[t])'
    <3>1. Waiting(t)' = IF t = s THEN {} ELSE Waiting(t)
      BY <1>2, EmptyBacklog DEF Waiting
    <3>2. Waiting(t)' = Waiting(t) \ Waiting(s)
      BY <3>1, WaitingFacts
    <3>3. held'[t] = held[t] \ Waiting(s)
      BY <1>1 DEF EndsAgree
    <3>4. Distinct(backlog[t])'
      BY <1>2, EmptyBacklog DEF EndsAgree
    <3> QED
      BY <3>2, <3>3, <3>4
  <2> QED
    BY <2>1, <2>2, EndsDropped
<1>6. ToldOnce'
  <2>1. \A c \in Waiting(s) : c \in Clients => link[c] = "up"
    BY DEF EndsAgree, Has
  <2> QED
    BY <1>1, <2>1 DEF ToldOnce
<1>7. SocketFirst'
  BY <1>1, <1>2 DEF SocketFirst
<1> QED
  BY <1>3, <1>4, <1>5, <1>6, <1>7

LEMMA InvServerExit ==
  ASSUME NetworkInv, NEW s \in Servers, ServerExit(s)
  PROVE  NetworkInv'
<1> USE DEF NetworkInv
<1>1. /\ link' = [c \in Clients |-> IF c \in held[s] THEN "ended" ELSE link[c]]
      /\ server[s] = "closing"
      /\ server' = [server EXCEPT ![s] = "down"]
      /\ held' = [held EXCEPT ![s] = {}]
      /\ descriptors' = [descriptors EXCEPT ![s] = 0]
      /\ handles' = [handles EXCEPT ![s] = <<>>]
      /\ UNCHANGED <<listening, backlog, client, callback, told>>
  BY DEF ServerExit, Linked
<1>2. /\ \A t \in Servers : held'[t] = IF t = s THEN {} ELSE held[t]
      /\ \A t \in Servers : server'[t] = IF t = s THEN "down" ELSE server[t]
  BY <1>1 DEF TypeOK
<1>3. TypeOK'
  BY <1>1, MaxDescriptorsAssumption DEF TypeOK
<1>4. ListensWhileRunning'
  BY <1>1, <1>2 DEF ListensWhileRunning
<1>5. EndsAgree'
  <2>1. \A c \in Clients : link'[c] = "up" <=> link[c] = "up" /\ c \notin held[s]
    BY <1>1
  <2>2. ASSUME NEW t \in Servers
        PROVE  /\ Waiting(t)' = Waiting(t) \ held[s]
               /\ held'[t] = held[t] \ held[s]
               /\ Distinct(backlog[t])'
    <3>1. Waiting(t)' = Waiting(t) /\ Waiting(t) = Waiting(t) \ held[s]
      BY <1>1 DEF EndsAgree, Waiting
    <3>2. held'[t] = held[t] \ held[s]
      BY <1>2 DEF EndsAgree
    <3> QED
      BY <1>1, <3>1, <3>2 DEF EndsAgree
  <2> QED
    BY <2>1, <2>2, EndsDropped
<1>6. ToldOnce'
  <2>1. \A c \in held[s] : c \in Clients => link[c] = "up"
    BY DEF EndsAgree, Has
  <2> QED
    BY <1>1, <2>1 DEF ToldOnce
<1>7. SocketFirst'
  BY <1>1, <1>2 DEF TypeOK, SocketFirst
<1> QED
  BY <1>3, <1>4, <1>5, <1>6, <1>7

LEMMA InvServerKill ==
  ASSUME NetworkInv, NEW s \in Servers, ServerKill(s)
  PROVE  NetworkInv'
<1> USE DEF NetworkInv
<1> DEFINE lost == Waiting(s) \cup held[s]
<1>1. /\ link' = [c \in Clients |-> IF c \in Waiting(s) THEN "reset"
                                   ELSE IF c \in held[s] THEN "ended" ELSE link[c]]
      /\ server' = [server EXCEPT ![s] = "down"]
      /\ listening' = listening \ {s}
      /\ backlog' = [backlog EXCEPT ![s] = <<>>]
      /\ held' = [held EXCEPT ![s] = {}]
      /\ descriptors' = [descriptors EXCEPT ![s] = 0]
      /\ handles' = [handles EXCEPT ![s] = <<>>]
      /\ UNCHANGED <<client, callback, told>>
  BY DEF ServerKill
<1>2. /\ \A t \in Servers : backlog'[t] = IF t = s THEN <<>> ELSE backlog[t]
      /\ \A t \in Servers : held'[t] = IF t = s THEN {} ELSE held[t]
      /\ \A t \in Servers : server'[t] = IF t = s THEN "down" ELSE server[t]
  BY <1>1 DEF TypeOK
<1>3. TypeOK'
  <2>1. /\ link' \in [Clients -> {"none", "sent", "up", "ended", "reset"}]
        /\ server' \in [Servers -> {"down", "bound", "in_use", "loop", "closing"}]
        /\ listening' \subseteq Servers
        /\ held' \in [Servers -> SUBSET Clients]
    BY <1>1 DEF TypeOK
  <2>2. /\ backlog' \in [Servers -> Seq(Clients \cup {Gone})]
        /\ handles' \in [Servers -> Seq({"socket", "client"})]
        /\ descriptors' \in [Servers -> 0 .. MaxDescriptors]
    BY <1>1, MaxDescriptorsAssumption DEF TypeOK
  <2>3. \A t \in Servers : Len(backlog'[t]) <= Backlog
    BY <1>2, BacklogAssumption DEF TypeOK
  <2> QED
    BY <1>1, <2>1, <2>2, <2>3 DEF TypeOK
<1>4. ListensWhileRunning'
  BY <1>1, <1>2 DEF ListensWhileRunning
<1>5. EndsAgree'
  <2>1. \A c \in Clients : link'[c] = "up" <=> link[c] = "up" /\ c \notin lost
    BY <1>1
  <2>2. ASSUME NEW t \in Servers
        PROVE  /\ Waiting(t)' = Waiting(t) \ lost
               /\ held'[t] = held[t] \ lost
               /\ Distinct(backlog[t])'
    <3>1. Waiting(t)' = IF t = s THEN {} ELSE Waiting(t)
      BY <1>2, EmptyBacklog DEF Waiting
    <3>2. Waiting(t) \cap held[s] = {} /\ held[t] \cap Waiting(s) = {}
      BY DEF EndsAgree
    <3>3. t # s => Waiting(t) \cap Waiting(s) = {} /\ held[t] \cap held[s] = {}
      BY WaitingFacts DEF EndsAgree
    <3>4. Waiting(t)' = Waiting(t) \ lost
      BY <3>1, <3>2, <3>3
    <3>5. held'[t] = held[t] \ lost
      BY <1>2, <3>2, <3>3
    <3>6. Distinct(backlog[t])'
      BY <1>2, EmptyBacklog DEF EndsAgree
    <3> QED
      BY <3>4, <3>5, <3>6
  <2> HIDE DEF lost
  <2> QED
    BY <2>1, <2>2, EndsDropped
<1>6. ToldOnce'
  <2>1. \A c \in lost : c \in Clients => link[c] = "up"
    BY DEF EndsAgree, Has
  <2> QED
    BY <1>1, <2>1 DEF ToldOnce
<1>7. SocketFirst'
  BY <1>1, <1>2 DEF TypeOK, SocketFirst
<1> QED
  BY <1>3, <1>4, <1>5, <1>6, <1>7

LEMMA InvClientConnect ==
  ASSUME NetworkInv, NEW c \in Clients, ClientConnect(c)
  PROVE  NetworkInv'
<1> USE DEF NetworkInv
<1>1. /\ client[c] = "down"
      /\ client' = [client EXCEPT ![c] = "loop"]
      /\ \/ link' = [link EXCEPT ![c] = "sent"] /\ callback' = [callback EXCEPT ![c] = TRUE]
         \/ UNCHANGED <<link, callback>>
      /\ UNCHANGED <<told, server, listening, backlog, held, descriptors, handles>>
  BY DEF ClientConnect, serverVars
<1>2. link[c] = "none" /\ ~callback[c] /\ told[c] = "nothing"
  BY <1>1 DEF ToldOnce
<1>3. TypeOK'
  BY <1>1 DEF TypeOK
<1>4. ListensWhileRunning' /\ SocketFirst'
  BY <1>1 DEF ListensWhileRunning, SocketFirst
<1>5. EndsAgree'
  <2>1. \A d \in Clients : link'[d] = "up" <=> link[d] = "up"
    BY <1>1, <1>2 DEF TypeOK
  <2> QED
    BY <1>1, <2>1 DEF EndsAgree, Has, Waiting
<1>6. ToldOnce'
  BY <1>1, <1>2 DEF TypeOK, ToldOnce
<1> QED
  BY <1>3, <1>4, <1>5, <1>6

LEMMA InvOnConnect ==
  ASSUME NetworkInv, NEW c \in Clients, OnConnect(c)
  PROVE  NetworkInv'
<1> USE DEF NetworkInv
<1>1. /\ callback[c] /\ client[c] = "loop" /\ link[c] # "sent"
      /\ told' = [told EXCEPT ![c] = IF link[c] = "reset" THEN "failed" ELSE "up"]
      /\ callback' = [callback EXCEPT ![c] = FALSE]
      /\ UNCHANGED <<client, link, server, listening, backlog, held, descriptors, handles>>
  BY DEF OnConnect, serverVars
<1>2. TypeOK'
  BY <1>1 DEF TypeOK
<1>3. ListensWhileRunning' /\ SocketFirst'
  BY <1>1 DEF ListensWhileRunning, SocketFirst
<1>4. EndsAgree'
  BY <1>1 DEF EndsAgree, Has, Waiting
<1>5. ToldOnce'
  BY <1>1 DEF TypeOK, ToldOnce
<1> QED
  BY <1>2, <1>3, <1>4, <1>5

LEMMA InvClientDelete ==
  ASSUME NetworkInv, NEW c \in Clients, ClientDelete(c)
  PROVE  NetworkInv'
<1> USE DEF NetworkInv
<1>1. /\ client' = [client EXCEPT ![c] = "down"]
      /\ link' = [link EXCEPT ![c] = "none"]
      /\ callback' = [callback EXCEPT ![c] = FALSE]
      /\ told' = [told EXCEPT ![c] = "nothing"]
      /\ backlog' = [s \in Servers |-> Abandoned(backlog[s], c)]
      /\ held' = [s \in Servers |-> held[s] \ {c}]
      /\ UNCHANGED <<server, listening, descriptors, handles>>
  BY DEF ClientDelete
<1>2. ASSUME NEW s \in Servers
      PROVE  /\ backlog'[s] \in Seq(Clients \cup {Gone})
             /\ Len(backlog'[s]) = Len(backlog[s])
             /\ Distinct(backlog'[s])
             /\ Members(backlog'[s]) = Members(backlog[s]) \ {c}
  <2>1. backlog[s] \in Seq(Clients \cup {Gone}) /\ Distinct(backlog[s]) /\ c # Gone
    BY GoneAssumption DEF TypeOK, EndsAgree
  <2>2. backlog'[s] = Abandoned(backlog[s], c)
    BY <1>1
  <2> QED
    BY <2>1, <2>2, LeaveFacts
<1>3. TypeOK'
  <2>1. backlog' \in [Servers -> Seq(Clients \cup {Gone})]
    <3>1. backlog' = [s \in Servers |-> backlog'[s]]
      BY <1>1
    <3> QED
      BY <1>2, <3>1
  <2>2. \A s \in Servers : Len(backlog'[s]) <= Backlog
    BY <1>2 DEF TypeOK
  <2> QED
    BY <1>1, <2>1, <2>2 DEF TypeOK
<1>4. ListensWhileRunning' /\ SocketFirst'
  <2>1. \A s \in Servers : backlog'[s] # <<>> => backlog[s] # <<>>
    <3> SUFFICES ASSUME NEW s \in Servers, backlog[s] = <<>> PROVE backlog'[s] = <<>>
      OBVIOUS
    <3>1. Len(backlog'[s]) = 0
      BY <1>2
    <3> QED
      BY <1>2, <3>1, EmptySeq
  <2> QED
    BY <1>1, <2>1 DEF ListensWhileRunning, SocketFirst
<1>5. EndsAgree'
  <2>1. \A d \in Clients : link'[d] = "up" <=> link[d] = "up" /\ d \notin {c}
    BY <1>1 DEF TypeOK
  <2>2. \A s \in Servers : /\ Waiting(s)' = Waiting(s) \ {c}
                          /\ held'[s] = held[s] \ {c}
                          /\ Distinct(backlog[s])'
    BY <1>1, <1>2 DEF Waiting
  <2> QED
    BY <2>1, <2>2, EndsDropped
<1>6. ToldOnce'
  BY <1>1 DEF TypeOK, ToldOnce
<1> QED
  BY <1>3, <1>4, <1>5, <1>6

LEMMA InvAdmit ==
  ASSUME NetworkInv, NEW c \in Clients, NEW s \in listening, Admit(c, s)
  PROVE  NetworkInv'
<1> USE DEF NetworkInv
<1> DEFINE q == backlog[s]
<1>1. /\ s \in Servers /\ server[s] = "loop"
      /\ link[c] = "sent"
      /\ q \in Seq(Clients \cup {Gone}) /\ Distinct(q)
      /\ Len(q) \in Nat /\ Len(q) < Backlog
      /\ c # Gone
  BY GoneAssumption, LenProperties DEF Admit, ListensWhileRunning, EndsAgree, TypeOK
<1>2. \A t \in Servers : c \notin Waiting(t) /\ c \notin held[t]
  BY <1>1 DEF EndsAgree, Has
<1>3. /\ Append(q, c) \in Seq(Clients \cup {Gone})
      /\ Len(Append(q, c)) = Len(q) + 1
      /\ Distinct(Append(q, c))
      /\ Members(Append(q, c)) = Members(q) \cup {c}
  <2>1. c \in Clients \cup {Gone} /\ c \notin Members(q)
    BY <1>1, <1>2 DEF Waiting
  <2> QED
    BY <1>1, <2>1, AppendFacts
<1>4. /\ backlog' = [backlog EXCEPT ![s] = Append(q, c)]
      /\ link' = [link EXCEPT ![c] = "up"]
      /\ UNCHANGED <<server, listening, held, descriptors, handles, client, callback, told>>
  BY DEF Admit
<1>5. \A t \in Servers : backlog'[t] = IF t = s THEN Append(q, c) ELSE backlog[t]
  BY <1>4 DEF TypeOK
<1>6. \A t \in Servers : Waiting(t)' = IF t = s THEN Waiting(t) \cup {c} ELSE Waiting(t)
  BY <1>3, <1>5 DEF Waiting
<1> HIDE DEF q
<1>7. TypeOK'
  <2>1. backlog' \in [Servers -> Seq(Clients \cup {Gone})]
    BY <1>3, <1>4 DEF TypeOK
  <2>2. \A t \in Servers : Len(backlog'[t]) <= Backlog
    <3>1. \A t \in Servers : Len(backlog[t]) <= Backlog
      BY DEF TypeOK
    <3>2. Len(Append(q, c)) <= Backlog
      BY <1>1, <1>3, BacklogAssumption
    <3> QED
      BY <1>5, <3>1, <3>2
  <2> QED
    BY <1>4, <2>1, <2>2 DEF TypeOK
<1>8. ListensWhileRunning' /\ SocketFirst'
  BY <1>1, <1>4, <1>5 DEF ListensWhileRunning, SocketFirst
<1>9. EndsAgree'
  <2>1. \A d \in Clients : link'[d] = "up" <=> link[d] = "up" \/ d = c
    BY <1>4 DEF TypeOK
  <2>2. \A t \in Servers, d \in Clients : Has(t, d)' <=> Has(t, d) \/ (t = s /\ d = c)
    BY <1>4, <1>6 DEF Has
  <2>3. \A d \in Clients : link'[d] = "up" <=> \E t \in Servers : Has(t, d)'
    BY <1>1, <2>1, <2>2 DEF EndsAgree
  <2>4. \A t, u \in Servers : \A d \in held'[t] :
          d \notin Waiting(u)' /\ (d \in held'[u] => t = u)
    BY <1>2, <1>4, <1>6 DEF EndsAgree
  <2>5. \A t \in Servers : Distinct(backlog[t])'
    BY <1>3, <1>5 DEF EndsAgree
  <2> QED
    BY <2>3, <2>4, <2>5 DEF EndsAgree
<1>10. ToldOnce'
  BY <1>1, <1>4 DEF TypeOK, ToldOnce
<1> QED
  BY <1>7, <1>8, <1>9, <1>10

LEMMA InvRefuse ==
  ASSUME NetworkInv, NEW c \in Clients, Refuse(c)
  PROVE  NetworkInv'
<1> USE DEF NetworkInv
<1>1. /\ link[c] = "sent"
      /\ link' = [link EXCEPT ![c] = "reset"]
      /\ UNCHANGED <<client, callback, told, server, listening, backlog, held, descriptors, handles>>
  BY DEF Refuse, serverVars
<1>2. TypeOK'
  BY <1>1 DEF TypeOK
<1>3. ListensWhileRunning' /\ SocketFirst'
  BY <1>1 DEF ListensWhileRunning, SocketFirst
<1>4. EndsAgree'
  <2>1. \A d \in Clients : link'[d] = "up" <=> link[d] = "up"
    BY <1>1 DEF TypeOK
  <2> QED
    BY <1>1, <2>1 DEF EndsAgree, Has, Waiting
<1>5. ToldOnce'
  BY <1>1 DEF TypeOK, ToldOnce
<1> QED
  BY <1>2, <1>3, <1>4, <1>5

LEMMA InvStutter ==
  ASSUME NetworkInv, UNCHANGED vars
  PROVE  NetworkInv'
BY DEF NetworkInv, vars, serverVars, clientVars, TypeOK, ListensWhileRunning, EndsAgree, Has,
       Waiting, ToldOnce, SocketFirst

LEMMA InvNext ==
  ASSUME NetworkInv, [Next]_vars
  PROVE  NetworkInv'
<1>1. ASSUME NEW s \in Servers, ServerUpdate(s) PROVE NetworkInv'
  BY <1>1, InvOnConnection, InvShedLoad DEF ServerUpdate
<1>2. ASSUME NEW c \in Clients, Answer(c) PROVE NetworkInv'
  BY <1>2, InvAdmit, InvRefuse DEF Answer
<1> QED
  BY <1>1, <1>2, InvServerNew, InvServerListen, InvServerClose, InvServerExit, InvServerKill,
     InvClientConnect, InvOnConnect, InvClientDelete, InvStutter
  DEF Next

(* The invariant of servers, clients and the connections between them.     *)
THEOREM NetworkInvariant == Spec => []NetworkInv
<1>1. Init => NetworkInv
  BY InvInit
<1>2. NetworkInv /\ [Next]_vars => NetworkInv'
  BY InvNext
<1> QED
  BY <1>1, <1>2, PTL DEF Spec

(* network_server.c: the servers that listen are those that run their      *)
(* loop, and there is never more than one, for any number of processes.    *)
THEOREM OneServerListens == Spec => []ListensWhileRunning
<1>1. NetworkInv => ListensWhileRunning
  BY DEF NetworkInv
<1> QED
  BY <1>1, NetworkInvariant, PTL

(* network_server_delete: uv_loop_close meets the socket before the handle *)
(* that on_connection has left in the queue.                               *)
THEOREM LiveHandlesWalked == Spec => []WalksLiveHandles
<1>1. NetworkInv => WalksLiveHandles
  <2> SUFFICES ASSUME NetworkInv, NEW s \in Servers, server[s] = "closing"
               PROVE  handles[s] # <<>> /\ Head(handles[s]) = "socket"
    BY DEF WalksLiveHandles
  <2>1. handles[s] \in Seq({"socket", "client"}) /\ handles[s] # <<>> /\ handles[s][1] = "socket"
    BY DEF NetworkInv, TypeOK, SocketFirst
  <2> QED
    BY <2>1, HeadTailProperties
<1> QED
  BY <1>1, NetworkInvariant, PTL

---------------------------------------------------------------------------
(* The refinement of Service.                                              *)

Requests == [c \in Clients |-> Request(c)]

LEMMA PromiseInit == Init => Promise!Init
BY DEF Init, Promise!Init, Request

(* A step that changes no client's request, nor who serves, is a stutter.  *)
LEMMA Stutters ==
  ASSUME UNCHANGED listening, \A c \in Clients : Request(c)' = Request(c)
  PROVE  UNCHANGED Promise!vars
BY DEF Promise!vars

(* A step that changes one client's request.                               *)
LEMMA Steps ==
  ASSUME NEW c \in Clients, NEW to, UNCHANGED listening,
         Request(c)' = to,
         \A d \in Clients \ {c} : Request(d)' = Request(d)
  PROVE  Promise!Step(c, Request(c), to)
<1>1. Requests' = [Requests EXCEPT ![c] = to]
  BY DEF Requests
<1>2. Requests[c] = Request(c)
  BY DEF Requests
<1> QED
  BY <1>1, <1>2 DEF Requests, Promise!Step

LEMMA ServerListenRefines ==
  ASSUME NetworkInv, NEW s \in Servers, ServerListen(s)
  PROVE  Promise!Serve(s) \/ UNCHANGED Promise!vars
<1>1. UNCHANGED <<link, told>>
  BY DEF ServerListen, clientVars
<1>2. \A c \in Clients : Request(c)' = Request(c)
  BY <1>1 DEF Request
<1>3. Requests' = Requests
  BY <1>2 DEF Requests
<1>4. CASE CanListen(s)
  BY <1>3, <1>4 DEF ServerListen, CanListen, Promise!Serve, Requests
<1>5. CASE ~CanListen(s)
  BY <1>2, <1>5, Stutters DEF ServerListen
<1> QED
  BY <1>4, <1>5

LEMMA LinkType ==
  ASSUME NetworkInv, NEW c \in Clients
  PROVE  link[c] \in {"none", "sent", "up", "ended", "reset"}
BY DEF NetworkInv, TypeOK

(* The connections that end stay as admitted as they were ...              *)
LEMMA EndedRefines ==
  ASSUME NetworkInv, NEW s \in Servers, ShedLoad(s) \/ ServerExit(s)
  PROVE  UNCHANGED Promise!vars
<1>1. PICK lost \in {Waiting(s), held[s]} :
        /\ link' = [c \in Clients |-> IF c \in lost THEN "ended" ELSE link[c]]
        /\ UNCHANGED <<told, listening>>
  BY DEF ShedLoad, ServerExit, Linked
<1>2. \A c \in lost : c \in Clients => link[c] = "up"
  BY <1>1 DEF NetworkInv, EndsAgree, Has
<1>3. ASSUME NEW c \in Clients PROVE Request(c)' = Request(c)
  <2>1. told'[c] = told[c] /\ (link'[c] = link[c] \/ (link[c] = "up" /\ link'[c] = "ended"))
    BY <1>1, <1>2
  <2> QED
    BY <2>1, LinkType DEF Request
<1> QED
  BY <1>1, <1>3, Stutters

(* ... and those that a server resets when it stops are turned down, if    *)
(* their clients have not been told.                                       *)
LEMMA StopRefines ==
  ASSUME NetworkInv, NEW s \in Servers, s \in listening, ServerClose(s) \/ ServerKill(s)
  PROVE  Promise!Stop
<1>1. /\ listening' = listening \ {s}
      /\ \A c \in Clients : link'[c] = IF c \in Waiting(s) THEN "reset"
                                       ELSE IF link'[c] = "ended" /\ c \in held[s] THEN "ended"
                                       ELSE link[c]
      /\ UNCHANGED told
  BY DEF ServerClose, ServerKill, Linked, NetworkInv, TypeOK
<1>2. listening # {} /\ listening' = {}
  BY <1>1 DEF NetworkInv, ListensWhileRunning
<1>3. \A c \in Clients : c \in Waiting(s) \cup held[s] => link[c] = "up"
  BY DEF NetworkInv, EndsAgree, Has
<1> DEFINE lost == {c \in Clients : c \in Waiting(s) /\ told[c] = "nothing"}
<1>4. ASSUME NEW c \in Clients
      PROVE  Request(c)' = IF c \in lost THEN "denied" ELSE Request(c)
  <2>1. told'[c] = told[c]
    BY <1>1
  <2>2. CASE c \in Waiting(s)
    <3>1. link[c] = "up" /\ link'[c] = "reset"
      BY <1>1, <1>3, <2>2
    <3> QED
      BY <2>1, <2>2, <3>1 DEF Request
  <2>3. CASE c \notin Waiting(s)
    <3>1. link'[c] = link[c] \/ (link[c] = "up" /\ link'[c] = "ended")
      BY <1>1, <1>3, <2>3
    <3> QED
      BY <2>1, <2>3, <3>1, LinkType DEF Request
  <2> QED
    BY <2>2, <2>3
<1>5. \A c \in lost : c \in Clients /\ Request(c) = "admitted"
  BY <1>3 DEF Request
<1> HIDE DEF lost
<1>6. Requests' = [c \in Clients |-> IF c \in lost THEN "denied" ELSE Requests[c]]
  BY <1>4 DEF Requests
<1>7. lost \in SUBSET {c \in Clients : Requests[c] = "admitted"}
  BY <1>5 DEF Requests
<1> QED
  BY <1>2, <1>6, <1>7 DEF Promise!Stop, Requests

LEMMA KillRefines ==
  ASSUME NetworkInv, NEW s \in Servers, s \notin listening, ServerKill(s)
  PROVE  UNCHANGED Promise!vars
<1>1. Waiting(s) = {}
  BY WaitingFacts DEF NetworkInv, ListensWhileRunning
<1>2. /\ listening' = listening
      /\ link' = [c \in Clients |-> IF c \in held[s] THEN "ended" ELSE link[c]]
      /\ UNCHANGED told
  BY <1>1 DEF ServerKill
<1>3. \A c \in held[s] : c \in Clients => link[c] = "up"
  BY DEF NetworkInv, EndsAgree, Has
<1>4. ASSUME NEW c \in Clients PROVE Request(c)' = Request(c)
  <2>1. told'[c] = told[c] /\ (link'[c] = link[c] \/ (link[c] = "up" /\ link'[c] = "ended"))
    BY <1>2, <1>3
  <2> QED
    BY <2>1, LinkType DEF Request
<1> QED
  BY <1>2, <1>4, Stutters

LEMMA ClientRefines ==
  ASSUME NetworkInv, NEW c \in Clients,
         ClientConnect(c) \/ OnConnect(c) \/ ClientDelete(c) \/ Answer(c)
  PROVE  [Promise!Next]_Promise!vars
<1>1. UNCHANGED listening /\ \A d \in Clients \ {c} : Request(d)' = Request(d)
  BY DEF ClientConnect, OnConnect, ClientDelete, Answer, Admit, Refuse, serverVars,
         NetworkInv, TypeOK, Request
<1>2. Promise!Step(c, Request(c), Request(c)')
  BY <1>1, Steps
<1>3. CASE ClientConnect(c)
  <2>1. link[c] = "none" /\ told[c] = "nothing" /\ told' = told /\ Request(c) = "none"
    BY <1>3 DEF ClientConnect, NetworkInv, ToldOnce, Request
  <2>2. link'[c] = "sent" \/ link'[c] = "none"
    BY <1>3, <2>1 DEF ClientConnect, NetworkInv, TypeOK
  <2>3. CASE link'[c] = "sent"
    <3>1. Request(c)' = "asked"
      BY <2>1, <2>3 DEF Request
    <3> QED
      BY <1>2, <2>1, <3>1 DEF Promise!Next, Promise!Ask
  <2>4. CASE link'[c] = "none"
    <3>1. Request(c)' = "none"
      BY <2>1, <2>4 DEF Request
    <3> QED
      BY <1>1, <2>1, <3>1, Stutters
  <2> QED
    BY <2>2, <2>3, <2>4
<1>4. CASE OnConnect(c)
  <2>1. /\ told[c] = "nothing" /\ link[c] \in {"up", "ended", "reset"}
        /\ told'[c] = IF link[c] = "reset" THEN "failed" ELSE "up"
    BY <1>4 DEF OnConnect, NetworkInv, ToldOnce, TypeOK
  <2>2. CASE link[c] = "reset"
    <3>1. Request(c) = "denied" /\ Request(c)' = "failed"
      BY <2>1, <2>2 DEF Request
    <3> QED
      BY <1>2, <3>1 DEF Promise!Next, Promise!Tell
  <2>3. CASE link[c] # "reset"
    <3>1. Request(c) = "admitted" /\ Request(c)' = "up"
      BY <2>1, <2>3 DEF Request
    <3> QED
      BY <1>2, <3>1 DEF Promise!Next, Promise!Tell
  <2> QED
    BY <2>2, <2>3
<1>5. CASE ClientDelete(c)
  <2>1. Request(c)' = "none"
    BY <1>5 DEF ClientDelete, NetworkInv, TypeOK, Request
  <2>2. Request(c) \in {"none", "asked", "admitted", "denied", "up", "failed"}
    BY DEF NetworkInv, TypeOK, Request
  <2>3. CASE Request(c) = "none"
    BY <1>1, <2>1, <2>3, Stutters
  <2>4. CASE Request(c) # "none"
    BY <1>2, <2>1, <2>2, <2>4 DEF Promise!Next, Promise!Leave, Promise!Answers
  <2> QED
    BY <2>3, <2>4
<1>6. CASE Refuse(c)
  <2>1. told[c] = "nothing" /\ told' = told /\ link[c] = "sent" /\ link'[c] = "reset"
    BY <1>6 DEF Refuse, NetworkInv, ToldOnce, TypeOK
  <2>2. Request(c) = "asked" /\ Request(c)' = "denied"
    BY <2>1 DEF Request
  <2> QED
    BY <1>2, <2>2 DEF Promise!Next, Promise!Deny
<1>7. ASSUME NEW s \in listening, Admit(c, s) PROVE Promise!Next
  <2>1. told[c] = "nothing" /\ told' = told /\ link[c] = "sent" /\ link'[c] = "up"
    BY <1>7 DEF Admit, NetworkInv, ToldOnce, TypeOK
  <2>2. Request(c) = "asked" /\ Request(c)' = "admitted"
    BY <2>1 DEF Request
  <2> QED
    BY <1>2, <1>7, <2>2 DEF Promise!Next, Promise!Admit
<1> QED
  BY <1>3, <1>4, <1>5, <1>6, <1>7 DEF Answer

LEMMA PromiseNext ==
  ASSUME NetworkInv, [Next]_vars
  PROVE  [Promise!Next]_Promise!vars
<1>1. ASSUME NEW s \in Servers, ServerNew(s) \/ OnConnection(s) PROVE UNCHANGED Promise!vars
  <2>1. UNCHANGED <<listening, link, told>>
    BY <1>1 DEF ServerNew, OnConnection, clientVars
  <2> QED
    BY <2>1, Stutters DEF Request
<1>2. ASSUME NEW s \in Servers, ServerListen(s) PROVE [Promise!Next]_Promise!vars
  BY <1>2, ServerListenRefines DEF Promise!Next
<1>3. ASSUME NEW s \in Servers, ShedLoad(s) \/ ServerExit(s) PROVE UNCHANGED Promise!vars
  BY <1>3, EndedRefines
<1>4. ASSUME NEW s \in Servers, ServerClose(s) PROVE Promise!Next
  <2>1. s \in listening
    BY <1>4 DEF ServerClose, NetworkInv, ListensWhileRunning
  <2> QED
    BY <1>4, <2>1, StopRefines DEF Promise!Next
<1>5. ASSUME NEW s \in Servers, ServerKill(s) PROVE [Promise!Next]_Promise!vars
  BY <1>5, StopRefines, KillRefines DEF Promise!Next
<1>6. CASE UNCHANGED vars
  BY <1>6, Stutters DEF vars, serverVars, clientVars, Request
<1> QED
  BY <1>1, <1>2, <1>3, <1>4, <1>5, <1>6, ClientRefines DEF Next, ServerUpdate

(* Servers and clients of src/network/ implement the abstract service:     *)
(* whatever starts, ends or is killed, one server serves at a time, only   *)
(* it admits, and each request is answered at most once.                   *)
THEOREM ServiceImplemented == Spec => ServiceSafe
<1>1. Init => Promise!Init
  BY PromiseInit
<1>2. NetworkInv /\ [Next]_vars => [Promise!Next]_Promise!vars
  BY PromiseNext
<1> QED
  BY <1>1, <1>2, NetworkInvariant, PTL DEF Spec, ServiceSafe, Promise!SafeSpec

---------------------------------------------------------------------------
(* What the liveness of Network rests on.                                  *)

InLine(s, c, n) == n \in DOMAIN backlog[s] /\ backlog[s][n] = c

(* The n-th connection of a backlog is one of the first n, sooner after    *)
(* the server has updated, or it is held, or it has ended.                 *)
MovesUp(s, c, n) ==
  \/ link'[c] # "up"
  \/ n = 1 /\ c \in held'[s]
  \/ \E m \in 1 .. n : InLine(s, c, m)' /\ (ServerUpdate(s) => m < n)

(* on_connection accepts in the order of the kernel's backlog, whatever    *)
(* clients leave or join meanwhile.                                        *)
LineMoves ==
  [][\A s \in Servers, c \in Clients : \A n \in DOMAIN backlog[s] :
       InLine(s, c, n) => MovesUp(s, c, n)]_vars

(* A call of on_connect that is due stays due, and once the kernel has     *)
(* answered stays so, until it is made or the client ends.                 *)
StaysDue(c) ==
  \/ callback'[c] /\ (link'[c] = "sent" => link[c] = "sent")
  \/ told'[c] # "nothing"
  \/ client'[c] = "down"

(* network_client_update can make the call whenever it comes round.        *)
AnswerStays == [][\A c \in Clients : callback[c] => StaysDue(c)]_vars

LEMMA UpdateMovesUp ==
  ASSUME NetworkInv, NEW s \in Servers, NEW c \in Clients, NEW n, InLine(s, c, n), ServerUpdate(s)
  PROVE  MovesUp(s, c, n)
<1> DEFINE q == backlog[s]
           T == Clients \cup {Gone}
<1>1. /\ q \in Seq(T) /\ backlog \in [Servers -> Seq(T)] /\ held \in [Servers -> SUBSET Clients]
      /\ link \in [Clients -> {"none", "sent", "up", "ended", "reset"}]
      /\ n \in DOMAIN q /\ q[n] = c
  BY DEF NetworkInv, TypeOK, InLine
<1> HIDE DEF T
<1>2. /\ q # <<>> /\ n \in 1 .. Len(q) /\ Len(q) \in Nat
      /\ Head(q) = q[1] /\ Tail(q) \in Seq(T) /\ Len(Tail(q)) = Len(q) - 1
      /\ \A k \in 1 .. Len(q) - 1 : Tail(q)[k] = q[k + 1]
  <2>1. DOMAIN q = 1 .. Len(q) /\ Len(q) \in Nat
    BY <1>1, LenProperties
  <2>2. q # <<>>
    BY <1>1
  <2> QED BY <1>1, <2>1, <2>2, HeadTailProperties
<1>3. CASE OnConnection(s)
  <2>1. backlog'[s] = Tail(q) /\ held'[s] = held[s] \cup ({Head(q)} \ {Gone})
    BY <1>1, <1>3 DEF OnConnection
  <2>2. CASE n = 1
    BY <1>1, <1>2, <2>1, <2>2, GoneAssumption DEF MovesUp
  <2>3. CASE n # 1
    <3>1. n - 1 \in 1 .. Len(q) - 1 /\ n - 1 \in 1 .. n /\ n - 1 < n /\ (n - 1) + 1 = n
      BY <1>2, <2>3
    <3>2. Tail(q)[n - 1] = c /\ n - 1 \in DOMAIN Tail(q)
      BY <1>1, <1>2, <3>1, LenProperties
    <3>3. InLine(s, c, n - 1)'
      BY <2>1, <3>2 DEF InLine
    <3> QED BY <3>1, <3>3 DEF MovesUp
  <2> QED BY <2>2, <2>3
<1>4. CASE ShedLoad(s)
  <2>1. c \in Waiting(s)
    BY <1>1, GoneAssumption DEF Waiting, Members
  <2>2. link'[c] = "ended"
    BY <1>4, <2>1 DEF ShedLoad, Linked
  <2> QED BY <2>2 DEF MovesUp
<1> QED BY <1>3, <1>4 DEF ServerUpdate

LEMMA OthersMoveUp ==
  ASSUME NetworkInv, NEW s \in Servers, NEW c \in Clients, NEW n, InLine(s, c, n), [Next]_vars,
         ~ServerUpdate(s)
  PROVE  MovesUp(s, c, n)
<1> DEFINE q == backlog[s]
           T == Clients \cup {Gone}
<1>1. /\ q \in Seq(T) /\ backlog \in [Servers -> Seq(T)]
      /\ link \in [Clients -> {"none", "sent", "up", "ended", "reset"}]
      /\ n \in DOMAIN q /\ q[n] = c
  BY DEF NetworkInv, TypeOK, InLine
<1> HIDE DEF T
<1>2. DOMAIN q = 1 .. Len(q) /\ Len(q) \in Nat /\ n \in 1 .. n
  BY <1>1, LenProperties
<1>3. ASSUME backlog'[s] = q PROVE MovesUp(s, c, n)
  <2>1. InLine(s, c, n)'
    BY <1>1, <1>3 DEF InLine
  <2> QED BY <1>2, <2>1 DEF MovesUp
<1>4. c \in Waiting(s)
  BY <1>1, GoneAssumption DEF Waiting, Members
<1>5. ASSUME NEW t \in Servers, ServerNew(t) \/ ServerListen(t) \/ ServerExit(t) PROVE MovesUp(s, c, n)
  BY <1>3, <1>5 DEF ServerNew, ServerListen, ServerExit
<1>6. ASSUME NEW t \in Servers, ServerUpdate(t) PROVE MovesUp(s, c, n)
  <2>1. t # s
    BY <1>6
  <2>2. backlog'[s] = q
    BY <1>1, <1>6, <2>1 DEF ServerUpdate, OnConnection, ShedLoad
  <2> QED BY <1>3, <2>2
<1>7. ASSUME NEW t \in Servers, ServerClose(t) \/ ServerKill(t) PROVE MovesUp(s, c, n)
  <2>1. CASE t = s
    <3>1. link'[c] = "reset"
      BY <1>4, <1>7, <2>1 DEF ServerClose, ServerKill, Linked
    <3> QED BY <3>1 DEF MovesUp
  <2>2. CASE t # s
    <3>1. backlog'[s] = q
      BY <1>1, <1>7, <2>2 DEF ServerClose, ServerKill
    <3> QED BY <1>3, <3>1
  <2> QED BY <2>1, <2>2
<1>8. ASSUME NEW d \in Clients, ClientConnect(d) \/ OnConnect(d) \/ Refuse(d) PROVE MovesUp(s, c, n)
  BY <1>3, <1>8 DEF ClientConnect, OnConnect, Refuse, serverVars
<1>9. ASSUME NEW d \in Clients, ClientDelete(d) PROVE MovesUp(s, c, n)
  <2>1. CASE d = c
    <3>1. link'[c] = "none"
      BY <1>1, <1>9, <2>1 DEF ClientDelete
    <3> QED BY <3>1 DEF MovesUp
  <2>2. CASE d # c
    <3>1. backlog'[s] = [k \in DOMAIN q |-> IF q[k] = d THEN Gone ELSE q[k]]
      BY <1>9 DEF ClientDelete, Abandoned
    <3>2. InLine(s, c, n)'
      BY <1>1, <2>2, <3>1 DEF InLine
    <3> QED BY <1>2, <3>2 DEF MovesUp
  <2> QED BY <2>1, <2>2
<1>10. ASSUME NEW d \in Clients, NEW t \in listening, Admit(d, t) PROVE MovesUp(s, c, n)
  <2>1. CASE t = s
    <3>1. backlog'[s] = Append(q, d)
      BY <1>1, <1>10, <2>1 DEF Admit
    <3>2. d \in T /\ Append(q, d)[n] = c /\ n \in DOMAIN Append(q, d)
      BY <1>1, <1>2, AppendProperties, LenProperties DEF T
    <3>3. InLine(s, c, n)'
      BY <3>1, <3>2 DEF InLine
    <3> QED BY <1>2, <3>3 DEF MovesUp
  <2>2. CASE t # s
    <3>1. backlog'[s] = q
      BY <1>1, <1>10, <2>2 DEF Admit
    <3> QED BY <1>3, <3>1
  <2> QED BY <2>1, <2>2
<1>11. CASE UNCHANGED vars
  BY <1>3, <1>11 DEF vars, serverVars
<1> QED BY <1>5, <1>6, <1>7, <1>8, <1>9, <1>10, <1>11 DEF Next, Answer

(* A connection that waits comes nearer to its turn with each update of    *)
(* its server, and is not overtaken, until it is accepted or ended.        *)
THEOREM LineIsKept == Spec => LineMoves
<1> DEFINE A == \A s \in Servers, c \in Clients : \A n \in DOMAIN backlog[s] :
                  InLine(s, c, n) => MovesUp(s, c, n)
<1>1. NetworkInv /\ [Next]_vars => [A]_vars
  <2> SUFFICES ASSUME NetworkInv, [Next]_vars, NEW s \in Servers, NEW c \in Clients,
                      NEW n \in DOMAIN backlog[s], InLine(s, c, n)
               PROVE  MovesUp(s, c, n)
    OBVIOUS
  <2> QED BY UpdateMovesUp, OthersMoveUp
<1>2. Spec => [][A]_vars
  BY <1>1, NetworkInvariant, PTL DEF Spec
<1> QED BY <1>2 DEF LineMoves

LEMMA DueNext ==
  ASSUME NetworkInv, [Next]_vars, NEW c \in Clients, callback[c]
  PROVE  StaysDue(c)
<1>1. /\ client \in [Clients -> {"down", "loop"}]
      /\ callback \in [Clients -> BOOLEAN]
      /\ link \in [Clients -> {"none", "sent", "up", "ended", "reset"}]
      /\ told \in [Clients -> {"nothing", "up", "failed"}]
      /\ client[c] # "down"
  BY DEF NetworkInv, TypeOK, ToldOnce
<1>2. ASSUME callback'[c], link'[c] = "sent" => link[c] = "sent" PROVE StaysDue(c)
  BY <1>2 DEF StaysDue
<1>3. ASSUME NEW s \in Servers,
             \/ ServerNew(s) \/ ServerListen(s) \/ ServerUpdate(s)
             \/ ServerClose(s) \/ ServerExit(s) \/ ServerKill(s)
      PROVE  StaysDue(c)
  <2>1. callback' = callback
    BY <1>3 DEF ServerNew, ServerListen, ServerUpdate, OnConnection, ShedLoad, ServerClose,
       ServerExit, ServerKill, clientVars
  <2>2. link'[c] \in {link[c], "ended", "reset"}
    BY <1>3 DEF ServerNew, ServerListen, ServerUpdate, OnConnection, ShedLoad, ServerClose,
       ServerExit, ServerKill, clientVars, Linked
  <2> QED BY <1>2, <2>1, <2>2
<1>4. ASSUME NEW d \in Clients, ClientConnect(d) \/ OnConnect(d) \/ ClientDelete(d)
      PROVE  StaysDue(c)
  <2>1. CASE d # c
    <3>1. callback'[c] = callback[c] /\ link'[c] = link[c]
      BY <1>1, <1>4, <2>1 DEF ClientConnect, OnConnect, ClientDelete
    <3> QED BY <1>2, <3>1
  <2>2. CASE d = c
    <3>1. CASE ClientConnect(d)
      BY <1>1, <2>2, <3>1 DEF ClientConnect
    <3>2. CASE OnConnect(d)
      <4>1. told'[c] \in {"failed", "up"}
        BY <1>1, <2>2, <3>2 DEF OnConnect
      <4> QED BY <4>1 DEF StaysDue
    <3>3. CASE ClientDelete(d)
      <4>1. client'[c] = "down"
        BY <1>1, <2>2, <3>3 DEF ClientDelete
      <4> QED BY <4>1 DEF StaysDue
    <3> QED BY <1>4, <3>1, <3>2, <3>3
  <2> QED BY <2>1, <2>2
<1>5. ASSUME NEW d \in Clients, Answer(d) PROVE StaysDue(c)
  <2>1. callback' = callback /\ link'[c] \in {link[c], "up", "reset"}
    BY <1>1, <1>5 DEF Answer, Admit, Refuse
  <2> QED BY <1>2, <2>1
<1>6. CASE UNCHANGED vars
  BY <1>2, <1>6 DEF vars, clientVars
<1> QED BY <1>3, <1>4, <1>5, <1>6 DEF Next

(* No step of a server, the kernel or another client takes a call of       *)
(* on_connect back that is due: the client can make it until it ends.      *)
THEOREM AnswerIsKept == Spec => AnswerStays
<1> DEFINE A == \A c \in Clients : callback[c] => StaysDue(c)
<1>1. NetworkInv /\ [Next]_vars => [A]_vars
  BY DueNext
<1>2. Spec => [][A]_vars
  BY <1>1, NetworkInvariant, PTL DEF Spec
<1> QED BY <1>2 DEF AnswerStays
=============================================================================
