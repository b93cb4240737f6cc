\* Two server and two client processes that start, leave and are killed at any
\* point, on one port.
SPECIFICATION FairSpec
CONSTANTS
  Servers = {"s1", "s2"}
  Clients = {"c1", "c2"}
  Backlog = 2
  MaxDescriptors = 2
  Gone = "gone"
INVARIANTS NetworkInv ListensWhileRunning WalksLiveHandles
PROPERTIES ServiceSafe ConnectionsServed RequestsAnswered
