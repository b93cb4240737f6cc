------------------------------- MODULE World -------------------------------
(***************************************************************************)
(* world.c: the creation of the stars through the entity store, and the    *)
(* two systems that world_step runs on them.  world.c says nowhere which   *)
(* of them runs first: the store runs the systems of a phase in the order  *)
(* of their entities' ids, and gives ids out in increasing order.          *)
(*                                                                         *)
(* The store (flecs) keeps entities with the same components in one table, *)
(* one column of memory per component.  Adding a component moves the       *)
(* entity to another table, so a pointer into the old row points to memory *)
(* that is in no table's use until another entity gets the row.  world_new *)
(* takes the pointers to all three components first and writes through     *)
(* them afterwards.                                                        *)
(***************************************************************************)
EXTENDS Integers, Sequences

CONSTANTS
  StarNum,       \* entities world_new creates, 1000
  MaxSteps       \* bound: calls of world_step

ASSUME StarNumAssumption == StarNum \in Nat \ {0}
ASSUME MaxStepsAssumption == MaxSteps \in Nat

(* The components in the order in which an entity gets them; table n has   *)
(* the entities with the first n of them.                                  *)
Transform == 1
Star == 2
Color == 3
Components == 1 .. 3
Tables == 1 .. 3

Systems == {"orbit", "draw"}

VARIABLES
  memory,        \* memory[n][c][row]: column c of table n
  count,         \* rows in use of each table
  pointer,       \* t, s and c of world_new: <<table, row>>
  star,          \* the turn of world_new's loop
  pc,            \* the component it asks for next; 4: randomize_star
  systemId,      \* the entity of each system, 0 until it has been created
  steps,         \* calls of world_step
  toRun,         \* the systems that the call in progress has yet to run
  drawn          \* what the last draw gave the list: position and colour

starVars == <<count, pointer, star, pc>>
systemVars == <<systemId, steps, toRun, drawn>>
vars == <<memory, starVars, systemVars>>

(* A component's value: the turn of the loop it was randomized in, 0 if it *)
(* was not, and the number of times the orbit system has moved it on.      *)
Value == [of : 0 .. StarNum, age : 0 .. MaxSteps]

Junk == [of |-> 0, age |-> 0]

Rows == 1 .. StarNum

Ids == 1 .. StarNum + 2

TypeOK ==
  /\ memory \in [Tables -> [Components -> [Rows -> Value]]]
  /\ count \in [Tables -> 0 .. StarNum]
  /\ pointer \in [Components -> Tables \X Rows]
  /\ star \in 1 .. StarNum + 1
  /\ pc \in 1 .. 4
  /\ systemId \in [Systems -> Ids \cup {0}]
  /\ steps \in 0 .. MaxSteps
  /\ toRun \subseteq Systems
  /\ drawn \in Seq([position : Value, color : Value])

Init ==
  /\ memory = [n \in Tables |-> [c \in Components |-> [r \in Rows |-> Junk]]]
  /\ count = [n \in Tables |-> 0]
  /\ pointer = [c \in Components |-> <<c, 1>>]
  /\ star = 1
  /\ pc = 1
  /\ systemId = [s \in Systems |-> 0]
  /\ steps = 0
  /\ toRun = {}
  /\ drawn = <<>>

Created == star > StarNum

(* The id ecs_new_id gives next: one more than the last, of a star or of a *)
(* system.                                                                 *)
NewId == star + (IF systemId["orbit"] > 0 THEN 1 ELSE 0)
              + (IF systemId["draw"] > 0 THEN 1 ELSE 0)

(* flecs' move_entity, for the last entity of table n - 1: a row at the    *)
(* end of table n, the components it had copied there, the old row taken   *)
(* out of use.  No component has a constructor or destructor, so neither   *)
(* the new component's cell nor the old row is written.                    *)
MoveEntity(n) ==
  /\ count' = [m \in Tables |->
                 CASE m = n -> count[m] + 1
                   [] m = n - 1 -> count[m] - 1
                   [] OTHER -> count[m]]
  /\ memory' = [memory EXCEPT ![n] =
                  [c \in Components |->
                     IF c < n
                     THEN [@[c] EXCEPT ![count'[n]] = memory[n - 1][c][count[n - 1]]]
                     ELSE @[c]]]

(* Mutant: the loop does not go back to the transform.                     *)
GetMutAgain ==
  /\ ~Created
  /\ pc \in Components
  /\ MoveEntity(pc)
  /\ pointer' = [pointer EXCEPT ![pc] = <<pc, count'[pc]>>]
  /\ pc' = pc
  /\ UNCHANGED <<star, systemVars>>

(* ecs_get_mut_w_id, for a component the entity does not have.             *)
GetMut ==
  /\ ~Created
  /\ pc \in Components
  /\ MoveEntity(pc)
  /\ pointer' = [pointer EXCEPT ![pc] = <<pc, count'[pc]>>]
  /\ pc' = pc + 1
  /\ UNCHANGED <<star, systemVars>>

(* Mutant: the velocity is not set.                                        *)
RandomizeStarNoVelocity ==
  /\ ~Created
  /\ pc = 4
  /\ memory' = [n \in Tables |-> [c \in Components |->
                  IF pointer[c][1] = n /\ c # Star
                  THEN [memory[n][c] EXCEPT ![pointer[c][2]] = [of |-> star, age |-> 0]]
                  ELSE memory[n][c]]]
  /\ star' = star + 1
  /\ pc' = 1
  /\ UNCHANGED <<count, pointer, systemVars>>

(* randomize_star, through the three pointers.                             *)
RandomizeStar ==
  /\ ~Created
  /\ pc = 4
  /\ memory' = [n \in Tables |-> [c \in Components |->
                  IF pointer[c][1] = n
                  THEN [memory[n][c] EXCEPT ![pointer[c][2]] = [of |-> star, age |-> 0]]
                  ELSE memory[n][c]]]
  /\ star' = star + 1
  /\ pc' = 1
  /\ UNCHANGED <<count, pointer, systemVars>>

(* Mutant: the draw system is created first.                               *)
SystemInitDrawFirst(s) ==
  /\ Created
  /\ systemId[s] = 0
  /\ s = "orbit" => systemId["draw"] > 0
  /\ systemId' = [systemId EXCEPT ![s] = NewId]
  /\ UNCHANGED <<memory, starVars, steps, toRun, drawn>>

(* ecs_system_init, for each system where world_new calls it.              *)
SystemInit(s) ==
  /\ Created
  /\ systemId[s] = 0
  /\ s = "draw" => systemId["orbit"] > 0
  /\ systemId' = [systemId EXCEPT ![s] = NewId]
  /\ UNCHANGED <<memory, starVars, steps, toRun, drawn>>

(* world_step: ecs_progress runs every system of the phase once.           *)
WorldStep ==
  /\ \A s \in Systems : systemId[s] > 0
  /\ toRun = {}
  /\ steps < MaxSteps
  /\ steps' = steps + 1
  /\ toRun' = Systems
  /\ UNCHANGED <<memory, starVars, systemId, drawn>>

(* The pipeline's query is ordered by compare_entity.                      *)
RunsNext(s) == s \in toRun /\ \A other \in toRun : systemId[s] <= systemId[other]

(* The orbit system: a star's velocity follows from its position, its      *)
(* position from that velocity.                                            *)
Orbited(columns) ==
  LET moved(column) ==
        [r \in Rows |-> IF r <= count[3] THEN [column[r] EXCEPT !.age = @ + 1] ELSE column[r]]
  IN  [columns EXCEPT ![Transform] = moved(@), ![Star] = moved(@)]

Orbit ==
  /\ RunsNext("orbit")
  /\ memory' = [memory EXCEPT ![3] = Orbited(@)]
  /\ toRun' = toRun \ {"orbit"}
  /\ UNCHANGED <<starVars, systemId, steps, drawn>>

(* The draw system: a line at each position, in the entity's colour.       *)
Draws(columns) ==
  [r \in 1 .. count[3] |-> [position |-> columns[Transform][r], color |-> columns[Color][r]]]

Draw ==
  /\ RunsNext("draw")
  /\ drawn' = Draws(memory[3])
  /\ toRun' = toRun \ {"draw"}
  /\ UNCHANGED <<memory, starVars, systemId, steps>>

Done ==
  /\ \A s \in Systems : systemId[s] > 0
  /\ toRun = {} /\ steps = MaxSteps
  /\ UNCHANGED vars

Next ==
  \/ GetMut
  \/ RandomizeStar
  \/ \E s \in Systems : SystemInit(s)
  \/ WorldStep
  \/ Orbit
  \/ Draw
  \/ Done

Spec == Init /\ [][Next]_vars

---------------------------------------------------------------------------
Of(row, c) == memory[3][c][row].of

(* Although randomize_star writes the transform and the star to rows their *)
(* entity has left, what ends up together in an entity belongs together:   *)
(* every star but the first orbits with a velocity made for its position,  *)
(* no two stars share them, and its colour is the one made in its turn.    *)
StarsWhole ==
  Created => \A r \in 2 .. count[3] :
    /\ memory[3][Transform][r] = memory[3][Star][r]
    /\ Of(r, Transform) > 0
    /\ \A q \in 2 .. count[3] : q # r => Of(q, Transform) # Of(r, Transform)
    /\ Of(r, Color) = r

(* When world_step returns there is a line for every star, where that step *)
(* has moved it: that the positions drawn are not those of the step before *)
(* rests on the order in which world_new creates the systems and on the    *)
(* store's ids and its ordering of them.                                   *)
DrawsAfterOrbit ==
  steps > 0 /\ toRun = {} =>
    /\ DOMAIN drawn = 1 .. StarNum
    /\ \A r \in DOMAIN drawn : drawn[r].position = memory[3][Transform][r]

(* Manual.md of flecs: ecs_get_mut obtains "a pointer to a component that  *)
(* can be safely modified"; world_new relies on it to give each entity the *)
(* values randomized in its turn.                                          *)
StarsRandomized ==
  Created => \A r \in 1 .. count[3] : \A c \in Components : Of(r, c) = r

---------------------------------------------------------------------------
(***************************************************************************)
(* The inductive invariant.  At most one entity is on its way; the rows it *)
(* leaves in tables 1 and 2 keep what randomize_star wrote through the     *)
(* stale pointers, and the next entity takes it along: row r of table 3    *)
(* has the transform and the star of turn r - 1, moved on by every step.   *)
(***************************************************************************)
Entities == IF pc = 4 THEN star ELSE star - 1

OneOnItsWay ==
  /\ count = [n \in Tables |-> IF n = 3 THEN Entities ELSE IF pc = n + 1 THEN 1 ELSE 0]
  /\ Created => pc = 1

PointersStale ==
  \A c \in Components : pc > c => pointer[c] = <<c, IF c = 3 THEN star ELSE 1>>

LeftBehind ==
  LET before == [of |-> star - 1, age |-> 0]
  IN  /\ memory[1][Transform][1] = before
      /\ memory[2][Star][1] = before
      /\ pc = 3 => memory[2][Transform][1] = before

(* The times the orbit system has run.                                     *)
Age == IF "orbit" \in toRun THEN steps - 1 ELSE steps

RowsOneTurnLate ==
  \A r \in 1 .. Entities :
    /\ memory[3][Transform][r] = [of |-> r - 1, age |-> Age]
    /\ memory[3][Star][r] = [of |-> r - 1, age |-> Age]
    /\ r < star => memory[3][Color][r] = [of |-> r, age |-> 0]

SystemsOrdered ==
  /\ ~Created => \A s \in Systems : systemId[s] = 0
  /\ \A s \in Systems : systemId[s] < NewId
  /\ systemId["draw"] > 0 => 0 < systemId["orbit"] /\ systemId["orbit"] < systemId["draw"]
  /\ steps > 0 => systemId["draw"] > 0
  /\ toRun # {} => steps > 0
  /\ "orbit" \in toRun => toRun = Systems

DrawnLast == steps > 0 /\ toRun = {} => drawn = Draws(memory[3])

(* What world_new's stale pointers leave where, at every step of a turn,   *)
(* and what the systems make of it.                                        *)
WorldInv ==
  /\ TypeOK
  /\ OneOnItsWay
  /\ PointersStale
  /\ LeftBehind
  /\ RowsOneTurnLate
  /\ SystemsOrdered
  /\ DrawnLast
=============================================================================
