---------------------------- MODULE World_proofs ----------------------------
(***************************************************************************)
(* Proofs about world.c, for any number of stars and of steps: although    *)
(* world_new writes through pointers that have gone stale, the stars are   *)
(* whole, and every frame shows them where its step put them.              *)
(***************************************************************************)
EXTENDS World, TLAPS

LEMMA InvInit == Init => WorldInv
<1> SUFFICES ASSUME Init PROVE WorldInv
  OBVIOUS
<1>1. /\ StarNum \in Nat /\ StarNum >= 1 /\ MaxSteps \in Nat
  BY StarNumAssumption, MaxStepsAssumption
<1>2. Junk \in Value /\ 1 \in Rows
  BY <1>1 DEF Junk, Value, Rows
<1>3. TypeOK
  BY <1>1, <1>2 DEF Init, TypeOK, Components, Tables
<1>4. OneOnItsWay
  BY <1>1 DEF Init, OneOnItsWay, Entities, Created, Tables
<1>5. PointersStale
  BY DEF Init, PointersStale, Components
<1>6. LeftBehind
  BY <1>1, <1>2 DEF Init, LeftBehind, Junk, Transform, Star, Tables, Components
<1>7. RowsOneTurnLate /\ SystemsOrdered /\ DrawnLast
  BY DEF Init, RowsOneTurnLate, SystemsOrdered, DrawnLast, Entities, Systems, NewId
<1> QED
  BY <1>3, <1>4, <1>5, <1>6, <1>7 DEF WorldInv

---------------------------------------------------------------------------
(* Creation.                                                               *)

(* What is known of a turn of the loop while the stars are created.        *)
LEMMA Creating ==
  ASSUME WorldInv, ~Created
  PROVE  /\ StarNum \in Nat /\ MaxSteps \in Nat /\ star \in 1 .. StarNum /\ 1 \in Rows
         /\ star \in Rows /\ pc \in 1 .. 4 /\ steps = 0 /\ toRun = {} /\ Age = 0
         /\ memory \in [Tables -> [Components -> [Rows -> Value]]]
         /\ pointer \in [Components -> Tables \X Rows]
BY StarNumAssumption, MaxStepsAssumption
DEF WorldInv, TypeOK, OneOnItsWay, SystemsOrdered, Systems, Age, Created, Rows

(* No system exists while the stars are created.                           *)
LEMMA SystemsWait ==
  ASSUME WorldInv, ~Created, star' \in {star, star + 1},
         UNCHANGED <<systemId, steps, toRun, drawn>>
  PROVE  SystemsOrdered' /\ DrawnLast'
BY Creating DEF WorldInv, SystemsOrdered, DrawnLast, NewId, Systems

(* The entity's old row and its new one.                                   *)
LEMMA GetMutStep ==
  ASSUME WorldInv, GetMut
  PROVE  /\ ~Created /\ pc \in Components /\ pc' = pc + 1
         /\ UNCHANGED <<star, systemId, steps, toRun, drawn>>
         /\ count' = [n \in Tables |-> IF n = 3 THEN IF pc = 3 THEN star ELSE star - 1
                                       ELSE IF pc = n THEN 1 ELSE 0]
         /\ pointer' = [pointer EXCEPT ![pc] = <<pc, IF pc = 3 THEN star ELSE 1>>]
         /\ memory' = [memory EXCEPT ![pc] =
                         [c \in Components |->
                            IF c < pc
                            THEN [@[c] EXCEPT ![IF pc = 3 THEN star ELSE 1] = memory[pc - 1][c][1]]
                            ELSE @[c]]]
<1>1. /\ ~Created /\ pc \in Components /\ pc' = pc + 1 /\ MoveEntity(pc)
      /\ pointer' = [pointer EXCEPT ![pc] = <<pc, count'[pc]>>]
      /\ UNCHANGED <<star, systemId, steps, toRun, drawn>>
  BY DEF GetMut, systemVars
<1>2. star \in 1 .. StarNum /\ StarNum \in Nat
  BY <1>1, Creating
<1>3. count = [n \in Tables |-> IF n = 3 THEN star - 1 ELSE IF pc = n + 1 THEN 1 ELSE 0]
  BY <1>1 DEF WorldInv, OneOnItsWay, Entities, Components
<1>4. count' = [n \in Tables |-> IF n = 3 THEN IF pc = 3 THEN star ELSE star - 1
                                 ELSE IF pc = n THEN 1 ELSE 0]
  BY <1>1, <1>2, <1>3 DEF MoveEntity, Tables, Components
<1>5. count'[pc] = IF pc = 3 THEN star ELSE 1
  BY <1>1, <1>4 DEF Tables, Components
<1>6. pc # 1 => count[pc - 1] = 1
  BY <1>1, <1>3 DEF Tables, Components
<1>7. \A c \in Components : c < pc => memory[pc - 1][c][count[pc - 1]] = memory[pc - 1][c][1]
  BY <1>1, <1>6 DEF Components
<1>8. memory' = [memory EXCEPT ![pc] =
                  [c \in Components |->
                     IF c < pc
                     THEN [@[c] EXCEPT ![count'[pc]] = memory[pc - 1][c][count[pc - 1]]]
                     ELSE @[c]]]
  BY <1>1 DEF MoveEntity
<1>9. memory' = [memory EXCEPT ![pc] =
                  [c \in Components |->
                     IF c < pc
                     THEN [@[c] EXCEPT ![IF pc = 3 THEN star ELSE 1] = memory[pc - 1][c][1]]
                     ELSE @[c]]]
  BY <1>5, <1>7, <1>8
<1> QED
  BY <1>1, <1>4, <1>5, <1>9

LEMMA InvGetMut ==
  ASSUME WorldInv, GetMut
  PROVE  WorldInv'
<1> DEFINE row == IF pc = 3 THEN star ELSE 1
           columns == [c \in Components |->
                         IF c < pc
                         THEN [memory[pc][c] EXCEPT ![row] = memory[pc - 1][c][1]]
                         ELSE memory[pc][c]]
<1>1. /\ ~Created /\ pc \in Components /\ pc' = pc + 1
      /\ UNCHANGED <<star, systemId, steps, toRun, drawn>>
      /\ count' = [n \in Tables |-> IF n = 3 THEN IF pc = 3 THEN star ELSE star - 1
                                    ELSE IF pc = n THEN 1 ELSE 0]
      /\ pointer' = [pointer EXCEPT ![pc] = <<pc, row>>]
      /\ memory' = [memory EXCEPT ![pc] = columns]
  BY GetMutStep
<1>2. /\ StarNum \in Nat /\ MaxSteps \in Nat /\ star \in 1 .. StarNum /\ 1 \in Rows
      /\ star \in Rows /\ steps = 0 /\ toRun = {} /\ Age = 0
      /\ memory \in [Tables -> [Components -> [Rows -> Value]]]
      /\ pointer \in [Components -> Tables \X Rows]
  BY <1>1, Creating
<1>age. Age' = 0
  BY <1>1, <1>2 DEF Age
<1>3. row \in Rows
  BY <1>2
<1>4. columns \in [Components -> [Rows -> Value]]
  <2> SUFFICES ASSUME NEW c \in Components
               PROVE  (IF c < pc THEN [memory[pc][c] EXCEPT ![row] = memory[pc - 1][c][1]]
                       ELSE memory[pc][c]) \in [Rows -> Value]
    OBVIOUS
  <2>1. pc \in Tables /\ memory[pc][c] \in [Rows -> Value]
    BY <1>1, <1>2 DEF Tables, Components
  <2>2. CASE c < pc
    <3>1. pc - 1 \in Tables
      BY <1>1, <2>2 DEF Tables, Components
    <3>2. memory[pc - 1][c][1] \in Value
      BY <1>2, <3>1
    <3> HIDE DEF row
    <3> QED
      BY <1>3, <2>1, <2>2, <3>2
  <2> QED
    BY <2>1, <2>2
<1>5. TypeOK'
  <2>1. memory' \in [Tables -> [Components -> [Rows -> Value]]]
    <3> HIDE DEF columns
    <3> QED
      BY <1>1, <1>2, <1>4
  <2>2. pointer' \in [Components -> Tables \X Rows]
    <3>1. <<pc, row>> \in Tables \X Rows
      BY <1>1, <1>3 DEF Tables, Components
    <3> HIDE DEF row
    <3> QED
      BY <1>1, <1>2, <3>1
  <2>3. count' \in [Tables -> 0 .. StarNum] /\ pc' \in 1 .. 4
    BY <1>1, <1>2 DEF Tables, Components
  <2> QED
    BY <1>1, <2>1, <2>2, <2>3 DEF WorldInv, TypeOK
<1>6. OneOnItsWay'
  <2>1. Entities' = IF pc = 3 THEN star ELSE star - 1
    BY <1>1, <1>2 DEF Entities, Components
  <2>2. count' = [n \in Tables |-> IF n = 3 THEN Entities' ELSE IF pc' = n + 1 THEN 1 ELSE 0]
    BY <1>1, <2>1 DEF Tables, Components
  <2>3. ~Created'
    BY <1>1, <1>2 DEF Created
  <2> QED
    BY <2>2, <2>3 DEF OneOnItsWay
<1>7. PointersStale'
  <2> SUFFICES ASSUME NEW c \in Components, pc + 1 > c
               PROVE  pointer'[c] = <<c, IF c = 3 THEN star ELSE 1>>
    BY <1>1 DEF PointersStale
  <2>1. CASE c = pc
    BY <1>1, <1>2, <2>1
  <2>2. CASE c # pc
    <3>1. pc > c
      BY <1>1, <2>2 DEF Components
    <3> QED
      BY <1>1, <1>2, <2>2, <3>1 DEF WorldInv, PointersStale
  <2> QED
    BY <2>1, <2>2
<1>8. ASSUME NEW n \in Tables, NEW c \in Components
      PROVE  memory'[n][c] =
               IF n = pc /\ c < pc THEN [memory[n][c] EXCEPT ![row] = memory[pc - 1][c][1]]
               ELSE memory[n][c]
  <2>1. CASE n = pc
    BY <1>1, <1>2, <2>1
  <2>2. CASE n # pc
    BY <1>1, <1>2, <2>2
  <2> QED
    BY <2>1, <2>2
<1>9. /\ memory'[1][Transform] = memory[1][Transform]
      /\ memory'[2][Star] = memory[2][Star]
  BY <1>1, <1>8 DEF Tables, Components, Transform, Star
<1>10. LeftBehind'
  <2>1. pc = 2 => memory'[2][Transform][1] = memory[1][Transform][1]
    <3>1. /\ 2 \in Tables /\ Transform \in Components /\ memory[2][Transform] \in [Rows -> Value]
          /\ Transform = 1
      BY <1>2 DEF Tables, Components, Transform
    <3>2. pc = 2 => memory'[2][Transform] = [memory[2][Transform] EXCEPT ![1] = memory[1][Transform][1]]
      <4> SUFFICES ASSUME pc = 2
                   PROVE  memory'[2][Transform] =
                            [memory[2][Transform] EXCEPT ![1] = memory[1][Transform][1]]
        OBVIOUS
      <4>1. row = 1 /\ pc - 1 = 1 /\ Transform < pc
        BY <3>1
      <4> HIDE DEF row
      <4> QED
        BY <1>8, <3>1, <4>1
    <3> QED
      BY <1>2, <3>1, <3>2
  <2>2. pc' = 3 => pc = 2
    BY <1>1 DEF Components
  <2> QED
    BY <1>1, <1>9, <2>1, <2>2 DEF WorldInv, LeftBehind
<1>11. RowsOneTurnLate'
  <2>1. CASE pc # 3
    <3>1. memory'[3] = memory[3] /\ Entities' = Entities
      BY <1>1, <1>2, <2>1 DEF Entities, Tables, Components
    <3> QED
      BY <1>1, <1>2, <1>age, <3>1 DEF WorldInv, RowsOneTurnLate
  <2>2. CASE pc = 3
    <3>1. /\ memory'[3][Color] = memory[3][Color]
          /\ memory'[3][Transform] = [memory[3][Transform] EXCEPT ![star] = memory[2][Transform][1]]
          /\ memory'[3][Star] = [memory[3][Star] EXCEPT ![star] = memory[2][Star][1]]
      <4>1. 3 \in Tables /\ row = star /\ pc - 1 = 2
        BY <2>2 DEF Tables
      <4>2. \A c \in Components : memory'[3][c] =
              IF c < 3 THEN [memory[3][c] EXCEPT ![star] = memory[2][c][1]] ELSE memory[3][c]
        BY <1>8, <2>2, <4>1
      <4> QED
        BY <4>2 DEF Components, Transform, Star, Color
    <3>2. /\ memory[2][Transform][1] = [of |-> star - 1, age |-> 0]
          /\ memory[2][Star][1] = [of |-> star - 1, age |-> 0]
      BY <2>2 DEF WorldInv, LeftBehind
    <3>3. /\ memory[3][Transform] \in [Rows -> Value] /\ memory[3][Star] \in [Rows -> Value]
      BY <1>2 DEF Tables, Components, Transform, Star
    <3>4. Entities' = star /\ Entities = star - 1
      BY <1>1, <2>2 DEF Entities
    <3> SUFFICES ASSUME NEW r \in 1 .. star
                 PROVE  /\ memory'[3][Transform][r] = [of |-> r - 1, age |-> 0]
                        /\ memory'[3][Star][r] = [of |-> r - 1, age |-> 0]
                        /\ r < star => memory'[3][Color][r] = [of |-> r, age |-> 0]
      BY <1>1, <1>age, <3>4 DEF RowsOneTurnLate
    <3>5. r \in Rows
      BY <1>2 DEF Rows
    <3>6. CASE r = star
      BY <1>2, <3>1, <3>2, <3>3, <3>5, <3>6
    <3>7. CASE r # star
      <4>1. r \in 1 .. Entities
        BY <1>2, <3>4, <3>7
      <4>2. /\ memory'[3][Transform][r] = memory[3][Transform][r]
            /\ memory'[3][Star][r] = memory[3][Star][r]
        BY <3>1, <3>3, <3>5, <3>7
      <4> QED
        BY <1>2, <3>1, <4>1, <4>2 DEF WorldInv, RowsOneTurnLate
    <3> QED
      BY <3>6, <3>7
  <2> QED
    BY <2>1, <2>2
<1>12. SystemsOrdered' /\ DrawnLast'
  BY <1>1, SystemsWait
<1> QED
  BY <1>5, <1>6, <1>7, <1>10, <1>11, <1>12 DEF WorldInv

LEMMA InvRandomizeStar ==
  ASSUME WorldInv, RandomizeStar
  PROVE  WorldInv'
<1> DEFINE new == [of |-> star, age |-> 0]
           row(c) == IF c = 3 THEN star ELSE 1
<1>1. /\ ~Created /\ pc = 4 /\ star' = star + 1 /\ pc' = 1
      /\ UNCHANGED <<count, pointer, systemId, steps, toRun, drawn>>
      /\ memory' = [n \in Tables |-> [c \in Components |->
                      IF pointer[c][1] = n
                      THEN [memory[n][c] EXCEPT ![pointer[c][2]] = new]
                      ELSE memory[n][c]]]
  BY DEF RandomizeStar, systemVars
<1>2. /\ StarNum \in Nat /\ MaxSteps \in Nat /\ star \in 1 .. StarNum /\ 1 \in Rows
      /\ star \in Rows /\ steps = 0 /\ toRun = {} /\ Age = 0
      /\ memory \in [Tables -> [Components -> [Rows -> Value]]]
      /\ pointer \in [Components -> Tables \X Rows]
  BY <1>1, Creating
<1>age. Age' = 0
  BY <1>1, <1>2 DEF Age
<1>3. \A c \in Components : pointer[c] = <<c, row(c)>>
  BY <1>1 DEF WorldInv, PointersStale, Components
<1>4. ASSUME NEW n \in Tables, NEW c \in Components
      PROVE  memory'[n][c] = IF n = c THEN [memory[n][c] EXCEPT ![row(c)] = new]
                             ELSE memory[n][c]
  <2>1. pointer[c][1] = c /\ pointer[c][2] = row(c)
    BY <1>3
  <2> HIDE DEF row, new
  <2> QED
    BY <1>1, <2>1
<1>5. TypeOK'
  <2>1. memory' \in [Tables -> [Components -> [Rows -> Value]]]
    <3>1. new \in Value /\ \A c \in Components : row(c) \in Rows
      BY <1>2 DEF Value
    <3> HIDE DEF new, row
    <3>2. ASSUME NEW n \in Tables, NEW c \in Components
          PROVE  memory'[n][c] \in [Rows -> Value]
      <4>1. memory[n][c] \in [Rows -> Value]
        BY <1>2
      <4>2. CASE n = c
        <5>1. memory'[n][c] = [memory[n][c] EXCEPT ![row(c)] = new]
          BY <1>4, <4>2
        <5> QED
          BY <3>1, <4>1, <5>1
      <4>3. CASE n # c
        <5>1. memory'[n][c] = memory[n][c]
          BY <1>4, <4>3
        <5> QED
          BY <4>1, <5>1
      <4> QED
        BY <4>2, <4>3
    <3>3. memory' = [n \in Tables |-> [c \in Components |-> memory'[n][c]]]
      BY <1>1
    <3> QED
      BY <3>2, <3>3
  <2> QED
    BY <1>1, <1>2, <2>1 DEF WorldInv, TypeOK
<1>6. Entities' = star /\ Entities = star
  BY <1>1, <1>2 DEF Entities
<1>7. OneOnItsWay'
  <2>1. count' = [n \in Tables |-> IF n = 3 THEN Entities' ELSE IF pc' = n + 1 THEN 1 ELSE 0]
    BY <1>1, <1>6 DEF WorldInv, OneOnItsWay, Tables
  <2> QED
    BY <1>1, <1>2, <2>1 DEF OneOnItsWay, Created
<1>8. PointersStale'
  BY <1>1 DEF PointersStale, Components
<1>9. /\ 1 \in Tables /\ 2 \in Tables /\ 3 \in Tables
      /\ Transform \in Components /\ Star \in Components /\ Color \in Components
      /\ Transform = 1 /\ Star = 2 /\ Color = 3
  BY DEF Tables, Components, Transform, Star, Color
<1>10. LeftBehind'
  <2>1. /\ memory'[1][Transform] = [memory[1][Transform] EXCEPT ![1] = new]
        /\ memory'[2][Star] = [memory[2][Star] EXCEPT ![1] = new]
    BY <1>4, <1>9
  <2>2. /\ memory'[1][Transform][1] = new /\ memory'[2][Star][1] = new
    BY <1>2, <1>9, <2>1
  <2>3. [of |-> star' - 1, age |-> 0] = new
    <3>1. star \in Int /\ star' - 1 = star
      BY <1>1, <1>2
    <3> QED
      BY <3>1
  <2>4. pc' # 3
    BY <1>1
  <2> HIDE DEF new
  <2> QED
    BY <2>2, <2>3, <2>4 DEF LeftBehind
<1>11. RowsOneTurnLate'
  <2>1. /\ memory'[3][Transform] = memory[3][Transform]
        /\ memory'[3][Star] = memory[3][Star]
        /\ memory'[3][Color] = [memory[3][Color] EXCEPT ![star] = new]
    <3> HIDE DEF new
    <3>1. row(Color) = star
      BY <1>9
    <3> HIDE DEF row
    <3>2. memory'[3][Transform] = memory[3][Transform]
      <4>1. 3 \in Tables /\ Transform \in Components /\ 3 # Transform
        BY <1>9
      <4> QED
        BY <1>4, <4>1
    <3>3. memory'[3][Star] = memory[3][Star]
      <4>1. 3 \in Tables /\ Star \in Components /\ 3 # Star
        BY <1>9
      <4> QED
        BY <1>4, <4>1
    <3>4. memory'[3][Color] = [memory[3][Color] EXCEPT ![row(Color)] = new]
      BY <1>4, <1>9
    <3> QED
      BY <3>1, <3>2, <3>3, <3>4
  <2>2. memory[3][Color] \in [Rows -> Value]
    BY <1>2, <1>9
  <2>3. ASSUME NEW r \in 1 .. star
        PROVE  memory'[3][Color][r] = [of |-> r, age |-> 0]
    <3>1. r \in Rows
      BY <1>2 DEF Rows
    <3>2. CASE r = star
      BY <2>1, <2>2, <3>1, <3>2
    <3>3. CASE r # star
      <4>1. r < star /\ memory'[3][Color][r] = memory[3][Color][r]
        BY <1>2, <2>1, <2>2, <3>1, <3>3
      <4> QED
        BY <1>6, <4>1 DEF WorldInv, RowsOneTurnLate
    <3> QED
      BY <3>2, <3>3
  <2>4. Entities' = star /\ Entities = star /\ steps' = steps
    BY <1>1, <1>6
  <2>5. ASSUME NEW r \in 1 .. star
        PROVE  /\ memory[3][Transform][r] = [of |-> r - 1, age |-> 0]
               /\ memory[3][Star][r] = [of |-> r - 1, age |-> 0]
    BY <1>2, <2>4 DEF WorldInv, RowsOneTurnLate
  <2>6. ASSUME NEW r \in 1 .. star
        PROVE  /\ memory'[3][Transform][r] = [of |-> r - 1, age |-> 0]
               /\ memory'[3][Star][r] = [of |-> r - 1, age |-> 0]
    BY <2>1, <2>4, <2>5
  <2> QED
    BY <1>age, <2>3, <2>4, <2>6 DEF RowsOneTurnLate
<1>12. SystemsOrdered' /\ DrawnLast'
  BY <1>1, SystemsWait
<1> QED
  BY <1>5, <1>7, <1>8, <1>10, <1>11, <1>12 DEF WorldInv

---------------------------------------------------------------------------
(* The steps of the world.                                                 *)

(* The systems are given ids in the order in which world_new creates them. *)
LEMMA InvSystemInit ==
  ASSUME WorldInv, NEW s \in Systems, SystemInit(s)
  PROVE  WorldInv'
<1>1. /\ Created /\ systemId[s] = 0 /\ (s = "draw" => systemId["orbit"] > 0)
      /\ systemId' = [systemId EXCEPT ![s] = NewId]
      /\ UNCHANGED <<memory, count, pointer, star, pc, steps, toRun, drawn>>
  BY DEF SystemInit, starVars
<1>2. /\ StarNum \in Nat /\ star = StarNum + 1 /\ systemId \in [Systems -> Ids \cup {0}]
  BY <1>1, StarNumAssumption DEF WorldInv, TypeOK, OneOnItsWay, Created
<1>3. \A q \in Systems : systemId[q] \in Nat
  BY <1>2 DEF Ids
<1>4. systemId["draw"] > 0 => systemId["orbit"] > 0
  BY DEF WorldInv, SystemsOrdered
<1>5. s = "draw" \/ (s = "orbit" /\ systemId["draw"] = 0)
  BY <1>1, <1>3, <1>4 DEF Systems
<1>6. NewId = StarNum + 1 + (IF s = "draw" THEN 1 ELSE 0)
  BY <1>1, <1>2, <1>3, <1>5 DEF NewId, Systems
<1>7. NewId \in Ids
  BY <1>2, <1>5, <1>6 DEF Ids
<1>8. systemId' \in [Systems -> Ids \cup {0}]
  BY <1>1, <1>2, <1>7
<1>9. TypeOK'
  BY <1>1, <1>8 DEF WorldInv, TypeOK
<1>10. steps = 0 /\ toRun = {}
  <2>1. systemId["draw"] = 0
    BY <1>1, <1>5
  <2> QED
    BY <2>1 DEF WorldInv, SystemsOrdered, TypeOK
<1>11. SystemsOrdered'
  <2>1. s = "draw" => systemId'["draw"] = StarNum + 2 /\ systemId'["orbit"] = systemId["orbit"]
    BY <1>1, <1>2, <1>6 DEF Systems
  <2>2. s = "orbit" => systemId'["draw"] = 0
    BY <1>1, <1>2, <1>5 DEF Systems
  <2>3. \A q \in Systems : systemId[q] < NewId
    BY DEF WorldInv, SystemsOrdered
  <2>4. NewId' = NewId + 1
    BY <1>1, <1>2, <1>3, <1>5, <1>6, <2>1, <2>2 DEF NewId, Systems
  <2>5. \A q \in Systems : systemId'[q] < NewId'
    <3> SUFFICES ASSUME NEW q \in Systems PROVE systemId'[q] < NewId'
      OBVIOUS
    <3>1. NewId \in Int /\ NewId < NewId'
      BY <1>2, <1>6, <2>4
    <3>2. systemId'[q] = IF q = s THEN NewId ELSE systemId[q]
      BY <1>1, <1>2
    <3> QED
      BY <1>3, <2>3, <2>4, <3>1, <3>2
  <2>6. s = "draw" => systemId["orbit"] < StarNum + 2
    BY <1>2, <1>6, <2>3 DEF Systems
  <2> QED
    BY <1>1, <1>2, <1>5, <1>10, <2>1, <2>2, <2>5, <2>6 DEF SystemsOrdered, Created
<1>12. OneOnItsWay' /\ PointersStale' /\ LeftBehind' /\ RowsOneTurnLate' /\ DrawnLast'
  BY <1>1, <1>10
  DEF WorldInv, OneOnItsWay, PointersStale, LeftBehind, RowsOneTurnLate, DrawnLast, Entities,
      Created, Age
<1> QED
  BY <1>9, <1>11, <1>12 DEF WorldInv

LEMMA InvWorldStep ==
  ASSUME WorldInv, WorldStep
  PROVE  WorldInv'
<1>1. /\ \A s \in Systems : systemId[s] > 0
      /\ toRun = {} /\ steps < MaxSteps /\ steps' = steps + 1 /\ toRun' = Systems
      /\ UNCHANGED <<memory, count, pointer, star, pc, systemId, drawn>>
  BY DEF WorldStep, starVars
<1>2. steps \in 0 .. MaxSteps /\ MaxSteps \in Nat
  BY MaxStepsAssumption DEF WorldInv, TypeOK
<1>3. TypeOK'
  BY <1>1, <1>2 DEF WorldInv, TypeOK
<1>4. Age = steps /\ Age' = steps
  BY <1>1, <1>2 DEF Age, Systems
<1>5. RowsOneTurnLate'
  BY <1>1, <1>4 DEF WorldInv, RowsOneTurnLate, Entities
<1>6. OneOnItsWay' /\ PointersStale' /\ LeftBehind'
  BY <1>1 DEF WorldInv, OneOnItsWay, PointersStale, LeftBehind, Entities, Created
<1>7. SystemsOrdered' /\ DrawnLast'
  BY <1>1, <1>2 DEF WorldInv, SystemsOrdered, DrawnLast, Systems, Created, NewId
<1> QED
  BY <1>3, <1>5, <1>6, <1>7 DEF WorldInv

(* While systems run, all stars and both systems exist.                    *)
LEMMA Running ==
  ASSUME WorldInv, toRun # {}
  PROVE  /\ Created /\ StarNum \in Nat /\ MaxSteps \in Nat /\ star = StarNum + 1 /\ pc = 1
         /\ steps \in 1 .. MaxSteps
         /\ count[3] = StarNum /\ Entities = StarNum
         /\ memory \in [Tables -> [Components -> [Rows -> Value]]]
<1>1. steps \in 1 .. MaxSteps /\ MaxSteps \in Nat
  BY MaxStepsAssumption DEF WorldInv, TypeOK, SystemsOrdered
<1>2. Created
  BY <1>1 DEF WorldInv, SystemsOrdered, Systems
<1>3. StarNum \in Nat /\ star = StarNum + 1 /\ pc = 1
  BY <1>2, StarNumAssumption DEF WorldInv, TypeOK, OneOnItsWay, Created
<1>4. count[3] = StarNum /\ Entities = StarNum
  BY <1>3 DEF WorldInv, OneOnItsWay, Entities, Tables
<1> QED
  BY <1>1, <1>2, <1>3, <1>4 DEF WorldInv, TypeOK

(* What the orbit system moves on.                                         *)
LEMMA OrbitFacts ==
  ASSUME WorldInv, Orbit
  PROVE  /\ toRun = Systems /\ toRun' = {"draw"} /\ Age = steps - 1 /\ Age' = steps
         /\ UNCHANGED <<count, pointer, star, pc, systemId, steps, drawn>>
         /\ memory' \in [Tables -> [Components -> [Rows -> Value]]]
         /\ memory'[1] = memory[1] /\ memory'[2] = memory[2]
         /\ memory'[3][Color] = memory[3][Color]
         /\ \A c \in {Transform, Star}, r \in 1 .. count[3] :
              memory'[3][c][r] = [memory[3][c][r] EXCEPT !.age = @ + 1]
<1> DEFINE moved(column) ==
             [r \in Rows |-> IF r <= count[3] THEN [column[r] EXCEPT !.age = @ + 1]
                             ELSE column[r]]
           columns == [memory[3] EXCEPT ![Transform] = moved(@), ![Star] = moved(@)]
<1>1. /\ "orbit" \in toRun /\ toRun' = toRun \ {"orbit"}
      /\ UNCHANGED <<count, pointer, star, pc, systemId, steps, drawn>>
      /\ memory' = [memory EXCEPT ![3] = columns]
  BY DEF Orbit, RunsNext, Orbited, starVars
<1>2. /\ StarNum \in Nat /\ MaxSteps \in Nat /\ steps \in 1 .. MaxSteps
      /\ memory \in [Tables -> [Components -> [Rows -> Value]]]
      /\ count[3] = StarNum /\ Entities = StarNum
  BY <1>1, Running
<1>3. toRun = Systems /\ toRun' = {"draw"} /\ Age = steps - 1 /\ Age' = steps
  BY <1>1 DEF WorldInv, SystemsOrdered, Systems, Age
<1>4. /\ 1 \in Tables /\ 2 \in Tables /\ 3 \in Tables
      /\ Transform \in Components /\ Star \in Components /\ Color \in Components
      /\ Transform # Star /\ Transform # Color /\ Star # Color
  BY DEF Tables, Components, Transform, Star, Color
<1>5. ASSUME NEW c \in {Transform, Star}
      PROVE  /\ moved(memory[3][c]) \in [Rows -> Value]
             /\ \A r \in 1 .. count[3] :
                  moved(memory[3][c])[r] = [memory[3][c][r] EXCEPT !.age = @ + 1]
  <2>1. moved(memory[3][c]) = [r \in Rows |-> [memory[3][c][r] EXCEPT !.age = @ + 1]]
    BY <1>2 DEF Rows
  <2>2. ASSUME NEW r \in Rows
        PROVE  [memory[3][c][r] EXCEPT !.age = @ + 1] \in Value
    <3>1. memory[3][c][r] = [of |-> r - 1, age |-> steps - 1]
      BY <1>2, <1>3 DEF WorldInv, RowsOneTurnLate, Rows
    <3>2. [memory[3][c][r] EXCEPT !.age = @ + 1] = [of |-> r - 1, age |-> steps]
      BY <1>2, <3>1
    <3>3. r - 1 \in 0 .. StarNum /\ steps \in 0 .. MaxSteps
      BY <1>1, <1>2 DEF Rows
    <3> QED
      BY <3>2, <3>3 DEF Value
  <2> HIDE DEF moved
  <2> QED
    BY <1>2, <2>1, <2>2 DEF Rows
<1>6. /\ columns[Transform] = moved(memory[3][Transform])
      /\ columns[Star] = moved(memory[3][Star])
      /\ columns[Color] = memory[3][Color]
      /\ columns \in [Components -> [Rows -> Value]]
  <2>1. memory[3] \in [Components -> [Rows -> Value]]
    BY <1>2, <1>4
  <2>2. moved(memory[3][Transform]) \in [Rows -> Value] /\ moved(memory[3][Star]) \in [Rows -> Value]
    BY <1>5
  <2> HIDE DEF moved
  <2> QED
    BY <1>4, <2>1, <2>2
<1> HIDE DEF columns
<1>7. /\ memory'[3] = columns /\ memory'[1] = memory[1] /\ memory'[2] = memory[2]
      /\ memory' \in [Tables -> [Components -> [Rows -> Value]]]
  BY <1>1, <1>2, <1>4, <1>6
<1> HIDE DEF moved
<1> QED
  BY <1>1, <1>2, <1>3, <1>5, <1>6, <1>7

LEMMA InvOrbit ==
  ASSUME WorldInv, Orbit
  PROVE  WorldInv'
<1>1. /\ toRun = Systems /\ toRun' = {"draw"} /\ Age = steps - 1 /\ Age' = steps
      /\ UNCHANGED <<count, pointer, star, pc, systemId, steps, drawn>>
      /\ memory' \in [Tables -> [Components -> [Rows -> Value]]]
      /\ memory'[1] = memory[1] /\ memory'[2] = memory[2]
      /\ memory'[3][Color] = memory[3][Color]
      /\ \A c \in {Transform, Star}, r \in 1 .. count[3] :
           memory'[3][c][r] = [memory[3][c][r] EXCEPT !.age = @ + 1]
  BY OrbitFacts
<1>2. /\ StarNum \in Nat /\ MaxSteps \in Nat /\ steps \in 1 .. MaxSteps
      /\ star = StarNum + 1 /\ pc = 1 /\ Created
      /\ count[3] = StarNum /\ Entities = StarNum
  BY <1>1, Running DEF Systems
<1>3. Entities' = StarNum
  BY <1>1, <1>2 DEF Entities
<1>4. SystemsOrdered' /\ DrawnLast'
  BY <1>1 DEF WorldInv, SystemsOrdered, DrawnLast, Systems, Created, NewId
<1>5. TypeOK'
  BY <1>1 DEF WorldInv, TypeOK, Systems
<1>6. OneOnItsWay' /\ PointersStale' /\ LeftBehind'
  BY <1>1, <1>2 DEF WorldInv, OneOnItsWay, PointersStale, LeftBehind, Entities, Created
<1>7. RowsOneTurnLate'
  <2> SUFFICES ASSUME NEW r \in 1 .. StarNum
               PROVE  /\ memory'[3][Transform][r] = [of |-> r - 1, age |-> steps]
                      /\ memory'[3][Star][r] = [of |-> r - 1, age |-> steps]
                      /\ memory'[3][Color][r] = [of |-> r, age |-> 0]
    BY <1>1, <1>3 DEF RowsOneTurnLate
  <2>1. /\ memory[3][Transform][r] = [of |-> r - 1, age |-> steps - 1]
        /\ memory[3][Star][r] = [of |-> r - 1, age |-> steps - 1]
        /\ memory[3][Color][r] = [of |-> r, age |-> 0]
    BY <1>1, <1>2 DEF WorldInv, RowsOneTurnLate
  <2>2. /\ memory'[3][Transform][r] = [memory[3][Transform][r] EXCEPT !.age = @ + 1]
        /\ memory'[3][Star][r] = [memory[3][Star][r] EXCEPT !.age = @ + 1]
    BY <1>1, <1>2
  <2>3. steps - 1 + 1 = steps
    BY <1>2
  <2> QED
    BY <1>1, <2>1, <2>2, <2>3
<1> QED
  BY <1>4, <1>5, <1>6, <1>7 DEF WorldInv

(* The draw system runs last: its lines are at the positions of the step.  *)
LEMMA InvDraw ==
  ASSUME WorldInv, Draw
  PROVE  WorldInv'
<1>1. /\ "draw" \in toRun /\ \A s \in toRun : systemId["draw"] <= systemId[s]
      /\ drawn' = Draws(memory[3]) /\ toRun' = toRun \ {"draw"}
      /\ UNCHANGED <<memory, count, pointer, star, pc, systemId, steps>>
  BY DEF Draw, RunsNext, starVars
<1>2. /\ StarNum \in Nat /\ count[3] = StarNum /\ steps \in 1 .. MaxSteps
      /\ memory \in [Tables -> [Components -> [Rows -> Value]]]
  BY <1>1, Running
<1>3. toRun = {"draw"} /\ toRun' = {}
  <2>1. systemId["draw"] > 0 /\ systemId \in [Systems -> Ids \cup {0}]
    BY <1>2 DEF WorldInv, SystemsOrdered, TypeOK
  <2>2. "orbit" \notin toRun
    BY <1>1, <2>1, StarNumAssumption DEF WorldInv, SystemsOrdered, Systems, Ids
  <2> QED
    BY <1>1, <2>2 DEF WorldInv, TypeOK, Systems
<1>4. drawn' \in Seq([position : Value, color : Value])
  <2> DEFINE R == [position : Value, color : Value]
             d(r) == [position |-> memory[3][Transform][r], color |-> memory[3][Color][r]]
  <2>1. ASSUME NEW r \in 1 .. StarNum
        PROVE  d(r) \in R
    <3>1. 3 \in Tables /\ Transform \in Components /\ Color \in Components /\ r \in Rows
      BY DEF Tables, Components, Rows, Transform, Color
    <3>2. memory[3][Transform][r] \in Value /\ memory[3][Color][r] \in Value
      BY <1>2, <3>1
    <3> QED
      BY <3>2
  <2>2. drawn' = [r \in 1 .. StarNum |-> d(r)]
    BY <1>1, <1>2 DEF Draws
  <2> HIDE DEF R, d
  <2>3. drawn' \in Seq(R)
    BY <1>2, <2>1, <2>2
  <2> QED
    BY <2>3 DEF R
<1>5. TypeOK'
  BY <1>1, <1>3, <1>4 DEF WorldInv, TypeOK
<1>6. Age' = Age
  BY <1>1, <1>3 DEF Age
<1>7. OneOnItsWay' /\ PointersStale' /\ LeftBehind' /\ RowsOneTurnLate'
  BY <1>1, <1>6
  DEF WorldInv, OneOnItsWay, PointersStale, LeftBehind, RowsOneTurnLate, Entities, Created
<1>8. SystemsOrdered'
  BY <1>1, <1>3 DEF WorldInv, SystemsOrdered, Created, NewId
<1>9. DrawnLast'
  BY <1>1 DEF DrawnLast, Draws
<1> QED
  BY <1>5, <1>7, <1>8, <1>9 DEF WorldInv

---------------------------------------------------------------------------
(* The theorems.                                                           *)

LEMMA InvNext == WorldInv /\ [Next]_vars => WorldInv'
<1> SUFFICES ASSUME WorldInv, [Next]_vars PROVE WorldInv'
  OBVIOUS
<1>1. CASE GetMut
  BY <1>1, InvGetMut
<1>2. CASE RandomizeStar
  BY <1>2, InvRandomizeStar
<1>3. CASE \E s \in Systems : SystemInit(s)
  BY <1>3, InvSystemInit
<1>4. CASE WorldStep
  BY <1>4, InvWorldStep
<1>5. CASE Orbit
  BY <1>5, InvOrbit
<1>6. CASE Draw
  BY <1>6, InvDraw
<1>7. CASE Done \/ UNCHANGED vars
  <2>1. UNCHANGED <<memory, count, pointer, star, pc, systemId, steps, toRun, drawn>>
    BY <1>7 DEF Done, vars, starVars, systemVars
  <2>2. TypeOK' /\ PointersStale' /\ LeftBehind'
    BY <2>1 DEF WorldInv, TypeOK, PointersStale, LeftBehind
  <2>3. Entities' = Entities /\ (Created' <=> Created) /\ Age' = Age /\ NewId' = NewId
    BY <2>1 DEF Entities, Created, Age, NewId
  <2>4. OneOnItsWay' /\ RowsOneTurnLate'
    BY <2>1, <2>3 DEF WorldInv, OneOnItsWay, RowsOneTurnLate
  <2>5. SystemsOrdered' /\ DrawnLast'
    BY <2>1, <2>3 DEF WorldInv, SystemsOrdered, DrawnLast, Draws
  <2> QED
    BY <2>2, <2>4, <2>5 DEF WorldInv
<1> QED
  BY <1>1, <1>2, <1>3, <1>4, <1>5, <1>6, <1>7 DEF Next

(* What world_new's loop and the two systems leave in the store: one       *)
(* entity at most is being built, row r has the transform and star of turn  *)
(* r - 1 with the colour of turn r, at the age of the world, and of the    *)
(* systems that a step has yet to run the orbit system is not the last.    *)
THEOREM WorldInvariant == Spec => []WorldInv
<1>1. Init => WorldInv
  BY InvInit
<1>2. WorldInv /\ [Next]_vars => WorldInv'
  BY InvNext
<1> QED
  BY <1>1, <1>2, PTL DEF Spec

(* However many stars world_new creates through its stale pointers, each   *)
(* but the first has a velocity made for its position, which no other has. *)
THEOREM StarsStayWhole == Spec => []StarsWhole
<1>1. WorldInv => StarsWhole
  <2> SUFFICES ASSUME WorldInv, Created PROVE StarsWhole
    BY DEF StarsWhole
  <2>1. /\ StarNum \in Nat /\ star = StarNum + 1 /\ pc = 1
    BY StarNumAssumption DEF WorldInv, TypeOK, OneOnItsWay, Created
  <2>2. count[3] = StarNum /\ Entities = StarNum
    BY <2>1 DEF WorldInv, OneOnItsWay, Entities, Tables
  <2>3. ASSUME NEW r \in 2 .. StarNum
        PROVE  /\ memory[3][Transform][r] = memory[3][Star][r]
               /\ Of(r, Transform) = r - 1
               /\ Of(r, Color) = r
    <3>1. r \in 1 .. Entities /\ r < star
      BY <2>1, <2>2
    <3>2. /\ memory[3][Transform][r] = [of |-> r - 1, age |-> Age]
          /\ memory[3][Star][r] = [of |-> r - 1, age |-> Age]
          /\ memory[3][Color][r] = [of |-> r, age |-> 0]
      BY <3>1 DEF WorldInv, RowsOneTurnLate
    <3> QED
      BY <3>2 DEF Of
  <2>4. \A r \in 2 .. StarNum : r - 1 > 0 /\ \A q \in 2 .. StarNum : q # r => q - 1 # r - 1
    BY <2>1
  <2> QED
    BY <2>2, <2>3, <2>4 DEF StarsWhole
<1> QED
  BY <1>1, WorldInvariant, PTL

(* Every step of the world draws one line for each star where that step    *)
(* has moved it, because world_new creates the orbit system first and ids  *)
(* only grow.                                                              *)
THEOREM LinesFollowStars == Spec => []DrawsAfterOrbit
<1>1. WorldInv => DrawsAfterOrbit
  <2> SUFFICES ASSUME WorldInv, steps > 0, toRun = {} PROVE DrawsAfterOrbit
    BY DEF DrawsAfterOrbit
  <2>1. Created
    BY DEF WorldInv, SystemsOrdered, Systems
  <2>2. StarNum \in Nat /\ star = StarNum + 1 /\ pc = 1
    BY <2>1, StarNumAssumption DEF WorldInv, TypeOK, OneOnItsWay, Created
  <2>3. count[3] = StarNum
    BY <2>2 DEF WorldInv, OneOnItsWay, Entities, Tables
  <2> QED
    BY <2>3 DEF WorldInv, DrawnLast, Draws, DrawsAfterOrbit
<1> QED
  BY <1>1, WorldInvariant, PTL
=============================================================================
