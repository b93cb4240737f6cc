---------------------------- MODULE Main_proofs ----------------------------
(***************************************************************************)
(* Proofs about Main, for any number of images, acquire semaphores and     *)
(* frames: the invariant MainInv of Main holds, so nothing dangles while the  *)
(* program creates and destroys its handles, what is destroyed without a   *)
(* test exists, and a normal exit leaves nothing behind; and a request to  *)
(* end the program is kept and brings the end nearer with each step.       *)
(***************************************************************************)
EXTENDS Main, TLAPS

(* A sequence of whatever it contains.                                     *)
IsSeq(s) == s \in Seq(ToSet(s))

(* The elements of a sequence are those at its indices.                    *)
LEMMA SeqElements ==
  ASSUME NEW T, NEW s \in Seq(T)
  PROVE  /\ IsSeq(s)
         /\ ToSet(s) \subseteq T
         /\ DOMAIN s = 1 .. Len(s) /\ Len(s) \in Nat
         /\ \A i \in 1 .. Len(s) : s[i] \in ToSet(s)
         /\ \A x : x \in ToSet(s) <=> \E i \in 1 .. Len(s) : x = s[i]
<1>1. Len(s) \in Nat /\ DOMAIN s = 1 .. Len(s) /\ \A i \in 1 .. Len(s) : s[i] \in T
  OBVIOUS
<1>2. \A i \in 1 .. Len(s) : s[i] \in ToSet(s)
  BY <1>1 DEF ToSet
<1>3. \A x : x \in ToSet(s) <=> \E i \in 1 .. Len(s) : x = s[i]
  BY <1>1 DEF ToSet
<1>4. IsSeq(s)
  <2>1. s = [i \in 1 .. Len(s) |-> s[i]]
    OBVIOUS
  <2>2. s \in [1 .. Len(s) -> ToSet(s)]
    BY <2>1, <1>2
  <2> QED BY <2>2, <1>1 DEF IsSeq
<1> QED BY <1>1, <1>2, <1>3, <1>4

(* Two sequences one after the other.                                      *)
LEMMA SeqConcat ==
  ASSUME NEW s, NEW t, IsSeq(s), IsSeq(t)
  PROVE  /\ IsSeq(s \o t)
         /\ Len(s \o t) = Len(s) + Len(t)
         /\ ToSet(s \o t) = ToSet(s) \cup ToSet(t)
         /\ \A i \in 1 .. Len(s) : (s \o t)[i] = s[i]
         /\ \A i \in 1 .. Len(t) : (s \o t)[Len(s) + i] = t[i]
<1> DEFINE U == ToSet(s) \cup ToSet(t)
<1>1. s \in Seq(U) /\ t \in Seq(U)
  BY DEF IsSeq
<1>2. Len(s) \in Nat /\ Len(t) \in Nat
  BY <1>1
<1>3. s \o t \in Seq(U) /\ Len(s \o t) = Len(s) + Len(t)
  BY <1>1
<1>4. \A i \in 1 .. Len(s) : (s \o t)[i] = s[i]
  BY <1>1
<1>5. \A i \in 1 .. Len(t) : (s \o t)[Len(s) + i] = t[i]
  BY <1>1, <1>2
<1>6. ToSet(s) \subseteq ToSet(s \o t)
  <2> SUFFICES ASSUME NEW i \in 1 .. Len(s)
               PROVE  s[i] \in ToSet(s \o t)
    BY <1>1, SeqElements
  <2>1. i \in 1 .. Len(s \o t)
    BY <1>2, <1>3
  <2> QED BY <2>1, <1>3, <1>4, SeqElements
<1>7. ToSet(t) \subseteq ToSet(s \o t)
  <2> SUFFICES ASSUME NEW i \in 1 .. Len(t)
               PROVE  t[i] \in ToSet(s \o t)
    BY <1>1, SeqElements
  <2>1. Len(s) + i \in 1 .. Len(s \o t)
    BY <1>2, <1>3
  <2> QED BY <2>1, <1>3, <1>5, SeqElements
<1>8. ToSet(s \o t) \subseteq U /\ IsSeq(s \o t)
  BY <1>3, SeqElements
<1> QED BY <1>3, <1>4, <1>5, <1>6, <1>7, <1>8

LEMMA SeqSecond ==
  ASSUME NEW s, NEW t, IsSeq(s), IsSeq(t), NEW i \in 1 .. Len(t), NEW k, k = Len(s) + i
  PROVE  (s \o t)[k] = t[i]
<1>1. \A j \in 1 .. Len(t) : (s \o t)[Len(s) + j] = t[j]
  BY SeqConcat
<1> QED BY <1>1

(* Short sequences.                                                        *)
LEMMA SeqOfOne ==
  ASSUME NEW a
  PROVE  IsSeq(<<a>>) /\ Len(<<a>>) = 1 /\ <<a>>[1] = a /\ ToSet(<<a>>) = {a}
<1> DEFINE s == <<a>>
<1>1. s \in Seq({a}) /\ Len(s) = 1 /\ s[1] = a
  OBVIOUS
<1> HIDE DEF s
<1>2. ToSet(s) \subseteq {a} /\ s[1] \in ToSet(s) /\ IsSeq(s)
  BY <1>1, SeqElements
<1>3. IsSeq(s) /\ Len(s) = 1 /\ s[1] = a /\ ToSet(s) = {a}
  BY <1>1, <1>2
<1> QED BY <1>3 DEF s

LEMMA SeqOfTwo ==
  ASSUME NEW a, NEW b
  PROVE  /\ IsSeq(<<a, b>>) /\ Len(<<a, b>>) = 2 /\ ToSet(<<a, b>>) = {a, b}
         /\ <<a, b>>[1] = a /\ <<a, b>>[2] = b
<1> DEFINE s == <<a, b>>
<1>1. s \in Seq({a, b}) /\ Len(s) = 2 /\ s[1] = a /\ s[2] = b
  OBVIOUS
<1> HIDE DEF s
<1>2. ToSet(s) \subseteq {a, b} /\ s[1] \in ToSet(s) /\ s[2] \in ToSet(s) /\ IsSeq(s)
  BY <1>1, SeqElements
<1>3. ToSet(s) = {a, b}
  BY <1>1, <1>2
<1> QED BY <1>1, <1>2, <1>3 DEF s

LEMMA SeqOfThree ==
  ASSUME NEW a, NEW b, NEW c
  PROVE  /\ IsSeq(<<a, b, c>>) /\ Len(<<a, b, c>>) = 3 /\ ToSet(<<a, b, c>>) = {a, b, c}
         /\ <<a, b, c>>[1] = a /\ <<a, b, c>>[2] = b /\ <<a, b, c>>[3] = c
<1> DEFINE s == <<a, b, c>>
<1>1. s \in Seq({a, b, c}) /\ Len(s) = 3 /\ s[1] = a /\ s[2] = b /\ s[3] = c
  OBVIOUS
<1> HIDE DEF s
<1>2. /\ ToSet(s) \subseteq {a, b, c} /\ IsSeq(s)
      /\ s[1] \in ToSet(s) /\ s[2] \in ToSet(s) /\ s[3] \in ToSet(s)
  BY <1>1, SeqElements
<1>3. ToSet(s) = {a, b, c}
  BY <1>1, <1>2
<1> QED BY <1>1, <1>2, <1>3 DEF s

LEMMA NoElements == IsSeq(<<>>) /\ Len(<<>>) = 0 /\ ToSet(<<>>) = {}
<1>1. Len(<<>>) = 0 /\ DOMAIN <<>> = {} /\ \A T : <<>> \in Seq(T)
  OBVIOUS
<1>2. ToSet(<<>>) = {}
  BY <1>1 DEF ToSet
<1> QED BY <1>1, <1>2 DEF IsSeq

---------------------------------------------------------------------------
(* What the loops make, index by index.                                    *)

LEMMA EachImage ==
  /\ IsSeq(Each(ImageNum, Image))
  /\ Len(Each(ImageNum, Image)) = 2 * ImageNum
  /\ \A i \in 1 .. ImageNum : /\ Each(ImageNum, Image)[2 * i - 1] = <<"view", i>>
                              /\ Each(ImageNum, Image)[2 * i] = <<"framebuffer", i>>
<1> DEFINE B == [i \in 1 .. ImageNum |-> Image(i)]
           E == Each(ImageNum, Image)
<1> USE ImageNumAssumption
<1>1. Len(B) = ImageNum
  OBVIOUS
<1>2. Len(Image(1)) = 2
  BY DEF Image
<1>3. E = [k \in 1 .. ImageNum * 2 |-> B[((k - 1) \div 2) + 1][((k - 1) % 2) + 1]]
  <2>1. E = Joined(B, Len(Image(1)))
    BY DEF Each
  <2> HIDE DEF B
  <2> QED BY <2>1, <1>1, <1>2 DEF Joined
<1>4. E \in Seq(ToSet(E)) /\ Len(E) = ImageNum * 2
  <2> HIDE DEF B
  <2>1. DOMAIN E = 1 .. ImageNum * 2
    BY <1>3
  <2>2. ImageNum * 2 \in Nat
    OBVIOUS
  <2> HIDE DEF E
  <2>3. E = [k \in 1 .. ImageNum * 2 |-> E[k]]
    BY <2>1, <1>3
  <2>4. E \in [1 .. ImageNum * 2 -> ToSet(E)]
    BY <2>1, <2>3 DEF ToSet
  <2> QED BY <2>2, <2>4
<1>5. ASSUME NEW i \in 1 .. ImageNum
      PROVE  E[2 * i - 1] = <<"view", i>> /\ E[2 * i] = <<"framebuffer", i>>
  <2>1. 2 * i - 1 \in 1 .. ImageNum * 2 /\ 2 * i \in 1 .. ImageNum * 2
    OBVIOUS
  <2>2. (((2 * i - 1) - 1) \div 2) + 1 = i /\ (((2 * i - 1) - 1) % 2) + 1 = 1
    OBVIOUS
  <2>3. ((2 * i - 1) \div 2) + 1 = i /\ ((2 * i - 1) % 2) + 1 = 2
    OBVIOUS
  <2>4. B[i] = <<<<"view", i>>, <<"framebuffer", i>>>>
    BY DEF Image
  <2> HIDE DEF B, E
  <2>5. E[2 * i - 1] = B[i][1] /\ E[2 * i] = B[i][2]
    BY <1>3, <2>1, <2>2, <2>3
  <2> QED BY <2>4, <2>5
<1>6. \A i \in 1 .. ImageNum : E[2 * i - 1] = <<"view", i>> /\ E[2 * i] = <<"framebuffer", i>>
  BY <1>5
<1>7. 2 * ImageNum = ImageNum * 2
  OBVIOUS
<1> HIDE DEF E
<1>8. Len(E) = 2 * ImageNum /\ IsSeq(E)
  BY <1>4, <1>7 DEF IsSeq
<1> QED BY <1>6, <1>8 DEF E

(* A loop that makes one handle in each turn.                              *)
LEMMA JoinedSingles ==
  ASSUME NEW n \in Nat, NEW b, NEW h,
         b = [i \in 1 .. n |-> <<h[i]>>], DOMAIN h = 1 .. n, h = [i \in 1 .. n |-> h[i]]
  PROVE  Joined(b, 1) = h
<1>1. Len(b) = n
  OBVIOUS
<1>2. n * 1 = n
  OBVIOUS
<1>3. Joined(b, 1) = [k \in 1 .. n |-> b[((k - 1) \div 1) + 1][((k - 1) % 1) + 1]]
  BY <1>1, <1>2 DEF Joined
<1>4. ASSUME NEW k \in 1 .. n
      PROVE  b[((k - 1) \div 1) + 1][((k - 1) % 1) + 1] = h[k]
  <2>1. ((k - 1) \div 1) + 1 = k /\ ((k - 1) % 1) + 1 = 1
    OBVIOUS
  <2> QED BY <2>1
<1> HIDE DEF Joined
<1> QED BY <1>3, <1>4

LEMMA EachSemaphore ==
  /\ IsSeq(Each(AcquireNum, Semaphore))
  /\ Len(Each(AcquireNum, Semaphore)) = AcquireNum
  /\ \A i \in 1 .. AcquireNum : Each(AcquireNum, Semaphore)[i] = <<"on_image_acquire", i>>
<1> DEFINE B == [i \in 1 .. AcquireNum |-> Semaphore(i)]
           H == [i \in 1 .. AcquireNum |-> <<"on_image_acquire", i>>]
           E == Each(AcquireNum, Semaphore)
<1> USE AcquireNumAssumption
<1>1. B = [i \in 1 .. AcquireNum |-> <<H[i]>>]
  BY DEF Semaphore
<1>2. E = Joined(B, 1)
  <2>1. Len(Semaphore(1)) = 1
    BY DEF Semaphore
  <2>2. E = Joined(B, Len(Semaphore(1)))
    BY DEF Each
  <2> QED BY <2>1, <2>2
<1>3. DOMAIN H = 1 .. AcquireNum /\ H = [i \in 1 .. AcquireNum |-> H[i]]
  OBVIOUS
<1>4. Len(H) = AcquireNum /\ \A i \in 1 .. AcquireNum : H[i] = <<"on_image_acquire", i>>
  OBVIOUS
<1>5. H \in Seq({H[i] : i \in 1 .. AcquireNum})
  OBVIOUS
<1> HIDE DEF B, H
<1>6. E = H
  BY <1>1, <1>2, <1>3, JoinedSingles
<1>7. IsSeq(H)
  BY <1>5, SeqElements
<1> HIDE DEF E
<1>8. IsSeq(E) /\ Len(E) = AcquireNum /\ \A i \in 1 .. AcquireNum : E[i] = <<"on_image_acquire", i>>
  BY <1>4, <1>6, <1>7
<1> QED BY <1>8 DEF E

LEMMA Views == OfSwapchain = {<<"view", i>> : i \in 1 .. ImageNum}
<1> DEFINE B == [i \in 1 .. ImageNum |-> <<<<"view", i>>>>]
           H == [i \in 1 .. ImageNum |-> <<"view", i>>]
<1> USE ImageNumAssumption
<1>1. B = [i \in 1 .. ImageNum |-> <<H[i]>>]
  OBVIOUS
<1>2. DOMAIN H = 1 .. ImageNum /\ H = [i \in 1 .. ImageNum |-> H[i]]
  OBVIOUS
<1>3. ToSet(H) = {<<"view", i>> : i \in 1 .. ImageNum}
  BY DEF ToSet
<1>4. OfSwapchain = ToSet(Joined(B, Len(<<<<"view", 1>>>>)))
  BY DEF OfSwapchain, Each
<1> HIDE DEF B, H
<1>5. Len(<<<<"view", 1>>>>) = 1
  OBVIOUS
<1>6. Joined(B, 1) = H
  BY <1>1, <1>2, JoinedSingles
<1> QED BY <1>3, <1>4, <1>5, <1>6

LEMMA TenTurns ==
  ASSUME NEW m \in Nat, NEW l \in 0 .. 9
  PROVE  (10 * m + l) \div 10 = m /\ (10 * m + l) % 10 = l
OBVIOUS

LEMMA TurnOf ==
  ASSUME NEW n \in Nat, NEW k \in 1 .. n * 10
  PROVE  ((k - 1) \div 10) + 1 \in 1 .. n /\ ((k - 1) % 10) + 1 \in 1 .. 10
<1> DEFINE q == (k - 1) \div 10
           r == (k - 1) % 10
<1>1. k - 1 \in Nat /\ k - 1 < 10 * n
  OBVIOUS
<1>2. q \in Int /\ r \in 0 .. 9 /\ k - 1 = 10 * q + r
  BY <1>1
<1> HIDE DEF q, r
<1>3. 0 <= q /\ q < n
  BY <1>1, <1>2
<1>4. q + 1 \in 1 .. n /\ r + 1 \in 1 .. 10
  BY <1>2, <1>3
<1> QED BY <1>4 DEF q, r

LEMMA PlaceOf ==
  ASSUME NEW n \in Nat, NEW i \in 1 .. n, NEW j \in 1 .. 10
  PROVE  10 * (i - 1) + j \in 1 .. n * 10
<1> DEFINE m == i - 1
<1>1. m \in Nat /\ m + 1 <= n
  OBVIOUS
<1> HIDE DEF m
<1>2. 10 * m + j \in 1 .. n * 10
  BY <1>1
<1> QED BY <1>2 DEF m

LEMMA TurnAt ==
  ASSUME NEW n \in Nat, NEW i \in 1 .. n, NEW j \in 1 .. 10
  PROVE  /\ (((10 * (i - 1) + j) - 1) \div 10) + 1 = i
         /\ (((10 * (i - 1) + j) - 1) % 10) + 1 = j
<1> DEFINE p == (10 * (i - 1) + j) - 1
           q == p \div 10
           r == p % 10
<1>1. p = 10 * (i - 1) + (j - 1) /\ i - 1 \in Nat /\ j - 1 \in 0 .. 9
  OBVIOUS
<1> HIDE DEF p
<1>2. q = i - 1 /\ r = j - 1
  BY <1>1, TenTurns
<1> HIDE DEF q, r
<1>3. q + 1 = i /\ r + 1 = j
  BY <1>2
<1> QED BY <1>3 DEF p, q, r

(* A loop that makes ten handles in each turn.                             *)
LEMMA JoinedTens ==
  ASSUME NEW n \in Nat, NEW b, DOMAIN b = 1 .. n, b = [i \in 1 .. n |-> b[i]],
         \A i \in 1 .. n : IsSeq(b[i]) /\ Len(b[i]) = 10
  PROVE  /\ IsSeq(Joined(b, 10))
         /\ ToSet(Joined(b, 10)) = UNION {ToSet(b[i]) : i \in 1 .. n}
<1> DEFINE J == Joined(b, 10)
           U == UNION {ToSet(b[i]) : i \in 1 .. n}
<1>1. Len(b) = n
  OBVIOUS
<1>2. J = [k \in 1 .. n * 10 |-> b[((k - 1) \div 10) + 1][((k - 1) % 10) + 1]]
  BY <1>1 DEF Joined
<1>3. ASSUME NEW i \in 1 .. n, NEW j \in 1 .. 10
      PROVE  b[i][j] \in ToSet(b[i])
  <2>1. b[i] \in Seq(ToSet(b[i])) /\ Len(b[i]) = 10
    BY DEF IsSeq
  <2> QED BY <2>1, SeqElements
<1> HIDE DEF J
<1>4. ASSUME NEW k \in 1 .. n * 10
      PROVE  J[k] \in U
  <2>1. ((k - 1) \div 10) + 1 \in 1 .. n /\ ((k - 1) % 10) + 1 \in 1 .. 10
    BY TurnOf
  <2> DEFINE i == ((k - 1) \div 10) + 1
             j == ((k - 1) % 10) + 1
  <2>2. J[k] = b[i][j]
    BY <1>2
  <2>3. i \in 1 .. n /\ j \in 1 .. 10
    BY <2>1
  <2> HIDE DEF i, j
  <2>4. b[i][j] \in ToSet(b[i])
    BY <2>3, <1>3
  <2> QED BY <2>2, <2>3, <2>4
<1>5. n * 10 \in Nat
  OBVIOUS
<1>6. J \in Seq(U)
  <2>1. J = [k \in 1 .. n * 10 |-> J[k]]
    BY <1>2
  <2> HIDE DEF U
  <2>2. J \in [1 .. n * 10 -> U]
    BY <2>1, <1>4
  <2> QED BY <2>2, <1>5
<1>7. IsSeq(J) /\ ToSet(J) \subseteq U
  BY <1>6, SeqElements
<1>8. U \subseteq ToSet(J)
  <2> SUFFICES ASSUME NEW i \in 1 .. n, NEW x \in ToSet(b[i])
               PROVE  x \in ToSet(J)
    OBVIOUS
  <2>0. b[i] \in Seq(ToSet(b[i])) /\ Len(b[i]) = 10
    BY DEF IsSeq
  <2>1. PICK j \in 1 .. 10 : x = b[i][j]
    <3> DEFINE c == b[i]
    <3>1. c \in Seq(ToSet(c)) /\ Len(c) = 10 /\ x \in ToSet(c)
      BY <2>0
    <3> HIDE DEF c
    <3>2. \A y : y \in ToSet(c) <=> \E j \in 1 .. Len(c) : y = c[j]
      BY <3>1, SeqElements
    <3>3. \E j \in 1 .. 10 : x = c[j]
      BY <3>1, <3>2
    <3> QED BY <3>3 DEF c
  <2>2. 10 * (i - 1) + j \in 1 .. n * 10
    BY PlaceOf
  <2>3. (((10 * (i - 1) + j) - 1) \div 10) + 1 = i /\ (((10 * (i - 1) + j) - 1) % 10) + 1 = j
    BY TurnAt
  <2>4. J[10 * (i - 1) + j] = x
    BY <1>2, <2>1, <2>2, <2>3
  <2>5. DOMAIN J = 1 .. n * 10
    BY <1>2
  <2> QED BY <2>2, <2>4, <2>5 DEF ToSet
<1> QED BY <1>7, <1>8 DEF J

(* The handles of a frame.                                                 *)
FrameHandles(f) ==
  {<<"command_pool", f>>, <<"on_finished", f>>, <<"is_in_flight", f>>, <<"descriptor_pool", f>>}
    \cup ({"buffer", "memory"} \X {f} \X {"viewport_buf", "vertices", "indices"})

LEMMA FrameInitLength ==
  ASSUME NEW f
  PROVE  /\ IsSeq(FrameInit(f)) /\ Len(FrameInit(f)) = 10 /\ ToSet(FrameInit(f)) = FrameHandles(f)
         /\ IsSeq(FrameCleanup(f)) /\ Len(FrameCleanup(f)) = 10 /\ ToSet(FrameCleanup(f)) = FrameHandles(f)
<1> DEFINE P == <<<<"command_pool", f>>, <<"on_finished", f>>, <<"is_in_flight", f>>>>
           D == <<<<"descriptor_pool", f>>>>
           V == Vector(f, "viewport_buf")
           X == Vector(f, "vertices")
           I == Vector(f, "indices")
           G == DebugFrameInit(f)
<1>1. /\ IsSeq(P) /\ Len(P) = 3
      /\ ToSet(P) = {<<"command_pool", f>>, <<"on_finished", f>>, <<"is_in_flight", f>>}
  BY SeqOfThree
<1>2. IsSeq(D) /\ Len(D) = 1 /\ ToSet(D) = {<<"descriptor_pool", f>>}
  BY SeqOfOne
<1>3. ASSUME NEW x
      PROVE  /\ IsSeq(Vector(f, x)) /\ Len(Vector(f, x)) = 2
             /\ ToSet(Vector(f, x)) = {<<"buffer", f, x>>, <<"memory", f, x>>}
  BY SeqOfTwo DEF Vector
<1>4. G = X \o I
  BY DEF DebugFrameInit
<1>5. FrameInit(f) = ((P \o V) \o D) \o G
  BY DEF FrameInit
<1>6. FrameCleanup(f) = ((G \o D) \o V) \o P
  BY DEF FrameCleanup
<1>7. V = Vector(f, "viewport_buf") /\ X = Vector(f, "vertices") /\ I = Vector(f, "indices")
  OBVIOUS
<1> HIDE DEF P, D, V, X, I, G
<1>8. /\ IsSeq(V) /\ Len(V) = 2
      /\ ToSet(V) = {<<"buffer", f, "viewport_buf">>, <<"memory", f, "viewport_buf">>}
  BY <1>3, <1>7
<1>9. /\ IsSeq(X) /\ Len(X) = 2
      /\ ToSet(X) = {<<"buffer", f, "vertices">>, <<"memory", f, "vertices">>}
  BY <1>3, <1>7
<1>10. /\ IsSeq(I) /\ Len(I) = 2
       /\ ToSet(I) = {<<"buffer", f, "indices">>, <<"memory", f, "indices">>}
  BY <1>3, <1>7
<1>11. IsSeq(G) /\ Len(G) = Len(X) + Len(I) /\ ToSet(G) = ToSet(X) \cup ToSet(I)
  BY <1>4, <1>9, <1>10, SeqConcat, Zenon
<1> DEFINE All == ToSet(P) \cup ToSet(D) \cup ToSet(V) \cup ToSet(X) \cup ToSet(I)
<1>12. All = FrameHandles(f)
  <2>1. {"buffer", "memory"} \X {f} \X {"viewport_buf", "vertices", "indices"}
         = {<<"buffer", f, "viewport_buf">>, <<"memory", f, "viewport_buf">>,
            <<"buffer", f, "vertices">>, <<"memory", f, "vertices">>,
            <<"buffer", f, "indices">>, <<"memory", f, "indices">>}
    OBVIOUS
  <2> QED BY <1>1, <1>2, <1>8, <1>9, <1>10, <2>1 DEF FrameHandles
<1>13. IsSeq(FrameInit(f)) /\ Len(FrameInit(f)) = 10 /\ ToSet(FrameInit(f)) = All
  <2>1. IsSeq(P \o V) /\ Len(P \o V) = Len(P) + Len(V) /\ ToSet(P \o V) = ToSet(P) \cup ToSet(V)
    <3>1. IsSeq(P) /\ IsSeq(V)
      BY <1>1, <1>8
    <3> QED BY <3>1, SeqConcat, Zenon
  <2> DEFINE A == P \o V
  <2>2. /\ IsSeq(A \o D) /\ Len(A \o D) = Len(A) + Len(D)
        /\ ToSet(A \o D) = ToSet(A) \cup ToSet(D)
    <3>1. IsSeq(A) /\ IsSeq(D)
      BY <2>1, <1>2
    <3> HIDE DEF A
    <3> QED BY <3>1, SeqConcat, Zenon
  <2> DEFINE B == A \o D
  <2>3. /\ IsSeq(B \o G) /\ Len(B \o G) = Len(B) + Len(G)
        /\ ToSet(B \o G) = ToSet(B) \cup ToSet(G)
    <3>1. IsSeq(B) /\ IsSeq(G)
      BY <2>2, <1>11
    <3> HIDE DEF B
    <3> QED BY <3>1, SeqConcat, Zenon
  <2> DEFINE C == B \o G
  <2>4. FrameInit(f) = C
    BY <1>5
  <2>5. /\ Len(C) = Len(B) + Len(G) /\ Len(B) = Len(A) + Len(D) /\ Len(A) = Len(P) + Len(V)
        /\ ToSet(C) = ToSet(B) \cup ToSet(G) /\ ToSet(B) = ToSet(A) \cup ToSet(D)
        /\ ToSet(A) = ToSet(P) \cup ToSet(V) /\ IsSeq(C)
    BY <2>1, <2>2, <2>3, Zenon
  <2> HIDE DEF A, B, C
  <2>6. Len(C) = 10
    BY <2>5, <1>1, <1>2, <1>8, <1>9, <1>10, <1>11
  <2>7. ToSet(C) = All
    BY <2>5, <1>11, Zenon
  <2> QED BY <2>4, <2>5, <2>6, <2>7
<1>14. IsSeq(FrameCleanup(f)) /\ Len(FrameCleanup(f)) = 10 /\ ToSet(FrameCleanup(f)) = All
  <2>1. IsSeq(G \o D) /\ Len(G \o D) = Len(G) + Len(D) /\ ToSet(G \o D) = ToSet(G) \cup ToSet(D)
    <3>1. IsSeq(G) /\ IsSeq(D)
      BY <1>2, <1>11
    <3> QED BY <3>1, SeqConcat, Zenon
  <2> DEFINE A == G \o D
  <2>2. /\ IsSeq(A \o V) /\ Len(A \o V) = Len(A) + Len(V)
        /\ ToSet(A \o V) = ToSet(A) \cup ToSet(V)
    <3>1. IsSeq(A) /\ IsSeq(V)
      BY <2>1, <1>8
    <3> HIDE DEF A
    <3> QED BY <3>1, SeqConcat, Zenon
  <2> DEFINE B == A \o V
  <2>3. /\ IsSeq(B \o P) /\ Len(B \o P) = Len(B) + Len(P)
        /\ ToSet(B \o P) = ToSet(B) \cup ToSet(P)
    <3>1. IsSeq(B) /\ IsSeq(P)
      BY <2>2, <1>1
    <3> HIDE DEF B
    <3> QED BY <3>1, SeqConcat, Zenon
  <2> DEFINE C == B \o P
  <2>4. FrameCleanup(f) = C
    BY <1>6
  <2>5. /\ Len(C) = Len(B) + Len(P) /\ Len(B) = Len(A) + Len(V) /\ Len(A) = Len(G) + Len(D)
        /\ ToSet(C) = ToSet(B) \cup ToSet(P) /\ ToSet(B) = ToSet(A) \cup ToSet(V)
        /\ ToSet(A) = ToSet(G) \cup ToSet(D) /\ IsSeq(C)
    BY <2>1, <2>2, <2>3, Zenon
  <2> HIDE DEF A, B, C
  <2>6. Len(C) = 10
    BY <2>5, <1>1, <1>2, <1>8, <1>9, <1>10, <1>11
  <2>7. ToSet(C) = All
    BY <2>5, <1>11, Zenon
  <2> QED BY <2>4, <2>5, <2>6, <2>7
<1> QED BY <1>12, <1>13, <1>14

LEMMA EachFrame ==
  /\ IsSeq(Each(FrameNum, FrameInit)) /\ IsSeq(Each(FrameNum, FrameCleanup))
  /\ ToSet(Each(FrameNum, FrameInit)) = UNION {FrameHandles(f) : f \in 1 .. FrameNum}
  /\ ToSet(Each(FrameNum, FrameCleanup)) = UNION {FrameHandles(f) : f \in 1 .. FrameNum}
<1> DEFINE B == [f \in 1 .. FrameNum |-> FrameInit(f)]
           C == [f \in 1 .. FrameNum |-> FrameCleanup(f)]
<1> USE FrameNumAssumption
<1>1. Each(FrameNum, FrameInit) = Joined(B, 10)
  BY FrameInitLength DEF Each
<1>2. Each(FrameNum, FrameCleanup) = Joined(C, 10)
  BY FrameInitLength DEF Each
<1>3. DOMAIN B = 1 .. FrameNum /\ DOMAIN C = 1 .. FrameNum
       /\ B = [f \in 1 .. FrameNum |-> B[f]] /\ C = [f \in 1 .. FrameNum |-> C[f]]
  OBVIOUS
<1>4. \A f \in 1 .. FrameNum : B[f] = FrameInit(f) /\ C[f] = FrameCleanup(f)
  OBVIOUS
<1> HIDE DEF B, C
<1>5. \A f \in 1 .. FrameNum :
         /\ IsSeq(B[f]) /\ Len(B[f]) = 10 /\ ToSet(B[f]) = FrameHandles(f)
         /\ IsSeq(C[f]) /\ Len(C[f]) = 10 /\ ToSet(C[f]) = FrameHandles(f)
  BY <1>4, FrameInitLength
<1>6. IsSeq(Joined(B, 10)) /\ ToSet(Joined(B, 10)) = UNION {ToSet(B[f]) : f \in 1 .. FrameNum}
  BY <1>3, <1>5, JoinedTens
<1>7. IsSeq(Joined(C, 10)) /\ ToSet(Joined(C, 10)) = UNION {ToSet(C[f]) : f \in 1 .. FrameNum}
  BY <1>3, <1>5, JoinedTens
<1> QED BY <1>1, <1>2, <1>5, <1>6, <1>7

---------------------------------------------------------------------------
(* The handles of each part of the program.                                *)

Images == {<<"view", i>> : i \in 1 .. ImageNum} \cup {<<"framebuffer", i>> : i \in 1 .. ImageNum}
Semaphores == {<<"on_image_acquire", i>> : i \in 1 .. AcquireNum}
Frames == UNION {FrameHandles(f) : f \in 1 .. FrameNum}

DisplayHandles == {<<"sdl">>, <<"window">>, <<"extensions">>}
DeviceHandles == {<<"instance">>, <<"device">>}
SessionHandles ==
  {<<"surface">>, <<"render_pass">>, <<"swapchain">>} \cup Images \cup Semaphores
DebugPassHandles ==
  {<<"ddl">>, <<"vertex_shader">>, <<"fragment_shader">>, <<"pipeline_layout">>, <<"pipeline">>}
RendererHandles == {<<"viewport_layout">>} \cup DebugPassHandles \cup Frames

(* No two parts use the same name.                                         *)
DisplayNames == {"sdl", "window", "extensions"}
DeviceNames == {"instance", "device"}
SessionNames ==
  {"surface", "render_pass", "swapchain", "view", "framebuffer", "on_image_acquire"}
RendererNames ==
  {"viewport_layout", "ddl", "vertex_shader", "fragment_shader", "pipeline_layout", "pipeline",
   "command_pool", "on_finished", "is_in_flight", "descriptor_pool", "buffer", "memory"}
NetworkNames == {"client", "server"}

LEMMA PartNames ==
  /\ \A h \in DisplayHandles : h[1] \in DisplayNames
  /\ \A h \in DeviceHandles : h[1] \in DeviceNames
  /\ \A h \in SessionHandles : h[1] \in SessionNames
  /\ \A h \in RendererHandles : h[1] \in RendererNames
<1>1. \A h \in DisplayHandles : h[1] \in DisplayNames
  BY DEF DisplayHandles, DisplayNames
<1>2. \A h \in DeviceHandles : h[1] \in DeviceNames
  BY DEF DeviceHandles, DeviceNames
<1>3. ASSUME NEW h \in SessionHandles
      PROVE  h[1] \in SessionNames
  BY DEF SessionHandles, SessionNames, Images, Semaphores
<1>4. ASSUME NEW h \in RendererHandles
      PROVE  h[1] \in RendererNames
  <2>1. CASE h \in {<<"viewport_layout">>} \cup DebugPassHandles
    BY <2>1 DEF DebugPassHandles, RendererNames
  <2>2. CASE h \in Frames
    <3>1. PICK f : h \in FrameHandles(f)
      BY <2>2 DEF Frames
    <3> QED BY <3>1 DEF FrameHandles, RendererNames
  <2> QED BY <2>1, <2>2 DEF RendererHandles
<1> QED BY <1>1, <1>2, <1>3, <1>4

LEMMA EachImageSet == ToSet(Each(ImageNum, Image)) = Images
<1> DEFINE E == Each(ImageNum, Image)
<1>1. /\ E \in Seq(ToSet(E)) /\ Len(E) = 2 * ImageNum
      /\ \A i \in 1 .. ImageNum : E[2 * i - 1] = <<"view", i>> /\ E[2 * i] = <<"framebuffer", i>>
  BY EachImage DEF IsSeq
<1> HIDE DEF E
<1> USE ImageNumAssumption
<1>2. ASSUME NEW k \in 1 .. Len(E)
      PROVE  E[k] \in Images
  <2>1. PICK i \in 1 .. ImageNum : k = 2 * i - 1 \/ k = 2 * i
    <3>1. k \in 1 .. 2 * ImageNum
      BY <1>1
    <3>2. (k + 1) \div 2 \in 1 .. ImageNum /\ (k = 2 * ((k + 1) \div 2) - 1 \/ k = 2 * ((k + 1) \div 2))
      BY <3>1
    <3> QED BY <3>2
  <2> QED BY <2>1, <1>1 DEF Images
<1>3. ASSUME NEW i \in 1 .. ImageNum
      PROVE  <<"view", i>> \in ToSet(E) /\ <<"framebuffer", i>> \in ToSet(E)
  <2>1. 2 * i - 1 \in 1 .. 2 * ImageNum /\ 2 * i \in 1 .. 2 * ImageNum
    OBVIOUS
  <2>2. \A k \in 1 .. Len(E) : E[k] \in ToSet(E)
    BY <1>1, SeqElements
  <2> QED BY <2>1, <2>2, <1>1
<1>4. ToSet(E) \subseteq Images
  <2>1. \A x : x \in ToSet(E) <=> \E i \in 1 .. Len(E) : x = E[i]
    BY <1>1, SeqElements, Zenon
  <2> QED BY <2>1, <1>2
<1>5. Images \subseteq ToSet(E)
  BY <1>3 DEF Images
<1> QED BY <1>4, <1>5 DEF E

LEMMA EachSemaphoreSet == ToSet(Each(AcquireNum, Semaphore)) = Semaphores
<1> DEFINE E == Each(AcquireNum, Semaphore)
<1>1. /\ E \in Seq(ToSet(E)) /\ Len(E) = AcquireNum
      /\ \A i \in 1 .. AcquireNum : E[i] = <<"on_image_acquire", i>>
  BY EachSemaphore DEF IsSeq
<1> HIDE DEF E
<1>2. \A x : x \in ToSet(E) <=> \E i \in 1 .. Len(E) : x = E[i]
  BY <1>1, SeqElements, Zenon
<1>3. ToSet(E) = Semaphores
  <2>1. ASSUME NEW x \in ToSet(E)
        PROVE  x \in Semaphores
    <3>1. PICK i \in 1 .. Len(E) : x = E[i]
      BY <1>2
    <3>2. i \in 1 .. AcquireNum /\ x = <<"on_image_acquire", i>>
      BY <1>1, <3>1
    <3> QED BY <3>2 DEF Semaphores
  <2>2. ASSUME NEW i \in 1 .. AcquireNum
        PROVE  <<"on_image_acquire", i>> \in ToSet(E)
    BY <1>1, <1>2
  <2> QED BY <2>1, <2>2 DEF Semaphores
<1> QED BY <1>3 DEF E

LEMMA DisplayMade ==
  /\ IsSeq(DisplayNew) /\ Len(DisplayNew) = 3 /\ ToSet(DisplayNew) = DisplayHandles
  /\ DisplayNew[1] = <<"sdl">> /\ DisplayNew[2] = <<"window">> /\ DisplayNew[3] = <<"extensions">>
BY SeqOfThree DEF DisplayNew, DisplayHandles

LEMMA DeviceMade ==
  /\ IsSeq(DeviceNew) /\ Len(DeviceNew) = 2 /\ ToSet(DeviceNew) = DeviceHandles
  /\ DeviceNew[1] = <<"instance">> /\ DeviceNew[2] = <<"device">>
BY SeqOfTwo DEF DeviceNew, DeviceHandles

LEMMA CameraMade ==
  /\ IsSeq(CameraNew) /\ Len(CameraNew) = 2 + 2 * ImageNum + AcquireNum
  /\ ToSet(CameraNew) = {<<"render_pass">>, <<"swapchain">>} \cup Images \cup Semaphores
  /\ CameraNew[1] = <<"render_pass">> /\ CameraNew[2] = <<"swapchain">>
<1> DEFINE R == <<<<"render_pass">>>>
           S == SurfaceInit
           I == Each(ImageNum, Image)
           A == Each(AcquireNum, Semaphore)
<1>1. IsSeq(R) /\ Len(R) = 1 /\ R[1] = <<"render_pass">> /\ ToSet(R) = {<<"render_pass">>}
  BY SeqOfOne
<1>2. IsSeq(S) /\ Len(S) = 1 /\ S[1] = <<"swapchain">> /\ ToSet(S) = {<<"swapchain">>}
  BY SeqOfOne DEF SurfaceInit
<1>3. IsSeq(I) /\ Len(I) = 2 * ImageNum /\ ToSet(I) = Images
  BY EachImage, EachImageSet
<1>4. IsSeq(A) /\ Len(A) = AcquireNum /\ ToSet(A) = Semaphores
  BY EachSemaphore, EachSemaphoreSet
<1>5. CameraNew = R \o ((S \o I) \o A)
  BY DEF CameraNew, ViewportNew
<1> HIDE DEF R, S, I, A
<1>6. /\ IsSeq(S \o I) /\ Len(S \o I) = Len(S) + Len(I) /\ ToSet(S \o I) = ToSet(S) \cup ToSet(I)
      /\ \A i \in 1 .. Len(S) : (S \o I)[i] = S[i]
  <2>1. IsSeq(S) /\ IsSeq(I)
    BY <1>2, <1>3
  <2> QED BY <2>1, SeqConcat, Zenon
<1> DEFINE V == S \o I
<1>7. /\ IsSeq(V \o A) /\ Len(V \o A) = Len(V) + Len(A) /\ ToSet(V \o A) = ToSet(V) \cup ToSet(A)
      /\ \A i \in 1 .. Len(V) : (V \o A)[i] = V[i]
  <2>1. IsSeq(V) /\ IsSeq(A)
    BY <1>4, <1>6
  <2> HIDE DEF V
  <2> QED BY <2>1, SeqConcat, Zenon
<1> DEFINE W == V \o A
<1>8. /\ IsSeq(R \o W) /\ Len(R \o W) = Len(R) + Len(W) /\ ToSet(R \o W) = ToSet(R) \cup ToSet(W)
      /\ \A i \in 1 .. Len(R) : (R \o W)[i] = R[i]
  <2>1. IsSeq(R) /\ IsSeq(W)
    BY <1>1, <1>7
  <2> HIDE DEF W
  <2> QED BY <2>1, SeqConcat, Zenon
<1>9. CameraNew = R \o W
  BY <1>5
<1>10. /\ Len(V) = Len(S) + Len(I) /\ Len(W) = Len(V) + Len(A) /\ V[1] = <<"swapchain">>
       /\ ToSet(V) = ToSet(S) \cup ToSet(I) /\ ToSet(W) = ToSet(V) \cup ToSet(A)
  BY <1>2, <1>6, <1>7
<1>11. 1 \in 1 .. Len(V) /\ 1 \in 1 .. Len(W)
  <2> HIDE DEF V, W
  <2> QED BY <1>2, <1>3, <1>4, <1>10, ImageNumAssumption, AcquireNumAssumption
<1>12. W[1] = <<"swapchain">>
  BY <1>7, <1>10, <1>11
<1>17. (R \o W)[2] = W[1]
  <2>1. IsSeq(R) /\ IsSeq(W) /\ 1 \in 1 .. Len(W) /\ 2 = Len(R) + 1
    BY <1>1, <1>7, <1>11
  <2> HIDE DEF W
  <2> QED BY <2>1, SeqSecond
<1> HIDE DEF V, W
<1>13. Len(CameraNew) = 2 + 2 * ImageNum + AcquireNum
  BY <1>1, <1>2, <1>3, <1>4, <1>8, <1>9, <1>10, ImageNumAssumption, AcquireNumAssumption
<1>14. CameraNew[1] = <<"render_pass">> /\ CameraNew[2] = <<"swapchain">>
  BY <1>1, <1>8, <1>9, <1>12, <1>17
<1>15. ToSet(CameraNew) = {<<"render_pass">>, <<"swapchain">>} \cup Images \cup Semaphores
  BY <1>1, <1>2, <1>3, <1>4, <1>8, <1>9, <1>10
<1>16. IsSeq(CameraNew)
  BY <1>8, <1>9
<1> QED BY <1>13, <1>14, <1>15, <1>16

LEMMA SessionMade ==
  /\ IsSeq(SessionBegin) /\ Len(SessionBegin) = 3 + 2 * ImageNum + AcquireNum
  /\ ToSet(SessionBegin) = SessionHandles
  /\ SessionBegin[1] = <<"surface">> /\ SessionBegin[2] = <<"render_pass">>
  /\ SessionBegin[3] = <<"swapchain">>
<1> DEFINE R == <<<<"surface">>>>
           C == CameraNew
<1>1. IsSeq(R) /\ Len(R) = 1 /\ R[1] = <<"surface">> /\ ToSet(R) = {<<"surface">>}
  BY SeqOfOne
<1>2. /\ IsSeq(C) /\ Len(C) = 2 + 2 * ImageNum + AcquireNum
      /\ ToSet(C) = {<<"render_pass">>, <<"swapchain">>} \cup Images \cup Semaphores
      /\ C[1] = <<"render_pass">> /\ C[2] = <<"swapchain">>
  BY CameraMade
<1>3. SessionBegin = R \o C
  BY DEF SessionBegin
<1> HIDE DEF R, C
<1>4. /\ IsSeq(R \o C) /\ Len(R \o C) = Len(R) + Len(C) /\ ToSet(R \o C) = ToSet(R) \cup ToSet(C)
      /\ \A i \in 1 .. Len(R) : (R \o C)[i] = R[i]
  <2>1. IsSeq(R) /\ IsSeq(C)
    BY <1>1, <1>2
  <2> QED BY <2>1, SeqConcat, Zenon
<1> DEFINE S == R \o C
<1>5. S = R \o C
  OBVIOUS
<1> HIDE DEF S
<1>6. 1 \in 1 .. Len(R) /\ 1 \in 1 .. Len(C) /\ 2 \in 1 .. Len(C)
  BY <1>1, <1>2, ImageNumAssumption, AcquireNumAssumption
<1>7. S[1] = <<"surface">> /\ S[2] = <<"render_pass">> /\ S[3] = <<"swapchain">>
  <2>1. IsSeq(R) /\ IsSeq(C) /\ 2 = Len(R) + 1 /\ 3 = Len(R) + 2
    BY <1>1, <1>2
  <2>2. (R \o C)[2] = C[1]
    BY <2>1, <1>6, SeqSecond
  <2>3. (R \o C)[3] = C[2]
    BY <2>1, <1>6, SeqSecond
  <2> QED BY <2>2, <2>3, <1>1, <1>2, <1>4, <1>5, <1>6
<1>8. Len(S) = 3 + 2 * ImageNum + AcquireNum /\ IsSeq(S)
  BY <1>1, <1>2, <1>4, <1>5, ImageNumAssumption, AcquireNumAssumption
<1>9. ToSet(S) = SessionHandles
  BY <1>1, <1>2, <1>4, <1>5 DEF SessionHandles
<1> QED BY <1>3, <1>5, <1>7, <1>8, <1>9

LEMMA DebugPassMade ==
  /\ IsSeq(DebugPassNew) /\ Len(DebugPassNew) = 5 /\ ToSet(DebugPassNew) = DebugPassHandles
  /\ DebugPassNew[1] = <<"ddl">>
  /\ IsSeq(DebugPassDelete) /\ ToSet(DebugPassDelete) = DebugPassHandles
<1> DEFINE D == <<<<"ddl">>>>
           L == LoadShaders
           P == CreatePipeline
           Q == <<<<"pipeline">>, <<"pipeline_layout">>>>
<1>1. IsSeq(D) /\ Len(D) = 1 /\ D[1] = <<"ddl">> /\ ToSet(D) = {<<"ddl">>}
  BY SeqOfOne
<1>2. IsSeq(L) /\ Len(L) = 2 /\ ToSet(L) = {<<"vertex_shader">>, <<"fragment_shader">>}
  BY SeqOfTwo DEF LoadShaders
<1>3. IsSeq(P) /\ Len(P) = 2 /\ ToSet(P) = {<<"pipeline_layout">>, <<"pipeline">>}
  BY SeqOfTwo DEF CreatePipeline
<1>4. IsSeq(Q) /\ ToSet(Q) = {<<"pipeline_layout">>, <<"pipeline">>}
  <2>1. ToSet(Q) = {<<"pipeline">>, <<"pipeline_layout">>} /\ IsSeq(Q)
    BY SeqOfTwo
  <2> QED BY <2>1
<1>5. DebugPassNew = (D \o L) \o P /\ DebugPassDelete = (Q \o L) \o D
  BY DEF DebugPassNew, DebugPassDelete
<1> HIDE DEF D, L, P, Q
<1>6. /\ IsSeq(D \o L) /\ Len(D \o L) = Len(D) + Len(L) /\ ToSet(D \o L) = ToSet(D) \cup ToSet(L)
      /\ \A i \in 1 .. Len(D) : (D \o L)[i] = D[i]
  <2>1. IsSeq(D) /\ IsSeq(L)
    BY <1>1, <1>2
  <2> QED BY <2>1, SeqConcat, Zenon
<1>7. IsSeq(Q \o L) /\ ToSet(Q \o L) = ToSet(Q) \cup ToSet(L)
  <2>1. IsSeq(Q) /\ IsSeq(L)
    BY <1>2, <1>4
  <2> QED BY <2>1, SeqConcat, Zenon
<1> DEFINE DL == D \o L
           QL == Q \o L
<1>8. /\ IsSeq(DL \o P) /\ Len(DL \o P) = Len(DL) + Len(P) /\ ToSet(DL \o P) = ToSet(DL) \cup ToSet(P)
      /\ \A i \in 1 .. Len(DL) : (DL \o P)[i] = DL[i]
  <2>1. IsSeq(DL) /\ IsSeq(P)
    BY <1>3, <1>6
  <2> HIDE DEF DL
  <2> QED BY <2>1, SeqConcat, Zenon
<1>9. IsSeq(QL \o D) /\ ToSet(QL \o D) = ToSet(QL) \cup ToSet(D)
  <2>1. IsSeq(QL) /\ IsSeq(D)
    BY <1>1, <1>7
  <2> HIDE DEF QL
  <2> QED BY <2>1, SeqConcat, Zenon
<1>10. /\ DebugPassNew = DL \o P /\ DebugPassDelete = QL \o D
       /\ Len(DL) = Len(D) + Len(L) /\ ToSet(DL) = ToSet(D) \cup ToSet(L)
       /\ ToSet(QL) = ToSet(Q) \cup ToSet(L) /\ \A i \in 1 .. Len(D) : DL[i] = D[i]
  BY <1>5, <1>6, <1>7
<1> HIDE DEF DL, QL
<1>11. Len(DebugPassNew) = 5 /\ DebugPassNew[1] = <<"ddl">>
  <2>1. Len(DL) = 3 /\ DL[1] = <<"ddl">>
    BY <1>1, <1>2, <1>10
  <2>2. Len(DL \o P) = 5 /\ (DL \o P)[1] = <<"ddl">>
    BY <2>1, <1>3, <1>8
  <2> QED BY <2>2, <1>10
<1>12. ToSet(DebugPassNew) = DebugPassHandles /\ ToSet(DebugPassDelete) = DebugPassHandles
  BY <1>1, <1>2, <1>3, <1>4, <1>8, <1>9, <1>10 DEF DebugPassHandles
<1>13. IsSeq(DebugPassNew) /\ IsSeq(DebugPassDelete)
  BY <1>8, <1>9, <1>10
<1> QED BY <1>11, <1>12, <1>13

LEMMA RendererMade ==
  /\ IsSeq(RendererNew) /\ Len(RendererNew) \in Nat /\ Len(RendererNew) > 2
  /\ ToSet(RendererNew) = RendererHandles
  /\ RendererNew[2] = <<"ddl">>
<1> DEFINE V == <<<<"viewport_layout">>>>
           D == DebugPassNew
           F == Each(FrameNum, FrameInit)
<1>1. IsSeq(V) /\ Len(V) = 1 /\ ToSet(V) = {<<"viewport_layout">>}
  BY SeqOfOne
<1>2. IsSeq(D) /\ Len(D) = 5 /\ ToSet(D) = DebugPassHandles /\ D[1] = <<"ddl">>
  BY DebugPassMade
<1>3. IsSeq(F) /\ Len(F) \in Nat /\ ToSet(F) = Frames
  <2>1. IsSeq(F) /\ ToSet(F) = Frames
    BY EachFrame DEF Frames
  <2> HIDE DEF F
  <2>2. Len(F) \in Nat
    BY <2>1, SeqElements DEF IsSeq
  <2> QED BY <2>1, <2>2
<1>4. RendererNew = (V \o D) \o F
  BY DEF RendererNew
<1> HIDE DEF V, D, F
<1>5. /\ IsSeq(V \o D) /\ Len(V \o D) = Len(V) + Len(D) /\ ToSet(V \o D) = ToSet(V) \cup ToSet(D)
  <2>1. IsSeq(V) /\ IsSeq(D)
    BY <1>1, <1>2
  <2> QED BY <2>1, SeqConcat, Zenon
<1> DEFINE W == V \o D
<1>6. /\ IsSeq(W \o F) /\ Len(W \o F) = Len(W) + Len(F) /\ ToSet(W \o F) = ToSet(W) \cup ToSet(F)
      /\ \A i \in 1 .. Len(W) : (W \o F)[i] = W[i]
  <2>1. IsSeq(W) /\ IsSeq(F)
    BY <1>3, <1>5
  <2> HIDE DEF W
  <2> QED BY <2>1, SeqConcat, Zenon
<1>7. /\ RendererNew = W \o F /\ Len(W) = Len(V) + Len(D) /\ ToSet(W) = ToSet(V) \cup ToSet(D)
      /\ W[2] = D[1]
  <2>1. 2 = Len(V) + 1 /\ 1 \in 1 .. Len(D)
    BY <1>1, <1>2
  <2>2. W[2] = D[1]
    BY <2>1, <1>1, <1>2, SeqSecond
  <2> QED BY <2>2, <1>4, <1>5
<1> HIDE DEF W
<1>8. Len(W) = 6 /\ W[2] = <<"ddl">>
  BY <1>1, <1>2, <1>7
<1> DEFINE R == W \o F
<1>9. /\ IsSeq(R) /\ Len(R) = Len(W) + Len(F) /\ ToSet(R) = ToSet(W) \cup ToSet(F)
      /\ \A i \in 1 .. Len(W) : R[i] = W[i] /\ RendererNew = R
  BY <1>6, <1>7
<1> HIDE DEF R
<1>10. ToSet(R) = RendererHandles
  BY <1>1, <1>2, <1>3, <1>7, <1>9 DEF RendererHandles
<1>11. Len(R) \in Nat /\ Len(R) > 2 /\ R[2] = <<"ddl">>
  BY <1>3, <1>8, <1>9
<1>12. RendererNew = R
  BY <1>8, <1>9
<1> QED BY <1>9, <1>10, <1>11, <1>12

LEMMA WorldMade == IsSeq(WorldNew) /\ Len(WorldNew) = 1 /\ WorldNew[1] = <<"world">> /\ ToSet(WorldNew) = {<<"world">>}
BY SeqOfOne DEF WorldNew

---------------------------------------------------------------------------
(* What the program makes of SDL, Vulkan and flecs, in order.              *)
WindowedOrder == DisplayNew \o DeviceNew \o SessionBegin \o RendererNew \o WorldNew

WindowedHandles ==
  DisplayHandles \cup DeviceHandles \cup SessionHandles \cup RendererHandles \cup {<<"world">>}

(* The handles that others use come before those that use them: at known   *)
(* places, and before the names that are known to come later.              *)
LEMMA WindowedMade ==
  /\ IsSeq(WindowedOrder) /\ ToSet(WindowedOrder) = WindowedHandles
  /\ Len(WindowedOrder) \in Nat /\ Len(WindowedOrder) > 8
  /\ WindowedOrder[1] = <<"sdl">> /\ WindowedOrder[2] = <<"window">>
  /\ WindowedOrder[3] = <<"extensions">> /\ WindowedOrder[4] = <<"instance">>
  /\ WindowedOrder[5] = <<"device">> /\ WindowedOrder[6] = <<"surface">>
  /\ WindowedOrder[7] = <<"render_pass">> /\ WindowedOrder[8] = <<"swapchain">>
  /\ \E d \in 1 .. Len(WindowedOrder) :
       /\ WindowedOrder[d] = <<"ddl">>
       /\ \A i \in 1 .. d : WindowedOrder[i] # <<"world">>
<1> DEFINE D == DisplayNew
           A == DeviceNew
           S == SessionBegin
           R == RendererNew
           W == WorldNew
<1>1. /\ IsSeq(D) /\ Len(D) = 3 /\ ToSet(D) = DisplayHandles
      /\ D[1] = <<"sdl">> /\ D[2] = <<"window">> /\ D[3] = <<"extensions">>
  BY DisplayMade
<1>2. IsSeq(A) /\ Len(A) = 2 /\ ToSet(A) = DeviceHandles /\ A[1] = <<"instance">> /\ A[2] = <<"device">>
  BY DeviceMade
<1>3. /\ IsSeq(S) /\ ToSet(S) = SessionHandles /\ Len(S) \in Nat /\ Len(S) >= 3
      /\ S[1] = <<"surface">> /\ S[2] = <<"render_pass">> /\ S[3] = <<"swapchain">>
  <2>1. Len(S) = 3 + 2 * ImageNum + AcquireNum
    BY SessionMade
  <2> HIDE DEF S
  <2>2. Len(S) \in Nat /\ Len(S) >= 3
    BY <2>1, ImageNumAssumption, AcquireNumAssumption
  <2> QED BY <2>2, SessionMade DEF S
<1>4. IsSeq(R) /\ Len(R) \in Nat /\ Len(R) > 2 /\ ToSet(R) = RendererHandles /\ R[2] = <<"ddl">>
  BY RendererMade
<1>5. IsSeq(W) /\ Len(W) = 1 /\ ToSet(W) = {<<"world">>}
  BY WorldMade
<1>6. WindowedOrder = (((D \o A) \o S) \o R) \o W
  BY DEF WindowedOrder
<1> HIDE DEF D, A, S, R, W
<1> DEFINE DA == D \o A
<1>7. /\ IsSeq(DA) /\ Len(DA) = Len(D) + Len(A) /\ ToSet(DA) = ToSet(D) \cup ToSet(A)
      /\ \A i \in 1 .. Len(D) : DA[i] = D[i]
  <2>1. IsSeq(D) /\ IsSeq(A)
    BY <1>1, <1>2
  <2> QED BY <2>1, SeqConcat, Zenon
<1>8. DA[4] = A[1] /\ DA[5] = A[2]
  <2>1. IsSeq(D) /\ IsSeq(A) /\ 4 = Len(D) + 1 /\ 5 = Len(D) + 2 /\ 1 \in 1 .. Len(A) /\ 2 \in 1 .. Len(A)
    BY <1>1, <1>2
  <2>2. (D \o A)[4] = A[1]
    BY <2>1, SeqSecond
  <2>3. (D \o A)[5] = A[2]
    BY <2>1, SeqSecond
  <2> QED BY <2>2, <2>3
<1>9. DA = D \o A
  OBVIOUS
<1> HIDE DEF DA
<1>10. /\ Len(DA) = 5
       /\ DA[1] = <<"sdl">> /\ DA[2] = <<"window">> /\ DA[3] = <<"extensions">>
       /\ DA[4] = <<"instance">> /\ DA[5] = <<"device">>
  BY <1>1, <1>2, <1>7, <1>8
<1> DEFINE DS == DA \o S
<1>11. /\ IsSeq(DS) /\ Len(DS) = Len(DA) + Len(S) /\ ToSet(DS) = ToSet(DA) \cup ToSet(S)
       /\ \A i \in 1 .. Len(DA) : DS[i] = DA[i]
  <2>1. IsSeq(DA) /\ IsSeq(S)
    BY <1>3, <1>7
  <2> QED BY <2>1, SeqConcat, Zenon
<1>12. DS[6] = S[1] /\ DS[7] = S[2] /\ DS[8] = S[3]
  <2>1. /\ IsSeq(DA) /\ IsSeq(S) /\ 6 = Len(DA) + 1 /\ 7 = Len(DA) + 2 /\ 8 = Len(DA) + 3
        /\ 1 \in 1 .. Len(S) /\ 2 \in 1 .. Len(S) /\ 3 \in 1 .. Len(S)
    <3>1. Len(S) \in Nat /\ Len(S) >= 3 /\ Len(DA) = 5
      BY <1>3, <1>10
    <3>2. 1 \in 1 .. Len(S) /\ 2 \in 1 .. Len(S) /\ 3 \in 1 .. Len(S)
      BY <3>1
    <3>3. 6 = Len(DA) + 1 /\ 7 = Len(DA) + 2 /\ 8 = Len(DA) + 3
      BY <3>1
    <3> QED BY <3>2, <3>3, <1>3, <1>7
  <2>2. (DA \o S)[6] = S[1]
    BY <2>1, SeqSecond
  <2>3. (DA \o S)[7] = S[2]
    BY <2>1, SeqSecond
  <2>4. (DA \o S)[8] = S[3]
    BY <2>1, SeqSecond
  <2> QED BY <2>2, <2>3, <2>4
<1>13. DS = DA \o S
  OBVIOUS
<1> HIDE DEF DS
<1>14. /\ Len(DS) \in Nat /\ Len(DS) >= 8
       /\ DS[1] = <<"sdl">> /\ DS[2] = <<"window">> /\ DS[3] = <<"extensions">>
       /\ DS[4] = <<"instance">> /\ DS[5] = <<"device">>
       /\ DS[6] = <<"surface">> /\ DS[7] = <<"render_pass">> /\ DS[8] = <<"swapchain">>
  BY <1>3, <1>10, <1>11, <1>12
<1> DEFINE DR == DS \o R
<1>15. /\ IsSeq(DR) /\ Len(DR) = Len(DS) + Len(R) /\ ToSet(DR) = ToSet(DS) \cup ToSet(R)
       /\ \A i \in 1 .. Len(DS) : DR[i] = DS[i]
  <2>1. IsSeq(DS) /\ IsSeq(R)
    BY <1>4, <1>11
  <2> QED BY <2>1, SeqConcat, Zenon
<1>16. DR[Len(DS) + 2] = R[2]
  <2>1. IsSeq(DS) /\ IsSeq(R) /\ 2 \in 1 .. Len(R)
    BY <1>4, <1>11
  <2> QED BY <2>1, SeqSecond
<1>17. DR = DS \o R
  OBVIOUS
<1> HIDE DEF DR
<1>18. /\ Len(DR) \in Nat /\ Len(DR) > 8 /\ Len(DS) + 2 \in 1 .. Len(DR)
       /\ DR[1] = <<"sdl">> /\ DR[2] = <<"window">> /\ DR[3] = <<"extensions">>
       /\ DR[4] = <<"instance">> /\ DR[5] = <<"device">>
       /\ DR[6] = <<"surface">> /\ DR[7] = <<"render_pass">> /\ DR[8] = <<"swapchain">>
       /\ DR[Len(DS) + 2] = <<"ddl">>
  <2>1. Len(DS) \in Nat /\ Len(DS) >= 8 /\ Len(R) \in Nat /\ Len(R) > 2 /\ Len(DR) = Len(DS) + Len(R)
    BY <1>4, <1>14, <1>15
  <2>2. Len(DR) \in Nat /\ Len(DR) > 8 /\ Len(DS) + 2 \in 1 .. Len(DR)
    BY <2>1
  <2>3. \A i \in 1 .. 8 : DR[i] = DS[i]
    BY <2>1, <1>15
  <2>4. /\ DR[1] = DS[1] /\ DR[2] = DS[2] /\ DR[3] = DS[3] /\ DR[4] = DS[4]
        /\ DR[5] = DS[5] /\ DR[6] = DS[6] /\ DR[7] = DS[7] /\ DR[8] = DS[8]
    BY <2>3
  <2>5. /\ DR[1] = <<"sdl">> /\ DR[2] = <<"window">> /\ DR[3] = <<"extensions">>
        /\ DR[4] = <<"instance">> /\ DR[5] = <<"device">>
        /\ DR[6] = <<"surface">> /\ DR[7] = <<"render_pass">> /\ DR[8] = <<"swapchain">>
    BY <2>4, <1>14
  <2>6. DR[Len(DS) + 2] = <<"ddl">>
    BY <1>4, <1>16
  <2> QED BY <2>2, <2>5, <2>6
<1> DEFINE O == DR \o W
<1>19. /\ IsSeq(O) /\ Len(O) = Len(DR) + Len(W) /\ ToSet(O) = ToSet(DR) \cup ToSet(W)
       /\ \A i \in 1 .. Len(DR) : O[i] = DR[i]
  <2>1. IsSeq(DR) /\ IsSeq(W)
    BY <1>5, <1>15
  <2> QED BY <2>1, SeqConcat, Zenon
<1>20. WindowedOrder = O
  BY <1>6, <1>9, <1>13, <1>17
<1> HIDE DEF O
<1>21. ToSet(O) = WindowedHandles
  BY <1>1, <1>2, <1>3, <1>4, <1>5, <1>7, <1>11, <1>15, <1>19 DEF WindowedHandles
<1>22. Len(O) \in Nat /\ Len(O) > 8 /\ \A i \in 1 .. 8 : O[i] = DR[i]
  BY <1>5, <1>18, <1>19
<1>23. /\ Len(DS) + 2 \in 1 .. Len(O)
       /\ O[Len(DS) + 2] = <<"ddl">>
  BY <1>5, <1>18, <1>19
<1>24. ASSUME NEW i \in 1 .. Len(DS) + 2
       PROVE  O[i] # <<"world">>
  <2>1. i \in 1 .. Len(DR)
    BY <1>18
  <2>2. DR[i] \in ToSet(DR)
    BY <2>1, <1>15, SeqElements DEF IsSeq
  <2>3. DR[i] \in DisplayHandles \cup DeviceHandles \cup SessionHandles \cup RendererHandles
    BY <2>2, <1>1, <1>2, <1>3, <1>4, <1>7, <1>11, <1>15
  <2>4. DR[i][1] \in DisplayNames \cup DeviceNames \cup SessionNames \cup RendererNames
    BY <2>3, PartNames
  <2>5. O[i] = DR[i]
    BY <2>1, <1>19
  <2> QED BY <2>4, <2>5 DEF DisplayNames, DeviceNames, SessionNames, RendererNames
<1>25. \E d \in 1 .. Len(O) : O[d] = <<"ddl">> /\ \A i \in 1 .. d : O[i] # <<"world">>
  BY <1>23, <1>24
<1>26. /\ O[1] = <<"sdl">> /\ O[2] = <<"window">> /\ O[3] = <<"extensions">>
       /\ O[4] = <<"instance">> /\ O[5] = <<"device">>
       /\ O[6] = <<"surface">> /\ O[7] = <<"render_pass">> /\ O[8] = <<"swapchain">>
  <2>1. /\ O[1] = DR[1] /\ O[2] = DR[2] /\ O[3] = DR[3] /\ O[4] = DR[4]
        /\ O[5] = DR[5] /\ O[6] = DR[6] /\ O[7] = DR[7] /\ O[8] = DR[8]
    BY <1>22
  <2> QED BY <2>1, <1>18
<1> QED BY <1>19, <1>20, <1>21, <1>22, <1>25, <1>26

LEMMA AllHandles == Handles = WindowedHandles \cup {<<"client">>, <<"server">>}
BY WindowedMade DEF Handles, WindowedOrder

(* What is used, and by whom.                                              *)
LEMMA UsesSplit ==
  ASSUME NEW u \in Uses
  PROVE  \/ u = <<<<"window">>, <<"sdl">>>> \/ u = <<<<"surface">>, <<"window">>>>
         \/ u = <<<<"surface">>, <<"instance">>>> \/ u = <<<<"device">>, <<"instance">>>>
         \/ u = <<<<"swapchain">>, <<"surface">>>> \/ u = <<<<"world">>, <<"ddl">>>>
         \/ /\ u[2] = <<"device">> /\ u[1] \in SessionHandles \cup RendererHandles
            /\ u[1] # <<"surface">>
         \/ u[2] = <<"swapchain">> /\ \E i \in 1 .. ImageNum : u[1] = <<"view", i>>
<1>1. CASE u \in {<<h, <<"device">>>> : h \in OfDevice}
  <2>1. PICK h \in OfDevice : u = <<h, <<"device">>>>
    BY <1>1
  <2>2. IsSeq(CameraNew) /\ IsSeq(RendererNew)
    BY CameraMade, RendererMade
  <2>3. ToSet(CameraNew \o RendererNew) = ToSet(CameraNew) \cup ToSet(RendererNew)
    BY <2>2, SeqConcat
  <2>4. h \in ToSet(CameraNew) \cup ToSet(RendererNew)
    BY <2>1, <2>3 DEF OfDevice
  <2>5. h \in {<<"render_pass">>, <<"swapchain">>} \cup Images \cup Semaphores \cup RendererHandles
    BY <2>4, CameraMade, RendererMade
  <2>6. h # <<"surface">>
    <3>1. CASE h \in RendererHandles
      <4>1. h[1] # "surface"
        BY <3>1, PartNames DEF RendererNames
      <4> QED BY <4>1
    <3>2. CASE h \in {<<"render_pass">>, <<"swapchain">>} \cup Images \cup Semaphores
      BY <3>2 DEF Images, Semaphores
    <3> QED BY <3>1, <3>2, <2>5
  <2>7. h \in SessionHandles \cup RendererHandles
    BY <2>5 DEF SessionHandles
  <2> QED BY <2>1, <2>6, <2>7
<1>2. CASE u \in {<<h, <<"swapchain">>>> : h \in OfSwapchain}
  BY <1>2, Views
<1>3. CASE u \in {<<<<"window">>, <<"sdl">>>>, <<<<"surface">>, <<"window">>>>,
                  <<<<"surface">>, <<"instance">>>>, <<<<"device">>, <<"instance">>>>,
                  <<<<"swapchain">>, <<"surface">>>>, <<<<"world">>, <<"ddl">>>>}
  BY <1>3
<1> QED BY <1>1, <1>2, <1>3 DEF Uses

---------------------------------------------------------------------------
(* The order of creation.                                                  *)

Arguments == isHeadless \in BOOLEAN /\ isClient \in BOOLEAN

LEMMA NetworkHandle ==
  ASSUME Arguments
  PROVE  /\ Network \in {<<"client">>, <<"server">>} /\ Network[1] \in NetworkNames
         /\ Network \in Handles
<1>1. Network \in {<<"client">>, <<"server">>}
  BY DEF Network, Arguments
<1>2. Network[1] \in NetworkNames
  BY <1>1 DEF NetworkNames
<1> QED BY <1>1, <1>2, AllHandles

LEMMA UserNames ==
  ASSUME NEW u \in Uses
  PROVE  u[1][1] \notin NetworkNames /\ u[2][1] \notin NetworkNames
<1>1. CASE u[2] = <<"device">> /\ u[1] \in SessionHandles \cup RendererHandles
  <2>1. u[1][1] \in SessionNames \cup RendererNames
    BY <1>1, PartNames
  <2> QED BY <1>1, <2>1 DEF SessionNames, RendererNames, NetworkNames
<1>2. CASE u[2] = <<"swapchain">> /\ \E i \in 1 .. ImageNum : u[1] = <<"view", i>>
  BY <1>2 DEF NetworkNames
<1>3. CASE \/ u = <<<<"window">>, <<"sdl">>>> \/ u = <<<<"surface">>, <<"window">>>>
           \/ u = <<<<"surface">>, <<"instance">>>> \/ u = <<<<"device">>, <<"instance">>>>
           \/ u = <<<<"swapchain">>, <<"surface">>>> \/ u = <<<<"world">>, <<"ddl">>>>
  BY <1>3 DEF NetworkNames
<1> QED BY <1>1, <1>2, <1>3, UsesSplit

(* Whoever uses a handle comes after it.                                   *)
LEMMA WindowedFounded ==
  ASSUME NEW i \in 1 .. Len(WindowedOrder), NEW u \in Uses, u[1] = WindowedOrder[i]
  PROVE  \E j \in 1 .. i - 1 : WindowedOrder[j] = u[2]
<1> DEFINE O == WindowedOrder
<1>1. /\ Len(O) \in Nat /\ Len(O) > 8
      /\ O[1] = <<"sdl">> /\ O[2] = <<"window">> /\ O[3] = <<"extensions">>
      /\ O[4] = <<"instance">> /\ O[5] = <<"device">>
      /\ O[6] = <<"surface">> /\ O[7] = <<"render_pass">> /\ O[8] = <<"swapchain">>
  BY WindowedMade
<1>2. PICK d \in 1 .. Len(O) : O[d] = <<"ddl">> /\ \A k \in 1 .. d : O[k] # <<"world">>
  BY WindowedMade
<1>3. i \in 1 .. Len(O) /\ u[1] = O[i]
  OBVIOUS
<1> HIDE DEF O
<1>4. (i = 1 => O[i] = <<"sdl">>) /\ (i = 2 => O[i] = <<"window">>) /\ (i = 3 => O[i] = <<"extensions">>)
       /\ (i = 4 => O[i] = <<"instance">>) /\ (i = 5 => O[i] = <<"device">>)
       /\ (i = 6 => O[i] = <<"surface">>) /\ (i = 7 => O[i] = <<"render_pass">>)
       /\ (i = 8 => O[i] = <<"swapchain">>)
  BY <1>1
<1>5. CASE u = <<<<"window">>, <<"sdl">>>>
  <2>1. i # 1
    BY <1>3, <1>4, <1>5
  <2>2. 1 \in 1 .. i - 1 /\ O[1] = u[2]
    BY <2>1, <1>1, <1>3, <1>5
  <2> QED BY <2>2 DEF O
<1>6. CASE u = <<<<"surface">>, <<"window">>>>
  <2>1. i # 1 /\ i # 2
    BY <1>3, <1>4, <1>6
  <2>2. 2 \in 1 .. i - 1 /\ O[2] = u[2]
    BY <2>1, <1>1, <1>3, <1>6
  <2> QED BY <2>2 DEF O
<1>7. CASE u = <<<<"surface">>, <<"instance">>>> \/ u = <<<<"device">>, <<"instance">>>>
  <2>1. i # 1 /\ i # 2 /\ i # 3 /\ i # 4
    BY <1>3, <1>4, <1>7
  <2>2. 4 \in 1 .. i - 1 /\ O[4] = u[2]
    BY <2>1, <1>1, <1>3, <1>7
  <2> QED BY <2>2 DEF O
<1>8. CASE u = <<<<"swapchain">>, <<"surface">>>>
  <2>1. i # 1 /\ i # 2 /\ i # 3 /\ i # 4 /\ i # 5 /\ i # 6
    BY <1>3, <1>4, <1>8
  <2>2. 6 \in 1 .. i - 1 /\ O[6] = u[2]
    BY <2>1, <1>1, <1>3, <1>8
  <2> QED BY <2>2 DEF O
<1>9. CASE u = <<<<"world">>, <<"ddl">>>>
  <2>1. i \notin 1 .. d
    BY <1>2, <1>3, <1>9
  <2>2. d \in 1 .. i - 1 /\ O[d] = u[2]
    BY <2>1, <1>1, <1>2, <1>3, <1>9
  <2> QED BY <2>2 DEF O
<1>10. CASE u[2] = <<"device">> /\ u[1] \in SessionHandles \cup RendererHandles
  <2>1. O[i][1] \in SessionNames \cup RendererNames
    BY <1>3, <1>10, PartNames
  <2>2. i # 1 /\ i # 2 /\ i # 3 /\ i # 4 /\ i # 5
    BY <2>1, <1>4 DEF SessionNames, RendererNames
  <2>3. 5 \in 1 .. i - 1 /\ O[5] = u[2]
    BY <2>2, <1>1, <1>3, <1>10
  <2> QED BY <2>3 DEF O
<1>11. CASE u[2] = <<"swapchain">> /\ \E v \in 1 .. ImageNum : u[1] = <<"view", v>>
  <2>1. O[i][1] = "view"
    BY <1>3, <1>11
  <2>2. i # 1 /\ i # 2 /\ i # 3 /\ i # 4 /\ i # 5 /\ i # 6 /\ i # 7 /\ i # 8
    BY <2>1, <1>4
  <2>3. 8 \in 1 .. i - 1 /\ O[8] = u[2]
    BY <2>2, <1>1, <1>3, <1>11
  <2> QED BY <2>3 DEF O
<1> QED BY <1>5, <1>6, <1>7, <1>8, <1>9, <1>10, <1>11, UsesSplit

LEMMA OrderOfCreation ==
  ASSUME Arguments
  PROVE  /\ CreationOrder \in Seq(Handles)
         /\ ToSet(CreationOrder) = (IF isHeadless THEN {} ELSE WindowedHandles) \cup {Network}
         /\ \A i \in DOMAIN CreationOrder, u \in Uses :
              u[1] = CreationOrder[i] => \E j \in 1 .. i - 1 : CreationOrder[j] = u[2]
<1> DEFINE W == IF isHeadless THEN <<>> ELSE WindowedOrder
           N == <<Network>>
<1>1. CreationOrder = W \o N
  BY DEF CreationOrder, WindowedOrder
<1>2. IsSeq(W) /\ ToSet(W) = IF isHeadless THEN {} ELSE WindowedHandles
  BY NoElements, WindowedMade
<1>3. IsSeq(N) /\ Len(N) = 1 /\ N[1] = Network /\ ToSet(N) = {Network}
  BY SeqOfOne
<1>4. ASSUME NEW i \in 1 .. Len(W), NEW u \in Uses, u[1] = W[i]
      PROVE  \E j \in 1 .. i - 1 : W[j] = u[2]
  <2>1. CASE isHeadless
    <3>1. Len(W) = 0
      BY <2>1, NoElements
    <3> HIDE DEF W
    <3>2. FALSE
      BY <3>1
    <3> QED BY <3>2
  <2>2. CASE ~isHeadless
    <3>1. W = WindowedOrder
      BY <2>2
    <3> HIDE DEF W
    <3> QED BY <3>1, <1>4, WindowedFounded
  <2> QED BY <2>1, <2>2
<1> HIDE DEF W, N
<1> DEFINE C == W \o N
<1>5. /\ IsSeq(C) /\ Len(C) = Len(W) + Len(N) /\ ToSet(C) = ToSet(W) \cup ToSet(N)
      /\ \A i \in 1 .. Len(W) : C[i] = W[i]
  <2>1. IsSeq(W) /\ IsSeq(N)
    BY <1>2, <1>3
  <2> QED BY <2>1, SeqConcat, Zenon
<1>6. C[Len(W) + 1] = N[1]
  <2>1. IsSeq(W) /\ IsSeq(N) /\ 1 \in 1 .. Len(N)
    BY <1>2, <1>3
  <2> QED BY <2>1, SeqSecond
<1>7. C = W \o N
  OBVIOUS
<1> HIDE DEF C
<1>8. Len(W) \in Nat
  BY <1>2, SeqElements DEF IsSeq
<1>9. ToSet(C) \subseteq Handles
  BY <1>2, <1>3, <1>5, AllHandles, NetworkHandle
<1>10. C \in Seq(Handles) /\ DOMAIN C = 1 .. Len(C)
  BY <1>5, <1>9 DEF IsSeq
<1>11. ASSUME NEW i \in DOMAIN C, NEW u \in Uses, u[1] = C[i]
       PROVE  \E j \in 1 .. i - 1 : C[j] = u[2]
  <2>1. i \in 1 .. Len(W) + 1
    BY <1>3, <1>5, <1>8, <1>10
  <2>2. i # Len(W) + 1
    <3>1. C[Len(W) + 1][1] \in NetworkNames
      BY <1>3, <1>6, NetworkHandle
    <3> QED BY <3>1, <1>11, UserNames
  <2>3. i \in 1 .. Len(W)
    BY <2>1, <2>2, <1>8
  <2>4. PICK j \in 1 .. i - 1 : W[j] = u[2]
    BY <2>3, <1>4, <1>5, <1>11
  <2>5. j \in 1 .. Len(W)
    BY <2>3, <2>4, <1>8
  <2> QED BY <2>4, <2>5, <1>5
<1> QED BY <1>1, <1>2, <1>3, <1>5, <1>7, <1>10, <1>11

---------------------------------------------------------------------------
(* What is left to the calls of cleanup_cli_state.                         *)

LEMMA Calls ==
  /\ DeleteCalls \in Seq(ToSet(DeleteCalls)) /\ Len(DeleteCalls) = 7
  /\ DeleteCalls[1] = "network" /\ DeleteCalls[2] = "world" /\ DeleteCalls[3] = "renderer"
  /\ DeleteCalls[4] = "session" /\ DeleteCalls[5] = "session" /\ DeleteCalls[6] = "display"
  /\ DeleteCalls[7] = "device"
<1> DEFINE D == DeleteCalls
           T == {"network", "world", "renderer", "session", "display", "device"}
<1>1. /\ D \in Seq(T) /\ Len(D) = 7
      /\ D[1] = "network" /\ D[2] = "world" /\ D[3] = "renderer" /\ D[4] = "session"
      /\ D[5] = "session" /\ D[6] = "display" /\ D[7] = "device"
  BY DEF DeleteCalls
<1> HIDE DEF D, T
<1>2. IsSeq(D)
  BY <1>1, SeqElements
<1> QED BY <1>1, <1>2 DEF IsSeq, D

LEMMA DueCalls ==
  /\ Due(7) = {} /\ Due(6) = {7} /\ Due(5) = {6, 7} /\ Due(4) = {6, 7}
  /\ Due(3) = {4, 6, 7} /\ Due(2) = {3, 4, 6, 7} /\ Due(1) = {2, 3, 4, 6, 7}
  /\ Due(0) = {1, 2, 3, 4, 6, 7}
<1> DEFINE D == DeleteCalls
<1>1. /\ Len(D) = 7
      /\ D[1] = "network" /\ D[2] = "world" /\ D[3] = "renderer" /\ D[4] = "session"
      /\ D[5] = "session" /\ D[6] = "display" /\ D[7] = "device"
  BY Calls
<1>2. ASSUME NEW n \in 0 .. 7
      PROVE  Due(n) = {k \in n + 1 .. 7 : \A j \in 1 .. k - 1 : D[j] # D[k]}
  BY <1>1 DEF Due
<1> HIDE DEF D
<1>3. ASSUME NEW k \in 1 .. 7
      PROVE  (\A j \in 1 .. k - 1 : D[j] # D[k]) <=> k # 5
  <2>1. CASE k = 5
    <3>1. 4 \in 1 .. k - 1 /\ D[4] = D[k]
      BY <2>1, <1>1
    <3> QED BY <2>1, <3>1
  <2>2. CASE k # 5
    <3>1. k \in {1, 2, 3, 4, 6, 7}
      BY <2>2
    <3> SUFFICES ASSUME NEW j \in 1 .. k - 1
                 PROVE  D[j] # D[k]
      BY <2>2
    <3>2. j \in {1, 2, 3, 4, 5, 6}
      OBVIOUS
    <3> QED BY <3>1, <3>2, <1>1
  <2> QED BY <2>1, <2>2
<1>4. ASSUME NEW n \in 0 .. 7
      PROVE  Due(n) = {k \in n + 1 .. 7 : k # 5}
  <2>1. Due(n) = {k \in n + 1 .. 7 : \A j \in 1 .. k - 1 : D[j] # D[k]}
    BY <1>2
  <2>2. ASSUME NEW k \in n + 1 .. 7
        PROVE  (\A j \in 1 .. k - 1 : D[j] # D[k]) <=> k # 5
    <3>1. k \in 1 .. 7
      OBVIOUS
    <3> QED BY <3>1, <1>3
  <2> QED BY <2>1, <2>2
<1>5. /\ Due(7) = {k \in 7 + 1 .. 7 : k # 5} /\ Due(6) = {k \in 6 + 1 .. 7 : k # 5}
      /\ Due(5) = {k \in 5 + 1 .. 7 : k # 5} /\ Due(4) = {k \in 4 + 1 .. 7 : k # 5}
      /\ Due(3) = {k \in 3 + 1 .. 7 : k # 5} /\ Due(2) = {k \in 2 + 1 .. 7 : k # 5}
      /\ Due(1) = {k \in 1 + 1 .. 7 : k # 5} /\ Due(0) = {k \in 0 + 1 .. 7 : k # 5}
  BY <1>4
<1> QED BY <1>5

LEMMA LeftSplit ==
  /\ Left(7) = {} /\ Left(6) = Owned("device") /\ Left(5) = Owned("display") \cup Left(6)
  /\ Left(4) = Left(5) /\ Left(3) = Owned("session") \cup Left(4)
  /\ Left(2) = Owned("renderer") \cup Left(3) /\ Left(1) = Owned("world") \cup Left(2)
  /\ Left(0) = Owned("network") \cup Left(1)
<1> DEFINE O(k) == Owned(DeleteCalls[k])
<1>1. \A n : Left(n) = UNION {O(k) : k \in Due(n)}
  BY DEF Left
<1>2. /\ O(1) = Owned("network") /\ O(2) = Owned("world") /\ O(3) = Owned("renderer")
      /\ O(4) = Owned("session") /\ O(6) = Owned("display") /\ O(7) = Owned("device")
  BY Calls
<1> HIDE DEF O
<1>3. Left(7) = {} /\ Left(6) = O(7)
  <2>1. Due(7) = {} /\ Due(6) = {7}
    BY DueCalls
  <2> QED BY <1>1, <2>1
<1>4. Left(5) = O(6) \cup O(7) /\ Left(4) = O(6) \cup O(7)
  BY <1>1, DueCalls
<1>5. Left(3) = O(4) \cup O(6) \cup O(7)
  <2>1. Due(3) = {4, 6, 7}
    BY DueCalls
  <2>2. Left(3) = UNION {O(k) : k \in {4, 6, 7}}
    BY <1>1, <2>1
  <2> QED BY <2>2
<1>6. Left(2) = O(3) \cup O(4) \cup O(6) \cup O(7)
  <2>1. Due(2) = {3, 4, 6, 7}
    BY DueCalls
  <2>2. Left(2) = UNION {O(k) : k \in {3, 4, 6, 7}}
    BY <1>1, <2>1
  <2> QED BY <2>2
<1>7. Left(1) = O(2) \cup O(3) \cup O(4) \cup O(6) \cup O(7)
  <2>1. Due(1) = {2, 3, 4, 6, 7}
    BY DueCalls
  <2>2. Left(1) = UNION {O(k) : k \in {2, 3, 4, 6, 7}}
    BY <1>1, <2>1
  <2> QED BY <2>2
<1>8. Left(0) = O(1) \cup O(2) \cup O(3) \cup O(4) \cup O(6) \cup O(7)
  <2>1. Due(0) = {1, 2, 3, 4, 6, 7}
    BY DueCalls
  <2>2. Left(0) = UNION {O(k) : k \in {1, 2, 3, 4, 6, 7}}
    BY <1>1, <2>1
  <2> QED BY <2>2
<1> QED BY <1>2, <1>3, <1>4, <1>5, <1>6, <1>7, <1>8

LEMMA LeftHeadless ==
  ASSUME isHeadless = TRUE
  PROVE  /\ Left(0) = {Network} /\ Left(1) = {} /\ Left(2) = {} /\ Left(3) = {}
         /\ Left(4) = {} /\ Left(5) = {} /\ Left(6) = {} /\ Left(7) = {}
<1>1. /\ Owned("network") = {Network} /\ Owned("world") = {} /\ Owned("renderer") = {}
      /\ Owned("session") = {} /\ Owned("display") = {} /\ Owned("device") = {}
  BY DEF Owned
<1> QED BY <1>1, LeftSplit

LEMMA LeftWindowed ==
  ASSUME isHeadless = FALSE
  PROVE  /\ Left(7) = {} /\ Left(6) = DeviceHandles
         /\ Left(5) = DisplayHandles \cup DeviceHandles /\ Left(4) = Left(5)
         /\ Left(3) = SessionHandles \cup Left(4) /\ Left(2) = RendererHandles \cup Left(3)
         /\ Left(1) = {<<"world">>} \cup Left(2) /\ Left(0) = {Network} \cup Left(1)
         /\ Left(0) = WindowedHandles \cup {Network}
<1>1. Owned("network") = {Network}
  BY DEF Owned
<1>2. Owned("world") = {<<"world">>}
  BY WorldMade DEF Owned
<1>3. Owned("renderer") = RendererHandles
  BY RendererMade DEF Owned
<1>4. Owned("session") = SessionHandles
  BY SessionMade DEF Owned
<1>5. Owned("display") = DisplayHandles
  BY DisplayMade DEF Owned
<1>6. Owned("device") = DeviceHandles
  BY DeviceMade DEF Owned
<1>7. /\ Left(7) = {} /\ Left(6) = DeviceHandles
      /\ Left(5) = DisplayHandles \cup DeviceHandles /\ Left(4) = Left(5)
      /\ Left(3) = SessionHandles \cup Left(4) /\ Left(2) = RendererHandles \cup Left(3)
      /\ Left(1) = {<<"world">>} \cup Left(2) /\ Left(0) = {Network} \cup Left(1)
  BY <1>1, <1>2, <1>3, <1>4, <1>5, <1>6, LeftSplit
<1> QED BY <1>7 DEF WindowedHandles

LEMMA EverythingLeft == ASSUME Arguments PROVE Left(0) = ToSet(CreationOrder)
<1>1. CASE isHeadless = TRUE
  BY <1>1, LeftHeadless, OrderOfCreation
<1>2. CASE isHeadless = FALSE
  BY <1>2, LeftWindowed, OrderOfCreation
<1> QED BY <1>1, <1>2 DEF Arguments

(* The names of what is left.                                              *)
LEMMA LeftNames ==
  ASSUME Arguments
  PROVE  /\ \A h \in Left(6) : h[1] \in DeviceNames
         /\ \A h \in Left(5) : h[1] \in DeviceNames \cup DisplayNames
         /\ \A h \in Left(4) : h[1] \in DeviceNames \cup DisplayNames
         /\ \A h \in Left(3) : h[1] \in DeviceNames \cup DisplayNames \cup SessionNames
         /\ \A h \in Left(2) : h[1] \in DeviceNames \cup DisplayNames \cup SessionNames \cup RendererNames
         /\ \A h \in Left(1) :
              h[1] \in DeviceNames \cup DisplayNames \cup SessionNames \cup RendererNames \cup {"world"}
         /\ \A n \in 0 .. 7 : Left(n) \subseteq Handles
<1>1. CASE isHeadless = TRUE
  <2>1. \A n \in 0 .. 7 : Left(n) \subseteq Handles
    <3>1. \A n \in 0 .. 7 : n = 0 \/ n = 1 \/ n = 2 \/ n = 3 \/ n = 4 \/ n = 5 \/ n = 6 \/ n = 7
      OBVIOUS
    <3> QED BY <3>1, <1>1, LeftHeadless, NetworkHandle
  <2> QED BY <2>1, <1>1, LeftHeadless
<1>2. CASE isHeadless = FALSE
  <2>1. \A n \in 0 .. 7 : Left(n) \subseteq Left(0)
    <3>1. \A n \in 0 .. 7 : n = 0 \/ n = 1 \/ n = 2 \/ n = 3 \/ n = 4 \/ n = 5 \/ n = 6 \/ n = 7
      OBVIOUS
    <3>2. /\ Left(7) \subseteq Left(6) /\ Left(6) \subseteq Left(5) /\ Left(5) \subseteq Left(4)
          /\ Left(4) \subseteq Left(3) /\ Left(3) \subseteq Left(2) /\ Left(2) \subseteq Left(1)
          /\ Left(1) \subseteq Left(0)
      BY <1>2, LeftWindowed
    <3> QED BY <3>1, <3>2
  <2>2. Left(0) \subseteq Handles
    BY <1>2, LeftWindowed, AllHandles, NetworkHandle
  <2>3. \A h \in Left(6) : h[1] \in DeviceNames
    BY <1>2, LeftWindowed, PartNames
  <2>4. \A h \in Left(5) : h[1] \in DeviceNames \cup DisplayNames
    BY <1>2, LeftWindowed, PartNames
  <2>5. \A h \in Left(4) : h[1] \in DeviceNames \cup DisplayNames
    BY <1>2, <2>4, LeftWindowed
  <2>6. \A h \in Left(3) : h[1] \in DeviceNames \cup DisplayNames \cup SessionNames
    BY <1>2, <2>5, LeftWindowed, PartNames
  <2>7. \A h \in Left(2) : h[1] \in DeviceNames \cup DisplayNames \cup SessionNames \cup RendererNames
    BY <1>2, <2>6, LeftWindowed, PartNames
  <2>8. \A h \in Left(1) :
          h[1] \in DeviceNames \cup DisplayNames \cup SessionNames \cup RendererNames \cup {"world"}
    <3>1. ASSUME NEW h \in Left(1)
          PROVE  h = <<"world">> \/ h \in Left(2)
      BY <1>2, LeftWindowed
    <3>2. \A h : h = <<"world">> => h[1] = "world"
      OBVIOUS
    <3> QED BY <3>1, <3>2, <2>7
  <2> QED BY <2>1, <2>2, <2>3, <2>4, <2>5, <2>6, <2>7, <2>8
<1> QED BY <1>1, <1>2 DEF Arguments

---------------------------------------------------------------------------
(* The deletions of a call.                                                *)

LEMMA SeqOfItems ==
  ASSUME NEW n \in Nat, NEW f, f = [k \in 1 .. n |-> f[k]], NEW T, \A k \in 1 .. n : f[k] \in T
  PROVE  f \in Seq(T) /\ Len(f) = n /\ DOMAIN f = 1 .. n
<1>1. f \in [1 .. n -> T]
  OBVIOUS
<1> QED BY <1>1

LEMMA TestedItems ==
  ASSUME NEW h, IsSeq(h)
  PROVE  /\ IsSeq(Tested(h)) /\ Len(Tested(h)) = Len(h) /\ DOMAIN Tested(h) = 1 .. Len(h)
         /\ \A k \in 1 .. Len(h) : Tested(h)[k] = [handle |-> h[k], tested |-> TRUE]
         /\ IsSeq(Untested(h)) /\ Len(Untested(h)) = Len(h) /\ DOMAIN Untested(h) = 1 .. Len(h)
         /\ \A k \in 1 .. Len(h) : Untested(h)[k] = [handle |-> h[k], tested |-> FALSE]
<1>1. DOMAIN h = 1 .. Len(h) /\ Len(h) \in Nat
  BY SeqElements DEF IsSeq
<1> DEFINE t == Tested(h)
           v == Untested(h)
<1>2. t = [k \in 1 .. Len(h) |-> [handle |-> h[k], tested |-> TRUE]]
  BY <1>1 DEF Tested
<1>3. v = [k \in 1 .. Len(h) |-> [handle |-> h[k], tested |-> FALSE]]
  BY <1>1 DEF Untested
<1> HIDE DEF t, v
<1> DEFINE T == {t[k] : k \in 1 .. Len(h)}
           V == {v[k] : k \in 1 .. Len(h)}
<1>4. t \in Seq(T) /\ Len(t) = Len(h) /\ DOMAIN t = 1 .. Len(h)
  <2>1. t = [k \in 1 .. Len(h) |-> t[k]] /\ \A k \in 1 .. Len(h) : t[k] \in T
    BY <1>2
  <2> HIDE DEF T
  <2> QED BY <2>1, <1>1, SeqOfItems
<1>5. v \in Seq(V) /\ Len(v) = Len(h) /\ DOMAIN v = 1 .. Len(h)
  <2>1. v = [k \in 1 .. Len(h) |-> v[k]] /\ \A k \in 1 .. Len(h) : v[k] \in V
    BY <1>3
  <2> HIDE DEF V
  <2> QED BY <2>1, <1>1, SeqOfItems
<1> HIDE DEF T, V
<1>6. IsSeq(t) /\ IsSeq(v)
  BY <1>4, <1>5, SeqElements
<1>7. \A k \in 1 .. Len(h) : t[k] = [handle |-> h[k], tested |-> TRUE]
  BY <1>2
<1>8. \A k \in 1 .. Len(h) : v[k] = [handle |-> h[k], tested |-> FALSE]
  BY <1>3
<1> QED BY <1>4, <1>5, <1>6, <1>7, <1>8 DEF t, v

(* What a call promises when it finds one set of handles and has another   *)
(* left when it is done.                                                   *)
Deletes(d, before, after) ==
  /\ d \in Seq([handle : Handles, tested : BOOLEAN])
  /\ after \subseteq before
  /\ \A h \in before : h \in after \/ \E k \in DOMAIN d : d[k].handle = h
  /\ \A k \in DOMAIN d : d[k].handle \notin after
  /\ \A i \in DOMAIN d, u \in Uses :
       u[2] = d[i].handle /\ u[1] \in before => \E j \in 1 .. i - 1 : d[j].handle = u[1]
  /\ \A i \in DOMAIN d :
       ~d[i].tested =>
         /\ d[i].handle \in before
         /\ \A j \in DOMAIN d \ {i} : d[j].handle # d[i].handle

LEMMA DeletesTested ==
  ASSUME NEW h, IsSeq(h), ToSet(h) \subseteq Handles, NEW before, NEW after,
         after \subseteq before, before \subseteq after \cup ToSet(h), ToSet(h) \cap after = {},
         \A i \in 1 .. Len(h), u \in Uses :
           u[2] = h[i] /\ u[1] \in before => \E j \in 1 .. i - 1 : h[j] = u[1]
  PROVE  Deletes(Tested(h), before, after)
<1> DEFINE d == Tested(h)
<1>1. /\ IsSeq(d) /\ Len(d) = Len(h) /\ DOMAIN d = 1 .. Len(h)
      /\ \A k \in 1 .. Len(h) : d[k] = [handle |-> h[k], tested |-> TRUE]
  BY TestedItems
<1>2. h \in Seq(ToSet(h))
  BY DEF IsSeq
<1>3. Len(h) \in Nat /\ \A i \in 1 .. Len(h) : h[i] \in ToSet(h)
  BY <1>2, SeqElements
<1>4. \A x : x \in ToSet(h) <=> \E i \in 1 .. Len(h) : x = h[i]
  BY <1>2, SeqElements, Zenon
<1> HIDE DEF d
<1>5. \A k \in 1 .. Len(h) : d[k].handle = h[k] /\ d[k].tested = TRUE
  BY <1>1
<1>6. d \in Seq([handle : Handles, tested : BOOLEAN])
  <2>1. ASSUME NEW k \in 1 .. Len(h)
        PROVE  d[k] \in [handle : Handles, tested : BOOLEAN]
    <3>1. d[k] = [handle |-> h[k], tested |-> TRUE] /\ h[k] \in Handles
      BY <1>1, <1>3
    <3> QED BY <3>1
  <2>2. d \in Seq(ToSet(d))
    BY <1>1 DEF IsSeq
  <2>3. d = [k \in 1 .. Len(h) |-> d[k]]
    BY <1>1, <2>2
  <2> QED BY <2>1, <2>3, <1>3, SeqOfItems
<1>7. \A x \in before : x \in after \/ \E k \in DOMAIN d : d[k].handle = x
  BY <1>1, <1>4, <1>5
<1>8. \A k \in DOMAIN d : d[k].handle \notin after
  BY <1>1, <1>3, <1>5
<1>9. ASSUME NEW i \in DOMAIN d, NEW u \in Uses, u[2] = d[i].handle, u[1] \in before
      PROVE  \E j \in 1 .. i - 1 : d[j].handle = u[1]
  <2>1. i \in 1 .. Len(h) /\ u[2] = h[i]
    BY <1>1, <1>5, <1>9
  <2>2. PICK j \in 1 .. i - 1 : h[j] = u[1]
    BY <2>1, <1>9
  <2>3. j \in 1 .. Len(h)
    BY <2>1, <2>2, <1>3
  <2> QED BY <2>2, <2>3, <1>5
<1>10. \A i \in DOMAIN d : d[i].tested
  BY <1>1, <1>5
<1> QED BY <1>6, <1>7, <1>8, <1>9, <1>10 DEF Deletes, d

LEMMA DeletesNothing == Deletes(<<>>, {}, {})
<1>1. DOMAIN <<>> = {} /\ <<>> \in Seq([handle : Handles, tested : BOOLEAN])
  OBVIOUS
<1> QED BY <1>1 DEF Deletes

(* The names of what is used.                                              *)
LEMMA UsedHandles ==
  ASSUME NEW u \in Uses
  PROVE  /\ u[2] \in {<<"sdl">>, <<"window">>, <<"instance">>, <<"surface">>, <<"ddl">>, <<"device">>,
                      <<"swapchain">>}
         /\ u[2] = <<"sdl">> => u[1] = <<"window">>
         /\ u[2] = <<"window">> => u[1] = <<"surface">>
         /\ u[2] = <<"instance">> => u[1] \in {<<"surface">>, <<"device">>}
         /\ u[2] = <<"surface">> => u[1] = <<"swapchain">>
         /\ u[2] = <<"ddl">> => u[1] = <<"world">>
         /\ u[2] = <<"device">> => u[1][1] \in SessionNames \cup RendererNames
         /\ u[2] = <<"swapchain">> => \E i \in 1 .. ImageNum : u[1] = <<"view", i>>
<1>1. CASE u[2] = <<"device">> /\ u[1] \in SessionHandles \cup RendererHandles
  <2>1. u[1][1] \in SessionNames \cup RendererNames
    BY <1>1, PartNames
  <2> QED BY <1>1, <2>1
<1>2. CASE u[2] = <<"swapchain">> /\ \E i \in 1 .. ImageNum : u[1] = <<"view", i>>
  BY <1>2
<1>3. CASE \/ u = <<<<"window">>, <<"sdl">>>> \/ u = <<<<"surface">>, <<"window">>>>
           \/ u = <<<<"surface">>, <<"instance">>>> \/ u = <<<<"device">>, <<"instance">>>>
           \/ u = <<<<"swapchain">>, <<"surface">>>> \/ u = <<<<"world">>, <<"ddl">>>>
  BY <1>3
<1> QED BY <1>1, <1>2, <1>3, UsesSplit

LEMMA NetworkDeletes ==
  ASSUME Arguments
  PROVE  Deletes(Deletion("network"), Left(0), Left(1))
<1> DEFINE h == <<Network>>
<1>1. IsSeq(h) /\ Len(h) = 1 /\ h[1] = Network /\ ToSet(h) = {Network}
  BY SeqOfOne
<1>2. Left(0) = {Network} \cup Left(1)
  BY LeftHeadless, LeftWindowed DEF Arguments
<1>3. Network \notin Left(1)
  BY NetworkHandle, LeftNames
     DEF NetworkNames, DeviceNames, DisplayNames, SessionNames, RendererNames
<1>4. \A u \in Uses : u[2] # Network
  BY NetworkHandle, UserNames
<1> HIDE DEF h
<1>5. Deletes(Tested(h), Left(0), Left(1))
  <2>1. ToSet(h) \subseteq Handles /\ ToSet(h) \cap Left(1) = {}
    BY <1>1, <1>3, NetworkHandle
  <2>2. Left(1) \subseteq Left(0) /\ Left(0) \subseteq Left(1) \cup ToSet(h)
    BY <1>1, <1>2
  <2>3. \A i \in 1 .. Len(h), u \in Uses :
          u[2] = h[i] /\ u[1] \in Left(0) => \E j \in 1 .. i - 1 : h[j] = u[1]
    BY <1>1, <1>4
  <2> QED BY <1>1, <2>1, <2>2, <2>3, DeletesTested
<1> QED BY <1>5 DEF Deletion, h

(* Without a display every other call finds nothing.                       *)
LEMMA HeadlessDeletes ==
  ASSUME NEW h, IsSeq(h), ToSet(h) \subseteq Handles
  PROVE  Deletes(Tested(h), {}, {})
BY DeletesTested

LEMMA WorldDeletes ==
  ASSUME Arguments
  PROVE  Deletes(Deletion("world"), Left(1), Left(2))
<1> DEFINE h == WorldNew
<1>1. IsSeq(h) /\ Len(h) = 1 /\ h[1] = <<"world">> /\ ToSet(h) = {<<"world">>}
  BY WorldMade
<1>2. ToSet(h) \subseteq Handles
  BY <1>1, AllHandles DEF WindowedHandles
<1>3. Deletion("world") = Tested(h)
  BY DEF Deletion
<1> HIDE DEF h
<1>4. CASE isHeadless = TRUE
  BY <1>1, <1>2, <1>3, <1>4, LeftHeadless, HeadlessDeletes
<1>5. CASE isHeadless = FALSE
  <2>1. Left(1) = {<<"world">>} \cup Left(2)
    BY <1>5, LeftWindowed
  <2>2. <<"world">> \notin Left(2)
    <3>1. <<"world">>[1] = "world"
      OBVIOUS
    <3> QED BY <3>1, LeftNames DEF DeviceNames, DisplayNames, SessionNames, RendererNames
  <2>3. \A u \in Uses : u[2] # <<"world">>
    BY UsedHandles
  <2>4. ToSet(h) \cap Left(2) = {} /\ Left(2) \subseteq Left(1) /\ Left(1) \subseteq Left(2) \cup ToSet(h)
    BY <1>1, <2>1, <2>2
  <2>5. \A i \in 1 .. Len(h), u \in Uses :
          u[2] = h[i] /\ u[1] \in Left(1) => \E j \in 1 .. i - 1 : h[j] = u[1]
    BY <1>1, <2>3
  <2> QED BY <1>1, <1>2, <1>3, <2>4, <2>5, DeletesTested
<1> QED BY <1>4, <1>5 DEF Arguments

LEMMA RendererDeleteItems ==
  ASSUME NEW h, h = Each(FrameNum, FrameCleanup) \o DebugPassDelete \o <<<<"viewport_layout">>>>
  PROVE  IsSeq(h) /\ ToSet(h) = RendererHandles
<1> DEFINE F == Each(FrameNum, FrameCleanup)
           D == DebugPassDelete
           V == <<<<"viewport_layout">>>>
<1>1. IsSeq(F) /\ ToSet(F) = Frames
  BY EachFrame DEF Frames
<1>2. IsSeq(D) /\ ToSet(D) = DebugPassHandles
  BY DebugPassMade
<1>3. IsSeq(V) /\ ToSet(V) = {<<"viewport_layout">>}
  BY SeqOfOne
<1>4. h = (F \o D) \o V
  OBVIOUS
<1> HIDE DEF F, D, V
<1>5. IsSeq(F \o D) /\ ToSet(F \o D) = ToSet(F) \cup ToSet(D)
  <2>1. IsSeq(F) /\ IsSeq(D)
    BY <1>1, <1>2
  <2> QED BY <2>1, SeqConcat, Zenon
<1> DEFINE W == F \o D
<1>6. IsSeq(W) /\ ToSet(W) = ToSet(F) \cup ToSet(D) /\ h = W \o V
  BY <1>4, <1>5
<1> HIDE DEF W
<1>7. IsSeq(W \o V) /\ ToSet(W \o V) = ToSet(W) \cup ToSet(V)
  <2>1. IsSeq(W) /\ IsSeq(V)
    BY <1>3, <1>6
  <2> QED BY <2>1, SeqConcat, Zenon
<1>8. IsSeq(h) /\ ToSet(h) = ToSet(F) \cup ToSet(D) \cup ToSet(V)
  BY <1>6, <1>7, Zenon
<1> QED BY <1>1, <1>2, <1>3, <1>8 DEF RendererHandles

LEMMA RendererDeletes ==
  ASSUME Arguments
  PROVE  Deletes(Deletion("renderer"), Left(2), Left(3))
<1> DEFINE h == Each(FrameNum, FrameCleanup) \o DebugPassDelete \o <<<<"viewport_layout">>>>
<1>1. IsSeq(h) /\ ToSet(h) = RendererHandles
  BY RendererDeleteItems
<1>2. ToSet(h) \subseteq Handles
  BY <1>1, AllHandles DEF WindowedHandles
<1>3. Deletion("renderer") = Tested(h)
  BY DEF Deletion, RendererDelete
<1> HIDE DEF h
<1>4. CASE isHeadless = TRUE
  BY <1>1, <1>2, <1>3, <1>4, LeftHeadless, HeadlessDeletes
<1>5. CASE isHeadless = FALSE
  <2>1. Left(2) = RendererHandles \cup Left(3)
    BY <1>5, LeftWindowed
  <2>2. \A x \in RendererHandles : x \notin Left(3)
    BY PartNames, LeftNames DEF DeviceNames, DisplayNames, SessionNames, RendererNames
  <2>3. ToSet(h) \cap Left(3) = {} /\ Left(3) \subseteq Left(2) /\ Left(2) \subseteq Left(3) \cup ToSet(h)
    BY <1>1, <2>1, <2>2
  <2>4. ASSUME NEW i \in 1 .. Len(h), NEW u \in Uses, u[2] = h[i], u[1] \in Left(2)
        PROVE  FALSE
    <3>1. u[2] \in RendererHandles
      BY <1>1, <2>4, SeqElements DEF IsSeq
    <3>2. u[2][1] \in RendererNames
      BY <3>1, PartNames
    <3>3. u[2] = <<"ddl">>
      BY <3>2, UsedHandles DEF RendererNames
    <3>4. u[1] = <<"world">>
      BY <3>3, UsedHandles
    <3>5. u[1][1] = "world"
      BY <3>4
    <3> QED BY <2>4, <3>5, LeftNames DEF DeviceNames, DisplayNames, SessionNames, RendererNames
  <2>5. \A i \in 1 .. Len(h), u \in Uses :
          u[2] = h[i] /\ u[1] \in Left(2) => \E j \in 1 .. i - 1 : h[j] = u[1]
    BY <2>4
  <2> QED BY <1>1, <1>2, <1>3, <2>3, <2>5, DeletesTested
<1> QED BY <1>4, <1>5 DEF Arguments

LEMMA SurfaceDeletes ==
  IsSeq(<<<<"surface">>>>) /\ ToSet(<<<<"surface">>>>) = {<<"surface">>} /\ <<"surface">> \in Handles
<1>1. <<"surface">> \in Handles
  BY AllHandles DEF WindowedHandles, SessionHandles
<1> QED BY <1>1, SeqOfOne

(* The session is over when it is ended again.                             *)
LEMMA SessionOver ==
  ASSUME Arguments, made = Left(4)
  PROVE  Deletes(Deletion("session"), Left(4), Left(5))
<1> DEFINE h == <<<<"surface">>>>
<1>1. IsSeq(h) /\ Len(h) = 1 /\ h[1] = <<"surface">> /\ ToSet(h) = {<<"surface">>}
  BY SeqOfOne
<1>2. Deletion("session") = Tested(h)
  <2>1. <<"render_pass">> \notin made
    <3>1. <<"render_pass">>[1] = "render_pass"
      OBVIOUS
    <3> QED BY <3>1, LeftNames DEF DeviceNames, DisplayNames
  <2>2. Deletion("session") = <<>> \o Tested(h)
    BY <2>1 DEF Deletion, SessionEnd, CameraDelete
  <2>3. Tested(h) \in Seq(ToSet(Tested(h)))
    BY <1>1, TestedItems DEF IsSeq
  <2> HIDE DEF h
  <2> QED BY <2>2, <2>3
<1> HIDE DEF h
<1>3. Left(4) = Left(5)
  BY LeftSplit
<1>4. <<"surface">> \notin Left(5)
  <2>1. <<"surface">>[1] = "surface"
    OBVIOUS
  <2> QED BY <2>1, LeftNames DEF DeviceNames, DisplayNames
<1>5. ASSUME NEW u \in Uses, u[2] = <<"surface">>
      PROVE  u[1] \notin Left(4)
  <2>1. u[1][1] = "swapchain"
    BY <1>5, UsedHandles
  <2> QED BY <2>1, LeftNames DEF DeviceNames, DisplayNames
<1>6. \A i \in 1 .. Len(h), u \in Uses :
        u[2] = h[i] /\ u[1] \in Left(4) => \E j \in 1 .. i - 1 : h[j] = u[1]
  BY <1>1, <1>5
<1>7. ToSet(h) \cap Left(5) = {} /\ ToSet(h) \subseteq Handles
  BY <1>1, <1>4, SurfaceDeletes
<1> QED BY <1>1, <1>2, <1>3, <1>6, <1>7, DeletesTested

LEMMA DeviceDeletes ==
  ASSUME Arguments
  PROVE  Deletes(Deletion("device"), Left(6), Left(7))
<1> DEFINE h == <<<<"device">>, <<"instance">>>>
<1>1. /\ IsSeq(h) /\ Len(h) = 2 /\ h[1] = <<"device">> /\ h[2] = <<"instance">>
      /\ ToSet(h) = {<<"device">>, <<"instance">>}
  BY SeqOfTwo
<1>2. ToSet(h) \subseteq Handles
  BY <1>1, AllHandles DEF WindowedHandles, DeviceHandles
<1>3. Deletion("device") = Tested(h)
  BY DEF Deletion, DeviceDelete
<1> HIDE DEF h
<1>4. CASE isHeadless = TRUE
  BY <1>1, <1>2, <1>3, <1>4, LeftHeadless, HeadlessDeletes
<1>5. CASE isHeadless = FALSE
  <2>1. Left(6) = ToSet(h) /\ Left(7) = {}
    BY <1>1, <1>5, LeftWindowed DEF DeviceHandles
  <2>2. ASSUME NEW i \in 1 .. Len(h), NEW u \in Uses, u[2] = h[i], u[1] \in Left(6)
        PROVE  \E j \in 1 .. i - 1 : h[j] = u[1]
    <3>1. u[1][1] \in DeviceNames
      BY <2>2, LeftNames
    <3>2. u[2] # <<"device">>
      BY <3>1, UsedHandles DEF SessionNames, RendererNames, DeviceNames
    <3>3. i = 2 /\ u[2] = <<"instance">>
      BY <1>1, <2>2, <3>2
    <3>4. u[1] \in {<<"surface">>, <<"device">>}
      BY <3>3, UsedHandles
    <3>5. u[1] = <<"device">>
      BY <3>1, <3>4 DEF DeviceNames
    <3>6. 1 \in 1 .. i - 1 /\ h[1] = u[1]
      BY <1>1, <3>3, <3>5
    <3> QED BY <3>6
  <2>3. \A i \in 1 .. Len(h), u \in Uses :
          u[2] = h[i] /\ u[1] \in Left(6) => \E j \in 1 .. i - 1 : h[j] = u[1]
    BY <2>2
  <2> QED BY <1>1, <1>2, <1>3, <2>1, <2>3, DeletesTested
<1> QED BY <1>4, <1>5 DEF Arguments

Item(h, b) == [handle |-> h, tested |-> b]

LEMMA ItemTyped ==
  ASSUME NEW h \in Handles, NEW b \in BOOLEAN
  PROVE  Item(h, b) \in [handle : Handles, tested : BOOLEAN] /\ Item(h, b).handle = h /\ Item(h, b).tested = b
BY DEF Item

LEMMA ItemParts ==
  \A h : /\ Item(h, TRUE).handle = h /\ Item(h, TRUE).tested = TRUE
         /\ Item(h, FALSE).handle = h /\ Item(h, FALSE).tested = FALSE
BY DEF Item

LEMMA DisplayDeletes ==
  ASSUME Arguments, made = Left(5)
  PROVE  Deletes(Deletion("display"), Left(5), Left(6))
<1>1. CASE isHeadless = TRUE
  <2>1. Left(5) = {} /\ Left(6) = {}
    BY <1>1, LeftHeadless
  <2>2. Deletion("display") = <<>>
    BY <2>1 DEF Deletion, DisplayDelete
  <2> QED BY <2>1, <2>2, DeletesNothing
<1>2. CASE isHeadless = FALSE
  <2> DEFINE P == <<<<"window">>, <<"extensions">>>>
             Q == <<<<"sdl">>>>
             d == Tested(P) \o Untested(Q)
  <2>1. Left(5) = DisplayHandles \cup DeviceHandles /\ Left(6) = DeviceHandles
    BY <1>2, LeftWindowed
  <2>2. Deletion("display") = d
    <3>1. <<"sdl">> \in made
      BY <2>1 DEF DisplayHandles
    <3> QED BY <3>1 DEF Deletion, DisplayDelete
  <2>3. /\ IsSeq(d) /\ Len(d) = 3 /\ d[1] = Item(<<"window">>, TRUE)
        /\ d[2] = Item(<<"extensions">>, TRUE) /\ d[3] = Item(<<"sdl">>, FALSE)
    <3>1. IsSeq(P) /\ Len(P) = 2 /\ P[1] = <<"window">> /\ P[2] = <<"extensions">>
      BY SeqOfTwo
    <3>2. IsSeq(Q) /\ Len(Q) = 1 /\ Q[1] = <<"sdl">>
      BY SeqOfOne
    <3> HIDE DEF P, Q
    <3> DEFINE p == Tested(P)
               q == Untested(Q)
    <3>3. /\ IsSeq(p) /\ Len(p) = 2 /\ p[1] = Item(<<"window">>, TRUE)
          /\ p[2] = Item(<<"extensions">>, TRUE)
      <4>1. /\ IsSeq(p) /\ Len(p) = Len(P)
            /\ \A k \in 1 .. Len(P) : p[k] = [handle |-> P[k], tested |-> TRUE]
        BY <3>1, TestedItems, Zenon
      <4>2. 1 \in 1 .. Len(P) /\ 2 \in 1 .. Len(P)
        BY <3>1
      <4> HIDE DEF p
      <4> QED BY <4>1, <4>2, <3>1 DEF Item
    <3>4. IsSeq(q) /\ Len(q) = 1 /\ q[1] = Item(<<"sdl">>, FALSE)
      <4>1. /\ IsSeq(q) /\ Len(q) = Len(Q)
            /\ \A k \in 1 .. Len(Q) : q[k] = [handle |-> Q[k], tested |-> FALSE]
        BY <3>2, TestedItems, Zenon
      <4>2. 1 \in 1 .. Len(Q)
        BY <3>2
      <4> HIDE DEF q
      <4> QED BY <4>1, <4>2, <3>2 DEF Item
    <3>5. d = p \o q
      OBVIOUS
    <3> HIDE DEF p, q
    <3>6. /\ IsSeq(p \o q) /\ Len(p \o q) = Len(p) + Len(q)
          /\ \A i \in 1 .. Len(p) : (p \o q)[i] = p[i]
      <4>1. IsSeq(p) /\ IsSeq(q)
        BY <3>3, <3>4
      <4> QED BY <4>1, SeqConcat, Zenon
    <3>7. (p \o q)[3] = q[1]
      <4>1. IsSeq(p) /\ IsSeq(q) /\ 1 \in 1 .. Len(q) /\ 3 = Len(p) + 1
        BY <3>3, <3>4
      <4> QED BY <4>1, SeqSecond
    <3> DEFINE e == p \o q
    <3>8. /\ IsSeq(e) /\ Len(e) = Len(p) + Len(q) /\ e[3] = q[1] /\ d = e
          /\ \A i \in 1 .. Len(p) : e[i] = p[i]
      BY <3>5, <3>6, <3>7
    <3> HIDE DEF d, e
    <3>9. 1 \in 1 .. Len(p) /\ 2 \in 1 .. Len(p) /\ Len(e) = 3
      BY <3>3, <3>4, <3>8
    <3>10. e[1] = p[1] /\ e[2] = p[2]
      BY <3>8, <3>9
    <3> QED BY <3>3, <3>4, <3>8, <3>9, <3>10
  <2> HIDE DEF d
  <2>4. \A h \in DisplayHandles : h \in Handles /\ h \notin DeviceHandles
    BY AllHandles, PartNames DEF WindowedHandles, DisplayNames, DeviceNames
  <2>5. <<"window">> \in DisplayHandles /\ <<"extensions">> \in DisplayHandles /\ <<"sdl">> \in DisplayHandles
    BY DEF DisplayHandles
  <2>6. /\ d[1].handle = <<"window">> /\ d[2].handle = <<"extensions">> /\ d[3].handle = <<"sdl">>
        /\ d[1].tested = TRUE /\ d[2].tested = TRUE /\ d[3].tested = FALSE
    BY <2>3, ItemParts
  <2>7. DOMAIN d = {1, 2, 3} /\ Len(d) = 3
    <3>1. d \in Seq(ToSet(d)) /\ Len(d) = 3
      BY <2>3 DEF IsSeq
    <3>2. DOMAIN d = 1 .. 3
      BY <3>1
    <3> QED BY <3>1, <3>2
  <2>8. d \in Seq([handle : Handles, tested : BOOLEAN])
    <3>0. /\ d[1] \in [handle : Handles, tested : BOOLEAN]
          /\ d[2] \in [handle : Handles, tested : BOOLEAN]
          /\ d[3] \in [handle : Handles, tested : BOOLEAN]
      BY <2>3, <2>4, <2>5, ItemTyped
    <3>1. \A k \in {1, 2, 3} : d[k] \in [handle : Handles, tested : BOOLEAN]
      BY <3>0
    <3>2. d = [k \in 1 .. 3 |-> d[k]]
      <4>1. d \in Seq(ToSet(d)) /\ Len(d) = 3
        BY <2>3 DEF IsSeq
      <4> QED BY <4>1
    <3>3. 3 \in Nat /\ \A k \in 1 .. 3 : d[k] \in [handle : Handles, tested : BOOLEAN]
      BY <3>1
    <3> QED BY <3>2, <3>3, SeqOfItems
  <2>9. Left(6) \subseteq Left(5)
    BY <2>1
  <2>10. \A h \in Left(5) : h \in Left(6) \/ \E k \in DOMAIN d : d[k].handle = h
    BY <2>1, <2>6, <2>7 DEF DisplayHandles
  <2>11. \A k \in DOMAIN d : d[k].handle \notin Left(6)
    BY <2>1, <2>4, <2>5, <2>6, <2>7
  <2>12. ASSUME NEW i \in DOMAIN d, NEW u \in Uses, u[2] = d[i].handle, u[1] \in Left(5)
         PROVE  \E j \in 1 .. i - 1 : d[j].handle = u[1]
    <3>1. u[1][1] \in DeviceNames \cup DisplayNames
      BY <2>12, LeftNames
    <3>2. u[2] # <<"window">>
      BY <3>1, UsedHandles DEF DeviceNames, DisplayNames
    <3>3. u[2] # <<"extensions">>
      BY UsedHandles
    <3>4. i = 3 /\ u[2] = <<"sdl">>
      BY <2>6, <2>7, <2>12, <3>2, <3>3
    <3>5. u[1] = <<"window">>
      BY <3>4, UsedHandles
    <3>6. 1 \in 1 .. i - 1 /\ d[1].handle = u[1]
      BY <2>6, <3>4, <3>5
    <3> QED BY <3>6
  <2>13. ASSUME NEW i \in DOMAIN d, ~d[i].tested
         PROVE  /\ d[i].handle \in Left(5)
                /\ \A j \in DOMAIN d \ {i} : d[j].handle # d[i].handle
    <3>1. i = 3
      BY <2>6, <2>7, <2>13
    <3>2. \A j \in DOMAIN d \ {i} : j = 1 \/ j = 2
      BY <2>7, <3>1
    <3>3. d[i].handle \in Left(5)
      BY <2>1, <2>5, <2>6, <3>1
    <3>4. \A j \in DOMAIN d \ {i} : d[j].handle # d[i].handle
      BY <2>6, <3>1, <3>2
    <3> QED BY <3>3, <3>4
  <2> QED BY <2>2, <2>8, <2>9, <2>10, <2>11, <2>12, <2>13 DEF Deletes
<1> QED BY <1>1, <1>2 DEF Arguments

(* The first end of the session, place by place.                           *)
LEMMA SessionItems ==
  ASSUME <<"swapchain">> \in made, <<"render_pass">> \in made, NEW d, d = SessionEnd(made)
  PROVE  /\ IsSeq(d) /\ Len(d) = 2 * ImageNum + AcquireNum + 3
         /\ \A i \in 1 .. ImageNum : /\ d[2 * i - 1] = Item(<<"view", i>>, FALSE)
                                     /\ d[2 * i] = Item(<<"framebuffer", i>>, FALSE)
         /\ d[2 * ImageNum + 1] = Item(<<"swapchain">>, TRUE)
         /\ \A i \in 1 .. AcquireNum :
              d[2 * ImageNum + 1 + i] = Item(<<"on_image_acquire", i>>, FALSE)
         /\ d[2 * ImageNum + AcquireNum + 2] = Item(<<"render_pass">>, FALSE)
         /\ d[2 * ImageNum + AcquireNum + 3] = Item(<<"surface">>, TRUE)
<1> USE ImageNumAssumption, AcquireNumAssumption
<1> DEFINE I == Each(ImageNum, Image)
           A == Each(AcquireNum, Semaphore)
           S == SurfaceInit
           R == <<<<"render_pass">>>>
           T == <<<<"surface">>>>
           i1 == Untested(I)
           s1 == Tested(S)
           a1 == Untested(A)
           r1 == Untested(R)
           t1 == Tested(T)
<1>1. d = (((i1 \o s1) \o a1) \o r1) \o t1
  BY DEF SessionEnd, CameraDelete, ViewportDelete
<1>2. /\ IsSeq(I) /\ Len(I) = 2 * ImageNum
      /\ \A i \in 1 .. ImageNum : I[2 * i - 1] = <<"view", i>> /\ I[2 * i] = <<"framebuffer", i>>
  BY EachImage
<1>3. /\ IsSeq(A) /\ Len(A) = AcquireNum
      /\ \A i \in 1 .. AcquireNum : A[i] = <<"on_image_acquire", i>>
  BY EachSemaphore
<1>4. IsSeq(S) /\ Len(S) = 1 /\ S[1] = <<"swapchain">>
  BY SeqOfOne DEF SurfaceInit
<1>5. IsSeq(R) /\ Len(R) = 1 /\ R[1] = <<"render_pass">>
  BY SeqOfOne
<1>6. IsSeq(T) /\ Len(T) = 1 /\ T[1] = <<"surface">>
  BY SeqOfOne
<1> HIDE DEF I, A, S, R, T
<1>7. /\ IsSeq(i1) /\ Len(i1) = Len(I)
      /\ \A k \in 1 .. Len(I) : i1[k] = [handle |-> I[k], tested |-> FALSE]
  BY <1>2, TestedItems, Zenon
<1>8. /\ IsSeq(s1) /\ Len(s1) = Len(S)
      /\ \A k \in 1 .. Len(S) : s1[k] = [handle |-> S[k], tested |-> TRUE]
  BY <1>4, TestedItems, Zenon
<1>9. /\ IsSeq(a1) /\ Len(a1) = Len(A)
      /\ \A k \in 1 .. Len(A) : a1[k] = [handle |-> A[k], tested |-> FALSE]
  BY <1>3, TestedItems, Zenon
<1>10. /\ IsSeq(r1) /\ Len(r1) = Len(R)
       /\ \A k \in 1 .. Len(R) : r1[k] = [handle |-> R[k], tested |-> FALSE]
  BY <1>5, TestedItems, Zenon
<1>11. /\ IsSeq(t1) /\ Len(t1) = Len(T)
       /\ \A k \in 1 .. Len(T) : t1[k] = [handle |-> T[k], tested |-> TRUE]
  BY <1>6, TestedItems, Zenon
<1> HIDE DEF i1, s1, a1, r1, t1
<1>12. \A i \in 1 .. ImageNum : /\ i1[2 * i - 1] = Item(<<"view", i>>, FALSE)
                                /\ i1[2 * i] = Item(<<"framebuffer", i>>, FALSE)
  <2> SUFFICES ASSUME NEW i \in 1 .. ImageNum
               PROVE  i1[2 * i - 1] = Item(<<"view", i>>, FALSE) /\ i1[2 * i] = Item(<<"framebuffer", i>>, FALSE)
    OBVIOUS
  <2>1. 2 * i - 1 \in 1 .. Len(I) /\ 2 * i \in 1 .. Len(I)
    BY <1>2
  <2>2. /\ i1[2 * i - 1] = [handle |-> I[2 * i - 1], tested |-> FALSE]
        /\ i1[2 * i] = [handle |-> I[2 * i], tested |-> FALSE]
    BY <1>7, <2>1
  <2> QED BY <2>2, <1>2 DEF Item
<1>13. \A i \in 1 .. AcquireNum : a1[i] = Item(<<"on_image_acquire", i>>, FALSE)
  BY <1>3, <1>9 DEF Item
<1>14. /\ s1[1] = Item(<<"swapchain">>, TRUE) /\ r1[1] = Item(<<"render_pass">>, FALSE)
       /\ t1[1] = Item(<<"surface">>, TRUE)
  <2>1. 1 \in 1 .. Len(S) /\ 1 \in 1 .. Len(R) /\ 1 \in 1 .. Len(T)
    BY <1>4, <1>5, <1>6
  <2> QED BY <2>1, <1>4, <1>5, <1>6, <1>8, <1>10, <1>11 DEF Item
<1> DEFINE x == i1 \o s1
<1>15. /\ IsSeq(x) /\ Len(x) = Len(i1) + Len(s1) /\ \A i \in 1 .. Len(i1) : x[i] = i1[i]
  <2>1. IsSeq(i1) /\ IsSeq(s1)
    BY <1>7, <1>8
  <2> QED BY <2>1, SeqConcat, Zenon
<1>16. x[Len(i1) + 1] = s1[1]
  <2>1. IsSeq(i1) /\ IsSeq(s1) /\ 1 \in 1 .. Len(s1)
    BY <1>4, <1>7, <1>8
  <2> QED BY <2>1, SeqSecond
<1>17. x = i1 \o s1
  OBVIOUS
<1> HIDE DEF x
<1> DEFINE y == x \o a1
<1>18. /\ IsSeq(y) /\ Len(y) = Len(x) + Len(a1) /\ \A i \in 1 .. Len(x) : y[i] = x[i]
  <2>1. IsSeq(x) /\ IsSeq(a1)
    BY <1>9, <1>15
  <2> QED BY <2>1, SeqConcat, Zenon
<1>19. \A i \in 1 .. Len(a1) : y[Len(x) + i] = a1[i]
  <2>1. IsSeq(x) /\ IsSeq(a1)
    BY <1>9, <1>15
  <2> QED BY <2>1, SeqSecond
<1>20. y = x \o a1
  OBVIOUS
<1> HIDE DEF y
<1> DEFINE z == y \o r1
<1>21. /\ IsSeq(z) /\ Len(z) = Len(y) + Len(r1) /\ \A i \in 1 .. Len(y) : z[i] = y[i]
  <2>1. IsSeq(y) /\ IsSeq(r1)
    BY <1>10, <1>18
  <2> QED BY <2>1, SeqConcat, Zenon
<1>22. z[Len(y) + 1] = r1[1]
  <2>1. IsSeq(y) /\ IsSeq(r1) /\ 1 \in 1 .. Len(r1)
    BY <1>5, <1>10, <1>18
  <2> QED BY <2>1, SeqSecond
<1>23. z = y \o r1
  OBVIOUS
<1> HIDE DEF z
<1> DEFINE w == z \o t1
<1>24. /\ IsSeq(w) /\ Len(w) = Len(z) + Len(t1) /\ \A i \in 1 .. Len(z) : w[i] = z[i]
  <2>1. IsSeq(z) /\ IsSeq(t1)
    BY <1>11, <1>21
  <2> QED BY <2>1, SeqConcat, Zenon
<1>25. w[Len(z) + 1] = t1[1]
  <2>1. IsSeq(z) /\ IsSeq(t1) /\ 1 \in 1 .. Len(t1)
    BY <1>6, <1>11, <1>21
  <2> QED BY <2>1, SeqSecond
<1>26. w = d
  BY <1>1, <1>17, <1>20, <1>23
<1> HIDE DEF w
<1>27. /\ Len(i1) = 2 * ImageNum /\ Len(x) = 2 * ImageNum + 1 /\ Len(a1) = AcquireNum
       /\ Len(y) = 2 * ImageNum + AcquireNum + 1 /\ Len(z) = 2 * ImageNum + AcquireNum + 2
       /\ Len(w) = 2 * ImageNum + AcquireNum + 3
  BY <1>2, <1>3, <1>4, <1>5, <1>6, <1>7, <1>8, <1>9, <1>10, <1>11, <1>15, <1>18, <1>21, <1>24
<1>28. ASSUME NEW k \in 1 .. 2 * ImageNum
       PROVE  w[k] = i1[k]
  <2>1. k \in 1 .. Len(i1) /\ k \in 1 .. Len(x) /\ k \in 1 .. Len(y) /\ k \in 1 .. Len(z)
    BY <1>27
  <2> QED BY <2>1, <1>15, <1>18, <1>21, <1>24
<1>29. ASSUME NEW i \in 1 .. ImageNum
       PROVE  w[2 * i - 1] = Item(<<"view", i>>, FALSE) /\ w[2 * i] = Item(<<"framebuffer", i>>, FALSE)
  <2>1. 2 * i - 1 \in 1 .. 2 * ImageNum /\ 2 * i \in 1 .. 2 * ImageNum
    OBVIOUS
  <2> QED BY <2>1, <1>12, <1>28
<1>30. w[2 * ImageNum + 1] = Item(<<"swapchain">>, TRUE)
  <2> DEFINE k == 2 * ImageNum + 1
  <2>1. k \in 1 .. Len(x) /\ k \in 1 .. Len(y) /\ k \in 1 .. Len(z) /\ k = Len(i1) + 1
    BY <1>27
  <2> HIDE DEF k
  <2>2. w[k] = x[k]
    BY <2>1, <1>18, <1>21, <1>24
  <2>3. x[k] = s1[1]
    BY <2>1, <1>16
  <2>4. w[k] = Item(<<"swapchain">>, TRUE)
    BY <2>2, <2>3, <1>14
  <2> QED BY <2>4 DEF k
<1>31. ASSUME NEW i \in 1 .. AcquireNum
       PROVE  w[2 * ImageNum + 1 + i] = Item(<<"on_image_acquire", i>>, FALSE)
  <2> DEFINE k == 2 * ImageNum + 1 + i
  <2>1. k \in 1 .. Len(y) /\ k \in 1 .. Len(z) /\ k = Len(x) + i /\ i \in 1 .. Len(a1)
    BY <1>27
  <2> HIDE DEF k
  <2>2. w[k] = y[k]
    BY <2>1, <1>21, <1>24
  <2>3. y[k] = a1[i]
    BY <2>1, <1>19
  <2>4. w[k] = Item(<<"on_image_acquire", i>>, FALSE)
    BY <2>2, <2>3, <1>13
  <2> QED BY <2>4 DEF k
<1>32. w[2 * ImageNum + AcquireNum + 2] = Item(<<"render_pass">>, FALSE)
  <2> DEFINE k == 2 * ImageNum + AcquireNum + 2
  <2>1. k \in 1 .. Len(z) /\ k = Len(y) + 1
    BY <1>27
  <2> HIDE DEF k
  <2>2. w[k] = r1[1]
    BY <2>1, <1>22, <1>24
  <2>3. w[k] = Item(<<"render_pass">>, FALSE)
    BY <2>2, <1>14
  <2> QED BY <2>3 DEF k
<1>33. w[2 * ImageNum + AcquireNum + 3] = Item(<<"surface">>, TRUE)
  <2>1. 2 * ImageNum + AcquireNum + 3 = Len(z) + 1
    BY <1>27
  <2> QED BY <2>1, <1>14, <1>25
<1> QED BY <1>24, <1>26, <1>27, <1>29, <1>30, <1>31, <1>32, <1>33

(* Every place of it is one of these.                                      *)
LEMMA SessionPlaces ==
  ASSUME NEW k \in 1 .. 2 * ImageNum + AcquireNum + 3
  PROVE  \/ \E i \in 1 .. ImageNum : k = 2 * i - 1 \/ k = 2 * i
         \/ k = 2 * ImageNum + 1
         \/ \E i \in 1 .. AcquireNum : k = 2 * ImageNum + 1 + i
         \/ k = 2 * ImageNum + AcquireNum + 2
         \/ k = 2 * ImageNum + AcquireNum + 3
<1> USE ImageNumAssumption, AcquireNumAssumption
<1>1. CASE k \in 1 .. 2 * ImageNum
  <2>1. (k + 1) \div 2 \in 1 .. ImageNum /\ (k = 2 * ((k + 1) \div 2) - 1 \/ k = 2 * ((k + 1) \div 2))
    BY <1>1
  <2> QED BY <2>1
<1>2. CASE k \in 2 * ImageNum + 2 .. 2 * ImageNum + 1 + AcquireNum
  <2>1. k - (2 * ImageNum + 1) \in 1 .. AcquireNum /\ k = 2 * ImageNum + 1 + (k - (2 * ImageNum + 1))
    BY <1>2
  <2> QED BY <2>1
<1>3. CASE \/ k = 2 * ImageNum + 1 \/ k = 2 * ImageNum + AcquireNum + 2
           \/ k = 2 * ImageNum + AcquireNum + 3
  BY <1>3
<1> QED BY <1>1, <1>2, <1>3

(* The handles of a session are destroyed once each, the image views       *)
(* before the swapchain and that before the surface.                       *)
LEMMA SessionDeletes ==
  ASSUME Arguments, made = Left(3)
  PROVE  Deletes(Deletion("session"), Left(3), Left(4))
<1> USE ImageNumAssumption, AcquireNumAssumption
<1>1. CASE isHeadless = TRUE
  <2> DEFINE h == <<<<"surface">>>>
  <2>1. Left(3) = {} /\ Left(4) = {}
    BY <1>1, LeftHeadless
  <2>2. IsSeq(h) /\ ToSet(h) \subseteq Handles
    BY SurfaceDeletes
  <2>3. Deletion("session") = <<>> \o Tested(h)
    BY <2>1 DEF Deletion, SessionEnd, CameraDelete
  <2> HIDE DEF h
  <2>4. Tested(h) \in Seq(ToSet(Tested(h)))
    BY <2>2, TestedItems DEF IsSeq
  <2>5. Deletion("session") = Tested(h)
    BY <2>3, <2>4
  <2> QED BY <2>1, <2>2, <2>5, HeadlessDeletes
<1>2. CASE isHeadless = FALSE
  <2> DEFINE d == SessionEnd(made)
             I == 2 * ImageNum
             L == I + AcquireNum + 3
             V(i) == <<"view", i>>
             F(i) == <<"framebuffer", i>>
             O(i) == <<"on_image_acquire", i>>
             v(i) == 2 * i - 1
             f(i) == 2 * i
             o(i) == I + 1 + i
  <2>1. Left(3) = SessionHandles \cup Left(4) /\ Left(4) = DisplayHandles \cup DeviceHandles
    BY <1>2, LeftWindowed
  <2>2. /\ IsSeq(d) /\ Len(d) = L
        /\ \A i \in 1 .. ImageNum : d[v(i)] = Item(V(i), FALSE) /\ d[f(i)] = Item(F(i), FALSE)
        /\ d[I + 1] = Item(<<"swapchain">>, TRUE)
        /\ \A i \in 1 .. AcquireNum : d[o(i)] = Item(O(i), FALSE)
        /\ d[I + AcquireNum + 2] = Item(<<"render_pass">>, FALSE)
        /\ d[L] = Item(<<"surface">>, TRUE)
    <3>1. <<"swapchain">> \in made /\ <<"render_pass">> \in made
      BY <2>1 DEF SessionHandles
    <3> QED BY <3>1, SessionItems
  <2>3. Deletion("session") = d
    BY DEF Deletion
  <2>4. DOMAIN d = 1 .. L
    <3>1. d \in Seq(ToSet(d))
      BY <2>2 DEF IsSeq
    <3> HIDE DEF d
    <3> QED BY <2>2, <3>1
  <2> HIDE DEF d
  <2>5. \A h \in SessionHandles : h \in Handles /\ h \notin Left(4)
    BY <2>1, AllHandles, PartNames DEF WindowedHandles, SessionNames, DisplayNames, DeviceNames
  <2>6. /\ \A i \in 1 .. ImageNum : V(i) \in SessionHandles /\ F(i) \in SessionHandles
        /\ \A i \in 1 .. AcquireNum : O(i) \in SessionHandles
        /\ <<"swapchain">> \in SessionHandles /\ <<"render_pass">> \in SessionHandles
        /\ <<"surface">> \in SessionHandles
    BY DEF SessionHandles, Images, Semaphores
  (* What is at each place.                                                *)
  <2>7. /\ \A i \in 1 .. ImageNum : /\ d[v(i)].handle = V(i) /\ d[v(i)].tested = FALSE
                                    /\ d[f(i)].handle = F(i) /\ d[f(i)].tested = FALSE
        /\ d[I + 1].handle = <<"swapchain">> /\ d[I + 1].tested = TRUE
        /\ \A i \in 1 .. AcquireNum : d[o(i)].handle = O(i) /\ d[o(i)].tested = FALSE
        /\ d[I + AcquireNum + 2].handle = <<"render_pass">> /\ d[I + AcquireNum + 2].tested = FALSE
        /\ d[L].handle = <<"surface">> /\ d[L].tested = TRUE
    <3> HIDE DEF I, L, V, F, O, v, f, o
    <3>1. \A i \in 1 .. ImageNum : /\ d[v(i)].handle = V(i) /\ d[v(i)].tested = FALSE
                                    /\ d[f(i)].handle = F(i) /\ d[f(i)].tested = FALSE
      <4> SUFFICES ASSUME NEW i \in 1 .. ImageNum
                   PROVE  /\ d[v(i)].handle = V(i) /\ d[v(i)].tested = FALSE
                          /\ d[f(i)].handle = F(i) /\ d[f(i)].tested = FALSE
        OBVIOUS
      <4>1. d[v(i)] = Item(V(i), FALSE) /\ d[f(i)] = Item(F(i), FALSE)
        BY <2>2
      <4> QED BY <4>1, ItemParts, Zenon
    <3>2. \A i \in 1 .. AcquireNum : d[o(i)].handle = O(i) /\ d[o(i)].tested = FALSE
      <4> SUFFICES ASSUME NEW i \in 1 .. AcquireNum
                   PROVE  d[o(i)].handle = O(i) /\ d[o(i)].tested = FALSE
        OBVIOUS
      <4>1. d[o(i)] = Item(O(i), FALSE)
        BY <2>2
      <4> QED BY <4>1, ItemParts, Zenon
    <3>3. d[I + 1].handle = <<"swapchain">> /\ d[I + 1].tested = TRUE
      BY <2>2, ItemParts, Zenon
    <3>4. d[I + AcquireNum + 2].handle = <<"render_pass">> /\ d[I + AcquireNum + 2].tested = FALSE
      BY <2>2, ItemParts, Zenon
    <3>5. d[L].handle = <<"surface">> /\ d[L].tested = TRUE
      BY <2>2, ItemParts, Zenon
    <3> QED BY <3>1, <3>2, <3>3, <3>4, <3>5
  <2>8. ASSUME NEW k \in DOMAIN d
        PROVE  \/ \E i \in 1 .. ImageNum : k = v(i) \/ k = f(i)
               \/ k = I + 1
               \/ \E i \in 1 .. AcquireNum : k = o(i)
               \/ k = I + AcquireNum + 2
               \/ k = L
    BY <2>4, SessionPlaces
  <2>9. /\ \A i \in 1 .. ImageNum : v(i) \in 1 .. L /\ f(i) \in 1 .. L /\ v(i) \in 1 .. I
        /\ I + 1 \in 1 .. L /\ I + AcquireNum + 2 \in 1 .. L /\ L \in 1 .. L
        /\ \A i \in 1 .. AcquireNum : o(i) \in 1 .. L
        /\ I + 1 \in 1 .. L - 1 /\ I \in Nat
    OBVIOUS
  <2> HIDE DEF I, L, v, f, o
  <2>10. ASSUME NEW k \in DOMAIN d
         PROVE  d[k].handle \in SessionHandles /\ d[k] \in [handle : Handles, tested : BOOLEAN]
    <3>1. \E h \in SessionHandles, b \in BOOLEAN : d[k] = Item(h, b)
      <4>1. CASE \E i \in 1 .. ImageNum : k = v(i) \/ k = f(i)
        BY <4>1, <2>2, <2>6
      <4>2. CASE k = I + 1 \/ k = I + AcquireNum + 2 \/ k = L
        BY <4>2, <2>2, <2>6
      <4>3. CASE \E i \in 1 .. AcquireNum : k = o(i)
        BY <4>3, <2>2, <2>6
      <4> QED BY <4>1, <4>2, <4>3, <2>8
    <3>2. PICK h \in SessionHandles, b \in BOOLEAN : d[k] = Item(h, b)
      BY <3>1
    <3> QED BY <3>2, <2>5, ItemTyped
  <2>11. d \in Seq([handle : Handles, tested : BOOLEAN])
    <3>1. d \in Seq(ToSet(d)) /\ Len(d) = L
      BY <2>2 DEF IsSeq
    <3>2. Len(d) \in Nat /\ d = [k \in 1 .. Len(d) |-> d[k]]
      BY <3>1
    <3> DEFINE T == [handle : Handles, tested : BOOLEAN]
    <3>3. \A k \in 1 .. Len(d) : d[k] \in T
      BY <2>4, <2>10, <3>1
    <3> HIDE DEF T
    <3>4. d \in Seq(T)
      BY <3>2, <3>3, SeqOfItems
    <3> QED BY <3>4 DEF T
  <2>12. \A h \in Left(3) : h \in Left(4) \/ \E k \in DOMAIN d : d[k].handle = h
    <3> SUFFICES ASSUME NEW h \in SessionHandles
                 PROVE  \E k \in DOMAIN d : d[k].handle = h
      BY <2>1
    <3>1. CASE h \in {<<"surface">>, <<"render_pass">>, <<"swapchain">>}
      BY <3>1, <2>4, <2>7, <2>9
    <3>2. CASE h \in Images
      <4>1. PICK i \in 1 .. ImageNum : h = V(i) \/ h = F(i)
        BY <3>2 DEF Images
      <4>2. d[v(i)].handle = V(i) /\ d[f(i)].handle = F(i) /\ v(i) \in DOMAIN d /\ f(i) \in DOMAIN d
        BY <2>4, <2>7, <2>9
      <4> QED BY <4>1, <4>2
    <3>3. CASE h \in Semaphores
      <4>1. PICK i \in 1 .. AcquireNum : h = O(i)
        BY <3>3 DEF Semaphores
      <4>2. d[o(i)].handle = O(i) /\ o(i) \in DOMAIN d
        BY <2>4, <2>7, <2>9
      <4> QED BY <4>1, <4>2
    <3> QED BY <3>1, <3>2, <3>3 DEF SessionHandles
  <2>13. \A k \in DOMAIN d : d[k].handle \notin Left(4)
    BY <2>5, <2>10
  <2>14. ASSUME NEW i \in DOMAIN d, NEW u \in Uses, u[2] = d[i].handle, u[1] \in Left(3)
         PROVE  \E j \in 1 .. i - 1 : d[j].handle = u[1]
    <3>1. u[2] = <<"surface">> \/ u[2] = <<"swapchain">>
      <4>1. u[2][1] \in SessionNames
        BY <2>10, <2>14, PartNames
      <4> QED BY <4>1, UsedHandles DEF SessionNames
    <3>2. CASE u[2] = <<"surface">>
      <4>1. i = L
        <5>1. d[i].handle = <<"surface">>
          BY <2>14, <3>2
        <5>2. ~(\E w \in 1 .. ImageNum : i = v(w) \/ i = f(w))
          BY <5>1, <2>7
        <5>3. ~(\E w \in 1 .. AcquireNum : i = o(w))
          BY <5>1, <2>7
        <5>4. i # I + 1 /\ i # I + AcquireNum + 2
          BY <5>1, <2>7
        <5> QED BY <5>2, <5>3, <5>4, <2>8
      <4>2. u[1] = <<"swapchain">>
        BY <3>2, UsedHandles
      <4>3. I + 1 \in 1 .. i - 1 /\ d[I + 1].handle = u[1]
        BY <4>1, <4>2, <2>7, <2>9
      <4> QED BY <4>3
    <3>3. CASE u[2] = <<"swapchain">>
      <4>1. i = I + 1
        <5>1. d[i].handle = <<"swapchain">>
          BY <2>14, <3>3
        <5>2. ~(\E w \in 1 .. ImageNum : i = v(w) \/ i = f(w))
          BY <5>1, <2>7
        <5>3. ~(\E w \in 1 .. AcquireNum : i = o(w))
          BY <5>1, <2>7
        <5>4. i # L /\ i # I + AcquireNum + 2
          BY <5>1, <2>7
        <5> QED BY <5>2, <5>3, <5>4, <2>8
      <4>2. PICK m \in 1 .. ImageNum : u[1] = <<"view", m>>
        BY <3>3, UsedHandles
      <4>3. v(m) \in 1 .. i - 1
        BY <4>1, <2>9
      <4>4. d[v(m)].handle = u[1]
        BY <4>2, <2>7
      <4> QED BY <4>3, <4>4
    <3> QED BY <3>1, <3>2, <3>3
  <2>15. ASSUME NEW i \in DOMAIN d, ~d[i].tested, NEW j \in DOMAIN d, d[j].handle = d[i].handle
         PROVE  j = i
    <3>1. i # I + 1 /\ i # L
      BY <2>7, <2>15
    <3>2. CASE \E m \in 1 .. ImageNum : i = v(m)
      <4>1. PICK m \in 1 .. ImageNum : i = v(m)
        BY <3>2
      <4>2. d[j].handle = <<"view", m>>
        BY <4>1, <2>7, <2>15
      <4>3. ~(\E w \in 1 .. AcquireNum : j = o(w))
        BY <4>2, <2>7
      <4>4. j # I + 1 /\ j # I + AcquireNum + 2 /\ j # L
        BY <4>2, <2>7
      <4>5. PICK w \in 1 .. ImageNum : j = v(w) \/ j = f(w)
        BY <4>3, <4>4, <2>8
      <4>6. j = v(w) /\ w = m
        BY <4>2, <4>5, <2>7
      <4> QED BY <4>1, <4>6
    <3>3. CASE \E m \in 1 .. ImageNum : i = f(m)
      <4>1. PICK m \in 1 .. ImageNum : i = f(m)
        BY <3>3
      <4>2. d[j].handle = <<"framebuffer", m>>
        BY <4>1, <2>7, <2>15
      <4>3. ~(\E w \in 1 .. AcquireNum : j = o(w))
        BY <4>2, <2>7
      <4>4. j # I + 1 /\ j # I + AcquireNum + 2 /\ j # L
        BY <4>2, <2>7
      <4>5. PICK w \in 1 .. ImageNum : j = v(w) \/ j = f(w)
        BY <4>3, <4>4, <2>8
      <4>6. j = f(w) /\ w = m
        BY <4>2, <4>5, <2>7
      <4> QED BY <4>1, <4>6
    <3>4. CASE \E m \in 1 .. AcquireNum : i = o(m)
      <4>1. PICK m \in 1 .. AcquireNum : i = o(m)
        BY <3>4
      <4>2. d[j].handle = <<"on_image_acquire", m>>
        BY <4>1, <2>7, <2>15
      <4>3. ~(\E w \in 1 .. ImageNum : j = v(w) \/ j = f(w))
        BY <4>2, <2>7
      <4>4. j # I + 1 /\ j # I + AcquireNum + 2 /\ j # L
        BY <4>2, <2>7
      <4>5. PICK w \in 1 .. AcquireNum : j = o(w)
        BY <4>3, <4>4, <2>8
      <4>6. w = m
        BY <4>2, <4>5, <2>7
      <4> QED BY <4>1, <4>5, <4>6
    <3>5. CASE i = I + AcquireNum + 2
      <4>1. d[j].handle = <<"render_pass">>
        BY <3>5, <2>7, <2>15
      <4>2. ~(\E w \in 1 .. ImageNum : j = v(w) \/ j = f(w))
        BY <4>1, <2>7
      <4>3. ~(\E w \in 1 .. AcquireNum : j = o(w))
        BY <4>1, <2>7
      <4>4. j # I + 1 /\ j # L
        BY <4>1, <2>7
      <4> QED BY <3>5, <4>2, <4>3, <4>4, <2>8
    <3> QED BY <3>1, <3>2, <3>3, <3>4, <3>5, <2>8
  <2>16. \A i \in DOMAIN d :
          ~d[i].tested =>
            /\ d[i].handle \in Left(3)
            /\ \A j \in DOMAIN d \ {i} : d[j].handle # d[i].handle
    BY <2>1, <2>10, <2>15
  <2>17. Left(4) \subseteq Left(3)
    BY <2>1
  <2> QED BY <2>3, <2>11, <2>12, <2>13, <2>14, <2>16, <2>17 DEF Deletes
<1> QED BY <1>1, <1>2 DEF Arguments

(* Every call of cleanup_cli_state.                                        *)
LEMMA CallDeletes ==
  ASSUME Arguments, NEW n \in 0 .. 6, made = Left(n)
  PROVE  Deletes(Deletion(DeleteCalls[n + 1]), Left(n), Left(n + 1))
<1>1. n = 0 \/ n = 1 \/ n = 2 \/ n = 3 \/ n = 4 \/ n = 5 \/ n = 6
  OBVIOUS
<1>2. CASE n = 0
  BY <1>2, Calls, NetworkDeletes
<1>3. CASE n = 1
  BY <1>3, Calls, WorldDeletes
<1>4. CASE n = 2
  BY <1>4, Calls, RendererDeletes
<1>5. CASE n = 3
  BY <1>5, Calls, SessionDeletes
<1>6. CASE n = 4
  BY <1>6, Calls, SessionOver
<1>7. CASE n = 5
  BY <1>7, Calls, DisplayDeletes
<1>8. CASE n = 6
  BY <1>8, Calls, DeviceDeletes
<1> QED BY <1>1, <1>2, <1>3, <1>4, <1>5, <1>6, <1>7, <1>8

---------------------------------------------------------------------------
(* The invariant.                                                          *)

LEMMA TypedArguments == TypeOK => Arguments
BY DEF TypeOK, Arguments

LEMMA SameArguments ==
  ASSUME UNCHANGED args
  PROVE  CreationOrder' = CreationOrder /\ \A n : Left(n)' = Left(n)
<1>1. isHeadless' = isHeadless /\ isClient' = isClient
  BY DEF args
<1>2. Network' = Network
  BY <1>1 DEF Network
<1>3. CreationOrder' = CreationOrder
  BY <1>1, <1>2 DEF CreationOrder
<1>4. \A c : Owned(c)' = Owned(c)
  BY <1>1, <1>2 DEF Owned
<1>5. \A n : Left(n)' = Left(n)
  BY <1>4 DEF Left
<1> QED BY <1>3, <1>5

LEMMA InitMainInv == Init => MainInv
<1> SUFFICES ASSUME Init
             PROVE  MainInv
  OBVIOUS
<1>1. Arguments
  BY DEF Init, Arguments
<1>2. /\ CreationOrder \in Seq(Handles)
      /\ \A i \in DOMAIN CreationOrder, u \in Uses :
           u[1] = CreationOrder[i] => \E j \in 1 .. i - 1 : CreationOrder[j] = u[2]
  BY <1>1, OrderOfCreation
<1>3. <<>> \in Seq(ToSet(DeleteCalls)) /\ <<>> \in Seq([handle : Handles, tested : BOOLEAN])
  OBVIOUS
<1>4. TypeOK
  BY <1>2, <1>3 DEF Init, TypeOK
<1>5. NothingDangles
  BY DEF Init, NothingDangles
<1>6. Creating
  <2>1. Founded
    BY <1>2 DEF Init, Founded
  <2> QED BY <2>1 DEF Init, Creating
<1>7. Running /\ CleaningUp /\ ExitIsClean
  BY DEF Init, Running, CleaningUp, ExitIsClean, LoopStates
<1> QED BY <1>4, <1>5, <1>6, <1>7 DEF MainInv

(* A step that creates and destroys nothing.                               *)
LEMMA NothingMoves ==
  ASSUME MainInv, TypeOK', UNCHANGED <<args, made, todo, doomed, calls>>,
         \/ pc' = pc
         \/ pc' \in {"failed", "killed"}
         \/ pc \in LoopStates \cup {"handlers"} /\ pc' \in LoopStates
  PROVE  MainInv'
<1>1. CreationOrder' = CreationOrder /\ \A n : Left(n)' = Left(n)
  BY SameArguments
<1>2. made' = made /\ todo' = todo /\ doomed' = doomed /\ calls' = calls
  OBVIOUS
<1>3. NothingDangles'
  BY <1>2 DEF MainInv, NothingDangles
<1>4. Creating'
  BY <1>1, <1>2 DEF MainInv, Creating, Founded, LoopStates
<1>5. Running'
  BY <1>1, <1>2 DEF MainInv, Running, LoopStates
<1>6. CleaningUp'
  <2> SUFFICES ASSUME pc' = "cleanup"
               PROVE  (\E n \in 0 .. Len(DeleteCalls) : CleanedUp(n))' /\ Orderly' /\ UntestedMade'
    BY DEF CleaningUp
  <2>1. pc = "cleanup"
    BY DEF LoopStates
  <2>2. PICK n \in 0 .. Len(DeleteCalls) : CleanedUp(n)
    BY <2>1 DEF MainInv, CleaningUp
  <2>3. Orderly' /\ UntestedMade'
    BY <2>1, <1>2 DEF MainInv, CleaningUp, Orderly, UntestedMade
  <2>4. CleanedUp(n)'
    BY <2>2, <1>1, <1>2 DEF CleanedUp, DoomedHandles
  <2> QED BY <2>3, <2>4
<1>7. ExitIsClean'
  BY <1>2 DEF MainInv, ExitIsClean, LoopStates
<1> QED BY <1>3, <1>4, <1>5, <1>6, <1>7 DEF MainInv

LEMMA StepCreateObject == MainInv /\ CreateObject => MainInv'
<1> SUFFICES ASSUME MainInv, CreateObject
             PROVE  MainInv'
  OBVIOUS
<1>1. CreationOrder' = CreationOrder
  BY SameArguments DEF CreateObject
<1>2. /\ pc = "create" /\ todo # <<>> /\ doomed' = doomed /\ calls' = calls
      /\ made \cup ToSet(todo) = ToSet(CreationOrder) /\ Founded /\ doomed = <<>>
      /\ TypeOK /\ NothingDangles /\ made' \in {made, made \cup {Head(todo)}}
      /\ \/ made' = made \cup {Head(todo)} /\ todo' = Tail(todo) /\ pc' = pc
         \/ todo' = todo /\ pc' = "failed"
  BY DEF CreateObject, MainInv, Creating
<1>3. /\ todo \in Seq(Handles) /\ Len(todo) \in Nat /\ Len(todo) # 0 /\ DOMAIN todo = 1 .. Len(todo)
      /\ Head(todo) = todo[1] /\ Head(todo) \in Handles
  BY <1>2 DEF TypeOK
<1>4. /\ Tail(todo) \in Seq(Handles) /\ DOMAIN Tail(todo) = 1 .. Len(todo) - 1
      /\ \A i \in 1 .. Len(todo) - 1 : Tail(todo)[i] = todo[i + 1]
  BY <1>3
<1>5. TypeOK'
  <2>1. made' \subseteq Handles
    BY <1>2, <1>3 DEF TypeOK
  <2>2. todo' \in Seq(Handles)
    BY <1>2, <1>3, <1>4
  <2> QED BY <1>2, <2>1, <2>2 DEF TypeOK, CreateObject, args
<1>6. NothingDangles'
  <2> SUFFICES ASSUME NEW u \in Uses, u[1] \in made'
               PROVE  u[2] \in made'
    BY DEF NothingDangles
  <2>1. CASE u[1] \in made
    BY <2>1, <1>2 DEF NothingDangles
  <2>2. CASE u[1] = Head(todo)
    <3>1. u[2] \in made \/ \E j \in 1 .. 1 - 1 : todo[j] = u[2]
      BY <2>2, <1>2, <1>3 DEF Founded
    <3> QED BY <3>1, <1>2
  <2> QED BY <2>1, <2>2, <1>2
<1>7. Creating'
  <2> SUFFICES ASSUME pc' = "create"
               PROVE  made' \cup ToSet(todo') = ToSet(CreationOrder') /\ Founded' /\ doomed' = <<>>
    BY DEF Creating
  <2>1. made' = made \cup {Head(todo)} /\ todo' = Tail(todo)
    BY <1>2
  <2>2. ToSet(todo) = {Head(todo)} \cup ToSet(Tail(todo))
    <3>1. ASSUME NEW x \in ToSet(todo)
          PROVE  x = Head(todo) \/ x \in ToSet(Tail(todo))
      <4>1. PICK i \in 1 .. Len(todo) : x = todo[i]
        BY <1>3 DEF ToSet
      <4>2. CASE i = 1
        BY <4>1, <4>2, <1>3
      <4>3. CASE i # 1
        <5>1. i - 1 \in 1 .. Len(todo) - 1 /\ Tail(todo)[i - 1] = x
          BY <4>1, <4>3, <1>3, <1>4
        <5> QED BY <5>1, <1>4 DEF ToSet
      <4> QED BY <4>2, <4>3
    <3>2. ASSUME NEW x \in ToSet(Tail(todo))
          PROVE  x \in ToSet(todo)
      <4>1. PICK i \in 1 .. Len(todo) - 1 : x = Tail(todo)[i]
        BY <1>4 DEF ToSet
      <4>2. i + 1 \in 1 .. Len(todo) /\ todo[i + 1] = x
        BY <4>1, <1>3, <1>4
      <4> QED BY <4>2, <1>3 DEF ToSet
    <3>3. Head(todo) \in ToSet(todo)
      <4>1. 1 \in 1 .. Len(todo)
        BY <1>3
      <4> QED BY <4>1, <1>3 DEF ToSet
    <3> QED BY <3>1, <3>2, <3>3
  <2>3. Founded'
    <3> SUFFICES ASSUME NEW i \in DOMAIN todo', NEW u \in Uses, u[1] = todo'[i]
                 PROVE  u[2] \in made' \/ \E j \in 1 .. i - 1 : todo'[j] = u[2]
      BY DEF Founded
    <3>1. i \in 1 .. Len(todo) - 1 /\ i + 1 \in 1 .. Len(todo) /\ todo'[i] = todo[i + 1]
      BY <2>1, <1>3, <1>4
    <3>2. u[2] \in made \/ \E j \in 1 .. i : todo[j] = u[2]
      <4>1. u[2] \in made \/ \E j \in 1 .. (i + 1) - 1 : todo[j] = u[2]
        BY <3>1, <1>2, <1>3 DEF Founded
      <4> QED BY <4>1, <3>1
    <3>3. CASE \E j \in 1 .. i : todo[j] = u[2]
      <4>1. PICK j \in 1 .. i : todo[j] = u[2]
        BY <3>3
      <4>2. CASE j = 1
        BY <4>1, <4>2, <2>1, <1>3
      <4>3. CASE j # 1
        <5>1. j - 1 \in 1 .. i - 1 /\ j - 1 \in 1 .. Len(todo) - 1 /\ (j - 1) + 1 = j
          BY <4>1, <4>3, <3>1
        <5>2. todo'[j - 1] = u[2]
          BY <5>1, <4>1, <2>1, <1>4
        <5> QED BY <5>1, <5>2
      <4> QED BY <4>2, <4>3
    <3> QED BY <3>2, <3>3, <2>1
  <2> QED BY <1>1, <1>2, <2>1, <2>2, <2>3
<1>8. Running' /\ CleaningUp' /\ ExitIsClean'
  BY <1>2 DEF Running, CleaningUp, ExitIsClean, LoopStates
<1> QED BY <1>5, <1>6, <1>7, <1>8 DEF MainInv

LEMMA StepCreated == MainInv /\ Created => MainInv'
<1> SUFFICES ASSUME MainInv, Created
             PROVE  MainInv'
  OBVIOUS
<1>1. CreationOrder' = CreationOrder
  BY SameArguments DEF Created
<1>2. /\ pc = "create" /\ pc' = "handlers" /\ todo = <<>> /\ doomed = <<>>
      /\ made' = made /\ todo' = todo /\ doomed' = doomed /\ calls' = calls
      /\ made \cup ToSet(todo) = ToSet(CreationOrder) /\ TypeOK /\ NothingDangles
  BY DEF Created, MainInv, Creating
<1>3. ToSet(todo) = {}
  BY <1>2, NoElements
<1>4. TypeOK'
  BY <1>2 DEF TypeOK, Created, args
<1>5. NothingDangles'
  BY <1>2 DEF NothingDangles
<1>6. Running'
  BY <1>1, <1>2, <1>3 DEF Running
<1>7. Creating' /\ CleaningUp' /\ ExitIsClean'
  BY <1>2 DEF Creating, CleaningUp, ExitIsClean
<1> QED BY <1>4, <1>5, <1>6, <1>7 DEF MainInv

(* What no step but those of the creation and the cleanup touches.         *)
LEMMA QuietType ==
  ASSUME TypeOK, UNCHANGED <<args, made, todo, doomed, calls>>,
         pc' \in LoopStates \cup {"create", "handlers", "cleanup", "exited", "failed", "killed"},
         shouldExit' \in BOOLEAN, dt' = dt, interrupted' \in BOOLEAN, handlers' \subseteq Signals,
         quitEvent' \in BOOLEAN
  PROVE  TypeOK'
BY DEF TypeOK, args

LEMMA StepInstallHandler == MainInv /\ InstallHandler => MainInv'
<1> SUFFICES ASSUME MainInv, InstallHandler
             PROVE  MainInv'
  OBVIOUS
<1>1. /\ TypeOK /\ pc = "handlers" /\ pc' \in {pc, "test"} /\ UNCHANGED <<args, made, todo, doomed, calls>>
      /\ shouldExit' = shouldExit /\ dt' = dt /\ interrupted' = interrupted /\ quitEvent' = quitEvent
      /\ handlers' \in {{"SIGTERM"}, Signals}
  BY DEF InstallHandler, MainInv
<1>2. handlers' \subseteq Signals
  BY <1>1 DEF Signals
<1>3. TypeOK'
  <2>1. shouldExit' \in BOOLEAN /\ interrupted' \in BOOLEAN /\ quitEvent' \in BOOLEAN
    BY <1>1 DEF TypeOK
  <2> QED BY <1>1, <1>2, <2>1, QuietType DEF LoopStates
<1> QED BY <1>1, <1>3, NothingMoves DEF LoopStates

LEMMA StepTest == MainInv /\ Test => MainInv'
<1> SUFFICES ASSUME MainInv, Test
             PROVE  MainInv'
  OBVIOUS
<1>1. /\ TypeOK /\ NothingDangles /\ pc = "test" /\ UNCHANGED <<args, made, todo, doomed>>
      /\ shouldExit' = shouldExit /\ dt' = dt /\ interrupted' = interrupted /\ quitEvent' = quitEvent
      /\ handlers' = handlers
      /\ \/ pc' \in {"update", "poll"} /\ calls' = calls
         \/ pc' = "cleanup" /\ calls' = DeleteCalls
  BY DEF Test, MainInv
<1>2. shouldExit \in BOOLEAN /\ interrupted \in BOOLEAN /\ quitEvent \in BOOLEAN /\ handlers \subseteq Signals
  BY <1>1 DEF TypeOK
<1>3. CASE pc' \in {"update", "poll"} /\ calls' = calls
  <2>1. UNCHANGED <<args, made, todo, doomed, calls>>
    BY <1>1, <1>3
  <2>2. pc' \in LoopStates
    BY <1>3 DEF LoopStates
  <2>3. TypeOK'
    BY <1>1, <1>2, <2>1, <2>2, QuietType
  <2>4. pc \in LoopStates
    BY <1>1 DEF LoopStates
  <2> QED BY <2>1, <2>2, <2>3, <2>4, NothingMoves
<1>4. CASE pc' = "cleanup" /\ calls' = DeleteCalls
  <2>1. TypeOK'
    <3>1. calls' \in Seq(ToSet(DeleteCalls))
      BY <1>4, Calls
    <3> QED BY <1>1, <1>4, <3>1 DEF TypeOK, args
  <2>2. made = ToSet(CreationOrder) /\ doomed = <<>>
    BY <1>1 DEF MainInv, Running, LoopStates
  <2>3. made = Left(0)
    BY <1>1, <2>2, TypedArguments, EverythingLeft
  <2>4. \A n : Left(n)' = Left(n)
    BY <1>1, SameArguments
  <2>5. NothingDangles'
    BY <1>1 DEF NothingDangles
  <2>6. CleaningUp'
    <3>1. made' = Left(0)' /\ doomed' = <<>>
      BY <1>1, <2>2, <2>3, <2>4
    <3>2. DOMAIN doomed' = {}
      BY <3>1
    <3>3. calls' = SubSeq(DeleteCalls, 0 + 1, Len(DeleteCalls)) /\ 0 \in 0 .. Len(DeleteCalls)
      BY <1>4, Calls
    <3>4. CleanedUp(0)'
      BY <3>1, <3>2, <3>3 DEF CleanedUp, DoomedHandles
    <3>5. (\E n \in 0 .. Len(DeleteCalls) : CleanedUp(n))'
      BY <3>3, <3>4
    <3>6. Orderly' /\ UntestedMade'
      BY <3>2 DEF Orderly, UntestedMade
    <3> QED BY <3>5, <3>6 DEF CleaningUp
  <2>7. Creating' /\ Running' /\ ExitIsClean'
    BY <1>4 DEF Creating, Running, ExitIsClean, LoopStates
  <2> QED BY <2>1, <2>5, <2>6, <2>7 DEF MainInv
<1> QED BY <1>1, <1>3, <1>4

LEMMA StepLoop == MainInv /\ (Poll \/ LoopStep) => MainInv'
<1> SUFFICES ASSUME MainInv, Poll \/ LoopStep
             PROVE  MainInv'
  OBVIOUS
<1>1. /\ TypeOK /\ pc \in LoopStates /\ pc' \in LoopStates /\ UNCHANGED <<args, made, todo, doomed, calls>>
      /\ dt' = dt /\ interrupted' = interrupted /\ handlers' = handlers
  BY DEF Poll, LoopStep, MainInv, LoopStates
<1>2. shouldExit' \in BOOLEAN /\ quitEvent' \in BOOLEAN
  BY <1>1 DEF TypeOK, Poll, LoopStep
<1>3. interrupted' \in BOOLEAN /\ handlers' \subseteq Signals
  BY <1>1 DEF TypeOK
<1>4. TypeOK'
  BY <1>1, <1>2, <1>3, QuietType
<1> QED BY <1>1, <1>4, NothingMoves

LEMMA StepEnvironment == MainInv /\ ((\E s \in Signals : Signal(s)) \/ CloseWindow) => MainInv'
<1> SUFFICES ASSUME MainInv, (\E s \in Signals : Signal(s)) \/ CloseWindow
             PROVE  MainInv'
  OBVIOUS
<1>1. /\ TypeOK /\ pc' \in {pc, "killed"} /\ UNCHANGED <<args, made, todo, doomed, calls>>
      /\ dt' = dt /\ shouldExit' = shouldExit /\ handlers' = handlers
      /\ interrupted' \in {interrupted, TRUE} /\ quitEvent' \in {quitEvent, TRUE}
  BY DEF Signal, CloseWindow, MainInv
<1>2. /\ shouldExit' \in BOOLEAN /\ quitEvent' \in BOOLEAN /\ interrupted' \in BOOLEAN
      /\ handlers' \subseteq Signals
      /\ pc' \in LoopStates \cup {"create", "handlers", "cleanup", "exited", "failed", "killed"}
  BY <1>1 DEF TypeOK
<1>3. TypeOK'
  BY <1>1, <1>2, QuietType
<1> QED BY <1>1, <1>3, NothingMoves

LEMMA StepStay == MainInv /\ UNCHANGED vars => MainInv'
<1> SUFFICES ASSUME MainInv, UNCHANGED vars
             PROVE  MainInv'
  OBVIOUS
<1>1. /\ TypeOK /\ UNCHANGED <<args, made, todo, doomed, calls>> /\ pc' = pc
      /\ dt' = dt /\ shouldExit' = shouldExit /\ handlers' = handlers
      /\ interrupted' = interrupted /\ quitEvent' = quitEvent
  BY DEF vars, args, MainInv
<1>2. TypeOK'
  BY <1>1 DEF TypeOK, args
<1> QED BY <1>1, <1>2, NothingMoves

(* The first of the calls that are left, and the others.                   *)
LEMMA RestOfCalls ==
  ASSUME NEW T, NEW D \in Seq(T), NEW m \in 1 .. Len(D)
  PROVE  /\ Head(SubSeq(D, m, Len(D))) = D[m]
         /\ Tail(SubSeq(D, m, Len(D))) = SubSeq(D, m + 1, Len(D))
         /\ SubSeq(D, m + 1, Len(D)) \in Seq(T)
<1> DEFINE L == Len(D)
           s == SubSeq(D, m, L)
           r == SubSeq(D, m + 1, L)
<1>1. L \in Nat /\ m \in 1 .. L /\ \A i \in 1 .. L : D[i] \in T
  OBVIOUS
<1>2. s = [i \in 1 .. L - m + 1 |-> D[i + m - 1]]
  OBVIOUS
<1>3. r = [i \in 1 .. L - m |-> D[i + m]]
  OBVIOUS
<1> HIDE DEF L, s, r
<1>4. s = [i \in 1 .. L - m + 1 |-> s[i]] /\ \A i \in 1 .. L - m + 1 : s[i] \in T
  BY <1>1, <1>2
<1>5. r = [i \in 1 .. L - m |-> r[i]] /\ \A i \in 1 .. L - m : r[i] \in T
  BY <1>1, <1>3
<1>6. L - m + 1 \in Nat /\ L - m \in Nat
  BY <1>1
<1>7. s \in Seq(T) /\ Len(s) = L - m + 1
  BY <1>4, <1>6, SeqOfItems
<1>8. r \in Seq(T) /\ Len(r) = L - m
  BY <1>5, <1>6, SeqOfItems
<1>9. s # <<>> /\ Head(s) = s[1] /\ s[1] = D[m]
  BY <1>1, <1>2, <1>7
<1>10. Tail(s) = r
  <2>1. Tail(s) \in Seq(T) /\ Len(Tail(s)) = L - m /\ \A i \in 1 .. L - m : Tail(s)[i] = s[i + 1]
    BY <1>1, <1>7, <1>9
  <2>2. \A i \in 1 .. L - m : Tail(s)[i] = r[i]
    <3> SUFFICES ASSUME NEW i \in 1 .. L - m
                 PROVE  s[i + 1] = r[i]
      BY <2>1
    <3>1. i + 1 \in 1 .. L - m + 1 /\ (i + 1) + m - 1 = i + m
      BY <1>1
    <3> QED BY <3>1, <1>2, <1>3
  <2> QED BY <2>1, <2>2, <1>8
<1> QED BY <1>8, <1>9, <1>10 DEF L, s, r

LEMMA StepDeleteCall == MainInv /\ DeleteCall => MainInv'
<1> SUFFICES ASSUME MainInv, DeleteCall
             PROVE  MainInv'
  OBVIOUS
<1>1. /\ TypeOK /\ NothingDangles /\ pc = "cleanup" /\ pc' = pc /\ UNCHANGED <<args, made, todo>>
      /\ doomed = <<>> /\ calls # <<>> /\ doomed' = Deletion(Head(calls)) /\ calls' = Tail(calls)
      /\ shouldExit' = shouldExit /\ dt' = dt /\ interrupted' = interrupted /\ quitEvent' = quitEvent
      /\ handlers' = handlers
  BY DEF DeleteCall, MainInv
<1>2. PICK n \in 0 .. Len(DeleteCalls) : CleanedUp(n)
  BY <1>1 DEF MainInv, CleaningUp
<1>3. made = Left(n)
  <2>1. DOMAIN doomed = {}
    BY <1>1
  <2> QED BY <1>2, <2>1 DEF CleanedUp, DoomedHandles
<1>4. /\ n \in 0 .. 6 /\ Head(calls) = DeleteCalls[n + 1]
      /\ Tail(calls) = SubSeq(DeleteCalls, n + 2, Len(DeleteCalls))
      /\ Tail(calls) \in Seq(ToSet(DeleteCalls))
  <2> DEFINE D == DeleteCalls
             T == ToSet(DeleteCalls)
  <2>1. D \in Seq(T) /\ Len(D) = 7 /\ n \in 0 .. Len(D) /\ calls = SubSeq(D, n + 1, Len(D)) /\ calls # <<>>
    BY <1>1, <1>2, Calls DEF CleanedUp
  <2> HIDE DEF D, T
  <2>2. n # 7
    BY <2>1
  <2>3. n \in 0 .. 6
    BY <2>1, <2>2
  <2>4. Head(calls) = D[n + 1] /\ Tail(calls) = SubSeq(D, n + 2, Len(D)) /\ Tail(calls) \in Seq(T)
    <3>1. n + 1 \in 1 .. Len(D) /\ (n + 1) + 1 = n + 2
      BY <2>1, <2>3
    <3>2. /\ Head(SubSeq(D, n + 1, Len(D))) = D[n + 1]
          /\ Tail(SubSeq(D, n + 1, Len(D))) = SubSeq(D, (n + 1) + 1, Len(D))
          /\ SubSeq(D, (n + 1) + 1, Len(D)) \in Seq(T)
      BY <2>1, <3>1, RestOfCalls
    <3> QED BY <2>1, <3>1, <3>2
  <2> QED BY <2>3, <2>4 DEF D, T
<1>5. Deletes(doomed', Left(n), Left(n + 1))
  BY <1>1, <1>3, <1>4, TypedArguments, CallDeletes
<1>6. \A m : Left(m)' = Left(m)
  BY <1>1, SameArguments
<1>7. TypeOK'
  <2>1. doomed' \in Seq([handle : Handles, tested : BOOLEAN])
    BY <1>5 DEF Deletes
  <2> QED BY <1>1, <1>4, <2>1 DEF TypeOK, args
<1>8. NothingDangles'
  BY <1>1 DEF NothingDangles
<1>9. CleanedUp(n + 1)'
  <2>1. calls' = SubSeq(DeleteCalls, (n + 1) + 1, Len(DeleteCalls))
    BY <1>1, <1>4
  <2>2. Left(n + 1) \subseteq made
    BY <1>3, <1>5 DEF Deletes
  <2>3. made \subseteq Left(n + 1) \cup DoomedHandles'
    BY <1>3, <1>5 DEF Deletes, DoomedHandles
  <2>4. DoomedHandles' \cap Left(n + 1) = {}
    BY <1>5 DEF Deletes, DoomedHandles
  <2>5. made' = made /\ n + 1 # 0 /\ Left(n + 1)' = Left(n + 1)
    BY <1>1, <1>4, <1>6
  <2> QED BY <2>1, <2>2, <2>3, <2>4, <2>5 DEF CleanedUp
<1>10. Orderly' /\ UntestedMade'
  BY <1>1, <1>3, <1>5 DEF Orderly, UntestedMade, Deletes
<1>11. CleaningUp'
  <2>1. n + 1 \in 0 .. Len(DeleteCalls)
    BY <1>4, Calls
  <2>2. (\E m \in 0 .. Len(DeleteCalls) : CleanedUp(m))'
    BY <1>9, <2>1
  <2> QED BY <1>10, <2>2 DEF CleaningUp
<1>12. Creating' /\ Running' /\ ExitIsClean'
  BY <1>1 DEF Creating, Running, ExitIsClean, LoopStates
<1> QED BY <1>7, <1>8, <1>11, <1>12 DEF MainInv

LEMMA StepDeleteObject == MainInv /\ DeleteObject => MainInv'
<1> SUFFICES ASSUME MainInv, DeleteObject
             PROVE  MainInv'
  OBVIOUS
<1>1. /\ TypeOK /\ NothingDangles /\ pc = "cleanup" /\ pc' = pc /\ UNCHANGED <<args, todo, calls>>
      /\ doomed # <<>> /\ made' = made \ {Head(doomed).handle} /\ doomed' = Tail(doomed)
      /\ shouldExit' = shouldExit /\ dt' = dt /\ interrupted' = interrupted /\ quitEvent' = quitEvent
      /\ handlers' = handlers /\ Orderly /\ UntestedMade
  BY DEF DeleteObject, MainInv, CleaningUp
<1>2. PICK n \in 0 .. Len(DeleteCalls) : CleanedUp(n)
  BY <1>1 DEF MainInv, CleaningUp
<1> DEFINE T == [handle : Handles, tested : BOOLEAN]
           h == Head(doomed).handle
<1>3. doomed \in Seq(T)
  BY <1>1 DEF TypeOK
<1> HIDE DEF T
<1>4. /\ Len(doomed) \in Nat /\ Len(doomed) # 0 /\ DOMAIN doomed = 1 .. Len(doomed)
      /\ Head(doomed) = doomed[1] /\ 1 \in DOMAIN doomed
  BY <1>1, <1>3
<1>5. /\ doomed' \in Seq(T) /\ DOMAIN doomed' = 1 .. Len(doomed) - 1
      /\ \A i \in 1 .. Len(doomed) - 1 : doomed'[i] = doomed[i + 1] /\ i + 1 \in DOMAIN doomed
  BY <1>1, <1>3, <1>4
<1>6. h = doomed[1].handle
  BY <1>4
<1> HIDE DEF h
<1>7. made' = made \ {h}
  BY <1>1 DEF h
<1>8. \A m : Left(m)' = Left(m)
  BY <1>1, SameArguments
<1>9. TypeOK'
  <2>1. doomed' \in Seq([handle : Handles, tested : BOOLEAN])
    BY <1>5 DEF T
  <2>2. made' \subseteq Handles
    BY <1>1, <1>7 DEF TypeOK
  <2> QED BY <1>1, <2>1, <2>2 DEF TypeOK, args
<1>10. NothingDangles'
  <2> SUFFICES ASSUME NEW u \in Uses, u[1] \in made', u[2] \notin made'
               PROVE  FALSE
    BY DEF NothingDangles
  <2>1. u[1] \in made /\ u[2] = doomed[1].handle
    BY <1>1, <1>6, <1>7 DEF NothingDangles
  <2>2. \E j \in 1 .. 1 - 1 : doomed[j].handle = u[1]
    BY <2>1, <1>1, <1>4 DEF Orderly
  <2> QED BY <2>2
<1>11. DoomedHandles = {h} \cup DoomedHandles'
  <2>1. ASSUME NEW k \in DOMAIN doomed
        PROVE  doomed[k].handle = h \/ \E i \in DOMAIN doomed' : doomed'[i].handle = doomed[k].handle
    <3>1. CASE k = 1
      BY <3>1, <1>6
    <3>2. CASE k # 1
      <4>1. k - 1 \in 1 .. Len(doomed) - 1 /\ (k - 1) + 1 = k
        BY <3>2, <1>4
      <4> QED BY <4>1, <1>5
    <3> QED BY <3>1, <3>2
  <2>2. DoomedHandles' = {doomed'[k].handle : k \in DOMAIN doomed'}
    BY DEF DoomedHandles
  <2>3. DoomedHandles = {doomed[k].handle : k \in DOMAIN doomed}
    BY DEF DoomedHandles
  <2>4. \A i \in DOMAIN doomed' : \E k \in DOMAIN doomed : doomed'[i].handle = doomed[k].handle
    BY <1>5
  <2>5. h \in DoomedHandles
    BY <1>4, <1>6, <2>3
  <2> QED BY <2>1, <2>2, <2>3, <2>4, <2>5
<1>12. CleanedUp(n)'
  <2>1. n # 0 /\ calls' = SubSeq(DeleteCalls, n + 1, Len(DeleteCalls)) /\ h \notin Left(n)
        /\ Left(n) \subseteq made /\ made \subseteq Left(n) \cup DoomedHandles
        /\ DoomedHandles \cap Left(n) = {}
    BY <1>1, <1>2, <1>11 DEF CleanedUp
  <2>2. Left(n) \subseteq made' /\ made' \subseteq Left(n) \cup DoomedHandles'
         /\ DoomedHandles' \cap Left(n) = {}
    BY <2>1, <1>7, <1>11
  <2>3. Left(n)' = Left(n)
    BY <1>8
  <2> QED BY <2>1, <2>2, <2>3 DEF CleanedUp
<1>13. Orderly'
  <2> SUFFICES ASSUME NEW i \in DOMAIN doomed', NEW u \in Uses, u[2] = doomed'[i].handle, u[1] \in made'
               PROVE  \E j \in 1 .. i - 1 : doomed'[j].handle = u[1]
    BY DEF Orderly
  <2>1. i \in 1 .. Len(doomed) - 1 /\ doomed'[i] = doomed[i + 1] /\ i + 1 \in DOMAIN doomed
    BY <1>5
  <2>2. PICK j \in 1 .. (i + 1) - 1 : doomed[j].handle = u[1]
    BY <2>1, <1>1, <1>7 DEF Orderly
  <2>3. j # 1
    BY <2>2, <1>6, <1>7
  <2>4. j - 1 \in 1 .. i - 1 /\ j - 1 \in 1 .. Len(doomed) - 1 /\ (j - 1) + 1 = j
    BY <2>1, <2>2, <2>3, <1>4
  <2>5. doomed'[j - 1].handle = u[1]
    BY <2>2, <2>4, <1>5
  <2> QED BY <2>4, <2>5
<1>14. UntestedMade'
  <2> SUFFICES ASSUME NEW i \in DOMAIN doomed', ~doomed'[i].tested
               PROVE  /\ doomed'[i].handle \in made'
                      /\ \A j \in DOMAIN doomed' \ {i} : doomed'[j].handle # doomed'[i].handle
    BY DEF UntestedMade
  <2>1. i \in 1 .. Len(doomed) - 1 /\ doomed'[i] = doomed[i + 1] /\ i + 1 \in DOMAIN doomed
    BY <1>5
  <2>2. /\ doomed[i + 1].handle \in made
        /\ \A j \in DOMAIN doomed \ {i + 1} : doomed[j].handle # doomed[i + 1].handle
    BY <2>1, <1>1 DEF UntestedMade
  <2>3. 1 \in DOMAIN doomed \ {i + 1}
    BY <2>1, <1>4
  <2>4. doomed'[i].handle \in made'
    BY <2>1, <2>2, <2>3, <1>6, <1>7
  <2>5. ASSUME NEW j \in DOMAIN doomed' \ {i}
        PROVE  doomed'[j].handle # doomed'[i].handle
    <3>1. doomed'[j] = doomed[j + 1] /\ j + 1 \in DOMAIN doomed /\ j \in Int
      BY <1>5
    <3>2. j + 1 \in DOMAIN doomed \ {i + 1}
      BY <3>1, <2>1
    <3> QED BY <3>1, <3>2, <2>1, <2>2
  <2> QED BY <2>4, <2>5
<1>15. CleaningUp'
  <2>1. (\E m \in 0 .. Len(DeleteCalls) : CleanedUp(m))'
    BY <1>12
  <2> QED BY <2>1, <1>13, <1>14 DEF CleaningUp
<1>16. Creating' /\ Running' /\ ExitIsClean'
  BY <1>1 DEF Creating, Running, ExitIsClean, LoopStates
<1> QED BY <1>9, <1>10, <1>15, <1>16 DEF MainInv

LEMMA StepExit == MainInv /\ Exit => MainInv'
<1> SUFFICES ASSUME MainInv, Exit
             PROVE  MainInv'
  OBVIOUS
<1>1. /\ TypeOK /\ NothingDangles /\ pc = "cleanup" /\ pc' = "exited" /\ doomed = <<>> /\ calls = <<>>
      /\ UNCHANGED <<args, made, todo, doomed, calls, shouldExit, dt, interrupted, handlers, quitEvent>>
  BY DEF Exit, MainInv
<1>2. PICK n \in 0 .. Len(DeleteCalls) : CleanedUp(n)
  BY <1>1 DEF MainInv, CleaningUp
<1>3. made \subseteq Left(n)
  <2>1. DOMAIN doomed = {}
    BY <1>1
  <2> QED BY <1>2, <2>1 DEF CleanedUp, DoomedHandles
<1>4. n = 7
  <2> DEFINE D == DeleteCalls
             T == ToSet(DeleteCalls)
  <2>1. D \in Seq(T) /\ Len(D) = 7 /\ n \in 0 .. Len(D) /\ SubSeq(D, n + 1, Len(D)) = <<>>
    BY <1>1, <1>2, Calls DEF CleanedUp
  <2> HIDE DEF D, T
  <2>2. ASSUME n # 7
        PROVE  FALSE
    <3>1. n + 1 \in 1 .. 7
      BY <2>1, <2>2
    <3>2. Len(SubSeq(D, n + 1, 7)) = 7 - n
      BY <2>1, <3>1
    <3>3. SubSeq(D, n + 1, 7) = <<>>
      BY <2>1
    <3> DEFINE rest == SubSeq(D, n + 1, 7)
    <3>4. Len(rest) = 7 - n /\ rest = <<>>
      BY <3>2, <3>3
    <3> HIDE DEF rest
    <3>5. Len(rest) = 0
      BY <3>4
    <3> QED BY <3>1, <3>4, <3>5
  <2> QED BY <2>2
<1>5. made = {}
  BY <1>3, <1>4, LeftSplit
<1>6. ExitIsClean'
  BY <1>1, <1>5 DEF ExitIsClean
<1>7. TypeOK'
  BY <1>1 DEF TypeOK, args
<1>8. NothingDangles' /\ Creating' /\ Running' /\ CleaningUp'
  BY <1>1 DEF NothingDangles, Creating, Running, CleaningUp, LoopStates
<1> QED BY <1>6, <1>7, <1>8 DEF MainInv

LEMMA NextIInv == MainInv /\ [Next]_vars => MainInv'
<1> SUFFICES ASSUME MainInv, [Next]_vars
             PROVE  MainInv'
  OBVIOUS
<1>1. CASE MainStep
  BY <1>1, StepCreateObject, StepCreated, StepInstallHandler, StepTest, StepLoop, StepDeleteCall,
     StepDeleteObject, StepExit DEF MainStep
<1>2. CASE Stay
  BY <1>2, StepStay DEF Stay
<1>3. CASE (\E s \in Signals : Signal(s)) \/ CloseWindow
  BY <1>3, StepEnvironment
<1>4. CASE UNCHANGED vars
  BY <1>4, StepStay
<1> QED BY <1>1, <1>2, <1>3, <1>4 DEF Next

(* The inductive invariant of the program's handles: what is still to be   *)
(* made and to be destroyed fits what exists, at every step of main.       *)
THEOREM MainInvariant == Spec => []MainInv
<1>1. Init => MainInv
  BY InitMainInv
<1>2. MainInv /\ [Next]_vars => MainInv'
  BY NextIInv
<1> QED BY <1>1, <1>2, PTL DEF Spec

(* No handle exists without those it uses: not while the program creates   *)
(* its objects, not where the creation fails, not during the cleanup.      *)
THEOREM NoHandleDangles == Spec => []NothingDangles
<1>1. MainInv => NothingDangles
  BY DEF MainInv
<1> QED BY <1>1, MainInvariant, PTL

(* What is destroyed without a test exists at that moment.                 *)
THEOREM UntestedDeletesAreSafe == Spec => []DestroysOnlyMade
<1>1. MainInv => DestroysOnlyMade
  <2> SUFFICES ASSUME MainInv, pc = "cleanup", doomed # <<>>, ~Head(doomed).tested
               PROVE  Head(doomed).handle \in made
    BY DEF DestroysOnlyMade
  <2> DEFINE T == [handle : Handles, tested : BOOLEAN]
  <2>1. doomed \in Seq(T) /\ UntestedMade
    BY DEF MainInv, TypeOK, CleaningUp
  <2> HIDE DEF T
  <2>2. 1 \in DOMAIN doomed /\ Head(doomed) = doomed[1]
    BY <2>1
  <2> QED BY <2>1, <2>2 DEF UntestedMade
<1> QED BY <1>1, MainInvariant, PTL

(* After a normal exit nothing that was made is left.                      *)
THEOREM NothingIsLeaked == Spec => []ExitIsClean
<1>1. MainInv => ExitIsClean
  BY DEF MainInv
<1> QED BY <1>1, MainInvariant, PTL

---------------------------------------------------------------------------
(* What the liveness of Main rests on.                                     *)

(* The program has been asked to end: a signal caught, a quit event in the *)
(* queue or polled, or the end under way.                                  *)
Asked ==
  \/ interrupted
  \/ quitEvent
  \/ shouldExit /\ pc \in {"step", "render", "update", "test"}
  \/ pc = "cleanup"
  \/ Ended

(* The next test of the loop's condition ends the loop.                    *)
Decided == interrupted \/ (shouldExit /\ pc \in {"step", "render", "update", "test"})

Place(p) ==
  CASE p = "test" -> 1 [] p = "update" -> 2 [] p = "render" -> 3 [] p = "step" -> 4 [] p = "poll" -> 5

(* The steps of main before the cleanup.  A request that is still in the   *)
(* event queue has to pass the test once more to be polled.                *)
Phase ==
  IF pc = "create" THEN 13
  ELSE IF pc = "handlers" THEN (IF handlers = {} THEN 12 ELSE 11)
  ELSE IF pc \notin LoopStates THEN 0
  ELSE IF Decided THEN Place(pc)
  ELSE 6 + (Place(pc) % 5)

(* Main has less to do before it has ended ...                             *)
Closer ==
  \/ Ended'
  \/ Phase' < Phase
  \/ /\ Phase' = Phase
     /\ \/ Len(todo') < Len(todo)
        \/ (todo' = todo /\ Len(calls') < Len(calls))
        \/ (todo' = todo /\ calls' = calls /\ Len(doomed') < Len(doomed))

(* ... or at least no more.                                                *)
NoFarther == Ended' \/ (Phase' <= Phase /\ UNCHANGED <<todo, calls, doomed>>)

(* A request to end is not dropped between the handler or the event queue  *)
(* and the cleanup ...                                                     *)
RequestKept == [][Asked => Asked']_vars

(* ... and while there is one main gets on with the end, and nothing else  *)
(* puts it off.                                                            *)
StopNears == [][Asked => IF MainStep THEN Closer ELSE NoFarther]_vars

(* A program without a window gets no quit event, and the first signal's   *)
(* handler is installed before the second's.                               *)
Unseen ==
  isHeadless =>
    /\ ~quitEvent
    /\ made \cap {<<"sdl">>, <<"window">>} = {}
    /\ \A i \in DOMAIN todo : todo[i] \notin {<<"sdl">>, <<"window">>}

HandlersInOrder ==
  /\ pc = "create" => handlers = {}
  /\ pc = "handlers" => handlers \in {{}, {"SIGTERM"}}

Stoppable == TypeOK /\ Unseen /\ HandlersInOrder

LEMMA InitStoppable == Init => Stoppable
<1> SUFFICES ASSUME Init
             PROVE  Stoppable
  OBVIOUS
<1>1. TypeOK
  BY InitMainInv DEF MainInv
<1>2. isHeadless => todo = <<Network>>
  BY DEF Init, CreationOrder
<1>3. Network \notin {<<"sdl">>, <<"window">>}
  BY DEF Network
<1>4. Unseen
  BY <1>2, <1>3 DEF Init, Unseen
<1>5. HandlersInOrder
  BY DEF Init, HandlersInOrder
<1> QED BY <1>1, <1>4, <1>5 DEF Stoppable

(* The handle a creation makes is one that was to be made.                 *)
LEMMA UnseenCreateObject == Stoppable /\ CreateObject => Unseen'
<1> SUFFICES ASSUME Stoppable, CreateObject, isHeadless
             PROVE  Unseen'
  BY DEF CreateObject, args, Unseen
<1> DEFINE Shown == {<<"sdl">>, <<"window">>}
<1>1. /\ todo # <<>> /\ todo \in Seq(Handles)
      /\ isHeadless' = isHeadless /\ quitEvent' = quitEvent /\ ~quitEvent
      /\ made \cap Shown = {}
      /\ \A i \in DOMAIN todo : todo[i] \notin Shown
      /\ made' = made \cup {Head(todo)} \/ made' = made
      /\ todo' = Tail(todo) \/ todo' = todo
  BY DEF CreateObject, Stoppable, TypeOK, Unseen, args
<1> HIDE DEF Shown
<1>2. 1 \in DOMAIN todo /\ Head(todo) = todo[1]
  BY <1>1
<1>3. \A i \in DOMAIN Tail(todo) : i + 1 \in DOMAIN todo /\ Tail(todo)[i] = todo[i + 1]
  BY <1>1
<1>4. made' \cap Shown = {}
  BY <1>1, <1>2
<1>5. \A i \in DOMAIN todo' : todo'[i] \notin Shown
  BY <1>1, <1>3
<1> QED BY <1>1, <1>4, <1>5 DEF Unseen, Shown

LEMMA NextStoppable == MainInv' /\ Stoppable /\ [Next]_vars => Stoppable'
<1> SUFFICES ASSUME MainInv', Stoppable, [Next]_vars
             PROVE  Stoppable'
  OBVIOUS
<1>1. TypeOK'
  BY DEF MainInv
<1>2. CASE CreateObject
  <2>1. HandlersInOrder'
    BY <1>2 DEF CreateObject, Stoppable, HandlersInOrder
  <2> QED BY <1>1, <1>2, <2>1, UnseenCreateObject DEF Stoppable
<1>3. CASE Created \/ InstallHandler \/ Test \/ LoopStep \/ DeleteCall \/ Exit
  <2>1. Unseen'
    BY <1>3 DEF Created, InstallHandler, Test, LoopStep, DeleteCall, Exit, Stoppable, Unseen, args
  <2>2. HandlersInOrder'
    BY <1>3 DEF Created, InstallHandler, Test, LoopStep, DeleteCall, Exit, Stoppable, HandlersInOrder
  <2> QED BY <1>1, <2>1, <2>2 DEF Stoppable
<1>4. CASE Poll \/ DeleteObject
  <2>1. Unseen'
    BY <1>4 DEF Poll, DeleteObject, Stoppable, Unseen, args
  <2>2. HandlersInOrder'
    BY <1>4 DEF Poll, DeleteObject, Stoppable, HandlersInOrder
  <2> QED BY <1>1, <2>1, <2>2 DEF Stoppable
<1>5. CASE (\E s \in Signals : Signal(s)) \/ CloseWindow
  <2>1. Unseen'
    BY <1>5 DEF Signal, CloseWindow, Stoppable, Unseen, args
  <2>2. HandlersInOrder'
    BY <1>5 DEF Signal, CloseWindow, Stoppable, HandlersInOrder
  <2> QED BY <1>1, <2>1, <2>2 DEF Stoppable
<1>6. CASE UNCHANGED vars
  <2>1. Unseen' /\ HandlersInOrder'
    BY <1>6 DEF vars, Stoppable, Unseen, HandlersInOrder
  <2> QED BY <1>1, <2>1 DEF Stoppable
<1> QED BY <1>2, <1>3, <1>4, <1>5, <1>6 DEF Next, MainStep, Stay

LEMMA StoppableHolds == Spec => [](MainInv /\ Stoppable)
<1>1. Init => MainInv /\ Stoppable
  BY InitMainInv, InitStoppable
<1>2. MainInv /\ Stoppable /\ [Next]_vars => (MainInv /\ Stoppable)'
  BY NextIInv, NextStoppable
<1> QED BY <1>1, <1>2, PTL DEF Spec

LEMMA KeptNext == Asked /\ [Next]_vars => Asked'
<1> SUFFICES ASSUME Asked, [Next]_vars
             PROVE  Asked'
  OBVIOUS
<1> USE DEF Asked, Ended
<1>1. CASE CreateObject \/ Created \/ InstallHandler
  BY <1>1 DEF CreateObject, Created, InstallHandler
<1>2. CASE Test
  BY <1>2 DEF Test
<1>3. CASE Poll
  BY <1>3 DEF Poll
<1>4. CASE LoopStep
  BY <1>4 DEF LoopStep
<1>5. CASE DeleteCall \/ DeleteObject \/ Exit
  BY <1>5 DEF DeleteCall, DeleteObject, Exit
<1>6. CASE (\E s \in Signals : Signal(s)) \/ CloseWindow
  BY <1>6 DEF Signal, CloseWindow
<1>7. CASE UNCHANGED vars
  BY <1>7 DEF vars
<1> QED BY <1>1, <1>2, <1>3, <1>4, <1>5, <1>6, <1>7 DEF Next, MainStep, Stay

(* A request to end, once made, is not forgotten, although every poll      *)
(* resets should_exit and empties the event queue.                         *)
THEOREM RequestIsKept == Spec => RequestKept
<1>1. [Next]_vars => (Asked => Asked')
  BY KeptNext
<1>2. [Next]_vars => [Asked => Asked']_vars
  BY <1>1
<1> QED BY <1>2, PTL DEF Spec, RequestKept

(* What the rank is at each step of the loop and after it.                 *)
PhaseTable ==
  /\ pc = "test"   => Phase = (IF Decided THEN 1 ELSE 7)
  /\ pc = "update" => Phase = (IF Decided THEN 2 ELSE 8)
  /\ pc = "render" => Phase = (IF Decided THEN 3 ELSE 9)
  /\ pc = "step"   => Phase = (IF Decided THEN 4 ELSE 10)
  /\ pc = "poll"   => Phase = (IF Decided THEN 5 ELSE 6)
  /\ pc = "cleanup" \/ Ended => Phase = 0

LEMMA PhaseNumbers == PhaseTable
<1>1. /\ Place("test") = 1 /\ Place("update") = 2 /\ Place("render") = 3
      /\ Place("step") = 4 /\ Place("poll") = 5
  BY DEF Place
<1>2. 1 % 5 = 1 /\ 2 % 5 = 2 /\ 3 % 5 = 3 /\ 4 % 5 = 4 /\ 5 % 5 = 0
  OBVIOUS
<1>3. ASSUME pc \in LoopStates
      PROVE  Phase = IF Decided THEN Place(pc) ELSE 6 + (Place(pc) % 5)
  BY <1>3 DEF Phase, LoopStates
<1>4. pc = "cleanup" \/ Ended => Phase = 0
  BY DEF Phase, Ended, LoopStates
<1> QED BY <1>1, <1>2, <1>3, <1>4 DEF PhaseTable, LoopStates

LEMMA PhaseNumbersNext == PhaseTable'
BY PhaseNumbers, PTL

(* A creation, and the installation of a handler.                          *)
LEMMA StartNears ==
  ASSUME Stoppable, CreateObject \/ Created \/ InstallHandler
  PROVE  Closer
<1>1. CASE CreateObject
  <2>1. CASE pc' = "failed"
    BY <2>1 DEF Closer, Ended
  <2>2. CASE pc' # "failed"
    <3>1. todo' = Tail(todo) /\ todo # <<>> /\ pc = "create" /\ pc' = "create" /\ todo \in Seq(Handles)
      BY <1>1, <2>2 DEF CreateObject, Stoppable, TypeOK
    <3>2. Len(todo') < Len(todo)
      BY <3>1
    <3>3. Phase' = Phase
      BY <3>1 DEF Phase
    <3> QED BY <3>2, <3>3 DEF Closer
  <2> QED BY <2>1, <2>2
<1>2. CASE Created
  <2>1. Phase = 13 /\ Phase' \in {11, 12}
    BY <1>2 DEF Created, Phase
  <2> QED BY <2>1 DEF Closer
<1>3. CASE InstallHandler
  <2>1. CASE handlers = {}
    <3>1. pc = "handlers" /\ pc' = "handlers" /\ handlers' = {"SIGTERM"}
      BY <1>3, <2>1 DEF InstallHandler
    <3>2. Phase = 12 /\ Phase' = 11
      BY <2>1, <3>1 DEF Phase
    <3> QED BY <3>2 DEF Closer
  <2>2. CASE handlers # {}
    <3>1. pc = "handlers" /\ pc' = "test"
      BY <1>3, <2>2 DEF InstallHandler
    <3>2. Phase = 11
      BY <2>2, <3>1 DEF Phase
    <3>3. Phase' \in {1, 7}
      BY <3>1, PhaseNumbersNext DEF PhaseTable
    <3> QED BY <3>2, <3>3 DEF Closer
  <2> QED BY <2>1, <2>2
<1> QED BY <1>1, <1>2, <1>3

(* A step of the loop.                                                     *)
LEMMA LoopNears ==
  ASSUME Stoppable, Asked, Test \/ Poll \/ LoopStep
  PROVE  Closer
<1>1. CASE Test /\ Decided
  <2>1. pc = "test" /\ pc' = "cleanup"
    BY <1>1 DEF Test, Decided
  <2>2. Phase = 1 /\ Phase' = 0
    BY <1>1, <2>1, PhaseNumbers, PhaseNumbersNext DEF PhaseTable
  <2> QED BY <2>2 DEF Closer
<1>2. CASE Test /\ ~Decided
  <2>1. pc = "test" /\ ~interrupted /\ ~shouldExit
    BY <1>2 DEF Test, Decided
  <2>2. quitEvent
    BY <2>1 DEF Asked, Ended
  <2>3. ~isHeadless
    BY <2>2 DEF Stoppable, Unseen
  <2>4. pc' = "poll" /\ interrupted' = interrupted /\ shouldExit' = shouldExit
    BY <1>2, <2>1, <2>3 DEF Test
  <2>5. ~Decided'
    BY <2>1, <2>4 DEF Decided
  <2>6. Phase = 7 /\ Phase' = 6
    BY <1>2, <2>1, <2>4, <2>5, PhaseNumbers, PhaseNumbersNext DEF PhaseTable
  <2> QED BY <2>6 DEF Closer
<1>3. CASE Poll
  <2>1. pc = "poll" /\ pc' = "step" /\ interrupted' = interrupted /\ shouldExit' = quitEvent
    BY <1>3 DEF Poll
  <2>2. interrupted \/ quitEvent
    BY <2>1 DEF Asked, Ended
  <2>3. Decided'
    BY <2>1, <2>2 DEF Decided
  <2>4. Phase \in {5, 6} /\ Phase' = 4
    BY <2>1, <2>3, PhaseNumbers, PhaseNumbersNext DEF PhaseTable
  <2> QED BY <2>4 DEF Closer
<1>4. CASE LoopStep
  <2>1. Decided' = Decided
    BY <1>4 DEF LoopStep, Decided
  <2>2. \/ pc = "step" /\ pc' = "render"
        \/ pc = "render" /\ pc' = "update"
        \/ pc = "update" /\ pc' = "test"
    BY <1>4 DEF LoopStep
  <2>3. Phase' = Phase - 1 /\ Phase \in 2 .. 10
    <3>1. CASE Decided
      BY <2>1, <2>2, <3>1, PhaseNumbers, PhaseNumbersNext DEF PhaseTable
    <3>2. CASE ~Decided
      BY <2>1, <2>2, <3>2, PhaseNumbers, PhaseNumbersNext DEF PhaseTable
    <3> QED BY <3>1, <3>2
  <2> QED BY <2>3 DEF Closer
<1> QED BY <1>1, <1>2, <1>3, <1>4

(* A step of the cleanup.                                                  *)
LEMMA CleanupNears ==
  ASSUME Stoppable, DeleteCall \/ DeleteObject \/ Exit
  PROVE  Closer
<1> DEFINE C == ToSet(DeleteCalls)
           T == [handle : Handles, tested : BOOLEAN]
<1>1. calls \in Seq(C) /\ doomed \in Seq(T)
  BY DEF Stoppable, TypeOK
<1> HIDE DEF C, T
<1>2. CASE Exit
  BY <1>2 DEF Exit, Closer, Ended
<1>3. CASE DeleteCall
  <2>1. pc = "cleanup" /\ pc' = "cleanup" /\ calls # <<>> /\ calls' = Tail(calls) /\ todo' = todo
    BY <1>3 DEF DeleteCall
  <2>2. Len(calls') < Len(calls)
    BY <1>1, <2>1
  <2>3. Phase = 0 /\ Phase' = 0
    BY <2>1, PhaseNumbers, PhaseNumbersNext DEF PhaseTable
  <2> QED BY <2>1, <2>2, <2>3 DEF Closer
<1>4. CASE DeleteObject
  <2>1. /\ pc = "cleanup" /\ pc' = "cleanup" /\ doomed # <<>> /\ doomed' = Tail(doomed)
        /\ todo' = todo /\ calls' = calls
    BY <1>4 DEF DeleteObject
  <2>2. Len(doomed') < Len(doomed)
    BY <1>1, <2>1
  <2>3. Phase = 0 /\ Phase' = 0
    BY <2>1, PhaseNumbers, PhaseNumbersNext DEF PhaseTable
  <2> QED BY <2>1, <2>2, <2>3 DEF Closer
<1> QED BY <1>2, <1>3, <1>4

(* Signals and events bring the end no farther.                            *)
LEMMA EnvironmentNoFarther ==
  ASSUME (\E s \in Signals : Signal(s)) \/ CloseWindow \/ UNCHANGED vars
  PROVE  NoFarther
<1>1. CASE pc' = "killed"
  BY <1>1 DEF NoFarther, Ended
<1>2. CASE pc' # "killed"
  <2>1. /\ UNCHANGED <<pc, todo, calls, doomed, handlers, shouldExit>>
        /\ interrupted' = interrupted \/ interrupted'
    BY <1>2 DEF Signal, CloseWindow, vars
  <2>2. Decided => Decided'
    BY <2>1 DEF Decided
  <2>3. CASE pc \in LoopStates
    <3>1. Phase' <= Phase
      BY <2>1, <2>2, <2>3, PhaseNumbers, PhaseNumbersNext DEF PhaseTable, LoopStates
    <3> QED BY <2>1, <3>1 DEF NoFarther
  <2>4. CASE pc \notin LoopStates
    <3>1. Phase' = Phase /\ Phase \in {0, 11, 12, 13}
      BY <2>1, <2>4 DEF Phase
    <3> QED BY <2>1, <3>1 DEF NoFarther
  <2> QED BY <2>3, <2>4
<1> QED BY <1>1, <1>2

LEMMA NearsNext ==
  ASSUME Stoppable, Asked, [Next]_vars
  PROVE  IF MainStep THEN Closer ELSE NoFarther
<1>1. CASE MainStep
  <2>1. CreateObject \/ Created \/ InstallHandler => Closer
    BY StartNears
  <2>2. Test \/ Poll \/ LoopStep => Closer
    BY LoopNears
  <2>3. DeleteCall \/ DeleteObject \/ Exit => Closer
    BY CleanupNears
  <2> QED BY <1>1, <2>1, <2>2, <2>3 DEF MainStep
<1>2. CASE ~MainStep
  <2>1. (\E s \in Signals : Signal(s)) \/ CloseWindow \/ UNCHANGED vars
    BY <1>2 DEF Next, Stay
  <2> QED BY <1>2, <2>1, EnvironmentNoFarther
<1> QED BY <1>1, <1>2

(* Once the program is asked to end, each step of main takes it nearer to  *)
(* its end, and neither a signal nor an event takes it farther away.       *)
THEOREM StopIsNeared == Spec => StopNears
<1>1. Stoppable /\ [Next]_vars => [Asked => IF MainStep THEN Closer ELSE NoFarther]_vars
  BY NearsNext
<1> QED BY <1>1, StoppableHolds, PTL DEF Spec, StopNears
=============================================================================
