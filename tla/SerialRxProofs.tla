--------------------------- MODULE SerialRxProofs ---------------------------
(***************************************************************************)
(* Proofs about the way of a byte from the lidar to the parser.            *)
(***************************************************************************)
EXTENDS SerialRx, Lemmas, FiniteSetTheorems

(***************************************************************************)
(* The ring buffer of the handler, whatever the queue behind it does.      *)
(***************************************************************************)

\* What the handler leaves in the ring buffer once it has stored the byte it
\* was called for: one more than it found, unless the buffer is full.
Left == IF behind + 1 > BufSize - 1 THEN BufSize - 1 ELSE behind + 1

Ring ==
  /\ dr \in Nat /\ sent \in Nat
  /\ isr \in {"off", "idle", "drain", "read", "indicate", "clear"}
  /\ put \in 0..(BufSize - 1) /\ get \in 0..(BufSize - 1) /\ full \in BOOLEAN
  /\ put = get => ~full
Behind ==
  /\ behind \in 0..(BufSize - 1)
  /\ isr = "read" => dr # 0
  /\ isr \in {"drain", "read"} => (dr # 0 /\ Count >= behind) \/ Count >= Left
  /\ isr = "indicate" => Count >= Left
  /\ isr = "clear" => Count >= Remains
RingInv == Ring /\ Behind

LEMMA CountRange ==
  ASSUME Ring
  PROVE  Count \in 0..(BufSize - 1) /\ (Count = 0 <=> put = get)
BY SerialRxAssumption DEF Ring, Count

\* The buffer counts round and round.
LEMMA AfterRange ==
  ASSUME NEW k \in 0..(BufSize - 1)
  PROVE  /\ After(k) \in 0..(BufSize - 1)
         /\ After(k) = IF k = BufSize - 1 THEN 0 ELSE k + 1
BY SerialRxAssumption DEF After

LEMMA WrapMod ==
  ASSUME NEW x \in 0..(2 * BufSize - 1)
  PROVE  x % BufSize = IF x >= BufSize THEN x - BufSize ELSE x
<1>1. BufSize \in Nat \ {0}
  BY SerialRxAssumption
<1>2. CASE x < BufSize
  BY <1>1, <1>2, ModSmall
<1>3. CASE x >= BufSize
  <2>1. PICK y \in 0..(BufSize - 1) : y = x - BufSize
    BY <1>1, <1>3
  <2>0. PICK k \in Int : k = 1
    OBVIOUS
  <2>2. (y + BufSize * k) % BufSize = y % BufSize
    BY <1>1, <2>1, y \in Int, ModShift
  <2>3. y + BufSize * k = x
    BY <1>1, <2>0, <2>1
  <2>4. y % BufSize = y
    BY <1>1, ModSmall
  <2> QED BY <1>3, <2>1, <2>2, <2>3, <2>4
<1> QED BY <1>1, <1>2, <1>3

\* A byte more, or the newest one in the place of the oldest.
LEMMA ReadCounts ==
  ASSUME Ring, Read
  PROVE  /\ put' \in 0..(BufSize - 1) /\ get' \in 0..(BufSize - 1)
         /\ full' \in BOOLEAN /\ (put' = get' => ~full')
         /\ Count' = IF Count = BufSize - 1 THEN Count ELSE Count + 1
         /\ get' = IF Count # BufSize - 1 THEN get ELSE IF get = BufSize - 1 THEN 0 ELSE get + 1
<1>1. put \in 0..(BufSize - 1) /\ get \in 0..(BufSize - 1) /\ full \in BOOLEAN
      /\ (put = get => ~full)
  BY DEF Ring
<1>2. put' = IF put = BufSize - 1 THEN 0 ELSE put + 1
  BY <1>1, AfterRange DEF Read
<1>3. put' = get => get' = (IF get = BufSize - 1 THEN 0 ELSE get + 1) /\ full' = TRUE
  BY <1>1, AfterRange DEF Read, GetOnFull
<1>4. put' # get => get' = get /\ full' = full
  BY DEF Read
<1>5. BufSize \in Nat /\ BufSize > 1
  BY SerialRxAssumption
<1>6. put' \in 0..(BufSize - 1)
  BY <1>1, <1>2, <1>5
<1>9. get' \in 0..(BufSize - 1) /\ put' # get'
  BY <1>1, <1>2, <1>3, <1>4, <1>5
<1>10. full' \in BOOLEAN
  BY <1>1, <1>3, <1>4
<1>7. CASE put' = get
  <2>1. Count = BufSize - 1
    BY <1>1, <1>2, <1>5, <1>7 DEF Count
  <2>2. get' = IF get = BufSize - 1 THEN 0 ELSE get + 1
    BY <1>3, <1>7
  <2>3. Count' = BufSize - 1
    <3>1. CASE get = BufSize - 1
      BY <1>1, <1>5, <1>7, <2>2, <3>1 DEF Count
    <3>2. CASE get # BufSize - 1
      <4>1. get' = get + 1 /\ put' = get
        BY <1>7, <2>2, <3>2
      <4>2. get' # put' /\ ~(put' > get') /\ get' - put' = 1
        BY <1>1, <4>1
      <4> QED BY <1>5, <4>2 DEF Count
    <3> QED BY <3>1, <3>2
  <2> QED BY <1>6, <1>9, <1>10, <2>1, <2>2, <2>3
<1>8. CASE put' # get
  <2>1. Count # BufSize - 1 /\ Count' = Count + 1
    BY <1>1, <1>2, <1>4, <1>5, <1>8 DEF Count
  <2> QED BY <1>4, <1>6, <1>8, <1>9, <1>10, <2>1
<1> QED BY <1>7, <1>8

\* The callback takes one byte out.
LEMMA IndicateCounts ==
  ASSUME Ring, Indicate
  PROVE  /\ put' = put /\ get' \in 0..(BufSize - 1) /\ full' = FALSE
         /\ get' = IF get = BufSize - 1 THEN 0 ELSE get + 1
         /\ Count' = Count - 1
<1>1. put \in 0..(BufSize - 1) /\ get \in 0..(BufSize - 1) /\ full \in BOOLEAN
      /\ (put = get => ~full)
  BY DEF Ring
<1>2. BufSize \in Nat /\ BufSize > 1
  BY SerialRxAssumption
<1>3. (get + 1) % BufSize = IF get = BufSize - 1 THEN 0 ELSE get + 1
  <2>1. get + 1 \in 0..(2 * BufSize - 1)
    BY <1>1, <1>2
  <2>2. (get + 1) % BufSize = IF get + 1 >= BufSize THEN (get + 1) - BufSize ELSE get + 1
    BY <2>1, WrapMod
  <2> QED BY <1>1, <1>2, <2>2
<1>4. get' = IF get = BufSize - 1 THEN 0 ELSE get + 1
  BY <1>3 DEF Indicate, BytesRead
<1>5. put' = put /\ full' = FALSE /\ Count > 0
  BY DEF Indicate
<1>6. put # get
  BY <1>1, <1>5 DEF Count
<1>7. Count' = Count - 1
  BY <1>1, <1>2, <1>4, <1>5, <1>6 DEF Count
<1> QED BY <1>1, <1>2, <1>4, <1>5, <1>7

LEMMA RingStep ==
  ASSUME RingInv, [Next]_vars
  PROVE  RingInv'
<1> USE DEF fifoVars, uartVars
<1>0. BufSize \in Nat /\ BufSize > 1
  BY SerialRxAssumption
<1>1. Ring /\ Count \in 0..(BufSize - 1) /\ behind \in 0..(BufSize - 1)
  BY CountRange DEF RingInv, Behind
<1>2. CASE Arrive
  <2>1. UNCHANGED <<put, get, full, buffer, behind, isr>> /\ sent' = sent + 1
        /\ (dr = 0 => dr' = sent + 1) /\ (dr # 0 => dr' = dr)
    BY <1>2 DEF Arrive
  <2>2. Count' = Count /\ Left' = Left /\ Remains' = Remains
    BY <2>1 DEF Count, Left, Remains
  <2>3. Ring'
    BY <1>1, <2>1 DEF Ring
  <2>4. Behind'
    BY <1>1, <2>1, <2>2 DEF RingInv, Behind, Ring
  <2> QED BY <2>3, <2>4 DEF RingInv
<1>3. CASE Enter
  <2>1. Ring' /\ Count' = Count
    BY <1>1, <1>3 DEF Ring, Enter, Count
  <2>2. Behind'
    BY <1>1, <1>3, <2>1 DEF Enter, Behind
  <2> QED BY <2>1, <2>2 DEF RingInv
<1>4. CASE Check
  <2>1. Ring' /\ Count' = Count /\ Left' = Left
    BY <1>1, <1>4 DEF Ring, Check, Count, Left, historyVars
  <2>2. Behind'
    BY <1>1, <1>4, <2>1 DEF Check, Behind, RingInv, historyVars
  <2> QED BY <2>1, <2>2 DEF RingInv
<1>5. CASE Read
  <2>1. Count' = (IF Count = BufSize - 1 THEN Count ELSE Count + 1)
    BY <1>1, <1>5, ReadCounts
  <2>2. Ring'
    <3>1. put' \in 0..(BufSize - 1) /\ get' \in 0..(BufSize - 1) /\ full' \in BOOLEAN
          /\ (put' = get' => ~full')
      BY <1>1, <1>5, ReadCounts
    <3> QED BY <1>1, <1>5, <3>1 DEF Ring, Read
  <2>3. behind' = behind /\ isr' = "drain" /\ isr = "read" /\ Left' = Left
    BY <1>5 DEF Read, historyVars, Left
  <2>4. Count' >= Left
    <3>1. Count >= behind \/ Count >= Left
      BY <2>3 DEF RingInv, Behind
    <3> QED BY <1>0, <1>1, <2>1, <3>1 DEF Left
  <2>5. Behind'
    BY <1>1, <2>3, <2>4 DEF Behind
  <2> QED BY <2>2, <2>5 DEF RingInv
<1>6. CASE Indicate
  <2>1. Count' = Count - 1 /\ Ring'
    BY <1>1, <1>6, IndicateCounts DEF Ring, Indicate
  <2>2. behind' = behind /\ isr' = "clear" /\ isr = "indicate"
    BY <1>6 DEF Indicate
  <2>3. Count >= Left
    BY <2>2 DEF RingInv, Behind
  <2>4. Count' >= Remains'
    BY <1>0, <1>1, <2>1, <2>2, <2>3 DEF Left, Remains
  <2>5. Behind'
    BY <1>1, <2>2, <2>4 DEF Behind
  <2> QED BY <2>1, <2>5 DEF RingInv
<1>7. CASE Clear
  BY <1>1, <1>7 DEF Clear, RingInv, Ring, Behind, Count
<1>8. CASE Thread
  <2>1. UNCHANGED <<sent, dr, put, get, full, behind>>
        /\ (isr' = isr \/ isr' = "idle")
    BY <1>8 DEF Thread, Open, Size, LinkFree, PushFree, Made, Take, Copy, Return, historyVars
  <2>2. Ring'
    BY <1>1, <2>1 DEF Ring
  <2>3. Count' = Count /\ Left' = Left /\ Remains' = Remains
    BY <2>1 DEF Count, Left, Remains
  <2>4. Behind'
    BY <1>1, <2>1, <2>3 DEF RingInv, Behind
  <2> QED BY <2>2, <2>4 DEF RingInv
<1>9. CASE UNCHANGED vars
  BY <1>1, <1>9 DEF vars, historyVars, RingInv, Ring, Behind, Count, Left, Remains
<1> QED BY <1>2, <1>3, <1>4, <1>5, <1>6, <1>7, <1>8, <1>9 DEF Next, Handler

LEMMA RingInit ==
  ASSUME Init
  PROVE  RingInv
<1>1. dr = 0 /\ sent = 0 /\ isr = "off" /\ put = 0 /\ get = 0 /\ full = FALSE
  BY DEF Init
<1>2. BufSize \in Nat /\ BufSize > 1 /\ behind = 0
  BY SerialRxAssumption DEF Init
<1>3. 0 \in 0..(BufSize - 1)
  BY <1>2
<1>4. full \in BOOLEAN /\ ~full
  BY <1>1
<1>5. Ring
  BY <1>1, <1>3, <1>4 DEF Ring
<1>6. Behind
  BY <1>1, <1>2 DEF Behind
<1> QED BY <1>5, <1>6 DEF RingInv

\* In every behaviour, the handler's ring buffer is counted right and holds
\* what the interrupts before have left in it.
THEOREM RingCorrect == Spec => []RingInv
BY RingInit, RingStep, PTL DEF Spec

\* What one interrupt leaves in the ring buffer stays there: the callback
\* reads one byte, whatever has come (app_eaix4.c 18, serial.c 1158).
THEOREM StaysBehindCorrect == Spec => StaysBehind
<1>1. ASSUME RingInv, [Next]_vars,
             isr' = "idle", isr # "off", isr # "idle"
      PROVE  Count' >= Remains
  <2>1. CASE Clear
    BY <1>1, <2>1 DEF Clear, RingInv, Behind, Count, fifoVars
  <2>2. CASE Arrive \/ Enter \/ Check \/ Read \/ Indicate
    BY <1>1, <2>2 DEF Arrive, Enter, Check, Read, Indicate
  <2>3. CASE Thread
    BY <1>1, <2>3 DEF Thread, Open, Size, LinkFree, PushFree, Made, Take, Copy, Return, CanRun
  <2>4. CASE UNCHANGED vars
    BY <1>1, <2>4 DEF vars
  <2> QED BY <1>1, <2>1, <2>2, <2>3, <2>4 DEF Next, Handler
<1> QED BY <1>1, RingCorrect, PTL DEF Spec, StaysBehind

(***************************************************************************)
(* The lists of the message queue: a sequence of blocks in which each      *)
(* points to the one behind it, and the last to none.                      *)
(***************************************************************************)
At(q, k) == IF k <= Len(q) THEN q[k] ELSE NoBlock
ListOf(nx, q, h) ==
  /\ h = At(q, 1)
  /\ \A k \in 1..Len(q) : nx[q[k]] = At(q, k + 1)

\* What Chain follows, with the pointers as a parameter.
Step(nx, h, at, k) ==
  IF k = 1 THEN h ELSE IF at[k - 1] = NoBlock THEN NoBlock ELSE nx[at[k - 1]]
Follows(nx, h, N, at) == \A k \in 1..N : at[k] = Step(nx, h, at, k)
Agree(N, a, b) == \A k \in 1..N : a[k] = b[k]
ChainOf(nx, h) ==
  LET at[k \in 1..(Cardinality(Blocks) + 1)] ==
        IF k = 1 THEN h
        ELSE IF at[k - 1] = NoBlock THEN NoBlock ELSE nx[at[k - 1]]
  IN [k \in 1..Cardinality({j \in DOMAIN at : at[j] # NoBlock}) |-> at[k]]

LEMMA AtRange ==
  ASSUME NEW q \in Seq(Blocks)
  PROVE  /\ \A k \in 1..Len(q) : At(q, k) = q[k] /\ q[k] \in Blocks /\ q[k] # NoBlock
         /\ \A k \in Nat : k > Len(q) => At(q, k) = NoBlock
BY SerialRxAssumption DEF At

LEMMA UpToCardinality ==
  ASSUME NEW n \in Nat
  PROVE  Cardinality(1..n) = n
<1>1. PICK i \in Int : i = 1
  OBVIOUS
<1>2. Cardinality(i..n) = IF i > n THEN 0 ELSE n - i + 1
  BY n \in Int, FS_Interval
<1> QED BY <1>1, <1>2

\* A block is on the list at most once, so that no list is longer than the pool.
LEMMA ListIsShort ==
  ASSUME NEW q \in Seq(Blocks), Distinct(q)
  PROVE  Cardinality(Blocks) \in Nat /\ Len(q) <= Cardinality(Blocks)
<1>1. q \in [1..Len(q) -> Blocks] /\ Len(q) \in Nat /\ DOMAIN q = 1..Len(q)
  BY LenProperties
<1>2. q \in Injection(1..Len(q), Blocks)
  BY <1>1 DEF Injection, IsInjective, Distinct
<1>3. Cardinality(1..Len(q)) <= Cardinality(Blocks)
  BY <1>2, SerialRxAssumption, FS_Injection
<1>4. Cardinality(1..Len(q)) = Len(q)
  BY <1>1, UpToCardinality
<1>5. Cardinality(Blocks) \in Nat
  BY SerialRxAssumption, FS_CardinalityType
<1> QED BY <1>3, <1>4, <1>5

\* Two functions that follow the same pointers are one.
LEMMA StepUnique ==
  ASSUME NEW N \in Nat, NEW nx, NEW h, NEW a, NEW b,
         Follows(nx, h, N, a), Follows(nx, h, N, b)
  PROVE  Agree(N, a, b)
<1> DEFINE T == {k \in 1..N : a[k] # b[k]}
<1>1. T = {}
  <2> SUFFICES ASSUME T # {} PROVE FALSE
    OBVIOUS
  <2>1. T \subseteq Nat
    OBVIOUS
  <2>2. PICK m \in T : \A y \in T : ~(<<y, m>> \in OpToRel(<, Nat))
    BY <2>1, NatLessThanWellFounded, WFMin
  <2>3. \A y \in T : ~(y < m)
    BY <2>1, <2>2 DEF OpToRel
  <2>4. m \in 1..N /\ a[m] # b[m]
    OBVIOUS
  <2>5. a[m] = Step(nx, h, a, m) /\ b[m] = Step(nx, h, b, m)
    BY <2>4 DEF Follows
  <2>6. CASE m = 1
    BY <2>4, <2>5, <2>6 DEF Step
  <2>7. CASE m # 1
    <3>1. m - 1 \in 1..N /\ m - 1 < m
      BY <2>4, <2>7
    <3>2. a[m - 1] = b[m - 1]
      BY <2>3, <3>1
    <3> QED BY <2>4, <2>5, <2>7, <3>2 DEF Step
  <2> QED BY <2>6, <2>7
<1> QED BY <1>1 DEF Agree

\* Following the pointers finds the list.
LEMMA ChainFinds ==
  ASSUME NEW nx, NEW h, NEW q \in Seq(Blocks), Distinct(q), ListOf(nx, q, h)
  PROVE  ChainOf(nx, h) = q
<1> DEFINE N == Cardinality(Blocks) + 1
           F(a) == [k \in 1..N |-> Step(nx, h, a, k)]
           w == [k \in 1..N |-> At(q, k)]
           at == CHOOSE a : a = F(a)
<1>1. N \in Nat /\ Len(q) \in Nat /\ Len(q) < N
  BY ListIsShort, LenProperties
<1>2. w = F(w)
  <2> SUFFICES ASSUME NEW k \in 1..N PROVE w[k] = Step(nx, h, w, k)
    OBVIOUS
  <2>1. CASE k = 1
    BY <2>1 DEF Step, ListOf
  <2>2. CASE k # 1
    <3>1. PICK l \in 1..N : l = k - 1 /\ k = l + 1
      BY <1>1, <2>2
    <3>2. w[l] = At(q, l) /\ w[k] = At(q, l + 1)
      BY <3>1
    <3>3. CASE l \in 1..Len(q)
      <4>1. w[l] = q[l] /\ w[l] # NoBlock
        BY <3>2, <3>3, AtRange
      <4>2. nx[w[l]] = At(q, l + 1)
        BY <3>3, <4>1 DEF ListOf
      <4> QED BY <2>2, <3>1, <3>2, <4>1, <4>2 DEF Step
    <3>4. CASE l > Len(q)
      <4>1. w[l] = NoBlock /\ w[k] = NoBlock
        BY <1>1, <3>1, <3>2, <3>4, AtRange
      <4> QED BY <2>2, <3>1, <4>1 DEF Step
    <3> QED BY <1>1, <3>3, <3>4
  <2> QED BY <2>1, <2>2
<1>3. at = F(at)
  BY <1>2
<1>4. at = w
  <2>1. at = [k \in 1..N |-> at[k]] /\ w = [k \in 1..N |-> w[k]]
    BY <1>3
  <2>2. Follows(nx, h, N, at) /\ Follows(nx, h, N, w)
    <3> HIDE DEF at, w, N
    <3> QED BY <1>2, <1>3 DEF Follows
  <2> HIDE DEF at, w, N
  <2>3. Agree(N, at, w)
    BY <1>1, <2>2, StepUnique
  <2> QED BY <2>1, <2>3 DEF Agree
<1>5. {j \in DOMAIN at : at[j] # NoBlock} = 1..Len(q)
  <2>1. DOMAIN w = 1..N /\ \A k \in 1..N : w[k] # NoBlock <=> k \in 1..Len(q)
    BY <1>1, AtRange
  <2> HIDE DEF w, at, N
  <2> QED BY <1>1, <1>4, <2>1
<1>6. Cardinality(1..Len(q)) = Len(q)
  BY <1>1, UpToCardinality
<1>7. ChainOf(nx, h) = [k \in 1..Cardinality({j \in DOMAIN at : at[j] # NoBlock}) |-> at[k]]
  BY DEF ChainOf, Step
<1>8. ChainOf(nx, h) = [k \in 1..Len(q) |-> w[k]]
  <2> HIDE DEF w, at, N
  <2> QED BY <1>4, <1>5, <1>6, <1>7
<1>9. [k \in 1..Len(q) |-> w[k]] = q
  <2>1. q = [k \in 1..Len(q) |-> q[k]]
    BY LenProperties
  <2>2. \A k \in 1..Len(q) : w[k] = q[k]
    BY <1>1, AtRange
  <2> HIDE DEF w
  <2> QED BY <2>1, <2>2
<1> QED BY <1>8, <1>9

(***************************************************************************)
(* A list loses its first block, gets a new one, or stays as it is while   *)
(* the pointer of a block that is not on it changes.                       *)
(***************************************************************************)
TailOf(q) == IF q = <<>> THEN NoBlock ELSE q[Len(q)]

LEMMA EmptyList ==
  ASSUME NEW nx, NEW h, NEW q \in Seq(Blocks), ListOf(nx, q, h)
  PROVE  /\ q = <<>> <=> h = NoBlock
         /\ q # <<>> => h = Head(q) /\ h = q[1] /\ Len(q) \in Nat \ {0} /\ 1 \in 1..Len(q)
<1>1. Len(q) \in Nat /\ (q = <<>> <=> Len(q) = 0)
  BY EmptySeq, LenProperties
<1>2. CASE q = <<>>
  BY <1>1, <1>2 DEF ListOf, At
<1>3. CASE q # <<>>
  <2>1. Len(q) \in Nat \ {0} /\ 1 \in 1..Len(q)
    BY <1>1, <1>3
  <2>2. h = q[1] /\ q[1] # NoBlock
    BY <2>1, AtRange DEF ListOf
  <2> QED BY <1>3, <2>1, <2>2
<1> QED BY <1>2, <1>3

LEMMA FirstLeaves ==
  ASSUME NEW nx, NEW h, NEW q \in Seq(Blocks), q # <<>>, ListOf(nx, q, h)
  PROVE  ListOf(nx, Tail(q), nx[h])
<1>1. Tail(q) \in Seq(Blocks) /\ Len(Tail(q)) = Len(q) - 1 /\ Len(q) \in Nat \ {0}
      /\ \A i \in 1..(Len(q) - 1) : Tail(q)[i] = q[i + 1]
  BY HeadTailProperties, EmptySeq
<1>2. h = q[1] /\ 1 \in 1..Len(q)
  BY EmptyList
<1>3. \A k \in Nat \ {0} : At(Tail(q), k) = At(q, k + 1)
  BY <1>1 DEF At
<1>4. nx[h] = At(Tail(q), 1)
  <2>1. nx[q[1]] = At(q, 1 + 1)
    BY <1>2 DEF ListOf
  <2> QED BY <1>2, <1>3, <2>1
<1>5. ASSUME NEW k \in 1..Len(Tail(q)) PROVE nx[Tail(q)[k]] = At(Tail(q), k + 1)
  <2>1. PICK i \in 1..Len(q) : i = k + 1
    BY <1>1
  <2>2. nx[q[i]] = At(q, i + 1)
    BY DEF ListOf
  <2>3. Tail(q)[k] = q[i] /\ At(Tail(q), k + 1) = At(q, i + 1)
    BY <1>1, <1>3, <2>1
  <2> QED BY <2>2, <2>3
<1> QED BY <1>4, <1>5 DEF ListOf

LEMMA OtherList ==
  ASSUME NEW nx \in [Blocks -> Blocks \cup {NoBlock}], NEW h, NEW q \in Seq(Blocks),
         NEW b \in Blocks, NEW x \in Blocks \cup {NoBlock}, b \notin Elements(q),
         ListOf(nx, q, h)
  PROVE  ListOf([nx EXCEPT ![b] = x], q, h)
<1>1. \A k \in 1..Len(q) : q[k] \in Blocks /\ q[k] # b
  BY LenProperties DEF Elements
<1>2. \A k \in 1..Len(q) : [nx EXCEPT ![b] = x][q[k]] = nx[q[k]]
  BY <1>1
<1> QED BY <1>2 DEF ListOf

LEMMA PushOnList ==
  ASSUME NEW nx \in [Blocks -> Blocks \cup {NoBlock}], NEW h, NEW q \in Seq(Blocks),
         NEW b \in Blocks, nx[b] = h, ListOf(nx, q, h)
  PROVE  ListOf(nx, <<b>> \o q, b)
<1> DEFINE p == <<b>> \o q
<1>1. p \in Seq(Blocks) /\ Len(p) = Len(q) + 1 /\ p[1] = b
      /\ \A k \in 1..Len(q) : p[k + 1] = q[k]
  BY PushSeq
<1>2. Len(q) \in Nat
  BY LenProperties
<1> HIDE DEF p
<1>3. \A k \in Nat \ {0} : At(p, k + 1) = At(q, k)
  BY <1>1, <1>2 DEF At
<1>4. At(p, 1) = b
  BY <1>1, <1>2 DEF At
<1>5. ASSUME NEW k \in 1..Len(p) PROVE nx[p[k]] = At(p, k + 1)
  <2>1. CASE k = 1
    BY <1>1, <1>3, <2>1 DEF ListOf
  <2>2. CASE k # 1
    <3>1. PICK j \in 1..Len(q) : k = j + 1
      <4>1. k - 1 \in 1..Len(q) /\ k = (k - 1) + 1
        BY <1>1, <1>2, <2>2
      <4> QED BY <4>1
    <3>2. nx[q[j]] = At(q, j + 1)
      BY DEF ListOf
    <3>3. p[k] = q[j] /\ At(p, k + 1) = At(q, j + 1)
      BY <1>1, <1>2, <1>3, <3>1
    <3> QED BY <3>2, <3>3
  <2> QED BY <2>1, <2>2
<1>6. ListOf(nx, p, b)
  BY <1>4, <1>5 DEF ListOf
<1> QED BY <1>6 DEF p

\* The pointers after a block has been put behind the last one of a list.
Linked(nx, last, n) ==
  IF last = NoBlock THEN [nx EXCEPT ![n] = NoBlock]
  ELSE [nx EXCEPT ![n] = NoBlock, ![last] = n]

LEMMA LinkedAt ==
  ASSUME NEW nx \in [Blocks -> Blocks \cup {NoBlock}], NEW n \in Blocks,
         NEW last \in Blocks \cup {NoBlock}, last # n
  PROVE  /\ Linked(nx, last, n) \in [Blocks -> Blocks \cup {NoBlock}]
         /\ Linked(nx, last, n)[n] = NoBlock
         /\ last # NoBlock => Linked(nx, last, n)[last] = n
         /\ \A b \in Blocks : b # n /\ b # last => Linked(nx, last, n)[b] = nx[b]
BY SerialRxAssumption DEF Linked

LEMMA AppendToList ==
  ASSUME NEW nx \in [Blocks -> Blocks \cup {NoBlock}], NEW h, NEW q \in Seq(Blocks),
         NEW n \in Blocks, n \notin Elements(q), Distinct(q), ListOf(nx, q, h)
  PROVE  /\ TailOf(q) \in Blocks \cup {NoBlock} /\ TailOf(q) # n
         /\ ListOf(Linked(nx, TailOf(q), n), Append(q, n), IF h = NoBlock THEN n ELSE h)
         /\ TailOf(Append(q, n)) = n
<1> DEFINE last == TailOf(q)
           m == Linked(nx, last, n)
           p == Append(q, n)
<1>1. Len(q) \in Nat /\ DOMAIN q = 1..Len(q) /\ (q = <<>> <=> Len(q) = 0)
      /\ \A k \in 1..Len(q) : q[k] \in Blocks /\ q[k] # n /\ q[k] # NoBlock
  BY LenProperties, EmptySeq, SerialRxAssumption DEF Elements
<1>2. last \in Blocks \cup {NoBlock} /\ last # n /\ (q # <<>> => last = q[Len(q)] /\ last # NoBlock)
  BY <1>1, SerialRxAssumption DEF TailOf
<1>3. p \in Seq(Blocks) /\ Len(p) = Len(q) + 1 /\ p[Len(q) + 1] = n
      /\ \A k \in 1..Len(q) : p[k] = q[k]
  OBVIOUS
<1>4. m[n] = NoBlock /\ (last # NoBlock => m[last] = n)
      /\ \A b \in Blocks : b # n /\ b # last => m[b] = nx[b]
  BY <1>2, LinkedAt
<1>5. p # <<>>
  BY <1>1, <1>3
<1>6. TailOf(p) = n
  BY <1>3, <1>5 DEF TailOf
<1> HIDE DEF p, m, last
<1>7. At(p, 1) = IF h = NoBlock THEN n ELSE h
  <2>1. CASE q = <<>>
    <3>1. h = NoBlock
      BY <2>1, EmptyList
    <3> QED BY <1>1, <1>3, <2>1, <3>1 DEF At
  <2>2. CASE q # <<>>
    <3>1. h = q[1] /\ 1 \in 1..Len(q)
      BY <2>2, EmptyList
    <3>2. h # NoBlock /\ p[1] = h
      BY <1>1, <1>3, <3>1
    <3> QED BY <1>1, <1>3, <3>1, <3>2 DEF At
  <2> QED BY <2>1, <2>2
<1>10. Len(q) \in Nat /\ Len(p) = Len(q) + 1
  BY <1>1, <1>3
<1>8. ASSUME NEW k \in 1..Len(p) PROVE m[p[k]] = At(p, k + 1)
  <2>1. CASE k = Len(q) + 1
    BY <1>1, <1>3, <1>4, <2>1 DEF At
  <2>2. CASE k = Len(q)
    <3>1. q # <<>> /\ p[k] = last /\ k + 1 = Len(q) + 1
      BY <1>1, <1>2, <1>3, <2>2
    <3>2. At(p, k + 1) = n
      BY <1>1, <1>3, <3>1 DEF At
    <3> QED BY <1>2, <1>4, <3>1, <3>2
  <2>3. CASE k \in 1..Len(q) /\ k # Len(q)
    <3>1. p[k] = q[k] /\ q[k] \in Blocks /\ q[k] # n
      BY <1>1, <1>3, <2>3
    <3>2. q[k] # last
      <4>1. Len(q) \in 1..Len(q) /\ k \in 1..Len(q)
        BY <1>10, <2>3
      <4>3. Len(q) # 0
        BY <4>1
      <4>4. DOMAIN q = 1..Len(q) /\ q # <<>>
        BY <1>1, <4>3
      <4>2. DOMAIN q = 1..Len(q) /\ last = q[Len(q)]
        BY <1>2, <4>4
      <4> QED BY <2>3, <4>1, <4>2 DEF Distinct
    <3>3. m[q[k]] = nx[q[k]]
      BY <1>4, <3>1, <3>2
    <3>4. nx[q[k]] = At(q, k + 1)
      BY <2>3 DEF ListOf
    <3>5. k + 1 \in 1..Len(q)
      BY <1>10, <2>3
    <3>6. At(q, k + 1) = q[k + 1] /\ At(p, k + 1) = p[k + 1] /\ p[k + 1] = q[k + 1]
      BY <1>1, <1>3, <3>5 DEF At
    <3> QED BY <3>1, <3>3, <3>4, <3>6
  <2> QED BY <1>10, <2>1, <2>2, <2>3
<1>9. ListOf(m, p, IF h = NoBlock THEN n ELSE h)
  BY <1>7, <1>8 DEF ListOf
<1> QED BY <1>2, <1>6, <1>9 DEF p, m, last

\* The list the block came from has lost it before.
LEMMA LinkedOther ==
  ASSUME NEW nx \in [Blocks -> Blocks \cup {NoBlock}], NEW h, NEW q \in Seq(Blocks),
         NEW n \in Blocks, NEW last \in Blocks \cup {NoBlock}, last # n,
         n \notin Elements(q), last \notin Elements(q), ListOf(nx, q, h)
  PROVE  ListOf(Linked(nx, last, n), q, h)
<1>1. \A k \in 1..Len(q) : q[k] \in Blocks /\ q[k] # n /\ q[k] # last
  BY LenProperties DEF Elements
<1>2. \A k \in 1..Len(q) : Linked(nx, last, n)[q[k]] = nx[q[k]]
  BY <1>1, LinkedAt
<1> QED BY <1>2 DEF ListOf

(***************************************************************************)
(* The message queue while the lidar only sends once it is made: at any    *)
(* time a block waits in the queue, is free, is in the hands of the thread *)
(* or has yet to be put on the free list.                                  *)
(***************************************************************************)
Types ==
  /\ next \in [Blocks -> Blocks \cup {NoBlock}] /\ data \in [Blocks -> Nat]
  /\ buffer \in [0..(BufSize - 1) -> Nat]
  /\ tpc \in {"open", "size", "init", "push", "recv", "copy", "return"}
  /\ todo \subseteq Blocks /\ block \in Blocks \cup {NoBlock}
  /\ delivered \in Seq(Nat) /\ during \in Nat /\ worst \in Nat
  /\ ore \in BOOLEAN /\ seen \in BOOLEAN /\ refused \in BOOLEAN /\ sized \in BOOLEAN

Serving == tpc \in {"recv", "copy", "return"}

\* q waits and f is free.
Pool(q, f) ==
  /\ q \in Seq(Blocks) /\ f \in Seq(Blocks)
  /\ ListOf(next, q, qHead) /\ ListOf(next, f, freeHead)
  /\ Distinct(q) /\ Distinct(f) /\ Elements(q) \cap Elements(f) = {}
  /\ qTail = TailOf(q) /\ entry = Len(q)
  /\ block \notin Elements(q) /\ block \notin Elements(f)
  /\ block # NoBlock <=> tpc \in {"push", "copy", "return"}

\* Nothing has come before the thread serves the queue.
Quiet(q, f) ==
  ~Serving =>
    /\ q = <<>> /\ delivered = <<>>
    /\ sent = 0 /\ dr = 0 /\ ~ore /\ isr \in {"off", "idle"} /\ put = get
    /\ todo \cap Elements(f) = {} /\ block \notin todo
    /\ tpc \in {"open", "size"} => f = <<>>
    /\ tpc = "push" => next[block] = freeHead

Lists(q, f) == Pool(q, f) /\ Quiet(q, f)
ListInv == RingInv /\ Types /\ \E q, f : Lists(q, f)

LEMMA QueueIs ==
  ASSUME NEW q, NEW f, Pool(q, f)
  PROVE  Queue = q
BY ChainFinds DEF Pool, Queue, Chain, ChainOf

LEMMA HandlerLists ==
  ASSUME ~Early, NEW q, NEW f, Lists(q, f), Arrive \/ Enter \/ Check \/ Read \/ Clear
  PROVE  Serving /\ Lists(q, f)'
<1>1. Serving
  BY DEF Lists, Quiet, Serving, Arrive, Enter, Check, Read, Clear
<1>2. UNCHANGED <<next, freeHead, qHead, qTail, entry, tpc, block>>
  BY DEF Arrive, Enter, Check, Read, Clear, queueVars, threadVars
<1>3. Serving'
  BY <1>1, <1>2 DEF Serving
<1>4. Pool(q, f)'
  BY <1>2 DEF Lists, Pool
<1> QED BY <1>1, <1>3, <1>4 DEF Lists, Quiet

LEMMA IndicateLists ==
  ASSUME Types, NEW q, NEW f, Lists(q, f), Indicate,
         NEW n, n = freeHead, NEW p, p = Append(q, n), NEW g, g = Tail(f)
  PROVE  /\ Serving
         /\ Accepts => n \in Blocks /\ n \notin Elements(q) /\ n # block /\ Lists(p, g)'
         /\ ~Accepts => Lists(q, f)'
<1>1. Serving
  BY DEF Lists, Quiet, Serving, Indicate
<1>2. tpc' = tpc /\ block' = block /\ Serving'
  BY <1>1 DEF Indicate, threadVars, Serving
<1>3. ASSUME ~Accepts PROVE Lists(q, f)'
  <2>1. UNCHANGED <<next, freeHead, qHead, qTail, entry>>
    BY <1>3 DEF Indicate, MqSend
  <2>2. Pool(q, f)'
    BY <1>2, <2>1 DEF Lists, Pool
  <2> QED BY <1>2, <2>2 DEF Lists, Quiet
<1>4. ASSUME Accepts
      PROVE  n \in Blocks /\ n \notin Elements(q) /\ n # block /\ Lists(p, g)'
  <2>1. q \in Seq(Blocks) /\ f \in Seq(Blocks) /\ ListOf(next, q, qHead) /\ ListOf(next, f, n)
        /\ Distinct(q) /\ Distinct(f) /\ Elements(q) \cap Elements(f) = {}
        /\ next \in [Blocks -> Blocks \cup {NoBlock}]
    BY DEF Lists, Pool, Types
  <2>2. f # <<>> /\ n = Head(f)
    BY <1>4, <2>1, EmptyList DEF Accepts
  <2>3. /\ g \in Seq(Blocks) /\ Distinct(g) /\ n \in Blocks /\ n \in Elements(f)
        /\ Elements(g) = Elements(f) \ {n}
    BY <2>1, <2>2, TailSeq
  <2>4. n \notin Elements(q) /\ n # block
    BY <2>1, <2>3 DEF Lists, Pool
  <2>5. /\ p \in Seq(Blocks) /\ Len(p) = Len(q) + 1
        /\ Elements(p) = Elements(q) \cup {n} /\ Distinct(p)
    BY <2>1, <2>3, <2>4, AppendSeq
  <2>6. freeHead' = next[n] /\ next' = Linked(next, TailOf(q), n) /\ qTail' = n
        /\ qHead' = (IF qHead = NoBlock THEN n ELSE qHead) /\ entry' = Len(q) + 1
    BY <1>4 DEF Indicate, MqSend, Linked, Lists, Pool, EntryAfterSend
  <2>7. /\ TailOf(q) \in Blocks \cup {NoBlock} /\ TailOf(q) # n
        /\ ListOf(next', p, qHead') /\ TailOf(p) = n
    BY <2>1, <2>3, <2>4, <2>6, AppendToList
  <2>8. TailOf(q) \notin Elements(g)
    <3>1. CASE q = <<>>
      <4>1. TailOf(q) = NoBlock
        BY <3>1 DEF TailOf
      <4> QED BY <2>3, <4>1, SerialRxAssumption DEF Elements
    <3>2. CASE q # <<>>
      <4>1. TailOf(q) \in Elements(q)
        <5>1. Len(q) \in 1..Len(q) /\ DOMAIN q = 1..Len(q)
          BY <2>1, <3>2, EmptySeq, LenProperties
        <5> QED BY <3>2, <5>1 DEF TailOf, Elements
      <4> QED BY <2>1, <2>3, <4>1
    <3> QED BY <3>1, <3>2
  <2>9. ListOf(next, g, next[n])
    BY <2>1, <2>2, FirstLeaves
  <2>10. ListOf(next', g, freeHead')
    BY <2>1, <2>3, <2>6, <2>7, <2>8, <2>9, LinkedOther
  <2>11. Pool(p, g)'
    <3>1. block' \notin Elements(p) /\ block' \notin Elements(g)
      BY <1>2, <2>3, <2>4, <2>5 DEF Lists, Pool
    <3>2. Elements(p) \cap Elements(g) = {}
      BY <2>1, <2>3, <2>4, <2>5
    <3>3. block' # NoBlock <=> tpc' \in {"push", "copy", "return"}
      BY <1>2 DEF Lists, Pool
    <3> QED BY <2>3, <2>5, <2>6, <2>7, <2>10, <3>1, <3>2, <3>3 DEF Pool
  <2>12. Lists(p, g)'
    BY <1>2, <2>11 DEF Lists, Quiet
  <2> QED BY <2>2, <2>3, <2>4, <2>12
<1> QED BY <1>1, <1>3, <1>4

LEMMA TakeLists ==
  ASSUME Types, NEW q, NEW f, Lists(q, f), Take
  PROVE  q # <<>> /\ block' = q[1] /\ Lists(Tail(q), f)'
<1>1. q \in Seq(Blocks) /\ f \in Seq(Blocks) /\ ListOf(next, q, qHead) /\ ListOf(next, f, freeHead)
      /\ Distinct(q) /\ Distinct(f) /\ Elements(q) \cap Elements(f) = {}
      /\ entry = Len(q) /\ qTail = TailOf(q) /\ tpc = "recv"
  BY DEF Lists, Pool, Take
<1>2. q # <<>>
  BY <1>1 DEF Take
<1>3. qHead = Head(q) /\ qHead = q[1] /\ Len(q) \in Nat \ {0} /\ 1 \in 1..Len(q)
  BY <1>1, <1>2, EmptyList
<1>4. /\ Tail(q) \in Seq(Blocks) /\ Len(Tail(q)) = Len(q) - 1 /\ Distinct(Tail(q))
      /\ qHead \in Blocks /\ qHead \in Elements(q) /\ Elements(Tail(q)) = Elements(q) \ {qHead}
  BY <1>1, <1>2, <1>3, TailSeq
<1>5. ListOf(next, Tail(q), next[qHead])
  BY <1>1, <1>2, FirstLeaves
<1>6. TailAfterTake = TailOf(Tail(q))
  <2>1. qTail = q[Len(q)] /\ DOMAIN q = 1..Len(q)
    BY <1>1, <1>2, LenProperties DEF TailOf
  <2>2. CASE Len(q) = 1
    <3>1. Tail(q) = <<>>
      BY <1>4, <2>2, Len(Tail(q)) = 0, EmptySeq
    <3> QED BY <1>3, <2>1, <2>2, <3>1 DEF TailAfterTake, TailOf
  <2>3. CASE Len(q) # 1
    <3>1. Len(q) \in 1..Len(q) /\ Len(q) # 1
      BY <1>3, <2>3
    <3>2. q[Len(q)] # q[1]
      BY <1>1, <1>3, <2>1, <3>1 DEF Distinct
    <3>3. Len(q) - 1 \in 1..(Len(q) - 1) /\ (Len(q) - 1) + 1 = Len(q)
      BY <1>3, <2>3
    <3>4. Tail(q)[Len(q) - 1] = q[Len(q)]
      BY <1>1, <1>2, <1>4, <3>3, HeadTailProperties
    <3>5. Tail(q) # <<>>
      <4>1. Len(Tail(q)) # 0
        BY <1>3, <1>4, <2>3
      <4> QED BY <4>1, EmptySeq
    <3>6. TailOf(Tail(q)) = q[Len(q)]
      BY <1>4, <3>4, <3>5 DEF TailOf
    <3> QED BY <1>3, <2>1, <3>2, <3>6 DEF TailAfterTake
  <2> QED BY <2>2, <2>3
<1>7. block' = qHead /\ qHead' = next[qHead] /\ qTail' = TailOf(Tail(q)) /\ entry' = Len(q) - 1
      /\ tpc' = "copy" /\ next' = next /\ freeHead' = freeHead
  BY <1>1, <1>6 DEF Take
<1>8. Pool(Tail(q), f)'
  <2>1. block' \notin Elements(Tail(q)) /\ block' \notin Elements(f)
    BY <1>1, <1>4, <1>7
  <2>2. block' # NoBlock
    BY <1>4, <1>7, SerialRxAssumption
  <2>3. Elements(Tail(q)) \cap Elements(f) = {}
    BY <1>1, <1>4
  <2> QED BY <1>1, <1>4, <1>5, <1>7, <2>1, <2>2, <2>3 DEF Pool
<1> QED BY <1>2, <1>3, <1>7, <1>8 DEF Lists, Quiet, Serving

LEMMA ReturnLists ==
  ASSUME Types, NEW q, NEW f, Lists(q, f), Return, NEW g, g = <<block>> \o f
  PROVE  Lists(q, g)'
<1>1. q \in Seq(Blocks) /\ f \in Seq(Blocks) /\ ListOf(next, q, qHead) /\ ListOf(next, f, freeHead)
      /\ Distinct(q) /\ Distinct(f) /\ Elements(q) \cap Elements(f) = {}
      /\ entry = Len(q) /\ qTail = TailOf(q) /\ tpc = "return"
      /\ block \notin Elements(q) /\ block \notin Elements(f)
      /\ next \in [Blocks -> Blocks \cup {NoBlock}]
  BY DEF Lists, Pool, Return, Types
<1>2. block \in Blocks
  BY <1>1 DEF Lists, Pool, Types
<1>3. next' = [next EXCEPT ![block] = freeHead] /\ freeHead' = block /\ block' = NoBlock
      /\ tpc' = "recv" /\ UNCHANGED <<qHead, qTail, entry>>
  BY DEF Return
<1>4. freeHead \in Blocks \cup {NoBlock}
  BY <1>1, AtRange, LenProperties DEF ListOf, At
<1>5. next' \in [Blocks -> Blocks \cup {NoBlock}] /\ next'[block] = freeHead
  BY <1>1, <1>2, <1>3, <1>4
<1>6. ListOf(next', q, qHead) /\ ListOf(next', f, freeHead)
  BY <1>1, <1>2, <1>3, <1>4, OtherList
<1>7. ListOf(next', g, block)
  BY <1>1, <1>2, <1>5, <1>6, PushOnList
<1>8. /\ g \in Seq(Blocks) /\ Distinct(g)
      /\ Elements(g) = Elements(f) \cup {block}
  BY <1>1, <1>2, PushSeq
<1>9. NoBlock \notin Elements(q) /\ NoBlock \notin Elements(g)
  <2>1. Elements(q) \subseteq Blocks /\ Elements(f) \subseteq Blocks
    BY <1>1, LenProperties DEF Elements
  <2> QED BY <1>2, <1>8, <2>1, SerialRxAssumption
<1>10. Elements(q) \cap Elements(g) = {}
  BY <1>1, <1>8
<1>11. Pool(q, g)'
  <2>1. q \in Seq(Blocks) /\ g \in Seq(Blocks) /\ Distinct(q) /\ Distinct(g)
        /\ Elements(q) \cap Elements(g) = {}
    BY <1>1, <1>8, <1>10
  <2>2. ListOf(next', q, qHead') /\ ListOf(next', g, freeHead')
    BY <1>3, <1>6, <1>7
  <2>3. qTail' = TailOf(q) /\ entry' = Len(q)
    BY <1>1, <1>3
  <2>4. block' \notin Elements(q) /\ block' \notin Elements(g)
    BY <1>3, <1>9
  <2>5. block' # NoBlock <=> tpc' \in {"push", "copy", "return"}
    BY <1>3
  <2> QED BY ONLY <2>1, <2>2, <2>3, <2>4, <2>5 DEF Pool
<1> QED BY <1>3, <1>11 DEF Lists, Quiet, Serving

LEMMA OpenLists ==
  ASSUME Types, NEW q, NEW f, Lists(q, f), Open \/ Size \/ Made \/ Copy
  PROVE  Lists(q, f)'
<1>1. CASE Open
  <2>1. Pool(q, f)'
    BY <1>1 DEF Open, Lists, Pool, queueVars
  <2>2. Quiet(q, f)'
    BY <1>1 DEF Open, Lists, Quiet, Serving, queueVars, uartVars, fifoVars
  <2> QED BY <2>1, <2>2 DEF Lists
<1>2. CASE Size
  <2>1. q = <<>> /\ f = <<>> /\ block = NoBlock
    BY <1>2 DEF Size, Lists, Quiet, Serving, Pool
  <2>2. qHead = NoBlock /\ freeHead = NoBlock
    BY <2>1, EmptyList DEF Lists, Pool
  <2>3. qTail = NoBlock
    BY <2>1 DEF Lists, Pool, TailOf
  <2>4. Pool(q, f)'
    BY <1>2, <2>2, <2>3 DEF Size, Lists, Pool
  <2>5. Quiet(q, f)'
    BY <1>2 DEF Size, Lists, Quiet, Serving, uartVars, fifoVars
  <2> QED BY <2>4, <2>5 DEF Lists
<1>3. CASE Made
  <2>1. q = <<>> /\ entry = Len(q)
    BY <1>3 DEF Made, Lists, Quiet, Serving, Pool
  <2>2. entry' = Len(q)
    BY <1>3, <2>1 DEF Made
  <2>3. Pool(q, f)'
    BY <1>3, <2>2 DEF Made, Lists, Pool
  <2> QED BY <1>3, <2>3 DEF Made, Lists, Quiet, Serving
<1>4. CASE Copy
  <2>1. Pool(q, f)'
    BY <1>4 DEF Copy, Lists, Pool, queueVars
  <2> QED BY <1>4, <2>1 DEF Copy, Lists, Quiet, Serving
<1> QED BY <1>1, <1>2, <1>3, <1>4

LEMMA LinkFreeLists ==
  ASSUME Types, NEW q, NEW f, Lists(q, f), LinkFree
  PROVE  Lists(q, f)'
<1>1. PICK b \in todo : next' = [next EXCEPT ![b] = freeHead] /\ block' = b /\ todo' = todo \ {b}
  BY DEF LinkFree
<1>2. q = <<>> /\ todo \cap Elements(f) = {} /\ b \in Blocks /\ tpc = "init" /\ tpc' = "push"
      /\ UNCHANGED <<qHead, qTail, freeHead, entry>>
  BY DEF LinkFree, Lists, Quiet, Serving, Types
<1>3. next \in [Blocks -> Blocks \cup {NoBlock}] /\ freeHead \in Blocks \cup {NoBlock}
  BY AtRange, LenProperties DEF Types, Lists, Pool, ListOf, At
<1>4. q \in Seq(Blocks) /\ f \in Seq(Blocks) /\ ListOf(next, q, qHead) /\ ListOf(next, f, freeHead)
  BY DEF Lists, Pool
<1>5. b \notin Elements(f) /\ b \notin Elements(q) /\ b # NoBlock
  BY <1>2, SerialRxAssumption DEF Elements
<1>6. ListOf(next', q, qHead) /\ ListOf(next', f, freeHead)
  BY <1>1, <1>2, <1>3, <1>4, <1>5, OtherList
<1>7. Pool(q, f)'
  BY <1>1, <1>2, <1>5, <1>6 DEF Lists, Pool
<1>8. next'[block'] = freeHead
  BY <1>1, <1>2, <1>3
<1>9. Quiet(q, f)'
  <2>1. sent' = sent /\ dr' = dr /\ ore' = ore /\ isr' = isr /\ put' = put /\ get' = get
        /\ delivered' = delivered
    BY DEF LinkFree, uartVars, fifoVars
  <2> QED BY <1>1, <1>2, <1>8, <2>1 DEF Lists, Quiet, Serving
<1> QED BY <1>7, <1>9 DEF Lists

LEMMA PushFreeLists ==
  ASSUME Types, NEW q, NEW f, Lists(q, f), PushFree, NEW g, g = <<block>> \o f
  PROVE  Lists(q, g)'
<1>1. tpc = "push" /\ tpc' = "init" /\ freeHead' = block /\ block' = NoBlock
      /\ UNCHANGED <<next, qHead, qTail, entry, todo>>
  BY DEF PushFree
<1>2. q = <<>> /\ todo \cap Elements(f) = {} /\ block \notin todo /\ next[block] = freeHead
  BY <1>1 DEF Lists, Quiet, Serving
<1>3. block \in Blocks /\ block \notin Elements(f)
  BY <1>1 DEF Lists, Pool, Types
<1>4. q \in Seq(Blocks) /\ f \in Seq(Blocks) /\ ListOf(next, q, qHead) /\ ListOf(next, f, freeHead)
      /\ Distinct(q) /\ Distinct(f) /\ next \in [Blocks -> Blocks \cup {NoBlock}]
      /\ entry = Len(q) /\ qTail = TailOf(q)
  BY DEF Lists, Pool, Types
<1>5. ListOf(next, g, block)
  BY <1>2, <1>3, <1>4, PushOnList
<1>6. g \in Seq(Blocks) /\ Distinct(g) /\ Elements(g) = Elements(f) \cup {block}
  BY <1>3, <1>4, PushSeq
<1>7. Elements(q) = {} /\ NoBlock \notin Elements(g)
  BY <1>2, <1>6, LenProperties, SerialRxAssumption DEF Elements
<1>8. Pool(q, g)'
  BY <1>1, <1>4, <1>5, <1>6, <1>7 DEF Pool
<1>9. Quiet(q, g)'
  <2>1. sent' = sent /\ dr' = dr /\ ore' = ore /\ isr' = isr /\ put' = put /\ get' = get
        /\ delivered' = delivered
    BY DEF PushFree, uartVars, fifoVars
  <2>2. todo' \cap Elements(g) = {} /\ block' \notin todo'
    BY <1>1, <1>2, <1>3, <1>6, SerialRxAssumption DEF Types
  <2> QED BY <1>1, <1>2, <2>1, <2>2 DEF Lists, Quiet, Serving
<1> QED BY <1>8, <1>9 DEF Lists

(***************************************************************************)
(* Every variable keeps its type, and every block its place.               *)
(***************************************************************************)
LEMMA TypesStep ==
  ASSUME RingInv, Types, NEW q, NEW f, Lists(q, f), [Next]_vars
  PROVE  Types'
<1> USE DEF fifoVars, uartVars, queueVars, threadVars, historyVars
<1>0. Ring /\ BufSize \in Nat /\ BufSize > 1
  BY SerialRxAssumption DEF RingInv
<1>1. freeHead \in Blocks \cup {NoBlock} /\ qHead \in Blocks \cup {NoBlock}
      /\ qTail \in Blocks \cup {NoBlock}
  <2>1. ASSUME NEW p \in Seq(Blocks) PROVE At(p, 1) \in Blocks \cup {NoBlock}
    BY LenProperties DEF At
  <2>2. TailOf(q) \in Blocks \cup {NoBlock}
    <3>1. q \in Seq(Blocks)
      BY DEF Lists, Pool
    <3> QED BY <3>1, EmptySeq, LenProperties DEF TailOf
  <2> QED BY <2>1, <2>2 DEF Lists, Pool, ListOf
<1>2. CASE Arrive
  <2>1. ore' \in BOOLEAN /\ during' \in Nat
    <3>1. ore' = ore \/ ore' = TRUE
      BY <1>2 DEF Arrive
    <3>2. during' = during + 1 \/ during' = 0
      BY <1>2 DEF Arrive
    <3>3. during' \in Nat
      BY <3>2 DEF Types
    <3>4. ore' \in BOOLEAN
      <4>1. ore \in BOOLEAN
        BY DEF Types
      <4> QED BY <3>1, <4>1
    <3> QED BY <3>3, <3>4
  <2>2. worst' \in Nat
    BY <1>2, <2>1 DEF Arrive, Types
  <2> QED BY <1>2, <2>1, <2>2 DEF Arrive, Types
<1>3. CASE Enter
  BY <1>3 DEF Enter, Types
<1>4. CASE Check
  BY <1>4 DEF Check, Types
<1>5. CASE Read
  <2>1. buffer' \in [0..(BufSize - 1) -> Nat]
    BY <1>0, <1>5 DEF Read, Types, Ring
  <2>2. ore' \in BOOLEAN /\ seen' \in BOOLEAN
    BY <1>5 DEF Read
  <2> QED BY <1>5, <2>1, <2>2 DEF Read, Types
<1>6. CASE Indicate
  <2>0. buffer[get] \in Nat
    BY <1>0 DEF Types, Ring
  <2>1. CASE ~Accepts
    BY <1>6, <2>1 DEF Indicate, MqSend, Types
  <2>2. CASE Accepts
    <3>1. freeHead \in Blocks
      BY <1>1, <2>2 DEF Accepts
    <3>2. next' \in [Blocks -> Blocks \cup {NoBlock}]
      BY <1>6, <2>2, <3>1 DEF Indicate, MqSend, Types
    <3>3. data' \in [Blocks -> Nat]
      BY <1>6, <2>0, <2>2, <3>1 DEF Indicate, MqSend, Types
    <3> QED BY <1>6, <2>2, <3>2, <3>3 DEF Indicate, MqSend, Types
  <2> QED BY <2>1, <2>2
<1>7. CASE Clear
  BY <1>7 DEF Clear, Types
<1>8. CASE Open
  BY <1>8 DEF Open, Types
<1>9. CASE Size
  BY <1>9 DEF Size, Types
<1>10. CASE LinkFree
  <2>1. PICK b \in todo : next' = [next EXCEPT ![b] = freeHead] /\ block' = b /\ todo' = todo \ {b}
    BY <1>10 DEF LinkFree
  <2>2. next' \in [Blocks -> Blocks \cup {NoBlock}] /\ block' \in Blocks /\ todo' \subseteq Blocks
    BY <1>1, <2>1 DEF Types
  <2> QED BY <1>10, <2>2 DEF LinkFree, Types
<1>11. CASE PushFree
  BY <1>11 DEF PushFree, Types
<1>12. CASE Made
  BY <1>12 DEF Made, Types
<1>13. CASE Take
  BY <1>1, <1>13 DEF Take, Types
<1>14. CASE Copy
  <2>1. block \in Blocks
    BY <1>14 DEF Copy, Lists, Pool, Types
  <2>2. delivered' \in Seq(Nat)
    BY <1>14, <2>1 DEF Copy, Types
  <2> QED BY <1>14, <2>2 DEF Copy, Types
<1>15. CASE Return
  <2>1. next' \in [Blocks -> Blocks \cup {NoBlock}]
    BY <1>1, <1>15 DEF Return, Types
  <2> QED BY <1>15, <2>1 DEF Return, Types
<1>16. CASE UNCHANGED vars
  BY <1>16 DEF vars, Types
<1> QED BY <1>2, <1>3, <1>4, <1>5, <1>6, <1>7, <1>8, <1>9, <1>10, <1>11, <1>12, <1>13,
           <1>14, <1>15, <1>16 DEF Next, Handler, Thread

LEMMA ListStep ==
  ASSUME ~Early, ListInv, [Next]_vars
  PROVE  ListInv'
<1>1. PICK q, f : Lists(q, f)
  BY DEF ListInv
<1>2. RingInv' /\ Types'
  BY <1>1, RingStep, TypesStep DEF ListInv
<1>3. \E p, g : Lists(p, g)'
  <2>1. CASE Arrive \/ Enter \/ Check \/ Read \/ Clear
    BY <1>1, <2>1, HandlerLists
  <2>2. CASE Indicate
    <3>1. PICK n : n = freeHead
      OBVIOUS
    <3>2. PICK p : p = Append(q, n)
      OBVIOUS
    <3>3. PICK g : g = Tail(f)
      OBVIOUS
    <3>4. Lists(p, g)' \/ Lists(q, f)'
      BY <1>1, <2>2, <3>1, <3>2, <3>3, IndicateLists DEF ListInv
    <3> QED BY <3>4
  <2>3. CASE Take
    <3>1. PICK p : p = Tail(q)
      OBVIOUS
    <3>2. Lists(p, f)'
      BY <1>1, <2>3, <3>1, TakeLists DEF ListInv
    <3> QED BY <3>2
  <2>4. CASE Return
    <3>1. PICK g : g = <<block>> \o f
      OBVIOUS
    <3>2. Lists(q, g)'
      BY <1>1, <2>4, <3>1, ReturnLists DEF ListInv
    <3> QED BY <3>2
  <2>5. CASE PushFree
    <3>1. PICK g : g = <<block>> \o f
      OBVIOUS
    <3>2. Lists(q, g)'
      BY <1>1, <2>5, <3>1, PushFreeLists DEF ListInv
    <3> QED BY <3>2
  <2>6. CASE LinkFree
    BY <1>1, <2>6, LinkFreeLists DEF ListInv
  <2>7. CASE Open \/ Size \/ Made \/ Copy
    BY <1>1, <2>7, OpenLists DEF ListInv
  <2>8. CASE UNCHANGED vars
    <3>1. Lists(q, f)'
      BY <1>1, <2>8 DEF vars, Lists, Pool, Quiet, Serving, fifoVars, uartVars, queueVars,
                        threadVars
    <3> QED BY <3>1
  <2> QED BY <2>1, <2>2, <2>3, <2>4, <2>5, <2>6, <2>7, <2>8 DEF Next, Handler, Thread
<1> QED BY <1>2, <1>3 DEF ListInv

LEMMA ListInit ==
  ASSUME Init
  PROVE  ListInv
<1>1. Types
  <2>1. next \in [Blocks -> Blocks \cup {NoBlock}] /\ data \in [Blocks -> Nat]
        /\ buffer \in [0..(BufSize - 1) -> Nat]
    BY DEF Init
  <2>2. delivered \in Seq(Nat)
    BY EmptySeq DEF Init
  <2> QED BY <2>1, <2>2 DEF Init, Types
<1>2. Pool(<<>>, <<>>)
  <2>1. <<>> \in Seq(Blocks) /\ Len(<<>>) = 0 /\ Elements(<<>>) = {} /\ Distinct(<<>>)
    BY EmptySeq DEF Elements, Distinct
  <2>2. ListOf(next, <<>>, NoBlock) /\ TailOf(<<>>) = NoBlock
    BY <2>1 DEF ListOf, At, TailOf
  <2> QED BY <2>1, <2>2 DEF Init, Pool
<1>3. Quiet(<<>>, <<>>)
  <2>1. Elements(<<>>) = {}
    BY EmptySeq DEF Elements
  <2> QED BY <2>1, SerialRxAssumption DEF Init, Quiet
<1>4. RingInv
  BY RingInit
<1> QED BY <1>1, <1>2, <1>3, <1>4 DEF ListInv, Lists

\* A block that waits is in the queue once and nowhere else, if the lidar only
\* sends once the queue is made.
THEOREM ListCorrect ==
  ASSUME ~Early
  PROVE  Spec => []ListInv
<1>1. ListInv /\ [Next]_vars => ListInv'
  BY ListStep
<1> QED BY <1>1, ListInit, PTL DEF Spec

\* entry is the number of messages in the queue (rtdef.h 680), if the lidar only
\* sends once rt_mq_init has made it.
THEOREM EntryCountsCorrect ==
  ASSUME ~Early
  PROVE  Spec => []EntryCounts
<1>1. ListInv => EntryCounts
  BY QueueIs DEF ListInv, Lists, Pool, EntryCounts
<1> QED BY <1>1, ListCorrect, PTL

(***************************************************************************)
(* What is under way, place by place.                                      *)
(***************************************************************************)
Copying == IF tpc = "copy" THEN <<data[block]>> ELSE <<>>
DataOf(dt, q) == [k \in 1..Len(q) |-> dt[q[k]]]
Waiting == DataOf(data, Queue)
Slot(x) == x % BufSize
RingOf(bf, g, n) == [k \in 1..n |-> bf[Slot(g + k - 1)]]
Register == IF dr # 0 THEN <<dr>> ELSE <<>>

LEMMA UnderWayIs ==
  /\ UnderWay = ((Copying \o Waiting) \o Backlog) \o Register
  /\ UnderWay' = ((Copying' \o Waiting') \o Backlog') \o Register'
BY DEF UnderWay, Copying, Waiting, DataOf, Register

LEMMA QueueIsNext ==
  ASSUME NEW q, NEW f, Pool(q, f)'
  PROVE  Queue' = q
BY ChainFinds DEF Pool, Queue, Chain, ChainOf

LEMMA DataOfSeq ==
  ASSUME NEW dt \in [Blocks -> Nat], NEW q \in Seq(Blocks)
  PROVE  /\ DataOf(dt, q) \in Seq(Nat) /\ Len(DataOf(dt, q)) = Len(q)
         /\ \A k \in 1..Len(q) : DataOf(dt, q)[k] = dt[q[k]]
<1>1. Len(q) \in Nat /\ \A k \in 1..Len(q) : dt[q[k]] \in Nat
  BY LenProperties
<1> QED BY <1>1 DEF DataOf

\* The contents of a block that is not on the list do not show.
LEMMA DataOfSame ==
  ASSUME NEW dt \in [Blocks -> Nat], NEW q \in Seq(Blocks), NEW n \in Blocks, NEW x \in Nat,
         n \notin Elements(q)
  PROVE  DataOf([dt EXCEPT ![n] = x], q) = DataOf(dt, q)
<1>1. \A k \in 1..Len(q) : q[k] \in Blocks /\ q[k] # n
  BY LenProperties DEF Elements
<1>2. \A k \in 1..Len(q) : [dt EXCEPT ![n] = x][q[k]] = dt[q[k]]
  BY <1>1
<1> QED BY <1>2 DEF DataOf

LEMMA DataOfAppend ==
  ASSUME NEW dt \in [Blocks -> Nat], NEW q \in Seq(Blocks), NEW n \in Blocks
  PROVE  DataOf(dt, Append(q, n)) = Append(DataOf(dt, q), dt[n])
<1> DEFINE p == Append(q, n)
           a == DataOf(dt, p)
           b == Append(DataOf(dt, q), dt[n])
<1>1. p \in Seq(Blocks) /\ Len(p) = Len(q) + 1 /\ p[Len(q) + 1] = n /\ Len(q) \in Nat
      /\ \A k \in 1..Len(q) : p[k] = q[k]
  BY LenProperties
<1>2. DataOf(dt, q) \in Seq(Nat) /\ Len(DataOf(dt, q)) = Len(q)
      /\ \A k \in 1..Len(q) : DataOf(dt, q)[k] = dt[q[k]]
  BY DataOfSeq
<1>3. b \in Seq(Nat) /\ Len(b) = Len(q) + 1 /\ b[Len(q) + 1] = dt[n]
      /\ \A k \in 1..Len(q) : b[k] = dt[q[k]]
  <2> HIDE DEF DataOf
  <2> QED BY <1>2
<1>4. a \in Seq(Nat) /\ Len(a) = Len(q) + 1 /\ \A k \in 1..(Len(q) + 1) : a[k] = dt[p[k]]
  <2> HIDE DEF p
  <2> QED BY <1>1, DataOfSeq
<1> HIDE DEF a, b, p
<1>5. ASSUME NEW k \in 1..Len(a) PROVE a[k] = b[k]
  <2>1. CASE k = Len(q) + 1
    BY <1>1, <1>3, <1>4, <2>1
  <2>2. CASE k # Len(q) + 1
    <3>1. k \in 1..Len(q) /\ k \in 1..(Len(q) + 1)
      BY <1>1, <1>4, <2>2
    <3>2. a[k] = dt[p[k]] /\ p[k] = q[k] /\ b[k] = dt[q[k]]
      BY <1>1, <1>3, <1>4, <3>1
    <3> QED BY <3>2
  <2> QED BY <2>1, <2>2
<1>6. a = b
  BY <1>3, <1>4, <1>5, SeqEqual
<1> QED BY <1>6 DEF a, b, p

LEMMA DataOfTail ==
  ASSUME NEW dt \in [Blocks -> Nat], NEW q \in Seq(Blocks), q # <<>>
  PROVE  /\ DataOf(dt, q) # <<>> /\ Head(DataOf(dt, q)) = dt[q[1]]
         /\ DataOf(dt, Tail(q)) = Tail(DataOf(dt, q))
<1> DEFINE p == Tail(q)
           d == DataOf(dt, q)
           a == DataOf(dt, p)
           b == Tail(d)
<1>1. p \in Seq(Blocks) /\ Len(p) = Len(q) - 1 /\ Len(q) \in Nat \ {0}
      /\ \A k \in 1..(Len(q) - 1) : p[k] = q[k + 1]
  BY HeadTailProperties, EmptySeq
<1>2. d \in Seq(Nat) /\ Len(d) = Len(q) /\ \A k \in 1..Len(q) : d[k] = dt[q[k]]
  BY DataOfSeq
<1>3. a \in Seq(Nat) /\ Len(a) = Len(q) - 1 /\ \A k \in 1..(Len(q) - 1) : a[k] = dt[p[k]]
  <2> HIDE DEF p
  <2> QED BY <1>1, DataOfSeq
<1> HIDE DEF d, a, p
<1>4. d # <<>> /\ Head(d) = dt[q[1]]
  <2>1. d # <<>>
    BY <1>1, <1>2, EmptySeq
  <2>2. Head(d) = d[1]
    BY <1>2, <2>1
  <2> QED BY <1>1, <1>2, <2>1, <2>2
<1>5. b \in Seq(Nat) /\ Len(b) = Len(q) - 1 /\ \A k \in 1..(Len(q) - 1) : b[k] = d[k + 1]
  BY <1>2, <1>4, HeadTailProperties
<1> HIDE DEF b
<1>6. \A k \in 1..(Len(q) - 1) : a[k] = b[k]
  <2> SUFFICES ASSUME NEW k \in 1..(Len(q) - 1) PROVE a[k] = b[k]
    OBVIOUS
  <2>1. PICK j \in 1..Len(q) : j = k + 1
    BY <1>1
  <2>2. d[j] = dt[q[j]] /\ p[k] = q[j] /\ b[k] = d[j]
    BY <1>1, <1>2, <1>5, <2>1
  <2> QED BY <1>3, <2>2
<1>7. a = b
  BY <1>3, <1>5, <1>6, SeqEqual
<1> QED BY <1>4, <1>7 DEF a, b, p, d

LEMMA SlotIs ==
  ASSUME NEW x \in 0..(2 * BufSize - 1)
  PROVE  Slot(x) = (IF x >= BufSize THEN x - BufSize ELSE x) /\ Slot(x) \in 0..(BufSize - 1)
<1>1. BufSize \in Nat /\ BufSize > 1
  BY SerialRxAssumption
<1>2. Slot(x) = IF x >= BufSize THEN x - BufSize ELSE x
  BY WrapMod DEF Slot
<1>3. (IF x >= BufSize THEN x - BufSize ELSE x) \in 0..(BufSize - 1)
  BY <1>1
<1> QED BY <1>2, <1>3

LEMMA RingOfSeq ==
  ASSUME NEW bf \in [0..(BufSize - 1) -> Nat], NEW g \in 0..(BufSize - 1), NEW n \in 0..BufSize
  PROVE  /\ RingOf(bf, g, n) \in Seq(Nat) /\ Len(RingOf(bf, g, n)) = n
         /\ \A k \in 1..n : /\ g + k - 1 \in 0..(2 * BufSize - 1)
                           /\ RingOf(bf, g, n)[k] = bf[Slot(g + k - 1)]
<1>1. BufSize \in Nat /\ BufSize > 1
  BY SerialRxAssumption
<1>2. ASSUME NEW k \in 1..n
      PROVE  g + k - 1 \in 0..(2 * BufSize - 1) /\ bf[Slot(g + k - 1)] \in Nat
  <2>1. PICK x \in 0..(2 * BufSize - 1) : x = g + k - 1
    BY <1>1
  <2>2. bf[Slot(x)] \in Nat
    BY SlotIs
  <2> QED BY <2>1, <2>2
<1>3. n \in Nat
  BY <1>1
<1>4. RingOf(bf, g, n) \in Seq(Nat) /\ Len(RingOf(bf, g, n)) = n
      /\ \A k \in 1..n : RingOf(bf, g, n)[k] = bf[Slot(g + k - 1)]
  <2> DEFINE e(k) == bf[Slot(g + k - 1)]
  <2>1. \A k \in 1..n : e(k) \in Nat
    BY <1>2
  <2>2. RingOf(bf, g, n) = [k \in 1..n |-> e(k)]
    BY DEF RingOf
  <2> HIDE DEF e
  <2>3. [k \in 1..n |-> e(k)] \in Seq(Nat) /\ Len([k \in 1..n |-> e(k)]) = n
    BY <1>3, <2>1
  <2>4. \A k \in 1..n : RingOf(bf, g, n)[k] = e(k)
    BY <2>2
  <2> QED BY <2>2, <2>3, <2>4 DEF e
<1> QED BY <1>2, <1>4

LEMMA BacklogIs ==
  /\ Backlog = RingOf(buffer, get, Count)
  /\ Backlog' = RingOf(buffer', get', Count')
BY DEF Backlog, RingOf, Slot

\* The next byte goes to a place that holds none.
LEMMA PutPlace ==
  ASSUME Ring
  PROVE  /\ get + Count \in 0..(2 * BufSize - 1) /\ Slot(get + Count) = put
         /\ \A k \in 1..Count : Slot(get + k - 1) # put
<1>1. BufSize \in Nat /\ BufSize > 1
  BY SerialRxAssumption
<1>2. put \in 0..(BufSize - 1) /\ get \in 0..(BufSize - 1) /\ full \in BOOLEAN
      /\ (put = get => ~full)
  BY DEF Ring
<1>3. Count = IF put >= get THEN put - get ELSE BufSize - (get - put)
  BY <1>1, <1>2 DEF Count
<1>4. get + Count \in 0..(2 * BufSize - 1)
      /\ get + Count = IF put >= get THEN put ELSE put + BufSize
  BY <1>1, <1>2, <1>3
<1>5. Slot(get + Count) = put
  <2>1. PICK x \in 0..(2 * BufSize - 1) : x = get + Count
    BY <1>4
  <2>2. Slot(x) = IF x >= BufSize THEN x - BufSize ELSE x
    BY SlotIs
  <2>3. Slot(x) = put
    BY <1>1, <1>2, <1>4, <2>1, <2>2
  <2> QED BY <2>1, <2>3
<1>6. ASSUME NEW k \in 1..Count PROVE Slot(get + k - 1) # put
  <2>1. PICK x \in 0..(2 * BufSize - 1) : x = get + k - 1
    BY <1>1, <1>2, <1>3
  <2>2. Slot(x) = IF x >= BufSize THEN x - BufSize ELSE x
    BY SlotIs
  <2>3. Slot(x) # put
    BY <1>1, <1>2, <1>3, <2>1, <2>2
  <2> QED BY <2>1, <2>3
<1> QED BY <1>4, <1>5, <1>6

LEMMA BacklogSeq ==
  ASSUME Ring, Types
  PROVE  /\ Backlog \in Seq(Nat) /\ Len(Backlog) = Count
         /\ \A k \in 1..Count : Backlog[k] = buffer[Slot(get + k - 1)]
<1>1. buffer \in [0..(BufSize - 1) -> Nat] /\ get \in 0..(BufSize - 1) /\ BufSize \in Nat
  BY SerialRxAssumption DEF Ring, Types
<1>2. Count \in 0..BufSize
  BY <1>1, CountRange
<1> QED BY <1>1, <1>2, BacklogIs, RingOfSeq

\* One place on from the oldest byte.
LEMMA NextPlace ==
  ASSUME NEW g \in 0..(BufSize - 1), NEW h, h = (IF g = BufSize - 1 THEN 0 ELSE g + 1),
         NEW k \in 1..(BufSize - 1)
  PROVE  /\ h \in 0..(BufSize - 1)
         /\ h + k - 1 \in 0..(2 * BufSize - 1) /\ g + k \in 0..(2 * BufSize - 1)
         /\ Slot(h + k - 1) = Slot(g + k)
<1>1. BufSize \in Nat /\ BufSize > 1
  BY SerialRxAssumption
<1>2. h \in 0..(BufSize - 1)
  BY <1>1
<1>3. PICK x \in 0..(2 * BufSize - 1) : x = h + k - 1
  BY <1>1, <1>2
<1>4. PICK y \in 0..(2 * BufSize - 1) : y = g + k
  BY <1>1
<1>5. /\ Slot(x) = IF x >= BufSize THEN x - BufSize ELSE x
      /\ Slot(y) = IF y >= BufSize THEN y - BufSize ELSE y
  BY SlotIs
<1>6. Slot(x) = Slot(y)
  BY <1>1, <1>3, <1>4, <1>5
<1> QED BY <1>2, <1>3, <1>4, <1>6

LEMMA BacklogIndicate ==
  ASSUME Ring, Types, Indicate
  PROVE  Backlog # <<>> /\ Head(Backlog) = buffer[get] /\ Backlog' = Tail(Backlog)
<1>1. BufSize \in Nat /\ BufSize > 1 /\ get \in 0..(BufSize - 1)
  BY SerialRxAssumption DEF Ring
<1>2. Count \in 1..(BufSize - 1)
  BY <1>1, CountRange DEF Indicate
<1>3. Backlog \in Seq(Nat) /\ Len(Backlog) = Count
      /\ \A k \in 1..Count : Backlog[k] = buffer[Slot(get + k - 1)]
  BY BacklogSeq
<1>4. Backlog # <<>> /\ Head(Backlog) = Backlog[1]
  BY <1>2, <1>3, EmptySeq
<1>5. Head(Backlog) = buffer[get]
  <2>1. Slot(get) = get
    BY <1>1, SlotIs
  <2>2. Backlog[1] = buffer[Slot(get + 1 - 1)]
    BY <1>2, <1>3
  <2>3. get + 1 - 1 = get
    BY <1>1
  <2> QED BY <1>4, <2>1, <2>2, <2>3
<1>6. buffer' = buffer /\ get' = (IF get = BufSize - 1 THEN 0 ELSE get + 1) /\ Count' = Count - 1
  BY IndicateCounts DEF Indicate
<1>7. PICK n : n = Count - 1
  OBVIOUS
<1>8. PICK h : h = get'
  OBVIOUS
<1>9. n \in 0..BufSize /\ h \in 0..(BufSize - 1)
  BY <1>1, <1>2, <1>6, <1>7, <1>8
<1>10. Backlog' = RingOf(buffer, h, n)
  BY <1>6, <1>7, <1>8, BacklogIs
<1>11. RingOf(buffer, h, n) \in Seq(Nat) /\ Len(RingOf(buffer, h, n)) = n
       /\ \A k \in 1..n : RingOf(buffer, h, n)[k] = buffer[Slot(h + k - 1)]
  BY <1>9, RingOfSeq DEF Types
<1>12. Tail(Backlog) \in Seq(Nat) /\ Len(Tail(Backlog)) = n
       /\ \A k \in 1..n : Tail(Backlog)[k] = Backlog[k + 1]
  BY <1>3, <1>4, <1>7, HeadTailProperties
<1>13. ASSUME NEW k \in 1..n PROVE RingOf(buffer, h, n)[k] = Tail(Backlog)[k]
  <2>1. k \in 1..(BufSize - 1)
    BY <1>1, <1>2, <1>7
  <2>2. Slot(h + k - 1) = Slot(get + k)
    BY <1>1, <1>6, <1>8, <2>1, NextPlace
  <2>3. PICK j \in 1..Count : j = k + 1
    BY <1>2, <1>7
  <2>4. Backlog[j] = buffer[Slot(get + j - 1)]
    BY <1>3
  <2>5. get + j - 1 = get + k
    BY <1>1, <2>3
  <2> QED BY <1>11, <1>12, <2>2, <2>3, <2>4, <2>5
<1>14. RingOf(buffer, h, n) = Tail(Backlog)
  BY <1>11, <1>12, <1>13, SeqEqual
<1> QED BY <1>4, <1>5, <1>10, <1>14

LEMMA BacklogRead ==
  ASSUME Ring, Types, Read
  PROVE  /\ Count # BufSize - 1 => Backlog' = Append(Backlog, dr)
         /\ Count = BufSize - 1 => Backlog # <<>> /\ Backlog' = Append(Tail(Backlog), dr)
<1>1. BufSize \in Nat /\ BufSize > 1 /\ get \in 0..(BufSize - 1) /\ put \in 0..(BufSize - 1)
      /\ buffer \in [0..(BufSize - 1) -> Nat] /\ dr \in Nat
  BY SerialRxAssumption DEF Ring, Types
<1>2. Count \in 0..(BufSize - 1)
  BY CountRange
<1>3. Backlog \in Seq(Nat) /\ Len(Backlog) = Count
      /\ \A k \in 1..Count : Backlog[k] = buffer[Slot(get + k - 1)]
  BY BacklogSeq
<1>4. Count' = (IF Count = BufSize - 1 THEN Count ELSE Count + 1)
      /\ get' = IF Count # BufSize - 1 THEN get ELSE IF get = BufSize - 1 THEN 0 ELSE get + 1
  BY ReadCounts
<1>5. PICK bf : bf = buffer'
  OBVIOUS
<1>6. bf \in [0..(BufSize - 1) -> Nat] /\ bf[put] = dr
      /\ \A i \in 0..(BufSize - 1) : i # put => bf[i] = buffer[i]
  BY <1>1, <1>5 DEF Read
<1>7. PICK c \in 0..(BufSize - 1) : c = Count
  BY <1>2
<1>8. PICK g \in 0..(BufSize - 1) : g = get
  BY <1>1
<1>9. /\ g + c \in 0..(2 * BufSize - 1) /\ Slot(g + c) = put
      /\ \A k \in 1..c : Slot(g + k - 1) # put
  BY <1>7, <1>8, PutPlace
<1>10. \A k \in 1..c : bf[Slot(g + k - 1)] = Backlog[k]
  <2> SUFFICES ASSUME NEW k \in 1..c PROVE bf[Slot(g + k - 1)] = Backlog[k]
    OBVIOUS
  <2>1. PICK x \in 0..(2 * BufSize - 1) : x = g + k - 1
    BY <1>1
  <2>2. Slot(x) \in 0..(BufSize - 1)
    BY SlotIs
  <2>3. Slot(x) # put
    BY <1>9, <2>1
  <2>4. bf[Slot(x)] = buffer[Slot(x)]
    BY <1>6, <2>2, <2>3
  <2>5. Backlog[k] = buffer[Slot(x)]
    BY <1>3, <1>7, <1>8, <2>1
  <2> QED BY <2>1, <2>4, <2>5
<1>11. ASSUME Count # BufSize - 1 PROVE Backlog' = Append(Backlog, dr)
  <2>1. PICK n \in 1..(BufSize - 1) : n = c + 1
    BY <1>1, <1>7, <1>11
  <2>2. Backlog' = RingOf(bf, g, n)
    BY <1>4, <1>5, <1>7, <1>8, <1>11, <2>1, BacklogIs
  <2>3. n \in 0..BufSize
    BY <1>1
  <2>4. RingOf(bf, g, n) \in Seq(Nat) /\ Len(RingOf(bf, g, n)) = n
        /\ \A k \in 1..n : RingOf(bf, g, n)[k] = bf[Slot(g + k - 1)]
    BY <1>6, <2>3, RingOfSeq
  <2>5. Append(Backlog, dr) \in Seq(Nat) /\ Len(Append(Backlog, dr)) = n
        /\ Append(Backlog, dr)[n] = dr
        /\ \A k \in 1..c : Append(Backlog, dr)[k] = Backlog[k]
    BY <1>1, <1>3, <1>7, <2>1
  <2>6. ASSUME NEW k \in 1..n PROVE RingOf(bf, g, n)[k] = Append(Backlog, dr)[k]
    <3>1. CASE k = n
      <4>1. g + k - 1 = g + c
        BY <2>1, <3>1
      <4> QED BY <1>6, <1>9, <2>4, <2>5, <3>1, <4>1
    <3>2. CASE k # n
      <4>1. k \in 1..c
        BY <2>1, <3>2
      <4> QED BY <1>10, <2>4, <2>5, <4>1
    <3> QED BY <3>1, <3>2
  <2> HIDE DEF RingOf
  <2>7. RingOf(bf, g, n) = Append(Backlog, dr)
    BY <2>4, <2>5, <2>6, SeqEqual
  <2> QED BY <2>2, <2>7
<1>12. ASSUME Count = BufSize - 1
       PROVE  Backlog # <<>> /\ Backlog' = Append(Tail(Backlog), dr)
  <2>1. Backlog # <<>>
    BY <1>1, <1>3, <1>12, EmptySeq
  <2>2. Tail(Backlog) \in Seq(Nat) /\ Len(Tail(Backlog)) = c - 1
        /\ \A k \in 1..(c - 1) : Tail(Backlog)[k] = Backlog[k + 1]
    BY <1>3, <1>7, <2>1, HeadTailProperties
  <2>3. c = BufSize - 1 /\ c \in 1..(BufSize - 1) /\ c \in 0..BufSize
    BY <1>1, <1>7, <1>12
  <2>4. PICK h : h = IF g = BufSize - 1 THEN 0 ELSE g + 1
    OBVIOUS
  <2>5. h \in 0..(BufSize - 1) /\ \A k \in 1..c : Slot(h + k - 1) = Slot(g + k)
    BY <2>3, <2>4, NextPlace
  <2>6. Backlog' = RingOf(bf, h, c)
    BY <1>4, <1>5, <1>7, <1>8, <1>12, <2>4, BacklogIs
  <2>7. RingOf(bf, h, c) \in Seq(Nat) /\ Len(RingOf(bf, h, c)) = c
        /\ \A k \in 1..c : RingOf(bf, h, c)[k] = bf[Slot(h + k - 1)]
    BY <1>6, <2>3, <2>5, RingOfSeq
  <2>8. Append(Tail(Backlog), dr) \in Seq(Nat) /\ Len(Append(Tail(Backlog), dr)) = c
        /\ Append(Tail(Backlog), dr)[c] = dr
        /\ \A k \in 1..(c - 1) : Append(Tail(Backlog), dr)[k] = Tail(Backlog)[k]
    BY <1>1, <2>2, <2>3
  <2>9. ASSUME NEW k \in 1..c PROVE RingOf(bf, h, c)[k] = Append(Tail(Backlog), dr)[k]
    <3>1. RingOf(bf, h, c)[k] = bf[Slot(g + k)]
      BY <2>5, <2>7
    <3>2. CASE k = c
      BY <1>6, <1>9, <2>8, <3>1, <3>2
    <3>3. CASE k # c
      <4>1. k \in 1..(c - 1)
        BY <2>3, <3>3
      <4>2. PICK j \in 1..c : j = k + 1
        BY <2>3, <4>1
      <4>3. g + j - 1 = g + k
        BY <1>1, <4>2
      <4>4. bf[Slot(g + k)] = Backlog[j]
        BY <1>10, <4>3
      <4> QED BY <2>2, <2>8, <3>1, <4>1, <4>2, <4>4
    <3> QED BY <3>2, <3>3
  <2>10. RingOf(bf, h, c) = Append(Tail(Backlog), dr)
    BY <2>7, <2>8, <2>9, SeqEqual
  <2> QED BY <2>1, <2>6, <2>10
<1> QED BY <1>11, <1>12

(***************************************************************************)
(* Sequences in four pieces.                                               *)
(***************************************************************************)
LEMMA FirstApart ==
  ASSUME NEW S, NEW s \in Seq(S), s # <<>>
  PROVE  s = <<Head(s)>> \o Tail(s) /\ Head(s) \in S /\ Tail(s) \in Seq(S)
<1>1. Head(s) \in S /\ Tail(s) \in Seq(S) /\ Len(Tail(s)) = Len(s) - 1
      /\ \A i \in 1..(Len(s) - 1) : Tail(s)[i] = s[i + 1]
  BY HeadTailProperties
<1>2. Head(s) = s[1] /\ Len(s) \in Nat \ {0}
  BY EmptySeq
<1>3. PICK h : h = Head(s)
  OBVIOUS
<1>4. PICK t : t = Tail(s)
  OBVIOUS
<1>5. <<h>> \o t \in Seq(S) /\ Len(<<h>> \o t) = Len(s) /\ (<<h>> \o t)[1] = h
      /\ \A k \in 1..Len(t) : (<<h>> \o t)[k + 1] = t[k]
  BY <1>1, <1>2, <1>3, <1>4, PushSeq
<1>6. PICK p : p = <<h>> \o t
  OBVIOUS
<1>7. ASSUME NEW k \in 1..Len(s) PROVE s[k] = p[k]
  <2>1. CASE k = 1
    BY <1>2, <1>3, <1>5, <1>6, <2>1
  <2>2. CASE k # 1
    <3>1. PICK j \in 1..(Len(s) - 1) : k = j + 1
      <4>1. k - 1 \in 1..(Len(s) - 1) /\ k = (k - 1) + 1
        BY <1>2, <2>2
      <4> QED BY <4>1
    <3>2. p[j + 1] = t[j] /\ t[j] = s[j + 1]
      BY <1>1, <1>4, <1>5, <1>6
    <3> QED BY <3>1, <3>2
  <2> QED BY <2>1, <2>2
<1>8. s = p
  BY <1>5, <1>6, <1>7, SeqEqual
<1> QED BY <1>1, <1>3, <1>4, <1>6, <1>8

\* The solver sees at most three of them at a time.
Assoc(a, b, c) == (a \o b) \o c = a \o (b \o c)

LEMMA IsAssoc ==
  ASSUME NEW S, NEW a \in Seq(S), NEW b \in Seq(S), NEW c \in Seq(S)
  PROVE  Assoc(a, b, c)
BY ConcatAssociative DEF Assoc

Joined(s, a, b) ==
  /\ Len(s) = Len(a) + Len(b)
  /\ \A i \in 1..(Len(a) + Len(b)) : s[i] = IF i <= Len(a) THEN a[i] ELSE b[i - Len(a)]

LEMMA IsJoined ==
  ASSUME NEW S, NEW a \in Seq(S), NEW b \in Seq(S)
  PROVE  a \o b \in Seq(S) /\ Joined(a \o b, a, b)
BY ConcatProperties DEF Joined

LEMMA OneSeq ==
  ASSUME NEW S, NEW x \in S
  PROVE  <<x>> \in Seq(S) /\ Len(<<x>>) = 1 /\ <<x>>[1] = x /\ <<x>> # <<>>
OBVIOUS

\* What is left when one byte is lost from the middle of the line.
LEMMA DropAt ==
  ASSUME NEW S, NEW a \in Seq(S), NEW x \in S, NEW b \in Seq(S)
  PROVE  /\ Len(a) + 1 \in DOMAIN ((a \o <<x>>) \o b)
         /\ Line!Without((a \o <<x>>) \o b, Len(a) + 1) = a \o b
<1>1. Len(a) \in Nat /\ Len(b) \in Nat
  BY LenProperties
<1>2. <<x>> \in Seq(S) /\ Len(<<x>>) = 1 /\ <<x>>[1] = x
  BY OneSeq
<1>3. PICK p : p = a \o <<x>>
  OBVIOUS
<1>4. p \in Seq(S) /\ Len(p) = Len(a) + 1
      /\ \A i \in 1..Len(a) : p[i] = a[i]
  BY <1>1, <1>2, <1>3, ConcatProperties
<1>5. PICK s : s = p \o b
  OBVIOUS
<1>6. s \in Seq(S) /\ Len(s) = Len(a) + 1 + Len(b)
      /\ \A i \in 1..(Len(a) + 1 + Len(b)) : s[i] = IF i <= Len(a) + 1 THEN p[i] ELSE b[i - (Len(a) + 1)]
  <2>1. s \in Seq(S) /\ Joined(s, p, b)
    BY <1>4, <1>5, IsJoined
  <2> QED BY <1>4, <2>1 DEF Joined
<1>7. PICK t : t = a \o b
  OBVIOUS
<1>8. t \in Seq(S) /\ Len(t) = Len(a) + Len(b)
      /\ \A i \in 1..(Len(a) + Len(b)) : t[i] = IF i <= Len(a) THEN a[i] ELSE b[i - Len(a)]
  BY <1>1, <1>7, ConcatProperties
<1>9. PICK m \in Nat : m = Len(a)
  BY <1>1
<1>10. PICK n \in Nat : n = Len(b)
  BY <1>1
<1>11. Line!Without(s, m + 1) = [k \in 1..(m + n) |-> IF k < m + 1 THEN s[k] ELSE s[k + 1]]
  <2>1. Len(s) - 1 = m + n
    BY <1>6, <1>9, <1>10
  <2> QED BY <2>1 DEF Line!Without
<1>12. ASSUME NEW k \in 1..(m + n)
       PROVE  (IF k < m + 1 THEN s[k] ELSE s[k + 1]) = t[k]
  <2>1. CASE k < m + 1
    <3>1. k \in 1..m /\ k <= m + 1 /\ k \in 1..(m + 1 + n)
      BY <2>1
    <3>2. s[k] = p[k] /\ p[k] = a[k] /\ t[k] = a[k]
      BY <1>4, <1>6, <1>8, <1>9, <1>10, <3>1
    <3> QED BY <2>1, <3>2
  <2>2. CASE ~(k < m + 1)
    <3>1. PICK j \in 1..(m + 1 + n) : j = k + 1
      OBVIOUS
    <3>2. ~(j <= m + 1) /\ j - (m + 1) = k - m /\ ~(k <= m)
      BY <2>2, <3>1
    <3>3. s[j] = b[k - m] /\ t[k] = b[k - m]
      BY <1>6, <1>8, <1>9, <1>10, <3>2
    <3> QED BY <2>2, <3>1, <3>3
  <2> QED BY <2>1, <2>2
<1>13. t = [k \in 1..(m + n) |-> t[k]]
  BY <1>8, <1>9, <1>10, LenProperties
<1>14. Line!Without(s, m + 1) = t
  BY <1>11, <1>12, <1>13
<1>15. m + 1 \in DOMAIN s
  <2>1. DOMAIN s = 1..Len(s)
    BY <1>6, LenProperties
  <2> QED BY <1>6, <1>9, <1>10, <2>1
<1> QED BY <1>3, <1>5, <1>7, <1>9, <1>14, <1>15

\* The last of the line steps into the buffer.
LEMMA StepIn ==
  ASSUME NEW S, NEW a \in Seq(S), NEW b \in Seq(S), NEW x \in S
  PROVE  /\ (a \o b) \o <<x>> = (a \o Append(b, x)) \o <<>>
         /\ a \o Append(b, x) \in Seq(S)
<1>1. <<x>> \in Seq(S)
  BY OneSeq
<1>2. Append(b, x) = b \o <<x>> /\ Append(b, x) \in Seq(S)
  BY AppendIsConcat
<1>3. (a \o b) \o <<x>> = a \o (b \o <<x>>)
  BY <1>1, ConcatAssociative
<1>4. a \o Append(b, x) \in Seq(S)
  BY <1>2, ConcatProperties
<1>5. (a \o Append(b, x)) \o <<>> = a \o Append(b, x)
  BY <1>4, ConcatEmptySeq
<1> QED BY <1>2, <1>3, <1>4, <1>5

\* One byte passes from the front of one piece to the end of the piece before.
Passes(c, w, b, r) == ((c \o w) \o b) \o r = ((c \o Append(w, Head(b))) \o Tail(b)) \o r

LEMMA PassOn ==
  ASSUME NEW S, NEW c \in Seq(S), NEW w \in Seq(S), NEW b \in Seq(S), NEW r \in Seq(S),
         b # <<>>
  PROVE  Passes(c, w, b, r)
<1>1. PICK h \in S : h = Head(b)
  BY FirstApart
<1>2. PICK t \in Seq(S) : t = Tail(b)
  BY FirstApart
<1>3. PICK e \in Seq(S) : e = <<h>>
  BY OneSeq
<1>4. b = e \o t
  BY <1>1, <1>2, <1>3, FirstApart
<1>5. PICK a \in Seq(S) : a = c \o w
  BY ConcatProperties
<1>6. Assoc(a, e, t) /\ Assoc(c, w, e)
  BY IsAssoc
<1>7. w \o e = Append(w, h)
  BY <1>3, AppendIsConcat
<1>8. a \o (e \o t) = (a \o e) \o t /\ a \o e = c \o (w \o e)
  BY ONLY <1>5, <1>6 DEF Assoc
<1> QED BY ONLY <1>1, <1>2, <1>4, <1>5, <1>7, <1>8 DEF Passes

\* The oldest of the buffer is lost.
Loses(a, b, r) ==
  \E j \in DOMAIN ((a \o b) \o r) :
     (a \o Tail(b)) \o r = Line!Without((a \o b) \o r, j)

LEMMA LoseFirst ==
  ASSUME NEW S, NEW a \in Seq(S), NEW b \in Seq(S), NEW r \in Seq(S), b # <<>>
  PROVE  Loses(a, b, r)
<1>1. PICK h \in S : h = Head(b)
  BY FirstApart
<1>2. PICK t \in Seq(S) : t = Tail(b)
  BY FirstApart
<1>3. PICK e \in Seq(S) : e = <<h>>
  BY OneSeq
<1>4. b = e \o t
  BY <1>1, <1>2, <1>3, FirstApart
<1>5. PICK u \in Seq(S) : u = t \o r
  BY ConcatProperties
<1>6. PICK v \in Seq(S) : v = a \o e
  BY ConcatProperties
<1>7. Assoc(a, e, t) /\ Assoc(v, t, r) /\ Assoc(a, t, r)
  BY IsAssoc
<1>8. a \o (e \o t) = v \o t /\ (v \o t) \o r = v \o u /\ (a \o t) \o r = a \o u
  BY ONLY <1>5, <1>6, <1>7 DEF Assoc
<1>9. (a \o b) \o r = (a \o <<h>>) \o u
  BY ONLY <1>3, <1>4, <1>6, <1>8
<1>10. (a \o t) \o r = a \o u
  BY <1>8
<1>11. /\ Len(a) + 1 \in DOMAIN ((a \o <<h>>) \o u)
       /\ Line!Without((a \o <<h>>) \o u, Len(a) + 1) = a \o u
  BY DropAt
<1> QED BY <1>2, <1>9, <1>10, <1>11 DEF Loses

\* The newest of the line is lost.
LEMMA LoseLast ==
  ASSUME NEW S, NEW a \in Seq(S), NEW x \in S
  PROVE  \E j \in DOMAIN (a \o <<x>>) : a \o <<>> = Line!Without(a \o <<x>>, j)
<1>1. PICK e \in Seq(S) : e = <<>>
  BY EmptySeq
<1>2. a \o <<x>> \in Seq(S)
  BY OneSeq, ConcatProperties
<1>3. (a \o <<x>>) \o e = a \o <<x>>
  BY <1>1, <1>2, ConcatEmptySeq
<1>4. /\ Len(a) + 1 \in DOMAIN ((a \o <<x>>) \o e)
      /\ Line!Without((a \o <<x>>) \o e, Len(a) + 1) = a \o e
  BY DropAt
<1> QED BY <1>1, <1>3, <1>4

\* The oldest of the line comes out.
Delivers(x, old, new, S) ==
  /\ old # <<>> /\ Head(old) = x /\ Tail(old) = new
  /\ old = <<x>> \o new /\ new \in Seq(S)

LEMMA ComesOut ==
  ASSUME NEW S, NEW x \in S, NEW w \in Seq(S), NEW b \in Seq(S), NEW r \in Seq(S)
  PROVE  Delivers(x, ((<<x>> \o w) \o b) \o r, ((<<>> \o w) \o b) \o r, S)
<1>1. <<x>> \in Seq(S) /\ <<>> \o w = w /\ w \o b \in Seq(S)
  BY OneSeq, ConcatEmptySeq, ConcatProperties
<1>2. PICK n : n = (w \o b) \o r
  OBVIOUS
<1>3. n \in Seq(S) /\ n = ((<<>> \o w) \o b) \o r
  BY <1>1, <1>2, ConcatProperties
<1>4. (<<x>> \o w) \o b = <<x>> \o (w \o b)
  BY <1>1, ConcatAssociative
<1>5. (<<x>> \o (w \o b)) \o r = <<x>> \o ((w \o b) \o r)
  BY <1>1, ConcatAssociative
<1>6. ((<<x>> \o w) \o b) \o r = <<x>> \o n
  BY <1>2, <1>4, <1>5
<1>7. PICK o : o = <<x>> \o n
  OBVIOUS
<1>8. o \in Seq(S) /\ Len(o) = Len(n) + 1 /\ o[1] = x /\ Len(n) \in Nat
      /\ \A k \in 1..Len(n) : o[k + 1] = n[k]
  BY <1>3, <1>7, PushSeq, LenProperties
<1>9. o # <<>> /\ Head(o) = x
  <2>1. o # <<>>
    BY <1>8, EmptySeq
  <2> QED BY <1>8, <2>1
<1>10. Tail(o) \in Seq(S) /\ Len(Tail(o)) = Len(n) /\ \A i \in 1..Len(n) : Tail(o)[i] = o[i + 1]
  BY <1>8, <1>9, HeadTailProperties
<1>11. Tail(o) = n
  BY <1>3, <1>8, <1>10, SeqEqual
<1> QED BY ONLY <1>3, <1>6, <1>7, <1>9, <1>11 DEF Delivers

(***************************************************************************)
(* What each step does to the line.                                        *)
(***************************************************************************)
LEMMA Pieces ==
  ASSUME ListInv
  PROVE  /\ Copying \in Seq(Nat) /\ Waiting \in Seq(Nat) /\ Backlog \in Seq(Nat)
         /\ Register \in Seq(Nat) /\ Copying \o Waiting \in Seq(Nat)
         /\ (Copying \o Waiting) \o Backlog \in Seq(Nat) /\ UnderWay \in Seq(Nat)
<1>1. PICK q, f : Lists(q, f)
  BY DEF ListInv
<1>2. Types /\ Ring
  BY DEF ListInv, RingInv
<1>3. Copying \in Seq(Nat)
  <2>1. CASE tpc = "copy"
    <3>1. data[block] \in Nat
      BY <1>1, <1>2, <2>1 DEF Lists, Pool, Types
    <3> QED BY <2>1, <3>1, OneSeq DEF Copying
  <2>2. CASE tpc # "copy"
    BY <2>2, EmptySeq DEF Copying
  <2> QED BY <2>1, <2>2
<1>4. Waiting \in Seq(Nat)
  <2>1. Queue = q /\ q \in Seq(Blocks)
    BY <1>1, QueueIs DEF Lists, Pool
  <2> QED BY <1>2, <2>1, DataOfSeq DEF Waiting, Types
<1>5. Backlog \in Seq(Nat)
  BY <1>2, BacklogSeq
<1>6. Register \in Seq(Nat)
  <2>1. CASE dr # 0
    BY <1>2, <2>1, OneSeq DEF Register, Ring
  <2>2. CASE dr = 0
    BY <2>2, EmptySeq DEF Register
  <2> QED BY <2>1, <2>2
<1>7. Copying \o Waiting \in Seq(Nat)
  BY <1>3, <1>4, IsJoined
<1>8. (Copying \o Waiting) \o Backlog \in Seq(Nat)
  BY <1>5, <1>7, IsJoined
<1>9. UnderWay \in Seq(Nat)
  BY <1>6, <1>8, IsJoined, UnderWayIs
<1> QED BY <1>3, <1>4, <1>5, <1>6, <1>7, <1>8, <1>9

LEMMA WaitingSame ==
  ASSUME NEW q, NEW f, NEW g, Lists(q, f), Lists(q, g)', data' = data
  PROVE  Waiting' = Waiting
<1>1. Queue = q /\ Queue' = q
  BY QueueIs, QueueIsNext DEF Lists
<1> QED BY <1>1 DEF Waiting

LEMMA BacklogSame ==
  ASSUME UNCHANGED fifoVars
  PROVE  Backlog' = Backlog /\ Count' = Count
BY DEF fifoVars, Backlog, Count

LEMMA LineKept ==
  ASSUME ~Early, ListInv,
         \/ Enter \/ Check \/ UNCHANGED vars
         \/ Open \/ Size \/ LinkFree \/ PushFree \/ Made \/ Return
  PROVE  UnderWay' = UnderWay /\ sent' = sent /\ delivered' = delivered
<1>1. PICK q, f : Lists(q, f)
  BY DEF ListInv
<1>2. \E g : Lists(q, g)'
  <2>1. CASE Enter \/ Check
    BY <1>1, <2>1, HandlerLists
  <2>2. CASE UNCHANGED vars
    BY <1>1, <2>2 DEF vars, Lists, Pool, Quiet, Serving, fifoVars, uartVars, queueVars, threadVars
  <2>3. CASE Open \/ Size \/ Made
    BY <1>1, <2>3, OpenLists DEF ListInv
  <2>4. CASE LinkFree
    BY <1>1, <2>4, LinkFreeLists DEF ListInv
  <2>5. CASE PushFree
    <3>1. PICK g : g = <<block>> \o f
      OBVIOUS
    <3>2. Lists(q, g)'
      BY <1>1, <2>5, <3>1, PushFreeLists DEF ListInv
    <3> QED BY <3>2
  <2>6. CASE Return
    <3>1. PICK g : g = <<block>> \o f
      OBVIOUS
    <3>2. Lists(q, g)'
      BY <1>1, <2>6, <3>1, ReturnLists DEF ListInv
    <3> QED BY <3>2
  <2> QED BY <2>1, <2>2, <2>3, <2>4, <2>5, <2>6
<1>3. data' = data /\ UNCHANGED fifoVars /\ dr' = dr /\ sent' = sent /\ delivered' = delivered
      /\ ((tpc' = tpc /\ block' = block) \/ (tpc # "copy" /\ tpc' # "copy"))
  <2>1. CASE Enter \/ Check
    <3>1. UNCHANGED <<data, dr, sent, delivered, tpc, block>>
      BY <2>1 DEF Enter, Check, uartVars, queueVars, threadVars
    <3>2. UNCHANGED fifoVars
      BY <2>1 DEF Enter, Check
    <3> QED BY <3>1, <3>2
  <2>4. CASE UNCHANGED vars
    <3>1. UNCHANGED <<data, dr, sent, delivered, tpc, block>>
      BY <2>4 DEF vars, uartVars, queueVars, threadVars
    <3>2. UNCHANGED fifoVars
      BY <2>4 DEF vars
    <3> QED BY <3>1, <3>2
  <2>2. CASE Open \/ Size
    BY <2>2 DEF Open, Size, uartVars, queueVars
  <2>3. CASE LinkFree \/ PushFree \/ Made \/ Return
    BY <2>3 DEF LinkFree, PushFree, Made, Return, uartVars
  <2> QED BY <2>1, <2>2, <2>3, <2>4
<1>4. Waiting' = Waiting
  BY <1>1, <1>2, <1>3, WaitingSame
<1>5. Backlog' = Backlog
  BY <1>3, BacklogSame
<1>6. Copying' = Copying /\ Register' = Register
  BY <1>3 DEF Copying, Register
<1> QED BY <1>3, <1>4, <1>5, <1>6, UnderWayIs

LEMMA LineArrive ==
  ASSUME ~Early, ListInv, Arrive
  PROVE  /\ sent < MaxBytes /\ sent' = sent + 1 /\ delivered' = delivered
         /\ dr = 0 => UnderWay' = Append(UnderWay, sent')
         /\ dr # 0 => UnderWay' = UnderWay
<1>1. PICK q, f : Lists(q, f)
  BY DEF ListInv
<1>2. Lists(q, f)'
  BY <1>1, HandlerLists
<1>3. data' = data /\ UNCHANGED fifoVars /\ sent < MaxBytes /\ sent' = sent + 1
      /\ delivered' = delivered /\ tpc' = tpc /\ block' = block
      /\ (dr = 0 => dr' = sent') /\ (dr # 0 => dr' = dr)
  BY DEF Arrive, queueVars, threadVars
<1>4. Waiting' = Waiting /\ Backlog' = Backlog /\ Copying' = Copying
  BY <1>1, <1>2, <1>3, WaitingSame, BacklogSame DEF Copying
<1>5. PICK a \in Seq(Nat) : a = (Copying \o Waiting) \o Backlog
  BY Pieces
<1>6. UnderWay = a \o Register /\ UnderWay' = a \o Register'
  BY <1>4, <1>5, UnderWayIs
<1>7. ASSUME dr = 0 PROVE UnderWay' = Append(UnderWay, sent')
  <2>1. sent' \in Nat /\ sent' # 0
    BY <1>3 DEF ListInv, RingInv, Ring
  <2>2. Register = <<>> /\ Register' = <<sent'>>
    BY <1>3, <1>7, <2>1 DEF Register
  <2>3. UnderWay = a
    BY <1>6, <2>2, ConcatEmptySeq
  <2>4. UnderWay' = Append(a, sent')
    BY <1>6, <2>1, <2>2, AppendIsConcat
  <2> QED BY <2>3, <2>4
<1>8. ASSUME dr # 0 PROVE UnderWay' = UnderWay
  BY <1>3, <1>6, <1>8 DEF Register
<1> QED BY <1>3, <1>7, <1>8

LEMMA LineRead ==
  ASSUME ~Early, ListInv, Read
  PROVE  /\ sent' = sent /\ delivered' = delivered
         /\ Count # BufSize - 1 => UnderWay' = UnderWay
         /\ Count = BufSize - 1 => \E j \in DOMAIN UnderWay : UnderWay' = Line!Without(UnderWay, j)
<1>1. PICK q, f : Lists(q, f)
  BY DEF ListInv
<1>2. Lists(q, f)'
  BY <1>1, HandlerLists
<1>3. data' = data /\ sent' = sent /\ delivered' = delivered /\ tpc' = tpc /\ block' = block
      /\ dr' = 0
  BY DEF Read, queueVars, threadVars
<1>4. Waiting' = Waiting /\ Copying' = Copying
  BY <1>1, <1>2, <1>3, WaitingSame DEF Copying
<1>5. dr \in Nat /\ dr # 0
  BY DEF Read, ListInv, RingInv, Ring, Behind
<1>6. Register = <<dr>> /\ Register' = <<>>
  BY <1>3, <1>5 DEF Register
<1>7. PICK a \in Seq(Nat) : a = Copying \o Waiting
  BY Pieces
<1>8. PICK b \in Seq(Nat) : b = Backlog
  BY Pieces
<1>9. UnderWay = (a \o b) \o <<dr>> /\ UnderWay' = (a \o Backlog') \o <<>>
  BY <1>4, <1>6, <1>7, <1>8, UnderWayIs
<1>10. Ring /\ Types
  BY DEF ListInv, RingInv
<1>11. ASSUME Count # BufSize - 1 PROVE UnderWay' = UnderWay
  <2>1. Backlog' = Append(b, dr)
    BY <1>8, <1>10, <1>11, BacklogRead
  <2> QED BY <1>5, <1>9, <2>1, StepIn
<1>12. ASSUME Count = BufSize - 1
       PROVE  \E j \in DOMAIN UnderWay : UnderWay' = Line!Without(UnderWay, j)
  <2>1. b # <<>> /\ Backlog' = Append(Tail(b), dr)
    BY <1>8, <1>10, <1>12, BacklogRead
  <2>2. PICK t \in Seq(Nat) : t = Tail(b)
    BY <2>1, FirstApart
  <2>3. (a \o t) \o <<dr>> = (a \o Append(t, dr)) \o <<>>
    BY <1>5, StepIn
  <2>4. PICK r \in Seq(Nat) : r = <<dr>>
    BY <1>5, OneSeq
  <2>5. Loses(a, b, r)
    BY <2>1, LoseFirst
  <2> QED BY ONLY <1>9, <2>1, <2>2, <2>3, <2>4, <2>5 DEF Loses
<1> QED BY <1>3, <1>11, <1>12

LEMMA LineIndicate ==
  ASSUME ~Early, ListInv, Indicate
  PROVE  /\ sent' = sent /\ delivered' = delivered
         /\ Accepts => UnderWay' = UnderWay
         /\ ~Accepts => refused' /\ \E j \in DOMAIN UnderWay : UnderWay' = Line!Without(UnderWay, j)
<1>1. PICK q, f : Lists(q, f)
  BY DEF ListInv
<1>2. sent' = sent /\ delivered' = delivered /\ tpc' = tpc /\ block' = block /\ dr' = dr
  BY DEF Indicate, uartVars, threadVars
<1>3. Ring /\ Types
  BY DEF ListInv, RingInv
<1>4. Register' = Register
  BY <1>2 DEF Register
<1>5. PICK c \in Seq(Nat) : c = Copying
  BY Pieces
<1>6. PICK w \in Seq(Nat) : w = Waiting
  BY Pieces
<1>7. PICK b \in Seq(Nat) : b = Backlog
  BY Pieces
<1>8. PICK r \in Seq(Nat) : r = Register
  BY Pieces
<1>9. b # <<>> /\ Head(b) = buffer[get] /\ Backlog' = Tail(b)
  BY <1>3, <1>7, BacklogIndicate
<1>10. UnderWay = ((c \o w) \o b) \o r
       /\ UnderWay' = ((Copying' \o Waiting') \o Tail(b)) \o r
  BY <1>4, <1>5, <1>6, <1>7, <1>8, <1>9, UnderWayIs
<1>11. PICK n : n = freeHead
  OBVIOUS
<1>12. PICK p : p = Append(q, n)
  OBVIOUS
<1>13. PICK g : g = Tail(f)
  OBVIOUS
<1>14. /\ Accepts => n \in Blocks /\ n \notin Elements(q) /\ n # block /\ Lists(p, g)'
       /\ ~Accepts => Lists(q, f)'
  BY <1>1, <1>3, <1>11, <1>12, <1>13, IndicateLists
<1>15. ASSUME Accepts PROVE UnderWay' = UnderWay
  <2>1. q \in Seq(Blocks) /\ Queue = q /\ Queue' = p
    BY <1>1, <1>14, <1>15, QueueIs, QueueIsNext DEF Lists, Pool
  <2>2. PICK h \in Nat : h = Head(b)
    BY <1>9, FirstApart
  <2>3. PICK dt : dt = data'
    OBVIOUS
  <2>4. dt = [data EXCEPT ![n] = h] /\ data \in [Blocks -> Nat]
    BY <1>3, <1>9, <1>11, <1>15, <2>2, <2>3 DEF Indicate, MqSend, Types
  <2>5. dt \in [Blocks -> Nat] /\ dt[n] = h
    BY <1>14, <1>15, <2>4
  <2>6. DataOf(dt, q) = DataOf(data, q)
    BY <1>14, <1>15, <2>1, <2>4, DataOfSame
  <2>7. DataOf(dt, p) = Append(DataOf(dt, q), h)
    BY <1>12, <1>14, <1>15, <2>1, <2>5, DataOfAppend
  <2>8. Waiting' = Append(w, h)
    BY <1>6, <2>1, <2>3, <2>6, <2>7 DEF Waiting
  <2>9. Copying' = c
    <3>1. CASE tpc = "copy"
      <4>1. block \in Blocks /\ block # n
        BY <1>1, <1>3, <1>14, <1>15, <3>1 DEF Lists, Pool, Types
      <4>2. dt[block] = data[block]
        BY <2>4, <4>1
      <4> QED BY <1>2, <1>5, <2>3, <3>1, <4>2 DEF Copying
    <3>2. CASE tpc # "copy"
      BY <1>2, <1>5, <3>2 DEF Copying
    <3> QED BY <3>1, <3>2
  <2>10. Passes(c, w, b, r)
    BY <1>9, PassOn
  <2> QED BY ONLY <1>10, <2>2, <2>8, <2>9, <2>10 DEF Passes
<1>16. ASSUME ~Accepts
       PROVE  refused' /\ \E j \in DOMAIN UnderWay : UnderWay' = Line!Without(UnderWay, j)
  <2>1. refused' = TRUE /\ data' = data
    BY <1>16 DEF Indicate, MqSend
  <2>2. Waiting' = w /\ Copying' = c
    BY <1>1, <1>2, <1>5, <1>6, <1>14, <1>16, <2>1, WaitingSame DEF Copying
  <2>3. PICK a \in Seq(Nat) : a = c \o w
    BY IsJoined
  <2>4. Loses(a, b, r)
    BY <1>9, LoseFirst
  <2> QED BY ONLY <1>10, <2>1, <2>2, <2>3, <2>4 DEF Loses
<1> QED BY <1>2, <1>15, <1>16

LEMMA LineClear ==
  ASSUME ~Early, ListInv, Clear
  PROVE  /\ sent' = sent /\ delivered' = delivered
         /\ dr = 0 => UnderWay' = UnderWay
         /\ dr # 0 => \E j \in DOMAIN UnderWay : UnderWay' = Line!Without(UnderWay, j)
<1>1. PICK q, f : Lists(q, f)
  BY DEF ListInv
<1>2. Lists(q, f)'
  BY <1>1, HandlerLists
<1>3. data' = data /\ UNCHANGED fifoVars /\ sent' = sent /\ delivered' = delivered
      /\ tpc' = tpc /\ block' = block /\ dr' = 0
  BY DEF Clear, queueVars, threadVars
<1>4. Waiting' = Waiting /\ Backlog' = Backlog /\ Copying' = Copying /\ Register' = <<>>
  BY <1>1, <1>2, <1>3, WaitingSame, BacklogSame DEF Copying, Register
<1>5. PICK a \in Seq(Nat) : a = (Copying \o Waiting) \o Backlog
  BY Pieces
<1>6. UnderWay = a \o Register /\ UnderWay' = a \o <<>>
  BY <1>4, <1>5, UnderWayIs
<1>7. ASSUME dr = 0 PROVE UnderWay' = UnderWay
  BY <1>6, <1>7 DEF Register
<1>8. ASSUME dr # 0 PROVE \E j \in DOMAIN UnderWay : UnderWay' = Line!Without(UnderWay, j)
  <2>1. dr \in Nat /\ Register = <<dr>>
    BY <1>8 DEF Register, ListInv, RingInv, Ring
  <2> QED BY <1>6, <2>1, LoseLast
<1> QED BY <1>3, <1>7, <1>8

LEMMA LineTake ==
  ASSUME ~Early, ListInv, Take
  PROVE  sent' = sent /\ delivered' = delivered /\ UnderWay' = UnderWay
<1>1. PICK q, f : Lists(q, f)
  BY DEF ListInv
<1>2. PICK p : p = Tail(q)
  OBVIOUS
<1>3. q # <<>> /\ block' = q[1] /\ Lists(p, f)'
  BY <1>1, <1>2, TakeLists DEF ListInv
<1>4. q \in Seq(Blocks) /\ Queue = q /\ Queue' = p /\ data \in [Blocks -> Nat]
  BY <1>1, <1>3, QueueIs, QueueIsNext DEF Lists, Pool, ListInv, Types
<1>5. data' = data /\ UNCHANGED fifoVars /\ sent' = sent /\ delivered' = delivered
      /\ tpc = "recv" /\ tpc' = "copy" /\ dr' = dr
  BY DEF Take, uartVars
<1>6. PICK w \in Seq(Nat) : w = Waiting
  BY Pieces
<1>7. w # <<>> /\ Head(w) = data[q[1]] /\ Waiting' = Tail(w)
  BY <1>2, <1>3, <1>4, <1>5, <1>6, DataOfTail DEF Waiting
<1>8. Copying = <<>> /\ Copying' = <<Head(w)>>
  BY <1>3, <1>5, <1>7 DEF Copying
<1>9. Backlog' = Backlog /\ Register' = Register
  BY <1>5, BacklogSame DEF Register
<1>10. <<Head(w)>> \o Tail(w) = w /\ <<>> \o w = w
  BY <1>7, FirstApart, ConcatEmptySeq
<1> QED BY <1>5, <1>6, <1>7, <1>8, <1>9, <1>10, UnderWayIs

LEMMA LineCopy ==
  ASSUME ~Early, ListInv, Copy
  PROVE  /\ sent' = sent /\ UnderWay # <<>> /\ UnderWay' = Tail(UnderWay)
         /\ delivered' = Append(delivered, Head(UnderWay))
         /\ Head(UnderWay) \in Nat /\ UnderWay = <<Head(UnderWay)>> \o UnderWay'
         /\ UnderWay' \in Seq(Nat)
<1>1. PICK q, f : Lists(q, f)
  BY DEF ListInv
<1>2. Lists(q, f)'
  BY <1>1, OpenLists DEF ListInv
<1>3. data' = data /\ UNCHANGED fifoVars /\ sent' = sent /\ tpc = "copy" /\ tpc' = "return"
      /\ dr' = dr /\ delivered' = Append(delivered, data[block])
  BY DEF Copy, queueVars, uartVars
<1>4. Waiting' = Waiting /\ Backlog' = Backlog /\ Copying' = <<>> /\ Register' = Register
  BY <1>1, <1>2, <1>3, WaitingSame, BacklogSame DEF Copying, Register
<1>5. PICK x \in Nat : x = data[block]
  BY <1>1, <1>3 DEF Lists, Pool, ListInv, Types
<1>6. Copying = <<x>>
  BY <1>3, <1>5 DEF Copying
<1>7. PICK w \in Seq(Nat) : w = Waiting
  BY Pieces
<1>8. PICK b \in Seq(Nat) : b = Backlog
  BY Pieces
<1>9. PICK r \in Seq(Nat) : r = Register
  BY Pieces
<1>10. UnderWay = ((<<x>> \o w) \o b) \o r /\ UnderWay' = ((<<>> \o w) \o b) \o r
  BY <1>4, <1>6, <1>7, <1>8, <1>9, UnderWayIs
<1>11. UnderWay # <<>> /\ Head(UnderWay) = x /\ Tail(UnderWay) = UnderWay'
       /\ UnderWay = <<x>> \o UnderWay' /\ UnderWay' \in Seq(Nat)
  <2>1. Delivers(x, ((<<x>> \o w) \o b) \o r, ((<<>> \o w) \o b) \o r, Nat)
    BY ComesOut
  <2> QED BY ONLY <1>10, <2>1 DEF Delivers
<1> QED BY <1>3, <1>5, <1>11

(***************************************************************************)
(* The line loses bytes and never invents, repeats or reorders them.       *)
(***************************************************************************)
LEMMA LineInit ==
  ASSUME Init
  PROVE  UnderWay = <<>>
<1>1. ListInv
  BY ListInit
<1>2. PICK q, f : Lists(q, f)
  BY <1>1 DEF ListInv
<1>3. q = <<>> /\ Queue = q
  BY <1>2, QueueIs DEF Lists, Quiet, Serving, Init
<1>4. Waiting \in Seq(Nat) /\ Len(Waiting) = 0
  <2>1. q \in Seq(Blocks) /\ data \in [Blocks -> Nat] /\ Len(q) = 0
    BY <1>1, <1>2, <1>3, EmptySeq DEF Lists, Pool, ListInv, Types
  <2> QED BY <1>3, <2>1, DataOfSeq DEF Waiting
<1>5. Backlog \in Seq(Nat) /\ Len(Backlog) = 0
  <2>1. Ring /\ Types /\ Count = 0
    BY <1>1, CountRange DEF Init, ListInv, RingInv
  <2> QED BY <2>1, BacklogSeq
<1>6. Waiting = <<>> /\ Backlog = <<>>
  BY <1>4, <1>5, EmptySeq
<1>7. Copying = <<>> /\ Register = <<>>
  BY DEF Init, Copying, Register
<1>8. <<>> \o <<>> = <<>>
  BY EmptySeq, ConcatEmptySeq
<1> QED BY <1>6, <1>7, <1>8, UnderWayIs

LEMMA LineStep ==
  ASSUME ~Early, ListInv, [Next]_vars
  PROVE  [Line!Next]_<<sent, UnderWay, delivered>>
<1> DEFINE Same == UNCHANGED <<sent, UnderWay, delivered>>
<1>1. CASE Arrive
  <2>1. sent < MaxBytes /\ sent' = sent + 1 /\ delivered' = delivered
        /\ (UnderWay' = Append(UnderWay, sent') \/ UnderWay' = UnderWay)
    BY <1>1, LineArrive
  <2>2. Line!Send
    BY <2>1 DEF Line!Send
  <2> QED BY <2>2 DEF Line!Next
<1>2. CASE Read
  <2>1. Same \/ Line!Lose
    BY <1>2, LineRead DEF Line!Lose
  <2> QED BY <2>1 DEF Line!Next
<1>3. CASE Indicate
  <2>1. Same \/ Line!Lose
    BY <1>3, LineIndicate DEF Line!Lose
  <2> QED BY <2>1 DEF Line!Next
<1>4. CASE Clear
  <2>1. Same \/ Line!Lose
    BY <1>4, LineClear DEF Line!Lose
  <2> QED BY <2>1 DEF Line!Next
<1>5. CASE Take
  BY <1>5, LineTake
<1>6. CASE Copy
  <2>1. Line!Deliver
    BY <1>6, LineCopy DEF Line!Deliver
  <2> QED BY <2>1 DEF Line!Next
<1>7. CASE Enter \/ Check \/ UNCHANGED vars
           \/ Open \/ Size \/ LinkFree \/ PushFree \/ Made \/ Return
  BY <1>7, LineKept
<1> QED BY <1>1, <1>2, <1>3, <1>4, <1>5, <1>6, <1>7 DEF Next, Handler, Thread

\* Whatever is lost at the register, in the ring buffer or in front of the
\* queue, the parser gets bytes of the lidar, once each and in order, if the
\* lidar only sends once the queue is made.
THEOREM ImplementsLineCorrect ==
  ASSUME ~Early
  PROVE  Spec => ImplementsLine
<1>1. Init => Line!Init
  BY LineInit DEF Init, Line!Init
<1>2. ListInv /\ [Next]_vars => [Line!Next]_<<sent, UnderWay, delivered>>
  BY LineStep
<1> QED BY <1>1, <1>2, ListCorrect, PTL DEF Spec, ImplementsLine, Line!Spec

(***************************************************************************)
(* Nothing is lost while each byte comes after the one before it has been  *)
(* handled and the queue has room: then there is at most one byte between  *)
(* the register and the queue, and the handler's step tells where it is.   *)
(***************************************************************************)
UpTo(n) == [k \in 1..n |-> k]
One ==
  /\ ~ore
  /\ isr \in {"off", "idle"} => Count = 0
  /\ isr = "drain" => (dr # 0 /\ Count = 0) \/ (dr = 0 /\ Count = 1)
  /\ isr = "read" => dr # 0 /\ Count = 0
  /\ isr = "indicate" => dr = 0 /\ Count = 1
  /\ isr = "clear" => dr = 0 /\ Count = 0
PacedInv == worst = 0 /\ ~refused => delivered \o UnderWay = UpTo(sent) /\ One

LEMMA UpToNext ==
  ASSUME NEW n \in Nat
  PROVE  UpTo(n) \in Seq(Nat) /\ UpTo(n + 1) = Append(UpTo(n), n + 1)
<1>1. UpTo(n) \in Seq(Nat) /\ Len(UpTo(n)) = n /\ \A k \in 1..n : UpTo(n)[k] = k
  BY DEF UpTo
<1>2. PICK m \in Nat : m = n + 1
  OBVIOUS
<1>3. UpTo(m) \in Seq(Nat) /\ Len(UpTo(m)) = m /\ \A k \in 1..m : UpTo(m)[k] = k
  BY DEF UpTo
<1> HIDE DEF UpTo
<1>4. Append(UpTo(n), m) \in Seq(Nat) /\ Len(Append(UpTo(n), m)) = m
      /\ Append(UpTo(n), m)[m] = m /\ \A k \in 1..n : Append(UpTo(n), m)[k] = k
  BY <1>1, <1>2
<1>5. \A k \in 1..m : UpTo(m)[k] = Append(UpTo(n), m)[k]
  BY <1>2, <1>3, <1>4
<1>6. UpTo(m) = Append(UpTo(n), m)
  BY <1>3, <1>4, <1>5, SeqEqual
<1> QED BY <1>1, <1>2, <1>6

LEMMA PacedArrive ==
  ASSUME ~Early, ListInv, PacedInv, Arrive, worst' = 0, ~refused'
  PROVE  delivered' \o UnderWay' = UpTo(sent') /\ One'
<1>1. during \in Nat /\ worst \in Nat /\ sent \in Nat /\ delivered \in Seq(Nat)
      /\ UnderWay \in Seq(Nat)
  BY Pieces DEF ListInv, Types, RingInv, Ring
<1>2. during' \in Nat /\ during' = (IF Busy THEN during + 1 ELSE 0)
      /\ worst' = (IF during' > worst THEN during' ELSE worst)
  BY <1>1 DEF Arrive
<1>3. during' = 0 /\ worst = 0
  BY <1>1, <1>2
<1>4. ~Busy
  BY <1>1, <1>2, <1>3
<1>5. dr = 0 /\ isr = "idle"
  BY <1>4 DEF Busy
<1>6. refused' = refused /\ isr' = isr /\ ore' = ore /\ UNCHANGED fifoVars
  BY <1>5 DEF Arrive
<1>7. delivered \o UnderWay = UpTo(sent) /\ One
  BY <1>3, <1>6 DEF PacedInv
<1>8. One'
  BY <1>5, <1>6, <1>7, BacklogSame DEF One
<1>9. PICK m \in Nat : m = sent + 1
  BY <1>1
<1>10. delivered' = delivered /\ UnderWay' = Append(UnderWay, m) /\ sent' = m
  BY <1>5, <1>9, LineArrive
<1>11. PICK e \in Seq(Nat) : e = <<m>>
  BY OneSeq
<1>12. PICK d \in Seq(Nat) : d = delivered
  BY <1>1
<1>13. PICK u \in Seq(Nat) : u = UnderWay
  BY <1>1
<1>14. Append(u, m) = u \o e
  BY <1>11, AppendIsConcat
<1>15. Assoc(d, u, e)
  BY IsAssoc
<1>16. UpTo(sent) \in Seq(Nat) /\ UpTo(m) = Append(UpTo(sent), m)
  BY <1>1, <1>9, UpToNext
<1>17. Append(UpTo(sent), m) = UpTo(sent) \o e
  BY <1>11, <1>16, AppendIsConcat
<1>18. delivered' \o UnderWay' = UpTo(sent')
  BY ONLY <1>7, <1>10, <1>12, <1>13, <1>14, <1>15, <1>16, <1>17 DEF Assoc
<1> QED BY <1>8, <1>18

LEMMA PacedCopy ==
  ASSUME ~Early, ListInv, Copy, delivered \o UnderWay = UpTo(sent)
  PROVE  delivered' \o UnderWay' = UpTo(sent')
<1>1. PICK x \in Nat : x = Head(UnderWay)
  BY LineCopy
<1>2. PICK e \in Seq(Nat) : e = <<x>>
  BY OneSeq
<1>3. PICK d \in Seq(Nat) : d = delivered
  BY DEF ListInv, Types
<1>4. PICK u \in Seq(Nat) : u = UnderWay'
  BY LineCopy
<1>5. UnderWay = e \o u /\ delivered' = Append(d, x) /\ sent' = sent
  BY <1>1, <1>2, <1>3, <1>4, LineCopy
<1>6. Append(d, x) = d \o e
  BY <1>2, AppendIsConcat
<1>7. Assoc(d, e, u)
  BY IsAssoc
<1> QED BY ONLY delivered \o UnderWay = UpTo(sent), <1>3, <1>4, <1>5, <1>6, <1>7 DEF Assoc

LEMMA PacedStep ==
  ASSUME ~Early, ListInv, PacedInv, [Next]_vars
  PROVE  PacedInv'
<1> SUFFICES ASSUME worst' = 0, ~refused'
             PROVE  delivered' \o UnderWay' = UpTo(sent') /\ One'
  BY DEF PacedInv
<1>1. CASE Arrive
  BY <1>1, PacedArrive
<1>2. ASSUME ~Arrive
      PROVE  worst = 0 /\ ~refused
  <2>1. worst' = worst
    BY <1>2 DEF Next, Handler, Thread, Enter, Check, Read, Indicate, Clear, Open, Size, LinkFree,
                PushFree, Made, Take, Copy, Return, historyVars, vars
  <2>2. refused' = refused \/ refused' = TRUE
    BY <1>2 DEF Next, Handler, Thread, Enter, Check, Read, Indicate, MqSend, Clear, Open, Size,
                LinkFree, PushFree, Made, Take, Copy, Return, historyVars, vars
  <2> QED BY <2>1, <2>2
<1>3. ASSUME ~Arrive PROVE delivered \o UnderWay = UpTo(sent) /\ One
  BY <1>2, <1>3 DEF PacedInv
<1>4. Ring /\ Count \in 0..(BufSize - 1) /\ BufSize > 1 /\ BufSize \in Nat
  BY CountRange, SerialRxAssumption DEF ListInv, RingInv
<1>5. CASE Read /\ ~Arrive
  <2>1. Count = 0 /\ Count # BufSize - 1 /\ isr = "read"
    BY <1>3, <1>4, <1>5 DEF One, Read
  <2>2. Count' = 1
    BY <1>4, <1>5, <2>1, ReadCounts
  <2>3. dr' = 0 /\ isr' = "drain" /\ ~ore'
    BY <1>3, <1>5 DEF Read, One
  <2>4. One'
    BY <2>2, <2>3 DEF One
  <2> QED BY <1>3, <1>5, <2>1, <2>4, LineRead
<1>6. CASE Indicate /\ ~Arrive
  <2>1. dr = 0 /\ Count = 1
    BY <1>3, <1>6 DEF One, Indicate
  <2>2. Count' = 0
    BY <1>4, <1>6, <2>1, IndicateCounts
  <2>3. dr' = dr /\ isr' = "clear" /\ ore' = ore
    BY <1>6 DEF Indicate, uartVars
  <2>4. One'
    <3>1. ~ore'
      BY <1>3, <1>6, <2>3 DEF One
    <3> QED BY <2>1, <2>2, <2>3, <3>1 DEF One
  <2>5. Accepts
    BY <1>6, LineIndicate
  <2> QED BY <1>3, <1>6, <2>4, <2>5, LineIndicate
<1>7. CASE Clear /\ ~Arrive
  <2>1. dr = 0 /\ Count = 0
    BY <1>3, <1>7 DEF One, Clear
  <2>2. isr' = "idle" /\ ore' = ore /\ Count' = Count
    BY <1>7, BacklogSame DEF Clear
  <2>3. One'
    <3>1. ~ore'
      BY <1>3, <1>7, <2>2 DEF One
    <3> QED BY <2>1, <2>2, <3>1 DEF One
  <2> QED BY <1>3, <1>7, <2>1, <2>3, LineClear
<1>8. CASE (Enter \/ Check) /\ ~Arrive
  <2>1. Count' = Count
    BY <1>8, BacklogSame DEF Enter, Check
  <2>2. One'
    <3>1. CASE Enter
      BY <1>3, <1>8, <2>1, <3>1 DEF One, Enter, uartVars
    <3>2. CASE Check
      BY <1>3, <1>8, <2>1, <3>2 DEF One, Check
    <3> QED BY <1>8, <3>1, <3>2
  <2> QED BY <1>3, <1>8, <2>2, LineKept
<1>9. CASE Thread /\ ~Arrive
  <2>1. Count' = Count
    BY <1>9, BacklogSame DEF Thread, Open, Size, LinkFree, PushFree, Made, Take, Copy, Return
  <2>2. ore' = ore /\ isr \in {"off", "idle"} /\ isr' \in {"off", "idle"}
    BY <1>9 DEF Thread, Open, Size, LinkFree, PushFree, Made, Take, Copy, Return, CanRun, uartVars
  <2>3. One'
    BY <1>3, <1>9, <2>1, <2>2 DEF One
  <2>4. CASE Take
    BY <1>3, <1>9, <2>3, <2>4, LineTake
  <2>5. CASE Copy
    BY <1>3, <1>9, <2>3, <2>5, PacedCopy
  <2>6. CASE Open \/ Size \/ LinkFree \/ PushFree \/ Made \/ Return
    BY <1>3, <1>9, <2>3, <2>6, LineKept
  <2> QED BY <1>9, <2>4, <2>5, <2>6 DEF Thread
<1>10. CASE UNCHANGED vars /\ ~Arrive
  <2>1. Count' = Count /\ ore' = ore /\ isr' = isr /\ dr' = dr
    BY <1>10, BacklogSame DEF vars, uartVars
  <2>2. One'
    BY <1>3, <1>10, <2>1 DEF One
  <2> QED BY <1>3, <1>10, <2>2, LineKept
<1> QED BY <1>1, <1>5, <1>6, <1>7, <1>8, <1>9, <1>10 DEF Next, Handler

\* While no byte comes before the one before it is handled and the queue never
\* is full, every byte the lidar has sent is delivered or under way, in order,
\* none stays behind in the ring buffer and no overrun stops the threads, if
\* the lidar only sends once the queue is made (app_eaix4.c 18 and 21,
\* drv_usart.c 235, serial.c 1161).
THEOREM PacedLosslessCorrect ==
  ASSUME ~Early
  PROVE  Spec => []PacedLossless
<1>1. Init => PacedInv
  <2> SUFFICES ASSUME Init PROVE delivered \o UnderWay = UpTo(sent) /\ One
    BY DEF PacedInv
  <2>1. delivered = <<>> /\ UnderWay = <<>> /\ sent = 0
    BY LineInit DEF Init
  <2>2. UpTo(0) = <<>>
    BY EmptySeq DEF UpTo
  <2>3. <<>> \o <<>> = <<>>
    BY EmptySeq, ConcatEmptySeq
  <2>4. One
    BY DEF Init, One, Count
  <2> QED BY <2>1, <2>2, <2>3, <2>4
<1>2. ListInv /\ PacedInv /\ [Next]_vars => PacedInv'
  BY PacedStep
<1>3. PacedInv => PacedLossless
  BY DEF PacedInv, One, PacedLossless, Storm, UpTo
<1> QED BY <1>1, <1>2, <1>3, ListCorrect, PTL DEF Spec
=============================================================================
