---------------------------- MODULE TimerProofs ----------------------------
(***************************************************************************)
(* Proofs about Timer, for every width of the tick, any number of timers   *)
(* and all times below half the range: the list stays sorted, flags agree  *)
(* with it, and no timer is called early or left behind.                   *)
(***************************************************************************)
EXTENDS Timer, Lemmas

\* What the assumption says of the numbers.
LEMMA Bounds ==
  /\ M \in Nat \ {0} /\ MaxLate \in Nat /\ Half \in Nat
  /\ 2 * Half + 1 <= M /\ MaxLate + 1 < Half
BY TimerAssumption DEF Half

LEMMA TimesBelow ==
  ASSUME NEW n \in Times \cup Waits
  PROVE  n \in Nat /\ n + MaxLate < Half
BY TimerAssumption

(***************************************************************************)
(* The list, sorted by some function of the timers.                        *)
(***************************************************************************)
SortedBy(s, f) ==
  \A j, k \in DOMAIN s : j < k => s[j] # s[k] /\ f[s[j]] <= f[s[k]]

\* t comes after all those that are due no later.
Newest(s, f, t) == \A j, k \in DOMAIN s : s[j] = t /\ j < k => f[t] < f[s[k]]

LEMMA SortedDistinct ==
  ASSUME NEW S, NEW s \in Seq(S), NEW f, SortedBy(s, f)
  PROVE  Distinct(s)
<1> SUFFICES ASSUME NEW j \in DOMAIN s, NEW k \in DOMAIN s, j # k
             PROVE  s[j] # s[k]
  BY DEF Distinct
<1>1. j \in Int /\ k \in Int
  OBVIOUS
<1>2. j < k \/ k < j
  BY <1>1
<1> QED BY <1>2 DEF SortedBy

\* A timer that leaves the list, if it is in it.
LEMMA GoneFacts ==
  ASSUME NEW s \in Seq(Timers), NEW f, SortedBy(s, f), NEW t
  PROVE  /\ Gone(s, t) \in Seq(Timers)
         /\ Elements(Gone(s, t)) = Elements(s) \ {t}
         /\ SortedBy(Gone(s, t), f)
<1>1. CASE t \notin Elements(s)
  BY <1>1 DEF Gone
<1>2. CASE t \in Elements(s)
  <2>1. Distinct(s)
    BY SortedDistinct
  <2>2. Gone(s, t) = Without(s, t)
    BY <1>2 DEF Gone
  <2>3. /\ Without(s, t) \in Seq(Timers)
        /\ Elements(Without(s, t)) = Elements(s) \ {t}
        /\ \A j, k \in DOMAIN Without(s, t) : j < k =>
             \E i, l \in DOMAIN s :
               i < l /\ Without(s, t)[j] = s[i] /\ Without(s, t)[k] = s[l]
    BY <1>2, <2>1, WithoutSeq
  <2>4. SortedBy(Without(s, t), f)
    BY <2>3 DEF SortedBy
  <2> QED BY <2>2, <2>3, <2>4
<1> QED BY <1>1, <1>2

LEMMA RestFacts ==
  ASSUME list \in Seq(Timers), NEW f, SortedBy(list, f), NEW t, NEW u
  PROVE  /\ Rest(t, u) \in Seq(Timers)
         /\ Elements(Rest(t, u)) = Listed \ {t, u}
         /\ SortedBy(Rest(t, u), f)
<1>1. PICK r : r = Gone(list, t)
  OBVIOUS
<1>2. r \in Seq(Timers) /\ Elements(r) = Listed \ {t} /\ SortedBy(r, f)
  BY <1>1, GoneFacts DEF Listed
<1>3. Gone(r, u) \in Seq(Timers) /\ Elements(Gone(r, u)) = Elements(r) \ {u}
      /\ SortedBy(Gone(r, u), f)
  BY <1>2, GoneFacts
<1> QED BY <1>1, <1>2, <1>3 DEF Rest

\* A timer that enters the list between those that are not larger and one that is.
LEMMA InsertSorted ==
  ASSUME NEW s \in Seq(Timers), NEW f \in [Timers -> Int], SortedBy(s, f),
         NEW t \in Timers, t \notin Elements(s), NEW p \in 1..(Len(s) + 1),
         \A j \in 1..(p - 1) : f[s[j]] <= f[t],
         p <= Len(s) => f[t] < f[s[p]]
  PROVE  SortedBy(InsertAt(s, t, p), f) /\ Newest(InsertAt(s, t, p), f, t)
<1>1. PICK n \in Nat : n = Len(s)
  OBVIOUS
<1>2. /\ DOMAIN s = 1..n /\ p \in 1..(n + 1) /\ DOMAIN InsertAt(s, t, p) = 1..(n + 1)
      /\ \A k \in 1..(n + 1) : InsertAt(s, t, p)[k] =
           IF k < p THEN s[k] ELSE IF k = p THEN t ELSE s[k - 1]
      /\ \A k \in 1..n : s[k] \in Timers /\ s[k] # t
      /\ p <= n => f[t] < f[s[p]]
  BY <1>1 DEF InsertAt, Elements
<1>3. \A j, k \in 1..n : j < k => s[j] # s[k] /\ f[s[j]] <= f[s[k]]
  BY <1>2 DEF SortedBy
<1>4. \A k \in 1..n : p <= k => f[t] < f[s[k]] /\ f[t] <= f[s[k]]
  <2> SUFFICES ASSUME NEW k \in 1..n, p <= k PROVE f[t] < f[s[k]] /\ f[t] <= f[s[k]]
    OBVIOUS
  <2>1. p \in 1..n
    BY <1>2
  <2>2. f[t] \in Int /\ f[s[p]] \in Int /\ f[s[k]] \in Int
    BY <1>2, <2>1
  <2>3. f[t] < f[s[p]]
    BY <1>2, <2>1
  <2>4. p = k \/ f[s[p]] <= f[s[k]]
    BY <1>3, <2>1
  <2> QED BY <2>2, <2>3, <2>4
<1>8. Newest(InsertAt(s, t, p), f, t)
  <2> SUFFICES ASSUME NEW j \in 1..(n + 1), NEW k \in 1..(n + 1),
                      InsertAt(s, t, p)[j] = t, j < k
               PROVE  f[t] < f[InsertAt(s, t, p)[k]]
    BY <1>2 DEF Newest
  <2>1. j = p
    <3>1. j < p => j \in 1..n /\ InsertAt(s, t, p)[j] = s[j]
      BY <1>2
    <3>2. p < j => j - 1 \in 1..n /\ InsertAt(s, t, p)[j] = s[j - 1]
      BY <1>2
    <3> QED BY <1>2, <3>1, <3>2
  <2>2. k - 1 \in 1..n /\ p <= k - 1 /\ InsertAt(s, t, p)[k] = s[k - 1]
    BY <1>2, <2>1
  <2> QED BY <1>4, <2>2
<1> SUFFICES ASSUME NEW j \in 1..(n + 1), NEW k \in 1..(n + 1), j < k
             PROVE  /\ InsertAt(s, t, p)[j] # InsertAt(s, t, p)[k]
                    /\ f[InsertAt(s, t, p)[j]] <= f[InsertAt(s, t, p)[k]]
  BY <1>2, <1>8 DEF SortedBy
<1>5. CASE k < p
  <2>1. j \in 1..n /\ k \in 1..n /\ j < p
    BY <1>2, <1>5
  <2>2. InsertAt(s, t, p)[j] = s[j] /\ InsertAt(s, t, p)[k] = s[k]
    BY <1>2, <1>5, <2>1
  <2> QED BY <1>3, <2>1, <2>2
<1>6. CASE k = p
  <2>1. j \in 1..n /\ j \in 1..(p - 1) /\ j < p
    BY <1>2, <1>6
  <2>2. InsertAt(s, t, p)[j] = s[j] /\ InsertAt(s, t, p)[k] = t
    BY <1>2, <1>6, <2>1
  <2> QED BY <1>2, <2>1, <2>2
<1>7. CASE p < k
  <2>1. k - 1 \in 1..n /\ p <= k - 1
    BY <1>2, <1>7
  <2>2. InsertAt(s, t, p)[k] = s[k - 1]
    BY <1>2, <1>7
  <2>3. CASE j < p
    <3>1. j \in 1..n /\ j < k - 1 /\ InsertAt(s, t, p)[j] = s[j]
      BY <1>2, <2>1, <2>3
    <3> QED BY <1>3, <2>1, <2>2, <3>1
  <2>4. CASE j = p
    <3>1. InsertAt(s, t, p)[j] = t
      BY <1>2, <2>4
    <3> QED BY <1>2, <1>4, <2>1, <2>2, <3>1
  <2>5. CASE p < j
    <3>1. j - 1 \in 1..n /\ j - 1 < k - 1 /\ InsertAt(s, t, p)[j] = s[j - 1]
      BY <1>2, <2>5
    <3> QED BY <1>3, <2>1, <2>2, <3>1
  <2> QED BY <1>2, <2>3, <2>4, <2>5
<1> QED BY <1>2, <1>5, <1>6, <1>7, <1>8

(***************************************************************************)
(* What the list says of the timers in it: the tick a timer is due at is   *)
(* the tick now and what remains, and that is neither longer than half the *)
(* range allows nor overdue for longer than an insertion may take.         *)
(***************************************************************************)
Timed(t, least) ==
  /\ due[t] = (tick + left[t]) % M
  /\ least <= left[t] /\ left[t] + MaxLate < Half

ListOK ==
  /\ tick \in 0..(M - 1) /\ list \in Seq(Timers)
  /\ due \in [Timers -> 0..(M - 1)] /\ left \in [Timers -> Int]
  /\ SortedBy(list, left)
  /\ \A t \in Listed : Timed(t, -MaxLate - 1)

LEMMA ListedTimers ==
  ASSUME ListOK, NEW t \in Listed
  PROVE  t \in Timers /\ left[t] \in Int /\ -MaxLate - 1 <= left[t] /\ left[t] + MaxLate < Half
         /\ due[t] = (tick + left[t]) % M
<1>1. t \in Timers
  BY DEF ListOK, Listed, Elements
<1> QED BY <1>1 DEF ListOK, Timed

\* The insertion passes exactly the timers that are due no later, across the wrap.
LEMMA BreakIs ==
  ASSUME ListOK, NEW v \in Listed,
         NEW l \in Int, -MaxLate <= l, l + MaxLate < Half
  PROVE  Break(v, (tick + l) % M) <=> left[v] > l
<1>1. PICK h \in Nat, m \in Nat \ {0}, late \in Nat, w \in Int, tk \in Int :
        h = Half /\ m = M /\ late = MaxLate /\ w = left[v] /\ tk = tick
  <2>1. Half \in Nat /\ M \in Nat \ {0} /\ MaxLate \in Nat
    BY Bounds
  <2>2. left[v] \in Int /\ tick \in Int
    BY Bounds, ListedTimers DEF ListOK
  <2> QED BY <2>1, <2>2
<1>2. 2 * h + 1 <= m /\ -late - 1 <= w /\ w + late < h /\ -late <= l /\ l + late < h
  BY <1>1, Bounds, ListedTimers
<1>3. Minus(due[v], (tick + l) % M) = (w - l) % m
  <2>1. due[v] = (tk + w) % m /\ (tick + l) % M = (tk + l) % m
    BY <1>1, ListedTimers
  <2>2. PICK a \in Int, b \in Int : a = tk + w /\ b = tk + l
    OBVIOUS
  <2>3. ((a % m) - (b % m)) % m = (a - b) % m
    BY ModDifference
  <2>4. a - b = w - l
    BY <2>2
  <2> QED BY <1>1, <2>1, <2>2, <2>3, <2>4 DEF Minus
<1>4. PICK d \in Int : d = w - l
  OBVIOUS
<1>5. CASE d >= 0
  <2>1. d \in 0..(m - 1) /\ d <= h - 1
    BY <1>2, <1>4, <1>5
  <2>2. d % m = d
    BY <2>1, ModSmall
  <2> QED BY <1>1, <1>3, <1>4, <2>1, <2>2 DEF Break
<1>6. CASE d < 0
  <2>1. -m <= d /\ d + m > h
    BY <1>2, <1>4
  <2>2. d % m = d + m
    BY <1>6, <2>1, ModNegative
  <2> QED BY <1>1, <1>3, <1>4, <1>6, <2>1, <2>2 DEF Break
<1> QED BY <1>5, <1>6

\* A timer is taken for expired exactly when no time remains.
LEMMA ExpiredIs ==
  ASSUME ListOK, NEW v \in Listed
  PROVE  Expired(v) <=> left[v] <= 0
<1>1. PICK h \in Nat, m \in Nat \ {0}, late \in Nat, w \in Int, tk \in 0..(M - 1) :
        h = Half /\ m = M /\ late = MaxLate /\ w = left[v] /\ tk = tick
  <2>1. Half \in Nat /\ M \in Nat \ {0} /\ MaxLate \in Nat
    BY Bounds
  <2>2. left[v] \in Int /\ tick \in 0..(M - 1)
    BY ListedTimers DEF ListOK
  <2> QED BY <2>1, <2>2
<1>2. 2 * h + 1 <= m /\ -late - 1 <= w /\ w + late < h /\ late + 1 < h
  BY <1>1, Bounds, ListedTimers
<1>3. Minus(tick, due[v]) = (-w) % m
  <2>1. due[v] = (tk + w) % m /\ tk \in 0..(m - 1) /\ tk \in Int
    BY <1>1, ListedTimers
  <2>2. tk % m = tk
    BY <2>1, ModSmall
  <2>3. PICK b \in Int : b = tk + w
    BY <2>1
  <2>4. ((tk % m) - (b % m)) % m = (tk - b) % m
    BY <2>1, ModDifference
  <2>5. tk - b = -w
    BY <2>1, <2>3
  <2> QED BY <1>1, <2>1, <2>2, <2>3, <2>4, <2>5 DEF Minus
<1>4. PICK d \in Int : d = -w
  OBVIOUS
<1>5. CASE d >= 0
  <2>1. d \in 0..(m - 1) /\ d < h
    BY <1>2, <1>4, <1>5
  <2>2. d % m = d
    BY <2>1, ModSmall
  <2> QED BY <1>1, <1>3, <1>4, <1>5, <2>1, <2>2 DEF Expired
<1>6. CASE d < 0
  <2>1. -m <= d /\ d + m >= h
    BY <1>2, <1>4
  <2>2. d % m = d + m
    BY <1>6, <2>1, ModNegative
  <2> QED BY <1>1, <1>3, <1>4, <1>6, <2>1, <2>2 DEF Expired
<1> QED BY <1>5, <1>6

\* An insertion into the list, or into what is left of it.
LEMMA InsertList ==
  ASSUME ListOK,
         NEW s \in Seq(Timers), SortedBy(s, left), Elements(s) \subseteq Listed,
         NEW t \in Timers, t \notin Elements(s),
         NEW l \in Int, -MaxLate <= l, l + MaxLate < Half,
         Insert(s, t, (tick + l) % M),
         tick' = tick, due' \in [Timers -> 0..(M - 1)], left' \in [Timers -> Int],
         due'[t] = (tick + l) % M, left'[t] = l,
         \A v \in Elements(s) : due'[v] = due[v] /\ left'[v] = left[v]
  PROVE  ListOK' /\ Elements(list') = Elements(s) \cup {t} /\ Newest(list', left', t)
<1>1. PICK p \in 1..(Len(s) + 1) :
        /\ \A j \in 1..(p - 1) : ~Break(s[j], (tick + l) % M)
        /\ p <= Len(s) => Break(s[p], (tick + l) % M)
        /\ list' = InsertAt(s, t, p)
  BY DEF Insert
<1>2. PICK n \in Nat : n = Len(s) /\ DOMAIN s = 1..n
  OBVIOUS
<1>3. \A k \in 1..n : s[k] \in Elements(s) /\ s[k] \in Listed /\ left'[s[k]] = left[s[k]]
                     /\ left[s[k]] \in Int
  BY <1>2, ListedTimers DEF Elements
<1>4. \A k \in 1..n : Break(s[k], (tick + l) % M) <=> left[s[k]] > l
  BY <1>3, BreakIs
<1>5. SortedBy(s, left')
  BY <1>2, <1>3 DEF SortedBy
<1>6. \A j \in 1..(p - 1) : left'[s[j]] <= left'[t]
  <2> SUFFICES ASSUME NEW j \in 1..(p - 1) PROVE left'[s[j]] <= left'[t]
    OBVIOUS
  <2>1. j \in 1..n
    BY <1>1, <1>2
  <2>2. ~(left[s[j]] > l)
    BY <1>1, <1>4, <2>1
  <2> QED BY <1>3, <2>1, <2>2
<1>7. p <= Len(s) => left'[t] < left'[s[p]]
  <2> SUFFICES ASSUME p <= n PROVE left'[t] < left'[s[p]]
    BY <1>2
  <2>1. p \in 1..n
    BY <1>1
  <2> QED BY <1>1, <1>2, <1>3, <1>4, <2>1
<1>8. SortedBy(list', left') /\ Newest(list', left', t)
  <2>1. PICK f : f = left'
    OBVIOUS
  <2>2. SortedBy(InsertAt(s, t, p), f) /\ Newest(InsertAt(s, t, p), f, t)
    BY <1>5, <1>6, <1>7, <2>1, InsertSorted
  <2> QED BY <1>1, <2>1, <2>2
<1>9. list' \in Seq(Timers) /\ Elements(list') = Elements(s) \cup {t}
  BY <1>1, InsertAtSeq
<1>10. ASSUME NEW v \in Elements(list') PROVE Timed(v, -MaxLate - 1)'
  <2>1. CASE v = t
    BY <2>1, Bounds DEF Timed
  <2>2. CASE v # t
    <3>1. v \in Elements(s)
      BY <1>9, <2>2, <1>10
    <3>2. Timed(v, -MaxLate - 1)
      BY <3>1 DEF ListOK
    <3> QED BY <3>1, <3>2 DEF Timed
  <2> QED BY <2>1, <2>2
<1>11. tick' \in 0..(M - 1)
  BY DEF ListOK
<1> QED BY <1>8, <1>9, <1>10, <1>11 DEF ListOK, Listed

\* Timers leave the list.
LEMMA DropList ==
  ASSUME ListOK, NEW t, NEW u, Drop(t, u), tick' = tick
  PROVE  /\ ListOK' /\ Elements(list') = Listed \ {t, u}
         /\ \A v \in Timers \ {t, u} : due'[v] = due[v] /\ left'[v] = left[v]
<1>1. /\ list' \in Seq(Timers) /\ Elements(list') = Listed \ {t, u}
      /\ SortedBy(list', left)
  BY RestFacts DEF Drop, ListOK
<1>2. due' \in [Timers -> 0..(M - 1)] /\ left' \in [Timers -> Int]
  BY Bounds DEF Drop, Dropped, ListOK
<1>3. \A v \in Elements(list') : v \in Timers /\ left'[v] = left[v] /\ due'[v] = due[v]
  BY <1>1, ListedTimers DEF Drop, Dropped
<1>4. SortedBy(list', left')
  <2> SUFFICES ASSUME NEW j \in DOMAIN list', NEW k \in DOMAIN list', j < k
               PROVE  list'[j] # list'[k] /\ left'[list'[j]] <= left'[list'[k]]
    BY DEF SortedBy
  <2>1. list'[j] \in Elements(list') /\ list'[k] \in Elements(list')
    BY DEF Elements
  <2> QED BY <1>1, <1>3, <2>1 DEF SortedBy
<1>5. \A v \in Elements(list') : Timed(v, -MaxLate - 1)'
  BY <1>1, <1>3 DEF Timed, ListOK
<1>6. \A v \in Timers \ {t, u} : due'[v] = due[v] /\ left'[v] = left[v]
  BY DEF Drop, Dropped
<1> QED BY <1>1, <1>2, <1>3, <1>4, <1>5, <1>6 DEF ListOK, Listed

\* A timer is started, after it and perhaps another one have left the list.
LEMMA StartList ==
  ASSUME ListOK, NEW t \in Timers, NEW u, NEW n \in Times \cup Waits,
         Start(t, u, n), tick' = tick
  PROVE  /\ ListOK' /\ Elements(list') = (Listed \ {t, u}) \cup {t}
         /\ \A v \in Timers \ {t, u} : due'[v] = due[v] /\ left'[v] = left[v]
         /\ left'[t] = n /\ n >= 0 /\ Newest(list', left', t)
<1>1. PICK s : s = Rest(t, u)
  OBVIOUS
<1>2. s \in Seq(Timers) /\ Elements(s) = Listed \ {t, u} /\ SortedBy(s, left)
  BY <1>1, RestFacts DEF ListOK
<1>3. n \in Nat /\ n \in Int /\ n + MaxLate < Half /\ -MaxLate <= n
  BY TimesBelow, Bounds
<1>4. DueTick(n) = (tick + n) % M /\ DueTick(n) \in 0..(M - 1)
  <2>1. tick + n \in Int
    BY <1>3 DEF ListOK
  <2> QED BY <2>1, Bounds, ModRange DEF DueTick
<1>5. Insert(s, t, (tick + n) % M)
  BY <1>1, <1>4 DEF Start
<1>6. /\ due' = [Dropped(due, t, u) EXCEPT ![t] = DueTick(n)]
      /\ left' = [Dropped(left, t, u) EXCEPT ![t] = n]
  BY DEF Start
<1>7. due' \in [Timers -> 0..(M - 1)] /\ left' \in [Timers -> Int]
  <2>1. /\ Dropped(due, t, u) \in [Timers -> 0..(M - 1)]
        /\ Dropped(left, t, u) \in [Timers -> Int]
    BY Bounds DEF Dropped, ListOK
  <2> QED BY <1>3, <1>4, <1>6, <2>1
<1>8. due'[t] = (tick + n) % M /\ left'[t] = n
  BY <1>4, <1>6 DEF Dropped
<1>9. \A v \in Elements(s) : due'[v] = due[v] /\ left'[v] = left[v]
  BY <1>2, <1>6, ListedTimers DEF Dropped
<1>10. t \notin Elements(s) /\ Elements(s) \subseteq Listed
  BY <1>2
<1>11. ListOK' /\ Elements(list') = Elements(s) \cup {t} /\ Newest(list', left', t)
  BY <1>2, <1>3, <1>5, <1>7, <1>8, <1>9, <1>10, InsertList
<1>12. \A v \in Timers \ {t, u} : due'[v] = due[v] /\ left'[v] = left[v]
  BY <1>6 DEF Dropped
<1> QED BY <1>2, <1>3, <1>8, <1>11, <1>12

\* Of a timer that runs, the tick it is due at stays the same while time passes.
LEMMA TickTimed ==
  ASSUME NEW a \in Int, NEW r \in Int
  PROVE  (((a + 1) % M) + (r - 1)) % M = (a + r) % M
<1>1. PICK x \in Int, y \in Int : x = a + 1 /\ y = r - 1
  OBVIOUS
<1>2. ((x % M) + y) % M = (x + y) % M
  BY Bounds, ModSum
<1>3. x + y = a + r
  BY <1>1
<1> QED BY <1>1, <1>2, <1>3

\* A tick passes.
LEMMA TickList ==
  ASSUME ListOK, \A v \in Listed : -MaxLate <= left[v],
         tick' = (tick + 1) % M, list' = list, due' = due,
         left' \in [Timers -> Int],
         \A v \in Listed : left'[v] = left[v] - 1
  PROVE  ListOK'
<1>1. tick \in Int /\ tick' \in 0..(M - 1)
  <2>1. tick \in 0..(M - 1)
    BY DEF ListOK
  <2>2. tick \in Int /\ tick + 1 \in Int
    BY <2>1, Bounds
  <2> QED BY <2>2, Bounds, ModRange
<1>2. \A v \in Listed : left'[v] \in Int /\ left[v] \in Int /\ left'[v] = left[v] - 1
  BY ListedTimers
<1>3. SortedBy(list', left')
  <2> SUFFICES ASSUME NEW j \in DOMAIN list, NEW k \in DOMAIN list, j < k
               PROVE  list[j] # list[k] /\ left'[list[j]] <= left'[list[k]]
    BY DEF SortedBy
  <2>1. list[j] \in Listed /\ list[k] \in Listed
    BY DEF Listed, Elements
  <2>2. list[j] # list[k] /\ left[list[j]] <= left[list[k]]
    BY DEF ListOK, SortedBy
  <2> QED BY <1>2, <2>1, <2>2
<1>4. ASSUME NEW v \in Listed PROVE Timed(v, -MaxLate - 1)'
  <2>1. /\ due[v] = (tick + left[v]) % M /\ left[v] \in Int
        /\ left[v] + MaxLate < Half /\ left'[v] = left[v] - 1
    BY <1>2, ListedTimers
  <2>2. due'[v] = (tick' + left'[v]) % M
    BY <1>1, <2>1, TickTimed
  <2>3. -MaxLate - 1 <= left'[v] /\ left'[v] + MaxLate < Half
    BY <2>1, Bounds
  <2> QED BY <2>2, <2>3 DEF Timed
<1> QED BY <1>1, <1>3, <1>4 DEF ListOK, Listed

(***************************************************************************)
(* The inductive invariant: of a timer about to be inserted, the tick it   *)
(* is due at is right as well, and it comes MaxLate ticks late at most.    *)
(***************************************************************************)
InsertOK ==
  \A t \in UserTimers :
    /\ pc[t] \in {"read", "insert"} => t \notin Listed
    /\ pc[t] = "insert" =>
         /\ due[t] = (tick + left[t]) % M
         /\ time[t] - MaxLate <= left[t] /\ left[t] <= time[t]

NoneOverdue == ~isr => \A t \in Listed : -MaxLate <= left[t]

IInv == TypeOK /\ ListOK /\ ActiveListed /\ InsertOK /\ NoneOverdue

LEMMA InitInv == Init => IInv
<1> SUFFICES ASSUME Init PROVE IInv
  OBVIOUS
<1>1. Listed = {} /\ list \in Seq(Timers)
  BY DEF Init, Listed, Elements
<1>2. TypeOK
  <2>1. tick \in 0..(M - 1) /\ due \in [Timers -> 0..(M - 1)] /\ left \in [Timers -> Int]
    BY Bounds DEF Init
  <2>2. /\ time \in [UserTimers -> Times] /\ periodic \in [UserTimers -> BOOLEAN]
        /\ active \in [Timers -> BOOLEAN] /\ isr \in BOOLEAN
        /\ pc \in [UserTimers -> {"idle", "read", "insert", "unlist", "clear"}]
    BY DEF Init
  <2> QED BY <1>1, <2>1, <2>2 DEF TypeOK
<1>3. ListOK
  BY <1>1, <1>2 DEF Init, TypeOK, ListOK, SortedBy
<1>4. ActiveListed /\ NoneOverdue
  BY <1>1 DEF Init, ActiveListed, NoneOverdue, Timers
<1>5. InsertOK
  BY DEF Init, InsertOK
<1> QED BY <1>2, <1>3, <1>4, <1>5 DEF IInv

\* Steps that do not touch timers about to be inserted.
LEMMA InsertUntouched ==
  ASSUME InsertOK, time' = time, tick' = tick,
         \A t \in UserTimers : pc'[t] \in {"read", "insert"} =>
           pc'[t] = pc[t] /\ t \notin Listed' /\ due'[t] = due[t] /\ left'[t] = left[t]
  PROVE  InsertOK'
<1> SUFFICES ASSUME NEW t \in UserTimers, pc'[t] \in {"read", "insert"}
             PROVE  /\ t \notin Listed'
                    /\ pc'[t] = "insert" =>
                         /\ due'[t] = (tick' + left'[t]) % M
                         /\ time'[t] - MaxLate <= left'[t] /\ left'[t] <= time'[t]
  BY DEF InsertOK
<1> QED BY DEF InsertOK

\* A thread goes to sleep.
LEMMA SleepStep ==
  ASSUME IInv, NEW t \in ThreadTimers, Sleep(t)
  PROVE  IInv'
<1>1. /\ ListOK /\ ~isr /\ t \notin Listed /\ t \in Timers /\ t \notin UserTimers
      /\ UserTimers \subseteq Timers
  BY TimerAssumption DEF IInv, Sleep, Timers
<1>2. /\ tick' = tick /\ time' = time /\ periodic' = periodic /\ pc' = pc /\ isr' = isr
      /\ active' = [active EXCEPT ![t] = TRUE]
  BY DEF Sleep, options
<1>3. PICK n \in Waits : Start(t, t, n)
  BY DEF Sleep
<1>4. /\ ListOK' /\ Listed' = Listed \cup {t}
      /\ \A v \in Timers \ {t} : due'[v] = due[v] /\ left'[v] = left[v]
      /\ left'[t] = n /\ n >= 0
  BY <1>1, <1>2, <1>3, StartList DEF Listed
<1>5. TypeOK'
  BY <1>2, <1>4 DEF IInv, TypeOK, ListOK
<1>6. ActiveListed'
  BY <1>1, <1>2, <1>4 DEF IInv, TypeOK, ActiveListed, Timers
<1>7. InsertOK'
  BY <1>1, <1>2, <1>4, InsertUntouched DEF IInv, InsertOK
<1>8. NoneOverdue'
  <2> SUFFICES ASSUME NEW v \in Listed' PROVE -MaxLate <= left'[v]
    BY DEF NoneOverdue
  <2>1. CASE v = t
    BY <1>3, <1>4, <2>1, Bounds, TimesBelow
  <2>2. CASE v # t
    <3>1. v \in Listed /\ v \in Timers /\ left'[v] = left[v]
      BY <1>1, <1>4, <2>2, ListedTimers
    <3> QED BY <1>1, <3>1 DEF IInv, NoneOverdue
  <2> QED BY <2>1, <2>2
<1> QED BY <1>4, <1>5, <1>6, <1>7, <1>8 DEF IInv

\* Timers leave the list and nothing is started: what that means for the invariant.
LEMMA DropInv ==
  ASSUME IInv, NEW t \in Timers, NEW u \in Timers, Drop(t, u), tick' = tick,
         isr' = isr
  PROVE  /\ ListOK' /\ NoneOverdue' /\ Listed' = Listed \ {t, u}
         /\ \A v \in Timers \ {t, u} : due'[v] = due[v] /\ left'[v] = left[v]
         /\ list' \in Seq(Timers) /\ due' \in [Timers -> 0..(M - 1)]
         /\ left' \in [Timers -> Int]
<1>1. /\ ListOK' /\ Listed' = Listed \ {t, u}
      /\ \A v \in Timers \ {t, u} : due'[v] = due[v] /\ left'[v] = left[v]
  BY DropList DEF IInv, Listed
<1>2. NoneOverdue'
  <2>1. \A v \in Listed' : v \in Listed /\ left'[v] = left[v]
    BY <1>1, ListedTimers DEF IInv
  <2> QED BY <2>1 DEF IInv, NoneOverdue
<1> QED BY <1>1, <1>2 DEF ListOK

\* A thread is resumed by somebody else.
LEMMA ResumeStep ==
  ASSUME IInv, NEW t \in ThreadTimers, Resume(t)
  PROVE  IInv'
<1>1. t \in Timers /\ t \notin UserTimers /\ UserTimers \subseteq Timers
  BY TimerAssumption DEF Timers
<1>2. /\ tick' = tick /\ time' = time /\ periodic' = periodic /\ pc' = pc /\ isr' = isr
      /\ active' = [active EXCEPT ![t] = FALSE] /\ Drop(t, t)
  BY DEF Resume, options
<1>3. /\ ListOK' /\ NoneOverdue' /\ Listed' = Listed \ {t}
      /\ \A v \in Timers \ {t} : due'[v] = due[v] /\ left'[v] = left[v]
      /\ list' \in Seq(Timers) /\ due' \in [Timers -> 0..(M - 1)]
      /\ left' \in [Timers -> Int]
  BY <1>1, <1>2, DropInv
<1>4. TypeOK'
  BY <1>2, <1>3 DEF IInv, TypeOK
<1>5. ActiveListed'
  BY <1>1, <1>2, <1>3 DEF IInv, TypeOK, ActiveListed, Timers
<1>6. InsertOK'
  BY <1>1, <1>2, <1>3, InsertUntouched DEF IInv, InsertOK
<1> QED BY <1>3, <1>4, <1>5, <1>6 DEF IInv

\* An owner takes its timer out of the list, to start it again or to stop it.
LEMMA UnlistStep ==
  ASSUME IInv, NEW t \in UserTimers, Remove(t) \/ Unlist(t)
  PROVE  IInv'
<1>1. t \in Timers /\ t \notin ThreadTimers /\ UserTimers \subseteq Timers
  BY TimerAssumption DEF Timers
<1>2. /\ tick' = tick /\ time' = time /\ periodic' = periodic /\ isr' = isr /\ Drop(t, t)
      /\ \/ pc' = [pc EXCEPT ![t] = "read"] /\ active' = [active EXCEPT ![t] = FALSE]
         \/ pc' = [pc EXCEPT ![t] = "clear"] /\ active' = active
  BY DEF Remove, Unlist, options
<1>3. /\ ListOK' /\ NoneOverdue' /\ Listed' = Listed \ {t}
      /\ \A v \in Timers \ {t} : due'[v] = due[v] /\ left'[v] = left[v]
      /\ list' \in Seq(Timers) /\ due' \in [Timers -> 0..(M - 1)]
      /\ left' \in [Timers -> Int]
  BY <1>1, <1>2, DropInv
<1>4. TypeOK'
  BY <1>2, <1>3 DEF IInv, TypeOK
<1>5. /\ pc'[t] \in {"read", "clear"}
      /\ \A v \in UserTimers \ {t} : pc'[v] = pc[v] /\ active'[v] = active[v]
      /\ \A v \in ThreadTimers : active'[v] = active[v] /\ v # t
  BY <1>1, <1>2 DEF IInv, TypeOK, Timers
<1>6. ActiveListed'
  <2>1. \A v \in ThreadTimers : active'[v] <=> v \in Listed'
    BY <1>3, <1>5 DEF IInv, ActiveListed
  <2>2. \A v \in UserTimers : active'[v] /\ pc'[v] \in {"idle", "unlist"} => v \in Listed'
    BY <1>3, <1>5 DEF IInv, ActiveListed
  <2> QED BY <2>1, <2>2 DEF ActiveListed
<1>7. InsertOK'
  <2> SUFFICES ASSUME NEW v \in UserTimers, pc'[v] \in {"read", "insert"}
               PROVE  /\ v \notin Listed'
                      /\ pc'[v] = "insert" =>
                           /\ due'[v] = (tick' + left'[v]) % M
                           /\ time'[v] - MaxLate <= left'[v] /\ left'[v] <= time'[v]
    BY DEF InsertOK
  <2>1. CASE v = t
    BY <1>3, <1>5, <2>1
  <2>2. CASE v # t
    BY <1>1, <1>2, <1>3, <1>5, <2>2 DEF IInv, InsertOK
  <2> QED BY <2>1, <2>2
<1> QED BY <1>3, <1>4, <1>6, <1>7 DEF IInv

\* The tick is read, before interrupts are disabled for the insertion.
LEMMA ReadTickStep ==
  ASSUME IInv, NEW t \in UserTimers, ReadTick(t)
  PROVE  IInv'
<1>1. t \in Timers /\ UserTimers \subseteq Timers /\ t \notin Listed /\ time[t] \in Times
  BY DEF IInv, TypeOK, InsertOK, ReadTick, Timers
<1>2. /\ tick' = tick /\ time' = time /\ periodic' = periodic /\ isr' = isr
      /\ list' = list /\ active' = active
      /\ due' = [due EXCEPT ![t] = DueTick(time[t])]
      /\ left' = [left EXCEPT ![t] = time[t]]
      /\ pc' = [pc EXCEPT ![t] = "insert"]
  BY DEF ReadTick, options
<1>3. time[t] \in Nat /\ time[t] \in Int
  BY <1>1, TimesBelow
<1>4. DueTick(time[t]) = (tick + time[t]) % M /\ DueTick(time[t]) \in 0..(M - 1)
  <2>1. tick + time[t] \in Int
    BY <1>3 DEF IInv, ListOK
  <2> QED BY <2>1, Bounds, ModRange DEF DueTick
<1>5. due' \in [Timers -> 0..(M - 1)] /\ left' \in [Timers -> Int]
  BY <1>2, <1>3, <1>4 DEF IInv, ListOK
<1>6. TypeOK'
  BY <1>2, <1>5 DEF IInv, TypeOK
<1>7. \A v \in Listed : v \in Timers /\ due'[v] = due[v] /\ left'[v] = left[v]
  BY <1>1, <1>2, ListedTimers DEF IInv
<1>8. ListOK'
  <2>1. SortedBy(list', left')
    <3> SUFFICES ASSUME NEW j \in DOMAIN list, NEW k \in DOMAIN list, j < k
                 PROVE  list[j] # list[k] /\ left'[list[j]] <= left'[list[k]]
      BY <1>2 DEF SortedBy
    <3>1. list[j] \in Listed /\ list[k] \in Listed
      BY DEF Listed, Elements
    <3> QED BY <1>7, <3>1 DEF IInv, ListOK, SortedBy
  <2>2. \A v \in Listed' : Timed(v, -MaxLate - 1)'
    BY <1>2, <1>7 DEF IInv, ListOK, Timed, Listed
  <2> QED BY <1>2, <1>5, <2>1, <2>2 DEF IInv, ListOK
<1>9. ActiveListed'
  BY <1>2 DEF IInv, TypeOK, ActiveListed, Listed
<1>10. NoneOverdue'
  BY <1>2, <1>7 DEF IInv, NoneOverdue, Listed
<1>11. InsertOK'
  <2> SUFFICES ASSUME NEW v \in UserTimers, pc'[v] \in {"read", "insert"}
               PROVE  /\ v \notin Listed'
                      /\ pc'[v] = "insert" =>
                           /\ due'[v] = (tick' + left'[v]) % M
                           /\ time'[v] - MaxLate <= left'[v] /\ left'[v] <= time'[v]
    BY DEF InsertOK
  <2>0. Listed' = Listed
    BY <1>2 DEF Listed
  <2>1. CASE v = t
    <3>1. left'[t] = time[t] /\ due'[t] = (tick + time[t]) % M
      BY <1>1, <1>2, <1>4 DEF IInv, ListOK
    <3> QED BY <1>1, <1>2, <1>3, <2>0, <2>1, <3>1, Bounds
  <2>2. CASE v # t
    <3>1. pc'[v] = pc[v] /\ due'[v] = due[v] /\ left'[v] = left[v]
      BY <1>2, <2>2
    <3> QED BY <1>2, <2>0, <3>1 DEF IInv, InsertOK
  <2> QED BY <2>1, <2>2
<1> QED BY <1>6, <1>8, <1>9, <1>10, <1>11 DEF IInv

\* The owner inserts its timer, perhaps some ticks late.
LEMMA InsertTimerNewest ==
  ASSUME IInv, NEW t \in UserTimers, InsertTimer(t)
  PROVE  /\ ListOK' /\ Elements(list') = Listed \cup {t} /\ Newest(list', left', t)
         /\ -MaxLate <= left[t] /\ ~isr
<1>1. /\ t \in Timers /\ t \notin ThreadTimers /\ t \notin Listed /\ UserTimers \subseteq Timers
      /\ time[t] \in Times /\ pc[t] = "insert" /\ ~isr
  BY TimerAssumption DEF IInv, TypeOK, InsertOK, InsertTimer, Timers
<1>2. /\ tick' = tick /\ due' = due /\ left' = left /\ time' = time
      /\ periodic' = periodic /\ isr' = isr
      /\ active' = [active EXCEPT ![t] = TRUE] /\ pc' = [pc EXCEPT ![t] = "idle"]
      /\ Insert(list, t, due[t])
  BY DEF InsertTimer, options
<1>3. /\ left[t] \in Int /\ due[t] = (tick + left[t]) % M
      /\ -MaxLate <= left[t] /\ left[t] + MaxLate < Half
  <2>1. left[t] \in Int /\ due[t] = (tick + left[t]) % M
        /\ time[t] - MaxLate <= left[t] /\ left[t] <= time[t]
    BY <1>1 DEF IInv, InsertOK, ListOK
  <2>2. time[t] \in Nat /\ time[t] + MaxLate < Half
    BY <1>1, TimesBelow
  <2> QED BY <2>1, <2>2, Bounds
<1>4. ListOK' /\ Elements(list') = Listed \cup {t} /\ Newest(list', left', t)
  <2>1. /\ ListOK /\ list \in Seq(Timers) /\ SortedBy(list, left)
        /\ due' \in [Timers -> 0..(M - 1)] /\ left' \in [Timers -> Int]
    BY <1>2 DEF IInv, ListOK
  <2>2. Elements(list) \subseteq Listed /\ t \notin Elements(list)
    BY <1>1 DEF Listed
  <2>3. Insert(list, t, (tick + left[t]) % M)
    BY <1>2, <1>3
  <2>4. /\ due'[t] = (tick + left[t]) % M /\ left'[t] = left[t]
        /\ \A v \in Elements(list) : due'[v] = due[v] /\ left'[v] = left[v]
    BY <1>2, <1>3
  <2>5. PICK l \in Int : l = left[t]
    BY <1>3
  <2>6. ListOK' /\ Elements(list') = Elements(list) \cup {t} /\ Newest(list', left', t)
    BY <1>1, <1>2, <1>3, <2>1, <2>2, <2>3, <2>4, <2>5, InsertList
  <2> QED BY <2>6 DEF Listed
<1> QED BY <1>1, <1>3, <1>4

LEMMA InsertTimerStep ==
  ASSUME IInv, NEW t \in UserTimers, InsertTimer(t)
  PROVE  IInv'
<1>1. /\ t \in Timers /\ t \notin ThreadTimers /\ UserTimers \subseteq Timers
      /\ pc[t] = "insert" /\ ~isr
  BY TimerAssumption DEF InsertTimer, Timers
<1>2. /\ tick' = tick /\ due' = due /\ left' = left /\ time' = time
      /\ periodic' = periodic /\ isr' = isr
      /\ active' = [active EXCEPT ![t] = TRUE] /\ pc' = [pc EXCEPT ![t] = "idle"]
  BY DEF InsertTimer, options
<1>3. -MaxLate <= left[t]
  BY InsertTimerNewest
<1>4. ListOK' /\ Listed' = Listed \cup {t}
  BY InsertTimerNewest DEF Listed
<1>5. TypeOK'
  BY <1>2, <1>4 DEF IInv, TypeOK, ListOK
<1>6. ActiveListed'
  BY <1>1, <1>2, <1>4 DEF IInv, TypeOK, ActiveListed, Timers
<1>7. InsertOK'
  <2>1. ASSUME NEW v \in UserTimers, pc'[v] \in {"read", "insert"}
        PROVE  pc'[v] = pc[v] /\ v \notin Listed' /\ due'[v] = due[v] /\ left'[v] = left[v]
    <3>1. v # t /\ pc'[v] = pc[v]
      BY <1>2, <2>1 DEF IInv, TypeOK
    <3> QED BY <1>2, <1>4, <2>1, <3>1 DEF IInv, InsertOK
  <2> QED BY <1>2, <2>1, InsertUntouched DEF IInv
<1>8. NoneOverdue'
  BY <1>1, <1>2, <1>3, <1>4 DEF IInv, NoneOverdue
<1> QED BY <1>4, <1>5, <1>6, <1>7, <1>8 DEF IInv

\* The owner stops its timer or changes its options: the list stays as it is.
LEMMA OwnerStep ==
  ASSUME IInv, NEW t \in UserTimers, Stop(t) \/ Clear(t) \/ Control(t)
  PROVE  IInv'
<1>1. t \in Timers /\ t \notin ThreadTimers /\ UserTimers \subseteq Timers
  BY TimerAssumption DEF Timers
<1>2. tick' = tick /\ list' = list /\ due' = due /\ left' = left /\ isr' = isr
  BY DEF Stop, Clear, Control
<1>3. /\ time' \in [UserTimers -> Times] /\ periodic' \in [UserTimers -> BOOLEAN]
      /\ active' \in [Timers -> BOOLEAN]
      /\ pc' \in [UserTimers -> {"idle", "read", "insert", "unlist", "clear"}]
  BY <1>1 DEF IInv, TypeOK, Stop, Clear, Control, options
<1>4. /\ \A v \in UserTimers \ {t} : pc'[v] = pc[v] /\ active'[v] = active[v]
      /\ \A v \in UserTimers \ {t} : time'[v] = time[v]
      /\ \A v \in ThreadTimers : active'[v] = active[v]
  BY <1>1 DEF IInv, TypeOK, Stop, Clear, Control, options, Timers
<1>5. pc'[t] \notin {"read", "insert"}
  BY DEF IInv, TypeOK, Stop, Clear, Control
<1>6. active'[t] /\ pc'[t] \in {"idle", "unlist"} => active[t] /\ pc[t] \in {"idle", "unlist"}
  BY <1>1 DEF IInv, TypeOK, Stop, Clear, Control
<1>7. TypeOK'
  BY <1>2, <1>3 DEF IInv, TypeOK
<1>8. ListOK' /\ NoneOverdue'
  <2>1. ListOK' <=> ListOK
    BY <1>2 DEF ListOK, Timed, Listed
  <2> QED BY <1>2, <2>1 DEF IInv, NoneOverdue, Listed
<1>9. ActiveListed'
  <2>0. Listed' = Listed
    BY <1>2 DEF Listed
  <2>1. \A v \in ThreadTimers : active'[v] <=> v \in Listed'
    BY <1>4, <2>0 DEF IInv, ActiveListed
  <2>2. ASSUME NEW v \in UserTimers, active'[v], pc'[v] \in {"idle", "unlist"}
        PROVE  v \in Listed'
    BY <1>4, <1>6, <2>0, <2>2 DEF IInv, ActiveListed
  <2> QED BY <2>1, <2>2 DEF ActiveListed
<1>10. InsertOK'
  <2> SUFFICES ASSUME NEW v \in UserTimers, pc'[v] \in {"read", "insert"}
               PROVE  /\ v \notin Listed'
                      /\ pc'[v] = "insert" =>
                           /\ due'[v] = (tick' + left'[v]) % M
                           /\ time'[v] - MaxLate <= left'[v] /\ left'[v] <= time'[v]
    BY DEF InsertOK
  <2>1. v # t
    BY <1>5
  <2>2. pc'[v] = pc[v] /\ time'[v] = time[v]
    BY <1>4, <2>1
  <2> QED BY <1>2, <2>2 DEF IInv, InsertOK, Listed
<1> QED BY <1>7, <1>8, <1>9, <1>10 DEF IInv

\* A tick: what remains becomes less, of the timers that run.
LEMMA TickStep ==
  ASSUME IInv, Tick
  PROVE  IInv'
<1>1. /\ ~isr /\ tick' = (tick + 1) % M /\ isr' = TRUE
      /\ list' = list /\ due' = due /\ time' = time /\ periodic' = periodic
      /\ active' = active /\ pc' = pc /\ Listed' = Listed
      /\ \A t \in UserTimers : ~Late(t)
  BY DEF Tick, options, Listed
<1>2. left' = [t \in Timers |->
                 IF t \in Listed \/ (t \in UserTimers /\ pc[t] = "insert")
                 THEN left[t] - 1 ELSE left[t]]
  BY DEF Tick
<1>3. left' \in [Timers -> Int]
  BY <1>2 DEF IInv, ListOK
<1>4. ListOK'
  <2>1. \A v \in Listed : left'[v] = left[v] - 1
    BY <1>2, ListedTimers DEF IInv
  <2>2. \A v \in Listed : -MaxLate <= left[v]
    BY <1>1 DEF IInv, NoneOverdue
  <2> QED BY <1>1, <1>3, <2>1, <2>2, TickList DEF IInv
<1>5. TypeOK'
  BY <1>1, <1>3, <1>4 DEF IInv, TypeOK, ListOK
<1>6. ActiveListed' /\ NoneOverdue'
  BY <1>1 DEF IInv, ActiveListed, NoneOverdue
<1>7. InsertOK'
  <2> SUFFICES ASSUME NEW v \in UserTimers, pc'[v] \in {"read", "insert"}
               PROVE  /\ v \notin Listed'
                      /\ pc'[v] = "insert" =>
                           /\ due'[v] = (tick' + left'[v]) % M
                           /\ time'[v] - MaxLate <= left'[v] /\ left'[v] <= time'[v]
    BY DEF InsertOK
  <2>1. v \in Timers /\ v \notin Listed' /\ pc[v] = pc'[v]
    BY <1>1 DEF IInv, InsertOK, Timers
  <2>2. ASSUME pc'[v] = "insert"
        PROVE  /\ due'[v] = (tick' + left'[v]) % M
               /\ time'[v] - MaxLate <= left'[v] /\ left'[v] <= time'[v]
    <3>1. /\ due[v] = (tick + left[v]) % M /\ time[v] - MaxLate <= left[v]
          /\ left[v] <= time[v] /\ left[v] \in Int /\ tick \in Int
      BY <2>1, <2>2, Bounds DEF IInv, InsertOK, ListOK
    <3>2. left'[v] = left[v] - 1
      BY <1>2, <2>1, <2>2
    <3>3. ~(left[v] + MaxLate <= time[v])
      BY <1>1, <2>1, <2>2 DEF Late
    <3>4. time[v] \in Nat
      BY TimesBelow DEF IInv, TypeOK
    <3>5. due'[v] = (tick' + left'[v]) % M
      BY <1>1, <3>1, <3>2, TickTimed
    <3> QED BY <1>1, <3>1, <3>2, <3>3, <3>4, <3>5, Bounds
  <2> QED BY <2>1, <2>2
<1> QED BY <1>4, <1>5, <1>6, <1>7 DEF IInv

\* The head of the list is one of the timers in it, and no other has less time.
LEMMA HeadFacts ==
  ASSUME IInv, list # <<>>
  PROVE  /\ Head(list) \in Listed
         /\ \A v \in Listed : left[Head(list)] <= left[v]
<1>1. /\ 1 \in DOMAIN list /\ Head(list) = list[1] /\ list \in Seq(Timers)
      /\ DOMAIN list = 1..Len(list)
  BY DEF IInv, ListOK
<1>2. list[1] \in Listed
  BY <1>1 DEF Listed, Elements
<1>3. ASSUME NEW v \in Listed PROVE left[list[1]] <= left[v]
  <2>1. PICK k \in DOMAIN list : v = list[k]
    BY DEF Listed, Elements
  <2>2. left[list[1]] \in Int
    BY <1>2, ListedTimers DEF IInv
  <2>3. k = 1 \/ 1 < k
    BY <1>1
  <2>4. CASE k = 1
    BY <2>1, <2>2, <2>4
  <2>5. CASE 1 < k
    BY <1>1, <2>1, <2>5 DEF IInv, ListOK, SortedBy
  <2> QED BY <2>3, <2>4, <2>5
<1> QED BY <1>1, <1>2, <1>3

\* A timeout function is called: what becomes of the list.
LEMMA ExpireStep ==
  ASSUME IInv, Expire
  PROVE  IInv'
<1>1. PICK h : h = Head(list)
  OBVIOUS
<1>2. /\ isr /\ h \in Listed /\ h \in Timers /\ UserTimers \subseteq Timers
      /\ ThreadTimers \cap UserTimers = {} /\ Timers = ThreadTimers \cup UserTimers
  BY <1>1, HeadFacts, ListedTimers, TimerAssumption DEF IInv, Expire, Timers
<1>3. /\ tick' = tick /\ time' = time /\ periodic' = periodic /\ pc' = pc /\ isr' = isr
  BY DEF Expire, options
<1>4. NoneOverdue'
  BY <1>2, <1>3 DEF NoneOverdue
<1>5. CASE ThreadTimeout(h)
  <2>1. h \in ThreadTimers /\ Drop(h, h) /\ active' = [active EXCEPT ![h] = FALSE]
    BY <1>5 DEF ThreadTimeout
  <2>2. /\ ListOK' /\ Listed' = Listed \ {h}
        /\ \A v \in Timers \ {h} : due'[v] = due[v] /\ left'[v] = left[v]
        /\ list' \in Seq(Timers) /\ due' \in [Timers -> 0..(M - 1)]
        /\ left' \in [Timers -> Int]
    <3>1. {h, h} = {h}
      OBVIOUS
    <3>2. /\ ListOK' /\ Listed' = Listed \ {h, h}
          /\ \A v \in Timers \ {h, h} : due'[v] = due[v] /\ left'[v] = left[v]
          /\ list' \in Seq(Timers) /\ due' \in [Timers -> 0..(M - 1)]
          /\ left' \in [Timers -> Int]
      BY <1>2, <1>3, <2>1, DropInv
    <3> QED BY <3>1, <3>2
  <2>3. TypeOK'
    BY <1>3, <2>1, <2>2 DEF IInv, TypeOK
  <2>4. ActiveListed'
    BY <1>2, <1>3, <2>1, <2>2 DEF IInv, TypeOK, ActiveListed
  <2>5. InsertOK'
    BY <1>2, <1>3, <2>1, <2>2, InsertUntouched DEF IInv, InsertOK
  <2> QED BY <1>4, <2>2, <2>3, <2>4, <2>5 DEF IInv
<1>6. CASE UserTimeout(h)
  <2>1. h \in UserTimers /\ h \notin ThreadTimers
    BY <1>2, <1>6 DEF UserTimeout
  <2>2. PICK call \in {"none", "stop", "start"}, u \in {h} \cup (ThreadTimers \cap Listed) :
          /\ active' = [v \in Timers |->
                          IF v = h THEN ActiveAfter(h, call) ELSE active[v] /\ v # u]
          /\ IF Again(h, call) THEN Start(h, u, time[h]) ELSE Drop(h, u)
    BY <1>6 DEF UserTimeout
  <2>3. u \in Timers /\ u \in Listed /\ (u = h \/ (u \in ThreadTimers /\ u \notin UserTimers))
    BY <1>2, <2>2
  <2>4. /\ ListOK' /\ \A v \in Timers \ {h, u} : due'[v] = due[v] /\ left'[v] = left[v]
        /\ Listed' = IF Again(h, call) THEN (Listed \ {h, u}) \cup {h} ELSE Listed \ {h, u}
    <3>1. CASE Again(h, call)
      <4>1. Start(h, u, time[h]) /\ time[h] \in Times /\ ListOK
        BY <2>1, <2>2, <3>1 DEF IInv, TypeOK
      <4>2. /\ ListOK' /\ Elements(list') = (Listed \ {h, u}) \cup {h}
            /\ \A v \in Timers \ {h, u} : due'[v] = due[v] /\ left'[v] = left[v]
        BY <1>2, <1>3, <4>1, StartList
      <4> QED BY <3>1, <4>2 DEF Listed
    <3>2. CASE ~Again(h, call)
      <4>1. Drop(h, u)
        BY <2>2, <3>2
      <4> QED BY <1>2, <1>3, <2>3, <3>2, <4>1, DropInv
    <3> QED BY <3>1, <3>2
  <2>5. active' \in [Timers -> BOOLEAN]
    BY <2>2, <2>1 DEF IInv, TypeOK, ActiveAfter
  <2>6. TypeOK'
    BY <1>3, <2>4, <2>5 DEF IInv, TypeOK, ListOK
  <2>7. ActiveListed'
    <3>1. ASSUME NEW v \in ThreadTimers PROVE active'[v] <=> v \in Listed'
      <4>1. v \in Timers /\ v # h
        BY <1>2, <2>1
      <4>2. active'[v] <=> active[v] /\ v # u
        BY <2>2, <4>1
      <4>3. active[v] <=> v \in Listed
        BY DEF IInv, ActiveListed
      <4>4. v \in Listed' <=> v \in Listed /\ v # u
        BY <2>4, <4>1
      <4> QED BY <4>2, <4>3, <4>4
    <3>2. ASSUME NEW v \in UserTimers, active'[v], pc'[v] \in {"idle", "unlist"}
          PROVE  v \in Listed'
      <4>1. CASE v = h
        <5>1. ActiveAfter(h, call)
          BY <1>2, <2>2, <3>2, <4>1
        <5>2. Again(h, call)
          BY <5>1 DEF ActiveAfter, Again
        <5> QED BY <2>4, <4>1, <5>2
      <4>2. CASE v # h
        <5>1. v \in Timers /\ v # u
          BY <1>2, <2>3, <4>2
        <5>2. active[v]
          BY <2>2, <3>2, <4>2, <5>1
        <5>3. v \in Listed
          BY <1>3, <3>2, <5>2 DEF IInv, ActiveListed
        <5> QED BY <2>4, <4>2, <5>1, <5>3
      <4> QED BY <4>1, <4>2
    <3> QED BY <3>1, <3>2 DEF ActiveListed
  <2>8. InsertOK'
    <3>1. ASSUME NEW v \in UserTimers, pc'[v] \in {"read", "insert"}
          PROVE  pc'[v] = pc[v] /\ v \notin Listed' /\ due'[v] = due[v] /\ left'[v] = left[v]
      <4>1. v \notin Listed /\ pc'[v] = pc[v]
        BY <1>3, <3>1 DEF IInv, InsertOK
      <4>2. v \in Timers \ {h, u}
        BY <1>2, <2>3, <4>1
      <4> QED BY <2>4, <4>1, <4>2
    <3> QED BY <1>3, <3>1, InsertUntouched DEF IInv
  <2> QED BY <1>4, <2>4, <2>6, <2>7, <2>8 DEF IInv
<1> QED BY <1>1, <1>5, <1>6 DEF Expire

\* When the interrupt returns, time remains of every timer in the list.
LEMMA LeaveRemains ==
  ASSUME IInv, Leave
  PROVE  \A t \in Listed : left[t] > 0
<1> SUFFICES ASSUME NEW t \in Listed PROVE left[t] > 0
  OBVIOUS
<1>1. list # <<>>
  BY DEF Listed, Elements
<1>2. Head(list) \in Listed /\ left[Head(list)] <= left[t]
  BY <1>1, HeadFacts
<1>3. ~(left[Head(list)] <= 0)
  BY <1>1, <1>2, ExpiredIs DEF IInv, Leave
<1>4. left[Head(list)] \in Int /\ left[t] \in Int
  BY <1>2, ListedTimers DEF IInv
<1> QED BY <1>2, <1>3, <1>4

LEMMA LeaveStep ==
  ASSUME IInv, Leave
  PROVE  IInv'
<1>1. UNCHANGED <<tick, list, due, time, periodic, active, pc, left>> /\ isr' = FALSE
  BY DEF Leave, options
<1>2. TypeOK' /\ ActiveListed' /\ InsertOK'
  BY <1>1 DEF IInv, TypeOK, ActiveListed, InsertOK, Listed
<1>3. ListOK'
  BY <1>1 DEF IInv, ListOK, Timed, Listed
<1>4. NoneOverdue'
  <2> SUFFICES ASSUME NEW v \in Listed PROVE -MaxLate <= left'[v]
    BY <1>1 DEF NoneOverdue, Listed
  <2>1. left[v] > 0 /\ left[v] \in Int
    BY LeaveRemains, ListedTimers DEF IInv
  <2> QED BY <1>1, <2>1, Bounds
<1> QED BY <1>2, <1>3, <1>4 DEF IInv

LEMMA NextInv == IInv /\ [Next]_vars => IInv'
<1> SUFFICES ASSUME IInv, [Next]_vars PROVE IInv'
  OBVIOUS
<1>1. ASSUME NEW t \in ThreadTimers, Sleep(t) \/ Resume(t) PROVE IInv'
  BY <1>1, SleepStep, ResumeStep
<1>2. ASSUME NEW t \in UserTimers,
             Remove(t) \/ Stop(t) \/ Control(t) \/ Continue(t)
      PROVE  IInv'
  BY <1>2, UnlistStep, OwnerStep, ReadTickStep, InsertTimerStep DEF Continue
<1>3. CASE Tick
  BY <1>3, TickStep
<1>4. CASE Check
  BY <1>4, ExpireStep, LeaveStep DEF Check
<1>5. CASE UNCHANGED vars
  <2>1. UNCHANGED <<tick, list, due, time, periodic, active, pc, isr, left>>
    BY <1>5 DEF vars, options
  <2> QED BY <2>1
    DEF IInv, TypeOK, ListOK, SortedBy, Timed, ActiveListed, InsertOK, NoneOverdue, Listed
<1> QED BY <1>1, <1>2, <1>3, <1>4, <1>5 DEF Next

LEMMA Invariance == Spec => []IInv
BY InitInv, NextInv, PTL DEF Spec

(***************************************************************************)
(* The theorems.                                                           *)
(***************************************************************************)

\* Type correctness.
THEOREM TypeCorrect == Spec => []TypeOK
<1>1. IInv => TypeOK
  BY DEF IInv
<1> QED BY <1>1, Invariance, PTL

\* The list is sorted by the time that remains, across the wrap of the tick
\* (timer.c 330-358 and 504).
THEOREM SortedCorrect == Spec => []Sorted
<1>1. IInv => Sorted
  BY DEF IInv, ListOK, SortedBy, Sorted
<1> QED BY <1>1, Invariance, PTL

\* An active timer is in the list, while its owner is not in the middle of a
\* call; the timer of a thread is active exactly while it is (timer.c 393-403,
\* 418-437 and 518-534).
THEOREM ActiveListedCorrect == Spec => []ActiveListed
<1>1. IInv => ActiveListed
  BY DEF IInv
<1> QED BY <1>1, Invariance, PTL

\* No timeout function is called early, and the interrupt leaves no timer behind
\* that is due (timer.c 495-534).
THEOREM PunctualCorrect == Spec => Punctual
<1> DEFINE Step ==
      /\ CallsTimer => left[Head(list)] <= 0
      /\ isr /\ ~isr' => \A t \in Listed : left[t] > 0
<1>1. IInv /\ [Next]_vars => [Step]_vars
  <2> SUFFICES ASSUME IInv, Next, vars' # vars PROVE Step
    OBVIOUS
  <2>1. CASE ~isr
    BY <2>1 DEF CallsTimer
  <2>2. CASE isr
    <3>1. Expire \/ Leave
      BY <2>2 DEF Next, Sleep, Resume, Remove, Stop, Control, Continue,
                  ReadTick, InsertTimer, Unlist, Clear, Tick, Check
    <3>2. CASE Expire
      <4>1. Head(list) \in Listed /\ Expired(Head(list)) /\ isr' = isr
        BY <3>2, HeadFacts DEF Expire
      <4>2. left[Head(list)] <= 0
        BY <4>1, ExpiredIs DEF IInv
      <4> QED BY <2>2, <4>1, <4>2
    <3>3. CASE Leave
      BY <3>3, LeaveRemains DEF Leave, CallsTimer
    <3> QED BY <3>1, <3>2, <3>3
  <2> QED BY <2>1, <2>2
<1> QED BY <1>1, Invariance, PTL DEF Spec, Punctual

\* A timer that is inserted comes after those that are due no later.
LEMMA InsertedNewest ==
  ASSUME IInv, Next, NEW t \in Timers, Inserted(t)
  PROVE  Newest(list', left', t)
<1> USE DEF Inserted
<1>1. ASSUME NEW x \in ThreadTimers, Sleep(x)
      PROVE  Newest(list', left', t)
  <2>1. x \in Timers /\ tick' = tick /\ ~isr
    BY <1>1 DEF Sleep, Timers
  <2>2. PICK n \in Waits : Start(x, x, n)
    BY <1>1 DEF Sleep
  <2>3. Elements(list') = (Listed \ {x, x}) \cup {x} /\ Newest(list', left', x)
    BY <2>1, <2>2, StartList DEF IInv
  <2>4. t = x
    BY <2>1, <2>3 DEF Listed
  <2> QED BY <2>3, <2>4
<1>2. ASSUME NEW x \in UserTimers, InsertTimer(x)
      PROVE  Newest(list', left', t)
  <2>1. Elements(list') = Listed \cup {x} /\ Newest(list', left', x) /\ ~isr
    BY <1>2, InsertTimerNewest
  <2>2. t = x
    BY <2>1 DEF Listed
  <2> QED BY <2>1, <2>2
<1>3. CASE Expire
  <2>1. PICK h : h = Head(list)
    OBVIOUS
  <2>2. isr /\ h \in Listed /\ h \in Timers /\ tick' = tick /\ isr' = isr
    BY <1>3, <2>1, HeadFacts, ListedTimers DEF IInv, Expire
  <2>3. CASE ThreadTimeout(h)
    <3>1. Drop(h, h)
      BY <2>3 DEF ThreadTimeout
    <3>2. Elements(list') = Listed \ {h, h}
      BY <2>2, <3>1, DropList DEF IInv
    <3> QED BY <2>1, <3>2 DEF Listed
  <2>4. CASE UserTimeout(h)
    <3>1. h \in UserTimers
      BY <2>4 DEF UserTimeout
    <3>2. PICK call \in {"none", "stop", "start"}, u \in {h} \cup (ThreadTimers \cap Listed) :
            IF Again(h, call) THEN Start(h, u, time[h]) ELSE Drop(h, u)
      BY <2>4 DEF UserTimeout
    <3>3. CASE Again(h, call)
      <4>1. Start(h, u, time[h]) /\ time[h] \in Times
        BY <3>1, <3>2, <3>3 DEF IInv, TypeOK
      <4>2. Elements(list') = (Listed \ {h, u}) \cup {h} /\ Newest(list', left', h)
        BY <2>2, <4>1, StartList DEF IInv
      <4>3. t = h
        BY <2>1, <2>2, <4>2 DEF Listed
      <4> QED BY <4>2, <4>3
    <3>4. CASE ~Again(h, call)
      <4>1. Drop(h, u)
        BY <3>2, <3>4
      <4>2. Elements(list') = Listed \ {h, u}
        BY <2>2, <4>1, DropList DEF IInv
      <4> QED BY <2>1, <2>2, <4>2 DEF Listed
    <3> QED BY <3>3, <3>4
  <2> QED BY <1>3, <2>1, <2>3, <2>4 DEF Expire
<1>4. ASSUME NEW x \in Timers, Drop(x, x), tick' = tick, ~isr
      PROVE  FALSE
  <2>1. Elements(list') = Listed \ {x, x}
    BY <1>4, DropList DEF IInv
  <2> QED BY <1>4, <2>1 DEF Listed
<1>5. ASSUME NEW x \in ThreadTimers, Resume(x)
      PROVE  FALSE
  <2>1. x \in Timers /\ Drop(x, x) /\ tick' = tick /\ ~isr
    BY <1>5 DEF Resume, Timers
  <2> QED BY <1>4, <2>1
<1>6. ASSUME NEW x \in UserTimers, Remove(x) \/ Unlist(x)
      PROVE  FALSE
  <2>1. x \in Timers /\ Drop(x, x) /\ tick' = tick /\ ~isr
    BY <1>6 DEF Remove, Unlist, Timers
  <2> QED BY <1>4, <2>1
<1>7. ASSUME list' = list, ~(isr /\ isr')
      PROVE  FALSE
  BY <1>7 DEF Listed
<1>8. ASSUME NEW x \in UserTimers, Stop(x) \/ Control(x) \/ ReadTick(x) \/ Clear(x)
      PROVE  FALSE
  BY <1>7, <1>8 DEF Stop, Control, ReadTick, Clear
<1>9. ~Tick /\ ~Leave
  BY <1>7 DEF Tick, Leave
<1> QED BY <1>1, <1>2, <1>3, <1>5, <1>6, <1>8, <1>9 DEF Next, Check, Continue

\* In a sorted list the places follow the time that remains, and those before a
\* timer that has just been inserted are those due no later.
LEMMA PlaceOrder ==
  ASSUME NEW s \in Seq(Timers), NEW f \in [Timers -> Int], SortedBy(s, f),
         NEW j \in DOMAIN s, NEW k \in DOMAIN s, s[j] # s[k], Newest(s, f, s[k])
  PROVE  f[s[j]] <= f[s[k]] <=> j < k
<1>1. j \in Int /\ k \in Int /\ j # k /\ f[s[j]] \in Int /\ f[s[k]] \in Int
  OBVIOUS
<1>2. j < k => f[s[j]] <= f[s[k]]
  BY DEF SortedBy
<1>3. k < j => f[s[k]] < f[s[j]]
  BY DEF Newest
<1> QED BY <1>1, <1>2, <1>3

\* Of two timers due at the same tick the one inserted first is called first
\* (timer.c 342-346).
THEOREM FirstInFirstCorrect == Spec => FirstInFirstCalled
<1> DEFINE Step ==
      \A t \in Timers : Inserted(t) =>
        \A u \in (Listed \cap Listed') \ {t} :
          left'[u] <= left'[t] <=> Place(u)' < Place(t)'
<1>1. IInv /\ IInv' /\ [Next]_vars => [Step]_vars
  <2> SUFFICES ASSUME IInv, IInv', Next,
                      NEW t \in Timers, Inserted(t), NEW u \in (Listed \cap Listed') \ {t}
               PROVE  left'[u] <= left'[t] <=> Place(u)' < Place(t)'
    OBVIOUS
  <2>1. PICK s, f : s = list' /\ f = left'
    OBVIOUS
  <2>2. s \in Seq(Timers) /\ f \in [Timers -> Int] /\ SortedBy(s, f)
    BY <2>1 DEF IInv, ListOK
  <2>3. t \in Elements(s) /\ u \in Elements(s) /\ u # t
    BY <2>1 DEF Inserted, Listed
  <2>4. Newest(s, f, t)
    BY <2>1, InsertedNewest
  <2>5. /\ Place(u)' \in DOMAIN list' /\ list'[Place(u)'] = u
        /\ Place(t)' \in DOMAIN list' /\ list'[Place(t)'] = t
    BY <2>1, <2>3 DEF Place, Elements
  <2>6. PICK j, k : j = Place(u)' /\ k = Place(t)'
    OBVIOUS
  <2>7. j \in DOMAIN s /\ s[j] = u /\ k \in DOMAIN s /\ s[k] = t
    BY <2>1, <2>5, <2>6
  <2>8. f[u] <= f[t] <=> j < k
    BY <2>2, <2>3, <2>4, <2>7, PlaceOrder
  <2> QED BY <2>1, <2>6, <2>8
<1>2. IInv /\ [Next]_vars => IInv'
  BY NextInv
<1> QED BY <1>1, <1>2, Invariance, PTL DEF Spec, FirstInFirstCalled
=============================================================================
