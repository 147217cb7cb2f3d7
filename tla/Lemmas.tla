------------------------------- MODULE Lemmas -------------------------------
(***************************************************************************)
(* Lemmas that the proofs of several modules rest on.                      *)
(***************************************************************************)
EXTENDS KernelList, Integers, SequenceTheorems, TLAPS

(***************************************************************************)
(* Lists of threads and other sequences without repetition: what is in     *)
(* them, and in which order, after an insertion or a removal.              *)
(***************************************************************************)

\* A new element at the end.
LEMMA AppendSeq ==
  ASSUME NEW S, NEW s \in Seq(S), NEW x \in S
  PROVE  /\ Append(s, x) \in Seq(S)
         /\ Len(Append(s, x)) = Len(s) + 1
         /\ Elements(Append(s, x)) = Elements(s) \cup {x}
         /\ Distinct(s) /\ x \notin Elements(s) => Distinct(Append(s, x))
<1> DEFINE a == Append(s, x)
<1>1. a \in Seq(S) /\ Len(a) = Len(s) + 1 /\ DOMAIN a = 1..(Len(s) + 1) /\ Len(s) \in Nat
      /\ DOMAIN s = 1..Len(s)
  OBVIOUS
<1>2. (\A k \in 1..Len(s) : a[k] = s[k]) /\ a[Len(s) + 1] = x
  OBVIOUS
<1> HIDE DEF a
<1>3. Elements(a) = Elements(s) \cup {x}
  BY <1>1, <1>2 DEF Elements
<1>4. ASSUME Distinct(s), x \notin Elements(s) PROVE Distinct(a)
  BY <1>1, <1>2, <1>4 DEF Distinct, Elements
<1> QED BY <1>1, <1>3, <1>4 DEF a

\* A new element at the front.
LEMMA PushSeq ==
  ASSUME NEW S, NEW s \in Seq(S), NEW x \in S
  PROVE  /\ <<x>> \o s \in Seq(S)
         /\ Len(<<x>> \o s) = Len(s) + 1
         /\ (<<x>> \o s)[1] = x
         /\ \A k \in 1..Len(s) : (<<x>> \o s)[k + 1] = s[k]
         /\ Elements(<<x>> \o s) = Elements(s) \cup {x}
         /\ Distinct(s) /\ x \notin Elements(s) => Distinct(<<x>> \o s)
<1> DEFINE a == <<x>> \o s
<1>1. <<x>> \in Seq(S) /\ Len(<<x>>) = 1 /\ <<x>>[1] = x
  OBVIOUS
<1>2. a \in Seq(S) /\ Len(a) = 1 + Len(s)
      /\ \A i \in 1..(1 + Len(s)) : a[i] = IF i <= 1 THEN <<x>>[i] ELSE s[i - 1]
  BY <1>1, ConcatProperties
<1> HIDE DEF a
<1>3. Len(s) \in Nat /\ DOMAIN s = 1..Len(s) /\ DOMAIN a = 1..(Len(s) + 1)
  BY <1>2, LenProperties
<1>4. a[1] = x
  BY <1>1, <1>2, <1>3
<1>5. \A k \in 1..Len(s) : a[k + 1] = s[k]
  <2> SUFFICES ASSUME NEW k \in 1..Len(s) PROVE a[k + 1] = s[k]
    OBVIOUS
  <2>1. PICK i \in 1..(1 + Len(s)) : i = k + 1
    BY <1>3
  <2> QED BY <1>2, <1>3, <2>1
<1>6. \A i \in DOMAIN a : i = 1 \/ \E k \in 1..Len(s) : i = k + 1
  <2> SUFFICES ASSUME NEW i \in DOMAIN a, i # 1 PROVE \E k \in 1..Len(s) : i = k + 1
    OBVIOUS
  <2>1. i - 1 \in 1..Len(s) /\ i = (i - 1) + 1
    BY <1>3
  <2> QED BY <2>1
<1>7. Elements(a) = Elements(s) \cup {x}
  <2>1. \A i \in DOMAIN a : a[i] = x \/ \E k \in DOMAIN s : a[i] = s[k]
    BY <1>3, <1>4, <1>5, <1>6
  <2>2. \A k \in DOMAIN s : k + 1 \in DOMAIN a /\ a[k + 1] = s[k]
    BY <1>3, <1>5
  <2>3. 1 \in DOMAIN a
    BY <1>3
  <2> QED BY <1>4, <2>1, <2>2, <2>3 DEF Elements
<1>8. ASSUME Distinct(s), x \notin Elements(s) PROVE Distinct(a)
  <2> SUFFICES ASSUME NEW i \in DOMAIN a, NEW j \in DOMAIN a, a[i] = a[j] PROVE i = j
    BY DEF Distinct
  <2>1. \A k \in 1..Len(s) : a[k + 1] # x
    BY <1>3, <1>5, <1>8 DEF Elements
  <2>2. CASE i = 1
    BY <1>4, <1>6, <2>1, <2>2
  <2>3. CASE j = 1
    BY <1>4, <1>6, <2>1, <2>3
  <2>4. CASE i # 1 /\ j # 1
    <3>1. PICK k \in 1..Len(s) : i = k + 1
      BY <1>6, <2>4
    <3>2. PICK l \in 1..Len(s) : j = l + 1
      BY <1>6, <2>4
    <3>3. s[k] = s[l]
      BY <1>5, <3>1, <3>2
    <3> QED BY <1>3, <1>8, <3>1, <3>2, <3>3 DEF Distinct
  <2> QED BY <2>2, <2>3, <2>4
<1> QED BY <1>2, <1>3, <1>4, <1>5, <1>7, <1>8 DEF a

\* The first element leaves.
LEMMA TailSeq ==
  ASSUME NEW S, NEW s \in Seq(S), s # <<>>, Distinct(s)
  PROVE  /\ Tail(s) \in Seq(S) /\ Len(Tail(s)) = Len(s) - 1 /\ Head(s) \in S
         /\ Head(s) \in Elements(s)
         /\ Elements(Tail(s)) = Elements(s) \ {Head(s)}
         /\ Distinct(Tail(s))
<1>1. Tail(s) \in Seq(S) /\ Len(Tail(s)) = Len(s) - 1 /\ Head(s) = s[1]
      /\ DOMAIN s = 1..Len(s) /\ DOMAIN Tail(s) = 1..(Len(s) - 1)
      /\ Len(s) \in Nat \ {0}
      /\ Head(s) \in S
  OBVIOUS
<1>2. \A k \in 1..(Len(s) - 1) : Tail(s)[k] = s[k + 1]
  OBVIOUS
<1>3. Distinct(Tail(s))
  BY <1>1, <1>2 DEF Distinct
<1>4. Elements(Tail(s)) = Elements(s) \ {Head(s)}
  <2>1. ASSUME NEW k \in 1..(Len(s) - 1) PROVE Tail(s)[k] \in Elements(s) \ {s[1]}
    <3>1. k + 1 \in DOMAIN s /\ 1 \in DOMAIN s /\ k + 1 # 1
      BY <1>1
    <3> QED BY <1>2, <3>1 DEF Distinct, Elements
  <2>2. ASSUME NEW k \in DOMAIN s, s[k] # s[1] PROVE s[k] \in Elements(Tail(s))
    <3>1. PICK j \in 1..(Len(s) - 1) : k = j + 1
      <4>1. k # 1
        BY <2>2
      <4>2. k - 1 \in 1..(Len(s) - 1) /\ k = (k - 1) + 1
        BY <1>1, <4>1
      <4> QED BY <4>2
    <3> QED BY <1>1, <1>2, <3>1 DEF Elements
  <2> QED BY <1>1, <2>1, <2>2 DEF Elements
<1>5. Head(s) \in Elements(s)
  BY <1>1 DEF Elements
<1> QED BY <1>1, <1>3, <1>4, <1>5

\* One element leaves from any place.
LEMMA WithoutSeq ==
  ASSUME NEW S, NEW s \in Seq(S), NEW x \in Elements(s), Distinct(s)
  PROVE  /\ Without(s, x) \in Seq(S)
         /\ Elements(Without(s, x)) = Elements(s) \ {x}
         /\ Distinct(Without(s, x))
         /\ \A j, k \in DOMAIN Without(s, x) : j < k =>
              \E i, l \in DOMAIN s :
                i < l /\ Without(s, x)[j] = s[i] /\ Without(s, x)[k] = s[l]
<1>1. PICK place : place = CHOOSE k \in DOMAIN s : s[k] = x
  OBVIOUS
<1>2. place \in DOMAIN s /\ s[place] = x
  BY <1>1 DEF Elements
<1>3. Len(s) \in Nat /\ DOMAIN s = 1..Len(s) /\ \A k \in 1..Len(s) : s[k] \in S
  OBVIOUS
<1>4. PICK m : m = Len(s) - 1
  OBVIOUS
<1>5. m \in Nat
  BY <1>2, <1>3, <1>4
<1>6. PICK w : w = [k \in 1..m |-> IF k < place THEN s[k] ELSE s[k + 1]]
  OBVIOUS
<1>7. Without(s, x) = w
  BY <1>1, <1>4, <1>6 DEF Without
<1>8. \A k \in 1..m : k \in 1..Len(s) /\ k + 1 \in 1..Len(s)
  BY <1>3, <1>4, <1>5
<1>9. \A k \in 1..m : (k < place => w[k] = s[k]) /\ (~(k < place) => w[k] = s[k + 1])
  BY <1>6
<1>10. DOMAIN w = 1..m
  BY <1>6
<1>11. \A k \in 1..m : w[k] \in S
  BY <1>3, <1>8, <1>9
<1>12. w \in Seq(S)
  <2>1. w \in [1..m -> S]
    BY <1>6, <1>11
  <2> QED BY <1>5, <2>1, SeqDef
<1>13. \A k \in DOMAIN s : k # place => \E j \in DOMAIN w : w[j] = s[k]
  <2> SUFFICES ASSUME NEW k \in DOMAIN s, k # place PROVE \E j \in DOMAIN w : w[j] = s[k]
    OBVIOUS
  <2>1. CASE k < place
    <3>1. k \in 1..m
      BY <1>2, <1>3, <1>4, <2>1
    <3> QED BY <1>9, <1>10, <2>1, <3>1
  <2>2. CASE ~(k < place)
    <3>1. PICK j : j = k - 1
      OBVIOUS
    <3>2. j \in 1..m /\ ~(j < place) /\ j + 1 = k
      BY <1>2, <1>3, <1>4, <2>2, <3>1
    <3> QED BY <1>9, <1>10, <3>2
  <2> QED BY <2>1, <2>2
<1>14. \A k \in DOMAIN w : \E j \in DOMAIN s : j # place /\ w[k] = s[j]
                           /\ j = IF k < place THEN k ELSE k + 1
  <2> SUFFICES ASSUME NEW k \in 1..m
               PROVE \E j \in DOMAIN s : j # place /\ w[k] = s[j]
                                         /\ j = IF k < place THEN k ELSE k + 1
    BY <1>10
  <2>1. CASE k < place
    BY <1>2, <1>3, <1>8, <1>9, <2>1
  <2>2. CASE ~(k < place)
    <3>1. PICK j : j = k + 1
      OBVIOUS
    <3>2. j \in DOMAIN s /\ j # place /\ w[k] = s[j]
      BY <1>2, <1>3, <1>8, <1>9, <2>2, <3>1
    <3> QED BY <2>2, <3>1, <3>2
  <2> QED BY <2>1, <2>2
<1>15. Elements(w) = Elements(s) \ {x}
  BY <1>2, <1>13, <1>14 DEF Elements, Distinct
<1>16. Distinct(w)
  <2> SUFFICES ASSUME NEW j \in DOMAIN w, NEW k \in DOMAIN w, w[j] = w[k] PROVE j = k
    BY DEF Distinct
  <2>1. PICK i \in DOMAIN s : w[j] = s[i] /\ i = IF j < place THEN j ELSE j + 1
    BY <1>14
  <2>2. PICK l \in DOMAIN s : w[k] = s[l] /\ l = IF k < place THEN k ELSE k + 1
    BY <1>14
  <2>3. i = l
    BY <2>1, <2>2 DEF Distinct
  <2> QED BY <1>2, <1>3, <1>5, <1>10, <2>1, <2>2, <2>3
<1>17. \A j, k \in DOMAIN w : j < k =>
         \E i, l \in DOMAIN s : i < l /\ w[j] = s[i] /\ w[k] = s[l]
  <2> SUFFICES ASSUME NEW j \in DOMAIN w, NEW k \in DOMAIN w, j < k
               PROVE  \E i, l \in DOMAIN s : i < l /\ w[j] = s[i] /\ w[k] = s[l]
    OBVIOUS
  <2>1. PICK i \in DOMAIN s : w[j] = s[i] /\ i = IF j < place THEN j ELSE j + 1
    BY <1>14
  <2>2. PICK l \in DOMAIN s : w[k] = s[l] /\ l = IF k < place THEN k ELSE k + 1
    BY <1>14
  <2>3. i < l
    BY <1>2, <1>3, <1>5, <1>10, <2>1, <2>2
  <2> QED BY <2>1, <2>2, <2>3
<1> QED BY <1>7, <1>12, <1>15, <1>16, <1>17

\* A new element at any place.
LEMMA InsertAtSeq ==
  ASSUME NEW S, NEW s \in Seq(S), NEW x \in S, NEW p \in 1..(Len(s) + 1)
  PROVE  /\ InsertAt(s, x, p) \in Seq(S)
         /\ Elements(InsertAt(s, x, p)) = Elements(s) \cup {x}
         /\ Distinct(s) /\ x \notin Elements(s) => Distinct(InsertAt(s, x, p))
<1>1. PICK n : n = Len(s)
  OBVIOUS
<1>2. n \in Nat /\ DOMAIN s = 1..n /\ \A k \in 1..n : s[k] \in S
  BY <1>1
<1>3. PICK a : a = [k \in 1..(n + 1) |-> IF k < p THEN s[k] ELSE IF k = p THEN x ELSE s[k - 1]]
  OBVIOUS
<1>4. InsertAt(s, x, p) = a
  BY <1>1, <1>3 DEF InsertAt
<1>5. DOMAIN a = 1..(n + 1)
  BY <1>3
<1>6. \A k \in 1..(n + 1) : a[k] = IF k < p THEN s[k] ELSE IF k = p THEN x ELSE s[k - 1]
  BY <1>3
<1>7. p \in 1..(n + 1) /\ a[p] = x
  BY <1>1, <1>2, <1>6
<1>8. \A k \in 1..(n + 1) : k # p =>
        \E j \in 1..n : a[k] = s[j] /\ j = IF k < p THEN k ELSE k - 1
  <2> SUFFICES ASSUME NEW k \in 1..(n + 1), k # p
               PROVE  \E j \in 1..n : a[k] = s[j] /\ j = IF k < p THEN k ELSE k - 1
    OBVIOUS
  <2>1. CASE k < p
    <3>1. k \in 1..n
      BY <1>2, <1>7, <2>1
    <3> QED BY <1>6, <2>1, <3>1
  <2>2. CASE ~(k < p)
    <3>1. k - 1 \in 1..n
      BY <1>2, <1>7, <2>2
    <3> QED BY <1>6, <2>2, <3>1
  <2> QED BY <2>1, <2>2
<1>9. \A j \in 1..n : \E k \in 1..(n + 1) : a[k] = s[j]
  <2> SUFFICES ASSUME NEW j \in 1..n PROVE \E k \in 1..(n + 1) : a[k] = s[j]
    OBVIOUS
  <2>1. CASE j < p
    <3>1. j \in 1..(n + 1)
      BY <1>2
    <3> QED BY <1>6, <2>1, <3>1
  <2>2. CASE ~(j < p)
    <3>1. PICK k : k = j + 1
      OBVIOUS
    <3>2. k \in 1..(n + 1) /\ ~(k < p) /\ k # p /\ k - 1 = j
      BY <1>2, <1>7, <2>2, <3>1
    <3> QED BY <1>6, <3>2
  <2> QED BY <2>1, <2>2
<1>10. \A k \in 1..(n + 1) : a[k] \in S
  BY <1>2, <1>7, <1>8
<1>11. a \in Seq(S)
  <2>1. n + 1 \in Nat
    BY <1>2
  <2>2. a \in [1..(n + 1) -> S]
    BY <1>3, <1>10
  <2> QED BY <2>1, <2>2, SeqDef
<1>12. Elements(a) = Elements(s) \cup {x}
  <2>1. \A k \in 1..(n + 1) : a[k] = x \/ \E j \in 1..n : a[k] = s[j]
    BY <1>7, <1>8
  <2>2. Elements(a) \subseteq Elements(s) \cup {x}
    BY <1>2, <1>5, <2>1 DEF Elements
  <2>3. Elements(s) \subseteq Elements(a)
    BY <1>2, <1>5, <1>9 DEF Elements
  <2>4. x \in Elements(a)
    BY <1>5, <1>7 DEF Elements
  <2> QED BY <2>2, <2>3, <2>4
<1>13. ASSUME Distinct(s), x \notin Elements(s) PROVE Distinct(a)
  <2> SUFFICES ASSUME NEW j \in 1..(n + 1), NEW k \in 1..(n + 1), a[j] = a[k] PROVE j = k
    BY <1>5 DEF Distinct
  <2>1. \A i \in 1..n : s[i] # x
    BY <1>2, <1>13 DEF Elements
  <2>2. CASE j = p
    BY <1>7, <1>8, <2>1, <2>2
  <2>3. CASE k = p
    BY <1>7, <1>8, <2>1, <2>3
  <2>4. CASE j # p /\ k # p
    <3>1. PICK i \in 1..n : a[j] = s[i] /\ i = IF j < p THEN j ELSE j - 1
      BY <1>8, <2>4
    <3>2. PICK l \in 1..n : a[k] = s[l] /\ l = IF k < p THEN k ELSE k - 1
      BY <1>8, <2>4
    <3>3. i = l
      BY <1>2, <1>13, <3>1, <3>2 DEF Distinct
    <3> QED BY <1>2, <1>7, <2>4, <3>1, <3>2, <3>3
  <2> QED BY <2>2, <2>3, <2>4
<1> QED BY <1>4, <1>11, <1>12, <1>13

(***************************************************************************)
(* Remainders, which the proofs about 16-bit integers, about angles and    *)
(* about ticks that wrap around rest on.  The solver knows quotient and    *)
(* remainder only one number at a time.                                    *)
(***************************************************************************)

\* What division leaves is below the divisor.
LEMMA ModRange ==
  ASSUME NEW x \in Int, NEW M \in Nat \ {0}
  PROVE  x % M \in 0..(M - 1)
OBVIOUS

LEMMA ModSmall ==
  ASSUME NEW M \in Nat \ {0}, NEW x \in 0..(M - 1)
  PROVE  x % M = x
OBVIOUS

LEMMA ModQuotient ==
  ASSUME NEW M \in Nat \ {0}, NEW x \in Int
  PROVE  x \div M \in Int /\ x = M * (x \div M) + (x % M)
OBVIOUS

\* Quotient and remainder are unique.
LEMMA MultipleIsLarge ==
  ASSUME NEW M \in Nat \ {0}, NEW d \in Nat \ {0}
  PROVE  M * d >= M
OBVIOUS

LEMMA RemainderUnique ==
  ASSUME NEW M \in Nat \ {0}, NEW a \in Int, NEW b \in Int,
         NEW r \in 0..(M - 1), NEW s \in 0..(M - 1),
         M * a + r = M * b + s
  PROVE  r = s
<1>1. M * (a - b) = s - r
  OBVIOUS
<1>2. ~(a - b >= 1)
  <2>1. a - b >= 1 => M * (a - b) >= M
    BY MultipleIsLarge
  <2> QED BY <2>1, <1>1
<1>3. ~(b - a >= 1)
  <2>1. b - a >= 1 => M * (b - a) >= M
    BY MultipleIsLarge
  <2>2. M * (b - a) = r - s
    BY <1>1
  <2> QED BY <2>1, <2>2
<1>4. a = b
  BY <1>2, <1>3
<1> QED BY <1>4

LEMMA ShiftedRemainder ==
  ASSUME NEW M \in Nat \ {0}, NEW x \in Int, NEW k \in Int,
         NEW q \in Int, NEW p \in Int,
         NEW r \in 0..(M - 1), NEW s \in 0..(M - 1),
         x = M * q + r, x + M * k = M * p + s
  PROVE  r = s
<1>1. M * (q + k) + r = M * p + s
  <2>1. M * (q + k) = M * q + M * k
    OBVIOUS
  <2>2. M * q \in Int /\ M * k \in Int /\ M * p \in Int
    OBVIOUS
  <2> QED BY <2>1, <2>2
<1>2. q + k \in Int
  OBVIOUS
<1> QED BY <1>1, <1>2, RemainderUnique

\* A multiple of the divisor leaves nothing.
LEMMA ModShift ==
  ASSUME NEW M \in Nat \ {0}, NEW x \in Int, NEW k \in Int
  PROVE  (x + M * k) % M = x % M
<1>1. x \div M \in Int /\ x = M * (x \div M) + (x % M) /\ x % M \in 0..(M - 1)
  BY ModQuotient, ModRange
<1>2. PICK y \in Int : y = x + M * k
  OBVIOUS
<1>3. y \div M \in Int /\ y = M * (y \div M) + (y % M) /\ y % M \in 0..(M - 1)
  BY ModQuotient, ModRange
<1>4. x + M * k = M * (y \div M) + (y % M)
  BY <1>2, <1>3
<1>5. x % M = y % M
  <2>1. PICK q \in Int : q = x \div M
    BY <1>1
  <2>2. PICK p \in Int : p = y \div M
    BY <1>3
  <2>3. PICK r \in 0..(M - 1) : r = x % M
    BY <1>1
  <2>4. PICK s \in 0..(M - 1) : s = y % M
    BY <1>3
  <2>5. x = M * q + r /\ x + M * k = M * p + s
    BY <1>1, <1>4, <2>1, <2>2, <2>3, <2>4
  <2>6. r = s
    BY ONLY <2>5, ShiftedRemainder, M \in Nat \ {0}, x \in Int, k \in Int,
            q \in Int, p \in Int, r \in 0..(M - 1), s \in 0..(M - 1)
  <2> QED BY <2>3, <2>4, <2>6
<1> QED BY <1>2, <1>5

\* One turn below zero.
LEMMA ModNegative ==
  ASSUME NEW M \in Nat \ {0}, NEW x \in Int, -M <= x, x < 0
  PROVE  x % M = x + M
<1>1. PICK k \in Int : k = 1
  OBVIOUS
<1>2. (x + M * k) % M = x % M
  BY ModShift
<1>3. x + M * k = x + M /\ x + M \in 0..(M - 1)
  BY <1>1
<1>4. (x + M) % M = x + M
  BY <1>3, ModSmall
<1> QED BY <1>2, <1>3, <1>4

\* Differences may be taken of remainders.
LEMMA ModDifference ==
  ASSUME NEW M \in Nat \ {0}, NEW a \in Int, NEW b \in Int
  PROVE  ((a % M) - (b % M)) % M = (a - b) % M
<1>1. PICK q \in Int, r \in 0..(M - 1) : r = a % M /\ a = M * q + r
  BY ModQuotient, ModRange
<1>2. PICK p \in Int, s \in 0..(M - 1) : s = b % M /\ b = M * p + s
  BY ModQuotient, ModRange
<1>3. a - b = (r - s) + M * (q - p)
  <2>1. M * (q - p) = M * q - M * p
    OBVIOUS
  <2>2. M * q \in Int /\ M * p \in Int
    OBVIOUS
  <2> QED BY <1>1, <1>2, <2>1, <2>2
<1>4. PICK d \in Int, k \in Int : d = r - s /\ k = q - p
  OBVIOUS
<1>5. (d + M * k) % M = d % M
  BY ModShift
<1>6. a - b = d + M * k
  BY <1>3, <1>4
<1> QED BY <1>1, <1>2, <1>4, <1>5, <1>6

\* Sums may be taken of remainders.
LEMMA ModSum ==
  ASSUME NEW M \in Nat \ {0}, NEW a \in Int, NEW b \in Int
  PROVE  ((a % M) + b) % M = (a + b) % M
<1>1. PICK q \in Int, r \in 0..(M - 1) : r = a % M /\ a = M * q + r
  BY ModQuotient, ModRange
<1>2. a + b = (r + b) + M * q
  <2>1. M * q \in Int
    OBVIOUS
  <2> QED BY <1>1, <2>1
<1>3. PICK d \in Int : d = r + b
  OBVIOUS
<1>4. (d + M * q) % M = d % M
  BY ModShift
<1> QED BY <1>1, <1>2, <1>3, <1>4
=============================================================================
