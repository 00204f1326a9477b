---------------------------- MODULE KernelProofs ----------------------------
(***************************************************************************)
(* What the kernel guarantees whatever its tasks are: its lists agree, no  *)
(* tick is lost and no period drifts, and it is the scheduler of Scheduler.*)
(*                                                                         *)
(* IInv is inductive.  Queues, Homes and Sleepers are about the lists,     *)
(* Control and Runner about who is where in the code, Idlers gives PendSV  *)
(* a task to dispatch, and Periods is the arithmetic of xTaskDelayUntil    *)
(* modulo the length of the tick count.                                    *)
(***************************************************************************)
EXTENDS Kernel, TLAPS, FiniteSetTheorems, NaturalsInduction, WellFoundedInduction

(***************************************************************************)
(* Numbers.                                                                *)
(***************************************************************************)
LEMMA Modulus == M \in Nat /\ M > 1 /\ MaxTick = M - 1 /\ MaxTick \in Nat \ {0}
  BY KernelAssumption DEF M

LEMMA Residue ==
  ASSUME NEW x \in Int, NEW q \in Int, NEW r \in 0 .. MaxTick, x = q * M + r
  PROVE  x % M = r
  BY Modulus

LEMMA Division ==
  ASSUME NEW x \in Int, NEW m \in Int, m > 0
  PROVE  x \div m \in Int /\ x = (x \div m) * m + (x % m)
<1>1. x = (x \div m) * m + (x % m)
  OBVIOUS
<1>2. x \div m \in Int
  OBVIOUS
<1>3. QED
  BY <1>1, <1>2

LEMMA Multiples ==
  ASSUME NEW p \in Int, NEW q \in Int
  PROVE  p * M \in Int /\ (p + q) * M = p * M + q * M /\ (p - q) * M = p * M - q * M
<1>1. ASSUME NEW m \in Int PROVE (p + q) * m = p * m + q * m
  OBVIOUS
<1>2. ASSUME NEW m \in Int PROVE (p - q) * m = p * m - q * m
  OBVIOUS
<1>3. M \in Int
  BY Modulus
<1>4. QED
  BY <1>1, <1>2, <1>3

LEMMA Divided ==
  ASSUME NEW x \in Int, NEW r, r = x % M
  PROVE  r \in 0 .. MaxTick /\ \E q \in Int : x = q * M + r
<1> DEFINE d == x \div M
<1>1. r \in 0 .. MaxTick
  BY Modulus
<1>2. d \in Int /\ x = d * M + r
  <2>1. M \in Int /\ M > 0
    BY Modulus
  <2>2. QED
    BY <2>1, Division
<1> HIDE DEF d
<1>3. QED
  BY <1>1, <1>2

LEMMA Congruent ==
  ASSUME NEW x \in Int, NEW y \in Int, NEW q \in Int, x = y + q * M
  PROVE  x % M = y % M
<1> DEFINE r == y % M
<1>0. r = y % M
  OBVIOUS
<1> HIDE DEF r
<1>1. r \in 0 .. MaxTick /\ MaxTick \in Nat /\ \E p \in Int : y = p * M + r
  BY <1>0, Divided, Modulus
<1>2. PICK p \in Int : y = p * M + r
  BY <1>1
<1> DEFINE a == p * M
           b == q * M
           c == (p + q) * M
<1>3. a \in Int /\ b \in Int /\ c = a + b
  BY Multiples
<1>4. x = y + b /\ y = a + r
  BY <1>2
<1> HIDE DEF a, b, c
<1>5. x = c + r
  BY <1>1, <1>3, <1>4
<1>6. x % M = r
  BY <1>1, <1>5, Residue DEF c
<1>7. QED
  BY <1>6 DEF r

LEMMA Wrapped ==
  ASSUME NEW x \in Int
  PROVE  /\ x \in 0 .. MaxTick => x % M = x
         /\ x \in M .. M + MaxTick => x % M = x - M
         /\ x \in -MaxTick .. -1 => x % M = x + M
<1>1. ASSUME x \in 0 .. MaxTick PROVE x % M = x
  <2>1. x = 0 * M + x
    BY Modulus
  <2>2. QED
    BY <1>1, <2>1, Residue
<1>2. ASSUME x \in M .. M + MaxTick PROVE x % M = x - M
  <2>1. x = 1 * M + (x - M) /\ x - M \in 0 .. MaxTick
    BY <1>2, Modulus
  <2>2. QED
    BY <2>1, Residue
<1>3. ASSUME x \in -MaxTick .. -1 PROVE x % M = x + M
  <2>1. x = (-1) * M + (x + M) /\ x + M \in 0 .. MaxTick
    BY <1>3, Modulus
  <2>2. QED
    BY <2>1, Residue
<1>4. QED
  BY <1>1, <1>2, <1>3

\* The next tick.
LEMMA NextTick ==
  ASSUME NEW n \in 0 .. MaxTick
  PROVE  (n + 1) % M = IF n = MaxTick THEN 0 ELSE n + 1
<1>1. CASE n = MaxTick
  BY <1>1, Wrapped, Modulus
<1>2. CASE n # MaxTick
  BY <1>2, Wrapped, Modulus
<1>3. QED
  BY <1>1, <1>2

LEMMA AddedMod ==
  ASSUME NEW x \in Int, NEW y \in Int
  PROVE  ((x % M) + y) % M = (x + y) % M
<1> DEFINE r == x % M
<1>0. r = x % M
  OBVIOUS
<1> HIDE DEF r
<1>1. r \in 0 .. MaxTick /\ MaxTick \in Nat /\ \E q \in Int : x = q * M + r
  BY <1>0, Divided, Modulus
<1>2. PICK q \in Int : x = q * M + r
  BY <1>1
<1>3. q * M \in Int
  BY Multiples
<1>4. x + y = (r + y) + q * M /\ r + y \in Int
  BY <1>1, <1>2, <1>3
<1>5. (x + y) % M = (r + y) % M
  BY <1>4, Congruent
<1>6. QED
  BY <1>5 DEF r

LEMMA Least ==
  ASSUME NEW T \in SUBSET Nat, T # {}
  PROVE  \E x \in T : \A y \in T : x <= y
<1>1. PICK x \in T : \A y \in T : ~ (<<y, x>> \in OpToRel(<, Nat))
  BY NatLessThanWellFounded, WFMin
<1>2. \A y \in T : ~ (y < x)
  BY <1>1 DEF OpToRel
<1>3. \A y \in T : x <= y
  <2>1. TAKE y \in T
  <2>2. x \in Nat /\ y \in Nat /\ ~ (y < x)
    BY <1>2
  <2>3. QED
    BY <2>2
<1>4. QED
  BY <1>3

\* There are finitely many levels: a set of them has a greatest.
LEMMA Greatest ==
  ASSUME NEW P \in SUBSET Levels, P # {}
  PROVE  \E p \in P : \A q \in P : q <= p
<1> DEFINE n == Len(Creation)
           At(j) == Priority[Creation[j]]
           Bounded(i) == \E b \in Nat : \A j \in 1 .. i : At(j) <= b
           Bad == {i \in 0 .. n : ~Bounded(i)}
<1>1. /\ n \in Nat /\ \A j \in 1 .. n : At(j) \in Nat
      /\ \A p \in Levels : \E j \in 1 .. n : At(j) = p
  BY KernelAssumption DEF Levels
<1> HIDE DEF n, At
<1>2. Bad = {}
  <2>1. SUFFICES ASSUME Bad # {} PROVE FALSE
    OBVIOUS
  <2>2. Bad \in SUBSET Nat
    BY <1>1
  <2> HIDE DEF Bad
  <2>3. PICK i \in Bad : \A j \in Bad : i <= j
    BY <2>1, <2>2, Least
  <2>4. i \in 0 .. n /\ ~Bounded(i)
    BY DEF Bad
  <2>5. i # 0
    BY <2>4
  <2>6. i - 1 \in 0 .. n /\ i - 1 \notin Bad
    BY <1>1, <2>2, <2>3, <2>4, <2>5
  <2>7. Bounded(i - 1)
    BY <2>6 DEF Bad
  <2>8. PICK b \in Nat : \A j \in 1 .. (i - 1) : At(j) <= b
    BY <2>7
  <2> DEFINE c == IF At(i) <= b THEN b ELSE At(i)
  <2>9. At(i) \in Nat /\ i \in 1 .. n
    BY <1>1, <2>4, <2>5
  <2>10. c \in Nat /\ b <= c /\ At(i) <= c
    BY <2>9
  <2> HIDE DEF c
  <2>11. \A j \in 1 .. i : At(j) <= c
    BY <1>1, <2>8, <2>9, <2>10
  <2>12. QED
    BY <2>4, <2>10, <2>11
<1>3. Bounded(n)
  <2>1. n \in 0 .. n
    BY <1>1
  <2>2. QED
    BY <1>2, <2>1
<1>4. PICK b \in Nat : \A j \in 1 .. n : At(j) <= b
  BY <1>3
<1>5. P \subseteq Nat /\ \A p \in P : p <= b
  BY <1>1, <1>4
<1> DEFINE Gaps == {b - p : p \in P}
<1>6. Gaps \in SUBSET Nat /\ Gaps # {}
  <2>1. \A p \in P : p \in Nat /\ b - p \in Nat
    BY <1>5
  <2>2. QED
    BY <2>1
<1> HIDE DEF Gaps
<1>7. PICK m \in Gaps : \A g \in Gaps : m <= g
  BY <1>6, Least
<1>8. PICK p \in P : m = b - p
  BY DEF Gaps
<1>9. \A q \in P : b - p <= b - q
  BY <1>7, <1>8 DEF Gaps
<1>10. \A q \in P : q <= p
  BY <1>5, <1>9
<1>11. QED
  BY <1>10

-----------------------------------------------------------------------------
(***************************************************************************)
(* Lists.                                                                  *)
(***************************************************************************)
\* Nothing is in a list twice.
Once(s) == \A i, j \in 1 .. Len(s) : s[i] = s[j] => i = j

\* The items are in the order of their values.
Sorted(s, value) == \A i, j \in 1 .. Len(s) : i < j => value[s[i]] <= value[s[j]]

LEMMA MembersAre ==
  ASSUME NEW X, NEW s \in Seq(X)
  PROVE  /\ Members(s) = {s[k] : k \in 1 .. Len(s)} /\ Members(s) \subseteq X
         /\ Members(s) = {} <=> s = << >>
  BY DEF Members

LEMMA InsertedItems ==
  ASSUME NEW X, NEW s \in Seq(X), NEW t \in X, NEW k \in 0 .. Len(s)
  PROVE  /\ InsertAt(s, k, t) \in Seq(X)
         /\ Len(InsertAt(s, k, t)) = Len(s) + 1
         /\ \A i \in 1 .. Len(s) + 1 :
              InsertAt(s, k, t)[i] = IF i <= k THEN s[i] ELSE IF i = k + 1 THEN t ELSE s[i - 1]
<1> DEFINE a == SubSeq(s, 1, k)
           b == SubSeq(s, k + 1, Len(s))
<1>1. a \in Seq(X) /\ Len(a) = k /\ \A i \in 1 .. k : a[i] = s[i]
  OBVIOUS
<1>2. b \in Seq(X) /\ Len(b) = Len(s) - k /\ \A i \in 1 .. Len(s) - k : b[i] = s[k + i]
  OBVIOUS
<1>3. InsertAt(s, k, t) = a \o <<t>> \o b
  BY DEF InsertAt
<1> HIDE DEF a, b
<1>4. /\ a \o <<t>> \in Seq(X) /\ Len(a \o <<t>>) = k + 1
      /\ \A i \in 1 .. k + 1 : (a \o <<t>>)[i] = IF i <= k THEN s[i] ELSE t
  BY <1>1
<1> DEFINE c == a \o <<t>>
<1>5. InsertAt(s, k, t) = c \o b
  BY <1>3
<1>6. /\ c \in Seq(X) /\ Len(c) = k + 1 /\ k \in Nat /\ Len(s) \in Nat /\ k <= Len(s)
      /\ \A i \in 1 .. k + 1 : c[i] = IF i <= k THEN s[i] ELSE t
  BY <1>4
<1> HIDE DEF c
<1>7. /\ c \o b \in Seq(X) /\ Len(c \o b) = Len(s) + 1
      /\ \A i \in 1 .. Len(s) + 1 : (c \o b)[i] = IF i <= k + 1 THEN c[i] ELSE b[i - (k + 1)]
  BY <1>2, <1>6
<1>8. \A i \in 1 .. Len(s) + 1 : i > k + 1 => b[i - (k + 1)] = s[i - 1]
  <2>1. TAKE i \in 1 .. Len(s) + 1
  <2>2. HAVE i > k + 1
  <2>3. i - (k + 1) \in 1 .. Len(s) - k /\ k + (i - (k + 1)) = i - 1
    BY <1>6, <2>2
  <2>4. QED
    BY <1>2, <2>3
<1>9. QED
  BY <1>5, <1>6, <1>7, <1>8

LEMMA Inserted ==
  ASSUME NEW X, NEW s \in Seq(X), NEW t \in X, NEW k \in 0 .. Len(s)
  PROVE  /\ Members(InsertAt(s, k, t)) = Members(s) \cup {t}
         /\ Once(s) /\ t \notin Members(s) => Once(InsertAt(s, k, t))
<1> DEFINE r == InsertAt(s, k, t)
<1>1. /\ r \in Seq(X) /\ Len(r) = Len(s) + 1 /\ Len(s) \in Nat
      /\ \A i \in 1 .. Len(s) + 1 :
           r[i] = IF i <= k THEN s[i] ELSE IF i = k + 1 THEN t ELSE s[i - 1]
  BY InsertedItems
<1>2. /\ Members(r) = {r[i] : i \in 1 .. Len(s) + 1}
      /\ Members(s) = {s[i] : i \in 1 .. Len(s)}
  BY <1>1, MembersAre
<1> HIDE DEF r
<1>3. Members(r) \subseteq Members(s) \cup {t}
  BY <1>1, <1>2, SMTT(30)
<1>4. t \in Members(r)
  <2>1. k + 1 \in 1 .. Len(s) + 1 /\ r[k + 1] = t
    BY <1>1
  <2>2. QED
    BY <1>2, <2>1
<1>5. ASSUME NEW i \in 1 .. Len(s) PROVE s[i] \in Members(r)
  <2>1. CASE i <= k
    BY <1>1, <1>2, <2>1
  <2>2. CASE i > k
    <3>1. i + 1 \in 1 .. Len(s) + 1 /\ r[i + 1] = s[i]
      BY <1>1, <2>2
    <3>2. QED
      BY <1>2, <3>1
  <2>3. QED
    BY <2>1, <2>2
<1>6. ASSUME Once(s), t \notin Members(s) PROVE Once(r)
  <2>1. \A i \in 1 .. Len(s) : s[i] # t
    BY <1>2, <1>6
  <2>2. \A i \in 1 .. Len(s) + 1 :
           \/ i <= k /\ i \in 1 .. Len(s) /\ r[i] = s[i]
           \/ i = k + 1 /\ r[i] = t
           \/ i > k + 1 /\ i - 1 \in 1 .. Len(s) /\ r[i] = s[i - 1]
    BY <1>1
  <2>3. SUFFICES ASSUME NEW i \in 1 .. Len(s) + 1, NEW j \in 1 .. Len(s) + 1, r[i] = r[j]
                 PROVE  i = j
    BY <1>1 DEF Once
  <2>4. \A x, y \in 1 .. Len(s) : s[x] = s[y] => x = y
    BY <1>6 DEF Once
  <2>5. CASE i = k + 1 \/ j = k + 1
    BY <2>1, <2>2, <2>3, <2>5
  <2>6. CASE i # k + 1 /\ j # k + 1
    <3> DEFINE from(x) == IF x <= k THEN x ELSE x - 1
    <3>1. from(i) \in 1 .. Len(s) /\ r[i] = s[from(i)]
      BY <2>2, <2>6
    <3>2. from(j) \in 1 .. Len(s) /\ r[j] = s[from(j)]
      BY <2>2, <2>6
    <3>3. from(i) = from(j)
      BY <2>3, <2>4, <3>1, <3>2
    <3>4. QED
      BY <2>6, <3>3
  <2>7. QED
    BY <2>5, <2>6
<1>7. QED
  BY <1>2, <1>3, <1>4, <1>5, <1>6 DEF r

LEMMA RemovedItems ==
  ASSUME NEW X, NEW s \in Seq(X), NEW k \in 1 .. Len(s)
  PROVE  /\ RemoveAt(s, k) \in Seq(X)
         /\ Len(RemoveAt(s, k)) = Len(s) - 1
         /\ \A i \in 1 .. Len(s) - 1 :
              RemoveAt(s, k)[i] = IF i < k THEN s[i] ELSE s[i + 1]
<1> DEFINE a == SubSeq(s, 1, k - 1)
           b == SubSeq(s, k + 1, Len(s))
<1>1. a \in Seq(X) /\ Len(a) = k - 1 /\ \A i \in 1 .. k - 1 : a[i] = s[i]
  OBVIOUS
<1>2. b \in Seq(X) /\ Len(b) = Len(s) - k /\ \A i \in 1 .. Len(s) - k : b[i] = s[k + i]
  OBVIOUS
<1>3. RemoveAt(s, k) = a \o b
  BY DEF RemoveAt
<1> HIDE DEF a, b
<1>4. /\ a \o b \in Seq(X) /\ Len(a \o b) = Len(s) - 1 /\ Len(s) \in Nat
      /\ \A i \in 1 .. Len(s) - 1 : (a \o b)[i] = IF i <= k - 1 THEN a[i] ELSE b[i - (k - 1)]
  BY <1>1, <1>2
<1>5. ASSUME NEW i \in 1 .. Len(s) - 1
      PROVE  (a \o b)[i] = IF i < k THEN s[i] ELSE s[i + 1]
  <2>1. CASE i < k
    <3>1. i \in 1 .. k - 1 /\ i <= k - 1
      BY <1>4, <2>1
    <3>2. QED
      BY <1>1, <1>4, <2>1, <3>1
  <2>2. CASE ~(i < k)
    <3>1. /\ i - (k - 1) \in 1 .. Len(s) - k /\ k + (i - (k - 1)) = i + 1 /\ ~(i <= k - 1)
      BY <1>4, <2>2
    <3>2. (a \o b)[i] = b[i - (k - 1)]
      BY <1>4, <3>1
    <3>3. b[i - (k - 1)] = s[k + (i - (k - 1))]
      BY <1>2, <3>1
    <3>4. QED
      BY <2>2, <3>1, <3>2, <3>3
  <2>3. QED
    BY <2>1, <2>2
<1>6. QED
  BY <1>3, <1>4, <1>5

LEMMA Removed ==
  ASSUME NEW X, NEW s \in Seq(X), NEW k \in 1 .. Len(s), Once(s)
  PROVE  /\ Members(RemoveAt(s, k)) = Members(s) \ {s[k]}
         /\ Once(RemoveAt(s, k))
<1> DEFINE r == RemoveAt(s, k)
<1>a. /\ r \in Seq(X) /\ Len(r) = Len(s) - 1
      /\ \A i \in 1 .. Len(s) - 1 : r[i] = IF i < k THEN s[i] ELSE s[i + 1]
  BY RemovedItems, Zenon
<1> HIDE DEF r
<1>1. /\ r \in Seq(X) /\ Len(r) = Len(s) - 1 /\ Len(s) \in Nat
      /\ \A i \in 1 .. Len(s) - 1 : r[i] = IF i < k THEN s[i] ELSE s[i + 1]
  BY <1>a
<1>2. /\ Members(r) = {r[i] : i \in 1 .. Len(s) - 1}
      /\ Members(s) = {s[i] : i \in 1 .. Len(s)}
  BY <1>1, MembersAre
<1> DEFINE from(i) == IF i < k THEN i ELSE i + 1
<1>b. ASSUME NEW i \in 1 .. Len(s) - 1
      PROVE  from(i) \in 1 .. Len(s) /\ from(i) # k /\ r[i] = s[from(i)]
  BY <1>1
<1>c. ASSUME NEW i \in 1 .. Len(s), NEW j \in 1 .. Len(s), s[i] = s[j] PROVE i = j
  BY <1>c DEF Once
<1>3. Once(r)
  <2>1. SUFFICES ASSUME NEW i \in 1 .. Len(s) - 1, NEW j \in 1 .. Len(s) - 1, r[i] = r[j]
                 PROVE  i = j
    BY <1>1 DEF Once
  <2>2. from(i) \in 1 .. Len(s) /\ r[i] = s[from(i)]
    BY <1>b
  <2>3. from(j) \in 1 .. Len(s) /\ r[j] = s[from(j)]
    BY <1>b
  <2>4. s[from(i)] = s[from(j)]
    BY <2>1, <2>2, <2>3
  <2>5. from(i) = from(j)
    BY <1>c, <2>2, <2>3, <2>4, Zenon
  <2>6. QED
    BY <2>5
<1>4. Members(r) \subseteq Members(s) \ {s[k]}
  <2>1. SUFFICES ASSUME NEW i \in 1 .. Len(s) - 1 PROVE r[i] \in Members(s) \ {s[k]}
    BY <1>2
  <2>2. from(i) \in 1 .. Len(s) /\ from(i) # k /\ r[i] = s[from(i)]
    BY <1>b
  <2> HIDE DEF from
  <2>3. s[from(i)] # s[k]
    BY <1>c, <2>2, Zenon
  <2>4. QED
    BY <1>2, <2>2, <2>3
<1>5. ASSUME NEW i \in 1 .. Len(s), i # k PROVE s[i] \in Members(r)
  <2>1. CASE i < k
    BY <1>1, <1>2, <2>1
  <2>2. CASE i > k
    <3>1. i - 1 \in 1 .. Len(s) - 1 /\ r[i - 1] = s[i]
      BY <1>1, <2>2
    <3>2. QED
      BY <1>2, <3>1
  <2>3. QED
    BY <1>5, <2>1, <2>2
<1>6. QED
  BY <1>2, <1>3, <1>4, <1>5 DEF r

LEMMA Placed ==
  ASSUME NEW X, NEW s \in Seq(X), NEW t \in Members(s)
  PROVE  Place(s, t) \in 1 .. Len(s) /\ s[Place(s, t)] = t
  BY DEF Place, Members

LEMMA Headless ==
  ASSUME NEW X, NEW s \in Seq(X), s # << >>, Once(s)
  PROVE  /\ Head(s) = s[1] /\ Head(s) \in Members(s)
         /\ Tail(s) \in Seq(X) /\ Once(Tail(s)) /\ Members(Tail(s)) = Members(s) \ {Head(s)}
         /\ Len(Tail(s)) = Len(s) - 1
         /\ \A i \in 1 .. Len(s) - 1 : Tail(s)[i] = s[i + 1]
<1> DEFINE r == Tail(s)
<1>1. /\ r \in Seq(X) /\ Len(r) = Len(s) - 1 /\ Len(s) \in Nat \ {0} /\ Head(s) = s[1]
      /\ \A i \in 1 .. Len(s) - 1 : r[i] = s[i + 1]
  OBVIOUS
<1> HIDE DEF r
<1>2. /\ Members(r) = {r[i] : i \in 1 .. Len(s) - 1}
      /\ Members(s) = {s[i] : i \in 1 .. Len(s)}
  BY <1>1, MembersAre
<1>3. Once(r)
  BY <1>1 DEF Once
<1>4. Members(r) \subseteq Members(s) \ {s[1]}
  BY <1>1, <1>2 DEF Once
<1>5. ASSUME NEW i \in 1 .. Len(s), i # 1 PROVE s[i] \in Members(r)
  <2>1. i - 1 \in 1 .. Len(s) - 1 /\ r[i - 1] = s[i]
    BY <1>1, <1>5
  <2>2. QED
    BY <1>2, <2>1
<1>6. QED
  BY <1>1, <1>2, <1>3, <1>4, <1>5 DEF r

LEMMA Appended ==
  ASSUME NEW X, NEW s \in Seq(X), NEW t \in X
  PROVE  /\ Append(s, t) \in Seq(X) /\ Members(Append(s, t)) = Members(s) \cup {t}
         /\ Once(s) /\ t \notin Members(s) => Once(Append(s, t))
<1> DEFINE r == Append(s, t)
<1>1. /\ r \in Seq(X) /\ Len(r) = Len(s) + 1 /\ Len(s) \in Nat
      /\ \A i \in 1 .. Len(s) + 1 : r[i] = IF i <= Len(s) THEN s[i] ELSE t
  OBVIOUS
<1> HIDE DEF r
<1>2. /\ Members(r) = {r[i] : i \in 1 .. Len(s) + 1}
      /\ Members(s) = {s[i] : i \in 1 .. Len(s)}
  BY <1>1, MembersAre
<1>3. Members(r) \subseteq Members(s) \cup {t} /\ t \in Members(r)
  BY <1>1, <1>2
<1>4. ASSUME NEW i \in 1 .. Len(s) PROVE s[i] \in Members(r)
  BY <1>1, <1>2
<1>5. ASSUME Once(s), t \notin Members(s) PROVE Once(r)
  <2>1. \A i \in 1 .. Len(s) : s[i] # t
    BY <1>2, <1>5
  <2>2. QED
    BY <1>1, <1>5, <2>1 DEF Once
<1>6. QED
  BY <1>1, <1>2, <1>3, <1>4, <1>5 DEF r

-----------------------------------------------------------------------------
(***************************************************************************)
(* The invariant.                                                          *)
(***************************************************************************)
Queue(p) == ready[p].items
Sleeps(t) == t \in Members(delayed) \/ t \in Members(overflow)
Blocked(t) == t \in Members(blocked)

KernelType ==
  /\ created \in 0 .. Len(Creation) /\ started \in BOOLEAN
  /\ current \in Tasks \cup {None}
  /\ {yieldPending, pendSV, masked, switch} \subseteq BOOLEAN
  /\ busy \in {"no", "isr", "resume"} /\ suspended \in {0, 1}
  /\ pended \in 0 .. MaxPended
TimeType ==
  /\ tick \in 0 .. MaxTick /\ nextUnblock \in 0 .. MaxTick /\ clock \in 0 .. MaxTick
  /\ late \in [Tasks -> Int] /\ lastWake \in [Tasks -> 0 .. MaxTick \cup {None}]
CodeType ==
  /\ pc \in [Tasks -> {"run", "place", "resume", "unwind", "yield"}]
  /\ call \in [Tasks -> CallSet \cup {None}]
ReadyType == ready \in [Levels -> ListType] /\ top \in SUBSET Levels
WaitType ==
  /\ delayed \in Seq(Tasks) /\ overflow \in Seq(Tasks) /\ blocked \in Seq(Tasks)
  /\ wake \in [Tasks -> 0 .. MaxTick]
Types == KernelType /\ TimeType /\ CodeType /\ ReadyType /\ WaitType

\* Each ready list has the tasks of its priority, and a bit when it is not empty.
Queues ==
  /\ top = {p \in Levels : Queue(p) # << >>}
  /\ \A p \in Levels : /\ Once(Queue(p)) /\ ready[p].index <= Len(Queue(p))
                       /\ \A t \in Members(Queue(p)) : Priority[t] = p

\* A task that exists is in one list.
Homes ==
  /\ Once(delayed) /\ Once(overflow) /\ Once(blocked)
  /\ \A t \in Tasks :
       /\ Exists(t) <=> InReady(t) \/ Sleeps(t) \/ Blocked(t)
       /\ ~(InReady(t) /\ (Sleeps(t) \/ Blocked(t))) /\ ~(Sleeps(t) /\ Blocked(t))
       /\ ~(t \in Members(delayed) /\ t \in Members(overflow))

\* How far the kernel's calls and handlers are, and what then cannot be.
Inside == current \in Tasks /\ pc[current] \in {"place", "resume"}
Control ==
  /\ started => created = Len(Creation) /\ current \in Tasks
  /\ current = None <=> created = 0
  /\ ~started => /\ busy = "no" /\ ~pendSV /\ suspended = 0 /\ pended = 0 /\ ~yieldPending
                 /\ delayed = << >> /\ overflow = << >> /\ blocked = << >>
                 /\ tick = 0 /\ clock = 0
                 /\ \A t \in Tasks : pc[t] = "run" /\ lastWake[t] = None
  /\ \A t \in Tasks : t # current => pc[t] \in {"run", "yield"}
  /\ suspended = 1 <=> Inside
  /\ Inside => busy = "no" /\ ~pendSV
  /\ busy = "isr" => pc[current] \in {"run", "yield"} /\ ~pendSV
  /\ busy = "resume" => pc[current] = "unwind" /\ pended > 0 /\ ~pendSV
  /\ started /\ pc[current] = "unwind" => masked /\ busy # "isr" /\ ~pendSV

\* The running task is ready until a switch is pending, and the highest.
Runner ==
  /\ started /\ ~pendSV /\ pc[current] \in {"run", "place"} => InReady(current)
  /\ started /\ ~pendSV /\ pc[current] = "run" =>
       \A p \in top : p <= Priority[current] \/ (busy = "isr" /\ switch)
  /\ ~started /\ created > 0 => /\ InReady(current)
                                /\ \A p \in top : p <= Priority[current]

\* The idle task is always ready.
Idlers == \A t \in Tasks : Calls[t] = {} => pc[t] = "run" /\ (Exists(t) => InReady(t))

\* The sleepers, while a tick is worked off as well.
Sleepers ==
  /\ Sorted(delayed, wake) /\ Sorted(overflow, wake)
  /\ \A t \in Members(delayed) : wake[t] >= tick /\ (busy = "no" => wake[t] > tick)
  /\ \A t \in Members(overflow) : wake[t] < tick
  /\ delayed # << >> => nextUnblock <= wake[Head(delayed)]
  /\ started => /\ nextUnblock >= tick
                /\ busy = "no" => nextUnblock > tick \/ nextUnblock = MaxTick

\* How late a periodic task is.
Periods ==
  \A t \in Tasks :
    /\ late[t] >= -MaxTick /\ late[t] <= MaxLate
    /\ lastWake[t] # None =>
         /\ late[t] < MaxLate => (tick - lastWake[t] - late[t]) % M = 0
         /\ late[t] >= 0 \/ (Sleeps(t) /\ call[t].kind = "until")
         /\ Sleeps(t) /\ call[t].kind = "until" => (wake[t] - tick) % M = -late[t]
    /\ pc[t] = "place" =>
         /\ call[t] \in Calls[t]
         /\ call[t].kind = "until" => lastWake[t] # None /\ late[t] < MaxLate
    /\ Sleeps(t) /\ call[t] # None /\ call[t].kind = "until" => lastWake[t] # None

IInv == /\ Types /\ Queues /\ Homes /\ Control /\ Runner /\ Idlers /\ Sleepers /\ Periods
        /\ NoTickLost

-----------------------------------------------------------------------------
LEMMA InsertedInOrder ==
  ASSUME NEW s \in Seq(Tasks), NEW t \in Tasks, NEW value \in [Tasks -> Nat],
         Sorted(s, value), Once(s), t \notin Members(s)
  PROVE  /\ vListInsert(s, t, value) \in Seq(Tasks) /\ Once(vListInsert(s, t, value))
         /\ Members(vListInsert(s, t, value)) = Members(s) \cup {t}
         /\ Sorted(vListInsert(s, t, value), value)
         /\ vListInsert(s, t, value) # << >>
         /\ \/ Head(vListInsert(s, t, value)) = t
            \/ s # << >> /\ Head(vListInsert(s, t, value)) = Head(s)
<1> DEFINE passed(k) == \A i \in 1 .. k : value[s[i]] <= value[t]
           fits(k) == passed(k) /\ (k < Len(s) => ~passed(k + 1))
           k0 == CHOOSE k \in 0 .. Len(s) : fits(k)
<1>1. Len(s) \in Nat /\ \A i \in 1 .. Len(s) : s[i] \in Tasks /\ value[s[i]] \in Nat
  OBVIOUS
<1>2. value[t] \in Nat
  OBVIOUS
<1>3. \E k \in 0 .. Len(s) : fits(k)
  <2> DEFINE Stops == {k \in 0 .. Len(s) : k = Len(s) \/ ~passed(k + 1)}
  <2>1. Stops \in SUBSET Nat /\ Len(s) \in Stops
    BY <1>1
  <2> HIDE DEF Stops
  <2>2. PICK k \in Stops : \A j \in Stops : k <= j
    BY <2>1, Least
  <2>3. k \in 0 .. Len(s) /\ (k < Len(s) => ~passed(k + 1))
    BY <1>1 DEF Stops
  <2>4. passed(k)
    <3>1. CASE k = 0
      BY <3>1
    <3>2. CASE k # 0
      <4>1. k - 1 \in 0 .. Len(s) /\ k - 1 # Len(s) /\ k - 1 \notin Stops /\ (k - 1) + 1 = k
        BY <1>1, <2>1, <2>2, <2>3, <3>2
      <4>2. passed((k - 1) + 1)
        BY <4>1 DEF Stops
      <4>3. QED
        BY <4>1, <4>2
    <3>3. QED
      BY <3>1, <3>2
  <2>5. QED
    BY <2>3, <2>4
<1>4. k0 \in 0 .. Len(s) /\ fits(k0)
  BY <1>3
<1>5. vListInsert(s, t, value) = InsertAt(s, k0, t)
  BY DEF vListInsert
<1> HIDE DEF k0
<1> DEFINE r == InsertAt(s, k0, t)
<1>6. /\ r \in Seq(Tasks) /\ Len(r) = Len(s) + 1
      /\ \A i \in 1 .. Len(s) + 1 :
           r[i] = IF i <= k0 THEN s[i] ELSE IF i = k0 + 1 THEN t ELSE s[i - 1]
  BY <1>4, InsertedItems
<1>7. Members(r) = Members(s) \cup {t} /\ Once(r)
  BY <1>4, Inserted
<1> HIDE DEF r
<1>8. \A i \in 1 .. k0 : value[s[i]] <= value[t]
  BY <1>4
<1>9. \A i \in 1 .. Len(s) : i > k0 => value[t] <= value[s[i]]
  <2>1. TAKE i \in 1 .. Len(s)
  <2>2. HAVE i > k0
  <2>3. k0 < Len(s) /\ k0 + 1 \in 1 .. Len(s) /\ ~passed(k0 + 1)
    BY <1>1, <1>4, <2>2
  <2>4. PICK j \in 1 .. k0 + 1 : ~(value[s[j]] <= value[t])
    BY <2>3
  <2>5. j = k0 + 1
    BY <1>4, <1>8, <2>4
  <2>6. value[s[k0 + 1]] <= value[s[i]]
    <3>1. CASE i = k0 + 1
      BY <1>1, <2>3, <3>1
    <3>2. CASE i # k0 + 1
      <4>1. k0 + 1 < i
        BY <1>4, <2>2, <3>2
      <4>2. QED
        BY <2>3, <4>1 DEF Sorted
    <3>3. QED
      BY <3>1, <3>2
  <2>7. QED
    BY <1>1, <1>2, <2>3, <2>4, <2>5, <2>6
<1>10. Sorted(r, value)
  <2>1. \A i \in 1 .. Len(s) + 1 :
           \/ i <= k0 /\ i \in 1 .. Len(s) /\ r[i] = s[i]
           \/ i = k0 + 1 /\ r[i] = t
           \/ i > k0 + 1 /\ i - 1 \in 1 .. Len(s) /\ i - 1 > k0 /\ r[i] = s[i - 1]
    <3>1. TAKE i \in 1 .. Len(s) + 1
    <3>2. r[i] = IF i <= k0 THEN s[i] ELSE IF i = k0 + 1 THEN t ELSE s[i - 1]
      BY <1>6
    <3>3. k0 \in Int /\ 0 <= k0 /\ k0 <= Len(s) /\ i \in Int /\ 1 <= i /\ i <= Len(s) + 1
      BY <1>1, <1>4
    <3>4. QED
      BY <1>1, <3>2, <3>3
  <2>2. SUFFICES ASSUME NEW i \in 1 .. Len(s) + 1, NEW j \in 1 .. Len(s) + 1, i < j
                 PROVE  value[r[i]] <= value[r[j]]
    BY <1>6 DEF Sorted
  <2>3. \A x, y \in 1 .. Len(s) : x < y => value[s[x]] <= value[s[y]]
    BY DEF Sorted
  <2>4. CASE i <= k0 /\ j <= k0
    <3>1. r[i] = s[i] /\ r[j] = s[j] /\ i \in 1 .. Len(s) /\ j \in 1 .. Len(s)
      BY <1>4, <2>1, <2>4
    <3>2. QED
      BY <2>2, <2>3, <3>1
  <2>5. CASE i <= k0 /\ j = k0 + 1
    <3>1. r[i] = s[i] /\ r[j] = t /\ i \in 1 .. k0
      BY <1>4, <2>1, <2>5
    <3>2. QED
      BY <1>8, <3>1
  <2>6. CASE i <= k0 /\ j > k0 + 1
    <3>1. i < j - 1 /\ r[i] = s[i] /\ r[j] = s[j - 1] /\ i \in 1 .. Len(s) /\ j - 1 \in 1 .. Len(s)
      BY <1>4, <2>1, <2>6
    <3>2. QED
      BY <2>3, <3>1
  <2>7. CASE i = k0 + 1
    <3>1. r[i] = t /\ r[j] = s[j - 1] /\ j - 1 \in 1 .. Len(s) /\ j - 1 > k0
      BY <1>4, <2>1, <2>2, <2>7
    <3>2. QED
      BY <1>9, <3>1
  <2>8. CASE i > k0 + 1
    <3>1. i - 1 < j - 1 /\ r[i] = s[i - 1] /\ r[j] = s[j - 1]
          /\ i - 1 \in 1 .. Len(s) /\ j - 1 \in 1 .. Len(s)
      BY <1>4, <2>1, <2>2, <2>8
    <3>2. QED
      BY <2>3, <3>1
  <2>9. QED
    BY <1>4, <2>2, <2>4, <2>5, <2>6, <2>7, <2>8
<1>11. r # << >> /\ (Head(r) = t \/ (s # << >> /\ Head(r) = Head(s)))
  <2>1. r # << >> /\ Head(r) = r[1]
    BY <1>1, <1>6
  <2>2. CASE k0 = 0
    BY <1>1, <1>6, <2>1, <2>2
  <2>3. CASE k0 # 0
    <3>1. r[1] = s[1] /\ s # << >>
      BY <1>1, <1>4, <1>6, <2>3
    <3>2. QED
      BY <2>1, <3>1
  <2>4. QED
    BY <2>2, <2>3
<1>12. QED
  BY <1>5, <1>6, <1>7, <1>10, <1>11 DEF r

-----------------------------------------------------------------------------
(***************************************************************************)
(* The ready lists.                                                        *)
(***************************************************************************)
LEMMA LevelsType == Priority \in [Tasks -> Levels] /\ Levels \subseteq Nat
  BY KernelAssumption DEF Levels

LEMMA ListEnd ==
  ASSUME NEW l \in ListType, l.index <= Len(l.items), NEW t \in Tasks,
         Once(l.items), t \notin Members(l.items)
  PROVE  /\ vListInsertEnd(l, t) \in ListType
         /\ vListInsertEnd(l, t).index <= Len(vListInsertEnd(l, t).items)
         /\ Once(vListInsertEnd(l, t).items)
         /\ Members(vListInsertEnd(l, t).items) = Members(l.items) \cup {t}
<1>1. l.items \in Seq(Tasks) /\ l.index \in Nat /\ Len(l.items) \in Nat
  BY DEF ListType
<1>2. CASE l.index = 0
  <2> DEFINE r == Append(l.items, t)
  <2>1. r \in Seq(Tasks) /\ Once(r) /\ Members(r) = Members(l.items) \cup {t}
    BY <1>1, Appended
  <2>2. vListInsertEnd(l, t) = [l EXCEPT !.items = r]
    BY <1>2 DEF vListInsertEnd
  <2> HIDE DEF r
  <2>3. vListInsertEnd(l, t).items = r /\ vListInsertEnd(l, t).index = 0
    BY <1>2, <2>2 DEF ListType
  <2>4. QED
    BY <2>1, <2>2, <2>3 DEF ListType
<1>3. CASE l.index # 0
  <2> DEFINE r == InsertAt(l.items, l.index - 1, t)
  <2>1. l.index - 1 \in 0 .. Len(l.items)
    BY <1>1, <1>3
  <2>5. Once(r) /\ Members(r) = Members(l.items) \cup {t}
    BY <1>1, <2>1, Inserted, Zenon, SMTT(30)
  <2>6. r \in Seq(Tasks) /\ Len(r) = Len(l.items) + 1
    <3>1. ASSUME NEW s \in Seq(Tasks), NEW k \in 0 .. Len(s)
          PROVE  InsertAt(s, k, t) \in Seq(Tasks) /\ Len(InsertAt(s, k, t)) = Len(s) + 1
      BY InsertedItems
    <3>2. QED
      BY <1>1, <2>1, <3>1, Zenon
  <2>2. r \in Seq(Tasks) /\ Once(r) /\ Members(r) = Members(l.items) \cup {t}
        /\ Len(r) = Len(l.items) + 1
    BY <2>5, <2>6
  <2>3. vListInsertEnd(l, t) = [items |-> r, index |-> l.index + 1]
    BY <1>3 DEF vListInsertEnd
  <2> HIDE DEF r
  <2>4. QED
    BY <1>1, <2>2, <2>3 DEF ListType
<1>4. QED
  BY <1>2, <1>3

LEMMA ListRemove ==
  ASSUME NEW l \in ListType, l.index <= Len(l.items), NEW t \in Members(l.items),
         Once(l.items)
  PROVE  /\ uxListRemove(l, t) \in ListType
         /\ uxListRemove(l, t).index <= Len(uxListRemove(l, t).items)
         /\ Once(uxListRemove(l, t).items)
         /\ Members(uxListRemove(l, t).items) = Members(l.items) \ {t}
<1> DEFINE k == Place(l.items, t)
           r == RemoveAt(l.items, k)
<1>1. l.items \in Seq(Tasks) /\ l.index \in Nat /\ Len(l.items) \in Nat
  BY DEF ListType
<1>2. k \in 1 .. Len(l.items) /\ l.items[k] = t
  BY <1>1, Placed
<1>3. uxListRemove(l, t) = [items |-> r, index |-> IF k <= l.index THEN l.index - 1 ELSE l.index]
  BY DEF uxListRemove
<1> HIDE DEF k
<1>4. r \in Seq(Tasks) /\ Len(r) = Len(l.items) - 1 /\ Once(r)
      /\ Members(r) = Members(l.items) \ {t}
  BY <1>1, <1>2, Removed, RemovedItems
<1> HIDE DEF r
<1>5. QED
  BY <1>1, <1>2, <1>3, <1>4 DEF ListType

LEMMA Readied ==
  ASSUME ReadyType, Queues, NEW t \in Tasks, ~InReady(t), prvAddTaskToReadyList(t)
  PROVE  /\ ReadyType' /\ Queues'
         /\ \A u \in Tasks : InReady(u)' <=> InReady(u) \/ u = t
<1> DEFINE p == Priority[t]
           l == vListInsertEnd(ready[p], t)
<1>1. p \in Levels /\ ready[p] \in ListType
  BY LevelsType DEF ReadyType
<1>2. Once(Queue(p)) /\ ready[p].index <= Len(Queue(p)) /\ t \notin Members(Queue(p))
  BY <1>1 DEF Queues, InReady, Queue
<1>3. /\ l \in ListType /\ l.index <= Len(l.items) /\ Once(l.items)
      /\ Members(l.items) = Members(Queue(p)) \cup {t}
  BY <1>1, <1>2, ListEnd DEF Queue
<1>4. l.items # << >>
  <2>1. l.items \in Seq(Tasks) /\ t \in Members(l.items)
    BY <1>3 DEF ListType
  <2>2. QED
    BY <2>1, MembersAre
<1>5. ready' = [ready EXCEPT ![p] = l] /\ top' = top \cup {p}
  BY DEF prvAddTaskToReadyList
<1> HIDE DEF l
<1>6. ReadyType'
  BY <1>1, <1>3, <1>5 DEF ReadyType
<1>7. \A q \in Levels : ready'[q] = IF q = p THEN l ELSE ready[q]
  BY <1>1, <1>5 DEF ReadyType
<1>8. Queues'
  <2>1. top' = {q \in Levels : ready'[q].items # << >>}
    BY <1>1, <1>4, <1>5, <1>7 DEF Queues, Queue
  <2>2. \A q \in Levels :
          /\ Once(ready'[q].items) /\ ready'[q].index <= Len(ready'[q].items)
          /\ \A u \in Members(ready'[q].items) : Priority[u] = q
    BY <1>3, <1>7 DEF Queues, Queue
  <2>3. QED
    BY <2>1, <2>2 DEF Queues, Queue
<1>9. \A u \in Tasks : InReady(u)' <=> InReady(u) \/ u = t
  BY <1>3, <1>7, LevelsType DEF InReady, Queue
<1>10. QED
  BY <1>6, <1>8, <1>9

LEMMA Unreadied ==
  ASSUME ReadyType, Queues, NEW t \in Tasks, InReady(t), LeaveReady(t)
  PROVE  /\ ReadyType' /\ Queues'
         /\ \A u \in Tasks : InReady(u)' <=> InReady(u) /\ u # t
<1> DEFINE p == Priority[t]
           l == uxListRemove(ready[p], t)
<1>1. p \in Levels /\ ready[p] \in ListType
  BY LevelsType DEF ReadyType
<1>2. Once(Queue(p)) /\ ready[p].index <= Len(Queue(p)) /\ t \in Members(Queue(p))
  BY <1>1 DEF Queues, InReady, Queue
<1>3. /\ l \in ListType /\ l.index <= Len(l.items) /\ Once(l.items)
      /\ Members(l.items) = Members(Queue(p)) \ {t}
  BY <1>1, <1>2, ListRemove DEF Queue
<1>4. /\ ready' = [ready EXCEPT ![p] = l]
      /\ top' = IF l.items = << >> THEN top \ {p} ELSE top
  BY DEF LeaveReady
<1> HIDE DEF l
<1>5. p \in top
  <2>1. Queue(p) \in Seq(Tasks) /\ Queue(p) # << >>
    BY <1>1, <1>2, MembersAre DEF ListType, Queue
  <2>2. QED
    BY <1>1, <2>1 DEF Queues
<1>6. ReadyType'
  BY <1>1, <1>3, <1>4 DEF ReadyType
<1>7. \A q \in Levels : ready'[q] = IF q = p THEN l ELSE ready[q]
  BY <1>1, <1>4 DEF ReadyType
<1>8. Queues'
  <2>1. top' = {q \in Levels : ready'[q].items # << >>}
    <3>1. CASE l.items = << >>
      BY <1>1, <1>4, <1>7, <3>1 DEF Queues, Queue
    <3>2. CASE l.items # << >>
      BY <1>1, <1>4, <1>5, <1>7, <3>2 DEF Queues, Queue
    <3>3. QED
      BY <3>1, <3>2
  <2>2. \A q \in Levels :
          /\ Once(ready'[q].items) /\ ready'[q].index <= Len(ready'[q].items)
          /\ \A u \in Members(ready'[q].items) : Priority[u] = q
    BY <1>3, <1>7 DEF Queues, Queue
  <2>3. QED
    BY <2>1, <2>2 DEF Queues, Queue
<1>9. \A u \in Tasks : InReady(u)' <=> InReady(u) /\ u # t
  BY <1>3, <1>7, LevelsType DEF InReady, Queue
<1>10. QED
  BY <1>6, <1>8, <1>9


LEMMA Highest ==
  ASSUME ReadyType, Queues
  PROVE  /\ \A t \in Tasks : InReady(t) => Priority[t] \in top
         /\ \A p \in top : p \in Levels /\ \E t \in Tasks : InReady(t) /\ Priority[t] = p
<1>1. ASSUME NEW t \in Tasks, InReady(t) PROVE Priority[t] \in top
  <2>1. Priority[t] \in Levels
    BY LevelsType
  <2>2. Queue(Priority[t]) \in Seq(Tasks) /\ Members(Queue(Priority[t])) # {}
    BY <1>1, <2>1 DEF InReady, Queue, ReadyType, ListType
  <2>3. Queue(Priority[t]) # << >>
    BY <2>2, MembersAre
  <2>4. QED
    BY <2>1, <2>3 DEF Queues
<1>2. ASSUME NEW p \in top
      PROVE  p \in Levels /\ \E t \in Tasks : InReady(t) /\ Priority[t] = p
  <2>1. p \in Levels /\ Queue(p) # << >>
    BY <1>2 DEF Queues
  <2>2. Queue(p) \in Seq(Tasks)
    BY <2>1 DEF Queue, ReadyType, ListType
  <2>3. Members(Queue(p)) # {} /\ Members(Queue(p)) \subseteq Tasks
    BY <2>1, <2>2, MembersAre
  <2>4. PICK t \in Members(Queue(p)) : t \in Tasks
    BY <2>3
  <2>5. Priority[t] = p
    BY <2>1, <2>4 DEF Queues
  <2>6. InReady(t)
    BY <2>4, <2>5 DEF InReady, Queue
  <2>7. QED
    BY <2>1, <2>4, <2>5, <2>6
<1>3. QED
  BY <1>1, <1>2

-----------------------------------------------------------------------------
(***************************************************************************)
(* What leaves a part of the state alone.                                  *)
(***************************************************************************)
LEMMA KeptQueues ==
  ASSUME ReadyType, Queues, UNCHANGED <<ready, top>>
  PROVE  ReadyType' /\ Queues' /\ \A u \in Tasks : InReady(u)' <=> InReady(u)
<1>1. \A p : Queue(p)' = Queue(p)
  BY DEF Queue
<1>2. ReadyType'
  BY DEF ReadyType
<1>3. Queues'
  BY <1>1 DEF Queues
<1>4. \A u \in Tasks : InReady(u)' <=> InReady(u)
  BY DEF InReady
<1>5. QED
  BY <1>2, <1>3, <1>4

LEMMA KeptHomes ==
  ASSUME Homes, UNCHANGED <<created, delayed, overflow, blocked>>,
         \A u \in Tasks : InReady(u)' <=> InReady(u)
  PROVE  Homes' /\ \A u \in Tasks : Sleeps(u)' <=> Sleeps(u)
<1>1. \A u \in Tasks : /\ Exists(u)' <=> Exists(u)
                       /\ Sleeps(u)' <=> Sleeps(u)
                       /\ Blocked(u)' <=> Blocked(u)
  BY DEF Exists, Sleeps, Blocked
<1>2. QED
  BY <1>1 DEF Homes

LEMMA KeptSleepers ==
  ASSUME Sleepers, UNCHANGED <<delayed, overflow, wake, tick, nextUnblock, started, busy>>
  PROVE  Sleepers'
  BY DEF Sleepers

LEMMA KeptPeriods ==
  ASSUME Periods, UNCHANGED <<late, lastWake, tick, delayed, overflow, wake, call>>,
         \A t \in Tasks : pc'[t] = "place" => pc[t] = "place"
  PROVE  Periods'
<1>1. \A u \in Tasks : Sleeps(u)' <=> Sleeps(u)
  BY DEF Sleeps
<1>2. QED
  BY <1>1 DEF Periods

LEMMA KeptLists ==
  ASSUME IInv, UNCHANGED lists, UNCHANGED created
  PROVE  /\ ReadyType' /\ WaitType' /\ Queues' /\ Homes'
         /\ \A u \in Tasks : /\ Exists(u)' <=> Exists(u)
                             /\ InReady(u)' <=> InReady(u)
                             /\ Sleeps(u)' <=> Sleeps(u)
<1>1. ReadyType' /\ Queues' /\ \A u \in Tasks : InReady(u)' <=> InReady(u)
  BY KeptQueues DEF IInv, Types, lists
<1>2. Homes' /\ \A u \in Tasks : Sleeps(u)' <=> Sleeps(u)
  BY <1>1, KeptHomes DEF IInv, lists
<1>3. WaitType'
  BY DEF IInv, Types, WaitType, lists
<1>4. \A u \in Tasks : Exists(u)' <=> Exists(u)
  BY DEF Exists
<1>5. QED
  BY <1>1, <1>2, <1>3, <1>4

-----------------------------------------------------------------------------
(***************************************************************************)
(* Every step keeps the invariant.                                         *)
(***************************************************************************)
LEMMA InitIInv == ASSUME Init PROVE IInv
<1>2. Types
  <2>1. EmptyList \in ListType
    BY DEF EmptyList, ListType
  <2>2. KernelType
    <3>1. Len(Creation) \in Nat /\ MaxPended \in Nat
      BY KernelAssumption
    <3>2. {yieldPending, pendSV, masked, switch} \subseteq BOOLEAN /\ started \in BOOLEAN
      BY Zenon DEF Init
    <3>3. QED
      BY <3>1, <3>2 DEF Init, KernelType
  <2>3. TimeType
    BY Modulus DEF Init, TimeType
  <2>4. CodeType /\ WaitType
    BY Modulus DEF Init, CodeType, WaitType
  <2>5. ReadyType
    BY <2>1 DEF Init, ReadyType
  <2>6. QED
    BY <2>2, <2>3, <2>4, <2>5 DEF Types
<1>3. \A p \in Levels : Queue(p) = << >> /\ ready[p].index = 0
  BY DEF Init, Queue, EmptyList
<1>4. Members(<< >>) = {} /\ Once(<< >>) /\ Len(<< >>) = 0
  BY DEF Members, Once
<1>5. Queues
  BY <1>3, <1>4 DEF Init, Queues
<1>6. \A t \in Tasks : ~Exists(t) /\ ~InReady(t) /\ ~Sleeps(t) /\ ~Blocked(t)
  <2>1. \A t \in Tasks : ~Exists(t)
    BY DEF Init, Exists
  <2>2. \A t \in Tasks : ~Sleeps(t) /\ ~Blocked(t)
    BY <1>4 DEF Init, Sleeps, Blocked
  <2>3. \A t \in Tasks : ~InReady(t)
    BY <1>3, <1>4, LevelsType DEF InReady, Queue
  <2>4. QED
    BY <2>1, <2>2, <2>3
<1>7. Homes
  BY <1>4, <1>6 DEF Init, Homes, Sleeps
<1>8. Control
  BY KernelAssumption DEF Init, Control, Inside
<1>9. Runner /\ Idlers
  BY <1>6 DEF Init, Runner, Idlers
<1>10. Sleepers
  BY <1>4 DEF Init, Sleepers, Sorted
<1>11. Periods
  BY <1>6, KernelAssumption DEF Init, Periods
<1>12. NoTickLost
  <2>1. 0 \in 0 .. MaxTick
    BY Modulus
  <2>2. 0 % M = 0
    BY <2>1, Wrapped
  <2>3. QED
    BY <2>2 DEF Init, NoTickLost
<1>13. QED
  BY <1>2, <1>5, <1>7, <1>8, <1>9, <1>10, <1>11, <1>12 DEF IInv

LEMMA Entered ==
  ASSUME IInv, NEW t \in Tasks, vPortEnterCritical(t) PROVE IInv'
<1>1. /\ UNCHANGED <<created, started, current, suspended, yieldPending, pendSV, busy, switch>>
      /\ UNCHANGED <<tick, nextUnblock, pended, clock, late, pc, call, lastWake>>
      /\ UNCHANGED lists /\ masked' = TRUE
  BY DEF vPortEnterCritical, time, code
<1>2. UNCHANGED <<ready, top, delayed, overflow, blocked, wake>>
  BY <1>1 DEF lists
<1>3. /\ ReadyType' /\ WaitType' /\ Queues' /\ Homes'
      /\ \A u \in Tasks : (Exists(u)' <=> Exists(u)) /\ (InReady(u)' <=> InReady(u))
  BY <1>1, KeptLists
<1>4. Types'
  BY <1>1, <1>3 DEF IInv, Types, KernelType, TimeType, CodeType
<1>5. Control'
  BY <1>1, <1>2 DEF IInv, Control, Inside
<1>6. Runner'
  BY <1>1, <1>2, <1>3 DEF IInv, Runner, InReady
<1>7. Idlers'
  BY <1>1, <1>3 DEF IInv, Idlers
<1>8. Sleepers' /\ Periods'
  BY <1>1, <1>2, KeptSleepers, KeptPeriods DEF IInv
<1>9. NoTickLost'
  BY <1>1 DEF IInv, NoTickLost
<1>10. QED
  BY <1>3, <1>4, <1>5, <1>6, <1>7, <1>8, <1>9 DEF IInv

LEMMA Exited ==
  ASSUME IInv, NEW t \in Tasks, vPortExitCritical(t) PROVE IInv'
<1>1. /\ UNCHANGED <<created, started, current, suspended, yieldPending, pendSV, busy, switch>>
      /\ UNCHANGED <<tick, nextUnblock, pended, clock, late, pc, call, lastWake>>
      /\ UNCHANGED lists /\ masked' = FALSE /\ started /\ current = t /\ pc[t] = "run"
  BY DEF vPortExitCritical, time, code, Runs
<1>2. UNCHANGED <<ready, top, delayed, overflow, blocked, wake>>
  BY <1>1 DEF lists
<1>3. /\ ReadyType' /\ WaitType' /\ Queues' /\ Homes'
      /\ \A u \in Tasks : (Exists(u)' <=> Exists(u)) /\ (InReady(u)' <=> InReady(u))
  BY <1>1, KeptLists
<1>4. Types'
  BY <1>1, <1>3 DEF IInv, Types, KernelType, TimeType, CodeType
<1>5. Control'
  BY <1>1, <1>2 DEF IInv, Control, Inside
<1>6. Runner'
  BY <1>1, <1>2, <1>3 DEF IInv, Runner, InReady
<1>7. Idlers'
  BY <1>1, <1>3 DEF IInv, Idlers
<1>8. Sleepers' /\ Periods'
  BY <1>1, <1>2, KeptSleepers, KeptPeriods DEF IInv
<1>9. NoTickLost'
  BY <1>1 DEF IInv, NoTickLost
<1>10. QED
  BY <1>3, <1>4, <1>5, <1>6, <1>7, <1>8, <1>9 DEF IInv

LEMMA RunnerReady ==
  ASSUME IInv, NEW t \in Tasks, Runs(t, "run") \/ Runs(t, "place")
  PROVE  /\ InReady(t) /\ ~Sleeps(t) /\ ~Blocked(t)
         /\ lastWake[t] # None => late[t] >= 0
<1>1. InReady(t)
  BY DEF Runs, IInv, Runner
<1>2. ~Sleeps(t) /\ ~Blocked(t)
  BY <1>1 DEF IInv, Homes
<1>3. QED
  BY <1>1, <1>2 DEF IInv, Periods

LEMMA Noted ==
  ASSUME IInv, NEW t \in Tasks, xTaskGetTickCount(t) PROVE IInv'
<1>1. /\ UNCHANGED <<created, started, current, suspended, yieldPending, pendSV, busy, switch>>
      /\ UNCHANGED <<tick, nextUnblock, pended, clock, masked, pc, call>>
      /\ UNCHANGED lists /\ Runs(t, "run")
      /\ lastWake' = [lastWake EXCEPT ![t] = tick] /\ late' = [late EXCEPT ![t] = 0]
  BY DEF xTaskGetTickCount, cpu
<1>2. UNCHANGED <<ready, top, delayed, overflow, blocked, wake>>
  BY <1>1 DEF lists
<1>3. /\ ReadyType' /\ WaitType' /\ Queues' /\ Homes'
      /\ \A u \in Tasks : /\ Exists(u)' <=> Exists(u)
                          /\ InReady(u)' <=> InReady(u)
                          /\ Sleeps(u)' <=> Sleeps(u)
  BY <1>1, KeptLists
<1>4. Types'
  BY <1>1, <1>3 DEF IInv, Types, KernelType, TimeType, CodeType
<1>5. started
  BY <1>1 DEF Runs
<1>6. Control'
  BY <1>1, <1>2, <1>5 DEF IInv, Control, Inside
<1>7. Runner'
  BY <1>1, <1>2, <1>3 DEF IInv, Runner, InReady
<1>8. Idlers'
  BY <1>1, <1>3 DEF IInv, Idlers
<1>9. Sleepers'
  BY <1>1, <1>2, KeptSleepers DEF IInv
<1>10. ~Sleeps(t)
  BY <1>1, RunnerReady
<1>11. /\ \A u \in Tasks : u # t => lastWake'[u] = lastWake[u] /\ late'[u] = late[u]
       /\ lastWake'[t] = tick /\ late'[t] = 0 /\ tick \in 0 .. MaxTick
  BY <1>1 DEF IInv, Types, TimeType
<1>12. (tick - tick - 0) % M = 0
  BY <1>11, Modulus, Wrapped
<1>13. Periods'
  <2>1. SUFFICES ASSUME NEW u \in Tasks
                 PROVE  /\ late'[u] >= -MaxTick /\ late'[u] <= MaxLate
                        /\ lastWake'[u] # None =>
                             /\ late'[u] < MaxLate => (tick' - lastWake'[u] - late'[u]) % M = 0
                             /\ late'[u] >= 0 \/ (Sleeps(u)' /\ call'[u].kind = "until")
                             /\ Sleeps(u)' /\ call'[u].kind = "until" =>
                                  (wake'[u] - tick') % M = -late'[u]
                        /\ pc'[u] = "place" =>
                             /\ call'[u] \in Calls[u]
                             /\ call'[u].kind = "until" => lastWake'[u] # None /\ late'[u] < MaxLate
                        /\ Sleeps(u)' /\ call'[u] # None /\ call'[u].kind = "until" =>
                             lastWake'[u] # None
    BY DEF Periods
  <2>2. CASE u = t
    <3>1. pc'[t] # "place" /\ ~Sleeps(t)'
      BY <1>1, <1>3, <1>10 DEF Runs
    <3>2. QED
      BY <1>1, <1>11, <1>12, <2>2, <3>1, KernelAssumption
  <2>3. CASE u # t
    BY <1>1, <1>2, <1>3, <1>11, <2>3 DEF IInv, Periods
  <2>4. QED
    BY <2>2, <2>3
<1>14. NoTickLost'
  BY <1>1 DEF IInv, NoTickLost
<1>15. QED
  BY <1>3, <1>4, <1>6, <1>7, <1>8, <1>9, <1>13, <1>14 DEF IInv

LEMMA Suspended ==
  ASSUME IInv, NEW t \in Tasks, vTaskSuspendAll(t) PROVE IInv'
<1>1. PICK c \in Calls[t] : /\ c.kind = "until" => lastWake[t] # None /\ late[t] < MaxLate
                            /\ call' = [call EXCEPT ![t] = c]
  BY DEF vTaskSuspendAll
<1>2. /\ UNCHANGED <<created, started, current, yieldPending, pendSV, masked, busy, switch>>
      /\ UNCHANGED <<tick, nextUnblock, pended, clock, late, lastWake>>
      /\ UNCHANGED lists /\ Runs(t, "run")
      /\ suspended' = suspended + 1 /\ pc' = [pc EXCEPT ![t] = "place"]
  BY DEF vTaskSuspendAll, cpu, time, Goto
<1>3. UNCHANGED <<ready, top, delayed, overflow, blocked, wake>>
  BY <1>2 DEF lists
<1>4. /\ ReadyType' /\ WaitType' /\ Queues' /\ Homes'
      /\ \A u \in Tasks : /\ Exists(u)' <=> Exists(u)
                          /\ InReady(u)' <=> InReady(u)
                          /\ Sleeps(u)' <=> Sleeps(u)
  BY <1>2, KeptLists
<1>5. started /\ current = t /\ ~pendSV /\ busy = "no" /\ pc[t] = "run"
  BY <1>2 DEF Runs
<1>6. c \in CallSet
  BY KernelAssumption DEF CallSet
<1>7. suspended = 0
  BY <1>5 DEF IInv, Types, KernelType, Control, Inside
<1>8. /\ \A u \in Tasks : u # t => pc'[u] = pc[u] /\ call'[u] = call[u]
      /\ pc'[t] = "place" /\ call'[t] = c
  BY <1>1, <1>2 DEF IInv, Types, CodeType
<1>9. Types'
  <2>1. KernelType' /\ TimeType'
    BY <1>2, <1>7 DEF IInv, Types, KernelType, TimeType
  <2>2. CodeType'
    BY <1>1, <1>2, <1>6 DEF IInv, Types, CodeType
  <2>3. QED
    BY <1>4, <2>1, <2>2 DEF Types
<1>10. Control'
  BY <1>2, <1>3, <1>5, <1>7, <1>8 DEF IInv, Control, Inside
<1>11. InReady(t) /\ ~Sleeps(t) /\ (lastWake[t] # None => late[t] >= 0)
  BY <1>2, RunnerReady
<1>12. Runner'
  BY <1>2, <1>4, <1>5, <1>8, <1>11 DEF Runner
<1>13. Idlers'
  BY <1>4, <1>8 DEF IInv, Idlers
<1>14. Sleepers'
  BY <1>2, <1>3, KeptSleepers DEF IInv
<1>15. Periods'
  <2>1. SUFFICES ASSUME NEW u \in Tasks
                 PROVE  /\ late'[u] >= -MaxTick /\ late'[u] <= MaxLate
                        /\ lastWake'[u] # None =>
                             /\ late'[u] < MaxLate => (tick' - lastWake'[u] - late'[u]) % M = 0
                             /\ late'[u] >= 0 \/ (Sleeps(u)' /\ call'[u].kind = "until")
                             /\ Sleeps(u)' /\ call'[u].kind = "until" =>
                                  (wake'[u] - tick') % M = -late'[u]
                        /\ pc'[u] = "place" =>
                             /\ call'[u] \in Calls[u]
                             /\ call'[u].kind = "until" => lastWake'[u] # None /\ late'[u] < MaxLate
                        /\ Sleeps(u)' /\ call'[u] # None /\ call'[u].kind = "until" =>
                             lastWake'[u] # None
    BY DEF Periods
  <2>2. CASE u = t
    BY <1>1, <1>2, <1>4, <1>8, <1>11, <2>2 DEF IInv, Periods
  <2>3. CASE u # t
    BY <1>2, <1>3, <1>4, <1>8, <2>3 DEF IInv, Periods
  <2>4. QED
    BY <2>2, <2>3
<1>16. NoTickLost'
  BY <1>2 DEF IInv, NoTickLost
<1>17. QED
  BY <1>4, <1>9, <1>10, <1>12, <1>13, <1>14, <1>15, <1>16 DEF IInv

LEMMA Resumed ==
  ASSUME IInv, NEW t \in Tasks, xTaskResumeAll(t) PROVE IInv'
<1>2. /\ UNCHANGED <<created, started, current, yieldPending, pendSV, busy, switch>>
      /\ UNCHANGED <<tick, nextUnblock, pended, clock, late, lastWake, call>>
      /\ UNCHANGED lists /\ Runs(t, "resume") /\ masked' = TRUE
      /\ suspended' = suspended - 1 /\ pc' = [pc EXCEPT ![t] = "unwind"]
  BY DEF xTaskResumeAll, time, Goto
<1>3. UNCHANGED <<ready, top, delayed, overflow, blocked, wake>>
  BY <1>2 DEF lists
<1>4. /\ ReadyType' /\ WaitType' /\ Queues' /\ Homes'
      /\ \A u \in Tasks : /\ Exists(u)' <=> Exists(u)
                          /\ InReady(u)' <=> InReady(u)
                          /\ Sleeps(u)' <=> Sleeps(u)
  BY <1>2, KeptLists
<1>5. started /\ current = t /\ ~pendSV /\ busy = "no" /\ pc[t] = "resume"
  BY <1>2 DEF Runs
<1>7. suspended = 1
  BY <1>5 DEF IInv, Control, Inside
<1>8. (\A u \in Tasks : u # t => pc'[u] = pc[u]) /\ pc'[t] = "unwind"
  BY <1>2 DEF IInv, Types, CodeType
<1>9. Types'
  <2>1. KernelType' /\ TimeType'
    BY <1>2, <1>7 DEF IInv, Types, KernelType, TimeType
  <2>2. CodeType'
    BY <1>2 DEF IInv, Types, CodeType
  <2>3. QED
    BY <1>4, <2>1, <2>2 DEF Types
<1>10. Control'
  BY <1>2, <1>3, <1>5, <1>7, <1>8 DEF IInv, Control, Inside
<1>12. Runner'
  BY <1>2, <1>5, <1>8 DEF Runner
<1>13. Idlers'
  BY <1>4, <1>5, <1>8 DEF IInv, Idlers
<1>14. Sleepers' /\ Periods'
  BY <1>2, <1>3, <1>8, KeptSleepers, KeptPeriods DEF IInv
<1>16. NoTickLost'
  BY <1>2 DEF IInv, NoTickLost
<1>17. QED
  BY <1>4, <1>9, <1>10, <1>12, <1>13, <1>14, <1>16 DEF IInv

LEMMA Unwound ==
  ASSUME IInv, NEW t \in Tasks, UnwindEnd(t) PROVE IInv'
<1>2. /\ UNCHANGED <<created, started, current, suspended, yieldPending, busy, switch>>
      /\ UNCHANGED <<tick, nextUnblock, pended, clock, late, lastWake, call>>
      /\ UNCHANGED lists /\ Runs(t, "unwind") /\ masked' = FALSE /\ pendSV' = yieldPending
      /\ pc' = [pc EXCEPT ![t] = IF yieldPending THEN "run" ELSE "yield"]
  BY DEF UnwindEnd, time, Goto
<1>3. UNCHANGED <<ready, top, delayed, overflow, blocked, wake>>
  BY <1>2 DEF lists
<1>4. /\ ReadyType' /\ WaitType' /\ Queues' /\ Homes'
      /\ \A u \in Tasks : /\ Exists(u)' <=> Exists(u)
                          /\ InReady(u)' <=> InReady(u)
                          /\ Sleeps(u)' <=> Sleeps(u)
  BY <1>2, KeptLists
<1>5. started /\ current = t /\ ~pendSV /\ busy = "no" /\ pc[t] = "unwind"
  BY <1>2 DEF Runs
<1>7. suspended = 0
  BY <1>5 DEF IInv, Types, KernelType, Control, Inside
<1>8. /\ \A u \in Tasks : u # t => pc'[u] = pc[u]
      /\ (pc'[t] = "run" /\ pendSV') \/ pc'[t] = "yield"
  BY <1>2 DEF IInv, Types, CodeType
<1>9. Types'
  <2>1. KernelType' /\ TimeType'
    BY <1>2, <1>7 DEF IInv, Types, KernelType, TimeType
  <2>2. CodeType'
    BY <1>2 DEF IInv, Types, CodeType
  <2>3. QED
    BY <1>4, <2>1, <2>2 DEF Types
<1>10. Control'
  BY <1>2, <1>3, <1>5, <1>7, <1>8 DEF IInv, Control, Inside
<1>12. Runner'
  BY <1>2, <1>5, <1>8 DEF Runner
<1>13. Idlers'
  BY <1>4, <1>5, <1>8 DEF IInv, Idlers
<1>14. Sleepers' /\ Periods'
  BY <1>2, <1>3, <1>8, KeptSleepers, KeptPeriods DEF IInv
<1>16. NoTickLost'
  BY <1>2 DEF IInv, NoTickLost
<1>17. QED
  BY <1>4, <1>9, <1>10, <1>12, <1>13, <1>14, <1>16 DEF IInv

LEMMA Yielded ==
  ASSUME IInv, NEW t \in Tasks, Yield(t) PROVE IInv'
<1>2. /\ UNCHANGED <<created, started, current, suspended, yieldPending, masked, busy, switch>>
      /\ UNCHANGED <<tick, nextUnblock, pended, clock, late, lastWake, call>>
      /\ UNCHANGED lists /\ Runs(t, "yield") /\ pendSV' = TRUE
      /\ pc' = [pc EXCEPT ![t] = "run"]
  BY DEF Yield, time, Goto
<1>3. UNCHANGED <<ready, top, delayed, overflow, blocked, wake>>
  BY <1>2 DEF lists
<1>4. /\ ReadyType' /\ WaitType' /\ Queues' /\ Homes'
      /\ \A u \in Tasks : /\ Exists(u)' <=> Exists(u)
                          /\ InReady(u)' <=> InReady(u)
                          /\ Sleeps(u)' <=> Sleeps(u)
  BY <1>2, KeptLists
<1>5. started /\ current = t /\ ~pendSV /\ busy = "no" /\ pc[t] = "yield"
  BY <1>2 DEF Runs
<1>7. suspended = 0
  BY <1>5 DEF IInv, Types, KernelType, Control, Inside
<1>8. (\A u \in Tasks : u # t => pc'[u] = pc[u]) /\ pc'[t] = "run"
  BY <1>2 DEF IInv, Types, CodeType
<1>9. Types'
  <2>1. KernelType' /\ TimeType'
    BY <1>2, <1>7 DEF IInv, Types, KernelType, TimeType
  <2>2. CodeType'
    BY <1>2 DEF IInv, Types, CodeType
  <2>3. QED
    BY <1>4, <2>1, <2>2 DEF Types
<1>10. Control'
  BY <1>2, <1>3, <1>5, <1>7, <1>8 DEF IInv, Control, Inside
<1>12. Runner'
  BY <1>2, <1>5, <1>8 DEF Runner
<1>13. Idlers'
  BY <1>4, <1>5, <1>8 DEF IInv, Idlers
<1>14. Sleepers' /\ Periods'
  BY <1>2, <1>3, <1>8, KeptSleepers, KeptPeriods DEF IInv
<1>16. NoTickLost'
  BY <1>2 DEF IInv, NoTickLost
<1>17. QED
  BY <1>4, <1>9, <1>10, <1>12, <1>13, <1>14, <1>16 DEF IInv

\* A tick that comes while the scheduler is suspended.
LEMMA Pended ==
  ASSUME IInv, SysTick_Handler, suspended # 0 PROVE IInv'
<1>1. /\ UNCHANGED <<created, started, current, suspended, yieldPending, pendSV, masked, busy, switch>>
      /\ UNCHANGED <<tick, nextUnblock, late, lastWake, call, pc>>
      /\ UNCHANGED lists /\ started /\ busy = "no" /\ pended < MaxPended
      /\ pended' = pended + 1 /\ clock' = (clock + 1) % M
  BY DEF SysTick_Handler, cpu, code
<1>2. UNCHANGED <<ready, top, delayed, overflow, blocked, wake>>
  BY <1>1 DEF lists
<1>3. /\ ReadyType' /\ WaitType' /\ Queues' /\ Homes'
      /\ \A u \in Tasks : /\ Exists(u)' <=> Exists(u)
                          /\ InReady(u)' <=> InReady(u)
                          /\ Sleeps(u)' <=> Sleeps(u)
  BY <1>1, KeptLists
<1>4. tick \in 0 .. MaxTick /\ pended \in 0 .. MaxPended /\ clock \in 0 .. MaxTick
  BY DEF IInv, Types, TimeType, KernelType
<1>5. Types'
  <2>1. clock' \in 0 .. MaxTick
    BY <1>1, <1>4, Modulus
  <2>2. pended' \in 0 .. MaxPended
    BY <1>1, <1>4, KernelAssumption
  <2>3. KernelType' /\ TimeType' /\ CodeType'
    BY <1>1, <2>1, <2>2 DEF IInv, Types, KernelType, TimeType, CodeType
  <2>4. QED
    BY <1>3, <2>3 DEF Types
<1>6. Control'
  BY <1>1, <1>2, <1>4 DEF IInv, Control, Inside
<1>7. Runner'
  BY <1>1, <1>2, <1>3 DEF IInv, Runner, InReady
<1>8. Idlers'
  BY <1>1, <1>3 DEF IInv, Idlers
<1>9. Sleepers' /\ Periods'
  BY <1>1, <1>2, KeptSleepers, KeptPeriods DEF IInv
<1>10. NoTickLost'
  <2>1. clock = (tick + pended) % M
    BY <1>1, <1>4 DEF IInv, NoTickLost
  <2>2. clock' = (tick + pended + 1) % M
    BY <1>1, <1>4, <2>1, AddedMod
  <2>3. tick + pended + 1 = tick' + pended' - 0
    BY <1>1, <1>4
  <2>4. QED
    BY <1>1, <2>2, <2>3 DEF NoTickLost
<1>11. QED
  BY <1>3, <1>5, <1>6, <1>7, <1>8, <1>9, <1>10 DEF IInv

\* The sleepers are never due when a tick is not worked off.
LEMMA SleepersWait ==
  ASSUME IInv, busy = "no", NEW t \in Tasks, Sleeps(t)
  PROVE  wake[t] \in 0 .. MaxTick /\ tick \in 0 .. MaxTick /\ wake[t] # tick
  BY DEF IInv, Sleepers, Sleeps, Types, TimeType, WaitType

\* A tick is counted: the current list and the one beyond the overflow.
LEMMA CountedLists ==
  ASSUME IInv, CountTick, started, busy = "no", busy' # "no", UNCHANGED <<created, started>>
  PROVE  /\ ReadyType' /\ WaitType' /\ Queues' /\ Homes' /\ Sleepers'
         /\ \A u \in Tasks : /\ Exists(u)' <=> Exists(u)
                             /\ InReady(u)' <=> InReady(u)
                             /\ Sleeps(u)' <=> Sleeps(u)
         /\ tick' = (tick + 1) % M /\ nextUnblock' \in 0 .. MaxTick
<1>1. /\ tick' = (tick + 1) % M /\ UNCHANGED <<ready, top, blocked, wake>>
      /\ tick' = 0 => /\ delayed' = overflow /\ overflow' = delayed
                      /\ nextUnblock' = prvResetNextTaskUnblockTime(overflow)
      /\ tick' # 0 => UNCHANGED <<delayed, overflow, nextUnblock>>
  BY DEF CountTick
<1>2. /\ tick \in 0 .. MaxTick /\ nextUnblock \in 0 .. MaxTick /\ WaitType
      /\ \A u \in Tasks : wake[u] \in 0 .. MaxTick
  BY DEF IInv, Types, TimeType, WaitType
<1>3. tick' = IF tick = MaxTick THEN 0 ELSE tick + 1
  BY <1>1, <1>2, NextTick
<1>4. MaxTick \in Nat \ {0}
  BY Modulus
<1>5. ReadyType' /\ Queues' /\ \A u \in Tasks : InReady(u)' <=> InReady(u)
  BY <1>1, KeptQueues DEF IInv, Types
<1>6. WaitType'
  BY <1>1, <1>2 DEF WaitType
<1>7. \A u \in Tasks : /\ Exists(u)' <=> Exists(u)
                       /\ Sleeps(u)' <=> Sleeps(u) 
                       /\ Blocked(u)' <=> Blocked(u)
  BY <1>1 DEF Exists, Sleeps, Blocked
<1>8. Homes'
  BY <1>1, <1>5, <1>7 DEF IInv, Homes
<1>9. CASE tick # MaxTick
  <2>1. tick' = tick + 1 /\ UNCHANGED <<delayed, overflow, nextUnblock>>
    BY <1>1, <1>2, <1>3, <1>9
  <2>2. /\ \A u \in Members(delayed) : u \in Tasks /\ wake[u] \in 0 .. MaxTick /\ wake[u] > tick
        /\ \A u \in Members(overflow) : u \in Tasks /\ wake[u] \in 0 .. MaxTick /\ wake[u] < tick
    BY <1>2, MembersAre DEF IInv, Sleepers, WaitType
  <2>3. nextUnblock >= tick + 1
    BY <1>2, <1>4, <1>9 DEF IInv, Sleepers
  <2>4. \A u \in Members(delayed) : wake[u] >= tick + 1
    BY <1>2, <2>2
  <2>5. \A u \in Members(overflow) : wake[u] < tick + 1
    BY <1>2, <2>2
  <2>6. Sleepers'
    BY <1>1, <2>1, <2>3, <2>4, <2>5 DEF IInv, Sleepers
  <2>7. QED
    BY <1>1, <1>2, <1>5, <1>6, <1>7, <1>8, <2>1, <2>6
<1>10. CASE tick = MaxTick
  <2>1. /\ tick' = 0 /\ delayed' = overflow /\ overflow' = delayed
        /\ nextUnblock' = prvResetNextTaskUnblockTime(overflow)
    BY <1>1, <1>3, <1>10
  <2>2. \A u \in Members(delayed) : FALSE
    BY <1>2, <1>4, <1>10, MembersAre DEF IInv, Sleepers, WaitType
  <2>3. /\ \A u \in Members(overflow) : u \in Tasks /\ wake[u] >= 0
        /\ overflow # << >> => Head(overflow) \in Tasks
    BY <1>2, <1>4, MembersAre DEF WaitType
  <2>4. /\ nextUnblock' \in 0 .. MaxTick
        /\ overflow # << >> => nextUnblock' <= wake[Head(overflow)]
    BY <1>2, <1>4, <2>1, <2>3 DEF prvResetNextTaskUnblockTime
  <2>5. Sleepers'
    BY <1>1, <1>4, <2>1, <2>2, <2>3, <2>4 DEF IInv, Sleepers
  <2>6. QED
    BY <1>1, <1>2, <1>5, <1>6, <1>7, <1>8, <2>1, <2>4, <2>5
<1>11. QED
  BY <1>9, <1>10

\* A periodic task is one tick later.
LEMMA CountedPeriods ==
  ASSUME IInv, CountTick, busy = "no", UNCHANGED <<pc, call, lastWake>>,
         tick' = (tick + 1) % M, wake' = wake, \A u \in Tasks : pc[u] # "place",
         \A u \in Tasks : Sleeps(u)' <=> Sleeps(u)
  PROVE  Periods' /\ late' \in [Tasks -> Int]
<1>1. late' = [t \in Tasks |-> Older(t)]
  BY DEF CountTick
<1>2. /\ tick \in 0 .. MaxTick /\ late \in [Tasks -> Int]
      /\ lastWake \in [Tasks -> 0 .. MaxTick \cup {None}] /\ wake \in [Tasks -> 0 .. MaxTick]
      /\ MaxTick \in Nat \ {0} /\ MaxLate \in 0 .. MaxTick /\ M = MaxTick + 1
  BY KernelAssumption DEF IInv, Types, TimeType, WaitType, M
<1>3. ASSUME NEW u \in Tasks
      PROVE  /\ late[u] \in Int /\ late[u] >= -MaxTick /\ late[u] <= MaxLate
             /\ late'[u] = IF lastWake[u] = None \/ late[u] = MaxLate THEN late[u] ELSE late[u] + 1
  BY <1>1, <1>2 DEF Older, IInv, Periods
<1>4. ASSUME NEW u \in Tasks
      PROVE  /\ late'[u] \in Int /\ late'[u] >= -MaxTick /\ late'[u] <= MaxLate
  <2>1. MaxLate \in Int /\ MaxTick \in Int
    BY <1>2
  <2>2. QED
    BY <1>3, <2>1
<1>5. late' \in [Tasks -> Int]
  BY <1>1, <1>4
<1>6. ASSUME NEW u \in Tasks, lastWake[u] # None
      PROVE  /\ late'[u] < MaxLate => (tick' - lastWake[u] - late'[u]) % M = 0
             /\ late'[u] >= 0 \/ (Sleeps(u) /\ call[u].kind = "until")
             /\ Sleeps(u) /\ call[u].kind = "until" => (wake[u] - tick') % M = -late'[u]
  <2>1. lastWake[u] \in Int /\ wake[u] \in 0 .. MaxTick /\ MaxLate \in Int /\ MaxTick \in Int
    BY <1>2, <1>6
  <2>2. PICK q \in Int : tick + 1 = q * M + tick'
    <3>1. tick + 1 \in Int
      BY <1>2
    <3>2. \E q \in Int : tick + 1 = q * M + tick'
      BY <3>1, Divided, Zenon
    <3>3. QED
      BY <3>2
  <2>3. q * M \in Int /\ (-q) * M = -(q * M) /\ tick' \in Int
    <3>1. q * M \in Int /\ (0 - q) * M = 0 * M - q * M /\ 0 * M = 0
      BY <1>2, Multiples
    <3>2. tick' \in Int
      BY <1>2, Divided
    <3>3. QED
      BY <3>1, <3>2
  <2>4. ASSUME late'[u] < MaxLate PROVE (tick' - lastWake[u] - late'[u]) % M = 0
    <3>1. late'[u] = late[u] + 1 /\ late[u] < MaxLate /\ late[u] \in Int
      BY <1>3, <1>6, <2>1, <2>4
    <3>2. (tick - lastWake[u] - late[u]) % M = 0
      BY <1>6, <3>1 DEF IInv, Periods
    <3>3. tick' - lastWake[u] - late'[u] = (tick - lastWake[u] - late[u]) + (-q) * M
      <4> DEFINE b == q * M
                 c == (-q) * M
      <4>1. b \in Int /\ c = -b /\ tick + 1 = b + tick' /\ tick' \in Int /\ tick \in Int
        BY <1>2, <2>2, <2>3
      <4> HIDE DEF b, c
      <4>2. tick' - lastWake[u] - late'[u] = (tick - lastWake[u] - late[u]) + c
        BY <2>1, <3>1, <4>1
      <4>3. QED
        BY <4>2 DEF c
    <3> DEFINE x == tick' - lastWake[u] - late'[u]
               y == tick - lastWake[u] - late[u]
    <3>4. x \in Int /\ y \in Int /\ -q \in Int
      BY <1>2, <2>1, <2>3, <3>1
    <3>5. x = y + (-q) * M /\ y % M = 0
      BY <3>2, <3>3
    <3> HIDE DEF x, y
    <3>6. x % M = y % M
      BY <3>4, <3>5, Congruent, Zenon
    <3>7. QED
      BY <3>5, <3>6 DEF x
  <2>5. late'[u] >= 0 \/ (Sleeps(u) /\ call[u].kind = "until")
    <3>1. late[u] >= 0 \/ (Sleeps(u) /\ call[u].kind = "until")
      BY <1>6 DEF IInv, Periods
    <3>2. QED
      BY <1>3, <3>1
  <2>6. ASSUME Sleeps(u), call[u].kind = "until" PROVE (wake[u] - tick') % M = -late'[u]
    <3> DEFINE l == late[u]
    <3>1. (wake[u] - tick) % M = -l
      BY <1>6, <2>6 DEF IInv, Periods
    <3>2. wake[u] # tick
      BY <2>6, SleepersWait
    <3>3. PICK p \in Int : wake[u] - tick = p * M + (-l)
      <4>1. wake[u] - tick \in Int
        BY <1>2, <2>1
      <4>2. -l = (wake[u] - tick) % M
        BY <3>1
      <4>3. \E p \in Int : wake[u] - tick = p * M + (-l)
        BY <4>1, <4>2, Divided, Zenon
      <4>4. QED
        BY <4>3
    <3>4. -l \in 0 .. MaxTick /\ l \in Int
      BY <1>2, <1>3, <2>1, <3>1, Divided
    <3>5. l # 0
      <4>1. SUFFICES ASSUME l = 0 PROVE FALSE
        OBVIOUS
      <4>2. wake[u] - tick \in 0 .. MaxTick \/ wake[u] - tick \in -MaxTick .. -1
        BY <1>2, <2>1
      <4>3. ((wake[u] - tick) % M) = wake[u] - tick \/ (wake[u] - tick) % M = wake[u] - tick + M
        BY <1>2, <2>1, <4>2, Wrapped
      <4>4. QED
        BY <1>2, <2>1, <3>1, <3>2, <4>1, <4>2, <4>3
    <3>6. l < 0 /\ late'[u] = l + 1
      BY <1>2, <1>3, <1>6, <3>4, <3>5
    <3>7. p * M \in Int /\ (p + q) * M = p * M + q * M
      BY Multiples
    <3> DEFINE a == p * M
               b == q * M
               c == (p + q) * M
    <3>11. /\ wake[u] - tick = a + (-l) /\ tick + 1 = b + tick'
           /\ a \in Int /\ b \in Int /\ c = a + b /\ tick' \in Int /\ tick \in Int
      BY <1>2, <2>2, <2>3, <3>3, <3>7
    <3> HIDE DEF l, a, b, c
    <3>12. /\ wake[u] - tick' = c + (-(l + 1)) /\ -(l + 1) \in 0 .. MaxTick
           /\ wake[u] - tick' \in Int
      <4>1. wake[u] \in Int /\ MaxTick \in Int
        BY <2>1
      <4>2. -(l + 1) \in 0 .. MaxTick
        BY <3>4, <3>6, <4>1
      <4> DEFINE w == wake[u]
                 y == tick'
      <4>3. /\ w \in Int /\ y \in Int /\ tick \in Int /\ a \in Int /\ b \in Int /\ c \in Int
            /\ l \in Int /\ tick + 1 = b + y /\ w - tick = a + (-l) /\ c = a + b
        <5>1. c \in Int
          BY <3>11
        <5>2. QED
          BY <3>4, <3>11, <4>1, <5>1
      <4> HIDE DEF w, y
      <4>4. w = a + (-l) + tick /\ tick = b + y - 1
        BY <4>3
      <4>7. w - y = c + (-(l + 1)) /\ w - y \in Int
        BY <4>3, <4>4
      <4>6. wake[u] - tick' = c + (-(l + 1)) /\ wake[u] - tick' \in Int
        BY <4>7 DEF w, y
      <4>5. QED
        BY <4>2, <4>6
    <3>8. wake[u] - tick' = (p + q) * M + (-(l + 1)) /\ (p + q) \in Int /\ -(l + 1) \in 0 .. MaxTick
          /\ wake[u] - tick' \in Int
      BY <3>12 DEF c
    <3>9. (wake[u] - tick') % M = -(l + 1)
      BY <3>8, Residue
    <3>10. QED
      BY <3>6, <3>9
  <2>7. QED
    BY <2>4, <2>5, <2>6
<1>7. ASSUME NEW u \in Tasks
      PROVE  /\ pc[u] = "place" =>
                  /\ call[u] \in Calls[u]
                  /\ call[u].kind = "until" => lastWake[u] # None /\ late[u] < MaxLate
             /\ Sleeps(u) /\ call[u] # None /\ call[u].kind = "until" => lastWake[u] # None
  BY DEF IInv, Periods
<1>8. Periods'
  BY <1>4, <1>6, <1>7 DEF Periods
<1>9. QED
  BY <1>5, <1>8

\* What SysTick_Handler and xTaskResumeAll have in common.
LEMMA Counted ==
  ASSUME IInv, CountTick, started, busy = "no", busy' # "no",
         UNCHANGED <<created, started, current, suspended, yieldPending, pendSV, masked>>,
         UNCHANGED code, \A u \in Tasks : pc[u] # "place"
  PROVE  /\ ReadyType' /\ WaitType' /\ CodeType' /\ Queues' /\ Homes' /\ Idlers'
         /\ Sleepers' /\ Periods' /\ switch' = FALSE
         /\ tick' = (tick + 1) % M /\ tick' \in 0 .. MaxTick /\ nextUnblock' \in 0 .. MaxTick
         /\ late' \in [Tasks -> Int] /\ lastWake' \in [Tasks -> 0 .. MaxTick \cup {None}]
         /\ \A u \in Tasks : InReady(u)' <=> InReady(u)
         /\ UNCHANGED <<ready, top>> /\ UNCHANGED <<pc, call, lastWake>>
<1>1. UNCHANGED <<pc, call, lastWake>>
  BY DEF code
<1>2. UNCHANGED <<ready, top, wake>> /\ switch' = FALSE
  BY DEF CountTick
<1>3. /\ ReadyType' /\ WaitType' /\ Queues' /\ Homes' /\ Sleepers'
      /\ \A u \in Tasks : /\ Exists(u)' <=> Exists(u)
                          /\ InReady(u)' <=> InReady(u)
                          /\ Sleeps(u)' <=> Sleeps(u)
      /\ tick' = (tick + 1) % M /\ nextUnblock' \in 0 .. MaxTick
  BY CountedLists
<1>4. Periods' /\ late' \in [Tasks -> Int]
  BY <1>1, <1>2, <1>3, CountedPeriods
<1>5. tick' \in 0 .. MaxTick
  <2>1. tick \in 0 .. MaxTick
    BY DEF IInv, Types, TimeType
  <2>2. QED
    BY <1>3, <2>1, NextTick, Modulus
<1>6. CodeType' /\ lastWake' \in [Tasks -> 0 .. MaxTick \cup {None}]
  BY <1>1 DEF IInv, Types, CodeType, TimeType
<1>7. Idlers'
  BY <1>1, <1>3 DEF IInv, Idlers
<1>8. QED
  BY <1>1, <1>2, <1>3, <1>4, <1>5, <1>6, <1>7

LEMMA Ticked ==
  ASSUME IInv, SysTick_Handler, suspended = 0 PROVE IInv'
<1>1. /\ UNCHANGED <<created, started, current, suspended, yieldPending, pendSV, masked, pended>>
      /\ UNCHANGED code /\ started /\ ~masked /\ ~pendSV /\ busy = "no" /\ busy' = "isr"
      /\ CountTick /\ clock' = (clock + 1) % M
  BY DEF SysTick_Handler, cpu
<1>2. ~Inside /\ current \in Tasks
  BY <1>1 DEF IInv, Control
<1>3. pc[current] \in {"run", "yield"} /\ \A u \in Tasks : pc[u] # "place"
  BY <1>1, <1>2 DEF IInv, Control, Inside, Types, CodeType
<1>4. /\ ReadyType' /\ WaitType' /\ CodeType' /\ Queues' /\ Homes' /\ Idlers'
      /\ Sleepers' /\ Periods' /\ switch' = FALSE
      /\ tick' = (tick + 1) % M /\ tick' \in 0 .. MaxTick /\ nextUnblock' \in 0 .. MaxTick
      /\ late' \in [Tasks -> Int] /\ lastWake' \in [Tasks -> 0 .. MaxTick \cup {None}]
      /\ \A u \in Tasks : InReady(u)' <=> InReady(u)
      /\ UNCHANGED <<ready, top>> /\ UNCHANGED <<pc, call, lastWake>>
  BY <1>1, <1>3, Counted
<1>5. tick \in 0 .. MaxTick /\ pended \in 0 .. MaxPended /\ clock \in 0 .. MaxTick
      /\ MaxTick \in Nat /\ MaxPended \in Nat
  BY KernelAssumption DEF IInv, Types, TimeType, KernelType
<1>6. Types'
  <2>1. clock' \in 0 .. MaxTick
    BY <1>1, <1>5, Modulus
  <2>2. KernelType' /\ TimeType'
    BY <1>1, <1>4, <2>1 DEF IInv, Types, KernelType, TimeType
  <2>3. QED
    BY <1>4, <2>2 DEF Types
<1>7. Control'
  BY <1>1, <1>2, <1>3, <1>4 DEF IInv, Control, Inside
<1>8. Runner'
  BY <1>1, <1>2, <1>4 DEF IInv, Runner
<1>9. NoTickLost'
  <2>1. clock = (tick + pended) % M
    BY <1>1, <1>5 DEF IInv, NoTickLost
  <2>2. clock' = (tick + pended + 1) % M
    BY <1>1, <1>5, <2>1, AddedMod
  <2>3. (tick' + pended) % M = ((tick + 1) + pended) % M
    <3>1. tick + 1 \in Int /\ pended \in Int
      BY <1>5
    <3>2. (((tick + 1) % M) + pended) % M = ((tick + 1) + pended) % M
      BY <3>1, AddedMod
    <3>3. QED
      BY <1>4, <3>2
  <2>4. (tick + 1) + pended = tick + pended + 1 /\ tick' + pended' - 0 = tick' + pended
    BY <1>1, <1>4, <1>5
  <2>5. QED
    BY <1>1, <2>2, <2>3, <2>4 DEF NoTickLost
<1>10. QED
  BY <1>4, <1>6, <1>7, <1>8, <1>9 DEF IInv

LEMMA UnwoundTick ==
  ASSUME IInv, NEW t \in Tasks, UnwindTick(t) PROVE IInv'
<1>1. /\ UNCHANGED <<created, started, current, suspended, yieldPending, pendSV, masked, pended, clock>>
      /\ UNCHANGED code /\ busy' = "resume" /\ CountTick /\ pended > 0
      /\ Runs(t, "unwind")
  BY DEF UnwindTick, cpu
<1>2. started /\ current = t /\ ~pendSV /\ busy = "no" /\ pc[t] = "unwind"
  BY <1>1 DEF Runs
<1>3. \A u \in Tasks : pc[u] # "place"
  BY <1>2 DEF IInv, Control
<1>4. /\ ReadyType' /\ WaitType' /\ CodeType' /\ Queues' /\ Homes' /\ Idlers'
      /\ Sleepers' /\ Periods' /\ switch' = FALSE
      /\ tick' = (tick + 1) % M /\ tick' \in 0 .. MaxTick /\ nextUnblock' \in 0 .. MaxTick
      /\ late' \in [Tasks -> Int] /\ lastWake' \in [Tasks -> 0 .. MaxTick \cup {None}]
      /\ \A u \in Tasks : InReady(u)' <=> InReady(u)
      /\ UNCHANGED <<ready, top>> /\ UNCHANGED <<pc, call, lastWake>>
  BY <1>1, <1>2, <1>3, Counted
<1>5. tick \in 0 .. MaxTick /\ pended \in 0 .. MaxPended /\ clock \in 0 .. MaxTick
      /\ MaxTick \in Nat /\ MaxPended \in Nat
  BY KernelAssumption DEF IInv, Types, TimeType, KernelType
<1>6. Types'
  <2>1. KernelType' /\ TimeType'
    BY <1>1, <1>4 DEF IInv, Types, KernelType, TimeType
  <2>2. QED
    BY <1>4, <2>1 DEF Types
<1>7. Control'
  BY <1>1, <1>2, <1>4 DEF IInv, Control, Inside
<1>8. Runner'
  BY <1>1, <1>2, <1>4 DEF Runner
<1>9. NoTickLost'
  <2>1. clock = (tick + pended) % M
    BY <1>2, <1>5 DEF IInv, NoTickLost
  <2>2. (((tick + 1) % M) + (pended - 1)) % M = ((tick + 1) + (pended - 1)) % M
    <3>1. tick + 1 \in Int /\ pended - 1 \in Int
      BY <1>5
    <3>2. QED
      BY <3>1, AddedMod
  <2>3. (tick + 1) + (pended - 1) = tick + pended /\ tick' + pended' - 1 = tick' + (pended - 1)
    BY <1>1, <1>4, <1>5
  <2>4. QED
    BY <1>1, <1>4, <2>1, <2>2, <2>3 DEF NoTickLost
<1>10. QED
  BY <1>4, <1>6, <1>7, <1>8, <1>9 DEF IInv

LEMMA Woken ==
  ASSUME IInv, WakeOne PROVE IInv'
<1> DEFINE t == Head(delayed)
<1>1. /\ UNCHANGED <<created, started, current, overflow, blocked, suspended, yieldPending>>
      /\ UNCHANGED <<pendSV, masked, busy>> /\ UNCHANGED <<tick, nextUnblock, pended, clock, late>>
      /\ UNCHANGED <<pc, call, lastWake>>
      /\ busy # "no" /\ prvAddTaskToReadyList(t) /\ delayed' = Tail(delayed)
      /\ switch' = (switch \/ Priority[t] > Priority[current])
      /\ wake' = [wake EXCEPT ![t] = 0] /\ delayed # << >> /\ wake[t] <= tick
  BY DEF WakeOne, Due, time, cpu, code
<1> HIDE DEF t
<1>2. /\ delayed \in Seq(Tasks) /\ Once(delayed) /\ wake \in [Tasks -> 0 .. MaxTick]
      /\ tick \in 0 .. MaxTick /\ MaxTick \in Nat
  BY Modulus DEF IInv, Types, WaitType, TimeType, Homes
<1>3. /\ t = delayed[1] /\ t \in Members(delayed) /\ delayed' \in Seq(Tasks) /\ Once(delayed')
      /\ Members(delayed') = Members(delayed) \ {t} /\ Len(delayed') = Len(delayed) - 1
      /\ \A i \in 1 .. Len(delayed) - 1 : delayed'[i] = delayed[i + 1]
  BY <1>1, <1>2, Headless DEF t
<1>4. t \in Tasks /\ Sleeps(t) /\ Len(delayed) \in Nat
  BY <1>2, <1>3, MembersAre DEF Sleeps
<1>5. ~InReady(t) /\ ~Blocked(t) /\ t \notin Members(overflow) /\ Exists(t)
  BY <1>3, <1>4 DEF IInv, Homes
<1>6. ReadyType' /\ Queues' /\ \A u \in Tasks : InReady(u)' <=> InReady(u) \/ u = t
  BY <1>1, <1>4, <1>5, Readied DEF IInv, Types
<1>7. wake[t] = tick
  BY <1>1, <1>2, <1>3, <1>4 DEF IInv, Sleepers
<1>8. \A u \in Tasks : u # t => wake'[u] = wake[u]
  BY <1>1, <1>2
<1>9. WaitType'
  BY <1>1, <1>2, <1>3, <1>4 DEF IInv, Types, WaitType
<1>10. \A u \in Tasks : /\ Exists(u)' <=> Exists(u)
                        /\ Sleeps(u)' <=> Sleeps(u) /\ u # t
                        /\ Blocked(u)' <=> Blocked(u)
                        /\ u \in Members(delayed') <=> u \in Members(delayed) /\ u # t
                        /\ Members(overflow') = Members(overflow)
  BY <1>1, <1>3, <1>5 DEF Exists, Sleeps, Blocked
<1>11. Types'
  <2>1. KernelType' /\ TimeType' /\ CodeType'
    <3>1. switch' \in BOOLEAN
      BY <1>1
    <3>2. QED
      BY <1>1, <3>1 DEF IInv, Types, KernelType, TimeType, CodeType
  <2>2. QED
    BY <1>6, <1>9, <2>1 DEF Types
<1>12. Homes'
  BY <1>1, <1>3, <1>4, <1>5, <1>6, <1>10 DEF IInv, Homes
<1>13. started /\ current \in Tasks
  BY <1>1 DEF IInv, Control
<1>14. Control'
  BY <1>1, <1>13 DEF IInv, Control, Inside
<1>15. Runner'
  <2>1. ASSUME ~pendSV, pc[current] = "run", NEW p \in top'
        PROVE  p <= Priority[current] \/ (busy = "isr" /\ switch')
    <3>1. busy = "isr"
      BY <1>1, <2>1 DEF IInv, Control, Types, KernelType
    <3>2. p \in top \/ p = Priority[t]
      BY <1>1, <2>1 DEF prvAddTaskToReadyList
    <3>3. CASE p \in top
      BY <1>1, <1>13, <2>1, <3>1, <3>3 DEF IInv, Runner
    <3>4. CASE p = Priority[t]
      <4>1. Priority[t] \in Nat /\ Priority[current] \in Nat
        BY <1>4, <1>13, KernelAssumption
      <4>2. CASE Priority[t] > Priority[current]
        <5>1. switch' = TRUE
          BY <1>1, <4>2, Zenon
        <5>2. QED
          BY <3>1, <5>1
      <4>3. CASE ~(Priority[t] > Priority[current])
        BY <3>4, <4>1, <4>3
      <4>4. QED
        BY <4>2, <4>3
    <3>5. QED
      BY <3>2, <3>3, <3>4
  <2>2. started /\ ~pendSV /\ pc[current] \in {"run", "place"} => InReady(current)
    BY <1>13 DEF IInv, Runner
  <2>3. (InReady(current))' <=> InReady(current) \/ current = t
    BY <1>1, <1>6, <1>13 DEF InReady
  <2>4. QED
    BY <1>1, <1>13, <2>1, <2>2, <2>3 DEF IInv, Runner
<1>16. Idlers'
  BY <1>1, <1>6, <1>10 DEF IInv, Idlers
<1>17. Sleepers'
  <2>1. \A u \in Members(delayed') : u \in Members(delayed) /\ u \in Tasks /\ wake'[u] = wake[u]
    BY <1>2, <1>3, <1>8, MembersAre
  <2>2. \A u \in Members(overflow) : u \in Tasks /\ u # t /\ wake'[u] = wake[u]
    BY <1>2, <1>5, <1>8, MembersAre DEF IInv, Types, WaitType
  <2>3. \A i \in 1 .. Len(delayed') : /\ delayed'[i] = delayed[i + 1] /\ i + 1 \in 1 .. Len(delayed)
                                      /\ delayed'[i] \in Members(delayed')
    BY <1>3, <1>4, MembersAre
  <2>4. \A i \in 1 .. Len(overflow) : overflow[i] \in Members(overflow)
    BY MembersAre DEF IInv, Types, WaitType
  <2>5. Sorted(delayed', wake')
    <3>1. SUFFICES ASSUME NEW i \in 1 .. Len(delayed'), NEW j \in 1 .. Len(delayed'), i < j
                   PROVE  wake'[delayed'[i]] <= wake'[delayed'[j]]
      BY DEF Sorted
    <3>2. /\ wake'[delayed'[i]] = wake[delayed[i + 1]] /\ wake'[delayed'[j]] = wake[delayed[j + 1]]
          /\ i + 1 \in 1 .. Len(delayed) /\ j + 1 \in 1 .. Len(delayed) /\ i + 1 < j + 1
      BY <2>1, <2>3, <3>1
    <3>3. QED
      BY <3>2 DEF IInv, Sleepers, Sorted
  <2>6. Sorted(overflow', wake')
    BY <1>1, <2>2, <2>4 DEF IInv, Sleepers, Sorted
  <2>7. \A u \in Members(delayed') : wake'[u] >= tick
    BY <2>1 DEF IInv, Sleepers
  <2>8. \A u \in Members(overflow') : wake'[u] < tick
    BY <1>1, <2>2 DEF IInv, Sleepers
  <2>9. delayed' # << >> => nextUnblock <= wake'[Head(delayed')]
    <3>1. SUFFICES ASSUME delayed' # << >> PROVE nextUnblock <= wake'[Head(delayed')]
      OBVIOUS
    <3>2. Head(delayed') = delayed'[1] /\ 1 \in 1 .. Len(delayed')
      BY <1>3, <3>1
    <3>3. wake'[Head(delayed')] = wake[delayed[2]] /\ 2 \in 1 .. Len(delayed) /\ 1 \in 1 .. Len(delayed)
      BY <2>1, <2>3, <3>2
    <3>4. wake[delayed[1]] <= wake[delayed[2]]
      BY <3>3 DEF IInv, Sleepers, Sorted
    <3>5. nextUnblock <= wake[delayed[1]]
      BY <1>1, <1>3 DEF IInv, Sleepers, t
    <3>6. /\ nextUnblock \in Int /\ wake[delayed[1]] \in Int
          /\ delayed[2] \in Tasks /\ wake[delayed[2]] \in Int
      BY <1>2, <1>3, <1>4, <3>3 DEF IInv, Types, TimeType
    <3>7. QED
      BY <3>3, <3>4, <3>5, <3>6
  <2>10. QED
    BY <1>1, <2>5, <2>6, <2>7, <2>8, <2>9 DEF IInv, Sleepers
<1>18. Periods'
  <2>1. SUFFICES ASSUME NEW u \in Tasks
                 PROVE  /\ late'[u] >= -MaxTick /\ late'[u] <= MaxLate
                        /\ lastWake'[u] # None =>
                             /\ late'[u] < MaxLate => (tick' - lastWake'[u] - late'[u]) % M = 0
                             /\ late'[u] >= 0 \/ (Sleeps(u)' /\ call'[u].kind = "until")
                             /\ Sleeps(u)' /\ call'[u].kind = "until" =>
                                  (wake'[u] - tick') % M = -late'[u]
                        /\ pc'[u] = "place" =>
                             /\ call'[u] \in Calls[u]
                             /\ call'[u].kind = "until" => lastWake'[u] # None /\ late'[u] < MaxLate
                        /\ Sleeps(u)' /\ call'[u] # None /\ call'[u].kind = "until" =>
                             lastWake'[u] # None
    BY DEF Periods
  <2>2. CASE u = t
    <3>1. ~Sleeps(u)'
      BY <1>10, <2>2
    <3>2. lastWake[u] # None => late[u] >= 0
      <4>1. SUFFICES ASSUME lastWake[u] # None, Sleeps(u), call[u].kind = "until"
                     PROVE  late[u] >= 0
        BY DEF IInv, Periods
      <4>2. (wake[u] - tick) % M = -late[u] /\ late[u] \in Int
        BY <4>1 DEF IInv, Periods, Types, TimeType
      <4>3. (wake[u] - tick) % M = 0
        <5>1. wake[u] - tick = 0 /\ 0 \in 0 .. MaxTick
          BY <1>2, <1>7, <2>2
        <5>2. QED
          BY <5>1, Wrapped
      <4>4. QED
        BY <4>2, <4>3
    <3>3. QED
      BY <1>1, <3>1, <3>2 DEF IInv, Periods
  <2>3. CASE u # t
    BY <1>1, <1>8, <1>10, <2>3 DEF IInv, Periods
  <2>4. QED
    BY <2>2, <2>3
<1>19. NoTickLost'
  BY <1>1 DEF IInv, NoTickLost
<1>20. QED
  BY <1>6, <1>11, <1>12, <1>14, <1>15, <1>16, <1>17, <1>18, <1>19 DEF IInv

LEMMA TickEnded ==
  ASSUME IInv, EndTick PROVE IInv'
<1>1. /\ UNCHANGED <<created, started, current, suspended, masked>> /\ UNCHANGED lists
      /\ UNCHANGED <<tick, clock, late, pc, call, lastWake>>
      /\ busy # "no" /\ ~Due /\ busy' = "no" /\ switch' = FALSE
      /\ nextUnblock' = IF tick < nextUnblock THEN nextUnblock
                        ELSE prvResetNextTaskUnblockTime(delayed)
  BY DEF EndTick, code
<1>2. UNCHANGED <<ready, top, delayed, overflow, blocked, wake>>
  BY <1>1 DEF lists
<1>3. \/ busy = "isr" /\ pendSV' = SwitchWanted /\ UNCHANGED <<pended, yieldPending>>
      \/ busy = "resume" /\ pended' = pended - 1 /\ yieldPending' = (yieldPending \/ SwitchWanted)
         /\ UNCHANGED pendSV
  BY DEF EndTick
<1>4. /\ ReadyType' /\ WaitType' /\ Queues' /\ Homes'
      /\ \A u \in Tasks : /\ Exists(u)' <=> Exists(u)
                          /\ InReady(u)' <=> InReady(u)
                          /\ Sleeps(u)' <=> Sleeps(u)
  BY <1>1, KeptLists
<1>5. /\ tick \in 0 .. MaxTick /\ nextUnblock \in 0 .. MaxTick /\ pended \in 0 .. MaxPended
      /\ delayed \in Seq(Tasks) /\ wake \in [Tasks -> 0 .. MaxTick]
      /\ yieldPending \in BOOLEAN /\ switch \in BOOLEAN /\ pendSV \in BOOLEAN
      /\ MaxTick \in Nat /\ MaxPended \in Nat
  BY KernelAssumption DEF IInv, Types, TimeType, KernelType, WaitType
<1>6. started /\ current \in Tasks /\ ~pendSV
  BY <1>1 DEF IInv, Control, Types, KernelType
<1>7. SwitchWanted \in BOOLEAN /\ (switch => SwitchWanted)
  BY <1>5, Zenon DEF SwitchWanted
<1>8. /\ pendSV' \in BOOLEAN /\ yieldPending' \in BOOLEAN
      /\ pended' \in 0 .. MaxPended
      /\ busy = "isr" => pended' = pended /\ (switch => pendSV')
      /\ busy = "resume" => pended' = pended - 1 /\ ~pendSV'
  <2>1. CASE busy = "isr"
    BY <1>3, <1>5, <1>7, <2>1, Zenon
  <2>2. CASE busy = "resume"
    <3>1. pended > 0
      BY <2>2 DEF IInv, Control
    <3>2. pended' = pended - 1 /\ pendSV' = pendSV /\ yieldPending' = (yieldPending \/ SwitchWanted)
      BY <1>3, <2>2
    <3>3. yieldPending' \in BOOLEAN
      BY <3>2, Zenon
    <3>4. QED
      BY <1>5, <1>6, <2>2, <3>1, <3>2, <3>3
  <2>3. QED
    BY <1>1, <2>1, <2>2 DEF IInv, Types, KernelType
<1> HIDE DEF SwitchWanted
<1>9. /\ nextUnblock' \in 0 .. MaxTick /\ nextUnblock' >= tick
      /\ nextUnblock' > tick \/ nextUnblock' = MaxTick
      /\ delayed # << >> => nextUnblock' <= wake[Head(delayed)]
      /\ \A u \in Members(delayed) : wake[u] > tick
  <2>1. ASSUME delayed # << >>
        PROVE  /\ Head(delayed) = delayed[1] /\ Head(delayed) \in Tasks
               /\ 1 \in 1 .. Len(delayed) /\ wake[Head(delayed)] \in 0 .. MaxTick
               /\ nextUnblock <= wake[Head(delayed)]
               /\ \A u \in Members(delayed) : u \in Tasks /\ wake[Head(delayed)] <= wake[u]
    <3>1. Len(delayed) \in Nat /\ 1 \in 1 .. Len(delayed)
      BY <1>5, <2>1
    <3>2. Head(delayed) = delayed[1] /\ Head(delayed) \in Tasks
      BY <1>5, <2>1
    <3>3. ASSUME NEW k \in 1 .. Len(delayed)
          PROVE  delayed[k] \in Tasks /\ wake[delayed[1]] <= wake[delayed[k]]
      <4>1. delayed[k] \in Tasks /\ delayed[1] \in Tasks
        BY <1>5, <3>1
      <4>2. CASE k = 1
        BY <1>5, <4>1, <4>2
      <4>3. CASE k # 1
        <5>1. 1 < k
          BY <3>1, <4>3
        <5>2. QED
          BY <3>1, <4>1, <5>1 DEF IInv, Sleepers, Sorted
      <4>4. QED
        BY <4>2, <4>3
    <3>4. \A u \in Members(delayed) : u \in Tasks /\ wake[Head(delayed)] <= wake[u]
      BY <1>5, <3>2, <3>3, MembersAre
    <3>5. nextUnblock <= wake[Head(delayed)] /\ wake[Head(delayed)] \in 0 .. MaxTick
      BY <1>5, <2>1, <3>2 DEF IInv, Sleepers
    <3>6. QED
      BY <3>1, <3>2, <3>4, <3>5
  <2>2. delayed = << >> => Members(delayed) = {}
    BY <1>5, MembersAre
  <2>3. CASE tick < nextUnblock
    <3>1. nextUnblock' = nextUnblock
      BY <1>1, <2>3
    <3>2. \A u \in Members(delayed) : wake[u] > tick
      BY <1>5, <2>1, <2>2, <2>3
    <3>3. delayed # << >> => nextUnblock' <= wake[Head(delayed)]
      BY <2>1, <3>1
    <3>4. nextUnblock' \in 0 .. MaxTick /\ nextUnblock' > tick /\ nextUnblock' >= tick
      BY <1>5, <2>3, <3>1
    <3>5. QED
      BY <3>2, <3>3, <3>4
  <2>4. CASE ~(tick < nextUnblock) /\ delayed = << >>
    <3>1. nextUnblock' = MaxTick
      BY <1>1, <2>4 DEF prvResetNextTaskUnblockTime
    <3>2. QED
      BY <1>5, <2>2, <2>4, <3>1
  <2>5. CASE ~(tick < nextUnblock) /\ delayed # << >>
    <3>1. nextUnblock' = wake[Head(delayed)]
      BY <1>1, <2>5 DEF prvResetNextTaskUnblockTime
    <3>2. tick >= nextUnblock
      BY <1>5, <2>5
    <3>3. ~(wake[Head(delayed)] <= tick)
      BY <1>1, <2>5, <3>2 DEF Due
    <3>4. wake[Head(delayed)] > tick
      BY <1>5, <2>1, <2>5, <3>3
    <3>5. \A u \in Members(delayed) : wake[u] > tick
      BY <1>5, <2>1, <2>5, <3>4
    <3>6. QED
      BY <1>5, <2>1, <2>5, <3>1, <3>4, <3>5
  <2>6. QED
    BY <2>3, <2>4, <2>5
<1>10. Types'
  <2>1. KernelType' /\ TimeType' /\ CodeType'
    BY <1>1, <1>8, <1>9 DEF IInv, Types, KernelType, TimeType, CodeType
  <2>2. QED
    BY <1>4, <2>1 DEF Types
<1>11. busy \in {"isr", "resume"}
  BY <1>1 DEF IInv, Types, KernelType
<1>12. Control'
  BY <1>1, <1>2, <1>6, <1>8, <1>11 DEF IInv, Control, Inside
<1>13. Runner'
  <2>1. InReady(current)' <=> InReady(current)
    BY <1>1, <1>2 DEF InReady
  <2>2. busy = "resume" => pc[current] = "unwind"
    BY DEF IInv, Control
  <2>3. ASSUME pc[current] = "run", ~pendSV' PROVE \A p \in top : p <= Priority[current]
    BY <1>6, <1>8, <1>11, <2>2, <2>3 DEF IInv, Runner
  <2>4. QED
    BY <1>1, <1>2, <1>6, <2>1, <2>3 DEF IInv, Runner
<1>14. Idlers'
  BY <1>1, <1>4 DEF IInv, Idlers
<1>15. Sleepers'
  BY <1>1, <1>2, <1>9 DEF IInv, Sleepers
<1>16. Periods'
  BY <1>1, <1>2, KeptPeriods DEF IInv
<1>17. NoTickLost'
  <2>1. CASE busy = "isr"
    BY <1>1, <1>8, <2>1 DEF IInv, NoTickLost
  <2>2. CASE busy = "resume"
    <3>1. tick + pended - 1 = tick + pended' - 0
      BY <1>5, <1>8, <2>2
    <3>2. clock = (tick + pended - 1) % M
      BY <2>2 DEF IInv, NoTickLost
    <3>3. QED
      BY <1>1, <3>1, <3>2 DEF NoTickLost
  <2>3. QED
    BY <1>11, <2>1, <2>2
<1>18. QED
  BY <1>4, <1>10, <1>12, <1>13, <1>14, <1>15, <1>16, <1>17 DEF IInv

LEMMA Dispatched ==
  ASSUME IInv, PendSV_Handler
  PROVE  /\ IInv'
         /\ current' \in Tasks /\ InReady(current') /\ \A q \in top : q <= Priority[current']
<1> DEFINE p == CHOOSE p \in top : \A q \in top : q <= p
           k == NextIndex(ready[p])
<1>1. /\ UNCHANGED <<created, started, suspended, masked, busy, switch>>
      /\ UNCHANGED <<top, delayed, overflow, blocked, wake>>
      /\ UNCHANGED <<tick, nextUnblock, pended, clock, late, pc, call, lastWake>>
      /\ pendSV /\ ~masked /\ busy = "no" /\ pendSV' = FALSE
      /\ yieldPending' = (suspended # 0)
      /\ suspended = 0 => ready' = [ready EXCEPT ![p].index = k] /\ current' = ready[p].items[k]
  BY DEF PendSV_Handler, time, code
<1> HIDE DEF p, k
<1>2. started /\ suspended = 0 /\ current \in Tasks
  BY <1>1 DEF IInv, Control, Types, KernelType
<1>3. \A u \in Tasks : pc[u] \in {"run", "yield"}
  BY <1>1, <1>2 DEF IInv, Control, Inside, Types, CodeType
<1>4. \A u \in Tasks : Exists(u)
  <2>1. created = Len(Creation)
    BY <1>2 DEF IInv, Control
  <2>2. QED
    BY <2>1, KernelAssumption DEF Exists
<1>5. top # {} /\ top \in SUBSET Levels
  <2>1. PICK u \in Tasks : Calls[u] = {}
    BY KernelAssumption
  <2>2. InReady(u)
    BY <1>4, <2>1 DEF IInv, Idlers
  <2>3. Priority[u] \in top
    BY <2>2, Highest DEF IInv, Types
  <2>4. QED
    BY <2>3 DEF IInv, Types, ReadyType
<1>6. p \in top /\ \A q \in top : q <= p
  BY <1>5, Greatest DEF p
<1>7. /\ p \in Levels /\ ready[p] \in ListType /\ ready[p].items # << >>
      /\ ready[p].items \in Seq(Tasks) /\ ready[p].index \in Nat
      /\ ready[p].index <= Len(ready[p].items)
  BY <1>5, <1>6 DEF IInv, Types, ReadyType, Queues, Queue, ListType
<1>8. k \in 1 .. Len(ready[p].items)
  BY <1>7 DEF k, NextIndex
<1>9. current' = ready[p].items[k] /\ current' \in Members(ready[p].items) /\ current' \in Tasks
  BY <1>1, <1>2, <1>7, <1>8, MembersAre
<1>10. Priority[current'] = p /\ InReady(current')
  <2>1. Priority[current'] = p
    BY <1>7, <1>9 DEF IInv, Queues, Queue
  <2>2. QED
    BY <1>9, <2>1 DEF InReady
<1>11. /\ ready' \in [Levels -> ListType]
       /\ \A q \in Levels : /\ ready'[q].items = ready[q].items
                            /\ ready'[q].index <= Len(ready'[q].items)
  <2>1. ready' = [ready EXCEPT ![p] = [ready[p] EXCEPT !.index = k]]
    BY <1>1, <1>2
  <2>2. [ready[p] EXCEPT !.index = k] \in ListType
    BY <1>7, <1>8 DEF ListType
  <2>3. ready' \in [Levels -> ListType]
    BY <1>7, <2>1, <2>2 DEF IInv, Types, ReadyType
  <2>4. ASSUME NEW q \in Levels
        PROVE  /\ ready'[q].items = ready[q].items
               /\ ready'[q].index <= Len(ready'[q].items)
    <3>1. CASE q = p
      BY <1>7, <1>8, <2>1, <3>1 DEF IInv, Types, ReadyType, ListType
    <3>2. CASE q # p
      <4>1. ready'[q] = ready[q]
        BY <1>7, <2>1, <3>2 DEF IInv, Types, ReadyType
      <4>2. QED
        BY <4>1 DEF IInv, Queues, Queue
    <3>3. QED
      BY <3>1, <3>2
  <2>5. QED
    BY <2>3, <2>4
<1>12. ReadyType'
  BY <1>1, <1>11 DEF IInv, Types, ReadyType
<1>13. Queues'
  BY <1>1, <1>11 DEF IInv, Queues, Queue
<1>14. \A u \in Tasks : InReady(u)' <=> InReady(u)
  BY <1>11, LevelsType DEF InReady
<1>15. Homes' /\ \A u \in Tasks : Sleeps(u)' <=> Sleeps(u)
  BY <1>1, <1>14, KeptHomes DEF IInv
<1>16. Types'
  <2>1. KernelType' /\ TimeType' /\ CodeType' /\ WaitType'
    BY <1>1, <1>2, <1>9 DEF IInv, Types, KernelType, TimeType, CodeType, WaitType
  <2>2. QED
    BY <1>12, <2>1 DEF Types
<1>17. current' # None /\ created # 0
  <2>1. current # None
    BY <1>2, KernelAssumption
  <2>2. QED
    BY <1>9, <2>1, KernelAssumption DEF IInv, Control
<1>18. Control'
  BY <1>1, <1>2, <1>3, <1>9, <1>17 DEF IInv, Control, Inside
<1>19. Runner'
  <2>1. InReady(current)' <=> current' \in Members(ready'[Priority[current']].items)
    BY DEF InReady
  <2>2. InReady(current)'
    BY <1>7, <1>9, <1>10, <1>11, <2>1
  <2>3. QED
    BY <1>1, <1>2, <1>6, <1>10, <2>2 DEF Runner
<1>20. Idlers'
  BY <1>1, <1>14, <1>4 DEF IInv, Idlers
<1>21. Sleepers' /\ Periods'
  BY <1>1, KeptSleepers, KeptPeriods DEF IInv
<1>22. NoTickLost'
  BY <1>1 DEF IInv, NoTickLost
<1>23. QED
  BY <1>6, <1>9, <1>10, <1>13, <1>15, <1>16, <1>18, <1>19, <1>20, <1>21, <1>22 DEF IInv

LEMMA Created ==
  ASSUME IInv, xTaskCreate PROVE IInv'
<1> DEFINE t == Creation[created + 1]
<1>1. /\ UNCHANGED <<started, delayed, overflow, blocked, wake, suspended, yieldPending>>
      /\ UNCHANGED <<pendSV, masked, busy, switch>>
      /\ UNCHANGED <<tick, nextUnblock, pended, clock, late, pc, call, lastWake>>
      /\ ~started /\ created < Len(Creation) /\ created' = created + 1
      /\ prvAddTaskToReadyList(t)
      /\ current' = IF current = None THEN t
                    ELSE IF Priority[current] <= Priority[t] THEN t ELSE current
  BY DEF xTaskCreate, time, cpu, code
<1>2. Len(Creation) \in Nat /\ created \in 0 .. Len(Creation) /\ created + 1 \in 1 .. Len(Creation)
  BY <1>1, KernelAssumption DEF IInv, Types, KernelType
<1>3. t \in Tasks /\ \A i \in 1 .. Len(Creation) : Creation[i] = t => i = created + 1
  BY <1>2, KernelAssumption, SMTT(30)
<1> HIDE DEF t
<1>4. ~Exists(t) /\ \A u \in Tasks : Exists(u)' <=> Exists(u) \/ u = t
  <2>1. ~Exists(t)
    BY <1>2, <1>3 DEF Exists
  <2>2. ASSUME NEW u \in Tasks PROVE Exists(u)' <=> Exists(u) \/ u = t
    <3>1. Exists(u)' <=> \E i \in 1 .. created + 1 : Creation[i] = u
      BY <1>1 DEF Exists
    <3>2. \A i : i \in 1 .. created + 1 <=> i \in 1 .. created \/ i = created + 1
      BY <1>2
    <3>3. Exists(u) <=> \E i \in 1 .. created : Creation[i] = u
      BY DEF Exists
    <3>4. QED
      BY <3>1, <3>2, <3>3 DEF t
  <2>3. QED
    BY <2>1, <2>2
<1>5. ~InReady(t)
  BY <1>3, <1>4 DEF IInv, Homes
<1>6. ReadyType' /\ Queues' /\ \A u \in Tasks : InReady(u)' <=> InReady(u) \/ u = t
  BY <1>1, <1>3, <1>5, Readied DEF IInv, Types
<1>7. \A u \in Tasks : (Sleeps(u)' <=> Sleeps(u)) /\ (Blocked(u)' <=> Blocked(u))
  BY <1>1 DEF Sleeps, Blocked
<1>8. Homes'
  BY <1>1, <1>3, <1>4, <1>5, <1>6, <1>7 DEF IInv, Homes
<1>9. current' \in Tasks /\ (current' = t \/ current' = current)
  BY <1>1, <1>3 DEF IInv, Types, KernelType
<1>10. Types'
  <2>1. KernelType' /\ TimeType' /\ CodeType' /\ WaitType'
    BY <1>1, <1>2, <1>9, SMTT(30) DEF IInv, Types, KernelType, TimeType, CodeType, WaitType
  <2>2. QED
    BY <1>6, <2>1 DEF Types
<1>11. /\ busy = "no" /\ ~pendSV /\ suspended = 0 /\ pended = 0 /\ ~yieldPending
       /\ delayed = << >> /\ overflow = << >> /\ blocked = << >> /\ tick = 0 /\ clock = 0
       /\ \A u \in Tasks : pc[u] = "run" /\ lastWake[u] = None
  BY <1>1 DEF IInv, Control
<1>12. Control'
  <2>1. current' # None /\ created' # 0
    BY <1>1, <1>2, <1>9, KernelAssumption
  <2>2. QED
    BY <1>1, <1>9, <1>11, <2>1 DEF Control, Inside
<1>13. /\ current' \in Members(ready'[Priority[current']].items)
       /\ \A q \in top' : q <= Priority[current']
  <2>1. Priority[t] \in Nat /\ top' = top \cup {Priority[t]}
    BY <1>1, <1>3, KernelAssumption DEF prvAddTaskToReadyList
  <2>5. \A u \in Tasks : u \in Members(ready'[Priority[u]].items) <=> InReady(u) \/ u = t
    BY <1>6 DEF InReady
  <2>2. CASE current = None
    <3>1. created = 0 /\ current' = t
      BY <1>1, <2>2 DEF IInv, Control
    <3>2. \A u \in Tasks : ~InReady(u)
      BY <3>1 DEF IInv, Homes, Exists
    <3>3. top = {}
      BY <3>2, Highest DEF IInv, Types
    <3>4. QED
      BY <1>3, <2>1, <2>5, <3>1, <3>3
  <2>3. CASE current # None
    <3>1. current \in Tasks /\ created > 0
      BY <1>2, <2>3 DEF IInv, Types, KernelType, Control
    <3>2. InReady(current) /\ \A q \in top : q <= Priority[current]
      BY <1>1, <3>1 DEF IInv, Runner
    <3>3. Priority[current] \in Nat /\ top \subseteq Nat
      BY <3>1, KernelAssumption, LevelsType DEF IInv, Types, ReadyType
    <3>4. CASE Priority[current] <= Priority[t]
      <4>1. current' = t
        BY <1>1, <2>3, <3>4
      <4>2. \A q \in top : q <= Priority[t]
        BY <2>1, <3>2, <3>3, <3>4
      <4>3. QED
        BY <1>3, <2>1, <2>5, <4>1, <4>2
    <3>5. CASE ~(Priority[current] <= Priority[t])
      <4>1. current' = current
        BY <1>1, <2>3, <3>5
      <4>2. Priority[t] <= Priority[current]
        BY <2>1, <3>3, <3>5
      <4>3. QED
        BY <2>1, <2>5, <3>1, <3>2, <4>1, <4>2
    <3>6. QED
      BY <3>4, <3>5
  <2>4. QED
    BY <2>2, <2>3
<1>14. Runner'
  <2>1. InReady(current)' <=> current' \in Members(ready'[Priority[current']].items)
    BY DEF InReady
  <2>2. QED
    BY <1>1, <1>13, <2>1 DEF Runner
<1>15. Idlers'
  BY <1>1, <1>4, <1>6 DEF IInv, Idlers
<1>16. Sleepers' /\ Periods'
  BY <1>1, KeptSleepers, KeptPeriods DEF IInv
<1>17. NoTickLost'
  BY <1>1 DEF IInv, NoTickLost
<1>18. QED
  BY <1>6, <1>8, <1>10, <1>12, <1>14, <1>15, <1>16, <1>17 DEF IInv

LEMMA Started ==
  ASSUME IInv, vTaskStartScheduler PROVE IInv'
<1>1. /\ UNCHANGED <<created, current, suspended, yieldPending, pendSV, busy, switch>>
      /\ UNCHANGED <<pended, clock, late, pc, call, lastWake>> /\ UNCHANGED lists
      /\ ~started /\ created = Len(Creation) /\ started' = TRUE /\ masked' = FALSE
      /\ tick' = 0 /\ nextUnblock' = MaxTick
  BY DEF vTaskStartScheduler, code
<1>2. UNCHANGED <<ready, top, delayed, overflow, blocked, wake>>
  BY <1>1 DEF lists
<1>3. /\ ReadyType' /\ WaitType' /\ Queues' /\ Homes'
      /\ \A u \in Tasks : /\ Exists(u)' <=> Exists(u)
                          /\ InReady(u)' <=> InReady(u)
                          /\ Sleeps(u)' <=> Sleeps(u)
  BY <1>1, KeptLists
<1>4. /\ busy = "no" /\ ~pendSV /\ suspended = 0 /\ pended = 0 /\ ~yieldPending
      /\ delayed = << >> /\ overflow = << >> /\ blocked = << >> /\ tick = 0 /\ clock = 0
      /\ \A u \in Tasks : pc[u] = "run" /\ lastWake[u] = None
  BY <1>1 DEF IInv, Control
<1>5. Len(Creation) \in Nat /\ created # 0
  <2>1. Len(Creation) \in Nat /\ \E i \in 1 .. Len(Creation) : TRUE
    BY KernelAssumption
  <2>2. QED
    BY <1>1, <2>1
<1>6. current \in Tasks
  BY <1>5 DEF IInv, Control, Types, KernelType
<1>7. Types'
  <2>1. 0 \in 0 .. MaxTick /\ MaxTick \in 0 .. MaxTick
    BY Modulus
  <2>2. KernelType' /\ TimeType' /\ CodeType'
    BY <1>1, <2>1 DEF IInv, Types, KernelType, TimeType, CodeType
  <2>3. QED
    BY <1>3, <2>2 DEF Types
<1>8. Control'
  BY <1>1, <1>4, <1>5, <1>6 DEF IInv, Control, Inside
<1>9. Runner'
  <2>1. created > 0
    BY <1>1, <1>5
  <2>2. InReady(current) /\ \A q \in top : q <= Priority[current]
    BY <1>1, <2>1 DEF IInv, Runner
  <2>3. InReady(current)'
    BY <1>1, <1>2, <2>2 DEF InReady
  <2>4. QED
    BY <1>1, <1>2, <2>2, <2>3 DEF Runner
<1>10. Idlers'
  BY <1>1, <1>3 DEF IInv, Idlers
<1>11. Sleepers'
  <2>1. Members(<< >>) = {} /\ Len(<< >>) = 0
    BY DEF Members
  <2>2. QED
    BY <1>1, <1>2, <1>4, <2>1, Modulus DEF Sleepers, Sorted
<1>12. Periods'
  <2>1. \A u \in Tasks : ~Sleeps(u)
    <3>1. Members(<< >>) = {}
      BY DEF Members
    <3>2. QED
      BY <1>4, <3>1 DEF Sleeps
  <2>2. QED
    BY <1>1, <1>3, <1>4, <2>1 DEF IInv, Periods
<1>13. NoTickLost'
  BY <1>1, <1>4 DEF IInv, NoTickLost
<1>14. QED
  BY <1>3, <1>7, <1>8, <1>9, <1>10, <1>11, <1>12, <1>13 DEF IInv

\* What is left of a sleep of n ticks, and on which side of the overflow it ends.
LEMMA SleepEnd ==
  ASSUME NEW k \in 0 .. MaxTick, NEW n \in 1 .. MaxTick
  PROVE  /\ (k + n) % M \in 0 .. MaxTick /\ (k + n) % M # k
         /\ (((k + n) % M) - k) % M = n
<1>1. MaxTick \in Nat \ {0} /\ M = MaxTick + 1 /\ k \in Int /\ n \in Int
  BY Modulus
<1>2. CASE k + n <= MaxTick
  <2>1. (k + n) % M = k + n
    BY <1>1, <1>2, Wrapped
  <2>2. (k + n) - k = n /\ n \in 0 .. MaxTick
    BY <1>1
  <2>3. n % M = n
    BY <2>2, Wrapped
  <2>4. QED
    BY <1>1, <1>2, <2>1, <2>2, <2>3
<1>3. CASE k + n > MaxTick
  <2>1. (k + n) % M = k + n - M
    BY <1>1, <1>3, Wrapped
  <2>2. (k + n - M) - k = n - M /\ n - M \in -MaxTick .. -1
    BY <1>1
  <2>3. (n - M) % M = n
    <3>1. (n - M) % M = n - M + M
      BY <1>1, <2>2, Wrapped
    <3>2. QED
      BY <1>1, <3>1
  <2>4. QED
    BY <1>1, <1>3, <2>1, <2>2, <2>3
<1>4. QED
  BY <1>1, <1>2, <1>3

\* A list that an item is not in does not depend on the item's value.
LEMMA OtherValues ==
  ASSUME NEW s \in Seq(Tasks), NEW t \in Tasks, t \notin Members(s), Sorted(s, wake),
         NEW value, \A u \in Tasks : u # t => value[u] = wake[u]
  PROVE  Sorted(s, value)
<1>1. \A i \in 1 .. Len(s) : s[i] \in Tasks /\ s[i] # t
  BY MembersAre
<1>2. QED
  BY <1>1 DEF Sorted

LEMMA Slept ==
  ASSUME IInv, NEW t \in Tasks, Runs(t, "place"), NEW n \in 1 .. MaxTick,
         prvAddCurrentTaskToDelayedList(t, n), UNCHANGED <<created, started, tick, busy>>
  PROVE  /\ ReadyType' /\ WaitType' /\ Queues' /\ Homes' /\ Sleepers'
         /\ nextUnblock' \in 0 .. MaxTick
         /\ wake' = [wake EXCEPT ![t] = (tick + n) % M]
         /\ \A u \in Tasks : /\ Exists(u)' <=> Exists(u)
                             /\ InReady(u)' <=> InReady(u) /\ u # t
                             /\ Sleeps(u)' <=> Sleeps(u) \/ u = t
<1> DEFINE at == (tick + n) % M
           value == [wake EXCEPT ![t] = at]
           beyond == vListInsert(overflow, t, value)
           within == vListInsert(delayed, t, value)
<1>1. /\ LeaveReady(t) /\ wake' = value /\ UNCHANGED blocked
      /\ at < tick => overflow' = beyond /\ UNCHANGED <<delayed, nextUnblock>>
      /\ ~(at < tick) => /\ delayed' = within /\ UNCHANGED overflow
                         /\ nextUnblock' = IF at < nextUnblock THEN at ELSE nextUnblock
  BY DEF prvAddCurrentTaskToDelayedList, TimeToWake
<1>2. /\ tick \in 0 .. MaxTick /\ nextUnblock \in 0 .. MaxTick /\ MaxTick \in Nat
      /\ delayed \in Seq(Tasks) /\ overflow \in Seq(Tasks) /\ blocked \in Seq(Tasks)
      /\ wake \in [Tasks -> 0 .. MaxTick] /\ started /\ busy = "no"
      /\ Once(delayed) /\ Once(overflow)
  BY Modulus DEF IInv, Types, TimeType, WaitType, Runs, Homes
<1>3. InReady(t) /\ t \notin Members(delayed) /\ t \notin Members(overflow) /\ ~Blocked(t)
  BY RunnerReady DEF Sleeps
<1>4. at \in 0 .. MaxTick /\ at # tick
  BY <1>2, SleepEnd
<1> HIDE DEF at
<1>5. /\ value \in [Tasks -> 0 .. MaxTick] /\ value \in [Tasks -> Nat] /\ value[t] = at
      /\ \A u \in Tasks : u # t => value[u] = wake[u]
  <2>1. value \in [Tasks -> 0 .. MaxTick]
    BY <1>2, <1>4
  <2>2. value[t] = at /\ \A u \in Tasks : u # t => value[u] = wake[u]
    BY <1>2
  <2> HIDE DEF value
  <2>3. value \in [Tasks -> Nat]
    BY <1>2, <2>1
  <2>4. QED
    BY <2>1, <2>2, <2>3
<1>6. wake' = [wake EXCEPT ![t] = at]
  BY <1>1
<1> HIDE DEF value
<1>7. Sorted(delayed, value) /\ Sorted(overflow, value)
  <2>1. Sorted(delayed, wake) /\ Sorted(overflow, wake)
    BY DEF IInv, Sleepers
  <2>2. Sorted(delayed, value)
    BY <1>2, <1>3, <1>5, <2>1, OtherValues
  <2>3. Sorted(overflow, value)
    BY <1>2, <1>3, <1>5, <2>1, OtherValues
  <2>4. QED
    BY <2>2, <2>3
<1>8. /\ within \in Seq(Tasks) /\ Once(within) /\ Members(within) = Members(delayed) \cup {t}
      /\ Sorted(within, value)
      /\ within # << >> /\ (Head(within) = t \/ (delayed # << >> /\ Head(within) = Head(delayed)))
  BY <1>2, <1>3, <1>5, <1>7, InsertedInOrder
<1>9. /\ beyond \in Seq(Tasks) /\ Once(beyond) /\ Members(beyond) = Members(overflow) \cup {t}
      /\ Sorted(beyond, value)
  BY <1>2, <1>3, <1>5, <1>7, InsertedInOrder
<1> HIDE DEF within, beyond
<1>10. ReadyType' /\ Queues' /\ \A u \in Tasks : InReady(u)' <=> InReady(u) /\ u # t
  BY <1>1, <1>3, Unreadied DEF IInv, Types
<1>11. WaitType'
  BY <1>1, <1>2, <1>5, <1>8, <1>9 DEF WaitType
<1>12. /\ \A u \in Members(delayed) : u \in Tasks /\ u # t /\ value[u] = wake[u] /\ wake[u] > tick
       /\ \A u \in Members(overflow) : u \in Tasks /\ u # t /\ value[u] = wake[u] /\ wake[u] < tick
  <2>1. Members(delayed) \subseteq Tasks /\ Members(overflow) \subseteq Tasks
    BY <1>2, MembersAre
  <2>2. QED
    BY <1>2, <1>3, <1>5, <2>1 DEF IInv, Sleepers
<1>13. /\ Members(delayed') = IF at < tick THEN Members(delayed) ELSE Members(delayed) \cup {t}
       /\ Members(overflow') = IF at < tick THEN Members(overflow) \cup {t} ELSE Members(overflow)
       /\ Once(delayed') /\ Once(overflow')
       /\ Sorted(delayed', value) /\ Sorted(overflow', value)
  BY <1>1, <1>2, <1>7, <1>8, <1>9
<1>14. \A u \in Tasks : /\ Exists(u)' <=> Exists(u)
                        /\ Sleeps(u)' <=> Sleeps(u) \/ u = t
                        /\ Blocked(u)' <=> Blocked(u)
                        /\ ~(u \in Members(delayed') /\ u \in Members(overflow'))
  <2>1. \A u \in Tasks : ~(u \in Members(delayed) /\ u \in Members(overflow))
    BY DEF IInv, Homes
  <2>2. QED
    BY <1>1, <1>3, <1>13, <2>1 DEF Exists, Sleeps, Blocked
<1>15. Homes'
  <2>1. Once(blocked') /\ Exists(t)
    BY <1>1, <1>3 DEF IInv, Homes
  <2>2. ASSUME NEW u \in Tasks
        PROVE  /\ Exists(u)' <=> InReady(u)' \/ Sleeps(u)' \/ Blocked(u)'
               /\ ~(InReady(u)' /\ (Sleeps(u)' \/ Blocked(u)')) /\ ~(Sleeps(u)' /\ Blocked(u)')
    <3>1. CASE u = t
      BY <1>3, <1>10, <1>14, <2>1, <3>1
    <3>2. CASE u # t
      BY <1>10, <1>14, <3>2 DEF IInv, Homes
    <3>3. QED
      BY <3>1, <3>2
  <2>3. QED
    BY <1>13, <1>14, <2>1, <2>2 DEF Homes
<1>16. /\ nextUnblock' \in 0 .. MaxTick /\ nextUnblock' >= tick
       /\ nextUnblock' > tick \/ nextUnblock' = MaxTick
       /\ delayed' # << >> => nextUnblock' <= value[Head(delayed')]
  <2>1. nextUnblock >= tick /\ (nextUnblock > tick \/ nextUnblock = MaxTick)
    BY <1>2 DEF IInv, Sleepers
  <2>2. ASSUME delayed # << >>
        PROVE  nextUnblock <= value[Head(delayed)] /\ value[Head(delayed)] \in 0 .. MaxTick
    <3>1. Head(delayed) \in Members(delayed)
      BY <1>2, <2>2, Headless
    <3>2. nextUnblock <= wake[Head(delayed)]
      BY <2>2 DEF IInv, Sleepers
    <3>3. QED
      BY <1>2, <1>12, <3>1, <3>2
  <2>3. CASE at < tick
    <3>1. delayed' = delayed /\ nextUnblock' = nextUnblock
      BY <1>1, <2>3
    <3>2. QED
      BY <1>2, <2>1, <2>2, <3>1
  <2>4. CASE ~(at < tick)
    <3>1. delayed' = within /\ nextUnblock' = IF at < nextUnblock THEN at ELSE nextUnblock
      BY <1>1, <2>4
    <3>2. at > tick
      BY <1>2, <1>4, <2>4
    <3>3. nextUnblock' <= at /\ nextUnblock' <= nextUnblock /\ nextUnblock' \in 0 .. MaxTick
      BY <1>2, <1>4, <3>1
    <3>4. nextUnblock' >= tick /\ (nextUnblock' > tick \/ nextUnblock' = MaxTick)
      BY <1>2, <1>4, <2>1, <3>1, <3>2
    <3>5. nextUnblock' <= value[Head(within)]
      <4>1. CASE Head(within) = t
        BY <1>5, <3>3, <4>1
      <4>2. CASE delayed # << >> /\ Head(within) = Head(delayed)
        BY <1>2, <2>2, <3>3, <4>2
      <4>3. QED
        BY <1>8, <4>1, <4>2
    <3>6. QED
      BY <3>1, <3>3, <3>4, <3>5
  <2>5. QED
    BY <2>3, <2>4
<1>17. Sleepers'
  <2>1. \A u \in Members(delayed') : value[u] > tick
    BY <1>2, <1>4, <1>5, <1>12, <1>13
  <2>2. \A u \in Members(overflow') : value[u] < tick
    BY <1>2, <1>4, <1>5, <1>12, <1>13
  <2>3. \A u \in Members(delayed') : value[u] >= tick
    <3>1. SUFFICES ASSUME NEW u \in Members(delayed') PROVE value[u] >= tick
      OBVIOUS
    <3>2. u \in Tasks
      BY <1>12, <1>13
    <3>3. value[u] > tick /\ value[u] \in 0 .. MaxTick
      BY <1>5, <2>1, <3>2
    <3>4. QED
      BY <1>2, <3>3
  <2>4. QED
    BY <1>1, <1>13, <1>16, <2>1, <2>2, <2>3 DEF Sleepers
<1>18. QED
  BY <1>6, <1>10, <1>11, <1>14, <1>15, <1>16, <1>17 DEF at

\* The rest of a sleeping call's first part.
LEMMA PlacedRest ==
  ASSUME IInv, NEW t \in Tasks, PlaceTask(t),
         ReadyType', WaitType', Queues', Homes', Sleepers', Periods',
         nextUnblock' \in 0 .. MaxTick, late' \in [Tasks -> Int],
         lastWake' \in [Tasks -> 0 .. MaxTick \cup {None}],
         \A u \in Tasks : u # t => (Exists(u)' <=> Exists(u)) /\ (InReady(u)' <=> InReady(u))
  PROVE  IInv'
<1>1. /\ UNCHANGED <<created, started, current, suspended, yieldPending, pendSV, masked, busy, switch>>
      /\ UNCHANGED <<tick, pended, clock, call>> /\ Runs(t, "place")
      /\ pc' = [pc EXCEPT ![t] = "resume"]
  BY DEF PlaceTask, cpu, Goto
<1>2. started /\ current = t /\ ~pendSV /\ busy = "no" /\ pc[t] = "place"
  BY <1>1 DEF Runs
<1>3. suspended = 1
  BY <1>2 DEF IInv, Control, Inside
<1>4. (\A u \in Tasks : u # t => pc'[u] = pc[u]) /\ pc'[t] = "resume"
  BY <1>1 DEF IInv, Types, CodeType
<1>5. Types'
  <2>1. KernelType' /\ TimeType'
    BY <1>1 DEF IInv, Types, KernelType, TimeType
  <2>2. CodeType'
    BY <1>1 DEF IInv, Types, CodeType
  <2>3. QED
    BY <2>1, <2>2 DEF Types
<1>6. Control'
  BY <1>1, <1>2, <1>3, <1>4 DEF IInv, Control, Inside
<1>7. Runner'
  BY <1>1, <1>2, <1>4 DEF Runner
<1>8. Idlers'
  BY <1>2, <1>4 DEF IInv, Idlers
<1>9. NoTickLost'
  BY <1>1 DEF IInv, NoTickLost
<1>10. QED
  BY <1>5, <1>6, <1>7, <1>8, <1>9 DEF IInv

LEMMA WholeTurns ==
  ASSUME NEW x \in Int, x = 0 \/ x = M \/ x = -M
  PROVE  x % M = 0
<1>1. 0 \in 0 .. MaxTick /\ M \in Int
  BY Modulus
<1>2. CASE x = 0
  BY <1>1, <1>2, Wrapped
<1>3. CASE x = M
  <2> DEFINE q == 1
  <2>1. x = q * M + 0 /\ q \in Int
    BY <1>1, <1>3
  <2> HIDE DEF q
  <2>2. x % M = 0
    BY <1>1, <2>1, Residue, Zenon
  <2>3. QED
    BY <2>2
<1>4. CASE x = -M
  <2> DEFINE q == 0 - 1
  <2>1. x = q * M + 0 /\ q \in Int
    BY <1>1, <1>4
  <2> HIDE DEF q
  <2>2. x % M = 0
    BY <1>1, <2>1, Residue, Zenon
  <2>3. QED
    BY <2>2
<1>5. QED
  BY <1>2, <1>3, <1>4

\* The wrapped comparison of xTaskDelayUntil says whether the time is to come.
LEMMA UntilEnd ==
  ASSUME NEW k \in 0 .. MaxTick, NEW last \in 0 .. MaxTick, NEW n \in 1 .. MaxTick,
         NEW l \in 0 .. MaxTick, l < MaxTick, (k - last - l) % M = 0,
         NEW at, at = (last + n) % M
  PROVE  /\ at \in 0 .. MaxTick /\ (k - at - (l - n)) % M = 0
         /\ (IF k < last THEN at < last /\ at > k ELSE at < last \/ at > k) <=> n > l
         /\ n > l => (at - k) % M = n - l
<1>1. MaxTick \in Nat \ {0} /\ M = MaxTick + 1
  BY Modulus
<1>2. k = (last + l) % M
  <2>1. k - last - l \in Int /\ last + l \in Int /\ 0 = (k - last - l) % M
    BY <1>1
  <2>2. PICK q \in Int : k - last - l = q * M + 0
    BY <2>1, Divided, Zenon
  <2> DEFINE b == q * M
  <2>3. b \in Int /\ k = (last + l) + b
    <3>1. b \in Int
      BY <2>2, Multiples
    <3>2. k - last - l = b + 0
      BY <2>2
    <3> HIDE DEF b
    <3>3. QED
      BY <1>1, <3>1, <3>2
  <2>4. k % M = (last + l) % M
    BY <1>1, <2>1, <2>2, <2>3, Congruent
  <2>5. k % M = k
    BY <1>1, Wrapped
  <2>6. QED
    BY <2>4, <2>5
<1>3. /\ last + l \in 0 .. MaxTick => k = last + l
      /\ last + l \in M .. M + MaxTick => k = last + l - M
  BY <1>1, <1>2, Wrapped
<1>4. /\ last + n \in 0 .. MaxTick => at = last + n
      /\ last + n \in M .. M + MaxTick => at = last + n - M
  BY <1>1, Wrapped
<1>5. (k = last + l /\ last + l <= MaxTick) \/ (k = last + l - M /\ last + l > MaxTick)
  <2>1. CASE last + l <= MaxTick
    <3>1. last + l \in 0 .. MaxTick
      BY <1>1, <2>1
    <3>2. k = last + l
      BY <1>3, <3>1, Zenon
    <3>3. QED
      BY <2>1, <3>2
  <2>2. CASE last + l > MaxTick
    <3>1. last + l \in M .. M + MaxTick
      BY <1>1, <2>2
    <3>2. QED
      BY <1>3, <2>2, <3>1
  <2>3. QED
    BY <1>1, <2>1, <2>2
<1>6. (at = last + n /\ last + n <= MaxTick) \/ (at = last + n - M /\ last + n > MaxTick)
  <2>1. CASE last + n <= MaxTick
    <3>1. last + n \in 0 .. MaxTick
      BY <1>1, <2>1
    <3>2. at = last + n
      BY <1>4, <3>1, Zenon
    <3>3. QED
      BY <2>1, <3>2
  <2>2. CASE last + n > MaxTick
    <3>1. last + n \in M .. M + MaxTick
      BY <1>1, <2>2
    <3>2. QED
      BY <1>4, <2>2, <3>1
  <2>3. QED
    BY <1>1, <2>1, <2>2
<1>7. at \in 0 .. MaxTick
  BY <1>1, <1>6
<1>8. (k - at - (l - n)) % M = 0
  <2>1. k - at - (l - n) \in {0, M, -M} /\ k - at - (l - n) \in Int
    BY <1>1, <1>5, <1>6
  <2>2. QED
    BY <2>1, WholeTurns
<1>9. (IF k < last THEN at < last /\ at > k ELSE at < last \/ at > k) <=> n > l
  BY <1>1, <1>5, <1>6
<1>10. ASSUME n > l PROVE (at - k) % M = n - l
  <2>1. n - l \in 0 .. MaxTick /\ n - l \in Int
    BY <1>1, <1>10
  <2>2. at - k = n - l \/ at - k = n - l - M
    BY <1>1, <1>5, <1>6, <1>10
  <2>3. CASE at - k = n - l
    BY <2>1, <2>3, Wrapped
  <2>4. CASE at - k = n - l - M
    <3>1. n - l - M \in -MaxTick .. -1
      BY <1>1, <1>10
    <3>2. (n - l - M) % M = n - l - M + M
      BY <1>1, <3>1, Wrapped
    <3>3. QED
      BY <1>1, <2>4, <3>2
  <2>5. QED
    BY <2>2, <2>3, <2>4
<1>11. QED
  BY <1>7, <1>8, <1>9, <1>10

LEMMA PlacedPeriods ==
  ASSUME IInv, NEW t \in Tasks, PlaceTask(t),
         \A u \in Tasks : u # t => /\ Sleeps(u)' <=> Sleeps(u)
                                   /\ wake'[u] = wake[u] /\ late'[u] = late[u]
                                   /\ lastWake'[u] = lastWake[u],
         late'[t] >= -MaxTick /\ late'[t] <= MaxLate,
         lastWake'[t] # None =>
           /\ late'[t] < MaxLate => (tick - lastWake'[t] - late'[t]) % M = 0
           /\ late'[t] >= 0 \/ (Sleeps(t)' /\ call[t].kind = "until")
           /\ Sleeps(t)' /\ call[t].kind = "until" => (wake'[t] - tick) % M = -late'[t],
         call[t].kind = "until" => lastWake'[t] # None
  PROVE  Periods'
<1>1. UNCHANGED <<tick, call>> /\ pc' = [pc EXCEPT ![t] = "resume"]
  BY DEF PlaceTask, Goto
<1>2. (\A u \in Tasks : u # t => pc'[u] = pc[u]) /\ pc'[t] = "resume"
  BY <1>1 DEF IInv, Types, CodeType
<1>3. SUFFICES ASSUME NEW u \in Tasks
               PROVE  /\ late'[u] >= -MaxTick /\ late'[u] <= MaxLate
                      /\ lastWake'[u] # None =>
                           /\ late'[u] < MaxLate => (tick' - lastWake'[u] - late'[u]) % M = 0
                           /\ late'[u] >= 0 \/ (Sleeps(u)' /\ call'[u].kind = "until")
                           /\ Sleeps(u)' /\ call'[u].kind = "until" =>
                                (wake'[u] - tick') % M = -late'[u]
                      /\ pc'[u] = "place" =>
                           /\ call'[u] \in Calls[u]
                           /\ call'[u].kind = "until" => lastWake'[u] # None /\ late'[u] < MaxLate
                      /\ Sleeps(u)' /\ call'[u] # None /\ call'[u].kind = "until" =>
                           lastWake'[u] # None
  BY DEF Periods
<1>4. CASE u = t
  BY <1>1, <1>2, <1>4
<1>5. CASE u # t
  BY <1>1, <1>2, <1>5 DEF IInv, Periods
<1>6. QED
  BY <1>4, <1>5

\* What a task that is about to sleep has.
LEMMA Sleeper ==
  ASSUME IInv, NEW t \in Tasks, PlaceTask(t)
  PROVE  /\ Runs(t, "place") /\ InReady(t) /\ ~Sleeps(t) /\ ~Blocked(t) /\ Exists(t)
         /\ UNCHANGED <<created, started, tick, busy>>
         /\ call[t] \in Calls[t] /\ call[t].n \in 1 .. MaxTick
         /\ late[t] \in Int /\ late[t] >= -MaxTick /\ late[t] <= MaxLate
         /\ lastWake[t] # None => late[t] >= 0
         /\ lastWake[t] # None /\ late[t] < MaxLate => (tick - lastWake[t] - late[t]) % M = 0
         /\ call[t].kind = "until" => lastWake[t] # None /\ late[t] < MaxLate
<1>1. Runs(t, "place") /\ UNCHANGED <<created, started, tick, busy>>
  BY DEF PlaceTask
<1>2. InReady(t) /\ ~Sleeps(t) /\ ~Blocked(t) /\ (lastWake[t] # None => late[t] >= 0)
  BY <1>1, RunnerReady
<1>3. Exists(t)
  BY <1>2 DEF IInv, Homes
<1>4. call[t] \in Calls[t] /\ (call[t].kind = "until" => lastWake[t] # None /\ late[t] < MaxLate)
  BY <1>1 DEF Runs, IInv, Periods
<1>5. call[t] \in CallSet /\ call[t].n \in 1 .. MaxTick
  BY <1>4, KernelAssumption DEF CallSet
<1>6. /\ late[t] \in Int /\ late[t] >= -MaxTick /\ late[t] <= MaxLate
      /\ lastWake[t] # None /\ late[t] < MaxLate => (tick - lastWake[t] - late[t]) % M = 0
  BY DEF IInv, Periods, Types, TimeType
<1>7. QED
  BY <1>1, <1>2, <1>3, <1>4, <1>5, <1>6

LEMMA PlacedDelay ==
  ASSUME IInv, NEW t \in Tasks, PlaceTask(t), vTaskDelay(t) PROVE IInv'
<1>1. /\ call[t].kind = "delay" /\ prvAddCurrentTaskToDelayedList(t, call[t].n)
      /\ UNCHANGED <<lastWake, late>>
  BY DEF vTaskDelay
<1>2. /\ Runs(t, "place") /\ call[t].n \in 1 .. MaxTick
      /\ UNCHANGED <<created, started, tick, busy>>
      /\ late[t] \in Int /\ late[t] >= -MaxTick /\ late[t] <= MaxLate
      /\ lastWake[t] # None => late[t] >= 0
      /\ lastWake[t] # None /\ late[t] < MaxLate => (tick - lastWake[t] - late[t]) % M = 0
  BY Sleeper
<1>3. /\ ReadyType' /\ WaitType' /\ Queues' /\ Homes' /\ Sleepers'
      /\ nextUnblock' \in 0 .. MaxTick
      /\ wake' = [wake EXCEPT ![t] = (tick + call[t].n) % M]
      /\ \A u \in Tasks : /\ Exists(u)' <=> Exists(u)
                          /\ InReady(u)' <=> InReady(u) /\ u # t
                          /\ Sleeps(u)' <=> Sleeps(u) \/ u = t
  BY <1>1, <1>2, Slept
<1>4. \A u \in Tasks : u # t => wake'[u] = wake[u]
  BY <1>3 DEF IInv, Types, WaitType
<1>5. Periods'
  BY <1>1, <1>2, <1>3, <1>4, PlacedPeriods
<1>6. late' \in [Tasks -> Int] /\ lastWake' \in [Tasks -> 0 .. MaxTick \cup {None}]
  BY <1>1 DEF IInv, Types, TimeType
<1>7. QED
  BY <1>3, <1>5, <1>6, PlacedRest

LEMMA PlacedUntil ==
  ASSUME IInv, NEW t \in Tasks, PlaceTask(t), xTaskDelayUntil(t) PROVE IInv'
<1> DEFINE n    == call[t].n
           l    == late[t]
           last == lastWake[t]
           at   == (last + n) % M
           d    == (at - tick) % M
<1>1. /\ call[t].kind = "until" /\ lastWake' = [lastWake EXCEPT ![t] = at]
      /\ late' = [late EXCEPT ![t] = l - n]
      /\ ShouldDelay(last, at) => prvAddCurrentTaskToDelayedList(t, d)
      /\ ~ShouldDelay(last, at) => UNCHANGED lists /\ UNCHANGED nextUnblock
  BY Zenon DEF xTaskDelayUntil
<1>2. /\ Runs(t, "place") /\ n \in 1 .. MaxTick
      /\ UNCHANGED <<created, started, tick, busy>> /\ ~Sleeps(t)
      /\ last # None /\ l < MaxLate /\ l \in Int /\ l >= 0
      /\ (tick - last - l) % M = 0
  BY <1>1, Sleeper
<1>3. /\ tick \in 0 .. MaxTick /\ last \in 0 .. MaxTick /\ nextUnblock \in 0 .. MaxTick
      /\ MaxTick \in Nat \ {0} /\ MaxLate \in 0 .. MaxTick
      /\ late \in [Tasks -> Int] /\ lastWake \in [Tasks -> 0 .. MaxTick \cup {None}]
      /\ wake \in [Tasks -> 0 .. MaxTick]
  BY <1>2, KernelAssumption DEF IInv, Types, TimeType, WaitType
<1>4. l \in 0 .. MaxTick /\ l < MaxTick
  BY <1>2, <1>3
<1>5. /\ at \in 0 .. MaxTick /\ (tick - at - (l - n)) % M = 0
      /\ ShouldDelay(last, at) <=> n > l
      /\ n > l => d = n - l
  <2>1. /\ at \in 0 .. MaxTick /\ (tick - at - (l - n)) % M = 0
        /\ (IF tick < last THEN at < last /\ at > tick ELSE at < last \/ at > tick) <=> n > l
        /\ n > l => (at - tick) % M = n - l
    BY <1>2, <1>3, <1>4, UntilEnd
  <2>2. QED
    BY <2>1 DEF ShouldDelay
<1> HIDE DEF at, d
<1>6. /\ lastWake'[t] = at /\ late'[t] = l - n
      /\ \A u \in Tasks : u # t => lastWake'[u] = lastWake[u] /\ late'[u] = late[u]
      /\ lastWake'[t] # None
  <2>1. at # None
    BY <1>5, KernelAssumption
  <2>2. QED
    BY <1>1, <1>3, <2>1
<1>7. late' \in [Tasks -> Int] /\ lastWake' \in [Tasks -> 0 .. MaxTick \cup {None}]
  BY <1>1, <1>2, <1>3, <1>5
<1>8. l - n >= -MaxTick /\ l - n <= MaxLate
  BY <1>2, <1>3
<1>9. CASE n > l
  <2>1. prvAddCurrentTaskToDelayedList(t, d) /\ d = n - l
    BY <1>1, <1>5, <1>9
  <2>2. d \in 1 .. MaxTick
    BY <1>2, <1>3, <1>9, <2>1
  <2>3. /\ ReadyType' /\ WaitType' /\ Queues' /\ Homes' /\ Sleepers'
        /\ nextUnblock' \in 0 .. MaxTick
        /\ wake' = [wake EXCEPT ![t] = (tick + d) % M]
        /\ \A u \in Tasks : /\ Exists(u)' <=> Exists(u)
                            /\ InReady(u)' <=> InReady(u) /\ u # t
                            /\ Sleeps(u)' <=> Sleeps(u) \/ u = t
    BY <1>2, <2>1, <2>2, Slept
  <2>4. (\A u \in Tasks : u # t => wake'[u] = wake[u]) /\ wake'[t] = (tick + d) % M
    BY <1>3, <2>3
  <2>5. (wake'[t] - tick) % M = d
    BY <1>3, <2>2, <2>4, SleepEnd
  <2>6. d = -(l - n)
    BY <1>2, <2>1
  <2>7. Periods'
    BY <1>1, <1>5, <1>6, <1>8, <2>3, <2>4, <2>5, <2>6, PlacedPeriods
  <2>8. QED
    BY <1>7, <2>3, <2>7, PlacedRest
<1>10. CASE ~(n > l)
  <2>1. UNCHANGED lists /\ UNCHANGED nextUnblock
    BY <1>1, <1>5, <1>10
  <2>2. /\ ReadyType' /\ WaitType' /\ Queues' /\ Homes'
        /\ \A u \in Tasks : /\ Exists(u)' <=> Exists(u)
                            /\ InReady(u)' <=> InReady(u)
                            /\ Sleeps(u)' <=> Sleeps(u)
    BY <1>2, <2>1, KeptLists
  <2>3. Sleepers' /\ wake' = wake
    BY <1>2, <2>1, KeptSleepers DEF IInv, lists
  <2>4. l - n >= 0
    BY <1>2, <1>3, <1>10
  <2>5. Periods'
    BY <1>1, <1>2, <1>5, <1>6, <1>8, <2>2, <2>3, <2>4, PlacedPeriods
  <2>6. QED
    BY <1>3, <1>7, <2>1, <2>2, <2>3, <2>5, PlacedRest
<1>11. QED
  BY <1>9, <1>10

LEMMA PlacedBlock ==
  ASSUME IInv, NEW t \in Tasks, PlaceTask(t), vTaskPlaceOnEventListRestricted(t) PROVE IInv'
<1>1. /\ call[t].kind = "block" /\ LeaveReady(t) /\ blocked' = Append(blocked, t)
      /\ UNCHANGED <<delayed, overflow, wake, nextUnblock>> /\ UNCHANGED <<lastWake, late>>
  BY DEF vTaskPlaceOnEventListRestricted, BlockForever
<1>2. /\ Runs(t, "place") /\ InReady(t) /\ ~Sleeps(t) /\ ~Blocked(t) /\ Exists(t)
      /\ UNCHANGED <<created, started, tick, busy>>
      /\ late[t] \in Int /\ late[t] >= -MaxTick /\ late[t] <= MaxLate
      /\ lastWake[t] # None => late[t] >= 0
      /\ lastWake[t] # None /\ late[t] < MaxLate => (tick - lastWake[t] - late[t]) % M = 0
  BY Sleeper
<1>3. ReadyType' /\ Queues' /\ \A u \in Tasks : InReady(u)' <=> InReady(u) /\ u # t
  BY <1>1, <1>2, Unreadied DEF IInv, Types
<1>4. /\ blocked' \in Seq(Tasks) /\ Members(blocked') = Members(blocked) \cup {t} /\ Once(blocked')
  <2>1. blocked \in Seq(Tasks) /\ Once(blocked) /\ t \notin Members(blocked)
    BY <1>2 DEF IInv, Types, WaitType, Homes, Blocked
  <2>2. QED
    BY <1>1, <2>1, Appended
<1>5. WaitType'
  BY <1>1, <1>4 DEF IInv, Types, WaitType
<1>6. \A u \in Tasks : /\ Exists(u)' <=> Exists(u)
                       /\ Sleeps(u)' <=> Sleeps(u)
                       /\ Blocked(u)' <=> Blocked(u) \/ u = t
  BY <1>1, <1>2, <1>4 DEF Exists, Sleeps, Blocked
<1>7. Homes'
  <2>1. Once(delayed') /\ Once(overflow')
    BY <1>1 DEF IInv, Homes
  <2>2. ASSUME NEW u \in Tasks
        PROVE  /\ Exists(u)' <=> InReady(u)' \/ Sleeps(u)' \/ Blocked(u)'
               /\ ~(InReady(u)' /\ (Sleeps(u)' \/ Blocked(u)')) /\ ~(Sleeps(u)' /\ Blocked(u)')
               /\ ~(u \in Members(delayed') /\ u \in Members(overflow'))
    <3>1. CASE u = t
      BY <1>1, <1>2, <1>3, <1>6, <3>1 DEF IInv, Homes
    <3>2. CASE u # t
      BY <1>1, <1>3, <1>6, <3>2 DEF IInv, Homes
    <3>3. QED
      BY <3>1, <3>2
  <2>3. QED
    BY <1>4, <2>1, <2>2 DEF Homes
<1>8. Sleepers'
  BY <1>1, <1>2, KeptSleepers DEF IInv
<1>9. Periods'
  BY <1>1, <1>2, <1>6, PlacedPeriods
<1>10. /\ late' \in [Tasks -> Int] /\ lastWake' \in [Tasks -> 0 .. MaxTick \cup {None}]
       /\ nextUnblock' \in 0 .. MaxTick
  BY <1>1 DEF IInv, Types, TimeType
<1>11. QED
  BY <1>3, <1>5, <1>6, <1>7, <1>8, <1>9, <1>10, PlacedRest

-----------------------------------------------------------------------------
LEMMA PlacedTask ==
  ASSUME IInv, NEW t \in Tasks, PlaceTask(t) PROVE IInv'
<1>1. vTaskDelay(t) \/ xTaskDelayUntil(t) \/ vTaskPlaceOnEventListRestricted(t)
  BY DEF PlaceTask
<1>2. QED
  BY <1>1, PlacedDelay, PlacedUntil, PlacedBlock

LEMMA Stuttered ==
  ASSUME IInv, UNCHANGED vars PROVE IInv'
<1>1. /\ UNCHANGED <<created, started, current, suspended, yieldPending, pendSV, masked, busy, switch>>
      /\ UNCHANGED <<tick, nextUnblock, pended, clock, late, pc, call, lastWake>> /\ UNCHANGED lists
  BY DEF vars, time, cpu, code
<1>2. UNCHANGED <<ready, top, delayed, overflow, blocked, wake>>
  BY <1>1 DEF lists
<1>3. /\ ReadyType' /\ WaitType' /\ Queues' /\ Homes'
      /\ \A u \in Tasks : (Exists(u)' <=> Exists(u)) /\ (InReady(u)' <=> InReady(u))
  BY <1>1, KeptLists
<1>4. Types'
  BY <1>1, <1>3 DEF IInv, Types, KernelType, TimeType, CodeType
<1>5. Control'
  BY <1>1, <1>2 DEF IInv, Control, Inside
<1>6. Runner'
  BY <1>1, <1>2, <1>3 DEF IInv, Runner, InReady
<1>7. Idlers'
  BY <1>1, <1>3 DEF IInv, Idlers
<1>8. Sleepers' /\ Periods'
  BY <1>1, <1>2, KeptSleepers, KeptPeriods DEF IInv
<1>9. NoTickLost'
  BY <1>1 DEF IInv, NoTickLost
<1>10. QED
  BY <1>3, <1>4, <1>5, <1>6, <1>7, <1>8, <1>9 DEF IInv

LEMMA Stepped ==
  ASSUME IInv, [Next]_vars PROVE IInv'
<1>1. CASE xTaskCreate
  BY <1>1, Created
<1>2. CASE vTaskStartScheduler
  BY <1>2, Started
<1>3. CASE SysTick_Handler
  <2>1. CASE suspended = 0
    BY <1>3, <2>1, Ticked
  <2>2. CASE suspended # 0
    BY <1>3, <2>2, Pended
  <2>3. QED
    BY <2>1, <2>2
<1>4. CASE WakeOne
  BY <1>4, Woken
<1>5. CASE EndTick
  BY <1>5, TickEnded
<1>6. CASE PendSV_Handler
  BY <1>6, Dispatched
<1>7. ASSUME NEW t \in Tasks,
             \/ vPortEnterCritical(t) \/ xTaskGetTickCount(t) \/ vTaskSuspendAll(t) \/ Finish(t)
      PROVE  IInv'
  <2>1. CASE vPortEnterCritical(t)
    BY <2>1, Entered
  <2>2. CASE xTaskGetTickCount(t)
    BY <2>2, Noted
  <2>3. CASE vTaskSuspendAll(t)
    BY <2>3, Suspended
  <2>4. CASE PlaceTask(t)
    BY <2>4, PlacedTask
  <2>5. CASE xTaskResumeAll(t)
    BY <2>5, Resumed
  <2>6. CASE UnwindTick(t)
    BY <2>6, UnwoundTick
  <2>7. CASE UnwindEnd(t)
    BY <2>7, Unwound
  <2>8. CASE Yield(t)
    BY <2>8, Yielded
  <2>9. CASE vPortExitCritical(t)
    BY <2>9, Exited
  <2>10. QED
    BY <1>7, <2>1, <2>2, <2>3, <2>4, <2>5, <2>6, <2>7, <2>8, <2>9 DEF Finish
<1>8. CASE UNCHANGED vars
  BY <1>8, Stuttered
<1>9. QED
  BY <1>1, <1>2, <1>3, <1>4, <1>5, <1>6, <1>7, <1>8 DEF Next

\* The invariant holds of every behaviour.
LEMMA Invariant == Spec => []IInv
<1>1. Init => IInv
  BY InitIInv
<1>2. IInv /\ [Next]_vars => IInv'
  BY Stepped
<1>3. QED
  BY <1>1, <1>2, PTL DEF Spec

-----------------------------------------------------------------------------
(***************************************************************************)
(* What the invariant says of the lists.                                   *)
(***************************************************************************)
\* How often a task is in a list.
Times(s, t) == Cardinality({i \in DOMAIN s : s[i] = t})

LEMMA Counts ==
  ASSUME NEW s \in Seq(Tasks), Once(s), NEW t \in Tasks
  PROVE  Times(s, t) = IF t \in Members(s) THEN 1 ELSE 0
<1>1. Members(s) = {s[k] : k \in 1 .. Len(s)} /\ DOMAIN s = 1 .. Len(s)
  BY MembersAre
<1>2. CASE t \in Members(s)
  <2>1. PICK k \in 1 .. Len(s) : s[k] = t
    BY <1>1, <1>2
  <2>2. {i \in DOMAIN s : s[i] = t} = {k}
    BY <1>1, <2>1 DEF Once
  <2>3. QED
    BY <1>2, <2>2, FS_Singleton DEF Times
<1>3. CASE t \notin Members(s)
  <2>1. {i \in DOMAIN s : s[i] = t} = {}
    BY <1>1, <1>3
  <2>2. QED
    BY <1>3, <2>1, FS_EmptySet DEF Times
<1>4. QED
  BY <1>2, <1>3

\* Lists with nothing in common are, one behind the other, a list without repetition.
LEMMA Joined ==
  ASSUME NEW a \in Seq(Tasks), NEW b \in Seq(Tasks), Once(a), Once(b),
         Members(a) \cap Members(b) = {}
  PROVE  /\ a \o b \in Seq(Tasks) /\ Once(a \o b)
         /\ Members(a \o b) = Members(a) \cup Members(b)
<1> DEFINE r == a \o b
<1>1. /\ r \in Seq(Tasks) /\ Len(r) = Len(a) + Len(b) /\ Len(a) \in Nat /\ Len(b) \in Nat
      /\ \A i \in 1 .. Len(a) + Len(b) : r[i] = IF i <= Len(a) THEN a[i] ELSE b[i - Len(a)]
  OBVIOUS
<1> HIDE DEF r
<1>2. /\ Members(r) = {r[i] : i \in 1 .. Len(r)} /\ Members(a) = {a[i] : i \in 1 .. Len(a)}
      /\ Members(b) = {b[i] : i \in 1 .. Len(b)}
  BY <1>1, MembersAre
<1>3. ASSUME NEW i \in 1 .. Len(r)
      PROVE  \/ i \in 1 .. Len(a) /\ r[i] = a[i] /\ r[i] \in Members(a)
             \/ /\ i > Len(a) /\ i - Len(a) \in 1 .. Len(b)
                /\ r[i] = b[i - Len(a)] /\ r[i] \in Members(b)
  <2>1. CASE i <= Len(a)
    <3>1. i \in 1 .. Len(a) /\ r[i] = a[i]
      BY <1>1, <2>1
    <3>2. QED
      BY <1>2, <3>1
  <2>2. CASE i > Len(a)
    <3>1. i - Len(a) \in 1 .. Len(b) /\ r[i] = b[i - Len(a)]
      BY <1>1, <2>2
    <3>2. QED
      BY <1>2, <2>2, <3>1
  <2>3. QED
    BY <1>1, <2>1, <2>2
<1>4. Members(r) \subseteq Members(a) \cup Members(b)
  BY <1>2, <1>3
<1>5. ASSUME NEW i \in 1 .. Len(a) PROVE a[i] \in Members(r)
  <2>1. i \in 1 .. Len(r) /\ r[i] = a[i]
    BY <1>1
  <2>2. QED
    BY <1>2, <2>1
<1>6. ASSUME NEW i \in 1 .. Len(b) PROVE b[i] \in Members(r)
  <2>1. Len(a) + i \in 1 .. Len(r) /\ r[Len(a) + i] = b[i]
    BY <1>1
  <2>2. QED
    BY <1>2, <2>1
<1>7. Once(r)
  <2>1. SUFFICES ASSUME NEW i \in 1 .. Len(r), NEW j \in 1 .. Len(r), r[i] = r[j]
                 PROVE  i = j
    BY DEF Once
  <2>2. CASE r[i] \in Members(a)
    <3>1. i \in 1 .. Len(a) /\ j \in 1 .. Len(a) /\ a[i] = a[j]
      BY <1>3, <2>1, <2>2
    <3>2. QED
      BY <3>1 DEF Once
  <2>3. CASE r[i] \in Members(b)
    <3>1. /\ i - Len(a) \in 1 .. Len(b) /\ j - Len(a) \in 1 .. Len(b)
          /\ b[i - Len(a)] = b[j - Len(a)]
      BY <1>3, <2>1, <2>3
    <3>2. i - Len(a) = j - Len(a)
      BY <3>1 DEF Once
    <3>3. QED
      BY <1>1, <3>2
  <2>4. QED
    BY <1>3, <2>2, <2>3
<1>8. QED
  BY <1>1, <1>2, <1>4, <1>5, <1>6, <1>7, SMTT(30) DEF r

LEMMA AgreeOnLists ==
  ASSUME IInv PROVE ListsAgree
<1>1. /\ delayed \in Seq(Tasks) /\ overflow \in Seq(Tasks) /\ blocked \in Seq(Tasks)
      /\ Once(delayed) /\ Once(overflow) /\ Once(blocked)
  BY DEF IInv, Types, WaitType, Homes
<1>2. /\ Members(delayed) \subseteq Tasks /\ Members(overflow) \subseteq Tasks
      /\ Members(blocked) \subseteq Tasks
  BY <1>1, MembersAre
<1> DEFINE ds == delayed \o overflow
<1>3. ds \in Seq(Tasks) /\ Once(ds) /\ Members(ds) = Members(delayed) \cup Members(overflow)
  <2>1. Members(delayed) \cap Members(overflow) = {}
    BY <1>2 DEF IInv, Homes
  <2>2. QED
    BY <1>1, <2>1, Joined
<1> HIDE DEF ds
<1>4. /\ Waiting \in Seq(Tasks) /\ Once(Waiting)
      /\ \A t \in Tasks : t \in Members(Waiting) <=> Sleeps(t) \/ Blocked(t)
  <2>1. Members(ds) \cap Members(blocked) = {}
    BY <1>2, <1>3 DEF IInv, Homes, Sleeps, Blocked
  <2>2. /\ ds \o blocked \in Seq(Tasks) /\ Once(ds \o blocked)
        /\ Members(ds \o blocked) = Members(ds) \cup Members(blocked)
    BY <1>1, <1>3, <2>1, Joined
  <2>3. Waiting = ds \o blocked
    BY <1>1 DEF Waiting, ds
  <2>4. QED
    BY <1>3, <2>2, <2>3 DEF Sleeps, Blocked
<1>5. top = {p \in Levels : ready[p].items # << >>}
  BY DEF IInv, Queues, Queue
<1>6. ASSUME NEW t \in Tasks
      PROVE  Cardinality({i \in DOMAIN ready[Priority[t]].items :
                            ready[Priority[t]].items[i] = t})
               + Cardinality({i \in DOMAIN Waiting : Waiting[i] = t})
             = IF Exists(t) THEN 1 ELSE 0
  <2> DEFINE s == ready[Priority[t]].items
  <2>1. s \in Seq(Tasks) /\ Once(s) /\ (t \in Members(s) <=> InReady(t))
    BY LevelsType DEF IInv, Types, ReadyType, ListType, Queues, Queue, InReady
  <2>2. Times(s, t) = IF InReady(t) THEN 1 ELSE 0
    BY <2>1, Counts
  <2>3. Times(Waiting, t) = IF Sleeps(t) \/ Blocked(t) THEN 1 ELSE 0
    BY <1>4, Counts
  <2>4. /\ Exists(t) <=> InReady(t) \/ Sleeps(t) \/ Blocked(t)
        /\ ~(InReady(t) /\ (Sleeps(t) \/ Blocked(t)))
    BY DEF IInv, Homes
  <2> HIDE DEF s
  <2>5. Times(s, t) + Times(Waiting, t) = IF Exists(t) THEN 1 ELSE 0
    BY <2>2, <2>3, <2>4
  <2>6. QED
    BY <2>5 DEF Times, s
<1>7. QED
  BY <1>5, <1>6 DEF ListsAgree

LEMMA WellTyped ==
  ASSUME IInv PROVE TypeOK
<1>1. late \in [Tasks -> -MaxTick .. MaxLate]
  <2>1. late \in [Tasks -> Int] /\ \A t \in Tasks : late[t] >= -MaxTick /\ late[t] <= MaxLate
    BY DEF IInv, Types, TimeType, Periods
  <2>2. MaxTick \in Int /\ MaxLate \in Int
    BY KernelAssumption
  <2>3. \A t \in Tasks : late[t] \in -MaxTick .. MaxLate
    BY <2>1, <2>2
  <2>4. QED
    BY <2>1, <2>3
<1>2. /\ created \in 0 .. Len(Creation) /\ started \in BOOLEAN
      /\ current \in Tasks \cup {None} /\ suspended \in 0 .. 1
      /\ {yieldPending, pendSV, masked, switch} \subseteq BOOLEAN
      /\ busy \in {"no", "isr", "resume"} /\ pended \in 0 .. MaxPended
  BY DEF IInv, Types, KernelType
<1>3. /\ {delayed, overflow, blocked} \subseteq Seq(Tasks) /\ wake \in [Tasks -> 0 .. MaxTick]
      /\ {tick, nextUnblock, clock} \subseteq 0 .. MaxTick
      /\ lastWake \in [Tasks -> 0 .. MaxTick \cup {None}]
  BY DEF IInv, Types, TimeType, WaitType
<1>4. /\ ready \in [Levels -> ListType] /\ top \subseteq Levels
      /\ \A p \in Levels : ready[p].index <= Len(ready[p].items)
  BY DEF IInv, Types, ReadyType, Queues, Queue
<1>5. /\ pc \in [Tasks -> {"run", "place", "resume", "unwind", "yield"}]
      /\ call \in [Tasks -> CallSet \cup {None}]
  BY DEF IInv, Types, CodeType
<1>6. QED
  BY <1>1, <1>2, <1>3, <1>4, <1>5 DEF TypeOK

LEMMA OrderOfSleepers ==
  ASSUME IInv PROVE SleepersInOrder
<1>1. SUFFICES ASSUME busy = "no"
               PROVE  /\ \A s \in {delayed, overflow} : \A i, j \in DOMAIN s :
                           i < j => wake[s[i]] <= wake[s[j]]
                      /\ \A t \in Members(delayed) : wake[t] > tick
                      /\ \A t \in Members(overflow) : wake[t] < tick
                      /\ delayed # << >> => nextUnblock \in tick + 1 .. wake[Head(delayed)]
  BY DEF SleepersInOrder
<1>2. /\ delayed \in Seq(Tasks) /\ overflow \in Seq(Tasks)
      /\ DOMAIN delayed = 1 .. Len(delayed) /\ DOMAIN overflow = 1 .. Len(overflow)
      /\ tick \in 0 .. MaxTick /\ nextUnblock \in 0 .. MaxTick /\ wake \in [Tasks -> 0 .. MaxTick]
      /\ MaxTick \in Nat
  BY Modulus DEF IInv, Types, WaitType, TimeType
<1>3. \A s \in {delayed, overflow} : \A i, j \in DOMAIN s : i < j => wake[s[i]] <= wake[s[j]]
  BY <1>2 DEF IInv, Sleepers, Sorted
<1>4. /\ \A t \in Members(delayed) : wake[t] > tick
      /\ \A t \in Members(overflow) : wake[t] < tick
  BY <1>1 DEF IInv, Sleepers
<1>5. ASSUME delayed # << >> PROVE nextUnblock \in tick + 1 .. wake[Head(delayed)]
  <2>1. started
    BY <1>5 DEF IInv, Control
  <2>2. nextUnblock > tick \/ nextUnblock = MaxTick
    BY <1>1, <2>1 DEF IInv, Sleepers
  <2>3. nextUnblock <= wake[Head(delayed)]
    BY <1>5 DEF IInv, Sleepers
  <2>4. Head(delayed) \in Members(delayed) /\ Head(delayed) \in Tasks
    BY <1>2, <1>5, Headless, MembersAre DEF IInv, Homes
  <2>5. wake[Head(delayed)] > tick /\ wake[Head(delayed)] \in 0 .. MaxTick
    BY <1>2, <1>4, <2>4
  <2>6. QED
    BY <1>2, <2>2, <2>3, <2>5
<1>6. QED
  BY <1>3, <1>4, <1>5

LEMMA HighestIsRunning ==
  ASSUME IInv PROVE HighestRuns
<1>1. SUFFICES ASSUME started, ~pendSV, busy = "no", suspended = 0, pc[current] = "run"
               PROVE  Priority[current] \in top /\ \A p \in top : p <= Priority[current]
  BY DEF HighestRuns
<1>2. current \in Tasks /\ InReady(current) /\ \A p \in top : p <= Priority[current]
  BY <1>1 DEF IInv, Control, Runner
<1>3. Priority[current] \in top
  BY <1>2, Highest DEF IInv, Types
<1>4. QED
  BY <1>2, <1>3

(* The kernel's lists are sound in every configuration: a task that exists *)
(* is in one list, the sleepers of both lists are in order and none of     *)
(* them is skipped by a tick, and the highest ready task is the one that   *)
(* runs, whatever is created, sleeps, wakes or is pended meanwhile.        *)
THEOREM KernelKeepsItsLists == Spec => []ListsSound
<1>1. IInv => ListsSound
  BY WellTyped, AgreeOnLists, OrderOfSleepers, HighestIsRunning DEF ListsSound
<1>2. QED
  BY <1>1, Invariant, PTL

LEMMA PeriodsAreKept ==
  ASSUME IInv PROVE PeriodKept
<1>1. SUFFICES ASSUME NEW t \in Tasks, lastWake[t] # None
               PROVE  /\ late[t] < MaxLate => (tick - lastWake[t] - late[t]) % M = 0
                      /\ (Asleep(t) /\ call[t].kind = "until") => Remaining(t) = -late[t]
                      /\ (pc[t] = "run" /\ Exists(t) /\ ~pendSV /\ busy = "no" /\ current = t)
                           => late[t] >= 0
  BY DEF PeriodKept
<1>2. /\ late[t] < MaxLate => (tick - lastWake[t] - late[t]) % M = 0
      /\ late[t] >= 0 \/ (Sleeps(t) /\ call[t].kind = "until")
      /\ Sleeps(t) /\ call[t].kind = "until" => (wake[t] - tick) % M = -late[t]
  BY <1>1 DEF IInv, Periods
<1>3. (Asleep(t) /\ call[t].kind = "until") => Remaining(t) = -late[t]
  BY <1>2 DEF Asleep, Sleeps, Remaining
<1>4. ASSUME pc[t] = "run", ~pendSV, busy = "no", current = t PROVE late[t] >= 0
  <2>1. started
    BY <1>1 DEF IInv, Control
  <2>2. InReady(t)
    BY <1>4, <2>1 DEF IInv, Runner
  <2>3. ~Sleeps(t)
    BY <2>2 DEF IInv, Homes
  <2>4. QED
    BY <1>2, <2>3
<1>5. QED
  BY <1>2, <1>3, <1>4

(* No tick is lost and no period drifts, for every period, every length of *)
(* the count and every number of ticks pended: the wrapped comparison of   *)
(* xTaskDelayUntil is right over the overflow.                             *)
THEOREM KernelKeepsTime == Spec => []TimeKept
<1>1. IInv => TimeKept
  BY PeriodsAreKept DEF IInv, TimeKept
<1>2. QED
  BY <1>1, Invariant, PTL

-----------------------------------------------------------------------------
(***************************************************************************)
(* The kernel implements the scheduler.                                    *)
(***************************************************************************)
LEMMA LeftKept ==
  ASSUME UNCHANGED <<delayed, overflow, blocked, wake, tick>> PROVE left' = left
<1>1. \A t \in Tasks : /\ Asleep(t)' <=> Asleep(t)
                       /\ Remaining(t)' = Remaining(t)
                       /\ t \in Members(blocked') <=> t \in Members(blocked)
  BY DEF Asleep, Remaining
<1>2. QED
  BY <1>1 DEF left

LEMMA RunningKept ==
  ASSUME UNCHANGED <<started, current>> PROVE running' = running
  BY DEF running

LEMMA RequestKept ==
  ASSUME UNCHANGED call, \A u \in Tasks : pc'[u] = "place" <=> pc[u] = "place"
  PROVE  request' = request
BY DEF request

LEMMA BehindKept ==
  ASSUME UNCHANGED <<lastWake, late>> PROVE behind' = behind
BY DEF behind

LEMMA BehindCases ==
  ASSUME IInv, NEW t \in Tasks
  PROVE  /\ lastWake[t] = None => behind[t] = None
         /\ lastWake[t] # None => behind[t] = late[t] /\ behind[t] \in Int /\ behind[t] # None
<1>1. late[t] \in Int /\ None \notin Int
  BY KernelAssumption DEF IInv, Types, TimeType
<1>2. QED
  BY <1>1 DEF behind

LEMMA LeftCases ==
  ASSUME IInv, NEW t \in Tasks
  PROVE  /\ Sleeps(t) => left[t] = (wake[t] - tick) % M
         /\ Blocked(t) => left[t] = M
         /\ ~Sleeps(t) /\ ~Blocked(t) => left[t] = 0
         /\ InReady(t) => left[t] = 0
<1>1. Asleep(t) <=> Sleeps(t)
  BY DEF Asleep, Sleeps
<1>2. ~(Sleeps(t) /\ Blocked(t)) /\ (InReady(t) => ~Sleeps(t) /\ ~Blocked(t))
  BY DEF IInv, Homes
<1>3. left[t] = IF Asleep(t) THEN Remaining(t) ELSE IF Blocked(t) THEN M ELSE 0
  BY DEF left, Blocked
<1>4. QED
  BY <1>1, <1>2, <1>3 DEF Remaining

\* Only while a tick is worked off is a sleeper at its end.
LEMMA SleepersLeft ==
  ASSUME IInv, busy = "no", NEW t \in Tasks, Sleeps(t)
  PROVE  left[t] \in 1 .. MaxTick
<1>1. wake[t] \in 0 .. MaxTick /\ tick \in 0 .. MaxTick /\ wake[t] # tick
  BY SleepersWait
<1>2. MaxTick \in Nat /\ M = MaxTick + 1
  BY Modulus
<1>3. CASE wake[t] > tick
  <2>1. wake[t] - tick \in 1 .. MaxTick /\ wake[t] - tick \in 0 .. MaxTick
    BY <1>1, <1>2, <1>3
  <2>2. (wake[t] - tick) % M = wake[t] - tick
    BY <2>1, Wrapped
  <2>3. QED
    BY <2>1, <2>2, LeftCases
<1>4. CASE wake[t] < tick
  <2>1. wake[t] - tick \in -MaxTick .. -1 /\ wake[t] - tick \in Int
    BY <1>1, <1>2, <1>4
  <2>2. (wake[t] - tick) % M = (wake[t] - tick) + M
    BY <2>1, Wrapped
  <2>3. (wake[t] - tick) + M \in 1 .. MaxTick
    BY <1>2, <2>1
  <2>4. QED
    BY <2>2, <2>3, LeftCases
<1>5. QED
  BY <1>1, <1>3, <1>4

LEMMA AwakeIsReady ==
  ASSUME IInv, started, busy = "no", NEW t \in Tasks, left[t] = 0
  PROVE  InReady(t)
<1>1. Exists(t)
  <2>1. created = Len(Creation)
    BY DEF IInv, Control
  <2>2. QED
    BY <2>1, KernelAssumption DEF Exists
<1>2. ~Sleeps(t)
  BY SleepersLeft
<1>3. ~Blocked(t)
  BY LeftCases, Modulus
<1>4. QED
  BY <1>1, <1>2, <1>3 DEF IInv, Homes

LEMMA PassesOn ==
  ASSUME IInv, IInv', CountTick, busy = "no", started,
         UNCHANGED <<created, started, current>>, busy' # "no", UNCHANGED code
  PROVE  S!Pass
<1>1. /\ tick' = (tick + 1) % M
      /\ \A u \in Tasks : Sleeps(u)' <=> Sleeps(u)
  BY CountedLists
<1>2. blocked' = blocked /\ wake' = wake
  BY DEF CountTick
<1>3. MaxTick \in Nat \ {0} /\ M = MaxTick + 1
  BY Modulus
<1>4. ASSUME NEW u \in Tasks
      PROVE  left'[u] = IF left[u] \in 1 .. M - 1 THEN left[u] - 1 ELSE left[u]
  <2>1. left'[u] = IF Asleep(u)' THEN Remaining(u)' ELSE IF u \in Members(blocked') THEN M ELSE 0
    BY DEF left
  <2>2. Asleep(u)' <=> Sleeps(u)
    BY <1>1 DEF Asleep, Sleeps
  <2>3. Remaining(u)' = (wake[u] - tick') % M
    BY <1>2 DEF Remaining
  <2>4. CASE Sleeps(u)
    <3>1. left[u] \in 1 .. MaxTick /\ left[u] = (wake[u] - tick) % M
      BY <2>4, LeftCases, SleepersLeft
    <3>2. wake[u] \in 0 .. MaxTick /\ tick \in 0 .. MaxTick
      BY <2>4, SleepersWait
    <3> DEFINE l == left[u]
               a == wake[u] - tick
    <3>3. a \in Int /\ l = a % M /\ l \in 0 .. MaxTick /\ l - 1 \in 0 .. MaxTick /\ l \in Int
      BY <1>3, <3>1, <3>2
    <3>4. (wake[u] - tick') % M = l - 1
      <4>1. tick' \in Int /\ (\E q \in Int : tick + 1 = q * M + tick')
        <5>1. tick + 1 \in Int
          BY <3>2
        <5>2. tick' \in 0 .. MaxTick
          BY <1>1, <5>1, Divided, Zenon
        <5>3. \E q \in Int : tick + 1 = q * M + tick'
          BY <1>1, <5>1, Divided, Zenon
        <5>4. tick' \in Int
          BY <1>3, <5>2
        <5>5. QED
          BY <5>3, <5>4, Zenon
      <4>2. PICK q \in Int : tick + 1 = q * M + tick'
        BY <4>1
      <4> HIDE DEF l, a
      <4>3. \E p \in Int : a = p * M + l
        BY <3>3, Divided, Zenon
      <4>4. PICK p \in Int : a = p * M + l
        BY <4>3
      <4> DEFINE b == q * M
                 c == p * M
                 d == (p + q) * M
      <4>5. b \in Int /\ c \in Int /\ d = c + b /\ p + q \in Int
        BY Multiples
      <4>6. tick + 1 = b + tick' /\ a = c + l
        BY <4>2, <4>4
      <4> HIDE DEF b, c, d
      <4>7. wake[u] - tick' = d + (l - 1)
        <5>1. wake[u] \in Int /\ tick \in Int /\ a = wake[u] - tick
          BY <3>2 DEF a
        <5>3. wake[u] - tick = c + l
          BY <4>6, <5>1
        <5>6. l \in Int /\ tick' \in Int /\ b \in Int /\ c \in Int /\ tick + 1 = b + tick'
          BY <3>3, <4>1, <4>5, <4>6
        <5>4. wake[u] - tick' = (c + b) + (l - 1)
          <6> DEFINE w == wake[u]
                     y == tick'
          <6>1. /\ w \in Int /\ y \in Int /\ tick \in Int /\ b \in Int /\ c \in Int /\ l \in Int
                /\ tick + 1 = b + y /\ w - tick = c + l
            BY <5>1, <5>3, <5>6
          <6> HIDE DEF w, y
          <6>2. w = c + l + tick /\ tick = b + y - 1
            BY <6>1
          <6>3. w - y = (c + b) + (l - 1)
            BY <6>1, <6>2
          <6>4. QED
            BY <6>3 DEF w, y
        <5>5. QED
          BY <4>5, <5>4
      <4>8. wake[u] - tick' = (p + q) * M + (l - 1) /\ wake[u] - tick' \in Int
        BY <3>2, <4>1, <4>7 DEF d
      <4>9. QED
        BY <3>3, <4>5, <4>8, Residue
    <3>5. l \in 1 .. M - 1
      BY <1>3, <3>1
    <3>6. QED
      BY <2>1, <2>2, <2>3, <2>4, <3>4, <3>5
  <2>5. CASE ~Sleeps(u)
    <3>1. left'[u] = IF Blocked(u) THEN M ELSE 0
      BY <1>2, <2>1, <2>2, <2>5 DEF Blocked
    <3>2. left[u] = IF Blocked(u) THEN M ELSE 0
      BY <2>5, LeftCases
    <3>3. ~(left[u] \in 1 .. M - 1)
      BY <1>3, <3>2
    <3>4. QED
      BY <3>1, <3>2, <3>3
  <2>6. QED
    BY <2>4, <2>5
<1>5. left' = [u \in Tasks |-> IF left[u] \in 1 .. M - 1 THEN left[u] - 1 ELSE left[u]]
  <2>1. left' = [u \in Tasks |-> left'[u]]
    BY DEF left
  <2>2. QED
    BY <1>4, <2>1, Zenon
<1>6. running' = running /\ request' = request
  BY RunningKept, RequestKept DEF code
<1>7. ASSUME NEW u \in Tasks
      PROVE  behind'[u] = IF behind[u] = None \/ behind[u] = MaxLate THEN behind[u] ELSE behind[u] + 1
  <2>1. behind'[u] = IF lastWake[u] = None THEN None ELSE late'[u]
    BY DEF behind, code
  <2>2. late'[u] = Older(u)
    BY DEF CountTick
  <2>3. QED
    BY <2>1, <2>2, BehindCases DEF Older
<1>8. behind' = [u \in Tasks |-> IF behind[u] = None \/ behind[u] = MaxLate
                                 THEN behind[u] ELSE behind[u] + 1]
  <2>1. behind' = [u \in Tasks |-> behind'[u]]
    BY DEF behind
  <2>2. QED
    BY <1>7, <2>1, Zenon
<1>9. QED
  BY <1>5, <1>6, <1>8 DEF S!Pass

LEMMA TaskSleeps ==
  ASSUME IInv, IInv', NEW t \in Tasks, PlaceTask(t)
  PROVE  S!Sleep
<1>1. /\ Runs(t, "place") /\ InReady(t) /\ ~Sleeps(t) /\ ~Blocked(t) /\ call[t].n \in 1 .. MaxTick
      /\ UNCHANGED <<created, started, tick, busy>>
      /\ late[t] \in Int /\ (lastWake[t] # None => late[t] >= 0)
      /\ lastWake[t] # None /\ late[t] < MaxLate => (tick - lastWake[t] - late[t]) % M = 0
      /\ call[t].kind = "until" => lastWake[t] # None /\ late[t] < MaxLate
  BY Sleeper
<1>2. started /\ current = t /\ UNCHANGED <<started, current>>
  BY <1>1 DEF Runs, PlaceTask
<1>3. running = t /\ running # None /\ running' = running /\ left[t] = 0
  <2>1. t # None
    BY KernelAssumption
  <2>2. QED
    BY <1>1, <1>2, <2>1, RunningKept, LeftCases DEF running
<1>4. MaxTick \in Nat \ {0} /\ M = MaxTick + 1 /\ tick \in 0 .. MaxTick
  BY Modulus DEF IInv, Types, TimeType
<1>5. ASSUME NEW n \in 1 .. MaxTick, prvAddCurrentTaskToDelayedList(t, n)
      PROVE  left' = [left EXCEPT ![t] = n]
  <2>1. /\ wake' = [wake EXCEPT ![t] = (tick + n) % M]
        /\ \A u \in Tasks : Sleeps(u)' <=> Sleeps(u) \/ u = t
    BY <1>1, <1>5, Slept
  <2>2. blocked' = blocked /\ wake \in [Tasks -> 0 .. MaxTick]
    BY <1>5 DEF prvAddCurrentTaskToDelayedList, IInv, Types, WaitType
  <2>3. ASSUME NEW u \in Tasks PROVE left'[u] = IF u = t THEN n ELSE left[u]
    <3>1. left'[u] = IF Asleep(u)' THEN Remaining(u)' ELSE IF u \in Members(blocked') THEN M ELSE 0
      BY DEF left
    <3>2. left[u] = IF Asleep(u) THEN Remaining(u) ELSE IF u \in Members(blocked) THEN M ELSE 0
      BY DEF left
    <3>3. (Asleep(u)' <=> Sleeps(u)') /\ (Asleep(u) <=> Sleeps(u))
      BY DEF Asleep, Sleeps
    <3>4. Remaining(u)' = (wake'[u] - tick) % M /\ Remaining(u) = (wake[u] - tick) % M
      BY <1>1 DEF Remaining
    <3>5. CASE u = t
      <4>1. wake'[t] = (tick + n) % M
        BY <2>1, <2>2
      <4>2. (((tick + n) % M) - tick) % M = n
        BY <1>4, SleepEnd
      <4>3. QED
        BY <2>1, <3>1, <3>3, <3>4, <3>5, <4>1, <4>2
    <3>6. CASE u # t
      <4>1. wake'[u] = wake[u]
        BY <2>1, <2>2, <3>6
      <4>2. QED
        BY <2>1, <2>2, <3>1, <3>2, <3>3, <3>4, <3>6, <4>1
    <3>7. QED
      BY <3>5, <3>6
  <2>4. left' = [left EXCEPT ![t] = n]
    <3>1. left' = [u \in Tasks |-> left'[u]] /\ DOMAIN left = Tasks
      BY DEF left
    <3>2. QED
      BY <2>3, <3>1
  <2>5. QED
    BY <2>4
<1>10. request[t] = call[t] /\ call[t] # None /\ request' = [request EXCEPT ![t] = None]
  <2>1. pc[t] = "place" /\ pc \in [Tasks -> {"run", "place", "resume", "unwind", "yield"}]
    BY <1>1 DEF Runs, IInv, Types, CodeType
  <2>2. pc' = [pc EXCEPT ![t] = "resume"] /\ call' = call
    BY DEF PlaceTask, Goto
  <2>3. call[t] \in Calls[t] /\ call[t] # None
    <3>1. call[t] \in Calls[t]
      BY Sleeper
    <3>2. QED
      BY <3>1, KernelAssumption DEF CallSet
  <2>4. ASSUME NEW u \in Tasks PROVE request'[u] = IF u = t THEN None ELSE request[u]
    BY <2>1, <2>2 DEF request
  <2>5. request' = [u \in Tasks |-> request'[u]] /\ DOMAIN request = Tasks
    BY DEF request
  <2>6. request' = [request EXCEPT ![t] = None]
    BY <2>4, <2>5
  <2>7. QED
    BY <2>1, <2>3, <2>6 DEF request
<1> DEFINE b == behind[t]
<1>11. ASSUME NEW d, left' = [left EXCEPT ![t] = d], d = S!Due(call[t], b),
              behind' = [behind EXCEPT ![t] = IF call[t].kind = "until" THEN b - call[t].n ELSE b]
       PROVE  S!Sleep
  BY <1>3, <1>10, <1>11 DEF S!Sleep
<1>12. ASSUME UNCHANGED <<lastWake, late>>, call[t].kind # "until"
       PROVE  behind' = [behind EXCEPT ![t] = IF call[t].kind = "until" THEN b - call[t].n ELSE b]
  <2>1. behind' = behind /\ behind = [u \in Tasks |-> behind[u]]
    BY <1>12, BehindKept DEF behind
  <2>2. behind = [behind EXCEPT ![t] = b]
    BY <2>1
  <2>3. QED
    BY <1>12, <2>1, <2>2
<1>6. CASE vTaskDelay(t)
  <2>1. /\ call[t].kind = "delay" /\ prvAddCurrentTaskToDelayedList(t, call[t].n)
        /\ UNCHANGED <<lastWake, late>>
    BY <1>6 DEF vTaskDelay
  <2>2. left' = [left EXCEPT ![t] = call[t].n] /\ call[t].n = S!Due(call[t], b)
    BY <1>1, <1>5, <2>1 DEF S!Due
  <2>3. QED
    BY <1>11, <1>12, <2>1, <2>2
<1>7. CASE xTaskDelayUntil(t)
  <2> DEFINE n    == call[t].n
             l    == late[t]
             last == lastWake[t]
             at   == (last + n) % M
             d    == (at - tick) % M
  <2>1. /\ call[t].kind = "until"
        /\ ShouldDelay(last, at) => prvAddCurrentTaskToDelayedList(t, d)
        /\ ~ShouldDelay(last, at) => UNCHANGED lists
    BY <1>7, Zenon DEF xTaskDelayUntil
  <2>2. /\ last \in 0 .. MaxTick /\ l \in 0 .. MaxTick /\ l < MaxTick /\ (tick - last - l) % M = 0
    <3>1. last \in 0 .. MaxTick /\ MaxLate \in 0 .. MaxTick
      BY <1>1, <2>1, KernelAssumption DEF IInv, Types, TimeType
    <3>2. QED
      BY <1>1, <1>4, <2>1, <3>1
  <2>3. /\ (IF tick < last THEN at < last /\ at > tick ELSE at < last \/ at > tick) <=> n > l
        /\ n > l => (at - tick) % M = n - l
    BY <1>1, <1>4, <2>2, UntilEnd, SMTT(30)
  <2>6. behind' = [behind EXCEPT ![t] = IF call[t].kind = "until" THEN b - call[t].n ELSE b]
    <3>1. /\ lastWake' = [lastWake EXCEPT ![t] = at] /\ late' = [late EXCEPT ![t] = l - n]
          /\ lastWake \in [Tasks -> 0 .. MaxTick \cup {None}] /\ late \in [Tasks -> Int]
      BY <1>7 DEF xTaskDelayUntil, IInv, Types, TimeType
    <3>2. at # None
      <4>1. at \in 0 .. MaxTick
        <5>1. last + n \in Int
          BY <1>1, <1>4, <2>2
        <5>2. QED
          BY <5>1, Divided, Zenon
      <4>2. QED
        BY <1>4, <4>1, KernelAssumption
    <3>3. b = l
      BY <1>1, <2>1, BehindCases
    <3> HIDE DEF at, b, l, n
    <3>4. behind'[t] = l - n
      BY <3>1, <3>2 DEF behind
    <3>5. ASSUME NEW u \in Tasks PROVE behind'[u] = IF u = t THEN l - n ELSE behind[u]
      BY <3>1, <3>4 DEF behind
    <3>6. behind' = [u \in Tasks |-> behind'[u]] /\ DOMAIN behind = Tasks
      BY DEF behind
    <3>7. behind' = [behind EXCEPT ![t] = l - n]
      BY <3>5, <3>6
    <3>8. QED
      BY <2>1, <3>3, <3>7 DEF n
  <2>4. CASE ShouldDelay(last, at)
    <3>1. n > l /\ d = n - l
      BY <2>3, <2>4 DEF ShouldDelay
    <3>2. d \in 1 .. MaxTick
      BY <1>1, <1>4, <2>2, <3>1
    <3> HIDE DEF d
    <3>3. left' = [left EXCEPT ![t] = d]
      BY <1>5, <2>1, <2>4, <3>2
    <3>4. d = S!Due(call[t], b)
      <4>1. b = l /\ b < call[t].n
        BY <1>1, <2>1, <3>1, BehindCases
      <4>2. QED
        BY <2>1, <3>1, <4>1 DEF S!Due
    <3> HIDE DEF b
    <3>5. QED
      BY <1>11, <2>6, <3>3, <3>4
  <2>5. CASE ~ShouldDelay(last, at)
    <3>1. UNCHANGED <<delayed, overflow, blocked, wake, tick>>
      BY <1>1, <2>1, <2>5 DEF lists
    <3>2. left' = [left EXCEPT ![t] = 0]
      <4>1. left' = left /\ left = [u \in Tasks |-> left[u]]
        BY <3>1, LeftKept DEF left
      <4>2. QED
        BY <1>3, <4>1
    <3>3. 0 = S!Due(call[t], b)
      <4>1. b = l /\ ~(b < call[t].n)
        BY <1>1, <2>1, <2>3, <2>5, BehindCases DEF ShouldDelay
      <4>2. QED
        BY <2>1, <4>1 DEF S!Due
    <3> HIDE DEF b
    <3>4. QED
      BY <1>11, <2>6, <3>2, <3>3
  <2>7. QED
    BY <2>4, <2>5
<1>8. CASE vTaskPlaceOnEventListRestricted(t)
  <2>1. /\ blocked' = Append(blocked, t) /\ UNCHANGED <<delayed, overflow, wake>>
    BY <1>8 DEF vTaskPlaceOnEventListRestricted, BlockForever
  <2>2. Members(blocked') = Members(blocked) \cup {t}
    BY <2>1, Appended DEF IInv, Types, WaitType
  <2>3. ASSUME NEW u \in Tasks PROVE left'[u] = IF u = t THEN M ELSE left[u]
    <3>1. left'[u] = IF Asleep(u)' THEN Remaining(u)' ELSE IF u \in Members(blocked') THEN M ELSE 0
      BY DEF left
    <3>2. left[u] = IF Asleep(u) THEN Remaining(u) ELSE IF u \in Members(blocked) THEN M ELSE 0
      BY DEF left
    <3>3. (Asleep(u)' <=> Asleep(u)) /\ (Asleep(u) <=> Sleeps(u)) /\ Remaining(u)' = Remaining(u)
      BY <1>1, <2>1 DEF Asleep, Sleeps, Remaining
    <3>4. QED
      BY <1>1, <2>2, <3>1, <3>2, <3>3
  <2>4. left' = [left EXCEPT ![t] = M]
    <3>1. left' = [u \in Tasks |-> left'[u]] /\ DOMAIN left = Tasks
      BY DEF left
    <3>2. QED
      BY <2>3, <3>1
  <2>5. call[t].kind = "block" /\ UNCHANGED <<lastWake, late>>
    BY <1>8 DEF vTaskPlaceOnEventListRestricted
  <2>6. M = S!Due(call[t], b)
    BY <2>5 DEF S!Due
  <2>7. QED
    BY <1>11, <1>12, <2>4, <2>5, <2>6
<1>9. vTaskDelay(t) \/ xTaskDelayUntil(t) \/ vTaskPlaceOnEventListRestricted(t)
  BY DEF PlaceTask
<1>13. QED
  BY <1>6, <1>7, <1>8, <1>9

LEMMA WakesNobodyEarly ==
  ASSUME IInv, IInv', WakeOne PROVE UNCHANGED S!schedulerVars
<1> DEFINE t == Head(delayed)
<1>1. /\ UNCHANGED <<created, started, current, overflow, blocked, tick, late, pc, call, lastWake>>
      /\ delayed' = Tail(delayed) /\ wake' = [wake EXCEPT ![t] = 0]
      /\ delayed # << >> /\ wake[t] <= tick
  BY DEF WakeOne, Due, time, code
<1>2. /\ delayed \in Seq(Tasks) /\ Once(delayed) /\ wake \in [Tasks -> 0 .. MaxTick]
      /\ tick \in 0 .. MaxTick /\ MaxTick \in Nat
  BY Modulus DEF IInv, Types, WaitType, TimeType, Homes
<1>3. t \in Members(delayed) /\ Members(delayed') = Members(delayed) \ {t}
  BY <1>1, <1>2, Headless
<1> HIDE DEF t
<1>4. t \in Tasks /\ Sleeps(t) /\ t \notin Members(overflow) /\ ~Blocked(t)
  <2>1. t \in Tasks /\ Sleeps(t)
    BY <1>2, <1>3, MembersAre DEF Sleeps
  <2>2. QED
    BY <1>3, <2>1 DEF IInv, Homes
<1>5. wake[t] = tick
  BY <1>1, <1>2, <1>3, <1>4 DEF IInv, Sleepers
<1>6. left[t] = 0
  <2>1. wake[t] - tick = 0 /\ 0 \in 0 .. MaxTick
    BY <1>2, <1>5
  <2>2. (wake[t] - tick) % M = 0
    BY <2>1, Wrapped
  <2>3. QED
    BY <1>4, <2>2, LeftCases
<1>7. ASSUME NEW u \in Tasks PROVE left'[u] = left[u]
  <2>1. left'[u] = IF Asleep(u)' THEN Remaining(u)' ELSE IF u \in Members(blocked') THEN M ELSE 0
    BY DEF left
  <2>2. left[u] = IF Asleep(u) THEN Remaining(u) ELSE IF u \in Members(blocked) THEN M ELSE 0
    BY DEF left
  <2>3. Asleep(u)' <=> Asleep(u) /\ u # t
    BY <1>1, <1>3, <1>4 DEF Asleep
  <2>4. CASE u = t
    BY <1>1, <1>4, <1>6, <2>1, <2>3, <2>4 DEF Blocked
  <2>5. CASE u # t
    <3>1. wake'[u] = wake[u]
      BY <1>1, <1>2, <2>5
    <3>2. Remaining(u)' = Remaining(u)
      BY <1>1, <3>1 DEF Remaining
    <3>3. QED
      BY <1>1, <2>1, <2>2, <2>3, <2>5, <3>2
  <2>6. QED
    BY <2>4, <2>5
<1>8. left' = left
  <2>1. left' = [u \in Tasks |-> left'[u]] /\ left = [u \in Tasks |-> left[u]]
    BY DEF left
  <2>2. QED
    BY <1>7, <2>1, Zenon
<1>9. QED
  BY <1>1, <1>8, RunningKept, RequestKept, BehindKept DEF S!schedulerVars

LEMMA TaskAsks ==
  ASSUME IInv, NEW t \in Tasks, xTaskGetTickCount(t) \/ vTaskSuspendAll(t)
  PROVE  S!SchedulerNext
<1>1. /\ Runs(t, "run")
      /\ UNCHANGED lists /\ UNCHANGED <<started, current, tick>>
  BY DEF xTaskGetTickCount, vTaskSuspendAll, time
<1>2. UNCHANGED <<delayed, overflow, blocked, wake, tick>>
  BY <1>1 DEF lists
<1>3. left' = left /\ running' = running
  BY <1>1, <1>2, LeftKept, RunningKept
<1>4. InReady(t)
  BY <1>1 DEF Runs, IInv, Runner
<1>5. running = t /\ running # None /\ left[t] = 0
  BY <1>1, <1>4, LeftCases, KernelAssumption DEF Runs, running
<1>6. request[t] = None /\ DOMAIN request = Tasks /\ DOMAIN behind = Tasks
  BY <1>1 DEF Runs, request, behind
<1>7. S!Acts
  BY <1>5, <1>6 DEF S!Acts, S!Awake
<1>8. CASE xTaskGetTickCount(t)
  <2>1. /\ Periodic(t) /\ lastWake[t] = None /\ UNCHANGED <<pc, call>>
        /\ lastWake' = [lastWake EXCEPT ![t] = tick] /\ late' = [late EXCEPT ![t] = 0]
    BY <1>8 DEF xTaskGetTickCount
  <2>2. /\ lastWake \in [Tasks -> 0 .. MaxTick \cup {None}] /\ late \in [Tasks -> Int]
        /\ tick \in 0 .. MaxTick /\ tick # None
    BY KernelAssumption DEF IInv, Types, TimeType
  <2>3. ASSUME NEW u \in Tasks PROVE behind'[u] = IF u = t THEN 0 ELSE behind[u]
    BY <2>1, <2>2 DEF behind
  <2>4. behind' = [u \in Tasks |-> behind'[u]]
    BY DEF behind
  <2>5. behind' = [behind EXCEPT ![t] = 0]
    BY <1>6, <2>3, <2>4
  <2>6. behind[t] = None /\ request' = request
    BY <2>1, RequestKept DEF behind
  <2>7. \E c \in Calls[t] : c.kind = "until"
    BY <2>1 DEF Periodic
  <2>8. S!Begin
    BY <1>3, <1>5, <1>7, <2>5, <2>6, <2>7 DEF S!Begin
  <2>9. QED
    BY <2>8 DEF S!SchedulerNext
<1>9. CASE vTaskSuspendAll(t)
  <2>1. PICK c \in Calls[t] : /\ c.kind = "until" => lastWake[t] # None /\ late[t] < MaxLate
                              /\ call' = [call EXCEPT ![t] = c]
    BY <1>9 DEF vTaskSuspendAll
  <2>2. pc' = [pc EXCEPT ![t] = "place"] /\ UNCHANGED <<lastWake, late>>
    BY <1>9 DEF vTaskSuspendAll, Goto, time
  <2>3. /\ pc \in [Tasks -> {"run", "place", "resume", "unwind", "yield"}]
        /\ call \in [Tasks -> CallSet \cup {None}]
    BY DEF IInv, Types, CodeType
  <2>4. ASSUME NEW u \in Tasks PROVE request'[u] = IF u = t THEN c ELSE request[u]
    BY <2>1, <2>2, <2>3 DEF request
  <2>5. request' = [u \in Tasks |-> request'[u]]
    BY DEF request
  <2>6. request' = [request EXCEPT ![t] = c]
    BY <1>6, <2>4, <2>5
  <2>7. c.kind = "until" => behind[t] # None /\ behind[t] < MaxLate
    BY <2>1, BehindCases
  <2>8. behind' = behind
    BY <2>2, BehindKept
  <2>9. S!Ask(c)
    BY <1>3, <1>5, <1>7, <2>6, <2>7, <2>8 DEF S!Ask
  <2>10. QED
    BY <1>5, <2>9 DEF S!SchedulerNext
<1>10. QED
  BY <1>8, <1>9

LEMMA SchedulerStep ==
  ASSUME IInv, IInv', [Next]_vars PROVE [S!SchedulerNext]_(S!schedulerVars)
<1> SUFFICES S!SchedulerNext \/ UNCHANGED S!schedulerVars
  OBVIOUS
<1>1. CASE xTaskCreate
  <2>1. /\ UNCHANGED <<delayed, overflow, blocked, wake, tick, late, pc, call, lastWake>>
        /\ ~started /\ ~started'
    BY <1>1 DEF xTaskCreate, time, code
  <2>2. running' = running
    BY <2>1 DEF running
  <2>3. QED
    BY <2>1, <2>2, LeftKept, RequestKept, BehindKept DEF S!schedulerVars
<1>2. CASE vTaskStartScheduler
  <2>1. /\ UNCHANGED <<delayed, overflow, blocked, wake>> /\ ~started /\ started' /\ tick' = 0
        /\ created = Len(Creation) /\ UNCHANGED <<current, late, pc, call, lastWake>>
    BY <1>2 DEF vTaskStartScheduler, lists, code
  <2>2. tick = 0 /\ delayed = << >> /\ overflow = << >> /\ blocked = << >>
    BY <2>1 DEF IInv, Control
  <2>3. left' = left
    BY <2>1, <2>2, LeftKept
  <2>4. \A u \in Tasks : left[u] = 0 /\ InReady(u)
    <3>1. Members(<< >>) = {}
      BY DEF Members
    <3>2. \A u \in Tasks : ~Sleeps(u) /\ ~Blocked(u)
      BY <2>2, <3>1 DEF Sleeps, Blocked
    <3>3. \A u \in Tasks : Exists(u)
      BY <2>1, KernelAssumption DEF Exists
    <3>4. QED
      BY <3>2, <3>3, LeftCases DEF IInv, Homes
  <2>5. current \in Tasks /\ \A p \in top : p <= Priority[current]
    <3>1. Len(Creation) \in Nat /\ \E i \in 1 .. Len(Creation) : TRUE
      BY KernelAssumption
    <3>2. created > 0 /\ created # 0
      BY <2>1, <3>1
    <3>3. QED
      BY <2>1, <3>2 DEF IInv, Control, Runner, Types, KernelType
  <2>6. \A u \in Tasks : Priority[u] <= Priority[current]
    BY <2>4, <2>5, Highest DEF IInv, Types
  <2>7. running' = current
    BY <2>1 DEF running
  <2>8. request' = request /\ behind' = behind
    BY <2>1, RequestKept, BehindKept
  <2>9. QED
    BY <2>3, <2>4, <2>5, <2>6, <2>7, <2>8 DEF S!SchedulerNext, S!Dispatch, S!Prevails, S!Awake
<1>3. CASE SysTick_Handler
  <2>1. UNCHANGED <<created, started, current>> /\ UNCHANGED code /\ started /\ busy = "no"
    BY <1>3 DEF SysTick_Handler
  <2>2. CASE suspended = 0
    <3>1. CountTick /\ busy' # "no"
      BY <1>3, <2>2 DEF SysTick_Handler
    <3>2. S!Pass
      BY <2>1, <3>1, PassesOn
    <3>3. QED
      BY <3>2 DEF S!SchedulerNext
  <2>3. CASE suspended # 0
    <3>1. UNCHANGED <<delayed, overflow, blocked, wake, tick, late>>
      BY <1>3, <2>3 DEF SysTick_Handler, lists
    <3>2. request' = request /\ behind' = behind
      BY <2>1, <3>1, RequestKept, BehindKept DEF code
    <3>3. QED
      BY <2>1, <3>1, <3>2, LeftKept, RunningKept DEF S!schedulerVars
  <2>4. QED
    BY <2>2, <2>3
<1>4. CASE WakeOne
  BY <1>4, WakesNobodyEarly
<1>5. CASE EndTick
  <2>1. /\ UNCHANGED <<delayed, overflow, blocked, wake, tick, late>>
        /\ UNCHANGED <<started, current, pc, call, lastWake>>
    BY <1>5 DEF EndTick, lists, code
  <2>2. QED
    BY <2>1, LeftKept, RunningKept, RequestKept, BehindKept DEF S!schedulerVars
<1>6. CASE PendSV_Handler
  <2>1. /\ UNCHANGED <<delayed, overflow, blocked, wake, tick, started, top, busy>>
        /\ UNCHANGED <<late, pc, call, lastWake>>
        /\ pendSV /\ ~pendSV' /\ busy = "no"
    BY <1>6 DEF PendSV_Handler, time, code
  <2>2. started /\ suspended = 0
    BY <2>1 DEF IInv, Control, Types, KernelType
  <2>3. \A u \in Tasks : left[u] = 0 => Priority[u] \in top
    BY <2>1, <2>2, AwakeIsReady, Highest DEF IInv, Types
  <2>4. current' \in Tasks /\ InReady(current') /\ \A q \in top : q <= Priority[current']
    BY <1>6, Dispatched
  <2>5. left[current'] = 0 /\ left' = left
    BY <2>1, <2>4, LeftCases, LeftKept
  <2>6. running' = current'
    BY <2>1, <2>2 DEF running
  <2>7. request' = request /\ behind' = behind
    BY <2>1, RequestKept, BehindKept
  <2>8. QED
    BY <2>3, <2>4, <2>5, <2>6, <2>7 DEF S!SchedulerNext, S!Dispatch, S!Prevails, S!Awake
<1>7. ASSUME NEW t \in Tasks,
             \/ vPortEnterCritical(t) \/ xTaskGetTickCount(t) \/ vTaskSuspendAll(t) \/ Finish(t)
      PROVE  S!SchedulerNext \/ UNCHANGED S!schedulerVars
  <2>1. CASE PlaceTask(t)
    BY <2>1, TaskSleeps DEF S!SchedulerNext
  <2>2. CASE UnwindTick(t)
    <3>1. /\ UNCHANGED <<created, started, current>> /\ started /\ busy = "no" /\ busy' # "no"
          /\ UNCHANGED code
      BY <2>2 DEF UnwindTick, Runs
    <3>2. S!Pass
      BY <2>2, <3>1, PassesOn DEF UnwindTick
    <3>3. QED
      BY <3>2 DEF S!SchedulerNext
  <2>3. ASSUME \/ vPortEnterCritical(t) \/ xTaskResumeAll(t) \/ UnwindEnd(t) \/ Yield(t)
               \/ vPortExitCritical(t)
        PROVE  UNCHANGED S!schedulerVars
    <3>1. UNCHANGED lists /\ UNCHANGED <<started, current, tick, late, call, lastWake>>
      BY <2>3 DEF vPortEnterCritical, xTaskResumeAll, UnwindEnd, Yield, vPortExitCritical, time, code
    <3>2. UNCHANGED <<delayed, overflow, blocked, wake, tick>>
      BY <3>1 DEF lists
    <3>3. \A u \in Tasks : pc'[u] = "place" <=> pc[u] = "place"
      <4>1. pc \in [Tasks -> {"run", "place", "resume", "unwind", "yield"}]
        BY DEF IInv, Types, CodeType
      <4>2. \/ pc' = pc
            \/ pc[t] # "place" /\ \E at \in {"run", "unwind", "yield"} : pc' = [pc EXCEPT ![t] = at]
        BY <2>3 DEF vPortEnterCritical, xTaskResumeAll, UnwindEnd, Yield, vPortExitCritical, code,
                    Runs, Goto
      <4>3. QED
        BY <4>1, <4>2
    <3>4. request' = request /\ behind' = behind
      BY <3>1, <3>3, RequestKept, BehindKept
    <3>5. QED
      BY <3>1, <3>2, <3>4, LeftKept, RunningKept DEF S!schedulerVars
  <2>4. ASSUME \/ xTaskGetTickCount(t) \/ vTaskSuspendAll(t)
        PROVE  S!SchedulerNext
    BY <2>4, TaskAsks
  <2>5. QED
    BY <1>7, <2>1, <2>2, <2>3, <2>4 DEF Finish
<1>8. CASE UNCHANGED vars
  <2>1. UNCHANGED lists /\ UNCHANGED <<started, current, tick, late, pc, call, lastWake>>
    BY <1>8 DEF vars, time, code
  <2>2. UNCHANGED <<delayed, overflow, blocked, wake, tick>>
    BY <2>1 DEF lists
  <2>3. QED
    BY <2>1, <2>2, LeftKept, RunningKept, RequestKept, BehindKept DEF S!schedulerVars
<1>9. QED
  BY <1>1, <1>2, <1>3, <1>4, <1>5, <1>6, <1>7, <1>8 DEF Next

LEMMA SchedulerStart == ASSUME Init PROVE S!SchedulerInit
<1>1. Members(<< >>) = {}
  BY DEF Members
<1>2. \A t \in Tasks : ~Asleep(t) /\ t \notin Members(blocked)
  BY <1>1 DEF Init, Asleep
<1>3. left = [t \in Tasks |-> 0]
  BY <1>2 DEF left
<1>4. running = None
  BY DEF Init, running
<1>5. request = [t \in Tasks |-> None] /\ behind = [t \in Tasks |-> None]
  BY DEF Init, request, behind
<1>6. QED
  BY <1>3, <1>4, <1>5 DEF S!SchedulerInit

(* The kernel implements the scheduler of Scheduler, for any tasks, any    *)
(* priorities, any sleeps and any length of the tick count: a vTaskDelay   *)
(* sleeps through as many ticks as were asked for, an xTaskDelayUntil      *)
(* through what is left of the period, over the overflow of the count and  *)
(* through suspensions, and PendSV dispatches only a highest of those      *)
(* awake.                                                                  *)
THEOREM KernelIsAScheduler == Spec => ImplementsScheduler
<1>1. Init => S!SchedulerInit
  BY SchedulerStart
<1>2. IInv /\ IInv' /\ [Next]_vars => [S!SchedulerNext]_(S!schedulerVars)
  BY SchedulerStep
<1>3. QED
  BY <1>1, <1>2, Invariant, PTL DEF Spec, ImplementsScheduler, S!SchedulerSpec
=============================================================================
