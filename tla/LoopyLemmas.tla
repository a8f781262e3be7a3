---------------------------- MODULE LoopyLemmas  ----------------------------
(***************************************************************************)
(* What several proofs need: the least element on which inductions rest;   *)
(* remainders by a divisor that is a parameter (the capacity of a channel, *)
(* the slots of a ring, the width of a counter); linked lists as sequences *)
(* without duplicates, under linking, unlinking and joining; sums over     *)
(* finite sets.                                                            *)
(***************************************************************************)
EXTENDS Integers, FiniteSets, SequencesExt, SequenceTheorems, FiniteSetTheorems,
        FunctionTheorems, WellFoundedInduction, TLAPS

\* A set of natural numbers that is not empty has a least element.
LEMMA LeastNatural ==
  ASSUME NEW T, T \subseteq Nat, T # {}
  PROVE  \E x \in T : \A y \in T : x <= y
  <1>1. \E x \in T : \A y \in T : ~ (<<y, x>> \in OpToRel(<, Nat))
    BY NatLessThanWellFounded, WFMin
  <1>2. \A x, y \in Nat : y < x => <<y, x>> \in OpToRel(<, Nat)
    BY DEF OpToRel
  <1>3. PICK x \in T : \A y \in T : ~ (<<y, x>> \in OpToRel(<, Nat))
    BY <1>1
  <1>4. \A y \in T : x <= y
    <2> TAKE y \in T
    <2>1. x \in Nat /\ y \in Nat
      OBVIOUS
    <2>2. ~(y < x)
      BY <1>2, <1>3, <2>1
    <2> QED
      BY <2>1, <2>2
  <1> QED
    BY <1>4

\* The remainder lies below the divisor.
LEMMA ModRange ==
  ASSUME NEW n \in Nat \ {0}, NEW x \in Int
  PROVE  x % n \in 0 .. n - 1
  OBVIOUS

\* The index of a ring after one step, or after less than one turn.
LEMMA ModOnce ==
  ASSUME NEW n \in Nat \ {0}, NEW x \in 0 .. 2 * n - 1
  PROVE  x % n = IF x < n THEN x ELSE x - n
  <1>1. CASE x < n
    BY <1>1
  <1>2. CASE ~(x < n)
    BY <1>2
  <1> QED
    BY <1>1, <1>2

\* Every number is a multiple of the divisor and its remainder...
LEMMA ModQuotient ==
  ASSUME NEW n \in Nat \ {0}, NEW x \in Int
  PROVE  \E q \in Int : x = n * q + (x % n)
  <1> WITNESS (x \div n) \in Int
  <1> QED
    OBVIOUS

\* ... in one way only.
LEMMA ModUnique ==
  ASSUME NEW n \in Nat \ {0}, NEW q \in Int, NEW r \in 0 .. n - 1
  PROVE  (n * q + r) % n = r
  <1> DEFINE x == n * q + r
  <1>1. x \in Int
    OBVIOUS
  <1>2. x = n * q + r
    OBVIOUS
  <1> HIDE DEF x
  <1>3. x % n = r
    BY <1>1, <1>2
  <1> QED
    BY <1>2, <1>3

\* A multiple of the divisor makes no difference.
LEMMA ModPlusMultiple ==
  ASSUME NEW n \in Nat \ {0}, NEW x \in Int, NEW k \in Int
  PROVE  (x + n * k) % n = x % n
  <1>1. PICK q \in Int : x = n * q + (x % n)
    BY ModQuotient
  <1>2. x % n \in 0 .. n - 1
    BY ModRange
  <1> DEFINE r == x % n
  <1>3. (n * (q + k) + r) % n = r
    BY <1>2, ModUnique
  <1>4. x + n * k = n * (q + k) + r
    BY <1>1, <1>2
  <1> QED
    BY <1>3, <1>4

\* A number that is already a remainder may be added before or after.
LEMMA ModPlusMod ==
  ASSUME NEW n \in Nat \ {0}, NEW x \in Int, NEW y \in Int
  PROVE  ((x % n) + y) % n = (x + y) % n
  <1>1. PICK q \in Int : x = n * q + (x % n)
    BY ModQuotient
  <1>2. x % n \in Int
    BY ModRange
  <1> DEFINE z == (x % n) + y
  <1>3. z \in Int /\ z + n * q = x + y
    BY <1>1, <1>2
  <1> HIDE DEF z
  <1>4. (z + n * q) % n = z % n
    BY <1>3, ModPlusMultiple
  <1> QED
    BY <1>3, <1>4 DEF z

\* Two numbers less than a divisor apart have different remainders.
LEMMA ModDistinct ==
  ASSUME NEW n \in Nat \ {0}, NEW x \in Int, NEW y \in Int,
         x < y, y - x < n
  PROVE  x % n # y % n
  <1> SUFFICES ASSUME x % n = y % n PROVE FALSE
    OBVIOUS
  <1>1. PICK p \in Int : x = n * p + (x % n)
    BY ModQuotient
  <1>2. PICK q \in Int : y = n * q + (y % n)
    BY ModQuotient
  <1>3. x % n \in Int
    BY ModRange
  <1>4. y - x = n * (q - p)
    BY <1>1, <1>2, <1>3
  <1>5. CASE q <= p
    <2>1. n * (q - p) <= 0
      BY <1>5
    <2> QED
      BY <1>4, <2>1
  <1>6. CASE q > p
    <2>1. n * (q - p) >= n
      BY <1>6
    <2> QED
      BY <1>4, <2>1
  <1> QED
    BY <1>5, <1>6

\* The remainder by a divisor can be taken after that by a multiple of it.
LEMMA ModMod ==
  ASSUME NEW n \in Nat \ {0}, NEW m \in Nat \ {0}, m % n = 0, NEW x \in Int
  PROVE  (x % m) % n = x % n
  <1>1. PICK q \in Int : x = m * q + (x % m)
    BY ModQuotient
  <1>2. PICK k \in Int : m = n * k
    <2> WITNESS (m \div n) \in Int
    <2> QED
      OBVIOUS
  <1> DEFINE z == x % m
             j == k * q
  <1>3. z \in Int /\ j \in Int
    BY ModRange
  <1>4. m * q = n * j
    BY <1>2
  <1>a. x = m * q + z
    BY <1>1
  <1> HIDE DEF z, j
  <1>5. x = z + n * j
    BY <1>3, <1>4, <1>a
  <1>6. (z + n * j) % n = z % n
    BY <1>3, ModPlusMultiple
  <1> QED
    BY <1>5, <1>6 DEF z

\* The difference of two counters that wrap.
LEMMA ModMinusMod ==
  ASSUME NEW n \in Nat \ {0}, NEW x \in Int, NEW y \in Int
  PROVE  ((x % n) - (y % n)) % n = (x - y) % n
  <1>1. PICK p \in Int : x = n * p + (x % n)
    BY ModQuotient
  <1>2. PICK q \in Int : y = n * q + (y % n)
    BY ModQuotient
  <1> DEFINE a == x % n
             b == y % n
             z == a - b
             k == p - q
  <1>3. a \in Int /\ b \in Int /\ z \in Int /\ k \in Int
    BY ModRange
  <1>4. n * p - n * q = n * k
    OBVIOUS
  <1>a. x = n * p + a /\ y = n * q + b
    BY <1>1, <1>2
  <1> HIDE DEF a, b
  <1>5. x - y = z + n * k
    <2>1. n * p \in Int /\ n * q \in Int
      OBVIOUS
    <2> QED
      BY <1>3, <1>4, <1>a, <2>1
  <1> HIDE DEF z, k
  <1>6. (z + n * k) % n = z % n
    BY <1>3, ModPlusMultiple
  <1> QED
    BY <1>5, <1>6 DEF z, a, b

-----------------------------------------------------------------------------
(* Lists                                                                    *)

\* Unlinking a node (RemoveFirst) from a list without duplicates leaves the
\* others, each once.
LEMMA UnlinkOne ==
  ASSUME NEW S, NEW s \in Seq(S), IsInjective(s), NEW e \in Range(s)
  PROVE  /\ RemoveFirst(s, e) \in Seq(S)
         /\ Len(RemoveFirst(s, e)) = Len(s) - 1
         /\ IsInjective(RemoveFirst(s, e))
         /\ Range(RemoveFirst(s, e)) = Range(s) \ {e}
<1>1. PICK i \in 1 .. Len(s) : s[i] = e
  BY DEF Range
<1>2. \A j \in 1 .. Len(s) : s[j] = e => j = i
  BY <1>1 DEF IsInjective
<1>3. {j \in 1 .. Len(s) : s[j] = e} = {i}
  BY <1>1, <1>2
<1>4. Min({i}) = i
  BY DEF Min
<1>5. SelectInSeq(s, LAMBDA v : v = e) = i
  BY <1>3, <1>4 DEF SelectInSeq
<1>6. RemoveFirst(s, e) = RemoveAt(s, i)
  BY <1>1, <1>5 DEF RemoveFirst
<1> DEFINE a == SubSeq(s, 1, i - 1)
           b == SubSeq(s, i + 1, Len(s))
           r == a \o b
<1>7. Len(s) \in Nat /\ i \in Nat /\ 1 <= i /\ i <= Len(s)
  BY LenProperties
<1>8. /\ a \in Seq(S) /\ Len(a) = i - 1 /\ \A j \in 1 .. i - 1 : a[j] = s[j]
      /\ b \in Seq(S) /\ Len(b) = Len(s) - i /\ \A j \in 1 .. Len(s) - i : b[j] = s[i + j]
  BY <1>7, SubSeqProperties
<1>9. /\ r \in Seq(S) /\ Len(r) = Len(s) - 1 /\ DOMAIN r = 1 .. Len(s) - 1
      /\ \A j \in 1 .. Len(s) - 1 : r[j] = IF j < i THEN s[j] ELSE s[j + 1]
  <2> HIDE DEF a, b
  <2>1. r \in Seq(S) /\ Len(r) = Len(a) + Len(b)
        /\ \A j \in 1 .. Len(a) + Len(b) : r[j] = IF j <= Len(a) THEN a[j] ELSE b[j - Len(a)]
    BY <1>8, ConcatProperties
  <2>2. DOMAIN r = 1 .. Len(s) - 1
    BY <1>7, <1>8, <2>1, LenProperties
  <2> HIDE DEF r
  <2>3. ASSUME NEW j \in 1 .. Len(s) - 1, j < i
        PROVE  r[j] = s[j]
    BY <1>7, <1>8, <2>1, <2>3
  <2>4. ASSUME NEW j \in 1 .. Len(s) - 1, ~(j < i)
        PROVE  r[j] = s[j + 1]
    <3>0. j \in 1 .. Len(a) + Len(b) /\ ~(j <= Len(a)) /\ Len(a) = i - 1
      BY <1>7, <1>8, <2>4
    <3>1. r[j] = b[j - (i - 1)] /\ j - (i - 1) \in 1 .. Len(s) - i
      BY <1>7, <2>1, <2>4, <3>0
    <3>2. b[j - (i - 1)] = s[i + (j - (i - 1))] /\ i + (j - (i - 1)) = j + 1
      BY <1>7, <1>8, <3>1
    <3> QED  BY <3>1, <3>2
  <2> QED  BY <1>7, <1>8, <2>1, <2>2, <2>3, <2>4
<1> HIDE DEF a, b, r
<1>10. IsInjective(r)
  <2> SUFFICES ASSUME NEW j \in 1 .. Len(s) - 1, NEW k \in 1 .. Len(s) - 1, r[j] = r[k]
               PROVE  j = k
    BY <1>9 DEF IsInjective
  <2>1. \A m, n \in 1 .. Len(s) : s[m] = s[n] => m = n
    BY DEF IsInjective
  <2> QED  BY <1>7, <1>9, <2>1
<1>11. Range(r) = Range(s) \ {e}
  <2>1. \A j \in 1 .. Len(s) - 1 : r[j] \in Range(s) \ {e}
    <3> SUFFICES ASSUME NEW j \in 1 .. Len(s) - 1
                 PROVE  \E k \in 1 .. Len(s) : k # i /\ r[j] = s[k]
      BY <1>1, <1>2 DEF Range
    <3> QED  BY <1>7, <1>9
  <2>2. ASSUME NEW j \in 1 .. Len(s), j # i
        PROVE  \E k \in 1 .. Len(s) - 1 : r[k] = s[j]
    <3>1. CASE j < i
      BY <1>7, <3>1, <1>9
    <3>2. CASE j > i
      <4>1. j - 1 \in 1 .. Len(s) - 1 /\ r[j - 1] = s[j]
        BY <1>7, <3>2, <1>9
      <4> QED  BY <4>1
    <3> QED  BY <1>7, <2>2, <3>1, <3>2
  <2>3. ASSUME NEW x \in Range(s) \ {e}
        PROVE  x \in Range(r)
    <3>1. PICK j \in 1 .. Len(s) : x = s[j]
      BY DEF Range
    <3>2. PICK k \in 1 .. Len(s) - 1 : r[k] = s[j]
      BY <1>1, <2>2, <3>1
    <3> QED  BY <1>9, <3>1, <3>2 DEF Range
  <2> QED  BY <1>9, <2>1, <2>3 DEF Range
<1>12. RemoveAt(s, i) = r
  BY DEF RemoveAt, r, a, b
<1> QED  BY <1>6, <1>9, <1>10, <1>11, <1>12

\* A new node at the front of a list.
LEMMA LinkFirst ==
  ASSUME NEW S, NEW s \in Seq(S), NEW e \in S
  PROVE  /\ <<e>> \o s \in Seq(S)
         /\ Len(<<e>> \o s) = Len(s) + 1
         /\ Range(<<e>> \o s) = Range(s) \cup {e}
         /\ IsInjective(s) /\ e \notin Range(s) => IsInjective(<<e>> \o s)
<1> DEFINE r == <<e>> \o s
<1>1. Len(s) \in Nat /\ DOMAIN s = 1 .. Len(s)
  BY LenProperties
<1>2. /\ r \in Seq(S) /\ Len(r) = Len(s) + 1 /\ r[1] = e
      /\ \A j \in 1 .. Len(s) : r[j + 1] = s[j]
  BY <1>1
<1>3. DOMAIN r = 1 .. Len(s) + 1
  BY <1>2, LenProperties
<1> HIDE DEF r
<1>4. \A j \in 1 .. Len(s) + 1 : j # 1 => j - 1 \in 1 .. Len(s) /\ r[j] = s[j - 1]
  BY <1>1, <1>2
<1>5. Range(r) = Range(s) \cup {e}
  <2>1. \A j \in 1 .. Len(s) : s[j] \in Range(r)
    BY <1>1, <1>2, <1>3 DEF Range
  <2>2. 1 \in DOMAIN r
    BY <1>1, <1>3
  <2>3. \A j \in DOMAIN r : r[j] \in Range(s) \cup {e}
    BY <1>1, <1>2, <1>3, <1>4 DEF Range
  <2>4. Range(r) \subseteq Range(s) \cup {e}
    <3> SUFFICES ASSUME NEW x \in Range(r)
                 PROVE  x \in Range(s) \cup {e}
      OBVIOUS
    <3>1. PICK j \in DOMAIN r : x = r[j]
      BY DEF Range
    <3> QED  BY <2>3, <3>1
  <2>5. Range(s) \subseteq Range(r)
    <3> SUFFICES ASSUME NEW x \in Range(s)
                 PROVE  x \in Range(r)
      OBVIOUS
    <3>1. PICK j \in DOMAIN s : x = s[j]
      BY DEF Range
    <3> QED  BY <1>1, <2>1, <3>1
  <2>6. e \in Range(r)
    BY <1>2, <2>2 DEF Range
  <2> QED  BY <2>4, <2>5, <2>6
<1>6. ASSUME IsInjective(s), e \notin Range(s)
      PROVE  IsInjective(r)
  <2> SUFFICES ASSUME NEW j \in 1 .. Len(s) + 1, NEW k \in 1 .. Len(s) + 1, r[j] = r[k]
               PROVE  j = k
    BY <1>3 DEF IsInjective
  <2>1. \A m, n \in 1 .. Len(s) : s[m] = s[n] => m = n
    BY <1>1, <1>6 DEF IsInjective
  <2>2. \A m \in 1 .. Len(s) : s[m] # e
    BY <1>1, <1>6 DEF Range
  <2> QED  BY <1>1, <1>2, <1>4, <2>1, <2>2
<1> QED  BY <1>2, <1>5, <1>6 DEF r

\* A list is empty exactly when it has no elements.
LEMMA EmptyList ==
  ASSUME NEW S, NEW s \in Seq(S)
  PROVE  /\ Range(s) \subseteq S
         /\ s = << >> <=> Range(s) = {}
<1>1. Len(s) \in Nat /\ DOMAIN s = 1 .. Len(s)
  BY LenProperties
<1>2. s = << >> => Range(s) = {}
  BY DEF Range
<1>3. s # << >> => s[1] \in Range(s)
  BY <1>1, EmptySeq DEF Range
<1> QED  BY <1>2, <1>3 DEF Range

\* A list without duplicates is as long as it has elements.
LEMMA LenIsCount ==
  ASSUME NEW S, NEW s \in Seq(S), IsInjective(s)
  PROVE  IsFiniteSet(Range(s)) /\ Cardinality(Range(s)) = Len(s)
<1>1. Len(s) \in Nat /\ DOMAIN s = 1 .. Len(s)
  BY LenProperties
<1>2. s \in Bijection(1 .. Len(s), Range(s))
  BY <1>1 DEF Bijection, Injection, Surjection, IsInjective, Range
<1>3. ExistsBijection(1 .. Len(s), Range(s))
  BY <1>2 DEF ExistsBijection
<1>4. IsFiniteSet(1 .. Len(s)) /\ Cardinality(1 .. Len(s)) = Len(s)
  BY <1>1, FS_Interval
<1> QED  BY <1>3, <1>4, FS_Bijection

\* Two lists joined that have nothing in common.
LEMMA JoinLists ==
  ASSUME NEW S, NEW s \in Seq(S), NEW u \in Seq(S)
  PROVE  /\ s \o u \in Seq(S) /\ Len(s \o u) = Len(s) + Len(u)
         /\ Range(s \o u) = Range(s) \cup Range(u)
         /\ IsInjective(s) /\ IsInjective(u) /\ Range(s) \cap Range(u) = {} => IsInjective(s \o u)
<1> DEFINE r == s \o u
<1>1. Len(s) \in Nat /\ DOMAIN s = 1 .. Len(s) /\ Len(u) \in Nat /\ DOMAIN u = 1 .. Len(u)
  BY LenProperties
<1>2. /\ r \in Seq(S) /\ Len(r) = Len(s) + Len(u)
      /\ \A i \in 1 .. Len(s) + Len(u) : r[i] = IF i <= Len(s) THEN s[i] ELSE u[i - Len(s)]
  BY ConcatProperties
<1>3. DOMAIN r = 1 .. Len(s) + Len(u)
  BY <1>2, LenProperties
<1> HIDE DEF r
<1>4. \A i \in 1 .. Len(s) : i \in 1 .. Len(s) + Len(u) /\ r[i] = s[i]
  BY <1>1, <1>2
<1>5. \A i \in 1 .. Len(u) : i + Len(s) \in 1 .. Len(s) + Len(u) /\ r[i + Len(s)] = u[i]
  <2> TAKE i \in 1 .. Len(u)
  <2> DEFINE j == i + Len(s)
  <2>1. j \in 1 .. Len(s) + Len(u) /\ ~(j <= Len(s)) /\ j - Len(s) = i
    BY <1>1
  <2> HIDE DEF j
  <2>2. r[j] = u[j - Len(s)]
    BY <1>2, <2>1
  <2> QED  BY <2>1, <2>2 DEF j
<1>6. \A i \in 1 .. Len(s) + Len(u) : i \notin 1 .. Len(s) =>
         i - Len(s) \in 1 .. Len(u) /\ r[i] = u[i - Len(s)]
  BY <1>1, <1>2
<1>7. Range(r) = Range(s) \cup Range(u)
  <2>1. ASSUME NEW x \in Range(r)
        PROVE  x \in Range(s) \cup Range(u)
    <3>1. PICK i \in 1 .. Len(s) + Len(u) : x = r[i]
      BY <1>3, <2>1 DEF Range
    <3> QED  BY <1>1, <1>4, <1>6, <3>1 DEF Range
  <2>2. ASSUME NEW x \in Range(s)
        PROVE  x \in Range(r)
    BY <1>1, <1>3, <1>4 DEF Range
  <2>3. ASSUME NEW x \in Range(u)
        PROVE  x \in Range(r)
    BY <1>1, <1>3, <1>5 DEF Range
  <2> QED  BY <2>1, <2>2, <2>3
<1>8. ASSUME IsInjective(s), IsInjective(u), Range(s) \cap Range(u) = {}
      PROVE  IsInjective(r)
  <2>1. \A m, n \in 1 .. Len(s) : s[m] = s[n] => m = n
    BY <1>1, <1>8 DEF IsInjective
  <2>2. \A m, n \in 1 .. Len(u) : u[m] = u[n] => m = n
    BY <1>1, <1>8 DEF IsInjective
  <2>3. \A m \in 1 .. Len(s), n \in 1 .. Len(u) : s[m] # u[n]
    BY <1>1, <1>8 DEF Range
  <2> SUFFICES ASSUME NEW i \in 1 .. Len(s) + Len(u), NEW j \in 1 .. Len(s) + Len(u), r[i] = r[j]
               PROVE  i = j
    BY <1>3 DEF IsInjective
  <2>4. CASE i \in 1 .. Len(s) /\ j \in 1 .. Len(s)
    BY <1>4, <2>1, <2>4
  <2>5. CASE i \in 1 .. Len(s) /\ j \notin 1 .. Len(s)
    BY <1>4, <1>6, <2>3, <2>5
  <2>6. CASE i \notin 1 .. Len(s) /\ j \in 1 .. Len(s)
    BY <1>4, <1>6, <2>3, <2>6
  <2>7. CASE i \notin 1 .. Len(s) /\ j \notin 1 .. Len(s)
    <3>1. i - Len(s) = j - Len(s)
      BY <1>6, <2>2, <2>7
    <3> QED  BY <1>1, <3>1
  <2> QED  BY <2>4, <2>5, <2>6, <2>7
<1> QED  BY <1>2, <1>7, <1>8 DEF r

\* The first element of a list, and the rest of it.
LEMMA SplitList ==
  ASSUME NEW S, NEW s \in Seq(S), s # << >>
  PROVE  /\ Head(s) \in S /\ Tail(s) \in Seq(S) /\ Len(Tail(s)) = Len(s) - 1
         /\ Range(s) = Range(Tail(s)) \cup {Head(s)}
         /\ IsInjective(s) => IsInjective(Tail(s)) /\ Head(s) \notin Range(Tail(s))
<1> DEFINE t == Tail(s)
<1>1. Len(s) \in Nat \ {0} /\ DOMAIN s = 1 .. Len(s)
  BY LenProperties, EmptySeq
<1>2. /\ Head(s) = s[1] /\ t \in Seq(S) /\ Len(t) = Len(s) - 1
      /\ \A i \in 1 .. Len(s) - 1 : t[i] = s[i + 1]
  BY <1>1, HeadTailProperties
<1>3. DOMAIN t = 1 .. Len(s) - 1
  BY <1>2, LenProperties
<1> HIDE DEF t
<1>4. \A i \in 1 .. Len(s) : i = 1 \/ (i - 1 \in 1 .. Len(s) - 1 /\ s[i] = t[i - 1])
  BY <1>1, <1>2
<1>5. \A i \in 1 .. Len(s) - 1 : i + 1 \in 1 .. Len(s) /\ i + 1 # 1 /\ t[i] = s[i + 1]
  BY <1>1, <1>2
<1>6. Head(s) \in S /\ 1 \in DOMAIN s
  BY <1>1, <1>2
<1>7. Range(s) = Range(t) \cup {Head(s)}
  <2>1. \A i \in DOMAIN s : s[i] \in Range(t) \cup {Head(s)}
    BY <1>1, <1>2, <1>3, <1>4 DEF Range
  <2>2. \A i \in DOMAIN t : t[i] \in Range(s)
    BY <1>1, <1>3, <1>5 DEF Range
  <2> QED  BY <1>2, <1>6, <2>1, <2>2, ZenonT(30) DEF Range
<1>8. ASSUME IsInjective(s)
      PROVE  IsInjective(t) /\ Head(s) \notin Range(t)
  <2>1. \A m, n \in 1 .. Len(s) : s[m] = s[n] => m = n
    BY <1>1, <1>8 DEF IsInjective
  <2>2. \A i, j \in DOMAIN t : t[i] = t[j] => i = j
    BY <1>1, <1>3, <1>5, <2>1
  <2>3. \A i \in DOMAIN t : t[i] # s[1]
    BY <1>1, <1>3, <1>5, <1>6, <2>1
  <2> QED  BY <1>2, <2>2, <2>3 DEF IsInjective, Range
<1> QED  BY <1>2, <1>6, <1>7, <1>8 DEF t

\* A list with one more element at its end.
LEMMA AppendList ==
  ASSUME NEW S, NEW s \in Seq(S), NEW e \in S
  PROVE  /\ Append(s, e) \in Seq(S) /\ Len(Append(s, e)) = Len(s) + 1
         /\ Range(Append(s, e)) = Range(s) \cup {e}
         /\ IsInjective(s) /\ e \notin Range(s) => IsInjective(Append(s, e))
<1> DEFINE one == <<e>>
<1>1. one \in Seq(S) /\ Len(one) = 1 /\ Range(one) = {e} /\ IsInjective(one)
  BY DEF Range, IsInjective
<1>2. Append(s, e) = s \o one
  OBVIOUS
<1> HIDE DEF one
<1>3. /\ s \o one \in Seq(S) /\ Len(s \o one) = Len(s) + Len(one)
      /\ Range(s \o one) = Range(s) \cup Range(one)
      /\ IsInjective(s) /\ IsInjective(one) /\ Range(s) \cap Range(one) = {} => IsInjective(s \o one)
  BY <1>1, JoinLists
<1> QED  BY <1>1, <1>2, <1>3

\* The lists of several patterns, one after the other: if none has duplicates
\* or shares an element with another, the result has none either.
LEMMA FlattenExists ==
  ASSUME NEW S, NEW ss \in Seq(S), Len(ss) # 0
  PROVE  \E g : g = [i \in 1 .. Len(ss) |-> IF i = 1 THEN ss[i] ELSE g[i - 1] \o ss[i]]
<1> DEFINE Walk(n, g) == /\ g = [i \in 1 .. n |-> g[i]]
                         /\ \A i \in 1 .. n : g[i] = IF i = 1 THEN ss[i] ELSE g[i - 1] \o ss[i]
           bad == {n \in 0 .. Len(ss) : ~\E g : Walk(n, g)}
<1>1. Len(ss) \in Nat
  BY LenProperties
<1>2. bad = {}
  <2> SUFFICES ASSUME bad # {}
               PROVE  FALSE
    OBVIOUS
  <2>1. bad \subseteq Nat
    BY <1>1
  <2>2. PICK n \in bad : \A m \in bad : n <= m
    <3> HIDE DEF bad
    <3> QED  BY <2>1, LeastNatural
  <2>3. n \in 0 .. Len(ss) /\ n \in Nat
    BY <1>1
  <2>4. CASE n = 0
    <3> DEFINE g == [i \in 1 .. 0 |-> ss[i]]
    <3>1. Walk(0, g)
      OBVIOUS
    <3> QED  BY <2>2, <2>4, <3>1
  <2>5. CASE n # 0
    <3>1. n - 1 \in 0 .. Len(ss) /\ n - 1 \notin bad
      <4>1. n - 1 \in 0 .. Len(ss) /\ ~(n <= n - 1)
        BY <1>1, <2>3, <2>5
      <4> HIDE DEF bad
      <4> QED  BY <2>2, <4>1
    <3>2. PICK g : Walk(n - 1, g)
      BY <3>1
    <3> DEFINE last == IF n = 1 THEN ss[n] ELSE g[n - 1] \o ss[n]
               h == [i \in 1 .. n |-> IF i = n THEN last ELSE g[i]]
    <3>3. h = [i \in 1 .. n |-> h[i]]
      OBVIOUS
    <3>4. \A i \in 1 .. n : h[i] = IF i = 1 THEN ss[i] ELSE h[i - 1] \o ss[i]
      <4> TAKE i \in 1 .. n
      <4>1. i # 1 => i - 1 \in 1 .. n /\ i - 1 # n
        BY <2>3, <2>5
      <4>2. i # 1 => h[i - 1] = g[i - 1]
        BY <4>1
      <4>3. CASE i = n
        <5>1. h[i] = last
          BY <4>3
        <5> QED  BY <4>2, <4>3, <5>1
      <4>4. CASE i # n
        <5>1. i \in 1 .. n - 1 /\ h[i] = g[i]
          BY <2>3, <4>4
        <5> QED  BY <3>2, <4>2, <5>1
      <4> QED  BY <4>3, <4>4
    <3>5. Walk(n, h)
      <4> HIDE DEF h
      <4> QED  BY <3>3, <3>4
    <3> QED  BY <2>2, <3>5
  <2> QED  BY <2>4, <2>5
<1>3. PICK g : Walk(Len(ss), g)
  BY <1>1, <1>2
<1>4. g = [i \in 1 .. Len(ss) |-> g[i]]
      /\ \A i \in 1 .. Len(ss) : g[i] = IF i = 1 THEN ss[i] ELSE g[i - 1] \o ss[i]
  BY <1>3
<1> HIDE DEF Walk
<1> QED  BY <1>4

\* One more set in a union.
LEMMA UnionAdd ==
  ASSUME NEW A, NEW b
  PROVE  UNION (A \cup {b}) = (UNION A) \cup b
<1>1. ASSUME NEW x \in UNION (A \cup {b})
      PROVE  x \in (UNION A) \cup b
  <2>1. PICK y \in A \cup {b} : x \in y
    BY Zenon
  <2>2. y \in A => x \in UNION A
    BY <2>1, Zenon
  <2>3. y \in A \/ y = b
    OBVIOUS
  <2> QED  BY <2>1, <2>2, <2>3
<1>2. ASSUME NEW x \in (UNION A) \cup b
      PROVE  x \in UNION (A \cup {b})
  <2>1. CASE x \in b
    <3>1. b \in A \cup {b}
      OBVIOUS
    <3> QED  BY <2>1, <3>1, Zenon
  <2>2. CASE x \in UNION A
    <3>1. PICK y \in A : x \in y
      BY <2>2, Zenon
    <3>2. y \in A \cup {b}
      OBVIOUS
    <3> QED  BY <3>1, <3>2, Zenon
  <2> QED  BY <2>1, <2>2
<1> QED  BY <1>1, <1>2

\* FlattenSeq of lists that share nothing: all their elements, each once.
LEMMA FlattenFacts ==
  ASSUME NEW S, NEW ss \in Seq(Seq(S)),
         \A i \in 1 .. Len(ss) : IsInjective(ss[i]),
         \A i, j \in 1 .. Len(ss) : i # j => Range(ss[i]) \cap Range(ss[j]) = {}
  PROVE  /\ FlattenSeq(ss) \in Seq(S) /\ IsInjective(FlattenSeq(ss))
         /\ Range(FlattenSeq(ss)) = UNION {Range(ss[i]) : i \in 1 .. Len(ss)}
<1>1. Len(ss) \in Nat /\ DOMAIN ss = 1 .. Len(ss) /\ \A i \in 1 .. Len(ss) : ss[i] \in Seq(S)
  BY LenProperties
<1>2. CASE Len(ss) = 0
  <2>1. ss = << >>
    BY <1>2, EmptySeq
  <2>2. FlattenSeq(ss) = ss
    BY <1>2 DEF FlattenSeq
  <2>3. << >> \in Seq(S) /\ IsInjective(<< >>) /\ Range(<< >>) = {}
    BY DEF Range, IsInjective
  <2>4. UNION {Range(ss[i]) : i \in 1 .. Len(ss)} = {}
    BY <1>2
  <2> QED  BY <2>1, <2>2, <2>3, <2>4
<1>3. CASE Len(ss) # 0
  <2> DEFINE f == CHOOSE g : g = [i \in 1 .. Len(ss) |-> IF i = 1 THEN ss[i] ELSE g[i - 1] \o ss[i]]
             Good(n) == /\ f[n] \in Seq(S) /\ IsInjective(f[n])
                        /\ Range(f[n]) = UNION {Range(ss[i]) : i \in 1 .. n}
             bad == {n \in 1 .. Len(ss) : ~Good(n)}
  <2>1. f = [i \in 1 .. Len(ss) |-> IF i = 1 THEN ss[i] ELSE f[i - 1] \o ss[i]]
    BY <1>3, FlattenExists
  <2>2. FlattenSeq(ss) = f[Len(ss)]
    BY <1>3 DEF FlattenSeq, f
  <2> HIDE DEF f
  <2>3. \A i \in 1 .. Len(ss) : f[i] = IF i = 1 THEN ss[i] ELSE f[i - 1] \o ss[i]
    BY <2>1
  <2>4. bad = {}
    <3> SUFFICES ASSUME bad # {}
                 PROVE  FALSE
      OBVIOUS
    <3>1. bad \subseteq Nat
      BY <1>1
    <3>2. PICK n \in bad : \A m \in bad : n <= m
      <4> HIDE DEF bad
      <4> QED  BY <3>1, LeastNatural
    <3>3. n \in 1 .. Len(ss) /\ n \in Nat
      BY <1>1
    <3>4. CASE n = 1
      <4>1. f[1] = ss[1] /\ ss[1] \in Seq(S) /\ IsInjective(ss[1])
        BY <1>1, <2>3, <3>3, <3>4
      <4>2. UNION {Range(ss[i]) : i \in 1 .. 1} = Range(ss[1])
        <5>1. 1 .. 1 = {1}
          OBVIOUS
        <5> QED  BY <5>1
      <4>3. Good(1)
        BY <4>1, <4>2
      <4> QED  BY <3>2, <3>4, <4>3
    <3>5. CASE n # 1
      <4>1. n - 1 \in 1 .. Len(ss) /\ n - 1 \notin bad
        <5>1. n - 1 \in 1 .. Len(ss) /\ ~(n <= n - 1)
          BY <1>1, <3>3, <3>5
        <5> HIDE DEF bad
        <5> QED  BY <3>2, <5>1
      <4>2. Good(n - 1)
        BY <4>1
      <4>3. f[n] = f[n - 1] \o ss[n] /\ ss[n] \in Seq(S) /\ IsInjective(ss[n])
        BY <1>1, <2>3, <3>3, <3>5
      <4>4. Range(f[n - 1]) \cap Range(ss[n]) = {}
        <5>1. \A i \in 1 .. n - 1 : i \in 1 .. Len(ss) /\ i # n
          BY <1>1, <3>3
        <5>2. \A i \in 1 .. n - 1 : Range(ss[i]) \cap Range(ss[n]) = {}
          BY <3>3, <5>1
        <5> QED  BY <4>2, <5>2
      <4>5. UNION {Range(ss[i]) : i \in 1 .. n} =
              (UNION {Range(ss[i]) : i \in 1 .. n - 1}) \cup Range(ss[n])
        <5>1. 1 .. n = (1 .. n - 1) \cup {n}
          BY <3>3, <3>5
        <5> DEFINE R(i) == Range(ss[i])
        <5>2. UNION {R(i) : i \in (1 .. n - 1) \cup {n}} = (UNION {R(i) : i \in 1 .. n - 1}) \cup R(n)
          <6> HIDE DEF R
          <6> DEFINE I == 1 .. n - 1
                     A == {R(i) : i \in I}
          <6>1. {R(i) : i \in I \cup {n}} = A \cup {R(n)}
            <7> HIDE DEF I
            <7> QED  BY SMT
          <6> HIDE DEF A, I
          <6>2. UNION (A \cup {R(n)}) = (UNION A) \cup R(n)
            BY UnionAdd
          <6> QED  BY <6>1, <6>2 DEF A, I
        <5> QED  BY <5>1, <5>2
      <4>6. /\ f[n - 1] \o ss[n] \in Seq(S) /\ IsInjective(f[n - 1] \o ss[n])
            /\ Range(f[n - 1] \o ss[n]) = Range(f[n - 1]) \cup Range(ss[n])
        <5>1. f[n - 1] \in Seq(S) /\ IsInjective(f[n - 1])
          BY <4>2
        <5> HIDE DEF Good, bad
        <5> QED  BY <4>3, <4>4, <5>1, JoinLists
      <4>7. Good(n)
        <5>1. Range(f[n - 1]) = UNION {Range(ss[i]) : i \in 1 .. n - 1}
          BY <4>2
        <5>2. Range(f[n]) = UNION {Range(ss[i]) : i \in 1 .. n}
          BY <4>3, <4>5, <4>6, <5>1
        <5>3. f[n] \in Seq(S) /\ IsInjective(f[n])
          BY <4>3, <4>6
        <5> QED  BY <5>2, <5>3
      <4> QED  BY <3>2, <4>7
    <3> QED  BY <3>4, <3>5
  <2>5. Good(Len(ss))
    <3>1. Len(ss) \in 1 .. Len(ss)
      BY <1>1, <1>3
    <3> HIDE DEF Good
    <3> QED  BY <2>4, <3>1
  <2> QED  BY <2>2, <2>5
<1> QED  BY <1>2, <1>3

\* What occurs in a list without duplicates is there once.
LEMMA OccursOnce ==
  ASSUME NEW S, NEW s \in Seq(S), IsInjective(s), NEW x
  PROVE  Cardinality({i \in DOMAIN s : s[i] = x}) = IF x \in Range(s) THEN 1 ELSE 0
<1>1. CASE x \in Range(s)
  <2>1. PICK k \in DOMAIN s : s[k] = x
    BY <1>1 DEF Range
  <2>2. {i \in DOMAIN s : s[i] = x} = {k}
    BY <2>1 DEF IsInjective
  <2> QED  BY <1>1, <2>2, FS_Singleton
<1>2. CASE x \notin Range(s)
  <2>1. {i \in DOMAIN s : s[i] = x} = {}
    BY <1>2 DEF Range
  <2> QED  BY <1>2, <2>1, FS_EmptySet
<1> QED  BY <1>1, <1>2

\* An element of a list is at one of its positions.
LEMMA ContainsIsRange ==
  ASSUME NEW S, NEW s \in Seq(S), NEW x
  PROVE  Contains(s, x) <=> x \in Range(s)
  BY DEF Contains, Range

-----------------------------------------------------------------------------
(* Sums over finite sets, as SumFunctionOnSet defines them: one element that *)
(* is chosen, and the sum over the others.                                   *)

Chosen(s) == CHOOSE x \in s : TRUE
SumRule(f, S, g) ==
  g = [s \in SUBSET S |-> IF s = {} THEN 0 ELSE f[Chosen(s)] + g[s \ {Chosen(s)}]]

LEMMA SumIsRule ==
  ASSUME NEW f, NEW S
  PROVE  SumFunctionOnSet(f, S) = (CHOOSE g : SumRule(f, S, g))[S]
  BY Zenon DEF SumFunctionOnSet, FoldFunctionOnSet, MapThenFoldSet, SumRule, Chosen

\* Taking out the element that is chosen makes a set smaller.
LEMMA LessChosen ==
  ASSUME NEW s, IsFiniteSet(s), s # {}
  PROVE  /\ Chosen(s) \in s /\ IsFiniteSet(s \ {Chosen(s)})
         /\ Cardinality(s) \in Nat \ {0} /\ Cardinality(s \ {Chosen(s)}) = Cardinality(s) - 1
<1>1. Chosen(s) \in s
  BY DEF Chosen
<1> QED  BY <1>1, FS_RemoveElement, FS_EmptySet, FS_CardinalityType

\* There is a function that follows the rule.
LEMMA SumRuleExists ==
  ASSUME NEW f, NEW S, IsFiniteSet(S)
  PROVE  \E g : SumRule(f, S, g)
<1> DEFINE D(n) == {s \in SUBSET S : Cardinality(s) <= n}
           Rule(g, s) == IF s = {} THEN 0 ELSE f[Chosen(s)] + g[s \ {Chosen(s)}]
           Walk(n, g) == g = [s \in D(n) |-> g[s]] /\ \A s \in D(n) : g[s] = Rule(g, s)
           bad == {n \in Nat : ~\E g : Walk(n, g)}
<1>0. \A s \in SUBSET S : IsFiniteSet(s) /\ Cardinality(s) \in Nat /\ Cardinality(s) <= Cardinality(S)
  BY FS_Subset, FS_CardinalityType
<1>1. \A s \in SUBSET S : s # {} => Chosen(s) \in s /\ s \ {Chosen(s)} \in SUBSET S
                                    /\ Cardinality(s \ {Chosen(s)}) = Cardinality(s) - 1
  BY <1>0, LessChosen
<1>2. bad = {}
  <2> SUFFICES ASSUME bad # {}
               PROVE  FALSE
    OBVIOUS
  <2>1. bad \subseteq Nat
    OBVIOUS
  <2>2. PICK n \in bad : \A m \in bad : n <= m
    <3> HIDE DEF bad
    <3> QED  BY <2>1, LeastNatural
  <2>3. n \in Nat
    BY <2>1
  <2>4. CASE n = 0
    <3> DEFINE g == [s \in D(0) |-> 0]
    <3>1. \A s \in D(0) : s = {}
      <4> SUFFICES ASSUME NEW s \in D(0), s # {}
                   PROVE  FALSE
        OBVIOUS
      <4>1. Cardinality(s) \in Nat \ {0} /\ Cardinality(s) <= 0
        BY <1>0, LessChosen
      <4> QED  BY <4>1
    <3>2. Walk(0, g)
      <4>1. g = [s \in D(0) |-> g[s]]
        BY Zenon
      <4>2. \A s \in D(0) : g[s] = Rule(g, s)
        BY <3>1, Zenon
      <4> QED  BY <4>1, <4>2
    <3> QED  BY <2>2, <2>4, <3>2
  <2>5. CASE n # 0
    <3>1. n - 1 \in Nat /\ n - 1 \notin bad
      <4>1. n - 1 \in Nat /\ ~(n <= n - 1)
        BY <2>3, <2>5
      <4> HIDE DEF bad
      <4> QED  BY <2>2, <4>1
    <3>2. PICK g : Walk(n - 1, g)
      BY <3>1
    <3> DEFINE h == [s \in D(n) |-> IF s \in D(n - 1) THEN g[s] ELSE Rule(g, s)]
    <3>3. h = [s \in D(n) |-> h[s]]
      BY Zenon
    <3>4. \A s \in D(n) : h[s] = Rule(g, s)
      BY <3>2, Zenon
    <3>5. \A s \in D(n) : s # {} => s \ {Chosen(s)} \in D(n - 1) /\ s \ {Chosen(s)} \in D(n)
      BY <1>0, <1>1, <2>3
    <3>6. \A s \in D(n) : s # {} => h[s \ {Chosen(s)}] = g[s \ {Chosen(s)}]
      BY <3>5, Zenon
    <3>7. Walk(n, h)
      <4> HIDE DEF h, D
      <4> QED  BY <3>3, <3>4, <3>6
    <3> QED  BY <2>2, <3>7
  <2> QED  BY <2>4, <2>5
<1>3. Cardinality(S) \in Nat /\ D(Cardinality(S)) = SUBSET S
  BY <1>0, FS_CardinalityType
<1>4. PICK g : Walk(Cardinality(S), g)
  <2> HIDE DEF Walk
  <2> QED  BY <1>2, <1>3
<1>5. g = [s \in SUBSET S |-> g[s]] /\ \A s \in SUBSET S : g[s] = Rule(g, s)
  <2> HIDE DEF D
  <2> QED  BY <1>3, <1>4, Zenon
<1>6. SumRule(f, S, g)
  BY <1>5 DEF SumRule
<1> QED  BY <1>6

\* Two that follow it, over sets of which one is in the other, agree.
LEMMA SumRuleAgrees ==
  ASSUME NEW f, NEW S, IsFiniteSet(S), NEW T \in SUBSET S, NEW g, NEW h,
         SumRule(f, S, g), SumRule(f, T, h)
  PROVE  \A s \in SUBSET T : g[s] = h[s]
<1> DEFINE bad == {n \in Nat : \E s \in SUBSET T : Cardinality(s) = n /\ g[s] # h[s]}
<1>0. \A s \in SUBSET T : s \in SUBSET S /\ IsFiniteSet(s) /\ Cardinality(s) \in Nat
  BY FS_Subset, FS_CardinalityType
<1>1. \A s \in SUBSET T : /\ g[s] = IF s = {} THEN 0 ELSE f[Chosen(s)] + g[s \ {Chosen(s)}]
                          /\ h[s] = IF s = {} THEN 0 ELSE f[Chosen(s)] + h[s \ {Chosen(s)}]
  BY <1>0 DEF SumRule
<1>2. bad = {}
  <2> SUFFICES ASSUME bad # {}
               PROVE  FALSE
    OBVIOUS
  <2>1. bad \subseteq Nat
    OBVIOUS
  <2>2. PICK n \in bad : \A m \in bad : n <= m
    <3> HIDE DEF bad
    <3> QED  BY <2>1, LeastNatural
  <2>3. PICK s \in SUBSET T : Cardinality(s) = n /\ g[s] # h[s]
    OBVIOUS
  <2>4. s # {}
    BY <1>1, <2>3
  <2> DEFINE r == s \ {Chosen(s)}
  <2>5. r \in SUBSET T /\ Cardinality(r) = n - 1 /\ n \in Nat \ {0}
    BY <1>0, <2>3, <2>4, LessChosen
  <2>6. n - 1 \notin bad /\ n - 1 \in Nat
    <3>1. n - 1 \in Nat /\ ~(n <= n - 1)
      BY <2>5
    <3> HIDE DEF bad
    <3> QED  BY <2>2, <3>1
  <2>7. g[r] = h[r]
    <3> HIDE DEF r
    <3> QED  BY <2>5, <2>6
  <2> QED  BY <1>1, <2>3, <2>4, <2>7
<1> QED  BY <1>0, <1>2

LEMMA SumUnfolds ==
  ASSUME NEW f, NEW S, IsFiniteSet(S)
  PROVE  SumFunctionOnSet(f, S) = IF S = {} THEN 0
                                  ELSE f[Chosen(S)] + SumFunctionOnSet(f, S \ {Chosen(S)})
<1> DEFINE g == CHOOSE x : SumRule(f, S, x)
           T == S \ {Chosen(S)}
           h == CHOOSE x : SumRule(f, T, x)
<1>1. SumRule(f, S, g)
  BY SumRuleExists
<1>2. IsFiniteSet(T) /\ T \in SUBSET S
  BY FS_Subset
<1>3. SumRule(f, T, h)
  <2> HIDE DEF T
  <2> QED  BY <1>2, SumRuleExists
<1>4. SumFunctionOnSet(f, S) = g[S] /\ SumFunctionOnSet(f, T) = h[T]
  BY SumIsRule
<1> HIDE DEF g, h
<1>5. g[S] = IF S = {} THEN 0 ELSE f[Chosen(S)] + g[T]
  BY <1>1 DEF SumRule
<1>6. g[T] = h[T]
  <2> HIDE DEF T
  <2> QED  BY <1>1, <1>2, <1>3, SumRuleAgrees
<1> QED  BY <1>4, <1>5, <1>6

LEMMA SumEmpty ==
  ASSUME NEW f
  PROVE  SumFunctionOnSet(f, {}) = 0
  BY SumUnfolds, FS_EmptySet

\* A sum of integers is one, and of natural numbers too.
LEMMA SumType ==
  ASSUME NEW f, NEW S, IsFiniteSet(S), \A x \in S : f[x] \in Int
  PROVE  /\ SumFunctionOnSet(f, S) \in Int
         /\ (\A x \in S : f[x] >= 0) => SumFunctionOnSet(f, S) >= 0
<1> DEFINE P(s) == /\ SumFunctionOnSet(f, s) \in Int
                   /\ (\A x \in S : f[x] >= 0) => SumFunctionOnSet(f, s) >= 0
           bad == {n \in Nat : \E s \in SUBSET S : Cardinality(s) = n /\ ~P(s)}
<1>0. \A s \in SUBSET S : IsFiniteSet(s) /\ Cardinality(s) \in Nat
  BY FS_Subset, FS_CardinalityType
<1>2. bad = {}
  <2> SUFFICES ASSUME bad # {}
               PROVE  FALSE
    OBVIOUS
  <2>1. bad \subseteq Nat
    OBVIOUS
  <2>2. PICK n \in bad : \A m \in bad : n <= m
    <3> HIDE DEF bad
    <3> QED  BY <2>1, LeastNatural
  <2>3. PICK s \in SUBSET S : Cardinality(s) = n /\ ~P(s)
    OBVIOUS
  <2>4. s # {}
    BY <2>3, SumEmpty
  <2> DEFINE c == Chosen(s)
             r == s \ {c}
  <2>5. r \in SUBSET S /\ Cardinality(r) = n - 1 /\ n \in Nat \ {0} /\ c \in S
    BY <1>0, <2>3, <2>4, LessChosen
  <2>6. n - 1 \notin bad /\ n - 1 \in Nat
    <3>1. n - 1 \in Nat /\ ~(n <= n - 1)
      BY <2>5
    <3> HIDE DEF bad
    <3> QED  BY <2>2, <3>1
  <2>7. P(r)
    <3> HIDE DEF r, P
    <3> QED  BY <2>5, <2>6
  <2>8. SumFunctionOnSet(f, s) = f[c] + SumFunctionOnSet(f, r)
    BY <1>0, <2>4, SumUnfolds
  <2> HIDE DEF c, r
  <2> QED  BY <2>3, <2>5, <2>7, <2>8
<1> QED  BY <1>0, <1>2

\* Any element may be taken out first.
LEMMA SumRemove ==
  ASSUME NEW f, NEW S, IsFiniteSet(S), \A x \in S : f[x] \in Int, NEW x \in S
  PROVE  SumFunctionOnSet(f, S) = f[x] + SumFunctionOnSet(f, S \ {x})
<1> DEFINE Sum(s) == SumFunctionOnSet(f, s)
           P(s) == \A y \in s : Sum(s) = f[y] + Sum(s \ {y})
           bad == {n \in Nat : \E s \in SUBSET S : Cardinality(s) = n /\ ~P(s)}
<1>0. \A s \in SUBSET S : IsFiniteSet(s) /\ Cardinality(s) \in Nat
  BY FS_Subset, FS_CardinalityType
<1>1. \A s \in SUBSET S : Sum(s) \in Int
  BY <1>0, SumType
<1>2. \A s \in SUBSET S : s # {} => Sum(s) = f[Chosen(s)] + Sum(s \ {Chosen(s)})
  BY <1>0, SumUnfolds
<1> HIDE DEF Sum
<1>3. bad = {}
  <2> SUFFICES ASSUME bad # {}
               PROVE  FALSE
    OBVIOUS
  <2>1. bad \subseteq Nat
    OBVIOUS
  <2>2. PICK n \in bad : \A m \in bad : n <= m
    <3> HIDE DEF bad
    <3> QED  BY <2>1, LeastNatural
  <2>3. PICK s \in SUBSET S : Cardinality(s) = n /\ ~P(s)
    OBVIOUS
  <2>4. PICK y \in s : Sum(s) # f[y] + Sum(s \ {y})
    BY <2>3
  <2> DEFINE c == Chosen(s)
             r == s \ {c}
             q == s \ {y}
             rest == (s \ {c}) \ {y}
  <2>5. /\ IsFiniteSet(s) /\ s # {} /\ c \in s /\ n \in Nat \ {0}
        /\ Cardinality(r) = n - 1 /\ Cardinality(q) = n - 1
    BY <1>0, <2>3, LessChosen, FS_RemoveElement
  <2>6. c # y
    BY <1>2, <2>4, <2>5
  <2>7. r \in SUBSET S /\ q \in SUBSET S /\ rest \in SUBSET S /\ y \in r /\ c \in q
        /\ r \ {y} = rest /\ q \ {c} = rest
    BY <2>5, <2>6
  <2>8. n - 1 \notin bad /\ n - 1 \in Nat
    <3>1. n - 1 \in Nat /\ ~(n <= n - 1)
      BY <2>5
    <3> HIDE DEF bad
    <3> QED  BY <2>2, <3>1
  <2>9. P(r) /\ P(q)
    <3> HIDE DEF r, q, P
    <3> QED  BY <2>5, <2>7, <2>8
  <2>10. Sum(r) = f[y] + Sum(rest) /\ Sum(q) = f[c] + Sum(rest) /\ Sum(s) = f[c] + Sum(r)
    BY <1>2, <2>5, <2>7, <2>9
  <2>11. f[c] \in Int /\ f[y] \in Int /\ Sum(rest) \in Int /\ Sum(q) = Sum(s \ {y})
    BY <1>1, <2>5, <2>7
  <2> HIDE DEF c, r, q, rest
  <2> QED  BY <2>4, <2>10, <2>11
<1>4. P(S)
  <2> HIDE DEF P
  <2> QED  BY <1>0, <1>3
<1>5. Sum(S) = f[x] + Sum(S \ {x})
  BY <1>4
<1> QED  BY <1>5 DEF Sum

\* Only the values on the set matter.
LEMMA SumSame ==
  ASSUME NEW f, NEW g, NEW S, IsFiniteSet(S), \A x \in S : f[x] = g[x]
  PROVE  SumFunctionOnSet(f, S) = SumFunctionOnSet(g, S)
<1> DEFINE P(s) == SumFunctionOnSet(f, s) = SumFunctionOnSet(g, s)
           bad == {n \in Nat : \E s \in SUBSET S : Cardinality(s) = n /\ ~P(s)}
<1>0. \A s \in SUBSET S : IsFiniteSet(s) /\ Cardinality(s) \in Nat
  BY FS_Subset, FS_CardinalityType
<1>2. bad = {}
  <2> SUFFICES ASSUME bad # {}
               PROVE  FALSE
    OBVIOUS
  <2>1. bad \subseteq Nat
    OBVIOUS
  <2>2. PICK n \in bad : \A m \in bad : n <= m
    <3> HIDE DEF bad
    <3> QED  BY <2>1, LeastNatural
  <2>3. PICK s \in SUBSET S : Cardinality(s) = n /\ ~P(s)
    OBVIOUS
  <2>4. s # {}
    BY <2>3, SumEmpty
  <2> DEFINE c == Chosen(s)
             r == s \ {c}
  <2>5. r \in SUBSET S /\ Cardinality(r) = n - 1 /\ n \in Nat \ {0} /\ c \in S
    BY <1>0, <2>3, <2>4, LessChosen
  <2>6. n - 1 \notin bad /\ n - 1 \in Nat
    <3>1. n - 1 \in Nat /\ ~(n <= n - 1)
      BY <2>5
    <3> HIDE DEF bad
    <3> QED  BY <2>2, <3>1
  <2>7. P(r)
    <3> HIDE DEF r, P
    <3> QED  BY <2>5, <2>6
  <2>8. SumFunctionOnSet(f, s) = f[c] + SumFunctionOnSet(f, r)
        /\ SumFunctionOnSet(g, s) = g[c] + SumFunctionOnSet(g, r)
    BY <1>0, <2>4, SumUnfolds
  <2> HIDE DEF c, r
  <2> QED  BY <2>3, <2>5, <2>7, <2>8
<1> QED  BY <1>0, <1>2

\* A sum of zeros.
LEMMA SumZero ==
  ASSUME NEW f, NEW S, IsFiniteSet(S), \A x \in S : f[x] = 0
  PROVE  SumFunctionOnSet(f, S) = 0
<1> DEFINE bad == {n \in Nat : \E s \in SUBSET S : Cardinality(s) = n /\ SumFunctionOnSet(f, s) # 0}
<1>0. \A s \in SUBSET S : IsFiniteSet(s) /\ Cardinality(s) \in Nat
  BY FS_Subset, FS_CardinalityType
<1>1. bad = {}
  <2> SUFFICES ASSUME bad # {}
               PROVE  FALSE
    OBVIOUS
  <2>1. PICK n \in bad : \A m \in bad : n <= m
    <3>1. bad \subseteq Nat
      OBVIOUS
    <3> HIDE DEF bad
    <3> QED  BY <3>1, LeastNatural
  <2>2. n \in Nat /\ \E s \in SUBSET S : Cardinality(s) = n /\ SumFunctionOnSet(f, s) # 0
    BY <2>1
  <2>3. PICK s \in SUBSET S : Cardinality(s) = n /\ SumFunctionOnSet(f, s) # 0
    BY <2>2
  <2> DEFINE T == s \ {Chosen(s)}
  <2>4. SumFunctionOnSet(f, s) = IF s = {} THEN 0 ELSE f[Chosen(s)] + SumFunctionOnSet(f, T)
    BY <1>0, SumUnfolds
  <2>5. s # {}
    BY <2>3, <2>4
  <2>6. Chosen(s) \in s /\ Cardinality(T) = n - 1 /\ Cardinality(T) \in Nat /\ T \in SUBSET S
    BY <1>0, <2>3, <2>5, LessChosen
  <2> HIDE DEF T
  <2>7. SumFunctionOnSet(f, T) = 0
    <3> SUFFICES ASSUME SumFunctionOnSet(f, T) # 0
                 PROVE  FALSE
      OBVIOUS
    <3>1. n - 1 \in bad
      BY <2>6
    <3>2. n <= n - 1
      BY <2>1, <3>1
    <3> QED  BY <2>2, <3>2
  <2>8. f[Chosen(s)] = 0
    BY <2>3, <2>6
  <2> QED  BY <2>3, <2>4, <2>5, <2>7, <2>8
<1>2. S \in SUBSET S /\ Cardinality(S) \in Nat
  BY <1>0
<1> QED  BY <1>1, <1>2

\* One value changes, and the sum by as much.
LEMMA SumUpdate ==
  ASSUME NEW f, NEW g, NEW S, IsFiniteSet(S), NEW x \in S, \A y \in S : f[y] \in Int,
         \A y \in S \ {x} : g[y] = f[y], g[x] \in Int
  PROVE  SumFunctionOnSet(g, S) = SumFunctionOnSet(f, S) - f[x] + g[x]
<1> DEFINE T == S \ {x}
<1>1. IsFiniteSet(T) /\ \A y \in S : g[y] \in Int
  BY FS_Subset
<1>2. SumFunctionOnSet(f, S) = f[x] + SumFunctionOnSet(f, T)
      /\ SumFunctionOnSet(g, S) = g[x] + SumFunctionOnSet(g, T)
  BY <1>1, SumRemove
<1>3. SumFunctionOnSet(f, T) = SumFunctionOnSet(g, T) /\ SumFunctionOnSet(f, T) \in Int
  <2>1. \A y \in T : f[y] = g[y] /\ f[y] \in Int
    OBVIOUS
  <2> HIDE DEF T
  <2> QED  BY <1>1, <2>1, SumSame, SumType
<1> HIDE DEF T
<1> QED  BY <1>1, <1>2, <1>3

\* One element more.
LEMMA SumAdd ==
  ASSUME NEW f, NEW S, IsFiniteSet(S), NEW x, x \notin S, f[x] \in Int, \A y \in S : f[y] \in Int
  PROVE  SumFunctionOnSet(f, S \cup {x}) = SumFunctionOnSet(f, S) + f[x]
<1> DEFINE T == S \cup {x}
<1>1. IsFiniteSet(T) /\ x \in T /\ T \ {x} = S /\ \A y \in T : f[y] \in Int
  BY FS_AddElement
<1>2. SumFunctionOnSet(f, T) = f[x] + SumFunctionOnSet(f, T \ {x})
  <2> HIDE DEF T
  <2> QED  BY <1>1, SumRemove
<1>3. SumFunctionOnSet(f, S) \in Int
  BY SumType
<1>4. SumFunctionOnSet(f, T) = f[x] + SumFunctionOnSet(f, S)
  BY <1>1, <1>2, Zenon
<1> QED  BY <1>3, <1>4

\* A sequence that starts one later has the same sum as the rest of the longer.
LEMMA SumShift ==
  ASSUME NEW f, NEW g, NEW N \in Nat, \A k \in 1 .. N : g[k] = f[k + 1] /\ g[k] \in Int
  PROVE  SumFunctionOnSet(g, 1 .. N) = SumFunctionOnSet(f, 2 .. N + 1)
<1> DEFINE P(n) == SumFunctionOnSet(g, 1 .. n) = SumFunctionOnSet(f, 2 .. n + 1)
           bad == {n \in 0 .. N : ~P(n)}
<1>1. bad = {}
  <2> SUFFICES ASSUME bad # {}
               PROVE  FALSE
    OBVIOUS
  <2>1. PICK n \in bad : \A m \in bad : n <= m
    <3>1. bad \subseteq Nat
      OBVIOUS
    <3> HIDE DEF bad
    <3> QED  BY <3>1, LeastNatural
  <2>2. n \in 0 .. N /\ ~P(n)
    BY <2>1
  <2>3. n # 0
    <3> SUFFICES ASSUME n = 0 PROVE FALSE
      OBVIOUS
    <3>1. 1 .. 0 = {} /\ 2 .. 0 + 1 = {}
      OBVIOUS
    <3>2. SumFunctionOnSet(g, {}) = 0 /\ SumFunctionOnSet(f, {}) = 0
      BY SumEmpty
    <3> QED  BY <2>2, <3>1, <3>2
  <2> DEFINE A == 1 .. n - 1
             B == 2 .. (n - 1) + 1
  <2>4. SumFunctionOnSet(g, A) = SumFunctionOnSet(f, B)
    <3>1. n - 1 \in 0 .. N /\ ~(n <= n - 1)
      BY <2>2, <2>3
    <3>2. n - 1 \notin bad
      <4> HIDE DEF bad
      <4> QED  BY <2>1, <3>1
    <3> QED  BY <3>1, <3>2
  <2>5. /\ IsFiniteSet(A) /\ IsFiniteSet(B)
    BY <2>2, FS_Interval
  <2>6. /\ n \notin A /\ n + 1 \notin B /\ A \cup {n} = 1 .. n /\ B \cup {n + 1} = 2 .. n + 1
    BY <2>2, <2>3
  <2>7. /\ g[n] \in Int /\ g[n] = f[n + 1] /\ f[n + 1] \in Int
        /\ \A k \in A : g[k] \in Int
        /\ \A k \in B : f[k] \in Int
    <3>1. ASSUME NEW k \in B PROVE f[k] \in Int
      <4>1. k - 1 \in 1 .. N /\ (k - 1) + 1 = k
        BY <2>2, <2>3
      <4> QED  BY <4>1
    <3>2. n \in 1 .. N /\ \A k \in A : k \in 1 .. N
      BY <2>2, <2>3
    <3> QED  BY <3>1, <3>2
  <2> HIDE DEF A, B
  <2>8. SumFunctionOnSet(g, A \cup {n}) = SumFunctionOnSet(g, A) + g[n]
    BY <2>5, <2>6, <2>7, SumAdd, SMTT(60)
  <2>9. SumFunctionOnSet(f, B \cup {n + 1}) = SumFunctionOnSet(f, B) + f[n + 1]
    BY <2>5, <2>6, <2>7, SumAdd
  <2> QED  BY <2>2, <2>4, <2>6, <2>7, <2>8, <2>9
<1> QED  BY <1>1
=============================================================================
