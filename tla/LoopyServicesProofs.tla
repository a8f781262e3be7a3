------------------------ MODULE LoopyServicesProofs -------------------------
(***************************************************************************)
(* Proofs about services that any thread may call: the connection pool,    *)
(* publish/subscribe, the limiters, the cluster registry, DNS, file        *)
(* operations, the asynchronous operations of a channel and the            *)
(* concurrency pool, for any number of threads, connections, messages,     *)
(* keys and steps.                                                         *)
(***************************************************************************)
EXTENDS LoopyServices, LoopyLemmas

-----------------------------------------------------------------------------
(* The connection pool                                                      *)

\* Every connection is in one place and counted there.
ConnPart ==
  /\ cnIdle \in Seq(CnConns) /\ IsInjective(cnIdle)
  /\ cnUsed \subseteq CnConns /\ Range(cnIdle) \cap cnUsed = {}
  /\ idleCount = Len(cnIdle)
  /\ totalConns = Len(cnIdle) + Cardinality(cnUsed)

\* Every request waits, was lost or was answered, once; nobody waits before the
\* pool is open or after it is freed.
RequestPart ==
  /\ cnState \in {"none", "open", "closing", "calling", "freed"}
  /\ cnAsked \subseteq CnRequests /\ cnLost \subseteq cnAsked
  /\ cnWait \in Seq(CnRequests) /\ IsInjective(cnWait) /\ Range(cnWait) \subseteq cnAsked \ cnLost
  /\ cnAnswers \in [CnRequests -> Nat]
  /\ \A r \in CnRequests : cnAnswers[r] = IF r \in (cnAsked \ cnLost) \ Range(cnWait) THEN 1 ELSE 0
  /\ cnState \in {"none", "freed"} => cnWait = << >>

CnInv == ConnPart /\ RequestPart

\* The counters are numbers, and what is not in use is what there is room for.
LEMMA RoomIsUnused ==
  ASSUME ConnPart
  PROVE  /\ Len(cnIdle) \in Nat /\ Cardinality(cnUsed) \in Nat /\ IsFiniteSet(cnUsed)
         /\ totalConns \in Nat /\ totalConns <= CnMaxTotal
         /\ IsFiniteSet(Unused) /\ Cardinality(Unused) = CnMaxTotal - totalConns
<1>1. IsFiniteSet(CnConns) /\ Cardinality(CnConns) = CnMaxTotal
  BY CnAssumption, FS_Interval DEF CnConns
<1>2. Len(cnIdle) \in Nat
  BY LenProperties DEF ConnPart
<1>3. IsFiniteSet(cnUsed) /\ Cardinality(cnUsed) \in Nat
  BY <1>1, FS_Subset, FS_CardinalityType DEF ConnPart
<1>4. /\ IsFiniteSet(Range(cnIdle)) /\ Cardinality(Range(cnIdle)) = Len(cnIdle)
      /\ Range(cnIdle) \subseteq CnConns
  BY LenIsCount, EmptyList DEF ConnPart
<1> DEFINE places == cnUsed \cup Range(cnIdle)
<1>5. IsFiniteSet(places) /\ Cardinality(places) = Cardinality(cnUsed) + Len(cnIdle)
  <2>1. cnUsed \cap Range(cnIdle) = {}
    BY DEF ConnPart
  <2>2. Cardinality(places) = Cardinality(cnUsed) + Cardinality(Range(cnIdle))
                                - Cardinality(cnUsed \cap Range(cnIdle))
        /\ IsFiniteSet(places)
    BY <1>3, <1>4, FS_Union
  <2>3. Cardinality(cnUsed \cap Range(cnIdle)) = 0
    BY <2>1, FS_EmptySet
  <2> QED  BY <1>2, <1>3, <1>4, <2>2, <2>3
<1>6. places \subseteq CnConns
  BY <1>4 DEF ConnPart
<1>7. IsFiniteSet(CnConns \ places)
      /\ Cardinality(CnConns \ places) = Cardinality(CnConns) - Cardinality(CnConns \cap places)
  BY <1>1, <1>5, FS_Difference
<1>8. CnConns \cap places = places /\ Cardinality(CnConns \ places) \in Nat
  BY <1>6, <1>7, FS_CardinalityType
<1>9. Unused = CnConns \ places
  BY DEF Unused
<1>10. totalConns = Len(cnIdle) + Cardinality(cnUsed) /\ CnMaxTotal \in Nat
  BY CnAssumption DEF ConnPart
<1> HIDE DEF places
<1>11. Cardinality(CnConns \ places) = CnMaxTotal - totalConns
  <2>1. Cardinality(CnConns \cap places) = Cardinality(places)
    BY <1>8
  <2> QED  BY <1>1, <1>2, <1>3, <1>5, <1>7, <1>10, <2>1
<1>12. totalConns \in Nat /\ totalConns <= CnMaxTotal
  BY <1>2, <1>3, <1>8, <1>10, <1>11
<1> QED  BY <1>2, <1>3, <1>7, <1>9, <1>11, <1>12

\* createConnection finds as many connections as there is room for.
LEMMA CreatedFacts ==
  ASSUME ConnPart, NEW k \in Nat, k <= Room
  PROVE  Created(k) \in [1 .. k -> Unused] /\ IsInjective(Created(k))
<1>1. k <= Cardinality(Unused) /\ IsFiniteSet(Unused) /\ Cardinality(Unused) \in Nat
  BY RoomIsUnused, FS_CardinalityType DEF Room
<1>2. PICK f : f \in Bijection(1 .. Cardinality(Unused), Unused)
  BY <1>1, FS_CardinalityType DEF ExistsBijection
<1>3. f \in [1 .. Cardinality(Unused) -> Unused] /\ IsInjective(f)
  BY <1>2 DEF Bijection, Injection
<1> DEFINE g == [i \in 1 .. k |-> f[i]]
<1>4. g \in [1 .. k -> Unused] /\ IsInjective(g)
  BY <1>1, <1>3 DEF IsInjective
<1> QED  BY <1>4 DEF Created

\* Prewarming adds connections to the idle list that were in no place before.
LEMMA PrewarmStep ==
  ASSUME ConnPart, NEW k \in Nat, k <= Room, PrewarmBy(k), cnUsed' = cnUsed
  PROVE  ConnPart'
<1> DEFINE new == Created(k)
<1>1. new \in [1 .. k -> Unused] /\ IsInjective(new)
  BY CreatedFacts
<1>2. /\ Unused \subseteq CnConns
      /\ Unused \cap Range(cnIdle) = {} /\ Unused \cap cnUsed = {}
  BY DEF Unused
<1>3. new \in Seq(CnConns) /\ Len(new) = k /\ Range(new) \subseteq Unused
  BY <1>1, <1>2 DEF Range
<1> HIDE DEF new
<1>4. /\ new \o cnIdle \in Seq(CnConns) /\ Len(new \o cnIdle) = Len(new) + Len(cnIdle)
      /\ Range(new \o cnIdle) = Range(new) \cup Range(cnIdle)
      /\ IsInjective(new \o cnIdle)
  <2>1. Range(new) \cap Range(cnIdle) = {}
    BY <1>2, <1>3
  <2> QED  BY <1>1, <1>3, <2>1, JoinLists DEF ConnPart
<1>5. cnIdle' = new \o cnIdle /\ idleCount' = idleCount + k /\ totalConns' = totalConns + k
  BY DEF PrewarmBy, new
<1>6. Range(cnIdle') \cap cnUsed = {}
  BY <1>2, <1>3, <1>4, <1>5 DEF ConnPart
<1> QED  BY <1>3, <1>4, <1>5, <1>6, RoomIsUnused DEF ConnPart

\* loopyConnPoolAcquire: an idle connection or a new one goes to the client.
LEMMA TakeStep ==
  ASSUME ConnPart, TakeConn
  PROVE  ConnPart'
<1>0. /\ Len(cnIdle) \in Nat /\ DOMAIN cnIdle = 1 .. Len(cnIdle)
      /\ Cardinality(cnUsed) \in Nat /\ IsFiniteSet(cnUsed) /\ totalConns \in Nat
      /\ Range(cnIdle) \subseteq CnConns
  BY RoomIsUnused, LenProperties, EmptyList DEF ConnPart
<1>1. ASSUME NEW n \in 1 .. Len(cnIdle), AcquireIdle(n)
      PROVE  ConnPart'
  <2> DEFINE c == cnIdle[n]
             rest == SubSeq(cnIdle, n + 1, Len(cnIdle))
  <2>1. c \in Range(cnIdle) /\ c \in CnConns /\ c \notin cnUsed
    BY <1>0 DEF ConnPart, Range
  <2>2. Cardinality(cnUsed \cup {c}) = Cardinality(cnUsed) + 1
    BY <1>0, <2>1, FS_AddElement
  <2>3. /\ rest \in Seq(CnConns) /\ Len(rest) = Len(cnIdle) - n
        /\ \A i \in 1 .. Len(cnIdle) - n : rest[i] = cnIdle[n + i]
    BY <1>0, SubSeqProperties DEF ConnPart
  <2>4. DOMAIN rest = 1 .. Len(cnIdle) - n
    BY <1>0, <2>3, LenProperties
  <2>5. cnIdle' = rest /\ cnUsed' = cnUsed \cup {c} /\ idleCount' = idleCount - n
        /\ totalConns' = totalConns - (n - 1)
    BY <1>1 DEF AcquireIdle
  <2> HIDE DEF rest
  <2>6. \A i, j \in 1 .. Len(cnIdle) : cnIdle[i] = cnIdle[j] => i = j
    BY <1>0 DEF ConnPart, IsInjective
  <2>7. IsInjective(rest)
    BY <1>0, <2>3, <2>4, <2>6 DEF IsInjective
  <2>8. \A i \in 1 .. Len(cnIdle) - n : rest[i] \in Range(cnIdle) \ {c}
    <3> TAKE i \in 1 .. Len(cnIdle) - n
    <3>1. n + i \in 1 .. Len(cnIdle) /\ n + i # n
      BY <1>0
    <3> QED  BY <1>0, <2>3, <2>6, <3>1 DEF Range
  <2>9. Range(rest) \cap (cnUsed \cup {c}) = {}
    BY <2>4, <2>8 DEF Range, ConnPart
  <2> HIDE DEF c
  <2>10. idleCount' = Len(rest) /\ totalConns' = Len(rest) + Cardinality(cnUsed \cup {c})
    BY <1>0, <2>2, <2>3, <2>5 DEF ConnPart
  <2> QED  BY <2>1, <2>3, <2>5, <2>7, <2>9, <2>10 DEF ConnPart
<1>2. ASSUME NEW ok \in BOOLEAN, AcquireNew(ok)
      PROVE  ConnPart'
  <2>1. totalConns - Len(cnIdle) = Cardinality(cnUsed)
    BY <1>0 DEF ConnPart
  <2>2. /\ cnIdle' = << >> /\ idleCount' = idleCount - Len(cnIdle)
    BY <1>2 DEF AcquireNew
  <2>3. << >> \in Seq(CnConns) /\ Len(<< >>) = 0 /\ IsInjective(<< >>) /\ Range(<< >>) = {}
    BY DEF IsInjective, Range
  <2>4. idleCount' = 0
    BY <1>0, <2>2 DEF ConnPart
  <2>5. CASE ok /\ Cardinality(cnUsed) < CnMaxTotal
    <3> DEFINE c == CHOOSE x \in CnConns : x \notin cnUsed
    <3>1. c \in CnConns /\ c \notin cnUsed
      <4>1. cnUsed # CnConns
        BY <2>5, CnAssumption, FS_Interval DEF CnConns
      <4> QED  BY <4>1 DEF ConnPart
    <3>2. cnUsed' = cnUsed \cup {c} /\ totalConns' = Cardinality(cnUsed) + 1
      BY <1>2, <2>1, <2>5 DEF AcquireNew
    <3> HIDE DEF c
    <3>3. Cardinality(cnUsed \cup {c}) = Cardinality(cnUsed) + 1
      BY <1>0, <3>1, FS_AddElement
    <3> QED  BY <1>0, <2>2, <2>3, <2>4, <3>1, <3>2, <3>3 DEF ConnPart
  <2>6. CASE ~(ok /\ Cardinality(cnUsed) < CnMaxTotal)
    <3>1. cnUsed' = cnUsed /\ totalConns' = Cardinality(cnUsed)
      BY <1>0, <1>2, <2>1, <2>6 DEF AcquireNew
    <3> QED  BY <1>0, <2>2, <2>3, <2>4, <3>1 DEF ConnPart
  <2> QED  BY <2>5, <2>6
<1> QED  BY <1>1, <1>2 DEF TakeConn

\* The walk that drops S is a function with the equation its definition states.
LEMMA KeptExists ==
  ASSUME cnIdle \in Seq(CnConns), NEW S
  PROVE  \E g : g = [i \in 0 .. Len(cnIdle) |->
                       IF i = 0 THEN << >>
                       ELSE IF cnIdle[i] \in S THEN g[i - 1] ELSE Append(g[i - 1], cnIdle[i])]
<1> DEFINE Walk(n, g) == /\ DOMAIN g = 0 .. n /\ g = [i \in 0 .. n |-> g[i]]
                         /\ g[0] = << >>
                         /\ \A i \in 1 .. n : g[i] = IF cnIdle[i] \in S THEN g[i - 1]
                                                     ELSE Append(g[i - 1], cnIdle[i])
           bad == {n \in 0 .. Len(cnIdle) : ~\E g : Walk(n, g)}
<1>1. Len(cnIdle) \in Nat
  BY LenProperties
<1>2. bad = {}
  <2> SUFFICES ASSUME bad # {}
               PROVE  FALSE
    OBVIOUS
  <2>1. bad \subseteq Nat
    BY <1>1
  <2>2. PICK n \in bad : \A m \in bad : n <= m
    <3> HIDE DEF bad
    <3> QED  BY <2>1, LeastNatural
  <2>3. n \in 0 .. Len(cnIdle) /\ n \in Nat
    BY <1>1
  <2>4. CASE n = 0
    <3> DEFINE g == [i \in 0 .. 0 |-> << >>]
    <3>1. Walk(0, g)
      OBVIOUS
    <3> QED  BY <2>2, <2>4, <3>1
  <2>5. CASE n # 0
    <3>1. n - 1 \in 0 .. Len(cnIdle) /\ n - 1 \notin bad
      <4>1. n - 1 \in 0 .. Len(cnIdle) /\ ~(n <= n - 1)
        BY <1>1, <2>3, <2>5
      <4> HIDE DEF bad
      <4> QED  BY <2>2, <4>1
    <3>2. PICK g : Walk(n - 1, g)
      BY <3>1
    <3> DEFINE last == IF cnIdle[n] \in S THEN g[n - 1] ELSE Append(g[n - 1], cnIdle[n])
               h == [i \in 0 .. n |-> IF i = n THEN last ELSE g[i]]
    <3>3. DOMAIN h = 0 .. n /\ h = [i \in 0 .. n |-> h[i]] /\ h[0] = << >>
      BY <2>3, <2>5, <3>2
    <3>4. \A i \in 1 .. n : h[i] = IF cnIdle[i] \in S THEN h[i - 1] ELSE Append(h[i - 1], cnIdle[i])
      <4> TAKE i \in 1 .. n
      <4>1. i - 1 \in 0 .. n /\ i \in 0 .. n /\ h[i - 1] = g[i - 1]
        BY <2>3, <2>5
      <4>2. CASE i = n
        BY <4>1, <4>2
      <4>3. CASE i # n
        <5>1. i \in 1 .. n - 1 /\ h[i] = g[i]
          BY <2>3, <4>3
        <5> QED  BY <3>2, <4>1, <5>1
      <4> QED  BY <4>2, <4>3
    <3>5. Walk(n, h)
      <4> HIDE DEF h
      <4> QED  BY <3>3, <3>4
    <3> QED  BY <2>2, <3>5
  <2> QED  BY <2>4, <2>5
<1>3. PICK g : Walk(Len(cnIdle), g)
  BY <1>1, <1>2
<1>4. \A i \in 0 .. Len(cnIdle) : g[i] =
         IF i = 0 THEN << >>
         ELSE IF cnIdle[i] \in S THEN g[i - 1] ELSE Append(g[i - 1], cnIdle[i])
  <2> TAKE i \in 0 .. Len(cnIdle)
  <2>1. CASE i = 0
    BY <1>3, <2>1
  <2>2. CASE i # 0
    <3>1. i \in 1 .. Len(cnIdle)
      BY <1>1, <2>2
    <3> QED  BY <1>3, <2>2, <3>1
  <2> QED  BY <2>1, <2>2
<1>5. g = [i \in 0 .. Len(cnIdle) |-> g[i]]
  BY <1>3
<1> HIDE DEF Walk
<1> QED  BY <1>4, <1>5

\* It leaves the others, each once.
LEMMA KeptFacts ==
  ASSUME cnIdle \in Seq(CnConns), IsInjective(cnIdle), NEW S
  PROVE  /\ Kept(S) \in Seq(CnConns) /\ IsInjective(Kept(S))
         /\ Range(Kept(S)) = Range(cnIdle) \ S
<1> DEFINE f == CHOOSE g : g = [i \in 0 .. Len(cnIdle) |->
                       IF i = 0 THEN << >>
                       ELSE IF cnIdle[i] \in S THEN g[i - 1] ELSE Append(g[i - 1], cnIdle[i])]
           Good(n) == /\ f[n] \in Seq(CnConns) /\ IsInjective(f[n])
                      /\ Range(f[n]) = {cnIdle[i] : i \in 1 .. n} \ S
           bad == {n \in 0 .. Len(cnIdle) : ~Good(n)}
<1>1. Len(cnIdle) \in Nat /\ DOMAIN cnIdle = 1 .. Len(cnIdle)
  BY LenProperties
<1>2. f = [i \in 0 .. Len(cnIdle) |->
             IF i = 0 THEN << >>
             ELSE IF cnIdle[i] \in S THEN f[i - 1] ELSE Append(f[i - 1], cnIdle[i])]
  BY KeptExists, ZenonT(60)
<1> HIDE DEF f
<1>3. \A i \in 0 .. Len(cnIdle) : f[i] =
         IF i = 0 THEN << >>
         ELSE IF cnIdle[i] \in S THEN f[i - 1] ELSE Append(f[i - 1], cnIdle[i])
  BY <1>2
<1>4. bad = {}
  <2> SUFFICES ASSUME bad # {}
               PROVE  FALSE
    OBVIOUS
  <2>1. bad \subseteq Nat
    BY <1>1
  <2>2. PICK n \in bad : \A m \in bad : n <= m
    <3> HIDE DEF bad
    <3> QED  BY <2>1, LeastNatural
  <2>3. n \in 0 .. Len(cnIdle) /\ n \in Nat
    BY <1>1
  <2>4. CASE n = 0
    <3>1. f[0] = << >>
      BY <1>1, <1>3
    <3>2. << >> \in Seq(CnConns) /\ IsInjective(<< >>) /\ Range(<< >>) = {}
      BY DEF IsInjective, Range
    <3>3. {cnIdle[i] : i \in 1 .. 0} = {}
      OBVIOUS
    <3>4. Good(0)
      BY <3>1, <3>2, <3>3
    <3> QED  BY <2>2, <2>4, <3>4
  <2>5. CASE n # 0
    <3>1. n - 1 \in 0 .. Len(cnIdle) /\ n - 1 \notin bad
      <4>1. n - 1 \in 0 .. Len(cnIdle) /\ ~(n <= n - 1)
        BY <1>1, <2>3, <2>5
      <4> HIDE DEF bad
      <4> QED  BY <2>2, <4>1
    <3>2. Good(n - 1)
      BY <3>1
    <3>3. n \in 1 .. Len(cnIdle) /\ cnIdle[n] \in CnConns
      BY <1>1, <2>3, <2>5
    <3>4. {cnIdle[i] : i \in 1 .. n} = {cnIdle[i] : i \in 1 .. n - 1} \cup {cnIdle[n]}
      <4>1. 1 .. n = (1 .. n - 1) \cup {n}
        BY <2>3, <2>5
      <4> QED  BY <4>1
    <3>5. cnIdle[n] \notin {cnIdle[i] : i \in 1 .. n - 1}
      BY <1>1, <3>3 DEF IsInjective
    <3>6. CASE cnIdle[n] \in S
      <4>1. f[n] = f[n - 1]
        BY <1>3, <2>3, <2>5, <3>6
      <4>2. Good(n)
        BY <3>2, <3>4, <3>6, <4>1
      <4> QED  BY <2>2, <4>2
    <3>7. CASE cnIdle[n] \notin S
      <4>1. f[n] = Append(f[n - 1], cnIdle[n])
        BY <1>3, <2>3, <2>5, <3>7
      <4>2. cnIdle[n] \notin Range(f[n - 1])
        BY <3>2, <3>5
      <4>3. /\ Append(f[n - 1], cnIdle[n]) \in Seq(CnConns)
            /\ IsInjective(Append(f[n - 1], cnIdle[n]))
            /\ Range(Append(f[n - 1], cnIdle[n])) = Range(f[n - 1]) \cup {cnIdle[n]}
        BY <3>2, <3>3, <4>2, AppendList
      <4>4. Good(n)
        BY <3>2, <3>4, <3>7, <4>1, <4>3
      <4> QED  BY <2>2, <4>4
    <3> QED  BY <3>6, <3>7
  <2> QED  BY <2>4, <2>5
<1>5. Good(Len(cnIdle))
  BY <1>1, <1>4
<1>6. {cnIdle[i] : i \in 1 .. Len(cnIdle)} = Range(cnIdle)
  BY <1>1 DEF Range
<1>7. Kept(S) = f[Len(cnIdle)]
  BY DEF Kept, f
<1> QED  BY <1>5, <1>6, <1>7

\* Both maintenance passes: what they drop is counted.
LEMMA DropStep ==
  ASSUME ConnPart, NEW S, S \subseteq Range(cnIdle), DropIdle(S)
  PROVE  ConnPart'
<1>1. /\ cnIdle' = Kept(S) /\ cnUsed' = cnUsed
      /\ idleCount' = idleCount - Cardinality(S) /\ totalConns' = totalConns - Cardinality(S)
  BY DEF DropIdle
<1>2. /\ cnIdle' \in Seq(CnConns) /\ IsInjective(cnIdle') /\ Range(cnIdle') = Range(cnIdle) \ S
  BY <1>1, KeptFacts DEF ConnPart
<1>3. /\ IsFiniteSet(Range(cnIdle)) /\ Cardinality(Range(cnIdle)) = Len(cnIdle)
      /\ Cardinality(Range(cnIdle')) = Len(cnIdle')
  BY <1>2, LenIsCount DEF ConnPart
<1>4. Cardinality(Range(cnIdle) \ S) = Cardinality(Range(cnIdle)) - Cardinality(Range(cnIdle) \cap S)
      /\ Range(cnIdle) \cap S = S /\ IsFiniteSet(S) /\ Cardinality(S) \in Nat
  BY <1>3, FS_Subset, FS_Difference, FS_CardinalityType
<1>5. Len(cnIdle') = Len(cnIdle) - Cardinality(S)
  BY <1>2, <1>3, <1>4
<1>6. Range(cnIdle') \cap cnUsed = {}
  BY <1>2 DEF ConnPart
<1> QED  BY <1>1, <1>2, <1>4, <1>5, <1>6, RoomIsUnused DEF ConnPart

\* loopyConnPoolRelease of a connection that is not kept.
LEMMA ReleaseBrokenStep ==
  ASSUME ConnPart, NEW c, NEW h, NEW ok, ReleaseBroken(c, h, ok)
  PROVE  ConnPart'
<1> DEFINE k == IF totalConns - 1 < CnMinIdle /\ totalConns - 1 < CnMaxTotal /\ ok THEN 1 ELSE 0
           new == [i \in 1 .. k |-> c]
<1>1. /\ c \in cnUsed /\ cnUsed' = cnUsed \ {c} /\ cnIdle' = new \o cnIdle
      /\ idleCount' = idleCount + k /\ totalConns' = totalConns - 1 + k
  BY DEF ReleaseBroken
<1>2. c \in CnConns /\ c \notin Range(cnIdle)
  BY <1>1 DEF ConnPart
<1>3. k \in {0, 1}
  OBVIOUS
<1>4. new \in Seq(CnConns) /\ Len(new) = k /\ IsInjective(new) /\ Range(new) \subseteq {c}
  <2> HIDE DEF k
  <2> QED  BY <1>2, <1>3 DEF IsInjective, Range
<1> HIDE DEF k, new
<1>5. /\ new \o cnIdle \in Seq(CnConns) /\ Len(new \o cnIdle) = Len(new) + Len(cnIdle)
      /\ Range(new \o cnIdle) = Range(new) \cup Range(cnIdle)
      /\ IsInjective(new \o cnIdle)
  <2>1. Range(new) \cap Range(cnIdle) = {}
    BY <1>2, <1>4
  <2> QED  BY <1>4, <2>1, JoinLists DEF ConnPart
<1>6. Cardinality(cnUsed \ {c}) = Cardinality(cnUsed) - 1
  BY <1>1, RoomIsUnused, FS_RemoveElement
<1>7. idleCount' = Len(cnIdle') /\ totalConns' = Len(cnIdle') + Cardinality(cnUsed')
  <2>1. /\ Len(cnIdle) \in Nat /\ Cardinality(cnUsed) \in Nat
        /\ idleCount = Len(cnIdle) /\ totalConns = Len(cnIdle) + Cardinality(cnUsed)
    BY RoomIsUnused DEF ConnPart
  <2>2. Len(cnIdle') = k + Len(cnIdle) /\ Cardinality(cnUsed') = Cardinality(cnUsed) - 1
    BY <1>1, <1>4, <1>5, <1>6
  <2> QED  BY <1>1, <1>3, <2>1, <2>2
<1>8. Range(cnIdle') \cap cnUsed' = {} /\ cnUsed' \subseteq CnConns
  BY <1>1, <1>4, <1>5 DEF ConnPart
<1> QED  BY <1>1, <1>5, <1>7, <1>8 DEF ConnPart

\* Of one that is: with nobody waiting it goes to the front of the idle list.
LEMMA ReleaseIdleStep ==
  ASSUME ConnPart, NEW c \in cnUsed, cnIdle' = <<c>> \o cnIdle, cnUsed' = cnUsed \ {c},
         idleCount' = idleCount + 1, totalConns' = totalConns
  PROVE  ConnPart'
<1>1. c \in CnConns /\ c \notin Range(cnIdle)
  BY DEF ConnPart
<1>2. /\ cnIdle' \in Seq(CnConns) /\ Len(cnIdle') = Len(cnIdle) + 1 /\ IsInjective(cnIdle')
      /\ Range(cnIdle') = Range(cnIdle) \cup {c}
  BY <1>1, LinkFirst DEF ConnPart
<1>3. Cardinality(cnUsed') = Cardinality(cnUsed) - 1
  BY RoomIsUnused, FS_RemoveElement
<1>4. idleCount' = Len(cnIdle') /\ totalConns' = Len(cnIdle') + Cardinality(cnUsed')
  BY <1>2, <1>3, RoomIsUnused DEF ConnPart
<1> QED  BY <1>2, <1>4 DEF ConnPart

\* Every operation of the pool keeps the invariant.
LEMMA CnStep == CnInv /\ [CnNext]_cnVars => CnInv'
<1> SUFFICES ASSUME CnInv, [CnNext]_cnVars
             PROVE  CnInv'
  OBVIOUS
<1>0. ConnPart /\ RequestPart
  BY DEF CnInv
<1>a. ASSUME UNCHANGED cnQueue, cnState' \in {"none", "open", "closing", "calling", "freed"},
             cnState' \in {"none", "freed"} => cnState = "none" \/ cnState = "freed" \/ cnWait = << >>
      PROVE  RequestPart'
  <2>1. cnWait' = cnWait /\ cnAsked' = cnAsked /\ cnAnswers' = cnAnswers /\ cnLost' = cnLost
    BY <1>a DEF cnQueue
  <2> QED  BY <1>0, <1>a, <2>1 DEF RequestPart
<1>c. ASSUME UNCHANGED cnQueue, cnState' = cnState
      PROVE  RequestPart'
  BY <1>0, <1>a, <1>c DEF RequestPart
<1>d. ASSUME cnWait # << >>, cnWait' = Tail(cnWait), cnAnswers' = Answer(Head(cnWait)),
             cnAsked' = cnAsked, cnLost' = cnLost, cnState' \in {"open", "calling"}
      PROVE  RequestPart'
  <2> DEFINE r == Head(cnWait)
  <2>1. /\ cnWait' \in Seq(CnRequests) /\ r \in CnRequests /\ IsInjective(cnWait')
        /\ Range(cnWait) = Range(cnWait') \cup {r} /\ r \notin Range(cnWait')
    BY <1>0, <1>d, SplitList DEF RequestPart
  <2> HIDE DEF r
  <2>2. cnAnswers' = [cnAnswers EXCEPT ![r] = @ + 1]
    BY <1>d DEF Answer, r
  <2> QED  BY <1>0, <1>d, <2>1, <2>2 DEF RequestPart
<1>b. ASSUME UNCHANGED <<cnIdle, cnUsed, totalConns, idleCount>>
      PROVE  ConnPart'
  BY <1>0, <1>b DEF ConnPart
<1>1. CASE ConnPoolNew
  <2>1. UNCHANGED cnQueue /\ cnState = "none" /\ cnState' \in {"open", "freed"} /\ cnUsed' = cnUsed
    BY <1>1 DEF ConnPoolNew
  <2>2. CASE CnMinIdle <= Room /\ PrewarmBy(CnMinIdle)
    <3>1. ConnPart'
      BY <1>0, <2>1, <2>2, CnAssumption, PrewarmStep
    <3> QED  BY <1>a, <2>1, <3>1 DEF CnInv
  <2>3. CASE UNCHANGED <<cnIdle, idleCount, totalConns>>
    <3> QED  BY <1>a, <1>b, <2>1, <2>3 DEF CnInv
  <2> QED  BY <1>1, <2>2, <2>3 DEF ConnPoolNew
<1>2. ASSUME NEW k \in 0 .. CnMaxTotal, NEW n \in 0 .. CnMaxTotal, Prewarm(n, k)
      PROVE  CnInv'
  <2>1. k \in Nat
    BY CnAssumption
  <2>2. ConnPart'
    BY <1>0, <1>2, <2>1, PrewarmStep DEF Prewarm
  <2>3. UNCHANGED cnQueue /\ cnState' = cnState
    BY <1>2 DEF Prewarm
  <2> QED  BY <1>c, <2>2, <2>3 DEF CnInv
<1>3. CASE Acquire
  <2>1. ConnPart'
    BY <1>0, <1>3, TakeStep DEF Acquire
  <2>2. UNCHANGED cnQueue /\ cnState' = cnState
    BY <1>3 DEF Acquire
  <2> QED  BY <1>c, <2>1, <2>2 DEF CnInv
<1>4. ASSUME NEW r \in CnRequests, AcquireAsync(r)
      PROVE  CnInv'
  <2>1. /\ r \notin cnAsked /\ cnAsked' = cnAsked \cup {r} /\ cnState' = cnState /\ cnState = "open"
        /\ r \notin Range(cnWait) /\ r \notin cnLost /\ cnAnswers[r] = 0
    BY <1>0, <1>4 DEF AcquireAsync, RequestPart
  <2>2. CASE cnIdle # << >> \/ totalConns < CnMaxTotal
    <3>1. TakeConn /\ cnAnswers' = Answer(r) /\ cnWait' = cnWait /\ cnLost' = cnLost
      BY <1>4, <2>2 DEF AcquireAsync
    <3>2. RequestPart'
      BY <1>0, <2>1, <3>1 DEF RequestPart, Answer
    <3> QED  BY <1>0, <3>1, <3>2, TakeStep DEF CnInv
  <2>3. CASE ~(cnIdle # << >> \/ totalConns < CnMaxTotal)
    <3>1. /\ cnAnswers' = cnAnswers
          /\ UNCHANGED <<cnIdle, cnUsed, totalConns, idleCount>>
          /\ \/ cnWait' = Append(cnWait, r) /\ cnLost' = cnLost
             \/ cnLost' = cnLost \cup {r} /\ cnWait' = cnWait
      BY <1>4, <2>3 DEF AcquireAsync
    <3>2. CASE cnWait' = Append(cnWait, r) /\ cnLost' = cnLost
      <4>1. /\ cnWait' \in Seq(CnRequests) /\ IsInjective(cnWait')
            /\ Range(cnWait') = Range(cnWait) \cup {r}
        BY <1>0, <2>1, <3>2, AppendList DEF RequestPart
      <4>2. RequestPart'
        BY <1>0, <2>1, <3>1, <3>2, <4>1 DEF RequestPart
      <4> QED  BY <1>b, <3>1, <4>2 DEF CnInv
    <3>3. CASE cnLost' = cnLost \cup {r} /\ cnWait' = cnWait
      <4>1. RequestPart'
        BY <1>0, <2>1, <3>1, <3>3 DEF RequestPart
      <4> QED  BY <1>b, <3>1, <4>1 DEF CnInv
    <3> QED  BY <3>1, <3>2, <3>3
  <2> QED  BY <2>2, <2>3
<1>5. ASSUME NEW c \in CnConns, ReleaseHealthy(c)
      PROVE  CnInv'
  <2>1. c \in cnUsed /\ cnState' = cnState /\ cnState = "open" /\ cnAsked' = cnAsked
        /\ totalConns' = totalConns /\ cnLost' = cnLost
    BY <1>5 DEF ReleaseHealthy
  <2>2. CASE cnWait # << >>
    <3>1. /\ cnWait' = Tail(cnWait) /\ cnAnswers' = Answer(Head(cnWait))
          /\ UNCHANGED <<cnIdle, cnUsed, totalConns, idleCount>>
      BY <1>5, <2>1, <2>2 DEF ReleaseHealthy
    <3>2. RequestPart'
      BY <1>d, <2>1, <2>2, <3>1
    <3> QED  BY <1>b, <3>1, <3>2 DEF CnInv
  <2>3. CASE cnWait = << >>
    <3>1. /\ cnIdle' = <<c>> \o cnIdle /\ cnUsed' = cnUsed \ {c} /\ idleCount' = idleCount + 1
          /\ UNCHANGED cnQueue
      BY <1>5, <2>1, <2>3 DEF ReleaseHealthy, cnQueue
    <3>2. ConnPart'
      BY <1>0, <2>1, <3>1, ReleaseIdleStep
    <3> QED  BY <1>c, <2>1, <3>1, <3>2 DEF CnInv
  <2> QED  BY <2>2, <2>3
<1>6. ASSUME NEW c \in CnConns, NEW h \in BOOLEAN, NEW ok \in BOOLEAN, ReleaseBroken(c, h, ok)
      PROVE  CnInv'
  <2>1. ConnPart'
    BY <1>0, <1>6, ReleaseBrokenStep
  <2>2. UNCHANGED cnQueue /\ cnState' = cnState
    BY <1>6 DEF ReleaseBroken
  <2> QED  BY <1>c, <2>1, <2>2 DEF CnInv
<1>7. ASSUME NEW S \in SUBSET CnConns, HealthCheck(S)
      PROVE  CnInv'
  <2>1. ConnPart'
    BY <1>0, <1>7, DropStep DEF HealthCheck
  <2>2. UNCHANGED cnQueue /\ cnState' = cnState
    BY <1>7 DEF HealthCheck, DropIdle
  <2> QED  BY <1>c, <2>1, <2>2 DEF CnInv
<1>8. CASE CleanupIdle
  <2>1. PICK S : S \subseteq Range(cnIdle) /\ DropIdle(S)
    BY <1>8 DEF CleanupIdle, Range
  <2>2. ConnPart'
    BY <1>0, <2>1, DropStep
  <2>3. UNCHANGED cnQueue /\ cnState' = cnState
    BY <2>1 DEF DropIdle
  <2> QED  BY <1>c, <2>2, <2>3 DEF CnInv
<1>9. CASE ConnPoolFree
  <2>1. << >> \in Seq(CnConns) /\ Len(<< >>) = 0 /\ IsInjective(<< >>) /\ Range(<< >>) = {}
    BY DEF IsInjective, Range
  <2>2. /\ cnIdle' = << >> /\ cnUsed' = cnUsed /\ idleCount' = 0
        /\ totalConns' = totalConns - Len(cnIdle)
    BY <1>9 DEF ConnPoolFree
  <2>3. totalConns' = Cardinality(cnUsed)
    <3>1. /\ Len(cnIdle) \in Nat /\ Cardinality(cnUsed) \in Nat
          /\ totalConns = Len(cnIdle) + Cardinality(cnUsed)
      BY <1>0, RoomIsUnused DEF ConnPart
    <3> QED  BY <2>2, <3>1
  <2>4. ConnPart'
    <3>1. Cardinality(cnUsed) \in Nat
      BY <1>0, RoomIsUnused
    <3>2. /\ cnIdle' \in Seq(CnConns) /\ IsInjective(cnIdle') /\ Range(cnIdle') = {}
          /\ Len(cnIdle') = 0
      BY <2>1, <2>2
    <3>3. idleCount' = Len(cnIdle') /\ totalConns' = Len(cnIdle') + Cardinality(cnUsed')
      BY <2>2, <2>3, <3>1, <3>2
    <3> QED  BY <1>0, <2>2, <3>2, <3>3 DEF ConnPart
  <2>5. cnState' = "closing" /\ UNCHANGED cnQueue
    BY <1>9 DEF ConnPoolFree
  <2> QED  BY <1>a, <2>4, <2>5 DEF CnInv
<1>12. CASE FreeAnswers
  <2>1. RequestPart'
    BY <1>d, <1>12 DEF FreeAnswers
  <2>2. UNCHANGED <<cnIdle, cnUsed, totalConns, idleCount>>
    BY <1>12 DEF FreeAnswers
  <2> QED  BY <1>b, <2>1, <2>2 DEF CnInv
<1>13. CASE AnswerReturns \/ ConnPoolFreed \/ ServeReturns
  <2>1. UNCHANGED cnQueue /\ UNCHANGED <<cnIdle, cnUsed, totalConns, idleCount>>
        /\ (cnState' = "closing" \/ cnState' = cnState \/ (cnState' = "freed" /\ cnWait = << >>))
    BY <1>13 DEF AnswerReturns, ConnPoolFreed, ServeReturns
  <2>2. RequestPart'
    BY <1>0, <1>a, <1>c, <2>1
  <2> QED  BY <1>b, <2>1, <2>2 DEF CnInv
<1>14. ASSUME NEW c \in CnConns, ReleaseDestroyed(c)
      PROVE  CnInv'
  <2>1. UNCHANGED cnQueue /\ cnState' = cnState /\ cnIdle' = cnIdle /\ idleCount' = idleCount /\ c \in cnUsed
    BY <1>14 DEF ReleaseDestroyed
  <2>2. CASE cnState = "freed"
    <3>1. cnUsed' = cnUsed /\ totalConns' = totalConns
      BY <1>14, <2>2 DEF ReleaseDestroyed
    <3> QED  BY <1>b, <1>c, <2>1, <3>1 DEF CnInv
  <2>3. CASE cnState # "freed"
    <3>1. cnUsed' = cnUsed \ {c} /\ totalConns' = totalConns - 1
      BY <1>14, <2>3 DEF ReleaseDestroyed
    <3>2. IsFiniteSet(cnUsed) /\ Cardinality(cnUsed) \in Nat /\ Len(cnIdle) \in Nat
      BY <1>0, RoomIsUnused
    <3>3. Cardinality(cnUsed') = Cardinality(cnUsed) - 1
      BY <2>1, <3>1, <3>2, FS_RemoveElement
    <3>4. totalConns' = Len(cnIdle') + Cardinality(cnUsed')
      BY <1>0, <2>1, <3>1, <3>2, <3>3 DEF ConnPart
    <3>5. ConnPart'
      BY <1>0, <2>1, <3>1, <3>4 DEF ConnPart
    <3> QED  BY <1>c, <2>1, <3>5 DEF CnInv
  <2> QED  BY <2>2, <2>3
<1>10. CASE Age
  <2>1. UNCHANGED cnQueue /\ cnState' = cnState
        /\ UNCHANGED <<cnIdle, cnUsed, totalConns, idleCount>>
    BY <1>10 DEF Age
  <2> QED  BY <1>b, <1>c, <2>1 DEF CnInv
<1>11. CASE UNCHANGED cnVars
  <2>1. UNCHANGED cnQueue /\ cnState' = cnState
        /\ UNCHANGED <<cnIdle, cnUsed, totalConns, idleCount>>
    BY <1>11 DEF cnVars, cnQueue
  <2> QED  BY <1>b, <1>c, <2>1 DEF CnInv
<1> QED
  BY <1>1, <1>2, <1>3, <1>4, <1>5, <1>6, <1>7, <1>8, <1>9, <1>10, <1>11, <1>12, <1>13, <1>14 DEF CnNext

\* Connections are neither lost nor lent twice and every request that was queued
\* or served is answered once, for any size of the pool and any number of
\* requests, over failing validation, expiry, replacement and a free with
\* connections out, up to a use of the freed pool (loopyConnPoolAcquireAsync,
\* loopyConnPoolRelease, loopyConnPoolFree).
THEOREM ConnPoolIsExact == CnSpec => []ConnPoolExact
<1>1. CnInit => CnInv
  <2> SUFFICES ASSUME CnInit
               PROVE  CnInv
    OBVIOUS
  <2>1. << >> \in Seq(CnConns) /\ Len(<< >>) = 0 /\ IsInjective(<< >>) /\ Range(<< >>) = {}
        /\ << >> \in Seq(CnRequests)
    BY DEF IsInjective, Range
  <2>2. ConnPart
    BY <2>1, FS_EmptySet DEF CnInit, ConnPart
  <2>3. RequestPart
    BY <2>1 DEF CnInit, RequestPart
  <2> QED  BY <2>2, <2>3 DEF CnInv
<1>2. CnInv => ConnPoolExact
  <2> SUFFICES ASSUME CnInv
               PROVE  ConnPoolExact
    OBVIOUS
  <2>1. ConnConserved
    BY RoomIsUnused DEF CnInv, ConnPart, ConnConserved
  <2>2. AnsweredOnce
    BY DEF CnInv, RequestPart, AnsweredOnce
  <2> QED  BY <2>1, <2>2 DEF ConnPoolExact
<1> QED  BY <1>1, <1>2, CnStep, PTL DEF CnSpec

-----------------------------------------------------------------------------
(* Publish/subscribe                                                        *)

\* A subscription's record, and what holds of it: QueueExact, the tail pointer
\* is set while the queue is not empty, and only its head may have been seen.
SubType ==
  [state : {"none", "new", "on", "freed"}, pattern : PsPatterns, kind : PsKinds,
   queue : Seq(Nat), tail : BOOLEAN, len : Nat, put : SUBSET Nat, seen : SUBSET Nat,
   done : SUBSET Nat]
QueueOK(b) ==
  /\ b.len = Len(b.queue) /\ IsInjective(b.queue)
  /\ b.put = b.done \cup Range(b.queue) /\ b.done \cap Range(b.queue) = {}
  /\ b.kind.drop /\ b.kind.size > 0 => b.len <= b.kind.size
  /\ b.tail <=> b.queue # << >>
  /\ b.seen \subseteq b.put
  /\ b.queue # << >> => b.seen \cap Range(Tail(b.queue)) = {}
SubOK(b) == b \in SubType /\ QueueOK(b)

\* A fresh record is in order, whatever its state, pattern and options.
LEMMA NoSubOK ==
  ASSUME NEW state \in {"none", "new", "on", "freed"}, NEW p \in PsPatterns, NEW k \in PsKinds
  PROVE  /\ SubOK([NoSub EXCEPT !.state = state, !.pattern = p, !.kind = k])
         /\ SubOK([NoSub EXCEPT !.state = state]) /\ SubOK(NoSub)
         /\ NoSub.put = {} /\ NoSub.state = "none"
<1>1. NoSub \in SubType /\ NoSub.queue = << >> /\ NoSub.len = 0 /\ ~NoSub.tail
      /\ NoSub.put = {} /\ NoSub.seen = {} /\ NoSub.done = {} /\ NoSub.state = "none"
  BY PsAssumption DEF NoSub, SubType
<1>2. << >> \in Seq(Nat) /\ Len(<< >>) = 0 /\ IsInjective(<< >>) /\ Range(<< >>) = {}
  BY DEF IsInjective, Range
<1>3. \A j \in PsKinds : j.size \in Nat
  BY PsAssumption
<1>4. ASSUME NEW b \in SubType, b.queue = << >>, b.len = 0, ~b.tail, b.put = {}, b.seen = {}, b.done = {}
      PROVE  SubOK(b)
  <2>1. b.kind \in PsKinds
    BY DEF SubType
  <2>2. b.kind.size > 0 => b.len <= b.kind.size
    BY <1>3, <1>4, <2>1
  <2> QED  BY <1>2, <1>4, <2>2 DEF SubOK, QueueOK
<1> HIDE DEF NoSub
<1> DEFINE b1 == [NoSub EXCEPT !.state = state, !.pattern = p, !.kind = k]
           b2 == [NoSub EXCEPT !.state = state]
<1>5. b1 \in SubType /\ b1.queue = << >> /\ b1.len = 0 /\ ~b1.tail
      /\ b1.put = {} /\ b1.seen = {} /\ b1.done = {}
  BY <1>1 DEF SubType
<1>6. b2 \in SubType /\ b2.queue = << >> /\ b2.len = 0 /\ ~b2.tail
      /\ b2.put = {} /\ b2.seen = {} /\ b2.done = {}
  BY <1>1 DEF SubType
<1> HIDE DEF b1, b2
<1>7. SubOK(b1) /\ SubOK(b2) /\ SubOK(NoSub)
  BY <1>1, <1>4, <1>5, <1>6
<1> QED  BY <1>1, <1>7 DEF b1, b2

\* A message that was not queued before goes to the end.
LEMMA EnqueuedOK ==
  ASSUME NEW b, SubOK(b), NEW n \in Nat, n \notin b.put,
         b.kind.drop /\ b.kind.size > 0 => b.len < b.kind.size
  PROVE  /\ SubOK(Enqueued(b, n)) /\ Enqueued(b, n).put = b.put \cup {n}
         /\ Enqueued(b, n).state = b.state /\ Enqueued(b, n).pattern = b.pattern
<1> DEFINE e == Enqueued(b, n)
           q == b.queue
<1>1. /\ q \in Seq(Nat) /\ IsInjective(q) /\ n \notin Range(q) /\ Len(q) \in Nat /\ b.len = Len(q)
      /\ b.tail \in BOOLEAN /\ (b.tail <=> q # << >>) /\ b \in SubType /\ b.kind \in PsKinds
  BY DEF SubOK, QueueOK, SubType
<1>2. e.queue = Append(q, n)
  <2>1. CASE q = << >>
    <3>1. Append(<< >>, n) = <<n>>
      OBVIOUS
    <3> QED  BY <1>1, <2>1, <3>1 DEF Enqueued, SubType
  <2>2. CASE q # << >>
    BY <1>1, <2>2 DEF Enqueued, SubType
  <2> QED  BY <2>1, <2>2
<1>3. /\ Append(q, n) \in Seq(Nat) /\ Len(Append(q, n)) = Len(q) + 1
      /\ Range(Append(q, n)) = Range(q) \cup {n} /\ IsInjective(Append(q, n))
  BY <1>1, AppendList
<1>4. /\ e.tail = TRUE /\ e.len = b.len + 1 /\ e.put = b.put \cup {n} /\ e.seen = b.seen
      /\ e.done = b.done /\ e.kind = b.kind /\ e.state = b.state /\ e.pattern = b.pattern
  BY <1>1 DEF Enqueued, SubType
<1>5. e \in SubType
  <2> DEFINE newq == IF b.tail THEN Append(q, n) ELSE <<n>>
             put1 == b.put \cup {n}
             len1 == b.len + 1
  <2>1. newq \in Seq(Nat) /\ put1 \in SUBSET Nat /\ len1 \in Nat
    BY <1>1, <1>3 DEF SubType
  <2>2. e = [b EXCEPT !.queue = newq, !.tail = TRUE, !.len = len1, !.put = put1]
    BY <1>1 DEF Enqueued, SubType
  <2> HIDE DEF newq, put1, len1, e
  <2> QED  BY <1>1, <2>1, <2>2 DEF SubType
<1>6. e.queue # << >>
  <2>1. Len(e.queue) # 0 /\ Len(<< >>) = 0
    BY <1>1, <1>2, <1>3
  <2> QED  BY <2>1
<1>7. e.seen \cap Range(Tail(e.queue)) = {}
  <2>1. b.seen \subseteq b.put /\ n \notin b.seen
    BY DEF SubOK, QueueOK
  <2>2. CASE q = << >>
    <3>1. Range(e.queue) = {n} /\ e.queue \in Seq(Nat)
      BY <1>2, <1>3, <2>2 DEF Range
    <3>2. Range(Tail(e.queue)) \subseteq {n}
      BY <1>6, <3>1, SplitList
    <3> QED  BY <1>4, <2>1, <3>2
  <2>3. CASE q # << >>
    <3>1. b.seen \cap Range(Tail(q)) = {}
      BY <2>3 DEF SubOK, QueueOK
    <3>2. Tail(Append(q, n)) = Append(Tail(q), n) /\ Tail(q) \in Seq(Nat)
      BY <1>1, <2>3
    <3>3. Range(Append(Tail(q), n)) = Range(Tail(q)) \cup {n}
      <4> DEFINE tq == Tail(q)
      <4>1. tq \in Seq(Nat) /\ n \in Nat
        BY <3>2
      <4> HIDE DEF tq
      <4>2. Range(Append(tq, n)) = Range(tq) \cup {n}
        BY <4>1, AppendList
      <4> QED  BY <4>2 DEF tq
    <3> QED  BY <1>2, <1>4, <2>1, <3>1, <3>2, <3>3
  <2> QED  BY <2>2, <2>3
<1>8. e.put = e.done \cup Range(e.queue) /\ e.done \cap Range(e.queue) = {} /\ e.seen \subseteq e.put
  BY <1>2, <1>3, <1>4 DEF SubOK, QueueOK
<1>9. e.kind.drop /\ e.kind.size > 0 => e.len <= e.kind.size
  BY <1>1, <1>4, PsAssumption DEF SubType
<1> HIDE DEF e
<1>10. QueueOK(e)
  BY <1>1, <1>2, <1>3, <1>4, <1>6, <1>7, <1>8, <1>9 DEF QueueOK
<1> QED  BY <1>4, <1>5, <1>10 DEF SubOK, e

\* The head leaves the queue, or stays until it is acknowledged.
LEMMA ReceivedOK ==
  ASSUME NEW b, SubOK(b), b.queue # << >>
  PROVE  /\ SubOK(Received(b)) /\ Received(b).put = b.put
         /\ Received(b).state = b.state /\ Received(b).pattern = b.pattern
<1> DEFINE e == Received(b)
           q == b.queue
           h == Head(q)
           rest == Tail(q)
           seen1 == b.seen \cup {h}
           done1 == b.done \cup {h}
           len1 == b.len - 1
           tail1 == rest # << >> /\ b.tail
<1>1. /\ b \in SubType /\ q \in Seq(Nat) /\ q # << >> /\ IsInjective(q) /\ Len(q) \in Nat
      /\ b.len = Len(q) /\ b.tail = TRUE /\ b.kind \in PsKinds
      /\ b.put = b.done \cup Range(q) /\ b.done \cap Range(q) = {}
      /\ b.seen \subseteq b.put /\ b.seen \cap Range(rest) = {}
      /\ b.seen \in SUBSET Nat /\ b.done \in SUBSET Nat
  BY DEF SubOK, QueueOK, SubType
<1>2. /\ h \in Nat /\ rest \in Seq(Nat) /\ Len(rest) = Len(q) - 1 /\ Len(rest) \in Nat
      /\ Range(q) = Range(rest) \cup {h} /\ IsInjective(rest) /\ h \notin Range(rest)
  BY <1>1, SplitList, LenProperties
<1>3. seen1 \in SUBSET Nat /\ done1 \in SUBSET Nat /\ len1 \in Nat /\ tail1 \in BOOLEAN
  BY <1>1, <1>2
<1>4. CASE b.kind.manual
  <2>1. e = [b EXCEPT !.seen = seen1]
    BY <1>1, <1>4 DEF Received, SubType
  <2> HIDE DEF e, h, rest, seen1
  <2>2. e \in SubType
    BY <1>1, <1>3, <2>1 DEF SubType
  <2>3. /\ e.queue = q /\ e.seen = seen1 /\ e.tail = b.tail /\ e.len = b.len /\ e.put = b.put
        /\ e.done = b.done /\ e.kind = b.kind /\ e.state = b.state /\ e.pattern = b.pattern
    BY <1>1, <2>1 DEF SubType
  <2>4. e.seen \subseteq e.put /\ e.seen \cap Range(Tail(e.queue)) = {}
    BY <1>1, <1>2, <2>3 DEF seen1, rest
  <2>5. QueueOK(e)
    BY <2>3, <2>4 DEF QueueOK, SubOK
  <2> QED  BY <2>2, <2>3, <2>5 DEF SubOK, e
<1>5. CASE ~b.kind.manual
  <2>1. e = [b EXCEPT !.queue = rest, !.tail = tail1, !.len = len1, !.seen = seen1, !.done = done1]
    BY <1>1, <1>5 DEF Received, SubType
  <2>2. tail1 <=> rest # << >>
    BY <1>1
  <2>3. rest # << >> => seen1 \cap Range(Tail(rest)) = {}
    <3>1. rest # << >> => Range(Tail(rest)) \subseteq Range(rest)
      BY <1>2, SplitList, ZenonT(60)
    <3> QED  BY <1>1, <1>2, <3>1
  <2>4. /\ seen1 \subseteq b.put /\ b.put = done1 \cup Range(rest) /\ done1 \cap Range(rest) = {}
    BY <1>1, <1>2
  <2>5. len1 = Len(rest) /\ (b.kind.drop /\ b.kind.size > 0 => len1 <= b.kind.size)
    <3>1. b.kind.size \in Nat
      BY <1>1, PsAssumption
    <3>2. b.kind.drop /\ b.kind.size > 0 => b.len <= b.kind.size
      BY DEF SubOK, QueueOK
    <3> QED  BY <1>1, <1>2, <3>1, <3>2
  <2> HIDE DEF e, h, rest, seen1, done1, len1, tail1
  <2>6. e \in SubType
    BY <1>1, <1>2, <1>3, <2>1 DEF SubType
  <2>7. /\ e.queue = rest /\ e.seen = seen1 /\ e.tail = tail1 /\ e.len = len1 /\ e.put = b.put
        /\ e.done = done1 /\ e.kind = b.kind /\ e.state = b.state /\ e.pattern = b.pattern
    BY <1>1, <2>1 DEF SubType
  <2>8. QueueOK(e)
    BY <1>2, <2>2, <2>3, <2>4, <2>5, <2>7 DEF QueueOK
  <2> QED  BY <2>6, <2>7, <2>8 DEF SubOK, e
<1> QED  BY <1>4, <1>5

\* Only the head can have been seen and be in the queue still, so it is what
\* an acknowledgement unlinks; the tail pointer stays right because of it.
LEMMA AckedOK ==
  ASSUME NEW b, SubOK(b), NEW n \in b.seen, n \in Range(b.queue)
  PROVE  /\ SubOK(Acked(b, n)) /\ Acked(b, n).put = b.put
         /\ Acked(b, n).state = b.state /\ Acked(b, n).pattern = b.pattern
<1> DEFINE e == Acked(b, n)
           q == b.queue
           left == RemoveFirst(q, n)
           done1 == b.done \cup {n}
           len1 == b.len - 1
           tail1 == b.tail /\ q[Len(q)] # n
<1>1. /\ b \in SubType /\ q \in Seq(Nat) /\ IsInjective(q) /\ Len(q) \in Nat
      /\ b.len = Len(q) /\ (b.tail <=> q # << >>) /\ b.kind \in PsKinds /\ b.tail \in BOOLEAN
      /\ b.put = b.done \cup Range(q) /\ b.done \cap Range(q) = {} /\ b.seen \subseteq b.put
      /\ b.seen \in SUBSET Nat /\ b.done \in SUBSET Nat /\ n \in Nat
  BY DEF SubOK, QueueOK, SubType
<1>2. q # << >> /\ b.seen \cap Range(Tail(q)) = {}
  <2>1. q # << >>
    BY <1>1, EmptyList
  <2> QED  BY <2>1 DEF SubOK, QueueOK
<1>3. /\ left \in Seq(Nat) /\ Len(left) = Len(q) - 1 /\ IsInjective(left)
      /\ Range(left) = Range(q) \ {n}
  BY <1>1, UnlinkOne
<1>4. /\ Range(q) = Range(Tail(q)) \cup {Head(q)} /\ Head(q) \notin Range(Tail(q))
      /\ n = Head(q) /\ Head(q) = q[1]
  <2>1. Range(q) = Range(Tail(q)) \cup {Head(q)} /\ Head(q) \notin Range(Tail(q))
    BY <1>1, <1>2, SplitList
  <2>2. Head(q) = q[1]
    BY <1>1, <1>2
  <2> QED  BY <1>2, <2>1, <2>2
<1>5. Len(left) \in Nat /\ Len(q) \in Nat \ {0} /\ DOMAIN q = 1 .. Len(q)
  BY <1>1, <1>2, <1>3, LenProperties, EmptySeq
<1>6. tail1 <=> left # << >>
  <2>1. q[Len(q)] = n <=> Len(q) = 1
    <3>1. Len(q) \in DOMAIN q /\ 1 \in DOMAIN q
      BY <1>5
    <3> QED  BY <1>1, <1>4, <3>1 DEF IsInjective
  <2>2. left = << >> <=> Len(left) = 0
    BY <1>3, EmptySeq
  <2>3. b.tail
    BY <1>1, <1>2
  <2> QED  BY <1>3, <1>5, <2>1, <2>2, <2>3
<1>7. done1 \in SUBSET Nat /\ len1 \in Nat /\ tail1 \in BOOLEAN /\ len1 = Len(left)
  BY <1>1, <1>3, <1>5
<1>8. left # << >> => b.seen \cap Range(Tail(left)) = {}
  <2>1. left # << >> => Range(Tail(left)) \subseteq Range(left)
    BY <1>3, SplitList
  <2>2. Range(left) \subseteq Range(Tail(q))
    BY <1>3, <1>4
  <2> QED  BY <1>2, <2>1, <2>2
<1>9. b.put = done1 \cup Range(left) /\ done1 \cap Range(left) = {}
  BY <1>1, <1>3
<1>10. b.kind.drop /\ b.kind.size > 0 => len1 <= b.kind.size
  <2>1. b.kind.size \in Nat
    BY <1>1, PsAssumption
  <2>2. b.kind.drop /\ b.kind.size > 0 => b.len <= b.kind.size
    BY DEF SubOK, QueueOK
  <2> QED  BY <1>1, <2>1, <2>2
<1>11. e = [b EXCEPT !.queue = left, !.len = len1, !.tail = tail1, !.done = done1]
  BY <1>1 DEF Acked, SubType
<1> HIDE DEF e, left, done1, len1, tail1
<1>12. e \in SubType
  BY <1>1, <1>3, <1>7, <1>11 DEF SubType
<1>13. /\ e.queue = left /\ e.seen = b.seen /\ e.tail = tail1 /\ e.len = len1 /\ e.put = b.put
       /\ e.done = done1 /\ e.kind = b.kind /\ e.state = b.state /\ e.pattern = b.pattern
  BY <1>1, <1>11 DEF SubType
<1>14. QueueOK(e)
  BY <1>1, <1>3, <1>6, <1>7, <1>8, <1>9, <1>10, <1>13 DEF QueueOK
<1> QED  BY <1>12, <1>13, <1>14 DEF SubOK, e

\* What the threads are in the middle of.  A drawn number is nobody else's and
\* no queue holds it yet; a publisher that holds the lock visits subscriptions
\* that are on, each once, and has not queued its message there; a subscription
\* waiting to be inserted is new, and one thread's.
CallType == [op : {"idle", "insert", "publish", "match"}, seq : Nat, todo : Seq(PsSubs)]
Numbered(c) == c.op = "publish" \/ c.op = "match"
CallOK(c, sub, last) ==
  /\ Numbered(c) => c.seq \in 1 .. last
  /\ c.op = "publish" => \A s \in PsSubs : c.seq \notin sub[s].put
  /\ c.op = "match" =>
       /\ IsInjective(c.todo)
       /\ \A s \in Range(c.todo) : sub[s].state = "on" /\ c.seq \notin sub[s].put
  /\ c.op = "insert" => c.todo # << >> /\ sub[Head(c.todo)].state = "new"
Apart(c, d) ==
  /\ Numbered(c) /\ Numbered(d) => c.seq # d.seq
  /\ c.op = "insert" /\ d.op = "insert" => Head(c.todo) # Head(d.todo)
CallInv ==
  /\ psSequence \in Nat /\ psCall \in [PsThreads -> CallType]
  /\ \A s \in PsSubs : psSub[s].put \subseteq 1 .. psSequence
  /\ \A t \in PsThreads : CallOK(psCall[t], psSub, psSequence)
  /\ \A t, u \in PsThreads : t # u => Apart(psCall[t], psCall[u])

SubsInv == psSub \in [PsSubs -> SubType] /\ \A s \in PsSubs : QueueOK(psSub[s])

\* HubExact without what it says of the threads.
On == {s \in PsSubs : psSub[s].state = "on"}
HubInv ==
  /\ psTopics \in [Bound -> Seq(PsSubs)] /\ Bound \subseteq PsPatterns
  /\ IsFiniteSet(Bound) /\ patternCount = Cardinality(Bound)
  /\ IsFiniteSet(On) /\ subscriptionCount = Cardinality(On)
  /\ \A p \in Bound : psTopics[p] # << >> /\ IsInjective(psTopics[p])
  /\ \A p \in PsPatterns : \A s \in PsSubs :
       psSub[s].state = "on" /\ psSub[s].pattern = p <=> p \in Bound /\ s \in Range(psTopics[p])

PsInv == SubsInv /\ CallInv /\ HubInv

\* A hub without subscriptions.
LEMMA PsInitOK == PsInit => PsInv
<1> SUFFICES ASSUME PsInit
             PROVE  PsInv
  OBVIOUS
<1>1. \A s \in PsSubs : psSub[s] = NoSub
  BY DEF PsInit
<1>2. psSub = [s \in PsSubs |-> NoSub]
  BY DEF PsInit
<1>3. SubOK(NoSub) /\ NoSub.put = {} /\ NoSub.state = "none"
  BY NoSubOK, PsAssumption
<1> HIDE DEF NoSub
<1>4. SubsInv
  BY <1>1, <1>2, <1>3 DEF SubsInv, SubOK
<1>5. << >> \in Seq(PsSubs) /\ PsIdle \in CallType /\ PsIdle.op = "idle"
  BY DEF PsIdle, CallType
<1>6. CallInv
  <2>1. psSequence = 0 /\ psCall = [t \in PsThreads |-> PsIdle]
    BY DEF PsInit
  <2>2. CallOK(PsIdle, psSub, psSequence) /\ Apart(PsIdle, PsIdle)
    BY <1>5 DEF CallOK, Apart, Numbered
  <2> HIDE DEF PsIdle
  <2> QED  BY <1>1, <1>3, <1>5, <2>1, <2>2 DEF CallInv
<1>7. HubInv
  <2>1. Bound = {} /\ psTopics \in [{} -> Seq(PsSubs)]
    BY DEF PsInit, Bound
  <2>2. On = {}
    BY <1>1, <1>3 DEF On
  <2>3. patternCount = 0 /\ subscriptionCount = 0
    BY DEF PsInit
  <2> QED  BY <1>1, <1>3, <2>1, <2>2, <2>3, FS_EmptySet DEF HubInv
<1> QED  BY <1>4, <1>6, <1>7 DEF PsInv

\* One thread's call changes: what has to be shown of it and of the others.
LEMMA CallsAfter ==
  ASSUME CallInv, NEW t \in PsThreads, NEW c \in CallType,
         psCall' = [psCall EXCEPT ![t] = c], psSequence' \in Nat,
         \A s \in PsSubs : psSub'[s].put \subseteq 1 .. psSequence',
         CallOK(c, psSub', psSequence'),
         \A u \in PsThreads : u # t =>
           /\ CallOK(psCall[u], psSub', psSequence')
           /\ Apart(psCall[u], c)
  PROVE  CallInv'
<1>1. psCall' \in [PsThreads -> CallType]
  BY DEF CallInv
<1>2. psCall'[t] = c /\ \A u \in PsThreads : u # t => psCall'[u] = psCall[u]
  BY DEF CallInv
<1>3. \A u \in PsThreads : CallOK(psCall'[u], psSub', psSequence')
  BY <1>2
<1>4. \A u \in PsThreads : u # t => Apart(c, psCall[u])
  BY DEF Apart
<1>5. \A u, v \in PsThreads : u # v => Apart(psCall'[u], psCall'[v])
  BY <1>2, <1>4 DEF CallInv
<1> QED  BY <1>1, <1>3, <1>5 DEF CallInv

\* The subscriptions' queues may change; the hub's own structures do not.
LEMMA HubKept ==
  ASSUME HubInv, SubsInv, UNCHANGED <<psTopics, subscriptionCount, patternCount>>,
         \A s \in PsSubs : /\ psSub'[s].state = "on" <=> psSub[s].state = "on"
                           /\ psSub[s].state = "on" => psSub'[s].pattern = psSub[s].pattern
  PROVE  HubInv'
<1>1. On' = On
  BY DEF On
<1>2. UNCHANGED <<Bound, psTopics, subscriptionCount, patternCount>>
  BY DEF Bound
<1> QED  BY <1>1, <1>2 DEF HubInv

\* Nobody's subscription changes.
LEMMA PsSubsSame ==
  ASSUME PsInv, UNCHANGED <<psTopics, subscriptionCount, patternCount, psSub>>
  PROVE  SubsInv' /\ HubInv'
<1>1. UNCHANGED <<psTopics, subscriptionCount, patternCount>> /\ psSub' = psSub
  OBVIOUS
<1>2. SubsInv'
  BY <1>1 DEF PsInv, SubsInv
<1> QED  BY <1>1, <1>2, HubKept DEF PsInv

\* One subscription's record is replaced.
LEMMA SubReplaced ==
  ASSUME SubsInv, NEW s \in PsSubs, NEW b, SubOK(b), psSub' = [psSub EXCEPT ![s] = b]
  PROVE  SubsInv' /\ psSub'[s] = b /\ \A x \in PsSubs : x # s => psSub'[x] = psSub[x]
<1>1. psSub' \in [PsSubs -> SubType]
  BY DEF SubsInv, SubOK
<1>2. psSub'[s] = b /\ \A x \in PsSubs : x # s => psSub'[x] = psSub[x]
  BY DEF SubsInv
<1>3. \A x \in PsSubs : QueueOK(psSub'[x])
  BY <1>2 DEF SubsInv, SubOK
<1> QED  BY <1>1, <1>2, <1>3 DEF SubsInv

\* A thread that has returned to its caller is in nobody's way.
LEMMA PsIdleOK ==
  /\ PsIdle \in CallType
  /\ \A sub, last : CallOK(PsIdle, sub, last)
  /\ \A c : Apart(c, PsIdle)
<1>1. << >> \in Seq(PsSubs) /\ PsIdle \in CallType /\ PsIdle.op = "idle"
  BY DEF PsIdle, CallType
<1> QED  BY <1>1 DEF CallOK, Apart, Numbered

\* A subscription that is being made has an empty queue and is one thread's.
LEMMA PsSubscribeStep ==
  ASSUME PsInv, NEW t \in PsThreads, NEW s \in PsSubs, NEW p \in PsPatterns, NEW k \in PsKinds,
         Subscribe(t, s, p, k)
  PROVE  PsInv'
<1> DEFINE b == [NoSub EXCEPT !.state = "new", !.pattern = p, !.kind = k]
           c == [op |-> "insert", seq |-> 0, todo |-> <<s>>]
<1>1. /\ psSub[s].state = "none" /\ psSub' = [psSub EXCEPT ![s] = b]
      /\ psCall' = [psCall EXCEPT ![t] = c] /\ psSequence' = psSequence
      /\ UNCHANGED <<psTopics, subscriptionCount, patternCount>>
  BY DEF Subscribe
<1>2. SubOK(b)
  BY NoSubOK
<1>3. b.state = "new" /\ b.put = {}
  BY DEF NoSub
<1>4. c \in CallType /\ c.op = "insert" /\ c.todo # << >> /\ Head(c.todo) = s
  BY DEF CallType
<1> HIDE DEF b, c
<1>5. SubsInv' /\ psSub'[s] = b /\ \A x \in PsSubs : x # s => psSub'[x] = psSub[x]
  BY <1>1, <1>2, SubReplaced DEF PsInv
<1>6. HubInv'
  BY <1>1, <1>3, <1>5, HubKept DEF PsInv
<1>7. CallInv'
  <2>1. \A x \in PsSubs : psSub'[x].put \subseteq 1 .. psSequence'
    BY <1>1, <1>3, <1>5 DEF PsInv, CallInv
  <2>2. CallOK(c, psSub', psSequence')
    BY <1>3, <1>4, <1>5 DEF CallOK, Numbered
  <2>3. ASSUME NEW u \in PsThreads, u # t
        PROVE  CallOK(psCall[u], psSub', psSequence') /\ Apart(psCall[u], c)
    <3> DEFINE d == psCall[u]
    <3>1. d \in CallType /\ CallOK(d, psSub, psSequence)
      BY DEF PsInv, CallInv
    <3>2. d.todo \in Seq(PsSubs) /\ Range(d.todo) \subseteq PsSubs
      BY <3>1, EmptyList DEF CallType
    <3>3. d.todo # << >> => Head(d.todo) \in PsSubs
      BY <3>2
    <3> HIDE DEF d
    <3>4. CallOK(d, psSub', psSequence')
      BY <1>1, <1>3, <1>5, <3>1, <3>2, <3>3 DEF CallOK
    <3>5. Apart(d, c)
      BY <1>1, <1>4, <3>1 DEF CallOK, Apart, Numbered
    <3> QED  BY <3>4, <3>5 DEF d
  <2>4. CallInv /\ psSequence' \in Nat
    BY <1>1 DEF PsInv, CallInv
  <2> QED  BY <1>1, <1>4, <2>1, <2>2, <2>3, <2>4, CallsAfter
<1> QED  BY <1>5, <1>6, <1>7 DEF PsInv

\* The number that is drawn is larger than all in any queue or hand.
LEMMA PsPublishStep ==
  ASSUME PsInv, NEW t \in PsThreads, Publish(t)
  PROVE  PsInv'
<1> DEFINE n == psSequence + 1
           c == [op |-> "publish", seq |-> n, todo |-> << >>]
<1>1. /\ psCall' = [psCall EXCEPT ![t] = c] /\ psSequence' = n /\ psSub' = psSub
      /\ UNCHANGED <<psTopics, subscriptionCount, patternCount, psSub>>
  BY DEF Publish
<1>2. psSequence \in Nat /\ n \in Nat /\ n \notin 1 .. psSequence /\ n \in 1 .. n
      /\ 1 .. psSequence \subseteq 1 .. n
  BY DEF PsInv, CallInv
<1>3. << >> \in Seq(PsSubs)
  OBVIOUS
<1>4. c \in CallType /\ c.op = "publish" /\ c.seq = n
  BY <1>2, <1>3 DEF CallType
<1> HIDE DEF c, n
<1>5. SubsInv' /\ HubInv'
  BY <1>1, PsSubsSame
<1>6. CallInv'
  <2>1. \A x \in PsSubs : psSub[x].put \subseteq 1 .. n /\ n \notin psSub[x].put
    BY <1>2 DEF PsInv, CallInv
  <2>2. CallOK(c, psSub, n)
    BY <1>2, <1>4, <2>1 DEF CallOK, Numbered
  <2>3. ASSUME NEW u \in PsThreads, u # t
        PROVE  CallOK(psCall[u], psSub, n) /\ Apart(psCall[u], c)
    <3>1. CallOK(psCall[u], psSub, psSequence)
      BY DEF PsInv, CallInv
    <3> QED  BY <1>2, <1>4, <3>1 DEF CallOK, Apart, Numbered
  <2>4. CallInv
    BY DEF PsInv
  <2> QED  BY <1>1, <1>2, <1>4, <2>1, <2>2, <2>3, <2>4, CallsAfter
<1> QED  BY <1>5, <1>6 DEF PsInv

\* The publisher gives the lock back and forgets its number.
LEMMA PsDoneStep ==
  ASSUME PsInv, NEW t \in PsThreads, PublishDone(t)
  PROVE  PsInv'
<1>1. /\ psCall' = [psCall EXCEPT ![t] = PsIdle] /\ psSequence' = psSequence /\ psSub' = psSub
      /\ UNCHANGED <<psTopics, subscriptionCount, patternCount, psSub>>
  BY DEF PublishDone
<1> HIDE DEF PsIdle
<1>2. SubsInv' /\ HubInv'
  BY <1>1, PsSubsSame
<1>3. /\ CallInv /\ psSequence \in Nat
      /\ \A x \in PsSubs : psSub[x].put \subseteq 1 .. psSequence
      /\ \A u \in PsThreads : CallOK(psCall[u], psSub, psSequence)
  BY DEF PsInv, CallInv
<1>4. CallInv'
  BY <1>1, <1>3, PsIdleOK, CallsAfter
<1> QED  BY <1>2, <1>4 DEF PsInv

\* The message goes to a subscription that has not had it: other publishers
\* hold other numbers, and the rest of the list other subscriptions.
LEMMA PsDeliverStep ==
  ASSUME PsInv, NEW t \in PsThreads, Deliver(t)
  PROVE  PsInv'
<1> DEFINE todo == psCall[t].todo
           n == psCall[t].seq
           s == Head(todo)
           b == psSub[s]
           full == b.kind.size > 0 /\ b.len >= b.kind.size
           c == [psCall[t] EXCEPT !.todo = Tail(todo)]
<1>1. /\ psCall[t] \in CallType /\ todo \in Seq(PsSubs) /\ n \in Nat /\ CallOK(psCall[t], psSub, psSequence)
      /\ psSequence \in Nat /\ psCall[t].op = "match" /\ todo # << >>
  BY DEF PsInv, CallInv, CallType, Deliver
<1>2. /\ s \in PsSubs /\ Tail(todo) \in Seq(PsSubs) /\ Range(todo) = Range(Tail(todo)) \cup {s}
      /\ IsInjective(Tail(todo)) /\ s \notin Range(Tail(todo)) /\ Range(Tail(todo)) \subseteq PsSubs
  BY <1>1, SplitList, EmptyList DEF CallOK
<1>3. /\ psCall' = [psCall EXCEPT ![t] = c] /\ psSequence' = psSequence
      /\ UNCHANGED <<psTopics, subscriptionCount, patternCount>>
      /\ psSub' = IF b.kind.mode = "queue" /\ ~(full /\ b.kind.drop)
                  THEN [psSub EXCEPT ![s] = Enqueued(b, n)] ELSE psSub
  BY DEF Deliver
<1>4. /\ c \in CallType /\ c.op = "match" /\ c.seq = n /\ c.todo = Tail(todo)
  BY <1>1, <1>2 DEF CallType
<1>5. /\ n \in 1 .. psSequence /\ b.state = "on" /\ n \notin b.put /\ SubOK(b)
      /\ \A x \in Range(Tail(todo)) : psSub[x].state = "on" /\ n \notin psSub[x].put
  BY <1>1, <1>2 DEF CallOK, Numbered, PsInv, SubsInv, SubOK
<1>6. /\ SubsInv'
      /\ \A x \in PsSubs : psSub'[x].state = psSub[x].state /\ psSub'[x].pattern = psSub[x].pattern
      /\ \A x \in PsSubs : psSub'[x].put \subseteq psSub[x].put \cup {n}
      /\ \A x \in PsSubs : x # s => psSub'[x].put = psSub[x].put
  <2>1. CASE psSub' = psSub
    BY <2>1 DEF PsInv, SubsInv
  <2>2. CASE psSub' = [psSub EXCEPT ![s] = Enqueued(b, n)] /\ ~(full /\ b.kind.drop)
    <3>1. b.kind.size \in Nat /\ b.len \in Nat
      BY <1>5, PsAssumption DEF SubOK, SubType
    <3>2. b.kind.drop /\ b.kind.size > 0 => b.len < b.kind.size
      <4>1. ~(full /\ b.kind.drop)
        BY <2>2
      <4> HIDE DEF b
      <4> QED  BY <3>1, <4>1
    <3> HIDE DEF b, n, full, s
    <3>3. /\ SubOK(Enqueued(b, n)) /\ Enqueued(b, n).put = b.put \cup {n}
          /\ Enqueued(b, n).state = b.state /\ Enqueued(b, n).pattern = b.pattern
      BY <1>1, <1>5, <3>2, EnqueuedOK
    <3>4. /\ SubsInv' /\ psSub'[s] = Enqueued(b, n)
          /\ \A x \in PsSubs : x # s => psSub'[x] = psSub[x]
      BY <1>2, <2>2, <3>3, SubReplaced DEF PsInv
    <3> QED  BY <3>3, <3>4 DEF b
  <2> HIDE DEF full
  <2> QED  BY <1>3, <2>1, <2>2
<1> HIDE DEF c, todo, n, s, b, full
<1>7. HubInv'
  BY <1>3, <1>6, HubKept DEF PsInv
<1>8. CallInv'
  <2>1. \A x \in PsSubs : psSub[x].put \subseteq 1 .. psSequence
    BY DEF PsInv, CallInv
  <2>2. \A x \in PsSubs : psSub'[x].put \subseteq 1 .. psSequence'
    BY <1>3, <1>5, <1>6, <2>1
  <2>3. CallOK(c, psSub', psSequence')
    BY <1>2, <1>3, <1>4, <1>5, <1>6 DEF CallOK, Numbered
  <2>4. ASSUME NEW u \in PsThreads, u # t
        PROVE  CallOK(psCall[u], psSub', psSequence') /\ Apart(psCall[u], c)
    <3> DEFINE d == psCall[u]
    <3>1. d \in CallType /\ CallOK(d, psSub, psSequence) /\ Apart(d, psCall[t])
      BY <2>4 DEF PsInv, CallInv
    <3>2. d.todo \in Seq(PsSubs) /\ Range(d.todo) \subseteq PsSubs
      BY <3>1, EmptyList DEF CallType
    <3>3. d.todo # << >> => Head(d.todo) \in PsSubs
      BY <3>2
    <3>4. Numbered(d) => d.seq # n
      BY <1>1, <3>1 DEF Apart, Numbered, n
    <3> HIDE DEF d
    <3>5. CallOK(d, psSub', psSequence')
      BY <1>3, <1>6, <3>1, <3>2, <3>3, <3>4 DEF CallOK, Numbered
    <3>6. Apart(d, c)
      BY <1>4, <3>4 DEF Apart, Numbered
    <3> QED  BY <3>5, <3>6 DEF d
  <2>5. CallInv /\ psSequence' \in Nat
    BY <1>1, <1>3 DEF PsInv
  <2> QED  BY <1>3, <1>4, <2>2, <2>3, <2>4, <2>5, CallsAfter
<1> QED  BY <1>6, <1>7, <1>8 DEF PsInv

\* The lists of different patterns share nothing, so however the library
\* orders the patterns, a publisher visits a subscription once.
LEMMA PsMatchStep ==
  ASSUME PsInv, NEW t \in PsThreads, NEW topic \in PsTopics, Match(t, topic)
  PROVE  PsInv'
<1> DEFINE S == PsMatch[topic] \cap Bound
<1>1. PICK order \in SetToSeqs(S) :
        psCall' = [psCall EXCEPT ![t].op = "match",
                     ![t].todo = FlattenSeq([i \in DOMAIN order |-> psTopics[order[i]]])]
  BY DEF Match
<1> DEFINE ss == [i \in DOMAIN order |-> psTopics[order[i]]]
           flat == FlattenSeq(ss)
           n == psCall[t].seq
           c == [psCall[t] EXCEPT !.op = "match", !.todo = flat]
<1>2. /\ psCall[t].op = "publish" /\ psSequence' = psSequence /\ psSub' = psSub
      /\ UNCHANGED <<psTopics, subscriptionCount, patternCount, psSub>>
  BY DEF Match
<1>3. /\ DOMAIN order = 1 .. Cardinality(S) /\ \A i \in DOMAIN order : order[i] \in S
      /\ \A i, j \in DOMAIN order : i # j => order[i] # order[j]
  BY DEF SetToSeqs
<1>4. Cardinality(S) \in Nat
  <2>1. IsFiniteSet(S)
    BY FS_Subset DEF PsInv, HubInv
  <2> QED  BY <2>1, FS_CardinalityType
<1>5. \A i \in DOMAIN order : order[i] \in Bound /\ order[i] \in PsPatterns
  BY <1>3 DEF PsInv, HubInv
<1>6. /\ ss \in Seq(Seq(PsSubs)) /\ Len(ss) = Cardinality(S)
      /\ \A i \in 1 .. Len(ss) : ss[i] = psTopics[order[i]] /\ i \in DOMAIN order
  <2>1. \A i \in DOMAIN order : psTopics[order[i]] \in Seq(PsSubs)
    BY <1>5 DEF PsInv, HubInv
  <2> HIDE DEF S
  <2>2. ss \in [1 .. Cardinality(S) -> Seq(PsSubs)]
    BY <1>3, <2>1
  <2>3. ss \in Seq(Seq(PsSubs)) /\ DOMAIN ss = 1 .. Cardinality(S)
    BY <1>4, <2>2
  <2>4. Len(ss) = Cardinality(S)
    <3> HIDE DEF ss
    <3> QED  BY <1>4, <2>3, LenProperties
  <2> QED  BY <1>3, <2>3, <2>4
<1>7. \A i \in 1 .. Len(ss) : IsInjective(ss[i])
  BY <1>5, <1>6 DEF PsInv, HubInv
<1>8. \A i \in 1 .. Len(ss) : \A x \in PsSubs : x \in Range(ss[i]) =>
        psSub[x].state = "on" /\ psSub[x].pattern = order[i]
  BY <1>5, <1>6 DEF PsInv, HubInv
<1>9. \A i \in 1 .. Len(ss) : ss[i] \in Seq(PsSubs) /\ Range(ss[i]) \subseteq PsSubs
  BY <1>5, <1>6, EmptyList, ZenonT(30) DEF PsInv, HubInv
<1>10. \A i, j \in 1 .. Len(ss) : i # j => Range(ss[i]) \cap Range(ss[j]) = {}
  <2> SUFFICES ASSUME NEW i \in 1 .. Len(ss), NEW j \in 1 .. Len(ss), i # j,
                      NEW x, x \in Range(ss[i]), x \in Range(ss[j])
               PROVE  FALSE
    OBVIOUS
  <2> HIDE DEF ss, S
  <2>1. x \in PsSubs
    BY <1>9
  <2>2. psSub[x].pattern = order[i] /\ psSub[x].pattern = order[j]
    BY <1>8, <2>1
  <2>3. i \in DOMAIN order /\ j \in DOMAIN order
    BY <1>6
  <2> QED  BY <1>3, <2>2, <2>3
<1> HIDE DEF ss
<1>11. /\ flat \in Seq(PsSubs) /\ IsInjective(flat)
       /\ Range(flat) = UNION {Range(ss[i]) : i \in 1 .. Len(ss)}
  BY <1>6, <1>7, <1>10, FlattenFacts
<1>12. \A x \in Range(flat) : x \in PsSubs /\ psSub[x].state = "on"
  BY <1>8, <1>9, <1>11
<1> HIDE DEF flat
<1>13. /\ psCall[t] \in CallType /\ n \in Nat /\ CallOK(psCall[t], psSub, psSequence)
       /\ psCall \in [PsThreads -> CallType]
  BY DEF PsInv, CallInv, CallType
<1>14. psCall' = [psCall EXCEPT ![t] = c]
  BY <1>1, <1>13 DEF CallType, flat, ss
<1>15. c \in CallType /\ c.op = "match" /\ c.seq = n /\ c.todo = flat
  BY <1>11, <1>13 DEF CallType
<1>16. n \in 1 .. psSequence /\ \A x \in PsSubs : n \notin psSub[x].put
  BY <1>2, <1>13 DEF CallOK, Numbered
<1> HIDE DEF c, n
<1>17. SubsInv' /\ HubInv'
  BY <1>2, PsSubsSame
<1>18. CallInv'
  <2>1. CallOK(c, psSub, psSequence)
    BY <1>11, <1>12, <1>15, <1>16 DEF CallOK, Numbered
  <2>2. \A u \in PsThreads : u # t => CallOK(psCall[u], psSub, psSequence) /\ Apart(psCall[u], psCall[t])
    BY DEF PsInv, CallInv
  <2>3. \A u \in PsThreads : u # t => Apart(psCall[u], c)
    BY <1>2, <1>15, <2>2 DEF Apart, Numbered, n
  <2>4. /\ CallInv /\ psSequence \in Nat
        /\ \A x \in PsSubs : psSub[x].put \subseteq 1 .. psSequence
    BY DEF PsInv, CallInv
  <2>5. CallOK(c, psSub', psSequence')
    BY <1>2, <2>1
  <2>6. \A u \in PsThreads : u # t => CallOK(psCall[u], psSub', psSequence') /\ Apart(psCall[u], c)
    BY <1>2, <2>2, <2>3
  <2>7. psSequence' \in Nat /\ \A x \in PsSubs : psSub'[x].put \subseteq 1 .. psSequence'
    BY <1>2, <2>4
  <2> HIDE DEF S
  <2> QED  BY <1>14, <1>15, <2>4, <2>5, <2>6, <2>7, CallsAfter
<1> QED  BY <1>17, <1>18 DEF PsInv

\* A client's receive or acknowledgement: nothing but that queue changes.
LEMMA PsClientStep ==
  ASSUME PsInv, NEW s \in PsSubs, NEW b, SubOK(b), b.put = psSub[s].put,
         b.state = psSub[s].state, b.pattern = psSub[s].pattern,
         psSub' = [psSub EXCEPT ![s] = b],
         UNCHANGED <<psTopics, subscriptionCount, patternCount, psSequence, psCall>>
  PROVE  PsInv'
<1>1. /\ UNCHANGED <<psTopics, subscriptionCount, patternCount>>
      /\ psSequence' = psSequence /\ psCall' = psCall
  OBVIOUS
<1>2. SubsInv' /\ psSub'[s] = b /\ \A x \in PsSubs : x # s => psSub'[x] = psSub[x]
  BY SubReplaced DEF PsInv
<1>3. \A x \in PsSubs : /\ psSub'[x].put = psSub[x].put /\ psSub'[x].state = psSub[x].state
                        /\ psSub'[x].pattern = psSub[x].pattern
  BY <1>2
<1>4. HubInv'
  BY <1>1, <1>3, HubKept DEF PsInv
<1>5. \A u \in PsThreads : CallOK(psCall[u], psSub', psSequence)
  <2> TAKE u \in PsThreads
  <2> DEFINE d == psCall[u]
  <2>1. d \in CallType /\ CallOK(d, psSub, psSequence)
    BY DEF PsInv, CallInv
  <2>2. d.todo \in Seq(PsSubs) /\ Range(d.todo) \subseteq PsSubs
    BY <2>1, EmptyList DEF CallType
  <2>3. d.todo # << >> => Head(d.todo) \in PsSubs
    BY <2>2
  <2> HIDE DEF d
  <2>4. CallOK(d, psSub', psSequence)
    BY <1>3, <2>1, <2>2, <2>3 DEF CallOK
  <2> QED  BY <2>4 DEF d
<1>6. CallInv'
  BY <1>1, <1>3, <1>5 DEF PsInv, CallInv
<1> QED  BY <1>2, <1>4, <1>6 DEF PsInv

\* The new subscription goes to the front of its pattern's list; its pattern,
\* if new, is counted once.  Nobody reads the lists while they change.
LEMMA PsInsertStep ==
  ASSUME PsInv, NEW t \in PsThreads, NEW ok \in BOOLEAN, InsertSub(t, ok)
  PROVE  PsInv'
<1> DEFINE s == Head(psCall[t].todo)
           b == psSub[s]
           p == b.pattern
           old == IF p \in Bound THEN psTopics[p] ELSE << >>
           done(st) == [b EXCEPT !.state = st]
<1>1. /\ psCall[t] \in CallType /\ CallOK(psCall[t], psSub, psSequence) /\ psCall[t].op = "insert"
  BY DEF PsInv, CallInv, InsertSub
<1>2. psCall[t].todo \in Seq(PsSubs) /\ psCall[t].todo # << >> /\ b.state = "new"
  BY <1>1 DEF CallOK, CallType
<1>3. s \in PsSubs
  BY <1>2
<1>4. b \in SubType /\ QueueOK(b) /\ p \in PsPatterns
  BY <1>3 DEF PsInv, SubsInv, SubType
<1>5. psCall' = [psCall EXCEPT ![t] = PsIdle] /\ psSequence' = psSequence
  BY DEF InsertSub
<1>6. ASSUME NEW st \in {"on", "freed"}, psSub' = [psSub EXCEPT ![s] = done(st)]
      PROVE  /\ SubsInv' /\ CallInv'
             /\ psSub'[s].state = st /\ psSub'[s].pattern = p
             /\ \A x \in PsSubs : x # s => psSub'[x] = psSub[x]
  <2> DEFINE e == done(st)
  <2>1. e \in SubType
    BY <1>4 DEF SubType
  <2>2. /\ e.queue = b.queue /\ e.tail = b.tail /\ e.len = b.len /\ e.put = b.put /\ e.seen = b.seen
        /\ e.done = b.done /\ e.kind = b.kind /\ e.state = st /\ e.pattern = p
    BY <1>4 DEF SubType
  <2>3. psSub' = [psSub EXCEPT ![s] = e]
    BY <1>6
  <2> HIDE DEF e, done
  <2>4. SubOK(e)
    BY <1>4, <2>1, <2>2 DEF SubOK, QueueOK
  <2>5. SubsInv' /\ psSub'[s] = e /\ \A x \in PsSubs : x # s => psSub'[x] = psSub[x]
    BY <1>3, <2>3, <2>4, SubReplaced DEF PsInv
  <2>6. \A x \in PsSubs : psSub'[x].put = psSub[x].put
    BY <2>2, <2>5
  <2>7. ASSUME NEW u \in PsThreads, u # t
        PROVE  CallOK(psCall[u], psSub', psSequence')
    <3> DEFINE d == psCall[u]
    <3>1. d \in CallType /\ CallOK(d, psSub, psSequence) /\ Apart(d, psCall[t])
      BY <2>7 DEF PsInv, CallInv
    <3>2. d.todo \in Seq(PsSubs) /\ Range(d.todo) \subseteq PsSubs
      BY <3>1, EmptyList DEF CallType
    <3>3. d.todo # << >> => Head(d.todo) \in PsSubs
      BY <3>2
    <3>4. d.op = "insert" => Head(d.todo) # s
      BY <1>1, <3>1 DEF Apart
    <3>5. d.op # "match"
      BY DEF InsertSub, Writable
    <3> HIDE DEF d, s
    <3>6. CallOK(d, psSub', psSequence')
      BY <1>5, <2>5, <2>6, <3>1, <3>2, <3>3, <3>4, <3>5 DEF CallOK
    <3> QED  BY <3>6 DEF d
  <2>8. CallInv'
    <3>1. /\ CallInv /\ psSequence' \in Nat
          /\ \A x \in PsSubs : psSub'[x].put \subseteq 1 .. psSequence'
      BY <1>5, <2>6 DEF PsInv, CallInv
    <3>2. \A u \in PsThreads : u # t => CallOK(psCall[u], psSub', psSequence') /\ Apart(psCall[u], PsIdle)
      BY <2>7, PsIdleOK
    <3>3. PsIdle \in CallType /\ CallOK(PsIdle, psSub', psSequence')
      BY PsIdleOK
    <3> HIDE DEF s, b, p, PsIdle
    <3> QED  BY <1>5, <3>1, <3>2, <3>3, CallsAfter
  <2> QED  BY <2>2, <2>5, <2>8
<1>7. CASE p \in Bound \/ ok
  <2>1. /\ psSub' = [psSub EXCEPT ![s] = done("on")]
        /\ psTopics' = [q \in Bound \cup {p} |-> IF q # p THEN psTopics[q] ELSE <<s>> \o old]
        /\ patternCount' = patternCount + (IF p \in Bound THEN 0 ELSE 1)
        /\ subscriptionCount' = subscriptionCount + 1
    BY <1>3, <1>4, <1>7 DEF InsertSub, PsInv, SubsInv
  <2>2. /\ SubsInv' /\ CallInv' /\ psSub'[s].state = "on" /\ psSub'[s].pattern = p
        /\ \A x \in PsSubs : x # s => psSub'[x] = psSub[x]
    BY <1>6, <2>1
  <2>3. /\ old \in Seq(PsSubs) /\ IsInjective(old) /\ s \notin Range(old)
        /\ \A x \in PsSubs : x \in Range(old) <=> psSub[x].state = "on" /\ psSub[x].pattern = p
    <3>1. CASE p \in Bound
      <4>1. /\ psTopics \in [Bound -> Seq(PsSubs)]
            /\ \A q \in Bound : IsInjective(psTopics[q])
            /\ \A q \in PsPatterns : \A x \in PsSubs :
                 psSub[x].state = "on" /\ psSub[x].pattern = q <=> q \in Bound /\ x \in Range(psTopics[q])
        BY DEF PsInv, HubInv
      <4>2. old = psTopics[p]
        BY <3>1
      <4>3. p \in PsPatterns /\ b.state # "on"
        BY <1>2, <1>4
      <4> HIDE DEF p, old
      <4>4. old \in Seq(PsSubs) /\ IsInjective(old)
        BY <3>1, <4>1, <4>2
      <4>5. \A x \in PsSubs : x \in Range(old) <=> psSub[x].state = "on" /\ psSub[x].pattern = p
        BY <3>1, <4>1, <4>2, <4>3, Zenon
      <4>6. s \notin Range(old)
        <5> HIDE DEF s
        <5> QED  BY <1>3, <4>3, <4>5
      <4> QED  BY <4>4, <4>5, <4>6
    <3>2. CASE p \notin Bound
      <4>1. << >> \in Seq(PsSubs) /\ IsInjective(<< >>) /\ Range(<< >>) = {}
        BY DEF IsInjective, Range
      <4> QED  BY <1>4, <3>2, <4>1 DEF PsInv, HubInv
    <3> QED  BY <3>1, <3>2
  <2> HIDE DEF old, b
  <2>4. /\ <<s>> \o old \in Seq(PsSubs) /\ IsInjective(<<s>> \o old)
        /\ Range(<<s>> \o old) = Range(old) \cup {s} /\ <<s>> \o old # << >>
    <3> HIDE DEF s
    <3>1. /\ <<s>> \o old \in Seq(PsSubs) /\ IsInjective(<<s>> \o old)
          /\ Range(<<s>> \o old) = Range(old) \cup {s}
      BY <1>3, <2>3, LinkFirst
    <3> QED  BY <3>1, EmptyList
  <2> DEFINE new == <<s>> \o old
  <2> HIDE DEF new, s, p
  <2>5. /\ Bound' = Bound \cup {p} /\ psTopics' = [q \in Bound \cup {p} |-> IF q # p THEN psTopics[q] ELSE new]
    BY <2>1 DEF Bound, new
  <2>6. /\ psTopics' \in [Bound' -> Seq(PsSubs)] /\ Bound' \subseteq PsPatterns
        /\ \A q \in Bound' : psTopics'[q] # << >> /\ IsInjective(psTopics'[q])
    BY <1>4, <2>4, <2>5 DEF PsInv, HubInv, new
  <2>7. IsFiniteSet(Bound') /\ patternCount' = Cardinality(Bound')
    <3>1. CASE p \in Bound
      <4>1. Bound' = Bound
        BY <2>5, <3>1
      <4>2. Cardinality(Bound) \in Nat
        BY FS_CardinalityType DEF PsInv, HubInv
      <4> QED  BY <2>1, <3>1, <4>1, <4>2 DEF PsInv, HubInv
    <3>2. CASE p \notin Bound
      BY <2>1, <2>5, <3>2, FS_AddElement DEF PsInv, HubInv
    <3> QED  BY <3>1, <3>2
  <2>8. IsFiniteSet(On') /\ subscriptionCount' = Cardinality(On')
    <3>1. On' = On \cup {s} /\ s \notin On
      BY <1>2, <1>3, <2>2 DEF On, b
    <3> QED  BY <2>1, <3>1, FS_AddElement DEF PsInv, HubInv
  <2>9. ASSUME NEW q \in PsPatterns, NEW x \in PsSubs
        PROVE  psSub'[x].state = "on" /\ psSub'[x].pattern = q <=> q \in Bound' /\ x \in Range(psTopics'[q])
    <3>0. psSub[x].state = "on" /\ psSub[x].pattern = q <=> q \in Bound /\ x \in Range(psTopics[q])
      BY DEF PsInv, HubInv
    <3>1. CASE q # p
      <4>1. /\ q \in Bound' <=> q \in Bound
            /\ q \in Bound => psTopics'[q] = psTopics[q]
        BY <2>5, <3>1
      <4>2. CASE x = s
        <5>1. ~(psSub[s].state = "on")
          BY <1>2 DEF b
        <5> QED  BY <2>2, <3>0, <3>1, <4>1, <4>2, <5>1
      <4>3. CASE x # s
        BY <2>2, <3>0, <4>1, <4>3
      <4> QED  BY <4>2, <4>3
    <3>2. CASE q = p
      <4>1. q \in Bound' /\ Range(psTopics'[q]) = Range(old) \cup {s}
        BY <2>4, <2>5, <3>2 DEF new
      <4>2. CASE x = s
        BY <2>2, <3>2, <4>1, <4>2
      <4>3. CASE x # s
        BY <2>2, <2>3, <3>2, <4>1, <4>3
      <4> QED  BY <4>2, <4>3
    <3> QED  BY <3>1, <3>2
  <2>10. HubInv'
    BY <2>6, <2>7, <2>8, <2>9 DEF HubInv
  <2> QED  BY <2>2, <2>10 DEF PsInv
<1>8. CASE ~(p \in Bound \/ ok)
  <2>1. /\ psSub' = [psSub EXCEPT ![s] = done("freed")]
        /\ UNCHANGED <<psTopics, patternCount, subscriptionCount>>
    BY <1>3, <1>4, <1>8 DEF InsertSub, PsInv, SubsInv
  <2>2. /\ SubsInv' /\ CallInv' /\ psSub'[s].state = "freed"
        /\ \A x \in PsSubs : x # s => psSub'[x] = psSub[x]
    BY <1>6, <2>1
  <2>3. HubInv'
    BY <1>2, <1>3, <2>1, <2>2, HubKept DEF PsInv
  <2> QED  BY <2>2, <2>3 DEF PsInv
<1> QED  BY <1>7, <1>8

\* The subscription leaves its list before it is freed, and no publisher is
\* between the two; the pattern goes with its last subscription.
LEMMA PsUnsubscribeStep ==
  ASSUME PsInv, NEW t \in PsThreads, NEW s \in PsSubs, Unsubscribe(t, s)
  PROVE  PsInv'
<1> DEFINE p == psSub[s].pattern
           left == RemoveFirst(psTopics[p], s)
           b == [NoSub EXCEPT !.state = "freed"]
<1>1. /\ psSub[s].state = "on" /\ psSub' = [psSub EXCEPT ![s] = b] /\ Writable
      /\ subscriptionCount' = subscriptionCount - 1 /\ psSequence' = psSequence /\ psCall' = psCall
  BY DEF Unsubscribe
<1>2. SubOK(b) /\ b.state = "freed" /\ b.put = {}
  <2>1. SubOK(b)
    BY NoSubOK, PsAssumption
  <2> QED  BY <2>1 DEF NoSub
<1>3. p \in PsPatterns
  BY DEF PsInv, SubsInv, SubType
<1>4. p \in Bound /\ s \in Range(psTopics[p]) /\ psTopics[p] \in Seq(PsSubs) /\ IsInjective(psTopics[p])
  BY <1>1, <1>3 DEF PsInv, HubInv
<1>5. left \in Seq(PsSubs) /\ IsInjective(left) /\ Range(left) = Range(psTopics[p]) \ {s}
  BY <1>4, UnlinkOne
<1> HIDE DEF b
<1>6. SubsInv' /\ psSub'[s] = b /\ \A x \in PsSubs : x # s => psSub'[x] = psSub[x]
  BY <1>1, <1>2, SubReplaced DEF PsInv
<1>7. CallInv'
  <2>1. ASSUME NEW u \in PsThreads
        PROVE  CallOK(psCall[u], psSub', psSequence)
    <3> DEFINE d == psCall[u]
    <3>1. d \in CallType /\ CallOK(d, psSub, psSequence) /\ d.op # "match"
      BY <1>1 DEF PsInv, CallInv, Writable
    <3>2. d.todo \in Seq(PsSubs)
      BY <3>1 DEF CallType
    <3>3. d.todo # << >> => Head(d.todo) \in PsSubs
      BY <3>2
    <3> HIDE DEF d
    <3>4. CallOK(d, psSub', psSequence)
      BY <1>1, <1>2, <1>6, <3>1, <3>3 DEF CallOK
    <3> QED  BY <3>4 DEF d
  <2>2. \A x \in PsSubs : psSub'[x].put \subseteq psSub[x].put
    BY <1>2, <1>6
  <2>3. \A x \in PsSubs : psSub'[x].put \subseteq 1 .. psSequence
    BY <2>2 DEF PsInv, CallInv
  <2> QED  BY <1>1, <2>1, <2>3 DEF PsInv, CallInv
<1>8. IsFiniteSet(On') /\ subscriptionCount' = Cardinality(On')
  <2>1. On' = On \ {s} /\ s \in On
    BY <1>1, <1>2, <1>6 DEF On
  <2> QED  BY <1>1, <2>1, FS_RemoveElement DEF PsInv, HubInv
<1> HIDE DEF p, left
<1>9. CASE left = << >>
  <2>1. psTopics' = [q \in Bound \ {p} |-> psTopics[q]] /\ patternCount' = patternCount - 1
    BY <1>9 DEF Unsubscribe, p, left
  <2>2. Bound' = Bound \ {p} /\ \A q \in Bound' : psTopics'[q] = psTopics[q]
    BY <2>1 DEF Bound
  <2>3. /\ psTopics' \in [Bound' -> Seq(PsSubs)] /\ Bound' \subseteq PsPatterns
        /\ \A q \in Bound' : psTopics'[q] # << >> /\ IsInjective(psTopics'[q])
    BY <2>1, <2>2 DEF PsInv, HubInv
  <2>4. IsFiniteSet(Bound') /\ patternCount' = Cardinality(Bound')
    BY <1>4, <2>1, <2>2, FS_RemoveElement DEF PsInv, HubInv
  <2>5. \A x \in PsSubs : x \in Range(psTopics[p]) <=> x = s
    <3>1. Range(left) = {}
      BY <1>5, <1>9, EmptyList
    <3> QED  BY <1>4, <1>5, <3>1
  <2>6. ASSUME NEW q \in PsPatterns, NEW x \in PsSubs
        PROVE  psSub'[x].state = "on" /\ psSub'[x].pattern = q <=> q \in Bound' /\ x \in Range(psTopics'[q])
    <3>0. psSub[x].state = "on" /\ psSub[x].pattern = q <=> q \in Bound /\ x \in Range(psTopics[q])
      BY DEF PsInv, HubInv
    <3>1. CASE x = s
      <4>1. q # p => ~(q \in Bound /\ x \in Range(psTopics[q]))
        BY <3>0, <3>1 DEF p
      <4> QED  BY <1>2, <1>6, <2>2, <3>1, <4>1
    <3>2. CASE x # s
      BY <1>6, <2>2, <2>5, <3>0, <3>2
    <3> QED  BY <3>1, <3>2
  <2>7. HubInv'
    BY <1>8, <2>3, <2>4, <2>6 DEF HubInv
  <2> QED  BY <1>6, <1>7, <2>7 DEF PsInv
<1>10. CASE left # << >>
  <2>1. psTopics' = [psTopics EXCEPT ![p] = left] /\ patternCount' = patternCount
    BY <1>10 DEF Unsubscribe, p, left
  <2>2. Bound' = Bound /\ psTopics'[p] = left /\ \A q \in Bound : q # p => psTopics'[q] = psTopics[q]
    BY <1>4, <2>1 DEF Bound
  <2>3. /\ psTopics' \in [Bound' -> Seq(PsSubs)] /\ Bound' \subseteq PsPatterns
        /\ \A q \in Bound' : psTopics'[q] # << >> /\ IsInjective(psTopics'[q])
    BY <1>5, <1>10, <2>1, <2>2 DEF PsInv, HubInv
  <2>4. IsFiniteSet(Bound') /\ patternCount' = Cardinality(Bound')
    BY <2>1, <2>2 DEF PsInv, HubInv
  <2>5. ASSUME NEW q \in PsPatterns, NEW x \in PsSubs
        PROVE  psSub'[x].state = "on" /\ psSub'[x].pattern = q <=> q \in Bound' /\ x \in Range(psTopics'[q])
    <3>0. psSub[x].state = "on" /\ psSub[x].pattern = q <=> q \in Bound /\ x \in Range(psTopics[q])
      BY DEF PsInv, HubInv
    <3>1. CASE q = p
      <4>1. x \in Range(psTopics'[q]) <=> x \in Range(psTopics[q]) /\ x # s
        BY <1>5, <2>2, <3>1
      <4>2. CASE x = s
        BY <1>2, <1>6, <4>1, <4>2
      <4>3. CASE x # s
        BY <1>6, <2>2, <3>0, <4>1, <4>3
      <4> QED  BY <4>2, <4>3
    <3>2. CASE q # p
      <4>1. q \in Bound => psTopics'[q] = psTopics[q]
        BY <2>2, <3>2
      <4>2. CASE x = s
        <5>1. ~(q \in Bound /\ x \in Range(psTopics[q]))
          BY <3>0, <3>2, <4>2 DEF p
        <5> QED  BY <1>2, <1>6, <2>2, <4>1, <4>2, <5>1
      <4>3. CASE x # s
        BY <1>6, <2>2, <3>0, <4>1, <4>3
      <4> QED  BY <4>2, <4>3
    <3> QED  BY <3>1, <3>2
  <2>6. HubInv'
    BY <1>8, <2>3, <2>4, <2>5 DEF HubInv
  <2> QED  BY <1>6, <1>7, <2>6 DEF PsInv
<1> QED  BY <1>9, <1>10

\* Every step of a thread or a client keeps the invariant.
LEMMA PsStep == PsInv /\ [PsNext]_psVars => PsInv'
<1> SUFFICES ASSUME PsInv, [PsNext]_psVars
             PROVE  PsInv'
  OBVIOUS
<1>1. ASSUME NEW s \in PsSubs, Receive(s)
      PROVE  PsInv'
  <2>1. SubOK(psSub[s])
    BY DEF PsInv, SubsInv, SubOK
  <2>2. psSub' = [psSub EXCEPT ![s] = Received(psSub[s])] /\ psSub[s].queue # << >>
    BY <1>1 DEF Receive, PsInv, SubsInv
  <2> QED  BY <1>1, <2>1, <2>2, ReceivedOK, PsClientStep DEF Receive
<1>2. ASSUME NEW s \in PsSubs, NEW n \in 1 .. PsMaxSequence, Ack(s, n)
      PROVE  PsInv'
  <2>1. SubOK(psSub[s])
    BY DEF PsInv, SubsInv, SubOK
  <2>2. /\ psSub' = [psSub EXCEPT ![s] = Acked(psSub[s], n)]
        /\ n \in psSub[s].seen /\ n \in Range(psSub[s].queue)
    BY <1>2 DEF Ack, PsInv, SubsInv
  <2> QED  BY <1>2, <2>1, <2>2, AckedOK, PsClientStep, ZenonT(60) DEF Ack
<1>3. CASE UNCHANGED psVars
  <2>1. psSub' = psSub /\ psCall' = psCall /\ psSequence' = psSequence
    BY <1>3 DEF psVars
  <2>2. SubsInv' /\ HubInv'
    BY <1>3, PsSubsSame DEF psVars
  <2>3. CallInv'
    BY <2>1 DEF PsInv, CallInv
  <2> QED  BY <2>2, <2>3 DEF PsInv
<1> QED  BY <1>1, <1>2, <1>3, PsSubscribeStep, PsInsertStep, PsUnsubscribeStep, PsPublishStep,
            PsDeliverStep, PsDoneStep, PsMatchStep DEF PsNext

\* Under any interleaving of publishers, subscribers and clients, for any number
\* of each: no queue of loopyPubSub loses or repeats a message, its length is
\* counted and kept, the hub's counters and lists agree, and no publisher meets
\* a subscription that was freed.
THEOREM PubSubIsExact == PsSpec => []PubSubExact
<1>1. PsInv => PubSubExact
  <2> SUFFICES ASSUME PsInv
               PROVE  PubSubExact
    OBVIOUS
  <2>1. QueueExact
    BY DEF QueueExact, PsInv, SubsInv, QueueOK
  <2>2. ASSUME NEW t \in PsThreads, NEW i \in DOMAIN psCall[t].todo, psCall[t].op = "match"
        PROVE  psSub[psCall[t].todo[i]].state = "on"
    <3>1. psCall[t].todo[i] \in Range(psCall[t].todo)
      BY DEF Range
    <3> QED  BY <2>2, <3>1 DEF PsInv, CallInv, CallOK
  <2>3. HubExact
    BY <2>2 DEF HubExact, PsInv, HubInv, On
  <2> QED  BY <2>1, <2>3 DEF PubSubExact
<1> QED  BY <1>1, PsInitOK, PsStep, PTL DEF PsSpec

-----------------------------------------------------------------------------
(* The concurrency limiter                                                  *)

\* Threads that will look at the counter, or make somebody look, before they
\* sleep: releasing, woken, or holding the mutex.
Coming == {t \in ClThreads : clPc[t] \in {"signal", "lock", "take"}}

ClTypeOK ==
  /\ clCurrent \in Int
  /\ clPc \in [ClThreads -> {"idle", "holds", "lock", "waiting", "take", "signal"}]

\* NoStrandedWaiter says that somebody comes; to be inductive it must count:
\* while anybody waits, those who come are enough to take all the free slots.
EnoughComing ==
  (\E t \in ClThreads : ClAt(t, "waiting")) => clCurrent + Cardinality(Coming) >= MaxConcurrent

ClInv == ClTypeOK /\ EnoughComing

\* Those who come can be counted.
LEMMA ComingFinite ==
  /\ IsFiniteSet(Coming)
  /\ Cardinality(Coming) \in Nat
  BY ClAssumption, FS_Subset, FS_CardinalityType DEF Coming

\* One thread moves: the number of those who come changes accordingly.
LEMMA ComingMoves ==
  ASSUME ClTypeOK, NEW t \in ClThreads, NEW p, ClGoto(t, p)
  PROVE  Cardinality(Coming') = Cardinality(Coming)
            + (IF p \in {"signal", "lock", "take"} THEN 1 ELSE 0)
            - (IF clPc[t] \in {"signal", "lock", "take"} THEN 1 ELSE 0)
<1> USE ComingFinite
<1>1. CASE p \in {"signal", "lock", "take"} <=> t \in Coming
  <2>1. Coming' = Coming
    BY <1>1 DEF Coming, ClGoto, ClTypeOK
  <2> QED  BY <1>1, <2>1 DEF Coming
<1>2. CASE p \in {"signal", "lock", "take"} /\ t \notin Coming
  <2>1. Coming' = Coming \cup {t}
    BY <1>2 DEF Coming, ClGoto, ClTypeOK
  <2>2. Cardinality(Coming') = Cardinality(Coming) + 1
    BY <1>2, <2>1, FS_AddElement
  <2> QED  BY <1>2, <2>2 DEF Coming
<1>3. CASE p \notin {"signal", "lock", "take"} /\ t \in Coming
  <2>1. Coming' = Coming \ {t}
    BY <1>3 DEF Coming, ClGoto, ClTypeOK
  <2>2. Cardinality(Coming') = Cardinality(Coming) - 1
    BY <1>3, <2>1, FS_RemoveElement
  <2> QED  BY <1>3, <2>2 DEF Coming
<1> QED  BY <1>1, <1>2, <1>3

\* Each atomic step of loopyConcurrencyAcquire and Release keeps the count.
LEMMA ClStep == ClInv /\ [ClNext]_clVars => ClInv'
<1> SUFFICES ASSUME ClInv, [ClNext]_clVars
             PROVE  ClInv'
  OBVIOUS
<1> USE ClAssumption DEF ClInv
<1>0. ClTypeOK /\ Cardinality(Coming) \in Nat /\ Cardinality(Coming') \in Nat
  BY ComingFinite, FS_Subset, FS_CardinalityType DEF Coming
<1>1. ASSUME NEW t \in ClThreads, TryAcquire(t)
      PROVE  ClInv'
  <2>1. ClGoto(t, "holds") /\ Cardinality(Coming') = Cardinality(Coming)
    BY <1>0, <1>1, ComingMoves DEF TryAcquire, ClAt
  <2> QED  BY <1>0, <1>1, <2>1 DEF TryAcquire, ClAt, ClGoto, ClTypeOK, EnoughComing
<1>2. ASSUME NEW t \in ClThreads, NEW timed \in BOOLEAN, AcquireSlow(t, timed)
      PROVE  ClInv'
  BY <1>0, <1>2, ComingMoves DEF AcquireSlow, ClAt, ClGoto, ClTypeOK, EnoughComing
<1>3. ASSUME NEW t \in ClThreads, MustWait(t)
      PROVE  ClInv'
  BY <1>0, <1>3, ComingMoves DEF MustWait, ClAt, ClGoto, ClTypeOK, EnoughComing
<1>4. ASSUME NEW t \in ClThreads, SawRoom(t)
      PROVE  ClInv'
  <2>1. ClGoto(t, "take") /\ Cardinality(Coming') = Cardinality(Coming)
    BY <1>0, <1>4, ComingMoves DEF SawRoom, ClAt
  <2> QED  BY <1>0, <1>4, <2>1 DEF SawRoom, ClAt, ClGoto, ClTypeOK, EnoughComing
<1>5. ASSUME NEW t \in ClThreads, CountSelf(t)
      PROVE  ClInv'
  <2>1. ClGoto(t, "holds") /\ Cardinality(Coming') = Cardinality(Coming) - 1
    BY <1>0, <1>5, ComingMoves DEF CountSelf, ClAt
  <2> QED  BY <1>0, <1>5, <2>1 DEF CountSelf, ClAt, ClGoto, ClTypeOK, EnoughComing
<1>6. ASSUME NEW t \in ClThreads, ClTimeout(t)
      PROVE  ClInv'
  <2>1. CASE ClAt(t, "waiting")
    <3>1. ClGoto(t, "idle") /\ Cardinality(Coming') = Cardinality(Coming)
      BY <1>0, <1>6, <2>1, ComingMoves DEF ClTimeout, ClAt
    <3> QED  BY <1>0, <1>6, <3>1 DEF ClTimeout, ClAt, ClGoto, ClTypeOK, EnoughComing
  <2>2. CASE clCurrent >= MaxConcurrent
    BY <1>0, <1>6, <2>2 DEF ClTimeout, ClAt, ClGoto, ClTypeOK, EnoughComing
  <2> QED  BY <1>6, <2>1, <2>2 DEF ClTimeout
<1>7. ASSUME NEW t \in ClThreads, ClSpurious(t)
      PROVE  ClInv'
  <2>1. ClGoto(t, "lock") /\ Cardinality(Coming') = Cardinality(Coming) + 1
    BY <1>0, <1>7, ComingMoves DEF ClSpurious, ClAt
  <2> QED  BY <1>0, <1>7, <2>1 DEF ClSpurious, ClAt, ClGoto, ClTypeOK, EnoughComing
<1>8. ASSUME NEW t \in ClThreads, ClRelease(t)
      PROVE  ClInv'
  <2>1. ClGoto(t, "signal") /\ Cardinality(Coming') = Cardinality(Coming) + 1
    BY <1>0, <1>8, ComingMoves DEF ClRelease, ClAt
  <2> QED  BY <1>0, <1>8, <2>1 DEF ClRelease, ClAt, ClGoto, ClTypeOK, EnoughComing
<1>9. ASSUME NEW t \in ClThreads, ClSignal(t)
      PROVE  ClInv'
  <2>1. CASE ~\E w \in ClThreads : ClAt(w, "waiting")
    BY <1>0, <1>9, <2>1 DEF ClSignal, ClAt, ClGoto, ClTypeOK, EnoughComing
  <2>2. CASE \E w \in ClThreads : ClAt(w, "waiting")
    <3>1. PICK w \in ClThreads : /\ ClAt(w, "waiting")
                                 /\ clPc' = [clPc EXCEPT ![t] = "idle", ![w] = "lock"]
      BY <1>9, <2>2 DEF ClSignal
    <3>2. w \notin Coming /\ t \in Coming /\ w # t
      BY <1>9, <3>1 DEF ClSignal, ClAt, Coming
    <3>3. Coming' = (Coming \ {t}) \cup {w}
      BY <1>0, <3>1, <3>2 DEF Coming, ClTypeOK
    <3>4. IsFiniteSet(Coming \ {t}) /\ Cardinality(Coming \ {t}) = Cardinality(Coming) - 1
      BY <3>2, ComingFinite, FS_RemoveElement
    <3>5. Cardinality(Coming') = Cardinality(Coming)
      <4>1. w \notin Coming \ {t}
        BY <3>2
      <4>2. Cardinality(Coming') = Cardinality(Coming \ {t}) + 1
        BY <3>3, <3>4, <4>1, FS_AddElement
      <4> QED  BY <1>0, <3>4, <4>2
    <3> QED  BY <1>0, <1>9, <2>2, <3>1, <3>5 DEF ClSignal, ClTypeOK, EnoughComing
  <2> QED  BY <2>1, <2>2
<1>10. CASE UNCHANGED clVars
  BY <1>0, <1>10 DEF clVars, ClTypeOK, EnoughComing, Coming, ClAt
<1> QED
  BY <1>1, <1>2, <1>3, <1>4, <1>5, <1>6, <1>7, <1>8, <1>9, <1>10 DEF ClNext

\* Nobody sleeps beside a free slot, for any number of threads and slots,
\* although the fast path takes slots without the mutex and wakeups may come
\* for no reason (loopyConcurrencyAcquire, loopyConcurrencyRelease).
THEOREM WaitersNotStranded == ClSpec => []NoStrandedWaiter
<1>1. ClInit => ClInv
  BY DEF ClInit, ClInv, ClTypeOK, EnoughComing, ClAt
<1>2. ClInv => NoStrandedWaiter
  <2> SUFFICES ASSUME ClInv, clCurrent < MaxConcurrent, \E t \in ClThreads : ClAt(t, "waiting")
               PROVE  \E t \in ClThreads : clPc[t] \in {"signal", "lock", "take"}
    BY DEF NoStrandedWaiter
  <2>1. Cardinality(Coming) # 0
    BY ClAssumption DEF ClInv, ClTypeOK, EnoughComing
  <2>2. Coming # {}
    BY <2>1, FS_EmptySet
  <2> QED  BY <2>2 DEF Coming
<1> QED  BY <1>1, <1>2, ClStep, PTL DEF ClSpec

-----------------------------------------------------------------------------
(* The cluster registry                                                     *)

CrTypeOK ==
  /\ crClock \in Nat /\ crLatest \in Nat /\ configVersion \in Nat
  /\ crEntry \in [CrKeys -> [version : Nat, expireAt : Nat]]
  /\ crPass \in [CrThreads -> [pc : {"idle", "lock", "mark"}, now : Nat, failed : SUBSET CrNodes]]

\* No pass has read a time the clock has not shown, and no entry has a version
\* that is still to be drawn.
CrInv ==
  /\ CrTypeOK
  /\ crClock <= crLatest /\ \A t \in CrThreads : crPass[t].now <= crLatest
  /\ \A k \in CrKeys : crEntry[k].version <= configVersion

\* A step changes an entry only as ConfigKept says.
LEMMA ConfigStep ==
  ASSUME CrInv, CrNext, NEW k \in CrKeys, crEntry'[k] # crEntry[k]
  PROVE  \/ crEntry'[k] = NoEntry /\ (ConfigDelete(k) \/ Expired(k, crLatest))
         \/ crEntry'[k].version > configVersion
<1> USE DEF CrInv, CrTypeOK
<1>1. ASSUME NEW j \in CrKeys, ConfigDelete(j)
      PROVE  crEntry'[k] = NoEntry /\ ConfigDelete(k)
  BY <1>1 DEF ConfigDelete
<1>2. ASSUME NEW j \in CrKeys, NEW ttl \in CrTtls, ConfigSet(j, ttl)
      PROVE  crEntry'[k].version > configVersion
  BY <1>2 DEF ConfigSet
<1>3. ASSUME NEW t \in CrThreads, ProcessPass(t)
      PROVE  crEntry'[k] = NoEntry /\ Expired(k, crLatest)
  <2>1. crEntry'[k] = NoEntry /\ Expired(k, crPass[t].now)
    BY <1>3 DEF ProcessPass
  <2> QED  BY <2>1 DEF Expired
<1> QED
  BY <1>1, <1>2, <1>3 DEF CrNext, RegisterNode, UnregisterNode, Heartbeat, SetState,
     ProcessCall, MarkFailed, CrTick, crConfig, crTimes

\* Every operation of the registry keeps the invariant.
LEMMA CrStep == CrInv /\ [CrNext]_crVars => CrInv'
<1> SUFFICES ASSUME CrInv, [CrNext]_crVars
             PROVE  CrInv'
  OBVIOUS
<1> USE DEF CrInv, CrTypeOK
<1>1. ASSUME NEW n \in CrNodes,
             \/ RegisterNode(n) \/ UnregisterNode(n) \/ Heartbeat(n)
             \/ \E state \in NodeStates : SetState(n, state)
      PROVE  CrInv'
  BY <1>1 DEF RegisterNode, UnregisterNode, Heartbeat, SetState, crConfig, crTimes
<1>2. ASSUME NEW k \in CrKeys, ConfigDelete(k)
      PROVE  CrInv'
  BY <1>2 DEF ConfigDelete, NoEntry, crTimes
<1>3. ASSUME NEW k \in CrKeys, NEW ttl \in CrTtls, ConfigSet(k, ttl)
      PROVE  CrInv'
  <2>1. ttl \in Nat
    BY CrAssumption
  <2> QED  BY <1>3, <2>1 DEF ConfigSet, crTimes
<1>4. ASSUME NEW t \in CrThreads, ProcessCall(t)
      PROVE  CrInv'
  BY <1>4 DEF ProcessCall, crConfig, crTimes
<1>5. ASSUME NEW t \in CrThreads, ProcessPass(t)
      PROVE  CrInv'
  <2>1. PICK K \in SUBSET {k \in CrKeys : Expired(k, crPass[t].now)}, N \in SUBSET CrNodes :
          /\ crEntry' = [k \in CrKeys |-> IF k \in K THEN NoEntry ELSE crEntry[k]]
          /\ crPass' = [crPass EXCEPT ![t].pc = "mark", ![t].failed = N]
    BY <1>5 DEF ProcessPass
  <2>2. crClock' = crClock /\ crLatest' = crLatest /\ configVersion' = configVersion
    BY <1>5 DEF ProcessPass, crTimes
  <2>3. NoEntry \in [version : Nat, expireAt : Nat] /\ NoEntry.version = 0
    BY DEF NoEntry
  <2>4. /\ crEntry' \in [CrKeys -> [version : Nat, expireAt : Nat]]
        /\ \A k \in CrKeys : crEntry'[k].version <= configVersion
    BY <2>1, <2>3
  <2> DEFINE g == [crPass[t] EXCEPT !.pc = "mark", !.failed = N]
  <2>5. /\ g \in [pc : {"idle", "lock", "mark"}, now : Nat, failed : SUBSET CrNodes]
        /\ g.now = crPass[t].now
    OBVIOUS
  <2>6. crPass' = [crPass EXCEPT ![t] = g]
    BY <2>1
  <2> HIDE DEF g
  <2>7. /\ crPass' \in [CrThreads -> [pc : {"idle", "lock", "mark"}, now : Nat,
                                     failed : SUBSET CrNodes]]
        /\ \A u \in CrThreads : crPass'[u].now = crPass[u].now
    BY <2>5, <2>6
  <2> QED  BY <2>2, <2>4, <2>7
<1>6. ASSUME NEW t \in CrThreads, MarkFailed(t)
      PROVE  CrInv'
  BY <1>6 DEF MarkFailed, NotProcessing, crConfig, crTimes
<1>7. CASE CrTick
  BY <1>7 DEF CrTick, crConfig, crTimes
<1>8. CASE UNCHANGED crVars
  BY <1>8 DEF crVars
<1> QED  BY <1>1, <1>2, <1>3, <1>4, <1>5, <1>6, <1>7, <1>8 DEF CrNext

\* An entry gets a version newer than all before it and disappears only if it
\* is deleted or due by the latest time the clock has shown, for any number of
\* threads, though a pass uses a reading from before it had the lock and the
\* clock may be set back (loopyClusterConfigSet, loopyClusterProcess).
THEOREM ConfigIsKept == CrSpec => ConfigKept
<1>1. CrInit => CrInv
  BY DEF CrInit, CrInv, CrTypeOK, NoEntry, NotProcessing
<1>2. CrInv /\ [CrNext]_crVars =>
        [\A k \in CrKeys : crEntry'[k] # crEntry[k] =>
            \/ crEntry'[k] = NoEntry /\ (ConfigDelete(k) \/ Expired(k, crLatest))
            \/ crEntry'[k].version > configVersion]_crVars
  BY ConfigStep
<1> QED  BY <1>1, <1>2, CrStep, PTL DEF CrSpec, ConfigKept

-----------------------------------------------------------------------------
(* DNS queries                                                              *)

DnPcs == {"none", "test", "wait", "work", "notify", "exit"}
Held == {q \in DnQueries : \E w \in DnWorkers : dnWorker[w].query = q}
InPending == Range(dnPending)
InCompleted == Range(dnCompleted)

DnTypeOK ==
  /\ dnQuery \in [DnQueries -> {"new", "accepted", "refused"}]
  /\ dnPending \in Seq(DnQueries) /\ dnCompleted \in Seq(DnQueries)
  /\ dnWorker \in [DnWorkers -> [pc : DnPcs, query : DnQueries \cup {NoQuery}]]
  /\ dnCalls \in [DnQueries -> Nat] /\ dnDropped \subseteq DnQueries

\* A query is in one list at one position, or with one worker, or has ended,
\* and only once; one that was not accepted is nowhere.
QueryPlace(q) ==
  /\ dnQuery[q] = "accepted" <=> q \in InPending \cup InCompleted \cup Held \cup dnDropped \/ dnCalls[q] = 1
  /\ q \in InPending => q \notin InCompleted \cup Held \cup dnDropped
  /\ q \in InCompleted => q \notin Held \cup dnDropped
  /\ q \in Held => q \notin dnDropped
  /\ dnCalls[q] = IF q \in InPending \cup InCompleted \cup Held \cup dnDropped THEN 0
                  ELSE IF dnQuery[q] = "accepted" THEN 1 ELSE 0

DnPlaceInv ==
  /\ IsInjective(dnPending) /\ IsInjective(dnCompleted)
  /\ \A w \in DnWorkers : dnWorker[w].pc = "work" <=> dnWorker[w].query # NoQuery
  /\ \A v, w \in DnWorkers : dnWorker[v].query = dnWorker[w].query /\ dnWorker[v].query # NoQuery => v = w
  /\ \A q \in DnQueries : QueryPlace(q)

\* Nobody sleeps who should not.
DnWakeInv ==
  /\ dnCompleted # << >> =>
       dnEvent \/ dnLoop # "out" \/ \E w \in DnWorkers : dnWorker[w].pc = "notify"
  /\ Waiting # {} => Cardinality(DnWorkers \ Waiting) >= Len(dnPending)
  /\ dnShutdown /\ dnLife # "failing" => Waiting = {}
  /\ dnLife \in {"making", "failing", "failed"} => dnPending = << >>

DnInv == DnTypeOK /\ DnPlaceInv /\ DnWakeInv

\* A worker's step: it has what it got and the others have what they had.
LEMMA OneWorker ==
  ASSUME DnTypeOK, DnPlaceInv, NEW w \in DnWorkers,
         NEW x \in [pc : DnPcs, query : DnQueries \cup {NoQuery}],
         x.pc = "work" <=> x.query # NoQuery,
         x.query # NoQuery => x.query \notin Held,
         dnWorker' = [dnWorker EXCEPT ![w] = x]
  PROVE  /\ dnWorker' \in [DnWorkers -> [pc : DnPcs, query : DnQueries \cup {NoQuery}]]
         /\ (\A v \in DnWorkers : dnWorker[v].pc = "work" <=> dnWorker[v].query # NoQuery)'
         /\ (\A u, v \in DnWorkers :
               dnWorker[u].query = dnWorker[v].query /\ dnWorker[u].query # NoQuery => u = v)'
         /\ Held' = (Held \ {dnWorker[w].query}) \cup ({x.query} \cap DnQueries)
         /\ \A v \in DnWorkers : dnWorker'[v] = IF v = w THEN x ELSE dnWorker[v]
         /\ Waiting' = IF x.pc = "wait" THEN Waiting \cup {w} ELSE Waiting \ {w}
<1> USE DnAssumption
<1>1. dnWorker \in [DnWorkers -> [pc : DnPcs, query : DnQueries \cup {NoQuery}]]
  BY DEF DnTypeOK
<1>2. \A v \in DnWorkers : dnWorker'[v] = IF v = w THEN x ELSE dnWorker[v]
  BY <1>1
<1>3. dnWorker' \in [DnWorkers -> [pc : DnPcs, query : DnQueries \cup {NoQuery}]]
  BY <1>1
<1>4. \A v \in DnWorkers : dnWorker'[v].pc = "work" <=> dnWorker'[v].query # NoQuery
  BY <1>2 DEF DnPlaceInv
<1>5. \A v \in DnWorkers \ {w} : dnWorker[v].query # NoQuery => dnWorker[v].query \in Held
  BY <1>1 DEF Held
<1>6. \A u, v \in DnWorkers :
        dnWorker'[u].query = dnWorker'[v].query /\ dnWorker'[u].query # NoQuery => u = v
  BY <1>2, <1>5 DEF DnPlaceInv
<1>7. Held' = (Held \ {dnWorker[w].query}) \cup ({x.query} \cap DnQueries)
  <2>1. \A q \in DnQueries : q # NoQuery
    OBVIOUS
  <2>2. ASSUME NEW q \in Held'
        PROVE  q \in (Held \ {dnWorker[w].query}) \cup ({x.query} \cap DnQueries)
    <3>1. PICK v \in DnWorkers : dnWorker'[v].query = q /\ q \in DnQueries
      BY <2>2 DEF Held
    <3>2. CASE v = w
      BY <1>2, <3>1, <3>2
    <3>3. CASE v # w
      <4>1. dnWorker[v].query = q /\ q # NoQuery
        BY <1>2, <2>1, <3>1, <3>3
      <4>2. q # dnWorker[w].query
        BY <3>3, <4>1 DEF DnPlaceInv
      <4> QED  BY <3>1, <4>1, <4>2 DEF Held
    <3> QED  BY <3>2, <3>3
  <2>3. ASSUME NEW q \in Held, q # dnWorker[w].query
        PROVE  q \in Held'
    <3>1. PICK v \in DnWorkers : dnWorker[v].query = q /\ q \in DnQueries
      BY <2>3 DEF Held
    <3>2. v # w
      BY <2>3, <3>1
    <3> QED  BY <1>2, <3>1, <3>2 DEF Held
  <2>4. x.query \in DnQueries => x.query \in Held'
    BY <1>2 DEF Held
  <2> QED  BY <2>2, <2>3, <2>4
<1>8. Waiting' = IF x.pc = "wait" THEN Waiting \cup {w} ELSE Waiting \ {w}
  BY <1>2 DEF Waiting
<1> QED  BY <1>2, <1>3, <1>4, <1>6, <1>7, <1>8

\* A worker without a query goes on without one.
LEMMA EmptyHanded ==
  ASSUME DnTypeOK, DnPlaceInv, NEW w \in DnWorkers, dnWorker[w].pc # "work",
         NEW pc \in DnPcs \ {"work"}, dnWorker' = [dnWorker EXCEPT ![w] = At(pc)]
  PROVE  /\ dnWorker' \in [DnWorkers -> [pc : DnPcs, query : DnQueries \cup {NoQuery}]]
         /\ (\A v \in DnWorkers : dnWorker[v].pc = "work" <=> dnWorker[v].query # NoQuery)'
         /\ (\A u, v \in DnWorkers :
               dnWorker[u].query = dnWorker[v].query /\ dnWorker[u].query # NoQuery => u = v)'
         /\ Held' = Held
         /\ \A v \in DnWorkers : dnWorker'[v] = IF v = w THEN At(pc) ELSE dnWorker[v]
         /\ Waiting' = IF pc = "wait" THEN Waiting \cup {w} ELSE Waiting \ {w}
<1>1. At(pc) \in [pc : DnPcs, query : DnQueries \cup {NoQuery}] /\ At(pc).pc = pc /\ At(pc).query = NoQuery
  BY DEF At
<1>2. dnWorker[w].query = NoQuery
  BY DEF DnPlaceInv
<1>3. NoQuery \notin Held /\ NoQuery \notin DnQueries
  BY DnAssumption DEF Held
<1> DEFINE x == At(pc)
<1>4. /\ x \in [pc : DnPcs, query : DnQueries \cup {NoQuery}] /\ x.pc = pc /\ x.query = NoQuery
      /\ dnWorker' = [dnWorker EXCEPT ![w] = x]
      /\ x.pc = "work" <=> x.query # NoQuery
  BY <1>1
<1> HIDE DEF x
<1>5. /\ dnWorker' \in [DnWorkers -> [pc : DnPcs, query : DnQueries \cup {NoQuery}]]
      /\ (\A v \in DnWorkers : dnWorker[v].pc = "work" <=> dnWorker[v].query # NoQuery)'
      /\ (\A u, v \in DnWorkers :
            dnWorker[u].query = dnWorker[v].query /\ dnWorker[u].query # NoQuery => u = v)'
      /\ Held' = (Held \ {dnWorker[w].query}) \cup ({x.query} \cap DnQueries)
      /\ \A v \in DnWorkers : dnWorker'[v] = IF v = w THEN x ELSE dnWorker[v]
      /\ Waiting' = IF x.pc = "wait" THEN Waiting \cup {w} ELSE Waiting \ {w}
  BY <1>4, OneWorker
<1>6. Held' = Held
  BY <1>2, <1>3, <1>4, <1>5
<1> QED  BY <1>4, <1>5, <1>6 DEF x

\* Who is awake is counted.
LEMMA AwakeCount ==
         /\ IsFiniteSet(DnWorkers \ Waiting) /\ Cardinality(DnWorkers \ Waiting) \in Nat
         /\ \A w \in Waiting : Cardinality(DnWorkers \ (Waiting \ {w})) = Cardinality(DnWorkers \ Waiting) + 1
<1>1. IsFiniteSet(DnWorkers \ Waiting)
  BY DnAssumption, FS_Subset
<1>2. ASSUME NEW w \in Waiting
      PROVE  Cardinality(DnWorkers \ (Waiting \ {w})) = Cardinality(DnWorkers \ Waiting) + 1
  <2>1. w \in DnWorkers /\ w \notin DnWorkers \ Waiting
        /\ DnWorkers \ (Waiting \ {w}) = (DnWorkers \ Waiting) \cup {w}
    BY <1>2 DEF Waiting
  <2> QED  BY <1>1, <2>1, FS_AddElement
<1> QED  BY <1>1, <1>2, FS_CardinalityType

\* loopyDNSResolve
LEMMA ResolveStep ==
  ASSUME DnInv, NEW q \in DnQueries, Resolve(q)
  PROVE  DnInv'
<1> USE DnAssumption
<1>1. /\ dnQuery[q] = "new" /\ dnCompleted' = dnCompleted /\ dnShutdown' = dnShutdown
      /\ dnLife' = dnLife /\ dnLife = "alive"
      /\ dnEvent' = dnEvent /\ dnLoop' = dnLoop /\ dnCalls' = dnCalls /\ dnDropped' = dnDropped
  BY DEF Resolve, dnLoopVars
<1>2. /\ dnQuery \in [DnQueries -> {"new", "accepted", "refused"}]
      /\ dnPending \in Seq(DnQueries) /\ Len(dnPending) \in Nat
  BY LenProperties DEF DnInv, DnTypeOK
<1>3. q \notin InPending \cup InCompleted \cup Held \cup dnDropped /\ dnCalls[q] = 0
  <2>1. dnQuery[q] # "accepted"
    BY <1>1
  <2> QED  BY <2>1 DEF DnInv, DnPlaceInv, QueryPlace
<1>4. CASE dnQuery' = [dnQuery EXCEPT ![q] = "refused"] /\ dnPending' = dnPending /\ dnWorker' = dnWorker
  <2>1. /\ InPending' = InPending /\ InCompleted' = InCompleted /\ Held' = Held /\ Waiting' = Waiting
    BY <1>1, <1>4 DEF InPending, InCompleted, Held, Waiting
  <2>2. DnTypeOK'
    BY <1>1, <1>4 DEF DnInv, DnTypeOK
  <2>3. \A x \in DnQueries : (dnQuery'[x] = "accepted") <=> (dnQuery[x] = "accepted")
    BY <1>1, <1>2, <1>4
  <2>4. DnPlaceInv'
    BY <1>1, <1>4, <2>1, <2>3 DEF DnInv, DnPlaceInv, QueryPlace
  <2> QED  BY <1>1, <1>4, <2>1, <2>2, <2>4 DEF DnInv, DnWakeInv
<1>5. CASE dnQuery' = [dnQuery EXCEPT ![q] = "accepted"] /\ dnPending' = Append(dnPending, q) /\ SignalWorker
  <2>1. /\ dnPending' \in Seq(DnQueries) /\ Len(dnPending') = Len(dnPending) + 1
        /\ InPending' = InPending \cup {q} /\ IsInjective(dnPending')
    BY <1>2, <1>3, <1>5, AppendList DEF InPending, DnInv, DnPlaceInv
  <2>2. /\ InCompleted' = InCompleted
        /\ \A x \in DnQueries : dnQuery'[x] = IF x = q THEN "accepted" ELSE dnQuery[x]
    BY <1>1, <1>2, <1>5 DEF InCompleted
  <2>3. /\ dnWorker' \in [DnWorkers -> [pc : DnPcs, query : DnQueries \cup {NoQuery}]]
        /\ (\A v \in DnWorkers : dnWorker[v].pc = "work" <=> dnWorker[v].query # NoQuery)'
        /\ (\A u, v \in DnWorkers :
              dnWorker[u].query = dnWorker[v].query /\ dnWorker[u].query # NoQuery => u = v)'
        /\ Held' = Held
        /\ \A v \in DnWorkers : dnWorker[v].pc = "notify" => dnWorker'[v].pc = "notify"
        /\ Waiting' # {} => Cardinality(DnWorkers \ Waiting') = Cardinality(DnWorkers \ Waiting) + 1
        /\ Waiting' \subseteq Waiting
    <3>1. CASE Waiting = {}
      <4>1. dnWorker' = dnWorker
        BY <1>5, <3>1 DEF SignalWorker
      <4>2. Waiting' = {} /\ Held' = Held
        BY <3>1, <4>1 DEF Waiting, Held
      <4> QED  BY <4>1, <4>2, <3>1 DEF DnInv, DnTypeOK, DnPlaceInv
    <3>2. CASE Waiting # {}
      <4>1. PICK w \in Waiting : dnWorker' = [dnWorker EXCEPT ![w] = At("test")]
        BY <1>5, <3>2 DEF SignalWorker
      <4>2. w \in DnWorkers /\ dnWorker[w].pc = "wait" /\ "test" \in DnPcs \ {"work"}
        BY <4>1 DEF Waiting, DnPcs
      <4>3. dnWorker[w].pc # "work"
        BY <4>2
      <4>4. /\ dnWorker' \in [DnWorkers -> [pc : DnPcs, query : DnQueries \cup {NoQuery}]]
            /\ (\A v \in DnWorkers : dnWorker[v].pc = "work" <=> dnWorker[v].query # NoQuery)'
            /\ (\A u, v \in DnWorkers :
                  dnWorker[u].query = dnWorker[v].query /\ dnWorker[u].query # NoQuery => u = v)'
            /\ Held' = Held
            /\ \A v \in DnWorkers : dnWorker'[v] = IF v = w THEN At("test") ELSE dnWorker[v]
            /\ Waiting' = IF "test" = "wait" THEN Waiting \cup {w} ELSE Waiting \ {w}
        BY <4>1, <4>2, <4>3, EmptyHanded DEF DnInv
      <4>5. Waiting' = Waiting \ {w}
        BY <4>4
      <4>6. \A v \in DnWorkers : dnWorker[v].pc = "notify" => dnWorker'[v].pc = "notify"
        BY <4>2, <4>4
      <4>7. Cardinality(DnWorkers \ Waiting') = Cardinality(DnWorkers \ Waiting) + 1
        BY <4>5, AwakeCount
      <4> QED  BY <4>4, <4>5, <4>6, <4>7
    <3> QED  BY <3>1, <3>2
  <2>4. DnTypeOK'
    <3>1. dnQuery' \in [DnQueries -> {"new", "accepted", "refused"}]
      BY <1>2, <1>5
    <3> QED  BY <1>1, <2>1, <2>3, <3>1 DEF DnInv, DnTypeOK
  <2>5. DnPlaceInv'
    <3>1. ASSUME NEW x \in DnQueries
          PROVE  QueryPlace(x)'
      <4>0. QueryPlace(x)
        BY DEF DnInv, DnPlaceInv
      <4>1. CASE x = q
        BY <1>1, <1>3, <2>1, <2>2, <2>3, <4>1 DEF QueryPlace
      <4>2. CASE x # q
        BY <1>1, <2>1, <2>2, <2>3, <4>0, <4>2 DEF QueryPlace
      <4> QED  BY <4>1, <4>2
    <3>2. IsInjective(dnCompleted')
      BY <1>1 DEF DnInv, DnPlaceInv
    <3> QED  BY <2>1, <2>3, <3>1, <3>2 DEF DnPlaceInv
  <2>6. DnWakeInv'
    <3>1. dnCompleted' # << >> =>
            dnEvent' \/ dnLoop' # "out" \/ \E w \in DnWorkers : dnWorker'[w].pc = "notify"
      BY <1>1, <2>3 DEF DnInv, DnWakeInv
    <3>2. Waiting' # {} => Cardinality(DnWorkers \ Waiting') >= Len(dnPending')
      <4> SUFFICES ASSUME Waiting' # {}
                   PROVE  Cardinality(DnWorkers \ Waiting') >= Len(dnPending')
        OBVIOUS
      <4>1. Cardinality(DnWorkers \ Waiting) >= Len(dnPending)
        BY <2>3 DEF DnInv, DnWakeInv
      <4>2. Cardinality(DnWorkers \ Waiting) \in Nat
        BY AwakeCount
      <4> QED  BY <1>2, <2>1, <2>3, <4>1, <4>2
    <3>3. dnShutdown' => Waiting' = {}
      <4>1. dnLife # "failing"
        BY <1>1
      <4> QED  BY <1>1, <2>3, <4>1 DEF DnInv, DnWakeInv
    <3>4. dnLife' \notin {"making", "failing", "failed"}
      BY <1>1
    <3> QED  BY <3>1, <3>2, <3>3, <3>4 DEF DnWakeInv
  <2> QED  BY <2>4, <2>5, <2>6 DEF DnInv
<1> QED  BY <1>4, <1>5 DEF Resolve

\* dnsWorkerThread waits, stops or takes a query.
LEMMA WorkerTestStep ==
  ASSUME DnInv, NEW w \in DnWorkers, WorkerTest(w)
  PROVE  DnInv'
<1> USE DnAssumption
<1>1. /\ dnWorker[w].pc = "test" /\ dnQuery' = dnQuery /\ dnCompleted' = dnCompleted
      /\ dnShutdown' = dnShutdown /\ dnLife' = dnLife /\ dnEvent' = dnEvent /\ dnLoop' = dnLoop /\ dnCalls' = dnCalls
      /\ dnDropped' = dnDropped
  BY DEF WorkerTest, dnLoopVars
<1>2. dnWorker[w].pc # "work" /\ dnWorker[w].pc # "wait" /\ dnWorker[w].pc # "notify" /\ w \notin Waiting
      /\ dnWorker[w].query = NoQuery
  BY <1>1 DEF Waiting, DnInv, DnPlaceInv
<1>3. dnPending \in Seq(DnQueries) /\ Len(dnPending) \in Nat /\ InCompleted' = InCompleted
  BY <1>1, LenProperties DEF DnInv, DnTypeOK, InCompleted
<1>4. CASE dnPending' = dnPending /\ \E pc \in {"wait", "exit"} :
             /\ dnWorker' = [dnWorker EXCEPT ![w] = At(pc)]
             /\ pc = "wait" => dnPending = << >> /\ ~dnShutdown
  <2>1. PICK pc \in {"wait", "exit"} :
             /\ dnWorker' = [dnWorker EXCEPT ![w] = At(pc)]
             /\ pc = "wait" => dnPending = << >> /\ ~dnShutdown
    BY <1>4
  <2>2. pc \in DnPcs \ {"work"}
    BY DEF DnPcs
  <2>3. /\ dnWorker' \in [DnWorkers -> [pc : DnPcs, query : DnQueries \cup {NoQuery}]]
        /\ (\A v \in DnWorkers : dnWorker[v].pc = "work" <=> dnWorker[v].query # NoQuery)'
        /\ (\A u, v \in DnWorkers :
              dnWorker[u].query = dnWorker[v].query /\ dnWorker[u].query # NoQuery => u = v)'
        /\ Held' = Held
        /\ \A v \in DnWorkers : dnWorker'[v] = IF v = w THEN At(pc) ELSE dnWorker[v]
        /\ Waiting' = IF pc = "wait" THEN Waiting \cup {w} ELSE Waiting \ {w}
    BY <1>2, <2>1, <2>2, EmptyHanded DEF DnInv
  <2>4. InPending' = InPending
    BY <1>4 DEF InPending
  <2>5. DnTypeOK'
    BY <1>1, <1>4, <2>3 DEF DnInv, DnTypeOK
  <2>6. DnPlaceInv'
    BY <1>1, <1>3, <1>4, <2>3, <2>4 DEF DnInv, DnPlaceInv, QueryPlace
  <2>7. \A v \in DnWorkers : dnWorker[v].pc = "notify" => dnWorker'[v].pc = "notify"
    BY <1>2, <2>3
  <2>8. Waiting' # {} => Cardinality(DnWorkers \ Waiting') >= Len(dnPending')
    <3>1. CASE pc = "wait"
      <4>1. Len(dnPending') = 0
        BY <1>4, <2>1, <3>1
      <4>2. Cardinality(DnWorkers \ Waiting') \in Nat
        BY FS_Subset, FS_CardinalityType
      <4> QED  BY <4>1, <4>2
    <3>2. CASE pc # "wait"
      <4>1. Waiting' = Waiting
        BY <1>2, <2>3, <3>2
      <4> QED  BY <1>4, <4>1 DEF DnInv, DnWakeInv
    <3> QED  BY <3>1, <3>2
  <2>9. dnShutdown' /\ dnLife' # "failing" => Waiting' = {}
    <3>1. dnShutdown' => dnShutdown
      BY <1>1
    <3>2. dnShutdown /\ dnLife # "failing" => pc # "wait" /\ Waiting = {}
      BY <2>1 DEF DnInv, DnWakeInv
    <3> QED  BY <1>1, <2>3, <3>1, <3>2
  <2>10. DnWakeInv'
    BY <1>1, <1>4, <2>7, <2>8, <2>9 DEF DnInv, DnWakeInv
  <2> QED  BY <2>5, <2>6, <2>10 DEF DnInv
<1>5. CASE /\ dnPending # << >> /\ dnPending' = Tail(dnPending)
           /\ dnWorker' = [dnWorker EXCEPT ![w] = [pc |-> "work", query |-> Head(dnPending)]]
  <2> DEFINE h == Head(dnPending)
             x == [pc |-> "work", query |-> h]
  <2>1. /\ h \in DnQueries /\ dnPending' \in Seq(DnQueries) /\ Len(dnPending') = Len(dnPending) - 1
        /\ InPending = InPending' \cup {h} /\ IsInjective(dnPending') /\ h \notin InPending'
    <3>1. IsInjective(dnPending)
      BY DEF DnInv, DnPlaceInv
    <3> QED  BY <1>3, <1>5, <3>1, SplitList DEF InPending
  <2> HIDE DEF h
  <2>2. /\ h \notin InCompleted \cup Held \cup dnDropped /\ dnQuery[h] = "accepted" /\ dnCalls[h] = 0
        /\ h # NoQuery
    BY <2>1 DEF DnInv, DnPlaceInv, QueryPlace
  <2>3. /\ x \in [pc : DnPcs, query : DnQueries \cup {NoQuery}] /\ x.pc = "work" /\ x.query = h
        /\ dnWorker' = [dnWorker EXCEPT ![w] = x]
        /\ x.pc = "work" <=> x.query # NoQuery
    BY <1>5, <2>1, <2>2 DEF DnPcs, h
  <2> HIDE DEF x
  <2>4. /\ dnWorker' \in [DnWorkers -> [pc : DnPcs, query : DnQueries \cup {NoQuery}]]
        /\ (\A v \in DnWorkers : dnWorker[v].pc = "work" <=> dnWorker[v].query # NoQuery)'
        /\ (\A u, v \in DnWorkers :
              dnWorker[u].query = dnWorker[v].query /\ dnWorker[u].query # NoQuery => u = v)'
        /\ Held' = (Held \ {dnWorker[w].query}) \cup ({x.query} \cap DnQueries)
        /\ \A v \in DnWorkers : dnWorker'[v] = IF v = w THEN x ELSE dnWorker[v]
        /\ Waiting' = IF x.pc = "wait" THEN Waiting \cup {w} ELSE Waiting \ {w}
    BY <2>2, <2>3, OneWorker DEF DnInv
  <2>5. Held' = Held \cup {h} /\ Waiting' = Waiting
    <3>1. NoQuery \notin Held
      BY DEF Held
    <3> QED  BY <1>2, <2>1, <2>3, <2>4, <3>1
  <2>6. DnTypeOK'
    BY <1>1, <2>1, <2>4 DEF DnInv, DnTypeOK
  <2>7. DnPlaceInv'
    <3>1. ASSUME NEW y \in DnQueries
          PROVE  QueryPlace(y)'
      <4>0. QueryPlace(y)
        BY DEF DnInv, DnPlaceInv
      <4>1. CASE y = h
        BY <1>1, <1>3, <2>1, <2>2, <2>5, <4>1 DEF QueryPlace
      <4>2. CASE y # h
        BY <1>1, <1>3, <2>1, <2>5, <4>0, <4>2 DEF QueryPlace
      <4> QED  BY <4>1, <4>2
    <3>2. IsInjective(dnCompleted')
      BY <1>1 DEF DnInv, DnPlaceInv
    <3> QED  BY <2>1, <2>4, <3>1, <3>2 DEF DnPlaceInv
  <2>8. DnWakeInv'
    <3>1. \A v \in DnWorkers : dnWorker[v].pc = "notify" => dnWorker'[v].pc = "notify"
      BY <1>2, <2>4
    <3>2. Waiting' # {} => Cardinality(DnWorkers \ Waiting') >= Len(dnPending')
      <4> SUFFICES ASSUME Waiting' # {}
                   PROVE  Cardinality(DnWorkers \ Waiting') >= Len(dnPending')
        OBVIOUS
      <4>1. Cardinality(DnWorkers \ Waiting) >= Len(dnPending)
        BY <2>5 DEF DnInv, DnWakeInv
      <4>2. Cardinality(DnWorkers \ Waiting) \in Nat
        BY AwakeCount
      <4> QED  BY <1>3, <2>1, <2>5, <4>1, <4>2
    <3>3. dnLife' \notin {"making", "failing", "failed"}
      BY <1>1, <1>5 DEF DnInv, DnWakeInv
    <3> QED  BY <1>1, <2>5, <3>1, <3>2, <3>3 DEF DnInv, DnWakeInv
  <2> QED  BY <2>6, <2>7, <2>8 DEF DnInv
<1>6. \/ dnPending' = dnPending /\ \E pc \in {"wait", "exit"} :
             /\ dnWorker' = [dnWorker EXCEPT ![w] = At(pc)]
             /\ pc = "wait" => dnPending = << >> /\ ~dnShutdown
      \/ /\ dnPending # << >> /\ dnPending' = Tail(dnPending)
         /\ dnWorker' = [dnWorker EXCEPT ![w] = [pc |-> "work", query |-> Head(dnPending)]]
  <2>1. CASE dnPending = << >> /\ ~dnShutdown /\ dnWorker' = [dnWorker EXCEPT ![w] = At("wait")]
             /\ dnPending' = dnPending
    BY <2>1, Zenon
  <2>2. CASE dnShutdown /\ dnWorker' = [dnWorker EXCEPT ![w] = At("exit")] /\ dnPending' = dnPending
    <3>1. "exit" # "wait" /\ "exit" \in {"wait", "exit"}
      OBVIOUS
    <3> QED  BY <2>2, <3>1, Zenon
  <2> QED  BY <2>1, <2>2 DEF WorkerTest
<1> QED  BY <1>4, <1>5, <1>6

\* A worker that has a query gives it up: to the completed ones or for good.
LEMMA GiveUpStep ==
  ASSUME DnInv, NEW w \in DnWorkers, dnWorker[w].pc = "work", NEW pc \in {"test", "notify"},
         dnWorker' = [dnWorker EXCEPT ![w] = At(pc)], UNCHANGED dnQueueVars
  PROVE  /\ dnWorker[w].query \in DnQueries
         /\ dnWorker[w].query \notin InPending \cup InCompleted \cup dnDropped
         /\ dnQuery[dnWorker[w].query] = "accepted" /\ dnCalls[dnWorker[w].query] = 0
         /\ dnWorker' \in [DnWorkers -> [pc : DnPcs, query : DnQueries \cup {NoQuery}]]
         /\ (\A v \in DnWorkers : dnWorker[v].pc = "work" <=> dnWorker[v].query # NoQuery)'
         /\ (\A u, v \in DnWorkers :
               dnWorker[u].query = dnWorker[v].query /\ dnWorker[u].query # NoQuery => u = v)'
         /\ Held' = Held \ {dnWorker[w].query}
         /\ \A v \in DnWorkers : dnWorker'[v].pc = IF v = w THEN pc ELSE dnWorker[v].pc
         /\ Waiting' = Waiting /\ InPending' = InPending
<1> USE DnAssumption
<1> DEFINE x == At(pc)
           q == dnWorker[w].query
<1>1. /\ x \in [pc : DnPcs, query : DnQueries \cup {NoQuery}] /\ x.pc = pc /\ x.query = NoQuery
      /\ x.pc = "work" <=> x.query # NoQuery
      /\ x.query # NoQuery => x.query \notin Held
      /\ dnWorker' = [dnWorker EXCEPT ![w] = x]
  BY DEF At, DnPcs
<1>2. q \in DnQueries /\ q \in Held
  BY DEF DnInv, DnTypeOK, DnPlaceInv, Held
<1>3. /\ q \notin InPending \cup InCompleted \cup dnDropped /\ dnQuery[q] = "accepted" /\ dnCalls[q] = 0
  BY <1>2 DEF DnInv, DnPlaceInv, QueryPlace
<1> HIDE DEF x
<1>4. /\ dnWorker' \in [DnWorkers -> [pc : DnPcs, query : DnQueries \cup {NoQuery}]]
      /\ (\A v \in DnWorkers : dnWorker[v].pc = "work" <=> dnWorker[v].query # NoQuery)'
      /\ (\A u, v \in DnWorkers :
            dnWorker[u].query = dnWorker[v].query /\ dnWorker[u].query # NoQuery => u = v)'
      /\ Held' = (Held \ {dnWorker[w].query}) \cup ({x.query} \cap DnQueries)
      /\ \A v \in DnWorkers : dnWorker'[v] = IF v = w THEN x ELSE dnWorker[v]
      /\ Waiting' = IF x.pc = "wait" THEN Waiting \cup {w} ELSE Waiting \ {w}
  BY <1>1, OneWorker DEF DnInv
<1>5. Held' = Held \ {q}
  BY <1>1, <1>4
<1>6. Waiting' = Waiting
  <2>1. w \notin Waiting
    BY DEF Waiting
  <2> QED  BY <1>1, <1>4, <2>1
<1>7. InPending' = InPending
  BY DEF InPending, dnQueueVars
<1> QED  BY <1>1, <1>2, <1>3, <1>4, <1>5, <1>6, <1>7

LEMMA WorkerCompleteStep ==
  ASSUME DnInv, NEW w \in DnWorkers, WorkerComplete(w)
  PROVE  DnInv'
<1> USE DnAssumption
<1> DEFINE q == dnWorker[w].query
<1>1. /\ dnWorker[w].pc = "work" /\ dnCompleted' = Append(dnCompleted, q)
      /\ dnWorker' = [dnWorker EXCEPT ![w] = At("notify")] /\ UNCHANGED dnQueueVars
      /\ dnQuery' = dnQuery /\ dnPending' = dnPending
      /\ dnShutdown' = dnShutdown /\ dnLife' = dnLife /\ dnCalls' = dnCalls /\ dnDropped' = dnDropped
  BY DEF WorkerComplete, dnLoopVars, dnQueueVars
<1>2. /\ q \in DnQueries
      /\ q \notin InPending \cup InCompleted \cup dnDropped
      /\ dnQuery[q] = "accepted" /\ dnCalls[q] = 0
      /\ dnWorker' \in [DnWorkers -> [pc : DnPcs, query : DnQueries \cup {NoQuery}]]
      /\ (\A v \in DnWorkers : dnWorker[v].pc = "work" <=> dnWorker[v].query # NoQuery)'
      /\ (\A u, v \in DnWorkers :
            dnWorker[u].query = dnWorker[v].query /\ dnWorker[u].query # NoQuery => u = v)'
      /\ Held' = Held \ {q}
      /\ \A v \in DnWorkers : dnWorker'[v].pc = IF v = w THEN "notify" ELSE dnWorker[v].pc
      /\ Waiting' = Waiting /\ InPending' = InPending
  BY <1>1, GiveUpStep
<1> HIDE DEF q
<1>3. /\ dnCompleted' \in Seq(DnQueries) /\ InCompleted' = InCompleted \cup {q} /\ IsInjective(dnCompleted')
  <2>1. dnCompleted \in Seq(DnQueries) /\ IsInjective(dnCompleted)
    BY DEF DnInv, DnTypeOK, DnPlaceInv
  <2> QED  BY <1>1, <1>2, <2>1, AppendList DEF InCompleted
<1>4. DnTypeOK'
  BY <1>1, <1>2, <1>3 DEF DnInv, DnTypeOK
<1>5. DnPlaceInv'
  <2>1. ASSUME NEW y \in DnQueries
        PROVE  QueryPlace(y)'
    <3>0. QueryPlace(y)
      BY DEF DnInv, DnPlaceInv
    <3>1. CASE y = q
      BY <1>1, <1>2, <1>3, <3>1 DEF QueryPlace
    <3>2. CASE y # q
      BY <1>1, <1>2, <1>3, <3>0, <3>2 DEF QueryPlace
    <3> QED  BY <3>1, <3>2
  <2>2. IsInjective(dnPending')
    BY <1>1 DEF DnInv, DnPlaceInv
  <2> QED  BY <1>2, <1>3, <2>1, <2>2 DEF DnPlaceInv
<1>6. DnWakeInv'
  <2>1. \E v \in DnWorkers : dnWorker'[v].pc = "notify"
    BY <1>2
  <2> QED  BY <1>1, <1>2, <2>1 DEF DnInv, DnWakeInv
<1> QED  BY <1>4, <1>5, <1>6 DEF DnInv

LEMMA WorkerDropsStep ==
  ASSUME DnInv, NEW w \in DnWorkers, WorkerDrops(w)
  PROVE  DnInv'
<1> USE DnAssumption
<1> DEFINE q == dnWorker[w].query
<1>1. /\ dnWorker[w].pc = "work" /\ dnDropped' = dnDropped \cup {q}
      /\ dnWorker' = [dnWorker EXCEPT ![w] = At("test")] /\ UNCHANGED dnQueueVars
      /\ dnQuery' = dnQuery /\ dnPending' = dnPending /\ dnCompleted' = dnCompleted
      /\ dnShutdown' = dnShutdown /\ dnLife' = dnLife /\ dnCalls' = dnCalls /\ dnEvent' = dnEvent /\ dnLoop' = dnLoop
  BY DEF WorkerDrops, dnLoopVars, dnQueueVars
<1>2. /\ q \in DnQueries
      /\ q \notin InPending \cup InCompleted \cup dnDropped
      /\ dnQuery[q] = "accepted" /\ dnCalls[q] = 0
      /\ dnWorker' \in [DnWorkers -> [pc : DnPcs, query : DnQueries \cup {NoQuery}]]
      /\ (\A v \in DnWorkers : dnWorker[v].pc = "work" <=> dnWorker[v].query # NoQuery)'
      /\ (\A u, v \in DnWorkers :
            dnWorker[u].query = dnWorker[v].query /\ dnWorker[u].query # NoQuery => u = v)'
      /\ Held' = Held \ {q}
      /\ \A v \in DnWorkers : dnWorker'[v].pc = IF v = w THEN "test" ELSE dnWorker[v].pc
      /\ Waiting' = Waiting /\ InPending' = InPending
  BY <1>1, GiveUpStep
<1> HIDE DEF q
<1>3. InCompleted' = InCompleted
  BY <1>1 DEF InCompleted
<1>4. DnTypeOK'
  BY <1>1, <1>2 DEF DnInv, DnTypeOK
<1>5. DnPlaceInv'
  <2>1. ASSUME NEW y \in DnQueries
        PROVE  QueryPlace(y)'
    <3>0. QueryPlace(y)
      BY DEF DnInv, DnPlaceInv
    <3>1. CASE y = q
      BY <1>1, <1>2, <1>3, <3>1 DEF QueryPlace
    <3>2. CASE y # q
      BY <1>1, <1>2, <1>3, <3>0, <3>2 DEF QueryPlace
    <3> QED  BY <3>1, <3>2
  <2> QED  BY <1>1, <1>2, <2>1 DEF DnInv, DnPlaceInv
<1>6. DnWakeInv'
  <2>1. \A v \in DnWorkers : dnWorker[v].pc = "notify" => dnWorker'[v].pc = "notify"
    BY <1>1, <1>2
  <2> QED  BY <1>1, <1>2, <2>1 DEF DnInv, DnWakeInv
<1> QED  BY <1>4, <1>5, <1>6 DEF DnInv

LEMMA WorkerNotifyStep ==
  ASSUME DnInv, NEW w \in DnWorkers, WorkerNotify(w)
  PROVE  DnInv'
<1> USE DnAssumption
<1>1. /\ dnWorker[w].pc = "notify" /\ dnEvent'
      /\ dnWorker' = [dnWorker EXCEPT ![w] = At("test")]
      /\ dnQuery' = dnQuery /\ dnPending' = dnPending /\ dnCompleted' = dnCompleted
      /\ dnShutdown' = dnShutdown /\ dnLife' = dnLife /\ dnCalls' = dnCalls /\ dnDropped' = dnDropped
  BY DEF WorkerNotify, dnLoopVars, dnQueueVars
<1>2. dnWorker[w].pc # "work" /\ w \notin Waiting /\ "test" \in DnPcs \ {"work"}
  BY <1>1 DEF DnPcs, Waiting
<1>3. /\ dnWorker' \in [DnWorkers -> [pc : DnPcs, query : DnQueries \cup {NoQuery}]]
      /\ (\A v \in DnWorkers : dnWorker[v].pc = "work" <=> dnWorker[v].query # NoQuery)'
      /\ (\A u, v \in DnWorkers :
            dnWorker[u].query = dnWorker[v].query /\ dnWorker[u].query # NoQuery => u = v)'
      /\ Held' = Held
      /\ Waiting' = IF "test" = "wait" THEN Waiting \cup {w} ELSE Waiting \ {w}
  BY <1>1, <1>2, EmptyHanded DEF DnInv
<1>4. Waiting' = Waiting /\ InPending' = InPending /\ InCompleted' = InCompleted
  BY <1>1, <1>2, <1>3 DEF InPending, InCompleted
<1>5. DnTypeOK'
  BY <1>1, <1>3 DEF DnInv, DnTypeOK
<1>6. DnPlaceInv'
  BY <1>1, <1>3, <1>4 DEF DnInv, DnPlaceInv, QueryPlace
<1>7. DnWakeInv'
  BY <1>1, <1>4 DEF DnInv, DnWakeInv
<1> QED  BY <1>5, <1>6, <1>7 DEF DnInv

\* dnsProcessCompleted takes a result, or sees that there is none.
LEMMA PopCompletedStep ==
  ASSUME DnInv, PopCompleted
  PROVE  DnInv'
<1> USE DnAssumption
<1> DEFINE h == Head(dnCompleted)
<1>1. /\ dnQuery' = dnQuery /\ dnPending' = dnPending /\ dnWorker' = dnWorker
      /\ dnShutdown' = dnShutdown /\ dnLife' = dnLife /\ dnEvent' = dnEvent /\ dnDropped' = dnDropped
  BY DEF PopCompleted, dnQueueVars
<1>2. Held' = Held /\ InPending' = InPending /\ Waiting' = Waiting
  BY <1>1 DEF Held, InPending, Waiting
<1>3. CASE dnCompleted = << >>
  <2>1. dnCompleted' = dnCompleted /\ dnCalls' = dnCalls
    BY <1>3 DEF PopCompleted
  <2>2. InCompleted' = InCompleted
    BY <2>1 DEF InCompleted
  <2>3. DnTypeOK' /\ DnPlaceInv'
    BY <1>1, <1>2, <2>1, <2>2 DEF DnInv, DnTypeOK, DnPlaceInv, QueryPlace
  <2> QED  BY <1>1, <1>2, <1>3, <2>1, <2>3 DEF DnInv, DnWakeInv
<1>4. CASE dnCompleted # << >>
  <2>1. /\ dnCompleted' = Tail(dnCompleted) /\ dnCalls' = [dnCalls EXCEPT ![h] = @ + 1] /\ dnLoop' = "call"
    BY <1>4 DEF PopCompleted
  <2>2. /\ h \in DnQueries /\ dnCompleted' \in Seq(DnQueries) /\ InCompleted = InCompleted' \cup {h}
        /\ IsInjective(dnCompleted') /\ h \notin InCompleted'
    <3>1. dnCompleted \in Seq(DnQueries) /\ IsInjective(dnCompleted)
      BY DEF DnInv, DnTypeOK, DnPlaceInv
    <3> QED  BY <1>4, <2>1, <3>1, SplitList DEF InCompleted
  <2> HIDE DEF h
  <2>3. h \notin InPending \cup Held \cup dnDropped /\ dnQuery[h] = "accepted" /\ dnCalls[h] = 0
    BY <2>2 DEF DnInv, DnPlaceInv, QueryPlace
  <2>4. /\ dnCalls \in [DnQueries -> Nat]
        /\ \A y \in DnQueries : dnCalls'[y] = IF y = h THEN 1 ELSE dnCalls[y]
        /\ dnCalls' \in [DnQueries -> Nat]
    <3>1. dnCalls \in [DnQueries -> Nat]
      BY DEF DnInv, DnTypeOK
    <3> QED  BY <2>1, <2>2, <2>3, <3>1
  <2>5. DnTypeOK'
    BY <1>1, <2>2, <2>4 DEF DnInv, DnTypeOK
  <2>6. DnPlaceInv'
    <3>1. ASSUME NEW y \in DnQueries
          PROVE  QueryPlace(y)'
      <4>0. QueryPlace(y)
        BY DEF DnInv, DnPlaceInv
      <4>1. CASE y = h
        BY <1>1, <1>2, <2>2, <2>3, <2>4, <4>1 DEF QueryPlace
      <4>2. CASE y # h
        BY <1>1, <1>2, <2>2, <2>4, <4>0, <4>2 DEF QueryPlace
      <4> QED  BY <4>1, <4>2
    <3> QED  BY <1>1, <2>2, <3>1 DEF DnInv, DnPlaceInv
  <2>7. DnWakeInv'
    <3>1. dnLoop' # "out"
      BY <2>1
    <3> QED  BY <1>1, <1>2, <3>1 DEF DnInv, DnWakeInv
  <2> QED  BY <2>5, <2>6, <2>7 DEF DnInv
<1> QED  BY <1>3, <1>4

\* loopyDNSNew: workers that have or wait for nothing.
LEMMA DnsNewSteps ==
  ASSUME DnInv, DnsNew \/ NewFailed \/ \E w \in DnWorkers : CreateWorker(w)
  PROVE  DnInv'
<1> USE DnAssumption
<1>1. /\ dnQuery' = dnQuery /\ dnPending' = dnPending /\ dnCompleted' = dnCompleted
      /\ dnShutdown' = dnShutdown /\ dnCalls' = dnCalls /\ dnDropped' = dnDropped
      /\ dnEvent' = dnEvent /\ dnLoop' = dnLoop
  BY DEF DnsNew, NewFailed, CreateWorker, dnLoopVars, dnQueueVars
<1>2. InPending' = InPending /\ InCompleted' = InCompleted
  BY <1>1 DEF InPending, InCompleted
<1>3. CASE DnsNew \/ NewFailed
  <2>1. /\ dnWorker' = dnWorker /\ (dnLife = "failing" => Waiting = {})
        /\ dnLife \in {"making", "failing", "failed"}
    BY <1>3 DEF DnsNew, NewFailed, Waiting
  <2>2. Held' = Held /\ Waiting' = Waiting
    BY <2>1 DEF Held, Waiting
  <2>3. DnTypeOK' /\ DnPlaceInv'
    BY <1>1, <1>2, <2>1, <2>2 DEF DnInv, DnTypeOK, DnPlaceInv, QueryPlace
  <2>4. DnWakeInv'
    BY <1>1, <2>1, <2>2 DEF DnInv, DnWakeInv
  <2> QED  BY <2>3, <2>4 DEF DnInv
<1>4. ASSUME NEW w \in DnWorkers, CreateWorker(w)
      PROVE  DnInv'
  <2>1. /\ dnWorker[w].pc = "none" /\ dnWorker' = [dnWorker EXCEPT ![w] = At("test")] /\ dnLife' = dnLife
        /\ dnWorker[w].pc # "work" /\ w \notin Waiting /\ "test" \in DnPcs \ {"work"}
    BY <1>4 DEF CreateWorker, DnPcs, Waiting
  <2>2. /\ dnWorker' \in [DnWorkers -> [pc : DnPcs, query : DnQueries \cup {NoQuery}]]
        /\ (\A v \in DnWorkers : dnWorker[v].pc = "work" <=> dnWorker[v].query # NoQuery)'
        /\ (\A u, v \in DnWorkers :
              dnWorker[u].query = dnWorker[v].query /\ dnWorker[u].query # NoQuery => u = v)'
        /\ Held' = Held
        /\ \A v \in DnWorkers : dnWorker'[v] = IF v = w THEN At("test") ELSE dnWorker[v]
        /\ Waiting' = IF "test" = "wait" THEN Waiting \cup {w} ELSE Waiting \ {w}
    BY <2>1, EmptyHanded DEF DnInv
  <2>3. Waiting' = Waiting /\ \A v \in DnWorkers : dnWorker[v].pc = "notify" => dnWorker'[v].pc = "notify"
    BY <2>1, <2>2
  <2>4. DnTypeOK'
    BY <1>1, <2>2 DEF DnInv, DnTypeOK
  <2>5. DnPlaceInv'
    BY <1>1, <1>2, <2>2 DEF DnInv, DnPlaceInv, QueryPlace
  <2>6. DnWakeInv'
    BY <1>1, <2>1, <2>3 DEF DnInv, DnWakeInv
  <2> QED  BY <2>4, <2>5, <2>6 DEF DnInv
<1> QED  BY <1>3, <1>4

\* It fails, and may leave one worker asleep; no query is there yet.
LEMMA CreateFailsStep ==
  ASSUME DnInv, NEW ws \in SUBSET DnWorkers, CreateFails(ws)
  PROVE  DnInv'
<1> USE DnAssumption
<1>1. /\ dnWorker' = [w \in DnWorkers |-> IF w \in ws THEN At("wait")
                                          ELSE IF w \in Waiting THEN At("test") ELSE dnWorker[w]]
      /\ dnLife = "making" /\ dnLife' = "failing" /\ \A w \in ws : dnWorker[w].pc = "test"
      /\ dnQuery' = dnQuery /\ dnPending' = dnPending /\ dnCompleted' = dnCompleted
      /\ dnCalls' = dnCalls /\ dnDropped' = dnDropped /\ dnEvent' = dnEvent /\ dnLoop' = dnLoop
  BY DEF CreateFails, dnLoopVars, dnQueueVars
<1>2. /\ At("test").pc = "test" /\ At("test").query = NoQuery
      /\ At("test") \in [pc : DnPcs, query : DnQueries \cup {NoQuery}]
      /\ At("wait").pc = "wait" /\ At("wait").query = NoQuery
      /\ At("wait") \in [pc : DnPcs, query : DnQueries \cup {NoQuery}]
  BY DEF At, DnPcs
<1>3. \A w \in Waiting \cup ws : dnWorker[w].query = NoQuery /\ dnWorker[w].pc \in {"wait", "test"}
  BY <1>1 DEF Waiting, DnInv, DnPlaceInv
<1>4. dnWorker \in [DnWorkers -> [pc : DnPcs, query : DnQueries \cup {NoQuery}]]
  BY DEF DnInv, DnTypeOK
<1>5. \A w \in DnWorkers :
        /\ dnWorker'[w].query = dnWorker[w].query
        /\ dnWorker'[w].pc = IF w \in ws THEN "wait" ELSE IF w \in Waiting THEN "test" ELSE dnWorker[w].pc
  BY <1>1, <1>2, <1>3
<1>6. dnWorker' \in [DnWorkers -> [pc : DnPcs, query : DnQueries \cup {NoQuery}]]
  BY <1>1, <1>2, <1>4
<1>7. Held' = Held /\ InPending' = InPending /\ InCompleted' = InCompleted
  BY <1>1, <1>5 DEF Held, InPending, InCompleted
<1>8. DnTypeOK'
  BY <1>1, <1>6 DEF DnInv, DnTypeOK
<1>9. (\A v \in DnWorkers : dnWorker[v].pc = "work" <=> dnWorker[v].query # NoQuery)'
  BY <1>3, <1>5 DEF DnInv, DnPlaceInv
<1>10. (\A u, v \in DnWorkers :
            dnWorker[u].query = dnWorker[v].query /\ dnWorker[u].query # NoQuery => u = v)'
  BY <1>5 DEF DnInv, DnPlaceInv
<1>11. DnPlaceInv'
  BY <1>1, <1>7, <1>9, <1>10 DEF DnInv, DnPlaceInv, QueryPlace
<1>12. DnWakeInv'
  <2>1. \A v \in DnWorkers : dnWorker[v].pc = "notify" => dnWorker'[v].pc = "notify"
    BY <1>3, <1>5
  <2>2. Len(dnPending') = 0
    BY <1>1 DEF DnInv, DnWakeInv
  <2>3. Cardinality(DnWorkers \ Waiting') \in Nat
    BY FS_Subset, FS_CardinalityType
  <2> QED  BY <1>1, <2>1, <2>2, <2>3 DEF DnInv, DnWakeInv
<1> QED  BY <1>8, <1>11, <1>12 DEF DnInv

\* loopyDNSFree wakes everybody.
LEMMA DnsFreeStep ==
  ASSUME DnInv, DnsFree
  PROVE  DnInv'
<1> USE DnAssumption
<1>1. /\ dnWorker' = [w \in DnWorkers |-> IF w \in Waiting THEN At("test") ELSE dnWorker[w]]
      /\ dnQuery' = dnQuery /\ dnPending' = dnPending /\ dnCompleted' = dnCompleted
      /\ dnCalls' = dnCalls /\ dnDropped' = dnDropped /\ dnEvent' = dnEvent /\ dnLoop' = dnLoop
      /\ dnLife' \notin {"making", "failing", "failed"}
  BY DEF DnsFree, dnLoopVars, dnQueueVars
<1>2. At("test").pc = "test" /\ At("test").query = NoQuery
      /\ At("test") \in [pc : DnPcs, query : DnQueries \cup {NoQuery}]
  BY DEF At, DnPcs
<1>3. \A w \in Waiting : dnWorker[w].query = NoQuery /\ dnWorker[w].pc = "wait"
  BY DEF Waiting, DnInv, DnPlaceInv
<1>4. dnWorker \in [DnWorkers -> [pc : DnPcs, query : DnQueries \cup {NoQuery}]]
  BY DEF DnInv, DnTypeOK
<1>5. \A w \in DnWorkers :
        /\ dnWorker'[w].query = dnWorker[w].query
        /\ dnWorker'[w].pc = IF w \in Waiting THEN "test" ELSE dnWorker[w].pc
        /\ dnWorker'[w] \in [pc : DnPcs, query : DnQueries \cup {NoQuery}]
  BY <1>1, <1>2, <1>3, <1>4
<1>6. dnWorker' \in [DnWorkers -> [pc : DnPcs, query : DnQueries \cup {NoQuery}]]
  BY <1>1, <1>2, <1>4
<1>7. Waiting' = {} /\ Held' = Held /\ InPending' = InPending /\ InCompleted' = InCompleted
  BY <1>1, <1>5 DEF Waiting, Held, InPending, InCompleted
<1>8. DnTypeOK'
  BY <1>1, <1>6 DEF DnInv, DnTypeOK
<1>9. (\A v \in DnWorkers : dnWorker[v].pc = "work" <=> dnWorker[v].query # NoQuery)'
  BY <1>3, <1>5 DEF DnInv, DnPlaceInv
<1>10. (\A u, v \in DnWorkers :
            dnWorker[u].query = dnWorker[v].query /\ dnWorker[u].query # NoQuery => u = v)'
  BY <1>5 DEF DnInv, DnPlaceInv
<1>11. DnPlaceInv'
  BY <1>1, <1>7, <1>9, <1>10 DEF DnInv, DnPlaceInv, QueryPlace
<1>12. DnWakeInv'
  <2>1. \A v \in DnWorkers : dnWorker[v].pc = "notify" => dnWorker'[v].pc = "notify"
    BY <1>3, <1>5
  <2> QED  BY <1>1, <1>7, <2>1 DEF DnInv, DnWakeInv
<1> QED  BY <1>8, <1>11, <1>12 DEF DnInv

\* and, when they are gone, drops what is left.
LEMMA DnsJoinedStep ==
  ASSUME DnInv, DnsJoined
  PROVE  DnInv'
<1> USE DnAssumption
<1>1. /\ dnDropped' = dnDropped \cup InPending \cup InCompleted
      /\ dnPending' = << >> /\ dnCompleted' = << >>
      /\ dnQuery' = dnQuery /\ dnShutdown' = dnShutdown /\ dnWorker' = dnWorker /\ dnCalls' = dnCalls
      /\ dnLife = "joining" /\ dnLife' \notin {"making", "failing", "failed"} /\ dnLife # "failing"
  BY DEF DnsJoined, dnLoopVars, InPending, InCompleted
<1>2. /\ dnPending' \in Seq(DnQueries) /\ dnCompleted' \in Seq(DnQueries) /\ Len(dnPending') = 0
      /\ InPending' = {} /\ InCompleted' = {} /\ IsInjective(dnPending') /\ IsInjective(dnCompleted')
  BY <1>1 DEF InPending, InCompleted, Range, IsInjective
<1>3. Held' = Held /\ Waiting' = Waiting
  BY <1>1 DEF Held, Waiting
<1>4. InPending \subseteq DnQueries /\ InCompleted \subseteq DnQueries
  BY EmptyList DEF DnInv, DnTypeOK, InPending, InCompleted
<1>5. DnTypeOK'
  BY <1>1, <1>2, <1>4 DEF DnInv, DnTypeOK
<1>6. \A q \in DnQueries : QueryPlace(q)'
  <2> TAKE q \in DnQueries
  <2>1. QueryPlace(q)
    BY DEF DnInv, DnPlaceInv
  <2> QED  BY <1>1, <1>2, <1>3, <2>1 DEF QueryPlace
<1>7. DnPlaceInv'
  BY <1>1, <1>2, <1>6 DEF DnInv, DnPlaceInv
<1>8. DnWakeInv'
  <2>1. Cardinality(DnWorkers \ Waiting) \in Nat
    BY AwakeCount
  <2> QED  BY <1>1, <1>2, <1>3, <2>1 DEF DnInv, DnWakeInv
<1> QED  BY <1>5, <1>7, <1>8 DEF DnInv

LEMMA DnStep == DnInv /\ [DnNext]_dnVars => DnInv'
<1> SUFFICES ASSUME DnInv, [DnNext]_dnVars
             PROVE  DnInv'
  OBVIOUS
<1>1. ASSUME /\ dnQuery' = dnQuery /\ dnPending' = dnPending /\ dnWorker' = dnWorker
             /\ dnShutdown' = dnShutdown /\ dnLife' = dnLife /\ dnDropped' = dnDropped /\ dnCompleted' = dnCompleted
             /\ dnCalls' = dnCalls,
             dnLoop' # "out" \/ (dnEvent' = dnEvent /\ dnLoop' = dnLoop)
      PROVE  DnInv'
  <2>1. Held' = Held /\ InPending' = InPending /\ InCompleted' = InCompleted /\ Waiting' = Waiting
    BY <1>1 DEF Held, InPending, InCompleted, Waiting
  <2>2. DnTypeOK' /\ DnPlaceInv'
    BY <1>1, <2>1 DEF DnInv, DnTypeOK, DnPlaceInv, QueryPlace
  <2>3. DnWakeInv'
    BY <1>1, <2>1 DEF DnInv, DnWakeInv
  <2> QED  BY <2>2, <2>3 DEF DnInv
<1>2. ASSUME NEW qs, Cancel(qs)
      PROVE  DnInv'
  BY <1>1, <1>2 DEF Cancel, dnLoopVars
<1>3. CASE Notified
  BY <1>1, <1>3 DEF Notified, dnQueueVars
<1>4. CASE QueryCallbackReturns
  BY <1>1, <1>4 DEF QueryCallbackReturns, dnQueueVars
<1>5. CASE UNCHANGED dnVars
  BY <1>1, <1>5 DEF dnVars
<1> QED  BY <1>2, <1>3, <1>4, <1>5, ResolveStep, WorkerTestStep, WorkerCompleteStep, WorkerDropsStep,
            WorkerNotifyStep, PopCompletedStep, DnsFreeStep, DnsJoinedStep, DnsNewSteps, CreateFailsStep DEF DnNext

LEMMA DnInitOK == DnInit => DnInv
<1> SUFFICES ASSUME DnInit
             PROVE  DnInv
  OBVIOUS
<1> USE DnAssumption
<1>1. /\ dnQuery = [q \in DnQueries |-> "new"] /\ dnPending = << >> /\ dnCompleted = << >>
      /\ ~dnShutdown /\ dnWorker = [w \in DnWorkers |-> At("none")]
      /\ dnCalls = [q \in DnQueries |-> 0] /\ dnDropped = {}
  BY DEF DnInit
<1>2. /\ << >> \in Seq(DnQueries) /\ Range(<< >>) = {} /\ IsInjective(<< >>) /\ Len(<< >>) = 0
  BY DEF Range, IsInjective
<1>3. At("none") \in [pc : DnPcs, query : DnQueries \cup {NoQuery}] /\ At("none").pc = "none"
      /\ At("none").query = NoQuery
  BY DEF At, DnPcs
<1>4. \A w \in DnWorkers : dnWorker[w].pc = "none" /\ dnWorker[w].query = NoQuery
  BY <1>1, <1>3
<1>5. Held = {} /\ InPending = {} /\ InCompleted = {} /\ Waiting = {}
  BY <1>1, <1>2, <1>4 DEF Held, InPending, InCompleted, Waiting
<1>6. DnTypeOK
  BY <1>1, <1>2, <1>3 DEF DnTypeOK
<1>7. DnPlaceInv
  BY <1>1, <1>2, <1>4, <1>5 DEF DnPlaceInv, QueryPlace
<1> QED  BY <1>1, <1>5, <1>6, <1>7 DEF DnInv, DnWakeInv

LEMMA DnInvExact == DnInv => DnsExact
<1> SUFFICES ASSUME DnInv
             PROVE  DnsExact
  OBVIOUS
<1> USE DnAssumption
<1>1. ASSUME NEW q \in DnQueries, dnQuery[q] = "accepted"
      PROVE  dnCalls[q] + Cardinality({i \in DOMAIN dnPending : dnPending[i] = q})
               + Cardinality({i \in DOMAIN dnCompleted : dnCompleted[i] = q})
               + Cardinality({w \in DnWorkers : dnWorker[w].query = q})
               + Cardinality({q} \cap dnDropped) = 1
  <2>0. QueryPlace(q) /\ q # NoQuery
    BY DEF DnInv, DnPlaceInv
  <2>1. /\ Cardinality({i \in DOMAIN dnPending : dnPending[i] = q}) = IF q \in InPending THEN 1 ELSE 0
        /\ Cardinality({i \in DOMAIN dnCompleted : dnCompleted[i] = q}) = IF q \in InCompleted THEN 1 ELSE 0
    <3>1. /\ dnPending \in Seq(DnQueries) /\ IsInjective(dnPending)
          /\ dnCompleted \in Seq(DnQueries) /\ IsInjective(dnCompleted)
      BY DEF DnInv, DnTypeOK, DnPlaceInv
    <3> QED  BY <3>1, OccursOnce, Zenon DEF InPending, InCompleted
  <2>2. Cardinality({w \in DnWorkers : dnWorker[w].query = q}) = IF q \in Held THEN 1 ELSE 0
    <3>1. CASE q \in Held
      <4>1. PICK w \in DnWorkers : dnWorker[w].query = q
        BY <3>1 DEF Held
      <4>2. {v \in DnWorkers : dnWorker[v].query = q} = {w}
        BY <2>0, <4>1 DEF DnInv, DnPlaceInv
      <4> QED  BY <3>1, <4>2, FS_Singleton
    <3>2. CASE q \notin Held
      <4>1. {v \in DnWorkers : dnWorker[v].query = q} = {}
        BY <3>2 DEF Held
      <4> QED  BY <3>2, <4>1, FS_EmptySet
    <3> QED  BY <3>1, <3>2
  <2>3. Cardinality({q} \cap dnDropped) = IF q \in dnDropped THEN 1 ELSE 0
    <3>1. CASE q \in dnDropped
      <4>1. {q} \cap dnDropped = {q}
        BY <3>1
      <4> QED  BY <3>1, <4>1, FS_Singleton
    <3>2. CASE q \notin dnDropped
      <4>1. {q} \cap dnDropped = {}
        BY <3>2
      <4> QED  BY <3>2, <4>1, FS_EmptySet
    <3> QED  BY <3>1, <3>2
  <2> QED  BY <1>1, <2>0, <2>1, <2>2, <2>3 DEF QueryPlace
<1>2. Cardinality(DnWorkers \ Waiting) >= Min({Len(dnPending), Cardinality(DnWorkers)})
  <2>1. Len(dnPending) \in Nat /\ Cardinality(DnWorkers) \in Nat /\ Cardinality(DnWorkers \ Waiting) \in Nat
    BY LenProperties, FS_CardinalityType, AwakeCount DEF DnInv, DnTypeOK
  <2>2. \A x, y \in Nat : Min({x, y}) <= x /\ Min({x, y}) <= y /\ Min({x, y}) \in Nat
    <3> SUFFICES ASSUME NEW x \in Nat, NEW y \in Nat
                 PROVE  Min({x, y}) <= x /\ Min({x, y}) <= y /\ Min({x, y}) \in Nat
      OBVIOUS
    <3>1. \E m \in {x, y} : \A z \in {x, y} : m <= z
      OBVIOUS
    <3> QED  BY <3>1 DEF Min
  <2>3. Waiting = {} => Cardinality(DnWorkers \ Waiting) = Cardinality(DnWorkers)
    <3>1. Waiting = {} => DnWorkers \ Waiting = DnWorkers
      OBVIOUS
    <3> QED  BY <3>1
  <2>4. Waiting # {} => Cardinality(DnWorkers \ Waiting) >= Len(dnPending)
    BY DEF DnInv, DnWakeInv
  <2> QED  BY <2>1, <2>2, <2>3, <2>4
<1> QED  BY <1>1, <1>2 DEF DnsExact, DnInv, DnWakeInv

-----------------------------------------------------------------------------
(* File operations                                                          *)

FsRecord ==
  [pc : {"none", "queued", "start", "run", "fill", "copy", "finished", "completed", "freed"},
   kind : FsKinds, async : BOOLEAN, cancelled : BOOLEAN, item : BOOLEAN,
   result : {"none", "ok", "error", "ECANCELED"}, ran : BOOLEAN, yes : BOOLEAN,
   n : Nat, room : Nat]

\* What is so of a request and its callbacks at each point: nothing ran before
\* "run"; an item that loopyWorkCancel marked never gets there; and a copy or a
\* scan has its result when its loop is through.
RequestOK(q, calls) ==
  /\ q.pc \in {"none", "queued", "start", "run"} => ~q.ran /\ q.result = "none" /\ q.n = 0
  /\ q.pc \in {"run", "fill", "copy"} => ~q.item
  /\ q.pc \in {"fill", "copy"} => q.ran /\ q.result = "none"
  /\ q.pc = "fill" => q.kind = "scan" /\ q.n = 0
  /\ q.pc = "copy" => q.kind = "copy"
  /\ q.yes => q.item
  /\ q.item => ~q.ran
  /\ q.pc = "finished" => q.result # "none"
  /\ q.pc \notin {"completed", "freed"} => calls = 0
  /\ q.result # "none" => (q.result = "ECANCELED" <=> ~q.ran)
  /\ q.pc = "completed" => calls = IF q.async THEN 1 ELSE 0
  /\ q.kind = "copy" /\ q.result = "ok" => q.n = FsPieces
  /\ q.kind = "copy" => q.n <= FsPieces
  /\ q.kind = "scan" => q.n <= q.room

FsInv ==
  /\ fsReq \in [FsRequests -> FsRecord]
  /\ fsDir \in Nat /\ fsCalls \in [FsRequests -> Nat]
  /\ \A r \in FsRequests : RequestOK(fsReq[r], fsCalls[r])

\* One request changes and the others do not.
LEMMA OneRequest ==
  ASSUME FsInv, NEW r \in FsRequests, NEW q \in FsRecord, SetRequest(r, q),
         UNCHANGED <<fsDir, fsCalls>>, RequestOK(q, fsCalls[r])
  PROVE  FsInv'
<1>1. /\ fsReq \in [FsRequests -> FsRecord] /\ fsReq' = [fsReq EXCEPT ![r] = q]
      /\ fsDir' = fsDir /\ fsCalls' = fsCalls
  BY DEF FsInv, SetRequest
<1>2. \A x \in FsRequests : fsReq'[x] = IF x = r THEN q ELSE fsReq[x]
  BY <1>1
<1>3. \A x \in FsRequests : RequestOK(fsReq'[x], fsCalls'[x])
  BY <1>1, <1>2 DEF FsInv
<1> QED  BY <1>1, <1>2, <1>3 DEF FsInv, RequestOK

\* Every step of a request, of its worker and of who cancels it.
LEMMA FsStep == FsInv /\ [FsNext]_fsVars => FsInv'
<1> SUFFICES ASSUME FsInv, [FsNext]_fsVars
             PROVE  FsInv'
  OBVIOUS
<1>0. NoRequest \in FsRecord /\ \A r \in FsRequests : fsReq[r] \in FsRecord /\ RequestOK(fsReq[r], fsCalls[r])
  BY DEF FsInv, NoRequest, FsRecord, FsKinds
<1>1. ASSUME NEW r \in FsRequests, NEW kind \in FsKinds, RequestSync(r, kind)
      PROVE  FsInv'
  <2> DEFINE q == [NoRequest EXCEPT !.pc = "start", !.kind = kind]
  <2>1. q \in FsRecord
    BY <1>0 DEF FsRecord, FsKinds
  <2>2. RequestOK(q, fsCalls[r])
    BY <1>0, <1>1, FsAssumption DEF RequestSync, FsAt, RequestOK, NoRequest
  <2> QED  BY <1>1, <2>1, <2>2, OneRequest DEF RequestSync
<1>2. ASSUME NEW r \in FsRequests, NEW kind \in FsKinds, RequestAsync(r, kind)
      PROVE  FsInv'
  <2> DEFINE q == [NoRequest EXCEPT !.pc = "queued", !.kind = kind, !.async = TRUE]
  <2>1. q \in FsRecord
    BY <1>0 DEF FsRecord, FsKinds
  <2>2. RequestOK(q, fsCalls[r])
    BY <1>0, <1>2, FsAssumption DEF RequestAsync, FsAt, RequestOK, NoRequest
  <2> QED  BY <1>2, <2>1, <2>2, OneRequest DEF RequestAsync
<1>3. ASSUME NEW r \in FsRequests, NEW ok \in BOOLEAN, RequestRefused(r, ok)
      PROVE  FsInv'
  <2> DEFINE q == [NoRequest EXCEPT !.pc = "freed"]
  <2>1. q \in FsRecord
    BY <1>0 DEF FsRecord, FsKinds
  <2>2. RequestOK(q, fsCalls[r])
    BY <1>0, <1>3 DEF RequestRefused, FsAt, RequestOK, NoRequest
  <2> QED  BY <1>3, <2>1, <2>2, OneRequest DEF RequestRefused
<1>4. ASSUME NEW r \in FsRequests, NEW ok \in BOOLEAN, RunCall(r, ok)
      PROVE  FsInv'
  <2> DEFINE q == [Finish(fsReq[r], IF ok THEN "ok" ELSE "error") EXCEPT !.ran = TRUE]
  <2>1. q \in FsRecord
    BY <1>0, ZenonT(30) DEF FsRecord, FsKinds, Finish
  <2>2. RequestOK(q, fsCalls[r])
    BY <1>0, <1>4 DEF RunCall, FsAt, RequestOK, Finish, FsRecord
  <2> QED  BY <1>4, <2>1, <2>2, OneRequest DEF RunCall
<1>5. ASSUME NEW r \in FsRequests, NEW ok \in BOOLEAN, ScanCount(r, ok)
      PROVE  FsInv'
  <2> DEFINE q == IF ok THEN [fsReq[r] EXCEPT !.pc = "fill", !.room = fsDir, !.ran = TRUE]
                  ELSE [Finish(fsReq[r], "error") EXCEPT !.ran = TRUE]
  <2>0. fsDir \in Nat
    BY DEF FsInv
  <2>1. q \in FsRecord
    BY <1>0, <2>0, ZenonT(60) DEF FsRecord, FsKinds, Finish
  <2>2. RequestOK(q, fsCalls[r])
    BY <1>0, <1>5, <2>0 DEF ScanCount, FsAt, RequestOK, Finish, FsRecord
  <2> QED  BY <1>5, <2>1, <2>2, OneRequest DEF ScanCount
<1>6. ASSUME NEW r \in FsRequests, NEW ok \in BOOLEAN, CopyOpen(r, ok)
      PROVE  FsInv'
  <2> DEFINE q == IF ok THEN [fsReq[r] EXCEPT !.pc = "copy", !.ran = TRUE]
                  ELSE [Finish(fsReq[r], "error") EXCEPT !.ran = TRUE]
  <2>1. q \in FsRecord
    BY <1>0, ZenonT(30) DEF FsRecord, FsKinds, Finish
  <2>2. RequestOK(q, fsCalls[r])
    BY <1>0, <1>6 DEF CopyOpen, FsAt, RequestOK, Finish, FsRecord
  <2> QED  BY <1>6, <2>1, <2>2, OneRequest DEF CopyOpen
<1>7. ASSUME NEW r \in FsRequests, NEW outcome \in {"whole", "fails"}, CopyPiece(r, outcome)
      PROVE  FsInv'
  <2>0. fsReq[r].n \in Nat /\ fsReq[r] \in FsRecord /\ fsReq[r].kind = "copy" /\ fsReq[r].pc = "copy"
    BY <1>0, <1>7 DEF CopyPiece, FsAt, RequestOK, FsRecord
  <2>1. Finish(fsReq[r], "error") \in FsRecord /\ Finish(fsReq[r], "ok") \in FsRecord
    BY <2>0 DEF FsRecord, Finish
  <2>2. fsReq[r].n + 1 \in Nat /\ fsReq[r].n <= FsPieces
    BY <1>0, <2>0 DEF RequestOK
  <2>3. [fsReq[r] EXCEPT !.n = @ + 1] \in FsRecord
    BY <2>0, <2>2 DEF FsRecord
  <2>4. RequestOK(Finish(fsReq[r], "error"), fsCalls[r])
    BY <1>0, <2>0, <2>2 DEF RequestOK, Finish, FsRecord
  <2>5. fsReq[r].n = FsPieces => RequestOK(Finish(fsReq[r], "ok"), fsCalls[r])
    BY <1>0, <2>0, <2>2 DEF RequestOK, Finish, FsRecord
  <2>6. fsReq[r].n < FsPieces => RequestOK([fsReq[r] EXCEPT !.n = @ + 1], fsCalls[r])
    BY <1>0, <2>0, <2>2, FsAssumption DEF RequestOK, FsRecord
  <2>7. UNCHANGED <<fsDir, fsCalls>>
    BY <1>7 DEF CopyPiece
  <2>8. CASE outcome = "fails"
    BY <1>7, <2>1, <2>4, <2>7, <2>8, OneRequest DEF CopyPiece
  <2>9. CASE outcome = "whole" /\ fsReq[r].n < FsPieces
    <3>1. SetRequest(r, [fsReq[r] EXCEPT !.n = @ + 1])
      <4>1. outcome # "fails" /\ fsReq[r].n # FsPieces /\ outcome = "whole"
        BY <2>9, <2>0, FsAssumption
      <4> QED  BY <1>7, <2>9, <4>1, Zenon DEF CopyPiece
    <3> QED  BY <2>3, <2>6, <2>7, <2>9, <3>1, OneRequest
  <2>10. CASE outcome = "whole" /\ fsReq[r].n = FsPieces
    BY <1>7, <2>1, <2>5, <2>7, <2>10, OneRequest, FsAssumption DEF CopyPiece
  <2>11. fsReq[r].n < FsPieces \/ fsReq[r].n = FsPieces
    BY <2>0, <2>2, FsAssumption
  <2> QED  BY <2>8, <2>9, <2>10, <2>11
<1>8. ASSUME NEW r \in FsRequests, MarkCancelled(r)
      PROVE  FsInv'
  <2> DEFINE q == [fsReq[r] EXCEPT !.cancelled = TRUE]
  <2>1. q \in FsRecord
    BY <1>0 DEF FsRecord
  <2>2. RequestOK(q, fsCalls[r])
    BY <1>0 DEF RequestOK, FsRecord
  <2> QED  BY <1>8, <2>1, <2>2, OneRequest DEF MarkCancelled
<1>9. ASSUME NEW r \in FsRequests, CancelWork(r)
      PROVE  FsInv'
  <2> DEFINE q == [fsReq[r] EXCEPT !.item = TRUE, !.yes = TRUE]
  <2>1. q \in FsRecord
    BY <1>0 DEF FsRecord
  <2>2. RequestOK(q, fsCalls[r])
    BY <1>0, <1>9 DEF RequestOK, FsRecord, CancelWork, FsAt
  <2> QED  BY <1>9, <2>1, <2>2, OneRequest DEF CancelWork
<1>10. ASSUME NEW r \in FsRequests, TakeRequest(r)
       PROVE  FsInv'
  <2> DEFINE q == [fsReq[r] EXCEPT !.pc = "start"]
  <2>1. q \in FsRecord
    BY <1>0 DEF FsRecord
  <2>2. RequestOK(q, fsCalls[r])
    BY <1>0, <1>10 DEF RequestOK, FsRecord, TakeRequest, FsAt
  <2> QED  BY <1>10, <2>1, <2>2, OneRequest DEF TakeRequest
<1>11. ASSUME NEW r \in FsRequests, StartRequest(r)
       PROVE  FsInv'
  <2> DEFINE q == IF fsReq[r].item \/ fsReq[r].cancelled THEN Finish(fsReq[r], "ECANCELED")
                  ELSE [fsReq[r] EXCEPT !.pc = "run"]
  <2>1. q \in FsRecord
    BY <1>0 DEF FsRecord, Finish
  <2>2. RequestOK(q, fsCalls[r])
    BY <1>0, <1>11 DEF RequestOK, FsRecord, StartRequest, FsAt, Finish
  <2> QED  BY <1>11, <2>1, <2>2, OneRequest DEF StartRequest
<1>12. ASSUME NEW r \in FsRequests, ScanFill(r)
       PROVE  FsInv'
  <2> DEFINE m == Min({fsDir, fsReq[r].room})
             q == [Finish(fsReq[r], "ok") EXCEPT !.n = m]
  <2>0. m \in Nat /\ m <= fsReq[r].room
    <3>1. fsDir \in Nat /\ fsReq[r].room \in Nat
      BY <1>0 DEF FsInv, FsRecord
    <3>2. \A x, y \in Nat : Min({x, y}) \in Nat /\ Min({x, y}) <= y
      <4> SUFFICES ASSUME NEW x \in Nat, NEW y \in Nat
                   PROVE  Min({x, y}) \in Nat /\ Min({x, y}) <= y
        OBVIOUS
      <4>1. \E m0 \in {x, y} : \A z \in {x, y} : m0 <= z
        OBVIOUS
      <4> QED  BY <4>1 DEF Min
    <3> QED  BY <3>1, <3>2
  <2> HIDE DEF m
  <2>1. q \in FsRecord
    BY <1>0, <2>0 DEF FsRecord, Finish
  <2>2. RequestOK(q, fsCalls[r])
    BY <1>0, <1>12, <2>0 DEF RequestOK, FsRecord, ScanFill, FsAt, Finish
  <2>3. SetRequest(r, q) /\ UNCHANGED <<fsDir, fsCalls>>
    BY <1>12 DEF ScanFill, m
  <2> QED  BY <2>1, <2>2, <2>3, OneRequest
<1>13. ASSUME NEW r \in FsRequests, CompleteRequest(r)
       PROVE  FsInv'
  <2> DEFINE q == [fsReq[r] EXCEPT !.pc = "completed",
                                   !.result = IF fsReq[r].item THEN "ECANCELED" ELSE @]
             calls == IF fsReq[r].async THEN fsCalls[r] + 1 ELSE fsCalls[r]
  <2>1. q \in FsRecord
    BY <1>0 DEF FsRecord
  <2>2. fsCalls \in [FsRequests -> Nat] /\ fsReq \in [FsRequests -> FsRecord] /\ fsDir \in Nat
    BY DEF FsInv
  <2>3. fsCalls[r] = 0
    BY <1>0, <1>13 DEF RequestOK, CompleteRequest, FsAt
  <2>4. calls = (IF q.async THEN 1 ELSE 0) /\ calls \in Nat
    BY <1>0, <2>3 DEF FsRecord
  <2>5. RequestOK(q, calls)
    <3> HIDE DEF calls
    <3> QED  BY <1>0, <1>13, <2>4 DEF RequestOK, FsRecord, CompleteRequest, FsAt
  <2>6. /\ fsReq' = [fsReq EXCEPT ![r] = q] /\ fsDir' = fsDir
        /\ fsCalls' = IF fsReq[r].async THEN [fsCalls EXCEPT ![r] = @ + 1] ELSE fsCalls
    BY <1>13 DEF CompleteRequest, SetRequest
  <2>7. fsCalls' = [fsCalls EXCEPT ![r] = calls]
    BY <2>2, <2>6
  <2>8. \A x \in FsRequests : /\ fsReq'[x] = IF x = r THEN q ELSE fsReq[x]
                              /\ fsCalls'[x] = IF x = r THEN calls ELSE fsCalls[x]
    <3> HIDE DEF q, calls
    <3> QED  BY <2>2, <2>6, <2>7
  <2> HIDE DEF q, calls
  <2>9. \A x \in FsRequests : RequestOK(fsReq'[x], fsCalls'[x])
    BY <1>0, <2>5, <2>8
  <2>10. fsReq' \in [FsRequests -> FsRecord] /\ fsCalls' \in [FsRequests -> Nat]
    BY <2>1, <2>2, <2>4, <2>6, <2>7
  <2> QED  BY <2>2, <2>6, <2>9, <2>10 DEF FsInv, RequestOK
<1>14. ASSUME NEW r \in FsRequests, RequestFree(r)
       PROVE  FsInv'
  <2> DEFINE q == [fsReq[r] EXCEPT !.pc = "freed"]
  <2>1. q \in FsRecord
    BY <1>0 DEF FsRecord
  <2>2. RequestOK(q, fsCalls[r])
    BY <1>0, <1>14 DEF RequestOK, FsRecord, RequestFree, FsAt
  <2> QED  BY <1>14, <2>1, <2>2, OneRequest DEF RequestFree
<1>15. ASSUME NEW n \in 0 .. FsMaxEntries, DirChanges(n)
       PROVE  FsInv'
  <2>1. n \in Nat /\ fsDir' = n /\ fsReq' = fsReq /\ fsCalls' = fsCalls
    BY <1>15, FsAssumption DEF DirChanges
  <2> QED  BY <2>1 DEF FsInv, RequestOK
<1>16. CASE UNCHANGED fsVars
  BY <1>16 DEF fsVars, FsInv, RequestOK
<1> QED  BY <1>1, <1>2, <1>3, <1>4, <1>5, <1>6, <1>7, <1>8, <1>9, <1>10, <1>11, <1>12, <1>13, <1>14,
            <1>15, <1>16 DEF FsNext

LEMMA FsInitOK == FsInit => FsInv
<1> SUFFICES ASSUME FsInit
             PROVE  FsInv
  OBVIOUS
<1>1. fsDir \in Nat /\ fsReq = [r \in FsRequests |-> NoRequest] /\ fsCalls = [r \in FsRequests |-> 0]
  BY FsAssumption DEF FsInit
<1>2. NoRequest \in FsRecord /\ RequestOK(NoRequest, 0)
  BY FsAssumption DEF NoRequest, FsRecord, FsKinds, RequestOK
<1> QED  BY <1>1, <1>2 DEF FsInv

LEMMA FsInvExact == FsInv => FsExact
  BY DEF FsInv, FsExact, RequestOK

-----------------------------------------------------------------------------
(* Asynchronous operations of a channel                                     *)

CaOutcomes == {"OK", "FULL", "CLOSED", "EMPTY", "no memory", "dropped"}
CaListed == Range(caPending) \cup Range(caTaken)

CaTypeOK ==
  /\ caMade \in Seq([kind : {"send", "recv"}, by : CaThreads]) /\ Len(caMade) <= CaMaxOps
  /\ caPending \in Seq(CaIds) /\ caTaken \in Seq(CaIds)
  /\ caStatus \in [CaIds -> {<< >>} \cup {<<v>> : v \in CaOutcomes}]
  /\ caQueue \in Seq(Nat) /\ caSent \in Seq(Nat)
  /\ caCase \in 0 .. Len(CaCases)
  /\ caPosting \subseteq CaThreads

\* Where the operations are: those on a list are there once and have not been
\* told anything, the others that were made have been told one thing.
CaListInv ==
  /\ IsInjective(caPending) /\ IsInjective(caTaken)
  /\ Range(caPending) \cap Range(caTaken) = {}
  /\ \A i \in CaListed : i \in 1 .. Len(caMade)
  /\ \A i \in CaIds : i \in CaListed \/ i > Len(caMade) => caStatus[i] = << >>
  /\ \A i \in 1 .. Len(caMade) : i \notin CaListed => caStatus[i] # << >>

\* What entered the channel: elements of sends that were made and told OK.
CaSentInv ==
  /\ \A i \in Range(caSent) : i \in 0 .. Len(caMade)
  /\ \A i \in 1 .. Len(caMade) :
       caMade[i].kind = "send" => (caStatus[i] = <<"OK">> <=> i \in Range(caSent))
  /\ Len(caQueue) <= CaCapacity

CaWakeInv == caPending # << >> => caSignal \/ caPosting # {}

CaInv == CaTypeOK /\ CaListInv /\ CaSentInv /\ CaWakeInv

\* Sequences of outcomes, as the provers see them.
LEMMA Outcome ==
  ASSUME NEW v, NEW w
  PROVE  /\ Append(<< >>, v) = <<v>> /\ <<v>> # << >> /\ Len(<<v>>) = 1 /\ Len(<< >>) = 0
         /\ <<v>> = <<w>> <=> v = w
  OBVIOUS

\* loopyChannelTrySend and loopyChannelTryRecv: an element enters exactly if a
\* send is told OK, and only while there is room.
LEMMA TransferFacts ==
  ASSUME CaTypeOK, CaSentInv, NEW kind \in {"send", "recv"}, NEW e \in 0 .. Len(caMade),
         Transfer(kind, e)
  PROVE  /\ caQueue' \in Seq(Nat) /\ caSent' \in Seq(Nat) /\ Len(caQueue') <= CaCapacity
         /\ TryStatus(kind) \in CaOutcomes
         /\ Range(caSent') = IF kind = "send" /\ TryStatus(kind) = "OK" THEN Range(caSent) \cup {e}
                             ELSE Range(caSent)
<1> USE CaAssumption
<1>1. caQueue \in Seq(Nat) /\ caSent \in Seq(Nat) /\ Len(caQueue) <= CaCapacity /\ e \in Nat
      /\ Len(caQueue) \in Nat
  BY LenProperties DEF CaTypeOK, CaSentInv
<1>2. TryStatus(kind) \in CaOutcomes
  BY DEF TryStatus, TrySendStatus, TryRecvStatus, CaOutcomes
<1>3. CASE TryStatus(kind) # "OK"
  <2>1. caQueue' = caQueue /\ caSent' = caSent
    BY <1>3 DEF Transfer, caRing
  <2> QED  BY <1>1, <1>2, <1>3, <2>1
<1>4. CASE TryStatus(kind) = "OK" /\ kind = "send"
  <2>1. caQueue' = Append(caQueue, e) /\ caSent' = Append(caSent, e)
    BY <1>4 DEF Transfer
  <2>2. TrySendStatus = "OK"
    BY <1>4 DEF TryStatus
  <2>3. ~(Len(caQueue) >= CaCapacity)
    BY <2>2 DEF TrySendStatus
  <2>4. Append(caQueue, e) \in Seq(Nat) /\ Len(Append(caQueue, e)) = Len(caQueue) + 1
    BY <1>1
  <2>5. Append(caSent, e) \in Seq(Nat) /\ Range(Append(caSent, e)) = Range(caSent) \cup {e}
    <3>1. e \in Nat /\ caSent \in Seq(Nat)
      BY <1>1
    <3>2. \A S : \A s \in Seq(S), x \in S :
             Append(s, x) \in Seq(S) /\ Range(Append(s, x)) = Range(s) \cup {x}
      BY AppendList
    <3> QED  BY <3>1, <3>2
  <2>6. Len(Append(caQueue, e)) <= CaCapacity
    BY <1>1, <2>3, <2>4
  <2> QED  BY <1>2, <1>4, <2>1, <2>4, <2>5, <2>6
<1>5. CASE TryStatus(kind) = "OK" /\ kind = "recv"
  <2>1. caQueue' = Tail(caQueue) /\ caSent' = caSent
    BY <1>5 DEF Transfer
  <2>2. TryRecvStatus = "OK"
    BY <1>5 DEF TryStatus
  <2>3. caQueue # << >>
    BY <2>2 DEF TryRecvStatus
  <2>4. Tail(caQueue) \in Seq(Nat) /\ Len(Tail(caQueue)) = Len(caQueue) - 1
    BY <1>1, <2>3, SplitList
  <2>5. Len(Tail(caQueue)) <= CaCapacity
    BY <1>1, <2>4
  <2> QED  BY <1>1, <1>2, <1>5, <2>1, <2>4, <2>5
<1> QED  BY <1>3, <1>4, <1>5

\* loopyChannelSendAsync, loopyChannelRecvAsync
LEMMA PostOpStep ==
  ASSUME CaInv, NEW t \in CaThreads, NEW kind \in {"send", "recv"}, PostOp(t, kind)
  PROVE  CaInv'
<1> USE CaAssumption
<1> DEFINE n == Len(caMade) + 1
           o == [kind |-> kind, by |-> t]
<1>1. /\ Len(caMade) < CaMaxOps /\ caMade' = Append(caMade, o)
      /\ caPending' = <<n>> \o caPending /\ caPosting' = caPosting \cup {t}
      /\ caTaken' = caTaken /\ caSignal' = caSignal /\ caStatus' = caStatus
      /\ caQueue' = caQueue /\ caSent' = caSent /\ caCase' = caCase
  BY DEF PostOp, caRing
<1>2. caMade \in Seq([kind : {"send", "recv"}, by : CaThreads]) /\ Len(caMade) \in Nat
      /\ o \in [kind : {"send", "recv"}, by : CaThreads]
  BY LenProperties DEF CaInv, CaTypeOK
<1> HIDE DEF o
<1>3. /\ caMade' \in Seq([kind : {"send", "recv"}, by : CaThreads]) /\ Len(caMade') = Len(caMade) + 1
      /\ caMade'[Len(caMade) + 1] = o /\ \A i \in 1 .. Len(caMade) : caMade'[i] = caMade[i]
  BY <1>1, <1>2
<1>4. n \in CaIds /\ n \notin CaListed /\ n > Len(caMade)
  BY <1>1, <1>2 DEF CaIds, CaInv, CaListInv
<1>5. caPending \in Seq(CaIds) /\ caTaken \in Seq(CaIds)
  BY DEF CaInv, CaTypeOK
<1>6. /\ caPending' \in Seq(CaIds) /\ Range(caPending') = Range(caPending) \cup {n}
      /\ IsInjective(caPending')
  <2> HIDE DEF n
  <2>1. IsInjective(caPending) /\ n \notin Range(caPending)
    BY <1>4 DEF CaInv, CaListInv, CaListed
  <2> QED  BY <1>1, <1>4, <1>5, <2>1, LinkFirst
<1>7. CaListed' = CaListed \cup {n}
  BY <1>1, <1>6 DEF CaListed
<1>8. caStatus[n] = << >>
  BY <1>4 DEF CaInv, CaListInv
<1>9. CaTypeOK'
  <2>1. Len(caMade') <= CaMaxOps
    BY <1>1, <1>2, <1>3
  <2>2. caStatus \in [CaIds -> {<< >>} \cup {<<v>> : v \in CaOutcomes}]
    BY DEF CaInv, CaTypeOK
  <2>3. caQueue' \in Seq(Nat) /\ caSent' \in Seq(Nat) /\ caCase' \in 0 .. Len(CaCases)
        /\ caPosting' \subseteq CaThreads
    BY <1>1 DEF CaInv, CaTypeOK
  <2> QED  BY <1>1, <1>3, <1>5, <1>6, <2>1, <2>2, <2>3, Zenon DEF CaTypeOK
<1>10. CaListInv'
  <2>1. Range(caPending') \cap Range(caTaken') = {} /\ IsInjective(caTaken')
    BY <1>1, <1>4, <1>6 DEF CaInv, CaListInv, CaListed
  <2>2. \A i \in CaListed' : i \in 1 .. Len(caMade')
    BY <1>2, <1>3, <1>7 DEF CaInv, CaListInv
  <2>3. \A i \in CaIds : i \in CaListed' \/ i > Len(caMade') => caStatus'[i] = << >>
    BY <1>1, <1>2, <1>3, <1>7, <1>8 DEF CaInv, CaListInv, CaIds
  <2>4. \A i \in 1 .. Len(caMade') : i \notin CaListed' => caStatus'[i] # << >>
    BY <1>1, <1>2, <1>3, <1>7 DEF CaInv, CaListInv
  <2> QED  BY <1>6, <2>1, <2>2, <2>3, <2>4 DEF CaListInv
<1>11. CaSentInv'
  <2>1. \A i \in Range(caSent') : i \in 0 .. Len(caMade')
    BY <1>1, <1>2, <1>3 DEF CaInv, CaSentInv
  <2>2. n \notin Range(caSent) /\ << >> # <<"OK">>
    BY <1>2 DEF CaInv, CaSentInv
  <2>3. \A i \in 1 .. Len(caMade') :
          caMade'[i].kind = "send" => (caStatus'[i] = <<"OK">> <=> i \in Range(caSent'))
    <3> SUFFICES ASSUME NEW i \in 1 .. Len(caMade'), caMade'[i].kind = "send"
                 PROVE  caStatus[i] = <<"OK">> <=> i \in Range(caSent)
      BY <1>1
    <3>1. CASE i = n
      BY <1>8, <2>2, <3>1
    <3>2. CASE i # n
      <4>1. i \in 1 .. Len(caMade) /\ caMade'[i] = caMade[i]
        BY <1>2, <1>3, <3>2
      <4> QED  BY <4>1 DEF CaInv, CaSentInv
    <3> QED  BY <3>1, <3>2
  <2>4. Len(caQueue') <= CaCapacity
    BY <1>1 DEF CaInv, CaSentInv
  <2> QED  BY <2>1, <2>3, <2>4 DEF CaSentInv
<1>12. CaWakeInv'
  BY <1>1 DEF CaWakeInv
<1> QED  BY <1>9, <1>10, <1>11, <1>12 DEF CaInv

\* asyncHandler tries an operation and tells it the outcome.
LEMMA TryOpStep ==
  ASSUME CaInv, NEW memory \in BOOLEAN, TryOp(memory)
  PROVE  CaInv'
<1> USE CaAssumption
<1> DEFINE op == Head(caTaken)
           kind == caMade[op].kind
           none == kind = "recv" /\ ~memory
           v == IF none THEN "no memory" ELSE TryStatus(kind)
<1>1. /\ caTaken # << >> /\ caTaken' = Tail(caTaken) /\ caPending' = caPending /\ caSignal' = caSignal
      /\ caPosting' = caPosting /\ caMade' = caMade /\ caCase' = caCase
  BY DEF TryOp
<1>2. IF none THEN caStatus' = [caStatus EXCEPT ![op] = Append(@, "no memory")] /\ UNCHANGED caRing
      ELSE caStatus' = [caStatus EXCEPT ![op] = Append(@, TryStatus(kind))] /\ Transfer(kind, op)
  BY DEF TryOp
<1>3. /\ caMade \in Seq([kind : {"send", "recv"}, by : CaThreads]) /\ Len(caMade) \in Nat
      /\ caPending \in Seq(CaIds) /\ caTaken \in Seq(CaIds) /\ IsInjective(caTaken)
      /\ caStatus \in [CaIds -> {<< >>} \cup {<<w>> : w \in CaOutcomes}]
      /\ caQueue \in Seq(Nat) /\ caSent \in Seq(Nat)
  BY LenProperties DEF CaInv, CaTypeOK, CaListInv
<1>4. /\ op \in CaIds /\ caTaken' \in Seq(CaIds) /\ Range(caTaken) = Range(caTaken') \cup {op}
      /\ IsInjective(caTaken') /\ op \notin Range(caTaken')
  BY <1>1, <1>3, SplitList
<1> HIDE DEF op
<1>5. /\ op \in 1 .. Len(caMade) /\ caStatus[op] = << >> /\ op \notin Range(caPending)
  BY <1>4 DEF CaInv, CaListInv, CaListed
<1>6. kind \in {"send", "recv"}
  <2>1. caMade[op] \in [kind : {"send", "recv"}, by : CaThreads]
    <3>1. caMade \in Seq([kind : {"send", "recv"}, by : CaThreads]) /\ op \in 1 .. Len(caMade)
      BY <1>3, <1>5
    <3>2. \A S : \A s \in Seq(S) : \A i \in 1 .. Len(s) : s[i] \in S
      OBVIOUS
    <3> QED  BY <3>1, <3>2, Zenon
  <2> QED  BY <2>1
<1> HIDE DEF kind
<1>7. /\ caQueue' \in Seq(Nat) /\ caSent' \in Seq(Nat) /\ Len(caQueue') <= CaCapacity
      /\ v \in CaOutcomes
      /\ Range(caSent') = IF kind = "send" /\ v = "OK" THEN Range(caSent) \cup {op} ELSE Range(caSent)
  <2>1. CASE none
    <3>1. caQueue' = caQueue /\ caSent' = caSent /\ v = "no memory" /\ kind # "send"
      BY <1>2, <2>1 DEF caRing
    <3>2. Len(caQueue) <= CaCapacity
      BY DEF CaInv, CaSentInv
    <3> QED  BY <1>3, <3>1, <3>2 DEF CaOutcomes
  <2>2. CASE ~none
    <3>1. Transfer(kind, op) /\ v = TryStatus(kind) /\ op \in 0 .. Len(caMade)
      <4>1. op \in 0 .. Len(caMade)
        BY <1>3, <1>5
      <4> QED  BY <1>2, <2>2, <4>1, Zenon
    <3> HIDE DEF v
    <3> QED  BY <1>6, <3>1, TransferFacts DEF CaInv
  <2> QED  BY <2>1, <2>2
<1>8. caStatus' = [caStatus EXCEPT ![op] = Append(@, v)]
  BY <1>2
<1> HIDE DEF v
<1>9. /\ caStatus'[op] = <<v>> /\ \A i \in CaIds \ {op} : caStatus'[i] = caStatus[i]
      /\ caStatus' \in [CaIds -> {<< >>} \cup {<<w>> : w \in CaOutcomes}]
  <2>1. Append(caStatus[op], v) = <<v>>
    BY <1>5, Outcome
  <2>2. caStatus' = [caStatus EXCEPT ![op] = <<v>>]
    BY <1>8, <2>1
  <2>3. <<v>> \in {<<w>> : w \in CaOutcomes}
    BY <1>7
  <2> QED  BY <1>3, <1>4, <2>2, <2>3, Zenon
<1>10. CaTypeOK'
  BY <1>1, <1>3, <1>4, <1>7, <1>9, Zenon DEF CaInv, CaTypeOK
<1>11. CaListed' = CaListed \ {op}
  BY <1>1, <1>4, <1>5 DEF CaListed
<1>12. CaListInv'
  <2>1. /\ Range(caPending') \cap Range(caTaken') = {} /\ IsInjective(caPending')
    BY <1>1, <1>4 DEF CaInv, CaListInv
  <2>2. \A i \in CaListed' : i \in 1 .. Len(caMade')
    BY <1>1, <1>11 DEF CaInv, CaListInv
  <2>3. \A i \in CaIds : i \in CaListed' \/ i > Len(caMade') => caStatus'[i] = << >>
    <3> SUFFICES ASSUME NEW i \in CaIds, i \in CaListed' \/ i > Len(caMade')
                 PROVE  caStatus'[i] = << >>
      OBVIOUS
    <3>1. i # op
      BY <1>1, <1>3, <1>5, <1>11
    <3>2. caStatus[i] = << >>
      BY <1>1, <1>11 DEF CaInv, CaListInv
    <3> QED  BY <1>9, <3>1, <3>2
  <2>4. \A i \in 1 .. Len(caMade') : i \notin CaListed' => caStatus'[i] # << >>
    <3> SUFFICES ASSUME NEW i \in 1 .. Len(caMade'), i \notin CaListed'
                 PROVE  caStatus'[i] # << >>
      OBVIOUS
    <3>1. CASE i = op
      BY <1>9, <3>1, Outcome
    <3>2. CASE i # op
      <4>1. i \in CaIds /\ i \notin CaListed /\ i \in 1 .. Len(caMade)
        BY <1>1, <1>3, <1>11, <3>2 DEF CaIds, CaInv, CaTypeOK
      <4> QED  BY <1>9, <3>2, <4>1 DEF CaInv, CaListInv
    <3> QED  BY <3>1, <3>2
  <2> QED  BY <1>4, <2>1, <2>2, <2>3, <2>4 DEF CaListInv
<1>13. CaSentInv'
  <2>1. \A i \in Range(caSent') : i \in 0 .. Len(caMade')
    BY <1>1, <1>3, <1>5, <1>7 DEF CaInv, CaSentInv
  <2>2. \A i \in 1 .. Len(caMade') :
          caMade'[i].kind = "send" => (caStatus'[i] = <<"OK">> <=> i \in Range(caSent'))
    <3> SUFFICES ASSUME NEW i \in 1 .. Len(caMade'), caMade'[i].kind = "send"
                 PROVE  caStatus'[i] = <<"OK">> <=> i \in Range(caSent')
      OBVIOUS
    <3>1. i \in 1 .. Len(caMade) /\ caMade[i].kind = "send" /\ i \in CaIds
          /\ (caStatus[i] = <<"OK">> <=> i \in Range(caSent))
      <4>1. i \in 1 .. Len(caMade) /\ caMade[i].kind = "send"
        BY <1>1
      <4>2. i \in CaIds
        BY <1>3, <4>1 DEF CaIds, CaInv, CaTypeOK
      <4>3. caStatus[i] = <<"OK">> <=> i \in Range(caSent)
        BY <4>1, Zenon DEF CaInv, CaSentInv
      <4> QED  BY <4>1, <4>2, <4>3
    <3>2. CASE i = op
      <4>1. kind = "send" /\ i \notin Range(caSent)
        BY <1>5, <3>1, <3>2, Outcome DEF kind
      <4>2. <<v>> = <<"OK">> <=> v = "OK"
        BY Outcome
      <4> QED  BY <1>7, <1>9, <3>2, <4>1, <4>2
    <3>3. CASE i # op
      BY <1>7, <1>9, <3>1, <3>3
    <3> QED  BY <3>2, <3>3
  <2> QED  BY <1>7, <2>1, <2>2 DEF CaSentInv
<1>14. CaWakeInv'
  BY <1>1 DEF CaInv, CaWakeInv
<1> QED  BY <1>10, <1>12, <1>13, <1>14 DEF CaInv

\* loopyChannelSelect tries a case.
LEMMA SelectTryStep ==
  ASSUME CaInv, NEW late \in BOOLEAN, SelectTry(late)
  PROVE  CaInv'
<1> USE CaAssumption
<1> DEFINE kind == CaCases[caCase]
<1>1. /\ caCase # 0 /\ Transfer(kind, CaSelected)
      /\ caCase' = CASE TryStatus(kind) \notin {"FULL", "EMPTY"} -> 0
                     [] OTHER -> IF caCase < Len(CaCases) THEN caCase + 1 ELSE IF late THEN 0 ELSE 1
      /\ caPending' = caPending /\ caTaken' = caTaken /\ caSignal' = caSignal
      /\ caPosting' = caPosting /\ caMade' = caMade /\ caStatus' = caStatus
  BY DEF SelectTry
<1>2. caCase \in 0 .. Len(CaCases) /\ Len(caMade) \in Nat /\ Len(CaCases) \in Nat \ {0}
  BY LenProperties, EmptySeq DEF CaInv, CaTypeOK
<1>3. kind \in {"send", "recv"} /\ CaSelected \in 0 .. Len(caMade)
  BY <1>1, <1>2 DEF CaSelected
<1>4. caCase' \in 0 .. Len(CaCases)
  <2> HIDE DEF kind
  <2> QED  BY <1>1, <1>2
<1> HIDE DEF kind
<1>5. /\ caQueue' \in Seq(Nat) /\ caSent' \in Seq(Nat) /\ Len(caQueue') <= CaCapacity
      /\ Range(caSent') = Range(caSent) \/ Range(caSent') = Range(caSent) \cup {CaSelected}
  BY <1>1, <1>3, TransferFacts DEF CaInv
<1>6. CaTypeOK'
  BY <1>1, <1>4, <1>5, Zenon DEF CaInv, CaTypeOK
<1>7. CaListInv'
  BY <1>1 DEF CaInv, CaListInv, CaListed
<1>8. CaSentInv'
  <2>1. \A i \in 1 .. Len(caMade) : i \in Range(caSent') <=> i \in Range(caSent)
    BY <1>2, <1>5 DEF CaSelected
  <2>2. \A i \in Range(caSent') : i \in 0 .. Len(caMade')
    BY <1>1, <1>2, <1>3, <1>5 DEF CaInv, CaSentInv
  <2> QED  BY <1>1, <1>5, <2>1, <2>2 DEF CaInv, CaSentInv
<1>9. CaWakeInv'
  BY <1>1 DEF CaInv, CaWakeInv
<1> QED  BY <1>6, <1>7, <1>8, <1>9 DEF CaInv

\* loopyChannelFree drops what is on the list.
LEMMA FreeChannelStep ==
  ASSUME CaInv, FreeChannel
  PROVE  CaInv'
<1> USE CaAssumption
<1>1. /\ caTaken = << >> /\ caTaken' = caTaken /\ caPosting' = caPosting /\ caMade' = caMade
      /\ caSent' = caSent /\ caCase' = caCase /\ caPending' = << >> /\ caQueue' = << >>
      /\ caStatus' = [i \in CaIds |-> IF Contains(caPending, i) THEN Append(caStatus[i], "dropped")
                                      ELSE caStatus[i]]
  BY DEF FreeChannel
<1>2. /\ caPending \in Seq(CaIds) /\ caTaken \in Seq(CaIds) /\ Len(caMade) \in Nat
      /\ Len(caMade) <= CaMaxOps
      /\ caStatus \in [CaIds -> {<< >>} \cup {<<w>> : w \in CaOutcomes}]
  BY LenProperties DEF CaInv, CaTypeOK
<1>3. /\ caPending' \in Seq(CaIds) /\ Range(caPending') = {} /\ IsInjective(caPending')
      /\ Range(caTaken) = {} /\ caQueue' \in Seq(Nat) /\ Len(caQueue') = 0
  BY <1>1 DEF Range, IsInjective
<1>4. CaListed = Range(caPending) /\ CaListed' = {}
  BY <1>1, <1>3 DEF CaListed
<1>5. \A i \in CaIds : caStatus'[i] = IF i \in CaListed THEN <<"dropped">> ELSE caStatus[i]
  <2>1. \A i \in CaIds : Contains(caPending, i) <=> i \in CaListed
    BY <1>2, <1>4, ContainsIsRange
  <2>2. \A i \in CaIds : i \in CaListed => caStatus[i] = << >>
    BY DEF CaInv, CaListInv
  <2>3. Append(<< >>, "dropped") = <<"dropped">>
    BY Outcome
  <2> QED  BY <1>1, <2>1, <2>2, <2>3, Zenon
<1>6. CaTypeOK'
  <2>1. <<"dropped">> \in {<<w>> : w \in CaOutcomes}
    BY DEF CaOutcomes
  <2>2. \A i \in CaIds : caStatus'[i] \in {<< >>} \cup {<<w>> : w \in CaOutcomes}
    BY <1>2, <1>5, <2>1, Zenon
  <2>3. DOMAIN caStatus' = CaIds /\ caStatus' = [i \in CaIds |-> caStatus'[i]]
    BY <1>1, Zenon
  <2>4. caStatus' \in [CaIds -> {<< >>} \cup {<<w>> : w \in CaOutcomes}]
    BY <2>2, <2>3, Zenon
  <2> QED  BY <1>1, <1>2, <1>3, <2>4, Zenon DEF CaInv, CaTypeOK
<1>7. CaListInv'
  <2>1. \A i \in CaIds : i > Len(caMade') => caStatus'[i] = << >>
    <3>1. \A i \in CaIds : i > Len(caMade) => i \notin CaListed
      BY <1>2 DEF CaInv, CaListInv
    <3> QED  BY <1>1, <1>5, <3>1 DEF CaInv, CaListInv
  <2>2. \A i \in 1 .. Len(caMade') : caStatus'[i] # << >>
    <3>1. \A i \in 1 .. Len(caMade) : i \in CaIds
      BY <1>2 DEF CaIds
    <3> QED  BY <1>1, <1>5, <3>1, Outcome DEF CaInv, CaListInv
  <2>3. IsInjective(caTaken')
    BY <1>1 DEF CaInv, CaListInv
  <2> QED  BY <1>3, <1>4, <2>1, <2>2, <2>3 DEF CaListInv
<1>8. CaSentInv'
  <2>1. \A i \in 1 .. Len(caMade) : i \in CaIds
    BY <1>2 DEF CaIds
  <2>2. <<"dropped">> # <<"OK">> /\ << >> # <<"OK">>
    BY Outcome
  <2>3. \A i \in 1 .. Len(caMade) :
          caMade[i].kind = "send" => (caStatus'[i] = <<"OK">> <=> i \in Range(caSent))
    <3> SUFFICES ASSUME NEW i \in 1 .. Len(caMade), caMade[i].kind = "send"
                 PROVE  caStatus'[i] = <<"OK">> <=> i \in Range(caSent)
      OBVIOUS
    <3>1. caStatus[i] = <<"OK">> <=> i \in Range(caSent)
      BY DEF CaInv, CaSentInv
    <3>2. CASE i \in CaListed
      <4>1. caStatus[i] = << >>
        BY <2>1, <3>2 DEF CaInv, CaListInv
      <4> QED  BY <1>5, <2>1, <2>2, <3>1, <3>2, <4>1
    <3>3. CASE i \notin CaListed
      BY <1>5, <2>1, <3>1, <3>3
    <3> QED  BY <3>2, <3>3
  <2>4. \A i \in Range(caSent') : i \in 0 .. Len(caMade')
    BY <1>1 DEF CaInv, CaSentInv
  <2>5. Len(caQueue') <= CaCapacity
    BY <1>3
  <2> QED  BY <1>1, <2>3, <2>4, <2>5 DEF CaSentInv
<1>9. CaWakeInv'
  BY <1>1 DEF CaWakeInv
<1> QED  BY <1>6, <1>7, <1>8, <1>9 DEF CaInv

LEMMA CaStep == CaInv /\ [CaNext]_caVars => CaInv'
<1> SUFFICES ASSUME CaInv, [CaNext]_caVars
             PROVE  CaInv'
  OBVIOUS
<1> USE CaAssumption
<1>1. ASSUME NEW t \in CaThreads, SignalOp(t)
      PROVE  CaInv'
  <2>1. /\ caPosting' = caPosting \ {t} /\ caSignal' /\ caPending' = caPending /\ caTaken' = caTaken
        /\ caMade' = caMade /\ caStatus' = caStatus /\ caQueue' = caQueue /\ caSent' = caSent
        /\ caCase' = caCase
    BY <1>1 DEF SignalOp, caRing
  <2>2. CaTypeOK'
    BY <2>1, Zenon DEF CaInv, CaTypeOK
  <2> QED  BY <2>1, <2>2 DEF CaInv, CaListInv, CaListed, CaSentInv, CaWakeInv
<1>2. CASE TakeOps
  <2>1. /\ caTaken = << >> /\ caTaken' = caPending /\ caPending' = << >> /\ caPosting' = caPosting
        /\ caMade' = caMade /\ caStatus' = caStatus /\ caQueue' = caQueue /\ caSent' = caSent
        /\ caCase' = caCase
    BY <1>2 DEF TakeOps, caRing
  <2>2. /\ caPending' \in Seq(CaIds) /\ Range(caPending') = {} /\ IsInjective(caPending')
        /\ Range(caTaken) = {}
    BY <2>1 DEF Range, IsInjective
  <2>3. CaListed' = CaListed
    BY <2>1, <2>2 DEF CaListed
  <2>4. CaTypeOK'
    BY <2>1, <2>2, Zenon DEF CaInv, CaTypeOK
  <2>5. CaListInv'
    BY <2>1, <2>2, <2>3 DEF CaInv, CaListInv
  <2> QED  BY <2>1, <2>4, <2>5 DEF CaInv, CaSentInv, CaWakeInv
<1>3. CASE SelectCall
  <2>1. /\ caCase' = 1 /\ caPosting' = caPosting /\ caSignal' = caSignal /\ caPending' = caPending
        /\ caTaken' = caTaken /\ caMade' = caMade /\ caStatus' = caStatus /\ caQueue' = caQueue
        /\ caSent' = caSent
    BY <1>3 DEF SelectCall, caRing
  <2>2. caCase' \in 0 .. Len(CaCases)
    BY <2>1, LenProperties, EmptySeq
  <2>3. CaTypeOK'
    BY <2>1, <2>2, Zenon DEF CaInv, CaTypeOK
  <2> QED  BY <2>1, <2>3 DEF CaInv, CaListInv, CaListed, CaSentInv, CaWakeInv
<1>4. CASE CloseChannel \/ UNCHANGED caVars
  <2>1. /\ caCase' = caCase /\ caPosting' = caPosting /\ caSignal' = caSignal /\ caPending' = caPending
        /\ caTaken' = caTaken /\ caMade' = caMade /\ caStatus' = caStatus /\ caQueue' = caQueue
        /\ caSent' = caSent
    BY <1>4 DEF CloseChannel, caRing, caVars
  <2>2. CaTypeOK'
    BY <2>1, Zenon DEF CaInv, CaTypeOK
  <2> QED  BY <2>1, <2>2 DEF CaInv, CaListInv, CaListed, CaSentInv, CaWakeInv
<1> QED  BY <1>1, <1>2, <1>3, <1>4, PostOpStep, TryOpStep, SelectTryStep, FreeChannelStep DEF CaNext

LEMMA CaInitOK == CaInit => CaInv
<1> SUFFICES ASSUME CaInit
             PROVE  CaInv
  OBVIOUS
<1> USE CaAssumption
<1>1. /\ caPending = << >> /\ caTaken = << >> /\ caPosting = {} /\ caMade = << >>
      /\ caStatus = [i \in CaIds |-> << >>] /\ caQueue = << >> /\ caSent = << >> /\ caCase = 0
  BY DEF CaInit
<1>2. /\ Range(<< >>) = {} /\ IsInjective(<< >>) /\ Len(<< >>) = 0 /\ << >> \in Seq(Nat)
      /\ << >> \in Seq(CaIds) /\ << >> \in Seq([kind : {"send", "recv"}, by : CaThreads])
  BY DEF Range, IsInjective
<1>3. 0 <= CaMaxOps /\ 0 <= CaCapacity /\ 0 \in 0 .. Len(CaCases)
  BY LenProperties
<1>4. CaListed = {}
  BY <1>1, <1>2 DEF CaListed
<1>5. caStatus \in [CaIds -> {<< >>} \cup {<<w>> : w \in CaOutcomes}]
  BY <1>1, Zenon
<1>6. CaTypeOK
  BY <1>1, <1>2, <1>3, <1>5, Zenon DEF CaTypeOK
<1>7. CaListInv
  BY <1>1, <1>2, <1>4 DEF CaListInv
<1>8. CaSentInv
  BY <1>1, <1>2, <1>3 DEF CaSentInv
<1> QED  BY <1>1, <1>6, <1>7, <1>8 DEF CaInv, CaWakeInv

LEMMA CaInvExact == CaInv => AsyncOpsExact
<1> SUFFICES ASSUME CaInv
             PROVE  AsyncOpsExact
  OBVIOUS
<1> USE CaAssumption
<1>1. \A i \in 1 .. Len(caMade) : i \in CaIds
  BY LenProperties DEF CaInv, CaTypeOK, CaIds
<1>2. \A i \in 1 .. Len(caMade) :
        Occurrences(caPending, i) + Occurrences(caTaken, i) + Len(caStatus[i]) = 1
  <2> SUFFICES ASSUME NEW i \in 1 .. Len(caMade)
               PROVE  Occurrences(caPending, i) + Occurrences(caTaken, i) + Len(caStatus[i]) = 1
    OBVIOUS
  <2>1. /\ Occurrences(caPending, i) = IF i \in Range(caPending) THEN 1 ELSE 0
        /\ Occurrences(caTaken, i) = IF i \in Range(caTaken) THEN 1 ELSE 0
    <3>1. /\ caPending \in Seq(CaIds) /\ IsInjective(caPending)
          /\ caTaken \in Seq(CaIds) /\ IsInjective(caTaken)
      BY DEF CaInv, CaTypeOK, CaListInv
    <3> QED  BY <3>1, OccursOnce, Zenon DEF Occurrences
  <2>2. i \in CaListed => caStatus[i] = << >>
    BY <1>1 DEF CaInv, CaListInv
  <2>3. i \notin CaListed => \E w \in CaOutcomes : caStatus[i] = <<w>>
    BY <1>1, Zenon DEF CaInv, CaListInv, CaTypeOK
  <2>4. Len(caStatus[i]) = IF i \in CaListed THEN 0 ELSE 1
    BY <2>2, <2>3, Outcome
  <2>5. ~(i \in Range(caPending) /\ i \in Range(caTaken))
    BY DEF CaInv, CaListInv
  <2> QED  BY <2>1, <2>4, <2>5 DEF CaListed
<1>3. \A i \in 1 .. Len(caMade) : Contains(caSent, i) <=> i \in Range(caSent)
  BY ContainsIsRange DEF CaInv, CaTypeOK
<1> QED  BY <1>2, <1>3 DEF AsyncOpsExact, CaInv, CaSentInv, CaWakeInv

\* Every request that completes elsewhere reports once what happened to it, for
\* any number of requests and threads: a DNS query is in one place and the last
\* worker to leave is joined, a file operation does what its calls did, and an
\* asynchronous operation of a channel is reported once, whatever closes,
\* cancels or selects meanwhile (loopyDNS.c, loopyFS.c, loopyChannel.c).
THEOREM RequestsAreExact == DnSpec /\ FsSpec /\ CaSpec => []RequestsExact
<1>1. DnSpec => []DnsExact
  BY DnInitOK, DnStep, DnInvExact, PTL DEF DnSpec
<1>2. FsSpec => []FsExact
  BY FsInitOK, FsStep, FsInvExact, PTL DEF FsSpec
<1>3. CaSpec => []AsyncOpsExact
  BY CaInitOK, CaStep, CaInvExact, PTL DEF CaSpec
<1>4. DnsExact /\ FsExact /\ AsyncOpsExact => RequestsExact
  BY DEF RequestsExact
<1> QED  BY <1>1, <1>2, <1>3, <1>4, PTL

-----------------------------------------------------------------------------
(* The concurrency pool                                                     *)

CpPcs == {"idle", "check", "insert", "global", "load", "swap", "rollback", "add",
          "release", "drop", "give"}
CpAnyLimit == CpLimits \cup {0} \cup {c.defaultUserLimit : c \in CpConfigs}
CpCalls == [pc : CpPcs, id : CpNames, count : Nat, limit : CpAnyLimit, seen : Nat]

CpTypeOK ==
  /\ cpConfig \in CpConfigs
  /\ cpUsers \subseteq CpNames /\ cpActive \in [CpNames -> Nat]
  /\ globalActive \in Nat
  /\ cpCall \in [CpThreads -> CpCalls]

Limited == cpConfig.globalLimit > 0
Reserved == InFlight({"load", "swap", "rollback"})
Adding == InFlight({"add"})
Giving == InFlight({"give"})

\* A call that works on a user finds it: who is removed is in no call.  What is
\* to be acquired is what was asked for, and what is to be released was there
\* when the counter was read.
CpCallOK(c, users) ==
  /\ c.pc \notin {"idle", "check", "insert"} => c.id \in users
  /\ c.pc \in {"check", "insert", "global"} => c.count \in CpCounts \cup {0}
  /\ c.pc = "drop" => c.count <= c.seen
  /\ Limited => c.pc # "add"
  /\ ~Limited => c.pc \notin {"global", "rollback"}

\* Under a limit the pool's counter is exact, and none of the sums overflows;
\* without one it is exact modulo the width of the counter.
CpSumInv ==
  /\ Limited => globalActive = Slots + Reserved + Giving /\ globalActive <= cpConfig.globalLimit
                  /\ Adding = 0
  /\ ~Limited => globalActive = (Slots + Giving - Adding) % CpWord

CpInv ==
  /\ CpTypeOK
  /\ \A t \in CpThreads : CpCallOK(cpCall[t], cpUsers)
  /\ CpSumInv
  /\ userCount = Cardinality(cpUsers)

\* What a call has in flight.
Part(c, pcs) == IF c.pc \in pcs THEN c.count ELSE 0

LEMMA SumsTyped ==
  ASSUME CpTypeOK
  PROVE  /\ Slots \in Nat /\ \A pcs : InFlight(pcs) \in Nat
         /\ \A u \in cpUsers : cpActive[u] <= Slots
         /\ \A t \in CpThreads : \A pcs : Part(cpCall[t], pcs) \in Nat /\ Part(cpCall[t], pcs) <= InFlight(pcs)
<1> USE CpAssumption
<1>1. IsFiniteSet(cpUsers) /\ \A u \in cpUsers : cpActive[u] \in Int /\ cpActive[u] >= 0
  BY FS_Subset DEF CpTypeOK
<1>2. Slots \in Int /\ Slots >= 0
  BY <1>1, SumType DEF Slots
<1>3. \A u \in cpUsers : cpActive[u] <= Slots
  <2> TAKE u \in cpUsers
  <2> DEFINE T == cpUsers \ {u}
  <2>1. Slots = cpActive[u] + SumFunctionOnSet(cpActive, T)
    BY <1>1, SumRemove DEF Slots
  <2>2. IsFiniteSet(T) /\ \A v \in T : cpActive[v] \in Int /\ cpActive[v] >= 0
    BY <1>1, FS_Subset
  <2>3. SumFunctionOnSet(cpActive, T) \in Int /\ SumFunctionOnSet(cpActive, T) >= 0
    <3> HIDE DEF T
    <3> QED  BY <2>2, SumType
  <2> HIDE DEF T
  <2> QED  BY <1>1, <2>1, <2>3
<1>4. ASSUME NEW pcs
      PROVE  /\ InFlight(pcs) \in Nat
             /\ \A t \in CpThreads : Part(cpCall[t], pcs) \in Nat /\ Part(cpCall[t], pcs) <= InFlight(pcs)
  <2> DEFINE f == [t \in CpThreads |-> IF cpCall[t].pc \in pcs THEN cpCall[t].count ELSE 0]
  <2>1. InFlight(pcs) = SumFunctionOnSet(f, CpThreads)
    BY DEF InFlight, SumFunction
  <2>2. \A t \in CpThreads : f[t] \in Int /\ f[t] >= 0 /\ f[t] = Part(cpCall[t], pcs)
    BY DEF CpTypeOK, CpCalls, Part
  <2> HIDE DEF f
  <2>3. InFlight(pcs) \in Int /\ InFlight(pcs) >= 0
    BY <2>1, <2>2, SumType
  <2>4. ASSUME NEW t \in CpThreads
        PROVE  f[t] <= InFlight(pcs)
    <3> DEFINE T == CpThreads \ {t}
    <3>1. InFlight(pcs) = f[t] + SumFunctionOnSet(f, T)
      BY <2>1, <2>2, SumRemove
    <3>2. IsFiniteSet(T) /\ \A v \in T : f[v] \in Int /\ f[v] >= 0
      BY <2>2, FS_Subset
    <3>3. SumFunctionOnSet(f, T) \in Int /\ SumFunctionOnSet(f, T) >= 0
      <4> HIDE DEF T
      <4> QED  BY <3>2, SumType
    <3> HIDE DEF T
    <3> QED  BY <2>2, <3>1, <3>3
  <2> QED  BY <2>2, <2>3, <2>4
<1> QED  BY <1>2, <1>3, <1>4

\* A thread's step: its part of the sums changes.
LEMMA FlightStep ==
  ASSUME CpTypeOK, NEW t \in CpThreads, NEW c \in CpCalls, cpCall' = [cpCall EXCEPT ![t] = c]
  PROVE  /\ cpCall' \in [CpThreads -> CpCalls]
         /\ \A s \in CpThreads : cpCall'[s] = IF s = t THEN c ELSE cpCall[s]
         /\ \A pcs : InFlight(pcs)' = InFlight(pcs) - Part(cpCall[t], pcs) + Part(c, pcs)
<1> USE CpAssumption
<1>1. cpCall \in [CpThreads -> CpCalls]
  BY DEF CpTypeOK
<1>2. cpCall' \in [CpThreads -> CpCalls] /\ \A s \in CpThreads : cpCall'[s] = IF s = t THEN c ELSE cpCall[s]
  BY <1>1
<1>3. ASSUME NEW pcs
      PROVE  InFlight(pcs)' = InFlight(pcs) - Part(cpCall[t], pcs) + Part(c, pcs)
  <2> DEFINE f == [s \in CpThreads |-> IF cpCall[s].pc \in pcs THEN cpCall[s].count ELSE 0]
             g == [s \in CpThreads |-> IF cpCall'[s].pc \in pcs THEN cpCall'[s].count ELSE 0]
  <2>1. InFlight(pcs) = SumFunctionOnSet(f, CpThreads) /\ InFlight(pcs)' = SumFunctionOnSet(g, CpThreads)
    BY DEF InFlight, SumFunction
  <2>2. /\ \A s \in CpThreads : f[s] \in Int
        /\ \A s \in CpThreads \ {t} : g[s] = f[s]
        /\ f[t] = Part(cpCall[t], pcs) /\ g[t] = Part(c, pcs) /\ g[t] \in Int
    BY <1>1, <1>2 DEF CpCalls, Part
  <2> HIDE DEF f, g
  <2>3. SumFunctionOnSet(g, CpThreads) = SumFunctionOnSet(f, CpThreads) - f[t] + g[t]
    BY <2>2, SumUpdate
  <2> QED  BY <2>1, <2>2, <2>3
<1> QED  BY <1>2, <1>3

\* A user's counter changes, and with it the sum of all.
LEMMA SlotsStep ==
  ASSUME CpTypeOK, NEW u \in cpUsers, NEW n \in Nat, cpActive' = [cpActive EXCEPT ![u] = n], cpUsers' = cpUsers
  PROVE  cpActive' \in [CpNames -> Nat] /\ Slots' = Slots - cpActive[u] + n
<1> USE CpAssumption
<1>1. cpActive \in [CpNames -> Nat] /\ u \in CpNames /\ IsFiniteSet(cpUsers) /\ cpUsers \subseteq CpNames
  BY FS_Subset DEF CpTypeOK
<1>2. /\ cpActive' \in [CpNames -> Nat] /\ \A v \in cpUsers : cpActive[v] \in Int
      /\ \A v \in cpUsers \ {u} : cpActive'[v] = cpActive[v]
      /\ cpActive'[u] = n /\ n \in Int
  BY <1>1
<1> DEFINE f == cpActive
           g == cpActive'
<1>3. /\ \A v \in cpUsers : f[v] \in Int
      /\ \A v \in cpUsers \ {u} : g[v] = f[v]
      /\ g[u] = n /\ g[u] \in Int
  BY <1>2
<1>4. Slots = SumFunctionOnSet(f, cpUsers) /\ Slots' = SumFunctionOnSet(g, cpUsers)
  BY DEF Slots
<1> HIDE DEF f, g
<1>5. SumFunctionOnSet(g, cpUsers) = SumFunctionOnSet(f, cpUsers) - f[u] + g[u]
  BY <1>1, <1>3, SumUpdate
<1> QED  BY <1>2, <1>3, <1>4, <1>5 DEF f

\* A step of a call that leaves the counters alone and moves what is in flight
\* from no sum to another.
LEMMA CallStep ==
  ASSUME CpInv, NEW t \in CpThreads, NEW c \in CpCalls, cpCall' = [cpCall EXCEPT ![t] = c],
         UNCHANGED <<cpConfig, cpUsers, cpActive, globalActive, userCount>>, CpCallOK(c, cpUsers),
         Limited => Part(cpCall[t], {"load", "swap", "rollback"}) = Part(c, {"load", "swap", "rollback"}),
         Part(cpCall[t], {"add"}) = Part(c, {"add"}),
         Part(cpCall[t], {"give"}) = Part(c, {"give"})
  PROVE  CpInv'
<1>1. CpTypeOK
  BY DEF CpInv
<1>2. /\ cpCall' \in [CpThreads -> CpCalls]
      /\ \A s \in CpThreads : cpCall'[s] = IF s = t THEN c ELSE cpCall[s]
      /\ \A pcs : InFlight(pcs)' = InFlight(pcs) - Part(cpCall[t], pcs) + Part(c, pcs)
  BY <1>1, FlightStep
<1>3. /\ \A pcs : InFlight(pcs) \in Nat
      /\ \A pcs : Part(cpCall[t], pcs) \in Nat
  BY <1>1, SumsTyped
<1>4. /\ cpConfig' = cpConfig /\ cpUsers' = cpUsers /\ cpActive' = cpActive /\ globalActive' = globalActive
      /\ userCount' = userCount
  OBVIOUS
<1>5. Slots' = Slots /\ (Limited' <=> Limited)
  BY <1>4 DEF Slots, Limited
<1>6. (Limited => Reserved' = Reserved) /\ Adding' = Adding /\ Giving' = Giving
  BY <1>2, <1>3 DEF Reserved, Adding, Giving
<1>7. CpTypeOK'
  BY <1>1, <1>2, <1>4 DEF CpTypeOK
<1>8. (\A s \in CpThreads : CpCallOK(cpCall[s], cpUsers))'
  BY <1>2, <1>4, <1>5 DEF CpInv, CpCallOK
<1>9. CpSumInv'
  BY <1>4, <1>5, <1>6 DEF CpInv, CpSumInv
<1> QED  BY <1>4, <1>7, <1>8, <1>9 DEF CpInv

\* A step that also changes the counters.
LEMMA MoveStep ==
  ASSUME CpInv, NEW t \in CpThreads, NEW c \in CpCalls, cpCall' = [cpCall EXCEPT ![t] = c],
         NEW d \in Int, Slots' = Slots + d, cpConfig' = cpConfig,
         CpCallOK(c, cpUsers'), \A s \in CpThreads \ {t} : CpCallOK(cpCall[s], cpUsers'),
         cpUsers' \subseteq CpNames, cpActive' \in [CpNames -> Nat], userCount' = Cardinality(cpUsers'),
         globalActive' \in Nat,
         Limited => /\ globalActive' <= cpConfig.globalLimit
                    /\ globalActive' = globalActive + d
                         + (Part(c, {"load", "swap", "rollback"}) - Part(cpCall[t], {"load", "swap", "rollback"}))
                         + (Part(c, {"give"}) - Part(cpCall[t], {"give"})),
         ~Limited => globalActive' =
                       (globalActive + (d + (Part(c, {"give"}) - Part(cpCall[t], {"give"}))
                                          - (Part(c, {"add"}) - Part(cpCall[t], {"add"})))) % CpWord
  PROVE  CpInv'
<1> USE CpAssumption
<1>1. CpTypeOK /\ CpCallOK(cpCall[t], cpUsers) /\ globalActive \in Nat
  BY DEF CpInv, CpTypeOK
<1>2. /\ cpCall' \in [CpThreads -> CpCalls]
      /\ \A s \in CpThreads : cpCall'[s] = IF s = t THEN c ELSE cpCall[s]
      /\ \A pcs : InFlight(pcs)' = InFlight(pcs) - Part(cpCall[t], pcs) + Part(c, pcs)
  BY <1>1, FlightStep
<1>3. /\ Slots \in Nat /\ \A pcs : InFlight(pcs) \in Nat
      /\ \A pcs : Part(cpCall[t], pcs) \in Nat /\ Part(c, pcs) \in Nat
  <2>1. \A pcs : Part(c, pcs) \in Nat
    BY DEF Part, CpCalls
  <2> QED  BY <1>1, <2>1, SumsTyped
<1>4. Limited' <=> Limited
  BY DEF Limited
<1>5. CpTypeOK'
  BY <1>1, <1>2 DEF CpTypeOK
<1>6. (\A s \in CpThreads : CpCallOK(cpCall[s], cpUsers))'
  BY <1>2, <1>4 DEF CpCallOK
<1> DEFINE R1 == Part(cpCall[t], {"load", "swap", "rollback"})
           R2 == Part(c, {"load", "swap", "rollback"})
           A1 == Part(cpCall[t], {"add"})
           A2 == Part(c, {"add"})
           G1 == Part(cpCall[t], {"give"})
           G2 == Part(c, {"give"})
<1>7. /\ R1 \in Nat /\ R2 \in Nat /\ A1 \in Nat /\ A2 \in Nat /\ G1 \in Nat /\ G2 \in Nat
      /\ Reserved \in Nat /\ Adding \in Nat /\ Giving \in Nat
      /\ Reserved' = Reserved - R1 + R2 /\ Adding' = Adding - A1 + A2 /\ Giving' = Giving - G1 + G2
  BY <1>2, <1>3 DEF Reserved, Adding, Giving
<1>8. Limited => A1 = 0 /\ A2 = 0
  BY <1>1 DEF CpCallOK, Part
<1>9. Limited => globalActive' = globalActive + d + (R2 - R1) + (G2 - G1)
  OBVIOUS
<1>10. ~Limited => globalActive' = (globalActive + (d + (G2 - G1) - (A2 - A1))) % CpWord
  OBVIOUS
<1> HIDE DEF R1, R2, A1, A2, G1, G2
<1>11. CASE Limited
  <2>1. globalActive = Slots + Reserved + Giving /\ Adding = 0
    BY <1>11 DEF CpInv, CpSumInv
  <2>2. globalActive' = Slots' + Reserved' + Giving' /\ Adding' = 0
    BY <1>1, <1>3, <1>7, <1>8, <1>9, <1>11, <2>1
  <2>3. cpConfig'.globalLimit = cpConfig.globalLimit
    OBVIOUS
  <2>4. CpSumInv'
    BY <1>4, <1>11, <2>2, <2>3 DEF CpSumInv
  <2> QED  BY <1>5, <1>6, <2>4 DEF CpInv
<1>12. CASE ~Limited
  <2>1. globalActive = (Slots + Giving - Adding) % CpWord
    BY <1>12 DEF CpInv, CpSumInv
  <2> DEFINE X == Slots + Giving - Adding
             e == d + (G2 - G1) - (A2 - A1)
  <2>2. X \in Int /\ e \in Int /\ Slots' + Giving' - Adding' = X + e
    BY <1>3, <1>7
  <2>3. globalActive' = ((X % CpWord) + e) % CpWord
    BY <1>10, <1>12, <2>1
  <2> HIDE DEF X, e
  <2>4. globalActive' = (X + e) % CpWord
    BY <2>2, <2>3, ModPlusMod
  <2>5. globalActive' = (Slots' + Giving' - Adding') % CpWord
    BY <2>2, <2>4
  <2>6. CpSumInv'
    BY <1>4, <1>12, <2>5 DEF CpSumInv
  <2> QED  BY <1>5, <1>6, <2>6 DEF CpInv
<1> QED  BY <1>11, <1>12

LEMMA NoCallOK ==
  /\ NoCall \in CpCalls /\ NoCall.pc = "idle" /\ NoCall.count = 0 /\ NoCall.seen = 0
  /\ \A users : CpCallOK(NoCall, users)
  BY CpAssumption DEF NoCall, CpCalls, CpPcs, CpAnyLimit, CpCallOK

\* Calls that begin, and what they do before they touch a counter.
LEMMA BeginSteps ==
  ASSUME CpInv, NEW t \in CpThreads, NEW u \in CpNames,
         \/ \E l \in CpLimits : AddUserCall(t, u, l)
         \/ \E n \in CpCounts : TryAcquireCall(t, u, n) \/ ReleaseCall(t, u, n)
         \/ AddUserCheck(t)
  PROVE  CpInv'
<1> USE CpAssumption
<1>0. cpCall[t] \in CpCalls /\ CpCallOK(cpCall[t], cpUsers) /\ cpConfig \in CpConfigs
  BY DEF CpInv, CpTypeOK
<1>1. ASSUME NEW l \in CpLimits, AddUserCall(t, u, l)
      PROVE  CpInv'
  <2> DEFINE c == [NoCall EXCEPT !.pc = "check", !.id = u, !.limit = l]
  <2>1. c \in CpCalls /\ c.pc = "check" /\ c.count = 0
    BY NoCallOK DEF CpCalls, CpPcs, CpAnyLimit
  <2>2. /\ cpCall' = [cpCall EXCEPT ![t] = c] /\ cpCall[t].pc = "idle"
        /\ UNCHANGED <<cpConfig, cpUsers, cpActive, globalActive, userCount>>
    BY <1>1 DEF AddUserCall, CpAt, cpTables
  <2> HIDE DEF c
  <2>3. CpCallOK(c, cpUsers)
    BY <2>1 DEF CpCallOK
  <2> QED  BY <2>1, <2>2, <2>3, CallStep DEF Part
<1>2. ASSUME NEW n \in CpCounts, TryAcquireCall(t, u, n)
      PROVE  CpInv'
  <2> DEFINE pc == IF u \in cpUsers THEN AcquireStart ELSE "check"
             c == [NoCall EXCEPT !.pc = pc, !.id = u, !.count = n, !.limit = cpConfig.defaultUserLimit]
  <2>1. pc \in {"check", "global", "load"} /\ (pc # "check" => u \in cpUsers)
        /\ (Limited => pc # "load") /\ (~Limited => pc # "global")
    BY DEF AcquireStart, Limited
  <2>2. /\ cpCall' = [cpCall EXCEPT ![t] = c] /\ cpCall[t].pc = "idle"
        /\ UNCHANGED <<cpConfig, cpUsers, cpActive, globalActive, userCount>>
    BY <1>2 DEF TryAcquireCall, CpAt, cpTables
  <2> HIDE DEF pc
  <2>3. c \in CpCalls /\ c.pc = pc /\ c.count = n /\ c.id = u
    BY <1>0, <2>1, NoCallOK DEF CpCalls, CpPcs, CpAnyLimit
  <2> HIDE DEF c
  <2>4. CpCallOK(c, cpUsers)
    BY <2>1, <2>3 DEF CpCallOK
  <2> QED  BY <2>1, <2>2, <2>3, <2>4, CallStep DEF Part
<1>3. ASSUME NEW n \in CpCounts, ReleaseCall(t, u, n)
      PROVE  CpInv'
  <2> DEFINE c == [NoCall EXCEPT !.pc = "release", !.id = u, !.count = n]
  <2>1. c \in CpCalls /\ c.pc = "release" /\ c.id = u
    BY NoCallOK DEF CpCalls, CpPcs, CpAnyLimit
  <2>2. /\ cpCall' = [cpCall EXCEPT ![t] = c] /\ cpCall[t].pc = "idle" /\ u \in cpUsers
        /\ UNCHANGED <<cpConfig, cpUsers, cpActive, globalActive, userCount>>
    BY <1>3 DEF ReleaseCall, CpAt, cpTables
  <2> HIDE DEF c
  <2>3. CpCallOK(c, cpUsers)
    BY <2>1, <2>2 DEF CpCallOK
  <2> QED  BY <2>1, <2>2, <2>3, CallStep DEF Part
<1>4. CASE AddUserCheck(t)
  <2>1. cpCall[t].pc = "check" /\ UNCHANGED <<cpConfig, cpUsers, cpActive, globalActive, userCount>>
    BY <1>4 DEF AddUserCheck, CpAt, cpTables
  <2>2. CASE cpCall' = [cpCall EXCEPT ![t] = NoCall]
    BY <2>1, <2>2, NoCallOK, CallStep DEF Part
  <2>3. CASE cpCall' = [cpCall EXCEPT ![t].pc = "insert"]
    <3> DEFINE c == [cpCall[t] EXCEPT !.pc = "insert"]
    <3>1. c \in CpCalls /\ c.pc = "insert" /\ c.count = cpCall[t].count
      BY <1>0 DEF CpCalls, CpPcs
    <3>2. cpCall' = [cpCall EXCEPT ![t] = c]
      BY <2>3
    <3> HIDE DEF c
    <3>3. CpCallOK(c, cpUsers)
      BY <1>0, <2>1, <3>1 DEF CpCallOK
    <3> QED  BY <2>1, <3>1, <3>2, <3>3, CallStep DEF Part
  <2> QED  BY <1>4, <2>2, <2>3 DEF AddUserCheck, CpReturn, CpGoto
<1> QED  BY <1>1, <1>2, <1>3, <1>4

\* raxTryInsert under the write lock.
LEMMA InsertUserStep ==
  ASSUME CpInv, NEW t \in CpThreads, InsertUser(t)
  PROVE  CpInv'
<1> USE CpAssumption
<1> DEFINE c == IF cpCall[t].count = 0 THEN NoCall ELSE [cpCall[t] EXCEPT !.pc = AcquireStart]
           u == cpCall[t].id
<1>0. cpCall[t] \in CpCalls /\ CpCallOK(cpCall[t], cpUsers) /\ CpTypeOK
  BY DEF CpInv, CpTypeOK
<1>1. /\ cpCall[t].pc = "insert" /\ cpConfig' = cpConfig /\ globalActive' = globalActive
      /\ cpCall' = [cpCall EXCEPT ![t] = c]
  BY DEF InsertUser, CpAt, CpReturn, CpGoto
<1>2. AcquireStart \in {"global", "load"} /\ (Limited => AcquireStart # "load") /\ (~Limited => AcquireStart # "global")
  BY DEF AcquireStart, Limited
<1>3. /\ c \in CpCalls /\ c.pc \in {"idle", "global", "load"} /\ c.count \in CpCounts \cup {0}
      /\ (c.pc # "idle" => c.id = u) /\ (Limited => c.pc # "load") /\ (~Limited => c.pc # "global")
      /\ u \in CpNames
  <2>1. CASE cpCall[t].count = 0
    BY <1>0, <2>1, NoCallOK DEF CpCalls
  <2>2. CASE cpCall[t].count # 0
    <3>1. c = [cpCall[t] EXCEPT !.pc = AcquireStart]
      BY <2>2
    <3>2. cpCall[t].count \in CpCounts \cup {0}
      BY <1>0, <1>1 DEF CpCallOK
    <3> HIDE DEF c
    <3> QED  BY <1>0, <1>2, <3>1, <3>2 DEF CpCalls, CpPcs
  <2> QED  BY <2>1, <2>2
<1> HIDE DEF c
<1>4. /\ Part(cpCall[t], {"load", "swap", "rollback"}) = 0 /\ Part(cpCall[t], {"add"}) = 0
      /\ Part(cpCall[t], {"give"}) = 0 /\ Part(c, {"add"}) = 0 /\ Part(c, {"give"}) = 0
      /\ Limited => Part(c, {"load", "swap", "rollback"}) = 0
  BY <1>1, <1>3 DEF Part
<1>5. CASE u \in cpUsers
  <2>1. UNCHANGED <<cpConfig, cpUsers, cpActive, globalActive, userCount>>
    BY <1>1, <1>5 DEF InsertUser, cpTables
  <2>2. CpCallOK(c, cpUsers)
    BY <1>3, <1>5 DEF CpCallOK
  <2> QED  BY <1>1, <1>3, <1>4, <2>1, <2>2, CallStep
<1>6. CASE u \notin cpUsers
  <2>1. /\ cpUsers' = cpUsers \cup {u} /\ cpActive' = [cpActive EXCEPT ![u] = 0] /\ userCount' = userCount + 1
    BY <1>6 DEF InsertUser
  <2>2. /\ IsFiniteSet(cpUsers) /\ cpUsers \subseteq CpNames /\ cpActive \in [CpNames -> Nat]
        /\ userCount = Cardinality(cpUsers)
    BY <1>0, FS_Subset DEF CpInv, CpTypeOK
  <2>3. /\ cpUsers' \subseteq CpNames /\ userCount' = Cardinality(cpUsers') /\ cpActive' \in [CpNames -> Nat]
    <3>1. Cardinality(cpUsers \cup {u}) = Cardinality(cpUsers) + 1
      BY <1>6, <2>2, FS_AddElement
    <3> QED  BY <1>3, <2>1, <2>2, <3>1
  <2>4. Slots' = Slots
    <3> DEFINE f == cpActive
               g == cpActive'
    <3>1. /\ \A v \in cpUsers : f[v] = g[v] /\ f[v] \in Int /\ g[v] \in Int
          /\ g[u] = 0 /\ g[u] \in Int
      BY <1>3, <1>6, <2>1, <2>2
    <3>2. Slots = SumFunctionOnSet(f, cpUsers) /\ Slots' = SumFunctionOnSet(g, cpUsers \cup {u})
      BY <2>1 DEF Slots
    <3> HIDE DEF f, g, u
    <3>3. SumFunctionOnSet(g, cpUsers \cup {u}) = SumFunctionOnSet(g, cpUsers) + g[u]
      BY <1>6, <2>2, <3>1, SumAdd
    <3>4. SumFunctionOnSet(f, cpUsers) = SumFunctionOnSet(g, cpUsers)
      BY <2>2, <3>1, SumSame
    <3>5. SumFunctionOnSet(g, cpUsers) \in Int
      BY <2>2, <3>1, SumType
    <3> QED  BY <3>1, <3>2, <3>3, <3>4, <3>5
  <2>5. Slots' = Slots + 0 /\ Slots \in Nat
    BY <1>0, <2>4, SumsTyped
  <2>6. CpCallOK(c, cpUsers') /\ \A s \in CpThreads \ {t} : CpCallOK(cpCall[s], cpUsers')
    <3>1. \A s \in CpThreads : CpCallOK(cpCall[s], cpUsers)
      BY DEF CpInv
    <3> QED  BY <1>3, <2>1, <3>1 DEF CpCallOK
  <2>7. globalActive' \in Nat
        /\ (Limited => globalActive' <= cpConfig.globalLimit)
        /\ (~Limited => globalActive' = globalActive % CpWord)
    <3>1. globalActive \in Nat
      BY <1>0 DEF CpTypeOK
    <3>2. Limited => globalActive <= cpConfig.globalLimit
      BY DEF CpInv, CpSumInv
    <3>3. ~Limited => globalActive = (Slots + Giving - Adding) % CpWord
      BY DEF CpInv, CpSumInv
    <3>4. ~Limited => globalActive \in 0 .. CpWord - 1
      <4>1. Slots + Giving - Adding \in Int
        BY <1>0, SumsTyped DEF Giving, Adding
      <4> QED  BY <3>3, <4>1, ModRange
    <3>5. ~Limited => globalActive = globalActive % CpWord
      BY <3>1, <3>4
    <3> QED  BY <1>1, <3>1, <3>2, <3>5
  <2>8. Limited => globalActive' = globalActive + 0
                         + (Part(c, {"load", "swap", "rollback"}) - Part(cpCall[t], {"load", "swap", "rollback"}))
                         + (Part(c, {"give"}) - Part(cpCall[t], {"give"}))
    <3>1. globalActive \in Nat
      BY <1>0 DEF CpTypeOK
    <3> QED  BY <1>1, <1>4, <3>1
  <2>9. ~Limited => globalActive' =
                       (globalActive + (0 + (Part(c, {"give"}) - Part(cpCall[t], {"give"}))
                                          - (Part(c, {"add"}) - Part(cpCall[t], {"add"})))) % CpWord
    <3>1. globalActive \in Nat
      BY <1>0 DEF CpTypeOK
    <3>2. globalActive + (0 + (0 - 0) - (0 - 0)) = globalActive
      BY <3>1
    <3> QED  BY <1>4, <2>7, <3>2
  <2>10. 0 \in Int
    OBVIOUS
  <2> QED  BY <1>1, <1>3, <2>3, <2>5, <2>6, <2>7, <2>8, <2>9, <2>10, MoveStep
<1> QED  BY <1>5, <1>6

\* The counter fits its width, and the sums bound what a step takes from it.
LEMMA GlobalFacts ==
  ASSUME CpInv
  PROVE  /\ globalActive \in Nat /\ globalActive < CpWord /\ globalActive % CpWord = globalActive
         /\ Slots \in Nat
         /\ Limited => /\ globalActive <= cpConfig.globalLimit
                       /\ cpConfig.globalLimit \in Nat
                       /\ \A n \in CpCounts \cup {0} : cpConfig.globalLimit + n < CpWord
                       /\ \A u \in cpUsers : cpActive[u] <= globalActive
                       /\ \A t \in CpThreads : /\ Part(cpCall[t], {"load", "swap", "rollback"}) <= globalActive
                                               /\ Part(cpCall[t], {"give"}) <= globalActive
                       /\ \A u \in cpUsers, t \in CpThreads :
                            cpActive[u] + Part(cpCall[t], {"load", "swap", "rollback"}) <= globalActive
<1> USE CpAssumption
<1>1. CpTypeOK /\ globalActive \in Nat /\ cpConfig \in CpConfigs /\ \A u \in cpUsers : cpActive[u] \in Nat
  BY DEF CpInv, CpTypeOK
<1>2. /\ Slots \in Nat /\ Reserved \in Nat /\ Giving \in Nat /\ Adding \in Nat
      /\ \A u \in cpUsers : cpActive[u] <= Slots
      /\ \A t \in CpThreads : /\ Part(cpCall[t], {"load", "swap", "rollback"}) <= Reserved
                              /\ Part(cpCall[t], {"load", "swap", "rollback"}) \in Nat
                              /\ Part(cpCall[t], {"give"}) <= Giving
                              /\ Part(cpCall[t], {"give"}) \in Nat
  BY <1>1, SumsTyped DEF Reserved, Giving, Adding
<1>3. cpConfig.globalLimit \in Nat /\ \A n \in CpCounts \cup {0} : cpConfig.globalLimit + n < CpWord
  BY <1>1
<1>4. CASE Limited
  <2>1. globalActive = Slots + Reserved + Giving /\ globalActive <= cpConfig.globalLimit
    BY <1>4 DEF CpInv, CpSumInv
  <2>2. globalActive < CpWord
    BY <1>1, <1>3, <2>1
  <2>3. globalActive % CpWord = globalActive
    BY <1>1, <2>2
  <2>4. \A u \in cpUsers : cpActive[u] <= globalActive
    BY <1>1, <1>2, <2>1
  <2>5. \A t \in CpThreads : /\ Part(cpCall[t], {"load", "swap", "rollback"}) <= globalActive
                             /\ Part(cpCall[t], {"give"}) <= globalActive
    <3> HIDE DEF Part
    <3> QED  BY <1>1, <1>2, <2>1
  <2>6. \A u \in cpUsers, t \in CpThreads :
          cpActive[u] + Part(cpCall[t], {"load", "swap", "rollback"}) <= globalActive
    BY <1>1, <1>2, <2>1
  <2> QED  BY <1>1, <1>2, <1>3, <2>1, <2>2, <2>3, <2>4, <2>5, <2>6
<1>5. CASE ~Limited
  <2>1. globalActive = (Slots + Giving - Adding) % CpWord
    BY <1>5 DEF CpInv, CpSumInv
  <2>2. Slots + Giving - Adding \in Int
    BY <1>2
  <2>3. globalActive \in 0 .. CpWord - 1
    BY <2>1, <2>2, ModRange
  <2> QED  BY <1>1, <1>2, <1>5, <2>3
<1> QED  BY <1>4, <1>5

\* The limit of a user changes.
LEMMA UpdateUserStep ==
  ASSUME CpInv, NEW t \in CpThreads, NEW u \in CpNames, NEW l \in CpLimits, UpdateUser(t, u, l)
  PROVE  CpInv'
<1>1. UNCHANGED <<cpConfig, cpUsers, cpActive, globalActive, userCount>> /\ cpCall' = cpCall
  BY DEF UpdateUser
<1>2. cpCall[t] \in CpCalls /\ CpCallOK(cpCall[t], cpUsers) /\ cpCall \in [CpThreads -> CpCalls]
  BY DEF CpInv, CpTypeOK
<1>3. cpCall' = [cpCall EXCEPT ![t] = cpCall[t]]
  BY <1>1, <1>2
<1> QED  BY <1>1, <1>2, <1>3, CallStep

\* A user goes, and the pool's counter loses what it had.
LEMMA RemoveUserStep ==
  ASSUME CpInv, NEW t \in CpThreads, NEW u \in CpNames, RemoveUser(t, u)
  PROVE  CpInv'
<1> USE CpAssumption
<1>0. /\ cpCall[t] \in CpCalls /\ CpTypeOK /\ cpCall \in [CpThreads -> CpCalls]
      /\ \A s \in CpThreads : CpCallOK(cpCall[s], cpUsers)
      /\ IsFiniteSet(cpUsers) /\ cpUsers \subseteq CpNames /\ cpActive \in [CpNames -> Nat]
      /\ userCount = Cardinality(cpUsers)
  BY FS_Subset DEF CpInv, CpTypeOK
<1>1. /\ u \in cpUsers /\ cpCall' = cpCall /\ cpConfig' = cpConfig /\ cpUsers' = cpUsers \ {u}
      /\ \A s \in CpThreads : cpCall[s].pc \in {"idle", "check", "insert"} \/ cpCall[s].id # u
      /\ globalActive' = (globalActive + -cpActive[u]) % CpWord
      /\ cpActive' = [cpActive EXCEPT ![u] = 0] /\ userCount' = userCount - 1
  BY DEF RemoveUser, Plus
<1>2. cpUsers' \subseteq CpNames /\ userCount' = Cardinality(cpUsers') /\ cpActive' \in [CpNames -> Nat]
  <2>1. Cardinality(cpUsers \ {u}) = Cardinality(cpUsers) - 1
    BY <1>0, <1>1, FS_RemoveElement
  <2> QED  BY <1>0, <1>1, <2>1
<1>3. \A s \in CpThreads : CpCallOK(cpCall[s], cpUsers')
  BY <1>0, <1>1 DEF CpCallOK
<1>4. Slots' = Slots + (-cpActive[u])
  <2> DEFINE f == cpActive
             g == cpActive'
             T == cpUsers \ {u}
  <2>1. /\ \A v \in cpUsers : f[v] \in Int
        /\ \A v \in T : f[v] = g[v] /\ f[v] \in Int
        /\ IsFiniteSet(T)
    BY <1>0, <1>1, FS_Subset
  <2>2. Slots = SumFunctionOnSet(f, cpUsers) /\ Slots' = SumFunctionOnSet(g, T)
    BY <1>1 DEF Slots
  <2>3. SumFunctionOnSet(f, cpUsers) = f[u] + SumFunctionOnSet(f, T)
    <3> HIDE DEF f, g
    <3> QED  BY <1>0, <1>1, <2>1, SumRemove
  <2>4. SumFunctionOnSet(f, T) = SumFunctionOnSet(g, T) /\ SumFunctionOnSet(f, T) \in Int
    <3> HIDE DEF f, g, T
    <3> QED  BY <2>1, SumSame, SumType
  <2>5. f[u] = cpActive[u] /\ f[u] \in Nat
    BY <1>0
  <2> HIDE DEF f, g, T
  <2> QED  BY <2>2, <2>3, <2>4, <2>5
<1>5. cpActive[u] \in Nat /\ globalActive \in Nat /\ globalActive < CpWord
  BY <1>0, GlobalFacts
<1>6. cpCall' = [cpCall EXCEPT ![t] = cpCall[t]]
  BY <1>0, <1>1
<1> DEFINE R == Part(cpCall[t], {"load", "swap", "rollback"})
           G == Part(cpCall[t], {"give"})
           A == Part(cpCall[t], {"add"})
           d == -cpActive[u]
<1>7. R \in Int /\ G \in Int /\ A \in Int /\ d \in Int
  BY <1>0, <1>5 DEF Part, CpCalls
<1>8. Limited => globalActive' <= cpConfig.globalLimit /\ globalActive' = globalActive + d + (R - R) + (G - G)
  <2> SUFFICES ASSUME Limited PROVE globalActive' <= cpConfig.globalLimit /\ globalActive' = globalActive + d
    BY <1>5, <1>7
  <2>1. cpActive[u] <= globalActive /\ globalActive <= cpConfig.globalLimit /\ cpConfig.globalLimit \in Nat
    BY <1>1, GlobalFacts
  <2>2. globalActive + d \in 0 .. CpWord - 1
    BY <1>5, <2>1
  <2>3. (globalActive + d) % CpWord = globalActive + d
    BY <2>2
  <2> QED  BY <1>1, <1>5, <2>1, <2>3
<1>9. ~Limited => globalActive' = (globalActive + (d + (G - G) - (A - A))) % CpWord
  <2>1. globalActive + (d + (G - G) - (A - A)) = globalActive + d
    BY <1>5, <1>7
  <2> QED  BY <1>1, <2>1
<1>10. globalActive' \in Nat
  <2>1. globalActive + d \in Int
    BY <1>5, <1>7
  <2> QED  BY <1>1, <2>1, ModRange
<1> HIDE DEF d
<1>11. Slots' = Slots + d
  BY <1>4 DEF d
<1> QED  BY <1>0, <1>1, <1>2, <1>3, <1>6, <1>7, <1>8, <1>9, <1>10, <1>11, MoveStep

\* A step that leaves the users' counters alone and moves d into the pool's.
LEMMA GlobalStep ==
  ASSUME CpInv, NEW t \in CpThreads, NEW c \in CpCalls, cpCall' = [cpCall EXCEPT ![t] = c],
         UNCHANGED <<cpConfig, cpUsers, cpActive, userCount>>, CpCallOK(c, cpUsers),
         NEW d \in Int, globalActive' = (globalActive + d) % CpWord,
         Limited => /\ globalActive + d \in 0 .. cpConfig.globalLimit
                    /\ d = (Part(c, {"load", "swap", "rollback"}) - Part(cpCall[t], {"load", "swap", "rollback"}))
                             + (Part(c, {"give"}) - Part(cpCall[t], {"give"})),
         ~Limited => d = (Part(c, {"give"}) - Part(cpCall[t], {"give"}))
                            - (Part(c, {"add"}) - Part(cpCall[t], {"add"}))
  PROVE  CpInv'
<1> USE CpAssumption
<1>0. /\ cpConfig' = cpConfig /\ cpUsers' = cpUsers /\ cpActive' = cpActive /\ userCount' = userCount
      /\ \A s \in CpThreads : CpCallOK(cpCall[s], cpUsers)
      /\ cpUsers \subseteq CpNames /\ cpActive \in [CpNames -> Nat] /\ userCount = Cardinality(cpUsers)
      /\ cpCall[t] \in CpCalls
  BY DEF CpInv, CpTypeOK
<1>1. Slots' = Slots + 0
  <2>1. Slots' = Slots
    BY <1>0 DEF Slots
  <2> QED  BY <2>1, GlobalFacts
<1>2. globalActive \in Nat /\ globalActive < CpWord
  BY GlobalFacts
<1>3. globalActive' \in Nat
  <2>1. globalActive + d \in Int
    BY <1>2
  <2> QED  BY <2>1, ModRange
<1> DEFINE R1 == Part(cpCall[t], {"load", "swap", "rollback"})
           R2 == Part(c, {"load", "swap", "rollback"})
           A1 == Part(cpCall[t], {"add"})
           A2 == Part(c, {"add"})
           G1 == Part(cpCall[t], {"give"})
           G2 == Part(c, {"give"})
<1>4. R1 \in Nat /\ R2 \in Nat /\ A1 \in Nat /\ A2 \in Nat /\ G1 \in Nat /\ G2 \in Nat
  BY <1>0 DEF Part, CpCalls
<1>5. Limited => globalActive + d \in 0 .. cpConfig.globalLimit /\ d = (R2 - R1) + (G2 - G1)
  OBVIOUS
<1>6. ~Limited => d = (G2 - G1) - (A2 - A1)
  OBVIOUS
<1> HIDE DEF R1, R2, A1, A2, G1, G2
<1>7. Limited => globalActive' <= cpConfig.globalLimit /\ globalActive' = globalActive + 0 + (R2 - R1) + (G2 - G1)
  <2> SUFFICES ASSUME Limited
               PROVE  globalActive' <= cpConfig.globalLimit /\ globalActive' = globalActive + 0 + (R2 - R1) + (G2 - G1)
    OBVIOUS
  <2>1. cpConfig.globalLimit \in Nat /\ cpConfig.globalLimit + 0 < CpWord
    BY GlobalFacts
  <2>2. globalActive + d \in 0 .. CpWord - 1
    BY <1>2, <1>5, <2>1
  <2>3. (globalActive + d) % CpWord = globalActive + d
    BY <2>2
  <2> QED  BY <1>2, <1>4, <1>5, <2>1, <2>3
<1>8. ~Limited => globalActive' = (globalActive + (0 + (G2 - G1) - (A2 - A1))) % CpWord
  <2> SUFFICES ASSUME ~Limited
               PROVE  globalActive' = (globalActive + (0 + (G2 - G1) - (A2 - A1))) % CpWord
    OBVIOUS
  <2>1. globalActive + (0 + (G2 - G1) - (A2 - A1)) = globalActive + d
    BY <1>2, <1>4, <1>6
  <2> QED  BY <2>1
<1>9. 0 \in Int
  OBVIOUS
<1>10. CpCallOK(c, cpUsers') /\ \A s \in CpThreads \ {t} : CpCallOK(cpCall[s], cpUsers')
  BY <1>0
<1>11. cpUsers' \subseteq CpNames /\ cpActive' \in [CpNames -> Nat] /\ userCount' = Cardinality(cpUsers')
  BY <1>0
<1> USE DEF R1, R2, A1, A2, G1, G2
<1> QED  BY <1>0, <1>1, <1>3, <1>7, <1>8, <1>9, <1>10, <1>11, MoveStep

\* The pool's slots are reserved, rolled back, added and given back.
LEMMA GlobalSteps ==
  ASSUME CpInv, NEW t \in CpThreads,
         ReserveGlobal(t) \/ Rollback(t) \/ AddGlobal(t) \/ GiveGlobal(t)
  PROVE  CpInv'
<1> USE CpAssumption
<1> DEFINE n == cpCall[t].count
<1>0. /\ cpCall[t] \in CpCalls /\ CpCallOK(cpCall[t], cpUsers) /\ n \in Nat
  BY DEF CpInv, CpTypeOK, CpCalls
<1>1. globalActive \in Nat /\ globalActive < CpWord /\ (Limited => globalActive <= cpConfig.globalLimit)
  BY GlobalFacts
<1>2. CASE ReserveGlobal(t)
  <2>1. cpCall[t].pc = "global" /\ UNCHANGED <<cpConfig, cpUsers, cpActive, userCount>>
    BY <1>2 DEF ReserveGlobal, CpAt, cpTables
  <2>2. Limited /\ n \in CpCounts \cup {0}
    BY <1>0, <2>1 DEF CpCallOK
  <2>3. globalActive + n \in 0 .. CpWord - 1 /\ cpConfig.globalLimit \in Nat
    <3>1. cpConfig.globalLimit + n < CpWord /\ cpConfig.globalLimit \in Nat
      BY <2>2, GlobalFacts
    <3> QED  BY <1>0, <1>1, <2>2, <3>1
  <2>4. Plus(globalActive, n) = globalActive + n
    BY <2>3 DEF Plus
  <2>5. CASE globalActive + n > cpConfig.globalLimit
    <3>1. cpCall' = [cpCall EXCEPT ![t] = NoCall] /\ globalActive' = globalActive
      BY <1>2, <2>4, <2>5 DEF ReserveGlobal, CpReturn
    <3>2. UNCHANGED <<cpConfig, cpUsers, cpActive, globalActive, userCount>>
      BY <2>1, <3>1
    <3> QED  BY <2>1, <3>1, <3>2, NoCallOK, CallStep DEF Part
  <2>6. CASE ~(globalActive + n > cpConfig.globalLimit)
    <3> DEFINE c == [cpCall[t] EXCEPT !.pc = "load"]
    <3>1. cpCall' = [cpCall EXCEPT ![t] = c] /\ globalActive' = (globalActive + n) % CpWord
      BY <1>2, <2>4, <2>6 DEF ReserveGlobal, CpGoto, Plus
    <3>2. c \in CpCalls /\ c.pc = "load" /\ c.count = n /\ c.id = cpCall[t].id
      BY <1>0 DEF CpCalls, CpPcs
    <3> HIDE DEF c
    <3>3. CpCallOK(c, cpUsers)
      BY <1>0, <2>1, <2>2, <3>2 DEF CpCallOK
    <3>4. /\ Part(c, {"load", "swap", "rollback"}) = n /\ Part(cpCall[t], {"load", "swap", "rollback"}) = 0
          /\ Part(c, {"give"}) = 0 /\ Part(cpCall[t], {"give"}) = 0
      BY <2>1, <3>2 DEF Part
    <3> HIDE DEF n
    <3>5. globalActive + n \in 0 .. cpConfig.globalLimit /\ n = (n - 0) + (0 - 0) /\ n \in Int
      BY <1>0, <1>1, <2>3, <2>6
    <3> QED  BY <2>1, <2>2, <3>1, <3>2, <3>3, <3>4, <3>5, GlobalStep
  <2> QED  BY <2>5, <2>6
<1>3. CASE Rollback(t) \/ GiveGlobal(t)
  <2>1. /\ cpCall[t].pc \in {"rollback", "give"} /\ UNCHANGED <<cpConfig, cpUsers, cpActive, userCount>>
        /\ cpCall' = [cpCall EXCEPT ![t] = NoCall]
        /\ globalActive' = (globalActive + -n) % CpWord
    BY <1>3 DEF Rollback, GiveGlobal, CpAt, CpReturn, Plus, cpTables
  <2>2. /\ Part(NoCall, {"load", "swap", "rollback"}) = 0 /\ Part(NoCall, {"give"}) = 0 /\ Part(NoCall, {"add"}) = 0
        /\ Part(cpCall[t], {"add"}) = 0
    BY <2>1, NoCallOK DEF Part
  <2>3. \/ Part(cpCall[t], {"load", "swap", "rollback"}) = n /\ Part(cpCall[t], {"give"}) = 0 /\ Limited
        \/ Part(cpCall[t], {"load", "swap", "rollback"}) = 0 /\ Part(cpCall[t], {"give"}) = n
    BY <1>0, <2>1 DEF Part, CpCallOK
  <2>4. Limited => n <= globalActive
    BY <2>3, GlobalFacts
  <2> DEFINE d == -n
  <2>5. d \in Int /\ (Limited => globalActive + d \in 0 .. cpConfig.globalLimit)
    <3>1. Limited => cpConfig.globalLimit \in Nat
      BY GlobalFacts
    <3> QED  BY <1>0, <1>1, <2>4, <3>1
  <2> DEFINE R == Part(cpCall[t], {"load", "swap", "rollback"})
             G == Part(cpCall[t], {"give"})
  <2>6. (Limited => d = (0 - R) + (0 - G)) /\ (~Limited => d = (0 - G) - (0 - 0))
    <3>1. (R = n /\ G = 0 /\ Limited) \/ (R = 0 /\ G = n)
      BY <2>3
    <3> HIDE DEF R, G
    <3> QED  BY <1>0, <3>1
  <2>7. globalActive' = (globalActive + d) % CpWord
    BY <2>1
  <2> HIDE DEF d
  <2> QED  BY <2>1, <2>2, <2>5, <2>6, <2>7, NoCallOK, GlobalStep
<1>4. CASE AddGlobal(t)
  <2>1. /\ cpCall[t].pc = "add" /\ UNCHANGED <<cpConfig, cpUsers, cpActive, userCount>>
        /\ cpCall' = [cpCall EXCEPT ![t] = NoCall]
        /\ globalActive' = (globalActive + n) % CpWord
    BY <1>4 DEF AddGlobal, CpAt, CpReturn, Plus, cpTables
  <2>2. /\ Part(NoCall, {"give"}) = 0 /\ Part(NoCall, {"add"}) = 0
        /\ Part(cpCall[t], {"add"}) = n /\ Part(cpCall[t], {"give"}) = 0
    BY <2>1, NoCallOK DEF Part
  <2>3. ~Limited
    BY <1>0, <2>1 DEF CpCallOK
  <2> HIDE DEF n
  <2>4. n \in Int /\ n = (0 - 0) - (0 - n)
    BY <1>0
  <2> QED  BY <2>1, <2>2, <2>3, <2>4, NoCallOK, GlobalStep
<1> QED  BY <1>2, <1>3, <1>4

\* A step that leaves the pool's counter alone and gives a user's the value n.
LEMMA UserStep ==
  ASSUME CpInv, NEW t \in CpThreads, NEW c \in CpCalls, cpCall' = [cpCall EXCEPT ![t] = c],
         UNCHANGED <<cpConfig, cpUsers, globalActive, userCount>>, CpCallOK(c, cpUsers),
         NEW u \in cpUsers, NEW n \in Nat, cpActive' = [cpActive EXCEPT ![u] = n],
         Limited => 0 = (n - cpActive[u])
                        + (Part(c, {"load", "swap", "rollback"}) - Part(cpCall[t], {"load", "swap", "rollback"}))
                        + (Part(c, {"give"}) - Part(cpCall[t], {"give"})),
         NEW q \in Int,
         ~Limited => CpWord * q = (n - cpActive[u]) + (Part(c, {"give"}) - Part(cpCall[t], {"give"}))
                                    - (Part(c, {"add"}) - Part(cpCall[t], {"add"}))
  PROVE  CpInv'
<1> USE CpAssumption
<1>0. /\ cpConfig' = cpConfig /\ cpUsers' = cpUsers /\ globalActive' = globalActive /\ userCount' = userCount
      /\ \A s \in CpThreads : CpCallOK(cpCall[s], cpUsers)
      /\ cpUsers \subseteq CpNames /\ cpActive \in [CpNames -> Nat] /\ userCount = Cardinality(cpUsers)
      /\ cpCall[t] \in CpCalls /\ CpTypeOK
  BY DEF CpInv, CpTypeOK
<1> DEFINE d == n - cpActive[u]
           R1 == Part(cpCall[t], {"load", "swap", "rollback"})
           R2 == Part(c, {"load", "swap", "rollback"})
           A1 == Part(cpCall[t], {"add"})
           A2 == Part(c, {"add"})
           G1 == Part(cpCall[t], {"give"})
           G2 == Part(c, {"give"})
<1>1. d \in Int /\ R1 \in Nat /\ R2 \in Nat /\ A1 \in Nat /\ A2 \in Nat /\ G1 \in Nat /\ G2 \in Nat
  BY <1>0 DEF Part, CpCalls
<1>2. cpActive' \in [CpNames -> Nat] /\ Slots' = Slots + d
  <2>1. cpActive' \in [CpNames -> Nat] /\ Slots' = Slots - cpActive[u] + n
    BY <1>0, SlotsStep
  <2>2. Slots \in Nat /\ cpActive[u] \in Nat
    BY <1>0, GlobalFacts
  <2> QED  BY <2>1, <2>2
<1>3. globalActive \in Nat /\ globalActive % CpWord = globalActive /\ (Limited => globalActive <= cpConfig.globalLimit)
  BY GlobalFacts
<1>4. (Limited => 0 = d + (R2 - R1) + (G2 - G1)) /\ (~Limited => CpWord * q = d + (G2 - G1) - (A2 - A1))
  OBVIOUS
<1> HIDE DEF d, R1, R2, A1, A2, G1, G2
<1>5. Limited => globalActive' <= cpConfig.globalLimit /\ globalActive' = globalActive + d + (R2 - R1) + (G2 - G1)
  BY <1>0, <1>1, <1>3, <1>4
<1>6. ~Limited => globalActive' = (globalActive + (d + (G2 - G1) - (A2 - A1))) % CpWord
  <2> SUFFICES ASSUME ~Limited
               PROVE  globalActive' = (globalActive + (d + (G2 - G1) - (A2 - A1))) % CpWord
    OBVIOUS
  <2>1. (globalActive + CpWord * q) % CpWord = globalActive % CpWord
    <3>1. globalActive \in Int /\ CpWord \in Nat \ {0}
      BY <1>3
    <3> QED  BY <3>1, ModPlusMultiple, Zenon
  <2>2. d + (G2 - G1) - (A2 - A1) = CpWord * q
    BY <1>4
  <2> QED  BY <1>0, <1>3, <2>1, <2>2
<1>7. CpCallOK(c, cpUsers') /\ \A s \in CpThreads \ {t} : CpCallOK(cpCall[s], cpUsers')
  BY <1>0
<1>8. cpUsers' \subseteq CpNames /\ userCount' = Cardinality(cpUsers') /\ globalActive' \in Nat
  BY <1>0, <1>3
<1> USE DEF R1, R2, A1, A2, G1, G2
<1> QED  BY <1>0, <1>1, <1>2, <1>5, <1>6, <1>7, <1>8, MoveStep

\* The loop of an acquisition on the user's counter.
LEMMA AcquireSteps ==
  ASSUME CpInv, NEW t \in CpThreads, LoadUser(t) \/ SwapUser(t)
  PROVE  CpInv'
<1> USE CpAssumption
<1> DEFINE n == cpCall[t].count
           u == cpCall[t].id
<1>0. /\ cpCall[t] \in CpCalls /\ CpCallOK(cpCall[t], cpUsers) /\ n \in Nat /\ cpActive \in [CpNames -> Nat]
      /\ cpUsers \subseteq CpNames
  BY DEF CpInv, CpTypeOK, CpCalls
<1>1. CASE LoadUser(t)
  <2>1. cpCall[t].pc = "load" /\ UNCHANGED <<cpConfig, cpUsers, cpActive, globalActive, userCount>>
    BY <1>1 DEF LoadUser, CpAt, cpTables
  <2>0. u \in cpUsers
    BY <1>0, <2>1 DEF CpCallOK
  <2>2. CASE cpCall' = [cpCall EXCEPT ![t].pc = "rollback"] /\ Limited
    <3> DEFINE c == [cpCall[t] EXCEPT !.pc = "rollback"]
    <3>1. c \in CpCalls /\ c.pc = "rollback" /\ c.count = cpCall[t].count /\ c.id = u
      BY <1>0 DEF CpCalls, CpPcs
    <3>2. cpCall' = [cpCall EXCEPT ![t] = c]
      BY <2>2
    <3> HIDE DEF c
    <3>3. CpCallOK(c, cpUsers)
      BY <2>0, <2>2, <3>1 DEF CpCallOK
    <3> QED  BY <2>1, <3>1, <3>2, <3>3, CallStep DEF Part
  <2>3. CASE cpCall' = [cpCall EXCEPT ![t] = NoCall] /\ ~Limited
    BY <2>1, <2>3, NoCallOK, CallStep DEF Part
  <2>4. CASE cpCall' = [cpCall EXCEPT ![t].pc = "swap", ![t].seen = cpActive[u]]
    <3> DEFINE c == [cpCall[t] EXCEPT !.pc = "swap", !.seen = cpActive[u]]
    <3>1. c \in CpCalls /\ c.pc = "swap" /\ c.count = cpCall[t].count /\ c.id = u
      BY <1>0, <2>0 DEF CpCalls, CpPcs
    <3>2. cpCall' = [cpCall EXCEPT ![t] = c]
      BY <2>4, <1>0
    <3> HIDE DEF c
    <3>3. CpCallOK(c, cpUsers)
      BY <2>0, <3>1 DEF CpCallOK
    <3> QED  BY <2>1, <3>1, <3>2, <3>3, CallStep DEF Part
  <2> QED  BY <1>1, <2>2, <2>3, <2>4 DEF LoadUser, CpGoto, CpReturn, Limited
<1>2. CASE SwapUser(t)
  <2>1. cpCall[t].pc = "swap" /\ UNCHANGED <<cpConfig, cpUsers, globalActive, userCount>>
    BY <1>2 DEF SwapUser, CpAt, cpTables
  <2>0. u \in cpUsers
    BY <1>0, <2>1 DEF CpCallOK
  <2>2. CASE cpActive[u] # cpCall[t].seen
    <3> DEFINE c == [cpCall[t] EXCEPT !.pc = "load"]
    <3>1. c \in CpCalls /\ c.pc = "load" /\ c.count = cpCall[t].count /\ c.id = u
      BY <1>0 DEF CpCalls, CpPcs
    <3>2. cpCall' = [cpCall EXCEPT ![t] = c] /\ cpActive' = cpActive
      BY <1>2, <2>2 DEF SwapUser, CpGoto
    <3> HIDE DEF c
    <3>3. CpCallOK(c, cpUsers)
      BY <2>0, <3>1 DEF CpCallOK
    <3> QED  BY <2>1, <3>1, <3>2, <3>3, CallStep DEF Part
  <2>3. CASE cpActive[u] = cpCall[t].seen
    <3> DEFINE a == cpActive[u]
               m == (a + n) % CpWord
               c == IF Limited THEN NoCall ELSE [cpCall[t] EXCEPT !.pc = "add"]
    <3>1. cpCall' = [cpCall EXCEPT ![t] = c] /\ cpActive' = [cpActive EXCEPT ![u] = m]
      BY <1>2, <2>3 DEF SwapUser, CpGoto, CpReturn, Plus, Limited
    <3>2. a \in Nat /\ m \in Nat
      <4>1. a \in Nat /\ a + n \in Int
        BY <1>0, <2>0
      <4> QED  BY <4>1, ModRange
    <3>3. CASE Limited
      <4>1. c = NoCall
        BY <3>3
      <4>2. a + n <= globalActive /\ globalActive < CpWord /\ globalActive \in Nat
        <5>1. Part(cpCall[t], {"load", "swap", "rollback"}) = n
          BY <2>1 DEF Part
        <5> QED  BY <2>0, <3>3, <5>1, GlobalFacts
      <4>3. m = a + n
        BY <1>0, <3>2, <4>2
      <4>4. /\ Part(c, {"load", "swap", "rollback"}) = 0 /\ Part(cpCall[t], {"load", "swap", "rollback"}) = n
            /\ Part(c, {"give"}) = 0 /\ Part(cpCall[t], {"give"}) = 0
        BY <2>1, <4>1, NoCallOK DEF Part
      <4>5. c \in CpCalls /\ CpCallOK(c, cpUsers)
        BY <4>1, NoCallOK
      <4> HIDE DEF a, m, n, c, u
      <4>6. 0 = (m - a) + (0 - n) + (0 - 0)
        BY <1>0, <3>2, <4>3
      <4>7. 0 = (m - cpActive[u]) + (Part(c, {"load", "swap", "rollback"}) - Part(cpCall[t], {"load", "swap", "rollback"}))
                  + (Part(c, {"give"}) - Part(cpCall[t], {"give"}))
        BY <4>4, <4>6 DEF a
      <4>8. 0 \in Int
        OBVIOUS
      <4> QED  BY <2>0, <2>1, <3>1, <3>2, <3>3, <4>5, <4>7, <4>8, UserStep
    <3>4. CASE ~Limited
      <4>1. c = [cpCall[t] EXCEPT !.pc = "add"]
        BY <3>4
      <4>2. c \in CpCalls /\ c.pc = "add" /\ c.count = n /\ c.id = u
        <5> HIDE DEF c
        <5> QED  BY <1>0, <4>1 DEF CpCalls, CpPcs
      <4> HIDE DEF c
      <4>3. CpCallOK(c, cpUsers)
        BY <2>0, <3>4, <4>2 DEF CpCallOK
      <4>4. /\ Part(c, {"add"}) = n /\ Part(cpCall[t], {"add"}) = 0
            /\ Part(c, {"give"}) = 0 /\ Part(cpCall[t], {"give"}) = 0
        BY <2>1, <4>2 DEF Part
      <4>5. PICK q \in Int : a + n = CpWord * q + m
        <5>1. a + n \in Int
          BY <1>0, <3>2
        <5> QED  BY <5>1, ModQuotient
      <4> DEFINE k == -q
      <4> HIDE DEF a, m, n, u
      <4>6. k \in Int /\ CpWord * k = (m - a) + (0 - 0) - (n - 0)
        <5>1. CpWord * q \in Int /\ CpWord * (-q) = -(CpWord * q)
          OBVIOUS
        <5> QED  BY <1>0, <3>2, <4>5, <5>1
      <4>7. CpWord * k = (m - cpActive[u]) + (Part(c, {"give"}) - Part(cpCall[t], {"give"}))
                           - (Part(c, {"add"}) - Part(cpCall[t], {"add"}))
        BY <4>4, <4>6 DEF a
      <4> HIDE DEF k
      <4> QED  BY <2>0, <2>1, <3>1, <3>2, <3>4, <4>2, <4>3, <4>6, <4>7, UserStep
    <3> QED  BY <3>3, <3>4
  <2> QED  BY <2>2, <2>3
<1> QED  BY <1>1, <1>2

\* The loop of a release, and the release of all that a user has.
LEMMA ReleaseSteps ==
  ASSUME CpInv, NEW t \in CpThreads,
         ReleaseLoad(t) \/ ReleaseSwap(t) \/ \E u \in CpNames : ReleaseAll(t, u)
  PROVE  CpInv'
<1> USE CpAssumption
<1>0. /\ cpCall[t] \in CpCalls /\ CpCallOK(cpCall[t], cpUsers) /\ cpActive \in [CpNames -> Nat]
      /\ cpUsers \subseteq CpNames /\ cpCall[t].count \in Nat /\ cpCall[t].seen \in Nat
  BY DEF CpInv, CpTypeOK, CpCalls
<1>1. CASE ReleaseLoad(t)
  <2> DEFINE u == cpCall[t].id
             a == cpActive[u]
             n == Min({cpCall[t].count, a})
  <2>1. cpCall[t].pc = "release" /\ UNCHANGED <<cpConfig, cpUsers, cpActive, globalActive, userCount>>
    BY <1>1 DEF ReleaseLoad, CpAt, cpTables
  <2>2. u \in cpUsers /\ a \in Nat
    BY <1>0, <2>1 DEF CpCallOK
  <2>3. n \in Nat /\ n <= a
    <3> DEFINE S == {cpCall[t].count, a}
    <3>1. \E x \in S : \A y \in S : x <= y
      <4>1. S \subseteq Nat /\ S # {}
        BY <1>0, <2>2
      <4> HIDE DEF S
      <4> QED  BY <4>1, LeastNatural
    <3>2. n \in S /\ \A y \in S : n <= y
      BY <3>1 DEF Min
    <3> QED  BY <1>0, <2>2, <3>2
  <2>4. cpCall' = [cpCall EXCEPT ![t] = IF n = 0 THEN NoCall
                                        ELSE [cpCall[t] EXCEPT !.pc = "drop", !.count = n, !.seen = a]]
    BY <1>1 DEF ReleaseLoad
  <2> HIDE DEF n, a
  <2>5. CASE n = 0
    BY <2>1, <2>4, <2>5, NoCallOK, CallStep DEF Part
  <2>6. CASE n # 0
    <3> DEFINE c == [cpCall[t] EXCEPT !.pc = "drop", !.count = n, !.seen = a]
    <3>1. c \in CpCalls /\ c.pc = "drop" /\ c.count = n /\ c.id = u /\ c.seen = a
      BY <1>0, <2>2, <2>3 DEF CpCalls, CpPcs
    <3>2. cpCall' = [cpCall EXCEPT ![t] = c]
      BY <2>4, <2>6
    <3> HIDE DEF c
    <3>3. CpCallOK(c, cpUsers)
      BY <2>2, <2>3, <3>1 DEF CpCallOK
    <3> QED  BY <2>1, <3>1, <3>2, <3>3, CallStep DEF Part
  <2> QED  BY <2>5, <2>6
<1>2. CASE ReleaseSwap(t)
  <2> DEFINE n == cpCall[t].count
             u == cpCall[t].id
             a == cpActive[u]
  <2>1. cpCall[t].pc = "drop" /\ UNCHANGED <<cpConfig, cpUsers, globalActive, userCount>>
    BY <1>2 DEF ReleaseSwap, CpAt, cpTables
  <2>2. u \in cpUsers /\ a \in Nat /\ n <= cpCall[t].seen
    BY <1>0, <2>1 DEF CpCallOK
  <2>3. CASE a # cpCall[t].seen
    <3> DEFINE c == [cpCall[t] EXCEPT !.pc = "release"]
    <3>1. c \in CpCalls /\ c.pc = "release" /\ c.count = n /\ c.id = u
      BY <1>0 DEF CpCalls, CpPcs
    <3>2. cpCall' = [cpCall EXCEPT ![t] = c] /\ cpActive' = cpActive
      BY <1>2, <2>3 DEF ReleaseSwap, CpGoto
    <3> HIDE DEF c
    <3>3. CpCallOK(c, cpUsers)
      BY <2>2, <3>1 DEF CpCallOK
    <3> QED  BY <2>1, <3>1, <3>2, <3>3, CallStep DEF Part
  <2>4. CASE a = cpCall[t].seen
    <3> DEFINE c == [cpCall[t] EXCEPT !.pc = "give"]
               m == a - n
    <3>1. c \in CpCalls /\ c.pc = "give" /\ c.count = n /\ c.id = u
      BY <1>0 DEF CpCalls, CpPcs
    <3>2. cpCall' = [cpCall EXCEPT ![t] = c] /\ cpActive' = [cpActive EXCEPT ![u] = m]
      BY <1>2, <2>4 DEF ReleaseSwap, CpGoto
    <3> HIDE DEF c
    <3>3. CpCallOK(c, cpUsers)
      BY <2>2, <3>1 DEF CpCallOK
    <3>4. m \in Nat
      BY <1>0, <2>2, <2>4
    <3>5. /\ Part(c, {"load", "swap", "rollback"}) = 0 /\ Part(cpCall[t], {"load", "swap", "rollback"}) = 0
          /\ Part(c, {"give"}) = n /\ Part(cpCall[t], {"give"}) = 0
          /\ Part(c, {"add"}) = 0 /\ Part(cpCall[t], {"add"}) = 0
      BY <2>1, <3>1 DEF Part
    <3>6. 0 = (m - a) + (0 - 0) + (n - 0) /\ CpWord * 0 = (m - a) + (n - 0) - (0 - 0) /\ 0 \in Int
      BY <1>0, <2>2
    <3> HIDE DEF m, n, u
    <3> QED  BY <2>1, <2>2, <3>1, <3>2, <3>3, <3>4, <3>5, <3>6, UserStep
  <2> QED  BY <2>3, <2>4
<1>3. ASSUME NEW u \in CpNames, ReleaseAll(t, u)
      PROVE  CpInv'
  <2> DEFINE n == cpActive[u]
             c == [NoCall EXCEPT !.pc = "give", !.id = u, !.count = n]
  <2>1. /\ cpCall[t].pc = "idle" /\ UNCHANGED <<cpConfig, cpUsers, globalActive, userCount>> /\ u \in cpUsers
        /\ cpActive' = [cpActive EXCEPT ![u] = 0] /\ cpCall' = [cpCall EXCEPT ![t] = c] /\ n \in Nat
    BY <1>0, <1>3 DEF ReleaseAll, CpAt, cpTables
  <2> HIDE DEF n
  <2>2. c \in CpCalls /\ c.pc = "give" /\ c.count = n /\ c.id = u
    BY <2>1, NoCallOK DEF CpCalls, CpPcs
  <2> HIDE DEF c
  <2>3. CpCallOK(c, cpUsers)
    BY <2>1, <2>2 DEF CpCallOK
  <2>4. /\ Part(c, {"load", "swap", "rollback"}) = 0 /\ Part(cpCall[t], {"load", "swap", "rollback"}) = 0
        /\ Part(c, {"give"}) = n /\ Part(cpCall[t], {"give"}) = 0
        /\ Part(c, {"add"}) = 0 /\ Part(cpCall[t], {"add"}) = 0
    BY <2>1, <2>2 DEF Part
  <2>5. 0 = (0 - n) + (0 - 0) + (n - 0) /\ CpWord * 0 = (0 - n) + (n - 0) - (0 - 0) /\ 0 \in Int /\ 0 \in Nat
    BY <2>1
  <2>6. n = cpActive[u]
    BY DEF n
  <2> QED  BY <2>1, <2>2, <2>3, <2>4, <2>5, <2>6, UserStep
<1> QED  BY <1>1, <1>2, <1>3

LEMMA CpStep ==
  ASSUME CpInv, [CpNext]_cpVars
  PROVE  CpInv'
<1>1. CASE UNCHANGED cpVars
  BY <1>1 DEF cpVars, CpInv, CpTypeOK, CpSumInv, CpCallOK, Limited, Slots, Reserved, Adding, Giving, InFlight
<1>2. CASE CpNext
  <2>1. PICK t \in CpThreads :
          \/ \E u \in CpNames, l \in CpLimits : AddUserCall(t, u, l) \/ UpdateUser(t, u, l)
          \/ \E u \in CpNames, n \in CpCounts : TryAcquireCall(t, u, n) \/ ReleaseCall(t, u, n)
          \/ \E u \in CpNames : RemoveUser(t, u) \/ ReleaseAll(t, u)
          \/ AddUserCheck(t) \/ InsertUser(t)
          \/ ReserveGlobal(t) \/ LoadUser(t) \/ SwapUser(t) \/ Rollback(t) \/ AddGlobal(t)
          \/ ReleaseLoad(t) \/ ReleaseSwap(t) \/ GiveGlobal(t)
    BY <1>2 DEF CpNext
  <2>2. \E u : u \in CpNames
    BY CpAssumption
  <2> QED  BY <2>1, <2>2, BeginSteps, InsertUserStep, UpdateUserStep, RemoveUserStep, GlobalSteps,
              AcquireSteps, ReleaseSteps
<1> QED  BY <1>1, <1>2

LEMMA CpInitOK == CpInit => CpInv
<1> SUFFICES ASSUME CpInit PROVE CpInv
  OBVIOUS
<1> USE CpAssumption
<1>1. CpTypeOK /\ cpUsers = {} /\ globalActive = 0 /\ \A t \in CpThreads : cpCall[t] = NoCall
  BY NoCallOK DEF CpInit, CpTypeOK
<1>2. Slots = 0
  BY <1>1, SumEmpty DEF Slots
<1>3. ASSUME NEW pcs, "idle" \notin pcs
      PROVE  InFlight(pcs) = 0
  <2> DEFINE f == [t \in CpThreads |-> IF cpCall[t].pc \in pcs THEN cpCall[t].count ELSE 0]
  <2>1. InFlight(pcs) = SumFunctionOnSet(f, CpThreads)
    BY DEF InFlight, SumFunction
  <2>2. \A t \in CpThreads : f[t] = 0 /\ f[t] \in Int
    BY <1>1, <1>3, NoCallOK
  <2> HIDE DEF f
  <2> QED  BY <2>1, <2>2, SumZero
<1>4. Reserved = 0 /\ Adding = 0 /\ Giving = 0
  BY <1>3 DEF Reserved, Adding, Giving
<1>5. cpConfig.globalLimit \in Nat
  BY <1>1 DEF CpTypeOK
<1>6. CpSumInv
  BY <1>1, <1>2, <1>4, <1>5 DEF CpSumInv
<1>7. userCount = Cardinality(cpUsers)
  BY <1>1, FS_EmptySet DEF CpInit
<1> QED  BY <1>1, <1>6, <1>7, NoCallOK DEF CpInv

LEMMA CpInvAccounted == CpInv => SlotsAccounted
<1> SUFFICES ASSUME CpInv PROVE SlotsAccounted
  OBVIOUS
<1> USE CpAssumption
<1>1. CpTypeOK
  BY DEF CpInv
<1>2. Slots \in Nat /\ Reserved \in Nat /\ Giving \in Nat /\ Adding \in Nat
  BY <1>1, SumsTyped DEF Reserved, Giving, Adding
<1>3. globalActive \in Nat /\ globalActive % CpWord = globalActive
  BY GlobalFacts
<1> DEFINE r == IF Limited THEN Reserved ELSE 0
<1>4. globalActive = (Slots + r + Giving + -Adding) % CpWord /\ (Limited => Slots <= globalActive)
  <2>1. CASE Limited
    <3>1. globalActive = Slots + Reserved + Giving /\ Adding = 0
      BY <2>1 DEF CpInv, CpSumInv
    <3>2. Slots + r + Giving + -Adding = globalActive
      BY <1>2, <2>1, <3>1
    <3> QED  BY <1>2, <1>3, <3>1, <3>2
  <2>2. CASE ~Limited
    <3>1. globalActive = (Slots + Giving - Adding) % CpWord
      BY <2>2 DEF CpInv, CpSumInv
    <3>2. Slots + r + Giving + -Adding = Slots + Giving - Adding
      BY <1>2, <2>2
    <3> QED  BY <2>2, <3>1, <3>2
  <2> QED  BY <2>1, <2>2
<1>5. Limited => globalActive <= cpConfig.globalLimit
  BY GlobalFacts
<1>6. userCount = Cardinality(cpUsers)
  BY DEF CpInv
<1> QED  BY <1>4, <1>5, <1>6 DEF SlotsAccounted, Plus, Limited, Reserved, Giving, Adding

\* Slots are neither lost nor invented, for any number of threads, users and
\* calls: the pool's counter is the sum of the users' counters and of what the
\* threads between their two updates hold, and under a global limit it stays
\* between the users' sum and the limit (loopyConcurrencyUserTryAcquire,
\* loopyConcurrencyUserRelease, loopyConcurrencyPoolRemoveUser).
THEOREM SlotsAreAccounted == CpSpec => []SlotsAccounted
<1>1. CpInv /\ [CpNext]_cpVars => CpInv'
  BY CpStep
<1> QED  BY <1>1, CpInitOK, CpInvAccounted, PTL DEF CpSpec

-----------------------------------------------------------------------------
(* Rate limiters                                                            *)

Grant == [at : Nat, cost : Nat]

\* The token bucket: what it granted since any request and what it still holds
\* came in with the capacity or since.
BucketInv ==
  /\ rlLast \in Nat /\ rlLast <= rlNow
  /\ rlTokens \in Nat /\ rlTokens <= RlCapacity * RlUnit
  /\ \A i \in 1 .. Len(rlGrants) :
       GrantedSince(i) * RlUnit + rlTokens <= RlCapacity * RlUnit + (rlLast - rlGrants[i].at) * RlRate

\* The leaky bucket: what it granted since any request is in the queue or has
\* drained since, but for less than one request drained in advance.
LeakyInv ==
  /\ rlLast \in Nat /\ rlLast <= rlNow
  /\ rlQueue \in Nat /\ rlQueue <= RlCapacity /\ rlPartial \in 0 .. RlUnit - 1
  /\ \A i \in 1 .. Len(rlGrants) :
       GrantedSince(i) * RlUnit + rlPartial < (rlQueue + 1) * RlUnit + (rlLast - rlGrants[i].at) * RlRate

\* The sliding window holds the last requests granted; those before them are
\* too old to count.
SlidingInv ==
  /\ rlWindow \in Seq(Nat) /\ Len(rlWindow) <= RlCapacity /\ Len(rlWindow) <= Len(rlGrants)
  /\ \A i \in 1 .. Len(rlGrants) : GrantedSince(i) = Len(rlGrants) - i + 1
  /\ \A i \in 1 .. Len(rlGrants) - Len(rlWindow) : rlGrants[i].at + RlWindow < rlNow
  /\ \A j \in 1 .. Len(rlWindow) : rlWindow[j] = rlGrants[Len(rlGrants) - Len(rlWindow) + j].at

\* What RateKept says of each algorithm.
BucketKept ==
  \A i \in 1 .. Len(rlGrants) :
    GrantedSince(i) * RlUnit <= RlCapacity * RlUnit + (rlGrants[Len(rlGrants)].at - rlGrants[i].at) * RlRate
LeakyKept ==
  \A i \in 1 .. Len(rlGrants) :
    GrantedSince(i) * RlUnit < (RlCapacity + 1) * RlUnit + (rlGrants[Len(rlGrants)].at - rlGrants[i].at) * RlRate
SlidingKept ==
  \A i \in 1 .. Len(rlGrants) :
    rlGrants[Len(rlGrants)].at - rlGrants[i].at <= RlWindow => GrantedSince(i) <= RlCapacity

RlInv ==
  /\ rlNow \in Nat /\ rlGrants \in Seq(Grant)
  /\ rlAlgorithm = "TOKEN_BUCKET" => BucketInv /\ BucketKept
  /\ rlAlgorithm = "LEAKY_BUCKET" => LeakyInv /\ LeakyKept
  /\ rlAlgorithm = "SLIDING_WINDOW" => SlidingInv /\ SlidingKept

LEMMA GrantsTyped ==
  ASSUME rlGrants \in Seq(Grant)
  PROVE  /\ Len(rlGrants) \in Nat
         /\ \A i \in 1 .. Len(rlGrants) : /\ rlGrants[i] \in Grant /\ rlGrants[i].at \in Nat
                                          /\ GrantedSince(i) \in Nat
<1> DEFINE f == [k \in DOMAIN rlGrants |-> rlGrants[k].cost]
<1>1. Len(rlGrants) \in Nat /\ DOMAIN rlGrants = 1 .. Len(rlGrants)
      /\ \A i \in 1 .. Len(rlGrants) : rlGrants[i] \in Grant
  OBVIOUS
<1>2. \A k \in 1 .. Len(rlGrants) : f[k] \in Int /\ f[k] >= 0
  BY <1>1 DEF Grant
<1>3. ASSUME NEW i \in 1 .. Len(rlGrants)
      PROVE  GrantedSince(i) \in Nat
  <2> DEFINE S == i .. Len(rlGrants)
  <2>1. IsFiniteSet(S) /\ \A k \in S : f[k] \in Int /\ f[k] >= 0
    BY <1>1, <1>2, FS_Interval
  <2>2. GrantedSince(i) = SumFunctionOnSet(f, S)
    BY DEF GrantedSince
  <2> HIDE DEF f, S
  <2>3. SumFunctionOnSet(f, S) \in Int /\ SumFunctionOnSet(f, S) >= 0
    BY <2>1, SumType
  <2> QED  BY <2>2, <2>3
<1> QED  BY <1>1, <1>3 DEF Grant

\* One more request is granted.
LEMMA GrantMore ==
  ASSUME rlGrants \in Seq(Grant), NEW g \in Grant, rlGrants' = Append(rlGrants, g)
  PROVE  /\ rlGrants' \in Seq(Grant) /\ Len(rlGrants') = Len(rlGrants) + 1
         /\ rlGrants'[Len(rlGrants) + 1] = g
         /\ \A i \in 1 .. Len(rlGrants) : rlGrants'[i] = rlGrants[i] /\ GrantedSince(i)' = GrantedSince(i) + g.cost
         /\ \A i \in Nat : i = Len(rlGrants) + 1 => GrantedSince(i)' = g.cost
<1> DEFINE n == Len(rlGrants)
           f == [k \in DOMAIN rlGrants |-> rlGrants[k].cost]
           h == [k \in DOMAIN rlGrants' |-> rlGrants'[k].cost]
<1>1. n \in Nat /\ DOMAIN rlGrants = 1 .. n /\ \A i \in 1 .. n : rlGrants[i] \in Grant
  OBVIOUS
<1>2. /\ rlGrants' \in Seq(Grant) /\ Len(rlGrants') = n + 1 /\ DOMAIN rlGrants' = 1 .. n + 1
      /\ rlGrants'[n + 1] = g /\ \A i \in 1 .. n : rlGrants'[i] = rlGrants[i]
  OBVIOUS
<1>3. /\ \A k \in 1 .. n : f[k] = h[k] /\ f[k] \in Int /\ h[k] \in Int
      /\ h[n + 1] = g.cost /\ h[n + 1] \in Int
  BY <1>1, <1>2 DEF Grant
<1>4. \A i : GrantedSince(i) = SumFunctionOnSet(f, i .. n) /\ GrantedSince(i)' = SumFunctionOnSet(h, i .. n + 1)
  BY <1>2 DEF GrantedSince
<1> HIDE DEF f, h
<1>5. ASSUME NEW i \in 1 .. n + 1
      PROVE  SumFunctionOnSet(h, i .. n + 1) = SumFunctionOnSet(f, i .. n) + g.cost
  <2> DEFINE S == i .. n
  <2>1. IsFiniteSet(S) /\ n + 1 \notin S /\ S \cup {n + 1} = i .. n + 1 /\ \A k \in S : k \in 1 .. n
    <3>1. i \in Int /\ n \in Int
      BY <1>1
    <3>2. IsFiniteSet(S)
      BY <3>1, FS_Interval
    <3> HIDE DEF n
    <3> QED  BY <1>1, <3>1, <3>2
  <2> HIDE DEF S, n
  <2>2. SumFunctionOnSet(h, S \cup {n + 1}) = SumFunctionOnSet(h, S) + h[n + 1]
    BY <1>3, <2>1, SumAdd
  <2>3. SumFunctionOnSet(f, S) = SumFunctionOnSet(h, S)
    BY <1>3, <2>1, SumSame
  <2> QED  BY <1>3, <2>1, <2>2, <2>3 DEF S
<1>6. SumFunctionOnSet(f, n + 1 .. n) = 0
  <2>1. n + 1 .. n = {}
    BY <1>1
  <2> QED  BY <2>1, SumEmpty
<1>7. g.cost \in Nat
  BY DEF Grant
<1> HIDE DEF n
<1>8. \A i \in 1 .. n : GrantedSince(i)' = GrantedSince(i) + g.cost
  BY <1>1, <1>4, <1>5
<1>9. ASSUME NEW i \in Nat, i = n + 1
      PROVE  GrantedSince(i)' = g.cost
  <2>1. GrantedSince(i)' = SumFunctionOnSet(h, i .. n + 1)
    BY <1>4
  <2>2. SumFunctionOnSet(h, i .. n + 1) = SumFunctionOnSet(f, n + 1 .. n) + g.cost
    <3>1. i \in 1 .. n + 1
      BY <1>1, <1>9
    <3>2. SumFunctionOnSet(h, i .. n + 1) = SumFunctionOnSet(f, i .. n) + g.cost
      BY <1>5, <3>1
    <3> QED  BY <1>9, <3>2
  <2> QED  BY <1>6, <1>7, <2>1, <2>2
<1> QED  BY <1>1, <1>2, <1>8, <1>9 DEF n

LEMMA NoGrants ==
  ASSUME rlGrants = << >>
  PROVE  rlGrants \in Seq(Grant) /\ Len(rlGrants) = 0 /\ BucketKept /\ LeakyKept /\ SlidingKept
<1>1. rlGrants \in Seq(Grant) /\ Len(rlGrants) = 0
  OBVIOUS
<1>2. 1 .. 0 = {}
  OBVIOUS
<1> QED  BY <1>1, <1>2 DEF BucketKept, LeakyKept, SlidingKept

\* A step that grants nothing keeps what was said of the grants.
LEMMA SameGrants ==
  ASSUME rlGrants' = rlGrants
  PROVE  /\ \A i : GrantedSince(i)' = GrantedSince(i)
         /\ BucketKept => BucketKept'
         /\ LeakyKept => LeakyKept'
         /\ SlidingKept => SlidingKept'
<1>1. \A i : GrantedSince(i)' = GrantedSince(i)
  BY DEF GrantedSince
<1> QED  BY <1>1 DEF BucketKept, LeakyKept, SlidingKept

LEMMA Times ==
  ASSUME NEW a \in Int, NEW b \in Int, NEW c \in Int
  PROVE  (a + b) * c = a * c + b * c /\ (a - b) * c = a * c - b * c
  OBVIOUS

LEMMA Product ==
  ASSUME NEW a \in Int, NEW b \in Int
  PROVE  a * b \in Int
  OBVIOUS

\* tokenBucketRefill
LEMMA RefilledFacts ==
  ASSUME RlInv, BucketInv
  PROVE  /\ Refilled \in Nat /\ Refilled <= RlCapacity * RlUnit
         /\ Refilled <= rlTokens + (rlNow - rlLast) * RlRate
<1> USE RlAssumption
<1> DEFINE a == RlCapacity * RlUnit
           b == rlTokens + (rlNow - rlLast) * RlRate
           S == {a, b}
<1>1. a \in Nat
  OBVIOUS
<1>2. b \in Nat
  <2>1. rlNow - rlLast \in Nat /\ rlTokens \in Nat
    BY DEF RlInv, BucketInv
  <2>2. (rlNow - rlLast) * RlRate \in Nat
    BY <2>1
  <2> QED  BY <2>1, <2>2
<1>3. Refilled = Min(S)
  BY DEF Refilled
<1> HIDE DEF a, b
<1>4. \E x \in S : \A y \in S : x <= y
  <2>1. S \subseteq Nat /\ S # {}
    BY <1>1, <1>2
  <2> HIDE DEF S
  <2> QED  BY <2>1, LeastNatural
<1>5. Min(S) \in S /\ \A y \in S : Min(S) <= y
  <2> HIDE DEF S
  <2> QED  BY <1>4 DEF Min
<1>6. Min(S) \in Nat /\ Min(S) <= a /\ Min(S) <= b
  BY <1>1, <1>2, <1>5
<1> QED  BY <1>3, <1>6 DEF a, b

\* The bucket refilled to t takes its time from the clock.
LEMMA BucketRefill ==
  ASSUME RlInv, BucketInv, NEW i \in 1 .. Len(rlGrants)
  PROVE  GrantedSince(i) * RlUnit + Refilled <= RlCapacity * RlUnit + (rlNow - rlGrants[i].at) * RlRate
<1> USE RlAssumption
<1>1. rlNow \in Nat /\ rlLast \in Nat /\ rlTokens \in Nat /\ rlGrants[i].at \in Nat /\ GrantedSince(i) \in Nat
  BY GrantsTyped DEF RlInv, BucketInv
<1> DEFINE x == GrantedSince(i) * RlUnit
           c == RlCapacity * RlUnit
           y == (rlLast - rlGrants[i].at) * RlRate
           z == (rlNow - rlLast) * RlRate
<1>2. x \in Int /\ c \in Int /\ y \in Int /\ z \in Int
  <2>1. /\ GrantedSince(i) \in Int /\ RlUnit \in Int /\ RlCapacity \in Int /\ RlRate \in Int
        /\ rlLast - rlGrants[i].at \in Int /\ rlNow - rlLast \in Int
    BY <1>1
  <2> QED  BY <2>1, Product, ZenonT(30)
<1>3. x + rlTokens <= c + y
  BY DEF BucketInv
<1>4. Refilled <= rlTokens + z /\ Refilled \in Nat
  BY RefilledFacts
<1>5. (rlNow - rlGrants[i].at) * RlRate = y + z
  <2>1. (rlLast - rlGrants[i].at) + (rlNow - rlLast) = rlNow - rlGrants[i].at
    BY <1>1
  <2>2. rlLast - rlGrants[i].at \in Int /\ rlNow - rlLast \in Int /\ RlRate \in Int
    BY <1>1
  <2> QED  BY <2>1, <2>2, Times
<1> HIDE DEF x, c, y, z
<1>6. x + Refilled <= c + (y + z)
  BY <1>1, <1>2, <1>3, <1>4
<1> QED  BY <1>5, <1>6 DEF x, c

LEMMA TokenBucketStep ==
  ASSUME RlInv, rlAlgorithm = "TOKEN_BUCKET",
         \/ \E c \in RlCosts : TokenBucketCheck(c)
         \/ Peek
  PROVE  RlInv'
<1> USE RlAssumption
<1>0. /\ rlNow \in Nat /\ rlGrants \in Seq(Grant) /\ BucketInv /\ BucketKept
      /\ rlNow' = rlNow /\ rlAlgorithm' = rlAlgorithm /\ rlLast' = rlNow
  BY DEF RlInv, TokenBucketCheck, Peek
<1>1. /\ Refilled \in Nat /\ Refilled <= RlCapacity * RlUnit
      /\ \A i \in 1 .. Len(rlGrants) :
           GrantedSince(i) * RlUnit + Refilled <= RlCapacity * RlUnit + (rlNow - rlGrants[i].at) * RlRate
  BY <1>0, RefilledFacts, BucketRefill
<1>2. CASE rlGrants' = rlGrants /\ rlTokens' = Refilled
  <2>1. BucketInv'
    <3>1. \A i : GrantedSince(i)' = GrantedSince(i)
      BY <1>2, SameGrants
    <3> QED  BY <1>0, <1>1, <1>2, <3>1 DEF BucketInv
  <2> QED  BY <1>0, <1>2, <2>1, SameGrants DEF RlInv
<1>3. ASSUME NEW c \in Nat, Refilled >= c * RlUnit, rlTokens' = Refilled - c * RlUnit,
             rlGrants' = Append(rlGrants, [at |-> rlNow, cost |-> c])
      PROVE  RlInv'
  <2> DEFINE g == [at |-> rlNow, cost |-> c]
             n == Len(rlGrants)
             K == RlCapacity * RlUnit
             u == c * RlUnit
  <2>1. g \in Grant /\ g.cost = c /\ g.at = rlNow
    BY <1>0 DEF Grant
  <2>2. /\ rlGrants' \in Seq(Grant) /\ Len(rlGrants') = n + 1 /\ rlGrants'[n + 1] = g
        /\ \A i \in 1 .. n : rlGrants'[i] = rlGrants[i] /\ GrantedSince(i)' = GrantedSince(i) + c
        /\ \A i \in Nat : i = n + 1 => GrantedSince(i)' = c
    <3> HIDE DEF g
    <3>1. rlGrants' = Append(rlGrants, g)
      BY <1>3 DEF g
    <3> QED  BY <1>0, <2>1, <3>1, GrantMore
  <2>3. n \in Nat /\ \A i \in 1 .. n : GrantedSince(i) \in Nat /\ rlGrants[i].at \in Nat
    BY <1>0, GrantsTyped
  <2>4. K \in Nat /\ u \in Nat /\ rlTokens' \in Nat /\ rlTokens' <= K /\ rlTokens' = Refilled - u
        /\ Refilled \in Nat /\ Refilled <= K
    <3>1. K \in Nat /\ u \in Nat
      OBVIOUS
    <3>2. Refilled \in Nat /\ Refilled <= K /\ Refilled >= u /\ rlTokens' = Refilled - u
      BY <1>1, <1>3
    <3> HIDE DEF K, u
    <3> QED  BY <3>1, <3>2
  <2>5. ASSUME NEW i \in 1 .. n + 1
        PROVE  /\ GrantedSince(i)' * RlUnit + rlTokens' <= K + (rlNow - rlGrants'[i].at) * RlRate
               /\ GrantedSince(i)' * RlUnit <= K + (rlNow - rlGrants'[i].at) * RlRate
    <3>1. CASE i \in 1 .. n
      <4> DEFINE x == GrantedSince(i) * RlUnit
                 y == (rlNow - rlGrants[i].at) * RlRate
      <4>1. GrantedSince(i)' * RlUnit = x + u
        <5>1. GrantedSince(i)' = GrantedSince(i) + c /\ GrantedSince(i) \in Int /\ c \in Int /\ RlUnit \in Int
          BY <2>2, <2>3, <3>1
        <5> HIDE DEF n
        <5> QED  BY <5>1, Times
      <4>2. x \in Int /\ y \in Int
        BY <1>0, <2>3, <3>1
      <4>3. x + Refilled <= K + y
        BY <1>1, <3>1
      <4>4. rlGrants'[i].at = rlGrants[i].at
        BY <2>2, <3>1
      <4> HIDE DEF x, y, K, u
      <4>5. (x + u) + rlTokens' <= K + y /\ x + u <= K + y
        BY <1>1, <2>4, <4>2, <4>3
      <4> QED  BY <4>1, <4>4, <4>5 DEF y
    <3>2. CASE i = n + 1
      <4>1. GrantedSince(i)' * RlUnit = u /\ rlGrants'[i].at = rlNow
        BY <2>1, <2>2, <3>2
      <4>2. (rlNow - rlNow) * RlRate = 0
        BY <1>0
      <4> HIDE DEF K, u
      <4>3. u + rlTokens' <= K + 0 /\ u <= K + 0
        BY <1>1, <2>4
      <4> QED  BY <4>1, <4>2, <4>3
    <3> QED  BY <2>3, <3>1, <3>2
  <2>6. BucketInv'
    BY <1>0, <2>2, <2>4, <2>5 DEF BucketInv
  <2>7. BucketKept'
    <3>1. rlGrants'[Len(rlGrants')].at = rlNow
      BY <2>1, <2>2
    <3> QED  BY <2>2, <2>5, <3>1 DEF BucketKept
  <2> QED  BY <1>0, <2>2, <2>6, <2>7 DEF RlInv
<1>4. CASE Peek
  <2>1. rlGrants' = rlGrants /\ rlTokens' = Refilled
    BY <1>4 DEF Peek
  <2> QED  BY <1>2, <2>1
<1>5. ASSUME NEW cost \in RlCosts, TokenBucketCheck(cost)
      PROVE  RlInv'
  <2> DEFINE c == IF cost > 0 THEN cost ELSE 1
  <2>1. c \in Nat
    OBVIOUS
  <2>2. /\ rlTokens' = Refilled - (IF Refilled >= c * RlUnit THEN c * RlUnit ELSE 0)
        /\ Granted(Refilled >= c * RlUnit, c)
    BY <1>5 DEF TokenBucketCheck
  <2> HIDE DEF c
  <2>3. CASE Refilled >= c * RlUnit
    BY <1>3, <2>1, <2>2, <2>3 DEF Granted
  <2>4. CASE ~(Refilled >= c * RlUnit)
    <3>1. rlTokens' = Refilled - 0 /\ rlGrants' = rlGrants
      BY <2>2, <2>4 DEF Granted
    <3> QED  BY <1>1, <1>2, <3>1
  <2> QED  BY <2>3, <2>4
<1> QED  BY <1>4, <1>5

\* leakyBucketDrain
LEMMA DrainedFacts ==
  ASSUME RlInv, LeakyInv
  PROVE  /\ Drained \in Nat /\ Drained <= RlCapacity /\ DrainAmount % RlUnit \in 0 .. RlUnit - 1
         /\ rlQueue * RlUnit - rlPartial <= Drained * RlUnit - (DrainAmount % RlUnit) + (rlNow - rlLast) * RlRate
<1> USE RlAssumption
<1> DEFINE e == (rlNow - rlLast) * RlRate
           D == DrainAmount
           w == D \div RlUnit
           p == D % RlUnit
           q == rlQueue
           U == RlUnit
<1>1. rlNow - rlLast \in Nat /\ rlPartial \in Nat /\ q \in Nat /\ q <= RlCapacity
  BY DEF RlInv, LeakyInv
<1>2. e \in Nat
  BY <1>1
<1>3. D = e + rlPartial /\ D \in Nat
  BY <1>1, <1>2 DEF DrainAmount
<1>4. w \in Nat /\ p \in 0 .. U - 1 /\ D = U * w + p
  <2> HIDE DEF D
  <2> QED  BY <1>3
<1>5. Drained = IF w > q THEN 0 ELSE q - w
  BY DEF Drained
<1> HIDE DEF e, D, w, p, q
<1>6. Drained \in Nat /\ Drained <= RlCapacity
  BY <1>1, <1>4, <1>5
<1>7. q * U - rlPartial <= Drained * U - p + e
  <2>1. CASE w > q
    <3>1. U * w >= U * q + U
      <4>1. w - q - 1 \in Nat
        BY <1>1, <1>4, <2>1
      <4>2. U * (w - q - 1) >= 0
        BY <4>1
      <4>3. U * (w - q - 1) = U * w - U * q - U
        BY <1>1, <1>4
      <4> QED  BY <1>1, <1>4, <4>2, <4>3
    <3>2. U * q = q * U /\ U * q \in Int /\ U * w \in Int /\ 0 * U = 0
      BY <1>1, <1>4
    <3>3. Drained = 0
      BY <1>5, <2>1
    <3> QED  BY <1>1, <1>2, <1>3, <1>4, <3>1, <3>2, <3>3
  <2>2. CASE ~(w > q)
    <3>1. Drained = q - w
      BY <1>5, <2>2
    <3>2. (q - w) * U = q * U - U * w /\ q * U \in Int /\ U * w \in Int
      BY <1>1, <1>4
    <3> QED  BY <1>1, <1>2, <1>3, <1>4, <3>1, <3>2
  <2> QED  BY <2>1, <2>2
<1> QED  BY <1>4, <1>6, <1>7 DEF e, p, q, D

\* The bucket drained to now takes its time from the clock.
LEMMA LeakyDrain ==
  ASSUME RlInv, LeakyInv, NEW i \in 1 .. Len(rlGrants)
  PROVE  GrantedSince(i) * RlUnit + (DrainAmount % RlUnit)
           < (Drained + 1) * RlUnit + (rlNow - rlGrants[i].at) * RlRate
<1> USE RlAssumption
<1>1. /\ rlNow \in Nat /\ rlLast \in Nat /\ rlQueue \in Nat /\ rlPartial \in Nat /\ rlGrants[i].at \in Nat
      /\ GrantedSince(i) \in Nat
  BY GrantsTyped DEF RlInv, LeakyInv
<1> DEFINE x == GrantedSince(i) * RlUnit
           y == (rlLast - rlGrants[i].at) * RlRate
           z == (rlNow - rlLast) * RlRate
           p == DrainAmount % RlUnit
           a == rlQueue * RlUnit
           b == Drained * RlUnit
<1>2. Drained \in Nat /\ p \in 0 .. RlUnit - 1 /\ a - rlPartial <= b - p + z
  BY DrainedFacts
<1>3. x \in Int /\ y \in Int /\ z \in Int /\ a \in Int /\ b \in Int /\ p \in Int
  <2>1. p \in Int
    BY <1>2
  <2>2. Drained \in Int
    BY DrainedFacts
  <2>3. /\ GrantedSince(i) \in Int /\ RlUnit \in Int /\ RlRate \in Int /\ rlQueue \in Int
        /\ rlLast - rlGrants[i].at \in Int /\ rlNow - rlLast \in Int
    BY <1>1
  <2> HIDE DEF p
  <2> QED  BY <2>1, <2>2, <2>3, Product, ZenonT(30)
<1>4. x + rlPartial < (rlQueue + 1) * RlUnit + y
  BY DEF LeakyInv
<1>5. (rlQueue + 1) * RlUnit = a + RlUnit /\ (Drained + 1) * RlUnit = b + RlUnit
  BY <1>1, <1>2
<1>6. (rlNow - rlGrants[i].at) * RlRate = y + z
  <2>1. (rlLast - rlGrants[i].at) + (rlNow - rlLast) = rlNow - rlGrants[i].at
    BY <1>1
  <2>2. rlLast - rlGrants[i].at \in Int /\ rlNow - rlLast \in Int /\ RlRate \in Int
    BY <1>1
  <2> QED  BY <2>1, <2>2, Times
<1> HIDE DEF x, y, z, p, a, b
<1>7. x + p < (b + RlUnit) + (y + z)
  BY <1>1, <1>2, <1>3, <1>4, <1>5
<1> QED  BY <1>5, <1>6, <1>7 DEF x, p

LEMMA LeakyBucketStep ==
  ASSUME RlInv, rlAlgorithm = "LEAKY_BUCKET", LeakyBucketCheck \/ Peek
  PROVE  RlInv'
<1> USE RlAssumption
<1> DEFINE p == DrainAmount % RlUnit
<1>0. /\ rlNow \in Nat /\ rlGrants \in Seq(Grant) /\ LeakyInv /\ LeakyKept
      /\ rlNow' = rlNow /\ rlAlgorithm' = rlAlgorithm /\ rlLast' = rlNow /\ rlPartial' = p
  BY DEF RlInv, LeakyBucketCheck, Peek
<1>1. /\ Drained \in Nat /\ Drained <= RlCapacity /\ p \in 0 .. RlUnit - 1
      /\ \A i \in 1 .. Len(rlGrants) :
           GrantedSince(i) * RlUnit + p < (Drained + 1) * RlUnit + (rlNow - rlGrants[i].at) * RlRate
  BY <1>0, DrainedFacts, LeakyDrain
<1> HIDE DEF p
<1>2. CASE rlGrants' = rlGrants /\ rlQueue' = Drained
  <2>1. LeakyInv'
    <3>1. \A i : GrantedSince(i)' = GrantedSince(i)
      BY <1>2, SameGrants
    <3> QED  BY <1>0, <1>1, <1>2, <3>1 DEF LeakyInv
  <2> QED  BY <1>0, <1>2, <2>1, SameGrants DEF RlInv
<1>3. CASE /\ Drained < RlCapacity /\ rlQueue' = Drained + 1
           /\ rlGrants' = Append(rlGrants, [at |-> rlNow, cost |-> 1])
  <2> DEFINE g == [at |-> rlNow, cost |-> 1]
             n == Len(rlGrants)
             U == RlUnit
             b == Drained * U
             K == RlCapacity * U
  <2>1. g \in Grant /\ g.cost = 1 /\ g.at = rlNow
    BY <1>0 DEF Grant
  <2>2. /\ rlGrants' \in Seq(Grant) /\ Len(rlGrants') = n + 1 /\ rlGrants'[n + 1] = g
        /\ \A i \in 1 .. n : rlGrants'[i] = rlGrants[i] /\ GrantedSince(i)' = GrantedSince(i) + 1
        /\ \A i \in Nat : i = n + 1 => GrantedSince(i)' = 1
    <3> HIDE DEF g
    <3>1. rlGrants' = Append(rlGrants, g)
      BY <1>3 DEF g
    <3> QED  BY <1>0, <2>1, <3>1, GrantMore
  <2>3. n \in Nat /\ \A i \in 1 .. n : GrantedSince(i) \in Nat /\ rlGrants[i].at \in Nat
    BY <1>0, GrantsTyped
  <2>4. /\ b \in Nat /\ K \in Nat /\ rlQueue' \in Nat /\ rlQueue' <= RlCapacity
        /\ (rlQueue' + 1) * U = b + U + U /\ b + U <= K /\ (RlCapacity + 1) * U = K + U
        /\ (Drained + 1) * U = b + U
    <3>1. b \in Nat /\ K \in Nat /\ rlQueue' \in Nat /\ rlQueue' <= RlCapacity
      BY <1>1, <1>3
    <3>2. (Drained + 1 + 1) * U = b + U + U /\ (RlCapacity + 1) * U = K + U /\ (Drained + 1) * U = b + U
      <4>1. \A x \in Int, u \in Int : (x + 1) * u = x * u + u
        OBVIOUS
      <4>2. Drained \in Int /\ Drained + 1 \in Int /\ RlCapacity \in Int /\ U \in Int
        BY <1>1
      <4> HIDE DEF U
      <4> QED  BY <4>1, <4>2, SMTT(30)
    <3>3. b + U <= K
      <4>1. RlCapacity - Drained - 1 \in Nat
        BY <1>1, <1>3
      <4>2. (RlCapacity - Drained - 1) * U >= 0
        BY <4>1
      <4>3. (RlCapacity - Drained - 1) * U = K - b - U
        BY <1>1
      <4> HIDE DEF b, K
      <4> QED  BY <3>1, <4>2, <4>3
    <3> QED  BY <1>3, <3>1, <3>2, <3>3
  <2>5. ASSUME NEW i \in 1 .. n + 1
        PROVE  /\ GrantedSince(i)' * U + p < (rlQueue' + 1) * U + (rlNow - rlGrants'[i].at) * RlRate
               /\ GrantedSince(i)' * U < (RlCapacity + 1) * U + (rlNow - rlGrants'[i].at) * RlRate
    <3>1. CASE i \in 1 .. n
      <4> DEFINE x == GrantedSince(i) * U
                 y == (rlNow - rlGrants[i].at) * RlRate
      <4>1. GrantedSince(i)' * U = x + U
        <5>1. GrantedSince(i)' = GrantedSince(i) + 1 /\ GrantedSince(i) \in Int
          BY <2>2, <2>3, <3>1
        <5> HIDE DEF n
        <5> QED  BY <5>1
      <4>2. x \in Int /\ y \in Int
        BY <1>0, <2>3, <3>1
      <4>3. x + p < (b + U) + y
        BY <1>1, <2>4, <3>1
      <4>4. rlGrants'[i].at = rlGrants[i].at
        BY <2>2, <3>1
      <4> HIDE DEF x, y, K, b
      <4>5. (x + U) + p < (b + U + U) + y /\ x + U < (K + U) + y
        BY <1>1, <2>4, <4>2, <4>3
      <4> QED  BY <2>4, <4>1, <4>4, <4>5 DEF y
    <3>2. CASE i = n + 1
      <4>1. GrantedSince(i)' = 1 /\ rlGrants'[i].at = rlNow
        BY <2>1, <2>2, <2>3, <3>2
      <4>2. (rlNow - rlNow) * RlRate = 0 /\ 1 * U = U
        BY <1>0
      <4> HIDE DEF K, b
      <4>3. U + p < (b + U + U) + 0 /\ U < (K + U) + 0
        BY <1>1, <2>4
      <4> QED  BY <2>4, <4>1, <4>2, <4>3
    <3> QED  BY <2>3, <3>1, <3>2
  <2>6. LeakyInv'
    BY <1>0, <1>1, <2>2, <2>4, <2>5 DEF LeakyInv
  <2>7. LeakyKept'
    <3>1. rlGrants'[Len(rlGrants')].at = rlNow
      BY <2>1, <2>2
    <3> QED  BY <2>2, <2>5, <3>1 DEF LeakyKept
  <2> QED  BY <1>0, <2>2, <2>6, <2>7 DEF RlInv
<1>4. CASE Peek
  <2>1. rlGrants' = rlGrants /\ rlQueue' = Drained
    BY <1>4 DEF Peek
  <2> QED  BY <1>2, <2>1
<1>5. CASE LeakyBucketCheck
  <2>1. /\ rlQueue' = IF Drained < RlCapacity THEN Drained + 1 ELSE Drained
        /\ Granted(Drained < RlCapacity, 1)
    BY <1>5 DEF LeakyBucketCheck
  <2> QED  BY <1>2, <1>3, <2>1 DEF Granted
<1> QED  BY <1>4, <1>5

\* slidingWindowPrune
LEMMA PrunedFacts ==
  ASSUME RlInv, SlidingInv
  PROVE  /\ Pruned \in Seq(Nat) /\ Len(Pruned) <= Len(rlWindow)
         /\ \A i \in 1 .. Len(rlGrants) - Len(Pruned) : rlGrants[i].at + RlWindow < rlNow
         /\ \A j \in 1 .. Len(Pruned) : Pruned[j] = rlGrants[Len(rlGrants) - Len(Pruned) + j].at
<1> USE RlAssumption
<1> DEFINE w == rlWindow
           count == Len(w)
           n == Len(rlGrants)
           cutoff == IF rlNow > RlWindow THEN rlNow - RlWindow ELSE 0
           S == {k \in 1 .. count + 1 : k = count + 1 \/ w[k] >= cutoff}
           o == Min(S)
<1>1. /\ w \in Seq(Nat) /\ count \in Nat /\ count <= n /\ n \in Nat /\ rlNow \in Nat /\ cutoff \in Nat
      /\ \A k \in 1 .. count : w[k] \in Nat
      /\ \A i \in 1 .. n : rlGrants[i].at \in Nat
  <2>1. w \in Seq(Nat) /\ count <= n /\ rlNow \in Nat /\ rlGrants \in Seq(Grant)
    BY DEF RlInv, SlidingInv
  <2>2. \A i \in 1 .. n : rlGrants[i].at \in Nat
    BY <2>1, GrantsTyped
  <2> QED  BY <2>1, <2>2
<1>2. o \in S /\ \A k \in S : o <= k
  <2>1. \E x \in S : \A y \in S : x <= y
    <3>1. S \subseteq Nat /\ S # {}
      <4>1. count + 1 \in S
        BY <1>1
      <4> QED  BY <1>1, <4>1
    <3> HIDE DEF S
    <3> QED  BY <3>1, LeastNatural
  <2> HIDE DEF S
  <2> QED  BY <2>1 DEF Min
<1>3. Pruned = SubSeq(w, o, count)
  BY DEF Pruned
<1> HIDE DEF o
<1>4. o \in 1 .. count + 1 /\ \A k \in 1 .. count : k < o => w[k] < cutoff
  <2>1. o \in 1 .. count + 1
    BY <1>2
  <2>2. ASSUME NEW k \in 1 .. count, k < o, ~(w[k] < cutoff)
        PROVE  FALSE
    <3>1. w[k] \in Nat /\ cutoff \in Nat /\ count \in Nat
      BY <1>1
    <3> HIDE DEF cutoff, w, count
    <3>2. k \in S
      BY <2>2, <3>1
    <3>3. o <= k
      BY <1>2, <3>2
    <3> QED  BY <2>1, <2>2, <3>1, <3>3
  <2> QED  BY <2>1, <2>2
<1> HIDE DEF S
<1>5. /\ Pruned \in Seq(Nat) /\ Len(Pruned) = count - o + 1
      /\ \A j \in 1 .. count - o + 1 : Pruned[j] = w[o + j - 1]
  <2> DEFINE r == SubSeq(w, o, count)
  <2>1. r \in Seq(Nat)
    <3>1. \A k \in o .. count : w[k] \in Nat
      BY <1>1, <1>4
    <3> HIDE DEF w, count
    <3> QED  BY <1>1, <1>4, <3>1
  <2>2. Len(r) = count - o + 1 /\ \A j \in 1 .. count - o + 1 : r[j] = w[o + j - 1]
    <3> HIDE DEF w, count
    <3> QED  BY <1>1, <1>4
  <2> QED  BY <1>3, <2>1, <2>2
<1> DEFINE m == Len(Pruned)
<1>6. m \in Nat /\ m <= count /\ m = count - o + 1
  BY <1>1, <1>4, <1>5
<1>7. /\ \A i \in 1 .. n - count : rlGrants[i].at + RlWindow < rlNow
      /\ \A j \in 1 .. count : w[j] = rlGrants[n - count + j].at
  BY DEF SlidingInv
<1>8. ASSUME NEW i \in 1 .. n - m
      PROVE  rlGrants[i].at + RlWindow < rlNow
  <2>1. CASE i \in 1 .. n - count
    BY <1>7, <2>1
  <2>2. CASE i \notin 1 .. n - count
    <3> DEFINE k == i - (n - count)
    <3> HIDE DEF m, n, count
    <3>1. k \in 1 .. count /\ k < o /\ n - count + k = i /\ i \in 1 .. n
      BY <1>1, <1>4, <1>6, <2>2
    <3> HIDE DEF k
    <3>2. w[k] < cutoff /\ w[k] = rlGrants[i].at
      BY <1>4, <1>7, <3>1
    <3>3. rlGrants[i].at \in Nat
      BY <1>1, <3>1
    <3> QED  BY <1>1, <3>2, <3>3
  <2> QED  BY <2>1, <2>2
<1>9. ASSUME NEW j \in 1 .. m
      PROVE  Pruned[j] = rlGrants[n - m + j].at
  <2> HIDE DEF m, n, count, w
  <2>1. j \in 1 .. count - o + 1 /\ o + j - 1 \in 1 .. count /\ n - count + (o + j - 1) = n - m + j
    BY <1>1, <1>4, <1>6
  <2> QED  BY <1>5, <1>7, <2>1
<1> QED  BY <1>5, <1>6, <1>8, <1>9

LEMMA SlidingWindowStep ==
  ASSUME RlInv, rlAlgorithm = "SLIDING_WINDOW", SlidingWindowCheck \/ Peek
  PROVE  RlInv'
<1> USE RlAssumption
<1> DEFINE m == Len(Pruned)
           n == Len(rlGrants)
<1>0. /\ rlNow \in Nat /\ rlGrants \in Seq(Grant) /\ SlidingInv /\ SlidingKept
      /\ rlNow' = rlNow /\ rlAlgorithm' = rlAlgorithm
  BY DEF RlInv, SlidingWindowCheck, Peek
<1>1. /\ Pruned \in Seq(Nat) /\ m \in Nat /\ m <= Len(rlWindow) /\ n \in Nat
      /\ \A i \in 1 .. n - m : rlGrants[i].at + RlWindow < rlNow
      /\ \A j \in 1 .. m : Pruned[j] = rlGrants[n - m + j].at
  <2>1. Pruned \in Seq(Nat)
    BY <1>0, PrunedFacts
  <2>2. m \in Nat /\ n \in Nat
    BY <1>0, <2>1
  <2> QED  BY <1>0, <2>1, <2>2, PrunedFacts
<1>2. m <= RlCapacity /\ m <= n
  <2>1. Len(rlWindow) <= RlCapacity /\ Len(rlWindow) <= n /\ Len(rlWindow) \in Nat
    BY <1>0 DEF SlidingInv
  <2> HIDE DEF m, n
  <2> QED  BY <1>1, <2>1
<1>3. CASE rlGrants' = rlGrants /\ rlWindow' = Pruned
  <2>1. SlidingInv'
    <3>1. \A i : GrantedSince(i)' = GrantedSince(i)
      BY <1>3, SameGrants
    <3> QED  BY <1>0, <1>1, <1>2, <1>3, <3>1 DEF SlidingInv
  <2> QED  BY <1>0, <1>3, <2>1, SameGrants DEF RlInv
<1>4. CASE /\ m < RlCapacity /\ rlWindow' = Append(Pruned, rlNow)
           /\ rlGrants' = Append(rlGrants, [at |-> rlNow, cost |-> 1])
  <2> DEFINE g == [at |-> rlNow, cost |-> 1]
  <2>1. g \in Grant /\ g.cost = 1 /\ g.at = rlNow
    BY <1>0 DEF Grant
  <2>2. /\ rlGrants' \in Seq(Grant) /\ Len(rlGrants') = n + 1 /\ rlGrants'[n + 1] = g
        /\ \A i \in 1 .. n : rlGrants'[i] = rlGrants[i] /\ GrantedSince(i)' = GrantedSince(i) + 1
        /\ \A i \in Nat : i = n + 1 => GrantedSince(i)' = 1
    <3> HIDE DEF g
    <3>1. rlGrants' = Append(rlGrants, g)
      BY <1>4 DEF g
    <3> QED  BY <1>0, <2>1, <3>1, GrantMore
  <2>3. \A i \in 1 .. n : GrantedSince(i) = n - i + 1
    BY <1>0 DEF SlidingInv
  <2>4. /\ rlWindow' \in Seq(Nat) /\ Len(rlWindow') = m + 1
        /\ rlWindow'[m + 1] = rlNow /\ \A j \in 1 .. m : rlWindow'[j] = Pruned[j]
    BY <1>0, <1>1, <1>4
  <2> HIDE DEF g, m, n
  <2>5. ASSUME NEW i \in 1 .. n + 1
        PROVE  GrantedSince(i)' = (n + 1) - i + 1
    <3>1. CASE i \in 1 .. n
      BY <1>1, <2>2, <2>3, <3>1
    <3>2. CASE i = n + 1
      BY <1>1, <2>2, <3>2
    <3> QED  BY <1>1, <3>1, <3>2, SMTT(30)
  <2>6. ASSUME NEW i \in 1 .. (n + 1) - (m + 1)
        PROVE  rlGrants'[i].at + RlWindow < rlNow
    <3>1. i \in 1 .. n - m /\ i \in 1 .. n
      BY <1>1
    <3> QED  BY <1>1, <2>2, <3>1
  <2>7. ASSUME NEW j \in 1 .. m + 1
        PROVE  rlWindow'[j] = rlGrants'[(n + 1) - (m + 1) + j].at
    <3>1. CASE j \in 1 .. m
      <4>1. (n + 1) - (m + 1) + j = n - m + j /\ n - m + j \in 1 .. n
        BY <1>1, <1>2, <3>1
      <4>2. rlWindow'[j] = rlGrants[n - m + j].at /\ rlGrants'[n - m + j] = rlGrants[n - m + j]
        BY <1>1, <2>2, <2>4, <3>1, <4>1
      <4> QED  BY <4>1, <4>2
    <3>2. CASE j = m + 1
      <4>1. (n + 1) - (m + 1) + j = n + 1
        BY <1>1, <3>2
      <4> QED  BY <2>1, <2>2, <2>4, <3>2, <4>1
    <3> QED  BY <1>1, <3>1, <3>2
  <2>8. m + 1 <= RlCapacity /\ m + 1 <= n + 1
    BY <1>1, <1>2, <1>4 DEF m
  <2>9. SlidingInv'
    BY <1>0, <2>2, <2>4, <2>5, <2>6, <2>7, <2>8 DEF SlidingInv
  <2>10. ASSUME NEW i \in 1 .. n + 1, rlNow - rlGrants'[i].at <= RlWindow
         PROVE  GrantedSince(i)' <= RlCapacity
    <3>1. ~(i \in 1 .. n - m)
      <4> SUFFICES ASSUME i \in 1 .. n - m PROVE FALSE
        OBVIOUS
      <4>1. rlGrants'[i].at + RlWindow < rlNow
        BY <2>6, <1>1
      <4>2. rlGrants'[i].at \in Nat
        <5>1. i \in 1 .. n
          BY <1>1
        <5>2. rlGrants[i].at \in Nat
          BY <1>0, <5>1, GrantsTyped DEF n
        <5> QED  BY <2>2, <5>1, <5>2
      <4> QED  BY <1>0, <2>10, <4>1, <4>2
    <3> QED  BY <1>1, <2>5, <2>8, <3>1
  <2>11. SlidingKept'
    <3>1. rlGrants'[Len(rlGrants')].at = rlNow
      BY <2>1, <2>2
    <3> QED  BY <2>2, <2>10, <3>1 DEF SlidingKept
  <2> QED  BY <1>0, <2>2, <2>9, <2>11 DEF RlInv
<1>5. CASE Peek
  <2>1. rlGrants' = rlGrants /\ rlWindow' = Pruned
    BY <1>5 DEF Peek
  <2> QED  BY <1>3, <2>1
<1>6. CASE SlidingWindowCheck
  <2>1. /\ rlWindow' = IF m < RlCapacity /\ m < RlEntries THEN Append(Pruned, rlNow) ELSE Pruned
        /\ Granted(m < RlCapacity /\ m < RlEntries, 1)
    BY <1>6 DEF SlidingWindowCheck
  <2> QED  BY <1>3, <1>4, <2>1 DEF Granted
<1> QED  BY <1>5, <1>6

\* Everything starts afresh.
Fresh ==
  /\ rlNow \in Nat /\ rlGrants = << >> /\ rlLast \in Nat /\ rlLast <= rlNow
  /\ rlTokens \in {0, RlCapacity * RlUnit} /\ rlWindow = << >> /\ rlQueue = 0 /\ rlPartial = 0

LEMMA RlFresh == Fresh => RlInv
<1> SUFFICES ASSUME Fresh
             PROVE  RlInv
  OBVIOUS
<1> USE RlAssumption DEF Fresh
<1>1. rlGrants \in Seq(Grant) /\ Len(rlGrants) = 0 /\ BucketKept /\ LeakyKept /\ SlidingKept
  BY NoGrants
<1>2. 1 .. 0 = {}
  OBVIOUS
<1>3. BucketInv
  <2>1. RlCapacity * RlUnit \in Nat
    OBVIOUS
  <2> QED  BY <1>1, <1>2, <2>1 DEF BucketInv
<1>4. LeakyInv
  BY <1>1, <1>2 DEF LeakyInv
<1>5. SlidingInv
  <2>1. rlWindow \in Seq(Nat) /\ Len(rlWindow) = 0
    OBVIOUS
  <2>2. 0 - 0 = 0
    OBVIOUS
  <2> QED  BY <1>1, <1>2, <2>1, <2>2 DEF SlidingInv
<1> QED  BY <1>1, <1>3, <1>4, <1>5 DEF RlInv

LEMMA RlStep == RlInv /\ [RlNext]_rlVars => RlInv'
<1> SUFFICES ASSUME RlInv, [RlNext]_rlVars
             PROVE  RlInv'
  OBVIOUS
<1> USE RlAssumption
<1>1. CASE UNCHANGED rlVars
  <2>1. \A i : GrantedSince(i)' = GrantedSince(i)
    BY <1>1, SameGrants DEF rlVars
  <2> QED  BY <1>1, <2>1 DEF rlVars, RlInv, BucketInv, LeakyInv, SlidingInv, BucketKept, LeakyKept, SlidingKept
<1>2. CASE \E c \in RlCosts : TokenBucketCheck(c)
  BY <1>2, TokenBucketStep DEF TokenBucketCheck
<1>3. CASE SlidingWindowCheck
  BY <1>3, SlidingWindowStep DEF SlidingWindowCheck
<1>4. CASE LeakyBucketCheck
  BY <1>4, LeakyBucketStep DEF LeakyBucketCheck
<1>5. CASE Peek
  <2>1. rlAlgorithm \in {"TOKEN_BUCKET", "SLIDING_WINDOW", "LEAKY_BUCKET"}
    BY <1>5, Zenon DEF Peek
  <2> QED  BY <1>5, <2>1, TokenBucketStep, SlidingWindowStep, LeakyBucketStep
<1>6. CASE Reset
  <2>1. /\ rlNow' \in Nat /\ rlGrants' = << >> /\ rlLast' = rlNow' /\ rlTokens' = RlCapacity * RlUnit
        /\ rlWindow' = << >> /\ rlQueue' = 0 /\ rlPartial' = 0
    BY <1>6 DEF Reset, RlInv
  <2>2. /\ rlLast' \in Nat /\ rlLast' <= rlNow' /\ rlTokens' \in {0, RlCapacity * RlUnit}
    BY <2>1
  <2>3. Fresh'
    BY <2>1, <2>2 DEF Fresh
  <2> QED  BY <2>3, RlFresh, PTL
<1>7. ASSUME NEW t \in RlThreads,
             \/ \E next \in {"add", "idle"} : FixedWindowCall(t, next)
             \/ FixedWindowLock(t) \/ FixedWindowStart(t) \/ FixedWindowAdd(t) \/ FixedWindowUndo(t)
      PROVE  RlInv'
  <2>1. rlAlgorithm = "FIXED_WINDOW" /\ rlAlgorithm' = rlAlgorithm /\ rlNow' = rlNow
    BY <1>7 DEF FixedWindowCall, FixedWindowLock, FixedWindowStart, FixedWindowAdd, FixedWindowUndo, FwAt
  <2>2. \/ rlGrants' = rlGrants \/ rlGrants' = << >> \/ rlGrants' = Append(rlGrants, [at |-> rlNow, cost |-> 1])
    BY <1>7 DEF FixedWindowCall, FixedWindowLock, FixedWindowStart, FixedWindowAdd, FixedWindowUndo, Granted
  <2>3. rlNow \in Nat /\ rlGrants \in Seq(Grant)
    BY DEF RlInv
  <2>4. [at |-> rlNow, cost |-> 1] \in Grant
    BY <2>3 DEF Grant
  <2>5. rlGrants' \in Seq(Grant)
    <3>1. CASE rlGrants' = Append(rlGrants, [at |-> rlNow, cost |-> 1])
      <4> DEFINE g == [at |-> rlNow, cost |-> 1]
      <4> HIDE DEF g
      <4> QED  BY <2>3, <2>4, <3>1 DEF g
    <3>2. CASE rlGrants' = << >>
      BY <3>2
    <3> QED  BY <2>2, <2>3, <3>1, <3>2
  <2> QED  BY <2>1, <2>3, <2>5 DEF RlInv
<1>8. CASE RlTick
  <2>1. /\ rlNow \in Nat /\ rlNow' = rlNow + 1 /\ rlAlgorithm' = rlAlgorithm /\ rlTokens' = rlTokens
        /\ rlLast' = rlLast /\ rlWindow' = rlWindow /\ rlQueue' = rlQueue /\ rlPartial' = rlPartial
        /\ rlGrants' = rlGrants /\ rlGrants \in Seq(Grant)
    BY <1>8 DEF RlTick, RlInv
  <2>2. \A i : GrantedSince(i)' = GrantedSince(i)
    BY <2>1, SameGrants
  <2>3. ASSUME BucketInv PROVE BucketInv'
    <3>1. rlLast' \in Nat /\ rlLast' <= rlNow'
      BY <2>1, <2>3 DEF BucketInv
    <3> QED  BY <2>1, <2>2, <2>3, <3>1 DEF BucketInv
  <2>4. ASSUME LeakyInv PROVE LeakyInv'
    <3>1. rlLast' \in Nat /\ rlLast' <= rlNow'
      BY <2>1, <2>4 DEF LeakyInv
    <3> QED  BY <2>1, <2>2, <2>4, <3>1 DEF LeakyInv
  <2>5. ASSUME SlidingInv PROVE SlidingInv'
    <3>1. Len(rlGrants) \in Nat /\ Len(rlWindow) \in Nat /\ \A i \in 1 .. Len(rlGrants) : rlGrants[i].at \in Nat
      BY <2>1, <2>5, GrantsTyped DEF SlidingInv
    <3>2. \A i \in 1 .. Len(rlGrants) - Len(rlWindow) : rlGrants[i].at + RlWindow < rlNow + 1
      BY <2>1, <2>5, <3>1, SMTT(30) DEF SlidingInv
    <3> QED  BY <2>1, <2>2, <2>5, <3>2 DEF SlidingInv
  <2> QED  BY <2>1, <2>3, <2>4, <2>5, SameGrants DEF RlInv
<1> QED  BY <1>1, <1>2, <1>3, <1>4, <1>5, <1>6, <1>7, <1>8 DEF RlNext

LEMMA RlInitOK == RlInit => RlInv
<1> SUFFICES ASSUME RlInit PROVE RlInv
  OBVIOUS
<1>1. /\ rlNow \in Nat /\ rlGrants = << >> /\ rlLast \in Nat /\ rlLast <= rlNow
      /\ rlTokens \in {0, RlCapacity * RlUnit} /\ rlWindow = << >> /\ rlQueue = 0 /\ rlPartial = 0
  BY DEF RlInit
<1> QED  BY <1>1, RlFresh DEF Fresh

LEMMA RlInvKept == RlInv => RateKept
<1> SUFFICES ASSUME RlInv, NEW i \in 1 .. Len(rlGrants)
             PROVE  LET span == rlGrants[Len(rlGrants)].at - rlGrants[i].at IN
                    CASE rlAlgorithm = "TOKEN_BUCKET" -> GrantedSince(i) * RlUnit <= RlCapacity * RlUnit + span * RlRate
                      [] rlAlgorithm = "LEAKY_BUCKET" -> GrantedSince(i) * RlUnit < (RlCapacity + 1) * RlUnit + span * RlRate
                      [] rlAlgorithm = "SLIDING_WINDOW" -> span <= RlWindow => GrantedSince(i) <= RlCapacity
                      [] OTHER -> TRUE
  BY Zenon DEF RateKept
<1> DEFINE span == rlGrants[Len(rlGrants)].at - rlGrants[i].at
           P == GrantedSince(i) * RlUnit <= RlCapacity * RlUnit + span * RlRate
           Q == GrantedSince(i) * RlUnit < (RlCapacity + 1) * RlUnit + span * RlRate
           R == span <= RlWindow => GrantedSince(i) <= RlCapacity
<1>1. /\ rlAlgorithm = "TOKEN_BUCKET" => P
      /\ rlAlgorithm = "LEAKY_BUCKET" => Q
      /\ rlAlgorithm = "SLIDING_WINDOW" => R
  <2>1. rlAlgorithm = "TOKEN_BUCKET" => P
    BY Zenon DEF RlInv, BucketKept
  <2>2. rlAlgorithm = "LEAKY_BUCKET" => Q
    BY Zenon DEF RlInv, LeakyKept
  <2>3. rlAlgorithm = "SLIDING_WINDOW" => R
    BY Zenon DEF RlInv, SlidingKept
  <2> QED  BY <2>1, <2>2, <2>3
<1> HIDE DEF P, Q, R
<1>2. (CASE rlAlgorithm = "TOKEN_BUCKET" -> P
         [] rlAlgorithm = "LEAKY_BUCKET" -> Q
         [] rlAlgorithm = "SLIDING_WINDOW" -> R
         [] OTHER -> TRUE)
  BY <1>1, Zenon
<1> QED  BY <1>2 DEF P, Q, R

\* What the limiters of loopyRateLimit.c promise, for any rate, capacity, window
\* and costs and at any time: over every stretch a token bucket grants at most
\* its capacity and what was refilled, a leaky bucket less than one request more
\* than its queue and what drained, a sliding window no more than its maximum,
\* and nobody who may enter the concurrency limiter is left asleep.
THEOREM AdmissionIsExact == RlSpec /\ ClSpec => []AdmissionExact
<1>1. RlSpec => []RateKept
  BY RlInitOK, RlStep, RlInvKept, PTL DEF RlSpec
<1>2. RateKept /\ NoStrandedWaiter => AdmissionExact
  BY DEF AdmissionExact
<1> QED  BY <1>1, <1>2, WaitersNotStranded, PTL
=============================================================================
