----------------------------- MODULE PoolProofs -----------------------------
(***************************************************************************)
(* Why a pool of payloads is exhausted before it repeats: the log of a run *)
(* is a row of full blocks, in each of which every payload occurs once,    *)
(* and a last one that holds different payloads.  Quotient and remainder   *)
(* of the length by the size of the pool say where the last block begins,  *)
(* so the proofs begin with what they do when the length grows by one.     *)
(***************************************************************************)
EXTENDS Lab, FiniteSetTheorems, TLAPS

(* Division with remainder, as the quotient and the remainder it gives.    *)
LEMMA DivMod ==
  ASSUME NEW n \in Nat, NEW m \in Nat \ {0}
  PROVE  /\ n % m \in 0..(m - 1)
         /\ n \div m \in Nat
         /\ n = m * (n \div m) + (n % m)
  BY Z3

(* They are the only ones.                                                 *)
LEMMA DivModUnique ==
  ASSUME NEW m \in Nat \ {0}, NEW q \in Nat, NEW r \in 0..(m - 1),
         NEW s \in Nat, NEW t \in 0..(m - 1), m * q + r = m * s + t
  PROVE  q = s /\ r = t
<1>1. ASSUME NEW a \in Nat, NEW b \in Nat, a < b PROVE m * a + m <= m * b
  <2>1. PICK d \in Nat : b = a + 1 + d
    <3>1. b - a - 1 \in Nat /\ b = a + 1 + (b - a - 1)
      BY <1>1
    <3> QED BY <3>1
  <2>2. m * b = m * a + m + m * d
    BY <2>1
  <2>3. m * d >= 0
    OBVIOUS
  <2> QED BY <2>2, <2>3
<1>2. ~ q < s
  BY <1>1
<1>3. ~ s < q
  BY <1>1
<1> QED BY <1>2, <1>3

(* One more: the remainder grows, or it is used up and the quotient does.  *)
LEMMA NextDivMod ==
  ASSUME NEW n \in Nat, NEW m \in Nat \ {0}
  PROVE  IF (n % m) + 1 = m
         THEN (n + 1) % m = 0 /\ (n + 1) \div m = n \div m + 1
         ELSE (n + 1) % m = (n % m) + 1 /\ (n + 1) \div m = n \div m
<1>1. PICK q \in Nat, r \in 0..(m - 1) :
        q = n \div m /\ r = n % m /\ n = m * q + r
  BY DivMod
<1>2. PICK s \in Nat, t \in 0..(m - 1) :
        s = (n + 1) \div m /\ t = (n + 1) % m /\ n + 1 = m * s + t
  BY DivMod
<1>3. CASE r + 1 = m
  <2>1. m * (q + 1) + 0 = m * s + t
    BY <1>1, <1>2, <1>3
  <2>2. q + 1 = s /\ 0 = t
    BY <2>1, DivModUnique
  <2> QED BY <1>1, <1>2, <1>3, <2>2
<1>4. CASE r + 1 # m
  <2>1. m * q + (r + 1) = m * s + t /\ r + 1 \in 0..(m - 1)
    BY <1>1, <1>2, <1>4
  <2>2. q = s /\ r + 1 = t
    BY <2>1, DivModUnique
  <2> QED BY <1>1, <1>2, <1>4, <2>2
<1> QED BY <1>3, <1>4

(* What Append does to a sequence, all of it.                              *)
LEMMA Appended ==
  ASSUME NEW E, NEW s \in Seq(E), NEW x \in E
  PROVE  /\ Append(s, x) \in Seq(E)
         /\ Len(s) \in Nat /\ DOMAIN s = 1..Len(s)
         /\ Len(Append(s, x)) = Len(s) + 1
         /\ DOMAIN Append(s, x) = 1..(Len(s) + 1)
         /\ \A i \in 1..Len(s) : Append(s, x)[i] = s[i] /\ s[i] \in E
         /\ Append(s, x)[Len(s) + 1] = x
  OBVIOUS

(* The pool is not empty.                                                  *)
LEMMA PoolSize == Cardinality(Payloads) \in Nat \ {0}
  BY PoolAssumption, FS_CardinalityType, FS_EmptySet

(* A draw can be anything that the block begun last does not hold yet.     *)
LEMMA FreshIsOutsideBlock ==
  ASSUME NEW E, NEW s \in Seq(E), \A e \in E : e.payload \in Payloads
  PROVE  Fresh(s) = Payloads \ Block(s)
<1> DEFINE n == Len(s)
           begun == n - (n % Cardinality(Payloads))
<1>1. n \in Nat /\ begun \in 0..n /\ DOMAIN s = 1..n
  <2>1. n \in Nat /\ DOMAIN s = 1..n
    OBVIOUS
  <2>2. PICK m \in Nat \ {0} : m = Cardinality(Payloads)
    BY PoolSize
  <2>3. PICK q \in Nat, r \in 0..(m - 1) : n = m * q + r /\ r = n % m
    BY <2>1, DivMod
  <2>4. PICK k \in Nat : n = k + r
    <3>1. m * q \in Nat
      OBVIOUS
    <3> QED BY <2>3, <3>1
  <2> HIDE DEF n
  <2>5. n - r \in 0..n
    BY <2>1, <2>4
  <2> QED BY <2>1, <2>2, <2>3, <2>5
<1>2. Chosen(s) \in Seq(Payloads) /\ Len(Chosen(s)) = n
      /\ \A i \in 1..n : Chosen(s)[i] = s[i].payload
  BY <1>1 DEF Chosen
<1> HIDE DEF n, begun
<1>3. Range(SubSeq(Chosen(s), begun + 1, n)) = {s[i].payload : i \in (begun + 1)..n}
  <2>1. Len(SubSeq(Chosen(s), begun + 1, n)) = n - begun
        /\ DOMAIN SubSeq(Chosen(s), begun + 1, n) = 1..(n - begun)
    BY <1>1, <1>2
  <2>2. \A i \in 1..(n - begun) :
          SubSeq(Chosen(s), begun + 1, n)[i] = s[begun + i].payload
    BY <1>1, <1>2
  <2>3. \A i \in (begun + 1)..n : i - begun \in 1..(n - begun) /\ begun + (i - begun) = i
    BY <1>1
  <2> DEFINE sub == SubSeq(Chosen(s), begun + 1, n)
  <2>5. Range(sub) = {sub[i] : i \in 1..(n - begun)}
    BY <2>1 DEF Range
  <2>6. \A i \in 1..(n - begun) : begun + i \in (begun + 1)..n /\ sub[i] = s[begun + i].payload
    BY <1>1, <2>2
  <2>7. \A i \in (begun + 1)..n : i - begun \in 1..(n - begun) /\ s[i].payload = sub[i - begun]
    <3> SUFFICES ASSUME NEW i \in (begun + 1)..n
                 PROVE  i - begun \in 1..(n - begun) /\ s[i].payload = sub[i - begun]
      OBVIOUS
    <3> QED BY <2>2, <2>3
  <2> HIDE DEF sub
  <2>8. Range(sub) \subseteq {s[i].payload : i \in (begun + 1)..n}
    BY <2>5, <2>6
  <2>9. {s[i].payload : i \in (begun + 1)..n} \subseteq Range(sub)
    BY <2>5, <2>7
  <2> QED BY <2>8, <2>9 DEF sub
<1> QED BY <1>3 DEF Fresh, Block, n, begun

(* A draw is one more use of its payload and no other.                     *)
LEMMA UsesAppended ==
  ASSUME NEW E, NEW s \in Seq(E), NEW x \in E, NEW p
  PROVE  /\ Uses(s, p) \in Nat
         /\ Uses(Append(s, x), p) = Uses(s, p) + IF x.payload = p THEN 1 ELSE 0
<1> DEFINE Places(t) == {i \in DOMAIN t : t[i].payload = p}
<1>1. IsFiniteSet(Places(s)) /\ Cardinality(Places(s)) \in Nat
  <2>1. IsFiniteSet(1..Len(s)) /\ Places(s) \in SUBSET (1..Len(s))
    <3>1. Len(s) \in Int /\ 1 \in Int /\ DOMAIN s = 1..Len(s)
      BY Appended
    <3>2. IsFiniteSet(1..Len(s))
      BY <3>1, FS_Interval
    <3> QED BY <3>1, <3>2
  <2> QED BY <2>1, FS_Subset, FS_CardinalityType
<1>2. Places(Append(s, x)) = IF x.payload = p THEN Places(s) \union {Len(s) + 1} ELSE Places(s)
  BY Appended
<1>3. Len(s) + 1 \notin Places(s)
  BY Appended
<1>4. Cardinality(Places(s) \union {Len(s) + 1}) = Cardinality(Places(s)) + 1
  BY <1>1, <1>3, FS_AddElement
<1> HIDE DEF Places
<1>5. Cardinality(Places(Append(s, x))) = Cardinality(Places(s)) + IF x.payload = p THEN 1 ELSE 0
  BY <1>1, <1>2, <1>4
<1> QED BY <1>1, <1>5 DEF Uses, Count, Places

(* A draw outside the block that is not yet full keeps the pool evenly     *)
(* used: the block grows, or it becomes full and a new one begins.         *)
LEMMA EvenlyUsedAppended ==
  ASSUME NEW E, NEW s \in Seq(E), \A e \in E : e.payload \in Payloads,
         NEW x \in E, x.payload \in Fresh(s), EvenlyUsed(s)
  PROVE  EvenlyUsed(Append(s, x))
<1> DEFINE n == Len(s)
           m == Cardinality(Payloads)
           r == n % m
           t == Append(s, x)
<1>1. n \in Nat /\ m \in Nat \ {0} /\ Len(t) = n + 1 /\ t \in Seq(E)
  BY PoolSize, Appended
<1>2. r \in 0..(m - 1) /\ r <= n /\ n \div m \in Nat
  <2>1. PICK q \in Nat, k \in 0..(m - 1) : n = m * q + k /\ k = n % m /\ q = n \div m
    BY <1>1, DivMod
  <2>2. m * q \in Nat
    BY <1>1
  <2> QED BY <2>1, <2>2, <1>1
<1>3. x.payload \in Payloads \ Block(s)
  BY FreshIsOutsideBlock
<1>4. Block(s) \subseteq Payloads
  <2>1. \A i \in (n - r + 1)..n : i \in 1..n /\ s[i] \in E
    BY <1>1, <1>2, Appended
  <2> QED BY <2>1 DEF Block
<1>5. IsFiniteSet(Block(s)) /\ Cardinality(Block(s)) = r
  BY <1>4, PoolAssumption, FS_Subset DEF EvenlyUsed
<1>6. Cardinality(Block(s) \union {x.payload}) = r + 1
  BY <1>3, <1>5, FS_AddElement
<1>7. ASSUME NEW p \in Payloads
      PROVE  /\ Uses(s, p) = (n \div m) + IF p \in Block(s) THEN 1 ELSE 0
             /\ Uses(t, p) = Uses(s, p) + IF x.payload = p THEN 1 ELSE 0
  BY UsesAppended DEF EvenlyUsed
<1>8. Block(s) = {s[i].payload : i \in (n - r + 1)..n}
  BY DEF Block
<1>9. Block(t) = {t[i].payload : i \in ((n + 1) - ((n + 1) % m) + 1)..(n + 1)}
  BY <1>1 DEF Block
<1>10. EvenlyUsed(t) <=>
         /\ Cardinality(Block(t)) = (n + 1) % m
         /\ \A p \in Payloads :
              Uses(t, p) = ((n + 1) \div m) + IF p \in Block(t) THEN 1 ELSE 0
  BY <1>1 DEF EvenlyUsed
<1>11. CASE r + 1 = m
  <2>1. (n + 1) % m = 0 /\ (n + 1) \div m = (n \div m) + 1
    BY <1>1, <1>11, NextDivMod
  <2>2. ((n + 1) - ((n + 1) % m) + 1)..(n + 1) = {}
    BY <1>1, <2>1
  <2>3. Block(t) = {}
    BY <1>9, <2>2
  <2>4. Block(s) \union {x.payload} = Payloads
    BY <1>3, <1>4, <1>6, <1>11, PoolAssumption, FS_Subset
  <2>5. ASSUME NEW p \in Payloads
        PROVE  Uses(t, p) = ((n + 1) \div m) + IF p \in Block(t) THEN 1 ELSE 0
    <3>1. (p \in Block(s) /\ x.payload # p) \/ (p \notin Block(s) /\ x.payload = p)
      BY <1>3, <2>4
    <3> QED BY <1>2, <1>7, <2>1, <2>3, <3>1
  <2> QED BY <1>10, <2>1, <2>3, <2>5, FS_EmptySet
<1>12. CASE r + 1 # m
  <2>1. (n + 1) % m = r + 1 /\ (n + 1) \div m = n \div m
    BY <1>1, <1>12, NextDivMod
  <2>2. (n + 1) - ((n + 1) % m) + 1 = n - r + 1
    BY <1>1, <1>2, <2>1
  <2>3. Block(t) = Block(s) \union {x.payload}
    <3>1. (n - r + 1)..(n + 1) = ((n - r + 1)..n) \union {n + 1}
      BY <1>1, <1>2
    <3>2. \A i \in (n - r + 1)..n : t[i] = s[i]
      BY <1>1, <1>2, Appended
    <3>3. t[n + 1] = x
      BY Appended
    <3> DEFINE A == (n - r + 1)..n
    <3>4. Block(t) = {t[i].payload : i \in A \union {n + 1}}
      BY <1>9, <2>2, <3>1
    <3>5. Block(s) = {s[i].payload : i \in A} /\ \A i \in A : t[i] = s[i]
      BY <1>8, <3>2
    <3> HIDE DEF A, n, r, t
    <3> QED BY <3>3, <3>4, <3>5
  <2>4. ASSUME NEW p \in Payloads
        PROVE  Uses(t, p) = ((n + 1) \div m) + IF p \in Block(t) THEN 1 ELSE 0
    <3>1. p \in Block(s) => x.payload # p
      BY <1>3
    <3> QED BY <1>2, <1>7, <2>1, <2>3, <3>1
  <2> QED BY <1>6, <1>10, <2>1, <2>3, <2>4
<1> QED BY <1>11, <1>12

=============================================================================
