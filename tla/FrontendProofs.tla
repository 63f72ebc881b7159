--------------------------- MODULE FrontendProofs ---------------------------
(***************************************************************************)
(* Proofs about the frontend, for any pages, data and bounds and for users *)
(* patient or not: what holds of a page, by the theorems about its module  *)
(* or by those proved here, holds of the browser while it shows that page. *)
(***************************************************************************)
EXTENDS Frontend, Requests, FiniteSetTheorems, FunctionTheorems, TLAPS

LEMMA PagesFit ==
    /\ AccountsTab!ConstantsFit /\ AccountForm!ConstantsFit /\ Explorer!ConstantsFit
    /\ AlertRows!ConstantsFit /\ RuleRows!ConstantsFit /\ AlertsRoute!ConstantsFit
    /\ MuteMenu!ConstantsFit /\ AssetsRoute!ConstantsFit
    /\ ComplianceRoute!ConstantsFit /\ ComplianceRoute!FewRules
  BY FrontendAssumption

-----------------------------------------------------------------------------
(* Orders, and sequences that are sorted by them.                          *)

(* Those of T that stand before x.                                         *)
Before(x, T, R) == {y \in T : <<y, x>> \in R}

(* A strict total order R on a finite set T.                               *)
IsOrder(T, R) ==
    /\ IsFiniteSet(T)
    /\ \A x \in T : <<x, x>> \notin R
    /\ \A x, y, z \in T : <<x, y>> \in R /\ <<y, z>> \in R => <<x, z>> \in R
    /\ \A x, y \in T : x = y \/ <<x, y>> \in R \/ <<y, x>> \in R

(* More stand before a later one.                                          *)
LEMMA BeforeGrows ==
  ASSUME NEW T, NEW R, IsOrder(T, R), NEW x \in T, NEW y \in T, <<x, y>> \in R
  PROVE  Cardinality(Before(x, T, R)) < Cardinality(Before(y, T, R))
  <1> DEFINE X == Before(x, T, R)
             Y == Before(y, T, R)
  <1>1. IsFiniteSet(T)
    BY DEF IsOrder
  <1>2. Y \in SUBSET T /\ X \in SUBSET Y /\ X # Y
    BY DEF IsOrder, Before
  <1> HIDE DEF X, Y
  <1>3. IsFiniteSet(Y) /\ IsFiniteSet(X)
    BY <1>1, <1>2, FS_Subset
  <1>4. Cardinality(X) <= Cardinality(Y) /\ Cardinality(X) # Cardinality(Y)
    BY <1>2, <1>3, FS_Subset
  <1>5. Cardinality(X) \in Nat /\ Cardinality(Y) \in Nat
    BY <1>3, FS_CardinalityType
  <1> QED
    BY <1>4, <1>5 DEF X, Y

LEMMA BeforeFinite ==
  ASSUME NEW T, NEW R, IsOrder(T, R), NEW x \in T
  PROVE  Cardinality(Before(x, T, R)) \in Nat
  <1>1. IsFiniteSet(T) /\ Before(x, T, R) \in SUBSET T
    BY DEF IsOrder, Before
  <1> QED
    BY <1>1, FS_Subset, FS_CardinalityType

(* No two have the same number before them,                                *)
LEMMA PlacesDiffer ==
  ASSUME NEW T, NEW R, IsOrder(T, R), NEW x \in T, NEW y \in T, x # y
  PROVE  Cardinality(Before(x, T, R)) # Cardinality(Before(y, T, R))
  <1>1. \/ Cardinality(Before(x, T, R)) < Cardinality(Before(y, T, R))
        \/ Cardinality(Before(y, T, R)) < Cardinality(Before(x, T, R))
    BY BeforeGrows DEF IsOrder
  <1>2. /\ Cardinality(Before(x, T, R)) \in Nat /\ Cardinality(Before(y, T, R)) \in Nat
    BY BeforeFinite
  <1> QED
    BY <1>1, <1>2

(* which leaves as many places as there are members,                       *)
LEMMA BeforeBounded ==
  ASSUME NEW T, NEW R, IsOrder(T, R), NEW x \in T
  PROVE  Cardinality(Before(x, T, R)) + 1 \in 1 .. Cardinality(T)
  <1> DEFINE X == Before(x, T, R)
  <1>1. IsFiniteSet(T)
    BY DEF IsOrder
  <1>2. X \in SUBSET T /\ X # T
    BY DEF IsOrder, Before
  <1> HIDE DEF X
  <1>3. IsFiniteSet(X) /\ Cardinality(X) <= Cardinality(T) /\ Cardinality(X) # Cardinality(T)
    BY <1>1, <1>2, FS_Subset
  <1>4. Cardinality(X) \in Nat /\ Cardinality(T) \in Nat
    BY <1>1, <1>3, FS_CardinalityType
  <1> QED
    BY <1>3, <1>4 DEF X

(* and so each place has its member,                                       *)
LEMMA EveryPlaceIsTaken ==
  ASSUME NEW T, NEW R, IsOrder(T, R), NEW i \in 1 .. Cardinality(T)
  PROVE  \E x \in T : Cardinality(Before(x, T, R)) = i - 1
  <1> DEFINE place == [x \in T |-> Cardinality(Before(x, T, R)) + 1]
             N == 1 .. Cardinality(T)
  <1>1. IsFiniteSet(T) /\ Cardinality(T) \in Nat
    BY FS_CardinalityType DEF IsOrder
  <1>2. place \in [T -> N]
    BY BeforeBounded
  <1>3. \A x, y \in T : place[x] = place[y] => x = y
    <2> SUFFICES ASSUME NEW x \in T, NEW y \in T, x # y PROVE place[x] # place[y]
      OBVIOUS
    <2>1. /\ Cardinality(Before(x, T, R)) \in Nat /\ Cardinality(Before(y, T, R)) \in Nat
      BY BeforeFinite
    <2> QED
      BY <2>1, PlacesDiffer
  <1>4. place \in Injection(T, N)
    BY <1>2, <1>3, Fun_IsInj
  <1>5. IsFiniteSet(N) /\ Cardinality(N) = Cardinality(T)
    BY <1>1, FS_Interval
  <1>6. place \in Surjection(T, N)
    BY <1>4, <1>5, FS_Injection
  <1>7. PICK x \in T : place[x] = i
    BY <1>6 DEF Surjection
  <1>8. Cardinality(Before(x, T, R)) \in Nat /\ place[x] = Cardinality(Before(x, T, R)) + 1
    BY BeforeFinite
  <1> QED
    BY <1>7, <1>8

(* and a sequence by these places lists the set in its order.              *)
LEMMA SortedByPlace ==
  ASSUME NEW T, NEW R, IsOrder(T, R), NEW s, DOMAIN s = 1 .. Cardinality(T),
         \A i \in DOMAIN s : s[i] \in T /\ Cardinality(Before(s[i], T, R)) = i - 1
  PROVE  /\ {s[i] : i \in DOMAIN s} = T
         /\ \A i, j \in DOMAIN s : i < j => <<s[i], s[j]>> \in R
  <1>1. Cardinality(T) \in Nat
    BY FS_CardinalityType DEF IsOrder
  <1>2. ASSUME NEW i \in DOMAIN s, NEW j \in DOMAIN s, i < j
        PROVE  <<s[i], s[j]>> \in R
    <2>1. Cardinality(Before(s[i], T, R)) < Cardinality(Before(s[j], T, R))
      BY <1>1, <1>2
    <2>2. s[i] \in T /\ s[j] \in T
      OBVIOUS
    <2>3. ~ Cardinality(Before(s[j], T, R)) < Cardinality(Before(s[i], T, R)) /\ s[i] # s[j]
      BY <2>1, <1>1, <1>2
    <2> QED
      BY <2>2, <2>3, BeforeGrows DEF IsOrder
  <1>3. ASSUME NEW x \in T
        PROVE  \E i \in DOMAIN s : s[i] = x
    <2>1. PICK i \in DOMAIN s : i = Cardinality(Before(x, T, R)) + 1
      BY BeforeBounded
    <2>2. Cardinality(Before(x, T, R)) \in Nat
      BY BeforeFinite
    <2>3. s[i] \in T /\ Cardinality(Before(s[i], T, R)) = Cardinality(Before(x, T, R))
      BY <2>1, <2>2
    <2> QED
      BY <2>3, PlacesDiffer
  <1> QED
    BY <1>2, <1>3

(* Rows by a key, those of equal key by their place.                       *)
ByKey(T, k) ==
    {p \in T \X T : k[p[1]] < k[p[2]] \/ (k[p[1]] = k[p[2]] /\ p[1].place < p[2].place)}

LEMMA KeyOrder ==
  ASSUME NEW T, IsFiniteSet(T), NEW k, \A x \in T : k[x] \in Int /\ x.place \in Int,
         \A x, y \in T : x.place = y.place => x = y
  PROVE  IsOrder(T, ByKey(T, k))
  <1>1. \A x, y \in T : <<x, y>> \in ByKey(T, k) <=>
            k[x] < k[y] \/ (k[x] = k[y] /\ x.place < y.place)
    BY DEF ByKey
  <1>2. ASSUME NEW x \in T, NEW y \in T, NEW z \in T,
               <<x, y>> \in ByKey(T, k), <<y, z>> \in ByKey(T, k)
        PROVE  <<x, z>> \in ByKey(T, k)
    <2> DEFINE a == k[x]
               b == k[y]
               c == k[z]
               d == x.place
               e == y.place
               f == z.place
    <2>1. a \in Int /\ b \in Int /\ c \in Int /\ d \in Int /\ e \in Int /\ f \in Int
      OBVIOUS
    <2>2. (a < b \/ (a = b /\ d < e)) /\ (b < c \/ (b = c /\ e < f))
      BY <1>1, <1>2
    <2> HIDE DEF a, b, c, d, e, f
    <2>3. a < c \/ (a = c /\ d < f)
      BY <2>1, <2>2
    <2> USE DEF a, b, c, d, e, f
    <2> QED
      BY <1>1, <2>3
  <1>3. ASSUME NEW x \in T, NEW y \in T
        PROVE  x = y \/ <<x, y>> \in ByKey(T, k) \/ <<y, x>> \in ByKey(T, k)
    <2> DEFINE a == k[x]
               b == k[y]
               d == x.place
               e == y.place
    <2>1. a \in Int /\ b \in Int /\ d \in Int /\ e \in Int /\ (d = e => x = y)
      OBVIOUS
    <2>2. a < b \/ b < a \/ (a = b /\ (d < e \/ e < d \/ d = e))
      <3> HIDE DEF a, b, d, e
      <3> QED
        BY <2>1
    <2> QED
      BY <1>1, <2>1, <2>2
  <1>4. ASSUME NEW x \in T PROVE <<x, x>> \notin ByKey(T, k)
    <2> DEFINE a == k[x]
               d == x.place
    <2>1. a \in Int /\ d \in Int
      OBVIOUS
    <2>2. ~ (a < a \/ (a = a /\ d < d))
      <3> HIDE DEF a, d
      <3> QED
        BY <2>1
    <2> QED
      BY <1>1, <2>2
  <1> QED
    BY <1>2, <1>3, <1>4 DEF IsOrder

-----------------------------------------------------------------------------
(* Requests under way.                                                     *)

(* Bags of requests.                                                       *)
LEMMA BagDifference ==
  ASSUME NEW B, IsABag(B), NEW C, IsABag(C)
  PROVE  DOMAIN (B (-) C) = {x \in DOMAIN B : x \in DOMAIN C => B[x] > C[x]}
  BY DEF IsABag, (-)

LEMMA NothingNew ==
  ASSUME NEW B, IsABag(B)
  PROVE  BagToSet(B (-) B) = {}
  <1>1. \A x \in DOMAIN B : ~ B[x] > B[x]
    BY DEF IsABag
  <1> QED
    BY <1>1, BagDifference DEF BagToSet

(* What one more request changes.                                          *)
LEMMA OneMore ==
  ASSUME NEW B, IsABag(B), NEW p
  PROVE  /\ IsABag(B (+) SetToBag({p}))
         /\ BagToSet(B (+) SetToBag({p})) = BagToSet(B) \cup {p}
         /\ BagToSet((B (+) SetToBag({p})) (-) B) = {p}
         /\ BagToSet(B (-) (B (+) SetToBag({p}))) = {}
  <1> DEFINE C == B (+) SetToBag({p})
  <1>1. /\ DOMAIN C = DOMAIN B \cup {p}
        /\ \A x \in DOMAIN B : B[x] \in Nat /\ B[x] > 0
        /\ \A x \in DOMAIN B : C[x] = IF x = p THEN B[x] + 1 ELSE B[x]
        /\ p \notin DOMAIN B => C[p] = 1
    BY DEF IsABag, (+), SetToBag
  <1>2. C = [x \in DOMAIN C |-> C[x]]
    BY DEF (+)
  <1> HIDE DEF C
  <1>3. IsABag(C)
    <2>1. \A x \in DOMAIN C : C[x] \in {n \in Nat : n > 0}
      BY <1>1
    <2> QED
      BY <2>1, <1>2 DEF IsABag
  <1>4. BagToSet(C (-) B) = {p}
    <2>1. \A x \in DOMAIN C : (x \in DOMAIN B => C[x] > B[x]) <=> x = p
      BY <1>1
    <2> QED
      BY <1>1, <2>1, <1>3, BagDifference DEF BagToSet
  <1>5. BagToSet(B (-) C) = {}
    <2>1. \A x \in DOMAIN B : x \in DOMAIN C /\ ~ B[x] > C[x]
      BY <1>1
    <2> QED
      BY <2>1, <1>3, BagDifference DEF BagToSet
  <1> QED
    BY <1>1, <1>3, <1>4, <1>5 DEF C, BagToSet

(* What one request less changes.                                          *)
LEMMA OneLess ==
  ASSUME NEW B, IsABag(B), NEW p \in BagToSet(B)
  PROVE  /\ IsABag(B (-) SetToBag({p}))
         /\ BagToSet(B (-) SetToBag({p})) \subseteq BagToSet(B)
         /\ BagToSet(B) \subseteq BagToSet(B (-) SetToBag({p})) \cup {p}
         /\ BagToSet((B (-) SetToBag({p})) (-) B) = {}
         /\ BagToSet(B (-) (B (-) SetToBag({p}))) = {p}
  <1> DEFINE C == B (-) SetToBag({p})
  <1>1. /\ DOMAIN C = {x \in DOMAIN B : x = p => B[x] > 1}
        /\ \A x \in DOMAIN B : B[x] \in Nat /\ B[x] > 0
        /\ \A x \in DOMAIN C : C[x] = IF x = p THEN B[x] - 1 ELSE B[x]
    BY DEF IsABag, (-), SetToBag
  <1>2. C = [x \in DOMAIN C |-> C[x]]
    BY DEF (-)
  <1>3. p \in DOMAIN B
    BY DEF BagToSet
  <1> HIDE DEF C
  <1>4. IsABag(C)
    <2>1. \A x \in DOMAIN C : C[x] \in {n \in Nat : n > 0}
      BY <1>1
    <2> QED
      BY <2>1, <1>2 DEF IsABag
  <1>5. BagToSet(C (-) B) = {}
    <2>1. \A x \in DOMAIN C : x \in DOMAIN B /\ ~ C[x] > B[x]
      BY <1>1
    <2> QED
      BY <2>1, <1>4, BagDifference DEF BagToSet
  <1>6. BagToSet(B (-) C) = {p}
    BY <1>1, <1>3, <1>4, BagDifference DEF BagToSet
  <1> QED
    BY <1>1, <1>3, <1>4, <1>5, <1>6 DEF C, BagToSet

LEMMA OneAlone ==
  /\ IsABag(EmptyBag) /\ BagToSet(EmptyBag) = {}
  /\ \A p : /\ IsABag(SetToBag({p})) /\ BagToSet(SetToBag({p})) = {p}
            /\ SetToBag({p}) # EmptyBag
            /\ SetToBag({p}) (-) SetToBag({p}) = EmptyBag
            /\ EmptyBag (+) SetToBag({p}) = SetToBag({p})
  BY DEF IsABag, EmptyBag, SetToBag, BagToSet, (-), (+)

LEMMA NoCopies == Copies(EmptyBag) = {}
  BY DEF Copies, EmptyBag, SetToBag

LEMMA CopiesOfOne ==
  ASSUME NEW p
  PROVE  Copies(SetToBag({p})) = {<<p, 1>>}
  <1>1. DOMAIN SetToBag({p}) = {p} /\ SetToBag({p})[p] = 1
    BY DEF SetToBag
  <1>2. 1 .. 1 = {1}
    OBVIOUS
  <1> QED
    BY <1>1, <1>2 DEF Copies

(* One more request has one more copy.                                     *)
LEMMA OneMoreCopy ==
  ASSUME NEW B, IsABag(B), NEW p
  PROVE  \E c : c \notin Copies(B) /\ Copies(B (+) SetToBag({p})) = Copies(B) \cup {c}
  <1> DEFINE C == B (+) SetToBag({p})
             n == IF p \in DOMAIN B THEN B[p] ELSE 0
  <1>1. /\ DOMAIN C = DOMAIN B \cup {p}
        /\ \A x \in DOMAIN B : B[x] \in Nat /\ B[x] > 0
        /\ \A x \in DOMAIN B : C[x] = IF x = p THEN B[x] + 1 ELSE B[x]
        /\ p \notin DOMAIN B => C[p] = 1
    BY DEF IsABag, (+), SetToBag
  <1>2. n \in Nat /\ C[p] = n + 1
    BY <1>1
  <1> HIDE DEF C, n
  <1>3. 1 .. (n + 1) = (1 .. n) \cup {n + 1} /\ n + 1 \notin 1 .. n
    BY <1>2
  <1>4. \A c : c \in Copies(B) <=> \E x \in DOMAIN B : \E i \in 1 .. B[x] : c = <<x, i>>
    BY DEF Copies
  <1>5. \A c : c \in Copies(C) <=> \E x \in DOMAIN C : \E i \in 1 .. C[x] : c = <<x, i>>
    BY DEF Copies
  <1>6. <<p, n + 1>> \notin Copies(B)
    <2> SUFFICES ASSUME <<p, n + 1>> \in Copies(B) PROVE FALSE
      OBVIOUS
    <2>1. PICK x, i : x \in DOMAIN B /\ i \in 1 .. B[x] /\ <<p, n + 1>> = <<x, i>>
      BY <1>4
    <2>2. p \in DOMAIN B /\ n + 1 \in 1 .. B[p]
      BY <2>1
    <2> QED
      BY <2>2, <1>3 DEF n
  <1>7. \A c : c \in Copies(C) <=> c \in Copies(B) \cup {<<p, n + 1>>}
    <2> TAKE c
    <2>1. ASSUME c \in Copies(C) PROVE c \in Copies(B) \cup {<<p, n + 1>>}
      <3>1. PICK x, i : x \in DOMAIN C /\ i \in 1 .. C[x] /\ c = <<x, i>>
        BY <2>1, <1>5
      <3>2. CASE x # p
        <4>1. x \in DOMAIN B /\ C[x] = B[x]
          BY <1>1, <3>1, <3>2
        <4>2. i \in 1 .. B[x] /\ c = <<x, i>>
          BY <3>1, <4>1
        <4> QED
          BY <4>1, <4>2, <1>4
      <3>3. CASE x = p
        <4>1. i \in (1 .. n) \cup {n + 1}
          BY <1>2, <1>3, <3>1, <3>3
        <4>2. CASE i = n + 1
          BY <3>1, <3>3, <4>2
        <4>3. CASE i \in 1 .. n
          <5>1. p \in DOMAIN B /\ i \in 1 .. B[p]
            BY <4>3 DEF n
          <5> QED
            BY <5>1, <3>1, <3>3, <1>4
        <4> QED
          BY <4>1, <4>2, <4>3
      <3> QED
        BY <3>2, <3>3
    <2>2. ASSUME c \in Copies(B) PROVE c \in Copies(C)
      <3>1. PICK x, i : x \in DOMAIN B /\ i \in 1 .. B[x] /\ c = <<x, i>>
        BY <2>2, <1>4
      <3>2. x \in DOMAIN C /\ i \in 1 .. C[x]
        BY <3>1, <1>1
      <3> QED
        BY <3>1, <3>2, <1>5
    <2>3. <<p, n + 1>> \in Copies(C)
      <3>1. p \in DOMAIN C /\ n + 1 \in 1 .. C[p]
        BY <1>1, <1>2
      <3> QED
        BY <3>1, <1>5
    <2> QED
      BY <2>1, <2>2, <2>3
  <1>8. Copies(C) = Copies(B) \cup {<<p, n + 1>>}
    BY <1>7
  <1> QED
    BY <1>6, <1>8 DEF C

(* One request less has one copy less.                                     *)
LEMMA OneCopyLess ==
  ASSUME NEW B, IsABag(B), NEW p \in BagToSet(B)
  PROVE  \E c \in Copies(B) : Copies(B (-) SetToBag({p})) = Copies(B) \ {c}
  <1> DEFINE C == B (-) SetToBag({p})
             n == B[p]
  <1>1. /\ DOMAIN C = {x \in DOMAIN B : x = p => B[x] > 1}
        /\ p \in DOMAIN B /\ \A x \in DOMAIN B : B[x] \in Nat /\ B[x] > 0
        /\ \A x \in DOMAIN C : C[x] = IF x = p THEN B[x] - 1 ELSE B[x]
    <2>1. \A x \in DOMAIN B : B[x] \in Nat /\ B[x] > 0
      BY DEF IsABag
    <2>2. p \in DOMAIN B
      BY DEF BagToSet
    <2>3. DOMAIN SetToBag({p}) = {p} /\ SetToBag({p})[p] = 1
      BY DEF SetToBag
    <2> QED
      BY <2>1, <2>2, <2>3 DEF (-)
  <1>2. n \in Nat /\ n > 0
    BY <1>1
  <1> HIDE DEF C
  <1>4. \A c : c \in Copies(B) <=> \E x \in DOMAIN B : \E i \in 1 .. B[x] : c = <<x, i>>
    BY DEF Copies
  <1>5. \A c : c \in Copies(C) <=> \E x \in DOMAIN C : \E i \in 1 .. C[x] : c = <<x, i>>
    BY DEF Copies
  <1>6. <<p, n>> \in Copies(B)
    <2>1. n \in 1 .. B[p]
      BY <1>2
    <2> QED
      BY <2>1, <1>1, <1>4
  <1>7. \A c : c \in Copies(C) <=> c \in Copies(B) \ {<<p, n>>}
    <2> TAKE c
    <2>1. ASSUME c \in Copies(C) PROVE c \in Copies(B) \ {<<p, n>>}
      <3>1. PICK x, i : x \in DOMAIN C /\ i \in 1 .. C[x] /\ c = <<x, i>>
        BY <2>1, <1>5
      <3>2. x \in DOMAIN B /\ i \in 1 .. B[x] /\ (x = p => i # n)
        BY <3>1, <1>1
      <3> QED
        BY <3>1, <3>2, <1>4
    <2>2. ASSUME c \in Copies(B), c # <<p, n>> PROVE c \in Copies(C)
      <3>1. PICK x, i : x \in DOMAIN B /\ i \in 1 .. B[x] /\ c = <<x, i>>
        BY <2>2, <1>4
      <3>2. CASE x # p
        <4>1. x \in DOMAIN C /\ C[x] = B[x]
          BY <1>1, <3>1, <3>2
        <4>2. i \in 1 .. C[x] /\ c = <<x, i>>
          BY <3>1, <4>1
        <4> QED
          BY <4>1, <4>2, <1>5
      <3>3. CASE x = p
        <4>1. i # n /\ i \in 1 .. n
          BY <2>2, <3>1, <3>3
        <4>2. n > 1 /\ i \in 1 .. (n - 1)
          BY <4>1, <1>2
        <4>3. p \in DOMAIN C /\ C[p] = n - 1
          BY <4>2, <1>1
        <4> QED
          BY <3>1, <3>3, <4>2, <4>3, <1>5
      <3> QED
        BY <3>2, <3>3
    <2> QED
      BY <2>1, <2>2
  <1>8. Copies(C) = Copies(B) \ {<<p, n>>}
    BY <1>7
  <1> QED
    BY <1>6, <1>8 DEF C

(* At most n requests are under way.                                       *)
Few(requests, n) == IsFiniteSet(Copies(requests)) /\ UnderWay(requests) <= n

LEMMA FewAlone ==
  ASSUME NEW n \in Nat
  PROVE  Few(EmptyBag, n) /\ (n > 0 => \A p : Few(SetToBag({p}), n))
  <1>1. Few(EmptyBag, n)
    <2>1. Copies(EmptyBag) = {} /\ IsFiniteSet({}) /\ Cardinality({}) = 0
      BY NoCopies, FS_EmptySet
    <2>2. IsFiniteSet(Copies(EmptyBag)) /\ Cardinality(Copies(EmptyBag)) = 0
      BY <2>1
    <2> QED
      BY <2>2 DEF Few, UnderWay
  <1>2. ASSUME n > 0, NEW p PROVE Few(SetToBag({p}), n)
    <2>1. Copies(SetToBag({p})) = {<<p, 1>>}
      BY CopiesOfOne
    <2>2. IsFiniteSet({<<p, 1>>}) /\ Cardinality({<<p, 1>>}) = 1
      BY FS_Singleton, Zenon
    <2>3. IsFiniteSet(Copies(SetToBag({p}))) /\ Cardinality(Copies(SetToBag({p}))) = 1
      BY <2>1, <2>2
    <2> QED
      BY <1>2, <2>3 DEF Few, UnderWay
  <1> QED
    BY <1>1, <1>2

LEMMA FewMore ==
  ASSUME NEW B, IsABag(B), NEW p, NEW n \in Nat, Few(B, n), UnderWay(B) < n
  PROVE  Few(B (+) SetToBag({p}), n)
  <1> DEFINE S == Copies(B)
             T == Copies(B (+) SetToBag({p}))
  <1>1. PICK c : c \notin S /\ T = S \cup {c}
    BY OneMoreCopy
  <1>2. IsFiniteSet(S) /\ Cardinality(S) < n
    BY DEF Few, UnderWay
  <1>3. Few(B (+) SetToBag({p}), n) <=> IsFiniteSet(T) /\ Cardinality(T) <= n
    BY DEF Few, UnderWay
  <1> HIDE DEF S, T
  <1>4. Cardinality(S) \in Nat
    BY <1>2, FS_CardinalityType
  <1>5. IsFiniteSet(T) /\ Cardinality(T) = Cardinality(S) + 1
    BY <1>1, <1>2, FS_AddElement
  <1> QED
    BY <1>2, <1>3, <1>4, <1>5

LEMMA FewLess ==
  ASSUME NEW B, IsABag(B), NEW p \in BagToSet(B), NEW n \in Nat, Few(B, n)
  PROVE  Few(B (-) SetToBag({p}), n) /\ UnderWay(B (-) SetToBag({p})) < n
  <1> DEFINE S == Copies(B)
             T == Copies(B (-) SetToBag({p}))
  <1>1. PICK c \in S : T = S \ {c}
    BY OneCopyLess
  <1>2. IsFiniteSet(S) /\ Cardinality(S) <= n
    BY DEF Few, UnderWay
  <1>3. /\ Few(B (-) SetToBag({p}), n) <=> IsFiniteSet(T) /\ Cardinality(T) <= n
        /\ UnderWay(B (-) SetToBag({p})) = Cardinality(T)
    BY DEF Few, UnderWay
  <1> HIDE DEF S, T
  <1>4. Cardinality(S) \in Nat
    BY <1>2, FS_CardinalityType
  <1>5. IsFiniteSet(T) /\ Cardinality(T) = Cardinality(S) - 1
    BY <1>1, <1>2, FS_RemoveElement
  <1> QED
    BY <1>2, <1>3, <1>4, <1>5

-----------------------------------------------------------------------------
(* The page of rules.                                                      *)

(* The rank sort of the model is a sort.                                   *)
LEMMA RuleRowsSorted ==
  ASSUME NEW T, NEW R, IsOrder(T, R)
  PROVE  /\ DOMAIN RuleRows!Sorted(T, R) = 1 .. Cardinality(T)
         /\ {RuleRows!Sorted(T, R)[i] : i \in DOMAIN RuleRows!Sorted(T, R)} = T
         /\ \A i, j \in DOMAIN RuleRows!Sorted(T, R) : i < j =>
                <<RuleRows!Sorted(T, R)[i], RuleRows!Sorted(T, R)[j]>> \in R
  <1> DEFINE s == RuleRows!Sorted(T, R)
             count(S) == RuleRows!Cardinality(S)
             before(x) == {r \in T : <<r, x>> \in R}
             At(i) == CHOOSE x \in T : count(before(x)) = i - 1
  <1>1. \A S : count(S) = Cardinality(S)
    BY DEF Cardinality, RuleRows!Cardinality
  <1>2. s = [i \in 1 .. count(T) |-> At(i)]
    BY DEF RuleRows!Sorted
  <1> HIDE DEF count
  <1>3. ASSUME NEW i \in 1 .. Cardinality(T)
        PROVE  At(i) \in T /\ count(before(At(i))) = i - 1
    <2>1. \E x \in T : count(before(x)) = i - 1
      BY <1>1, EveryPlaceIsTaken DEF Before
    <2> QED
      BY <2>1
  <1> HIDE DEF s, At
  <1>4. DOMAIN s = 1 .. Cardinality(T) /\ \A i \in DOMAIN s : s[i] = At(i)
    BY <1>1, <1>2
  <1>5. \A i \in DOMAIN s : s[i] \in T /\ Cardinality(Before(s[i], T, R)) = i - 1
    BY <1>1, <1>3, <1>4 DEF Before
  <1>6. /\ {s[i] : i \in DOMAIN s} = T
        /\ \A i, j \in DOMAIN s : i < j => <<s[i], s[j]>> \in R
    BY <1>4, <1>5, SortedByPlace
  <1> QED
    BY <1>4, <1>6 DEF s

(* The rows that pass the filters.                                         *)
RuleMatches(D, f) ==
    RuleRows!searchFilterFn(
        RuleRows!risksFilterFn(RuleRows!severityFilterFn(RuleRows!AllRows(D), f.severity), f.risk),
        f.search)

LEMMA RuleRowsFinite ==
  ASSUME NEW D
  PROVE  /\ IsFiniteSet(RuleRows!AllRows(D))
         /\ \A row \in RuleRows!AllRows(D) :
               /\ row.place \in DOMAIN RulesListed /\ row.place \in Int
               /\ row.rule = RulesListed[row.place] /\ row.rule \in D
               /\ row.severity = ListedSeverity[row.rule]
               /\ row.severity \in RuleRows!Severities
         /\ \A x, y \in RuleRows!AllRows(D) : x.place = y.place => x = y
  <1> DEFINE I == {i \in DOMAIN RulesListed : RulesListed[i] \in D}
             Row(i) == [place |-> i, rule |-> RulesListed[i], severity |-> ListedSeverity[RulesListed[i]],
                        risks |-> ListedRisks[RulesListed[i]], words |-> ListedWords[RulesListed[i]]]
             row == [i \in I |-> Row(i)]
  <1>1. RuleRows!AllRows(D) = {Row(i) : i \in I}
    BY DEF RuleRows!AllRows
  <1>2. /\ RulesListed \in Seq(RuleRows!RuleSet)
        /\ ListedSeverity \in [RuleRows!RuleSet -> RuleRows!Severities]
    BY PagesFit DEF RuleRows!ConstantsFit
  <1>3. IsFiniteSet(DOMAIN RulesListed) /\ I \subseteq DOMAIN RulesListed /\ I \subseteq Int
    <2>1. DOMAIN RulesListed = 1 .. Len(RulesListed) /\ Len(RulesListed) \in Nat
      BY <1>2
    <2> HIDE DEF I
    <2>2. IsFiniteSet(1 .. Len(RulesListed))
      BY <2>1, FS_Interval
    <2> USE DEF I
    <2> QED
      BY <2>1, <2>2
  <1>4. IsFiniteSet({Row(i) : i \in I})
    <2> HIDE DEF Row
    <2>1. row \in Surjection(I, {Row(i) : i \in I})
      BY Fun_IsSurj
    <2>2. IsFiniteSet(I)
      BY <1>3, FS_Subset
    <2> HIDE DEF row, I
    <2> QED
      BY <2>1, <2>2, FS_Surjection
  <1>5. \A i \in DOMAIN RulesListed : ListedSeverity[RulesListed[i]] \in RuleRows!Severities
    BY <1>2
  <1>6. \A x \in {Row(i) : i \in I} :
               /\ x.place \in DOMAIN RulesListed /\ x.place \in Int
               /\ x.rule = RulesListed[x.place] /\ x.rule \in D
               /\ x.severity = ListedSeverity[x.rule]
               /\ x.severity \in RuleRows!Severities
    BY <1>3, <1>5
  <1>7. \A x, y \in {Row(i) : i \in I} : x.place = y.place => x = y
    OBVIOUS
  <1> QED
    BY <1>1, <1>4, <1>6, <1>7

LEMMA RuleMatchesFit ==
  ASSUME NEW D, NEW f
  PROVE  /\ RuleMatches(D, f) \subseteq RuleRows!AllRows(D)
         /\ IsFiniteSet(RuleMatches(D, f))
         /\ \A x \in RuleMatches(D, f) : f.severity \in {"", "All", x.severity}
  <1>1. RuleMatches(D, f) \in SUBSET RuleRows!AllRows(D)
    BY DEF RuleMatches, RuleRows!searchFilterFn, RuleRows!risksFilterFn, RuleRows!severityFilterFn
  <1>2. \A x \in RuleMatches(D, f) : f.severity \in {"", "All", x.severity}
    BY DEF RuleMatches, RuleRows!searchFilterFn, RuleRows!risksFilterFn, RuleRows!severityFilterFn
  <1> QED
    BY <1>1, <1>2, RuleRowsFinite, FS_Subset

LEMMA RuleSeverityRanks ==
  ASSUME NEW a, NEW b, a.severity \in RuleRows!Severities, b.severity \in RuleRows!Severities
  PROVE  /\ RuleRows!Rank[a.severity] \in Int /\ RuleRows!Rank[b.severity] \in Int
         /\ RuleRows!severitySortTypeFn(a, b) \in Int
         /\ RuleRows!severitySortTypeFn(a, b) < 0 <=> RuleRows!Rank[a.severity] < RuleRows!Rank[b.severity]
         /\ RuleRows!severitySortTypeFn(a, b) > 0 <=> RuleRows!Rank[a.severity] > RuleRows!Rank[b.severity]
         /\ RuleRows!severitySortTypeFn(a, b) = 0 <=> RuleRows!Rank[a.severity] = RuleRows!Rank[b.severity]
  BY DEF RuleRows!Severities, RuleRows!Rank, RuleRows!severitySortTypeFn

(* The rows displayed are those that match, in the order of the header.    *)
LEMMA RuleRowsDisplayed ==
  ASSUME NEW D, NEW f, f.sort \in RuleRows!SortValues
  PROVE  LET s == RuleRows!DisplayedTableRows(D, f) IN
         /\ {s[i] : i \in DOMAIN s} = RuleMatches(D, f)
         /\ \A i \in DOMAIN s : s[i] \in RuleMatches(D, f)
         /\ DOMAIN s \subseteq Int
         /\ \A i, j \in DOMAIN s : i < j =>
               /\ f.sort = "Dec" => RuleRows!Rank[s[i].severity] >= RuleRows!Rank[s[j].severity]
               /\ f.sort = "Inc" => RuleRows!Rank[s[i].severity] =< RuleRows!Rank[s[j].severity]
  <1> DEFINE T == RuleMatches(D, f)
             s == RuleRows!DisplayedTableRows(D, f)
             rank(x) == RuleRows!Rank[x.severity]
             k == [x \in T |-> IF f.sort = "Dec" THEN -1 * rank(x) ELSE IF f.sort = "Inc" THEN rank(x) ELSE 0]
             R == ByKey(T, k)
  <1>1. /\ IsFiniteSet(T)
        /\ \A x \in T : x.severity \in RuleRows!Severities /\ x.place \in Int /\ rank(x) \in Int
        /\ \A x, y \in T : x.place = y.place => x = y
    BY RuleMatchesFit, RuleRowsFinite, RuleSeverityRanks
  <1>2. IsOrder(T, R)
    <2>1. \A x \in T : k[x] \in Int
      <3> HIDE DEF T, rank
      <3> QED
        BY <1>1
    <2> HIDE DEF T, k
    <2> QED
      BY <1>1, <2>1, KeyOrder
  <1>3. s = RuleRows!Sorted(T, R)
    <2>1. ASSUME NEW x \in T, NEW y \in T
          PROVE  /\ f.sort = "None" => (<<x, y>> \in R <=> x.place < y.place)
                 /\ f.sort = "Dec" => (<<x, y>> \in R <=>
                       \/ (-1) * RuleRows!severitySortTypeFn(x, y) < 0
                       \/ RuleRows!severitySortTypeFn(x, y) = 0 /\ x.place < y.place)
                 /\ f.sort = "Inc" => (<<x, y>> \in R <=>
                       \/ 1 * RuleRows!severitySortTypeFn(x, y) < 0
                       \/ RuleRows!severitySortTypeFn(x, y) = 0 /\ x.place < y.place)
      <3>1. <<x, y>> \in R <=> k[x] < k[y] \/ (k[x] = k[y] /\ x.place < y.place)
        BY DEF ByKey
      <3> DEFINE a == rank(x)
                 b == rank(y)
                 c == RuleRows!severitySortTypeFn(x, y)
      <3>2. /\ a \in Int /\ b \in Int /\ c \in Int
            /\ (c < 0 <=> a < b) /\ (c > 0 <=> a > b) /\ (c = 0 <=> a = b)
        BY <1>1, RuleSeverityRanks
      <3>3. /\ k[x] = (IF f.sort = "Dec" THEN -1 * a ELSE IF f.sort = "Inc" THEN a ELSE 0)
            /\ k[y] = (IF f.sort = "Dec" THEN -1 * b ELSE IF f.sort = "Inc" THEN b ELSE 0)
        OBVIOUS
      <3> HIDE DEF k, a, b, c, R
      <3>4. /\ f.sort = "None" => (<<x, y>> \in R <=> x.place < y.place)
            /\ f.sort = "Dec" => (<<x, y>> \in R <=> ((-1) * c < 0 \/ (c = 0 /\ x.place < y.place)))
            /\ f.sort = "Inc" => (<<x, y>> \in R <=> (1 * c < 0 \/ (c = 0 /\ x.place < y.place)))
        BY <3>1, <3>2, <3>3
      <3> QED
        BY <3>4 DEF c
    <2>2. CASE f.sort = "None"
      <3>1. R = {p \in T \X T : p[1].place < p[2].place}
        <4>1. R \subseteq T \X T
          BY DEF ByKey
        <4> HIDE DEF R
        <4> QED
          BY <4>1, <2>1, <2>2
      <3> HIDE DEF R
      <3> QED
        BY <2>2, <3>1 DEF RuleRows!DisplayedTableRows, RuleRows!Unsorted, RuleMatches
    <2>3. CASE f.sort = "Dec"
      <3>1. R = {p \in T \X T : \/ (-1) * RuleRows!severitySortTypeFn(p[1], p[2]) < 0
                                \/ /\ RuleRows!severitySortTypeFn(p[1], p[2]) = 0
                                   /\ p[1].place < p[2].place}
        <4>1. R \subseteq T \X T
          BY DEF ByKey
        <4> HIDE DEF R
        <4> QED
          BY <4>1, <2>1, <2>3
      <3> HIDE DEF R
      <3> QED
        BY <2>3, <3>1 DEF RuleRows!DisplayedTableRows, RuleRows!Arranged, RuleMatches
    <2>4. CASE f.sort = "Inc"
      <3>1. R = {p \in T \X T : \/ 1 * RuleRows!severitySortTypeFn(p[1], p[2]) < 0
                                \/ /\ RuleRows!severitySortTypeFn(p[1], p[2]) = 0
                                   /\ p[1].place < p[2].place}
        <4>1. R \subseteq T \X T
          BY DEF ByKey
        <4> HIDE DEF R
        <4> QED
          BY <4>1, <2>1, <2>4
      <3> HIDE DEF R
      <3> QED
        BY <2>4, <3>1 DEF RuleRows!DisplayedTableRows, RuleRows!Arranged, RuleMatches
    <2> QED
      BY <2>2, <2>3, <2>4 DEF RuleRows!SortValues
  <1>4. /\ DOMAIN s = 1 .. Cardinality(T)
        /\ {s[i] : i \in DOMAIN s} = T
        /\ \A i, j \in DOMAIN s : i < j => <<s[i], s[j]>> \in R
    <2> HIDE DEF s, R, T
    <2> QED
      BY <1>2, <1>3, RuleRowsSorted
  <1>5. Cardinality(T) \in Nat
    BY <1>1, FS_CardinalityType
  <1>6. ASSUME NEW i \in DOMAIN s, NEW j \in DOMAIN s, i < j
        PROVE  /\ f.sort = "Dec" => rank(s[i]) >= rank(s[j])
               /\ f.sort = "Inc" => rank(s[i]) =< rank(s[j])
    <2> DEFINE x == s[i]
               y == s[j]
               a == rank(x)
               b == rank(y)
    <2>1. x \in T /\ y \in T /\ <<x, y>> \in R
      BY <1>4, <1>6
    <2>2. a \in Int /\ b \in Int
      BY <1>1, <2>1
    <2>3. k[x] <= k[y] /\ k[x] = (IF f.sort = "Dec" THEN -1 * a ELSE IF f.sort = "Inc" THEN a ELSE 0)
          /\ k[y] = (IF f.sort = "Dec" THEN -1 * b ELSE IF f.sort = "Inc" THEN b ELSE 0)
      <3>1. /\ k[x] = (IF f.sort = "Dec" THEN -1 * a ELSE IF f.sort = "Inc" THEN a ELSE 0)
            /\ k[y] = (IF f.sort = "Dec" THEN -1 * b ELSE IF f.sort = "Inc" THEN b ELSE 0)
        BY <2>1
      <3>2. k[x] < k[y] \/ k[x] = k[y]
        <4> HIDE DEF k, x, y
        <4> QED
          BY <2>1 DEF ByKey
      <3> HIDE DEF k, a, b
      <3> QED
        BY <3>1, <3>2, <2>2
    <2> HIDE DEF k, a, b
    <2>4. /\ f.sort = "Dec" => a >= b
          /\ f.sort = "Inc" => a =< b
      BY <2>2, <2>3
    <2> QED
      BY <2>4 DEF a, b
  <1> HIDE DEF s, T
  <1> QED
    BY <1>4, <1>5, <1>6 DEF s, T

(* The operators on bags of the instance are those of the library.         *)
LEMMA RuleBags ==
  /\ \A x, y : RuleRows!(-)(x, y) = x (-) y /\ RuleRows!(+)(x, y) = x (+) y
  /\ \A x : RuleRows!BagToSet(x) = BagToSet(x) /\ (RuleRows!IsABag(x) <=> IsABag(x))
  /\ \A x : RuleRows!SetToBag(x) = SetToBag(x)
  /\ RuleRows!EmptyBag = EmptyBag
  BY DEF (-), (+), BagToSet, IsABag, EmptyBag, SetToBag, RuleRows!(-), RuleRows!(+),
         RuleRows!BagToSet, RuleRows!IsABag, RuleRows!EmptyBag, RuleRows!SetToBag

(* The rules displayed of data d under filters f.                          *)
RulesDisplayed(d, f) == {row.rule : row \in RuleMatches(DOMAIN d, f)}

LEMMA RuleRange ==
  ASSUME NEW d, NEW f, f.sort \in RuleRows!SortValues
  PROVE  RuleRows!Range(RuleRows!DisplayedTableRows(DOMAIN d, f)) = RuleMatches(DOMAIN d, f)
  BY RuleRowsDisplayed DEF RuleRows!Range

LEMMA RenderFits ==
  ASSUME NEW d, NEW f, f.sort \in RuleRows!SortValues
  PROVE  /\ RulesDisplayed(d, f) \subseteq DOMAIN d
         /\ RuleRows!Render(d, f) = [r \in RulesDisplayed(d, f) |-> IF r \in DOMAIN s6 THEN s6[r] ELSE d[r]]
  <1>1. RulesDisplayed(d, f) \subseteq DOMAIN d
    <2>1. \A row \in RuleMatches(DOMAIN d, f) : row \in RuleRows!AllRows(DOMAIN d)
      BY RuleMatchesFit
    <2>2. \A row \in RuleRows!AllRows(DOMAIN d) : row.rule \in DOMAIN d
      BY RuleRowsFinite
    <2> QED
      BY <2>1, <2>2 DEF RulesDisplayed
  <1>2. RuleRows!Range(RuleRows!DisplayedTableRows(DOMAIN d, f)) = RuleMatches(DOMAIN d, f)
    BY RuleRange
  <1> QED
    BY <1>1, <1>2 DEF RuleRows!Render, RulesDisplayed

(* The fields of the page, and what is displayed of them.                  *)
RuleFields ==
    LET Known == {RuleRows!NoRules} \cup [RuleRows!RulesOf(s1) -> BOOLEAN] IN
    /\ s1 \in RuleRows!Categories /\ s2 \in {"none", "asked", "served"}
    /\ s3 \in Known /\ s4 \in Known
    /\ s5 \in RuleRows!Filters
    /\ s6 \in [DOMAIN s6 -> BOOLEAN] /\ DOMAIN s6 = RulesDisplayed(s4, s5)
    /\ IsABag(s7) /\ BagToSet(s7) \subseteq [rule: RuleRows!RuleSet, active: BOOLEAN]
    /\ s8 \in [RuleRows!RuleSet -> BOOLEAN]
    /\ s9 \in 0 .. RuleFaults
    /\ s2 # "none" => s4 = RuleRows!NoRules

LEMMA RuleFieldsOK == RuleRows!RowsInv <=> RuleFields
  <1> SUFFICES ASSUME RuleRows!RowsInv \/ RuleFields PROVE RuleRows!RowsInv <=> RuleFields
    OBVIOUS
  <1>1. s5 \in RuleRows!Filters
    BY DEF RuleRows!RowsInv, RuleRows!FieldsOK, RuleFields
  <1>2. s5.sort \in RuleRows!SortValues
    BY <1>1 DEF RuleRows!Filters
  <1>3. {row.rule : row \in RuleRows!Range(RuleRows!DisplayedTableRows(DOMAIN s4, s5))}
           = RulesDisplayed(s4, s5)
    BY <1>2, RuleRange DEF RulesDisplayed
  <1>4. RulesDisplayed(s4, s5) \subseteq DOMAIN s4
    BY <1>2, RenderFits
  <1>5. s6 \in RuleRows!PartsOf(DOMAIN s4) /\ DOMAIN s6 = RulesDisplayed(s4, s5)
          <=> s6 \in [DOMAIN s6 -> BOOLEAN] /\ DOMAIN s6 = RulesDisplayed(s4, s5)
    BY <1>4 DEF RuleRows!PartsOf
  <1> QED
    BY <1>3, <1>5, RuleBags DEF RuleRows!RowsInv, RuleRows!FieldsOK, RuleFields

LEMMA NoRulesDisplayed ==
  ASSUME NEW f, f.sort \in RuleRows!SortValues
  PROVE  RulesDisplayed(RuleRows!NoRules, f) = {} /\ DOMAIN RuleRows!NoRules = {}
         /\ RuleRows!NoRules \in [{} -> BOOLEAN]
  <1>1. DOMAIN RuleRows!NoRules = {} /\ RuleRows!NoRules \in [{} -> BOOLEAN]
    BY DEF RuleRows!NoRules
  <1> QED
    BY <1>1, RenderFits

LEMMA RulesInit == RuleRows!Init => RuleFields
  <1> SUFFICES ASSUME RuleRows!Init PROVE RuleFields
    OBVIOUS
  <1>1. s9 \in 0 .. RuleFaults
    <2>1. RuleFaults \in Nat
      BY PagesFit DEF RuleRows!ConstantsFit
    <2>2. s9 = 0
      BY DEF RuleRows!Init
    <2> QED
      BY <2>1, <2>2
  <1>2. s1 = "misconfiguration" /\ s2 = "asked" /\ s3 = RuleRows!NoRules /\ s4 = RuleRows!NoRules
        /\ s5 = RuleRows!Default /\ s6 = RuleRows!NoRules /\ s7 = EmptyBag
        /\ s8 \in [RuleRows!RuleSet -> BOOLEAN]
    BY RuleBags DEF RuleRows!Init
  <1>3. s5 \in RuleRows!Filters /\ s5.sort \in RuleRows!SortValues /\ s1 \in RuleRows!Categories
    BY <1>2 DEF RuleRows!Filters, RuleRows!Default, RuleRows!SortValues, RuleRows!Severities,
       RuleRows!Categories
  <1>4. IsABag(s7) /\ BagToSet(s7) = {}
    BY <1>2, OneAlone
  <1>5. DOMAIN s6 = RulesDisplayed(s4, s5) /\ s6 \in [DOMAIN s6 -> BOOLEAN]
    BY <1>2, <1>3, NoRulesDisplayed
  <1> QED
    BY <1>1, <1>2, <1>3, <1>4, <1>5 DEF RuleFields

(* What a step does to the posts under way.                                *)
LEMMA RulePostsStep ==
  ASSUME RuleFields
  PROVE  /\ \A r \in RuleRows!RuleSet : RuleRows!handleToggle(r) =>
                LET p == [rule |-> r, active |-> ~s6[r]] IN
                /\ p \in [rule: RuleRows!RuleSet, active: BOOLEAN]
                /\ s7' = s7 (+) SetToBag({p})
                /\ IsABag(s7') /\ BagToSet(s7') = BagToSet(s7) \cup {p}
                /\ BagToSet(s7' (-) s7) = {p} /\ BagToSet(s7 (-) s7') = {}
         /\ \A p \in BagToSet(s7) : RuleRows!ToggleRuleActive(p) \/ RuleRows!PostFails(p) =>
                /\ p \in [rule: RuleRows!RuleSet, active: BOOLEAN]
                /\ s7' = s7 (-) SetToBag({p})
                /\ IsABag(s7') /\ BagToSet(s7') \subseteq BagToSet(s7)
                /\ BagToSet(s7' (-) s7) = {} /\ BagToSet(s7 (-) s7') = {p}
  <1>1. IsABag(s7) /\ BagToSet(s7) \subseteq [rule: RuleRows!RuleSet, active: BOOLEAN]
    BY DEF RuleFields
  <1>2. ASSUME NEW r \in RuleRows!RuleSet, RuleRows!handleToggle(r)
        PROVE  LET p == [rule |-> r, active |-> ~s6[r]] IN
                /\ p \in [rule: RuleRows!RuleSet, active: BOOLEAN]
                /\ s7' = s7 (+) SetToBag({p})
                /\ IsABag(s7') /\ BagToSet(s7') = BagToSet(s7) \cup {p}
                /\ BagToSet(s7' (-) s7) = {p} /\ BagToSet(s7 (-) s7') = {}
    <2> DEFINE p == [rule |-> r, active |-> ~s6[r]]
    <2>1. s7' = s7 (+) SetToBag({p})
      BY <1>2, RuleBags DEF RuleRows!handleToggle, RuleRows!TogglePostUpdate
    <2>2. p \in [rule: RuleRows!RuleSet, active: BOOLEAN]
      OBVIOUS
    <2> HIDE DEF p
    <2>3. /\ IsABag(s7') /\ BagToSet(s7') = BagToSet(s7) \cup {p}
          /\ BagToSet(s7' (-) s7) = {p} /\ BagToSet(s7 (-) s7') = {}
      BY <2>1, <1>1, OneMore
    <2> QED
      BY <2>1, <2>2, <2>3 DEF p
  <1>3. ASSUME NEW p \in BagToSet(s7), RuleRows!ToggleRuleActive(p) \/ RuleRows!PostFails(p)
        PROVE  /\ p \in [rule: RuleRows!RuleSet, active: BOOLEAN]
               /\ s7' = s7 (-) SetToBag({p})
               /\ IsABag(s7') /\ BagToSet(s7') \subseteq BagToSet(s7)
               /\ BagToSet(s7' (-) s7) = {} /\ BagToSet(s7 (-) s7') = {p}
    <2>1. s7' = s7 (-) SetToBag({p})
      BY <1>3, RuleBags DEF RuleRows!ToggleRuleActive, RuleRows!PostFails
    <2> QED
      BY <2>1, <1>1, OneLess
  <1> QED
    BY <1>2, <1>3

(* A filter or a header changes the filters and what is displayed.         *)
LEMMA Refilters ==
  ASSUME RuleFields, RuleRows!Filter \/ RuleRows!ClickHeader
  PROVE  /\ s5' \in RuleRows!Filters
         /\ s6' = RuleRows!Render(s4, s5')
         /\ UNCHANGED <<s1, s2, s3, s4, s7, s8, s9>>
  <1>1. s5 \in [severity: {"All"} \cup RuleRows!Severities, risk: {"All", "Vulnerability"},
            search: {""} \cup RuleTerms, sort: RuleRows!SortValues]
    BY DEF RuleFields, RuleRows!Filters
  <1>2. CASE RuleRows!ClickHeader
    <2> DEFINE f == [s5 EXCEPT !.sort = RuleRows!NextSort(s5.sort)]
    <2>1. RuleRows!NextSort(s5.sort) \in RuleRows!SortValues
      BY DEF RuleRows!NextSort, RuleRows!SortValues
    <2>2. f \in RuleRows!Filters
      BY <1>1, <2>1 DEF RuleRows!Filters
    <2>3. RuleRows!Refilter(f)
      BY <1>2 DEF RuleRows!ClickHeader
    <2> HIDE DEF f
    <2> QED
      BY <2>2, <2>3 DEF RuleRows!Refilter
  <1>3. CASE RuleRows!Filter
    <2>1. PICK f \in RuleRows!Filters : RuleRows!Refilter(f)
      <3>1. ASSUME NEW v \in {"All"} \cup RuleRows!Severities, RuleRows!Refilter([s5 EXCEPT !.severity = v])
            PROVE  \E f \in RuleRows!Filters : RuleRows!Refilter(f)
        <4>1. [s5 EXCEPT !.severity = v] \in RuleRows!Filters
          BY <1>1 DEF RuleRows!Filters
        <4> QED
          BY <3>1, <4>1
      <3>2. ASSUME NEW v \in {"All", "Vulnerability"}, RuleRows!Refilter([s5 EXCEPT !.risk = v])
            PROVE  \E f \in RuleRows!Filters : RuleRows!Refilter(f)
        <4>1. [s5 EXCEPT !.risk = v] \in RuleRows!Filters
          BY <1>1 DEF RuleRows!Filters
        <4> QED
          BY <3>2, <4>1
      <3>3. ASSUME NEW v \in {""} \cup RuleTerms, RuleRows!Refilter([s5 EXCEPT !.search = v])
            PROVE  \E f \in RuleRows!Filters : RuleRows!Refilter(f)
        <4>1. [s5 EXCEPT !.search = v] \in RuleRows!Filters
          BY <1>1 DEF RuleRows!Filters
        <4> QED
          BY <3>3, <4>1
      <3> QED
        BY <1>3, <3>1, <3>2, <3>3 DEF RuleRows!Filter
    <2> QED
      BY <2>1 DEF RuleRows!Refilter
  <1> QED
    BY <1>2, <1>3

LEMMA RulesStep ==
  ASSUME RuleFields, [RuleRows!Next]_(RuleRows!vars)
  PROVE  RuleFields'
  <1> DEFINE Known(c) == {RuleRows!NoRules} \cup [RuleRows!RulesOf(c) -> BOOLEAN]
             Tab == s1 \in RuleRows!Categories
             Fetch == s2 \in {"none", "asked", "served"}
             Data == s3 \in Known(s1) /\ s4 \in Known(s1)
             Filtered == s5 \in RuleRows!Filters
             Switches == s6 \in [DOMAIN s6 -> BOOLEAN] /\ DOMAIN s6 = RulesDisplayed(s4, s5)
             Posts == IsABag(s7) /\ BagToSet(s7) \subseteq [rule: RuleRows!RuleSet, active: BOOLEAN]
             Active == s8 \in [RuleRows!RuleSet -> BOOLEAN]
             Faults == s9 \in 0 .. RuleFaults
             Waiting == s2 # "none" => s4 = RuleRows!NoRules
             Inv == Tab /\ Fetch /\ Data /\ Filtered /\ Switches /\ Posts /\ Active /\ Faults /\ Waiting
  <1>1. Inv
    BY DEF RuleFields
  <1>2. SUFFICES Inv'
    BY DEF RuleFields
  <1>3. ASSUME NEW f \in RuleRows!Filters PROVE f.sort \in RuleRows!SortValues
    BY DEF RuleRows!Filters
  <1>4. ASSUME NEW d, d \in Known(s1), NEW f \in RuleRows!Filters
        PROVE  /\ RuleRows!Render(d, f) \in [DOMAIN RuleRows!Render(d, f) -> BOOLEAN]
               /\ DOMAIN RuleRows!Render(d, f) = RulesDisplayed(d, f)
    <2>1. /\ RulesDisplayed(d, f) \subseteq DOMAIN d
          /\ RuleRows!Render(d, f) = [r \in RulesDisplayed(d, f) |-> IF r \in DOMAIN s6 THEN s6[r] ELSE d[r]]
      BY <1>3, RenderFits
    <2>2. d \in [DOMAIN d -> BOOLEAN]
      BY <1>4 DEF RuleRows!NoRules
    <2>3. \A r \in DOMAIN s6 : s6[r] \in BOOLEAN
      BY <1>1
    <2>4. \A r \in RulesDisplayed(d, f) : (IF r \in DOMAIN s6 THEN s6[r] ELSE d[r]) \in BOOLEAN
      BY <2>1, <2>2, <2>3
    <2> QED
      BY <2>1, <2>4
  <1>5. RuleRows!NoRules \in Known(s1) /\ RuleRows!NoRules \in Known(s1')
    OBVIOUS
  <1>6. CASE UNCHANGED RuleRows!vars
    BY <1>1, <1>6 DEF RuleRows!vars
  <1>7. ASSUME NEW c \in RuleRows!Categories, RuleRows!OpenTab(c) PROVE Inv'
    <2>1. /\ s1' = c /\ s2' = "asked" /\ s3' = RuleRows!NoRules /\ s4' = RuleRows!NoRules
          /\ s5' = RuleRows!Default /\ s6' = RuleRows!NoRules /\ UNCHANGED <<s7, s8, s9>>
      BY <1>7 DEF RuleRows!OpenTab, RuleRows!Mount
    <2>2. RuleRows!Default \in RuleRows!Filters
      BY DEF RuleRows!Filters, RuleRows!Default, RuleRows!SortValues, RuleRows!Severities
    <2>3. Switches'
      BY <2>1, <2>2, <1>3, NoRulesDisplayed
    <2> HIDE DEF Switches
    <2> QED
      BY <1>1, <1>5, <2>1, <2>2, <2>3
  <1>8. ASSUME RuleRows!ServeRules PROVE Inv'
    <2>1. /\ s2 = "asked" /\ s2' = "served" /\ s3' = [r \in RuleRows!RulesOf(s1) |-> s8[r]]
          /\ UNCHANGED <<s1, s4, s5, s6, s7, s8, s9>>
      BY <1>8 DEF RuleRows!ServeRules
    <2>2. s3' \in Known(s1)
      BY <1>1, <2>1 DEF RuleRows!RulesOf
    <2> HIDE DEF Known
    <2> QED
      BY <1>1, <2>1, <2>2
  <1>9. ASSUME RuleRows!getRulesInfoData PROVE Inv'
    <2>1. /\ s2' = "none" /\ s4' = s3 /\ s3' = RuleRows!NoRules /\ s6' = RuleRows!Render(s3, s5)
          /\ UNCHANGED <<s1, s5, s7, s8, s9>>
      BY <1>9 DEF RuleRows!getRulesInfoData
    <2>2. Switches'
      BY <1>1, <1>4, <2>1
    <2> HIDE DEF Switches
    <2> QED
      BY <1>1, <1>5, <2>1, <2>2
  <1>10. ASSUME RuleRows!FetchFails PROVE Inv'
    <2>1. /\ s2 = "asked" /\ s2' = "none" /\ s4' = RuleRows!NoRules /\ s9 < RuleFaults /\ s9' = s9 + 1
          /\ UNCHANGED <<s1, s3, s5, s6, s7, s8>>
      BY <1>10 DEF RuleRows!FetchFails
    <2>2. RuleFaults \in Nat
      BY PagesFit DEF RuleRows!ConstantsFit
    <2>3. Faults'
      BY <1>1, <2>1, <2>2
    <2>4. s4' = s4
      BY <1>1, <2>1
    <2> HIDE DEF Faults
    <2> QED
      BY <1>1, <2>1, <2>3, <2>4
  <1>11. ASSUME NEW r \in RuleRows!RuleSet, RuleRows!handleToggle(r) PROVE Inv'
    <2>1. /\ r \in DOMAIN s6 /\ s6' = [s6 EXCEPT ![r] = ~s6[r]]
          /\ UNCHANGED <<s1, s2, s3, s4, s5, s8, s9>>
      BY <1>11 DEF RuleRows!handleToggle
    <2>2. Posts'
      <3> DEFINE p == [rule |-> r, active |-> ~s6[r]]
      <3>1. /\ p \in [rule: RuleRows!RuleSet, active: BOOLEAN]
            /\ IsABag(s7') /\ BagToSet(s7') = BagToSet(s7) \cup {p}
        BY <1>11, RulePostsStep
      <3> HIDE DEF p
      <3> QED
        BY <1>1, <3>1
    <2>3. Switches'
      BY <1>1, <2>1
    <2> HIDE DEF Posts, Switches
    <2> QED
      BY <1>1, <2>1, <2>2, <2>3
  <1>12. ASSUME NEW p \in BagToSet(s7), RuleRows!ToggleRuleActive(p) \/ RuleRows!PostFails(p) PROVE Inv'
    <2>1. /\ UNCHANGED <<s1, s2, s3, s4, s5, s6>>
          /\ (s8' = s8 \/ s8' = [s8 EXCEPT ![p.rule] = p.active])
          /\ (s9' = s9 \/ (s9 < RuleFaults /\ s9' = s9 + 1))
      BY <1>12 DEF RuleRows!ToggleRuleActive, RuleRows!PostFails
    <2>2. p \in [rule: RuleRows!RuleSet, active: BOOLEAN] /\ IsABag(s7') /\ BagToSet(s7') \subseteq BagToSet(s7)
      BY <1>12, RulePostsStep
    <2>3. Posts'
      BY <1>1, <2>2
    <2>4. Active'
      BY <1>1, <2>1, <2>2
    <2>5. RuleFaults \in Nat
      BY PagesFit DEF RuleRows!ConstantsFit
    <2>6. Faults'
      BY <1>1, <2>1, <2>5
    <2> HIDE DEF Posts, Active, Faults
    <2> QED
      BY <1>1, <2>1, <2>3, <2>4, <2>6
  <1>13. ASSUME RuleRows!Filter \/ RuleRows!ClickHeader PROVE Inv'
    <2>1. /\ s5' \in RuleRows!Filters
          /\ s6' = RuleRows!Render(s4, s5')
          /\ UNCHANGED <<s1, s2, s3, s4, s7, s8, s9>>
      BY <1>13, Refilters
    <2>2. Switches'
      BY <1>1, <1>4, <2>1
    <2> HIDE DEF Switches
    <2> QED
      BY <1>1, <2>1, <2>2
  <1> HIDE DEF Inv
  <1> QED
    BY <1>6, <1>7, <1>8, <1>9, <1>10, <1>11, <1>12, <1>13, RuleBags DEF RuleRows!Next

(* Only clicks switch.                                                     *)
LEMMA RulesByClicks ==
  ASSUME RuleFields, [RuleRows!Next]_(RuleRows!vars)
  PROVE  RuleRows!OnlyClicksSwitch
  <1>1. SUFFICES
          /\ \A p \in BagToSet(s7' (-) s7) : p.rule \in DOMAIN s6 /\ p.active # s6[p.rule]
          /\ \A r \in RuleRows!RuleSet : s8'[r] # s8[r] =>
                 \E p \in BagToSet(s7 (-) s7') : p.rule = r /\ p.active = s8'[r]
    BY RuleBags DEF RuleRows!OnlyClicksSwitch
  <1>2. /\ IsABag(s7) /\ s8 \in [RuleRows!RuleSet -> BOOLEAN] /\ s6 \in [DOMAIN s6 -> BOOLEAN]
    BY DEF RuleFields
  <1>3. CASE UNCHANGED <<s7, s8>>
    BY <1>2, <1>3, NothingNew
  <1>4. ASSUME NEW r \in RuleRows!RuleSet, RuleRows!handleToggle(r) PROVE <1>1!1
    <2> DEFINE p == [rule |-> r, active |-> ~s6[r]]
    <2>1. r \in DOMAIN s6 /\ s8' = s8
      BY <1>4 DEF RuleRows!handleToggle
    <2>2. BagToSet(s7' (-) s7) = {p}
      BY <1>4, RulePostsStep
    <2>3. p.rule \in DOMAIN s6 /\ p.active # s6[p.rule]
      BY <1>2, <2>1
    <2> HIDE DEF p
    <2> QED
      BY <2>1, <2>2, <2>3
  <1>5. ASSUME NEW p \in BagToSet(s7), RuleRows!ToggleRuleActive(p) \/ RuleRows!PostFails(p) PROVE <1>1!1
    <2>1. s8' = s8 \/ s8' = [s8 EXCEPT ![p.rule] = p.active]
      BY <1>5 DEF RuleRows!ToggleRuleActive, RuleRows!PostFails
    <2>2. BagToSet(s7' (-) s7) = {} /\ BagToSet(s7 (-) s7') = {p}
      BY <1>5, RulePostsStep
    <2>3. \A r \in RuleRows!RuleSet : s8'[r] # s8[r] => p.rule = r /\ p.active = s8'[r]
      BY <1>2, <2>1
    <2> QED
      BY <2>2, <2>3
  <1>6. RuleRows!Filter \/ RuleRows!ClickHeader => UNCHANGED <<s7, s8>>
    BY Refilters
  <1>7. (\E c \in RuleRows!Categories : RuleRows!OpenTab(c)) \/ RuleRows!ServeRules
          \/ RuleRows!getRulesInfoData \/ RuleRows!FetchFails \/ UNCHANGED RuleRows!vars
          => UNCHANGED <<s7, s8>>
    BY DEF RuleRows!OpenTab, RuleRows!ServeRules, RuleRows!getRulesInfoData, RuleRows!FetchFails,
           RuleRows!vars
  <1> QED
    BY <1>3, <1>4, <1>5, <1>6, <1>7, RuleBags DEF RuleRows!Next

(* Of a user who waits, the switches and the post under way.               *)
RuleSwitches ==
    /\ RuleFields
    /\ \/ s7 = EmptyBag
       \/ s2 = "none" /\ \E p \in [rule: RuleRows!RuleSet, active: BOOLEAN] : s7 = SetToBag({p})
    /\ s2 = "served" => s3 = [r \in RuleRows!RulesOf(s1) |-> s8[r]]
    /\ \A r \in DOMAIN s4 : (IF r \in DOMAIN s6 THEN s6[r] ELSE s4[r]) = RuleRows!Due(r)

(* What a rule will be, with nothing or one post under way.                *)
LEMMA RuleDue ==
  ASSUME NEW r
  PROVE  /\ s7 = EmptyBag => RuleRows!Due(r) = s8[r]
         /\ \A p : s7 = SetToBag({p}) =>
               RuleRows!Due(r) = IF p.rule = r THEN p.active ELSE s8[r]
  <1>1. CASE s7 = EmptyBag
    <2>1. RuleRows!BagToSet(s7) = {}
      BY <1>1, OneAlone, RuleBags
    <2> QED
      BY <1>1, <2>1, OneAlone DEF RuleRows!Due
  <1>2. ASSUME NEW p, s7 = SetToBag({p})
        PROVE  RuleRows!Due(r) = IF p.rule = r THEN p.active ELSE s8[r]
    <2>1. RuleRows!BagToSet(s7) = {p}
      BY <1>2, OneAlone, RuleBags
    <2> QED
      BY <2>1 DEF RuleRows!Due
  <1> QED
    BY <1>1, <1>2, OneAlone

LEMMA RuleDueNext ==
  ASSUME NEW r
  PROVE  /\ s7' = EmptyBag => RuleRows!Due(r)' = s8'[r]
         /\ \A p : s7' = SetToBag({p}) =>
               RuleRows!Due(r)' = IF p.rule = r THEN p.active ELSE s8'[r]
  <1>1. CASE s7' = EmptyBag
    <2>1. RuleRows!BagToSet(s7)' = {}
      BY <1>1, OneAlone, RuleBags
    <2> QED
      BY <1>1, <2>1, OneAlone DEF RuleRows!Due
  <1>2. ASSUME NEW p, s7' = SetToBag({p})
        PROVE  RuleRows!Due(r)' = IF p.rule = r THEN p.active ELSE s8'[r]
    <2>1. RuleRows!BagToSet(s7)' = {p}
      BY <1>2, OneAlone, RuleBags
    <2> QED
      BY <2>1 DEF RuleRows!Due
  <1> QED
    BY <1>1, <1>2, OneAlone

LEMMA SwitchesInit == RuleRows!Init => RuleSwitches
  <1> SUFFICES ASSUME RuleRows!Init PROVE RuleSwitches
    OBVIOUS
  <1>1. s2 = "asked" /\ s4 = RuleRows!NoRules /\ s7 = EmptyBag
    BY RuleBags DEF RuleRows!Init
  <1>2. DOMAIN s4 = {}
    BY <1>1 DEF RuleRows!NoRules
  <1> QED
    BY <1>1, <1>2, RulesInit DEF RuleSwitches

LEMMA SwitchesStep ==
  ASSUME Patient, RuleSwitches, [RuleRows!Next]_(RuleRows!vars)
  PROVE  RuleSwitches'
  <1> DEFINE Post == [rule: RuleRows!RuleSet, active: BOOLEAN]
             Posts == \/ s7 = EmptyBag
                      \/ s2 = "none" /\ \E p \in Post : s7 = SetToBag({p})
             Served == s2 = "served" => s3 = [r \in RuleRows!RulesOf(s1) |-> s8[r]]
             Switched == \A r \in DOMAIN s4 :
                            (IF r \in DOMAIN s6 THEN s6[r] ELSE s4[r]) = RuleRows!Due(r)
  <1>1. RuleFields /\ Posts /\ Served /\ Switched
    BY DEF RuleSwitches
  <1>2. RuleFields'
    BY <1>1, RulesStep
  <1>3. SUFFICES (Posts /\ Served /\ Switched)'
    BY <1>2 DEF RuleSwitches
  <1>4. /\ s6 \in [DOMAIN s6 -> BOOLEAN] /\ s8 \in [RuleRows!RuleSet -> BOOLEAN]
        /\ DOMAIN s6 = RulesDisplayed(s4, s5) /\ DOMAIN s6 \subseteq DOMAIN s4
        /\ s5 \in RuleRows!Filters /\ s5.sort \in RuleRows!SortValues
        /\ s2 # "none" => s4 = RuleRows!NoRules
        /\ s4 \in {RuleRows!NoRules} \cup [RuleRows!RulesOf(s1) -> BOOLEAN]
        /\ RuleFaults = 0 /\ s9 \in 0 .. RuleFaults
    <2>1. s5 \in RuleRows!Filters /\ s5.sort \in RuleRows!SortValues
      BY <1>1 DEF RuleFields, RuleRows!Filters
    <2>2. RulesDisplayed(s4, s5) \subseteq DOMAIN s4
      BY <2>1, RenderFits
    <2> QED
      BY <1>1, <2>1, <2>2, FrontendAssumption DEF RuleFields
  <1>5. DOMAIN RuleRows!NoRules = {}
    BY DEF RuleRows!NoRules
  <1>6. CASE UNCHANGED RuleRows!vars
    <2>1. UNCHANGED <<s1, s2, s3, s4, s5, s6, s7, s8>>
      BY <1>6 DEF RuleRows!vars
    <2>2. \A r : RuleRows!Due(r)' = RuleRows!Due(r)
      BY <2>1 DEF RuleRows!Due
    <2> QED
      BY <1>1, <2>1, <2>2
  <1>7. ASSUME NEW c \in RuleRows!Categories, RuleRows!OpenTab(c) PROVE <1>3!1
    <2>1. /\ s2' = "asked" /\ s4' = RuleRows!NoRules /\ s7' = EmptyBag
      BY <1>7, RuleBags DEF RuleRows!OpenTab, RuleRows!Mount
    <2> QED
      BY <1>5, <2>1
  <1>8. ASSUME RuleRows!ServeRules PROVE <1>3!1
    <2>1. /\ s2 = "asked" /\ s2' = "served" /\ s3' = [r \in RuleRows!RulesOf(s1) |-> s8[r]]
          /\ UNCHANGED <<s1, s4, s7, s8>>
      BY <1>8 DEF RuleRows!ServeRules
    <2>2. DOMAIN s4' = {} /\ s7' = EmptyBag
      BY <1>1, <1>4, <1>5, <2>1
    <2>3. Served'
      BY <2>1 DEF RuleRows!RulesOf
    <2> QED
      BY <2>2, <2>3
  <1>9. ASSUME RuleRows!getRulesInfoData PROVE <1>3!1
    <2>1. /\ s2 = "served" /\ s2' = "none" /\ s4' = s3 /\ s6' = RuleRows!Render(s3, s5)
          /\ UNCHANGED <<s1, s5, s7, s8>>
      BY <1>9 DEF RuleRows!getRulesInfoData
    <2>2. DOMAIN s6 = {} /\ s7 = EmptyBag /\ s7' = EmptyBag
      BY <1>1, <1>4, <1>5, <2>1
    <2>3. s4' = [r \in RuleRows!RulesOf(s1) |-> s8[r]]
      BY <1>1, <2>1
    <2>4. s6' = [r \in RulesDisplayed(s3, s5) |-> IF r \in DOMAIN s6 THEN s6[r] ELSE s3[r]]
      BY <1>4, <2>1, RenderFits
    <2>5. ASSUME NEW r \in DOMAIN s4'
          PROVE  (IF r \in DOMAIN s6' THEN s6'[r] ELSE s4'[r]) = RuleRows!Due(r)'
      <3>1. RuleRows!Due(r)' = s8'[r]
        BY <2>2, RuleDueNext
      <3>2. s4'[r] = s8[r]
        BY <2>3, <2>5
      <3>3. r \in DOMAIN s6' => s6'[r] = s3[r]
        BY <2>2, <2>4
      <3> QED
        BY <2>1, <3>1, <3>2, <3>3
    <2> QED
      BY <2>1, <2>2, <2>5
  <1>10. ASSUME NEW q, RuleRows!FetchFails \/ RuleRows!PostFails(q) PROVE FALSE
    BY <1>4, <1>10 DEF RuleRows!FetchFails, RuleRows!PostFails
  <1>11. ASSUME NEW r \in RuleRows!RuleSet, RuleRows!handleToggle(r) PROVE <1>3!1
    <2> DEFINE p == [rule |-> r, active |-> ~s6[r]]
    <2>1. /\ r \in DOMAIN s6 /\ s6' = [s6 EXCEPT ![r] = ~s6[r]] /\ s7 = EmptyBag
          /\ UNCHANGED <<s1, s2, s3, s4, s5, s8, s9>>
      BY <1>11, RuleBags DEF RuleRows!handleToggle
    <2>2. p \in Post /\ s7' = s7 (+) SetToBag({p})
      BY <1>1, <1>11, RulePostsStep
    <2>3. s7' = SetToBag({p})
      <3> HIDE DEF p
      <3> QED
        BY <2>1, <2>2, OneAlone
    <2>4. s2 = "none"
      BY <1>4, <1>5, <2>1, <1>1 DEF RuleFields
    <2>5. ASSUME NEW t \in DOMAIN s4
          PROVE  (IF t \in DOMAIN s6' THEN s6'[t] ELSE s4'[t]) = RuleRows!Due(t)'
      <3>1. RuleRows!Due(t) = s8[t]
        BY <2>1, RuleDue
      <3>2. RuleRows!Due(t)' = IF p.rule = t THEN p.active ELSE s8'[t]
        <4> HIDE DEF p
        <4> QED
          BY <2>3, RuleDueNext
      <3>3. (IF t \in DOMAIN s6 THEN s6[t] ELSE s4[t]) = s8[t]
        BY <1>1, <3>1
      <3> QED
        BY <1>4, <2>1, <3>2, <3>3
    <2> HIDE DEF p
    <2> QED
      BY <1>1, <2>1, <2>2, <2>3, <2>4, <2>5
  <1>12. ASSUME NEW p \in BagToSet(s7), RuleRows!ToggleRuleActive(p) PROVE <1>3!1
    <2>1. /\ UNCHANGED <<s1, s2, s3, s4, s5, s6, s9>> /\ s8' = [s8 EXCEPT ![p.rule] = p.active]
      BY <1>12 DEF RuleRows!ToggleRuleActive
    <2>2. p \in Post /\ s7' = s7 (-) SetToBag({p})
      BY <1>1, <1>12, RulePostsStep
    <2>3. s7 = SetToBag({p}) /\ s2 = "none"
      BY <1>1, OneAlone
    <2>4. s7' = EmptyBag
      BY <2>2, <2>3, OneAlone
    <2>5. ASSUME NEW t \in DOMAIN s4
          PROVE  (IF t \in DOMAIN s6' THEN s6'[t] ELSE s4'[t]) = RuleRows!Due(t)'
      <3>1. RuleRows!Due(t) = IF p.rule = t THEN p.active ELSE s8[t]
        BY <2>3, RuleDue
      <3>2. RuleRows!Due(t)' = s8'[t]
        BY <2>4, RuleDueNext
      <3>3. s8'[t] = IF p.rule = t THEN p.active ELSE s8[t]
        BY <1>4, <2>1, <2>2
      <3> QED
        BY <1>1, <2>1, <3>1, <3>2, <3>3
    <2> QED
      BY <2>1, <2>3, <2>4, <2>5
  <1>13. ASSUME RuleRows!Filter \/ RuleRows!ClickHeader PROVE <1>3!1
    <2>1. /\ s5' \in RuleRows!Filters /\ s6' = RuleRows!Render(s4, s5')
          /\ UNCHANGED <<s1, s2, s3, s4, s7, s8, s9>>
      BY <1>1, <1>13, Refilters
    <2>2. s5'.sort \in RuleRows!SortValues
      BY <2>1 DEF RuleRows!Filters
    <2>3. s6' = [r \in RulesDisplayed(s4, s5') |-> IF r \in DOMAIN s6 THEN s6[r] ELSE s4[r]]
      BY <2>1, <2>2, RenderFits
    <2>4. \A r : RuleRows!Due(r)' = RuleRows!Due(r)
      BY <2>1 DEF RuleRows!Due
    <2>5. CASE RuleRows!Filter
      <3>1. \A r \in DOMAIN s6 : s6[r] = s4[r]
        BY <2>5 DEF RuleRows!Filter
      <3>2. \A r \in DOMAIN s4 : s4[r] = RuleRows!Due(r)
        BY <1>1, <3>1
      <3>3. \A r \in DOMAIN s6' : s6'[r] = s4[r]
        BY <2>3, <3>1
      <3> QED
        BY <1>1, <2>1, <2>4, <3>2, <3>3
    <2>6. CASE RuleRows!ClickHeader
      <3>1. s5' = [s5 EXCEPT !.sort = RuleRows!NextSort(@)]
        BY <2>6 DEF RuleRows!ClickHeader, RuleRows!Refilter
      <3>2. s5'.severity = s5.severity /\ s5'.risk = s5.risk /\ s5'.search = s5.search
        BY <1>4, <3>1 DEF RuleRows!Filters
      <3>3. RulesDisplayed(s4, s5') = RulesDisplayed(s4, s5)
        BY <3>2 DEF RulesDisplayed, RuleMatches
      <3>4. s6' = s6
        BY <1>4, <2>3, <3>3
      <3> QED
        BY <1>1, <2>1, <2>4, <3>4
    <2> QED
      BY <1>13, <2>5, <2>6
  <1> HIDE DEF Posts, Served, Switched
  <1> QED
    BY <1>6, <1>7, <1>8, <1>9, <1>10, <1>11, <1>12, <1>13, RuleBags DEF RuleRows!Next

LEMMA SwitchesTellRules == RuleSwitches => RuleRows!SwitchShowsRule
  <1> SUFFICES ASSUME RuleSwitches, s7 = EmptyBag, NEW r \in DOMAIN s6 PROVE s6[r] = s8[r]
    BY RuleBags DEF RuleRows!SwitchShowsRule
  <1>1. s5.sort \in RuleRows!SortValues /\ DOMAIN s6 = RulesDisplayed(s4, s5)
    BY DEF RuleSwitches, RuleFields, RuleRows!Filters
  <1>2. r \in DOMAIN s4
    BY <1>1, RenderFits
  <1> QED
    BY <1>2, RuleDue DEF RuleSwitches

LEMMA RulesAreInOrder == RuleFields => RuleRows!RowsInOrder /\ RuleRows!ColumnsUnderHeaders
  <1> SUFFICES ASSUME RuleFields PROVE RuleRows!RowsInOrder /\ RuleRows!ColumnsUnderHeaders
    OBVIOUS
  <1> DEFINE rows == RuleRows!DisplayedTableRows(DOMAIN s4, s5)
  <1>1. s5.sort \in RuleRows!SortValues /\ DOMAIN s6 = RulesDisplayed(s4, s5)
        /\ s5.severity \in {"All"} \cup RuleRows!Severities
    BY DEF RuleFields, RuleRows!Filters
  <1>2. RuleRows!Range(rows) = RuleMatches(DOMAIN s4, s5)
    BY <1>1, RuleRange
  <1>3. ASSUME NEW row \in RuleMatches(DOMAIN s4, s5)
        PROVE  /\ row.rule \in DOMAIN s6 /\ ListedCategory[row.rule] = s1
               /\ s5.severity \in {"All", row.severity}
    <2>1. row.rule \in DOMAIN s6
      BY <1>1 DEF RulesDisplayed
    <2>2. row.rule \in DOMAIN s4
      BY <1>1, <2>1, RenderFits
    <2>3. DOMAIN s4 \subseteq RuleRows!RulesOf(s1)
      BY DEF RuleFields, RuleRows!NoRules
    <2>4. s5.severity # ""
      BY <1>1 DEF RuleRows!Severities
    <2> QED
      BY <2>1, <2>2, <2>3, <2>4, RuleMatchesFit DEF RuleRows!RulesOf
  <1>4. \A i, j \in DOMAIN rows : i < j =>
               /\ s5.sort = "Dec" => RuleRows!Rank[rows[i].severity] >= RuleRows!Rank[rows[j].severity]
               /\ s5.sort = "Inc" => RuleRows!Rank[rows[i].severity] =< RuleRows!Rank[rows[j].severity]
    BY <1>1, RuleRowsDisplayed
  <1>5. RuleRows!RowsInOrder
    <2> HIDE DEF rows
    <2> QED
      BY <1>2, <1>3, <1>4 DEF RuleRows!RowsInOrder, RuleRows!InOrder, rows
  <1>6. RuleRows!ColumnsUnderHeaders
    <2>1. s1 \in RuleRows!Categories
      BY DEF RuleFields
    <2> QED
      BY <2>1 DEF RuleRows!ColumnsUnderHeaders, RuleRows!Columns, RuleRows!TableColumnHeaders,
         RuleRows!TableHeaderCSS, RuleRows!Categories
  <1> QED
    BY <1>5, <1>6

-----------------------------------------------------------------------------
(* The table of alerts.                                                    *)

(* The rank sort of the model is a sort.                                   *)
LEMMA AlertRowsSorted ==
  ASSUME NEW T, NEW R, IsOrder(T, R)
  PROVE  /\ DOMAIN AlertRows!Sorted(T, R) = 1 .. Cardinality(T)
         /\ {AlertRows!Sorted(T, R)[i] : i \in DOMAIN AlertRows!Sorted(T, R)} = T
         /\ \A i, j \in DOMAIN AlertRows!Sorted(T, R) : i < j =>
                <<AlertRows!Sorted(T, R)[i], AlertRows!Sorted(T, R)[j]>> \in R
  <1> DEFINE s == AlertRows!Sorted(T, R)
             count(S) == AlertRows!Cardinality(S)
             before(x) == {r \in T : <<r, x>> \in R}
             At(i) == CHOOSE x \in T : count(before(x)) = i - 1
  <1>1. \A S : count(S) = Cardinality(S)
    BY DEF Cardinality, AlertRows!Cardinality
  <1>2. s = [i \in 1 .. count(T) |-> At(i)]
    BY DEF AlertRows!Sorted
  <1> HIDE DEF count
  <1>3. ASSUME NEW i \in 1 .. Cardinality(T)
        PROVE  At(i) \in T /\ count(before(At(i))) = i - 1
    <2>1. \E x \in T : count(before(x)) = i - 1
      BY <1>1, EveryPlaceIsTaken DEF Before
    <2> QED
      BY <2>1
  <1> HIDE DEF s, At
  <1>4. DOMAIN s = 1 .. Cardinality(T) /\ \A i \in DOMAIN s : s[i] = At(i)
    BY <1>1, <1>2
  <1>5. \A i \in DOMAIN s : s[i] \in T /\ Cardinality(Before(s[i], T, R)) = i - 1
    BY <1>1, <1>3, <1>4 DEF Before
  <1>6. /\ {s[i] : i \in DOMAIN s} = T
        /\ \A i, j \in DOMAIN s : i < j => <<s[i], s[j]>> \in R
    BY <1>4, <1>5, SortedByPlace
  <1> QED
    BY <1>4, <1>6 DEF s

LEMMA AlertCardinality == \A S : AlertRows!Cardinality(S) = Cardinality(S)
  BY DEF Cardinality, AlertRows!Cardinality

(* The rows that pass the filters.                                         *)
AlertMatches ==
    AlertRows!zeroAlertFilter(AlertRows!searchFilterFn(
        AlertRows!risksFilterFn(AlertRows!severityFilterFn(AlertRows!AllRows, s3.severity), s3.risk),
        s3.search))

LEMMA AlertsFit ==
  /\ AlertedRules \in Seq(AlertRows!Range(AlertedRules))
  /\ RuleCategory \in [AlertRows!Range(AlertedRules) -> AlertRows!Categories]
  /\ RuleSeverity \in [AlertRows!Range(AlertedRules) -> AlertRows!Severities]
  /\ IsFiniteSet(TableAlerts) /\ DOMAIN AccountOfAlert = TableAlerts
  /\ RuleOfAlert \in [TableAlerts -> AlertRows!Range(AlertedRules)]
  /\ StatusOfAlert \in [TableAlerts -> {"failed", "passed"}]
  /\ \A a \in TableAlerts : RuleCategory[RuleOfAlert[a]] = "vulnerability" => StatusOfAlert[a] = "failed"
  <1>1. AlertRows!ConstantsFit
    BY PagesFit
  <1>2. IsFiniteSet(TableAlerts)
    BY <1>1 DEF AlertRows!ConstantsFit, AlertRows!IsFiniteSet, IsFiniteSet
  <1> QED
    BY <1>1, <1>2 DEF AlertRows!ConstantsFit

(* The number of a row is that of the alerts below it.                     *)
LEMMA CountIsNested ==
  ASSUME NEW r, RuleCategory[r] = s1
  PROVE  /\ AlertRows!Count(r) = Cardinality(AlertRows!NestedAlerts(r))
         /\ IsFiniteSet(AlertRows!NestedAlerts(r))
         /\ AlertRows!Count(r) \in Nat
  <1> DEFINE counted == {a \in TableAlerts :
        /\ RuleOfAlert[a] = r
        /\ (a \in s2) = (s3.muted = "Muted")
        /\ s1 = "vulnerability" \/ s3.status = "All" \/ StatusOfAlert[a] = "failed"
        /\ s3.account \in {"All", AccountOfAlert[a]}}
  <1>1. counted = AlertRows!NestedAlerts(r)
    BY AlertsFit DEF AlertRows!NestedAlerts
  <1>2. AlertRows!Count(r) = AlertRows!Cardinality(counted)
    BY DEF AlertRows!Count
  <1>3. counted \in SUBSET TableAlerts
    OBVIOUS
  <1> HIDE DEF counted
  <1>4. IsFiniteSet(counted) /\ Cardinality(counted) \in Nat
    BY <1>3, AlertsFit, FS_Subset, FS_CardinalityType
  <1> QED
    BY <1>1, <1>2, <1>4, AlertCardinality

LEMMA AlertRowsFinite ==
  /\ IsFiniteSet(AlertRows!AllRows)
  /\ \A row \in AlertRows!AllRows :
        /\ row.place \in Int /\ RuleCategory[row.rule] = s1
        /\ row.severity \in AlertRows!Severities
        /\ row.alerts = AlertRows!Count(row.rule)
  /\ \A i \in DOMAIN AlertedRules : RuleCategory[AlertedRules[i]] = s1 =>
        \E row \in AlertRows!AllRows : row.rule = AlertedRules[i]
  /\ \A x, y \in AlertRows!AllRows : x.place = y.place => x = y
  <1> DEFINE I == {i \in DOMAIN AlertedRules : RuleCategory[AlertedRules[i]] = s1}
             Row(i) == [place |-> i, rule |-> AlertedRules[i], severity |-> RuleSeverity[AlertedRules[i]],
                        risks |-> RuleRisks[AlertedRules[i]], words |-> RuleWords[AlertedRules[i]],
                        alerts |-> AlertRows!Count(AlertedRules[i])]
             row == [i \in I |-> Row(i)]
  <1>1. AlertRows!AllRows = {Row(i) : i \in I}
    BY DEF AlertRows!AllRows
  <1>2. IsFiniteSet(DOMAIN AlertedRules) /\ I \subseteq DOMAIN AlertedRules /\ I \subseteq Int
    <2>1. DOMAIN AlertedRules = 1 .. Len(AlertedRules) /\ Len(AlertedRules) \in Nat
      BY AlertsFit
    <2> HIDE DEF I
    <2>2. IsFiniteSet(1 .. Len(AlertedRules))
      BY <2>1, FS_Interval
    <2> USE DEF I
    <2> QED
      BY <2>1, <2>2
  <1>3. IsFiniteSet({Row(i) : i \in I})
    <2> HIDE DEF Row
    <2>1. row \in Surjection(I, {Row(i) : i \in I})
      BY Fun_IsSurj
    <2>2. IsFiniteSet(I)
      BY <1>2, FS_Subset
    <2> HIDE DEF row, I
    <2> QED
      BY <2>1, <2>2, FS_Surjection
  <1>4. \A i \in DOMAIN AlertedRules : RuleSeverity[AlertedRules[i]] \in AlertRows!Severities
    BY AlertsFit
  <1>5. \A x \in {Row(i) : i \in I} :
        /\ x.place \in Int /\ RuleCategory[x.rule] = s1
        /\ x.severity \in AlertRows!Severities
        /\ x.alerts = AlertRows!Count(x.rule)
    BY <1>2, <1>4
  <1>6. \A x, y \in {Row(i) : i \in I} : x.place = y.place => x = y
    OBVIOUS
  <1>7. \A i \in I : Row(i) \in {Row(j) : j \in I} /\ Row(i).rule = AlertedRules[i]
    OBVIOUS
  <1> HIDE DEF Row
  <1> QED
    BY <1>1, <1>3, <1>5, <1>6, <1>7

LEMMA AlertMatchesFit ==
  /\ AlertMatches \subseteq AlertRows!AllRows
  /\ IsFiniteSet(AlertMatches)
  <1>1. AlertMatches \in SUBSET AlertRows!AllRows
    BY DEF AlertMatches, AlertRows!zeroAlertFilter, AlertRows!searchFilterFn, AlertRows!risksFilterFn,
           AlertRows!severityFilterFn
  <1> QED
    BY <1>1, AlertRowsFinite, FS_Subset

LEMMA AlertSeverityRanks ==
  ASSUME NEW a, NEW b, a.severity \in AlertRows!Severities, b.severity \in AlertRows!Severities
  PROVE  /\ AlertRows!Rank[a.severity] \in Int /\ AlertRows!Rank[b.severity] \in Int
         /\ AlertRows!severitySortTypeFn(a, b) \in Int
         /\ AlertRows!severitySortTypeFn(a, b) < 0 <=> AlertRows!Rank[a.severity] < AlertRows!Rank[b.severity]
         /\ AlertRows!severitySortTypeFn(a, b) > 0 <=> AlertRows!Rank[a.severity] > AlertRows!Rank[b.severity]
         /\ AlertRows!severitySortTypeFn(a, b) = 0 <=> AlertRows!Rank[a.severity] = AlertRows!Rank[b.severity]
  BY DEF AlertRows!Severities, AlertRows!Rank, AlertRows!severitySortTypeFn

LEMMA AlertNumberRanks ==
  ASSUME NEW a, NEW b, a.alerts \in Nat, b.alerts \in Nat
  PROVE  /\ AlertRows!alertNumberSortTypeFn(a, b) \in Int
         /\ AlertRows!alertNumberSortTypeFn(a, b) < 0 <=> a.alerts < b.alerts
         /\ AlertRows!alertNumberSortTypeFn(a, b) > 0 <=> a.alerts > b.alerts
         /\ AlertRows!alertNumberSortTypeFn(a, b) = 0 <=> a.alerts = b.alerts
  BY DEF AlertRows!alertNumberSortTypeFn

LEMMA SignedKeys ==
  ASSUME NEW sign, sign = 1 \/ sign = -1, NEW a \in Int, NEW b \in Int, NEW c \in Int,
         c < 0 <=> a < b, c > 0 <=> a > b
  PROVE  /\ sign * a \in Int /\ sign * b \in Int
         /\ sign * c < 0 <=> sign * a < sign * b
         /\ c = 0 <=> sign * a = sign * b
  <1>1. c = 0 <=> a = b
    OBVIOUS
  <1>2. CASE sign = 1
    BY <1>1, <1>2
  <1>3. CASE sign = -1
    BY <1>1, <1>3
  <1> QED
    BY <1>2, <1>3

(* The rows displayed are those that match, in the order of the headers.   *)
LEMMA AlertRowsDisplayed ==
  ASSUME s3.sort.severity \in AlertRows!SortValues, s3.sort.alerts \in AlertRows!SortValues
  PROVE  LET s == AlertRows!DisplayedTableRows IN
         /\ {s[i] : i \in DOMAIN s} = AlertMatches
         /\ \A i \in DOMAIN s : s[i] \in AlertMatches
         /\ DOMAIN s \subseteq Int
         /\ \A i, j \in DOMAIN s : i < j =>
               /\ s3.sort.alerts = "Dec" => s[i].alerts >= s[j].alerts
               /\ s3.sort.alerts = "Inc" => s[i].alerts =< s[j].alerts
               /\ s3.sort.alerts = "None" /\ s3.sort.severity = "Dec" =>
                     AlertRows!Rank[s[i].severity] >= AlertRows!Rank[s[j].severity]
               /\ s3.sort.alerts = "None" /\ s3.sort.severity = "Inc" =>
                     AlertRows!Rank[s[i].severity] =< AlertRows!Rank[s[j].severity]
  <1> DEFINE T == AlertMatches
             s == AlertRows!DisplayedTableRows
             A == s3.sort.alerts
             S == s3.sort.severity
             sign(v) == IF v = "Dec" THEN -1 ELSE 1
             rank(x) == AlertRows!Rank[x.severity]
             key(x) == IF A # "None" THEN sign(A) * x.alerts
                       ELSE IF S # "None" THEN sign(S) * rank(x) ELSE 0
             k == [x \in T |-> key(x)]
             R == ByKey(T, k)
  <1>1. /\ IsFiniteSet(T)
        /\ \A x \in T : x.severity \in AlertRows!Severities /\ x.place \in Int /\ rank(x) \in Int
                        /\ x.alerts \in Nat
        /\ \A x, y \in T : x.place = y.place => x = y
    <2>1. T \subseteq AlertRows!AllRows /\ IsFiniteSet(T)
      BY AlertMatchesFit
    <2>2. \A x \in T : x.alerts \in Nat
      BY <2>1, AlertRowsFinite, CountIsNested
    <2>3. \A x \in T : x.severity \in AlertRows!Severities /\ rank(x) \in Int
      BY <2>1, AlertRowsFinite, AlertSeverityRanks
    <2> QED
      BY <2>1, <2>2, <2>3, AlertRowsFinite
  <1>2. ASSUME NEW v PROVE sign(v) = 1 \/ sign(v) = -1
    OBVIOUS
  <1>3. ASSUME NEW x \in T, NEW y \in T
        PROVE  /\ k[x] \in Int /\ k[y] \in Int
               /\ A = "None" /\ S = "None" => (<<x, y>> \in R <=> x.place < y.place)
               /\ A # "None" => (<<x, y>> \in R <=>
                       \/ sign(A) * AlertRows!alertNumberSortTypeFn(x, y) < 0
                       \/ AlertRows!alertNumberSortTypeFn(x, y) = 0 /\ x.place < y.place)
               /\ A = "None" /\ S # "None" => (<<x, y>> \in R <=>
                       \/ sign(S) * AlertRows!severitySortTypeFn(x, y) < 0
                       \/ AlertRows!severitySortTypeFn(x, y) = 0 /\ x.place < y.place)
    <2>1. /\ <<x, y>> \in R <=> k[x] < k[y] \/ (k[x] = k[y] /\ x.place < y.place)
          /\ k[x] = key(x) /\ k[y] = key(y)
      BY DEF ByKey
    <2> HIDE DEF k, R, sign
    <2>2. CASE A # "None"
      <3> DEFINE c == AlertRows!alertNumberSortTypeFn(x, y)
                 a == x.alerts
                 b == y.alerts
      <3>1. a \in Int /\ b \in Int /\ c \in Int /\ (c < 0 <=> a < b) /\ (c > 0 <=> a > b)
        BY <1>1, AlertNumberRanks
      <3>2. k[x] = sign(A) * a /\ k[y] = sign(A) * b
        BY <2>1, <2>2
      <3> HIDE DEF a, b, c
      <3>3. /\ sign(A) * a \in Int /\ sign(A) * b \in Int
            /\ sign(A) * c < 0 <=> sign(A) * a < sign(A) * b
            /\ c = 0 <=> sign(A) * a = sign(A) * b
        BY <1>2, <3>1, SignedKeys
      <3> QED
        BY <2>1, <2>2, <3>2, <3>3 DEF c
    <2>3. CASE A = "None" /\ S # "None"
      <3> DEFINE c == AlertRows!severitySortTypeFn(x, y)
                 a == rank(x)
                 b == rank(y)
      <3>1. a \in Int /\ b \in Int /\ c \in Int /\ (c < 0 <=> a < b) /\ (c > 0 <=> a > b)
        BY <1>1, AlertSeverityRanks
      <3>2. k[x] = sign(S) * a /\ k[y] = sign(S) * b
        BY <2>1, <2>3
      <3> HIDE DEF a, b, c
      <3>3. /\ sign(S) * a \in Int /\ sign(S) * b \in Int
            /\ sign(S) * c < 0 <=> sign(S) * a < sign(S) * b
            /\ c = 0 <=> sign(S) * a = sign(S) * b
        BY <1>2, <3>1, SignedKeys
      <3> QED
        BY <2>1, <2>3, <3>2, <3>3 DEF c
    <2>4. CASE A = "None" /\ S = "None"
      BY <2>1, <2>4
    <2> QED
      BY <2>2, <2>3, <2>4
  <1>4. IsOrder(T, R)
    <2>1. \A x \in T : k[x] \in Int
      BY <1>3
    <2> HIDE DEF T, k
    <2> QED
      BY <1>1, <2>1, KeyOrder
  <1>5. R \subseteq T \X T
    BY DEF ByKey
  <1>6. s = AlertRows!Sorted(T, R)
    <2> HIDE DEF R
    <2>1. CASE A = "None" /\ S = "None"
      <3>1. R = {p \in T \X T : p[1].place < p[2].place}
        BY <1>3, <1>5, <2>1
      <3> QED
        BY <2>1, <3>1 DEF AlertRows!DisplayedTableRows, AlertRows!Unsorted, AlertMatches
    <2>2. CASE A # "None"
      <3>1. R = {p \in T \X T : \/ sign(A) * AlertRows!alertNumberSortTypeFn(p[1], p[2]) < 0
                                \/ /\ AlertRows!alertNumberSortTypeFn(p[1], p[2]) = 0
                                   /\ p[1].place < p[2].place}
        <4> HIDE DEF sign
        <4> QED
          BY <1>3, <1>5, <2>2
      <3> QED
        BY <2>2, <3>1 DEF AlertRows!DisplayedTableRows, AlertRows!Arranged, AlertMatches
    <2>3. CASE A = "None" /\ S # "None"
      <3>1. R = {p \in T \X T : \/ sign(S) * AlertRows!severitySortTypeFn(p[1], p[2]) < 0
                                \/ /\ AlertRows!severitySortTypeFn(p[1], p[2]) = 0
                                   /\ p[1].place < p[2].place}
        <4> HIDE DEF sign
        <4> QED
          BY <1>3, <1>5, <2>3
      <3> QED
        BY <2>3, <3>1 DEF AlertRows!DisplayedTableRows, AlertRows!Arranged, AlertMatches
    <2> QED
      BY <2>1, <2>2, <2>3
  <1>7. /\ DOMAIN s = 1 .. Cardinality(T)
        /\ {s[i] : i \in DOMAIN s} = T
        /\ \A i, j \in DOMAIN s : i < j => <<s[i], s[j]>> \in R
    <2> HIDE DEF s, R, T
    <2> QED
      BY <1>4, <1>6, AlertRowsSorted
  <1>8. Cardinality(T) \in Nat
    BY <1>1, FS_CardinalityType
  <1>9. ASSUME NEW i \in DOMAIN s, NEW j \in DOMAIN s, i < j
        PROVE  /\ A = "Dec" => s[i].alerts >= s[j].alerts
               /\ A = "Inc" => s[i].alerts =< s[j].alerts
               /\ A = "None" /\ S = "Dec" => rank(s[i]) >= rank(s[j])
               /\ A = "None" /\ S = "Inc" => rank(s[i]) =< rank(s[j])
    <2> DEFINE x == s[i]
               y == s[j]
               a == rank(x)
               b == rank(y)
               m == x.alerts
               n == y.alerts
    <2>1. x \in T /\ y \in T /\ <<x, y>> \in R
      BY <1>7, <1>9
    <2>2. a \in Int /\ b \in Int /\ m \in Int /\ n \in Int
      BY <1>1, <2>1
    <2>3. key(x) < key(y) \/ key(x) = key(y)
      <3>1. k[x] < k[y] \/ k[x] = k[y]
        <4> HIDE DEF k, x, y
        <4> QED
          BY <2>1 DEF ByKey
      <3> QED
        BY <2>1, <3>1
    <2>4. /\ key(x) = IF A # "None" THEN sign(A) * m ELSE IF S # "None" THEN sign(S) * a ELSE 0
          /\ key(y) = IF A # "None" THEN sign(A) * n ELSE IF S # "None" THEN sign(S) * b ELSE 0
      OBVIOUS
    <2> HIDE DEF key, a, b, m, n
    <2>5. /\ A = "Dec" => m >= n
          /\ A = "Inc" => m =< n
          /\ A = "None" /\ S = "Dec" => a >= b
          /\ A = "None" /\ S = "Inc" => a =< b
      BY <2>2, <2>3, <2>4
    <2> QED
      BY <2>5 DEF a, b, m, n
  <1> HIDE DEF s, T
  <1> QED
    BY <1>7, <1>8, <1>9 DEF s, T

LEMMA AlertsAreInOrder ==
  AlertRows!SortInv => AlertRows!RowsInOrder /\ AlertRows!ColumnsUnderHeaders
  <1> SUFFICES ASSUME AlertRows!SortInv PROVE AlertRows!RowsInOrder /\ AlertRows!ColumnsUnderHeaders
    OBVIOUS
  <1>1. /\ s3.sort.severity \in AlertRows!SortValues /\ s3.sort.alerts \in AlertRows!SortValues
        /\ s3.sort.severity = "None" \/ s3.sort.alerts = "None"
        /\ s1 \in AlertRows!Categories
    BY DEF AlertRows!SortInv, AlertRows!TypeOK, AlertRows!Filters
  <1>2. AlertRows!RowsInOrder
    BY <1>1, AlertRowsDisplayed DEF AlertRows!RowsInOrder, AlertRows!InOrder
  <1>3. AlertRows!ColumnsUnderHeaders
    BY <1>1 DEF AlertRows!ColumnsUnderHeaders, AlertRows!Columns, AlertRows!TableColumnHeaders,
         AlertRows!TableHeaderCSS, AlertRows!Categories
  <1> QED
    BY <1>2, <1>3

(* With every filter open, each alert is in the muted or the unmuted view. *)
LEMMA AlertsAreCounted ==
  AlertRows!SortInv => AlertRows!CountsAreNested /\ AlertRows!NothingIsLost
  <1> SUFFICES ASSUME AlertRows!SortInv PROVE AlertRows!CountsAreNested /\ AlertRows!NothingIsLost
    OBVIOUS
  <1>1. /\ s3.sort.severity \in AlertRows!SortValues /\ s3.sort.alerts \in AlertRows!SortValues
        /\ s3.muted \in {"Muted", "Unmuted"}
    BY DEF AlertRows!SortInv, AlertRows!TypeOK, AlertRows!Filters
  <1>2. AlertRows!Range(AlertRows!DisplayedTableRows) = AlertMatches
    BY <1>1, AlertRowsDisplayed DEF AlertRows!Range
  <1>3. AlertRows!CountsAreNested
    <2>1. \A row \in AlertMatches : row.alerts = AlertRows!Count(row.rule) /\ RuleCategory[row.rule] = s1
      BY AlertMatchesFit, AlertRowsFinite
    <2>2. \A row \in AlertMatches : row.alerts = AlertRows!Cardinality(AlertRows!NestedAlerts(row.rule))
      BY <2>1, CountIsNested, AlertCardinality
    <2> QED
      BY <1>2, <2>2 DEF AlertRows!CountsAreNested
  <1>4. ASSUME AlertRows!WideOpen
        PROVE  UNION {AlertRows!NestedAlerts(r) : r \in AlertRows!Shown}
                  = IF s3.muted = "Muted" THEN AlertRows!AlertsOf(s1) \cap s2
                    ELSE AlertRows!AlertsOf(s1) \ s2
    <2>1. \A r, a : a \in AlertRows!NestedAlerts(r) <=>
              a \in TableAlerts /\ RuleOfAlert[a] = r /\ (a \in s2) = (s3.muted = "Muted")
      BY <1>4 DEF AlertRows!NestedAlerts, AlertRows!WideOpen
    <2>2. AlertRows!Shown = {row.rule : row \in AlertMatches}
      BY <1>2 DEF AlertRows!Shown
    <2>3. AlertMatches = {row \in AlertRows!AllRows : row.alerts > 0}
      BY <1>4 DEF AlertMatches, AlertRows!WideOpen, AlertRows!zeroAlertFilter, AlertRows!searchFilterFn,
         AlertRows!risksFilterFn, AlertRows!severityFilterFn
    <2>4. \A r \in AlertRows!Shown : RuleCategory[r] = s1
      BY <2>2, <2>3, AlertRowsFinite
    <2>5. ASSUME NEW a \in TableAlerts, RuleCategory[RuleOfAlert[a]] = s1,
                 (a \in s2) = (s3.muted = "Muted")
          PROVE  RuleOfAlert[a] \in AlertRows!Shown
      <3> DEFINE r == RuleOfAlert[a]
      <3>1. PICK i \in DOMAIN AlertedRules : AlertedRules[i] = r
        BY AlertsFit DEF AlertRows!Range
      <3>2. PICK row \in AlertRows!AllRows : row.rule = r
        BY <2>5, <3>1, AlertRowsFinite
      <3>3. row.alerts = Cardinality(AlertRows!NestedAlerts(r)) /\ row.alerts \in Nat
            /\ IsFiniteSet(AlertRows!NestedAlerts(r))
        BY <2>5, <3>2, AlertRowsFinite, CountIsNested
      <3>4. a \in AlertRows!NestedAlerts(r)
        BY <2>1, <2>5
      <3>5. row.alerts # 0
        BY <3>3, <3>4, FS_EmptySet
      <3> QED
        BY <2>2, <2>3, <3>2, <3>3, <3>5
    <2>6. AlertRows!AlertsOf(s1) = {a \in TableAlerts : RuleCategory[RuleOfAlert[a]] = s1}
      BY DEF AlertRows!AlertsOf
    <2>7. \A a : a \in UNION {AlertRows!NestedAlerts(r) : r \in AlertRows!Shown} <=>
                 a \in AlertRows!AlertsOf(s1) /\ (a \in s2) = (s3.muted = "Muted")
      BY <2>1, <2>4, <2>5, <2>6
    <2> QED
      BY <2>7
  <1> QED
    BY <1>3, <1>4 DEF AlertRows!NothingIsLost

(* Filters that travel in the address come back as they were.              *)
LEMMA FiltersTravel ==
  /\ \A f \in AlertRows!Filters : AlertRows!SearchParams(AlertRows!QueryParams(f)) = f
  /\ AlertRows!SearchParams(<<>>) = AlertRows!Default
  <1>1. ASSUME NEW f \in AlertRows!Filters
        PROVE  AlertRows!SearchParams(AlertRows!QueryParams(f)) = f
    <2>1. f = [severity |-> f.severity, risk |-> f.risk, search |-> f.search, muted |-> f.muted,
               status |-> f.status, account |-> f.account, sort |-> f.sort]
      BY DEF AlertRows!Filters
    <2> QED
      BY <2>1 DEF AlertRows!SearchParams, AlertRows!QueryParams, AlertRows!InnerAlerts
  <1>2. DOMAIN <<>> = {}
    OBVIOUS
  <1> QED
    BY <1>1, <1>2 DEF AlertRows!SearchParams, AlertRows!InnerAlerts, AlertRows!Default

LEMMA AlertsTableInit == AlertRows!Init => AlertRows!SortInv
  <1> SUFFICES ASSUME AlertRows!Init PROVE AlertRows!SortInv
    OBVIOUS
  <1>1. AlertRows!Default \in AlertRows!Filters
    BY DEF AlertRows!Default, AlertRows!Filters, AlertRows!SortValues
  <1>2. AlertRows!Default.sort.alerts = "None"
    BY DEF AlertRows!Default
  <1> QED
    BY <1>1, <1>2 DEF AlertRows!Init, AlertRows!SortInv, AlertRows!TypeOK

LEMMA AlertsTableStep ==
  ASSUME AlertRows!SortInv, [AlertRows!Next]_(AlertRows!vars)
  PROVE  (AlertRows!SortInv)' /\ AlertRows!FiltersSurviveAlert
  <1> DEFINE F == AlertRows!Filters
             OneSort(f) == f.sort.severity = "None" \/ f.sort.alerts = "None"
             Rest == /\ s1 \in AlertRows!Categories /\ s2 \subseteq TableAlerts
                     /\ s4 \subseteq AlertRows!Range(AlertedRules)
                     /\ s5 \in TableAlerts \cup {"none"}
  <1>1. Rest /\ s3 \in F /\ OneSort(s3)
    BY DEF AlertRows!SortInv, AlertRows!TypeOK
  <1>2. SUFFICES Rest' /\ s3' \in F /\ OneSort(s3') /\ (s5 # s5' => s3' = s3)
    BY DEF AlertRows!SortInv, AlertRows!TypeOK, AlertRows!FiltersSurviveAlert
  <1>3. AlertRows!Default \in F /\ OneSort(AlertRows!Default)
    BY DEF AlertRows!Default, AlertRows!Filters, AlertRows!SortValues
  <1>4. CASE UNCHANGED AlertRows!vars
    BY <1>1, <1>4 DEF AlertRows!vars
  <1>5. CASE AlertRows!Filter
    <2>1. UNCHANGED <<s1, s2, s4, s5>>
      BY <1>5 DEF AlertRows!Filter
    <2>2. s3' \in F /\ OneSort(s3')
      <3>1. s3 \in [severity: {"All", "Critical", "High", "Medium", "Low"}, risk: {"All", "Vulnerability"},
            search: {""} \cup AlertTerms, muted: {"Muted", "Unmuted"}, status: {"Failed", "All"},
            account: {"All"} \cup AlertRows!Range(AccountOfAlert),
            sort: [severity: AlertRows!SortValues, alerts: AlertRows!SortValues]]
        BY <1>1 DEF AlertRows!Filters
      <3>2. ASSUME NEW v \in {"All", "Critical", "High", "Medium", "Low"}, s3' = [s3 EXCEPT !["severity"] = v]
            PROVE  s3' \in F /\ OneSort(s3')
        BY <1>1, <3>1, <3>2 DEF AlertRows!Filters
      <3>3. ASSUME NEW v \in {"All", "Vulnerability"}, s3' = [s3 EXCEPT !["risk"] = v]
            PROVE  s3' \in F /\ OneSort(s3')
        BY <1>1, <3>1, <3>3 DEF AlertRows!Filters
      <3>4. ASSUME NEW v \in {""} \cup AlertTerms, s3' = [s3 EXCEPT !["search"] = v]
            PROVE  s3' \in F /\ OneSort(s3')
        BY <1>1, <3>1, <3>4 DEF AlertRows!Filters
      <3>5. ASSUME NEW v \in {"Muted", "Unmuted"}, s3' = [s3 EXCEPT !["muted"] = v]
            PROVE  s3' \in F /\ OneSort(s3')
        BY <1>1, <3>1, <3>5 DEF AlertRows!Filters
      <3>6. ASSUME NEW v \in {"Failed", "All"}, s3' = [s3 EXCEPT !["status"] = v]
            PROVE  s3' \in F /\ OneSort(s3')
        BY <1>1, <3>1, <3>6 DEF AlertRows!Filters
      <3>7. ASSUME NEW v \in {"All"} \cup AlertRows!Range(AccountOfAlert), s3' = [s3 EXCEPT !["account"] = v]
            PROVE  s3' \in F /\ OneSort(s3')
        BY <1>1, <3>1, <3>7 DEF AlertRows!Filters
      <3>8. {AccountOfAlert[a] : a \in {a \in TableAlerts : RuleCategory[RuleOfAlert[a]] = s1}}
               \subseteq AlertRows!Range(AccountOfAlert)
        BY AlertsFit DEF AlertRows!Range
      <3> HIDE DEF F, OneSort
      <3> QED
        BY <1>5, <3>2, <3>3, <3>4, <3>5, <3>6, <3>7, <3>8 DEF AlertRows!Filter, AlertRows!Select
    <2> QED
      BY <1>1, <2>1, <2>2
  <1>6. ASSUME NEW column \in {"severity", "alerts"}, AlertRows!ClickHeader(column) PROVE <1>2!1
    <2> DEFINE sort == [c \in {"severity", "alerts"} |->
                          IF c = column THEN AlertRows!NextSort(s3.sort[c]) ELSE "None"]
    <2>1. UNCHANGED <<s1, s2, s4, s5>> /\ s3' = [s3 EXCEPT !.sort = sort]
      BY <1>6 DEF AlertRows!ClickHeader
    <2>2. \A v : AlertRows!NextSort(v) \in AlertRows!SortValues
      BY DEF AlertRows!NextSort, AlertRows!SortValues
    <2>3. /\ sort \in [severity: AlertRows!SortValues, alerts: AlertRows!SortValues]
          /\ sort.severity = "None" \/ sort.alerts = "None"
      BY <2>2 DEF AlertRows!SortValues
    <2> HIDE DEF sort
    <2>4. s3' \in F /\ s3'.sort = sort
      BY <1>1, <2>1, <2>3 DEF AlertRows!Filters
    <2> QED
      BY <1>1, <2>1, <2>3, <2>4
  <1>7. ASSUME NEW r \in AlertRows!Range(AlertedRules), AlertRows!FlipRow(r) PROVE <1>2!1
    BY <1>1, <1>7 DEF AlertRows!FlipRow
  <1>8. ASSUME NEW a \in TableAlerts, AlertRows!toggleAlertMuteState(a) PROVE <1>2!1
    BY <1>1, <1>8 DEF AlertRows!toggleAlertMuteState
  <1>9. ASSUME NEW a \in TableAlerts, AlertRows!NavigateSlideover(a) PROVE <1>2!1
    <2>1. s3' = s3
      BY <1>1, <1>9, FiltersTravel DEF AlertRows!NavigateSlideover
    <2>2. UNCHANGED <<s1, s2>> /\ s5' = a /\ s4' = {RuleOfAlert[a]}
      BY <1>9 DEF AlertRows!NavigateSlideover
    <2>3. RuleOfAlert[a] \in AlertRows!Range(AlertedRules)
      BY AlertsFit
    <2> QED
      BY <1>1, <2>1, <2>2, <2>3
  <1>10. CASE AlertRows!NavigateOnSideBarClose
    <2>1. s3' = s3
      BY <1>1, <1>10, FiltersTravel DEF AlertRows!NavigateOnSideBarClose
    <2>2. UNCHANGED <<s1, s2>> /\ s5' = "none" /\ s4' = {}
      BY <1>10 DEF AlertRows!NavigateOnSideBarClose
    <2> QED
      BY <1>1, <2>1, <2>2
  <1>11. ASSUME NEW c \in AlertRows!Categories, AlertRows!NavigateOnTabClick(c) PROVE <1>2!1
    <2>1. /\ s1' = c /\ s3' = AlertRows!Default /\ s4' = {} /\ UNCHANGED <<s2, s5>>
      BY <1>11, FiltersTravel DEF AlertRows!NavigateOnTabClick
    <2> QED
      BY <1>1, <1>3, <2>1
  <1> HIDE DEF OneSort, Rest, F
  <1> QED
    BY <1>4, <1>5, <1>6, <1>7, <1>8, <1>9, <1>10, <1>11 DEF AlertRows!Next

-----------------------------------------------------------------------------
(* The buttons that mute alerts.                                           *)

(* The operators on bags of the instance are those of the library.         *)
LEMMA MuteBags ==
  /\ \A x, y : MuteMenu!(-)(x, y) = x (-) y /\ MuteMenu!(+)(x, y) = x (+) y
  /\ \A x : MuteMenu!BagToSet(x) = BagToSet(x) /\ (MuteMenu!IsABag(x) <=> IsABag(x))
  /\ \A x : MuteMenu!SetToBag(x) = SetToBag(x)
  /\ MuteMenu!EmptyBag = EmptyBag
  BY DEF (-), (+), BagToSet, IsABag, EmptyBag, SetToBag, MuteMenu!(-), MuteMenu!(+),
         MuteMenu!BagToSet, MuteMenu!IsABag, MuteMenu!EmptyBag, MuteMenu!SetToBag

LEMMA MutesInit == MuteMenu!Init => MuteMenu!FieldsOK
  <1> SUFFICES ASSUME MuteMenu!Init PROVE MuteMenu!FieldsOK
    OBVIOUS
  <1>1. s5 = 0 /\ 0 \in 0 .. MuteFaults /\ s4 \in SUBSET MutedAlerts
    BY PagesFit DEF MuteMenu!Init, MuteMenu!ConstantsFit
  <1>2. s2 = SetToBag({MuteMenu!Ask}) /\ s3 = EmptyBag /\ s1 = MuteMenu!Empty
    BY MuteBags DEF MuteMenu!Init, MuteMenu!One
  <1>3. MuteMenu!Ask \in [served: BOOLEAN, got: SUBSET MutedAlerts]
    BY DEF MuteMenu!Ask
  <1>4. MuteMenu!IsABag(s2) /\ MuteMenu!BagToSet(s2) \subseteq [served: BOOLEAN, got: SUBSET MutedAlerts]
    <2>1. IsABag(s2) /\ BagToSet(s2) = {MuteMenu!Ask}
      BY <1>2, OneAlone
    <2> QED
      BY <2>1, <1>3, MuteBags
  <1>5. MuteMenu!IsABag(s3) /\ MuteMenu!BagToSet(s3) \subseteq [alert: MutedAlerts, muted: BOOLEAN]
    <2>1. IsABag(s3) /\ BagToSet(s3) = {}
      BY <1>2, OneAlone
    <2> QED
      BY <2>1, MuteBags
  <1> QED
    BY <1>1, <1>2, <1>4, <1>5 DEF MuteMenu!FieldsOK

(* What a step does to the requests under way.                             *)
LEMMA MutesRequests ==
  ASSUME MuteMenu!FieldsOK
  PROVE  /\ \A a \in MutedAlerts : MuteMenu!onClickToggleFn(a) =>
                LET p == [alert |-> a, muted |-> a \notin s1.muted] IN
                /\ p \in [alert: MutedAlerts, muted: BOOLEAN]
                /\ IsABag(s3') /\ BagToSet(s3') = BagToSet(s3) \cup {p}
                /\ BagToSet(s3' (-) s3) = {p} /\ BagToSet(s3 (-) s3') = {}
         /\ \A p \in BagToSet(s3) : MuteMenu!ToggleAlertMuted(p) \/ MuteMenu!PostFails(p) =>
                /\ p \in [alert: MutedAlerts, muted: BOOLEAN]
                /\ IsABag(s3') /\ BagToSet(s3') \subseteq BagToSet(s3)
                /\ BagToSet(s3' (-) s3) = {} /\ BagToSet(s3 (-) s3') = {p}
         /\ MuteMenu!AskAgain \/ MuteMenu!Remount =>
                /\ IsABag(s2') /\ BagToSet(s2') \subseteq BagToSet(s2) \cup {MuteMenu!Ask}
                /\ MuteMenu!Ask \in [served: BOOLEAN, got: SUBSET MutedAlerts]
         /\ \A q \in BagToSet(s2) : MuteMenu!TakeAnswer(q) \/ MuteMenu!AskFails(q) =>
                /\ q \in [served: BOOLEAN, got: SUBSET MutedAlerts]
                /\ IsABag(s2') /\ BagToSet(s2') \subseteq BagToSet(s2)
                /\ BagToSet(s2 (-) s2') = {q}
         /\ \A q \in BagToSet(s2) : MuteMenu!GetAllAlerts(q) =>
                LET r == [q EXCEPT !.served = TRUE, !.got = s4] IN
                /\ r \in [served: BOOLEAN, got: SUBSET MutedAlerts]
                /\ IsABag(s2') /\ BagToSet(s2') \subseteq BagToSet(s2) \cup {r}
  <1> USE MuteBags
  <1>1. /\ IsABag(s2) /\ BagToSet(s2) \subseteq [served: BOOLEAN, got: SUBSET MutedAlerts]
        /\ IsABag(s3) /\ BagToSet(s3) \subseteq [alert: MutedAlerts, muted: BOOLEAN]
        /\ s4 \in SUBSET MutedAlerts
    BY DEF MuteMenu!FieldsOK
  <1>2. ASSUME NEW a \in MutedAlerts, MuteMenu!onClickToggleFn(a)
        PROVE  LET p == [alert |-> a, muted |-> a \notin s1.muted] IN
                /\ p \in [alert: MutedAlerts, muted: BOOLEAN]
                /\ IsABag(s3') /\ BagToSet(s3') = BagToSet(s3) \cup {p}
                /\ BagToSet(s3' (-) s3) = {p} /\ BagToSet(s3 (-) s3') = {}
    <2> DEFINE p == [alert |-> a, muted |-> a \notin s1.muted]
    <2>1. s3' = s3 (+) SetToBag({p})
      BY <1>2 DEF MuteMenu!onClickToggleFn, MuteMenu!One, MuteMenu!NewMutedValue
    <2>2. p \in [alert: MutedAlerts, muted: BOOLEAN]
      OBVIOUS
    <2> HIDE DEF p
    <2>3. /\ IsABag(s3') /\ BagToSet(s3') = BagToSet(s3) \cup {p}
          /\ BagToSet(s3' (-) s3) = {p} /\ BagToSet(s3 (-) s3') = {}
      BY <2>1, <1>1, OneMore
    <2> QED
      BY <2>2, <2>3 DEF p
  <1>3. ASSUME NEW p \in BagToSet(s3), MuteMenu!ToggleAlertMuted(p) \/ MuteMenu!PostFails(p)
        PROVE  /\ p \in [alert: MutedAlerts, muted: BOOLEAN]
               /\ IsABag(s3') /\ BagToSet(s3') \subseteq BagToSet(s3)
               /\ BagToSet(s3' (-) s3) = {} /\ BagToSet(s3 (-) s3') = {p}
    <2>1. s3' = s3 (-) SetToBag({p})
      BY <1>3 DEF MuteMenu!ToggleAlertMuted, MuteMenu!PostFails, MuteMenu!One
    <2> QED
      BY <2>1, <1>1, OneLess
  <1>4. ASSUME MuteMenu!AskAgain \/ MuteMenu!Remount
        PROVE  /\ IsABag(s2') /\ BagToSet(s2') \subseteq BagToSet(s2) \cup {MuteMenu!Ask}
               /\ MuteMenu!Ask \in [served: BOOLEAN, got: SUBSET MutedAlerts]
    <2>1. s2' = s2 (+) SetToBag({MuteMenu!Ask}) \/ s2' = SetToBag({MuteMenu!Ask})
      BY <1>4 DEF MuteMenu!AskAgain, MuteMenu!Remount, MuteMenu!One
    <2>2. MuteMenu!Ask \in [served: BOOLEAN, got: SUBSET MutedAlerts]
      BY DEF MuteMenu!Ask
    <2>3. CASE s2' = s2 (+) SetToBag({MuteMenu!Ask})
      BY <2>2, <2>3, <1>1, OneMore
    <2>4. CASE s2' = SetToBag({MuteMenu!Ask})
      BY <2>2, <2>4, OneAlone
    <2> QED
      BY <2>1, <2>3, <2>4
  <1>5. ASSUME NEW q \in BagToSet(s2), MuteMenu!TakeAnswer(q) \/ MuteMenu!AskFails(q)
        PROVE  /\ q \in [served: BOOLEAN, got: SUBSET MutedAlerts]
               /\ IsABag(s2') /\ BagToSet(s2') \subseteq BagToSet(s2)
               /\ BagToSet(s2 (-) s2') = {q}
    <2>1. s2' = s2 (-) SetToBag({q})
      BY <1>5 DEF MuteMenu!TakeAnswer, MuteMenu!AskFails, MuteMenu!One
    <2> QED
      BY <2>1, <1>1, OneLess
  <1>6. ASSUME NEW q \in BagToSet(s2), MuteMenu!GetAllAlerts(q)
        PROVE  LET r == [q EXCEPT !.served = TRUE, !.got = s4] IN
                /\ r \in [served: BOOLEAN, got: SUBSET MutedAlerts]
                /\ IsABag(s2') /\ BagToSet(s2') \subseteq BagToSet(s2) \cup {r}
    <2> DEFINE r == [q EXCEPT !.served = TRUE, !.got = s4]
               B == s2 (-) SetToBag({q})
    <2>1. s2' = B (+) SetToBag({r})
      BY <1>6 DEF MuteMenu!GetAllAlerts, MuteMenu!One
    <2>2. r \in [served: BOOLEAN, got: SUBSET MutedAlerts]
      BY <1>1
    <2>3. IsABag(B) /\ BagToSet(B) \subseteq BagToSet(s2)
      BY <1>1, OneLess
    <2> HIDE DEF B, r
    <2>4. IsABag(s2') /\ BagToSet(s2') = BagToSet(B) \cup {r}
      BY <2>1, <2>3, OneMore
    <2> QED
      BY <2>2, <2>3, <2>4 DEF r
  <1> QED
    BY <1>2, <1>3, <1>4, <1>5, <1>6

LEMMA MutesStep ==
  ASSUME MuteMenu!FieldsOK, [MuteMenu!Next]_(MuteMenu!vars)
  PROVE  (MuteMenu!FieldsOK)'
  <1> USE DEF MuteMenu!FieldsOK
  <1> DEFINE Posts == [alert: MutedAlerts, muted: BOOLEAN]
             Asks == [served: BOOLEAN, got: SUBSET MutedAlerts]
             Shown == {MuteMenu!Empty} \cup [filled: {TRUE}, muted: SUBSET MutedAlerts]
  <1>1. /\ s1 \in Shown /\ s4 \subseteq MutedAlerts /\ s5 \in 0 .. MuteFaults /\ MuteFaults \in Nat
        /\ IsABag(s2) /\ BagToSet(s2) \subseteq Asks
        /\ IsABag(s3) /\ BagToSet(s3) \subseteq Posts
    BY PagesFit, MuteBags DEF MuteMenu!ConstantsFit
  <1>2. SUFFICES /\ s1' \in Shown /\ s4' \subseteq MutedAlerts /\ s5' \in 0 .. MuteFaults
                 /\ IsABag(s2') /\ BagToSet(s2') \subseteq Asks
                 /\ IsABag(s3') /\ BagToSet(s3') \subseteq Posts
    BY MuteBags
  <1> HIDE DEF MuteMenu!FieldsOK
  <1>3. CASE UNCHANGED MuteMenu!vars
    BY <1>1, <1>3 DEF MuteMenu!vars
  <1>4. ASSUME NEW a \in MutedAlerts, MuteMenu!onClickToggleFn(a) PROVE <1>2!1
    <2>1. UNCHANGED <<s2, s4, s5>> /\ s1' = [s1 EXCEPT !.muted = MuteMenu!With(@, a, a \notin @)] /\ s1.filled
      BY <1>4 DEF MuteMenu!onClickToggleFn
    <2>2. s1' \in Shown
      <3>1. s1 \in [filled: {TRUE}, muted: SUBSET MutedAlerts]
        <4>1. ~ MuteMenu!Empty.filled
          BY DEF MuteMenu!Empty
        <4> QED
          BY <2>1, <1>1, <4>1
      <3>2. MuteMenu!With(s1.muted, a, a \notin s1.muted) \in SUBSET MutedAlerts
        BY <3>1 DEF MuteMenu!With
      <3> QED
        BY <2>1, <3>1, <3>2
    <2>3. IsABag(s3') /\ BagToSet(s3') \subseteq Posts
      <3> DEFINE p == [alert |-> a, muted |-> a \notin s1.muted]
      <3>1. p \in Posts /\ IsABag(s3') /\ BagToSet(s3') = BagToSet(s3) \cup {p}
        BY <1>4, MutesRequests
      <3> QED
        BY <3>1, <1>1
    <2> QED
      BY <1>1, <2>1, <2>2, <2>3
  <1>5. ASSUME NEW p \in BagToSet(s3), MuteMenu!ToggleAlertMuted(p) \/ MuteMenu!PostFails(p) PROVE <1>2!1
    <2>1. p \in Posts /\ IsABag(s3') /\ BagToSet(s3') \subseteq BagToSet(s3)
      BY <1>5, MutesRequests
    <2>2. UNCHANGED <<s1, s2>> /\ (s4' = s4 \/ s4' = MuteMenu!With(s4, p.alert, p.muted))
      BY <1>5 DEF MuteMenu!ToggleAlertMuted, MuteMenu!PostFails
    <2>3. s5' = s5 \/ (s5 < MuteFaults /\ s5' = s5 + 1)
      BY <1>5 DEF MuteMenu!ToggleAlertMuted, MuteMenu!PostFails
    <2>4. s4' \subseteq MutedAlerts
      BY <1>1, <2>1, <2>2 DEF MuteMenu!With
    <2>5. s5' \in 0 .. MuteFaults
      BY <1>1, <2>3
    <2> QED
      BY <1>1, <2>1, <2>2, <2>4, <2>5
  <1>6. ASSUME MuteMenu!AskAgain \/ MuteMenu!Remount PROVE <1>2!1
    <2>1. UNCHANGED <<s3, s4, s5>> /\ (s1' = s1 \/ s1' = MuteMenu!Empty)
      BY <1>6 DEF MuteMenu!AskAgain, MuteMenu!Remount
    <2>2. IsABag(s2') /\ BagToSet(s2') \subseteq Asks
      BY <1>1, <1>6, MutesRequests
    <2> QED
      BY <1>1, <2>1, <2>2
  <1>7. ASSUME NEW q \in BagToSet(s2), MuteMenu!TakeAnswer(q) \/ MuteMenu!AskFails(q) PROVE <1>2!1
    <2>1. q \in Asks /\ IsABag(s2') /\ BagToSet(s2') \subseteq BagToSet(s2)
      BY <1>7, MutesRequests
    <2>2. UNCHANGED <<s3, s4>> /\ (s1' = [filled |-> TRUE, muted |-> q.got] \/ s1' = MuteMenu!Empty)
      BY <1>7 DEF MuteMenu!TakeAnswer, MuteMenu!AskFails
    <2>3. s5' = s5 \/ (s5 < MuteFaults /\ s5' = s5 + 1)
      BY <1>7 DEF MuteMenu!TakeAnswer, MuteMenu!AskFails
    <2>4. s5' \in 0 .. MuteFaults
      BY <1>1, <2>3
    <2>5. s1' \in Shown
      <3>1. q.got \in SUBSET MutedAlerts
        BY <2>1
      <3>2. [filled |-> TRUE, muted |-> q.got] \in Shown /\ MuteMenu!Empty \in Shown
        BY <3>1
      <3> HIDE DEF Shown
      <3> QED
        BY <2>2, <3>2
    <2> HIDE DEF Shown
    <2> QED
      BY <1>1, <2>1, <2>2, <2>4, <2>5
  <1>8. ASSUME NEW q \in BagToSet(s2), MuteMenu!GetAllAlerts(q) PROVE <1>2!1
    <2>1. IsABag(s2') /\ BagToSet(s2') \subseteq Asks
      BY <1>1, <1>8, MutesRequests
    <2>2. UNCHANGED <<s1, s3, s4, s5>>
      BY <1>8 DEF MuteMenu!GetAllAlerts
    <2> QED
      BY <1>1, <2>1, <2>2
  <1> QED
    BY <1>3, <1>4, <1>5, <1>6, <1>7, <1>8, MuteBags DEF MuteMenu!Next

(* Only clicks mute, and the table changes between clicks to answers only. *)
LEMMA MutesByClicks ==
  ASSUME MuteMenu!FieldsOK, [MuteMenu!Next]_(MuteMenu!vars)
  PROVE  MuteMenu!OnlyClicksMute
  <1>1. /\ IsABag(s2) /\ IsABag(s3) /\ s4 \subseteq MutedAlerts
        /\ s1 \in {MuteMenu!Empty} \cup [filled: {TRUE}, muted: SUBSET MutedAlerts]
    BY MuteBags DEF MuteMenu!FieldsOK
  <1>2. SUFFICES
          /\ \A a \in MutedAlerts : (a \in s4) # (a \in s4') =>
                 \E p \in BagToSet(s3 (-) s3') : p.alert = a /\ p.muted = (a \in s4')
          /\ \A p \in BagToSet(s3' (-) s3) : p.muted = (p.alert \in s1'.muted)
          /\ s1'.filled /\ s1' # s1 =>
                 s3' # s3 \/ \E q \in BagToSet(s2 (-) s2') : s1'.muted = q.got
    BY MuteBags DEF MuteMenu!OnlyClicksMute
  <1>3. ~ MuteMenu!Empty.filled
    BY DEF MuteMenu!Empty
  <1>4. CASE UNCHANGED <<s1, s3, s4>>
    BY <1>1, <1>4, NothingNew
  <1>5. ASSUME NEW a \in MutedAlerts, MuteMenu!onClickToggleFn(a) PROVE <1>2!1
    <2> DEFINE p == [alert |-> a, muted |-> a \notin s1.muted]
    <2>1. s4' = s4 /\ s1' = [s1 EXCEPT !.muted = MuteMenu!With(@, a, a \notin @)] /\ s1.filled
      BY <1>5 DEF MuteMenu!onClickToggleFn
    <2>2. BagToSet(s3' (-) s3) = {p} /\ BagToSet(s3 (-) s3') = {}
      BY <1>5, MutesRequests
    <2>3. p.muted = (p.alert \in s1'.muted)
      BY <2>1, <1>1, <1>3 DEF MuteMenu!With
    <2>4. s3' # s3
      <3>1. s3' = s3 => BagToSet(s3' (-) s3) = {}
        BY <1>1, NothingNew
      <3> QED
        BY <2>2, <3>1
    <2> HIDE DEF p
    <2> QED
      BY <2>1, <2>2, <2>3, <2>4
  <1>6. ASSUME NEW p \in BagToSet(s3), MuteMenu!ToggleAlertMuted(p) \/ MuteMenu!PostFails(p) PROVE <1>2!1
    <2>1. s1' = s1 /\ (s4' = s4 \/ s4' = MuteMenu!With(s4, p.alert, p.muted))
      BY <1>6 DEF MuteMenu!ToggleAlertMuted, MuteMenu!PostFails
    <2>2. BagToSet(s3' (-) s3) = {} /\ BagToSet(s3 (-) s3') = {p}
      BY <1>6, MutesRequests
    <2>3. \A a \in MutedAlerts : (a \in s4) # (a \in s4') => p.alert = a /\ p.muted = (a \in s4')
      <3>1. p.muted \in BOOLEAN
        BY <1>6, MutesRequests
      <3> QED
        BY <2>1, <3>1 DEF MuteMenu!With
    <2> QED
      BY <2>1, <2>2, <2>3
  <1>7. ASSUME MuteMenu!Remount PROVE <1>2!1
    <2>1. s3' = s3 /\ s4' = s4 /\ s1' = MuteMenu!Empty
      BY <1>7 DEF MuteMenu!Remount
    <2> QED
      BY <2>1, <1>1, <1>3, NothingNew
  <1>8. ASSUME NEW q \in BagToSet(s2), MuteMenu!TakeAnswer(q) \/ MuteMenu!AskFails(q) PROVE <1>2!1
    <2>1. s3' = s3 /\ s4' = s4 /\ (s1' = [filled |-> TRUE, muted |-> q.got] \/ s1' = MuteMenu!Empty)
      BY <1>8 DEF MuteMenu!TakeAnswer, MuteMenu!AskFails
    <2>2. BagToSet(s2 (-) s2') = {q}
      BY <1>8, MutesRequests
    <2> QED
      BY <2>1, <2>2, <1>1, <1>3, NothingNew
  <1>9. MuteMenu!AskAgain \/ (\E q \in BagToSet(s2) : MuteMenu!GetAllAlerts(q))
          \/ UNCHANGED MuteMenu!vars => UNCHANGED <<s1, s3, s4>>
    BY DEF MuteMenu!AskAgain, MuteMenu!GetAllAlerts, MuteMenu!vars
  <1> QED
    BY <1>4, <1>5, <1>6, <1>7, <1>8, <1>9, MuteBags DEF MuteMenu!Next

(* Of a user who waits, one request is under way and decides what is       *)
(* shown.                                                                  *)
LEMMA MutesPatiently ==
  ASSUME Patient, MuteMenu!ButtonsInv, [MuteMenu!Next]_(MuteMenu!vars)
  PROVE  (MuteMenu!ButtonsInv)'
  <1> DEFINE Settled == s2 = EmptyBag /\ s3 = EmptyBag /\ (s1.filled => s1.muted = s4)
             Post == [alert: MutedAlerts, muted: BOOLEAN]
             Posted == /\ s2 = EmptyBag
                       /\ \E p \in Post : /\ s3 = SetToBag({p})
                                          /\ s1.muted = MuteMenu!With(s4, p.alert, p.muted)
             Request == [served: BOOLEAN, got: SUBSET MutedAlerts]
             Asked == /\ s3 = EmptyBag
                      /\ \E q \in Request : s2 = SetToBag({q}) /\ (q.served => q.got = s4)
  <1>1. MuteMenu!FieldsOK /\ (Settled \/ Posted \/ Asked)
    BY MuteBags DEF MuteMenu!ButtonsInv, MuteMenu!Quiet, MuteMenu!One
  <1>2. (MuteMenu!FieldsOK)'
    BY <1>1, MutesStep
  <1>3. SUFFICES (Settled \/ Posted \/ Asked)'
    BY <1>2, MuteBags DEF MuteMenu!ButtonsInv, MuteMenu!Quiet, MuteMenu!One
  <1>4. /\ MuteMenu!Quiet <=> s2 = EmptyBag /\ s3 = EmptyBag
        /\ MuteFaults = 0 /\ s5 \in 0 .. MuteFaults
        /\ s1 \in {MuteMenu!Empty} \cup [filled: {TRUE}, muted: SUBSET MutedAlerts]
        /\ ~ MuteMenu!Empty.filled
    BY <1>1, FrontendAssumption, MuteBags DEF MuteMenu!Quiet, MuteMenu!FieldsOK, MuteMenu!Empty
  <1>5. CASE UNCHANGED MuteMenu!vars
    BY <1>1, <1>5 DEF MuteMenu!vars
  <1>6. ASSUME NEW a \in MutedAlerts, MuteMenu!onClickToggleFn(a) PROVE Posted'
    <2> DEFINE p == [alert |-> a, muted |-> a \notin s1.muted]
    <2>1. /\ s1.filled /\ MuteMenu!Quiet
          /\ s3' = s3 (+) SetToBag({p})
          /\ s1' = [s1 EXCEPT !.muted = MuteMenu!With(@, a, a \notin @)]
          /\ UNCHANGED <<s2, s4>>
      BY <1>6, MuteBags DEF MuteMenu!onClickToggleFn, MuteMenu!One, MuteMenu!NewMutedValue
    <2>2. Settled
      BY <1>1, <1>4, <2>1, OneAlone
    <2>3. s1 \in [filled: {TRUE}, muted: SUBSET MutedAlerts]
      BY <1>4, <2>1
    <2>4. s1'.muted = MuteMenu!With(s4, p.alert, p.muted) /\ p \in Post
      BY <2>1, <2>2, <2>3
    <2> HIDE DEF p
    <2>5. s3' = SetToBag({p}) /\ s2' = EmptyBag
      BY <2>1, <2>2, OneAlone
    <2> QED
      BY <2>1, <2>4, <2>5
  <1>7. ASSUME NEW p \in BagToSet(s3), MuteMenu!ToggleAlertMuted(p) PROVE Settled'
    <2>1. Posted
      BY <1>1, OneAlone
    <2>2. s3 = SetToBag({p}) /\ s2 = EmptyBag /\ s1.muted = MuteMenu!With(s4, p.alert, p.muted)
      BY <2>1, OneAlone
    <2>3. s3' = s3 (-) SetToBag({p}) /\ s4' = MuteMenu!With(s4, p.alert, p.muted)
          /\ UNCHANGED <<s1, s2>>
      BY <1>7, MuteBags DEF MuteMenu!ToggleAlertMuted, MuteMenu!One
    <2> QED
      BY <2>2, <2>3, OneAlone
  <1>8. ASSUME MuteMenu!AskAgain \/ MuteMenu!Remount PROVE Asked'
    <2>1. /\ MuteMenu!Quiet /\ s3' = s3
          /\ s2' = s2 (+) SetToBag({MuteMenu!Ask}) \/ s2' = SetToBag({MuteMenu!Ask})
      BY <1>8, MuteBags DEF MuteMenu!AskAgain, MuteMenu!Remount, MuteMenu!One
    <2>2. MuteMenu!Ask \in Request /\ ~ MuteMenu!Ask.served
      BY DEF MuteMenu!Ask
    <2>3. s2' = SetToBag({MuteMenu!Ask}) /\ s3' = EmptyBag
      BY <1>4, <2>1, OneAlone
    <2> QED
      BY <2>2, <2>3
  <1>9. ASSUME NEW q \in BagToSet(s2), MuteMenu!GetAllAlerts(q) \/ MuteMenu!TakeAnswer(q)
        PROVE  Settled' \/ Asked'
    <2>1. Asked
      BY <1>1, OneAlone
    <2>2. q \in Request /\ s2 = SetToBag({q}) /\ s3 = EmptyBag /\ (q.served => q.got = s4)
      BY <2>1, OneAlone
    <2>3. CASE MuteMenu!GetAllAlerts(q)
      <3> DEFINE r == [q EXCEPT !.served = TRUE, !.got = s4]
      <3>1. s2' = (s2 (-) SetToBag({q})) (+) SetToBag({r}) /\ UNCHANGED <<s3, s4>>
        BY <2>3, MuteBags DEF MuteMenu!GetAllAlerts, MuteMenu!One
      <3>2. s4 \in SUBSET MutedAlerts
        BY <1>1 DEF MuteMenu!FieldsOK
      <3>3. r \in Request /\ r.got = s4
        BY <2>2, <3>2
      <3> HIDE DEF r
      <3>4. s2' = SetToBag({r})
        BY <2>2, <3>1, OneAlone
      <3> QED
        BY <2>2, <3>1, <3>3, <3>4
    <2>4. CASE MuteMenu!TakeAnswer(q)
      <3>1. s2' = s2 (-) SetToBag({q}) /\ q.served /\ s1' = [filled |-> TRUE, muted |-> q.got]
            /\ UNCHANGED <<s3, s4>>
        BY <2>4, MuteBags DEF MuteMenu!TakeAnswer, MuteMenu!One
      <3> QED
        BY <2>2, <3>1, OneAlone
    <2> QED
      BY <1>9, <2>3, <2>4
  <1>10. ASSUME NEW r, MuteMenu!PostFails(r) \/ MuteMenu!AskFails(r) PROVE FALSE
    BY <1>10, <1>4 DEF MuteMenu!PostFails, MuteMenu!AskFails
  <1> HIDE DEF Settled, Posted, Asked
  <1> QED
    BY <1>5, <1>6, <1>7, <1>8, <1>9, <1>10, MuteBags DEF MuteMenu!Next

LEMMA MutesPatientInit == MuteMenu!Init => MuteMenu!ButtonsInv
  <1> SUFFICES ASSUME MuteMenu!Init PROVE MuteMenu!ButtonsInv
    OBVIOUS
  <1>1. s2 = MuteMenu!One(MuteMenu!Ask) /\ s3 = MuteMenu!EmptyBag
    BY DEF MuteMenu!Init
  <1>2. MuteMenu!Ask \in [served: BOOLEAN, got: SUBSET MutedAlerts] /\ ~ MuteMenu!Ask.served
    BY DEF MuteMenu!Ask
  <1> QED
    BY <1>1, <1>2, MutesInit DEF MuteMenu!ButtonsInv

(* With nothing under way, what such a table shows is so.                  *)
LEMMA MutesTell == MuteMenu!ButtonsInv => MuteMenu!MutedIsShown
  BY MuteBags, OneAlone DEF MuteMenu!ButtonsInv, MuteMenu!MutedIsShown, MuteMenu!Quiet, MuteMenu!One

-----------------------------------------------------------------------------
(* The inventory of assets.                                                *)

(* The keys of the columns of a class.                                     *)
Labels(columns) == [i \in DOMAIN columns |-> columns[i].key]

(* A column that dereferences fields of S only, in its cells and, if the   *)
(* first of them is an array, in the search, and links to the assets that  *)
(* its field names, if it is not that of the key pairs.                    *)
ColumnFits(column, S) ==
    /\ column.built \subseteq S /\ column.drawn \subseteq S
    /\ "account_id" \in column.value => "account_id" \in S
    /\ \/ column.when = "key_pairs" /\ column.lists = "iam_roles"
       \/ /\ column.lists = column.when
          /\ column.to # "" => /\ column.when \in DOMAIN AssetsRoute!Refers
                               /\ AssetsRoute!Refers[column.when] = column.to

(* A class whose columns fit and stand below their headers.                *)
ClassFits(class, S) ==
    /\ Labels(class.columns) = class.header.keys
    /\ Len(class.header.keys) =< class.header.css
    /\ Head(class.columns) \in AssetsRoute!Range(class.columns)
    /\ \A column \in AssetsRoute!Range(class.columns) : ColumnFits(column, S)

(* Columns stand in the order in which they are listed; one lemma for each *)
(* number of columns.                                                      *)
LEMMA ColumnsOf3 ==
  ASSUME NEW a, NEW b, NEW c
  PROVE  /\ Labels(<<a, b, c>>) = <<a.key, b.key, c.key>>
         /\ Head(<<a, b, c>>) \in AssetsRoute!Range(<<a, b, c>>)
         /\ AssetsRoute!Range(<<a, b, c>>) = {a, b, c}
  <1>1. Labels(<<a, b, c>>) = <<a.key, b.key, c.key>>
    BY DEF Labels
  <1>2. AssetsRoute!Range(<<a, b, c>>) = {a, b, c}
    BY DEF AssetsRoute!Range
  <1>3. Head(<<a, b, c>>) = a
    OBVIOUS
  <1> QED
    BY <1>1, <1>2, <1>3

LEMMA ColumnsOf4 ==
  ASSUME NEW a, NEW b, NEW c, NEW d
  PROVE  /\ Labels(<<a, b, c, d>>) = <<a.key, b.key, c.key, d.key>>
         /\ Head(<<a, b, c, d>>) \in AssetsRoute!Range(<<a, b, c, d>>)
         /\ AssetsRoute!Range(<<a, b, c, d>>) = {a, b, c, d}
  <1>1. Labels(<<a, b, c, d>>) = <<a.key, b.key, c.key, d.key>>
    BY DEF Labels
  <1>2. AssetsRoute!Range(<<a, b, c, d>>) = {a, b, c, d}
    BY DEF AssetsRoute!Range
  <1>3. Head(<<a, b, c, d>>) = a
    OBVIOUS
  <1> QED
    BY <1>1, <1>2, <1>3

LEMMA ColumnsOf5 ==
  ASSUME NEW a, NEW b, NEW c, NEW d, NEW e
  PROVE  /\ Labels(<<a, b, c, d, e>>) = <<a.key, b.key, c.key, d.key, e.key>>
         /\ Head(<<a, b, c, d, e>>) \in AssetsRoute!Range(<<a, b, c, d, e>>)
         /\ AssetsRoute!Range(<<a, b, c, d, e>>) = {a, b, c, d, e}
  <1>1. Labels(<<a, b, c, d, e>>) = <<a.key, b.key, c.key, d.key, e.key>>
    BY DEF Labels
  <1>2. AssetsRoute!Range(<<a, b, c, d, e>>) = {a, b, c, d, e}
    BY DEF AssetsRoute!Range
  <1>3. Head(<<a, b, c, d, e>>) = a
    OBVIOUS
  <1> QED
    BY <1>1, <1>2, <1>3

LEMMA ColumnsOf6 ==
  ASSUME NEW a, NEW b, NEW c, NEW d, NEW e, NEW f
  PROVE  /\ Labels(<<a, b, c, d, e, f>>) = <<a.key, b.key, c.key, d.key, e.key, f.key>>
         /\ Head(<<a, b, c, d, e, f>>) \in AssetsRoute!Range(<<a, b, c, d, e, f>>)
         /\ AssetsRoute!Range(<<a, b, c, d, e, f>>) = {a, b, c, d, e, f}
  <1>1. Labels(<<a, b, c, d, e, f>>) = <<a.key, b.key, c.key, d.key, e.key, f.key>>
    BY DEF Labels
  <1>2. AssetsRoute!Range(<<a, b, c, d, e, f>>) = {a, b, c, d, e, f}
    BY DEF AssetsRoute!Range
  <1>3. Head(<<a, b, c, d, e, f>>) = a
    OBVIOUS
  <1> QED
    BY <1>1, <1>2, <1>3

LEMMA ColumnsOf7 ==
  ASSUME NEW a, NEW b, NEW c, NEW d, NEW e, NEW f, NEW g
  PROVE  /\ Labels(<<a, b, c, d, e, f, g>>) = <<a.key, b.key, c.key, d.key, e.key, f.key, g.key>>
         /\ Head(<<a, b, c, d, e, f, g>>) \in AssetsRoute!Range(<<a, b, c, d, e, f, g>>)
         /\ AssetsRoute!Range(<<a, b, c, d, e, f, g>>) = {a, b, c, d, e, f, g}
  <1>1. Labels(<<a, b, c, d, e, f, g>>) = <<a.key, b.key, c.key, d.key, e.key, f.key, g.key>>
    BY DEF Labels
  <1>2. AssetsRoute!Range(<<a, b, c, d, e, f, g>>) = {a, b, c, d, e, f, g}
    BY DEF AssetsRoute!Range
  <1>3. Head(<<a, b, c, d, e, f, g>>) = a
    OBVIOUS
  <1> QED
    BY <1>1, <1>2, <1>3

LEMMA ColumnsOf8 ==
  ASSUME NEW a, NEW b, NEW c, NEW d, NEW e, NEW f, NEW g, NEW h
  PROVE  /\ Labels(<<a, b, c, d, e, f, g, h>>) = <<a.key, b.key, c.key, d.key, e.key, f.key, g.key, h.key>>
         /\ Head(<<a, b, c, d, e, f, g, h>>) \in AssetsRoute!Range(<<a, b, c, d, e, f, g, h>>)
         /\ AssetsRoute!Range(<<a, b, c, d, e, f, g, h>>) = {a, b, c, d, e, f, g, h}
  <1>1. Labels(<<a, b, c, d, e, f, g, h>>) = <<a.key, b.key, c.key, d.key, e.key, f.key, g.key, h.key>>
    BY DEF Labels
  <1>2. AssetsRoute!Range(<<a, b, c, d, e, f, g, h>>) = {a, b, c, d, e, f, g, h}
    BY DEF AssetsRoute!Range
  <1>3. Head(<<a, b, c, d, e, f, g, h>>) = a
    OBVIOUS
  <1> QED
    BY <1>1, <1>2, <1>3

(* A column under a header, with what it dereferences in S.                *)
Fits(column, key, S) == column.key = key /\ ColumnFits(column, S)

(* What each kind of column needs to fit.                                  *)
LEMMA FitOfText ==
  ASSUME NEW k, NEW f, NEW S, f # "account_id"
  PROVE  Fits(AssetsRoute!Text(k, f), k, S)
  BY DEF Fits, ColumnFits, AssetsRoute!Text

LEMMA FitOfPort ==
  ASSUME NEW k, NEW f, NEW x, NEW S, x \in S, f # "account_id"
  PROVE  Fits([AssetsRoute!Text(k, f) EXCEPT !.built = {x}], k, S)
  BY DEF Fits, ColumnFits, AssetsRoute!Text

LEMMA FitOfArn ==
  ASSUME NEW S, "arn" \in S
  PROVE  Fits(AssetsRoute!Arn, "arn", S)
  BY DEF Fits, ColumnFits, AssetsRoute!Arn, AssetsRoute!Text

LEMMA FitOfName ==
  ASSUME NEW S, NEW f \in S, NEW k, NEW v, "account_id" \in v => "account_id" \in S
  PROVE  Fits(AssetsRoute!Name(k, f, v), k, S)
  BY DEF Fits, ColumnFits, AssetsRoute!Name, AssetsRoute!Text

LEMMA FitOfPlainList ==
  ASSUME NEW S, NEW f, f # "account_id"
  PROVE  Fits(AssetsRoute!List(f, ""), f, S)
  BY DEF Fits, ColumnFits, AssetsRoute!List, AssetsRoute!Text

LEMMA FitOfList ==
  ASSUME NEW S, NEW f \in DOMAIN AssetsRoute!Refers, NEW to, AssetsRoute!Refers[f] = to
  PROVE  Fits(AssetsRoute!List(f, to), f, S)
  <1>1. f # "account_id"
    BY DEF AssetsRoute!Refers
  <1> QED
    BY <1>1 DEF Fits, ColumnFits, AssetsRoute!List, AssetsRoute!Text

LEMMA FitOfKeyPairs ==
  ASSUME NEW S, NEW to
  PROVE  Fits([AssetsRoute!List("key_pairs", to) EXCEPT !.lists = "iam_roles"], "key_pairs", S)
  <1> DEFINE text == AssetsRoute!Text("key_pairs", "key_pairs")
             list == AssetsRoute!List("key_pairs", to)
             column == [AssetsRoute!List("key_pairs", to) EXCEPT !.lists = "iam_roles"]
  <1>1. /\ DOMAIN text = {"key", "value", "built", "drawn", "when", "lists", "to"}
        /\ text.key = "key_pairs" /\ text.built = {} /\ text.drawn = {}
        /\ text.value = {"key_pairs"}
    BY DEF AssetsRoute!Text
  <1>2. list = [text EXCEPT !.when = "key_pairs", !.lists = "key_pairs", !.to = to]
    BY DEF AssetsRoute!List
  <1> HIDE DEF text, list
  <1>3. /\ DOMAIN list = {"key", "value", "built", "drawn", "when", "lists", "to"}
        /\ list.key = "key_pairs" /\ list.built = {} /\ list.drawn = {} /\ list.when = "key_pairs"
        /\ list.value = {"key_pairs"}
    BY <1>1, <1>2
  <1>4. column = [list EXCEPT !.lists = "iam_roles"]
    BY DEF list
  <1> HIDE DEF column
  <1>5. /\ column.key = "key_pairs" /\ column.when = "key_pairs"
        /\ column.built = {} /\ column.drawn = {} /\ column.lists = "iam_roles"
        /\ column.value = {"key_pairs"}
    BY <1>3, <1>4
  <1>6. Fits(column, "key_pairs", S)
    BY <1>5 DEF Fits, ColumnFits
  <1> QED
    BY <1>6 DEF column

(* The lists of assets that assets name.                                   *)
LEMMA ReferredFields ==
  /\ DOMAIN AssetsRoute!Refers = {"iam_users", "iam_groups", "iam_roles", "iam_policies", "vpc"}
  /\ AssetsRoute!Refers["iam_users"] = "iamUsers" /\ AssetsRoute!Refers["iam_groups"] = "iamGroups"
  /\ AssetsRoute!Refers["iam_roles"] = "iamRoles"
  /\ AssetsRoute!Refers["iam_policies"] = "iamPolicies" /\ AssetsRoute!Refers["vpc"] = "vpcs"
  BY DEF AssetsRoute!Refers

LEMMA FitOfLists ==
  ASSUME NEW S
  PROVE  /\ Fits(AssetsRoute!List("iam_users", "iamUsers"), "iam_users", S)
         /\ Fits(AssetsRoute!List("iam_groups", "iamGroups"), "iam_groups", S)
         /\ Fits(AssetsRoute!List("iam_roles", "iamRoles"), "iam_roles", S)
         /\ Fits(AssetsRoute!List("iam_policies", "iamPolicies"), "iam_policies", S)
         /\ Fits(AssetsRoute!List("vpc", "vpcs"), "vpc", S)
  <1>1. Fits(AssetsRoute!List("iam_users", "iamUsers"), "iam_users", S)
    BY FitOfList, ReferredFields
  <1>2. Fits(AssetsRoute!List("iam_groups", "iamGroups"), "iam_groups", S)
    BY FitOfList, ReferredFields
  <1>3. Fits(AssetsRoute!List("iam_roles", "iamRoles"), "iam_roles", S)
    BY FitOfList, ReferredFields
  <1>4. Fits(AssetsRoute!List("iam_policies", "iamPolicies"), "iam_policies", S)
    BY FitOfList, ReferredFields
  <1>5. Fits(AssetsRoute!List("vpc", "vpcs"), "vpc", S)
    BY FitOfList, ReferredFields
  <1> QED
    BY <1>1, <1>2, <1>3, <1>4, <1>5

(* Every class reads the fields that its category is said to read, and no  *)
(* others, whatever the assets.                                            *)
LEMMA ClassesFit ==
  ASSUME NEW name \in AssetsRoute!Categories
  PROVE  ClassFits(AssetsRoute!assetToObjects[name], AssetsRoute!Reads[name])
  <1>1. ClassFits(AssetsRoute!Class(AssetsRoute!IAMRolesHeader, AssetsRoute!IAMRoles), {"arn"})
    <2> DEFINE a == AssetsRoute!Arn
               b == AssetsRoute!Text("create_date", "create_date")
               c == AssetsRoute!List("iam_roles", "iamRoles")
               d == AssetsRoute!List("iam_policies", "iamPolicies")
               e == AssetsRoute!List("trusted_principals", "")
    <2>1. AssetsRoute!IAMRoles = <<a, b, c, d, e>>
      BY DEF AssetsRoute!IAMRoles
    <2>2. Fits(a, "arn", {"arn"})
      BY FitOfArn
    <2>3. Fits(b, "create_date", {"arn"})
      BY FitOfText
    <2>4. Fits(c, "iam_roles", {"arn"})
      BY FitOfLists
    <2>5. Fits(d, "iam_policies", {"arn"})
      BY FitOfLists
    <2>6. Fits(e, "trusted_principals", {"arn"})
      BY FitOfPlainList
    <2> HIDE DEF a, b, c, d, e
    <2>7. /\ Labels(<<a, b, c, d, e>>) = <<a.key, b.key, c.key, d.key, e.key>>
          /\ Head(<<a, b, c, d, e>>) \in AssetsRoute!Range(<<a, b, c, d, e>>)
          /\ AssetsRoute!Range(<<a, b, c, d, e>>) = {a, b, c, d, e}
      BY ColumnsOf5
    <2>8. Len(AssetsRoute!IAMRolesHeader.keys) =< AssetsRoute!IAMRolesHeader.css
      BY DEF AssetsRoute!IAMRolesHeader, AssetsRoute!Headers
    <2>9. Labels(<<a, b, c, d, e>>) = AssetsRoute!IAMRolesHeader.keys
      BY <2>2, <2>3, <2>4, <2>5, <2>6, <2>7 DEF Fits, AssetsRoute!IAMRolesHeader, AssetsRoute!Headers
    <2>10. \A column \in AssetsRoute!Range(<<a, b, c, d, e>>) : ColumnFits(column, {"arn"})
      BY <2>2, <2>3, <2>4, <2>5, <2>6, <2>7 DEF Fits
    <2> QED
      BY <2>1, <2>7, <2>8, <2>9, <2>10 DEF ClassFits, AssetsRoute!Class
  <1>2. ClassFits(AssetsRoute!Class(AssetsRoute!IAMUsersHeader, AssetsRoute!IAMUsers), {"arn"})
    <2> DEFINE a == AssetsRoute!Arn
               b == AssetsRoute!Text("create_date", "create_date")
               c == AssetsRoute!Text("password_last_used", "password_last_used")
               d == AssetsRoute!List("iam_groups", "iamGroups")
               e == AssetsRoute!List("iam_policies", "iamPolicies")
               f == AssetsRoute!List("iam_roles", "iamRoles")
               g == AssetsRoute!List("access_keys", "")
    <2>1. AssetsRoute!IAMUsers = <<a, b, c, d, e, f, g>>
      BY DEF AssetsRoute!IAMUsers
    <2>2. Fits(a, "arn", {"arn"})
      BY FitOfArn
    <2>3. Fits(b, "create_date", {"arn"})
      BY FitOfText
    <2>4. Fits(c, "password_last_used", {"arn"})
      BY FitOfText
    <2>5. Fits(d, "iam_groups", {"arn"})
      BY FitOfLists
    <2>6. Fits(e, "iam_policies", {"arn"})
      BY FitOfLists
    <2>7. Fits(f, "iam_roles", {"arn"})
      BY FitOfLists
    <2>8. Fits(g, "access_keys", {"arn"})
      BY FitOfPlainList
    <2> HIDE DEF a, b, c, d, e, f, g
    <2>9. /\ Labels(<<a, b, c, d, e, f, g>>) = <<a.key, b.key, c.key, d.key, e.key, f.key, g.key>>
          /\ Head(<<a, b, c, d, e, f, g>>) \in AssetsRoute!Range(<<a, b, c, d, e, f, g>>)
          /\ AssetsRoute!Range(<<a, b, c, d, e, f, g>>) = {a, b, c, d, e, f, g}
      BY ColumnsOf7
    <2>10. Len(AssetsRoute!IAMUsersHeader.keys) =< AssetsRoute!IAMUsersHeader.css
      BY DEF AssetsRoute!IAMUsersHeader, AssetsRoute!Headers
    <2>11. Labels(<<a, b, c, d, e, f, g>>) = AssetsRoute!IAMUsersHeader.keys
      BY <2>2, <2>3, <2>4, <2>5, <2>6, <2>7, <2>8, <2>9 DEF Fits, AssetsRoute!IAMUsersHeader, AssetsRoute!Headers
    <2>12. \A column \in AssetsRoute!Range(<<a, b, c, d, e, f, g>>) : ColumnFits(column, {"arn"})
      BY <2>2, <2>3, <2>4, <2>5, <2>6, <2>7, <2>8, <2>9 DEF Fits
    <2> QED
      BY <2>1, <2>9, <2>10, <2>11, <2>12 DEF ClassFits, AssetsRoute!Class
  <1>3. ClassFits(AssetsRoute!Class(AssetsRoute!IAMPoliciesHeader, AssetsRoute!IAMPolicies), {"name"})
    <2> DEFINE a == AssetsRoute!Name("id", "name", {"id"})
               b == AssetsRoute!Text("policy_type", "policy_type")
               c == AssetsRoute!List("iam_users", "iamUsers")
               d == AssetsRoute!List("iam_groups", "iamGroups")
               e == AssetsRoute!List("iam_roles", "iamRoles")
    <2>1. AssetsRoute!IAMPolicies = <<a, b, c, d, e>>
      BY DEF AssetsRoute!IAMPolicies
    <2>2. Fits(a, "id", {"name"})
      BY FitOfName
    <2>3. Fits(b, "policy_type", {"name"})
      BY FitOfText
    <2>4. Fits(c, "iam_users", {"name"})
      BY FitOfLists
    <2>5. Fits(d, "iam_groups", {"name"})
      BY FitOfLists
    <2>6. Fits(e, "iam_roles", {"name"})
      BY FitOfLists
    <2> HIDE DEF a, b, c, d, e
    <2>7. /\ Labels(<<a, b, c, d, e>>) = <<a.key, b.key, c.key, d.key, e.key>>
          /\ Head(<<a, b, c, d, e>>) \in AssetsRoute!Range(<<a, b, c, d, e>>)
          /\ AssetsRoute!Range(<<a, b, c, d, e>>) = {a, b, c, d, e}
      BY ColumnsOf5
    <2>8. Len(AssetsRoute!IAMPoliciesHeader.keys) =< AssetsRoute!IAMPoliciesHeader.css
      BY DEF AssetsRoute!IAMPoliciesHeader, AssetsRoute!Headers
    <2>9. Labels(<<a, b, c, d, e>>) = AssetsRoute!IAMPoliciesHeader.keys
      BY <2>2, <2>3, <2>4, <2>5, <2>6, <2>7 DEF Fits, AssetsRoute!IAMPoliciesHeader, AssetsRoute!Headers
    <2>10. \A column \in AssetsRoute!Range(<<a, b, c, d, e>>) : ColumnFits(column, {"name"})
      BY <2>2, <2>3, <2>4, <2>5, <2>6, <2>7 DEF Fits
    <2> QED
      BY <2>1, <2>7, <2>8, <2>9, <2>10 DEF ClassFits, AssetsRoute!Class
  <1>4. ClassFits(AssetsRoute!Class(AssetsRoute!IAMGroupsHeader, AssetsRoute!IAMGroups), {"arn"})
    <2> DEFINE a == AssetsRoute!Arn
               b == AssetsRoute!Text("create_date", "create_date")
               c == AssetsRoute!List("iam_users", "iamUsers")
               d == AssetsRoute!List("iam_roles", "iamRoles")
               e == AssetsRoute!List("iam_policies", "iamPolicies")
    <2>1. AssetsRoute!IAMGroups = <<a, b, c, d, e>>
      BY DEF AssetsRoute!IAMGroups
    <2>2. Fits(a, "arn", {"arn"})
      BY FitOfArn
    <2>3. Fits(b, "create_date", {"arn"})
      BY FitOfText
    <2>4. Fits(c, "iam_users", {"arn"})
      BY FitOfLists
    <2>5. Fits(d, "iam_roles", {"arn"})
      BY FitOfLists
    <2>6. Fits(e, "iam_policies", {"arn"})
      BY FitOfLists
    <2> HIDE DEF a, b, c, d, e
    <2>7. /\ Labels(<<a, b, c, d, e>>) = <<a.key, b.key, c.key, d.key, e.key>>
          /\ Head(<<a, b, c, d, e>>) \in AssetsRoute!Range(<<a, b, c, d, e>>)
          /\ AssetsRoute!Range(<<a, b, c, d, e>>) = {a, b, c, d, e}
      BY ColumnsOf5
    <2>8. Len(AssetsRoute!IAMGroupsHeader.keys) =< AssetsRoute!IAMGroupsHeader.css
      BY DEF AssetsRoute!IAMGroupsHeader, AssetsRoute!Headers
    <2>9. Labels(<<a, b, c, d, e>>) = AssetsRoute!IAMGroupsHeader.keys
      BY <2>2, <2>3, <2>4, <2>5, <2>6, <2>7 DEF Fits, AssetsRoute!IAMGroupsHeader, AssetsRoute!Headers
    <2>10. \A column \in AssetsRoute!Range(<<a, b, c, d, e>>) : ColumnFits(column, {"arn"})
      BY <2>2, <2>3, <2>4, <2>5, <2>6, <2>7 DEF Fits
    <2> QED
      BY <2>1, <2>7, <2>8, <2>9, <2>10 DEF ClassFits, AssetsRoute!Class
  <1>5. ClassFits(AssetsRoute!Class(AssetsRoute!EC2Header, AssetsRoute!EC2Instance), {"instance_id", "account_id"})
    <2> DEFINE a == AssetsRoute!Name("instance_id", "instance_id", {"instance_id", "account_id"})
               b == AssetsRoute!Text("launch_time", "launch_time")
               c == AssetsRoute!Text("state", "state")
               d == AssetsRoute!Text("publicly_exposed", "publicly_exposed")
               e == AssetsRoute!List("iam_roles", "iamRoles")
               f == [AssetsRoute!List("key_pairs", "kmsKeys") EXCEPT !.lists = "iam_roles"]
               g == AssetsRoute!List("vpc", "vpcs")
               h == AssetsRoute!Text("region", "region")
    <2>1. AssetsRoute!EC2Instance = <<a, b, c, d, e, f, g, h>>
      BY DEF AssetsRoute!EC2Instance
    <2>2. Fits(a, "instance_id", {"instance_id", "account_id"})
      BY FitOfName
    <2>3. Fits(b, "launch_time", {"instance_id", "account_id"})
      BY FitOfText
    <2>4. Fits(c, "state", {"instance_id", "account_id"})
      BY FitOfText
    <2>5. Fits(d, "publicly_exposed", {"instance_id", "account_id"})
      BY FitOfText
    <2>6. Fits(e, "iam_roles", {"instance_id", "account_id"})
      BY FitOfLists
    <2>7. Fits(f, "key_pairs", {"instance_id", "account_id"})
      BY FitOfKeyPairs
    <2>8. Fits(g, "vpc", {"instance_id", "account_id"})
      BY FitOfLists
    <2>9. Fits(h, "region", {"instance_id", "account_id"})
      BY FitOfText
    <2> HIDE DEF a, b, c, d, e, f, g, h
    <2>10. /\ Labels(<<a, b, c, d, e, f, g, h>>) = <<a.key, b.key, c.key, d.key, e.key, f.key, g.key, h.key>>
          /\ Head(<<a, b, c, d, e, f, g, h>>) \in AssetsRoute!Range(<<a, b, c, d, e, f, g, h>>)
          /\ AssetsRoute!Range(<<a, b, c, d, e, f, g, h>>) = {a, b, c, d, e, f, g, h}
      BY ColumnsOf8
    <2>11. Len(AssetsRoute!EC2Header.keys) =< AssetsRoute!EC2Header.css
      BY DEF AssetsRoute!EC2Header, AssetsRoute!Headers
    <2>12. Labels(<<a, b, c, d, e, f, g, h>>) = AssetsRoute!EC2Header.keys
      BY <2>2, <2>3, <2>4, <2>5, <2>6, <2>7, <2>8, <2>9, <2>10 DEF Fits, AssetsRoute!EC2Header, AssetsRoute!Headers
    <2>13. \A column \in AssetsRoute!Range(<<a, b, c, d, e, f, g, h>>) : ColumnFits(column, {"instance_id", "account_id"})
      BY <2>2, <2>3, <2>4, <2>5, <2>6, <2>7, <2>8, <2>9, <2>10 DEF Fits
    <2> QED
      BY <2>1, <2>10, <2>11, <2>12, <2>13 DEF ClassFits, AssetsRoute!Class
  <1>6. ClassFits(AssetsRoute!Class(AssetsRoute!LambdaFnHeader, AssetsRoute!LambdaFunction), {"name", "account_id"})
    <2> DEFINE a == AssetsRoute!Name("arn", "name", {"name", "account_id"})
               b == AssetsRoute!Text("modified_date", "modified_date")
               c == AssetsRoute!Text("state", "state")
               d == AssetsRoute!Text("runtime", "runtime")
               e == AssetsRoute!List("iam_roles", "iamRoles")
    <2>1. AssetsRoute!LambdaFunction = <<a, b, c, d, e>>
      BY DEF AssetsRoute!LambdaFunction
    <2>2. Fits(a, "arn", {"name", "account_id"})
      BY FitOfName
    <2>3. Fits(b, "modified_date", {"name", "account_id"})
      BY FitOfText
    <2>4. Fits(c, "state", {"name", "account_id"})
      BY FitOfText
    <2>5. Fits(d, "runtime", {"name", "account_id"})
      BY FitOfText
    <2>6. Fits(e, "iam_roles", {"name", "account_id"})
      BY FitOfLists
    <2> HIDE DEF a, b, c, d, e
    <2>7. /\ Labels(<<a, b, c, d, e>>) = <<a.key, b.key, c.key, d.key, e.key>>
          /\ Head(<<a, b, c, d, e>>) \in AssetsRoute!Range(<<a, b, c, d, e>>)
          /\ AssetsRoute!Range(<<a, b, c, d, e>>) = {a, b, c, d, e}
      BY ColumnsOf5
    <2>8. Len(AssetsRoute!LambdaFnHeader.keys) =< AssetsRoute!LambdaFnHeader.css
      BY DEF AssetsRoute!LambdaFnHeader, AssetsRoute!Headers
    <2>9. Labels(<<a, b, c, d, e>>) = AssetsRoute!LambdaFnHeader.keys
      BY <2>2, <2>3, <2>4, <2>5, <2>6, <2>7 DEF Fits, AssetsRoute!LambdaFnHeader, AssetsRoute!Headers
    <2>10. \A column \in AssetsRoute!Range(<<a, b, c, d, e>>) : ColumnFits(column, {"name", "account_id"})
      BY <2>2, <2>3, <2>4, <2>5, <2>6, <2>7 DEF Fits
    <2> QED
      BY <2>1, <2>7, <2>8, <2>9, <2>10 DEF ClassFits, AssetsRoute!Class
  <1>7. ClassFits(AssetsRoute!Class(AssetsRoute!S3BucketHeader, AssetsRoute!S3Bucket), {"name", "account_id"})
    <2> DEFINE a == AssetsRoute!Name("arn", "name", {"name", "account_id"})
               b == AssetsRoute!Text("region", "region")
               c == AssetsRoute!Text("default_encryption", "default_encryption")
               d == AssetsRoute!Text("versioning_status", "versioning_status")
               e == AssetsRoute!Text("mfa_delete", "mfa_delete")
    <2>1. AssetsRoute!S3Bucket = <<a, b, c, d, e>>
      BY DEF AssetsRoute!S3Bucket
    <2>2. Fits(a, "arn", {"name", "account_id"})
      BY FitOfName
    <2>3. Fits(b, "region", {"name", "account_id"})
      BY FitOfText
    <2>4. Fits(c, "default_encryption", {"name", "account_id"})
      BY FitOfText
    <2>5. Fits(d, "versioning_status", {"name", "account_id"})
      BY FitOfText
    <2>6. Fits(e, "mfa_delete", {"name", "account_id"})
      BY FitOfText
    <2> HIDE DEF a, b, c, d, e
    <2>7. /\ Labels(<<a, b, c, d, e>>) = <<a.key, b.key, c.key, d.key, e.key>>
          /\ Head(<<a, b, c, d, e>>) \in AssetsRoute!Range(<<a, b, c, d, e>>)
          /\ AssetsRoute!Range(<<a, b, c, d, e>>) = {a, b, c, d, e}
      BY ColumnsOf5
    <2>8. Len(AssetsRoute!S3BucketHeader.keys) =< AssetsRoute!S3BucketHeader.css
      BY DEF AssetsRoute!S3BucketHeader, AssetsRoute!Headers
    <2>9. Labels(<<a, b, c, d, e>>) = AssetsRoute!S3BucketHeader.keys
      BY <2>2, <2>3, <2>4, <2>5, <2>6, <2>7 DEF Fits, AssetsRoute!S3BucketHeader, AssetsRoute!Headers
    <2>10. \A column \in AssetsRoute!Range(<<a, b, c, d, e>>) : ColumnFits(column, {"name", "account_id"})
      BY <2>2, <2>3, <2>4, <2>5, <2>6, <2>7 DEF Fits
    <2> QED
      BY <2>1, <2>7, <2>8, <2>9, <2>10 DEF ClassFits, AssetsRoute!Class
  <1>8. ClassFits(AssetsRoute!Class(AssetsRoute!VPCHeader, AssetsRoute!VPC), {"id", "account_id"})
    <2> DEFINE a == AssetsRoute!Name("arn", "id", {"id", "account_id"})
               b == AssetsRoute!Text("primary_cidr_block", "primary_cidr_block")
               c == AssetsRoute!Text("state", "state")
               d == AssetsRoute!Text("is_default", "is_default")
               e == AssetsRoute!Text("region", "region")
               f == AssetsRoute!List("subnet_ids", "")
    <2>1. AssetsRoute!VPC = <<a, b, c, d, e, f>>
      BY DEF AssetsRoute!VPC
    <2>2. Fits(a, "arn", {"id", "account_id"})
      BY FitOfName
    <2>3. Fits(b, "primary_cidr_block", {"id", "account_id"})
      BY FitOfText
    <2>4. Fits(c, "state", {"id", "account_id"})
      BY FitOfText
    <2>5. Fits(d, "is_default", {"id", "account_id"})
      BY FitOfText
    <2>6. Fits(e, "region", {"id", "account_id"})
      BY FitOfText
    <2>7. Fits(f, "subnet_ids", {"id", "account_id"})
      BY FitOfPlainList
    <2> HIDE DEF a, b, c, d, e, f
    <2>8. /\ Labels(<<a, b, c, d, e, f>>) = <<a.key, b.key, c.key, d.key, e.key, f.key>>
          /\ Head(<<a, b, c, d, e, f>>) \in AssetsRoute!Range(<<a, b, c, d, e, f>>)
          /\ AssetsRoute!Range(<<a, b, c, d, e, f>>) = {a, b, c, d, e, f}
      BY ColumnsOf6
    <2>9. Len(AssetsRoute!VPCHeader.keys) =< AssetsRoute!VPCHeader.css
      BY DEF AssetsRoute!VPCHeader, AssetsRoute!Headers
    <2>10. Labels(<<a, b, c, d, e, f>>) = AssetsRoute!VPCHeader.keys
      BY <2>2, <2>3, <2>4, <2>5, <2>6, <2>7, <2>8 DEF Fits, AssetsRoute!VPCHeader, AssetsRoute!Headers
    <2>11. \A column \in AssetsRoute!Range(<<a, b, c, d, e, f>>) : ColumnFits(column, {"id", "account_id"})
      BY <2>2, <2>3, <2>4, <2>5, <2>6, <2>7, <2>8 DEF Fits
    <2> QED
      BY <2>1, <2>8, <2>9, <2>10, <2>11 DEF ClassFits, AssetsRoute!Class
  <1>9. ClassFits(AssetsRoute!Class(AssetsRoute!InternetGatewayHeader, AssetsRoute!InternetGateway), {"arn"})
    <2> DEFINE a == AssetsRoute!Arn
               b == AssetsRoute!List("vpc", "vpcs")
               c == AssetsRoute!Text("region", "region")
    <2>1. AssetsRoute!InternetGateway = <<a, b, c>>
      BY DEF AssetsRoute!InternetGateway
    <2>2. Fits(a, "arn", {"arn"})
      BY FitOfArn
    <2>3. Fits(b, "vpc", {"arn"})
      BY FitOfLists
    <2>4. Fits(c, "region", {"arn"})
      BY FitOfText
    <2> HIDE DEF a, b, c
    <2>5. /\ Labels(<<a, b, c>>) = <<a.key, b.key, c.key>>
          /\ Head(<<a, b, c>>) \in AssetsRoute!Range(<<a, b, c>>)
          /\ AssetsRoute!Range(<<a, b, c>>) = {a, b, c}
      BY ColumnsOf3
    <2>6. Len(AssetsRoute!InternetGatewayHeader.keys) =< AssetsRoute!InternetGatewayHeader.css
      BY DEF AssetsRoute!InternetGatewayHeader, AssetsRoute!Headers
    <2>7. Labels(<<a, b, c>>) = AssetsRoute!InternetGatewayHeader.keys
      BY <2>2, <2>3, <2>4, <2>5 DEF Fits, AssetsRoute!InternetGatewayHeader, AssetsRoute!Headers
    <2>8. \A column \in AssetsRoute!Range(<<a, b, c>>) : ColumnFits(column, {"arn"})
      BY <2>2, <2>3, <2>4, <2>5 DEF Fits
    <2> QED
      BY <2>1, <2>5, <2>6, <2>7, <2>8 DEF ClassFits, AssetsRoute!Class
  <1>10. ClassFits(AssetsRoute!Class(AssetsRoute!SecurityGroupHeader, AssetsRoute!SecurityGroup), {"id", "name", "account_id"})
    <2> DEFINE a == AssetsRoute!Name("arn", "id", {"id", "account_id"})
               b == AssetsRoute!Name("name", "name", {"name"})
               c == AssetsRoute!List("vpc", "vpcs")
               d == AssetsRoute!Text("region", "region")
    <2>1. AssetsRoute!SecurityGroup = <<a, b, c, d>>
      BY DEF AssetsRoute!SecurityGroup
    <2>2. Fits(a, "arn", {"id", "name", "account_id"})
      BY FitOfName
    <2>3. Fits(b, "name", {"id", "name", "account_id"})
      BY FitOfName
    <2>4. Fits(c, "vpc", {"id", "name", "account_id"})
      BY FitOfLists
    <2>5. Fits(d, "region", {"id", "name", "account_id"})
      BY FitOfText
    <2> HIDE DEF a, b, c, d
    <2>6. /\ Labels(<<a, b, c, d>>) = <<a.key, b.key, c.key, d.key>>
          /\ Head(<<a, b, c, d>>) \in AssetsRoute!Range(<<a, b, c, d>>)
          /\ AssetsRoute!Range(<<a, b, c, d>>) = {a, b, c, d}
      BY ColumnsOf4
    <2>7. Len(AssetsRoute!SecurityGroupHeader.keys) =< AssetsRoute!SecurityGroupHeader.css
      BY DEF AssetsRoute!SecurityGroupHeader, AssetsRoute!Headers
    <2>8. Labels(<<a, b, c, d>>) = AssetsRoute!SecurityGroupHeader.keys
      BY <2>2, <2>3, <2>4, <2>5, <2>6 DEF Fits, AssetsRoute!SecurityGroupHeader, AssetsRoute!Headers
    <2>9. \A column \in AssetsRoute!Range(<<a, b, c, d>>) : ColumnFits(column, {"id", "name", "account_id"})
      BY <2>2, <2>3, <2>4, <2>5, <2>6 DEF Fits
    <2> QED
      BY <2>1, <2>6, <2>7, <2>8, <2>9 DEF ClassFits, AssetsRoute!Class
  <1>11. ClassFits(AssetsRoute!Class(AssetsRoute!ELBV2Header, AssetsRoute!ELBV2), {"dns_name", "account_id"})
    <2> DEFINE a == AssetsRoute!Name("arn", "dns_name", {"dns_name", "account_id"})
               b == AssetsRoute!Text("scheme", "scheme")
               c == AssetsRoute!Text("publicly_exposed", "publicly_exposed")
               d == AssetsRoute!Text("create_date", "created_time")
               e == AssetsRoute!Text("region", "region")
    <2>1. AssetsRoute!ELBV2 = <<a, b, c, d, e>>
      BY DEF AssetsRoute!ELBV2
    <2>2. Fits(a, "arn", {"dns_name", "account_id"})
      BY FitOfName
    <2>3. Fits(b, "scheme", {"dns_name", "account_id"})
      BY FitOfText
    <2>4. Fits(c, "publicly_exposed", {"dns_name", "account_id"})
      BY FitOfText
    <2>5. Fits(d, "create_date", {"dns_name", "account_id"})
      BY FitOfText
    <2>6. Fits(e, "region", {"dns_name", "account_id"})
      BY FitOfText
    <2> HIDE DEF a, b, c, d, e
    <2>7. /\ Labels(<<a, b, c, d, e>>) = <<a.key, b.key, c.key, d.key, e.key>>
          /\ Head(<<a, b, c, d, e>>) \in AssetsRoute!Range(<<a, b, c, d, e>>)
          /\ AssetsRoute!Range(<<a, b, c, d, e>>) = {a, b, c, d, e}
      BY ColumnsOf5
    <2>8. Len(AssetsRoute!ELBV2Header.keys) =< AssetsRoute!ELBV2Header.css
      BY DEF AssetsRoute!ELBV2Header, AssetsRoute!Headers
    <2>9. Labels(<<a, b, c, d, e>>) = AssetsRoute!ELBV2Header.keys
      BY <2>2, <2>3, <2>4, <2>5, <2>6, <2>7 DEF Fits, AssetsRoute!ELBV2Header, AssetsRoute!Headers
    <2>10. \A column \in AssetsRoute!Range(<<a, b, c, d, e>>) : ColumnFits(column, {"dns_name", "account_id"})
      BY <2>2, <2>3, <2>4, <2>5, <2>6, <2>7 DEF Fits
    <2> QED
      BY <2>1, <2>7, <2>8, <2>9, <2>10 DEF ClassFits, AssetsRoute!Class
  <1>12. ClassFits(AssetsRoute!Class(AssetsRoute!KmsKeyHeader, AssetsRoute!KMSKey), {"id", "account_id"})
    <2> DEFINE a == AssetsRoute!Name("arn", "id", {"id", "account_id"})
               b == AssetsRoute!Text("creation_date", "creation_date")
               c == AssetsRoute!Text("enabled", "enabled")
    <2>1. AssetsRoute!KMSKey = <<a, b, c>>
      BY DEF AssetsRoute!KMSKey
    <2>2. Fits(a, "arn", {"id", "account_id"})
      BY FitOfName
    <2>3. Fits(b, "creation_date", {"id", "account_id"})
      BY FitOfText
    <2>4. Fits(c, "enabled", {"id", "account_id"})
      BY FitOfText
    <2> HIDE DEF a, b, c
    <2>5. /\ Labels(<<a, b, c>>) = <<a.key, b.key, c.key>>
          /\ Head(<<a, b, c>>) \in AssetsRoute!Range(<<a, b, c>>)
          /\ AssetsRoute!Range(<<a, b, c>>) = {a, b, c}
      BY ColumnsOf3
    <2>6. Len(AssetsRoute!KmsKeyHeader.keys) =< AssetsRoute!KmsKeyHeader.css
      BY DEF AssetsRoute!KmsKeyHeader, AssetsRoute!Headers
    <2>7. Labels(<<a, b, c>>) = AssetsRoute!KmsKeyHeader.keys
      BY <2>2, <2>3, <2>4, <2>5 DEF Fits, AssetsRoute!KmsKeyHeader, AssetsRoute!Headers
    <2>8. \A column \in AssetsRoute!Range(<<a, b, c>>) : ColumnFits(column, {"id", "account_id"})
      BY <2>2, <2>3, <2>4, <2>5 DEF Fits
    <2> QED
      BY <2>1, <2>5, <2>6, <2>7, <2>8 DEF ClassFits, AssetsRoute!Class
  <1>13. ClassFits(AssetsRoute!Class(AssetsRoute!RDSInstanceHeader, AssetsRoute!RDSInstance), {"user_identifier", "endpoint_address", "endpoint_port"})
    <2> DEFINE a == AssetsRoute!Name("arn", "user_identifier", {"arn"})
               b == AssetsRoute!Text("availability_zone", "availability_zone")
               c == AssetsRoute!Name("endpoint_address", "endpoint_address", {"endpoint_address"})
               d == [AssetsRoute!Text("endpoint_port", "endpoint_port") EXCEPT !.built = {"endpoint_port"}]
               e == AssetsRoute!Text("engine", "engine")
               f == AssetsRoute!Text("create_date", "create_time")
               g == AssetsRoute!Text("publicly_accessible", "publicly_accessible")
               h == AssetsRoute!Text("storage_encrypted", "storage_encrypted")
    <2>1. AssetsRoute!RDSInstance = <<a, b, c, d, e, f, g, h>>
      BY DEF AssetsRoute!RDSInstance
    <2>2. Fits(a, "arn", {"user_identifier", "endpoint_address", "endpoint_port"})
      BY FitOfName
    <2>3. Fits(b, "availability_zone", {"user_identifier", "endpoint_address", "endpoint_port"})
      BY FitOfText
    <2>4. Fits(c, "endpoint_address", {"user_identifier", "endpoint_address", "endpoint_port"})
      BY FitOfName
    <2>5. Fits(d, "endpoint_port", {"user_identifier", "endpoint_address", "endpoint_port"})
      BY FitOfPort
    <2>6. Fits(e, "engine", {"user_identifier", "endpoint_address", "endpoint_port"})
      BY FitOfText
    <2>7. Fits(f, "create_date", {"user_identifier", "endpoint_address", "endpoint_port"})
      BY FitOfText
    <2>8. Fits(g, "publicly_accessible", {"user_identifier", "endpoint_address", "endpoint_port"})
      BY FitOfText
    <2>9. Fits(h, "storage_encrypted", {"user_identifier", "endpoint_address", "endpoint_port"})
      BY FitOfText
    <2> HIDE DEF a, b, c, d, e, f, g, h
    <2>10. /\ Labels(<<a, b, c, d, e, f, g, h>>) = <<a.key, b.key, c.key, d.key, e.key, f.key, g.key, h.key>>
          /\ Head(<<a, b, c, d, e, f, g, h>>) \in AssetsRoute!Range(<<a, b, c, d, e, f, g, h>>)
          /\ AssetsRoute!Range(<<a, b, c, d, e, f, g, h>>) = {a, b, c, d, e, f, g, h}
      BY ColumnsOf8
    <2>11. Len(AssetsRoute!RDSInstanceHeader.keys) =< AssetsRoute!RDSInstanceHeader.css
      BY DEF AssetsRoute!RDSInstanceHeader, AssetsRoute!Headers
    <2>12. Labels(<<a, b, c, d, e, f, g, h>>) = AssetsRoute!RDSInstanceHeader.keys
      BY <2>2, <2>3, <2>4, <2>5, <2>6, <2>7, <2>8, <2>9, <2>10 DEF Fits, AssetsRoute!RDSInstanceHeader, AssetsRoute!Headers
    <2>13. \A column \in AssetsRoute!Range(<<a, b, c, d, e, f, g, h>>) : ColumnFits(column, {"user_identifier", "endpoint_address", "endpoint_port"})
      BY <2>2, <2>3, <2>4, <2>5, <2>6, <2>7, <2>8, <2>9, <2>10 DEF Fits
    <2> QED
      BY <2>1, <2>10, <2>11, <2>12, <2>13 DEF ClassFits, AssetsRoute!Class
  <1>14. /\ AssetsRoute!assetToObjects["iamRoles"] = AssetsRoute!Class(AssetsRoute!IAMRolesHeader, AssetsRoute!IAMRoles)
         /\ AssetsRoute!assetToObjects["iamUsers"] = AssetsRoute!Class(AssetsRoute!IAMUsersHeader, AssetsRoute!IAMUsers)
         /\ AssetsRoute!assetToObjects["iamPolicies"] = AssetsRoute!Class(AssetsRoute!IAMPoliciesHeader, AssetsRoute!IAMPolicies)
         /\ AssetsRoute!assetToObjects["iamGroups"] = AssetsRoute!Class(AssetsRoute!IAMGroupsHeader, AssetsRoute!IAMGroups)
         /\ AssetsRoute!assetToObjects["ec2Instances"] = AssetsRoute!Class(AssetsRoute!EC2Header, AssetsRoute!EC2Instance)
         /\ AssetsRoute!assetToObjects["lambdaFunctions"] = AssetsRoute!Class(AssetsRoute!LambdaFnHeader, AssetsRoute!LambdaFunction)
         /\ AssetsRoute!assetToObjects["s3Buckets"] = AssetsRoute!Class(AssetsRoute!S3BucketHeader, AssetsRoute!S3Bucket)
         /\ AssetsRoute!assetToObjects["vpcs"] = AssetsRoute!Class(AssetsRoute!VPCHeader, AssetsRoute!VPC)
         /\ AssetsRoute!assetToObjects["internetGateways"] = AssetsRoute!Class(AssetsRoute!InternetGatewayHeader, AssetsRoute!InternetGateway)
         /\ AssetsRoute!assetToObjects["securityGroups"] = AssetsRoute!Class(AssetsRoute!SecurityGroupHeader, AssetsRoute!SecurityGroup)
         /\ AssetsRoute!assetToObjects["elasticLoadBalancersV2"] = AssetsRoute!Class(AssetsRoute!ELBV2Header, AssetsRoute!ELBV2)
         /\ AssetsRoute!assetToObjects["kmsKeys"] = AssetsRoute!Class(AssetsRoute!KmsKeyHeader, AssetsRoute!KMSKey)
         /\ AssetsRoute!assetToObjects["rdsInstances"] = AssetsRoute!Class(AssetsRoute!RDSInstanceHeader, AssetsRoute!RDSInstance)
    BY DEF AssetsRoute!assetToObjects
  <1>15. /\ AssetsRoute!Reads["iamRoles"] = {"arn"}
         /\ AssetsRoute!Reads["iamUsers"] = {"arn"}
         /\ AssetsRoute!Reads["iamPolicies"] = {"name"}
         /\ AssetsRoute!Reads["iamGroups"] = {"arn"}
         /\ AssetsRoute!Reads["ec2Instances"] = {"instance_id", "account_id"}
         /\ AssetsRoute!Reads["lambdaFunctions"] = {"name", "account_id"}
         /\ AssetsRoute!Reads["s3Buckets"] = {"name", "account_id"}
         /\ AssetsRoute!Reads["vpcs"] = {"id", "account_id"}
         /\ AssetsRoute!Reads["internetGateways"] = {"arn"}
         /\ AssetsRoute!Reads["securityGroups"] = {"id", "name", "account_id"}
         /\ AssetsRoute!Reads["elasticLoadBalancersV2"] = {"dns_name", "account_id"}
         /\ AssetsRoute!Reads["kmsKeys"] = {"id", "account_id"}
         /\ AssetsRoute!Reads["rdsInstances"] = {"user_identifier", "endpoint_address", "endpoint_port"}
    BY DEF AssetsRoute!Reads
  <1>16. name \in {"iamRoles", "iamUsers", "iamPolicies", "iamGroups", "ec2Instances",
                    "lambdaFunctions", "s3Buckets", "vpcs", "internetGateways",
                    "securityGroups", "elasticLoadBalancersV2", "kmsKeys", "rdsInstances"}
    BY DEF AssetsRoute!Categories, AssetsRoute!assetToObjects
  <1>17. CASE name = "iamRoles"
    BY <1>1, <1>14, <1>15, <1>17
  <1>18. CASE name = "iamUsers"
    BY <1>2, <1>14, <1>15, <1>18
  <1>19. CASE name = "iamPolicies"
    BY <1>3, <1>14, <1>15, <1>19
  <1>20. CASE name = "iamGroups"
    BY <1>4, <1>14, <1>15, <1>20
  <1>21. CASE name = "ec2Instances"
    BY <1>5, <1>14, <1>15, <1>21
  <1>22. CASE name = "lambdaFunctions"
    BY <1>6, <1>14, <1>15, <1>22
  <1>23. CASE name = "s3Buckets"
    BY <1>7, <1>14, <1>15, <1>23
  <1>24. CASE name = "vpcs"
    BY <1>8, <1>14, <1>15, <1>24
  <1>25. CASE name = "internetGateways"
    BY <1>9, <1>14, <1>15, <1>25
  <1>26. CASE name = "securityGroups"
    BY <1>10, <1>14, <1>15, <1>26
  <1>27. CASE name = "elasticLoadBalancersV2"
    BY <1>11, <1>14, <1>15, <1>27
  <1>28. CASE name = "kmsKeys"
    BY <1>12, <1>14, <1>15, <1>28
  <1>29. CASE name = "rdsInstances"
    BY <1>13, <1>14, <1>15, <1>29
  <1> QED
    BY <1>16, <1>17, <1>18, <1>19, <1>20, <1>21, <1>22, <1>23, <1>24, <1>25, <1>26, <1>27, <1>28, <1>29

(* The operators on bags of the instance are those of the library.         *)
LEMMA AssetBags ==
  /\ \A x, y : AssetsRoute!(-)(x, y) = x (-) y /\ AssetsRoute!(+)(x, y) = x (+) y
  /\ \A x : AssetsRoute!BagToSet(x) = BagToSet(x) /\ (AssetsRoute!IsABag(x) <=> IsABag(x))
  /\ \A x : AssetsRoute!SetToBag(x) = SetToBag(x)
  /\ AssetsRoute!EmptyBag = EmptyBag
  BY DEF (-), (+), BagToSet, IsABag, EmptyBag, SetToBag, AssetsRoute!(-), AssetsRoute!(+),
         AssetsRoute!BagToSet, AssetsRoute!IsABag, AssetsRoute!EmptyBag, AssetsRoute!SetToBag

(* The rows, the requests and the search of the page of assets.            *)
InventoryInv == AssetsRoute!RowsInv /\ AssetsRoute!FilterAsMeant

LEMMA InventoryInit == AssetsRoute!Init => InventoryInv
  <1> SUFFICES ASSUME AssetsRoute!Init PROVE InventoryInv
    OBVIOUS
  <1>1. s7 \in 0 .. AssetFaults /\ "iamUsers" \in DOMAIN Assets
    <2>1. AssetFaults \in Nat /\ "iamUsers" \in DOMAIN Assets
      BY PagesFit DEF AssetsRoute!ConstantsFit
    <2>2. s7 = 0
      BY DEF AssetsRoute!Init
    <2> QED
      BY <2>1, <2>2
  <1>2. s5 = SetToBag({"iamUsers"})
    BY AssetBags DEF AssetsRoute!Init
  <1>3. AssetsRoute!IsABag(s5) /\ AssetsRoute!BagToSet(s5) = {"iamUsers"}
    BY <1>2, OneAlone, AssetBags
  <1>4. s1 = "iamUsers" /\ s2 = "iamUsers" /\ s3 = "" /\ s4 = [class |-> "iamUsers", of |-> "none"]
        /\ s6 = FALSE /\ s8.text = ""
    BY DEF AssetsRoute!Init, AssetsRoute!NoRows
  <1>5. AssetsRoute!FieldsOK
    BY <1>1, <1>3, <1>4 DEF AssetsRoute!FieldsOK
  <1> QED
    BY <1>4, <1>5 DEF InventoryInv, AssetsRoute!RowsInv, AssetsRoute!FilterAsMeant

(* What a change of category leaves alone.                                 *)
LEMMA GoToStep ==
  ASSUME InventoryInv, NEW c \in DOMAIN Assets, NEW item \in DOMAIN Assets, NEW text,
         AssetsRoute!GoTo(c, item, text)
  PROVE  /\ s1' = c /\ s2' \in DOMAIN Assets /\ s4' = s4
         /\ s3' = IF c # s1 /\ c = item THEN "" ELSE text
         /\ s2' = IF c = s1 THEN item ELSE c
         /\ s5' = IF c = s1 THEN s5 ELSE s5 (+) SetToBag({c})
         /\ s6' \in BOOLEAN
  BY AssetBags DEF AssetsRoute!GoTo, AssetsRoute!Show, AssetsRoute!Searched

LEMMA InventoryStep ==
  ASSUME InventoryInv, [AssetsRoute!Next]_(AssetsRoute!vars)
  PROVE  InventoryInv'
  <1> DEFINE Named == DOMAIN Assets
             Rows == [class: Named, of: Named \cup {"none"}]
             Fields == /\ s1 \in Named /\ s2 \in Named /\ s4 \in Rows
                       /\ IsABag(s5) /\ BagToSet(s5) \subseteq Named
                       /\ s6 \in BOOLEAN /\ s7 \in 0 .. AssetFaults
             Classed == s5 = EmptyBag => s4.class = s1
             Search == ~s6 => s3 = s8.text /\ s2 = s1
  <1>1. Fields /\ Classed /\ Search /\ AssetFaults \in Nat /\ "iamUsers" \in Named
    BY PagesFit, AssetBags DEF InventoryInv, AssetsRoute!RowsInv, AssetsRoute!FieldsOK,
       AssetsRoute!FilterAsMeant, AssetsRoute!ConstantsFit
  <1>2. SUFFICES (Fields /\ Classed /\ Search)'
    BY AssetBags DEF InventoryInv, AssetsRoute!RowsInv, AssetsRoute!FieldsOK,
       AssetsRoute!FilterAsMeant
  <1>3. ASSUME NEW menu, NEW sub, AssetsRoute!ClickItem(menu, sub) PROVE <1>2!1
    <2> DEFINE c == AssetsRoute!navIndicesToItemName(menu, sub)
    <2>1. /\ c \in Named /\ AssetsRoute!GoTo(c, c, s3) /\ s7' = s7 /\ ~s6
          /\ s8' = IF c = s1 THEN s8 ELSE [by |-> "item", text |-> ""]
      BY <1>3 DEF AssetsRoute!ClickItem, AssetsRoute!navIndicesToItemName, AssetsRoute!MayAct
    <2> HIDE DEF c
    <2>2. /\ s1' = c /\ s2' = c /\ s4' = s4 /\ s6' \in BOOLEAN
          /\ s3' = IF c # s1 THEN "" ELSE s3
          /\ s5' = IF c = s1 THEN s5 ELSE s5 (+) SetToBag({c})
      BY <2>1, GoToStep
    <2>3. /\ c # s1 => IsABag(s5') /\ BagToSet(s5') = BagToSet(s5) \cup {c}
      BY <1>1, <2>2, OneMore
    <2>4. BagToSet(EmptyBag) = {}
      BY OneAlone
    <2> QED
      BY <1>1, <2>1, <2>2, <2>3, <2>4
  <1>4. ASSUME AssetsRoute!FollowLink PROVE <1>2!1
    <2>1. PICK c, id, field : /\ c \in Named /\ AssetsRoute!GoTo(c, s2, id) /\ s7' = s7 /\ ~s6
                            /\ s8' = [by |-> field, text |-> id]
      BY <1>4 DEF AssetsRoute!FollowLink, AssetsRoute!MayAct
    <2> HIDE DEF Fields, Classed
    <2>2. /\ s1' = c /\ s2' = c /\ s4' = s4 /\ s6' \in BOOLEAN /\ s3' = id
          /\ s5' = IF c = s1 THEN s5 ELSE s5 (+) SetToBag({c})
      <3>1. s2 = s1 /\ s2 \in Named
        BY <1>1, <2>1 DEF Fields
      <3>2. /\ s1' = c /\ s4' = s4 /\ s6' \in BOOLEAN
            /\ s3' = IF c # s1 /\ c = s2 THEN "" ELSE id
            /\ s2' = IF c = s1 THEN s2 ELSE c
            /\ s5' = IF c = s1 THEN s5 ELSE s5 (+) SetToBag({c})
        BY <2>1, <3>1, GoToStep
      <3> QED
        BY <3>1, <3>2
    <2> USE DEF Fields, Classed
    <2>3. /\ c # s1 => IsABag(s5') /\ BagToSet(s5') = BagToSet(s5) \cup {c}
      BY <1>1, <2>2, OneMore
    <2>4. BagToSet(EmptyBag) = {}
      BY OneAlone
    <2> QED
      BY <1>1, <2>1, <2>2, <2>3, <2>4
  <1>5. ASSUME AssetsRoute!handleSearchChange PROVE <1>2!1
    <2>1. PICK text : AssetsRoute!Show(s1, s4, text) /\ s8' = [by |-> "typing", text |-> text]
      BY <1>5 DEF AssetsRoute!handleSearchChange
    <2>2. /\ s4' = s4 /\ s3' = text /\ s6' \in BOOLEAN /\ ~s6
          /\ UNCHANGED <<s1, s2, s5, s7>>
      BY <1>5, <2>1 DEF AssetsRoute!handleSearchChange, AssetsRoute!Show, AssetsRoute!MayAct
    <2> QED
      BY <1>1, <2>1, <2>2
  <1>6. ASSUME AssetsRoute!Reload PROVE <1>2!1
    <2>1. /\ s1' = "iamUsers" /\ s2' = "iamUsers" /\ s3' = "" /\ s7' = s7
          /\ s4' = [class |-> "iamUsers", of |-> "none"] /\ s5' = SetToBag({"iamUsers"})
          /\ s6' = FALSE /\ s8'.text = ""
      BY <1>6, AssetBags DEF AssetsRoute!Reload, AssetsRoute!NoRows
    <2>2. IsABag(s5') /\ BagToSet(s5') = {"iamUsers"}
      BY <2>1, OneAlone
    <2> QED
      BY <1>1, <2>1, <2>2
  <1>7. ASSUME NEW c \in BagToSet(s5), AssetsRoute!getAllRows(c) \/ AssetsRoute!AskFails(c) PROVE <1>2!1
    <2>1. /\ s5' = s5 (-) SetToBag({c}) /\ UNCHANGED <<s1, s2, s8>> /\ ~s6 /\ s3' = s3
          /\ s6' \in BOOLEAN
          /\ (s4' = [class |-> s1, of |-> c] \/ s4' = [class |-> s1, of |-> "none"])
          /\ (s7' = s7 \/ (s7 < AssetFaults /\ s7' = s7 + 1))
      BY <1>7, AssetBags DEF AssetsRoute!getAllRows, AssetsRoute!AskFails, AssetsRoute!Show,
         AssetsRoute!NoRows
    <2>2. IsABag(s5') /\ BagToSet(s5') \subseteq BagToSet(s5)
      BY <1>1, <2>1, OneLess
    <2>3. s7' \in 0 .. AssetFaults
      BY <1>1, <2>1
    <2>4. s4' \in Rows /\ s4'.class = s1
      BY <1>1, <2>1
    <2> QED
      BY <1>1, <2>1, <2>2, <2>3, <2>4
  <1>8. CASE UNCHANGED AssetsRoute!vars
    BY <1>1, <1>8 DEF AssetsRoute!vars
  <1> QED
    BY <1>3, <1>4, <1>5, <1>6, <1>7, <1>8, AssetBags DEF AssetsRoute!Next, AssetsRoute!Asked

(* Rows that have settled stand below the headers of their class.          *)
LEMMA AssetsAsMeant ==
  InventoryInv => AssetsRoute!ColumnsUnderHeaders /\ AssetsRoute!FilterAsMeant
  <1> SUFFICES ASSUME InventoryInv PROVE AssetsRoute!ColumnsUnderHeaders /\ AssetsRoute!FilterAsMeant
    OBVIOUS
  <1>1. /\ s5 = EmptyBag => s4.class = s1
        /\ s1 \in AssetsRoute!Categories
    BY PagesFit, AssetBags DEF InventoryInv, AssetsRoute!RowsInv, AssetsRoute!FieldsOK, AssetsRoute!ConstantsFit
  <1>2. AssetsRoute!ColumnsUnderHeaders
    <2> SUFFICES ASSUME s5 = EmptyBag
                 PROVE  LET columns == AssetsRoute!assetToObjects[s4.class].columns IN
                        [i \in DOMAIN columns |-> columns[i].key] = AssetsRoute!assetToObjects[s1].header.keys
      BY AssetBags DEF AssetsRoute!ColumnsUnderHeaders, AssetsRoute!Quiet
    <2> DEFINE columns == AssetsRoute!assetToObjects[s1].columns
    <2>1. Labels(columns) = AssetsRoute!assetToObjects[s1].header.keys
      BY <1>1, ClassesFit DEF ClassFits
    <2>2. Labels(columns) = [i \in DOMAIN columns |-> columns[i].key]
      BY DEF Labels
    <2> QED
      BY <1>1, <2>1, <2>2
  <1> QED
    BY <1>2 DEF InventoryInv

(* Rows of a class and of its own category, or none.                       *)
OwnRows(r) == r.class \in DOMAIN Assets /\ r.of \in {r.class, "none"}

(* Of a user who waits: rows are of the category, or will be, the field of *)
(* a link is one of assets of the category, and what throws is an asset    *)
(* that lacks what the class of its own category reads.                    *)
PatientInventory ==
    /\ InventoryInv
    /\ OwnRows(s4) /\ AssetsRoute!CrashHasReason
    /\ \/ s5 = EmptyBag /\ s4 = [class |-> s1, of |-> s1]
       \/ s5 = SetToBag({s1})
    /\ s8.by \in DOMAIN AssetsRoute!Refers => s1 = AssetsRoute!Refers[s8.by]

LEMMA ColumnsOfOwnClass ==
  ASSUME NEW c \in DOMAIN Assets
  PROVE  /\ c \in AssetsRoute!Categories /\ AssetsRoute!HeadersDraw(c)
         /\ \A column \in AssetsRoute!ColumnsOf(c) : ColumnFits(column, AssetsRoute!Reads[c])
  <1>1. c \in AssetsRoute!Categories
    BY PagesFit DEF AssetsRoute!ConstantsFit
  <1>2. ClassFits(AssetsRoute!assetToObjects[c], AssetsRoute!Reads[c])
    BY <1>1, ClassesFit
  <1>3. AssetsRoute!HeadersDraw(c)
    BY <1>1, <1>2 DEF ClassFits, AssetsRoute!HeadersDraw
  <1>4. \A column \in AssetsRoute!ColumnsOf(c) : ColumnFits(column, AssetsRoute!Reads[c])
    BY <1>2 DEF ClassFits, AssetsRoute!ColumnsOf
  <1> QED
    BY <1>1, <1>3, <1>4

(* An asset that can be shown is built, searched and drawn by the class of *)
(* its own category.                                                       *)
LEMMA ShowableShows ==
  ASSUME NEW c \in DOMAIN Assets, NEW a, AssetsRoute!Showable(c, a), NEW text
  PROVE  AssetsRoute!Builds(c, a) /\ AssetsRoute!Searches(c, a, text) /\ AssetsRoute!Draws(c, a)
  <1>1. /\ AssetsRoute!Reads[c] \subseteq DOMAIN a
        /\ "key_pairs" \in DOMAIN a => "iam_roles" \in DOMAIN a
    BY DEF AssetsRoute!Showable
  <1>2. \A column \in AssetsRoute!ColumnsOf(c) : ColumnFits(column, AssetsRoute!Reads[c])
    BY ColumnsOfOwnClass
  <1>3. AssetsRoute!Builds(c, a)
    <2> SUFFICES ASSUME NEW column \in AssetsRoute!ColumnsOf(c)
                 PROVE  /\ column.built \subseteq DOMAIN a
                        /\ column.when \in DOMAIN a => column.lists \in DOMAIN a
      BY DEF AssetsRoute!Builds
    <2> QED
      BY <1>1, <1>2 DEF ColumnFits
  <1>4. AssetsRoute!Searches(c, a, text)
    BY <1>1, <1>2 DEF AssetsRoute!Searches, ColumnFits
  <1>5. AssetsRoute!Draws(c, a)
    BY <1>1, <1>2 DEF AssetsRoute!Draws, ColumnFits
  <1> QED
    BY <1>3, <1>4, <1>5

(* The column of the id is the first one.                                  *)
LEMMA FirstColumns ==
  ASSUME NEW c \in {"iamUsers", "iamGroups", "iamRoles", "iamPolicies", "vpcs"}
  PROVE  AssetsRoute!IdOf[c] \in Head(AssetsRoute!assetToObjects[c].columns).value
  <1>1. /\ "arn" \in Head(AssetsRoute!IAMUsers).value
        /\ "arn" \in Head(AssetsRoute!IAMGroups).value
        /\ "arn" \in Head(AssetsRoute!IAMRoles).value
    <2>1. "arn" \in AssetsRoute!Arn.value
      BY DEF AssetsRoute!Arn, AssetsRoute!Text
    <2>2. /\ Head(AssetsRoute!IAMUsers) = AssetsRoute!Arn
          /\ Head(AssetsRoute!IAMGroups) = AssetsRoute!Arn
          /\ Head(AssetsRoute!IAMRoles) = AssetsRoute!Arn
      BY DEF AssetsRoute!IAMUsers, AssetsRoute!IAMGroups, AssetsRoute!IAMRoles
    <2> QED
      BY <2>1, <2>2
  <1>2. "id" \in Head(AssetsRoute!IAMPolicies).value /\ "id" \in Head(AssetsRoute!VPC).value
    <2>1. \A k, f, v : AssetsRoute!Name(k, f, v).value = v
      BY DEF AssetsRoute!Name, AssetsRoute!Text
    <2>2. /\ Head(AssetsRoute!IAMPolicies) = AssetsRoute!Name("id", "name", {"id"})
          /\ Head(AssetsRoute!VPC) = AssetsRoute!Name("arn", "id", {"id", "account_id"})
      BY DEF AssetsRoute!IAMPolicies, AssetsRoute!VPC
    <2> QED
      BY <2>1, <2>2
  <1> QED
    BY <1>1, <1>2 DEF AssetsRoute!IdOf, AssetsRoute!assetToObjects, AssetsRoute!Class

(* A class shows the assets of its own category, or one of them lacks what *)
(* the class reads.                                                        *)
LEMMA OwnRowsShow ==
  ASSUME NEW c \in DOMAIN Assets, NEW r, OwnRows(r), NEW text, AssetsRoute!Show(c, r, text)
  PROVE  s4' = r /\ s3' = text /\ AssetsRoute!CrashHasReason'
  <1>1. s4' = r /\ s3' = text
    BY DEF AssetsRoute!Show
  <1>2. SUFFICES ASSUME \A a \in AssetsRoute!Answer(r.of) : AssetsRoute!Showable(r.of, a)
                 PROVE  ~s6'
    BY <1>1 DEF AssetsRoute!CrashHasReason, AssetsRoute!Answer
  <1>3. r.of = "none" => AssetsRoute!Answer(r.of) = {}
    BY DEF AssetsRoute!Answer
  <1>4. \A a \in AssetsRoute!Answer(r.of) :
          /\ AssetsRoute!Builds(r.class, a) /\ AssetsRoute!Searches(r.class, a, text)
          /\ AssetsRoute!Draws(r.class, a)
    BY <1>2, <1>3, ShowableShows DEF OwnRows
  <1>5. AssetsRoute!searchFilterFunction(r, text) \subseteq AssetsRoute!Answer(r.of)
    BY DEF AssetsRoute!searchFilterFunction
  <1>6. AssetsRoute!HeadersDraw(c)
    BY ColumnsOfOwnClass
  <1> QED
    BY <1>4, <1>5, <1>6 DEF AssetsRoute!Show

LEMMA PatientInventoryInit == AssetsRoute!Init => PatientInventory
  <1> SUFFICES ASSUME AssetsRoute!Init PROVE PatientInventory
    OBVIOUS
  <1>1. "iamUsers" \in DOMAIN Assets
    BY PagesFit DEF AssetsRoute!ConstantsFit
  <1>2. /\ s1 = "iamUsers" /\ s4 = [class |-> "iamUsers", of |-> "none"] /\ s6 = FALSE
        /\ s5 = SetToBag({"iamUsers"}) /\ s8.by = "item"
    BY AssetBags DEF AssetsRoute!Init, AssetsRoute!NoRows
  <1>3. OwnRows(s4) /\ AssetsRoute!CrashHasReason
    BY <1>1, <1>2 DEF OwnRows, AssetsRoute!CrashHasReason
  <1> QED
    BY <1>2, <1>3, InventoryInit, ReferredFields DEF PatientInventory

LEMMA PatientGoTo ==
  ASSUME Patient, PatientInventory, NEW c \in DOMAIN Assets, NEW item \in DOMAIN Assets, NEW text,
         AssetsRoute!MayAct, AssetsRoute!GoTo(c, item, text)
  PROVE  /\ s1' = c /\ s4' = s4 /\ AssetsRoute!CrashHasReason'
         /\ \/ s5' = EmptyBag /\ s4 = [class |-> c, of |-> c]
            \/ s5' = SetToBag({c})
  <1>1. s5 = EmptyBag /\ OwnRows(s4)
    BY AssetBags DEF AssetsRoute!MayAct, PatientInventory
  <1>2. s4 = [class |-> s1, of |-> s1]
    BY <1>1, OneAlone DEF PatientInventory
  <1>3. /\ s1' = c /\ s4' = s4
        /\ s5' = IF c = s1 THEN s5 ELSE s5 (+) SetToBag({c})
    BY GoToStep DEF PatientInventory
  <1>4. \E t : AssetsRoute!Show(c, s4, t)
    BY DEF AssetsRoute!GoTo
  <1>5. AssetsRoute!CrashHasReason'
    BY <1>1, <1>4, OwnRowsShow
  <1> QED
    BY <1>1, <1>2, <1>3, <1>5, OneAlone

LEMMA PatientInventoryStep ==
  ASSUME Patient, PatientInventory, [AssetsRoute!Next]_(AssetsRoute!vars)
  PROVE  PatientInventory'
  <1> DEFINE Table == \/ s5 = EmptyBag /\ s4 = [class |-> s1, of |-> s1]
                      \/ s5 = SetToBag({s1})
             Found == s8.by \in DOMAIN AssetsRoute!Refers => s1 = AssetsRoute!Refers[s8.by]
             Reason == AssetsRoute!CrashHasReason
  <1>1. InventoryInv /\ Reason /\ OwnRows(s4) /\ Table /\ Found
    BY DEF PatientInventory
  <1>2. InventoryInv'
    BY <1>1, InventoryStep
  <1>3. SUFFICES (Reason /\ OwnRows(s4) /\ Table /\ Found)'
    BY <1>2 DEF PatientInventory
  <1>4. s1 \in DOMAIN Assets /\ s2 \in DOMAIN Assets /\ AssetFaults = 0 /\ s7 \in 0 .. AssetFaults
    BY <1>1, FrontendAssumption DEF InventoryInv, AssetsRoute!RowsInv, AssetsRoute!FieldsOK
  <1>5. "iamUsers" \in DOMAIN Assets
    BY PagesFit DEF AssetsRoute!ConstantsFit
  <1>6. CASE UNCHANGED AssetsRoute!vars
    <2>1. UNCHANGED <<s1, s4, s5, s6, s8>>
      BY <1>6 DEF AssetsRoute!vars
    <2> QED
      BY <1>1, <2>1 DEF OwnRows, AssetsRoute!CrashHasReason, AssetsRoute!Answer
  <1>7. ASSUME NEW menu, NEW sub, AssetsRoute!ClickItem(menu, sub) PROVE <1>3!1
    <2> DEFINE c == AssetsRoute!navIndicesToItemName(menu, sub)
    <2>1. /\ c \in DOMAIN Assets /\ AssetsRoute!GoTo(c, c, s3) /\ AssetsRoute!MayAct
          /\ s8' = IF c = s1 THEN s8 ELSE [by |-> "item", text |-> ""]
      BY <1>7 DEF AssetsRoute!ClickItem, AssetsRoute!navIndicesToItemName
    <2> HIDE DEF c
    <2>2. /\ s1' = c /\ s4' = s4 /\ Reason'
          /\ \/ s5' = EmptyBag /\ s4 = [class |-> c, of |-> c]
             \/ s5' = SetToBag({c})
      BY <2>1, PatientGoTo
    <2>3. Found'
      BY <1>1, <2>1, <2>2, ReferredFields
    <2> HIDE DEF Found, Reason
    <2> QED
      BY <1>1, <2>2, <2>3 DEF OwnRows
  <1>8. ASSUME AssetsRoute!FollowLink PROVE <1>3!1
    <2>1. PICK column \in AssetsRoute!ColumnsOf(s4.class) :
             \E asset \in AssetsRoute!DisplayedRows : \E id \in AssetsRoute!LinksOf(column, asset) :
                /\ column.to \in DOMAIN Assets
                /\ AssetsRoute!GoTo(column.to, s2, id)
                /\ s8' = [by |-> column.when, text |-> id]
      BY <1>8 DEF AssetsRoute!FollowLink
    <2> DEFINE c == column.to
    <2>2. PICK asset, id :
                /\ id \in AssetsRoute!LinksOf(column, asset)
                /\ c \in DOMAIN Assets /\ AssetsRoute!GoTo(c, s2, id)
                /\ s8' = [by |-> column.when, text |-> id]
      BY <2>1
    <2>3. AssetsRoute!MayAct
      BY <1>8 DEF AssetsRoute!FollowLink
    <2>4. /\ s1' = c /\ s4' = s4 /\ Reason'
          /\ \/ s5' = EmptyBag /\ s4 = [class |-> c, of |-> c]
             \/ s5' = SetToBag({c})
      <3> HIDE DEF c
      <3> QED
        BY <1>1, <1>4, <2>2, <2>3, PatientGoTo
    <2>5. s4 = [class |-> s1, of |-> s1]
      BY <1>1, <2>3, AssetBags, OneAlone DEF AssetsRoute!MayAct
    <2>6. ColumnFits(column, AssetsRoute!Reads[s1]) /\ column.to # ""
      BY <1>4, <2>2, <2>5, ColumnsOfOwnClass DEF AssetsRoute!LinksOf
    <2>7. Found'
      BY <2>2, <2>4, <2>6, ReferredFields DEF ColumnFits
    <2> HIDE DEF c, Found, Reason
    <2> QED
      BY <1>1, <2>4, <2>7 DEF OwnRows
  <1>9. ASSUME AssetsRoute!handleSearchChange PROVE <1>3!1
    <2>1. PICK text : AssetsRoute!Show(s1, s4, text) /\ s8' = [by |-> "typing", text |-> text]
      BY <1>9 DEF AssetsRoute!handleSearchChange
    <2>2. UNCHANGED <<s1, s2, s5, s7>>
      BY <1>9 DEF AssetsRoute!handleSearchChange
    <2>3. Reason' /\ s4' = s4
      BY <1>1, <1>4, <2>1, OwnRowsShow
    <2>4. Found'
      BY <2>1, ReferredFields
    <2> HIDE DEF Found, Reason
    <2> QED
      BY <1>1, <2>2, <2>3, <2>4 DEF OwnRows
  <1>10. ASSUME AssetsRoute!Reload PROVE <1>3!1
    <2>1. /\ s1' = "iamUsers" /\ s4' = [class |-> "iamUsers", of |-> "none"]
          /\ s5' = SetToBag({"iamUsers"}) /\ s6' = FALSE /\ s8'.by = "item"
      BY <1>10, AssetBags DEF AssetsRoute!Reload, AssetsRoute!NoRows
    <2>2. Reason'
      BY <2>1 DEF AssetsRoute!CrashHasReason
    <2>3. Found'
      BY <2>1, ReferredFields
    <2> HIDE DEF Found, Reason
    <2> QED
      BY <1>5, <2>1, <2>2, <2>3 DEF OwnRows
  <1>11. ASSUME NEW c \in BagToSet(s5), AssetsRoute!getAllRows(c) PROVE <1>3!1
    <2>1. /\ s5' = s5 (-) SetToBag({c}) /\ UNCHANGED <<s1, s8>>
          /\ AssetsRoute!Show(s1, [class |-> s1, of |-> c], s3)
      BY <1>11, AssetBags DEF AssetsRoute!getAllRows
    <2>2. s5 = SetToBag({s1}) /\ c = s1
      BY <1>1, OneAlone
    <2> DEFINE r == [class |-> s1, of |-> s1]
    <2>3. OwnRows(r)
      BY <1>4 DEF OwnRows
    <2> HIDE DEF r
    <2>4. Reason' /\ s4' = r
      BY <1>4, <2>1, <2>2, <2>3, OwnRowsShow DEF r
    <2>5. s5' = EmptyBag
      BY <2>1, <2>2, OneAlone
    <2>6. Found'
      BY <1>1, <2>1
    <2> HIDE DEF Found, Reason
    <2> QED
      BY <1>1, <1>4, <2>1, <2>4, <2>5, <2>6 DEF r, OwnRows
  <1>12. ASSUME NEW c, AssetsRoute!AskFails(c) PROVE FALSE
    BY <1>4, <1>12 DEF AssetsRoute!AskFails
  <1> HIDE DEF Table, Found, Reason
  <1> QED
    BY <1>6, <1>7, <1>8, <1>9, <1>10, <1>11, <1>12, AssetBags DEF AssetsRoute!Next, AssetsRoute!Asked

LEMMA AssetsComeUp ==
  PatientInventory =>
      AssetsRoute!TableShowsCategory /\ AssetsRoute!LinkFindsAsset /\ AssetsRoute!CrashHasReason
  <1> SUFFICES ASSUME PatientInventory
               PROVE  AssetsRoute!TableShowsCategory /\ AssetsRoute!LinkFindsAsset
    BY DEF PatientInventory
  <1>1. AssetsRoute!Quiet => s4 = [class |-> s1, of |-> s1]
    BY AssetBags, OneAlone DEF AssetsRoute!Quiet, PatientInventory
  <1>2. ASSUME AssetsRoute!Quiet, s8.by \in DOMAIN AssetsRoute!Refers,
               NEW a \in AssetsRoute!Answer(s1), AssetsRoute!HasId(a, s1, s8.text)
        PROVE  a \in AssetsRoute!DisplayedRows
    <2> DEFINE first == Head(AssetsRoute!assetToObjects[s1].columns)
    <2>1. s1 \in {"iamUsers", "iamGroups", "iamRoles", "iamPolicies", "vpcs"}
      BY <1>2, ReferredFields DEF PatientInventory
    <2>2. first \in AssetsRoute!ColumnsOf(s1) /\ AssetsRoute!IdOf[s1] \in first.value
      <3>1. s1 \in AssetsRoute!Categories
        BY PagesFit DEF PatientInventory, InventoryInv, AssetsRoute!RowsInv, AssetsRoute!FieldsOK,
           AssetsRoute!ConstantsFit
      <3> QED
        BY <2>1, <3>1, ClassesFit, FirstColumns DEF ClassFits, AssetsRoute!ColumnsOf
    <2>3. s3 = s8.text
      BY <1>2 DEF PatientInventory, InventoryInv, AssetsRoute!FilterAsMeant, AssetsRoute!Quiet
    <2> HIDE DEF first
    <2>4. s3 \in AssetsRoute!Value(first, a)
      BY <1>2, <2>2, <2>3 DEF AssetsRoute!HasId, AssetsRoute!Value
    <2>5. s4.of = s1 /\ s4.class = s1
      BY <1>1, <1>2
    <2> QED
      BY <1>2, <2>2, <2>4, <2>5 DEF AssetsRoute!DisplayedRows, AssetsRoute!searchFilterFunction
  <1>3. AssetsRoute!LinkFindsAsset
    BY <1>1, <1>2 DEF AssetsRoute!LinkFindsAsset, PatientInventory
  <1> QED
    BY <1>1, <1>3 DEF AssetsRoute!TableShowsCategory

-----------------------------------------------------------------------------
(* How many requests are under way.                                        *)

(* Instances count as this module does.                                    *)
LEMMA SameCopies ==
  /\ \A B : MuteMenu!UnderWay(B) = UnderWay(B)
  /\ \A B : RuleRows!UnderWay(B) = UnderWay(B)
  /\ \A B : AssetsRoute!UnderWay(B) = UnderWay(B)
  BY DEF UnderWay, Copies, Cardinality, MuteMenu!UnderWay, MuteMenu!Copies, MuteMenu!Cardinality,
         RuleRows!UnderWay, RuleRows!Copies, RuleRows!Cardinality,
         AssetsRoute!UnderWay, AssetsRoute!Copies, AssetsRoute!Cardinality

(* The bounds on the requests of the three pages that send them in any     *)
(* number.                                                                 *)
FewPosts == Few(s7, RulePosts)

LEMMA FewPostsInit == RuleRows!Init => FewPosts
  <1> SUFFICES ASSUME RuleRows!Init PROVE FewPosts
    OBVIOUS
  <1>1. s7 = EmptyBag /\ RulePosts \in Nat
    BY PagesFit, RuleBags DEF RuleRows!Init, RuleRows!ConstantsFit
  <1> QED
    BY <1>1, FewAlone DEF FewPosts

LEMMA FewPostsStep ==
  ASSUME IsABag(s7), FewPosts, [RuleRows!Next]_(RuleRows!vars)
  PROVE  FewPosts'
  <1>1. RulePosts \in Nat
    BY PagesFit DEF RuleRows!ConstantsFit
  <1>2. ASSUME NEW r, RuleRows!handleToggle(r) PROVE FewPosts'
    <2>1. UnderWay(s7) < RulePosts
      BY <1>2, SameCopies DEF RuleRows!handleToggle
    <2>2. PICK p : s7' = s7 (+) SetToBag({p})
      BY <1>2, RuleBags DEF RuleRows!handleToggle
    <2> QED
      BY <1>1, <2>1, <2>2, FewMore DEF FewPosts
  <1>3. ASSUME NEW p \in BagToSet(s7), RuleRows!ToggleRuleActive(p) \/ RuleRows!PostFails(p)
        PROVE  FewPosts'
    <2>1. s7' = s7 (-) SetToBag({p})
      BY <1>3, RuleBags DEF RuleRows!ToggleRuleActive, RuleRows!PostFails
    <2> QED
      BY <1>1, <2>1, FewLess DEF FewPosts
  <1>4. ASSUME s7' = s7 PROVE FewPosts'
    BY <1>4 DEF FewPosts
  <1>5. CASE UNCHANGED RuleRows!vars
    BY <1>4, <1>5 DEF RuleRows!vars
  <1>6. CASE RuleRows!Next
    <2>1. ASSUME NEW c, RuleRows!OpenTab(c) PROVE s7' = s7
      BY <2>1 DEF RuleRows!OpenTab
    <2>2. RuleRows!ServeRules \/ RuleRows!getRulesInfoData \/ RuleRows!FetchFails => s7' = s7
      BY DEF RuleRows!ServeRules, RuleRows!getRulesInfoData, RuleRows!FetchFails
    <2>3. \A f : RuleRows!Refilter(f) => s7' = s7
      BY DEF RuleRows!Refilter
    <2>4. RuleRows!Filter \/ RuleRows!ClickHeader => s7' = s7
      BY <2>3 DEF RuleRows!Filter, RuleRows!ClickHeader
    <2> QED
      BY <1>2, <1>3, <1>4, <1>6, <2>1, <2>2, <2>4, RuleBags DEF RuleRows!Next
  <1> QED
    BY <1>5, <1>6

FewMutes == Few(s2, MuteAsks) /\ Few(s3, MutePosts)

LEMMA FewMutesInit == MuteMenu!Init => FewMutes
  <1> SUFFICES ASSUME MuteMenu!Init PROVE FewMutes
    OBVIOUS
  <1>1. MuteAsks \in Nat /\ MuteAsks > 0 /\ MutePosts \in Nat
    BY PagesFit DEF MuteMenu!ConstantsFit
  <1>2. s2 = SetToBag({MuteMenu!Ask}) /\ s3 = EmptyBag
    BY MuteBags DEF MuteMenu!Init, MuteMenu!One
  <1> QED
    BY <1>1, <1>2, FewAlone DEF FewMutes

LEMMA FewMutesStep ==
  ASSUME IsABag(s2), IsABag(s3), FewMutes, [MuteMenu!Next]_(MuteMenu!vars)
  PROVE  FewMutes'
  <1>1. MuteAsks \in Nat /\ MuteAsks > 0 /\ MutePosts \in Nat /\ Few(s2, MuteAsks) /\ Few(s3, MutePosts)
    BY PagesFit DEF MuteMenu!ConstantsFit, FewMutes
  <1>2. SUFFICES Few(s2', MuteAsks) /\ Few(s3', MutePosts)
    BY DEF FewMutes
  <1>3. ASSUME NEW a, MuteMenu!onClickToggleFn(a) PROVE <1>2!1
    <2>1. UnderWay(s3) < MutePosts /\ s2' = s2
      BY <1>3, SameCopies DEF MuteMenu!onClickToggleFn
    <2>2. PICK p : s3' = s3 (+) SetToBag({p})
      BY <1>3, MuteBags DEF MuteMenu!onClickToggleFn, MuteMenu!One
    <2> QED
      BY <1>1, <2>1, <2>2, FewMore
  <1>4. ASSUME NEW p \in BagToSet(s3), MuteMenu!ToggleAlertMuted(p) \/ MuteMenu!PostFails(p)
        PROVE  <1>2!1
    <2>1. s3' = s3 (-) SetToBag({p}) /\ s2' = s2
      BY <1>4, MuteBags DEF MuteMenu!ToggleAlertMuted, MuteMenu!PostFails, MuteMenu!One
    <2> QED
      BY <1>1, <2>1, FewLess
  <1>5. ASSUME MuteMenu!AskAgain PROVE <1>2!1
    <2>1. UnderWay(s2) < MuteAsks /\ s3' = s3 /\ s2' = s2 (+) SetToBag({MuteMenu!Ask})
      BY <1>5, SameCopies, MuteBags DEF MuteMenu!AskAgain, MuteMenu!One
    <2> QED
      BY <1>1, <2>1, FewMore
  <1>6. ASSUME MuteMenu!Remount PROVE <1>2!1
    <2>1. s3' = s3 /\ s2' = SetToBag({MuteMenu!Ask})
      BY <1>6, MuteBags DEF MuteMenu!Remount, MuteMenu!One
    <2> QED
      BY <1>1, <2>1, FewAlone
  <1>7. ASSUME NEW q \in BagToSet(s2), MuteMenu!TakeAnswer(q) \/ MuteMenu!AskFails(q)
        PROVE  <1>2!1
    <2>1. s2' = s2 (-) SetToBag({q}) /\ s3' = s3
      BY <1>7, MuteBags DEF MuteMenu!TakeAnswer, MuteMenu!AskFails, MuteMenu!One
    <2> QED
      BY <1>1, <2>1, FewLess
  <1>8. ASSUME NEW q \in BagToSet(s2), MuteMenu!GetAllAlerts(q) PROVE <1>2!1
    <2> DEFINE r == [q EXCEPT !.served = TRUE, !.got = s4]
               B == s2 (-) SetToBag({q})
    <2>1. s2' = B (+) SetToBag({r}) /\ s3' = s3
      BY <1>8, MuteBags DEF MuteMenu!GetAllAlerts, MuteMenu!One
    <2>2. IsABag(B) /\ Few(B, MuteAsks) /\ UnderWay(B) < MuteAsks
      BY <1>1, OneLess, FewLess
    <2> HIDE DEF B, r
    <2> QED
      BY <1>1, <2>1, <2>2, FewMore
  <1>9. CASE UNCHANGED MuteMenu!vars
    BY <1>1, <1>9 DEF MuteMenu!vars
  <1> QED
    BY <1>3, <1>4, <1>5, <1>6, <1>7, <1>8, <1>9, MuteBags DEF MuteMenu!Next

FewAsks == Few(s5, AssetAsks)

LEMMA FewAsksInit == AssetsRoute!Init => FewAsks
  <1> SUFFICES ASSUME AssetsRoute!Init PROVE FewAsks
    OBVIOUS
  <1>1. AssetAsks \in Nat /\ AssetAsks > 0
    BY PagesFit DEF AssetsRoute!ConstantsFit
  <1>2. s5 = SetToBag({"iamUsers"})
    BY AssetBags DEF AssetsRoute!Init
  <1> QED
    BY <1>1, <1>2, FewAlone DEF FewAsks

LEMMA FewAsksStep ==
  ASSUME IsABag(s5), FewAsks, [AssetsRoute!Next]_(AssetsRoute!vars)
  PROVE  FewAsks'
  <1>1. AssetAsks \in Nat /\ AssetAsks > 0 /\ Few(s5, AssetAsks)
    BY PagesFit DEF AssetsRoute!ConstantsFit, FewAsks
  <1>2. SUFFICES Few(s5', AssetAsks)
    BY DEF FewAsks
  <1>3. ASSUME NEW c, NEW item, NEW text, AssetsRoute!GoTo(c, item, text) PROVE <1>2!1
    <2>1. CASE s5' = s5
      BY <1>1, <2>1
    <2>2. CASE UnderWay(s5) < AssetAsks /\ s5' = s5 (+) SetToBag({c})
      BY <1>1, <2>2, FewMore
    <2> QED
      BY <1>3, <2>1, <2>2, SameCopies, AssetBags DEF AssetsRoute!GoTo
  <1>4. ASSUME NEW menu, NEW sub, AssetsRoute!ClickItem(menu, sub) PROVE <1>2!1
    BY <1>3, <1>4 DEF AssetsRoute!ClickItem
  <1>5. ASSUME AssetsRoute!FollowLink PROVE <1>2!1
    BY <1>3, <1>5 DEF AssetsRoute!FollowLink
  <1>6. ASSUME AssetsRoute!handleSearchChange PROVE <1>2!1
    BY <1>1, <1>6 DEF AssetsRoute!handleSearchChange
  <1>7. ASSUME AssetsRoute!Reload PROVE <1>2!1
    <2>1. s5' = SetToBag({"iamUsers"})
      BY <1>7, AssetBags DEF AssetsRoute!Reload
    <2> QED
      BY <1>1, <2>1, FewAlone
  <1>8. ASSUME NEW c \in BagToSet(s5), AssetsRoute!getAllRows(c) \/ AssetsRoute!AskFails(c)
        PROVE  <1>2!1
    <2>1. s5' = s5 (-) SetToBag({c})
      BY <1>8, AssetBags DEF AssetsRoute!getAllRows, AssetsRoute!AskFails
    <2> QED
      BY <1>1, <2>1, FewLess
  <1>9. CASE UNCHANGED AssetsRoute!vars
    BY <1>1, <1>9 DEF AssetsRoute!vars
  <1> QED
    BY <1>4, <1>5, <1>6, <1>7, <1>8, <1>9, AssetBags DEF AssetsRoute!Next, AssetsRoute!Asked

-----------------------------------------------------------------------------
(* All pages.                                                              *)

PagesInv ==
    /\ page = "accounts" => AccountsTab!AccountsInv
    /\ page = "form" => AccountForm!FormInv
    /\ page = "explore" => Explorer!RequestsInv /\ (Patient => Explorer!GraphInv)
    /\ page = "table" => AlertRows!SortInv
    /\ page = "rules" => RuleFields /\ FewPosts /\ (Patient => RuleSwitches)
    /\ page = "alerts" =>
          AlertsRoute!PageInv /\ (~Appearing => AlertsRoute!FoundInv)
    /\ page = "mutes" =>
          MuteMenu!FieldsOK /\ FewMutes /\ (Patient => MuteMenu!ButtonsInv)
    /\ page = "inventory" => InventoryInv /\ FewAsks /\ (Patient => PatientInventory)
    /\ page = "compliance" =>
          ComplianceRoute!CountInv /\ ComplianceRoute!ReportInv /\ ComplianceRoute!RestTyped

LEMMA PagesInit == Init => PagesInv
  <1> SUFFICES ASSUME Init PROVE PagesInv
    OBVIOUS
  <1>1. page = "accounts" => AccountsTab!AccountsInv
    BY PagesFit, AccountsTab!AccountsInit DEF Init
  <1>2. page = "form" => AccountForm!FormInv
    BY PagesFit, AccountForm!FormInit DEF Init
  <1>3. page = "alerts" => AlertsRoute!PageInv /\ AlertsRoute!FoundInv
    BY PagesFit, AlertsRoute!PageInit, AlertsRoute!FoundInit DEF Init
  <1>4. page = "compliance" =>
           ComplianceRoute!CountInv /\ ComplianceRoute!ReportInv /\ ComplianceRoute!RestTyped
    BY PagesFit, ComplianceRoute!CountInit, ComplianceRoute!ReportInit, ComplianceRoute!RestInit
       DEF Init
  <1>5. page = "explore" => Explorer!RequestsInv /\ Explorer!GraphInv
    BY PagesFit, Explorer!ExploreInit DEF Init, Explorer!GraphInv
  <1>6. page = "table" => AlertRows!SortInv
    BY AlertsTableInit DEF Init
  <1>7. page = "rules" => RuleFields /\ FewPosts /\ RuleSwitches
    BY RulesInit, FewPostsInit, SwitchesInit DEF Init
  <1>8. page = "mutes" => MuteMenu!FieldsOK /\ FewMutes /\ MuteMenu!ButtonsInv
    BY MutesInit, FewMutesInit, MutesPatientInit DEF Init
  <1>9. page = "inventory" => InventoryInv /\ FewAsks /\ PatientInventory
    BY InventoryInit, FewAsksInit, PatientInventoryInit DEF Init
  <1> QED
    BY <1>1, <1>2, <1>3, <1>4, <1>5, <1>6, <1>7, <1>8, <1>9 DEF PagesInv

(* A step of the browser is one of its page, which it does not leave.      *)
LEMMA PageSteps ==
    ASSUME [Next]_all
    PROVE  /\ page' = page
           /\ page = "accounts" => [AccountsTab!Next]_(AccountsTab!vars)
           /\ page = "form" => [AccountForm!Next]_(AccountForm!vars)
           /\ page = "explore" => [Explorer!Next]_(Explorer!vars)
           /\ page = "table" => [AlertRows!Next]_(AlertRows!vars)
           /\ page = "rules" => [RuleRows!Next]_(RuleRows!vars)
           /\ page = "alerts" => [AlertsRoute!Next]_(AlertsRoute!vars)
           /\ page = "mutes" => [MuteMenu!Next]_(MuteMenu!vars)
           /\ page = "inventory" => [AssetsRoute!Next]_(AssetsRoute!vars)
           /\ page = "compliance" => [ComplianceRoute!Next]_(ComplianceRoute!vars)
  <1>1. CASE UNCHANGED all
    BY <1>1 DEF all, AccountsTab!vars, AccountsTab!backend, AccountsTab!page, AccountsTab!dialogs,
                AccountsTab!faults, AccountForm!vars, Explorer!vars, AlertRows!vars,
                RuleRows!vars, AlertsRoute!vars, MuteMenu!vars, AssetsRoute!vars,
                ComplianceRoute!vars
  <1>2. CASE Next
    BY <1>2 DEF Next, Only5, Only8, Only9, Only12
  <1> QED
    BY <1>1, <1>2

LEMMA PagesStep == PagesInv /\ [Next]_all => PagesInv'
  <1> SUFFICES ASSUME PagesInv, [Next]_all PROVE PagesInv'
    OBVIOUS
  <1>1. page = "accounts" => (AccountsTab!AccountsInv)'
    BY PageSteps, PagesFit, AccountsTab!AccountsStep DEF PagesInv
  <1>2. page = "form" => (AccountForm!FormInv)'
    BY PageSteps, PagesFit, AccountForm!FormStep DEF PagesInv
  <1>3. page = "alerts" => (AlertsRoute!PageInv)' /\ (~Appearing => (AlertsRoute!FoundInv)')
    BY PageSteps, PagesFit, AlertsRoute!PageStep, AlertsRoute!FoundStep DEF PagesInv
  <1>4. page = "compliance" =>
           /\ (ComplianceRoute!CountInv)' /\ (ComplianceRoute!ReportInv)'
           /\ (ComplianceRoute!RestTyped)'
    BY PageSteps, PagesFit, ComplianceRoute!CountStep, ComplianceRoute!ReportStep,
       ComplianceRoute!RestStep DEF PagesInv
  <1>5. page = "explore" => (Explorer!RequestsInv)' /\ (Patient => (Explorer!GraphInv)')
    BY PageSteps, PagesFit, Explorer!RequestsStep, Explorer!GraphStep DEF PagesInv
  <1>6. page = "table" => (AlertRows!SortInv)'
    BY PageSteps, AlertsTableStep DEF PagesInv
  <1>7. page = "rules" => RuleFields' /\ FewPosts' /\ (Patient => RuleSwitches')
    <2> SUFFICES ASSUME page = "rules" PROVE RuleFields' /\ FewPosts' /\ (Patient => RuleSwitches')
      OBVIOUS
    <2>1. RuleFields /\ FewPosts /\ (Patient => RuleSwitches) /\ [RuleRows!Next]_(RuleRows!vars)
      BY PageSteps DEF PagesInv
    <2>2. IsABag(s7)
      BY <2>1 DEF RuleFields
    <2> QED
      BY <2>1, <2>2, RulesStep, FewPostsStep, SwitchesStep
  <1>8. page = "mutes" =>
           (MuteMenu!FieldsOK)' /\ FewMutes' /\ (Patient => (MuteMenu!ButtonsInv)')
    <2> SUFFICES ASSUME page = "mutes"
                 PROVE  (MuteMenu!FieldsOK)' /\ FewMutes' /\ (Patient => (MuteMenu!ButtonsInv)')
      OBVIOUS
    <2>1. /\ MuteMenu!FieldsOK /\ FewMutes /\ (Patient => MuteMenu!ButtonsInv)
          /\ [MuteMenu!Next]_(MuteMenu!vars)
      BY PageSteps DEF PagesInv
    <2>2. IsABag(s2) /\ IsABag(s3)
      BY <2>1, MuteBags DEF MuteMenu!FieldsOK
    <2> QED
      BY <2>1, <2>2, MutesStep, FewMutesStep, MutesPatiently
  <1>9. page = "inventory" => InventoryInv' /\ FewAsks' /\ (Patient => PatientInventory')
    <2> SUFFICES ASSUME page = "inventory"
                 PROVE  InventoryInv' /\ FewAsks' /\ (Patient => PatientInventory')
      OBVIOUS
    <2>1. /\ InventoryInv /\ FewAsks /\ (Patient => PatientInventory)
          /\ [AssetsRoute!Next]_(AssetsRoute!vars)
      BY PageSteps DEF PagesInv
    <2>2. IsABag(s5)
      BY <2>1, AssetBags DEF InventoryInv, AssetsRoute!RowsInv, AssetsRoute!FieldsOK
    <2> QED
      BY <2>1, <2>2, InventoryStep, FewAsksStep, PatientInventoryStep
  <1> QED
    BY PageSteps, <1>1, <1>2, <1>3, <1>4, <1>5, <1>6, <1>7, <1>8, <1>9 DEF PagesInv

(* On each page its inductive invariant holds.                             *)
THEOREM PagesInvariant == Spec => []PagesInv
  BY PagesInit, PagesStep, PTL DEF Spec

-----------------------------------------------------------------------------
(* The properties of the runs.                                             *)

(* Fields hold what the code puts into them, and no page has more requests *)
(* under way than its bound (the state of the components that App.tsx      *)
(* routes to).                                                             *)
THEOREM FrontendTypeCorrect == Spec => []TypeOK
  <1>1. PagesInv => TypeOK
    <2> SUFFICES ASSUME PagesInv PROVE TypeOK
      OBVIOUS
    <2>1. page = "accounts" => AccountsTab!TypeOK
      BY DEF PagesInv, AccountsTab!AccountsInv
    <2>2. page = "form" => AccountForm!TypeOK
      BY DEF PagesInv, AccountForm!FormInv
    <2>3. page = "explore" => Explorer!TypeOK
      BY DEF PagesInv, Explorer!RequestsInv
    <2>4. page = "table" => AlertRows!TypeOK
      BY DEF PagesInv, AlertRows!SortInv
    <2>5. page = "rules" => RuleRows!TypeOK
      BY RuleFieldsOK, SameCopies
         DEF PagesInv, RuleRows!RowsInv, RuleRows!TypeOK, FewPosts, Few
    <2>6. page = "alerts" => AlertsRoute!TypeOK
      BY DEF PagesInv, AlertsRoute!PageInv
    <2>7. page = "mutes" => MuteMenu!TypeOK
      BY SameCopies DEF PagesInv, MuteMenu!TypeOK, FewMutes, Few
    <2>8. page = "inventory" => AssetsRoute!TypeOK
      BY SameCopies DEF PagesInv, InventoryInv, AssetsRoute!RowsInv, AssetsRoute!TypeOK,
         FewAsks, Few
    <2>9. page = "compliance" => ComplianceRoute!TypeOK
      BY ComplianceRoute!TypesInParts DEF PagesInv
    <2> QED
      BY <2>1, <2>2, <2>3, <2>4, <2>5, <2>6, <2>7, <2>8, <2>9 DEF TypeOK
  <1> QED
    BY <1>1, PagesInvariant, PTL

(* Rows are in the order that the headers show, of the category and the    *)
(* severity chosen, below the headers of their columns                     *)
(* (AlertsTableOps.tsx:448, RulesTableOps.tsx:243).                        *)
THEOREM TablesAreInOrder == Spec => []RowsInOrder
  <1>1. PagesInv => RowsInOrder
    BY RulesAreInOrder, AlertsAreInOrder DEF PagesInv, RowsInOrder
  <1> QED
    BY <1>1, PagesInvariant, PTL

(* The number of alerts of a row, which the code computes apart, is that   *)
(* of the nested table, and with every filter wide open no alert is in     *)
(* neither the muted nor the unmuted view (AlertsTableOps.tsx:243).        *)
THEOREM AlertsAreAllThere == Spec => []NoAlertIsLost
  <1>1. PagesInv => NoAlertIsLost
    BY AlertsAreCounted DEF PagesInv, NoAlertIsLost
  <1> QED
    BY <1>1, PagesInvariant, PTL

(* A look at an alert and back leaves filters and order as they were,      *)
(* though they travel in the address (AlertsTableOps.tsx:187).             *)
THEOREM FiltersComeBack == Spec => FiltersSurviveAlert
  <1>1. PagesInv /\ [Next]_all => [page = "table" => AlertRows!FiltersSurviveAlert]_all
    BY PageSteps, AlertsTableStep DEF PagesInv
  <1> QED
    BY <1>1, PagesInvariant, PTL DEF Spec, FiltersSurviveAlert

(* Only clicks write, each to its own rule or alert, and between clicks    *)
(* the table of alerts changes only to what the backend answered           *)
(* (RuleToggle.tsx:15, ToggleMuteButton.tsx:7).                            *)
THEOREM ClicksWriteAlone == Spec => OnlyClicksWrite
  <1>1. PagesInv /\ [Next]_all
          => [/\ page = "rules" => RuleRows!OnlyClicksSwitch
              /\ page = "mutes" => MuteMenu!OnlyClicksMute]_all
    BY PageSteps, RulesByClicks, MutesByClicks DEF PagesInv
  <1> QED
    BY <1>1, PagesInvariant, PTL DEF Spec, OnlyClicksWrite

(* Of a patient user, with nothing under way switches and buttons show     *)
(* what is so (RuleToggle.tsx:26, ToggleMuteButton.tsx:30).                *)
THEOREM PatientSwitchesTell == Patient => (Spec => []SwitchesTell)
  <1> SUFFICES ASSUME Patient PROVE Spec => []SwitchesTell
    OBVIOUS
  <1>1. PagesInv => SwitchesTell
    <2> SUFFICES ASSUME PagesInv PROVE SwitchesTell
      OBVIOUS
    <2>1. page = "rules" => RuleRows!SwitchShowsRule
      BY SwitchesTellRules DEF PagesInv
    <2>2. page = "mutes" => MuteMenu!MutedIsShown
      BY MutesTell DEF PagesInv
    <2> QED
      BY <2>1, <2>2 DEF SwitchesTell
  <1> QED
    BY <1>1, PagesInvariant, PTL

(* Once all answers have come, in whatever order, assets stand under the   *)
(* headers of their class, and the search is the one last meant            *)
(* (AssetsInventory.tsx:120, SideBarNav.tsx:29).                           *)
THEOREM InventoryIsAsMeant == Spec => []InventoryAsMeant
  <1>1. PagesInv => InventoryAsMeant
    BY AssetsAsMeant DEF PagesInv, InventoryAsMeant
  <1> QED
    BY <1>1, PagesInvariant, PTL

(* Of a patient user, a table of the inventory holds the assets of its     *)
(* category, a link finds the asset it names if the graph has it, and the  *)
(* page throws only over an asset that lacks what its own class reads      *)
(* (AssetsInventory.tsx:120), whatever the graph holds.                    *)
THEOREM PatientAssetsAreFound == Patient => (Spec => []AssetsAreFound)
  <1> SUFFICES ASSUME Patient PROVE Spec => []AssetsAreFound
    OBVIOUS
  <1>1. PagesInv => AssetsAreFound
    BY AssetsComeUp DEF PagesInv, AssetsAreFound
  <1> QED
    BY <1>1, PagesInvariant, PTL

(* The panel and its graph are of the alert that the address names         *)
(* (AlertsSlideover.tsx:17).                                               *)
THEOREM PanelOfItsAddress == Spec => []PanelOfAddress
  <1>1. PagesInv => PanelOfAddress
    BY DEF PagesInv, PanelOfAddress, AlertsRoute!PageInv
  <1> QED
    BY <1>1, PagesInvariant, PTL

(* A page of alerts is not found only if its category or its alert is      *)
(* invalid (Alerts.tsx:130), if scans report no new alerts meanwhile.      *)
THEOREM NotFoundMeansInvalid == ~Appearing => (Spec => []OnlyInvalidIsNotFound)
  <1> SUFFICES ASSUME ~Appearing PROVE Spec => []OnlyInvalidIsNotFound
    OBVIOUS
  <1>1. PagesInv => OnlyInvalidIsNotFound
    BY PagesFit, AlertsRoute!FoundIsValid DEF PagesInv, OnlyInvalidIsNotFound
  <1> QED
    BY <1>1, PagesInvariant, PTL

(* One interval while the table of accounts is mounted, none otherwise     *)
(* (ConnectedAccounts.tsx:312).                                            *)
THEOREM OneTimerWhileShown == Spec => []TimersMatchTab
  <1>1. PagesInv => TimersMatchTab
    BY DEF PagesInv, TimersMatchTab, AccountsTab!AccountsInv, AccountsTab!TabInv
  <1> QED
    BY <1>1, PagesInvariant, PTL

(* An account is gone from the table when the dialog that removed it       *)
(* closes, whatever polls are on the way, as long as no request of a       *)
(* dialog failed, if the table has that dialog (ConnectedAccounts.tsx:219).*)
THEOREM RemovedLeavesTheTable == "remove" \in DialogKinds => (Spec => RemovedIsGone)
  <1> SUFFICES ASSUME "remove" \in DialogKinds PROVE Spec => RemovedIsGone
    OBVIOUS
  <1>1. PagesInv /\ [Next]_all => [page = "accounts" => AccountsTab!RemovedIsGone]_all
    BY PagesFit, AccountsTab!RemovalsStep DEF PagesInv, Next
  <1> QED
    BY <1>1, PagesInvariant, PTL DEF Spec, RemovedIsGone

(* Regions and profiles are stored as the form lets users choose them,     *)
(* though the backend checks the profile only; credentials that are hidden *)
(* are not sent, and the button waits for the submission of its own form   *)
(* (AddNewAccount.tsx:155).                                                *)
THEOREM FormSubmissionsFit == Spec => []SubmissionsFit
  <1>1. PagesInv => SubmissionsFit
    BY AccountForm!RequestsAreHonest, AccountForm!ButtonWaits
       DEF PagesInv, SubmissionsFit, AccountForm!FormInv
  <1> QED
    BY <1>1, PagesInvariant, PTL

(* Retries after lost answers and submissions of forms that were left      *)
(* overwrite nothing, only one of those for a name is told that it         *)
(* succeeded, and only on the answer to such a one the tab changes         *)
(* (AddNewAccount.tsx:178, settings.go:99).                                *)
THEOREM FormRetriesSafely == Spec => RetriesAreSafe
  <1>1. PagesInv /\ [Next]_all
          => [page = "form" => /\ AccountForm!FirstAttemptStands
                               /\ AccountForm!OnlyOneIsTold
                               /\ AccountForm!LeftMeansStored]_all
    BY AccountForm!RetriesStep DEF PagesInv, Next
  <1> QED
    BY <1>1, PagesInvariant, PTL DEF Spec, RetriesAreSafe

(* The explorer asks only for graphs that the backend has a producer of    *)
(* (Explore.tsx:266, get_access_explorer_graph.go:122).                    *)
THEOREM ExplorerAsksAnswerable == Spec => []OnlyAnswerableRequests
  <1>1. PagesInv => OnlyAnswerableRequests
    BY DEF PagesInv, OnlyAnswerableRequests, Explorer!RequestsInv
  <1> QED
    BY <1>1, PagesInvariant, PTL

(* Of a patient user, the graph drawn is that of the choice                *)
(* (Explore.tsx:67).                                                       *)
THEOREM ExplorerDrawsChoice == Patient => (Spec => []GraphOfChoice)
  <1> SUFFICES ASSUME Patient PROVE Spec => []GraphOfChoice
    OBVIOUS
  <1>1. PagesInv => GraphOfChoice
    BY DEF PagesInv, GraphOfChoice, Explorer!GraphInv
  <1> QED
    BY <1>1, PagesInvariant, PTL

(* The percentage of a card, counted rule by rule beside scans, is between *)
(* what passed all along and what passed at some moment, and its ends are  *)
(* exact (get_compliance_framework_stats.go:51 and 72).                    *)
THEOREM CardsAreWitnessed == Spec => []PercentIsWitnessed
  <1>1. PagesInv => PercentIsWitnessed
    BY PagesFit, ComplianceRoute!CountsAreWitnessed, ComplianceRoute!EndsAreWitnessed
       DEF PagesInv, PercentIsWitnessed
  <1> QED
    BY <1>1, PagesInvariant, PTL

(* The three tables of a compliance report and the count of the backend    *)
(* agree (ComplianceTable.tsx:7, ComplianceRuleTable.tsx:7).               *)
THEOREM ReportTablesAgree == Spec => []TablesAgree
  <1>1. PagesInv => TablesAgree
    BY PagesFit, ComplianceRoute!ReportTablesAgree DEF PagesInv, TablesAgree
  <1> QED
    BY <1>1, PagesInvariant, PTL
=============================================================================
