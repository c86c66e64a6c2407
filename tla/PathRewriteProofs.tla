-------------------------- MODULE PathRewriteProofs --------------------------
(***************************************************************************)
(* Proofs about PathRewrite, for paths of any length over any segments and *)
(* for any map of suffixes to namespaces.                                  *)
(***************************************************************************)
EXTENDS PathRewrite, FiniteSetTheorems, SequenceTheorems, TLAPS

-----------------------------------------------------------------------------
(***************************************************************************)
(* Lemmas about the operators: Part(s, S) has the elements of s at S, in   *)
(* their order, and JoinPath loses nothing but empty segments.             *)
(***************************************************************************)
LEMMA Tokens ==
  /\ Blank # ApiTok /\ Blank # Namespaces /\ Blank # Clusters
  /\ ApiTok # Namespaces /\ Namespaces # Clusters /\ Namespaces # AllMark
  /\ Namespaces \notin Labelled /\ Blank \notin Labelled
BY DEF Blank, ApiTok, Namespaces, Clusters, AllMark, Labelled

(* The place of j among the elements of S.                                 *)
Place(S, j) == Cardinality({m \in S : m <= j})

LEMMA PlaceGrows ==
  ASSUME NEW S \in SUBSET Nat, IsFiniteSet(S), NEW j \in S
  PROVE  /\ Place(S, j) \in 1..Cardinality(S) /\ Cardinality(S) \in Nat
         /\ \A k \in S : j < k => Place(S, j) < Place(S, k)
<1> DEFINE Upto(k) == {m \in S : m <= k}
<1>1. ASSUME NEW k PROVE /\ IsFiniteSet(Upto(k)) /\ Upto(k) \in SUBSET S
                         /\ Cardinality(Upto(k)) \in Nat
                         /\ Cardinality(Upto(k)) <= Cardinality(S)
  BY FS_Subset, FS_CardinalityType
<1>2. Cardinality(S) \in Nat
  BY FS_CardinalityType
<1>3. j \in Upto(j)
  OBVIOUS
<1>4. Cardinality(Upto(j)) # 0
  BY <1>1, <1>3, FS_EmptySet
<1>5. ASSUME NEW k \in S, j < k PROVE Cardinality(Upto(j)) < Cardinality(Upto(k))
  <2>1. Upto(j) \in SUBSET Upto(k) /\ k \in Upto(k) /\ k \notin Upto(j)
    <3>1. j \in Nat /\ k \in Nat /\ \A m \in S : m \in Nat
      OBVIOUS
    <3>2. \A m \in S : m <= j => m <= k
      BY <1>5, <3>1
    <3>3. k <= k /\ ~(k <= j)
      BY <1>5, <3>1
    <3> QED
      BY <3>2, <3>3
  <2> HIDE DEF Upto
  <2>2. /\ Cardinality(Upto(j)) <= Cardinality(Upto(k))
        /\ Cardinality(Upto(j)) # Cardinality(Upto(k))
    BY <1>1, <2>1, FS_Subset
  <2>3. Cardinality(Upto(j)) \in Nat /\ Cardinality(Upto(k)) \in Nat
    BY <1>1
  <2> QED
    BY <2>2, <2>3
<1> HIDE DEF Upto
<1>6. \A k : Place(S, k) = Cardinality(Upto(k))
  BY DEF Place, Upto
<1> QED
  BY <1>1, <1>2, <1>4, <1>5, <1>6

(* Nth(S, n) is the n-th element of S.                                     *)
LEMMA NthFacts ==
  ASSUME NEW S \in SUBSET Nat, IsFiniteSet(S)
  PROVE  /\ \A n \in 1..Cardinality(S) : Nth(S, n) \in S /\ Place(S, Nth(S, n)) = n
         /\ \A j \in S : Nth(S, Place(S, j)) = j
<1>1. Cardinality(S) \in Nat
  BY FS_CardinalityType
<1>2. /\ \A j \in S : Place(S, j) \in 1..Cardinality(S)
      /\ \A j, k \in S : Place(S, j) = Place(S, k) => j = k
  <2>1. \A j \in S : Place(S, j) \in 1..Cardinality(S) /\ j \in Nat
    BY PlaceGrows
  <2>2. \A j, k \in S : j < k => Place(S, j) < Place(S, k)
    BY PlaceGrows
  <2>3. ASSUME NEW j \in S, NEW k \in S, Place(S, j) = Place(S, k) PROVE j = k
    <3>1. ~(j < k) /\ ~(k < j)
      BY <2>1, <2>2, <2>3
    <3> QED
      BY <2>1, <3>1
  <2> QED
    BY <2>1, <2>3
<1> DEFINE f == [j \in S |-> Place(S, j)]
<1>3. f \in Injection(S, 1..Cardinality(S))
  BY <1>2 DEF Injection, IsInjective
<1>4. IsFiniteSet(1..Cardinality(S)) /\ Cardinality(1..Cardinality(S)) = Cardinality(S)
  BY <1>1, FS_Interval
<1>5. f \in Surjection(S, 1..Cardinality(S))
  BY <1>3, <1>4, FS_Injection
<1>6. \A n \in 1..Cardinality(S) : \E j \in S : Place(S, j) = n
  BY <1>5 DEF Surjection
<1>7. \A n : Nth(S, n) = CHOOSE j \in S : Place(S, j) = n
  BY DEF Nth, Place
<1>8. \A n \in 1..Cardinality(S) : Nth(S, n) \in S /\ Place(S, Nth(S, n)) = n
  BY <1>6, <1>7
<1> QED
  BY <1>2, <1>8

LEMMA FilledFacts ==
  ASSUME NEW T, NEW segs \in Seq(T)
  PROVE  /\ Len(segs) \in Nat /\ DOMAIN segs = 1..Len(segs)
         /\ \A j \in 1..Len(segs) : segs[j] \in T
         /\ \A j : j \in Filled(segs) <=> j \in 1..Len(segs) /\ segs[j] # Blank
         /\ Filled(segs) \in SUBSET Nat /\ IsFiniteSet(Filled(segs))
         /\ Cardinality(Filled(segs)) \in Nat
<1>1. Len(segs) \in Nat /\ DOMAIN segs = 1..Len(segs)
  OBVIOUS
<1>2. \A j \in 1..Len(segs) : segs[j] \in T
  BY ElementOfSeq
<1>3. \A j : j \in Filled(segs) <=> j \in 1..Len(segs) /\ segs[j] # Blank
  BY <1>1 DEF Filled
<1>4. IsFiniteSet(1..Len(segs))
  BY <1>1, FS_Interval
<1>5. Filled(segs) \in SUBSET (1..Len(segs))
  BY <1>3
<1>6. IsFiniteSet(Filled(segs)) /\ Cardinality(Filled(segs)) \in Nat
  BY <1>4, <1>5, FS_Subset, FS_CardinalityType
<1>7. \A j \in 1..Len(segs) : j \in Nat
  BY <1>1
<1>8. Filled(segs) \in SUBSET Nat
  BY <1>5, <1>7
<1> QED
  BY <1>1, <1>2, <1>3, <1>6, <1>8

(* What joinPath makes of a path.                                          *)
LEMMA JoinShape ==
  ASSUME NEW T, Blank \in T, NEW segs \in Seq(T),
         NEW S, S = Filled(segs), NEW q, q = JoinPath(segs)
  PROVE  /\ q \in Seq(T) /\ Len(q) \in Nat /\ Len(q) >= 2 /\ q[1] = Blank
         /\ \A n \in 3..Len(q) : q[n] # Blank
         /\ S # {} => /\ Len(q) = Cardinality(S) + 1
                      /\ \A n \in 2..Len(q) : /\ Nth(S, n - 1) \in S
                                              /\ Place(S, Nth(S, n - 1)) = n - 1
                                              /\ q[n] = segs[Nth(S, n - 1)]
                      /\ \A j \in S : /\ Place(S, j) + 1 \in 2..Len(q)
                                      /\ q[Place(S, j) + 1] = segs[j]
         /\ Len(segs) >= 2 /\ segs[1] = Blank => Len(q) <= Len(segs)
<1>1. /\ Len(segs) \in Nat /\ S \in SUBSET Nat /\ IsFiniteSet(S)
      /\ \A j : j \in S <=> j \in 1..Len(segs) /\ segs[j] # Blank
      /\ \A j \in S : segs[j] # Blank /\ segs[j] \in T
  BY FilledFacts
<1>2. PICK c \in Nat : c = Cardinality(S)
  BY <1>1, FS_CardinalityType
<1>3. CASE S = {}
  <2>1. q = <<Blank, Blank>>
    BY <1>3 DEF JoinPath
  <2>2. q \in Seq(T) /\ Len(q) = 2 /\ q[1] = Blank
    BY <2>1
  <2>3. \A n \in 3..Len(q) : FALSE
    BY <2>2
  <2> QED
    BY <1>1, <1>3, <2>2, <2>3
<1>4. CASE S # {}
  <2>1. /\ \A n \in 1..c : Nth(S, n) \in S /\ Place(S, Nth(S, n)) = n
        /\ \A j \in S : Nth(S, Place(S, j)) = j
    BY <1>1, <1>2, NthFacts
  <2>2. \A j \in S : Place(S, j) \in 1..c
    BY <1>1, <1>2, PlaceGrows
  <2>3. PICK k : k = [n \in 1..c |-> segs[Nth(S, n)]]
    OBVIOUS
  <2>4. \A n \in 1..c : segs[Nth(S, n)] \in T
    BY <1>1, <2>1
  <2>5. k \in Seq(T) /\ Len(k) = c /\ \A n \in 1..c : k[n] = segs[Nth(S, n)]
    BY <1>2, <2>3, <2>4
  <2>6. q = <<Blank>> \o k
    BY <1>2, <1>4, <2>3 DEF JoinPath, Part
  <2>7. q \in Seq(T) /\ Len(q) = c + 1 /\ q[1] = Blank
    BY <1>2, <2>5, <2>6
  <2>8. \A n \in 2..(c + 1) : n - 1 \in 1..c /\ q[n] = k[n - 1]
    BY <1>2, <2>5, <2>6
  <2>9. \A n \in 2..Len(q) : /\ Nth(S, n - 1) \in S
                            /\ Place(S, Nth(S, n - 1)) = n - 1
                            /\ q[n] = segs[Nth(S, n - 1)]
    BY <2>1, <2>5, <2>7, <2>8
  <2>10. \A n \in 2..Len(q) : q[n] # Blank
    BY <1>1, <2>9
  <2>11. ASSUME NEW j \in S
        PROVE  Place(S, j) + 1 \in 2..Len(q) /\ q[Place(S, j) + 1] = segs[j]
    <3>1. PICK x \in 1..c : x = Place(S, j)
      BY <2>2
    <3>2. x + 1 \in 2..(c + 1) /\ (x + 1) - 1 = x
      BY <1>2, <3>1
    <3>3. q[x + 1] = k[x]
      BY <2>8, <3>2
    <3>4. Nth(S, x) = j
      BY <2>1, <3>1
    <3>5. k[x] = segs[j]
      BY <2>5, <3>1, <3>4
    <3> QED
      BY <2>7, <3>1, <3>2, <3>3, <3>5
  <2>12. c # 0
    BY <1>1, <1>2, <1>4, FS_EmptySet
  <2>13. Len(segs) >= 2 /\ segs[1] = Blank => Len(q) <= Len(segs)
    <3> SUFFICES ASSUME Len(segs) >= 2, segs[1] = Blank PROVE c + 1 <= Len(segs)
      BY <2>7
    <3>1. \A j \in S : j \in 2..Len(segs)
      BY <1>1
    <3>2. IsFiniteSet(2..Len(segs)) /\ Cardinality(2..Len(segs)) = Len(segs) - 1
      BY <1>1, FS_Interval
    <3>3. Cardinality(S) <= Cardinality(2..Len(segs))
      BY <3>1, <3>2, FS_Subset
    <3> QED
      BY <1>1, <1>2, <3>2, <3>3
  <2>14. Len(q) \in Nat /\ Len(q) >= 2
    BY <1>2, <2>7, <2>12
  <2>15. \A n \in 3..Len(q) : n \in 2..Len(q)
    BY <2>14
  <2>16. \A n \in 3..Len(q) : q[n] # Blank
    BY <2>10, <2>15
  <2> QED
    BY <1>2, <2>7, <2>9, <2>11, <2>13, <2>14, <2>16
<1> QED
  BY <1>3, <1>4

(* The first "namespaces" of a path is at n, and a segment follows it.     *)
NamespacesAt(segs, n) == /\ n \in 1..(Len(segs) - 1) /\ segs[n] = Namespaces
                         /\ \A j \in 1..(n - 1) : segs[j] # Namespaces

(* joinPath keeps the first "namespaces" and what follows it together.     *)
LEMMA JoinNamespaces ==
  ASSUME NEW T, Blank \in T, NEW segs \in Seq(T), NEW n, NamespacesAt(segs, n),
         segs[n + 1] # Blank, NEW q, q = JoinPath(segs)
  PROVE  \E m : /\ NamespacesAt(q, m) /\ q[m + 1] = segs[n + 1]
                /\ (\E j \in 1..(n - 1) : segs[j] # Blank) => m > 2
<1> n \in 1..(Len(segs) - 1) /\ segs[n] = Namespaces
  BY DEF NamespacesAt
<1> \A j \in 1..(n - 1) : segs[j] # Namespaces
  BY DEF NamespacesAt
<1>1. PICK S : S = Filled(segs)
  OBVIOUS
<1>2. /\ S \in SUBSET Nat /\ IsFiniteSet(S) /\ Len(segs) \in Nat
      /\ \A j : j \in S <=> j \in 1..Len(segs) /\ segs[j] # Blank
  BY <1>1, FilledFacts
<1>3. /\ n \in 1..Len(segs) /\ n + 1 \in 1..Len(segs)
      /\ \A j \in 1..(n - 1) : j \in 1..Len(segs) /\ j < n
  BY <1>2
<1>4. n \in S /\ n + 1 \in S /\ n \in Nat
  BY <1>2, <1>3, Tokens
<1>5. q \in Seq(T) /\ q[1] = Blank /\ Len(q) \in Nat
  BY <1>1, JoinShape
<1>6. /\ \A j \in 2..Len(q) : /\ Nth(S, j - 1) \in S /\ Place(S, Nth(S, j - 1)) = j - 1
                              /\ q[j] = segs[Nth(S, j - 1)]
      /\ \A j \in S : Place(S, j) + 1 \in 2..Len(q) /\ q[Place(S, j) + 1] = segs[j]
  <2>1. S # {}
    BY <1>4
  <2> QED
    BY <1>1, <2>1, JoinShape, SMTT(30)
<1>7. \A j \in S : Place(S, j) \in Nat /\ Place(S, j) >= 1 /\ j \in Nat
  <2>1. \A j \in S : Place(S, j) \in 1..Cardinality(S) /\ Cardinality(S) \in Nat
    BY <1>2, PlaceGrows
  <2> QED
    BY <1>2, <2>1
<1>8. \A j, k \in S : j < k => Place(S, j) < Place(S, k)
  BY <1>2, PlaceGrows
<1>9. Place(S, n + 1) = Place(S, n) + 1
  <2>1. PICK U : U = {x \in S : x <= n}
    OBVIOUS
  <2>2. \A x \in S : x <= n + 1 <=> x <= n \/ x = n + 1
    BY <1>2, <1>4
  <2>3. {x \in S : x <= n + 1} = U \cup {n + 1}
    BY <1>4, <2>1, <2>2
  <2>4. ~(n + 1 <= n)
    BY <1>4
  <2>5. IsFiniteSet(U) /\ n + 1 \notin U
    BY <1>2, <2>1, <2>4, FS_Subset
  <2>6. Cardinality(U \cup {n + 1}) = Cardinality(U) + 1
    BY <2>5, FS_AddElement
  <2> QED
    BY <2>1, <2>3, <2>6 DEF Place
<1>10. PICK m \in Nat : m = Place(S, n) + 1
  BY <1>4, <1>7
<1>11. m \in 2..(Len(q) - 1) /\ q[m] = Namespaces /\ q[m + 1] = segs[n + 1]
  <2>1. m \in 2..Len(q) /\ m + 1 \in 2..Len(q) /\ q[m] = segs[n] /\ q[m + 1] = segs[n + 1]
    BY <1>4, <1>6, <1>9, <1>10
  <2> QED
    BY <1>5, <2>1
<1>12. ASSUME NEW j \in 1..(m - 1) PROVE q[j] # Namespaces
  <2>1. CASE j = 1
    BY <1>5, <2>1, Tokens
  <2>2. CASE j # 1
    <3>1. j \in 2..Len(q) /\ j - 1 < Place(S, n) /\ j - 1 \in Nat
      <4>1. PICK place \in Nat : place = Place(S, n)
        BY <1>4, <1>7
      <4>2. m = place + 1 /\ m <= Len(q) /\ Len(q) \in Nat
        BY <1>5, <1>10, <1>11, <4>1
      <4>3. j \in Nat /\ j >= 2 /\ j <= m - 1
        BY <1>10, <2>2
      <4> QED
        BY <4>1, <4>2, <4>3
    <3>2. PICK x \in S : Place(S, x) = j - 1 /\ q[j] = segs[x]
      BY <1>6, <3>1
    <3>3. x \in Nat /\ ~(n < x) /\ n # x
      BY <1>4, <1>7, <1>8, <3>1, <3>2
    <3>4. x \in 1..(n - 1)
      BY <1>2, <1>4, <3>3
    <3> QED
      BY <3>2, <3>4
  <2> QED
    BY <2>1, <2>2
<1>13. ASSUME NEW j \in 1..(n - 1), segs[j] # Blank PROVE m > 2
  <2>1. j \in S /\ j < n
    BY <1>2, <1>3, <1>13
  <2> QED
    BY <1>4, <1>7, <1>8, <1>10, <2>1
<1>14. NamespacesAt(q, m)
  <2>1. m \in 1..(Len(q) - 1)
    BY <1>5, <1>11
  <2> QED
    BY <1>11, <1>12, <2>1 DEF NamespacesAt
<1> QED
  BY <1>11, <1>13, <1>14

-----------------------------------------------------------------------------
(***************************************************************************)
(* The inductive invariant.                                                *)
(***************************************************************************)
(* a is the first segment of p that is not empty.                          *)
First(p, a) == p[a] # Blank /\ \A j \in 1..(a - 1) : p[j] = Blank

(* After k iterations of modifyNamespaceInPath's loop on p: nothing but    *)
(* empty segments yet, or the first other one was "api", or it was taken   *)
(* for the suffix.                                                         *)
Found(p, k, name, hit, segs) ==
  \/ /\ \A j \in 1..k : p[j] = Blank
     /\ name = Blank /\ ~hit /\ segs = p
  \/ \E a \in 1..k :
       /\ First(p, a)
       /\ \/ p[a] = ApiTok /\ name = Blank /\ hit /\ segs = p
          \/ p[a] # ApiTok /\ name = p[a] /\ segs = [p EXCEPT ![a] = Blank]

(* The first loop has met no "namespaces" that a segment follows.          *)
Scanning ==
  pc = "modify" =>
    /\ selector = request.selector /\ i <= Len(request.path) + 1
    /\ \A j \in 1..(i - 1) : j < Len(request.path) => request.path[j] # Namespaces
    /\ Found(request.path, i - 1, suffix, apiTokHit, parts)

(* The second loop has passed no named object and not panicked, and has    *)
(* set the selector for the lists it passed.                               *)
Passed(q, k) == {j \in 3..k : q[j] = Namespaces}
Clean(q, k) == \A j \in Passed(q, k) : ~Named(q, j) /\ j + 2 <= Len(q)

Labelling ==
  LET q == Modified(request.path)
  IN pc = "label" =>
       /\ i <= Len(q) + 1 /\ regionName = q[2] /\ parts = [q EXCEPT ![2] = Blank]
       /\ Clean(q, i - 1)
       /\ selector = IF \E j \in Passed(q, i - 1) : q[j + 2] \in Labelled
                     THEN <<q[2]>> ELSE request.selector

IInv == /\ TypeOK /\ request.path \in Paths
        /\ Scanning /\ Labelling /\ MatchesReference

-----------------------------------------------------------------------------
(***************************************************************************)
(* The first loop, and its reference.                                      *)
(***************************************************************************)
LEMMA MinIs ==
  ASSUME NEW S \in SUBSET Nat, NEW n \in S, \A m \in S : n <= m
  PROVE  Min(S) = n
<1>1. \A x \in S : (\A m \in S : x <= m) => x = n
  <2>1. \A x \in S : x \in Nat
    OBVIOUS
  <2> QED
    BY <2>1
<1> QED
  BY <1>1 DEF Min

(* A finite set of numbers that is not empty has a least one.              *)
LEMMA MinIn ==
  ASSUME NEW S \in SUBSET Nat, IsFiniteSet(S), S # {}
  PROVE  Min(S) \in S /\ \A m \in S : Min(S) <= m
<1>1. Cardinality(S) \in Nat /\ Cardinality(S) # 0
  BY FS_CardinalityType, FS_EmptySet
<1>2. 1 \in 1..Cardinality(S)
  BY <1>1
<1>3. PICK n \in S : Place(S, n) = 1
  BY <1>2, NthFacts
<1>4. ASSUME NEW m \in S PROVE n <= m
  <2>1. Place(S, m) \in 1..Cardinality(S) /\ (m < n => Place(S, m) < Place(S, n))
    BY PlaceGrows
  <2>2. n \in Nat /\ m \in Nat
    OBVIOUS
  <2> QED
    BY <1>1, <1>3, <2>1, <2>2
<1> QED
  BY <1>3, <1>4, MinIs

(* An assignment to an element of a slice.                                 *)
LEMMA Put ==
  ASSUME NEW T, NEW s \in Seq(T), NEW n \in 1..Len(s), NEW e \in T,
         NEW r, r = [s EXCEPT ![n] = e]
  PROVE  /\ r \in Seq(T) /\ Len(r) = Len(s) /\ r[n] = e
         /\ \A j \in 1..Len(s) : j # n => r[j] = s[j]
BY ExceptSeq

LEMMA PutSame ==
  ASSUME NEW T, NEW s \in Seq(T), NEW n \in 1..Len(s)
  PROVE  [s EXCEPT ![n] = s[n]] = s
OBVIOUS

LEMMA FirstOne ==
  ASSUME NEW T, NEW p \in Seq(T), NEW a \in 1..Len(p), First(p, a)
  PROVE  Filled(p) # {} /\ Min(Filled(p)) = a
<1>1. /\ Len(p) \in Nat /\ Filled(p) \in SUBSET Nat
      /\ \A j : j \in Filled(p) <=> j \in 1..Len(p) /\ p[j] # Blank
  BY FilledFacts
<1>2. a \in Filled(p)
  BY <1>1 DEF First
<1>3. ASSUME NEW m \in Filled(p) PROVE a <= m
  <2>1. m \in 1..Len(p) /\ p[m] # Blank
    BY <1>1
  <2>2. m \notin 1..(a - 1)
    BY <2>1 DEF First
  <2> QED
    BY <1>1, <2>1, <2>2
<1> QED
  BY <1>1, <1>2, <1>3, MinIs

LEMMA FoundTypes ==
  ASSUME NEW T, NEW p \in Seq(T), Blank \in T, p[1] = Blank, NEW k \in 0..Len(p),
         NEW name, NEW hit, NEW segs, Found(p, k, name, hit, segs)
  PROVE  /\ segs \in Seq(T) /\ Len(segs) = Len(p) /\ name \in T /\ segs[1] = Blank
         /\ \A j \in 1..Len(p) : segs[j] = p[j] \/ segs[j] = Blank
         /\ \A j \in 1..Len(p) : j > k => segs[j] = p[j]
<1>1. Len(p) \in Nat
  BY FilledFacts
<1>2. CASE name = Blank /\ segs = p
  BY <1>2
<1>3. ASSUME NEW a \in 1..k, name = p[a], segs = [p EXCEPT ![a] = Blank]
      PROVE  /\ segs \in Seq(T) /\ Len(segs) = Len(p) /\ name \in T /\ segs[1] = Blank
             /\ \A j \in 1..Len(p) : segs[j] = p[j] \/ segs[j] = Blank
             /\ \A j \in 1..Len(p) : j > k => segs[j] = p[j]
  <2>1. a \in 1..Len(p) /\ \A j \in 1..Len(p) : j > k => j # a
    BY <1>1
  <2>2. /\ segs \in Seq(T) /\ Len(segs) = Len(p) /\ segs[a] = Blank
        /\ \A j \in 1..Len(p) : j # a => segs[j] = p[j]
    BY <1>3, <2>1, Put
  <2>3. name \in T
    BY <1>3, <2>1, ElementOfSeq
  <2>4. 1 \in 1..Len(p)
    BY <1>1, <2>1
  <2> QED
    BY <2>1, <2>2, <2>3, <2>4
<1> QED
  BY <1>2, <1>3 DEF Found

(* One iteration.                                                          *)
LEMMA FoundNext ==
  ASSUME NEW T, NEW p \in Seq(T), Blank \in T, NEW k \in 1..Len(p),
         NEW name, NEW hit \in BOOLEAN, NEW segs, Found(p, k - 1, name, hit, segs),
         NEW part, part = p[k], NEW h, h = (hit \/ part = ApiTok),
         NEW take, take = (name = Blank /\ ~h),
         NEW nm, nm = IF take THEN part ELSE name,
         NEW r, r = IF take THEN [segs EXCEPT ![k] = Blank] ELSE segs
  PROVE  Found(p, k, nm, h, r)
<1>1. Len(p) \in Nat /\ k \in 1..k /\ \A j \in 1..k : j \in 1..(k - 1) \/ j = k
  BY FilledFacts
<1>2. ASSUME NEW a \in 1..(k - 1) PROVE a \in 1..k
  BY <1>1
<1>3. CASE (\A j \in 1..(k - 1) : p[j] = Blank) /\ name = Blank /\ ~hit /\ segs = p
  <2>1. CASE part = Blank
    <3>1. ~h /\ take /\ nm = Blank
      BY <1>3, <2>1, Tokens
    <3>2. r = [p EXCEPT ![k] = Blank]
      BY <1>3, <3>1
    <3>3. r = p
      BY <2>1, <3>2, PutSame
    <3>4. \A j \in 1..k : p[j] = Blank
      BY <1>1, <1>3, <2>1
    <3> QED
      BY <3>1, <3>3, <3>4 DEF Found
  <2>2. CASE part = ApiTok
    <3>1. h /\ ~take /\ nm = Blank /\ r = p
      BY <1>3, <2>2
    <3>2. First(p, k)
      BY <1>3, <2>2, Tokens DEF First
    <3> QED
      BY <1>1, <2>2, <3>1, <3>2 DEF Found
  <2>3. CASE part # ApiTok /\ part # Blank
    <3>1. ~h /\ take /\ nm = part /\ r = [p EXCEPT ![k] = Blank]
      BY <1>3, <2>3
    <3>2. First(p, k)
      BY <1>3, <2>3 DEF First
    <3> QED
      BY <1>1, <2>3, <3>1, <3>2 DEF Found
  <2> QED
    BY <2>1, <2>2, <2>3
<1>4. ASSUME NEW a \in 1..(k - 1), First(p, a), p[a] = ApiTok, name = Blank, hit, segs = p
      PROVE  Found(p, k, nm, h, r)
  <2>1. h /\ ~take /\ nm = Blank /\ r = p
    BY <1>4
  <2> QED
    BY <1>2, <1>4, <2>1 DEF Found
<1>5. ASSUME NEW a \in 1..(k - 1), First(p, a), p[a] # ApiTok, name = p[a],
             segs = [p EXCEPT ![a] = Blank]
      PROVE  Found(p, k, nm, h, r)
  <2>1. ~take
    BY <1>5 DEF First
  <2>2. nm = p[a] /\ r = [p EXCEPT ![a] = Blank]
    BY <1>5, <2>1
  <2> QED
    BY <1>2, <1>5, <2>2 DEF Found
<1> QED
  BY <1>3, <1>4, <1>5 DEF Found

(* At the end of the loop the suffix is the reference's.                   *)
LEMMA FoundSuffix ==
  ASSUME NEW T, NEW p \in Seq(T), NEW k \in 0..Len(p),
         NEW name, NEW hit, NEW segs, Found(p, k, name, hit, segs),
         k = Len(p) \/ \E j \in 1..k : p[j] # Blank
  PROVE  name = SuffixOf(p) /\ segs = Bare(p)
<1>1. /\ Len(p) \in Nat
      /\ \A j : j \in Filled(p) <=> j \in 1..Len(p) /\ p[j] # Blank
  BY FilledFacts
<1>2. CASE (\A j \in 1..k : p[j] = Blank) /\ name = Blank /\ segs = p
  <2>1. \A j \in 1..Len(p) : p[j] = Blank
    BY <1>2
  <2>2. Filled(p) = {}
    BY <1>1, <2>1
  <2> QED
    BY <1>2, <2>2 DEF SuffixOf, Bare
<1>3. ASSUME NEW a \in 1..k, First(p, a),
             \/ p[a] = ApiTok /\ name = Blank /\ segs = p
             \/ p[a] # ApiTok /\ name = p[a] /\ segs = [p EXCEPT ![a] = Blank]
      PROVE  name = SuffixOf(p) /\ segs = Bare(p)
  <2>1. a \in 1..Len(p)
    BY <1>1
  <2>2. Filled(p) # {} /\ Min(Filled(p)) = a /\ p[a] # Blank
    BY <1>3, <2>1, FirstOne DEF First
  <2>3. name = SuffixOf(p)
    BY <1>3, <2>2 DEF SuffixOf
  <2> QED
    BY <1>3, <2>2, <2>3 DEF Bare
<1> QED
  BY <1>2, <1>3 DEF Found

(* The first "namespaces" that a segment follows.                          *)
LEMMA FirstNamespacesIs ==
  ASSUME NEW T, NEW p \in Seq(T)
  PROVE  /\ \A n \in 1..(Len(p) - 1) :
              p[n] = Namespaces /\ (\A j \in 1..(n - 1) : p[j] # Namespaces)
              => FirstNamespaces(p) = n
         /\ (\A n \in 1..(Len(p) - 1) : p[n] # Namespaces) => FirstNamespaces(p) = 0
<1>1. PICK all : all = {n \in 1..(Len(p) - 1) : p[n] = Namespaces}
  OBVIOUS
<1>2. FirstNamespaces(p) = IF all = {} THEN 0 ELSE Min(all)
  BY <1>1 DEF FirstNamespaces
<1>3. Len(p) \in Nat
  BY FilledFacts
<1>4. ASSUME NEW n \in 1..(Len(p) - 1), p[n] = Namespaces,
             \A j \in 1..(n - 1) : p[j] # Namespaces
      PROVE  FirstNamespaces(p) = n
  <2>1. n \in all /\ \A m \in all : m \in 1..(Len(p) - 1) /\ m \notin 1..(n - 1)
    BY <1>1, <1>4
  <2>2. all \in SUBSET Nat /\ \A m \in all : n <= m
    BY <1>3, <2>1
  <2> QED
    BY <1>2, <2>1, <2>2, MinIs
<1>5. ASSUME \A n \in 1..(Len(p) - 1) : p[n] # Namespaces PROVE FirstNamespaces(p) = 0
  BY <1>1, <1>2, <1>5
<1> QED
  BY <1>4, <1>5

LEMMA FirstNamespacesType ==
  ASSUME NEW T, NEW p \in Seq(T), NEW n, n = FirstNamespaces(p)
  PROVE  /\ n \in Nat
         /\ n # 0 => /\ n \in 1..(Len(p) - 1) /\ p[n] = Namespaces
                    /\ \A j \in 1..(n - 1) : p[j] # Namespaces
<1>1. Len(p) \in Nat
  BY FilledFacts
<1>2. PICK all : all = {x \in 1..(Len(p) - 1) : p[x] = Namespaces}
  OBVIOUS
<1>3. n = IF all = {} THEN 0 ELSE Min(all)
  BY <1>2 DEF FirstNamespaces
<1>4. all \in SUBSET (1..(Len(p) - 1)) /\ all \in SUBSET Nat
  BY <1>1, <1>2
<1>5. IsFiniteSet(1..(Len(p) - 1))
  BY <1>1, FS_Interval
<1>6. IsFiniteSet(all)
  BY <1>4, <1>5, FS_Subset
<1>7. CASE all = {}
  BY <1>3, <1>7
<1>8. CASE all # {}
  <2>1. n \in all /\ \A m \in all : n <= m
    <3>1. n = Min(all)
      BY <1>3, <1>8
    <3> QED
      BY <1>4, <1>6, <1>8, <3>1, MinIn
  <2>2. \A j \in 1..(n - 1) : j \in 1..(Len(p) - 1) /\ ~(n <= j)
    BY <1>1, <1>4, <2>1
  <2> QED
    BY <1>2, <1>4, <2>1, <2>2
<1> QED
  BY <1>7, <1>8

(* The end of the first loop has computed the reference's path.            *)
LEMMA ModifiedAtNamespaces ==
  ASSUME NEW T, NEW p \in Seq(T), NEW n \in 1..(Len(p) - 1),
         p[n] = Namespaces, \A j \in 1..(n - 1) : p[j] # Namespaces,
         NEW name, NEW hit, NEW segs, Found(p, n, name, hit, segs)
  PROVE  JoinPath(Renamed(segs, n, name)) = Modified(p)
<1>1. Len(p) \in Nat /\ n \in 1..n /\ n \in 0..Len(p) /\ n > 0
  BY FilledFacts
<1>2. name = SuffixOf(p) /\ segs = Bare(p)
  BY <1>1, FoundSuffix, Tokens
<1>3. FirstNamespaces(p) = n
  BY FirstNamespacesIs
<1> QED
  BY <1>1, <1>2, <1>3 DEF Modified, Renamed

LEMMA ModifiedAtEnd ==
  ASSUME NEW T, NEW p \in Seq(T), \A j \in 1..(Len(p) - 1) : p[j] # Namespaces,
         NEW name, NEW hit, NEW segs, Found(p, Len(p), name, hit, segs)
  PROVE  JoinPath(segs) = Modified(p)
<1>1. Len(p) \in Nat /\ Len(p) \in 0..Len(p)
  BY FilledFacts
<1>2. segs = Bare(p)
  BY <1>1, FoundSuffix
<1>3. FirstNamespaces(p) = 0
  BY FirstNamespacesIs
<1> QED
  BY <1>2, <1>3 DEF Modified

-----------------------------------------------------------------------------
(***************************************************************************)
(* The second loop, and its reference.                                     *)
(***************************************************************************)
(* Without the region the loop sees what the reference sees of the path.   *)
LEMMA WithoutRegion ==
  ASSUME NEW T, Blank \in T, NEW q \in Seq(T), Len(q) >= 2, q[1] = Blank,
         NEW bare, bare = [q EXCEPT ![2] = Blank]
  PROVE  /\ Len(q) \in Nat /\ bare \in Seq(T) /\ Len(bare) = Len(q)
         /\ \A k \in 3..Len(q) : bare[k] = q[k]
         /\ \A k \in 1..Len(q) : bare[k] = Namespaces <=> k >= 3 /\ q[k] = Namespaces
<1>1. Len(q) \in Nat /\ 2 \in 1..Len(q) /\ 1 \in 1..Len(q)
  BY FilledFacts
<1>2. /\ bare \in Seq(T) /\ Len(bare) = Len(q) /\ bare[2] = Blank
      /\ \A j \in 1..Len(q) : j # 2 => bare[j] = q[j]
  BY <1>1, Put
<1>3. \A k \in 3..Len(q) : k \in 1..Len(q) /\ k # 2
  BY <1>1
<1>4. \A k \in 3..Len(q) : bare[k] = q[k]
  BY <1>2, <1>3
<1>5. bare[1] = Blank
  BY <1>1, <1>2
<1>6. \A k \in 1..Len(q) : (k >= 3 /\ k \in 3..Len(q)) \/ k = 1 \/ k = 2
  BY <1>1
<1>7. \A k \in 1..Len(q) : bare[k] = Namespaces <=> k >= 3 /\ q[k] = Namespaces
  BY <1>2, <1>4, <1>5, <1>6, Tokens
<1> QED
  BY <1>1, <1>2, <1>4, <1>7

LEMMA PassedNext ==
  ASSUME NEW T, NEW q \in Seq(T), NEW k \in 1..Len(q)
  PROVE  /\ k >= 3 /\ q[k] = Namespaces => Passed(q, k) = Passed(q, k - 1) \cup {k}
         /\ ~(k >= 3 /\ q[k] = Namespaces) => Passed(q, k) = Passed(q, k - 1)
<1>1. \A j : j \in 3..k <=> j \in 3..(k - 1) \/ (j = k /\ k >= 3)
  BY FilledFacts
<1> QED
  BY <1>1 DEF Passed

(* Positions the second loop gets to.                                      *)
LEMMA Reached ==
  ASSUME NEW T, NEW q \in Seq(T), NEW k \in 3..Len(q),
         q[k] = Namespaces, Clean(q, k - 1)
  PROVE  /\ k \in Looked(q)
         /\ Named(q, k) => Looked(q) = Passed(q, k - 1) \cup {k}
<1>1. PICK all : all = {n \in 3..Len(q) : q[n] = Namespaces}
  OBVIOUS
<1>2. Looked(q) = {n \in all : \A m \in all : m < n => ~Named(q, m)}
  BY <1>1 DEF Looked
<1>3. Len(q) \in Nat
  BY FilledFacts
<1>4. \A m \in all : /\ m < k => m \in Passed(q, k - 1)
                    /\ (m < k \/ m = k \/ k < m)
  BY <1>1, <1>3 DEF Passed
<1>5. \A m \in Passed(q, k - 1) : m \in all /\ m < k /\ m \in Nat /\ ~Named(q, m)
  BY <1>1, <1>3 DEF Passed, Clean
<1>6. k \in all
  BY <1>1
<1>7. k \in Looked(q)
  BY <1>2, <1>4, <1>5, <1>6
<1>8. ASSUME Named(q, k) PROVE Looked(q) = Passed(q, k - 1) \cup {k}
  <2>1. ASSUME NEW n \in Passed(q, k - 1) PROVE n \in Looked(q)
    <3>1. \A m \in all : m < n => m < k
      BY <1>1, <1>3, <1>5
    <3>2. \A m \in all : m < n => ~Named(q, m)
      BY <1>4, <1>5, <3>1
    <3> QED
      BY <1>2, <1>5, <3>2
  <2>2. ASSUME NEW n \in Looked(q) PROVE n \in Passed(q, k - 1) \cup {k}
    BY <1>2, <1>4, <1>6, <1>8
  <2> QED
    BY <1>7, <2>1, <2>2
<1> QED
  BY <1>7, <1>8

LEMMA ReachedEnd ==
  ASSUME NEW T, NEW q \in Seq(T), Clean(q, Len(q))
  PROVE  Looked(q) = Passed(q, Len(q))
BY DEF Looked, Passed, Clean

(* What the reference says when the loop stops at a named object.          *)
LEMMA StoppedAtName ==
  ASSUME NEW T, Blank \in T, NEW q \in Seq(T), Len(q) >= 2, q[1] = Blank,
         NEW k \in 3..Len(q), q[k] = Namespaces, Clean(q, k - 1), Named(q, k),
         NEW bare, bare = [q EXCEPT ![2] = Blank]
  PROVE  /\ ~Panics(q)
         /\ Labels(q) <=> \E j \in Passed(q, k - 1) : q[j + 2] \in Labelled
         /\ JoinPath(Unmarked(bare, k)) = Stripped(q)
<1>1. Looked(q) = Passed(q, k - 1) \cup {k}
  BY Reached
<1>2. Len(q) \in Nat /\ ~(k + 2 > Len(q)) /\ k + 3 \in 1..Len(q)
  BY FilledFacts DEF Named
<1>3. \A j \in Passed(q, k - 1) : /\ ~Named(q, j) /\ ~(j + 2 > Len(q))
                                 /\ j \in Nat /\ j # k
  BY <1>2 DEF Clean, Passed
<1>4. ~Panics(q)
  BY <1>1, <1>2, <1>3 DEF Panics
<1>5. Labels(q) <=> \E j \in Passed(q, k - 1) : q[j + 2] \in Labelled
  BY <1>1, <1>3 DEF Labels
<1>6. /\ bare \in Seq(T) /\ Len(bare) = Len(q)
      /\ bare[k + 2] = q[k + 2] /\ bare[k + 3] = q[k + 3]
  <2>1. k + 2 \in 3..Len(q) /\ k + 3 \in 3..Len(q)
    BY <1>2
  <2> QED
    BY <2>1, WithoutRegion
<1>7. PICK marked : marked = {m \in Looked(q) : /\ Named(q, m) /\ q[m + 2] = Clusters
                                               /\ q[m + 3] = AllMark}
  OBVIOUS
<1>8. Stripped(q) = JoinPath(IF marked = {} THEN bare
                             ELSE [n \in DOMAIN bare |-> IF n - 3 \in marked THEN Blank
                                                         ELSE bare[n]])
  BY <1>7 DEF Stripped
<1>9. CASE q[k + 2] = Clusters /\ q[k + 3] = AllMark
  <2>1. marked = {k}
    BY <1>1, <1>3, <1>7, <1>9
  <2>2. \A n \in 1..Len(q) : n - 3 \in marked <=> n = k + 3
    BY <1>2, <2>1
  <2>3. DOMAIN bare = 1..Len(q)
    BY <1>6
  <2>4. [n \in DOMAIN bare |-> IF n - 3 \in marked THEN Blank ELSE bare[n]]
          = [bare EXCEPT ![k + 3] = Blank]
    BY <1>6, <2>2, <2>3
  <2> QED
    BY <1>4, <1>5, <1>6, <1>8, <1>9, <2>1, <2>4 DEF Unmarked
<1>10. CASE ~(q[k + 2] = Clusters /\ q[k + 3] = AllMark)
  <2>1. marked = {}
    BY <1>1, <1>3, <1>7, <1>10
  <2> QED
    BY <1>4, <1>5, <1>6, <1>8, <1>10, <2>1 DEF Unmarked
<1> QED
  BY <1>9, <1>10

(* And when it runs through.                                               *)
LEMMA RanThrough ==
  ASSUME NEW T, NEW q \in Seq(T), Clean(q, Len(q))
  PROVE  /\ ~Panics(q)
         /\ Labels(q) <=> \E j \in Passed(q, Len(q)) : q[j + 2] \in Labelled
         /\ JoinPath([q EXCEPT ![2] = Blank]) = Stripped(q)
<1>1. Looked(q) = Passed(q, Len(q))
  BY ReachedEnd
<1>2. Len(q) \in Nat
  BY FilledFacts
<1>3. \A j \in Passed(q, Len(q)) : ~Named(q, j) /\ ~(j + 2 > Len(q)) /\ j \in Nat
  BY <1>2 DEF Clean, Passed
<1>4. ~Panics(q)
  BY <1>1, <1>3 DEF Panics
<1>5. Labels(q) <=> \E j \in Passed(q, Len(q)) : q[j + 2] \in Labelled
  BY <1>1, <1>3 DEF Labels
<1>6. {m \in Looked(q) : /\ Named(q, m) /\ q[m + 2] = Clusters
                         /\ q[m + 3] = AllMark} = {}
  BY <1>1, <1>3
<1> QED
  BY <1>4, <1>5, <1>6 DEF Stripped

-----------------------------------------------------------------------------
(***************************************************************************)
(* The invariant holds.                                                    *)
(***************************************************************************)
LEMMA PathFacts ==
  ASSUME IInv, NEW T, T = Segment \cup Namespace
  PROVE  /\ Blank \in T /\ Namespace \subseteq T
         /\ request.path \in Seq(T) /\ request.path \in Seq(Segment)
         /\ Len(request.path) \in Nat /\ Len(request.path) >= 2
         /\ request.path[1] = Blank
<1>1. request.path \in Seq(Segment) /\ Len(request.path) >= 2 /\ request.path[1] = Blank
  BY PathsAssumption DEF IInv
<1>2. request.path \in Seq(T)
  BY <1>1, SeqMonotonic
<1> QED
  BY <1>1, <1>2, PathsAssumption

LEMMA ModifiedIs ==
  ASSUME NEW T, Blank \in T, Namespace \subseteq T, NEW p \in Seq(T), Len(p) >= 2,
         p[1] = Blank
  PROVE  \E segs \in Seq(T) : /\ Len(segs) = Len(p) /\ segs[1] = Blank
                             /\ Modified(p) = JoinPath(segs)
<1>1. /\ Len(p) \in Nat /\ Filled(p) \in SUBSET Nat /\ IsFiniteSet(Filled(p))
      /\ \A j : j \in Filled(p) <=> j \in 1..Len(p) /\ p[j] # Blank
  BY FilledFacts
<1>2. Bare(p) \in Seq(T) /\ Len(Bare(p)) = Len(p) /\ Bare(p)[1] = Blank
  <2>1. CASE SuffixOf(p) = Blank
    BY <2>1 DEF Bare
  <2>2. CASE SuffixOf(p) # Blank
    <3>1. Filled(p) # {}
      BY <2>2 DEF SuffixOf
    <3>2. PICK a \in 1..Len(p) : a = Min(Filled(p)) /\ a # 1
      BY <1>1, <3>1, MinIn
    <3>3. Bare(p) = [p EXCEPT ![a] = Blank]
      BY <2>2, <3>2 DEF Bare
    <3>4. 1 \in 1..Len(p)
      BY <1>1
    <3> QED
      BY <3>2, <3>3, <3>4, Put
  <2> QED
    BY <2>1, <2>2
<1>3. PICK n : n = FirstNamespaces(p)
  OBVIOUS
<1>4. n = 0 \/ n \in 1..(Len(p) - 1)
  BY <1>3, FirstNamespacesType
<1>5. CASE n > 0 /\ SuffixOf(p) \in DOMAIN Mapping
  <2>1. Modified(p) = JoinPath([Bare(p) EXCEPT ![n + 1] = Mapping[SuffixOf(p)]])
    BY <1>3, <1>5 DEF Modified
  <2>2. Mapping[SuffixOf(p)] \in T
    BY <1>5 DEF Namespace
  <2>3. n + 1 \in 1..Len(p) /\ n + 1 # 1 /\ 1 \in 1..Len(p)
    BY <1>1, <1>4, <1>5
  <2>4. PICK segs : segs = [Bare(p) EXCEPT ![n + 1] = Mapping[SuffixOf(p)]]
    OBVIOUS
  <2>5. segs \in Seq(T) /\ Len(segs) = Len(p) /\ segs[1] = Blank
    BY <1>2, <2>2, <2>3, <2>4, Put
  <2> QED
    BY <2>1, <2>4, <2>5
<1>6. CASE ~(n > 0 /\ SuffixOf(p) \in DOMAIN Mapping)
  <2>1. Modified(p) = JoinPath(Bare(p))
    BY <1>3, <1>6 DEF Modified
  <2> QED
    BY <1>2, <2>1
<1> QED
  BY <1>5, <1>6

LEMMA ModifiedShape ==
  ASSUME NEW T, Blank \in T, Namespace \subseteq T, NEW p \in Seq(T), Len(p) >= 2,
         p[1] = Blank, NEW q, q = Modified(p)
  PROVE  /\ q \in Seq(T) /\ Len(q) \in Nat /\ Len(q) >= 2 /\ Len(q) <= Len(p)
         /\ q[1] = Blank /\ q[2] \in T /\ \A n \in 3..Len(q) : q[n] # Blank
<1>1. PICK segs \in Seq(T) : Len(segs) = Len(p) /\ segs[1] = Blank /\ q = JoinPath(segs)
  BY ModifiedIs
<1>2. PICK S : S = Filled(segs)
  OBVIOUS
<1>3. /\ q \in Seq(T) /\ Len(q) \in Nat /\ Len(q) >= 2 /\ Len(q) <= Len(p)
      /\ q[1] = Blank /\ \A n \in 3..Len(q) : q[n] # Blank
  BY <1>1, <1>2, JoinShape
<1>4. q[2] \in T
  BY <1>3, ElementOfSeq
<1> QED
  BY <1>3, <1>4

LEMMA LabelBegins ==
  ASSUME IInv, pc = "modify", NEW T, T = Segment \cup Namespace,
         NEW segs, JoinPath(segs) = Modified(request.path), BeginLabel(segs),
         suffix' \in Segment, apiTokHit' \in BOOLEAN, UNCHANGED <<request, selector>>
  PROVE  IInv'
<1>1. /\ Blank \in T /\ Namespace \subseteq T /\ request.path \in Seq(T)
      /\ Len(request.path) \in Nat /\ Len(request.path) >= 2
      /\ request.path[1] = Blank /\ request.path \in Paths
  BY PathFacts DEF IInv
<1>2. PICK q : q = Modified(request.path)
  OBVIOUS
<1>3. /\ q \in Seq(T) /\ Len(q) \in Nat /\ Len(q) >= 2
      /\ q[1] = Blank /\ q[2] \in T
  BY <1>1, <1>2, ModifiedShape
<1>4. PICK bare : bare = [q EXCEPT ![2] = Blank]
  OBVIOUS
<1>5. bare \in Seq(T) /\ Len(bare) = Len(q)
  BY <1>1, <1>3, <1>4, WithoutRegion
<1>6. pc' = "label" /\ i' = 1 /\ regionName' = q[2] /\ parts' = bare
  BY <1>2, <1>4 DEF BeginLabel
<1>7. selector = request.selector /\ request' = request /\ selector' = selector
  BY DEF IInv, Scanning
<1>8. TypeOK'
  <2>1. request' \in [path: Seq(Segment), selector: {NoSelector, OwnSelector}]
    BY <1>7 DEF IInv, TypeOK
  <2>2. selector' \in {NoSelector, OwnSelector}
    BY <1>7, <2>1
  <2>3. i' \in 1..(Len(request'.path) + 1)
    BY <1>1, <1>6, <1>7
  <2>4. parts' \in Seq(Segment \cup Namespace) /\ regionName' \in Segment \cup Namespace
    BY <1>3, <1>5, <1>6
  <2> QED
    BY <1>6, <2>1, <2>2, <2>3, <2>4 DEF TypeOK, Namespace
<1>9. Labelling'
  <2>1. Passed(q, 1 - 1) = {}
    BY DEF Passed
  <2>2. Clean(q, 1 - 1)
    BY <2>1 DEF Clean
  <2>3. 1 <= Len(q) + 1
    BY <1>3
  <2> QED
    BY <1>2, <1>4, <1>6, <1>7, <2>1, <2>2, <2>3 DEF Labelling
<1>10. Scanning' /\ MatchesReference'
  BY <1>6 DEF Scanning, MatchesReference
<1> QED
  BY <1>1, <1>7, <1>8, <1>9, <1>10 DEF IInv

LEMMA InitIInv == Init => IInv
<1> SUFFICES ASSUME Init PROVE IInv
  OBVIOUS
<1>1. PICK p \in Paths : p = request.path
  BY DEF Init
<1>2. p \in Seq(Segment) /\ Len(p) >= 2 /\ p[1] = Blank
  BY PathsAssumption
<1>3. p \in Seq(Segment \cup Namespace) /\ Len(p) \in Nat
  BY <1>2, SeqMonotonic
<1>4. TypeOK
  <2>1. 1 \in 1..(Len(request.path) + 1) /\ request.path \in Seq(Segment)
    BY <1>1, <1>2, <1>3
  <2> QED
    BY <1>1, <1>3, <2>1, PathsAssumption DEF Init, TypeOK
<1>5. Scanning
  <2>1. \A j \in 1..(1 - 1) : FALSE
    OBVIOUS
  <2>2. Found(p, 1 - 1, Blank, FALSE, p)
    BY <2>1 DEF Found
  <2>3. i = 1 /\ 1 <= Len(p) + 1
    BY <1>3 DEF Init
  <2> QED
    BY <1>1, <2>1, <2>2, <2>3 DEF Init, Scanning
<1> QED
  BY <1>1, <1>4, <1>5 DEF Init, IInv, Labelling, MatchesReference

LEMMA ModifyIInv == IInv /\ Modify => IInv'
<1> SUFFICES ASSUME IInv, Modify PROVE IInv'
  OBVIOUS
<1>1. PICK T : T = Segment \cup Namespace
  OBVIOUS
<1>2. PICK p : p = request.path
  OBVIOUS
<1>3. /\ Blank \in T /\ Namespace \subseteq T /\ p \in Seq(T) /\ p \in Seq(Segment)
      /\ Len(p) \in Nat /\ Len(p) >= 2 /\ p[1] = Blank /\ Blank \in Segment
  BY <1>1, <1>2, PathFacts, PathsAssumption
<1>4. PICK k \in 1..(Len(p) + 1) : k = i
  BY <1>2 DEF IInv, TypeOK
<1>5. /\ selector = request.selector /\ Found(p, k - 1, suffix, apiTokHit, parts)
      /\ \A j \in 1..(k - 1) : j < Len(p) => p[j] # Namespaces
  BY <1>2, <1>4 DEF IInv, Scanning, Modify
<1>6. /\ parts \in Seq(T) /\ Len(parts) = Len(p)
      /\ \A j \in 1..Len(p) : j > k - 1 => parts[j] = p[j]
  <2>1. k - 1 \in 0..Len(p)
    BY <1>3, <1>4
  <2> QED
    BY <1>3, <1>5, <2>1, FoundTypes
<1>7. k \in 1..Len(p) /\ parts[k] = p[k]
  <2>1. k <= Len(p)
    BY <1>4, <1>6 DEF Modify
  <2>2. k \in 1..Len(p) /\ k > k - 1
    BY <1>3, <1>4, <2>1
  <2> QED
    BY <1>6, <2>2
<1>8. PICK part : part = p[k]
  OBVIOUS
<1>9. PICK hit \in BOOLEAN : hit = (apiTokHit \/ part = ApiTok)
  OBVIOUS
<1>10. PICK take \in BOOLEAN : take = (suffix = Blank /\ ~hit)
  OBVIOUS
<1>11. PICK name : name = IF take THEN part ELSE suffix
  OBVIOUS
<1>12. PICK rest : rest = IF take THEN [parts EXCEPT ![k] = Blank] ELSE parts
  OBVIOUS
<1>13. /\ pc = "modify" /\ apiTokHit' = hit /\ suffix' = name
       /\ UNCHANGED <<request, selector>>
       /\ IF part = Namespaces /\ k < Len(p)
          THEN BeginLabel(Renamed(rest, k, name))
          ELSE pc' = pc /\ i' = k + 1 /\ parts' = rest /\ regionName' = regionName
  BY <1>4, <1>6, <1>7, <1>8, <1>9, <1>10, <1>11, <1>12 DEF Modify
<1>14. Found(p, k, name, hit, rest)
  <2>1. apiTokHit \in BOOLEAN
    BY DEF IInv, TypeOK
  <2>2. Blank \in T /\ p \in Seq(T) /\ k \in 1..Len(p)
    BY <1>3, <1>7
  <2>3. Found(p, k - 1, suffix, apiTokHit, parts)
    BY <1>5
  <2> QED
    BY <1>8, <1>9, <1>10, <1>11, <1>12, <2>1, <2>2, <2>3, FoundNext
<1>15. rest \in Seq(T)
  BY <1>3, <1>7, <1>14, FoundTypes
<1>16. name \in Segment
  BY <1>3, <1>7, <1>14, FoundTypes
<1>17. CASE part = Namespaces /\ k < Len(p)
  <2>1. PICK segs : segs = Renamed(rest, k, name)
    OBVIOUS
  <2>2. k \in 1..(Len(p) - 1) /\ \A j \in 1..(k - 1) : p[j] # Namespaces
    BY <1>3, <1>5, <1>7, <1>17
  <2>3. JoinPath(segs) = Modified(p)
    BY <1>3, <1>8, <1>14, <1>17, <2>1, <2>2, ModifiedAtNamespaces
  <2>4. BeginLabel(segs)
    BY <1>13, <1>17, <2>1
  <2> QED
    BY <1>1, <1>2, <1>9, <1>13, <1>16, <2>3, <2>4, LabelBegins
<1>18. CASE ~(part = Namespaces /\ k < Len(p))
  <2>1. /\ pc' = "modify" /\ i' = k + 1 /\ parts' = rest /\ regionName' = regionName
        /\ request' = request /\ selector' = selector
    BY <1>13, <1>18
  <2>2. k + 1 \in 1..(Len(p) + 1) /\ (k + 1) - 1 = k /\ k + 1 <= Len(p) + 1
    BY <1>3, <1>7
  <2>3. \A j \in 1..k : j < Len(p) => p[j] # Namespaces
    <3>1. \A j \in 1..k : j \in 1..(k - 1) \/ j = k
      BY <1>7
    <3> QED
      BY <1>5, <1>8, <1>18, <3>1
  <2>4. TypeOK'
    BY <1>1, <1>2, <1>9, <1>13, <1>15, <1>16, <2>1, <2>2 DEF IInv, TypeOK, Namespace
  <2>5. Scanning'
    BY <1>2, <1>5, <1>13, <1>14, <2>1, <2>2, <2>3 DEF Scanning
  <2> QED
    BY <2>1, <2>4, <2>5 DEF IInv, Labelling, MatchesReference
<1> QED
  BY <1>17, <1>18

LEMMA ModifyEndIInv == IInv /\ ModifyEnd => IInv'
<1> SUFFICES ASSUME IInv, ModifyEnd PROVE IInv'
  OBVIOUS
<1>1. PICK T : T = Segment \cup Namespace
  OBVIOUS
<1>2. PICK p : p = request.path
  OBVIOUS
<1>3. /\ Blank \in T /\ p \in Seq(T) /\ Len(p) \in Nat /\ p[1] = Blank
  BY <1>1, <1>2, PathFacts
<1>4. PICK k \in 1..(Len(p) + 1) : k = i
  BY <1>2 DEF IInv, TypeOK
<1>5. /\ Found(p, k - 1, suffix, apiTokHit, parts) /\ pc = "modify"
      /\ \A j \in 1..(k - 1) : j < Len(p) => p[j] # Namespaces
  BY <1>2, <1>4 DEF IInv, Scanning, ModifyEnd
<1>6. Len(parts) = Len(p)
  <2>1. k - 1 \in 0..Len(p)
    BY <1>3, <1>4
  <2> QED
    BY <1>3, <1>5, <2>1, FoundTypes
<1>7. k - 1 = Len(p) /\ \A j \in 1..(Len(p) - 1) : j \in 1..(k - 1) /\ j < Len(p)
  <2>1. k > Len(p)
    BY <1>4, <1>6 DEF ModifyEnd
  <2> QED
    BY <1>3, <1>4, <2>1
<1>8. JoinPath(parts) = Modified(p)
  BY <1>3, <1>5, <1>7, ModifiedAtEnd
<1>9. BeginLabel(parts) /\ UNCHANGED <<request, suffix, apiTokHit, selector>>
  BY DEF ModifyEnd
<1>10. suffix' \in Segment /\ apiTokHit' \in BOOLEAN
  BY <1>9 DEF IInv, TypeOK
<1> QED
  BY <1>1, <1>2, <1>5, <1>8, <1>9, <1>10, LabelBegins

(* What a step of the second loop may rely on.                             *)
LEMMA LabelFacts ==
  ASSUME IInv, pc = "label", NEW T, T = Segment \cup Namespace,
         NEW q, q = Modified(request.path)
  PROVE  /\ Blank \in T /\ q \in Seq(T) /\ Len(q) \in Nat /\ Len(q) >= 2
         /\ q[1] = Blank /\ q[2] \in T /\ Len(q) <= Len(request.path)
         /\ parts = [q EXCEPT ![2] = Blank] /\ parts \in Seq(T) /\ Len(parts) = Len(q)
         /\ Len(request.path) \in Nat /\ i \in 1..(Len(q) + 1)
         /\ regionName = q[2] /\ Clean(q, i - 1)
         /\ selector = IF \E j \in Passed(q, i - 1) : q[j + 2] \in Labelled
                       THEN <<q[2]>> ELSE request.selector
<1>1. /\ Blank \in T /\ q \in Seq(T) /\ Len(q) \in Nat /\ Len(q) >= 2
      /\ q[1] = Blank /\ q[2] \in T /\ Len(q) <= Len(request.path)
      /\ Len(request.path) \in Nat
  BY PathFacts, ModifiedShape
<1>2. /\ i <= Len(q) + 1 /\ regionName = q[2] /\ parts = [q EXCEPT ![2] = Blank]
      /\ Clean(q, i - 1)
      /\ selector = IF \E j \in Passed(q, i - 1) : q[j + 2] \in Labelled
                    THEN <<q[2]>> ELSE request.selector
  BY DEF IInv, Labelling
<1>3. i \in 1..(Len(q) + 1)
  <2>1. i \in 1..(Len(request.path) + 1)
    BY DEF IInv, TypeOK
  <2> QED
    BY <1>1, <1>2, <2>1
<1>4. parts \in Seq(T) /\ Len(parts) = Len(q)
  BY <1>1, <1>2, WithoutRegion
<1> QED
  BY <1>1, <1>2, <1>3, <1>4

(* Forwarding what the reference says is to be forwarded.                  *)
LEMMA ForwardIInv ==
  ASSUME IInv, pc = "label", NEW q, q = Modified(request.path), NEW segs,
         Forward(segs), JoinPath(segs) = Stripped(q), ~Panics(q),
         selector = IF Labels(q) THEN <<q[2]>> ELSE request.selector,
         parts' \in Seq(Segment \cup Namespace),
         UNCHANGED <<request, i, suffix, apiTokHit, regionName, selector>>
  PROVE  IInv'
<1>1. pc' = "forwarded" /\ parts' = Stripped(q)
  BY DEF Forward
<1>2. TypeOK'
  BY <1>1 DEF IInv, TypeOK, Namespace
<1>3. MatchesReference'
  BY <1>1 DEF MatchesReference
<1>4. Scanning' /\ Labelling'
  BY <1>1 DEF Scanning, Labelling
<1> QED
  BY <1>2, <1>3, <1>4 DEF IInv

LEMMA LabelIInv == IInv /\ Label => IInv'
<1> SUFFICES ASSUME IInv, Label PROVE IInv'
  OBVIOUS
<1>1. PICK T : T = Segment \cup Namespace
  OBVIOUS
<1>2. PICK q : q = Modified(request.path)
  OBVIOUS
<1>3. pc = "label" /\ i <= Len(parts)
  BY DEF Label
<1>4. /\ Blank \in T /\ q \in Seq(T) /\ Len(q) \in Nat /\ Len(q) >= 2
      /\ q[1] = Blank /\ q[2] \in T /\ Len(q) <= Len(request.path)
      /\ parts = [q EXCEPT ![2] = Blank] /\ parts \in Seq(T) /\ Len(parts) = Len(q)
      /\ Len(request.path) \in Nat /\ i \in 1..(Len(q) + 1)
      /\ regionName = q[2] /\ Clean(q, i - 1)
      /\ selector = IF \E j \in Passed(q, i - 1) : q[j + 2] \in Labelled
                    THEN <<q[2]>> ELSE request.selector
  BY <1>1, <1>2, <1>3, LabelFacts
<1>5. PICK k \in 1..Len(q) : k = i
  BY <1>3, <1>4
<1>6. PICK bare : bare = [q EXCEPT ![2] = Blank]
  OBVIOUS
<1>7. /\ bare = parts /\ \A j \in 3..Len(q) : bare[j] = q[j]
      /\ bare[k] = Namespaces <=> k >= 3 /\ q[k] = Namespaces
      /\ Named(bare, k) <=> Named(q, k)
  <2>1. /\ Blank \in T /\ q \in Seq(T) /\ Len(q) >= 2 /\ q[1] = Blank
        /\ parts = [q EXCEPT ![2] = Blank]
    BY <1>4
  <2>2. \A j \in 3..Len(q) : bare[j] = q[j]
    BY <1>6, <2>1, WithoutRegion
  <2>3. bare = parts
    BY <1>6, <2>1
  <2>4. bare[k] = Namespaces <=> k >= 3 /\ q[k] = Namespaces
    BY <1>6, <2>1, WithoutRegion
  <2>5. Named(bare, k) <=> Named(q, k)
    <3>1. Len(q) >= k + 3 => k + 3 \in 3..Len(q)
      BY <1>4
    <3>2. Len(bare) = Len(q)
      BY <1>4, <2>3
    <3> QED
      BY <2>2, <3>1, <3>2 DEF Named
  <2> QED
    BY <2>2, <2>3, <2>4, <2>5
<1>8. UNCHANGED <<request, suffix, apiTokHit, regionName>>
  BY DEF Label
<1>9. CASE ~(k >= 3 /\ q[k] = Namespaces)
  <2>1. i' = k + 1 /\ UNCHANGED <<pc, parts, selector>>
    BY <1>5, <1>7, <1>9 DEF Label
  <2>2. k + 1 \in 1..(Len(request.path) + 1) /\ k + 1 <= Len(q) + 1 /\ (k + 1) - 1 = k
    BY <1>4, <1>5
  <2>3. Passed(q, k) = Passed(q, k - 1)
    BY <1>4, <1>9, PassedNext
  <2>4. Clean(q, k)
    BY <1>4, <1>5, <2>3 DEF Clean
  <2>5. TypeOK'
    BY <1>8, <2>1, <2>2 DEF IInv, TypeOK, Namespace
  <2>6. Labelling'
    BY <1>2, <1>4, <1>5, <1>8, <2>1, <2>2, <2>3, <2>4 DEF Labelling
  <2> QED
    BY <1>3, <1>8, <2>1, <2>5, <2>6 DEF IInv, Scanning, MatchesReference
<1>10. CASE k >= 3 /\ q[k] = Namespaces /\ Named(q, k)
  <2>1. Forward(Unmarked(bare, k)) /\ UNCHANGED <<i, selector>>
    BY <1>5, <1>7, <1>10 DEF Label
  <2>2. k \in 3..Len(q)
    BY <1>4, <1>10
  <2>3. /\ ~Panics(q) /\ JoinPath(Unmarked(bare, k)) = Stripped(q)
        /\ Labels(q) <=> \E j \in Passed(q, k - 1) : q[j + 2] \in Labelled
    BY <1>4, <1>5, <1>6, <1>10, <2>2, StoppedAtName
  <2>4. selector = IF Labels(q) THEN <<q[2]>> ELSE request.selector
    BY <1>4, <1>5, <2>3
  <2>5. PICK segs \in Seq(T) : segs = Unmarked(bare, k)
    <3>1. k + 3 \in 1..Len(bare) /\ bare \in Seq(T)
      BY <1>4, <1>7, <1>10 DEF Named
    <3>2. PICK r : r = [bare EXCEPT ![k + 3] = Blank]
      OBVIOUS
    <3>3. r \in Seq(T)
      BY <1>4, <3>1, <3>2, Put
    <3> QED
      BY <3>1, <3>2, <3>3 DEF Unmarked
  <2>6. parts' \in Seq(T)
    BY <1>4, <2>1, <2>5, JoinShape DEF Forward
  <2> QED
    BY <1>1, <1>2, <1>3, <1>8, <2>1, <2>3, <2>4, <2>6, ForwardIInv
<1>11. CASE k >= 3 /\ q[k] = Namespaces /\ ~Named(q, k) /\ k + 2 > Len(q)
  <2>1. pc' = "panicked" /\ UNCHANGED <<i, parts, selector>>
    BY <1>4, <1>5, <1>7, <1>11 DEF Label
  <2>2. k \in 3..Len(q)
    BY <1>4, <1>11
  <2>3. k \in Looked(q)
    BY <1>4, <1>5, <1>11, <2>2, Reached
  <2>4. Panics(q)
    BY <1>11, <2>3 DEF Panics
  <2>5. TypeOK'
    BY <1>8, <2>1 DEF IInv, TypeOK, Namespace
  <2> QED
    BY <1>2, <1>8, <2>1, <2>4, <2>5 DEF IInv, Scanning, Labelling, MatchesReference
<1>12. CASE k >= 3 /\ q[k] = Namespaces /\ ~Named(q, k) /\ ~(k + 2 > Len(q))
  <2>1. /\ i' = k + 1 /\ UNCHANGED <<pc, parts>>
        /\ selector' = IF bare[k + 2] \in Labelled THEN <<regionName>> ELSE selector
    BY <1>4, <1>5, <1>7, <1>12 DEF Label, SelectorSet
  <2>2. /\ k + 1 \in 1..(Len(request.path) + 1) /\ k + 1 <= Len(q) + 1 /\ (k + 1) - 1 = k
        /\ k + 2 \in 3..Len(q) /\ k + 2 <= Len(q)
    BY <1>4, <1>5, <1>12
  <2>3. Passed(q, k) = Passed(q, k - 1) \cup {k}
    BY <1>4, <1>12, PassedNext
  <2>4. Clean(q, k)
    BY <1>4, <1>5, <1>12, <2>2, <2>3 DEF Clean
  <2>5. bare[k + 2] = q[k + 2]
    BY <1>7, <2>2
  <2>6. selector' = IF \E j \in Passed(q, k) : q[j + 2] \in Labelled
                    THEN <<q[2]>> ELSE request.selector
    BY <1>4, <1>5, <2>1, <2>3, <2>5
  <2>7. TypeOK'
    BY <1>8, <2>1, <2>2 DEF IInv, TypeOK, Namespace
  <2>8. Labelling'
    BY <1>2, <1>4, <1>5, <1>8, <2>1, <2>2, <2>4, <2>6 DEF Labelling
  <2> QED
    BY <1>3, <1>8, <2>1, <2>7, <2>8 DEF IInv, Scanning, MatchesReference
<1> QED
  BY <1>9, <1>10, <1>11, <1>12

LEMMA LabelEndIInv == IInv /\ LabelEnd => IInv'
<1> SUFFICES ASSUME IInv, LabelEnd PROVE IInv'
  OBVIOUS
<1>1. PICK T : T = Segment \cup Namespace
  OBVIOUS
<1>2. PICK q : q = Modified(request.path)
  OBVIOUS
<1>3. /\ pc = "label" /\ i > Len(parts) /\ Forward(parts)
      /\ UNCHANGED <<request, i, suffix, apiTokHit, regionName, selector>>
  BY DEF LabelEnd
<1>4. /\ Blank \in T /\ q \in Seq(T) /\ Len(q) \in Nat
      /\ parts = [q EXCEPT ![2] = Blank] /\ parts \in Seq(T) /\ Len(parts) = Len(q)
      /\ i \in 1..(Len(q) + 1) /\ Clean(q, i - 1)
      /\ selector = IF \E j \in Passed(q, i - 1) : q[j + 2] \in Labelled
                    THEN <<q[2]>> ELSE request.selector
  BY <1>1, <1>2, <1>3, LabelFacts
<1>5. i - 1 = Len(q)
  BY <1>3, <1>4
<1>6. /\ ~Panics(q) /\ JoinPath(parts) = Stripped(q)
      /\ Labels(q) <=> \E j \in Passed(q, Len(q)) : q[j + 2] \in Labelled
  BY <1>4, <1>5, RanThrough
<1>7. selector = IF Labels(q) THEN <<q[2]>> ELSE request.selector
  BY <1>4, <1>5, <1>6
<1>8. parts' \in Seq(T)
  BY <1>3, <1>4, JoinShape DEF Forward
<1> QED
  BY <1>1, <1>2, <1>3, <1>6, <1>7, <1>8, ForwardIInv

(* The loop invariants hold throughout: modifyNamespaceInPath has found the*)
(* suffix if there is one before i and left the rest alone, and            *)
(* addRegionLabelSelectorInPath has passed unnamed lists only              *)
(* (namespace_round_tripper.go:158-227).                                   *)
THEOREM Inductive == Spec => []IInv
<1>1. IInv /\ [Next]_vars => IInv'
  <2> SUFFICES ASSUME IInv, [Next]_vars PROVE IInv'
    OBVIOUS
  <2>1. CASE UNCHANGED vars
    BY <2>1 DEF IInv, TypeOK, Namespace, Scanning, Labelling, MatchesReference, vars
  <2>2. CASE Next
    BY <2>2, ModifyIInv, ModifyEndIInv, LabelIInv, LabelEndIInv DEF Next
  <2> QED
    BY <2>1, <2>2
<1> QED
  BY <1>1, InitIInv, PTL DEF Spec

(* The type invariant of RoundTrip's two loops, for paths of any length.   *)
THEOREM TypeCorrect == Spec => []TypeOK
<1>1. IInv => TypeOK
  BY DEF IInv
<1> QED
  BY <1>1, Inductive, PTL

(* Whatever the path and the map, the two loops compute what their comments*)
(* say of the path as a whole: the suffix and the region are taken off, the*)
(* namespace is replaced, and the selector is set for lists only           *)
(* (namespace_round_tripper.go:158-241).                                   *)
THEOREM LoopsCorrect == Spec => []MatchesReference
<1>1. IInv => MatchesReference
  BY DEF IInv
<1> QED
  BY <1>1, Inductive, PTL

-----------------------------------------------------------------------------
(***************************************************************************)
(* What the reference says of tenants and lists.                           *)
(***************************************************************************)
LEMMA ModifiedConfined ==
  ASSUME NEW T, Blank \in T, Namespace \subseteq T, NEW p \in Seq(T), Len(p) >= 2,
         p[1] = Blank, NEW n \in Nat, n = FirstNamespaces(p),
         NEW s, s = SuffixOf(p), s \in DOMAIN Mapping \ {Blank}, Mapping[s] # Blank,
         Cardinality({m \in Filled(p) : m < n}) >= 2, NEW q, q = Modified(p)
  PROVE  \E m : NamespacesAt(q, m) /\ q[m + 1] = Mapping[s] /\ m > 2
<1>1. PICK F : F = Filled(p)
  OBVIOUS
<1>2. /\ Len(p) \in Nat /\ F \in SUBSET Nat /\ IsFiniteSet(F)
      /\ \A j : j \in F <=> j \in 1..Len(p) /\ p[j] # Blank
  BY <1>1, FilledFacts
<1>3. PICK U : U = {m \in F : m < n}
  OBVIOUS
<1>4. F # {} /\ Cardinality(U) >= 2 /\ \A m \in U : m \in F /\ m < n
  BY <1>1, <1>3 DEF SuffixOf
<1>5. PICK a \in F : a = Min(F) /\ \A m \in F : a <= m
  BY <1>2, <1>4, MinIn
<1>6. PICK b \in U : b # a
  <2> SUFFICES ASSUME U \subseteq {a} PROVE FALSE
    OBVIOUS
  <2>1. IsFiniteSet({a}) /\ Cardinality({a}) = 1
    BY FS_Singleton
  <2>2. Cardinality(U) <= 1 /\ Cardinality(U) \in Nat
    BY <2>1, FS_Subset, FS_CardinalityType
  <2> QED
    BY <1>4, <2>2
<1>7. a \in Nat /\ b \in Nat /\ a < b /\ b < n
  BY <1>2, <1>4, <1>5, <1>6
<1>8. /\ n \in 1..(Len(p) - 1) /\ p[n] = Namespaces
      /\ \A j \in 1..(n - 1) : p[j] # Namespaces
  BY <1>7, FirstNamespacesType
<1>9. a \in 1..Len(p) /\ b \in 1..Len(p) /\ n + 1 \in 1..Len(p) /\ n \in 1..Len(p)
  BY <1>2, <1>4, <1>5, <1>6, <1>8
<1>10. PICK bare : bare = [p EXCEPT ![a] = Blank]
  OBVIOUS
<1>11. /\ bare \in Seq(T) /\ Len(bare) = Len(p) /\ bare[a] = Blank
       /\ \A j \in 1..Len(p) : j # a => bare[j] = p[j]
  BY <1>9, <1>10, Put
<1>12. PICK ns \in T : ns = Mapping[s]
  BY DEF Namespace
<1>13. PICK segs : segs = [bare EXCEPT ![n + 1] = ns]
  OBVIOUS
<1>14. /\ segs \in Seq(T) /\ Len(segs) = Len(p) /\ segs[n + 1] = ns
       /\ \A j \in 1..Len(p) : j # n + 1 => segs[j] = bare[j]
  BY <1>9, <1>11, <1>12, <1>13, Put
<1>15. q = JoinPath(segs)
  <2>1. Bare(p) = bare
    BY <1>1, <1>5, <1>10 DEF Bare
  <2>2. Modified(p) = JoinPath([Bare(p) EXCEPT ![n + 1] = Mapping[SuffixOf(p)]])
    BY <1>7 DEF Modified
  <2> QED
    BY <1>12, <1>13, <2>1, <2>2
<1>16. /\ n # n + 1 /\ n # a /\ b # n + 1 /\ b \in 1..(n - 1)
       /\ \A j \in 1..(n - 1) : j # n + 1 /\ j \in 1..Len(p)
  BY <1>2, <1>7, <1>8, <1>9
<1>17. segs[n] = Namespaces /\ segs[n + 1] # Blank /\ segs[b] # Blank
  BY <1>2, <1>4, <1>6, <1>8, <1>9, <1>11, <1>12, <1>14, <1>16
<1>18. \A j \in 1..(n - 1) : segs[j] # Namespaces
  BY <1>8, <1>11, <1>14, <1>16, Tokens
<1>19. NamespacesAt(segs, n)
  BY <1>8, <1>14, <1>17, <1>18 DEF NamespacesAt
<1>20. PICK m : /\ NamespacesAt(q, m) /\ q[m + 1] = segs[n + 1]
                /\ (\E j \in 1..(n - 1) : segs[j] # Blank) => m > 2
  BY <1>14, <1>15, <1>17, <1>19, JoinNamespaces
<1>21. m > 2
  BY <1>16, <1>17, <1>20
<1> QED
  BY <1>12, <1>14, <1>20, <1>21

(* What the second loop leaves for joinPath.                               *)
Marked(q) == {x \in Looked(q) : /\ Named(q, x) /\ q[x + 2] = Clusters
                                /\ q[x + 3] = AllMark}

(* segs is bare without the marker.                                        *)
Erased(q, bare, segs) ==
  /\ Len(segs) = Len(q)
  /\ \A n \in 1..Len(q) : segs[n] = IF n - 3 \in Marked(q) THEN Blank ELSE bare[n]

LEMMA StrippedIs ==
  ASSUME NEW T, Blank \in T, NEW q \in Seq(T), Len(q) >= 2, q[1] = Blank,
         NEW bare, bare = [q EXCEPT ![2] = Blank]
  PROVE  \E segs \in Seq(T) : Stripped(q) = JoinPath(segs) /\ Erased(q, bare, segs)
<1>1. Len(q) \in Nat /\ bare \in Seq(T) /\ Len(bare) = Len(q) /\ DOMAIN bare = 1..Len(q)
  BY WithoutRegion
<1>2. \A n \in 1..Len(q) : bare[n] \in T
  BY <1>1, ElementOfSeq
<1>3. PICK marked : marked = Marked(q)
  OBVIOUS
<1>4. PICK segs : segs = IF marked = {} THEN bare
                         ELSE [n \in DOMAIN bare |-> IF n - 3 \in marked THEN Blank
                                                     ELSE bare[n]]
  OBVIOUS
<1>5. Stripped(q) = JoinPath(segs)
  BY <1>3, <1>4 DEF Stripped, Marked
<1>6. /\ segs \in Seq(T) /\ Len(segs) = Len(q)
      /\ \A n \in 1..Len(q) : segs[n] = IF n - 3 \in marked THEN Blank ELSE bare[n]
  <2>1. CASE marked = {}
    BY <1>1, <1>4, <2>1
  <2>2. CASE marked # {}
    <3>1. segs = [n \in 1..Len(q) |-> IF n - 3 \in marked THEN Blank ELSE bare[n]]
      BY <1>1, <1>4, <2>2
    <3>2. \A n \in 1..Len(q) : (IF n - 3 \in marked THEN Blank ELSE bare[n]) \in T
      BY <1>2
    <3> QED
      BY <1>1, <3>1, <3>2
  <2> QED
    BY <2>1, <2>2
<1> QED
  BY <1>3, <1>5, <1>6 DEF Erased

(* A path in which no segment follows "namespaces" is still one when       *)
(* joinPath has had it.                                                    *)
NamesNone(segs) == \A j \in 1..(Len(segs) - 1) : segs[j] # Namespaces

LEMMA JoinNamesNone ==
  ASSUME NEW T, Blank \in T, NEW segs \in Seq(T), NamesNone(segs),
         NEW q, q = JoinPath(segs)
  PROVE  NamesNone(q)
<1>1. PICK S : S = Filled(segs)
  OBVIOUS
<1>2. /\ S \in SUBSET Nat /\ IsFiniteSet(S) /\ Len(segs) \in Nat
      /\ \A j : j \in S <=> j \in 1..Len(segs) /\ segs[j] # Blank
  BY <1>1, FilledFacts
<1>3. CASE S = {}
  <2>1. q = <<Blank, Blank>>
    BY <1>1, <1>3 DEF JoinPath
  <2>2. Len(q) = 2 /\ q[1] = Blank /\ \A j \in 1..(2 - 1) : j = 1
    BY <2>1
  <2> QED
    BY <2>2, Tokens DEF NamesNone
<1>4. CASE S # {}
  <2>1. /\ Len(q) \in Nat /\ q[1] = Blank
        /\ \A n \in 2..Len(q) : /\ Nth(S, n - 1) \in S
                                /\ Place(S, Nth(S, n - 1)) = n - 1
                                /\ q[n] = segs[Nth(S, n - 1)]
    BY <1>1, <1>4, JoinShape
  <2> SUFFICES ASSUME NEW j \in 1..(Len(q) - 1), q[j] = Namespaces PROVE FALSE
    BY DEF NamesNone
  <2>2. j # 1
    BY <2>1, Tokens
  <2>3. j \in 2..Len(q) /\ j + 1 \in 2..Len(q) /\ (j + 1) - 1 = j /\ j - 1 < j
    BY <2>1, <2>2
  <2>4. PICK x \in S, y \in S : /\ Place(S, x) = j - 1 /\ segs[x] = Namespaces
                               /\ Place(S, y) = j
    <3>1. /\ Nth(S, j - 1) \in S /\ Place(S, Nth(S, j - 1)) = j - 1
          /\ segs[Nth(S, j - 1)] = Namespaces
      BY <2>1, <2>3
    <3>2. Nth(S, j) \in S /\ Place(S, Nth(S, j)) = j
      BY <2>1, <2>3
    <3> QED
      BY <3>1, <3>2
  <2>5. x \in 1..Len(segs) /\ y \in 1..Len(segs)
    BY <1>2
  <2>6. x = Len(segs)
    <3>1. x \notin 1..(Len(segs) - 1)
      BY <2>4 DEF NamesNone
    <3> QED
      BY <1>2, <2>5, <3>1
  <2>7. y < x \/ y = x
    BY <1>2, <2>5, <2>6
  <2>8. CASE y < x
    <3>1. Place(S, y) < Place(S, x)
      BY <1>2, <2>8, PlaceGrows
    <3> QED
      BY <2>3, <2>4, <3>1
  <2>9. CASE y = x
    BY <2>3, <2>4, <2>9
  <2> QED
    BY <2>7, <2>8, <2>9
<1> QED
  BY <1>3, <1>4

(* A path that is given no namespace gets none.                            *)
LEMMA NoneGained ==
  ASSUME NEW T, Blank \in T, Namespace \subseteq T, NEW p \in Seq(T), Len(p) >= 2,
         p[1] = Blank, FirstNamespaces(p) = 0
  PROVE  FirstNamespaces(Stripped(Modified(p))) = 0
<1>1. /\ Len(p) \in Nat /\ Filled(p) \in SUBSET Nat /\ IsFiniteSet(Filled(p))
      /\ \A j : j \in Filled(p) <=> j \in 1..Len(p) /\ p[j] # Blank
  BY FilledFacts
<1>2. NamesNone(p)
  <2> SUFFICES ASSUME NEW j \in 1..(Len(p) - 1), p[j] = Namespaces PROVE FALSE
    BY DEF NamesNone
  <2>1. PICK all : all = {n \in 1..(Len(p) - 1) : p[n] = Namespaces}
    OBVIOUS
  <2>2. j \in all /\ all \in SUBSET Nat /\ all \in SUBSET (1..(Len(p) - 1))
    BY <1>1, <2>1
  <2>3. IsFiniteSet(1..(Len(p) - 1))
    BY <1>1, FS_Interval
  <2>4. Min(all) \in all
    BY <2>2, <2>3, FS_Subset, MinIn
  <2>5. Min(all) = 0
    BY <2>1, <2>2 DEF FirstNamespaces
  <2> QED
    BY <1>1, <2>2, <2>4, <2>5
<1>3. PICK bare : bare = Bare(p)
  OBVIOUS
<1>4. bare \in Seq(T) /\ NamesNone(bare)
  <2>1. CASE SuffixOf(p) = Blank
    BY <1>2, <1>3, <2>1 DEF Bare
  <2>2. CASE SuffixOf(p) # Blank
    <3>1. Filled(p) # {}
      BY <2>2 DEF SuffixOf
    <3>2. PICK a \in 1..Len(p) : a = Min(Filled(p))
      BY <1>1, <3>1, MinIn
    <3>3. bare = [p EXCEPT ![a] = Blank]
      BY <1>3, <2>2, <3>2 DEF Bare
    <3>4. /\ bare \in Seq(T) /\ Len(bare) = Len(p) /\ bare[a] = Blank
          /\ \A j \in 1..Len(p) : j # a => bare[j] = p[j]
      BY <3>3, Put
    <3>5. \A j \in 1..(Len(p) - 1) : j \in 1..Len(p)
      BY <1>1
    <3> QED
      BY <1>2, <3>4, <3>5, Tokens DEF NamesNone
  <2> QED
    BY <2>1, <2>2
<1>5. PICK q : q = Modified(p)
  OBVIOUS
<1>6. q \in Seq(T) /\ Len(q) \in Nat /\ Len(q) >= 2 /\ q[1] = Blank
  BY <1>5, ModifiedShape
<1>7. q = JoinPath(bare)
  BY <1>3, <1>5 DEF Modified
<1>8. NamesNone(q)
  BY <1>4, <1>7, JoinNamesNone
<1>9. PICK cut : cut = [q EXCEPT ![2] = Blank]
  OBVIOUS
<1> PICK segs \in Seq(T) : Stripped(q) = JoinPath(segs) /\ Erased(q, cut, segs)
  BY <1>6, <1>9, StrippedIs
<1>10. NamesNone(segs)
  <2> SUFFICES ASSUME NEW j \in 1..(Len(segs) - 1) PROVE segs[j] # Namespaces
    BY DEF NamesNone
  <2>1. /\ Len(segs) = Len(q)
        /\ \A n \in 1..Len(q) : segs[n] = IF n - 3 \in Marked(q) THEN Blank ELSE cut[n]
    BY DEF Erased
  <2>2. j \in 1..(Len(q) - 1) /\ j \in 1..Len(q)
    BY <1>6, <2>1
  <2>3. cut[j] # Namespaces
    <3>1. cut[j] = Namespaces <=> j >= 3 /\ q[j] = Namespaces
      BY <1>6, <1>9, <2>2, WithoutRegion
    <3>2. q[j] # Namespaces
      BY <1>8, <2>2 DEF NamesNone
    <3> QED
      BY <3>1, <3>2
  <2> QED
    BY <2>1, <2>2, <2>3, Tokens
<1>11. PICK r : r = JoinPath(segs)
  OBVIOUS
<1>12. PICK S : S = Filled(segs)
  OBVIOUS
<1>13. r \in Seq(T) /\ NamesNone(r)
  BY <1>10, <1>11, <1>12, JoinNamesNone, JoinShape
<1>14. FirstNamespaces(r) = 0
  BY <1>13, FirstNamespacesIs DEF NamesNone
<1> QED
  BY <1>5, <1>11, <1>14

LEMMA StrippedConfined ==
  ASSUME NEW T, Blank \in T, NEW q \in Seq(T), Len(q) >= 2, q[1] = Blank,
         NEW m, NamespacesAt(q, m), m > 2, q[m + 1] # Blank, NEW r, r = Stripped(q)
  PROVE  /\ FirstNamespaces(r) > 0
         /\ r[FirstNamespaces(r) + 1] = q[m + 1]
<1> /\ m \in 1..(Len(q) - 1) /\ q[m] = Namespaces
    /\ \A j \in 1..(m - 1) : q[j] # Namespaces
  BY DEF NamespacesAt
<1>1. Len(q) \in Nat
  BY FilledFacts
<1>2. PICK bare : bare = [q EXCEPT ![2] = Blank]
  OBVIOUS
<1>3. /\ bare \in Seq(T) /\ \A k \in 3..Len(q) : bare[k] = q[k]
      /\ \A k \in 1..Len(q) : bare[k] = Namespaces <=> k >= 3 /\ q[k] = Namespaces
  BY <1>1, <1>2, WithoutRegion, SMTT(30)
<1> PICK segs \in Seq(T) : Stripped(q) = JoinPath(segs) /\ Erased(q, bare, segs)
  BY <1>2, StrippedIs
<1>4. /\ r = JoinPath(segs) /\ Len(segs) = Len(q)
      /\ \A n \in 1..Len(q) : segs[n] = IF n - 3 \in Marked(q) THEN Blank ELSE bare[n]
  BY DEF Erased
<1>5. \A x \in Marked(q) : x \in 3..Len(q) /\ x \notin 1..(m - 1)
  BY DEF Looked, Marked
<1>6. m - 3 \notin Marked(q) /\ (m + 1) - 3 \notin Marked(q)
  <2>1. \A x \in 3..Len(q) : x \notin 1..(m - 1) => x # m - 3 /\ x # (m + 1) - 3
    BY <1>1
  <2> QED
    BY <1>5, <2>1
<1>7. m \in 3..Len(q) /\ m + 1 \in 3..Len(q) /\ m \in 1..Len(q) /\ m + 1 \in 1..Len(q)
  BY <1>1
<1>8. segs[m] = Namespaces /\ segs[m + 1] = q[m + 1]
  BY <1>3, <1>4, <1>6, <1>7
<1>9. \A j \in 1..(m - 1) : segs[j] # Namespaces
  <2>1. \A j \in 1..(m - 1) : j \in 1..Len(q)
    BY <1>1
  <2> QED
    BY <1>3, <1>4, <2>1, Tokens
<1>10. NamespacesAt(segs, m) /\ segs[m + 1] # Blank
  BY <1>4, <1>8, <1>9 DEF NamespacesAt
<1>11. PICK o : NamespacesAt(r, o) /\ r[o + 1] = segs[m + 1]
  <2>1. r = JoinPath(segs)
    BY <1>4
  <2> QED
    BY <1>10, <2>1, JoinNamespaces, SMTT(30)
<1>12. PICK S : S = Filled(segs)
  OBVIOUS
<1>13. r \in Seq(T) /\ Len(r) \in Nat
  BY <1>4, <1>12, JoinShape
<1>14. FirstNamespaces(r) = o /\ o > 0
  <2>1. /\ o \in 1..(Len(r) - 1) /\ r[o] = Namespaces
        /\ \A j \in 1..(o - 1) : r[j] # Namespaces
    BY <1>11 DEF NamespacesAt
  <2>2. FirstNamespaces(r) = o
    BY <1>13, <2>1, FirstNamespacesIs
  <2> QED
    BY <1>13, <2>1, <2>2
<1> QED
  BY <1>8, <1>11, <1>14

(* A mapped tenant's request that names a namespace after a suffix and a   *)
(* region reaches the mapped namespace, and one that names none gains      *)
(* none, for every path and every map (lines 158-241).                     *)
THEOREM Confined == Spec => []TenantConfined
<1>1. IInv => TenantConfined
  <2> SUFFICES ASSUME IInv, pc = "forwarded" PROVE TenantConfined
    BY DEF TenantConfined
  <2>1. PICK p : p = request.path
    OBVIOUS
  <2>2. PICK n : n = FirstNamespaces(p)
    OBVIOUS
  <2>3. PICK s : s = SuffixOf(p)
    OBVIOUS
  <2>4. PICK T : T = Segment \cup Namespace
    OBVIOUS
  <2>5. /\ Blank \in T /\ Namespace \subseteq T /\ p \in Seq(T) /\ Len(p) >= 2
        /\ p[1] = Blank
    BY <2>1, <2>4, PathFacts
  <2>6. PICK q : q = Modified(p)
    OBVIOUS
  <2>7. q \in Seq(T) /\ Len(q) >= 2 /\ q[1] = Blank
    BY <2>5, <2>6, ModifiedShape
  <2>8. parts = Stripped(q)
    BY <2>1, <2>6 DEF IInv, MatchesReference
  <2>9. n \in Nat
    BY <2>2, <2>5, FirstNamespacesType
  <2>10. ASSUME n = 0 PROVE FirstNamespaces(parts) = 0
    BY <2>2, <2>5, <2>6, <2>8, <2>10, NoneGained
  <2>11. ASSUME s \in DOMAIN Mapping \ {Blank}, Mapping[s] # Blank,
                Cardinality({m \in Filled(p) : m < n}) >= 2
         PROVE  /\ FirstNamespaces(parts) > 0
                /\ parts[FirstNamespaces(parts) + 1] = Mapping[s]
    <3>1. PICK m : NamespacesAt(q, m) /\ q[m + 1] = Mapping[s] /\ m > 2
      BY <2>2, <2>3, <2>5, <2>6, <2>9, <2>11, ModifiedConfined
    <3> QED
      BY <2>5, <2>7, <2>8, <2>11, <3>1, StrippedConfined
  <2> QED
    BY <2>1, <2>2, <2>3, <2>10, <2>11 DEF TenantConfined
<1> QED
  BY <1>1, Inductive, PTL

(* Joining a path whose segments are empty before a and no further.        *)
FilledFrom(segs, a) == \A j \in 1..Len(segs) : segs[j] # Blank <=> j >= a

LEMMA JoinEnd ==
  ASSUME NEW T, Blank \in T, NEW segs \in Seq(T), NEW a \in 1..Len(segs),
         FilledFrom(segs, a), NEW r, r = JoinPath(segs)
  PROVE  /\ Len(r) = (Len(segs) - a) + 2
         /\ \A n \in 2..Len(r) : r[n] = segs[n + (a - 2)]
<1>1. Len(segs) \in Nat /\ a \in Nat
  BY FilledFacts
<1>2. PICK S : S = Filled(segs)
  OBVIOUS
<1>3. S = a..Len(segs)
  <2>1. \A j : j \in S <=> j \in 1..Len(segs) /\ segs[j] # Blank
    BY <1>2, FilledFacts
  <2>2. \A j : j \in a..Len(segs) <=> j \in 1..Len(segs) /\ j >= a
    BY <1>1
  <2> QED
    BY <2>1, <2>2 DEF FilledFrom
<1>4. S # {}
  <2>1. a \in a..Len(segs)
    BY <1>1
  <2> QED
    BY <1>3, <2>1
<1>5. Len(r) = Cardinality(S) + 1
  BY <1>2, <1>4, JoinShape
<1>6. \A j \in S : /\ Place(S, j) + 1 \in 2..Len(r)
                  /\ r[Place(S, j) + 1] = segs[j]
  BY <1>2, <1>4, JoinShape
<1>7. \A j \in S : Place(S, j) = (j - a) + 1
  <2> SUFFICES ASSUME NEW j \in S PROVE Place(S, j) = (j - a) + 1
    OBVIOUS
  <2>1. {m \in S : m <= j} = a..j
    BY <1>1, <1>3
  <2>2. Cardinality(a..j) = (j - a) + 1
    BY <1>1, <1>3, FS_Interval
  <2> QED
    BY <2>1, <2>2 DEF Place
<1>8. Len(r) = (Len(segs) - a) + 2
  <2>1. Cardinality(a..Len(segs)) = (Len(segs) - a) + 1
    BY <1>1, FS_Interval
  <2> QED
    BY <1>1, <1>3, <1>5, <2>1
<1>9. ASSUME NEW n \in 2..Len(r) PROVE r[n] = segs[n + (a - 2)]
  <2>1. n + (a - 2) \in a..Len(segs)
    BY <1>1, <1>8
  <2>2. PICK j \in S : j = n + (a - 2)
    BY <1>3, <2>1
  <2>3. ((j - a) + 1) + 1 = n
    BY <1>1, <2>2
  <2> QED
    BY <1>6, <1>7, <2>2, <2>3
<1> QED
  BY <1>8, <1>9

(* Without the region, a path whose other segments are not empty moves up  *)
(* by one.                                                                 *)
LEMMA RegionDropped ==
  ASSUME NEW T, Blank \in T, NEW q \in Seq(T), Len(q) >= 3, q[1] = Blank,
         \A n \in 3..Len(q) : q[n] # Blank,
         NEW r, r = JoinPath([q EXCEPT ![2] = Blank])
  PROVE  Len(r) = Len(q) - 1 /\ \A n \in 2..(Len(q) - 1) : r[n] = q[n + 1]
<1>1. Len(q) \in Nat /\ 1 \in 1..Len(q) /\ 2 \in 1..Len(q) /\ 3 \in 1..Len(q)
  BY FilledFacts
<1>2. PICK bare : bare = [q EXCEPT ![2] = Blank]
  OBVIOUS
<1>3. /\ bare \in Seq(T) /\ Len(bare) = Len(q) /\ bare[2] = Blank
      /\ \A j \in 1..Len(q) : j # 2 => bare[j] = q[j]
  BY <1>1, <1>2, Put
<1>4. FilledFrom(bare, 3)
  <2>1. bare[1] = Blank
    BY <1>1, <1>3
  <2>2. \A j \in 1..Len(q) : j = 1 \/ j = 2 \/ (j >= 3 /\ j # 2 /\ j \in 3..Len(q))
    BY <1>1
  <2> QED
    BY <1>3, <2>1, <2>2 DEF FilledFrom
<1>5. PICK a \in 1..Len(bare) : a = 3
  BY <1>1, <1>3
<1>6. /\ Len(r) = (Len(bare) - a) + 2
      /\ \A n \in 2..Len(r) : r[n] = bare[n + (a - 2)]
  <2>1. FilledFrom(bare, a) /\ r = JoinPath(bare)
    BY <1>2, <1>4, <1>5
  <2>2. Len(r) = (Len(bare) - a) + 2
    BY <1>3, <2>1, JoinEnd
  <2>3. \A n \in 2..Len(r) : r[n] = bare[n + (a - 2)]
    BY <1>3, <2>1, JoinEnd
  <2> QED
    BY <2>2, <2>3
<1>7. Len(r) = Len(q) - 1
  BY <1>1, <1>3, <1>5, <1>6
<1>8. ASSUME NEW n \in 2..(Len(q) - 1) PROVE r[n] = q[n + 1]
  <2>1. n \in 2..Len(r) /\ n + (a - 2) = n + 1 /\ n + 1 \in 1..Len(q) /\ n + 1 # 2
    BY <1>1, <1>5, <1>7
  <2> QED
    BY <1>3, <1>6, <2>1
<1> QED
  BY <1>7, <1>8

(* A label selector is set on lists only, whatever the path and the map    *)
(* (lines 199-224).                                                        *)
THEOREM ListsOnly == Spec => []SelectorOnListsOnly
<1>1. IInv => SelectorOnListsOnly
  <2> SUFFICES ASSUME IInv, pc = "forwarded", selector # request.selector
               PROVE  \E n \in 1..Len(parts) :
                         /\ parts[n] = Namespaces
                         /\ n + 2 = Len(parts) /\ parts[n + 2] \in Labelled
    BY DEF SelectorOnListsOnly
  <2>1. PICK T : T = Segment \cup Namespace
    OBVIOUS
  <2>2. PICK q : q = Modified(request.path)
    OBVIOUS
  <2>3. /\ Blank \in T /\ q \in Seq(T) /\ Len(q) \in Nat /\ q[1] = Blank
        /\ \A n \in 3..Len(q) : q[n] # Blank
    <3>1. PICK p : p = request.path
      OBVIOUS
    <3>2. /\ Blank \in T /\ Namespace \subseteq T /\ p \in Seq(T) /\ Len(p) >= 2
          /\ p[1] = Blank
      BY <2>1, <3>1, PathFacts
    <3> QED
      BY <2>2, <3>1, <3>2, ModifiedShape
  <2>4. ~Panics(q) /\ Labels(q) /\ parts = Stripped(q)
    BY <2>2 DEF IInv, MatchesReference
  <2>5. PICK n \in Looked(q) : ~Named(q, n) /\ q[n + 2] \in Labelled
    BY <2>4 DEF Labels
  <2>6. ~(n + 2 > Len(q))
    BY <2>4 DEF Panics
  <2>7. /\ n \in 3..Len(q) /\ q[n] = Namespaces
        /\ \A m \in Looked(q) : m \in 3..Len(q) /\ (m < n => ~Named(q, m))
    BY DEF Looked
  <2>8. Len(q) = n + 2
    <3>1. ~(Len(q) >= n + 3)
      <4>1. Len(q) >= n + 3 => n + 3 \in 3..Len(q)
        BY <2>3, <2>7
      <4> QED
        BY <2>3, <2>5, <4>1 DEF Named
    <3> QED
      BY <2>3, <2>6, <2>7, <3>1
  <2>9. \A m \in Looked(q) : ~Named(q, m)
    <3>1. \A m \in Looked(q) : Len(q) >= m + 3 => m < n
      BY <2>3, <2>7, <2>8
    <3> QED
      BY <2>7, <3>1 DEF Named
  <2>10. parts = JoinPath([q EXCEPT ![2] = Blank])
    <3>1. {m \in Looked(q) : /\ Named(q, m) /\ q[m + 2] = Clusters
                             /\ q[m + 3] = AllMark} = {}
      BY <2>9
    <3> QED
      BY <2>4, <3>1 DEF Stripped
  <2>11. /\ Len(parts) = Len(q) - 1
         /\ \A m \in 2..(Len(q) - 1) : parts[m] = q[m + 1]
    <3>1. Len(q) >= 3
      BY <2>3, <2>7
    <3> QED
      BY <2>3, <2>10, <3>1, RegionDropped
  <2>12. /\ n - 1 \in 1..Len(parts) /\ (n - 1) + 2 = Len(parts)
         /\ n - 1 \in 2..(Len(q) - 1) /\ (n - 1) + 2 \in 2..(Len(q) - 1)
         /\ (n - 1) + 1 = n /\ ((n - 1) + 2) + 1 = n + 2
    BY <2>3, <2>7, <2>8, <2>11
  <2>13. parts[n - 1] = Namespaces /\ parts[(n - 1) + 2] \in Labelled
    BY <2>5, <2>7, <2>11, <2>12
  <2> QED
    BY <2>12, <2>13
<1> QED
  BY <1>1, Inductive, PTL

-----------------------------------------------------------------------------
(***************************************************************************)
(* What the reference leaves alone.                                        *)
(***************************************************************************)
(* A growing map keeps the order of what it maps.                          *)
Growing(A, g) == \A x, y \in A : x < y => g[x] < g[y]

LEMMA GrowingOnto ==
  ASSUME NEW A \in SUBSET Nat, IsFiniteSet(A), NEW B \in SUBSET Nat,
         NEW g \in [A -> B], Growing(A, g), \A z \in B : \E x \in A : g[x] = z
  PROVE  /\ IsFiniteSet(B) /\ Cardinality(B) = Cardinality(A)
         /\ \A x, y \in A : g[x] <= g[y] => x <= y
         /\ \A x, y \in A : x <= y => g[x] <= g[y]
<1>1. \A x, y \in A : x \in Nat /\ y \in Nat /\ g[x] \in Nat /\ g[y] \in Nat
  OBVIOUS
<1>2. \A x, y \in A : g[x] <= g[y] => x <= y
  BY <1>1 DEF Growing
<1>3. \A x, y \in A : x <= y => g[x] <= g[y]
  <2> SUFFICES ASSUME NEW x \in A, NEW y \in A, x <= y PROVE g[x] <= g[y]
    OBVIOUS
  <2>1. x < y \/ x = y
    BY <1>1
  <2>2. x < y => g[x] < g[y]
    BY DEF Growing
  <2> QED
    BY <1>1, <2>1, <2>2
<1>4. \A x, y \in A : g[x] = g[y] => x = y
  <2>1. \A x, y \in A : g[x] = g[y] => g[x] <= g[y] /\ g[y] <= g[x]
    BY <1>1
  <2>2. \A x, y \in A : x <= y /\ y <= x => x = y
    BY <1>1
  <2> QED
    BY <1>2, <2>1, <2>2
<1>5. g \in Injection(A, B)
  BY <1>4 DEF Injection, IsInjective
<1>6. g \in Surjection(A, B)
  BY DEF Surjection
<1>7. ExistsBijection(A, B)
  BY <1>5, <1>6 DEF ExistsBijection, Bijection
<1> QED
  BY <1>2, <1>3, <1>7, FS_Bijection

LEMMA GrowingNth ==
  ASSUME NEW A \in SUBSET Nat, IsFiniteSet(A), NEW B \in SUBSET Nat,
         NEW g \in [A -> B], Growing(A, g), \A z \in B : \E x \in A : g[x] = z
  PROVE  \A n \in 1..Cardinality(A) : Nth(A, n) \in A /\ Nth(B, n) = g[Nth(A, n)]
<1>1. IsFiniteSet(B) /\ \A x, y \in A : g[x] <= g[y] <=> x <= y
  BY GrowingOnto
<1>2. \A n \in 1..Cardinality(A) : Nth(A, n) \in A /\ Place(A, Nth(A, n)) = n
  BY NthFacts
<1>3. \A y \in B : Nth(B, Place(B, y)) = y
  BY <1>1, NthFacts
<1>4. ASSUME NEW x \in A PROVE Place(B, g[x]) = Place(A, x)
  <2>1. PICK U : U = {m \in A : m <= x}
    OBVIOUS
  <2>2. PICK V : V = {m \in B : m <= g[x]}
    OBVIOUS
  <2>3. PICK h : h = [m \in U |-> g[m]]
    OBVIOUS
  <2>4. U \in SUBSET A /\ U \in SUBSET Nat /\ IsFiniteSet(U) /\ V \in SUBSET Nat
    BY <2>1, <2>2, FS_Subset
  <2>5. \A m \in U : h[m] = g[m] /\ g[m] \in V
    <3>1. \A m \in U : m \in A /\ m <= x
      BY <2>1
    <3> QED
      BY <1>1, <2>2, <2>3, <3>1
  <2>6. h \in [U -> V]
    BY <2>3, <2>5
  <2>7. Growing(U, h)
    BY <2>4, <2>5 DEF Growing
  <2>8. \A z \in V : \E m \in U : h[m] = z
    <3> SUFFICES ASSUME NEW z \in V PROVE \E m \in U : h[m] = z
      OBVIOUS
    <3>1. z \in B /\ z <= g[x]
      BY <2>2
    <3>2. PICK m \in A : g[m] = z
      BY <3>1
    <3>3. m \in U
      BY <1>1, <2>1, <3>1, <3>2
    <3> QED
      BY <2>5, <3>2, <3>3
  <2>9. Cardinality(V) = Cardinality(U)
    BY <2>4, <2>6, <2>7, <2>8, GrowingOnto
  <2> QED
    BY <2>1, <2>2, <2>9 DEF Place
<1> SUFFICES ASSUME NEW n \in 1..Cardinality(A)
             PROVE  Nth(A, n) \in A /\ Nth(B, n) = g[Nth(A, n)]
  OBVIOUS
<1>5. PICK x \in A : x = Nth(A, n) /\ Place(A, x) = n
  BY <1>2
<1>6. Nth(B, Place(B, g[x])) = g[x]
  BY <1>3
<1> QED
  BY <1>4, <1>5, <1>6

(* What is left of a sequence of which the segments at S are emptied.      *)
LEMMA WithoutFacts ==
  ASSUME NEW T, Blank \in T, NEW s \in Seq(T), NEW S, NEW w, w = Without(s, S)
  PROVE  /\ w \in Seq(T) /\ Len(w) = Len(s)
         /\ \A n \in 1..Len(s) : w[n] = IF n \in S THEN Blank ELSE s[n]
         /\ Filled(w) = Filled(s) \ S
<1>1. /\ Len(s) \in Nat /\ DOMAIN s = 1..Len(s) /\ \A n \in 1..Len(s) : s[n] \in T
      /\ \A j : j \in Filled(s) <=> j \in 1..Len(s) /\ s[j] # Blank
  BY FilledFacts
<1>2. w = [n \in 1..Len(s) |-> IF n \in S THEN Blank ELSE s[n]]
  BY <1>1 DEF Without
<1>3. \A n \in 1..Len(s) : (IF n \in S THEN Blank ELSE s[n]) \in T
  BY <1>1
<1>4. w \in Seq(T) /\ Len(w) = Len(s)
  BY <1>1, <1>2, <1>3
<1>5. \A n \in 1..Len(s) : w[n] = IF n \in S THEN Blank ELSE s[n]
  BY <1>2
<1>6. \A j : j \in Filled(w) <=> j \in 1..Len(s) /\ w[j] # Blank
  BY <1>4, FilledFacts
<1>7. \A j : j \in Filled(w) <=> j \in Filled(s) \ S
  BY <1>1, <1>5, <1>6
<1> QED
  BY <1>4, <1>5, <1>7

(* Emptying segments of a joined path and joining it again leaves what     *)
(* emptying them before the first join leaves.                             *)
LEMMA JoinTwice ==
  ASSUME NEW T, Blank \in T, NEW s \in Seq(T), NEW F, F = Filled(s), F # {},
         NEW q, q = JoinPath(s), NEW D, NEW X,
         X = {Nth(F, j - 1) : j \in D \cap (2..Len(q))}
  PROVE  JoinPath(Without(q, D)) = JoinPath(Without(s, X))
<1>1. /\ F \in SUBSET Nat /\ IsFiniteSet(F)
      /\ \A j \in F : s[j] # Blank
  BY FilledFacts
<1>2. /\ q \in Seq(T) /\ Len(q) \in Nat /\ q[1] = Blank
      /\ \A n \in 2..Len(q) : /\ Nth(F, n - 1) \in F
                              /\ Place(F, Nth(F, n - 1)) = n - 1
                              /\ q[n] = s[Nth(F, n - 1)]
      /\ \A j \in F : Place(F, j) + 1 \in 2..Len(q)
  BY JoinShape
<1>3. PICK u : u = Without(q, D)
  OBVIOUS
<1>4. PICK v : v = Without(s, X)
  OBVIOUS
<1>5. PICK A : A = Filled(u)
  OBVIOUS
<1>6. PICK B : B = Filled(v)
  OBVIOUS
<1>7. /\ u \in Seq(T) /\ A = Filled(q) \ D
      /\ \A n \in 1..Len(q) : n \notin D => u[n] = q[n]
  BY <1>2, <1>3, <1>5, WithoutFacts
<1>8. /\ v \in Seq(T) /\ B = F \ X /\ \A n \in 1..Len(s) : n \notin X => v[n] = s[n]
  BY <1>4, <1>6, WithoutFacts
<1>9. \A j : j \in A <=> j \in 2..Len(q) /\ j \notin D
  <2>1. \A j : j \in Filled(q) <=> j \in 1..Len(q) /\ q[j] # Blank
    BY <1>2, FilledFacts
  <2>2. \A j \in 1..Len(q) : j = 1 \/ j \in 2..Len(q)
    BY <1>2
  <2>3. \A j \in 2..Len(q) : j \in 1..Len(q)
    BY <1>2
  <2>4. \A j \in 2..Len(q) : q[j] # Blank
    BY <1>1, <1>2
  <2>5. A = Filled(q) \ D /\ q[1] = Blank
    BY <1>2, <1>7
  <2> QED
    BY <2>1, <2>2, <2>3, <2>4, <2>5
<1>10. A \in SUBSET Nat /\ IsFiniteSet(A) /\ B \in SUBSET Nat
  <2>1. B \in SUBSET F
    BY <1>8
  <2>2. Filled(u) \in SUBSET Nat /\ IsFiniteSet(Filled(u))
    <3>1. u \in Seq(T)
      BY <1>7
    <3> QED
      BY <3>1, FilledFacts
  <2> QED
    BY <1>1, <1>5, <2>1, <2>2
<1>11. PICK g : g = [j \in A |-> Nth(F, j - 1)]
  OBVIOUS
<1>12. ASSUME NEW j \in A
       PROVE  /\ g[j] \in B /\ g[j] \in F /\ Place(F, g[j]) = j - 1 /\ j \in Nat
              /\ u[j] = v[g[j]]
  <2>1. j \in 2..Len(q) /\ j \notin D /\ j \in 1..Len(q) /\ j \in Nat
    BY <1>2, <1>9
  <2>2. g[j] = Nth(F, j - 1) /\ g[j] \in F /\ Place(F, g[j]) = j - 1 /\ q[j] = s[g[j]]
    BY <1>2, <1>11, <2>1
  <2>3. g[j] \notin X
    <3> SUFFICES ASSUME NEW k \in D \cap (2..Len(q)), g[j] = Nth(F, k - 1) PROVE FALSE
      OBVIOUS
    <3>1. k - 1 = j - 1
      BY <1>2, <2>2
    <3>2. k = j
      BY <1>2, <2>1, <3>1
    <3> QED
      BY <2>1, <3>2
  <2>4. g[j] \in 1..Len(s)
    BY <2>2, FilledFacts
  <2> QED
    BY <1>7, <1>8, <2>1, <2>2, <2>3, <2>4
<1>13. g \in [A -> B]
  BY <1>11, <1>12
<1>14. Growing(A, g)
  <2> SUFFICES ASSUME NEW x \in A, NEW y \in A, x < y PROVE g[x] < g[y]
    BY DEF Growing
  <2>1. /\ g[x] \in F /\ g[y] \in F /\ Place(F, g[x]) = x - 1 /\ Place(F, g[y]) = y - 1
        /\ x \in Nat /\ y \in Nat
    BY <1>12
  <2>2. g[y] < g[x] => Place(F, g[y]) < Place(F, g[x])
    BY <1>1, <2>1, PlaceGrows
  <2>3. ~(g[y] < g[x]) /\ g[x] # g[y]
    BY <2>1, <2>2
  <2>4. g[x] \in Nat /\ g[y] \in Nat
    BY <1>1, <2>1
  <2> QED
    BY <2>3, <2>4
<1>15. \A z \in B : \E x \in A : g[x] = z
  <2> SUFFICES ASSUME NEW z \in B PROVE \E x \in A : g[x] = z
    OBVIOUS
  <2>1. z \in F /\ z \notin X
    BY <1>8
  <2>2. PICK j : j = Place(F, z) + 1
    OBVIOUS
  <2>3. j \in 2..Len(q) /\ j - 1 = Place(F, z)
    <3>1. Place(F, z) \in 1..Cardinality(F) /\ Cardinality(F) \in Nat
      BY <1>1, <2>1, PlaceGrows
    <3> QED
      BY <1>2, <2>1, <2>2, <3>1
  <2>4. Nth(F, j - 1) = z
    BY <1>1, <2>1, <2>3, NthFacts
  <2>5. j \notin D
    BY <2>1, <2>3, <2>4
  <2>6. j \in A
    BY <1>9, <2>3, <2>5
  <2> QED
    BY <1>11, <2>4, <2>6
<1>16. Cardinality(A) = Cardinality(B)
  BY <1>10, <1>13, <1>14, <1>15, GrowingOnto
<1>17. \A n \in 1..Cardinality(A) : Nth(A, n) \in A /\ Nth(B, n) = g[Nth(A, n)]
  BY <1>10, <1>13, <1>14, <1>15, GrowingNth
<1>18. \A n \in 1..Cardinality(A) : u[Nth(A, n)] = v[Nth(B, n)]
  BY <1>12, <1>17
<1>19. A = {} <=> B = {}
  BY <1>12, <1>15
<1>20. Part(u, A) = Part(v, B)
  BY <1>16, <1>18 DEF Part
<1>21. JoinPath(u) = JoinPath(v)
  BY <1>5, <1>6, <1>19, <1>20 DEF JoinPath
<1> QED
  BY <1>3, <1>4, <1>21

(* At most one marker goes.                                                *)
LEMMA MarkedOne ==
  ASSUME NEW T, NEW q \in Seq(T), Marked(q) # {}
  PROVE  \E x \in 3..Len(q) : Marked(q) = {x} /\ x + 3 \in 3..Len(q)
<1>1. Len(q) \in Nat
  BY FilledFacts
<1>2. PICK x : x \in Marked(q)
  OBVIOUS
<1>3. \A y \in Marked(q) : /\ y \in 3..Len(q) /\ Len(q) >= y + 3 /\ Named(q, y)
                          /\ \A z \in Marked(q) : z < y => ~Named(q, z)
  BY DEF Marked, Looked, Named
<1>4. \A y \in Marked(q) : y = x
  <2>1. \A y \in Marked(q) : ~(y < x) /\ ~(x < y) /\ y \in 3..Len(q)
    BY <1>2, <1>3
  <2> QED
    BY <1>1, <1>2, <2>1
<1>5. x \in 3..Len(q) /\ x + 3 \in 3..Len(q)
  BY <1>1, <1>2, <1>3
<1> QED
  BY <1>2, <1>4, <1>5

(* What the second loop makes of a path that the first has joined: it     *)
(* takes off the first segment that is left, and a marker at most.         *)
LEMMA StrippedOnce ==
  ASSUME NEW T, Blank \in T, NEW s \in Seq(T), NEW F, F = Filled(s),
         NEW q, q = JoinPath(s)
  PROVE  \E marker \in {{}} \cup {{m} : m \in Markers(s)} :
            Stripped(q) = JoinPath(Without(s, FirstOf(F) \cup marker))
<1>1. q \in Seq(T) /\ Len(q) \in Nat /\ Len(q) >= 2 /\ q[1] = Blank
  BY JoinShape
<1>2. /\ F \in SUBSET Nat /\ IsFiniteSet(F) /\ Cardinality(F) \in Nat
  BY FilledFacts
<1>3. PICK cut : cut = [q EXCEPT ![2] = Blank]
  OBVIOUS
<1>4. 2 \in 1..Len(q) /\ 1 \in 1..Len(q)
  BY <1>1
<1>5. /\ Len(cut) = Len(q) /\ cut[2] = Blank
      /\ \A j \in 1..Len(q) : j # 2 => cut[j] = q[j]
  BY <1>1, <1>3, <1>4, Put
<1> PICK segs \in Seq(T) : Stripped(q) = JoinPath(segs) /\ Erased(q, cut, segs)
  BY <1>1, <1>3, StrippedIs
<1>6. /\ Len(segs) = Len(q)
      /\ \A n \in 1..Len(q) : segs[n] = IF n - 3 \in Marked(q) THEN Blank ELSE cut[n]
  BY DEF Erased
<1>7. PICK D : D = {2} \cup {x + 3 : x \in Marked(q)}
  OBVIOUS
<1>8. \A x \in Marked(q) : x \in 3..Len(q)
  BY DEF Marked, Looked
<1>9. \A n \in 1..Len(q) : n \in D <=> n = 2 \/ n - 3 \in Marked(q)
  <2> SUFFICES ASSUME NEW n \in 1..Len(q)
               PROVE  (\E x \in Marked(q) : n = x + 3) <=> n - 3 \in Marked(q)
    BY <1>7
  <2>1. \A x \in Marked(q) : n = x + 3 => x = n - 3
    BY <1>1, <1>8
  <2>2. n - 3 \in Marked(q) => n = (n - 3) + 3
    BY <1>1
  <2> QED
    BY <2>1, <2>2
<1>10. PICK u : u = Without(q, D)
  OBVIOUS
<1>11. /\ u \in Seq(T) /\ Len(u) = Len(q)
       /\ \A n \in 1..Len(q) : u[n] = IF n \in D THEN Blank ELSE q[n]
  BY <1>1, <1>10, WithoutFacts
<1>12. \A n \in 1..Len(q) : segs[n] = u[n]
  BY <1>5, <1>6, <1>9, <1>11
<1>13. segs = u
  BY <1>6, <1>11, <1>12, SeqEqual
<1>14. CASE F = {}
  <2>1. q = <<Blank, Blank>>
    BY <1>14 DEF JoinPath
  <2>2. Filled(q) = {}
    BY <2>1 DEF Filled
  <2>3. Filled(u) = {}
    BY <1>1, <1>10, <2>2, WithoutFacts
  <2>4. PICK v : v = Without(s, FirstOf(F) \cup {})
    OBVIOUS
  <2>5. Filled(v) = {}
    <3>1. Filled(v) = F \ (FirstOf(F) \cup {})
      BY <2>4, WithoutFacts
    <3> QED
      BY <1>14, <3>1
  <2>6. JoinPath(u) = JoinPath(v)
    BY <2>3, <2>5 DEF JoinPath
  <2>7. {} \in {{}} \cup {{m} : m \in Markers(s)}
    OBVIOUS
  <2> QED
    BY <1>13, <2>4, <2>6, <2>7
<1>15. CASE F # {}
  <2>1. \A n \in 2..Len(q) : /\ Nth(F, n - 1) \in F
                             /\ Place(F, Nth(F, n - 1)) = n - 1
                             /\ q[n] = s[Nth(F, n - 1)]
    BY <1>15, JoinShape
  <2>2. PICK X : X = {Nth(F, j - 1) : j \in D \cap (2..Len(q))}
    OBVIOUS
  <2>3. JoinPath(u) = JoinPath(Without(s, X))
    BY <1>10, <1>15, <2>2, JoinTwice
  <2>4. FirstOf(F) = {Nth(F, 1)}
    <3>1. 2 \in 2..Len(q) /\ 2 - 1 = 1
      BY <1>1
    <3>2. PICK x \in F : x = Nth(F, 1) /\ Place(F, x) = 1
      BY <2>1, <3>1
    <3>3. \A y \in F : x <= y
      <4> SUFFICES ASSUME NEW y \in F PROVE x <= y
        OBVIOUS
      <4>1. Place(F, y) \in 1..Cardinality(F) /\ (y < x => Place(F, y) < Place(F, x))
        BY <1>2, PlaceGrows
      <4>2. x \in Nat /\ y \in Nat
        BY <1>2
      <4> QED
        BY <1>2, <3>2, <4>1, <4>2
    <3>4. \A y \in FirstOf(F) : y \in F /\ y <= x
      BY DEF FirstOf
    <3>5. x \in FirstOf(F)
      BY <3>3 DEF FirstOf
    <3>6. \A y \in FirstOf(F) : y = x
      <4>1. \A y \in FirstOf(F) : y \in Nat /\ x \in Nat /\ x <= y /\ y <= x
        BY <1>2, <3>3, <3>4
      <4> QED
        BY <4>1
    <3> QED
      BY <3>2, <3>5, <3>6
  <2>5. CASE Marked(q) = {}
    <3>1. D \cap (2..Len(q)) = {2}
      BY <1>1, <1>7, <2>5
    <3>2. X = {Nth(F, 2 - 1)}
      BY <2>2, <3>1
    <3>3. X = FirstOf(F) \cup {}
      BY <2>4, <3>2
    <3> QED
      BY <1>13, <2>3, <3>3
  <2>6. CASE Marked(q) # {}
    <3>1. PICK x \in 3..Len(q) : Marked(q) = {x} /\ x + 3 \in 3..Len(q)
      BY <1>1, <2>6, MarkedOne
    <3>2. D \cap (2..Len(q)) = {2, x + 3}
      <4>1. x + 3 \in 2..Len(q) /\ 2 \in 2..Len(q)
        BY <1>1, <3>1
      <4>2. D = {2, x + 3}
        BY <1>7, <3>1
      <4> QED
        BY <4>1, <4>2
    <3>3. X = {Nth(F, 2 - 1), Nth(F, (x + 3) - 1)}
      BY <2>2, <3>2
    <3>4. PICK m : m = Nth(F, (x + 3) - 1)
      OBVIOUS
    <3>5. X = FirstOf(F) \cup {m}
      BY <2>4, <3>3, <3>4
    <3>6. x + 2 \in 2..Len(q) /\ x + 3 \in 2..Len(q) /\ x \in Nat
      BY <1>1, <3>1
    <3>7. q[x + 2] = Clusters /\ q[x + 3] = AllMark
      BY <3>1 DEF Marked
    <3>8. m \in F /\ s[m] = AllMark /\ Place(F, m) = x + 2
      <4>1. (x + 3) - 1 = x + 2
        BY <3>6
      <4> QED
        BY <2>1, <3>4, <3>6, <3>7, <4>1
    <3>9. PICK k : k = Nth(F, (x + 2) - 1)
      OBVIOUS
    <3>10. k \in F /\ s[k] = Clusters /\ Place(F, k) = x + 1
      <4>1. (x + 2) - 1 = x + 1
        BY <3>6
      <4> QED
        BY <2>1, <3>6, <3>7, <3>9, <4>1
    <3>11. \A j \in F : /\ j \in Nat /\ Place(F, j) \in Nat
                        /\ \A y \in F : j < y => Place(F, j) < Place(F, y)
      <4>1. \A j \in F : /\ Place(F, j) \in 1..Cardinality(F)
                         /\ \A y \in F : j < y => Place(F, j) < Place(F, y)
        BY <1>2, PlaceGrows
      <4> QED
        BY <1>2, <4>1
    <3>12. k < m
      <4>1. ~(m < k) /\ k # m
        BY <3>6, <3>8, <3>10, <3>11
      <4> QED
        BY <3>8, <3>10, <3>11, <4>1
    <3>13. \A j \in F : j <= k \/ m <= j
      <4> SUFFICES ASSUME NEW j \in F, k < j, j < m PROVE FALSE
        BY <3>8, <3>10, <3>11
      <4>1. Place(F, k) < Place(F, j) /\ Place(F, j) < Place(F, m) /\ Place(F, j) \in Nat
        BY <3>8, <3>10, <3>11
      <4> QED
        BY <3>6, <3>8, <3>10, <4>1
    <3>14. m \in Markers(s)
      BY <3>8, <3>10, <3>12, <3>13 DEF Markers
    <3>15. {m} \in {{}} \cup {{n} : n \in Markers(s)}
      BY <3>14
    <3> QED
      BY <1>13, <2>3, <3>5, <3>15
  <2> QED
    BY <2>5, <2>6
<1> QED
  BY <1>14, <1>15

(* The first loop takes the suffix off, replaces the namespace and joins   *)
(* the path.                                                               *)
Tenant(p) == {m \in FirstOf(Filled(p)) : p[m] # ApiTok}

Came(p) == LET bare == Without(p, Tenant(p))
           IN IF FirstNamespaces(p) > 0 /\ SuffixOf(p) \in DOMAIN Mapping
              THEN [bare EXCEPT ![FirstNamespaces(p) + 1] = Mapping[SuffixOf(p)]]
              ELSE bare

LEMMA ModifiedOnce ==
  ASSUME NEW T, Blank \in T, Namespace \subseteq T, NEW p \in Seq(T)
  PROVE  Came(p) \in Seq(T) /\ Modified(p) = JoinPath(Came(p))
<1>1. PICK F : F = Filled(p)
  OBVIOUS
<1>2. /\ Len(p) \in Nat /\ F \in SUBSET Nat /\ IsFiniteSet(F) /\ DOMAIN p = 1..Len(p)
      /\ \A j : j \in F <=> j \in 1..Len(p) /\ p[j] # Blank
  BY <1>1, FilledFacts
<1>3. PICK bare : bare = Without(p, Tenant(p))
  OBVIOUS
<1>4. /\ bare \in Seq(T) /\ Len(bare) = Len(p)
      /\ \A j \in 1..Len(p) : bare[j] = IF j \in Tenant(p) THEN Blank ELSE p[j]
  BY <1>3, WithoutFacts
<1>5. bare = Bare(p)
  <2>1. CASE F = {} \/ p[Min(F)] = ApiTok
    <3>1. Bare(p) = p
      BY <1>1, <2>1 DEF Bare, SuffixOf
    <3>2. Tenant(p) = {}
      <4> SUFFICES ASSUME NEW m \in FirstOf(F), p[m] # ApiTok PROVE FALSE
        BY <1>1 DEF Tenant
      <4>1. m \in F /\ \A y \in F : m <= y
        BY DEF FirstOf
      <4>2. Min(F) = m
        BY <1>2, <4>1, MinIs
      <4> QED
        BY <2>1, <4>1, <4>2
    <3>3. \A j \in 1..Len(p) : bare[j] = p[j]
      BY <1>4, <3>2
    <3> QED
      BY <1>4, <3>1, <3>3, SeqEqual
  <2>2. CASE F # {} /\ p[Min(F)] # ApiTok
    <3>1. PICK a \in F : a = Min(F) /\ \A y \in F : a <= y
      BY <1>2, <2>2, MinIn
    <3>2. p[a] # Blank /\ a \in 1..Len(p) /\ SuffixOf(p) = p[a]
      BY <1>1, <1>2, <2>2, <3>1 DEF SuffixOf
    <3>3. Bare(p) = [p EXCEPT ![a] = Blank]
      BY <1>1, <3>1, <3>2 DEF Bare
    <3>4. Tenant(p) = {a}
      <4>1. a \in FirstOf(F)
        BY <3>1 DEF FirstOf
      <4>2. \A m \in FirstOf(F) : m \in F /\ m <= a /\ a <= m
        BY <3>1 DEF FirstOf
      <4>3. \A m \in FirstOf(F) : m = a
        <5>1. \A m \in FirstOf(F) : m \in Nat /\ a \in Nat
          BY <1>2, <4>2
        <5> QED
          BY <4>2, <5>1
      <4>4. FirstOf(F) = {a}
        BY <4>1, <4>3
      <4> QED
        BY <1>1, <2>2, <3>1, <4>4 DEF Tenant
    <3>5. PICK r : r = [p EXCEPT ![a] = Blank]
      OBVIOUS
    <3>6. /\ r \in Seq(T) /\ Len(r) = Len(p) /\ r[a] = Blank
          /\ \A j \in 1..Len(p) : j # a => r[j] = p[j]
      BY <3>2, <3>5, Put
    <3>7. \A j \in 1..Len(p) : bare[j] = r[j]
      BY <1>4, <3>4, <3>6
    <3>8. bare = r
      BY <1>4, <3>6, <3>7, SeqEqual
    <3> QED
      BY <3>3, <3>5, <3>8
  <2> QED
    BY <2>1, <2>2
<1>6. Modified(p) = JoinPath(Came(p))
  BY <1>3, <1>5 DEF Modified, Came
<1>7. Came(p) \in Seq(T)
  <2>1. CASE ~(FirstNamespaces(p) > 0 /\ SuffixOf(p) \in DOMAIN Mapping)
    BY <1>3, <1>4, <2>1 DEF Came
  <2>2. CASE FirstNamespaces(p) > 0 /\ SuffixOf(p) \in DOMAIN Mapping
    <3>1. PICK n : n = FirstNamespaces(p) + 1
      OBVIOUS
    <3>2. n \in 1..Len(bare)
      <4>1. FirstNamespaces(p) \in 1..(Len(p) - 1)
        BY <2>2, FirstNamespacesType
      <4> QED
        BY <1>2, <1>4, <3>1, <4>1
    <3>3. PICK ns \in T : ns = Mapping[SuffixOf(p)]
      BY <2>2 DEF Namespace
    <3>4. PICK r : r = [bare EXCEPT ![n] = ns]
      OBVIOUS
    <3>5. r \in Seq(T)
      BY <1>4, <3>2, <3>4, Put
    <3> QED
      BY <1>3, <2>2, <3>1, <3>3, <3>4, <3>5 DEF Came
  <2> QED
    BY <2>1, <2>2
<1> QED
  BY <1>6, <1>7

(* Of every path, whatever its empty segments, and for every map, exactly  *)
(* the suffix, the region and at most a marker go, and nothing but the     *)
(* namespace after the first "namespaces" is replaced (lines 158-241).     *)
THEOREM RestKept == Spec => []OnlyTenantPartsChange
<1>1. IInv => OnlyTenantPartsChange
  <2> SUFFICES ASSUME IInv, pc = "forwarded" PROVE OnlyTenantPartsChange
    BY DEF OnlyTenantPartsChange
  <2>1. PICK p : p = request.path
    OBVIOUS
  <2>2. PICK T : T = Segment \cup Namespace
    OBVIOUS
  <2>3. Blank \in T /\ Namespace \subseteq T /\ p \in Seq(T)
    BY <2>1, <2>2, PathFacts
  <2>4. PICK came : came = Came(p)
    OBVIOUS
  <2>5. came \in Seq(T) /\ Modified(p) = JoinPath(came)
    BY <2>3, <2>4, ModifiedOnce
  <2>6. parts = Stripped(Modified(p))
    BY <2>1 DEF IInv, MatchesReference
  <2>7. \E marker \in {{}} \cup {{m} : m \in Markers(came)} :
           parts = JoinPath(Without(came, FirstOf(Filled(came)) \cup marker))
    BY <2>3, <2>5, <2>6, StrippedOnce
  <2> QED
    BY <2>1, <2>4, <2>7 DEF OnlyTenantPartsChange, Came, Tenant
<1> QED
  BY <1>1, Inductive, PTL

=============================================================================
