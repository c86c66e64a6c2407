---------------------------- MODULE OptionsProofs ----------------------------
(***************************************************************************)
(* Proofs about Options, for command lines of any length and any values:   *)
(* what the parse has built up step by step is what the arguments mean as  *)
(* a whole.                                                                *)
(***************************************************************************)
EXTENDS Options, FiniteSetTheorems, TLAPS

-----------------------------------------------------------------------------
(***************************************************************************)
(* The inductive invariant.                                                *)
(***************************************************************************)
(* While a list is being read, pairs holds the end of it.                  *)
Reading ==
  stage = "set" =>
    LET list == given[Len(given)].value
    IN  /\ given # <<>> /\ IsHeaders(given[Len(given)])
        /\ Len(pairs) <= Len(list)
        /\ \A j \in 1..Len(pairs) : pairs[j] = list[Len(list) - Len(pairs) + j]

(* The pairs the loop has visited.                                         *)
Seen == {s \in Pairs : stage = "set" /\ s[1] = Len(given) =>
                         s[2] <= Len(given[s[1]].value) - Len(pairs)}
SeenOf(k) == {s \in Seen : PairAt(s)[1] = k}

(* Under each key are the values of its pairs that were visited, in order. *)
Collected ==
  /\ extras \in [DOMAIN extras -> Seq(STRING)]
  /\ DOMAIN extras = {PairAt(s)[1] : s \in Seen}
  /\ \A k \in DOMAIN extras :
       /\ IsFiniteSet(SeenOf(k)) /\ Len(extras[k]) = Cardinality(SeenOf(k))
       /\ \A n \in 1..Len(extras[k]) :
            \E s \in SeenOf(k) : Rank(s) = n /\ extras[k][n] = PairAt(s)[2]

(* The other flags are those of the arguments.                             *)
Followed ==
  /\ \A f \in Scalars : scalars[f] = Given(f)
  /\ changed = {f \in ClientOptionFlags \cup OtherClientFlags : Places(f) # {}}

(* A flag that was given was given a last time.                            *)
LastGiven == \A f \in Scalars : Places(f) # {} =>
               \E m \in Places(f) : \A j \in Places(f) : j <= m

(* Until the process exits every argument and every pair visited was       *)
(* accepted; then no help was asked for, and after Validate no flags clash.*)
Accepted ==
  /\ stage # "exited" => /\ Readable /\ Followed /\ Collected
                         /\ \A s \in Seen : Len(PairAt(s)) = 2
  /\ stage \in {"validate", "build", "started"} => ~On("help")
  /\ stage \in {"build", "started"} => ~On("version") /\ ~Invalid
  /\ stage = "started" => config = ProxyConfig /\ jwt = JwtConfig /\ Usable

IInv == /\ TypeOK /\ pairs \in Seq(Seq(STRING) \ {<<>>}) /\ LastGiven
        /\ Reading /\ Accepted /\ ExitExplained

-----------------------------------------------------------------------------
(***************************************************************************)
(* What the arguments mean, and what one more argument changes.            *)
(***************************************************************************)
LEMMA LastIs ==
  ASSUME NEW S \in SUBSET Nat, NEW n \in S, \A m \in S : m <= n
  PROVE  Max(S) = n
<1>1. \A x \in S : (\A y \in S : x >= y) <=> x = n
  OBVIOUS
<1> QED
  BY <1>1 DEF Max

LEMMA AppendGiven ==
  ASSUME given \in Seq(Arguments), NEW a \in Arguments, given' = Append(given, a), LastGiven
  PROVE  LET n == Len(given) + 1
         IN  /\ Len(given') = n /\ DOMAIN given' = DOMAIN given \cup {n}
             /\ given'[n] = a /\ \A i \in DOMAIN given : given'[i] = given[i]
             /\ \A f : Places(f)' = Places(f) \cup (IF a.flag = f THEN {n} ELSE {})
             /\ Readable' <=> Readable /\ a.readable
             /\ \A f \in Scalars : Given(f)' = IF a.flag = f THEN a.value ELSE Given(f)
             /\ LastGiven'
<1> DEFINE n == Len(given) + 1
<1>1. /\ Len(given') = n /\ DOMAIN given' = DOMAIN given \cup {n} /\ n \notin DOMAIN given
      /\ given'[n] = a /\ \A i \in DOMAIN given : given'[i] = given[i] /\ i \in Nat /\ i < n
      /\ n \in Nat /\ DOMAIN given = 1..Len(given)
  OBVIOUS
<1> HIDE DEF n
<1>2. ASSUME NEW f PROVE Places(f)' = Places(f) \cup (IF a.flag = f THEN {n} ELSE {})
  BY <1>1 DEF Places
<1>3. Readable' <=> Readable /\ a.readable
  BY <1>1 DEF Readable
<1>4. ASSUME NEW f \in Scalars
      PROVE  Given(f)' = IF a.flag = f THEN a.value ELSE Given(f)
  <2>1. CASE a.flag = f
    <3>1. Places(f)' = Places(f) \cup {n} /\ Places(f) \subseteq DOMAIN given
      BY <1>2, <2>1 DEF Places
    <3>2. Max(Places(f)') = n
      BY <1>1, <3>1, LastIs
    <3>3. Places(f)' # {}
      BY <3>1
    <3>4. Given(f)' = given'[Max(Places(f)')].value
      BY <3>3 DEF Given, Max
    <3> QED
      BY <1>1, <2>1, <3>2, <3>4
  <2>2. CASE a.flag # f
    <3>1. Places(f)' = Places(f)
      BY <1>2, <2>2
    <3>2. CASE Places(f) = {}
      BY <2>2, <3>1, <3>2 DEF Given
    <3>3. CASE Places(f) # {}
      <4>1. Max(Places(f)) \in DOMAIN given
        <5>1. PICK m \in Places(f) : \A j \in Places(f) : j <= m
          BY <3>3 DEF LastGiven
        <5>2. Places(f) \in SUBSET Nat /\ Places(f) \subseteq DOMAIN given
          BY <1>1 DEF Places
        <5> QED
          BY <5>1, <5>2, LastIs
      <4>2. Given(f) = given[Max(Places(f))].value
        BY <3>3 DEF Given
      <4>3. Given(f)' = given'[Max(Places(f)')].value
        BY <3>1, <3>3 DEF Given, Max
      <4> QED
        BY <1>1, <2>2, <3>1, <4>1, <4>2, <4>3
    <3> QED
      BY <3>2, <3>3
  <2> QED
    BY <2>1, <2>2
<1>5. LastGiven'
  <2> SUFFICES ASSUME NEW f \in Scalars, Places(f)' # {}
               PROVE  \E m \in Places(f)' : \A j \in Places(f)' : j <= m
    BY DEF LastGiven
  <2>1. Places(f) \subseteq DOMAIN given
    BY DEF Places
  <2>2. CASE a.flag = f
    <3>1. Places(f)' = Places(f) \cup {n}
      BY <1>2, <2>2
    <3>2. n \in Places(f)' /\ \A j \in Places(f)' : j <= n
      BY <1>1, <2>1, <3>1
    <3> QED
      BY <3>2
  <2>3. CASE a.flag # f
    <3>1. Places(f)' = Places(f)
      BY <1>2, <2>3
    <3> QED
      BY <3>1 DEF LastGiven
  <2> QED
    BY <2>2, <2>3
<1> QED
  BY <1>1, <1>2, <1>3, <1>4, <1>5 DEF n

(* A list of headers that was read is one.                                 *)
LEMMA HeadersAreLists ==
  ASSUME NEW a \in Arguments, a.readable, IsHeaders(a)
  PROVE  a.value \in Seq(Seq(STRING) \ {<<>>})
  BY ArgumentsAssumption

(* The pairs of the arguments read so far.                                 *)
LEMMA PairsFacts ==
  ASSUME given \in Seq(Arguments), Readable
  PROVE  /\ \A s \in Pairs : /\ s = <<s[1], s[2]>> /\ s[1] \in 1..Len(given)
                             /\ IsHeaders(given[s[1]])
                             /\ s[2] \in 1..Len(given[s[1]].value)
                             /\ PairAt(s) \in Seq(STRING) \ {<<>>}
                             /\ Len(given[s[1]].value) \in Nat
                             /\ PairAt(s)[1] \in STRING
         /\ \A i \in DOMAIN given : \A j \in DOMAIN given[i].value :
              IsHeaders(given[i]) => <<i, j>> \in Pairs
<1>1. ASSUME NEW i \in DOMAIN given, IsHeaders(given[i])
      PROVE  given[i].value \in Seq(Seq(STRING) \ {<<>>})
  BY <1>1, HeadersAreLists DEF Readable
<1>2. ASSUME NEW s \in Pairs
      PROVE  /\ s = <<s[1], s[2]>> /\ s[1] \in 1..Len(given)
             /\ IsHeaders(given[s[1]])
             /\ s[2] \in 1..Len(given[s[1]].value)
             /\ PairAt(s) \in Seq(STRING) \ {<<>>}
             /\ Len(given[s[1]].value) \in Nat
             /\ PairAt(s)[1] \in STRING
  <2>1. PICK i \in Places("extra-user-headers") : s \in {i} \X DOMAIN given[i].value
    BY DEF Pairs
  <2>2. s = <<s[1], s[2]>> /\ s[1] = i /\ s[2] \in DOMAIN given[i].value
    BY <2>1
  <2>3. i \in DOMAIN given /\ IsHeaders(given[i])
    BY <2>1 DEF Places, IsHeaders
  <2>4. given[i].value \in Seq(Seq(STRING) \ {<<>>})
    BY <1>1, <2>3
  <2>5. PairAt(s) \in Seq(STRING) \ {<<>>}
    BY <2>2, <2>4 DEF PairAt
  <2>6. PairAt(s)[1] \in STRING
    BY <2>5
  <2> QED
    BY <2>2, <2>3, <2>4, <2>5, <2>6
<1>3. ASSUME NEW i \in DOMAIN given, NEW j \in DOMAIN given[i].value, IsHeaders(given[i])
      PROVE  <<i, j>> \in Pairs
  BY <1>3 DEF Pairs, Places, IsHeaders
<1> QED
  BY <1>2, <1>3

(* One more argument adds the pairs of its own list, behind all others.    *)
LEMMA AppendPairs ==
  ASSUME given \in Seq(Arguments), NEW a \in Arguments, given' = Append(given, a),
         LastGiven, Readable
  PROVE  LET n == Len(given) + 1
         IN  /\ Pairs' = Pairs \cup (IF IsHeaders(a) THEN {n} \X DOMAIN a.value ELSE {})
             /\ \A s \in Pairs : PairAt(s)' = PairAt(s) /\ Rank(s)' = Rank(s)
<1> DEFINE n   == Len(given) + 1
           new == IF IsHeaders(a) THEN {n} \X DOMAIN a.value ELSE {}
<1>1. /\ DOMAIN given' = DOMAIN given \cup {n} /\ DOMAIN given = 1..Len(given)
      /\ given'[n] = a /\ n \notin DOMAIN given
      /\ \A i \in DOMAIN given : given'[i] = given[i]
      /\ \A f : Places(f)' = Places(f) \cup (IF a.flag = f THEN {n} ELSE {})
  BY AppendGiven
<1>2. n \in Nat /\ \A i \in 1..Len(given) : i \in Nat /\ i < n
  OBVIOUS
<1> HIDE DEF n
<1>3. Pairs' = Pairs \cup new
  <2>1. Pairs' = UNION {{i} \X DOMAIN given'[i].value : i \in Places("extra-user-headers")'}
    BY DEF Pairs
  <2>2. \A i \in Places("extra-user-headers") : given'[i] = given[i]
    BY <1>1 DEF Places
  <2>3. Pairs = UNION {{i} \X DOMAIN given'[i].value : i \in Places("extra-user-headers")}
    BY <2>2 DEF Pairs
  <2>4. Places("extra-user-headers")'
          = Places("extra-user-headers") \cup (IF IsHeaders(a) THEN {n} ELSE {})
    BY <1>1 DEF IsHeaders
  <2>5. CASE IsHeaders(a)
    <3>1. Places("extra-user-headers")' = Places("extra-user-headers") \cup {n}
      BY <2>4, <2>5
    <3>2. Pairs' = Pairs \cup ({n} \X DOMAIN given'[n].value)
      BY <2>1, <2>3, <3>1
    <3> QED
      BY <1>1, <2>5, <3>2
  <2>6. CASE ~IsHeaders(a)
    BY <2>1, <2>3, <2>4, <2>6
  <2> QED
    BY <2>5, <2>6
<1>4. \A s \in Pairs : s[1] \in 1..Len(given) /\ PairAt(s)' = PairAt(s)
  BY <1>1, PairsFacts DEF PairAt
<1>5. \A t \in new : t[1] = n
  OBVIOUS
<1> HIDE DEF new
<1>6. ASSUME NEW s \in Pairs PROVE Rank(s)' = Rank(s)
  <2> DEFINE Upto(t) == t[1] < s[1] \/ (t[1] = s[1] /\ t[2] <= s[2])
  <2>1. \A t \in new : ~Upto(t)
    BY <1>2, <1>4, <1>5
  <2> HIDE DEF Upto
  <2>2. {t \in PairsOf(PairAt(s)[1])' : Upto(t)} = {t \in PairsOf(PairAt(s)[1]) : Upto(t)}
    BY <1>3, <1>4, <2>1 DEF PairsOf
  <2> QED
    BY <1>4, <2>2 DEF Rank, Upto
<1> QED
  BY <1>3, <1>4, <1>6 DEF n, new

(* Nothing of it depends on anything but the arguments.                    *)
LEMMA GivenSame ==
  ASSUME given' = given
  PROVE  /\ Pairs' = Pairs /\ (Readable' <=> Readable) /\ (WellFormed' <=> WellFormed)
         /\ \A s : PairAt(s)' = PairAt(s) /\ Rank(s)' = Rank(s)
         /\ \A f : Places(f)' = Places(f) /\ Given(f)' = Given(f)
         /\ (LastGiven' <=> LastGiven) /\ (usable' = usable => (Legal' <=> Legal))
<1>1. ASSUME NEW f PROVE Places(f)' = Places(f)
  BY DEF Places
<1>2. ASSUME NEW f PROVE Given(f)' = Given(f)
  <2>1. CASE Places(f) = {}
    BY <1>1, <2>1 DEF Given
  <2>2. CASE Places(f) # {}
    <3>1. Given(f)' = given'[Max(Places(f)')].value
      BY <1>1, <2>2 DEF Given, Max
    <3> QED
      BY <1>1, <2>2, <3>1 DEF Given
  <2> QED
    BY <2>1, <2>2
<1>3. Pairs' = Pairs
  BY <1>1 DEF Pairs
<1>4. ASSUME NEW s PROVE PairAt(s)' = PairAt(s) /\ Rank(s)' = Rank(s)
  BY <1>3 DEF PairAt, Rank, PairsOf
<1>5. Readable' <=> Readable
  BY DEF Readable
<1>6. WellFormed' <=> WellFormed
  BY <1>3, <1>4, <1>5 DEF WellFormed
<1>7. LastGiven' <=> LastGiven
  BY <1>1 DEF LastGiven
<1>8. usable' = usable => (Legal' <=> Legal)
  <2>1. GivenClient' = GivenClient
    BY <1>1 DEF GivenClient
  <2> QED
    BY <1>2, <1>3, <2>1 DEF Legal
<1> QED
  BY <1>1, <1>2, <1>3, <1>4, <1>5, <1>6, <1>7, <1>8

(* What was collected stays, when the pairs visited do.                    *)
LEMMA CollectedKept ==
  ASSUME Collected, \A s \in Seen : Len(PairAt(s)) = 2, extras' = extras, Seen' = Seen,
         \A s \in Seen : PairAt(s)' = PairAt(s) /\ Rank(s)' = Rank(s)
  PROVE  Collected' /\ \A s \in Seen' : Len(PairAt(s)') = 2
<1>1. ASSUME NEW k PROVE SeenOf(k)' = SeenOf(k) /\ SeenOf(k) \subseteq Seen
  BY DEF SeenOf
<1>2. {PairAt(s)[1] : s \in Seen}' = {PairAt(s)[1] : s \in Seen}
  OBVIOUS
<1>3. \A k \in DOMAIN extras :
        \A n \in 1..Len(extras[k]) :
           \E s \in SeenOf(k) : Rank(s)' = n /\ extras[k][n] = PairAt(s)'[2]
  BY <1>1 DEF Collected
<1>4. Collected'
  BY <1>1, <1>2, <1>3 DEF Collected
<1> QED
  BY <1>4
-----------------------------------------------------------------------------
(***************************************************************************)
(* Every step keeps the invariant.                                         *)
(***************************************************************************)
LEMMA InitIInv == Init => IInv
<1> SUFFICES ASSUME Init PROVE IInv
  OBVIOUS
<1>1. given = <<>> /\ DOMAIN given = {} /\ Len(given) = 0 /\ given \in Seq(Arguments)
  BY DEF Init
<1>2. \A f : Places(f) = {} /\ Given(f) = Defaults[f]
  BY <1>1 DEF Places, Given
<1>3. Pairs = {} /\ Seen = {} /\ Readable
  BY <1>1, <1>2 DEF Pairs, Seen, Readable
<1>4. DOMAIN extras = {} /\ extras \in [DOMAIN extras -> Seq(STRING)]
  BY DEF Init, Empty
<1>5. Collected
  BY <1>3, <1>4 DEF Collected
<1>6. Followed
  BY <1>2 DEF Followed, Init
<1>7. DOMAIN scalars = Scalars
  <2>1. scalars = Defaults
    BY DEF Init
  <2>2. DOMAIN Defaults = Scalars
    BY DEF Defaults
  <2> QED
    BY <2>1, <2>2
<1>8. TypeOK
  <2>1. args \in Seq(Arguments)
    BY ArgumentsAssumption DEF Init
  <2> QED
    BY <1>1, <1>4, <1>7, <2>1 DEF TypeOK, Init
<1>9. Accepted
  BY <1>3, <1>5, <1>6 DEF Accepted, Init
<1>10. Reading /\ ExitExplained /\ LastGiven /\ pairs \in Seq(Seq(STRING) \ {<<>>})
  BY <1>2 DEF Reading, ExitExplained, LastGiven, Init
<1> QED
  BY <1>8, <1>9, <1>10 DEF IInv

(* An argument that its flag accepts, before its effect on that flag.      *)
LEMMA ParseKeeps ==
  ASSUME IInv, NEW a \in Arguments, Parse(a), extras' = extras,
         \/ ~IsHeaders(a) /\ stage' = "parse" /\ pairs' = pairs
         \/ IsHeaders(a) /\ stage' = "set" /\ pairs' = a.value
  PROVE  /\ Readable' /\ Collected' /\ (\A s \in Seen' : Len(PairAt(s)') = 2)
         /\ LastGiven' /\ Reading' /\ pairs' \in Seq(Seq(STRING) \ {<<>>})
         /\ (\A f : Places(f)' = IF a.flag = f THEN Places(f) \cup {Len(given) + 1}
                                 ELSE Places(f))
         /\ (\A f \in Scalars : Given(f)' = IF a.flag = f THEN a.value ELSE Given(f))
         /\ given' \in Seq(Arguments)
<1> DEFINE n == Len(given) + 1
<1>1. /\ stage = "parse" /\ given \in Seq(Arguments) /\ given' = Append(given, a)
      /\ a.readable /\ LastGiven /\ Readable /\ Collected
      /\ \A s \in Seen : Len(PairAt(s)) = 2
      /\ pairs \in Seq(Seq(STRING) \ {<<>>})
  BY DEF Parse, NextIs, IInv, TypeOK, Accepted
<1>2. /\ Len(given') = n /\ given'[n] = a
      /\ \A f : Places(f)' = Places(f) \cup (IF a.flag = f THEN {n} ELSE {})
      /\ Readable' /\ LastGiven'
      /\ \A f \in Scalars : Given(f)' = IF a.flag = f THEN a.value ELSE Given(f)
  BY <1>1, AppendGiven
<1>3. /\ Pairs' = Pairs \cup (IF IsHeaders(a) THEN {n} \X DOMAIN a.value ELSE {})
      /\ \A s \in Pairs : PairAt(s)' = PairAt(s) /\ Rank(s)' = Rank(s)
  BY <1>1, AppendPairs
<1>4. given' \in Seq(Arguments)
  BY <1>1
<1>5. IsHeaders(a) => a.value \in Seq(Seq(STRING) \ {<<>>})
  BY <1>1, HeadersAreLists
<1>6. Seen = Pairs
  BY <1>1 DEF Seen
<1>7. \A s \in Pairs : s[1] # n
  BY <1>1, PairsFacts
<1>8. Seen' = Pairs
  <2>1. CASE ~IsHeaders(a)
    BY <1>3, <2>1 DEF Seen
  <2>2. CASE IsHeaders(a)
    <3>1. stage' = "set" /\ pairs' = a.value /\ Pairs' = Pairs \cup ({n} \X DOMAIN a.value)
      BY <1>3, <2>2
    <3>2. Len(a.value) \in Nat /\ DOMAIN a.value = 1..Len(a.value)
      BY <1>5, <2>2
    <3>3. ASSUME NEW s \in {n} \X DOMAIN a.value
          PROVE  s[1] = n /\ ~(s[2] <= Len(given'[s[1]].value) - Len(pairs'))
      <4>1. s[1] = n /\ s[2] \in 1..Len(a.value)
        BY <3>2
      <4>2. given'[s[1]] = a
        BY <1>2, <4>1
      <4> QED
        BY <3>1, <3>2, <4>1, <4>2
    <3>4. Seen' = {s \in Pairs' : s[1] = n => s[2] <= Len(given'[s[1]].value) - Len(pairs')}
      BY <1>2, <3>1 DEF Seen
    <3> QED
      BY <1>7, <3>1, <3>3, <3>4
  <2> QED
    BY <2>1, <2>2
<1>9. Collected' /\ \A s \in Seen' : Len(PairAt(s)') = 2
  BY <1>1, <1>3, <1>6, <1>8, CollectedKept
<1>10. pairs' \in Seq(Seq(STRING) \ {<<>>})
  BY <1>1, <1>5
<1>11. Reading'
  <2> SUFFICES ASSUME stage' = "set" PROVE Reading'
    BY DEF Reading
  <2>1. IsHeaders(a) /\ pairs' = a.value /\ a.value \in Seq(Seq(STRING) \ {<<>>})
    BY <1>5
  <2>2. given'[Len(given')].value = a.value /\ IsHeaders(given'[Len(given')])
    BY <1>2, <2>1
  <2>3. given' # <<>>
    BY <1>1
  <2>4. \A j \in 1..Len(a.value) : a.value[j] = a.value[Len(a.value) - Len(a.value) + j]
    BY <2>1
  <2> QED
    BY <2>1, <2>2, <2>3, <2>4 DEF Reading, IsHeaders
<1> QED
  BY <1>2, <1>4, <1>9, <1>10, <1>11

LEMMA ParseIInv ==
  ASSUME IInv, NEW a \in Arguments,
         ParseScalar(a) \/ ParseClaim(a) \/ ParseClientFlag(a) \/ ParseHeaders(a)
  PROVE  IInv'
<1>1. /\ Parse(a) /\ extras' = extras
      /\ \/ ~IsHeaders(a) /\ stage' = "parse" /\ pairs' = pairs
         \/ IsHeaders(a) /\ stage' = "set" /\ pairs' = a.value
  BY DEF ParseScalar, ParseClaim, ParseClientFlag, ParseHeaders, Parse, NextIs, IsHeaders,
         Scalars, AppFlags, OidcFlags, ServingFlags, AuditFlags, MiscFlags,
         ClientOptionFlags, OtherClientFlags
<1>2. /\ Readable' /\ Collected' /\ (\A s \in Seen' : Len(PairAt(s)') = 2)
      /\ LastGiven' /\ Reading' /\ pairs' \in Seq(Seq(STRING) \ {<<>>})
      /\ (\A f : Places(f)' = IF a.flag = f THEN Places(f) \cup {Len(given) + 1}
                              ELSE Places(f))
      /\ (\A f \in Scalars : Given(f)' = IF a.flag = f THEN a.value ELSE Given(f))
      /\ given' \in Seq(Arguments)
  BY <1>1, ParseKeeps
<1>3. /\ DOMAIN scalars = Scalars /\ \A f \in Scalars : scalars[f] = Given(f)
      /\ changed = {f \in ClientOptionFlags \cup OtherClientFlags : Places(f) # {}}
  BY <1>1 DEF Parse, NextIs, IInv, TypeOK, Accepted, Followed
<1>4. Scalars \cap (ClientOptionFlags \cup OtherClientFlags
                      \cup {"oidc-required-claim", "extra-user-headers"}) = {}
  BY DEF Scalars, AppFlags, OidcFlags, ServingFlags, AuditFlags, MiscFlags,
         ClientOptionFlags, OtherClientFlags
<1>5. /\ DOMAIN scalars' = Scalars
      /\ \A f \in Scalars : scalars'[f] = IF a.flag = f THEN a.value ELSE scalars[f]
  BY <1>3, <1>4 DEF ParseScalar, ParseClaim, ParseClientFlag, ParseHeaders, IsHeaders
<1>6. {f \in ClientOptionFlags \cup OtherClientFlags : Places(f)' # {}}
        = changed \cup ({a.flag} \cap (ClientOptionFlags \cup OtherClientFlags))
  BY <1>2, <1>3
<1>7. changed' = {f \in ClientOptionFlags \cup OtherClientFlags : Places(f)' # {}}
  <2>1. CASE a.flag \in ClientOptionFlags \cup OtherClientFlags
    <3>1. changed' = changed \cup {a.flag}
      BY <1>4, <2>1 DEF ParseScalar, ParseClaim, ParseClientFlag, ParseHeaders, IsHeaders,
                        ClientOptionFlags, OtherClientFlags
    <3> QED
      BY <1>6, <2>1, <3>1
  <2>2. CASE a.flag \notin ClientOptionFlags \cup OtherClientFlags
    <3>1. changed' = changed
      BY <2>2 DEF ParseScalar, ParseClaim, ParseClientFlag, ParseHeaders
    <3> QED
      BY <1>6, <2>2, <3>1
  <2> QED
    BY <2>1, <2>2
<1>8. Followed'
  BY <1>2, <1>3, <1>5, <1>7 DEF Followed
<1>9. TypeOK'
  <2>1. pairs' = pairs \/ stage' = "set"
    BY <1>1
  <2>2. code' = code /\ stage = "parse" /\ usable' = usable /\ args' \in Seq(Arguments)
    BY <1>1 DEF Parse, NextIs, IInv, TypeOK
  <2>3. changed' \subseteq ClientOptionFlags \cup OtherClientFlags
    BY <1>7
  <2> QED
    BY <1>1, <1>2, <1>5, <2>1, <2>2, <2>3 DEF IInv, TypeOK
<1>10. Accepted' /\ ExitExplained'
  BY <1>1, <1>2, <1>8 DEF Accepted, ExitExplained
<1> QED
  BY <1>2, <1>9, <1>10 DEF IInv

LEMMA SeqLength ==
  ASSUME NEW T, NEW q \in Seq(T)
  PROVE  Len(q) \in Nat /\ DOMAIN q = 1..Len(q) /\ (q # <<>> => Len(q) # 0)
  OBVIOUS

(* One turn of the loop: the pair at the head is the next one of the list. *)
LEMMA NextPair ==
  ASSUME IInv, stage = "set", pairs # <<>>
  PROVE  LET list == given[Len(given)].value
             s    == <<Len(given), Len(list) - Len(pairs) + 1>>
         IN  /\ s \in Pairs /\ s \notin Seen /\ PairAt(s) = Head(pairs)
             /\ \A t \in Pairs : (t \in Seen \/ t = s) <=>
                                   t[1] < s[1] \/ (t[1] = s[1] /\ t[2] <= s[2])
             /\ \A t \in Pairs : (t \in Seen \/ t = s) <=>
                                   (t[1] = Len(given) =>
                                      t[2] <= Len(given[t[1]].value) - (Len(pairs) - 1))
<1> DEFINE i    == Len(given)
           list == given[i].value
           s    == <<i, Len(list) - Len(pairs) + 1>>
<1>1. given \in Seq(Arguments) /\ Readable /\ pairs \in Seq(Seq(STRING) \ {<<>>})
  BY DEF IInv, TypeOK, Accepted
<1>2. /\ given # <<>> /\ IsHeaders(given[i]) /\ Len(pairs) <= Len(list)
      /\ \A j \in 1..Len(pairs) : pairs[j] = list[Len(list) - Len(pairs) + j]
  BY DEF IInv, Reading
<1>3. i \in DOMAIN given /\ i \in Nat
  BY <1>1, <1>2
<1>4. list \in Seq(Seq(STRING) \ {<<>>})
  BY <1>1, <1>2, <1>3, HeadersAreLists DEF Readable
<1>5. Len(pairs) \in Nat \ {0} /\ Len(list) \in Nat /\ DOMAIN list = 1..Len(list)
  <2>1. Len(pairs) \in Nat /\ Len(pairs) # 0
    BY <1>1, SeqLength
  <2>2. Len(list) \in Nat /\ DOMAIN list = 1..Len(list)
    BY <1>4, SeqLength
  <2> QED
    BY <2>1, <2>2
<1>6. s[2] \in DOMAIN list /\ s[2] = Len(list) - Len(pairs) + 1 /\ s[1] = i
  BY <1>2, <1>5
<1>7. s \in Pairs
  BY <1>1, <1>2, <1>3, <1>6, PairsFacts
<1>8. PairAt(s) = Head(pairs)
  BY <1>1, <1>2, <1>5, <1>6 DEF PairAt
<1>9. ASSUME NEW t \in Pairs
      PROVE  /\ t = <<t[1], t[2]>> /\ t[1] \in Nat /\ t[2] \in Nat /\ t[1] <= i
             /\ t \in Seen <=> (t[1] = i => t[2] <= Len(list) - Len(pairs))
  BY <1>1, PairsFacts DEF Seen
<1>10. s \notin Seen
  BY <1>5, <1>6, <1>7, <1>9
<1>11. ASSUME NEW t \in Pairs
       PROVE  /\ (t \in Seen \/ t = s) <=> t[1] < s[1] \/ (t[1] = s[1] /\ t[2] <= s[2])
              /\ (t \in Seen \/ t = s) <=>
                   (t[1] = i => t[2] <= Len(given[t[1]].value) - (Len(pairs) - 1))
  <2>1. t = s <=> t[1] = i /\ t[2] = Len(list) - Len(pairs) + 1
    BY <1>9
  <2>2. t \in Seen \/ t = s <=> (t[1] = i => t[2] <= Len(list) - Len(pairs) + 1)
    BY <1>5, <1>9, <2>1
  <2>3. CASE t[1] = i
    BY <1>5, <1>3, <1>6, <1>9, <2>2, <2>3
  <2>4. CASE t[1] # i
    BY <1>3, <1>6, <1>9, <2>2, <2>4
  <2> QED
    BY <2>3, <2>4
<1> QED
  BY <1>7, <1>8, <1>10, <1>11

LEMMA AppendedCollects ==
  ASSUME IInv, stage = "set", pairs # <<>>, Len(Head(pairs)) = 2,
         extras' = Appended(Head(pairs)), pairs' = Tail(pairs),
         UNCHANGED <<stage, given>>
  PROVE  /\ Collected' /\ (\A s \in Seen' : Len(PairAt(s)') = 2)
         /\ \A k \in DOMAIN extras' : extras'[k] # <<>>
<1>1. PICK new :
        /\ new \in Pairs /\ new \notin Seen /\ PairAt(new) = Head(pairs)
        /\ \A t \in Pairs : (t \in Seen \/ t = new) <=>
                              t[1] < new[1] \/ (t[1] = new[1] /\ t[2] <= new[2])
        /\ \A t \in Pairs : (t \in Seen \/ t = new) <=>
                              (t[1] = Len(given) =>
                                 t[2] <= Len(given[t[1]].value) - (Len(pairs) - 1))
  BY NextPair
<1>2. PICK k \in STRING, v \in STRING :
        k = Head(pairs)[1] /\ v = Head(pairs)[2] /\ Len(Tail(pairs)) = Len(pairs) - 1
  <2>1. Head(pairs) \in Seq(STRING) /\ Len(Tail(pairs)) = Len(pairs) - 1
    BY DEF IInv
  <2>2. Head(pairs)[1] \in STRING /\ Head(pairs)[2] \in STRING
    BY <2>1
  <2> QED
    BY <2>1, <2>2
<1> DEFINE old == Get(extras, k)
<1>3. /\ Pairs' = Pairs
      /\ \A s : PairAt(s)' = PairAt(s) /\ Rank(s)' = Rank(s)
  BY GivenSame
<1>4. Seen' = Seen \cup {new}
  <2>1. Seen' = {t \in Pairs : t[1] = Len(given) =>
                                 t[2] <= Len(given[t[1]].value) - (Len(pairs) - 1)}
    BY <1>2, <1>3 DEF Seen
  <2>2. Seen \subseteq Pairs
    BY DEF Seen
  <2> QED
    BY <1>1, <2>1, <2>2
<1>5. /\ Collected /\ \A s \in Seen : Len(PairAt(s)) = 2
      /\ \A q \in DOMAIN extras : extras[q] # <<>>
  BY DEF IInv, Accepted, TypeOK
<1>6. /\ SeenOf(k)' = SeenOf(k) \cup {new} /\ new \notin SeenOf(k)
      /\ \A q : q # k => SeenOf(q)' = SeenOf(q)
  BY <1>1, <1>2, <1>3, <1>4 DEF SeenOf
<1>7. old \in Seq(STRING) /\ IsFiniteSet(SeenOf(k)) /\ Len(old) = Cardinality(SeenOf(k))
  <2>1. CASE k \in DOMAIN extras
    BY <1>5, <2>1 DEF Collected, Get
  <2>2. CASE k \notin DOMAIN extras
    <3>1. SeenOf(k) = {}
      BY <1>5, <2>2 DEF Collected, SeenOf
    <3> QED
      BY <2>2, <3>1, FS_EmptySet DEF Get
  <2> QED
    BY <2>1, <2>2
<1>8. /\ IsFiniteSet(SeenOf(k)') /\ Cardinality(SeenOf(k)') = Len(old) + 1
  BY <1>6, <1>7, FS_AddElement
<1>9. Rank(new) = Len(old) + 1
  <2>1. {t \in PairsOf(k) : t[1] < new[1] \/ (t[1] = new[1] /\ t[2] <= new[2])}
          = SeenOf(k) \cup {new}
    <3>1. Seen \subseteq Pairs
      BY DEF Seen
    <3> QED
      BY <1>1, <1>2, <3>1 DEF PairsOf, SeenOf
  <2> QED
    BY <1>1, <1>2, <1>6, <1>8, <2>1 DEF Rank
<1>10. /\ DOMAIN extras' = DOMAIN extras \cup {k}
       /\ extras'[k] = Append(old, v)
       /\ \A q \in DOMAIN extras : q # k => extras'[q] = extras[q]
  BY <1>2 DEF Appended, Put
<1>11. extras' \in [DOMAIN extras' -> Seq(STRING)]
  <2>1. \A q \in DOMAIN extras' : extras'[q] \in Seq(STRING)
    <3> SUFFICES ASSUME NEW q \in DOMAIN extras'
                 PROVE  extras'[q] \in Seq(STRING)
      OBVIOUS
    <3>1. CASE q = k
      <4>1. old \in Seq(STRING) /\ v \in STRING
        BY <1>2, <1>7
      <4>2. Append(old, v) \in Seq(STRING)
        BY <4>1
      <4> QED
        BY <1>10, <3>1, <4>2
    <3>2. CASE q # k
      <4>1. q \in DOMAIN extras /\ extras'[q] = extras[q]
        BY <1>10, <3>2
      <4> QED
        BY <1>5, <4>1 DEF Collected
    <3> QED
      BY <3>1, <3>2
  <2>2. extras' = [q \in DOMAIN extras' |-> extras'[q]]
    BY DEF Appended, Put
  <2> QED
    BY <2>1, <2>2
<1>12. DOMAIN extras' = {PairAt(s)'[1] : s \in Seen'}
  <2>1. {PairAt(s)'[1] : s \in Seen'} = {PairAt(s)[1] : s \in Seen} \cup {PairAt(new)[1]}
    BY <1>3, <1>4
  <2> QED
    BY <1>1, <1>2, <1>5, <1>10, <2>1 DEF Collected
<1>13. ASSUME NEW q \in DOMAIN extras'
       PROVE  /\ IsFiniteSet(SeenOf(q)') /\ Len(extras'[q]) = Cardinality(SeenOf(q)')
              /\ \A n \in 1..Len(extras'[q]) :
                   \E s \in SeenOf(q)' : Rank(s)' = n /\ extras'[q][n] = PairAt(s)'[2]
              /\ extras'[q] # <<>>
  <2>1. CASE q = k
    <3>1. /\ Len(extras'[k]) = Len(old) + 1 /\ extras'[k][Len(old) + 1] = v
          /\ \A n \in 1..Len(old) : extras'[k][n] = old[n]
          /\ Len(old) \in Nat /\ extras'[k] # <<>>
      BY <1>2, <1>7, <1>10
    <3>2. ASSUME NEW n \in 1..Len(old)
          PROVE  \E s \in SeenOf(k) : Rank(s) = n /\ old[n] = PairAt(s)[2]
      <4>1. CASE k \in DOMAIN extras
        BY <1>5, <4>1 DEF Collected, Get
      <4>2. CASE k \notin DOMAIN extras
        BY <4>2 DEF Get
      <4> QED
        BY <4>1, <4>2
    <3>3. ASSUME NEW n \in 1..(Len(old) + 1)
          PROVE  \E s \in SeenOf(k)' : Rank(s)' = n /\ extras'[k][n] = PairAt(s)'[2]
      <4>1. CASE n = Len(old) + 1
        <5>1. new \in SeenOf(k)' /\ Rank(new)' = n /\ extras'[k][n] = PairAt(new)'[2]
          BY <1>1, <1>2, <1>3, <1>6, <1>9, <3>1, <4>1
        <5> QED
          BY <5>1
      <4>2. CASE n # Len(old) + 1
        <5>1. n \in 1..Len(old)
          BY <3>1, <4>2
        <5> QED
          BY <1>3, <1>6, <3>1, <3>2, <5>1
      <4> QED
        BY <4>1, <4>2
    <3> QED
      BY <1>8, <2>1, <3>1, <3>3
  <2>2. CASE q # k
    BY <1>3, <1>5, <1>6, <1>10, <2>2 DEF Collected
  <2> QED
    BY <2>1, <2>2
<1>14. Collected'
  BY <1>11, <1>12, <1>13 DEF Collected
<1>15. \A s \in Seen' : Len(PairAt(s)') = 2
  BY <1>1, <1>3, <1>4, <1>5
<1> QED
  BY <1>13, <1>14, <1>15
LEMMA SetIInv == ASSUME IInv, SetPair \/ SetDone PROVE IInv'
<1>1. /\ stage = "set" /\ given \in Seq(Arguments) /\ Readable /\ Followed /\ Collected
      /\ pairs \in Seq(Seq(STRING) \ {<<>>}) /\ TypeOK /\ LastGiven
      /\ \A s \in Seen : Len(PairAt(s)) = 2
  BY DEF IInv, TypeOK, Accepted, SetPair, SetDone
<1>2. /\ given' = given /\ UNCHANGED <<usable, args, scalars, changed>>
  BY DEF SetPair, SetDone, Stop, flagVars
<1>3. /\ Pairs' = Pairs /\ Readable' /\ LastGiven'
      /\ \A s : PairAt(s)' = PairAt(s) /\ Rank(s)' = Rank(s)
      /\ \A f : Places(f)' = Places(f) /\ Given(f)' = Given(f)
      /\ WellFormed' <=> WellFormed
  BY <1>1, <1>2, GivenSame
<1>4. Followed'
  BY <1>1, <1>2, <1>3 DEF Followed
<1>5. CASE SetPair /\ Len(Head(pairs)) = 2
  <2>1. /\ pairs # <<>> /\ extras' = Appended(Head(pairs)) /\ pairs' = Tail(pairs)
        /\ UNCHANGED <<stage, given, code>>
    BY <1>5 DEF SetPair
  <2>2. /\ Collected' /\ (\A s \in Seen' : Len(PairAt(s)') = 2)
        /\ \A k \in DOMAIN extras' : extras'[k] # <<>>
    BY <1>1, <1>5, <2>1, AppendedCollects
  <2>3. TypeOK'
    BY <1>1, <1>2, <2>1, <2>2 DEF TypeOK
  <2>4. Accepted' /\ ExitExplained'
    BY <1>1, <1>3, <1>4, <2>1, <2>2 DEF Accepted, ExitExplained
  <2>5. /\ pairs' \in Seq(Seq(STRING) \ {<<>>}) /\ Len(pairs') = Len(pairs) - 1
        /\ Len(pairs) \in Nat \ {0}
        /\ \A j \in 1..Len(pairs') : pairs'[j] = pairs[j + 1] /\ j + 1 \in 1..Len(pairs)
    BY <1>1, <2>1
  <2>6. Reading'
    <3> DEFINE list == given[Len(given)].value
    <3>1. /\ given # <<>> /\ IsHeaders(given[Len(given)]) /\ Len(pairs) <= Len(list)
          /\ \A j \in 1..Len(pairs) : pairs[j] = list[Len(list) - Len(pairs) + j]
      BY <1>1 DEF IInv, Reading
    <3>2. Len(list) \in Nat
      <4>1. given[Len(given)] \in Arguments /\ given[Len(given)].readable
        BY <1>1, <3>1 DEF Readable
      <4> QED
        BY <3>1, <4>1, HeadersAreLists
    <3> HIDE DEF list
    <3>3. ASSUME NEW j \in 1..Len(pairs')
          PROVE  pairs'[j] = list[Len(list) - Len(pairs') + j]
      <4>1. Len(list) - Len(pairs') + j = Len(list) - Len(pairs) + (j + 1)
        BY <2>5, <3>2
      <4> QED
        BY <2>5, <3>1, <4>1
    <3>4. Len(pairs') <= Len(list)
      BY <2>5, <3>1, <3>2
    <3> QED
      BY <1>2, <2>1, <3>1, <3>3, <3>4 DEF Reading, IsHeaders, list
  <2> QED
    BY <1>3, <2>3, <2>4, <2>5, <2>6 DEF IInv
<1>6. CASE SetPair /\ Len(Head(pairs)) # 2
  <2>1. /\ pairs # <<>> /\ stage' = "exited" /\ code' = "error"
        /\ extras' = Empty /\ pairs' = pairs
    BY <1>6 DEF SetPair, Stop
  <2>2. ~WellFormed
    BY <1>1, <1>6, <2>1, NextPair DEF WellFormed
  <2>3. TypeOK'
    BY <1>1, <1>2, <2>1 DEF TypeOK, Empty
  <2> QED
    BY <1>1, <1>3, <2>1, <2>2, <2>3 DEF IInv, Reading, Accepted, ExitExplained
<1>7. CASE SetDone
  <2>1. pairs = <<>> /\ stage' = "parse" /\ UNCHANGED <<extras, pairs, code>>
    BY <1>7 DEF SetDone, flagVars
  <2>2. Seen' = Pairs
    BY <1>3, <2>1 DEF Seen
  <2>3. Seen = Pairs
    <3>1. \A s \in Pairs : s[2] <= Len(given[s[1]].value) - Len(pairs)
      BY <1>1, <2>1, PairsFacts
    <3> QED
      BY <3>1 DEF Seen
  <2>4. Collected' /\ \A s \in Seen' : Len(PairAt(s)') = 2
    BY <1>1, <1>3, <2>1, <2>2, <2>3, CollectedKept
  <2>5. TypeOK'
    BY <1>1, <1>2, <2>1 DEF TypeOK
  <2> QED
    BY <1>1, <1>3, <1>4, <2>1, <2>4, <2>5 DEF IInv, Reading, Accepted, ExitExplained
<1> QED
  BY <1>5, <1>6, <1>7

(* Once the parse is over the flags are what the arguments mean.           *)
LEMMA Meaning ==
  ASSUME IInv, stage \notin {"set", "exited"}
  PROVE  /\ WellFormed /\ \A f \in Scalars : scalars[f] = Given(f)
         /\ \A f \in MiscFlags : On(f) <=> Given(f) = "true"
         /\ Legal <=> ~Invalid /\ Usable
<1>1. /\ given \in Seq(Arguments) /\ Readable /\ Followed /\ Collected /\ LastGiven
      /\ \A s \in Seen : Len(PairAt(s)) = 2
      /\ usable \in Surroundings
  BY DEF IInv, TypeOK, Accepted
<1>2. Seen = Pairs
  BY DEF Seen
<1>3. WellFormed
  BY <1>1, <1>2 DEF WellFormed
<1>4. DOMAIN extras = {} <=> Pairs = {}
  <2>1. DOMAIN extras = {PairAt(s)[1] : s \in Pairs}
    BY <1>1, <1>2 DEF Collected
  <2> QED
    BY <2>1
<1>5. \A f \in Scalars : scalars[f] = Given(f)
  BY <1>1 DEF Followed
<1>6. ASSUME NEW f \in Booleans PROVE f \in Scalars /\ Given(f) \in {"true", "false"}
  <2>1. f \in Scalars
    BY DEF Booleans, Scalars
  <2>2. CASE Places(f) = {}
    <3>1. f # "readiness-probe-port" /\ f # "secure-port" /\ f # "audit-policy"
          /\ f # "ns-mapping-file" /\ f \notin OidcFlags
      BY DEF Booleans, AppFlags, MiscFlags, OidcFlags
    <3>2. Defaults[f] = "false"
      BY <2>1, <3>1 DEF Defaults
    <3> QED
      BY <2>1, <2>2, <3>2 DEF Given
  <2>3. CASE Places(f) # {}
    <3>1. PICK m \in Places(f) : \A j \in Places(f) : j <= m
      BY <1>1, <2>1, <2>3 DEF LastGiven
    <3>2. Places(f) \in SUBSET Nat /\ m \in DOMAIN given /\ given[m].flag = f
      BY <1>1 DEF Places
    <3>3. Max(Places(f)) = m
      BY <3>1, <3>2, LastIs
    <3>4. given[m] \in Arguments /\ given[m].readable
      BY <1>1, <3>2 DEF Readable
    <3>5. Given(f) = given[m].value
      BY <2>3, <3>3 DEF Given
    <3> QED
      BY <2>1, <3>2, <3>4, <3>5, ArgumentsAssumption
  <2> QED
    BY <2>2, <2>3
<1>7. {"disable-impersonation", "extra-user-header-client-ip"} \subseteq Booleans
  BY DEF Booleans, AppFlags
<1>8. {"secure-port", "readiness-probe-port", "oidc-issuer-url", "oidc-client-id",
       "ns-mapping-file", "audit-policy"} \subseteq Scalars
  BY DEF Scalars, AppFlags, OidcFlags, ServingFlags, AuditFlags
<1>9. \A f \in MiscFlags : On(f) <=> Given(f) = "true"
  BY <1>5 DEF On, Scalars
<1>10. ImpersonationClash <=>
         ~(Given("disable-impersonation") = "true" =>
             Given("extra-user-header-client-ip") = "false" /\ Pairs = {})
  <2>1. Given("extra-user-header-client-ip") \in {"true", "false"}
    BY <1>6, <1>7
  <2>2. /\ scalars["disable-impersonation"] = Given("disable-impersonation")
        /\ scalars["extra-user-header-client-ip"] = Given("extra-user-header-client-ip")
    BY <1>5, <1>6, <1>7
  <2> QED
    BY <1>4, <2>1, <2>2 DEF ImpersonationClash, On
<1>11. Legal <=> ~Invalid /\ Usable
  <2>1. \A f \in {"secure-port", "readiness-probe-port", "oidc-issuer-url",
                  "oidc-client-id", "ns-mapping-file", "audit-policy"} :
          scalars[f] = Given(f)
    BY <1>5, <1>8
  <2>2. ClientConfig = GivenClient
    BY <1>1 DEF ClientConfig, GivenClient, Followed
  <2>3. "" \notin usable.issuers
    BY <1>1, ArgumentsAssumption
  <2>4. ~OidcInvalid /\ Usable <=>
          /\ Given("oidc-issuer-url") \in usable.issuers /\ Given("oidc-client-id") # ""
          /\ Given("ns-mapping-file") \in usable.mappings /\ GivenClient \in usable.clients
    BY <2>1, <2>2, <2>3 DEF OidcInvalid, Usable
  <2>5. ServingInvalid <=> Given("secure-port") \notin PortNumbers
    BY <2>1 DEF ServingInvalid
  <2>6. Invalid <=> \/ OidcInvalid \/ ServingInvalid \/ ImpersonationClash
                    \/ Given("secure-port") = Given("readiness-probe-port")
                    \/ Given("audit-policy") # "valid"
    BY <2>1 DEF Invalid
  <2> QED
    BY <1>10, <2>4, <2>5, <2>6 DEF Legal
<1> QED
  BY <1>3, <1>5, <1>9, <1>11
(* An argument its flag refuses.                                           *)
LEMMA ParseFailsIInv == ASSUME IInv, NEW a \in Arguments, ParseFails(a) PROVE IInv'
<1>1. /\ given \in Seq(Arguments) /\ LastGiven /\ TypeOK
      /\ usable' = usable /\ args' \in Seq(Arguments)
      /\ given' = Append(given, a) /\ ~a.readable /\ stage' = "exited" /\ code' = "error"
      /\ extras' = (IF IsHeaders(a) THEN Empty ELSE extras)
      /\ UNCHANGED <<scalars, changed, pairs>>
      /\ pairs \in Seq(Seq(STRING) \ {<<>>})
  BY DEF ParseFails, NextIs, IInv, TypeOK
<1>2. LastGiven' /\ ~Readable' /\ Len(given') = Len(given) + 1
  BY <1>1, AppendGiven
<1>3. TypeOK'
  <2>1. given' \in Seq(Arguments)
    BY <1>1
  <2>2. \A k \in DOMAIN extras' : extras'[k] # <<>>
    BY <1>1 DEF TypeOK, Empty
  <2> QED
    BY <1>1, <2>1, <2>2 DEF TypeOK
<1> QED
  BY <1>1, <1>2, <1>3 DEF IInv, Reading, Accepted, ExitExplained, WellFormed

(* What follows the parse looks at the flags and changes none.             *)
LEMMA AfterParse ==
  ASSUME IInv, EndOfArguments \/ Validate \/ Build
  PROVE  /\ stage \in {"parse", "validate", "build"} /\ stage' \notin {"parse", "set"}
         /\ UNCHANGED <<usable, args, given, flagVars>>
         /\ stage' # "exited" => /\ Readable' /\ Followed' /\ Collected'
                                 /\ \A s \in Seen' : Len(PairAt(s)') = 2
         /\ (Invalid' <=> Invalid) /\ \A f : On(f)' <=> On(f)
<1>1. /\ stage \in {"parse", "validate", "build"} /\ stage' \notin {"parse", "set"}
      /\ UNCHANGED <<usable, args, given, flagVars>>
  BY DEF EndOfArguments, Validate, Build, Exit, Stop, PrintVersionAndExit, flagVars
<1>2. /\ Pairs' = Pairs /\ (Readable' <=> Readable)
      /\ \A s : PairAt(s)' = PairAt(s) /\ Rank(s)' = Rank(s)
      /\ \A f : Places(f)' = Places(f) /\ Given(f)' = Given(f)
  BY <1>1, GivenSame
<1>3. /\ Readable /\ Followed /\ Collected /\ \A s \in Seen : Len(PairAt(s)) = 2
  BY <1>1 DEF IInv, Accepted
<1>4. Followed'
  BY <1>1, <1>2, <1>3 DEF Followed, flagVars
<1>5. Seen' = Seen
  BY <1>1, <1>2 DEF Seen
<1>6. Collected' /\ \A s \in Seen' : Len(PairAt(s)') = 2
  BY <1>1, <1>2, <1>3, <1>5, CollectedKept DEF flagVars
<1>7. \A f : On(f)' <=> On(f)
  BY <1>1 DEF On, flagVars
<1>8. Invalid' <=> Invalid
  <2>1. scalars' = scalars /\ extras' = extras
    BY <1>1 DEF flagVars
  <2> QED
    BY <2>1 DEF Invalid, OidcInvalid, ServingInvalid, ImpersonationClash, On
<1> QED
  BY <1>1, <1>2, <1>3, <1>4, <1>6, <1>7, <1>8

LEMMA AfterParseIInv ==
  ASSUME IInv, EndOfArguments \/ Validate \/ Build
  PROVE  IInv'
<1> DEFINE asked == \E f \in MiscFlags : Given(f) = "true"
<1>1. /\ stage \in {"parse", "validate", "build"} /\ stage' \notin {"parse", "set"}
      /\ UNCHANGED <<usable, args, given, scalars, extras, claims, changed, pairs>>
      /\ stage' # "exited" => /\ Readable' /\ Followed' /\ Collected'
                              /\ \A s \in Seen' : Len(PairAt(s)') = 2
      /\ (Invalid' <=> Invalid) /\ \A f : On(f)' <=> On(f)
  BY AfterParse DEF flagVars
<1>2. /\ WellFormed /\ (asked <=> On("help") \/ On("version"))
      /\ Legal <=> ~Invalid /\ Usable
  BY <1>1, Meaning DEF MiscFlags
<1>3. /\ WellFormed' /\ (Legal' <=> Legal) /\ (asked' <=> asked) /\ LastGiven'
  <2>1. \A f : Given(f)' = Given(f)
    BY <1>1, GivenSame
  <2>2. asked' <=> asked
    BY <2>1
  <2> QED
    BY <1>1, <1>2, <2>2, GivenSame DEF IInv
<1> HIDE DEF asked
<1>4. TypeOK' /\ pairs' \in Seq(Seq(STRING) \ {<<>>}) /\ Reading'
  <2>1. /\ stage' \in {"validate", "build", "started", "exited"}
        /\ code' \in {"running", "ok", "error"} /\ (stage = "parse" => args = <<>>)
    BY DEF EndOfArguments, Validate, Build, Exit, Stop, PrintVersionAndExit, IInv, TypeOK
  <2> QED
    BY <1>1, <2>1 DEF IInv, TypeOK, Reading
<1>5. CASE EndOfArguments
  <2>1. \/ stage' = "exited" /\ code' = "ok" /\ On("help")
        \/ stage' = "validate" /\ ~On("help")
    BY <1>5 DEF EndOfArguments, Exit, Stop
  <2>2. ExitExplained'
    BY <1>2, <1>3, <2>1 DEF ExitExplained, asked
  <2>3. Accepted'
    BY <1>1, <2>1 DEF Accepted
  <2> QED
    BY <1>3, <1>4, <2>2, <2>3 DEF IInv
<1>6. CASE Validate
  <2>1. \/ stage' = "exited" /\ code' = "ok" /\ On("version")
        \/ stage' = "exited" /\ code' = "error" /\ ~On("version") /\ Invalid
        \/ stage' = "build" /\ ~On("version") /\ ~Invalid
    BY <1>6 DEF Validate, Exit, Stop, PrintVersionAndExit
  <2>2. ~On("help")
    BY <1>6 DEF Validate, IInv, Accepted
  <2>3. ExitExplained'
    BY <1>2, <1>3, <2>1, <2>2 DEF ExitExplained, asked
  <2>4. Accepted'
    BY <1>1, <2>1, <2>2 DEF Accepted
  <2> QED
    BY <1>3, <1>4, <2>3, <2>4 DEF IInv
<1>7. CASE Build
  <2>1. stage = "build" /\ ~On("help") /\ ~On("version") /\ ~Invalid
    BY <1>7 DEF Build, IInv, Accepted
  <2>2. \/ stage' = "exited" /\ code' = "error" /\ ~Usable
        \/ stage' = "started" /\ config' = ProxyConfig /\ jwt' = JwtConfig /\ Usable
    BY <1>7 DEF Build, Exit, Stop
  <2>3. ProxyConfig' = ProxyConfig /\ JwtConfig' = JwtConfig /\ (Usable' <=> Usable)
    BY <1>1 DEF ProxyConfig, JwtConfig, On, ClientConfig, CheckedClaims, Usable
  <2>4. Accepted'
    BY <1>1, <2>1, <2>2, <2>3 DEF Accepted
  <2>5. ExitExplained'
    BY <1>2, <1>3, <2>1, <2>2 DEF ExitExplained, asked
  <2> QED
    BY <1>3, <1>4, <2>4, <2>5 DEF IInv
<1> QED
  BY <1>5, <1>6, <1>7

LEMMA StutterIInv == ASSUME IInv, UNCHANGED vars PROVE IInv'
<1>1. UNCHANGED <<usable, args, stage, given, scalars, extras, claims, changed, pairs, code, config,
                  jwt>>
  BY DEF vars, flagVars
<1>2. /\ Pairs' = Pairs /\ (Readable' <=> Readable) /\ (WellFormed' <=> WellFormed)
      /\ \A s : PairAt(s)' = PairAt(s) /\ Rank(s)' = Rank(s)
      /\ \A f : Places(f)' = Places(f) /\ Given(f)' = Given(f)
      /\ (LastGiven' <=> LastGiven) /\ (Legal' <=> Legal)
  BY <1>1, GivenSame
<1>3. Seen' = Seen /\ (Followed' <=> Followed)
  BY <1>1, <1>2 DEF Seen, Followed
<1>4. stage # "exited" => /\ Readable' /\ Followed' /\ Collected'
                          /\ \A s \in Seen' : Len(PairAt(s)') = 2
  BY <1>1, <1>2, <1>3, CollectedKept DEF IInv, Accepted
<1>5. (\A f : On(f)' <=> On(f)) /\ (Invalid' <=> Invalid)
  BY <1>1 DEF On, Invalid, OidcInvalid, ServingInvalid, ImpersonationClash
<1>6. ProxyConfig' = ProxyConfig /\ JwtConfig' = JwtConfig /\ (Usable' <=> Usable)
  BY <1>1, <1>5 DEF ProxyConfig, JwtConfig, On, ClientConfig, CheckedClaims, Usable
<1>7. Accepted'
  BY <1>1, <1>4, <1>5, <1>6 DEF IInv, Accepted
<1>8. TypeOK' /\ Reading' /\ ExitExplained' /\ LastGiven'
  BY <1>1, <1>2 DEF IInv, TypeOK, Reading, ExitExplained, IsHeaders
<1> QED
  BY <1>1, <1>7, <1>8 DEF IInv

LEMMA NextIInv == IInv /\ [Next]_vars => IInv'
<1> SUFFICES ASSUME IInv, [Next]_vars PROVE IInv'
  OBVIOUS
<1>1. ASSUME NEW a \in Arguments,
             \/ ParseScalar(a) \/ ParseClaim(a) \/ ParseClientFlag(a) \/ ParseHeaders(a)
             \/ ParseFails(a)
      PROVE  IInv'
  BY <1>1, ParseIInv, ParseFailsIInv
<1>2. CASE SetPair \/ SetDone
  BY <1>2, SetIInv
<1>3. CASE EndOfArguments \/ Validate \/ Build
  BY <1>3, AfterParseIInv
<1>4. CASE Over \/ UNCHANGED vars
  BY <1>4, StutterIInv DEF Over
<1> QED
  BY <1>1, <1>2, <1>3, <1>4 DEF Next

LEMMA Inductive == Spec => []IInv
  BY InitIInv, NextIInv, PTL DEF Spec
-----------------------------------------------------------------------------
(***************************************************************************)
(* What the invariant says of a proxy that was started.                    *)
(***************************************************************************)
(* No two pairs of a key have the same rank.                               *)
LEMMA RankInjective ==
  ASSUME given \in Seq(Arguments), Readable, NEW k, IsFiniteSet(PairsOf(k)),
         NEW s \in PairsOf(k), NEW t \in PairsOf(k), Rank(s) = Rank(t)
  PROVE  s = t
<1> DEFINE Upto(u) == {w \in PairsOf(k) : w[1] < u[1] \/ (w[1] = u[1] /\ w[2] <= u[2])}
<1>1. \A u \in PairsOf(k) : /\ u = <<u[1], u[2]>> /\ u[1] \in Nat /\ u[2] \in Nat
                            /\ Rank(u) = Cardinality(Upto(u))
  <2>1. \A u \in PairsOf(k) : u \in Pairs /\ PairAt(u)[1] = k
    BY DEF PairsOf
  <2>2. \A u \in PairsOf(k) : u = <<u[1], u[2]>> /\ u[1] \in Nat /\ u[2] \in Nat
    BY <2>1, PairsFacts
  <2> QED
    BY <2>1, <2>2 DEF Rank
<1>2. ASSUME NEW u \in PairsOf(k), NEW w \in PairsOf(k),
             u[1] < w[1] \/ (u[1] = w[1] /\ u[2] < w[2])
      PROVE  Rank(u) # Rank(w)
  <2>0. \A x \in PairsOf(k) : x[1] \in Nat /\ x[2] \in Nat
    BY <1>1
  <2>1. Upto(u) \subseteq Upto(w)
    BY <1>2, <2>0
  <2>2. w \in Upto(w) /\ w \notin Upto(u)
    BY <1>2, <2>0
  <2>3. IsFiniteSet(Upto(w))
    BY FS_Subset
  <2> HIDE DEF Upto
  <2>4. Cardinality(Upto(u)) # Cardinality(Upto(w))
    BY <2>1, <2>2, <2>3, FS_Subset
  <2> QED
    BY <1>1, <2>4
<1>3. \/ s = t
      \/ s[1] < t[1] \/ (s[1] = t[1] /\ s[2] < t[2])
      \/ t[1] < s[1] \/ (t[1] = s[1] /\ t[2] < s[2])
  <2>1. s[1] = t[1] /\ s[2] = t[2] => s = t
    BY <1>1
  <2>2. s[1] \in Nat /\ s[2] \in Nat /\ t[1] \in Nat /\ t[2] \in Nat
    BY <1>1
  <2> QED
    BY <2>1, <2>2
<1> QED
  BY <1>2, <1>3

LEMMA ExtrasAreHeaders ==
  ASSUME IInv, stage \notin {"set", "exited"}
  PROVE  extras = Headers
<1>1. given \in Seq(Arguments) /\ Readable /\ Collected
  BY DEF IInv, TypeOK, Accepted
<1>2. Seen = Pairs /\ \A k : SeenOf(k) = PairsOf(k)
  BY DEF Seen, SeenOf, PairsOf
<1>3. /\ extras \in [DOMAIN extras -> Seq(STRING)]
      /\ DOMAIN extras = {PairAt(s)[1] : s \in Pairs}
  BY <1>1, <1>2 DEF Collected
<1>4. ASSUME NEW k \in DOMAIN extras
      PROVE  extras[k] = [n \in 1..Cardinality(PairsOf(k)) |->
                            PairAt(CHOOSE s \in PairsOf(k) : Rank(s) = n)[2]]
  <2>1. /\ extras[k] \in Seq(STRING) /\ IsFiniteSet(PairsOf(k))
        /\ Len(extras[k]) = Cardinality(PairsOf(k))
        /\ \A n \in 1..Len(extras[k]) :
             \E s \in PairsOf(k) : Rank(s) = n /\ extras[k][n] = PairAt(s)[2]
    BY <1>1, <1>2, <1>3 DEF Collected
  <2>2. ASSUME NEW n \in 1..Len(extras[k])
        PROVE  extras[k][n] = PairAt(CHOOSE s \in PairsOf(k) : Rank(s) = n)[2]
    <3>1. PICK s \in PairsOf(k) : Rank(s) = n /\ extras[k][n] = PairAt(s)[2]
      BY <2>1
    <3>2. \A t \in PairsOf(k) : Rank(t) = n => t = s
      BY <1>1, <2>1, <3>1, RankInjective
    <3>3. (CHOOSE t \in PairsOf(k) : Rank(t) = n) = s
      BY <3>1, <3>2
    <3> QED
      BY <3>1, <3>3
  <2>3. extras[k] = [n \in 1..Len(extras[k]) |-> extras[k][n]]
    BY <2>1
  <2> QED
    BY <2>1, <2>2, <2>3
<1>5. extras = [k \in DOMAIN extras |-> extras[k]]
  BY <1>3
<1> QED
  BY <1>3, <1>4, <1>5 DEF Headers

-----------------------------------------------------------------------------
(* For all command lines: the type invariant, and no pair of one list is   *)
(* left for the next (string_to_string_slice.go:32-67).                    *)
THEOREM TypeCorrect == Spec => []TypeOK
<1>1. IInv => TypeOK
  BY DEF IInv
<1> QED
  BY <1>1, Inductive, PTL

(* For all command lines: the proxy is started with what they mean as a    *)
(* whole, the last value of a flag and every header value in order, though *)
(* the parse sees one argument and one pair at a time (app.go:39-89,       *)
(* string_to_string_slice.go:32-67, run.go:43-88).                         *)
THEOREM MeaningKept == Spec => []StartedAsGiven
<1>1. ASSUME IInv, stage = "started" PROVE StartedAsGiven
  <2>1. config = ProxyConfig /\ jwt = JwtConfig
    BY <1>1 DEF IInv, Accepted
  <2>2. extras = Headers
    BY <1>1, ExtrasAreHeaders
  <2>3. \A f \in Scalars : scalars[f] = Given(f)
    BY <1>1, Meaning
  <2>4. {"disable-impersonation", "token-passthrough", "extra-user-header-client-ip",
         "oidc-issuer-url"} \subseteq Scalars
    BY DEF Scalars, AppFlags, OidcFlags
  <2>5. ClientConfig = GivenClient
    BY <1>1 DEF IInv, Accepted, Followed, ClientConfig, GivenClient
  <2>6. config.client = GivenClient
    BY <2>1, <2>5 DEF ProxyConfig
  <2> QED
    BY <2>1, <2>2, <2>3, <2>4, <2>6 DEF StartedAsGiven, ProxyConfig, JwtConfig, On
<1>2. IInv => StartedAsGiven
  BY <1>1 DEF StartedAsGiven
<1> QED
  BY <1>2, Inductive, PTL

(* For all command lines: what the proxy is started with is legal, so the  *)
(* assumption RequestPipeline makes on its Configs is one that holds       *)
(* (options.go:67-100, oidc.go:28-34, proxy.go:138-141).                   *)
THEOREM StartedLegal == Spec => []LegalConfiguration
<1>1. ASSUME IInv, stage = "started" PROVE WellFormed /\ Legal
  BY <1>1, Meaning DEF IInv, Accepted
<1>2. IInv => LegalConfiguration
  BY <1>1 DEF LegalConfiguration
<1> QED
  BY <1>2, Inductive, PTL

(* For all command lines: one that does not start the proxy is refused     *)
(* for a reason of its own, and with the exit code of that reason          *)
(* (options.go:68, misc.go:47-69, run.go:37-105, main.go:18).              *)
THEOREM ExitsExplained == Spec => []ExitExplained
<1>1. IInv => ExitExplained
  BY DEF IInv
<1> QED
  BY <1>1, Inductive, PTL

=============================================================================
