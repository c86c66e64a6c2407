---------------------------- MODULE GatewayProofs ----------------------------
(***************************************************************************)
(* More about RequestPipeline: what the handlers record about a request    *)
(* (the extras for the API server's audit log, the proxy's own audit event,*)
(* the access log) agrees with what they did, and the handler chain        *)
(* implements Gateway. Both need to know exactly, and not only as bounds,  *)
(* what a request is handed over as.                                       *)
(***************************************************************************)
EXTENDS RequestPipelineProofs

-----------------------------------------------------------------------------
(***************************************************************************)
(* The inductive invariant, on top of IInv.                                *)
(***************************************************************************)
(* The claims a client's headers make: what the loop is to review.         *)
Requested(imp) == {c \in Claim : /\ c[1] \in Present(imp)
                                 /\ c[2] \in Elements(Reviewed(c[1], imp[c[1]]))}

(* The loop puts nothing else in its queue or in the target.               *)
OnlyRequested(me) ==
  me.pc = "check" => /\ me.target \subseteq Requested(me.in.imp)
                     /\ \A v \in Elements(me.queue) : <<me.key, v>> \in Requested(me.in.imp)

(* What is known when the configuration has been computed: it is the one   *)
(* for the authenticated user and for all that was requested.              *)
Settled(me) ==
  /\ me.user = me.in.user /\ me.user.name # NoValue
  /\ me.target = Requested(me.in.imp) /\ me.target \subseteq me.granted
  /\ me.conf = ConfFor(me.user, me.target)
  /\ Present(me.in.imp) # {} => HasUser(me.in.imp)

Exact(me) ==
  /\ me.pc = "check" => me.user.name # NoValue
  /\ me.pc = "forward" /\ ~me.noImp => Settled(me)
  /\ me.pc = "upstream" => me.sent # None
  /\ me.sent # None /\ ~me.noImp =>
       Settled(me) /\ me.audit = ActingUser(me.user, me.target)

(* The lines a request has in the access log, and when it is answered.     *)
Logged(me) ==
  /\ me.pc \in Early \cup {"forward"} => me.log = <<>> /\ me.code = 0
  /\ me.pc = "upstream" =>
       me.log = (IF me.noImp THEN <<>> ELSE <<"AuSuccess">>) /\ me.code = 0
  /\ me.pc = "done" =>
       /\ me.code \in {401, 403} => me.log = <<"AuFail">>
       /\ me.code = 500 => me.log = (IF me.sent = None \/ me.noImp THEN <<"AuFail">>
                                     ELSE <<"AuSuccess", "AuFail">>)
       /\ me.code = 200 => me.log = (IF me.noImp THEN <<>> ELSE <<"AuSuccess">>)
       /\ me.code = 0 => me.log = <<"AuSuccess">> /\ ~me.noImp /\ me.sent = None

RecordInv(me) == OnlyRequested(me) /\ Exact(me) /\ Logged(me)

KInv == \A r \in Request : RecordInv(req[r])

-----------------------------------------------------------------------------
(***************************************************************************)
(* Lemmas about the operators.                                             *)
(***************************************************************************)
(* The first value of a header that is present is reviewed.                *)
LEMMA FirstReviewed ==
  ASSUME NEW imp \in Headers, NEW k \in Present(imp)
  PROVE  /\ <<k, imp[k][1]>> \in Requested(imp)
         /\ Elements(Reviewed(k, imp[k])) \subseteq Value \cup {NoValue}
<1>1. k \in HeaderKey /\ imp[k] \in Seq(Value \cup {NoValue}) /\ imp[k] # <<>>
  BY DEF Present, Headers
<1>2. imp[k][1] \in Value \cup {NoValue} /\ 1 \in DOMAIN imp[k]
  BY <1>1
<1>3. <<imp[k][1]>>[1] = imp[k][1] /\ DOMAIN <<imp[k][1]>> = {1}
  OBVIOUS
<1>4. imp[k][1] \in Elements(Reviewed(k, imp[k]))
  BY <1>2, <1>3 DEF Elements, Reviewed
<1>5. Elements(Reviewed(k, imp[k])) \subseteq Value \cup {NoValue}
  <2>1. Reviewed(k, imp[k]) \in Seq(Value \cup {NoValue})
    BY ReviewedType
  <2> QED
    BY <2>1 DEF Elements
<1> QED
  BY <1>1, <1>2, <1>4, <1>5 DEF Requested, Claim

(* Headers ask for something exactly when there are some.                  *)
LEMMA RequestedEmpty ==
  ASSUME NEW imp \in Headers
  PROVE  Requested(imp) = {} <=> Present(imp) = {}
  BY FirstReviewed DEF Requested

(* Every group value is reviewed, and of the users the first.              *)
LEMMA RequestedParts ==
  ASSUME NEW imp \in Headers, HasUser(imp)
  PROVE  /\ ValuesOf(Requested(imp), "user") = {imp["user"][1]}
         /\ ValuesOf(Requested(imp), "group") = Elements(imp["group"])
<1>1. "user" \in Present(imp) /\ imp["user"] \in Seq(Value \cup {NoValue})
  BY DEF HasUser, Present, Headers, HeaderKey
<1>2. /\ <<"user", imp["user"][1]>> \in Requested(imp)
      /\ Elements(Reviewed("user", imp["user"])) = {imp["user"][1]}
  BY <1>1, FirstReviewed DEF Reviewed, Elements
<1>3. \A c \in Requested(imp) : c[1] = "user" => c[2] = imp["user"][1]
  BY <1>2 DEF Requested
<1>4. ValuesOf(Requested(imp), "user") = {imp["user"][1]}
  BY <1>2, <1>3 DEF ValuesOf
<1>5. imp["group"] \in Seq(Value \cup {NoValue}) /\ "group" \in HeaderKey
  BY DEF Headers, HeaderKey
<1>6. \A v \in Elements(imp["group"]) : <<"group", v>> \in Requested(imp)
  <2>1. ASSUME NEW v \in Elements(imp["group"])
        PROVE  "group" \in Present(imp) /\ v \in Value \cup {NoValue}
    BY <1>5 DEF Elements, Present
  <2> QED
    BY <1>5, <2>1 DEF Requested, Claim, Reviewed
<1>7. \A c \in Requested(imp) : c[1] = "group" => c[2] \in Elements(imp["group"])
  BY DEF Requested, Reviewed
<1>8. ValuesOf(Requested(imp), "group") = Elements(imp["group"])
  <2>1. \A v \in Elements(imp["group"]) : v \in ValuesOf(Requested(imp), "group")
    <3> SUFFICES ASSUME NEW v \in Elements(imp["group"])
                 PROVE  v \in ValuesOf(Requested(imp), "group")
      OBVIOUS
    <3> DEFINE c == <<"group", v>>
    <3>1. c \in Requested(imp) /\ c[1] = "group" /\ c[2] = v
      BY <1>6
    <3> QED
      BY <3>1 DEF ValuesOf
  <2>2. \A v \in ValuesOf(Requested(imp), "group") : v \in Elements(imp["group"])
    BY <1>7 DEF ValuesOf
  <2> QED
    BY <2>1, <2>2
<1> QED
  BY <1>4, <1>8

(* The configuration depends on the state only through cfg.                *)
LEMMA ConfSame ==
  ASSUME NEW r \in Request, NEW u, NEW claims, cfg' = cfg,
         req'[r].user = u, req'[r].target = claims
  PROVE  ConfFor(req[r].user, req[r].target)' = ConfFor(u, claims)
  BY DEF ConfFor, AddedExtras

(* What is settled stays settled while the request goes on.                *)
LEMMA SettledKept ==
  ASSUME NEW r \in Request, Settled(req[r]), cfg' = cfg,
         req'[r].user = req[r].user, req'[r].in = req[r].in,
         req'[r].target = req[r].target, req'[r].conf = req[r].conf,
         req[r].granted \subseteq req'[r].granted
  PROVE  Settled(req[r])'
<1>1. ConfFor(req[r].user, req[r].target)' = ConfFor(req[r].user, req[r].target)
  BY ConfSame
<1> QED
  BY <1>1 DEF Settled

-----------------------------------------------------------------------------
(***************************************************************************)
(* Each action keeps RecordInv.                                            *)
(***************************************************************************)
(* A request that leaves the chain before it was handed over.              *)
LEMMA RefuseRecords ==
  ASSUME TypeOK, NEW r \in Request, RequestInv(req[r]), RecordInv(req[r]),
         NEW code \in {401, 403, 500}, Refuse(r, code), req[r].pc \in Early
  PROVE  RecordInv(req[r])'
<1> DEFINE me  == req[r]
           you == req'[r]
<1>1. me.sent = None /\ me.log = <<>>
  BY DEF RequestInv, Underway, RecordInv, Logged
<1>2. /\ you.pc = "done" /\ you.code = code /\ you.log = Append(me.log, "AuFail")
      /\ you.sent = me.sent
  BY DEF TypeOK, RequestState, Refuse
<1>3. you.log = <<"AuFail">>
  BY <1>1, <1>2
<1> QED
  BY <1>1, <1>2, <1>3 DEF RecordInv, OnlyRequested, Exact, Logged, Early

LEMMA AuthenticateRecords ==
  ASSUME TypeOK, NEW r \in Request, RequestInv(req[r]), RecordInv(req[r]),
         Authenticate(r) \/ ReviewToken(r)
  PROVE  RecordInv(req[r])'
<1> DEFINE me  == req[r]
           you == req'[r]
<1>1. me.pc \in {"authenticate", "review"} /\ me.pc \in Early
  BY DEF Authenticate, ReviewToken, At, Early
<1>2. me.sent = None /\ me.log = <<>> /\ me.code = 0
  BY <1>1 DEF RequestInv, Underway, RecordInv, Logged
<1>3. CASE Refuse(r, 401)
  BY <1>1, <1>3, RefuseRecords
<1>4. CASE ~Refuse(r, 401)
  <2>1. /\ you.pc \in {"impersonate", "review"} /\ you.sent = me.sent
        /\ you.log = me.log /\ you.code = me.code
    BY <1>4 DEF TypeOK, RequestState, Authenticate, ReviewToken
  <2> QED
    BY <1>2, <2>1 DEF RecordInv, OnlyRequested, Exact, Logged, Early
<1> QED
  BY <1>3, <1>4

LEMMA ImpersonateRecords ==
  ASSUME TypeOK, NEW r \in Request, RequestInv(req[r]), RecordInv(req[r]), Impersonate(r)
  PROVE  RecordInv(req[r])'
<1> DEFINE me  == req[r]
           you == req'[r]
<1>1. me.pc = "impersonate" /\ me.pc \in Early /\ UNCHANGED Env
  BY DEF Impersonate, At, Early
<1>2. /\ me.sent = None /\ me.log = <<>> /\ me.code = 0
      /\ me.imp = me.in.imp /\ me.target = {} /\ me.queue = <<>>
      /\ ~me.noImp => me.user = me.in.user
  BY <1>1 DEF RequestInv, Underway, RecordInv, Logged
<1>3. CASE Refuse(r, 403)
  BY <1>1, <1>3, RefuseRecords
<1>4. CASE \/ req' = [req EXCEPT ![r].pc = "forward"] /\ me.noImp
           \/ req' = [req EXCEPT ![r].pc = "forward", ![r].noImp = TRUE]
  <2>1. /\ you.pc = "forward" /\ you.noImp /\ you.sent = me.sent
        /\ you.log = me.log /\ you.code = me.code
    <3>1. me \in RequestState
      BY DEF TypeOK
    <3>2. CASE you = [me EXCEPT !.pc = "forward"] /\ me.noImp
      BY <3>1, <3>2 DEF RequestState
    <3>3. CASE you = [me EXCEPT !.pc = "forward", !.noImp = TRUE]
      BY <3>1, <3>3 DEF RequestState
    <3> QED
      BY <1>4, <3>2, <3>3 DEF TypeOK
  <2> QED
    BY <1>2, <2>1 DEF RecordInv, OnlyRequested, Exact, Logged, Early
<1>5. CASE /\ ~me.noImp /\ me.user.name # NoValue /\ Present(me.imp) = {}
           /\ req' = [req EXCEPT ![r].pc = "forward", ![r].conf = ConfFor(me.user, {})]
  <2>1. /\ you.pc = "forward" /\ you.noImp = me.noImp /\ you.sent = me.sent
        /\ you.log = me.log /\ you.code = me.code /\ you.user = me.user
        /\ you.in = me.in /\ you.target = me.target /\ you.conf = ConfFor(me.user, {})
    BY <1>5 DEF TypeOK, RequestState
  <2>2. Requested(me.in.imp) = {}
    BY <1>2, <1>5 DEF Requested
  <2>3. ConfFor(req[r].user, req[r].target)' = ConfFor(me.user, {})
    BY <1>1, <1>2, <2>1, ConfSame DEF Env
  <2> HIDE DEF you
  <2>4. Settled(req[r])'
    BY <1>2, <1>5, <2>1, <2>2, <2>3 DEF Settled, you
  <2> QED
    BY <1>2, <2>1, <2>4 DEF RecordInv, OnlyRequested, Exact, Logged, Early, you
<1>6. CASE /\ ~me.noImp /\ me.user.name # NoValue
           /\ req' = [req EXCEPT ![r].pc = "check", ![r].todo = Present(me.imp)]
  <2>1. /\ you.pc = "check" /\ you.sent = me.sent /\ you.log = me.log
        /\ you.code = me.code /\ you.user = me.user /\ you.target = me.target
        /\ you.queue = me.queue
    BY <1>6 DEF TypeOK, RequestState
  <2>2. Elements(you.queue) = {}
    BY <1>2, <2>1 DEF Elements
  <2> QED
    BY <1>2, <1>6, <2>1, <2>2 DEF RecordInv, OnlyRequested, Exact, Logged, Early
<1> QED
  BY <1>3, <1>4, <1>5, <1>6 DEF Impersonate

LEMMA CheckHeaderRecords ==
  ASSUME TypeOK, NEW r \in Request, RequestInv(req[r]), RecordInv(req[r]), CheckHeader(r)
  PROVE  RecordInv(req[r])'
<1> DEFINE me  == req[r]
           you == req'[r]
           imp == me.in.imp
<1>1. me.pc = "check" /\ me.pc \in Early
  BY DEF CheckHeader, At, Early
<1>2. /\ me.imp = imp /\ imp \in Headers /\ me.sent = None /\ me.log = <<>> /\ me.code = 0
      /\ me.todo \subseteq Present(imp)
  BY <1>1 DEF RequestInv, Underway, Checking, RecordInv, Logged, TypeOK, RequestState
<1>3. CASE Refuse(r, 500)
  BY <1>1, <1>3, RefuseRecords
<1>4. ASSUME NEW k \in me.todo,
             req' = [req EXCEPT ![r].todo = @ \ {k}, ![r].key = k,
                                ![r].queue = Reviewed(k, me.imp[k])]
      PROVE  RecordInv(req[r])'
  <2>1. /\ you.pc = "check" /\ you.in = me.in /\ you.user = me.user /\ you.sent = me.sent
        /\ you.target = me.target /\ you.key = k /\ you.queue = Reviewed(k, imp[k])
        /\ you.log = me.log /\ you.code = me.code
    BY <1>1, <1>2, <1>4 DEF TypeOK, RequestState
  <2>2. \A v \in Elements(you.queue) : <<k, v>> \in Requested(imp)
    <3>1. Elements(Reviewed(k, imp[k])) \subseteq Value \cup {NoValue} /\ k \in HeaderKey
      BY <1>2, FirstReviewed DEF Present
    <3> QED
      BY <1>2, <2>1, <3>1 DEF Requested, Claim
  <2> QED
    BY <1>1, <1>2, <2>1, <2>2 DEF RecordInv, OnlyRequested, Exact, Logged, Early
<1> QED
  BY <1>3, <1>4, Zenon DEF CheckHeader

LEMMA ReviewClaimRecords ==
  ASSUME TypeOK, NEW r \in Request, RequestInv(req[r]), RecordInv(req[r]), ReviewClaim(r)
  PROVE  RecordInv(req[r])'
<1> DEFINE me    == req[r]
           you   == req'[r]
           claim == <<me.key, Head(me.queue)>>
<1>1. me.pc = "check" /\ me.pc \in Early /\ me.queue # <<>>
  BY DEF ReviewClaim, At, Early
<1>2. /\ me.queue \in Seq(Value \cup {NoValue}) /\ me.sent = None
      /\ me.log = <<>> /\ me.code = 0
  BY <1>1 DEF RequestInv, Underway, RecordInv, Logged, TypeOK, RequestState
<1>3. CASE Refuse(r, 403) \/ Refuse(r, 500)
  BY <1>1, <1>3, RefuseRecords
<1>4. CASE req' = [req EXCEPT ![r].queue = Tail(@), ![r].target = @ \cup {claim}]
  <2>1. /\ you.pc = "check" /\ you.in = me.in /\ you.user = me.user /\ you.sent = me.sent
        /\ you.target = me.target \cup {claim} /\ you.key = me.key
        /\ you.queue = Tail(me.queue) /\ you.log = me.log /\ you.code = me.code
    BY <1>1, <1>4 DEF TypeOK, RequestState
  <2>2. Elements(me.queue) = {Head(me.queue)} \cup Elements(Tail(me.queue))
    BY <1>1, <1>2, HeadAndTail
  <2>3. OnlyRequested(req[r])'
    BY <1>1, <2>1, <2>2 DEF RecordInv, OnlyRequested
  <2> QED
    BY <1>1, <1>2, <2>1, <2>3 DEF RecordInv, Exact, Logged, Early
<1> QED
  BY <1>3, <1>4 DEF ReviewClaim

LEMMA AuthorizedRecords ==
  ASSUME TypeOK, NEW r \in Request, RequestInv(req[r]), RecordInv(req[r]), Authorized(r)
  PROVE  RecordInv(req[r])'
<1> DEFINE me   == req[r]
           you  == req'[r]
           imp  == me.in.imp
           conf == ConfFor(me.user, me.target)
<1>1. /\ me.pc = "check" /\ UNCHANGED Env /\ me.todo = {} /\ me.queue = <<>>
      /\ imp \in Headers
  BY DEF Authorized, At, TypeOK, RequestState, Incoming
<1>2. /\ you.pc = "forward" /\ you.noImp = me.noImp /\ you.in = me.in
      /\ you.user = me.user /\ you.sent = me.sent /\ you.granted = me.granted
      /\ you.target = me.target /\ you.conf = conf /\ you.log = me.log
      /\ you.code = me.code
  BY DEF Authorized, TypeOK, RequestState
<1>3. /\ me.user = me.in.user /\ me.user.name # NoValue /\ me.sent = None
      /\ me.log = <<>> /\ me.code = 0 /\ me.target \subseteq me.granted
      /\ Present(imp) # {} => HasUser(imp)
  BY <1>1 DEF RequestInv, Underway, Early, Checking, RecordInv, Exact, Logged
<1>4. me.target = Requested(imp)
  <2>1. me.target \subseteq Requested(imp)
    BY <1>1 DEF RecordInv, OnlyRequested
  <2>2. Elements(<<>>) = {}
    BY DEF Elements
  <2>3. \A k \in Present(imp) : \A v \in Elements(Reviewed(k, imp[k])) :
          <<k, v>> \in me.target
    BY <1>1, <2>2 DEF RequestInv, Checking
  <2>4. ASSUME NEW c \in Requested(imp) PROVE c \in me.target
    <3>1. c = <<c[1], c[2]>>
      BY DEF Requested, Claim
    <3> QED
      BY <2>3, <3>1 DEF Requested
  <2> QED
    BY <2>1, <2>4
<1>5. ConfFor(req[r].user, req[r].target)' = conf
  <2>1. cfg' = cfg
    BY <1>1 DEF Env
  <2> QED
    BY <1>2, <2>1, ConfSame
<1> HIDE DEF you, conf
<1>6. Settled(req[r])'
  BY <1>2, <1>3, <1>4, <1>5 DEF Settled, you
<1> QED
  BY <1>2, <1>3, <1>6 DEF RecordInv, OnlyRequested, Exact, Logged, Early, you

LEMMA ForwardRecords ==
  ASSUME TypeOK, NEW r \in Request, RequestInv(req[r]), RecordInv(req[r]), Forward(r)
  PROVE  RecordInv(req[r])'
<1> DEFINE me    == req[r]
           you   == req'[r]
           past  == [auth |-> Append(me.auth, BearerToken), imp |-> me.imp, as |-> None]
           acted == [auth |-> me.auth \o DelegateCredentials, imp |-> me.imp,
                     as |-> Impersonated(me.imp, me.conf)]
<1>1. me.pc = "forward" /\ UNCHANGED Env
  BY DEF Forward, At
<1>2. /\ me.sent = None /\ me.log = <<>> /\ me.code = 0
      /\ ~me.noImp => Settled(me)
  BY <1>1 DEF RequestInv, Underway, RecordInv, Exact, Logged
<1>3. past # None /\ acted # None
  BY SentType, SentAssumption
<1> HIDE DEF past, acted
<1>4. CASE /\ me.noImp
           /\ req' = [req EXCEPT ![r].pc = "upstream", ![r].audit = me.user,
                                 ![r].sent = past]
  <2>1. /\ you.pc = "upstream" /\ you.noImp /\ you.sent = past
        /\ you.log = me.log /\ you.code = me.code
    BY <1>4 DEF TypeOK, RequestState
  <2> QED
    BY <1>2, <1>3, <2>1 DEF RecordInv, OnlyRequested, Exact, Logged, Early
<1>5. CASE /\ ~me.noImp
           /\ req' = [req EXCEPT ![r].pc = "upstream", ![r].audit = ContextUser(me),
                                 ![r].log = Append(@, "AuSuccess"), ![r].sent = acted]
  <2>1. /\ you.pc = "upstream" /\ you.noImp = me.noImp /\ you.sent = acted
        /\ you.audit = ContextUser(me) /\ you.log = Append(me.log, "AuSuccess")
        /\ you.code = me.code /\ you.in = me.in /\ you.user = me.user
        /\ you.target = me.target /\ you.conf = me.conf /\ you.granted = me.granted
    BY <1>5 DEF TypeOK, RequestState
  <2>2. Settled(req[r])'
    BY <1>1, <1>2, <1>5, <2>1, SettledKept DEF Env
  <2>3. you.log = <<"AuSuccess">>
    BY <1>2, <2>1
  <2>4. you.audit = ActingUser(you.user, you.target)
    BY <2>1 DEF ContextUser
  <2> HIDE DEF you
  <2>5. Exact(req[r])'
    BY <1>3, <2>1, <2>2, <2>4 DEF Exact, ActingUser, TargetOf, you
  <2> QED
    BY <1>2, <1>5, <2>1, <2>3, <2>5 DEF RecordInv, OnlyRequested, Logged, Early, you
<1>6. CASE /\ ~me.noImp
           /\ req' = [req EXCEPT ![r].pc = "done", ![r].audit = ContextUser(me),
                                 ![r].log = Append(@, "AuSuccess")]
  <2>1. /\ you.pc = "done" /\ you.code = me.code /\ you.sent = me.sent
        /\ you.noImp = me.noImp /\ you.log = Append(me.log, "AuSuccess")
    BY <1>6 DEF TypeOK, RequestState
  <2>2. you.sent = None /\ you.code = 0 /\ you.log = <<"AuSuccess">>
    BY <1>2, <2>1
  <2>3. you.noImp = FALSE
    BY <1>6 DEF TypeOK, RequestState
  <2> HIDE DEF you
  <2>4. Logged(req[r])'
    <3>1. you.code \notin {401, 403} /\ you.code # 500 /\ you.code # 200
      BY <2>2
    <3>2. you.pc \notin Early \cup {"forward", "upstream"}
      BY <2>1 DEF Early
    <3> QED
      BY <2>2, <2>3, <3>1, <3>2 DEF Logged, you
  <2>5. OnlyRequested(req[r])' /\ Exact(req[r])'
    BY <2>1, <2>2 DEF OnlyRequested, Exact, you
  <2> QED
    BY <2>4, <2>5 DEF RecordInv
<1> QED
  BY <1>4, <1>5, <1>6 DEF Forward, past, acted

LEMMA UpstreamRecords ==
  ASSUME TypeOK, NEW r \in Request, RequestInv(req[r]), RecordInv(req[r]), Upstream(r)
  PROVE  RecordInv(req[r])'
<1> DEFINE me  == req[r]
           you == req'[r]
<1>1. me.pc = "upstream" /\ UNCHANGED Env
  BY DEF Upstream, At
<1>2. /\ me.sent # None /\ me.log = (IF me.noImp THEN <<>> ELSE <<"AuSuccess">>)
      /\ ~me.noImp => Settled(me) /\ me.audit = ActingUser(me.user, me.target)
  BY <1>1 DEF RecordInv, Exact, Logged
<1>3. /\ you.pc = "done" /\ you.noImp = me.noImp /\ you.sent = me.sent
      /\ you.audit = me.audit /\ you.in = me.in /\ you.user = me.user
      /\ you.target = me.target /\ you.conf = me.conf /\ you.granted = me.granted
      /\ \/ you.code = 200 /\ you.log = me.log
         \/ you.code = 500 /\ you.log = Append(me.log, "AuFail")
  BY DEF Upstream, Refuse, TypeOK, RequestState
<1>4. ~me.noImp => Settled(req[r])'
  BY <1>1, <1>2, <1>3, SettledKept DEF Env
<1>5. Exact(req[r])'
  BY <1>2, <1>3, <1>4 DEF Exact, ActingUser, TargetOf
<1>6. Logged(req[r])'
  BY <1>2, <1>3 DEF Logged, Early
<1> QED
  BY <1>3, <1>5, <1>6 DEF RecordInv, OnlyRequested

LEMMA ArriveRecords ==
  ASSUME TypeOK, NEW r \in Request, Arrive(r)
  PROVE  RecordInv(req[r])'
<1> DEFINE you == req'[r]
<1>1. /\ you.pc = "authenticate" /\ you.sent = None /\ you.log = <<>> /\ you.code = 0
  BY DEF TypeOK, Arrive, Idle
<1> QED
  BY <1>1 DEF RecordInv, OnlyRequested, Exact, Logged, Early

(* A request is left alone by the steps of the others, and a change of     *)
(* rights adds to granted at most.                                         *)
LEMMA OthersRecord ==
  ASSUME NEW r \in Request, RecordInv(req[r]), cfg' = cfg,
         req'[r].pc = req[r].pc, req'[r].in = req[r].in, req'[r].user = req[r].user,
         req'[r].noImp = req[r].noImp, req'[r].key = req[r].key,
         req'[r].queue = req[r].queue, req'[r].target = req[r].target,
         req'[r].conf = req[r].conf, req'[r].sent = req[r].sent,
         req'[r].code = req[r].code, req'[r].log = req[r].log,
         req'[r].audit = req[r].audit, req[r].granted \subseteq req'[r].granted
  PROVE  RecordInv(req[r])'
<1>1. Settled(req[r]) => Settled(req[r])'
  BY SettledKept
<1> HIDE DEF Settled
<1>2. Exact(req[r])'
  BY <1>1 DEF RecordInv, Exact, ActingUser, TargetOf
<1>3. OnlyRequested(req[r])' /\ Logged(req[r])'
  BY DEF RecordInv, OnlyRequested, Logged
<1> QED
  BY <1>2, <1>3 DEF RecordInv

-----------------------------------------------------------------------------
(***************************************************************************)
(* The invariant is inductive.                                             *)
(***************************************************************************)
LEMMA InitKInv == Init => KInv
<1> SUFFICES ASSUME Init PROVE KInv
  OBVIOUS
<1>1. RecordInv(Idle)
  BY DEF RecordInv, OnlyRequested, Exact, Logged, Early, Idle
<1> QED
  BY <1>1 DEF Init, KInv

LEMMA NextKInv == IInv /\ KInv /\ [Next]_vars => KInv'
<1> SUFFICES ASSUME IInv, KInv, [Next]_vars, NEW q \in Request
             PROVE  RecordInv(req[q])'
  BY DEF KInv
<1>0. TypeOK /\ RequestInv(req[q]) /\ RecordInv(req[q])
  BY DEF IInv, KInv
<1>1. ASSUME NEW r \in Request, Arrive(r) \/ Handler(r) \/ ApiServer(r)
      PROVE  RecordInv(req[q])'
  <2>1. CASE q # r
    <3>1. cfg' = cfg /\ req'[q] = req[q]
      BY <1>0, <1>1, <2>1, StepLocal DEF Env
    <3> QED
      BY <1>0, <3>1, OthersRecord
  <2>2. CASE q = r
    BY <1>0, <1>1, <2>2, ArriveRecords, AuthenticateRecords, ImpersonateRecords,
       CheckHeaderRecords, AuthorizedRecords, ForwardRecords, ReviewClaimRecords,
       UpstreamRecords
    DEF Handler, ApiServer
  <2> QED
    BY <2>1, <2>2
<1>2. CASE OidcInitialized \/ UNCHANGED vars
  <2>1. cfg' = cfg /\ req'[q] = req[q]
    BY <1>2 DEF OidcInitialized, vars
  <2> QED
    BY <1>0, <2>1, OthersRecord
<1>3. CASE ChangeRbac
  <2> DEFINE more == {c \in Claim : <<req[q].in.user.name, c>> \in rbac'}
  <2>1. /\ cfg' = cfg /\ req[q] \in RequestState
        /\ req'[q] \in {req[q], [req[q] EXCEPT !.granted = @ \cup more]}
    BY <1>0, <1>3 DEF ChangeRbac, TypeOK
  <2> HIDE DEF more
  <2>2. /\ req'[q].pc = req[q].pc /\ req'[q].in = req[q].in /\ req'[q].user = req[q].user
        /\ req'[q].noImp = req[q].noImp /\ req'[q].key = req[q].key
        /\ req'[q].queue = req[q].queue /\ req'[q].target = req[q].target
        /\ req'[q].conf = req[q].conf /\ req'[q].sent = req[q].sent
        /\ req'[q].code = req[q].code /\ req'[q].log = req[q].log
        /\ req'[q].audit = req[q].audit /\ req[q].granted \subseteq req'[q].granted
    BY <2>1 DEF RequestState
  <2> QED
    BY <1>0, <2>1, <2>2, OthersRecord
<1> QED
  BY <1>1, <1>2, <1>3 DEF Next

LEMMA Records == Spec => [](IInv /\ KInv)
  BY InitIInv, NextIInv, InitKInv, NextKInv, PTL DEF Spec

-----------------------------------------------------------------------------
(***************************************************************************)
(* Theorems about the records.                                             *)
(***************************************************************************)
OriginalKeys == {OriginalUser, OriginalGroups, OriginalUID, OriginalExtra}

(* The originaluser extras say what there is to say of the user.           *)
LEMMA RecordIsWritten ==
  ASSUME NEW u \in Identity, NEW key \in OriginalKeys
  PROVE  /\ \A v \in RecordOf(u)[key] : <<key, v>> \in OriginalUserExtras(u)
         /\ \A e \in OriginalUserExtras(u) : e[1] = key => e[2] \in RecordOf(u)[key]
<1> USE DEF OriginalUserExtras, RecordOf, OriginalUser, OriginalGroups, OriginalUID,
            OriginalExtra
<1>1. CASE key = OriginalUser
  BY <1>1
<1>2. CASE key = OriginalGroups
  BY <1>2
<1>3. CASE key = OriginalUID
  BY <1>3
<1>4. CASE key = OriginalExtra
  BY <1>4
<1> QED
  BY <1>1, <1>2, <1>3, <1>4 DEF OriginalKeys

(* Whatever extras there were, a name the user has values for holds these, *)
(* and a name it has none for what it held.                                *)
LEMMA OriginalExtras ==
  ASSUME NEW u \in Identity, NEW key \in OriginalKeys, NEW extra, NEW some, NEW other,
         extra \subseteq some \X other
  PROVE  LET said == ValuesOf(Merged(extra, OriginalUserExtras(u)), key)
         IN IF RecordOf(u)[key] # {} THEN said = RecordOf(u)[key]
            ELSE \A v \in said : <<key, v>> \in extra
<1> DEFINE own    == OriginalUserExtras(u)
           all    == Merged(extra, own)
           record == RecordOf(u)[key]
<1>1. /\ \A v \in record : <<key, v>> \in own
      /\ \A e \in own : e[1] = key => e[2] \in record
  BY RecordIsWritten
<1> HIDE DEF own, record
<1>2. CASE record # {}
  <2>1. ASSUME NEW e \in all, e[1] = key PROVE e[2] \in record
    <3>1. PICK w \in record : <<key, w>> \in own /\ <<key, w>>[1] = key
      BY <1>1, <1>2
    <3>2. e \in own
      BY <2>1, <3>1 DEF Merged
    <3> QED
      BY <1>1, <2>1, <3>2
  <2>2. ASSUME NEW v \in record PROVE v \in ValuesOf(all, key)
    <3>1. <<key, v>> \in all /\ <<key, v>>[1] = key /\ <<key, v>>[2] = v
      BY <1>1, <2>2 DEF Merged
    <3> QED
      BY <3>1 DEF ValuesOf
  <2>3. \A v \in ValuesOf(all, key) : v \in record
    BY <2>1 DEF ValuesOf
  <2> QED
    BY <1>2, <2>2, <2>3 DEF own, record
<1>3. CASE record = {}
  <2>1. ASSUME NEW v \in ValuesOf(all, key) PROVE <<key, v>> \in extra
    <3>1. PICK e \in all : e[1] = key /\ e[2] = v
      BY <2>1 DEF ValuesOf
    <3>2. e \in extra
      BY <1>1, <1>3, <3>1 DEF Merged
    <3> QED
      BY <3>1, <3>2
  <2> QED
    BY <1>3, <2>1 DEF own, record
<1> QED
  BY <1>2, <1>3

(* Everything known of a request that was handed over with an identity.    *)
LEMMA HandedOverExactly ==
  ASSUME IInv, KInv, NEW r \in Request, ForwardedAs(r) # None
  PROVE  /\ req[r].sent # None /\ ~req[r].noImp /\ Settled(req[r])
         /\ ForwardedAs(r) = ConfFor(req[r].user, req[r].target)
         /\ req[r].audit = ActingUser(req[r].user, req[r].target)
         /\ req[r].in.imp \in Headers /\ req[r].in.user \in Identity
<1>1. req[r].sent # None /\ ForwardedAs(r) = req[r].sent.as
  BY DEF ForwardedAs, HandedAs
<1>2. ~req[r].noImp /\ req[r].sent.as = req[r].conf
  BY <1>1 DEF IInv, RequestInv, HandedOver
<1>3. Settled(req[r]) /\ req[r].audit = ActingUser(req[r].user, req[r].target)
  BY <1>1, <1>2 DEF KInv, RecordInv, Exact
<1>4. req[r].in.imp \in Headers /\ req[r].in.user \in Identity
  BY DEF IInv, TypeOK, RequestState, Incoming
<1> QED
  BY <1>1, <1>2, <1>3, <1>4 DEF Settled

(* The API server's audit log learns who asked. Under an originaluser name *)
(* the authenticated user has a value for is exactly that value, whatever  *)
(* the client sent under it. Under one it has none for is only what was    *)
(* configured or what RBAC allowed (handlers.go:176-203).                  *)
THEOREM AskerRecorded == Spec => []OriginalUserRecorded
<1>1. IInv /\ KInv => OriginalUserRecorded
  <2> SUFFICES ASSUME IInv, KInv, NEW r \in Request, ForwardedAs(r) # None,
                      Present(req[r].in.imp) # {},
                      NEW key \in DOMAIN RecordOf(req[r].in.user)
               PROVE  LET record == RecordOf(req[r].in.user)
                          said   == ValuesOf(ForwardedAs(r).extra, key)
                      IN IF record[key] # {} THEN said = record[key]
                         ELSE \A v \in said :
                                <<key, v>> \in req[r].granted \cup AddedExtras
    BY DEF OriginalUserRecorded
  <2> DEFINE u      == req[r].in.user
             claims == req[r].target
             extra  == TargetOf(claims).extra \cup AddedExtras
  <2>1. /\ ForwardedAs(r) = ConfFor(u, claims) /\ u \in Identity
        /\ claims = Requested(req[r].in.imp) /\ req[r].in.imp \in Headers
        /\ claims \subseteq req[r].granted
    BY HandedOverExactly DEF Settled
  <2>2. claims # {}
    BY <2>1, RequestedEmpty
  <2>3. ForwardedAs(r).extra = Merged(extra, OriginalUserExtras(u))
    <3>1. ConfFor(u, claims).extra = Merged(extra, OriginalUserExtras(u))
      BY <2>2 DEF ConfFor, ActingUser
    <3> QED
      BY <2>1, <3>1
  <2>4. TargetOf(claims).extra \subseteq claims
    BY DEF TargetOf
  <2>5. /\ req[r].target \in SUBSET Claim /\ AddedExtras \in Extras
    BY ValueAssumption, ConfigsAssumption
    DEF IInv, TypeOK, RequestState, AddedExtras, Extras, ProxyExtra
  <2>6. extra \subseteq (HeaderKey \cup ExtraName \cup ProxyExtra)
                        \X (Value \cup {NoValue})
    <3> HIDE DEF claims
    <3>1. claims \subseteq HeaderKey \X (Value \cup {NoValue})
      BY <2>5 DEF claims, Claim
    <3>2. AddedExtras \subseteq (ExtraName \cup ProxyExtra) \X (Value \cup {NoValue})
      BY <2>5 DEF Extras
    <3> QED
      BY <2>4, <3>1, <3>2
  <2>7. key \in OriginalKeys
    BY DEF RecordOf, OriginalKeys
  <2>8. extra \subseteq req[r].granted \cup AddedExtras
    BY <2>1, <2>4
  <2> HIDE DEF u, claims, extra
  <2>9. LET said == ValuesOf(Merged(extra, OriginalUserExtras(u)), key)
        IN IF RecordOf(u)[key] # {} THEN said = RecordOf(u)[key]
           ELSE \A v \in said : <<key, v>> \in extra
    BY <2>1, <2>6, <2>7, OriginalExtras
  <2> QED
    BY <2>3, <2>8, <2>9 DEF u
<1> QED
  BY <1>1, Records, PTL

(* The proxy's own audit event names the user the API server sees          *)
(* (context.go:49-55).                                                     *)
THEOREM AuditAgrees == Spec => []AuditNamesForwardedUser
<1>1. IInv /\ KInv => AuditNamesForwardedUser
  <2>1. ASSUME NEW u, NEW claims
        PROVE  /\ ConfFor(u, claims).name = ActingUser(u, claims).name
               /\ ConfFor(u, claims).groups
                    = ActingUser(u, claims).groups \cup {AllAuthenticated}
    BY DEF ConfFor
  <2> QED
    BY <2>1, HandedOverExactly DEF AuditNamesForwardedUser
<1> QED
  BY <1>1, Records, PTL

(* The access log agrees with the outcome of every request: refused,       *)
(* failed, answered as itself or as another, answered as a passthrough, or *)
(* aborted without an answer (handlers.go:238, proxy.go:236-263).          *)
THEOREM LogAgrees == Spec => []AccessLogTruthful
<1>1. IInv /\ KInv => AccessLogTruthful
  <2> SUFFICES ASSUME IInv, KInv, NEW r \in Request, req[r].pc = "done"
               PROVE  LET me == req[r]
                      IN /\ me.code \in {401, 403} => me.log = <<"AuFail">>
                         /\ me.code = 500 =>
                              me.log = (IF ForwardedAs(r) = None THEN <<"AuFail">>
                                        ELSE <<"AuSuccess", "AuFail">>)
                         /\ me.code = 200 =>
                              me.log = (IF me.noImp THEN <<>> ELSE <<"AuSuccess">>)
                         /\ me.code = 0 =>
                              me.log = <<"AuSuccess">> /\ ~me.noImp /\ me.sent = None
    BY DEF AccessLogTruthful, At
  <2>1. ForwardedAs(r) = None <=> req[r].sent = None \/ req[r].noImp
    BY DEF IInv, RequestInv, HandedOver, ForwardedAs, HandedAs
  <2> QED
    BY <2>1 DEF KInv, RecordInv, Logged
<1> QED
  BY <1>1, Records, PTL

-----------------------------------------------------------------------------
(***************************************************************************)
(* What one step of a handler, or one answer of the API server, does.      *)
(***************************************************************************)
Accepted(r) == req[r].in.cred = "oidc" /\ oidcReady

(* From one handler to the next. Only a token that was not accepted is     *)
(* reviewed.                                                               *)
Turn(r) ==
  /\ req[r].pc \in Early /\ req'[r].pc \in Early \cup {"forward"}
  /\ req'[r].sent = req[r].sent /\ req'[r].code = req[r].code
  /\ req'[r].pc = "review" => ~Accepted(r)

(* A refusal before the request is handed over; 401 never comes after the  *)
(* token was accepted.                                                     *)
Refusal(r) ==
  /\ req[r].pc \in Early /\ req'[r].pc = "done" /\ req'[r].sent = req[r].sent
  /\ req'[r].code \in {401, 403, 500}
  /\ req'[r].code = 401 => req[r].pc = "review" \/ ~Accepted(r)

HandOver(r) ==
  /\ Forward(r) /\ req[r].pc = "forward" /\ req'[r].code = req[r].code
  /\ \/ req'[r].pc = "upstream"
     \/ req'[r].pc = "done" /\ req'[r].sent = req[r].sent

Reply(r) ==
  /\ req[r].pc = "upstream" /\ req'[r].pc = "done" /\ req'[r].sent = req[r].sent
  /\ req'[r].code \in {200, 500}

LEMMA RefuseShape ==
  ASSUME TypeOK, NEW r \in Request, NEW code, Refuse(r, code)
  PROVE  /\ req'[r].pc = "done" /\ req'[r].sent = req[r].sent /\ req'[r].code = code
         /\ req'[r].in = req[r].in /\ req'[r].granted = req[r].granted
  BY DEF TypeOK, RequestState, Refuse

LEMMA ArriveShape ==
  ASSUME TypeOK, NEW r \in Request, Arrive(r)
  PROVE  /\ req'[r].pc = "authenticate" /\ req'[r].sent = None /\ req'[r].code = 0
         /\ \A q \in Request \ {r} : req'[q] = req[q]
  BY DEF TypeOK, Arrive, Idle

LEMMA StepShape ==
  ASSUME TypeOK, NEW r \in Request, Handler(r) \/ ApiServer(r)
  PROVE  /\ req'[r].in = req[r].in /\ req'[r].granted = req[r].granted
         /\ Turn(r) \/ Refusal(r) \/ HandOver(r) \/ Reply(r)
<1> USE DEF At, Early
<1>1. CASE Authenticate(r)
  <2>1. CASE ~Accepted(r) /\ Refuse(r, 401)
    BY <1>1, <2>1, RefuseShape DEF Authenticate, Refusal
  <2>2. CASE req' = [req EXCEPT ![r].pc = "impersonate", ![r].user = req[r].in.user,
                                ![r].auth = <<>>]
    BY <1>1, <2>2 DEF Authenticate, TypeOK, RequestState, Turn
  <2>3. CASE ~Accepted(r) /\ req' = [req EXCEPT ![r].pc = "review"]
    BY <1>1, <2>3 DEF Authenticate, TypeOK, RequestState, Turn
  <2> QED
    BY <1>1, <2>1, <2>2, <2>3 DEF Authenticate, Accepted
<1>2. CASE ReviewToken(r)
  <2>1. CASE Refuse(r, 401)
    BY <1>2, <2>1, RefuseShape DEF ReviewToken, Refusal
  <2>2. CASE req' = [req EXCEPT ![r].pc = "impersonate", ![r].noImp = TRUE]
    BY <1>2, <2>2 DEF ReviewToken, TypeOK, RequestState, Turn
  <2> QED
    BY <1>2, <2>1, <2>2 DEF ReviewToken
<1>3. CASE Impersonate(r)
  <2>1. CASE Refuse(r, 403)
    BY <1>3, <2>1, RefuseShape DEF Impersonate, Refusal
  <2>2. CASE \/ req' = [req EXCEPT ![r].pc = "forward"]
             \/ req' = [req EXCEPT ![r].pc = "forward", ![r].noImp = TRUE]
    BY <1>3, <2>2 DEF Impersonate, TypeOK, RequestState, Turn
  <2>3. CASE req' = [req EXCEPT ![r].pc = "forward",
                                ![r].conf = ConfFor(req[r].user, {})]
    BY <1>3, <2>3 DEF Impersonate, TypeOK, RequestState, Turn
  <2>4. CASE req' = [req EXCEPT ![r].pc = "check", ![r].todo = Present(req[r].imp)]
    BY <1>3, <2>4 DEF Impersonate, TypeOK, RequestState, Turn
  <2> QED
    BY <1>3, <2>1, <2>2, <2>3, <2>4 DEF Impersonate
<1>4. CASE CheckHeader(r)
  <2>1. CASE Refuse(r, 500)
    BY <1>4, <2>1, RefuseShape DEF CheckHeader, Refusal
  <2>2. CASE \E k \in req[r].todo :
               req' = [req EXCEPT ![r].todo = @ \ {k}, ![r].key = k,
                                  ![r].queue = Reviewed(k, req[r].imp[k])]
    <3>1. PICK k, queue : req' = [req EXCEPT ![r].todo = @ \ {k}, ![r].key = k,
                                             ![r].queue = queue]
      BY <2>2, Zenon
    <3> QED
      BY <1>4, <3>1 DEF CheckHeader, TypeOK, RequestState, Turn
  <2> QED
    BY <1>4, <2>1, <2>2, Zenon DEF CheckHeader
<1>5. CASE ReviewClaim(r)
  <2>1. CASE Refuse(r, 403) \/ Refuse(r, 500)
    BY <1>5, <2>1, RefuseShape DEF ReviewClaim, Refusal
  <2>2. CASE \E claim : req' = [req EXCEPT ![r].queue = Tail(@),
                                           ![r].target = @ \cup {claim}]
    BY <1>5, <2>2 DEF ReviewClaim, TypeOK, RequestState, Turn
  <2> QED
    BY <1>5, <2>1, <2>2 DEF ReviewClaim
<1>6. CASE Authorized(r)
  BY <1>6 DEF Authorized, TypeOK, RequestState, Turn
<1>7. CASE Forward(r)
  <2>1. CASE \E user, sent : req' = [req EXCEPT ![r].pc = "upstream", ![r].audit = user,
                                                ![r].sent = sent]
    BY <1>7, <2>1 DEF Forward, TypeOK, RequestState, HandOver
  <2>2. CASE \E user, sent : req' = [req EXCEPT ![r].pc = "upstream", ![r].audit = user,
                                                ![r].log = Append(@, "AuSuccess"),
                                                ![r].sent = sent]
    BY <1>7, <2>2 DEF Forward, TypeOK, RequestState, HandOver
  <2>3. CASE \E user : req' = [req EXCEPT ![r].pc = "done", ![r].audit = user,
                                          ![r].log = Append(@, "AuSuccess")]
    BY <1>7, <2>3 DEF Forward, TypeOK, RequestState, HandOver
  <2> QED
    BY <1>7, <2>1, <2>2, <2>3 DEF Forward
<1>8. CASE Upstream(r)
  <2>1. CASE Refuse(r, 500)
    BY <1>8, <2>1, RefuseShape DEF Upstream, Reply
  <2>2. CASE req' = [req EXCEPT ![r].pc = "done", ![r].code = 200]
    BY <1>8, <2>2 DEF Upstream, TypeOK, RequestState, Reply
  <2> QED
    BY <1>8, <2>1, <2>2 DEF Upstream
<1> QED
  BY <1>1, <1>2, <1>3, <1>4, <1>5, <1>6, <1>7, <1>8 DEF Handler, ApiServer

-----------------------------------------------------------------------------
(***************************************************************************)
(* The handlers implement Gateway.                                         *)
(***************************************************************************)
LEMMA StandingIs ==
  ASSUME NEW me
  PROVE  /\ Standing(me) \in {"closed", "pending", "admitted", "untouched"}
         /\ Standing(me) = "closed" <=> me.pc \in {"idle", "done"}
         /\ Standing(me) = "admitted" <=> me.pc = "upstream" /\ ~me.noImp
         /\ Standing(me) = "untouched" <=> me.pc = "upstream" /\ me.noImp
  BY DEF Standing

(* A step of one request moves its gate alone.                             *)
LEMMA GateMoves ==
  ASSUME TypeOK, NEW r \in Request, Arrive(r) \/ Handler(r) \/ ApiServer(r)
  PROVE  /\ Passthrough' = Passthrough /\ Rights' = Rights
         /\ Gates' = [Gates EXCEPT ![r] = GateOf(req'[r])]
<1>1. UNCHANGED Env /\ \A q \in Request \ {r} : req'[q] = req[q]
  BY StepLocal
<1>2. Gates' = [q \in Request |-> GateOf(req'[q])]
  BY DEF Gates
<1>3. \A q \in Request : GateOf(req'[q]) = IF q = r THEN GateOf(req'[r]) ELSE GateOf(req[q])
  BY <1>1
<1> QED
  BY <1>1, <1>2, <1>3 DEF Gates, Passthrough, Rights, Env

(* The fields of a gate.                                                   *)
LEMMA GateFields ==
  ASSUME NEW me
  PROVE  /\ GateOf(me).at = Standing(me) /\ GateOf(me).caller = me.in.user
         /\ GateOf(me).wants = WantedClaims(me.in.imp)
         /\ GateOf(me).could = me.granted \cap NameOrGroup
         /\ GateOf(me).as = IF HandedAs(me) = None THEN {} ELSE AsClaims(HandedAs(me))
  BY DEF GateOf

LEMMA GateMoved ==
  ASSUME NEW me, NEW you, you.in = me.in, you.granted = me.granted,
         HandedAs(you) = HandedAs(me)
  PROVE  GateOf(you) = [GateOf(me) EXCEPT !.at = Standing(you)]
  BY DEF GateOf

LEMMA GateTyped ==
  ASSUME NEW me, me.in.user \in Identity
  PROVE  GateOf(me) \in Promise!Gate
<1>1. Standing(me) \in {"closed", "pending", "admitted", "untouched"}
  BY DEF Standing
<1>2. /\ WantedClaims(me.in.imp) \in SUBSET NameOrGroup
      /\ (me.granted \cap NameOrGroup) \in SUBSET NameOrGroup
      /\ AsClaims(HandedAs(me)) \in SUBSET NameOrGroup
  BY DEF WantedClaims, AsClaims
<1>3. (IF HandedAs(me) = None THEN {} ELSE AsClaims(HandedAs(me))) \in SUBSET NameOrGroup
  BY <1>2
<1> QED
  BY <1>1, <1>2, <1>3 DEF GateOf, Promise!Gate

(* A handler that hands nothing over leaves the gate as it is or closes it.*)
LEMMA GateQuiet ==
  ASSUME TypeOK, NEW r \in Request, Handler(r) \/ ApiServer(r),
         req[r].pc \in Early \cup {"forward", "upstream"},
         \/ req[r].pc \in Early /\ req'[r].pc \in Early \cup {"forward"}
         \/ req'[r].pc = "done",
         req'[r].in = req[r].in, req'[r].granted = req[r].granted,
         req'[r].sent = req[r].sent
  PROVE  [Promise!Next]_(Promise!gateVars)
<1> DEFINE me  == req[r]
           you == req'[r]
<1>1. /\ Passthrough' = Passthrough /\ Rights' = Rights
      /\ Gates' = [Gates EXCEPT ![r] = GateOf(you)]
  BY GateMoves
<1>2. Gates[r] = GateOf(me)
  BY DEF Gates
<1>3. CASE you.pc = "done"
  <2>1. Standing(you) = "closed" /\ Standing(me) # "closed"
    BY <1>3, StandingIs DEF Early
  <2>2. GateOf(you) = [GateOf(me) EXCEPT !.at = "closed"]
    <3>1. HandedAs(you) = HandedAs(me)
      BY DEF HandedAs
    <3> QED
      BY <2>1, <3>1, GateMoved
  <2>3. Gates[r].at # "closed" /\ Gates' = [Gates EXCEPT ![r].at = "closed"]
    BY <1>1, <1>2, <2>1, <2>2, GateFields
  <2>4. Promise!Close(r)
    BY <1>1, <2>3 DEF Promise!Close
  <2> QED
    BY <2>4 DEF Promise!Next
<1>4. CASE you.pc # "done"
  <2>1. Standing(you) = "pending" /\ Standing(me) = "pending"
    BY <1>4, StandingIs DEF Early
  <2>2. GateOf(you) = GateOf(me)
    BY <2>1 DEF GateOf, HandedAs
  <2>3. Gates' = Gates
    BY <1>1, <1>2, <2>2 DEF Gates
  <2> QED
    BY <1>1, <2>3 DEF Promise!gateVars
<1> QED
  BY <1>3, <1>4

LEMMA GateArrive ==
  ASSUME TypeOK, TypeOK', NEW r \in Request, Arrive(r)
  PROVE  Promise!Ask(r)
<1> DEFINE you == req'[r]
<1>1. /\ Passthrough' = Passthrough /\ Rights' = Rights
      /\ Gates' = [Gates EXCEPT ![r] = GateOf(you)]
  BY GateMoves
<1>2. /\ req[r].pc \in {"idle", "done"} /\ you.pc = "authenticate" /\ you.sent = None
      /\ you.granted = GrantedTo(you.in.user)
  BY DEF Arrive, TypeOK, Idle
<1>3. you.in.user \in Identity /\ you.granted \subseteq Claim
  BY DEF TypeOK, RequestState, Incoming
<1> HIDE DEF you
<1>4. /\ Gates[r] = GateOf(req[r]) /\ Gates'[r] = GateOf(you)
      /\ Gates' = [Gates EXCEPT ![r] = Gates'[r]]
  BY <1>1 DEF Gates
<1>5. Standing(req[r]) = "closed" /\ Standing(you) = "pending"
  BY <1>2, StandingIs
<1>6. GateOf(you).as = {}
  BY <1>2, GateFields DEF HandedAs
<1>7. GateOf(you) \in Promise!Gate
  <2>1. WantedClaims(you.in.imp) \in SUBSET NameOrGroup
    BY DEF WantedClaims
  <2>2. you.granted \cap NameOrGroup \in SUBSET NameOrGroup
    OBVIOUS
  <2> HIDE DEF NameOrGroup
  <2>3. GateOf(you) = [at |-> "pending", caller |-> you.in.user,
                       wants |-> WantedClaims(you.in.imp),
                       could |-> you.granted \cap NameOrGroup, as |-> {}]
    BY <1>2, <1>5 DEF GateOf, HandedAs
  <2> QED
    BY <1>3, <2>1, <2>2, <2>3 DEF Promise!Gate
<1>8. GateOf(you).could = Promise!May(GateOf(you).caller)
  <2>1. NameOrGroup \subseteq Claim
    BY DEF NameOrGroup, Claim, HeaderKey
  <2>2. you.granted \cap NameOrGroup
          = {c \in NameOrGroup : <<you.in.user.name, c>> \in Rights}
    BY <1>2, <2>1 DEF GrantedTo, Rights
  <2> QED
    BY <2>2, GateFields DEF Promise!May
<1> QED
  BY <1>1, <1>4, <1>5, <1>6, <1>7, <1>8, GateFields DEF Promise!Ask

(* What a request is handed over as, in Gateway's terms: the caller's own  *)
(* identity, or what it wanted, all of which it could claim.               *)
LEMMA GateIdentity ==
  ASSUME NEW me, me.in.imp \in Headers, me.in.user \in Identity, Settled(me),
         me.target \subseteq Claim
  PROVE  /\ me.in.user # Nobody
         /\ WantedClaims(me.in.imp) \subseteq me.granted \cap NameOrGroup
         /\ AsClaims(me.conf) = IF WantedClaims(me.in.imp) = {} THEN AsClaims(me.in.user)
                                ELSE WantedClaims(me.in.imp)
<1> DEFINE u   == me.in.user
           imp == me.in.imp
<1>1. /\ me.user = u /\ u.name # NoValue /\ me.target = Requested(imp)
      /\ me.target \subseteq me.granted /\ me.conf = ConfFor(u, me.target)
      /\ Present(imp) # {} => HasUser(imp)
  BY DEF Settled
<1>2. u # Nobody
  BY <1>1 DEF Nobody
<1>3. CASE Present(imp) = {}
  <2>1. me.target = {}
    BY <1>1, <1>3 DEF Requested
  <2>2. WantedClaims(imp) = {}
    <3>1. imp["group"] = <<>>
      BY <1>3 DEF Present, HeaderKey
    <3> QED
      BY <1>3, <3>1 DEF WantedClaims, Elements
  <2>3. me.conf.name = u.name /\ me.conf.groups = u.groups \cup {AllAuthenticated}
    BY <1>1, <2>1 DEF ConfFor, ActingUser
  <2>4. <<"group", AllAuthenticated>> \notin NameOrGroup
    BY DEF NameOrGroup
  <2>5. AsClaims(me.conf) = AsClaims(u)
    BY <2>3, <2>4 DEF AsClaims
  <2> QED
    BY <1>2, <2>2, <2>5
<1>4. CASE Present(imp) # {}
  <2> DEFINE name == imp["user"][1]
  <2>1. /\ HasUser(imp) /\ "user" \in Present(imp)
        /\ ValuesOf(me.target, "user") = {name}
        /\ ValuesOf(me.target, "group") = Elements(imp["group"])
    BY <1>1, <1>4, RequestedParts DEF HasUser, Present, HeaderKey
  <2>2. me.target # {}
    BY <2>1 DEF ValuesOf
  <2>3. /\ me.conf.name = name
        /\ me.conf.groups = Elements(imp["group"]) \cup {AllAuthenticated}
    BY <1>1, <2>1, <2>2 DEF ConfFor, ActingUser, TargetOf
  <2> HIDE DEF name
  <2>4. WantedClaims(imp) = NameOrGroup \cap
          ({<<"user", name>>} \cup {<<"group", g>> : g \in Elements(imp["group"])})
    BY <2>1 DEF WantedClaims, name
  <2>5. <<"group", AllAuthenticated>> \notin NameOrGroup
    BY DEF NameOrGroup
  <2>6. AsClaims(me.conf) = WantedClaims(imp)
    BY <2>3, <2>4, <2>5 DEF AsClaims
  <2>7. <<"user", name>> \in me.target /\ <<"user", name>> \in NameOrGroup
    <3>1. <<"user", name>> \in Requested(imp)
      BY <2>1, FirstReviewed DEF name
    <3>2. name \in Value \cup {NoValue}
      BY <1>1, <3>1 DEF Requested, Claim
    <3> QED
      BY <1>1, <3>1, <3>2 DEF NameOrGroup
  <2>8. ASSUME NEW g \in Elements(imp["group"]) PROVE <<"group", g>> \in me.target
    <3>1. g \in ValuesOf(me.target, "group")
      BY <2>1
    <3>2. PICK c \in me.target : c[1] = "group" /\ c[2] = g
      BY <3>1 DEF ValuesOf
    <3>3. c = <<c[1], c[2]>>
      BY DEF Claim
    <3> QED
      BY <3>2, <3>3
  <2>9. WantedClaims(imp) \subseteq me.granted \cap NameOrGroup
    BY <1>1, <2>4, <2>7, <2>8
  <2>10. WantedClaims(imp) # {}
    <3>1. <<"user", name>> \in WantedClaims(imp)
      BY <2>4, <2>7
    <3> QED
      BY <3>1
  <2> QED
    BY <1>2, <2>6, <2>9, <2>10
<1> QED
  BY <1>3, <1>4

LEMMA GateForward ==
  ASSUME IInv, KInv, NEW r \in Request, Forward(r)
  PROVE  [Promise!Next]_(Promise!gateVars)
<1> DEFINE me    == req[r]
           you   == req'[r]
           past  == [auth |-> Append(me.auth, BearerToken), imp |-> me.imp, as |-> None]
           acted == [auth |-> me.auth \o DelegateCredentials, imp |-> me.imp,
                     as |-> Impersonated(me.imp, me.conf)]
<1>1. /\ TypeOK /\ me.pc = "forward" /\ RequestInv(me) /\ RecordInv(me) /\ Handler(r)
      /\ me.sent = None /\ me.in.imp \in Headers /\ me.in.user \in Identity
      /\ me.target \subseteq Claim
  BY DEF IInv, KInv, RequestInv, Underway, Forward, At, Handler, TypeOK, RequestState,
         Incoming
<1>2. /\ Passthrough' = Passthrough /\ Rights' = Rights
      /\ Gates' = [Gates EXCEPT ![r] = GateOf(you)] /\ Gates[r] = GateOf(me)
  BY <1>1, GateMoves DEF Gates
<1>3. Standing(me) = "pending" /\ HandedAs(me) = None
  BY <1>1, StandingIs DEF HandedAs
<1>4. past # None /\ acted # None /\ past.as = None
      /\ acted.as = Impersonated(me.imp, me.conf)
  BY <1>1, SentType, SentAssumption
<1> HIDE DEF past, acted
<1>5. CASE /\ me.noImp
           /\ req' = [req EXCEPT ![r].pc = "upstream", ![r].audit = me.user,
                                 ![r].sent = past]
  <2>1. /\ you.pc = "upstream" /\ you.noImp /\ you.in = me.in
        /\ you.granted = me.granted /\ you.sent = past
    BY <1>1, <1>5 DEF TypeOK, RequestState
  <2>2. Standing(you) = "untouched" /\ HandedAs(you) = None
    BY <1>4, <2>1, StandingIs DEF HandedAs
  <2>3. GateOf(you) = [GateOf(me) EXCEPT !.at = "untouched"]
    BY <1>3, <2>1, <2>2, GateMoved
  <2>4. Passthrough
    BY <1>1, <1>5 DEF RequestInv, PassedThrough, Passthrough
  <2>5. Gates[r].at = "pending" /\ Gates' = [Gates EXCEPT ![r].at = "untouched"]
    BY <1>2, <1>3, <2>3, GateFields
  <2>6. Promise!HandOn(r)
    BY <1>2, <2>4, <2>5 DEF Promise!HandOn
  <2> QED
    BY <2>6 DEF Promise!Next
<1>6. CASE /\ ~me.noImp
           /\ req' = [req EXCEPT ![r].pc = "upstream", ![r].audit = ContextUser(me),
                                 ![r].log = Append(@, "AuSuccess"), ![r].sent = acted]
  <2>1. /\ you.pc = "upstream" /\ you.noImp = me.noImp /\ you.in = me.in
        /\ you.granted = me.granted /\ you.sent = acted
    BY <1>1, <1>6 DEF TypeOK, RequestState
  <2>2. Settled(me) /\ me.conf # None /\ Present(me.imp) = {}
    BY <1>1, <1>6 DEF RecordInv, Exact, RequestInv, Prepared
  <2>3. acted.as = me.conf
    BY <1>4, <2>2 DEF Impersonated, HasUser, Present, HeaderKey
  <2>4. Standing(you) = "admitted" /\ HandedAs(you) = me.conf
    BY <1>4, <1>6, <2>1, <2>3, StandingIs DEF HandedAs
  <2>5. /\ me.in.user # Nobody
        /\ WantedClaims(me.in.imp) \subseteq me.granted \cap NameOrGroup
        /\ AsClaims(me.conf) = IF WantedClaims(me.in.imp) = {} THEN AsClaims(me.in.user)
                               ELSE WantedClaims(me.in.imp)
    BY <1>1, <2>2, GateIdentity
  <2>6. GateOf(you) = [GateOf(me) EXCEPT !.at = "admitted", !.as = AsClaims(me.conf)]
    <3>1. /\ GateOf(me) \in Promise!Gate /\ GateOf(you) \in Promise!Gate
      BY <1>1, <2>1, GateTyped
    <3>2. /\ GateOf(you).at = "admitted" /\ GateOf(you).caller = GateOf(me).caller
          /\ GateOf(you).wants = GateOf(me).wants /\ GateOf(you).could = GateOf(me).could
          /\ GateOf(you).as = AsClaims(me.conf)
      BY <2>1, <2>2, <2>4, GateFields
    <3> HIDE DEF me, you
    <3> QED
      BY <3>1, <3>2 DEF Promise!Gate
  <2>7. /\ Gates[r].at = "pending" /\ Gates[r].caller = me.in.user
        /\ Gates[r].wants = WantedClaims(me.in.imp)
        /\ Gates[r].could = me.granted \cap NameOrGroup
    BY <1>2, <1>3, GateFields
  <2>8. Gates' = [Gates EXCEPT ![r].at = "admitted", ![r].as = AsClaims(me.conf)]
    BY <1>2, <2>6
  <2>9. Promise!Admit(r)
    BY <1>2, <2>5, <2>7, <2>8 DEF Promise!Admit
  <2> QED
    BY <2>9 DEF Promise!Next
<1>7. CASE /\ ~me.noImp
           /\ req' = [req EXCEPT ![r].pc = "done", ![r].audit = ContextUser(me),
                                 ![r].log = Append(@, "AuSuccess")]
  <2>1. /\ you.pc = "done" /\ you.in = me.in /\ you.granted = me.granted
        /\ you.sent = me.sent
    BY <1>1, <1>7 DEF TypeOK, RequestState
  <2> QED
    BY <1>1, <2>1, GateQuiet
<1> QED
  BY <1>5, <1>6, <1>7 DEF Forward, past, acted

LEMMA RightsType ==
  ASSUME rbac \subseteq Grants
  PROVE  Rights \in SUBSET (Value \X NameOrGroup)
<1>1. ASSUME NEW g \in Rights PROVE g \in Value \X NameOrGroup
  <2>1. g \in Value \X Claim /\ g[2] \in NameOrGroup
    BY GrantsAssumption DEF Rights
  <2> QED
    BY <2>1
<1> QED
  BY <1>1

(* Rights change for every request that is under way, at once.             *)
LEMMA GateRights ==
  ASSUME TypeOK, TypeOK', ChangeRbac
  PROVE  Promise!ChangeRights
<1> DEFINE now(q) == {c \in NameOrGroup : <<Gates[q].caller.name, c>> \in Rights'}
<1>1. Passthrough' = Passthrough
  BY DEF ChangeRbac, Passthrough
<1>2. Rights' \in SUBSET (Value \X NameOrGroup)
  <2>1. rbac' \subseteq Grants
    BY DEF TypeOK
  <2>2. ASSUME NEW g \in Rights' PROVE g \in Value \X NameOrGroup
    <3>1. g \in Value \X Claim /\ g[2] \in NameOrGroup
      BY <2>1, GrantsAssumption DEF Rights
    <3> QED
      BY <3>1
  <2> QED
    BY <2>2
<1>3. ASSUME NEW q \in Request
      PROVE  GateOf(req'[q]) = IF Gates[q].at = "closed" THEN Gates[q]
                               ELSE [Gates[q] EXCEPT !.could = @ \cup now(q)]
  <2> DEFINE me  == req[q]
             you == req'[q]
  <2>1. Gates[q] = GateOf(me) /\ me.in.user \in Identity
    BY DEF Gates, TypeOK, RequestState, Incoming
  <2>2. CASE me.pc \in {"idle", "done"}
    <3>1. you = me
      BY <2>2 DEF ChangeRbac
    <3> QED
      BY <2>1, <2>2, <3>1, StandingIs, GateFields
  <2>3. CASE me.pc \notin {"idle", "done"}
    <3>1. /\ you.pc = me.pc /\ you.in = me.in /\ you.sent = me.sent
          /\ you.noImp = me.noImp
          /\ you.granted = me.granted \cup {c \in Claim : <<me.in.user.name, c>> \in rbac'}
      BY <2>3 DEF ChangeRbac, TypeOK, RequestState
    <3>2. NameOrGroup \subseteq Claim
      BY DEF NameOrGroup, Claim, HeaderKey
    <3>3. GateOf(me) \in Promise!Gate /\ GateOf(you) \in Promise!Gate
      BY <2>1, <3>1, GateTyped
    <3>4. Standing(you) = Standing(me) /\ HandedAs(you) = HandedAs(me)
      BY <3>1 DEF Standing, HandedAs
    <3>5. now(q) = {c \in NameOrGroup : <<me.in.user.name, c>> \in rbac'}
      BY <2>1, GateFields DEF Rights
    <3>6. you.granted \cap NameOrGroup = (me.granted \cap NameOrGroup) \cup now(q)
      BY <3>1, <3>2, <3>5
    <3>7. /\ GateOf(you).at = GateOf(me).at /\ GateOf(you).caller = GateOf(me).caller
          /\ GateOf(you).wants = GateOf(me).wants
          /\ GateOf(you).could = GateOf(me).could \cup now(q)
          /\ GateOf(you).as = GateOf(me).as
      <4> HIDE DEF me, you, now
      <4> QED
        BY <3>1, <3>4, <3>6, GateFields
    <3>8. GateOf(me).at # "closed"
      BY <2>3, StandingIs, GateFields
    <3>9. GateOf(you) = [GateOf(me) EXCEPT !.could = @ \cup now(q)]
      <4> HIDE DEF me, you, now
      <4> QED
        BY <3>3, <3>7 DEF Promise!Gate
    <3> QED
      BY <2>1, <3>8, <3>9
  <2> QED
    BY <2>2, <2>3
<1>4. Gates' = [q \in Request |-> GateOf(req'[q])]
  BY DEF Gates
<1> QED
  BY <1>1, <1>2, <1>3, <1>4 DEF Promise!ChangeRights

LEMMA InitGateway == Init => Promise!Init
<1> SUFFICES ASSUME Init PROVE Promise!Init
  OBVIOUS
<1>1. Passthrough \in BOOLEAN
  BY Zenon DEF Passthrough
<1>2. Rights \in SUBSET (Value \X NameOrGroup)
  BY RightsType DEF Init
<1>3. WantedClaims(NoHeaders) = {}
  BY DEF WantedClaims, Present, NoHeaders, HeaderKey, Elements
<1>4. Standing(Idle) = "closed" /\ HandedAs(Idle) = None
  BY DEF Standing, HandedAs, Idle
<1>5. Idle.in.user = Nobody /\ Idle.in.imp = NoHeaders /\ Idle.granted = {}
  BY DEF Idle
<1>6. GateOf(Idle) = [at |-> "closed", caller |-> Nobody, wants |-> {}, could |-> {},
                      as |-> {}]
  BY <1>3, <1>4, <1>5 DEF GateOf
<1>7. Gates = [r \in Request |-> GateOf(Idle)]
  BY DEF Init, Gates
<1> QED
  BY <1>1, <1>2, <1>6, <1>7 DEF Promise!Init

LEMMA NextGateway ==
  IInv /\ KInv /\ TypeOK' /\ [Next]_vars => [Promise!Next]_(Promise!gateVars)
<1> SUFFICES ASSUME IInv, KInv, TypeOK', [Next]_vars
             PROVE  [Promise!Next]_(Promise!gateVars)
  OBVIOUS
<1>1. TypeOK
  BY DEF IInv
<1>2. CASE UNCHANGED vars \/ OidcInitialized
  <2>1. cfg' = cfg /\ rbac' = rbac /\ req' = req
    BY <1>2 DEF vars, OidcInitialized
  <2> QED
    BY <2>1 DEF Promise!gateVars, Passthrough, Rights, Gates
<1>3. CASE ChangeRbac
  BY <1>1, <1>3, GateRights DEF Promise!Next
<1>4. ASSUME NEW r \in Request, Arrive(r) \/ Handler(r) \/ ApiServer(r)
      PROVE  [Promise!Next]_(Promise!gateVars)
  <2>1. CASE Arrive(r)
    BY <1>1, <2>1, GateArrive DEF Promise!Next
  <2>2. CASE Forward(r)
    BY <2>2, GateForward
  <2>3. CASE ~Arrive(r) /\ ~Forward(r)
    <3>1. Handler(r) \/ ApiServer(r)
      BY <1>4, <2>3
    <3>2. /\ \/ req[r].pc \in Early /\ req'[r].pc \in Early \cup {"forward"}
             \/ req'[r].pc = "done"
          /\ req[r].pc \in Early \cup {"forward", "upstream"}
          /\ req'[r].in = req[r].in /\ req'[r].granted = req[r].granted
          /\ req'[r].sent = req[r].sent
      BY <1>1, <2>3, <3>1, StepShape DEF Turn, Refusal, HandOver, Reply
    <3> QED
      BY <1>1, <3>1, <3>2, GateQuiet
  <2> QED
    BY <2>1, <2>2, <2>3
<1> QED
  BY <1>2, <1>3, <1>4 DEF Next

(* Every behaviour of the handler chain is one of Gateway, for every set of*)
(* requests, configurations and grants: between arrival and hand-over      *)
(* nothing but what the caller is, or could claim, decides what a request  *)
(* is let through as (handlers.go:39-128, proxy.go:237-263).               *)
THEOREM Implementation == Spec => ImplementsGateway
<1>1. IInv => TypeOK
  BY DEF IInv
<1> QED
  BY <1>1, InitGateway, NextGateway, Records, PTL DEF Spec, ImplementsGateway, Promise!Spec

=============================================================================
