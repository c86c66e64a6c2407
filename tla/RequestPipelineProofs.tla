------------------------ MODULE RequestPipelineProofs ------------------------
(***************************************************************************)
(* Proofs about RequestPipeline, for any number of concurrent requests, any*)
(* names, groups, extras and headers, any accepted configurations and any  *)
(* rights granted and revoked while requests are under way.                *)
(***************************************************************************)
EXTENDS RequestPipeline, SequenceTheorems, TLAPS

-----------------------------------------------------------------------------
(***************************************************************************)
(* The inductive invariant, as what is known of one request.               *)
(***************************************************************************)
Early == {"authenticate", "review", "impersonate", "check"}

(* Until a request is handed over nothing was sent; until the headers were *)
(* reviewed they are the client's; the handlers that impersonate know the  *)
(* user the client authenticated as; granted is up to date.                *)
Underway(me) ==
  /\ me.pc \in Early \cup {"forward"} => me.sent = None
  /\ me.pc \in Early => me.imp = me.in.imp
  /\ me.pc \in {"impersonate", "check", "forward"} /\ ~me.noImp =>
       me.user = me.in.user
  /\ me.pc \in {"authenticate", "review", "check"} => ~me.noImp
  /\ me.pc \in {"authenticate", "review", "impersonate"} =>
       me.target = {} /\ me.queue = <<>>
  /\ me.pc \notin {"idle", "done"} => GrantedTo(me.in.user) \subseteq me.granted

(* In the loop of CheckAuthorizedForImpersonation: the headers visited are *)
(* in the target or in the queue, value by value, and all of the target    *)
(* was granted.                                                            *)
Checking(me) ==
  me.pc = "check" =>
    /\ Present(me.in.imp) # {} /\ me.todo \subseteq Present(me.in.imp)
    /\ me.todo # Present(me.in.imp) => HasUser(me.in.imp)
    /\ \A k \in Present(me.in.imp) \ me.todo :
         \A v \in Elements(Reviewed(k, me.in.imp[k])) :
           \/ <<k, v>> \in me.target
           \/ k = me.key /\ v \in Elements(me.queue)
    /\ \A c \in me.target : c[1] = "user" => c[2] = me.in.imp["user"][1]
    /\ me.key = "user" => \A v \in Elements(me.queue) : v = me.in.imp["user"][1]
    /\ me.target \subseteq me.granted

(* The configuration a request may be handed over with.                    *)
Justified(me, as) == /\ EntitledTo(me, as)
                     /\ Present(me.in.imp) # {} => AsRequested(me.in.imp, as)

Prepared(me) ==
  me.pc = "forward" /\ ~me.noImp =>
    me.conf # None /\ Present(me.imp) = {} /\ Justified(me, me.conf)

HandedOver(me) ==
  me.sent # None =>
    IF me.noImp THEN me.sent.as = None
    ELSE /\ me.sent.as # None /\ me.sent.as = me.conf /\ Present(me.sent.imp) = {}
         /\ Justified(me, me.sent.as)

(* A passthrough is configured, keeps the headers, and after a token       *)
(* review the token.                                                       *)
PassedThrough(me) ==
  /\ me.noImp => cfg.disableImpersonation \/ cfg.tokenReview
  /\ me.pc = "forward" /\ me.noImp => me.imp = me.in.imp
  /\ me.pc = "authenticate" /\ me.in.cred # "absent" => me.auth = <<"token">>
  /\ me.pc = "review" => cfg.tokenReview /\ me.auth = <<"token">>
  /\ me.pc \in {"impersonate", "forward"} /\ me.noImp /\ ~cfg.disableImpersonation =>
       me.auth = <<"token">>
  /\ me.sent # None /\ me.noImp =>
       /\ me.sent.imp = me.in.imp /\ "proxy" \notin Elements(me.sent.auth)
       /\ ~cfg.disableImpersonation => Head(me.sent.auth) = "token"

RequestInv(me) == /\ Underway(me) /\ Checking(me) /\ Prepared(me)
                  /\ HandedOver(me) /\ PassedThrough(me)

IInv == TypeOK /\ \A r \in Request : RequestInv(req[r])

-----------------------------------------------------------------------------
(***************************************************************************)
(* Types.                                                                  *)
(***************************************************************************)
LEMMA NobodyType == Nobody \in Identity
  BY DEF Nobody, Identity, Extras

LEMMA NoHeadersType == NoHeaders \in Headers
<1>1. <<>> \in Seq(Value \cup {NoValue})
  OBVIOUS
<1> QED
  BY <1>1 DEF NoHeaders, Headers

(* The values the handlers set, as members of the types.                   *)
LEMMA HandlerValues ==
  /\ \A pc \in {"idle", "authenticate", "review", "impersonate", "check", "forward",
                 "upstream", "done"} : pc \in Handlers
  /\ \A code \in {0, 200, 401, 403, 500} : code \in Status
  BY DEF Handlers, Status

(* An idle connection is a request state.                                  *)
LEMMA IdleType == Idle \in RequestState
<1>1. [cred |-> "absent", user |-> Nobody, imp |-> NoHeaders, path |-> "full"] \in Incoming
  BY NobodyType, NoHeadersType DEF Incoming
<1> QED
  BY <1>1, NobodyType, NoHeadersType, HandlerValues DEF Idle, RequestState, HeaderKey

(* The header values the reviews name are the client's.                    *)
LEMMA ReviewedType ==
  ASSUME NEW imp \in Headers, NEW k \in Present(imp)
  PROVE  Reviewed(k, imp[k]) \in Seq(Value \cup {NoValue})
<1>1. imp[k] \in Seq(Value \cup {NoValue}) /\ imp[k] # <<>>
  BY DEF Present, Headers
<1>2. imp[k][1] \in Value \cup {NoValue}
  BY <1>1
<1>3. <<imp[k][1]>> \in Seq(Value \cup {NoValue})
  BY <1>2
<1> QED
  BY <1>1, <1>3 DEF Reviewed

(* The target user that granted claims make is a user.                     *)
LEMMA TargetType ==
  ASSUME NEW claims \in SUBSET Claim
  PROVE  TargetOf(claims) \in Identity
<1>1. ASSUME NEW key PROVE ValuesOf(claims, key) \subseteq Value \cup {NoValue}
  BY DEF ValuesOf, Claim
<1>2. ASSUME NEW key, ValuesOf(claims, key) # {}
      PROVE  (CHOOSE v \in ValuesOf(claims, key) : TRUE) \in Value \cup {NoValue}
  BY <1>1, <1>2
<1>3. {c \in claims : c[1] \in ExtraName} \in Extras
  BY DEF Claim, Extras
<1> QED
  BY <1>1, <1>2, <1>3 DEF TargetOf, Identity

LEMMA ActingType ==
  ASSUME NEW u \in Identity, NEW claims \in SUBSET Claim
  PROVE  ActingUser(u, claims) \in Identity
  BY TargetType DEF ActingUser

LEMMA ConfType ==
  ASSUME cfg \in Configs, NEW u \in Identity, NEW claims \in SUBSET Claim
  PROVE  ConfFor(u, claims) \in Conf
<1> DEFINE as    == ActingUser(u, claims)
           own   == IF claims = {} THEN {} ELSE OriginalUserExtras(u)
<1>1. as \in Identity
  BY ActingType
<1>2. AddedExtras \in Extras
  BY ValueAssumption, ConfigsAssumption DEF AddedExtras, Extras, ProxyExtra
<1>3. OriginalUserExtras(u) \in Extras
  BY ValueAssumption DEF OriginalUserExtras, Identity, Extras, ProxyExtra
<1>4. Merged(as.extra \cup AddedExtras, own) \in Extras
  BY <1>1, <1>2, <1>3 DEF Merged, Identity, Extras
<1> QED
  BY <1>1, <1>4, ValueAssumption DEF ConfFor, Conf, Identity

(* What newErrorHandler leaves of a request.                               *)
Ended(me, code, log, audit) ==
  [me EXCEPT !.pc = "done", !.code = code, !.log = log, !.audit = audit]

LEMMA EndedType ==
  ASSUME NEW me \in RequestState, "done" \in Handlers, NEW code \in Status,
         NEW log \in Seq(LogLine), NEW audit \in Identity \cup {None}
  PROVE  Ended(me, code, log, audit) \in RequestState
  BY DEF Ended, RequestState

(* Every answer of newErrorHandler leaves a request state.                 *)
LEMMA RefuseType ==
  ASSUME TypeOK, NEW r \in Request, NEW code \in {401, 403, 500}, Refuse(r, code)
  PROVE  req' \in [Request -> RequestState]
<1> DEFINE log   == Append(req[r].log, "AuFail")
           audit == IF code = 401 THEN Nobody ELSE req[r].audit
<1>1. req[r] \in RequestState /\ "done" \in Handlers /\ code \in Status
  BY HandlerValues DEF TypeOK
<1>2. log \in Seq(LogLine)
  BY <1>1 DEF RequestState, LogLine
<1>3. audit \in Identity \cup {None}
  BY <1>1, NobodyType DEF RequestState
<1> HIDE DEF log, audit
<1>4. Ended(req[r], code, log, audit) \in RequestState
  BY <1>1, <1>2, <1>3, EndedType
<1> QED
  BY <1>4 DEF Ended, TypeOK, Refuse, log, audit

LEMMA AuthenticateType ==
  ASSUME TypeOK, NEW r \in Request, Authenticate(r)
  PROVE  req' \in [Request -> RequestState]
<1>1. /\ req[r] \in RequestState /\ req[r].in.user \in Identity
      /\ "impersonate" \in Handlers /\ "review" \in Handlers /\ <<>> \in Seq({"token"})
  BY HandlerValues DEF TypeOK, RequestState, Incoming
<1>2. [req[r] EXCEPT !.pc = "impersonate", !.user = req[r].in.user, !.auth = <<>>]
        \in RequestState
  BY <1>1 DEF RequestState
<1>3. [req[r] EXCEPT !.pc = "review"] \in RequestState
  BY <1>1 DEF RequestState
<1>4. CASE Refuse(r, 401)
  BY <1>4, RefuseType
<1>5. CASE ~Refuse(r, 401)
  BY <1>2, <1>3, <1>5 DEF TypeOK, Authenticate
<1> QED
  BY <1>4, <1>5

LEMMA ReviewTokenType ==
  ASSUME TypeOK, NEW r \in Request, ReviewToken(r)
  PROVE  req' \in [Request -> RequestState]
<1>1. req[r] \in RequestState /\ "impersonate" \in Handlers
  BY HandlerValues DEF TypeOK
<1>2. [req[r] EXCEPT !.pc = "impersonate", !.noImp = TRUE] \in RequestState
  BY <1>1 DEF RequestState
<1>3. CASE Refuse(r, 401)
  BY <1>3, RefuseType
<1>4. CASE ~Refuse(r, 401)
  BY <1>2, <1>4 DEF TypeOK, ReviewToken
<1> QED
  BY <1>3, <1>4

LEMMA ImpersonateType ==
  ASSUME TypeOK, NEW r \in Request, Impersonate(r)
  PROVE  req' \in [Request -> RequestState]
<1>1. /\ req[r] \in RequestState /\ req[r].user \in Identity
      /\ "forward" \in Handlers /\ "check" \in Handlers
  BY HandlerValues DEF TypeOK, RequestState
<1>2. ConfFor(req[r].user, {}) \in Conf
  BY <1>1, ConfType DEF TypeOK
<1>3. Present(req[r].imp) \in SUBSET HeaderKey
  BY DEF Present
<1>4. /\ [req[r] EXCEPT !.pc = "forward"] \in RequestState
      /\ [req[r] EXCEPT !.pc = "forward", !.noImp = TRUE] \in RequestState
  BY <1>1 DEF RequestState
<1>5. [req[r] EXCEPT !.pc = "forward", !.conf = ConfFor(req[r].user, {})]
        \in RequestState
  BY <1>1, <1>2 DEF RequestState
<1>6. [req[r] EXCEPT !.pc = "check", !.todo = Present(req[r].imp)] \in RequestState
  BY <1>1, <1>3 DEF RequestState
<1>7. CASE Refuse(r, 403)
  BY <1>7, RefuseType
<1>8. CASE ~Refuse(r, 403)
  BY <1>4, <1>5, <1>6, <1>8 DEF TypeOK, Impersonate
<1> QED
  BY <1>7, <1>8

LEMMA CheckHeaderType ==
  ASSUME TypeOK, NEW r \in Request, CheckHeader(r),
         req[r].todo \subseteq Present(req[r].imp)
  PROVE  req' \in [Request -> RequestState]
<1>1. PICK k \in req[r].todo :
        \/ Refuse(r, 500)
        \/ req' = [req EXCEPT ![r].todo = @ \ {k}, ![r].key = k,
                              ![r].queue = Reviewed(k, req[r].imp[k])]
  BY Zenon DEF CheckHeader
<1>2. /\ req[r] \in RequestState /\ req[r].imp \in Headers /\ k \in HeaderKey
      /\ req[r].todo \ {k} \in SUBSET HeaderKey
  BY DEF TypeOK, RequestState
<1>3. Reviewed(k, req[r].imp[k]) \in Seq(Value \cup {NoValue})
  BY <1>2, ReviewedType
<1>4. [req[r] EXCEPT !.todo = @ \ {k}, !.key = k, !.queue = Reviewed(k, req[r].imp[k])]
        \in RequestState
  BY <1>2, <1>3 DEF RequestState
<1>5. CASE Refuse(r, 500)
  BY <1>5, RefuseType
<1>6. CASE ~Refuse(r, 500)
  BY <1>1, <1>4, <1>6 DEF TypeOK
<1> QED
  BY <1>5, <1>6

LEMMA ReviewClaimType ==
  ASSUME TypeOK, NEW r \in Request, ReviewClaim(r)
  PROVE  req' \in [Request -> RequestState]
<1> DEFINE claim == <<req[r].key, Head(req[r].queue)>>
<1>1. /\ req[r] \in RequestState /\ req[r].target \in SUBSET Claim
      /\ req[r].queue \in Seq(Value \cup {NoValue}) /\ req[r].key \in HeaderKey
      /\ req[r].queue # <<>>
  BY DEF TypeOK, RequestState, ReviewClaim
<1>2. Tail(req[r].queue) \in Seq(Value \cup {NoValue})
  BY <1>1
<1>3. req[r].target \cup {claim} \in SUBSET Claim
  BY <1>1 DEF Claim
<1>4. [req[r] EXCEPT !.queue = Tail(@), !.target = @ \cup {claim}] \in RequestState
  BY <1>1, <1>2, <1>3 DEF RequestState
<1>5. CASE Refuse(r, 403) \/ Refuse(r, 500)
  BY <1>5, RefuseType
<1>6. CASE ~(Refuse(r, 403) \/ Refuse(r, 500))
  BY <1>4, <1>6 DEF TypeOK, ReviewClaim
<1> QED
  BY <1>5, <1>6

LEMMA AuthorizedType ==
  ASSUME TypeOK, NEW r \in Request, Authorized(r)
  PROVE  req' \in [Request -> RequestState]
<1>1. /\ req[r] \in RequestState /\ req[r].user \in Identity
      /\ req[r].target \in SUBSET Claim /\ "forward" \in Handlers
  BY HandlerValues DEF TypeOK, RequestState
<1>2. ConfFor(req[r].user, req[r].target) \in Conf
  BY <1>1, ConfType DEF TypeOK
<1>3. [req[r] EXCEPT !.pc = "forward", !.imp = NoHeaders,
                     !.conf = ConfFor(req[r].user, req[r].target)] \in RequestState
  BY <1>1, <1>2, NoHeadersType DEF RequestState
<1> QED
  BY <1>3 DEF TypeOK, Authorized, RemainingHeaders

(* What RoundTrip hands over, untouched or impersonating, is a request.    *)
LEMMA SentType ==
  ASSUME TypeOK, NEW r \in Request
  PROVE  /\ [auth |-> Append(req[r].auth, BearerToken), imp |-> req[r].imp, as |-> None]
              \in Sent
         /\ [auth |-> req[r].auth \o DelegateCredentials, imp |-> req[r].imp,
             as |-> Impersonated(req[r].imp, req[r].conf)] \in Sent
<1> DEFINE me    == req[r]
           past  == [auth |-> Append(me.auth, BearerToken), imp |-> me.imp, as |-> None]
           acted == [auth |-> me.auth \o DelegateCredentials, imp |-> me.imp,
                     as |-> Impersonated(me.imp, me.conf)]
<1>1. /\ me.auth \in Seq({"token"}) /\ me.imp \in Headers /\ me.conf \in Conf \cup {None}
  BY DEF TypeOK, RequestState
<1>2. me.auth \in Seq(Token)
  <2>1. {"token"} \subseteq Token
    BY DEF Token
  <2> QED
    BY <1>1, <2>1, SeqMonotonic
<1>3. BearerToken \in Token /\ DelegateCredentials \in Seq(Token)
  <2>1. "proxy" \in Token /\ BearerToken \in Token
    BY DEF BearerToken, Token
  <2>2. <<>> \in Seq(Token) /\ <<"proxy">> \in Seq(Token)
    BY <2>1
  <2> QED
    BY <2>1, <2>2 DEF DelegateCredentials
<1>4. past.auth \in Seq(Token) /\ acted.auth \in Seq(Token)
  BY <1>2, <1>3
<1> QED
  BY <1>1, <1>4 DEF Sent, Impersonated

LEMMA ForwardType ==
  ASSUME TypeOK, NEW r \in Request, Forward(r)
  PROVE  req' \in [Request -> RequestState]
<1> DEFINE me    == req[r]
           user  == ContextUser(me)
           log   == Append(me.log, "AuSuccess")
           past  == [auth |-> Append(me.auth, BearerToken), imp |-> me.imp, as |-> None]
           acted == [auth |-> me.auth \o DelegateCredentials, imp |-> me.imp,
                     as |-> Impersonated(me.imp, me.conf)]
<1>1. /\ me \in RequestState /\ me.auth \in Seq({"token"}) /\ me.imp \in Headers
      /\ me.conf \in Conf \cup {None} /\ me.log \in Seq(LogLine)
      /\ me.user \in Identity /\ me.target \in SUBSET Claim
      /\ "upstream" \in Handlers /\ "done" \in Handlers
  BY HandlerValues DEF TypeOK, RequestState
<1>2. user \in Identity
  BY <1>1, ActingType DEF ContextUser
<1>5. past \in Sent /\ acted \in Sent
  BY SentType
<1>6. log \in Seq(LogLine)
  BY <1>1 DEF LogLine
<1> HIDE DEF user, log, past, acted
<1>7. /\ [me EXCEPT !.pc = "upstream", !.audit = me.user, !.sent = past] \in RequestState
      /\ [me EXCEPT !.pc = "done", !.audit = user, !.log = log] \in RequestState
  BY <1>1, <1>2, <1>5, <1>6 DEF RequestState
<1>8. [me EXCEPT !.pc = "upstream", !.audit = user, !.log = log, !.sent = acted]
        \in RequestState
  BY <1>1, <1>2, <1>5, <1>6 DEF RequestState
<1> QED
  BY <1>7, <1>8 DEF TypeOK, Forward, user, log, past, acted

LEMMA UpstreamType ==
  ASSUME TypeOK, NEW r \in Request, Upstream(r)
  PROVE  req' \in [Request -> RequestState]
<1>1. req[r] \in RequestState /\ "done" \in Handlers /\ 200 \in Status
  BY HandlerValues DEF TypeOK
<1>2. PICK ok \in Status : ok = 200
  BY <1>1
<1>3. CASE Refuse(r, 500)
  BY <1>3, RefuseType
<1>4. CASE req' = [req EXCEPT ![r].pc = "done", ![r].code = ok]
  <2>1. [req[r] EXCEPT !.pc = "done", !.code = ok] \in RequestState
    BY <1>1 DEF RequestState
  <2> QED
    BY <1>4, <2>1 DEF TypeOK
<1> QED
  BY <1>2, <1>3, <1>4 DEF Upstream

LEMMA ArriveType ==
  ASSUME TypeOK, NEW r \in Request, Arrive(r)
  PROVE  req' \in [Request -> RequestState]
<1>1. PICK a \in Arrivals :
        req' = [req EXCEPT ![r] =
                 [Idle EXCEPT !.pc = "authenticate", !.in = a, !.imp = a.imp,
                    !.auth = IF a.cred = "absent" THEN <<>> ELSE <<"token">>,
                    !.granted = GrantedTo(a.user)]]
  BY DEF Arrive
<1> DEFINE auth == IF a.cred = "absent" THEN <<>> ELSE <<"token">>
<1>2. auth \in Seq({"token"})
  <2>1. <<>> \in Seq({"token"}) /\ <<"token">> \in Seq({"token"})
    OBVIOUS
  <2> QED
    BY <2>1
<1>3. a \in Incoming /\ a.imp \in Headers
  BY ArrivalsAssumption DEF Incoming
<1>4. GrantedTo(a.user) \in SUBSET Claim
  BY DEF GrantedTo
<1>5. "authenticate" \in Handlers
  BY HandlerValues
<1> HIDE DEF auth
<1>6. [Idle EXCEPT !.pc = "authenticate", !.in = a, !.imp = a.imp, !.auth = auth,
                   !.granted = GrantedTo(a.user)] \in RequestState
  BY <1>2, <1>3, <1>4, <1>5, IdleType DEF RequestState
<1> QED
  BY <1>1, <1>6 DEF TypeOK, auth

LEMMA ChangeRbacType ==
  ASSUME TypeOK, ChangeRbac
  PROVE  req' \in [Request -> RequestState] /\ rbac' \subseteq Grants
<1>1. ASSUME NEW me \in RequestState, NEW more \in SUBSET Claim
      PROVE  [me EXCEPT !.granted = @ \cup more] \in RequestState
  <2>1. me.granted \cup more \in SUBSET Claim
    BY DEF RequestState
  <2> QED
    BY <2>1 DEF RequestState
<1> QED
  BY <1>1 DEF TypeOK, ChangeRbac

-----------------------------------------------------------------------------
(***************************************************************************)
(* What ConfFor makes of the claims that were granted.                     *)
(***************************************************************************)
LEMMA PlainConf ==
  ASSUME cfg \in Configs, NEW u \in Identity
  PROVE  /\ ConfFor(u, {}).name = u.name
         /\ ConfFor(u, {}).groups = u.groups \cup {AllAuthenticated}
         /\ ConfFor(u, {}).extra \subseteq u.extra \cup AddedExtras
  BY DEF ConfFor, ActingUser, Merged

LEMMA TargetParts ==
  ASSUME NEW claims \in SUBSET Claim, NEW name,
         <<"user", name>> \in claims, \A c \in claims : c[1] = "user" => c[2] = name
  PROVE  /\ TargetOf(claims).name = name
         /\ \A g : g \in TargetOf(claims).groups <=> <<"group", g>> \in claims
         /\ TargetOf(claims).extra = {c \in claims : c[1] \in ExtraName}
<1>1. \A c \in claims : c = <<c[1], c[2]>>
  BY DEF Claim
<1>2. ValuesOf(claims, "user") = {name}
  BY <1>1 DEF ValuesOf
<1>3. \A g : g \in ValuesOf(claims, "group") <=> <<"group", g>> \in claims
  BY <1>1 DEF ValuesOf
<1> QED
  BY <1>2, <1>3 DEF TargetOf

LEMMA ImpersonatedConf ==
  ASSUME cfg \in Configs, NEW u \in Identity, NEW claims \in SUBSET Claim, NEW name,
         <<"user", name>> \in claims, \A c \in claims : c[1] = "user" => c[2] = name
  PROVE  /\ ConfFor(u, claims).name = name
         /\ \A g \in ConfFor(u, claims).groups :
              g = AllAuthenticated \/ <<"group", g>> \in claims
         /\ \A g : <<"group", g>> \in claims => g \in ConfFor(u, claims).groups
         /\ ConfFor(u, claims).extra
              \subseteq claims \cup AddedExtras \cup OriginalUserExtras(u)
         /\ \A n \in ExtraName \ ProxyExtra : \A v :
              <<n, v>> \in claims => <<n, v>> \in ConfFor(u, claims).extra
<1> DEFINE as  == TargetOf(claims)
           own == OriginalUserExtras(u)
<1>1. claims # {} /\ ActingUser(u, claims) = as
  BY DEF ActingUser
<1>2. ConfFor(u, claims) = [name |-> as.name, groups |-> as.groups \cup {AllAuthenticated},
                            extra |-> Merged(as.extra \cup AddedExtras, own)]
  BY <1>1 DEF ConfFor
<1>3. \A e \in own : e[1] \in ProxyExtra
  BY DEF OriginalUserExtras, ProxyExtra
<1> HIDE DEF as, own
<1>4. /\ Merged(as.extra \cup AddedExtras, own) \subseteq as.extra \cup AddedExtras \cup own
      /\ \A n \in ExtraName \ ProxyExtra : \A v :
           <<n, v>> \in as.extra => <<n, v>> \in Merged(as.extra \cup AddedExtras, own)
  BY <1>3 DEF Merged
<1>5. /\ as.name = name
      /\ \A g : g \in as.groups <=> <<"group", g>> \in claims
      /\ as.extra = {c \in claims : c[1] \in ExtraName}
  BY TargetParts DEF as
<1>6. /\ ConfFor(u, claims).name = as.name
      /\ ConfFor(u, claims).groups = as.groups \cup {AllAuthenticated}
      /\ ConfFor(u, claims).extra = Merged(as.extra \cup AddedExtras, own)
  BY <1>2
<1>7. ConfFor(u, claims).extra \subseteq claims \cup AddedExtras \cup OriginalUserExtras(u)
  BY <1>4, <1>5, <1>6 DEF own
<1>8. \A n \in ExtraName \ ProxyExtra : \A v :
        <<n, v>> \in claims => <<n, v>> \in ConfFor(u, claims).extra
  BY <1>4, <1>5, <1>6
<1> QED
  BY <1>5, <1>6, <1>7, <1>8

(* When the loop over the headers is done, the target is what they name.   *)
LEMMA LoopDone ==
  ASSUME NEW me \in RequestState, me.pc = "check", me.todo = {}, me.queue = <<>>,
         Checking(me)
  PROVE  /\ HasUser(me.in.imp) /\ <<"user", me.in.imp["user"][1]>> \in me.target
         /\ \A v \in Elements(me.in.imp["group"]) : <<"group", v>> \in me.target
         /\ \A n \in ExtraName : \A v \in Elements(me.in.imp[n]) : <<n, v>> \in me.target
<1> DEFINE imp == me.in.imp
<1>1. imp \in Headers
  BY DEF RequestState, Incoming
<1>2. Elements(<<>>) = {}
  BY DEF Elements
<1>3. \A k \in Present(imp) : \A v \in Elements(Reviewed(k, imp[k])) : <<k, v>> \in me.target
  BY <1>2 DEF Checking
<1>4. HasUser(imp)
  BY DEF Checking
<1>5. "user" \in Present(imp) /\ "user" \in HeaderKey
  BY <1>4 DEF Present, HasUser, HeaderKey
<1>6. imp["user"][1] \in Elements(Reviewed("user", imp["user"]))
  BY DEF Reviewed, Elements
<1>7. ASSUME NEW k \in HeaderKey \ {"user", "uid"}, NEW v \in Elements(imp[k])
      PROVE  <<k, v>> \in me.target
  <2>1. k \in Present(imp)
    BY <1>2, <1>7 DEF Present
  <2>2. Reviewed(k, imp[k]) = imp[k]
    BY DEF Reviewed
  <2> QED
    BY <1>3, <1>7, <2>1, <2>2
<1>8. "group" \in HeaderKey \ {"user", "uid"} /\ ExtraName \subseteq HeaderKey \ {"user", "uid"}
  BY ValueAssumption DEF HeaderKey
<1> QED
  BY <1>3, <1>4, <1>5, <1>6, <1>7, <1>8

-----------------------------------------------------------------------------
(***************************************************************************)
(* Every step keeps what is known of the request that takes it.            *)
(***************************************************************************)
LEMMA JustifiedKept ==
  ASSUME NEW me, NEW you, NEW as, cfg' = cfg, you.in = me.in,
         me.granted \subseteq you.granted, Justified(me, as)
  PROVE  Justified(you, as)'
  BY DEF Justified, EntitledTo, AddedExtras

(* A request that is over only keeps what was said of its hand-over.       *)
LEMMA OverKept ==
  ASSUME NEW me, NEW you, UNCHANGED Env, RequestInv(me),
         you.pc \in {"done", "upstream"},
         you.in = me.in, you.granted = me.granted, you.noImp = me.noImp,
         you.conf = me.conf, you.sent = me.sent, GrantedTo(me.in.user) \subseteq me.granted \/ you.pc = "done"
  PROVE  RequestInv(you)'
<1> USE DEF Env
<1>1. Underway(you)'
  BY DEF Underway, Early, GrantedTo
<1>2. Checking(you)' /\ Prepared(you)'
  BY DEF Checking, Prepared
<1>3. HandedOver(you)'
  <2>1. CASE me.sent # None /\ ~me.noImp
    <3>1. Justified(you, me.sent.as)'
      BY <2>1, JustifiedKept DEF RequestInv, HandedOver
    <3> QED
      BY <2>1, <3>1 DEF RequestInv, HandedOver
  <2>2. CASE me.sent = None \/ me.noImp
    BY <2>2 DEF RequestInv, HandedOver
  <2> QED
    BY <2>1, <2>2
<1>4. PassedThrough(you)'
  BY DEF RequestInv, PassedThrough
<1> QED
  BY <1>1, <1>2, <1>3, <1>4 DEF RequestInv

LEMMA RefuseKeeps ==
  ASSUME TypeOK, NEW r \in Request, RequestInv(req[r]), NEW code, Refuse(r, code),
         UNCHANGED Env
  PROVE  RequestInv(req[r])'
<1>1. LET me == req[r] you == req'[r]
      IN /\ you.pc = "done"
         /\ you.in = me.in /\ you.granted = me.granted /\ you.noImp = me.noImp
         /\ you.conf = me.conf /\ you.sent = me.sent
  BY DEF TypeOK, RequestState, Refuse
<1> QED
  BY <1>1, OverKept

LEMMA AuthenticateKeeps ==
  ASSUME TypeOK, NEW r \in Request, RequestInv(req[r]), Authenticate(r)
  PROVE  RequestInv(req[r])'
<1> DEFINE me  == req[r]
           you == req'[r]
<1>1. CASE Refuse(r, 401)
  BY <1>1, RefuseKeeps DEF Authenticate
<1>2. CASE ~Refuse(r, 401)
  <2>1. /\ you.in = me.in /\ you.imp = me.imp /\ you.noImp = me.noImp
        /\ you.target = me.target /\ you.queue = me.queue
        /\ you.sent = me.sent /\ you.granted = me.granted
        /\ \/ you.pc = "impersonate" /\ you.user = me.in.user
           \/ /\ you.pc = "review" /\ you.auth = me.auth
              /\ me.in.cred # "absent" /\ cfg.tokenReview
    <3>1. me \in RequestState
      BY DEF TypeOK
    <3>2. CASE you = [me EXCEPT !.pc = "impersonate", !.user = me.in.user, !.auth = <<>>]
      BY <3>1, <3>2 DEF RequestState
    <3>3. CASE you = [me EXCEPT !.pc = "review"] /\ me.in.cred # "absent" /\ cfg.tokenReview
      BY <3>1, <3>3 DEF RequestState
    <3> QED
      BY <1>2, <3>2, <3>3 DEF TypeOK, Authenticate
  <2>2. me.pc = "authenticate" /\ UNCHANGED Env
    BY DEF Authenticate, At
  <2> QED
    BY <2>1, <2>2
    DEF RequestInv, Underway, Early, Checking, Prepared, HandedOver, PassedThrough,
        GrantedTo, Env
<1> QED
  BY <1>1, <1>2

LEMMA ReviewTokenKeeps ==
  ASSUME TypeOK, NEW r \in Request, RequestInv(req[r]), ReviewToken(r)
  PROVE  RequestInv(req[r])'
<1> DEFINE me  == req[r]
           you == req'[r]
<1>1. CASE Refuse(r, 401)
  BY <1>1, RefuseKeeps DEF ReviewToken
<1>2. CASE ~Refuse(r, 401)
  <2>1. /\ you.in = me.in /\ you.imp = me.imp /\ you.noImp /\ you.auth = me.auth
        /\ you.target = me.target /\ you.queue = me.queue
        /\ you.sent = me.sent /\ you.granted = me.granted
        /\ you.pc = "impersonate"
    BY <1>2 DEF TypeOK, RequestState, ReviewToken
  <2>2. me.pc = "review" /\ UNCHANGED Env
    BY DEF ReviewToken, At
  <2> QED
    BY <2>1, <2>2
    DEF RequestInv, Underway, Early, Checking, Prepared, HandedOver, PassedThrough,
        GrantedTo, Env
<1> QED
  BY <1>1, <1>2

LEMMA ImpersonateKeeps ==
  ASSUME TypeOK, NEW r \in Request, RequestInv(req[r]), Impersonate(r)
  PROVE  RequestInv(req[r])'
<1> DEFINE me  == req[r]
           you == req'[r]
<1>1. me.pc = "impersonate" /\ UNCHANGED Env
  BY DEF Impersonate, At
<1>2. me.imp = me.in.imp /\ me.sent = None /\ me.target = {} /\ me.user \in Identity
  BY <1>1 DEF RequestInv, Underway, Early, TypeOK, RequestState
<1>3. CASE Refuse(r, 403)
  BY <1>1, <1>3, RefuseKeeps
<1>4. CASE req' = [req EXCEPT ![r].pc = "forward"] /\ me.noImp
  <2>1. you = [me EXCEPT !.pc = "forward"]
    BY <1>4 DEF TypeOK
  <2>2. /\ you.pc = "forward" /\ you.noImp /\ you.in = me.in /\ you.imp = me.imp
        /\ you.auth = me.auth /\ you.sent = me.sent /\ you.granted = me.granted
    BY <1>4, <2>1 DEF TypeOK, RequestState
  <2> QED
    BY <1>1, <1>2, <1>4, <2>2
    DEF RequestInv, Underway, Early, Checking, Prepared, HandedOver, PassedThrough,
        GrantedTo, Env
<1>5. CASE /\ req' = [req EXCEPT ![r].pc = "forward", ![r].noImp = TRUE]
           /\ cfg.disableImpersonation
  <2>1. /\ you.pc = "forward" /\ you.noImp /\ you.in = me.in /\ you.imp = me.imp
        /\ you.sent = me.sent /\ you.granted = me.granted
    BY <1>5 DEF TypeOK, RequestState
  <2>2. cfg.disableImpersonation
    BY <1>5
  <2> QED
    BY <1>1, <1>2, <2>1, <2>2
    DEF RequestInv, Underway, Early, Checking, Prepared, HandedOver, PassedThrough,
        GrantedTo, Env
<1>6. CASE /\ req' = [req EXCEPT ![r].pc = "forward", ![r].conf = ConfFor(me.user, {})]
           /\ ~me.noImp /\ Present(me.imp) = {}
  <2>1. /\ you.pc = "forward" /\ ~you.noImp /\ you.in = me.in /\ you.imp = me.imp
        /\ you.user = me.user /\ you.sent = me.sent /\ you.granted = me.granted
        /\ you.conf = ConfFor(me.user, {})
    BY <1>6 DEF TypeOK, RequestState
  <2>2. me.user = me.in.user
    BY <1>1, <1>6 DEF RequestInv, Underway
  <2>3. you.conf # None
    BY <1>2, <2>1, ConfType, ValueAssumption DEF TypeOK
  <2>4. Justified(you, you.conf)
    BY <1>2, <1>6, <2>1, <2>2, PlainConf DEF Justified, EntitledTo, TypeOK
  <2>5. Justified(req[r], req[r].conf)'
    BY <1>1, <2>4 DEF Justified, EntitledTo, AddedExtras, Env
  <2>6. Prepared(req[r])'
    BY <1>2, <1>6, <2>1, <2>3, <2>5 DEF Prepared
  <2> QED
    BY <1>1, <1>2, <2>1, <2>2, <2>6
    DEF RequestInv, Underway, Early, Checking, HandedOver, PassedThrough,
        GrantedTo, Env
<1>7. CASE /\ req' = [req EXCEPT ![r].pc = "check", ![r].todo = Present(me.imp)]
           /\ ~me.noImp /\ Present(me.imp) # {}
  <2>1. /\ you.pc = "check" /\ ~me.noImp /\ ~you.noImp /\ you.in = me.in /\ you.imp = me.imp
        /\ you.user = me.user /\ you.sent = me.sent /\ you.granted = me.granted
        /\ you.todo = Present(me.imp) /\ you.target = me.target
        /\ you.key = me.key /\ you.queue = me.queue
    BY <1>7 DEF TypeOK, RequestState
  <2>2. me.queue = <<>>
    BY <1>1 DEF RequestInv, Underway
  <2>3. Elements(<<>>) = {}
    BY DEF Elements
  <2>4. Checking(req[r])'
    BY <1>2, <1>7, <2>1, <2>2, <2>3 DEF Checking
  <2> QED
    BY <1>1, <1>2, <2>1, <2>4
    DEF RequestInv, Underway, Early, Prepared, HandedOver, PassedThrough,
        GrantedTo, Env
<1> QED
  BY <1>3, <1>4, <1>5, <1>6, <1>7 DEF Impersonate

(* What is left of a queue when its first value was reviewed.              *)
LEMMA HeadAndTail ==
  ASSUME NEW S, NEW seq \in Seq(S), seq # <<>>
  PROVE  Elements(seq) = {Head(seq)} \cup Elements(Tail(seq))
<1>1. /\ Len(seq) \in Nat \ {0} /\ DOMAIN seq = 1..Len(seq) /\ Head(seq) = seq[1]
      /\ DOMAIN Tail(seq) = 1..(Len(seq) - 1)
  OBVIOUS
<1>2. \A i \in 1..(Len(seq) - 1) : Tail(seq)[i] = seq[i + 1]
  OBVIOUS
<1>3. ASSUME NEW i \in DOMAIN seq
      PROVE  seq[i] = Head(seq) \/ seq[i] \in Elements(Tail(seq))
  <2>1. CASE i = 1
    BY <1>1, <2>1
  <2>2. CASE i # 1
    <3>1. i - 1 \in DOMAIN Tail(seq) /\ Tail(seq)[i - 1] = seq[i]
      BY <1>1, <1>2, <2>2
    <3> QED
      BY <3>1 DEF Elements
  <2> QED
    BY <2>1, <2>2
<1>4. ASSUME NEW i \in DOMAIN Tail(seq)
      PROVE  Tail(seq)[i] \in Elements(seq)
  <2>1. i + 1 \in DOMAIN seq /\ Tail(seq)[i] = seq[i + 1]
    BY <1>1, <1>2
  <2> QED
    BY <2>1 DEF Elements
<1>5. Head(seq) \in Elements(seq)
  <2>1. 1 \in DOMAIN seq
    BY <1>1
  <2> QED
    BY <1>1, <2>1 DEF Elements
<1>6. Elements(seq) \subseteq {Head(seq)} \cup Elements(Tail(seq))
  BY <1>3 DEF Elements
<1>7. {Head(seq)} \cup Elements(Tail(seq)) \subseteq Elements(seq)
  BY <1>4, <1>5 DEF Elements
<1> QED
  BY <1>6, <1>7

LEMMA CheckHeaderKeeps ==
  ASSUME TypeOK, NEW r \in Request, RequestInv(req[r]), CheckHeader(r)
  PROVE  RequestInv(req[r])'
<1> DEFINE me  == req[r]
           you == req'[r]
           imp == me.in.imp
<1>1. me.pc = "check" /\ UNCHANGED Env /\ me.queue = <<>>
  BY DEF CheckHeader, At
<1>2. me.imp = imp /\ imp \in Headers
  BY <1>1 DEF RequestInv, Underway, Early, TypeOK, RequestState
<1>3. CASE Refuse(r, 500)
  BY <1>1, <1>3, RefuseKeeps
<1>4. ASSUME NEW k \in me.todo, HasUser(me.imp),
             req' = [req EXCEPT ![r].todo = @ \ {k}, ![r].key = k,
                                ![r].queue = Reviewed(k, me.imp[k])]
      PROVE  RequestInv(req[r])'
  <2>1. /\ you.pc = "check" /\ you.noImp = me.noImp /\ you.in = me.in /\ you.imp = me.imp
        /\ you.user = me.user /\ you.sent = me.sent /\ you.granted = me.granted
        /\ you.todo = me.todo \ {k} /\ you.target = me.target
        /\ you.key = k /\ you.queue = Reviewed(k, imp[k])
    BY <1>1, <1>2, <1>4 DEF TypeOK, RequestState
  <2>2. Elements(<<>>) = {}
    BY DEF Elements
  <2>3. k = "user" => \A v \in Elements(you.queue) : v = imp["user"][1]
    <3>1. \A x : Elements(<<x>>) = {x}
      BY DEF Elements
    <3>2. k = "user" => you.queue = <<imp["user"][1]>>
      BY <2>1 DEF Reviewed
    <3> QED
      BY <3>1, <3>2
  <2>4. Checking(req[r])'
    <3>1. Checking(me) /\ k \in Present(imp) /\ HasUser(imp)
      BY <1>1, <1>2, <1>4 DEF RequestInv, Checking
    <3>2. \A key \in Present(imp) \ you.todo :
            \A v \in Elements(Reviewed(key, imp[key])) :
              \/ <<key, v>> \in you.target
              \/ key = you.key /\ v \in Elements(you.queue)
      BY <1>1, <2>1, <2>2, <3>1 DEF Checking
    <3>3. /\ Present(imp) # {} /\ you.todo \subseteq Present(imp)
          /\ you.target \subseteq you.granted
          /\ \A c \in you.target : c[1] = "user" => c[2] = imp["user"][1]
      BY <1>1, <2>1, <3>1 DEF Checking
    <3> QED
      BY <2>1, <2>3, <3>1, <3>2, <3>3 DEF Checking
  <2> QED
    BY <1>1, <1>2, <2>1, <2>4
    DEF RequestInv, Underway, Early, Prepared, HandedOver, PassedThrough,
        GrantedTo, Env
<1> QED
  BY <1>3, <1>4, Zenon DEF CheckHeader

LEMMA ReviewClaimKeeps ==
  ASSUME TypeOK, NEW r \in Request, RequestInv(req[r]), ReviewClaim(r)
  PROVE  RequestInv(req[r])'
<1> DEFINE me    == req[r]
           you   == req'[r]
           imp   == me.in.imp
           claim == <<me.key, Head(me.queue)>>
<1>1. me.pc = "check" /\ UNCHANGED Env /\ me.queue # <<>>
  BY DEF ReviewClaim, At
<1>2. /\ me.queue \in Seq(Value \cup {NoValue}) /\ me.key \in HeaderKey
      /\ me.user = me.in.user
  BY <1>1 DEF TypeOK, RequestState, RequestInv, Underway
<1>3. CASE Refuse(r, 403) \/ Refuse(r, 500)
  BY <1>1, <1>3, RefuseKeeps
<1>4. CASE /\ Allowed(me.user, claim)
           /\ req' = [req EXCEPT ![r].queue = Tail(@), ![r].target = @ \cup {claim}]
  <2>1. /\ you.pc = "check" /\ you.noImp = me.noImp /\ you.in = me.in /\ you.imp = me.imp
        /\ you.user = me.user /\ you.sent = me.sent /\ you.granted = me.granted
        /\ you.todo = me.todo /\ you.target = me.target \cup {claim}
        /\ you.key = me.key /\ you.queue = Tail(me.queue)
    BY <1>1, <1>4 DEF TypeOK, RequestState
  <2>2. claim \in me.granted
    <3>1. claim \in Claim
      BY <1>1, <1>2 DEF Claim
    <3>2. <<me.in.user.name, claim>> \in rbac
      BY <1>2, <1>4, Zenon DEF Allowed
    <3>3. claim \in GrantedTo(me.in.user)
      BY <3>1, <3>2, Zenon DEF GrantedTo
    <3>4. GrantedTo(me.in.user) \subseteq me.granted
      BY <1>1 DEF RequestInv, Underway
    <3> QED
      BY <3>3, <3>4, Zenon
  <2>3. Elements(me.queue) = {Head(me.queue)} \cup Elements(Tail(me.queue))
    BY <1>1, <1>2, HeadAndTail
  <2>4. Checking(req[r])'
    <3>1. Checking(me)
      BY DEF RequestInv
    <3>2. \A k \in Present(imp) \ you.todo : \A v \in Elements(Reviewed(k, imp[k])) :
            <<k, v>> \in you.target \/ (k = you.key /\ v \in Elements(you.queue))
      BY <1>1, <2>1, <2>3, <3>1 DEF Checking
    <3>3. /\ Head(me.queue) \in Elements(me.queue)
          /\ Elements(you.queue) \subseteq Elements(me.queue)
      BY <2>1, <2>3
    <3>4. /\ \A c \in you.target : c[1] = "user" => c[2] = imp["user"][1]
          /\ you.key = "user" => \A v \in Elements(you.queue) : v = imp["user"][1]
      BY <1>1, <2>1, <3>1, <3>3 DEF Checking
    <3>5. you.target \subseteq you.granted
      BY <1>1, <2>1, <2>2, <3>1 DEF Checking
    <3> QED
      BY <1>1, <2>1, <3>1, <3>2, <3>4, <3>5 DEF Checking
  <2> QED
    BY <1>1, <2>1, <2>4
    DEF RequestInv, Underway, Early, Prepared, HandedOver, PassedThrough,
        GrantedTo, Env
<1> QED
  BY <1>3, <1>4 DEF ReviewClaim

LEMMA AuthorizedKeeps ==
  ASSUME TypeOK, NEW r \in Request, RequestInv(req[r]), Authorized(r)
  PROVE  RequestInv(req[r])'
<1> DEFINE me   == req[r]
           you  == req'[r]
           imp  == me.in.imp
           conf == ConfFor(me.user, me.target)
<1>1. /\ me.pc = "check" /\ UNCHANGED Env /\ me.todo = {} /\ me.queue = <<>>
      /\ me \in RequestState /\ me.user \in Identity /\ me.target \in SUBSET Claim
  BY DEF Authorized, At, TypeOK, RequestState
<1>2. /\ you.pc = "forward" /\ you.noImp = me.noImp /\ you.in = me.in
      /\ you.imp = NoHeaders /\ you.user = me.user /\ you.sent = me.sent
      /\ you.granted = me.granted /\ you.conf = conf
  BY DEF Authorized, RemainingHeaders, TypeOK, RequestState
<1>3. Checking(me)
  BY DEF RequestInv
<1>4. /\ me.target \subseteq me.granted /\ Present(imp) # {}
      /\ \A c \in me.target : c[1] = "user" => c[2] = imp["user"][1]
  BY <1>1, <1>3 DEF Checking
<1>5. /\ HasUser(imp) /\ <<"user", imp["user"][1]>> \in me.target
      /\ \A v \in Elements(imp["group"]) : <<"group", v>> \in me.target
      /\ \A n \in ExtraName : \A v \in Elements(imp[n]) : <<n, v>> \in me.target
  BY <1>1, <1>3, LoopDone
<1>6. /\ conf.name = imp["user"][1]
      /\ \A g \in conf.groups : g = AllAuthenticated \/ <<"group", g>> \in me.target
      /\ \A g : <<"group", g>> \in me.target => g \in conf.groups
      /\ conf.extra \subseteq me.target \cup AddedExtras \cup OriginalUserExtras(me.user)
      /\ \A n \in ExtraName \ ProxyExtra : \A v :
           <<n, v>> \in me.target => <<n, v>> \in conf.extra
  BY <1>1, <1>4, <1>5, ImpersonatedConf DEF TypeOK
<1> HIDE DEF conf
<1>7. AsRequested(imp, conf)
  BY <1>5, <1>6 DEF AsRequested
<1>8. EntitledTo(me, conf)
  <2>1. me.user = me.in.user
    BY <1>1, <1>3 DEF RequestInv, Underway
  <2> QED
    BY <1>4, <1>5, <1>6, <2>1 DEF EntitledTo
<1>9. Justified(you, conf)
  BY <1>2, <1>7, <1>8 DEF Justified, EntitledTo
<1>10. Justified(req[r], req[r].conf)'
  BY <1>1, <1>2, <1>9 DEF Justified, EntitledTo, AddedExtras, Env
<1>11. conf # None
  BY <1>1, ConfType, ValueAssumption DEF conf, TypeOK
<1>12. Present(NoHeaders) = {}
  BY DEF Present, NoHeaders
<1>13. Prepared(req[r])'
  <2>1. you.conf # None /\ Present(you.imp) = {}
    BY <1>2, <1>11, <1>12
  <2> QED
    BY <1>10, <2>1, Zenon DEF Prepared
<1> QED
  BY <1>1, <1>2, <1>13
  DEF RequestInv, Underway, Early, Checking, HandedOver, PassedThrough, GrantedTo, Env

LEMMA ForwardKeeps ==
  ASSUME TypeOK, NEW r \in Request, RequestInv(req[r]), Forward(r)
  PROVE  RequestInv(req[r])'
<1> DEFINE me   == req[r]
           you  == req'[r]
           past == [auth |-> Append(me.auth, BearerToken), imp |-> me.imp, as |-> None]
           acted == [auth |-> me.auth \o DelegateCredentials, imp |-> me.imp,
                     as |-> Impersonated(me.imp, me.conf)]
<1>1. me.pc = "forward" /\ UNCHANGED Env
  BY DEF Forward, At
<1>2. /\ me.sent = None /\ GrantedTo(me.in.user) \subseteq me.granted
      /\ me.auth \in Seq({"token"})
  BY <1>1 DEF RequestInv, Underway, TypeOK, RequestState
<1>3. CASE /\ me.noImp
           /\ req' = [req EXCEPT ![r].pc = "upstream", ![r].audit = me.user,
                                 ![r].sent = past]
  <2>1. /\ you.pc = "upstream" /\ you.noImp /\ you.in = me.in
        /\ you.granted = me.granted /\ you.sent = past
    BY <1>3 DEF TypeOK, RequestState
  <2>2. past.as = None /\ past.imp = me.in.imp
    BY <1>1, <1>3 DEF RequestInv, PassedThrough
  <2>3. "proxy" \notin Elements(past.auth)
    BY <1>2 DEF Elements, BearerToken
  <2>4. ~cfg.disableImpersonation => Head(past.auth) = "token"
    <3>1. ~cfg.disableImpersonation => me.auth = <<"token">>
      BY <1>1, <1>3 DEF RequestInv, PassedThrough
    <3>2. Head(Append(<<"token">>, BearerToken)) = "token"
      BY DEF BearerToken
    <3> QED
      BY <3>1, <3>2
  <2>5. cfg.disableImpersonation \/ cfg.tokenReview
    BY <1>3 DEF RequestInv, PassedThrough
  <2> HIDE DEF past
  <2> QED
    BY <1>1, <1>2, <2>1, <2>2, <2>3, <2>4, <2>5
    DEF RequestInv, Underway, Early, Checking, Prepared, HandedOver, PassedThrough,
        GrantedTo, Env
<1>4. CASE /\ ~me.noImp
           /\ req' = [req EXCEPT ![r].pc = "upstream", ![r].audit = ContextUser(me),
                                 ![r].log = Append(@, "AuSuccess"), ![r].sent = acted]
  <2>1. /\ you.pc = "upstream" /\ ~you.noImp /\ you.in = me.in /\ you.conf = me.conf
        /\ you.granted = me.granted /\ you.sent = acted
    BY <1>4 DEF TypeOK, RequestState
  <2>2. me.conf # None /\ Present(me.imp) = {} /\ Justified(me, me.conf)
    BY <1>1, <1>4 DEF RequestInv, Prepared
  <2>3. acted.as = me.conf /\ acted.imp = me.imp
    BY <2>2 DEF Impersonated, HasUser, Present, HeaderKey
  <2> HIDE DEF acted
  <2>4. Justified(you, you.sent.as)
    BY <2>1, <2>2, <2>3 DEF Justified, EntitledTo
  <2>5. Justified(req[r], req[r].sent.as)'
    BY <1>1, <2>4 DEF Justified, EntitledTo, AddedExtras, Env
  <2>6. HandedOver(req[r])'
    BY <2>1, <2>2, <2>3, <2>5 DEF HandedOver
  <2> QED
    BY <1>1, <1>2, <2>1, <2>6
    DEF RequestInv, Underway, Early, Checking, Prepared, PassedThrough, GrantedTo, Env
<1>5. CASE /\ ~me.noImp
           /\ req' = [req EXCEPT ![r].pc = "done", ![r].audit = ContextUser(me),
                                 ![r].log = Append(@, "AuSuccess")]
  <2>1. /\ you.pc = "done" /\ you.in = me.in /\ you.granted = me.granted
        /\ you.noImp = me.noImp /\ you.conf = me.conf /\ you.sent = me.sent
    BY <1>5 DEF TypeOK, RequestState
  <2> QED
    BY <1>1, <2>1, OverKept
<1> QED
  BY <1>3, <1>4, <1>5 DEF Forward

LEMMA UpstreamKeeps ==
  ASSUME TypeOK, NEW r \in Request, RequestInv(req[r]), Upstream(r)
  PROVE  RequestInv(req[r])'
<1> DEFINE me   == req[r]
           you  == req'[r]
<1>1. UNCHANGED Env
  BY DEF Upstream
<1>2. CASE Refuse(r, 500)
  BY <1>1, <1>2, RefuseKeeps
<1>3. CASE req' = [req EXCEPT ![r].pc = "done", ![r].code = 200]
  <2>1. /\ you.pc = "done" /\ you.in = me.in /\ you.granted = me.granted
        /\ you.noImp = me.noImp /\ you.conf = me.conf /\ you.sent = me.sent
    BY <1>3 DEF TypeOK, RequestState
  <2> QED
    BY <1>1, <2>1, OverKept
<1> QED
  BY <1>2, <1>3 DEF Upstream

LEMMA ArriveKeeps ==
  ASSUME TypeOK, NEW r \in Request, Arrive(r)
  PROVE  RequestInv(req[r])'
<1> DEFINE you  == req'[r]
<1>1. PICK a \in Arrivals :
        req' = [req EXCEPT ![r] =
                 [Idle EXCEPT !.pc = "authenticate", !.in = a, !.imp = a.imp,
                    !.auth = IF a.cred = "absent" THEN <<>> ELSE <<"token">>,
                    !.granted = GrantedTo(a.user)]]
  BY DEF Arrive
<1>2. /\ you.pc = "authenticate" /\ you.in = a /\ you.imp = a.imp
      /\ a.cred # "absent" => you.auth = <<"token">>
      /\ you.granted = GrantedTo(a.user) /\ ~you.noImp /\ you.sent = None
      /\ you.target = {} /\ you.queue = <<>>
  BY <1>1 DEF TypeOK, Idle
<1>3. UNCHANGED Env
  BY DEF Arrive
<1>4. Underway(req[r])'
  BY <1>2, <1>3 DEF Underway, Early, GrantedTo, Env
<1>5. /\ Checking(req[r])' /\ Prepared(req[r])'
      /\ HandedOver(req[r])' /\ PassedThrough(req[r])'
  BY <1>2 DEF Checking, Prepared, HandedOver, PassedThrough
<1> QED
  BY <1>4, <1>5 DEF RequestInv

(* A request is left alone by the steps of the others.                     *)
LEMMA OthersKeep ==
  ASSUME NEW r \in Request, RequestInv(req[r]), req'[r] = req[r],
         UNCHANGED <<cfg, rbac>>
  PROVE  RequestInv(req[r])'
BY DEF RequestInv, Underway, Early, Checking, Prepared, HandedOver, PassedThrough,
       Justified, EntitledTo, AddedExtras, GrantedTo

LEMMA ChangeRbacKeeps ==
  ASSUME TypeOK, NEW r \in Request, RequestInv(req[r]), ChangeRbac
  PROVE  RequestInv(req[r])'
<1> DEFINE me   == req[r]
           you  == req'[r]
           more == {c \in Claim : <<me.in.user.name, c>> \in rbac'}
<1>1. me \in RequestState /\ cfg' = cfg
  BY DEF TypeOK, ChangeRbac
<1>2. CASE me.pc \in {"idle", "done"}
  <2>1. you = me
    BY <1>2 DEF ChangeRbac
  <2>2. Underway(req[r])'
    BY <1>2, <2>1 DEF RequestInv, Underway, Early
  <2> QED
    BY <1>1, <1>2, <2>1, <2>2
    DEF RequestInv, Checking, Prepared, HandedOver, PassedThrough, Justified, EntitledTo,
        AddedExtras
<1>3. CASE me.pc \notin {"idle", "done"}
  <2>1. you = [me EXCEPT !.granted = @ \cup more]
    BY <1>3 DEF ChangeRbac
  <2>2. /\ you.pc = me.pc /\ you.in = me.in /\ you.auth = me.auth /\ you.imp = me.imp
        /\ you.user = me.user /\ you.noImp = me.noImp /\ you.todo = me.todo
        /\ you.key = me.key /\ you.queue = me.queue /\ you.target = me.target
        /\ you.conf = me.conf /\ you.sent = me.sent
        /\ you.granted = me.granted \cup more
    BY <1>1, <2>1 DEF RequestState
  <2> HIDE DEF you
  <2>3. Underway(req[r])'
    <3>1. GrantedTo(me.in.user)' \subseteq me.granted \cup more
      BY <1>1, <2>2 DEF GrantedTo, you
    <3> QED
      BY <2>2, <3>1 DEF RequestInv, Underway, Early, GrantedTo, you
  <2>4. Checking(req[r])'
    BY <2>2 DEF RequestInv, Checking, you
  <2>5. \A as : Justified(me, as) => Justified(req[r], as)'
    BY <1>1, <2>2, JustifiedKept DEF you
  <2>6. Prepared(req[r])' /\ HandedOver(req[r])'
    BY <2>2, <2>5 DEF RequestInv, Prepared, HandedOver, you
  <2>7. PassedThrough(req[r])'
    BY <1>1, <2>2 DEF RequestInv, PassedThrough, you
  <2> QED
    BY <2>3, <2>4, <2>6, <2>7 DEF RequestInv
<1> QED
  BY <1>2, <1>3

-----------------------------------------------------------------------------
(***************************************************************************)
(* The invariant is inductive.                                             *)
(***************************************************************************)
LEMMA InitIInv == Init => IInv
<1> SUFFICES ASSUME Init PROVE IInv
  OBVIOUS
<1>1. TypeOK
  <2>1. oidcReady \in BOOLEAN
    BY Zenon DEF Init
  <2>2. rbacChanges \in 0..MaxRbacChanges /\ req \in [Request -> RequestState]
    BY IdleType, GrantsAssumption DEF Init
  <2> QED
    BY <2>1, <2>2 DEF Init, TypeOK
<1>2. RequestInv(Idle)
  BY DEF RequestInv, Underway, Early, Checking, Prepared, HandedOver, PassedThrough, Idle
<1> QED
  BY <1>1, <1>2 DEF Init, IInv

(* A step of one request leaves the shared state and the other requests    *)
(* alone.                                                                  *)
LEMMA StepLocal ==
  ASSUME TypeOK, NEW r \in Request, Arrive(r) \/ Handler(r) \/ ApiServer(r)
  PROVE  UNCHANGED Env /\ \A q \in Request \ {r} : req'[q] = req[q]
<1>1. UNCHANGED Env
  BY DEF Arrive, Handler, Authenticate, Impersonate, CheckHeader, Authorized, Forward,
         ApiServer, ReviewToken, ReviewClaim, Upstream
<1>2. \A q \in Request \ {r} : req'[q] = req[q]
  <2>1. ASSUME NEW code, Refuse(r, code)
        PROVE  \A q \in Request \ {r} : req'[q] = req[q]
    BY <2>1 DEF TypeOK, Refuse
  <2>2. CASE Arrive(r)
    BY <2>2 DEF TypeOK, Arrive
  <2>3. CASE Authenticate(r) \/ ReviewToken(r) \/ Upstream(r)
    BY <2>1, <2>3 DEF TypeOK, Authenticate, ReviewToken, Upstream
  <2>4. CASE Impersonate(r)
    BY <2>1, <2>4 DEF TypeOK, Impersonate
  <2>5. CASE CheckHeader(r)
    BY <2>1, <2>5 DEF TypeOK, CheckHeader
  <2>6. CASE ReviewClaim(r)
    BY <2>1, <2>6 DEF TypeOK, ReviewClaim
  <2>7. CASE Authorized(r) \/ Forward(r)
    BY <2>7 DEF TypeOK, Authorized, Forward
  <2> QED
    BY <2>2, <2>3, <2>4, <2>5, <2>6, <2>7 DEF Handler, ApiServer
<1> QED
  BY <1>1, <1>2, Zenon

(* A step of one request.                                                  *)
LEMMA StepIInv ==
  ASSUME IInv, NEW r \in Request, Arrive(r) \/ Handler(r) \/ ApiServer(r)
  PROVE  IInv'
<1>1. TypeOK /\ RequestInv(req[r])
  BY DEF IInv
<1>3. UNCHANGED Env /\ \A q \in Request \ {r} : req'[q] = req[q]
  BY <1>1, StepLocal
<1>5. req' \in [Request -> RequestState] /\ RequestInv(req[r])'
  <2>1. CASE Arrive(r)
    BY <1>1, <2>1, ArriveType, ArriveKeeps
  <2>2. CASE Authenticate(r)
    BY <1>1, <2>2, AuthenticateType, AuthenticateKeeps
  <2>3. CASE Impersonate(r)
    BY <1>1, <2>3, ImpersonateType, ImpersonateKeeps
  <2>4. CASE CheckHeader(r)
    <3>1. req[r].todo \subseteq Present(req[r].imp)
      BY <1>1, <2>4 DEF RequestInv, Checking, Underway, Early, CheckHeader, At
    <3> QED
      BY <1>1, <2>4, <3>1, CheckHeaderType, CheckHeaderKeeps
  <2>5. CASE Authorized(r)
    BY <1>1, <2>5, AuthorizedType, AuthorizedKeeps
  <2>6. CASE Forward(r)
    BY <1>1, <2>6, ForwardType, ForwardKeeps
  <2>7. CASE ReviewToken(r)
    BY <1>1, <2>7, ReviewTokenType, ReviewTokenKeeps
  <2>8. CASE ReviewClaim(r)
    BY <1>1, <2>8, ReviewClaimType, ReviewClaimKeeps
  <2>9. CASE Upstream(r)
    BY <1>1, <2>9, UpstreamType, UpstreamKeeps
  <2> QED
    BY <2>1, <2>2, <2>3, <2>4, <2>5, <2>6, <2>7, <2>8, <2>9 DEF Handler, ApiServer
<1>6. TypeOK'
  BY <1>1, <1>3, <1>5 DEF TypeOK, Env
<1>7. ASSUME NEW q \in Request PROVE RequestInv(req[q])'
  <2>1. CASE q = r
    BY <1>5, <2>1
  <2>2. CASE q # r
    BY <1>3, <2>2, OthersKeep DEF IInv, Env
  <2> QED
    BY <2>1, <2>2
<1> QED
  BY <1>6, <1>7 DEF IInv

LEMMA NextIInv == IInv /\ [Next]_vars => IInv'
<1> SUFFICES ASSUME IInv, [Next]_vars PROVE IInv'
  OBVIOUS
<1>1. CASE \E r \in Request : Arrive(r) \/ Handler(r) \/ ApiServer(r)
  BY <1>1, StepIInv
<1>2. CASE OidcInitialized
  <2>1. TypeOK'
    BY <1>2 DEF IInv, TypeOK, OidcInitialized
  <2> QED
    BY <1>2, <2>1, OthersKeep DEF IInv, OidcInitialized
<1>3. CASE ChangeRbac
  <2>1. TypeOK'
    BY <1>3, ChangeRbacType, GrantsAssumption DEF IInv, TypeOK, ChangeRbac
  <2> QED
    BY <1>3, <2>1, ChangeRbacKeeps DEF IInv
<1>4. CASE UNCHANGED vars
  <2>1. TypeOK'
    BY <1>4 DEF IInv, TypeOK, vars
  <2> QED
    BY <1>4, <2>1, OthersKeep DEF IInv, vars, Env
<1> QED
  BY <1>1, <1>2, <1>3, <1>4 DEF Next

LEMMA Invariant == Spec => []IInv
  BY InitIInv, NextIInv, PTL DEF Spec

-----------------------------------------------------------------------------
(***************************************************************************)
(* Every step of a request takes it further.                               *)
(***************************************************************************)
LEMMA HandlersCounted ==
  /\ HandlersLeft["authenticate"] = 6 /\ HandlersLeft["review"] = 5
  /\ HandlersLeft["impersonate"] = 4 /\ HandlersLeft["check"] = 3
  /\ HandlersLeft["forward"] = 2 /\ HandlersLeft["upstream"] = 1
  /\ HandlersLeft["done"] = 0
  BY DEF HandlersLeft

(* A refusal is the end of any request in progress.                        *)
LEMMA RefuseAdvances ==
  ASSUME TypeOK, NEW r \in Request, NEW code, Refuse(r, code),
         req[r].pc \notin {"idle", "done"}
  PROVE  Further(req[r], req'[r])
<1>1. req[r] \in RequestState /\ req'[r].pc = "done"
  BY DEF TypeOK, RequestState, Refuse
<1>2. req[r].pc \in {"authenticate", "review", "impersonate", "check", "forward", "upstream"}
  BY <1>1 DEF RequestState, Handlers
<1>3. HandlersLeft["done"] < HandlersLeft[req[r].pc]
  BY <1>2, HandlersCounted
<1> QED
  BY <1>1, <1>3 DEF Further

(* The two turns of the loop over the headers.                             *)
LEMMA CheckAdvances ==
  ASSUME TypeOK, NEW r \in Request, CheckHeader(r) \/ ReviewClaim(r),
         \A code : ~Refuse(r, code)
  PROVE  Further(req[r], req'[r])
<1> DEFINE me  == req[r]
           you == req'[r]
<1>1. /\ me \in RequestState /\ me.pc = "check"
      /\ me.queue \in Seq(Value \cup {NoValue})
  BY DEF TypeOK, RequestState, CheckHeader, ReviewClaim, At
<1>2. CASE CheckHeader(r)
  <2>1. PICK k \in me.todo : req' = [req EXCEPT ![r].todo = @ \ {k}, ![r].key = k,
                                                ![r].queue = Reviewed(k, me.imp[k])]
    BY <1>2 DEF CheckHeader
  <2>2. you.pc = "check" /\ you.todo = me.todo \ {k}
    BY <1>1, <2>1 DEF TypeOK, RequestState
  <2> QED
    BY <1>1, <2>2 DEF Further
<1>3. CASE ReviewClaim(r)
  <2>1. /\ me.queue # <<>>
        /\ req' = [req EXCEPT ![r].queue = Tail(@),
                              ![r].target = @ \cup {<<me.key, Head(me.queue)>>}]
    BY <1>3 DEF ReviewClaim
  <2>2. you.pc = "check" /\ you.todo = me.todo /\ you.queue = Tail(me.queue)
    BY <1>1, <2>1 DEF TypeOK, RequestState
  <2>3. Len(Tail(me.queue)) < Len(me.queue)
    BY <1>1, <2>1
  <2> QED
    BY <1>1, <2>2, <2>3 DEF Further
<1> QED
  BY <1>2, <1>3

(* The other handlers hand the request to a later one.                     *)
LEMMA HandlerAdvances ==
  ASSUME TypeOK, NEW r \in Request, Handler(r) \/ ApiServer(r)
  PROVE  Further(req[r], req'[r])
<1> DEFINE me  == req[r]
           you == req'[r]
<1>1. me \in RequestState /\ me.pc \notin {"idle", "done"}
  BY DEF TypeOK, Handler, ApiServer, Authenticate, ReviewToken, Impersonate, CheckHeader,
         ReviewClaim, Authorized, Forward, Upstream, At
<1>2. CASE \E code : Refuse(r, code)
  BY <1>1, <1>2, RefuseAdvances
<1>3. CASE \A code : ~Refuse(r, code)
  <2>1. CASE Authenticate(r)
    <3>1. me.pc = "authenticate" /\ you.pc \in {"impersonate", "review"}
      BY <1>1, <1>3, <2>1 DEF Authenticate, At, TypeOK, RequestState
    <3> QED
      BY <3>1, HandlersCounted DEF Further
  <2>2. CASE ReviewToken(r)
    <3>1. me.pc = "review" /\ you.pc = "impersonate"
      BY <1>1, <1>3, <2>2 DEF ReviewToken, At, TypeOK, RequestState
    <3> QED
      BY <3>1, HandlersCounted DEF Further
  <2>3. CASE Impersonate(r)
    <3>1. me.pc = "impersonate" /\ you.pc \in {"check", "forward"}
      BY <1>1, <1>3, <2>3 DEF Impersonate, At, TypeOK, RequestState
    <3> QED
      BY <3>1, HandlersCounted DEF Further
  <2>4. CASE CheckHeader(r) \/ ReviewClaim(r)
    BY <1>3, <2>4, CheckAdvances
  <2>5. CASE Authorized(r)
    <3>1. me.pc = "check" /\ you.pc = "forward"
      BY <1>1, <2>5 DEF Authorized, At, TypeOK, RequestState
    <3> QED
      BY <3>1, HandlersCounted DEF Further
  <2>6. CASE Forward(r)
    <3>1. me.pc = "forward" /\ you.pc \in {"upstream", "done"}
      BY <1>1, <2>6 DEF Forward, At, TypeOK, RequestState
    <3> QED
      BY <3>1, HandlersCounted DEF Further
  <2>7. CASE Upstream(r)
    <3>1. me.pc = "upstream" /\ you.pc = "done"
      BY <1>1, <1>3, <2>7 DEF Upstream, At, TypeOK, RequestState
    <3> QED
      BY <3>1, HandlersCounted DEF Further
  <2> QED
    BY <2>1, <2>2, <2>3, <2>4, <2>5, <2>6, <2>7 DEF Handler, ApiServer
<1> QED
  BY <1>2, <1>3

(* What others do changes nothing of a request but what its user may claim.*)
LEMMA NextAdvances ==
  ASSUME TypeOK, [Next]_vars, NEW r \in Request, req[r].pc \notin {"idle", "done"}
  PROVE  \/ req'[r] = [req[r] EXCEPT !.granted = req'[r].granted]
         \/ Further(req[r], req'[r])
<1>1. req[r] \in RequestState
  BY DEF TypeOK
<1>2. CASE req'[r] = req[r]
  BY <1>1, <1>2 DEF RequestState
<1>3. CASE Handler(r) \/ ApiServer(r)
  BY <1>3, HandlerAdvances
<1>4. CASE \E q \in Request : Arrive(q) \/ Handler(q) \/ ApiServer(q)
  <2>1. PICK q \in Request : Arrive(q) \/ Handler(q) \/ ApiServer(q)
    BY <1>4
  <2>2. CASE q = r
    BY <1>3, <2>1, <2>2 DEF Arrive
  <2>3. CASE q # r
    BY <1>2, <2>1, <2>3, StepLocal
  <2> QED
    BY <2>2, <2>3
<1>5. CASE OidcInitialized \/ UNCHANGED vars
  BY <1>2, <1>5 DEF OidcInitialized, vars
<1>6. CASE ChangeRbac
  BY <1>1, <1>6 DEF ChangeRbac, RequestState
<1> QED
  BY <1>4, <1>5, <1>6 DEF Next

-----------------------------------------------------------------------------
(***************************************************************************)
(* Theorems.                                                               *)
(***************************************************************************)
(* The request's handlers keep every field of the request, of its context  *)
(* and of the shared state of the type the Go declarations give it.        *)
THEOREM TypeCorrect == Spec => []TypeOK
<1>1. IInv => TypeOK
  BY DEF IInv
<1> QED
  BY <1>1, Invariant, PTL

(* No request leaves as an identity its user neither has nor was allowed   *)
(* to impersonate, with any number of requests and administrators at work  *)
(* (CheckAuthorizedForImpersonation).                                      *)
THEOREM GrantedOnly == Spec => []IdentityGranted
<1>1. IInv => IdentityGranted
  BY DEF IInv, RequestInv, HandedOver, Justified, IdentityGranted, ForwardedAs, HandedAs
<1> QED
  BY <1>1, Invariant, PTL

(* Impersonation is all or nothing: the loop over the headers drops none.  *)
THEOREM AllOrNothing == Spec => []ImpersonationComplete
<1>1. IInv => ImpersonationComplete
  BY DEF IInv, RequestInv, HandedOver, Justified, ImpersonationComplete, ForwardedAs, HandedAs
<1> QED
  BY <1>1, Invariant, PTL

(* Proxy.RoundTrip always finds the configuration withImpersonateRequest   *)
(* computed, and the impersonating transport never ignores it.             *)
THEOREM AsConfigured == Spec => []ConfigurationApplied
<1>1. IInv => ConfigurationApplied
  BY DEF IInv, RequestInv, Prepared, HandedOver, ConfigurationApplied, At
<1> QED
  BY <1>1, Invariant, PTL

(* A passthrough never borrows the proxy's credentials and loses nothing   *)
(* of the client's.                                                        *)
THEOREM PassedUntouched == Spec => []PassthroughIntact
<1>1. IInv => PassthroughIntact
  BY DEF IInv, RequestInv, PassedThrough, PassthroughIntact
<1> QED
  BY <1>1, Invariant, PTL

(* No request goes in circles: its handlers come one after the other, and  *)
(* the loop over its headers gets nearer its end with every turn, for any  *)
(* number of headers and values (subjectaccessreview.go:53-138).           *)
THEOREM Progress == Spec => RequestsAdvance
<1>1. ASSUME TypeOK, [Next]_vars
      PROVE  \A r \in Request : req[r].pc \notin {"idle", "done"} =>
               \/ req'[r] = [req[r] EXCEPT !.granted = req'[r].granted]
               \/ Further(req[r], req'[r])
  BY <1>1, NextAdvances
<1> QED
  BY <1>1, TypeCorrect, PTL DEF Spec, RequestsAdvance
=============================================================================
