-------------------------- MODULE RequestPipeline --------------------------
(***************************************************************************)
(* The handler chain every request of the proxy goes through               *)
(* (pkg/proxy/handlers.go, proxy.go, subjectaccessreview.go,               *)
(* tokenreview.go, context.go):                                            *)
(*                                                                         *)
(*   withAuthenticateRequest -> [withTokenReview] -> withImpersonateRequest*)
(*     -> audit -> httputil.ReverseProxy -> Proxy.RoundTrip -> API server  *)
(*                                                                         *)
(* Requests run concurrently, one goroutine each, and share the RBAC state *)
(* of the API server, which administrators change while a request is being *)
(* checked: each Impersonate-* value is a SubjectAccessReview of its own.  *)
(* A request slot is a keep-alive connection: it carries one request at a  *)
(* time and is reused.                                                     *)
(***************************************************************************)
EXTENDS Naturals, Sequences, FiniteSets

CONSTANTS
  Request,          \* slots for requests that are served concurrently
  Value,            \* header values: user names, groups, uids, extra values
  NoValue,          \* the empty string
  None,             \* a Go nil
  ExtraName,        \* names of extras, the <n> of Impersonate-Extra-<n>
  AllAuthenticated, \* the group "system:authenticated"
  ClientAddr,       \* the remote address xff derives for a request
  JsonExtras,       \* the JSON text of a non-empty extras map
  Arrivals,         \* the requests clients send: [cred, user, imp, path]
  Configs,          \* the proxy.Config values that Options.Validate accepts
  Grants,           \* the impersonation rights the administrators deal in
  MaxRbacChanges    \* bound on how often they change one

(* Map keys of the extras the proxy itself adds (proxy.go:33,             *)
(* handlers.go:179-201).                                                   *)
ClientIPKey    == "Remote-Client-IP"
OriginalUser   == "originaluser.jetstack.io-user"
OriginalGroups == "originaluser.jetstack.io-groups"
OriginalUID    == "originaluser.jetstack.io-uid"
OriginalExtra  == "originaluser.jetstack.io-extra"
ProxyExtra     == {ClientIPKey, OriginalUser, OriginalGroups, OriginalUID,
                   OriginalExtra}

(* Impersonate-<key>: -User, -Group, -Uid, -Extra-<name> and any other.    *)
HeaderKey == {"user", "group", "uid", "other"} \cup ExtraName
Claim     == HeaderKey \X (Value \cup {NoValue})
Extras    == SUBSET ((ExtraName \cup ProxyExtra) \X (Value \cup {NoValue}))

(* user.Info. The nil Info and the Info without a name are refused alike   *)
(* (handlers.go:114), so Nobody stands for both.                           *)
Identity == [name: Value \cup {NoValue},
             groups: SUBSET (Value \cup {NoValue}),
             uid: Value \cup {NoValue}, extra: Extras]
Nobody   == [name |-> NoValue, groups |-> {}, uid |-> NoValue, extra |-> {}]

(* The Impersonate-* headers of a request: the values under each key, none *)
(* when the header is absent.                                              *)
Headers      == [HeaderKey -> Seq(Value \cup {NoValue})]
NoHeaders    == [k \in HeaderKey |-> <<>>]
Present(imp) == {k \in HeaderKey : imp[k] # <<>>}

(* transport.ImpersonationConfig as handlers.go:206-210 fills it: no UID.  *)
Conf == [name: Value \cup {NoValue},
         groups: SUBSET (Value \cup {NoValue}), extra: Extras]

ASSUME ValueAssumption ==
  /\ NoValue \notin Value /\ None \notin Conf
  /\ {AllAuthenticated, ClientAddr, JsonExtras} \subseteq Value
  /\ {"user", "group", "uid", "other"} \cap ExtraName = {}
ASSUME ArrivalsAssumption ==
  /\ Arrivals \subseteq [cred: {"absent", "oidc", "foreign"}, user: Identity,
                         imp: Headers, path: {"full", "short"}]
  /\ \A a \in Arrivals : a.cred # "oidc" => a.user = Nobody
(* Config, proxy.go:43-53, after the check of options.go:90-93.            *)
ASSUME ConfigsAssumption ==
  /\ Configs \subseteq [disableImpersonation: BOOLEAN, tokenReview: BOOLEAN,
                        clientIP: BOOLEAN, extraUserHeaders: Extras]
  /\ \A c \in Configs : c.disableImpersonation =>
                          ~c.clientIP /\ c.extraUserHeaders = {}
ASSUME GrantsAssumption ==
  Grants \subseteq Value \X Claim /\ MaxRbacChanges \in Nat

VARIABLES
  cfg,         \* Proxy.config
  oidcReady,   \* the OIDC authenticator has initialised
  rbac,        \* <<user name, claim>>: who may impersonate what, right now
  rbacChanges, \* how often rbac changed, for MaxRbacChanges
  req          \* per slot: the request, its context and what became of it

vars == <<cfg, oidcReady, rbac, rbacChanges, req>>

(***************************************************************************)
(* The state of one request.                                               *)
(*   pc      the handler that runs next                                    *)
(*   in      the request as the client sent it                             *)
(*   auth    the values of its Authorization header now                    *)
(*   imp     its Impersonate-* headers now                                 *)
(*   user    the user in its context                                       *)
(*   noImp   noImpersonationKey in its context                             *)
(*   todo, key, queue   header keys the loop of                            *)
(*           CheckAuthorizedForImpersonation has not visited, the key it is*)
(*           at and that key's values not reviewed                         *)
(*   target  the claims put in the target user so far                      *)
(*   conf    impersonationConfigKey in its context                         *)
(*   sent    what was handed to the API server's transport                 *)
(*   code    the status given to the client, 0 while there is none         *)
(*   log     its lines in the access log                                   *)
(*   audit   the user its audit event names, None before there is one      *)
(*   granted (history) the claims its user was allowed to impersonate at   *)
(*           some moment since the request arrived                         *)
(***************************************************************************)
Idle == [pc |-> "idle",
         in |-> [cred |-> "absent", user |-> Nobody, imp |-> NoHeaders,
                 path |-> "full"],
         auth |-> <<>>, imp |-> NoHeaders, user |-> Nobody, noImp |-> FALSE,
         todo |-> {}, key |-> "user", queue |-> <<>>, target |-> {},
         conf |-> None, sent |-> None, code |-> 0, log |-> <<>>,
         audit |-> None, granted |-> {}]

Init == /\ cfg \in Configs
        /\ oidcReady = FALSE
        /\ rbac \in SUBSET Grants
        /\ rbacChanges = 0
        /\ req = [r \in Request |-> Idle]

Env == <<cfg, oidcReady, rbac, rbacChanges>>

At(r, pc) == req[r].pc = pc

(* Definitions marked Bug are faults that could be made here; the checks   *)
(* are known to notice each of them.                                       *)

(* Bug: an unexpected error is answered with a status of its own.          *)
RefuseOddly(r, code) ==
  req' = [req EXCEPT ![r].pc = "done", ![r].log = Append(@, "AuFail"),
                     ![r].code = IF code = 500 THEN 502 ELSE code,
                     ![r].audit = IF code = 401 THEN Nobody ELSE @]
(* Bug: only the first branch of the switch logs.                          *)
RefuseQuietly(r, code) ==
  req' = [req EXCEPT ![r].pc = "done", ![r].code = code,
                     ![r].log = IF code = 401 THEN Append(@, "AuFail") ELSE @,
                     ![r].audit = IF code = 401 THEN Nobody ELSE @]
(* newErrorHandler: log, then answer. A 401 is audited as well, without a  *)
(* user. The branch for a nil error has no caller.                         *)
Refuse(r, code) ==
  req' = [req EXCEPT ![r].pc = "done", ![r].code = code,
                     ![r].log = Append(@, "AuFail"),
                     ![r].audit = IF code = 401 THEN Nobody ELSE @]

GrantedTo(u) == {c \in Claim : <<u.name, c>> \in rbac}

(* net/http hands a connection's next request to the chain.                *)
Arrive(r) ==
  /\ req[r].pc \in {"idle", "done"}
  /\ \E a \in Arrivals :
       req' = [req EXCEPT ![r] =
                 [Idle EXCEPT !.pc = "authenticate", !.in = a, !.imp = a.imp,
                    !.auth = IF a.cred = "absent" THEN <<>> ELSE <<"token">>,
                    !.granted = GrantedTo(a.user)]]
  /\ UNCHANGED Env

(* withAuthenticateRequest. bearertoken reports no error for a request     *)
(* without a bearer token, an error for a token it rejects, and removes    *)
(* the Authorization header when it accepts the token.                     *)
Authenticate(r) ==
  /\ At(r, "authenticate")
  /\ LET in       == req[r].in
         accepted == in.cred = "oidc" /\ oidcReady
     IN  \/ /\ in.cred = "absent"
            /\ Refuse(r, 401)
         \/ /\ accepted
            /\ req' = [req EXCEPT ![r].pc = "impersonate",
                                  ![r].user = in.user, ![r].auth = <<>>]
         \/ /\ in.cred # "absent" /\ ~accepted
            /\ IF cfg.tokenReview THEN req' = [req EXCEPT ![r].pc = "review"]
                                  ELSE Refuse(r, 401)
  /\ UNCHANGED Env

(* Bug: the review waits for the OIDC authenticator to initialise.         *)
ReviewTokenWhenReady(r) ==
  /\ At(r, "review") /\ oidcReady
  /\ \/ req' = [req EXCEPT ![r].pc = "impersonate", ![r].noImp = TRUE]
     \/ Refuse(r, 401)
  /\ UNCHANGED Env

(* withTokenReview after the TokenReview call: an API error, the 10 s      *)
(* deadline, a Status.Error and Authenticated = false all refuse.          *)
ReviewToken(r) ==
  /\ At(r, "review")
  /\ \/ req' = [req EXCEPT ![r].pc = "impersonate", ![r].noImp = TRUE]
     \/ Refuse(r, 401)
  /\ UNCHANGED Env

(* Bug: only the first value of any header is reviewed.                    *)
ReviewedFirst(key, values) == <<values[1]>>

(* checkRbacImpersonationAuthorization is asked about the first value of   *)
(* -User and -Uid and about every value of the others.                     *)
Reviewed(key, values) ==
  IF key \in {"user", "uid"} THEN <<values[1]>> ELSE values

HasUser(imp) == imp["user"] # <<>> /\ imp["user"][1] # NoValue

(* The targetUser CheckAuthorizedForImpersonation has built from claims.   *)
ValuesOf(claims, key) == {c[2] : c \in {d \in claims : d[1] = key}}
TargetOf(claims) ==
  LET First(key) == IF ValuesOf(claims, key) = {} THEN NoValue
                    ELSE CHOOSE v \in ValuesOf(claims, key) : TRUE
  IN [name |-> First("user"), groups |-> ValuesOf(claims, "group"),
      uid |-> First("uid"), extra |-> {c \in claims : c[1] \in ExtraName}]

(* The originaluser.* extras, handlers.go:176-203.                         *)
OriginalUserExtras(u) ==
       {<<OriginalUser, u.name>>}
  \cup {<<OriginalGroups, g>> : g \in u.groups}
  \cup (IF u.uid # NoValue THEN {<<OriginalUID, u.uid>>} ELSE {})
  \cup (IF u.extra # {} THEN {<<OriginalExtra, JsonExtras>>} ELSE {})

(* Bug: the target keeps the groups of the user behind it.                 *)
ActingUserInGroups(u, claims) ==
  IF claims = {} THEN u
  ELSE [TargetOf(claims) EXCEPT !.groups = @ \cup u.groups]

(* The user withImpersonateRequest goes on with.                           *)
ActingUser(u, claims) == IF claims = {} THEN u ELSE TargetOf(claims)

(* Bug: the originaluser.* extras are appended as well.                    *)
MergedAppending(extra, own) == extra \cup own

(* Map entries are appended to, the originaluser.* ones replaced.          *)
Merged(extra, own) == {e \in extra : \A o \in own : o[1] # e[1]} \cup own

(* The extras the options add to every impersonated request.               *)
AddedExtras == (IF cfg.clientIP THEN {<<ClientIPKey, ClientAddr>>} ELSE {})
                 \cup cfg.extraUserHeaders

(* The rest of withImpersonateRequest once the acting user is known.       *)
ConfFor(u, claims) ==
  LET as  == ActingUser(u, claims)
      own == IF claims = {} THEN {} ELSE OriginalUserExtras(u)
  IN [name |-> as.name, groups |-> as.groups \cup {AllAuthenticated},
      extra |-> Merged(as.extra \cup AddedExtras, own)]

(* withImpersonateRequest up to its first call to the API server.          *)
Impersonate(r) ==
  /\ At(r, "impersonate")
  /\ LET me == req[r]
     IN  \/ /\ me.noImp
            /\ req' = [req EXCEPT ![r].pc = "forward"]
         \/ /\ ~me.noImp /\ cfg.disableImpersonation
            /\ req' = [req EXCEPT ![r].pc = "forward", ![r].noImp = TRUE]
         \/ /\ ~me.noImp /\ ~cfg.disableImpersonation
            /\ me.user.name = NoValue
            /\ Refuse(r, 403)
         \/ /\ ~me.noImp /\ ~cfg.disableImpersonation
            /\ me.user.name # NoValue
            /\ req' = IF Present(me.imp) = {}
                      THEN [req EXCEPT ![r].pc = "forward",
                                       ![r].conf = ConfFor(me.user, {})]
                      ELSE [req EXCEPT ![r].pc = "check",
                                       ![r].todo = Present(me.imp)]
  /\ UNCHANGED Env

(* Bug: a header that is reviewed stays among those to visit.              *)
CheckHeaderAgain(r) ==
  /\ At(r, "check") /\ req[r].queue = <<>>
  /\ \E k \in req[r].todo :
       req' = [req EXCEPT ![r].key = k, ![r].queue = Reviewed(k, req[r].imp[k])]
  /\ UNCHANGED Env

(* One turn of the loop over req.Header, whose order Go randomises.        *)
CheckHeader(r) ==
  /\ At(r, "check") /\ req[r].queue = <<>>
  /\ \E k \in req[r].todo :
       IF ~HasUser(req[r].imp) \/ k = "other"
       THEN Refuse(r, 500)
       ELSE req' = [req EXCEPT ![r].todo = @ \ {k}, ![r].key = k,
                               ![r].queue = Reviewed(k, req[r].imp[k])]
  /\ UNCHANGED Env

(* Bug: the review names the resource but not the value.                   *)
AllowedSome(u, claim) ==
  \E g \in rbac : g[1] = u.name /\ g[2][1] = claim[1]

(* Status.Allowed of a SubjectAccessReview for the authenticated user.     *)
Allowed(u, claim) == <<u.name, claim>> \in rbac

(* One SubjectAccessReview: allowed, denied (403) or failed (500).         *)
ReviewClaim(r) ==
  /\ At(r, "check") /\ req[r].queue # <<>>
  /\ LET me    == req[r]
         claim == <<me.key, Head(me.queue)>>
     IN  \/ /\ Allowed(me.user, claim)
            /\ req' = [req EXCEPT ![r].queue = Tail(@),
                                  ![r].target = @ \cup {claim}]
         \/ /\ ~Allowed(me.user, claim)
            /\ Refuse(r, 403)
         \/ Refuse(r, 500)
  /\ UNCHANGED Env

(* Bug: the headers are left in the request.                               *)
KeepingHeaders(imp) == imp

(* newHeaders, subjectaccessreview.go:140-152: every key visited is gone.  *)
RemainingHeaders(imp) == NoHeaders

(* The loop is over: drop the headers, go on as the target.                *)
Authorized(r) ==
  /\ At(r, "check") /\ req[r].todo = {} /\ req[r].queue = <<>>
  /\ req' = [req EXCEPT ![r].pc = "forward", ![r].imp = RemainingHeaders(@),
                        ![r].conf = ConfFor(req[r].user, req[r].target)]
  /\ UNCHANGED Env

(* Bug: a passthrough is given the proxy's own token.                      *)
OwnToken == "proxy"

(* context.BearerToken: nothing calls WithBearerToken, so the key is unset.*)
BearerToken == ""

(* Proxy.Run: with a no-auth transport the namespace transport, which is   *)
(* the delegate of every impersonated request, is switched over to it.     *)
DelegateCredentials == IF cfg.disableImpersonation \/ cfg.tokenReview
                       THEN <<>> ELSE <<"proxy">>

(* transport.NewImpersonatingRoundTripper leaves a request alone that      *)
(* already has an Impersonate-User header.                                 *)
Impersonated(imp, conf) == IF HasUser(imp) THEN None ELSE conf

(* Bug: the context keeps the authenticated user.                          *)
AuthenticatedUser(me) == me.user

(* The user in the context WithImpersonationConfig returns.                *)
ContextUser(me) == ActingUser(me.user, me.target)

(* The audit handler and Proxy.RoundTrip. A path that ends right after     *)
(* "namespaces" makes CustomNamespaceRoundTripper panic; net/http recovers *)
(* and aborts the connection.                                              *)
Forward(r) ==
  /\ At(r, "forward")
  /\ LET me == req[r]
     IN  \/ /\ me.noImp
            /\ req' = [req EXCEPT
                  ![r].pc = "upstream", ![r].audit = me.user,
                  ![r].sent = [auth |-> Append(me.auth, BearerToken),
                               imp |-> me.imp, as |-> None]]
         \/ /\ ~me.noImp /\ me.in.path = "full"
            /\ req' = [req EXCEPT
                  ![r].pc = "upstream", ![r].audit = ContextUser(me),
                  ![r].log = Append(@, "AuSuccess"),
                  ![r].sent = [auth |-> me.auth \o DelegateCredentials,
                               imp |-> me.imp,
                               as |-> Impersonated(me.imp, me.conf)]]
         \/ /\ ~me.noImp /\ me.in.path = "short"
            /\ req' = [req EXCEPT
                  ![r].pc = "done", ![r].audit = ContextUser(me),
                  ![r].log = Append(@, "AuSuccess")]
  /\ UNCHANGED Env

(* The API server answers, or its transport fails: ReverseProxy hands that *)
(* error to the same error handler.                                        *)
Upstream(r) ==
  /\ At(r, "upstream")
  /\ \/ req' = [req EXCEPT ![r].pc = "done", ![r].code = 200]
     \/ Refuse(r, 500)
  /\ UNCHANGED Env

(***************************************************************************)
(* The environment.                                                        *)
(***************************************************************************)
(* oidc.New initialises in the background, once.                           *)
OidcInitialized ==
  /\ ~oidcReady /\ oidcReady' = TRUE
  /\ UNCHANGED <<cfg, rbac, rbacChanges, req>>

(* An administrator grants or revokes one impersonation right.             *)
ChangeRbac ==
  /\ rbacChanges < MaxRbacChanges /\ rbacChanges' = rbacChanges + 1
  /\ \E g \in Grants :
       \/ g \in rbac /\ rbac' = rbac \ {g}
       \/ g \notin rbac /\ rbac' = rbac \cup {g}
  /\ req' = [r \in Request |->
               IF req[r].pc \in {"idle", "done"} THEN req[r]
               ELSE [req[r] EXCEPT !.granted = @ \cup
                       {c \in Claim : <<req[r].in.user.name, c>> \in rbac'}]]
  /\ UNCHANGED <<cfg, oidcReady>>

Handler(r) == \/ Authenticate(r) \/ Impersonate(r) \/ CheckHeader(r)
              \/ Authorized(r) \/ Forward(r)
ApiServer(r) == ReviewToken(r) \/ ReviewClaim(r) \/ Upstream(r)

Next == \/ \E r \in Request : Arrive(r) \/ Handler(r) \/ ApiServer(r)
        \/ OidcInitialized
        \/ ChangeRbac

Spec == Init /\ [][Next]_vars

(* Handlers run on goroutines of their own. The API server's answers are   *)
(* fair only by assumption: TokenReview has a deadline, but nothing bounds *)
(* a SubjectAccessReview (context.TODO) or the forwarded request.          *)
HandlerFairness     == \A r \in Request : WF_vars(Handler(r))
ApiServerFairness   == \A r \in Request : WF_vars(ApiServer(r))
TokenReviewFairness == \A r \in Request : WF_vars(ReviewToken(r))

(* The API server need not answer anything but token reviews.              *)
FairSpec == Spec /\ HandlerFairness /\ TokenReviewFairness

-----------------------------------------------------------------------------
(***************************************************************************)
(* Properties.                                                             *)
(***************************************************************************)
Elements(seq) == {seq[i] : i \in DOMAIN seq}

Handlers == {"idle", "authenticate", "review", "impersonate", "check", "forward",
             "upstream", "done"}
Incoming == [cred: {"absent", "oidc", "foreign"}, user: Identity, imp: Headers,
             path: {"full", "short"}]
Token    == {"token", "proxy", ""}
Status   == {0, 200, 401, 403, 500}
LogLine  == {"AuSuccess", "AuFail"}
Sent     == [auth: Seq(Token), imp: Headers, as: Conf \cup {None}]

(* nil is not a request that was handed over.                              *)
ASSUME SentAssumption == None \notin Sent

RequestState ==
  [pc: Handlers, in: Incoming, auth: Seq({"token"}), imp: Headers, user: Identity,
   noImp: BOOLEAN, todo: SUBSET HeaderKey, key: HeaderKey,
   queue: Seq(Value \cup {NoValue}), target: SUBSET Claim, conf: Conf \cup {None},
   sent: Sent \cup {None}, code: Status, log: Seq(LogLine),
   audit: Identity \cup {None}, granted: SUBSET Claim]

(* The type invariant: each variable and each field of a request holds a   *)
(* value of the kind the Go declarations give it.                          *)
TypeOK == /\ cfg \in Configs /\ oidcReady \in BOOLEAN
          /\ rbac \subseteq Grants /\ rbacChanges \in 0..MaxRbacChanges
          /\ req \in [Request -> RequestState]

HandedAs(me)   == IF me.sent = None THEN None ELSE me.sent.as
ForwardedAs(r) == HandedAs(req[r])

(* The identity a request is forwarded as is the authenticated user's own  *)
(* when it carried no Impersonate-* header, and otherwise one whose name,  *)
(* groups and extras that user was allowed to impersonate at some moment   *)
(* of the request, whatever order the reviews ran in and whatever the      *)
(* administrators changed meanwhile. The only extras beyond these are the  *)
(* configured ones and what the proxy itself says of the client and of the *)
(* user behind it: a value the client sends under one of those names is    *)
(* reviewed like any other (CheckAuthorizedForImpersonation,               *)
(* subjectaccessreview.go:36-159, and handlers.go:119-210).                *)
EntitledTo(me, as) ==
  IF Present(me.in.imp) = {}
  THEN /\ as.name = me.in.user.name
       /\ as.groups = me.in.user.groups \cup {AllAuthenticated}
       /\ as.extra \subseteq me.in.user.extra \cup AddedExtras
  ELSE /\ <<"user", as.name>> \in me.granted
       /\ \A g \in as.groups :
            g = AllAuthenticated \/ <<"group", g>> \in me.granted
       /\ as.extra \subseteq
            me.granted \cup AddedExtras \cup OriginalUserExtras(me.in.user)

IdentityGranted ==
  \A r \in Request : ForwardedAs(r) # None => EntitledTo(req[r], ForwardedAs(r))

(* Impersonation is all or nothing: a request with Impersonate-* headers   *)
(* is forwarded as the user and with every group and extra value it names, *)
(* never as a part of them, although they are reviewed one by one          *)
(* (subjectaccessreview.go:53-136).                                        *)
AsRequested(imp, as) ==
  /\ HasUser(imp) /\ as.name = imp["user"][1]
  /\ Elements(imp["group"]) \subseteq as.groups
  /\ \A n \in ExtraName \ ProxyExtra :
       \A v \in Elements(imp[n]) : <<n, v>> \in as.extra

ImpersonationComplete ==
  \A r \in Request : ForwardedAs(r) # None /\ Present(req[r].in.imp) # {} =>
    AsRequested(req[r].in.imp, ForwardedAs(r))

(* A request that is not a passthrough leaves with exactly the             *)
(* configuration withImpersonateRequest computed, and with none of the     *)
(* client's Impersonate-* headers, which would take precedence over it:    *)
(* Proxy.RoundTrip never meets errNoImpersonationConfig (proxy.go:245,     *)
(* "if you are seeing this, there is likely a bug", handlers.go:256).      *)
ConfigurationApplied ==
  \A r \in Request :
    /\ At(r, "forward") /\ ~req[r].noImp => req[r].conf # None
    /\ req[r].sent # None /\ ~req[r].noImp =>
         /\ req[r].sent.as # None /\ req[r].sent.as = req[r].conf
         /\ Present(req[r].sent.imp) = {}

(* An impersonating request tells the API server's audit log who really    *)
(* asked. Under each originaluser name the authenticated user has a value  *)
(* for (its name always; groups, uid and extras when it has any) are       *)
(* exactly these values, also when the client sent Impersonate-Extra-      *)
(* headers of the same name. A name the user has nothing for is not        *)
(* overwritten: what is there was configured, or asked for by the client   *)
(* and allowed by RBAC (handlers.go:176-203), so README.md:327, "The       *)
(* original groups", is not true of a user without groups.                 *)
RecordOf(u) == [key \in {OriginalUser, OriginalGroups, OriginalUID, OriginalExtra} |->
                  CASE key = OriginalUser   -> {u.name}
                    [] key = OriginalGroups -> u.groups
                    [] key = OriginalUID    -> {u.uid} \ {NoValue}
                    [] key = OriginalExtra  -> IF u.extra = {} THEN {} ELSE {JsonExtras}]

OriginalUserRecorded ==
  \A r \in Request : ForwardedAs(r) # None /\ Present(req[r].in.imp) # {} =>
    LET record == RecordOf(req[r].in.user)
    IN \A key \in DOMAIN record :
         LET said == ValuesOf(ForwardedAs(r).extra, key)
         IN IF record[key] # {} THEN said = record[key]
            ELSE \A v \in said : <<key, v>> \in req[r].granted \cup AddedExtras

(* The proxy's own audit event and the API server see the same user        *)
(* (context.WithImpersonationConfig, context.go:49-55).                    *)
AuditNamesForwardedUser ==
  \A r \in Request : ForwardedAs(r) # None =>
    /\ req[r].audit.name = ForwardedAs(r).name
    /\ req[r].audit.groups \cup {AllAuthenticated} = ForwardedAs(r).groups

(* A passthrough happens only where it is configured, carries the client's *)
(* Impersonate-* headers untouched, never the proxy's own credentials,     *)
(* and, after a token review, the client's token first                     *)
(* (handlers.go:66-86,103-110; proxy.go:237-241).                          *)
PassthroughIntact ==
  \A r \in Request : req[r].sent # None /\ req[r].noImp =>
    LET sent == req[r].sent
    IN /\ cfg.disableImpersonation \/ cfg.tokenReview
       /\ sent.imp = req[r].in.imp /\ "proxy" \notin Elements(sent.auth)
       /\ ~cfg.disableImpersonation => Head(sent.auth) = "token"

(* The access log agrees with the outcome of every request. A refusal logs *)
(* AuFail and never AuSuccess. An answer to an impersonated request logs   *)
(* AuSuccess, one to a passthrough nothing, where README.md:304 has "all   *)
(* requests" in the log. An error logs AuFail, after AuSuccess only if the *)
(* request was impersonated and its transport failed.                      *)
(* A request that panics below RoundTrip, and so has no answer, was logged *)
(* as a success (handlers.go:238, proxy.go:236-263).                       *)
AccessLogTruthful ==
  \A r \in Request : At(r, "done") =>
    LET me == req[r]
    IN /\ me.code \in {401, 403} => me.log = <<"AuFail">>
       /\ me.code = 500 => me.log = (IF ForwardedAs(r) = None THEN <<"AuFail">>
                                     ELSE <<"AuSuccess", "AuFail">>)
       /\ me.code = 200 => me.log = (IF me.noImp THEN <<>> ELSE <<"AuSuccess">>)
       /\ me.code = 0 => me.log = <<"AuSuccess">> /\ ~me.noImp /\ me.sent = None

(* No request goes in circles, and what others do sends none back: each of *)
(* its steps takes it to a later handler, or, in the loop over the headers,*)
(* past a header or the review of a value. The API server is therefore     *)
(* asked no more often than there are values, whatever the order Go visits *)
(* the headers in (handlers.go:39-128, subjectaccessreview.go:53-138).     *)
HandlersLeft == [authenticate |-> 6, review |-> 5, impersonate |-> 4, check |-> 3,
                 forward |-> 2, upstream |-> 1, done |-> 0]

Further(me, you) ==
  \/ HandlersLeft[you.pc] < HandlersLeft[me.pc]
  \/ me.pc = "check" /\ you.pc = "check"
       /\ \/ you.todo \subseteq me.todo /\ you.todo # me.todo
          \/ you.todo = me.todo /\ Len(you.queue) < Len(me.queue)

RequestsAdvance ==
  [][\A r \in Request : req[r].pc \notin {"idle", "done"} =>
       \/ req'[r] = [req[r] EXCEPT !.granted = req'[r].granted]
       \/ Further(req[r], req'[r])]_vars

(* Every request is answered or its connection aborted, if the API server  *)
(* answers what it is asked: no branch of the chain leaves a request       *)
(* without an answer (handlers.go:39-60,92-128; proxy.go:237-263).         *)
EveryRequestEnds ==
  ApiServerFairness => \A r \in Request : At(r, "authenticate") ~> At(r, "done")

(* A request without Impersonate-* headers reaches the transport or its    *)
(* refusal even if the API server answers no SubjectAccessReview, since    *)
(* TokenReview, the only call in its way, has a deadline                   *)
(* (tokenreview.go:49).                                                    *)
PlainRequestNotHeldUp ==
  \A r \in Request :
    At(r, "authenticate") /\ Present(req[r].in.imp) = {}
      ~> req[r].pc \in {"upstream", "done"}

(* docs/tasks/no-impersonation.md:6: "The OIDC bearer token is also kept   *)
(* in the request."                                                        *)
BearerTokenKept ==
  \A r \in Request : req[r].sent # None /\ cfg.disableImpersonation =>
    "token" \in Elements(req[r].sent.auth)

(* README.md:183: "This impersonated request is then sent to the API       *)
(* server on behalf of the user", which takes the proxy's credentials: the *)
(* API server knows no others.                                             *)
ImpersonationCarriesCredentials ==
  \A r \in Request : ForwardedAs(r) # None => req[r].sent.auth # <<>>
-----------------------------------------------------------------------------
(***************************************************************************)
(* The handlers implement Gateway: everything between a request's arrival  *)
(* and its hand-over to the transport is one pending request there. Names  *)
(* and groups are the claims that are compared; AllAuthenticated is in     *)
(* every identity.                                                         *)
(***************************************************************************)
NameOrGroup == ({"user"} \X (Value \cup {NoValue}))
          \cup ({"group"} \X ((Value \cup {NoValue}) \ {AllAuthenticated}))
AsClaims(id) == NameOrGroup \cap
                  ({<<"user", id.name>>} \cup {<<"group", g>> : g \in id.groups})
WantedClaims(imp) ==
  NameOrGroup \cap
    (   {<<k, imp[k][1]>> : k \in Present(imp) \cap {"user"}}
   \cup {<<"group", g>> : g \in Elements(imp["group"])})

Standing(me) ==
  CASE me.pc \in {"idle", "done"} -> "closed"
    [] me.pc = "upstream" -> IF me.noImp THEN "untouched" ELSE "admitted"
    [] OTHER -> "pending"

GateOf(me) == [at     |-> Standing(me),
               caller |-> me.in.user,
               wants  |-> WantedClaims(me.in.imp),
               could  |-> me.granted \cap NameOrGroup,
               as     |-> IF HandedAs(me) = None THEN {} ELSE AsClaims(HandedAs(me))]

Passthrough == cfg.disableImpersonation \/ cfg.tokenReview
Rights      == {g \in rbac : g[2] \in NameOrGroup}
Gates       == [r \in Request |-> GateOf(req[r])]

Promise ==
  INSTANCE Gateway WITH
    Caller <- Identity, Name <- Value, Claim <- NameOrGroup, Own <- AsClaims,
    passthrough <- Passthrough, rights <- Rights, gate <- Gates

(* Every behaviour of the handler chain is one of Gateway: no request is   *)
(* let through as an identity its caller did not have or could not claim.  *)
ImplementsGateway == Promise!Spec
=============================================================================
