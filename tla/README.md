# kube-oidc-proxy (pf9-oidc-proxy): TLA+ specification and proofs

These modules specify the proxy under `src/`: a reverse proxy that
authenticates Kubernetes clients with OpenID Connect, forwards their requests to
the API server under impersonation, and rewrites request paths for tenants. TLC
checks the specification on small instances; TLAPS proves every safety
property of the runs, and every refinement, for all values of the constants.
`PROJECT.json` lists the runs, the theorems, the hazards, the faults each
property is known to notice, and the source lines each definition stands for.

    tlc -config PipelineCheck.cfg MCPipeline       # model-check one run
    tlapm RequestPipelineProofs.tla                # check one module of proofs

## 1. The system

| part | source | state | operations |
|---|---|---|---|
| handler chain | `pkg/proxy/handlers.go`, `proxy.go` | the request's headers and its context | `withAuthenticateRequest`, `withTokenReview`, `withImpersonateRequest`, `newErrorHandler`, `RoundTrip` |
| subject access review | `pkg/proxy/subjectaccessreview` | the loop over the `Impersonate-*` headers, the target user so far | `CheckAuthorizedForImpersonation`, one API call per header value |
| token review | `pkg/proxy/tokenreview` | none | `Review`, one API call with a deadline of 10 s |
| request context | `pkg/proxy/context` | values under private keys | `With...` and the getters |
| namespace mapping | `pkg/proxy/namespace_round_tripper.go:28-118` | `mappings` under an RWMutex; an fsnotify watcher | `loadMappings`, `watchFile`, `GetNamespace` |
| path rewriting | `pkg/proxy/namespace_round_tripper.go:146-241` | local to a request | `RoundTrip`, `modifyNamespaceInPath`, `addRegionLabelSelectorInPath`, `joinPath` |
| access log | `pkg/proxy/logging` | none | `LogSuccessfulRequest`, `LogFailedRequest` |
| audit | `pkg/proxy/audit` | the API server library's audit backend | `WithRequest`, `WithUnauthorized`, `Run`, `Shutdown` |
| configuration | `cmd/app/options` | flags | `AddFlags`, `Validate` |
| life cycle | `cmd/app/run.go`, `pkg/util/signals.go`, `pkg/proxy/hooks` | `stopCh`, the hook map | start-up in order, drain, pre-shutdown hooks |
| readiness probe | `pkg/probe` | `ready` | `Check` |
| slice flag | `pkg/util/flags` | the map of values | `Set`, `String` |

How they interact. `net/http` runs the chain on one goroutine per connection:
authenticate (with the audit of a 401), token review when it is enabled,
impersonate, audit, `httputil.ReverseProxy`, `Proxy.RoundTrip`, and below it the
impersonating round tripper of client-go and `CustomNamespaceRoundTripper`,
which asks the `MappingManager` for a namespace. The handlers talk to each other
only through the request: its headers and its context. The shared state is the
mapping, the OIDC authenticator (which initialises in the background: until it
has the issuer's discovery document it refuses every token), `handleError` and the
transports (set once by `Run`), and, outside the process, the API
server's RBAC. One goroutine watches the mapping's directory; one waits for
signals; one serves the probe; two belong to the HTTPS server (one accepts, one
waits for `stopCh` and shuts the server down); a batching audit backend has a
worker. `stopCh` ties them together: the signal handler closes it, and the
server and the audit backend stop because of it, each at its own pace.

What is hard, and what makes each part correct:

* **Handler chain and reviews.** An identity is put together from the answers of
  several calls, made in an order Go randomises, while administrators change
  RBAC. It must hold nothing the user could not claim, and everything the client
  asked for. What one handler decides (`noImpersonation`, the removed
  `Authorization` header, the removed `Impersonate-*` headers, the user in the
  context) is used several handlers later, by somebody else: audit, the access
  log and the API server must agree, and a request that is passed through must
  never borrow the proxy's credentials. Every branch must end in an answer.
* **Namespace mapping.** A reload opens, reads and parses while the volume is
  swapped under it; events queue up behind a slow reload, and inotify drops
  them when its queue is full. The map must move forward only, survive
  failed loads, and not stay stale.
* **Path rewriting.** Two loops over the path, the second on what the first
  left, with index arithmetic at the ends. A mapped tenant must land in its own
  namespace, and nothing but the tenant's parts may change.
* **Life cycle.** Signals come at any moment, during start-up too. Requests are
  drained, and audited, while the audit backend already stops; a request may
  never end. What was accepted must be answered unless a deadline or a
  supervisor's insistence says otherwise, the exit code must tell the truth, and
  the audit trail must be complete as far as the code can promise it.
* **Probe.** It is started before the proxy serves, its handler runs on several
  goroutines with an unsynchronised flag, and its port may be taken. Ready must
  mean that authenticated requests are served, and must stay.
* **Configuration.** Flags that are legal each by itself conflict; repeated flags
  accumulate or override; one option is parsed and never used. The handlers
  rely on exclusions that only `Validate` establishes.

## 2. The modules

| module | what it is |
|---|---|
| `Gateway` | what the proxy promises about a request, without its handlers |
| `RequestPipeline` | the handler chain, the reviews, the context, the log and audit calls; implements `Gateway` |
| `RequestPipelineProofs` | TLAPS proofs about what it sends |
| `GatewayProofs` | TLAPS proofs about what it records, and that it implements `Gateway` |
| `MCPipeline` | its TLC instances |
| `MappingStore` | what the mapping promises: it serves published, readable versions, never an older one |
| `NsMapping` | `MappingManager`, the file system and inotify; implements `MappingStore` |
| `NsMappingProofs` | TLAPS proofs about it, the implementation included |
| `MCNsMapping` | its TLC module |
| `PathRewrite` | the two loops, one iteration per step, and a reference definition without loops |
| `PathRewriteProofs` | TLAPS proofs about it |
| `MCPathRewrite` | its TLC instances |
| `Service` | what a server process promises to clients and supervisor, without goroutines |
| `Lifecycle` | start-up, serving, signals, draining, audit backend, hooks, exit; implements `Service` |
| `LifecycleProofs` | TLAPS proofs about it, the implementation included |
| `MCLifecycle` | its TLC module |
| `Readiness` | the probe, its concurrent checks and the OIDC authenticator's initialisation |
| `System` | `Lifecycle`, `Readiness` and `RequestPipeline` composed |
| `SystemProofs` | TLAPS proofs: it implements `Lifecycle` and `RequestPipeline`, and what the two owe each other |
| `MCSystem` | its TLC instance |
| `Options` | from the command line to `proxy.Config` and the authenticator's options |
| `OptionsProofs` | TLAPS proofs about it |
| `MCOptions` | its TLC instance |

### RequestPipeline

A request slot is a keep-alive connection: it carries one request at a time and
is used again. `req[r]` is the request (what the client sent, `in`), its headers
now (`auth`, `imp`), its context (`user`, `noImp`, `conf`), the local state of
`CheckAuthorizedForImpersonation` (`todo`, `key`, `queue`, `target`), and what
came of it (`sent`, `code`, `log`, `audit`). `granted` is a history variable: all
the claims its user was allowed to impersonate at some moment since it arrived.

| action | code |
|---|---|
| `Arrive` | `net/http` hands a connection's next request to the chain |
| `Authenticate` | `withAuthenticateRequest`: no token, an accepted token (the header is removed), a rejected one |
| `ReviewToken` | `withTokenReview` after its API call: accepted, or any of its errors, the deadline included |
| `Impersonate` | `withImpersonateRequest` up to its first API call |
| `CheckHeader` | one turn of the loop over the headers, in any order |
| `ReviewClaim` | one SubjectAccessReview: allowed, denied, failed |
| `Authorized` | the rest of that function and of `withImpersonateRequest` |
| `Forward` | the audit handler, `Proxy.RoundTrip` and the round trippers below it |
| `Upstream` | the API server's answer, or `ReverseProxy`'s error handler |
| `OidcInitialized` | `oidc.New`'s background initialisation succeeded |
| `ChangeRbac` | an administrator grants or revokes one right |

A step of a handler that calls the API server ends at the call, so other
requests and administrators act between any two calls. Headers and identities
keep their structure (which keys, how many values, which are empty); names are
members of small sets. A request's path is `full` or `short` (it ends right
after `namespaces`), the one difference the handler chain can notice; the path
itself is `PathRewrite`'s.

`Gateway` is the abstract specification: a pending request is closed, admitted
as its caller, admitted as the claims it wants if each of them could be claimed
at some moment, or handed on untouched where that is configured. The refinement
mapping (`Promise` at the end of `RequestPipeline`) takes everything between the
request's arrival and its hand-over to the transport for one pending request.
Claims there are names and groups; extras are compared by `IdentityGranted` and
`ImpersonationComplete`.

### NsMapping

The contents of the mapping file are a version number; some versions do not
parse. The file is on a projected volume, updated as kubelet does it (write
`..<version>`, relink `..data`, remove the old directory), or a plain file that
is truncated and rewritten. `loadMappings` holds the write lock over three
steps: `Resolve` (the open follows `..data`), `Open` (it finds the file, or the
directory is gone) and `Read` (read, parse, publish). `Emit` is inotify: a
bounded queue that drops events and reports an overflow, which `watchFile`
prints (`TakeError`) and otherwise ignores. `lost`, `addedAt` and `seen` are
history variables.

### PathRewrite

A path is the sequence of segments `strings.Split(path, "/")` yields; the
segments the code knows have names (`ApiTok`, `Namespaces`, `AllMark`...).
`JoinPath` picks the segments that are not empty, in order (`Part`). `Modify` and
`ModifyEnd` are the loop of `modifyNamespaceInPath` and its end with `joinPath`;
`Label` and `LabelEnd` the loop of `addRegionLabelSelectorInPath`, with the
panic of an index beyond the slice as an outcome. `Modified`, `Stripped`,
`Labels` and `Panics` define the same function over the whole path, without a
loop; `MatchesReference` compares the two. The map is constant here: a request
looks it up once, and `NsMapping` says what it may find.

### Lifecycle

| variable | code |
|---|---|
| `main`, `code` | where `RunE` is, and how the process ended |
| `signals` | sent; pending in the channel of two; taken by `SignalHandler` |
| `hooks` | `preShutdownHooks` |
| `listener`, `acceptor`, `shutter`, `overdue` | the socket and the two goroutines of `SecureServingInfo.Serve`; whether `Shutdown`'s context expired |
| `conn` | each connection: queued in the kernel, active in a handler, answered, cut off, dropped |
| `audit` | the backend's kind, its worker, its buffer, what it wrote and what it dropped |

| action | code |
|---|---|
| `Configure`, `Bind`, `Build`, `StartProbe`, `RunAuditor`, `Serve` | `RunE` down to `Proxy.serve`, in the order of `StartOrder` |
| `StartUpFails` | any of them returns an error, and `main` exits with 1 |
| `WaitForServer`, `RunPreShutdownHooks` | the end of `RunE` and of `main` |
| `SendSignal`, `TakeSignal` | `signal.Notify`, which drops what finds the channel full; one receive of `SignalHandler`, the fourth of which exits |
| `AcceptorStarts`, `Accept`, `AcceptorEnds`, `AcceptorFails` | `http.Server.Serve` in its goroutine; an error before `stopCh` is closed is a panic |
| `ShutdownBegins`, `ShutdownEnds` | `http.Server.Shutdown` in its goroutine, with the 60 s of `proxy.go:222` |
| `Report`, `Answer` | a request, opaque here |
| `WorkerCloses`, `WorkerWrites`, `WorkerEnds` | a batching audit backend after and before `stopCh` |

The server, the listener and the audit backends are the API server library's and
`net/http`'s: external, modelled from how `proxy.go` and `audit.go` use them. A
signal may come before `Serve`: then `Shutdown` finds no listener, and `Serve`
returns at once; both orders of the two goroutines are behaviours. `Lifecycle`
begins with a command line that is meant to start the proxy: `--help` and
`--version` end the process with 0 while they are parsed and validated, and that
is `Options`'. `Service` is the abstract specification. `Stage` maps the
goroutines to its stages, and a request is taken from the moment it is accepted.
Its `Finish` needs every taken request answered or the deadline passed, its
`GiveUp` a failed start or four requests to stop, and its `Crash` a broken
listener.

### Readiness

`probe` is the listener and `h.ready`; `check[p]` a call of `Check`. `h.ready`
is read and written without synchronisation, so `CheckBegins` may read `FALSE`
after it was set. `oidc = "up"` says that the issuer was reached once, no more:
its keys come with the first verification, and a token that cannot be verified
for want of them counts as foreign. `Verdicts` is all `AuthenticateToken` can
say of `FakeJWT`'s token, which is signed with a key no issuer has: not
initialised, rejected, or out of time. `sure` is history: ready had been
answered before this check began. `Retries` is the loop around `ListenAndServe`.

### System

`System` extends `Lifecycle` and instantiates the other two. An accepted
connection (`AcceptRequest`) is at once an arrival of `RequestPipeline`, whose
`oidcReady` is `oidc = "up"` of `Readiness`; a step of a handler (`HandlerStep`)
takes the place of `Report` and `Answer` and reports to the audit backend what
the code reports at that point (`Reported`): `WithRequest` before and after the
reverse proxy, `WithUnauthorized` around the 401. `MainStep` starts the
authenticator and the probe where `RunE` does. RBAC is any but constant here:
`RequestPipeline` has its changes.

### Options

Arguments are parsed one by one (`ParseScalar`, `ParseClaim`, `ParseClientFlag`,
`ParseHeaders`, `ParseFails`), the list of `--extra-user-headers` one pair at a
time (`SetPair`, `SetDone`), then `Validate` and `Build`. The flags are those
that decide the control flow, are checked against another, or name what the
proxy cannot start without: an issuer, a client id and the mapping file, which
`proxy.New` always opens. `--help` is cobra's: it is printed once everything was
parsed, and the process ends with 0 before `Validate`. `audit-policy` stands for
the library's audit flags, `tls-server-name` for a client flag that is not in
`clientOptionFlags`. `usable` is the surrounding the process is started in: the
issuers `oidc.New` accepts, the mapping files that can be read, and whether a
client configuration can be had from the flags and from the pod. What a command
line means (`Given`, `Headers`, `Legal`) is defined over all arguments at once,
without a parse: the last value of a flag, and the values of a header in the
order (`Rank`) of its pairs on the command line. What else can end the start (a
port that is taken, certificates, an audit backend that cannot be built) has
nothing to do with these flags and is `StartUpFails` of `Lifecycle`.

## 3. The runs

| run | what it checks | distinct states |
|---|---|---|
| `PipelineCheck` | eight invariants, `RequestsAdvance`, `EveryRequestEnds`, `PlainRequestNotHeldUp`; one connection, every header shape and configuration, one RBAC change | 652 576 |
| `PipelineConcurrent` | `ImplementsGateway`, two connections, two RBAC changes | 118 098 |
| `MappingCheck` | staleness, lookups, `ImplementsStore`, `UpdateServed` | 15 128 |
| `PathCheck` | the reference definition and four consequences | 1.3 million |
| `LifecycleCheck` | `AuditDrained`, `ShutdownNotStuck`, `ImplementsService`, `StopEnds`; two connections, five signals, every audit backend | 172 273 |
| `SystemCheck` | readiness as a promise, the audit trail, `ImplementsLifecycle`, `ImplementsPipeline`; one connection, one signal | 290 478 |
| `OptionsCheck` | every command line of the three needed flags before or after up to three of 21 others, lines that lack some of the three; in a pod and outside one | 331 064 |
| `PipelineToken`, `PipelineCredentials`, `MappingSwap`, `OptionsClaims`, `PathList` | one claim each of a document or test that the code does not meet | stop at the violation |

What the properties say (each is stated in full beside its definition):

* `IdentityGranted`: a request is forwarded as its own user, or as an identity
  whose name, groups and extras that user was allowed to claim, each at some
  moment of this request; the only other extras are the configured ones and
  those the proxy writes about its own user. It cannot be stronger: the answers
  come one by one, so a right revoked after its review is still used.
* `ImpersonationComplete`: never as a part of what was asked for.
* `ConfigurationApplied`: `RoundTrip` always finds the configuration that was
  computed ("if you are seeing this, there is likely a bug" is unreachable), and
  no `Impersonate-*` header is left to take precedence over it.
* `OriginalUserRecorded`: under each `originaluser.*` name the authenticated
  user has a value for, exactly that value is sent, also when the client sends
  extras of the same names. A name the user has nothing for is not overwritten
  (`handlers.go:181-202`): what is sent under it was configured, or claimed by
  the client and allowed by RBAC.
* `AuditNamesForwardedUser`: the proxy's own audit event and the API server see
  the same user.
* `PassthroughIntact`: a passthrough is configured, leaves the headers alone,
  never carries the proxy's credentials, and after a token review the client's
  token first.
* `AccessLogTruthful`: for each outcome, the lines logged are those that belong
  to it. Two of them are worth knowing: a passthrough that is answered has no
  line, and a request that panics below `RoundTrip` has a
  success line but no answer.
* `StaleOnlyTransiently`: once watched, the map differs from a readable current
  version only while a load that will see it is under way or queued. The
  exceptions it names are the two real ones: a version that was there when the
  watch began, and dropped events.
* `LookupsNeverRegress`, `ImplementsStore`, `UpdateServed`: forward only; readable
  only; in the end.
* `MatchesReference`: the two loops compute what the reference definitions say of
  the whole path.
* `TenantConfined`: a mapped tenant's request that names a namespace behind its
  suffix and region reaches the mapped one; a request that names none gains none.
  The second half is a limit, not a promise: a tenant's cluster-wide list is
  forwarded as a cluster-wide list, and only the selector and RBAC narrow it.
  Outside the claim are a path without a region, a suffix that is empty or
  `api`, which the loop does not take for one, and a map whose namespace is empty,
  which `joinPath` drops.
* `OnlyTenantPartsChange`: it says which segments go, for every path: the first
  one that is not empty (unless it is `api`), the next one, whatever it is, and
  a marker behind `clusters`; and that only the one behind the first
  `namespaces` is replaced, and by what. The second to go may be `api`
  itself (section 4).
* `SelectorOnListsOnly`: the rest of the query is the client's.
* `AuditDrained`, `AuditTrailKept`: in an orderly exit nothing the audit backend
  took is left unwritten, and of every request handed on or refused with 401 it
  has written the event or counted it as lost: lost are the events that found
  the buffer full, or closed. The second is real: the batching backend stops with
  `stopCh` while requests are still drained.
* `ImplementsService`: an accepted request is cut off only by a broken listener,
  the fourth signal or the drain's deadline; once serving, no error of start-up
  ends the process; exit code 0 means it was asked to stop, if the command line
  did not ask for `--help` or `--version`.
* `ImplementsLifecycle`, `ImplementsPipeline`: the composition adds no behaviour
  to its parts, so what is true of each of them alone is true of the process.
* `RequestsAdvance`: a request never comes back to a handler it has left, nor the
  loop over its headers to a header it has visited, so the API server is asked
  once per value. `EveryRequestEnds` needs just this and an API server that
  answers.
* `ShutdownNotStuck`: when main waits for the server or for the audit hook, one of
  the goroutines it waits for can go on; it is what `StopEnds` rests on.
* `StopEnds`: a process that took a signal ends, whenever the signal came and
  whatever its requests, which are opaque and unfair, and the API server do.
* `ReadyMeansServed`, `ReadyStays`, `EventuallyReady`: a request with an issuer's
  token accepted after the probe said ready is not refused for want of an
  authenticator; no later check says otherwise; the probe does say it.
* `StartedAsGiven`, `LegalConfiguration`, `ExitExplained`: the proxy runs as the
  whole command line says, only in configurations the other modules assume
  (`ConfigsAssumption`) and with ports, issuer, client id, mapping file, audit
  policy and client configuration it can use; otherwise it exits with 0 for
  `--help` or `--version` and with 1 for an error, never without one.

### Bounds, and why they are enough

* `Request`: one slot where only a request's own steps and RBAC matter, two
  where requests interleave. Requests share nothing but `cfg`, `oidcReady` and
  `rbac`, and the theorems of section 5 hold for any number. The slots of
  `PipelineConcurrent` are symmetric: `Arrivals`, `Configs` and `Grants` name
  none, and the property is a safety property.
* `MCArrivalsAll` has one header combination per branch of the loop: no header, a
  user, several groups, a uid and an extra, groups without a user, an empty user,
  an unknown header, an extra under a name the proxy uses itself; credentials
  absent, accepted, foreign; a user in a group, one in none but with a uid and
  extras, who sends the original groups itself, and one whose name claim is empty.
* `MaxRbacChanges`: one change suffices for a right to come or go between two
  reviews; the concurrent run has two. The violation runs need none.
* `MCConfigs` has every combination of the two options that change the control
  flow, and extras on and off; `ConfigsAssumption` is what `Options.Validate`
  accepts.
* `MaxVersion = 4`, `QueueLimit = 3`: a load can be overtaken twice, an unreadable
  version has readable ones on both sides, and a single kubelet update (three
  events) behind a slow load fills the queue and the next one overflows it.
* `MCPaths` are all paths of up to six segments over six: empty, a mapped
  suffix, `api`, `namespaces`, a labelled resource and the marker. The deepest
  lookahead of either loop is three segments behind `namespaces`, so six leave
  room for two `namespaces` and for each overlap. `MCMapping` also maps `api`,
  `namespaces` and the empty suffix, which mean something else to the loops, and
  a suffix to an empty namespace. `MCKubePaths` adds the shapes clients use.
* `MaxSignals = 5`: four signals force the exit, and with a fifth one is dropped
  by the channel of two before that. `BufferLimit = 1`: one event fills the
  buffer and a second is dropped. Two connections: one can be drained while the
  other is queued, cut off or answered. `AuditModes`: no backend, a blocking and
  a batching one.
* `SystemCheck` has one connection, one signal, one prober and one failure of
  the probe's listener: what the composition adds is the order of main, probe,
  authenticator, drain and one request's handlers, and a second request shares
  nothing with the first but what `PipelineConcurrent` covers. One prober meets
  the race all the same, since a read of `h.ready` may miss any earlier write.
  Requests are an impersonating one that may or may not be granted, a plain one
  and one with a foreign token, with token passthrough on and off.
* `MCCommandLines`: the three flags without which nothing starts, before or
  after up to three others, so that a conflict, a repeat that undoes it and a
  list that fails meet in one command line, in any order; and lines with only
  some of the three. The others override each of the three with a value that
  cannot be used, and `MCSurroundings` is a pod and a place where only flags
  lead to a cluster.
* Deadlock is checked wherever the system must be able to go on: a connection can
  always carry another request, and `Lifecycle`, `System` and `Options` have an
  explicit step (`Gone`, `Over`) for a process that is over. It is off where the
  model may stop: `PathRewrite` ends after one rewrite, and a mapping whose writer
  is done and whose watcher has died has nothing left to do.

### Fairness

* `HandlerFairness`: a request's goroutine is scheduled and the code between two
  API calls runs to its end.
* `TokenReviewFairness`: a token review ends, because `tokenreview.go:49` gives
  it a deadline.
* Nothing bounds a SubjectAccessReview: it is made with `context.TODO()`
  (`subjectaccessreview.go:196`), neither with a deadline nor with the request's
  context. Its answers, and those to forwarded requests, are therefore not fair
  in `FairSpec`. `EveryRequestEnds` assumes them in so many words
  (`ApiServerFairness => ...`); `PlainRequestNotHeldUp` does without and says
  which requests a silent API server cannot hold.
* `Load` and `Watcher` are fair in `NsMapping`: file operations return and the
  goroutine runs. Writers and lookups are never fair. `StartWatch` may fail for
  good, as `NewWatcher` and `Add` may.
* `Fairness` of `Lifecycle`: main, the signal handler, the two goroutines of the
  server and the audit worker are scheduled, and the drain's timer fires
  (`ShutdownEnds` is enabled by the deadline alone). Clients connect, requests end
  and signals come as they like: nothing of that is fair.
* `SystemFairness` adds the probe's goroutine, its checks, which have a deadline
  (`probe.go:57`), and the kubelet, which goes on probing. Neither the issuer nor
  the API server need ever answer: `EventuallyReady` begins when the issuer has.

## 4. Where documents and code disagree

Each is a run that TLC ends with a counterexample (`findings` in `PROJECT.json`).

* `PipelineToken`: with impersonation disabled the bearer token is not "kept in
  the request" (`docs/tasks/no-impersonation.md:6`): the authenticator removes
  it, and the context key `RoundTrip` restores it from is never set.
* `PipelineCredentials`: with token passthrough on, `Run` switches the namespace
  transport, and so every impersonated request, to the transport without
  credentials (`proxy.go:184-187`).
* `MappingSwap`: a swap between `NewMappingManager`'s return and `watcher.Add` is
  never reloaded, although the unit test swaps just there and calls that a
  failure.
* `OptionsClaims`: `--oidc-required-claim` has no effect. The claim "is verified
  to be present in the ID Token" (`oidc.go:71`), but the line that would hand it
  to the authenticator is commented out (`proxy.go:125`).
* `PathList`: listing namespaces indexes beyond the path and panics; `net/http`
  recovers and drops the connection.

Three more have no run of their own, because a property that holds states what
the code does instead:

* the documented `/<suffix>/api/v1/...` (`app.go:41-43`) loses `api`, which is
  taken for the region (`namespace_round_tripper.go:189`);
  `OnlyTenantPartsChange` says that the second segment goes, whatever it is;
* "all requests" are not in the access log (`README.md:304`): a request that is
  passed through leaves before the line is written (`proxy.go:237-241`), which
  `AccessLogTruthful` states of every passthrough that is answered;
* `originaluser.jetstack.io-groups` need not be "the original groups"
  (`README.md:327`): if the authenticated user has none, what the client sends
  under this name is kept, once RBAC has allowed it (`handlers.go:182`). The
  same holds of the uid and the extras, and `OriginalUserRecorded` says so.

Observed while modelling, without a run or a property:

* a reviewed `Impersonate-Uid` is not sent on (`README.md:322`);
* a path that starts with `apis` has that segment taken for the suffix, since
  only `api` ends the search; a path with an empty namespace (`.../namespaces/`)
  has it replaced; a mapping for the suffix `api` is never found, one with an
  empty namespace removes the segment, and with the suffix `namespaces` it is
  the region that is replaced; `query.Set` replaces a label selector the client
  sent, where the comment at line 193 says "add";
* the readiness check is named "secure serving" (`probe.go:37`) and may succeed
  before the proxy serves; `ReadyMeansServed` is what it does promise;
* events of requests that are still drained when a batching audit backend stops
  are lost (`AuditTrailKept` says which);
* `oidc-username-prefix` is handed on as it is (`proxy.go:113`), where its help
  promises a default prefix and a meaning for `-` (`oidc.go:51-54`);
* a value of `--extra-user-headers` cannot contain `=`: `Set` splits at every one;
* the readiness port is compared with the secure port but its range is not
  checked.

## 5. The proofs

All proofs are checked by tlapm with Z3, Zenon and LS4 and rest on the named
assumptions on the constants only: `ValueAssumption` (empty string and nil are
distinct from names; the four header keys are no extras' names),
`ArrivalsAssumption` (well-formed requests; only an accepted token names a
user), `ConfigsAssumption` (what `Options.Validate` lets through),
`GrantsAssumption` (rights are sets of claims per user), `SentAssumption` (nil is
no forwarded request), and `BoundsAssumption`, `LifecycleAssumption`,
`SystemAssumption`, `ArgumentsAssumption` and `PathsAssumption` of the other
modules: bounds are numbers, audit backends are of the three kinds, a flag that
accepts a value has a value of its type, command lines consist of arguments, no
issuer and no mapping file has the empty name, and a path starts with `/`. TLC
evaluates each on every run. No assumption makes a set finite or small: any
number of requests, names, rights, connections, signals, probers, arguments and
segments.

### RequestPipelineProofs

`TypeCorrect`, `GrantedOnly`, `AllOrNothing`, `AsConfigured` and
`PassedUntouched` prove the invariants `TypeOK`, `IdentityGranted`,
`ImpersonationComplete`, `ConfigurationApplied` and `PassthroughIntact`, and
`Progress` the action property `RequestsAdvance`. The last needs types only:
`RefuseAdvances` serves every error path, `CheckAdvances` the two steps of the
loop, and any other handler hands the request to a later one.

None of the four invariants after `TypeOK` is inductive: they speak of `sent`,
and what is sent was decided handlers earlier. The inductive invariant `IInv` is
`TypeOK` and, of every request, `RequestInv`:

* `Underway`: until the hand-over nothing was sent and, until the review, the
  headers are the client's; the impersonating handlers act for the user who
  authenticated; `granted` is up to date with RBAC.
* `Checking`, the loop invariant of `CheckAuthorizedForImpersonation`: every
  header already visited is, value by value, in the target or still in the
  queue; the target's user is the first value of `Impersonate-User`; all of the
  target was granted. When the loop is over (`LoopDone`) the target is
  everything that was asked for. This is what makes the random order of the loop
  harmless.
* `Prepared`: a request about to be forwarded has a configuration that is
  `Justified`, which is both halves: entitled to, and as requested.
* `HandedOver`, `PassedThrough`: the same of what was sent, and the path of
  `Authorization` through a passthrough.

`ImpersonatedConf` is the lemma about data in between: what `ConfFor` makes of
granted claims, the merge of extras included, adds nothing but the proxy's own
keys and the configured ones, and loses no group and no extra. Each action has a
lemma for its type (`...Type`) and one for the invariant of its request
(`...Keeps`); `RefuseKeeps` serves every error path; `OthersKeep` is the frame:
other requests are not touched. `ChangeRbacKeeps` is the step all requests take
at once: `granted` only grows, and `Justified` is monotone in it
(`JustifiedKept`).

### NsMappingProofs

`TypeCorrect`, `Staleness` (`StaleOnlyTransiently`), `LookupsForward`
(`LookupsNeverRegress`, an action property) and `Implementation`
(`ImplementsStore`, with the initial states and every step mapped). The
inductive invariant is `TypeOK`, `Forward` and `StaleOnlyTransiently` together.
`Forward` ties the load under way, the map and the clients: nobody was answered
from a newer map than the one served, what is being read is at least as new as
that, nothing is newer than the current version, and that one's directory
exists. The last fact is why staleness needs it: a failed `Open` ends a load
without a map, and the stale map is still explained only because the failure
means that a newer version, with its own event, is there.

### GatewayProofs

`AskerRecorded`, `AuditAgrees`, `LogAgrees` (`OriginalUserRecorded`,
`AuditNamesForwardedUser`, `AccessLogTruthful`) and `Implementation`
(`ImplementsGateway`). `IInv` bounds what is forwarded from both sides; these
need it exactly. `KInv` says of every request: the loop of
`CheckAuthorizedForImpersonation` reviews nothing that was not requested
(`OnlyRequested`); from the end of the review on, the configuration is the one
computed for the authenticated user and for all that was requested, and the
audit event names the user of that configuration (`Exact`); and the lines in the
access log are those of the stage reached (`Logged`). `RecordIsWritten` says,
name by name, what the merge leaves under an `originaluser.*` name, the names
the user has nothing for included. For the refinement every action is one of
four steps to an observer, `Turn` (nothing to see), `Refusal`, `HandOver` and
`Reply`, each of which is a step of `Gateway`.

### LifecycleProofs

`TypeCorrect`, `NothingBuffered` (`AuditDrained`), `NoStandstill`
(`ShutdownNotStuck`) and `Implementation` (`ImplementsService`). The inductive
invariant ties `main` to the goroutines it started. `SignalsCounted`: the fourth
signal ends the process, so a process that is alive has taken fewer. `Orderly`:
the server is started last, main waits only once both of its goroutines exist
and goes on when they are through, `Shutdown` begins after a signal, has closed
a listener in use and, when it is over, nothing is in progress unless its
deadline has passed. `Audited`: the hook and, for a batching backend, the worker
are there once the server runs, and a worker that is gone left an empty buffer.

### SystemProofs

`LifecycleImplemented` and `PipelineImplemented` show every step of the process
to be a step, or a stutter, of each part; `PromisesInherited` then has
`ImplementsService`, `ShutdownNotStuck`, `ImplementsGateway`, `RequestsAdvance`
and the seven invariants of the handler chain of the whole, from the theorems
about the parts. `SystemTypeCorrect`, `ReadyIsServed`, `ReadyForGood` and
`TrailKept` need what the parts owe each other, which is `SInv`: the parts'
invariants together with `Probed` (ready was answered only by an authenticator
that was up, and it stays up) and, per connection, `Linked`: `Fresh` (nothing is
done for a request before it is accepted), `Told` (the backend was told of each
request handed over and of each 401, and not of a hand-over before it) and
`Welcome` (a request accepted after ready is not on its way to a 401).

### OptionsProofs

`TypeCorrect`, `MeaningKept` (`StartedAsGiven`), `StartedLegal`
(`LegalConfiguration`) and `ExitsExplained`, for command lines of any length in
any surroundings. The invariant compares what the parse has collected with the
meaning of the arguments given so far: `Followed` for flags, `Collected` for
headers, where `Seen` are the pairs visited of the list being read (`Reading`).
The values of a header are compared by rank and cardinality, so one more pair is
one more element at the end and no induction over data is needed.

### PathRewriteProofs

`TypeCorrect`, `LoopsCorrect` (`MatchesReference`), `Confined`
(`TenantConfined`), `ListsOnly` (`SelectorOnListsOnly`) and `RestKept`
(`OnlyTenantPartsChange`), for paths of any length over any segments and for any
map. `Found` and `Scanning` are the invariant of the first loop: after i - 1
segments there was nothing but empty ones, or the first other one was `api`, or
it was taken for the suffix, and no `namespaces` was met that ends the loop.
`Passed`, `Clean` and `Labelling` are that of the second: it went past lists
only, and has set the selector if one of them was labelled. `StoppedAtName` and
`RanThrough` are its two ways to end. The other three theorems follow from
`LoopsCorrect` by what the reference definitions do to a path: `JoinShape` and
`JoinNamespaces` (what `joinPath` keeps, and where `namespaces` comes to stand),
`ModifiedConfined`, `StrippedConfined` and `NoneGained` for confinement;
`StrippedOnce` and `ModifiedOnce` say of either half which segments it takes
out, and `JoinTwice` that taking out in two goes is taking out at once, which is
what carries the empty segments of a path through both. The elements of a
filtered path are found by their rank among the positions kept (`NthFacts`).

### Only model-checked

Liveness (`EveryRequestEnds`, `PlainRequestNotHeldUp`, `UpdateServed`, `StopEnds`,
`EventuallyReady`): fairness and `ENABLED` are out of the
provers' reach. The safety fact each of the first four rests on is proved:
`Progress` for requests, `Staleness` for the mapping (a stale map has a load under
way or queued), `NoStandstill` for stopping. The refinements that are
proved are of the safety part; the abstract specifications state no fairness.

That the two loops of `PathRewrite` and the parse of `Options` come to their end
is plain from the code (each ranges over a slice) and not stated.

## 6. What is not modelled

* Token and certificate validation, TLS, HTTP parsing, the audit policy and the
  bodies of requests and answers: external, and modelled by their outcomes.
  Answers come back or fail.
* Upgraded connections (`kubectl exec`): `http.Server.Shutdown` does not wait
  for a connection that was hijacked, so draining says nothing about them.
* Token audiences, `--flush-interval`, certificates, claim names and prefixes,
  signing algorithms: values that are handed on unread.
* The wording of log lines, `findXForwardedFor` (the address is one value), the
  text of the help and `String` of the slice flag: formatting.
* The aggregation of several hooks' errors: there is one hook, and it returns
  none.
* `pkg/util/port.go` (used by tests), `plugin.go` (an import), tests, demo,
  deployment and build files.

## 7. Keeping it

A change of the code changes the action that models it, at the lines `map` in
`PROJECT.json` gives, and then, in this order, the runs of its module, the lemma
of that action (`...Type`, `...Keeps`, `...Records`, `...Advances`) and the
theorems that cite it. The leaves of the proofs are kept small on purpose: each
is proved in a fraction of the default time limit (all of them with a fifth of
it), so that a slower machine proves them as well. A fact that is used with a
large record or a function in the context is better a lemma of its own
(`GateMoved`, `EndedType`, `ConfSame`) than a leaf with a longer time limit.

What could be added: the aggregation of several hooks' errors, once there is more
than one; upgraded connections, which neither `Shutdown` nor the audit trail waits
for; and a proof of the liveness properties, once the provers support `ENABLED`.
