------------------------------- MODULE Options -------------------------------
(***************************************************************************)
(* From the command line to the configuration of the proxy                 *)
(* (cmd/app/options, pkg/util/flags, cmd/app/run.go:33-105, proxy.New):    *)
(* the flags are parsed one after the other, Options.Validate checks them  *)
(* together, and RunE makes of them the proxy.Config that RequestPipeline  *)
(* starts from and the options of the OIDC authenticator. The exit codes of*)
(* a command line that never gets the proxy to run are decided here; what  *)
(* can go wrong on the way for other reasons than the flags looked at (a   *)
(* port that is taken, certificates) is StartUpFails of Lifecycle.         *)
(*                                                                         *)
(* Values are strings, but for those of --extra-user-headers, which are    *)
(* lists of strings already split at their "=": <<"a", "1">> is a=1.       *)
(***************************************************************************)
EXTENDS Integers, Sequences, FiniteSetsExt

CONSTANTS
  Arguments,    \* the arguments users give: [flag, value, readable]
  CommandLines, \* the command lines they make of them
  Surroundings  \* what there is to use: [issuers, mappings, clients]

(* Flags whose last value counts. audit-policy stands for the flags of the *)
(* API server library's audit options.                                     *)
AppFlags     == {"disable-impersonation", "token-passthrough", "ns-mapping-file",
                 "extra-user-header-client-ip", "readiness-probe-port"}
OidcFlags    == {"oidc-issuer-url", "oidc-client-id"}
ServingFlags == {"secure-port"}
AuditFlags   == {"audit-policy"}
MiscFlags    == {"version", "help"}

Scalars  == AppFlags \cup OidcFlags \cup ServingFlags \cup AuditFlags \cup MiscFlags
Ports    == {"readiness-probe-port", "secure-port"}
PortNumbers == 1..65535

Booleans == (AppFlags \ {"readiness-probe-port", "ns-mapping-file"}) \cup MiscFlags
Defaults == [f \in Scalars |-> CASE f \in Booleans             -> "false"
                                [] f = "readiness-probe-port" -> 8080
                                [] f = "secure-port"          -> 6443
                                [] f = "audit-policy"         -> "valid"
                                [] f = "ns-mapping-file"      -> ""
                                [] f \in OidcFlags            -> ""]

(* clientOptionFlags, and a flag of client-go that is not among them.      *)
ClientOptionFlags == {"kubeconfig", "server", "token"}
OtherClientFlags  == {"tls-server-name"}

Flags == Scalars \cup ClientOptionFlags \cup OtherClientFlags
           \cup {"extra-user-headers", "oidc-required-claim"}

IsHeaders(a) == a.flag = "extra-user-headers"

(* readable: its flag accepts the value. A surrounding names the issuers   *)
(* oidc.New accepts, the mapping files that are there and are read, and    *)
(* where a client configuration can be had from.                           *)
ASSUME ArgumentsAssumption ==
  /\ \A a \in Arguments :
       /\ a.flag \in Flags /\ a.readable \in BOOLEAN
       /\ a.readable /\ a.flag \in Booleans => a.value \in {"true", "false"}
       /\ a.readable /\ a.flag \in Ports => a.value \in Int
       /\ a.readable /\ IsHeaders(a) => a.value \in Seq(Seq(STRING) \ {<<>>})
  /\ CommandLines \subseteq Seq(Arguments)
  /\ \A s \in Surroundings : "" \notin s.issuers \cup s.mappings

VARIABLES
  usable,  \* the surrounding the process is started in
  args,    \* the arguments not parsed yet
  stage,   \* parse, set, validate, build, started, exited
  given,   \* (history) the arguments parsed so far
  scalars, \* the values of the flags with one value
  extras,  \* ExtraHeaderOptions.ExtraUserHeaders
  claims,  \* OIDCAuthenticationOptions.RequiredClaims
  changed, \* the client flags that were given
  pairs,   \* the pairs stringToStringSliceValue.Set has still to visit
  code,    \* the exit code
  config,  \* the proxy.Config
  jwt      \* what proxy.New gives oidc.New

flagVars == <<scalars, extras, claims, changed, pairs>>
vars     == <<usable, args, stage, given, flagVars, code, config, jwt>>

None  == [none |-> TRUE]   \* not made yet
Empty == [k \in {} |-> <<>>]

Init == /\ usable \in Surroundings /\ args \in CommandLines
        /\ stage = "parse" /\ given = <<>> /\ scalars = Defaults
        /\ extras = Empty /\ claims = Empty /\ changed = {} /\ pairs = <<>>
        /\ code = "running" /\ config = None /\ jwt = None

Stop(how) == /\ stage' = "exited" /\ code' = how
             /\ UNCHANGED <<usable, args, given, scalars, claims, changed, pairs,
                            config, jwt>>
Exit(how) == Stop(how) /\ UNCHANGED extras

(* m[k] = v                                                                *)
Put(m, k, v) == [i \in DOMAIN m \cup {k} |-> IF i = k THEN v ELSE m[i]]
Get(m, k)    == IF k \in DOMAIN m THEN m[k] ELSE <<>>

(***************************************************************************)
(* pflag hands the value of each argument to the Set of its flag.          *)
(***************************************************************************)
NextIs(a) == /\ stage = "parse" /\ args # <<>> /\ a = Head(args)
             /\ args' = Tail(args) /\ given' = Append(given, a)
             /\ UNCHANGED <<usable, config, jwt>>

Parse(a) == NextIs(a) /\ a.readable /\ UNCHANGED code

ParseScalar(a) ==
  /\ Parse(a) /\ a.flag \in Scalars
  /\ scalars' = [scalars EXCEPT ![a.flag] = a.value]
  /\ UNCHANGED <<stage, extras, claims, changed, pairs>>

ParseClaim(a) ==
  /\ Parse(a) /\ a.flag = "oidc-required-claim"
  /\ claims' = Put(claims, a.value[1], a.value[2])
  /\ UNCHANGED <<stage, scalars, extras, changed, pairs>>

ParseClientFlag(a) ==
  /\ Parse(a) /\ a.flag \in ClientOptionFlags \cup OtherClientFlags
  /\ changed' = changed \cup {a.flag}
  /\ UNCHANGED <<stage, scalars, extras, claims, pairs>>

ParseHeaders(a) ==
  /\ Parse(a) /\ IsHeaders(a)
  /\ stage' = "set" /\ pairs' = a.value
  /\ UNCHANGED <<scalars, extras, claims, changed>>

(* An error of a Set ends the parse, and with it the process. A list that  *)
(* is no CSV empties the map first.                                        *)
ParseFails(a) ==
  /\ NextIs(a) /\ ~a.readable /\ stage' = "exited" /\ code' = "error"
  /\ extras' = IF IsHeaders(a) THEN Empty ELSE extras
  /\ UNCHANGED <<scalars, claims, changed, pairs>>

(* Bug: a key's values are those it was given last.                        *)
AppendedLast(pair) == Put(extras, pair[1], <<pair[2]>>)

Appended(pair) == Put(extras, pair[1], Append(Get(extras, pair[1]), pair[2]))

(* One turn of the loop of stringToStringSliceValue.Set.                   *)
SetPair ==
  /\ stage = "set" /\ pairs # <<>>
  /\ LET pair == Head(pairs)
     IN  IF Len(pair) = 2
         THEN /\ extras' = Appended(pair) /\ pairs' = Tail(pairs)
              /\ UNCHANGED <<usable, args, stage, given, scalars, claims, changed,
                             code, config, jwt>>
         ELSE Stop("error") /\ extras' = Empty

(* Bug: the last pair is left out.                                         *)
SetDoneEarly ==
  /\ stage = "set" /\ Len(pairs) <= 1 /\ stage' = "parse"
  /\ UNCHANGED <<usable, args, given, flagVars, code, config, jwt>>

SetDone ==
  /\ stage = "set" /\ pairs = <<>> /\ stage' = "parse"
  /\ UNCHANGED <<usable, args, given, flagVars, code, config, jwt>>

On(flag) == scalars[flag] = "true"

(* cobra prints the help that was asked for instead of calling RunE.       *)
EndOfArguments ==
  /\ stage = "parse" /\ args = <<>>
  /\ IF On("help") THEN Exit("ok")
     ELSE /\ stage' = "validate"
          /\ UNCHANGED <<usable, args, given, flagVars, code, config, jwt>>

(* Bug: headers given by --extra-user-headers are not looked at.           *)
ClashClientIPOnly ==
  On("disable-impersonation") /\ On("extra-user-header-client-ip")

ImpersonationClash ==
  /\ On("disable-impersonation")
  /\ On("extra-user-header-client-ip") \/ DOMAIN extras # {}

(* Options.Validate collects the errors of every part.                     *)
OidcInvalid ==
  (scalars["oidc-issuer-url"] = "") # (scalars["oidc-client-id"] = "")
ServingInvalid == scalars["secure-port"] \notin PortNumbers
Invalid ==
  \/ OidcInvalid \/ ServingInvalid
  \/ scalars["secure-port"] = scalars["readiness-probe-port"]
  \/ scalars["audit-policy"] # "valid"
  \/ ImpersonationClash

PrintVersionAndExit == Exit("ok")

(* Bug: the version is printed by a valid command line only.               *)
ValidateFirst ==
  /\ stage = "validate"
  /\ IF Invalid THEN Exit("error") ELSE IF On("version") THEN PrintVersionAndExit
     ELSE /\ stage' = "build"
          /\ UNCHANGED <<usable, args, given, flagVars, code, config, jwt>>

(* The version comes first.                                                *)
Validate ==
  /\ stage = "validate"
  /\ IF On("version") THEN PrintVersionAndExit
     ELSE IF Invalid THEN Exit("error")
     ELSE /\ stage' = "build"
          /\ UNCHANGED <<usable, args, given, flagVars, code, config, jwt>>

(* The claims proxy.New gives oidc.New: RequiredClaims is commented out.   *)
CheckedClaims == Empty

(* Where RunE takes the API server's address and credentials from.         *)
ClientConfig == IF changed \cap ClientOptionFlags # {}
                THEN "flags" ELSE "in-cluster"

ProxyConfig ==
  [disableImpersonation |-> On("disable-impersonation"),
   tokenReview |-> On("token-passthrough"),
   clientIP |-> On("extra-user-header-client-ip"),
   extraUserHeaders |-> extras, client |-> ClientConfig]

JwtConfig == [issuer |-> scalars["oidc-issuer-url"],
              audience |-> scalars["oidc-client-id"],
              claims |-> CheckedClaims]

(* Bug: without --ns-mapping-file there is nothing to map.                 *)
UsableIfGiven ==
  /\ ClientConfig \in usable.clients
  /\ scalars["oidc-issuer-url"] \in usable.issuers
  /\ scalars["ns-mapping-file"] \in usable.mappings \cup {""}

(* RunE gets a client configuration, oidc.New accepts the issuer, and      *)
(* NewMappingManager opens and reads the mapping file, given or not.       *)
Usable ==
  /\ ClientConfig \in usable.clients
  /\ scalars["oidc-issuer-url"] \in usable.issuers
  /\ scalars["ns-mapping-file"] \in usable.mappings

Build ==
  /\ stage = "build"
  /\ IF ~Usable THEN Exit("error")
     ELSE /\ stage' = "started"
          /\ config' = ProxyConfig /\ jwt' = JwtConfig
          /\ UNCHANGED <<usable, args, given, flagVars, code>>

(* The process has ended or goes on as Lifecycle.                          *)
Over == stage \in {"started", "exited"} /\ UNCHANGED vars

Next == \/ \E a \in Arguments : \/ ParseScalar(a) \/ ParseClaim(a)
                                \/ ParseClientFlag(a) \/ ParseHeaders(a)
                                \/ ParseFails(a)
        \/ SetPair \/ SetDone \/ EndOfArguments \/ Validate \/ Build \/ Over

Spec == Init /\ [][Next]_vars
-----------------------------------------------------------------------------
(***************************************************************************)
(* Properties. What a command line means is defined over the arguments as  *)
(* a whole, without the steps of the parse.                                *)
(***************************************************************************)
Places(flag) == {i \in DOMAIN given : given[i].flag = flag}
Given(flag)  == IF Places(flag) = {} THEN Defaults[flag]
                ELSE given[Max(Places(flag))].value

(* The pairs of every --extra-user-headers: <<i, j>> is the j-th of the    *)
(* i-th argument. The n-th value of a key is that of its n-th pair.        *)
Pairs      == UNION {{i} \X DOMAIN given[i].value : i \in Places("extra-user-headers")}
PairAt(s)  == given[s[1]].value[s[2]]
PairsOf(k) == {s \in Pairs : PairAt(s)[1] = k}
Rank(s)    == Cardinality({t \in PairsOf(PairAt(s)[1]) :
                             t[1] < s[1] \/ (t[1] = s[1] /\ t[2] <= s[2])})
Headers    == [k \in {PairAt(s)[1] : s \in Pairs} |->
                 [n \in 1..Cardinality(PairsOf(k)) |->
                    PairAt(CHOOSE s \in PairsOf(k) : Rank(s) = n)[2]]]

Readable   == \A i \in DOMAIN given : given[i].readable
WellFormed == Readable /\ \A s \in Pairs : Len(PairAt(s)) = 2

GivenClient == IF \E f \in ClientOptionFlags : Places(f) # {}
               THEN "flags" ELSE "in-cluster"

(* What RequestPipeline assumes of its Configs, and what the server, the   *)
(* probe, the authenticator, the namespace transport and the clients need. *)
Legal ==
  /\ Given("disable-impersonation") = "true" =>
       Given("extra-user-header-client-ip") = "false" /\ Pairs = {}
  /\ Given("secure-port") \in PortNumbers
  /\ Given("secure-port") # Given("readiness-probe-port")
  /\ Given("oidc-issuer-url") \in usable.issuers /\ Given("oidc-client-id") # ""
  /\ Given("ns-mapping-file") \in usable.mappings
  /\ GivenClient \in usable.clients
  /\ Given("audit-policy") = "valid"

(* The type invariant; while the parse goes on no pair of an earlier list  *)
(* is left over, and after it no argument (string_to_string_slice.go:32-67)*)
TypeOK ==
  /\ usable \in Surroundings /\ args \in Seq(Arguments)
  /\ stage \in {"parse", "set", "validate", "build", "started", "exited"}
  /\ given \in Seq(Arguments)
  /\ DOMAIN scalars = Scalars /\ \A k \in DOMAIN extras : extras[k] # <<>>
  /\ changed \subseteq ClientOptionFlags \cup OtherClientFlags
  /\ code \in {"running", "ok", "error"}
  /\ stage \notin {"set", "exited"} => pairs = <<>>
  /\ stage \notin {"parse", "set", "exited"} => args = <<>>

(* The proxy runs with what the user wrote: of a flag that was repeated    *)
(* the last value, of --extra-user-headers every value under its key in    *)
(* order, over all lists, and client flags of the list only                *)
(* (app.go:39-89, string_to_string_slice.go:32-67, run.go:43-88).          *)
StartedAsGiven == stage = "started" =>
  /\ config.extraUserHeaders = Headers
  /\ config.disableImpersonation = (Given("disable-impersonation") = "true")
  /\ config.tokenReview = (Given("token-passthrough") = "true")
  /\ config.clientIP = (Given("extra-user-header-client-ip") = "true")
  /\ config.client = GivenClient
  /\ jwt.issuer = Given("oidc-issuer-url")

(* No command line starts the proxy in a configuration the rest of it      *)
(* cannot cope with, the assumption RequestPipeline makes included: flags  *)
(* are checked together only after all of them were parsed, and the mapping*)
(* file is not optional (options.go:67-100, oidc.go:28-34,                 *)
(* proxy.go:138-141).                                                      *)
LegalConfiguration == stage = "started" => WellFormed /\ Legal

(* A command line that does not start the proxy is told why: exit code 0   *)
(* for --help and --version, also among conflicting flags, and 1 for an    *)
(* error of a flag, of the flags together or of what they name, never for  *)
(* anything else (options.go:68, misc.go:47-69, run.go:37-105, main.go:18).*)
ExitExplained == stage = "exited" =>
  LET asked == \E f \in MiscFlags : Given(f) = "true"
  IN IF code = "ok" THEN WellFormed /\ asked ELSE ~WellFormed \/ (~asked /\ ~Legal)

(* cmd/app/options/oidc.go:71 (the help of --oidc-required-claim): "If     *)
(* set, the claim is verified to be present in the ID Token with a         *)
(* matching value."                                                        *)
RequiredClaimsVerified == stage = "started" => jwt.claims = claims
=============================================================================
