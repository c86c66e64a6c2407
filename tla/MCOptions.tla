------------------------------ MODULE MCOptions ------------------------------
(***************************************************************************)
(* Options for TLC: command lines of the three flags without which the     *)
(* proxy does not start, before or after up to three others, and lines     *)
(* where some of the three are missing; in a pod and outside one.          *)
(***************************************************************************)
EXTENDS Options

Arg(flag, value) == [flag |-> flag, value |-> value, readable |-> TRUE]
Bad(flag, value) == [flag |-> flag, value |-> value, readable |-> FALSE]

Needed == <<Arg("oidc-issuer-url", "https://issuer"), Arg("oidc-client-id", "proxy"),
            Arg("ns-mapping-file", "mapping.json")>>

Others ==
  {Arg("disable-impersonation", "true"), Arg("disable-impersonation", "false"),
   Arg("token-passthrough", "true"), Arg("extra-user-header-client-ip", "true"),
   Arg("version", "true"), Arg("help", "true"), Arg("readiness-probe-port", 6443),
   Arg("secure-port", 70000), Arg("oidc-issuer-url", "http://issuer"),
   Arg("oidc-client-id", ""), Arg("ns-mapping-file", "absent.json"),
   Arg("audit-policy", "invalid"), Arg("kubeconfig", "file"),
   Arg("tls-server-name", "host"), Arg("oidc-required-claim", <<"hd", "x">>),
   Arg("extra-user-headers", <<<<"a", "1">>, <<"b", "2">>, <<"a", "3">>>>),
   Arg("extra-user-headers", <<<<"a", "4">>>>), Arg("extra-user-headers", <<>>),
   Arg("extra-user-headers", <<<<"b", "5">>, <<"a">>>>),
   Bad("extra-user-headers", <<>>), Bad("secure-port", 0)}

MCArguments == Range(Needed) \cup Others
UpTo(n)     == UNION {[1..m -> Others] : m \in 0..n}

Lines(n) ==      {Needed \o rest : rest \in UpTo(n)}
            \cup {rest \o Needed : rest \in UpTo(n)}
            \cup {SubSeq(Needed, i, j) \o rest : i \in 1..3, j \in 0..3, rest \in UpTo(1)}
MCCommandLines    == Lines(3)
MCCommandLinesFew == Lines(1)

InPod          == [issuers |-> {"https://issuer"}, mappings |-> {"mapping.json"},
                   clients |-> {"in-cluster", "flags"}]
MCSurroundings == {InPod, [InPod EXCEPT !.clients = {"flags"}]}
=============================================================================
