------------------------------ MODULE MCSystem ------------------------------
(***************************************************************************)
(* System for TLC: a user who may or may not impersonate bob, and requests *)
(* that take each way through the handlers.                                *)
(***************************************************************************)
EXTENDS System, TLC

MCValue   == {"alice", "bob", "remote", "json", "system:authenticated"}
NoHeaders == [k \in {"user", "group", "uid", "other"} |-> <<>>]
Bob       == ("user" :> <<"bob">>) @@ NoHeaders
Alice     == [name |-> "alice", groups |-> {}, uid |-> "", extra |-> {}]
Unknown   == [Alice EXCEPT !.name = ""]
MCArrivals == [cred: {"oidc"}, user: {Alice}, imp: {NoHeaders, Bob}, path: {"full"}]
         \cup [cred: {"foreign"}, user: {Unknown}, imp: {NoHeaders}, path: {"full"}]

MCConfigs == [disableImpersonation: {FALSE}, tokenReview: BOOLEAN,
              clientIP: {FALSE}, extraUserHeaders: {{}}]
MCGrants  == {<<"alice", <<"user", "bob">>>>}
=============================================================================
