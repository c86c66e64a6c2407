----------------------------- MODULE MCPipeline -----------------------------
(***************************************************************************)
(* Instances of RequestPipeline for TLC: one issuer with a user in a group,*)
(* one in none but with a uid and extras, and one whose username claim is  *)
(* empty, and the shapes of Impersonate-* headers that the branches of     *)
(* CheckAuthorizedForImpersonation tell apart.                             *)
(***************************************************************************)
EXTENDS RequestPipeline, TLC

MCExtraName == {"scopes", OriginalUser, OriginalGroups}
MCValue == {"alice", "carol", "bob", "dev", "ops", "qa", "u1", "x", "remote", "json",
            "system:authenticated"}

Alice    == [name |-> "alice", groups |-> {"dev"}, uid |-> "", extra |-> {}]
Carol    == [name |-> "carol", groups |-> {}, uid |-> "u1",
             extra |-> {<<"scopes", "x">>}]
Nameless == [name |-> "", groups |-> {"dev"}, uid |-> "", extra |-> {}]

(* The headers given, and no others.                                       *)
With(given) == given @@ NoHeaders
Bob == "user" :> <<"bob">>

(* One header combination per case of the loop, and extras the proxy fills *)
(* in itself.                                                              *)
AllHeaders == {NoHeaders, With(Bob), With(Bob @@ "group" :> <<"ops", "qa">>),
               With(Bob @@ "uid" :> <<"u1">> @@ "scopes" :> <<"x">>),
               With("group" :> <<"ops">>),
               With("user" :> <<"">> @@ "group" :> <<"ops">>),
               With(Bob @@ "other" :> <<"x">>),
               With(Bob @@ OriginalUser :> <<"x">>)}
OriginalHeaders == {NoHeaders, With(Bob @@ OriginalGroups :> <<"ops">>)}
FewHeaders == {NoHeaders, With(Bob @@ "group" :> <<"ops">>)}

Requests(users, headers, paths) ==
       [cred: {"oidc"}, user: users, imp: headers, path: paths]
  \cup [cred: {"foreign"}, user: {Nobody}, imp: {NoHeaders, With(Bob)}, path: {"full"}]
  \cup [cred: {"oidc"}, user: {Nameless}, imp: {NoHeaders}, path: {"full"}]
  \cup [cred: {"absent"}, user: {Nobody}, imp: {NoHeaders}, path: {"full"}]
MCArrivalsAll == Requests({Alice}, AllHeaders, {"full"})
            \cup Requests({Carol}, OriginalHeaders, {"full", "short"})
MCArrivalsFew == Requests({Alice}, FewHeaders, {"full"})

Plain == [disableImpersonation |-> FALSE, tokenReview |-> FALSE,
          clientIP |-> FALSE, extraUserHeaders |-> {}]
WithExtras == [Plain EXCEPT !.clientIP = TRUE,
                            !.extraUserHeaders = {<<"scopes", "u1">>}]
WithReview == [Plain EXCEPT !.tokenReview = TRUE]
WithoutImpersonation == [Plain EXCEPT !.disableImpersonation = TRUE]
MCConfigs == {Plain, WithExtras, WithReview, WithoutImpersonation,
              [WithReview EXCEPT !.disableImpersonation = TRUE]}
MCConfigsFew == {Plain, WithReview}
MCConfigsUnimpersonated == {WithoutImpersonation}

MCGrants == {"alice"} \X {<<"user", "bob">>, <<"group", "ops">>,
              <<"uid", "u1">>, <<"scopes", "x">>, <<OriginalUser, "x">>}
         \cup {"carol"} \X {<<"user", "bob">>, <<OriginalGroups, "ops">>}
MCGrantsFew == {"alice"} \X {<<"user", "bob">>, <<"group", "ops">>}

(* Slots are interchangeable.                                              *)
RequestSymmetry == Permutations(Request)
=============================================================================
