--------------------------- MODULE MCPathRewrite ---------------------------
(* Instances of PathRewrite for TLC.                                       *)
EXTENDS PathRewrite, TLC

(* Every path of up to six of these segments, over which both loops meet   *)
(* each of their branches, several times and in any order.                 *)
MCSegment == {"", "tenant1", "api", "namespaces", "clusters", AllMark}
MCPaths   == {<<"">> \o p : p \in UNION {[1..n -> MCSegment] : n \in 1..6}}

(* Paths of the shapes clients use.                                        *)
Roots == {<<"api", "v1">>, <<"apis", "cluster", "v1beta1">>}
Rests == {<<>>, <<"namespaces">>, <<"namespaces", "default">>,
          <<"namespaces", "default", "pods">>,
          <<"namespaces", "default", "clusters">>,
          <<"namespaces", "default", "clusters", "c1">>,
          <<"namespaces", "default", "clusters", AllMark>>,
          <<"namespaces", "default", "pods", "namespaces">>,
          <<"namespaces", "default", "machines", "">>}
Tenants == {<<>>, <<"tenant1">>, <<"tenant1", "region1">>, <<"other", "region1">>}
MCKubePaths == {<<"">> \o t \o root \o rest :
                  t \in Tenants, root \in Roots, rest \in Rests}

MCAllPaths   == MCPaths \cup MCKubePaths
MCAllSegment == {"", "tenant1", "other", "region1", "api", "apis", "v1", "v1beta1",
                 "cluster", "namespaces", "default", "pods", "clusters", "c1",
                 "machines", "nodes", AllMark}

(* A list of the namespaces of a tenant and region.                       *)
MCListPaths == {<<"", "tenant1", "region1", "api", "v1", "namespaces">>}

(* Suffixes that mean something else to the loops are among them, and an   *)
(* empty namespace.                                                        *)
MCMapping == "tenant1" :> "ns1" @@ "api" :> "ns2" @@ "namespaces" :> "ns3"
               @@ "" :> "ns4" @@ "other" :> ""
=============================================================================
