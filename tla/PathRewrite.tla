---------------------------- MODULE PathRewrite ----------------------------
(***************************************************************************)
(* CustomNamespaceRoundTripper.RoundTrip                                   *)
(* (pkg/proxy/namespace_round_tripper.go:146-241), one loop iteration per  *)
(* step: the tenant's suffix and region are taken off a request's path,    *)
(* its namespace is replaced by the one mapped to the suffix, and lists of *)
(* some resources get a label selector for the region.                     *)
(*                                                                         *)
(* A path is the sequence strings.Split(path, "/") yields; an HTTP path    *)
(* starts with "/", so its first segment is empty. Indices are 1-based.    *)
(***************************************************************************)
EXTENDS Integers, Sequences, FiniteSetsExt

CONSTANTS
  Paths,    \* the paths requests come with
  Segment,  \* the segments they are made of, "" among them
  Mapping   \* suffix -> namespace, the map GetNamespace reads

(* The segments the loops know.                                            *)
Blank      == ""
ApiTok     == "api"
Namespaces == "namespaces"
Clusters   == "clusters"
AllMark    == "all-clusters-in-pf9-tenant-namespace"

ASSUME PathsAssumption ==
  /\ Blank \in Segment
  /\ \A p \in Paths : p \in Seq(Segment) /\ Len(p) >= 2 /\ p[1] = Blank

(* labelSelectorToBeAdded                                                  *)
Labelled == {"byomachines", "byohosts", "hostedcontrolplanes",
             "openstackclusters", "machines", "machinedeployments", "clusters"}

NoSelector == <<>>  \* no labelSelector parameter
OwnSelector == <<"own">> \* one the client has set

VARIABLES
  pc,         \* "modify", "label" (the two loops), "forwarded", "panicked"
  request,    \* the request received: [path, selector]
  parts,      \* the local slice parts, then partsOfPath
  i,          \* the loop index
  suffix,     \* local variables of modifyNamespaceInPath
  apiTokHit,
  regionName, \* and of addRegionLabelSelectorInPath
  selector    \* the labelSelector parameter of the outgoing request

vars == <<pc, request, parts, i, suffix, apiTokHit, regionName, selector>>

Init == /\ pc = "modify"
        /\ request \in [path: Paths, selector: {NoSelector, OwnSelector}]
        /\ parts = request.path /\ i = 1
        /\ suffix = Blank /\ apiTokHit = FALSE
        /\ regionName = Blank /\ selector = request.selector

(* The elements of s at the positions in S, in order.                      *)
Nth(S, n) == CHOOSE j \in S : Cardinality({m \in S : m <= j}) = n
Part(s, S) == [n \in 1..Cardinality(S) |-> s[Nth(S, n)]]

Filled(segs) == {n \in DOMAIN segs : segs[n] # Blank}

(* joinPath, split again: empty segments go, but "/" stays "/".            *)
JoinPath(segs) == IF Filled(segs) = {} THEN <<Blank, Blank>>
                  ELSE <<Blank>> \o Part(segs, Filled(segs))

(* The end of the first loop and the beginning of the second.              *)
BeginLabel(segs) ==
  LET path == JoinPath(segs)
  IN /\ pc' = "label" /\ i' = 1
     /\ regionName' = path[2] /\ parts' = [path EXCEPT ![2] = Blank]

(* Bug: the segment before the namespace is replaced.                      *)
RenamedBefore(segs, n, name) ==
  IF name \in DOMAIN Mapping THEN [segs EXCEPT ![n] = Mapping[name]] ELSE segs

(* The namespace after position n becomes the one mapped to name.          *)
Renamed(segs, n, name) ==
  IF name \in DOMAIN Mapping THEN [segs EXCEPT ![n + 1] = Mapping[name]]
                             ELSE segs

(* One iteration of the loop of modifyNamespaceInPath.                     *)
Modify ==
  /\ pc = "modify" /\ i <= Len(parts)
  /\ LET part == parts[i]
         hit  == apiTokHit \/ part = ApiTok
         take == suffix = Blank /\ ~hit
         name == IF take THEN part ELSE suffix
         rest == IF take THEN [parts EXCEPT ![i] = Blank] ELSE parts
     IN /\ apiTokHit' = hit /\ suffix' = name
        /\ IF part = Namespaces /\ i < Len(parts)
           THEN BeginLabel(Renamed(rest, i, name))
           ELSE pc' = pc /\ i' = i + 1 /\ parts' = rest /\ regionName' = regionName
  /\ UNCHANGED <<request, selector>>

ModifyEnd ==
  /\ pc = "modify" /\ i > Len(parts)
  /\ BeginLabel(parts)
  /\ UNCHANGED <<request, suffix, apiTokHit, selector>>

Forward(segs) == pc' = "forwarded" /\ parts' = JoinPath(segs)

(* Bug: a named object is taken for a list.                                *)
NeverNamed(segs, n) == FALSE

(* The object of /namespaces/{namespace}/{object}/{name}, namespaces at n. *)
Named(segs, n) == Len(segs) >= n + 3 /\ segs[n + 3] # Blank

(* Bug: the name of any object goes.                                       *)
UnmarkedAny(segs, n) == [segs EXCEPT ![n + 3] = Blank]
(* Bug: the resource goes with the marker.                                 *)
UnmarkedResource(segs, n) ==
  IF segs[n + 3] = AllMark THEN [segs EXCEPT ![n + 2] = Blank, ![n + 3] = Blank]
                           ELSE segs

(* Lines 208-210: the path that asks for all clusters of the namespace.    *)
Unmarked(segs, n) == IF segs[n + 2] = Clusters /\ segs[n + 3] = AllMark
                     THEN [segs EXCEPT ![n + 3] = Blank] ELSE segs

(* Bug: query.Add.                                                         *)
SelectorAdded(sel) == Append(sel, regionName)

(* query.Set replaces every labelSelector there is.                        *)
SelectorSet(sel) == <<regionName>>

(* One iteration of the loop of addRegionLabelSelectorInPath; indexing     *)
(* beyond the slice panics.                                                *)
Label ==
  /\ pc = "label" /\ i <= Len(parts)
  /\ IF parts[i] # Namespaces
     THEN i' = i + 1 /\ UNCHANGED <<pc, parts, selector>>
     ELSE IF Named(parts, i)
     THEN Forward(Unmarked(parts, i)) /\ UNCHANGED <<i, selector>>
     ELSE IF i + 2 > Len(parts)
     THEN pc' = "panicked" /\ UNCHANGED <<i, parts, selector>>
     ELSE /\ selector' = IF parts[i + 2] \in Labelled THEN SelectorSet(selector)
                                                      ELSE selector
          /\ i' = i + 1 /\ UNCHANGED <<pc, parts>>
  /\ UNCHANGED <<request, suffix, apiTokHit, regionName>>

LabelEnd ==
  /\ pc = "label" /\ i > Len(parts)
  /\ Forward(parts)
  /\ UNCHANGED <<request, i, suffix, apiTokHit, regionName, selector>>

Next == Modify \/ ModifyEnd \/ Label \/ LabelEnd

Spec == Init /\ [][Next]_vars

-----------------------------------------------------------------------------
(***************************************************************************)
(* What the two loops compute, without loops.                              *)
(***************************************************************************)
FirstNamespaces(p) == LET all == {n \in 1..(Len(p) - 1) : p[n] = Namespaces}
                      IN IF all = {} THEN 0 ELSE Min(all)

(* The first segment that is not empty, unless that is "api".              *)
SuffixOf(p) == IF Filled(p) = {} \/ p[Min(Filled(p))] = ApiTok THEN Blank
               ELSE p[Min(Filled(p))]

Bare(p) == IF SuffixOf(p) = Blank THEN p ELSE [p EXCEPT ![Min(Filled(p))] = Blank]

Modified(p) ==
  LET n == FirstNamespaces(p)
  IN JoinPath(IF n > 0 /\ SuffixOf(p) \in DOMAIN Mapping
              THEN [Bare(p) EXCEPT ![n + 1] = Mapping[SuffixOf(p)]] ELSE Bare(p))

(* The positions of "namespaces" the second loop looks at.                 *)
Looked(q) == LET all == {n \in 3..Len(q) : q[n] = Namespaces}
             IN {n \in all : \A m \in all : m < n => ~Named(q, m)}

Panics(q) == \E n \in Looked(q) : n + 2 > Len(q)

Labels(q) == \E n \in Looked(q) : ~Named(q, n) /\ q[n + 2] \in Labelled

Stripped(q) ==
  LET bare   == [q EXCEPT ![2] = Blank]
      marked == {m \in Looked(q) : /\ Named(q, m) /\ q[m + 2] = Clusters
                                   /\ q[m + 3] = AllMark}
  IN JoinPath(IF marked = {} THEN bare
              ELSE [n \in DOMAIN bare |-> IF n - 3 \in marked THEN Blank
                                          ELSE bare[n]])

-----------------------------------------------------------------------------
(***************************************************************************)
(* Properties.                                                             *)
(***************************************************************************)
(* The type invariant.                                                     *)
Namespace == {Mapping[s] : s \in DOMAIN Mapping}

TypeOK ==
  /\ pc \in {"modify", "label", "forwarded", "panicked"}
  /\ request \in [path: Seq(Segment), selector: {NoSelector, OwnSelector}]
  /\ parts \in Seq(Segment \cup Namespace)
  /\ i \in 1..(Len(request.path) + 1) /\ apiTokHit \in BOOLEAN
  /\ suffix \in Segment /\ regionName \in Segment \cup Namespace
  /\ selector \in {NoSelector, OwnSelector, <<regionName>>}

(* The loops do what the comments at lines 156, 163, 193-196, 201-207 say  *)
(* of the path as a whole, whatever the path: the outcome is the reference *)
(* definition's.                                                           *)
MatchesReference ==
  LET q == Modified(request.path)
  IN /\ pc = "panicked" => Panics(q)
     /\ pc = "forwarded" =>
          /\ ~Panics(q) /\ parts = Stripped(q)
          /\ selector = IF Labels(q) THEN <<q[2]>> ELSE request.selector

(* What a mapped tenant's request reaches. One that names a namespace      *)
(* after a suffix and a region, whatever empty segments are between them,  *)
(* reaches the mapped namespace: the segment after the first "namespaces"  *)
(* forwarded (lines 172-177). One that names none gains none: it is a      *)
(* request to the whole cluster and forwarded as one, of which the         *)
(* rewriting confines nothing. Outside the claim are the suffix "api",     *)
(* which is no suffix to the loop (line 168), a map with an empty          *)
(* namespace, and a path without a region, whose "namespaces" may be taken *)
(* for one (line 189).                                                     *)
TenantConfined ==
  LET p == request.path
      s == SuffixOf(p)
      n == FirstNamespaces(p)
      o == FirstNamespaces(parts)
  IN pc = "forwarded" =>
       /\ n = 0 => o = 0
       /\ /\ s \in DOMAIN Mapping \ {Blank} /\ Mapping[s] # Blank
          /\ Cardinality({m \in Filled(p) : m < n}) >= 2
          => o > 0 /\ parts[o + 1] = Mapping[s]

(* The smallest element of S, if it has one.                               *)
FirstOf(S) == {n \in S : \A m \in S : n <= m}

Without(segs, S) == [n \in DOMAIN segs |-> IF n \in S THEN Blank ELSE segs[n]]

(* Where the marker is the name of a cluster.                              *)
Markers(segs) ==
  {m \in Filled(segs) :
     /\ segs[m] = AllMark
     /\ \E k \in Filled(segs) : /\ segs[k] = Clusters /\ k < m
                               /\ \A j \in Filled(segs) : j <= k \/ m <= j}

(* Of the path received nothing but the suffix, the region, the marker and *)
(* the namespace changes, for every path and map: what is forwarded has    *)
(* its segments in their order, without the first one that is not empty if *)
(* it is not "api", the next one that is not empty, whatever it is, and at *)
(* most one marker, and with no other segment replaced than the one after  *)
(* the first "namespaces", by the namespace of that suffix (lines 158-241).*)
(* The next one that goes is meant to be the region; of /foobar/api/v1/...,*)
(* the form app.go:41-43 documents, it is "api".                           *)
OnlyTenantPartsChange ==
  LET p      == request.path
      n      == FirstNamespaces(p)
      tenant == {m \in FirstOf(Filled(p)) : p[m] # ApiTok}
      bare   == Without(p, tenant)
      came   == IF n > 0 /\ SuffixOf(p) \in DOMAIN Mapping
                THEN [bare EXCEPT ![n + 1] = Mapping[SuffixOf(p)]] ELSE bare
      region == FirstOf(Filled(came))
  IN pc = "forwarded" =>
       \E marker \in {{}} \cup {{m} : m \in Markers(came)} :
          parts = JoinPath(Without(came, region \cup marker))

(* A label selector is set on lists only, never on a request for an object *)
(* by name (lines 201-212).                                                *)
SelectorOnListsOnly ==
  pc = "forwarded" /\ selector # request.selector =>
    \E n \in 1..Len(parts) : /\ parts[n] = Namespaces
                             /\ n + 2 = Len(parts) /\ parts[n + 2] \in Labelled

(* namespace_round_tripper_test.go, "path with tenant and a request to list*)
(* namespaces": /tenant1/api/v1/namespaces becomes /api/v1/namespaces.     *)
NamespacesListed == pc # "panicked"
=============================================================================
