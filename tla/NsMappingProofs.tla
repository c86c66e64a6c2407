--------------------------- MODULE NsMappingProofs ---------------------------
(***************************************************************************)
(* Proofs about NsMapping, for any number of versions, any length of the   *)
(* event queue, any clients and any set of unreadable versions.            *)
(***************************************************************************)
EXTENDS NsMapping, TLAPS

(* The map only moves forward: what is being read is at least as new as    *)
(* what is served, and nothing is newer than the current version, whose    *)
(* directory exists.                                                       *)
Forward ==
  /\ mappings <= current /\ mappings \in {0} \cup (Version \ Unreadable)
  /\ load \in {"open", "read"} => mappings <= target /\ target \in Version
  /\ target <= current
  /\ projected => current \in dirs
  /\ torn => ~projected /\ current < MaxVersion
  /\ \A c \in Client : seen[c] <= mappings

(* TypeOK, Forward and StaleOnlyTransiently are inductive together: the    *)
(* explanation of a stale map survives a failed Open only because the      *)
(* directory of the current version exists.                                *)
IInv == TypeOK /\ Forward /\ StaleOnlyTransiently

USE BoundsAssumption DEF Version

LEMMA InitIInv == Init => IInv
<1> SUFFICES ASSUME Init PROVE IInv
  OBVIOUS
<1>1. events \in Seq({"..data", "file", "..version"}) /\ Len(events) <= QueueLimit
  BY DEF Init
<1>2. projected \in BOOLEAN /\ torn \in BOOLEAN /\ overflow \in BOOLEAN /\ lost \in BOOLEAN
  BY Zenon DEF Init
<1>3. TypeOK
  BY <1>1, <1>2 DEF Init, TypeOK
<1>4. Forward
  BY DEF Init, Forward
<1> QED
  BY <1>3, <1>4 DEF Init, IInv, StaleOnlyTransiently

(* Appending to the event queue keeps its type and a pending event.        *)
LEMMA EmitKeeps ==
  ASSUME TypeOK, NEW name \in {"..data", "file", "..version"}, Emit(name)
  PROVE  /\ events' \in Seq({"..data", "file", "..version"})
         /\ Len(events') <= QueueLimit
         /\ overflow' \in BOOLEAN /\ lost' \in BOOLEAN
         /\ Pending => Pending'
         /\ lost => lost'
         /\ phase = "watching" /\ name \in Relevant => Pending' \/ lost'
<1>1. CASE phase # "watching"
  BY <1>1 DEF Emit, TypeOK, watching, Pending
<1>2. CASE phase = "watching" /\ Len(events) < QueueLimit
  <2>1. events' = Append(events, name) /\ overflow' = overflow /\ lost' = lost
    BY <1>2 DEF Emit
  <2>2. /\ Len(events') = Len(events) + 1 /\ events'[Len(events) + 1] = name
        /\ \A i \in 1..Len(events) : events'[i] = events[i]
        /\ Len(events) \in Nat
    BY <2>1 DEF TypeOK
  <2>3. Pending => Pending'
    BY <2>2 DEF Pending
  <2>4. name \in Relevant => Pending'
    BY <2>2 DEF Pending
  <2> QED
    BY <1>2, <2>1, <2>2, <2>3, <2>4 DEF TypeOK
<1>3. CASE phase = "watching" /\ ~(Len(events) < QueueLimit)
  BY <1>3 DEF Emit, TypeOK, Pending
<1> QED
  BY <1>1, <1>2, <1>3

(* Taking an event that is not about the file leaves a pending one behind. *)
LEMMA TailKeeps ==
  ASSUME TypeOK, Pending, events' = Tail(events), Head(events) \notin Relevant
  PROVE  Pending'
<1>1. PICK i \in 1..Len(events) : events[i] \in Relevant
  BY DEF Pending
<1>2. i # 1 /\ Len(events) \in Nat
  BY <1>1 DEF TypeOK
<1>3. i - 1 \in 1..Len(events') /\ events'[i - 1] = events[i]
  BY <1>1, <1>2 DEF TypeOK
<1> QED
  BY <1>1, <1>3 DEF Pending

LEMMA NextIInv == IInv /\ [Next]_vars => IInv'
<1> SUFFICES ASSUME IInv, [Next]_vars PROVE IInv'
  OBVIOUS
<1> USE DEF IInv
<1>1. CASE WriteDir
  <2>1. Emit("..version")
    BY <1>1 DEF WriteDir
  <2> QED
    BY <1>1, <2>1, EmitKeeps
    DEF WriteDir, TypeOK, Forward, StaleOnlyTransiently, LoadingCurrent, proxy
<1>2. CASE Relink
  <2>1. Emit("..data")
    BY <1>2 DEF Relink
  <2> QED
    BY <1>2, <2>1, EmitKeeps
    DEF Relink, TypeOK, Forward, StaleOnlyTransiently, Relevant, proxy
<1>3. CASE RemoveOldDir
  <2>1. Emit("..version")
    BY <1>3 DEF RemoveOldDir
  <2> QED
    BY <1>3, <2>1, EmitKeeps
    DEF RemoveOldDir, TypeOK, Forward, StaleOnlyTransiently, LoadingCurrent, proxy
<1>4. CASE Truncate
  <2>1. Emit("file")
    BY <1>4 DEF Truncate
  <2> QED
    BY <1>4, <2>1, EmitKeeps
    DEF Truncate, TypeOK, Forward, StaleOnlyTransiently, proxy
<1>5. CASE Fill
  <2>1. Emit("file")
    BY <1>5 DEF Fill
  <2>2. projected' \in BOOLEAN /\ torn' \in BOOLEAN
    BY <1>5, Zenon DEF Fill, TypeOK
  <2>3. TypeOK'
    BY <1>5, <2>1, <2>2, EmitKeeps DEF Fill, TypeOK, Forward, proxy
  <2>4. Forward'
    BY <1>5 DEF Fill, TypeOK, Forward, proxy
  <2>5. StaleOnlyTransiently'
    BY <1>5, <2>1, EmitKeeps DEF Fill, StaleOnlyTransiently, Relevant, proxy
  <2> QED
    BY <2>3, <2>4, <2>5
<1>6. CASE Resolve
  BY <1>6
  DEF Resolve, TypeOK, Forward, StaleOnlyTransiently, LoadingCurrent, Pending, disk, watching
<1>7. CASE Open
  BY <1>7
  DEF Open, Loaded, TypeOK, Forward, StaleOnlyTransiently, LoadingCurrent, Pending,
      disk, watching
<1>8. CASE Read
  BY <1>8
  DEF Read, Loaded, Parses, Contents, TypeOK, Forward, StaleOnlyTransiently,
      LoadingCurrent, Pending, disk, watching
<1>9. CASE StartWatch
  BY <1>9
  DEF StartWatch, TypeOK, Forward, StaleOnlyTransiently, LoadingCurrent, Pending,
      disk, watching
<1>10. CASE TakeEvent
  <2>1. /\ events' \in Seq({"..data", "file", "..version"})
        /\ Len(events') <= QueueLimit
    BY <1>10 DEF TakeEvent, TypeOK
  <2>2. load' \in {"idle", "resolve"}
    BY <1>10, Zenon DEF TakeEvent
  <2>3. TypeOK' /\ Forward'
    BY <1>10, <2>1, <2>2 DEF TakeEvent, TypeOK, Forward, disk
  <2>4. CASE Head(events) \in Relevant
    BY <1>10, <2>3, <2>4
    DEF TakeEvent, ConcernsFile, StaleOnlyTransiently, LoadingCurrent
  <2>5. CASE Head(events) \notin Relevant
    <3>1. Pending => Pending'
      BY <1>10, <2>5, TailKeeps DEF TakeEvent
    <3> QED
      BY <1>10, <2>3, <2>5, <3>1
      DEF TakeEvent, StaleOnlyTransiently, LoadingCurrent, disk
  <2> QED
    BY <2>4, <2>5
<1>11. CASE TakeError
  BY <1>11
  DEF TakeError, TypeOK, Forward, StaleOnlyTransiently, LoadingCurrent, Pending,
      disk, proxy
<1>12. ASSUME NEW c \in Client, GetNamespace(c) PROVE IInv'
  BY <1>12
  DEF GetNamespace, TypeOK, Forward, StaleOnlyTransiently, LoadingCurrent, Pending,
      disk, watching
<1>13. CASE UNCHANGED vars
  BY <1>13
  DEF vars, TypeOK, Forward, StaleOnlyTransiently, LoadingCurrent, Pending, disk, watching
<1> QED
  BY <1>1, <1>2, <1>3, <1>4, <1>5, <1>6, <1>7, <1>8, <1>9, <1>10, <1>11, <1>12, <1>13
  DEF Next, Writer, Load, Watcher

LEMMA Invariant == Spec => []IInv
  BY InitIInv, NextIInv, PTL DEF Spec

(* Every variable of MappingManager and watchFile keeps its type.          *)
THEOREM TypeCorrect == Spec => []TypeOK
  BY Invariant, PTL DEF IInv

(* Once watched, the map is stale only while a reload is on its way        *)
(* (namespace_round_tripper.go:86-102).                                    *)
THEOREM Staleness == Spec => []StaleOnlyTransiently
  BY Invariant, PTL DEF IInv

(* GetNamespace never answers a client from an older map than before, nor  *)
(* from one that did not parse (namespace_round_tripper.go:60-67,113-118). *)
THEOREM LookupsForward == Spec => LookupsNeverRegress
<1>1. IInv /\ [Next]_vars =>
        [\A c \in Client :
           /\ seen'[c] >= seen[c]
           /\ seen'[c] # seen[c] => seen'[c] \in Version \ Unreadable]_vars
  <2> SUFFICES ASSUME IInv, [Next]_vars, NEW c \in Client
               PROVE  \/ UNCHANGED vars
                      \/ /\ seen'[c] >= seen[c]
                         /\ seen'[c] # seen[c] => seen'[c] \in Version \ Unreadable
    OBVIOUS
  <2>1. CASE seen' = seen
    BY <2>1 DEF IInv, TypeOK
  <2>2. ASSUME NEW d \in Client, GetNamespace(d)
        PROVE  /\ seen'[c] >= seen[c]
               /\ seen'[c] # seen[c] => seen'[c] \in Version \ Unreadable
    BY <2>2 DEF IInv, TypeOK, Forward, GetNamespace
  <2> QED
    BY <2>1, <2>2
    DEF Next, Writer, WriteDir, Relink, RemoveOldDir, Truncate, Fill, Load, Resolve,
        Open, Read, Watcher, StartWatch, TakeEvent, TakeError, vars, proxy
<1> QED
  BY <1>1, Invariant, PTL DEF Spec, LookupsNeverRegress

(* The manager implements MappingStore: each step publishes a version,     *)
(* moves the map forward to a readable published version, or changes       *)
(* neither.                                                                *)
THEOREM Implementation == Spec => ImplementsStore
<1>1. Init => Store!Init
  BY DEF Init, Store!Init
<1>2. IInv /\ [Next]_vars => [Store!Publish \/ Store!Refresh]_Store!storeVars
  <2> SUFFICES ASSUME IInv, [Next]_vars
               PROVE  \/ Store!Publish \/ Store!Refresh
                      \/ UNCHANGED <<current, mappings>>
    BY DEF Store!storeVars
  <2>1. CASE Relink \/ Fill
    BY <2>1 DEF Relink, Fill, proxy, Store!Publish
  <2>2. CASE Read
    BY <2>2
    DEF Read, Parses, Contents, disk, IInv, TypeOK, Forward, Store!Refresh
  <2>3. CASE ~(Relink \/ Fill \/ Read)
    BY <2>3
    DEF Next, Writer, WriteDir, RemoveOldDir, Truncate, Load, Resolve, Open, Watcher,
        StartWatch, TakeEvent, TakeError, GetNamespace, vars, disk, proxy
  <2> QED
    BY <2>1, <2>2, <2>3
<1> QED
  BY <1>1, <1>2, Invariant, PTL DEF Spec, ImplementsStore, Store!Spec
=============================================================================
