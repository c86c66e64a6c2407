----------------------------- MODULE NsMapping -----------------------------
(***************************************************************************)
(* MappingManager (pkg/proxy/namespace_round_tripper.go:28-118): the map   *)
(* from URL suffixes to namespaces that is read from a file at start-up    *)
(* and read again whenever the directory of the file changes.              *)
(*                                                                         *)
(* Three actors run concurrently: whoever writes the file, the goroutine   *)
(* watchFile (the goroutine of NewMappingManager before it), and requests  *)
(* calling GetNamespace.                                                   *)
(*                                                                         *)
(* The contents of the file are abstracted to a version number. A          *)
(* projected volume is updated the way kubelet does it                     *)
(* (namespace_round_tripper_test.go:122-131): write ..<version>, rename    *)
(* ..data onto it, delete the old directory; the file is                   *)
(* ..data/<file>. A plain file is truncated and written in place.          *)
(***************************************************************************)
EXTENDS Naturals, Sequences

CONSTANTS
  Client,     \* goroutines of requests that call GetNamespace
  Unreadable, \* versions that are not a JSON object of strings
  MaxVersion, \* bound on the versions written
  QueueLimit  \* events inotify holds for a reader that lags

ASSUME BoundsAssumption == MaxVersion \in Nat \ {0} /\ QueueLimit \in Nat

Version == 1..MaxVersion

VARIABLES
  projected, \* the file is on a projected volume, not a plain file
  current,   \* the version ..data leads to, or the plain file holds
  dirs,      \* the versions that have a directory on the volume
  torn,      \* the plain file is truncated and not yet written
  phase,     \* where NewMappingManager and watchFile are
  load,      \* where loadMappings is; it holds the write lock unless "idle"
  target,    \* the version the path resolved to when it was opened
  mappings,  \* the version in m.mappings, 0 for the empty map
  events,    \* inotify events not yet received from watcher.Events
  overflow,  \* an overflow report is waiting in watcher.Errors
  lost,      \* (history) an event about the file was dropped
  addedAt,   \* (history) the current version when watcher.Add returned
  seen       \* (history) the version each client was answered from last

disk     == <<projected, current, dirs, torn>>
watching == <<events, overflow, lost>>
vars     == <<disk, phase, load, target, mappings, watching, addedAt, seen>>

(* The events that get past the filter of namespace_round_tripper.go:92.   *)
Relevant == {"..data", "file"}

Init == /\ projected \in BOOLEAN
        /\ current = 1 /\ dirs = {1} /\ torn = FALSE
        /\ phase = "new" /\ load = "resolve"
        /\ target = 0 /\ mappings = 0
        /\ events = <<>> /\ overflow = FALSE /\ lost = FALSE
        /\ addedAt = 0
        /\ seen = [c \in Client |-> 0]

-----------------------------------------------------------------------------
(***************************************************************************)
(* The writer of the file.                                                 *)
(***************************************************************************)
(* Bug: the queue takes one event more than it has room for.               *)
EmitOneMore(name) ==
  IF phase # "watching" THEN UNCHANGED watching
  ELSE IF Len(events) <= QueueLimit
       THEN events' = Append(events, name) /\ UNCHANGED <<overflow, lost>>
       ELSE /\ overflow' = TRUE /\ lost' = (lost \/ name \in Relevant)
            /\ UNCHANGED events

(* inotify queues an event for a watched directory, or drops it and reports*)
(* an overflow, which fsnotify delivers on watcher.Errors.                 *)
Emit(name) ==
  IF phase # "watching" THEN UNCHANGED watching
  ELSE IF Len(events) < QueueLimit
       THEN events' = Append(events, name) /\ UNCHANGED <<overflow, lost>>
       ELSE /\ overflow' = TRUE /\ lost' = (lost \/ name \in Relevant)
            /\ UNCHANGED events

proxy == <<phase, load, target, mappings, addedAt, seen>>

WriteDir ==
  /\ projected /\ dirs = {current} /\ current < MaxVersion
  /\ dirs' = dirs \cup {current + 1}
  /\ Emit("..version")
  /\ UNCHANGED <<projected, current, torn, proxy>>

Relink ==
  /\ projected /\ current + 1 \in dirs
  /\ current' = current + 1
  /\ Emit("..data")
  /\ UNCHANGED <<projected, dirs, torn, proxy>>

RemoveOldDir ==
  /\ projected /\ dirs \cap 1..(current - 1) # {}
  /\ dirs' = {current}
  /\ Emit("..version")
  /\ UNCHANGED <<projected, current, torn, proxy>>

Truncate ==
  /\ ~projected /\ ~torn /\ current < MaxVersion
  /\ torn' = TRUE
  /\ Emit("file")
  /\ UNCHANGED <<projected, current, dirs, proxy>>

Fill ==
  /\ ~projected /\ torn
  /\ torn' = FALSE /\ current' = current + 1
  /\ Emit("file")
  /\ UNCHANGED <<projected, dirs, proxy>>

Writer == WriteDir \/ Relink \/ RemoveOldDir \/ Truncate \/ Fill

-----------------------------------------------------------------------------
(***************************************************************************)
(* loadMappings, under the write lock. os.Open follows ..data and then     *)
(* looks the file up in the directory it led to, which may be gone by then.*)
(***************************************************************************)
Resolve ==
  /\ load = "resolve"
  /\ load' = "open" /\ target' = current
  /\ UNCHANGED <<disk, phase, mappings, watching, addedAt, seen>>

(* Bug: watchFile returns when a load fails.                               *)
LoadedOrGone(ok) ==
  /\ load' = "idle"
  /\ phase' = IF ~ok THEN "failed" ELSE IF phase = "new" THEN "started"
                                                       ELSE phase

(* NewMappingManager fails with its load; watchFile keeps going.           *)
Loaded(ok) ==
  /\ load' = "idle"
  /\ phase' = IF phase = "new" THEN IF ok THEN "started" ELSE "failed"
                               ELSE phase

Open ==
  /\ load = "open"
  /\ IF projected => target \in dirs
     THEN load' = "read" /\ UNCHANGED phase
     ELSE Loaded(FALSE)
  /\ UNCHANGED <<disk, target, mappings, watching, addedAt, seen>>

(* An open file of a deleted directory can still be read.                  *)
Contents == IF projected THEN target ELSE current

(* Bug: the error of json.Unmarshal is ignored.                            *)
ReadsAnything == ~torn

Parses == Contents \notin Unreadable /\ ~torn

(* Bug: the map is cleared before the file is parsed.                      *)
ReadIntoCleared ==
  /\ load = "read"
  /\ mappings' = IF Parses THEN Contents ELSE 0
  /\ Loaded(Parses)
  /\ UNCHANGED <<disk, target, watching, addedAt, seen>>

Read ==
  /\ load = "read"
  /\ mappings' = IF Parses THEN Contents ELSE mappings
  /\ Loaded(Parses)
  /\ UNCHANGED <<disk, target, watching, addedAt, seen>>

-----------------------------------------------------------------------------
(***************************************************************************)
(* watchFile.                                                              *)
(***************************************************************************)
(* fsnotify.NewWatcher and watcher.Add; the goroutine ends if either fails.*)
StartWatch ==
  /\ phase = "started"
  /\ \/ phase' = "watching" /\ addedAt' = current
     \/ phase' = "dead" /\ UNCHANGED addedAt
  /\ UNCHANGED <<disk, load, target, mappings, watching, seen>>

(* Bug: the filter lets only events of the file itself through.            *)
ConcernsFileOnly(name) == name = "file"

ConcernsFile(name) == name \in Relevant

TakeEvent ==
  /\ phase = "watching" /\ load = "idle" /\ events # <<>>
  /\ events' = Tail(events)
  /\ load' = IF ConcernsFile(Head(events)) THEN "resolve" ELSE "idle"
  /\ UNCHANGED <<disk, phase, target, mappings, overflow, lost, addedAt, seen>>

(* An error is printed; nothing is loaded again.                           *)
TakeError ==
  /\ phase = "watching" /\ load = "idle" /\ overflow
  /\ overflow' = FALSE
  /\ UNCHANGED <<disk, proxy, events, lost>>

(* GetNamespace, under the read lock.                                      *)
GetNamespace(c) ==
  /\ phase \notin {"new", "failed"} /\ load = "idle"
  /\ seen' = [seen EXCEPT ![c] = mappings]
  /\ UNCHANGED <<disk, phase, load, target, mappings, watching, addedAt>>

Load    == Resolve \/ Open \/ Read
Watcher == StartWatch \/ TakeEvent \/ TakeError

Next == Writer \/ Load \/ Watcher \/ \E c \in Client : GetNamespace(c)

Spec == Init /\ [][Next]_vars

(* The goroutine is scheduled and file operations return; nothing makes    *)
(* anybody write the file or call GetNamespace.                            *)
FairSpec == Spec /\ WF_vars(Load) /\ WF_vars(Watcher)

-----------------------------------------------------------------------------
(***************************************************************************)
(* Properties.                                                             *)
(***************************************************************************)
(* The type invariant.                                                     *)
TypeOK ==
  /\ projected \in BOOLEAN /\ torn \in BOOLEAN
  /\ current \in Version /\ dirs \subseteq Version
  /\ phase \in {"new", "failed", "started", "watching", "dead"}
  /\ load \in {"idle", "resolve", "open", "read"}
  /\ target \in Nat /\ mappings \in Nat
  /\ events \in Seq({"..data", "file", "..version"}) /\ Len(events) <= QueueLimit
  /\ overflow \in BOOLEAN /\ lost \in BOOLEAN
  /\ addedAt \in Nat /\ seen \in [Client -> Nat]

Pending == \E i \in 1..Len(events) : events[i] \in Relevant

(* The load under way will see the current version.                        *)
LoadingCurrent == \/ load = "resolve"
                  \/ load \in {"open", "read"} /\ (projected => target = current)

(* Once the directory is watched, the map served differs from a readable   *)
(* current version only while a load that will see that version is under   *)
(* way or an event that starts one is queued: swaps that overtake a load,  *)
(* loads that find the old directory gone and versions that do not parse   *)
(* never leave the proxy serving a stale map for good                      *)
(* (namespace_round_tripper.go:86-102). The two exceptions are a version   *)
(* that was there when the watch began and events inotify dropped.         *)
StaleOnlyTransiently ==
  phase = "watching" /\ ~torn /\ current \notin Unreadable
    /\ mappings # current /\ current # addedAt /\ ~lost
  => Pending \/ LoadingCurrent

(* A later lookup of a client is never answered from an older map than an  *)
(* earlier one, and never from a map that was not read from a version      *)
(* that parses (namespace_round_tripper.go:60-67: a failed reload leaves   *)
(* the map in place; 113-118).                                             *)
LookupsNeverRegress ==
  [][\A c \in Client : /\ seen'[c] >= seen[c]
                       /\ seen'[c] # seen[c] => seen'[c] \in Version \ Unreadable]_vars

Store == INSTANCE MappingStore WITH published <- current, served <- mappings

(* The manager implements MappingStore.                                    *)
ImplementsStore == Store!Spec

(* A readable version written after the watch began is served, or replaced,*)
(* if inotify drops no event: "Mapping file updated, reloaded".            *)
UpdateServed ==
  \A v \in Version :
    phase = "watching" /\ current = v /\ v # addedAt /\ v \notin Unreadable
      ~> mappings = v \/ current # v \/ torn \/ lost

(* namespace_round_tripper_test.go:143-173: a swap done after              *)
(* NewMappingManager returned is reloaded: "mapping not reloaded after ConfigMap    *)
(* swap" is a failure.                                                     *)
SwapReloaded ==
  \A v \in Version :
    [](projected /\ phase = "started" /\ mappings = v /\ current = v
       => (current = v + 1 ~> mappings = v + 1 \/ current # v + 1
                                               \/ phase = "dead"))
=============================================================================
