---------------------------- MODULE MappingStore ----------------------------
(***************************************************************************)
(* What the namespace mapping promises to the requests that look suffixes  *)
(* up in it: versions of the mapping file are published one after another, *)
(* and what is served is always one of them that parses, never an older    *)
(* one than before. It may lag and may skip versions.                      *)
(***************************************************************************)
EXTENDS Naturals

CONSTANT Unreadable  \* the versions that are not a JSON object of strings

VARIABLES published, \* number of versions published; they are numbered from 1
          served     \* the version served, 0 before there is one

storeVars == <<published, served>>

Init == published = 1 /\ served = 0

Publish == published' = published + 1 /\ UNCHANGED served

Refresh == /\ served' \in (served + 1)..published
           /\ served' \notin Unreadable
           /\ UNCHANGED published

Spec == Init /\ [][Publish \/ Refresh]_storeVars
=============================================================================
