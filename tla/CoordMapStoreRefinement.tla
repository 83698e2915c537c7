---------------------- MODULE CoordMapStoreRefinement ----------------------
(***************************************************************************)
(* What CoordMapStore implements when no write fails and it is reopened    *)
(* only when it is not buffered: CoordMapSpec, seen by its callers, and    *)
(* TreeAllocator, seen by the origin.                                      *)
(***************************************************************************)
EXTENDS CoordMapStore

CONSTANT Words  (* what TreeAllocator lets the owner of its spans write     *)

(***************************************************************************)
(* The map.  A put or a remove takes effect with its last write, where it  *)
(* answers; until then its key still has the value it had before.          *)
(***************************************************************************)
AnswerPending(p) ==
  /\ p = op.path
  /\ op.at \in {"leaf_bit", "length", "payload", "unleaf", "unleaf_bit"}

Effective ==
  [p \in Paths |-> IF AnswerPending(p) THEN op.prev ELSE Lookup(origin, p)]

Map == INSTANCE CoordMapSpec WITH map <- Effective

(* Every answer of get, put and remove is that of a map, and flush, reopen  *)
(* and the steps inside an operation change nothing callers can see.        *)
ImplementsMap == Map!Spec

(***************************************************************************)
(* The allocator.  A node is in use from its allocation on, a record until *)
(* free_record, which is before its leaf slot is cleared.                  *)
(***************************************************************************)
NodesInUse == ReachableNodes \cup (IF op.at = "link" THEN {op.target} ELSE {})

RecordsInUse ==
  ( { RecordOf(p) : p \in StoredPaths }
      \cup (IF op.at = "leaf" THEN {op.target} ELSE {}) )
  \ (IF op.at = "unleaf" THEN {op.target} ELSE {})

FreeOldestFirst ==
  LET links  == FreeLinks(MAX_OFFSET)
      length == Cardinality({ i \in 1 .. MAX_OFFSET : links[i] # ABSENT })
  IN  [i \in 1 .. length |-> links[length + 1 - i]]

AllocFields(s) == [bump |-> s.bump, free_head |-> s.free_head]

Alloc == INSTANCE TreeAllocator WITH
  bump       <- strategy.bump,
  free_head  <- strategy.free_head,
  word       <- origin.word,
  origin_len <- origin.len,
  header     <- AllocFields(origin.header),
  nodes      <- NodesInUse,
  records    <- RecordsInUse,
  free       <- FreeOldestFirst

(* Every step of the store is a step of the allocator or none: the store    *)
(* writes only into what it holds and frees only what it has in use, so the *)
(* theorems about TreeAllocator hold of it.                                 *)
ImplementsAllocator == Alloc!Spec
=============================================================================
