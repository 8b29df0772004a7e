------------------------------ MODULE CasStore ------------------------------
(***************************************************************************)
(* What the store's readers see: the slots of a digest and their link      *)
(* counts (store.rs).  The digest of a file is its content: BLAKE3 is      *)
(* taken to be collision-free.                                             *)
(***************************************************************************)
EXTENDS HardlinkFs

CONSTANTS
    MaxLinks,    \* max_links_per_slot of the probed filesystem
    CountsLinks  \* the build reads st_nlink (unix) or takes it to be 1

ASSUME LinkCeiling == MaxLinks \in Nat /\ CountsLinks \in BOOLEAN

Exists(d, n) == Bound(Obj(<<d, n>>))

(* platform_link_count: on Windows the count is not available in stable    *)
(* Rust and the code answers 1 for every file.                             *)
LinkCount(f) == IF CountsLinks THEN Links(f) ELSE 1

(* CasStore::lookup finds a digest by probing _s000 and then _s001.        *)
Known(d) == Exists(d, 0) \/ Exists(d, 1)

(* One turn of acquire_slot's walk over the slots of d: the slot to use, a *)
(* next index to look at, or a slot to spill from.                         *)
AcceptsFull(d, n) ==   \* as a bug: off by one
    Exists(d, n) => LinkCount(File(Obj(<<d, n>>))) <= MaxLinks
Accepts(d, n) == Exists(d, n) => LinkCount(File(Obj(<<d, n>>))) < MaxLinks
=============================================================================
