----------------------------- MODULE HardlinkFs -----------------------------
(***************************************************************************)
(* The part of a POSIX filesystem that the deduplicator relies on: names,  *)
(* hardlinks and modes.  It is external to the repository; each operation  *)
(* is modelled from how the code calls it.                                 *)
(*                                                                         *)
(* A volume is a set of files.  A file (an inode) is the set of its names  *)
(* and what belongs to the inode rather than to a name; it has no number,  *)
(* and it is gone with its last name.                                      *)
(***************************************************************************)
EXTENDS Naturals, FiniteSets

CONSTANTS
    Targets,    \* workspace paths
    Contents,   \* file contents; a content stands for its own BLAKE3 digest
    Stages,     \* bound: the unique names available in tmp/
    MaxSlot,    \* bound: the highest slot index
    MaxClock,   \* bound: the highest time
    None        \* no content, no target, no stage

ASSUME NoneIsNoValue == None \notin Contents \cup Targets \cup Stages
ASSUME BoundsAreNaturals == MaxSlot \in Nat /\ MaxClock \in Nat
ASSUME FinitelyManyNames ==
    IsFiniteSet(Targets) /\ IsFiniteSet(Contents) /\ IsFiniteSet(Stages)

Times   == 0 .. MaxClock
Slots   == Contents \X (0 .. MaxSlot)
Entries == Times \X Slots

(* The names the program uses.                                             *)
Ws(t)  == <<"workspace", t>>     \* a workspace file
Lnk(t) == <<"tmp_link", t>>      \* its sibling "<t>.tmp_link"
Obj(s) == <<"objects", s>>       \* objects/<xx>/<digest>_s<idx>, s = <<digest, idx>>
Tmp(k) == <<"tmp", k>>           \* tmp/<unique>.stage
Qua(e) == <<"quarantine", e>>    \* quarantine/<ts>_<slot>, e = <<ts, slot>>

Names ==
    ({"workspace", "tmp_link"} \X Targets) \cup ({"objects"} \X Slots)
    \cup ({"tmp"} \X Stages) \cup ({"quarantine"} \X Entries)

(* whole is FALSE while the file is being written; mode is what enforcing  *)
(* or stripping the read-only invariant leaves.                            *)
Files == [names : SUBSET Names, data : Contents, whole : BOOLEAN, mode : {"rw", "ro"}]

VARIABLE vol

(* Every file has a name, and a name belongs to one file.                  *)
IsVolume(V) ==
    /\ V \subseteq Files
    /\ \A f \in V : f.names # {}
    /\ \A f, g \in V : f.names \cap g.names # {} => f = g

Bound(p) == \E f \in vol : p \in f.names
File(p)  == CHOOSE f \in vol : p \in f.names
Links(f) == Cardinality(f.names)   \* st_nlink

(* Volume V after unlink(p).                                               *)
Unlinked(V, p) ==
    {g \in {[f EXCEPT !.names = @ \ {p}] : f \in V} : g.names # {}}

(* Volume V with file f given the attributes of g.                         *)
Replaced(V, f, g) == (V \ {f}) \cup {g}

(* chmod(p, mode), if there is such a file.                                *)
Chmod(p, mode) ==
    vol' = IF Bound(p) THEN Replaced(vol, File(p), [File(p) EXCEPT !.mode = mode])
                       ELSE vol

Unlink(p) == vol' = Unlinked(vol, p)

(* link(p, q): q is one more name of the file at p.                        *)
HardLink(p, q) == vol' = Replaced(vol, File(p), [File(p) EXCEPT !.names = @ \cup {q}])

(* rename(p, q) replaces what q names; if p and q name one file it does    *)
(* nothing at all.                                                         *)
Rename(p, q) ==
    vol' = IF q \in File(p).names
           THEN vol
           ELSE Unlinked(vol \ {File(p)}, q)
                \cup {[File(p) EXCEPT !.names = (@ \ {p}) \cup {q}]}

(* A new file at p, which replaces what p names (by way of a rename).      *)
Create(p, data, whole, mode) ==
    vol' = Unlinked(vol, p)
           \cup {[names |-> {p}, data |-> data, whole |-> whole, mode |-> mode]}
=============================================================================
