----------------------------- MODULE Capability -----------------------------
(***************************************************************************)
(* probe_volume (capability.rs): which strategy suits the volume.  Where   *)
(* the platform says that blocks can be cloned, or cannot say, a dry run   *)
(* clones a file in tmp/.                                                  *)
(***************************************************************************)
EXTENDS TmpDir

CONSTANT Volumes  \* what the volume may be: subsets of the records below

(* os: the platform; ffi: the build has the feature that calls it; says:   *)
(* the volume's flags or type promise cloning; clones: it does clone.      *)
VolumeKinds == [os : {"windows", "linux", "macos", "other"},
                ffi : BOOLEAN, says : BOOLEAN, clones : BOOLEAN]
ASSUME VolumesAreKinds == Volumes \subseteq VolumeKinds

VARIABLES volume, pb

Cow        == {"RefsBlockClone", "BtrfsReflink", "ApfsClonefile"}
Strategies == Cow \cup {"NtfsHardlink", "PosixHardlink"}

IsHardlink(s) == s \notin Cow
MaxLinksPerSlot(s) == CASE s = "NtfsHardlink"  -> 1000
                        [] s = "PosixHardlink" -> 64000
                        [] OTHER               -> 2^32 - 1

(* src, dst: the names of the dry run's files; ok: the clone succeeded.    *)
ProbeStates == [pc : {"idle", "source", "clone", "cleanSource", "cleanTarget"},
                src : TmpNames \cup {None}, dst : TmpNames \cup {None}, ok : BOOLEAN,
                strategy : Strategies \cup {None}]
NoProbe == [pc |-> "idle", src |-> None, dst |-> None, ok |-> FALSE, strategy |-> None]

ProbeTypeOK == volume \in Volumes /\ pb \in [Procs -> ProbeStates]
ProbeInit   == volume \in Volumes /\ pb = [p \in Procs |-> NoProbe]

PbAt(p, pc)  == pb[p].pc = pc
Decide(p, s) == pb' = [pb EXCEPT ![p] = [NoProbe EXCEPT !.strategy = s]]

Fallback == IF volume.os = "windows" THEN "NtfsHardlink" ELSE "PosixHardlink"
CowOf    == CASE volume.os = "windows" -> "RefsBlockClone"
              [] volume.os = "linux"   -> "BtrfsReflink"
              [] OTHER                 -> "ApfsClonefile"

(* As a bug: the flags are taken at their word.                            *)
DetectTrusting(p) ==
    /\ PbAt(p, "idle")
    /\ IF volume.says THEN Decide(p, CowOf)
       ELSE IF volume.os = "macos" THEN pb' = [pb EXCEPT ![p].pc = "source"]
       ELSE Decide(p, Fallback)
    /\ UNCHANGED <<tmp, clock, volume>>

(* detect_strategy: the volume's own word decides whether to try; it may   *)
(* not be had, which counts as a no.                                       *)
DryRuns == volume.os = "macos" \/ (volume.os \in {"windows", "linux"} /\ volume.ffi /\ volume.says)
Detect(p) ==
    /\ PbAt(p, "idle")
    /\ \/ DryRuns /\ pb' = [pb EXCEPT ![p].pc = "source"]
       \/ (~DryRuns \/ (MayFail /\ volume.os # "macos")) /\ Decide(p, Fallback)
    /\ UNCHANGED <<tmp, clock, volume>>

(* The dry run.  Its source is written, if the disk has room for it ...    *)
WriteSource(p, taken) ==
    /\ PbAt(p, "source")
    /\ HasName(taken)
    /\ tmp' = [tmp EXCEPT ![NewName(taken)] = Written(p)]
    /\ \E pc \in {"clone"} \cup (IF MayFail THEN {"cleanSource"} ELSE {}) :
          pb' = [pb EXCEPT ![p].src = NewName(taken), ![p].pc = pc]
    /\ UNCHANGED <<clock, volume>>

(* ... and cloned.  Windows makes the target in any case; Linux only once  *)
(* the source is open again; macOS makes it by cloning, times and all.     *)
TargetMade(cloned, p) == CASE volume.os = "windows" -> TRUE
                           [] volume.os = "linux"   -> There(pb[p].src)
                           [] OTHER                 -> cloned
Target(p) == IF volume.os = "macos" THEN Copied(p, tmp[pb[p].src].mtime) ELSE Written(p)
Clone(p, taken) ==
    /\ PbAt(p, "clone")
    /\ HasName(taken)
    /\ \E fails \in {FALSE, MayFail} :
          LET cloned == volume.clones /\ There(pb[p].src) /\ ~fails
              new    == NewName(taken)
          IN  IF TargetMade(cloned, p)
              THEN /\ tmp' = [tmp EXCEPT ![new] = Target(p)]
                   /\ pb' = [pb EXCEPT ![p].pc = "cleanSource", ![p].ok = cloned, ![p].dst = new]
              ELSE /\ UNCHANGED tmp
                   /\ pb' = [pb EXCEPT ![p].pc = "cleanSource", ![p].ok = cloned]
    /\ UNCHANGED <<clock, volume>>

(* As a bug: the clean-up of a dry run that failed is skipped.             *)
CleanSourceIfCloned(p) ==
    /\ PbAt(p, "cleanSource")
    /\ IF pb[p].ok
       THEN /\ TryRemove(pb[p].src)
            /\ pb' = [pb EXCEPT ![p].pc = "cleanTarget", ![p].src = None]
       ELSE UNCHANGED tmp /\ Decide(p, Fallback)
    /\ UNCHANGED <<clock, volume>>

(* Both files are removed whatever happened, if they can be.               *)
CleanSource(p) ==
    /\ PbAt(p, "cleanSource")
    /\ TryRemove(pb[p].src)
    /\ pb' = [pb EXCEPT ![p].pc = "cleanTarget", ![p].src = None]
    /\ UNCHANGED <<clock, volume>>
CleanTarget(p) ==
    /\ PbAt(p, "cleanTarget")
    /\ TryRemove(pb[p].dst)
    /\ Decide(p, IF pb[p].ok THEN CowOf ELSE Fallback)
    /\ UNCHANGED <<clock, volume>>

DryRun(p, taken) == WriteSource(p, taken) \/ Clone(p, taken) \/ CleanSource(p) \/ CleanTarget(p)
=============================================================================
