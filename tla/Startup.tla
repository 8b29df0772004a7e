------------------------------ MODULE Startup -------------------------------
(***************************************************************************)
(* Processes of the command line that start while others are at work on    *)
(* the volume: each probes the volume, then sweeps tmp/ (recover, ingest), *)
(* then stages files there (ingest).  What one process takes for litter    *)
(* may be another's work.                                                  *)
(***************************************************************************)
EXTENDS Capability, Recovery

CONSTANT OldTimes  \* bound: the times that the files to be copied may bear

ASSUME OldTimesAreTimes == OldTimes \subseteq Nat

VARIABLE ph

startVars == <<tmp, clock, volume, pb, sw, ph>>

(* pc: the phase a process is in; stg: the file it is staging.             *)
Phases == [pc : {"off", "probe", "sweep", "work", "stage"}, stg : TmpNames \cup {None}]
Off    == [pc |-> "off", stg |-> None]

Init == TmpInit /\ ProbeInit /\ SweepInit /\ ph = [p \in Procs |-> Off]

PhAt(p, pc) == ph[p].pc = pc
Enter(p, pc) == ph' = [ph EXCEPT ![p] = [Off EXCEPT !.pc = pc]]
TmpUnchanged == UNCHANGED <<tmp, clock>>

(* Names in some process's hands.                                          *)
Taken == UNION {{pb[p].src, pb[p].dst, sw[p].cur, ph[p].stg} : p \in Procs}

Launch(p) ==
    /\ PhAt(p, "off")
    /\ Enter(p, "probe")
    /\ TmpUnchanged /\ UNCHANGED <<volume, pb, sw>>

Undecided(p) == pb[p].strategy = None
Probe(p) ==
    /\ PhAt(p, "probe") /\ Undecided(p)
    /\ Detect(p) \/ DryRun(p, Taken)
    /\ UNCHANGED <<sw, ph>>

Quit(p) ==
    /\ Enter(p, "off")
    /\ pb' = [pb EXCEPT ![p] = NoProbe]

(* probe and gc end here as far as tmp/ goes.                              *)
ProbeOnly(p) ==
    /\ PhAt(p, "probe") /\ ~Undecided(p)
    /\ Quit(p)
    /\ TmpUnchanged /\ UNCHANGED <<volume, sw>>

(* recover and ingest open the store and sweep.  The strategy is not       *)
(* looked at again: the ceiling it sets is MaxLinks in CasStore.           *)
BeginSweep(p) ==
    /\ PhAt(p, "probe") /\ ~Undecided(p)
    /\ OpenDir(p)
    /\ Enter(p, "sweep")
    /\ pb' = [pb EXCEPT ![p] = NoProbe]
    /\ UNCHANGED volume

Sweeping(p) == PhAt(p, "sweep") /\ Sweep(p) /\ UNCHANGED <<volume, pb, ph>>

SweepEnds(p) ==
    /\ PhAt(p, "sweep") /\ EndSweep(p)
    /\ Enter(p, "work") \/ Enter(p, "off")
    /\ UNCHANGED <<volume, pb>>

(* fs::copy leaves a stage file with the time; on Windows and macOS it may *)
(* give it at once, or in the end, that of the file it copies.             *)
CopyTimes == {clock} \cup {t \in OldTimes : t < clock /\ volume.os \in {"windows", "macos"}}
StageAs(p, n) == \E t \in CopyTimes : tmp' = [tmp EXCEPT ![n] = Copied(p, t)]

(* The file is created, and written to for as long as it takes ...         *)
CreateStage(p) ==
    /\ PhAt(p, "work") /\ HasName(Taken)
    /\ StageAs(p, NewName(Taken))
    /\ ph' = [ph EXCEPT ![p] = [pc |-> "stage", stg |-> NewName(Taken)]]
    /\ UNCHANGED <<clock, volume, pb, sw>>
WriteStage(p) ==
    /\ PhAt(p, "stage") /\ There(ph[p].stg)
    /\ StageAs(p, ph[p].stg)
    /\ UNCHANGED <<clock, volume, pb, sw, ph>>

(* ... then moved out of tmp/, or removed because somebody's was there     *)
(* before it or the rename failed.  If the copy fails, or the directory to *)
(* move it to cannot be made, or spill_slot's rename fails, the call       *)
(* returns its error and the file stays, as one does that cannot be        *)
(* removed.                                                                *)
LeaveStage(p) ==
    /\ PhAt(p, "stage")
    /\ TryRemove(ph[p].stg)
    /\ Enter(p, "work")
    /\ UNCHANGED <<clock, volume, pb, sw>>
Done(p) ==
    /\ PhAt(p, "work")
    /\ Quit(p)
    /\ TmpUnchanged /\ UNCHANGED <<volume, sw>>

Kill(p) ==
    /\ MayFail /\ ~PhAt(p, "off")
    /\ tmp' = Orphaned(p)
    /\ sw' = [sw EXCEPT ![p] = NoSweep]
    /\ Quit(p)
    /\ UNCHANGED <<clock, volume>>

Tick ==
    /\ clock < MaxClock
    /\ clock' = clock + 1
    /\ UNCHANGED <<tmp, volume, pb, sw, ph>>

Next ==
    \/ \E p \in Procs :
          \/ Launch(p) \/ Probe(p) \/ ProbeOnly(p)
          \/ BeginSweep(p) \/ Sweeping(p) \/ SweepEnds(p)
          \/ CreateStage(p) \/ WriteStage(p) \/ LeaveStage(p) \/ Done(p)
          \/ Kill(p)
    \/ Tick

Spec == Init /\ [][Next]_startVars

(* A process that sweeps goes on.                                          *)
FairSpec == Spec /\ \A p \in Procs : WF_startVars(Sweeping(p) \/ SweepEnds(p))
-----------------------------------------------------------------------------
TypeOK == TmpTypeOK /\ ProbeTypeOK /\ SweepTypeOK /\ ph \in [Procs -> Phases]

(* A strategy that clones is chosen only where cloning was seen to work,   *)
(* though other processes remove files under the dry run's feet; and a     *)
(* strategy that links stays under the platform's own limit, even when     *)
(* every process overshoots the ceiling by a link (detect_strategy,        *)
(* max_links_per_slot).                                                    *)
HardLimit(s) == IF s = "NtfsHardlink" THEN 1024 ELSE 65535
HonestStrategy == \A p \in Procs : ~Undecided(p) =>
    IF IsHardlink(pb[p].strategy)
    THEN MaxLinksPerSlot(pb[p].strategy) + Cardinality(Procs) <= HardLimit(pb[p].strategy)
    ELSE volume.clones

(* A live process has no file in tmp/ but those it is working with and     *)
(* those that a failing call made it give up: a dry run that fails cleans  *)
(* up as one that succeeds, whoever removes its files meanwhile            *)
(* (cow_dry_run_linux, publish_new_master).                                *)
NoLitter == \A n \in TmpNames, p \in Procs :
    There(n) /\ tmp[n].owner = p => n \in {pb[p].src, pb[p].dst, ph[p].stg}

(* When a sweep ends, what it found in tmp/ and could examine and remove   *)
(* bears a time within the threshold, or has been written to since the     *)
(* sweep read the clock (sweep_stale_tmp).                                 *)
SweepsClean == [][\A p \in Procs : SweepEnds(p) =>
    \A n \in sw[p].opened \ sw[p].errors : There(n) =>
        tmp[n].mtime + Stale > sw[p].now \/ tmp[n].written >= sw[p].now]_startVars

(* A file in use is removed by a sweep only if it had not been written for *)
(* the threshold, or was written after the sweep read the clock, or bears  *)
(* the older time of the file it is a copy of (file_age, fs::copy).        *)
Removes(p, n) == There(n) /\ sw[p].cur = n /\ Sweeping(p) /\ ~There(n)'
FreshIsKept == [][\A p \in Procs, n \in TmpNames :
    Removes(p, n) /\ tmp[n].owner # None =>
        \/ tmp[n].written + Stale <= sw[p].now
        \/ tmp[n].written >= sw[p].now
        \/ tmp[n].mtime < tmp[n].written /\ tmp[n].mtime + Stale <= sw[p].now]_startVars

(* A file in use is removed only when it was not written to for the        *)
(* threshold (sweep_stale_tmp).                                            *)
InFlightIsKept == [][\A p \in Procs, n \in TmpNames :
    Removes(p, n) /\ tmp[n].owner # None => tmp[n].written + Stale <= clock]_startVars

(* A sweep ends: its errors do not stop it and other processes' files do   *)
(* not keep it going (sweep_stale_tmp).                                    *)
SweepsEnd == \A p \in Procs : PhAt(p, "sweep") ~> ~PhAt(p, "sweep")
=============================================================================
