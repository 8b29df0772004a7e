------------------------------ MODULE Recovery ------------------------------
(***************************************************************************)
(* StartupSweeper::sweep_stale_tmp (recovery.rs): one walk over tmp/ that  *)
(* removes what was not written to for the threshold.  The clock is read   *)
(* once, after the directory was opened; the walk may or may not meet what *)
(* is created while it goes on.                                            *)
(***************************************************************************)
EXTENDS TmpDir

CONSTANT Stale  \* DEFAULT_STALE_THRESHOLD_SECS, 300 s in the code

ASSUME StaleIsNatural == Stale \in Nat \ {0}

VARIABLE sw

(* now: the clock as read; opened: what tmp/ held when the walk began;     *)
(* met: the entries dealt with; cur: the one about to be removed; errors:  *)
(* the entries in SweepReport::errors.                                     *)
SweepStates == [pc : {"idle", "opened", "walk", "remove", "failed"}, now : Times,
                opened : SUBSET TmpNames, met : SUBSET TmpNames,
                cur : TmpNames \cup {None}, errors : SUBSET TmpNames]
NoSweep == [pc |-> "idle", now |-> 0, opened |-> {}, met |-> {}, cur |-> None,
            errors |-> {}]

SweepTypeOK == sw \in [Procs -> SweepStates]
SweepInit   == sw = [p \in Procs |-> NoSweep]

SwAt(p, pc) == sw[p].pc = pc
Dealt(p, n) == [sw[p] EXCEPT !.pc = "walk", !.met = @ \cup {n}, !.cur = None]

(* As a bug: the entry of the directory itself is taken for a file.        *)
OpenDirWithDot(p) ==
    /\ SwAt(p, "idle")
    /\ sw' = [sw EXCEPT ![p] = [NoSweep EXCEPT !.pc = "opened", !.opened = Listed \cup {0}]]
    /\ UNCHANGED <<tmp, clock>>

(* read_dir: if it fails that is all.                                      *)
OpenDir(p) ==
    /\ SwAt(p, "idle")
    /\ \/ sw' = [sw EXCEPT ![p] = [NoSweep EXCEPT !.pc = "opened", !.opened = Listed]]
       \/ MayFail /\ sw' = [sw EXCEPT ![p] = [NoSweep EXCEPT !.pc = "failed"]]
    /\ UNCHANGED <<tmp, clock>>

ReadClock(p) ==
    /\ SwAt(p, "opened")
    /\ sw' = [sw EXCEPT ![p].pc = "walk", ![p].now = clock]
    /\ UNCHANGED <<tmp, clock>>

(* As a bug: only what was written since the clock was read is fresh.      *)
IsUnaged(n, now) == tmp[n].mtime = now

(* As a bug: what is as old as the threshold is left.                      *)
IsFreshStill(n, now) == tmp[n].mtime <= now /\ now - tmp[n].mtime <= Stale

(* file_age: a file that is younger than the sweep's now has no age, which *)
(* counts as infinite.                                                     *)
IsFresh(n, now) == tmp[n].mtime <= now /\ now - tmp[n].mtime < Stale

Unmet(p) == (sw[p].opened \cup Listed) \ sw[p].met

(* The next entry: it cannot be read, or is gone, or is fresh, or is to be *)
(* removed.                                                                *)
StatEntry(p) ==
    /\ SwAt(p, "walk")
    /\ \E n \in Unmet(p) :
          \/ /\ ~There(n) \/ MayFail
             /\ sw' = [sw EXCEPT ![p] = [Dealt(p, n) EXCEPT !.errors = @ \cup {n}]]
          \/ /\ There(n) /\ IsFresh(n, sw[p].now)
             /\ sw' = [sw EXCEPT ![p] = Dealt(p, n)]
          \/ /\ There(n) /\ ~IsFresh(n, sw[p].now)
             /\ sw' = [sw EXCEPT ![p].pc = "remove", ![p].cur = n]
    /\ UNCHANGED <<tmp, clock>>

(* As a bug: a removal is tried until it succeeds.                         *)
RemoveInsisting(p) ==
    /\ SwAt(p, "remove")
    /\ IF There(sw[p].cur)
       THEN tmp' = Without({sw[p].cur}) /\ sw' = [sw EXCEPT ![p] = Dealt(p, sw[p].cur)]
       ELSE UNCHANGED <<tmp, sw>>
    /\ UNCHANGED clock

(* remove_file: another process may have been faster, or hold the file.    *)
RemoveEntry(p) ==
    /\ SwAt(p, "remove")
    /\ \/ /\ There(sw[p].cur)
          /\ tmp' = Without({sw[p].cur})
          /\ sw' = [sw EXCEPT ![p] = Dealt(p, sw[p].cur)]
       \/ /\ ~There(sw[p].cur) \/ MayFail
          /\ UNCHANGED tmp
          /\ sw' = [sw EXCEPT ![p] = [Dealt(p, sw[p].cur) EXCEPT !.errors = @ \cup {sw[p].cur}]]
    /\ UNCHANGED clock

(* The directory has no more entries, or could not be read: the report is  *)
(* returned.                                                               *)
WalkDone(p) ==
    \/ SwAt(p, "walk") /\ sw[p].opened \subseteq sw[p].met
    \/ SwAt(p, "failed")
EndSweep(p) ==
    /\ WalkDone(p)
    /\ sw' = [sw EXCEPT ![p] = NoSweep]
    /\ UNCHANGED <<tmp, clock>>

Sweep(p) == ReadClock(p) \/ StatEntry(p) \/ RemoveEntry(p)
=============================================================================
