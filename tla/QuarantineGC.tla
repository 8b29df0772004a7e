---------------------------- MODULE QuarantineGC ----------------------------
(***************************************************************************)
(* The two-stage garbage collector (gc.rs).  A collector takes one slot or *)
(* quarantine entry at a time, in any order; between the stat that decides *)
(* and the rename or unlink that acts, anything may happen.                *)
(***************************************************************************)
EXTENDS CasStore

CONSTANTS
    Gcs,       \* collector processes
    Cooldown   \* cooldown_secs

ASSUME CooldownIsNatural == Cooldown \in Nat

VARIABLES gc, clock

GcStates == [pc : {"idle", "move", "resurrect", "purge"},
             slot : Slots \cup {None}, entry : Entries \cup {None}]
IdleGc == [pc |-> "idle", slot |-> None, entry |-> None]

GcTypeOK == gc \in [Gcs -> GcStates] /\ clock \in Times
GcInit   == gc = [g \in Gcs |-> IdleGc] /\ clock = 0

GcAt(g, pc)  == gc[g].pc = pc
GcReturn(g)  == gc' = [gc EXCEPT ![g] = IdleGc]

(* evaluate_objects_slot: an orphan is stamped with the time of the stat.  *)
(* The clock moves on with every stamp: no two stamps share a millisecond. *)
StatSlot(g) == \E s \in Slots :
    /\ GcAt(g, "idle") /\ Bound(Obj(s))
    /\ LinkCount(File(Obj(s))) <= 1
    /\ clock < MaxClock
    /\ clock' = clock + 1
    /\ gc' = [gc EXCEPT ![g] = [IdleGc EXCEPT !.pc = "move", !.slot = s,
                                              !.entry = <<clock, s>>]]
    /\ UNCHANGED vol

(* rename(slot, quarantine/<ts>_<slot>); an error is noted and skipped.    *)
RenameIfThere(p, q) == IF Bound(p) THEN Rename(p, q) ELSE UNCHANGED vol

(* As a bug: the slot is linked into quarantine/ and stays in objects/.    *)
LinkToQuarantine(g) ==
    /\ GcAt(g, "move") /\ GcReturn(g)
    /\ IF Bound(Obj(gc[g].slot)) THEN HardLink(Obj(gc[g].slot), Qua(gc[g].entry))
                                 ELSE UNCHANGED vol
    /\ UNCHANGED clock

MoveToQuarantine(g) ==
    /\ GcAt(g, "move") /\ GcReturn(g)
    /\ RenameIfThere(Obj(gc[g].slot), Qua(gc[g].entry))
    /\ UNCHANGED clock

(* evaluate_quarantine_entry: past the cooldown, the link count decides.   *)
Cooled(e) == e[1] + Cooldown <= clock

PurgesAlways(e) == "purge"   \* as a bug: the count is not read again
NextForEntry(e) == IF LinkCount(File(Qua(e))) > 1 THEN "resurrect" ELSE "purge"

StatEntry(g) == \E e \in Entries :
    /\ GcAt(g, "idle") /\ Bound(Qua(e))
    /\ Cooled(e)
    /\ gc' = [gc EXCEPT ![g] = [IdleGc EXCEPT !.pc = NextForEntry(e), !.entry = e]]
    /\ UNCHANGED <<vol, clock>>

(* rename(2) back to the slot's path, replacing what is there.             *)
Resurrect(g) ==
    /\ GcAt(g, "resurrect") /\ GcReturn(g)
    /\ RenameIfThere(Qua(gc[g].entry), Obj(gc[g].entry[2]))
    /\ UNCHANGED clock

Purge(g) ==
    /\ GcAt(g, "purge") /\ GcReturn(g)
    /\ Unlink(Qua(gc[g].entry))
    /\ UNCHANGED clock

(* A collector is killed.                                                  *)
GcAbort(g) == ~GcAt(g, "idle") /\ GcReturn(g) /\ UNCHANGED <<vol, clock>>

Tick == clock < MaxClock /\ clock' = clock + 1 /\ UNCHANGED <<vol, gc>>

GcStep(g) ==
    \/ StatSlot(g) \/ MoveToQuarantine(g)
    \/ StatEntry(g) \/ Resurrect(g) \/ Purge(g) \/ GcAbort(g)
=============================================================================
