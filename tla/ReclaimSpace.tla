---------------------------- MODULE ReclaimSpace ----------------------------
(***************************************************************************)
(* The whole system on one volume: ingest workers, garbage collectors, the *)
(* startup sweeper and the users of the workspace files, interleaved.      *)
(***************************************************************************)
EXTENDS Linkage, QuarantineGC

CONSTANTS
    Sweeping,   \* a startup sweeper may run at any time
    UserKinds,  \* what users do to files, among those below
    Quiet       \* users leave a file alone while a worker processes it

ASSUME UserModel ==
    /\ UserKinds \subseteq {"rewrite", "inplace", "delete"}
    /\ Sweeping \in BOOLEAN /\ Quiet \in BOOLEAN

VARIABLE saved  \* history: what each file's user did last

vars == <<vol, wk, retryq, gc, clock, saved>>

Read(t) == IF Bound(Ws(t)) THEN File(Ws(t)).data ELSE None

(* The workspace holds some files, no two of them linked; the store was    *)
(* just created.                                                           *)
Init ==
    /\ saved \in [Targets -> Contents]
    /\ vol = {[names |-> {Ws(t)}, data |-> saved[t], whole |-> TRUE, mode |-> "rw"] :
                 t \in Targets}
    /\ LinkInit /\ GcInit

-----------------------------------------------------------------------------
Busy(t)   == \E w \in Workers : wk[w].tgt = t
MayUse(t, kind) == kind \in UserKinds /\ (Quiet => ~Busy(t))
OthersUnchanged == UNCHANGED <<wk, retryq, gc, clock>>

(* Break-on-write: the editor writes a new file and moves it into place.   *)
Rewrite(t, c) ==
    /\ MayUse(t, "rewrite")
    /\ Create(Ws(t), c, TRUE, "rw")
    /\ saved' = [saved EXCEPT ![t] = c]
    /\ OthersUnchanged

(* The editor opens the file for writing, which its mode must permit.      *)
EditInPlace(t, c) ==
    /\ MayUse(t, "inplace")
    /\ Bound(Ws(t)) /\ File(Ws(t)).mode = "rw"
    /\ vol' = Replaced(vol, File(Ws(t)), [File(Ws(t)) EXCEPT !.data = c])
    /\ saved' = [saved EXCEPT ![t] = c]
    /\ OthersUnchanged

Delete(t) ==
    /\ MayUse(t, "delete")
    /\ Bound(Ws(t))
    /\ Unlink(Ws(t))
    /\ saved' = [saved EXCEPT ![t] = None]
    /\ OthersUnchanged

UserStep == \E t \in Targets :
    \/ \E c \in Contents : Rewrite(t, c) \/ EditInPlace(t, c)
    \/ Delete(t)

(* sweep_stale_tmp takes a file of tmp/ for stale if it is old, or younger *)
(* than the sweep's own notion of now: any of them, in effect.             *)
SweepStage(k) ==
    /\ Sweeping /\ Bound(Tmp(k))
    /\ Unlink(Tmp(k))
    /\ UNCHANGED <<wk, retryq, gc, clock, saved>>

Next ==
    \/ \E w \in Workers : WorkerStep(w) /\ UNCHANGED <<gc, clock, saved>>
    \/ \E g \in Gcs : GcStep(g) /\ UNCHANGED <<wk, retryq, saved>>
    \/ Tick /\ UNCHANGED <<wk, retryq, saved>>
    \/ UserStep
    \/ \E k \in Stages : SweepStage(k)

Spec == Init /\ [][Next]_vars

(* A worker that is scheduled goes on until it returns; nothing restarts it*)
(* or makes collectors and users run.                                      *)
FairSpec == Spec /\ \A w \in Workers : WF_vars(Progress(w) /\ UNCHANGED <<gc, clock, saved>>)
-----------------------------------------------------------------------------
(* Every variable has the shape the code gives it.                         *)
TypeOK == LinkTypeOK /\ GcTypeOK /\ saved \in [Targets -> Contents \cup {None}]

(* The workspace is transparent: no crash, no lost race and no collector   *)
(* decision changes what a workspace file holds, or whether it is there    *)
(* (link_to_master, swap, sweep_objects, sweep_quarantine).                *)
Seen == [t \in Targets |-> Read(t)]
Abstract == INSTANCE Workspace WITH seen <- Seen
Transparent == Abstract!Spec

(* A slot, in objects/ or in quarantine/, holds a complete file with the   *)
(* content its name is the digest of, whatever was killed while publishing *)
(* or spilling (publish_new_master, spill_slot).                           *)
Intact(f, d) == f.whole /\ f.data = d
SlotIntegrity == \A f \in vol :
    /\ \A s \in Slots   : Obj(s) \in f.names => Intact(f, s[1])
    /\ \A e \in Entries : Qua(e) \in f.names => Intact(f, e[2][1])

(* The link count is a reference count: a file of the store has one name   *)
(* in it, so every other link is a workspace file or a link on its way     *)
(* there (store.rs, gc.rs and spill_slot all decide by st_nlink).          *)
StoreNames == {"objects", "tmp", "quarantine"}
OneStoreName == \A f \in vol : \A p, q \in f.names :
    p[1] \in StoreNames /\ q[1] \in StoreNames => p = q

(* The name <target>.tmp_link is also a lock: hard_link fails if it is     *)
(* there, so of all workers on one file only one is about to swap it, and  *)
(* the link it swaps in is the one it made (link_to_master).               *)
OneSwapper == \A w \in Workers : At(w, "swap") =>
    /\ Bound(Lnk(wk[w].tgt))
    /\ \A v \in Workers \ {w} : At(v, "swap") => wk[v].tgt # wk[w].tgt

(* A deduplicated file stays so until its user acts: no publication, spill *)
(* or collector decision drops the store's name from under a live link     *)
(* (publish_new_master, spill_slot, evaluate_quarantine_entry).            *)
Held(f) == \E p \in f.names : p[1] \in {"objects", "quarantine"}
HasSlot(r) == \E f \in vol : r \in f.names /\ Held(f)
Deduplicated(t) == HasSlot(Ws(t))
StaysDeduplicated ==
    [][(\A t \in Targets : Deduplicated(t) => Deduplicated(t)') \/ UserStep]_vars

(* Where renames do replace, a link loses its slot only as the very slot it*)
(* is a link to is replaced: by another worker's publication, by another   *)
(* worker's spill, or by an entry that is brought back.  A swap puts a     *)
(* temporary link that lost its slot this way in the place of the file     *)
(* (atomic_rename_noreplace, spill_slot, evaluate_quarantine_entry).       *)
Replaces(s) ==
    \/ \E w \in Workers : PublishRename(w) /\ s = Slot(w)
    \/ \E w \in Workers : SpillMove(w) /\ s = NextSlot(w)
    \/ \E g \in Gcs : Resurrect(g) /\ s = gc[g].entry[2]
LosesItsSlot(r) == HasSlot(r) /\ ~HasSlot(r)'
SlotIsReplaced(r) == \E s \in Slots : Bound(Obj(s)) /\ r \in File(Obj(s)).names /\ Replaces(s)
SwapsOrphanIn(t) == \E w \in Workers :
    wk[w].tgt = t /\ Bound(Lnk(t)) /\ ~HasSlot(Lnk(t)) /\ Swap(w)
PartedByReplacementOnly == [][\A t \in Targets :
    /\ LosesItsSlot(Ws(t)) => UserStep \/ SlotIsReplaced(Ws(t)) \/ SwapsOrphanIn(t)
    /\ LosesItsSlot(Lnk(t)) /\ Bound(Lnk(t))' => SlotIsReplaced(Lnk(t))]_vars

(* A file in quarantine never gains a link: workers take slots from        *)
(* objects/ only, so the count that sweep_quarantine reads stays an upper  *)
(* bound until it acts.                                                    *)
QuarantineGainsNoLink ==
    [][\A e \in Entries : Bound(Qua(e)) /\ Bound(Qua(e))' =>
          Links(File(Qua(e)))' <= Links(File(Qua(e)))]_vars

(* The collector unlinks only files that nothing refers to any more: when  *)
(* a purge is carried out the entry's name is the last one.                *)
PurgesOrphansOnly ==
    \A g \in Gcs : GcAt(g, "purge") /\ Bound(Qua(gc[g].entry)) =>
                       Links(File(Qua(gc[g].entry))) = 1

(* The ceiling is checked before the link is made, so concurrent workers   *)
(* may overshoot it, but by no more than one link each.                    *)
CeilingOvershoot ==
    \A s \in Slots : Bound(Obj(s)) =>
        Links(File(Obj(s))) < MaxLinks + Cardinality(Workers)

(* The slots of a digest are contiguous: lookup stops at the first gap.    *)
Contiguous == \A d \in Contents : \A n \in 1 .. MaxSlot : Exists(d, n) => Exists(d, n - 1)

(* A worker that took a file always returns: workers, collectors and users *)
(* never make one wait, and the walk over the slots ends.                  *)
WorkersReturn == \A w \in Workers : ~At(w, "idle") ~> At(w, "idle")
=============================================================================
