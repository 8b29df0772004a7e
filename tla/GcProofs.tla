------------------------------ MODULE GcProofs ------------------------------
(***************************************************************************)
(* What names and link counts are worth.  A file has one name in the store,*)
(* a file in quarantine gains no link, and a purge takes the last name of  *)
(* an orphan; the ceiling is exceeded by less than one link for each       *)
(* worker; a file that is deduplicated stays so unless a rename replaces   *)
(* the slot it is a link to; and the slots of a digest are contiguous      *)
(* unless a collector takes one away.                                      *)
(***************************************************************************)
EXTENDS TypeProofs, FiniteSetTheorems

InStore(r) == r[1] \in StoreNames
IsQua(r)   == \E e \in Entries : r = Qua(e)

(* The names of f, or these with one of them exchanged for another.        *)
NoMoreNames(g, f) ==
    \/ g.names \subseteq f.names
    \/ \E p \in f.names : \E q : g.names \subseteq (f.names \ {p}) \cup {q} /\ p \notin g.names

(* A file in quarantine was there before, with as many links, unless it is *)
(* there as one of the entries E.                                          *)
NoGains(E) ==
    \A g \in vol' : \A e \in Entries \ E : Qua(e) \in g.names =>
        \E f \in vol : Qua(e) \in f.names /\ NoMoreNames(g, f)

LEMMA StorePlaces ==
    ASSUME NEW t, NEW s, NEW k, NEW e
    PROVE  /\ ~InStore(Ws(t)) /\ ~InStore(Lnk(t))
           /\ InStore(Obj(s)) /\ InStore(Tmp(k)) /\ InStore(Qua(e))
           /\ ~IsQua(Ws(t)) /\ ~IsQua(Lnk(t)) /\ ~IsQua(Obj(s)) /\ ~IsQua(Tmp(k))
           /\ Obj(s) # Qua(e)
  BY DEF InStore, StoreNames, IsQua, Ws, Lnk, Obj, Tmp, Qua
-----------------------------------------------------------------------------
(* What each filesystem operation does to the names in the store.          *)

LEMMA ShrunkNames ==
    ASSUME OneStoreName, \A g \in vol' : \E f \in vol : g.names \subseteq f.names
    PROVE  OneStoreName' /\ NoGains({})
  BY DEF OneStoreName, NoGains, NoMoreNames

LEMMA UnlinkNames ==
    ASSUME TypeInv, OneStoreName, NEW p, Unlink(p)
    PROVE  OneStoreName' /\ NoGains({})
  <1>1. Traced(vol, vol', p, p)
    BY UnlinkStep DEF TypeInv
  <1> QED BY <1>1, ShrunkNames DEF Traced

LEMMA ChmodNames ==
    ASSUME TypeInv, OneStoreName, NEW p, NEW m \in {"rw", "ro"}, Chmod(p, m)
    PROVE  OneStoreName' /\ NoGains({})
  <1>1. Traced(vol, vol', p, p)
    BY ChmodStep DEF TypeInv
  <1> QED BY <1>1, ShrunkNames DEF Traced

LEMMA SameNames ==
    ASSUME OneStoreName, UNCHANGED vol
    PROVE  OneStoreName' /\ NoGains({})
  BY ShrunkNames

LEMMA CreateNames ==
    ASSUME TypeInv, OneStoreName, NEW p \in Names, ~IsQua(p),
           NEW d \in Contents, NEW b \in BOOLEAN, NEW m \in {"rw", "ro"}, Create(p, d, b, m)
    PROVE  OneStoreName' /\ NoGains({})
  <1>1. \A g \in vol' : g.names = {p} \/ \E f \in vol : g.names \subseteq f.names
    BY CreateStep DEF TypeInv
  <1>2. OneStoreName'
    BY <1>1 DEF OneStoreName
  <1>3. NoGains({})
    BY <1>1 DEF NoGains, NoMoreNames, IsQua
  <1> QED BY <1>2, <1>3

(* A file may move into the store only from there.                         *)
LEMMA RenameNames ==
    ASSUME TypeInv, OneStoreName, NEW p, Bound(p), NEW q \in Names, Rename(p, q),
           InStore(q) => InStore(p)
    PROVE  OneStoreName' /\ \A E : (\A e \in Entries \ E : q # Qua(e)) => NoGains(E)
  <1>1. Traced(vol, vol', p, q)
    BY RenameStep DEF TypeInv
  <1>2. CASE vol' = vol
    BY <1>2 DEF OneStoreName, NoGains, NoMoreNames
  <1>3. CASE \A g \in vol' : p \notin g.names
    <2>1. ASSUME NEW g \in vol', NEW r \in g.names, NEW s \in g.names,
                 InStore(r), InStore(s)
          PROVE  r = s
      <3>1. PICK f \in vol : \A x \in g.names : x \in f.names \/ (x = q /\ p \in f.names)
        BY <1>1 DEF Traced
      <3>2. CASE r \in f.names /\ s \in f.names
        BY <2>1, <3>2 DEF OneStoreName, InStore
      <3>3. CASE r = q /\ p \in f.names /\ s \in f.names
        <4>1. p = s
          BY <2>1, <3>3 DEF OneStoreName, InStore
        <4> QED BY <1>3, <4>1
      <3>4. CASE s = q /\ p \in f.names /\ r \in f.names
        <4>1. p = r
          BY <2>1, <3>4 DEF OneStoreName, InStore
        <4> QED BY <1>3, <4>1
      <3> QED BY <3>1, <3>2, <3>3, <3>4
    <2>2. OneStoreName'
      BY <2>1 DEF OneStoreName, InStore
    <2>3. ASSUME NEW E, \A e \in Entries \ E : q # Qua(e),
                 NEW g \in vol', NEW e \in Entries \ E, Qua(e) \in g.names
          PROVE  \E f \in vol : Qua(e) \in f.names /\ NoMoreNames(g, f)
      <3>1. PICK f \in vol : \A x \in g.names : x \in f.names \/ (x = q /\ p \in f.names)
        BY <1>1 DEF Traced
      <3>2. Qua(e) \in f.names
        BY <2>3, <3>1
      <3>3. p \notin g.names
        BY <1>3
      <3>4. CASE p \in f.names
        BY <3>1, <3>2, <3>3, <3>4 DEF NoMoreNames
      <3>5. CASE p \notin f.names
        BY <3>1, <3>2, <3>5 DEF NoMoreNames
      <3> QED BY <3>4, <3>5
    <2> QED BY <2>2, <2>3 DEF NoGains
  <1> QED BY <1>2, <1>3, RenameStep DEF TypeInv

(* A master is linked, and a file in quarantine is no master.              *)
LEMMA LinkNames ==
    ASSUME TypeInv, OneStoreName, NEW s \in Slots, NEW t \in Targets,
           Bound(Obj(s)), ~Bound(Lnk(t)), HardLink(Obj(s), Lnk(t))
    PROVE  OneStoreName' /\ NoGains({})
  <1>1. Traced(vol, vol', Obj(s), Lnk(t))
    BY NamesOf, HardLinkStep DEF TypeInv
  <1>2. OneStoreName'
    BY <1>1, StorePlaces DEF OneStoreName, Traced, InStore
  <1>3. ASSUME NEW g \in vol', NEW e \in Entries, Qua(e) \in g.names
        PROVE  \E f \in vol : Qua(e) \in f.names /\ NoMoreNames(g, f)
    <2>1. PICK f \in vol : \A x \in g.names : x \in f.names \/ (x = Lnk(t) /\ Obj(s) \in f.names)
      BY <1>1 DEF Traced
    <2>2. Qua(e) \in f.names
      BY <1>3, <2>1, StorePlaces DEF IsQua
    <2>3. Obj(s) \notin f.names
      BY <2>2, StorePlaces DEF OneStoreName, InStore
    <2> QED BY <2>1, <2>2, <2>3 DEF NoMoreNames
  <1> QED BY <1>2, <1>3 DEF NoGains
-----------------------------------------------------------------------------
(* Steps of workers, users, the sweeper and collectors.                    *)

LEMMA WorkerNames ==
    ASSUME TypeInv, OneStoreName, NEW w \in Workers, WorkerStep(w)
    PROVE  OneStoreName' /\ NoGains({})
  <1>0. IsVolume(vol) /\ WkOK
    BY DEF TypeInv
  <1>1. CASE ReadsOnly
    BY <1>1, SameNames DEF ReadsOnly
  <1>2. ASSUME NEW f \in vol, NEW pc \in {"fill", "spillFill"}, StageCopy(w, f, pc)
        PROVE  OneStoreName' /\ NoGains({})
    <2>1. PICK k \in Stages : Create(Tmp(k), f.data, FALSE, f.mode)
      BY <1>2 DEF StageCopy
    <2>2. PICK d \in Contents, m \in {"rw", "ro"} : d = f.data /\ m = f.mode
      BY <1>0 DEF IsVolume, Files
    <2>3. PICK p \in Names, b \in BOOLEAN : p = Tmp(k) /\ Create(p, d, b, m)
      BY <2>1, <2>2, NamesOf
    <2> QED BY <2>3, CreateNames, StorePlaces
  <1>3. CASE SpillFill(w) \/ StageFill(w)
    <2>1. \A g \in vol' : \E f \in vol : g.names = f.names
      BY <1>3, FillVolume DEF SpillFill, StageFill
    <2> QED BY <2>1, ShrunkNames
  <1>4. CASE Unlink(MyStage(w))
    BY <1>4, UnlinkNames
  <1>5. ASSUME NEW s \in Slots, Bound(MyStage(w)), Rename(MyStage(w), Obj(s))
        PROVE  OneStoreName' /\ NoGains({})
    BY <1>5, NamesOf, RenameNames, StorePlaces DEF MyStage, IsQua
  <1>6. ASSUME wk[w].pc # "idle", MoveIn(w)
        PROVE  OneStoreName' /\ NoGains({})
    BY <1>0, <1>5, <1>6, SlotOfWorker, SameNames DEF MoveIn
  <1>7. CASE Digest(w) \/ Lookup(w) \/ Redigest(w) \/ Acquire(w) \/ ExistsCheck(w)
             \/ Abort(w) \/ LinkBusy(w)
    BY <1>1, <1>7, SameNames
    DEF Digest, Lookup, Redigest, Acquire, ExistsCheck, Abort, LinkBusy
  <1>8. CASE Spill(w)
    BY <1>0, <1>1, <1>2, <1>8, FileOfName DEF Spill
  <1>9. CASE SpillCheck(w)
    BY <1>4, <1>9, SameNames DEF SpillCheck
  <1>10. CASE SpillMove(w)
    <2>1. NextSlot(w) \in Slots
      BY <1>0, <1>10, SlotOfWorker DEF SpillMove, At, SpillPcs
    <2> QED BY <1>5, <1>10, <2>1, SameNames DEF SpillMove
  <1>11. CASE Stage(w)
    BY <1>0, <1>1, <1>2, <1>11, FileOfName DEF Stage
  <1>12. CASE Publish(w) \/ PublishRename(w) \/ PublishFails(w)
    BY <1>4, <1>6, <1>12, SameNames DEF Publish, PublishRename, PublishFails, At
  <1>13. CASE LockMaster(w) \/ Strip(w) \/ Relock(w)
    BY <1>13, ChmodNames DEF LockMaster, Strip, Relock, EnforceReadOnly
  <1>14. CASE Link(w)
    <2>1. wk[w].tgt \in Targets /\ Slot(w) \in Slots
      BY <1>0, <1>14, SlotOfWorker DEF Link, At, WkOK, WorkerOK
    <2> QED BY <1>14, <2>1, LinkNames, SameNames DEF Link
  <1>15. CASE Swap(w)
    <2>1. wk[w].tgt \in Targets
      BY <1>0, <1>15 DEF Swap, At, WkOK, WorkerOK
    <2> QED
      BY <1>15, <2>1, NamesOf, RenameNames, SameNames, StorePlaces DEF Swap, IsQua
  <1>16. CASE SwapFails(w)
    BY <1>16, UnlinkNames DEF SwapFails
  <1> QED
    BY <1>3, <1>7, <1>8, <1>9, <1>10, <1>11, <1>12, <1>13, <1>14, <1>15, <1>16
    DEF WorkerStep, Progress, Failure

LEMMA UserNames ==
    ASSUME TypeInv, OneStoreName, UserStep \/ \E k \in Stages : SweepStage(k)
    PROVE  OneStoreName' /\ NoGains({})
  <1>0. IsVolume(vol)
    BY DEF TypeInv
  <1>1. ASSUME NEW t \in Targets, NEW c \in Contents, Rewrite(t, c)
        PROVE  OneStoreName' /\ NoGains({})
    <2>1. PICK b \in BOOLEAN, m \in {"rw", "ro"} : Create(Ws(t), c, b, m)
      BY <1>1 DEF Rewrite
    <2> QED BY <2>1, NamesOf, CreateNames, StorePlaces
  <1>2. ASSUME NEW t \in Targets, NEW c \in Contents, EditInPlace(t, c)
        PROVE  OneStoreName' /\ NoGains({})
    <2> DEFINE f == File(Ws(t))
               h == [f EXCEPT !.data = c]
    <2>1. f \in vol /\ vol' = Replaced(vol, f, h)
      BY <1>0, <1>2, FileOfName DEF EditInPlace
    <2>2. f \in Files
      BY <1>0, <2>1 DEF IsVolume
    <2>3. h.names = f.names
      BY <2>2 DEF Files
    <2> HIDE DEF f, h
    <2> QED BY <2>1, <2>3, ShrunkNames DEF Replaced
  <1>3. ASSUME NEW t \in Targets, Delete(t)
        PROVE  OneStoreName' /\ NoGains({})
    BY <1>3, UnlinkNames DEF Delete
  <1>4. ASSUME NEW k \in Stages, SweepStage(k)
        PROVE  OneStoreName' /\ NoGains({})
    BY <1>4, UnlinkNames DEF SweepStage
  <1> QED BY <1>1, <1>2, <1>3, <1>4 DEF UserStep

LEMMA GcNames ==
    ASSUME TypeInv, OneStoreName, NEW g \in Gcs, GcStep(g)
    PROVE  /\ OneStoreName'
           /\ MoveToQuarantine(g) => NoGains({gc[g].entry})
           /\ ~MoveToQuarantine(g) => NoGains({})
  <1>0. GcOK(g)
    BY DEF TypeInv, GcsOK
  <1>1. CASE StatSlot(g) \/ StatEntry(g) \/ GcAbort(g)
    <2>1. UNCHANGED vol
      BY <1>1 DEF StatSlot, StatEntry, GcAbort
    <2> QED BY <2>1, SameNames DEF NoGains
  <1>2. CASE MoveToQuarantine(g)
    <2>1. gc[g].slot \in Slots /\ Qua(gc[g].entry) \in Names
      BY <1>0, <1>2, NamesOf DEF MoveToQuarantine, GcAt, GcOK
    <2>2. \A e : e # gc[g].entry => Qua(gc[g].entry) # Qua(e)
      BY DEF Qua
    <2>3. CASE Bound(Obj(gc[g].slot))
      <3>1. Rename(Obj(gc[g].slot), Qua(gc[g].entry))
        BY <1>2, <2>3 DEF MoveToQuarantine, RenameIfThere
      <3> QED BY <1>2, <2>1, <2>2, <2>3, <3>1, RenameNames, StorePlaces
    <2>4. CASE ~Bound(Obj(gc[g].slot))
      <3>1. UNCHANGED vol
        BY <1>2, <2>4 DEF MoveToQuarantine, RenameIfThere
      <3> QED BY <1>2, <3>1, SameNames DEF NoGains
    <2> QED BY <2>3, <2>4
  <1>3. CASE Resurrect(g)
    <2>1. Obj(gc[g].entry[2]) \in Names
      BY <1>0, <1>3, NamesOf DEF Resurrect, GcAt, GcOK, Entries
    <2>2. ~MoveToQuarantine(g)
      BY <1>3 DEF Resurrect, MoveToQuarantine, GcAt
    <2> QED
      BY <1>3, <2>1, <2>2, RenameNames, SameNames, StorePlaces
      DEF Resurrect, RenameIfThere, IsQua
  <1>4. CASE Purge(g)
    <2>1. ~MoveToQuarantine(g)
      BY <1>4 DEF Purge, MoveToQuarantine, GcAt
    <2> QED BY <1>4, <2>1, UnlinkNames DEF Purge
  <1> QED BY <1>1, <1>2, <1>3, <1>4 DEF GcStep

LEMMA NextNames ==
    ASSUME TypeInv, OneStoreName, [Next]_vars
    PROVE  OneStoreName'
  BY WorkerNames, UserNames, GcNames, SameNames DEF Next, Tick, vars

(* A file has one name in the store, or its links are counted twice        *)
(* (store.rs, gc.rs).                                                      *)
THEOREM StoreNamesAreUnique == Spec => []OneStoreName
  <1>1. Init => OneStoreName
    BY StorePlaces DEF Init, OneStoreName, InStore
  <1>2. TypeInv /\ OneStoreName /\ [Next]_vars => OneStoreName'
    BY NextNames
  <1> QED BY <1>1, <1>2, TypesInvariant, PTL DEF Spec
-----------------------------------------------------------------------------
(* Stamps.  A quarantine entry is named by the time of the stat that found *)
(* the orphan; no entry is made twice, so one that is about to be purged   *)
(* is not about to be made.                                                *)
Stamped ==
    /\ \A e \in Entries : Bound(Qua(e)) => e[1] < clock
    /\ \A g \in Gcs : ~GcAt(g, "idle") => gc[g].entry[1] < clock
    /\ \A g \in Gcs : GcAt(g, "move") => ~Bound(Qua(gc[g].entry))
    /\ \A g, h \in Gcs : g # h /\ GcAt(g, "move") /\ GcAt(h, "move") =>
                             gc[g].entry # gc[h].entry

(* What a collector is about to purge is an orphan, and stays one.         *)
Orphans ==
    \A g \in Gcs : GcAt(g, "purge") =>
        /\ \A h \in Gcs : GcAt(h, "move") => gc[h].entry # gc[g].entry
        /\ CountsLinks => \A f \in vol : Qua(gc[g].entry) \in f.names =>
                              f.names = {Qua(gc[g].entry)}

LEMMA NoGainsKeeps ==
    ASSUME TypeInv, NEW E, NoGains(E)
    PROVE  \A e \in Entries \ E :
              /\ Bound(Qua(e))' => Bound(Qua(e))
              /\ (\A f \in vol : Qua(e) \in f.names => f.names = {Qua(e)})
                 => \A f \in vol' : Qua(e) \in f.names => f.names = {Qua(e)}
  <1> SUFFICES ASSUME NEW e \in Entries \ E
               PROVE  /\ Bound(Qua(e))' => Bound(Qua(e))
                      /\ (\A f \in vol : Qua(e) \in f.names => f.names = {Qua(e)})
                         => \A f \in vol' : Qua(e) \in f.names => f.names = {Qua(e)}
    OBVIOUS
  <1>1. Bound(Qua(e))' => Bound(Qua(e))
    BY DEF NoGains, Bound, Qua
  <1>2. ASSUME \A f \in vol : Qua(e) \in f.names => f.names = {Qua(e)},
               NEW g \in vol', Qua(e) \in g.names
        PROVE  g.names = {Qua(e)}
    <2>1. PICK f \in vol : Qua(e) \in f.names /\ NoMoreNames(g, f)
      BY <1>2 DEF NoGains
    <2>2. f.names = {Qua(e)}
      BY <1>2, <2>1
    <2> QED BY <1>2, <2>1, <2>2 DEF NoMoreNames
  <1> QED BY <1>1, <1>2

(* A step that no collector and no clock takes part in.                    *)
LEMMA GcUntouched ==
    ASSUME TypeInv, Stamped, Orphans, NoGains({}), UNCHANGED <<gc, clock>>
    PROVE  Stamped' /\ Orphans'
  <1>1. \A g \in Gcs : GcAt(g, "move") \/ GcAt(g, "purge") => gc[g].entry \in Entries
    BY DEF TypeInv, GcsOK, GcOK, GcAt
  <1>2. Stamped'
    BY <1>1, NoGainsKeeps DEF Stamped, GcAt, Bound, Qua
  <1>3. Orphans'
    BY <1>1, NoGainsKeeps DEF Orphans, GcAt, Qua
  <1> QED BY <1>2, <1>3

(* A collector that has done what it meant to do.                          *)
LEMMA GcDone ==
    ASSUME TypeInv, Stamped, Orphans, NEW g \in Gcs, GcReturn(g), UNCHANGED clock,
           \/ NoGains({})
           \/ GcAt(g, "move") /\ NoGains({gc[g].entry})
    PROVE  Stamped' /\ Orphans'
  <1>1. \A h \in Gcs : GcAt(h, "move") \/ GcAt(h, "purge") => gc[h].entry \in Entries
    BY DEF TypeInv, GcsOK, GcOK, GcAt
  <1>2. /\ gc'[g].pc = "idle" /\ \A h \in Gcs \ {g} : gc'[h] = gc[h]
        /\ clock' = clock
    BY DEF GcReturn, IdleGc, TypeInv, GcsOK, GcTypeOK
  <1>3. PICK E : /\ E = {} \/ (GcAt(g, "move") /\ E = {gc[g].entry})
                 /\ NoGains(E)
    OBVIOUS
  <1>4. ASSUME NEW h \in Gcs \ {g}, GcAt(h, "move") \/ GcAt(h, "purge")
        PROVE  gc[h].entry \in Entries \ E
    BY <1>1, <1>3, <1>4 DEF Stamped, Orphans
  <1>5. \A e \in Entries : Bound(Qua(e))' => e[1] < clock'
    BY <1>2, <1>3, NoGainsKeeps DEF Stamped, GcAt
  <1>6. Stamped'
    BY <1>2, <1>3, <1>4, <1>5, NoGainsKeeps DEF Stamped, GcAt, Bound, Qua
  <1>7. Orphans'
    BY <1>2, <1>3, <1>4, NoGainsKeeps DEF Orphans, GcAt, Qua
  <1> QED BY <1>6, <1>7

LEMMA NamesAreFinite ==
    ASSUME NEW N \in SUBSET Names
    PROVE  IsFiniteSet(N)
  <1>1. IsFiniteSet({"workspace", "tmp_link"} \X Targets)
    <2>1. IsFiniteSet({"workspace"}) /\ IsFiniteSet({"tmp_link"})
      BY FS_Singleton
    <2>2. IsFiniteSet({"workspace"} \cup {"tmp_link"})
      BY <2>1, FS_Union
    <2>3. {"workspace"} \cup {"tmp_link"} = {"workspace", "tmp_link"}
      OBVIOUS
    <2>4. IsFiniteSet({"workspace", "tmp_link"})
      BY <2>2, <2>3
    <2> QED BY <2>4, FinitelyManyNames, FS_Product
  <1>2. IsFiniteSet(Slots) /\ IsFiniteSet(Entries)
    <2>1. IsFiniteSet(0 .. MaxSlot) /\ IsFiniteSet(Times)
      BY Constants, FS_Interval DEF Times
    <2>2. IsFiniteSet(Slots)
      BY <2>1, FinitelyManyNames, FS_Product DEF Slots
    <2> QED BY <2>1, <2>2, FS_Product DEF Entries
  <1>3. ASSUME NEW x, NEW S, IsFiniteSet(S) PROVE IsFiniteSet({x} \X S)
    BY <1>3, FS_Singleton, FS_Product
  <1>4. IsFiniteSet({"objects"} \X Slots) /\ IsFiniteSet({"quarantine"} \X Entries)
        /\ IsFiniteSet({"tmp"} \X Stages)
    BY <1>2, <1>3, FinitelyManyNames
  <1>5. IsFiniteSet(({"workspace", "tmp_link"} \X Targets) \cup ({"objects"} \X Slots))
    BY <1>1, <1>4, FS_Union
  <1>6. IsFiniteSet(({"workspace", "tmp_link"} \X Targets) \cup ({"objects"} \X Slots)
                    \cup ({"tmp"} \X Stages))
    BY <1>4, <1>5, FS_Union
  <1>7. IsFiniteSet(Names)
    BY <1>4, <1>6, FS_Union DEF Names
  <1> QED BY <1>7, FS_Subset

LEMMA NoMoreLinks ==
    ASSUME NEW f, NEW g, IsFiniteSet(f.names), IsFiniteSet(g.names), NoMoreNames(g, f)
    PROVE  Cardinality(g.names) <= Cardinality(f.names)
  <1>1. CASE g.names \subseteq f.names
    BY <1>1, FS_Subset
  <1>2. CASE \E p \in f.names : \E q : g.names \subseteq (f.names \ {p}) \cup {q}
    <2>0. PICK p \in f.names : \E q : g.names \subseteq (f.names \ {p}) \cup {q}
      BY <1>2
    <2>1. PICK q : g.names \subseteq (f.names \ {p}) \cup {q}
      BY <2>0
    <2> DEFINE R == f.names \ {p}
    <2>2. IsFiniteSet(R) /\ Cardinality(R) = Cardinality(f.names) - 1
      BY FS_RemoveElement
    <2>3. /\ IsFiniteSet(R \cup {q})
          /\ Cardinality(R \cup {q}) = Cardinality(R)
             \/ Cardinality(R \cup {q}) = Cardinality(R) + 1
      BY <2>2, FS_AddElement
    <2>4. Cardinality(g.names) <= Cardinality(R \cup {q})
      BY <2>1, <2>3, FS_Subset
    <2>5. /\ Cardinality(f.names) \in Nat /\ Cardinality(R \cup {q}) \in Nat
          /\ Cardinality(g.names) \in Nat
      BY <2>3, FS_CardinalityType
    <2> QED BY <2>2, <2>3, <2>4, <2>5
  <1> QED BY <1>1, <1>2 DEF NoMoreNames

LEMMA StatSlotStamps ==
    ASSUME TypeInv, Stamped, Orphans, NEW g \in Gcs, StatSlot(g)
    PROVE  Stamped' /\ Orphans'
  <1>0. clock \in Nat /\ gc \in [Gcs -> GcStates]
    BY Constants DEF TypeInv, GcsOK, GcTypeOK, Times
  <1>1. PICK s \in Slots :
           /\ GcAt(g, "idle") /\ clock < MaxClock /\ clock' = clock + 1
           /\ gc' = [gc EXCEPT ![g] = [IdleGc EXCEPT !.pc = "move", !.slot = s,
                                                     !.entry = <<clock, s>>]]
           /\ UNCHANGED vol
    BY DEF StatSlot
  <1>2. /\ gc'[g].pc = "move" /\ gc'[g].entry = <<clock, s>>
        /\ \A h \in Gcs \ {g} : gc'[h] = gc[h]
    BY <1>0, <1>1 DEF IdleGc
  <1>3. <<clock, s>> \in Entries /\ <<clock, s>>[1] = clock
    BY <1>0, <1>1, Constants DEF Entries, TypeInv, GcsOK, GcTypeOK
  <1>4. \A e \in Entries : e[1] \in Nat
    BY Constants DEF Entries, Times
  <1>5. \A e \in Entries : Bound(Qua(e))' = Bound(Qua(e))
    BY <1>1 DEF Bound, Qua
  <1>6. \A h \in Gcs : ~GcAt(h, "idle") => gc[h].entry \in Entries
    BY <1>0 DEF TypeInv, GcsOK, GcOK, GcAt, GcStates
  <1>7. ASSUME NEW h \in Gcs, ~GcAt(h, "idle") PROVE gc[h].entry # <<clock, s>>
    BY <1>0, <1>3, <1>7 DEF Stamped
  <1>8. ~Bound(Qua(<<clock, s>>))
    BY <1>0, <1>3 DEF Stamped
  <1>9. Stamped'
    <2>1. \A e \in Entries : Bound(Qua(e))' => e[1] < clock'
      BY <1>0, <1>1, <1>4, <1>5 DEF Stamped
    <2>2. ASSUME NEW h \in Gcs, ~GcAt(h, "idle")' PROVE gc'[h].entry[1] < clock'
      BY <1>0, <1>1, <1>2, <1>3, <1>4, <1>6, <2>2 DEF Stamped, GcAt
    <2>3. ASSUME NEW h \in Gcs, GcAt(h, "move")' PROVE ~Bound(Qua(gc[h].entry))'
      BY <1>1, <1>2, <1>8, <2>3 DEF Stamped, GcAt, Bound, Qua
    <2>4. ASSUME NEW h \in Gcs, NEW i \in Gcs, h # i, GcAt(h, "move")', GcAt(i, "move")'
          PROVE  gc'[h].entry # gc'[i].entry
      BY <1>2, <1>7, <2>4 DEF Stamped, GcAt
    <2> QED BY <2>1, <2>2, <2>3, <2>4 DEF Stamped
  <1>10. Orphans'
    BY <1>1, <1>2, <1>7 DEF Orphans, GcAt, Qua
  <1> QED BY <1>9, <1>10

LEMMA StatEntryStamps ==
    ASSUME TypeInv, Stamped, Orphans, NEW g \in Gcs, StatEntry(g)
    PROVE  Stamped' /\ Orphans'
  <1>0. gc \in [Gcs -> GcStates] /\ IsVolume(vol)
    BY DEF TypeInv, GcsOK, GcTypeOK
  <1>1. PICK e \in Entries :
           /\ GcAt(g, "idle") /\ Bound(Qua(e))
           /\ gc' = [gc EXCEPT ![g] = [IdleGc EXCEPT !.pc = NextForEntry(e), !.entry = e]]
           /\ UNCHANGED <<vol, clock>>
    BY DEF StatEntry
  <1>2. /\ gc'[g].pc = NextForEntry(e) /\ gc'[g].entry = e
        /\ \A h \in Gcs \ {g} : gc'[h] = gc[h]
    BY <1>0, <1>1 DEF IdleGc
  <1>3. NextForEntry(e) \in {"resurrect", "purge"}
    BY DEF NextForEntry
  <1>4. \A d : Bound(Qua(d))' = Bound(Qua(d))
    BY <1>1 DEF Bound, Qua
  <1>5. \A h \in Gcs : GcAt(h, "move") => gc[h].entry # e
    BY <1>1 DEF Stamped
  <1>6. Stamped'
    <2>1. e[1] < clock
      BY <1>1 DEF Stamped
    <2>2. ASSUME NEW h \in Gcs, ~GcAt(h, "idle")' PROVE gc'[h].entry[1] < clock'
      BY <1>1, <1>2, <2>1, <2>2 DEF Stamped, GcAt
    <2>3. \A h \in Gcs : GcAt(h, "move")' => h # g /\ GcAt(h, "move") /\ gc'[h] = gc[h]
      BY <1>2, <1>3 DEF GcAt
    <2>4. \A h \in Gcs : GcAt(h, "move")' => ~Bound(Qua(gc[h].entry))'
      BY <1>1, <2>3 DEF Stamped, Bound, Qua
    <2> QED BY <1>1, <1>4, <2>2, <2>3, <2>4 DEF Stamped
  <1>7. ASSUME CountsLinks, NextForEntry(e) = "purge",
               NEW f \in vol, Qua(e) \in f.names
        PROVE  f.names = {Qua(e)}
    <2>1. f = File(Qua(e))
      BY <1>0, <1>1, <1>7, FileOfName
    <2>2. ~(Cardinality(f.names) > 1)
      BY <1>7, <2>1 DEF NextForEntry, LinkCount, Links
    <2>3. IsFiniteSet(f.names)
      BY <1>0, NamesAreFinite DEF IsVolume, Files
    <2> DEFINE S == f.names \ {Qua(e)}
    <2>4. IsFiniteSet(S) /\ Cardinality(S) = Cardinality(f.names) - 1
      BY <1>7, <2>3, FS_RemoveElement
    <2>5. Cardinality(S) \in Nat /\ Cardinality(f.names) \in Nat
      BY <2>3, <2>4, FS_CardinalityType
    <2>6. Cardinality(S) = 0
      BY <2>2, <2>4, <2>5
    <2>7. S = {}
      BY <2>4, <2>6, FS_EmptySet
    <2> QED BY <1>7, <2>7
  <1>8. Orphans'
    <2>1. ASSUME NEW h \in Gcs, GcAt(h, "purge")'
          PROVE  /\ \A i \in Gcs : GcAt(i, "move")' => gc'[i].entry # gc'[h].entry
                 /\ CountsLinks => \A f \in vol' : Qua(gc'[h].entry) \in f.names =>
                                       f.names = {Qua(gc'[h].entry)}
      <3>1. CASE h = g
        BY <1>1, <1>2, <1>3, <1>5, <1>7, <2>1, <3>1 DEF GcAt
      <3>2. CASE h # g
        BY <1>1, <1>2, <1>3, <2>1, <3>2 DEF Orphans, GcAt
      <3> QED BY <3>1, <3>2
    <2> QED BY <2>1 DEF Orphans, Qua
  <1> QED BY <1>6, <1>8

LEMMA NextOrphans ==
    ASSUME TypeInv, OneStoreName, Stamped, Orphans, [Next]_vars
    PROVE  Stamped' /\ Orphans'
  <1>1. CASE \E w \in Workers : WorkerStep(w) /\ UNCHANGED <<gc, clock, saved>>
    BY <1>1, WorkerNames, GcUntouched
  <1>2. CASE \E g \in Gcs : GcStep(g) /\ UNCHANGED <<wk, retryq, saved>>
    <2>1. PICK g \in Gcs : GcStep(g)
      BY <1>2
    <2>2. CASE StatSlot(g) \/ StatEntry(g)
      BY <2>2, StatSlotStamps, StatEntryStamps
    <2>3. CASE MoveToQuarantine(g)
      BY <2>1, <2>3, GcNames, GcDone DEF MoveToQuarantine
    <2>4. CASE (Resurrect(g) \/ Purge(g) \/ GcAbort(g)) /\ ~MoveToQuarantine(g)
      BY <2>1, <2>4, GcNames, GcDone DEF Resurrect, Purge, GcAbort
    <2> QED BY <2>1, <2>2, <2>3, <2>4 DEF GcStep
  <1>3. CASE Tick
    <2>1. clock \in Nat /\ \A e \in Entries : e[1] \in Nat
      BY Constants DEF TypeInv, GcsOK, GcTypeOK, Times, Entries
    <2>2. \A h \in Gcs : ~GcAt(h, "idle") => gc[h].entry \in Entries
      BY DEF TypeInv, GcsOK, GcTypeOK, GcOK, GcAt, GcStates
    <2>3. UNCHANGED <<vol, gc>> /\ clock' = clock + 1
      BY <1>3 DEF Tick
    <2>4. Stamped'
      BY <2>1, <2>2, <2>3 DEF Stamped, GcAt, Bound, Qua
    <2>5. Orphans'
      BY <2>3 DEF Orphans, GcAt, Qua
    <2> QED BY <2>4, <2>5
  <1>4. CASE UserStep
    BY <1>4, UserNames, GcUntouched DEF UserStep, Rewrite, EditInPlace, Delete, OthersUnchanged
  <1>5. CASE \E k \in Stages : SweepStage(k)
    BY <1>5, UserNames, GcUntouched DEF SweepStage
  <1>6. CASE UNCHANGED vars
    BY <1>6, SameNames, GcUntouched DEF vars
  <1> QED BY <1>1, <1>2, <1>3, <1>4, <1>5, <1>6 DEF Next

LEMMA StampsInvariant == Spec => [](TypeInv /\ OneStoreName /\ Stamped /\ Orphans)
  <1>1. Init => Stamped /\ Orphans
    BY StorePlaces DEF Init, GcInit, IdleGc, Stamped, Orphans, GcAt, Bound
  <1>2. TypeInv /\ OneStoreName /\ Stamped /\ Orphans /\ [Next]_vars
        => Stamped' /\ Orphans'
    BY NextOrphans
  <1> QED BY <1>1, <1>2, TypesInvariant, StoreNamesAreUnique, PTL DEF Spec

(* On a platform that counts links, a purge that is carried out unlinks    *)
(* the last name of a file (sweep_quarantine).                             *)
THEOREM OrphansArePurged ==
    ASSUME CountsLinks PROVE Spec => []PurgesOrphansOnly
  <1>1. TypeInv /\ Orphans => PurgesOrphansOnly
    <2> SUFFICES ASSUME TypeInv, Orphans, NEW g \in Gcs,
                        GcAt(g, "purge"), Bound(Qua(gc[g].entry))
                 PROVE  Links(File(Qua(gc[g].entry))) = 1
      BY DEF PurgesOrphansOnly
    <2>1. File(Qua(gc[g].entry)).names = {Qua(gc[g].entry)}
      BY FileOfName DEF Orphans, TypeInv
    <2> QED BY <2>1, FS_Singleton DEF Links
  <1> QED BY <1>1, StampsInvariant, PTL

(* A file in quarantine gains no link, so the count that a collector reads *)
(* stays an upper bound until it acts (evaluate_quarantine_entry).         *)
THEOREM QuarantinedStaysApart == Spec => QuarantineGainsNoLink
  <1>1. ASSUME TypeInv, TypeInv', OneStoreName, Stamped, [Next]_vars,
               NEW e \in Entries, Bound(Qua(e)), Bound(Qua(e))'
        PROVE  Links(File(Qua(e)))' <= Links(File(Qua(e)))
    <2>1. PICK E : NoGains(E) /\ e \notin E
      <3>1. CASE \E g \in Gcs : MoveToQuarantine(g)
        <4>1. PICK g \in Gcs : MoveToQuarantine(g)
          BY <3>1
        <4>2. NoGains({gc[g].entry})
          BY <1>1, <4>1, GcNames DEF GcStep
        <4>3. Qua(gc[g].entry) # Qua(e)
          BY <1>1, <4>1 DEF Stamped, MoveToQuarantine
        <4> QED BY <4>2, <4>3
      <3>2. CASE ~\E g \in Gcs : MoveToQuarantine(g)
        <4>1. NoGains({})
          BY <1>1, <3>2, WorkerNames, UserNames, GcNames, SameNames DEF Next, Tick, vars
        <4> QED BY <4>1
      <3> QED BY <3>1, <3>2
    <2>2. PICK g \in vol' : Qua(e) \in g.names
      BY <1>1 DEF Bound, Qua
    <2>3. PICK f \in vol : Qua(e) \in f.names /\ NoMoreNames(g, f)
      BY <2>1, <2>2 DEF NoGains
    <2>4. f = File(Qua(e))
      BY <1>1, <2>3, FileOfName DEF TypeInv
    <2>5. g = File(Qua(e))'
      <3>1. \A h \in vol' : Qua(e) \in h.names => h = g
        BY <1>1, <2>2 DEF TypeInv, IsVolume
      <3> QED BY <2>2, <3>1 DEF File, Qua
    <2>6. IsFiniteSet(f.names) /\ IsFiniteSet(g.names)
      <3>1. f.names \in SUBSET Names /\ g.names \in SUBSET Names
        BY <1>1 DEF TypeInv, IsVolume, Files
      <3> QED BY <3>1, NamesAreFinite
    <2>7. Cardinality(g.names) <= Cardinality(f.names)
      BY <2>3, <2>6, NoMoreLinks
    <2> QED BY <2>4, <2>5, <2>7 DEF Links
  <1>2. TypeInv /\ TypeInv' /\ OneStoreName /\ Stamped /\ [Next]_vars =>
           \A e \in Entries : Bound(Qua(e)) /\ Bound(Qua(e))' =>
              Links(File(Qua(e)))' <= Links(File(Qua(e)))
    BY <1>1
  <1> QED BY <1>2, StampsInvariant, PTL DEF Spec, QuarantineGainsNoLink
-----------------------------------------------------------------------------
(* The ceiling.  Between the look at the count and the link, a worker is   *)
(* heading for a slot: it has accepted it, or is making it.  A slot has at *)
(* any time fewer links than the ceiling, but for those heading for it.    *)
Heads(w, s) ==
    \/ wk[w].pc \in {"strip", "link"} /\ Slot(w) = s
    \/ wk[w].pc \in SpillPcs /\ ~wk[w].uniq /\ NextSlot(w) = s
Heading(s) == {w \in Workers : Heads(w, s)}
RoomForAll == \A s \in Slots : \A f \in vol : Obj(s) \in f.names =>
    Cardinality(f.names) + Cardinality(Heading(s)) < MaxLinks + Cardinality(Workers)

(* A staged file has no other name, so a slot begins with one link.        *)
StagedAlone == \A f \in vol : \A k \in Stages : Tmp(k) \in f.names => f.names = {Tmp(k)}

(* What a step makes of the slots, but for those in S.                     *)
SlotsKept(S) ==
    \A g \in vol' : \A s \in Slots \ S : Obj(s) \in g.names =>
        \E f \in vol : Obj(s) \in f.names /\ NoMoreNames(g, f)
Fresh(s)  == \A g \in vol' : Obj(s) \in g.names => g.names = {Obj(s)}
OneMore(s) == \A g \in vol' : Obj(s) \in g.names =>
    \E f \in vol : Obj(s) \in f.names /\ \E q : g.names \subseteq f.names \cup {q}

LEMMA ShrunkSlots ==
    ASSUME StagedAlone, \A g \in vol' : \E f \in vol : g.names \subseteq f.names
    PROVE  StagedAlone' /\ SlotsKept({})
  <1>1. StagedAlone'
    BY DEF StagedAlone, Tmp
  <1>2. SlotsKept({})
    BY DEF SlotsKept, NoMoreNames
  <1> QED BY <1>1, <1>2

LEMMA CreateSlots ==
    ASSUME TypeInv, StagedAlone, NEW p \in Names, \A s : p # Obj(s),
           NEW d \in Contents, NEW b \in BOOLEAN, NEW m \in {"rw", "ro"}, Create(p, d, b, m)
    PROVE  StagedAlone' /\ SlotsKept({})
  <1>1. \A g \in vol' : g.names = {p} \/ \E f \in vol : g.names \subseteq f.names
    BY CreateStep DEF TypeInv
  <1>2. StagedAlone'
    BY <1>1 DEF StagedAlone, Tmp
  <1>3. SlotsKept({})
    BY <1>1 DEF SlotsKept, NoMoreNames
  <1> QED BY <1>2, <1>3

LEMMA RenameSlots ==
    ASSUME TypeInv, StagedAlone, NEW p, Bound(p), NEW q \in Names, Rename(p, q),
           \A k : q # Tmp(k)
    PROVE  StagedAlone' /\ \A S : (\A s \in Slots \ S : q # Obj(s)) => SlotsKept(S)
  <1>1. Traced(vol, vol', p, q)
    BY RenameStep DEF TypeInv
  <1>2. CASE vol' = vol
    BY <1>2, ShrunkSlots DEF SlotsKept
  <1>3. CASE \A g \in vol' : p \notin g.names
    <2>1. ASSUME NEW g \in vol', NEW k \in Stages, Tmp(k) \in g.names
          PROVE  g.names = {Tmp(k)}
      <3>1. PICK f \in vol : \A x \in g.names : x \in f.names \/ (x = q /\ p \in f.names)
        BY <1>1 DEF Traced
      <3>2. f.names = {Tmp(k)}
        BY <2>1, <3>1 DEF StagedAlone
      <3>3. p \notin f.names
        BY <1>3, <2>1, <3>2
      <3> QED BY <2>1, <3>1, <3>2, <3>3
    <2>2. StagedAlone'
      BY <2>1 DEF StagedAlone, Tmp
    <2>3. ASSUME NEW S, \A s \in Slots \ S : q # Obj(s),
                 NEW g \in vol', NEW s \in Slots \ S, Obj(s) \in g.names
          PROVE  \E f \in vol : Obj(s) \in f.names /\ NoMoreNames(g, f)
      <3>1. PICK f \in vol : \A x \in g.names : x \in f.names \/ (x = q /\ p \in f.names)
        BY <1>1 DEF Traced
      <3>2. Obj(s) \in f.names
        BY <2>3, <3>1
      <3>3. NoMoreNames(g, f)
        BY <1>3, <3>1 DEF NoMoreNames
      <3> QED BY <3>2, <3>3
    <2> QED BY <2>2, <2>3 DEF SlotsKept
  <1> QED BY <1>2, <1>3, RenameStep DEF TypeInv

(* A staged file that is moved to a slot's path has no other name there.   *)
LEMMA MovedInAlone ==
    ASSUME TypeInv, StagedAlone, NEW k \in Stages, Bound(Tmp(k)), NEW s \in Slots,
           Rename(Tmp(k), Obj(s))
    PROVE  Fresh(s)
  <1> DEFINE f == File(Tmp(k))
             g == [f EXCEPT !.names = (f.names \ {Tmp(k)}) \cup {Obj(s)}]
             V == vol \ {f}
             U == Unlinked(V, Obj(s))
  <1>1. f \in vol /\ Tmp(k) \in f.names /\ f \in Files
    BY FileOfName DEF TypeInv, IsVolume
  <1>2. f.names = {Tmp(k)} /\ Obj(s) # Tmp(k)
    BY <1>1, NamesDiffer DEF StagedAlone
  <1>3. vol' = U \cup {g}
    BY <1>2 DEF Rename
  <1>4. g.names = {Obj(s)}
    BY <1>1, <1>2 DEF Files
  <1>5. IsVolume(V)
    BY DEF TypeInv, IsVolume
  <1>6. ASSUME NEW u \in U PROVE Obj(s) \notin u.names
    <2>1. PICK e \in V : u = [e EXCEPT !.names = e.names \ {Obj(s)}]
      BY <1>5, UnlinkedVolume
    <2>2. e \in Files
      BY DEF TypeInv, IsVolume
    <2> QED BY <2>1, <2>2 DEF Files
  <1> HIDE DEF f, g, V, U
  <1> QED BY <1>3, <1>4, <1>6 DEF Fresh

LEMMA LinkSlots ==
    ASSUME TypeInv, OneStoreName, StagedAlone, NEW s \in Slots, NEW t \in Targets,
           Bound(Obj(s)), ~Bound(Lnk(t)), HardLink(Obj(s), Lnk(t))
    PROVE  StagedAlone' /\ SlotsKept({s}) /\ OneMore(s)
  <1>1. Traced(vol, vol', Obj(s), Lnk(t)) /\ IsVolume(vol)
    BY NamesOf, HardLinkStep DEF TypeInv
  <1>2. ASSUME NEW g \in vol'
        PROVE  \E f \in vol : /\ g.names \subseteq f.names \cup {Lnk(t)}
                              /\ Obj(s) \notin f.names => g.names \subseteq f.names
    BY <1>1 DEF Traced
  <1>3. \A x : Lnk(t) # Obj(x) /\ Lnk(t) # Tmp(x) /\ Obj(s) # Tmp(x) /\ (Obj(s) = Obj(x) => s = x)
    BY NamesDiffer
  <1>4. ASSUME NEW g \in vol', NEW k \in Stages, Tmp(k) \in g.names
        PROVE  g.names = {Tmp(k)}
    <2>1. PICK f \in vol : /\ g.names \subseteq f.names \cup {Lnk(t)}
                           /\ Obj(s) \notin f.names => g.names \subseteq f.names
      BY <1>2
    <2>2. f.names = {Tmp(k)}
      BY <1>3, <1>4, <2>1 DEF StagedAlone
    <2> QED BY <1>3, <1>4, <2>1, <2>2
  <1>5. StagedAlone'
    BY <1>4 DEF StagedAlone, Tmp
  <1>6. OneMore(s)
    BY <1>2, <1>3 DEF OneMore
  <1>7. SlotsKept({s})
    <2> SUFFICES ASSUME NEW g \in vol', NEW x \in Slots \ {s}, Obj(x) \in g.names
                 PROVE  \E f \in vol : Obj(x) \in f.names /\ NoMoreNames(g, f)
      BY DEF SlotsKept
    <2>1. PICK f \in vol : /\ g.names \subseteq f.names \cup {Lnk(t)}
                           /\ Obj(s) \notin f.names => g.names \subseteq f.names
      BY <1>2
    <2>2. Obj(x) \in f.names
      BY <1>3, <2>1
    <2>3. Obj(s) \notin f.names
      BY <1>3, <2>2, StorePlaces DEF OneStoreName, InStore
    <2> QED BY <2>1, <2>2, <2>3 DEF NoMoreNames
  <1> QED BY <1>5, <1>6, <1>7

LEMMA WorkerSlots ==
    ASSUME TypeInv, OneStoreName, StagedAlone, NEW w \in Workers, WorkerStep(w)
    PROVE  /\ StagedAlone'
           /\ \/ SlotsKept({})
              \/ Link(w) /\ wk'[w].pc = "swap" /\ SlotsKept({Slot(w)}) /\ OneMore(Slot(w))
              \/ /\ Publish(w) \/ PublishRename(w)
                 /\ wk'[w].pc = "lock" /\ SlotsKept({Slot(w)}) /\ Fresh(Slot(w))
              \/ SpillMove(w) /\ SlotsKept({NextSlot(w)}) /\ Fresh(NextSlot(w))
  <1>0. IsVolume(vol) /\ WkOK
    BY DEF TypeInv
  <1>1. ASSUME UNCHANGED vol
        PROVE  StagedAlone' /\ SlotsKept({})
    BY <1>1, ShrunkSlots
  <1>2. ASSUME NEW f \in vol, NEW pc \in {"fill", "spillFill"}, StageCopy(w, f, pc)
        PROVE  StagedAlone' /\ SlotsKept({})
    <2>1. PICK k \in Stages : Create(Tmp(k), f.data, FALSE, f.mode)
      BY <1>2 DEF StageCopy
    <2>2. PICK d \in Contents, m \in {"rw", "ro"} : d = f.data /\ m = f.mode
      BY <1>0 DEF IsVolume, Files
    <2>3. PICK p \in Names, b \in BOOLEAN : p = Tmp(k) /\ Create(p, d, b, m)
      BY <2>1, <2>2, NamesOf
    <2> QED BY <2>3, CreateSlots, NamesDiffer
  <1>3. CASE SpillFill(w) \/ StageFill(w)
    <2>1. \A g \in vol' : \E f \in vol : g.names = f.names
      BY <1>3, FillVolume DEF SpillFill, StageFill
    <2> QED BY <2>1, ShrunkSlots
  <1>4. ASSUME NEW p, Unlink(p)
        PROVE  StagedAlone' /\ SlotsKept({})
    BY <1>0, <1>4, UnlinkStep, ShrunkSlots DEF Traced
  <1>5. ASSUME NEW m \in {"rw", "ro"}, NEW p, Chmod(p, m)
        PROVE  StagedAlone' /\ SlotsKept({})
    BY <1>0, <1>5, ChmodStep, ShrunkSlots DEF Traced
  <1>6. ASSUME wk[w].pc \in StagePcs, NEW s \in Slots,
               Bound(MyStage(w)), Rename(MyStage(w), Obj(s))
        PROVE  StagedAlone' /\ SlotsKept({s}) /\ Fresh(s)
    <2>1. wk[w].stg \in Stages
      BY <1>0, <1>6 DEF WkOK, WorkerOK
    <2>2. PICK k \in Stages : k = wk[w].stg
      BY <2>1
    <2>3. Bound(Tmp(k)) /\ Rename(Tmp(k), Obj(s))
      BY <1>6, <2>2 DEF MyStage
    <2>4. StagedAlone' /\ SlotsKept({s})
      BY <2>3, NamesOf, RenameSlots, NamesDiffer
    <2> QED BY <2>3, <2>4, MovedInAlone
  <1>7. ASSUME wk[w].pc \in {"publish", "rename"}, MoveIn(w)
        PROVE  /\ StagedAlone'
               /\ \/ SlotsKept({})
                  \/ wk'[w].pc = "lock" /\ SlotsKept({Slot(w)}) /\ Fresh(Slot(w))
    <2>1. Slot(w) \in Slots
      BY <1>0, <1>7, SlotOfWorker
    <2>2. CASE Bound(MyStage(w))
      <3>1. wk'[w].pc = "lock"
        BY <1>0, <1>7, <2>2, AfterStaging DEF MoveIn
      <3> QED BY <1>6, <1>7, <2>1, <2>2, <3>1 DEF MoveIn, StagePcs
    <2>3. CASE ~Bound(MyStage(w))
      BY <1>1, <1>7, <2>3 DEF MoveIn
    <2> QED BY <2>2, <2>3
  <1>8. CASE Digest(w) \/ Lookup(w) \/ Redigest(w) \/ Acquire(w) \/ ExistsCheck(w)
             \/ Abort(w) \/ LinkBusy(w)
    BY <1>1, <1>8
    DEF Digest, Lookup, Redigest, Acquire, ExistsCheck, Abort, LinkBusy, ReadsOnly
  <1>9. CASE Spill(w)
    BY <1>0, <1>1, <1>2, <1>9, FileOfName DEF Spill, ReadsOnly
  <1>10. CASE SpillCheck(w)
    BY <1>1, <1>4, <1>10 DEF SpillCheck
  <1>11. CASE SpillMove(w)
    <2>1. NextSlot(w) \in Slots /\ wk[w].pc \in StagePcs
      BY <1>0, <1>11, SlotOfWorker DEF SpillMove, At, SpillPcs, StagePcs
    <2> QED BY <1>1, <1>6, <1>11, <2>1 DEF SpillMove
  <1>12. CASE Stage(w)
    BY <1>0, <1>1, <1>2, <1>12, FileOfName DEF Stage, ReadsOnly
  <1>13. CASE Publish(w) \/ PublishRename(w)
    BY <1>1, <1>4, <1>7, <1>13 DEF Publish, PublishRename, At
  <1>14. CASE PublishFails(w) \/ SwapFails(w)
    BY <1>4, <1>14 DEF PublishFails, SwapFails
  <1>15. CASE LockMaster(w) \/ Strip(w) \/ Relock(w)
    BY <1>5, <1>15 DEF LockMaster, Strip, Relock, EnforceReadOnly
  <1>16. CASE Link(w)
    <2>1. CASE Bound(Obj(Slot(w))) /\ ~Bound(Lnk(wk[w].tgt))
      <3>1. PICK t \in Targets, s \in Slots : t = wk[w].tgt /\ s = Slot(w)
        BY <1>0, <1>16, SlotOfWorker DEF Link, At, WkOK, WorkerOK
      <3>2. HardLink(Obj(s), Lnk(t)) /\ wk'[w].pc = "swap"
        BY <1>0, <1>16, <2>1, <3>1, AfterGoto DEF Link
      <3> QED BY <1>16, <2>1, <3>1, <3>2, LinkSlots
    <2>2. CASE ~(Bound(Obj(Slot(w))) /\ ~Bound(Lnk(wk[w].tgt)))
      BY <1>1, <1>16, <2>2 DEF Link
    <2> QED BY <2>1, <2>2
  <1>17. CASE Swap(w)
    <2>1. CASE Bound(Lnk(wk[w].tgt))
      <3>1. PICK t \in Targets : t = wk[w].tgt
        BY <1>0, <1>17 DEF Swap, At, WkOK, WorkerOK
      <3>2. Rename(Lnk(t), Ws(t)) /\ Bound(Lnk(t))
        BY <1>17, <2>1, <3>1 DEF Swap
      <3> QED BY <3>2, NamesOf, RenameSlots, NamesDiffer
    <2>2. CASE ~Bound(Lnk(wk[w].tgt))
      BY <1>1, <1>17, <2>2 DEF Swap
    <2> QED BY <2>1, <2>2
  <1> QED
    BY <1>3, <1>8, <1>9, <1>10, <1>11, <1>12, <1>13, <1>14, <1>15, <1>16, <1>17
    DEF WorkerStep, Progress, Failure

LEMMA OtherSlots ==
    ASSUME TypeInv, StagedAlone, UserStep \/ \E k \in Stages : SweepStage(k)
    PROVE  StagedAlone' /\ SlotsKept({})
  <1>0. IsVolume(vol)
    BY DEF TypeInv
  <1>1. ASSUME NEW t \in Targets, NEW c \in Contents, Rewrite(t, c)
        PROVE  StagedAlone' /\ SlotsKept({})
    <2>1. PICK b \in BOOLEAN, m \in {"rw", "ro"} : Create(Ws(t), c, b, m)
      BY <1>1 DEF Rewrite
    <2> QED BY <2>1, NamesOf, CreateSlots, NamesDiffer
  <1>2. ASSUME NEW t \in Targets, NEW c \in Contents, EditInPlace(t, c)
        PROVE  StagedAlone' /\ SlotsKept({})
    <2> DEFINE f == File(Ws(t))
               h == [f EXCEPT !.data = c]
    <2>1. f \in vol /\ vol' = Replaced(vol, f, h)
      BY <1>0, <1>2, FileOfName DEF EditInPlace
    <2>2. f \in Files
      BY <1>0, <2>1 DEF IsVolume
    <2>3. h.names = f.names
      BY <2>2 DEF Files
    <2> HIDE DEF f, h
    <2> QED BY <2>1, <2>3, ShrunkSlots DEF Replaced
  <1>3. ASSUME NEW p, Unlink(p)
        PROVE  StagedAlone' /\ SlotsKept({})
    BY <1>0, <1>3, UnlinkStep, ShrunkSlots DEF Traced
  <1> QED BY <1>1, <1>2, <1>3 DEF UserStep, Delete, SweepStage
-----------------------------------------------------------------------------
(* Who heads for a slot.                                                   *)
SamePlace(w) == wk'[w].dig = wk[w].dig /\ wk'[w].idx = wk[w].idx /\ wk'[w].uniq = wk[w].uniq

LEMMA PlaceAfterGoto ==
    ASSUME WkOK, NEW w \in Workers, NEW pc, Goto(w, pc)
    PROVE  wk'[w].pc = pc /\ SamePlace(w)
  BY DEF WkOK, WorkerStates, Goto, SamePlace

LEMMA PlaceAfterStaging ==
    ASSUME WkOK, NEW w \in Workers, NEW pc, NEW k,
           wk' = [wk EXCEPT ![w].pc = pc, ![w].stg = k]
    PROVE  wk'[w].pc = pc /\ SamePlace(w)
  BY DEF WkOK, WorkerStates, SamePlace

LEMMA PlaceAfterNextSlot ==
    ASSUME WkOK, NEW w \in Workers,
           \/ wk' = [wk EXCEPT ![w].idx = @ + 1, ![w].pc = Acquired(w)]
           \/ wk' = [wk EXCEPT ![w].idx = @ + 1, ![w].stg = None, ![w].pc = Acquired(w)]
    PROVE  /\ wk'[w].pc = Acquired(w) /\ wk'[w].dig = wk[w].dig
           /\ wk'[w].idx = wk[w].idx + 1
  <1> DEFINE a == Acquired(w)
             n == wk[w].idx + 1
  <1>1. wk \in [Workers -> WorkerStates]
    BY DEF WkOK
  <1>2. \/ wk' = [wk EXCEPT ![w].idx = n, ![w].pc = a]
        \/ wk' = [wk EXCEPT ![w].idx = n, ![w].stg = None, ![w].pc = a]
    BY <1>1
  <1> HIDE DEF a, n
  <1>3. wk'[w].pc = a /\ wk'[w].dig = wk[w].dig /\ wk'[w].idx = n
    BY <1>1, <1>2 DEF WorkerStates
  <1> QED BY <1>3 DEF a, n

(* Only the look at the count sends a worker to a slot.                    *)
LEMMA WhoHeads ==
    ASSUME NEW w \in Workers, WkOK, WorkerStep(w), NEW s, Heads(w, s)', ~Heads(w, s)
    PROVE  /\ UNCHANGED vol
           /\ \/ Accepts(wk[w].dig, wk[w].idx) /\ s = Slot(w)
              \/ ~Bound(Obj(s))
  <1>0. wk \in [Workers -> WorkerStates] /\ wk[w] \in WorkerStates
    BY DEF WkOK
  <1>1. wk'[w].pc \in {"strip", "link"} \cup SpillPcs
    BY DEF Heads
  <1>2. ASSUME SamePlace(w), \/ wk[w].pc \in {"strip", "link"} /\ wk'[w].pc \in {"strip", "link"}
                             \/ wk[w].pc \in SpillPcs /\ wk'[w].pc \in SpillPcs
        PROVE  FALSE
    BY <1>2 DEF Heads, SamePlace, Slot, NextSlot, SpillPcs
  <1>3. CASE Digest(w)
    <2>1. PICK t \in Targets :
            wk' = [wk EXCEPT ![w] = [IdleWorker EXCEPT !.pc = "lookup", !.tgt = t,
                                                      !.dig = File(Ws(t)).data]]
      BY <1>3 DEF Digest
    <2> DEFINE d == File(Ws(t)).data
    <2>2. wk'[w] = [IdleWorker EXCEPT !.pc = "lookup", !.tgt = t, !.dig = d]
      BY <1>0, <2>1
    <2> HIDE DEF d
    <2>3. wk'[w].pc = "lookup"
      BY <2>2, IdleWorkerOK DEF WorkerStates
    <2> QED BY <1>1, <2>3 DEF SpillPcs
  <1>4. CASE Lookup(w)
    BY <1>0, <1>1, <1>4, PlaceAfterGoto DEF Lookup, WorkerStates, SpillPcs
  <1>5. CASE Redigest(w)
    <2> DEFINE d == File(Ws(wk[w].tgt)).data
    <2>1. Return(w) \/ wk' = [wk EXCEPT ![w].dig = d, ![w].pc = "acquire"]
      BY <1>5 DEF Redigest
    <2> HIDE DEF d
    <2>2. wk'[w].pc \in {"idle", "acquire"}
      BY <1>0, <2>1, AfterReturn DEF WorkerStates
    <2> QED BY <1>1, <2>2 DEF SpillPcs
  <1>6. CASE Acquire(w)
    <2>0. UNCHANGED vol /\ wk[w].pc = "acquire"
      BY <1>6 DEF Acquire, ReadsOnly, At
    <2>1. CASE Accepts(wk[w].dig, wk[w].idx) /\ Goto(w, Acquired(w))
      <3>1. wk'[w].pc = Acquired(w) /\ SamePlace(w) /\ Acquired(w) \in {"exists", "strip"}
        BY <2>1, PlaceAfterGoto DEF Acquired
      <3>2. s = Slot(w)
        BY <3>1 DEF Heads, SamePlace, Slot, SpillPcs
      <3> QED BY <2>0, <2>1, <3>2
    <2>2. CASE ~Exists(wk[w].dig, wk[w].idx + 1) /\ Goto(w, "spill")
      <3>1. wk'[w].pc = "spill" /\ SamePlace(w)
        BY <2>2, PlaceAfterGoto
      <3>2. s = NextSlot(w)
        BY <3>1 DEF Heads, SamePlace, NextSlot, SpillPcs
      <3> QED BY <2>0, <2>2, <3>2 DEF Exists, NextSlot
    <2>3. CASE wk' = [wk EXCEPT ![w].idx = @ + 1]
      <3>1. wk'[w].pc = "acquire"
        BY <1>0, <2>0, <2>3 DEF WorkerStates
      <3> QED BY <1>1, <3>1 DEF SpillPcs
    <2> QED BY <1>6, <2>1, <2>2, <2>3 DEF Acquire
  <1>7. ASSUME wk[w].pc \in SpillPcs,
               \/ wk' = [wk EXCEPT ![w].idx = @ + 1, ![w].pc = Acquired(w)]
               \/ wk' = [wk EXCEPT ![w].idx = @ + 1, ![w].stg = None, ![w].pc = Acquired(w)]
        PROVE  FALSE
    <2>1. /\ wk'[w].pc = Acquired(w) /\ wk'[w].dig = wk[w].dig
          /\ wk'[w].idx = wk[w].idx + 1
      BY <1>7, PlaceAfterNextSlot
    <2>2. Slot(w)' = NextSlot(w)
      BY <2>1 DEF Slot, NextSlot
    <2>3. Acquired(w) = "strip" /\ ~wk[w].uniq
      BY <1>1, <2>1 DEF Acquired, SpillPcs
    <2> QED BY <1>7, <2>1, <2>2, <2>3 DEF Heads, SpillPcs
  <1>8. ASSUME Return(w) PROVE FALSE
    BY <1>1, <1>8, AfterReturn DEF SpillPcs
  <1>9. ASSUME NEW f, StageCopy(w, f, "spillFill"), wk[w].pc \in SpillPcs
        PROVE  FALSE
    <2>1. PICK k : wk' = [wk EXCEPT ![w].pc = "spillFill", ![w].stg = k]
      BY <1>9 DEF StageCopy
    <2>2. wk'[w].pc = "spillFill" /\ SamePlace(w)
      BY <2>1, PlaceAfterStaging
    <2> QED BY <1>2, <1>9, <2>2 DEF SpillPcs
  <1>10. CASE Spill(w)
    BY <1>7, <1>8, <1>9, <1>10 DEF Spill, SpillPcs, At
  <1>11. CASE SpillFill(w)
    BY <1>2, <1>11, PlaceAfterGoto DEF SpillFill, Fill, SpillPcs, At
  <1>12. CASE SpillCheck(w)
    <2>1. wk[w].pc = "spillCheck"
      BY <1>12 DEF SpillCheck, At
    <2>2. CASE Goto(w, "spillMove")
      BY <1>2, <2>1, <2>2, PlaceAfterGoto DEF SpillPcs
    <2> QED BY <1>7, <1>12, <2>1, <2>2 DEF SpillCheck, SpillPcs
  <1>13. CASE SpillMove(w)
    BY <1>7, <1>8, <1>13 DEF SpillMove, SpillPcs, At
  <1>14. ASSUME NEW pc, Goto(w, pc), pc \notin {"strip", "link"} \cup SpillPcs
         PROVE  FALSE
    BY <1>1, <1>14, PlaceAfterGoto
  <1>15. CASE ExistsCheck(w) \/ StageFill(w)
    BY <1>8, <1>14, <1>15 DEF ExistsCheck, StageFill, Fill, SpillPcs
  <1>16. CASE Stage(w)
    <2>1. ASSUME NEW f, StageCopy(w, f, "fill") PROVE FALSE
      <3>1. PICK k : wk' = [wk EXCEPT ![w].pc = "fill", ![w].stg = k]
        BY <2>1 DEF StageCopy
      <3>2. wk'[w].pc = "fill"
        BY <3>1, PlaceAfterStaging
      <3> QED BY <1>1, <3>2 DEF SpillPcs
    <2> QED BY <1>8, <1>16, <2>1 DEF Stage
  <1>17. ASSUME MoveIn(w) PROVE FALSE
    BY <1>1, <1>8, <1>17, PlaceAfterStaging DEF MoveIn, SpillPcs
  <1>18. CASE Publish(w) \/ PublishRename(w)
    BY <1>8, <1>14, <1>17, <1>18 DEF Publish, PublishRename, SpillPcs
  <1>19. CASE LockMaster(w) \/ Relock(w) \/ Failure(w)
    BY <1>8, <1>19
    DEF LockMaster, Relock, EnforceReadOnly, Failure, Abort, PublishFails, LinkBusy, SwapFails, Defer
  <1>20. CASE Strip(w)
    BY <1>2, <1>20, PlaceAfterGoto DEF Strip, At
  <1>21. CASE Link(w) \/ Swap(w)
    BY <1>8, <1>14, <1>21 DEF Link, Swap, SpillPcs
  <1> QED
    BY <1>3, <1>4, <1>5, <1>6, <1>10, <1>11, <1>12, <1>13, <1>15, <1>16, <1>18, <1>19, <1>20, <1>21
    DEF WorkerStep, Progress
-----------------------------------------------------------------------------
LEMMA HeadingIsFinite ==
    ASSUME IsFiniteSet(Workers), NEW H, H \subseteq Workers, NEW G, G \subseteq H
    PROVE  /\ IsFiniteSet(H) /\ IsFiniteSet(G)
           /\ Cardinality(H) \in Nat /\ Cardinality(G) \in Nat /\ Cardinality(Workers) \in Nat
           /\ Cardinality(G) <= Cardinality(H) /\ Cardinality(H) <= Cardinality(Workers)
           /\ \A w \in H : w \notin G => Cardinality(G) + 1 <= Cardinality(H)
  <1>1. IsFiniteSet(H) /\ IsFiniteSet(G)
    BY FS_Subset
  <1>2. Cardinality(G) <= Cardinality(H) /\ Cardinality(H) <= Cardinality(Workers)
    BY <1>1, FS_Subset
  <1>3. Cardinality(H) \in Nat /\ Cardinality(G) \in Nat /\ Cardinality(Workers) \in Nat
    BY <1>1, FS_CardinalityType
  <1>4. ASSUME NEW w \in H, w \notin G PROVE Cardinality(G) + 1 <= Cardinality(H)
    <2> DEFINE R == H \ {w}
    <2>1. IsFiniteSet(R) /\ Cardinality(R) = Cardinality(H) - 1
      BY <1>1, FS_RemoveElement
    <2>2. G \subseteq R
      BY <1>4
    <2> HIDE DEF R
    <2>3. Cardinality(G) <= Cardinality(R)
      BY <2>1, <2>2, FS_Subset
    <2> QED BY <1>3, <2>1, <2>3
  <1> QED BY <1>1, <1>2, <1>3, <1>4

LEMMA LinksOf ==
    ASSUME TypeInv, NEW f \in vol
    PROVE  IsFiniteSet(f.names) /\ Cardinality(f.names) \in Nat
  <1>1. f.names \in SUBSET Names
    BY DEF TypeInv, IsVolume, Files
  <1> QED BY <1>1, NamesAreFinite, FS_CardinalityType

LEMMA LinksOfNext ==
    ASSUME TypeInv', NEW g \in vol'
    PROVE  IsFiniteSet(g.names) /\ Cardinality(g.names) \in Nat
  <1>1. g.names \in SUBSET Names
    BY DEF TypeInv, IsVolume, Files
  <1> QED BY <1>1, NamesAreFinite, FS_CardinalityType

(* A step after which nobody else heads for s keeps the room there.        *)
LEMMA RoomStays ==
    ASSUME TypeInv, TypeInv', RoomForAll, IsFiniteSet(Workers), MaxLinks >= 2,
           NEW s \in Slots, NEW g \in vol', Obj(s) \in g.names,
           Heading(s)' \subseteq Heading(s),
           \/ \E f \in vol : Obj(s) \in f.names /\ NoMoreNames(g, f)
           \/ /\ \E f \in vol : Obj(s) \in f.names /\ \E q : g.names \subseteq f.names \cup {q}
              /\ \E w \in Heading(s) : w \notin Heading(s)'
           \/ g.names = {Obj(s)}
    PROVE  Cardinality(g.names) + Cardinality(Heading(s)') < MaxLinks + Cardinality(Workers)
  <1> DEFINE H == Heading(s)
             G == Heading(s)'
  <1>1. H \subseteq Workers /\ G \subseteq H
    BY DEF Heading
  <1>0. \A f \in vol : Obj(s) \in f.names =>
            Cardinality(f.names) + Cardinality(H) < MaxLinks + Cardinality(Workers)
    BY DEF RoomForAll
  <1> HIDE DEF H, G
  <1>2. /\ Cardinality(H) \in Nat /\ Cardinality(G) \in Nat /\ Cardinality(Workers) \in Nat
        /\ Cardinality(G) <= Cardinality(H) /\ Cardinality(H) <= Cardinality(Workers)
        /\ \A w \in H : w \notin G => Cardinality(G) + 1 <= Cardinality(H)
    BY <1>1, HeadingIsFinite
  <1>3. MaxLinks \in Nat /\ IsFiniteSet(g.names) /\ Cardinality(g.names) \in Nat
    BY LinkCeiling, LinksOfNext
  <1>4. CASE \E f \in vol : Obj(s) \in f.names /\ NoMoreNames(g, f)
    <2>1. PICK f \in vol : Obj(s) \in f.names /\ NoMoreNames(g, f)
      BY <1>4
    <2>2. IsFiniteSet(f.names) /\ Cardinality(f.names) \in Nat
      BY LinksOf
    <2>3. Cardinality(g.names) <= Cardinality(f.names)
      BY <1>3, <2>1, <2>2, NoMoreLinks
    <2> QED BY <1>0, <1>2, <1>3, <2>1, <2>2, <2>3 DEF G
  <1>5. CASE /\ \E f \in vol : Obj(s) \in f.names /\ \E q : g.names \subseteq f.names \cup {q}
             /\ \E w \in H : w \notin G
    <2>1. PICK f \in vol : Obj(s) \in f.names /\ \E q : g.names \subseteq f.names \cup {q}
      BY <1>5
    <2>2. PICK q : g.names \subseteq f.names \cup {q}
      BY <2>1
    <2>3. IsFiniteSet(f.names) /\ Cardinality(f.names) \in Nat
      BY LinksOf
    <2> DEFINE F == f.names
    <2>8. /\ IsFiniteSet(F \cup {q})
          /\ \/ Cardinality(F \cup {q}) = Cardinality(F)
             \/ Cardinality(F \cup {q}) = Cardinality(F) + 1
      BY <2>3, FS_AddElement
    <2>9. Cardinality(F \cup {q}) \in Nat
      BY <2>8, FS_CardinalityType
    <2>4. /\ IsFiniteSet(f.names \cup {q}) /\ Cardinality(f.names \cup {q}) \in Nat
          /\ Cardinality(f.names \cup {q}) <= Cardinality(f.names) + 1
      BY <2>3, <2>8, <2>9
    <2>5. Cardinality(g.names) <= Cardinality(f.names \cup {q})
      BY <2>2, <2>4, FS_Subset
    <2>6. Cardinality(G) + 1 <= Cardinality(H)
      BY <1>2, <1>5
    <2>7. Cardinality(f.names) + Cardinality(H) < MaxLinks + Cardinality(Workers)
      BY <1>0, <2>1
    <2> QED BY <1>2, <1>3, <2>3, <2>4, <2>5, <2>6, <2>7 DEF G
  <1>6. CASE g.names = {Obj(s)}
    <2>1. Cardinality(g.names) = 1
      BY <1>6, FS_Singleton
    <2> QED BY <1>2, <1>3, <2>1 DEF G
  <1> QED BY <1>4, <1>5, <1>6 DEF H, G

LEMMA WorkerRoom ==
    ASSUME TypeInv, TypeInv', OneStoreName, StagedAlone, RoomForAll,
           CountsLinks, IsFiniteSet(Workers), MaxLinks >= 2,
           NEW w \in Workers, WorkerStep(w)
    PROVE  RoomForAll'
  <1> SUFFICES ASSUME NEW s \in Slots, NEW g \in vol', Obj(s) \in g.names
               PROVE  Cardinality(g.names) + Cardinality(Heading(s)')
                          < MaxLinks + Cardinality(Workers)
    BY DEF RoomForAll, Obj
  <1>0. WkOK /\ IsVolume(vol)
    BY DEF TypeInv
  <1>1. \A v \in Workers \ {w} : Heads(v, s)' <=> Heads(v, s)
    <2>1. \A v \in Workers \ {w} : wk'[v] = wk[v]
      BY <1>0, OtherWorkers
    <2> QED BY <2>1 DEF Heads, Slot, NextSlot
  <1>2. CASE Heads(w, s)' /\ ~Heads(w, s)
    <2>1. /\ UNCHANGED vol
          /\ (Accepts(wk[w].dig, wk[w].idx) /\ s = Slot(w)) \/ ~Bound(Obj(s))
      BY <1>0, <1>2, WhoHeads
    <2>2. g \in vol /\ Bound(Obj(s))
      BY <2>1 DEF Bound
    <2>3. g = File(Obj(s))
      BY <1>0, <2>2, FileOfName
    <2>4. Cardinality(g.names) < MaxLinks
      BY <2>1, <2>2, <2>3 DEF Accepts, Exists, Slot, LinkCount, Links
    <2>5. Heading(s)' \subseteq Workers
      BY DEF Heading
    <2> DEFINE G == Heading(s)'
    <2> HIDE DEF G
    <2>6. /\ Cardinality(G) \in Nat /\ Cardinality(Workers) \in Nat
          /\ Cardinality(G) <= Cardinality(Workers)
      BY <2>5, HeadingIsFinite DEF G
    <2>7. MaxLinks \in Nat /\ Cardinality(g.names) \in Nat
      BY LinkCeiling, LinksOfNext
    <2> QED BY <2>4, <2>6, <2>7 DEF G
  <1>3. CASE ~(Heads(w, s)' /\ ~Heads(w, s))
    <2>1. Heading(s)' \subseteq Heading(s)
      BY <1>1, <1>3 DEF Heading
    <2>2. \/ \E f \in vol : Obj(s) \in f.names /\ NoMoreNames(g, f)
          \/ Link(w) /\ wk'[w].pc = "swap" /\ s = Slot(w) /\ OneMore(s)
          \/ Fresh(s)
      BY <1>0, WorkerSlots DEF SlotsKept
    <2>3. CASE Link(w) /\ wk'[w].pc = "swap" /\ s = Slot(w) /\ OneMore(s)
      <3>1. w \in Heading(s)
        BY <2>3 DEF Link, At, Heading, Heads
      <3>2. w \notin Heading(s)'
        BY <2>3 DEF Heading, Heads, SpillPcs
      <3> QED BY <2>1, <2>3, <3>1, <3>2, RoomStays DEF OneMore
    <2> QED BY <2>1, <2>2, <2>3, RoomStays DEF Fresh
  <1> QED BY <1>2, <1>3

LEMMA NextRoom ==
    ASSUME TypeInv, TypeInv', OneStoreName, StagedAlone, RoomForAll,
           CountsLinks, IsFiniteSet(Workers), MaxLinks >= 2, Gcs = {}, [Next]_vars
    PROVE  StagedAlone' /\ RoomForAll'
  <1>1. CASE \E w \in Workers : WorkerStep(w)
    BY <1>1, WorkerSlots, WorkerRoom
  <1>2. ASSUME UNCHANGED wk, StagedAlone', SlotsKept({})
        PROVE  StagedAlone' /\ RoomForAll'
    <2>1. ASSUME NEW s \in Slots, NEW g \in vol', Obj(s) \in g.names
          PROVE  Cardinality(g.names) + Cardinality(Heading(s)')
                     < MaxLinks + Cardinality(Workers)
      <3>1. Heading(s)' \subseteq Heading(s)
        BY <1>2 DEF Heading, Heads, Slot, NextSlot
      <3>2. \E f \in vol : Obj(s) \in f.names /\ NoMoreNames(g, f)
        BY <1>2, <2>1 DEF SlotsKept
      <3> QED BY <2>1, <3>1, <3>2, RoomStays
    <2> QED BY <1>2, <2>1 DEF RoomForAll, Obj
  <1>3. CASE UserStep \/ \E k \in Stages : SweepStage(k)
    <2>1. UNCHANGED wk
      BY <1>3 DEF UserStep, Rewrite, EditInPlace, Delete, OthersUnchanged, SweepStage
    <2> QED BY <1>2, <1>3, <2>1, OtherSlots
  <1>4. CASE UNCHANGED <<vol, wk>>
    BY <1>2, <1>4, ShrunkSlots
  <1> QED BY <1>1, <1>3, <1>4 DEF Next, Tick, vars

(* Where no collector is at work and the ceiling is two links or more, the *)
(* workers exceed it by less than one link each: what a worker saw when it *)
(* looked at the count, only the others can have outdated (acquire_slot,   *)
(* link_to_master).                                                        *)
THEOREM CeilingIsNearlyKept ==
    ASSUME CountsLinks, IsFiniteSet(Workers), MaxLinks >= 2, Gcs = {}
    PROVE  Spec => []CeilingOvershoot
  <1>1. Init => StagedAlone /\ RoomForAll
    BY NamesDiffer DEF Init, StagedAlone, RoomForAll
  <1>2. TypeInv /\ TypeInv' /\ OneStoreName /\ StagedAlone /\ RoomForAll /\ [Next]_vars
        => StagedAlone' /\ RoomForAll'
    BY NextRoom
  <1>3. TypeInv /\ RoomForAll => CeilingOvershoot
    <2> SUFFICES ASSUME TypeInv, RoomForAll, NEW s \in Slots, Bound(Obj(s))
                 PROVE  Links(File(Obj(s))) < MaxLinks + Cardinality(Workers)
      BY DEF CeilingOvershoot
    <2> DEFINE f == File(Obj(s))
               H == Heading(s)
    <2>1. f \in vol /\ Obj(s) \in f.names
      BY FileOfName DEF TypeInv
    <2>2. Cardinality(f.names) + Cardinality(H) < MaxLinks + Cardinality(Workers)
      BY <2>1 DEF RoomForAll
    <2>3. H \subseteq Workers
      BY DEF Heading
    <2> HIDE DEF f, H
    <2>4. Cardinality(f.names) \in Nat
      BY <2>1, LinksOf
    <2>5. Cardinality(H) \in Nat /\ Cardinality(Workers) \in Nat
      BY <2>3, HeadingIsFinite
    <2> QED BY <2>2, <2>4, <2>5, LinkCeiling DEF f, Links
  <1> QED BY <1>1, <1>2, <1>3, TypesInvariant, StoreNamesAreUnique, PTL DEF Spec
-----------------------------------------------------------------------------
(* Only a publication makes a master, and with a rename that does not      *)
(* replace it does so in one step.                                         *)
RenamesAtOnce == NoReplace => \A w \in Workers : ~At(w, "rename")

LEMMA WhoPublishes ==
    ASSUME NEW w \in Workers, WkOK, WorkerStep(w),
           wk'[w].pc \in {"rename", "lock"}, wk[w].pc # wk'[w].pc
    PROVE  \/ Publish(w) /\ ~Bound(Obj(Slot(w))) /\ (NoReplace => wk'[w].pc = "lock")
           \/ PublishRename(w) /\ wk'[w].pc = "lock"
  <1>0. wk \in [Workers -> WorkerStates] /\ wk[w] \in WorkerStates
    BY DEF WkOK
  <1>1. ASSUME NEW pc, Goto(w, pc), pc \notin {"rename", "lock"} PROVE FALSE
    BY <1>1, PlaceAfterGoto
  <1>2. ASSUME Return(w) PROVE FALSE
    BY <1>2, AfterReturn
  <1>3. ASSUME NEW f, NEW pc, StageCopy(w, f, pc), pc \notin {"rename", "lock"} PROVE FALSE
    <2>1. PICK k : wk' = [wk EXCEPT ![w].pc = pc, ![w].stg = k]
      BY <1>3 DEF StageCopy
    <2>2. wk'[w].pc = pc
      BY <2>1, PlaceAfterStaging
    <2> QED BY <1>3, <2>2
  <1>4. ASSUME \/ wk' = [wk EXCEPT ![w].idx = @ + 1, ![w].pc = Acquired(w)]
               \/ wk' = [wk EXCEPT ![w].idx = @ + 1, ![w].stg = None, ![w].pc = Acquired(w)]
        PROVE  FALSE
    BY <1>4, NextSlotPc
  <1>5. CASE Digest(w)
    <2>1. PICK t \in Targets :
            wk' = [wk EXCEPT ![w] = [IdleWorker EXCEPT !.pc = "lookup", !.tgt = t,
                                                      !.dig = File(Ws(t)).data]]
      BY <1>5 DEF Digest
    <2> DEFINE d == File(Ws(t)).data
    <2>2. wk'[w] = [IdleWorker EXCEPT !.pc = "lookup", !.tgt = t, !.dig = d]
      BY <1>0, <2>1
    <2> HIDE DEF d
    <2>3. wk'[w].pc = "lookup"
      BY <2>2, IdleWorkerOK DEF WorkerStates
    <2> QED BY <2>3
  <1>6. CASE Lookup(w)
    BY <1>0, <1>1, <1>6 DEF Lookup, WorkerStates
  <1>7. CASE Redigest(w)
    <2> DEFINE d == File(Ws(wk[w].tgt)).data
    <2>1. Return(w) \/ wk' = [wk EXCEPT ![w].dig = d, ![w].pc = "acquire"]
      BY <1>7 DEF Redigest
    <2> HIDE DEF d
    <2> QED BY <1>0, <1>2, <2>1 DEF WorkerStates
  <1>8. CASE Acquire(w)
    <2>1. Acquired(w) \in {"exists", "strip"}
      BY DEF Acquired
    <2>2. CASE wk' = [wk EXCEPT ![w].idx = @ + 1]
      BY <1>0, <2>2 DEF WorkerStates
    <2> QED BY <1>1, <1>8, <2>1, <2>2 DEF Acquire
  <1>9. CASE Spill(w) \/ SpillCheck(w) \/ SpillMove(w)
    BY <1>1, <1>2, <1>3, <1>4, <1>9 DEF Spill, SpillCheck, SpillMove
  <1>10. CASE SpillFill(w) \/ ExistsCheck(w) \/ Stage(w) \/ StageFill(w)
    BY <1>1, <1>2, <1>3, <1>10 DEF SpillFill, StageFill, Fill, ExistsCheck, Stage
  <1>11. ASSUME MoveIn(w) PROVE wk'[w].pc = "lock"
    BY <1>2, <1>11, PlaceAfterStaging DEF MoveIn
  <1>12. CASE Publish(w)
    BY <1>2, <1>11, <1>12 DEF Publish
  <1>13. CASE PublishRename(w)
    BY <1>11, <1>13 DEF PublishRename
  <1>14. CASE LockMaster(w) \/ Strip(w) \/ Link(w) \/ Swap(w) \/ Relock(w)
    BY <1>1, <1>2, <1>14 DEF LockMaster, Relock, EnforceReadOnly, Strip, Link, Swap
  <1>15. CASE Failure(w)
    BY <1>2, <1>15 DEF Failure, Abort, PublishFails, LinkBusy, SwapFails, Defer
  <1> QED
    BY <1>5, <1>6, <1>7, <1>8, <1>9, <1>10, <1>12, <1>13, <1>14, <1>15
    DEF WorkerStep, Progress

LEMMA NextRenames ==
    ASSUME TypeInv, RenamesAtOnce, [Next]_vars
    PROVE  RenamesAtOnce'
  <1>1. ASSUME NEW w \in Workers, WorkerStep(w), NoReplace PROVE \A v \in Workers : ~At(v, "rename")'
    <2>1. \A v \in Workers \ {w} : wk'[v] = wk[v]
      BY <1>1, OtherWorkers DEF TypeInv
    <2>2. wk'[w].pc # "rename"
      BY <1>1, WhoPublishes DEF TypeInv, RenamesAtOnce, At
    <2> QED BY <1>1, <2>1, <2>2 DEF RenamesAtOnce, At
  <1>2. (\E w \in Workers : WorkerStep(w)) \/ UNCHANGED wk
    BY DEF Next, Tick, UserStep, Rewrite, EditInPlace, Delete, OthersUnchanged, SweepStage, vars
  <1> QED BY <1>1, <1>2 DEF RenamesAtOnce, At

LEMMA RenamesInvariant == Spec => [](TypeInv /\ RenamesAtOnce)
  <1>1. Init => RenamesAtOnce
    BY DEF Init, LinkInit, IdleWorker, RenamesAtOnce, At
  <1>2. TypeInv /\ RenamesAtOnce /\ [Next]_vars => RenamesAtOnce'
    BY NextRenames
  <1> QED BY <1>1, <1>2, TypesInvariant, PTL DEF Spec
-----------------------------------------------------------------------------
(* Names that stay together.  Steps may part the names in X from the other *)
(* names of their file, and no two others.                                 *)
Apart(X) == \A f \in vol : \A r, s \in f.names \ X : \E g \in vol' : r \in g.names /\ s \in g.names

HoldsOn(r) == \A f \in vol : r \in f.names /\ Held(f) => \E g \in vol' : r \in g.names /\ Held(g)

LEMMA SameTogether ==
    ASSUME \A f \in vol : \E g \in vol' : f.names \subseteq g.names
    PROVE  Apart({})
  BY DEF Apart

LEMMA UnlinkedTogether ==
    ASSUME NEW V, IsVolume(V), NEW p, NEW f \in V, NEW r \in f.names \ {p}
    PROVE  \E g \in Unlinked(V, p) : g.names = f.names \ {p}
  <1> DEFINE g == [f EXCEPT !.names = f.names \ {p}]
  <1>1. f \in Files
    BY DEF IsVolume
  <1>2. g.names = f.names \ {p} /\ g.names # {}
    BY <1>1 DEF Files
  <1>3. g \in Unlinked(V, p)
    BY <1>2 DEF Unlinked
  <1> QED BY <1>2, <1>3

LEMMA UnlinkTogether ==
    ASSUME TypeInv, NEW p, Unlink(p)
    PROVE  Apart({p})
  <1>1. IsVolume(vol) /\ vol' = Unlinked(vol, p)
    BY DEF TypeInv, Unlink
  <1> SUFFICES ASSUME NEW f \in vol, NEW r \in f.names \ {p}, NEW s \in f.names \ {p}
               PROVE  \E g \in vol' : r \in g.names /\ s \in g.names
    BY DEF Apart
  <1>2. PICK g \in Unlinked(vol, p) : g.names = f.names \ {p}
    BY <1>1, UnlinkedTogether
  <1> QED BY <1>1, <1>2

LEMMA CreateTogether ==
    ASSUME TypeInv, NEW p, NEW d, NEW b, NEW m, Create(p, d, b, m)
    PROVE  Apart({p})
  <1>1. IsVolume(vol) /\ Unlinked(vol, p) \subseteq vol'
    BY DEF TypeInv, Create
  <1> SUFFICES ASSUME NEW f \in vol, NEW r \in f.names \ {p}, NEW s \in f.names \ {p}
               PROVE  \E g \in vol' : r \in g.names /\ s \in g.names
    BY DEF Apart
  <1>2. PICK g \in Unlinked(vol, p) : g.names = f.names \ {p}
    BY <1>1, UnlinkedTogether
  <1> QED BY <1>1, <1>2

LEMMA ChangedTogether ==
    ASSUME NEW f \in vol, NEW h, f.names \subseteq h.names, vol' = Replaced(vol, f, h)
    PROVE  Apart({})
  BY SameTogether DEF Replaced

LEMMA ChmodTogether ==
    ASSUME TypeInv, NEW p, NEW m, Chmod(p, m)
    PROVE  Apart({})
  <1>1. CASE Bound(p)
    <2> DEFINE f == File(p)
               h == [f EXCEPT !.mode = m]
    <2>1. f \in vol /\ f \in Files
      BY <1>1, FileOfName DEF TypeInv, IsVolume
    <2>2. h.names = f.names
      BY <2>1 DEF Files
    <2>3. vol' = Replaced(vol, f, h)
      BY <1>1 DEF Chmod
    <2> HIDE DEF f, h
    <2> QED BY <2>1, <2>2, <2>3, ChangedTogether
  <1>2. CASE ~Bound(p)
    BY <1>2, SameTogether DEF Chmod
  <1> QED BY <1>1, <1>2

LEMMA FillTogether ==
    ASSUME TypeInv, NEW w, NEW from, NEW to, Fill(w, from, to)
    PROVE  Apart({})
  <1>1. CASE Bound(MyStage(w))
    <2> DEFINE f == File(MyStage(w))
               h == [f EXCEPT !.whole = TRUE]
    <2>1. f \in vol /\ f \in Files
      BY <1>1, FileOfName DEF TypeInv, IsVolume
    <2>2. h.names = f.names
      BY <2>1 DEF Files
    <2>3. vol' = Replaced(vol, f, h)
      BY <1>1 DEF Fill
    <2> HIDE DEF f, h
    <2> QED BY <2>1, <2>2, <2>3, ChangedTogether
  <1>2. CASE ~Bound(MyStage(w))
    BY <1>2, SameTogether DEF Fill
  <1> QED BY <1>1, <1>2

LEMMA HardLinkTogether ==
    ASSUME TypeInv, NEW p, Bound(p), NEW q, HardLink(p, q)
    PROVE  Apart({}) /\ \E g \in vol' : p \in g.names /\ q \in g.names
  <1> DEFINE f == File(p)
             h == [f EXCEPT !.names = f.names \cup {q}]
  <1>1. f \in vol /\ f \in Files /\ p \in f.names
    BY FileOfName DEF TypeInv, IsVolume
  <1>2. h.names = f.names \cup {q}
    BY <1>1 DEF Files
  <1>3. vol' = Replaced(vol, f, h)
    BY DEF HardLink
  <1> HIDE DEF f, h
  <1>4. h \in vol' /\ p \in h.names /\ q \in h.names
    BY <1>1, <1>2, <1>3 DEF Replaced
  <1> QED BY <1>1, <1>2, <1>3, <1>4, ChangedTogether

LEMMA RenameTogether ==
    ASSUME TypeInv, NEW p, Bound(p), NEW q, Rename(p, q)
    PROVE  /\ Apart({p, q})
           /\ \A r \in File(p).names \ {p} : \E g \in vol' : r \in g.names /\ q \in g.names
  <1> DEFINE f == File(p)
             h == [f EXCEPT !.names = (f.names \ {p}) \cup {q}]
             V == vol \ {f}
  <1>1. f \in vol /\ f \in Files /\ p \in f.names /\ IsVolume(V)
    BY FileOfName DEF TypeInv, IsVolume
  <1>2. CASE q \in f.names
    <2>1. vol' = vol
      BY <1>2 DEF Rename
    <2> QED BY <1>1, <1>2, <2>1 DEF Apart
  <1>3. CASE q \notin f.names
    <2>1. vol' = Unlinked(V, q) \cup {h}
      BY <1>3 DEF Rename
    <2>2. h.names = (f.names \ {p}) \cup {q}
      BY <1>1 DEF Files
    <2> HIDE DEF h, f, V
    <2>3. ASSUME NEW e \in vol, NEW r \in e.names \ {p, q}, NEW s \in e.names \ {p, q}
          PROVE  \E g \in vol' : r \in g.names /\ s \in g.names
      <3>1. CASE e = f
        BY <2>1, <2>2, <2>3, <3>1
      <3>2. CASE e # f
        <4>1. e \in V /\ r \in e.names \ {q}
          BY <2>3, <3>2 DEF V
        <4>2. PICK g \in Unlinked(V, q) : g.names = e.names \ {q}
          BY <1>1, <4>1, UnlinkedTogether
        <4> QED BY <2>1, <2>3, <4>2
      <3> QED BY <3>1, <3>2
    <2>4. \A r \in f.names \ {p} : \E g \in vol' : r \in g.names /\ q \in g.names
      BY <2>1, <2>2
    <2> QED BY <2>3, <2>4 DEF Apart, f
  <1> QED BY <1>2, <1>3

(* What holds a file in the store goes on holding it.                      *)
LEMMA ApartHolds ==
    ASSUME NEW X, Apart(X), \A x \in X : x[1] \notin {"objects", "quarantine"}, NEW r, r \notin X
    PROVE  HoldsOn(r)
  <1> SUFFICES ASSUME NEW f \in vol, r \in f.names, NEW h \in f.names,
                      h[1] \in {"objects", "quarantine"}
               PROVE  \E g \in vol' : r \in g.names /\ Held(g)
    BY DEF HoldsOn, Held
  <1>1. h \notin X
    OBVIOUS
  <1>2. PICK g \in vol' : r \in g.names /\ h \in g.names
    BY <1>1 DEF Apart
  <1> QED BY <1>2 DEF Held

LEMMA RenameHolds ==
    ASSUME TypeInv, NEW p, Bound(p), NEW q, Rename(p, q), q[1] \in {"objects", "quarantine"},
           NEW r, r # p, r # q, Bound(q) => r \notin File(q).names
    PROVE  HoldsOn(r)
  <1> SUFFICES ASSUME NEW f \in vol, r \in f.names, NEW h \in f.names,
                      h[1] \in {"objects", "quarantine"}
               PROVE  \E g \in vol' : r \in g.names /\ Held(g)
    BY DEF HoldsOn, Held
  <1>1. /\ Apart({p, q})
        /\ \A x \in File(p).names \ {p} : \E g \in vol' : x \in g.names /\ q \in g.names
    BY RenameTogether
  <1>2. CASE h = p
    <2>1. f = File(p)
      BY <1>2, FileOfName DEF TypeInv
    <2>2. PICK g \in vol' : r \in g.names /\ q \in g.names
      BY <1>1, <2>1
    <2> QED BY <2>2 DEF Held
  <1>3. CASE h # p
    <2>1. h # q
      <3> SUFFICES ASSUME h = q PROVE FALSE
        OBVIOUS
      <3>1. Bound(q) /\ f = File(q)
        BY FileOfName DEF TypeInv, Bound
      <3> QED BY <3>1
    <2>2. PICK g \in vol' : r \in g.names /\ h \in g.names
      BY <1>1, <1>3, <2>1 DEF Apart
    <2> QED BY <2>2 DEF Held
  <1> QED BY <1>2, <1>3
-----------------------------------------------------------------------------
(* What becomes of a target's two links in a step.                         *)
LinkStays(t) ==
    /\ HoldsOn(Ws(t)) \/ UserStep \/ SlotIsReplaced(Ws(t)) \/ SwapsOrphanIn(t)
    /\ Bound(Lnk(t))' => HoldsOn(Lnk(t)) \/ SlotIsReplaced(Lnk(t))
    /\ Bound(Lnk(t))' => Bound(Lnk(t)) \/ HasSlot(Lnk(t))'
EveryLinkStays == \A t \in Targets : LinkStays(t)
NoNewLinks == \A t \in Targets : Bound(Lnk(t))' => Bound(Lnk(t))

(* A step that parts only names outside the store from their files.        *)
LEMMA OrdinaryStep ==
    ASSUME NEW X, Apart(X), \A x \in X : x[1] \notin {"objects", "quarantine"}, NoNewLinks,
           \A t \in Targets : Ws(t) \in X => UserStep,
           \A t \in Targets : Lnk(t) \in X => ~Bound(Lnk(t))'
    PROVE  EveryLinkStays
  <1>1. \A r : r \notin X => HoldsOn(r)
    BY ApartHolds
  <1> QED BY <1>1 DEF EveryLinkStays, LinkStays, NoNewLinks

(* A step that moves a file to a path of the store.                        *)
LEMMA MovingStep ==
    ASSUME TypeInv, NEW p, Bound(p), p[1] \notin {"workspace", "tmp_link"},
           NEW q \in Names, q[1] \in {"objects", "quarantine"}, Rename(p, q),
           \/ ~Bound(q)
           \/ \E s \in Slots : q = Obj(s) /\ Replaces(s)
    PROVE  EveryLinkStays
  <1>1. \A t : Ws(t) # p /\ Ws(t) # q /\ Lnk(t) # p /\ Lnk(t) # q
    BY DEF Ws, Lnk
  <1>2. ASSUME NEW r, r # p, r # q PROVE HoldsOn(r) \/ SlotIsReplaced(r)
    <2>1. CASE Bound(q) => r \notin File(q).names
      BY <1>2, <2>1, RenameHolds
    <2>2. CASE Bound(q) /\ r \in File(q).names
      BY <2>2 DEF SlotIsReplaced
    <2> QED BY <2>1, <2>2
  <1>3. NoNewLinks
    <2>1. Traced(vol, vol', p, q)
      BY RenameStep DEF TypeInv
    <2> QED BY <1>1, <2>1 DEF NoNewLinks, Traced, Bound, Lnk
  <1> QED BY <1>1, <1>2, <1>3 DEF EveryLinkStays, LinkStays, NoNewLinks

LEMMA LinksAreOld ==
    ASSUME \A g \in vol' : \E f \in vol : g.names \subseteq f.names
    PROVE  NoNewLinks
  BY DEF NoNewLinks, Bound, Lnk

LEMMA UnlinkingStep ==
    ASSUME TypeInv, NEW p, p[1] \in {"tmp", "tmp_link", "workspace"}, Unlink(p),
           p[1] = "workspace" => UserStep
    PROVE  EveryLinkStays
  <1>1. Apart({p})
    BY UnlinkTogether
  <1>2. Traced(vol, vol', p, p) /\ \A g \in vol' : p \notin g.names
    BY UnlinkStep DEF TypeInv
  <1>3. NoNewLinks
    BY <1>2, LinksAreOld DEF Traced
  <1>4. \A t \in Targets : Lnk(t) = p => ~Bound(Lnk(t))'
    BY <1>2 DEF Bound, Lnk
  <1>5. \A t \in Targets : Ws(t) = p => UserStep
    BY DEF Ws
  <1> QED BY <1>1, <1>3, <1>4, <1>5, OrdinaryStep

LEMMA CreatingStep ==
    ASSUME TypeInv, NEW p \in Names, p[1] \in {"workspace", "tmp"},
           NEW d \in Contents, NEW b \in BOOLEAN, NEW m \in {"rw", "ro"}, Create(p, d, b, m),
           p[1] = "workspace" => UserStep
    PROVE  EveryLinkStays
  <1>1. Apart({p})
    BY CreateTogether
  <1>2. \A g \in vol' : g.names = {p} \/ \E f \in vol : g.names \subseteq f.names
    BY CreateStep DEF TypeInv
  <1>3. \A t \in Targets : Lnk(t) # p
    BY DEF Lnk
  <1>4. NoNewLinks
    BY <1>2, <1>3 DEF NoNewLinks, Bound, Lnk
  <1>5. \A t \in Targets : Ws(t) = p => UserStep
    BY DEF Ws
  <1> QED BY <1>1, <1>3, <1>4, <1>5, OrdinaryStep

LEMMA SameNamesStep ==
    ASSUME Apart({}), \A g \in vol' : \E f \in vol : g.names \subseteq f.names
    PROVE  EveryLinkStays
  BY LinksAreOld, OrdinaryStep

LEMMA StillStep ==
    ASSUME UNCHANGED vol
    PROVE  EveryLinkStays
  <1>1. \A f \in vol : f \in vol' /\ f.names \subseteq f.names
    OBVIOUS
  <1>2. \A g \in vol' : g \in vol /\ g.names \subseteq g.names
    OBVIOUS
  <1>3. Apart({})
    BY <1>1, SameTogether
  <1> QED BY <1>2, <1>3, SameNamesStep

LEMMA ChmodHolds ==
    ASSUME TypeInv, NEW p, NEW m \in {"rw", "ro"}, Chmod(p, m)
    PROVE  EveryLinkStays
  <1>1. Apart({})
    BY ChmodTogether
  <1>2. Traced(vol, vol', p, p)
    BY ChmodStep DEF TypeInv
  <1> QED BY <1>1, <1>2, SameNamesStep DEF Traced

LEMMA LinkHolds ==
    ASSUME TypeInv, NEW s \in Slots, NEW t \in Targets,
           Bound(Obj(s)), ~Bound(Lnk(t)), HardLink(Obj(s), Lnk(t))
    PROVE  EveryLinkStays
  <1>1. Apart({}) /\ \E g \in vol' : Obj(s) \in g.names /\ Lnk(t) \in g.names
    BY HardLinkTogether
  <1>2. \A r : HoldsOn(r)
    BY <1>1, ApartHolds
  <1>3. Traced(vol, vol', Obj(s), Lnk(t))
    BY NamesOf, HardLinkStep DEF TypeInv
  <1>4. \A x \in Targets : Bound(Lnk(x))' => Bound(Lnk(x)) \/ x = t
    BY <1>3 DEF Traced, Bound, Lnk
  <1>5. HasSlot(Lnk(t))'
    BY <1>1 DEF HasSlot, Held, Obj, Lnk
  <1> QED BY <1>2, <1>4, <1>5 DEF EveryLinkStays, LinkStays, HasSlot, Lnk

LEMMA SwapHolds ==
    ASSUME TypeInv, NEW w \in Workers, NEW t \in Targets, wk[w].tgt = t, Swap(w), Bound(Lnk(t))
    PROVE  EveryLinkStays
  <1> DEFINE X == {Lnk(t), Ws(t)}
  <1>0. Rename(Lnk(t), Ws(t))
    BY DEF Swap
  <1>1. /\ Apart(X)
        /\ \A r \in File(Lnk(t)).names \ {Lnk(t)} :
              \E g \in vol' : r \in g.names /\ Ws(t) \in g.names
    BY <1>0, RenameTogether
  <1>2. /\ Traced(vol, vol', Lnk(t), Ws(t))
        /\ vol' = vol \/ \A g \in vol' : Lnk(t) \notin g.names
    BY <1>0, NamesOf, RenameStep DEF TypeInv
  <1>3. CASE vol' = vol
    BY <1>3, StillStep
  <1>4. CASE \A g \in vol' : Lnk(t) \notin g.names
    <2>1. File(Lnk(t)) \in vol /\ Lnk(t) \in File(Lnk(t)).names
      BY FileOfName DEF TypeInv
    <2>2. HoldsOn(Ws(t)) \/ SwapsOrphanIn(t)
      <3>1. CASE ~HasSlot(Lnk(t))
        BY <3>1 DEF SwapsOrphanIn
      <3>2. CASE HasSlot(Lnk(t))
        <4>1. PICK f \in vol : Lnk(t) \in f.names /\ Held(f)
          BY <3>2 DEF HasSlot
        <4>2. f = File(Lnk(t))
          BY <4>1, FileOfName DEF TypeInv
        <4>3. PICK h \in File(Lnk(t)).names : h[1] \in {"objects", "quarantine"}
          BY <4>1, <4>2 DEF Held
        <4> QED BY <1>1, <4>3 DEF HoldsOn, Held, Lnk
      <3> QED BY <3>1, <3>2
    <2>3. \A x : (Lnk(x) \in X <=> x = t) /\ (Ws(x) \in X <=> x = t)
      BY DEF Lnk, Ws
    <2>4. \A x \in X : x[1] \notin {"objects", "quarantine"}
      BY DEF Lnk, Ws
    <2>5. NoNewLinks
      BY <1>2, <2>3 DEF NoNewLinks, Traced, Bound, Lnk, Ws
    <2>6. ~Bound(Lnk(t))'
      BY <1>4 DEF Bound, Lnk
    <2>7. \A r : r \notin X => HoldsOn(r)
      BY <1>1, <2>4, ApartHolds
    <2> QED BY <2>2, <2>3, <2>5, <2>6, <2>7 DEF EveryLinkStays, LinkStays, NoNewLinks
  <1> QED BY <1>2, <1>3, <1>4
-----------------------------------------------------------------------------
LEMMA WorkerHolds ==
    ASSUME TypeInv, NEW w \in Workers, WorkerStep(w)
    PROVE  EveryLinkStays
  <1>0. IsVolume(vol) /\ WkOK
    BY DEF TypeInv
  <1>1. ASSUME UNCHANGED vol PROVE EveryLinkStays
    BY <1>1, StillStep
  <1>2. ASSUME NEW f \in vol, NEW pc \in {"fill", "spillFill"}, StageCopy(w, f, pc)
        PROVE  EveryLinkStays
    <2>1. PICK k \in Stages : Create(Tmp(k), f.data, FALSE, f.mode)
      BY <1>2 DEF StageCopy
    <2>2. PICK d \in Contents, m \in {"rw", "ro"} : d = f.data /\ m = f.mode
      BY <1>0 DEF IsVolume, Files
    <2>3. PICK p \in Names, b \in BOOLEAN : p = Tmp(k) /\ Create(p, d, b, m)
      BY <2>1, <2>2, NamesOf
    <2>4. p[1] = "tmp"
      BY <2>3 DEF Tmp
    <2> QED BY <2>3, <2>4, CreatingStep
  <1>3. CASE SpillFill(w) \/ StageFill(w)
    <2>1. PICK from, to : Fill(w, from, to)
      BY <1>3 DEF SpillFill, StageFill
    <2>2. Apart({}) /\ \A g \in vol' : \E f \in vol : g.names = f.names
      BY <2>1, FillTogether, FillVolume
    <2> QED BY <2>2, SameNamesStep
  <1>4. ASSUME Unlink(MyStage(w)) PROVE EveryLinkStays
    <2>1. MyStage(w)[1] = "tmp"
      BY DEF MyStage, Tmp
    <2> QED BY <1>4, <2>1, UnlinkingStep
  <1>5. ASSUME NEW m \in {"rw", "ro"}, NEW p, Chmod(p, m)
        PROVE  EveryLinkStays
    BY <1>5, ChmodHolds
  <1>6. ASSUME NEW s \in Slots, ~Bound(Obj(s)) \/ Replaces(s), Bound(MyStage(w)),
               Rename(MyStage(w), Obj(s))
        PROVE  EveryLinkStays
    <2>1. MyStage(w)[1] = "tmp" /\ Obj(s)[1] = "objects"
      BY DEF MyStage, Tmp, Obj
    <2> QED BY <1>6, <2>1, NamesOf, MovingStep
  <1>7. ASSUME wk[w].pc # "idle", ~Bound(Obj(Slot(w))) \/ Replaces(Slot(w)), MoveIn(w)
        PROVE  EveryLinkStays
    BY <1>0, <1>1, <1>6, <1>7, SlotOfWorker DEF MoveIn
  <1>8. CASE Digest(w) \/ Lookup(w) \/ Redigest(w) \/ Acquire(w) \/ ExistsCheck(w)
             \/ Abort(w) \/ LinkBusy(w)
    BY <1>1, <1>8
    DEF Digest, Lookup, Redigest, Acquire, ExistsCheck, Abort, LinkBusy, ReadsOnly
  <1>9. CASE Spill(w)
    BY <1>0, <1>1, <1>2, <1>9, FileOfName DEF Spill, ReadsOnly
  <1>10. CASE SpillCheck(w)
    BY <1>1, <1>4, <1>10 DEF SpillCheck
  <1>11. CASE SpillMove(w)
    <2>1. NextSlot(w) \in Slots
      BY <1>0, <1>11, SlotOfWorker DEF SpillMove, At, SpillPcs
    <2>2. Replaces(NextSlot(w))
      BY <1>11 DEF Replaces
    <2> QED BY <1>1, <1>6, <1>11, <2>1, <2>2 DEF SpillMove
  <1>12. CASE Stage(w)
    BY <1>0, <1>1, <1>2, <1>12, FileOfName DEF Stage, ReadsOnly
  <1>13. CASE Publish(w)
    BY <1>1, <1>4, <1>7, <1>13 DEF Publish, At
  <1>14. CASE PublishRename(w)
    <2>1. Replaces(Slot(w))
      BY <1>14 DEF Replaces
    <2> QED BY <1>7, <1>14, <2>1 DEF PublishRename, At
  <1>15. CASE PublishFails(w)
    BY <1>4, <1>15 DEF PublishFails
  <1>16. CASE SwapFails(w)
    <2>1. Unlink(Lnk(wk[w].tgt)) /\ Lnk(wk[w].tgt)[1] = "tmp_link"
      BY <1>16 DEF SwapFails, Lnk
    <2> QED BY <2>1, UnlinkingStep
  <1>17. CASE LockMaster(w) \/ Strip(w) \/ Relock(w)
    BY <1>5, <1>17 DEF LockMaster, Strip, Relock, EnforceReadOnly
  <1>18. CASE Link(w)
    <2>1. PICK t \in Targets, s \in Slots : t = wk[w].tgt /\ s = Slot(w)
      BY <1>0, <1>18, SlotOfWorker DEF Link, At, WkOK, WorkerOK
    <2> QED BY <1>1, <1>18, <2>1, LinkHolds DEF Link
  <1>19. CASE Swap(w)
    <2>1. PICK t \in Targets : t = wk[w].tgt
      BY <1>0, <1>19 DEF Swap, At, WkOK, WorkerOK
    <2>2. CASE Bound(Lnk(t))
      BY <1>19, <2>1, <2>2, SwapHolds
    <2>3. CASE ~Bound(Lnk(t))
      BY <1>1, <1>19, <2>1, <2>3 DEF Swap
    <2> QED BY <2>2, <2>3
  <1> QED
    BY <1>3, <1>8, <1>9, <1>10, <1>11, <1>12, <1>13, <1>14, <1>15, <1>16, <1>17, <1>18, <1>19
    DEF WorkerStep, Progress, Failure

LEMMA SweepHolds ==
    ASSUME TypeInv, NEW k \in Stages, SweepStage(k)
    PROVE  EveryLinkStays
  <1>1. Tmp(k)[1] = "tmp"
    BY DEF Tmp
  <1> QED BY <1>1, UnlinkingStep DEF SweepStage

(* A user parts a file from the store, but no temporary link.              *)
LEMMA UserHolds ==
    ASSUME TypeInv, UserStep
    PROVE  EveryLinkStays
  <1>0. IsVolume(vol)
    BY DEF TypeInv
  <1>1. ASSUME NEW t \in Targets, NEW c \in Contents, Rewrite(t, c) PROVE EveryLinkStays
    <2>1. PICK p \in Names, b \in BOOLEAN, m \in {"rw", "ro"} : p = Ws(t) /\ Create(p, c, b, m)
      BY <1>1, NamesOf DEF Rewrite
    <2>2. p[1] = "workspace"
      BY <2>1 DEF Ws
    <2> QED BY <2>1, <2>2, CreatingStep
  <1>2. ASSUME NEW t \in Targets, NEW c \in Contents, EditInPlace(t, c) PROVE EveryLinkStays
    <2> DEFINE f == File(Ws(t))
               h == [f EXCEPT !.data = c]
    <2>1. f \in vol /\ vol' = Replaced(vol, f, h)
      BY <1>0, <1>2, FileOfName DEF EditInPlace
    <2>2. f \in Files
      BY <1>0, <2>1 DEF IsVolume
    <2>3. h.names = f.names
      BY <2>2 DEF Files
    <2> HIDE DEF f, h
    <2>4. Apart({})
      BY <2>1, <2>3, ChangedTogether
    <2>5. \A g \in vol' : \E e \in vol : g.names \subseteq e.names
      BY <2>1, <2>3 DEF Replaced
    <2> QED BY <2>4, <2>5, SameNamesStep
  <1>3. ASSUME NEW t \in Targets, Delete(t) PROVE EveryLinkStays
    <2>1. Unlink(Ws(t)) /\ Ws(t)[1] = "workspace"
      BY <1>3 DEF Delete, Ws
    <2> QED BY <2>1, UnlinkingStep
  <1> QED BY <1>1, <1>2, <1>3 DEF UserStep

LEMMA GcHolds ==
    ASSUME TypeInv, Stamped, Orphans, CountsLinks, NEW g \in Gcs, GcStep(g)
    PROVE  EveryLinkStays
  <1>0. GcOK(g)
    BY DEF TypeInv, GcsOK
  <1>1. ASSUME UNCHANGED vol PROVE EveryLinkStays
    BY <1>1, StillStep
  <1>2. CASE StatSlot(g) \/ StatEntry(g) \/ GcAbort(g)
    BY <1>1, <1>2 DEF StatSlot, StatEntry, GcAbort
  <1>3. CASE MoveToQuarantine(g)
    <2> DEFINE p == Obj(gc[g].slot)
               q == Qua(gc[g].entry)
    <2>1. q \in Names /\ ~Bound(q)
      BY <1>0, <1>3, NamesOf DEF MoveToQuarantine, GcAt, GcOK, Stamped
    <2>2. p[1] = "objects" /\ q[1] = "quarantine"
      BY DEF Obj, Qua
    <2>3. CASE Bound(p)
      <3>1. Rename(p, q)
        BY <1>3, <2>3 DEF MoveToQuarantine, RenameIfThere
      <3> HIDE DEF p, q
      <3> QED BY <2>1, <2>2, <2>3, <3>1, MovingStep
    <2> QED BY <1>1, <1>3, <2>3 DEF MoveToQuarantine, RenameIfThere
  <1>4. CASE Resurrect(g)
    <2> DEFINE p == Qua(gc[g].entry)
               s == gc[g].entry[2]
               q == Obj(s)
    <2>1. q \in Names /\ s \in Slots /\ Replaces(s)
      BY <1>0, <1>4, NamesOf DEF Resurrect, GcAt, GcOK, Entries, Replaces
    <2>2. p[1] = "quarantine" /\ q[1] = "objects"
      BY DEF Obj, Qua
    <2>3. CASE Bound(p)
      <3>1. Rename(p, q)
        BY <1>4, <2>3 DEF Resurrect, RenameIfThere
      <3> HIDE DEF p, s
      <3> QED BY <2>1, <2>2, <2>3, <3>1, MovingStep
    <2> QED BY <1>1, <1>4, <2>3 DEF Resurrect, RenameIfThere
  <1>5. CASE Purge(g)
    <2> DEFINE p == Qua(gc[g].entry)
    <2>1. Unlink(p)
      BY <1>5 DEF Purge
    <2>2. \A f \in vol : p \in f.names => f.names = {p}
      BY <1>5 DEF Purge, Orphans
    <2>3. \A t : Ws(t) # p /\ Lnk(t) # p
      BY DEF Ws, Lnk, Qua
    <2> HIDE DEF p
    <2>4. Apart({p}) /\ Traced(vol, vol', p, p)
      BY <2>1, UnlinkTogether, UnlinkStep DEF TypeInv
    <2>5. ASSUME NEW r, r # p PROVE HoldsOn(r)
      BY <2>2, <2>4, <2>5 DEF HoldsOn, Held, Apart
    <2>6. NoNewLinks
      BY <2>4, LinksAreOld DEF Traced
    <2> QED BY <2>3, <2>5, <2>6 DEF EveryLinkStays, LinkStays, NoNewLinks
  <1> QED BY <1>2, <1>3, <1>4, <1>5 DEF GcStep

LEMMA NextHolds ==
    ASSUME TypeInv, Stamped, Orphans, CountsLinks \/ Gcs = {}, [Next]_vars
    PROVE  EveryLinkStays
  <1>1. CASE \E w \in Workers : WorkerStep(w)
    BY <1>1, WorkerHolds
  <1>2. CASE \E g \in Gcs : GcStep(g)
    BY <1>2, GcHolds
  <1>3. CASE UserStep
    BY <1>3, UserHolds
  <1>4. CASE \E k \in Stages : SweepStage(k)
    BY <1>4, SweepHolds
  <1>5. CASE UNCHANGED vol
    BY <1>5, StillStep
  <1> QED BY <1>1, <1>2, <1>3, <1>4, <1>5 DEF Next, Tick, vars

LEMMA HoldingKeepsSlots ==
    ASSUME NEW r, HoldsOn(r)
    PROVE  ~LosesItsSlot(r) /\ (HasSlot(r) => \E g \in vol' : r \in g.names /\ Held(g))
  BY DEF HoldsOn, HasSlot, LosesItsSlot, Held

(* On every build, with crashes, sweeps, failed swaps and collectors that  *)
(* can count links: a workspace file loses its slot only by its user, as   *)
(* that slot is replaced, or by a swap of a temporary link that lost its   *)
(* own that way (publish_new_master, spill_slot, evaluate_quarantine_entry,*)
(* link_to_master).                                                        *)
THEOREM LinksPartByReplacement ==
    ASSUME CountsLinks \/ Gcs = {}
    PROVE  Spec => PartedByReplacementOnly
  <1> DEFINE A == \A t \in Targets :
                /\ LosesItsSlot(Ws(t)) => UserStep \/ SlotIsReplaced(Ws(t)) \/ SwapsOrphanIn(t)
                /\ LosesItsSlot(Lnk(t)) /\ Bound(Lnk(t))' => SlotIsReplaced(Lnk(t))
  <1>1. ASSUME TypeInv, Stamped, Orphans, [Next]_vars PROVE A
    <2> SUFFICES ASSUME NEW t \in Targets
                 PROVE  /\ LosesItsSlot(Ws(t)) =>
                              UserStep \/ SlotIsReplaced(Ws(t)) \/ SwapsOrphanIn(t)
                        /\ LosesItsSlot(Lnk(t)) /\ Bound(Lnk(t))' => SlotIsReplaced(Lnk(t))
      OBVIOUS
    <2>1. LinkStays(t)
      BY <1>1, NextHolds DEF EveryLinkStays
    <2>2. /\ HoldsOn(Ws(t)) => ~LosesItsSlot(Ws(t))
          /\ HoldsOn(Lnk(t)) => ~LosesItsSlot(Lnk(t))
      BY HoldingKeepsSlots
    <2> QED BY <2>1, <2>2 DEF LinkStays
  <1> QED BY <1>1, StampsInvariant, PTL DEF Spec, PartedByReplacementOnly

(* A temporary link is a link to a file of the store, as long as no rename *)
(* into objects/ replaces a slot that came to be there in the meantime.    *)
LinksHeld == \A t \in Targets : Bound(Lnk(t)) => HasSlot(Lnk(t))
Displaces == \E s \in Slots : Bound(Obj(s)) /\ Replaces(s)

LEMMA LinksGoOnBeingHeld ==
    ASSUME LinksHeld, EveryLinkStays, ~Displaces
    PROVE  LinksHeld' /\ ((\A t \in Targets : Deduplicated(t) => Deduplicated(t)') \/ UserStep)
  <1>1. \A r : ~SlotIsReplaced(r)
    BY DEF SlotIsReplaced, Displaces
  <1>2. \A t \in Targets : ~SwapsOrphanIn(t)
    BY DEF SwapsOrphanIn, LinksHeld
  <1>3. LinksHeld'
    <2> SUFFICES ASSUME NEW t \in Targets, Bound(Lnk(t))' PROVE HasSlot(Lnk(t))'
      BY DEF LinksHeld
    <2>1. LinkStays(t)
      BY DEF EveryLinkStays
    <2>2. CASE HasSlot(Lnk(t))'
      BY <2>2
    <2>3. CASE Bound(Lnk(t)) /\ HoldsOn(Lnk(t))
      BY <2>3, HoldingKeepsSlots DEF LinksHeld, LosesItsSlot
    <2> QED BY <1>1, <2>1, <2>2, <2>3 DEF LinkStays
  <1>4. ASSUME ~UserStep, NEW t \in Targets, Deduplicated(t) PROVE Deduplicated(t)'
    <2>1. HoldsOn(Ws(t))
      BY <1>1, <1>2, <1>4 DEF EveryLinkStays, LinkStays
    <2> QED BY <1>4, <2>1, HoldingKeepsSlots DEF Deduplicated, LosesItsSlot
  <1> QED BY <1>3, <1>4

(* A deduplicated file stays so, through crashes, races, failed swaps and  *)
(* collections, unless a rename replaces a slot: the master that a worker  *)
(* lost sight of, or the slot that an entry is brought back to             *)
(* (publish_new_master, spill_slot, evaluate_quarantine_entry).            *)
THEOREM OnlyDisplacingParts ==
    ASSUME CountsLinks \/ Gcs = {}
    PROVE  Spec /\ [][~Displaces]_vars => StaysDeduplicated
  <1> DEFINE A == (\A t \in Targets : Deduplicated(t) => Deduplicated(t)') \/ UserStep
             I == TypeInv /\ Stamped /\ Orphans
  <1>1. Init => LinksHeld
    BY DEF Init, LinksHeld, Bound, Ws, Lnk
  <1>2. ASSUME I, LinksHeld, [Next]_vars, [~Displaces]_vars PROVE LinksHeld' /\ [A]_vars
    <2>1. CASE UNCHANGED vars
      BY <1>2, <2>1 DEF vars, LinksHeld, HasSlot, Bound, Lnk
    <2>2. CASE ~Displaces
      BY <1>2, <2>2, NextHolds, LinksGoOnBeingHeld
    <2> QED BY <1>2, <2>1, <2>2
  <1>3. Spec => []I
    BY StampsInvariant, PTL
  <1> QED BY <1>1, <1>2, <1>3, PTL DEF Spec, StaysDeduplicated

-----------------------------------------------------------------------------
(* A worker alone.  Between its look at a slot's path and its rename nobody*)
(* else makes a slot there.                                                *)
PathsFree == \A w \in Workers :
    /\ At(w, "spillMove") => ~Bound(Obj(NextSlot(w)))
    /\ At(w, "rename")    => ~Bound(Obj(Slot(w)))

LEMMA WhoIsAboutToRename ==
    ASSUME NEW w \in Workers, WkOK, WorkerStep(w), wk'[w].pc \in {"spillMove", "rename"}
    PROVE  /\ UNCHANGED vol /\ SamePlace(w)
           /\ wk'[w].pc = "spillMove" => ~Bound(Obj(NextSlot(w)))
           /\ wk'[w].pc = "rename"    => ~Bound(Obj(Slot(w)))
  <1>0. wk \in [Workers -> WorkerStates] /\ wk[w] \in WorkerStates
    BY DEF WkOK
  <1>1. ASSUME NEW pc, Goto(w, pc), pc \notin {"spillMove", "rename"} PROVE FALSE
    BY <1>1, PlaceAfterGoto
  <1>2. ASSUME Return(w) PROVE FALSE
    BY <1>2, AfterReturn
  <1>3. ASSUME NEW f, NEW pc, StageCopy(w, f, pc), pc \notin {"spillMove", "rename"} PROVE FALSE
    <2>1. PICK k : wk' = [wk EXCEPT ![w].pc = pc, ![w].stg = k]
      BY <1>3 DEF StageCopy
    <2>2. wk'[w].pc = pc
      BY <2>1, PlaceAfterStaging
    <2> QED BY <1>3, <2>2
  <1>4. ASSUME \/ wk' = [wk EXCEPT ![w].idx = @ + 1, ![w].pc = Acquired(w)]
               \/ wk' = [wk EXCEPT ![w].idx = @ + 1, ![w].stg = None, ![w].pc = Acquired(w)]
        PROVE  FALSE
    BY <1>4, NextSlotPc
  <1>5. CASE Digest(w)
    <2>1. PICK t \in Targets :
            wk' = [wk EXCEPT ![w] = [IdleWorker EXCEPT !.pc = "lookup", !.tgt = t,
                                                      !.dig = File(Ws(t)).data]]
      BY <1>5 DEF Digest
    <2> DEFINE d == File(Ws(t)).data
    <2>2. wk'[w] = [IdleWorker EXCEPT !.pc = "lookup", !.tgt = t, !.dig = d]
      BY <1>0, <2>1
    <2> HIDE DEF d
    <2>3. wk'[w].pc = "lookup"
      BY <2>2, IdleWorkerOK DEF WorkerStates
    <2> QED BY <2>3
  <1>6. CASE Lookup(w)
    BY <1>0, <1>1, <1>6 DEF Lookup, WorkerStates
  <1>7. CASE Redigest(w)
    <2> DEFINE d == File(Ws(wk[w].tgt)).data
    <2>1. Return(w) \/ wk' = [wk EXCEPT ![w].dig = d, ![w].pc = "acquire"]
      BY <1>7 DEF Redigest
    <2> HIDE DEF d
    <2> QED BY <1>0, <1>2, <2>1 DEF WorkerStates
  <1>8. CASE Acquire(w)
    <2>1. Acquired(w) \in {"exists", "strip"} /\ wk[w].pc = "acquire"
      BY <1>8 DEF Acquired, Acquire, At
    <2>2. CASE wk' = [wk EXCEPT ![w].idx = @ + 1]
      BY <1>0, <2>1, <2>2 DEF WorkerStates
    <2> QED BY <1>1, <1>8, <2>1, <2>2 DEF Acquire
  <1>9. CASE SpillCheck(w)
    <2>1. CASE Bound(Obj(NextSlot(w)))
      BY <1>4, <1>9, <2>1 DEF SpillCheck
    <2>2. CASE ~Bound(Obj(NextSlot(w)))
      BY <1>9, <2>2, PlaceAfterGoto DEF SpillCheck
    <2> QED BY <2>1, <2>2
  <1>10. CASE Spill(w) \/ SpillMove(w)
    BY <1>2, <1>3, <1>4, <1>10 DEF Spill, SpillMove
  <1>11. CASE SpillFill(w) \/ ExistsCheck(w) \/ Stage(w) \/ StageFill(w)
    BY <1>1, <1>2, <1>3, <1>11 DEF SpillFill, StageFill, Fill, ExistsCheck, Stage
  <1>12. ASSUME MoveIn(w) PROVE FALSE
    BY <1>2, <1>12, PlaceAfterStaging DEF MoveIn
  <1>13. CASE Publish(w)
    BY <1>2, <1>12, <1>13, PlaceAfterGoto DEF Publish
  <1>14. CASE PublishRename(w)
    BY <1>12, <1>14 DEF PublishRename
  <1>15. CASE LockMaster(w) \/ Strip(w) \/ Link(w) \/ Swap(w) \/ Relock(w)
    BY <1>1, <1>2, <1>15 DEF LockMaster, Relock, EnforceReadOnly, Strip, Link, Swap
  <1>16. CASE Failure(w)
    BY <1>2, <1>16 DEF Failure, Abort, PublishFails, LinkBusy, SwapFails, Defer
  <1> QED
    BY <1>5, <1>6, <1>7, <1>8, <1>9, <1>10, <1>11, <1>13, <1>14, <1>15, <1>16
    DEF WorkerStep, Progress

LEMMA NextPathsFree ==
    ASSUME TypeInv, OneStoreName, StagedAlone, PathsFree,
           \A v, w \in Workers : v = w, Gcs = {}, [Next]_vars
    PROVE  StagedAlone' /\ PathsFree'
  <1>0. WkOK
    BY DEF TypeInv
  <1>1. CASE \E w \in Workers : WorkerStep(w)
    <2>1. PICK w \in Workers : WorkerStep(w)
      BY <1>1
    <2>2. StagedAlone'
      BY <2>1, WorkerSlots
    <2>3. CASE wk'[w].pc \in {"spillMove", "rename"}
      <3>1. /\ UNCHANGED vol /\ SamePlace(w)
            /\ wk'[w].pc = "spillMove" => ~Bound(Obj(NextSlot(w)))
            /\ wk'[w].pc = "rename"    => ~Bound(Obj(Slot(w)))
        BY <1>0, <2>1, <2>3, WhoIsAboutToRename
      <3>2. NextSlot(w)' = NextSlot(w) /\ Slot(w)' = Slot(w)
        BY <3>1 DEF SamePlace, NextSlot, Slot
      <3>3. /\ At(w, "spillMove")' => ~Bound(Obj(NextSlot(w)))'
            /\ At(w, "rename")'    => ~Bound(Obj(Slot(w)))'
        BY <3>1, <3>2 DEF At, Bound, Obj
      <3> QED BY <2>2, <3>3 DEF PathsFree
    <2>4. CASE wk'[w].pc \notin {"spillMove", "rename"}
      BY <2>2, <2>4 DEF PathsFree, At
    <2> QED BY <2>3, <2>4
  <1>2. ASSUME UNCHANGED wk, StagedAlone', SlotsKept({})
        PROVE  StagedAlone' /\ PathsFree'
    <2>1. \A s \in Slots : Bound(Obj(s))' => Bound(Obj(s))
      BY <1>2 DEF SlotsKept, Bound, Obj
    <2>2. ASSUME NEW w \in Workers, At(w, "spillMove")' PROVE ~Bound(Obj(NextSlot(w)))'
      <3>1. At(w, "spillMove") /\ NextSlot(w) \in Slots /\ NextSlot(w)' = NextSlot(w)
        BY <1>0, <1>2, <2>2, SlotOfWorker DEF At, NextSlot, SpillPcs
      <3> QED BY <2>1, <3>1 DEF PathsFree, Bound, Obj
    <2>3. ASSUME NEW w \in Workers, At(w, "rename")' PROVE ~Bound(Obj(Slot(w)))'
      <3>1. At(w, "rename") /\ Slot(w) \in Slots /\ Slot(w)' = Slot(w)
        BY <1>0, <1>2, <2>3, SlotOfWorker DEF At, Slot
      <3> QED BY <2>1, <3>1 DEF PathsFree, Bound, Obj
    <2> QED BY <1>2, <2>2, <2>3 DEF PathsFree
  <1>3. CASE UserStep \/ \E k \in Stages : SweepStage(k)
    <2>1. UNCHANGED wk
      BY <1>3 DEF UserStep, Rewrite, EditInPlace, Delete, OthersUnchanged, SweepStage
    <2> QED BY <1>2, <1>3, <2>1, OtherSlots
  <1>4. CASE UNCHANGED <<vol, wk>>
    BY <1>2, <1>4, ShrunkSlots
  <1> QED BY <1>1, <1>3, <1>4 DEF Next, Tick, vars

(* A single ingest process, with no collector at work, replaces no slot:   *)
(* on every build, with crashes, sweeps and users at any time, a           *)
(* deduplicated file stays so until its user acts (cmd_ingest).            *)
THEOREM AloneDeduplicatesForGood ==
    ASSUME \A v, w \in Workers : v = w, Gcs = {}
    PROVE  Spec => StaysDeduplicated
  <1>1. Init => StagedAlone /\ PathsFree
    BY NamesDiffer DEF Init, LinkInit, IdleWorker, StagedAlone, PathsFree, At
  <1>2. TypeInv /\ OneStoreName /\ StagedAlone /\ PathsFree /\ [Next]_vars
        => StagedAlone' /\ PathsFree'
    BY NextPathsFree
  <1>3. PathsFree => ~Displaces
    BY DEF PathsFree, Displaces, Replaces, PublishRename, SpillMove
  <1>4. Spec => [][~Displaces]_vars
    BY <1>1, <1>2, <1>3, TypesInvariant, StoreNamesAreUnique, PTL DEF Spec
  <1> QED BY <1>4, OnlyDisplacingParts, PTL

(* With a rename that does not replace, any number of workers that race to *)
(* publish part no file: what is left to them is a spill onto a slot that  *)
(* another one spilled to meanwhile (spill_slot, atomic_rename_noreplace). *)
SpillReplaces == \E w \in Workers : SpillMove(w) /\ Bound(Obj(NextSlot(w)))

THEOREM PublishersPartNothing ==
    ASSUME NoReplace, Gcs = {}
    PROVE  Spec /\ [][~SpillReplaces]_vars => StaysDeduplicated
  <1>1. RenamesAtOnce /\ [~SpillReplaces]_vars => [~Displaces]_vars
    BY DEF RenamesAtOnce, SpillReplaces, Displaces, Replaces, PublishRename
  <1>2. Spec /\ [][~SpillReplaces]_vars => [][~Displaces]_vars
    BY <1>1, RenamesInvariant, PTL
  <1> QED BY <1>2, OnlyDisplacingParts, PTL
-----------------------------------------------------------------------------
(* Where no collector is at work slots stay, and a worker's walk has seen  *)
(* every slot up to its own.                                               *)
WalkedBy(w) ==
    /\ wk[w].pc \in {"lookup", "redigest"} => wk[w].idx = 0
    /\ wk[w].pc # "idle" => \A n \in 0 .. MaxSlot : n < wk[w].idx => Exists(wk[w].dig, n)
    /\ wk[w].pc \in SpillPcs => Exists(wk[w].dig, wk[w].idx)
Walked == \A w \in Workers : WalkedBy(w)

SlotsStay == \A s \in Slots : Bound(Obj(s)) => Bound(Obj(s))'

LEMMA StillSlots ==
    ASSUME UNCHANGED vol
    PROVE  SlotsStay
  BY DEF SlotsStay, Bound, Obj

LEMMA KeptSlots ==
    ASSUME NEW p, Kept(vol, vol', p), p[1] # "objects"
    PROVE  SlotsStay
  <1>1. \A s \in Slots : Obj(s) # p
    BY DEF Obj
  <1> QED BY <1>1 DEF SlotsStay, Kept, Bound, Obj

LEMMA WorkerKeepsSlots ==
    ASSUME TypeInv, NEW w \in Workers, WorkerStep(w)
    PROVE  SlotsStay
  <1>0. IsVolume(vol) /\ WkOK
    BY DEF TypeInv
  <1>1. ASSUME UNCHANGED vol PROVE SlotsStay
    BY <1>1, StillSlots
  <1>2. ASSUME NEW f \in vol, NEW pc \in {"fill", "spillFill"}, StageCopy(w, f, pc)
        PROVE  SlotsStay
    <2>1. PICK k \in Stages : Create(Tmp(k), f.data, FALSE, f.mode)
      BY <1>2 DEF StageCopy
    <2>2. PICK d \in Contents, m \in {"rw", "ro"} : d = f.data /\ m = f.mode
      BY <1>0 DEF IsVolume, Files
    <2>3. PICK p \in Names, b \in BOOLEAN : p = Tmp(k) /\ Create(p, d, b, m)
      BY <2>1, <2>2, NamesOf
    <2>4. Kept(vol, vol', p) /\ p[1] = "tmp"
      BY <1>0, <2>3, CreateStep DEF Tmp
    <2> QED BY <2>4, KeptSlots
  <1>3. CASE SpillFill(w) \/ StageFill(w)
    <2>1. \A r : Bound(r) => Bound(r)'
      BY <1>3, FillVolume DEF SpillFill, StageFill
    <2> QED BY <2>1 DEF SlotsStay, Bound, Obj
  <1>4. ASSUME NEW p, Unlink(p), p[1] # "objects" PROVE SlotsStay
    BY <1>0, <1>4, UnlinkStep, KeptSlots
  <1>5. ASSUME NEW p, NEW q \in Names, Bound(p), Rename(p, q), p[1] # "objects" PROVE SlotsStay
    BY <1>0, <1>5, RenameStep, KeptSlots
  <1>6. MyStage(w)[1] = "tmp" /\ Lnk(wk[w].tgt)[1] = "tmp_link"
    BY DEF MyStage, Tmp, Lnk
  <1>7. ASSUME wk[w].pc # "idle", MoveIn(w) PROVE SlotsStay
    BY <1>0, <1>1, <1>5, <1>6, <1>7, SlotOfWorker, NamesOf DEF MoveIn
  <1>8. ASSUME NEW m \in {"rw", "ro"}, NEW p, Chmod(p, m) PROVE SlotsStay
    <2>1. \A r : Bound(r) => Bound(r)'
      BY <1>0, <1>8, ChmodStep
    <2> QED BY <2>1 DEF SlotsStay, Bound, Obj
  <1>9. CASE Digest(w) \/ Lookup(w) \/ Redigest(w) \/ Acquire(w) \/ ExistsCheck(w)
             \/ Abort(w) \/ LinkBusy(w)
    BY <1>1, <1>9
    DEF Digest, Lookup, Redigest, Acquire, ExistsCheck, Abort, LinkBusy, ReadsOnly
  <1>10. CASE Spill(w)
    BY <1>0, <1>1, <1>2, <1>10, FileOfName DEF Spill, ReadsOnly
  <1>11. CASE SpillCheck(w)
    BY <1>1, <1>4, <1>6, <1>11 DEF SpillCheck
  <1>12. CASE SpillMove(w)
    <2>1. Obj(NextSlot(w)) \in Names
      BY <1>0, <1>12, SlotOfWorker, NamesOf DEF SpillMove, At, SpillPcs
    <2> QED BY <1>1, <1>5, <1>6, <1>12, <2>1 DEF SpillMove
  <1>13. CASE Stage(w)
    BY <1>0, <1>1, <1>2, <1>13, FileOfName DEF Stage, ReadsOnly
  <1>14. CASE Publish(w) \/ PublishRename(w)
    BY <1>1, <1>4, <1>6, <1>7, <1>14 DEF Publish, PublishRename, At
  <1>15. CASE PublishFails(w) \/ SwapFails(w)
    BY <1>4, <1>6, <1>15 DEF PublishFails, SwapFails
  <1>16. CASE LockMaster(w) \/ Strip(w) \/ Relock(w)
    BY <1>8, <1>16 DEF LockMaster, Strip, Relock, EnforceReadOnly
  <1>17. CASE Link(w)
    <2>1. CASE Bound(Obj(Slot(w))) /\ ~Bound(Lnk(wk[w].tgt))
      <3>1. HardLink(Obj(Slot(w)), Lnk(wk[w].tgt)) /\ Lnk(wk[w].tgt) \in Names
        BY <1>0, <1>17, <2>1, NamesOf DEF Link, At, WkOK, WorkerOK
      <3>2. Kept(vol, vol', Lnk(wk[w].tgt))
        BY <1>0, <2>1, <3>1, HardLinkStep
      <3> QED BY <1>6, <3>2, KeptSlots
    <2> QED BY <1>1, <1>17, <2>1 DEF Link
  <1>18. CASE Swap(w)
    <2>1. Ws(wk[w].tgt) \in Names
      BY <1>0, <1>18, NamesOf DEF Swap, At, WkOK, WorkerOK
    <2> QED BY <1>1, <1>5, <1>6, <1>18, <2>1 DEF Swap
  <1> QED
    BY <1>3, <1>9, <1>10, <1>11, <1>12, <1>13, <1>14, <1>15, <1>16, <1>17, <1>18
    DEF WorkerStep, Progress, Failure

LEMMA OthersKeepSlots ==
    ASSUME TypeInv, UserStep \/ \E k \in Stages : SweepStage(k)
    PROVE  SlotsStay
  <1>1. CASE UserStep
    <2>1. PICK t \in Targets : (\E c \in Contents : Rewrite(t, c) \/ EditInPlace(t, c)) \/ Delete(t)
      BY <1>1 DEF UserStep
    <2>2. \A r : r # Ws(t) /\ Bound(r) => Bound(r)'
      BY <2>1, UserPaths
    <2> QED BY <2>2, NamesDiffer DEF SlotsStay, Bound, Obj
  <1>2. CASE \E k \in Stages : SweepStage(k)
    <2>1. PICK k \in Stages : Unlink(Tmp(k))
      BY <1>2 DEF SweepStage
    <2>2. Kept(vol, vol', Tmp(k)) /\ Tmp(k)[1] = "tmp"
      BY <2>1, UnlinkStep DEF TypeInv, Tmp
    <2> QED BY <2>2, KeptSlots
  <1> QED BY <1>1, <1>2

(* A worker that goes on with its slot, or with the next one.              *)
SameSlot(w) == wk'[w].dig = wk[w].dig /\ wk'[w].idx = wk[w].idx

LEMMA WalkGoesOn ==
    ASSUME TypeInv, SlotsStay, NEW w \in Workers, WalkedBy(w), wk[w].pc # "idle",
           wk'[w].dig = wk[w].dig,
           \/ wk'[w].idx = wk[w].idx
           \/ wk'[w].idx = wk[w].idx + 1 /\ Exists(wk[w].dig, wk[w].idx),
           wk'[w].pc \in {"lookup", "redigest"} => wk'[w].idx = 0,
           wk'[w].pc \in SpillPcs => SameSlot(w) /\ Exists(wk[w].dig, wk[w].idx)
    PROVE  WalkedBy(w)'
  <1>1. wk[w].dig \in Contents /\ wk[w].idx \in 0 .. MaxSlot
    BY DEF TypeInv, WkOK, WorkerOK, WorkerStates
  <1>2. \A n \in 0 .. MaxSlot : Exists(wk[w].dig, n) => Exists(wk[w].dig, n)'
    BY <1>1 DEF SlotsStay, Slots, Exists, Bound, Obj
  <1>3. \A n \in 0 .. MaxSlot : n < wk'[w].idx => Exists(wk[w].dig, n)
    BY <1>1, Constants DEF WalkedBy
  <1> QED BY <1>1, <1>2, <1>3 DEF WalkedBy, SameSlot, Exists

LEMMA WorkerWalks ==
    ASSUME TypeInv, SlotsStay, NEW w \in Workers, WalkedBy(w), WorkerStep(w)
    PROVE  WalkedBy(w)'
  <1>0. WkOK /\ wk \in [Workers -> WorkerStates] /\ wk[w] \in WorkerStates
    BY DEF TypeInv, WkOK
  <1>1. ASSUME NEW pc, Goto(w, pc), pc \notin {"lookup", "redigest"}, wk[w].pc # "idle",
               pc \in SpillPcs => Exists(wk[w].dig, wk[w].idx)
        PROVE  WalkedBy(w)'
    BY <1>0, <1>1, PlaceAfterGoto, WalkGoesOn DEF SamePlace, SameSlot
  <1>2. ASSUME Return(w) PROVE WalkedBy(w)'
    BY <1>0, <1>2, AfterReturn DEF WalkedBy, SpillPcs
  <1>3. ASSUME NEW f, NEW pc, StageCopy(w, f, pc), wk[w].pc # "idle",
               pc \notin {"lookup", "redigest"},
               pc \in SpillPcs => Exists(wk[w].dig, wk[w].idx)
        PROVE  WalkedBy(w)'
    <2>1. PICK k : wk' = [wk EXCEPT ![w].pc = pc, ![w].stg = k]
      BY <1>3 DEF StageCopy
    <2>2. wk'[w].pc = pc /\ SameSlot(w)
      BY <1>0, <2>1, PlaceAfterStaging DEF SamePlace, SameSlot
    <2> QED BY <1>3, <2>2, WalkGoesOn DEF SameSlot
  <1>4. ASSUME wk[w].pc \in SpillPcs,
               \/ wk' = [wk EXCEPT ![w].idx = @ + 1, ![w].pc = Acquired(w)]
               \/ wk' = [wk EXCEPT ![w].idx = @ + 1, ![w].stg = None, ![w].pc = Acquired(w)]
        PROVE  WalkedBy(w)'
    <2>1. /\ wk'[w].pc \in {"exists", "strip"} /\ wk'[w].dig = wk[w].dig
          /\ wk'[w].idx = wk[w].idx + 1
      BY <1>0, <1>4, PlaceAfterNextSlot, NextSlotPc
    <2>2. Exists(wk[w].dig, wk[w].idx) /\ wk[w].pc # "idle"
      BY <1>4 DEF WalkedBy, SpillPcs
    <2> QED BY <2>1, <2>2, WalkGoesOn DEF SpillPcs
  <1>5. CASE Digest(w)
    <2>1. PICK t \in Targets :
            wk' = [wk EXCEPT ![w] = [IdleWorker EXCEPT !.pc = "lookup", !.tgt = t,
                                                      !.dig = File(Ws(t)).data]]
      BY <1>5 DEF Digest
    <2> DEFINE d == File(Ws(t)).data
    <2>2. wk'[w] = [IdleWorker EXCEPT !.pc = "lookup", !.tgt = t, !.dig = d]
      BY <1>0, <2>1
    <2> HIDE DEF d
    <2>3. wk'[w].pc = "lookup" /\ wk'[w].idx = 0
      BY <2>2 DEF IdleWorker
    <2>4. \A n \in 0 .. MaxSlot : ~(n < 0)
      BY Constants
    <2> QED BY <2>3, <2>4 DEF WalkedBy, SpillPcs
  <1>6. CASE Lookup(w)
    <2>1. wk[w].pc = "lookup" /\ wk[w].idx = 0
      BY <1>6 DEF Lookup, At, WalkedBy
    <2>2. wk'[w].pc \in {"acquire", "redigest"} /\ SameSlot(w)
      BY <1>0, <1>6 DEF Lookup, Goto, WorkerStates, SameSlot
    <2> QED BY <2>1, <2>2, WalkGoesOn DEF SameSlot, SpillPcs
  <1>7. CASE Redigest(w)
    <2> DEFINE d == File(Ws(wk[w].tgt)).data
    <2>1. wk[w].pc = "redigest" /\ wk[w].idx = 0
      BY <1>7 DEF Redigest, At, WalkedBy
    <2>2. Return(w) \/ wk' = [wk EXCEPT ![w].dig = d, ![w].pc = "acquire"]
      BY <1>7 DEF Redigest
    <2> HIDE DEF d
    <2>3. CASE wk' = [wk EXCEPT ![w].dig = d, ![w].pc = "acquire"]
      <3>1. wk'[w].pc = "acquire" /\ wk'[w].idx = 0
        BY <1>0, <2>1, <2>3 DEF WorkerStates
      <3>2. \A n \in 0 .. MaxSlot : ~(n < 0)
        BY Constants
      <3> QED BY <3>1, <3>2 DEF WalkedBy, SpillPcs
    <2> QED BY <1>2, <2>2, <2>3
  <1>8. CASE Acquire(w)
    <2>1. wk[w].pc = "acquire"
      BY <1>8 DEF Acquire, At
    <2>2. CASE Accepts(wk[w].dig, wk[w].idx) /\ Goto(w, Acquired(w))
      <3>1. Acquired(w) \in {"exists", "strip"}
        BY DEF Acquired
      <3> QED BY <1>1, <2>1, <2>2, <3>1 DEF SpillPcs
    <2>3. CASE ~Accepts(wk[w].dig, wk[w].idx) /\ Goto(w, "spill")
      BY <1>1, <2>1, <2>3 DEF Accepts
    <2>4. CASE ~Accepts(wk[w].dig, wk[w].idx) /\ wk' = [wk EXCEPT ![w].idx = @ + 1]
      <3>1. wk'[w].pc = "acquire" /\ wk'[w].dig = wk[w].dig /\ wk'[w].idx = wk[w].idx + 1
        BY <1>0, <2>1, <2>4 DEF WorkerStates
      <3> QED BY <2>1, <2>4, <3>1, WalkGoesOn DEF Accepts, SpillPcs
    <2> QED BY <1>8, <2>2, <2>3, <2>4 DEF Acquire
  <1>9. CASE Spill(w)
    <2>1. wk[w].pc = "spill" /\ Exists(wk[w].dig, wk[w].idx)
      BY <1>9 DEF Spill, At, WalkedBy, SpillPcs
    <2>2. ASSUME NEW f, StageCopy(w, f, "spillFill") PROVE WalkedBy(w)'
      BY <1>3, <2>1, <2>2
    <2> QED BY <1>2, <1>4, <1>9, <2>1, <2>2 DEF Spill, SpillPcs
  <1>10. CASE SpillFill(w)
    <2>1. wk[w].pc = "spillFill" /\ Exists(wk[w].dig, wk[w].idx) /\ Goto(w, "spillCheck")
      BY <1>10 DEF SpillFill, Fill, At, WalkedBy, SpillPcs
    <2> QED BY <1>1, <2>1
  <1>11. CASE SpillCheck(w)
    <2>1. wk[w].pc = "spillCheck" /\ Exists(wk[w].dig, wk[w].idx)
      BY <1>11 DEF SpillCheck, At, WalkedBy, SpillPcs
    <2> QED BY <1>1, <1>4, <1>11, <2>1 DEF SpillCheck, SpillPcs
  <1>12. CASE SpillMove(w)
    BY <1>2, <1>4, <1>12 DEF SpillMove, At, SpillPcs
  <1>13. CASE ExistsCheck(w) \/ StageFill(w)
    BY <1>1, <1>2, <1>13 DEF ExistsCheck, StageFill, Fill, At, SpillPcs
  <1>14. CASE Stage(w)
    <2>1. ASSUME NEW f, StageCopy(w, f, "fill") PROVE WalkedBy(w)'
      BY <1>3, <1>14, <2>1 DEF Stage, At, SpillPcs
    <2> QED BY <1>2, <1>14, <2>1 DEF Stage
  <1>15. ASSUME wk[w].pc # "idle", MoveIn(w) PROVE WalkedBy(w)'
    <2>1. CASE wk' = [wk EXCEPT ![w].pc = "lock", ![w].stg = None]
      <3>1. wk'[w].pc = "lock" /\ SameSlot(w)
        BY <1>0, <2>1, PlaceAfterStaging DEF SamePlace, SameSlot
      <3> QED BY <1>15, <3>1, WalkGoesOn DEF SameSlot, SpillPcs
    <2> QED BY <1>2, <1>15, <2>1 DEF MoveIn
  <1>16. CASE Publish(w) \/ PublishRename(w)
    BY <1>1, <1>2, <1>15, <1>16 DEF Publish, PublishRename, At, SpillPcs
  <1>17. CASE LockMaster(w) \/ Relock(w) \/ Failure(w)
    BY <1>2, <1>17
    DEF LockMaster, Relock, EnforceReadOnly, Failure, Abort, PublishFails, LinkBusy, SwapFails, Defer
  <1>18. CASE Strip(w) \/ Link(w) \/ Swap(w)
    BY <1>1, <1>2, <1>18 DEF Strip, Link, Swap, At, SpillPcs
  <1> QED
    BY <1>5, <1>6, <1>7, <1>8, <1>9, <1>10, <1>11, <1>12, <1>13, <1>14, <1>16, <1>17, <1>18
    DEF WorkerStep, Progress

(* A slot that is made follows one that is there.                          *)
LEMMA NewSlotFollows ==
    ASSUME TypeInv, SlotsStay, Contiguous, NEW S, SlotsKept(S),
           \A d \in Contents, n \in 1 .. MaxSlot : <<d, n>> \in S => Exists(d, n - 1)
    PROVE  Contiguous'
  <1> SUFFICES ASSUME NEW d \in Contents, NEW n \in 1 .. MaxSlot, Exists(d, n)'
               PROVE  Exists(d, n - 1)'
    BY DEF Contiguous, Exists, Bound, Obj
  <1>1. <<d, n>> \in Slots /\ <<d, n - 1>> \in Slots
    BY Constants DEF Slots
  <1>2. Exists(d, n) \/ <<d, n>> \in S
    BY <1>1 DEF SlotsKept, Exists, Bound, Obj
  <1>3. Exists(d, n - 1)
    BY <1>2 DEF Contiguous
  <1> QED BY <1>1, <1>3 DEF SlotsStay, Exists, Bound, Obj

LEMMA NextContiguous ==
    ASSUME TypeInv, OneStoreName, StagedAlone, Walked, Contiguous, Gcs = {}, [Next]_vars
    PROVE  StagedAlone' /\ Walked' /\ Contiguous'
  <1>1. CASE \E w \in Workers : WorkerStep(w)
    <2>1. PICK w \in Workers : WorkerStep(w)
      BY <1>1
    <2>2. SlotsStay
      BY <2>1, WorkerKeepsSlots
    <2>3. WalkedBy(w)'
      BY <2>1, <2>2, WorkerWalks DEF Walked
    <2>4. ASSUME NEW v \in Workers, v # w PROVE WalkedBy(v)'
      <3>1. wk'[v] = wk[v]
        BY <2>1, <2>4, OtherWorkers DEF TypeInv
      <3>2. CASE wk[v].pc = "idle"
        BY <3>1, <3>2 DEF WalkedBy, SpillPcs
      <3>3. CASE wk[v].pc # "idle"
        BY <2>2, <3>1, <3>3, WalkGoesOn DEF Walked, WalkedBy, SameSlot
      <3> QED BY <3>2, <3>3
    <2>5. Walked'
      BY <2>3, <2>4 DEF Walked
    <2>6. wk[w].idx \in 0 .. MaxSlot
      BY DEF TypeInv, WkOK, WorkerStates
    <2>7. ASSUME wk[w].pc # "idle", NEW d \in Contents, NEW n \in 1 .. MaxSlot, <<d, n>> = Slot(w)
          PROVE  Exists(d, n - 1)
      BY <2>6, <2>7, Constants DEF Slot, Walked, WalkedBy
    <2>8. ASSUME wk[w].pc \in SpillPcs, NEW d \in Contents, NEW n \in 1 .. MaxSlot,
                 <<d, n>> = NextSlot(w)
          PROVE  Exists(d, n - 1)
      BY <2>6, <2>8, Constants DEF NextSlot, Walked, WalkedBy
    <2>9. PICK S : /\ SlotsKept(S)
                   /\ S = {} \/ (wk[w].pc # "idle" /\ S = {Slot(w)})
                      \/ (wk[w].pc \in SpillPcs /\ S = {NextSlot(w)})
      BY <2>1, WorkerSlots DEF Link, Publish, PublishRename, SpillMove, At, SpillPcs
    <2>10. \A d \in Contents, n \in 1 .. MaxSlot : <<d, n>> \in S => Exists(d, n - 1)
      BY <2>7, <2>8, <2>9
    <2>11. StagedAlone'
      BY <2>1, WorkerSlots
    <2> QED BY <2>2, <2>5, <2>9, <2>10, <2>11, NewSlotFollows
  <1>2. ASSUME UNCHANGED wk, SlotsStay, SlotsKept({}), StagedAlone'
        PROVE  StagedAlone' /\ Walked' /\ Contiguous'
    <2>1. Contiguous'
      BY <1>2, NewSlotFollows
    <2>2. ASSUME NEW v \in Workers PROVE WalkedBy(v)'
      <3>1. CASE wk[v].pc = "idle"
        BY <1>2, <3>1 DEF WalkedBy, SpillPcs
      <3>2. CASE wk[v].pc # "idle"
        BY <1>2, <3>2, WalkGoesOn DEF Walked, WalkedBy, SameSlot
      <3> QED BY <3>1, <3>2
    <2> QED BY <1>2, <2>1, <2>2 DEF Walked
  <1>3. CASE UserStep \/ \E k \in Stages : SweepStage(k)
    <2>1. UNCHANGED wk
      BY <1>3 DEF UserStep, Rewrite, EditInPlace, Delete, OthersUnchanged, SweepStage
    <2> QED BY <1>2, <1>3, <2>1, OtherSlots, OthersKeepSlots
  <1>4. CASE UNCHANGED <<vol, wk>>
    BY <1>2, <1>4, ShrunkSlots, StillSlots
  <1> QED BY <1>1, <1>3, <1>4 DEF Next, Tick, vars

(* As long as no collector takes one away, the slots of a digest are       *)
(* contiguous: whoever makes a slot has seen, on its walk, all before it,  *)
(* and nothing else removes a slot (acquire_slot, spill_slot).             *)
THEOREM SlotsAreContiguous ==
    ASSUME Gcs = {}
    PROVE  Spec => []Contiguous
  <1>1. Init => StagedAlone /\ Walked /\ Contiguous
    <2> SUFFICES ASSUME Init PROVE StagedAlone /\ Walked /\ Contiguous
      OBVIOUS
    <2>1. StagedAlone
      BY NamesDiffer DEF Init, StagedAlone
    <2>2. Walked
      BY DEF Init, LinkInit, IdleWorker, Walked, WalkedBy, SpillPcs
    <2>3. Contiguous
      BY NamesDiffer DEF Init, Contiguous, Exists, Bound
    <2> QED BY <2>1, <2>2, <2>3
  <1>2. TypeInv /\ OneStoreName /\ StagedAlone /\ Walked /\ Contiguous /\ [Next]_vars
        => StagedAlone' /\ Walked' /\ Contiguous'
    BY NextContiguous
  <1> QED BY <1>1, <1>2, TypesInvariant, StoreNamesAreUnique, PTL DEF Spec
=============================================================================
