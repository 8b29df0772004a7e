----------------------------- MODULE TypeProofs -----------------------------
(***************************************************************************)
(* Type correctness of ReclaimSpace, for every value of the constants, and *)
(* the exclusion of workers by their temporary link, which follows from    *)
(* the types and the names that each step leaves bound.                    *)
(***************************************************************************)
EXTENDS ReclaimSpace, VolumeLemmas

SpillPcs == {"spill", "spillFill", "spillCheck", "spillMove"}
StagePcs == {"spillFill", "spillCheck", "spillMove", "fill", "publish", "rename"}

(* What a worker and a collector have at each point of their code.         *)
WorkerOK(w) ==
    /\ wk[w].pc # "idle" => wk[w].tgt \in Targets /\ wk[w].dig \in Contents
    /\ wk[w].pc \in SpillPcs => wk[w].idx < MaxSlot
    /\ wk[w].pc \in StagePcs => wk[w].stg \in Stages
GcOK(g) ==
    /\ gc[g].pc = "move" =>
          gc[g].slot \in Slots /\ gc[g].entry \in Entries /\ gc[g].entry[2] = gc[g].slot
    /\ gc[g].pc \in {"resurrect", "purge"} => gc[g].entry \in Entries

WkOK  == wk \in [Workers -> WorkerStates] /\ \A w \in Workers : WorkerOK(w)
QOK   == retryq \in Seq(Jobs) /\ Len(retryq) <= QueueCapacity
GcsOK == GcTypeOK /\ \A g \in Gcs : GcOK(g)
SavedOK == saved \in [Targets -> Contents \cup {None}]
TypeInv == IsVolume(vol) /\ WkOK /\ QOK /\ GcsOK /\ SavedOK

(* The assumptions on the constants, as the provers use them.              *)
LEMMA Constants ==
    /\ None \notin Contents /\ None \notin Targets /\ None \notin Stages
    /\ MaxSlot \in Nat /\ MaxClock \in Nat /\ QueueCapacity \in Nat
  BY NoneIsNoValue, BoundsAreNaturals, CapacityIsNatural

LEMMA IdleWorkerOK == IdleWorker \in WorkerStates
  BY Constants DEF IdleWorker, WorkerStates, Pcs

(* The worker variables of the two ways in which most steps end.           *)
LEMMA ReturnOK ==
    ASSUME WkOK, NEW w \in Workers, Return(w)
    PROVE  WkOK'
  BY IdleWorkerOK DEF WkOK, Return, WorkerOK, IdleWorker, SpillPcs, StagePcs

LEMMA GotoOK ==
    ASSUME WkOK, NEW w \in Workers, NEW pc \in Pcs, Goto(w, pc),
           wk[w].pc # "idle",
           pc \in SpillPcs => wk[w].idx < MaxSlot,
           pc \in StagePcs => wk[w].stg \in Stages
    PROVE  WkOK'
  BY DEF WkOK, Goto, WorkerOK, WorkerStates

(* A step that gives worker w the state r.                                 *)
LEMMA SetWorkerOK ==
    ASSUME WkOK, NEW w \in Workers, NEW r \in WorkerStates,
           wk' = [wk EXCEPT ![w] = r],
           r.tgt \in Targets /\ r.dig \in Contents,
           r.pc \notin SpillPcs /\ r.pc \notin StagePcs
    PROVE  WkOK'
  <1>1. wk \in [Workers -> WorkerStates]
    BY DEF WkOK
  <1>2. wk' \in [Workers -> WorkerStates] /\ wk'[w] = r
    BY <1>1
  <1>3. WorkerOK(w)'
    BY <1>2 DEF WorkerOK
  <1>4. ASSUME NEW v \in Workers, v # w PROVE WorkerOK(v)'
    BY <1>1, <1>4 DEF WkOK, WorkerOK
  <1> QED BY <1>2, <1>3, <1>4 DEF WkOK

(* A worker that leaves tmp/, with the next slot or with the same one.     *)
LEMMA NextSlotOK ==
    ASSUME WkOK, NEW w \in Workers, wk[w].pc \in SpillPcs,
           \/ wk' = [wk EXCEPT ![w].idx = @ + 1, ![w].pc = Acquired(w)]
           \/ wk' = [wk EXCEPT ![w].idx = @ + 1, ![w].stg = None, ![w].pc = Acquired(w)]
    PROVE  WkOK'
  <1>1. wk[w].idx + 1 \in 0 .. MaxSlot
    BY Constants DEF WkOK, WorkerOK, WorkerStates, SpillPcs
  <1>2. Acquired(w) \in {"exists", "strip"}
    BY DEF Acquired
  <1> QED
    BY <1>1, <1>2, Constants DEF WkOK, WorkerOK, WorkerStates, Pcs, SpillPcs, StagePcs

LEMMA SlotOfWorker ==
    ASSUME WkOK, NEW w \in Workers, wk[w].pc # "idle"
    PROVE  /\ Slot(w) \in Slots /\ Slot(w)[1] = wk[w].dig
           /\ wk[w].pc \in SpillPcs => NextSlot(w) \in Slots /\ NextSlot(w)[1] = wk[w].dig
  <1>1. wk[w].dig \in Contents /\ wk[w].idx \in 0 .. MaxSlot
    BY DEF WkOK, WorkerOK, WorkerStates
  <1>2. wk[w].pc \in SpillPcs => wk[w].idx + 1 \in 0 .. MaxSlot
    BY <1>1, Constants DEF WkOK, WorkerOK
  <1> QED BY <1>1, <1>2 DEF Slot, NextSlot, Slots

LEMMA NamesOf ==
    /\ \A t \in Targets : Ws(t) \in Names /\ Lnk(t) \in Names
    /\ \A s \in Slots : Obj(s) \in Names
    /\ \A k \in Stages : Tmp(k) \in Names
    /\ \A e \in Entries : Qua(e) \in Names
  BY DEF Names, Ws, Lnk, Obj, Tmp, Qua
-----------------------------------------------------------------------------
(* Steps that several actions take.                                        *)

LEMMA StageCopyOK ==
    ASSUME TypeInv, NEW w \in Workers, NEW f \in vol, NEW pc \in {"fill", "spillFill"},
           wk[w].pc # "idle", pc = "spillFill" => wk[w].pc \in SpillPcs,
           StageCopy(w, f, pc)
    PROVE  /\ IsVolume(vol)' /\ WkOK' /\ QOK'
           /\ \E k \in Stages : /\ StageFree(k) /\ Create(Tmp(k), f.data, FALSE, f.mode)
                               /\ wk' = [wk EXCEPT ![w].pc = pc, ![w].stg = k]
  <1>1. PICK k \in Stages : /\ StageFree(k) /\ Create(Tmp(k), f.data, FALSE, f.mode)
                            /\ wk' = [wk EXCEPT ![w].pc = pc, ![w].stg = k]
    BY DEF StageCopy
  <1>2. f.data \in Contents /\ f.mode \in {"rw", "ro"}
    BY DEF TypeInv, IsVolume, Files
  <1>3. IsVolume(vol)'
    BY <1>1, <1>2, NamesOf, CreateStep DEF TypeInv
  <1>4. WkOK'
    <2>1. wk \in [Workers -> WorkerStates] /\ WorkerOK(w)
      BY DEF TypeInv, WkOK
    <2>2. [wk[w] EXCEPT !.pc = pc, !.stg = k] \in WorkerStates
      BY <2>1 DEF WorkerStates, Pcs
    <2>3. wk' = [wk EXCEPT ![w] = [wk[w] EXCEPT !.pc = pc, !.stg = k]]
      BY <1>1, <2>1
    <2>6. wk' \in [Workers -> WorkerStates]
      BY <2>1, <2>2, <2>3
    <2>4. WorkerOK(w)'
      BY <2>1, <2>3 DEF WorkerOK, WorkerStates, SpillPcs, StagePcs
    <2>5. ASSUME NEW v \in Workers, v # w PROVE WorkerOK(v)'
      BY <1>1, <2>1, <2>5 DEF TypeInv, WkOK, WorkerOK
    <2> QED BY <2>4, <2>5, <2>6 DEF WkOK
  <1>5. QOK'
    BY DEF StageCopy, TypeInv, QOK
  <1> QED BY <1>1, <1>3, <1>4, <1>5

(* The end of a copy changes attributes of the staged file only.           *)
LEMMA FillVolume ==
    ASSUME TypeInv, NEW w \in Workers, NEW from, NEW to, Fill(w, from, to)
    PROVE  /\ IsVolume(vol)'
           /\ \A g \in vol' : \E f \in vol :
                 /\ Continues(g, f) /\ g.names = f.names
                 /\ MyStage(w) \in g.names => g.whole
           /\ \A r : Bound(r) => Bound(r)'
  <1>1. CASE ~Bound(MyStage(w))
    <2>1. vol' = vol
      BY <1>1 DEF Fill
    <2> QED BY <1>1, <2>1 DEF TypeInv, IsVolume, Bound, Continues
  <1>2. CASE Bound(MyStage(w))
    <2> DEFINE f == File(MyStage(w))
               g == [f EXCEPT !.whole = TRUE]
    <2>1. f \in vol /\ \A e \in vol : MyStage(w) \in e.names => e = f
      BY <1>2, FileOfName DEF TypeInv
    <2>2. f \in Files
      BY <2>1 DEF TypeInv, IsVolume
    <2>3. g \in Files /\ g.names = f.names /\ Continues(g, f) /\ g.whole
      BY <2>2 DEF Files, Continues
    <2>4. vol' = Replaced(vol, f, g)
      BY <1>2 DEF Fill
    <2> HIDE DEF f, g
    <2>5. /\ IsVolume(vol')
          /\ \A r : (\E e \in vol : r \in e.names) => \E e \in vol' : r \in e.names
      BY <2>1, <2>3, <2>4, ReplacedVolume DEF TypeInv, IsVolume
    <2> QED BY <2>1, <2>3, <2>4, <2>5 DEF Replaced, Continues, IsVolume, Bound
  <1> QED BY <1>1, <1>2

LEMMA DeferOK ==
    ASSUME TypeInv, NEW w \in Workers, wk[w].pc # "idle", Defer(w)
    PROVE  WkOK' /\ QOK'
  <1>1. WkOK'
    BY ReturnOK DEF Defer, TypeInv
  <1>2. [target |-> wk[w].tgt, slot |-> Slot(w)] \in Jobs
    BY SlotOfWorker DEF TypeInv, WkOK, WorkerOK, Jobs
  <1>3. QOK'
    BY <1>2, Constants DEF Defer, Enqueue, TypeInv, QOK
  <1> QED BY <1>1, <1>3
-----------------------------------------------------------------------------
(* Every step of a worker keeps the types of what workers change.          *)

WorkerTypes == IsVolume(vol) /\ WkOK /\ QOK

LEMMA ReadsOnlyOK ==
    ASSUME TypeInv, WkOK', ReadsOnly
    PROVE  WorkerTypes'
  BY DEF TypeInv, ReadsOnly, WorkerTypes, IsVolume, QOK

LEMMA QueueSame ==
    ASSUME TypeInv, UNCHANGED retryq
    PROVE  QOK'
  BY DEF TypeInv, QOK

LEMMA EvaluateTypes ==
    ASSUME TypeInv, NEW w \in Workers, Digest(w) \/ Lookup(w) \/ Redigest(w)
    PROVE  WorkerTypes'
  <1>1. CASE Digest(w)
    <2>1. PICK t \in Targets :
            /\ Bound(Ws(t))
            /\ wk' = [wk EXCEPT ![w] = [IdleWorker EXCEPT !.pc = "lookup", !.tgt = t,
                                                          !.dig = File(Ws(t)).data]]
      BY <1>1 DEF Digest
    <2>2. PICK d \in Contents : d = File(Ws(t)).data
      BY <2>1, FileOfName DEF TypeInv, IsVolume, Files
    <2> DEFINE r == [IdleWorker EXCEPT !.pc = "lookup", !.tgt = t, !.dig = d]
    <2>3. /\ r \in WorkerStates /\ r.pc = "lookup"
          /\ r.tgt \in Targets /\ r.dig \in Contents
      BY <2>2, IdleWorkerOK DEF WorkerStates, Pcs
    <2>4. wk' = [wk EXCEPT ![w] = r]
      BY <2>1, <2>2
    <2> HIDE DEF r
    <2>5. WkOK'
      BY <2>3, <2>4, SetWorkerOK DEF TypeInv, SpillPcs, StagePcs
    <2> QED BY <1>1, <2>5, ReadsOnlyOK DEF Digest
  <1>2. CASE Lookup(w)
    <2>1. WkOK /\ wk[w] \in WorkerStates /\ wk[w].pc = "lookup"
      BY <1>2 DEF Lookup, At, TypeInv, WkOK
    <2>2. CASE Goto(w, "acquire")
      BY <1>2, <2>1, <2>2, GotoOK, ReadsOnlyOK DEF Lookup, Pcs, SpillPcs, StagePcs
    <2>3. CASE wk' = [wk EXCEPT ![w].pc = "redigest", ![w].uniq = TRUE]
      <3> DEFINE r == [wk[w] EXCEPT !.pc = "redigest", !.uniq = TRUE]
      <3>1. wk' = [wk EXCEPT ![w] = r]
        BY <2>1, <2>3 DEF WkOK
      <3>2. /\ r \in WorkerStates /\ r.pc = "redigest"
            /\ r.tgt = wk[w].tgt /\ r.dig = wk[w].dig
        BY <2>1 DEF WorkerStates, Pcs
      <3>3. r.tgt \in Targets /\ r.dig \in Contents
        BY <2>1, <3>2 DEF WkOK, WorkerOK
      <3> HIDE DEF r
      <3>4. WkOK'
        BY <2>1, <3>1, <3>2, <3>3, SetWorkerOK DEF SpillPcs, StagePcs
      <3> QED BY <1>2, <3>4, ReadsOnlyOK DEF Lookup
    <2> QED BY <1>2, <2>2, <2>3 DEF Lookup
  <1>3. CASE Redigest(w)
    <2>1. CASE Bound(Ws(wk[w].tgt))
      <3>1. File(Ws(wk[w].tgt)).data \in Contents
        BY <2>1, FileOfName DEF TypeInv, IsVolume, Files
      <3> DEFINE r == [wk[w] EXCEPT !.dig = File(Ws(wk[w].tgt)).data, !.pc = "acquire"]
      <3>2. WkOK /\ wk[w] \in WorkerStates /\ wk[w].pc = "redigest"
        BY <1>3 DEF Redigest, At, TypeInv, WkOK
      <3>3. wk' = [wk EXCEPT ![w] = r]
        BY <1>3, <2>1, <3>2 DEF Redigest, WkOK
      <3>4. /\ r \in WorkerStates /\ r.pc = "acquire"
            /\ r.tgt = wk[w].tgt /\ r.dig \in Contents
        BY <3>1, <3>2 DEF WorkerStates, Pcs
      <3>5. r.tgt \in Targets
        BY <3>2, <3>4 DEF WkOK, WorkerOK
      <3> HIDE DEF r
      <3>6. WkOK'
        BY <3>2, <3>3, <3>4, <3>5, SetWorkerOK DEF SpillPcs, StagePcs
      <3> QED BY <1>3, <3>6, ReadsOnlyOK DEF Redigest
    <2>2. CASE ~Bound(Ws(wk[w].tgt))
      BY <1>3, <2>2, ReturnOK, ReadsOnlyOK DEF Redigest, TypeInv
    <2> QED BY <2>1, <2>2
  <1> QED BY <1>1, <1>2, <1>3

LEMMA AcquireTypes ==
    ASSUME TypeInv, NEW w \in Workers, Acquire(w)
    PROVE  WorkerTypes'
  <1>1. WkOK /\ At(w, "acquire") /\ ReadsOnly
    BY DEF TypeInv, Acquire
  <1>2. CASE Goto(w, Acquired(w))
    <2>1. Acquired(w) \in {"exists", "strip"}
      BY DEF Acquired
    <2>2. WkOK'
      BY <1>1, <1>2, <2>1, GotoOK DEF At, Pcs, SpillPcs, StagePcs
    <2> QED BY <1>1, <2>2, ReadsOnlyOK
  <1>3. CASE /\ wk[w].idx < MaxSlot
             /\ \/ wk' = [wk EXCEPT ![w].idx = @ + 1]
                \/ Goto(w, "spill")
    <2>1. wk[w].idx + 1 \in 0 .. MaxSlot
      BY <1>1, <1>3, Constants DEF WkOK, WorkerStates
    <2>2. WkOK'
      BY <1>1, <1>3, <2>1 DEF At, Goto, WkOK, WorkerOK, WorkerStates, Pcs, SpillPcs, StagePcs
    <2> QED BY <1>1, <2>2, ReadsOnlyOK
  <1> QED BY <1>2, <1>3 DEF Acquire

LEMMA SpillTypes ==
    ASSUME TypeInv, NEW w \in Workers,
           Spill(w) \/ SpillFill(w) \/ SpillCheck(w) \/ SpillMove(w)
    PROVE  WorkerTypes'
  <1>0. WkOK /\ IsVolume(vol)
    BY DEF TypeInv
  <1>1. CASE Spill(w)
    <2>0. wk[w].pc = "spill"
      BY <1>1 DEF Spill, At
    <2>1. CASE Bound(Obj(NextSlot(w)))
      BY <1>0, <1>1, <2>0, <2>1, NextSlotOK, ReadsOnlyOK DEF Spill, SpillPcs
    <2>2. CASE ~Bound(Obj(NextSlot(w))) /\ ~Bound(Obj(Slot(w)))
      BY <1>0, <1>1, <2>2, ReturnOK, ReadsOnlyOK DEF Spill
    <2>3. CASE ~Bound(Obj(NextSlot(w))) /\ Bound(Obj(Slot(w)))
      <3>1. StageCopy(w, File(Obj(Slot(w))), "spillFill")
        BY <1>1, <2>3 DEF Spill
      <3>2. File(Obj(Slot(w))) \in vol
        BY <1>0, <2>3, FileOfName
      <3> QED BY <2>0, <3>1, <3>2, StageCopyOK DEF SpillPcs, WorkerTypes
    <2> QED BY <2>1, <2>2, <2>3
  <1>2. CASE SpillFill(w)
    <2>1. wk[w].pc = "spillFill" /\ Goto(w, "spillCheck") /\ UNCHANGED retryq
      BY <1>2 DEF SpillFill, Fill, At
    <2>2. IsVolume(vol)'
      BY <1>2, FillVolume DEF SpillFill
    <2>3. WkOK'
      BY <1>0, <2>1, GotoOK DEF WkOK, WorkerOK, Pcs, SpillPcs, StagePcs
    <2> QED BY <2>1, <2>2, <2>3, QueueSame DEF WorkerTypes
  <1>3. CASE SpillCheck(w)
    <2>0. wk[w].pc = "spillCheck" /\ UNCHANGED retryq
      BY <1>3 DEF SpillCheck, At
    <2>1. CASE Bound(Obj(NextSlot(w)))
      <3>1. WkOK'
        BY <1>0, <1>3, <2>0, <2>1, NextSlotOK DEF SpillCheck, SpillPcs
      <3>2. IsVolume(vol)'
        BY <1>0, <1>3, <2>1, UnlinkStep DEF SpillCheck
      <3> QED BY <2>0, <3>1, <3>2, QueueSame DEF WorkerTypes
    <2>2. CASE ~Bound(Obj(NextSlot(w)))
      <3>1. Goto(w, "spillMove") /\ ReadsOnly
        BY <1>3, <2>2 DEF SpillCheck, ReadsOnly
      <3>2. WkOK'
        BY <1>0, <2>0, <3>1, GotoOK DEF WkOK, WorkerOK, Pcs, SpillPcs, StagePcs
      <3> QED BY <3>1, <3>2, ReadsOnlyOK
    <2> QED BY <2>1, <2>2
  <1>4. CASE SpillMove(w)
    <2>0. wk[w].pc = "spillMove" /\ UNCHANGED retryq
      BY <1>4 DEF SpillMove, At
    <2>1. CASE Bound(MyStage(w))
      <3>1. WkOK'
        BY <1>0, <1>4, <2>0, <2>1, NextSlotOK DEF SpillMove, SpillPcs
      <3>2. Obj(NextSlot(w)) \in Names
        BY <1>0, <2>0, SlotOfWorker, NamesOf DEF SpillPcs
      <3>3. IsVolume(vol)'
        BY <1>0, <1>4, <2>1, <3>2, RenameStep DEF SpillMove
      <3> QED BY <2>0, <3>1, <3>3, QueueSame DEF WorkerTypes
    <2>2. CASE ~Bound(MyStage(w))
      BY <1>0, <1>4, <2>2, ReturnOK, ReadsOnlyOK DEF SpillMove, ReadsOnly
    <2> QED BY <2>1, <2>2
  <1> QED BY <1>1, <1>2, <1>3, <1>4

(* Moving a staged file into the store, and locking a slot.                *)
LEMMA MoveInTypes ==
    ASSUME TypeInv, NEW w \in Workers, wk[w].pc # "idle", MoveIn(w), UNCHANGED retryq
    PROVE  WorkerTypes'
  <1>0. WkOK /\ IsVolume(vol)
    BY DEF TypeInv
  <1>1. CASE Bound(MyStage(w))
    <2>1. wk' = [wk EXCEPT ![w].pc = "lock", ![w].stg = None]
      BY <1>1 DEF MoveIn
    <2> DEFINE r == [wk[w] EXCEPT !.pc = "lock", !.stg = None]
    <2>2. wk' = [wk EXCEPT ![w] = r]
      BY <1>0, <2>1 DEF WkOK
    <2>3. r \in WorkerStates /\ r.pc = "lock" /\ r.tgt = wk[w].tgt /\ r.dig = wk[w].dig
      BY <1>0 DEF WkOK, WorkerStates, Pcs
    <2>4. r.tgt \in Targets /\ r.dig \in Contents
      BY <1>0, <2>3 DEF WkOK, WorkerOK
    <2> HIDE DEF r
    <2>5. WkOK'
      BY <1>0, <2>2, <2>3, <2>4, SetWorkerOK DEF SpillPcs, StagePcs
    <2>6. Obj(Slot(w)) \in Names
      BY <1>0, SlotOfWorker, NamesOf
    <2>7. IsVolume(vol)'
      BY <1>0, <1>1, <2>6, RenameStep DEF MoveIn
    <2> QED BY <2>5, <2>7, QueueSame DEF WorkerTypes
  <1>2. CASE ~Bound(MyStage(w))
    BY <1>0, <1>2, ReturnOK, ReadsOnlyOK DEF MoveIn, ReadsOnly
  <1> QED BY <1>1, <1>2

LEMMA EnforceTypes ==
    ASSUME TypeInv, NEW w \in Workers, NEW pc, EnforceReadOnly(w, pc)
    PROVE  WorkerTypes'
  <1>0. WkOK /\ IsVolume(vol) /\ Return(w) /\ Chmod(Obj(Slot(w)), "ro") /\ UNCHANGED retryq
    BY DEF TypeInv, EnforceReadOnly
  <1>1. IsVolume(vol)'
    BY <1>0, ChmodStep
  <1> QED BY <1>0, <1>1, ReturnOK, QueueSame DEF WorkerTypes

LEMMA PublishTypes ==
    ASSUME TypeInv, NEW w \in Workers,
           \/ ExistsCheck(w) \/ Stage(w) \/ StageFill(w) \/ Publish(w)
           \/ PublishRename(w) \/ LockMaster(w)
    PROVE  WorkerTypes'
  <1>0. WkOK /\ IsVolume(vol)
    BY DEF TypeInv
  <1>1. CASE ExistsCheck(w)
    <2>1. wk[w].pc = "exists" /\ ReadsOnly
      BY <1>1 DEF ExistsCheck, At
    <2>2. CASE Return(w)
      BY <1>0, <2>1, <2>2, ReturnOK, ReadsOnlyOK
    <2>3. CASE Goto(w, "stage")
      BY <1>0, <2>1, <2>3, GotoOK, ReadsOnlyOK DEF Pcs, SpillPcs, StagePcs
    <2> QED BY <1>1, <2>2, <2>3 DEF ExistsCheck
  <1>2. CASE Stage(w)
    <2>1. wk[w].pc = "stage"
      BY <1>2 DEF Stage, At
    <2>2. CASE Bound(Ws(wk[w].tgt))
      <3>1. StageCopy(w, File(Ws(wk[w].tgt)), "fill")
        BY <1>2, <2>2 DEF Stage
      <3>2. File(Ws(wk[w].tgt)) \in vol
        BY <1>0, <2>2, FileOfName
      <3> QED BY <2>1, <3>1, <3>2, StageCopyOK DEF WorkerTypes
    <2>3. CASE ~Bound(Ws(wk[w].tgt))
      BY <1>0, <1>2, <2>3, ReturnOK, ReadsOnlyOK DEF Stage
    <2> QED BY <2>2, <2>3
  <1>3. CASE StageFill(w)
    <2>1. wk[w].pc = "fill" /\ Goto(w, "publish") /\ UNCHANGED retryq
      BY <1>3 DEF StageFill, Fill, At
    <2>2. IsVolume(vol)'
      BY <1>3, FillVolume DEF StageFill
    <2>3. WkOK'
      BY <1>0, <2>1, GotoOK DEF WkOK, WorkerOK, Pcs, SpillPcs, StagePcs
    <2> QED BY <2>1, <2>2, <2>3, QueueSame DEF WorkerTypes
  <1>4. CASE Publish(w)
    <2>1. wk[w].pc = "publish" /\ UNCHANGED retryq
      BY <1>4 DEF Publish, At
    <2>2. CASE Unlink(MyStage(w)) /\ Return(w)
      <3>1. IsVolume(vol)'
        BY <1>0, <2>2, UnlinkStep
      <3> QED BY <1>0, <2>1, <2>2, <3>1, ReturnOK, QueueSame DEF WorkerTypes
    <2>3. CASE MoveIn(w)
      BY <2>1, <2>3, MoveInTypes
    <2>4. CASE Goto(w, "rename") /\ UNCHANGED vol
      <3>1. WkOK'
        BY <1>0, <2>1, <2>4, GotoOK DEF WkOK, WorkerOK, Pcs, SpillPcs, StagePcs
      <3> QED BY <2>1, <2>4, <3>1, ReadsOnlyOK DEF ReadsOnly
    <2> QED BY <1>4, <2>2, <2>3, <2>4 DEF Publish
  <1>5. CASE PublishRename(w)
    BY <1>5, MoveInTypes DEF PublishRename, At
  <1>6. CASE LockMaster(w)
    BY <1>6, EnforceTypes DEF LockMaster
  <1> QED BY <1>1, <1>2, <1>3, <1>4, <1>5, <1>6

LEMMA LinkTypes ==
    ASSUME TypeInv, NEW w \in Workers, Strip(w) \/ Link(w) \/ Swap(w) \/ Relock(w)
    PROVE  WorkerTypes'
  <1>0. WkOK /\ IsVolume(vol)
    BY DEF TypeInv
  <1>1. CASE Strip(w)
    <2>1. /\ wk[w].pc = "strip" /\ Goto(w, "link")
          /\ Chmod(Ws(wk[w].tgt), "rw") /\ UNCHANGED retryq
      BY <1>1 DEF Strip, At
    <2>2. IsVolume(vol)'
      BY <1>0, <2>1, ChmodStep
    <2>3. WkOK'
      BY <1>0, <2>1, GotoOK DEF Pcs, SpillPcs, StagePcs
    <2> QED BY <2>1, <2>2, <2>3, QueueSame DEF WorkerTypes
  <1>2. CASE Link(w)
    <2>1. wk[w].pc = "link" /\ UNCHANGED retryq
      BY <1>2 DEF Link, At
    <2>2. CASE Bound(Obj(Slot(w))) /\ ~Bound(Lnk(wk[w].tgt))
      <3>1. HardLink(Obj(Slot(w)), Lnk(wk[w].tgt)) /\ Goto(w, "swap")
        BY <1>2, <2>2 DEF Link
      <3>2. Lnk(wk[w].tgt) \in Names
        BY <1>0, <2>1, NamesOf DEF WkOK, WorkerOK
      <3>3. IsVolume(vol)'
        BY <1>0, <2>2, <3>1, <3>2, HardLinkStep
      <3>4. WkOK'
        BY <1>0, <2>1, <3>1, GotoOK DEF Pcs, SpillPcs, StagePcs
      <3> QED BY <2>1, <3>3, <3>4, QueueSame DEF WorkerTypes
    <2>3. CASE ~(Bound(Obj(Slot(w))) /\ ~Bound(Lnk(wk[w].tgt)))
      BY <1>0, <1>2, <2>1, <2>3, ReturnOK, ReadsOnlyOK DEF Link, ReadsOnly
    <2> QED BY <2>2, <2>3
  <1>3. CASE Swap(w)
    <2>1. wk[w].pc = "swap" /\ UNCHANGED retryq
      BY <1>3 DEF Swap, At
    <2>2. CASE Bound(Lnk(wk[w].tgt))
      <3>1. Rename(Lnk(wk[w].tgt), Ws(wk[w].tgt)) /\ Goto(w, "relock")
        BY <1>3, <2>2 DEF Swap
      <3>2. Ws(wk[w].tgt) \in Names
        BY <1>0, <2>1, NamesOf DEF WkOK, WorkerOK
      <3>3. IsVolume(vol)'
        BY <1>0, <2>2, <3>1, <3>2, RenameStep
      <3>4. WkOK'
        BY <1>0, <2>1, <3>1, GotoOK DEF Pcs, SpillPcs, StagePcs
      <3> QED BY <2>1, <3>3, <3>4, QueueSame DEF WorkerTypes
    <2>3. CASE ~Bound(Lnk(wk[w].tgt))
      BY <1>0, <1>3, <2>1, <2>3, ReturnOK, ReadsOnlyOK DEF Swap, ReadsOnly
    <2> QED BY <2>2, <2>3
  <1>4. CASE Relock(w)
    BY <1>4, EnforceTypes DEF Relock
  <1> QED BY <1>1, <1>2, <1>3, <1>4

LEMMA FailureTypes ==
    ASSUME TypeInv, NEW w \in Workers, Failure(w)
    PROVE  WorkerTypes'
  <1>0. WkOK /\ IsVolume(vol)
    BY DEF TypeInv
  <1>1. CASE Abort(w)
    BY <1>0, <1>1, ReturnOK, ReadsOnlyOK DEF Abort
  <1>2. CASE PublishFails(w)
    <2>1. Unlink(MyStage(w)) /\ Return(w) /\ UNCHANGED retryq
      BY <1>2 DEF PublishFails
    <2> QED BY <1>0, <2>1, UnlinkStep, ReturnOK, QueueSame DEF WorkerTypes
  <1>3. CASE LinkBusy(w)
    <2>1. wk[w].pc # "idle" /\ Defer(w) /\ UNCHANGED vol
      BY <1>3 DEF LinkBusy, At
    <2> QED BY <1>0, <2>1, DeferOK DEF WorkerTypes, IsVolume
  <1>4. CASE SwapFails(w)
    <2>1. wk[w].pc # "idle" /\ Unlink(Lnk(wk[w].tgt))
      BY <1>4 DEF SwapFails, At
    <2>2. IsVolume(vol)'
      BY <1>0, <2>1, UnlinkStep
    <2>3. CASE Defer(w)
      BY <2>1, <2>2, <2>3, DeferOK DEF WorkerTypes
    <2>4. CASE Return(w) /\ UNCHANGED retryq
      BY <1>0, <2>2, <2>4, ReturnOK, QueueSame DEF WorkerTypes
    <2> QED BY <1>4, <2>3, <2>4 DEF SwapFails
  <1> QED BY <1>1, <1>2, <1>3, <1>4 DEF Failure

LEMMA WorkerStepTypes ==
    ASSUME TypeInv, NEW w \in Workers, WorkerStep(w)
    PROVE  WorkerTypes'
  BY EvaluateTypes, AcquireTypes, SpillTypes, PublishTypes, LinkTypes, FailureTypes
  DEF WorkerStep, Progress
-----------------------------------------------------------------------------
(* Every step of a collector keeps the types of what collectors change.    *)

GcTypes == IsVolume(vol) /\ GcsOK

LEMMA IdleGcOK == IdleGc \in GcStates
  BY DEF IdleGc, GcStates

LEMMA GcReturnOK ==
    ASSUME GcsOK, NEW g \in Gcs, GcReturn(g), UNCHANGED clock
    PROVE  GcsOK'
  BY IdleGcOK DEF GcsOK, GcTypeOK, GcReturn, GcOK, IdleGc

(* A step that gives collector g the state r.                              *)
LEMMA SetGcOK ==
    ASSUME GcsOK, NEW g \in Gcs, NEW r \in GcStates, gc' = [gc EXCEPT ![g] = r],
           clock' \in Times, r.entry \in Entries,
           r.pc = "move" => r.slot \in Slots /\ r.entry[2] = r.slot
    PROVE  GcsOK'
  <1>1. gc \in [Gcs -> GcStates]
    BY DEF GcsOK, GcTypeOK
  <1>2. gc' \in [Gcs -> GcStates] /\ gc'[g] = r
    BY <1>1
  <1>3. GcOK(g)'
    BY <1>2 DEF GcOK
  <1>4. ASSUME NEW h \in Gcs, h # g PROVE GcOK(h)'
    BY <1>1, <1>4 DEF GcsOK, GcOK
  <1> QED BY <1>2, <1>3, <1>4 DEF GcsOK, GcTypeOK

LEMMA RenameIfThereVolume ==
    ASSUME IsVolume(vol), NEW p, NEW q \in Names, RenameIfThere(p, q)
    PROVE  IsVolume(vol)'
  <1>1. CASE Bound(p)
    BY <1>1, RenameStep DEF RenameIfThere
  <1>2. CASE ~Bound(p)
    BY <1>2 DEF RenameIfThere, IsVolume
  <1> QED BY <1>1, <1>2

LEMMA GcStepTypes ==
    ASSUME TypeInv, NEW g \in Gcs, GcStep(g)
    PROVE  GcTypes'
  <1>0. IsVolume(vol) /\ GcsOK /\ gc[g] \in GcStates /\ GcOK(g) /\ clock \in 0 .. MaxClock
    BY DEF TypeInv, GcsOK, GcTypeOK, Times
  <1>1. CASE StatSlot(g)
    <2>1. PICK s \in Slots :
            /\ clock < MaxClock /\ clock' = clock + 1 /\ UNCHANGED vol
            /\ gc' = [gc EXCEPT ![g] = [IdleGc EXCEPT !.pc = "move", !.slot = s,
                                                      !.entry = <<clock, s>>]]
      BY <1>1 DEF StatSlot
    <2>2. PICK e \in Entries : e = <<clock, s>> /\ e[2] = s
      <3>1. <<clock, s>> \in Entries
        BY <1>0 DEF Entries, Times
      <3>2. <<clock, s>>[2] = s
        OBVIOUS
      <3> QED BY <3>1, <3>2
    <2> DEFINE r == [IdleGc EXCEPT !.pc = "move", !.slot = s, !.entry = e]
    <2>3. r \in GcStates /\ r.pc = "move" /\ r.slot = s /\ r.entry = e
      BY IdleGcOK DEF GcStates
    <2>4. gc' = [gc EXCEPT ![g] = r]
      BY <2>1, <2>2
    <2>5. clock' \in Times
      BY <1>0, <2>1, Constants DEF Times
    <2> HIDE DEF r
    <2>6. GcsOK'
      BY <1>0, <2>2, <2>3, <2>4, <2>5, SetGcOK
    <2> QED BY <1>0, <2>1, <2>6 DEF GcTypes, IsVolume
  <1>2. CASE MoveToQuarantine(g)
    <2>1. /\ gc[g].pc = "move" /\ GcReturn(g) /\ UNCHANGED clock
          /\ RenameIfThere(Obj(gc[g].slot), Qua(gc[g].entry))
      BY <1>2 DEF MoveToQuarantine, GcAt
    <2>2. Qua(gc[g].entry) \in Names
      BY <1>0, <2>1, NamesOf DEF GcOK
    <2>3. IsVolume(vol)'
      BY <1>0, <2>1, <2>2, RenameIfThereVolume
    <2> QED BY <1>0, <2>1, <2>3, GcReturnOK DEF GcTypes
  <1>3. CASE StatEntry(g)
    <2>1. PICK e \in Entries :
            /\ UNCHANGED <<vol, clock>>
            /\ gc' = [gc EXCEPT ![g] = [IdleGc EXCEPT !.pc = NextForEntry(e), !.entry = e]]
      BY <1>3 DEF StatEntry
    <2>2. PICK pc \in {"resurrect", "purge"} : pc = NextForEntry(e)
      BY DEF NextForEntry
    <2> DEFINE r == [IdleGc EXCEPT !.pc = pc, !.entry = e]
    <2>3. r \in GcStates /\ r.pc # "move" /\ r.entry = e
      BY IdleGcOK DEF GcStates
    <2>4. gc' = [gc EXCEPT ![g] = r]
      BY <2>1, <2>2
    <2>5. clock' \in Times
      BY <1>0, <2>1 DEF Times
    <2> HIDE DEF r
    <2>6. GcsOK'
      BY <1>0, <2>3, <2>4, <2>5, SetGcOK
    <2> QED BY <1>0, <2>1, <2>6 DEF GcTypes, IsVolume
  <1>4. CASE Resurrect(g)
    <2>1. /\ gc[g].pc = "resurrect" /\ GcReturn(g) /\ UNCHANGED clock
          /\ RenameIfThere(Qua(gc[g].entry), Obj(gc[g].entry[2]))
      BY <1>4 DEF Resurrect, GcAt
    <2>2. Obj(gc[g].entry[2]) \in Names
      BY <1>0, <2>1, NamesOf DEF GcOK, Entries
    <2>3. IsVolume(vol)'
      BY <1>0, <2>1, <2>2, RenameIfThereVolume
    <2> QED BY <1>0, <2>1, <2>3, GcReturnOK DEF GcTypes
  <1>5. CASE Purge(g)
    <2>1. GcReturn(g) /\ UNCHANGED clock /\ Unlink(Qua(gc[g].entry))
      BY <1>5 DEF Purge
    <2> QED BY <1>0, <2>1, UnlinkStep, GcReturnOK DEF GcTypes
  <1>6. CASE GcAbort(g)
    BY <1>0, <1>6, GcReturnOK DEF GcAbort, GcTypes, IsVolume
  <1> QED BY <1>1, <1>2, <1>3, <1>4, <1>5, <1>6 DEF GcStep
-----------------------------------------------------------------------------
(* Users and the sweeper change the volume, and users what they saved.     *)

LEMMA UserStepTypes ==
    ASSUME TypeInv, UserStep
    PROVE  IsVolume(vol)' /\ SavedOK' /\ OthersUnchanged
  <1>0. IsVolume(vol) /\ SavedOK
    BY DEF TypeInv
  <1>1. PICK t \in Targets :
            (\E c \in Contents : Rewrite(t, c) \/ EditInPlace(t, c)) \/ Delete(t)
    BY DEF UserStep
  <1>2. CASE \E c \in Contents : Rewrite(t, c)
    <2>1. PICK c \in Contents : Rewrite(t, c)
      BY <1>2
    <2>2. IsVolume(vol)'
      BY <1>0, <2>1, NamesOf, CreateStep DEF Rewrite
    <2> QED BY <1>0, <2>1, <2>2 DEF Rewrite, SavedOK
  <1>3. CASE \E c \in Contents : EditInPlace(t, c)
    <2>1. PICK c \in Contents : EditInPlace(t, c)
      BY <1>3
    <2> DEFINE f == File(Ws(t))
               h == [f EXCEPT !.data = c]
    <2>2. f \in vol /\ vol' = Replaced(vol, f, h)
      BY <1>0, <2>1, FileOfName DEF EditInPlace
    <2>3. f \in Files
      BY <1>0, <2>2 DEF IsVolume
    <2>4. h \in Files /\ h.names = f.names
      BY <2>3 DEF Files
    <2> HIDE DEF f, h
    <2>5. IsVolume(vol')
      BY <1>0, <2>2, <2>4, ReplacedVolume DEF IsVolume
    <2> QED BY <1>0, <2>1, <2>5 DEF EditInPlace, SavedOK, IsVolume
  <1>4. CASE Delete(t)
    <2>1. IsVolume(vol)'
      BY <1>0, <1>4, UnlinkStep DEF Delete
    <2> QED BY <1>0, <1>4, <2>1 DEF Delete, SavedOK
  <1> QED BY <1>1, <1>2, <1>3, <1>4

LEMMA InitTypes ==
    ASSUME Init
    PROVE  TypeInv
  <1>1. saved \in [Targets -> Contents]
    BY DEF Init
  <1>2. ASSUME NEW t \in Targets
        PROVE  [names |-> {Ws(t)}, data |-> saved[t], whole |-> TRUE, mode |-> "rw"] \in Files
    BY <1>1, NamesOf DEF Files
  <1>3. IsVolume(vol)
    <2> DEFINE new(t) == [names |-> {Ws(t)}, data |-> saved[t], whole |-> TRUE, mode |-> "rw"]
    <2>1. ASSUME NEW f \in vol PROVE \E t \in Targets : f = new(t)
      BY DEF Init
    <2>2. ASSUME NEW t \in Targets, NEW u \in Targets, new(t).names \cap new(u).names # {}
          PROVE  t = u
      BY <2>2 DEF Ws
    <2>3. ASSUME NEW t \in Targets PROVE new(t) \in Files /\ new(t).names # {}
      BY <1>2
    <2> HIDE DEF new
    <2> QED BY <2>1, <2>2, <2>3 DEF IsVolume
  <1>4. WkOK
    BY IdleWorkerOK DEF Init, LinkInit, WkOK, WorkerOK, IdleWorker, SpillPcs, StagePcs
  <1>5. QOK
    BY Constants DEF Init, LinkInit, QOK
  <1>6. GcsOK
    BY IdleGcOK, Constants DEF Init, GcInit, GcsOK, GcTypeOK, GcOK, IdleGc, Times
  <1> QED BY <1>1, <1>3, <1>4, <1>5, <1>6 DEF TypeInv, SavedOK

LEMMA NextTypes ==
    ASSUME TypeInv, [Next]_vars
    PROVE  TypeInv'
  <1>1. CASE \E w \in Workers : WorkerStep(w) /\ UNCHANGED <<gc, clock, saved>>
    BY <1>1, WorkerStepTypes
    DEF TypeInv, WorkerTypes, GcsOK, GcTypeOK, GcOK, SavedOK
  <1>2. CASE \E g \in Gcs : GcStep(g) /\ UNCHANGED <<wk, retryq, saved>>
    BY <1>2, GcStepTypes DEF TypeInv, GcTypes, WkOK, WorkerOK, QOK, SavedOK
  <1>3. CASE Tick /\ UNCHANGED <<wk, retryq, saved>>
    BY <1>3, Constants
    DEF Tick, TypeInv, IsVolume, WkOK, WorkerOK, QOK, SavedOK, GcsOK, GcTypeOK, GcOK, Times
  <1>4. CASE UserStep
    BY <1>4, UserStepTypes
    DEF OthersUnchanged, TypeInv, WkOK, WorkerOK, QOK, GcsOK, GcTypeOK, GcOK
  <1>5. CASE \E k \in Stages : SweepStage(k)
    BY <1>5, UnlinkStep
    DEF SweepStage, TypeInv, WkOK, WorkerOK, QOK, SavedOK, GcsOK, GcTypeOK, GcOK
  <1>6. CASE UNCHANGED vars
    BY <1>6
    DEF vars, TypeInv, IsVolume, WkOK, WorkerOK, QOK, SavedOK, GcsOK, GcTypeOK, GcOK
  <1> QED BY <1>1, <1>2, <1>3, <1>4, <1>5, <1>6 DEF Next

LEMMA TypesInvariant == Spec => []TypeInv
  <1>1. Init => TypeInv
    BY InitTypes
  <1>2. TypeInv /\ [Next]_vars => TypeInv'
    BY NextTypes
  <1> QED BY <1>1, <1>2, PTL DEF Spec

(* Every variable keeps the shape the code gives it: no interleaving of    *)
(* workers, collectors, sweeper and users makes a name stand for two files,*)
(* leaves a nameless file behind, takes a slot index past the bound or     *)
(* overfills the queue (linkage.rs, store.rs, gc.rs, retry_queue.rs).      *)
THEOREM TypeCorrect == Spec => []TypeOK
  <1>1. TypeInv => TypeOK
    BY DEF TypeInv, TypeOK, LinkTypeOK, GcTypeOK, WkOK, QOK, GcsOK, SavedOK
  <1> QED BY <1>1, TypesInvariant, PTL
-----------------------------------------------------------------------------
(* The temporary link as a lock: of all workers that process one file,     *)
(* only one is about to swap a link in, and its link is there.  This holds *)
(* whatever users, collectors and the sweeper do, and whoever is killed.   *)

LEMMA KeptBound ==
    ASSUME NEW p, Kept(vol, vol', p), NEW r, r # p, Bound(r)
    PROVE  Bound(r)'
  BY DEF Kept, Bound

LEMMA NamesDiffer ==
    ASSUME NEW t, NEW u, NEW s, NEW k, NEW e
    PROVE  /\ Lnk(t) = Lnk(u) => t = u
           /\ Ws(t) = Ws(u) => t = u
           /\ Lnk(t) # Ws(u) /\ Lnk(t) # Obj(s) /\ Lnk(t) # Tmp(k) /\ Lnk(t) # Qua(e)
           /\ Ws(t) # Obj(s) /\ Ws(t) # Tmp(k) /\ Ws(t) # Qua(e)
           /\ Obj(s) # Tmp(k) /\ Obj(s) # Qua(e) /\ Tmp(k) # Qua(e)
           /\ Obj(s) = Obj(e) => s = e
           /\ Tmp(s) = Tmp(k) => s = k
           /\ Qua(s) = Qua(e) => s = e
  BY DEF Ws, Lnk, Obj, Tmp, Qua

(* A worker's step leaves the state of the other workers alone.            *)
LEMMA OtherWorkers ==
    ASSUME NEW w \in Workers, NEW v \in Workers, v # w, WkOK, WorkerStep(w)
    PROVE  wk'[v] = wk[v]
  <1> USE DEF WkOK, Goto, Return, ReadsOnly
  <1>1. CASE Digest(w) \/ Lookup(w) \/ Redigest(w) \/ Acquire(w)
    BY <1>1 DEF Digest, Lookup, Redigest, Acquire
  <1>2. CASE Spill(w) \/ SpillFill(w) \/ SpillCheck(w) \/ SpillMove(w)
    BY <1>2 DEF Spill, SpillFill, SpillCheck, SpillMove, StageCopy, Fill
  <1>3. CASE ExistsCheck(w) \/ Stage(w) \/ StageFill(w)
    BY <1>3 DEF ExistsCheck, Stage, StageFill, StageCopy, Fill
  <1>4. CASE Publish(w) \/ PublishRename(w) \/ LockMaster(w)
    BY <1>4 DEF Publish, PublishRename, LockMaster, MoveIn, EnforceReadOnly
  <1>5. CASE Strip(w) \/ Link(w) \/ Swap(w) \/ Relock(w)
    BY <1>5 DEF Strip, Link, Swap, Relock, EnforceReadOnly
  <1>6. CASE Failure(w)
    BY <1>6 DEF Failure, Abort, PublishFails, LinkBusy, SwapFails, Defer
  <1> QED BY <1>1, <1>2, <1>3, <1>4, <1>5, <1>6 DEF WorkerStep, Progress

(* What the steps of a worker leave it with.                               *)
SameJob(w) == wk'[w].tgt = wk[w].tgt /\ wk'[w].dig = wk[w].dig

LEMMA AfterGoto ==
    ASSUME WkOK, NEW w \in Workers, NEW pc, Goto(w, pc)
    PROVE  wk'[w].pc = pc /\ wk'[w].stg = wk[w].stg /\ SameJob(w)
  BY DEF WkOK, WorkerStates, Goto, SameJob

LEMMA AfterReturn ==
    ASSUME WkOK, NEW w \in Workers, Return(w)
    PROVE  wk'[w].pc = "idle"
  BY DEF WkOK, Return, IdleWorker

LEMMA AfterStaging ==
    ASSUME WkOK, NEW w \in Workers, NEW pc, NEW k,
           wk' = [wk EXCEPT ![w].pc = pc, ![w].stg = k]
    PROVE  wk'[w].pc = pc /\ wk'[w].stg = k /\ SameJob(w)
  BY DEF WkOK, WorkerStates, SameJob

LEMMA AfterNextSlot ==
    ASSUME WkOK, NEW w \in Workers,
           \/ wk' = [wk EXCEPT ![w].idx = @ + 1]
           \/ wk' = [wk EXCEPT ![w].idx = @ + 1, ![w].pc = Acquired(w)]
           \/ wk' = [wk EXCEPT ![w].idx = @ + 1, ![w].stg = None, ![w].pc = Acquired(w)]
    PROVE  wk'[w].pc \in {wk[w].pc, "exists", "strip"} /\ SameJob(w)
  <1> DEFINE a == Acquired(w)
             n == wk[w].idx + 1
  <1>1. wk \in [Workers -> WorkerStates] /\ a \in {"exists", "strip"}
    BY DEF WkOK, Acquired
  <1>2. \/ wk' = [wk EXCEPT ![w].idx = n]
        \/ wk' = [wk EXCEPT ![w].idx = n, ![w].pc = a]
        \/ wk' = [wk EXCEPT ![w].idx = n, ![w].stg = None, ![w].pc = a]
    BY <1>1
  <1> HIDE DEF a, n
  <1> QED BY <1>1, <1>2 DEF WorkerStates, SameJob

LEMMA NextSlotPc ==
    ASSUME WkOK, NEW w \in Workers,
           \/ wk' = [wk EXCEPT ![w].idx = @ + 1, ![w].pc = Acquired(w)]
           \/ wk' = [wk EXCEPT ![w].idx = @ + 1, ![w].stg = None, ![w].pc = Acquired(w)]
    PROVE  wk'[w].pc \in {"exists", "strip"}
  <1> DEFINE a == Acquired(w)
             n == wk[w].idx + 1
  <1>1. wk \in [Workers -> WorkerStates] /\ a \in {"exists", "strip"}
    BY DEF WkOK, Acquired
  <1>2. \/ wk' = [wk EXCEPT ![w].idx = n, ![w].pc = a]
        \/ wk' = [wk EXCEPT ![w].idx = n, ![w].stg = None, ![w].pc = a]
    BY <1>1
  <1> HIDE DEF a, n
  <1> QED BY <1>1, <1>2 DEF WorkerStates

(* Only a link that was made brings a worker to the swap.                  *)
LEMMA WhoSwaps ==
    ASSUME NEW w \in Workers, WkOK, WorkerStep(w), wk'[w].pc = "swap"
    PROVE  Link(w) /\ Bound(Obj(Slot(w))) /\ ~Bound(Lnk(wk[w].tgt))
  <1>0. wk \in [Workers -> WorkerStates] /\ wk[w] \in WorkerStates
    BY DEF WkOK
  <1>1. CASE Digest(w)
    <2>1. PICK t \in Targets :
            wk' = [wk EXCEPT ![w] = [IdleWorker EXCEPT !.pc = "lookup", !.tgt = t,
                                                      !.dig = File(Ws(t)).data]]
      BY <1>1 DEF Digest
    <2> DEFINE d == File(Ws(t)).data
    <2>2. wk'[w] = [IdleWorker EXCEPT !.pc = "lookup", !.tgt = t, !.dig = d]
      BY <1>0, <2>1
    <2> HIDE DEF d
    <2>3. wk'[w].pc = "lookup"
      BY <2>2, IdleWorkerOK DEF WorkerStates
    <2> QED BY <2>3
  <1>2. CASE Lookup(w) \/ Redigest(w) \/ Acquire(w)
    <2>1. CASE Lookup(w)
      BY <1>0, <2>1, AfterGoto DEF Lookup, WorkerStates
    <2>2. CASE Redigest(w)
      <3> DEFINE d == File(Ws(wk[w].tgt)).data
      <3>1. Return(w) \/ wk' = [wk EXCEPT ![w].dig = d, ![w].pc = "acquire"]
        BY <2>2 DEF Redigest
      <3> HIDE DEF d
      <3> QED BY <1>0, <3>1, AfterReturn DEF WorkerStates
    <2>3. CASE Acquire(w)
      <3>1. wk[w].pc = "acquire" /\ Acquired(w) # "swap"
        BY <2>3 DEF Acquire, At, Acquired
      <3>2. \/ Goto(w, Acquired(w)) \/ Goto(w, "spill")
            \/ wk' = [wk EXCEPT ![w].idx = @ + 1]
        BY <2>3 DEF Acquire
      <3>3. CASE wk' = [wk EXCEPT ![w].idx = @ + 1]
        BY <3>1, <3>3, AfterNextSlot
      <3>4. CASE Goto(w, Acquired(w)) \/ Goto(w, "spill")
        BY <3>1, <3>4, AfterGoto
      <3> QED BY <3>2, <3>3, <3>4
    <2> QED BY <1>2, <2>1, <2>2, <2>3
  <1>3. CASE Spill(w) \/ SpillFill(w) \/ SpillCheck(w) \/ SpillMove(w)
    <2>1. CASE Spill(w) /\ \E f : StageCopy(w, f, "spillFill")
      <3>1. PICK k : wk' = [wk EXCEPT ![w].pc = "spillFill", ![w].stg = k]
        BY <2>1 DEF StageCopy
      <3> QED BY <1>0, <3>1 DEF WorkerStates
    <2>2. CASE Spill(w) /\ ~\E f : StageCopy(w, f, "spillFill")
      <3>1. wk[w].pc = "spill"
        BY <2>2 DEF Spill, At
      <3>2. CASE Return(w)
        BY <3>2, AfterReturn
      <3>3. CASE ~Return(w)
        BY <2>2, <3>1, <3>3, AfterNextSlot DEF Spill
      <3> QED BY <3>2, <3>3
    <2>3. CASE SpillFill(w)
      BY <2>3, AfterGoto DEF SpillFill, Fill
    <2>4. CASE SpillCheck(w)
      <3>1. wk[w].pc = "spillCheck"
        BY <2>4 DEF SpillCheck, At
      <3>2. \/ Goto(w, "spillMove")
            \/ wk' = [wk EXCEPT ![w].idx = @ + 1, ![w].stg = None, ![w].pc = Acquired(w)]
        BY <2>4 DEF SpillCheck
      <3>3. CASE Goto(w, "spillMove")
        BY <3>3, AfterGoto
      <3>4. CASE ~Goto(w, "spillMove")
        BY <3>1, <3>2, <3>4, AfterNextSlot
      <3> QED BY <3>3, <3>4
    <2>5. CASE SpillMove(w)
      BY <2>5, AfterReturn, AfterNextSlot DEF SpillMove, At
    <2> QED BY <1>3, <2>1, <2>2, <2>3, <2>4, <2>5
  <1>4. CASE ExistsCheck(w) \/ Stage(w) \/ StageFill(w)
    <2>1. CASE \E f : StageCopy(w, f, "fill")
      <3>1. PICK k : wk' = [wk EXCEPT ![w].pc = "fill", ![w].stg = k]
        BY <2>1 DEF StageCopy
      <3> QED BY <1>0, <3>1 DEF WorkerStates
    <2>2. CASE ~\E f : StageCopy(w, f, "fill")
      BY <1>4, <2>2, AfterGoto, AfterReturn DEF ExistsCheck, Stage, StageFill, Fill
    <2> QED BY <2>1, <2>2
  <1>5. CASE Publish(w) \/ PublishRename(w) \/ LockMaster(w)
    <2>1. \/ Return(w) \/ Goto(w, "rename")
          \/ wk' = [wk EXCEPT ![w].pc = "lock", ![w].stg = None]
      BY <1>5 DEF Publish, PublishRename, LockMaster, MoveIn, EnforceReadOnly
    <2>2. CASE Return(w)
      BY <2>2, AfterReturn
    <2>3. CASE Goto(w, "rename")
      BY <2>3, AfterGoto
    <2>4. CASE wk' = [wk EXCEPT ![w].pc = "lock", ![w].stg = None]
      BY <1>0, <2>4 DEF WorkerStates
    <2> QED BY <2>1, <2>2, <2>3, <2>4
  <1>6. CASE Strip(w) \/ Link(w) \/ Swap(w) \/ Relock(w)
    BY <1>6, AfterGoto, AfterReturn DEF Strip, Link, Swap, Relock, EnforceReadOnly
  <1>7. CASE Failure(w)
    BY <1>7, AfterReturn DEF Failure, Abort, PublishFails, LinkBusy, SwapFails, Defer
  <1> QED BY <1>1, <1>2, <1>3, <1>4, <1>5, <1>6, <1>7 DEF WorkerStep, Progress
-----------------------------------------------------------------------------
(* Temporary links, and workspace paths too, stay bound.                   *)
LinksStay == \A t \in Targets : Bound(Lnk(t)) => Bound(Lnk(t))'
PathsStay == LinksStay /\ \A t \in Targets : Bound(Ws(t)) => Bound(Ws(t))'

LEMMA KeptPaths ==
    ASSUME NEW p, Kept(vol, vol', p), \A t \in Targets : Lnk(t) # p /\ Ws(t) # p
    PROVE  PathsStay
  BY KeptBound DEF PathsStay, LinksStay

LEMMA SamePaths ==
    ASSUME UNCHANGED vol
    PROVE  PathsStay
  BY DEF PathsStay, LinksStay, Bound

(* Other steps of a worker remove neither.                                 *)
LEMMA WorkerPaths ==
    ASSUME TypeInv, NEW w \in Workers, WorkerStep(w), ~Swap(w), ~SwapFails(w)
    PROVE  PathsStay
  <1>0. IsVolume(vol) /\ WkOK
    BY DEF TypeInv
  <1>1. CASE ReadsOnly
    BY <1>1, SamePaths DEF ReadsOnly
  <1>2. ASSUME NEW f \in vol, NEW pc \in {"fill", "spillFill"}, StageCopy(w, f, pc)
        PROVE  PathsStay
    <2>1. PICK k \in Stages : Create(Tmp(k), f.data, FALSE, f.mode)
      BY <1>2 DEF StageCopy
    <2>2. PICK d \in Contents, m \in {"rw", "ro"} : d = f.data /\ m = f.mode
      BY <1>0 DEF IsVolume, Files
    <2>3. PICK p \in Names, b \in BOOLEAN : p = Tmp(k) /\ Create(p, d, b, m)
      BY <2>1, <2>2, NamesOf
    <2>4. Kept(vol, vol', Tmp(k))
      BY <1>0, <2>3, CreateStep
    <2> QED BY <2>4, KeptPaths, NamesDiffer
  <1>3. CASE SpillFill(w) \/ StageFill(w)
    BY <1>3, FillVolume DEF SpillFill, StageFill, PathsStay, LinksStay
  <1>4. CASE Unlink(MyStage(w))
    <2>1. Kept(vol, vol', MyStage(w))
      BY <1>0, <1>4, UnlinkStep
    <2> QED BY <2>1, KeptPaths, NamesDiffer DEF MyStage
  <1>5. ASSUME NEW s \in Slots, Bound(MyStage(w)), Rename(MyStage(w), Obj(s))
        PROVE  PathsStay
    <2>1. Kept(vol, vol', MyStage(w))
      BY <1>0, <1>5, NamesOf, RenameStep
    <2> QED BY <2>1, KeptPaths, NamesDiffer DEF MyStage
  <1>6. ASSUME wk[w].pc # "idle", MoveIn(w)
        PROVE  PathsStay
    BY <1>0, <1>5, <1>6, SlotOfWorker, SamePaths DEF MoveIn
  <1>7. ASSUME NEW p, NEW m \in {"ro", "rw"}, Chmod(p, m)
        PROVE  PathsStay
    BY <1>0, <1>7, ChmodStep DEF PathsStay, LinksStay
  <1>8. CASE Digest(w) \/ Lookup(w) \/ Redigest(w) \/ Acquire(w) \/ ExistsCheck(w)
             \/ Abort(w) \/ LinkBusy(w)
    BY <1>1, <1>8, SamePaths
    DEF Digest, Lookup, Redigest, Acquire, ExistsCheck, Abort, LinkBusy
  <1>9. CASE Spill(w)
    BY <1>0, <1>1, <1>2, <1>9, FileOfName DEF Spill
  <1>10. CASE SpillCheck(w)
    BY <1>4, <1>10, SamePaths DEF SpillCheck
  <1>11. CASE SpillMove(w)
    <2>1. NextSlot(w) \in Slots
      BY <1>0, <1>11, SlotOfWorker DEF SpillMove, At, SpillPcs
    <2> QED BY <1>5, <1>11, <2>1, SamePaths DEF SpillMove
  <1>12. CASE Stage(w)
    BY <1>0, <1>1, <1>2, <1>12, FileOfName DEF Stage
  <1>13. CASE Publish(w) \/ PublishRename(w) \/ PublishFails(w)
    BY <1>4, <1>6, <1>13, SamePaths DEF Publish, PublishRename, PublishFails, At
  <1>14. CASE LockMaster(w) \/ Strip(w) \/ Relock(w)
    BY <1>7, <1>14 DEF LockMaster, Strip, Relock, EnforceReadOnly
  <1>15. CASE Link(w)
    <2>1. CASE Bound(Obj(Slot(w))) /\ ~Bound(Lnk(wk[w].tgt))
      <3>1. PICK t \in Targets, s \in Slots : t = wk[w].tgt /\ s = Slot(w)
        BY <1>0, <1>15, SlotOfWorker DEF Link, At, WkOK, WorkerOK
      <3>2. HardLink(Obj(s), Lnk(t)) /\ Lnk(t) \in Names
        BY <1>15, <2>1, <3>1, NamesOf DEF Link
      <3>3. Kept(vol, vol', Lnk(t)) /\ Bound(Lnk(t))'
        BY <1>0, <2>1, <3>1, <3>2, HardLinkStep
      <3> QED BY <3>3, KeptBound DEF PathsStay, LinksStay
    <2>2. CASE ~(Bound(Obj(Slot(w))) /\ ~Bound(Lnk(wk[w].tgt)))
      BY <1>15, <2>2, SamePaths DEF Link
    <2> QED BY <2>1, <2>2
  <1> QED
    BY <1>3, <1>8, <1>9, <1>10, <1>11, <1>12, <1>13, <1>14, <1>15
    DEF WorkerStep, Progress, Failure

(* Nor do collectors and the sweeper.                                      *)
LEMMA OtherPaths ==
    ASSUME TypeInv,
           \/ \E g \in Gcs : GcStep(g)
           \/ Tick \/ \E k \in Stages : SweepStage(k)
    PROVE  PathsStay
  <1>0. IsVolume(vol)
    BY DEF TypeInv
  <1>1. ASSUME NEW p, NEW q \in Names, \A t \in Targets : Lnk(t) # p /\ Ws(t) # p,
               RenameIfThere(p, q)
        PROVE  PathsStay
    <2>1. CASE Bound(p)
      <3>1. Kept(vol, vol', p)
        BY <1>0, <1>1, <2>1, RenameStep DEF RenameIfThere
      <3> QED BY <1>1, <3>1, KeptPaths
    <2>2. CASE ~Bound(p)
      BY <1>1, <2>2, SamePaths DEF RenameIfThere
    <2> QED BY <2>1, <2>2
  <1>2. ASSUME NEW p, \A t \in Targets : Lnk(t) # p /\ Ws(t) # p, Unlink(p)
        PROVE  PathsStay
    BY <1>0, <1>2, UnlinkStep, KeptPaths
  <1>3. ASSUME NEW g \in Gcs, GcStep(g)
        PROVE  PathsStay
    <2>1. GcOK(g)
      BY DEF TypeInv, GcsOK
    <2>2. CASE StatSlot(g) \/ StatEntry(g) \/ GcAbort(g)
      BY <2>2, SamePaths DEF StatSlot, StatEntry, GcAbort
    <2>3. CASE MoveToQuarantine(g)
      BY <1>1, <2>1, <2>3, NamesOf, NamesDiffer DEF MoveToQuarantine, GcAt, GcOK
    <2>4. CASE Resurrect(g)
      <3>1. Obj(gc[g].entry[2]) \in Names
        BY <2>1, <2>4, NamesOf DEF Resurrect, GcAt, GcOK, Entries
      <3> QED BY <1>1, <2>4, <3>1, NamesDiffer DEF Resurrect
    <2>5. CASE Purge(g)
      BY <1>2, <2>5, NamesDiffer DEF Purge
    <2> QED BY <1>3, <2>2, <2>3, <2>4, <2>5 DEF GcStep
  <1>5. CASE \E k \in Stages : SweepStage(k)
    BY <1>2, <1>5, NamesDiffer DEF SweepStage
  <1>6. CASE Tick
    BY <1>6, SamePaths DEF Tick
  <1> QED BY <1>3, <1>5, <1>6

(* A user's step unbinds no path but, perhaps, the file's own.             *)
LEMMA UserPaths ==
    ASSUME TypeInv, NEW t \in Targets,
           (\E c \in Contents : Rewrite(t, c) \/ EditInPlace(t, c)) \/ Delete(t)
    PROVE  \A r : r # Ws(t) /\ Bound(r) => Bound(r)'
  <1>0. IsVolume(vol)
    BY DEF TypeInv
  <1>1. ASSUME NEW c \in Contents, Rewrite(t, c)
        PROVE  \A r : r # Ws(t) /\ Bound(r) => Bound(r)'
    <2>1. Kept(vol, vol', Ws(t))
      BY <1>0, <1>1, NamesOf, CreateStep DEF Rewrite
    <2> QED BY <2>1, KeptBound
  <1>2. ASSUME NEW c \in Contents, EditInPlace(t, c)
        PROVE  \A r : Bound(r) => Bound(r)'
    <2> DEFINE f == File(Ws(t))
               h == [f EXCEPT !.data = c]
    <2>1. f \in vol /\ vol' = Replaced(vol, f, h)
      BY <1>0, <1>2, FileOfName DEF EditInPlace
    <2>2. f \in Files
      BY <1>0, <2>1 DEF IsVolume
    <2>3. h \in Files /\ h.names = f.names
      BY <2>2 DEF Files
    <2> HIDE DEF f, h
    <2> QED BY <1>0, <2>1, <2>3, ReplacedVolume DEF Bound, IsVolume
  <1>3. CASE Delete(t)
    BY <1>0, <1>3, UnlinkStep, KeptBound DEF Delete
  <1> QED BY <1>1, <1>2, <1>3

(* A step that brings no worker to the swap and removes no link, or only   *)
(* that of a worker which thereby leaves the swap.                         *)
LEMMA WorkerStepSwapper ==
    ASSUME TypeInv, OneSwapper, NEW w \in Workers, WorkerStep(w)
    PROVE  OneSwapper'
  <1>0. WkOK /\ IsVolume(vol)
    BY DEF TypeInv
  <1>1. \A v \in Workers \ {w} : wk'[v] = wk[v]
    BY <1>0, OtherWorkers
  <1>2. \A v \in Workers : At(v, "swap") => wk[v].tgt \in Targets
    BY <1>0 DEF WkOK, WorkerOK, At
  <1>3. CASE wk'[w].pc = "swap"
    <2>1. Link(w) /\ Bound(Obj(Slot(w))) /\ ~Bound(Lnk(wk[w].tgt))
      BY <1>0, <1>3, WhoSwaps
    <2>2. wk'[w].tgt = wk[w].tgt /\ wk[w].pc = "link"
      BY <1>0, <2>1, AfterGoto DEF Link, SameJob, At
    <2>3. LinksStay
      BY <2>1, <2>2, WorkerPaths DEF PathsStay, Swap, SwapFails, At
    <2>4. PICK t \in Targets, s \in Slots : t = wk[w].tgt /\ s = Slot(w)
      BY <1>0, <2>2, SlotOfWorker DEF WkOK, WorkerOK
    <2>5. HardLink(Obj(s), Lnk(t)) /\ Lnk(t) \in Names
      BY <2>1, <2>4, NamesOf DEF Link
    <2>7. Bound(Lnk(t))'
      BY <1>0, <2>1, <2>4, <2>5, HardLinkStep
    <2>6. \A v \in Workers \ {w} : At(v, "swap") => wk[v].tgt # wk[w].tgt
      BY <2>1 DEF OneSwapper
    <2> QED
      BY <1>1, <1>2, <1>3, <2>2, <2>3, <2>4, <2>6, <2>7
      DEF OneSwapper, LinksStay, At, Bound, Lnk
  <1>4. CASE wk'[w].pc # "swap" /\ ~Swap(w) /\ ~SwapFails(w)
    <2>1. LinksStay
      BY <1>4, WorkerPaths DEF PathsStay
    <2> QED BY <1>1, <1>2, <1>4, <2>1 DEF OneSwapper, LinksStay, At, Bound, Lnk
  <1>5. CASE wk'[w].pc # "swap" /\ (Swap(w) \/ SwapFails(w))
    <2>1. At(w, "swap") /\ Bound(Lnk(wk[w].tgt)) /\ Ws(wk[w].tgt) \in Names
      BY <1>2, <1>5, NamesOf DEF Swap, SwapFails, OneSwapper
    <2>2. Kept(vol, vol', Lnk(wk[w].tgt))
      BY <1>0, <1>5, <2>1, RenameStep, UnlinkStep DEF Swap, SwapFails
    <2>3. ASSUME NEW v \in Workers \ {w}, At(v, "swap")
          PROVE  Bound(Lnk(wk[v].tgt)) /\ Bound(Lnk(wk[v].tgt))'
      BY <1>1, <2>1, <2>2, <2>3, KeptBound, NamesDiffer DEF OneSwapper, Bound, Lnk
    <2> QED BY <1>1, <1>5, <2>3 DEF OneSwapper, At
  <1> QED BY <1>3, <1>4, <1>5

LEMMA NextSwapper ==
    ASSUME TypeInv, OneSwapper, [Next]_vars
    PROVE  OneSwapper'
  <1>0. \A v \in Workers : At(v, "swap") => wk[v].tgt \in Targets
    BY DEF TypeInv, WkOK, WorkerOK, At
  <1>1. CASE \E w \in Workers : WorkerStep(w)
    BY <1>1, WorkerStepSwapper
  <1>2. CASE LinksStay /\ UNCHANGED wk
    BY <1>0, <1>2 DEF OneSwapper, LinksStay, At, Bound, Lnk
  <1>3. CASE (\E g \in Gcs : GcStep(g)) /\ UNCHANGED wk
    BY <1>2, <1>3, OtherPaths DEF PathsStay
  <1>4. CASE Tick /\ UNCHANGED wk
    BY <1>2, <1>4, OtherPaths DEF PathsStay
  <1>5. CASE UserStep
    BY <1>2, <1>5, UserPaths, UserStepTypes, NamesDiffer
    DEF UserStep, OthersUnchanged, LinksStay
  <1>6. CASE \E k \in Stages : SweepStage(k)
    BY <1>2, <1>6, OtherPaths DEF PathsStay, SweepStage
  <1>7. CASE UNCHANGED vars
    BY <1>2, <1>7, SamePaths DEF PathsStay, vars
  <1> QED BY <1>1, <1>3, <1>4, <1>5, <1>6, <1>7 DEF Next

(* Of all workers on one file only one is about to swap the temporary link *)
(* in, and the link it made is still there: hard_link's failure on a name  *)
(* that exists makes <target>.tmp_link a lock (link_to_master).            *)
THEOREM SwapIsExclusive == Spec => []OneSwapper
  <1>1. Init => OneSwapper
    BY DEF Init, LinkInit, IdleWorker, OneSwapper, At
  <1>2. TypeInv /\ OneSwapper /\ [Next]_vars => OneSwapper'
    BY NextSwapper
  <1> QED BY <1>1, <1>2, TypesInvariant, PTL DEF Spec
=============================================================================
