--------------------------- MODULE ContentProofs ----------------------------
(***************************************************************************)
(* No interleaving of workers, collectors and the sweeper, wherever any of *)
(* them is killed, puts a wrong or an incomplete file into the store or    *)
(* behind a workspace path, as long as users rewrite files by breaking     *)
(* links and leave a file alone while a worker processes it.               *)
(*                                                                         *)
(* Every name makes a promise about the file it names.  A step keeps the   *)
(* promises if the name it adds makes none that the file's old name did not*)
(* make already.                                                           *)
(***************************************************************************)
EXTENDS TypeProofs

FillPcs == {"fill", "spillFill"}

SlotPromise(f, r) ==
    /\ \A s \in Slots   : r = Obj(s) => Intact(f, s[1])
    /\ \A e \in Entries : r = Qua(e) => Intact(f, e[2][1])
UserPromise(f, r) == \A t \in Targets : r = Ws(t) => f.data = saved[t]
WorkerPromise(w, f, r) ==
    /\ wk[w].pc \in StagePcs /\ r = MyStage(w) =>
           f.data = wk[w].dig /\ (wk[w].pc \notin FillPcs => f.whole)
    /\ At(w, "swap") /\ r = Lnk(wk[w].tgt) => f.data = wk[w].dig
Promise(f, r) ==
    SlotPromise(f, r) /\ UserPromise(f, r) /\ \A w \in Workers : WorkerPromise(w, f, r)

(* Every name keeps its promise; a worker's digest is that of the file its *)
(* user left; and every file its user left is there.                       *)
Correct == \A f \in vol : \A r \in f.names : Promise(f, r)
Work    == \A w \in Workers : wk[w].pc # "idle" => saved[wk[w].tgt] = wk[w].dig
Present == \A t \in Targets : saved[t] # None => Bound(Ws(t))
ContentInv == TypeInv /\ OneSwapper /\ Correct /\ Work /\ Present

(* What the files of the next state owe, before workers and users change.  *)
Carried == \A g \in vol' : \A r \in g.names : Promise(g, r)

LEMMA ContinuedPromise ==
    ASSUME NEW f, NEW g, NEW r, Continues(g, f), Promise(f, r)
    PROVE  Promise(g, r)
  BY DEF Continues, Promise, SlotPromise, UserPromise, WorkerPromise, Intact

LEMMA TracedPromise ==
    ASSUME Correct, NEW p, NEW q, Traced(vol, vol', p, q),
           \A f \in vol : p \in f.names => Promise(f, q)
    PROVE  Carried
  <1>1. ASSUME NEW g \in vol', NEW r \in g.names
        PROVE  Promise(g, r)
    <2>1. PICK f \in vol : /\ Continues(g, f)
                           /\ \A x \in g.names : x \in f.names \/ (x = q /\ p \in f.names)
      BY DEF Traced
    <2>2. Promise(f, r)
      BY <2>1 DEF Correct
    <2> QED BY <2>1, <2>2, ContinuedPromise
  <1> QED BY <1>1 DEF Carried

LEMMA SamePromise ==
    ASSUME Correct, UNCHANGED vol
    PROVE  Carried
  BY DEF Correct, Carried

(* The operations as the actions use them.                                 *)
LEMMA UnlinkPromise ==
    ASSUME ContentInv, NEW p, Unlink(p)
    PROVE  Carried
  BY UnlinkStep, TracedPromise DEF ContentInv, TypeInv, Correct

LEMMA ChmodPromise ==
    ASSUME ContentInv, NEW p, NEW m \in {"rw", "ro"}, Chmod(p, m)
    PROVE  Carried
  BY ChmodStep, TracedPromise DEF ContentInv, TypeInv, Correct

LEMMA RenamePromise ==
    ASSUME ContentInv, NEW p, NEW q \in Names, Bound(p), Rename(p, q),
           \A f \in vol : p \in f.names => Promise(f, q)
    PROVE  Carried
  BY RenameStep, TracedPromise DEF ContentInv, TypeInv

LEMMA FillPromise ==
    ASSUME ContentInv, NEW w \in Workers, NEW from, NEW to, Fill(w, from, to)
    PROVE  Carried /\ \A g \in vol' : MyStage(w) \in g.names => g.whole
  <1>1. \A g \in vol' : \E f \in vol :
            /\ Continues(g, f) /\ g.names = f.names
            /\ MyStage(w) \in g.names => g.whole
    BY FillVolume DEF ContentInv
  <1> QED BY <1>1, ContinuedPromise DEF ContentInv, Correct, Carried

(* The name of a slot promises nothing but the slot's content.             *)
LEMMA SlotNamePromise ==
    ASSUME TypeInv, NEW f, NEW s \in Slots, Intact(f, s[1])
    PROVE  /\ Promise(f, Obj(s))
           /\ \A e \in Entries : e[2] = s => Promise(f, Qua(e))
  BY NamesDiffer
  DEF Promise, SlotPromise, UserPromise, WorkerPromise, MyStage

(* And a staged file that is complete keeps it.                            *)
LEMMA StagePromise ==
    ASSUME ContentInv, NEW w \in Workers, wk[w].pc \in StagePcs \ FillPcs,
           NEW s \in Slots, s[1] = wk[w].dig
    PROVE  \A f \in vol : MyStage(w) \in f.names => Promise(f, Obj(s))
  <1>1. ASSUME NEW f \in vol, MyStage(w) \in f.names
        PROVE  Intact(f, s[1])
    BY <1>1 DEF ContentInv, Correct, Promise, WorkerPromise, Intact
  <1> QED BY <1>1, SlotNamePromise DEF ContentInv

LEMMA MoveInPromise ==
    ASSUME ContentInv, NEW w \in Workers, wk[w].pc \in {"publish", "rename"}, MoveIn(w)
    PROVE  Carried
  <1>1. CASE Bound(MyStage(w))
    <2>1. Rename(MyStage(w), Obj(Slot(w)))
      BY <1>1 DEF MoveIn
    <2>2. Slot(w) \in Slots /\ Slot(w)[1] = wk[w].dig
      BY SlotOfWorker DEF ContentInv, TypeInv
    <2>3. \A f \in vol : MyStage(w) \in f.names => Promise(f, Obj(Slot(w)))
      BY <2>2, StagePromise DEF StagePcs, FillPcs
    <2> QED BY <1>1, <2>1, <2>2, <2>3, NamesOf, RenamePromise
  <1>2. CASE ~Bound(MyStage(w))
    BY <1>2, SamePromise DEF MoveIn, ContentInv
  <1> QED BY <1>1, <1>2
-----------------------------------------------------------------------------
(* Steps of workers.                                                       *)

(* A worker that makes no copy and no link leaves all files as promised.   *)
LEMMA WorkerCarries ==
    ASSUME ContentInv, NEW w \in Workers, WorkerStep(w), ~Link(w), ~Spill(w), ~Stage(w)
    PROVE  Carried
  <1>0. Correct /\ IsVolume(vol) /\ WkOK /\ TypeInv
    BY DEF ContentInv, TypeInv
  <1>1. CASE Digest(w) \/ Lookup(w) \/ Redigest(w) \/ Acquire(w) \/ ExistsCheck(w)
             \/ Abort(w) \/ LinkBusy(w)
    BY <1>0, <1>1, SamePromise
    DEF Digest, Lookup, Redigest, Acquire, ExistsCheck, Abort, LinkBusy, ReadsOnly
  <1>3. CASE SpillFill(w) \/ StageFill(w)
    BY <1>3, FillPromise DEF SpillFill, StageFill
  <1>4. CASE SpillCheck(w)
    BY <1>0, <1>4, UnlinkPromise, SamePromise DEF SpillCheck
  <1>5. CASE SpillMove(w)
    <2>0. wk[w].pc = "spillMove"
      BY <1>5 DEF SpillMove, At
    <2>1. NextSlot(w) \in Slots /\ NextSlot(w)[1] = wk[w].dig
      BY <1>0, <2>0, SlotOfWorker DEF SpillPcs
    <2>2. \A f \in vol : MyStage(w) \in f.names => Promise(f, Obj(NextSlot(w)))
      BY <2>0, <2>1, StagePromise DEF StagePcs, FillPcs
    <2> QED BY <1>0, <1>5, <2>1, <2>2, NamesOf, RenamePromise, SamePromise DEF SpillMove
  <1>6. CASE Publish(w)
    <2>1. wk[w].pc = "publish"
      BY <1>6 DEF Publish, At
    <2> QED BY <1>0, <1>6, <2>1, UnlinkPromise, MoveInPromise, SamePromise DEF Publish
  <1>7. CASE PublishRename(w)
    BY <1>7, MoveInPromise DEF PublishRename, At
  <1>8. CASE PublishFails(w)
    BY <1>8, UnlinkPromise DEF PublishFails
  <1>9. CASE LockMaster(w) \/ Strip(w) \/ Relock(w)
    BY <1>9, ChmodPromise DEF LockMaster, Strip, Relock, EnforceReadOnly
  <1>10. CASE Swap(w)
    <2>1. wk[w].pc = "swap" /\ wk[w].tgt \in Targets /\ saved[wk[w].tgt] = wk[w].dig
      BY <1>10 DEF Swap, At, ContentInv, TypeInv, WkOK, WorkerOK, Work
    <2>2. ASSUME NEW f \in vol, Lnk(wk[w].tgt) \in f.names
          PROVE  Promise(f, Ws(wk[w].tgt))
      <3>1. f.data = saved[wk[w].tgt]
        BY <1>0, <2>1, <2>2 DEF Correct, Promise, WorkerPromise, At
      <3> QED
        BY <3>1, NamesDiffer DEF Promise, SlotPromise, UserPromise, WorkerPromise, MyStage
    <2> QED BY <1>0, <1>10, <2>1, <2>2, NamesOf, RenamePromise, SamePromise DEF Swap
  <1>11. CASE SwapFails(w)
    BY <1>11, UnlinkPromise DEF SwapFails
  <1> QED
    BY <1>1, <1>3, <1>4, <1>5, <1>6, <1>7, <1>8, <1>9, <1>10, <1>11
    DEF WorkerStep, Progress, Failure

(* What the other workers and the users are owed does not change, so what  *)
(* remains is what the worker itself is owed now.                          *)
LEMMA CarriedCorrect ==
    ASSUME WkOK, NEW w \in Workers, WorkerStep(w), UNCHANGED saved, Carried,
           \A g \in vol' : \A r \in g.names : WorkerPromise(w, g, r)'
    PROVE  Correct'
  <1>1. ASSUME NEW v \in Workers, v # w, NEW g, NEW r, WorkerPromise(v, g, r)
        PROVE  WorkerPromise(v, g, r)'
    <2>1. wk'[v] = wk[v]
      BY <1>1, OtherWorkers
    <2> QED BY <1>1, <2>1 DEF WorkerPromise, MyStage, At
  <1>2. ASSUME NEW g \in vol', NEW r \in g.names
        PROVE  Promise(g, r)'
    <2>1. Promise(g, r)
      BY <1>2 DEF Carried
    <2>2. SlotPromise(g, r)' /\ UserPromise(g, r)'
      BY <2>1 DEF Promise, SlotPromise, UserPromise
    <2>3. \A v \in Workers : WorkerPromise(v, g, r)'
      BY <1>1, <1>2, <2>1 DEF Promise
    <2> QED BY <2>2, <2>3 DEF Promise
  <1> QED BY <1>2 DEF Correct

(* A copy in tmp/ has the content of the file it is made from.             *)
LEMMA StageCorrect ==
    ASSUME ContentInv, NEW w \in Workers, wk[w].pc # "idle", NEW f \in vol,
           NEW pc \in {"fill", "spillFill"}, StageCopy(w, f, pc),
           pc = "spillFill" => wk[w].pc \in SpillPcs, f.data = wk[w].dig,
           WorkerStep(w), UNCHANGED saved
    PROVE  Correct'
  <1>0. WkOK /\ IsVolume(vol) /\ TypeInv /\ Correct
    BY DEF ContentInv, TypeInv
  <1>1. PICK k \in Stages : /\ StageFree(k) /\ Create(Tmp(k), f.data, FALSE, f.mode)
                            /\ wk' = [wk EXCEPT ![w].pc = pc, ![w].stg = k]
    BY DEF StageCopy
  <1>8. PICK d \in Contents, m \in {"rw", "ro"} : d = f.data /\ m = f.mode
    BY <1>0 DEF IsVolume, Files
  <1>2. PICK p \in Names, b \in BOOLEAN : p = Tmp(k) /\ Create(p, d, b, m)
    BY <1>1, <1>8, NamesOf
  <1>3. ASSUME NEW g \in vol'
        PROVE  \/ g.names = {Tmp(k)} /\ g.data = d
               \/ /\ Tmp(k) \notin g.names
                  /\ \E e \in vol : Continues(g, e) /\ g.names \subseteq e.names
    BY <1>0, <1>2, CreateStep
  <1>4. ASSUME NEW g, g.data = d
        PROVE  Promise(g, Tmp(k))
    <2>1. \A v \in Workers : wk[v].stg # k
      BY <1>1 DEF StageFree
    <2>2. \A v \in Workers : WorkerPromise(v, g, Tmp(k))
      BY <2>1, NamesDiffer DEF WorkerPromise, MyStage
    <2> QED BY <2>2, NamesDiffer DEF Promise, SlotPromise, UserPromise
  <1>5. ASSUME NEW g \in vol', NEW r \in g.names
        PROVE  Promise(g, r) /\ (r = Tmp(k) => g.data = d)
    <2>1. CASE g.names = {Tmp(k)} /\ g.data = d
      BY <1>4, <1>5, <2>1
    <2>2. CASE Tmp(k) \notin g.names
      <3>1. PICK e \in vol : Continues(g, e) /\ g.names \subseteq e.names
        BY <1>3, <2>2
      <3>2. Promise(e, r)
        BY <1>0, <1>5, <3>1 DEF Correct
      <3> QED BY <1>5, <2>2, <3>1, <3>2, ContinuedPromise
    <2> QED BY <1>3, <2>1, <2>2
  <1>6. wk'[w].pc = pc /\ wk'[w].stg = k /\ wk'[w].dig = wk[w].dig
    <2>1. wk' = [wk EXCEPT ![w].pc = pc, ![w].stg = k]
      BY <1>1
    <2> QED BY <1>0, <2>1 DEF WkOK, WorkerStates
  <1>7. ASSUME NEW g \in vol', NEW r \in g.names
        PROVE  WorkerPromise(w, g, r)'
    <2>1. /\ r = MyStage(w)' => g.data = wk'[w].dig
          /\ wk'[w].pc \in FillPcs /\ ~At(w, "swap")'
      BY <1>5, <1>6, <1>7, <1>8 DEF MyStage, At, FillPcs
    <2> QED BY <2>1 DEF WorkerPromise
  <1> QED BY <1>0, <1>5, <1>7, CarriedCorrect DEF Carried

(* The temporary link is a link to the slot of the worker's digest.        *)
LEMMA LinkCorrect ==
    ASSUME ContentInv, NEW w \in Workers, Link(w), WorkerStep(w), UNCHANGED saved
    PROVE  Correct'
  <1>0. WkOK /\ IsVolume(vol) /\ TypeInv /\ Correct
    BY DEF ContentInv, TypeInv
  <1>1. PICK t \in Targets, s \in Slots : t = wk[w].tgt /\ s = Slot(w) /\ s[1] = wk[w].dig
    BY <1>0, SlotOfWorker DEF Link, At, WkOK, WorkerOK
  <1>2. CASE Return(w) /\ UNCHANGED vol
    <2>1. Carried
      BY <1>0, <1>2, SamePromise
    <2>2. \A g \in vol' : \A r \in g.names : WorkerPromise(w, g, r)'
      BY <1>0, <1>2, AfterReturn DEF WorkerPromise, At, StagePcs
    <2> QED BY <1>0, <2>1, <2>2, CarriedCorrect
  <1>3. CASE ~(Return(w) /\ UNCHANGED vol)
    <2>1. Bound(Obj(s)) /\ ~Bound(Lnk(t)) /\ HardLink(Obj(s), Lnk(t)) /\ Goto(w, "swap")
      BY <1>1, <1>3 DEF Link
    <2>2. Traced(vol, vol', Obj(s), Lnk(t))
      BY <1>0, <2>1, NamesOf, HardLinkStep
    <2>3. \A v \in Workers : At(v, "swap") => wk[v].tgt # t
      BY <2>1 DEF ContentInv, OneSwapper
    <2>4. \A f : Promise(f, Lnk(t))
      BY <2>3, NamesDiffer DEF Promise, SlotPromise, UserPromise, WorkerPromise, MyStage
    <2>5. Carried
      BY <1>0, <2>2, <2>4, TracedPromise
    <2>6. ASSUME NEW g \in vol', Lnk(t) \in g.names
          PROVE  g.data = wk[w].dig
      <3>1. PICK f \in vol : Continues(g, f) /\ (Lnk(t) \in f.names \/ Obj(s) \in f.names)
        BY <2>2, <2>6 DEF Traced
      <3>2. Obj(s) \in f.names
        BY <2>1, <3>1 DEF Bound
      <3>3. f.data = s[1]
        BY <1>0, <3>2 DEF Correct, Promise, SlotPromise, Intact
      <3> QED BY <1>1, <3>1, <3>3 DEF Continues
    <2>7. wk'[w].pc = "swap" /\ wk'[w].tgt = t /\ wk'[w].dig = wk[w].dig
      BY <1>0, <1>1, <2>1, AfterGoto DEF SameJob
    <2>8. \A g \in vol' : \A r \in g.names : WorkerPromise(w, g, r)'
      BY <2>6, <2>7 DEF WorkerPromise, StagePcs, Lnk
    <2> QED BY <1>0, <2>5, <2>8, CarriedCorrect
  <1> QED BY <1>2, <1>3

(* A worker that has a staged file, and does not just begin one, had it    *)
(* before.                                                                 *)
LEMMA WhoStages ==
    ASSUME WkOK, NEW w \in Workers, WorkerStep(w), wk'[w].pc \in StagePcs,
           ~Spill(w), ~Stage(w)
    PROVE  /\ wk[w].pc \in StagePcs /\ wk'[w].stg = wk[w].stg /\ SameJob(w)
           /\ SpillFill(w) \/ StageFill(w) \/ wk[w].pc \notin FillPcs
  <1>0. wk \in [Workers -> WorkerStates] /\ wk[w] \in WorkerStates
        /\ Acquired(w) \in {"exists", "strip"}
    BY DEF WkOK, Acquired
  <1>1. CASE Digest(w)
    <2>1. PICK t \in Targets :
            wk' = [wk EXCEPT ![w] = [IdleWorker EXCEPT !.pc = "lookup", !.tgt = t,
                                                      !.dig = File(Ws(t)).data]]
      BY <1>1 DEF Digest
    <2> DEFINE d == File(Ws(t)).data
    <2>2. wk'[w] = [IdleWorker EXCEPT !.pc = "lookup", !.tgt = t, !.dig = d]
      BY <1>0, <2>1
    <2> HIDE DEF d
    <2>3. wk'[w].pc = "lookup"
      BY <2>2, IdleWorkerOK DEF WorkerStates
    <2> QED BY <2>3 DEF StagePcs
  <1>2. CASE Lookup(w)
    BY <1>0, <1>2, AfterGoto DEF Lookup, WorkerStates, StagePcs
  <1>3. CASE Redigest(w)
    <2> DEFINE d == File(Ws(wk[w].tgt)).data
    <2>1. Return(w) \/ wk' = [wk EXCEPT ![w].dig = d, ![w].pc = "acquire"]
      BY <1>3 DEF Redigest
    <2> HIDE DEF d
    <2> QED BY <1>0, <2>1, AfterReturn DEF WorkerStates, StagePcs
  <1>4. CASE Acquire(w)
    <2>1. wk[w].pc = "acquire"
      BY <1>4 DEF Acquire, At
    <2>2. \/ Goto(w, Acquired(w)) \/ Goto(w, "spill")
          \/ wk' = [wk EXCEPT ![w].idx = @ + 1]
      BY <1>4 DEF Acquire
    <2>3. CASE wk' = [wk EXCEPT ![w].idx = @ + 1]
      BY <2>1, <2>3, AfterNextSlot DEF StagePcs
    <2>4. CASE Goto(w, Acquired(w)) \/ Goto(w, "spill")
      BY <1>0, <2>4, AfterGoto DEF StagePcs
    <2> QED BY <2>2, <2>3, <2>4
  <1>6. CASE SpillFill(w) \/ StageFill(w)
    BY <1>6, AfterGoto DEF SpillFill, StageFill, Fill, At, StagePcs
  <1>7. CASE SpillCheck(w)
    <2>1. wk[w].pc = "spillCheck"
      BY <1>7 DEF SpillCheck, At
    <2>2. \/ Goto(w, "spillMove")
          \/ wk' = [wk EXCEPT ![w].idx = @ + 1, ![w].stg = None, ![w].pc = Acquired(w)]
      BY <1>7 DEF SpillCheck
    <2>3. CASE wk' = [wk EXCEPT ![w].idx = @ + 1, ![w].stg = None, ![w].pc = Acquired(w)]
      BY <2>3, NextSlotPc DEF StagePcs
    <2>4. CASE Goto(w, "spillMove")
      BY <2>1, <2>4, AfterGoto DEF StagePcs, FillPcs
    <2> QED BY <2>2, <2>3, <2>4
  <1>8. CASE SpillMove(w)
    <2>2. \/ Return(w)
          \/ wk' = [wk EXCEPT ![w].idx = @ + 1, ![w].stg = None, ![w].pc = Acquired(w)]
      BY <1>8 DEF SpillMove
    <2>3. CASE wk' = [wk EXCEPT ![w].idx = @ + 1, ![w].stg = None, ![w].pc = Acquired(w)]
      BY <2>3, NextSlotPc DEF StagePcs
    <2>4. CASE Return(w)
      BY <2>4, AfterReturn DEF StagePcs
    <2> QED BY <2>2, <2>3, <2>4
  <1>9. CASE ExistsCheck(w)
    BY <1>9, AfterGoto, AfterReturn DEF ExistsCheck, StagePcs
  <1>11. ASSUME MoveIn(w) PROVE wk'[w].pc \notin StagePcs
    <2>1. Return(w) \/ wk' = [wk EXCEPT ![w].pc = "lock", ![w].stg = None]
      BY <1>11 DEF MoveIn
    <2>2. CASE Return(w)
      BY <2>2, AfterReturn DEF StagePcs
    <2>3. CASE wk' = [wk EXCEPT ![w].pc = "lock", ![w].stg = None]
      BY <1>0, <2>3 DEF StagePcs, WorkerStates
    <2> QED BY <2>1, <2>2, <2>3
  <1>12. CASE Publish(w)
    <2>1. wk[w].pc = "publish"
      BY <1>12 DEF Publish, At
    <2> QED BY <1>11, <1>12, <2>1, AfterReturn, AfterGoto DEF Publish, StagePcs, FillPcs
  <1>13. CASE PublishRename(w)
    BY <1>11, <1>13 DEF PublishRename
  <1>14. CASE LockMaster(w) \/ Strip(w) \/ Link(w) \/ Swap(w) \/ Relock(w)
    BY <1>14, AfterGoto, AfterReturn
    DEF LockMaster, Strip, Link, Swap, Relock, EnforceReadOnly, StagePcs
  <1>15. CASE Failure(w)
    BY <1>15, AfterReturn DEF Failure, Abort, PublishFails, LinkBusy, SwapFails, Defer, StagePcs
  <1> QED
    BY <1>1, <1>2, <1>3, <1>4, <1>6, <1>7, <1>8, <1>9, <1>12, <1>13, <1>14, <1>15
    DEF WorkerStep, Progress

LEMMA SpillCorrect ==
    ASSUME ContentInv, NEW w \in Workers, Spill(w), WorkerStep(w), UNCHANGED saved
    PROVE  Correct'
  <1>0. WkOK /\ IsVolume(vol) /\ TypeInv /\ Correct
    BY DEF ContentInv, TypeInv
  <1>1. wk[w].pc = "spill"
    BY DEF Spill, At
  <1>2. CASE Bound(Obj(Slot(w))) /\ StageCopy(w, File(Obj(Slot(w))), "spillFill")
    <2>1. File(Obj(Slot(w))) \in vol /\ Obj(Slot(w)) \in File(Obj(Slot(w))).names
      BY <1>0, <1>2, FileOfName
    <2>2. Slot(w) \in Slots /\ Slot(w)[1] = wk[w].dig
      BY <1>0, <1>1, SlotOfWorker
    <2>3. File(Obj(Slot(w))).data = wk[w].dig
      BY <1>0, <2>1, <2>2 DEF Correct, Promise, SlotPromise, Intact
    <2> QED BY <1>1, <1>2, <2>1, <2>3, StageCorrect DEF SpillPcs
  <1>3. CASE /\ ReadsOnly
             /\ Return(w) \/ wk' = [wk EXCEPT ![w].idx = @ + 1, ![w].pc = Acquired(w)]
    <2>1. wk'[w].pc \in {"idle", "exists", "strip"}
      BY <1>0, <1>3, AfterReturn, NextSlotPc
    <2>2. Carried
      BY <1>0, <1>3, SamePromise DEF ReadsOnly
    <2>3. \A g \in vol' : \A r \in g.names : WorkerPromise(w, g, r)'
      BY <2>1 DEF WorkerPromise, At, StagePcs
    <2> QED BY <1>0, <2>2, <2>3, CarriedCorrect
  <1> QED BY <1>2, <1>3 DEF Spill

LEMMA StagedCorrect ==
    ASSUME ContentInv, NEW w \in Workers, Stage(w), WorkerStep(w), UNCHANGED saved
    PROVE  Correct'
  <1>0. WkOK /\ IsVolume(vol) /\ TypeInv /\ Correct
    BY DEF ContentInv, TypeInv
  <1>1. wk[w].pc = "stage" /\ wk[w].tgt \in Targets
    BY <1>0 DEF Stage, At, WkOK, WorkerOK
  <1>2. CASE Bound(Ws(wk[w].tgt))
    <2>1. StageCopy(w, File(Ws(wk[w].tgt)), "fill")
      BY <1>2 DEF Stage
    <2>2. File(Ws(wk[w].tgt)) \in vol /\ Ws(wk[w].tgt) \in File(Ws(wk[w].tgt)).names
      BY <1>0, <1>2, FileOfName
    <2>3. File(Ws(wk[w].tgt)).data = saved[wk[w].tgt]
      BY <1>0, <1>1, <2>2 DEF Correct, Promise, UserPromise
    <2>4. File(Ws(wk[w].tgt)).data = wk[w].dig
      BY <1>1, <2>3 DEF ContentInv, Work
    <2> QED BY <1>1, <2>1, <2>2, <2>4, StageCorrect
  <1>3. CASE ~Bound(Ws(wk[w].tgt))
    <2>1. Carried /\ wk'[w].pc = "idle"
      BY <1>0, <1>3, AfterReturn, SamePromise DEF Stage, ReadsOnly
    <2>2. \A g \in vol' : \A r \in g.names : WorkerPromise(w, g, r)'
      BY <2>1 DEF WorkerPromise, At, StagePcs
    <2> QED BY <1>0, <2>1, <2>2, CarriedCorrect
  <1> QED BY <1>2, <1>3

LEMMA WorkerCorrect ==
    ASSUME ContentInv, NEW w \in Workers, WorkerStep(w), UNCHANGED saved
    PROVE  Correct'
  <1>0. WkOK /\ IsVolume(vol) /\ TypeInv /\ Correct
    BY DEF ContentInv, TypeInv
  <1>1. CASE Link(w) \/ Spill(w) \/ Stage(w)
    BY <1>1, LinkCorrect, SpillCorrect, StagedCorrect
  <1>2. CASE ~Link(w) /\ ~Spill(w) /\ ~Stage(w)
    <2>1. Carried
      BY <1>2, WorkerCarries
    <2>2. wk'[w].pc # "swap"
      BY <1>0, <1>2, WhoSwaps
    <2>3. ASSUME NEW g \in vol', NEW r \in g.names
          PROVE  WorkerPromise(w, g, r)'
      <3>1. CASE wk'[w].pc \notin StagePcs
        BY <2>2, <3>1 DEF WorkerPromise, At
      <3>2. CASE wk'[w].pc \in StagePcs
        <4>1. /\ wk[w].pc \in StagePcs /\ wk'[w].stg = wk[w].stg /\ SameJob(w)
              /\ SpillFill(w) \/ StageFill(w) \/ wk[w].pc \notin FillPcs
          BY <1>0, <1>2, <3>2, WhoStages
        <4>2. WorkerPromise(w, g, r)
          BY <2>1, <2>3 DEF Carried, Promise
        <4>3. MyStage(w)' = MyStage(w)
          BY <4>1 DEF MyStage
        <4>4. r = MyStage(w) => g.data = wk[w].dig /\ g.whole
          <5>1. CASE SpillFill(w) \/ StageFill(w)
            BY <2>3, <4>1, <4>2, <5>1, FillPromise DEF SpillFill, StageFill, WorkerPromise
          <5>2. CASE wk[w].pc \notin FillPcs
            BY <4>1, <4>2, <5>2 DEF WorkerPromise
          <5> QED BY <4>1, <5>1, <5>2
        <4> QED BY <2>2, <4>1, <4>3, <4>4 DEF WorkerPromise, SameJob, At
      <3> QED BY <3>1, <3>2
    <2> QED BY <1>0, <2>1, <2>3, CarriedCorrect
  <1> QED BY <1>1, <1>2

(* A worker's job changes only when it takes its digest.                   *)
LEMMA WhoWorks ==
    ASSUME WkOK, NEW w \in Workers, WorkerStep(w), ~Digest(w), ~Redigest(w)
    PROVE  wk'[w].pc = "idle" \/ (wk[w].pc # "idle" /\ SameJob(w))
  <1>1. CASE Lookup(w)
    <2>1. wk \in [Workers -> WorkerStates] /\ wk[w].pc = "lookup"
      BY <1>1 DEF Lookup, At, WkOK
    <2> QED BY <1>1, <2>1, AfterGoto DEF Lookup, WorkerStates, SameJob
  <1>2. CASE Acquire(w)
    <2>1. wk[w].pc = "acquire"
      BY <1>2 DEF Acquire, At
    <2>2. \/ Goto(w, Acquired(w)) \/ Goto(w, "spill")
          \/ wk' = [wk EXCEPT ![w].idx = @ + 1]
      BY <1>2 DEF Acquire
    <2>3. CASE wk' = [wk EXCEPT ![w].idx = @ + 1]
      BY <2>1, <2>3, AfterNextSlot
    <2>4. CASE Goto(w, Acquired(w)) \/ Goto(w, "spill")
      BY <2>1, <2>4, AfterGoto
    <2> QED BY <2>2, <2>3, <2>4
  <1>3. CASE Spill(w)
    <2>1. wk[w].pc = "spill"
      BY <1>3 DEF Spill, At
    <2>2. \/ Return(w) \/ wk' = [wk EXCEPT ![w].idx = @ + 1, ![w].pc = Acquired(w)]
          \/ \E f : StageCopy(w, f, "spillFill")
      BY <1>3 DEF Spill
    <2>3. CASE Return(w)
      BY <2>3, AfterReturn
    <2>4. CASE wk' = [wk EXCEPT ![w].idx = @ + 1, ![w].pc = Acquired(w)]
      BY <2>1, <2>4, AfterNextSlot
    <2>5. CASE \E f : StageCopy(w, f, "spillFill")
      BY <2>1, <2>5, AfterStaging DEF StageCopy
    <2> QED BY <2>2, <2>3, <2>4, <2>5
  <1>4. CASE SpillFill(w) \/ StageFill(w)
    BY <1>4, AfterGoto DEF SpillFill, StageFill, Fill, At
  <1>5. CASE SpillCheck(w) \/ SpillMove(w)
    <2>1. wk[w].pc \in {"spillCheck", "spillMove"}
      BY <1>5 DEF SpillCheck, SpillMove, At
    <2>2. \/ Return(w) \/ Goto(w, "spillMove")
          \/ wk' = [wk EXCEPT ![w].idx = @ + 1, ![w].stg = None, ![w].pc = Acquired(w)]
      BY <1>5 DEF SpillCheck, SpillMove
    <2>3. CASE Return(w) \/ Goto(w, "spillMove")
      BY <2>1, <2>3, AfterReturn, AfterGoto
    <2>4. CASE wk' = [wk EXCEPT ![w].idx = @ + 1, ![w].stg = None, ![w].pc = Acquired(w)]
      BY <2>1, <2>4, AfterNextSlot
    <2> QED BY <2>2, <2>3, <2>4
  <1>6. CASE ExistsCheck(w)
    BY <1>6, AfterGoto, AfterReturn DEF ExistsCheck, At
  <1>7. CASE Stage(w)
    <2>1. wk[w].pc = "stage" /\ (Return(w) \/ \E f : StageCopy(w, f, "fill"))
      BY <1>7 DEF Stage, At
    <2>2. CASE Return(w)
      BY <2>2, AfterReturn
    <2>3. CASE \E f : StageCopy(w, f, "fill")
      BY <2>1, <2>3, AfterStaging DEF StageCopy
    <2> QED BY <2>1, <2>2, <2>3
  <1>8. CASE Publish(w) \/ PublishRename(w)
    BY <1>8, AfterGoto, AfterReturn, AfterStaging DEF Publish, PublishRename, MoveIn, At
  <1>9. CASE LockMaster(w) \/ Strip(w) \/ Link(w) \/ Swap(w) \/ Relock(w)
    BY <1>9, AfterGoto, AfterReturn
    DEF LockMaster, Strip, Link, Swap, Relock, EnforceReadOnly, At
  <1>10. CASE Failure(w)
    BY <1>10, AfterReturn DEF Failure, Abort, PublishFails, LinkBusy, SwapFails, Defer
  <1> QED
    BY <1>1, <1>2, <1>3, <1>4, <1>5, <1>6, <1>7, <1>8, <1>9, <1>10 DEF WorkerStep, Progress

LEMMA WorkerWork ==
    ASSUME ContentInv, NEW w \in Workers, WorkerStep(w), UNCHANGED saved
    PROVE  Work'
  <1>0. WkOK /\ IsVolume(vol) /\ Correct /\ Work /\ wk \in [Workers -> WorkerStates]
    BY DEF ContentInv, TypeInv, WkOK
  <1>1. ASSUME NEW t \in Targets, Bound(Ws(t))
        PROVE  File(Ws(t)).data = saved[t]
    BY <1>0, <1>1, FileOfName DEF Correct, Promise, UserPromise
  <1>2. wk'[w].pc # "idle" => saved[wk'[w].tgt] = wk'[w].dig
    <2>1. CASE Digest(w)
      <3>1. PICK t \in Targets :
              /\ Bound(Ws(t))
              /\ wk' = [wk EXCEPT ![w] = [IdleWorker EXCEPT !.pc = "lookup", !.tgt = t,
                                                            !.dig = File(Ws(t)).data]]
        BY <2>1 DEF Digest
      <3>2. PICK d : d = File(Ws(t)).data
        OBVIOUS
      <3>3. wk'[w] = [IdleWorker EXCEPT !.pc = "lookup", !.tgt = t, !.dig = d]
        BY <1>0, <3>1, <3>2
      <3>4. wk'[w].tgt = t /\ wk'[w].dig = d
        BY <3>3, IdleWorkerOK DEF WorkerStates
      <3> QED BY <1>1, <3>1, <3>2, <3>4
    <2>2. CASE Redigest(w)
      <3>1. CASE ~Bound(Ws(wk[w].tgt))
        BY <1>0, <2>2, <3>1, AfterReturn DEF Redigest
      <3>2. CASE Bound(Ws(wk[w].tgt))
        <4>1. PICK d : d = File(Ws(wk[w].tgt)).data
          OBVIOUS
        <4>2. wk' = [wk EXCEPT ![w].dig = d, ![w].pc = "acquire"] /\ wk[w].tgt \in Targets
          BY <1>0, <2>2, <3>2, <4>1 DEF Redigest, At, WkOK, WorkerOK
        <4>3. wk'[w].tgt = wk[w].tgt /\ wk'[w].dig = d
          BY <1>0, <4>2 DEF WorkerStates
        <4> QED BY <1>1, <3>2, <4>1, <4>2, <4>3
      <3> QED BY <3>1, <3>2
    <2>3. CASE ~Digest(w) /\ ~Redigest(w)
      BY <1>0, <2>3, WhoWorks DEF Work, SameJob
    <2> QED BY <2>1, <2>2, <2>3
  <1>3. \A v \in Workers \ {w} : wk'[v] = wk[v]
    BY <1>0, OtherWorkers
  <1> QED BY <1>0, <1>2, <1>3 DEF Work

LEMMA WorkerPresent ==
    ASSUME ContentInv, NEW w \in Workers, WorkerStep(w), UNCHANGED saved
    PROVE  Present'
  <1>0. WkOK /\ IsVolume(vol) /\ TypeInv /\ Present
    BY DEF ContentInv, TypeInv
  <1>1. CASE ~Swap(w) /\ ~SwapFails(w)
    BY <1>0, <1>1, WorkerPaths DEF PathsStay, Present, Bound, Ws
  <1>2. CASE Swap(w) \/ SwapFails(w)
    <2>1. /\ At(w, "swap") /\ Bound(Lnk(wk[w].tgt)) /\ Ws(wk[w].tgt) \in Names
      BY <1>0, <1>2, NamesOf DEF Swap, SwapFails, ContentInv, OneSwapper, WkOK, WorkerOK, At
    <2>2. Kept(vol, vol', Lnk(wk[w].tgt))
      BY <1>0, <1>2, <2>1, RenameStep, UnlinkStep DEF Swap, SwapFails
    <2>3. ASSUME NEW t \in Targets, Bound(Ws(t)) PROVE Bound(Ws(t))'
      BY <2>2, <2>3, KeptBound, NamesDiffer
    <2> QED BY <1>0, <2>3 DEF Present, Bound, Ws
  <1> QED BY <1>1, <1>2
-----------------------------------------------------------------------------
(* Steps of collectors, the sweeper and users.                             *)

LEMMA GcCarries ==
    ASSUME ContentInv, NEW g \in Gcs, GcStep(g)
    PROVE  Carried
  <1>0. IsVolume(vol) /\ Correct /\ TypeInv /\ GcOK(g)
    BY DEF ContentInv, TypeInv, GcsOK
  <1>1. CASE StatSlot(g) \/ StatEntry(g) \/ GcAbort(g)
    BY <1>0, <1>1, SamePromise DEF StatSlot, StatEntry, GcAbort
  <1>2. CASE MoveToQuarantine(g)
    <2>1. /\ gc[g].slot \in Slots /\ gc[g].entry \in Entries
          /\ gc[g].entry[2] = gc[g].slot
      BY <1>0, <1>2 DEF MoveToQuarantine, GcAt, GcOK
    <2>2. ASSUME NEW f \in vol, Obj(gc[g].slot) \in f.names
          PROVE  Promise(f, Qua(gc[g].entry))
      <3>1. Intact(f, gc[g].slot[1])
        BY <1>0, <2>1, <2>2 DEF Correct, Promise, SlotPromise
      <3> QED BY <1>0, <2>1, <3>1, SlotNamePromise
    <2> QED
      BY <1>0, <1>2, <2>1, <2>2, NamesOf, RenamePromise, SamePromise
      DEF MoveToQuarantine, RenameIfThere
  <1>3. CASE Resurrect(g)
    <2>1. gc[g].entry \in Entries /\ gc[g].entry[2] \in Slots
      BY <1>0, <1>3 DEF Resurrect, GcAt, GcOK, Entries
    <2>2. ASSUME NEW f \in vol, Qua(gc[g].entry) \in f.names
          PROVE  Promise(f, Obj(gc[g].entry[2]))
      <3>1. Intact(f, gc[g].entry[2][1])
        BY <1>0, <2>1, <2>2 DEF Correct, Promise, SlotPromise
      <3> QED BY <1>0, <2>1, <3>1, SlotNamePromise
    <2> QED
      BY <1>0, <1>3, <2>1, <2>2, NamesOf, RenamePromise, SamePromise
      DEF Resurrect, RenameIfThere
  <1>4. CASE Purge(g)
    BY <1>4, UnlinkPromise DEF Purge
  <1> QED BY <1>1, <1>2, <1>3, <1>4 DEF GcStep

(* What is carried is owed in the next state if no worker and no user moved.*)
LEMMA CarriedStays ==
    ASSUME Carried, PathsStay, Work, Present, UNCHANGED <<wk, saved>>
    PROVE  Correct' /\ Work' /\ Present'
  <1>1. ASSUME NEW g, NEW r, Promise(g, r) PROVE Promise(g, r)'
    BY <1>1 DEF Promise, SlotPromise, UserPromise, WorkerPromise, MyStage, At
  <1>2. Correct'
    BY <1>1 DEF Carried, Correct
  <1>3. Work' /\ Present'
    BY DEF Work, Present, PathsStay, Bound, Ws
  <1> QED BY <1>2, <1>3

LEMMA UserContent ==
    ASSUME Quiet, "inplace" \notin UserKinds, ContentInv, UserStep
    PROVE  Correct' /\ Work' /\ Present'
  <1>0. IsVolume(vol) /\ Correct /\ TypeInv /\ Work /\ Present /\ SavedOK /\ WkOK
    BY DEF ContentInv, TypeInv
  <1>1. PICK t \in Targets :
            (\E c \in Contents : Rewrite(t, c) \/ EditInPlace(t, c)) \/ Delete(t)
    BY DEF UserStep
  <1>2. PICK c \in Contents \cup {None} :
            /\ (c # None /\ Rewrite(t, c)) \/ (c = None /\ Delete(t))
            /\ saved' = [saved EXCEPT ![t] = c] /\ wk' = wk
            /\ \A w \in Workers : wk[w].tgt # t
    <2>1. ASSUME NEW c \in Contents, Rewrite(t, c)
          PROVE  /\ c # None /\ c \in Contents \cup {None}
                 /\ saved' = [saved EXCEPT ![t] = c] /\ wk' = wk
                 /\ \A w \in Workers : wk[w].tgt # t
      BY <2>1, Constants DEF Rewrite, MayUse, Busy, OthersUnchanged
    <2>2. ASSUME Delete(t)
          PROVE  /\ saved' = [saved EXCEPT ![t] = None] /\ wk' = wk
                 /\ \A w \in Workers : wk[w].tgt # t
      BY <2>2 DEF Delete, MayUse, Busy, OthersUnchanged
    <2>3. ~\E c \in Contents : EditInPlace(t, c)
      BY DEF EditInPlace, MayUse
    <2> QED BY <1>1, <2>1, <2>2, <2>3
  <1>3. saved'[t] = c /\ \A u \in Targets \ {t} : saved'[u] = saved[u]
    BY <1>0, <1>2 DEF SavedOK
  <1>4. Work'
    BY <1>0, <1>2, <1>3 DEF Work, WkOK, WorkerOK
  <1>5. ASSUME NEW g \in vol', NEW r \in g.names
        PROVE  (r # Ws(t) /\ Promise(g, r)) \/ (g.names = {Ws(t)} /\ g.data = c)
    <2>1. CASE c # None /\ Rewrite(t, c)
      <3>1. c \in Contents /\ Create(Ws(t), c, TRUE, "rw") /\ Ws(t) \in Names
        BY <1>2, <2>1, NamesOf DEF Rewrite
      <3>2. \/ g.names = {Ws(t)} /\ g.data = c
            \/ /\ Ws(t) \notin g.names
               /\ \E e \in vol : Continues(g, e) /\ g.names \subseteq e.names
        BY <1>0, <3>1, CreateStep
      <3>3. CASE Ws(t) \notin g.names
        <4>1. PICK e \in vol : Continues(g, e) /\ g.names \subseteq e.names
          BY <3>2, <3>3
        <4>2. Promise(e, r)
          BY <1>0, <1>5, <4>1 DEF Correct
        <4>3. Promise(g, r)
          BY <4>1, <4>2, ContinuedPromise
        <4>4. r # Ws(t)
          BY <1>5, <3>3
        <4> QED BY <4>3, <4>4
      <3> QED BY <3>2, <3>3
    <2>2. CASE c = None /\ Delete(t)
      <3>1. Unlink(Ws(t))
        BY <2>2 DEF Delete
      <3>2. Carried
        BY <3>1, UnlinkPromise
      <3>3. Ws(t) \notin g.names
        BY <1>0, <1>5, <3>1, UnlinkStep
      <3>4. Promise(g, r)
        BY <1>5, <3>2 DEF Carried
      <3>5. r # Ws(t)
        BY <1>5, <3>3
      <3> QED BY <3>4, <3>5
    <2> QED BY <1>2, <2>1, <2>2
  <1>6. ASSUME NEW g \in vol', NEW r \in g.names
        PROVE  Promise(g, r)'
    <2>1. CASE r # Ws(t) /\ Promise(g, r)
      BY <1>2, <1>3, <2>1 DEF Promise, SlotPromise, UserPromise, WorkerPromise, MyStage, At
    <2>2. CASE r = Ws(t) /\ g.data = c
      BY <1>2, <1>3, <2>2, NamesDiffer
      DEF Promise, SlotPromise, UserPromise, WorkerPromise, MyStage
    <2> QED BY <1>5, <1>6, <2>1, <2>2
  <1>7. Present'
    <2>1. \A r : r # Ws(t) /\ Bound(r) => Bound(r)'
      BY <1>0, <1>1, UserPaths
    <2>2. c # None => Bound(Ws(t))'
      <3>1. ASSUME c # None PROVE Bound(Ws(t))'
        <4>1. c \in Contents /\ Create(Ws(t), c, TRUE, "rw") /\ Ws(t) \in Names
          BY <1>2, <3>1, NamesOf DEF Rewrite
        <4> QED BY <1>0, <4>1, CreateStep
      <3> QED BY <3>1
    <2>3. ASSUME NEW u \in Targets, u # t, saved'[u] # None PROVE Bound(Ws(u))'
      BY <1>0, <1>3, <2>1, <2>3, NamesDiffer DEF Present
    <2> QED BY <1>3, <2>2, <2>3 DEF Present, Bound, Ws
  <1> QED BY <1>4, <1>6, <1>7 DEF Correct

LEMMA InitContent ==
    ASSUME Init
    PROVE  ContentInv
  <1>1. TypeInv /\ OneSwapper /\ Work
    BY InitTypes DEF Init, LinkInit, IdleWorker, OneSwapper, At, Work
  <1> DEFINE new(t) == [names |-> {Ws(t)}, data |-> saved[t], whole |-> TRUE, mode |-> "rw"]
  <1>2. \A t \in Targets : new(t) \in vol /\ Ws(t) \in new(t).names
    BY DEF Init
  <1>3. ASSUME NEW f \in vol, NEW r \in f.names
        PROVE  Promise(f, r)
    <2>1. PICK t \in Targets : f = new(t)
      BY DEF Init
    <2>2. r = Ws(t) /\ f.data = saved[t]
      BY <1>3, <2>1
    <2>3. \A w \in Workers : wk[w].pc = "idle"
      BY DEF Init, LinkInit, IdleWorker
    <2> QED
      BY <2>2, <2>3, NamesDiffer
      DEF Promise, SlotPromise, UserPromise, WorkerPromise, At, StagePcs
  <1> HIDE DEF new
  <1>4. Correct /\ Present
    BY <1>2, <1>3 DEF Correct, Present, Bound
  <1> QED BY <1>1, <1>4 DEF ContentInv

LEMMA NextContent ==
    ASSUME Quiet, "inplace" \notin UserKinds, ContentInv, [Next]_vars
    PROVE  ContentInv'
  <1>0. TypeInv /\ OneSwapper /\ Correct /\ Work /\ Present
    BY DEF ContentInv
  <1>1. TypeInv' /\ OneSwapper'
    BY <1>0, NextTypes, NextSwapper
  <1>2. CASE \E w \in Workers : WorkerStep(w) /\ UNCHANGED <<gc, clock, saved>>
    BY <1>1, <1>2, WorkerCorrect, WorkerWork, WorkerPresent DEF ContentInv
  <1>3. CASE \E g \in Gcs : GcStep(g) /\ UNCHANGED <<wk, retryq, saved>>
    BY <1>0, <1>1, <1>3, GcCarries, OtherPaths, CarriedStays DEF ContentInv
  <1>4. CASE UNCHANGED <<vol, wk, saved>>
    BY <1>0, <1>1, <1>4, SamePromise, SamePaths, CarriedStays DEF ContentInv
  <1>5. CASE UserStep
    BY <1>1, <1>5, UserContent DEF ContentInv
  <1>6. CASE \E k \in Stages : SweepStage(k)
    <2>1. Carried
      BY <1>6, UnlinkPromise DEF SweepStage
    <2> QED BY <1>0, <1>1, <1>6, <2>1, OtherPaths, CarriedStays DEF ContentInv, SweepStage
  <1>7. Tick \/ UNCHANGED vars => UNCHANGED vol
    BY DEF Tick, vars
  <1> QED BY <1>2, <1>3, <1>4, <1>5, <1>6, <1>7 DEF Next, vars

LEMMA ContentInvariant ==
    ASSUME Quiet, "inplace" \notin UserKinds
    PROVE  Spec => []ContentInv
  <1>1. Init => ContentInv
    BY InitContent
  <1>2. ContentInv /\ [Next]_vars => ContentInv'
    BY NextContent
  <1> QED BY <1>1, <1>2, PTL DEF Spec

(* A slot in objects/ or quarantine/ holds a complete file with the content*)
(* its name is the digest of, whoever is killed or loses a race in         *)
(* publish_new_master, spill_slot or the collector, with any number of     *)
(* workers and with either build of the publishing rename.                 *)
THEOREM SlotsIntact ==
    ASSUME Quiet, "inplace" \notin UserKinds
    PROVE  Spec => []SlotIntegrity
  <1>1. ContentInv => SlotIntegrity
    BY DEF ContentInv, Correct, Promise, SlotPromise, SlotIntegrity
  <1> QED BY <1>1, ContentInvariant, PTL

LEMMA SeenIsSaved ==
    ASSUME ContentInv
    PROVE  Seen = saved
  <1>1. ASSUME NEW t \in Targets PROVE Read(t) = saved[t]
    <2>1. CASE Bound(Ws(t))
      <3>1. File(Ws(t)).data = saved[t]
        BY <2>1, FileOfName DEF ContentInv, TypeInv, Correct, Promise, UserPromise
      <3> QED BY <2>1, <3>1 DEF Read
    <2>2. CASE ~Bound(Ws(t))
      BY <2>2 DEF Read, ContentInv, Present
    <2> QED BY <2>1, <2>2
  <1> QED BY <1>1 DEF Seen, ContentInv, TypeInv, SavedOK

(* The deduplicator implements the abstract workspace: whatever workers,   *)
(* collectors and the sweeper do, and wherever they are killed, a program  *)
(* that opens a workspace file reads what its user saved last, and a file  *)
(* is there if and only if its user left it there (link_to_master).        *)
THEOREM WorkspaceTransparent ==
    ASSUME Quiet, "inplace" \notin UserKinds
    PROVE  Spec => Transparent
  <1>1. Init => Abstract!Init
    <2> SUFFICES ASSUME Init PROVE Abstract!Init
      OBVIOUS
    <2>1. Seen = saved
      BY InitContent, SeenIsSaved
    <2>2. saved \in [Targets -> Contents \cup {None}]
      BY DEF Init
    <2> QED BY <2>1, <2>2 DEF Abstract!Init
  <1>2. ContentInv => Seen = saved
    BY SeenIsSaved
  <1>3. Seen = saved /\ (Seen = saved)' /\ [Next]_vars => [Abstract!Next]_<<saved, Seen>>
    <2> SUFFICES ASSUME Seen = saved, (Seen = saved)', [Next]_vars
                 PROVE  [Abstract!Next]_<<saved, Seen>>
      OBVIOUS
    <2>1. Seen' = saved'
      OBVIOUS
    <2>2. CASE UNCHANGED saved
      BY <2>1, <2>2
    <2>3. CASE UserStep
      <3>1. PICK t \in Targets, c \in Contents \cup {None} : saved' = [saved EXCEPT ![t] = c]
        BY <2>3 DEF UserStep, Rewrite, EditInPlace, Delete
      <3>2. Abstract!Change(t, c)
        BY <2>1, <3>1 DEF Abstract!Change
      <3> QED BY <3>2 DEF Abstract!Next
    <2> QED BY <2>2, <2>3 DEF Next, SweepStage, vars
  <1> QED BY <1>1, <1>2, <1>3, ContentInvariant, PTL DEF Spec, Transparent, Abstract!Spec
=============================================================================
