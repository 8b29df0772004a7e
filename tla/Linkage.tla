------------------------------ MODULE Linkage -------------------------------
(***************************************************************************)
(* Ingest workers: the evaluation of one workspace file (ingest.rs, Tier 2)*)
(* followed by the atomic linkage of linkage.rs and the slot allocation of *)
(* store.rs.  A worker takes one file at a time; every system call that    *)
(* writes is a step of its own, and so is every read that a later write    *)
(* relies on.                                                              *)
(***************************************************************************)
EXTENDS CasStore, RetryQueue

CONSTANTS
    Workers,    \* ingest processes or threads at work on the volume
    NoReplace,  \* renameat2(RENAME_NOREPLACE) (the linux-cow build), or check and rename
    MayFail     \* system calls may fail and workers may be killed

ASSUME BuildIsBoolean == NoReplace \in BOOLEAN /\ MayFail \in BOOLEAN

VARIABLE wk

Pcs == {"idle", "lookup", "redigest", "acquire", "spill", "spillFill", "spillCheck",
        "spillMove", "exists", "stage", "fill", "publish", "rename", "lock",
        "strip", "link", "swap", "relock"}

(* tgt: the workspace file; dig: its digest; idx: the slot index acquired  *)
(* so far; stg: the worker's file in tmp/; uniq: the verdict is Unique.    *)
WorkerStates == [pc : Pcs, tgt : Targets \cup {None}, dig : Contents \cup {None},
                 idx : 0 .. MaxSlot, stg : Stages \cup {None}, uniq : BOOLEAN]
IdleWorker == [pc |-> "idle", tgt |-> None, dig |-> None, idx |-> 0, stg |-> None,
               uniq |-> FALSE]
Jobs == [target : Targets, slot : Slots]

LinkTypeOK ==
    /\ IsVolume(vol)
    /\ wk \in [Workers -> WorkerStates]
    /\ retryq \in Seq(Jobs) /\ Len(retryq) <= QueueCapacity

LinkInit == wk = [w \in Workers |-> IdleWorker] /\ retryq = <<>>

At(w, pc)     == wk[w].pc = pc
Slot(w)       == <<wk[w].dig, wk[w].idx>>
NextSlot(w)   == <<wk[w].dig, wk[w].idx + 1>>
Goto(w, pc)   == wk' = [wk EXCEPT ![w].pc = pc]
Return(w)     == wk' = [wk EXCEPT ![w] = IdleWorker]
StageFree(k)  == ~Bound(Tmp(k)) /\ \A w \in Workers : wk[w].stg # k
ReadsOnly     == UNCHANGED <<vol, retryq>>

(* evaluate: the full digest of a file that passed the Tier 0 filters.     *)
Digest(w) == \E t \in Targets :
    /\ At(w, "idle") /\ Bound(Ws(t))
    /\ wk' = [wk EXCEPT ![w] = [IdleWorker EXCEPT !.pc = "lookup", !.tgt = t,
                                                  !.dig = File(Ws(t)).data]]
    /\ ReadsOnly

(* evaluate: Duplicate if the store knows the digest, else Unique.         *)
Lookup(w) ==
    /\ At(w, "lookup")
    /\ \/ Known(wk[w].dig) /\ Goto(w, "acquire")
       \/ ~Known(wk[w].dig) /\ wk' = [wk EXCEPT ![w].pc = "redigest", ![w].uniq = TRUE]
    /\ ReadsOnly

(* The caller computes the digest of a Unique file once more.              *)
Redigest(w) ==
    /\ At(w, "redigest")
    /\ IF Bound(Ws(wk[w].tgt))
       THEN wk' = [wk EXCEPT ![w].dig = File(Ws(wk[w].tgt)).data, ![w].pc = "acquire"]
       ELSE Return(w)
    /\ ReadsOnly

-----------------------------------------------------------------------------
(* acquire_slot and spill_slot.                                            *)

(* Where a worker goes once it has its slot.                               *)
Acquired(w) == IF wk[w].uniq THEN "exists" ELSE "strip"

(* As a bug: a walk that forgets to go on to the next slot.                *)
AcquireStuck(w) ==
    /\ At(w, "acquire")
    /\ IF Accepts(wk[w].dig, wk[w].idx)
       THEN Goto(w, Acquired(w))
       ELSE /\ wk[w].idx < MaxSlot
            /\ IF Exists(wk[w].dig, wk[w].idx + 1) THEN UNCHANGED wk ELSE Goto(w, "spill")
    /\ ReadsOnly

(* One turn of the walk: this slot takes the link, the next one is looked  *)
(* at, or the next one must be spilled.                                    *)
Acquire(w) ==
    /\ At(w, "acquire")
    /\ \/ /\ Accepts(wk[w].dig, wk[w].idx)
          /\ Goto(w, Acquired(w))
       \/ /\ ~Accepts(wk[w].dig, wk[w].idx)
          /\ wk[w].idx < MaxSlot
          /\ IF Exists(wk[w].dig, wk[w].idx + 1)
             THEN wk' = [wk EXCEPT ![w].idx = @ + 1]
             ELSE Goto(w, "spill")
    /\ ReadsOnly

(* A new file in tmp/, being filled with a copy of f; fs::copy also copies *)
(* the permission bits.  Its name is unique and carries no meaning.        *)
StageCopy(w, f, pc) ==
    /\ \E k \in Stages : StageFree(k)
    /\ LET k == CHOOSE k \in Stages : StageFree(k)
       IN  /\ Create(Tmp(k), f.data, FALSE, f.mode)
           /\ wk' = [wk EXCEPT ![w].pc = pc, ![w].stg = k]
    /\ UNCHANGED retryq

(* As a bug: the copy is taken for complete at once.                       *)
SpillUnfinished(w) ==
    /\ At(w, "spill")
    /\ IF Bound(Obj(NextSlot(w)))
       THEN /\ wk' = [wk EXCEPT ![w].idx = @ + 1, ![w].pc = Acquired(w)]
            /\ ReadsOnly
       ELSE Bound(Obj(Slot(w))) /\ StageCopy(w, File(Obj(Slot(w))), "spillCheck")

(* spill_slot: reuse the next slot if another worker made it, else copy    *)
(* the full one to tmp/.                                                   *)
Spill(w) ==
    /\ At(w, "spill")
    /\ \/ /\ Bound(Obj(NextSlot(w)))
          /\ wk' = [wk EXCEPT ![w].idx = @ + 1, ![w].pc = Acquired(w)]
          /\ ReadsOnly
       \/ /\ ~Bound(Obj(NextSlot(w))) /\ ~Bound(Obj(Slot(w)))
          /\ Return(w) /\ ReadsOnly
       \/ /\ ~Bound(Obj(NextSlot(w))) /\ Bound(Obj(Slot(w)))
          /\ StageCopy(w, File(Obj(Slot(w))), "spillFill")

MyStage(w) == Tmp(wk[w].stg)

(* The copy completes.  (The file may have been swept from tmp/ meanwhile.)*)
Fill(w, from, to) ==
    /\ At(w, from)
    /\ Goto(w, to)
    /\ vol' = IF Bound(MyStage(w))
              THEN Replaced(vol, File(MyStage(w)), [File(MyStage(w)) EXCEPT !.whole = TRUE])
              ELSE vol
    /\ UNCHANGED retryq

SpillFill(w) == Fill(w, "spillFill", "spillCheck")

(* The second existence check of spill_slot guards a plain rename.         *)
SpillCheck(w) ==
    /\ At(w, "spillCheck") /\ UNCHANGED retryq
    /\ IF Bound(Obj(NextSlot(w)))
       THEN /\ wk' = [wk EXCEPT ![w].idx = @ + 1, ![w].stg = None, ![w].pc = Acquired(w)]
            /\ Unlink(MyStage(w))
       ELSE Goto(w, "spillMove") /\ UNCHANGED vol

(* As a bug: the full slot itself is moved, and not its copy.              *)
SpillMoveFull(w) ==
    /\ At(w, "spillMove") /\ UNCHANGED retryq
    /\ IF Bound(Obj(Slot(w)))
       THEN /\ wk' = [wk EXCEPT ![w].idx = @ + 1, ![w].stg = None, ![w].pc = Acquired(w)]
            /\ Rename(Obj(Slot(w)), Obj(NextSlot(w)))
       ELSE Return(w) /\ UNCHANGED vol

(* As a bug: the copy goes to the path it was copied from.                 *)
SpillMoveBack(w) ==
    /\ At(w, "spillMove") /\ UNCHANGED retryq
    /\ IF Bound(MyStage(w))
       THEN /\ wk' = [wk EXCEPT ![w].idx = @ + 1, ![w].stg = None, ![w].pc = Acquired(w)]
            /\ Rename(MyStage(w), Obj(Slot(w)))
       ELSE Return(w) /\ UNCHANGED vol

SpillMove(w) ==
    /\ At(w, "spillMove") /\ UNCHANGED retryq
    /\ IF Bound(MyStage(w))
       THEN /\ wk' = [wk EXCEPT ![w].idx = @ + 1, ![w].stg = None, ![w].pc = Acquired(w)]
            /\ Rename(MyStage(w), Obj(NextSlot(w)))
       ELSE Return(w) /\ UNCHANGED vol

-----------------------------------------------------------------------------
(* publish_new_master: a Unique verdict.                                   *)

(* Another worker may have published the digest already.                   *)
ExistsCheck(w) ==
    /\ At(w, "exists")
    /\ IF Bound(Obj(Slot(w))) THEN Return(w) ELSE Goto(w, "stage")
    /\ ReadsOnly

(* As bugs: the copy is taken for complete at once; the workspace file is  *)
(* moved to tmp/ and not copied.                                           *)
StageUnfinished(w) ==
    /\ At(w, "stage")
    /\ IF Bound(Ws(wk[w].tgt))
       THEN StageCopy(w, File(Ws(wk[w].tgt)), "publish")
       ELSE Return(w) /\ ReadsOnly
StageByMove(w) ==
    /\ At(w, "stage") /\ UNCHANGED retryq
    /\ IF Bound(Ws(wk[w].tgt))
       THEN \E k \in {j \in Stages : StageFree(j)} :
               /\ Rename(Ws(wk[w].tgt), Tmp(k))
               /\ wk' = [wk EXCEPT ![w].pc = "fill", ![w].stg = k]
       ELSE Return(w) /\ UNCHANGED vol

Stage(w) ==
    /\ At(w, "stage")
    /\ IF Bound(Ws(wk[w].tgt))
       THEN StageCopy(w, File(Ws(wk[w].tgt)), "fill")
       ELSE Return(w) /\ ReadsOnly

StageFill(w) == Fill(w, "fill", "publish")

(* atomic_rename_noreplace.  A slot that is there already makes the worker *)
(* clean up and report the existing master; the workspace file stays as it *)
(* is in either case.  The portable build looks first and then renames with*)
(* rename(2), which replaces.                                              *)
MoveIn(w) ==
    IF Bound(MyStage(w))
    THEN /\ Rename(MyStage(w), Obj(Slot(w)))
         /\ wk' = [wk EXCEPT ![w].pc = "lock", ![w].stg = None]
    ELSE Return(w) /\ UNCHANGED vol

(* As bugs: a rename that replaces; a publication by link that forgets to  *)
(* unlink the staged file.                                                 *)
PublishReplacing(w) == At(w, "publish") /\ MoveIn(w) /\ UNCHANGED retryq
PublishByLink(w) ==
    /\ At(w, "publish") /\ UNCHANGED retryq
    /\ IF Bound(MyStage(w)) /\ ~Bound(Obj(Slot(w)))
       THEN /\ HardLink(MyStage(w), Obj(Slot(w)))
            /\ wk' = [wk EXCEPT ![w].pc = "lock", ![w].stg = None]
       ELSE Return(w) /\ UNCHANGED vol

Publish(w) ==
    /\ At(w, "publish") /\ UNCHANGED retryq
    /\ \/ /\ Bound(Obj(Slot(w)))
          /\ Unlink(MyStage(w)) /\ Return(w)
       \/ /\ ~Bound(Obj(Slot(w))) /\ NoReplace
          /\ MoveIn(w)
       \/ /\ ~Bound(Obj(Slot(w))) /\ ~NoReplace
          /\ Goto(w, "rename") /\ UNCHANGED vol

PublishRename(w) == At(w, "rename") /\ MoveIn(w) /\ UNCHANGED retryq

(* enforce_read_only works on whatever file the slot path names by now.    *)
EnforceReadOnly(w, pc) ==
    /\ At(w, pc)
    /\ Chmod(Obj(Slot(w)), "ro")
    /\ Return(w) /\ UNCHANGED retryq

LockMaster(w) == EnforceReadOnly(w, "lock")

-----------------------------------------------------------------------------
(* link_to_master: a Duplicate verdict.                                    *)

(* A read-only target is made writable; if it is already a link to the     *)
(* master this is the master's own inode.                                  *)
Strip(w) ==
    /\ At(w, "strip")
    /\ Chmod(Ws(wk[w].tgt), "rw")
    /\ Goto(w, "link") /\ UNCHANGED retryq

(* As a bug: a temporary link that is already there is put to use.         *)
LinkOverStray(w) ==
    /\ At(w, "link") /\ UNCHANGED retryq
    /\ IF Bound(Obj(Slot(w)))
       THEN /\ Goto(w, "swap")
            /\ IF Bound(Lnk(wk[w].tgt)) THEN UNCHANGED vol
                                        ELSE HardLink(Obj(Slot(w)), Lnk(wk[w].tgt))
       ELSE Return(w) /\ UNCHANGED vol

(* hard_link(slot, <target>.tmp_link) needs the slot and a free name.      *)
Link(w) ==
    /\ At(w, "link") /\ UNCHANGED retryq
    /\ IF Bound(Obj(Slot(w))) /\ ~Bound(Lnk(wk[w].tgt))
       THEN HardLink(Obj(Slot(w)), Lnk(wk[w].tgt)) /\ Goto(w, "swap")
       ELSE Return(w) /\ UNCHANGED vol

(* rename(<target>.tmp_link, target).                                      *)
Swap(w) ==
    /\ At(w, "swap") /\ UNCHANGED retryq
    /\ IF Bound(Lnk(wk[w].tgt))
       THEN Rename(Lnk(wk[w].tgt), Ws(wk[w].tgt)) /\ Goto(w, "relock")
       ELSE Return(w) /\ UNCHANGED vol

Relock(w) == EnforceReadOnly(w, "relock")

-----------------------------------------------------------------------------
(* Failures.                                                               *)

(* A worker is killed, or returns early on an unexpected I/O error: what it*)
(* did so far stays on disk.                                               *)
Abort(w) ==
    /\ MayFail /\ ~At(w, "idle")
    /\ Return(w)
    /\ ReadsOnly

(* A publishing rename that fails removes the staged file.                 *)
PublishFails(w) ==
    /\ MayFail /\ (IF NoReplace THEN At(w, "publish") ELSE At(w, "rename"))
    /\ Unlink(MyStage(w)) /\ Return(w) /\ UNCHANGED retryq

(* A locked file defers the job.                                           *)
Defer(w) == Enqueue([target |-> wk[w].tgt, slot |-> Slot(w)]) /\ Return(w)

LinkBusy(w) ==
    /\ MayFail /\ At(w, "link")
    /\ Defer(w) /\ UNCHANGED vol

(* A swap that fails removes the temporary link, and defers the job if the *)
(* file was locked.                                                        *)
SwapFails(w) ==
    /\ MayFail /\ At(w, "swap")
    /\ Unlink(Lnk(wk[w].tgt))
    /\ \/ Defer(w)
       \/ Return(w) /\ UNCHANGED retryq

-----------------------------------------------------------------------------
Progress(w) ==
    \/ Lookup(w) \/ Redigest(w) \/ Acquire(w)
    \/ Spill(w) \/ SpillFill(w) \/ SpillCheck(w) \/ SpillMove(w)
    \/ ExistsCheck(w) \/ Stage(w) \/ StageFill(w) \/ Publish(w) \/ PublishRename(w)
    \/ LockMaster(w)
    \/ Strip(w) \/ Link(w) \/ Swap(w) \/ Relock(w)
Failure(w)  == Abort(w) \/ PublishFails(w) \/ LinkBusy(w) \/ SwapFails(w)
WorkerStep(w) == Digest(w) \/ Progress(w) \/ Failure(w)
=============================================================================
