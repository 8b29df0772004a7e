---------------------------- MODULE StartupProofs ----------------------------
(***************************************************************************)
(* Types of Startup, what its processes leave in tmp/, what its sweeps may *)
(* take from others and what they leave, and what strategies are chosen on,*)
(* for any number of processes, files and ticks.                           *)
(***************************************************************************)
EXTENDS Startup, TLAPS

(* The assumptions on the constants, as the provers use them.              *)
LEMMA Constants ==
    /\ MaxNames \in Nat /\ MaxClock \in Nat /\ Stale \in Nat
    /\ None \notin Procs /\ None \notin TmpNames
    /\ Volumes \subseteq VolumeKinds
  BY TmpBounds, StaleIsNatural, NoneIsNothing, VolumesAreKinds DEF TmpNames

(* A name that no file has.                                                *)
LEMMA NewNameIsUnused ==
    ASSUME NEW taken, HasName(taken)
    PROVE  NewName(taken) \in TmpNames /\ ~There(NewName(taken)) /\ NewName(taken) \notin taken
  <1>1. NewName(taken) \in Unused(taken)
    BY DEF HasName, NewName
  <1>2. NewName(taken) \in TmpNames /\ NewName(taken) \notin taken
    BY <1>1 DEF Unused
  <1>3. NewName(taken) \notin Listed
    BY <1>1 DEF Unused
  <1> QED BY <1>2, <1>3 DEF Listed

(* What the operations on tmp/ make of it.                                 *)
LEMMA CopiedOK ==
    ASSUME TmpTypeOK, NEW n \in TmpNames, NEW p \in Procs, NEW t \in Times,
           tmp' = [tmp EXCEPT ![n] = Copied(p, t)]
    PROVE  /\ tmp' \in [TmpNames -> TmpFiles]
           /\ tmp'[n].owner = p /\ tmp'[n].there
           /\ tmp'[n].mtime = t /\ tmp'[n].written = clock
           /\ \A m \in TmpNames : m # n => tmp'[m] = tmp[m]
  BY DEF TmpTypeOK, TmpFiles, Copied

LEMMA WithoutOK ==
    ASSUME TmpTypeOK, NEW ns, tmp' = Without(ns)
    PROVE  /\ tmp' \in [TmpNames -> TmpFiles]
           /\ \A m \in TmpNames : tmp'[m].there => m \notin ns /\ tmp'[m] = tmp[m]
  BY Constants DEF TmpTypeOK, TmpFiles, Without, NoFile, Times

LEMMA OrphanedOK ==
    ASSUME TmpTypeOK, NEW p \in Procs, tmp' = Orphaned(p)
    PROVE  /\ tmp' \in [TmpNames -> TmpFiles]
           /\ \A m \in TmpNames :
                 /\ tmp'[m].owner # p
                 /\ tmp'[m].owner = tmp[m].owner \/ tmp'[m].owner = None
                 /\ tmp'[m].there = tmp[m].there /\ tmp'[m].mtime = tmp[m].mtime
                 /\ tmp'[m].written = tmp[m].written
  BY Constants DEF TmpTypeOK, TmpFiles, Orphaned

(* The records that processes start from.                                  *)
LEMMA StartRecords ==
    /\ NoProbe \in ProbeStates /\ NoProbe.pc = "idle"
    /\ NoProbe.src = None /\ NoProbe.dst = None
    /\ NoSweep \in SweepStates /\ NoSweep.pc = "idle" /\ NoSweep.met = {}
    /\ Off \in Phases /\ Off.stg = None
  BY Constants DEF NoProbe, ProbeStates, NoSweep, SweepStates, Times, Off, Phases

LEMMA EnterOK ==
    ASSUME ph \in [Procs -> Phases], NEW p \in Procs,
           NEW pc \in {"off", "probe", "sweep", "work"}, Enter(p, pc)
    PROVE  /\ ph' \in [Procs -> Phases]
           /\ ph'[p].pc = pc /\ ph'[p].stg = None
           /\ \A q \in Procs : q # p => ph'[q] = ph[q]
  <1>1. [Off EXCEPT !.pc = pc] \in Phases
    BY StartRecords DEF Phases
  <1>2. [Off EXCEPT !.pc = pc].pc = pc /\ [Off EXCEPT !.pc = pc].stg = None
    BY StartRecords DEF Phases
  <1> QED BY <1>1, <1>2 DEF Enter

LEMMA DecideOK ==
    ASSUME ProbeTypeOK, NEW p \in Procs, NEW s \in Strategies, Decide(p, s)
    PROVE  /\ pb' \in [Procs -> ProbeStates]
           /\ pb'[p].pc = "idle" /\ pb'[p].src = None /\ pb'[p].dst = None
           /\ \A q \in Procs : q # p => pb'[q] = pb[q]
  <1> DEFINE r == [NoProbe EXCEPT !.strategy = s]
  <1>1. r \in ProbeStates /\ r.pc = "idle" /\ r.src = None /\ r.dst = None
    BY StartRecords DEF ProbeStates
  <1> QED BY <1>1 DEF Decide, ProbeTypeOK

LEMMA StrategiesToDecide == Fallback \in Strategies /\ CowOf \in Strategies
  BY DEF Fallback, CowOf, Strategies, Cow

(* A file that is to be removed goes, or has no owner any more.            *)
LEMMA TryRemoveOK ==
    ASSUME TmpTypeOK, NEW n, TryRemove(n)
    PROVE  /\ tmp' \in [TmpNames -> TmpFiles]
           /\ \A m \in TmpNames : tmp'[m].there =>
                 /\ tmp[m].there
                 /\ tmp'[m].mtime = tmp[m].mtime /\ tmp'[m].written = tmp[m].written
                 /\ (m # n /\ tmp'[m] = tmp[m]) \/ tmp'[m].owner = None
  <1>1. CASE tmp' = Without({n})
    BY <1>1, WithoutOK
  <1>2. CASE tmp' = Abandoned(n)
    BY <1>2, Constants DEF Abandoned, TmpTypeOK, TmpFiles
  <1> QED BY <1>1, <1>2 DEF TryRemove

-----------------------------------------------------------------------------
(* A process's probe has files only while it goes on, and a process that   *)
(* is not staging has no staged file.                                      *)
ProbeOK(p) ==
    /\ pb[p].pc \in {"idle", "source"} => pb[p].src = None /\ pb[p].dst = None
    /\ pb[p].pc = "clone" => pb[p].dst = None
    /\ pb[p].pc = "cleanTarget" => pb[p].src = None
    /\ ph[p].pc # "probe" => pb[p].pc = "idle"
    /\ ~Undecided(p) => pb[p].pc = "idle"
    /\ ph[p].pc # "stage" => ph[p].stg = None

(* No file is written to in the future, or has a time that is.             *)
TimesOK == \A n \in TmpNames : There(n) =>
    tmp[n].mtime <= tmp[n].written /\ tmp[n].written <= clock

(* What a sweep is about to remove had a stale time when the clock was     *)
(* read, or has been written to since.                                     *)
Removable(n, now) == tmp[n].mtime + Stale <= now \/ tmp[n].written >= now
SweepOK(p) ==
    /\ sw[p].pc \in {"walk", "remove"} => sw[p].now <= clock
    /\ sw[p].pc = "remove" =>
          sw[p].cur \in TmpNames /\ (There(sw[p].cur) => Removable(sw[p].cur, sw[p].now))

StartInv == TypeOK /\ TimesOK /\ (\A p \in Procs : ProbeOK(p) /\ SweepOK(p)) /\ NoLitter

(* A step changes tmp/ as every step of these processes does: a file that  *)
(* is there was there before, or has been written now; time goes on.       *)
Followed ==
    /\ clock' \in Times /\ clock <= clock'
    /\ tmp' \in [TmpNames -> TmpFiles]
    /\ \A n \in TmpNames : tmp'[n].there =>
          \/ /\ tmp[n].there
             /\ tmp'[n].mtime = tmp[n].mtime /\ tmp'[n].written = tmp[n].written
          \/ tmp'[n].written = clock /\ tmp'[n].mtime <= clock

LEMMA WritingFollows ==
    ASSUME TmpTypeOK, NEW n \in TmpNames, NEW p \in Procs, NEW t \in Times, t <= clock,
           tmp' = [tmp EXCEPT ![n] = Copied(p, t)], clock' = clock
    PROVE  Followed
  <1>1. /\ tmp' \in [TmpNames -> TmpFiles]
        /\ tmp'[n].mtime = t /\ tmp'[n].written = clock
        /\ \A m \in TmpNames : m # n => tmp'[m] = tmp[m]
    BY DEF TmpTypeOK, TmpFiles, Copied
  <1>2. clock' \in Times /\ clock <= clock'
    BY DEF TmpTypeOK, Times
  <1>3. ASSUME NEW m \in TmpNames, tmp'[m].there
        PROVE  \/ /\ tmp[m].there
                  /\ tmp'[m].mtime = tmp[m].mtime /\ tmp'[m].written = tmp[m].written
               \/ tmp'[m].written = clock /\ tmp'[m].mtime <= clock
    <2>1. CASE m = n
      BY <1>1, <2>1
    <2>2. CASE m # n
      BY <1>1, <1>3, <2>2
    <2> QED BY <2>1, <2>2
  <1> QED BY <1>1, <1>2, <1>3 DEF Followed

LEMMA TimesKept ==
    ASSUME StartInv, Followed
    PROVE  TimesOK'
  <1> SUFFICES ASSUME NEW n \in TmpNames, tmp'[n].there
               PROVE  tmp'[n].mtime <= tmp'[n].written /\ tmp'[n].written <= clock'
    BY DEF TimesOK, There
  <1>1. clock \in Nat /\ clock' \in Nat /\ clock <= clock'
    BY DEF StartInv, TypeOK, TmpTypeOK, Times, Followed
  <1>2. CASE /\ tmp[n].there
             /\ tmp'[n].mtime = tmp[n].mtime /\ tmp'[n].written = tmp[n].written
    <2>1. tmp[n].written \in Nat /\ tmp[n].mtime \in Nat
      BY DEF StartInv, TypeOK, TmpTypeOK, TmpFiles, Times
    <2>2. tmp[n].mtime <= tmp[n].written /\ tmp[n].written <= clock
      BY <1>2, Constants DEF StartInv, TimesOK, There
    <2> QED BY <1>1, <1>2, <2>1, <2>2
  <1>3. CASE tmp'[n].written = clock /\ tmp'[n].mtime <= clock
    BY <1>1, <1>3
  <1> QED BY <1>2, <1>3 DEF Followed

LEMMA SweepKept ==
    ASSUME StartInv, Followed, NEW p \in Procs, sw'[p] = sw[p]
    PROVE  SweepOK(p)'
  <1>1. SweepOK(p) /\ sw[p].now \in Nat /\ clock \in Nat /\ clock' \in Nat
    BY Constants DEF StartInv, TypeOK, SweepTypeOK, SweepStates, TmpTypeOK, Times, Followed
  <1>2. sw[p].pc \in {"walk", "remove"} => sw[p].now <= clock'
    BY <1>1 DEF Followed, SweepOK
  <1>3. ASSUME sw[p].pc = "remove" , tmp'[sw[p].cur].there
        PROVE  Removable(sw[p].cur, sw[p].now)'
    BY <1>1, <1>3, Constants DEF Followed, SweepOK, Removable, There, TmpFiles, Times
  <1> QED BY <1>1, <1>2, <1>3 DEF SweepOK, There

LEMMA SweepsKept ==
    ASSUME StartInv, Followed, sw' = sw
    PROVE  SweepTypeOK' /\ \A p \in Procs : SweepOK(p)'
  <1>1. SweepTypeOK'
    BY DEF StartInv, TypeOK, SweepTypeOK, SweepStates
  <1>2. \A p \in Procs : SweepOK(p)'
    BY SweepKept
  <1> QED BY <1>1, <1>2

(* A process that does nothing keeps what it has.                          *)
LEMMA ProbeKept ==
    ASSUME StartInv, NEW q \in Procs, pb'[q] = pb[q], ph'[q] = ph[q]
    PROVE  ProbeOK(q)'
  BY DEF StartInv, ProbeOK, Undecided

(* A step of one process in its probe.                                     *)
LEMMA ProbeStep ==
    ASSUME StartInv, NEW p \in Procs, PhAt(p, "probe"), Followed,
           UNCHANGED <<volume, sw, ph>>,
           pb' \in [Procs -> ProbeStates], \A q \in Procs \ {p} : pb'[q] = pb[q],
           ProbeOK(p)', NoLitter'
    PROVE  StartInv'
  <1>1. TmpTypeOK' /\ ProbeTypeOK' /\ ph' \in [Procs -> Phases]
    BY DEF StartInv, TypeOK, TmpTypeOK, ProbeTypeOK, Followed
  <1>2. SweepTypeOK' /\ \A q \in Procs : SweepOK(q)'
    BY SweepsKept
  <1>3. \A q \in Procs : ProbeOK(q)'
    BY ProbeKept
  <1> QED BY <1>1, <1>2, <1>3, TimesKept DEF StartInv, TypeOK

LEMMA DetectStep ==
    ASSUME StartInv, NEW p \in Procs, PhAt(p, "probe"), Undecided(p), Detect(p),
           UNCHANGED <<sw, ph>>
    PROVE  StartInv'
  <1>1. TypeOK /\ ProbeOK(p) /\ NoLitter
    BY DEF StartInv
  <1>2. Followed
    BY <1>1 DEF Detect, Followed, TypeOK, TmpTypeOK, Times
  <1>3. /\ pb' \in [Procs -> ProbeStates]
        /\ \A q \in Procs \ {p} : pb'[q] = pb[q]
        /\ pb'[p].src = pb[p].src /\ pb'[p].dst = pb[p].dst
        /\ ProbeOK(p)'
    <2>1. pb[p].src = None /\ pb[p].dst = None
      BY <1>1 DEF Detect, PbAt, ProbeOK
    <2>2. CASE pb' = [pb EXCEPT ![p].pc = "source"]
      BY <1>1, <2>1, <2>2 DEF TypeOK, ProbeTypeOK, ProbeStates, ProbeOK, PhAt, Undecided
    <2>3. CASE Decide(p, Fallback)
      BY <1>1, <2>1, <2>3, DecideOK, StrategiesToDecide DEF TypeOK, ProbeOK, PhAt, Undecided
    <2> QED BY <2>2, <2>3 DEF Detect
  <1>4. NoLitter'
    BY <1>1, <1>3 DEF Detect, NoLitter, There
  <1>5. UNCHANGED volume
    BY DEF Detect
  <1> QED BY <1>2, <1>3, <1>4, <1>5, ProbeStep

LEMMA WriteSourceStep ==
    ASSUME StartInv, NEW p \in Procs, PhAt(p, "probe"), Undecided(p),
           WriteSource(p, Taken), UNCHANGED <<sw, ph>>
    PROVE  StartInv'
  <1> DEFINE n == NewName(Taken)
  <1>1. TypeOK /\ ProbeOK(p) /\ NoLitter
    BY DEF StartInv
  <1>2. n \in TmpNames /\ tmp' = [tmp EXCEPT ![n] = Copied(p, clock)] /\ clock' = clock
    BY NewNameIsUnused DEF WriteSource, Written
  <1>3. /\ tmp' \in [TmpNames -> TmpFiles]
        /\ tmp'[n].owner = p /\ tmp'[n].there
        /\ tmp'[n].mtime = clock /\ tmp'[n].written = clock
        /\ \A m \in TmpNames : m # n => tmp'[m] = tmp[m]
    BY <1>1, <1>2, CopiedOK DEF TypeOK, TmpTypeOK
  <1>4. Followed
    BY <1>1, <1>2, <1>3 DEF Followed, TypeOK, TmpTypeOK, Times
  <1>5. PICK pc \in {"clone", "cleanSource"} : pb' = [pb EXCEPT ![p].src = n, ![p].pc = pc]
    BY DEF WriteSource
  <1>6. /\ pb' \in [Procs -> ProbeStates]
        /\ \A q \in Procs \ {p} : pb'[q] = pb[q]
        /\ pb'[p].src = n /\ pb'[p].dst = pb[p].dst /\ pb[p].src = None /\ pb[p].dst = None
        /\ ProbeOK(p)'
    BY <1>1, <1>2, <1>5
       DEF WriteSource, PbAt, TypeOK, ProbeTypeOK, ProbeStates, ProbeOK, PhAt, Undecided
  <1>7. NoLitter'
    BY <1>1, <1>2, <1>3, <1>6, Constants DEF NoLitter, There
  <1>8. UNCHANGED volume
    BY DEF WriteSource
  <1> QED BY <1>4, <1>6, <1>7, <1>8, ProbeStep

(* The clone's target bears the time, or its source's.                     *)
LEMMA TargetOK ==
    ASSUME StartInv, NEW p \in Procs, NEW ok, TargetMade(ok, p), ok => There(pb[p].src)
    PROVE  \E t \in Times : t <= clock /\ Target(p) = Copied(p, t)
  <1>0. TypeOK /\ clock \in Times /\ clock \in Nat
    BY DEF StartInv, TypeOK, TmpTypeOK, Times
  <1>1. CASE volume.os = "macos"
    <2>1. There(pb[p].src) /\ pb[p].src \in TmpNames
      BY <1>0, <1>1 DEF TargetMade, There, TypeOK, ProbeTypeOK, ProbeStates
    <2>2. PICK t \in Times : t = tmp[pb[p].src].mtime
      BY <1>0, <2>1 DEF TypeOK, TmpTypeOK, TmpFiles
    <2>3. tmp[pb[p].src].written \in Nat
      BY <1>0, <2>1 DEF TypeOK, TmpTypeOK, TmpFiles, Times
    <2>4. t <= clock
      BY <1>0, <2>1, <2>2, <2>3 DEF StartInv, TimesOK, Times
    <2> QED BY <1>1, <2>2, <2>4 DEF Target
  <1>2. CASE volume.os # "macos"
    BY <1>0, <1>2 DEF Target, Written
  <1> QED BY <1>1, <1>2

LEMMA CloneStep ==
    ASSUME StartInv, NEW p \in Procs, PhAt(p, "probe"), Undecided(p),
           Clone(p, Taken), UNCHANGED <<sw, ph>>
    PROVE  StartInv'
  <1> DEFINE n == NewName(Taken)
  <1>1. TypeOK /\ ProbeOK(p) /\ NoLitter
    BY DEF StartInv
  <1>2. n \in TmpNames
    BY NewNameIsUnused DEF Clone
  <1>3. PICK ok \in BOOLEAN :
          \/ /\ tmp' = [tmp EXCEPT ![n] = Target(p)] /\ TargetMade(ok, p)
             /\ ok => There(pb[p].src)
             /\ pb' = [pb EXCEPT ![p].pc = "cleanSource", ![p].ok = ok, ![p].dst = n]
          \/ /\ UNCHANGED tmp
             /\ pb' = [pb EXCEPT ![p].pc = "cleanSource", ![p].ok = ok]
    BY DEF Clone
  <1>4. UNCHANGED <<clock, volume>> /\ pb[p].pc = "clone" /\ pb[p].dst = None
    BY <1>1 DEF Clone, PbAt, ProbeOK
  <1>5. CASE /\ tmp' = [tmp EXCEPT ![n] = Target(p)] /\ TargetMade(ok, p)
             /\ ok => There(pb[p].src)
             /\ pb' = [pb EXCEPT ![p].pc = "cleanSource", ![p].ok = ok, ![p].dst = n]
    <2>0. PICK t \in Times : t <= clock /\ Target(p) = Copied(p, t)
      BY <1>5, TargetOK
    <2>1. /\ tmp' \in [TmpNames -> TmpFiles]
          /\ tmp'[n].owner = p /\ tmp'[n].there
          /\ tmp'[n].mtime = t /\ tmp'[n].written = clock
          /\ \A m \in TmpNames : m # n => tmp'[m] = tmp[m]
      BY <1>1, <1>2, <1>5, <2>0, CopiedOK DEF TypeOK
    <2>2. Followed
      BY <1>1, <1>4, <2>0, <2>1 DEF Followed, TypeOK, TmpTypeOK, Times
    <2>3. /\ pb' \in [Procs -> ProbeStates]
          /\ \A q \in Procs \ {p} : pb'[q] = pb[q]
          /\ pb'[p].src = pb[p].src /\ pb'[p].dst = n
          /\ ProbeOK(p)'
      <3>1. pb \in [Procs -> ProbeStates]
        BY <1>1 DEF TypeOK, ProbeTypeOK
      <3>2. pb' \in [Procs -> ProbeStates] /\ \A q \in Procs \ {p} : pb'[q] = pb[q]
        <4> DEFINE r == [pb[p] EXCEPT !.pc = "cleanSource", !.ok = ok, !.dst = n]
        <4>1. r \in ProbeStates
          BY <1>2, <3>1 DEF ProbeStates
        <4>2. pb' = [pb EXCEPT ![p] = r]
          BY <1>5, <3>1
        <4> HIDE DEF r
        <4> QED BY <3>1, <4>1, <4>2
      <3>3. /\ pb'[p].pc = "cleanSource" /\ pb'[p].dst = n
            /\ pb'[p].src = pb[p].src /\ pb'[p].strategy = pb[p].strategy
        BY <1>2, <1>5, <3>1 DEF ProbeStates
      <3> QED BY <1>1, <3>2, <3>3 DEF ProbeOK, PhAt, Undecided
    <2>4. NoLitter'
      BY <1>1, <1>2, <1>4, <2>1, <2>3, Constants DEF NoLitter, There
    <2> QED BY <1>4, <2>2, <2>3, <2>4, ProbeStep
  <1>6. CASE UNCHANGED tmp /\ pb' = [pb EXCEPT ![p].pc = "cleanSource", ![p].ok = ok]
    <2>1. Followed
      BY <1>1, <1>4, <1>6 DEF Followed, TypeOK, TmpTypeOK, Times
    <2>2. /\ pb' \in [Procs -> ProbeStates]
          /\ \A q \in Procs \ {p} : pb'[q] = pb[q]
          /\ pb'[p].src = pb[p].src /\ pb'[p].dst = pb[p].dst
          /\ ProbeOK(p)'
      BY <1>1, <1>4, <1>6 DEF TypeOK, ProbeTypeOK, ProbeStates, ProbeOK, PhAt, Undecided
    <2>3. NoLitter'
      BY <1>1, <1>6, <2>2 DEF NoLitter, There
    <2> QED BY <1>4, <2>1, <2>2, <2>3, ProbeStep
  <1> QED BY <1>3, <1>5, <1>6

LEMMA CleanSourceStep ==
    ASSUME StartInv, NEW p \in Procs, PhAt(p, "probe"), Undecided(p),
           CleanSource(p), UNCHANGED <<sw, ph>>
    PROVE  StartInv'
  <1>1. TypeOK /\ ProbeOK(p) /\ NoLitter
    BY DEF StartInv
  <1>2. /\ tmp' \in [TmpNames -> TmpFiles]
        /\ \A m \in TmpNames : tmp'[m].there =>
              /\ tmp[m].there
              /\ tmp'[m].mtime = tmp[m].mtime /\ tmp'[m].written = tmp[m].written
              /\ (m # pb[p].src /\ tmp'[m] = tmp[m]) \/ tmp'[m].owner = None
    BY <1>1, TryRemoveOK DEF CleanSource, TypeOK
  <1>3. /\ UNCHANGED <<clock, volume>>
        /\ pb' = [pb EXCEPT ![p].pc = "cleanTarget", ![p].src = None]
    BY DEF CleanSource
  <1>4. Followed
    BY <1>1, <1>2, <1>3 DEF Followed, TypeOK, TmpTypeOK, Times
  <1>5. /\ pb' \in [Procs -> ProbeStates]
        /\ \A q \in Procs \ {p} : pb'[q] = pb[q]
        /\ pb'[p].src = None /\ pb'[p].dst = pb[p].dst
        /\ ProbeOK(p)'
    <2>1. pb \in [Procs -> ProbeStates]
      BY <1>1 DEF TypeOK, ProbeTypeOK
    <2>2. pb' \in [Procs -> ProbeStates] /\ \A q \in Procs \ {p} : pb'[q] = pb[q]
      <3> DEFINE r == [pb[p] EXCEPT !.pc = "cleanTarget", !.src = None]
      <3>1. r \in ProbeStates
        BY <2>1 DEF ProbeStates
      <3>2. pb' = [pb EXCEPT ![p] = r]
        BY <1>3, <2>1
      <3> HIDE DEF r
      <3> QED BY <2>1, <3>1, <3>2
    <2>3. /\ pb'[p].pc = "cleanTarget" /\ pb'[p].src = None
          /\ pb'[p].dst = pb[p].dst /\ pb'[p].strategy = pb[p].strategy
      BY <1>3, <2>1 DEF ProbeStates
    <2> QED BY <1>1, <2>2, <2>3 DEF ProbeOK, PhAt, Undecided
  <1>6. ASSUME NEW n \in TmpNames, NEW q \in Procs, There(n)', tmp'[n].owner = q
        PROVE  n \in {pb'[q].src, pb'[q].dst, ph'[q].stg}
    <2>1. n # pb[p].src /\ There(n) /\ tmp[n].owner = q
      BY <1>2, <1>6, Constants DEF There
    <2>2. n \in {pb[q].src, pb[q].dst, ph[q].stg}
      BY <1>1, <2>1 DEF NoLitter
    <2> QED BY <1>5, <2>1, <2>2
  <1> QED BY <1>3, <1>4, <1>5, <1>6, ProbeStep DEF NoLitter

LEMMA CleanTargetStep ==
    ASSUME StartInv, NEW p \in Procs, PhAt(p, "probe"), Undecided(p),
           CleanTarget(p), UNCHANGED <<sw, ph>>
    PROVE  StartInv'
  <1>1. TypeOK /\ ProbeOK(p) /\ NoLitter
    BY DEF StartInv
  <1>2. /\ tmp' \in [TmpNames -> TmpFiles]
        /\ \A m \in TmpNames : tmp'[m].there =>
              /\ tmp[m].there
              /\ tmp'[m].mtime = tmp[m].mtime /\ tmp'[m].written = tmp[m].written
              /\ (m # pb[p].dst /\ tmp'[m] = tmp[m]) \/ tmp'[m].owner = None
    BY <1>1, TryRemoveOK DEF CleanTarget, TypeOK
  <1>3. UNCHANGED <<clock, volume>>
    BY DEF CleanTarget
  <1>4. PICK s \in Strategies : Decide(p, s)
    BY StrategiesToDecide DEF CleanTarget
  <1>5. /\ pb' \in [Procs -> ProbeStates]
        /\ \A q \in Procs \ {p} : pb'[q] = pb[q]
        /\ pb[p].src = None /\ pb'[p].pc = "idle" /\ pb'[p].src = None /\ pb'[p].dst = None
    BY <1>1, <1>4, DecideOK DEF CleanTarget, PbAt, TypeOK, ProbeOK
  <1>6. ProbeOK(p)'
    BY <1>1, <1>5 DEF ProbeOK, PhAt, Undecided
  <1>7. NoLitter'
    BY <1>1, <1>2, <1>5, Constants DEF NoLitter, There
  <1>8. Followed
    BY <1>1, <1>2, <1>3 DEF Followed, TypeOK, TmpTypeOK, Times
  <1> QED BY <1>3, <1>5, <1>6, <1>7, <1>8, ProbeStep

LEMMA ProbingStep ==
    ASSUME StartInv, NEW p \in Procs, Probe(p)
    PROVE  StartInv'
  BY DetectStep, WriteSourceStep, CloneStep, CleanSourceStep, CleanTargetStep
     DEF Probe, DryRun

-----------------------------------------------------------------------------
(* A step between two phases, in which tmp/ is left alone.                 *)
LEMMA PhaseStep ==
    ASSUME StartInv, NEW p \in Procs, NEW pc \in {"off", "probe", "sweep", "work"},
           Enter(p, pc), pb[p].pc = "idle", ph[p].stg = None,
           pb' = pb \/ (pb' = [pb EXCEPT ![p] = NoProbe]),
           UNCHANGED <<tmp, clock, volume>>
    PROVE  /\ TmpTypeOK' /\ ProbeTypeOK' /\ ph' \in [Procs -> Phases] /\ Followed
           /\ NoLitter' /\ \A q \in Procs : ProbeOK(q)'
  <1>1. TypeOK /\ (\A q \in Procs : ProbeOK(q)) /\ NoLitter
    BY DEF StartInv
  <1>2. /\ ph' \in [Procs -> Phases]
        /\ ph'[p].pc = pc /\ ph'[p].stg = None
        /\ \A q \in Procs \ {p} : ph'[q] = ph[q]
    BY <1>1, EnterOK DEF TypeOK
  <1>3. /\ pb' \in [Procs -> ProbeStates]
        /\ pb'[p].pc = "idle" /\ pb'[p].src = None /\ pb'[p].dst = None
        /\ pb[p].src = None /\ pb[p].dst = None
        /\ \A q \in Procs \ {p} : pb'[q] = pb[q]
    BY <1>1, StartRecords DEF TypeOK, ProbeTypeOK, ProbeOK
  <1>4. ProbeOK(p)'
    BY <1>2, <1>3 DEF ProbeOK
  <1>5. \A q \in Procs : ProbeOK(q)'
    BY <1>2, <1>3, <1>4, ProbeKept
  <1>6. NoLitter'
    BY <1>1, <1>2, <1>3 DEF NoLitter, There
  <1>7. TmpTypeOK' /\ ProbeTypeOK' /\ Followed
    BY <1>1, <1>3 DEF TypeOK, TmpTypeOK, ProbeTypeOK, Followed, Times
  <1> QED BY <1>2, <1>5, <1>6, <1>7

LEMMA LaunchStep ==
    ASSUME StartInv, NEW p \in Procs, Launch(p)
    PROVE  StartInv'
  <1>1. ProbeOK(p) /\ UNCHANGED <<tmp, clock, volume, pb, sw>> /\ Enter(p, "probe")
    BY DEF StartInv, Launch, TmpUnchanged
  <1>2. pb[p].pc = "idle" /\ ph[p].stg = None
    BY <1>1 DEF Launch, PhAt, ProbeOK
  <1>3. /\ TmpTypeOK' /\ ProbeTypeOK' /\ ph' \in [Procs -> Phases] /\ Followed
        /\ NoLitter' /\ \A q \in Procs : ProbeOK(q)'
    BY <1>1, <1>2, PhaseStep
  <1>4. SweepTypeOK' /\ \A q \in Procs : SweepOK(q)'
    BY <1>1, <1>3, SweepsKept
  <1> QED BY <1>3, <1>4, TimesKept DEF StartInv, TypeOK

LEMMA LeavingStep ==
    ASSUME StartInv, NEW p \in Procs, ProbeOnly(p) \/ Done(p)
    PROVE  StartInv'
  <1>1. /\ ProbeOK(p) /\ UNCHANGED <<tmp, clock, volume, sw>> /\ Enter(p, "off")
        /\ pb' = [pb EXCEPT ![p] = NoProbe] /\ pb \in [Procs -> ProbeStates]
    BY DEF StartInv, TypeOK, ProbeTypeOK, ProbeOnly, Done, TmpUnchanged, Quit
  <1>2. pb[p].pc = "idle" /\ ph[p].stg = None /\ pb'[p] = NoProbe
    BY <1>1 DEF ProbeOnly, Done, PhAt, ProbeOK
  <1>3. /\ TmpTypeOK' /\ ProbeTypeOK' /\ ph' \in [Procs -> Phases] /\ Followed
        /\ NoLitter' /\ \A q \in Procs : ProbeOK(q)'
    BY <1>1, <1>2, PhaseStep
  <1>4. SweepTypeOK' /\ \A q \in Procs : SweepOK(q)'
    BY <1>1, <1>3, SweepsKept
  <1> QED BY <1>3, <1>4, TimesKept DEF StartInv, TypeOK

-----------------------------------------------------------------------------
(* A step of a sweep that leaves tmp/ alone.                               *)
LEMMA SweepStep ==
    ASSUME StartInv, NEW p \in Procs, NEW r \in SweepStates,
           sw' = [sw EXCEPT ![p] = r], SweepOK(p)', UNCHANGED <<tmp, clock>>
    PROVE  Followed /\ SweepTypeOK' /\ \A q \in Procs : SweepOK(q)'
  <1>1. Followed
    BY DEF StartInv, TypeOK, TmpTypeOK, Followed, Times
  <1>2. SweepTypeOK' /\ \A q \in Procs \ {p} : sw'[q] = sw[q]
    BY DEF StartInv, TypeOK, SweepTypeOK
  <1>3. \A q \in Procs \ {p} : SweepOK(q)'
    BY <1>1, <1>2, SweepKept
  <1> QED BY <1>1, <1>2, <1>3

LEMMA DealtOK ==
    ASSUME SweepTypeOK, NEW p \in Procs, NEW n \in TmpNames
    PROVE  /\ Dealt(p, n) \in SweepStates /\ Dealt(p, n).pc = "walk"
           /\ Dealt(p, n).now = sw[p].now
           /\ [Dealt(p, n) EXCEPT !.errors = @ \cup {n}] \in SweepStates
           /\ [Dealt(p, n) EXCEPT !.errors = @ \cup {n}].pc = "walk"
           /\ [Dealt(p, n) EXCEPT !.errors = @ \cup {n}].now = sw[p].now
  <1>1. sw[p] \in SweepStates
    BY DEF SweepTypeOK
  <1>2. /\ Dealt(p, n) \in SweepStates /\ Dealt(p, n).pc = "walk"
        /\ Dealt(p, n).now = sw[p].now
    BY <1>1 DEF Dealt, SweepStates
  <1> QED BY <1>2 DEF SweepStates

LEMMA BeginSweepStep ==
    ASSUME StartInv, NEW p \in Procs, BeginSweep(p)
    PROVE  StartInv'
  <1>0. PICK r \in SweepStates :
          r.pc \in {"opened", "failed"} /\ sw' = [sw EXCEPT ![p] = r]
    <2>1. [NoSweep EXCEPT !.pc = "opened", !.opened = Listed] \in SweepStates
      BY StartRecords DEF SweepStates, Listed
    <2>2. [NoSweep EXCEPT !.pc = "failed"] \in SweepStates
      BY StartRecords DEF SweepStates
    <2>3. /\ [NoSweep EXCEPT !.pc = "opened", !.opened = Listed].pc = "opened"
          /\ [NoSweep EXCEPT !.pc = "failed"].pc = "failed"
      BY DEF NoSweep
    <2> QED BY <2>1, <2>2, <2>3 DEF BeginSweep, OpenDir
  <1>1. /\ ProbeOK(p) /\ UNCHANGED <<tmp, clock, volume>> /\ Enter(p, "sweep")
        /\ pb' = [pb EXCEPT ![p] = NoProbe] /\ pb \in [Procs -> ProbeStates]
        /\ sw \in [Procs -> SweepStates]
    BY DEF StartInv, TypeOK, ProbeTypeOK, SweepTypeOK, BeginSweep, OpenDir
  <1>2. pb[p].pc = "idle" /\ ph[p].stg = None /\ pb'[p] = NoProbe
    BY <1>1 DEF BeginSweep, PhAt, ProbeOK
  <1>3. /\ TmpTypeOK' /\ ProbeTypeOK' /\ ph' \in [Procs -> Phases]
        /\ NoLitter' /\ \A q \in Procs : ProbeOK(q)'
    BY <1>1, <1>2, PhaseStep
  <1>4. SweepOK(p)'
    BY <1>0, <1>1 DEF SweepOK
  <1>5. Followed /\ SweepTypeOK' /\ \A q \in Procs : SweepOK(q)'
    BY <1>0, <1>1, <1>4, SweepStep
  <1> QED BY <1>3, <1>5, TimesKept DEF StartInv, TypeOK

LEMMA SweepEndsStep ==
    ASSUME StartInv, NEW p \in Procs, SweepEnds(p)
    PROVE  StartInv'
  <1>1. /\ ProbeOK(p) /\ UNCHANGED <<tmp, clock, volume, pb>>
        /\ sw' = [sw EXCEPT ![p] = NoSweep] /\ sw \in [Procs -> SweepStates]
    BY DEF StartInv, TypeOK, SweepTypeOK, SweepEnds, EndSweep
  <1>2. pb[p].pc = "idle" /\ ph[p].stg = None
    BY <1>1 DEF SweepEnds, PhAt, ProbeOK
  <1>3. /\ TmpTypeOK' /\ ProbeTypeOK' /\ ph' \in [Procs -> Phases]
        /\ NoLitter' /\ \A q \in Procs : ProbeOK(q)'
    BY <1>1, <1>2, PhaseStep DEF SweepEnds
  <1>4. SweepOK(p)'
    BY <1>1, StartRecords DEF SweepOK
  <1>5. Followed /\ SweepTypeOK' /\ \A q \in Procs : SweepOK(q)'
    BY <1>1, <1>4, StartRecords, SweepStep
  <1> QED BY <1>3, <1>5, TimesKept DEF StartInv, TypeOK

(* A step of a sweep leaves the other variables alone.                     *)
LEMMA SweepOnly ==
    ASSUME StartInv, UNCHANGED <<volume, pb, ph>>, Followed,
           \A n \in TmpNames : tmp'[n].there => tmp'[n] = tmp[n],
           SweepTypeOK', \A q \in Procs : SweepOK(q)'
    PROVE  StartInv'
  <1>1. TypeOK'
    BY DEF StartInv, TypeOK, TmpTypeOK, ProbeTypeOK, Followed
  <1>2. \A q \in Procs : ProbeOK(q)'
    BY ProbeKept
  <1>3. NoLitter'
    BY DEF StartInv, NoLitter, There
  <1> QED BY <1>1, <1>2, <1>3, TimesKept DEF StartInv

LEMMA ReadClockStep ==
    ASSUME StartInv, NEW p \in Procs, Sweeping(p), ReadClock(p)
    PROVE  StartInv'
  <1> DEFINE r == [sw[p] EXCEPT !.pc = "walk", !.now = clock]
  <1>1. /\ sw \in [Procs -> SweepStates] /\ clock \in Times /\ UNCHANGED <<tmp, clock>>
        /\ sw' = [sw EXCEPT ![p].pc = "walk", ![p].now = clock]
    BY DEF StartInv, TypeOK, SweepTypeOK, TmpTypeOK, ReadClock
  <1>2. r \in SweepStates /\ r.pc = "walk" /\ r.now = clock /\ sw' = [sw EXCEPT ![p] = r]
    BY <1>1 DEF SweepStates
  <1>3. SweepOK(p)'
    BY <1>1, <1>2 DEF SweepOK, Times
  <1>4. Followed /\ SweepTypeOK' /\ \A q \in Procs : SweepOK(q)'
    BY <1>1, <1>2, <1>3, SweepStep
  <1> QED BY <1>1, <1>4, SweepOnly DEF Sweeping

LEMMA StatEntryStep ==
    ASSUME StartInv, NEW p \in Procs, Sweeping(p), StatEntry(p)
    PROVE  StartInv'
  <1>1. /\ sw \in [Procs -> SweepStates] /\ sw[p].pc = "walk" /\ sw[p].now <= clock
        /\ UNCHANGED <<tmp, clock>> /\ SweepTypeOK
        /\ tmp \in [TmpNames -> TmpFiles]
    BY DEF StartInv, TypeOK, TmpTypeOK, SweepTypeOK, StatEntry, SwAt, SweepOK
  <1>2. PICK n \in Unmet(p) :
          \/ sw' = [sw EXCEPT ![p] = [Dealt(p, n) EXCEPT !.errors = @ \cup {n}]]
          \/ sw' = [sw EXCEPT ![p] = Dealt(p, n)]
          \/ /\ There(n) /\ ~IsFresh(n, sw[p].now)
             /\ sw' = [sw EXCEPT ![p].pc = "remove", ![p].cur = n]
    BY DEF StatEntry
  <1>3. n \in TmpNames
    BY <1>1 DEF Unmet, Listed, SweepStates
  <1> SUFFICES Followed /\ SweepTypeOK' /\ \A q \in Procs : SweepOK(q)'
    BY <1>1, SweepOnly DEF Sweeping
  <1>4. CASE \/ sw' = [sw EXCEPT ![p] = [Dealt(p, n) EXCEPT !.errors = @ \cup {n}]]
             \/ sw' = [sw EXCEPT ![p] = Dealt(p, n)]
    <2>1. PICK r \in SweepStates :
            sw' = [sw EXCEPT ![p] = r] /\ r.pc = "walk" /\ r.now = sw[p].now
      BY <1>1, <1>3, <1>4, DealtOK
    <2>2. SweepOK(p)'
      BY <1>1, <2>1 DEF SweepOK
    <2> QED BY <1>1, <2>1, <2>2, SweepStep
  <1>5. CASE /\ There(n) /\ ~IsFresh(n, sw[p].now)
             /\ sw' = [sw EXCEPT ![p].pc = "remove", ![p].cur = n]
    <2> DEFINE r == [sw[p] EXCEPT !.pc = "remove", !.cur = n]
    <2>1. /\ r \in SweepStates /\ r.pc = "remove" /\ r.cur = n /\ r.now = sw[p].now
          /\ sw' = [sw EXCEPT ![p] = r]
      BY <1>1, <1>3, <1>5 DEF SweepStates
    <2>2. Removable(n, sw[p].now)
      <3>1. /\ tmp[n].mtime \in Nat /\ tmp[n].written \in Nat /\ sw[p].now \in Nat
            /\ tmp[n].mtime <= tmp[n].written
        BY <1>1, <1>3, <1>5 DEF StartInv, TimesOK, TmpFiles, SweepStates, Times
      <3> QED BY <1>5, <3>1, Constants DEF IsFresh, Removable
    <2>3. SweepOK(p)'
      BY <1>1, <1>3, <2>1, <2>2 DEF SweepOK, Removable, There
    <2> QED BY <1>1, <2>1, <2>3, SweepStep
  <1> QED BY <1>2, <1>4, <1>5

LEMMA RemoveEntryStep ==
    ASSUME StartInv, NEW p \in Procs, Sweeping(p), RemoveEntry(p)
    PROVE  StartInv'
  <1> DEFINE n == sw[p].cur
  <1>1. /\ sw \in [Procs -> SweepStates] /\ n \in TmpNames /\ sw[p].now <= clock
        /\ UNCHANGED clock /\ SweepTypeOK /\ TmpTypeOK
    BY DEF StartInv, TypeOK, SweepTypeOK, RemoveEntry, SwAt, SweepOK
  <1>2. PICK r \in SweepStates :
          sw' = [sw EXCEPT ![p] = r] /\ r.pc = "walk" /\ r.now = sw[p].now
    BY <1>1, DealtOK DEF RemoveEntry
  <1>3. /\ tmp' \in [TmpNames -> TmpFiles]
        /\ \A m \in TmpNames : tmp'[m].there => tmp'[m] = tmp[m]
    BY <1>1, WithoutOK DEF RemoveEntry, TmpTypeOK
  <1>4. Followed
    BY <1>1, <1>3 DEF TmpTypeOK, Followed, Times
  <1>5. sw' \in [Procs -> SweepStates] /\ SweepOK(p)'
    BY <1>1, <1>2 DEF SweepOK
  <1>6. \A q \in Procs : SweepOK(q)'
    BY <1>1, <1>2, <1>4, <1>5, SweepKept
  <1> QED BY <1>3, <1>4, <1>5, <1>6, SweepOnly DEF Sweeping, SweepTypeOK

-----------------------------------------------------------------------------
(* A step of a process that stages.                                        *)
LEMMA StageStep ==
    ASSUME StartInv, NEW p \in Procs, Followed, UNCHANGED <<clock, volume, pb, sw>>,
           ph' \in [Procs -> Phases], \A q \in Procs \ {p} : ph'[q] = ph[q],
           ph[p].pc \in {"work", "stage"}, ph'[p].pc \in {"work", "stage"},
           ph'[p].pc = "work" => ph'[p].stg = None,
           NoLitter'
    PROVE  StartInv'
  <1>1. TmpTypeOK' /\ ProbeTypeOK'
    BY DEF StartInv, TypeOK, TmpTypeOK, ProbeTypeOK, Followed
  <1>2. SweepTypeOK' /\ \A q \in Procs : SweepOK(q)'
    BY SweepsKept
  <1>3. ProbeOK(p)'
    BY DEF StartInv, ProbeOK, Undecided
  <1>4. \A q \in Procs : ProbeOK(q)'
    BY <1>3, ProbeKept
  <1> QED BY <1>1, <1>2, <1>4, TimesKept DEF StartInv, TypeOK

(* A stage file is written now, whatever time it is given.                 *)
LEMMA StageAsOK ==
    ASSUME TmpTypeOK, NEW n \in TmpNames, NEW p \in Procs, StageAs(p, n), UNCHANGED clock
    PROVE  /\ tmp' \in [TmpNames -> TmpFiles] /\ tmp'[n].owner = p /\ tmp'[n].there
           /\ \A m \in TmpNames : m # n => tmp'[m] = tmp[m]
           /\ Followed
  <1>1. PICK t \in CopyTimes : tmp' = [tmp EXCEPT ![n] = Copied(p, t)]
    BY DEF StageAs
  <1>2. t \in Times /\ t <= clock
    BY OldTimesAreTimes, Constants DEF CopyTimes, TmpTypeOK, Times
  <1>3. /\ tmp' \in [TmpNames -> TmpFiles] /\ tmp'[n].owner = p /\ tmp'[n].there
        /\ tmp'[n].mtime = t /\ tmp'[n].written = clock
        /\ \A m \in TmpNames : m # n => tmp'[m] = tmp[m]
    BY <1>1, <1>2 DEF TmpTypeOK, TmpFiles, Copied
  <1> QED BY <1>1, <1>2, <1>3, WritingFollows

LEMMA CreateStageStep ==
    ASSUME StartInv, NEW p \in Procs, CreateStage(p)
    PROVE  StartInv'
  <1> DEFINE n == NewName(Taken)
  <1>1. TypeOK /\ ProbeOK(p) /\ NoLitter
    BY DEF StartInv
  <1>2. /\ n \in TmpNames /\ StageAs(p, n)
        /\ ph' = [ph EXCEPT ![p] = [pc |-> "stage", stg |-> n]]
        /\ UNCHANGED <<clock, volume, pb, sw>> /\ ph[p].pc = "work"
    BY NewNameIsUnused DEF CreateStage, PhAt
  <1>3. /\ tmp'[n].owner = p /\ tmp'[n].there
        /\ \A m \in TmpNames : m # n => tmp'[m] = tmp[m]
        /\ Followed
    BY <1>1, <1>2, StageAsOK DEF TypeOK
  <1>5. /\ ph' \in [Procs -> Phases] /\ \A q \in Procs \ {p} : ph'[q] = ph[q]
        /\ ph'[p].pc = "stage" /\ ph'[p].stg = n /\ ph[p].stg = None
    BY <1>1, <1>2 DEF TypeOK, Phases, ProbeOK
  <1>6. NoLitter'
    BY <1>1, <1>2, <1>3, <1>5, Constants DEF NoLitter, There
  <1> QED BY <1>2, <1>3, <1>5, <1>6, StageStep

LEMMA WriteStageStep ==
    ASSUME StartInv, NEW p \in Procs, WriteStage(p)
    PROVE  StartInv'
  <1> DEFINE n == ph[p].stg
  <1>1. TypeOK /\ ProbeOK(p) /\ NoLitter
    BY DEF StartInv
  <1>2. /\ StageAs(p, n) /\ There(n)
        /\ UNCHANGED <<clock, volume, pb, sw, ph>> /\ ph[p].pc = "stage"
    BY DEF WriteStage, PhAt
  <1>3. n \in TmpNames
    BY <1>1, <1>2 DEF TypeOK, Phases, There
  <1>4. /\ tmp'[n].owner = p /\ tmp'[n].there
        /\ \A m \in TmpNames : m # n => tmp'[m] = tmp[m]
        /\ Followed
    BY <1>1, <1>2, <1>3, StageAsOK DEF TypeOK
  <1>5. NoLitter'
    BY <1>1, <1>2, <1>4, Constants DEF NoLitter, There
  <1> QED BY <1>1, <1>2, <1>4, <1>5, StageStep DEF TypeOK

LEMMA LeaveStageStep ==
    ASSUME StartInv, NEW p \in Procs, LeaveStage(p)
    PROVE  StartInv'
  <1>1. TypeOK /\ ProbeOK(p) /\ NoLitter
    BY DEF StartInv
  <1>2. UNCHANGED <<clock, volume, pb, sw>> /\ ph[p].pc = "stage" /\ Enter(p, "work")
    BY DEF LeaveStage, PhAt
  <1>3. /\ tmp' \in [TmpNames -> TmpFiles]
        /\ \A m \in TmpNames : tmp'[m].there =>
              /\ tmp[m].there
              /\ tmp'[m].mtime = tmp[m].mtime /\ tmp'[m].written = tmp[m].written
              /\ (m # ph[p].stg /\ tmp'[m] = tmp[m]) \/ tmp'[m].owner = None
    BY <1>1, TryRemoveOK DEF LeaveStage, TypeOK
  <1>4. Followed
    BY <1>1, <1>2, <1>3 DEF Followed, TypeOK, TmpTypeOK, Times
  <1>5. /\ ph' \in [Procs -> Phases] /\ \A q \in Procs \ {p} : ph'[q] = ph[q]
        /\ ph'[p].pc = "work" /\ ph'[p].stg = None
    BY <1>1, <1>2, EnterOK DEF TypeOK
  <1>6. NoLitter'
    BY <1>1, <1>2, <1>3, <1>5, Constants DEF NoLitter, There
  <1> QED BY <1>2, <1>4, <1>5, <1>6, StageStep

LEMMA KillStep ==
    ASSUME StartInv, NEW p \in Procs, Kill(p)
    PROVE  StartInv'
  <1>1. TypeOK /\ NoLitter
    BY DEF StartInv
  <1>2. /\ tmp' = Orphaned(p) /\ Enter(p, "off") /\ UNCHANGED <<clock, volume>>
        /\ sw' = [sw EXCEPT ![p] = NoSweep] /\ pb' = [pb EXCEPT ![p] = NoProbe]
    BY DEF Kill, Quit
  <1>3. /\ tmp' \in [TmpNames -> TmpFiles]
        /\ \A m \in TmpNames :
              /\ tmp'[m].owner # p
              /\ tmp'[m].owner = tmp[m].owner \/ tmp'[m].owner = None
              /\ tmp'[m].there = tmp[m].there /\ tmp'[m].mtime = tmp[m].mtime
              /\ tmp'[m].written = tmp[m].written
    BY <1>1, <1>2, OrphanedOK DEF TypeOK
  <1>4. Followed
    BY <1>1, <1>2, <1>3 DEF Followed, TypeOK, TmpTypeOK, Times
  <1>5. /\ ph' \in [Procs -> Phases] /\ ph'[p].pc = "off" /\ ph'[p].stg = None
        /\ \A q \in Procs \ {p} : ph'[q] = ph[q]
    BY <1>1, <1>2, EnterOK DEF TypeOK
  <1>6. /\ pb' \in [Procs -> ProbeStates] /\ pb'[p] = NoProbe
        /\ sw' \in [Procs -> SweepStates] /\ sw'[p] = NoSweep
        /\ \A q \in Procs \ {p} : pb'[q] = pb[q] /\ sw'[q] = sw[q]
    BY <1>1, <1>2, StartRecords DEF TypeOK, ProbeTypeOK, SweepTypeOK
  <1>7. TypeOK'
    BY <1>1, <1>2, <1>4, <1>5, <1>6
       DEF TypeOK, TmpTypeOK, ProbeTypeOK, SweepTypeOK, Followed
  <1>8. ProbeOK(p)' /\ SweepOK(p)'
    BY <1>5, <1>6, StartRecords DEF ProbeOK, SweepOK
  <1>9. \A q \in Procs \ {p} : ProbeOK(q)' /\ SweepOK(q)'
    BY <1>4, <1>5, <1>6, ProbeKept, SweepKept
  <1>10. NoLitter'
    BY <1>1, <1>3, <1>5, <1>6, Constants DEF NoLitter, There
  <1> QED BY <1>4, <1>7, <1>8, <1>9, <1>10, TimesKept DEF StartInv

LEMMA TickStep ==
    ASSUME StartInv, Tick
    PROVE  StartInv'
  <1>1. /\ TypeOK /\ clock' = clock + 1 /\ clock < MaxClock
        /\ UNCHANGED <<tmp, volume, pb, sw, ph>>
    BY DEF StartInv, Tick
  <1>2. Followed
    BY <1>1, Constants DEF Followed, TypeOK, TmpTypeOK, Times
  <1>3. SweepTypeOK' /\ \A q \in Procs : SweepOK(q)'
    BY <1>1, <1>2, SweepsKept
  <1> QED BY <1>1, <1>2, <1>3, SweepOnly

-----------------------------------------------------------------------------
LEMMA StartInit == Init => StartInv
  <1> SUFFICES ASSUME Init PROVE StartInv
    OBVIOUS
  <1>1. TypeOK
    BY Constants, StartRecords
       DEF Init, TmpInit, ProbeInit, SweepInit, TypeOK, TmpTypeOK, ProbeTypeOK,
           SweepTypeOK, NoFile, TmpFiles, Times
  <1>2. \A p \in Procs : ProbeOK(p) /\ SweepOK(p)
    BY StartRecords DEF Init, ProbeInit, SweepInit, ProbeOK, SweepOK, Undecided
  <1>3. NoLitter /\ TimesOK
    BY DEF Init, TmpInit, NoFile, NoLitter, TimesOK, There
  <1> QED BY <1>1, <1>2, <1>3 DEF StartInv

LEMMA StartNext == StartInv /\ [Next]_startVars => StartInv'
  <1> SUFFICES ASSUME StartInv, [Next]_startVars PROVE StartInv'
    OBVIOUS
  <1>1. CASE UNCHANGED startVars
    <2>1. UNCHANGED <<tmp, clock, volume, pb, sw, ph>>
      BY <1>1 DEF startVars
    <2>2. Followed
      BY <2>1 DEF StartInv, TypeOK, TmpTypeOK, Followed, Times
    <2>3. SweepTypeOK' /\ \A q \in Procs : SweepOK(q)'
      BY <2>1, <2>2, SweepsKept
    <2> QED BY <2>1, <2>2, <2>3, SweepOnly
  <1>2. CASE Tick
    BY <1>2, TickStep
  <1>3. ASSUME NEW p \in Procs, Sweeping(p) PROVE StartInv'
    BY <1>3, ReadClockStep, StatEntryStep, RemoveEntryStep DEF Sweeping, Sweep
  <1>4. ASSUME NEW p \in Procs, CreateStage(p) \/ WriteStage(p) \/ LeaveStage(p)
        PROVE  StartInv'
    BY <1>4, CreateStageStep, WriteStageStep, LeaveStageStep
  <1>5. ASSUME NEW p \in Procs,
               \/ Launch(p) \/ Probe(p) \/ ProbeOnly(p) \/ Done(p)
               \/ BeginSweep(p) \/ SweepEnds(p) \/ Kill(p)
        PROVE  StartInv'
    BY <1>5, LaunchStep, ProbingStep, LeavingStep, BeginSweepStep, SweepEndsStep, KillStep
  <1> QED BY <1>1, <1>2, <1>3, <1>4, <1>5 DEF Next

(* Every variable keeps its shape, among it that a sweep removes what is a *)
(* file of tmp/ (probe_volume, sweep_stale_tmp).                           *)
THEOREM StartupTypes == Spec => []TypeOK
  <1>1. StartInv => TypeOK
    BY DEF StartInv
  <1> QED BY StartInit, StartNext, <1>1, PTL DEF Spec

(* However many processes probe, stage and sweep, a live one leaves a file *)
(* in tmp/ only as a call fails: the copy, the rename, the making of the   *)
(* directory or the removal (cow_dry_run_linux, publish_new_master).       *)
THEOREM NothingForgotten == Spec => []NoLitter
  <1>1. StartInv => NoLitter
    BY DEF StartInv
  <1> QED BY StartInit, StartNext, <1>1, PTL DEF Spec

(* A sweep takes a file in use only if it was not written to for the       *)
(* threshold when the clock was read, or was written to after that, or is  *)
(* a copy that bears its source's older time (sweep_stale_tmp, file_age).  *)
THEOREM FreshFilesAreKept == Spec => FreshIsKept
  <1> DEFINE A == \A p \in Procs, n \in TmpNames :
        Removes(p, n) /\ tmp[n].owner # None =>
            \/ tmp[n].written + Stale <= sw[p].now
            \/ tmp[n].written >= sw[p].now
            \/ tmp[n].mtime < tmp[n].written /\ tmp[n].mtime + Stale <= sw[p].now
  <1>1. StartInv => A
    <2> SUFFICES ASSUME StartInv, NEW p \in Procs, NEW n \in TmpNames, Removes(p, n)
                 PROVE  \/ tmp[n].written + Stale <= sw[p].now
                        \/ tmp[n].written >= sw[p].now
                        \/ /\ tmp[n].mtime < tmp[n].written
                           /\ tmp[n].mtime + Stale <= sw[p].now
      OBVIOUS
    <2>1. There(n) /\ sw[p].cur = n /\ Sweep(p) /\ ~There(n)'
      BY DEF Removes, Sweeping
    <2>2. sw[p].pc = "remove"
      BY <2>1 DEF Sweep, ReadClock, StatEntry, RemoveEntry, SwAt, There
    <2>3. Removable(n, sw[p].now)
      BY <2>1, <2>2 DEF StartInv, SweepOK
    <2>4. /\ tmp[n].mtime \in Nat /\ tmp[n].written \in Nat
          /\ tmp[n].mtime <= tmp[n].written
      BY <2>1 DEF StartInv, TimesOK, TypeOK, TmpTypeOK, TmpFiles, Times
    <2> QED BY <2>3, <2>4 DEF Removable
  <1>2. StartInv /\ [Next]_startVars => [A]_startVars
    BY <1>1
  <1> QED BY StartInit, StartNext, <1>2, PTL DEF Spec, FreshIsKept

-----------------------------------------------------------------------------
(* A clone is believed in only after one succeeded on this volume.         *)
Honest(r) ==
    /\ r.ok => volume.clones
    /\ r.strategy \in Cow \ {None} => volume.clones
HonestInv == \A p \in Procs : Honest(pb[p])

(* The probe of one process changes, and nobody else's.                    *)
LEMMA HonestKept ==
    ASSUME StartInv, HonestInv, UNCHANGED volume,
           NEW p \in Procs, NEW r, pb' = [pb EXCEPT ![p] = r], Honest(r)
    PROVE  HonestInv'
  BY DEF StartInv, TypeOK, ProbeTypeOK, HonestInv, Honest

LEMMA HonestDecides ==
    ASSUME StartInv, HonestInv, UNCHANGED volume, NEW p \in Procs, NEW s \in Strategies,
           Decide(p, s), s \in Cow => volume.clones
    PROVE  HonestInv'
  <1> DEFINE r == [NoProbe EXCEPT !.strategy = s]
  <1>1. r.ok = FALSE /\ r.strategy = s
    BY DEF NoProbe
  <1>2. pb' = [pb EXCEPT ![p] = r]
    BY DEF Decide
  <1> HIDE DEF r
  <1>3. Honest(r)
    BY <1>1 DEF Honest
  <1> QED BY <1>2, <1>3, HonestKept

(* Steps that leave the clone's verdict alone.                             *)
LEMMA HonestGoesOn ==
    ASSUME StartInv, HonestInv, UNCHANGED volume, NEW p \in Procs, NEW r,
           pb' = [pb EXCEPT ![p] = r], r.strategy = pb[p].strategy,
           r.ok => pb[p].ok \/ volume.clones
    PROVE  HonestInv'
  <1>1. Honest(r)
    BY DEF HonestInv, Honest
  <1> QED BY <1>1, HonestKept

LEMMA HonestProbes ==
    ASSUME StartInv, HonestInv, NEW p \in Procs, Probe(p)
    PROVE  HonestInv'
  <1>1. pb \in [Procs -> ProbeStates] /\ pb[p] \in ProbeStates
    BY DEF StartInv, TypeOK, ProbeTypeOK
  <1>2. UNCHANGED volume
    BY DEF Probe, Detect, DryRun, WriteSource, Clone, CleanSource, CleanTarget
  <1>3. Fallback \in Strategies \ Cow
    BY DEF Fallback, Strategies, Cow
  <1>4. CASE Detect(p)
    <2>1. CASE pb' = [pb EXCEPT ![p].pc = "source"]
      <3> DEFINE r == [pb[p] EXCEPT !.pc = "source"]
      <3>1. r.strategy = pb[p].strategy /\ r.ok = pb[p].ok /\ pb' = [pb EXCEPT ![p] = r]
        BY <1>1, <2>1 DEF ProbeStates
      <3> HIDE DEF r
      <3> QED BY <1>2, <3>1, HonestGoesOn
    <2>2. CASE Decide(p, Fallback)
      BY <1>2, <1>3, <2>2, HonestDecides
    <2> QED BY <1>4, <2>1, <2>2 DEF Detect
  <1>5. CASE WriteSource(p, Taken)
    <2>1. PICK pc \in {"clone", "cleanSource"} :
            pb' = [pb EXCEPT ![p].src = NewName(Taken), ![p].pc = pc]
      BY <1>5 DEF WriteSource
    <2> DEFINE r == [pb[p] EXCEPT !.src = NewName(Taken), !.pc = pc]
    <2>2. r.strategy = pb[p].strategy /\ r.ok = pb[p].ok /\ pb' = [pb EXCEPT ![p] = r]
      BY <1>1, <2>1 DEF ProbeStates
    <2> HIDE DEF r
    <2> QED BY <1>2, <2>2, HonestGoesOn
  <1>6. CASE Clone(p, Taken)
    <2>1. PICK ok \in BOOLEAN, dst \in {pb[p].dst, NewName(Taken)} :
            /\ pb' = [pb EXCEPT ![p].pc = "cleanSource", ![p].ok = ok, ![p].dst = dst]
            /\ ok => volume.clones
      <3>1. PICK ok \in BOOLEAN :
              /\ \/ pb' = [pb EXCEPT ![p].pc = "cleanSource", ![p].ok = ok,
                                     ![p].dst = NewName(Taken)]
                 \/ pb' = [pb EXCEPT ![p].pc = "cleanSource", ![p].ok = ok]
              /\ ok => volume.clones
        BY <1>6 DEF Clone
      <3>2. [pb EXCEPT ![p].pc = "cleanSource", ![p].ok = ok]
              = [pb EXCEPT ![p].pc = "cleanSource", ![p].ok = ok, ![p].dst = pb[p].dst]
        BY <1>1 DEF ProbeStates
      <3> QED BY <3>1, <3>2
    <2> DEFINE r == [pb[p] EXCEPT !.pc = "cleanSource", !.ok = ok, !.dst = dst]
    <2>2. r.strategy = pb[p].strategy /\ r.ok = ok /\ pb' = [pb EXCEPT ![p] = r]
      BY <1>1, <2>1 DEF ProbeStates
    <2> HIDE DEF r
    <2> QED BY <1>2, <2>1, <2>2, HonestGoesOn
  <1>7. CASE CleanSource(p)
    <2> DEFINE r == [pb[p] EXCEPT !.pc = "cleanTarget", !.src = None]
    <2>1. r.strategy = pb[p].strategy /\ r.ok = pb[p].ok /\ pb' = [pb EXCEPT ![p] = r]
      BY <1>1, <1>7 DEF CleanSource, ProbeStates
    <2> HIDE DEF r
    <2> QED BY <1>2, <2>1, HonestGoesOn
  <1>8. CASE CleanTarget(p)
    <2> DEFINE s == IF pb[p].ok THEN CowOf ELSE Fallback
    <2>1. s \in Strategies /\ (s \in Cow => volume.clones)
      BY <1>3, StrategiesToDecide DEF HonestInv, Honest
    <2>2. Decide(p, s)
      BY <1>8 DEF CleanTarget
    <2> QED BY <1>2, <2>1, <2>2, HonestDecides
  <1> QED BY <1>4, <1>5, <1>6, <1>7, <1>8 DEF Probe, DryRun

LEMMA HonestNext ==
    ASSUME StartInv, HonestInv, [Next]_startVars
    PROVE  HonestInv'
  <1>1. ASSUME NEW p \in Procs, UNCHANGED volume, pb' = [pb EXCEPT ![p] = NoProbe]
        PROVE  HonestInv'
    <2>1. Honest(NoProbe)
      BY DEF NoProbe, Honest
    <2> QED BY <1>1, <2>1, HonestKept
  <1>2. ASSUME UNCHANGED <<volume, pb>>
        PROVE  HonestInv'
    BY <1>2 DEF HonestInv, Honest
  <1>3. ASSUME NEW p \in Procs, ProbeOnly(p) \/ BeginSweep(p) \/ Done(p) \/ Kill(p)
        PROVE  HonestInv'
    BY <1>1, <1>3 DEF ProbeOnly, BeginSweep, Done, Kill, Quit
  <1>4. ASSUME NEW p \in Procs, \/ Launch(p) \/ Sweeping(p) \/ SweepEnds(p)
                                \/ CreateStage(p) \/ WriteStage(p) \/ LeaveStage(p)
        PROVE  HonestInv'
    BY <1>2, <1>4 DEF Launch, Sweeping, SweepEnds, CreateStage, WriteStage, LeaveStage
  <1>5. CASE Tick \/ UNCHANGED startVars
    BY <1>2, <1>5 DEF Tick, startVars
  <1> QED BY <1>3, <1>4, <1>5, HonestProbes DEF Next

(* A strategy that clones is chosen only where a clone succeeded, and one  *)
(* that links keeps to the platform's limit as long as no more than 24     *)
(* processes overshoot its ceiling at once, the 24 links that              *)
(* max_links_per_slot leaves free on NTFS (detect_strategy).               *)
THEOREM StrategiesAreHonest ==
    ASSUME Cardinality(Procs) \in 0 .. 24
    PROVE  Spec => []HonestStrategy
  <1>1. Init => HonestInv
    BY DEF Init, ProbeInit, NoProbe, HonestInv, Honest
  <1>2. StartInv /\ HonestInv => HonestStrategy
    <2> SUFFICES ASSUME StartInv, HonestInv, NEW p \in Procs, ~Undecided(p)
                 PROVE  IF IsHardlink(pb[p].strategy)
                        THEN MaxLinksPerSlot(pb[p].strategy) + Cardinality(Procs)
                                <= HardLimit(pb[p].strategy)
                        ELSE volume.clones
      BY DEF HonestStrategy
    <2>1. pb[p].strategy \in Strategies /\ pb[p].strategy # None
      BY DEF StartInv, TypeOK, ProbeTypeOK, ProbeStates, Undecided
    <2>2. CASE pb[p].strategy \in Cow
      BY <2>1, <2>2 DEF HonestInv, Honest, IsHardlink
    <2>3. CASE pb[p].strategy = "NtfsHardlink"
      BY <2>3 DEF IsHardlink, Cow, MaxLinksPerSlot, HardLimit
    <2>4. CASE pb[p].strategy = "PosixHardlink"
      BY <2>4 DEF IsHardlink, Cow, MaxLinksPerSlot, HardLimit
    <2> QED BY <2>1, <2>2, <2>3, <2>4 DEF Strategies
  <1> QED BY <1>1, <1>2, HonestNext, StartInit, StartNext, PTL DEF Spec

-----------------------------------------------------------------------------
(* What a sweep has dealt with without an error is gone, or bears a time   *)
(* within the threshold, or was written to since the clock was read.       *)
Spared(n, now) == tmp[n].mtime + Stale > now \/ tmp[n].written >= now
CleanOK(p) ==
    /\ sw[p].pc \in {"walk", "remove"} \/ sw[p].met = {}
    /\ sw[p].pc = "failed" => sw[p].opened = {}
    /\ \A n \in sw[p].met \ sw[p].errors : There(n) => Spared(n, sw[p].now)
CleanInv == \A p \in Procs : CleanOK(p)

(* Others write files, and remove them.                                    *)
LEMMA CleanKept ==
    ASSUME StartInv, Followed, NEW p \in Procs, CleanOK(p), sw'[p] = sw[p]
    PROVE  CleanOK(p)'
  <1>1. /\ SweepOK(p) /\ sw[p].now \in Nat /\ clock \in Nat /\ sw[p].met \subseteq TmpNames
    BY Constants DEF StartInv, TypeOK, SweepTypeOK, SweepStates, TmpTypeOK, Times
  <1>2. ASSUME NEW n \in sw[p].met \ sw[p].errors, There(n)'
        PROVE  Spared(n, sw[p].now)'
    <2>1. n \in TmpNames /\ sw[p].now <= clock
      BY <1>1, <1>2 DEF SweepOK, CleanOK
    <2>2. CASE /\ tmp[n].there
               /\ tmp'[n].mtime = tmp[n].mtime /\ tmp'[n].written = tmp[n].written
      BY <1>2, <2>2 DEF CleanOK, There, Spared
    <2>3. CASE tmp'[n].written = clock
      BY <1>1, <2>1, <2>3 DEF Spared
    <2> QED BY <1>2, <2>1, <2>2, <2>3 DEF Followed, There
  <1> QED BY <1>2 DEF CleanOK, There

LEMMA CleansKept ==
    ASSUME StartInv, CleanInv, Followed, UNCHANGED sw
    PROVE  CleanInv'
  BY CleanKept DEF CleanInv

(* A step of one sweep.                                                    *)
LEMMA CleanStep ==
    ASSUME StartInv, CleanInv, NEW p \in Procs, NEW r, sw' = [sw EXCEPT ![p] = r],
           Followed, CleanOK(p)'
    PROVE  CleanInv'
  <1>1. \A q \in Procs \ {p} : sw'[q] = sw[q]
    BY DEF StartInv, TypeOK, SweepTypeOK
  <1> QED BY <1>1, CleanKept DEF CleanInv

(* A sweep that begins or ends has dealt with nothing.                     *)
LEMMA CleanStarts ==
    ASSUME StartInv, CleanInv, NEW p \in Procs, NEW r, sw' = [sw EXCEPT ![p] = r],
           Followed, r.met = {}, r.pc = "failed" => r.opened = {}
    PROVE  CleanInv'
  <1>1. sw'[p] = r
    BY DEF StartInv, TypeOK, SweepTypeOK
  <1>2. CleanOK(p)'
    BY <1>1 DEF CleanOK
  <1> QED BY <1>2, CleanStep

(* One more entry is dealt with.                                           *)
LEMMA DealtFields ==
    ASSUME SweepTypeOK, NEW p \in Procs, NEW n \in TmpNames,
           NEW r, r \in {Dealt(p, n), [Dealt(p, n) EXCEPT !.errors = @ \cup {n}]}
    PROVE  /\ r.pc = "walk" /\ r.met = sw[p].met \cup {n} /\ r.now = sw[p].now
           /\ sw[p].errors \subseteq r.errors
           /\ r = [Dealt(p, n) EXCEPT !.errors = @ \cup {n}] => n \in r.errors
  <1> DEFINE d == Dealt(p, n)
             e == [d EXCEPT !.errors = @ \cup {n}]
  <1>1. /\ d \in SweepStates /\ d.pc = "walk" /\ d.met = sw[p].met \cup {n}
        /\ d.now = sw[p].now /\ d.errors = sw[p].errors
    <2>1. sw[p] \in SweepStates
      BY DEF SweepTypeOK
    <2>2. /\ d.pc = "walk" /\ d.met = sw[p].met \cup {n}
          /\ d.now = sw[p].now /\ d.errors = sw[p].errors
      BY <2>1 DEF Dealt, SweepStates
    <2> QED BY <2>2, DealtOK
  <1> HIDE DEF d
  <1>2. /\ e.pc = d.pc /\ e.met = d.met /\ e.now = d.now
        /\ e.errors = d.errors \cup {n}
    BY <1>1 DEF SweepStates
  <1> HIDE DEF e
  <1>3. r \in {d, e}
    BY DEF d, e
  <1>4. /\ r.pc = "walk" /\ r.met = sw[p].met \cup {n} /\ r.now = sw[p].now
        /\ sw[p].errors \subseteq r.errors
        /\ r = e => n \in r.errors
    BY <1>1, <1>2, <1>3
  <1> QED BY <1>4 DEF d, e

LEMMA CleanDeals ==
    ASSUME StartInv, CleanInv, NEW p \in Procs, NEW n \in TmpNames,
           NEW r \in {Dealt(p, n), [Dealt(p, n) EXCEPT !.errors = @ \cup {n}]},
           sw' = [sw EXCEPT ![p] = r], Followed,
           \A m \in TmpNames : tmp'[m].there => tmp'[m] = tmp[m],
           n \notin r.errors /\ There(n)' => Spared(n, sw[p].now)
    PROVE  CleanInv'
  <1>1. sw[p] \in SweepStates /\ sw'[p] = r /\ CleanOK(p) /\ SweepTypeOK
    BY DEF StartInv, TypeOK, SweepTypeOK, CleanInv
  <1>2. /\ r.pc = "walk" /\ r.met = sw[p].met \cup {n} /\ r.now = sw[p].now
        /\ sw[p].errors \subseteq r.errors
    BY <1>1, DealtFields
  <1>3. ASSUME NEW m \in r.met \ r.errors, There(m)'
        PROVE  Spared(m, r.now)
    <2>1. m \in TmpNames /\ tmp'[m] = tmp[m] /\ There(m)
      BY <1>1, <1>2, <1>3 DEF SweepStates, There
    <2>2. CASE m = n
      BY <1>2, <1>3, <2>2
    <2>3. CASE m # n
      BY <1>1, <1>2, <1>3, <2>1, <2>3 DEF CleanOK
    <2> QED BY <2>2, <2>3
  <1>4. CleanOK(p)'
    <2>1. ASSUME NEW m \in r.met \ r.errors, There(m)'
          PROVE  Spared(m, r.now)'
      <3>1. m \in TmpNames /\ tmp'[m] = tmp[m]
        BY <1>1, <1>2, <2>1 DEF SweepStates, There
      <3> QED BY <1>1, <1>3, <2>1, <3>1 DEF Spared
    <2> QED BY <1>1, <1>2, <2>1 DEF CleanOK
  <1> QED BY <1>4, CleanStep

LEMMA Stands ==
    ASSUME StartInv, UNCHANGED <<tmp, clock>>
    PROVE  /\ Followed
           /\ \A m \in TmpNames : tmp'[m].there => tmp'[m] = tmp[m]
  BY DEF StartInv, TypeOK, TmpTypeOK, Followed, Times

LEMMA CleanSweeps ==
    ASSUME StartInv, CleanInv, NEW p \in Procs, Sweeping(p)
    PROVE  CleanInv'
  <1>1. sw \in [Procs -> SweepStates] /\ sw[p] \in SweepStates /\ CleanOK(p) /\ SweepTypeOK
    BY DEF StartInv, TypeOK, SweepTypeOK, CleanInv
  <1>2. CASE ReadClock(p)
    <2> DEFINE r == [sw[p] EXCEPT !.pc = "walk", !.now = clock]
    <2>1. r.met = sw[p].met /\ r.pc = "walk" /\ sw' = [sw EXCEPT ![p] = r]
      BY <1>1, <1>2 DEF ReadClock, SweepStates
    <2> HIDE DEF r
    <2>2. r.met = {} /\ r.pc = "walk"
      BY <1>1, <1>2, <2>1 DEF ReadClock, SwAt, CleanOK
    <2> QED BY <1>2, <2>1, <2>2, Stands, CleanStarts DEF ReadClock
  <1>3. CASE StatEntry(p)
    <2>1. PICK n \in Unmet(p) :
            \/ sw' = [sw EXCEPT ![p] = [Dealt(p, n) EXCEPT !.errors = @ \cup {n}]]
            \/ /\ There(n) /\ IsFresh(n, sw[p].now)
               /\ sw' = [sw EXCEPT ![p] = Dealt(p, n)]
            \/ sw' = [sw EXCEPT ![p].pc = "remove", ![p].cur = n]
      BY <1>3 DEF StatEntry
    <2>2. n \in TmpNames /\ UNCHANGED <<tmp, clock>>
      BY <1>1, <1>3 DEF Unmet, Listed, SweepStates, StatEntry
    <2>3. CASE sw' = [sw EXCEPT ![p] = [Dealt(p, n) EXCEPT !.errors = @ \cup {n}]]
      <3> DEFINE r == [Dealt(p, n) EXCEPT !.errors = @ \cup {n}]
      <3>1. n \in r.errors
        BY <1>1, <2>2, DealtFields
      <3>2. sw' = [sw EXCEPT ![p] = r]
        BY <2>3
      <3>3. r \in {Dealt(p, n), [Dealt(p, n) EXCEPT !.errors = @ \cup {n}]}
        OBVIOUS
      <3> HIDE DEF r
      <3> QED BY <2>2, <3>1, <3>2, <3>3, Stands, CleanDeals
    <2>4. CASE There(n) /\ IsFresh(n, sw[p].now) /\ sw' = [sw EXCEPT ![p] = Dealt(p, n)]
      <3>1. Spared(n, sw[p].now)
        BY <1>1, <2>2, <2>4, Constants
           DEF IsFresh, Spared, StartInv, TypeOK, TmpTypeOK, TmpFiles, SweepStates, Times
      <3> QED BY <1>3, <2>2, <2>4, <3>1, Stands, CleanDeals DEF StatEntry
    <2>5. CASE sw' = [sw EXCEPT ![p].pc = "remove", ![p].cur = n]
      <3> DEFINE r == [sw[p] EXCEPT !.pc = "remove", !.cur = n]
      <3>1. /\ r.met = sw[p].met /\ r.errors = sw[p].errors /\ r.now = sw[p].now
            /\ r.pc = "remove" /\ sw' = [sw EXCEPT ![p] = r]
        BY <1>1, <2>5 DEF SweepStates
      <3> HIDE DEF r
      <3>2. CleanOK(p)'
        BY <1>1, <2>2, <3>1 DEF CleanOK, There, Spared
      <3> QED BY <2>2, <3>1, <3>2, Stands, CleanStep
    <2> QED BY <2>1, <2>3, <2>4, <2>5
  <1>4. CASE RemoveEntry(p)
    <2>1. PICK n \in TmpNames : n = sw[p].cur
      BY <1>4 DEF StartInv, RemoveEntry, SwAt, SweepOK
    <2>2. UNCHANGED clock /\ TmpTypeOK
      BY <1>4 DEF StartInv, TypeOK, RemoveEntry
    <2>3. PICK r \in {Dealt(p, n), [Dealt(p, n) EXCEPT !.errors = @ \cup {n}]} :
            /\ sw' = [sw EXCEPT ![p] = r]
            /\ \/ tmp' = Without({n})
               \/ UNCHANGED tmp /\ r = [Dealt(p, n) EXCEPT !.errors = @ \cup {n}]
      BY <1>4, <2>1 DEF RemoveEntry
    <2>4. tmp' = Without({n}) \/ (UNCHANGED tmp /\ n \in r.errors)
      BY <1>1, <2>3, DealtFields
    <2>5. CASE tmp' = Without({n})
      <3>1. /\ tmp' \in [TmpNames -> TmpFiles]
            /\ \A m \in TmpNames : tmp'[m].there => m # n /\ tmp'[m] = tmp[m]
        BY <2>2, <2>5, WithoutOK
      <3>2. Followed
        BY <2>2, <3>1 DEF TmpTypeOK, Followed, Times
      <3>3. ~There(n)'
        BY <3>1 DEF There
      <3> QED BY <2>3, <3>1, <3>2, <3>3, CleanDeals
    <2>6. CASE UNCHANGED tmp /\ n \in r.errors
      BY <2>2, <2>3, <2>6, Stands, CleanDeals
    <2> QED BY <2>4, <2>5, <2>6
  <1> QED BY <1>2, <1>3, <1>4 DEF Sweeping, Sweep

(* Whoever writes to tmp/ writes now.                                      *)
LEMMA WritersFollow ==
    ASSUME StartInv, NEW p \in Procs,
           \/ Probe(p) \/ CreateStage(p) \/ WriteStage(p) \/ LeaveStage(p) \/ Kill(p)
    PROVE  Followed
  <1>1. TypeOK /\ TmpTypeOK
    BY DEF StartInv, TypeOK
  <1>2. UNCHANGED clock
    BY DEF Probe, Detect, DryRun, WriteSource, Clone, CleanSource, CleanTarget,
           CreateStage, WriteStage, LeaveStage, Kill
  <1>3. \/ tmp' = tmp
        \/ \E n \in TmpNames, t \in Times :
              t <= clock /\ tmp' = [tmp EXCEPT ![n] = Copied(p, t)]
        \/ \E n : TryRemove(n)
        \/ tmp' = Orphaned(p)
    <2>0. clock \in Times /\ clock <= clock
      BY <1>1 DEF TmpTypeOK, Times
    <2>1. CASE Detect(p) \/ CleanSource(p) \/ CleanTarget(p)
      BY <2>1 DEF Detect, CleanSource, CleanTarget
    <2>2. CASE WriteSource(p, Taken)
      BY <2>0, <2>2, NewNameIsUnused DEF WriteSource, Written
    <2>3. CASE Clone(p, Taken)
      <3>1. PICK ok \in BOOLEAN :
              \/ /\ tmp' = [tmp EXCEPT ![NewName(Taken)] = Target(p)] /\ TargetMade(ok, p)
                 /\ ok => There(pb[p].src)
              \/ UNCHANGED tmp
        BY <2>3 DEF Clone
      <3>2. NewName(Taken) \in TmpNames
        BY <2>3, NewNameIsUnused DEF Clone
      <3> QED BY <3>1, <3>2, TargetOK
    <2>4. ASSUME NEW n \in TmpNames, StageAs(p, n)
          PROVE  \E t \in Times : t <= clock /\ tmp' = [tmp EXCEPT ![n] = Copied(p, t)]
      <3>1. PICK t \in CopyTimes : tmp' = [tmp EXCEPT ![n] = Copied(p, t)]
        BY <2>4 DEF StageAs
      <3>2. t \in Times /\ t <= clock
        BY <1>1, OldTimesAreTimes, Constants DEF CopyTimes, TmpTypeOK, Times
      <3> QED BY <3>1, <3>2
    <2>5. CASE CreateStage(p)
      BY <2>4, <2>5, NewNameIsUnused DEF CreateStage
    <2>6. CASE WriteStage(p)
      BY <1>1, <2>4, <2>6 DEF WriteStage, TypeOK, Phases, There
    <2>7. CASE LeaveStage(p) \/ Kill(p)
      BY <2>7 DEF LeaveStage, Kill
    <2> QED BY <2>1, <2>2, <2>3, <2>5, <2>6, <2>7 DEF Probe, DryRun
  <1>4. CASE tmp' = tmp
    BY <1>1, <1>2, <1>4 DEF Followed, TmpTypeOK, Times
  <1>5. ASSUME NEW n \in TmpNames, NEW t \in Times, t <= clock,
               tmp' = [tmp EXCEPT ![n] = Copied(p, t)]
        PROVE  Followed
    BY <1>1, <1>2, <1>5, WritingFollows
  <1>6. ASSUME NEW n, TryRemove(n)
        PROVE  Followed
    BY <1>1, <1>2, <1>6, TryRemoveOK DEF Followed, TmpTypeOK, Times
  <1>7. CASE tmp' = Orphaned(p)
    BY <1>1, <1>2, <1>7, OrphanedOK DEF Followed, TmpTypeOK, Times
  <1> QED BY <1>3, <1>4, <1>5, <1>6, <1>7

LEMMA CleanNext ==
    ASSUME StartInv, CleanInv, [Next]_startVars
    PROVE  CleanInv'
  <1>1. NoSweep.met = {} /\ NoSweep.pc = "idle"
    BY DEF NoSweep
  <1>2. ASSUME NEW p \in Procs, BeginSweep(p) \/ SweepEnds(p)
        PROVE  CleanInv'
    <2>1. PICK r \in {NoSweep, [NoSweep EXCEPT !.pc = "opened", !.opened = Listed],
                      [NoSweep EXCEPT !.pc = "failed"]} :
            sw' = [sw EXCEPT ![p] = r] /\ UNCHANGED <<tmp, clock>>
      BY <1>2 DEF BeginSweep, OpenDir, SweepEnds, EndSweep
    <2>2. r.met = {} /\ (r.pc = "failed" => r.opened = {})
      <3>1. CASE r = NoSweep
        BY <1>1, <3>1
      <3>2. CASE r = [NoSweep EXCEPT !.pc = "opened", !.opened = Listed]
        BY <3>2 DEF NoSweep
      <3>3. CASE r = [NoSweep EXCEPT !.pc = "failed"]
        BY <3>3 DEF NoSweep
      <3> QED BY <3>1, <3>2, <3>3
    <2>3. Followed
      BY <2>1, Stands
    <2> HIDE DEF NoSweep
    <2> QED BY <2>1, <2>2, <2>3, CleanStarts
  <1>3. ASSUME NEW p \in Procs, Kill(p)
        PROVE  CleanInv'
    BY <1>1, <1>3, WritersFollow, CleanStarts DEF Kill
  <1>4. ASSUME NEW p \in Procs, Probe(p) \/ CreateStage(p) \/ WriteStage(p) \/ LeaveStage(p)
        PROVE  CleanInv'
    <2>1. UNCHANGED sw
      BY <1>4 DEF Probe, CreateStage, WriteStage, LeaveStage
    <2> QED BY <1>4, <2>1, WritersFollow, CleansKept
  <1>5. ASSUME NEW p \in Procs, Launch(p) \/ ProbeOnly(p) \/ Done(p)
        PROVE  CleanInv'
    BY <1>5, Stands, CleansKept DEF Launch, ProbeOnly, Done, TmpUnchanged
  <1>6. CASE Tick
    <2>1. Followed
      BY <1>6, Constants DEF Tick, Followed, StartInv, TypeOK, TmpTypeOK, Times
    <2> QED BY <1>6, <2>1, CleansKept DEF Tick
  <1>7. CASE UNCHANGED startVars
    BY <1>7, Stands, CleansKept DEF startVars
  <1> QED BY <1>2, <1>3, <1>4, <1>5, <1>6, <1>7, CleanSweeps DEF Next

(* When a sweep ends, what it found in tmp/ and had no error with is gone, *)
(* bears a time within the threshold, or was written to since the sweep    *)
(* read the clock, whatever the others do meanwhile (sweep_stale_tmp).     *)
THEOREM SweepsAreClean == Spec => SweepsClean
  <1> DEFINE A == \A p \in Procs : SweepEnds(p) =>
        \A n \in sw[p].opened \ sw[p].errors :
            There(n) => tmp[n].mtime + Stale > sw[p].now \/ tmp[n].written >= sw[p].now
  <1>1. Init => CleanInv
    BY DEF Init, SweepInit, NoSweep, CleanInv, CleanOK
  <1>2. StartInv /\ CleanInv => A
    BY DEF CleanInv, CleanOK, Spared, SweepEnds, EndSweep, WalkDone, SwAt
  <1>3. StartInv /\ CleanInv /\ [Next]_startVars => [A]_startVars
    BY <1>2
  <1> QED BY <1>1, <1>3, CleanNext, StartInit, StartNext, PTL DEF Spec, SweepsClean
=============================================================================
