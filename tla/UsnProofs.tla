------------------------------ MODULE UsnProofs ------------------------------
(***************************************************************************)
(* UsnScanner implements ChangeFeed, and loses no volume handle but where  *)
(* an open fails, for every journal and every buffer.  What EntriesIn      *)
(* computes is reasoned about through its walk along the journal and the   *)
(* least number at which two walks would differ.                           *)
(***************************************************************************)
EXTENDS UsnScanner, TLAPS, SequenceTheorems, WellFoundedInduction

(* A set of numbers has a least one.                                       *)
LEMMA Least ==
    ASSUME NEW T \in SUBSET Nat, T # {}
    PROVE  \E x \in T : \A y \in T : x <= y
  <1> DEFINE R == OpToRel(<, Nat)
  <1>1. \A x, y \in Nat : <<x, y>> \in R <=> x < y
    BY DEF OpToRel
  <1>2. IsWellFoundedOn(R, Nat)
    BY NatLessThanWellFounded
  <1> HIDE DEF R
  <1>3. PICK x \in T : \A y \in T : ~(<<y, x>> \in R)
    BY <1>2, WFMin
  <1>4. ASSUME NEW y \in T PROVE x <= y
    <2>1. x \in Nat /\ y \in Nat /\ ~(y < x)
      BY <1>1, <1>3
    <2> QED BY <2>1
  <1> QED BY <1>3, <1>4

(* f[n] lists what W has for the numbers in S from u up to and without n.  *)
Walk(f, u, v, S, W) ==
    f = [k \in u .. v |-> IF k = u THEN <<>>
                          ELSE IF k - 1 \in S THEN Append(f[k - 1], W[k - 1])
                          ELSE f[k - 1]]

LEMMA WalkExists ==
    ASSUME NEW u \in Nat, NEW v \in Nat, NEW S, NEW W
    PROVE  \E f : Walk(f, u, v, S, W)
  <1> DEFINE T == {n \in Nat : ~ \E f : Walk(f, u, n, S, W)}
  <1> SUFFICES ASSUME v \in T PROVE FALSE
    OBVIOUS
  <1>1. PICK m \in T : \A y \in T : m <= y
    BY Least
  <1>2. CASE m <= u
    <2> DEFINE f == [k \in u .. m |-> <<>>]
    <2>1. Walk(f, u, m, S, W)
      BY <1>2 DEF Walk
    <2> QED BY <2>1
  <1>3. CASE m > u
    <2>1. m - 1 \in Nat /\ m - 1 \notin T
      BY <1>1, <1>3
    <2>2. PICK g : Walk(g, u, m - 1, S, W)
      BY <2>1
    <2> DEFINE last == IF m - 1 \in S THEN Append(g[m - 1], W[m - 1]) ELSE g[m - 1]
               f    == [k \in u .. m |-> IF k = m THEN last ELSE g[k]]
    <2> HIDE DEF last
    <2>3. \A k \in u .. m : f[k] = IF k = m THEN last ELSE g[k]
      OBVIOUS
    <2>4. ASSUME NEW k \in u .. m
          PROVE  f[k] = IF k = u THEN <<>>
                        ELSE IF k - 1 \in S THEN Append(f[k - 1], W[k - 1])
                        ELSE f[k - 1]
      <3>1. CASE k = m
        <4>1. f[k] = last /\ k # u /\ f[k - 1] = g[m - 1]
          BY <1>3, <2>3, <3>1
        <4> HIDE DEF f
        <4> QED BY <3>1, <4>1 DEF last
      <3>2. CASE k # m
        <4>1. k \in u .. m - 1 /\ f[k] = g[k] /\ (k # u => f[k - 1] = g[k - 1])
          BY <1>3, <2>3, <3>2
        <4> HIDE DEF f
        <4> QED BY <2>2, <4>1 DEF Walk
      <3> QED BY <3>1, <3>2
    <2>5. DOMAIN f = u .. m /\ f = [k \in DOMAIN f |-> f[k]]
      OBVIOUS
    <2> HIDE DEF f
    <2>6. Walk(f, u, m, S, W)
      BY <2>4, <2>5 DEF Walk
    <2> QED BY <2>6
  <1> QED BY <1>2, <1>3

RelevantUsns == {k \in Nat : Relevant(journal[k])}
EntryOf      == [k \in Nat |-> Entry(k)]

LEMMA EntriesAreWalked ==
    ASSUME NEW u \in Nat, NEW v \in Nat, u <= v
    PROVE  \E f : Walk(f, u, v, RelevantUsns, EntryOf) /\ EntriesIn(u, v) = f[v]
  <1> DEFINE upto[k \in u .. v] ==
            IF k = u THEN <<>>
            ELSE IF Relevant(journal[k - 1]) THEN Append(upto[k - 1], Entry(k - 1))
            ELSE upto[k - 1]
  <1>1. EntriesIn(u, v) = upto[v]
    BY DEF EntriesIn
  <1>2. PICK f : Walk(f, u, v, RelevantUsns, EntryOf)
    BY WalkExists
  <1>3. \A k \in u .. v : k # u =>
            /\ k - 1 \in RelevantUsns <=> Relevant(journal[k - 1])
            /\ EntryOf[k - 1] = Entry(k - 1)
    BY DEF RelevantUsns, EntryOf
  <1>4. f = [k \in u .. v |->
            IF k = u THEN <<>>
            ELSE IF Relevant(journal[k - 1]) THEN Append(f[k - 1], Entry(k - 1))
            ELSE f[k - 1]]
    BY <1>2, <1>3 DEF Walk
  <1>5. upto = [k \in u .. v |->
            IF k = u THEN <<>>
            ELSE IF Relevant(journal[k - 1]) THEN Append(upto[k - 1], Entry(k - 1))
            ELSE upto[k - 1]]
    BY <1>4
  <1> HIDE DEF upto
  <1>6. Walk(upto, u, v, RelevantUsns, EntryOf)
    BY <1>3, <1>5 DEF Walk
  <1> QED BY <1>1, <1>6

(* One step of a walk.                                                     *)
LEMMA WalkStep ==
    ASSUME NEW u \in Nat, NEW v \in Nat, NEW S, NEW W, NEW f, Walk(f, u, v, S, W)
    PROVE  /\ u <= v => f[u] = <<>>
           /\ \A n \in u + 1 .. v :
                 f[n] = IF n - 1 \in S THEN Append(f[n - 1], W[n - 1]) ELSE f[n - 1]
  <1>1. \A k \in u .. v : f[k] = IF k = u THEN <<>>
                                 ELSE IF k - 1 \in S THEN Append(f[k - 1], W[k - 1])
                                 ELSE f[k - 1]
    BY DEF Walk
  <1>2. u <= v => u \in u .. v
    OBVIOUS
  <1>3. \A n \in u + 1 .. v : n \in u .. v /\ n # u
    OBVIOUS
  <1> QED BY <1>1, <1>2, <1>3

(* Induction along a range, for the set of the numbers something holds of. *)
LEMMA RangeInduction ==
    ASSUME NEW u \in Nat, NEW v \in Nat, NEW P, u <= v => u \in P,
           \A k \in u + 1 .. v : k - 1 \in P => k \in P
    PROVE  u .. v \subseteq P
  <1> DEFINE T == (u .. v) \ P
  <1> SUFFICES ASSUME T # {} PROVE FALSE
    OBVIOUS
  <1>1. T \in SUBSET Nat
    OBVIOUS
  <1>2. PICK m \in T : \A y \in T : m <= y
    BY <1>1, Least
  <1>3. m # u /\ m \in u + 1 .. v
    BY <1>2
  <1>4. m - 1 \in u .. v /\ m - 1 \notin T
    BY <1>2, <1>3
  <1> QED BY <1>2, <1>3, <1>4

(* Two walks over the same numbers list the same.                          *)
LEMMA WalksAgree ==
    ASSUME NEW u \in Nat, NEW v \in Nat, NEW S, NEW W, NEW f, Walk(f, u, v, S, W),
           NEW w \in Nat, NEW X, NEW Y, NEW g, Walk(g, u, w, X, Y),
           NEW n \in u .. v, n <= w,
           \A k \in u .. n - 1 : (k \in S <=> k \in X) /\ W[k] = Y[k]
    PROVE  f[n] = g[n]
  <1> DEFINE P == {k \in Nat : f[k] = g[k]}
  <1>0. n \in Nat /\ u <= n /\ u \in u .. n /\ n \in u .. n
    OBVIOUS
  <1>1. u \in P
    BY <1>0, WalkStep
  <1>2. ASSUME NEW k \in u + 1 .. n, k - 1 \in P PROVE k \in P
    <2>1. k \in u + 1 .. v /\ k \in u + 1 .. w /\ k - 1 \in u .. n - 1 /\ k \in Nat
      OBVIOUS
    <2>2. /\ f[k] = IF k - 1 \in S THEN Append(f[k - 1], W[k - 1]) ELSE f[k - 1]
          /\ g[k] = IF k - 1 \in X THEN Append(g[k - 1], Y[k - 1]) ELSE g[k - 1]
      BY <2>1, WalkStep
    <2> QED BY <1>2, <2>1, <2>2
  <1> HIDE DEF P
  <1>3. u .. n \subseteq P
    BY <1>0, <1>1, <1>2, RangeInduction
  <1> QED BY <1>0, <1>3 DEF P

LEMMA WalkTypes ==
    ASSUME NEW u \in Nat, NEW v \in Nat, NEW S, NEW W, NEW f, Walk(f, u, v, S, W),
           NEW R, \A k \in u .. v - 1 : k \in S => W[k] \in R,
           NEW n \in u .. v
    PROVE  f[n] \in Seq(R)
  <1> DEFINE P == {k \in Nat : f[k] \in Seq(R)}
  <1>0. u <= v
    OBVIOUS
  <1>1. u \in P
    <2>1. f[u] = <<>>
      BY <1>0, WalkStep
    <2> QED BY <2>1, EmptySeq
  <1>2. ASSUME NEW k \in u + 1 .. v, k - 1 \in P PROVE k \in P
    <2>1. k - 1 \in u .. v - 1 /\ k \in Nat /\ f[k - 1] \in Seq(R)
      BY <1>2
    <2>2. f[k] = IF k - 1 \in S THEN Append(f[k - 1], W[k - 1]) ELSE f[k - 1]
      BY WalkStep
    <2>3. k - 1 \in S => Append(f[k - 1], W[k - 1]) \in Seq(R)
      BY <2>1, AppendProperties
    <2> QED BY <2>1, <2>2, <2>3
  <1> HIDE DEF P
  <1>3. u .. v \subseteq P
    BY <1>0, <1>1, <1>2, RangeInduction
  <1> QED BY <1>3 DEF P

(* A walk goes on where an earlier one ended.  (Joined keeps the provers   *)
(* from rewriting \o where the lemma is cited.)                            *)
Joined(s, t) == s \o t

LEMMA WalksJoin ==
    ASSUME NEW u \in Nat, NEW v \in Nat, NEW S, NEW W, NEW f, Walk(f, u, v, S, W),
           NEW m \in u .. v, NEW g, Walk(g, m, v, S, W),
           NEW R, \A k \in u .. v - 1 : k \in S => W[k] \in R,
           NEW n \in m .. v
    PROVE  f[n] = Joined(f[m], g[n])
  <1>0. m \in Nat /\ m <= v /\ u <= m
    OBVIOUS
  <1>t. \A k \in m .. v : f[k] \in Seq(R) /\ g[k] \in Seq(R)
    <2>1. \A k \in m .. v : k \in u .. v
      BY <1>0
    <2>2. \A k \in m .. v - 1 : k \in S => W[k] \in R
      BY <1>0
    <2>3. \A k \in u .. v : f[k] \in Seq(R)
      BY WalkTypes
    <2>4. \A k \in m .. v : g[k] \in Seq(R)
      BY <1>0, <2>2, WalkTypes
    <2> QED BY <2>1, <2>3, <2>4
  <1>a. ASSUME NEW s \in Seq(R), NEW t \in Seq(R), NEW e \in R
        PROVE  Append(s \o t, e) = s \o Append(t, e)
    <2>1. <<e>> \in Seq(R) /\ s \o t \in Seq(R)
      BY ConcatProperties
    <2>2. Append(s \o t, e) = (s \o t) \o <<e>>
      BY <2>1, AppendIsConcat
    <2>3. Append(t, e) = t \o <<e>>
      BY AppendIsConcat
    <2>4. (s \o t) \o <<e>> = s \o (t \o <<e>>)
      BY <2>1, ConcatAssociative
    <2> QED BY <2>2, <2>3, <2>4
  <1> DEFINE h == [k \in m .. v |-> f[m] \o g[k]]
             P == {k \in Nat : f[k] = h[k]}
  <1>h. \A k \in m .. v : h[k] = f[m] \o g[k]
    OBVIOUS
  <1> HIDE DEF h
  <1>1. m \in P
    <2>1. g[m] = <<>> /\ m \in m .. v
      BY <1>0, WalkStep
    <2>2. f[m] \o <<>> = f[m]
      BY <1>t, <2>1, ConcatEmptySeq
    <2> QED BY <1>0, <1>h, <2>1, <2>2
  <1>2. ASSUME NEW k \in m + 1 .. v, k - 1 \in P PROVE k \in P
    <2>1. /\ k \in u + 1 .. v /\ k - 1 \in m .. v /\ k - 1 \in u .. v - 1 /\ k \in m .. v
          /\ k \in Nat /\ m \in m .. v
      BY <1>0
    <2>2. f[k - 1] = f[m] \o g[k - 1]
      BY <1>2, <1>h, <2>1
    <2>3. /\ f[k] = IF k - 1 \in S THEN Append(f[k - 1], W[k - 1]) ELSE f[k - 1]
          /\ g[k] = IF k - 1 \in S THEN Append(g[k - 1], W[k - 1]) ELSE g[k - 1]
      BY <1>0, <2>1, WalkStep
    <2>4. CASE k - 1 \in S
      <3>1. W[k - 1] \in R
        BY <2>1, <2>4
      <3>2. f[m] \in Seq(R) /\ g[k - 1] \in Seq(R) /\ f[k - 1] \in Seq(R)
        BY <1>t, <2>1
      <3>3. Append(f[m] \o g[k - 1], W[k - 1]) = f[m] \o Append(g[k - 1], W[k - 1])
        BY <1>a, <3>1, <3>2, Zenon
      <3>6. f[k] = f[m] \o g[k]
        BY <2>2, <2>3, <2>4, <3>3
      <3> QED BY <1>h, <2>1, <3>6
    <2>5. CASE k - 1 \notin S
      BY <1>h, <2>1, <2>2, <2>3, <2>5
    <2> QED BY <2>4, <2>5
  <1> HIDE DEF P
  <1>3. m .. v \subseteq P
    BY <1>0, <1>1, <1>2, RangeInduction
  <1> QED BY <1>3, <1>h DEF P, Joined

-----------------------------------------------------------------------------
(* The entries of the journal.                                             *)
Walked == \A u, v \in Nat : u <= v =>
    \E f : Walk(f, u, v, RelevantUsns, EntryOf) /\ EntriesIn(u, v) = f[v]

LEMMA EntriesNow == Walked
  BY EntriesAreWalked DEF Walked

LEMMA EntriesNext == Walked'
  BY EntriesNow, PTL

(* What was written before is read the same.                               *)
LEMMA EntriesKept ==
    ASSUME NEW u \in Nat, NEW v \in Nat, u <= v,
           \A k \in u .. v - 1 : journal'[k] = journal[k]
    PROVE  EntriesIn(u, v)' = EntriesIn(u, v)
  <1>1. PICK f : Walk(f, u, v, RelevantUsns, EntryOf) /\ EntriesIn(u, v) = f[v]
    BY EntriesNow DEF Walked
  <1>2. PICK g : Walk(g, u, v, RelevantUsns', EntryOf') /\ EntriesIn(u, v)' = g[v]
    BY EntriesNext DEF Walked
  <1>3. \A k \in u .. v - 1 :
            (k \in RelevantUsns <=> k \in RelevantUsns') /\ EntryOf[k] = EntryOf'[k]
    BY DEF RelevantUsns, EntryOf, Entry
  <1>4. v \in u .. v /\ v <= v
    OBVIOUS
  <1>5. f[v] = g[v]
    BY <1>1, <1>2, <1>3, <1>4, WalksAgree
  <1> QED BY <1>1, <1>2, <1>5
-----------------------------------------------------------------------------
Scanners == [pc : {"closed", "querying", "ready", "scanning"}, cursor : Nat, from : Nat]

(* What the handle count is read from, and the journal the cursor is in.   *)
Shape == journal \in Seq(Records) /\ scanner \in Scanners /\ handles \in Nat /\ failedQueries \in Nat
HandleInv == Shape /\ HandlesReturned

(* A cursor that a read may end at is a number.                            *)
LEMMA ReadEndsAreNumbers ==
    ASSUME Shape
    PROVE  ReadEnds \subseteq Nat /\ NextUsn \in Nat
  <1>1. NextUsn \in Nat
    BY DEF Shape, NextUsn
  <1>2. scanner.cursor \in Nat
    BY DEF Shape, Scanners
  <1>3. ReadEnds \subseteq scanner.cursor .. NextUsn
    BY DEF ReadEnds
  <1> QED BY <1>1, <1>2, <1>3

LEMMA HandlesStart == Init => HandleInv
  BY DEF Init, Closed, HandleInv, Shape, Scanners, HandlesReturned

(* The steps of the volume have nothing to do with handles.                *)
LEMMA VolumeStep ==
    ASSUME HandleInv, Overwrite \/ \E r \in Records : Change(r)
    PROVE  HandleInv'
  <1>1. UNCHANGED <<scanner, handles, failedQueries>>
    BY DEF Change, Overwrite
  <1>2. journal' \in Seq(Records)
    <2>1. journal \in Seq(Records)
      BY DEF HandleInv, Shape
    <2>2. CASE Overwrite
      BY <2>1, <2>2 DEF Overwrite
    <2>3. CASE \E r \in Records : Change(r)
      <3>1. PICK r \in Records : journal' = Append(journal, r)
        BY <2>3 DEF Change
      <3> QED BY <2>1, <3>1
    <2> QED BY <2>2, <2>3
  <1> QED BY <1>1, <1>2 DEF HandleInv, Shape, HandlesReturned

(* A call takes a handle when it begins ...                                *)
LEMMA BeginStep ==
    ASSUME HandleInv, OpenVolume \/ ScanOpens
    PROVE  HandleInv'
  <1>1. CASE OpenVolume
    BY <1>1 DEF OpenVolume, Closed, HandleInv, Shape, Scanners, HandlesReturned
  <1>2. CASE ScanOpens
    BY <1>2 DEF ScanOpens, HandleInv, Shape, Scanners, HandlesReturned
  <1> QED BY <1>1, <1>2

(* ... and gives it back when it returns, but for an open that fails.      *)
LEMMA OpeningStep ==
    ASSUME HandleInv, Opening
    PROVE  HandleInv'
  <1>1. CASE OpenQueries
    BY <1>1, ReadEndsAreNumbers
       DEF OpenQueries, HandleInv, Shape, Scanners, HandlesReturned
  <1>2. CASE OpenFails
    BY <1>2 DEF OpenFails, Closed, HandleInv, Shape, Scanners, HandlesReturned
  <1> QED BY <1>1, <1>2 DEF Opening

LEMMA ScanningStep ==
    ASSUME HandleInv, Scanning
    PROVE  HandleInv'
  <1>1. CASE ScanReads
    <2>1. PICK v \in ReadEnds : scanner' = [scanner EXCEPT !.cursor = v, !.pc = "ready"]
      BY <1>1 DEF ScanReads
    <2>2. v \in Nat
      BY ReadEndsAreNumbers DEF HandleInv
    <2>3. scanner' \in Scanners /\ scanner'.pc = "ready"
      BY <2>1, <2>2 DEF HandleInv, Shape, Scanners
    <2> QED BY <1>1, <2>3 DEF ScanReads, HandleInv, Shape, HandlesReturned
  <1>2. CASE ScanFails
    BY <1>2 DEF ScanFails, HandleInv, Shape, Scanners, HandlesReturned
  <1> QED BY <1>1, <1>2 DEF Scanning

(* Whatever the volume does and whichever calls fail, no handle is lost    *)
(* but by an open whose query fails (open, scan_delta).                    *)
THEOREM HandlesAreReturned == Spec => []HandlesReturned
  <1>1. ASSUME HandleInv, [Next]_usnVars PROVE HandleInv'
    <2>1. CASE UNCHANGED usnVars
      BY <1>1, <2>1 DEF usnVars, HandleInv, Shape, HandlesReturned
    <2>2. CASE Next
      BY <1>1, <2>2, VolumeStep, BeginStep, OpeningStep, ScanningStep DEF Next
    <2> QED BY <1>1, <2>1, <2>2
  <1>2. HandleInv => HandlesReturned
    BY DEF HandleInv
  <1> QED BY HandlesStart, <1>1, <1>2, PTL DEF Spec
-----------------------------------------------------------------------------
Changes == [usn : 1 .. MaxUsn, reason : {"HardLinkChange", "DataOverwrite"}]

(* The cursor of an open scanner is in the journal or at its end.          *)
CursorInv ==
    /\ journal \in Seq(Records) /\ Len(journal) <= MaxUsn
    /\ first \in 1 .. NextUsn
    /\ IsOpen => scanner.cursor \in 1 .. NextUsn
    /\ reported \in Seq(Changes)
UsnInv == HandleInv /\ CursorInv

LEMMA RelevantIsReported ==
    ASSUME NEW r, Relevant(r)
    PROVE  Reason(r) \in {"HardLinkChange", "DataOverwrite"}
  BY DEF Relevant, Reason

LEMMA EntriesTyped ==
    ASSUME UsnInv, NEW u \in 1 .. NextUsn, NEW v \in u .. NextUsn
    PROVE  EntriesIn(u, v) \in Seq(Changes)
  <1>1. u \in Nat /\ v \in Nat /\ u <= v /\ v \in u .. v
    BY ReadEndsAreNumbers DEF UsnInv, HandleInv
  <1>2. PICK f : Walk(f, u, v, RelevantUsns, EntryOf) /\ EntriesIn(u, v) = f[v]
    BY <1>1, EntriesNow DEF Walked
  <1>3. ASSUME NEW k \in u .. v - 1, k \in RelevantUsns PROVE EntryOf[k] \in Changes
    <2>1. k \in Nat /\ k \in 1 .. MaxUsn
      BY <1>1, UsnBounds DEF UsnInv, CursorInv, NextUsn
    <2>2. Relevant(journal[k])
      BY <1>3 DEF RelevantUsns
    <2> QED BY <2>1, <2>2, RelevantIsReported DEF EntryOf, Entry, Changes
  <1>4. f[v] \in Seq(Changes)
    BY <1>1, <1>2, <1>3, WalkTypes
  <1> QED BY <1>2, <1>4

LEMMA NoEntries ==
    ASSUME NEW u \in Nat
    PROVE  EntriesIn(u, u) = <<>>
  <1>1. PICK f : Walk(f, u, u, RelevantUsns, EntryOf) /\ EntriesIn(u, u) = f[u]
    BY EntriesNow DEF Walked
  <1> QED BY <1>1, WalkStep

(* Two reads deliver what one read of both would.                          *)
LEMMA EntriesJoin ==
    ASSUME UsnInv, NEW u \in 1 .. NextUsn, NEW m \in u .. NextUsn, NEW v \in m .. NextUsn
    PROVE  EntriesIn(u, v) = EntriesIn(u, m) \o EntriesIn(m, v)
  <1>1. /\ u \in Nat /\ v \in Nat /\ m \in Nat /\ u <= v /\ m \in u .. v /\ u <= m /\ m <= v
        /\ v \in m .. v /\ m \in u .. m
    BY ReadEndsAreNumbers DEF UsnInv, HandleInv
  <1>2. PICK f : Walk(f, u, v, RelevantUsns, EntryOf) /\ EntriesIn(u, v) = f[v]
    BY <1>1, EntriesNow DEF Walked
  <1>3. PICK g : Walk(g, m, v, RelevantUsns, EntryOf) /\ EntriesIn(m, v) = g[v]
    BY <1>1, EntriesNow DEF Walked
  <1>4. PICK h : Walk(h, u, m, RelevantUsns, EntryOf) /\ EntriesIn(u, m) = h[m]
    BY <1>1, EntriesNow DEF Walked
  <1>5. f[m] = h[m]
    BY <1>1, <1>2, <1>4, WalksAgree
  <1> DEFINE R == {EntryOf[i] : i \in Nat}
  <1>6. \A k \in u .. v - 1 : k \in RelevantUsns => EntryOf[k] \in R
    BY <1>1
  <1> HIDE DEF R
  <1>7. f[v] = f[m] \o g[v]
    <2>1. \A n \in m .. v : f[n] = Joined(f[m], g[n])
      BY <1>1, <1>2, <1>3, <1>6, WalksJoin
    <2> QED BY <1>1, <2>1 DEF Joined
  <1> QED BY <1>2, <1>3, <1>4, <1>5, <1>7

(* A record is one more entry, if it is relevant.                          *)
LEMMA EntriesGrow ==
    ASSUME UsnInv, NEW r \in Records, Change(r),
           NEW n \in Nat, n = NextUsn, NEW u \in 1 .. n
    PROVE  /\ NextUsn' = n + 1
           /\ EntriesIn(u, n + 1)' =
                  IF Relevant(r)
                  THEN Append(EntriesIn(u, n), [usn |-> n, reason |-> Reason(r)])
                  ELSE EntriesIn(u, n)
  <1>1. /\ n = Len(journal) + 1 /\ u \in Nat /\ u <= n /\ n \in u .. n /\ n \in u .. n + 1
        /\ n + 1 \in u + 1 .. n + 1 /\ u <= n + 1 /\ n + 1 \in Nat
    BY DEF NextUsn
  <1>2. /\ Len(journal') = Len(journal) + 1
        /\ \A k \in 1 .. n - 1 : journal'[k] = journal[k]
        /\ journal'[n] = r
    BY <1>1, AppendProperties DEF Change, UsnInv, CursorInv
  <1>3. PICK f : Walk(f, u, n + 1, RelevantUsns', EntryOf') /\ EntriesIn(u, n + 1)' = f[n + 1]
    BY <1>1, EntriesNext DEF Walked
  <1>4. PICK g : Walk(g, u, n, RelevantUsns, EntryOf) /\ EntriesIn(u, n) = g[n]
    BY <1>1, EntriesNow DEF Walked
  <1>5. f[n] = g[n]
    <2>1. \A k \in u .. n - 1 :
            (k \in RelevantUsns' <=> k \in RelevantUsns) /\ EntryOf'[k] = EntryOf[k]
      BY <1>1, <1>2 DEF RelevantUsns, EntryOf, Entry
    <2> QED BY <1>1, <1>3, <1>4, <2>1, WalksAgree
  <1>6. f[n + 1] = IF n \in RelevantUsns' THEN Append(f[n], EntryOf'[n]) ELSE f[n]
    <2>1. (n + 1) - 1 = n
      OBVIOUS
    <2>2. \A k \in u + 1 .. n + 1 : f[k] =
              IF k - 1 \in RelevantUsns' THEN Append(f[k - 1], EntryOf'[k - 1]) ELSE f[k - 1]
      BY <1>1, <1>3, WalkStep
    <2> QED BY <1>1, <2>1, <2>2
  <1>7. /\ n \in RelevantUsns' <=> Relevant(r)
        /\ EntryOf'[n] = [usn |-> n, reason |-> Reason(r)]
    BY <1>1, <1>2 DEF RelevantUsns, EntryOf, Entry
  <1>8. NextUsn' = n + 1
    BY <1>1, <1>2 DEF NextUsn
  <1> QED BY <1>3, <1>4, <1>5, <1>6, <1>7, <1>8
-----------------------------------------------------------------------------
(* The invariant.                                                          *)
LEMMA UsnInitially == Init => UsnInv
  <1>1. Init => CursorInv
    BY UsnBounds DEF Init, Closed, CursorInv, IsOpen, NextUsn, Changes
  <1> QED BY <1>1, HandlesStart DEF UsnInv

LEMMA UsnGrows ==
    ASSUME UsnInv, NEW r \in Records, Change(r)
    PROVE  CursorInv'
  <1>1. /\ journal' \in Seq(Records) /\ Len(journal') = Len(journal) + 1
        /\ Len(journal) \in Nat /\ Len(journal') <= MaxUsn
    BY AppendProperties, UsnBounds DEF Change, UsnInv, CursorInv
  <1> QED BY <1>1 DEF Change, UsnInv, CursorInv, IsOpen, NextUsn

LEMMA UsnOverwrites ==
    ASSUME UsnInv, Overwrite
    PROVE  CursorInv'
  BY ReadEndsAreNumbers DEF Overwrite, UsnInv, HandleInv, CursorInv, IsOpen, NextUsn

LEMMA UsnOpens ==
    ASSUME UsnInv, OpenVolume \/ Opening
    PROVE  CursorInv'
  <1>1. UNCHANGED <<journal, first>> /\ reported' \in Seq(Changes)
    BY EmptySeq DEF OpenVolume, Opening, OpenQueries, OpenFails, UsnInv, CursorInv
  <1>2. IsOpen' => scanner'.cursor = NextUsn
    BY DEF OpenVolume, Opening, OpenQueries, OpenFails, Closed, IsOpen
  <1>3. NextUsn \in 1 .. NextUsn
    BY ReadEndsAreNumbers DEF UsnInv, HandleInv, CursorInv
  <1> QED BY <1>1, <1>2, <1>3 DEF UsnInv, CursorInv, NextUsn

(* A read: from the cursor to the end v of the read.                       *)
LEMMA OneRead ==
    ASSUME UsnInv, ScanReads
    PROVE  \E v \in scanner.cursor .. NextUsn :
              /\ IsOpen /\ IsOpen' /\ scanner.cursor \in 1 .. NextUsn
              /\ v \in 1 .. NextUsn /\ scanner'.cursor = v
              /\ reported' = reported \o EntriesIn(scanner.cursor, v)
              /\ UNCHANGED <<journal, first>>
  <1>1. PICK v \in ReadEnds :
            /\ reported' = reported \o EntriesIn(scanner.cursor, v)
            /\ scanner' = [scanner EXCEPT !.cursor = v, !.pc = "ready"]
    BY DEF ScanReads
  <1>2. IsOpen /\ scanner.cursor \in 1 .. NextUsn
    BY DEF ScanReads, IsOpen, UsnInv, CursorInv
  <1>3. v \in scanner.cursor .. NextUsn
    BY DEF ReadEnds
  <1>4. scanner'.cursor = v /\ scanner'.pc = "ready"
    BY <1>1 DEF UsnInv, HandleInv, Shape, Scanners
  <1>5. v \in 1 .. NextUsn
    BY <1>2, <1>3, ReadEndsAreNumbers DEF UsnInv, HandleInv
  <1> QED BY <1>1, <1>2, <1>3, <1>4, <1>5 DEF ScanReads, IsOpen

LEMMA UsnScans ==
    ASSUME UsnInv, ScanOpens \/ Scanning
    PROVE  CursorInv'
  <1>1. CASE ScanReads
    <2>1. PICK v \in scanner.cursor .. NextUsn :
              /\ scanner.cursor \in 1 .. NextUsn
              /\ v \in 1 .. NextUsn /\ scanner'.cursor = v
              /\ reported' = reported \o EntriesIn(scanner.cursor, v)
              /\ UNCHANGED <<journal, first>>
      BY <1>1, OneRead
    <2>2. EntriesIn(scanner.cursor, v) \in Seq(Changes)
      BY <2>1, EntriesTyped
    <2>3. reported' \in Seq(Changes)
      BY <2>1, <2>2, ConcatProperties DEF UsnInv, CursorInv
    <2> QED BY <2>1, <2>3 DEF UsnInv, CursorInv, NextUsn
  <1>2. CASE ScanOpens \/ ScanFails
    <2>1. /\ UNCHANGED <<journal, first, reported>>
          /\ IsOpen /\ scanner'.cursor = scanner.cursor
      BY <1>2 DEF ScanOpens, ScanFails, IsOpen, UsnInv, HandleInv, Shape, Scanners
    <2> QED BY <2>1 DEF UsnInv, CursorInv, NextUsn
  <1> QED BY <1>1, <1>2 DEF Scanning

LEMMA UsnKept ==
    ASSUME UsnInv, [Next]_usnVars
    PROVE  UsnInv'
  <1>1. CASE UNCHANGED usnVars
    BY <1>1 DEF usnVars, UsnInv, HandleInv, Shape, HandlesReturned, CursorInv, IsOpen, NextUsn
  <1>2. CASE Next
    <2>1. HandleInv'
      BY <1>2, VolumeStep, BeginStep, OpeningStep, ScanningStep DEF Next, UsnInv
    <2>2. CursorInv'
      BY <1>2, UsnGrows, UsnOverwrites, UsnOpens, UsnScans DEF Next
    <2> QED BY <2>1, <2>2 DEF UsnInv
  <1> QED BY <1>1, <1>2

(* The state of the tailer is well formed: the USNs of what was reported   *)
(* are USNs of the journal, and the cursor never passes its end.           *)
THEOREM UsnTypes == Spec => []TypeOK
  <1>1. UsnInv => TypeOK
    <2>1. UsnInv => reported \in Seq([usn : Nat, reason : {"HardLinkChange", "DataOverwrite"}])
      <3>1. Changes \subseteq [usn : Nat, reason : {"HardLinkChange", "DataOverwrite"}]
        BY DEF Changes
      <3> QED BY <3>1, SeqMonotonic DEF UsnInv, CursorInv
    <2> QED BY <2>1 DEF TypeOK, UsnInv, HandleInv, Shape, Scanners, CursorInv
  <1> QED BY UsnInitially, UsnKept, <1>1, PTL DEF Spec

-----------------------------------------------------------------------------
(* The refinement.                                                         *)
Pending == IF IsOpen THEN EntriesIn(scanner.cursor, NextUsn) ELSE <<>>

(* What a read delivers is the front of what is pending.                   *)
LEMMA SplitConcat ==
    ASSUME NEW R, NEW s \in Seq(R), NEW t \in Seq(R), NEW p, p = s \o t, s # <<>>
    PROVE  /\ Len(s) \in 1 .. Len(p)
           /\ SubSeq(p, 1, Len(s)) = s
           /\ SubSeq(p, Len(s) + 1, Len(p)) = t
  <1>1. /\ Len(s) \in Nat \ {0} /\ Len(t) \in Nat
        /\ p \in Seq(R) /\ Len(p) = Len(s) + Len(t)
    BY EmptySeq, LenProperties, ConcatProperties
  <1>2. SubSeq(p, 1, Len(s)) = s
    <2>1. SubSeq(s \o t, 1, Len(s)) = SubSeq(s, 1, Len(s))
      BY <1>1, SubSeqOfConcat1
    <2>2. SubSeq(s, 1, Len(s)) = s
      BY SubSeqFull
    <2> QED BY <2>1, <2>2
  <1>3. SubSeq(p, Len(s) + 1, Len(p)) = t
    <2>1. CASE t = <<>>
      <3>1. Len(t) = 0
        BY <2>1, EmptySeq
      <3>2. Len(p) < Len(s) + 1 /\ Len(p) \in Int /\ Len(s) + 1 \in Int
        BY <1>1, <3>1
      <3> QED BY <2>1, <3>2, SubSeqEmpty
    <2>2. CASE t # <<>>
      <3>1. Len(t) \in Nat \ {0}
        BY <2>2, EmptySeq
      <3>2. /\ Len(s) + 1 \in Len(s) + 1 .. Len(s) + Len(t)
            /\ Len(s) + Len(t) \in Len(s) + 1 .. Len(s) + Len(t)
            /\ (Len(s) + 1) - Len(s) = 1 /\ (Len(s) + Len(t)) - Len(s) = Len(t)
        BY <1>1, <3>1
      <3>3. SubSeq(s \o t, Len(s) + 1, Len(s) + Len(t))
              = SubSeq(t, (Len(s) + 1) - Len(s), (Len(s) + Len(t)) - Len(s))
        BY <3>2, SubSeqOfConcat2
      <3>4. SubSeq(t, 1, Len(t)) = t
        BY SubSeqFull
      <3> QED BY <1>1, <3>2, <3>3, <3>4
    <2> QED BY <2>1, <2>2
  <1> QED BY <1>1, <1>2, <1>3

LEMMA FeedInitially == Init => Pending = <<>> /\ reported = <<>>
  BY DEF Init, Closed, Pending, IsOpen

(* A relevant record is a change that happens; any other is a stutter.     *)
LEMMA ChangeHappens ==
    ASSUME UsnInv, NEW r \in Records, Change(r)
    PROVE  \/ \E c \in Changes : Pending' = Append(Pending, c) /\ reported' = reported
           \/ Pending' = Pending /\ reported' = reported
  <1>1. UNCHANGED <<scanner, reported>>
    BY DEF Change
  <1>2. CASE ~IsOpen
    BY <1>1, <1>2 DEF IsOpen, Pending
  <1>3. CASE IsOpen
    <2>1. PICK n \in Nat : n = NextUsn
      BY ReadEndsAreNumbers DEF UsnInv, HandleInv
    <2>2. PICK c \in 1 .. n : c = scanner.cursor
      BY <1>3, <2>1 DEF UsnInv, CursorInv
    <2>3. /\ NextUsn' = n + 1
          /\ EntriesIn(c, n + 1)' =
                 IF Relevant(r)
                 THEN Append(EntriesIn(c, n), [usn |-> n, reason |-> Reason(r)])
                 ELSE EntriesIn(c, n)
      BY <2>1, EntriesGrow
    <2>4. Pending = EntriesIn(c, n)
      BY <1>3, <2>1, <2>2 DEF Pending
    <2>5. Pending' = EntriesIn(c, n + 1)'
      BY <1>1, <1>3, <2>2, <2>3 DEF Pending, IsOpen
    <2>6. Relevant(r) => [usn |-> n, reason |-> Reason(r)] \in Changes
      <3>1. n \in 1 .. MaxUsn
        BY <2>1, UsnBounds DEF Change, UsnInv, CursorInv, NextUsn
      <3> QED BY <3>1, RelevantIsReported DEF Changes
    <2> QED BY <1>1, <2>3, <2>4, <2>5, <2>6
  <1> QED BY <1>2, <1>3

LEMMA ReadDelivers ==
    ASSUME UsnInv, ScanReads
    PROVE  \/ \E n \in 1 .. Len(Pending) :
                 /\ reported' = reported \o SubSeq(Pending, 1, n)
                 /\ Pending' = SubSeq(Pending, n + 1, Len(Pending))
           \/ Pending' = Pending /\ reported' = reported
  <1>1. PICK n \in Nat : n = NextUsn
    BY ReadEndsAreNumbers DEF UsnInv, HandleInv
  <1>2. PICK v \in scanner.cursor .. NextUsn :
            /\ IsOpen /\ IsOpen' /\ scanner.cursor \in 1 .. NextUsn
            /\ v \in 1 .. NextUsn /\ scanner'.cursor = v
            /\ reported' = reported \o EntriesIn(scanner.cursor, v)
            /\ UNCHANGED <<journal, first>>
    BY OneRead
  <1>3. PICK c \in 1 .. n : c = scanner.cursor
    BY <1>1, <1>2
  <1>4. v \in c .. n /\ v \in 1 .. n /\ n \in v .. n /\ n \in c .. n /\ v \in Nat /\ v <= n
    BY <1>1, <1>2, <1>3
  <1> DEFINE s == EntriesIn(c, v)
             t == EntriesIn(v, n)
  <1>5. Pending = s \o t
    BY <1>1, <1>2, <1>3, <1>4, EntriesJoin DEF Pending
  <1>6. Pending' = t
    <2>1. EntriesIn(v, n)' = EntriesIn(v, n)
      BY <1>2, <1>4, EntriesKept
    <2>2. NextUsn' = n
      BY <1>1, <1>2 DEF NextUsn
    <2> QED BY <1>2, <2>1, <2>2 DEF Pending
  <1>7. s \in Seq(Changes) /\ t \in Seq(Changes)
    BY <1>1, <1>4, EntriesTyped
  <1>8. reported' = reported \o s /\ reported \in Seq(Changes)
    BY <1>2, <1>3 DEF UsnInv, CursorInv
  <1> HIDE DEF s, t
  <1>9. CASE s = <<>>
    BY <1>5, <1>6, <1>7, <1>8, <1>9, ConcatEmptySeq
  <1>10. CASE s # <<>>
    <2>1. /\ Len(s) \in 1 .. Len(Pending)
          /\ SubSeq(Pending, 1, Len(s)) = s
          /\ SubSeq(Pending, Len(s) + 1, Len(Pending)) = t
      BY <1>5, <1>7, <1>10, SplitConcat
    <2> QED BY <1>6, <1>8, <2>1
  <1> QED BY <1>9, <1>10
LEMMA PendingKept ==
    ASSUME UsnInv, UNCHANGED journal, IsOpen, IsOpen', scanner'.cursor = scanner.cursor
    PROVE  Pending' = Pending
  <1>1. PICK n \in Nat : n = NextUsn
    BY ReadEndsAreNumbers DEF UsnInv, HandleInv
  <1>2. PICK c \in 1 .. n : c = scanner.cursor
    BY <1>1 DEF UsnInv, CursorInv
  <1>3. EntriesIn(c, n)' = EntriesIn(c, n)
    BY EntriesKept
  <1>4. NextUsn' = n
    BY <1>1 DEF NextUsn
  <1> QED BY <1>1, <1>2, <1>3, <1>4 DEF Pending

LEMMA OthersAreSilent ==
    ASSUME UsnInv, Overwrite \/ Opening \/ ScanOpens \/ ScanFails
    PROVE  Pending' = Pending /\ reported' = reported
  <1>1. CASE Overwrite
    <2>1. CASE IsOpen
      BY <1>1, <2>1, PendingKept DEF Overwrite, IsOpen
    <2>2. CASE ~IsOpen
      BY <1>1, <2>2 DEF Overwrite, Pending, IsOpen
    <2> QED BY <1>1, <2>1, <2>2 DEF Overwrite
  <1>2. CASE OpenQueries
    <2>1. NextUsn \in Nat /\ ~IsOpen /\ IsOpen'
      BY <1>2, ReadEndsAreNumbers DEF OpenQueries, UsnInv, HandleInv, IsOpen
    <2>2. scanner'.cursor = NextUsn /\ NextUsn' = NextUsn
      BY <1>2 DEF OpenQueries, NextUsn
    <2>3. PICK n \in Nat : n = NextUsn
      BY <2>1
    <2>4. EntriesIn(n, n)' = EntriesIn(n, n)
      BY <2>3, <1>2, EntriesKept DEF OpenQueries
    <2>5. Pending' = EntriesIn(n, n)
      BY <2>1, <2>2, <2>3, <2>4 DEF Pending
    <2> QED BY <1>2, <2>1, <2>5, NoEntries DEF OpenQueries, Pending
  <1>3. CASE OpenFails
    BY <1>3 DEF OpenFails, Closed, Pending, IsOpen
  <1>4. CASE ScanOpens \/ ScanFails
    <2>1. IsOpen /\ IsOpen' /\ scanner'.cursor = scanner.cursor
      BY <1>4 DEF ScanOpens, ScanFails, IsOpen, UsnInv, HandleInv, Shape, Scanners
    <2> QED BY <1>4, <2>1, PendingKept DEF ScanOpens, ScanFails
  <1> QED BY <1>1, <1>2, <1>3, <1>4 DEF Opening

LEMMA FeedStep ==
    ASSUME UsnInv, [Next]_usnVars
    PROVE  [Feed!Next]_(Feed!feed)
  <1> USE DEF Changes
  <1>1. CASE \E r \in Records : Change(r)
    BY <1>1, ChangeHappens DEF Feed!Next, Feed!Happen, Feed!feed, Pending
  <1>2. CASE Overwrite \/ Opening \/ ScanOpens \/ ScanFails
    BY <1>2, OthersAreSilent DEF Feed!feed, Pending
  <1>3. CASE ScanReads
    BY <1>3, ReadDelivers DEF Feed!Next, Feed!Deliver, Feed!feed, Pending
  <1>4. CASE OpenVolume
    <2>1. ~IsOpen' /\ reported' = <<>>
      BY <1>4 DEF OpenVolume, Closed, IsOpen
    <2> QED BY <2>1 DEF Feed!Next, Feed!Reopen
  <1>5. CASE UNCHANGED usnVars
    BY <1>5 DEF usnVars, Feed!feed, EntriesIn, Entry, IsOpen, NextUsn
  <1> QED BY <1>1, <1>2, <1>3, <1>4, <1>5 DEF Next, Scanning

(* scan_delta delivers every relevant change since open once and in order, *)
(* for every journal, every buffer and every size of the backlog, as the   *)
(* changes are written and the oldest are overwritten.                     *)
THEOREM DeltasAreExact == Spec => ExactDelta
  <1>1. Init => Feed!Init
    BY FeedInitially DEF Feed!Init, Pending
  <1> QED BY <1>1, UsnInitially, UsnKept, FeedStep, PTL DEF Spec, ExactDelta, Feed!Spec
=============================================================================
