--------------------------- MODULE WaterfallProofs ---------------------------
(***************************************************************************)
(* What the ingest waterfall links and what it skips, for every workspace, *)
(* every cache size and any number of runs and user actions; and what a    *)
(* run has done when no user acts before its end.                          *)
(***************************************************************************)
EXTENDS Waterfall, FiniteSetTheorems, TLAPS

-----------------------------------------------------------------------------
(* File tables: what each change of one does to the names it holds.        *)
Sound(F) ==
    /\ F \in [Inodes -> Files]
    /\ \A i \in Inodes : F[i].names = {} <=> F[i] = Free
    /\ \A i \in Inodes : F[i].names # {} => F[i].data \in Contents
    /\ \A i, j \in Inodes : \A p \in F[i].names : p \in F[j].names => i = j

Unclaimed(F, p) == \A i \in Inodes : p \notin F[i].names
SlotName(F, i)  == \E c \in Contents, n \in 0 .. MaxSlot : Obj(c, n) \in F[i].names
Admitted(f)     == \E v \in Visits : v[1] = f /\ Classify(v[2]) = "Whitelisted"

LEMMA NamesDiffer ==
    /\ \A f \in Paths : Ws(f) \in Names /\ Lnk(f) \in Names
    /\ \A c \in Contents, n \in 0 .. MaxSlot : Obj(c, n) \in Names
    /\ 0 \in 0 .. MaxSlot /\ 1 \in 0 .. MaxSlot
    /\ \A f, g \in Paths : Ws(f) # Lnk(g)
    /\ \A f \in Paths : \A c, n : Ws(f) # Obj(c, n) /\ Lnk(f) # Obj(c, n)
    /\ \A f, g \in Paths : (Ws(f) = Ws(g) => f = g) /\ (Lnk(f) = Lnk(g) => f = g)
    /\ \A c, d, n, k : Obj(c, n) = Obj(d, k) => c = d /\ n = k
  BY SlotsTakeALink DEF Names, Ws, Lnk, Obj

LEMMA UnlinkedIsSound ==
    ASSUME NEW F, Sound(F), NEW p
    PROVE  /\ Sound(Unlinked(F, p))
           /\ \A i \in Inodes :
                /\ Unlinked(F, p)[i].names = F[i].names \ {p}
                /\ Unlinked(F, p)[i].names # {} =>
                      /\ Unlinked(F, p)[i].data = F[i].data
                      /\ Unlinked(F, p)[i].mode = F[i].mode
  <1> DEFINE G == Unlinked(F, p)
  <1>1. ASSUME NEW i \in Inodes
        PROVE  /\ G[i] \in Files
               /\ G[i].names = F[i].names \ {p}
               /\ G[i].names = {} <=> G[i] = Free
               /\ G[i].names # {} => G[i].data = F[i].data /\ G[i].mode = F[i].mode
    <2>1. F[i] \in Files
      BY DEF Sound
    <2>2. CASE F[i].names \subseteq {p}
      <3>1. G[i] = Free
        BY <2>2 DEF Unlinked
      <3>2. Free \in Files /\ Free.names = {}
        BY DEF Free, Files, Modes
      <3> QED BY <2>2, <3>1, <3>2
    <2>3. CASE ~(F[i].names \subseteq {p})
      <3>1. G[i] = [F[i] EXCEPT !.names = @ \ {p}]
        BY <2>3 DEF Unlinked
      <3>2. /\ G[i] \in Files
            /\ G[i].names = F[i].names \ {p}
            /\ G[i].data = F[i].data /\ G[i].mode = F[i].mode
        BY <2>1, <3>1 DEF Files
      <3> QED BY <2>3, <3>2 DEF Free
    <2> QED BY <2>2, <2>3
  <1>2. G \in [Inodes -> Files]
    BY <1>1 DEF Unlinked
  <1> HIDE DEF G
  <1>3. Sound(G)
    BY <1>1, <1>2 DEF Sound
  <1> QED BY <1>1, <1>3 DEF G

LEMMA NewFileIsSound ==
    ASSUME NEW F, Sound(F), NEW i \in Inodes, F[i].names = {},
           NEW r \in Files, r.names # {}, r.data \in Contents,
           \A p \in r.names : Unclaimed(F, p)
    PROVE  /\ Sound([F EXCEPT ![i] = r])
           /\ [F EXCEPT ![i] = r][i] = r
           /\ \A j \in Inodes \ {i} : [F EXCEPT ![i] = r][j] = F[j]
  <1> DEFINE G == [F EXCEPT ![i] = r]
  <1>1. G[i] = r /\ \A j \in Inodes \ {i} : G[j] = F[j]
    BY DEF Sound
  <1>2. G \in [Inodes -> Files]
    BY DEF Sound
  <1>3. r # Free
    BY DEF Free
  <1> HIDE DEF G
  <1>4. Sound(G)
    BY <1>1, <1>2, <1>3 DEF Sound, Unclaimed
  <1> QED BY <1>1, <1>4 DEF G

LEMMA ModeChangeIsSound ==
    ASSUME NEW F, Sound(F), NEW i \in Inodes, F[i].names # {}, NEW mode \in Modes
    PROVE  /\ Sound([F EXCEPT ![i].mode = mode])
           /\ \A j \in Inodes :
                /\ [F EXCEPT ![i].mode = mode][j].names = F[j].names
                /\ [F EXCEPT ![i].mode = mode][j].data = F[j].data
                /\ [F EXCEPT ![i].mode = mode][j].mode = IF j = i THEN mode ELSE F[j].mode
  <1> DEFINE G == [F EXCEPT ![i].mode = mode]
  <1>1. \A j \in Inodes \ {i} : G[j] = F[j]
    BY DEF Sound
  <1>2. F[i] \in Files /\ G[i] = [F[i] EXCEPT !.mode = mode]
    BY DEF Sound
  <1>3. /\ G[i] \in Files /\ G[i].names = F[i].names
        /\ G[i].data = F[i].data /\ G[i].mode = mode
    BY <1>2 DEF Files
  <1>4. G \in [Inodes -> Files]
    BY <1>3 DEF Sound
  <1>5. G[i] # Free
    BY <1>3 DEF Free
  <1> HIDE DEF G
  <1>6. Sound(G)
    BY <1>1, <1>3, <1>4, <1>5 DEF Sound
  <1> QED BY <1>1, <1>3, <1>6 DEF G

LEMMA NewNameIsSound ==
    ASSUME NEW F, Sound(F), NEW i \in Inodes, F[i].names # {},
           NEW p \in Names, Unclaimed(F, p)
    PROVE  /\ Sound([F EXCEPT ![i].names = @ \cup {p}])
           /\ \A j \in Inodes :
                /\ [F EXCEPT ![i].names = @ \cup {p}][j].names =
                      IF j = i THEN F[j].names \cup {p} ELSE F[j].names
                /\ [F EXCEPT ![i].names = @ \cup {p}][j].data = F[j].data
                /\ [F EXCEPT ![i].names = @ \cup {p}][j].mode = F[j].mode
  <1> DEFINE G == [F EXCEPT ![i].names = @ \cup {p}]
  <1>1. \A j \in Inodes \ {i} : G[j] = F[j]
    BY DEF Sound
  <1>2. F[i] \in Files /\ G[i] = [F[i] EXCEPT !.names = @ \cup {p}]
    BY DEF Sound
  <1>3. /\ G[i] \in Files /\ G[i].names = F[i].names \cup {p}
        /\ G[i].data = F[i].data /\ G[i].mode = F[i].mode
    BY <1>2 DEF Files
  <1>4. G \in [Inodes -> Files]
    BY <1>3 DEF Sound
  <1>5. G[i] # Free
    BY <1>3 DEF Free
  <1> HIDE DEF G
  <1>6. Sound(G)
    BY <1>1, <1>3, <1>4, <1>5 DEF Sound, Unclaimed
  <1> QED BY <1>1, <1>3, <1>6 DEF G
-----------------------------------------------------------------------------
(* What the store's names say about the rest of a file table: only slots   *)
(* have several names; the workspace names of a slot belong to files that  *)
(* some visit whitelists; and a content that has a slot has the first one. *)
OnlySlotsAreShared(F) == \A i \in Inodes : SlotName(F, i) \/ \E p : F[i].names \subseteq {p}
WhitelistedInSlots(F) == \A i \in Inodes, f \in Paths :
    SlotName(F, i) /\ Ws(f) \in F[i].names => Admitted(f)
FirstSlots(F) == \A i \in Inodes, c \in Contents, n \in 0 .. MaxSlot :
    Obj(c, n) \in F[i].names => \E j \in Inodes : Obj(c, 0) \in F[j].names
StoreOK(F) == OnlySlotsAreShared(F) /\ WhitelistedInSlots(F) /\ FirstSlots(F)

(* A run is at a file that the visit it came by whitelists; when it links, *)
(* the content has its first slot.                                         *)
RunOK ==
    /\ run \in Runs /\ upsets \in 0 .. MaxUpsets
    /\ run.pc \notin {"idle", "walk"} =>
          run.cur \in Paths /\ Admitted(run.cur) /\ run.ino \in Inodes
    /\ run.pc \in {"publish", "link"} => run.dig \in Contents
    /\ run.pc = "link" => \E i \in Inodes : Obj(run.dig, 0) \in file[i].names

WaterfallInv == Sound(file) /\ StoreOK(file) /\ RunOK

LEMMA NameLeads ==
    ASSUME Sound(file), NEW i \in Inodes, NEW p \in file[i].names
    PROVE  Bound(p) /\ Ino(p) = i /\ Data(p) = file[i].data
  <1>1. Bound(p) /\ Ino(p) = i
    BY DEF Sound, Bound, Ino, InoIn
  <1> QED BY <1>1 DEF Data

LEMMA NameLeadsNext ==
    ASSUME Sound(file)', NEW i \in Inodes, NEW p, p \in file'[i].names
    PROVE  Bound(p)' /\ Ino(p)' = i /\ Data(p)' = file'[i].data
  <1>1. Bound(p)' /\ Ino(p)' = i
    BY DEF Sound, Bound, Ino, InoIn
  <1> QED BY <1>1 DEF Data

LEMMA BoundNames ==
    ASSUME Sound(file), NEW p, Bound(p)
    PROVE  Ino(p) \in Inodes /\ p \in file[Ino(p)].names /\ Data(p) \in Contents
  <1>1. Ino(p) \in Inodes /\ p \in file[Ino(p)].names
    BY DEF Bound, Ino, InoIn
  <1> QED BY <1>1 DEF Sound, Data

LEMMA InvImpliesProperties ==
    ASSUME WaterfallInv
    PROVE  TypeOK /\ NeverProhibited
  <1>1. TypeOK
    BY DEF WaterfallInv, Sound, RunOK, TypeOK
  <1>2. ASSUME NEW f \in Paths, IsVolatile(f), Linked(f)
        PROVE  \E v \in Visits : v[1] = f /\ IsInsideNodeModules(v[2])
    <2>1. Ino(Ws(f)) \in Inodes /\ Ws(f) \in file[Ino(Ws(f))].names
      BY <1>2, BoundNames DEF Linked, WaterfallInv
    <2>2. Admitted(f)
      BY <1>2, <2>1 DEF Linked, Slots, SlotName, WaterfallInv, StoreOK, WhitelistedInSlots
    <2>3. PICK v \in Visits : v[1] = f /\ Classify(v[2]) = "Whitelisted"
      BY <2>2 DEF Admitted
    <2>4. v[2].file = f.file /\ v[2].ext = f.ext
      BY <2>3, AliasesKeepNames DEF Visits
    <2>5. v[2].ext \notin Immutable /\ IsVolatile(v[2])
      BY <1>2, <2>4, ExtensionsAreOfNames DEF IsVolatile, Volatile, Immutable
    <2>6. ~IsInsideNodeModules(v[2]) => Classify(v[2]) = "Prohibited"
      BY <2>5 DEF Classify
    <2> QED BY <2>3, <2>6
  <1> QED BY <1>1, <1>2 DEF NeverProhibited

-----------------------------------------------------------------------------
(* A change that leaves the slots their names, gives names to slots only,  *)
(* and workspace names only of admitted files.                             *)
LEMMA StoreKept ==
    ASSUME NEW F, NEW G, StoreOK(F),
           \A i \in Inodes, c \in Contents, n \in 0 .. MaxSlot :
               Obj(c, n) \in G[i].names <=> Obj(c, n) \in F[i].names,
           \A i \in Inodes : SlotName(F, i) \/ G[i].names \subseteq F[i].names,
           \A i \in Inodes, f \in Paths :
               SlotName(F, i) /\ Ws(f) \in G[i].names => Ws(f) \in F[i].names \/ Admitted(f)
    PROVE  StoreOK(G) /\ \A i \in Inodes : SlotName(G, i) <=> SlotName(F, i)
  <1>1. \A i \in Inodes : SlotName(G, i) <=> SlotName(F, i)
    BY DEF SlotName
  <1>2. OnlySlotsAreShared(G)
    BY <1>1 DEF StoreOK, OnlySlotsAreShared
  <1>3. WhitelistedInSlots(G)
    BY <1>1 DEF StoreOK, WhitelistedInSlots
  <1>4. FirstSlots(G)
    BY NamesDiffer DEF StoreOK, FirstSlots
  <1> QED BY <1>1, <1>2, <1>3, <1>4 DEF StoreOK

(* A workspace name that goes leaves the store as it was.                  *)
LEMMA UnlinkedStore ==
    ASSUME NEW F, Sound(F), StoreOK(F), NEW f \in Paths
    PROVE  StoreOK(Unlinked(F, Ws(f)))
  <1> DEFINE G == Unlinked(F, Ws(f))
  <1>1. \A i \in Inodes : G[i].names = F[i].names \ {Ws(f)}
    BY UnlinkedIsSound
  <1> HIDE DEF G
  <1>2. \A i \in Inodes, c \in Contents, n \in 0 .. MaxSlot :
            Obj(c, n) \in G[i].names <=> Obj(c, n) \in F[i].names
    BY <1>1, NamesDiffer
  <1>3. StoreOK(G)
    BY <1>1, <1>2, StoreKept
  <1> QED BY <1>3 DEF G

(* A new file is a workspace name of no slot, or a slot that is the first  *)
(* of its content or follows it.                                           *)
LEMMA NewFileStore ==
    ASSUME NEW F, Sound(F), StoreOK(F), NEW i \in Inodes, F[i].names = {},
           NEW r \in Files, r.data \in Contents,
           \/ \E f \in Paths : r.names = {Ws(f)}
           \/ \E c \in Contents, n \in 0 .. MaxSlot :
                /\ r.names = {Obj(c, n)}
                /\ n = 0 \/ \E j \in Inodes : Obj(c, 0) \in F[j].names,
           \A p \in r.names : Unclaimed(F, p)
    PROVE  /\ Sound([F EXCEPT ![i] = r]) /\ StoreOK([F EXCEPT ![i] = r])
           /\ [F EXCEPT ![i] = r][i] = r
           /\ \A j \in Inodes \ {i} : [F EXCEPT ![i] = r][j] = F[j]
  <1> DEFINE G == [F EXCEPT ![i] = r]
  <1>0. r.names # {}
    OBVIOUS
  <1>1. Sound(G) /\ G[i] = r /\ \A j \in Inodes \ {i} : G[j] = F[j]
    BY <1>0, NewFileIsSound
  <1> HIDE DEF G
  <1>2. \A j \in Inodes \ {i} : SlotName(G, j) <=> SlotName(F, j)
    BY <1>1 DEF SlotName
  <1>3. \A f \in Paths : SlotName(G, i) => Ws(f) \notin r.names
    BY <1>1, NamesDiffer DEF SlotName
  <1>4. OnlySlotsAreShared(G)
    <2>1. \E p : G[i].names \subseteq {p}
      BY <1>1
    <2> QED BY <1>1, <1>2, <2>1 DEF StoreOK, OnlySlotsAreShared
  <1>5. WhitelistedInSlots(G)
    BY <1>1, <1>2, <1>3 DEF StoreOK, WhitelistedInSlots
  <1>6. FirstSlots(G)
    <2> SUFFICES ASSUME NEW j \in Inodes, NEW c \in Contents, NEW n \in 0 .. MaxSlot,
                        Obj(c, n) \in G[j].names
                 PROVE  \E k \in Inodes : Obj(c, 0) \in G[k].names
      BY DEF FirstSlots
    <2>1. \A k \in Inodes : Obj(c, 0) \in F[k].names => Obj(c, 0) \in G[k].names
      BY <1>1
    <2>2. CASE j # i
      BY <1>1, <2>1, <2>2 DEF StoreOK, FirstSlots
    <2>3. CASE j = i
      <3>1. n = 0 \/ \E k \in Inodes : Obj(c, 0) \in F[k].names
        BY <1>1, <2>3, NamesDiffer
      <3> QED BY <2>1, <2>3, <3>1
    <2> QED BY <2>2, <2>3
  <1> QED BY <1>1, <1>4, <1>5, <1>6 DEF StoreOK, G

LEMMA EnforcedModes ==
    \A exec \in BOOLEAN :
        Enforced(exec) \in Modes /\ ReadOnly(Enforced(exec)) /\ Executable(Enforced(exec)) = exec
  BY DEF Enforced, Modes, ReadOnly, Executable

LEMMA SavedIsAFile ==
    ASSUME NEW f \in Paths, NEW c \in Contents
    PROVE  /\ Saved(f, c) \in Files /\ Saved(f, c).names = {Ws(f)}
           /\ Saved(f, c).data = c /\ Saved(f, c).mode \in {"755", "644"}
  BY NamesDiffer DEF Saved, Files, Modes

(* The files of the workspace have numbers of their own to begin with.     *)
LEMMA NumberingIsInjective ==
    /\ \A i \in DOMAIN Numbering : Numbering[i] \in Paths
    /\ \A i, j \in DOMAIN Numbering : Numbering[i] = Numbering[j] => i = j
  <1> DEFINE n == Cardinality(Paths)
             S == {s \in [1 .. n -> Paths] : \A f \in Paths : \E i \in DOMAIN s : s[i] = f}
  <1>1. n \in Nat /\ ExistsBijection(1 .. n, Paths)
    BY FS_CardinalityType, PartsOfTheWorkspace
  <1>2. \E s \in [1 .. n -> Paths] : \A f \in Paths : \E i \in DOMAIN s : s[i] = f
    BY <1>1 DEF ExistsBijection, Bijection, Surjection
  <1>3. /\ Numbering \in [1 .. n -> Paths]
        /\ \A f \in Paths : \E i \in DOMAIN Numbering : Numbering[i] = f
    BY <1>2 DEF Numbering
  <1>4. Numbering \in Surjection(1 .. n, Paths)
    BY <1>3 DEF Surjection
  <1>5. IsFiniteSet(1 .. n) /\ Cardinality(1 .. n) = Cardinality(Paths)
    BY <1>1, FS_Interval
  <1>6. Numbering \in Injection(1 .. n, Paths)
    BY <1>4, <1>5, FS_SurjSameCardinalityImpliesInj
  <1> QED BY <1>3, <1>6 DEF Injection, IsInjective

LEMMA WaterfallStart == Init => WaterfallInv
  <1> SUFFICES ASSUME Init PROVE WaterfallInv
    OBVIOUS
  <1>1. PICK data \in [Paths -> Contents \cup {None}] :
            file = [i \in Inodes |->
              IF i \in DOMAIN Numbering /\ data[Numbering[i]] # None
              THEN Saved(Numbering[i], data[Numbering[i]]) ELSE Free]
    BY DEF Init
  <1>2. ASSUME NEW i \in Inodes
        PROVE  /\ file[i] \in Files
               /\ \/ file[i] = Free /\ file[i].names = {}
                  \/ /\ i \in DOMAIN Numbering /\ file[i].names = {Ws(Numbering[i])}
                     /\ file[i].data \in Contents
    <2>1. CASE i \in DOMAIN Numbering /\ data[Numbering[i]] # None
      <3>1. Numbering[i] \in Paths /\ data[Numbering[i]] \in Contents
        BY <2>1, NumberingIsInjective
      <3> QED BY <1>1, <2>1, <3>1, SavedIsAFile
    <2>2. CASE ~(i \in DOMAIN Numbering /\ data[Numbering[i]] # None)
      <3>1. file[i] = Free
        BY <1>1, <2>2
      <3>2. Free \in Files /\ Free.names = {}
        BY DEF Free, Files, Modes
      <3> QED BY <3>1, <3>2
    <2> QED BY <2>1, <2>2
  <1>3. Sound(file)
    <2>1. file \in [Inodes -> Files]
      BY <1>1, <1>2
    <2>2. Free.names = {} /\ \A i \in DOMAIN Numbering : {Ws(Numbering[i])} # {}
      BY DEF Free
    <2>3. \A i, j \in Inodes : \A p \in file[i].names : p \in file[j].names => i = j
      BY <1>2, NumberingIsInjective, NamesDiffer
    <2>4. \A i \in Inodes : file[i].names = {} <=> file[i] = Free
      BY <1>2, <2>2
    <2>5. \A i \in Inodes : file[i].names # {} => file[i].data \in Contents
      BY <1>2
    <2> QED BY <2>1, <2>3, <2>4, <2>5 DEF Sound
  <1>4. \A i \in Inodes : ~SlotName(file, i)
    BY <1>2, NumberingIsInjective, NamesDiffer DEF SlotName
  <1>5. StoreOK(file)
    <2>1. \A i \in Inodes : \E p : file[i].names \subseteq {p}
      BY <1>2
    <2> QED BY <1>4, <2>1
            DEF StoreOK, OnlySlotsAreShared, WhitelistedInSlots, FirstSlots, SlotName
  <1>6. RunOK
    BY UpsetsAreBounded DEF Init, NoRun, Runs, RunOK
  <1> QED BY <1>3, <1>5, <1>6 DEF WaterfallInv

(* Users.  What they do takes no name from the store.                      *)
LEMMA UserStepKeepsInv ==
    ASSUME WaterfallInv, UserStep, upsets' \in 0 .. MaxUpsets
    PROVE  WaterfallInv'
  <1>0. PICK f \in Paths : (\E c \in Contents : Save(f, c)) \/ Delete(f)
    BY DEF UserStep
  <1> DEFINE U == Unlinked(file, Ws(f))
  <1>1. Sound(file) /\ StoreOK(file) /\ RunOK
    BY DEF WaterfallInv
  <1>2. /\ Sound(U) /\ StoreOK(U)
        /\ \A i \in Inodes : U[i].names = file[i].names \ {Ws(f)}
    BY <1>1, UnlinkedIsSound, UnlinkedStore
  <1> HIDE DEF U
  <1>3. /\ run' \in Runs /\ run'.pc = run.pc
        /\ run'.cur = run.cur /\ run'.ino = run.ino /\ run'.dig = run.dig
    <2>1. run' = [run EXCEPT !.quiet = FALSE]
      BY <1>0 DEF Save, Delete, Disturbed
    <2> QED BY <1>1, <2>1 DEF RunOK, Runs
  <1>4. ASSUME \A i \in Inodes, c \in Contents :
                   Obj(c, 0) \in file[i].names => Obj(c, 0) \in file'[i].names
        PROVE  RunOK'
    BY <1>1, <1>3, <1>4 DEF RunOK
  <1>5. \A i \in Inodes, c \in Contents : Obj(c, 0) \in file[i].names => Obj(c, 0) \in U[i].names
    BY <1>2, NamesDiffer
  <1>6. CASE Delete(f)
    <2>1. file' = U
      BY <1>6 DEF Delete, U
    <2> QED BY <1>2, <1>4, <1>5, <2>1 DEF WaterfallInv
  <1>7. CASE \E c \in Contents : Save(f, c)
    <2>1. PICK c \in Contents, i \in NewNumbers : file' = [U EXCEPT ![i] = Saved(f, c)]
      BY <1>7 DEF Save, U
    <2>2. i \in Inodes /\ U[i].names = {}
      BY <1>2 DEF NewNumbers, Unused
    <2> DEFINE r == Saved(f, c)
    <2>3. /\ r \in Files /\ r.data \in Contents /\ r.names = {Ws(f)}
          /\ \A p \in r.names : Unclaimed(U, p)
      BY <1>2, SavedIsAFile DEF Unclaimed
    <2> HIDE DEF r
    <2>4. /\ Sound([U EXCEPT ![i] = r]) /\ StoreOK([U EXCEPT ![i] = r])
          /\ \A j \in Inodes \ {i} : [U EXCEPT ![i] = r][j] = U[j]
      BY <1>2, <2>2, <2>3, NewFileStore
    <2>5. file' = [U EXCEPT ![i] = r]
      BY <2>1 DEF r
    <2>6. \A j \in Inodes, d \in Contents :
              Obj(d, 0) \in file[j].names => Obj(d, 0) \in file'[j].names
      BY <1>5, <2>2, <2>4, <2>5
    <2> QED BY <1>4, <2>4, <2>5, <2>6 DEF WaterfallInv
  <1> QED BY <1>0, <1>6, <1>7

-----------------------------------------------------------------------------
(* The run.  A step that leaves a file behind, well or not.                *)
LEMMA Walking ==
    ASSUME RunOK, NextFile \/ GiveUp, upsets' \in 0 .. MaxUpsets
    PROVE  RunOK' /\ run'.pc = "walk" /\ run'.todo = run.todo /\ run'.known = run.known
  <1>1. run \in Runs
    BY DEF RunOK
  <1>2. run' \in Runs /\ run'.pc = "walk" /\ run'.todo = run.todo /\ run'.known = run.known
    BY <1>1 DEF NextFile, GiveUp, Runs
  <1> QED BY <1>2 DEF RunOK

LEMMA WalkSteps ==
    ASSUME WaterfallInv, upsets' \in 0 .. MaxUpsets,
           \/ \E dry \in BOOLEAN : Begin(dry)
           \/ \E v \in Visits : Bypass(v) \/ Admit(v) \/ Miss(v)
           \/ End \/ Fail \/ Kill
    PROVE  WaterfallInv'
  <1>1. Sound(file) /\ StoreOK(file) /\ RunOK /\ run \in Runs
    BY DEF WaterfallInv, RunOK
  <1>2. file' = file
    BY DEF Begin, Bypass, Admit, Miss, End, Fail, Kill
  <1>3. CASE \E dry \in BOOLEAN : Begin(dry)
    <2>1. PICK dry \in BOOLEAN :
            run' = [NoRun EXCEPT !.pc = "walk", !.todo = Visits, !.dry = dry, !.quiet = TRUE,
                                 !.known = {c \in Contents : Known(c)}]
      BY <1>3 DEF Begin
    <2>2. NoRun \in Runs
      BY DEF NoRun, Runs
    <2>3. run' \in Runs /\ run'.pc = "walk"
      BY <2>1, <2>2 DEF Runs
    <2> QED BY <1>1, <1>2, <2>3 DEF WaterfallInv, RunOK
  <1>4. CASE \E v \in Visits : Bypass(v) \/ Miss(v)
    <2>1. PICK v \in Visits : \/ run' = [run EXCEPT !.todo = @ \ {v}]
                             \/ run' = [run EXCEPT !.todo = @ \ {v}, !.quiet = FALSE]
      BY <1>4 DEF Bypass, Miss
    <2>3. run' \in Runs /\ run'.pc = run.pc
      <3>1. CASE run' = [run EXCEPT !.todo = @ \ {v}]
        BY <1>1, <3>1 DEF Runs
      <3>2. CASE run' = [run EXCEPT !.todo = @ \ {v}, !.quiet = FALSE]
        BY <1>1, <3>2 DEF Runs
      <3> QED BY <2>1, <3>1, <3>2
    <2>2. run.pc = "walk"
      BY <1>4 DEF Bypass, Miss, At
    <2> QED BY <1>1, <1>2, <2>2, <2>3 DEF WaterfallInv, RunOK
  <1>5. CASE \E v \in Visits : Admit(v)
    <2>1. PICK v \in Visits : Admit(v)
      BY <1>5
    <2>2. v[1] \in Paths
      BY AliasesKeepNames DEF Visits
    <2>3. Admitted(v[1]) /\ Ino(Ws(v[1])) \in Inodes
      BY <1>1, <2>1, BoundNames DEF Admit, Passes, MayBeLinked, Admitted
    <2>4. run' = [run EXCEPT !.pc = "evaluate", !.todo = @ \ {v}, !.cur = v[1],
                             !.ino = Ino(Ws(v[1]))]
      BY <2>1 DEF Admit
    <2>5. /\ run' \in Runs /\ run'.pc = "evaluate"
          /\ run'.cur = v[1] /\ run'.ino = Ino(Ws(v[1]))
      BY <1>1, <2>2, <2>3, <2>4 DEF Runs
    <2> QED BY <1>1, <1>2, <2>2, <2>3, <2>5 DEF WaterfallInv, RunOK
  <1>6. CASE End \/ Kill
    <2>1. NoRun \in Runs /\ NoRun.pc = "idle"
      BY DEF NoRun, Runs
    <2>2. run' = NoRun
      BY <1>6 DEF End, Kill
    <2> QED BY <1>1, <1>2, <2>1, <2>2 DEF WaterfallInv, RunOK
  <1>7. CASE Fail
    BY <1>1, <1>2, <1>7, Walking DEF Fail, WaterfallInv
  <1> QED BY <1>3, <1>4, <1>5, <1>6, <1>7

LEMMA ReadSteps ==
    ASSUME WaterfallInv, UNCHANGED upsets, Evaluate \/ Redigest
    PROVE  WaterfallInv'
  <1>1. Sound(file) /\ StoreOK(file) /\ RunOK /\ run \in Runs /\ upsets' \in 0 .. MaxUpsets
    BY DEF WaterfallInv, RunOK
  <1>2. /\ file' = file
        /\ run.cur \in Paths /\ Admitted(run.cur) /\ run.ino \in Inodes
    BY <1>1 DEF Evaluate, Redigest, At, RunOK
  <1> DEFINE d == Data(Ws(run.cur))
  <1>3. Bound(Ws(run.cur)) => d \in Contents
    BY <1>1, BoundNames
  <1>4. CASE NextFile
    BY <1>1, <1>2, <1>4, Walking DEF WaterfallInv
  <1>5. CASE \/ Goto("redigest")
             \/ run' = [run EXCEPT !.pc = "publish", !.dig = d] /\ d \in Contents
    <2>1. /\ run' \in Runs /\ run'.pc \in {"redigest", "publish"}
          /\ run'.cur = run.cur /\ run'.ino = run.ino
          /\ run'.pc = "publish" => run'.dig \in Contents
      BY <1>1, <1>5 DEF Goto, Runs
    <2> QED BY <1>1, <1>2, <2>1 DEF WaterfallInv, RunOK
  <1>6. ASSUME Bound(Ws(run.cur)), Known(d), NEW new \in CacheInode(run.ino),
               run' = IF run.dry
                      THEN [run EXCEPT !.pc = "walk", !.cur = None, !.ino = None,
                                       !.cache = new]
                      ELSE [run EXCEPT !.pc = "link", !.dig = d, !.cache = new]
        PROVE  WaterfallInv'
    <2>1. new \in SUBSET Inodes
      BY <1>1, <1>2, <1>6 DEF CacheInode, Runs
    <2>2. run' \in Runs
      BY <1>1, <1>3, <1>6, <2>1 DEF Runs
    <2>3. CASE run.dry
      <3>1. run'.pc = "walk"
        BY <1>1, <1>6, <2>3 DEF Runs
      <3> QED BY <1>1, <1>2, <2>2, <3>1 DEF WaterfallInv, RunOK
    <2>4. CASE ~run.dry
      <3>1. run'.pc = "link" /\ run'.cur = run.cur /\ run'.ino = run.ino /\ run'.dig = d
        BY <1>1, <1>6, <2>4 DEF Runs
      <3>2. \E i \in Inodes : Obj(d, 0) \in file[i].names
        BY <1>1, <1>3, <1>6, NamesDiffer DEF Known, Bound, StoreOK, FirstSlots
      <3>3. RunOK'
        BY <1>1, <1>2, <1>3, <1>6, <2>2, <3>1, <3>2 DEF RunOK
      <3> QED BY <1>1, <1>2, <3>3 DEF WaterfallInv
    <2> QED BY <2>3, <2>4
  <1>7. CASE Evaluate
    BY <1>4, <1>5, <1>6, <1>7 DEF Evaluate, Vanished, FullCasDigest
  <1>8. CASE Redigest
    <2>1. NextFile \/ (run' = [run EXCEPT !.pc = "publish", !.dig = d] /\ d \in Contents)
      BY <1>3, <1>8 DEF Redigest, Vanished, FullCasDigest
    <2> QED BY <1>4, <1>5, <2>1
  <1> QED BY <1>7, <1>8

-----------------------------------------------------------------------------
(* Publishing and acquiring a slot make at most one file, and it is a slot *)
(* of that content.                                                        *)
OneSlotMore(F, G, c) == \E k \in Inodes, n \in 0 .. MaxSlot :
    /\ F[k].names = {} => G[k].names \subseteq {Obj(c, n)}
    /\ \A i \in Inodes : F[i].names # {} \/ i # k => G[i] = F[i]

LEMMA AcquireIsSound ==
    ASSUME WaterfallInv, NEW c \in Contents, HasRoom(c), Bound(Obj(c, 0)),
           NEW F \in AfterAcquire(c)
    PROVE  /\ Sound(F) /\ StoreOK(F) /\ OneSlotMore(file, F, c)
           /\ Acquired(c) \in 0 .. MaxSlot
           /\ \E m \in Inodes : Obj(c, Acquired(c)) \in F[m].names
                                /\ m = InoIn(F, Obj(c, Acquired(c)))
  <1> DEFINE n == Acquired(c)
  <1>1. Sound(file) /\ StoreOK(file)
    BY DEF WaterfallInv
  <1>2. n \in 0 .. MaxSlot /\ Takes(c, n)
    BY DEF HasRoom, Acquired
  <1> HIDE DEF n
  <1>3. CASE n = 0 \/ Bound(Obj(c, n))
    <2>1. F = file
      BY <1>3 DEF AfterAcquire, n
    <2>2. Ino(Obj(c, n)) \in Inodes /\ Obj(c, n) \in F[Ino(Obj(c, n))].names
      BY <1>1, <1>3, <2>1, BoundNames
    <2>3. OneSlotMore(file, F, c)
      BY <2>1, <2>2, <1>2 DEF OneSlotMore
    <2> QED BY <1>1, <1>2, <2>1, <2>2, <2>3 DEF Ino, n
  <1>4. CASE n # 0 /\ ~Bound(Obj(c, n))
    <2> DEFINE b == Ino(Obj(c, n - 1))
               r == [file[b] EXCEPT !.names = {Obj(c, n)}]
    <2>1. PICK i \in NewNumbers : F = [file EXCEPT ![i] = r]
      BY <1>4 DEF AfterAcquire, n
    <2>2. n - 1 \in 0 .. n - 1 /\ n - 1 \in 0 .. MaxSlot
      BY <1>2, <1>4, SlotsTakeALink
    <2>3. Bound(Obj(c, n - 1))
      BY <1>2, <2>2 DEF Takes, Full
    <2>4. b \in Inodes /\ Obj(c, n - 1) \in file[b].names
      BY <1>1, <2>3, BoundNames
    <2>5. file[b] \in Files /\ file[b].data \in Contents
      BY <1>1, <2>4 DEF Sound
    <2> HIDE DEF b
    <2>6. r \in Files /\ r.data \in Contents /\ r.names = {Obj(c, n)}
      BY <1>2, <2>5, NamesDiffer DEF Files
    <2>7. \A p \in r.names : Unclaimed(file, p)
      BY <1>4, <2>6 DEF Bound, Unclaimed
    <2>8. i \in Inodes /\ file[i].names = {}
      BY DEF NewNumbers, Unused
    <2>9. \E j \in Inodes : Obj(c, 0) \in file[j].names
      BY DEF Bound
    <2> HIDE DEF r
    <2>10. /\ Sound([file EXCEPT ![i] = r]) /\ StoreOK([file EXCEPT ![i] = r])
           /\ [file EXCEPT ![i] = r][i] = r
           /\ \A j \in Inodes \ {i} : [file EXCEPT ![i] = r][j] = file[j]
      BY <1>1, <1>2, <2>6, <2>7, <2>8, <2>9, NewFileStore
    <2>11. Sound(F) /\ StoreOK(F) /\ F[i] = r /\ \A j \in Inodes \ {i} : F[j] = file[j]
      BY <2>1, <2>10
    <2>12. OneSlotMore(file, F, c)
      BY <1>2, <2>6, <2>8, <2>11 DEF OneSlotMore
    <2>13. Obj(c, n) \in F[i].names
      BY <2>6, <2>11
    <2>14. i = InoIn(F, Obj(c, n))
      BY <2>8, <2>11, <2>13 DEF InoIn, Sound
    <2> QED BY <1>2, <2>8, <2>11, <2>12, <2>13, <2>14 DEF n
  <1> QED BY <1>3, <1>4

LEMMA NewMasterIsSound ==
    ASSUME WaterfallInv, run.dig \in Contents, ~Bound(Obj(run.dig, 0)), Bound(Ws(run.cur)),
           NEW mode \in Modes, NEW F \in NewMaster(mode)
    PROVE  /\ Sound(F) /\ StoreOK(F) /\ OneSlotMore(file, F, run.dig)
           /\ \E k \in Inodes : Obj(run.dig, 0) \in F[k].names
  <1> DEFINE r == [names |-> {Obj(run.dig, 0)}, data |-> Data(Ws(run.cur)), mode |-> mode]
  <1>1. PICK i \in NewNumbers : F = [file EXCEPT ![i] = r]
    BY DEF NewMaster
  <1>2. i \in Inodes /\ file[i].names = {} /\ Sound(file) /\ StoreOK(file)
    BY DEF NewNumbers, Unused, WaterfallInv
  <1>3. Data(Ws(run.cur)) \in Contents
    BY <1>2, BoundNames
  <1>4. r \in Files /\ r.data \in Contents /\ r.names = {Obj(run.dig, 0)}
    BY <1>3, NamesDiffer DEF Files
  <1>5. \A p \in r.names : Unclaimed(file, p)
    BY <1>4 DEF Bound, Unclaimed
  <1>6. 0 \in 0 .. MaxSlot
    BY NamesDiffer
  <1> HIDE DEF r
  <1>7. /\ Sound([file EXCEPT ![i] = r]) /\ StoreOK([file EXCEPT ![i] = r])
        /\ [file EXCEPT ![i] = r][i] = r
        /\ \A j \in Inodes \ {i} : [file EXCEPT ![i] = r][j] = file[j]
    BY <1>2, <1>4, <1>5, <1>6, NewFileStore
  <1>8. Sound(F) /\ StoreOK(F) /\ F[i] = r /\ \A j \in Inodes \ {i} : F[j] = file[j]
    BY <1>1, <1>7
  <1>9. OneSlotMore(file, F, run.dig)
    BY <1>2, <1>4, <1>6, <1>8 DEF OneSlotMore
  <1> QED BY <1>2, <1>4, <1>8, <1>9

LEMMA PublishStep ==
    ASSUME WaterfallInv, upsets' \in 0 .. MaxUpsets, Publish \/ PublishFails
    PROVE  WaterfallInv' /\ (UNCHANGED file \/ OneSlotMore(file, file', run.dig))
  <1>1. RunOK /\ RunOK' /\ run.dig \in Contents
    BY Walking DEF WaterfallInv, RunOK, Publish, PublishFails, At
  <1>2. CASE UNCHANGED file
    BY <1>1, <1>2 DEF WaterfallInv
  <1>3. CASE Publish /\ Bound(Obj(run.dig, 0))
    BY <1>1, <1>3, AcquireIsSound DEF Publish, WaterfallInv
  <1>4. CASE ~UNCHANGED file /\ ~Bound(Obj(run.dig, 0))
    <2>1. Bound(Ws(run.cur))
      BY <1>4 DEF Publish, PublishFails
    <2> DEFINE own == file[Ino(Ws(run.cur))].mode
    <2>2. own \in Modes
      BY <2>1, BoundNames DEF WaterfallInv, Sound, Files
    <2>3. \E mode \in {own, Enforced(FALSE), Enforced(Executable(own))} : file' \in NewMaster(mode)
      BY <1>4 DEF Publish, PublishFails
    <2>4. {own, Enforced(FALSE), Enforced(Executable(own))} \subseteq Modes
      BY <2>2 DEF Enforced, Modes
    <2>5. PICK mode \in Modes : file' \in NewMaster(mode)
      BY <2>3, <2>4
    <2> QED BY <1>1, <1>4, <2>1, <2>5, NewMasterIsSound DEF WaterfallInv
  <1> QED BY <1>2, <1>3, <1>4 DEF PublishFails

-----------------------------------------------------------------------------
(* Linking.  Stripping changes at most the mode of the file the name leads *)
(* to.                                                                     *)
LEMMA StripIsSound ==
    ASSUME NEW F, Sound(F), NEW f \in Paths
    PROVE  /\ Sound(AfterStrip(F, f))
           /\ \A i \in Inodes :
                /\ AfterStrip(F, f)[i].names = F[i].names
                /\ AfterStrip(F, f)[i].data = F[i].data
                /\ Ws(f) \notin F[i].names => AfterStrip(F, f)[i].mode = F[i].mode
  <1>1. CASE \E i \in Inodes : Ws(f) \in F[i].names /\ ReadOnly(F[i].mode)
    <2>1. PICK k \in Inodes : Ws(f) \in F[k].names
      BY <1>1
    <2>2. InoIn(F, Ws(f)) = k
      BY <2>1 DEF Sound, InoIn
    <2>3. AfterStrip(F, f) = [F EXCEPT ![k].mode = Stripped]
      BY <1>1, <2>2 DEF AfterStrip
    <2>4. Stripped \in Modes /\ F[k].names # {}
      BY <2>1 DEF Stripped, Modes
    <2>5. /\ Sound([F EXCEPT ![k].mode = Stripped])
          /\ \A j \in Inodes :
               /\ [F EXCEPT ![k].mode = Stripped][j].names = F[j].names
               /\ [F EXCEPT ![k].mode = Stripped][j].data = F[j].data
               /\ [F EXCEPT ![k].mode = Stripped][j].mode =
                     IF j = k THEN Stripped ELSE F[j].mode
      BY <2>4, ModeChangeIsSound
    <2> QED BY <2>1, <2>3, <2>5
  <1>2. CASE ~\E i \in Inodes : Ws(f) \in F[i].names /\ ReadOnly(F[i].mode)
    BY <1>2 DEF AfterStrip
  <1> QED BY <1>1, <1>2

(* A file table with a name more for m, and perhaps without f's old one.   *)
Beside(F, G, f, m) == \A i \in Inodes :
    /\ F[i].names \ {Ws(f)} \subseteq G[i].names
    /\ G[i].names \subseteq F[i].names \cup (IF i = m THEN {Ws(f), Lnk(f)} ELSE {})
    /\ G[i].names # {} => G[i].data = F[i].data /\ G[i].mode = F[i].mode

LEMMA LinkedBesideIsSound ==
    ASSUME NEW F, Sound(F), NEW f \in Paths, NEW m \in Inodes, F[m].names # {},
           Unclaimed(F, Lnk(f))
    PROVE  Sound(LinkedBeside(F, f, m)) /\ Beside(F, LinkedBeside(F, f, m), f, m)
  <1> DEFINE G == [F EXCEPT ![m].names = @ \cup {Lnk(f)}]
  <1>1. Lnk(f) \in Names
    BY NamesDiffer
  <1>2. /\ Sound(G)
        /\ \A j \in Inodes :
             /\ G[j].names = IF j = m THEN F[j].names \cup {Lnk(f)} ELSE F[j].names
             /\ G[j].data = F[j].data /\ G[j].mode = F[j].mode
    BY <1>1, NewNameIsSound
  <1>3. G = LinkedBeside(F, f, m)
    BY DEF LinkedBeside
  <1> HIDE DEF G
  <1>4. Beside(F, G, f, m)
    BY <1>2 DEF Beside
  <1> QED BY <1>2, <1>3, <1>4

LEMMA SwapIsSound ==
    ASSUME NEW F, Sound(F), NEW f \in Paths, NEW m \in Inodes,
           NEW p \in F[m].names, p # Ws(f), Unclaimed(F, Lnk(f))
    PROVE  /\ Sound(SwappedIn(F, f, m)) /\ Beside(F, SwappedIn(F, f, m), f, m)
           /\ Ws(f) \in SwappedIn(F, f, m)[m].names
  <1>1. CASE Ws(f) \in F[m].names
    <2>1. SwappedIn(F, f, m) = LinkedBeside(F, f, m)
      BY <1>1 DEF SwappedIn
    <2>2. Sound(LinkedBeside(F, f, m)) /\ Beside(F, LinkedBeside(F, f, m), f, m)
      BY LinkedBesideIsSound
    <2>3. LinkedBeside(F, f, m)[m].names = F[m].names \cup {Lnk(f)}
      <3>1. F[m] \in Files
        BY DEF Sound
      <3>2. LinkedBeside(F, f, m)[m] = [F[m] EXCEPT !.names = @ \cup {Lnk(f)}]
        BY DEF LinkedBeside, Sound
      <3> QED BY <3>1, <3>2 DEF Files
    <2> QED BY <1>1, <2>1, <2>2, <2>3
  <1>2. CASE Ws(f) \notin F[m].names
    <2> DEFINE U == Unlinked(F, Ws(f))
               V == [U EXCEPT ![m].names = @ \cup {Ws(f)}]
    <2>1. SwappedIn(F, f, m) = V
      BY <1>2 DEF SwappedIn
    <2>2. /\ Sound(U)
          /\ \A i \in Inodes :
               /\ U[i].names = F[i].names \ {Ws(f)}
               /\ U[i].names # {} => U[i].data = F[i].data /\ U[i].mode = F[i].mode
      BY UnlinkedIsSound
    <2> HIDE DEF U
    <2>3. Ws(f) \in Names /\ U[m].names # {} /\ Unclaimed(U, Ws(f))
      BY <2>2, NamesDiffer DEF Unclaimed
    <2>4. Sound(U)
      BY <2>2
    <2>5. /\ Sound(V)
          /\ \A j \in Inodes :
               /\ V[j].names = IF j = m THEN U[j].names \cup {Ws(f)} ELSE U[j].names
               /\ V[j].data = U[j].data /\ V[j].mode = U[j].mode
      BY <2>3, <2>4, NewNameIsSound, ZenonT(60)
    <2> HIDE DEF V
    <2>6. \A i \in Inodes : V[i].names # {} => U[i].names # {}
      BY <2>3, <2>5
    <2>7. Beside(F, V, f, m)
      BY <2>2, <2>5, <2>6 DEF Beside
    <2> QED BY <2>1, <2>5, <2>7
  <1> QED BY <1>1, <1>2

(* What linking f to m, done or given up half-way, makes of a file table.  *)
Relinked(F, G, f, m) == \A i \in Inodes :
    /\ F[i].names \ {Ws(f)} \subseteq G[i].names
    /\ G[i].names \subseteq F[i].names \cup (IF i = m THEN {Ws(f), Lnk(f)} ELSE {})
    /\ G[i].names # {} => G[i].data = F[i].data
    /\ F[i].names # {} /\ Ws(f) \notin F[i].names =>
          G[i].mode = F[i].mode \/ (ReadOnly(G[i].mode) /\ Ws(f) \in G[i].names)

(* It leaves executable what was, but for f's old file.                    *)
KeepsExec(F, G, f) == \A i \in Inodes :
    F[i].names # {} /\ Ws(f) \notin F[i].names =>
        (Executable(G[i].mode) <=> Executable(F[i].mode))

LEMMA RelinkedStore ==
    ASSUME NEW F, NEW G, Sound(F), StoreOK(F), NEW f \in Paths, Admitted(f),
           NEW m \in Inodes, SlotName(F, m), Relinked(F, G, f, m)
    PROVE  StoreOK(G) /\ SlotName(G, m)
  <1>1. \A i \in Inodes, c \in Contents, n \in 0 .. MaxSlot :
            Obj(c, n) \in G[i].names <=> Obj(c, n) \in F[i].names
    <2>1. \A c, n : Obj(c, n) # Ws(f) /\ Obj(c, n) # Lnk(f)
      BY NamesDiffer
    <2> QED BY <2>1 DEF Relinked
  <1>2. \A i \in Inodes : SlotName(F, i) \/ G[i].names \subseteq F[i].names
    BY DEF Relinked
  <1>3. \A i \in Inodes, g \in Paths : Ws(g) \in G[i].names => Ws(g) \in F[i].names \/ g = f
    BY NamesDiffer DEF Relinked
  <1> QED BY <1>1, <1>2, <1>3, StoreKept

LEMMA Linking ==
    ASSUME NEW F, Sound(F), NEW f \in Paths, NEW m \in Inodes, SlotName(F, m),
           NEW S \in {F, AfterStrip(F, f)}, NEW G,
           \/ G = S
           \/ /\ Unclaimed(F, Lnk(f))
              /\ G \in {LinkedBeside(S, f, m), SwappedIn(S, f, m),
                        Locked(SwappedIn(S, f, m), m),
                        [SwappedIn(S, f, m) EXCEPT ![m].mode = Enforced(FALSE)]}
    PROVE  /\ Sound(G) /\ Relinked(F, G, f, m)
           /\ G = S => KeepsExec(F, G, f) /\ \A i \in Inodes : G[i].names = F[i].names
           /\ Unclaimed(F, Lnk(f)) /\ G = Locked(SwappedIn(S, f, m), m) =>
                 KeepsExec(F, G, f) /\ Ws(f) \in G[m].names
  <1> DEFINE T == SwappedIn(S, f, m)
  <1>1. PICK p \in F[m].names : p # Ws(f)
    BY NamesDiffer DEF SlotName
  <1>2. /\ Sound(S)
        /\ \A i \in Inodes : /\ S[i].names = F[i].names /\ S[i].data = F[i].data
                             /\ Ws(f) \notin F[i].names => S[i].mode = F[i].mode
    BY StripIsSound
  <1>3. ASSUME NEW B, Beside(S, B, f, m)
        PROVE  Relinked(F, B, f, m) /\ KeepsExec(F, B, f)
    <2>1. ASSUME NEW i \in Inodes, F[i].names # {}, Ws(f) \notin F[i].names
          PROVE  B[i].names # {} /\ B[i].mode = F[i].mode
      BY <1>2, <1>3, <2>1 DEF Beside
    <2>2. KeepsExec(F, B, f)
      BY <2>1 DEF KeepsExec
    <2> QED BY <1>2, <1>3, <2>1, <2>2 DEF Beside, Relinked
  <1>4. Relinked(F, S, f, m) /\ KeepsExec(F, S, f)
    <2>1. Beside(S, S, f, m)
      BY DEF Beside
    <2> QED BY <1>3, <2>1
  <1>5. CASE G = S /\ ~Unclaimed(F, Lnk(f))
    BY <1>2, <1>4, <1>5
  <1>6. CASE Unclaimed(F, Lnk(f))
    <2> HIDE DEF T
    <2>1. Sound(S) /\ p \in S[m].names /\ S[m].names # {} /\ Unclaimed(S, Lnk(f))
      BY <1>1, <1>2, <1>6 DEF Unclaimed
    <2>2. /\ Sound(T) /\ Beside(S, T, f, m)
          /\ Ws(f) \in T[m].names
      BY <1>1, <2>1, SwapIsSound DEF T
    <2>3. Sound(LinkedBeside(S, f, m)) /\ Beside(S, LinkedBeside(S, f, m), f, m)
      BY <2>1, LinkedBesideIsSound
    <2>4. Relinked(F, T, f, m) /\ KeepsExec(F, T, f) /\ Relinked(F, LinkedBeside(S, f, m), f, m)
      BY <1>3, <2>2, <2>3
    <2>5. ASSUME NEW exec \in BOOLEAN
          PROVE  /\ Sound([T EXCEPT ![m].mode = Enforced(exec)])
                 /\ Relinked(F, [T EXCEPT ![m].mode = Enforced(exec)], f, m)
                 /\ Ws(f) \in [T EXCEPT ![m].mode = Enforced(exec)][m].names
                 /\ (exec <=> Executable(T[m].mode)) =>
                       KeepsExec(F, [T EXCEPT ![m].mode = Enforced(exec)], f)
      <3> DEFINE H == [T EXCEPT ![m].mode = Enforced(exec)]
      <3>1. /\ Enforced(exec) \in Modes /\ ReadOnly(Enforced(exec))
            /\ Executable(Enforced(exec)) = exec
            /\ T[m].names # {}
        BY <2>2, EnforcedModes
      <3>2. /\ Sound(H)
            /\ \A j \in Inodes :
                 /\ H[j].names = T[j].names /\ H[j].data = T[j].data
                 /\ H[j].mode = IF j = m THEN Enforced(exec) ELSE T[j].mode
        BY <2>2, <3>1, ModeChangeIsSound
      <3> HIDE DEF H
      <3>3. Relinked(F, H, f, m)
        BY <2>2, <2>4, <3>1, <3>2 DEF Relinked
      <3>4. (exec <=> Executable(T[m].mode)) => KeepsExec(F, H, f)
        BY <2>4, <3>1, <3>2 DEF KeepsExec
      <3> QED BY <2>2, <3>2, <3>3, <3>4 DEF H
    <2>6. Locked(T, m) = [T EXCEPT ![m].mode = Enforced(Executable(T[m].mode))]
          /\ Executable(T[m].mode) \in BOOLEAN
      BY DEF Locked, Executable
    <2>7. /\ Sound(Locked(T, m)) /\ Relinked(F, Locked(T, m), f, m)
          /\ KeepsExec(F, Locked(T, m), f) /\ Ws(f) \in Locked(T, m)[m].names
      BY <2>5, <2>6
    <2>8. /\ Sound([T EXCEPT ![m].mode = Enforced(FALSE)])
          /\ Relinked(F, [T EXCEPT ![m].mode = Enforced(FALSE)], f, m)
      BY <2>5
    <2>9. G \in {S, LinkedBeside(S, f, m), T, Locked(T, m), [T EXCEPT ![m].mode = Enforced(FALSE)]}
      BY DEF T
    <2>10. Sound(G) /\ Relinked(F, G, f, m)
      BY <1>4, <2>1, <2>2, <2>3, <2>4, <2>7, <2>8, <2>9
    <2> QED BY <1>2, <1>4, <2>7, <2>10 DEF T
  <1> QED BY <1>5, <1>6

(* link_to_master: the slot is acquired, and linked to as above.           *)
LEMMA LinkStep ==
    ASSUME WaterfallInv, Link \/ LinkFails
    PROVE  /\ Sound(file)' /\ StoreOK(file)'
           /\ \E F : \E m \in Inodes :
                /\ Sound(F) /\ OneSlotMore(file, F, run.dig)
                /\ Relinked(F, file', run.cur, m) /\ SlotName(file', m)
                /\ Link => /\ KeepsExec(F, file', run.cur)
                           /\ IF Bound(Lnk(run.cur))
                              THEN \A i \in Inodes : file'[i].names = F[i].names
                              ELSE Ws(run.cur) \in file'[m].names
  <1> DEFINE f == run.cur
             c == run.dig
  <1>1. /\ f \in Paths /\ Admitted(f) /\ c \in Contents /\ HasRoom(c) /\ Bound(Obj(c, 0))
        /\ Sound(file)
    BY DEF WaterfallInv, RunOK, Link, LinkFails, At, Bound
  <1>2. PICK F \in AfterAcquire(c) : \E S \in {F, AfterStrip(F, f)} :
            LET m == Master(F)
                T == SwappedIn(S, f, m)
            IN  /\ \/ file' = S
                   \/ /\ ~Bound(Lnk(f))
                      /\ file' \in {LinkedBeside(S, f, m), T, Locked(T, m),
                                    [T EXCEPT ![m].mode = Enforced(FALSE)]}
                /\ Link => file' = IF Bound(Lnk(f)) THEN S ELSE Locked(T, m)
    <2>1. CASE Link
      <3>1. PICK F \in AfterAcquire(c) :
                file' = IF Bound(Lnk(f)) THEN AfterStrip(F, f)
                        ELSE Locked(SwappedIn(AfterStrip(F, f), f, Master(F)), Master(F))
        BY <2>1 DEF Link
      <3> QED BY <3>1
    <2>2. CASE LinkFails /\ ~Link
      BY <2>2 DEF LinkFails
    <2> QED BY <2>1, <2>2
  <1> DEFINE m == Master(F)
  <1>3. /\ Sound(F) /\ StoreOK(F) /\ OneSlotMore(file, F, c)
        /\ m \in Inodes /\ SlotName(F, m)
    BY <1>1, AcquireIsSound DEF Master, SlotName
  <1>4. Unclaimed(F, Lnk(f)) <=> ~Bound(Lnk(f))
    <2>1. PICK k \in Inodes, n \in 0 .. MaxSlot :
            /\ file[k].names = {} => F[k].names \subseteq {Obj(c, n)}
            /\ \A i \in Inodes : file[i].names # {} \/ i # k => F[i] = file[i]
      BY <1>3 DEF OneSlotMore
    <2>2. \A i \in Inodes : Lnk(f) \in F[i].names <=> Lnk(f) \in file[i].names
      BY <1>1, <2>1, NamesDiffer
    <2> QED BY <2>2 DEF Unclaimed, Bound
  <1> HIDE DEF m
  <1>5. PICK S \in {F, AfterStrip(F, f)} :
            /\ \/ file' = S
               \/ /\ ~Bound(Lnk(f))
                  /\ file' \in {LinkedBeside(S, f, m), SwappedIn(S, f, m),
                                Locked(SwappedIn(S, f, m), m),
                                [SwappedIn(S, f, m) EXCEPT ![m].mode = Enforced(FALSE)]}
            /\ Link => file' = IF Bound(Lnk(f)) THEN S ELSE Locked(SwappedIn(S, f, m), m)
    BY <1>2 DEF m
  <1> HIDE DEF f, c
  <1>6. /\ Sound(file') /\ Relinked(F, file', f, m)
        /\ file' = S => KeepsExec(F, file', f) /\ \A i \in Inodes : file'[i].names = F[i].names
        /\ Unclaimed(F, Lnk(f)) /\ file' = Locked(SwappedIn(S, f, m), m) =>
              KeepsExec(F, file', f) /\ Ws(f) \in file'[m].names
    BY <1>1, <1>3, <1>4, <1>5, Linking
  <1>7. StoreOK(file') /\ SlotName(file', m)
    BY <1>1, <1>3, <1>6, RelinkedStore
  <1>8. Sound(file)' /\ StoreOK(file)'
    BY <1>6, <1>7
  <1>9. Link => /\ KeepsExec(F, file', f)
                /\ IF Bound(Lnk(f)) THEN \A i \in Inodes : file'[i].names = F[i].names
                                    ELSE Ws(f) \in file'[m].names
    BY <1>4, <1>5, <1>6
  <1> QED BY <1>3, <1>6, <1>7, <1>8, <1>9 DEF f, c

(* Every step keeps the invariant.                                         *)
LEMMA WaterfallStep ==
    ASSUME WaterfallInv, [Next]_vars
    PROVE  WaterfallInv'
  <1>1. CASE UNCHANGED vars
    BY <1>1 DEF vars, WaterfallInv, RunOK
  <1>2. CASE Next
    <2>1. upsets' \in 0 .. MaxUpsets
      BY <1>2, UpsetsAreBounded DEF Next, Upset, WaterfallInv, RunOK
    <2>2. CASE Link \/ LinkFails
      <3>1. RunOK'
        BY <2>1, <2>2, Walking DEF Link, LinkFails, WaterfallInv
      <3> QED BY <2>2, <3>1, LinkStep DEF WaterfallInv
    <2>3. CASE UserStep
      BY <2>1, <2>3, UserStepKeepsInv
    <2>4. CASE Publish \/ PublishFails
      BY <2>1, <2>4, PublishStep
    <2>5. CASE UNCHANGED upsets /\ (Evaluate \/ Redigest)
      BY <2>5, ReadSteps
    <2>6. CASE \/ \E dry \in BOOLEAN : Begin(dry)
               \/ \E v \in Visits : Bypass(v) \/ Admit(v) \/ Miss(v)
               \/ End \/ Fail \/ Kill
      BY <2>1, <2>6, WalkSteps
    <2> QED BY <1>2, <2>2, <2>3, <2>4, <2>5, <2>6 DEF Next, IngestStep, Failure
  <1> QED BY <1>1, <1>2

(* The state of every run is what the types say, and each name belongs to  *)
(* one inode.                                                              *)
THEOREM WaterfallTypes == Spec => []TypeOK
  <1>1. WaterfallInv => TypeOK
    BY InvImpliesProperties
  <1> QED BY WaterfallStart, WaterfallStep, <1>1, PTL DEF Spec

(* Volatile build output is linked into the store only where a symbolic    *)
(* link shows it inside node_modules, however runs, failures and users     *)
(* take turns (classify_path, evaluate).                                   *)
THEOREM VolatileStaysOutside == Spec => []NeverProhibited
  <1>1. WaterfallInv => NeverProhibited
    BY InvImpliesProperties
  <1> QED BY WaterfallStart, WaterfallStep, <1>1, PTL DEF Spec

(* Whatever number the cache still holds, an inode with more than one name *)
(* is a slot: a file that is skipped for its link count is linked already  *)
(* (evaluate).                                                             *)
LEMMA SkippedByCount ==
    ASSUME WaterfallInv, NEW v \in Visits, Bypass(v), MayBeLinked(v)
    PROVE  Linked(v[1])
  <1> DEFINE f == v[1]
             i == Ino(Ws(f))
  <1>1. i \in Inodes /\ Links(i) > 1 /\ Bound(Ws(f))
    BY BoundNames DEF WaterfallInv, Bypass, Passes, MayBeLinked, AlreadyIngested
  <1>2. SlotName(file, i) \/ \E p : file[i].names \subseteq {p}
    BY <1>1 DEF WaterfallInv, StoreOK, OnlySlotsAreShared
  <1>3. ASSUME NEW p, file[i].names \subseteq {p}
        PROVE  FALSE
    <2>1. file[i].names = {} \/ file[i].names = {p}
      BY <1>3
    <2>2. Links(i) = 0 \/ Links(i) = 1
      BY <2>1, FS_EmptySet, FS_Singleton DEF Links
    <2> QED BY <1>1, <2>2
  <1> QED BY <1>1, <1>2, <1>3 DEF Linked, Slots, SlotName

(* What a run skips on the word of its inode cache is a link into the      *)
(* store, although the cache outlives files and their numbers (evaluate).  *)
THEOREM CacheSkipsLinksOnly == Spec => SkipIsIngested
  <1> DEFINE A == \A v \in Visits : Bypass(v) /\ MayBeLinked(v) => Linked(v[1])
  <1>1. WaterfallInv => A
    BY SkippedByCount
  <1> QED BY WaterfallStart, WaterfallStep, <1>1, PTL DEF Spec, SkipIsIngested

(* What becomes of the mode of a slot in a step: it stays, or the slot is  *)
(* the old file or the new one of a link.                                  *)
LEMMA SlotModes ==
    ASSUME WaterfallInv, [Next]_vars, NEW i \in Inodes, SlotName(file, i)
    PROVE  \/ file'[i].mode = file[i].mode
           \/ /\ At("link")
              /\ \/ Ws(run.cur) \in file[i].names
                 \/ /\ ReadOnly(file'[i].mode)
                    /\ \/ Executable(file'[i].mode) <=> Executable(file[i].mode)
                       \/ Ws(run.cur) \in file'[i].names /\ ~run'.quiet
  <1>1. Sound(file) /\ RunOK /\ file[i].names # {}
    BY DEF WaterfallInv, SlotName
  <1>2. CASE Publish \/ PublishFails
    <2>1. upsets' \in 0 .. MaxUpsets
      BY WaterfallStep DEF WaterfallInv, RunOK
    <2>2. file' = file \/ OneSlotMore(file, file', run.dig)
      BY <1>2, <2>1, PublishStep
    <2> QED BY <1>1, <2>2 DEF OneSlotMore
  <1>3. CASE Link \/ LinkFails
    <2> DEFINE f == run.cur
    <2>1. PICK F : \E m \in Inodes :
            /\ OneSlotMore(file, F, run.dig) /\ Relinked(F, file', f, m)
            /\ Link => KeepsExec(F, file', f)
      BY <1>3, LinkStep
    <2>2. F[i] = file[i]
      BY <1>1, <2>1 DEF OneSlotMore
    <2>3. ~Link => ~run'.quiet
      BY <1>1, <1>3 DEF LinkFails, GiveUp, RunOK, Runs
    <2>4. At("link")
      BY <1>3 DEF Link, LinkFails
    <2>5. Link => Ws(f) \in file[i].names \/ (Executable(file'[i].mode) <=> Executable(file[i].mode))
      BY <1>1, <2>1, <2>2 DEF KeepsExec
    <2>6. \/ Ws(f) \in file[i].names
          \/ file'[i].mode = file[i].mode
          \/ ReadOnly(file'[i].mode) /\ Ws(f) \in file'[i].names
      BY <1>1, <2>1, <2>2 DEF Relinked
    <2> QED BY <2>3, <2>4, <2>5, <2>6
  <1>4. CASE UserStep
    <2>1. PICK f \in Paths : (\E c \in Contents : Save(f, c)) \/ Delete(f)
      BY <1>4 DEF UserStep
    <2> DEFINE U == Unlinked(file, Ws(f))
    <2>2. /\ Sound(U) /\ U[i].names = file[i].names \ {Ws(f)}
          /\ U[i].names # {} => U[i].mode = file[i].mode
      BY <1>1, UnlinkedIsSound
    <2>3. U[i].mode = file[i].mode
      BY <1>1, <2>2, NamesDiffer DEF SlotName
    <2> HIDE DEF U
    <2>4. CASE Delete(f)
      BY <2>3, <2>4 DEF Delete, U
    <2>5. CASE \E c \in Contents : Save(f, c)
      <3>1. PICK c \in Contents, k \in NewNumbers : file' = [U EXCEPT ![k] = Saved(f, c)]
        BY <2>5 DEF Save, U
      <3>2. k # i
        BY <1>1 DEF NewNumbers, Unused
      <3>3. file'[i] = U[i]
        BY <2>2, <3>1, <3>2 DEF Sound
      <3> QED BY <2>3, <3>3
    <2> QED BY <2>1, <2>4, <2>5
  <1>5. CASE file' = file
    BY <1>5
  <1>6. \/ Publish \/ PublishFails \/ Link \/ LinkFails \/ UserStep \/ file' = file
    BY DEF Next, IngestStep, Failure, vars, Begin, Bypass, Admit, Evaluate, Redigest, End,
           Miss, Fail, Kill
  <1> QED BY <1>2, <1>3, <1>4, <1>5, <1>6

(* A slot is made writable only by linking one of its own links once more; *)
(* a new link, a spill, a failed call or a killed run never does it        *)
(* (strip_read_only, link_to_master).                                      *)
THEOREM LocksAreLostByRelinking == Spec => LockLostByRelinkOnly
  <1> DEFINE A == \A i \in Slots : ReadOnly(file[i].mode) /\ ~ReadOnly(file[i].mode)' =>
                    At("link") /\ Ws(run.cur) \in file[i].names
  <1>1. ASSUME WaterfallInv, [Next]_vars, NEW i \in Slots,
               ReadOnly(file[i].mode), ~ReadOnly(file'[i].mode)
        PROVE  At("link") /\ Ws(run.cur) \in file[i].names
    <2>1. i \in Inodes /\ SlotName(file, i)
      BY DEF Slots, SlotName
    <2> QED BY <1>1, <2>1, SlotModes DEF ReadOnly
  <1>2. ASSUME WaterfallInv, [Next]_vars PROVE A
    BY <1>1, <1>2 DEF ReadOnly
  <1> QED BY WaterfallStart, WaterfallStep, <1>2, PTL DEF Spec, LockLostByRelinkOnly

(* Only linking a slot's own link to it again makes it a data file, or a   *)
(* new link to a slot whose mode cannot be read (link_to_master,           *)
(* enforce_read_only).                                                     *)
THEOREM ExecIsLostByRelinking == Spec => ExecLostByRelinkOnly
  <1> DEFINE A == \A i \in Slots : Executable(file[i].mode) /\ ~Executable(file[i].mode)' =>
                    /\ At("link")
                    /\ \/ Ws(run.cur) \in file[i].names
                       \/ Ws(run.cur) \in file[i].names' /\ ~run'.quiet
  <1>1. ASSUME WaterfallInv, [Next]_vars, NEW i \in Slots,
               Executable(file[i].mode), ~Executable(file'[i].mode)
        PROVE  /\ At("link")
               /\ \/ Ws(run.cur) \in file[i].names
                  \/ Ws(run.cur) \in file'[i].names /\ ~run'.quiet
    <2>1. i \in Inodes /\ SlotName(file, i)
      BY DEF Slots, SlotName
    <2> QED BY <1>1, <2>1, SlotModes DEF Executable
  <1>2. ASSUME WaterfallInv, [Next]_vars PROVE A
    BY <1>1, <1>2 DEF Executable
  <1> QED BY WaterfallStart, WaterfallStep, <1>2, PTL DEF Spec, ExecLostByRelinkOnly
-----------------------------------------------------------------------------
(* A run that nobody disturbs and in which no call fails.  The files it is *)
(* done with are linked, or were the first of their content; where a file  *)
(* is on its way through the waterfall, the store still says of its        *)
(* content what it said before.                                            *)
Quiet == run.quiet /\ ~run.dry /\ ~At("idle")
Usable(f) == Admitted(f) /\ Bound(Ws(f)) /\ Data(Ws(f)) \notin Small
Settled(f) ==
    /\ Linked(f) \/ Known(Data(Ws(f)))
    /\ Data(Ws(f)) \in run.known => Linked(f) \/ Bound(Lnk(f))
Waits(f) ==
    \/ \E v \in run.todo : v[1] = f /\ Classify(v[2]) = "Whitelisted"
    \/ ~At("walk") /\ run.cur = f
KnownInv == \A c \in run.known : Known(c)
SettledInv == \A f \in Paths : Usable(f) /\ ~Waits(f) => Settled(f)
CurrentInv ==
    /\ ~At("walk") => Bound(Ws(run.cur))
    /\ At("redigest") => ~Known(Data(Ws(run.cur)))
    /\ At("publish") => run.dig = Data(Ws(run.cur)) /\ ~Known(run.dig)
    /\ At("link") => run.dig = Data(Ws(run.cur))
QuietInv == Quiet => KnownInv /\ SettledInv /\ CurrentInv

(* A step of the run on another file: the names of the store and of g are  *)
(* where they were.                                                        *)
Steady(p) == \A i \in Inodes : p \in file[i].names => p \in file'[i].names
StoreSteady == \A c \in Contents, n \in 0 .. MaxSlot : Steady(Obj(c, n))
SpareFile(g) ==
    /\ Steady(Ws(g)) /\ Steady(Lnk(g))
    /\ \A i \in Inodes : Ws(g) \in file'[i].names =>
          Ws(g) \in file[i].names /\ file'[i].data = file[i].data

LEMMA KnownStays ==
    ASSUME StoreSteady, NEW c \in Contents, Known(c)
    PROVE  Known(c)'
  BY NamesDiffer DEF StoreSteady, Steady, Known, Bound

LEMMA SettledStays ==
    ASSUME Sound(file), Sound(file)', run'.known = run.known, StoreSteady,
           NEW g \in Paths, SpareFile(g), Usable(g)'
    PROVE  Usable(g) /\ (Settled(g) => Settled(g)')
  <1>1. PICK i \in Inodes : Ws(g) \in file'[i].names
    BY DEF Usable, Bound
  <1>2. Ws(g) \in file[i].names /\ file'[i].data = file[i].data
    BY <1>1 DEF SpareFile
  <1>3. Bound(Ws(g)) /\ Ino(Ws(g)) = i /\ Data(Ws(g)) = file[i].data
    BY <1>2, NameLeads
  <1>4. Bound(Ws(g))' /\ Ino(Ws(g))' = i /\ Data(Ws(g))' = file'[i].data
    BY <1>1, NameLeadsNext
  <1>5. Linked(g) => Linked(g)'
    BY <1>3, <1>4 DEF Linked, Slots, StoreSteady, Steady
  <1>6. Bound(Lnk(g)) => Bound(Lnk(g))'
    BY DEF SpareFile, Steady, Bound
  <1>7. Data(Ws(g)) \in Contents
    BY <1>2, <1>3 DEF Sound
  <1>8. Known(Data(Ws(g))) => Known(Data(Ws(g)))'
    <2>1. PICK c \in Contents : c = Data(Ws(g)) /\ c = Data(Ws(g))'
      BY <1>2, <1>3, <1>4, <1>7
    <2>2. Known(c) => Known(c)'
      BY KnownStays
    <2>3. Known(Data(Ws(g)))' <=> Known(c)'
      BY <2>1 DEF Known, Bound
    <2> QED BY <2>1, <2>2, <2>3
  <1> HIDE DEF Linked
  <1>9. Usable(g)
    BY <1>2, <1>3, <1>4 DEF Usable, Admitted
  <1>10. Settled(g) => Settled(g)'
    BY <1>2, <1>3, <1>4, <1>5, <1>6, <1>8 DEF Settled
  <1> QED BY <1>9, <1>10

LEMMA KnownInvStays ==
    ASSUME run \in Runs, run'.known = run.known, StoreSteady, KnownInv
    PROVE  KnownInv'
  <1>1. run.known \subseteq Contents
    BY DEF Runs
  <1>2. \A c \in run.known : Known(c)'
    BY <1>1, KnownStays DEF KnownInv
  <1> QED BY <1>2 DEF KnownInv

(* Every file of the workspace is due as the walk begins.                  *)
LEMMA QuietBegin ==
    ASSUME WaterfallInv, NEW dry \in BOOLEAN, Begin(dry)
    PROVE  QuietInv'
  <1>1. /\ run'.pc = "walk" /\ run'.todo = Visits
        /\ run'.known = {c \in Contents : Known(c)}
        /\ UNCHANGED file
    BY DEF Begin, NoRun
  <1>2. \A f \in Paths : Admitted(f) => Waits(f)'
    BY <1>1 DEF Waits, Admitted
  <1>3. KnownInv'
    BY <1>1 DEF KnownInv, Known, Bound
  <1>4. CurrentInv'
    BY <1>1 DEF CurrentInv, At
  <1>5. SettledInv'
    BY <1>2 DEF SettledInv, Usable, Admitted
  <1> QED BY <1>3, <1>4, <1>5 DEF QuietInv

(* A step that leaves the files alone keeps what is known of them.         *)
LEMMA SameFiles ==
    ASSUME WaterfallInv, UNCHANGED file, run'.known = run.known
    PROVE  /\ KnownInv => KnownInv'
           /\ \A f \in Paths : Usable(f)' => Usable(f) /\ (Settled(f) => Settled(f)')
           /\ \A p : (Bound(p)' <=> Bound(p)) /\ Data(p)' = Data(p)
           /\ \A c : Known(c)' <=> Known(c)
  <1>1. Sound(file) /\ Sound(file)' /\ run \in Runs
    BY DEF WaterfallInv, RunOK
  <1>2. (\A g \in Paths : SpareFile(g)) /\ StoreSteady
    BY DEF SpareFile, StoreSteady, Steady
  <1>3. \A f \in Paths : Usable(f)' => Usable(f) /\ (Settled(f) => Settled(f)')
    BY <1>1, <1>2, SettledStays
  <1>4. KnownInv => KnownInv'
    BY <1>1, <1>2, KnownInvStays
  <1>5. \A p : (Bound(p)' <=> Bound(p)) /\ Data(p)' = Data(p)
    BY DEF Bound, Data, Ino, InoIn
  <1>6. \A c : Known(c)' <=> Known(c)
    BY DEF Known, Bound
  <1> QED BY <1>3, <1>4, <1>5, <1>6

LEMMA QuietWalk ==
    ASSUME WaterfallInv, QuietInv, Quiet, NEW v \in Visits, Bypass(v) \/ Admit(v)
    PROVE  QuietInv'
  <1>1. run \in Runs /\ At("walk") /\ UNCHANGED file /\ v[1] \in Paths
    BY AliasesKeepNames DEF WaterfallInv, RunOK, Bypass, Admit, Visits
  <1>2. run'.known = run.known /\ run'.todo = run.todo \ {v}
    BY <1>1 DEF Bypass, Admit, Runs
  <1>3. KnownInv'
    BY <1>1, <1>2, SameFiles DEF QuietInv
  <1>4. CASE Bypass(v)
    <2>1. run'.pc = "walk"
      BY <1>1, <1>4 DEF Bypass, Runs, At
    <2>2. SettledInv'
      <3> SUFFICES ASSUME NEW g \in Paths, Usable(g)', ~Waits(g)'
                   PROVE  Settled(g)'
        BY DEF SettledInv
      <3>1. Usable(g) /\ (Settled(g) => Settled(g)')
        BY <1>1, <1>2, SameFiles
      <3>2. CASE g = v[1] /\ Classify(v[2]) = "Whitelisted"
        <4>1. Linked(g)
          BY <1>4, <3>1, <3>2, SkippedByCount DEF MayBeLinked, Usable
        <4> QED BY <3>1, <4>1 DEF Settled
      <3>3. CASE ~(g = v[1] /\ Classify(v[2]) = "Whitelisted")
        <4>1. ~Waits(g)
          BY <1>1, <1>2, <3>3, <2>1 DEF Waits, At
        <4> QED BY <3>1, <4>1 DEF QuietInv, SettledInv
      <3> QED BY <3>2, <3>3
    <2>3. CurrentInv'
      BY <2>1 DEF CurrentInv, At
    <2> QED BY <1>3, <2>2, <2>3 DEF QuietInv
  <1>5. CASE Admit(v)
    <2>1. run'.pc = "evaluate" /\ run'.cur = v[1] /\ Bound(Ws(v[1]))
      BY <1>1, <1>5 DEF Admit, Runs, Passes, MayBeLinked
    <2>2. SettledInv'
      <3> SUFFICES ASSUME NEW g \in Paths, Usable(g)', ~Waits(g)'
                   PROVE  Settled(g)'
        BY DEF SettledInv
      <3>1. Usable(g) /\ (Settled(g) => Settled(g)')
        BY <1>1, <1>2, SameFiles
      <3>2. ~Waits(g)
        BY <1>1, <1>2, <2>1 DEF Waits, At
      <3> QED BY <3>1, <3>2 DEF QuietInv, SettledInv
    <2>3. CurrentInv'
      BY <1>1, <1>2, <2>1, SameFiles DEF CurrentInv, At, Ws
    <2> QED BY <1>3, <2>2, <2>3 DEF QuietInv
  <1> QED BY <1>4, <1>5

LEMMA QuietRead ==
    ASSUME WaterfallInv, QuietInv, Quiet, Evaluate \/ Redigest
    PROVE  QuietInv'
  <1>1. At("evaluate") \/ At("redigest")
    BY DEF Evaluate, Redigest
  <1>0. PICK f \in Paths : f = run.cur
    BY <1>1 DEF WaterfallInv, RunOK, At
  <1>2. run \in Runs /\ ~run.dry /\ Bound(Ws(f)) /\ UNCHANGED file
    BY <1>0, <1>1 DEF WaterfallInv, RunOK, Quiet, QuietInv, CurrentInv, At, Evaluate, Redigest
  <1>3. /\ run'.known = run.known /\ run'.todo = run.todo /\ run'.cur = f
        /\ \/ At("evaluate") /\ run'.pc = "redigest" /\ ~Known(Data(Ws(f)))
           \/ At("evaluate") /\ run'.pc = "link" /\ run'.dig = Data(Ws(f))
           \/ At("redigest") /\ run'.pc = "publish" /\ run'.dig = Data(Ws(f))
    BY <1>0, <1>2 DEF Evaluate, Redigest, Vanished, FullCasDigest, Goto, Runs
  <1>4. /\ KnownInv'
        /\ \A g \in Paths : Usable(g)' => Usable(g) /\ (Settled(g) => Settled(g)')
        /\ \A p : (Bound(p)' <=> Bound(p)) /\ Data(p)' = Data(p)
        /\ \A c : Known(c)' <=> Known(c)
    BY <1>2, <1>3, SameFiles DEF QuietInv
  <1>5. SettledInv'
    <2> SUFFICES ASSUME NEW g \in Paths, Usable(g)', ~Waits(g)'
                 PROVE  Settled(g)'
      BY DEF SettledInv
    <2>1. ~Waits(g)
      BY <1>0, <1>3 DEF Waits, At
    <2> QED BY <1>4, <2>1 DEF QuietInv, SettledInv
  <1>6. CurrentInv'
    <2>1. Bound(Ws(f))' /\ Data(Ws(f))' = Data(Ws(f))
      BY <1>2, <1>4
    <2>2. At("redigest") => ~Known(Data(Ws(f)))
      BY <1>0 DEF QuietInv, CurrentInv
    <2>3. PICK c : c = Data(Ws(f))
      OBVIOUS
    <2>4. Known(c)' <=> Known(c)
      BY <1>4
    <2>5. run'.pc = "redigest" => ~Known(Data(Ws(run.cur)))'
      <3>1. run'.pc = "redigest" => ~Known(c)
        BY <1>3, <2>3
      <3>2. Known(Data(Ws(run.cur)))' <=> Known(c)'
        BY <1>3, <2>1, <2>3 DEF Known, Bound
      <3> QED BY <2>4, <3>1, <3>2
    <2>6. run'.pc = "publish" => ~Known(run.dig)'
      <3>1. run'.pc = "publish" => ~Known(c) /\ run'.dig = c
        BY <1>3, <2>2, <2>3
      <3>2. run'.dig = c => (Known(run.dig)' <=> Known(c)')
        BY DEF Known, Bound
      <3> QED BY <2>4, <3>1, <3>2
    <2> QED BY <1>3, <2>1, <2>5, <2>6 DEF CurrentInv, At
  <1> QED BY <1>4, <1>5, <1>6 DEF QuietInv

LEMMA QuietPublish ==
    ASSUME WaterfallInv, WaterfallInv', QuietInv, Quiet, Publish
    PROVE  QuietInv'
  <1>1. PICK f \in Paths, d \in Contents : f = run.cur /\ d = run.dig
    BY DEF WaterfallInv, RunOK, Publish, At
  <1>2. Sound(file) /\ Sound(file)' /\ run \in Runs /\ upsets' \in 0 .. MaxUpsets
    BY DEF WaterfallInv, RunOK
  <1>3. d = Data(Ws(f)) /\ Bound(Ws(f)) /\ ~Known(d) /\ KnownInv /\ SettledInv
    BY <1>1 DEF QuietInv, CurrentInv, Publish, At
  <1>4. run'.known = run.known /\ run'.todo = run.todo /\ run'.pc = "walk"
    BY <1>2 DEF Publish, NextFile, Runs
  <1>5. PICK F : \E mode \in Modes : file' = F /\ F \in NewMaster(mode)
    <2>1. Enforced(Executable(file[Ino(Ws(f))].mode)) \in Modes
      BY DEF Enforced, Modes
    <2> QED BY <1>1, <1>3, <2>1 DEF Publish, Known
  <1>6. OneSlotMore(file, F, d) /\ \E k \in Inodes : Obj(d, 0) \in F[k].names
    BY <1>1, <1>3, <1>5, NewMasterIsSound DEF Known
  <1>7. PICK k \in Inodes, n \in 0 .. MaxSlot :
            /\ file[k].names = {} => file'[k].names \subseteq {Obj(d, n)}
            /\ \A i \in Inodes : file[i].names # {} \/ i # k => file'[i] = file[i]
    BY <1>5, <1>6 DEF OneSlotMore
  <1>8. (\A p : Steady(p)) /\ StoreSteady
    BY <1>7 DEF Steady, StoreSteady
  <1>9. \A g \in Paths : SpareFile(g)
    BY <1>7, <1>8, NamesDiffer DEF SpareFile
  <1>10. KnownInv'
    BY <1>2, <1>3, <1>4, <1>8, KnownInvStays
  <1>11. Known(d)' /\ Data(Ws(f))' = d
    <2>1. PICK i \in Inodes : Ws(f) \in file[i].names
      BY <1>3 DEF Bound
    <2>2. Ws(f) \in file'[i].names /\ file'[i].data = file[i].data
      BY <1>7, <2>1
    <2>3. Data(Ws(f)) = file[i].data
      BY <1>2, <2>1, NameLeads
    <2>4. Data(Ws(f))' = file'[i].data
      BY <1>2, <2>2, NameLeadsNext
    <2>5. Known(d)'
      BY <1>5, <1>6 DEF Known, Bound
    <2> QED BY <1>3, <2>2, <2>3, <2>4, <2>5
  <1>12. SettledInv'
    <2> SUFFICES ASSUME NEW g \in Paths, Usable(g)', ~Waits(g)'
                 PROVE  Settled(g)'
      BY DEF SettledInv
    <2>1. Usable(g) /\ (Settled(g) => Settled(g)')
      BY <1>2, <1>4, <1>8, <1>9, SettledStays
    <2>2. CASE g = f
      <3>1. d \notin run'.known
        BY <1>3, <1>4 DEF KnownInv
      <3>2. Known(Data(Ws(g)))'
        BY <1>11, <2>2 DEF Known, Bound
      <3> QED BY <1>11, <2>2, <3>1, <3>2 DEF Settled
    <2>3. CASE g # f
      <3>1. ~Waits(g)
        BY <1>1, <1>4, <2>3 DEF Waits, At
      <3> QED BY <1>3, <2>1, <3>1 DEF SettledInv
    <2> QED BY <2>2, <2>3
  <1>13. CurrentInv'
    BY <1>4 DEF CurrentInv, At
  <1> QED BY <1>10, <1>12, <1>13 DEF QuietInv

(* A collision leaves the file beside its slot; otherwise it is linked.    *)
LEMMA QuietLink ==
    ASSUME WaterfallInv, WaterfallInv', QuietInv, Quiet, Link
    PROVE  QuietInv'
  <1>1. PICK f \in Paths, d \in Contents : f = run.cur /\ d = run.dig
    BY DEF WaterfallInv, RunOK, Link, At
  <1>2. Sound(file) /\ Sound(file)' /\ run \in Runs
    BY DEF WaterfallInv, RunOK
  <1>3. d = Data(Ws(f)) /\ Bound(Ws(f)) /\ Known(d) /\ KnownInv /\ SettledInv
    <2>1. Bound(Obj(d, 0))
      BY <1>1 DEF WaterfallInv, RunOK, Link, At, Bound
    <2> QED BY <1>1, <2>1 DEF QuietInv, CurrentInv, Link, At, Known
  <1>4. run'.known = run.known /\ run'.todo = run.todo /\ run'.pc = "walk"
    BY <1>2 DEF Link, NextFile, Runs
  <1>5. PICK F, m :
            /\ m \in Inodes /\ OneSlotMore(file, F, d)
            /\ Relinked(F, file', f, m) /\ SlotName(file', m)
            /\ IF Bound(Lnk(f)) THEN \A i \in Inodes : file'[i].names = F[i].names
                                ELSE Ws(f) \in file'[m].names
    BY <1>1, LinkStep
  <1>6. /\ \A i \in Inodes : file[i].names # {} => F[i] = file[i]
        /\ \A g \in Paths, i \in Inodes : /\ Ws(g) \in F[i].names => Ws(g) \in file[i].names
                                          /\ Lnk(g) \in F[i].names => Lnk(g) \in file[i].names
    <2>1. PICK k \in Inodes, n \in 0 .. MaxSlot :
            /\ file[k].names = {} => F[k].names \subseteq {Obj(d, n)}
            /\ \A i \in Inodes : file[i].names # {} \/ i # k => F[i] = file[i]
      BY <1>5 DEF OneSlotMore
    <2> QED BY <2>1, NamesDiffer
  <1>7. \A p : p # Ws(f) => Steady(p)
    <2> SUFFICES ASSUME NEW p, p # Ws(f), NEW i \in Inodes, p \in file[i].names
                 PROVE  p \in file'[i].names
      BY DEF Steady
    <2>1. F[i] = file[i]
      BY <1>6
    <2> QED BY <1>5, <2>1 DEF Relinked
  <1>8. StoreSteady
    BY <1>7, NamesDiffer DEF StoreSteady
  <1>9. ASSUME NEW g \in Paths, NEW i \in Inodes, Ws(g) \in file'[i].names,
               g # f \/ Bound(Lnk(f))
        PROVE  Ws(g) \in file[i].names /\ file'[i].data = file[i].data
    <2>1. Ws(g) \in F[i].names
      <3>1. CASE g # f
        <4>1. Ws(g) # Ws(f) /\ Ws(g) # Lnk(f)
          BY <3>1, NamesDiffer
        <4> QED BY <1>5, <1>9, <4>1 DEF Relinked
      <3>2. CASE Bound(Lnk(f))
        BY <1>5, <1>9, <3>2
      <3> QED BY <1>9, <3>1, <3>2
    <2>2. Ws(g) \in file[i].names /\ F[i] = file[i]
      BY <1>6, <2>1
    <2>3. file'[i].data = F[i].data
      BY <1>5, <1>9 DEF Relinked
    <2> QED BY <2>2, <2>3
  <1>10. \A g \in Paths \ {f} : SpareFile(g)
    BY <1>7, <1>9, NamesDiffer DEF SpareFile
  <1>11. KnownInv'
    BY <1>2, <1>3, <1>4, <1>8, KnownInvStays
  <1>12. Usable(f)' => Settled(f)'
    <2>1. CASE Bound(Lnk(f))
      <3>1. Steady(Ws(f))
        <4> SUFFICES ASSUME NEW i \in Inodes, Ws(f) \in file[i].names
                     PROVE  Ws(f) \in file'[i].names
          BY DEF Steady
        <4> QED BY <1>5, <1>6, <2>1
      <3>2. SpareFile(f)
        BY <1>7, <1>9, <2>1, <3>1, NamesDiffer DEF SpareFile
      <3>3. Settled(f)
        BY <1>3, <2>1 DEF Settled
      <3> QED BY <1>2, <1>4, <1>8, <3>2, <3>3, SettledStays
    <2>2. CASE ~Bound(Lnk(f))
      <3>1. Bound(Ws(f))' /\ Ino(Ws(f))' = m
        BY <1>2, <1>5, <2>2, NameLeadsNext
      <3>2. Linked(f)'
        BY <1>5, <3>1 DEF Linked, Slots, SlotName
      <3> QED BY <3>2 DEF Settled
    <2> QED BY <2>1, <2>2
  <1>13. SettledInv'
    <2> SUFFICES ASSUME NEW g \in Paths, Usable(g)', ~Waits(g)', g # f
                 PROVE  Settled(g)'
      BY <1>12 DEF SettledInv
    <2>1. Usable(g) /\ (Settled(g) => Settled(g)')
      BY <1>2, <1>4, <1>8, <1>10, SettledStays
    <2>2. ~Waits(g)
      BY <1>1, <1>4 DEF Waits, At
    <2> QED BY <1>3, <2>1, <2>2 DEF SettledInv
  <1>14. CurrentInv'
    BY <1>4 DEF CurrentInv, At
  <1> QED BY <1>11, <1>13, <1>14 DEF QuietInv

LEMMA QuietStep ==
    ASSUME WaterfallInv, QuietInv, [Next]_vars
    PROVE  QuietInv'
  <1> SUFFICES ASSUME Quiet' PROVE QuietInv'
    BY DEF QuietInv
  <1>1. run \in Runs
    BY DEF WaterfallInv, RunOK
  <1>2. CASE UNCHANGED vars
    <2>1. UNCHANGED <<file, run>>
      BY <1>2 DEF vars
    <2>2. QuietInv' <=> QuietInv
      BY <2>1 DEF QuietInv, Quiet, KnownInv, SettledInv, CurrentInv, Settled, Waits, Linked,
                  Usable, Admitted, Known, Slots, Bound, Data, Ino, InoIn, At
    <2> QED BY <2>2
  <1>3. CASE \E dry \in BOOLEAN : Begin(dry)
    BY <1>3, QuietBegin
  <1>4. CASE UserStep
    <2>1. Disturbed
      BY <1>4 DEF UserStep, Save, Delete
    <2>2. run'.quiet = FALSE
      BY <1>1, <2>1 DEF Disturbed, Runs
    <2> QED BY <2>2 DEF Quiet
  <1>5. CASE Failure
    <2>1. CASE Kill
      BY <2>1 DEF Kill, NoRun, Quiet, At
    <2>2. CASE \E v \in Visits : Miss(v)
      <3>1. run'.quiet = FALSE
        BY <1>1, <2>2 DEF Miss, Runs
      <3> QED BY <3>1 DEF Quiet
    <2>3. CASE GiveUp
      <3>1. run'.quiet = FALSE
        BY <1>1, <2>3 DEF GiveUp, Runs
      <3> QED BY <3>1 DEF Quiet
    <2> QED BY <1>5, <2>1, <2>2, <2>3 DEF Failure, Fail, PublishFails, LinkFails
  <1>6. CASE IngestStep
    <2>1. Quiet
      <3>1. ~At("idle")
        BY <1>6 DEF IngestStep, Bypass, Admit, Evaluate, Redigest, Publish, Link, End, At
      <3>2. ((run.quiet <=> run'.quiet) /\ (run.dry <=> run'.dry)) \/ End
        <4>1. CASE \E v \in Visits : Bypass(v) \/ Admit(v)
          BY <1>1, <4>1 DEF Bypass, Admit, Runs
        <4>2. CASE Evaluate
          BY <1>1, <4>2 DEF Evaluate, Vanished, NextFile, Goto, Runs
        <4>3. CASE Redigest \/ Publish \/ Link
          BY <1>1, <4>3 DEF Redigest, Publish, Link, Vanished, NextFile, Runs
        <4> QED BY <1>6, <4>1, <4>2, <4>3 DEF IngestStep
      <3>3. ~End
        BY DEF End, NoRun, Quiet, At
      <3> QED BY <3>1, <3>2, <3>3 DEF Quiet
    <2>2. ~End
      BY DEF End, NoRun, Quiet, At
    <2>3. WaterfallInv'
      BY WaterfallStep
    <2> QED BY <1>6, <2>1, <2>2, <2>3, QuietWalk, QuietRead, QuietPublish, QuietLink
            DEF IngestStep
  <1> QED BY <1>2, <1>3, <1>4, <1>5, <1>6 DEF Next

(* A real run that no user and no failing call disturbs leaves every       *)
(* whitelisted file that is not small with its content in the store; and   *)
(* if the store had it at the start, linked to it, or kept from it by a    *)
(* temporary link that an earlier run left (cmd_ingest, evaluate).         *)
THEOREM QuietRunsDeduplicate == Spec => QuietRunDeduplicates
  <1> DEFINE A == End /\ run.quiet /\ ~run.dry =>
                    \A v \in Visits : MayBeLinked(v) =>
                        LET f == v[1]
                        IN  /\ Linked(f) \/ Known(Data(Ws(f)))
                            /\ Data(Ws(f)) \in run.known => Linked(f) \/ Bound(Lnk(f))
  <1>1. Init => QuietInv
    BY DEF Init, NoRun, QuietInv, Quiet
  <1>2. ASSUME WaterfallInv, QuietInv PROVE A
    <2> SUFFICES ASSUME End, run.quiet, ~run.dry, NEW v \in Visits, MayBeLinked(v)
                 PROVE  Settled(v[1])
      BY DEF Settled
    <2>1. Quiet
      BY DEF Quiet, End, At
    <2>2. v[1] \in Paths /\ Usable(v[1])
      BY AliasesKeepNames DEF Visits, MayBeLinked, Usable, Admitted
    <2>3. ~Waits(v[1])
      BY DEF End, Waits
    <2> QED BY <1>2, <2>1, <2>2, <2>3 DEF QuietInv, SettledInv
  <1> QED BY WaterfallStart, WaterfallStep, QuietStep, <1>1, <1>2, PTL
          DEF Spec, QuietRunDeduplicates
=============================================================================
