----------------------------- MODULE Waterfall ------------------------------
(***************************************************************************)
(* Runs of the ingest command over one workspace, one after the other: the *)
(* walk, the tiers of the waterfall with its inode cache, and what linking *)
(* does to names and modes, slot by slot.  Inodes have numbers here, which *)
(* the file system gives out again.  Publishing and linking are one step   *)
(* each, which may stop half-way: what other processes do in between is    *)
(* the matter of Linkage.                                                  *)
(***************************************************************************)
EXTENDS Naturals, FiniteSets, Whitelist

CONSTANTS
    Paths,     \* the files of the workspace, as Whitelist takes them
    Programs,  \* those their user makes executable
    Aliases,   \* <<f, p>>: a symbolic link to a directory shows f as p, too
    Contents,  \* file contents; a content stands for its own digest
    Small,     \* the contents below MIN_FILE_SIZE
    MaxLinks,  \* max_links_per_slot of the volume
    MaxSlot,   \* bound: the highest slot index
    MaxInode,  \* bound: the highest inode number
    CacheMax,  \* MAX_INODE_CACHE_ENTRIES, 100,000 in the code
    MaxUpsets, \* bound: what users do, calls that fail and runs that are killed
    None       \* no path, no inode, no content

ASSUME PartsOfTheWorkspace ==
    IsFiniteSet(Paths) /\ Programs \subseteq Paths /\ Small \subseteq Contents
ASSUME ExtensionsAreOfNames ==
    \A f \in Paths : f.file = "compile_commands.json" => f.ext = "json"
ASSUME AliasesKeepNames ==
    \A a \in Aliases : a[1] \in Paths /\ a[2].file = a[1].file /\ a[2].ext = a[1].ext
ASSUME SlotsTakeALink == MaxLinks \in Nat /\ MaxLinks >= 2 /\ MaxSlot \in Nat \ {0}
ASSUME CacheHoldsTwo == CacheMax \in Nat /\ CacheMax >= 2
ASSUME NoneIsNothing == None \notin Paths \cup Contents \cup Nat
ASSUME InodesAreNumbered == MaxInode \in Nat
ASSUME UpsetsAreBounded == MaxUpsets \in Nat

VARIABLES file, run, upsets

vars == <<file, run, upsets>>

(* The file system: an inode has names, data and a mode.                   *)
Inodes == 1 .. MaxInode
Ws(f)  == <<"workspace", f>>
Lnk(f) == <<"tmp_link", f>>
Obj(c, n) == <<"objects", <<c, n>>>>
Names  == ({"workspace", "tmp_link"} \X Paths) \cup ({"objects"} \X (Contents \X (0 .. MaxSlot)))
Modes  == {"644", "755", "444", "555"}
Free   == [names |-> {}, data |-> None, mode |-> "644"]
Files  == [names : SUBSET Names, data : Contents \cup {None}, mode : Modes]

Bound(p) == \E i \in Inodes : p \in file[i].names
InoIn(F, p) == CHOOSE i \in Inodes : p \in F[i].names
Ino(p)   == InoIn(file, p)
Data(p)  == file[Ino(p)].data
Links(i) == Cardinality(file[i].names)

Unlinked(F, p) ==
    [i \in Inodes |-> IF F[i].names \subseteq {p} THEN Free
                                               ELSE [F[i] EXCEPT !.names = @ \ {p}]]

(* Modes (permissions.rs).                                                 *)
ReadOnly(mode)   == mode \in {"444", "555"}
Executable(mode) == mode \in {"755", "555"}
Stripped         == "644"
Enforced(exec)   == IF exec THEN "555" ELSE "444"

(* The walk comes to a file by its own path and by those that show it too, *)
(* and knows nothing of a file but the path it came by.                    *)
Visits == {<<f, f>> : f \in Paths} \cup Aliases

(* todo: what the walk has not come to; cur, ino, dig: the file it is at,  *)
(* the inode number its stat gave and its digest; cache: the inode numbers *)
(* in inode_cache; dry: --dry-run.  Not in the code: quiet, no user acted  *)
(* and no call failed since the run began; known, the contents the store   *)
(* had then.                                                               *)
Runs == [pc : {"idle", "walk", "evaluate", "redigest", "publish", "link"},
         todo : SUBSET Visits, cur : Paths \cup {None}, ino : Inodes \cup {None},
         dig : Contents \cup {None}, cache : SUBSET Inodes, dry : BOOLEAN,
         quiet : BOOLEAN, known : SUBSET Contents]
NoRun == [pc |-> "idle", todo |-> {}, cur |-> None, ino |-> None, dig |-> None,
          cache |-> {}, dry |-> FALSE, quiet |-> FALSE, known |-> {}]

(* A workspace as a user may have it, no two names of one file.            *)
Saved(f, c) == [names |-> {Ws(f)}, data |-> c, mode |-> IF f \in Programs THEN "755" ELSE "644"]
Numbering == CHOOSE s \in [1 .. Cardinality(Paths) -> Paths] : \A f \in Paths : \E i \in DOMAIN s : s[i] = f
Init ==
    /\ \E data \in [Paths -> Contents \cup {None}] :
          file = [i \in Inodes |->
              IF i \in DOMAIN Numbering /\ data[Numbering[i]] # None
              THEN Saved(Numbering[i], data[Numbering[i]])
              ELSE Free]
    /\ run = NoRun
    /\ upsets = 0

(* The numbers a new file may be given: those a run remembers, and one for *)
(* all the others, which nobody can tell apart.                            *)
Unused  == {i \in Inodes : file[i].names = {}}
Noticed == run.cache \cup {run.ino}
NewNumbers == {i \in Unused : i \in Noticed \/ \A j \in Unused \ Noticed : i <= j}

At(pc)   == run.pc = pc
Goto(pc) == run' = [run EXCEPT !.pc = pc]
NextFile == run' = [run EXCEPT !.pc = "walk", !.cur = None, !.ino = None, !.dig = None]

(* A failed call ends the work on its file, and the walk goes on.          *)
GiveUp == run' = [run EXCEPT !.pc = "walk", !.cur = None, !.ino = None, !.dig = None,
                             !.quiet = FALSE]

(* lookup: the first two slots tell whether a content is known.            *)
Known(c) == Bound(Obj(c, 0)) \/ Bound(Obj(c, 1))
-----------------------------------------------------------------------------
(* A run has its own pipeline, whose cache is empty.                       *)
Begin(dry) ==
    /\ At("idle")
    /\ run' = [NoRun EXCEPT !.pc = "walk", !.todo = Visits, !.dry = dry, !.quiet = TRUE,
                            !.known = {c \in Contents : Known(c)}]
    /\ UNCHANGED file

(* As a bug: an inode number is trusted whatever its link count.           *)
AlreadyIngestedByNumber(i) == i \in run.cache

AlreadyIngested(i) == i \in run.cache /\ Links(i) > 1

(* A visit the waterfall has a use for: the path decides, not the file.    *)
MayBeLinked(v) ==
    Classify(v[2]) = "Whitelisted" /\ Bound(Ws(v[1])) /\ Data(Ws(v[1])) \notin Small
Passes(v) == MayBeLinked(v) /\ ~AlreadyIngested(Ino(Ws(v[1])))

(* Tier 0: a file the walk does not find, or that is bypassed ...          *)
Bypass(v) ==
    /\ At("walk") /\ v \in run.todo
    /\ ~Passes(v)
    /\ run' = [run EXCEPT !.todo = @ \ {v}]
    /\ UNCHANGED file

(* ... or goes on to be read.                                              *)
Admit(v) ==
    /\ At("walk") /\ v \in run.todo
    /\ Passes(v)
    /\ run' = [run EXCEPT !.pc = "evaluate", !.todo = @ \ {v}, !.cur = v[1],
                          !.ino = Ino(Ws(v[1]))]
    /\ UNCHANGED file

(* cache_inode: a full cache loses some half of its entries first.         *)
Drained == IF Cardinality(run.cache) < CacheMax THEN {{}}
           ELSE {gone \in SUBSET run.cache : Cardinality(gone) = CacheMax \div 2}
CacheInode(i) == {(run.cache \ gone) \cup {i} : gone \in Drained}

(* Every byte of a file as it is now goes into its digest.                 *)
FullCasDigest(f) == Data(Ws(f))

(* A file that is gone by the time it is read is an error, and passed over.*)
Vanished == /\ ~Bound(Ws(run.cur))
            /\ NextFile

(* Tiers 1 and 2.  A known digest is a duplicate, and the inode number of  *)
(* the file that is about to be replaced is remembered.                    *)
Evaluate ==
    /\ At("evaluate")
    /\ \/ Vanished
       \/ /\ Bound(Ws(run.cur)) /\ ~Known(FullCasDigest(run.cur))
          /\ IF run.dry THEN NextFile ELSE Goto("redigest")
       \/ /\ Bound(Ws(run.cur)) /\ Known(FullCasDigest(run.cur))
          /\ \E new \in CacheInode(run.ino) :
                run' = IF run.dry
                       THEN [run EXCEPT !.pc = "walk", !.cur = None, !.ino = None,
                                        !.cache = new]
                       ELSE [run EXCEPT !.pc = "link", !.dig = FullCasDigest(run.cur),
                                        !.cache = new]
    /\ UNCHANGED file

(* The command computes a unique file's digest once more.                  *)
Redigest ==
    /\ At("redigest")
    /\ \/ Vanished
       \/ /\ Bound(Ws(run.cur))
          /\ run' = [run EXCEPT !.pc = "publish", !.dig = FullCasDigest(run.cur)]
    /\ UNCHANGED file

(* acquire_slot: the lowest slot below the ceiling.  If it does not exist, *)
(* it is copied from the full one before it, mode and all (spill_slot).    *)
Full(c, n)  == Bound(Obj(c, n)) /\ Links(Ino(Obj(c, n))) >= MaxLinks
Takes(c, n) == ~Full(c, n) /\ \A k \in 0 .. n - 1 : Full(c, k)
HasRoom(c)  == \E n \in 0 .. MaxSlot : Takes(c, n)
Acquired(c) == CHOOSE n \in 0 .. MaxSlot : Takes(c, n)
AfterAcquire(c) ==
    LET n == Acquired(c)
    IN  IF n = 0 \/ Bound(Obj(c, n)) THEN {file}
        ELSE {[file EXCEPT ![i] = [file[Ino(Obj(c, n - 1))] EXCEPT !.names = {Obj(c, n)}]] :
                 i \in NewNumbers}

(* The slot a publication makes of the file as it is now.                  *)
NewMaster(mode) == {[file EXCEPT ![i] =
    [names |-> {Obj(run.dig, 0)}, data |-> Data(Ws(run.cur)), mode |-> mode]] : i \in NewNumbers}

(* publish_new_master: the slot is there already, or becomes a copy of the *)
(* file, locked.                                                           *)
Publish ==
    /\ At("publish") /\ HasRoom(run.dig)
    /\ \/ Bound(Obj(run.dig, 0)) /\ file' \in AfterAcquire(run.dig)
       \/ /\ ~Bound(Obj(run.dig, 0)) /\ Bound(Ws(run.cur))
          /\ file' \in NewMaster(Enforced(Executable(file[Ino(Ws(run.cur))].mode)))
       \/ ~Bound(Obj(run.dig, 0)) /\ ~Bound(Ws(run.cur)) /\ UNCHANGED file
    /\ NextFile

(* The master link_to_master works with, once the slot is acquired.        *)
Master(F) == InoIn(F, Obj(run.dig, Acquired(run.dig)))

(* As a bug: the master is made writable, not the target.                  *)
AfterStripOfMaster(F, f) == [F EXCEPT ![Master(F)].mode = Stripped]

(* strip_read_only acts on the inode, whatever else names it.              *)
AfterStrip(F, f) ==
    IF \E i \in Inodes : Ws(f) \in F[i].names /\ ReadOnly(F[i].mode)
    THEN [F EXCEPT ![InoIn(F, Ws(f))].mode = Stripped]
    ELSE F

(* hard_link: m gets the name beside the target.                           *)
LinkedBeside(F, f, m) == [F EXCEPT ![m].names = @ \cup {Lnk(f)}]

(* As a bug: the name the link replaces is not taken from its old file.    *)
SwappedInBeside(F, f, m) == [F EXCEPT ![m].names = @ \cup {Ws(f)}]

(* hard_link and rename: the target becomes a name of m; if it was one     *)
(* already, rename does nothing and the temporary link stays.              *)
SwappedIn(F, f, m) ==
    IF Ws(f) \in F[m].names
    THEN LinkedBeside(F, f, m)
    ELSE [Unlinked(F, Ws(f)) EXCEPT ![m].names = @ \cup {Ws(f)}]

(* As a bug: every master is locked as a data file.                        *)
LockedAsData(F, m) == [F EXCEPT ![m].mode = Enforced(FALSE)]

(* Whether the master is executable is read from its mode as it is now.    *)
Locked(F, m) == [F EXCEPT ![m].mode = Enforced(Executable(F[m].mode))]

(* As a bug: one file's error ends the walk.                               *)
LinkOrStop ==
    /\ At("link") /\ HasRoom(run.dig)
    /\ \E F \in AfterAcquire(run.dig) :
          LET m == Master(F)
              S == AfterStrip(F, run.cur)
          IN  IF Bound(Lnk(run.cur))
              THEN /\ file' = S
                   /\ run' = [NoRun EXCEPT !.pc = "walk", !.quiet = run.quiet,
                                           !.known = run.known]
              ELSE file' = Locked(SwappedIn(S, run.cur, m), m) /\ NextFile

(* link_to_master.  A temporary link that is in the way is an error, after *)
(* the strip.                                                              *)
Link ==
    /\ At("link") /\ HasRoom(run.dig)
    /\ \E F \in AfterAcquire(run.dig) :
          LET m == Master(F)
              S == AfterStrip(F, run.cur)
          IN  file' = IF Bound(Lnk(run.cur)) THEN S
                                             ELSE Locked(SwappedIn(S, run.cur, m), m)
    /\ NextFile

End ==
    /\ At("walk") /\ run.todo = {}
    /\ run' = NoRun
    /\ UNCHANGED file

IngestStep ==
    \/ \E v \in Visits : Bypass(v) \/ Admit(v)
    \/ Evaluate \/ Redigest \/ Publish \/ Link \/ End
-----------------------------------------------------------------------------
(* Failures.  A directory cannot be read, or a file's metadata.            *)
Miss(v) ==
    /\ At("walk") /\ v \in run.todo
    /\ run' = [run EXCEPT !.todo = @ \ {v}, !.quiet = FALSE]
    /\ UNCHANGED file

(* A call of evaluate or of the linkage fails before anything is changed.  *)
Fail ==
    /\ run.pc \notin {"idle", "walk"}
    /\ GiveUp
    /\ UNCHANGED file

(* The new slot keeps the mode of the file it was copied from, or it is    *)
(* taken for a data file.                                                  *)
PublishFails ==
    /\ At("publish") /\ ~Bound(Obj(run.dig, 0)) /\ Bound(Ws(run.cur))
    /\ \E mode \in {file[Ino(Ws(run.cur))].mode, Enforced(FALSE)} : file' \in NewMaster(mode)
    /\ GiveUp

(* What link_to_master leaves: the slot as acquired; the target stripped,  *)
(* or not, for an error of the strip is ignored; its new link beside it;   *)
(* the swap without the lock; or a lock on a slot whose mode could not be  *)
(* read.                                                                   *)
LinkFails ==
    /\ At("link") /\ HasRoom(run.dig)
    /\ \E F \in AfterAcquire(run.dig) : \E S \in {F, AfterStrip(F, run.cur)} :
          LET m == Master(F)
              T == SwappedIn(S, run.cur, m)
          IN  \/ file' = S
              \/ /\ ~Bound(Lnk(run.cur))
                 /\ file' \in {LinkedBeside(S, run.cur, m), T, Locked(T, m),
                               [T EXCEPT ![m].mode = Enforced(FALSE)]}
    /\ GiveUp

(* The run is killed; what it did to the file it was at is as after an     *)
(* error.                                                                  *)
Kill ==
    /\ ~At("idle")
    /\ run' = NoRun
    /\ UNCHANGED file

Failure == (\E v \in Visits : Miss(v)) \/ Fail \/ PublishFails \/ LinkFails \/ Kill
-----------------------------------------------------------------------------
(* Users.  A save is a new file: editors and compilers break links, as the *)
(* read-only mode makes them.                                              *)
Disturbed == run' = [run EXCEPT !.quiet = FALSE]

Save(f, c) ==
    /\ \E i \in NewNumbers :
          file' = [Unlinked(file, Ws(f)) EXCEPT ![i] = Saved(f, c)]
    /\ Disturbed

Delete(f) ==
    /\ Bound(Ws(f))
    /\ file' = Unlinked(file, Ws(f))
    /\ Disturbed

UserStep == \E f \in Paths :
    \/ \E c \in Contents : Save(f, c)
    \/ Delete(f)

Upset == upsets < MaxUpsets /\ upsets' = upsets + 1

Next ==
    \/ (\E dry \in BOOLEAN : Begin(dry)) /\ UNCHANGED upsets
    \/ IngestStep /\ UNCHANGED upsets
    \/ Failure /\ Upset
    \/ UserStep /\ Upset

Spec == Init /\ [][Next]_vars
-----------------------------------------------------------------------------
(* A name belongs to one inode, and a free inode has none.                 *)
TypeOK ==
    /\ file \in [Inodes -> Files] /\ run \in Runs /\ upsets \in 0 .. MaxUpsets
    /\ \A i \in Inodes : file[i].names = {} <=> file[i] = Free
    /\ \A i, j \in Inodes : file[i].names \cap file[j].names # {} => i = j

Slots     == {i \in Inodes : \E c \in Contents, n \in 0 .. MaxSlot : Obj(c, n) \in file[i].names}
Linked(f) == Bound(Ws(f)) /\ Ino(Ws(f)) \in Slots

(* What the inode cache makes a run skip is a link into the store, though  *)
(* the cache holds the numbers of files that were replaced since, and the  *)
(* file system gives those numbers to other files (evaluate).              *)
SkipIsIngested == [][\A v \in Visits : Bypass(v) /\ MayBeLinked(v) => Linked(v[1])]_vars

(* When a run that no user and no failing call disturbed comes to its end, *)
(* every file that may be linked has its content in the store, and if the  *)
(* store had it before, is linked to it or kept from it by a temporary link*)
(* left behind (cmd_ingest).                                               *)
QuietRunDeduplicates == [][End /\ run.quiet /\ ~run.dry =>
    \A v \in Visits : MayBeLinked(v) =>
        LET f == v[1]
        IN  /\ Linked(f) \/ Known(Data(Ws(f)))
            /\ Data(Ws(f)) \in run.known => Linked(f) \/ Bound(Lnk(f))]_vars

(* Volatile output shares its inode with the store only where a symbolic   *)
(* link shows it inside node_modules: no content, cache entry or spill     *)
(* takes another file there (classify_path, evaluate).                     *)
NeverProhibited == \A f \in Paths : IsVolatile(f) /\ Linked(f) =>
    \E v \in Visits : v[1] = f /\ IsInsideNodeModules(v[2])

(* A slot becomes writable only as one of its own links is linked once     *)
(* more: neither linking another file nor a spill, nor a call that fails   *)
(* on the way, unlocks it (strip_read_only, link_to_master).               *)
LockLostByRelinkOnly == [][\A i \in Slots :
    ReadOnly(file[i].mode) /\ ~ReadOnly(file[i].mode)' =>
        At("link") /\ Ws(run.cur) \in file[i].names]_vars

(* A slot ceases to be executable only by linking one of its own links to  *)
(* it once more, or by a new link when its mode cannot be read             *)
(* (link_to_master, enforce_read_only).                                    *)
ExecLostByRelinkOnly == [][\A i \in Slots :
    Executable(file[i].mode) /\ ~Executable(file[i].mode)' =>
        /\ At("link")
        /\ \/ Ws(run.cur) \in file[i].names
           \/ Ws(run.cur) \in file[i].names' /\ ~run'.quiet]_vars

(* Between runs every slot is read-only (enforce_read_only).               *)
SlotsLocked == At("idle") => \A i \in Slots : ReadOnly(file[i].mode)
=============================================================================
