------------------------------- MODULE TmpDir -------------------------------
(***************************************************************************)
(* The directory .itan_store/tmp as the processes of a volume share it: a  *)
(* file there has a modification time, and an owner as long as the process *)
(* that made it is alive and has not been made to give it up by an error.  *)
(***************************************************************************)
EXTENDS Naturals, FiniteSets

CONSTANTS
    Procs,     \* itan processes at work on the volume
    MaxNames,  \* bound: files in tmp/ at one time
    MaxClock,  \* bound: the highest time
    MayFail,   \* system calls may fail and processes may be killed
    None       \* no process, no name

ASSUME TmpBounds == MaxNames \in Nat /\ MaxClock \in Nat /\ MayFail \in BOOLEAN
ASSUME NoneIsNothing == None \notin Procs \cup Nat

VARIABLES tmp, clock

(* mtime: the time that the file system gives for the file; written: the   *)
(* time when it was last written to.                                       *)
TmpNames == 1 .. MaxNames
Times    == 0 .. MaxClock
NoFile   == [owner |-> None, mtime |-> 0, written |-> 0, there |-> FALSE]
TmpFiles == [owner : Procs \cup {None}, mtime : Times, written : Times, there : BOOLEAN]

TmpTypeOK == tmp \in [TmpNames -> TmpFiles] /\ clock \in Times
TmpInit   == tmp = [n \in TmpNames |-> NoFile] /\ clock = 0

There(n)   == n # None /\ tmp[n].there
Listed     == {n \in TmpNames : There(n)}

(* A file as p has now written it: with the time, or with the one that the *)
(* file it was copied from has.                                            *)
Copied(p, mtime) == [owner |-> p, mtime |-> mtime, written |-> clock, there |-> TRUE]
Written(p)       == Copied(p, clock)

(* A name with a fresh UUID is one nobody uses; which one does not matter. *)
Unused(taken)  == TmpNames \ (Listed \cup taken)
HasName(taken) == Unused(taken) # {}
NewName(taken) == CHOOSE n \in Unused(taken) : TRUE

(* tmp without the files called ns.                                        *)
Without(ns) == [n \in TmpNames |-> IF n \in ns THEN NoFile ELSE tmp[n]]

(* remove_file with its error dropped: the file goes, or stays with nobody *)
(* to come back to it.                                                     *)
Abandoned(n) ==
    [m \in TmpNames |-> IF m = n THEN [tmp[m] EXCEPT !.owner = None] ELSE tmp[m]]
TryRemove(n) == tmp' = Without({n}) \/ (MayFail /\ tmp' = Abandoned(n))

(* What a process leaves when it dies: its files, with no owner.           *)
Orphaned(p) ==
    [n \in TmpNames |-> IF tmp[n].owner = p THEN [tmp[n] EXCEPT !.owner = None] ELSE tmp[n]]
=============================================================================
