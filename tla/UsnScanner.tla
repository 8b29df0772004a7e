----------------------------- MODULE UsnScanner -----------------------------
(***************************************************************************)
(* UsnDeltaScanner (usn.rs, Windows): a cursor into the change journal of  *)
(* an NTFS volume.  The journal is external: the volume appends records at *)
(* any time and overwrites the oldest ones; a record's number is its USN.  *)
(***************************************************************************)
EXTENDS Naturals, Sequences, FiniteSets

CONSTANTS
    BufferRecords,     \* how many matching records the 64 KiB buffer holds
    MaxUsn,            \* bound: the length of the journal
    MaxFailedQueries  \* bound: how many queries fail

ASSUME BufferIsPositive == BufferRecords \in Nat \ {0}
ASSUME UsnBounds == MaxUsn \in Nat /\ MaxFailedQueries \in Nat

VARIABLES
    journal,       \* the records, the overwritten ones included
    first,         \* the oldest USN that can still be read
    scanner,       \* the cursor, and where a call is
    handles,       \* open handles of the volume
    failedQueries, \* history: how many opens had their query fail
    reported       \* history: the entries all scans since open returned

usnVars == <<journal, first, scanner, handles, failedQueries, reported>>

(* reasons: the bits of Reason that the code looks at; named: the file     *)
(* name is in bounds and valid UTF-16.                                     *)
Bits    == {"HARD_LINK_CHANGE", "DATA_OVERWRITE"}
Records == [reasons : SUBSET Bits, named : BOOLEAN]
NextUsn == Len(journal) + 1

(* pc: no scanner; inside open; between calls; inside scan_delta.          *)
(* from: where the cursor was when the scanner was opened.                 *)
Closed == [pc |-> "closed", cursor |-> 0, from |-> 0]

Init ==
    /\ journal = <<>> /\ first = 1
    /\ scanner = Closed
    /\ handles = 0 /\ failedQueries = 0
    /\ reported = <<>>

-----------------------------------------------------------------------------
(* The volume.                                                             *)
Change(r) ==
    /\ Len(journal) < MaxUsn
    /\ journal' = Append(journal, r)
    /\ UNCHANGED <<first, scanner, handles, failedQueries, reported>>

Overwrite ==
    /\ first < NextUsn
    /\ first' = first + 1
    /\ UNCHANGED <<journal, scanner, handles, failedQueries, reported>>

-----------------------------------------------------------------------------
(* open: a handle, the query for NextUsn, and the handle is closed.  A new *)
(* scanner takes the place of an old one.                                  *)
OpenVolume ==
    /\ scanner.pc \in {"closed", "ready"}
    /\ scanner' = [Closed EXCEPT !.pc = "querying"]
    /\ handles' = handles + 1 /\ reported' = <<>>
    /\ UNCHANGED <<journal, first, failedQueries>>

OpenQueries ==
    /\ scanner.pc = "querying"
    /\ scanner' = [pc |-> "ready", cursor |-> NextUsn, from |-> NextUsn]
    /\ handles' = handles - 1
    /\ UNCHANGED <<journal, first, failedQueries, reported>>

(* The query fails: `?` returns before close_handle.                       *)
OpenFails ==
    /\ scanner.pc = "querying" /\ failedQueries < MaxFailedQueries
    /\ scanner' = Closed
    /\ failedQueries' = failedQueries + 1
    /\ UNCHANGED <<journal, first, handles, reported>>

-----------------------------------------------------------------------------
(* scan_delta.  (A volume that cannot be opened changes nothing.)          *)
ScanOpens ==
    /\ scanner.pc = "ready"
    /\ scanner' = [scanner EXCEPT !.pc = "scanning"]
    /\ handles' = handles + 1
    /\ UNCHANGED <<journal, first, failedQueries, reported>>

(* HardLinkChange is looked for first, and hides an overwrite.             *)
Reason(r) == IF "HARD_LINK_CHANGE" \in r.reasons THEN "HardLinkChange"
             ELSE IF "DATA_OVERWRITE" \in r.reasons THEN "DataOverwrite" ELSE "Other"
Matches(r) == r.reasons # {}             \* ReasonMask

(* As a bug: the mask is taken to have done the selection.                 *)
RelevantUnchecked(r) == r.named

Relevant(r) == Reason(r) # "Other" /\ r.named
Entry(u) == [usn |-> u, reason |-> Reason(journal[u])]

(* What the code returns of the records from u up to and without v.        *)
EntriesIn(u, v) ==
    LET upto[k \in u .. v] ==
            IF k = u THEN <<>>
            ELSE IF Relevant(journal[k - 1]) THEN Append(upto[k - 1], Entry(k - 1))
            ELSE upto[k - 1]
    IN  upto[v]

(* Where one read may end: the journal fills the buffer, or comes to its   *)
(* end; what is not in ReasonMask takes no room.                           *)
ReadEnds == {v \in scanner.cursor .. NextUsn :
    LET matching == {u \in scanner.cursor .. v - 1 : Matches(journal[u])}
    IN  /\ Cardinality(matching) <= BufferRecords
        /\ v < NextUsn => /\ Cardinality(matching) = BufferRecords
                          /\ Matches(journal[v])}

(* As a bug, and what the comment on scan_delta says: the cursor goes to   *)
(* the journal's NextUsn, however far the buffer reached.                  *)
ScanReadsToEnd ==
    /\ scanner.pc = "scanning" /\ scanner.cursor >= first
    /\ \E v \in ReadEnds :
          /\ reported' = reported \o EntriesIn(scanner.cursor, v)
          /\ scanner' = [scanner EXCEPT !.cursor = NextUsn, !.pc = "ready"]
    /\ handles' = handles - 1
    /\ UNCHANGED <<journal, first, failedQueries>>

(* As a bug: a name that cannot be decoded fails the call.                 *)
ScanDecodesAll ==
    /\ scanner.pc = "scanning" /\ scanner.cursor >= first
    /\ \E v \in ReadEnds :
          IF \A u \in scanner.cursor .. v - 1 : journal[u].named
          THEN /\ reported' = reported \o EntriesIn(scanner.cursor, v)
               /\ scanner' = [scanner EXCEPT !.cursor = v, !.pc = "ready"]
          ELSE scanner' = [scanner EXCEPT !.pc = "ready"] /\ UNCHANGED reported
    /\ handles' = handles - 1
    /\ UNCHANGED <<journal, first, failedQueries>>

(* One FSCTL_READ_USN_JOURNAL, the handle is closed, and the cursor is the *)
(* NextUsn that came with the buffer.                                      *)
ScanReads ==
    /\ scanner.pc = "scanning" /\ scanner.cursor >= first
    /\ \E v \in ReadEnds :
          /\ reported' = reported \o EntriesIn(scanner.cursor, v)
          /\ scanner' = [scanner EXCEPT !.cursor = v, !.pc = "ready"]
    /\ handles' = handles - 1
    /\ UNCHANGED <<journal, first, failedQueries>>

(* As a bug: the handle is kept when the call fails.                       *)
ScanLeaks ==
    /\ scanner.pc = "scanning" /\ scanner.cursor < first
    /\ scanner' = [scanner EXCEPT !.pc = "ready"]
    /\ UNCHANGED <<journal, first, handles, failedQueries, reported>>

(* The read fails because the cursor was overwritten.  The code gives the  *)
(* same error for any failure, and the cursor stays.                       *)
ScanFails ==
    /\ scanner.pc = "scanning" /\ scanner.cursor < first
    /\ scanner' = [scanner EXCEPT !.pc = "ready"]
    /\ handles' = handles - 1
    /\ UNCHANGED <<journal, first, failedQueries, reported>>

Opening  == OpenQueries \/ OpenFails
Scanning == ScanReads \/ ScanFails

Next ==
    \/ \E r \in Records : Change(r)
    \/ Overwrite
    \/ OpenVolume \/ Opening
    \/ ScanOpens \/ Scanning

Spec == Init /\ [][Next]_usnVars

(* Calls return, and the caller goes on scanning.                          *)
FairSpec == Spec /\ WF_usnVars(Opening) /\ WF_usnVars(Scanning) /\ WF_usnVars(ScanOpens)
-----------------------------------------------------------------------------
TypeOK ==
    /\ journal \in Seq(Records) /\ first \in 1 .. NextUsn
    /\ scanner \in [pc : {"closed", "querying", "ready", "scanning"},
                    cursor : Nat, from : Nat]
    /\ handles \in Nat /\ failedQueries \in Nat
    /\ reported \in Seq([usn : Nat, reason : {"HardLinkChange", "DataOverwrite"}])

(* scan_delta delivers every relevant change since open once and in order, *)
(* whatever the size of the backlog and whenever the volume writes: it     *)
(* implements the feed ("successive calls return only new events").        *)
IsOpen == scanner.pc \in {"ready", "scanning"}
Feed == INSTANCE ChangeFeed
    WITH Changes <- [usn : 1 .. MaxUsn, reason : {"HardLinkChange", "DataOverwrite"}],
         pending <- IF IsOpen THEN EntriesIn(scanner.cursor, NextUsn) ELSE <<>>,
         taken   <- reported
ExactDelta == Feed!Spec

(* Every call opens a handle of the volume and closes it, on each of its   *)
(* return paths but that of an open whose query fails: between two calls   *)
(* the handles open are those of failed queries (open, scan_delta).        *)
HandlesReturned ==
    handles = failedQueries + (IF scanner.pc \in {"querying", "scanning"} THEN 1 ELSE 0)

(* A change is reported as long as the journal does not overtake the       *)
(* scanner; once it has, the scanner is stuck until it is opened again     *)
(* (scan_delta keeps the cursor on an error).                              *)
Overtaken == IsOpen /\ scanner.cursor < first
Awaited(u) == IsOpen /\ u >= scanner.from /\ u < NextUsn /\ Relevant(journal[u])
ChangesArrive == \A u \in 1 .. MaxUsn : Awaited(u) ~>
    \/ \E i \in DOMAIN reported : reported[i].usn = u
    \/ Overtaken \/ ~Awaited(u)
=============================================================================
