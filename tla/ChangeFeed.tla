----------------------------- MODULE ChangeFeed -----------------------------
(***************************************************************************)
(* What UsnDeltaScanner promises its caller: the changes that happen after *)
(* the scanner was opened come out once each and in order, and a call that *)
(* fails takes nothing away.                                               *)
(***************************************************************************)
EXTENDS Naturals, Sequences

CONSTANT Changes

VARIABLES pending, taken  \* changes not delivered yet, and those that were

feed == <<pending, taken>>

Init == pending = <<>> /\ taken = <<>>

Happen(c) == pending' = Append(pending, c) /\ UNCHANGED taken

Deliver(n) ==
    /\ taken' = taken \o SubSeq(pending, 1, n)
    /\ pending' = SubSeq(pending, n + 1, Len(pending))

Reopen == pending' = <<>> /\ taken' = <<>>

Next ==
    \/ \E c \in Changes : Happen(c)
    \/ \E n \in 1 .. Len(pending) : Deliver(n)
    \/ Reopen

Spec == Init /\ [][Next]_feed
=============================================================================
