----------------------------- MODULE Workspace ------------------------------
(***************************************************************************)
(* What the deduplicator promises its users: a workspace behaves as if no  *)
(* deduplicator ran.  A file holds what its user saved last, and only its  *)
(* user's actions change what it holds or whether it is there.             *)
(***************************************************************************)
CONSTANTS Targets, Contents, None

VARIABLES
    saved,  \* what the user of each file did last: the content, or None if deleted
    seen    \* what a program that opens the file reads

Init ==
    /\ saved \in [Targets -> Contents \cup {None}]
    /\ seen = saved

Change(t, c) ==
    /\ saved' = [saved EXCEPT ![t] = c]
    /\ seen'  = [seen EXCEPT ![t] = c]

Next == \E t \in Targets, c \in Contents \cup {None} : Change(t, c)

Spec == Init /\ [][Next]_<<saved, seen>>
=============================================================================
