----------------------------- MODULE StatusBoard -----------------------------
(***************************************************************************)
(* What the server status feed promises: a client that follows a server    *)
(* shows, at any time, nothing or one status that the record had or that   *)
(* was published, never a mixture of two.                                  *)
(***************************************************************************)

CONSTANTS
    Clients,    \* followers of the server
    Statuses,   \* statuses the server can have
    None        \* nothing is shown

VARIABLES
    known,      \* statuses that were on record or are published
    view        \* client -> the status it shows

Init ==
    /\ known \in SUBSET Statuses
    /\ view = [c \in Clients |-> None]

Learn ==
    /\ known \subseteq known'
    /\ known' \in SUBSET Statuses
    /\ UNCHANGED view

Show(c, status) ==
    /\ view' = [view EXCEPT ![c] = status]
    /\ UNCHANGED known

Next ==
    \/ Learn
    \/ \E c \in Clients, status \in known \cup {None} : Show(c, status)

Spec == Init /\ [][Next]_<<known, view>>
=============================================================================
