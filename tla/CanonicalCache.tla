--------------------------- MODULE CanonicalCache ---------------------------
(***************************************************************************)
(* What the generation store promises: a table with one row per trading    *)
(* session, updated by atomic publications.  A publication replaces the    *)
(* sessions its acquisition fetched and no other row, and an acquisition   *)
(* publishes at most once.                                                 *)
(***************************************************************************)
CONSTANTS Acquirers, Days, None

VARIABLES
    rows,       \* for each session the acquisition its row came from
    published   \* acquisitions that have published

Init ==
    /\ rows = [d \in Days |-> None]
    /\ published = {}

Publish(a) ==
    /\ a \notin published
    /\ published' = published \cup {a}
    /\ \E fetched \in SUBSET Days :
         rows' = [d \in Days |-> IF d \in fetched THEN a ELSE rows[d]]

Next == \E a \in Acquirers : Publish(a)

Spec == Init /\ [][Next]_<<rows, published>>

=============================================================================
