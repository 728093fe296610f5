----------------------------- MODULE WatchedCache -----------------------------
(***************************************************************************)
(* What the watcher of the service definitions file promises: a copy of a  *)
(* value that others change, refreshed on notification.  While it is kept, *)
(* the copy lags behind only as long as a notification is pending, from    *)
(* the write until the copy that follows it is complete.                   *)
(***************************************************************************)
CONSTANT
    Value      \* what the watched file can hold

VARIABLES
    disk,      \* the watched value
    open,      \* the copy is being kept
    copy,      \* the copy, of no meaning while it is not kept
    pending    \* a notification is under way

vars == <<disk, open, copy, pending>>

Init ==
    /\ disk \in Value
    /\ open = FALSE
    /\ copy \in Value
    /\ pending = FALSE

\* The value is written, and the keeper of the copy is notified even when the
\* value is the same.
Change ==
    /\ disk' \in Value
    /\ pending' = open
    /\ UNCHANGED <<open, copy>>

\* The copy follows the value, unless another notification is still under way.
Follow ==
    /\ copy' \in Value
    /\ pending' \in BOOLEAN
    /\ ~pending' => copy' = disk
    /\ UNCHANGED disk

Open == ~open /\ open' = TRUE /\ Follow

Refresh == open /\ pending /\ Follow /\ UNCHANGED open

Close ==
    /\ open' = FALSE
    /\ copy' \in Value
    /\ pending' = FALSE
    /\ UNCHANGED disk

Next == Change \/ Open \/ Refresh \/ Close

Spec == Init /\ [][Next]_vars
=============================================================================
