------------------------------ MODULE PoolFeed ------------------------------
(***************************************************************************)
(* What an upstream client promises the master and its workers, whatever   *)
(* the upstream, the network and the order of the callbacks do: work comes *)
(* over a link and goes with it, and the workers are told in the same step *)
(* of either.  UpstreamPool implements it.                                 *)
(***************************************************************************)
CONSTANTS
    Blobs       \* block template blobs the upstream may send

VARIABLES
    phase,      \* "new" | "running" | "stopped"
    link,       \* there is a stream to the upstream
    work,       \* the blob that is served, or "none"
    told        \* the last of enablePool / disablePool the workers were sent

vars == <<phase, link, work, told>>

Init ==
    /\ phase = "new"
    /\ link = FALSE
    /\ work = "none"
    /\ told = "nothing"

Start ==
    /\ phase = "new"
    /\ phase' = "running"
    /\ UNCHANGED <<link, work, told>>

\* A link begins without work.
Connects ==
    /\ phase = "running"
    /\ ~link
    /\ work = "none"
    /\ link' = TRUE
    /\ UNCHANGED <<phase, work, told>>

\* Work that is new comes over the link, and the workers may use the pool.
Delivers(blob) ==
    /\ phase = "running"
    /\ link
    /\ work # blob
    /\ work' = blob
    /\ told' = "enabled"
    /\ UNCHANGED <<phase, link>>

\* The link is lost with its work, and the workers must not use the pool.
Loses ==
    /\ phase = "running"
    /\ link
    /\ link' = FALSE
    /\ work' = "none"
    /\ told' = "disabled"
    /\ UNCHANGED phase

\* A link that never brought work is given up: the workers need not know.
PutOff ==
    /\ phase = "running"
    /\ link
    /\ work = "none"
    /\ link' = FALSE
    /\ UNCHANGED <<phase, work, told>>

\* The client is stopped with whatever it serves; nothing happens after that.
Stop ==
    /\ phase = "running"
    /\ phase' = "stopped"
    /\ link' = FALSE
    /\ UNCHANGED <<work, told>>

Next ==
    \/ Start
    \/ Connects
    \/ \E blob \in Blobs : Delivers(blob)
    \/ Loses
    \/ PutOff
    \/ Stop

Spec == Init /\ [][Next]_vars
=============================================================================
