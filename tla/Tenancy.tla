------------------------------- MODULE Tenancy -------------------------------
(***************************************************************************)
(* What the operator promises to the users of a namespace: networks come   *)
(* and go as the users please, but only one of them is set up at a time,   *)
(* and it keeps its place until it is deleted, also while it is set up     *)
(* anew.  Once a restart or a failing call has come in between, or a user  *)
(* has forced a state, nothing is promised any more.                       *)
(***************************************************************************)
CONSTANT Networks     \* the names of the networks

VARIABLES present,    \* the networks that exist
          tenants,    \* those the operator has set up
          calm        \* nothing has come in between

vars == <<present, tenants, calm>>

Init == present = {} /\ tenants = {} /\ calm = TRUE

Arrive == \E n \in Networks \ present : present' = present \union {n} /\ UNCHANGED tenants

Leave == \E n \in present : present' = present \ {n} /\ tenants' = tenants \ {n}

Settle == tenants = {} /\ \E n \in present : tenants' = {n} /\ UNCHANGED present

Next == ~calm' \/ (calm' /\ calm /\ (Arrive \/ Leave \/ Settle))

Spec == Init /\ [][Next]_vars
=============================================================================
