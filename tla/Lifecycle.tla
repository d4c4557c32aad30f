------------------------------ MODULE Lifecycle ------------------------------
(***************************************************************************)
(* What the operator promises about Status.State: the life cycle of one    *)
(* FabricNetwork as a user sees it, without workers, caches or retries.    *)
(* The state moves along Advances, one edge at a time and only while no    *)
(* forced state is requested; the operator enters a requested state before *)
(* it clears the request.  Only the user may withdraw or change one.       *)
(***************************************************************************)
CONSTANTS ForceStates,   \* the states a user may force
          Advances       \* the edges of the state machine, pairs of states

VARIABLES state,         \* Status.State
          force,         \* Spec.ForceState
          writes         \* changes whenever the user writes the spec

vars == <<state, force, writes>>

Init == state = "" /\ force = ""

\* The user asks for a state, for another one, or for none any more.
Ask == writes' # writes /\ force' \in ForceStates \union {""} /\ UNCHANGED state

\* The operator jumps to the requested state...
Jump == force # "" /\ state' = force /\ UNCHANGED force

\* ...and only then forgets the request.
Clear == force # "" /\ state = force /\ force' = "" /\ UNCHANGED state

Advance == force = "" /\ <<state, state'>> \in Advances /\ UNCHANGED force

Next == Ask \/ (UNCHANGED writes /\ (Jump \/ Clear \/ Advance))

Spec == Init /\ [][Next]_vars
=============================================================================
