---------------------------- MODULE RunLifecycle ----------------------------
(***************************************************************************)
(* What a client that polls a run is promised when the run is executed at  *)
(* most once: queued, then running while rows appear, then settled for     *)
(* good, with the rows it has at that moment.                              *)
(***************************************************************************)
EXTENDS Naturals

CONSTANTS Runs

VARIABLES state, rows

Init ==
    /\ state = [r \in Runs |-> "none"]
    /\ rows = [r \in Runs |-> {}]

Move(r, from, to) ==
    /\ state[r] = from
    /\ state' = [state EXCEPT ![r] = to]

Grow(r) == /\ rows[r] \subseteq rows'[r]
           /\ rows' = [rows EXCEPT ![r] = rows'[r]]

Create(r) == Move(r, "none", "queued") /\ UNCHANGED rows
Start(r)  == Move(r, "queued", "running") /\ UNCHANGED rows
Reveal(r) == state[r] = "running" /\ UNCHANGED state /\ Grow(r)
Finish(r) == Move(r, "running", "done") /\ Grow(r)
Fail(r)   == Move(r, "running", "error") /\ Grow(r)

Next == \E r \in Runs : Create(r) \/ Start(r) \/ Reveal(r) \/ Finish(r) \/ Fail(r)

Spec == Init /\ [][Next]_<<state, rows>>
=============================================================================
