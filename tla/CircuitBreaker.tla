--------------------------- MODULE CircuitBreaker ---------------------------
(***************************************************************************)
(* What a single-probe circuit breaker promises, independently of epochs,  *)
(* tokens and indices: a closed circuit lets every speculative batch       *)
(* through; an open one lets nothing through; it becomes closed again only *)
(* through one probe; and once it is dead it stays dead.                   *)
(***************************************************************************)

VARIABLE phase

Phase == {"closed", "open", "probing", "dead"}

Init == phase = "closed"

\* A batch that accepted nothing opens the circuit.
Open == phase = "closed" /\ phase' = "open"

\* Exactly one probe at a time may test an open circuit.
Probe == phase = "open" /\ phase' = "probing"

\* Only the probe closes the circuit again.
Recover == phase = "probing" /\ phase' = "closed"

\* A failed probe, or an error of any batch at any time, is terminal.
Die == phase # "dead" /\ phase' = "dead"

Next == Open \/ Probe \/ Recover \/ Die

Spec == Init /\ [][Next]_phase
=============================================================================
