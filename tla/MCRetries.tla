----------------------------- MODULE MCRetries -----------------------------
(* Small instances of Retries for TLC: two paths that may share a channel. *)
EXTENDS Retries

CONSTANTS p1, p2, c1, c2, c3

MCPath == {p1, p2}
MCChan == {c1, c2, c3}
MCOn == [p \in MCPath |-> IF p = p1 THEN {c1, c3} ELSE {c2, c3}]

=============================================================================
