------------------------------ MODULE MCParts ------------------------------
(* Small instances of Parts for TLC. *)
EXTENDS Parts, TLC

CONSTANTS p1, p2, o1, o2

MCPart == {p1, p2}
MCOffer == {o1, o2}

\* One HTLC per hash, for the liveness runs.
MCOneOffer == {o1}

\* Parts are interchangeable, and so are the HTLCs that arrive for one part.
MCSymmetry == Permutations(MCPart) \union Permutations(MCOffer)

=============================================================================
