----------------------------- MODULE MCFeedback -----------------------------
(* A small instance of Feedback: two routes that share their last network  *)
(* channel.  Gossip is behind what the forwarder of that one signs; for the *)
(* others it is right, and they may be refused anyway.                     *)
EXTENDS Feedback, TLC

CONSTANTS out, left, right, shared, in, self, n1, n2, n3, cheap, dear, p1, p2, p3

MCChan == {out, left, right, shared, in}
MCOurs == {out, in}
MCNode == {self, n1, n2, n3}
MCSource == out :> self @@ left :> n1 @@ right :> n1 @@ shared :> n2 @@ in :> n3
MCPath == {<<out, left, shared, in>>, <<out, right, shared, in>>}
MCPolicy == {cheap, dear}
MCFee == cheap :> 1 @@ dear :> 2
MCGossiped == [x \in MCChan |-> cheap]
MCAdvertised == [MCGossiped EXCEPT ![shared] = dear]
MCPart == {p1, p2, p3}
PartSymmetry == Permutations(MCPart)
=============================================================================
