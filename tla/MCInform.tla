------------------------------ MODULE MCInform ------------------------------
(* A small instance of Inform: one channel direction and one kind of bound,*)
(* two agings whose buckets are one and two ticks long.  The keys share  *)
(* nothing but the sweep and the options, and the two kinds differ only in *)
(* which of two bounds is the tighter, so one key of a kind shows the rest.*)
EXTENDS Inform, TLC

CONSTANTS chan, t1, t2

MCKey == {chan}
MCTask == {t1, t2}
TaskSymmetry == Permutations(MCTask)
=============================================================================
