----------------------------- MODULE IdealParts -----------------------------
(***************************************************************************)
(* What the execution of parts promises to whoever asked for them: a       *)
(* part's money leaves at most once, ends on one side of the route, and is *)
(* reported once, when it has ended and as it has ended.  Claims, hooks,   *)
(* RPC answers, watchers and restarts do not appear here; Parts shows how  *)
(* they keep the promise.                                                  *)
(***************************************************************************)
EXTENDS Naturals

CONSTANT Part

VARIABLES
    money,   \* where the part's money is
    report   \* what the caller has been told of it

Money == {"home", "inflight", "moved", "returned"}
Report == {"none", "complete", "failed"}

IdealTypeOK ==
    /\ money \in [Part -> Money]
    /\ report \in [Part -> Report]

Init ==
    /\ money = [p \in Part |-> "home"]
    /\ report = [p \in Part |-> "none"]

\* The part is sent: never after it was reported.
Launch(p) ==
    /\ money[p] = "home" /\ report[p] = "none"
    /\ money' = [money EXCEPT ![p] = "inflight"]
    /\ UNCHANGED report

\* The part arrives, or comes back.
Arrive(p) ==
    /\ money[p] = "inflight"
    /\ \E end \in {"moved", "returned"} :
        money' = [money EXCEPT ![p] = end]
    /\ UNCHANGED report

\* The one report of the part.
Tell(p) ==
    /\ report[p] = "none"
    /\ \/ money[p] = "moved" /\ report' = [report EXCEPT ![p] = "complete"]
       \/ /\ money[p] \in {"home", "returned"}
          /\ report' = [report EXCEPT ![p] = "failed"]
    /\ UNCHANGED money

Next == \E p \in Part : Launch(p) \/ Arrive(p) \/ Tell(p)

Spec == Init /\ [][Next]_<<money, report>>

=============================================================================
