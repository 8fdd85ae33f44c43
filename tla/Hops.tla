-------------------------------- MODULE Hops --------------------------------
(***************************************************************************)
(* A solved route on its way to sendpay.  askrene answers in the hop       *)
(* fields of its version and routes to the split node over mirrors of the  *)
(* destination channels; the planner normalises the fields and translates  *)
(* the last hop back (plan.rs), and execute turns each hop into sendpay's  *)
(* format and keeps a record of it for the feedback (exec.rs).  A JSON     *)
(* object is a record, and an absent field reads as Null, as serde's does. *)
(* Module Reports follows the parts to their failures.                     *)
(***************************************************************************)
EXTENDS Naturals, FiniteSets, SequencesExt

CONSTANTS
    Us, SplitNode,  \* our node, and the made-up node the mirrors end at
    Rank,           \* the order of the node ids
    Dest,           \* the request's destinations in order: [scid, peer, alias]
    MirrorScid,     \* the made-up name of the n-th destination's mirror
    MaxHops,        \* MAX_SAFE_HOPS
    Null

ASSUME HopsAssumption ==
    /\ MaxHops \in Nat
    /\ \A n, m \in DOMAIN Dest :
        n # m => Dest[n].scid # Dest[m].scid /\ MirrorScid[n] # MirrorScid[m]

VARIABLES
    quote,   \* what askrene solved, [server, routes]: of each route the [to, scid]
             \* of its hops, and the amounts and cltvs around them
    routes,  \* solved_routes, then the routes of the plan, as JSON
    stage,   \* "solved", "planned", "refused", "done" or "aborted"
    next,    \* the route to translate or to send
    kept,    \* the routes of the quote that are in the plan
    sent     \* what each sendpay was given, and the Part kept of it

hopsVars == <<quote, routes, stage, next, kept, sent>>

-----------------------------------------------------------------------------
(* Channel directions, and the routes askrene solves (external).           *)

\* The direction from a to b.
Dir(a, b) == IF Rank[a] < Rank[b] THEN 0 ELSE 1

Scidd(scid, from, to) == [scid |-> scid, dir |-> Dir(from, to)]

RealScidd(n) == Scidd(Dest[n].scid, Dest[n].peer, Us)
MirrorScidd(n) == Scidd(MirrorScid[n], Dest[n].peer, SplitNode)

\* Where hop i of a solved route starts and ends, and its channel there: the
\* quote names the destination of the last hop.
From(q, i) == IF i = 1 THEN Us ELSE q.hops[i - 1].to
SolvedTo(q, i) == IF i = Len(q.hops) THEN SplitNode ELSE q.hops[i].to
SolvedScidd(q, i) ==
    IF i = Len(q.hops) THEN MirrorScidd(q.dest)
    ELSE Scidd(q.hops[i].scid, From(q, i), q.hops[i].to)

\* A hop as askrene reports it: v26.04 with the old trio only, v26.06 with both,
\* v27.06 with the new fields only.
OldHop(q, i) ==
    [short_channel_id_dir |-> SolvedScidd(q, i), next_node_id |-> SolvedTo(q, i),
     amount_msat |-> q.amounts[i], delay |-> q.cltvs[i]]
NewHop(q, i) ==
    [short_channel_id_dir |-> SolvedScidd(q, i), node_id_out |-> SolvedTo(q, i),
     amount_in_msat |-> q.amounts[i], amount_out_msat |-> q.amounts[i + 1],
     cltv_in |-> q.cltvs[i], cltv_out |-> q.cltvs[i + 1]]

\* A JSON object with fields set.
With(hop, fields) ==
    [f \in DOMAIN hop \cup DOMAIN fields |->
        IF f \in DOMAIN fields THEN fields[f] ELSE hop[f]]

Solved(server, q) ==
    [path |-> [i \in DOMAIN q.hops |->
                CASE server = "v26.04" -> OldHop(q, i)
                  [] server = "v26.06" -> With(OldHop(q, i), NewHop(q, i))
                  [] server = "v27.06" -> NewHop(q, i)],
     amount_msat |-> Last(q.amounts), final_cltv |-> Last(q.cltvs)]

-----------------------------------------------------------------------------
(* normalize_hops                                                          *)

Has(hop, f) == f \in DOMAIN hop
Get(hop, f) == IF Has(hop, f) THEN hop[f] ELSE Null

OldFields == {"next_node_id", "amount_msat", "delay"}

Without(hop, fields) == [f \in DOMAIN hop \ fields |-> hop[f]]

\* Mutant: a hop's out-values are its own in-values.
OutOfSelf(route, i, f, g) == Get(route.path[i], f)

\* The value of the next hop, or the route's own behind the last.
OutOf(route, i, f, g) ==
    IF i < Len(route.path) THEN Get(route.path[i + 1], f) ELSE Get(route, g)

NewFields(route, i) ==
    LET hop == route.path[i] IN
    [node_id_out |-> Get(hop, "next_node_id"),
     amount_in_msat |-> Get(hop, "amount_msat"),
     cltv_in |-> Get(hop, "delay"),
     amount_out_msat |-> OutOf(route, i, "amount_msat", "amount_msat"),
     cltv_out |-> OutOf(route, i, "delay", "final_cltv")]

Normalized(route) ==
    LET legacy == \E i \in DOMAIN route.path :
                      ~Has(route.path[i], "node_id_out")
    IN [route EXCEPT !.path = [i \in DOMAIN route.path |->
            Without(IF legacy THEN With(route.path[i], NewFields(route, i))
                    ELSE route.path[i], OldFields)]]

-----------------------------------------------------------------------------
(* The planner's pass over the solved routes.                              *)

\* unsplit: the real channels behind a mirror, which is one or none.
Unsplit(scidd) ==
    {RealScidd(n) : n \in {m \in DOMAIN Dest : MirrorScidd(m) = scidd}}

\* part_within_length
WithinLength(n) == n <= MaxHops

Translated(route, real) ==
    [route EXCEPT !.path[Len(route.path)] =
        [@ EXCEPT !.short_channel_id_dir = real, !.node_id_out = Us]]

\* askrene has found a plan.
HopsInit(solution) ==
    /\ quote = solution
    /\ routes = [r \in DOMAIN quote.routes |->
                    Solved(quote.server, quote.routes[r])]
    /\ stage = "solved" /\ next = 1 /\ kept = <<>> /\ sent = <<>>

\* A solved route joins the plan, is dropped for its length, or refuses the plan.
TranslateRoute ==
    /\ stage = "solved" /\ next <= Len(routes)
    /\ LET route == Normalized(routes[next])
           last == Last(route.path)
           real == Unsplit(last.short_channel_id_dir)
       IN IF ~WithinLength(Len(route.path))
          THEN UNCHANGED <<routes, kept, stage>>
          ELSE IF Get(last, "node_id_out") # SplitNode \/ real = {}
          THEN stage' = "refused" /\ UNCHANGED <<routes, kept>>
          ELSE /\ \E scidd \in real :
                      routes' = [routes EXCEPT ![next] = Translated(route, scidd)]
               /\ kept' = Append(kept, next)
               /\ UNCHANGED stage
    /\ next' = next + 1
    /\ UNCHANGED <<quote, sent>>

\* The plan is the routes that were kept, in their order.
Planned ==
    /\ stage = "solved" /\ next > Len(routes)
    /\ stage' = "planned" /\ next' = 1
    /\ routes' = [k \in DOMAIN kept |-> routes[kept[k]]]
    /\ UNCHANGED <<quote, kept, sent>>

-----------------------------------------------------------------------------
(* execute                                                                 *)

\* onion_scids: the aliases of the destinations that are not announced.
Aliases(scidd) ==
    {Dest[n].alias : n \in {m \in DOMAIN Dest :
                                RealScidd(m) = scidd /\ Dest[m].alias # Null}}

\* The name by which the onion knows a channel.
OnionScid(scidd) ==
    IF Aliases(scidd) = {} THEN scidd.scid
    ELSE CHOOSE alias \in Aliases(scidd) : TRUE

\* hop_to_sendpay
SendpayHop(hop) ==
    LET scidd == hop.short_channel_id_dir IN
    [id |-> Get(hop, "node_id_out"), channel |-> OnionScid(scidd),
     direction |-> scidd.dir, amount_msat |-> Get(hop, "amount_out_msat"),
     delay |-> Get(hop, "cltv_out")]

\* Mutant: the record of a hop names the channel as we know it.
PartHopReal(path, i) ==
    LET scidd == path[i].short_channel_id_dir IN
    [scidd |-> scidd, onion_scid |-> scidd.scid,
     amount_msat |-> Get(path[i], "amount_out_msat"),
     ours |-> i \in {1, Len(path)}]

\* PartHop
PartHop(path, i) ==
    LET scidd == path[i].short_channel_id_dir IN
    [scidd |-> scidd, onion_scid |-> OnionScid(scidd),
     amount_msat |-> Get(path[i], "amount_out_msat"),
     ours |-> i \in {1, Len(path)}]

\* The next part is sent, and kept; a hop without a channel ends the call with
\* an error, whatever was sent.
SendRoute ==
    /\ stage = "planned" /\ next <= Len(routes)
    /\ LET path == routes[next].path IN
       IF \A i \in DOMAIN path : Get(path[i], "short_channel_id_dir") # Null
       THEN /\ sent' = Append(sent,
                [route |-> [i \in DOMAIN path |-> SendpayHop(path[i])],
                 amount_msat |-> Get(Last(path), "amount_out_msat"),
                 sent_msat |-> Get(Head(path), "amount_in_msat"),
                 first_hop |-> Head(path).short_channel_id_dir,
                 return_hop |-> Last(path).short_channel_id_dir,
                 hops |-> [i \in DOMAIN path |-> PartHop(path, i)]])
            /\ UNCHANGED stage
       ELSE stage' = "aborted" /\ UNCHANGED sent
    /\ next' = next + 1
    /\ UNCHANGED <<quote, routes, kept>>

AllSent ==
    /\ stage = "planned" /\ next > Len(routes)
    /\ stage' = "done"
    /\ UNCHANGED <<quote, routes, next, kept, sent>>

HopsNext == TranslateRoute \/ Planned \/ SendRoute \/ AllSent

-----------------------------------------------------------------------------
(* Properties.                                                             *)

\* The hop the sender means: hop i of the quoted route, on the real channel.
TrueTo(q, i) == IF i = Len(q.hops) THEN Us ELSE q.hops[i].to
TrueScidd(q, i) ==
    IF i = Len(q.hops) THEN RealScidd(q.dest) ELSE SolvedScidd(q, i)
TrueName(q, i) ==
    IF i = Len(q.hops) /\ Dest[q.dest].alias # Null THEN Dest[q.dest].alias
    ELSE TrueScidd(q, i).scid

\* Whatever the version that answered, sendpay is given the route askrene priced:
\* each hop goes to its node over its real channel, by the name the forwarder
\* takes, and hands on the amount and the expiry of the quote
\* (plan.rs:261-321, exec.rs:103-127).
SendsTheQuote ==
    \A k \in DOMAIN sent :
        LET q == quote.routes[kept[k]] IN
        /\ sent[k].route = [i \in DOMAIN q.hops |->
              [id |-> TrueTo(q, i), channel |-> TrueName(q, i),
               direction |-> TrueScidd(q, i).dir,
               amount_msat |-> q.amounts[i + 1], delay |-> q.cltvs[i + 1]]]
        /\ sent[k].amount_msat = Last(q.amounts)
        /\ sent[k].sent_msat = Head(q.amounts)

=============================================================================
