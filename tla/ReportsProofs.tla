--------------------------- MODULE ReportsProofs ---------------------------
(***************************************************************************)
(* Proofs about Reports, for every plan that askrene may find, every       *)
(* message a forwarder may return and every table of wide numbers: what is *)
(* sent is what was quoted, and what a failure is charged to.              *)
(***************************************************************************)
EXTENDS Reports, Sums, SequenceTheorems

-----------------------------------------------------------------------------
(* The inductive invariant.                                                *)

\* A hop, and a route, of a plan: what was quoted, on the real channels.
RealHop(q, i) ==
    [short_channel_id_dir |-> TrueScidd(q, i), node_id_out |-> TrueTo(q, i),
     amount_in_msat |-> q.amounts[i], amount_out_msat |-> q.amounts[i + 1],
     cltv_in |-> q.cltvs[i], cltv_out |-> q.cltvs[i + 1]]

RealPath(q) == [i \in DOMAIN q.hops |-> RealHop(q, i)]

\* What execute makes of it.
PartOf(path) ==
    [route |-> [i \in DOMAIN path |-> SendpayHop(path[i])],
     amount_msat |-> Get(Last(path), "amount_out_msat"),
     sent_msat |-> Get(Head(path), "amount_in_msat"),
     first_hop |-> Head(path).short_channel_id_dir,
     return_hop |-> Last(path).short_channel_id_dir,
     hops |-> [i \in DOMAIN path |-> PartHop(path, i)]]

Quoted(k) == quote.routes[kept[k]]

IsSeq(s, n) == n \in Nat /\ s = [i \in 1..n |-> s[i]]

QuoteInv ==
    /\ quote.server \in {"v26.04", "v26.06", "v27.06"}
    /\ IsSeq(quote.routes, Len(quote.routes))
    /\ \A r \in 1..Len(quote.routes) : IsRoute(quote.routes[r])

\* The routes ahead of the planner are askrene's, and those behind it that are kept,
\* and the routes of the plan, are the quoted ones.
RoutesInv ==
    /\ stage \in {"solved", "planned", "refused", "done", "aborted"}
    /\ next \in Nat \ {0}
    /\ kept \in Seq(1..Len(quote.routes))
    /\ stage = "solved" =>
        /\ IsSeq(routes, Len(quote.routes))
        /\ \A r \in 1..Len(quote.routes) :
            r >= next => routes[r] = Solved(quote.server, quote.routes[r])
        /\ \A k \in 1..Len(kept) :
            kept[k] < next /\ routes[kept[k]].path = RealPath(Quoted(k))
    /\ stage = "planned" =>
        /\ IsSeq(routes, Len(kept))
        /\ \A k \in 1..Len(kept) : routes[k].path = RealPath(Quoted(k))

\* What was sent is a first part of the plan.
SentInv ==
    /\ IsSeq(sent, Len(sent)) /\ Len(sent) <= Len(kept)
    /\ \A k \in 1..Len(sent) : sent[k] = PartOf(RealPath(Quoted(k)))
    /\ stage \in {"solved", "refused"} => sent = <<>>
    /\ stage = "planned" => Len(sent) = next - 1

\* The update is bytes of the message, and the policy read is of bytes.
Byte == 0..Base - 1

UpdateInv ==
    /\ IsMessage(msg)
    /\ parse \in {"idle", "frame", "fields", "walk", "parsed", "none"}
    /\ parse \in {"walk", "parsed"} => policy.base \in Byte /\ policy.prop \in Byte
    /\ parse = "parsed" => policy.prop <= Whole

\* The walk is at s: it is a start, and what starts before it neither states fees
\* nor leads past it.
Reached(data, s) ==
    /\ s \in Starts(data)
    /\ \A p \in Starts(data) : p < s =>
        /\ FeesAt(data, p) = {}
        /\ \A r \in Records(data) : r.start = p => r.end <= s

\* The update that the sender made of what it meant.
Meant == Serialized(msg.update) \o msg.tail

\* What is parsed is the sender's update, or less than one; the walk over its records
\* has left no record out.
ReadsInv ==
    /\ cu \in Seq(Byte) /\ Len(cu) <= Len(msg.data) /\ Len(cu) < Word
    /\ \A i \in reads : i < Len(cu)
    /\ parse \in {"idle", "frame", "fields"} => reads = {}
    /\ parse \in {"idle", "frame", "fields", "walk"} => inbound = {}
    /\ parse = "fields" =>
        IF msg.arrives THEN msg.ambiguous \/ cu = Meant ELSE Len(cu) < BodyLen
    /\ parse = "walk" =>
        /\ msg.arrives /\ pos \in BodyLen..Len(cu)
        /\ ~msg.ambiguous =>
            /\ cu = Meant /\ msg.update.ts # 0
            /\ policy = [enabled |-> msg.update.enabled, base |-> msg.update.base,
                         prop |-> msg.update.prop]
            /\ Reached(msg.tail, pos - BodyLen)

\* A failure is of a part that was sent, and its message is read once its hop is
\* found.
ReportInv ==
    /\ report # NoReport =>
        /\ stage = "done"
        /\ report.part \in 1..Len(sent)
        /\ LET q == Quoted(report.part) IN
           /\ report.hop \in 1..Len(q.hops)
           /\ report.erring = [scid |-> TrueName(q, report.hop),
                               dir |-> TrueScidd(q, report.hop).dir]
    /\ parse # "idle" => report # NoReport
    /\ verdict \in {"open", "unlocated", "judged"}
    /\ verdict = "judged" => parse \in {"parsed", "none"}
    /\ verdict = "open" => excluded = {} /\ refreshed = {}
    /\ class \in {"fee", "policy"}

IInv ==
    /\ QuoteInv /\ RoutesInv /\ SentInv /\ UpdateInv /\ ReadsInv /\ ReportInv
    /\ ReadAsMeant /\ BlameIsFair

-----------------------------------------------------------------------------
(* The hops of a route.                                                    *)

\* A function over the first numbers is a sequence.
LEMMA SeqForm ==
    ASSUME NEW s, NEW n, IsSeq(s, n)
    PROVE  n \in Nat /\ Len(s) = n /\ DOMAIN s = 1..n
  BY DEF IsSeq

\* It is a sequence of what holds its elements.
LEMMA SeqOver ==
    ASSUME NEW s, NEW n, IsSeq(s, n), NEW S, \A i \in 1..n : s[i] \in S
    PROVE  s \in Seq(S)
<1>1. [i \in 1..n |-> s[i]] \in Seq(S)
  BY DEF IsSeq
<1> QED  BY <1>1 DEF IsSeq

\* What is at a place of a sequence.
LEMMA ElementOf ==
    ASSUME NEW S, NEW s \in Seq(S)
    PROVE  /\ Len(s) \in Nat /\ DOMAIN s = 1..Len(s)
           /\ \A i \in 1..Len(s) : s[i] \in S
  OBVIOUS

\* The quoted amounts and expiries of a hop.
LEMMA RouteTypes ==
    ASSUME NEW q, IsRoute(q)
    PROVE  /\ Len(q.hops) \in Nat \ {0} /\ DOMAIN q.hops = 1..Len(q.hops)
           /\ q.dest \in DOMAIN Dest
           /\ \A i \in 1..Len(q.hops) :
                /\ q.amounts[i] \in 0..MaxAmount /\ q.amounts[i + 1] \in 0..MaxAmount
                /\ q.amounts[i + 1] <= q.amounts[i]
           /\ Last(q.amounts) = q.amounts[Len(q.hops) + 1]
           /\ Head(q.amounts) = q.amounts[1]
           /\ Last(q.cltvs) = q.cltvs[Len(q.hops) + 1]
<1> DEFINE n == Len(q.hops)
<1>1. /\ n \in Nat \ {0} /\ DOMAIN q.hops = 1..n /\ q.dest \in DOMAIN Dest
      /\ q.amounts \in Seq(0..MaxAmount) /\ Len(q.amounts) = n + 1
      /\ q.cltvs \in Seq(Nat) /\ Len(q.cltvs) = n + 1
      /\ \A i \in 1..n : q.amounts[i + 1] <= q.amounts[i]
  BY DEF IsRoute
<1> HIDE DEF n
<1>2. \A i \in 1..n + 1 : q.amounts[i] \in 0..MaxAmount
  <2>1. \A i \in 1..Len(q.amounts) : q.amounts[i] \in 0..MaxAmount
    BY <1>1, ElementOf
  <2> QED  BY <1>1, <2>1
<1>3. \A i \in 1..n : i \in 1..n + 1 /\ i + 1 \in 1..n + 1
  BY <1>1
<1>4. Head(q.amounts) = q.amounts[1]
  BY <1>1
<1> QED  BY <1>1, <1>2, <1>3, <1>4 DEF Last, n

\* The fields of the two kinds of hop.
LEMMA HopFields ==
    ASSUME NEW q, NEW i
    PROVE  /\ DOMAIN OldHop(q, i) =
                {"short_channel_id_dir", "next_node_id", "amount_msat", "delay"}
           /\ DOMAIN NewHop(q, i) =
                {"short_channel_id_dir", "node_id_out", "amount_in_msat",
                 "amount_out_msat", "cltv_in", "cltv_out"}
           /\ OldHop(q, i).short_channel_id_dir = SolvedScidd(q, i)
           /\ OldHop(q, i).next_node_id = SolvedTo(q, i)
           /\ OldHop(q, i).amount_msat = q.amounts[i]
           /\ OldHop(q, i).delay = q.cltvs[i]
           /\ NewHop(q, i).short_channel_id_dir = SolvedScidd(q, i)
  BY DEF OldHop, NewHop

\* Whatever the version that answered, the fields are the new ones.
LEMMA NormalizedPath ==
    ASSUME NEW q, IsRoute(q), NEW server \in {"v26.04", "v26.06", "v27.06"}
    PROVE  Normalized(Solved(server, q)).path =
                [i \in 1..Len(q.hops) |-> NewHop(q, i)]
<1> DEFINE n == Len(q.hops)
           route == Solved(server, q)
           legacy == \E i \in DOMAIN route.path : ~Has(route.path[i], "node_id_out")
<1>1. n \in Nat \ {0} /\ DOMAIN q.hops = 1..n
  BY RouteTypes
<1>2. /\ route.amount_msat = Last(q.amounts) /\ route.final_cltv = Last(q.cltvs)
      /\ "amount_msat" \in DOMAIN route /\ "final_cltv" \in DOMAIN route
      /\ "path" \in DOMAIN route
      /\ route = [path |-> route.path, amount_msat |-> route.amount_msat,
                  final_cltv |-> route.final_cltv]
  BY DEF Solved
<1>3. route.path = [i \in 1..n |->
            CASE server = "v26.04" -> OldHop(q, i)
              [] server = "v26.06" -> With(OldHop(q, i), NewHop(q, i))
              [] server = "v27.06" -> NewHop(q, i)]
  BY <1>1 DEF Solved
<1> HIDE DEF route
<1>4. Len(route.path) = n /\ DOMAIN route.path = 1..n
  BY <1>1, <1>3
<1>5. Normalized(route).path = [i \in 1..n |->
            Without(IF legacy THEN With(route.path[i], NewFields(route, i))
                    ELSE route.path[i], OldFields)]
  BY <1>2, <1>4 DEF Normalized
<1>6. ASSUME NEW i \in 1..n
      PROVE  Without(IF legacy THEN With(route.path[i], NewFields(route, i))
                     ELSE route.path[i], OldFields) = NewHop(q, i)
  <2>1. CASE server = "v26.04"
    <3>1. \A j \in 1..n : route.path[j] = OldHop(q, j)
      BY <1>3, <2>1
    <3>2. legacy
      <4>1. 1 \in 1..n
        BY <1>1
      <4> QED  BY <3>1, <4>1, <1>4, HopFields DEF Has
    <3>3. NewFields(route, i) =
            [node_id_out |-> SolvedTo(q, i), amount_in_msat |-> q.amounts[i],
             cltv_in |-> q.cltvs[i], amount_out_msat |-> q.amounts[i + 1],
             cltv_out |-> q.cltvs[i + 1]]
      <4>1. /\ Get(route.path[i], "next_node_id") = SolvedTo(q, i)
            /\ Get(route.path[i], "amount_msat") = q.amounts[i]
            /\ Get(route.path[i], "delay") = q.cltvs[i]
        BY <3>1, HopFields DEF Get, Has
      <4>2. /\ OutOf(route, i, "amount_msat", "amount_msat") = q.amounts[i + 1]
            /\ OutOf(route, i, "delay", "final_cltv") = q.cltvs[i + 1]
        <5>1. CASE i < n
          <6>1. i + 1 \in 1..n
            BY <1>1, <5>1
          <6>2. /\ Get(route.path[i + 1], "amount_msat") = q.amounts[i + 1]
                /\ Get(route.path[i + 1], "delay") = q.cltvs[i + 1]
            BY <3>1, <6>1, HopFields DEF Get, Has
          <6> QED  BY <5>1, <6>2, <1>4 DEF OutOf
        <5>2. CASE ~(i < n)
          <6>1. i = n
            BY <1>1, <5>2
          <6>2. /\ Get(route, "amount_msat") = q.amounts[i + 1]
                /\ Get(route, "final_cltv") = q.cltvs[i + 1]
            BY <1>2, <6>1, RouteTypes DEF Get, Has
          <6> QED  BY <5>2, <6>2, <1>4 DEF OutOf
        <5> QED  BY <5>1, <5>2
      <4> QED  BY <4>1, <4>2 DEF NewFields
    <3>4. Without(With(OldHop(q, i), NewFields(route, i)), OldFields) = NewHop(q, i)
      <4>1. DOMAIN NewFields(route, i) =
                {"node_id_out", "amount_in_msat", "cltv_in", "amount_out_msat",
                 "cltv_out"}
        BY <3>3
      <4> DEFINE h == With(OldHop(q, i), NewFields(route, i))
      <4>2. DOMAIN h \ OldFields = DOMAIN NewHop(q, i)
        BY <4>1, HopFields DEF With, OldFields
      <4>3. \A f \in DOMAIN NewHop(q, i) : h[f] = NewHop(q, i)[f]
        BY <3>3, <4>1, HopFields DEF With, NewHop
      <4>4. NewHop(q, i) = [f \in DOMAIN NewHop(q, i) |-> NewHop(q, i)[f]]
        BY DEF NewHop
      <4> HIDE DEF h
      <4>5. [f \in DOMAIN h \ OldFields |-> h[f]] = NewHop(q, i)
        BY <4>2, <4>3, <4>4
      <4> QED  BY <4>5 DEF h, Without
    <3> QED  BY <3>1, <3>2, <3>4
  <2>2. CASE server # "v26.04"
    <3> DEFINE h == IF server = "v26.06" THEN With(OldHop(q, i), NewHop(q, i))
                    ELSE NewHop(q, i)
    <3>1. \A j \in 1..n : route.path[j] =
            IF server = "v26.06" THEN With(OldHop(q, j), NewHop(q, j))
            ELSE NewHop(q, j)
      BY <1>3, <2>2
    <3>2. ~legacy
      <4>1. \A j \in 1..n : "node_id_out" \in DOMAIN NewHop(q, j)
                            /\ "node_id_out" \in DOMAIN With(OldHop(q, j), NewHop(q, j))
        BY HopFields DEF With
      <4> QED  BY <3>1, <4>1, <1>4 DEF Has
    <3>3. DOMAIN h \ OldFields = DOMAIN NewHop(q, i)
      BY HopFields DEF With, OldFields
    <3>4. \A f \in DOMAIN NewHop(q, i) : h[f] = NewHop(q, i)[f]
      BY HopFields DEF With
    <3>5. NewHop(q, i) = [f \in DOMAIN NewHop(q, i) |-> NewHop(q, i)[f]]
      BY DEF NewHop
    <3>6. route.path[i] = h
      BY <3>1
    <3> HIDE DEF h
    <3>7. [f \in DOMAIN h \ OldFields |-> h[f]] = NewHop(q, i)
      BY <3>3, <3>4, <3>5
    <3> QED  BY <3>2, <3>6, <3>7 DEF Without
  <2> QED  BY <2>1, <2>2
<1> HIDE DEF n, legacy
<1>7. Normalized(route).path = [i \in 1..n |-> NewHop(q, i)]
  BY <1>5, <1>6
<1> QED  BY <1>7 DEF n, route

\* The last hop is translated back.
LEMMA TranslatedPath ==
    ASSUME NEW q, IsRoute(q), NEW route, "path" \in DOMAIN route,
           route.path = [i \in 1..Len(q.hops) |-> NewHop(q, i)]
    PROVE  /\ Len(route.path) = Len(q.hops)
           /\ Unsplit(Last(route.path).short_channel_id_dir) = {RealScidd(q.dest)}
           /\ Translated(route, RealScidd(q.dest)).path = RealPath(q)
<1> DEFINE n == Len(q.hops)
           real == RealScidd(q.dest)
<1>1. n \in Nat \ {0} /\ DOMAIN q.hops = 1..n /\ q.dest \in DOMAIN Dest /\ n \in 1..n
  BY RouteTypes
<1>2. Len(route.path) = n /\ DOMAIN route.path = 1..n
  BY <1>1
<1>3. \A i \in 1..n : route.path[i] = NewHop(q, i)
  OBVIOUS
<1>4. Last(route.path) = NewHop(q, n)
  BY <1>1, <1>2, <1>3 DEF Last
<1>5. NewHop(q, n).short_channel_id_dir = MirrorScidd(q.dest)
  BY HopFields DEF SolvedScidd
<1>6. Unsplit(MirrorScidd(q.dest)) = {real}
  <2>1. \A m \in DOMAIN Dest : MirrorScidd(m) = MirrorScidd(q.dest) => m = q.dest
    BY <1>1, HopsAssumption DEF MirrorScidd, Scidd
  <2> QED  BY <1>1, <2>1 DEF Unsplit
<1>7. Translated(route, real).path =
        [route.path EXCEPT ![n] =
            [@ EXCEPT !.short_channel_id_dir = real, !.node_id_out = Us]]
  BY <1>2 DEF Translated
<1>8. [NewHop(q, n) EXCEPT !.short_channel_id_dir = real, !.node_id_out = Us]
        = RealHop(q, n)
  <2>1. TrueScidd(q, n) = real /\ TrueTo(q, n) = Us
    BY DEF TrueScidd, TrueTo
  <2> DEFINE new == NewHop(q, n)
             translated == [new EXCEPT !.short_channel_id_dir = real,
                                       !.node_id_out = Us]
  <2>2. RealHop(q, n) =
            [f \in DOMAIN new |-> IF f = "short_channel_id_dir" THEN real
                                  ELSE IF f = "node_id_out" THEN Us ELSE new[f]]
    <3> HIDE DEF real, n
    <3> QED  BY <2>1 DEF NewHop, RealHop
  <2> HIDE DEF real, new
  <2>3. translated =
            [f \in DOMAIN new |-> IF f = "short_channel_id_dir" THEN real
                                  ELSE IF f = "node_id_out" THEN Us ELSE new[f]]
    OBVIOUS
  <2> QED  BY <2>2, <2>3 DEF new
<1>9. \A i \in 1..n : i # n => NewHop(q, i) = RealHop(q, i)
  BY DEF NewHop, RealHop, TrueScidd, TrueTo, SolvedTo
<1> HIDE DEF real, n
<1>10. [route.path EXCEPT ![n] =
            [@ EXCEPT !.short_channel_id_dir = real, !.node_id_out = Us]]
        = [i \in 1..n |-> RealHop(q, i)]
  BY <1>1, <1>2, <1>3, <1>8, <1>9
<1>11. RealPath(q) = [i \in 1..n |-> RealHop(q, i)]
  BY <1>1 DEF RealPath
<1> QED  BY <1>2, <1>4, <1>5, <1>6, <1>7, <1>10, <1>11 DEF real, n

\* What is sent of a path.
LEMMA PartFields ==
    ASSUME NEW q, IsRoute(q)
    PROVE  LET path == RealPath(q)
               part == PartOf(path)
               n == Len(q.hops)
           IN
           /\ Len(path) = n /\ DOMAIN path = 1..n
           /\ \A i \in 1..n : path[i] = RealHop(q, i)
           /\ DOMAIN part.route = 1..n /\ DOMAIN part.hops = 1..n
           /\ \A i \in 1..n : part.route[i] = SendpayHop(RealHop(q, i))
           /\ \A i \in 1..n :
                /\ part.hops[i].scidd = TrueScidd(q, i)
                /\ part.hops[i].onion_scid = OnionScid(TrueScidd(q, i))
                /\ part.hops[i].amount_msat = q.amounts[i + 1]
                /\ part.hops[i].ours <=> i \in {1, n}
           /\ part.amount_msat = Last(q.amounts)
           /\ part.sent_msat = Head(q.amounts)
<1> DEFINE path == RealPath(q)
           part == PartOf(path)
           n == Len(q.hops)
<1>1. n \in Nat \ {0} /\ DOMAIN q.hops = 1..n /\ 1 \in 1..n /\ n \in 1..n
  BY RouteTypes
<1>2. path = [i \in 1..n |-> RealHop(q, i)]
  BY <1>1 DEF RealPath
<1> HIDE DEF path
<1>3. Len(path) = n /\ DOMAIN path = 1..n /\ \A i \in 1..n : path[i] = RealHop(q, i)
  BY <1>1, <1>2
<1>4. Last(path) = RealHop(q, n) /\ Head(path) = RealHop(q, 1)
  BY <1>1, <1>2, <1>3 DEF Last
<1>5. \A i \in 1..n :
        /\ path[i].short_channel_id_dir = TrueScidd(q, i)
        /\ Get(path[i], "amount_out_msat") = q.amounts[i + 1]
        /\ Get(path[i], "amount_in_msat") = q.amounts[i]
  <2>1. \A i \in 1..n :
        /\ RealHop(q, i).short_channel_id_dir = TrueScidd(q, i)
        /\ Get(RealHop(q, i), "amount_out_msat") = q.amounts[i + 1]
        /\ Get(RealHop(q, i), "amount_in_msat") = q.amounts[i]
    BY DEF RealHop, Get, Has
  <2> HIDE DEF n
  <2> QED  BY <1>3, <2>1
<1>6. \A i \in 1..n :
        /\ PartHop(path, i).scidd = TrueScidd(q, i)
        /\ PartHop(path, i).onion_scid = OnionScid(TrueScidd(q, i))
        /\ PartHop(path, i).amount_msat = q.amounts[i + 1]
        /\ PartHop(path, i).ours <=> i \in {1, n}
  BY <1>3, <1>5 DEF PartHop
<1>7. /\ part.route = [i \in 1..n |-> SendpayHop(path[i])]
      /\ part.hops = [i \in 1..n |-> PartHop(path, i)]
      /\ part.amount_msat = Get(Last(path), "amount_out_msat")
      /\ part.sent_msat = Get(Head(path), "amount_in_msat")
  BY <1>3 DEF PartOf
<1> HIDE DEF part
<1>8. part.amount_msat = Last(q.amounts) /\ part.sent_msat = Head(q.amounts)
  <2>1. Last(path) = path[n] /\ Head(path) = path[1]
    BY <1>1, <1>3, <1>4
  <2> QED  BY <1>1, <1>5, <1>7, <2>1, RouteTypes
<1>9. /\ DOMAIN part.route = 1..n /\ DOMAIN part.hops = 1..n
      /\ \A i \in 1..n : part.route[i] = SendpayHop(RealHop(q, i))
  BY <1>3, <1>7
<1>10. \A i \in 1..n : part.hops[i] = PartHop(path, i)
  BY <1>7
<1>11. \A i \in 1..n :
        /\ part.hops[i].scidd = TrueScidd(q, i)
        /\ part.hops[i].onion_scid = OnionScid(TrueScidd(q, i))
        /\ part.hops[i].amount_msat = q.amounts[i + 1]
        /\ part.hops[i].ours <=> i \in {1, n}
  BY <1>6, <1>10
<1> QED  BY <1>3, <1>8, <1>9, <1>11 DEF path, part

\* The onion's name of a hop is the one the sender means.
LEMMA Names ==
    ASSUME NEW q, IsRoute(q), NEW i \in 1..Len(q.hops)
    PROVE  OnionScid(TrueScidd(q, i)) = TrueName(q, i)
<1>1. /\ Len(q.hops) \in Nat \ {0} /\ q.dest \in DOMAIN Dest
  BY RouteTypes
<1>2. CASE i # Len(q.hops)
  <2>1. i \in 1..Len(q.hops) - 1
    BY <1>1, <1>2
  <2>2. \A d \in DOMAIN Dest : TrueScidd(q, i) # RealScidd(d)
    BY <2>1 DEF IsRoute
  <2>3. Aliases(TrueScidd(q, i)) = {}
    BY <2>2 DEF Aliases
  <2> QED  BY <1>2, <2>3 DEF OnionScid, TrueName
<1>3. CASE i = Len(q.hops)
  <2>1. TrueScidd(q, i) = RealScidd(q.dest)
    BY <1>3 DEF TrueScidd
  <2>2. \A m \in DOMAIN Dest : RealScidd(m) = RealScidd(q.dest) => m = q.dest
    BY <1>1, HopsAssumption DEF RealScidd, Scidd
  <2>3. Aliases(TrueScidd(q, i)) =
            IF Dest[q.dest].alias # Null THEN {Dest[q.dest].alias} ELSE {}
    BY <1>1, <2>1, <2>2 DEF Aliases
  <2> QED  BY <1>3, <2>3 DEF OnionScid, TrueName
<1> QED  BY <1>2, <1>3

\* The hop that failed is found by that name.
LEMMA FoundByName ==
    ASSUME NEW q, IsRoute(q), NEW i \in 1..Len(q.hops)
    PROVE  ErringHop(PartOf(RealPath(q)),
                     [scid |-> TrueName(q, i), dir |-> TrueScidd(q, i).dir]) = {i}
<1> DEFINE n == Len(q.hops)
           part == PartOf(RealPath(q))
           erring == [scid |-> TrueName(q, i), dir |-> TrueScidd(q, i).dir]
           Named(j) == \/ part.hops[j].scidd = erring
                       \/ [erring EXCEPT !.scid = part.hops[j].onion_scid] = erring
<1>1. /\ DOMAIN part.hops = 1..n
      /\ \A j \in 1..n : part.hops[j].scidd = TrueScidd(q, j)
                         /\ part.hops[j].onion_scid = TrueName(q, j)
  BY PartFields, Names
<1>2. n \in Nat
  BY RouteTypes
<1>3. Named(i)
  BY <1>1
<1>4. ASSUME NEW j \in 1..n, j # i
      PROVE  ~Named(j)
  <2>1. /\ TrueScidd(q, i).scid \notin {TrueScidd(q, j).scid, TrueName(q, j)}
        /\ TrueScidd(q, j).scid \notin {TrueScidd(q, i).scid, TrueName(q, i)}
    BY <1>4 DEF IsRoute
  <2>2. TrueName(q, i) # TrueName(q, j)
    BY <1>4, <2>1 DEF TrueName
  <2>3. TrueScidd(q, j) # erring
    BY <2>1
  <2>4. [erring EXCEPT !.scid = TrueName(q, j)] # erring
    BY <2>2
  <2> QED  BY <1>1, <1>4, <2>3, <2>4
<1> HIDE DEF Named
<1>5. {j \in DOMAIN part.hops : Named(j)} = {i}
  BY <1>1, <1>3, <1>4
<1>6. ErringHop(part, erring) =
        {k \in {j \in DOMAIN part.hops : Named(j)} :
            \A j \in {j \in DOMAIN part.hops : Named(j)} : k <= j}
  BY DEF ErringHop, Named
<1> HIDE DEF part, erring
<1>7. ErringHop(part, erring) = {i}
  BY <1>2, <1>5, <1>6
<1> QED  BY <1>7 DEF part, erring

-----------------------------------------------------------------------------
(* The side at fault.                                                      *)

\* Integer division: the quotient of x is the largest whose multiple is not
\* above x.
LEMMA Quotient ==
    ASSUME NEW x \in Nat, NEW d \in Nat \ {0}
    PROVE  x \div d \in Nat /\ d * (x \div d) <= x /\ x < d * (x \div d) + d
  OBVIOUS

\* A number below the word is what the machine keeps of it.
LEMMA WordKeeps ==
    ASSUME NEW x \in 0..Word - 1 PROVE x % Word = x
  BY OnionAssumption DEF OnionAssumption

\* A product grows with each factor.
LEMMA ProductGrows ==
    ASSUME NEW a \in Nat, NEW b \in Nat, NEW c \in Nat, NEW d \in Nat,
           a <= b, c <= d
    PROVE  a * c \in Nat /\ a * c <= b * d
<1>1. a * c \in Nat /\ b * d \in Nat /\ b * c \in Nat  OBVIOUS
<1>2. (b - a) * c >= 0  BY b - a \in Nat
<1>3. b * (d - c) >= 0  BY d - c \in Nat
<1> QED  BY <1>1, <1>2, <1>3

\* For every bound of the parser on proportional fees, word size and amount that
\* keep to OnionAssumption, the fee required is the exact one, and a failure is
\* held against the incoming channel exactly when the fee paid covers it
\* (classify_fee_insufficient, onion_error.rs:97-131).
THEOREM FaultIsExact ==
    ASSUME NEW p, p.base \in 0..Base - 1, p.prop \in 0..Whole,
           NEW out \in 0..MaxAmount, NEW alloc \in Nat
    PROVE  /\ Required(p, out) = p.base + (p.prop * out) \div Whole
           /\ Fault(p, alloc, out) = "inbound"
                <=> alloc * Whole + Whole > p.base * Whole + p.prop * out
<1> DEFINE product == p.prop * out
           fee == product \div Whole
<1>1. /\ Base \in Nat /\ Word \in Nat \ {0} /\ Whole \in Nat \ {0}
      /\ MaxAmount \in Nat /\ Base - 1 + Whole * MaxAmount < Word
  BY OnionAssumption DEF OnionAssumption
<1>2. p.base \in Nat /\ p.prop \in Nat /\ out \in Nat
  BY <1>1
<1>3. product \in Nat /\ product <= Whole * MaxAmount
  BY <1>1, <1>2, ProductGrows
<1>4. Whole * MaxAmount \in Nat
  BY <1>1
<1>5. product % Word = product
  <2>1. product \in 0..Word - 1
    BY <1>1, <1>2, <1>3, <1>4
  <2> HIDE DEF product
  <2> QED  BY <2>1, WordKeeps
<1>6. fee \in Nat /\ Whole * fee <= product /\ product < Whole * fee + Whole
  <2> HIDE DEF product
  <2> QED  BY <1>1, <1>3, Quotient
<1>7. fee <= product
  <2> HIDE DEF fee, product
  <2>1. 1 * fee <= Whole * fee
    BY <1>1, <1>6, ProductGrows
  <2> QED  BY <2>1, <1>1, <1>3, <1>6
<1>8. Required(p, out) = p.base + fee
  <2>1. p.base + fee \in 0..Word - 1
    <3> HIDE DEF fee, product
    <3> QED  BY <1>1, <1>2, <1>3, <1>4, <1>6, <1>7
  <2>2. Required(p, out) = (p.base + fee) % Word
    BY <1>5 DEF Required
  <2> HIDE DEF fee, product
  <2> QED  BY <2>1, <2>2, WordKeeps
<1>9. (alloc >= p.base + fee)
        <=> alloc * Whole + Whole > p.base * Whole + product
  <2> HIDE DEF fee, product
  <2>1. CASE alloc >= p.base + fee
    <3>1. Whole * (p.base + fee) <= Whole * alloc
      BY <2>1, <1>1, <1>2, <1>6, ProductGrows
    <3>2. Whole * (p.base + fee) = p.base * Whole + Whole * fee
      BY <1>1, <1>2, <1>6
    <3>3. Whole * alloc = alloc * Whole
      BY <1>1
    <3>4. alloc * Whole \in Nat /\ p.base * Whole \in Nat /\ Whole * fee \in Nat
      BY <1>1, <1>2, <1>6
    <3> QED  BY <2>1, <3>1, <3>2, <3>3, <3>4, <1>1, <1>3, <1>6
  <2>2. CASE alloc + 1 <= p.base + fee
    <3>1. Whole * (alloc + 1) <= Whole * (p.base + fee)
      BY <2>2, <1>1, <1>2, <1>6, ProductGrows
    <3>2. /\ Whole * (p.base + fee) = p.base * Whole + Whole * fee
          /\ Whole * (alloc + 1) = alloc * Whole + Whole
      BY <1>1, <1>2, <1>6
    <3>3. alloc * Whole \in Nat /\ p.base * Whole \in Nat /\ Whole * fee \in Nat
      BY <1>1, <1>2, <1>6
    <3>4. ~(alloc >= p.base + fee)
      BY <2>2, <1>2, <1>6
    <3> QED  BY <3>1, <3>2, <3>3, <3>4, <1>1, <1>3, <1>6
  <2> QED  BY <2>1, <2>2, <1>2, <1>6
<1>10. "inbound" # "stale outbound"
  OBVIOUS
<1> QED  BY <1>8, <1>9, <1>10 DEF Fault

-----------------------------------------------------------------------------
(* The numbers of a stream.                                                *)

\* The recursion of the number in the cells from i: g has that of the first k.
NumberStep(data, i, g, k) ==
    IF k = 0 THEN 0 ELSE g[k - 1] * Base + Cell(data, i + k - 1)

IsNumber(data, i, n, g) == g = [k \in 0..n |-> NumberStep(data, i, g, k)]

\* A number is the last value of such a function, if there is one.
LEMMA NumberIsChosen ==
    ASSUME NEW data, NEW i, NEW n, NEW h, IsNumber(data, i, n, h)
    PROVE  \E g : IsNumber(data, i, n, g) /\ ReadBe(data, i, n) = g[n]
<1> DEFINE g == CHOOSE g : g = [k \in 0..n |->
                    IF k = 0 THEN 0 ELSE g[k - 1] * Base + Cell(data, i + k - 1)]
<1>1. ReadBe(data, i, n) = g[n]
  BY DEF ReadBe
<1>2. h = [k \in 0..n |->
             IF k = 0 THEN 0 ELSE h[k - 1] * Base + Cell(data, i + k - 1)]
  BY DEF IsNumber, NumberStep
<1>3. g = [k \in 0..n |->
             IF k = 0 THEN 0 ELSE g[k - 1] * Base + Cell(data, i + k - 1)]
  BY <1>2
<1>4. IsNumber(data, i, n, g)
  BY <1>3 DEF IsNumber, NumberStep
<1> HIDE DEF g
<1> QED  BY <1>1, <1>4

\* And there is one.
LEMMA NumberExists ==
    ASSUME NEW data, NEW i, NEW n \in Nat
    PROVE  \E g : IsNumber(data, i, n, g) /\ ReadBe(data, i, n) = g[n]
<1> DEFINE N == {m \in Nat : \E g : IsNumber(data, i, m, g)}
<1>1. 0 \in N
  <2> DEFINE g == [k \in 0..0 |-> 0]
  <2>1. IsNumber(data, i, 0, g)
    BY DEF IsNumber, NumberStep
  <2> QED  BY <2>1
<1>2. ASSUME NEW m \in N PROVE m + 1 \in N
  <2>1. PICK g : IsNumber(data, i, m, g)
    OBVIOUS
  <2> DEFINE h == [k \in 0..m + 1 |-> IF k = m + 1
                        THEN g[m] * Base + Cell(data, i + (m + 1) - 1) ELSE g[k]]
  <2>2. ASSUME NEW k \in 0..m + 1 PROVE h[k] = NumberStep(data, i, h, k)
    <3>1. CASE k = m + 1
      <4>1. h[k - 1] = g[m] /\ k # 0
        BY <3>1
      <4>2. h[k] = g[m] * Base + Cell(data, i + k - 1)
        BY <3>1
      <4> HIDE DEF h
      <4> QED  BY <4>1, <4>2 DEF NumberStep
    <3>2. CASE k \in 0..m
      <4>1. h[k] = g[k] /\ g[k] = NumberStep(data, i, g, k)
        BY <2>1, <3>2 DEF IsNumber
      <4>2. k # 0 => h[k - 1] = g[k - 1]
        BY <3>2
      <4> HIDE DEF h
      <4> QED  BY <4>1, <4>2 DEF NumberStep
    <3> QED  BY <3>1, <3>2
  <2>3. h = [k \in 0..m + 1 |-> h[k]]
    OBVIOUS
  <2> HIDE DEF h
  <2>4. IsNumber(data, i, m + 1, h)
    BY <2>2, <2>3 DEF IsNumber
  <2> QED  BY <2>4
<1>3. N \in SUBSET Nat
  OBVIOUS
<1> HIDE DEF N
<1>4. n \in N
  BY <1>1, <1>2, <1>3, Induction
<1>5. PICK h : IsNumber(data, i, n, h)
  BY <1>4 DEF N
<1> QED  BY <1>5, NumberIsChosen

\* A cell of bytes, within them or behind them, is a byte.
LEMMA CellType ==
    ASSUME NEW data \in Seq(Byte), NEW i \in Nat
    PROVE  Cell(data, i) \in Byte /\ Cell(data, i) \in Nat
<1>1. Base \in Nat \ {0} /\ 0 \in Byte
  BY OnionAssumption DEF Byte
<1>2. Len(data) \in Nat /\ \A j \in 1..Len(data) : data[j] \in Byte
  BY ElementOf
<1>3. Cell(data, i) \in Byte
  BY <1>1, <1>2 DEF Cell
<1> QED  BY <1>1, <1>3 DEF Byte

\* It is natural.
LEMMA NumberType ==
    ASSUME NEW data \in Seq(Byte), NEW i \in Nat \ {0}, NEW n \in Nat
    PROVE  ReadBe(data, i, n) \in Nat
<1>1. PICK g : IsNumber(data, i, n, g) /\ ReadBe(data, i, n) = g[n]
  BY NumberExists
<1> DEFINE S == {k \in Nat : k <= n => g[k] \in Nat}
<1>2. 0 \in S
  <2>1. g[0] = 0
    BY <1>1 DEF IsNumber, NumberStep
  <2> QED  BY <2>1
<1>3. ASSUME NEW k \in S PROVE k + 1 \in S
  <2> SUFFICES ASSUME k + 1 <= n PROVE g[k + 1] \in Nat
    OBVIOUS
  <2>1. k \in Nat /\ g[k] \in Nat
    OBVIOUS
  <2>2. g[k + 1] = g[k] * Base + Cell(data, i + (k + 1) - 1)
    <3>1. k + 1 \in 0..n /\ (k + 1) - 1 = k /\ k + 1 # 0
      BY <2>1
    <3> QED  BY <1>1, <3>1 DEF IsNumber, NumberStep
  <2>3. Cell(data, i + (k + 1) - 1) \in Nat
    <3>1. i + (k + 1) - 1 \in Nat
      BY <2>1
    <3> QED  BY <3>1, CellType
  <2>4. Base \in Nat
    BY OnionAssumption
  <2>5. g[k] * Base \in Nat
    BY <2>1, <2>4
  <2> QED  BY <2>2, <2>3, <2>5
<1>4. S \in SUBSET Nat
  OBVIOUS
<1> HIDE DEF S
<1>5. n \in S
  BY <1>2, <1>3, <1>4, Induction
<1> QED  BY <1>1, <1>5 DEF S

\* It depends on its cells alone.
LEMMA NumberShifts ==
    ASSUME NEW a, NEW b, NEW i, NEW j, NEW n \in Nat,
           \A k \in 1..n : Cell(a, i + k - 1) = Cell(b, j + k - 1)
    PROVE  ReadBe(a, i, n) = ReadBe(b, j, n)
<1>1. PICK g : IsNumber(a, i, n, g) /\ ReadBe(a, i, n) = g[n]
  BY NumberExists
<1>2. PICK h : IsNumber(b, j, n, h) /\ ReadBe(b, j, n) = h[n]
  BY NumberExists
<1> DEFINE S == {k \in Nat : k <= n => g[k] = h[k]}
<1>3. 0 \in S
  BY <1>1, <1>2 DEF IsNumber, NumberStep
<1>4. ASSUME NEW k \in S PROVE k + 1 \in S
  <2> SUFFICES ASSUME k + 1 <= n PROVE g[k + 1] = h[k + 1]
    OBVIOUS
  <2>1. g[k] = h[k] /\ k + 1 \in 1..n /\ k + 1 \in 0..n /\ (k + 1) - 1 = k /\ k + 1 # 0
    OBVIOUS
  <2>2. /\ g[k + 1] = g[k] * Base + Cell(a, i + (k + 1) - 1)
        /\ h[k + 1] = h[k] * Base + Cell(b, j + (k + 1) - 1)
    BY <1>1, <1>2, <2>1 DEF IsNumber, NumberStep
  <2> QED  BY <2>1, <2>2
<1>5. S \in SUBSET Nat
  OBVIOUS
<1> HIDE DEF S
<1>6. n \in S
  BY <1>3, <1>4, <1>5, Induction
<1> QED  BY <1>1, <1>2, <1>6 DEF S

\* The cells behind the first one of a BigSize.
Behinds(data, i) == IF Cell(data, i) \in DOMAIN Wide THEN Wide[Cell(data, i)] ELSE 0

\* A BigSize is behind its first cell, within the data, and the only one there.
LEMMA BigSizeType ==
    ASSUME NEW data \in Seq(Byte), NEW i \in Nat, NEW t \in BigSize(data, i)
    PROVE  /\ t.value \in Nat /\ t.end \in Nat /\ i < t.end /\ t.end <= Len(data)
           /\ BigSize(data, i) = {t}
<1> DEFINE n == Behinds(data, i)
           value == IF n = 0 THEN Cell(data, i) ELSE ReadBe(data, i + 1, n)
<1>1. n \in Nat
  BY OnionAssumption DEF Behinds
<1>2. Len(data) \in Nat
  OBVIOUS
<1>3. BigSize(data, i) =
        IF i >= Len(data) \/ i + 1 + n > Len(data) THEN {}
        ELSE {[value |-> value, end |-> i + 1 + n]}
  BY DEF BigSize, Behinds
<1>4. value \in Nat
  <2>1. i + 1 \in Nat \ {0}
    OBVIOUS
  <2> HIDE DEF n
  <2>2. ReadBe(data, i + 1, n) \in Nat
    BY <1>1, <2>1, NumberType
  <2> QED  BY <2>2, CellType
<1> HIDE DEF n, value
<1>5. ~(i + 1 + n > Len(data)) /\ t = [value |-> value, end |-> i + 1 + n]
  BY <1>3
<1>6. BigSize(data, i) = {t}
  BY <1>3, <1>5
<1> QED  BY <1>1, <1>2, <1>4, <1>5, <1>6

\* One stream behind the cells of another.
IsBehind(data, tail, n) ==
    /\ Len(data) = n + Len(tail)
    /\ \A i \in Nat : Cell(data, n + i) = Cell(tail, i)

\* A BigSize of a stream is one where the stream is put.
LEMMA BigSizeShifts ==
    ASSUME NEW data \in Seq(Byte), NEW tail \in Seq(Byte), NEW m \in Nat,
           IsBehind(data, tail, m), NEW i \in Nat
    PROVE  BigSize(data, m + i) =
             {[value |-> t.value, end |-> m + t.end] : t \in BigSize(tail, i)}
<1> DEFINE n == Behinds(tail, i)
           value == IF n = 0 THEN Cell(tail, i) ELSE ReadBe(tail, i + 1, n)
<1>1. n \in Nat
  BY OnionAssumption DEF Behinds
<1>2. Len(data) \in Nat /\ Len(tail) \in Nat /\ Len(data) = m + Len(tail)
  BY DEF IsBehind
<1>3. Cell(data, m + i) = Cell(tail, i) /\ Behinds(data, m + i) = n
  BY DEF IsBehind, Behinds
<1>4. BigSize(tail, i) =
        IF i >= Len(tail) \/ i + 1 + n > Len(tail) THEN {}
        ELSE {[value |-> value, end |-> i + 1 + n]}
  BY DEF BigSize, Behinds
<1>5. BigSize(data, m + i) =
        IF m + i >= Len(data) \/ m + i + 1 + n > Len(data) THEN {}
        ELSE {[value |-> IF n = 0 THEN Cell(tail, i) ELSE ReadBe(data, m + i + 1, n),
               end |-> m + i + 1 + n]}
  <2>1. BigSize(data, m + i) =
        IF m + i >= Len(data) \/ m + i + 1 + Behinds(data, m + i) > Len(data) THEN {}
        ELSE {[value |-> IF Behinds(data, m + i) = 0 THEN Cell(data, m + i)
                         ELSE ReadBe(data, m + i + 1, Behinds(data, m + i)),
               end |-> m + i + 1 + Behinds(data, m + i)]}
    BY DEF BigSize, Behinds
  <2> HIDE DEF n
  <2> QED  BY <1>3, <2>1
<1> HIDE DEF n
<1>6. ReadBe(data, m + i + 1, n) = ReadBe(tail, i + 1, n)
  <2>1. \A k \in 1..n : Cell(data, m + i + 1 + k - 1) = Cell(tail, i + 1 + k - 1)
    <3> SUFFICES ASSUME NEW k \in 1..n
                 PROVE  Cell(data, m + i + 1 + k - 1) = Cell(tail, i + 1 + k - 1)
      OBVIOUS
    <3>1. i + k \in Nat /\ m + i + 1 + k - 1 = m + (i + k) /\ i + 1 + k - 1 = i + k
      BY <1>1
    <3> QED  BY <3>1 DEF IsBehind
  <2> DEFINE a == m + i + 1
             b == i + 1
  <2>2. \A k \in 1..n : Cell(data, a + k - 1) = Cell(tail, b + k - 1)
    BY <2>1
  <2> HIDE DEF a, b
  <2>3. ReadBe(data, a, n) = ReadBe(tail, b, n)
    BY <1>1, <2>2, NumberShifts
  <2> QED  BY <2>3 DEF a, b
<1> HIDE DEF value
<1>7. BigSize(data, m + i) =
        IF i >= Len(tail) \/ i + 1 + n > Len(tail) THEN {}
        ELSE {[value |-> value, end |-> m + (i + 1 + n)]}
  <2>1. (m + i >= Len(data)) <=> (i >= Len(tail))
    BY <1>2
  <2>2. (m + i + 1 + n > Len(data)) <=> (i + 1 + n > Len(tail))
    BY <1>1, <1>2
  <2>3. m + i + 1 + n = m + (i + 1 + n)
    BY <1>1
  <2> QED  BY <1>5, <1>6, <2>1, <2>2, <2>3 DEF value
<1>8. CASE i >= Len(tail) \/ i + 1 + n > Len(tail)
  BY <1>4, <1>7, <1>8
<1>9. CASE ~(i >= Len(tail) \/ i + 1 + n > Len(tail))
  <2> DEFINE t == [value |-> value, end |-> i + 1 + n]
  <2>1. BigSize(tail, i) = {t} /\ t.value = value /\ t.end = i + 1 + n
    BY <1>4, <1>9
  <2>2. BigSize(data, m + i) = {[value |-> t.value, end |-> m + t.end]}
    BY <1>7, <1>9, <2>1
  <2> HIDE DEF t
  <2> QED  BY <2>1, <2>2
<1> QED  BY <1>8, <1>9

\* Each number read behind the front of m cells is one read of the tail.
LEMMA BigSizeBehind ==
    ASSUME NEW data \in Seq(Byte), NEW tail \in Seq(Byte), NEW m \in Nat,
           IsBehind(data, tail, m), NEW i \in Nat, NEW j, j = m + i,
           NEW l \in BigSize(data, j)
    PROVE  \E k \in BigSize(tail, i) :
               /\ l = [value |-> k.value, end |-> m + k.end]
               /\ l.value = k.value /\ l.end = m + k.end
<1>1. l \in BigSize(data, m + i)
  OBVIOUS
<1>2. PICK k \in BigSize(tail, i) : l = [value |-> k.value, end |-> m + k.end]
  BY <1>1, BigSizeShifts
<1> QED  BY <1>2

-----------------------------------------------------------------------------
(* The records of a stream.                                                *)

\* A record ends behind its start, and no other starts there.
LEMMA RecordType ==
    ASSUME NEW data \in Seq(Byte), NEW r \in Records(data)
    PROVE  /\ r.start \in Nat /\ r.end \in Nat /\ r.start < r.end
           /\ r.end <= Len(data)
           /\ \A q \in Records(data) : q.start = r.start => q.end = r.end
<1>1. /\ Len(data) \in Nat /\ r.start \in 0..Len(data) /\ r.end \in 0..Len(data)
  BY DEF Records
<1>2. PICK t \in BigSize(data, r.start) :
            \E l \in BigSize(data, t.end) : r.end = l.end + l.value
  BY DEF Records
<1>3. PICK l \in BigSize(data, t.end) : r.end = l.end + l.value
  BY <1>2
<1>4. /\ t.end \in Nat /\ r.start < t.end /\ BigSize(data, r.start) = {t}
  BY <1>1, BigSizeType
<1>5. /\ l.end \in Nat /\ l.value \in Nat /\ t.end < l.end
      /\ BigSize(data, t.end) = {l}
  BY <1>4, BigSizeType
<1>6. ASSUME NEW q \in Records(data), q.start = r.start
      PROVE  q.end = r.end
  <2>1. \E u \in BigSize(data, q.start) : \E k \in BigSize(data, u.end) :
            q.end = k.end + k.value
    BY DEF Records
  <2> QED  BY <1>3, <1>4, <1>5, <1>6, <2>1
<1> QED  BY <1>1, <1>3, <1>4, <1>5, <1>6

\* A type and a length that the data behind them suffice for are a record.
LEMMA RecordMade ==
    ASSUME NEW data \in Seq(Byte), NEW s \in Nat,
           NEW t \in BigSize(data, s), NEW l \in BigSize(data, t.end),
           l.end + l.value <= Len(data)
    PROVE  [start |-> s, end |-> l.end + l.value] \in Records(data)
<1>1. /\ t.end \in Nat /\ s < t.end /\ Len(data) \in Nat
  BY BigSizeType
<1>2. /\ l.end \in Nat /\ l.value \in Nat /\ t.end < l.end
  BY <1>1, BigSizeType
<1> DEFINE r == [start |-> s, end |-> l.end + l.value]
<1>3. r \in [start : 0..Len(data), end : 0..Len(data)]
  BY <1>1, <1>2
<1>4. r.start = s /\ r.end = l.end + l.value
  OBVIOUS
<1> HIDE DEF r
<1>5. r \in Records(data)
  BY <1>3, <1>4 DEF Records
<1> QED  BY <1>5 DEF r

\* Each start but the first is where a record ends that a start leads to, and
\* where a record ends that a start leads to is a start.
LEMMA StartsLead ==
    ASSUME NEW data
    PROVE  /\ 0 \in Starts(data)
           /\ \A p \in Starts(data) : p # 0 =>
                \E r \in Records(data) : r.end = p /\ r.start \in Starts(data)
           /\ \A r \in Records(data) : r.start \in Starts(data) => r.end \in Starts(data)
<1> DEFINE Led(S) == \A r \in S : r.start = 0 \/ \E q \in S : q.end = r.start
<1>1. \A p : p \in Starts(data) <=>
            p = 0 \/ \E S \in SUBSET Records(data) : Led(S) /\ \E r \in S : r.end = p
  BY DEF Starts
<1>2. ASSUME NEW p \in Starts(data), p # 0
      PROVE  \E r \in Records(data) : r.end = p /\ r.start \in Starts(data)
  <2>1. PICK S \in SUBSET Records(data) : Led(S) /\ \E r \in S : r.end = p
    BY <1>1, <1>2
  <2>2. PICK r \in S : r.end = p
    BY <2>1
  <2>3. r.start = 0 \/ \E q \in S : q.end = r.start
    BY <2>1
  <2> HIDE DEF Led
  <2>4. r.start \in Starts(data)
    BY <1>1, <2>1, <2>3
  <2> QED  BY <2>2, <2>4
<1>3. ASSUME NEW r \in Records(data), r.start \in Starts(data)
      PROVE  r.end \in Starts(data)
  <2>1. CASE r.start = 0
    <3> DEFINE S == {r}
    <3>1. S \in SUBSET Records(data) /\ Led(S) /\ r \in S
      BY <2>1
    <3> HIDE DEF S, Led
    <3> QED  BY <1>1, <3>1
  <2>2. CASE r.start # 0
    <3>1. PICK S \in SUBSET Records(data) : Led(S) /\ \E q \in S : q.end = r.start
      BY <1>1, <1>3, <2>2
    <3> DEFINE T == S \cup {r}
    <3>2. T \in SUBSET Records(data) /\ r \in T /\ S \subseteq T
      OBVIOUS
    <3>3. Led(T)
      <4> SUFFICES ASSUME NEW x \in T
                   PROVE  x.start = 0 \/ \E q \in T : q.end = x.start
        OBVIOUS
      <4>1. CASE x \in S
        BY <3>1, <3>2, <4>1
      <4>2. CASE x = r
        BY <3>1, <3>2, <4>2
      <4> QED  BY <4>1, <4>2
    <3> HIDE DEF T, Led
    <3> QED  BY <1>1, <3>2, <3>3
  <2> QED  BY <2>1, <2>2
<1> QED  BY <1>1, <1>2, <1>3

\* A start is a number.
LEMMA StartsType ==
    ASSUME NEW data \in Seq(Byte)
    PROVE  Starts(data) \in SUBSET Nat
<1>1. \A p \in Starts(data) : p = 0 \/ \E r \in Records(data) : r.end = p
  BY StartsLead
<1> QED  BY <1>1, RecordType

\* What starts behind the walk is led to by the record that starts where it is.
LEMMA Onward ==
    ASSUME NEW data \in Seq(Byte), NEW s, Reached(data, s),
           NEW p \in Starts(data), s < p
    PROVE  \E r \in Records(data) : r.start = s /\ r.end <= p
<1> DEFINE T == {q \in Starts(data) : s < q}
<1>1. T \in SUBSET Nat /\ T # {} /\ s \in Nat /\ p \in T
  BY StartsType DEF Reached
<1>2. PICK q \in T : \A x \in T : q <= x
  <2> HIDE DEF T
  <2> QED  BY <1>1, Smallest
<1>3. q \in Nat /\ q # 0 /\ q \in Starts(data) /\ q <= p /\ s < q
  BY <1>1, <1>2
<1>4. PICK r \in Records(data) : r.end = q /\ r.start \in Starts(data)
  BY <1>3, StartsLead
<1>5. r.start \in Nat /\ r.start < q
  BY <1>4, RecordType
<1>6. ~(s < r.start)
  BY <1>1, <1>2, <1>3, <1>4, <1>5
<1>7. ~(r.start < s)
  BY <1>1, <1>3, <1>4, <1>5 DEF Reached
<1>8. r.start = s
  BY <1>1, <1>5, <1>6, <1>7
<1> QED  BY <1>3, <1>4, <1>8

\* At the beginning.
LEMMA ReachedFirst ==
    ASSUME NEW data \in Seq(Byte)
    PROVE  Reached(data, 0)
<1>1. \A p \in Starts(data) : ~(p < 0)
  BY StartsType
<1> QED  BY <1>1, StartsLead DEF Reached

\* Behind a record without fees.
LEMMA ReachedNext ==
    ASSUME NEW data \in Seq(Byte), NEW r \in Records(data), Reached(data, r.start),
           FeesAt(data, r.start) = {}
    PROVE  Reached(data, r.end)
<1>1. /\ r.start \in Nat /\ r.end \in Nat /\ r.start < r.end
      /\ \A q \in Records(data) : q.start = r.start => q.end = r.end
  BY RecordType
<1>2. r.end \in Starts(data)
  BY StartsLead DEF Reached
<1>3. ASSUME NEW p \in Starts(data), p < r.end
      PROVE  /\ FeesAt(data, p) = {}
             /\ \A q \in Records(data) : q.start = p => q.end <= r.end
  <2>1. p \in Nat
    BY StartsType
  <2>2. CASE p < r.start
    <3>1. \A q \in Records(data) : q.start = p => q.end <= r.start /\ q.end \in Nat
      BY <2>2, RecordType DEF Reached
    <3> QED  BY <1>1, <2>2, <3>1 DEF Reached
  <2>3. CASE p = r.start
    BY <1>1, <2>3
  <2>4. CASE r.start < p
    <3>1. PICK q \in Records(data) : q.start = r.start /\ q.end <= p
      BY <2>4, Onward
    <3> QED  BY <1>1, <1>3, <2>1, <3>1
  <2> QED  BY <1>1, <2>1, <2>2, <2>3, <2>4
<1> QED  BY <1>2, <1>3 DEF Reached

\* Where the fees are, they are the ones the stream states.
LEMMA FeesFound ==
    ASSUME NEW data \in Seq(Byte), NEW s, Reached(data, s), FeesAt(data, s) # {}
    PROVE  FeesIn(data) = FeesAt(data, s)
<1> DEFINE fees == {p \in Starts(data) : FeesAt(data, p) # {}}
<1>1. s \in fees /\ s \in Nat /\ fees \in SUBSET Nat
  BY StartsType DEF Reached
<1>2. \A p \in fees : ~(p < s)
  BY DEF Reached
<1> HIDE DEF fees
<1>3. {q \in fees : \A p \in fees : q <= p} = {s}
  <2>1. \A p \in fees : s <= p
    BY <1>1, <1>2
  <2>2. \A q \in fees : (\A p \in fees : q <= p) => q = s
    BY <1>1, <2>1
  <2> QED  BY <1>1, <2>1, <2>2
<1>4. FeesIn(data) = UNION {FeesAt(data, p) : p \in {q \in fees : \A p \in fees : q <= p}}
  BY DEF FeesIn, fees
<1> QED  BY <1>3, <1>4

\* Where no record starts, the stream has stated none.
LEMMA NoFees ==
    ASSUME NEW data \in Seq(Byte), NEW s, Reached(data, s),
           \A r \in Records(data) : r.start # s
    PROVE  FeesIn(data) = {}
<1> DEFINE fees == {p \in Starts(data) : FeesAt(data, p) # {}}
<1>1. s \in Nat
  BY StartsType DEF Reached
<1>2. ASSUME NEW p \in Starts(data) PROVE FeesAt(data, p) = {}
  <2>1. p \in Nat
    BY StartsType
  <2>2. CASE p < s
    BY <2>2 DEF Reached
  <2>3. CASE s < p
    BY <2>3, Onward
  <2>4. CASE p = s
    <3> SUFFICES ASSUME FeesAt(data, s) # {} PROVE FALSE
      BY <2>4
    <3>1. PICK t \in BigSize(data, s) : \E k \in BigSize(data, t.end) :
            k.value = 2 /\ k.end + 2 <= Len(data)
      BY DEF FeesAt
    <3>2. PICK k \in BigSize(data, t.end) : k.value = 2 /\ k.end + 2 <= Len(data)
      BY <3>1
    <3>3. [start |-> s, end |-> k.end + k.value] \in Records(data)
      BY <1>1, <3>2, RecordMade
    <3> QED  BY <3>3
  <2> QED  BY <1>1, <2>1, <2>2, <2>3, <2>4
<1>3. fees = {}
  BY <1>2
<1> HIDE DEF fees
<1>4. FeesIn(data) = UNION {FeesAt(data, p) : p \in {q \in fees : \A p \in fees : q <= p}}
  BY DEF FeesIn, fees
<1> QED  BY <1>3, <1>4

-----------------------------------------------------------------------------
(* The message.                                                            *)

\* The cells of an update, and where its records are.
LEMMA MeantCells ==
    ASSUME NEW u, NEW tail \in Seq(Byte), u.sig \in Seq(Byte), Len(u.sig) = SigCells,
           {u.ts, u.base, u.prop} \subseteq Byte, u.enabled \in BOOLEAN
    PROVE  LET m == Serialized(u) \o tail IN
           /\ m \in Seq(Nat) /\ Len(m) = BodyLen + Len(tail) /\ Len(tail) \in Nat
           /\ m[1] = u.sig[1] /\ m[2] = u.sig[2]
           /\ Cell(m, Ts) = u.ts /\ Cell(m, BaseFee) = u.base
           /\ Cell(m, PropFee) = u.prop
           /\ (Cell(m, Disabled) = 0) = u.enabled
           /\ IsBehind(m, tail, BodyLen)
<1> DEFINE flag == IF u.enabled THEN 0 ELSE 1
           f == <<u.ts, flag, u.base, u.prop>>
           s == Serialized(u)
           m == s \o tail
<1>1. Byte \subseteq Nat /\ flag \in Nat
  BY OnionAssumption DEF Byte
<1>2. /\ u.sig \in Seq(Nat) /\ tail \in Seq(Nat) /\ Len(tail) \in Nat
      /\ u.ts \in Nat /\ u.base \in Nat /\ u.prop \in Nat
  <2>1. u.sig \in Seq(Nat) /\ tail \in Seq(Nat)
    BY <1>1, SeqMonotonic
  <2>2. Len(tail) \in Nat
    OBVIOUS
  <2>3. u.ts \in Nat /\ u.base \in Nat /\ u.prop \in Nat
    BY <1>1
  <2> QED  BY <2>1, <2>2, <2>3
<1>3. s = u.sig \o f
  BY DEF Serialized
<1>4. (flag = 0) = u.enabled
  BY DEF flag
<1> HIDE DEF flag
<1>5. /\ f \in Seq(Nat) /\ Len(f) = 4
      /\ f[1] = u.ts /\ f[2] = flag /\ f[3] = u.base /\ f[4] = u.prop
  BY <1>1, <1>2
<1> HIDE DEF f, s
<1>6. /\ s \in Seq(Nat) /\ Len(s) = 6
      /\ s[1] = u.sig[1] /\ s[2] = u.sig[2]
      /\ s[3] = u.ts /\ s[4] = flag /\ s[5] = u.base /\ s[6] = u.prop
  <2>1. /\ s \in Seq(Nat) /\ Len(s) = Len(u.sig) + Len(f)
        /\ \A i \in 1..Len(u.sig) + Len(f) :
                s[i] = IF i <= Len(u.sig) THEN u.sig[i] ELSE f[i - Len(u.sig)]
    BY <1>2, <1>3, <1>5, ConcatProperties
  <2>2. Len(u.sig) = 2
    BY DEF SigCells
  <2>3. Len(s) = 6 /\ \A i \in 1..6 : s[i] = IF i <= 2 THEN u.sig[i] ELSE f[i - 2]
    BY <1>5, <2>1, <2>2
  <2>4. s[1] = u.sig[1] /\ s[2] = u.sig[2]
    BY <2>3
  <2>5. \A i \in 3..6 : s[i] = f[i - 2]
    BY <2>3
  <2>6. s[3] = f[3 - 2] /\ s[4] = f[4 - 2] /\ s[5] = f[5 - 2] /\ s[6] = f[6 - 2]
    BY <2>5
  <2>7. s[3] = f[1] /\ s[4] = f[2] /\ s[5] = f[3] /\ s[6] = f[4]
    BY <2>6
  <2> QED  BY <1>5, <2>1, <2>3, <2>4, <2>7
<1>7. /\ m \in Seq(Nat) /\ Len(m) = 6 + Len(tail)
      /\ \A i \in 1..6 + Len(tail) : m[i] = IF i <= 6 THEN s[i] ELSE tail[i - 6]
  <2>1. /\ m \in Seq(Nat) /\ Len(m) = Len(s) + Len(tail)
        /\ \A i \in 1..Len(s) + Len(tail) :
                m[i] = IF i <= Len(s) THEN s[i] ELSE tail[i - Len(s)]
    BY <1>2, <1>6, ConcatProperties
  <2> HIDE DEF m
  <2>2. Len(s) = 6
    BY <1>6
  <2> QED  BY <2>1, <2>2
<1> HIDE DEF m
<1>8. \A i \in 1..6 : m[i] = s[i]
  BY <1>2, <1>7
<1>9. ASSUME NEW i \in 1..Len(tail) PROVE m[6 + i] = tail[i]
  <2>1. 6 + i \in 1..6 + Len(tail) /\ ~(6 + i <= 6) /\ 6 + i - 6 = i
    BY <1>2
  <2>2. m[6 + i] = IF 6 + i <= 6 THEN s[6 + i] ELSE tail[6 + i - 6]
    BY <1>7, <2>1
  <2> QED  BY <2>1, <2>2
<1>10. ASSUME NEW i \in Nat PROVE Cell(m, 6 + i) = Cell(tail, i)
  <2>1. CASE i < Len(tail)
    <3>1. i + 1 \in 1..Len(tail) /\ 6 + i + 1 = 6 + (i + 1)
      BY <1>2, <2>1
    <3>2. m[6 + i + 1] = tail[i + 1]
      BY <1>9, <3>1
    <3> QED  BY <1>2, <1>7, <2>1, <3>2 DEF Cell
  <2>2. CASE ~(i < Len(tail))
    BY <1>2, <1>7, <2>2 DEF Cell
  <2> QED  BY <2>1, <2>2
<1>11. /\ Cell(m, 2) = u.ts /\ Cell(m, 4) = u.base /\ Cell(m, 5) = u.prop
       /\ Cell(m, 3) = flag /\ m[1] = u.sig[1] /\ m[2] = u.sig[2]
  <2>1. /\ m[1] = s[1] /\ m[2] = s[2] /\ m[3] = s[3] /\ m[4] = s[4]
        /\ m[5] = s[5] /\ m[6] = s[6]
    BY <1>8
  <2>2. /\ Cell(m, 2) = m[3] /\ Cell(m, 3) = m[4] /\ Cell(m, 4) = m[5]
        /\ Cell(m, 5) = m[6]
    BY <1>2, <1>7 DEF Cell
  <2> QED  BY <1>6, <2>1, <2>2
<1> QED
  BY <1>2, <1>4, <1>7, <1>10, <1>11
     DEF m, s, BodyLen, Ts, BaseFee, PropFee, Disabled, IsBehind

\* The type prefix is two cells.
LEMMA PrefixCells ==
    ASSUME NEW s \in Seq(Nat)
    PROVE  IsPrefix(TypePrefix, s) <=> Len(s) >= 2 /\ s[1] = 0 /\ s[2] = 1
<1> DEFINE p == TypePrefix
<1>1. p \in Seq(Nat) /\ Len(p) = 2 /\ p[1] = 0 /\ p[2] = 1 /\ Len(s) \in Nat
  BY DEF TypePrefix
<1> HIDE DEF p
<1>2. ASSUME NEW t \in Seq(Nat), Len(t) >= 2
      PROVE  /\ SubSeq(t, 1, 2) \in Seq(Nat) /\ Len(SubSeq(t, 1, 2)) = 2
             /\ SubSeq(t, 1, 2)[1] = t[1] /\ SubSeq(t, 1, 2)[2] = t[2]
  <2>1. \A i \in 1..2 : t[i] \in Nat
    BY <1>2, ElementOf
  <2>2. /\ SubSeq(t, 1, 2) \in Seq(Nat) /\ Len(SubSeq(t, 1, 2)) = 2
        /\ \A i \in 1..2 : SubSeq(t, 1, 2)[i] = t[1 + i - 1]
    BY <2>1, SubSeqProperties
  <2> QED  BY <2>2
<1>3. Len(s) >= 2 =>
        (SubSeq(p, 1, 2) = SubSeq(s, 1, 2) <=> s[1] = 0 /\ s[2] = 1)
  <2> SUFFICES ASSUME Len(s) >= 2
               PROVE  SubSeq(p, 1, 2) = SubSeq(s, 1, 2) <=> s[1] = 0 /\ s[2] = 1
    OBVIOUS
  <2>1. /\ SubSeq(p, 1, 2) \in Seq(Nat) /\ Len(SubSeq(p, 1, 2)) = 2
        /\ SubSeq(p, 1, 2)[1] = 0 /\ SubSeq(p, 1, 2)[2] = 1
    BY <1>1, <1>2
  <2>2. /\ SubSeq(s, 1, 2) \in Seq(Nat) /\ Len(SubSeq(s, 1, 2)) = 2
        /\ SubSeq(s, 1, 2)[1] = s[1] /\ SubSeq(s, 1, 2)[2] = s[2]
    BY <1>2
  <2> DEFINE a == SubSeq(p, 1, 2)
             b == SubSeq(s, 1, 2)
  <2> HIDE DEF a, b
  <2>3. s[1] = 0 /\ s[2] = 1 => a = b
    <3> SUFFICES ASSUME s[1] = 0, s[2] = 1 PROVE a = b
      OBVIOUS
    <3>1. \A i \in 1..Len(a) : a[i] = b[i]
      BY <2>1, <2>2 DEF a, b
    <3> QED  BY <2>1, <2>2, <3>1, SeqEqual DEF a, b
  <2> QED  BY <2>1, <2>2, <2>3 DEF a, b
<1> QED  BY <1>1, <1>3 DEF IsPrefix, p

\* What is behind it.
LEMMA PrefixRest ==
    ASSUME NEW s \in Seq(Nat)
    PROVE  IsPrefix(TypePrefix, TypePrefix \o s) /\ Rest(TypePrefix \o s, 2) = s
<1> DEFINE t == TypePrefix \o s
<1>1. /\ TypePrefix \in Seq(Nat) /\ Len(TypePrefix) = 2
      /\ TypePrefix[1] = 0 /\ TypePrefix[2] = 1
  BY DEF TypePrefix
<1>2. /\ t \in Seq(Nat) /\ Len(t) = 2 + Len(s) /\ Len(s) \in Nat
      /\ t[1] = 0 /\ t[2] = 1 /\ \A i \in 1..Len(s) : t[2 + i] = s[i]
  <2>0. /\ t \in Seq(Nat) /\ Len(t) = Len(TypePrefix) + Len(s) /\ Len(s) \in Nat
        /\ \A i \in 1..Len(TypePrefix) + Len(s) : t[i] =
                IF i <= Len(TypePrefix) THEN TypePrefix[i] ELSE s[i - Len(TypePrefix)]
    <3>1. TypePrefix \in Seq(Nat)
      BY <1>1
    <3>2. Len(s) \in Nat
      OBVIOUS
    <3> QED  BY <3>1, <3>2, ConcatProperties
  <2> HIDE DEF t
  <2>1. /\ t \in Seq(Nat) /\ Len(t) = 2 + Len(s) /\ Len(s) \in Nat
        /\ \A i \in 1..2 + Len(s) :
                t[i] = IF i <= 2 THEN TypePrefix[i] ELSE s[i - 2]
    BY <1>1, <2>0
  <2>2. \A i \in 1..Len(s) : 2 + i \in 1..2 + Len(s) /\ ~(2 + i <= 2) /\ 2 + i - 2 = i
    BY <2>1
  <2>3. \A i \in 1..Len(s) : t[2 + i] = s[i]
    BY <2>1, <2>2
  <2> QED  BY <1>1, <2>1, <2>3
<1> HIDE DEF t
<1>3. IsPrefix(TypePrefix, t)
  BY <1>2, PrefixCells
<1>4. Rest(t, 2) = s
  <2>1. Rest(t, 2) = SubSeq(t, 3, Len(t))
    BY DEF Rest
  <2>2. SubSeq(t, 3, Len(t)) = [i \in 1..Len(s) |-> t[2 + i]]
    BY <1>2
  <2>3. s = [i \in 1..Len(s) |-> s[i]]
    OBVIOUS
  <2> QED  BY <1>2, <2>1, <2>2, <2>3
<1> QED  BY <1>3, <1>4 DEF t

\* A message that arrives has all the cells of its length, and they are its update.
LEMMA Arrived ==
    ASSUME IsMessage(msg), msg.arrives
    PROVE  LET header == Header[msg.code]
               start == header + 1
               len == Cell(msg.data, header)
               slice == SubSeq(msg.data, start + 1, start + len)
               u == msg.update
           IN
           /\ msg.code \in DOMAIN Header
           /\ ~(Len(msg.data) < start) /\ len # 0 /\ ~(Len(msg.data) < start + len)
           /\ ~msg.ambiguous =>
                Meant = IF IsPrefix(TypePrefix, slice)
                        THEN Rest(slice, Len(TypePrefix)) ELSE slice
           /\ msg.tail \in Seq(Byte) /\ u.sig \in Seq(Byte) /\ Len(u.sig) = SigCells
           /\ {u.ts, u.base, u.prop} \subseteq Byte /\ u.enabled \in BOOLEAN
<1> DEFINE header == Header[msg.code]
           start == header + 1
           len == Cell(msg.data, header)
           slice == SubSeq(msg.data, start + 1, start + len)
           u == msg.update
<1>1. msg.code \in DOMAIN Header /\ IsWhole(msg) /\ msg.data \in Seq(0..Word - 1)
  BY DEF IsMessage
<1>2. header \in Nat /\ Len(msg.data) \in Nat
  BY <1>1, OnionAssumption
<1>3. /\ msg.tail \in Seq(Byte) /\ u.sig \in Seq(Byte) /\ Len(u.sig) = SigCells
      /\ {u.ts, u.base, u.prop} \subseteq Byte /\ u.enabled \in BOOLEAN
      /\ start <= Len(msg.data) /\ start + msg.data[start] <= Len(msg.data)
  BY <1>1 DEF IsWhole, Byte
<1>4. msg.data[start] = len /\ len \in Nat
  <2>1. start \in 1..Len(msg.data)
    BY <1>2, <1>3
  <2>2. msg.data[start] \in 0..Word - 1
    BY <1>1, <2>1, ElementOf
  <2>3. header < Len(msg.data)
    BY <1>2, <1>3
  <2> HIDE DEF header
  <2> QED  BY <2>2, <2>3, OnionAssumption DEF Cell
<1>5. \/ slice = TypePrefix \o Meant /\ ~msg.ambiguous
      \/ slice = Meant /\ (msg.ambiguous <=> u.sig = TypePrefix)
  <2>1. slice = SubSeq(msg.data, start + 1, start + msg.data[start])
    BY <1>4
  <2> QED  BY <1>1, <2>1 DEF IsWhole, Meant
<1>6. /\ Meant \in Seq(Nat) /\ Len(Meant) = BodyLen + Len(msg.tail)
      /\ Len(msg.tail) \in Nat /\ Meant[1] = u.sig[1] /\ Meant[2] = u.sig[2]
  BY <1>3, MeantCells DEF Meant
<1>7. len # 0
  <2> SUFFICES ASSUME len = 0 PROVE FALSE
    OBVIOUS
  <2>1. start + len < start + 1
    BY <1>2, <1>4
  <2> HIDE DEF len, header
  <2>2. slice = <<>>
    BY <1>1, <1>2, <1>3, <1>4, <2>1
  <2>3. Len(slice) = 0
    BY <2>2
  <2>4. Len(TypePrefix \o Meant) = 2 + Len(Meant)
    <3>1. TypePrefix \in Seq(Nat) /\ Len(TypePrefix) = 2
      BY DEF TypePrefix
    <3>2. TypePrefix \in Seq(Nat) /\ Meant \in Seq(Nat)
      BY <1>6, <3>1
    <3>3. Len(TypePrefix \o Meant) = Len(TypePrefix) + Len(Meant)
      BY <3>2, ConcatProperties
    <3> QED  BY <3>1, <3>3
  <2> HIDE DEF slice
  <2>5. BodyLen = 6 /\ Len(Meant) \in Nat /\ Len(Meant) >= 6
    BY <1>6 DEF BodyLen
  <2> QED  BY <1>5, <2>3, <2>4, <2>5
<1> HIDE DEF slice
<1>8. ~msg.ambiguous =>
        Meant = IF IsPrefix(TypePrefix, slice) THEN Rest(slice, Len(TypePrefix))
                ELSE slice
  <2>1. Len(TypePrefix) = 2
    BY DEF TypePrefix
  <2>2. CASE slice = TypePrefix \o Meant
    BY <1>6, <2>1, <2>2, PrefixRest
  <2>3. CASE slice = Meant /\ (msg.ambiguous <=> u.sig = TypePrefix) /\ ~msg.ambiguous
    <3>1. u.sig # <<0, 1>>
      BY <2>3 DEF TypePrefix
    <3>2. ~(u.sig[1] = 0 /\ u.sig[2] = 1)
      <4>1. u.sig = [i \in 1..2 |-> u.sig[i]]
        BY <1>3 DEF SigCells
      <4>2. u.sig[1] = 0 /\ u.sig[2] = 1 => u.sig = <<0, 1>>
        BY <4>1
      <4> QED  BY <3>1, <4>2
    <3>3. ~IsPrefix(TypePrefix, slice)
      BY <1>6, <2>3, <3>2, PrefixCells
    <3> QED  BY <2>3, <3>3
  <2> QED  BY <1>5, <2>2, <2>3
<1> QED  BY <1>1, <1>2, <1>3, <1>4, <1>7, <1>8 DEF slice

-----------------------------------------------------------------------------
(* The planner and execute.                                                *)

\* The planner changes a route that it keeps, and goes on.
LEMMA TranslateStep ==
    ASSUME IInv, TranslateRoute
    PROVE  RoutesInv' /\ SentInv'
<1> DEFINE N == Len(quote.routes)
           q == quote.routes[next]
           route == Normalized(routes[next])
           last == Last(route.path)
           real == Unsplit(last.short_channel_id_dir)
<1>1. /\ N \in Nat /\ next \in 1..N /\ Len(routes) = N /\ DOMAIN routes = 1..N
      /\ routes = [r \in 1..N |-> routes[r]]
      /\ stage = "solved" /\ sent = <<>> /\ kept \in Seq(1..N)
      /\ IsRoute(q) /\ quote' = quote /\ sent' = sent /\ next' = next + 1
      /\ \A r \in 1..N : r >= next => routes[r] = Solved(quote.server, quote.routes[r])
      /\ \A k \in 1..Len(kept) :
            kept[k] < next /\ routes[kept[k]].path = RealPath(quote.routes[kept[k]])
  <2>1. stage = "solved" /\ next <= Len(routes) /\ next' = next + 1
        /\ quote' = quote /\ sent' = sent
    BY DEF TranslateRoute
  <2>2. /\ next \in Nat \ {0} /\ IsSeq(routes, N) /\ kept \in Seq(1..N)
        /\ \A r \in 1..N : r >= next => routes[r] = Solved(quote.server, quote.routes[r])
        /\ \A k \in 1..Len(kept) :
            kept[k] < next /\ routes[kept[k]].path = RealPath(quote.routes[kept[k]])
    BY <2>1 DEF IInv, RoutesInv, Quoted
  <2>3. N \in Nat /\ Len(routes) = N /\ DOMAIN routes = 1..N
    BY <2>2, SeqForm
  <2>4. next \in 1..N
    BY <2>1, <2>2, <2>3
  <2>5. sent = <<>>
    BY <2>1 DEF IInv, SentInv
  <2>6. IsRoute(q)
    BY <2>4 DEF IInv, QuoteInv
  <2> QED  BY <2>1, <2>2, <2>3, <2>4, <2>5, <2>6 DEF IsSeq
<1>2. route.path = [i \in 1..Len(q.hops) |-> NewHop(q, i)] /\ "path" \in DOMAIN route
  <2>1. next \in 1..N /\ next >= next
    <3>1. next \in 1..N
      BY <1>1
    <3> HIDE DEF N
    <3> QED  BY <1>1, <3>1
  <2>2. routes[next] = Solved(quote.server, q)
    BY <1>1, <2>1
  <2>3. "path" \in DOMAIN route
    BY <2>2 DEF Normalized, Solved
  <2> QED  BY <1>1, <2>2, <2>3, NormalizedPath DEF IInv, QuoteInv
<1>3. real = {RealScidd(q.dest)} /\ Translated(route, RealScidd(q.dest)).path = RealPath(q)
  BY <1>1, <1>2, TranslatedPath
<1> HIDE DEF N
<1>4. CASE routes' = routes /\ kept' = kept /\ stage' \in {"solved", "refused"}
  <2>1. RoutesInv'
    <3>1. \A r \in 1..N : r >= next + 1 => routes[r] = Solved(quote.server, quote.routes[r])
      BY <1>1
    <3>2. \A k \in 1..Len(kept) : kept[k] < next + 1
      <4>1. \A k \in 1..Len(kept) : kept[k] \in 1..N
        BY <1>1, ElementOf
      <4> QED  BY <1>1, <4>1
    <3>3. next + 1 \in Nat \ {0}
      BY <1>1
    <3>4. IsSeq(routes, N)
      BY <1>1 DEF IsSeq
    <3> QED  BY <1>1, <1>4, <3>1, <3>2, <3>3, <3>4 DEF RoutesInv, Quoted, N
  <2>2. SentInv'
    BY <1>1, <1>4 DEF IInv, SentInv, Quoted
  <2> QED  BY <2>1, <2>2
<1>5. CASE /\ routes' = [routes EXCEPT ![next] = Translated(route, RealScidd(q.dest))]
           /\ kept' = Append(kept, next) /\ stage' = stage
  <2>1. /\ kept' \in Seq(1..N) /\ Len(kept) \in Nat /\ Len(kept') = Len(kept) + 1
        /\ \A k \in 1..Len(kept) : kept'[k] = kept[k] /\ kept[k] \in 1..N
        /\ kept'[Len(kept) + 1] = next
    <3>1. \A k \in 1..Len(kept) : kept[k] \in 1..N
      BY <1>1, ElementOf
    <3> QED  BY <1>1, <1>5, <3>1
  <2>2. \A r \in 1..N : routes'[r] = IF r = next
                            THEN Translated(route, RealScidd(q.dest)) ELSE routes[r]
    BY <1>1, <1>5
  <2>3. IsSeq(routes', N)
    <3>1. routes' = [r \in 1..N |-> IF r = next
                            THEN Translated(route, RealScidd(q.dest)) ELSE routes[r]]
      BY <1>1, <1>5
    <3> QED  BY <1>1, <2>2, <3>1 DEF IsSeq
  <2>4. RoutesInv'
    <3>1. \A r \in 1..N : r >= next + 1 =>
            routes'[r] = Solved(quote.server, quote.routes[r])
      <4>1. \A r \in 1..N : r >= next + 1 => r >= next /\ r # next
        BY <1>1
      <4> QED  BY <1>1, <2>2, <4>1
    <3>2. \A k \in 1..Len(kept') :
            kept'[k] < next + 1 /\ routes'[kept'[k]].path = RealPath(quote.routes[kept'[k]])
      <4> SUFFICES ASSUME NEW k \in 1..Len(kept')
                   PROVE  kept'[k] < next + 1
                          /\ routes'[kept'[k]].path = RealPath(quote.routes[kept'[k]])
        OBVIOUS
      <4>1. CASE k \in 1..Len(kept)
        <5>1. kept'[k] = kept[k] /\ kept[k] \in 1..N /\ kept[k] < next
          BY <1>1, <2>1, <4>1
        <5>2. routes'[kept[k]] = routes[kept[k]]
          BY <1>1, <2>2, <5>1
        <5> QED  BY <1>1, <4>1, <5>1, <5>2
      <4>2. CASE k = Len(kept) + 1
        <5>1. kept'[k] = next /\ routes'[next].path = RealPath(q)
          BY <1>1, <1>3, <2>1, <2>2, <4>2
        <5> QED  BY <1>1, <5>1
      <4> QED  BY <2>1, <4>1, <4>2
    <3>3. next + 1 \in Nat \ {0}
      BY <1>1
    <3> QED  BY <1>1, <1>5, <2>1, <2>3, <3>1, <3>2, <3>3 DEF RoutesInv, Quoted, N
  <2>5. SentInv'
    BY <1>1, <1>5, <2>1 DEF IInv, SentInv
  <2> QED  BY <2>4, <2>5
<1>6. QED
  BY <1>1, <1>3, <1>4, <1>5 DEF TranslateRoute

\* The plan is the routes that were kept.
LEMMA PlannedStep ==
    ASSUME IInv, Planned
    PROVE  RoutesInv' /\ SentInv'
<1>1. /\ stage = "solved" /\ stage' = "planned" /\ next' = 1 /\ sent = <<>>
      /\ quote' = quote /\ kept' = kept /\ sent' = sent
      /\ routes' = [k \in DOMAIN kept |-> routes[kept[k]]]
      /\ kept \in Seq(1..Len(quote.routes))
      /\ \A k \in 1..Len(kept) : routes[kept[k]].path = RealPath(Quoted(k))
  BY DEF IInv, RoutesInv, SentInv, Planned
<1>2. Len(kept) \in Nat /\ DOMAIN kept = 1..Len(kept)
  BY <1>1, ElementOf
<1>3. IsSeq(routes', Len(kept)) /\ \A k \in 1..Len(kept) : routes'[k] = routes[kept[k]]
  BY <1>1, <1>2 DEF IsSeq
<1>4. RoutesInv'
  BY <1>1, <1>3 DEF RoutesInv, Quoted
<1>5. SentInv'
  BY <1>1 DEF IInv, SentInv
<1> QED  BY <1>4, <1>5

\* A part more is sent, or the call ends.
LEMMA SendStep ==
    ASSUME IInv, SendRoute
    PROVE  RoutesInv' /\ SentInv'
<1> DEFINE n == Len(sent)
           path == routes[next].path
<1>1. /\ stage = "planned" /\ next' = next + 1 /\ quote' = quote
      /\ routes' = routes /\ kept' = kept
      /\ next \in Nat \ {0} /\ next <= Len(kept) /\ n = next - 1 /\ n \in Nat
      /\ path = RealPath(Quoted(next))
      /\ kept \in Seq(1..Len(quote.routes))
  <2>1. /\ stage = "planned" /\ next' = next + 1 /\ quote' = quote
        /\ routes' = routes /\ kept' = kept /\ next <= Len(routes)
    BY DEF SendRoute
  <2>2. /\ next \in Nat \ {0} /\ n = next - 1 /\ IsSeq(routes, Len(kept))
        /\ \A k \in 1..Len(kept) : routes[k].path = RealPath(Quoted(k))
        /\ kept \in Seq(1..Len(quote.routes))
    BY <2>1 DEF IInv, RoutesInv, SentInv
  <2>3. Len(routes) = Len(kept) /\ Len(kept) \in Nat
    BY <2>2, SeqForm
  <2> QED  BY <2>1, <2>2, <2>3
<1>2. RoutesInv'
  <2>1. next + 1 \in Nat \ {0}
    BY <1>1
  <2>2. stage' \in {"planned", "aborted"}
    BY <1>1 DEF SendRoute
  <2> QED  BY <1>1, <2>1, <2>2 DEF IInv, RoutesInv, Quoted
<1>3. CASE sent' = Append(sent, PartOf(path)) /\ stage' = stage
  <2> DEFINE S == {sent[k] : k \in 1..n} \cup {PartOf(path)}
  <2>1. IsSeq(sent, n) /\ \A k \in 1..n : sent[k] \in S
    BY DEF IInv, SentInv
  <2>2. sent \in Seq(S) /\ PartOf(path) \in S
    BY <2>1, SeqOver
  <2> HIDE DEF S
  <2>3. /\ sent' \in Seq(S) /\ Len(sent') = n + 1 /\ sent'[n + 1] = PartOf(path)
        /\ \A k \in 1..n : sent'[k] = sent[k]
    BY <1>3, <2>2
  <2>4. IsSeq(sent', n + 1)
    BY <1>1, <2>3 DEF IsSeq
  <2>5. \A k \in 1..n + 1 : sent'[k] = PartOf(RealPath(Quoted(k)))
    <3>1. \A k \in 1..n : sent'[k] = PartOf(RealPath(Quoted(k)))
      BY <2>3 DEF IInv, SentInv
    <3>2. sent'[n + 1] = PartOf(RealPath(Quoted(n + 1)))
      BY <1>1, <2>3
    <3> QED  BY <1>1, <3>1, <3>2
  <2>6. n + 1 <= Len(kept) /\ n + 1 = next' - 1
    BY <1>1
  <2>7. \A k \in 1..n + 1 : Quoted(k)' = Quoted(k)
    BY <1>1 DEF Quoted
  <2> QED  BY <1>1, <1>2, <1>3, <2>3, <2>4, <2>5, <2>6, <2>7 DEF SentInv
<1>4. CASE sent' = sent /\ stage' = "aborted"
  BY <1>1, <1>2, <1>4 DEF IInv, SentInv, Quoted
<1>5. QED
  <2>1. \/ sent' = Append(sent, PartOf(path)) /\ stage' = stage
        \/ sent' = sent /\ stage' = "aborted"
    BY DEF SendRoute, PartOf
  <2> QED  BY <1>2, <1>3, <1>4, <2>1

\* While no route is looked at nothing of the plan changes.
LEMMA HopsSame ==
    ASSUME IInv, UNCHANGED hopsVars
    PROVE  QuoteInv' /\ RoutesInv' /\ SentInv'
<1>1. /\ quote' = quote /\ routes' = routes /\ stage' = stage /\ next' = next
      /\ kept' = kept /\ sent' = sent
  BY DEF hopsVars
<1>2. QuoteInv'
  BY <1>1 DEF IInv, QuoteInv
<1>3. RoutesInv'
  BY <1>1 DEF IInv, RoutesInv, Quoted
<1>4. SentInv'
  BY <1>1 DEF IInv, SentInv, Quoted
<1> QED  BY <1>2, <1>3, <1>4

\* While the parser does not move, nothing of what it read changes.
LEMMA ParserStill ==
    ASSUME IInv, UNCHANGED <<msg, cu, pos, policy, inbound, reads>>,
           parse' = parse \/ (parse = "idle" /\ parse' = "frame")
    PROVE  UpdateInv' /\ ReadsInv' /\ ReadAsMeant'
<1>1. /\ msg' = msg /\ cu' = cu /\ pos' = pos /\ policy' = policy
      /\ inbound' = inbound /\ reads' = reads
  OBVIOUS
<1>2. UpdateInv'
  BY <1>1 DEF IInv, UpdateInv
<1>3. ReadsInv'
  BY <1>1 DEF IInv, ReadsInv, Meant
<1>4. ReadAsMeant'
  BY <1>1 DEF IInv, ReadAsMeant
<1> QED  BY <1>2, <1>3, <1>4

\* A step of the plan, before any failure.
LEMMA HopsStep ==
    ASSUME IInv, HopsNext, UNCHANGED <<onionVars, blame>>
    PROVE  IInv'
<1>1. report = NoReport
  <2>1. stage # "done"
    BY DEF HopsNext, TranslateRoute, Planned, SendRoute, AllSent
  <2> QED  BY <2>1 DEF IInv, ReportInv
<1>2. RoutesInv' /\ SentInv'
  <2>1. CASE TranslateRoute
    BY <2>1, TranslateStep
  <2>2. CASE Planned
    BY <2>2, PlannedStep
  <2>3. CASE SendRoute
    BY <2>3, SendStep
  <2>4. CASE AllSent
    <3>1. /\ stage' = "done" /\ quote' = quote /\ routes' = routes /\ next' = next
          /\ kept' = kept /\ sent' = sent /\ stage = "planned"
      BY <2>4 DEF AllSent
    <3>2. RoutesInv'
      BY <3>1 DEF IInv, RoutesInv, Quoted
    <3>3. SentInv'
      BY <3>1 DEF IInv, SentInv, Quoted
    <3> QED  BY <3>2, <3>3
  <2> QED  BY <2>1, <2>2, <2>3, <2>4 DEF HopsNext
<1>3. QuoteInv'
  <2>1. quote' = quote
    BY DEF HopsNext, TranslateRoute, Planned, SendRoute, AllSent
  <2> QED  BY <2>1 DEF IInv, QuoteInv
<1>4. /\ msg' = msg /\ parse' = parse /\ cu' = cu /\ policy' = policy
      /\ class' = class /\ report' = report /\ verdict' = verdict
      /\ excluded' = excluded /\ refreshed' = refreshed
  BY DEF onionVars, blame
<1>5. UpdateInv' /\ ReadsInv' /\ ReadAsMeant'
  BY ParserStill DEF onionVars
<1>6. ReportInv' /\ verdict' \notin {"judged", "unlocated"}
  BY <1>1, <1>4 DEF IInv, ReportInv, BlameIsFair
<1> QED  BY <1>2, <1>3, <1>5, <1>6 DEF IInv, BlameIsFair

\* The parser reads of the message no more than its update.
LEMMA UpdateStep ==
    ASSUME IInv, OnionNext
    PROVE  UpdateInv'
<1>0. /\ IsMessage(msg) /\ msg' = msg
      /\ Base \in Nat \ {0} /\ 0 \in Byte
  BY OnionAssumption DEF IInv, UpdateInv, OnionNext, Frame, Fields, Record, WalkEnds, Byte
<1>1. CASE Frame
  <2>1. parse' = "none" \/ parse' = "fields"
    BY <1>1 DEF Frame, None
  <2> QED  BY <1>0, <2>1 DEF UpdateInv
<1>2. CASE Fields
  <2>1. parse = "fields" /\ parse' \in {"none", "walk"}
    BY <1>2 DEF Fields, None
  <2>2. ASSUME parse' = "walk" PROVE policy'.base \in Byte /\ policy'.prop \in Byte
    <3>1. policy'.base = Cell(cu, BaseFee) /\ policy'.prop = Cell(cu, PropFee)
      BY <1>2, <2>2 DEF Fields, None
    <3>2. cu \in Seq(Byte)
      BY DEF IInv, ReadsInv
    <3>3. Len(cu) \in Nat /\ \A i \in 1..Len(cu) : cu[i] \in Byte
      BY <3>2, ElementOf
    <3> QED  BY <1>0, <3>1, <3>3 DEF Cell, BaseFee, PropFee
  <2> QED  BY <1>0, <2>1, <2>2 DEF UpdateInv
<1>3. CASE Record \/ WalkEnds
  <2>1. /\ parse = "walk" /\ policy' = policy
        /\ \/ parse' = "walk" \/ End
    BY <1>3 DEF Record, WalkEnds
  <2>2. policy.base \in Byte /\ policy.prop \in Byte
    BY <2>1 DEF IInv, UpdateInv
  <2>3. parse' = "parsed" => policy.prop <= Whole
    BY <2>1 DEF End, PropBounded
  <2>4. parse' \in {"walk", "parsed", "none"}
    BY <2>1 DEF End
  <2> QED  BY <1>0, <2>1, <2>2, <2>3, <2>4 DEF UpdateInv
<1> QED  BY <1>1, <1>2, <1>3 DEF OnionNext

\* The update is cut out of the message.
LEMMA FrameStep ==
    ASSUME IInv, Frame
    PROVE  ReadsInv' /\ ReadAsMeant'
<1> DEFINE header == Header[msg.code]
           start == header + 1
           len == Cell(msg.data, header)
           slice == SubSeq(msg.data, start + 1, start + len)
           cut == IF IsPrefix(TypePrefix, slice)
                  THEN Rest(slice, Len(TypePrefix)) ELSE slice
<1>1. /\ IsMessage(msg) /\ msg' = msg /\ parse = "frame"
      /\ reads' = reads /\ reads = {} /\ inbound' = inbound /\ inbound = {}
      /\ cu \in Seq(Byte) /\ Len(cu) <= Len(msg.data) /\ Len(cu) < Word
      /\ Base \in Nat \ {0} /\ Word \in Nat
  <2>1. /\ msg' = msg /\ parse = "frame" /\ reads' = reads /\ inbound' = inbound
    BY DEF Frame, None
  <2> QED  BY <2>1, OnionAssumption DEF IInv, UpdateInv, ReadsInv
<1>2. CASE None /\ (\/ msg.code \notin DOMAIN Header \/ Len(msg.data) < start
                    \/ len = 0 \/ Len(msg.data) < start + len)
  <2>1. parse' = "none" /\ cu' = cu
    BY <1>2 DEF None
  <2>2. ~msg.arrives
    BY <1>1, <1>2, Arrived
  <2>3. ReadsInv'
    BY <1>1, <2>1 DEF ReadsInv
  <2>4. ReadAsMeant'
    BY <1>1, <2>1, <2>2 DEF ReadAsMeant
  <2> QED  BY <2>3, <2>4
<1>3. CASE /\ msg.code \in DOMAIN Header /\ ~(Len(msg.data) < start)
           /\ ~(Len(msg.data) < start + len)
           /\ parse' = "fields" /\ cu' = cut
  <2>1. /\ msg.data \in Seq(0..Word - 1) /\ header \in Nat
        /\ \A i \in DOMAIN msg.data : i > header + 1 => msg.data[i] < Base
    BY <1>1, <1>3, OnionAssumption DEF IsMessage
  <2>2. /\ Len(msg.data) \in Nat /\ DOMAIN msg.data = 1..Len(msg.data)
        /\ \A i \in 1..Len(msg.data) : msg.data[i] \in 0..Word - 1
    BY <2>1, ElementOf
  <2> HIDE DEF header
  <2>3. len \in 0..Word - 1 /\ start + len <= Len(msg.data)
    <3>1. header + 1 \in 1..Len(msg.data) /\ header < Len(msg.data)
      BY <1>3, <2>1, <2>2
    <3>2. len \in 0..Word - 1
      BY <2>2, <3>1 DEF Cell
    <3> HIDE DEF len
    <3> QED  BY <1>1, <1>3, <2>1, <2>2, <3>2
  <2> HIDE DEF len
  <2>4. \A i \in start + 1..start + len : msg.data[i] \in Byte
    <3>1. \A i \in start + 1..start + len :
              i \in 1..Len(msg.data) /\ i > header + 1
      BY <1>1, <2>1, <2>2, <2>3
    <3>2. \A i \in start + 1..start + len :
              msg.data[i] \in 0..Word - 1 /\ msg.data[i] < Base
      BY <2>1, <2>2, <3>1
    <3> HIDE DEF start
    <3> QED  BY <1>1, <3>2 DEF Byte
  <2>5. start + 1 \in Int /\ start + len \in Int /\ len \in Nat
    BY <1>1, <2>1, <2>3
  <2>6. slice \in Seq(Byte) /\ Len(slice) = len
    <3> DEFINE a == start + 1
               b == start + len
    <3>1. a \in Int /\ b \in Int /\ \A i \in a..b : msg.data[i] \in Byte
      BY <2>4, <2>5
    <3>2. IF a <= b THEN b - a + 1 = len ELSE len = 0
      BY <2>1, <2>5
    <3> HIDE DEF a, b
    <3>3. /\ SubSeq(msg.data, a, b) \in Seq(Byte)
          /\ Len(SubSeq(msg.data, a, b)) = IF a <= b THEN b - a + 1 ELSE 0
      BY <3>1, SubSeqProperties
    <3>4. slice = SubSeq(msg.data, a, b)
      BY DEF a, b
    <3> QED  BY <3>2, <3>3, <3>4
  <2> HIDE DEF slice
  <2>7. /\ Rest(slice, 2) \in Seq(Byte) /\ Len(Rest(slice, 2)) <= len
        /\ len < 2 + BodyLen => Len(Rest(slice, 2)) < BodyLen
    <3>1. \A i \in 3..Len(slice) : slice[i] \in Byte
      <4>1. \A i \in 3..Len(slice) : i \in 1..Len(slice)
        BY <2>5, <2>6
      <4> QED  BY <2>6, <4>1, ElementOf
    <3> DEFINE n == Len(slice)
    <3>2. n \in Int /\ Rest(slice, 2) = SubSeq(slice, 3, n)
      BY <2>5, <2>6 DEF Rest
    <3>3. \A i \in 3..n : slice[i] \in Byte
      BY <3>1
    <3> HIDE DEF n
    <3>4. /\ SubSeq(slice, 3, n) \in Seq(Byte)
          /\ Len(SubSeq(slice, 3, n)) = IF 3 <= n THEN n - 3 + 1 ELSE 0
      BY <3>2, <3>3, SubSeqProperties
    <3>5. n = len
      BY <2>6 DEF n
    <3>6. Rest(slice, 2) \in Seq(Byte)
          /\ Len(Rest(slice, 2)) = IF 3 <= n THEN n - 3 + 1 ELSE 0
      BY <3>2, <3>4
    <3> DEFINE k == Len(Rest(slice, 2))
    <3> HIDE DEF k
    <3>7. k <= len /\ (len < 2 + BodyLen => k < BodyLen)
      BY <2>5, <3>5, <3>6 DEF k, BodyLen
    <3> QED  BY <3>6, <3>7 DEF k
  <2>8. cut \in Seq(Byte) /\ Len(cut) <= len
    <3>1. Len(TypePrefix) = 2
      BY DEF TypePrefix
    <3> QED  BY <2>5, <2>6, <2>7, <3>1
  <2>9. IF msg.arrives THEN msg.ambiguous \/ cut = Meant ELSE Len(cut) < BodyLen
    <3>1. ASSUME msg.arrives PROVE msg.ambiguous \/ cut = Meant
      BY <1>1, <3>1, Arrived DEF slice, len, header
    <3>2. ASSUME ~msg.arrives PROVE Len(cut) < BodyLen
      <4>1. \/ len < BodyLen
            \/ IsPrefix(TypePrefix, slice) /\ len < Len(TypePrefix) + BodyLen
        <5>1. \/ Len(msg.data) < start + len \/ len < BodyLen
              \/ IsPrefix(TypePrefix, slice) /\ len < Len(TypePrefix) + BodyLen
          BY <1>1, <1>3, <3>2 DEF IsMessage, len, header, slice
        <5> QED  BY <1>3, <5>1
      <4>2. Len(cut) \in Nat
        BY <2>8
      <4>3. CASE len < BodyLen
        <5> HIDE DEF cut
        <5> QED  BY <2>5, <2>8, <4>2, <4>3 DEF BodyLen
      <4>4. CASE IsPrefix(TypePrefix, slice) /\ len < Len(TypePrefix) + BodyLen
        <5>1. Len(TypePrefix) = 2 /\ cut = Rest(slice, 2)
          BY <4>4 DEF TypePrefix
        <5> QED  BY <2>7, <4>4, <5>1
      <4> QED  BY <4>1, <4>3, <4>4
    <3> QED  BY <3>1, <3>2
  <2> HIDE DEF cut
  <2>10. Len(cut) <= Len(msg.data) /\ Len(cut) < Word /\ Len(cut) \in Nat
    <3>1. Len(cut) \in Nat
      BY <2>8
    <3>2. len <= Len(msg.data) /\ len < Word
      BY <1>1, <2>1, <2>2, <2>3, <2>5
    <3> QED  BY <1>1, <2>2, <2>5, <2>8, <3>1, <3>2
  <2>11. ReadsInv'
    <3>1. Meant' = Meant
      BY <1>1 DEF Meant
    <3> QED  BY <1>1, <1>3, <2>8, <2>9, <2>10, <3>1 DEF ReadsInv
  <2>12. ReadAsMeant'
    BY <1>1, <1>3, <2>10 DEF ReadAsMeant
  <2> QED  BY <2>11, <2>12
<1> QED  BY <1>2, <1>3 DEF Frame, HeaderOf

\* The fields are the sender's, and the walk begins where its records do.
LEMMA FieldsStep ==
    ASSUME IInv, Fields
    PROVE  ReadsInv' /\ ReadAsMeant'
<1> DEFINE u == msg.update
<1>1. /\ IsMessage(msg) /\ msg' = msg /\ parse = "fields" /\ cu' = cu
      /\ reads = {} /\ inbound' = inbound /\ inbound = {}
      /\ cu \in Seq(Byte) /\ Len(cu) <= Len(msg.data) /\ Len(cu) < Word
      /\ Len(cu) \in Nat /\ Meant' = Meant
      /\ IF msg.arrives THEN msg.ambiguous \/ cu = Meant ELSE Len(cu) < BodyLen
  <2>1. /\ msg' = msg /\ parse = "fields" /\ cu' = cu /\ inbound' = inbound
    BY DEF Fields, None
  <2>2. IsMessage(msg) /\ ReadsInv
    BY DEF IInv, UpdateInv
  <2>3. Meant' = Meant
    BY <2>1 DEF Meant
  <2>4. Len(cu) \in Nat
    BY <2>2 DEF ReadsInv
  <2> QED  BY <2>1, <2>2, <2>3, <2>4 DEF ReadsInv
<1>2. ASSUME msg.arrives, ~msg.ambiguous
      PROVE  /\ cu = Meant /\ Len(cu) >= BodyLen
             /\ Cell(cu, Ts) = u.ts /\ Cell(cu, BaseFee) = u.base
             /\ Cell(cu, PropFee) = u.prop /\ (Cell(cu, Disabled) = 0) = u.enabled
             /\ msg.tail \in Seq(Byte)
  <2>1. /\ msg.tail \in Seq(Byte) /\ u.sig \in Seq(Byte) /\ Len(u.sig) = SigCells
        /\ {u.ts, u.base, u.prop} \subseteq Byte /\ u.enabled \in BOOLEAN
    BY <1>1, <1>2, Arrived
  <2>2. cu = Meant
    BY <1>1, <1>2
  <2>3. /\ Len(Meant) = BodyLen + Len(msg.tail) /\ Len(msg.tail) \in Nat
        /\ Cell(Meant, Ts) = u.ts /\ Cell(Meant, BaseFee) = u.base
        /\ Cell(Meant, PropFee) = u.prop /\ (Cell(Meant, Disabled) = 0) = u.enabled
    BY <2>1, MeantCells DEF Meant
  <2>4. Len(Meant) >= BodyLen
    BY <2>3 DEF BodyLen
  <2> QED  BY <2>1, <2>2, <2>3, <2>4
<1>3. CASE None /\ (~Complete(cu) \/ Cell(cu, Ts) = 0)
  <2>1. parse' = "none" /\ reads' = reads
    BY <1>3 DEF None
  <2>2. ASSUME msg.arrives, ~msg.ambiguous PROVE u.ts = 0
    BY <1>1, <1>2, <1>3, <2>2 DEF Complete, BodyLen
  <2>3. ReadsInv'
    BY <1>1, <2>1 DEF ReadsInv
  <2>4. ReadAsMeant'
    BY <1>1, <2>1, <2>2 DEF ReadAsMeant
  <2> QED  BY <2>3, <2>4
<1>4. CASE /\ Complete(cu) /\ Cell(cu, Ts) # 0 /\ parse' = "walk" /\ pos' = BodyLen
           /\ policy' = [enabled |-> Cell(cu, Disabled) = 0,
                         base |-> Cell(cu, BaseFee), prop |-> Cell(cu, PropFee)]
           /\ reads' = reads \cup 0..BodyLen - 1
  <2>1. msg.arrives /\ BodyLen \in BodyLen..Len(cu)
    BY <1>1, <1>4 DEF Complete, BodyLen
  <2>2. \A i \in reads' : i < Len(cu)
    BY <1>1, <1>4 DEF Complete, BodyLen
  <2>3. ASSUME ~msg.ambiguous
        PROVE  /\ cu = Meant /\ u.ts # 0
               /\ policy' = [enabled |-> u.enabled, base |-> u.base, prop |-> u.prop]
               /\ Reached(msg.tail, BodyLen - BodyLen)
    <3>1. BodyLen - BodyLen = 0
      BY DEF BodyLen
    <3>2. Reached(msg.tail, 0)
      BY <1>2, <2>1, <2>3, ReachedFirst
    <3>3. cu = Meant /\ u.ts # 0
      BY <1>2, <1>4, <2>1, <2>3
    <3>4. policy' = [enabled |-> u.enabled, base |-> u.base, prop |-> u.prop]
      <4>1. /\ Cell(cu, BaseFee) = u.base /\ Cell(cu, PropFee) = u.prop
            /\ (Cell(cu, Disabled) = 0) = u.enabled
        BY <1>2, <2>1, <2>3
      <4> QED  BY <1>4, <4>1, Zenon
    <3> QED  BY <3>1, <3>2, <3>3, <3>4
  <2>4. ReadsInv'
    BY <1>1, <1>4, <2>1, <2>2, <2>3 DEF ReadsInv
  <2>5. ReadAsMeant'
    BY <1>1, <1>4, <2>2 DEF ReadAsMeant
  <2> QED  BY <2>4, <2>5
<1> QED  BY <1>3, <1>4 DEF Fields

\* The walk is over, with the fees that the records state.
LEMMA WalkOver ==
    ASSUME IInv, parse = "walk", End, UNCHANGED <<msg, cu, policy>>,
           \A i \in reads' : i < Len(cu),
           ~msg.ambiguous => inbound' = FeesIn(msg.tail)
    PROVE  ReadsInv' /\ ReadAsMeant'
<1> DEFINE u == msg.update
<1>1. /\ cu \in Seq(Byte) /\ Len(cu) <= Len(msg.data) /\ Len(cu) < Word
      /\ msg.arrives
      /\ ~msg.ambiguous =>
            /\ u.ts # 0
            /\ policy = [enabled |-> u.enabled, base |-> u.base, prop |-> u.prop]
  BY DEF IInv, ReadsInv
<1>2. parse' \in {"parsed", "none"}
      /\ (parse' = "parsed" <=> policy.prop <= Whole)
  BY DEF End, PropBounded
<1>3. ReadsInv'
  BY <1>1, <1>2 DEF ReadsInv
<1>4. ~msg.ambiguous => policy.prop = u.prop
  BY <1>1
<1>5. ASSUME ~msg.ambiguous
      PROVE  IF u.ts # 0 /\ u.prop <= Whole
             THEN /\ parse' = "parsed"
                  /\ policy = [enabled |-> u.enabled, base |-> u.base, prop |-> u.prop]
                  /\ inbound' = FeesIn(msg.tail)
             ELSE parse' = "none"
  BY <1>1, <1>2, <1>4, <1>5
<1>6. ReadAsMeant'
  BY <1>1, <1>2, <1>5 DEF ReadAsMeant
<1> QED  BY <1>3, <1>6

\* Where the walk is, in the records.
LEMMA Walking ==
    ASSUME IInv, parse = "walk", ~msg.ambiguous
    PROVE  LET s == pos - BodyLen IN
           /\ s \in Nat /\ pos = BodyLen + s /\ msg.tail \in Seq(Byte)
           /\ IsBehind(cu, msg.tail, BodyLen) /\ Reached(msg.tail, s)
<1> DEFINE u == msg.update
<1>1. /\ IsMessage(msg) /\ msg.arrives /\ cu = Meant /\ pos \in BodyLen..Len(cu)
      /\ Reached(msg.tail, pos - BodyLen) /\ Len(cu) \in Nat
  BY DEF IInv, UpdateInv, ReadsInv
<1>2. /\ msg.tail \in Seq(Byte) /\ u.sig \in Seq(Byte) /\ Len(u.sig) = SigCells
      /\ {u.ts, u.base, u.prop} \subseteq Byte /\ u.enabled \in BOOLEAN
  BY <1>1, Arrived
<1>3. IsBehind(cu, msg.tail, BodyLen)
  BY <1>1, <1>2, MeantCells DEF Meant
<1>4. pos - BodyLen \in Nat /\ pos = BodyLen + (pos - BodyLen)
  BY <1>1 DEF BodyLen
<1> QED  BY <1>1, <1>2, <1>3, <1>4

\* Where the walk finds no record, none starts.
LEMMA NoRecord ==
    ASSUME IInv, parse = "walk", ~msg.ambiguous,
           ~\E t \in BigSize(cu, pos) : \E l \in BigSize(cu, t.end) :
                Fits(l.value, l.end)
    PROVE  FeesIn(msg.tail) = {}
<1> DEFINE s == pos - BodyLen
           tail == msg.tail
<1>1. /\ s \in Nat /\ pos = BodyLen + s /\ tail \in Seq(Byte)
      /\ IsBehind(cu, tail, BodyLen) /\ Reached(tail, s)
      /\ cu \in Seq(Byte) /\ BodyLen \in Nat
  BY Walking DEF IInv, ReadsInv, BodyLen
<1> HIDE DEF s
<1>2. ASSUME NEW r \in Records(tail), r.start = s PROVE FALSE
  <2>1. PICK t \in BigSize(tail, s) :
            \E l \in BigSize(tail, t.end) : r.end = l.end + l.value
    BY <1>2 DEF Records
  <2>2. PICK l \in BigSize(tail, t.end) : r.end = l.end + l.value
    BY <2>1
  <2>3. t.end \in Nat
    BY <1>1, BigSizeType
  <2>4. l.value \in Nat /\ l.end \in Nat
    BY <1>1, <2>3, BigSizeType
  <2> DEFINE t2 == [value |-> t.value, end |-> BodyLen + t.end]
             l2 == [value |-> l.value, end |-> BodyLen + l.end]
  <2>5. t2 \in BigSize(cu, pos)
    BY <1>1, BigSizeShifts
  <2>6. l2 \in BigSize(cu, t2.end)
    <3>1. t2.end = BodyLen + t.end
      OBVIOUS
    <3> QED  BY <1>1, <2>3, <3>1, BigSizeShifts
  <2>7. Fits(l2.value, l2.end)
    <3>1. r.end <= Len(tail) /\ r.end \in Nat
      BY <1>1, RecordType
    <3>2. Len(cu) = BodyLen + Len(tail) /\ Len(tail) \in Nat
      BY <1>1 DEF IsBehind
    <3>3. l2.value = l.value /\ l2.end = BodyLen + l.end
      OBVIOUS
    <3> QED  BY <1>1, <2>2, <2>4, <3>1, <3>2, <3>3 DEF Fits
  <2> HIDE DEF t2, l2
  <2> QED  BY <2>5, <2>6, <2>7
<1> QED  BY <1>1, <1>2, NoFees

\* A record is read or passed.
LEMMA RecordStep ==
    ASSUME IInv, Record
    PROVE  ReadsInv' /\ ReadAsMeant'
<1> DEFINE s == pos - BodyLen
           tail == msg.tail
<1>1. /\ parse = "walk" /\ pos < Len(cu) /\ UNCHANGED <<msg, cu, policy>>
      /\ pos \in BodyLen..Len(cu) /\ pos \in Nat /\ Len(cu) \in Nat /\ BodyLen \in Nat
      /\ cu \in Seq(Byte) /\ Len(cu) <= Len(msg.data) /\ Len(cu) < Word
      /\ msg.arrives /\ inbound = {} /\ \A i \in reads : i < Len(cu)
  <2>1. parse = "walk" /\ pos < Len(cu) /\ UNCHANGED <<msg, cu, policy>>
    BY DEF Record
  <2>2. Len(cu) \in Nat /\ BodyLen \in Nat /\ pos \in BodyLen..Len(cu)
    BY <2>1 DEF IInv, ReadsInv, BodyLen
  <2>3. pos \in Nat
    BY <2>2
  <2> QED  BY <2>1, <2>2, <2>3 DEF IInv, ReadsInv
<1>2. CASE ~\E t \in BigSize(cu, pos) : \E l \in BigSize(cu, t.end) :
                Fits(l.value, l.end)
  <2>1. End /\ inbound' = inbound /\ reads' = reads
    BY <1>2 DEF Record
  <2>2. ~msg.ambiguous => inbound' = FeesIn(tail)
    BY <1>1, <1>2, <2>1, NoRecord
  <2> QED  BY <1>1, <2>1, <2>2, WalkOver
<1>3. CASE \E t \in BigSize(cu, pos) : \E l \in BigSize(cu, t.end) :
                Fits(l.value, l.end)
  <2>1. PICK t \in BigSize(cu, pos) : \E l \in BigSize(cu, t.end) :
                /\ \E k \in BigSize(cu, t.end) : Fits(k.value, k.end)
                /\ IF t.value = FeeType /\ l.value = 2
                   THEN /\ End
                        /\ inbound' = {<<Signed(Cell(cu, l.end)),
                                         Signed(Cell(cu, l.end + 1))>>}
                        /\ reads' = reads \cup pos..l.end + 1
                   ELSE /\ pos' = Behind(l.end, l.value)
                        /\ reads' = reads \cup pos..l.end - 1
                        /\ parse' = parse /\ inbound' = inbound
    <3>1. PICK t \in BigSize(cu, pos) : \E l \in BigSize(cu, t.end) :
                /\ IF t.value = FeeType /\ l.value = 2
                   THEN /\ End
                        /\ inbound' = {<<Signed(Cell(cu, l.end)),
                                         Signed(Cell(cu, l.end + 1))>>}
                        /\ reads' = reads \cup pos..l.end + 1
                   ELSE /\ pos' = Behind(l.end, l.value)
                        /\ reads' = reads \cup pos..l.end - 1
                        /\ parse' = parse /\ inbound' = inbound
      BY <1>3 DEF Record
    <3>2. BigSize(cu, pos) = {t}
      BY <1>1, BigSizeType
    <3>3. \E k \in BigSize(cu, t.end) : Fits(k.value, k.end)
      BY <1>3, <3>2
    <3> QED  BY <3>1, <3>3
  <2>2. PICK l \in BigSize(cu, t.end) :
                /\ \E k \in BigSize(cu, t.end) : Fits(k.value, k.end)
                /\ IF t.value = FeeType /\ l.value = 2
                   THEN /\ End
                        /\ inbound' = {<<Signed(Cell(cu, l.end)),
                                         Signed(Cell(cu, l.end + 1))>>}
                        /\ reads' = reads \cup pos..l.end + 1
                   ELSE /\ pos' = Behind(l.end, l.value)
                        /\ reads' = reads \cup pos..l.end - 1
                        /\ parse' = parse /\ inbound' = inbound
    BY <2>1
  <2>3. /\ t.end \in Nat /\ pos < t.end /\ BigSize(cu, pos) = {t}
    BY <1>1, BigSizeType
  <2>4. /\ l.end \in Nat /\ l.value \in Nat /\ t.end < l.end /\ l.end <= Len(cu)
        /\ BigSize(cu, t.end) = {l}
    BY <1>1, <2>3, BigSizeType
  <2>5. l.end + l.value <= Len(cu)
    BY <1>1, <2>2, <2>4 DEF Fits
  <2>6. ASSUME ~msg.ambiguous
        PROVE  \E x \in BigSize(tail, s) : \E k \in BigSize(tail, x.end) :
                 /\ x.value = t.value /\ k.value = l.value
                 /\ l.end = BodyLen + k.end /\ k.end \in Nat
                 /\ BigSize(tail, s) = {x} /\ BigSize(tail, x.end) = {k}
                 /\ k.end + k.value <= Len(tail)
    <3>1. /\ s \in Nat /\ pos = BodyLen + s /\ tail \in Seq(Byte)
          /\ IsBehind(cu, tail, BodyLen)
      BY <1>1, <2>6, Walking
    <3> HIDE DEF s
    <3>2. PICK x \in BigSize(tail, s) :
                t = [value |-> x.value, end |-> BodyLen + x.end]
      BY <1>1, <3>1, BigSizeShifts
    <3>3. x.end \in Nat /\ BigSize(tail, s) = {x}
      BY <3>1, BigSizeType
    <3>4. t.end = BodyLen + x.end /\ t.value = x.value
      BY <3>2
    <3>5. PICK k \in BigSize(tail, x.end) :
                l.value = k.value /\ l.end = BodyLen + k.end
      <4>1. /\ cu \in Seq(Byte) /\ tail \in Seq(Byte) /\ BodyLen \in Nat
            /\ IsBehind(cu, tail, BodyLen) /\ x.end \in Nat
        BY <1>1, <3>1, <3>3
      <4> HIDE DEF tail
      <4>2. \E k \in BigSize(tail, x.end) :
               /\ l = [value |-> k.value, end |-> BodyLen + k.end]
               /\ l.value = k.value /\ l.end = BodyLen + k.end
        BY <3>4, <4>1, BigSizeBehind
      <4> QED  BY <4>2
    <3>6. k.end \in Nat /\ k.value \in Nat /\ BigSize(tail, x.end) = {k}
      BY <3>1, <3>3, BigSizeType
    <3>7. l.end = BodyLen + k.end /\ l.value = k.value
      BY <3>5
    <3>8. k.end + k.value <= Len(tail)
      <4>1. Len(cu) = BodyLen + Len(tail) /\ Len(tail) \in Nat
        BY <3>1 DEF IsBehind
      <4> QED  BY <1>1, <2>5, <3>6, <3>7, <4>1
    <3> QED  BY <3>3, <3>4, <3>6, <3>7, <3>8
  <2>7. CASE t.value = FeeType /\ l.value = 2
    <3>1. /\ End /\ reads' = reads \cup pos..l.end + 1
          /\ inbound' = {<<Signed(Cell(cu, l.end)), Signed(Cell(cu, l.end + 1))>>}
      BY <2>2, <2>7
    <3>2. \A i \in reads' : i < Len(cu)
      BY <1>1, <2>4, <2>5, <2>7, <3>1
    <3>3. ASSUME ~msg.ambiguous PROVE inbound' = FeesIn(tail)
      <4>1. /\ s \in Nat /\ tail \in Seq(Byte)
            /\ IsBehind(cu, tail, BodyLen) /\ Reached(tail, s)
        BY <1>1, <3>3, Walking
      <4> HIDE DEF s
      <4>2. PICK x \in BigSize(tail, s) : \E k \in BigSize(tail, x.end) :
                 /\ x.value = t.value /\ k.value = l.value
                 /\ l.end = BodyLen + k.end /\ k.end \in Nat
                 /\ BigSize(tail, s) = {x} /\ BigSize(tail, x.end) = {k}
                 /\ k.end + k.value <= Len(tail)
        BY <2>6, <3>3
      <4>3. PICK k \in BigSize(tail, x.end) :
                 /\ x.value = t.value /\ k.value = l.value
                 /\ l.end = BodyLen + k.end /\ k.end \in Nat
                 /\ BigSize(tail, s) = {x} /\ BigSize(tail, x.end) = {k}
                 /\ k.end + k.value <= Len(tail)
        BY <4>2
      <4> DEFINE fees == <<Signed(Cell(tail, k.end)), Signed(Cell(tail, k.end + 1))>>
      <4>4. FeesAt(tail, s) = {fees}
        <5>1. {j \in BigSize(tail, x.end) :
                    x.value = FeeType /\ j.value = 2 /\ j.end + 2 <= Len(tail)} = {k}
          BY <2>7, <4>3
        <5>2. FeesAt(tail, s) = UNION {{fees}}
          BY <4>3, <5>1 DEF FeesAt
        <5> QED  BY <5>2
      <4>5. /\ Cell(cu, l.end) = Cell(tail, k.end)
            /\ Cell(cu, l.end + 1) = Cell(tail, k.end + 1)
        <5>1. l.end + 1 = BodyLen + (k.end + 1) /\ k.end + 1 \in Nat
          BY <1>1, <4>3
        <5> QED  BY <4>1, <4>3, <5>1 DEF IsBehind
      <4>6. FeesIn(tail) = FeesAt(tail, s)
        BY <4>1, <4>4, FeesFound
      <4> QED  BY <3>1, <4>4, <4>5, <4>6
    <3> QED  BY <1>1, <3>1, <3>2, <3>3, WalkOver
  <2>8. CASE ~(t.value = FeeType /\ l.value = 2)
    <3>1. /\ parse' = "walk" /\ inbound' = inbound
          /\ reads' = reads \cup pos..l.end - 1
          /\ pos' = l.end + l.value
      <4>1. Behind(l.end, l.value) = l.end + l.value
        <5>1. l.end + l.value \in 0..Word - 1
          BY <1>1, <2>4, <2>5, OnionAssumption
        <5> QED  BY <5>1, WordKeeps DEF Behind
      <4> QED  BY <1>1, <2>2, <2>8, <4>1
    <3>2. \A i \in reads' : i < Len(cu)
      BY <1>1, <2>4, <3>1
    <3>3. pos' \in BodyLen..Len(cu)
      BY <1>1, <2>3, <2>4, <2>5, <3>1
    <3>4. ASSUME ~msg.ambiguous PROVE Reached(tail, pos' - BodyLen)
      <4>1. s \in Nat /\ tail \in Seq(Byte) /\ Reached(tail, s)
        BY <1>1, <3>4, Walking
      <4> HIDE DEF s
      <4>2. PICK x \in BigSize(tail, s) : \E k \in BigSize(tail, x.end) :
                 /\ x.value = t.value /\ k.value = l.value
                 /\ l.end = BodyLen + k.end /\ k.end \in Nat
                 /\ BigSize(tail, s) = {x} /\ BigSize(tail, x.end) = {k}
                 /\ k.end + k.value <= Len(tail)
        BY <2>6, <3>4
      <4>3. PICK k \in BigSize(tail, x.end) :
                 /\ x.value = t.value /\ k.value = l.value
                 /\ l.end = BodyLen + k.end /\ k.end \in Nat
                 /\ BigSize(tail, s) = {x} /\ BigSize(tail, x.end) = {k}
                 /\ k.end + k.value <= Len(tail)
        BY <4>2
      <4> DEFINE r == [start |-> s, end |-> k.end + k.value]
      <4>4. r \in Records(tail)
        BY <4>1, <4>3, RecordMade
      <4>5. r.start = s /\ r.end = pos' - BodyLen
        BY <1>1, <2>4, <3>1, <4>3
      <4>6. FeesAt(tail, s) = {}
        BY <2>8, <4>3 DEF FeesAt
      <4> HIDE DEF r
      <4> QED  BY <4>1, <4>4, <4>5, <4>6, ReachedNext
    <3>5. Meant' = Meant
      BY <1>1 DEF Meant
    <3>6. ~msg.ambiguous =>
            /\ cu = Meant /\ msg.update.ts # 0
            /\ policy = [enabled |-> msg.update.enabled, base |-> msg.update.base,
                         prop |-> msg.update.prop]
      BY <1>1 DEF IInv, ReadsInv
    <3>7. ReadsInv'
      BY <1>1, <3>1, <3>2, <3>3, <3>4, <3>5, <3>6 DEF ReadsInv
    <3>8. ReadAsMeant'
      BY <1>1, <3>1, <3>2 DEF ReadAsMeant
    <3> QED  BY <3>7, <3>8
  <2> QED  BY <2>7, <2>8
<1> QED  BY <1>2, <1>3

\* No cell is left.
LEMMA EndStep ==
    ASSUME IInv, WalkEnds
    PROVE  ReadsInv' /\ ReadAsMeant'
<1>1. /\ parse = "walk" /\ pos >= Len(cu) /\ End /\ UNCHANGED <<msg, cu, policy>>
      /\ inbound' = inbound /\ reads' = reads
  BY DEF WalkEnds
<1>2. inbound = {} /\ \A i \in reads : i < Len(cu)
  BY <1>1 DEF IInv, ReadsInv
<1>3. ~msg.ambiguous => FeesIn(msg.tail) = {}
  <2>1. BigSize(cu, pos) = {}
    BY <1>1 DEF BigSize
  <2> QED  BY <1>1, <2>1, NoRecord
<1> QED  BY <1>1, <1>2, <1>3, WalkOver

\* A step of the parser.
LEMMA OnionStep ==
    ASSUME IInv, OnionNext, UNCHANGED <<hopsVars, blame>>
    PROVE  IInv'
<1>1. QuoteInv' /\ RoutesInv' /\ SentInv'
  BY HopsSame
<1>2. UpdateInv' /\ ReadsInv' /\ ReadAsMeant'
  BY UpdateStep, FrameStep, FieldsStep, RecordStep, EndStep DEF OnionNext
<1>3. /\ quote' = quote /\ stage' = stage /\ kept' = kept /\ sent' = sent
      /\ class' = class /\ report' = report /\ verdict' = verdict
      /\ excluded' = excluded /\ refreshed' = refreshed
  BY DEF hopsVars, blame
<1>4. parse \in {"frame", "fields", "walk"}
  BY DEF OnionNext, Frame, Fields, Record, WalkEnds
<1>5. verdict = "open" /\ report # NoReport
  BY <1>4 DEF IInv, ReportInv, BlameIsFair
<1>6. ReportInv'
  BY <1>3, <1>5 DEF IInv, ReportInv, Quoted
<1>7. BlameIsFair'
  BY <1>3, <1>5 DEF BlameIsFair
<1> QED  BY <1>1, <1>2, <1>6, <1>7 DEF IInv

-----------------------------------------------------------------------------
(* A failure.                                                              *)

\* What has been sent.
LEMMA SentType ==
    ASSUME IInv
    PROVE  /\ Len(sent) \in Nat /\ DOMAIN sent = 1..Len(sent)
           /\ \A k \in 1..Len(sent) :
                IsRoute(Quoted(k)) /\ sent[k] = PartOf(RealPath(Quoted(k)))
<1>1. Len(sent) \in Nat /\ DOMAIN sent = 1..Len(sent)
  BY SeqForm DEF IInv, SentInv
<1>2. ASSUME NEW k \in 1..Len(sent) PROVE IsRoute(Quoted(k))
  <2>1. kept \in Seq(1..Len(quote.routes)) /\ Len(sent) <= Len(kept)
    BY DEF IInv, RoutesInv, SentInv
  <2>2. /\ Len(kept) \in Nat
        /\ \A j \in 1..Len(kept) : kept[j] \in 1..Len(quote.routes)
    BY <2>1, ElementOf
  <2>3. k \in 1..Len(kept)
    BY <1>1, <2>1, <2>2
  <2> QED  BY <2>2, <2>3 DEF IInv, QuoteInv, Quoted
<1> QED  BY <1>1, <1>2 DEF IInv, SentInv

\* A hop fails, and the report has its name.
LEMMA FailsStep ==
    ASSUME IInv, NEW k \in DOMAIN sent, NEW i \in DOMAIN sent[k].route, Fails(k, i)
    PROVE  IInv'
<1> DEFINE q == Quoted(k)
<1>1. QuoteInv' /\ RoutesInv' /\ SentInv'
  BY HopsSame DEF Fails
<1>2. /\ quote' = quote /\ stage' = stage /\ kept' = kept /\ sent' = sent
      /\ stage = "done"
      /\ msg' = msg /\ parse' = parse /\ cu' = cu /\ policy' = policy
      /\ class' = class /\ verdict' = verdict
      /\ excluded' = excluded /\ refreshed' = refreshed
  BY DEF Fails, hopsVars, onionVars
<1>3. UpdateInv' /\ ReadsInv' /\ ReadAsMeant'
  BY ParserStill DEF Fails, onionVars
<1>4. /\ k \in 1..Len(sent) /\ IsRoute(q) /\ sent[k] = PartOf(RealPath(q))
  BY SentType
<1>5. i \in 1..Len(q.hops) /\ sent[k].route[i] = SendpayHop(RealHop(q, i))
  BY <1>4, PartFields
<1>6. /\ SendpayHop(RealHop(q, i)).channel = TrueName(q, i)
      /\ SendpayHop(RealHop(q, i)).direction = TrueScidd(q, i).dir
  <2>1. RealHop(q, i).short_channel_id_dir = TrueScidd(q, i)
    BY DEF RealHop
  <2> QED  BY <1>4, <1>5, <2>1, Names DEF SendpayHop
<1>7. report' = [part |-> k, hop |-> i,
                 erring |-> [scid |-> TrueName(q, i), dir |-> TrueScidd(q, i).dir]]
  BY <1>5, <1>6 DEF Fails
<1>8. report = NoReport
  BY DEF Fails
<1>9. report' # NoReport
  <2>1. report'.part = k /\ NoReport.part = 0 /\ k # 0
    BY <1>4, <1>7, SentType DEF NoReport
  <2> QED  BY <2>1
<1>10. parse = "idle" /\ verdict = "open"
  BY <1>8 DEF IInv, ReportInv, BlameIsFair
<1>11. Quoted(k)' = q
  BY <1>2 DEF Quoted
<1>12. ReportInv'
  <2>1. /\ report'.part = k /\ report'.hop = i
        /\ report'.erring = [scid |-> TrueName(q, i), dir |-> TrueScidd(q, i).dir]
    BY <1>7
  <2> HIDE DEF q
  <2>2. /\ report'.part \in 1..Len(sent')
        /\ LET p == Quoted(report.part)' IN
           /\ report'.hop \in 1..Len(p.hops)
           /\ report'.erring = [scid |-> TrueName(p, report'.hop),
                                dir |-> TrueScidd(p, report'.hop).dir]
    BY <1>2, <1>4, <1>5, <1>11, <2>1
  <2> QED  BY <1>2, <1>9, <1>10, <2>2 DEF IInv, ReportInv
<1>13. BlameIsFair'
  BY <1>2, <1>10 DEF BlameIsFair
<1> QED  BY <1>1, <1>3, <1>12, <1>13 DEF IInv

\* The part and the hop of a failure.
LEMMA Located ==
    ASSUME IInv, report # NoReport
    PROVE  LET q == Quoted(report.part)
               i == report.hop
           IN
           /\ IsRoute(q) /\ i \in 1..Len(q.hops)
           /\ sent[report.part] = PartOf(RealPath(q))
           /\ ErringHop(sent[report.part], report.erring) = {i}
<1> DEFINE q == Quoted(report.part)
           i == report.hop
<1>1. /\ report.part \in 1..Len(sent) /\ i \in 1..Len(q.hops)
      /\ report.erring = [scid |-> TrueName(q, i), dir |-> TrueScidd(q, i).dir]
  BY DEF IInv, ReportInv
<1>2. IsRoute(q) /\ sent[report.part] = PartOf(RealPath(q))
  BY <1>1, SentType
<1> HIDE DEF q, i
<1>3. ErringHop(sent[report.part], report.erring) = {i}
  BY <1>1, <1>2, FoundByName
<1> QED  BY <1>1, <1>2, <1>3 DEF q, i

\* The hop is found.
LEMMA LocateStep ==
    ASSUME IInv, Locate
    PROVE  IInv'
<1>1. QuoteInv' /\ RoutesInv' /\ SentInv'
  BY HopsSame DEF Locate
<1>2. ErringHop(sent[report.part], report.erring) # {}
  BY Located DEF Locate
<1>3. /\ quote' = quote /\ stage' = stage /\ kept' = kept /\ sent' = sent
      /\ msg' = msg /\ cu' = cu /\ policy' = policy
      /\ class' = class /\ verdict' = verdict /\ report' = report
      /\ excluded' = excluded /\ refreshed' = refreshed
      /\ parse' = "frame" /\ verdict = "open" /\ report # NoReport
  BY <1>2 DEF Locate, hopsVars
<1>4. UpdateInv' /\ ReadsInv' /\ ReadAsMeant'
  BY <1>2, ParserStill DEF Locate
<1>5. ReportInv'
  BY <1>3 DEF IInv, ReportInv, Quoted
<1>6. BlameIsFair'
  BY <1>3 DEF BlameIsFair
<1> QED  BY <1>1, <1>4, <1>5, <1>6 DEF IInv

\* The channels of ours that a route uses are its first and last.
LEMMA OursAreTheEnds ==
    ASSUME NEW q, IsRoute(q), NEW hops
    PROVE  Network(PartOf(RealPath(q)), hops) = Foreign(q, hops)
<1> DEFINE n == Len(q.hops)
           part == PartOf(RealPath(q))
<1>1. n \in Nat \ {0} /\ DOMAIN q.hops = 1..n
  BY RouteTypes
<1>2. /\ DOMAIN part.hops = 1..n
      /\ \A j \in 1..n : part.hops[j].scidd = TrueScidd(q, j)
                         /\ (part.hops[j].ours <=> j \in {1, n})
  BY PartFields
<1>3. \A j \in 1..n : (From(q, j) # Us /\ TrueTo(q, j) # Us) <=> j \notin {1, n}
  <2> SUFFICES ASSUME NEW j \in 1..n
               PROVE  (From(q, j) # Us /\ TrueTo(q, j) # Us) <=> j \notin {1, n}
    OBVIOUS
  <2>1. CASE j \in {1, n}
    BY <2>1 DEF From, TrueTo
  <2>2. CASE j \notin {1, n}
    <3>1. j \in 1..n - 1 /\ j - 1 \in 1..n - 1
      BY <1>1, <2>2
    <3>2. q.hops[j].to # Us /\ q.hops[j - 1].to # Us
      BY <3>1 DEF IsRoute
    <3> QED  BY <2>2, <3>2 DEF From, TrueTo
  <2> QED  BY <2>1, <2>2
<1> HIDE DEF part, n
<1>4. {j \in hops \cap DOMAIN part.hops : ~part.hops[j].ours}
        = {j \in hops \cap DOMAIN q.hops : From(q, j) # Us /\ TrueTo(q, j) # Us}
  BY <1>1, <1>2, <1>3
<1>5. Network(part, hops) = {part.hops[j].scidd :
        j \in {j \in hops \cap DOMAIN q.hops : From(q, j) # Us /\ TrueTo(q, j) # Us}}
  BY <1>4 DEF Network
<1>6. \A j \in DOMAIN q.hops : part.hops[j].scidd = TrueScidd(q, j)
  BY <1>1, <1>2
<1> QED  BY <1>5, <1>6 DEF Foreign, part

\* The fee that the route allocates is the quoted one, and the fault is exact.
LEMMA FaultOfQuote ==
    ASSUME NEW q, IsRoute(q), NEW i \in 1..Len(q.hops),
           NEW p, p.base \in Byte, p.prop \in Byte, p.prop <= Whole
    PROVE  LET part == PartOf(RealPath(q))
               paid == IF i = 1 THEN 0 ELSE q.amounts[i] - q.amounts[i + 1]
           IN Fault(p, Allocated(part, i), part.hops[i].amount_msat) = "inbound"
                <=> paid * Whole + Whole > p.base * Whole + p.prop * q.amounts[i + 1]
<1> DEFINE n == Len(q.hops)
           part == PartOf(RealPath(q))
           paid == IF i = 1 THEN 0 ELSE q.amounts[i] - q.amounts[i + 1]
<1>1. /\ n \in Nat \ {0}
      /\ \A j \in 1..n : /\ q.amounts[j] \in 0..MaxAmount
                         /\ q.amounts[j + 1] \in 0..MaxAmount
                         /\ q.amounts[j + 1] <= q.amounts[j]
  BY RouteTypes
<1>2. \A j \in 1..n : part.hops[j].amount_msat = q.amounts[j + 1]
  BY PartFields
<1> HIDE DEF part
<1>3. Allocated(part, i) = paid /\ paid \in Nat
  <2>1. CASE i = 1
    BY <2>1 DEF Allocated
  <2>2. CASE i # 1
    <3>1. i - 1 \in 1..n /\ (i - 1) + 1 = i
      BY <1>1, <2>2
    <3>2. part.hops[i - 1].amount_msat = q.amounts[i]
      BY <1>2, <3>1
    <3>3. /\ q.amounts[i] \in Nat /\ q.amounts[i + 1] \in Nat
          /\ q.amounts[i] >= q.amounts[i + 1]
      BY <1>1, OnionAssumption
    <3>4. Allocated(part, i) = Less(q.amounts[i], q.amounts[i + 1])
      BY <1>2, <2>2, <3>2 DEF Allocated
    <3> QED  BY <2>2, <3>3, <3>4 DEF Less
  <2> QED  BY <2>1, <2>2
<1>4. /\ p.base \in 0..Base - 1 /\ p.prop \in 0..Whole
      /\ q.amounts[i + 1] \in 0..MaxAmount
  BY <1>1, OnionAssumption DEF Byte
<1> HIDE DEF paid
<1>5. Fault(p, paid, q.amounts[i + 1]) = "inbound"
        <=> paid * Whole + Whole > p.base * Whole + p.prop * q.amounts[i + 1]
  BY <1>3, <1>4, FaultIsExact
<1> QED  BY <1>2, <1>3, <1>5 DEF part, paid

\* The channels charged are those of the quote.
LEMMA JudgeStep ==
    ASSUME IInv, Judge
    PROVE  IInv'
<1> DEFINE q == Quoted(report.part)
           i == report.hop
           part == PartOf(RealPath(q))
           paid == IF i = 1 THEN 0 ELSE q.amounts[i] - q.amounts[i + 1]
           covered == /\ class = "fee" /\ parse = "parsed"
                      /\ paid * Whole + Whole > policy.base * Whole
                                               + policy.prop * q.amounts[i + 1]
           inboundFee == /\ class = "fee"
                         /\ Fault(policy, Allocated(part, i),
                                  part.hops[i].amount_msat) = "inbound"
<1>1. QuoteInv' /\ RoutesInv' /\ SentInv'
  BY HopsSame DEF Judge
<1>2. /\ quote' = quote /\ stage' = stage /\ kept' = kept /\ sent' = sent
      /\ msg' = msg /\ parse' = parse /\ cu' = cu /\ policy' = policy
      /\ class' = class /\ report' = report
      /\ parse \in {"parsed", "none"} /\ verdict = "open" /\ verdict' = "judged"
  BY DEF Judge, hopsVars, onionVars
<1>3. UpdateInv' /\ ReadsInv' /\ ReadAsMeant'
  BY ParserStill DEF Judge, onionVars
<1>4. report # NoReport /\ excluded = {} /\ refreshed = {} /\ class \in {"fee", "policy"}
  BY <1>2 DEF IInv, ReportInv
<1>5. ReportInv'
  BY <1>2, <1>4 DEF IInv, ReportInv, Quoted
<1>6. /\ IsRoute(q) /\ i \in 1..Len(q.hops)
      /\ sent[report.part] = part
      /\ ErringHop(sent[report.part], report.erring) = {i}
  BY <1>4, Located
<1>7. parse = "parsed" => (inboundFee <=> covered)
  <2>1. parse = "parsed" =>
          /\ policy.base \in Byte /\ policy.prop \in Byte /\ policy.prop <= Whole
    BY DEF IInv, UpdateInv
  <2> HIDE DEF q, i
  <2> QED  BY <1>6, <2>1, FaultOfQuote
<1>8. Foreign(q, {}) = {}
  BY DEF Foreign
<1>9. \/ /\ parse = "none"
         /\ excluded' = Foreign(q, IF class = "fee" THEN {i - 1, i} ELSE {i})
         /\ refreshed' = refreshed
      \/ /\ parse = "parsed" /\ inboundFee
         /\ excluded' = Foreign(q, {i - 1}) /\ refreshed' = refreshed
      \/ /\ parse = "parsed" /\ ~inboundFee
         /\ refreshed' = Foreign(q, {i}) /\ excluded' = excluded
  <2>1. \/ /\ parse = "none"
           /\ excluded' = Network(part, IF class = "fee" THEN {i - 1, i} ELSE {i})
           /\ refreshed' = refreshed
        \/ /\ parse = "parsed" /\ inboundFee
           /\ excluded' = Network(part, {i - 1}) /\ refreshed' = refreshed
        \/ /\ parse = "parsed" /\ ~inboundFee
           /\ refreshed' = Network(part, {i}) /\ excluded' = excluded
    <3>1. \E j \in ErringHop(sent[report.part], report.erring) :
            LET p == sent[report.part]
                inbound_ == /\ class = "fee"
                            /\ Fault(policy, Allocated(p, j),
                                     p.hops[j].amount_msat) = "inbound"
            IN
            \/ /\ parse = "none"
               /\ excluded' = Network(p, IF class = "fee" THEN {j - 1, j} ELSE {j})
               /\ refreshed' = refreshed
            \/ /\ parse = "parsed" /\ inbound_
               /\ excluded' = Network(p, {j - 1})
               /\ refreshed' = refreshed
            \/ /\ parse = "parsed" /\ ~inbound_
               /\ refreshed' = Network(p, {j})
               /\ excluded' = excluded
      BY DEF Judge
    <3> HIDE DEF q, i, part
    <3> QED  BY <1>6, <3>1
  <2> HIDE DEF q, i, inboundFee
  <2>2. \A hops : Network(part, hops) = Foreign(q, hops)
    BY <1>6, OursAreTheEnds
  <2> HIDE DEF part
  <2> QED  BY <2>1, <2>2
<1>10. parse = "none" => ~covered
  OBVIOUS
<1> HIDE DEF inboundFee, covered
<1>11. /\ excluded' = Foreign(q,
              CASE parse = "none" /\ class = "fee" -> {i - 1, i}
                [] parse = "none" /\ class # "fee" -> {i}
                [] covered -> {i - 1}
                [] OTHER -> {})
       /\ refreshed' = Foreign(q, IF parse = "none" \/ covered THEN {} ELSE {i})
  <2> HIDE DEF q, i
  <2>1. CASE parse = "none" /\ class = "fee"
    <3>1. excluded' = Foreign(q, {i - 1, i}) /\ refreshed' = Foreign(q, {})
      BY <1>4, <1>8, <1>9, <2>1
    <3> QED  BY <1>10, <2>1, <3>1
  <2>2. CASE parse = "none" /\ class # "fee"
    <3>1. excluded' = Foreign(q, {i}) /\ refreshed' = Foreign(q, {})
      BY <1>4, <1>8, <1>9, <2>2
    <3> QED  BY <1>10, <2>2, <3>1
  <2>3. CASE parse = "parsed" /\ covered
    BY <1>4, <1>7, <1>8, <1>9, <2>3
  <2>4. CASE parse = "parsed" /\ ~covered
    BY <1>4, <1>7, <1>8, <1>9, <2>4
  <2> QED  BY <1>2, <2>1, <2>2, <2>3, <2>4
<1>12. BlameIsFair'
  <2>1. quote'.routes[kept'[report'.part]] = q
    BY <1>2 DEF Quoted
  <2> QED  BY <1>2, <1>11, <2>1 DEF BlameIsFair, covered
<1> QED  BY <1>1, <1>3, <1>5, <1>12 DEF IInv

-----------------------------------------------------------------------------
(* The theorems.                                                           *)

\* Nothing is translated, sent or read yet.
LEMMA InitIInv == Init => IInv
<1> SUFFICES ASSUME Init PROVE IInv
  OBVIOUS
<1>1. PICK f \in Failures : HopsInit(f.quote) /\ OnionInit(f.msg) /\ class = f.class
  BY DEF Init
<1>2. /\ quote = f.quote /\ class = f.class /\ msg = f.msg
      /\ stage = "solved" /\ next = 1 /\ kept = <<>> /\ sent = <<>>
      /\ routes = [r \in DOMAIN quote.routes |->
                        Solved(quote.server, quote.routes[r])]
      /\ parse = "idle" /\ cu = <<>> /\ reads = {} /\ inbound = {}
      /\ report = NoReport /\ verdict = "open" /\ excluded = {} /\ refreshed = {}
  BY <1>1 DEF Init, HopsInit, OnionInit
<1>3. /\ class \in {"fee", "policy"} /\ IsMessage(msg)
      /\ quote.server \in {"v26.04", "v26.06", "v27.06"}
      /\ quote.routes \in Seq({quote.routes[r] : r \in DOMAIN quote.routes})
      /\ \A r \in DOMAIN quote.routes : IsRoute(quote.routes[r])
  BY <1>2, ReportsAssumption
<1>4. Len(quote.routes) \in Nat /\ DOMAIN quote.routes = 1..Len(quote.routes)
  BY <1>3, ElementOf
<1>5. QuoteInv
  <2>1. IsSeq(quote.routes, Len(quote.routes))
    BY <1>3, <1>4 DEF IsSeq
  <2> QED  BY <1>3, <1>4, <2>1 DEF QuoteInv
<1>6. RoutesInv
  <2>1. /\ IsSeq(routes, Len(quote.routes))
        /\ \A r \in 1..Len(quote.routes) :
            routes[r] = Solved(quote.server, quote.routes[r])
    BY <1>2, <1>4 DEF IsSeq
  <2>2. kept \in Seq(1..Len(quote.routes)) /\ Len(kept) = 0
    BY <1>2
  <2>3. next \in Nat \ {0} /\ 1..Len(kept) = {}
    BY <1>2, <2>2
  <2> QED  BY <1>2, <2>1, <2>2, <2>3 DEF RoutesInv
<1>7. SentInv
  <2>1. Len(sent) = 0 /\ 1..Len(sent) = {} /\ Len(kept) = 0
    BY <1>2
  <2>2. IsSeq(sent, 0)
    BY <1>2 DEF IsSeq
  <2> QED  BY <1>2, <2>1, <2>2 DEF SentInv
<1>8. UpdateInv
  BY <1>2, <1>3 DEF UpdateInv
<1>9. ReportInv
  BY <1>2, <1>3 DEF ReportInv
<1>10. BlameIsFair
  BY <1>2 DEF BlameIsFair
<1>11. ReadsInv /\ ReadAsMeant
  <2>1. msg.data \in Seq(0..Word - 1)
    BY <1>3 DEF IsMessage
  <2>2. Len(cu) = 0 /\ cu \in Seq(Byte) /\ Len(msg.data) \in Nat
    BY <1>2, <2>1
  <2>3. 0 < Word
    BY OnionAssumption
  <2> QED  BY <1>2, <2>2, <2>3 DEF ReadsInv, ReadAsMeant
<1> QED  BY <1>5, <1>6, <1>7, <1>8, <1>9, <1>10, <1>11 DEF IInv

\* Each step is one of the above.
LEMMA StepIInv == IInv /\ [Next]_vars => IInv'
<1> SUFFICES ASSUME IInv, [Next]_vars PROVE IInv'
  OBVIOUS
<1>1. CASE HopsNext /\ UNCHANGED <<onionVars, blame>>
  BY <1>1, HopsStep
<1>2. CASE OnionNext /\ UNCHANGED <<hopsVars, blame>>
  BY <1>2, OnionStep
<1>3. CASE Locate
  BY <1>3, LocateStep
<1>4. CASE Judge
  BY <1>4, JudgeStep
<1>5. CASE \E k \in DOMAIN sent : \E i \in DOMAIN sent[k].route : Fails(k, i)
  BY <1>5, FailsStep
<1>6. CASE UNCHANGED vars
  <2>1. QuoteInv' /\ RoutesInv' /\ SentInv'
    BY <1>6, HopsSame DEF vars
  <2>2. /\ quote' = quote /\ stage' = stage /\ kept' = kept /\ sent' = sent
        /\ msg' = msg /\ parse' = parse /\ cu' = cu /\ policy' = policy
        /\ class' = class /\ verdict' = verdict /\ report' = report
        /\ excluded' = excluded /\ refreshed' = refreshed
    BY <1>6 DEF vars, hopsVars, onionVars, blame
  <2>3. UpdateInv' /\ ReadsInv' /\ ReadAsMeant'
    BY <1>6, ParserStill DEF vars, onionVars
  <2>4. ReportInv'
    BY <2>2 DEF IInv, ReportInv, Quoted
  <2>5. BlameIsFair'
    BY <2>2 DEF IInv, BlameIsFair
  <2> QED  BY <2>1, <2>3, <2>4, <2>5 DEF IInv
<1> QED  BY <1>1, <1>2, <1>3, <1>4, <1>5, <1>6 DEF Next, Plugin

\* What the proofs strengthen the properties by: the routes on their way are the
\* quoted ones, what is parsed of a message is its sender's update, of which the
\* walk has left no record out, and a report is of a hop that was sent.
THEOREM Inductive == Spec => []IInv
  BY InitIInv, StepIInv, PTL DEF Spec

\* What was sent is what was quoted.
LEMMA SentIsQuoted == IInv => SendsTheQuote
<1> SUFFICES ASSUME IInv, NEW k \in DOMAIN sent
             PROVE  LET q == quote.routes[kept[k]] IN
                    /\ sent[k].route = [i \in DOMAIN q.hops |->
                          [id |-> TrueTo(q, i), channel |-> TrueName(q, i),
                           direction |-> TrueScidd(q, i).dir,
                           amount_msat |-> q.amounts[i + 1],
                           delay |-> q.cltvs[i + 1]]]
                    /\ sent[k].amount_msat = Last(q.amounts)
                    /\ sent[k].sent_msat = Head(q.amounts)
  BY DEF SendsTheQuote
<1> DEFINE q == quote.routes[kept[k]]
           n == Len(q.hops)
<1>1. k \in 1..Len(sent) /\ IsRoute(q) /\ sent[k] = PartOf(RealPath(q))
  BY SentType DEF Quoted
<1>2. DOMAIN q.hops = 1..n
  BY <1>1, RouteTypes
<1> HIDE DEF q
<1>3. ASSUME NEW i \in 1..n
      PROVE  SendpayHop(RealHop(q, i)) =
                [id |-> TrueTo(q, i), channel |-> TrueName(q, i),
                 direction |-> TrueScidd(q, i).dir,
                 amount_msat |-> q.amounts[i + 1], delay |-> q.cltvs[i + 1]]
  <2>1. /\ RealHop(q, i).short_channel_id_dir = TrueScidd(q, i)
        /\ Get(RealHop(q, i), "node_id_out") = TrueTo(q, i)
        /\ Get(RealHop(q, i), "amount_out_msat") = q.amounts[i + 1]
        /\ Get(RealHop(q, i), "cltv_out") = q.cltvs[i + 1]
    BY DEF RealHop, Get, Has
  <2>2. OnionScid(TrueScidd(q, i)) = TrueName(q, i)
    BY <1>1, Names
  <2> QED  BY <2>1, <2>2 DEF SendpayHop
<1>4. sent[k].route = [i \in 1..n |-> SendpayHop(RealHop(q, i))]
  <2>1. DOMAIN RealPath(q) = 1..n /\ \A i \in 1..n : RealPath(q)[i] = RealHop(q, i)
    BY <1>1, PartFields
  <2>2. PartOf(RealPath(q)).route = [i \in DOMAIN RealPath(q) |->
                                        SendpayHop(RealPath(q)[i])]
    BY DEF PartOf
  <2> QED  BY <1>1, <2>1, <2>2
<1>5. sent[k].amount_msat = Last(q.amounts) /\ sent[k].sent_msat = Head(q.amounts)
  BY <1>1, PartFields
<1> QED  BY <1>2, <1>3, <1>4, <1>5 DEF q

\* Whatever version of lightningd answered, and whichever aliases the destinations
\* have, sendpay is given the route that askrene priced (plan.rs:261-321,
\* exec.rs:103-127).
THEOREM QuoteIsSent == Spec => []SendsTheQuote
  BY Inductive, SentIsQuoted, PTL

\* A message that arrives whole is read as its sender meant it, the inbound fees
\* included, and any other gives no update; no read leaves the update, whatever
\* lengths a forwarder claims (onion_error.rs:157-234).
THEOREM UpdateIsMeant == Spec => []ReadAsMeant
<1>1. IInv => ReadAsMeant
  BY DEF IInv
<1> QED  BY <1>1, Inductive, PTL

\* A failure is charged to the channels that it speaks of, by their real names and
\* never to ours, and a fee failure to the side that the quote and the returned
\* policy point at (exec.rs:210-233, 469-516, onion_error.rs:97-124).
THEOREM BlameFalls == Spec => []BlameIsFair
<1>1. IInv => BlameIsFair
  BY DEF IInv
<1> QED  BY <1>1, Inductive, PTL

=============================================================================
