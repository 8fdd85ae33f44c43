----------------------------- MODULE MCReports -----------------------------
(* A small instance of Reports for TLC: two destinations, one of them through *)
(* a peer whose channel is not announced, routes of two to five hops, bytes of *)
(* five values and numbers of twenty-five.                                    *)
EXTENDS Reports

CONSTANTS us, split, p1, p2, p3, p4, null

MCRank == [n \in {us, split, p1, p2, p3, p4} |->
    CASE n = split -> 0 [] n = p1 -> 1 [] n = us -> 2 [] n = p2 -> 3
      [] n = p3 -> 4 [] n = p4 -> 5]
MCDest == <<[scid |-> "d1", peer |-> p1, alias |-> null],
            [scid |-> "d2", peer |-> p2, alias |-> "a2"]>>
MCMirrorScid == <<"m1", "m2">>

-----------------------------------------------------------------------------
(* Quotes.                                                                 *)

\* The nodes between us and the destination's peer.
Middles(peer) ==
    {m \in {<<>>, <<p3>>, <<p1, p3>>, <<p2, p3>>, <<p1, p3, p4>>} :
        peer \notin {m[i] : i \in DOMAIN m}}

\* The hops to a destination: the first over s1, then x2, x3, x4.
HopsOver(middle, n) ==
    LET nodes == middle \o <<Dest[n].peer>> IN
    [i \in 1..Len(nodes) + 1 |->
        IF i > Len(nodes) THEN [to |-> us, scid |-> Dest[n].scid]
        ELSE [to |-> nodes[i], scid |-> <<"s1", "x2", "x3", "x4">>[i]]]

SumFrom(seq, i) == FoldLeft(LAMBDA a, b : a + b, 0, SubSeq(seq, i, Len(seq)))

\* A fee and a delta for each hop make the amounts and the cltvs.
QuoteOf(n, middle, fees) ==
    LET hops == HopsOver(middle, n)
        len == Len(hops)
    IN [dest |-> n, hops |-> hops,
        amounts |-> [i \in 1..len + 1 |->
            1 + SumFrom(SubSeq(fees, 1, len), i)],
        cltvs |-> [i \in 1..len + 1 |-> 9 + 2 * (len + 1 - i)]]

RoutesOf(fees) ==
    UNION {{QuoteOf(n, m, fees) : m \in Middles(MCDest[n].peer)} : n \in {1, 2}}
Cheap == RoutesOf(<<0, 0, 3, 1, 0>>)
Dear == RoutesOf(<<0, 1, 2, 3, 0>>)

\* Plans of one route or two, from every version; five hops are too many.
MCQuotes ==
    [server : {"v26.04", "v26.06", "v27.06"},
     routes : {<<a>> : a \in Cheap} \cup {<<a, b>> : a, b \in Dear}]

\* Four hops to the destination with the alias; the forwarders are paid 1 for 5,
\* 2 for 3 and 2 for 1.
OneQuote == [server |-> "v27.06",
             routes |-> <<QuoteOf(2, <<p1, p3>>, <<0, 1, 2, 2>>)>>]

-----------------------------------------------------------------------------
(* Messages.                                                               *)

MCWide == 3 :> 2
MCHeader == ("0x100c" :> 2) @@ ("0x100e" :> 0)

\* What is sent of an update: cut short, whole, or with a cell behind it.
Sent(code, update, tail, typed, cut) ==
    LET slice == (IF typed THEN TypePrefix ELSE <<>>) \o Serialized(update) \o tail
        header == [i \in 1..MCHeader[code] |-> 1]
        data == header \o <<Len(slice)>> \o slice \o <<1>>
    IN [code |-> code, data |-> SubSeq(data, 1, Len(data) - cut),
        update |-> update, tail |-> tail, arrives |-> cut <= 1,
        ambiguous |-> ~typed /\ update.sig = TypePrefix]

\* A message without an update, and none at all.
Bare(code, data) ==
    [code |-> code, data |-> data, update |-> [ts |-> 0], tail |-> <<>>,
     arrives |-> FALSE, ambiguous |-> FALSE]

\* The type prefix and an update a cell short, as its length says.
Short(code) ==
    Bare(code, [i \in 1..MCHeader[code] |-> 1] \o <<7>> \o TypePrefix \o <<0, 2, 1, 0, 3>>)

Updates ==
    [sig : {<<0, 1>>, <<0, 2>>}, ts : {0, 1}, enabled : BOOLEAN,
     base : {0, 3}, prop : {0, 2, 3}]

Plain(base) == [sig |-> <<0, 2>>, ts |-> 1, enabled |-> TRUE, base |-> base,
                prop |-> 2]

\* No records; the fees; the fees behind another record and with a long length;
\* a length that wraps.
Tails == {<<>>, <<2, 2, 1, 3>>, <<1, 1, 0, 2, 3, 0, 2, 3, 1>>, <<1, 3, 3, 1>>}

Few(code) ==
    {Sent(code, Plain(base), <<>>, TRUE, 0) : base \in {0, 1}}
    \cup {Bare(code, <<1, 1, 0>>), Bare("absent", <<>>)}

Many(code) ==
    Few(code) \cup {Short(code)}
    \cup {Sent(code, u, t, typed, cut) :
            u \in Updates, t \in Tails, typed \in BOOLEAN, cut \in 0..3}
    \cup {Sent(code, Plain(0), t, TRUE, 0) :
            t \in UNION {[1..n -> 0..3] : n \in 0..IF code = "0x100c" THEN 5 ELSE 3}}

-----------------------------------------------------------------------------
Code(class_) == IF class_ = "fee" THEN "0x100c" ELSE "0x100e"

\* Every quote with few messages, and every message on one quote.
MCFailures ==
    UNION {[quote : MCQuotes, class : {c}, msg : Few(Code(c))]
           \cup [quote : {OneQuote}, class : {c}, msg : Many(Code(c))] :
             c \in {"fee", "policy"}}

=============================================================================
