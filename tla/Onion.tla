------------------------------- MODULE Onion -------------------------------
(***************************************************************************)
(* The parser of onion failures (onion_error.rs): it takes the             *)
(* channel_update out of the message of a failed part and walks its TLV    *)
(* stream for inbound fees.  The machine's numbers are scaled: a byte is   *)
(* below Base, a usize and the value of a BigSize are below Word, and the  *)
(* fields of an update take one cell each.                                 *)
(***************************************************************************)
EXTENDS Integers, FiniteSets, SequencesExt

CONSTANTS
    Base,        \* the values of a byte (256)
    Wide,        \* the cells behind the first one of a BigSize (0xfd: 2, ...)
    Word,        \* the values of 64 bits
    Whole,       \* a proportional fee of 100% (1_000_000)
    MaxAmount,   \* the largest amount an HTLC carries
    FeeType,     \* the TLV of the inbound fees (55555)
    Header       \* the length of what is between failcode and update

ASSUME OnionAssumption ==
    /\ Base \in Nat \ {0} /\ Word \in Nat \ {0} /\ Whole \in Nat \ {0}
    /\ MaxAmount \in Nat
    /\ DOMAIN Wide \subseteq 0..Base - 1
    /\ \A b \in DOMAIN Wide : Wide[b] \in Nat /\ Base ^ Wide[b] <= Word
    /\ Base - 1 + Whole * MaxAmount < Word
    /\ \A code \in DOMAIN Header : Header[code] \in Nat

VARIABLES
    msg,     \* the failure: [code, data], and (history) what its sender meant by
             \* it, [update, tail, arrives, ambiguous]
    parse,   \* "idle", "frame", "fields", "walk", "parsed" or "none"
    cu,      \* the slice of the update
    pos,     \* where the walk is
    policy,  \* the policy fields read
    inbound, \* the inbound fees found: one pair, or none
    reads    \* history: the cells read of cu

onionVars == <<msg, parse, cu, pos, policy, inbound, reads>>

\* The update's cells: signature, timestamp, flags and fees (136 bytes).
SigCells == 2
Ts == 2
Disabled == 3
BaseFee == 4
PropFee == 5
BodyLen == 6

\* The type prefix 0x0102.
TypePrefix == <<0, 1>>

Cell(data, i) == IF i < Len(data) THEN data[i + 1] ELSE 0
Rest(data, i) == SubSeq(data, i + 1, Len(data))

-----------------------------------------------------------------------------
(* The message's frame and the update's fields (parse_chan_update).        *)

OnionInit(message) ==
    /\ msg = message
    /\ parse = "idle" /\ cu = <<>> /\ pos = 0
    /\ policy = <<>> /\ inbound = {} /\ reads = {}

None == parse' = "none" /\ UNCHANGED <<cu, pos, policy, inbound, reads>>

\* Mutant: every failure has the header of a temporary channel failure.
HeaderOfNone(code) == 0

HeaderOf(code) == Header[code]

\* The update, unless the failcode carries none or it is not all there.  The
\* length is at the header's end, and what follows the update is not looked at.
Frame ==
    /\ parse = "frame"
    /\ IF msg.code \notin DOMAIN Header \/ Len(msg.data) < HeaderOf(msg.code) + 1
       THEN None
       ELSE LET len == Cell(msg.data, HeaderOf(msg.code))
                start == HeaderOf(msg.code) + 1
                slice == SubSeq(msg.data, start + 1, start + len)
            IN IF len = 0 \/ Len(msg.data) < start + len
               THEN None
               ELSE /\ parse' = "fields"
                    /\ cu' = IF IsPrefix(TypePrefix, slice)
                             THEN Rest(slice, Len(TypePrefix)) ELSE slice
                    /\ UNCHANGED <<pos, policy, inbound, reads>>
    /\ UNCHANGED msg

Complete(data) == Len(data) >= BodyLen

\* The fields, unless the update is short or blanked.
Fields ==
    /\ parse = "fields"
    /\ IF ~Complete(cu) \/ Cell(cu, Ts) = 0
       THEN None
       ELSE /\ parse' = "walk"
            /\ policy' = [enabled |-> Cell(cu, Disabled) = 0,
                          base |-> Cell(cu, BaseFee), prop |-> Cell(cu, PropFee)]
            /\ reads' = reads \cup 0..BodyLen - 1
            /\ pos' = BodyLen
            /\ UNCHANGED <<cu, inbound>>
    /\ UNCHANGED msg

-----------------------------------------------------------------------------
(* The TLV stream (parse_inbound_tlv).                                     *)

\* The number in n cells, most significant first (read_be).
ReadBe(data, i, n) ==
    LET value[k \in 0..n] ==
            IF k = 0 THEN 0 ELSE value[k - 1] * Base + Cell(data, i + k - 1)
    IN value[n]

\* A BigSize at i: its value and where it ends, or nothing (read_bigsize).
BigSize(data, i) ==
    LET first == Cell(data, i)
        n == IF first \in DOMAIN Wide THEN Wide[first] ELSE 0
    IN IF i >= Len(data) \/ i + 1 + n > Len(data) THEN {}
       ELSE {[value |-> IF n = 0 THEN first ELSE ReadBe(data, i + 1, n),
              end |-> i + 1 + n]}

\* Mutant: the sum is compared, which wraps.
FitsWrapping(tlen, p) == (p + tlen) % Word <= Len(cu)

\* Whether a value of this length is within the update.
Fits(tlen, p) == tlen <= Len(cu) - p

\* Two's complement.
Signed(v) == IF v >= Base \div 2 THEN v - Base ELSE v

\* Where the next record starts.
Behind(p, tlen) == (p + tlen) % Word

\* The bound that classify_fee_insufficient relies on.
PropBounded(prop) == prop <= Whole

\* An update with an absurd fee is none, once all of it is read.
End == parse' = IF PropBounded(policy.prop) THEN "parsed" ELSE "none"

\* The next record: the inbound fees, one to skip, or one that ends the walk.
Record ==
    /\ parse = "walk" /\ pos < Len(cu)
    /\ IF \E t \in BigSize(cu, pos) : \E l \in BigSize(cu, t.end) :
              Fits(l.value, l.end)
       THEN \E t \in BigSize(cu, pos) : \E l \in BigSize(cu, t.end) :
            IF t.value = FeeType /\ l.value = 2
            THEN /\ End
                 /\ inbound' = {<<Signed(Cell(cu, l.end)),
                                  Signed(Cell(cu, l.end + 1))>>}
                 /\ reads' = reads \cup pos..l.end + 1
                 /\ UNCHANGED pos
            ELSE /\ pos' = Behind(l.end, l.value)
                 /\ reads' = reads \cup pos..l.end - 1
                 /\ UNCHANGED <<parse, inbound>>
       ELSE End /\ UNCHANGED <<pos, inbound, reads>>
    /\ UNCHANGED <<msg, cu, policy>>

WalkEnds ==
    /\ parse = "walk" /\ pos >= Len(cu)
    /\ End
    /\ UNCHANGED <<msg, cu, pos, policy, inbound, reads>>

OnionNext == Frame \/ Fields \/ Record \/ WalkEnds

-----------------------------------------------------------------------------
(* The side at fault (classify_fee_insufficient).                          *)

\* What the outgoing channel's policy asks for, in 64 bits.
Required(p, out) == (p.base + ((p.prop * out) % Word) \div Whole) % Word

\* The side at fault, by the fee that was paid.
Fault(p, alloc, out) ==
    IF alloc >= Required(p, out) THEN "inbound" ELSE "stale outbound"

-----------------------------------------------------------------------------
(* Properties.                                                             *)

\* The pairs of offsets that bound a record of the update, in numbers that do not
\* wrap: a type and a length, and as many cells as the length says.
Records(data) ==
    {r \in [start : 0..Len(data), end : 0..Len(data)] :
        \E t \in BigSize(data, r.start) : \E l \in BigSize(data, t.end) :
            r.end = l.end + l.value}

\* The fees of the record that starts there, if it is of fees and complete.
FeesAt(data, start) ==
    UNION {{<<Signed(Cell(data, l.end)), Signed(Cell(data, l.end + 1))>> :
                l \in {k \in BigSize(data, t.end) :
                        t.value = FeeType /\ k.value = 2 /\ k.end + 2 <= Len(data)}} :
           t \in BigSize(data, start)}

\* Where whole records, laid end to end from the start, lead to.
Starts(data) ==
    LET led == {S \in SUBSET Records(data) :
            \A r \in S : r.start = 0 \/ \E q \in S : q.end = r.start}
    IN {0} \cup UNION {{r.end : r \in S} : S \in led}

\* The fees a TLV stream states: those of the first fee record they lead to.
FeesIn(data) ==
    LET fees == {s \in Starts(data) : FeesAt(data, s) # {}}
    IN UNION {FeesAt(data, s) : s \in {q \in fees : \A p \in fees : q <= p}}

\* A message that arrives whole, with a policy a node may have, is read as its
\* sender meant it, and any other gives no update at all: not half of one, nor
\* one of the bytes beside it (onion_error.rs:157-234).  No read leaves the update,
\* which is all within the message, whatever lengths a forwarder claims: an index
\* outside of a slice would stop the plugin.  "Both forms are accepted"
\* (onion_error.rs:179-181) but for the ambiguous messages: an update without the
\* type prefix whose signature begins as the prefix does loses its first cells.
ReadAsMeant ==
    /\ \A i \in reads : i < Len(cu)
    /\ Len(cu) <= Len(msg.data)
    /\ parse \in {"parsed", "none"} /\ ~msg.ambiguous =>
        IF msg.arrives /\ msg.update.ts # 0 /\ msg.update.prop <= Whole
        THEN /\ parse = "parsed"
             /\ policy = [enabled |-> msg.update.enabled,
                          base |-> msg.update.base, prop |-> msg.update.prop]
             /\ inbound = FeesIn(msg.tail)
        ELSE parse = "none"

=============================================================================
