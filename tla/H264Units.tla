----------------------------- MODULE H264Units ------------------------------
(***************************************************************************)
(* server/hub/rtppay/h264/h264_packetizer.go: the payloads of one NAL      *)
(* unit, which is whole, in fragments, or a pair of parameter sets.  A     *)
(* unit is a sequence of bytes; positions count from 1.                    *)
(***************************************************************************)
EXTENDS Naturals, Sequences

CONSTANT
    MTU  \* what a payload may hold: the payloader's MTU, a uint16, less the RTP header

ASSUME MTUAssumption == MTU \in Nat /\ MTU >= 3 /\ MTU <= 65523

Bytes == 0 .. 255

Type(nalu) == nalu[1] % 32
RefIdc(nalu) == ((nalu[1] \div 32) % 4) * 32
SPS == 7
PPS == 8
Skipped == {9, 12} \* access unit delimiter and filler
StapA == 24
FuA == 28

\* Each set after its length, as a uint16.
Aggregate(sps, pps) ==
    LET length(n) == <<(Len(n) \div 256) % 256, Len(n) % 256>>
    IN <<120>> \o length(sps) \o sps \o length(pps) \o pps

\* Faulty variant: the first octet is sent in the first fragment as well.
FragmentsWithOctet(nalu) ==
    LET size == MTU - 2
        count == (Len(nalu) + size - 1) \div size
        flags(i) == IF i = 1 THEN 128 ELSE IF i = count THEN 64 ELSE 0
    IN [i \in 1 .. count |->
            <<FuA + RefIdc(nalu), Type(nalu) + flags(i)>>
                \o SubSeq(nalu, (i - 1) * size + 1, IF i = count THEN Len(nalu) ELSE i * size)]

\* The unit without its first octet in fragments; start and end are flagged.
Fragments(nalu) ==
    LET size == MTU - 2
        data == Tail(nalu)
        count == (Len(data) + size - 1) \div size
        flags(i) == IF i = 1 THEN 128 ELSE IF i = count THEN 64 ELSE 0
    IN [i \in 1 .. count |->
            <<FuA + RefIdc(nalu), Type(nalu) + flags(i)>>
                \o SubSeq(data, (i - 1) * size + 1, IF i = count THEN Len(data) ELSE i * size)]

\* Faulty variant: a pair that fills the packet is taken to be too large.
PairFitsBelow(sps, pps) == Len(Aggregate(sps, pps)) < MTU

PairFits(sps, pps) == Len(Aggregate(sps, pps)) <= MTU

\* One unit.  Parameter sets wait; the next other unit takes a complete pair
\* with it, which is dropped if it does not fit.
PayloadNalu(p, nalu) ==
    LET paired == p.sps # <<>> /\ p.pps # <<>>
        pair == IF paired /\ PairFits(p.sps, p.pps) THEN <<Aggregate(p.sps, p.pps)>> ELSE <<>>
        unit == IF Len(nalu) <= MTU THEN <<nalu>> ELSE Fragments(nalu)
    IN IF nalu = <<>> \/ Type(nalu) \in Skipped THEN p
       ELSE IF Type(nalu) = SPS THEN [p EXCEPT !.sps = nalu]
       ELSE IF Type(nalu) = PPS THEN [p EXCEPT !.pps = nalu]
       ELSE [sps |-> IF paired THEN <<>> ELSE p.sps,
             pps |-> IF paired THEN <<>> ELSE p.pps,
             out |-> p.out \o pair \o unit]
=============================================================================
