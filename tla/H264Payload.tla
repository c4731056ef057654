---------------------------- MODULE H264Payload -----------------------------
(***************************************************************************)
(* server/hub/rtppay/h264/h264_packetizer.go: one encoder's samples become *)
(* the payloads of RTP packets, unit by unit (H264Units).  The algorithms  *)
(* work on bytes; 0 stands for the code's -1.  The receiver, which puts    *)
(* the NAL units together again as RFC 6184 says, is external: the         *)
(* browser.  RTP headers (sequence number, timestamp, send time) are left  *)
(* out; packets arrive as sent.                                            *)
(***************************************************************************)
EXTENDS H264Units, SequencesExt, FiniteSetsExt

CONSTANT
    Streams  \* sequences of samples that the encoder may give

VARIABLES
    stream,    \* the samples to come
    sample,    \* the sample given last
    spsNalu, ppsNalu, \* parameter sets that wait for a slice, <<>> for nil
    given,     \* history: a decoder that takes the encoder's NAL units
    received   \* the decoder that takes the receiver's

payloaderVars == <<stream, sample, spsNalu, ppsNalu, given, received>>

\* A fold whose step is a function.
Fold(step, base, s) == FoldLeft(LAMBDA acc, e : step[acc][e], base, s)

-----------------------------------------------------------------------------
(* Splitting a sample into NAL units.                                      *)

Scan == [i : Nat, zCount : Nat, indStart : Nat, indLen : Nat]

\* Faulty variant: only start codes of four bytes are seen.
LongIndicator(nalu, start) ==
    LET look == [acc \in Scan |-> [b \in Bytes |->
            IF acc.indStart # 0 THEN acc
            ELSE IF b = 0 THEN [acc EXCEPT !.i = @ + 1, !.zCount = @ + 1]
            ELSE IF b = 1 /\ acc.zCount >= 3
                 THEN [acc EXCEPT !.indStart = acc.i - acc.zCount, !.indLen = acc.zCount + 1]
            ELSE [acc EXCEPT !.i = @ + 1, !.zCount = 0]]]
    IN Fold(look, [i |-> start, zCount |-> 0, indStart |-> 0, indLen |-> 0],
            SubSeq(nalu, start, Len(nalu)))

\* The loop that counts zeros until a one ends at least two of them.
FindIndicator(nalu, start) ==
    LET look == [acc \in Scan |-> [b \in Bytes |->
            IF acc.indStart # 0 THEN acc
            ELSE IF b = 0 THEN [acc EXCEPT !.i = @ + 1, !.zCount = @ + 1]
            ELSE IF b = 1 /\ acc.zCount >= 2
                 THEN [acc EXCEPT !.indStart = acc.i - acc.zCount, !.indLen = acc.zCount + 1]
            ELSE [acc EXCEPT !.i = @ + 1, !.zCount = 0]]]
    IN Fold(look, [i |-> start, zCount |-> 0, indStart |-> 0, indLen |-> 0],
            SubSeq(nalu, start, Len(nalu)))

AnnexB(payload) ==
    LET from[start \in 1 .. Len(payload) + 1] ==
            LET next == FindIndicator(payload, start)
            IN IF next.indStart = 0
               THEN <<SubSeq(payload, start, Len(payload))>>
               ELSE <<SubSeq(payload, start, next.indStart - 1)>>
                        \o from[next.indStart + next.indLen]
        first == FindIndicator(payload, 1)
    IN from[first.indStart + first.indLen]

U32BE(b, at) ==
    b[at] * 16777216 + b[at + 1] * 65536 + b[at + 2] * 256 + b[at + 3]

\* Units preceded by their size in four bytes, and how many bytes are left
\* where the sizes stop fitting.
AVCC(payload) ==
    LET end == Len(payload) + 1
        from[start \in 5 .. end] ==
            LET size == U32BE(payload, start - 4)
                next == start + size
            IN IF size > end - start
               THEN [nalus |-> <<>>, left |-> end - start]
               ELSE IF end - next < 4
               THEN [nalus |-> <<SubSeq(payload, start, next - 1)>>, left |-> end - next]
               ELSE [nalus |-> <<SubSeq(payload, start, next - 1)>> \o from[next + 4].nalus,
                     left |-> from[next + 4].left]
    IN from[5]

\* What cannot be read either way is one unit.
SplitNALUs(payload) ==
    IF Len(payload) < 4 THEN <<payload>>
    ELSE IF FindIndicator(payload, 1).indStart # 0 THEN AnnexB(payload)
    ELSE IF /\ U32BE(payload, 1) <= Len(payload)
            /\ AVCC(payload).left = 0 /\ AVCC(payload).nalus # <<>>
         THEN AVCC(payload).nalus
         ELSE <<payload>>

Waiting == [sps : Seq(Nat), pps : Seq(Nat), out : Seq(Seq(Nat))]

Payload(payload) ==
    Fold([p \in Waiting |-> [nalu \in Seq(Nat) |-> PayloadNalu(p, nalu)]],
         [sps |-> spsNalu, pps |-> ppsNalu, out |-> <<>>], SplitNALUs(payload))

-----------------------------------------------------------------------------
(* The receiver.                                                           *)

\* One payload: aggregated units, a fragment, or a unit.
Depacketize(r, pay) ==
    LET spsLen == pay[2] * 256 + pay[3]
        fragment == SubSeq(pay, 3, Len(pay))
        header == <<RefIdc(pay) + (pay[2] % 32)>>
    IN IF Type(pay) = StapA
       THEN [r EXCEPT !.nalus = @ \o <<SubSeq(pay, 4, 3 + spsLen),
                                       SubSeq(pay, 6 + spsLen, Len(pay))>>]
       ELSE IF Type(pay) # FuA THEN [r EXCEPT !.nalus = Append(@, pay)]
       ELSE IF pay[2] \div 128 = 1 THEN [r EXCEPT !.unit = header \o fragment]
       ELSE IF (pay[2] \div 64) % 2 = 1
       THEN [nalus |-> Append(r.nalus, r.unit \o fragment), unit |-> <<>>]
       ELSE [r EXCEPT !.unit = @ \o fragment]

Arrived == [nalus : Seq(Seq(Nat)), unit : Seq(Nat)]

Receive(payloads) ==
    Fold([r \in Arrived |-> [pay \in Seq(Nat) |-> Depacketize(r, pay)]],
         [nalus |-> <<>>, unit |-> <<>>], payloads).nalus

\* What a decoder makes of a NAL unit: the parameter sets in force, and every
\* slice with those it is decoded with.  last: the sets that came latest with no
\* slice between; open: no slice has come since.  A slice is noted as lost if
\* those came without their pair or are too large for a packet.
Decode(d, nalu) ==
    IF nalu = <<>> \/ Type(nalu) \in Skipped THEN d
    ELSE IF Type(nalu) = SPS
    THEN [d EXCEPT !.sps = nalu, !.open = TRUE,
                   !.last = [sps |-> nalu, pps |-> IF d.open THEN @.pps ELSE <<>>]]
    ELSE IF Type(nalu) = PPS
    THEN [d EXCEPT !.pps = nalu, !.open = TRUE,
                   !.last = [sps |-> IF d.open THEN @.sps ELSE <<>>, pps |-> nalu]]
    ELSE LET pair == d.last
             lost == /\ pair.sps # <<>> \/ pair.pps # <<>>
                     /\ \/ pair.sps = <<>> \/ pair.pps = <<>>
                        \/ Len(Aggregate(pair.sps, pair.pps)) > MTU
         IN [d EXCEPT !.open = FALSE,
                      !.slices = Append(@, [nalu |-> nalu, sps |-> d.sps, pps |-> d.pps,
                                            lost |-> lost])]

Pairs == [sps : Seq(Nat), pps : Seq(Nat)]
Decoders == [sps : Seq(Nat), pps : Seq(Nat), last : Pairs, open : BOOLEAN,
             slices : Seq([nalu : Seq(Nat), sps : Seq(Nat), pps : Seq(Nat), lost : BOOLEAN])]

Decoded(d, nalus) ==
    Fold([e \in Decoders |-> [nalu \in Seq(Nat) |-> Decode(e, nalu)]], d, nalus)

-----------------------------------------------------------------------------
(* Reference: the units lie between start codes, without the zeros that    *)
(* precede the next one.                                                   *)

Codes(payload) ==
    {i \in 3 .. Len(payload) : payload[i] = 1 /\ payload[i - 1] = 0 /\ payload[i - 2] = 0}

WithoutZeros(b) ==
    LET kept == {i \in DOMAIN b : b[i] # 0}
    IN SubSeq(b, 1, IF kept = {} THEN 0 ELSE Max(kept))

Sorted(S) ==
    CHOOSE c \in [1 .. Cardinality(S) -> S] : \A i, j \in DOMAIN c : i < j => c[i] < c[j]

Units(payload) ==
    LET codes == Sorted(Codes(payload))
    IN [k \in DOMAIN codes |->
            IF k = Len(codes) THEN SubSeq(payload, codes[k] + 1, Len(payload))
            ELSE WithoutZeros(SubSeq(payload, codes[k] + 1, codes[k + 1] - 1))]

-----------------------------------------------------------------------------
\* An encoder gives bytes and, where they are split, H.264 units: types from 24
\* on are left to RTP, and the first bit is clear.
ASSUME StreamsAssumption ==
    /\ Streams \subseteq Seq(Seq(Bytes))
    /\ \A s \in Streams : \A i \in DOMAIN s : \A k \in DOMAIN SplitNALUs(s[i]) :
           LET nalu == SplitNALUs(s[i])[k]
           IN nalu # <<>> => nalu[1] < 128 /\ Type(nalu) < StapA

NoUnits == [sps |-> <<>>, pps |-> <<>>, last |-> [sps |-> <<>>, pps |-> <<>>],
            open |-> FALSE, slices |-> <<>>]

PayloaderInit ==
    /\ stream \in Streams
    /\ sample = <<>>
    /\ spsNalu = <<>> /\ ppsNalu = <<>>
    /\ given = NoUnits /\ received = NoUnits

\* An empty sample returns at once.
PacketizeSample ==
    LET result == Payload(sample')
        units == IF Codes(sample') # {} /\ Len(sample') > 3 THEN Units(sample')
                 ELSE SplitNALUs(sample')
    IN
    /\ stream # <<>>
    /\ sample' = Head(stream) /\ stream' = Tail(stream)
    /\ IF sample' = <<>>
       THEN UNCHANGED <<spsNalu, ppsNalu, given, received>>
       ELSE /\ spsNalu' = result.sps /\ ppsNalu' = result.pps
            /\ given' = Decoded(given, units)
            /\ received' = Decoded(received, Receive(result.out))

PayloaderNext == PacketizeSample

PayloaderSpec == PayloaderInit /\ [][PayloaderNext]_payloaderVars

-----------------------------------------------------------------------------
\* Samples with start codes of three or more bytes, however zeros and ones
\* lie around them, are split where the codes say.
SplitAsCoded ==
    Len(sample) > 3 /\ Codes(sample) # {} => SplitNALUs(sample) = Units(sample)

\* The receiver puts together every unit that is neither parameter set nor
\* filler, in order and to the byte, whatever its size.
SlicesDelivered ==
    /\ Len(received.slices) = Len(given.slices)
    /\ \A k \in DOMAIN given.slices : received.slices[k].nalu = given.slices[k].nalu

\* The receiver decodes every slice with the parameter sets the encoder meant,
\* unless those came without their pair or exceed a packet together.
ParametersInForce ==
    \A k \in DOMAIN given.slices \cap DOMAIN received.slices :
        LET meant == given.slices[k]
            held == received.slices[k]
        IN meant.lost \/ (held.sps = meant.sps /\ held.pps = meant.pps)
=============================================================================
