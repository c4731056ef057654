--------------------------- MODULE MCH264Payload ----------------------------
(* All strings of up to six or seven bytes of which start codes, sizes and *)
(* units can be made, some units with sizes, and all streams of three      *)
(* samples from an encoder that gives parameter sets in pairs, alone, late *)
(* and too large.  The pair of the small sets fills a packet of nine       *)
(* bytes; the slices fill one packet, two, two to the brim, and three.     *)
EXTENDS H264Payload

Strings == UNION {[1 .. n -> {0, 1, 2, 5}] : n \in 0 .. 6} \cup [1 .. 7 -> {0, 1, 5}]

Sized == {
    <<0, 0, 0, 2, 65, 1, 0, 0, 0, 3, 65, 5, 5>>,
    <<0, 0, 0, 2, 65, 1, 0, 0, 0, 3, 65, 5>>,
    <<0, 0, 0, 2, 65, 1, 0, 0, 0, 2>> }

Code3 == <<0, 0, 1>>
Code4 == <<0, 0, 0, 1>>

Sps == <<103, 1>>
NewSps == <<103, 2>>
LargeSps == <<103, 1, 0>> \o <<2>>
Pps == <<104, 3>>
NewPps == <<104, 4>>
Aud == <<9, 16>>
SliceOf(n) == <<101>> \o [i \in 1 .. n - 1 |-> i + 1]

Samples == {
    Code4 \o Aud \o Code4 \o Sps \o Code4 \o Pps \o Code3 \o SliceOf(9),
    Code4 \o NewSps \o Code4 \o NewPps \o Code3 \o SliceOf(10),
    Code4 \o LargeSps \o Code3 \o Pps \o Code3 \o SliceOf(15),
    Code4 \o Aud \o Code3 \o SliceOf(16) \o Code3 \o SliceOf(17),
    Code4 \o NewSps,
    Code4 \o NewPps \o Code3 \o SliceOf(9),
    Code4 \o Pps,
    Code4 \o SliceOf(3) \o Code4 \o Sps }

MCStreams == {<<s>> : s \in Strings \cup Sized} \cup [1 .. 3 -> Samples]
=============================================================================
