-------------------------- MODULE MediaPipelineProofs --------------------------
(***************************************************************************)
(* Theorems about MediaPipeline for every number of pipelines and restarts *)
(* and every buffer: restarts and Stop, whatever their order, leave one    *)
(* pipeline at most in use, and one that samples finds its packetizer.     *)
(* And about H264Payload, the payloader the video pipeline feeds, for      *)
(* every encoder and packet size: samples are split where the start codes  *)
(* are, slices arrive whole, and with the parameter sets that were meant.  *)
(***************************************************************************)
EXTENDS MediaPipeline, H264Payload, SequenceTheorems, FiniteSetTheorems,
        WellFoundedInduction, TLAPS

PipelineTypes ==
    /\ cur \in 0 .. MaxPipes /\ born \in 0 .. MaxPipes
    /\ state \in [Pipes -> {"null", "playing", "halting"}]
    /\ thread \in [Pipes -> {"idle", "pulled", "push", "pull"}]
    /\ target \in [Closers -> 0 .. MaxPipes]
    /\ conn \in {"idle", "start", "listening", "call", "halt", "closed"}
    /\ bus \in {"idle", "call", "halt", "source", "open", "start"}

NoneInUse == \A i \in Pipes : ~ InUse(i)

\* Nothing runs before Listen has started a pipeline, so nothing restarts.
QuietBeforeListen == conn \in {"idle", "start"} => NoneInUse /\ bus = "idle"

\* Unless a selection came between, the pipeline in use is p.pipeline, it is
\* the one a restart closes, and it is out of use when the restart replaces it.
OnlyCurrent == \A i \in Pipes : InUse(i) => i = cur

RestartClosesCurrent ==
    /\ bus \in {"call", "halt"} => target["bus"] = cur
    /\ bus = "halt" => \A i \in Pipes : ~ Playing(i)
    /\ bus \in {"source", "open", "start"} => NoneInUse

SourceInv ==
    /\ PipelineTypes /\ QuietBeforeListen
    /\ ~ reselected => OnlyCurrent /\ RestartClosesCurrent

\* Listen has a pipeline, and it has a packetizer when no Close is under way.
PacketizerInv ==
    /\ conn \in {"start", "listening"} => cur # 0
    /\ conn = "start" => packetizer
    /\ conn = "listening" /\ bus \in {"idle", "start"} => packetizer

PipelineInv == SourceInv /\ PacketizerInv

-----------------------------------------------------------------------------
(* SetSource, Open and Close, which the threads share.                     *)

LEMMA SetSourceMakes ==
    ASSUME PipelineTypes, SetSource
    PROVE  cur' \in 0 .. MaxPipes /\ born' \in 0 .. MaxPipes /\ (cur # 0 => cur' # 0)
BY PipesAssumption DEF PipelineTypes, SetSource

\* Open sets p.pipeline to play, and connects its callback once more.
LEMMA OpenStartsCurrent ==
    ASSUME PipelineTypes, OpenStarts
    PROVE  /\ state' \in [Pipes -> {"null", "playing", "halting"}]
           /\ \A i \in Pipes : i # cur => state'[i] = state[i]
BY DEF PipelineTypes, OpenStarts, pipeVars, Pipes

LEMMA CloseTargetsCurrent ==
    ASSUME PipelineTypes, NEW w \in Closers, CloseDrops(w)
    PROVE  /\ target' \in [Closers -> 0 .. MaxPipes]
           /\ target'[w] = cur /\ \A v \in Closers : v # w => target'[v] = target[v]
BY DEF PipelineTypes, CloseDrops

\* Halting stops the target from playing, and nothing else.
LEMMA CloseHaltsTarget ==
    ASSUME PipelineTypes, NEW w \in Closers, CloseHalts(w)
    PROVE  /\ state' \in [Pipes -> {"null", "playing", "halting"}]
           /\ \A i \in Pipes : state'[i] = IF i = target[w] THEN "halting" ELSE state[i]
BY DEF PipelineTypes, CloseHalts, Pipes

\* Close returns when the target's callback is over.
LEMMA CloseReturnsIdle ==
    ASSUME PipelineTypes, NEW w \in Closers, CloseReturns(w)
    PROVE  /\ state' \in [Pipes -> {"null", "playing", "halting"}]
           /\ thread' \in [Pipes -> {"idle", "pulled", "push", "pull"}]
           /\ target' \in [Closers -> 0 .. MaxPipes]
           /\ \A v \in Closers : v # w => target'[v] = target[v]
           /\ \A i \in Pipes : state'[i] = IF i = target[w] THEN "null" ELSE state[i]
           /\ \A i \in Pipes : thread'[i] = IF i = target[w] THEN "idle" ELSE thread[i]
<1>1. 0 \in 0 .. MaxPipes
  BY PipesAssumption
<1>2. /\ target' \in [Closers -> 0 .. MaxPipes]
      /\ \A v \in Closers : v # w => target'[v] = target[v]
  BY <1>1 DEF PipelineTypes, CloseReturns
<1>3. CASE target[w] = 0
  BY <1>2, <1>3 DEF PipelineTypes, CloseReturns, Pipes
<1>4. CASE target[w] # 0
  BY <1>2, <1>4 DEF PipelineTypes, CloseReturns, Pipes
<1> QED
  BY <1>3, <1>4

-----------------------------------------------------------------------------
LEMMA TypesStep ==
    ASSUME PipelineTypes, [Next]_vars
    PROVE  PipelineTypes'
<1> USE DEF PipelineTypes, pipeVars, sampleVars
<1>1. CASE SelectBegins \/ ReadRTP \/ WriteRTP \/ UNCHANGED vars
  BY <1>1 DEF SelectBegins, ReadRTP, WriteRTP, vars
<1>2. CASE Select \/ RestartSets
  BY <1>2, SetSourceMakes DEF Select, RestartSets
<1>3. CASE ListenOpens \/ RestartOpens
  BY <1>3 DEF ListenOpens, RestartOpens
<1>4. CASE ListenStarts \/ RestartStarts
  BY <1>4, OpenStartsCurrent DEF ListenStarts, RestartStarts
<1>5. CASE StopDrops \/ BusMessage
  BY <1>5, CloseTargetsCurrent DEF StopDrops, BusMessage, Closers
<1>6. CASE StopHalts \/ RestartHalts
  BY <1>6, CloseHaltsTarget DEF StopHalts, RestartHalts, Closers
<1>7. CASE StopReturns \/ RestartReturns
  BY <1>7, CloseReturnsIdle DEF StopReturns, RestartReturns, Closers
<1>8. ASSUME NEW i \in Pipes, Sample(i) \/ Packetize(i) \/ Push(i) \/ SampleDone(i)
      PROVE  PipelineTypes'
  BY <1>8 DEF Sample, Packetize, Push, SampleDone
<1> QED
  BY <1>1, <1>2, <1>3, <1>4, <1>5, <1>6, <1>7, <1>8 DEF Next

LEMMA SourceStep ==
    ASSUME SourceInv, PipelineTypes', [Next]_vars
    PROVE  SourceInv'
<1> USE DEF SourceInv, QuietBeforeListen, OnlyCurrent, RestartClosesCurrent, NoneInUse, InUse,
            Playing, pipeVars, sampleVars
<1>1. CASE UNCHANGED <<cur, state, thread, target, conn, bus, reselected>>
  BY <1>1
<1>2. CASE Select
  BY <1>2 DEF Select, SetSource
<1>3. CASE ListenOpens
  BY <1>3 DEF ListenOpens
<1>4. CASE ListenStarts
  BY <1>4, OpenStartsCurrent DEF ListenStarts
<1>5. CASE StopDrops
  <2>1. target'["bus"] = target["bus"]
    BY <1>5, CloseTargetsCurrent DEF StopDrops, Closers
  <2> QED
    BY <1>5, <2>1 DEF StopDrops
<1>6. CASE StopHalts
  <2>1. \A i \in Pipes : state'[i] = "playing" => state[i] = "playing"
    BY <1>6, CloseHaltsTarget DEF StopHalts, Closers
  <2> QED
    BY <1>6, <2>1 DEF StopHalts
<1>7. CASE StopReturns
  <2>1. /\ target'["bus"] = target["bus"]
        /\ \A i \in Pipes : state'[i] = "playing" => state[i] = "playing"
        /\ \A i \in Pipes : thread'[i] = "pulled" => thread[i] = "pulled"
    BY <1>7, CloseReturnsIdle DEF StopReturns, Closers
  <2> QED
    BY <1>7, <2>1 DEF StopReturns
<1>8. CASE BusMessage
  <2>1. target'["bus"] = cur
    BY <1>8, CloseTargetsCurrent DEF BusMessage, Closers
  <2> QED
    BY <1>8, <2>1 DEF BusMessage
<1>9. CASE RestartHalts
  <2>1. \A i \in Pipes : state'[i] = IF i = target["bus"] THEN "halting" ELSE state[i]
    BY <1>9, CloseHaltsTarget DEF RestartHalts, Closers
  <2> QED
    BY <1>9, <2>1 DEF RestartHalts
<1>10. CASE RestartReturns
  <2>1. /\ \A i \in Pipes : state'[i] = IF i = target["bus"] THEN "null" ELSE state[i]
        /\ \A i \in Pipes : thread'[i] = IF i = target["bus"] THEN "idle" ELSE thread[i]
    BY <1>10, CloseReturnsIdle DEF RestartReturns, Closers
  <2> QED
    BY <1>10, <2>1 DEF RestartReturns
<1>11. CASE RestartSets
  BY <1>11 DEF RestartSets
<1>12. CASE RestartOpens
  BY <1>12 DEF RestartOpens
<1>13. CASE RestartStarts
  BY <1>13, OpenStartsCurrent DEF RestartStarts
<1>14. ASSUME NEW i \in Pipes, Sample(i)
       PROVE  SourceInv'
  <2>1. /\ Playing(i) /\ UNCHANGED <<cur, state, target, conn, bus, reselected>>
        /\ \A j \in Pipes : thread'[j] = IF j = i THEN "pulled" ELSE thread[j]
    BY <1>14 DEF Sample, PipelineTypes
  <2>2. \A j \in Pipes : InUse(j)' <=> InUse(j)
    BY <2>1
  <2> QED
    BY <2>1, <2>2
<1>15. ASSUME NEW i \in Pipes, Packetize(i) \/ Push(i) \/ SampleDone(i)
       PROVE  SourceInv'
  <2>1. /\ UNCHANGED <<cur, state, target, conn, bus, reselected>>
        /\ \A j \in Pipes : thread'[j] = "pulled" => thread[j] = "pulled"
    BY <1>15 DEF Packetize, Push, SampleDone, PipelineTypes
  <2> QED
    BY <2>1
<1>16. CASE SelectBegins \/ ReadRTP \/ WriteRTP \/ UNCHANGED vars
  BY <1>1, <1>16 DEF SelectBegins, ReadRTP, WriteRTP, vars
<1> QED
  BY <1>2, <1>3, <1>4, <1>5, <1>6, <1>7, <1>8, <1>9, <1>10, <1>11, <1>12, <1>13, <1>14, <1>15,
     <1>16 DEF Next

LEMMA PacketizerStep ==
    ASSUME SourceInv, PacketizerInv, [Next]_vars
    PROVE  PacketizerInv'
<1> USE DEF PacketizerInv, pipeVars, sampleVars
<1>1. CASE UNCHANGED <<cur, packetizer, conn, bus>>
  BY <1>1
<1>2. CASE Select
  BY <1>2, SetSourceMakes DEF Select, SourceInv
<1>3. CASE ListenOpens
  BY <1>3 DEF ListenOpens, OpenSets
<1>4. CASE ListenStarts
  BY <1>4 DEF ListenStarts
<1>5. CASE StopDrops \/ StopHalts \/ StopReturns
  BY <1>5 DEF StopDrops, StopHalts, StopReturns
<1>6. CASE BusMessage
  <2>1. conn \notin {"idle", "start"}
    BY <1>6 DEF BusMessage, SourceInv, QuietBeforeListen, NoneInUse, InUse
  <2> QED
    BY <1>6, <2>1 DEF BusMessage
<1>7. CASE RestartHalts \/ RestartReturns
  BY <1>7 DEF RestartHalts, RestartReturns
<1>8. CASE RestartSets
  BY <1>8, SetSourceMakes DEF RestartSets, SourceInv
<1>9. CASE RestartOpens
  BY <1>9 DEF RestartOpens, OpenSets
<1>10. CASE RestartStarts
  BY <1>10 DEF RestartStarts
<1>11. ASSUME NEW i \in Pipes, Sample(i) \/ Packetize(i) \/ Push(i) \/ SampleDone(i)
       PROVE  PacketizerInv'
  BY <1>1, <1>11 DEF Sample, Packetize, Push, SampleDone
<1>12. CASE SelectBegins \/ ReadRTP \/ WriteRTP \/ UNCHANGED vars
  BY <1>1, <1>12 DEF SelectBegins, ReadRTP, WriteRTP, vars
<1> QED
  BY <1>2, <1>3, <1>4, <1>5, <1>6, <1>7, <1>8, <1>9, <1>10, <1>11, <1>12 DEF Next

-----------------------------------------------------------------------------
LEMMA PipelineInvHolds == Spec => []PipelineInv
<1>1. Init => PipelineInv
  BY PipesAssumption DEF Init, PipelineInv, SourceInv, PacketizerInv, PipelineTypes, NoneInUse,
     QuietBeforeListen, OnlyCurrent, RestartClosesCurrent, InUse, Playing, Pipes
<1>2. PipelineInv /\ [Next]_vars => PipelineInv'
  BY TypesStep, SourceStep, PacketizerStep DEF PipelineInv, SourceInv
<1> QED
  BY <1>1, <1>2, PTL DEF Spec

\* However restarts, Stop and samples interleave, two pipelines are in use only
\* after a device was selected while the session was listening.
THEOREM OneSourceHolds == Spec => []OneSource
<1>1. PipelineInv => OneSource
  BY DEF PipelineInv, SourceInv, OnlyCurrent, OneSource
<1> QED
  BY <1>1, PipelineInvHolds, PTL

\* A callback that pulled a sample finds a packetizer, but for the windows of a
\* Close and a selection in the middle of a session.
THEOREM PacketizerWhileSamplingHolds == Spec => []PacketizerWhileSampling
<1>1. PipelineInv => PacketizerWhileSampling
  <2> SUFFICES ASSUME PipelineInv, NEW i \in Pipes, thread[i] = "pulled", ~ packetizer,
                      bus \notin {"call", "halt"}, ~ Stopping, ~ reselected
               PROVE  FALSE
    BY DEF PacketizerWhileSampling
  <2>1. InUse(i)
    BY DEF InUse
  <2>2. conn = "listening"
    BY <2>1 DEF PipelineInv, SourceInv, PipelineTypes, QuietBeforeListen, NoneInUse, Stopping
  <2>3. bus = "idle"
    BY <2>1 DEF PipelineInv, SourceInv, PipelineTypes, RestartClosesCurrent, NoneInUse
  <2> QED
    BY <2>2, <2>3 DEF PipelineInv, PacketizerInv
<1> QED
  BY <1>1, PipelineInvHolds, PTL

-----------------------------------------------------------------------------
\* The payloader that the pipeline feeds with H.264 samples.

\* The bytes of the unit that a fragment carries beside its two octets.
Room == MTU - 2

\* A packet's payload.
Packets == {b \in Seq(Nat) : Len(b) \in 1 .. MTU}

\* A fragment carries at least one byte.
LEMMA MTUPositive == MTU \in Nat /\ MTU > 2
BY MTUAssumption

\* Quotients lie where they should, whatever the divisor.
LEMMA Divide ==
    ASSUME NEW a \in Nat, NEW s \in Nat \ {0}
    PROVE  a \div s \in Nat /\ (a \div s) * s <= a /\ a < (a \div s) * s + s
OBVIOUS

\* Whole fragments before others take less room than all of them.
LEMMA Multiples ==
    ASSUME NEW i \in Nat, NEW n \in Nat, i < n, NEW s \in Nat
    PROVE  i * s + s <= n * s
OBVIOUS

\* Each takes up where the one before it ends.
LEMMA Multiple ==
    ASSUME NEW i \in Nat \ {0}, NEW s \in Nat
    PROVE  (i - 1) * s \in Nat /\ i * s = (i - 1) * s + s
OBVIOUS

\* A length written in two bytes is read from them, unless it is cut off.
LEMMA SizeRead ==
    ASSUME NEW n \in Nat
    PROVE  /\ (n \div 256) % 256 \in Bytes /\ n % 256 \in Bytes
           /\ n < 65536 => ((n \div 256) % 256) * 256 + (n % 256) = n
BY DEF Bytes

\* A unit's first octet is its type and its reference indicator.
LEMMA OctetParts ==
    ASSUME NEW b \in Bytes
    PROVE  /\ b \div 32 \in 0 .. 7 /\ b % 32 \in 0 .. 31
           /\ (b \div 32) * 32 + (b % 32) = b /\ (b < 128 => b \div 32 < 4)
BY DEF Bytes

\* What the payloader takes from it are numbers.
LEMMA OctetTypes ==
    ASSUME NEW b \in Bytes
    PROVE  b % 32 \in Nat /\ ((b \div 32) % 4) * 32 \in Nat
BY DEF Bytes

\* The first octet of a fragment is read from its parts.
LEMMA IndicatorRead ==
    ASSUME NEW q \in 0 .. 7
    PROVE  (FuA + (q % 4) * 32) % 32 = FuA /\ ((FuA + (q % 4) * 32) \div 32) % 4 = q % 4
BY DEF FuA

\* So is the second, the unit's type with the start and end flags.
LEMMA HeaderRead ==
    ASSUME NEW t \in 0 .. 31, NEW flag \in {0, 64, 128}
    PROVE  /\ (t + flag) % 32 = t
           /\ (t + flag) \div 128 = 1 <=> flag = 128
           /\ ((t + flag) \div 64) % 2 = 1 <=> flag = 64
<1>1. CASE flag = 0
  BY <1>1
<1>2. CASE flag = 64
  BY <1>2
<1>3. CASE flag = 128
  BY <1>3
<1> QED
  BY <1>1, <1>2, <1>3

\* The octet of a unit without the forbidden bit is put together from both.
LEMMA OctetWhole ==
    ASSUME NEW b \in Bytes, b < 128
    PROVE ((b \div 32) % 4) * 32 + (b % 32) = b
BY OctetParts DEF Bytes

-----------------------------------------------------------------------------
\* As in Fragments: the bytes in all fragments, their number, the flags of one.
Data(nalu) == Len(nalu) - 1
Count(nalu) == (Data(nalu) + Room - 1) \div Room
Flags(nalu, i) == IF i = 1 THEN 128 ELSE IF i = Count(nalu) THEN 64 ELSE 0

\* Where fragment i ends in the unit without its octet.
End(nalu, i) == IF i = Count(nalu) THEN Data(nalu) ELSE i * Room

\* The fragments in these terms.
LEMMA FragmentsAre ==
    ASSUME NEW nalu \in Seq(Bytes), Len(nalu) > MTU
    PROVE  Fragments(nalu) = [i \in 1 .. Count(nalu) |->
                <<FuA + RefIdc(nalu), Type(nalu) + Flags(nalu, i)>>
                    \o SubSeq(Tail(nalu), (i - 1) * Room + 1, End(nalu, i))]
<1>1. Len(Tail(nalu)) = Data(nalu)
  BY MTUPositive DEF Data
<1> QED
  BY <1>1 DEF Fragments, Count, Flags, End, Room

\* There are two or more, and only the last may not be full.
LEMMA CountBounds ==
    ASSUME NEW nalu \in Seq(Bytes), Len(nalu) > MTU
    PROVE  /\ Room \in Nat \ {0} /\ Data(nalu) \in Nat
           /\ Count(nalu) \in Nat /\ Count(nalu) > 1
           /\ (Count(nalu) - 1) * Room < Data(nalu) /\ Data(nalu) <= Count(nalu) * Room
<1>1. Room \in Nat \ {0} /\ Data(nalu) \in Nat /\ Data(nalu) > Room
  BY MTUPositive DEF Room, Data
<1>2. Data(nalu) + Room - 1 \in Nat
  BY <1>1
<1> DEFINE n == Count(nalu)
<1>3. n \in Nat /\ n * Room <= Data(nalu) + Room - 1 /\ Data(nalu) + Room - 1 < n * Room + Room
  BY <1>1, <1>2, Divide DEF Count
<1>4. Data(nalu) <= n * Room /\ (n - 1) * Room = n * Room - Room
  BY <1>1, <1>3
<1>5. n # 0 /\ n # 1
  BY <1>1, <1>4
<1> QED
  BY <1>1, <1>3, <1>4, <1>5

\* Each is some bytes of the unit, as many as fit.
LEMMA EndBounds ==
    ASSUME NEW nalu \in Seq(Bytes), Len(nalu) > MTU, NEW i \in 1 .. Count(nalu)
    PROVE  /\ (i - 1) * Room \in Nat /\ End(nalu, i) \in Nat
           /\ (i - 1) * Room < End(nalu, i)
           /\ End(nalu, i) <= (i - 1) * Room + Room
           /\ End(nalu, i) <= Data(nalu)
<1> USE CountBounds
<1>1. (i - 1) * Room \in Nat /\ i * Room = (i - 1) * Room + Room
  BY Multiple
<1>2. CASE i = Count(nalu)
  BY <1>1, <1>2 DEF End
<1>3. CASE i < Count(nalu)
  <2>1. i = Count(nalu) - 1 \/ i < Count(nalu) - 1
    BY <1>3
  <2>2. i * Room <= (Count(nalu) - 1) * Room
    BY <2>1, Multiples
  <2> QED
    BY <1>1, <1>3, <2>2 DEF End
<1> QED
  BY <1>2, <1>3

\* A part of a sequence, and of one without its head.
LEMMA SubSeqElems ==
    ASSUME NEW S, NEW t \in Seq(S), NEW a \in Nat, NEW b \in Nat, a < b, b <= Len(t)
    PROVE  /\ SubSeq(t, a + 1, b) \in Seq(S) /\ Len(SubSeq(t, a + 1, b)) = b - a
           /\ \A j \in 1 .. b - a : SubSeq(t, a + 1, b)[j] = t[a + j]
OBVIOUS

LEMMA PartElems ==
    ASSUME NEW S, NEW s \in Seq(S), NEW a \in Nat, NEW b \in Nat, a < b, b < Len(s)
    PROVE  /\ SubSeq(Tail(s), a + 1, b) \in Seq(S) /\ Len(SubSeq(Tail(s), a + 1, b)) = b - a
           /\ \A j \in 1 .. b - a : SubSeq(Tail(s), a + 1, b)[j] = s[a + j + 1]
<1> DEFINE t == Tail(s)
<1>1. t \in Seq(S) /\ b <= Len(t) /\ \A k \in 1 .. Len(t) : t[k] = s[k + 1]
  OBVIOUS
<1> HIDE DEF t
<1>2. /\ SubSeq(t, a + 1, b) \in Seq(S) /\ Len(SubSeq(t, a + 1, b)) = b - a
      /\ \A j \in 1 .. b - a : SubSeq(t, a + 1, b)[j] = t[a + j]
  BY <1>1, SubSeqElems
<1>3. \A j \in 1 .. b - a : a + j \in 1 .. Len(t)
  BY <1>1
<1> QED
  BY <1>1, <1>2, <1>3 DEF t

\* One fragment: two octets, then its bytes.
LEMMA FragmentAt ==
    ASSUME NEW nalu \in Seq(Bytes), Len(nalu) > MTU, NEW i \in 1 .. Count(nalu)
    PROVE  LET f == Fragments(nalu)[i]
               from == (i - 1) * Room
           IN /\ Len(f) = 2 + End(nalu, i) - from
              /\ f[1] = FuA + RefIdc(nalu) /\ f[2] = Type(nalu) + Flags(nalu, i)
              /\ \A j \in 3 .. Len(f) : f[j] = nalu[from + j - 1]
<1> DEFINE from == (i - 1) * Room
           head == <<FuA + RefIdc(nalu), Type(nalu) + Flags(nalu, i)>>
           part == SubSeq(Tail(nalu), from + 1, End(nalu, i))
<1>1. Fragments(nalu)[i] = head \o part
  BY FragmentsAre
<1>2. from \in Nat /\ End(nalu, i) \in Nat /\ from < End(nalu, i) /\ End(nalu, i) < Len(nalu)
  BY EndBounds DEF Data
<1> HIDE DEF from
<1>3. /\ part \in Seq(Bytes) /\ Len(part) = End(nalu, i) - from
      /\ \A j \in 1 .. End(nalu, i) - from : part[j] = nalu[from + j + 1]
  BY <1>2, PartElems
<1> HIDE DEF part
<1>4. Len(head \o part) = 2 + Len(part) /\ (head \o part)[1] = head[1] /\ (head \o part)[2] = head[2]
      /\ \A j \in 1 .. Len(part) : (head \o part)[j + 2] = part[j]
  BY <1>3
<1>5. ASSUME NEW j \in 3 .. 2 + Len(part) PROVE (head \o part)[j] = nalu[from + j - 1]
  <2>1. j - 2 \in 1 .. Len(part) /\ (j - 2) + 2 = j /\ from + (j - 2) + 1 = from + j - 1
    <3>1. Len(part) \in Nat /\ from \in Int
      BY <1>2, <1>3
    <3> QED
      BY <3>1
  <2> QED
    BY <1>3, <1>4, <2>1
<1> QED
  BY <1>1, <1>2, <1>3, <1>4, <1>5 DEF from

\* Laid end to end, the fragments are the unit without its first octet, to the
\* byte: each is full but the last, each byte is the one that follows, and none
\* is left out, whatever the size of unit and packet (h264_packetizer.go:258).
THEOREM FragmentsKeepUnit ==
    ASSUME NEW nalu \in Seq(Bytes), Len(nalu) > MTU
    PROVE  LET f == Fragments(nalu)
               n == Count(nalu)
               at(i, j) == (i - 1) * Room + j - 1
           IN /\ DOMAIN f = 1 .. n /\ n > 1
              /\ \A i \in 1 .. n : Len(f[i]) \in 3 .. MTU /\ (i < n => Len(f[i]) = MTU)
              /\ \A i \in 1 .. n : \A j \in 3 .. Len(f[i]) :
                    at(i, j) \in 2 .. Len(nalu) /\ f[i][j] = nalu[at(i, j)]
              /\ \A k \in 2 .. Len(nalu) :
                    \E i \in 1 .. n : \E j \in 3 .. Len(f[i]) : at(i, j) = k
<1> DEFINE f == Fragments(nalu)
           n == Count(nalu)
           at(i, j) == (i - 1) * Room + j - 1
<1>1. DOMAIN f = 1 .. n
  BY FragmentsAre
<1>2. /\ n \in Nat /\ n > 1 /\ Room \in Nat \ {0} /\ MTU = Room + 2 /\ Data(nalu) <= n * Room
      /\ Data(nalu) = Len(nalu) - 1
  BY CountBounds, MTUPositive DEF Room, Data
<1>3. ASSUME NEW i \in 1 .. n
      PROVE  /\ Len(f[i]) = 2 + End(nalu, i) - (i - 1) * Room
             /\ \A j \in 3 .. Len(f[i]) : f[i][j] = nalu[at(i, j)]
  BY FragmentAt
<1> HIDE DEF f, n
<1>4. ASSUME NEW i \in 1 .. n
      PROVE  /\ (i - 1) * Room \in Nat /\ End(nalu, i) \in Nat /\ End(nalu, i) <= Data(nalu)
             /\ (i - 1) * Room < End(nalu, i) /\ End(nalu, i) <= (i - 1) * Room + Room
             /\ i < n => End(nalu, i) = (i - 1) * Room + Room
  <2>1. i < n => End(nalu, i) = (i - 1) * Room + Room
    BY <1>2, Multiple DEF End, n
  <2> QED
    BY <2>1, EndBounds DEF n
<1>5. ASSUME NEW i \in 1 .. n
      PROVE  Len(f[i]) \in 3 .. MTU /\ (i < n => Len(f[i]) = MTU)
  <2> DEFINE from == (i - 1) * Room
  <2>1. Len(f[i]) = 2 + End(nalu, i) - from
    BY <1>3
  <2>2. /\ from \in Nat /\ End(nalu, i) \in Nat /\ from < End(nalu, i)
        /\ End(nalu, i) <= from + Room /\ (i < n => End(nalu, i) = from + Room)
    BY <1>4
  <2> HIDE DEF from
  <2> QED
    BY <1>2, <2>1, <2>2
<1>6. ASSUME NEW i \in 1 .. n, NEW j \in 3 .. Len(f[i])
      PROVE  at(i, j) \in 2 .. Len(nalu) /\ f[i][j] = nalu[at(i, j)]
  <2> DEFINE from == (i - 1) * Room
  <2>1. Len(f[i]) = 2 + End(nalu, i) - from /\ f[i][j] = nalu[at(i, j)]
    BY <1>3
  <2>2. /\ from \in Nat /\ End(nalu, i) \in Nat /\ from < End(nalu, i)
        /\ End(nalu, i) <= Data(nalu)
    BY <1>4
  <2>3. at(i, j) = from + j - 1
    OBVIOUS
  <2> HIDE DEF from, at
  <2> QED
    BY <1>2, <2>1, <2>2, <2>3
<1>7. ASSUME NEW k \in 2 .. Len(nalu)
      PROVE  \E i \in 1 .. n : \E j \in 3 .. Len(f[i]) : at(i, j) = k
  <2> DEFINE q == (k - 2) \div Room
  <2>1. k - 2 \in Nat /\ k - 2 < Data(nalu)
    BY <1>2
  <2>2. q \in Nat /\ q * Room <= k - 2 /\ k - 2 < q * Room + Room
    BY <1>2, <2>1, Divide
  <2> HIDE DEF q
  <2>3. q < n
    <3>1. CASE n < q
      BY <1>2, <2>1, <2>2, <3>1, Multiples
    <3>2. CASE n = q
      BY <1>2, <2>1, <2>2, <3>2
    <3> QED
      BY <1>2, <2>2, <3>1, <3>2
  <2>4. q + 1 \in 1 .. n /\ (q + 1) - 1 = q
    BY <1>2, <2>2, <2>3
  <2>5. Len(f[q + 1]) = 2 + End(nalu, q + 1) - q * Room
    BY <1>3, <2>4
  <2>6. k - 1 <= End(nalu, q + 1)
    <3>1. CASE q + 1 = n
      BY <1>2, <2>1, <3>1 DEF End, n
    <3>2. CASE q + 1 < n
      BY <1>4, <2>2, <2>4, <3>2
    <3> QED
      BY <1>2, <2>4, <3>1, <3>2
  <2>7. End(nalu, q + 1) \in Nat /\ q * Room \in Nat
    BY <1>4, <2>4
  <2>8. k - q * Room + 1 \in 3 .. Len(f[q + 1])
    BY <2>2, <2>5, <2>6, <2>7
  <2>9. at(q + 1, k - q * Room + 1) = k
    BY <2>4, <2>7
  <2> QED
    BY <2>4, <2>8, <2>9
<1> QED
  BY <1>1, <1>2, <1>5, <1>6, <1>7 DEF f, n

\* The receiver finds where the unit starts and ends, and its first octet, in
\* the octets of every fragment (h264_packetizer.go:268).
THEOREM FragmentsMarked ==
    ASSUME NEW nalu \in Seq(Bytes), Len(nalu) > MTU, NEW i \in 1 .. Count(nalu)
    PROVE  LET f == Fragments(nalu)[i]
           IN /\ Type(f) = FuA
              /\ f[2] \div 128 = 1 <=> i = 1
              /\ (f[2] \div 64) % 2 = 1 <=> i = Count(nalu)
              /\ nalu[1] < 128 => RefIdc(f) + (f[2] % 32) = nalu[1]
<1> DEFINE f == Fragments(nalu)[i]
           q == nalu[1] \div 32
           t == nalu[1] % 32
<1>1. nalu[1] \in Bytes
  BY MTUPositive
<1>2. q \in 0 .. 7 /\ t \in 0 .. 31
  BY <1>1, OctetParts
<1>3. f[1] = FuA + (q % 4) * 32 /\ f[2] = t + Flags(nalu, i)
  BY FragmentAt DEF RefIdc, Type
<1>4. Flags(nalu, i) \in {0, 64, 128}
  BY DEF Flags
<1>5. (Flags(nalu, i) = 128 <=> i = 1) /\ (Flags(nalu, i) = 64 <=> i = Count(nalu))
  BY CountBounds DEF Flags
<1> HIDE DEF f, q, t
<1>6. Type(f) = FuA /\ RefIdc(f) = (q % 4) * 32
  BY <1>2, <1>3, IndicatorRead DEF Type, RefIdc
<1>7. /\ f[2] % 32 = t
      /\ f[2] \div 128 = 1 <=> Flags(nalu, i) = 128
      /\ (f[2] \div 64) % 2 = 1 <=> Flags(nalu, i) = 64
  <2> DEFINE flag == Flags(nalu, i)
  <2>1. flag \in {0, 64, 128}
    BY <1>4
  <2> HIDE DEF flag
  <2>2. /\ (t + flag) % 32 = t
        /\ (t + flag) \div 128 = 1 <=> flag = 128
        /\ ((t + flag) \div 64) % 2 = 1 <=> flag = 64
    BY <1>2, <2>1, HeaderRead
  <2> QED
    BY <1>3, <2>2 DEF flag
<1>8. nalu[1] < 128 => (q % 4) * 32 + t = nalu[1]
  BY <1>1, OctetWhole DEF q, t
<1> QED
  BY <1>5, <1>6, <1>7, <1>8 DEF f

-----------------------------------------------------------------------------
\* Laying one sequence after another keeps the elements of both.
LEMMA ConcatElems ==
    ASSUME NEW s \in Seq(Nat), NEW t \in Seq(Nat)
    PROVE  /\ s \o t \in Seq(Nat) /\ Len(s \o t) = Len(s) + Len(t)
           /\ Len(s) \in Nat /\ Len(t) \in Nat
           /\ \A i \in 1 .. Len(s) : (s \o t)[i] = s[i]
           /\ \A i \in 1 .. Len(t) : (s \o t)[Len(s) + i] = t[i]
OBVIOUS

\* An aggregate is a string of numbers.
LEMMA AggregateTyped ==
    ASSUME NEW sps \in Seq(Nat), NEW pps \in Seq(Nat)
    PROVE  Aggregate(sps, pps) \in Seq(Nat)
<1> DEFINE length(m) == <<(m \div 256) % 256, m % 256>>
<1>1. \A m \in Nat : length(m) \in Seq(Nat)
  BY SizeRead DEF Bytes
<1>2. <<120>> \in Seq(Nat) /\ length(Len(sps)) \in Seq(Nat) /\ length(Len(pps)) \in Seq(Nat)
  BY <1>1
<1>3. Aggregate(sps, pps) = <<120>> \o length(Len(sps)) \o sps \o length(Len(pps)) \o pps
  BY DEF Aggregate
<1> HIDE DEF length
<1>4. <<120>> \o length(Len(sps)) \o sps \in Seq(Nat)
  <2>1. <<120>> \o length(Len(sps)) \in Seq(Nat)
    BY <1>2, ConcatElems, Zenon
  <2> QED
    BY <2>1, ConcatElems, Zenon
<1>5. <<120>> \o length(Len(sps)) \o sps \o length(Len(pps)) \in Seq(Nat)
  BY <1>2, <1>4, ConcatElems, Zenon
<1>6. <<120>> \o length(Len(sps)) \o sps \o length(Len(pps)) \o pps \in Seq(Nat)
  BY <1>5, ConcatElems, Zenon
<1> QED
  BY <1>3, <1>6

\* Both parameter sets can be read back from an aggregate that is sent
\* (h264_packetizer.go:205).
THEOREM AggregateReads ==
    ASSUME NEW sps \in Seq(Nat), NEW pps \in Seq(Nat), PairFits(sps, pps)
    PROVE  LET a == Aggregate(sps, pps)
               n == Len(sps)
           IN /\ Type(a) = StapA
              /\ Len(a) = 5 + n + Len(pps)
              /\ a[2] * 256 + a[3] = n
              /\ \A i \in 1 .. n : a[3 + i] = sps[i]
              /\ a[4 + n] * 256 + a[5 + n] = Len(pps)
              /\ \A i \in 1 .. Len(pps) : a[5 + n + i] = pps[i]
<1> DEFINE n == Len(sps)
           front == <<120>> \o <<(n \div 256) % 256, n % 256>>
           mid == <<(Len(pps) \div 256) % 256, Len(pps) % 256>>
           a == Aggregate(sps, pps)
<1>1. n \in Nat /\ Len(pps) \in Nat
  OBVIOUS
<1>2. /\ n < 65536 => ((n \div 256) % 256) * 256 + (n % 256) = n
      /\ Len(pps) < 65536 => ((Len(pps) \div 256) % 256) * 256 + (Len(pps) % 256) = Len(pps)
      /\ (n \div 256) % 256 \in Nat /\ n % 256 \in Nat
      /\ (Len(pps) \div 256) % 256 \in Nat /\ Len(pps) % 256 \in Nat
  BY <1>1, SizeRead DEF Bytes
<1>3. /\ front \in Seq(Nat) /\ Len(front) = 3
      /\ front[1] = 120 /\ front[2] = (n \div 256) % 256 /\ front[3] = n % 256
  BY <1>2
<1>4. /\ mid \in Seq(Nat) /\ Len(mid) = 2
      /\ mid[1] = (Len(pps) \div 256) % 256 /\ mid[2] = Len(pps) % 256
  BY <1>2
<1>5. a = ((front \o sps) \o mid) \o pps
  BY DEF Aggregate
<1> HIDE DEF front, mid, a, n
<1> DEFINE b == front \o sps
           c == b \o mid
<1>6. /\ b \in Seq(Nat) /\ Len(b) = 3 + n
      /\ \A i \in 1 .. 3 : b[i] = front[i]
      /\ \A i \in 1 .. n : b[3 + i] = sps[i]
  <2>1. /\ b \in Seq(Nat) /\ Len(b) = Len(front) + Len(sps)
        /\ \A i \in 1 .. Len(front) : b[i] = front[i]
        /\ \A i \in 1 .. Len(sps) : b[Len(front) + i] = sps[i]
    <3>1. front \in Seq(Nat)
      BY <1>3
    <3> QED
      BY <3>1, ConcatElems, Zenon
  <2> HIDE DEF b
  <2> QED
    BY <1>1, <1>3, <2>1 DEF n
<1> HIDE DEF b
<1>7. /\ c \in Seq(Nat) /\ Len(c) = 5 + n
      /\ \A i \in 1 .. 3 + n : c[i] = b[i]
      /\ c[4 + n] = mid[1] /\ c[5 + n] = mid[2]
  <2>1. /\ c \in Seq(Nat) /\ Len(c) = Len(b) + 2
        /\ \A i \in 1 .. Len(b) : c[i] = b[i]
        /\ \A i \in 1 .. 2 : c[Len(b) + i] = mid[i]
    <3>1. /\ c \in Seq(Nat) /\ Len(c) = Len(b) + Len(mid)
          /\ \A i \in 1 .. Len(b) : c[i] = b[i]
          /\ \A i \in 1 .. Len(mid) : c[Len(b) + i] = mid[i]
      <4>1. b \in Seq(Nat) /\ mid \in Seq(Nat)
        BY <1>4, <1>6
      <4> QED
        BY <4>1, ConcatElems, Zenon
    <3> QED
      BY <1>4, <3>1
  <2>2. Len(b) + 1 = 4 + n /\ Len(b) + 2 = 5 + n
    BY <1>1, <1>6
  <2>3. c[Len(b) + 1] = mid[1] /\ c[Len(b) + 2] = mid[2]
    BY <2>1
  <2> HIDE DEF c
  <2>4. Len(b) = 3 + n
    BY <1>6
  <2>5. c \in Seq(Nat) /\ \A i \in 1 .. 3 + n : c[i] = b[i]
    BY <2>1, <2>4, Zenon
  <2>6. Len(c) = 5 + n
    BY <1>1, <2>1, <2>4
  <2> QED
    BY <2>2, <2>3, <2>5, <2>6
<1> HIDE DEF c
<1>8. /\ Len(a) = 5 + n + Len(pps)
      /\ \A i \in 1 .. 5 + n : a[i] = c[i]
      /\ \A i \in 1 .. Len(pps) : a[5 + n + i] = pps[i]
  <2>1. a = c \o pps
    BY <1>5 DEF b, c
  <2>2. /\ Len(a) = Len(c) + Len(pps)
        /\ \A i \in 1 .. Len(c) : a[i] = c[i]
        /\ \A i \in 1 .. Len(pps) : a[Len(c) + i] = pps[i]
    <3>1. c \in Seq(Nat) /\ pps \in Seq(Nat)
      BY <1>7
    <3> QED
      BY <2>1, <3>1, ConcatElems, Zenon
  <2> QED
    BY <1>1, <1>7, <2>2
<1>9. a[1] = 120 /\ a[2] = (n \div 256) % 256 /\ a[3] = n % 256
  BY <1>1, <1>3, <1>6, <1>7, <1>8
<1>10. \A i \in 1 .. n : a[3 + i] = sps[i]
  <2>1. \A i \in 1 .. n : 3 + i \in 1 .. 3 + n /\ 3 + i \in 1 .. 5 + n
    BY <1>1
  <2> QED
    BY <1>6, <1>7, <1>8, <2>1
<1>11. a[4 + n] = (Len(pps) \div 256) % 256 /\ a[5 + n] = Len(pps) % 256
  BY <1>1, <1>4, <1>7, <1>8
<1>12. Type(a) = StapA
  BY <1>9 DEF Type, StapA
<1>13. n < 65536 /\ Len(pps) < 65536
  <2>1. Len(a) <= MTU
    BY DEF PairFits, a
  <2>2. 5 + n + Len(pps) <= MTU
    BY <1>8, <2>1
  <2>3. MTU \in Nat /\ MTU < 65536
    BY MTUAssumption
  <2> QED
    BY <1>1, <2>2, <2>3
<1>14. a[2] * 256 + a[3] = n /\ a[4 + n] * 256 + a[5 + n] = Len(pps)
  BY <1>2, <1>9, <1>11, <1>13
<1> QED
  BY <1>8, <1>10, <1>12, <1>14 DEF a, n

\* Byte strings are strings of numbers.
LEMMA BytesNat == ASSUME NEW s \in Seq(Bytes) PROVE s \in Seq(Nat)
<1>1. PICK n \in Nat : s \in [1 .. n -> Bytes]
  BY SeqDef
<1>2. \A x \in Bytes : x \in Nat
  BY DEF Bytes
<1>3. s \in [1 .. n -> Nat]
  BY <1>1, <1>2, Zenon
<1> QED
  BY <1>3, SeqDef

\* Every fragment fits in a packet.
LEMMA FragmentsFit ==
    ASSUME NEW nalu \in Seq(Bytes), Len(nalu) > MTU
    PROVE  Fragments(nalu) \in Seq(Packets)
<1> DEFINE n == Count(nalu)
           f == Fragments(nalu)
<1>1. n \in Nat /\ f = [i \in 1 .. n |-> f[i]]
  BY CountBounds, FragmentsAre
<1>2. ASSUME NEW i \in 1 .. n PROVE f[i] \in Packets
  <2> DEFINE head == <<FuA + RefIdc(nalu), Type(nalu) + Flags(nalu, i)>>
             part == SubSeq(Tail(nalu), (i - 1) * Room + 1, End(nalu, i))
  <2>1. f[i] = head \o part
    BY FragmentsAre
  <2>2. part \in Seq(Nat)
    <3>1. part \in Seq(Bytes)
      <4>1. /\ (i - 1) * Room \in Nat /\ End(nalu, i) \in Nat
            /\ (i - 1) * Room < End(nalu, i) /\ End(nalu, i) < Len(nalu)
        BY EndBounds DEF Data
      <4> QED
        BY <4>1, PartElems
    <3> QED
      BY <3>1, BytesNat
  <2>3. head \in Seq(Nat)
    <3>1. nalu[1] \in Bytes
      BY MTUPositive
    <3>2. nalu[1] % 32 \in Nat /\ ((nalu[1] \div 32) % 4) * 32 \in Nat
      BY <3>1, OctetTypes
    <3>3. RefIdc(nalu) \in Nat /\ Type(nalu) \in Nat
      BY <3>2, Zenon DEF RefIdc, Type
    <3>4. Flags(nalu, i) \in {0, 64, 128}
      BY DEF Flags
    <3> HIDE DEF n
    <3>5. FuA + RefIdc(nalu) \in Nat /\ Type(nalu) + Flags(nalu, i) \in Nat
      BY <3>3, <3>4 DEF FuA
    <3> QED
      BY <3>5
  <2>4. Len(f[i]) \in 3 .. MTU
    BY FragmentsKeepUnit
  <2> HIDE DEF head, part, f
  <2>5. f[i] \in Seq(Nat)
    BY <2>1, <2>2, <2>3, ConcatElems, Zenon
  <2> QED
    BY <2>4, <2>5 DEF Packets
<1> HIDE DEF n, f
<1>3. f \in [1 .. n -> Packets]
  BY <1>1, <1>2
<1>4. f \in Seq(Packets)
  BY <1>1, <1>3, SeqDef
<1> QED
  BY <1>4 DEF f

\* The same for sequences of anything.
LEMMA SeqConcat ==
    ASSUME NEW S, NEW s \in Seq(S), NEW t \in Seq(S)
    PROVE  s \o t \in Seq(S)
OBVIOUS

\* No payload exceeds a packet, whatever the encoder gives: a unit makes packets
\* that fit, with or without the parameter sets, and sets that wait are units.
THEOREM PayloadsFit ==
    ASSUME NEW p \in [sps : Seq(Bytes), pps : Seq(Bytes), out : Seq(Packets)],
           NEW nalu \in Seq(Bytes)
    PROVE  PayloadNalu(p, nalu) \in [sps : Seq(Bytes), pps : Seq(Bytes), out : Seq(Packets)]
<1> DEFINE paired == p.sps # <<>> /\ p.pps # <<>>
           pair == IF paired /\ PairFits(p.sps, p.pps) THEN <<Aggregate(p.sps, p.pps)>> ELSE <<>>
           unit == IF Len(nalu) <= MTU THEN <<nalu>> ELSE Fragments(nalu)
<1>1. pair \in Seq(Packets)
  <2>1. CASE paired /\ PairFits(p.sps, p.pps)
    <3>1. p.sps \in Seq(Nat) /\ p.pps \in Seq(Nat)
      BY BytesNat
    <3>2. Len(Aggregate(p.sps, p.pps)) = 5 + Len(p.sps) + Len(p.pps)
      BY <2>1, <3>1, AggregateReads
    <3>3. Aggregate(p.sps, p.pps) \in Seq(Nat)
      BY <3>1, AggregateTyped
    <3>4. Len(p.sps) \in Nat /\ Len(p.pps) \in Nat
      OBVIOUS
    <3>5. Len(Aggregate(p.sps, p.pps)) \in 1 .. MTU
      BY <2>1, <3>2, <3>4, MTUPositive DEF PairFits
    <3>6. Aggregate(p.sps, p.pps) \in Packets
      BY <3>3, <3>5 DEF Packets
    <3> QED
      BY <2>1, <3>6
  <2>2. CASE ~ (paired /\ PairFits(p.sps, p.pps))
    BY <2>2
  <2> QED
    BY <2>1, <2>2
<1>2. nalu # <<>> => unit \in Seq(Packets)
  <2>1. CASE nalu # <<>> /\ Len(nalu) <= MTU
    <3>1. nalu \in Seq(Nat) /\ Len(nalu) \in 1 .. MTU
      BY <2>1, BytesNat, MTUPositive
    <3>2. nalu \in Packets
      BY <3>1 DEF Packets
    <3> QED
      BY <2>1, <3>2
  <2>2. CASE ~ (Len(nalu) <= MTU)
    <3>1. Len(nalu) > MTU
      BY <2>2, MTUPositive
    <3> QED
      BY <2>2, <3>1, FragmentsFit
  <2> QED
    BY <2>1, <2>2
<1>3. PayloadNalu(p, nalu) =
        IF nalu = <<>> \/ Type(nalu) \in Skipped THEN p
        ELSE IF Type(nalu) = SPS THEN [p EXCEPT !.sps = nalu]
        ELSE IF Type(nalu) = PPS THEN [p EXCEPT !.pps = nalu]
        ELSE [sps |-> IF paired THEN <<>> ELSE p.sps,
              pps |-> IF paired THEN <<>> ELSE p.pps,
              out |-> p.out \o pair \o unit]
  BY DEF PayloadNalu
<1> HIDE DEF pair, unit, paired
<1>4. nalu # <<>> => p.out \o pair \o unit \in Seq(Packets)
  <2>1. p.out \o pair \in Seq(Packets)
    BY <1>1, SeqConcat
  <2> QED
    BY <1>2, <2>1, SeqConcat
<1>5. CASE nalu = <<>> \/ Type(nalu) \in Skipped
  BY <1>3, <1>5
<1>6. CASE ~ (nalu = <<>> \/ Type(nalu) \in Skipped) /\ Type(nalu) = SPS
  BY <1>3, <1>6
<1>7. CASE /\ ~ (nalu = <<>> \/ Type(nalu) \in Skipped)
           /\ Type(nalu) # SPS /\ Type(nalu) = PPS
  BY <1>3, <1>7
<1>8. CASE /\ ~ (nalu = <<>> \/ Type(nalu) \in Skipped)
           /\ Type(nalu) # SPS /\ Type(nalu) # PPS
  <2>1. (IF paired THEN <<>> ELSE p.sps) \in Seq(Bytes) /\ (IF paired THEN <<>> ELSE p.pps) \in Seq(Bytes)
    OBVIOUS
  <2> QED
    BY <1>3, <1>4, <1>8, <2>1
<1> QED
  BY <1>5, <1>6, <1>7, <1>8

-----------------------------------------------------------------------------
(* Induction, and what a fold computes.                                    *)

\* A set of numbers that has 0 and the successors of its members has them all:
\* a number left out would have a least one, as < is well-founded.
LEMMA Induction ==
    ASSUME NEW S \in SUBSET Nat, 0 \in S, \A n \in S : n + 1 \in S
    PROVE  S = Nat
<1> DEFINE T == Nat \ S
           R == {ss \in Nat \X Nat : ss[1] < ss[2]}
<1>1. R = OpToRel(<, Nat)
  BY Zenon DEF OpToRel
<1>2. IsWellFoundedOn(R, Nat)
  BY <1>1, NatLessThanWellFounded
<1>3. SUFFICES ASSUME T # {} PROVE FALSE
  OBVIOUS
<1> HIDE DEF R
<1>4. PICK x \in T : \A y \in T : ~ (<<y, x>> \in R)
  BY <1>2, <1>3, WFMin
<1>5. x # 0 /\ x - 1 \in Nat /\ x - 1 < x
  BY <1>4
<1>6. x - 1 \in T
  BY <1>5, <1>4
<1>7. <<x - 1, x>> \in R
  BY <1>5 DEF R
<1> QED
  BY <1>4, <1>6, <1>7

\* The greatest number up to one, and among some of those.
LEMMA MaxPrefix == ASSUME NEW n \in Nat PROVE Max(1 .. n + 1) = n + 1
<1>1. \A x \in 1 .. n + 1 : (\A y \in 1 .. n + 1 : x >= y) => x = n + 1
  OBVIOUS
<1>2. n + 1 \in 1 .. n + 1 /\ \A y \in 1 .. n + 1 : n + 1 >= y
  OBVIOUS
<1> QED
  BY <1>1, <1>2 DEF Max

\* A set of numbers up to a bound has its greatest member.
LEMMA MaxIn == ASSUME NEW n \in Nat, NEW d \in SUBSET (1 .. n), d # {} PROVE Max(d) \in d
<1> DEFINE S == {k \in Nat : \A c \in SUBSET (1 .. k) : c # {} => \E x \in c : \A y \in c : x >= y}
<1>1. 0 \in S
  <2>1. 1 .. 0 = {}
    OBVIOUS
  <2>2. \A c \in SUBSET (1 .. 0) : c = {}
    BY <2>1
  <2> QED
    BY <2>2
<1>2. ASSUME NEW k \in S PROVE k + 1 \in S
  <2> SUFFICES ASSUME NEW c \in SUBSET (1 .. k + 1), c # {}
               PROVE  \E x \in c : \A y \in c : x >= y
    OBVIOUS
  <2>1. CASE k + 1 \in c
    BY <2>1
  <2>2. CASE k + 1 \notin c
    <3>1. c \in SUBSET (1 .. k)
      BY <2>2
    <3> QED
      BY <3>1
  <2> QED
    BY <2>1, <2>2
<1>3. S = Nat
  <2> HIDE DEF S
  <2>1. S \in SUBSET Nat
    BY DEF S
  <2> QED
    BY <1>1, <1>2, <2>1, Induction
<1>4. \E x \in d : \A y \in d : x >= y
  BY <1>3
<1> QED
  BY <1>4 DEF Max

\* What the fold computes for each set of positions.
FoldEq(step, base, s, D, g) ==
    g = [d \in SUBSET D |-> IF d = {} THEN base ELSE step[g[d \ {Max(d)}]][s[Max(d)]]]

\* The function the fold reads.
Folded(step, base, s, D) == CHOOSE g : FoldEq(step, base, s, D, g)

\* A fold is FoldLeft's, which goes by sets of positions.
LEMMA FoldIs == ASSUME NEW step, NEW base, NEW s
    PROVE Fold(step, base, s) = Folded(step, base, s, DOMAIN s)[DOMAIN s]
BY Zenon DEF Fold, FoldLeft, MapThenFoldSet, Folded, FoldEq

\* There is such a function, up to every number of positions.
LEMMA FoldExists == ASSUME NEW step, NEW base, NEW s, NEW n \in Nat
    PROVE \E g : FoldEq(step, base, s, 1 .. n, g)
<1> DEFINE S == {k \in Nat : \E g : FoldEq(step, base, s, 1 .. k, g)}
<1>1. 0 \in S
  <2> DEFINE g == [d \in SUBSET (1 .. 0) |-> base]
  <2>1. SUBSET (1 .. 0) = {{}}
    OBVIOUS
  <2>2. FoldEq(step, base, s, 1 .. 0, g)
    <3>1. \A d \in SUBSET (1 .. 0) : d = {}
      BY <2>1
    <3> QED BY <3>1 DEF FoldEq
  <2> QED
    BY <2>2
<1>2. ASSUME NEW k \in S PROVE k + 1 \in S
  <2>1. PICK g : FoldEq(step, base, s, 1 .. k, g)
    OBVIOUS
  <2> DEFINE h == [d \in SUBSET (1 .. k + 1) |->
                       IF k + 1 \in d THEN step[g[d \ {k + 1}]][s[k + 1]] ELSE g[d]]
  <2>2. \A d \in SUBSET (1 .. k + 1) : k + 1 \in d => Max(d) = k + 1 /\ d # {}
    <3> SUFFICES ASSUME NEW d \in SUBSET (1 .. k + 1), k + 1 \in d PROVE Max(d) = k + 1
      OBVIOUS
    <3>1. \A y \in d : k + 1 >= y
      OBVIOUS
    <3>2. \A x \in d : (\A y \in d : x >= y) => x = k + 1
      BY <3>1
    <3> QED
      BY <3>1, <3>2 DEF Max
  <2>3. \A d \in SUBSET (1 .. k + 1) : k + 1 \in d => h[d \ {k + 1}] = g[d \ {k + 1}]
    OBVIOUS
  <2>4. \A d \in SUBSET (1 .. k + 1) : k + 1 \notin d => d \in SUBSET (1 .. k) /\ h[d] = g[d] /\ h[d \ {Max(d)}] = g[d \ {Max(d)}]
    <3> SUFFICES ASSUME NEW d \in SUBSET (1 .. k + 1), k + 1 \notin d
                 PROVE  d \in SUBSET (1 .. k) /\ h[d] = g[d] /\ h[d \ {Max(d)}] = g[d \ {Max(d)}]
      OBVIOUS
    <3>1. \A x \in d : x \in 1 .. k
      OBVIOUS
    <3>2. d \ {Max(d)} \in SUBSET (1 .. k + 1) /\ k + 1 \notin d \ {Max(d)}
      OBVIOUS
    <3>3. \A c \in SUBSET (1 .. k + 1) : k + 1 \notin c => h[c] = g[c]
      OBVIOUS
    <3> HIDE DEF h
    <3> QED
      BY <3>1, <3>2, <3>3
  <2>5. \A d \in SUBSET (1 .. k) : g[d] = IF d = {} THEN base ELSE step[g[d \ {Max(d)}]][s[Max(d)]]
    BY <2>1, Zenon DEF FoldEq
  <2>6. ASSUME NEW d \in SUBSET (1 .. k + 1)
        PROVE  h[d] = IF d = {} THEN base ELSE step[h[d \ {Max(d)}]][s[Max(d)]]
    <3>1. CASE k + 1 \in d
      <4>1. h[d] = step[g[d \ {k + 1}]][s[k + 1]]
        BY <3>1, Zenon
      <4> HIDE DEF h
      <4> QED BY <4>1, <2>2, <2>3, <3>1
    <3>2. CASE k + 1 \notin d
      <4> HIDE DEF h
      <4> QED BY <2>4, <2>5, <3>2
    <3> QED
      BY <3>1, <3>2
  <2>7. h = [d \in SUBSET (1 .. k + 1) |-> h[d]]
    OBVIOUS
  <2> HIDE DEF h
  <2>8. h = [d \in SUBSET (1 .. k + 1) |-> IF d = {} THEN base ELSE step[h[d \ {Max(d)}]][s[Max(d)]]]
    BY <2>6, <2>7
  <2>9. FoldEq(step, base, s, 1 .. k + 1, h)
    BY <2>8, Zenon DEF FoldEq
  <2> QED
    BY <2>9
<1>3. S = Nat
  <2> HIDE DEF S
  <2>1. S \in SUBSET Nat
    BY DEF S
  <2> QED
    BY <1>1, <1>2, <2>1, Induction
<1> QED
  BY <1>3

\* The values a fold goes through.
Steps(step, base, s, n, g) ==
    /\ Fold(step, base, s) = g[n]
    /\ g[0] = base
    /\ \A k \in 0 .. n - 1 : g[k + 1] = step[g[k]][s[k + 1]]

\* A fold is the last of as many steps as there are elements.
LEMMA FoldSteps ==
    ASSUME NEW step, NEW base, NEW s, NEW n \in Nat, DOMAIN s = 1 .. n
    PROVE  \E g : Steps(step, base, s, n, g)
<1> DEFINE g == Folded(step, base, s, 1 .. n)
           h == [k \in 0 .. n |-> g[1 .. k]]
<1>1. FoldEq(step, base, s, 1 .. n, g)
  BY FoldExists, Zenon DEF Folded
<1>2. Fold(step, base, s) = g[1 .. n]
  BY FoldIs, Zenon
<1> HIDE DEF g
<1>3. \A d \in SUBSET (1 .. n) : g[d] = IF d = {} THEN base ELSE step[g[d \ {Max(d)}]][s[Max(d)]]
  BY <1>1, Zenon DEF FoldEq
<1>4. g[1 .. 0] = base
  <2>1. 1 .. 0 = {} /\ {} \in SUBSET (1 .. n)
    OBVIOUS
  <2> QED
    BY <2>1, <1>3
<1>5. ASSUME NEW k \in 0 .. n - 1 PROVE g[1 .. k + 1] = step[g[1 .. k]][s[k + 1]]
  <2>1. 1 .. k + 1 \in SUBSET (1 .. n) /\ 1 .. k + 1 # {} /\ (1 .. k + 1) \ {k + 1} = 1 .. k
    <3>1. \A x : x \in (1 .. k + 1) \ {k + 1} <=> x \in 1 .. k
      OBVIOUS
    <3>2. \A x \in 1 .. k + 1 : x \in 1 .. n
      OBVIOUS
    <3>3. k + 1 \in 1 .. k + 1
      OBVIOUS
    <3> QED
      BY <3>1, <3>2, <3>3
  <2>2. Max(1 .. k + 1) = k + 1
    BY MaxPrefix
  <2> QED
    BY <1>3, <2>1, <2>2
<1>6. \A k \in 0 .. n : h[k] = g[1 .. k]
  OBVIOUS
<1> HIDE DEF h
<1>7. h[0] = base /\ Fold(step, base, s) = h[n]
  BY <1>2, <1>4, <1>6
<1>8. ASSUME NEW k \in 0 .. n - 1 PROVE h[k + 1] = step[h[k]][s[k + 1]]
  <2>1. k \in 0 .. n /\ k + 1 \in 0 .. n
    OBVIOUS
  <2> QED
    BY <1>5, <1>6, <2>1
<1>9. Steps(step, base, s, n, h)
  BY <1>7, <1>8 DEF Steps
<1> QED
  BY <1>9

\* Of nothing it is where it starts.
LEMMA FoldNone == ASSUME NEW step, NEW base PROVE Fold(step, base, <<>>) = base
<1>1. DOMAIN <<>> = 1 .. 0
  OBVIOUS
<1>2. 0 \in Nat
  OBVIOUS
<1>3. PICK g : Steps(step, base, <<>>, 0, g)
  BY <1>1, <1>2, FoldSteps
<1> QED
  BY <1>3 DEF Steps

\* One more element is one more step.
LEMMA FoldAppend ==
    ASSUME NEW step, NEW base, NEW T, NEW s \in Seq(T), NEW e
    PROVE  Fold(step, base, Append(s, e)) = step[Fold(step, base, s)][e]
<1> DEFINE n == Len(s)
           t == Append(s, e)
<1>1. n \in Nat /\ n + 1 \in Nat /\ DOMAIN s = 1 .. n /\ DOMAIN t = 1 .. n + 1
  OBVIOUS
<1>2. (\A k \in 1 .. n : t[k] = s[k]) /\ t[n + 1] = e
  OBVIOUS
<1> HIDE DEF t, n
<1>3. PICK g : Steps(step, base, s, n, g)
  BY <1>1, FoldSteps, Zenon
<1>4. PICK h : Steps(step, base, t, n + 1, h)
  BY <1>1, FoldSteps, Zenon
<1> DEFINE S == {k \in Nat : k <= n => g[k] = h[k]}
<1>5. 0 \in S
  BY <1>3, <1>4 DEF Steps
<1>6. ASSUME NEW k \in S PROVE k + 1 \in S
  <2> SUFFICES ASSUME k + 1 <= n PROVE g[k + 1] = h[k + 1]
    OBVIOUS
  <2>1. k \in 0 .. n - 1 /\ k \in 0 .. (n + 1) - 1 /\ k + 1 \in 1 .. n /\ k <= n
    BY <1>1
  <2> QED
    BY <1>2, <1>3, <1>4, <2>1 DEF Steps
<1>7. S = Nat
  <2> HIDE DEF S
  <2>1. S \in SUBSET Nat
    BY DEF S
  <2> QED
    BY <1>5, <1>6, <2>1, Induction
<1>8. g[n] = h[n] /\ n \in 0 .. (n + 1) - 1
  BY <1>1, <1>7
<1> QED
  BY <1>2, <1>3, <1>4, <1>8 DEF t, Steps

\* What holds at the start, and is kept by every step, holds of the fold.
LEMMA FoldInvariant ==
    ASSUME NEW step, NEW base, NEW T, NEW s \in Seq(T), NEW Inv,
           base \in Inv[0],
           \A k \in 0 .. Len(s) - 1 : \A acc \in Inv[k] : step[acc][s[k + 1]] \in Inv[k + 1]
    PROVE  Fold(step, base, s) \in Inv[Len(s)]
<1> DEFINE n == Len(s)
<1>1. n \in Nat /\ DOMAIN s = 1 .. n
  OBVIOUS
<1> HIDE DEF n
<1>2. PICK g : Steps(step, base, s, n, g)
  BY <1>1, FoldSteps, Zenon
<1> DEFINE S == {k \in Nat : k <= n => g[k] \in Inv[k]}
<1>3. 0 \in S
  BY <1>2 DEF Steps
<1>4. ASSUME NEW k \in S PROVE k + 1 \in S
  <2> SUFFICES ASSUME k + 1 <= n PROVE g[k + 1] \in Inv[k + 1]
    OBVIOUS
  <2>1. k \in 0 .. n - 1 /\ k <= n
    BY <1>1
  <2>2. g[k] \in Inv[k] /\ g[k + 1] = step[g[k]][s[k + 1]]
    BY <1>2, <2>1 DEF Steps
  <2> QED
    BY <2>1, <2>2 DEF n
<1>5. S = Nat
  <2> HIDE DEF S
  <2>1. S \in SUBSET Nat
    BY DEF S
  <2> QED
    BY <1>3, <1>4, <2>1, Induction
<1>6. g[n] \in Inv[n]
  BY <1>1, <1>5
<1> QED
  BY <1>2, <1>6 DEF Steps, n

-----------------------------------------------------------------------------
(* The scan for a start code.                                              *)

\* A start code ends here.
CodeAt(b, e) == b[e] = 1 /\ b[e - 1] = 0 /\ b[e - 2] = 0

\* The zeros that lead to the first one after at least two of them.
Found(b, start, from, next) ==
    /\ start <= from /\ from + 2 < next /\ next - 1 <= Len(b)
    /\ b[next - 1] = 1
    /\ \A j \in from .. next - 2 : b[j] = 0
    /\ from = start \/ b[from - 1] # 0
    /\ \A e \in start + 2 .. next - 2 : ~ CodeAt(b, e)

\* The scan after the bytes start to at - 1.
Scanned(b, start, at, acc) ==
    /\ acc.indStart = 0 =>
          /\ acc.i = at /\ acc.zCount <= at - start
          /\ \A j \in at - acc.zCount .. at - 1 : b[j] = 0
          /\ at - acc.zCount = start \/ b[at - acc.zCount - 1] # 0
          /\ \A e \in start + 2 .. at - 1 : ~ CodeAt(b, e)
    /\ acc.indStart # 0 => Found(b, start, acc.indStart, acc.indStart + acc.indLen)

\* One byte of the scan, as FindIndicator takes it.
Look(acc, b) ==
    IF acc.indStart # 0 THEN acc
    ELSE IF b = 0 THEN [acc EXCEPT !.i = @ + 1, !.zCount = @ + 1]
    ELSE IF b = 1 /\ acc.zCount >= 2
         THEN [acc EXCEPT !.indStart = acc.i - acc.zCount, !.indLen = acc.zCount + 1]
    ELSE [acc EXCEPT !.i = @ + 1, !.zCount = 0]

\* Each byte keeps what the scan knows.
LEMMA LookScans ==
    ASSUME NEW b \in Seq(Bytes), NEW start \in Nat \ {0}, NEW at \in start .. Len(b),
           NEW acc \in Scan, Scanned(b, start, at, acc)
    PROVE  Look(acc, b[at]) \in Scan /\ Scanned(b, start, at + 1, Look(acc, b[at]))
<1> DEFINE new == Look(acc, b[at])
           z == acc.zCount
<1>1. at \in Nat /\ Len(b) \in Nat /\ b[at] \in Nat /\ z \in Nat /\ at \in 1 .. Len(b)
  <2>1. at \in 1 .. Len(b)
    OBVIOUS
  <2>2. b[at] \in Bytes
    BY <2>1
  <2>3. z \in Nat
    BY DEF Scan
  <2>4. \A x \in Bytes : x \in Nat
    BY DEF Bytes
  <2> QED
    BY <2>1, <2>2, <2>3, <2>4
<1>2. /\ acc = [i |-> acc.i, zCount |-> z, indStart |-> acc.indStart, indLen |-> acc.indLen]
      /\ acc.i \in Nat /\ acc.indStart \in Nat /\ acc.indLen \in Nat
  BY DEF Scan
<1>3. CASE acc.indStart # 0
  BY <1>3 DEF Look, Scanned
<1>4. CASE acc.indStart = 0
  <2>1. /\ acc.i = at /\ z <= at - start
        /\ \A j \in at - z .. at - 1 : b[j] = 0
        /\ at - z = start \/ b[at - z - 1] # 0
        /\ \A e \in start + 2 .. at - 1 : ~ CodeAt(b, e)
    BY <1>4 DEF Scanned
  <2> HIDE DEF z
  <2>2. CASE b[at] = 0
    <3>1. new = [i |-> at + 1, zCount |-> z + 1, indStart |-> 0, indLen |-> acc.indLen]
      BY <1>2, <1>4, <2>1, <2>2 DEF Look, z
    <3> HIDE DEF new
    <3>2. new \in Scan /\ new.indStart = 0 /\ new.i = at + 1 /\ new.zCount = z + 1
      BY <1>1, <1>2, <3>1 DEF Scan
    <3>3. \A j \in (at + 1) - (z + 1) .. (at + 1) - 1 : b[j] = 0
      <4> SUFFICES ASSUME NEW j \in (at + 1) - (z + 1) .. (at + 1) - 1 PROVE b[j] = 0
        OBVIOUS
      <4>1. j = at \/ j \in at - z .. at - 1
        BY <1>1
      <4> QED
        BY <2>1, <2>2, <4>1
    <3>4. \A e \in start + 2 .. (at + 1) - 1 : ~ CodeAt(b, e)
      <4> SUFFICES ASSUME NEW e \in start + 2 .. (at + 1) - 1, CodeAt(b, e) PROVE FALSE
        OBVIOUS
      <4>1. e = at \/ e \in start + 2 .. at - 1
        BY <1>1
      <4> QED
        BY <2>1, <2>2, <4>1 DEF CodeAt
    <3>5. (at + 1) - (z + 1) = at - z /\ z + 1 <= (at + 1) - start
      BY <1>1, <2>1
    <3> QED
      BY <2>1, <3>2, <3>3, <3>4, <3>5 DEF Scanned, new
  <2>3. CASE b[at] = 1 /\ z >= 2
    <3>1. new = [i |-> at, zCount |-> z, indStart |-> at - z, indLen |-> z + 1]
      <4>1. Look(acc, b[at]) = [acc EXCEPT !.indStart = acc.i - acc.zCount, !.indLen = acc.zCount + 1]
        BY <1>4, <2>3 DEF Look, z
      <4>2. acc.i = at /\ acc.zCount = z
        BY <2>1 DEF z
      <4> QED
        BY <1>2, <4>1, <4>2
    <3> HIDE DEF new
    <3>2. at - z \in Nat /\ at - z # 0 /\ start <= at - z
      BY <1>1, <2>1
    <3>3. new \in Scan /\ new.indStart = at - z /\ new.indStart + new.indLen = at + 1
      BY <1>1, <1>2, <3>1, <3>2 DEF Scan
    <3>4. Found(b, start, at - z, at + 1)
      <4>1. at - z + 2 < at + 1 /\ (at + 1) - 1 = at /\ (at + 1) - 2 = at - 1 /\ at <= Len(b)
        BY <1>1, <2>3
      <4> QED
        BY <2>1, <2>3, <3>2, <4>1 DEF Found
    <3> QED
      BY <3>2, <3>3, <3>4 DEF Scanned, new
  <2>4. CASE b[at] # 0 /\ ~ (b[at] = 1 /\ z >= 2)
    <3>1. new = [i |-> at + 1, zCount |-> 0, indStart |-> 0, indLen |-> acc.indLen]
      BY <1>2, <1>4, <2>1, <2>4 DEF Look, z
    <3> HIDE DEF new
    <3>2. new \in Scan /\ new.indStart = 0 /\ new.i = at + 1 /\ new.zCount = 0
      BY <1>1, <1>2, <3>1 DEF Scan
    <3>3. \A e \in start + 2 .. (at + 1) - 1 : ~ CodeAt(b, e)
      <4> SUFFICES ASSUME NEW e \in start + 2 .. (at + 1) - 1, CodeAt(b, e) PROVE FALSE
        OBVIOUS
      <4>1. e = at \/ e \in start + 2 .. at - 1
        BY <1>1
      <4>2. CASE e = at
        <5>1. b[at] = 1 /\ b[at - 1] = 0 /\ b[at - 2] = 0 /\ start + 2 <= at
          BY <4>2 DEF CodeAt
        <5>2. z = 0 \/ z = 1
          BY <1>1, <2>4, <5>1
        <5> QED
          BY <1>1, <2>1, <5>1, <5>2
      <4> QED
        BY <2>1, <4>1, <4>2
    <3>4. /\ 0 <= (at + 1) - start
          /\ \A j \in (at + 1) - 0 .. (at + 1) - 1 : b[j] = 0
          /\ (at + 1) - 0 - 1 = at
      BY <1>1
    <3> QED
      BY <2>4, <3>2, <3>3, <3>4 DEF Scanned, new
  <2> QED
    BY <2>2, <2>3, <2>4
<1> QED
  BY <1>3, <1>4

\* The scan ends at the first code, or has seen that there is none.
LEMMA FindIndicatorFinds ==
    ASSUME NEW b \in Seq(Bytes), NEW start \in 1 .. Len(b) + 1
    PROVE  LET r == FindIndicator(b, start)
           IN r \in Scan /\ Scanned(b, start, Len(b) + 1, r)
<1> DEFINE look == [acc \in Scan |-> [x \in Bytes |-> Look(acc, x)]]
           s == SubSeq(b, start, Len(b))
           base == [i |-> start, zCount |-> 0, indStart |-> 0, indLen |-> 0]
           Inv == [k \in Nat |-> {acc \in Scan : Scanned(b, start, start + k, acc)}]
           n == Len(b) + 1 - start
<1>1. FindIndicator(b, start) = Fold(look, base, s)
  BY DEF FindIndicator, Look
<1>2. s \in Seq(Bytes) /\ Len(s) = n /\ n \in Nat /\ \A k \in 1 .. n : s[k] = b[start + k - 1]
  OBVIOUS
<1>3. base \in Inv[0]
  <2>1. base \in Scan
    BY DEF Scan
  <2>2. Scanned(b, start, start + 0, base)
    BY DEF Scanned
  <2> QED
    BY <2>1, <2>2
<1>4. ASSUME NEW k \in 0 .. n - 1, NEW acc \in Inv[k] PROVE look[acc][s[k + 1]] \in Inv[k + 1]
  <2>1. acc \in Scan /\ Scanned(b, start, start + k, acc)
    OBVIOUS
  <2>2. start + k \in start .. Len(b) /\ start \in Nat \ {0} /\ s[k + 1] = b[start + k]
        /\ start + (k + 1) = (start + k) + 1 /\ k + 1 \in Nat /\ start + k \in 1 .. Len(b)
    <3>1. k + 1 \in 1 .. n /\ start + (k + 1) - 1 = start + k
      OBVIOUS
    <3>2. s[k + 1] = b[start + k]
      BY <1>2, <3>1
    <3> HIDE DEF s
    <3> QED
      BY <3>2
  <2>3. s[k + 1] \in Bytes
    BY <2>2
  <2> HIDE DEF s, base, n, Inv
  <2>4. look[acc][s[k + 1]] = Look(acc, b[start + k])
    BY <2>1, <2>2, <2>3
  <2> HIDE DEF look
  <2>5. Look(acc, b[start + k]) \in Scan
        /\ Scanned(b, start, (start + k) + 1, Look(acc, b[start + k]))
    BY <2>1, <2>2, LookScans
  <2> QED
    BY <2>2, <2>4, <2>5 DEF Inv
<1> HIDE DEF look, base, Inv, s
<1>5. Fold(look, base, s) \in Inv[Len(s)]
  BY <1>2, <1>3, <1>4, FoldInvariant
<1>6. start + n = Len(b) + 1
  OBVIOUS
<1> HIDE DEF n
<1> QED
  BY <1>1, <1>2, <1>5, <1>6 DEF Inv

-----------------------------------------------------------------------------
(* The codes in order.                                                     *)

\* Every set of positions can be put in order.
LEMMA SortedExists ==
    ASSUME NEW n \in Nat, NEW S \in SUBSET (1 .. n)
    PROVE  /\ IsFiniteSet(S) /\ Cardinality(S) \in Nat
           /\ \E c \in [1 .. Cardinality(S) -> S] : \A i, j \in DOMAIN c : i < j => c[i] < c[j]
<1> DEFINE Good(T) == \E c \in [1 .. Cardinality(T) -> T] : \A i, j \in DOMAIN c : i < j => c[i] < c[j]
           N == {k \in Nat : \A T \in SUBSET (1 .. k) : Good(T)}
<1>1. \A k \in Nat : \A T \in SUBSET (1 .. k) : IsFiniteSet(T) /\ Cardinality(T) \in Nat
  <2> SUFFICES ASSUME NEW k \in Nat, NEW T \in SUBSET (1 .. k)
               PROVE  IsFiniteSet(T) /\ Cardinality(T) \in Nat
    OBVIOUS
  <2>1. IsFiniteSet(1 .. k)
    BY FS_Interval
  <2>2. IsFiniteSet(T)
    BY <2>1, FS_Subset
  <2> QED
    BY <2>2, FS_CardinalityType
<1>2. 0 \in N
  <2> SUFFICES ASSUME NEW T \in SUBSET (1 .. 0) PROVE Good(T)
    OBVIOUS
  <2>1. T = {}
    OBVIOUS
  <2>2. Cardinality(T) = 0
    BY <2>1, FS_EmptySet
  <2>3. <<>> \in [1 .. 0 -> T] /\ DOMAIN <<>> = {}
    OBVIOUS
  <2> QED
    BY <2>2, <2>3
<1>3. ASSUME NEW k \in N PROVE k + 1 \in N
  <2> SUFFICES ASSUME NEW T \in SUBSET (1 .. k + 1) PROVE Good(T)
    OBVIOUS
  <2>1. CASE k + 1 \notin T
    <3>1. T \in SUBSET (1 .. k)
      <4>1. \A x \in T : x \in 1 .. k
        BY <2>1
      <4> QED
        BY <4>1
    <3> QED
      BY <3>1
  <2>2. CASE k + 1 \in T
    <3> DEFINE R == T \ {k + 1}
               m == Cardinality(R)
    <3>1. R \in SUBSET (1 .. k)
      <4>1. \A x \in R : x \in 1 .. k
        OBVIOUS
      <4> QED
        BY <4>1
    <3>2. IsFiniteSet(R) /\ m \in Nat /\ Good(R)
      BY <1>1, <3>1
    <3>3. Cardinality(T) = m + 1
      <4>1. T = R \cup {k + 1} /\ k + 1 \notin R
        BY <2>2
      <4> HIDE DEF R
      <4> QED
        BY <3>2, <4>1, FS_AddElement
    <3>4. PICK c \in [1 .. m -> R] : \A i, j \in DOMAIN c : i < j => c[i] < c[j]
      BY <3>2
    <3> DEFINE d == [i \in 1 .. m + 1 |-> IF i = m + 1 THEN k + 1 ELSE c[i]]
    <3> HIDE DEF m
    <3>5. \A i \in 1 .. m : c[i] \in R /\ c[i] \in T /\ c[i] < k + 1 /\ d[i] = c[i]
      <4> SUFFICES ASSUME NEW i \in 1 .. m PROVE c[i] \in R /\ c[i] \in T /\ c[i] < k + 1 /\ d[i] = c[i]
        OBVIOUS
      <4>1. c[i] \in R
        BY <3>4
      <4>2. c[i] \in T /\ c[i] \in 1 .. k
        BY <3>1, <4>1
      <4>3. d[i] = c[i]
        BY <3>2
      <4> QED
        BY <4>1, <4>2, <4>3
    <3>6. d \in [1 .. m + 1 -> T]
      BY <2>2, <3>2, <3>5
    <3>7. ASSUME NEW i \in 1 .. m + 1, NEW j \in 1 .. m + 1, i < j PROVE d[i] < d[j]
      <4>1. i \in 1 .. m
        BY <3>2, <3>7
      <4>2. CASE j = m + 1
        <5>1. d[j] = k + 1
          BY <4>2
        <5> HIDE DEF d
        <5> QED
          BY <3>5, <4>1, <5>1
      <4>3. CASE j \in 1 .. m
        <5> HIDE DEF d
        <5> QED
          BY <3>4, <3>5, <3>7, <4>1, <4>3
      <4> QED
        BY <3>2, <4>2, <4>3
    <3>8. DOMAIN d = 1 .. m + 1
      OBVIOUS
    <3> HIDE DEF d
    <3> QED
      BY <3>3, <3>6, <3>7, <3>8
  <2> QED
    BY <2>1, <2>2
<1>4. N = Nat
  <2> HIDE DEF N
  <2>1. N \in SUBSET Nat
    BY DEF N
  <2> QED
    BY <1>2, <1>3, <2>1, Induction
<1> QED
  BY <1>1, <1>4

\* The increasing sequence of a set has all its elements.
LEMMA SortedAll ==
    ASSUME NEW n \in Nat, NEW S \in SUBSET (1 .. n)
    PROVE  LET c == Sorted(S)
               m == Cardinality(S)
           IN /\ m \in Nat /\ c \in [1 .. m -> S]
              /\ \A i, j \in 1 .. m : i < j => c[i] < c[j]
              /\ \A x \in S : \E i \in 1 .. m : c[i] = x
<1> DEFINE c == Sorted(S)
           m == Cardinality(S)
<1>1. IsFiniteSet(S) /\ m \in Nat
  BY SortedExists
<1>2. c \in [1 .. m -> S] /\ \A i, j \in DOMAIN c : i < j => c[i] < c[j]
  BY SortedExists DEF Sorted
<1> HIDE DEF c
<1>3. DOMAIN c = 1 .. m
  BY <1>2
<1>4. c \in Injection(1 .. m, S)
  <2>1. ASSUME NEW i \in 1 .. m, NEW j \in 1 .. m, c[i] = c[j] PROVE i = j
    <3>1. c[i] \in Nat /\ c[j] \in Nat
      <4>1. c[i] \in S /\ c[j] \in S
        BY <1>2
      <4>2. c[i] \in 1 .. n /\ c[j] \in 1 .. n
        BY <4>1
      <4> QED
        BY <4>2
    <3>2. ~ (c[i] < c[j]) /\ ~ (c[j] < c[i])
      BY <2>1, <3>1
    <3>3. ~ (i < j) /\ ~ (j < i)
      BY <1>2, <1>3, <3>2
    <3> QED
      BY <3>3, <1>1
  <2>2. IsInjective(c)
    BY <1>3, <2>1 DEF IsInjective
  <2> QED
    BY <1>2, <2>2 DEF Injection
<1>5. Cardinality(1 .. m) = m
  BY <1>1, FS_Interval
<1>6. c \in Surjection(1 .. m, S)
  BY <1>1, <1>4, <1>5, FS_Injection
<1> QED
  BY <1>1, <1>2, <1>3, <1>6 DEF Surjection, c

-----------------------------------------------------------------------------
(* Units between start codes.                                              *)

\* What holds wherever it holds of all later numbers holds everywhere.
LEMMA Downward ==
    ASSUME NEW lo \in Nat, NEW hi \in Nat, NEW S,
           \A x \in lo .. hi : (\A y \in x + 1 .. hi : y \in S) => x \in S
    PROVE  \A x \in lo .. hi : x \in S
<1> DEFINE T == {k \in Nat : \A x \in lo .. hi : x + k > hi => x \in S}
<1>1. 0 \in T
  OBVIOUS
<1>2. ASSUME NEW k \in T PROVE k + 1 \in T
  <2> SUFFICES ASSUME NEW x \in lo .. hi, x + (k + 1) > hi PROVE x \in S
    OBVIOUS
  <2>1. ASSUME NEW y \in x + 1 .. hi PROVE y \in S
    <3>1. y \in lo .. hi /\ y + k > hi
      OBVIOUS
    <3> QED
      BY <3>1
  <2> QED
    BY <2>1
<1>3. T = Nat
  <2> HIDE DEF T
  <2>1. T \in SUBSET Nat
    BY DEF T
  <2> QED
    BY <1>1, <1>2, <2>1, Induction
<1>4. \A x \in lo .. hi : x + (hi + 1) > hi
  OBVIOUS
<1> QED
  BY <1>3, <1>4

\* A function whose values are defined from later ones.
Backwards(lo, hi, stop, last, step, next, g) ==
    \A x \in lo .. hi : g[x] = IF x \in stop THEN last[x] ELSE step[x][g[next[x]]]

\* There is one, if each value is defined from a later one.
LEMMA BackwardsExists ==
    ASSUME NEW lo \in Nat, NEW hi \in Nat, NEW stop, NEW last, NEW step, NEW next,
           \A x \in lo .. hi : x \notin stop => next[x] \in x + 1 .. hi
    PROVE  \E g : Backwards(lo, hi, stop, last, step, next, g)
<1> DEFINE Eq(x, g) == g[x] = IF x \in stop THEN last[x] ELSE step[x][g[next[x]]]
           T == {k \in Nat : \E g : \A x \in lo .. hi : x + k > hi => Eq(x, g)}
<1>1. 0 \in T
  <2>1. \A x \in lo .. hi : ~ (x + 0 > hi)
    OBVIOUS
  <2> QED
    BY <2>1
<1>2. ASSUME NEW k \in T PROVE k + 1 \in T
  <2>1. PICK g : \A x \in lo .. hi : x + k > hi => Eq(x, g)
    OBVIOUS
  <2> DEFINE h == [x \in lo .. hi |->
                       IF x + k > hi THEN g[x]
                       ELSE IF x \in stop THEN last[x] ELSE step[x][g[next[x]]]]
  <2>2. ASSUME NEW x \in lo .. hi, x + (k + 1) > hi PROVE Eq(x, h)
    <3>1. CASE x + k > hi
      <4>1. h[x] = g[x] /\ Eq(x, g)
        BY <2>1, <3>1
      <4>2. x \notin stop => h[next[x]] = g[next[x]]
        <5> SUFFICES ASSUME x \notin stop PROVE h[next[x]] = g[next[x]]
          OBVIOUS
        <5>1. next[x] \in lo .. hi /\ next[x] + k > hi
          BY <3>1
        <5> QED
          BY <5>1
      <4> HIDE DEF h
      <4> QED
        BY <4>1, <4>2
    <3>2. CASE ~ (x + k > hi)
      <4>1. h[x] = IF x \in stop THEN last[x] ELSE step[x][g[next[x]]]
        BY <3>2
      <4>2. x \notin stop => h[next[x]] = g[next[x]]
        <5> SUFFICES ASSUME x \notin stop PROVE h[next[x]] = g[next[x]]
          OBVIOUS
        <5>1. next[x] \in lo .. hi /\ next[x] + k > hi
          BY <2>2, <3>2
        <5> QED
          BY <5>1
      <4> HIDE DEF h
      <4> QED
        BY <4>1, <4>2
    <3> QED
      BY <3>1, <3>2
  <2> HIDE DEF h
  <2> QED
    BY <2>2
<1>3. T = Nat
  <2> HIDE DEF T
  <2>1. T \in SUBSET Nat
    BY DEF T
  <2> QED
    BY <1>1, <1>2, <2>1, Induction
<1>4. PICK g : \A x \in lo .. hi : x + (hi + 1) > hi => Eq(x, g)
  <2>1. hi + 1 \in T
    <3> HIDE DEF T
    <3> QED
      BY <1>3
  <2> QED
    BY <2>1
<1>5. \A x \in lo .. hi : x + (hi + 1) > hi
  OBVIOUS
<1> QED
  BY <1>4, <1>5 DEF Backwards

\* The function that AnnexB takes its units from.
AnnexBFrom(b, f) ==
    f = [start \in 1 .. Len(b) + 1 |->
            LET next == FindIndicator(b, start)
            IN IF next.indStart = 0
               THEN <<SubSeq(b, start, Len(b))>>
               ELSE <<SubSeq(b, start, next.indStart - 1)>>
                        \o f[next.indStart + next.indLen]]

\* AnnexB reads it behind the first start code.
LEMMA AnnexBIs == ASSUME NEW b PROVE
    LET first == FindIndicator(b, 1)
    IN AnnexB(b) = (CHOOSE f : AnnexBFrom(b, f))[first.indStart + first.indLen]
BY Zenon DEF AnnexB, AnnexBFrom

\* Where the scan from start leaves off.
After(b, start) == LET next == FindIndicator(b, start) IN next.indStart + next.indLen

\* A scan that finds a code leaves off behind it, within the sample.
LEMMA AfterIn ==
    ASSUME NEW b \in Seq(Bytes), NEW start \in 1 .. Len(b) + 1,
           FindIndicator(b, start).indStart # 0
    PROVE  /\ FindIndicator(b, start) \in Scan
           /\ Found(b, start, FindIndicator(b, start).indStart, After(b, start))
           /\ After(b, start) \in start + 3 .. Len(b) + 1
<1> DEFINE r == FindIndicator(b, start)
<1>1. r \in Scan /\ Scanned(b, start, Len(b) + 1, r)
  BY FindIndicatorFinds
<1> HIDE DEF r
<1>2. r.indStart \in Nat /\ r.indLen \in Nat /\ Len(b) \in Nat
  BY <1>1 DEF Scan
<1>3. r.indStart # 0
  BY DEF r
<1>4. Found(b, start, r.indStart, r.indStart + r.indLen)
  BY <1>1, <1>3 DEF Scanned
<1>5. start <= r.indStart /\ r.indStart + 2 < r.indStart + r.indLen
      /\ (r.indStart + r.indLen) - 1 <= Len(b)
  BY <1>4 DEF Found
<1>6. r.indStart + r.indLen \in start + 3 .. Len(b) + 1
  BY <1>2, <1>5
<1> QED
  BY <1>1, <1>4, <1>6 DEF After, r

\* The recursion is well-defined, as every scan goes on.
LEMMA AnnexBFromExists ==
    ASSUME NEW b \in Seq(Bytes) PROVE \E f : AnnexBFrom(b, f)
<1> DEFINE n == Len(b) + 1
           I == 1 .. n
           V == Seq(Seq(Bytes))
           stop == {x \in I : FindIndicator(b, x).indStart = 0}
           last == [x \in I |-> <<SubSeq(b, x, Len(b))>>]
           head(x) == <<SubSeq(b, x, FindIndicator(b, x).indStart - 1)>>
           step == [x \in I |-> [v \in V |-> head(x) \o v]]
           next == [x \in I |-> After(b, x)]
<1>1. n \in Nat /\ 1 \in Nat
  OBVIOUS
<1>2. ASSUME NEW x \in I, x \notin stop
      PROVE  next[x] \in x + 1 .. n /\ head(x) \in V
  <2>1. After(b, x) \in x + 3 .. n
    BY <1>2, AfterIn
  <2>2. next[x] = After(b, x)
    OBVIOUS
  <2>3. SubSeq(b, x, FindIndicator(b, x).indStart - 1) \in Seq(Bytes)
    <3> DEFINE e == FindIndicator(b, x).indStart
    <3>1. FindIndicator(b, x) \in Scan
          /\ Found(b, x, FindIndicator(b, x).indStart, After(b, x))
      BY <1>2, AfterIn
    <3>2. e \in Nat
      BY <3>1 DEF Scan
    <3>3. x <= e /\ e + 2 < After(b, x) /\ After(b, x) - 1 <= Len(b)
      BY <3>1 DEF Found
    <3> HIDE DEF e
    <3>4. e - 1 <= Len(b) /\ x \in Nat /\ x >= 1 /\ Len(b) \in Nat
      BY <2>1, <3>2, <3>3
    <3> QED
      BY <3>2, <3>4 DEF e
  <2> HIDE DEF next, n
  <2> QED
    BY <2>1, <2>2, <2>3, <1>1
<1>3. ASSUME NEW x \in I PROVE last[x] \in V
  <2>1. SubSeq(b, x, Len(b)) \in Seq(Bytes)
    OBVIOUS
  <2> QED
    BY <2>1
<1> HIDE DEF n
<1>4. PICK g : Backwards(1, n, stop, last, step, next, g)
  <2> HIDE DEF stop, last, step, next
  <2> QED
    BY <1>1, <1>2, BackwardsExists
<1>5. \A x \in I : g[x] = IF x \in stop THEN last[x] ELSE step[x][g[next[x]]]
  BY <1>4 DEF Backwards
<1>6. \A x \in I : g[x] \in V
  <2> DEFINE S == {x \in I : g[x] \in V}
  <2>1. ASSUME NEW x \in I, \A y \in x + 1 .. n : y \in S PROVE x \in S
    <3>1. CASE x \in stop
      BY <1>3, <1>5, <3>1
    <3>2. CASE x \notin stop
      <4>1. next[x] \in S /\ head(x) \in V
        BY <1>2, <2>1, <3>2
      <4>2. step[x][g[next[x]]] = head(x) \o g[next[x]]
        BY <4>1
      <4>3. head(x) \o g[next[x]] \in V
        <5> HIDE DEF head, next
        <5> QED
          BY <4>1
      <4> QED
        BY <1>5, <3>2, <4>2, <4>3
    <3> QED
      BY <3>1, <3>2
  <2> HIDE DEF S
  <2>2. \A x \in 1 .. n : x \in S
    BY <1>1, <2>1, Downward
  <2> QED
    BY <2>2 DEF S
<1> DEFINE f == [x \in I |-> g[x]]
           body(x) == LET r == FindIndicator(b, x)
                      IN IF r.indStart = 0
                         THEN <<SubSeq(b, x, Len(b))>>
                         ELSE <<SubSeq(b, x, r.indStart - 1)>> \o f[r.indStart + r.indLen]
<1>7. ASSUME NEW x \in I PROVE g[x] = body(x)
  <2>1. CASE x \in stop
    <3>1. g[x] = <<SubSeq(b, x, Len(b))>>
      BY <1>5, <2>1
    <3>2. FindIndicator(b, x).indStart = 0
      BY <2>1
    <3> QED
      BY <3>1, <3>2, Zenon
  <2>2. CASE x \notin stop
    <3>1. next[x] \in I /\ next[x] = After(b, x)
      BY <1>1, <1>2, <2>2
    <3>2. g[next[x]] \in V /\ f[After(b, x)] = g[next[x]]
      BY <1>6, <3>1
    <3>3. g[x] = head(x) \o g[next[x]]
      BY <1>5, <2>2, <3>2
    <3>4. g[x] = head(x) \o f[After(b, x)]
      BY <3>2, <3>3, Zenon
    <3>5. FindIndicator(b, x).indStart # 0
      BY <2>2
    <3> HIDE DEF f
    <3> QED
      BY <3>4, <3>5, Zenon DEF After
  <2> QED
    BY <2>1, <2>2
<1>8. f = [x \in I |-> body(x)]
  <2> HIDE DEF body
  <2> QED
    BY <1>7
<1>9. AnnexBFrom(b, f)
  <2> HIDE DEF f
  <2> QED
    BY <1>8, Zenon DEF AnnexBFrom, n
<1> QED
  BY <1>9

\* The greatest member is what no other exceeds.
LEMMA MaxIs ==
    ASSUME NEW d \in SUBSET Nat, NEW x \in d, \A y \in d : x >= y
    PROVE  Max(d) = x
<1>1. \A z \in d : (\A y \in d : z >= y) => z = x
  OBVIOUS
<1> QED
  BY <1>1 DEF Max

\* The zeros before a start code are not part of the unit.
LEMMA ZerosDropped ==
    ASSUME NEW b \in Seq(Bytes), NEW start \in Nat \ {0}, NEW from \in Nat, NEW e \in Nat,
           start <= from, from <= e, e - 1 <= Len(b),
           \A j \in from .. e - 1 : b[j] = 0,
           from = start \/ b[from - 1] # 0
    PROVE  SubSeq(b, start, from - 1) = WithoutZeros(SubSeq(b, start, e - 1))
<1> DEFINE t == SubSeq(b, start, e - 1)
           n == e - start
           kept == {i \in DOMAIN t : t[i] # 0}
<1>1. n \in Nat /\ t \in Seq(Bytes) /\ Len(t) = n /\ DOMAIN t = 1 .. n
      /\ \A i \in 1 .. n : t[i] = b[start + i - 1]
  OBVIOUS
<1>2. WithoutZeros(t) = SubSeq(t, 1, IF kept = {} THEN 0 ELSE Max(kept))
  BY Zenon DEF WithoutZeros
<1>3. \A i \in 1 .. n : i > from - start => t[i] = 0
  <2> SUFFICES ASSUME NEW i \in 1 .. n, i > from - start PROVE t[i] = 0
    OBVIOUS
  <2>1. start + i - 1 \in from .. e - 1 /\ t[i] = b[start + i - 1]
    BY <1>1
  <2> QED
    BY <2>1
<1> HIDE DEF t, n
<1>4. (IF kept = {} THEN 0 ELSE Max(kept)) = from - start
  <2>1. CASE from = start
    <3>1. kept = {}
      BY <1>1, <1>3, <2>1
    <3> QED
      BY <2>1, <3>1
  <2>2. CASE from # start
    <3>1. from - start \in 1 .. n
      BY <2>2 DEF n
    <3>2. t[from - start] = b[from - 1]
      <4>1. start + (from - start) - 1 = from - 1
        OBVIOUS
      <4> QED
        BY <1>1, <3>1, <4>1
    <3>3. from - start \in kept
      BY <1>1, <2>2, <3>1, <3>2
    <3>4. \A y \in kept : y \in 1 .. n /\ t[y] # 0
      BY <1>1
    <3>5. kept \in SUBSET Nat /\ \A y \in kept : from - start >= y
      <4> HIDE DEF kept
      <4>1. \A y \in 1 .. n : y \in Nat
        OBVIOUS
      <4>2. \A y \in 1 .. n : t[y] # 0 => from - start >= y
        BY <1>1, <1>3
      <4> QED
        BY <3>4, <4>1, <4>2
    <3> HIDE DEF kept
    <3> QED
      BY <3>3, <3>5, MaxIs
  <2> QED
    BY <2>1, <2>2
<1>5. SubSeq(t, 1, from - start) = SubSeq(b, start, from - 1)
  BY DEF t
<1> QED
  BY <1>2, <1>4, <1>5 DEF t

\* The reference's codes are those bytes.
LEMMA CodesAre == ASSUME NEW b PROVE Codes(b) = {e \in 3 .. Len(b) : CodeAt(b, e)}
BY DEF Codes, CodeAt

\* One scan finds the first code from start on.
LEMMA NextCode ==
    ASSUME NEW b \in Seq(Bytes), NEW start \in 1 .. Len(b) + 1,
           \A e \in Codes(b) : e >= start => e >= start + 2
    PROVE  LET r == FindIndicator(b, start)
               e == After(b, start) - 1
           IN /\ r.indStart = 0 => \A x \in Codes(b) : x < start
              /\ r.indStart # 0 =>
                    /\ e \in Codes(b) /\ e >= start
                    /\ \A x \in Codes(b) : x >= start => x >= e
                    /\ SubSeq(b, start, r.indStart - 1) = WithoutZeros(SubSeq(b, start, e - 1))
<1> DEFINE r == FindIndicator(b, start)
           e == After(b, start) - 1
<1>1. r \in Scan /\ Scanned(b, start, Len(b) + 1, r)
  BY FindIndicatorFinds
<1>2. \A x \in Codes(b) : x \in 3 .. Len(b) /\ CodeAt(b, x)
  BY CodesAre
<1>3. CASE r.indStart = 0
  <2>1. \A x \in start + 2 .. (Len(b) + 1) - 1 : ~ CodeAt(b, x)
    BY <1>1, <1>3 DEF Scanned
  <2>2. ASSUME NEW x \in Codes(b), x >= start PROVE FALSE
    <3>1. x >= start + 2 /\ x \in 3 .. Len(b) /\ CodeAt(b, x)
      BY <1>2, <2>2
    <3>2. x \in start + 2 .. (Len(b) + 1) - 1
      BY <3>1
    <3> QED
      BY <2>1, <3>1, <3>2
  <2>3. \A x \in Codes(b) : x < start
    <3>1. \A x \in Codes(b) : x \in Nat /\ ~ (x >= start)
      BY <1>2, <2>2
    <3> QED
      BY <3>1
  <2> QED
    BY <1>3, <2>3
<1>4. CASE r.indStart # 0
  <2> DEFINE from == r.indStart
  <2>1. Found(b, start, from, After(b, start)) /\ After(b, start) \in start + 3 .. Len(b) + 1
    BY <1>4, AfterIn
  <2>2. from \in Nat
    BY <1>1 DEF Scan
  <2>3. e \in Nat /\ After(b, start) = e + 1 /\ e <= Len(b) /\ e >= start + 2
    BY <2>1
  <2> HIDE DEF e, from
  <2>4. /\ start <= from /\ from + 1 < e
        /\ b[e] = 1
        /\ \A j \in from .. e - 1 : b[j] = 0
        /\ from = start \/ b[from - 1] # 0
        /\ \A x \in start + 2 .. e - 1 : ~ CodeAt(b, x)
    <3>1. (e + 1) - 1 = e /\ (e + 1) - 2 = e - 1
      BY <2>3
    <3> QED
      BY <2>1, <2>2, <2>3, <3>1 DEF Found
  <2>5. e \in Codes(b)
    <3>1. e \in 3 .. Len(b) /\ e - 1 \in from .. e - 1 /\ e - 2 \in from .. e - 1
      BY <2>2, <2>3, <2>4
    <3>2. CodeAt(b, e)
      BY <2>4, <3>1 DEF CodeAt
    <3> QED
      BY <3>1, <3>2, CodesAre
  <2>6. ASSUME NEW x \in Codes(b), x >= start PROVE x >= e
    <3>1. x \in 3 .. Len(b) /\ CodeAt(b, x) /\ x >= start + 2
      BY <1>2, <2>6
    <3>2. x < e => x \in start + 2 .. e - 1
      BY <2>3, <3>1
    <3> QED
      BY <2>3, <2>4, <3>1, <3>2
  <2>7. SubSeq(b, start, from - 1) = WithoutZeros(SubSeq(b, start, e - 1))
    <3>1. start \in Nat \ {0} /\ from <= e /\ e - 1 <= Len(b)
      BY <2>2, <2>3, <2>4
    <3> QED
      BY <2>2, <2>3, <2>4, <3>1, ZerosDropped
  <2>8. e >= start
    BY <2>3
  <2> QED
    BY <1>4, <2>5, <2>6, <2>7, <2>8, Zenon DEF e, from, r
<1> QED
  BY <1>3, <1>4

\* A part of one element.
LEMMA SubSeqOne ==
    ASSUME NEW T, NEW s \in Seq(T), NEW k \in 1 .. Len(s)
    PROVE  SubSeq(s, k, k) = <<s[k]>>
<1>1. SubSeq(s, k, k) \in Seq(T) /\ Len(SubSeq(s, k, k)) = 1
  OBVIOUS
<1>2. SubSeq(s, k, k)[1] = s[k]
  OBVIOUS
<1>3. <<s[k]>> \in Seq(T) /\ Len(<<s[k]>>) = 1 /\ <<s[k]>>[1] = s[k]
  OBVIOUS
<1> DEFINE t == SubSeq(s, k, k)
           u == <<s[k]>>
<1> HIDE DEF t, u
<1>4. t \in Seq(T) /\ u \in Seq(T) /\ Len(t) = Len(u) /\ \A i \in 1 .. Len(t) : t[i] = u[i]
  BY <1>1, <1>2, <1>3 DEF t, u
<1>5. t = u
  BY <1>4, SeqEqual
<1> QED
  BY <1>5 DEF t, u

\* A sample's units are sequences of bytes.
LEMMA UnitsTyped ==
    ASSUME NEW b \in Seq(Bytes)
    PROVE  LET c == Sorted(Codes(b))
               m == Cardinality(Codes(b))
           IN /\ m \in Nat /\ c \in [1 .. m -> Codes(b)]
              /\ Units(b) \in Seq(Seq(Bytes)) /\ Len(Units(b)) = m
              /\ \A k \in 1 .. m :
                     Units(b)[k] =
                         IF k = m THEN SubSeq(b, c[k] + 1, Len(b))
                         ELSE WithoutZeros(SubSeq(b, c[k] + 1, c[k + 1] - 1))
<1> DEFINE C == Codes(b)
           c == Sorted(C)
           m == Cardinality(C)
           unit(k) == IF k = m THEN SubSeq(b, c[k] + 1, Len(b))
                      ELSE WithoutZeros(SubSeq(b, c[k] + 1, c[k + 1] - 1))
<1>1. C \in SUBSET (1 .. Len(b)) /\ Len(b) \in Nat
  BY DEF Codes
<1>2. m \in Nat /\ c \in [1 .. m -> C]
  BY <1>1, SortedAll
<1> HIDE DEF c, m
<1>3. DOMAIN c = 1 .. m /\ Len(c) = m
  BY <1>2
<1>4. Units(b) = [k \in 1 .. m |-> unit(k)]
  BY <1>3, Zenon DEF Units, c
<1>5. ASSUME NEW t \in Seq(Bytes) PROVE WithoutZeros(t) \in Seq(Bytes)
  <2> DEFINE kept == {i \in DOMAIN t : t[i] # 0}
             n == IF kept = {} THEN 0 ELSE Max(kept)
  <2>1. DOMAIN t = 1 .. Len(t) /\ Len(t) \in Nat
    OBVIOUS
  <2>2. kept \in SUBSET (1 .. Len(t))
    BY <2>1
  <2>3. n \in 0 .. Len(t)
    <3> HIDE DEF kept
    <3>1. kept # {} => Max(kept) \in 1 .. Len(t)
      BY <2>1, <2>2, MaxIn
    <3> QED
      BY <2>1, <3>1
  <2>4. WithoutZeros(t) = SubSeq(t, 1, n)
    BY Zenon DEF WithoutZeros
  <2> HIDE DEF n
  <2> QED
    BY <2>3, <2>4
<1>6. ASSUME NEW k \in 1 .. m PROVE unit(k) \in Seq(Bytes)
  <2>1. c[k] \in 1 .. Len(b)
    BY <1>1, <1>2
  <2>2. CASE k = m
    <3>1. SubSeq(b, c[k] + 1, Len(b)) \in Seq(Bytes)
      BY <2>1
    <3> QED
      BY <2>2, <3>1
  <2>3. CASE k # m
    <3>1. k + 1 \in 1 .. m
      BY <1>2, <2>3
    <3>2. c[k + 1] \in 1 .. Len(b)
      BY <1>1, <1>2, <3>1
    <3>3. SubSeq(b, c[k] + 1, c[k + 1] - 1) \in Seq(Bytes)
      BY <2>1, <3>2
    <3>4. WithoutZeros(SubSeq(b, c[k] + 1, c[k + 1] - 1)) \in Seq(Bytes)
      BY <1>5, <3>3
    <3> QED
      BY <2>3, <3>4
  <2> QED
    BY <2>2, <2>3
<1>7. Units(b) \in Seq(Seq(Bytes)) /\ Len(Units(b)) = m
  <2> HIDE DEF unit
  <2> QED
    BY <1>2, <1>4, <1>6
<1>8. \A k \in 1 .. m : Units(b)[k] = unit(k)
  <2> HIDE DEF unit
  <2> QED
    BY <1>4
<1> QED
  BY <1>2, <1>7, <1>8, Zenon DEF c, m

\* From the byte after a code on, the units that are left.
LEMMA AnnexBUnits ==
    ASSUME NEW b \in Seq(Bytes), Codes(b) # {}
    PROVE  AnnexB(b) = Units(b) /\ FindIndicator(b, 1).indStart # 0
<1> DEFINE C == Codes(b)
           c == Sorted(C)
           m == Cardinality(C)
           U == Units(b)
           f == CHOOSE f : AnnexBFrom(b, f)
           n == Len(b)
<1>1. C \in SUBSET (1 .. n) /\ n \in Nat /\ \A x \in C : x \in 3 .. n /\ CodeAt(b, x)
  BY DEF Codes, CodeAt
<1>2. \A x \in C : x \in Nat /\ x \in 3 .. n
  BY <1>1
<1>3. /\ m \in Nat /\ c \in [1 .. m -> C]
      /\ \A i, j \in 1 .. m : i < j => c[i] < c[j]
      /\ \A x \in C : \E i \in 1 .. m : c[i] = x
  BY <1>1, SortedAll
<1>4. /\ U \in Seq(Seq(Bytes)) /\ Len(U) = m
      /\ \A k \in 1 .. m : U[k] = IF k = m THEN SubSeq(b, c[k] + 1, n)
                                  ELSE WithoutZeros(SubSeq(b, c[k] + 1, c[k + 1] - 1))
  BY UnitsTyped
<1>5. AnnexBFrom(b, f)
  BY AnnexBFromExists
<1>6. \A x \in 1 .. n + 1 :
          f[x] = IF FindIndicator(b, x).indStart = 0 THEN <<SubSeq(b, x, n)>>
                 ELSE <<SubSeq(b, x, FindIndicator(b, x).indStart - 1)>> \o f[After(b, x)]
  <2> HIDE DEF f
  <2> QED
    BY <1>5, Zenon DEF AnnexBFrom, After
<1>7. AnnexB(b) = f[After(b, 1)]
  BY AnnexBIs, Zenon DEF After
<1> HIDE DEF c, m, U, f, n, C
<1>8. \A x \in C : \A y \in C : x < y => y >= x + 3
  <2> SUFFICES ASSUME NEW x \in C, NEW y \in C, x < y, ~ (y >= x + 3) PROVE FALSE
    OBVIOUS
  <2>1. x \in Nat /\ y \in Nat /\ (x = y - 1 \/ x = y - 2)
    BY <1>1
  <2>2. b[x] = 1 /\ b[y - 1] = 0 /\ b[y - 2] = 0
    BY <1>1 DEF CodeAt
  <2> QED
    BY <2>1, <2>2
<1>9. \A i \in 1 .. m : c[i] \in C /\ c[i] \in Nat /\ c[i] \in 3 .. n
  <2>1. \A i \in 1 .. m : c[i] \in C
    BY <1>3
  <2> QED
    BY <1>2, <2>1
<1>10. U \in Seq(Seq(Bytes)) /\ Len(U) = m /\ m \in Nat
  BY <1>3, <1>4
<1>11. m # 0
  BY <1>3 DEF C
<1>12. ASSUME NEW k \in 1 .. m
      PROVE  /\ c[k] + 1 \in 1 .. n + 1
             /\ k = m => FindIndicator(b, c[k] + 1).indStart = 0
             /\ k < m => /\ FindIndicator(b, c[k] + 1).indStart # 0
                         /\ After(b, c[k] + 1) = c[k + 1] + 1
                         /\ SubSeq(b, c[k] + 1, FindIndicator(b, c[k] + 1).indStart - 1)
                                = WithoutZeros(SubSeq(b, c[k] + 1, c[k + 1] - 1))
  <2> DEFINE s == c[k] + 1
             r == FindIndicator(b, s)
             e == After(b, s) - 1
  <2>1. c[k] \in C /\ c[k] \in 3 .. n /\ s \in 1 .. n + 1
    <3>1. c[k] \in C /\ c[k] \in 3 .. n
      BY <1>9
    <3> QED
      BY <1>1, <3>1
  <2>2. \A x \in C : x >= s => x >= s + 2
    <3> SUFFICES ASSUME NEW x \in C, x >= s PROVE x >= s + 2
      OBVIOUS
    <3>1. x \in Nat /\ c[k] < x
      BY <1>1, <2>1
    <3> QED
      BY <1>8, <2>1, <3>1
  <2> HIDE DEF s
  <2>3. /\ r.indStart = 0 => \A x \in C : x < s
        /\ r.indStart # 0 =>
              /\ e \in C /\ e >= s
              /\ \A x \in C : x >= s => x >= e
              /\ SubSeq(b, s, r.indStart - 1) = WithoutZeros(SubSeq(b, s, e - 1))
    BY <2>1, <2>2, NextCode DEF C, n
  <2> HIDE DEF r, e
  <2>4. CASE k = m
    <3>1. r.indStart = 0
      <4> SUFFICES ASSUME r.indStart # 0 PROVE FALSE
        OBVIOUS
      <4>1. PICK i \in 1 .. m : c[i] = e
        BY <1>3, <2>3
      <4>2. i = m \/ i < m
        BY <1>3
      <4>3. c[i] \in Nat /\ ~ (c[k] < c[i])
        <5>1. c[i] \in Nat
          BY <1>9
        <5>2. i < m => c[i] < c[k]
          BY <1>3, <2>4
        <5> QED
          BY <2>1, <2>4, <4>2, <5>1, <5>2
      <4> QED
        BY <2>1, <2>3, <4>1, <4>3 DEF s
    <3> QED
      BY <2>1, <2>4, <3>1 DEF r, s
  <2>5. CASE k < m
    <3>1. k + 1 \in 1 .. m /\ c[k + 1] \in C /\ c[k] < c[k + 1] /\ c[k + 1] \in Nat
      <4>1. k + 1 \in 1 .. m /\ k < k + 1
        BY <1>3, <2>5
      <4>2. c[k] < c[k + 1]
        BY <1>3, <4>1
      <4> QED
        BY <1>9, <4>1, <4>2
    <3>2. r.indStart # 0
      <4> SUFFICES ASSUME r.indStart = 0 PROVE FALSE
        OBVIOUS
      <4> QED
        BY <2>1, <2>3, <3>1 DEF s
    <3>3. e = c[k + 1]
      <4>1. PICK i \in 1 .. m : c[i] = e
        BY <1>3, <2>3, <3>2
      <4>2. e \in Nat /\ e <= c[k + 1] /\ c[k] < e
        <5>1. c[k + 1] >= s
          BY <2>1, <3>1 DEF s
        <5>2. e >= s /\ c[k + 1] >= e
          BY <2>3, <3>1, <3>2, <5>1
        <5>3. e \in Nat
          BY <1>2, <2>3, <3>2
        <5> QED
          BY <2>1, <3>1, <5>2, <5>3 DEF s
      <4>3. ~ (i < k) /\ i # k
        <5>1. i < k => c[i] < c[k]
          BY <1>3
        <5> QED
          BY <2>1, <4>1, <4>2, <5>1
      <4>4. i = k + 1 \/ k + 1 < i
        BY <4>3, <1>3
      <4>5. k + 1 < i => c[k + 1] < c[i]
        BY <1>3, <3>1
      <4> QED
        BY <3>1, <4>1, <4>2, <4>4, <4>5
    <3>4. After(b, s) = e + 1
      <4>1. After(b, s) \in Nat
        <5>1. After(b, s) \in s + 3 .. Len(b) + 1
          BY <2>1, <3>2, AfterIn DEF r, n
        <5> QED
          BY <2>1, <5>1 DEF s
      <4> QED
        BY <4>1 DEF e
    <3>5. SubSeq(b, s, r.indStart - 1) = WithoutZeros(SubSeq(b, s, c[k + 1] - 1))
      BY <2>3, <3>2, <3>3
    <3>6. k # m
      BY <2>5
    <3> QED
      BY <2>1, <3>2, <3>3, <3>4, <3>5, <3>6, Zenon DEF r, s
  <2> QED
    BY <2>4, <2>5, <1>3
<1>13. ASSUME NEW k \in 1 .. m PROVE f[c[k] + 1] = SubSeq(U, k, m)
  <2> DEFINE S == {x \in 1 .. m : f[c[x] + 1] = SubSeq(U, x, m)}
  <2>1. ASSUME NEW x \in 1 .. m, \A y \in x + 1 .. m : y \in S PROVE x \in S
    <3>1. c[x] + 1 \in 1 .. n + 1 /\ U[x] \in Seq(Bytes)
      BY <1>4, <1>12
    <3>2. CASE x = m
      <4>1. f[c[x] + 1] = <<SubSeq(b, c[x] + 1, n)>>
        BY <1>6, <1>12, <3>1, <3>2
      <4>2. U[x] = SubSeq(b, c[x] + 1, n)
        BY <1>4, <3>2
      <4>3. SubSeq(U, x, m) = <<U[x]>>
        <5>1. SubSeq(U, x, x) = <<U[x]>>
          BY <1>10, SubSeqOne
        <5> QED
          BY <3>2, <5>1
      <4> QED
        BY <4>1, <4>2, <4>3
    <3>3. CASE x < m
      <4>1. x + 1 \in x + 1 .. m /\ x # m
        BY <3>3, <1>3
      <4>2. f[c[x + 1] + 1] = SubSeq(U, x + 1, m)
        BY <2>1, <4>1
      <4>3. f[c[x] + 1] = <<SubSeq(b, c[x] + 1, FindIndicator(b, c[x] + 1).indStart - 1)>>
                              \o f[c[x + 1] + 1]
        BY <1>6, <1>12, <3>1, <3>3
      <4>4. U[x] = SubSeq(b, c[x] + 1, FindIndicator(b, c[x] + 1).indStart - 1)
        BY <1>4, <1>12, <3>3, <4>1
      <4>5. f[c[x] + 1] = <<U[x]>> \o SubSeq(U, x + 1, m)
        BY <4>2, <4>3, <4>4
      <4>6. <<U[x]>> \o SubSeq(U, x + 1, m) = SubSeq(U, x, m)
        BY <1>3, <1>4, <3>3
      <4> QED
        BY <4>5, <4>6
    <3> QED
      BY <1>3, <3>2, <3>3
  <2> HIDE DEF S
  <2>2. \A x \in 1 .. m : x \in S
    BY <1>3, <2>1, Downward
  <2> QED
    BY <2>2 DEF S
<1>14. FindIndicator(b, 1).indStart # 0 /\ After(b, 1) = c[1] + 1
  <2> DEFINE r == FindIndicator(b, 1)
             e == After(b, 1) - 1
  <2>1. \A x \in C : x >= 1 => x >= 1 + 2
    BY <1>1
  <2>2. 1 \in 1 .. n + 1
    BY <1>1
  <2>3. /\ r.indStart = 0 => \A x \in C : x < 1
        /\ r.indStart # 0 =>
              /\ e \in C /\ e >= 1
              /\ \A x \in C : x >= 1 => x >= e
    BY <2>1, <2>2, NextCode DEF C, n
  <2> HIDE DEF e, r
  <2>4. 1 \in 1 .. m /\ c[1] \in C /\ c[1] \in 3 .. n
    BY <1>9, <1>3, <1>11
  <2>5. r.indStart # 0
    BY <2>3, <2>4
  <2>6. e = c[1]
    <3>1. PICK i \in 1 .. m : c[i] = e
      BY <1>3, <2>3, <2>5
    <3>2. e \in Nat /\ e <= c[1]
      <4>1. e \in Nat
        BY <1>2, <2>3, <2>5
      <4>2. c[1] >= 1
        BY <2>4
      <4>3. c[1] >= e
        BY <2>3, <2>4, <2>5, <4>2
      <4> QED
        BY <2>4, <4>1, <4>3
    <3>3. i = 1 \/ 1 < i
      OBVIOUS
    <3>4. 1 < i => c[1] < c[i]
      BY <1>3, <2>4
    <3> QED
      BY <2>4, <3>1, <3>2, <3>3, <3>4
  <2>7. After(b, 1) \in Nat
    <3>1. After(b, 1) \in 1 + 3 .. Len(b) + 1
      BY <2>2, <2>5, AfterIn DEF r, n
    <3> QED
      BY <3>1
  <2> QED
    BY <2>5, <2>6, <2>7 DEF e, r
<1>15. SubSeq(U, 1, m) = U
  BY <1>4
<1>16. f[After(b, 1)] = U
  <2>1. 1 \in 1 .. m
    BY <1>3, <1>11
  <2>2. f[c[1] + 1] = SubSeq(U, 1, m)
    BY <1>13, <2>1
  <2> QED
    BY <1>14, <1>15, <2>2
<1> QED
  BY <1>7, <1>14, <1>16 DEF U

-----------------------------------------------------------------------------
(* Units preceded by their sizes.                                          *)

\* The units from x on, f giving those from later positions on.
AVCCAt(b, f, x) ==
    LET end == Len(b) + 1
        size == U32BE(b, x - 4)
        next == x + size
    IN IF size > end - x
       THEN [nalus |-> <<>>, left |-> end - x]
       ELSE IF end - next < 4
       THEN [nalus |-> <<SubSeq(b, x, next - 1)>>, left |-> end - next]
       ELSE [nalus |-> <<SubSeq(b, x, next - 1)>> \o f[next + 4].nalus,
             left |-> f[next + 4].left]

\* The function that AVCC takes its units from.
AVCCFrom(b, f) == f = [x \in 5 .. Len(b) + 1 |-> AVCCAt(b, f, x)]

\* AVCC reads it behind the first size.
LEMMA AVCCIs == ASSUME NEW b PROVE AVCC(b) = (CHOOSE f : AVCCFrom(b, f))[5]
BY Zenon DEF AVCC, AVCCFrom, AVCCAt

\* A size read from four bytes is a number.
LEMMA U32Natural ==
    ASSUME NEW b, NEW i, b[i] \in Nat, b[i + 1] \in Nat, b[i + 2] \in Nat, b[i + 3] \in Nat
    PROVE  U32BE(b, i) \in Nat
<1> DEFINE p == b[i]
           q == b[i + 1]
           r == b[i + 2]
           s == b[i + 3]
<1>1. p \in Nat /\ q \in Nat /\ r \in Nat /\ s \in Nat
  OBVIOUS
<1>2. U32BE(b, i) = p * 16777216 + q * 65536 + r * 256 + s
  BY SMT DEF U32BE
<1> HIDE DEF p, q, r, s
<1>3. p * 16777216 + q * 65536 + r * 256 + s \in Nat
  BY <1>1, SMT
<1> QED
  BY <1>2, <1>3, SMT

\* What AVCC returns.
AVCCResults == [nalus : Seq(Seq(Bytes)), left : Nat]

\* Its recursion is well-defined, and each unit is some of the sample's bytes.
LEMMA AVCCTyped ==
    ASSUME NEW b \in Seq(Bytes), Len(b) >= 4
    PROVE  AVCC(b) \in AVCCResults
<1> DEFINE end == Len(b) + 1
           I == 5 .. end
           V == AVCCResults
           size(x) == U32BE(b, x - 4)
           part(x) == SubSeq(b, x, (x + size(x)) - 1)
           short(x) == size(x) > end - x
           stop == {x \in I : short(x) \/ end - (x + size(x)) < 4}
           last == [x \in I |-> IF short(x) THEN [nalus |-> <<>>, left |-> end - x]
                                ELSE [nalus |-> <<part(x)>>, left |-> end - (x + size(x))]]
           more(x, v) == [nalus |-> <<part(x)>> \o v.nalus, left |-> v.left]
           step == [x \in I |-> [v \in V |-> more(x, v)]]
           next == [x \in I |-> x + size(x) + 4]
<1>1. end \in Nat /\ 5 \in Nat /\ 5 \in I
  OBVIOUS
<1>2. ASSUME NEW x \in I PROVE size(x) \in Nat
  <2>1. x - 4 \in 1 .. Len(b) /\ x - 4 + 1 \in 1 .. Len(b)
        /\ x - 4 + 2 \in 1 .. Len(b) /\ x - 4 + 3 \in 1 .. Len(b)
    OBVIOUS
  <2>2. \A i \in 1 .. Len(b) : b[i] \in Nat
    <3>1. \A i \in 1 .. Len(b) : b[i] \in Bytes
      OBVIOUS
    <3>2. \A y \in Bytes : y \in Nat
      BY DEF Bytes
    <3> QED
      BY <3>1, <3>2
  <2>3. b[x - 4] \in Nat /\ b[x - 4 + 1] \in Nat /\ b[x - 4 + 2] \in Nat /\ b[x - 4 + 3] \in Nat
    BY <2>1, <2>2
  <2> QED
    BY <2>3, U32Natural
<1>3. ASSUME NEW x \in I, ~ short(x) PROVE part(x) \in Seq(Bytes) /\ end - (x + size(x)) \in Nat
  <2> HIDE DEF size
  <2>1. x \in Nat /\ x >= 1 /\ size(x) \in Nat /\ x + size(x) - 1 <= Len(b)
    BY <1>2, <1>3
  <2> QED
    BY <2>1
<1> HIDE DEF size, part
<1>4. ASSUME NEW x \in I, x \notin stop PROVE next[x] \in x + 1 .. end /\ ~ short(x)
  BY <1>2, <1>4
<1>5. ASSUME NEW x \in I PROVE last[x] \in V
  <2>1. CASE short(x)
    <3>1. last[x] = [nalus |-> <<>>, left |-> end - x]
      BY <2>1
    <3>2. end - x \in Nat
      OBVIOUS
    <3> HIDE DEF last
    <3>3. <<>> \in Seq(Seq(Bytes))
      OBVIOUS
    <3> QED
      BY <3>1, <3>2, <3>3 DEF AVCCResults
  <2>2. CASE ~ short(x)
    <3>1. last[x] = [nalus |-> <<part(x)>>, left |-> end - (x + size(x))]
      BY <2>2
    <3>2. part(x) \in Seq(Bytes) /\ end - (x + size(x)) \in Nat
      BY <1>3, <2>2
    <3>3. <<part(x)>> \in Seq(Seq(Bytes))
      BY <3>2
    <3> HIDE DEF last
    <3> QED
      BY <3>1, <3>2, <3>3 DEF AVCCResults
  <2> QED
    BY <2>1, <2>2
<1>6. ASSUME NEW x \in I, x \notin stop, NEW v \in V PROVE more(x, v) \in V
  <2>1. part(x) \in Seq(Bytes)
    BY <1>3, <1>4, <1>6
  <2>2. v.nalus \in Seq(Seq(Bytes)) /\ v.left \in Nat /\ v = [nalus |-> v.nalus, left |-> v.left]
    BY DEF AVCCResults
  <2>3. more(x, v) = [nalus |-> <<part(x)>> \o v.nalus, left |-> v.left]
    BY <2>2
  <2>4. <<part(x)>> \o v.nalus \in Seq(Seq(Bytes))
    BY <2>1, <2>2
  <2> HIDE DEF more
  <2> QED
    BY <2>2, <2>3, <2>4 DEF AVCCResults
<1>7. PICK g : Backwards(5, end, stop, last, step, next, g)
  <2> HIDE DEF stop, last, step, next, end
  <2> QED
    BY <1>1, <1>4, BackwardsExists
<1>8. \A x \in I : g[x] = IF x \in stop THEN last[x] ELSE step[x][g[next[x]]]
  BY <1>7 DEF Backwards
<1>9. \A x \in I : g[x] \in V
  <2> DEFINE S == {x \in I : g[x] \in V}
  <2>1. ASSUME NEW x \in I, \A y \in x + 1 .. end : y \in S PROVE x \in S
    <3>1. CASE x \in stop
      BY <1>5, <1>8, <3>1
    <3>2. CASE x \notin stop
      <4>1. g[next[x]] \in V
        BY <1>4, <2>1, <3>2
      <4> HIDE DEF more, next, stop
      <4>2. step[x][g[next[x]]] = more(x, g[next[x]])
        BY <4>1
      <4>3. more(x, g[next[x]]) \in V
        BY <1>6, <3>2, <4>1
      <4> QED
        BY <1>8, <3>2, <4>2, <4>3
    <3> QED
      BY <3>1, <3>2
  <2> HIDE DEF S
  <2>2. \A x \in 5 .. end : x \in S
    BY <1>1, <2>1, Downward
  <2> QED
    BY <2>2 DEF S
<1> DEFINE h == [x \in I |-> g[x]]
<1>10. ASSUME NEW x \in I, NEW f
      PROVE  AVCCAt(b, f, x) =
                 IF short(x) THEN [nalus |-> <<>>, left |-> end - x]
                 ELSE IF end - (x + size(x)) < 4
                 THEN [nalus |-> <<part(x)>>, left |-> end - (x + size(x))]
                 ELSE [nalus |-> <<part(x)>> \o f[(x + size(x)) + 4].nalus,
                       left |-> f[(x + size(x)) + 4].left]
  BY Zenon DEF AVCCAt, size, part
<1>11. ASSUME NEW x \in I PROVE h[x] = AVCCAt(b, h, x)
  <2>1. CASE x \in stop
    <3>1. h[x] = last[x]
      BY <1>8, <2>1
    <3>2. short(x) \/ end - (x + size(x)) < 4
      BY <2>1
    <3> HIDE DEF h
    <3> QED
      BY <1>10, <3>1, <3>2
  <2>2. CASE x \notin stop
    <3>1. next[x] \in I /\ next[x] = (x + size(x)) + 4
      BY <1>4, <2>2
    <3>2. h[x] = step[x][g[next[x]]] /\ g[next[x]] \in V
      BY <1>8, <1>9, <2>2, <3>1
    <3>3. h[x] = more(x, g[next[x]])
      BY <3>2
    <3>4. g[next[x]] = h[(x + size(x)) + 4]
      BY <3>1
    <3>5. ~ short(x) /\ ~ (end - (x + size(x)) < 4)
      BY <2>2
    <3> HIDE DEF h, short
    <3> QED
      BY <1>10, <3>3, <3>4, <3>5, Zenon
  <2> QED
    BY <2>1, <2>2
<1>12. h = [x \in I |-> AVCCAt(b, h, x)]
  <2>1. h = [x \in I |-> h[x]]
    OBVIOUS
  <2> HIDE DEF h
  <2> QED
    BY <1>11, <2>1
<1>13. AVCCFrom(b, h)
  <2> HIDE DEF h
  <2> QED
    BY <1>12, Zenon DEF AVCCFrom
<1> DEFINE c == CHOOSE f : AVCCFrom(b, f)
<1>14. AVCCFrom(b, c)
  BY <1>13, Zenon
<1>15. \A x \in I : c[x] = AVCCAt(b, c, x)
  <2> HIDE DEF c
  <2>1. c = [x \in I |-> AVCCAt(b, c, x)]
    BY <1>14, Zenon DEF AVCCFrom
  <2> QED
    BY <2>1
<1>16. \A x \in I : c[x] \in V
  <2> HIDE DEF c
  <2> DEFINE S == {x \in I : c[x] \in V}
  <2>1. ASSUME NEW x \in I, \A y \in x + 1 .. end : y \in S PROVE x \in S
    <3>1. CASE x \in stop
      <4>1. c[x] = last[x]
        <5>1. short(x) \/ end - (x + size(x)) < 4
          BY <3>1
        <5> QED
          BY <1>15, <1>10, <5>1
      <4> QED
        BY <1>5, <4>1
    <3>2. CASE x \notin stop
      <4>1. next[x] \in S /\ next[x] = (x + size(x)) + 4
        BY <1>4, <2>1, <3>2
      <4>2. c[x] = more(x, c[(x + size(x)) + 4])
        <5>1. ~ short(x) /\ ~ (end - (x + size(x)) < 4)
          BY <3>2
        <5> HIDE DEF short
        <5> QED
          BY <1>15, <1>10, <5>1, Zenon
      <4>3. c[(x + size(x)) + 4] \in V
        BY <4>1
      <4> HIDE DEF more
      <4> QED
        BY <1>6, <3>2, <4>2, <4>3
    <3> QED
      BY <3>1, <3>2
  <2> HIDE DEF S
  <2>2. \A x \in 5 .. end : x \in S
    BY <1>1, <2>1, Downward
  <2> QED
    BY <2>2 DEF S
<1>17. AVCC(b) = c[5]
  BY AVCCIs
<1> QED
  BY <1>1, <1>16, <1>17

\* However a sample is split, the units are bytes; and where it has start
\* codes, they are the reference's.
LEMMA SplitTyped ==
    ASSUME NEW b \in Seq(Bytes)
    PROVE  /\ SplitNALUs(b) \in Seq(Seq(Bytes))
           /\ Len(b) > 3 /\ Codes(b) # {} => SplitNALUs(b) = Units(b)
<1>1. <<b>> \in Seq(Seq(Bytes)) /\ Len(b) \in Nat
  OBVIOUS
<1>2. CASE Len(b) < 4
  <2>1. SplitNALUs(b) = <<b>>
    BY <1>2, Zenon DEF SplitNALUs
  <2> QED
    BY <1>1, <1>2, <2>1
<1>3. CASE ~ (Len(b) < 4)
  <2>1. AVCC(b).nalus \in Seq(Seq(Bytes))
    BY <1>1, <1>3, AVCCTyped DEF AVCCResults
  <2>2. CASE Codes(b) # {}
    <3>1. FindIndicator(b, 1).indStart # 0 /\ AnnexB(b) = Units(b)
      BY <2>2, AnnexBUnits
    <3>2. SplitNALUs(b) = Units(b)
      BY <1>3, <3>1, Zenon DEF SplitNALUs
    <3>3. Units(b) \in Seq(Seq(Bytes))
      BY UnitsTyped
    <3> QED
      BY <3>2, <3>3
  <2>3. CASE Codes(b) = {}
    <3>1. FindIndicator(b, 1).indStart = 0
      <4> SUFFICES ASSUME FindIndicator(b, 1).indStart # 0 PROVE FALSE
        OBVIOUS
      <4>1. 1 \in 1 .. Len(b) + 1 /\ \A e \in Codes(b) : e >= 1 => e >= 1 + 2
        BY <1>1, <2>3
      <4>2. After(b, 1) - 1 \in Codes(b)
        BY <4>1, NextCode
      <4> QED
        BY <2>3, <4>2
    <3>2. SplitNALUs(b) = AVCC(b).nalus \/ SplitNALUs(b) = <<b>>
      BY <1>3, <3>1, Zenon DEF SplitNALUs
    <3> QED
      BY <1>1, <2>1, <2>3, <3>2
  <2> QED
    BY <2>2, <2>3
<1> QED
  BY <1>2, <1>3

-----------------------------------------------------------------------------
(* The encoder's samples.                                                  *)

\* Where the encoder's sample is split, it holds H.264 units.
Encoded(s) ==
    \A k \in DOMAIN SplitNALUs(s) :
        LET nalu == SplitNALUs(s)[k]
        IN nalu # <<>> => nalu[1] < 128 /\ Type(nalu) < StapA

\* The samples to come and the one given last are what an encoder gives.
EncoderInv ==
    /\ stream \in Seq(Seq(Bytes)) /\ \A i \in DOMAIN stream : Encoded(stream[i])
    /\ sample \in Seq(Bytes) /\ Encoded(sample)

\* So is the empty sample.
LEMMA NoneEncoded == <<>> \in Seq(Bytes) /\ Encoded(<<>>)
<1>1. SplitNALUs(<<>>) = <<<<>>>>
  BY DEF SplitNALUs
<1>2. \A k \in DOMAIN <<<<>>>> : <<<<>>>>[k] = <<>>
  OBVIOUS
<1>3. Encoded(<<>>)
  BY <1>1, <1>2, Zenon DEF Encoded
<1> QED
  BY <1>3

\* The encoder's streams stay what they are, sample by sample.
LEMMA EncoderInvHolds == PayloaderSpec => []EncoderInv
<1>1. PayloaderInit => EncoderInv
  <2> SUFFICES ASSUME PayloaderInit PROVE EncoderInv
    OBVIOUS
  <2>1. stream \in Streams /\ sample = <<>>
    BY DEF PayloaderInit
  <2>2. stream \in Seq(Seq(Bytes))
    BY <2>1, StreamsAssumption
  <2>3. \A i \in DOMAIN stream : Encoded(stream[i])
    BY <2>1, StreamsAssumption, Zenon DEF Encoded
  <2> QED
    BY <2>1, <2>2, <2>3, NoneEncoded DEF EncoderInv
<1>2. EncoderInv /\ [PayloaderNext]_payloaderVars => EncoderInv'
  <2> SUFFICES ASSUME EncoderInv, [PayloaderNext]_payloaderVars PROVE EncoderInv'
    OBVIOUS
  <2>1. CASE PayloaderNext
    <3>1. stream # <<>> /\ sample' = Head(stream) /\ stream' = Tail(stream)
      BY <2>1, Zenon DEF PayloaderNext, PacketizeSample
    <3>2. stream \in Seq(Seq(Bytes)) /\ \A i \in DOMAIN stream : Encoded(stream[i])
      BY DEF EncoderInv
    <3>3. /\ Head(stream) \in Seq(Bytes) /\ Head(stream) = stream[1] /\ 1 \in DOMAIN stream
          /\ Tail(stream) \in Seq(Seq(Bytes))
          /\ \A i \in DOMAIN Tail(stream) : i + 1 \in DOMAIN stream /\ Tail(stream)[i] = stream[i + 1]
      BY <3>1, <3>2
    <3>4. sample' \in Seq(Bytes) /\ stream' \in Seq(Seq(Bytes))
      BY <3>1, <3>3
    <3>5. Encoded(sample')
      BY <3>1, <3>2, <3>3
    <3>6. \A i \in DOMAIN stream' : Encoded(stream'[i])
      BY <3>1, <3>2, <3>3
    <3> QED
      BY <3>4, <3>5, <3>6 DEF EncoderInv, Encoded
  <2>2. CASE UNCHANGED payloaderVars
    BY <2>2 DEF payloaderVars, EncoderInv
  <2> QED
    BY <2>1, <2>2
<1> QED
  BY <1>1, <1>2, PTL DEF PayloaderSpec

\* Every sample with start codes is split where they are, however zeros and
\* ones lie around them (h264_packetizer.go:100).
THEOREM SplitAsCodedHolds == PayloaderSpec => []SplitAsCoded
<1>1. EncoderInv => SplitAsCoded
  BY SplitTyped DEF EncoderInv, SplitAsCoded
<1> QED
  BY <1>1, EncoderInvHolds, PTL

\* What the payloader holds.
Held == [sps : Seq(Bytes), pps : Seq(Bytes), out : Seq(Packets)]

\* Sequences of one kind are sequences of a wider one.
LEMMA SeqTyped == ASSUME NEW S, NEW T, S \subseteq T PROVE Seq(S) \subseteq Seq(T)
BY SeqMonotonic

\* The types in the model are wider.
LEMMA HeldWaits ==
    /\ Held \subseteq Waiting
    /\ Seq(Packets) \subseteq Seq(Seq(Nat))
    /\ Seq(Bytes) \subseteq Seq(Nat)
<1>1. Seq(Bytes) \subseteq Seq(Nat)
  BY BytesNat
<1>2. Packets \subseteq Seq(Nat)
  BY DEF Packets
<1>3. Seq(Packets) \subseteq Seq(Seq(Nat))
  BY <1>2, SeqTyped, Zenon
<1>4. Held \subseteq Waiting
  BY <1>1, <1>3 DEF Held, Waiting
<1> QED
  BY <1>1, <1>3, <1>4

\* What comes of one unit.
Pair(p) ==
    IF (p.sps # <<>> /\ p.pps # <<>>) /\ PairFits(p.sps, p.pps)
    THEN <<Aggregate(p.sps, p.pps)>> ELSE <<>>
Whole(nalu) == IF Len(nalu) <= MTU THEN <<nalu>> ELSE Fragments(nalu)

\* Units that are left out, and those that are sent.
Other(nalu) == nalu = <<>> \/ Type(nalu) \in Skipped
Slice(nalu) == ~ Other(nalu) /\ Type(nalu) # SPS /\ Type(nalu) # PPS

\* PayloadNalu by the unit's type.
LEMMA PayloadCases ==
    ASSUME NEW p \in Held, NEW nalu \in Seq(Bytes)
    PROVE  LET new == PayloadNalu(p, nalu)
           IN /\ Other(nalu) => new = p
              /\ ~ Other(nalu) /\ Type(nalu) = SPS => new = [sps |-> nalu, pps |-> p.pps, out |-> p.out]
              /\ ~ Other(nalu) /\ Type(nalu) = PPS => new = [sps |-> p.sps, pps |-> nalu, out |-> p.out]
              /\ Slice(nalu) =>
                    new = [sps |-> IF p.sps # <<>> /\ p.pps # <<>> THEN <<>> ELSE p.sps,
                           pps |-> IF p.sps # <<>> /\ p.pps # <<>> THEN <<>> ELSE p.pps,
                           out |-> p.out \o Pair(p) \o Whole(nalu)]
<1>1. p = [sps |-> p.sps, pps |-> p.pps, out |-> p.out]
  BY DEF Held
<1>2. CASE Other(nalu)
  BY <1>2 DEF PayloadNalu, Other, Slice
<1>3. CASE ~ Other(nalu) /\ Type(nalu) = SPS
  <2>1. PayloadNalu(p, nalu) = [p EXCEPT !.sps = nalu]
    BY <1>3, Zenon DEF PayloadNalu, Other
  <2> QED
    BY <1>1, <1>3, <2>1 DEF Slice, SPS, PPS
<1>4. CASE ~ Other(nalu) /\ Type(nalu) = PPS
  <2>1. Type(nalu) # SPS
    BY <1>4 DEF SPS, PPS
  <2>2. PayloadNalu(p, nalu) = [p EXCEPT !.pps = nalu]
    BY <1>4, <2>1, Zenon DEF PayloadNalu, Other
  <2> QED
    BY <1>1, <1>4, <2>1, <2>2 DEF Slice
<1>5. CASE Slice(nalu)
  <2>1. ~ Other(nalu) /\ Type(nalu) # SPS /\ Type(nalu) # PPS
    BY <1>5 DEF Slice
  <2> QED
    BY <1>5, <2>1, Zenon DEF PayloadNalu, Other, Pair, Whole
<1> QED
  BY <1>2, <1>3, <1>4, <1>5 DEF Slice

-----------------------------------------------------------------------------
(* The receiver.                                                           *)

\* The receiver as a fold over what has come.
ReceiveStep == [r \in Arrived |-> [pay \in Seq(Nat) |-> Depacketize(r, pay)]]
Got(payloads) == Fold(ReceiveStep, [nalus |-> <<>>, unit |-> <<>>], payloads)

\* Receive takes the units it has put together.
LEMMA ReceiveIs == ASSUME NEW payloads PROVE Receive(payloads) = Got(payloads).nalus
BY Zenon DEF Receive, Got, ReceiveStep

\* One more payload is one more step.
LEMMA GotAppend ==
    ASSUME NEW out \in Seq(Packets), NEW pay \in Packets, Got(out) \in Arrived
    PROVE  Got(Append(out, pay)) = Depacketize(Got(out), pay)
<1> DEFINE base == [nalus |-> <<>>, unit |-> <<>>]
<1> HIDE DEF base
<1>1. \A s : Got(s) = Fold(ReceiveStep, base, s)
  BY DEF Got, base
<1>2. Fold(ReceiveStep, base, Append(out, pay)) = ReceiveStep[Fold(ReceiveStep, base, out)][pay]
  BY FoldAppend
<1>3. Got(Append(out, pay)) = ReceiveStep[Got(out)][pay]
  BY <1>1, <1>2
<1>4. pay \in Seq(Nat)
  BY DEF Packets
<1> QED
  BY <1>3, <1>4, Zenon DEF ReceiveStep

\* The parts of the receiver's state.
LEMMA ArrivedIs ==
    ASSUME NEW r \in Arrived
    PROVE  r = [nalus |-> r.nalus, unit |-> r.unit]
           /\ r.nalus \in Seq(Seq(Nat)) /\ r.unit \in Seq(Nat)
BY DEF Arrived

\* A part of a sequence, which may be empty.
LEMMA SubSeqAt ==
    ASSUME NEW S, NEW t \in Seq(S), NEW a \in Nat, NEW b \in Nat, a <= b, b <= Len(t)
    PROVE  /\ SubSeq(t, a + 1, b) \in Seq(S) /\ Len(SubSeq(t, a + 1, b)) = b - a
           /\ \A j \in 1 .. b - a : SubSeq(t, a + 1, b)[j] = t[a + j]
OBVIOUS

\* A part of a sequence is known by its elements.
LEMMA PartIs ==
    ASSUME NEW t \in Seq(Nat), NEW s \in Seq(Nat), NEW k \in Nat, k + Len(s) <= Len(t),
           \A i \in 1 .. Len(s) : t[k + i] = s[i]
    PROVE  SubSeq(t, k + 1, k + Len(s)) = s
<1> DEFINE e == k + Len(s)
           p == SubSeq(t, k + 1, e)
<1>1. e \in Nat /\ k <= e /\ e - k = Len(s) /\ e <= Len(t)
  OBVIOUS
<1> HIDE DEF e
<1>2. p \in Seq(Nat) /\ Len(p) = e - k /\ \A j \in 1 .. e - k : p[j] = t[k + j]
  BY <1>1
<1> HIDE DEF p
<1>3. Len(p) = Len(s) /\ \A j \in 1 .. Len(s) : p[j] = s[j]
  BY <1>1, <1>2
<1>4. p = s
  BY <1>2, <1>3, SeqEqual
<1> QED
  BY <1>4, Zenon DEF e, p

\* An aggregate becomes the two units in it.
LEMMA TakesPair ==
    ASSUME NEW r \in Arrived, NEW sps \in Seq(Nat), NEW pps \in Seq(Nat), PairFits(sps, pps)
    PROVE  Depacketize(r, Aggregate(sps, pps)) = [nalus |-> r.nalus \o <<sps, pps>>, unit |-> r.unit]
<1> DEFINE a == Aggregate(sps, pps)
           n == Len(sps)
           m == Len(pps)
<1>1. /\ Type(a) = StapA /\ Len(a) = 5 + n + m
      /\ a[2] * 256 + a[3] = n
      /\ \A i \in 1 .. n : a[3 + i] = sps[i]
      /\ \A i \in 1 .. m : a[5 + n + i] = pps[i]
  BY AggregateReads
<1>2. a \in Seq(Nat) /\ n \in Nat /\ m \in Nat
  BY AggregateTyped
<1> HIDE DEF a
<1>3. SubSeq(a, 4, 3 + n) = sps
  <2>1. SubSeq(a, 3 + 1, 3 + Len(sps)) = sps
    BY <1>1, <1>2, PartIs
  <2> QED
    BY <2>1
<1>4. SubSeq(a, 6 + n, Len(a)) = pps
  <2>1. 5 + n \in Nat /\ (5 + n) + Len(pps) = Len(a) /\ (5 + n) + 1 = 6 + n
    BY <1>1, <1>2
  <2>2. \A i \in 1 .. Len(pps) : a[(5 + n) + i] = pps[i]
    BY <1>1
  <2> HIDE DEF n
  <2>3. SubSeq(a, (5 + n) + 1, (5 + n) + Len(pps)) = pps
    BY <1>2, <2>1, <2>2, PartIs
  <2> QED
    BY <2>1, <2>3
<1> HIDE DEF n
<1>5. Depacketize(r, a) = [r EXCEPT !.nalus = r.nalus \o <<sps, pps>>]
  <2>1. /\ SubSeq(a, 4, 3 + (a[2] * 256 + a[3])) = sps
        /\ SubSeq(a, 6 + (a[2] * 256 + a[3]), Len(a)) = pps
    BY <1>1, <1>3, <1>4, Zenon
  <2>2. Type(a) = StapA
    BY <1>1
  <2> QED
    BY <2>1, <2>2, Zenon DEF Depacketize
<1> QED
  BY <1>5, ArrivedIs DEF a

\* A unit that fits is a payload.
LEMMA TakesWhole ==
    ASSUME NEW r \in Arrived, NEW nalu, Type(nalu) \in 0 .. StapA - 1
    PROVE  Depacketize(r, nalu) = [nalus |-> Append(r.nalus, nalu), unit |-> r.unit]
<1>1. Type(nalu) # StapA /\ Type(nalu) # FuA
  BY DEF StapA, FuA
<1>2. Depacketize(r, nalu) = [r EXCEPT !.nalus = Append(r.nalus, nalu)]
  BY <1>1 DEF Depacketize
<1> QED
  BY <1>2, ArrivedIs

\* The unit up to where fragment i ends.
Upto(nalu, i) == SubSeq(nalu, 1, End(nalu, i) + 1)

\* A fragment's bytes continue the unit where the last one ended.
LEMMA FragmentPart ==
    ASSUME NEW nalu \in Seq(Bytes), Len(nalu) > MTU, NEW i \in 1 .. Count(nalu)
    PROVE  LET f == Fragments(nalu)[i]
               part == SubSeq(f, 3, Len(f))
           IN /\ i = 1 => <<nalu[1]>> \o part = Upto(nalu, 1)
              /\ i > 1 => Upto(nalu, i - 1) \o part = Upto(nalu, i)
              /\ i = Count(nalu) => Upto(nalu, i) = nalu
<1> DEFINE f == Fragments(nalu)[i]
           from == (i - 1) * Room
           end == End(nalu, i)
           part == SubSeq(f, 3, Len(f))
<1>1. /\ Len(f) = 2 + end - from
      /\ \A j \in 3 .. Len(f) : f[j] = nalu[from + j - 1]
  BY FragmentAt
<1>2. from \in Nat /\ end \in Nat /\ from < end /\ end + 1 <= Len(nalu) /\ Len(nalu) \in Nat
  BY EndBounds DEF Data
<1>3. Fragments(nalu) \in Seq(Packets) /\ Len(Fragments(nalu)) = Count(nalu)
  <2>1. Fragments(nalu) \in Seq(Packets)
    BY FragmentsFit
  <2>2. DOMAIN Fragments(nalu) = 1 .. Count(nalu)
    BY FragmentsKeepUnit
  <2>3. Count(nalu) \in Nat
    BY CountBounds
  <2> QED
    BY <2>1, <2>2, <2>3
<1>4. f \in Seq(Nat)
  <2>1. f \in Packets
    BY <1>3
  <2> QED
    BY <2>1 DEF Packets
<1>5. nalu \in Seq(Nat)
  BY BytesNat
<1> HIDE DEF f, from, end
<1>6. part = SubSeq(nalu, from + 2, end + 1)
  <2> DEFINE t == SubSeq(nalu, from + 2, end + 1)
  <2>1. part \in Seq(Nat) /\ Len(part) = end - from /\ \A j \in 1 .. end - from : part[j] = f[j + 2]
    BY <1>1, <1>2, <1>4
  <2>2. t \in Seq(Nat) /\ Len(t) = end - from /\ \A j \in 1 .. end - from : t[j] = nalu[from + j + 1]
    BY <1>2, <1>5
  <2>3. \A j \in 1 .. end - from : f[j + 2] = nalu[from + j + 1]
    <3> SUFFICES ASSUME NEW j \in 1 .. end - from PROVE f[j + 2] = nalu[from + j + 1]
      OBVIOUS
    <3>1. j + 2 \in 3 .. Len(f) /\ from + (j + 2) - 1 = from + j + 1
      BY <1>1, <1>2
    <3>2. f[j + 2] = nalu[from + (j + 2) - 1]
      BY <1>1, <3>1
    <3> QED
      BY <3>1, <3>2
  <2> HIDE DEF part, t
  <2>4. part = t
    BY <2>1, <2>2, <2>3, SeqEqual
  <2> QED
    BY <2>4 DEF t
<1> HIDE DEF part
<1>7. i = 1 => <<nalu[1]>> \o part = Upto(nalu, 1)
  <2> SUFFICES ASSUME i = 1 PROVE <<nalu[1]>> \o part = Upto(nalu, 1)
    OBVIOUS
  <2>1. from = 0 /\ end = End(nalu, 1)
    <3>1. Room \in Nat
      BY CountBounds
    <3> QED
      BY <3>1 DEF from, end
  <2>2. 1 \in 1 .. Len(nalu) /\ end + 1 \in 1 .. Len(nalu)
    BY <1>2
  <2>3. SubSeq(nalu, 1, end + 1) = <<nalu[1]>> \o SubSeq(nalu, 1 + 1, end + 1)
    BY <1>5, <2>2, SubSeqRecursiveFirst
  <2>4. from + 2 = 2 /\ 1 + 1 = 2
    BY <2>1
  <2>5. <<nalu[1]>> \o part = SubSeq(nalu, 1, end + 1)
    BY <1>6, <2>3, <2>4
  <2> QED
    BY <2>1, <2>5 DEF Upto
<1>8. i > 1 => Upto(nalu, i - 1) \o part = Upto(nalu, i)
  <2> SUFFICES ASSUME i > 1 PROVE Upto(nalu, i - 1) \o part = Upto(nalu, i)
    OBVIOUS
  <2>1. End(nalu, i - 1) = from
    <3>1. Count(nalu) \in Nat
      BY CountBounds
    <3>2. i - 1 # Count(nalu)
      BY <3>1
    <3> QED
      BY <3>2 DEF End, from
  <2>2. 1 \in 1 .. Len(nalu) + 1 /\ from + 1 \in 1 - 1 .. Len(nalu)
        /\ end + 1 \in from + 1 .. Len(nalu) /\ (from + 1) + 1 = from + 2
    BY <1>2
  <2>3. SubSeq(nalu, 1, from + 1) \o SubSeq(nalu, (from + 1) + 1, end + 1) = SubSeq(nalu, 1, end + 1)
    BY <1>5, <2>2, ConcatAdjacentSubSeq
  <2> QED
    BY <1>6, <2>1, <2>2, <2>3 DEF Upto, end
<1>9. i = Count(nalu) => Upto(nalu, i) = nalu
  <2> SUFFICES ASSUME i = Count(nalu) PROVE Upto(nalu, i) = nalu
    OBVIOUS
  <2>1. End(nalu, i) + 1 = Len(nalu)
    BY <1>2 DEF End, Data
  <2> QED
    BY <1>5, <2>1, SubSeqFull DEF Upto
<1> QED
  BY <1>7, <1>8, <1>9 DEF f, part

\* A fragment extends the unit; the last one completes it.
LEMMA TakesFragment ==
    ASSUME NEW r \in Arrived, NEW nalu \in Seq(Bytes), Len(nalu) > MTU, nalu[1] < 128,
           NEW i \in 1 .. Count(nalu), i > 1 => r.unit = Upto(nalu, i - 1)
    PROVE  Depacketize(r, Fragments(nalu)[i]) =
               IF i = Count(nalu) THEN [nalus |-> Append(r.nalus, nalu), unit |-> <<>>]
               ELSE [nalus |-> r.nalus, unit |-> Upto(nalu, i)]
<1> DEFINE f == Fragments(nalu)[i]
           part == SubSeq(f, 3, Len(f))
<1>1. /\ Type(f) = FuA /\ Type(f) # StapA
      /\ f[2] \div 128 = 1 <=> i = 1
      /\ (f[2] \div 64) % 2 = 1 <=> i = Count(nalu)
      /\ RefIdc(f) + (f[2] % 32) = nalu[1]
  BY FragmentsMarked DEF FuA, StapA
<1>2. /\ i = 1 => <<nalu[1]>> \o part = Upto(nalu, 1)
      /\ i > 1 => Upto(nalu, i - 1) \o part = Upto(nalu, i)
      /\ i = Count(nalu) => Upto(nalu, i) = nalu
  BY FragmentPart
<1>3. Count(nalu) > 1 /\ Count(nalu) \in Nat
  BY CountBounds
<1> HIDE DEF f
<1>4. CASE i = 1
  <2>1. Depacketize(r, f) = [r EXCEPT !.unit = <<nalu[1]>> \o part]
    <3>1. Depacketize(r, f) = [r EXCEPT !.unit = <<RefIdc(f) + (f[2] % 32)>> \o part]
      BY <1>1, <1>4, Zenon DEF Depacketize
    <3> QED
      BY <1>1, <3>1, Zenon
  <2> HIDE DEF part
  <2>2. Depacketize(r, f) = [r EXCEPT !.unit = Upto(nalu, i)]
    BY <1>2, <1>4, <2>1
  <2>3. [r EXCEPT !.unit = Upto(nalu, i)] = [nalus |-> r.nalus, unit |-> Upto(nalu, i)]
    BY ArrivedIs
  <2> QED
    BY <1>3, <1>4, <2>2, <2>3 DEF f
<1>5. CASE i > 1 /\ i = Count(nalu)
  <2>1. i # 1
    BY <1>5
  <2>2. Depacketize(r, f) = [nalus |-> Append(r.nalus, r.unit \o part), unit |-> <<>>]
    BY <1>1, <1>5, <2>1, Zenon DEF Depacketize
  <2>3. r.unit \o part = nalu
    BY <1>2, <1>5
  <2> HIDE DEF part
  <2> QED
    BY <1>5, <2>2, <2>3 DEF f
<1>6. CASE i > 1 /\ i # Count(nalu)
  <2>1. i # 1
    BY <1>6
  <2>2. Depacketize(r, f) = [r EXCEPT !.unit = r.unit \o part]
    BY <1>1, <1>6, <2>1, Zenon DEF Depacketize
  <2>3. r.unit \o part = Upto(nalu, i)
    BY <1>2, <1>6
  <2>4. [r EXCEPT !.unit = Upto(nalu, i)] = [nalus |-> r.nalus, unit |-> Upto(nalu, i)]
    BY ArrivedIs
  <2> HIDE DEF part
  <2> QED
    BY <1>6, <2>2, <2>3, <2>4 DEF f
<1> QED
  BY <1>4, <1>5, <1>6

\* Sequences grow by one element at a time.
LEMMA ConcatNext ==
    ASSUME NEW S, NEW s \in Seq(S), NEW t \in Seq(S), NEW i \in 0 .. Len(t) - 1
    PROVE  s \o SubSeq(t, 1, i + 1) = Append(s \o SubSeq(t, 1, i), t[i + 1])
<1> DEFINE u == SubSeq(t, 1, i)
<1>1. 1 \in 1 .. Len(t) /\ i + 1 \in 1 .. Len(t) /\ i \in 0 .. Len(t) /\ (i + 1) - 1 = i
  OBVIOUS
<1>2. SubSeq(t, 1, i + 1) = u \o <<t[i + 1]>>
  <2>1. SubSeq(t, 1, i + 1) = SubSeq(t, 1, (i + 1) - 1) \o <<t[i + 1]>>
    BY <1>1, SubSeqRecursiveSecond
  <2> QED
    BY <1>1, <2>1
<1>3. u \in Seq(S) /\ t[i + 1] \in S
  BY <1>1
<1> HIDE DEF u
<1>4. <<t[i + 1]>> \in Seq(S)
  BY <1>3
<1>5. s \o (u \o <<t[i + 1]>>) = (s \o u) \o <<t[i + 1]>>
  BY <1>3, <1>4, ConcatAssociative
<1>6. s \o u \in Seq(S)
  BY <1>3
<1>7. (s \o u) \o <<t[i + 1]>> = Append(s \o u, t[i + 1])
  BY <1>3, <1>6
<1> QED
  BY <1>2, <1>5, <1>7 DEF u

\* Appending is laying one element after.
LEMMA ConcatOne ==
    ASSUME NEW S, NEW s \in Seq(S), NEW e \in S
    PROVE  s \o <<e>> = Append(s, e)
OBVIOUS

\* A part of a unit is a string of numbers.
LEMMA UptoTyped ==
    ASSUME NEW nalu \in Seq(Bytes), Len(nalu) > MTU, NEW i \in 1 .. Count(nalu)
    PROVE  Upto(nalu, i) \in Seq(Nat)
<1>1. End(nalu, i) \in Nat /\ End(nalu, i) + 1 <= Len(nalu)
  BY EndBounds DEF Data
<1>2. SubSeq(nalu, 1, End(nalu, i) + 1) \in Seq(Bytes)
  BY <1>1
<1> QED
  BY <1>2, BytesNat DEF Upto

\* Fragment by fragment, the receiver has the unit together.
LEMMA GotFragments ==
    ASSUME NEW out \in Seq(Packets), Got(out) \in Arrived,
           NEW nalu \in Seq(Bytes), Len(nalu) > MTU, nalu[1] < 128
    PROVE  Got(out \o Fragments(nalu)) = [nalus |-> Append(Got(out).nalus, nalu), unit |-> <<>>]
<1> DEFINE F == Fragments(nalu)
           n == Count(nalu)
           g == Got(out)
           after(i) == out \o SubSeq(F, 1, i)
           read(i) == IF i = n THEN [nalus |-> Append(g.nalus, nalu), unit |-> <<>>]
                      ELSE [nalus |-> g.nalus, unit |-> Upto(nalu, i)]
           S == {i \in Nat : i \in 1 .. n => Got(after(i)) = read(i)}
<1>1. F \in Seq(Packets) /\ Len(F) = n /\ n \in Nat /\ n > 1
  <2>1. F \in Seq(Packets)
    BY FragmentsFit
  <2>2. DOMAIN F = 1 .. n
    BY FragmentsKeepUnit
  <2>3. n \in Nat /\ n > 1
    BY CountBounds
  <2> QED
    BY <2>1, <2>2, <2>3
<1>2. g.nalus \in Seq(Seq(Nat)) /\ nalu \in Seq(Nat)
  BY BytesNat, ArrivedIs
<1> HIDE DEF F, n, g
<1>3. \A i \in 0 .. n - 1 : after(i) \in Seq(Packets) /\ F[i + 1] \in Packets
                              /\ after(i + 1) = Append(after(i), F[i + 1])
  <2> SUFFICES ASSUME NEW i \in 0 .. n - 1
               PROVE  after(i) \in Seq(Packets) /\ F[i + 1] \in Packets
                      /\ after(i + 1) = Append(after(i), F[i + 1])
    OBVIOUS
  <2>1. i + 1 \in 1 .. Len(F) /\ i \in 0 .. Len(F) /\ i \in 0 .. Len(F) - 1
    BY <1>1
  <2>2. F[i + 1] \in Packets
    BY <1>1, <2>1
  <2>3. SubSeq(F, 1, i) \in Seq(Packets)
    BY <1>1, <2>1
  <2>4. after(i) \in Seq(Packets)
    BY <2>3
  <2> QED
    BY <1>1, <2>1, <2>2, <2>4, ConcatNext
<1>4. after(0) = out
  <2>1. SubSeq(F, 1, 0) = <<>>
    OBVIOUS
  <2> QED
    BY <2>1
<1>5. after(n) = out \o F
  BY <1>1, SubSeqFull
<1>6. \A i \in 1 .. n : read(i) \in Arrived
  <2> SUFFICES ASSUME NEW i \in 1 .. n PROVE read(i) \in Arrived
    OBVIOUS
  <2>1. Upto(nalu, i) \in Seq(Nat)
    BY UptoTyped DEF n
  <2>2. Append(g.nalus, nalu) \in Seq(Seq(Nat)) /\ <<>> \in Seq(Nat)
    BY <1>2
  <2>3. CASE i = n
    <3>1. read(i) = [nalus |-> Append(g.nalus, nalu), unit |-> <<>>]
      BY <2>3
    <3> QED
      BY <2>2, <3>1 DEF Arrived
  <2>4. CASE i # n
    <3>1. read(i) = [nalus |-> g.nalus, unit |-> Upto(nalu, i)]
      BY <2>4
    <3> QED
      BY <1>2, <2>1, <3>1 DEF Arrived
  <2> QED
    BY <2>3, <2>4
<1> HIDE DEF after
<1>7. ASSUME NEW i \in 1 .. n, NEW r \in Arrived, r.nalus = g.nalus,
             i > 1 => r.unit = Upto(nalu, i - 1)
      PROVE  Depacketize(r, F[i]) = read(i)
  <2>1. Depacketize(r, F[i]) =
            IF i = n THEN [nalus |-> Append(r.nalus, nalu), unit |-> <<>>]
            ELSE [nalus |-> r.nalus, unit |-> Upto(nalu, i)]
    BY <1>7, TakesFragment DEF F, n
  <2> QED
    BY <1>7, <2>1
<1>8. 0 \in S
  OBVIOUS
<1>9. ASSUME NEW i \in S PROVE i + 1 \in S
  <2> SUFFICES ASSUME i + 1 \in 1 .. n PROVE Got(after(i + 1)) = read(i + 1)
    OBVIOUS
  <2>1. i \in 0 .. n - 1 /\ i \in Nat
    BY <1>1
  <2>2. CASE i = 0
    <3>1. Got(after(i)) = g /\ g \in Arrived
      BY <1>4, <2>2 DEF g
    <3>2. Got(after(i + 1)) = Depacketize(g, F[i + 1])
      BY <1>3, <2>1, <3>1, GotAppend
    <3>3. ~ (i + 1 > 1) /\ g.nalus = g.nalus
      BY <2>2
    <3> HIDE DEF read, S
    <3>4. Depacketize(g, F[i + 1]) = read(i + 1)
      BY <1>7, <3>1, <3>3, Zenon
    <3> QED
      BY <3>2, <3>4
  <2>3. CASE i # 0
    <3>1. i \in 1 .. n /\ i # n /\ (i + 1) - 1 = i
      BY <1>1, <2>1, <2>3
    <3>2. Got(after(i)) = [nalus |-> g.nalus, unit |-> Upto(nalu, i)]
      BY <3>1
    <3>3. Got(after(i)) \in Arrived
      BY <1>6, <3>1
    <3>4. Got(after(i)).nalus = g.nalus /\ Got(after(i)).unit = Upto(nalu, i)
      BY <3>2
    <3>5. Got(after(i + 1)) = Depacketize(Got(after(i)), F[i + 1])
      BY <1>3, <2>1, <3>3, GotAppend
    <3> HIDE DEF read
    <3>6. Depacketize(Got(after(i)), F[i + 1]) = read(i + 1)
      BY <1>7, <3>1, <3>3, <3>4
    <3> QED
      BY <3>5, <3>6
  <2> QED
    BY <2>2, <2>3
<1>10. S = Nat
  <2> HIDE DEF S
  <2>1. S \in SUBSET Nat
    BY DEF S
  <2> QED
    BY <1>8, <1>9, <2>1, Induction
<1>11. Got(after(n)) = read(n)
  <2>1. n \in S /\ n \in 1 .. n
    <3> HIDE DEF S
    <3> QED
      BY <1>1, <1>10
  <2> QED
    BY <2>1
<1> QED
  BY <1>5, <1>11 DEF F, g

\* The sets that are sent before a unit.
Sets(p) ==
    IF (p.sps # <<>> /\ p.pps # <<>>) /\ PairFits(p.sps, p.pps) THEN <<p.sps, p.pps>> ELSE <<>>

\* An aggregate that is sent fits in a packet.
LEMMA AggregateFits ==
    ASSUME NEW sps \in Seq(Bytes), NEW pps \in Seq(Bytes), PairFits(sps, pps)
    PROVE  Aggregate(sps, pps) \in Packets
<1>1. sps \in Seq(Nat) /\ pps \in Seq(Nat)
  BY BytesNat
<1>2. Len(Aggregate(sps, pps)) = 5 + Len(sps) + Len(pps) /\ Aggregate(sps, pps) \in Seq(Nat)
  BY <1>1, AggregateReads, AggregateTyped
<1>3. Len(sps) \in Nat /\ Len(pps) \in Nat
  OBVIOUS
<1>4. Len(Aggregate(sps, pps)) \in 1 .. MTU
  BY <1>2, <1>3, MTUPositive DEF PairFits
<1> QED
  BY <1>2, <1>4 DEF Packets

\* With or without the sets, and whole or not, a slice is received.
LEMMA GotSlice ==
    ASSUME NEW p \in Held, Got(p.out) \in Arrived,
           NEW nalu \in Seq(Bytes), nalu # <<>>, nalu[1] < 128, Type(nalu) < StapA
    PROVE  /\ Got(p.out \o Pair(p) \o Whole(nalu)) \in Arrived
           /\ Got(p.out \o Pair(p) \o Whole(nalu)).nalus
                  = Append(Got(p.out).nalus \o Sets(p), nalu)
<1> DEFINE out == p.out \o Pair(p)
           g == Got(p.out)
<1>1. p.sps \in Seq(Bytes) /\ p.pps \in Seq(Bytes) /\ p.out \in Seq(Packets)
  BY DEF Held
<1>2. nalu \in Seq(Nat) /\ p.sps \in Seq(Nat) /\ p.pps \in Seq(Nat)
      /\ g.nalus \in Seq(Seq(Nat)) /\ g.unit \in Seq(Nat)
  BY <1>1, BytesNat, ArrivedIs
<1>3. out \in Seq(Packets) /\ Got(out) \in Arrived /\ Got(out).nalus = g.nalus \o Sets(p)
  <2>1. CASE (p.sps # <<>> /\ p.pps # <<>>) /\ PairFits(p.sps, p.pps)
    <3> DEFINE a == Aggregate(p.sps, p.pps)
    <3>1. a \in Packets
      BY <1>1, <2>1, AggregateFits
    <3>2. Pair(p) = <<a>> /\ Sets(p) = <<p.sps, p.pps>>
      BY <2>1 DEF Pair, Sets
    <3>3. Depacketize(g, a) = [nalus |-> g.nalus \o <<p.sps, p.pps>>, unit |-> g.unit]
      BY <1>2, <2>1, TakesPair
    <3> HIDE DEF a, g
    <3>4. out = Append(p.out, a)
      BY <1>1, <3>1, <3>2, ConcatOne
    <3>5. out \in Seq(Packets)
      BY <1>1, <3>1, <3>4
    <3>6. Got(out) = Depacketize(g, a)
      BY <1>1, <3>1, <3>4, GotAppend DEF g
    <3>7. g.nalus \o <<p.sps, p.pps>> \in Seq(Seq(Nat))
      BY <1>2
    <3>8. Got(out) = [nalus |-> g.nalus \o <<p.sps, p.pps>>, unit |-> g.unit]
      BY <3>3, <3>6
    <3> HIDE DEF out
    <3>9. Got(out) \in Arrived
      BY <1>2, <3>7, <3>8 DEF Arrived
    <3> QED
      BY <3>2, <3>5, <3>8, <3>9
  <2>2. CASE ~ ((p.sps # <<>> /\ p.pps # <<>>) /\ PairFits(p.sps, p.pps))
    <3>1. Pair(p) = <<>> /\ Sets(p) = <<>>
      BY <2>2 DEF Pair, Sets
    <3>2. out = p.out /\ g.nalus \o <<>> = g.nalus
      BY <1>1, <1>2, <3>1
    <3> QED
      BY <1>1, <3>1, <3>2
  <2> QED
    BY <2>1, <2>2
<1> HIDE DEF out
<1>4. Len(nalu) \in Nat /\ Len(nalu) > 0
  OBVIOUS
<1>5. CASE Len(nalu) <= MTU
  <2>1. nalu \in Packets
    BY <1>2, <1>4, <1>5, MTUPositive DEF Packets
  <2>2. Whole(nalu) = <<nalu>>
    BY <1>5 DEF Whole
  <2>3. out \o Whole(nalu) = Append(out, nalu)
    BY <1>3, <2>1, <2>2, ConcatOne
  <2>4. Type(nalu) \in 0 .. StapA - 1
    <3>1. nalu[1] \in Bytes
      BY <1>4
    <3>2. Type(nalu) \in Nat
      BY <3>1, OctetTypes DEF Type
    <3> DEFINE t == Type(nalu)
    <3>3. t \in Nat /\ t < StapA
      BY <3>2
    <3> HIDE DEF t
    <3>4. t \in 0 .. StapA - 1
      BY <3>3 DEF StapA
    <3> QED
      BY <3>4 DEF t
  <2>5. Got(out \o Whole(nalu)) = [nalus |-> Append(Got(out).nalus, nalu), unit |-> Got(out).unit]
    <3>1. Got(Append(out, nalu)) = Depacketize(Got(out), nalu)
      BY <1>3, <2>1, GotAppend
    <3>2. Depacketize(Got(out), nalu) = [nalus |-> Append(Got(out).nalus, nalu), unit |-> Got(out).unit]
      BY <1>3, <2>4, TakesWhole
    <3> QED
      BY <2>3, <3>1, <3>2
  <2>6. Got(out).nalus \in Seq(Seq(Nat)) /\ Got(out).unit \in Seq(Nat)
    <3>1. Got(out) \in Arrived
      BY <1>3
    <3> QED
      BY <3>1, ArrivedIs
  <2>7. Append(Got(out).nalus, nalu) \in Seq(Seq(Nat))
    BY <1>2, <2>6
  <2>8. Got(out \o Whole(nalu)) \in Arrived
    BY <2>5, <2>6, <2>7 DEF Arrived
  <2> QED
    BY <1>3, <2>5, <2>8 DEF out
<1>6. CASE ~ (Len(nalu) <= MTU)
  <2>1. Len(nalu) > MTU
    BY <1>4, <1>6, MTUPositive
  <2>2. Whole(nalu) = Fragments(nalu)
    BY <1>6 DEF Whole
  <2>3. Got(out \o Whole(nalu)) = [nalus |-> Append(Got(out).nalus, nalu), unit |-> <<>>]
    BY <1>3, <2>1, <2>2, GotFragments
  <2>4. Got(out).nalus \in Seq(Seq(Nat)) /\ <<>> \in Seq(Nat)
    <3>1. Got(out) \in Arrived
      BY <1>3
    <3>2. Got(out).nalus \in Seq(Seq(Nat))
      BY <3>1, ArrivedIs
    <3> QED
      BY <3>2
  <2>5. Append(Got(out).nalus, nalu) \in Seq(Seq(Nat))
    BY <1>2, <2>4
  <2>6. Got(out \o Whole(nalu)) \in Arrived
    BY <2>3, <2>4, <2>5 DEF Arrived
  <2> QED
    BY <1>3, <2>3, <2>6 DEF out
<1> QED
  BY <1>5, <1>6

-----------------------------------------------------------------------------
(* Decoders.                                                               *)

\* As Decode notes it: the sets came without their pair or exceed a packet.
Lost(pair) ==
    /\ pair.sps # <<>> \/ pair.pps # <<>>
    /\ \/ pair.sps = <<>> \/ pair.pps = <<>>
       \/ Len(Aggregate(pair.sps, pair.pps)) > MTU

\* A slice as a decoder notes it.
Noted(d, nalu) == [nalu |-> nalu, sps |-> d.sps, pps |-> d.pps, lost |-> Lost(d.last)]

\* The decoder as a fold over units.
DecodeStep == [e \in Decoders |-> [nalu \in Seq(Nat) |-> Decode(e, nalu)]]

\* Decoded is that fold.
LEMMA DecodedIs == ASSUME NEW d, NEW s PROVE Decoded(d, s) = Fold(DecodeStep, d, s)
BY Zenon DEF Decoded, DecodeStep

\* Nothing changes nothing.
LEMMA DecodedNone == ASSUME NEW d PROVE Decoded(d, <<>>) = d
BY DecodedIs, FoldNone

\* One more unit is one more step.
LEMMA DecodedAppend ==
    ASSUME NEW d, NEW s \in Seq(Seq(Nat)), NEW nalu \in Seq(Nat), Decoded(d, s) \in Decoders
    PROVE  Decoded(d, Append(s, nalu)) = Decode(Decoded(d, s), nalu)
<1>1. Fold(DecodeStep, d, Append(s, nalu)) = DecodeStep[Fold(DecodeStep, d, s)][nalu]
  BY FoldAppend
<1>2. Decoded(d, Append(s, nalu)) = DecodeStep[Decoded(d, s)][nalu]
  BY <1>1, DecodedIs
<1> QED
  BY <1>2, Zenon DEF DecodeStep

\* The parts of a decoder's state.
LEMMA DecoderIs ==
    ASSUME NEW d \in Decoders
    PROVE  /\ d = [sps |-> d.sps, pps |-> d.pps, last |-> d.last, open |-> d.open, slices |-> d.slices]
           /\ d.sps \in Seq(Nat) /\ d.pps \in Seq(Nat) /\ d.open \in BOOLEAN
           /\ d.last \in Pairs /\ d.last.sps \in Seq(Nat) /\ d.last.pps \in Seq(Nat)
           /\ d.slices \in Seq([nalu : Seq(Nat), sps : Seq(Nat), pps : Seq(Nat), lost : BOOLEAN])
BY DEF Decoders, Pairs

\* Decode by the unit's type.
LEMMA DecodeCases ==
    ASSUME NEW d \in Decoders, NEW nalu
    PROVE  LET new == Decode(d, nalu)
           IN /\ Other(nalu) => new = d
              /\ ~ Other(nalu) /\ Type(nalu) = SPS =>
                    new = [sps |-> nalu, pps |-> d.pps,
                           last |-> [sps |-> nalu, pps |-> IF d.open THEN d.last.pps ELSE <<>>],
                           open |-> TRUE, slices |-> d.slices]
              /\ ~ Other(nalu) /\ Type(nalu) = PPS =>
                    new = [sps |-> d.sps, pps |-> nalu,
                           last |-> [sps |-> IF d.open THEN d.last.sps ELSE <<>>, pps |-> nalu],
                           open |-> TRUE, slices |-> d.slices]
              /\ Slice(nalu) =>
                    new = [sps |-> d.sps, pps |-> d.pps, last |-> d.last, open |-> FALSE,
                           slices |-> Append(d.slices, Noted(d, nalu))]
<1>1. d = [sps |-> d.sps, pps |-> d.pps, last |-> d.last, open |-> d.open, slices |-> d.slices]
  BY DecoderIs
<1>2. CASE Other(nalu)
  BY <1>2 DEF Decode, Other, Slice
<1>3. CASE ~ Other(nalu) /\ Type(nalu) = SPS
  <2>1. Type(nalu) # PPS /\ ~ Slice(nalu)
    BY <1>3 DEF SPS, PPS, Slice
  <2>2. Decode(d, nalu) =
            [d EXCEPT !.sps = nalu, !.open = TRUE,
                      !.last = [sps |-> nalu, pps |-> IF d.open THEN d.last.pps ELSE <<>>]]
    BY <1>3 DEF Decode, Other
  <2> QED
    BY <1>1, <1>3, <2>1, <2>2
<1>4. CASE ~ Other(nalu) /\ Type(nalu) = PPS
  <2>1. Type(nalu) # SPS /\ ~ Slice(nalu)
    BY <1>4 DEF SPS, PPS, Slice
  <2>2. Decode(d, nalu) =
            [d EXCEPT !.pps = nalu, !.open = TRUE,
                      !.last = [sps |-> IF d.open THEN d.last.sps ELSE <<>>, pps |-> nalu]]
    BY <1>4, <2>1 DEF Decode, Other
  <2> QED
    BY <1>1, <1>4, <2>1, <2>2
<1>5. CASE Slice(nalu)
  <2>1. ~ Other(nalu) /\ Type(nalu) # SPS /\ Type(nalu) # PPS
    BY <1>5 DEF Slice
  <2>2. Decode(d, nalu) = [d EXCEPT !.open = FALSE, !.slices = Append(d.slices, Noted(d, nalu))]
    BY <2>1 DEF Decode, Other, Noted, Lost
  <2> QED
    BY <1>1, <1>5, <2>1, <2>2
<1> QED
  BY <1>2, <1>3, <1>4, <1>5 DEF Slice

\* It stays a decoder's state.
LEMMA DecodeTyped ==
    ASSUME NEW d \in Decoders, NEW nalu \in Seq(Nat)
    PROVE  Decode(d, nalu) \in Decoders
<1> DEFINE N == Noted(d, nalu)
           R == [nalu : Seq(Nat), sps : Seq(Nat), pps : Seq(Nat), lost : BOOLEAN]
<1>1. /\ d.sps \in Seq(Nat) /\ d.pps \in Seq(Nat) /\ d.open \in BOOLEAN
      /\ d.last \in Pairs /\ d.last.sps \in Seq(Nat) /\ d.last.pps \in Seq(Nat)
      /\ d.slices \in Seq(R) /\ <<>> \in Seq(Nat)
  BY DecoderIs
<1>2. Other(nalu) \/ (~ Other(nalu) /\ Type(nalu) = SPS) \/ (~ Other(nalu) /\ Type(nalu) = PPS)
      \/ Slice(nalu)
  BY DEF Slice
<1>3. CASE Other(nalu)
  BY <1>3, DecodeCases
<1>4. CASE ~ Other(nalu) /\ Type(nalu) = SPS
  <2> DEFINE last == [sps |-> nalu, pps |-> IF d.open THEN d.last.pps ELSE <<>>]
  <2>1. Decode(d, nalu) = [sps |-> nalu, pps |-> d.pps, last |-> last, open |-> TRUE, slices |-> d.slices]
    BY <1>4, DecodeCases
  <2>2. last \in Pairs
    BY <1>1 DEF Pairs
  <2> HIDE DEF last
  <2> QED
    BY <1>1, <2>1, <2>2 DEF Decoders
<1>5. CASE ~ Other(nalu) /\ Type(nalu) = PPS
  <2> DEFINE last == [sps |-> IF d.open THEN d.last.sps ELSE <<>>, pps |-> nalu]
  <2>1. Decode(d, nalu) = [sps |-> d.sps, pps |-> nalu, last |-> last, open |-> TRUE, slices |-> d.slices]
    BY <1>5, DecodeCases
  <2>2. last \in Pairs
    BY <1>1 DEF Pairs
  <2> HIDE DEF last
  <2> QED
    BY <1>1, <2>1, <2>2 DEF Decoders
<1>6. CASE Slice(nalu)
  <2>1. Decode(d, nalu) = [sps |-> d.sps, pps |-> d.pps, last |-> d.last, open |-> FALSE,
                           slices |-> Append(d.slices, N)]
    BY <1>6, DecodeCases
  <2>2. Lost(d.last) \in BOOLEAN
    BY DEF Lost
  <2>3. N \in R
    BY <1>1, <2>2 DEF Noted
  <2> HIDE DEF N
  <2>4. Append(d.slices, N) \in Seq(R)
    BY <1>1, <2>3
  <2> QED
    BY <1>1, <2>1, <2>4 DEF Decoders
<1> QED
  BY <1>2, <1>3, <1>4, <1>5, <1>6

\* Sets that wait are what they are taken for.
SetsTyped(p) == (p.sps # <<>> => Type(p.sps) = SPS) /\ (p.pps # <<>> => Type(p.pps) = PPS)

\* A decoder when the sets that are sent before a slice have reached it.
WithSets(r, p) == IF Sets(p) = <<>> THEN r ELSE Decode(Decode(r, p.sps), p.pps)

\* It has them, and its slices are the same.
LEMMA WithSetsIs ==
    ASSUME NEW r \in Decoders, NEW p \in Held, SetsTyped(p)
    PROVE  /\ WithSets(r, p) \in Decoders /\ WithSets(r, p).slices = r.slices
           /\ Sets(p) = <<>> => WithSets(r, p).sps = r.sps /\ WithSets(r, p).pps = r.pps
           /\ Sets(p) # <<>> => WithSets(r, p).sps = p.sps /\ WithSets(r, p).pps = p.pps
<1>1. CASE Sets(p) = <<>>
  BY <1>1 DEF WithSets
<1>2. CASE Sets(p) # <<>>
  <2>1. p.sps # <<>> /\ p.pps # <<>>
    BY <1>2 DEF Sets
  <2>2. p.sps \in Seq(Nat) /\ p.pps \in Seq(Nat)
    BY BytesNat DEF Held
  <2>3. ~ Other(p.sps) /\ Type(p.sps) = SPS /\ ~ Other(p.pps) /\ Type(p.pps) = PPS
    BY <2>1 DEF SetsTyped, Other, SPS, PPS, Skipped
  <2> DEFINE e == Decode(r, p.sps)
             f == Decode(e, p.pps)
  <2>4. e \in Decoders /\ e.sps = p.sps /\ e.slices = r.slices
    BY <2>2, <2>3, DecodeTyped, DecodeCases
  <2> HIDE DEF e
  <2>5. f \in Decoders /\ f.sps = e.sps /\ f.pps = p.pps /\ f.slices = e.slices
    BY <2>2, <2>3, <2>4, DecodeTyped, DecodeCases
  <2> QED
    BY <1>2, <2>4, <2>5 DEF WithSets, e
<1> QED
  BY <1>1, <1>2

\* A decoder takes the sets that are sent, then the slice.
LEMMA DecodedSlice ==
    ASSUME NEW d, NEW s \in Seq(Seq(Nat)), Decoded(d, s) \in Decoders,
           NEW p \in Held, SetsTyped(p), NEW nalu \in Seq(Nat)
    PROVE  Decoded(d, Append(s \o Sets(p), nalu)) = Decode(WithSets(Decoded(d, s), p), nalu)
<1> DEFINE r == Decoded(d, s)
           t == s \o Sets(p)
<1>1. p.sps \in Seq(Nat) /\ p.pps \in Seq(Nat)
  BY BytesNat DEF Held
<1>2. t \in Seq(Seq(Nat)) /\ Decoded(d, t) = WithSets(r, p)
  <2>1. CASE Sets(p) = <<>>
    <3>1. t = s
      BY <2>1
    <3> QED
      BY <2>1, <3>1 DEF WithSets
  <2>2. CASE Sets(p) # <<>>
    <3>1. Sets(p) = <<p.sps, p.pps>>
      BY <2>2 DEF Sets
    <3>2. s \o <<p.sps, p.pps>> = Append(Append(s, p.sps), p.pps)
      BY <1>1
    <3>3. Append(s, p.sps) \in Seq(Seq(Nat)) /\ Append(Append(s, p.sps), p.pps) \in Seq(Seq(Nat))
      BY <1>1
    <3>4. Decoded(d, Append(s, p.sps)) = Decode(r, p.sps)
      BY <1>1, DecodedAppend
    <3>5. Decode(r, p.sps) \in Decoders
      BY <1>1, DecodeTyped
    <3>6. Decoded(d, Append(Append(s, p.sps), p.pps)) = Decode(Decode(r, p.sps), p.pps)
      BY <1>1, <3>3, <3>4, <3>5, DecodedAppend
    <3> HIDE DEF r
    <3> QED
      BY <2>2, <3>1, <3>2, <3>3, <3>6 DEF WithSets
  <2> QED
    BY <2>1, <2>2
<1>3. WithSets(r, p) \in Decoders
  BY WithSetsIs
<1> HIDE DEF t, r
<1>4. Decoded(d, Append(t, nalu)) = Decode(Decoded(d, t), nalu)
  BY <1>2, <1>3, DecodedAppend
<1> QED
  BY <1>2, <1>4 DEF t, r

-----------------------------------------------------------------------------
(* What the receiver's decoder has of the encoder's.                       *)

\* A slice has arrived, with the sets that were meant unless they were lost.
Alike(meant, held) ==
    /\ held.nalu = meant.nalu
    /\ meant.lost \/ (held.sps = meant.sps /\ held.pps = meant.pps)

\* So have all.
SameSlices(d, r) ==
    /\ Len(r.slices) = Len(d.slices)
    /\ \A k \in 1 .. Len(d.slices) : Alike(d.slices[k], r.slices[k])

\* The sets that came since the last slice wait in the payloader; after it, not
\* both wait, and the receiver has those in force unless they were lost.
Tracks(d, r, p) ==
    /\ SetsTyped(p)
    /\ d.open => /\ d.last.sps # <<>> \/ d.last.pps # <<>>
                 /\ d.last.sps # <<>> => d.last.sps = p.sps /\ d.sps = p.sps
                 /\ d.last.pps # <<>> => d.last.pps = p.pps /\ d.pps = p.pps
    /\ ~ d.open => /\ p.sps = <<>> \/ p.pps = <<>>
                   /\ Lost(d.last) \/ (r.sps = d.sps /\ r.pps = d.pps)

\* A slice added to both.
LEMMA SameSlicesStep ==
    ASSUME NEW d \in Decoders, NEW r \in Decoders, SameSlices(d, r), NEW x, NEW y, Alike(x, y),
           NEW e, NEW f, e.slices = Append(d.slices, x), f.slices = Append(r.slices, y)
    PROVE  SameSlices(e, f)
<1> DEFINE s == d.slices
           t == r.slices
           n == Len(s)
           R == [nalu : Seq(Nat), sps : Seq(Nat), pps : Seq(Nat), lost : BOOLEAN]
<1>1. s \in Seq(R) /\ t \in Seq(R)
  BY DecoderIs
<1>2. Len(t) = n /\ \A k \in 1 .. n : Alike(s[k], t[k])
  BY DEF SameSlices
<1>3. e.slices = Append(s, x) /\ f.slices = Append(t, y)
  OBVIOUS
<1> HIDE DEF s, t, R
<1>4. n \in Nat /\ Len(Append(s, x)) = n + 1 /\ Len(Append(t, y)) = n + 1
  BY <1>1, <1>2
<1>5. /\ \A k \in 1 .. n : Append(s, x)[k] = s[k] /\ Append(t, y)[k] = t[k]
      /\ Append(s, x)[n + 1] = x /\ Append(t, y)[n + 1] = y
  BY <1>1, <1>2
<1> HIDE DEF n
<1>6. \A k \in 1 .. n + 1 : k \in 1 .. n \/ k = n + 1
  BY <1>4
<1>7. \A k \in 1 .. n + 1 : Alike(Append(s, x)[k], Append(t, y)[k])
  BY <1>2, <1>5, <1>6
<1> QED
  BY <1>3, <1>4, <1>7 DEF SameSlices

\* Unless they were lost, the sets the encoder meant are in force at a slice.
LEMMA InForceAtSlice ==
    ASSUME NEW d \in Decoders, NEW r \in Decoders, NEW p \in Held, Tracks(d, r, p)
    PROVE  Lost(d.last) \/ (WithSets(r, p).sps = d.sps /\ WithSets(r, p).pps = d.pps)
<1> SUFFICES ASSUME ~ Lost(d.last) PROVE WithSets(r, p).sps = d.sps /\ WithSets(r, p).pps = d.pps
  OBVIOUS
<1>1. SetsTyped(p)
  BY DEF Tracks
<1>2. CASE d.open
  <2>1. d.last.sps # <<>> /\ d.last.pps # <<>>
        /\ ~ (Len(Aggregate(d.last.sps, d.last.pps)) > MTU)
    BY <1>2 DEF Tracks, Lost
  <2>2. d.last.sps = p.sps /\ d.last.pps = p.pps /\ d.sps = p.sps /\ d.pps = p.pps
    BY <1>2, <2>1 DEF Tracks
  <2>3. Len(Aggregate(p.sps, p.pps)) \in Nat
    <3>1. p.sps \in Seq(Nat) /\ p.pps \in Seq(Nat)
      BY BytesNat DEF Held
    <3>2. Aggregate(p.sps, p.pps) \in Seq(Nat)
      BY <3>1, AggregateTyped
    <3> QED
      BY <3>2
  <2>4. PairFits(p.sps, p.pps)
    BY <2>1, <2>2, <2>3, MTUPositive DEF PairFits
  <2>5. Sets(p) = <<p.sps, p.pps>>
    BY <2>1, <2>2, <2>4 DEF Sets
  <2>6. <<p.sps, p.pps>> # <<>>
    OBVIOUS
  <2> QED
    BY <1>1, <2>2, <2>5, <2>6, WithSetsIs
<1>3. CASE ~ d.open
  <2>1. Sets(p) = <<>> /\ r.sps = d.sps /\ r.pps = d.pps
    BY <1>3 DEF Tracks, Sets
  <2> QED
    BY <1>1, <2>1, WithSetsIs
<1> QED
  BY <1>2, <1>3

\* Between two units of a sample: the decoder at the encoder, and the receiver's
\* when it has what the payloader has put out.
Related(d, r0, p) ==
    LET r == Decoded(r0, Got(p.out).nalus)
    IN /\ p \in Held /\ Got(p.out) \in Arrived
       /\ d \in Decoders /\ r \in Decoders
       /\ SameSlices(d, r) /\ Tracks(d, r, p)

\* Every unit keeps it, whichever it is.
LEMMA RelatedStep ==
    ASSUME NEW d, NEW r0, NEW p, Related(d, r0, p), NEW nalu \in Seq(Bytes),
           nalu # <<>> => nalu[1] < 128 /\ Type(nalu) < StapA
    PROVE  Related(Decode(d, nalu), r0, PayloadNalu(p, nalu))
<1> DEFINE r == Decoded(r0, Got(p.out).nalus)
           d2 == Decode(d, nalu)
           p2 == PayloadNalu(p, nalu)
           r2 == Decoded(r0, Got(p2.out).nalus)
<1>1. /\ p \in Held /\ Got(p.out) \in Arrived /\ d \in Decoders /\ r \in Decoders
      /\ SameSlices(d, r) /\ Tracks(d, r, p)
  BY DEF Related
<1>2. p2 \in Held /\ d2 \in Decoders /\ nalu \in Seq(Nat)
  BY <1>1, PayloadsFit, DecodeTyped, BytesNat DEF Held
<1>3. SetsTyped(p)
  BY <1>1 DEF Tracks
<1> SUFFICES Got(p2.out) \in Arrived /\ r2 \in Decoders /\ SameSlices(d2, r2) /\ Tracks(d2, r2, p2)
  BY <1>2 DEF Related
<1>4. Other(nalu) \/ (~ Other(nalu) /\ Type(nalu) = SPS) \/ (~ Other(nalu) /\ Type(nalu) = PPS)
      \/ Slice(nalu)
  BY DEF Slice
<1>5. CASE Other(nalu)
  <2>1. p2 = p /\ d2 = d
    BY <1>1, <1>5, PayloadCases, DecodeCases
  <2> HIDE DEF p2, d2
  <2> QED
    BY <1>1, <2>1
<1>6. CASE ~ Other(nalu) /\ Type(nalu) = SPS
  <2>1. p2 = [sps |-> nalu, pps |-> p.pps, out |-> p.out]
    BY <1>1, <1>6, PayloadCases
  <2>2. d2 = [sps |-> nalu, pps |-> d.pps,
              last |-> [sps |-> nalu, pps |-> IF d.open THEN d.last.pps ELSE <<>>],
              open |-> TRUE, slices |-> d.slices]
    BY <1>1, <1>6, DecodeCases
  <2>3. nalu # <<>>
    BY <1>6 DEF Other
  <2> HIDE DEF p2, d2
  <2>4. p2.sps = nalu /\ p2.pps = p.pps /\ p2.out = p.out
    BY <2>1
  <2>5. /\ d2.sps = nalu /\ d2.pps = d.pps /\ d2.open = TRUE /\ d2.slices = d.slices
        /\ d2.last.sps = nalu /\ d2.last.pps = IF d.open THEN d.last.pps ELSE <<>>
    BY <2>2
  <2>6. Got(p2.out) \in Arrived /\ r2 = r
    BY <1>1, <2>4
  <2>7. SetsTyped(p2)
    BY <1>3, <1>6, <2>4 DEF SetsTyped
  <2>8. Tracks(d2, r2, p2)
    BY <1>1, <2>3, <2>4, <2>5, <2>7 DEF Tracks
  <2>9. SameSlices(d2, r2)
    BY <1>1, <2>5, <2>6 DEF SameSlices
  <2> QED
    BY <1>1, <2>6, <2>8, <2>9
<1>7. CASE ~ Other(nalu) /\ Type(nalu) = PPS
  <2>1. p2 = [sps |-> p.sps, pps |-> nalu, out |-> p.out]
    BY <1>1, <1>7, PayloadCases
  <2>2. d2 = [sps |-> d.sps, pps |-> nalu,
              last |-> [sps |-> IF d.open THEN d.last.sps ELSE <<>>, pps |-> nalu],
              open |-> TRUE, slices |-> d.slices]
    BY <1>1, <1>7, DecodeCases
  <2>3. nalu # <<>>
    BY <1>7 DEF Other
  <2> HIDE DEF p2, d2
  <2>4. p2.sps = p.sps /\ p2.pps = nalu /\ p2.out = p.out
    BY <2>1
  <2>5. /\ d2.sps = d.sps /\ d2.pps = nalu /\ d2.open = TRUE /\ d2.slices = d.slices
        /\ d2.last.pps = nalu /\ d2.last.sps = IF d.open THEN d.last.sps ELSE <<>>
    BY <2>2
  <2>6. Got(p2.out) \in Arrived /\ r2 = r
    BY <1>1, <2>4
  <2>7. SetsTyped(p2)
    BY <1>3, <1>7, <2>4 DEF SetsTyped
  <2>8. Tracks(d2, r2, p2)
    BY <1>1, <2>3, <2>4, <2>5, <2>7 DEF Tracks
  <2>9. SameSlices(d2, r2)
    BY <1>1, <2>5, <2>6 DEF SameSlices
  <2> QED
    BY <1>1, <2>6, <2>8, <2>9
<1>8. CASE Slice(nalu)
  <2> DEFINE f == WithSets(r, p)
             g == Got(p.out).nalus
             both == p.sps # <<>> /\ p.pps # <<>>
  <2>1. nalu # <<>> /\ nalu[1] < 128 /\ Type(nalu) < StapA
    BY <1>8 DEF Slice, Other
  <2>2. p2 = [sps |-> IF both THEN <<>> ELSE p.sps, pps |-> IF both THEN <<>> ELSE p.pps,
              out |-> p.out \o Pair(p) \o Whole(nalu)]
    BY <1>1, <1>8, PayloadCases
  <2>3. d2 = [sps |-> d.sps, pps |-> d.pps, last |-> d.last, open |-> FALSE,
              slices |-> Append(d.slices, Noted(d, nalu))]
    BY <1>1, <1>8, DecodeCases
  <2>4. Got(p2.out) \in Arrived /\ Got(p2.out).nalus = Append(g \o Sets(p), nalu)
    <3>1. p2.out = p.out \o Pair(p) \o Whole(nalu)
      BY <2>2
    <3> QED
      BY <1>1, <2>1, <3>1, GotSlice
  <2>5. g \in Seq(Seq(Nat))
    BY <1>1, ArrivedIs
  <2>6. f \in Decoders /\ f.slices = r.slices
    BY <1>1, <1>3, WithSetsIs
  <2>7. r2 = Decode(f, nalu)
    <3>1. Decoded(r0, Append(g \o Sets(p), nalu)) = Decode(WithSets(r, p), nalu)
      BY <1>1, <1>2, <1>3, <2>5, DecodedSlice
    <3> QED
      BY <2>4, <3>1
  <2>8. Lost(d.last) \/ (f.sps = d.sps /\ f.pps = d.pps)
    BY <1>1, InForceAtSlice
  <2> HIDE DEF f, r2, p2, d2
  <2>9. r2 \in Decoders
    BY <1>2, <2>6, <2>7, DecodeTyped
  <2>10. r2 = [sps |-> f.sps, pps |-> f.pps, last |-> f.last, open |-> FALSE,
               slices |-> Append(f.slices, Noted(f, nalu))]
    BY <1>8, <2>6, <2>7, DecodeCases
  <2>11. /\ d2.slices = Append(d.slices, Noted(d, nalu)) /\ ~ d2.open
         /\ d2.sps = d.sps /\ d2.pps = d.pps /\ d2.last = d.last
    BY <2>3
  <2>12. r2.slices = Append(r.slices, Noted(f, nalu)) /\ r2.sps = f.sps /\ r2.pps = f.pps
    BY <2>6, <2>10
  <2>13. p2.sps = (IF both THEN <<>> ELSE p.sps) /\ p2.pps = (IF both THEN <<>> ELSE p.pps)
    BY <2>2
  <2>14. Alike(Noted(d, nalu), Noted(f, nalu))
    BY <2>8 DEF Alike, Noted
  <2>15. SameSlices(d2, r2)
    <3> HIDE DEF r
    <3> QED
      BY <1>1, <2>11, <2>12, <2>14, SameSlicesStep
  <2>16. SetsTyped(p2)
    BY <1>3, <2>13 DEF SetsTyped
  <2>17. Tracks(d2, r2, p2)
    BY <2>8, <2>11, <2>12, <2>13, <2>16 DEF Tracks
  <2> QED
    BY <2>4, <2>9, <2>15, <2>17 DEF p2
<1> QED
  BY <1>4, <1>5, <1>6, <1>7, <1>8

-----------------------------------------------------------------------------
(* Samples.                                                                *)

\* A sample starts with the sets that wait and nothing put out.
Start(sps, pps) == [sps |-> sps, pps |-> pps, out |-> <<>>]

\* Nothing has arrived before the first payload.
LEMMA GotNone == Got(<<>>) \in Arrived /\ Got(<<>>).nalus = <<>>
<1> DEFINE base == [nalus |-> <<>>, unit |-> <<>>]
<1>1. base \in Arrived /\ base.nalus = <<>>
  BY DEF Arrived
<1> HIDE DEF base
<1>2. Got(<<>>) = base
  BY FoldNone DEF Got, base
<1> QED
  BY <1>1, <1>2

\* What is put out has arrived before the next sample.
LEMMA RelatedAnew ==
    ASSUME NEW d, NEW r0, NEW p, Related(d, r0, p)
    PROVE  Related(d, Decoded(r0, Receive(p.out)), Start(p.sps, p.pps))
<1> DEFINE r == Decoded(r0, Got(p.out).nalus)
           q == Start(p.sps, p.pps)
<1>1. /\ p \in Held /\ Got(p.out) \in Arrived /\ d \in Decoders /\ r \in Decoders
      /\ SameSlices(d, r) /\ Tracks(d, r, p)
  BY DEF Related
<1>2. Decoded(r0, Receive(p.out)) = r
  BY ReceiveIs
<1> HIDE DEF r
<1>3. q.sps = p.sps /\ q.pps = p.pps /\ q.out = <<>> /\ q \in Held
  <2>1. p.sps \in Seq(Bytes) /\ p.pps \in Seq(Bytes) /\ <<>> \in Seq(Packets)
    BY <1>1 DEF Held
  <2> QED
    BY <2>1 DEF Start, Held
<1> HIDE DEF q
<1>4. Tracks(d, r, q)
  BY <1>1, <1>3 DEF Tracks, SetsTyped
<1>5. Decoded(r, Got(q.out).nalus) = r /\ Got(q.out) \in Arrived
  BY <1>3, GotNone, DecodedNone
<1> QED
  BY <1>1, <1>2, <1>3, <1>4, <1>5 DEF Related, q

\* A sample's units, one after another.
LEMMA SampleRelated ==
    ASSUME NEW d, NEW r0, NEW p0, Related(d, r0, p0), NEW U \in Seq(Seq(Bytes)),
           \A k \in 1 .. Len(U) : U[k] # <<>> => U[k][1] < 128 /\ Type(U[k]) < StapA
    PROVE  Related(Decoded(d, U), r0,
                   Fold([p \in Waiting |-> [nalu \in Seq(Nat) |-> PayloadNalu(p, nalu)]], p0, U))
<1> DEFINE step == [p \in Waiting |-> [nalu \in Seq(Nat) |-> PayloadNalu(p, nalu)]]
           upto(k) == SubSeq(U, 1, k)
           Inv == [k \in Nat |-> {p \in Held : Related(Decoded(d, upto(k)), r0, p)}]
           n == Len(U)
<1>1. n \in Nat /\ upto(0) = <<>> /\ upto(n) = U
  BY SubSeqFull
<1>2. ASSUME NEW k \in 0 .. n - 1
      PROVE  /\ upto(k) \in Seq(Seq(Nat)) /\ U[k + 1] \in Seq(Bytes) /\ U[k + 1] \in Seq(Nat)
             /\ upto(k + 1) = Append(upto(k), U[k + 1])
  <2>1. 1 \in 1 .. Len(U) /\ k + 1 \in 1 .. Len(U) /\ k \in 0 .. Len(U) /\ (k + 1) - 1 = k
    OBVIOUS
  <2>2. U[k + 1] \in Seq(Bytes)
    BY <2>1
  <2>3. upto(k) \in Seq(Seq(Bytes))
    BY <2>1
  <2>4. SubSeq(U, 1, k + 1) = SubSeq(U, 1, (k + 1) - 1) \o <<U[k + 1]>>
    BY <2>1, SubSeqRecursiveSecond
  <2>5. upto(k + 1) = upto(k) \o <<U[k + 1]>>
    BY <2>1, <2>4
  <2>6. Seq(Seq(Bytes)) \subseteq Seq(Seq(Nat))
    BY HeldWaits, SeqTyped
  <2> HIDE DEF upto
  <2>7. upto(k + 1) = Append(upto(k), U[k + 1])
    BY <2>2, <2>3, <2>5, ConcatOne
  <2> QED
    BY <2>2, <2>3, <2>6, <2>7, BytesNat
<1> HIDE DEF upto
<1>3. p0 \in Inv[0]
  <2>1. p0 \in Held
    BY DEF Related
  <2>2. Decoded(d, upto(0)) = d
    BY <1>1, DecodedNone
  <2> QED
    BY <2>1, <2>2
<1>4. ASSUME NEW k \in 0 .. n - 1, NEW p \in Inv[k] PROVE step[p][U[k + 1]] \in Inv[k + 1]
  <2> DEFINE nalu == U[k + 1]
             e == Decoded(d, upto(k))
  <2>1. k \in Nat /\ k + 1 \in Nat /\ k + 1 \in 1 .. n
    BY <1>1
  <2>2. p \in Held /\ Related(e, r0, p)
    BY <2>1
  <2>3. nalu \in Seq(Bytes) /\ nalu \in Seq(Nat) /\ (nalu # <<>> => nalu[1] < 128 /\ Type(nalu) < StapA)
    BY <1>2, <2>1
  <2>4. Decoded(d, upto(k + 1)) = Decode(e, nalu)
    <3>1. e \in Decoders
      BY <2>2 DEF Related
    <3> QED
      BY <1>2, <3>1, DecodedAppend
  <2>5. step[p][nalu] = PayloadNalu(p, nalu)
    BY <2>2, <2>3, HeldWaits
  <2> HIDE DEF nalu, e, step
  <2>6. Related(Decode(e, nalu), r0, PayloadNalu(p, nalu))
    BY <2>2, <2>3, RelatedStep
  <2>7. PayloadNalu(p, nalu) \in Held
    BY <2>6 DEF Related
  <2> QED
    BY <2>1, <2>4, <2>5, <2>6, <2>7 DEF nalu
<1> HIDE DEF Inv, step
<1>5. Fold(step, p0, U) \in Inv[n]
  BY <1>3, <1>4, FoldInvariant
<1>6. Related(Decoded(d, U), r0, Fold(step, p0, U))
  BY <1>1, <1>5 DEF Inv
<1> QED
  BY <1>6 DEF step

\* The inductive invariant, between samples.
PayloaderInv == EncoderInv /\ Related(given, received, Start(spsNalu, ppsNalu))

\* A sample's payloads bring what its units are.
LEMMA PayloadRelated ==
    ASSUME PayloaderInv, NEW s \in Seq(Bytes), Encoded(s)
    PROVE  Related(Decoded(given, SplitNALUs(s)), received, Payload(s))
<1> DEFINE U == SplitNALUs(s)
           result == Payload(s)
<1>1. U \in Seq(Seq(Bytes))
  BY SplitTyped
<1>2. result = Fold([p \in Waiting |-> [nalu \in Seq(Nat) |-> PayloadNalu(p, nalu)]],
                    Start(spsNalu, ppsNalu), U)
  BY Zenon DEF Payload, Start
<1>3. \A k \in 1 .. Len(U) : U[k] # <<>> => U[k][1] < 128 /\ Type(U[k]) < StapA
  <2>1. DOMAIN U = 1 .. Len(U)
    BY <1>1
  <2> QED
    BY <2>1, Zenon DEF Encoded
<1> HIDE DEF U, result
<1>4. Related(given, received, Start(spsNalu, ppsNalu))
  BY DEF PayloaderInv
<1>5. Related(Decoded(given, U), received, result)
  BY <1>1, <1>2, <1>3, <1>4, SampleRelated
<1> QED
  BY <1>5 DEF U, result

\* It holds at the start, and a sample keeps it.
LEMMA PayloaderInvHolds == PayloaderSpec => []PayloaderInv
<1>1. PayloaderInit => Related(given, received, Start(spsNalu, ppsNalu))
  <2> SUFFICES ASSUME PayloaderInit PROVE Related(given, received, Start(spsNalu, ppsNalu))
    OBVIOUS
  <2>1. given = NoUnits /\ received = NoUnits /\ spsNalu = <<>> /\ ppsNalu = <<>>
    BY DEF PayloaderInit
  <2> DEFINE p == Start(<<>>, <<>>)
             d == NoUnits
  <2>2. d \in Decoders
    <3>1. [sps |-> <<>>, pps |-> <<>>] \in Pairs
      BY DEF Pairs
    <3> QED
      BY <3>1 DEF NoUnits, Decoders
  <2>3. p.sps = <<>> /\ p.pps = <<>> /\ p.out = <<>> /\ p \in Held
    BY DEF Start, Held
  <2>4. d.open = FALSE /\ d.slices = <<>> /\ d.sps = <<>> /\ d.pps = <<>>
    BY DEF NoUnits
  <2> HIDE DEF p, d
  <2>5. Got(p.out) \in Arrived /\ Decoded(d, Got(p.out).nalus) = d
    BY <2>3, GotNone, DecodedNone
  <2>6. SameSlices(d, d)
    BY <2>4 DEF SameSlices
  <2>7. Tracks(d, d, p)
    BY <2>3, <2>4 DEF Tracks, SetsTyped
  <2>8. Related(d, d, p)
    BY <2>2, <2>3, <2>5, <2>6, <2>7 DEF Related
  <2> QED
    BY <2>1, <2>8 DEF p, d
<1>2. PayloaderInv /\ EncoderInv' /\ [PayloaderNext]_payloaderVars => PayloaderInv'
  <2> SUFFICES ASSUME PayloaderInv, EncoderInv', [PayloaderNext]_payloaderVars
               PROVE  Related(given', received', Start(spsNalu', ppsNalu'))
    BY DEF PayloaderInv
  <2>1. CASE PayloaderNext
    <3> DEFINE U == SplitNALUs(sample')
               result == Payload(sample')
    <3>1. sample' \in Seq(Bytes) /\ Encoded(sample')
      BY DEF EncoderInv, Encoded
    <3>2. Codes(sample') # {} /\ Len(sample') > 3 => Units(sample') = U
      BY <3>1, SplitTyped
    <3>3. CASE sample' = <<>>
      <4>1. UNCHANGED <<spsNalu, ppsNalu, given, received>>
        BY <2>1, <3>3, Zenon DEF PayloaderNext, PacketizeSample
      <4> QED
        BY <4>1 DEF PayloaderInv
    <3>4. CASE sample' # <<>>
      <4>1. /\ spsNalu' = result.sps /\ ppsNalu' = result.pps
            /\ given' = Decoded(given, IF Codes(sample') # {} /\ Len(sample') > 3
                                       THEN Units(sample') ELSE U)
            /\ received' = Decoded(received, Receive(result.out))
        BY <2>1, <3>4, Zenon DEF PayloaderNext, PacketizeSample
      <4>2. given' = Decoded(given, U)
        BY <3>2, <4>1
      <4>3. Related(Decoded(given, U), received, result)
        BY <3>1, PayloadRelated
      <4> HIDE DEF U, result
      <4> QED
        BY <4>1, <4>2, <4>3, RelatedAnew
    <3> QED
      BY <3>3, <3>4
  <2>2. CASE UNCHANGED payloaderVars
    BY <2>2 DEF payloaderVars, PayloaderInv
  <2> QED
    BY <2>1, <2>2
<1> QED
  BY <1>1, <1>2, EncoderInvHolds, PTL DEF PayloaderSpec, PayloaderInv

\* What both decoders have decoded is in it.
LEMMA PayloaderInvSlices == PayloaderInv => SameSlices(given, received)
<1> SUFFICES ASSUME PayloaderInv PROVE SameSlices(given, received)
  OBVIOUS
<1>1. (Start(spsNalu, ppsNalu)).out = <<>>
  BY DEF Start
<1>2. Decoded(received, Got((Start(spsNalu, ppsNalu)).out).nalus) = received
  BY <1>1, GotNone, DecodedNone
<1> QED
  BY <1>2 DEF PayloaderInv, Related

\* Every slice arrives, in order and to the byte, whatever its size and the
\* packets' (h264_packetizer.go:258).
THEOREM SlicesDeliveredHolds == PayloaderSpec => []SlicesDelivered
<1>1. PayloaderInv => SlicesDelivered
  <2> SUFFICES ASSUME PayloaderInv PROVE SlicesDelivered
    OBVIOUS
  <2>1. SameSlices(given, received) /\ given \in Decoders
    BY PayloaderInvSlices DEF PayloaderInv, Related
  <2>2. DOMAIN given.slices = 1 .. Len(given.slices)
    BY <2>1, DecoderIs
  <2> QED
    BY <2>1, <2>2 DEF SameSlices, Alike, SlicesDelivered
<1> QED
  BY <1>1, PayloaderInvHolds, PTL

\* Every slice is decoded with the parameter sets the encoder meant, unless those
\* came without their pair or exceed a packet (h264_packetizer.go:216).
THEOREM ParametersInForceHolds == PayloaderSpec => []ParametersInForce
<1>1. PayloaderInv => ParametersInForce
  <2> SUFFICES ASSUME PayloaderInv PROVE ParametersInForce
    OBVIOUS
  <2>1. SameSlices(given, received) /\ given \in Decoders
    BY PayloaderInvSlices DEF PayloaderInv, Related
  <2>2. DOMAIN given.slices = 1 .. Len(given.slices)
    BY <2>1, DecoderIs
  <2> QED
    BY <2>1, <2>2 DEF SameSlices, Alike, ParametersInForce
<1> QED
  BY <1>1, PayloaderInvHolds, PTL

\* Every payload of every sample has a byte at least and fits in a packet,
\* whatever sets have waited for it (h264_packetizer.go:216).
THEOREM SamplesFit ==
    PayloaderSpec => [][sample' # <<>> => Payload(sample').out \in Seq(Packets)]_payloaderVars
<1>1. PayloaderInv /\ EncoderInv' => Payload(sample').out \in Seq(Packets)
  <2> SUFFICES ASSUME PayloaderInv, EncoderInv' PROVE Payload(sample').out \in Seq(Packets)
    OBVIOUS
  <2>1. sample' \in Seq(Bytes) /\ Encoded(sample')
    BY DEF EncoderInv, Encoded
  <2>2. Related(Decoded(given, SplitNALUs(sample')), received, Payload(sample'))
    BY <2>1, PayloadRelated
  <2> QED
    BY <2>2 DEF Related, Held
<1> QED
  BY <1>1, PayloaderInvHolds, EncoderInvHolds, PTL
=============================================================================
