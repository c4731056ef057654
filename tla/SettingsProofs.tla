---------------------------- MODULE SettingsProofs ----------------------------
(***************************************************************************)
(* Theorems about Settings for every set of bitrates and every bound: what *)
(* a dialog without a value, and a request that meets a restart, may do to *)
(* the hub, and what they may not.                                         *)
(***************************************************************************)
EXTENDS Settings, TLAPS

Message == [type : {"bitrate", "reset"}, val : Nat]
Steps == {"idle", "source", "range", "write", "apply", "open"}
Goroutine == [at : Steps, val : Nat]

SettingsTypes ==
    /\ manual \in Seq(Message)
    /\ setter \in Goroutine /\ restart \in Goroutine
    /\ properties \in Nat

\* Only a dialog that closed without a value puts a null on the channel.
NullsExplained ==
    \A i \in 1 .. Len(manual) : manual[i] = [type |-> "bitrate", val |-> NaN] => unanswered

\* A setter and a restart are under way together only if they overlapped.
OverlapNoted == setter.at # "idle" /\ restart.at # "idle" => overlapped

\* The map remembers the bitrate in force; 0 stands for the encoder's own.
Remembered == IF properties = 0 THEN wanted = Default ELSE wanted = properties

\* Where the setter stands when no restart met it.
SetterOnItsWay ==
    /\ setter.at \in {"idle", "write", "apply"}
    /\ setter.at # "idle" => setter.val = wanted /\ wanted # 0
    /\ setter.at # "write" => Remembered

\* Where the restart stands when no setter met it.
RestartOnItsWay ==
    /\ restart.at \in {"source", "open"} => encoder = wanted
    /\ restart.at \in {"range", "write", "apply"} => encoder \in {Default, wanted}
    /\ restart.at \in {"write", "apply"} => properties # 0 /\ restart.val = properties

Undisturbed ==
    /\ SetterOnItsWay /\ RestartOnItsWay
    /\ setter.at = "idle" /\ restart.at = "idle" => encoder = wanted

SettingsInv ==
    /\ SettingsTypes /\ NullsExplained /\ OverlapNoted
    /\ ~ overlapped => Undisturbed
    /\ CrashExplained

-----------------------------------------------------------------------------
(* What the page puts on the channel.                                      *)

Null == [type |-> "bitrate", val |-> NaN]

\* Messages, with a null among them only if a dialog closed without a value.
Explained(msgs, closed) ==
    msgs \in Seq(Message) /\ \A i \in 1 .. Len(msgs) : msgs[i] = Null => closed

LEMMA ExplainedOfTypes == SettingsTypes /\ NullsExplained => Explained(manual, unanswered)
BY DEF SettingsTypes, NullsExplained, Explained, Null

\* Two explained sequences, one after the other, are explained.
LEMMA ConcatExplained ==
    ASSUME NEW closed, NEW s, NEW t, Explained(s, closed), Explained(t, closed)
    PROVE  Explained(s \o t, closed)
<1>1. s \o t \in Seq(Message) /\ Len(s \o t) = Len(s) + Len(t)
  BY DEF Explained
<1>2. ASSUME NEW i \in 1 .. Len(s \o t), (s \o t)[i] = Null
      PROVE  closed
  <2>1. CASE i <= Len(s)
    <3>1. i \in 1 .. Len(s) /\ (s \o t)[i] = s[i]
      BY <2>1, <1>1 DEF Explained
    <3> QED
      BY <3>1, <1>2 DEF Explained
  <2>2. CASE i > Len(s)
    <3>1. i - Len(s) \in 1 .. Len(t) /\ (s \o t)[i] = t[i - Len(s)]
      BY <2>2, <1>1 DEF Explained
    <3> QED
      BY <3>1, <1>2 DEF Explained
  <2> QED
    BY <2>1, <2>2, <1>1 DEF Explained
<1> QED
  BY <1>1, <1>2 DEF Explained

\* What is sent after messages that are explained leaves them explained.
LEMMA SendManualExplained ==
    ASSUME Explained(manual, unanswered), unanswered => unanswered',
           NEW announced, NEW msgs, Explained(msgs, unanswered'),
           SendManual(announced, msgs)
    PROVE  Explained(manual', unanswered')
<1>1. Explained(manual, unanswered')
  BY DEF Explained
<1> QED
  BY <1>1, ConcatExplained DEF SendManual

LEMMA BitrateExplained ==
    ASSUME NEW b \in Nat, NEW closed, b = NaN => closed
    PROVE  Explained(BitrateMessage(b), closed)
BY DEF Explained, BitrateMessage, Message, Null, NaN

\* The popup sends at most a reset and the null of the dialog it closes.
LEMMA LogExplained ==
    ASSUME Explained(manual, unanswered),
           NEW event, NEW announced, NEW msgs \in {<<>>, ResetVideo},
           LogConnectionEvent(event, announced, msgs)
    PROVE  Explained(manual', unanswered') /\ (unanswered => unanswered')
<1>1. ASSUME NEW closed PROVE Explained(msgs, closed) /\ Explained(<<>>, closed)
  <2>1. Explained(<<>>, closed)
    BY DEF Explained
  <2>2. Explained(ResetVideo, closed)
    BY DEF Explained, ResetVideo, Message, Null, NaN
  <2> QED
    BY <2>1, <2>2
<1>2. CASE Shown(event)
  <2>1. unanswered => unanswered'
    BY <1>2 DEF LogConnectionEvent, TurnOnStatus
  <2> DEFINE closing == IF dialog THEN BitrateMessage(NaN) ELSE <<>>
  <2>2. Explained(msgs \o closing, unanswered')
    <3>1. dialog => unanswered'
      BY <1>2 DEF LogConnectionEvent, TurnOnStatus
    <3>2. Explained(closing, unanswered')
      BY <3>1, <1>1, BitrateExplained DEF NaN
    <3> QED
      BY <3>2, <1>1, ConcatExplained
  <2>3. SendManual(announced, msgs \o closing)
    BY <1>2 DEF LogConnectionEvent, TurnOnStatus
  <2> QED
    BY <2>1, <2>2, <2>3, SendManualExplained
<1>3. CASE ~ Shown(event)
  BY <1>1, <1>3, SendManualExplained DEF LogConnectionEvent
<1> QED
  BY <1>2, <1>3

\* No step but these puts a message on the channel.
LEMMA ChannelStep ==
    ASSUME SettingsInv, [Next]_vars
    PROVE  Explained(manual', unanswered') /\ (unanswered => unanswered')
<1> USE DEF videoVars, queueVars, pageVars, hubVars
<1>1. Explained(manual, unanswered)
  BY ExplainedOfTypes DEF SettingsInv
<1>2. CASE UNCHANGED <<manual, unanswered>>
  BY <1>1, <1>2
<1>3. ASSUME NEW l \in Labels, HandleIncomingDataChannel(l)
      PROVE  Explained(manual', unanswered') /\ (unanswered => unanswered')
  BY <1>1, <1>3, LogExplained DEF HandleIncomingDataChannel
<1>4. CASE HandleIncomingTrack
  BY <1>1, <1>4, LogExplained DEF HandleIncomingTrack
<1>5. CASE OtherEvent
  BY <1>1, <1>5, LogExplained DEF OtherEvent
<1>6. CASE ChangeBitrate
  <2>1. PICK b \in Bitrates : SendManual(channels, BitrateMessage(b))
    BY <1>6 DEF ChangeBitrate
  <2>2. Explained(BitrateMessage(b), unanswered') /\ unanswered' = unanswered
    BY <1>6, BitratesAssumption, BitrateExplained DEF ChangeBitrate, NaN
  <2> QED
    BY <1>1, <2>1, <2>2, SendManualExplained
<1>7. CASE Dismiss
  <2>1. Explained(BitrateMessage(NaN), unanswered') /\ unanswered'
    BY <1>7, BitrateExplained DEF Dismiss, NaN
  <2> QED
    BY <1>1, <1>7, <2>1, SendManualExplained DEF Dismiss
<1>8. CASE ReceiveManual
  <2>1. manual # <<>> /\ manual' = Tail(manual) /\ unanswered' = unanswered
    BY <1>8 DEF ReceiveManual
  <2>2. Tail(manual) \in Seq(Message) /\ Len(Tail(manual)) = Len(manual) - 1
    BY <1>1, <2>1 DEF Explained
  <2>3. ASSUME NEW i \in 1 .. Len(Tail(manual))
        PROVE  Tail(manual)[i] = manual[i + 1] /\ i + 1 \in 1 .. Len(manual)
    BY <1>1, <2>1, <2>2 DEF Explained
  <2> QED
    BY <1>1, <2>1, <2>2, <2>3 DEF Explained
<1>9. CASE \/ AskSelectBitrate \/ StatsLoop \/ StatsLoopThrows \/ Freeze \/ KeyFrameArrives
           \/ KeyFrameLost \/ ReaderEnds \/ HandleVideoMetric
  BY <1>2, <1>9 DEF AskSelectBitrate, StatsLoop, StatsLoopThrows, Freeze, KeyFrameArrives,
     KeyFrameLost, ReaderEnds, HandleVideoMetric
<1>10. CASE WriteProperty \/ SetBitrate \/ HandleVideoStopOrError \/ Restart
  BY <1>2, <1>10 DEF WriteProperty, SetBitrate, HandleVideoStopOrError, Restart,
     RestartSetSource, RestartRange, RestartWriteProperty, RestartSetBitrate, RestartOpen
<1>11. CASE UNCHANGED vars
  BY <1>2, <1>11 DEF vars
<1> QED
  BY <1>3, <1>4, <1>5, <1>6, <1>7, <1>8, <1>9, <1>10, <1>11 DEF Next, Restart

-----------------------------------------------------------------------------
(* The setter and the restart.                                             *)

bitrateVars == <<properties, encoder, setter, restart, wanted, overlapped>>

\* What the goroutines of the hub keep of their own.
HubInv ==
    /\ setter \in Goroutine /\ restart \in Goroutine /\ properties \in Nat
    /\ OverlapNoted /\ (~ overlapped => Undisturbed) /\ CrashExplained

\* A step keeps what the goroutines rely on.
LEMMA HubStep ==
    ASSUME SettingsInv, [Next]_vars
    PROVE  HubInv'
<1> USE DEF SettingsInv, SettingsTypes, HubInv, OverlapNoted, Undisturbed, SetterOnItsWay,
            RestartOnItsWay, Remembered, CrashExplained, Goroutine, Steps
<1>1. unanswered => unanswered'
  BY ChannelStep
<1>2. CASE UNCHANGED <<bitrateVars, crashed>>
  BY <1>1, <1>2 DEF bitrateVars
<1>3. CASE ReceiveManual
  <2>1. Head(manual) \in Message /\ (Head(manual) = Null => unanswered)
    BY <1>3 DEF ReceiveManual, NullsExplained, Null
  <2>2. CASE Head(manual).type = "bitrate" /\ Head(manual).val # NaN
    <3>1. setter.at = "idle" /\ crashed' = crashed
      BY <1>3, <2>2 DEF ReceiveManual, BitrateMessage
    <3>2. /\ setter' = [at |-> "write", val |-> Head(manual).val]
          /\ wanted' = Head(manual).val
          /\ overlapped' = (overlapped \/ restart.at # "idle")
          /\ UNCHANGED <<properties, encoder, restart, unanswered>>
      BY <1>3, <2>2 DEF ReceiveManual, pageVars
    <3> QED
      BY <2>1, <2>2, <3>1, <3>2 DEF Message, NaN
  <2>3. CASE ~ (Head(manual).type = "bitrate" /\ Head(manual).val # NaN)
    <3>1. UNCHANGED bitrateVars /\ unanswered' = unanswered
      BY <1>3, <2>3 DEF ReceiveManual, pageVars, bitrateVars
    <3>2. crashed' = crashed \/ (crashed' = "null" /\ Head(manual) = Null)
      BY <1>3 DEF ReceiveManual, BitrateMessage, Null
    <3> QED
      BY <2>1, <3>1, <3>2 DEF bitrateVars
  <2> QED
    BY <2>2, <2>3
<1>4. CASE WriteProperty
  BY <1>1, <1>4 DEF WriteProperty, MayCollide
<1>5. CASE SetBitrate
  BY <1>1, <1>5 DEF SetBitrate, Idle
<1>6. CASE HandleVideoStopOrError
  BY <1>1, <1>6 DEF HandleVideoStopOrError, Idle
<1>7. CASE RestartSetSource
  BY <1>1, <1>7 DEF RestartSetSource
<1>8. CASE RestartRange
  BY <1>1, <1>8 DEF RestartRange, MayCollide
<1>9. CASE RestartWriteProperty
  BY <1>1, <1>9 DEF RestartWriteProperty, MayCollide
<1>10. CASE RestartSetBitrate
  BY <1>1, <1>10 DEF RestartSetBitrate
<1>11. CASE RestartOpen
  BY <1>1, <1>11 DEF RestartOpen, Idle
<1>12. CASE \/ \E l \in Labels : HandleIncomingDataChannel(l)
            \/ HandleIncomingTrack \/ AskSelectBitrate \/ ChangeBitrate \/ Dismiss \/ OtherEvent
            \/ StatsLoop \/ StatsLoopThrows \/ Freeze \/ KeyFrameArrives \/ KeyFrameLost
            \/ ReaderEnds \/ HandleVideoMetric
  BY <1>2, <1>12 DEF HandleIncomingDataChannel, HandleIncomingTrack, AskSelectBitrate,
     ChangeBitrate, Dismiss, OtherEvent, StatsLoop, StatsLoopThrows, Freeze, KeyFrameArrives,
     KeyFrameLost, ReaderEnds, HandleVideoMetric,
     hubVars, bitrateVars
<1>13. CASE UNCHANGED vars
  BY <1>2, <1>13 DEF vars, hubVars, bitrateVars
<1> QED
  BY <1>3, <1>4, <1>5, <1>6, <1>7, <1>8, <1>9, <1>10, <1>11, <1>12, <1>13 DEF Next

-----------------------------------------------------------------------------
LEMMA SettingsInvHolds == Spec => []SettingsInv
<1>1. Init => SettingsInv
  BY BitratesAssumption DEF Init, Idle, SettingsInv, SettingsTypes, NullsExplained, OverlapNoted,
     Undisturbed, SetterOnItsWay, RestartOnItsWay, Remembered, CrashExplained, Goroutine, Steps
<1>2. SettingsInv /\ [Next]_vars => SettingsInv'
  <2> SUFFICES ASSUME SettingsInv, [Next]_vars
               PROVE  SettingsInv'
    OBVIOUS
  <2>1. Explained(manual', unanswered')
    BY ChannelStep
  <2>2. HubInv'
    BY HubStep
  <2> QED
    BY <2>1, <2>2 DEF SettingsInv, SettingsTypes, NullsExplained, HubInv, Explained, Null
<1> QED
  BY <1>1, <1>2, PTL DEF Spec

\* Whatever the user asks for and however often the pipeline restarts, the
\* restarted encoder runs at the bitrate asked for last, unless the request and
\* the restart overlapped.
THEOREM RestartKeepsBitrateHolds == Spec => []RestartKeepsBitrate
<1>1. SettingsInv => RestartKeepsBitrate
  BY DEF SettingsInv, Undisturbed, RestartKeepsBitrate, Idle
<1> QED
  BY <1>1, SettingsInvHolds, PTL

\* The hub's goroutines die of settings only when a dialog closed without a
\* value, or when a request and a restart used the map of properties together.
THEOREM CrashExplainedHolds == Spec => []CrashExplained
<1>1. SettingsInv => CrashExplained
  BY DEF SettingsInv
<1> QED
  BY <1>1, SettingsInvHolds, PTL
=============================================================================
