------------------------ MODULE SpeechSessionProofs -------------------------
(***************************************************************************)
(* What a SPEECH session promises, for every value of its constants: what  *)
(* the client is shown, what becomes of each speech chunk, and that the    *)
(* session is over when its receive loop is.                               *)
(***************************************************************************)
EXTENDS SpeechSession, MelAccumulatorProofs

\* A session's segments: what the client shows is what the policy will replace,
\* and identifiers only grow.
Segments ==
  /\ OneLivePartial
  /\ LipMatchesPartial
  /\ partial <= segs
  /\ wire.id <= segs


-----------------------------------------------------------------------------
\* Emit gives its variables values of their types.
LEMMA EmitType ==
  ASSUME FusionType, NEW status \in {"PARTIAL", "FINAL"}, NEW clock \in Clocks,
         Emit(status, clock)
  PROVE  /\ segs' \in Nat /\ partial' \in Nat /\ screen' \subseteq Nat
         /\ wire' \in [id : Nat, status : {"PARTIAL", "FINAL"}, replaces : Nat,
                       clock : Clocks]
<1>1. segs' = segs + 1 /\ segs' \in Nat
  BY DEF Emit, Segment, PartialAfter, FusionType
<1>2. partial' \in Nat
  BY <1>1 DEF Emit, Segment, PartialAfter, FusionType, NoSeg
<1>3. CASE connected
  <2>1. wire' = [id |-> segs', status |-> status, replaces |-> partial, clock |-> clock]
    BY <1>1, <1>3 DEF Emit, Segment, PartialAfter
  <2>2. screen' \subseteq Nat
    BY <1>1, <1>3 DEF Emit, Segment, PartialAfter, FusionType
  <2> QED
    BY <1>1, <1>2, <2>1, <2>2 DEF FusionType
<1>4. CASE ~connected
  BY <1>1, <1>2, <1>4 DEF Emit, Segment, PartialAfter, FusionType
<1> QED
  BY <1>3, <1>4

\* A segment keeps the client's screen and the policy's partial together, when
\* the lip result is cached with a PARTIAL and dropped with a FINAL.
LEMMA EmitKeepsSegments ==
  ASSUME FusionType, Segments, NEW status \in {"PARTIAL", "FINAL"}, NEW clock \in Clocks,
         Emit(status, clock), lipCached' <=> status = "PARTIAL",
         UNCHANGED connected
  PROVE  Segments'
<1>1. segs' = segs + 1 /\ segs \in Nat /\ wire.id \in Nat
  BY DEF Emit, Segment, PartialAfter, FusionType
<1>2. partial' = IF status = "PARTIAL" THEN segs + 1 ELSE NoSeg
  BY DEF Emit, Segment, PartialAfter
<1>3. LipMatchesPartial'
  <2>1. partial' # NoSeg <=> status = "PARTIAL"
    BY <1>1, <1>2 DEF NoSeg
  <2> QED
    BY <2>1, Zenon DEF LipMatchesPartial
<1>4. partial' <= segs'
  BY <1>1, <1>2 DEF NoSeg
<1>5. wire'.id <= segs'
  BY <1>1 DEF Emit, Segment, PartialAfter, Segments
<1>6. OneLivePartial'
  BY <1>1, <1>2 DEF Emit, Segment, PartialAfter, Segments, OneLivePartial, NoSeg
<1> QED
  BY <1>3, <1>4, <1>5, <1>6 DEF Segments

\* Without one, nothing about the segments changes.
LEMMA NoEmitKeepsSegments ==
  ASSUME FusionType, Segments, NoEmit, UNCHANGED <<lipCached, connected>>
  PROVE  FusionType' /\ Segments'
BY DEF NoEmit, FusionType, Segments, OneLivePartial, LipMatchesPartial

\* Whatever ASR does with a batch, and whichever task asked for it.
LEMMA OutcomeKeeps ==
  ASSUME FusionType, FateType, Segments, NEW b \in SUBSET Nat, NEW clock \in Clocks,
         Answered(b, clock) \/ Raised(b, clock), UNCHANGED connected
  PROVE  FusionType' /\ Segments' /\ heard' \subseteq Nat /\ missed' \subseteq Nat
<1>0. heard \subseteq Nat /\ missed \subseteq Nat /\ "epoch" \in Clocks
  BY DEF FateType, Clocks
<1>1. CASE Transcribed(b, clock)
  <2>1. Emit("FINAL", clock) /\ lipCached' = FALSE /\ heard' = heard \cup b /\ missed' = missed
    BY <1>1 DEF Transcribed
  <2>2. Segments'
    BY <2>1, EmitKeepsSegments
  <2>3. FusionType'
    BY <2>1, EmitType DEF FusionType
  <2> QED
    BY <1>0, <2>1, <2>2, <2>3
<1>2. CASE Suppressed(b)
  <2>1. NoEmit /\ UNCHANGED <<lipCached, heard>> /\ missed' = missed \cup b
    BY <1>2 DEF Suppressed
  <2> QED
    BY <1>0, <2>1, NoEmitKeepsSegments
<1>3. CASE TimedOut(b)
  <2>1. missed' = missed \cup b /\ heard' = heard /\ lipCached' = FALSE
    BY <1>3 DEF TimedOut
  <2>2. CASE lipCached
    <3>1. Emit("FINAL", "epoch")
      BY <1>3, <2>2 DEF TimedOut
    <3>2. Segments'
      BY <1>0, <2>1, <3>1, EmitKeepsSegments
    <3>3. FusionType'
      BY <1>0, <2>1, <3>1, EmitType DEF FusionType
    <3> QED
      BY <1>0, <2>1, <3>2, <3>3
  <2>3. CASE ~lipCached
    <3>1. NoEmit /\ ~lipCached'
      BY <1>3, <2>1, <2>3 DEF TimedOut
    <3>2. FusionType'
      BY <2>1, <3>1 DEF NoEmit, FusionType
    <3>3. Segments'
      BY <2>3, <3>1 DEF NoEmit, Segments, OneLivePartial, LipMatchesPartial
    <3> QED
      BY <1>0, <2>1, <3>2, <3>3
  <2> QED
    BY <2>2, <2>3
<1> QED
  BY <1>1, <1>2, <1>3 DEF Answered, Raised

\* Leaving keeps the tasks' types.
LEMMA LeaveType ==
  ASSUME TaskType, FateType, Leave
  PROVE  TaskType' /\ cut' \subseteq Nat
BY DEF Leave, TaskType, FateType

-----------------------------------------------------------------------------
\* A session's types and segments together.
SegmentInv == TypeOK /\ Segments

\* Every action of the receive loop keeps them.
LEMMA ReceiveKeepsSegments == SegmentInv /\ Receive => SegmentInv'
<1> SUFFICES ASSUME SegmentInv, Receive PROVE SegmentInv'
  OBVIOUS
<1>0. /\ MelTypeOK /\ LipType /\ FusionType /\ TaskType /\ ClientType /\ FateType
      /\ Segments
  BY DEF SegmentInv, TypeOK
<1>a. ASSUME UNCHANGED <<fusion, connected>>
      PROVE  FusionType' /\ Segments'
  BY <1>0, <1>a DEF fusion, FusionType, Segments, OneLivePartial, LipMatchesPartial
<1>b. ASSUME UNCHANGED <<melVars, lip, client>>
      PROVE  MelTypeOK' /\ LipType' /\ ClientType' /\ connected' = connected
  BY <1>0, <1>b DEF melVars, lip, client, MelTypeOK, LipType, ClientType
<1>c. rbatch \in SUBSET Nat /\ "session" \in Clocks /\ "epoch" \in Clocks
  BY <1>0 DEF TaskType, Clocks
<1>1. ASSUME NEW n \in ChunkRows, NEW speech \in BOOLEAN, HandleAudio(n, speech)
      PROVE  SegmentInv'
  <2> DEFINE c == chunks + 1
             out == Returned(c, n, speech)
  <2>1. c \in Nat /\ n \in Nat
    BY <1>0, SessionAssumption DEF ClientType
  <2>2. /\ Push(c, n, speech) /\ chunks' = c /\ unread' = FALSE /\ speaking' = speech
        /\ UNCHANGED <<fusion, wpc, wbatch, outlived, connected, ended, shots, heard, cut>>
        /\ ToAsr(out, ReturnedRows(n, speech), "asr")
    BY <1>1 DEF HandleAudio
  <2>3. MelTypeOK' /\ out \subseteq Nat
    BY <1>0, <2>1, <2>2, PushType
  <2>4. LipType'
    BY <1>0, <1>1 DEF HandleAudio, LipType
  <2>5. ClientType'
    BY <1>0, <2>1, <2>2 DEF ClientType
  <2>6. TaskType' /\ missed' \subseteq Nat
    BY <1>0, <2>2, <2>3 DEF ToAsr, TaskType, FateType
  <2>7. spoken' \subseteq Nat
    BY <1>0, <1>1, <2>1 DEF HandleAudio, FateType
  <2>8. FateType'
    BY <1>0, <2>2, <2>6, <2>7 DEF FateType
  <2> QED
    BY <1>a, <2>2, <2>3, <2>4, <2>5, <2>6, <2>8 DEF SegmentInv, TypeOK
<1>2. CASE HandleFace
  <2>1. /\ UNCHANGED <<melVars, speaking, fusion, rbatch, wpc, wbatch, outlived,
                       connected, unread, ended, chunks, fate>>
        /\ shots' = shots + 1 /\ rpc' \in {rpc, "lip", "recv"}
    BY <1>2 DEF HandleFace
  <2>2. MelTypeOK' /\ LipType'
    <3>1. faces' = faces \/ faces' = faces + 1 \/ faces' = 0
      BY <1>2 DEF HandleFace
    <3>2. crossed' = crossed \/ crossed' = FALSE
      BY <1>2 DEF HandleFace
    <3>3. faces' \in Nat
      BY <1>0, <3>1 DEF LipType
    <3>4. crossed' \in BOOLEAN /\ speaking' \in BOOLEAN
      BY <1>0, <2>1, <3>2, Zenon DEF LipType
    <3> QED
      BY <1>0, <2>1, <3>3, <3>4 DEF melVars, MelTypeOK, LipType
  <2>3. TaskType' /\ ClientType' /\ FateType'
    BY <1>0, <2>1 DEF fate, TaskType, ClientType, FateType
  <2> QED
    BY <1>a, <2>1, <2>2, <2>3 DEF SegmentInv, TypeOK
<1>3. CASE LipShown
  <2>1. /\ UNCHANGED <<melVars, lip, client, spoken, heard, missed>>
        /\ lipCached' = TRUE /\ Emit("PARTIAL", "epoch")
        /\ \/ rpc' = "recv" /\ UNCHANGED <<rbatch, wpc, wbatch, outlived, cut>>
           \/ Leave
    BY <1>3 DEF LipShown
  <2>2. FusionType'
    BY <1>0, <1>c, <2>1, EmitType DEF FusionType
  <2>3. Segments'
    BY <1>0, <1>b, <1>c, <2>1, EmitKeepsSegments
  <2>4. TaskType' /\ cut' \subseteq Nat
    BY <1>0, <2>1, LeaveType DEF TaskType, FateType
  <2>5. FateType'
    BY <1>0, <2>1, <2>4 DEF FateType
  <2> QED
    BY <1>b, <2>1, <2>2, <2>3, <2>4, <2>5 DEF SegmentInv, TypeOK
<1>4. CASE LipSuppressed
  <2>1. TaskType' /\ FateType'
    BY <1>0, <1>4 DEF LipSuppressed, TaskType, FateType, fate
  <2>2. UNCHANGED <<melVars, lip, client, fusion, connected>>
    BY <1>4 DEF LipSuppressed, client
  <2> QED
    BY <1>a, <1>b, <2>1, <2>2 DEF SegmentInv, TypeOK
<1>5. CASE LipFails \/ ReceiveDisconnect \/ HandleMalformed
  <2>1. /\ Leave
        /\ UNCHANGED <<melVars, lip, fusion, client, spoken, heard, missed>>
        /\ connected' = connected
    BY <1>5 DEF LipFails, ReceiveDisconnect, HandleMalformed, client
  <2>2. TaskType' /\ FateType'
    BY <1>0, <2>1, LeaveType DEF FateType
  <2> QED
    BY <1>a, <1>b, <2>1, <2>2 DEF SegmentInv, TypeOK
<1>6. CASE AsrReturns \/ AsrFails \/ EndReturns
  <2>1. /\ \E clock \in Clocks : Answered(rbatch, clock) \/ Raised(rbatch, clock)
        /\ UNCHANGED <<melVars, lip, client, spoken>>
        /\ \/ rpc' = "recv" /\ rbatch' = {} /\ UNCHANGED <<wpc, wbatch, outlived, cut>>
           \/ Leave
    BY <1>6, <1>c DEF AsrReturns, AsrFails, EndReturns
  <2>2. FusionType' /\ Segments' /\ heard' \subseteq Nat /\ missed' \subseteq Nat
    BY <1>0, <1>b, <1>c, <2>1, OutcomeKeeps
  <2>3. TaskType' /\ cut' \subseteq Nat
    BY <1>0, <2>1, LeaveType DEF TaskType, FateType
  <2>4. FateType'
    BY <1>0, <2>1, <2>2, <2>3 DEF FateType
  <2> QED
    BY <1>b, <2>1, <2>2, <2>3, <2>4 DEF SegmentInv, TypeOK
<1>7. CASE HandleSessionEnd
  <2>1. /\ TakePending /\ ended' = TRUE
        /\ UNCHANGED <<lip, fusion, connected, unread, chunks, shots, spoken, heard>>
    BY <1>7 DEF HandleSessionEnd
  <2>2. MelTypeOK' /\ buf \subseteq Nat
    BY <1>0, <2>1 DEF TakePending, Hold, MelTypeOK
  <2>3. LipType' /\ ClientType'
    BY <1>0, <2>1 DEF lip, LipType, ClientType
  <2>4. TaskType' /\ missed' \subseteq Nat /\ cut' \subseteq Nat
    <3>1. CASE Leave /\ missed' = missed \cup buf
      BY <1>0, <2>2, <3>1, LeaveType DEF FateType
    <3>2. CASE rpc' = "end" /\ rbatch' = buf /\ UNCHANGED <<wpc, wbatch, outlived, missed, cut>>
      BY <1>0, <2>2, <3>2 DEF TaskType, FateType
    <3> QED
      BY <1>7, <3>1, <3>2 DEF HandleSessionEnd
  <2>5. FateType'
    BY <1>0, <2>1, <2>4 DEF FateType
  <2> QED
    BY <1>a, <2>1, <2>2, <2>3, <2>4, <2>5 DEF SegmentInv, TypeOK
<1> QED
  BY <1>1, <1>2, <1>3, <1>4, <1>5, <1>6, <1>7 DEF Receive

\* So does every other step.
LEMMA SegmentStep == SegmentInv /\ [Next]_vars => SegmentInv'
<1> SUFFICES ASSUME SegmentInv, [Next]_vars PROVE SegmentInv'
  OBVIOUS
<1>0. /\ MelTypeOK /\ LipType /\ FusionType /\ TaskType /\ ClientType /\ FateType
      /\ Segments
  BY DEF SegmentInv, TypeOK
<1>1. CASE Receive
  BY <1>1, ReceiveKeepsSegments
<1>2. CASE WatchdogTakes
  <2>1. /\ TakePending /\ UNCHANGED <<lip, fusion, rpc, rbatch, outlived, client, spoken, heard, cut>>
    BY <1>2 DEF WatchdogTakes, TakeIfStale
  <2>2. MelTypeOK' /\ LipType' /\ ClientType' /\ buf \subseteq Nat
    BY <1>0, <2>1 DEF TakePending, Hold, lip, client, MelTypeOK, LipType, ClientType
  <2>3. FusionType' /\ Segments'
    BY <1>0, <2>1 DEF fusion, client, FusionType, Segments, OneLivePartial, LipMatchesPartial
  <2>4. TaskType' /\ FateType'
    BY <1>0, <1>2, <2>1, <2>2 DEF WatchdogTakes, TaskType, FateType
  <2> QED
    BY <2>2, <2>3, <2>4 DEF SegmentInv, TypeOK
<1>3. CASE WatchdogReturns \/ WatchdogFails \/ WatchdogOutlives
  <2>1. /\ Answered(wbatch, "epoch") \/ Raised(wbatch, "epoch")
        /\ wpc' \in {"sleep", "dead"} /\ wbatch' = {}
        /\ UNCHANGED <<melVars, lip, rpc, rbatch, outlived, client, spoken, cut>>
    BY <1>3 DEF WatchdogReturns, WatchdogFails, WatchdogOutlives, Answered, Raised
  <2>2. wbatch \in SUBSET Nat /\ "epoch" \in Clocks /\ connected' = connected
    BY <1>0, <2>1 DEF TaskType, Clocks, client
  <2>3. FusionType' /\ Segments' /\ heard' \subseteq Nat /\ missed' \subseteq Nat
    BY <1>0, <2>1, <2>2, OutcomeKeeps
  <2>4. MelTypeOK' /\ LipType' /\ ClientType' /\ TaskType' /\ FateType'
    BY <1>0, <2>1, <2>3 DEF melVars, lip, client, MelTypeOK, LipType, ClientType,
                            TaskType, FateType
  <2> QED
    BY <2>3, <2>4 DEF SegmentInv, TypeOK
<1>4. CASE ClientSends \/ Disconnect
  <2>1. /\ UNCHANGED <<melVars, lip, fusion, tasks, ended, chunks, shots, fate>>
        /\ connected' \in BOOLEAN /\ (connected' => connected) /\ unread' \in BOOLEAN
    BY <1>0, <1>4 DEF ClientSends, Disconnect, ClientType
  <2>2. MelTypeOK' /\ LipType' /\ ClientType' /\ TaskType' /\ FateType'
    BY <1>0, <2>1 DEF melVars, lip, tasks, fate, MelTypeOK, LipType, ClientType,
                      TaskType, FateType
  <2>3. FusionType' /\ Segments'
    BY <1>0, <2>1 DEF fusion, FusionType, Segments, OneLivePartial, LipMatchesPartial
  <2> QED
    BY <2>2, <2>3 DEF SegmentInv, TypeOK
<1>5. CASE Tick \/ UNCHANGED vars
  <2>1. /\ UNCHANGED <<lip, fusion, tasks, client, fate, buf, frames, silence>>
        /\ idle' = idle \/ idle' = idle + 1
    BY <1>5 DEF Tick, Elapse, vars, melVars
  <2>2. MelTypeOK' /\ LipType' /\ ClientType' /\ TaskType' /\ FateType'
    BY <1>0, <2>1 DEF lip, client, tasks, fate, MelTypeOK, LipType, ClientType,
                      TaskType, FateType
  <2>3. FusionType' /\ Segments'
    BY <1>0, <2>1 DEF fusion, client, FusionType, Segments, OneLivePartial,
                      LipMatchesPartial
  <2> QED
    BY <2>2, <2>3 DEF SegmentInv, TypeOK
<1> QED
  BY <1>1, <1>2, <1>3, <1>4, <1>5 DEF Next, Watchdog

\* The initial state has them.
LEMMA SegmentInit == Init => SegmentInv
<1>1. Init => MelTypeOK /\ LipType /\ TaskType /\ ClientType /\ FateType
  <2>1. Init => speaking \in BOOLEAN /\ crossed \in BOOLEAN
    BY DEF Init
  <2>2. Init => connected \in BOOLEAN /\ unread \in BOOLEAN /\ ended \in BOOLEAN
    BY DEF Init
  <2>3. Init => LipType /\ ClientType
    BY <2>1, <2>2 DEF Init, LipType, ClientType
  <2>4. Init => outlived \in BOOLEAN
    BY DEF Init
  <2>5. Init => MelTypeOK /\ TaskType /\ FateType
    BY <2>4 DEF Init, MelInit, MelTypeOK, TaskType, FateType
  <2> QED
    BY <2>3, <2>5
<1>2. Init => FusionType
  <2>1. Init => wire \in [id : Nat, status : {"PARTIAL", "FINAL"}, replaces : Nat,
                          clock : Clocks]
    BY DEF Init, Clocks, NoSeg
  <2>2. Init => lipCached \in BOOLEAN
    BY DEF Init
  <2> QED
    BY <2>1, <2>2 DEF Init, FusionType, NoSeg
<1>3. Init => Segments
  <2>1. Init => partial <= segs /\ wire.id <= segs /\ screen = {} /\ partial = NoSeg
    BY DEF Init, NoSeg
  <2>2. Init => ~lipCached
    BY DEF Init
  <2> QED
    BY <2>1, <2>2 DEF Segments, OneLivePartial, LipMatchesPartial
<1> QED
  BY <1>1, <1>2, <1>3 DEF SegmentInv, TypeOK

\* SegmentInv is an invariant of a session.
LEMMA SegmentsInvariant == Spec => []SegmentInv
BY SegmentInit, SegmentStep, PTL DEF Spec

\* Every variable of a session keeps its type.
THEOREM TypeCorrect == Spec => []TypeOK
<1>1. SegmentInv => TypeOK
  BY DEF SegmentInv
<1> QED
  BY <1>1, SegmentsInvariant, PTL

\* The client never shows a PARTIAL that the server has forgotten, nor two.
THEOREM ScreenIsPartial == Spec => []OneLivePartial
<1>1. SegmentInv => OneLivePartial
  BY DEF SegmentInv, Segments
<1> QED
  BY <1>1, SegmentsInvariant, PTL

\* The cached lip result and the partial to be replaced come and go together.
THEOREM LipIsPartial == Spec => []LipMatchesPartial
<1>1. SegmentInv => LipMatchesPartial
  BY DEF SegmentInv, Segments
<1> QED
  BY <1>1, SegmentsInvariant, PTL

-----------------------------------------------------------------------------
(* A session implements TranscriptStream.                                  *)

\* Only Emit touches the client's side of the segments.
LEMMA OnlyEmitDelivers ==
  ASSUME [Next]_vars
  PROVE  \/ UNCHANGED <<screen, wire>>
         \/ \E status \in {"PARTIAL", "FINAL"}, clock \in Clocks : Emit(status, clock)
<1>0. "session" \in Clocks /\ "epoch" \in Clocks
  BY DEF Clocks
<1>1. ASSUME NEW b, NEW clock \in Clocks, Answered(b, clock) \/ Raised(b, clock)
      PROVE  \/ UNCHANGED <<screen, wire>>
             \/ \E status \in {"PARTIAL", "FINAL"}, k \in Clocks : Emit(status, k)
  BY <1>0, <1>1 DEF Answered, Raised, Transcribed, Suppressed, TimedOut, NoEmit
<1>2. CASE LipShown
  BY <1>0, <1>2 DEF LipShown
<1>3. CASE \/ AsrReturns \/ AsrFails \/ EndReturns
           \/ WatchdogReturns \/ WatchdogFails \/ WatchdogOutlives
  <2>1. \E b \in {rbatch, wbatch}, clock \in Clocks : Answered(b, clock) \/ Raised(b, clock)
    BY <1>0, <1>3 DEF AsrReturns, AsrFails, EndReturns, WatchdogReturns, WatchdogFails,
                      WatchdogOutlives, Answered, Raised
  <2> QED
    BY <1>1, <2>1
<1>4. CASE \/ \E n \in ChunkRows, speech \in BOOLEAN : HandleAudio(n, speech)
           \/ HandleFace \/ LipSuppressed \/ LipFails \/ HandleSessionEnd
           \/ ReceiveDisconnect \/ HandleMalformed \/ WatchdogTakes
           \/ ClientSends \/ Disconnect \/ Tick \/ UNCHANGED vars
  BY <1>4 DEF HandleAudio, HandleFace, LipSuppressed, LipFails, HandleSessionEnd,
              ReceiveDisconnect, HandleMalformed, WatchdogTakes, ClientSends,
              Disconnect, Tick, vars, fusion
<1> QED
  BY <1>2, <1>3, <1>4 DEF Next, Receive, Watchdog

\* Every step of a session is a step of the transcript or changes nothing there.
LEMMA TranscriptStep ==
  ASSUME SegmentInv, [Next]_vars
  PROVE  [Stream!Next]_<<screen, [id |-> wire.id, status |-> wire.status,
                                  replaces |-> wire.replaces]>>
<1>0. /\ segs \in Nat /\ wire.id \in Nat /\ wire.id <= segs /\ partial \in Nat
      /\ OneLivePartial
  BY DEF SegmentInv, TypeOK, FusionType, Segments
<1>1. CASE UNCHANGED <<screen, wire>>
  BY <1>1
<1>2. ASSUME NEW status \in {"PARTIAL", "FINAL"}, NEW clock \in Clocks,
             Emit(status, clock), connected
      PROVE  Stream!Next
  <2>1. wire' = [id |-> segs + 1, status |-> status, replaces |-> partial, clock |-> clock]
    BY <1>2 DEF Emit, Segment, PartialAfter
  <2>2. screen = IF partial = NoSeg THEN {} ELSE {partial}
    BY <1>0, <1>2 DEF OneLivePartial
  <2>3. screen' = IF status = "PARTIAL" THEN {segs + 1} ELSE {}
    BY <1>0, <1>2, <2>2 DEF Emit, Segment, PartialAfter, NoSeg
  <2>4. wire'.id = segs + 1 /\ wire'.status = status /\ wire'.replaces = partial
    BY <2>1
  <2>5. segs + 1 > wire.id
    BY <1>0
  <2>6. CASE status = "PARTIAL"
    BY <2>2, <2>3, <2>4, <2>5, <2>6
       DEF Stream!Next, Stream!Revise, Stream!Deliver, Stream!Named, Stream!NoSeg, NoSeg
  <2>7. CASE status = "FINAL"
    BY <2>2, <2>3, <2>4, <2>5, <2>7
       DEF Stream!Next, Stream!Settle, Stream!Deliver, Stream!Named, Stream!NoSeg, NoSeg
  <2> QED
    BY <2>6, <2>7
<1>3. ASSUME NEW status \in {"PARTIAL", "FINAL"}, NEW clock \in Clocks,
             Emit(status, clock), ~connected
      PROVE  UNCHANGED <<screen, wire>>
  BY <1>3 DEF Emit, Segment, PartialAfter
<1> QED
  BY <1>1, <1>2, <1>3, OnlyEmitDelivers

\* What the client receives is a transcript as the messages' contract has it.
THEOREM ImplementsTranscript == Spec => Transcript
<1>1. Init => Stream!Init
  BY DEF Init, Stream!Init, Stream!NoSeg, NoSeg
<1>2. SegmentInv /\ [Next]_vars
      => [Stream!Next]_<<screen, [id |-> wire.id, status |-> wire.status,
                                  replaces |-> wire.replaces]>>
  BY TranscriptStep
<1> QED
  BY <1>1, <1>2, SegmentsInvariant, PTL DEF Spec, Transcript, Stream!Spec

-----------------------------------------------------------------------------
(* What becomes of the speech                                              *)

\* A chunk number is used once, and the list and the count of the buffer agree:
\* an empty batch never goes to ASR.
FateInv ==
  /\ SegmentInv
  /\ ListMatchesCount
  /\ \A c \in spoken : c <= chunks
  /\ SpeechConserved
  /\ BufferIsNewest

-----------------------------------------------------------------------------
\* What SpeechConserved says of four places and two tasks, as one operator: it
\* lets a lemma speak of the places after a step.
Kept(all, held, r, w, h, m, x) ==
  /\ all = held \cup r \cup w \cup h \cup m \cup x
  /\ held \cap (r \cup w \cup h \cup m \cup x) = {}
  /\ r \cap (w \cup h \cup m \cup x) = {}
  /\ w \cap (h \cup m \cup x) = {}
  /\ h \cap (m \cup x) = {}
  /\ m \cap x = {}

\* A chunk that is nowhere yet may join the buffer.
LEMMA KeptNew ==
  ASSUME NEW all, NEW held, NEW r, NEW w, NEW h, NEW m, NEW x,
         Kept(all, held, r, w, h, m, x), NEW c, c \notin all
  PROVE  Kept(all \cup {c}, held \cup {c}, r, w, h, m, x)
BY DEF Kept

\* A batch leaves the buffer for a task that has none, or is missed at once.
LEMMA KeptTaken ==
  ASSUME NEW all, NEW held, NEW r, NEW w, NEW h, NEW m, NEW x,
         Kept(all, held, r, w, h, m, x), NEW b, b \subseteq held
  PROVE  /\ r = {} => Kept(all, held \ b, b, w, h, m, x)
         /\ w = {} => Kept(all, held \ b, r, b, h, m, x)
         /\ Kept(all, held \ b, r, w, h, m \cup b, x)
BY DEF Kept

\* So does all of it.
LEMMA KeptAllTaken ==
  ASSUME NEW all, NEW held, NEW r, NEW w, NEW h, NEW m, NEW x,
         Kept(all, held, r, w, h, m, x)
  PROVE  /\ r = {} => Kept(all, {}, held, w, h, m, x)
         /\ w = {} => Kept(all, {}, r, held, h, m, x)
         /\ Kept(all, {}, r, w, h, m \cup held, x)
BY DEF Kept

\* The receive loop's batch is heard or missed.
LEMMA KeptLoopEnds ==
  ASSUME NEW all, NEW held, NEW r, NEW w, NEW h, NEW m, NEW x,
         Kept(all, held, r, w, h, m, x)
  PROVE  /\ Kept(all, held, {}, w, h \cup r, m, x)
         /\ Kept(all, held, {}, w, h, m \cup r, x)
BY DEF Kept

\* The watchdog's batch is heard, missed or cut.
LEMMA KeptWatchdogEnds ==
  ASSUME NEW all, NEW held, NEW r, NEW w, NEW h, NEW m, NEW x,
         Kept(all, held, r, w, h, m, x)
  PROVE  /\ Kept(all, held, r, {}, h \cup w, m, x)
         /\ Kept(all, held, r, {}, h, m \cup w, x)
         /\ Kept(all, held, r, {}, h, m, x \cup w)
BY DEF Kept

\* FateInv in the form the proof uses.
LEMMA FateParts ==
  FateInv <=> /\ SegmentInv /\ ListMatchesCount /\ BufferIsNewest
              /\ \A c \in spoken : c <= chunks
              /\ Kept(spoken, buf, rbatch, wbatch, heard, missed, cut)
              /\ rbatch # {} <=> rpc \in {"asr", "end"}
              /\ wbatch # {} <=> wpc \in {"asr", "answered"}
BY DEF FateInv, SpeechConserved, Kept

\* A step that reads no chunk and takes nothing from the buffer, or all of it.
LEMMA BufferKeeps ==
  ASSUME BufferIsNewest, ListMatchesCount, \A c \in spoken : c <= chunks,
         UNCHANGED <<spoken, chunks>>,
         UNCHANGED <<buf, frames>> \/ (buf' = {} /\ frames' = 0)
  PROVE  (BufferIsNewest /\ ListMatchesCount /\ \A c \in spoken : c <= chunks)'
BY DEF BufferIsNewest, ListMatchesCount

\* A task that has asked ASR puts its batch with what was heard or missed.
LEMMA OutcomeMoves ==
  ASSUME NEW b, NEW clock, Answered(b, clock) \/ Raised(b, clock)
  PROVE  \/ heard' = heard \cup b /\ missed' = missed
         \/ heard' = heard /\ missed' = missed \cup b
BY DEF Answered, Raised, Transcribed, Suppressed, TimedOut

\* Reading an audio chunk.
LEMMA AudioKeepsFate ==
  ASSUME FateInv, SegmentInv', NEW n \in ChunkRows, NEW speech \in BOOLEAN,
         HandleAudio(n, speech)
  PROVE  FateInv'
<1> DEFINE c == chunks + 1
           out == Returned(c, n, speech)
<1>0. /\ SegmentInv /\ ListMatchesCount /\ BufferIsNewest
      /\ \A d \in spoken : d <= chunks
      /\ Kept(spoken, buf, rbatch, wbatch, heard, missed, cut)
      /\ rbatch # {} <=> rpc \in {"asr", "end"}
      /\ wbatch # {} <=> wpc \in {"asr", "answered"}
  BY FateParts
<1>1. MelTypeOK /\ chunks \in Nat /\ spoken \subseteq Nat
  BY <1>0 DEF SegmentInv, TypeOK, ClientType, FateType
<1>2. /\ Push(c, n, speech) /\ chunks' = c /\ rpc = "recv"
      /\ spoken' = (IF speech THEN spoken \cup {c} ELSE spoken)
      /\ UNCHANGED <<wpc, wbatch, heard, cut>>
      /\ ToAsr(out, ReturnedRows(n, speech), "asr")
  BY DEF HandleAudio
<1>3. n \in Nat \ {0}
  BY SessionAssumption
<1>4. ListMatchesCount'
  BY <1>0, <1>1, <1>2, <1>3, PushMatchesCount
<1>5. c \notin spoken /\ c \notin buf /\ (\A d \in spoken : d < c) /\ buf \subseteq spoken
  BY <1>0, <1>1 DEF Kept
<1>6. \/ out \subseteq buf /\ speech /\ buf' = {c}
      \/ buf' = {}
      \/ out = {} /\ speech /\ buf' = buf \cup {c}
      \/ out = {} /\ ~speech /\ buf' = buf
  BY <1>2, PushCases
<1>7. BufferIsNewest'
  <2>1. CASE speech /\ buf' = {c}
    BY <1>2, <1>5, <2>1 DEF BufferIsNewest
  <2>2. CASE buf' = {}
    BY <2>2 DEF BufferIsNewest
  <2>3. CASE speech /\ buf' = buf \cup {c}
    BY <1>0, <1>2, <1>5, <2>3 DEF BufferIsNewest
  <2>4. CASE ~speech /\ buf' = buf
    BY <1>0, <1>2, <2>4 DEF BufferIsNewest
  <2> QED
    BY <1>6, <2>1, <2>2, <2>3, <2>4
<1>8. \A d \in spoken' : d <= chunks'
  BY <1>0, <1>1, <1>2
<1>9. Kept(spoken', IF speech THEN buf \cup {c} ELSE buf, rbatch, wbatch, heard, missed, cut)
  BY <1>0, <1>2, <1>5, KeptNew
<1>10. /\ out \subseteq (IF speech THEN buf \cup {c} ELSE buf)
       /\ buf' = (IF speech THEN buf \cup {c} ELSE buf) \ out
  BY <1>2, <1>5, PushConserves
<1>11. rbatch = {} /\ (out = {} => Kept(spoken', buf', rbatch, wbatch, heard, missed, cut))
  BY <1>0, <1>2, <1>9, <1>10
<1> HIDE DEF c, out
<1>12. CASE rpc' = "asr" /\ rbatch' = out /\ out # {} /\ missed' = missed
  <2>1. Kept(spoken', buf', rbatch', wbatch', heard', missed', cut')
    BY <1>2, <1>9, <1>10, <1>11, <1>12, KeptTaken
  <2> QED
    BY <1>0, <1>2, <1>4, <1>7, <1>8, <1>12, <2>1 DEF FateInv, SpeechConserved, Kept
<1>13. CASE missed' = missed \cup out /\ UNCHANGED <<rpc, rbatch>>
  <2>1. Kept(spoken', buf', rbatch', wbatch', heard', missed', cut')
    BY <1>2, <1>9, <1>10, <1>13, KeptTaken
  <2> QED
    BY <1>0, <1>2, <1>4, <1>7, <1>8, <1>13, <2>1 DEF FateInv, SpeechConserved, Kept
<1> QED
  BY <1>2, <1>12, <1>13 DEF ToAsr

\* When the loop ends, the watchdog's batch is cut, or stays with its answer.
LEMMA LeaveKeepsFate ==
  ASSUME NEW all, NEW held, NEW h, NEW m, Kept(all, held, {}, wbatch, h, m, cut),
         wbatch # {} <=> wpc \in {"asr", "answered"}, Leave
  PROVE  /\ Kept(all, held, {}, wbatch', h, m, cut')
         /\ wbatch' # {} <=> wpc' \in {"asr", "answered"}
         /\ rbatch' = {} /\ rpc' = "done"
<1>1. CASE wbatch' = {} /\ cut' = cut \cup wbatch /\ wpc' \in {"dead", "cancelled"}
  BY <1>1, KeptWatchdogEnds DEF Leave
<1>2. CASE wpc = "asr" /\ wpc' = "answered" /\ UNCHANGED <<wbatch, cut>>
  BY <1>2 DEF Leave
<1> QED
  BY <1>1, <1>2 DEF Leave

\* Every other action of the receive loop.
LEMMA ReceiveKeepsFate ==
  ASSUME FateInv, SegmentInv', Receive
  PROVE  FateInv'
<1>0. /\ SegmentInv /\ ListMatchesCount /\ BufferIsNewest
      /\ \A d \in spoken : d <= chunks
      /\ Kept(spoken, buf, rbatch, wbatch, heard, missed, cut)
      /\ rbatch # {} <=> rpc \in {"asr", "end"}
      /\ wbatch # {} <=> wpc \in {"asr", "answered"}
  BY FateParts
<1>a. ASSUME UNCHANGED <<spoken, chunks>>,
             UNCHANGED <<buf, frames>> \/ (buf' = {} /\ frames' = 0),
             Kept(spoken', buf', rbatch', wbatch', heard', missed', cut'),
             rbatch' # {} <=> rpc' \in {"asr", "end"},
             wbatch' # {} <=> wpc' \in {"asr", "answered"}
      PROVE  FateInv'
  <2>1. (BufferIsNewest /\ ListMatchesCount /\ \A c \in spoken : c <= chunks)'
    BY <1>0, <1>a, BufferKeeps
  <2> QED
    BY <1>a, <2>1 DEF FateInv, SpeechConserved, Kept
<1>1. ASSUME NEW n \in ChunkRows, NEW speech \in BOOLEAN, HandleAudio(n, speech)
      PROVE  FateInv'
  BY <1>1, AudioKeepsFate
<1>2. CASE HandleFace \/ LipSuppressed
  <2>1. /\ UNCHANGED <<buf, frames, rbatch, wbatch, wpc, spoken, heard, missed, cut, chunks>>
        /\ rpc \in {"recv", "lip"} /\ rpc' \in {"recv", "lip"}
    BY <1>2 DEF HandleFace, LipSuppressed, melVars, fate, client
  <2> QED
    BY <1>0, <1>a, <2>1
<1>3. CASE LipShown \/ LipFails \/ ReceiveDisconnect \/ HandleMalformed
  <2>1. /\ UNCHANGED <<buf, frames, spoken, heard, missed, chunks>>
        /\ rpc \in {"recv", "lip"}
    BY <1>3 DEF LipShown, LipFails, ReceiveDisconnect, HandleMalformed, melVars, client
  <2>a. \/ Leave
        \/ rpc' = "recv" /\ UNCHANGED <<rbatch, wpc, wbatch, cut>>
    BY <1>3 DEF LipShown, LipFails, ReceiveDisconnect, HandleMalformed
  <2>2. rbatch = {}
    BY <1>0, <2>1
  <2>3. CASE Leave
    <3>1. /\ Kept(spoken, buf, {}, wbatch', heard, missed, cut')
          /\ wbatch' # {} <=> wpc' \in {"asr", "answered"}
          /\ rbatch' = {} /\ rpc' = "done"
      BY <1>0, <2>2, <2>3, LeaveKeepsFate
    <3> QED
      BY <1>a, <2>1, <3>1
  <2>4. CASE rpc' = "recv" /\ UNCHANGED <<rbatch, wpc, wbatch, cut>>
    BY <1>0, <1>a, <2>1, <2>2, <2>4
  <2> QED
    BY <2>a, <2>3, <2>4
<1>4. CASE AsrReturns \/ AsrFails \/ EndReturns
  <2>1. /\ UNCHANGED <<buf, frames, spoken, chunks>>
        /\ \/ heard' = heard \cup rbatch /\ missed' = missed
           \/ heard' = heard /\ missed' = missed \cup rbatch
        /\ \/ Leave
           \/ rpc' = "recv" /\ rbatch' = {} /\ UNCHANGED <<wpc, wbatch, cut>>
    BY <1>4, OutcomeMoves DEF AsrReturns, AsrFails, EndReturns, melVars, client
  <2>2. Kept(spoken', buf', {}, wbatch, heard', missed', cut)
    <3>1. /\ Kept(spoken, buf, {}, wbatch, heard \cup rbatch, missed, cut)
          /\ Kept(spoken, buf, {}, wbatch, heard, missed \cup rbatch, cut)
      BY <1>0, KeptLoopEnds
    <3> QED
      BY <2>1, <3>1
  <2>3. CASE Leave
    <3>1. /\ Kept(spoken', buf', {}, wbatch', heard', missed', cut')
          /\ wbatch' # {} <=> wpc' \in {"asr", "answered"}
          /\ rbatch' = {} /\ rpc' = "done"
      BY <1>0, <2>2, <2>3, LeaveKeepsFate
    <3> QED
      BY <1>a, <2>1, <3>1
  <2>4. CASE rpc' = "recv" /\ rbatch' = {} /\ UNCHANGED <<wpc, wbatch, cut>>
    BY <1>0, <1>a, <2>1, <2>2, <2>4
  <2> QED
    BY <2>1, <2>3, <2>4
<1>5. CASE HandleSessionEnd
  <2>1. /\ buf' = {} /\ frames' = 0 /\ UNCHANGED <<spoken, heard, chunks>> /\ rpc = "recv"
        /\ \/ /\ buf # {} /\ rpc' = "end" /\ rbatch' = buf
              /\ UNCHANGED <<wpc, wbatch, missed, cut>>
           \/ Leave /\ missed' = missed \cup buf
    BY <1>5 DEF HandleSessionEnd, TakePending, Hold
  <2>2. rbatch = {}
    BY <1>0, <2>1
  <2>3. CASE /\ buf # {} /\ rpc' = "end" /\ rbatch' = buf
             /\ UNCHANGED <<wpc, wbatch, missed, cut>>
    <3>1. Kept(spoken, {}, buf, wbatch, heard, missed, cut)
      BY <1>0, <2>2, KeptAllTaken
    <3> QED
      BY <1>0, <1>a, <2>1, <2>3, <3>1
  <2>4. CASE Leave /\ missed' = missed \cup buf
    <3>1. Kept(spoken, {}, {}, wbatch, heard, missed \cup buf, cut)
      BY <1>0, <2>2, KeptAllTaken
    <3>2. /\ Kept(spoken, {}, {}, wbatch', heard, missed \cup buf, cut')
          /\ wbatch' # {} <=> wpc' \in {"asr", "answered"}
          /\ rbatch' = {} /\ rpc' = "done"
      BY <1>0, <2>4, <3>1, LeaveKeepsFate
    <3> QED
      BY <1>a, <2>1, <2>4, <3>2
  <2> QED
    BY <2>1, <2>3, <2>4
<1> QED
  BY <1>1, <1>2, <1>3, <1>4, <1>5 DEF Receive

\* Every step keeps FateInv.
LEMMA FateStep == FateInv /\ [Next]_vars => FateInv'
<1> SUFFICES ASSUME FateInv, [Next]_vars PROVE FateInv'
  OBVIOUS
<1>0. /\ SegmentInv /\ ListMatchesCount /\ BufferIsNewest
      /\ \A d \in spoken : d <= chunks
      /\ Kept(spoken, buf, rbatch, wbatch, heard, missed, cut)
      /\ rbatch # {} <=> rpc \in {"asr", "end"}
      /\ wbatch # {} <=> wpc \in {"asr", "answered"}
  BY FateParts
<1>1. SegmentInv'
  BY <1>0, SegmentStep
<1>a. ASSUME UNCHANGED <<spoken, chunks, rpc, rbatch>>,
             UNCHANGED <<buf, frames>> \/ (buf' = {} /\ frames' = 0),
             Kept(spoken', buf', rbatch', wbatch', heard', missed', cut'),
             wbatch' # {} <=> wpc' \in {"asr", "answered"}
      PROVE  FateInv'
  <2>1. (BufferIsNewest /\ ListMatchesCount /\ \A c \in spoken : c <= chunks)'
    BY <1>0, <1>a, BufferKeeps
  <2> QED
    BY <1>0, <1>1, <1>a, <2>1 DEF FateInv, SpeechConserved, Kept
<1>2. CASE Receive
  BY <1>1, <1>2, ReceiveKeepsFate
<1>3. CASE WatchdogTakes
  <2>1. /\ buf' = {} /\ frames' = 0 /\ frames > 0 /\ wpc = "sleep"
        /\ UNCHANGED <<spoken, heard, cut, chunks, rpc, rbatch>>
        /\ \/ wpc' = "asr" /\ wbatch' = buf /\ missed' = missed
           \/ missed' = missed \cup buf /\ UNCHANGED <<wpc, wbatch>>
    BY <1>3 DEF WatchdogTakes, TakeIfStale, Stale, TakePending, Hold, client
  <2>2. wbatch = {} /\ buf # {}
    BY <1>0, <2>1 DEF ListMatchesCount
  <2>3. Kept(spoken', buf', rbatch', wbatch', heard', missed', cut')
    <3>1. /\ Kept(spoken, {}, rbatch, buf, heard, missed, cut)
          /\ Kept(spoken, {}, rbatch, wbatch, heard, missed \cup buf, cut)
      BY <1>0, <2>2, KeptAllTaken
    <3> QED
      BY <2>1, <3>1
  <2> QED
    BY <1>a, <2>1, <2>2, <2>3
<1>4. CASE WatchdogReturns \/ WatchdogFails \/ WatchdogOutlives
  <2>1. /\ UNCHANGED <<buf, frames, spoken, cut, chunks, rpc, rbatch>>
        /\ wpc' \notin {"asr", "answered"} /\ wbatch' = {}
        /\ \/ heard' = heard \cup wbatch /\ missed' = missed
           \/ heard' = heard /\ missed' = missed \cup wbatch
    BY <1>4, OutcomeMoves DEF WatchdogReturns, WatchdogFails, WatchdogOutlives,
                              Answered, Raised, melVars, client
  <2>2. Kept(spoken', buf', rbatch', wbatch', heard', missed', cut')
    <3>1. /\ Kept(spoken, buf, rbatch, {}, heard \cup wbatch, missed, cut)
          /\ Kept(spoken, buf, rbatch, {}, heard, missed \cup wbatch, cut)
      BY <1>0, KeptWatchdogEnds
    <3> QED
      BY <2>1, <3>1
  <2> QED
    BY <1>a, <2>1, <2>2
<1>5. CASE ClientSends \/ Disconnect \/ Tick \/ UNCHANGED vars
  <2>1. UNCHANGED <<buf, frames, rpc, rbatch, wpc, wbatch, spoken, heard, missed, cut, chunks>>
    BY <1>5 DEF ClientSends, Disconnect, Tick, Elapse, vars, melVars, tasks, client, fate
  <2> QED
    BY <1>0, <1>a, <2>1
<1> QED
  BY <1>2, <1>3, <1>4, <1>5 DEF Next, Watchdog

\* FateInv holds in every state.
LEMMA FateInvariant == Spec => []FateInv
<1>1. Init => FateInv
  <2>1. Init => ListMatchesCount /\ BufferIsNewest /\ spoken = {}
    BY DEF Init, MelInit, ListMatchesCount, BufferIsNewest
  <2>2. Init => SpeechConserved
    BY DEF Init, MelInit, SpeechConserved
  <2> QED
    BY <2>1, <2>2, SegmentInit DEF FateInv
<1> QED
  BY <1>1, FateStep, PTL DEF Spec

\* No speech is lost, nor transcribed twice, whoever takes it: each chunk is held,
\* with one task, or has one fate.
THEOREM EveryChunkHasOneFate == Spec => []SpeechConserved
<1>1. FateInv => SpeechConserved
  BY DEF FateInv
<1> QED
  BY <1>1, FateInvariant, PTL

\* Batches are formed in order, though either task may take the buffer: what is
\* held is newer than all that was taken.
THEOREM NewestIsHeld == Spec => []BufferIsNewest
<1>1. FateInv => BufferIsNewest
  BY DEF FateInv
<1> QED
  BY <1>1, FateInvariant, PTL

-----------------------------------------------------------------------------
(* The end of a session                                                    *)

\* The watchdog does not outlive the receive loop, but by an answer that came with the
\* cancellation; and one that does finds no speech in a session that was asked to end.
Closed ==
  /\ rpc = "done" /\ ~outlived => wpc \in {"dead", "cancelled"}
  /\ ended => rpc \in {"end", "done"} /\ frames = 0
  /\ ended /\ rpc = "done" => wpc # "asr"

\* Every exit of the loop goes through Leave, which cancels the watchdog, and nothing
\* starts it again; a loop that was asked to end reads no more speech.
LEMMA ClosedStep == Closed /\ [Next]_vars => Closed'
<1> SUFFICES ASSUME Closed, [Next]_vars PROVE Closed'
  OBVIOUS
<1>1. ASSUME Leave, UNCHANGED <<frames, ended>>
      PROVE  Closed'
  BY <1>1 DEF Leave, Closed
<1>2. ASSUME NEW n \in ChunkRows, NEW speech \in BOOLEAN, HandleAudio(n, speech)
      PROVE  Closed'
  <2>1. ~ended' /\ rpc' \in {"recv", "asr"}
    BY <1>2 DEF HandleAudio, ToAsr, Closed
  <2> QED
    BY <2>1 DEF Closed
<1>3. CASE HandleFace \/ LipSuppressed
  BY <1>3 DEF HandleFace, LipSuppressed, Closed, client
<1>4. CASE LipShown \/ LipFails
  <2>1. ~ended /\ ended' = ended /\ frames' = frames
    BY <1>4 DEF LipShown, LipFails, Closed, client, melVars
  <2>2. CASE Leave
    BY <1>1, <2>1, <2>2
  <2>3. CASE rpc' = "recv"
    BY <2>1, <2>3 DEF Closed
  <2> QED
    BY <1>4, <2>2, <2>3 DEF LipShown, LipFails
<1>5. CASE AsrReturns
  BY <1>5 DEF AsrReturns, Closed, client
<1>6. CASE AsrFails \/ EndReturns \/ ReceiveDisconnect \/ HandleMalformed
  BY <1>1, <1>6 DEF AsrFails, EndReturns, ReceiveDisconnect, HandleMalformed, client, melVars
<1>7. CASE HandleSessionEnd
  <2>1. frames' = 0 /\ rpc' \in {"end", "done"}
    BY <1>7 DEF HandleSessionEnd, TakePending, Hold, Leave
  <2>2. rpc' = "done" => Leave
    BY <1>7 DEF HandleSessionEnd
  <2> QED
    BY <2>1, <2>2 DEF Leave, Closed
<1>8. CASE WatchdogTakes
  <2>1. ~ended
    BY <1>8 DEF WatchdogTakes, TakeIfStale, Stale, Closed
  <2> QED
    BY <1>8, <2>1 DEF WatchdogTakes, Closed, client
<1>9. CASE WatchdogReturns \/ WatchdogFails \/ WatchdogOutlives
  BY <1>9 DEF WatchdogReturns, WatchdogFails, WatchdogOutlives, Closed, client, melVars
<1>10. CASE ClientSends \/ Disconnect \/ Tick \/ UNCHANGED vars
  BY <1>10 DEF ClientSends, Disconnect, Tick, Elapse, vars, melVars, tasks, client, Closed
<1> QED
  BY <1>2, <1>3, <1>4, <1>5, <1>6, <1>7, <1>8, <1>9, <1>10 DEF Next, Receive, Watchdog

\* Once the loop has ended, by whatever exit, no step sends a segment or takes speech,
\* but a watchdog's whose answer came with the cancellation; and in a session that was
\* asked to end, that one sends no more than the answer.
THEOREM NothingAfterTeardown == Spec => SilentAfterTeardown
<1>1. Init => Closed
  BY DEF Init, MelInit, Closed
<1>2. ASSUME Closed, [Next]_vars, rpc = "done"
      PROVE  /\ outlived \/ UNCHANGED <<wire, segs, buf, wbatch>>
             /\ ended => UNCHANGED buf /\ (UNCHANGED <<wire, segs>> \/ wpc = "answered")
  <2>1. ~Receive
    BY <1>2 DEF Receive, HandleAudio, HandleFace, LipShown, LipSuppressed, LipFails,
                AsrReturns, AsrFails, HandleSessionEnd, EndReturns, ReceiveDisconnect,
                HandleMalformed
  <2>2. CASE ClientSends \/ Disconnect \/ Tick \/ UNCHANGED vars
    BY <1>2, <2>2 DEF ClientSends, Disconnect, Tick, Elapse, vars, melVars, fusion, tasks
  <2>3. CASE WatchdogTakes
    BY <1>2, <2>3 DEF WatchdogTakes, TakeIfStale, Stale, Closed
  <2>4. CASE WatchdogReturns \/ WatchdogFails
    BY <1>2, <2>4 DEF WatchdogReturns, WatchdogFails, Closed
  <2>5. CASE WatchdogOutlives
    BY <1>2, <2>5 DEF WatchdogOutlives, Closed, melVars
  <2> QED
    BY <1>2, <2>1, <2>2, <2>3, <2>4, <2>5 DEF Next, Watchdog
<1>3. Closed /\ [Next]_vars =>
        [rpc = "done" =>
           /\ outlived \/ UNCHANGED <<wire, segs, buf, wbatch>>
           /\ ended => UNCHANGED buf /\ (UNCHANGED <<wire, segs>> \/ wpc = "answered")]_vars
  BY <1>2
<1> QED
  BY <1>1, <1>3, ClosedStep, PTL DEF Spec, SilentAfterTeardown
=============================================================================
