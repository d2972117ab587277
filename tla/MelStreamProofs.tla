-------------------------- MODULE MelStreamProofs ---------------------------
(***************************************************************************)
(* For every ceiling, silence limit and chunk size: a batch never spans a  *)
(* silence that should have ended it, and no speech chunk is lost or       *)
(* returned twice.  And for every number of mel bins and window: Whisper   *)
(* hears each batch whole and in its place, if a batch long enough for it  *)
(* has more frames than there are bins.                                    *)
(***************************************************************************)
EXTENDS WhisperInput, MelAccumulatorProofs

\* NeverSpansSilence needs to know that the code counts at least the real
\* silence; it counts more, since a pause and the chunk that ends it overlap.
SilenceInv == TypeOK /\ CountsEnoughSilence /\ NeverSpansSilence

\* A chunk number is used once, which SpeechConserved needs.
ChunkInv ==
  /\ TypeOK
  /\ SpeechConserved
  /\ \A c \in spoken : c <= pushed

-----------------------------------------------------------------------------
\* Return gives its variables values of their types.
LEMMA ReturnType ==
  ASSUME TypeOK, NEW end \in Ends, NEW chunks \in SUBSET Nat, NEW rows \in Nat,
         NEW gap \in Nat, Return(end, chunks, rows, gap)
  PROVE  /\ returned' \subseteq Nat
         /\ batch' \in [end : Ends, rows : Nat, quiet : Nat, inner : Nat,
                        kept : BOOLEAN]
BY DEF Return, TypeOK

\* GapTo is a duration.
LEMMA GapToType == ASSUME TypeOK, NEW n \in Nat PROVE GapTo(n) \in Nat
BY DEF GapTo, TypeOK, MelTypeOK

\* A chunk has at least one row.
LEMMA RowsType == ASSUME NEW n \in ChunkRows PROVE n \in Nat /\ n > 0
BY StreamAssumption, MelAssumption

\* Type correctness.
LEMMA TypeStep == TypeOK /\ [Next]_vars => TypeOK'
<1> SUFFICES ASSUME TypeOK, [Next]_vars PROVE TypeOK'
  OBVIOUS
<1>1. ASSUME NEW n \in ChunkRows, Speak(n) PROVE TypeOK'
  <2>0. n \in Nat /\ Push(pushed + 1, n, TRUE) /\ pushed' = pushed + 1
    BY <1>1, RowsType DEF Speak
  <2>1. pushed + 1 \in Nat
    BY DEF TypeOK
  <2>2. MelTypeOK' /\ Returned(pushed + 1, n, TRUE) \in SUBSET Nat
        /\ ReturnedRows(n, TRUE) \in Nat
    BY <2>0, <2>1, PushType DEF TypeOK
  <2>3. GapTo(n) \in Nat /\ inner \in Nat
    BY <2>0, GapToType DEF TypeOK
  <2>4. /\ returned' \subseteq Nat
        /\ batch' \in [end : Ends, rows : Nat, quiet : Nat, inner : Nat, kept : BOOLEAN]
        /\ inner' \in Nat /\ kept' \in BOOLEAN
    <3>0. "gap" \in Ends /\ "ceiling" \in Ends
      BY DEF Ends
    <3>1. CASE /\ Return("gap", Returned(pushed + 1, n, TRUE), ReturnedRows(n, TRUE), inner)
               /\ inner' = 0 /\ kept' = FALSE
      BY <2>2, <2>3, <3>0, <3>1, ReturnType
    <3>2. CASE /\ Return("ceiling", Returned(pushed + 1, n, TRUE), ReturnedRows(n, TRUE),
                         GapTo(n))
               /\ inner' = 0 /\ kept' = FALSE
      BY <2>2, <2>3, <3>0, <3>2, ReturnType
    <3>3. CASE inner' = GapTo(n) /\ UNCHANGED <<returned, batch, kept>>
      BY <2>3, <3>3 DEF TypeOK
    <3> QED
      BY <1>1, <3>1, <3>2, <3>3 DEF Speak
  <2>5. pushed' \in Nat /\ spoken' \subseteq Nat /\ quiet' \in Nat /\ dropped' \subseteq Nat
    BY <1>1, <2>0, <2>1 DEF Speak, TypeOK
  <2> QED
    BY <2>2, <2>4, <2>5 DEF TypeOK
<1>2. ASSUME NEW n \in ChunkRows, Hush(n) PROVE TypeOK'
  <2>0. n \in Nat /\ Push(pushed + 1, n, FALSE) /\ pushed' = pushed + 1
    BY <1>2, RowsType DEF Hush
  <2>1. pushed + 1 \in Nat
    BY DEF TypeOK
  <2>2. MelTypeOK' /\ Returned(pushed + 1, n, FALSE) \in SUBSET Nat
        /\ ReturnedRows(n, FALSE) \in Nat
    BY <2>0, <2>1, PushType DEF TypeOK
  <2>3. /\ returned' \subseteq Nat
        /\ batch' \in [end : Ends, rows : Nat, quiet : Nat, inner : Nat, kept : BOOLEAN]
        /\ inner' \in Nat /\ kept' \in BOOLEAN /\ quiet' \in Nat
    <3>1. CASE Flushes(n, FALSE)
      <4>1. (IF GapEnds THEN "gap" ELSE "silence") \in Ends /\ inner \in Nat
        BY DEF Ends, TypeOK
      <4>2. /\ Return(IF GapEnds THEN "gap" ELSE "silence", Returned(pushed + 1, n, FALSE),
                      ReturnedRows(n, FALSE), inner)
            /\ quiet' = 0 /\ inner' = 0 /\ kept' = FALSE
        BY <1>2, <3>1 DEF Hush
      <4> QED
        BY <2>2, <4>1, <4>2, ReturnType
    <3>2. CASE ~Flushes(n, FALSE)
      BY <1>2, <3>2 DEF Hush, TypeOK
    <3> QED
      BY <3>1, <3>2
  <2>4. pushed' \in Nat /\ spoken' \subseteq Nat /\ dropped' \subseteq Nat
    BY <1>2, <2>0, <2>1 DEF Hush, TypeOK
  <2> QED
    BY <2>2, <2>3, <2>4 DEF TypeOK
<1>3. CASE PollStale
  <2>1. "stale" \in Ends /\ buf \in SUBSET Nat /\ frames \in Nat /\ inner \in Nat
    BY DEF Ends, TypeOK, MelTypeOK
  <2> QED
    BY <1>3, <2>1, ReturnType DEF PollStale, TakeIfStale, TakePending, Hold, TypeOK, MelTypeOK
<1>4. CASE PollShort
  BY <1>4 DEF PollShort, melVars, TypeOK, MelTypeOK
<1>5. CASE Drain
  <2>1. "pending" \in Ends /\ buf \in SUBSET Nat /\ frames \in Nat /\ inner \in Nat
    BY DEF Ends, TypeOK, MelTypeOK
  <2> QED
    BY <1>5, <2>1, ReturnType DEF Drain, TakePending, Hold, TypeOK, MelTypeOK
<1>6. CASE Forget
  BY <1>6 DEF Forget, Reset, Hold, TypeOK, MelTypeOK
<1>7. CASE Tick
  BY <1>7 DEF Tick, Elapse, TypeOK, MelTypeOK
<1>8. CASE UNCHANGED vars
  BY <1>8 DEF vars, melVars, streamVars, TypeOK, MelTypeOK
<1> QED
  BY <1>1, <1>2, <1>3, <1>4, <1>5, <1>6, <1>7, <1>8 DEF Next

\* The initial values have their types.
LEMMA InitType == Init => TypeOK
<1>1. "none" \in Ends
  BY DEF Ends
<1>2. Init => MelTypeOK
  BY DEF Init, MelInit, MelTypeOK
<1>3. Init => batch \in [end : Ends, rows : Nat, quiet : Nat, inner : Nat, kept : BOOLEAN]
  BY <1>1 DEF Init
<1>4. Init => kept \in BOOLEAN
  BY DEF Init
<1> QED
  BY <1>2, <1>3, <1>4 DEF Init, TypeOK

\* Every variable of MelStream keeps its type.
THEOREM TypeCorrect == Spec => []TypeOK
BY InitType, TypeStep, PTL DEF Spec

-----------------------------------------------------------------------------
\* The silence between a chunk and the last one held is below the limit unless
\* push flushes: the wall-clock gap alone reaches it.
LEMMA GapToShort ==
  ASSUME SilenceInv, NEW n \in ChunkRows, n <= idle, ~GapEnds
  PROVE  GapTo(n) < MinSilence
<1>1. n \in Nat /\ n > 0
  BY RowsType
<1>2. /\ frames \in Nat /\ silence \in Nat /\ idle \in Nat /\ quiet \in Nat
      /\ inner \in Nat /\ MinSilence \in Nat /\ inner < MinSilence
  BY MelAssumption DEF SilenceInv, TypeOK, MelTypeOK, NeverSpansSilence
<1>3. CASE frames > 0
  <2>1. quiet <= silence + idle
    BY <1>3 DEF SilenceInv, CountsEnoughSilence
  <2>2. silence + idle < MinSilence
    BY <1>1, <1>2, <1>3 DEF GapEnds, SilenceWithGap
  <2> QED
    BY <1>1, <1>2, <2>1, <2>2 DEF GapTo
<1>4. CASE ~(frames > 0)
  BY <1>2, <1>4 DEF GapTo
<1> QED
  BY <1>3, <1>4

\* Every step keeps SilenceInv.
LEMMA SilenceStep == SilenceInv /\ [Next]_vars => SilenceInv'
<1> SUFFICES ASSUME SilenceInv, [Next]_vars
             PROVE  CountsEnoughSilence' /\ NeverSpansSilence'
  BY TypeStep DEF SilenceInv
<1>0. /\ frames \in Nat /\ silence \in Nat /\ idle \in Nat /\ quiet \in Nat
      /\ inner \in Nat /\ inner < MinSilence /\ batch.inner < MinSilence
      /\ MinSilence \in Nat /\ 0 < MinSilence
      /\ (frames > 0 => quiet <= silence + idle)
  BY MelAssumption DEF SilenceInv, TypeOK, MelTypeOK, NeverSpansSilence, CountsEnoughSilence
<1>1. ASSUME NEW n \in ChunkRows, Speak(n)
      PROVE  CountsEnoughSilence' /\ NeverSpansSilence'
  <2>0. /\ n \in Nat /\ n <= idle /\ Push(pushed + 1, n, TRUE)
        /\ quiet' = 0
    BY <1>1, RowsType DEF Speak
  <2>1. silence' = 0 /\ idle' = 0
    BY <2>0, PushCases
  <2>5. CountsEnoughSilence'
    BY <2>0, <2>1 DEF CountsEnoughSilence
  <2>2. CASE /\ GapEnds /\ inner' = 0
             /\ Return("gap", Returned(pushed + 1, n, TRUE), ReturnedRows(n, TRUE), inner)
    <3>1. batch'.inner = inner
      BY <2>2 DEF Return
    <3> QED
      BY <1>0, <2>2, <2>5, <3>1 DEF NeverSpansSilence
  <2>3. CASE /\ CeilingEnds(n, TRUE) /\ inner' = 0
             /\ Return("ceiling", Returned(pushed + 1, n, TRUE), ReturnedRows(n, TRUE),
                       GapTo(n))
    <3>1. GapTo(n) < MinSilence
      BY <1>1, <2>0, <2>3, GapToShort DEF CeilingEnds
    <3>2. batch'.inner = GapTo(n)
      BY <2>3 DEF Return
    <3> QED
      BY <1>0, <2>3, <2>5, <3>1, <3>2 DEF NeverSpansSilence
  <2>4. CASE ~Flushes(n, TRUE) /\ inner' = GapTo(n) /\ batch' = batch
    <3>1. GapTo(n) < MinSilence
      BY <1>1, <2>0, <2>4, GapToShort DEF Flushes
    <3> QED
      BY <1>0, <2>4, <2>5, <3>1 DEF NeverSpansSilence
  <2> QED
    BY <1>1, <2>2, <2>3, <2>4 DEF Speak
<1>2. ASSUME NEW n \in ChunkRows, Hush(n)
      PROVE  CountsEnoughSilence' /\ NeverSpansSilence'
  <2>0. n \in Nat /\ Push(pushed + 1, n, FALSE)
    BY <1>2, RowsType DEF Hush
  <2>1. CASE Flushes(n, FALSE)
    <3>1. frames' = 0
      BY <2>0, <2>1, PushCases
    <3>2. /\ Return(IF GapEnds THEN "gap" ELSE "silence", Returned(pushed + 1, n, FALSE),
                    ReturnedRows(n, FALSE), inner)
          /\ inner' = 0
      BY <1>2, <2>1 DEF Hush
    <3>3. batch'.inner = inner
      BY <3>2 DEF Return
    <3> QED
      BY <1>0, <3>1, <3>2, <3>3 DEF CountsEnoughSilence, NeverSpansSilence
  <2>2. CASE ~Flushes(n, FALSE)
    <3>1. /\ frames' = frames /\ idle' = 0
          /\ (frames > 0 => silence' = silence + idle + n)
      BY <2>0, <2>2, PushCases DEF SilenceWithGap
    <3>2. UNCHANGED <<quiet, inner, batch>>
      BY <1>2, <2>2 DEF Hush
    <3> QED
      BY <1>0, <2>0, <3>1, <3>2 DEF CountsEnoughSilence, NeverSpansSilence
  <2> QED
    BY <2>1, <2>2
<1>3. CASE PollStale \/ Drain
  <2>1. frames' = 0 /\ batch'.inner = inner /\ inner' = 0
    BY <1>3 DEF PollStale, Drain, TakeIfStale, TakePending, Hold, Return
  <2> QED
    BY <1>0, <2>1 DEF CountsEnoughSilence, NeverSpansSilence
<1>4. CASE PollShort
  BY <1>0, <1>4 DEF PollShort, melVars, CountsEnoughSilence, NeverSpansSilence
<1>5. CASE Forget
  BY <1>0, <1>5 DEF Forget, Reset, Hold, CountsEnoughSilence, NeverSpansSilence
<1>6. CASE Tick
  BY <1>0, <1>6 DEF Tick, Elapse, CountsEnoughSilence, NeverSpansSilence
<1>7. CASE UNCHANGED vars
  BY <1>0, <1>7 DEF vars, melVars, streamVars, CountsEnoughSilence, NeverSpansSilence
<1> QED
  BY <1>1, <1>2, <1>3, <1>4, <1>5, <1>6, <1>7 DEF Next

-----------------------------------------------------------------------------
\* Every step keeps ChunkInv: push takes the next number, and what it and the
\* other calls return leaves the buffer.
LEMMA ChunkStep == ChunkInv /\ [Next]_vars => ChunkInv'
<1> SUFFICES ASSUME ChunkInv, [Next]_vars
             PROVE  SpeechConserved' /\ \A c \in spoken' : c <= pushed'
  BY TypeStep DEF ChunkInv
<1>0. /\ MelTypeOK /\ ListMatchesCount /\ pushed \in Nat
      /\ spoken = buf \cup returned \cup dropped
      /\ returned \cap dropped = {}
      /\ \A c \in buf : \A d \in returned \cup dropped : d < c
      /\ \A c \in spoken : c \in Nat /\ c <= pushed
  BY DEF ChunkInv, TypeOK, SpeechConserved
<1>a. buf \subseteq Nat
  BY <1>0 DEF MelTypeOK
<1>b. buf \cap (returned \cup dropped) = {}
  <2>1. ASSUME NEW d, d \in buf, d \in returned \cup dropped PROVE FALSE
    <3>1. d < d /\ d \in Nat
      BY <1>0, <1>a, <2>1
    <3> QED
      BY <3>1
  <2> QED
    BY <2>1
<1>1. ASSUME NEW n \in ChunkRows, Speak(n)
      PROVE  SpeechConserved' /\ \A c \in spoken' : c <= pushed'
  <2> DEFINE c == pushed + 1
             out == Returned(c, n, TRUE)
  <2>b. n \in Nat \ {0}
    BY <1>1, RowsType
  <2>1. /\ n \in Nat \ {0} /\ Push(c, n, TRUE) /\ pushed' = c /\ dropped' = dropped
        /\ spoken' = spoken \cup {c}
    BY <1>1, <2>b DEF Speak
  <2>2. ListMatchesCount'
    BY <1>0, <2>1, PushMatchesCount
  <2>3. c \in Nat /\ c \notin spoken /\ (\A d \in spoken : d < c)
    BY <1>0
  <2>4. buf' \cup out = buf \cup {c} /\ buf' \cap out = {}
    BY <1>0, <2>1, <2>3, PushConserves
  <2>a. \/ out \subseteq buf /\ buf' = {c}
        \/ buf' = {}
        \/ out = {} /\ buf' = buf \cup {c}
    BY <2>1, PushCases
  <2>5. returned' = returned \cup out
    <3>1. ~Flushes(n, TRUE) => out = {}
      BY <2>1, PushReturnsBatch, <1>0
    <3>2. \/ \E end, rows, gap : Return(end, out, rows, gap)
          \/ ~Flushes(n, TRUE) /\ returned' = returned
      BY <1>1 DEF Speak
    <3> QED
      BY <3>1, <3>2 DEF Return
  <2>6. spoken' = buf' \cup returned' \cup dropped'
    BY <1>0, <2>1, <2>4, <2>5
  <2>c. out \cap dropped = {}
    <3>1. out \subseteq buf \cup {c} /\ c \notin dropped
      BY <1>0, <2>3, <2>4
    <3> QED
      BY <1>b, <3>1
  <2>7. returned' \cap dropped' = {}
    BY <1>0, <2>1, <2>5, <2>c
  <2>8. \A b \in buf' : \A d \in returned' \cup dropped' : d < b
    <3>1. \A d \in returned \cup dropped \cup buf : d < c
      BY <1>0, <2>3
    <3>2. CASE out \subseteq buf /\ buf' = {c}
      BY <2>1, <2>5, <3>1, <3>2
    <3>3. CASE buf' = {}
      BY <3>3
    <3>4. CASE out = {} /\ buf' = buf \cup {c}
      BY <1>0, <2>1, <2>5, <3>1, <3>4
    <3> QED
      BY <2>a, <3>2, <3>3, <3>4
  <2>9. \A d \in spoken' : d <= pushed'
    BY <1>0, <2>1, <2>3
  <2> QED
    BY <2>2, <2>6, <2>7, <2>8, <2>9 DEF SpeechConserved
<1>2. ASSUME NEW n \in ChunkRows, Hush(n)
      PROVE  SpeechConserved' /\ \A c \in spoken' : c <= pushed'
  <2> DEFINE c == pushed + 1
             out == Returned(c, n, FALSE)
  <2>b. n \in Nat \ {0}
    BY <1>2, RowsType
  <2>1. /\ n \in Nat \ {0} /\ Push(c, n, FALSE) /\ pushed' = c
        /\ spoken' = spoken /\ dropped' = dropped
    BY <1>2, <2>b DEF Hush
  <2>2. ListMatchesCount'
    BY <1>0, <2>1, PushMatchesCount
  <2>3. \/ out = buf /\ buf' = {}
        \/ out = {} /\ buf' = buf
    BY <2>1, PushCases
  <2>4. returned' = returned \cup out
    <3>1. ~Flushes(n, FALSE) => out = {}
      BY <1>0, <2>1, PushReturnsBatch
    <3>2. \/ \E end, rows, gap : Return(end, out, rows, gap)
          \/ ~Flushes(n, FALSE) /\ returned' = returned
      BY <1>2 DEF Hush
    <3> QED
      BY <3>1, <3>2 DEF Return
  <2>5. /\ spoken' = buf' \cup returned' \cup dropped'
        /\ returned' \cap dropped' = {}
    BY <1>0, <1>b, <2>1, <2>3, <2>4
  <2>6. \A b \in buf' : \A d \in returned' \cup dropped' : d < b
    BY <1>0, <2>1, <2>3, <2>4
  <2>7. \A d \in spoken' : d <= pushed'
    BY <1>0, <2>1
  <2> QED
    BY <2>2, <2>5, <2>6, <2>7 DEF SpeechConserved
<1>3. CASE PollStale \/ Drain
  <2>1. /\ buf' = {} /\ frames' = 0 /\ returned' = returned \cup buf
        /\ UNCHANGED <<pushed, spoken, dropped>>
    BY <1>3 DEF PollStale, Drain, TakeIfStale, TakePending, Hold, Return
  <2> QED
    BY <1>0, <1>b, <2>1 DEF SpeechConserved, ListMatchesCount
<1>4. CASE Forget
  <2>1. /\ buf' = {} /\ frames' = 0 /\ dropped' = dropped \cup buf
        /\ UNCHANGED <<pushed, spoken, returned>>
    BY <1>4 DEF Forget, Reset, Hold
  <2> QED
    BY <1>0, <1>b, <2>1 DEF SpeechConserved, ListMatchesCount
<1>5. CASE PollShort \/ Tick \/ UNCHANGED vars
  <2>1. UNCHANGED <<buf, frames, pushed, spoken, returned, dropped>>
    BY <1>5 DEF PollShort, Tick, Elapse, vars, melVars, streamVars
  <2> QED
    BY <1>0, <2>1 DEF SpeechConserved, ListMatchesCount
<1> QED
  BY <1>1, <1>2, <1>3, <1>4, <1>5 DEF Next

\* No speech chunk is lost, returned twice or overtaken.
THEOREM EveryChunkKept == Spec => []SpeechConserved
<1>1. Init => ChunkInv
  <2>1. Init => SpeechConserved /\ spoken = {}
    BY DEF Init, MelInit, SpeechConserved, ListMatchesCount
  <2> QED
    BY <2>1, InitType DEF ChunkInv
<1>2. ChunkInv => SpeechConserved
  BY DEF ChunkInv
<1> QED
  BY <1>1, <1>2, ChunkStep, PTL DEF Spec

\* One batch never joins speech across a silence of min_silence_frames.
THEOREM SilenceEndsUtterances == Spec => []NeverSpansSilence
<1>1. Init => SilenceInv
  <2>1. Init => TypeOK
    BY InitType
  <2> QED
    BY <2>1, MelAssumption DEF Init, MelInit, SilenceInv, CountsEnoughSilence, NeverSpansSilence
<1>2. SilenceInv => NeverSpansSilence
  BY DEF SilenceInv
<1> QED
  BY <1>1, <1>2, SilenceStep, PTL DEF Spec

-----------------------------------------------------------------------------
(* What Whisper is given                                                   *)

\* What the ceiling leaves room for.
WindowInv == TypeOK /\ FitsWindow

-----------------------------------------------------------------------------
\* A batch that has more frames than bins, and no more than the window, arrives
\* with every cell in its place.
LEMMA BatchArrives ==
  ASSUME NEW n \in Nat, NMels < n, n <= Window
  PROVE  LET heard == PrepareMel(Features(n)) IN
         /\ heard.real = n
         /\ heard.mel.rows = NMels
         /\ \A p \in (1 .. NMels) \X (1 .. Window) :
              heard.mel.at[p] = IF p[2] <= n THEN <<p[2], p[1]>> ELSE Padding
<1> DEFINE m == Features(n)
           t == Transposed(m)
<1>1. /\ m.rows = n /\ m.cols = NMels
      /\ \A p \in (1 .. n) \X (1 .. NMels) : m.at[p] = <<p[1], p[2]>>
  BY DEF Features, Matrix
<1>2. /\ t.rows = NMels /\ t.cols = n
      /\ \A p \in (1 .. NMels) \X (1 .. n) : t.at[p] = m.at[<<p[2], p[1]>>]
  BY <1>1 DEF Transposed, Matrix
<1>3. \A p \in (1 .. NMels) \X (1 .. n) : t.at[p] = <<p[2], p[1]>>
  BY <1>1, <1>2
<1>4. Oriented(m) = t
  BY <1>1, InputAssumption DEF Oriented
<1> HIDE DEF t
<1>5. /\ PrepareMel(m).mel = Fitted(t)
      /\ PrepareMel(m).real = n
  BY <1>2, <1>4, InputAssumption DEF PrepareMel
<1>6. /\ Fitted(t).rows = NMels
      /\ \A p \in (1 .. NMels) \X (1 .. Window) :
           Fitted(t).at[p] = IF p[1] <= t.rows /\ p[2] <= t.cols THEN t.at[<<p[1], p[2]>>]
                             ELSE Padding
  BY <1>2, InputAssumption DEF Fitted, Matrix
<1>7. ASSUME NEW p \in (1 .. NMels) \X (1 .. Window)
      PROVE  Fitted(t).at[p] = IF p[2] <= n THEN <<p[2], p[1]>> ELSE Padding
  <2>1. p[1] <= t.rows /\ p[1] \in 1 .. NMels /\ p[2] \in 1 .. Window /\ p = <<p[1], p[2]>>
    BY <1>2
  <2>2. CASE p[2] <= n
    <3>1. p[2] \in 1 .. n
      BY <2>1, <2>2
    <3>2. t.at[<<p[1], p[2]>>] = <<p[2], p[1]>>
      BY <1>3, <2>1, <3>1
    <3> QED
      BY <1>2, <1>6, <2>1, <2>2, <3>2
  <2>3. CASE ~(p[2] <= n)
    BY <1>2, <1>6, <2>3
  <2> QED
    BY <2>2, <2>3
<1> QED
  BY <1>5, <1>6, <1>7

-----------------------------------------------------------------------------
\* What push keeps stays under the ceiling, and what it returns has at most the rows
\* of the buffer and the chunk.
LEMMA PushFits ==
  ASSUME frames \in Nat, frames < MaxFrames, NEW c, NEW n \in Nat, n < MaxFrames,
         NEW speech \in BOOLEAN, Push(c, n, speech), frames + n <= Window
  PROVE  frames' < MaxFrames /\ ReturnedRows(n, speech) <= Window
<1>1. MaxFrames \in Nat /\ Window \in Nat
  BY MelAssumption, InputAssumption
<1>2. \/ frames' = n \/ frames' = 0 \/ frames' = frames
      \/ frames' = frames + n /\ ~GapEnds /\ ~CeilingEnds(n, speech) /\ speech
  BY PushCases DEF Flushes
<1>3. ReturnedRows(n, speech) \in {0, frames, frames + n}
  BY DEF ReturnedRows
<1> QED
  BY <1>1, <1>2, <1>3 DEF CeilingEnds

\* Return records the rows it is given.
LEMMA ReturnRows ==
  ASSUME NEW end, NEW chunks, NEW rows, NEW gap, Return(end, chunks, rows, gap)
  PROVE  batch'.rows = rows
BY DEF Return

\* The last batch is returned by push or is what was buffered.
LEMMA FitsStep == WindowInv /\ [Next]_vars => WindowInv'
<1> SUFFICES ASSUME WindowInv, [Next]_vars PROVE FitsWindow'
  BY TypeStep DEF WindowInv
<1>0. /\ frames \in Nat /\ frames < MaxFrames /\ batch.rows \in Nat /\ batch.rows <= Window
      /\ MaxFrames \in Nat /\ Window \in Nat
  BY MelAssumption, InputAssumption DEF WindowInv, FitsWindow, TypeOK, MelTypeOK
<1>1. ASSUME NEW n \in ChunkRows PROVE n \in Nat /\ n > 0 /\ n < MaxFrames /\ MaxFrames + n <= Window + 1
  BY StreamAssumption, InputAssumption, MelAssumption
<1>2. ASSUME NEW n \in ChunkRows, Speak(n) PROVE FitsWindow'
  <2>1. Push(pushed + 1, n, TRUE)
    BY <1>2 DEF Speak
  <2>2. frames' < MaxFrames /\ ReturnedRows(n, TRUE) <= Window
    <3>1. n \in Nat /\ n < MaxFrames /\ frames + n <= Window
      BY <1>0, <1>1
    <3> QED
      BY <1>0, <2>1, <3>1, PushFits
  <2>3. batch'.rows = ReturnedRows(n, TRUE) \/ batch' = batch
    <3>1. \/ Return("gap", Returned(pushed + 1, n, TRUE), ReturnedRows(n, TRUE), inner)
          \/ Return("ceiling", Returned(pushed + 1, n, TRUE), ReturnedRows(n, TRUE), GapTo(n))
          \/ batch' = batch
      BY <1>2 DEF Speak
    <3> QED
      BY <3>1, ReturnRows
  <2> QED
    BY <1>0, <2>2, <2>3 DEF FitsWindow
<1>3. ASSUME NEW n \in ChunkRows, Hush(n) PROVE FitsWindow'
  <2>1. Push(pushed + 1, n, FALSE)
    BY <1>3 DEF Hush
  <2>2. frames' < MaxFrames /\ ReturnedRows(n, FALSE) <= Window
    <3>1. n \in Nat /\ n < MaxFrames /\ frames + n <= Window
      BY <1>0, <1>1
    <3> QED
      BY <1>0, <2>1, <3>1, PushFits
  <2>3. batch'.rows = ReturnedRows(n, FALSE) \/ batch' = batch
    <3>1. \/ Return(IF GapEnds THEN "gap" ELSE "silence",
                    Returned(pushed + 1, n, FALSE), ReturnedRows(n, FALSE), inner)
          \/ batch' = batch
      BY <1>3 DEF Hush
    <3> QED
      BY <3>1, ReturnRows
  <2> QED
    BY <1>0, <2>2, <2>3 DEF FitsWindow
<1>4. frames <= Window
  BY <1>0, InputAssumption
<1>5. ASSUME PollStale \/ Drain PROVE FitsWindow'
  <2>1. frames' = 0 /\ batch'.rows = frames
    BY <1>5 DEF PollStale, Drain, TakeIfStale, TakePending, Hold, Return
  <2> QED
    BY <1>0, <1>4, <2>1 DEF FitsWindow
<1>6. ASSUME PollShort \/ Tick \/ UNCHANGED vars PROVE FitsWindow'
  <2>1. frames' = frames /\ batch' = batch
    BY <1>6 DEF PollShort, Tick, Elapse, vars, melVars, streamVars
  <2> QED
    BY <1>0, <2>1 DEF FitsWindow
<1>7. ASSUME Forget PROVE FitsWindow'
  <2>1. frames' = 0 /\ batch' = batch
    BY <1>7 DEF Forget, Reset, Hold
  <2> QED
    BY <1>0, <2>1 DEF FitsWindow
<1> QED
  BY <1>2, <1>3, <1>5, <1>6, <1>7 DEF Next

\* Whatever mix of speech, silence and pauses a client makes, Whisper hears each batch
\* it is asked about whole: no frame is cut off, displaced or masked, though neither the
\* accumulator's ceiling nor _run_asr's minimum knows of the engine.
THEOREM WhisperHearsAll ==
  ASSUME NMels < MinAsr PROVE Spec => []WhisperHearsBatch
<1>1. Init => WindowInv
  <2>1. Init => FitsWindow
    BY MelAssumption, InputAssumption DEF Init, MelInit, FitsWindow
  <2> QED
    BY <2>1, InitType DEF WindowInv
<1>2. WindowInv => WhisperHearsBatch
  <2>1. ASSUME WindowInv, Asked(batch.rows)
        PROVE  batch.rows \in Nat /\ NMels < batch.rows /\ batch.rows <= Window
    BY <2>1, InputAssumption DEF WindowInv, FitsWindow, Asked, TypeOK
  <2> QED
    BY <2>1, BatchArrives DEF WhisperHearsBatch
<1> QED
  BY <1>1, <1>2, FitsStep, PTL DEF Spec
=============================================================================
