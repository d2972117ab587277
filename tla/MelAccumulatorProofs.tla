------------------------ MODULE MelAccumulatorProofs ------------------------
(***************************************************************************)
(* What push, take_pending and take_if_stale do to the buffer, for every   *)
(* value of the constants.                                                 *)
(***************************************************************************)
EXTENDS MelAccumulator, TLAPS

\* What push leaves behind, by cases: the chunk alone or nothing after a gap,
\* nothing when it fills the buffer or completes the silence, else the buffer
\* with the chunk added if it is speech.
LEMMA PushCases ==
  ASSUME NEW c, NEW n, NEW speech \in BOOLEAN, Push(c, n, speech)
  PROVE  \/ /\ GapEnds /\ Flushes(n, speech) /\ frames > 0
            /\ Returned(c, n, speech) = buf /\ ReturnedRows(n, speech) = frames
            /\ buf' = IF speech THEN {c} ELSE {}
            /\ frames' = IF speech THEN n ELSE 0
            /\ silence' = 0 /\ idle' = 0
         \/ /\ ~GapEnds /\ CeilingEnds(n, speech) /\ Flushes(n, speech) /\ speech
            /\ Returned(c, n, speech) = buf \cup {c}
            /\ ReturnedRows(n, speech) = frames + n
            /\ buf' = {} /\ frames' = 0 /\ silence' = 0 /\ idle' = 0
         \/ /\ ~GapEnds /\ SilenceEnds(n, speech) /\ Flushes(n, speech) /\ ~speech
            /\ frames > 0
            /\ Returned(c, n, speech) = buf /\ ReturnedRows(n, speech) = frames
            /\ buf' = {} /\ frames' = 0 /\ silence' = 0 /\ idle' = 0
         \/ /\ ~Flushes(n, speech) /\ ~GapEnds
            /\ Returned(c, n, speech) = {} /\ ReturnedRows(n, speech) = 0
            /\ buf' = IF speech THEN buf \cup {c} ELSE buf
            /\ frames' = IF speech THEN frames + n ELSE frames
            /\ silence' = IF speech THEN 0
                          ELSE IF frames > 0 THEN SilenceWithGap + n ELSE silence
            /\ idle' = 0
<1>1. CASE GapEnds
  BY <1>1 DEF Push, GapEnds, Flushes, CeilingEnds, SilenceEnds, Returned,
              ReturnedRows, Hold
<1>2. CASE ~GapEnds /\ CeilingEnds(n, speech)
  BY <1>2 DEF Push, Flushes, CeilingEnds, SilenceEnds, Returned, ReturnedRows, Hold
<1>3. CASE ~GapEnds /\ SilenceEnds(n, speech)
  BY <1>3 DEF Push, Flushes, CeilingEnds, SilenceEnds, Returned, ReturnedRows, Hold
<1>4. CASE ~Flushes(n, speech)
  BY <1>4 DEF Push, Flushes, CeilingEnds, SilenceEnds, Returned, ReturnedRows, Hold
<1> QED
  BY <1>1, <1>2, <1>3, <1>4 DEF Flushes

\* push keeps the types, and what it returns is made of chunks and rows.
LEMMA PushType ==
  ASSUME MelTypeOK, NEW c \in Nat, NEW n \in Nat, NEW speech \in BOOLEAN,
         Push(c, n, speech)
  PROVE  /\ MelTypeOK'
         /\ Returned(c, n, speech) \subseteq Nat
         /\ ReturnedRows(n, speech) \in Nat
<1>1. {} \subseteq Nat /\ {c} \subseteq Nat /\ buf \cup {c} \subseteq Nat
  BY DEF MelTypeOK
<1>2. buf' \in {{}, {c}, buf, buf \cup {c}} /\ Returned(c, n, speech) \in {{}, buf, buf \cup {c}}
  BY PushCases
<1>3. frames' \in Nat /\ ReturnedRows(n, speech) \in Nat
  BY PushCases DEF MelTypeOK
<1>4. silence' \in Nat /\ idle' \in Nat
  BY PushCases DEF MelTypeOK, SilenceWithGap
<1> QED
  BY <1>1, <1>2, <1>3, <1>4 DEF MelTypeOK

\* push loses no chunk and keeps none it returns.
LEMMA PushConserves ==
  ASSUME NEW c, NEW n, NEW speech \in BOOLEAN, Push(c, n, speech), c \notin buf
  PROVE  /\ buf' \cup Returned(c, n, speech) = IF speech THEN buf \cup {c} ELSE buf
         /\ buf' \cap Returned(c, n, speech) = {}
         /\ buf' \subseteq buf \cup {c}
BY PushCases

\* push of a non-empty chunk keeps the list and the count in step.
LEMMA PushMatchesCount ==
  ASSUME MelTypeOK, ListMatchesCount, NEW c, NEW n \in Nat \ {0},
         NEW speech \in BOOLEAN, Push(c, n, speech)
  PROVE  ListMatchesCount'
<1>1. {c} # {} /\ buf \cup {c} # {}
  OBVIOUS
<1>2. frames \in Nat /\ n > 0 /\ frames + n > 0
  BY DEF MelTypeOK
<1> QED
  BY <1>1, <1>2, PushCases DEF ListMatchesCount

\* Neither is a flush returned empty, nor does something come back without one.
LEMMA PushReturnsBatch ==
  ASSUME MelTypeOK, ListMatchesCount, NEW c, NEW n \in Nat \ {0},
         NEW speech \in BOOLEAN, Push(c, n, speech)
  PROVE  Returned(c, n, speech) = {} <=> ~Flushes(n, speech)
<1>1. buf \cup {c} # {} /\ (frames > 0 => buf # {})
  BY DEF MelTypeOK, ListMatchesCount
<1> QED
  BY <1>1, PushCases
=============================================================================
