------------------------------ MODULE MelStream ------------------------------
(***************************************************************************)
(* A MelAccumulator driven by one live client.  The client records in real *)
(* time, so a chunk of n rows is pushed at least n frames after the chunk  *)
(* before it; it may also pause.  The orchestrator polls take_if_stale,    *)
(* and calls take_pending and reset.                                       *)
(*                                                                         *)
(* What the code does not keep is recorded here beside it: the silence     *)
(* there really was, against which the code's own count is judged.         *)
(***************************************************************************)
EXTENDS MelAccumulator

CONSTANTS
  ChunkRows,   \* the numbers of rows a chunk may have
  MaxChunks,   \* bound: chunks pushed in a behaviour
  IdleCap      \* bound: the longest pause between two pushes

ASSUME StreamAssumption ==
  /\ ChunkRows \subseteq 1 .. MaxFrames - 1
  /\ MaxChunks \in Nat
  /\ IdleCap \in Nat

VARIABLES
  pushed,    \* chunks pushed so far; the next one is number pushed + 1
  spoken,    \* the speech chunks among them
  returned,  \* the chunks given back by push, take_if_stale or take_pending
  dropped,   \* the chunks discarded by reset
  quiet,     \* real time since the last speech chunk held (0 if none is)
  inner,     \* longest real silence between two neighbours of buf
  kept,      \* take_if_stale found buf stale but too short and kept it
  batch      \* the last batch returned: what ended it, its rows, the quiet,
             \* inner and kept it had

streamVars == <<pushed, spoken, returned, dropped, quiet, inner, kept, batch>>
vars == <<melVars, streamVars>>

Ends == {"none", "gap", "ceiling", "silence", "stale", "pending"}

Init ==
  /\ MelInit
  /\ pushed = 0
  /\ spoken = {} /\ returned = {} /\ dropped = {}
  /\ quiet = 0 /\ inner = 0 /\ kept = FALSE
  /\ batch = [end |-> "none", rows |-> 0, quiet |-> 0, inner |-> 0, kept |-> FALSE]

-----------------------------------------------------------------------------
\* The batch `chunks` of `rows` rows is returned, because of `end`, with
\* longest inner silence `gap`.
Return(end, chunks, rows, gap) ==
  /\ returned' = returned \cup chunks
  /\ batch' = [end |-> end, rows |-> rows, quiet |-> quiet, inner |-> gap,
               kept |-> kept]

\* The silence between the last speech chunk held and a new one of n rows.
GapTo(n) == IF frames > 0 /\ quiet - n > inner THEN quiet - n ELSE inner

\* The client pushes a speech chunk of n rows.
Speak(n) ==
  LET c == pushed + 1 IN
  /\ pushed < MaxChunks /\ n <= idle
  /\ Push(c, n, TRUE)
  /\ pushed' = c
  /\ spoken' = spoken \cup {c}
  /\ quiet' = 0
  /\ \/ /\ GapEnds /\ Return("gap", Returned(c, n, TRUE), ReturnedRows(n, TRUE), inner)
        /\ inner' = 0 /\ kept' = FALSE
     \/ /\ CeilingEnds(n, TRUE)
        /\ Return("ceiling", Returned(c, n, TRUE), ReturnedRows(n, TRUE), GapTo(n))
        /\ inner' = 0 /\ kept' = FALSE
     \/ /\ ~Flushes(n, TRUE)
        /\ inner' = GapTo(n)
        /\ UNCHANGED <<returned, batch, kept>>
  /\ UNCHANGED dropped

\* The client pushes a silent chunk of n rows.
Hush(n) ==
  LET c == pushed + 1 IN
  /\ pushed < MaxChunks /\ n <= idle
  /\ Push(c, n, FALSE)
  /\ pushed' = c
  /\ \/ /\ Flushes(n, FALSE)
        /\ Return(IF GapEnds THEN "gap" ELSE "silence",
                  Returned(c, n, FALSE), ReturnedRows(n, FALSE), inner)
        /\ quiet' = 0 /\ inner' = 0 /\ kept' = FALSE
     \/ /\ ~Flushes(n, FALSE)
        /\ UNCHANGED <<returned, batch, quiet, inner, kept>>
  /\ UNCHANGED <<spoken, dropped>>

\* The watchdog's call of take_if_stale that returns the buffer ...
PollStale ==
  /\ TakeIfStale
  /\ Return("stale", buf, frames, inner)
  /\ quiet' = 0 /\ inner' = 0 /\ kept' = FALSE
  /\ UNCHANGED <<pushed, spoken, dropped>>

\* ... and the one that keeps a buffer that is stale but too short.
PollShort ==
  /\ frames > 0 /\ idle >= StaleAfter /\ frames < MinFlush
  /\ kept' = TRUE
  /\ UNCHANGED <<melVars, pushed, spoken, returned, dropped, quiet, inner, batch>>

\* take_pending at session_end.
Drain ==
  /\ frames > 0
  /\ TakePending
  /\ Return("pending", buf, frames, inner)
  /\ quiet' = 0 /\ inner' = 0 /\ kept' = FALSE
  /\ UNCHANGED <<pushed, spoken, dropped>>

\* reset of the session.
Forget ==
  /\ frames > 0
  /\ Reset
  /\ dropped' = dropped \cup buf
  /\ quiet' = 0 /\ inner' = 0 /\ kept' = FALSE
  /\ UNCHANGED <<pushed, spoken, returned, batch>>

Tick ==
  /\ idle < IdleCap
  /\ Elapse(IdleCap)
  /\ quiet' = IF frames > 0 THEN quiet + 1 ELSE 0
  /\ UNCHANGED <<pushed, spoken, returned, dropped, inner, kept, batch>>

Next ==
  \/ \E n \in ChunkRows : Speak(n) \/ Hush(n)
  \/ PollStale \/ PollShort \/ Drain \/ Forget
  \/ Tick

Spec == Init /\ [][Next]_vars

-----------------------------------------------------------------------------
\* Every variable has its type.
TypeOK ==
  /\ MelTypeOK
  /\ pushed \in Nat
  /\ spoken \subseteq Nat /\ returned \subseteq Nat /\ dropped \subseteq Nat
  /\ quiet \in Nat /\ inner \in Nat /\ kept \in BOOLEAN
  /\ batch \in [end : Ends, rows : Nat, quiet : Nat, inner : Nat, kept : BOOLEAN]

\* No speech chunk is lost or returned twice by the branches of push: each one
\* pushed is held, returned or dropped by reset, in one place only, and what is
\* held is newer than everything returned, so a batch never overtakes another.
SpeechConserved ==
  /\ spoken = buf \cup returned \cup dropped
  /\ returned \cap dropped = {}
  /\ \A c \in buf : \A d \in returned \cup dropped : d < c
  /\ ListMatchesCount

\* One batch never joins speech across a silence of min_silence_frames or more,
\* neither while it is collected nor when it is returned, whatever mix of
\* silent chunks and pauses the silence was made of (mel_accumulator.py, push).
NeverSpansSilence == inner < MinSilence /\ batch.inner < MinSilence

\* The silence counter never lags behind the real silence; this is what makes
\* NeverSpansSilence inductive.
CountsEnoughSilence == frames > 0 => quiet <= silence + idle

-----------------------------------------------------------------------------
\* mel_accumulator.py:7 says a flush on silence follows 1 s of consecutive
\* silence.
SilenceIsFull == batch.end = "silence" => batch.quiet >= MinSilence

\* mel_accumulator.py:163 says a stale buffer that is too short is kept so that
\* it can accumulate further: when it is returned it has grown.
KeptAccumulates == batch.kept /\ batch.end # "pending" => batch.rows >= MinFlush
=============================================================================
