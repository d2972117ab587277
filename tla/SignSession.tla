---------------------------- MODULE SignSession -----------------------------
(***************************************************************************)
(* One SIGN session: the receive loop of SessionHandler and the sign       *)
(* pipeline of FusionOrchestrator (_process_sign), with its                *)
(* ActivityDetector (extended here, variables and all), FrameAccumulator   *)
(* and GlossAccumulator, and the client at the other end.                  *)
(*                                                                         *)
(* Frames open a window, windows are recognised as words, words collect    *)
(* into a phrase that is shown as a PARTIAL, and the phrase becomes a      *)
(* FINAL when signing ends.  The loop reads the next message only when it  *)
(* is done with the last one; it waits at the two engines.  The watchdog   *)
(* does nothing on this path.  Of a word's confidence only which of two is *)
(* the higher matters, and whether it passes the threshold.                *)
(***************************************************************************)
EXTENDS ActivityDetector, Sequences

CONSTANTS
  Shots,        \* the frames this client sends
  Stamps,       \* the timestamps it may give them
  WindowSize,   \* window_size (30)
  Stride,       \* stride (10)
  Words,        \* what TSL recognises
  Confidences,  \* its confidences that are high enough
  MaxWords,     \* max_words (10)
  MaxFrames     \* bound: landmark frames in a session

ASSUME SignAssumption ==
  /\ Shots \subseteq Frames /\ Stamps \subseteq Nat
  /\ WindowSize \in Nat /\ Stride \in 1 .. WindowSize
  /\ Confidences \subseteq Nat
  /\ MaxWords \in Nat \ {0} /\ MaxFrames \in Nat

VARIABLES
  engines,    \* the engines that the factory has registered
  window,     \* FrameAccumulator._buffers: the utterance each frame belongs to
  batch,      \* the frames given to TSL, each as its utterance
  glosses,    \* GlossAccumulator._buffers: words, with the utterances of their frames
  partial,    \* GlossAccumulator._partial_ids, NoSeg when absent
  rpc,        \* where the receive loop waits
  phrase,     \* the words it has given to GLOSS ...
  replaced,   \* ... and the PARTIAL (prev_id) they will replace
  connected,  \* the client is there
  frames,     \* landmark frames read so far
  stamp,      \* timestamp of the last one
  segs,       \* segments made so far; the last one has this number
  screen,     \* the PARTIALs on the client's screen, with their words
  wire,       \* the last segment delivered
  \* Which utterance is which:
  utter,      \* utterances begun so far
  began,      \* timestamp of the frame that began the last one
  settled     \* the last utterance that gave a FINAL

words == <<glosses, partial, phrase, replaced>>
segments == <<segs, screen, wire>>
session == <<engines, connected, frames, stamp>>
ghosts == <<utter, began, settled>>
views == <<window, batch>>
vars == <<detectorVars, views, words, rpc, segments, session, ghosts>>

NoSeg == 0

\* The factory registers the engines whose weights are configured.
Registered == SUBSET {"TSL", "GLOSS"}

Init ==
  /\ DetectorInit
  /\ engines \in Registered
  /\ window = <<>> /\ batch = <<>>
  /\ glosses = <<>> /\ partial = NoSeg /\ phrase = <<>> /\ replaced = NoSeg
  /\ rpc = "recv"
  /\ connected = TRUE /\ frames = 0 /\ stamp = 0
  /\ segs = 0 /\ screen = {}
  /\ wire = [id |-> NoSeg, status |-> "FINAL", replaces |-> NoSeg, at |-> 0]
  /\ utter = 0 /\ began = 0 /\ settled = 0

-----------------------------------------------------------------------------
(* Segments and their delivery                                             *)

Texts(entries) == [i \in DOMAIN entries |-> entries[i].text]

BugFinalReplacesNone(status, replaces, entries, at) ==
  /\ segs' = segs + 1
  /\ wire' = [id |-> segs + 1, status |-> status, replaces |-> NoSeg, at |-> at]
  /\ UNCHANGED screen

\* A segment is made and sent; a client that does what it says takes the replaced
\* one away.
Emit(status, replaces, entries, at) ==
  LET id == segs + 1 IN
  /\ segs' = id
  /\ IF connected
     THEN /\ wire' = [id |-> id, status |-> status, replaces |-> replaces, at |-> at]
          /\ screen' = {s \in screen : s.id # replaces} \cup
               (IF status = "PARTIAL" THEN {[id |-> id, text |-> Texts(entries)]} ELSE {})
     ELSE UNCHANGED <<screen, wire>>

\* The position that TSL and GLOSS give every result, and so every segment.
EngineTime == 0

\* The segment is sent and the loop goes on, unless the client has gone.
Sent ==
  \/ rpc' = "recv"
  \/ ~connected /\ rpc' = "done"

-----------------------------------------------------------------------------
(* GlossAccumulator                                                        *)

Last(s) == s[Len(s)]
Repeats(entry) == glosses # <<>> /\ Last(glosses).text = entry.text

\* Whether push changes the buffer: a new word if there is room, and a repeated
\* one if it is the more confident.
BugRepeatsKept(entry) == Len(glosses) < MaxWords

Changes(entry) ==
  IF Repeats(entry) THEN entry.conf > Last(glosses).conf ELSE Len(glosses) < MaxWords

\* The buffer after a push that changes it.
BugRepeatsAppended(entry) == Append(glosses, entry)

Pushed(entry) ==
  IF Repeats(entry) THEN [glosses EXCEPT ![Len(glosses)] = entry]
  ELSE Append(glosses, entry)

-----------------------------------------------------------------------------
(* The receive loop                                                        *)

\* A frame that is part of an utterance: the window moves on, and a full one
\* goes to TSL.
Collect(of) ==
  LET buf == Append(window, of) IN
  IF Len(buf) >= WindowSize
  THEN /\ window' = SubSeq(buf, Stride + 1, Len(buf))
       /\ IF "TSL" \in engines
          THEN rpc' = "tsl" /\ batch' = SubSeq(buf, 1, WindowSize)
          ELSE UNCHANGED <<rpc, batch>>
  ELSE window' = buf /\ UNCHANGED <<rpc, batch>>

\* The phrase is settled: the window is emptied and the FINAL sent.
BugWindowKept(entries, replaces) ==
  /\ UNCHANGED window
  /\ settled' = utter
  /\ Emit("FINAL", replaces, entries, EngineTime)
  /\ Sent

Settle(entries, replaces) ==
  /\ window' = <<>>
  /\ settled' = utter
  /\ Emit("FINAL", replaces, entries, EngineTime)
  /\ Sent

\* The phrase leaves the accumulator, with the PARTIAL that shows it.
BugPhraseKept == partial' = NoSeg /\ UNCHANGED glosses

Flush == partial' = NoSeg /\ glosses' = <<>>

\* A landmark_frame f with timestamp t is read (_process_sign).
HandleFrame(f, t) ==
  /\ rpc = "recv" /\ frames < MaxFrames
  /\ frames' = frames + 1 /\ stamp' = t
  /\ Update(f)
  /\ \/ /\ Event(f) = "IDLE"
        /\ UNCHANGED <<views, words, rpc, segments, ghosts>>
     \/ /\ Event(f) = "STARTED"
        /\ utter' = utter + 1 /\ began' = t
        /\ Collect(utter + 1)
        /\ UNCHANGED <<words, segments, settled>>
     \/ /\ Event(f) = "ACTIVE"
        /\ Collect(utter)
        /\ UNCHANGED <<words, segments, ghosts>>
     \/ /\ Event(f) = "ENDED" /\ glosses = <<>>
        /\ UNCHANGED <<views, words, rpc, segments, ghosts>>
     \/ /\ Event(f) = "ENDED" /\ glosses # <<>> /\ "GLOSS" \in engines
        /\ Flush /\ phrase' = glosses /\ replaced' = partial
        /\ rpc' = "gloss"
        /\ UNCHANGED <<views, segments, ghosts>>
     \/ /\ Event(f) = "ENDED" /\ glosses # <<>> /\ "GLOSS" \notin engines
        /\ Flush
        /\ Settle(glosses, partial)
        /\ UNCHANGED <<batch, phrase, replaced, utter, began>>
  /\ UNCHANGED <<engines, connected>>

\* TSL recognises word w with confidence c; the phrase that has changed by it is
\* shown in place of the last PARTIAL.
TslReturns(w, c) ==
  LET entry == [text |-> w, conf |-> c, from |-> {batch[i] : i \in DOMAIN batch}] IN
  /\ rpc = "tsl"
  /\ \/ /\ Changes(entry)
        /\ glosses' = Pushed(entry)
        /\ partial' = segs + 1
        /\ Emit("PARTIAL", partial, glosses', EngineTime)
        /\ Sent
     \/ /\ ~Changes(entry)
        /\ rpc' = "recv"
        /\ UNCHANGED <<glosses, partial, segments>>
  /\ batch' = <<>>
  /\ UNCHANGED <<detectorVars, window, phrase, replaced, session, ghosts>>

\* Its confidence is too low, or it times out and the window is discarded.
TslSuppressed ==
  /\ rpc = "tsl"
  /\ rpc' = "recv" /\ batch' = <<>>
  /\ UNCHANGED <<detectorVars, window, words, segments, session, ghosts>>

\* GLOSS answers, or times out, and what it said or the raw words are the FINAL.
GlossReturns ==
  /\ rpc = "gloss"
  /\ Settle(phrase, replaced)
  /\ phrase' = <<>> /\ replaced' = NoSeg
  /\ UNCHANGED <<detectorVars, batch, glosses, partial, session, utter, began>>

\* An engine raises another exception, which ends the loop.
EngineFails ==
  /\ rpc \in {"tsl", "gloss"}
  /\ rpc' = "done"
  /\ UNCHANGED <<detectorVars, views, words, segments, session, ghosts>>

\* session_end is read, the client has gone, or a malformed message raises.
LoopEnds ==
  /\ rpc = "recv"
  /\ rpc' = "done"
  /\ UNCHANGED <<detectorVars, views, words, segments, session, ghosts>>

Disconnect ==
  /\ connected /\ rpc # "done"
  /\ connected' = FALSE
  /\ UNCHANGED <<detectorVars, views, words, rpc, segments, engines, frames, stamp, ghosts>>

Next ==
  \/ \E f \in Shots, t \in Stamps : HandleFrame(f, t)
  \/ \E w \in Words, c \in Confidences : TslReturns(w, c)
  \/ TslSuppressed \/ GlossReturns \/ EngineFails
  \/ LoopEnds \/ Disconnect

Spec == Init /\ [][Next]_vars

-----------------------------------------------------------------------------
\* Every variable has its type.
Entries == [text : Words, conf : Confidences, from : SUBSET Nat]

TypeOK ==
  /\ DetectorTypeOK
  /\ engines \in Registered
  /\ window \in Seq(Nat) /\ batch \in Seq(Nat)
  /\ glosses \in Seq(Entries) /\ phrase \in Seq(Entries)
  /\ partial \in Nat /\ replaced \in Nat
  /\ rpc \in {"recv", "tsl", "gloss", "done"}
  /\ connected \in BOOLEAN /\ frames \in Nat /\ stamp \in Nat
  /\ segs \in Nat /\ screen \subseteq [id : Nat, text : Seq(Words)]
  /\ wire \in [id : Nat, status : {"PARTIAL", "FINAL"}, replaces : Nat, at : Nat]
  /\ utter \in Nat /\ began \in Nat /\ settled \in Nat

\* The words on the client's screen are the words the server will settle: those
\* in the accumulator, or those given to GLOSS, under the identifier the next
\* segment replaces.
ScreenIsPhrase ==
  connected /\ rpc # "done" =>
    /\ partial # NoSeg <=> glosses # <<>>
    /\ screen =
         IF rpc = "gloss" THEN {[id |-> replaced, text |-> Texts(phrase)]}
         ELSE IF partial # NoSeg THEN {[id |-> partial, text |-> Texts(glosses)]}
         ELSE {}

\* Every word of a phrase was seen in frames of the current utterance, at most with
\* frames that utterances without a word left in the window since the last FINAL: no
\* phrase joins words of two utterances, and no frame counts for two phrases.  None
\* waits in the accumulator once the signer rests, whatever windows were discarded.
Seen(entries) ==
  \A i \in DOMAIN entries :
    utter \in entries[i].from /\ entries[i].from \subseteq settled + 1 .. utter

PhraseIsOneUtterance ==
  /\ Seen(glosses) /\ Seen(phrase)
  /\ glosses # <<>> => active

\* Overlapping windows that show the same sign give one word, however often they
\* are recognised, and a phrase has no more than max_words.
RepeatsCollapse ==
  /\ Len(glosses) <= MaxWords
  /\ \A i \in 1 .. Len(glosses) - 1 : glosses[i].text # glosses[i + 1].text

\* The most confident recognition of a repeated word is kept: a word's confidence
\* never falls while it stays the last.
BestIsKept ==
  [][glosses # <<>> /\ Len(glosses') = Len(glosses) =>
       Last(glosses').conf >= Last(glosses).conf]_vars

\* Frames of an utterance whose FINAL is out are never recognised again.
SettledIsForgotten ==
  \A i \in DOMAIN window : window[i] > settled

\* The client sees a transcript: every step is one of TranscriptStream or none.
Stream == INSTANCE TranscriptStream WITH
  shown <- {s.id : s \in screen},
  wire <- [id |-> wire.id, status |-> wire.status, replaces |-> wire.replaces]

Transcript == Stream!Spec

-----------------------------------------------------------------------------
\* models.py:465 says a segment's timestamp is its position since the session's
\* start: it does not lie before its utterance.
PositionIsOfUtterance == [][wire' # wire => wire'.at >= began]_vars

\* models.py:274 says SessionHandler enforces that timestamps of frames increase.
StampsIncrease == [][frames' # frames /\ frames > 0 => stamp' > stamp]_vars
=============================================================================
