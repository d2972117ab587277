------------------------- MODULE SignSessionProofs --------------------------
(***************************************************************************)
(* For every window, stride, vocabulary and phrase length: which words     *)
(* make a phrase, which of them the client is shown, which frames are      *)
(* recognised, and when the detector switches.                             *)
(***************************************************************************)
EXTENDS SignSession, ActivityStream, SequenceTheorems, TLAPS

\* Where the words are at each point of the receive loop: in the accumulator
\* while the signer signs, with GLOSS once the signer rests.  A new utterance
\* cannot begin while a phrase of the last one is kept anywhere.
PhraseInv ==
  /\ TypeOK
  /\ glosses # <<>> => active
  /\ rpc = "tsl" => active
  /\ rpc = "gloss" => ~active /\ glosses = <<>> /\ phrase # <<>> /\ replaced # NoSeg
  /\ rpc \in {"recv", "tsl"} => phrase = <<>>
  /\ partial # NoSeg <=> glosses # <<>>

\* Segments are numbered in the order in which they are made.
ScreenInv == PhraseInv /\ ScreenIsPhrase /\ wire.id <= segs

\* An utterance under way has no FINAL yet, so its frames are not settled.
WindowInv ==
  /\ PhraseInv
  /\ SettledIsForgotten
  /\ settled <= utter
  /\ active => settled < utter

\* What a word may be made of: frames of the current utterance, and of those before it
\* that gave no FINAL.
Fresh(from) == utter \in from /\ from \subseteq settled + 1 .. utter

\* The window has room for another frame, so the last frame read is among those that TSL
\* is given, and no frame that is kept is settled: neither is one behind a word.
SeenInv ==
  /\ WindowInv
  /\ Len(window) < WindowSize
  /\ \A i \in DOMAIN window : window[i] <= utter
  /\ rpc = "tsl" => Fresh({batch[i] : i \in DOMAIN batch})
  /\ Seen(glosses) /\ Seen(phrase)

CollapseInv == TypeOK /\ RepeatsCollapse

-----------------------------------------------------------------------------
(* Lemmas about the operators                                              *)

\* The event that update returns tells how the state switches.
LEMMA EventSwitches ==
  ASSUME NEW f, Update(f), active \in BOOLEAN
  PROVE  /\ active' \in BOOLEAN
         /\ Event(f) = "STARTED" => ~active /\ active'
         /\ Event(f) = "ENDED" => active /\ ~active'
         /\ Event(f) = "ACTIVE" => active /\ active'
         /\ Event(f) = "IDLE" => ~active /\ ~active'
<1>1. active' = ((active \/ Starts(f)) /\ ~Ends(f))
  BY DEF Update
<1>2. (Starts(f) => ~active) /\ (Ends(f) => active)
  BY DEF Starts, Ends
<1>3. CASE Starts(f)
  BY <1>1, <1>2, <1>3 DEF Event
<1>4. CASE ~Starts(f) /\ Ends(f)
  BY <1>1, <1>2, <1>4 DEF Event
<1>5. CASE ~Starts(f) /\ ~Ends(f) /\ active
  BY <1>1, <1>2, <1>5 DEF Event
<1>6. CASE ~Starts(f) /\ ~Ends(f) /\ ~active
  BY <1>1, <1>2, <1>6 DEF Event
<1> QED
  BY <1>3, <1>4, <1>5, <1>6

\* The detector's variables keep their types.
LEMMA UpdateType ==
  ASSUME DetectorTypeOK, NEW f \in Frames, Update(f)
  PROVE  DetectorTypeOK'
<1>1. \E D \in SUBSET Sides : prev' \in [D -> Positions]
  <2> DEFINE D == IF f.pose THEN Sides ELSE f.hands
  <2>1. D \in SUBSET Sides /\ \A s \in D : f.at[s] \in Positions
    BY DEF Frames
  <2>2. prev' = [s \in D |-> f.at[s]]
    BY DEF Update, Remembered, WristsOf
  <2>3. prev' \in [D -> Positions]
    BY <2>1, <2>2
  <2> QED
    BY <2>1, <2>3
<1>2. MovingAfter(f) \in Nat /\ RestingAfter(f) \in Nat
  BY DetectorAssumption DEF MovingAfter, RestingAfter, DetectorTypeOK
<1>3. moving' \in 0 .. ActivateFrames /\ resting' \in 0 .. DeactivateFrames
  BY <1>2, DetectorAssumption DEF Update, Smaller
<1>4. active' \in BOOLEAN
  BY EventSwitches DEF DetectorTypeOK
<1> QED
  BY <1>1, <1>3, <1>4 DEF DetectorTypeOK

\* A phrase's texts are words, one for each entry.
LEMMA TextsType ==
  ASSUME NEW s \in Seq(Entries)
  PROVE  Texts(s) \in Seq(Words)
<1>1. Len(s) \in Nat /\ DOMAIN s = 1 .. Len(s) /\ \A i \in 1 .. Len(s) : s[i] \in Entries
  BY LenProperties, ElementOfSeq
<1>2. Texts(s) \in [1 .. Len(s) -> Words]
  BY <1>1 DEF Texts, Entries
<1> QED
  BY <1>1, <1>2, SeqDef

\* What push does to the buffer: it replaces the last word by itself with a
\* higher confidence, or adds another word.
LEMMA PushFacts ==
  ASSUME glosses \in Seq(Entries), NEW entry \in Entries, Changes(entry)
  PROVE  LET pushed == Pushed(entry) IN
         /\ pushed \in Seq(Entries) /\ Len(glosses) \in Nat
         /\ \/ /\ Len(pushed) = Len(glosses) /\ glosses # <<>>
               /\ Len(glosses) >= 1
               /\ pushed[Len(glosses)] = entry
               /\ entry.text = glosses[Len(glosses)].text
               /\ entry.conf > glosses[Len(glosses)].conf
               /\ \A i \in 1 .. Len(glosses) - 1 : pushed[i] = glosses[i]
            \/ /\ Len(pushed) = Len(glosses) + 1 /\ Len(glosses) < MaxWords
               /\ pushed[Len(glosses) + 1] = entry
               /\ glosses # <<>> => entry.text # glosses[Len(glosses)].text
               /\ \A i \in 1 .. Len(glosses) : pushed[i] = glosses[i]
<1> DEFINE n == Len(glosses)
<1>1. n \in Nat /\ (glosses # <<>> => n >= 1)
  BY EmptySeq, LenProperties
<1>2. CASE Repeats(entry)
  <2>1. /\ Pushed(entry) = [glosses EXCEPT ![n] = entry]
        /\ glosses # <<>> /\ entry.text = glosses[n].text /\ entry.conf > glosses[n].conf
    BY <1>2 DEF Pushed, Repeats, Changes, Last
  <2>2. n \in 1 .. n
    BY <1>1, <2>1
  <2>3. /\ [glosses EXCEPT ![n] = entry] \in Seq(Entries)
        /\ Len([glosses EXCEPT ![n] = entry]) = n
        /\ \A j \in 1 .. n : [glosses EXCEPT ![n] = entry][j] = IF j = n THEN entry ELSE glosses[j]
    BY <2>2, ExceptSeq
  <2> HIDE DEF n
  <2>4. PICK p : p = Pushed(entry)
    OBVIOUS
  <2>5. p \in Seq(Entries) /\ Len(p) = n /\ p[n] = entry
    BY <2>1, <2>2, <2>3, <2>4
  <2>6. \A j \in 1 .. n - 1 : p[j] = glosses[j]
    <3> SUFFICES ASSUME NEW j \in 1 .. n - 1 PROVE p[j] = glosses[j]
      OBVIOUS
    <3>1. j \in 1 .. n /\ j # n
      BY <1>1
    <3> QED
      BY <2>1, <2>3, <2>4, <3>1
  <2> QED
    BY <1>1, <2>1, <2>4, <2>5, <2>6 DEF n
<1>3. CASE ~Repeats(entry)
  <2>1. /\ Pushed(entry) = Append(glosses, entry)
        /\ glosses # <<>> => entry.text # glosses[n].text
        /\ n < MaxWords
    BY <1>3 DEF Pushed, Repeats, Changes, Last
  <2>2. /\ Append(glosses, entry) \in Seq(Entries)
        /\ Len(Append(glosses, entry)) = n + 1
        /\ \A i \in 1 .. n : Append(glosses, entry)[i] = glosses[i]
        /\ Append(glosses, entry)[n + 1] = entry
    BY AppendProperties
  <2> QED
    BY <1>1, <2>1, <2>2
<1> QED
  BY <1>2, <1>3

\* A frame that is collected joins the window; when the window is full it goes to TSL
\* and loses its oldest.
LEMMA CollectCases ==
  ASSUME window \in Seq(Nat), NEW of \in Nat, Collect(of)
  PROVE  LET buf == Append(window, of)
             n == Len(buf) IN
         /\ n = Len(window) + 1 /\ Len(window) \in Nat
         /\ buf \in Seq(Nat) /\ buf[n] = of
         /\ \A i \in 1 .. n : buf[i] \in Nat
                              /\ (buf[i] = of \/ \E j \in DOMAIN window : buf[i] = window[j])
         /\ \/ window' = buf /\ UNCHANGED <<rpc, batch>> /\ n < WindowSize
            \/ /\ window' = SubSeq(buf, Stride + 1, n) /\ n >= WindowSize
               /\ \/ rpc' = "tsl" /\ batch' = SubSeq(buf, 1, WindowSize)
                  \/ UNCHANGED <<rpc, batch>>
<1> DEFINE buf == Append(window, of)
           n == Len(window)
<1>1. /\ n \in Nat /\ DOMAIN window = 1 .. n
      /\ buf \in Seq(Nat) /\ Len(buf) = n + 1
      /\ \A i \in 1 .. n : buf[i] = window[i]
      /\ buf[n + 1] = of
  BY LenProperties, AppendProperties
<1>2. ASSUME NEW i \in 1 .. n + 1
      PROVE  buf[i] \in Nat /\ (buf[i] = of \/ \E j \in DOMAIN window : buf[i] = window[j])
  <2>1. i = n + 1 \/ i \in 1 .. n
    BY <1>1
  <2> QED
    BY <1>1, <2>1, ElementOfSeq
<1>3. \/ window' = buf /\ UNCHANGED <<rpc, batch>> /\ Len(buf) < WindowSize
      \/ /\ window' = SubSeq(buf, Stride + 1, Len(buf)) /\ Len(buf) >= WindowSize
         /\ \/ rpc' = "tsl" /\ batch' = SubSeq(buf, 1, WindowSize)
            \/ UNCHANGED <<rpc, batch>>
  <2>1. Len(buf) >= WindowSize \/ Len(buf) < WindowSize
    BY <1>1, SignAssumption
  <2> HIDE DEF buf
  <2>2. Len(buf) < WindowSize => ~(Len(buf) >= WindowSize)
    BY <1>1, SignAssumption
  <2> USE DEF buf
  <2> QED
    BY <2>1, <2>2, Zenon DEF Collect
<1> QED
  BY <1>1, <1>2, <1>3

\* Whatever is kept, or given to TSL, was in the window or is the new frame.
LEMMA CollectFacts ==
  ASSUME window \in Seq(Nat), batch \in Seq(Nat), NEW of \in Nat, Collect(of)
  PROVE  /\ window' \in Seq(Nat) /\ batch' \in Seq(Nat)
         /\ \A i \in DOMAIN window' :
              window'[i] = of \/ \E j \in DOMAIN window : window'[i] = window[j]
         /\ rpc' \in {rpc, "tsl", "recv"}
<1> DEFINE Old(x) == x = of \/ \E j \in DOMAIN window : x = window[j]
           buf == Append(window, of)
           n == Len(buf)
<1>1. /\ buf \in Seq(Nat) /\ n \in Nat
      /\ \A i \in 1 .. n : buf[i] \in Nat /\ Old(buf[i])
      /\ \/ window' = buf /\ UNCHANGED <<rpc, batch>>
         \/ /\ window' = SubSeq(buf, Stride + 1, n) /\ n >= WindowSize
            /\ \/ rpc' = "tsl" /\ batch' = SubSeq(buf, 1, WindowSize)
               \/ UNCHANGED <<rpc, batch>>
  BY CollectCases, LenProperties
<1> HIDE DEF Old, buf
<1>2. Stride \in 1 .. WindowSize /\ WindowSize \in Nat
  BY SignAssumption
<1>3. window' \in Seq(Nat) /\ \A i \in DOMAIN window' : Old(window'[i])
  <2>1. CASE window' = buf
    BY <1>1, <2>1, LenProperties
  <2>2. CASE window' = SubSeq(buf, Stride + 1, n)
    <3>1. /\ window' \in Seq(Nat)
          /\ Len(window') = IF Stride + 1 <= n THEN n - (Stride + 1) + 1 ELSE 0
          /\ \A i \in 1 .. n - (Stride + 1) + 1 : window'[i] = buf[Stride + 1 + i - 1]
      BY <1>1, <1>2, <2>2, SubSeqProperties
    <3>2. DOMAIN window' = 1 .. Len(window')
      BY <3>1, LenProperties
    <3>3. ASSUME NEW i \in DOMAIN window' PROVE Old(window'[i])
      <4>1. i + Stride \in 1 .. n /\ window'[i] = buf[i + Stride]
        BY <1>2, <3>1, <3>2, <3>3
      <4> QED
        BY <1>1, <4>1
    <3> QED
      BY <3>1, <3>3
  <2> QED
    BY <1>1, <2>1, <2>2
<1>4. batch' \in Seq(Nat)
  <2>1. CASE batch' = SubSeq(buf, 1, WindowSize) /\ n >= WindowSize
    BY <1>1, <1>2, <2>1, SubSeqProperties
  <2> QED
    BY <1>1, <2>1
<1> QED
  BY <1>1, <1>3, <1>4 DEF Old

\* A window that had room has room again; what goes to TSL holds the new frame.
LEMMA CollectGives ==
  ASSUME window \in Seq(Nat), NEW of \in Nat, Collect(of), Len(window) < WindowSize
  PROVE  /\ Len(window') < WindowSize
         /\ rpc' = rpc \/ (/\ \E i \in DOMAIN batch' : batch'[i] = of
                           /\ \A i \in DOMAIN batch' :
                                batch'[i] = of \/ \E j \in DOMAIN window : batch'[i] = window[j])
<1> DEFINE Old(x) == x = of \/ \E j \in DOMAIN window : x = window[j]
           buf == Append(window, of)
           n == Len(buf)
<1>1. /\ buf \in Seq(Nat) /\ n \in Nat
      /\ n = Len(window) + 1 /\ Len(window) \in Nat /\ buf[n] = of
      /\ \A i \in 1 .. n : buf[i] \in Nat /\ Old(buf[i])
      /\ \/ window' = buf /\ rpc' = rpc /\ n < WindowSize
         \/ /\ window' = SubSeq(buf, Stride + 1, n) /\ n >= WindowSize
            /\ batch' = SubSeq(buf, 1, WindowSize) \/ rpc' = rpc
  BY CollectCases, LenProperties
<1> HIDE DEF Old, buf
<1>2. Stride \in 1 .. WindowSize /\ WindowSize \in Nat
  BY SignAssumption
<1>3. CASE window' = buf /\ rpc' = rpc /\ n < WindowSize
  BY <1>1, <1>3
<1>4. CASE /\ window' = SubSeq(buf, Stride + 1, n) /\ n >= WindowSize
           /\ batch' = SubSeq(buf, 1, WindowSize) \/ rpc' = rpc
  <2>1. n = WindowSize
    BY <1>1, <1>2, <1>4
  <2>2. Len(window') = IF Stride + 1 <= n THEN n - (Stride + 1) + 1 ELSE 0
    BY <1>1, <1>2, <1>4, SubSeqProperties
  <2>3. Len(window') < WindowSize
    BY <1>2, <2>1, <2>2
  <2>4. CASE batch' = SubSeq(buf, 1, WindowSize)
    <3>1. /\ batch' \in Seq(Nat) /\ Len(batch') = WindowSize
          /\ \A i \in 1 .. WindowSize : batch'[i] = buf[i]
      BY <1>1, <1>2, <2>1, <2>4, SubSeqProperties
    <3>2. DOMAIN batch' = 1 .. WindowSize
      BY <3>1, LenProperties
    <3>3. WindowSize \in DOMAIN batch' /\ batch'[WindowSize] = of
      BY <1>1, <1>2, <2>1, <3>1, <3>2
    <3>4. \A i \in DOMAIN batch' : Old(batch'[i])
      BY <1>1, <2>1, <3>1, <3>2
    <3> QED
      BY <2>3, <3>3, <3>4 DEF Old
  <2> QED
    BY <1>4, <2>3, <2>4
<1> QED
  BY <1>1, <1>3, <1>4

-----------------------------------------------------------------------------
(* What the actions do                                                     *)

\* A segment is numbered, and a connected client gets it.
LEMMA EmitFacts ==
  ASSUME TypeOK, NEW status \in {"PARTIAL", "FINAL"}, NEW replaces \in Nat,
         NEW entries \in Seq(Entries), Emit(status, replaces, entries, EngineTime)
  PROVE  /\ segs' = segs + 1 /\ segs' \in Nat
         /\ screen' \subseteq [id : Nat, text : Seq(Words)]
         /\ wire' \in [id : Nat, status : {"PARTIAL", "FINAL"}, replaces : Nat, at : Nat]
         /\ ~connected => UNCHANGED <<screen, wire>>
         /\ connected =>
              /\ wire' = [id |-> segs + 1, status |-> status, replaces |-> replaces, at |-> 0]
              /\ screen' = {s \in screen : s.id # replaces} \cup
                   (IF status = "PARTIAL" THEN {[id |-> segs + 1, text |-> Texts(entries)]}
                    ELSE {})
<1>1. segs \in Nat /\ screen \subseteq [id : Nat, text : Seq(Words)]
      /\ wire \in [id : Nat, status : {"PARTIAL", "FINAL"}, replaces : Nat, at : Nat]
  BY DEF TypeOK
<1>2. Texts(entries) \in Seq(Words)
  BY TextsType
<1>3. segs' = segs + 1
  BY DEF Emit
<1>4. CASE connected
  <2>1. /\ wire' = [id |-> segs + 1, status |-> status, replaces |-> replaces, at |-> 0]
        /\ screen' = {s \in screen : s.id # replaces} \cup
             (IF status = "PARTIAL" THEN {[id |-> segs + 1, text |-> Texts(entries)]}
              ELSE {})
    BY <1>4 DEF Emit, EngineTime
  <2>2. [id |-> segs + 1, text |-> Texts(entries)] \in [id : Nat, text : Seq(Words)]
    BY <1>1, <1>2
  <2>3. screen' \subseteq [id : Nat, text : Seq(Words)]
    BY <1>1, <2>1, <2>2
  <2>4. wire' \in [id : Nat, status : {"PARTIAL", "FINAL"}, replaces : Nat, at : Nat]
    BY <1>1, <2>1
  <2> QED
    BY <1>1, <1>3, <1>4, <2>1, <2>3, <2>4
<1>5. CASE ~connected
  BY <1>1, <1>3, <1>5 DEF Emit
<1> QED
  BY <1>4, <1>5

\* The five things a landmark frame may do: nothing, begin an utterance, go on
\* with it, give the phrase to GLOSS, or settle it without GLOSS.
FrameIgnored ==
  /\ UNCHANGED <<views, words, rpc, segments, ghosts>>
  /\ active' => active
  /\ active => active' \/ glosses = <<>>

FrameBegins ==
  /\ ~active /\ active' /\ utter' = utter + 1
  /\ Collect(utter + 1)
  /\ UNCHANGED <<words, segments, settled>>

FrameGoesOn ==
  /\ active /\ active' /\ Collect(utter)
  /\ UNCHANGED <<words, segments, ghosts>>

FrameAsks ==
  /\ active /\ ~active' /\ glosses # <<>>
  /\ Flush /\ phrase' = glosses /\ replaced' = partial /\ rpc' = "gloss"
  /\ UNCHANGED <<views, segments, ghosts>>

FrameSettles ==
  /\ active /\ ~active' /\ glosses # <<>>
  /\ Flush /\ Settle(glosses, partial)
  /\ UNCHANGED <<batch, phrase, replaced, utter, began>>

\* They are all there is.
LEMMA FrameCases ==
  ASSUME TypeOK, NEW f \in Shots, NEW t \in Stamps, HandleFrame(f, t)
  PROVE  /\ rpc = "recv" /\ DetectorTypeOK' /\ UNCHANGED <<engines, connected>>
         /\ frames' \in Nat /\ stamp' \in Nat
         /\ began' \in Nat
         /\ FrameIgnored \/ FrameBegins \/ FrameGoesOn \/ FrameAsks \/ FrameSettles
<1>1. /\ rpc = "recv" /\ frames' = frames + 1 /\ stamp' = t
      /\ Update(f) /\ UNCHANGED <<engines, connected>>
  BY DEF HandleFrame
<1>2. f \in Frames /\ t \in Nat
  BY SignAssumption
<1>3. DetectorTypeOK' /\ active \in BOOLEAN
  BY <1>1, <1>2, UpdateType DEF TypeOK, DetectorTypeOK
<1>4. /\ Event(f) = "STARTED" => ~active /\ active'
      /\ Event(f) = "ENDED" => active /\ ~active'
      /\ Event(f) = "ACTIVE" => active /\ active'
      /\ Event(f) = "IDLE" => ~active /\ ~active'
  BY <1>1, <1>3, EventSwitches
<1>5. /\ frames' \in Nat /\ stamp' \in Nat
  BY <1>1, <1>2 DEF TypeOK
<1>6. began' \in Nat
  BY <1>2 DEF HandleFrame, TypeOK, ghosts
<1>7. FrameIgnored \/ FrameBegins \/ FrameGoesOn \/ FrameAsks \/ FrameSettles
  <2>1. CASE Event(f) = "IDLE"
    BY <1>4, <2>1 DEF HandleFrame, FrameIgnored
  <2>2. CASE Event(f) = "STARTED"
    BY <1>4, <2>2 DEF HandleFrame, FrameBegins
  <2>3. CASE Event(f) = "ACTIVE"
    BY <1>4, <2>3 DEF HandleFrame, FrameGoesOn
  <2>4. CASE Event(f) = "ENDED"
    BY <1>4, <2>4 DEF HandleFrame, FrameIgnored, FrameAsks, FrameSettles
  <2> QED
    BY <2>1, <2>2, <2>3, <2>4 DEF HandleFrame
<1> QED
  BY <1>1, <1>3, <1>5, <1>6, <1>7

\* TSL's answer leaves the phrase alone or changes it and shows it.
LEMMA TslCases ==
  ASSUME TypeOK, NEW w \in Words, NEW c \in Confidences, TslReturns(w, c)
  PROVE  LET entry == [text |-> w, conf |-> c, from |-> {batch[i] : i \in DOMAIN batch}] IN
         /\ rpc = "tsl" /\ entry \in Entries
         /\ batch' = <<>>
         /\ UNCHANGED <<detectorVars, window, phrase, replaced, session, ghosts>>
         /\ \/ /\ Changes(entry) /\ glosses' = Pushed(entry) /\ partial' = segs + 1
               /\ Emit("PARTIAL", partial, glosses', EngineTime)
               /\ Sent
            \/ rpc' = "recv" /\ UNCHANGED <<glosses, partial, segments>>
<1>1. [text |-> w, conf |-> c, from |-> {batch[i] : i \in DOMAIN batch}] \in Entries
  <2>1. \A i \in DOMAIN batch : batch[i] \in Nat
    BY LenProperties, ElementOfSeq DEF TypeOK
  <2> QED
    BY <2>1 DEF Entries
<1>2. rpc = "tsl" /\ batch' = <<>> /\ UNCHANGED <<detectorVars, window, phrase, replaced, session, ghosts>>
  BY DEF TslReturns
<1> DEFINE entry == [text |-> w, conf |-> c, from |-> {batch[i] : i \in DOMAIN batch}]
<1>3. \/ /\ Changes(entry) /\ glosses' = Pushed(entry) /\ partial' = segs + 1
         /\ Emit("PARTIAL", partial, glosses', EngineTime)
         /\ Sent
      \/ rpc' = "recv" /\ UNCHANGED <<glosses, partial, segments>>
  BY Zenon DEF TslReturns
<1> QED
  BY <1>1, <1>2, <1>3, Zenon

\* The steps that only move the loop, or take the client away.
Quiet == TslSuppressed \/ EngineFails \/ LoopEnds \/ Disconnect \/ UNCHANGED vars

\* They keep the words, the window and the segments.
LEMMA QuietFacts ==
  ASSUME TypeOK, Quiet
  PROVE  /\ UNCHANGED <<detectorVars, window, words, segments, ghosts, engines>>
         /\ batch' = batch \/ (batch' = <<>> /\ rpc' = "recv")
         /\ UNCHANGED <<frames, stamp>>
         /\ connected' \in BOOLEAN /\ (connected' => connected)
         /\ \/ rpc' = rpc
            \/ rpc = "tsl" /\ rpc' = "recv"
            \/ rpc' = "done"
<1>1. /\ UNCHANGED <<detectorVars, window, words, segments, ghosts>>
      /\ batch' = batch \/ (batch' = <<>> /\ rpc' = "recv")
  BY DEF Quiet, TslSuppressed, EngineFails, LoopEnds, Disconnect, vars, views, session
<1>2. UNCHANGED <<engines, frames, stamp>>
  BY DEF Quiet, TslSuppressed, EngineFails, LoopEnds, Disconnect, vars, session
<1>3. connected' = connected \/ connected' = FALSE
  BY DEF Quiet, TslSuppressed, EngineFails, LoopEnds, Disconnect, vars, session
<1>4. connected' \in BOOLEAN /\ (connected' => connected)
  <2>1. connected \in BOOLEAN
    BY DEF TypeOK
  <2>2. CASE connected' = connected
    BY <2>1, <2>2
  <2>3. CASE connected' = FALSE
    BY <2>3
  <2> QED
    BY <1>3, <2>2, <2>3
<1>5. \/ rpc' = rpc
      \/ rpc = "tsl" /\ rpc' = "recv"
      \/ rpc' = "done"
  BY DEF Quiet, TslSuppressed, EngineFails, LoopEnds, Disconnect, vars, session
<1> QED
  BY <1>1, <1>2, <1>4, <1>5

\* Every step is one of these.
LEMMA NextCases ==
  ASSUME [Next]_vars
  PROVE  \/ \E f \in Shots, t \in Stamps : HandleFrame(f, t)
         \/ \E w \in Words, c \in Confidences : TslReturns(w, c)
         \/ GlossReturns \/ Quiet
BY DEF Next, Quiet

-----------------------------------------------------------------------------
(* Type correctness                                                        *)

\* Every step keeps TypeOK.
LEMMA TypeStep == TypeOK /\ [Next]_vars => TypeOK'
<1> SUFFICES ASSUME TypeOK, [Next]_vars PROVE TypeOK'
  OBVIOUS
<1>0. /\ window \in Seq(Nat) /\ batch \in Seq(Nat) /\ glosses \in Seq(Entries) /\ phrase \in Seq(Entries)
      /\ partial \in Nat /\ replaced \in Nat /\ utter \in Nat /\ settled \in Nat
      /\ rpc \in {"recv", "tsl", "gloss", "done"}
  BY DEF TypeOK
<1>e. <<>> \in Seq(Entries) /\ <<>> \in Seq(Nat)
  BY EmptySeq
<1>1. ASSUME NEW f \in Shots, NEW t \in Stamps, HandleFrame(f, t)
      PROVE  TypeOK'
  <2>1. /\ rpc = "recv" /\ DetectorTypeOK' /\ UNCHANGED <<engines, connected>>
        /\ frames' \in Nat /\ stamp' \in Nat /\ began' \in Nat
        /\ FrameIgnored \/ FrameBegins \/ FrameGoesOn \/ FrameAsks \/ FrameSettles
    BY <1>1, FrameCases
  <2>2. CASE FrameIgnored
    BY <2>1, <2>2 DEF TypeOK, FrameIgnored, views, words, segments, ghosts
  <2>3. CASE FrameBegins \/ FrameGoesOn
    <3>1. /\ UNCHANGED <<words, segments, settled>> /\ utter' \in Nat
          /\ window' \in Seq(Nat) /\ batch' \in Seq(Nat) /\ rpc' \in {rpc, "tsl", "recv"}
      BY <1>0, <2>3, CollectFacts DEF FrameBegins, FrameGoesOn, ghosts
    <3> QED
      BY <2>1, <3>1 DEF TypeOK, words, segments
  <2>4. CASE FrameAsks
    <3>1. /\ UNCHANGED <<views, segments, ghosts>> /\ rpc' = "gloss"
          /\ glosses' = <<>> /\ partial' = NoSeg /\ phrase' = glosses /\ replaced' = partial
      BY <2>4 DEF FrameAsks, Flush
    <3> QED
      BY <1>e, <2>1, <3>1 DEF TypeOK, views, segments, ghosts, NoSeg
  <2>5. CASE FrameSettles
    <3>1. /\ UNCHANGED <<batch, phrase, replaced, utter, began>> /\ rpc' \in {"recv", "done"}
          /\ glosses' = <<>> /\ partial' = NoSeg /\ window' = <<>> /\ settled' = utter
          /\ Emit("FINAL", partial, glosses, EngineTime)
      BY <2>5 DEF FrameSettles, Flush, Settle, Sent
    <3>2. /\ segs' \in Nat /\ screen' \subseteq [id : Nat, text : Seq(Words)]
          /\ wire' \in [id : Nat, status : {"PARTIAL", "FINAL"}, replaces : Nat, at : Nat]
      BY <1>0, <3>1, EmitFacts
    <3> QED
      BY <1>e, <2>1, <3>1, <3>2 DEF TypeOK, NoSeg
  <2> QED
    BY <2>1, <2>2, <2>3, <2>4, <2>5
<1>2. ASSUME NEW w \in Words, NEW c \in Confidences, TslReturns(w, c)
      PROVE  TypeOK'
  <2> DEFINE entry == [text |-> w, conf |-> c, from |-> {batch[i] : i \in DOMAIN batch}]
  <2>1. /\ entry \in Entries /\ batch' = <<>>
        /\ UNCHANGED <<detectorVars, window, phrase, replaced, session, ghosts>>
        /\ \/ /\ Changes(entry) /\ glosses' = Pushed(entry) /\ partial' = segs + 1
              /\ Emit("PARTIAL", partial, glosses', EngineTime)
              /\ Sent
           \/ rpc' = "recv" /\ UNCHANGED <<glosses, partial, segments>>
    BY <1>2, TslCases
  <2> HIDE DEF entry
  <2>a. DetectorTypeOK'
    BY <2>1 DEF TypeOK, DetectorTypeOK, detectorVars
  <2>2. CASE rpc' = "recv" /\ UNCHANGED <<glosses, partial, segments>>
    BY <1>e, <2>1, <2>2, <2>a DEF TypeOK, segments, session, ghosts
  <2>3. CASE /\ Changes(entry) /\ glosses' = Pushed(entry) /\ partial' = segs + 1
             /\ Emit("PARTIAL", partial, glosses', EngineTime)
             /\ Sent
    <3>1. glosses' \in Seq(Entries)
      BY <1>0, <2>1, <2>3, PushFacts
    <3>2. /\ segs' = segs + 1
          /\ segs' \in Nat /\ screen' \subseteq [id : Nat, text : Seq(Words)]
          /\ wire' \in [id : Nat, status : {"PARTIAL", "FINAL"}, replaces : Nat, at : Nat]
      BY <1>0, <2>3, <3>1, EmitFacts
    <3>3. partial' \in Nat /\ rpc' \in {"recv", "done"}
      BY <2>3, <3>2 DEF Sent
    <3> QED
      BY <1>e, <2>1, <2>a, <3>1, <3>2, <3>3 DEF TypeOK, session, ghosts
  <2> QED
    BY <2>1, <2>2, <2>3
<1>3. CASE GlossReturns
  <2>1. /\ UNCHANGED <<detectorVars, batch, glosses, partial, session, utter, began>>
        /\ phrase' = <<>> /\ replaced' = NoSeg /\ window' = <<>> /\ settled' = utter
        /\ rpc' \in {"recv", "done"}
        /\ Emit("FINAL", replaced, phrase, EngineTime)
    BY <1>3 DEF GlossReturns, Settle, Sent
  <2>2. /\ segs' \in Nat /\ screen' \subseteq [id : Nat, text : Seq(Words)]
        /\ wire' \in [id : Nat, status : {"PARTIAL", "FINAL"}, replaces : Nat, at : Nat]
    BY <1>0, <2>1, EmitFacts
  <2>3. DetectorTypeOK'
    BY <2>1 DEF TypeOK, DetectorTypeOK, detectorVars
  <2> QED
    BY <1>e, <2>1, <2>2, <2>3 DEF TypeOK, session, NoSeg
<1>4. CASE Quiet
  <2>1. /\ UNCHANGED <<detectorVars, window, words, segments, ghosts, engines>>
        /\ UNCHANGED <<frames, stamp>> /\ batch' \in {batch, <<>>}
        /\ connected' \in BOOLEAN /\ rpc' \in {rpc, "recv", "done"}
    BY <1>4, QuietFacts
  <2>2. DetectorTypeOK'
    BY <2>1 DEF TypeOK, DetectorTypeOK, detectorVars
  <2> QED
    BY <1>e, <2>1, <2>2 DEF TypeOK, words, segments, ghosts
<1> QED
  BY <1>1, <1>2, <1>3, <1>4, NextCases

-----------------------------------------------------------------------------
(* The phrase                                                              *)

\* Every step keeps PhraseInv.
LEMMA PhraseStep == PhraseInv /\ [Next]_vars => PhraseInv'
<1> SUFFICES ASSUME PhraseInv, [Next]_vars PROVE PhraseInv'
  OBVIOUS
<1>0. TypeOK /\ TypeOK'
  BY TypeStep DEF PhraseInv
<1>p. /\ glosses # <<>> => active
      /\ rpc = "tsl" => active
      /\ rpc = "gloss" => ~active /\ glosses = <<>> /\ phrase # <<>> /\ replaced # NoSeg
      /\ rpc \in {"recv", "tsl"} => phrase = <<>>
      /\ partial # NoSeg <=> glosses # <<>>
  BY DEF PhraseInv
<1>g. /\ glosses \in Seq(Entries) /\ glosses' \in Seq(Entries) /\ segs \in Nat
      /\ window \in Seq(Nat) /\ batch \in Seq(Nat) /\ utter \in Nat /\ rpc \in {"recv", "tsl", "gloss", "done"}
  BY <1>0 DEF TypeOK
<1> DEFINE Places == /\ glosses # <<>> => active
                     /\ rpc = "tsl" => active
                     /\ rpc = "gloss" => ~active /\ glosses = <<>> /\ phrase # <<>>
                                           /\ replaced # NoSeg
                     /\ rpc \in {"recv", "tsl"} => phrase = <<>>
                     /\ partial # NoSeg <=> glosses # <<>>
<1>1. ASSUME NEW f \in Shots, NEW t \in Stamps, HandleFrame(f, t)
      PROVE  Places'
  <2>1. /\ rpc = "recv"
        /\ FrameIgnored \/ FrameBegins \/ FrameGoesOn \/ FrameAsks \/ FrameSettles
    BY <1>0, <1>1, FrameCases
  <2>2. CASE FrameIgnored
    BY <1>p, <2>1, <2>2 DEF FrameIgnored, words, ghosts
  <2>3. CASE FrameBegins
    <3>1. /\ UNCHANGED words /\ active' /\ rpc' \in {rpc, "tsl", "recv"} /\ ~active
      BY <1>g, <2>3, CollectFacts DEF FrameBegins
    <3>2. glosses = <<>> /\ phrase = <<>>
      BY <1>p, <2>1, <3>1
    <3> QED
      BY <1>p, <2>1, <3>1, <3>2 DEF words
  <2>4. CASE FrameGoesOn
    <3>1. /\ UNCHANGED <<words, ghosts>> /\ active' /\ rpc' \in {rpc, "tsl", "recv"}
      BY <1>g, <2>4, CollectFacts DEF FrameGoesOn
    <3> QED
      BY <1>p, <2>1, <3>1 DEF words, ghosts
  <2>5. CASE FrameAsks
    <3>1. /\ UNCHANGED ghosts /\ ~active' /\ rpc' = "gloss" /\ glosses # <<>>
          /\ glosses' = <<>> /\ partial' = NoSeg /\ phrase' = glosses /\ replaced' = partial
      BY <2>5 DEF FrameAsks, Flush
    <3> QED
      BY <1>p, <3>1 DEF ghosts
  <2>6. CASE FrameSettles
    <3>1. /\ UNCHANGED <<phrase, replaced, utter>> /\ rpc' \in {"recv", "done"}
          /\ glosses' = <<>> /\ partial' = NoSeg
      BY <2>6 DEF FrameSettles, Flush, Settle, Sent
    <3> QED
      BY <1>p, <2>1, <3>1
  <2> QED
    BY <2>1, <2>2, <2>3, <2>4, <2>5, <2>6
<1>2. ASSUME NEW w \in Words, NEW c \in Confidences, TslReturns(w, c)
      PROVE  Places'
  <2> DEFINE entry == [text |-> w, conf |-> c, from |-> {batch[i] : i \in DOMAIN batch}]
  <2>1. /\ rpc = "tsl" /\ entry \in Entries
        /\ UNCHANGED <<detectorVars, window, phrase, replaced, session, ghosts>>
        /\ \/ /\ Changes(entry) /\ glosses' = Pushed(entry) /\ partial' = segs + 1
              /\ Emit("PARTIAL", partial, glosses', EngineTime)
              /\ Sent
           \/ rpc' = "recv" /\ UNCHANGED <<glosses, partial, segments>>
    BY <1>0, <1>2, TslCases
  <2> HIDE DEF entry
  <2>3. CASE rpc' = "recv" /\ UNCHANGED <<glosses, partial, segments>>
    BY <1>p, <2>1, <2>3 DEF ghosts, detectorVars
  <2>4. CASE /\ Changes(entry) /\ glosses' = Pushed(entry) /\ partial' = segs + 1
             /\ Emit("PARTIAL", partial, glosses', EngineTime)
             /\ Sent
    <3>1. Len(glosses) \in Nat /\ (Len(glosses') = Len(glosses) + 1 \/ Len(glosses') >= 1)
      BY <1>g, <2>1, <2>4, PushFacts
    <3>2. glosses' # <<>> /\ partial' # NoSeg
      <4>1. Len(glosses') # 0
        BY <3>1
      <4>2. partial' # NoSeg
        BY <1>g, <2>4 DEF NoSeg
      <4> QED
        BY <4>1, <4>2
    <3>3. rpc' \in {"recv", "done"} /\ UNCHANGED <<utter, active, phrase>>
      BY <2>1, <2>4 DEF Sent, ghosts, detectorVars
    <3> QED
      BY <1>p, <2>1, <3>2, <3>3
  <2> QED
    BY <2>1, <2>3, <2>4
<1>3. ASSUME GlossReturns PROVE Places'
  <2>1. /\ UNCHANGED <<detectorVars, glosses, partial, utter>> /\ rpc = "gloss"
        /\ phrase' = <<>> /\ rpc' \in {"recv", "done"}
    BY <1>3 DEF GlossReturns, Settle, Sent
  <2> QED
    BY <1>p, <2>1 DEF detectorVars
<1>4. ASSUME Quiet PROVE Places'
  <2>1. /\ UNCHANGED <<detectorVars, words, ghosts>>
        /\ \/ rpc' = rpc
           \/ rpc = "tsl" /\ rpc' = "recv"
           \/ rpc' = "done"
    BY <1>0, <1>4, QuietFacts
  <2> QED
    BY <1>p, <2>1 DEF detectorVars, words, ghosts
<1>5. Places'
  BY <1>1, <1>2, <1>3, <1>4, NextCases
<1> QED
  BY <1>0, <1>5 DEF PhraseInv

-----------------------------------------------------------------------------
(* What the client is shown                                                *)

\* The PARTIAL that is on the screen, or with GLOSS, is all there is to replace.
LEMMA ScreenFacts ==
  ASSUME ScreenInv, connected, rpc # "done"
  PROVE  /\ rpc = "gloss" =>
              replaced # NoSeg /\ screen = {[id |-> replaced, text |-> Texts(phrase)]}
         /\ rpc # "gloss" /\ glosses # <<>> =>
              partial # NoSeg /\ screen = {[id |-> partial, text |-> Texts(glosses)]}
         /\ rpc # "gloss" /\ glosses = <<>> => partial = NoSeg /\ screen = {}
BY DEF ScreenInv, ScreenIsPhrase, PhraseInv

\* A segment that replaces it leaves nothing else there.
LEMMA NothingElseShown ==
  ASSUME NEW replaces, NEW text,
         screen = {} \/ screen = {[id |-> replaces, text |-> text]}
  PROVE  {s \in screen : s.id # replaces} = {}
OBVIOUS

\* Every step keeps ScreenInv.
LEMMA ScreenStep == ScreenInv /\ [Next]_vars => ScreenInv'
<1> SUFFICES ASSUME ScreenInv, [Next]_vars PROVE ScreenInv'
  OBVIOUS
<1>0. TypeOK /\ PhraseInv'
  BY PhraseStep DEF ScreenInv, PhraseInv
<1>c. (partial # NoSeg <=> glosses # <<>>)'
  BY <1>0 DEF PhraseInv
<1>g. /\ glosses \in Seq(Entries) /\ phrase \in Seq(Entries) /\ segs \in Nat
      /\ partial \in Nat /\ replaced \in Nat /\ window \in Seq(Nat) /\ utter \in Nat
  BY <1>0 DEF TypeOK
<1>w. wire.id <= segs /\ wire.id \in Nat
  BY <1>0 DEF ScreenInv, TypeOK
<1> DEFINE Shown == screen =
                      IF rpc = "gloss" THEN {[id |-> replaced, text |-> Texts(phrase)]}
                      ELSE IF partial # NoSeg THEN {[id |-> partial, text |-> Texts(glosses)]}
                      ELSE {}
           Numbered == wire.id <= segs
<1>q. connected /\ rpc # "done" => Shown
  BY DEF ScreenInv, ScreenIsPhrase
<1>a. ASSUME Numbered', connected' /\ rpc' # "done" => Shown'
      PROVE  ScreenInv'
  BY <1>0, <1>a, <1>c DEF ScreenInv, ScreenIsPhrase
<1>b. ASSUME NEW status \in {"PARTIAL", "FINAL"}, NEW replaces \in Nat,
             NEW entries \in Seq(Entries), Emit(status, replaces, entries, EngineTime)
      PROVE  Numbered'
  <2>1. /\ segs' = segs + 1
        /\ ~connected => UNCHANGED <<screen, wire>>
        /\ connected =>
             wire' = [id |-> segs + 1, status |-> status, replaces |-> replaces, at |-> 0]
    BY <1>0, <1>b, EmitFacts
  <2>2. wire'.id = segs + 1 \/ wire' = wire
    BY <2>1
  <2> QED
    BY <1>g, <1>w, <2>1, <2>2
<1>1. ASSUME NEW f \in Shots, NEW t \in Stamps, HandleFrame(f, t)
      PROVE  ScreenInv'
  <2>1. /\ rpc = "recv" /\ UNCHANGED connected
        /\ FrameIgnored \/ FrameBegins \/ FrameGoesOn \/ FrameAsks \/ FrameSettles
    BY <1>0, <1>1, FrameCases
  <2>2. CASE FrameIgnored \/ FrameBegins \/ FrameGoesOn
    <3>1. UNCHANGED <<words, segments>> /\ rpc' \in {rpc, "tsl", "recv"}
      <4>1. batch \in Seq(Nat)
        BY <1>0 DEF TypeOK
      <4> QED
        BY <1>g, <2>2, <4>1, CollectFacts DEF FrameIgnored, FrameBegins, FrameGoesOn
    <3>2. connected' /\ rpc' # "done" => Shown'
      BY <1>q, <2>1, <3>1 DEF words, segments
    <3>3. Numbered'
      BY <1>w, <3>1 DEF segments
    <3> QED
      BY <1>a, <3>2, <3>3
  <2>3. CASE FrameAsks
    <3>1. /\ UNCHANGED segments /\ rpc' = "gloss" /\ glosses # <<>>
          /\ phrase' = glosses /\ replaced' = partial
      BY <2>3 DEF FrameAsks, Flush
    <3>2. connected => screen = {[id |-> partial, text |-> Texts(glosses)]}
      BY <2>1, <3>1, ScreenFacts
    <3>3. Texts(phrase)' = Texts(glosses)
      BY <3>1 DEF Texts
    <3>4. connected' => Shown'
      BY <2>1, <3>1, <3>2, <3>3 DEF segments
    <3>5. Numbered'
      BY <1>w, <3>1 DEF segments
    <3> QED
      BY <1>a, <3>4, <3>5
  <2>4. CASE FrameSettles
    <3>1. /\ glosses # <<>> /\ partial' = NoSeg /\ rpc' \in {"recv", "done"}
          /\ Emit("FINAL", partial, glosses, EngineTime)
      BY <2>4 DEF FrameSettles, Flush, Settle, Sent
    <3>2. connected => screen' = {s \in screen : s.id # partial} \cup {}
      BY <1>0, <1>g, <3>1, EmitFacts
    <3>3. connected => screen = {[id |-> partial, text |-> Texts(glosses)]}
      BY <2>1, <3>1, ScreenFacts
    <3>4. connected => screen' = {}
      BY <3>2, <3>3
    <3>5. connected' => Shown'
      BY <2>1, <3>1, <3>4
    <3> QED
      BY <1>a, <1>b, <1>g, <3>1, <3>5
  <2> QED
    BY <2>1, <2>2, <2>3, <2>4
<1>2. ASSUME NEW w \in Words, NEW c \in Confidences, TslReturns(w, c)
      PROVE  ScreenInv'
  <2> DEFINE entry == [text |-> w, conf |-> c, from |-> {batch[i] : i \in DOMAIN batch}]
  <2>1. /\ rpc = "tsl" /\ entry \in Entries
        /\ UNCHANGED <<phrase, replaced, session>>
        /\ \/ /\ Changes(entry) /\ glosses' = Pushed(entry) /\ partial' = segs + 1
              /\ Emit("PARTIAL", partial, glosses', EngineTime)
              /\ Sent
           \/ rpc' = "recv" /\ UNCHANGED <<glosses, partial, segments>>
    BY <1>0, <1>2, TslCases
  <2> HIDE DEF entry
  <2>2. CASE rpc' = "recv" /\ UNCHANGED <<glosses, partial, segments>>
    <3>1. connected' => Shown'
      BY <1>q, <2>1, <2>2 DEF segments, session
    <3>2. Numbered'
      BY <1>w, <2>2 DEF segments
    <3> QED
      BY <1>a, <3>1, <3>2
  <2>3. CASE /\ Changes(entry) /\ glosses' = Pushed(entry) /\ partial' = segs + 1
             /\ Emit("PARTIAL", partial, glosses', EngineTime)
             /\ Sent
    <3>1. glosses' \in Seq(Entries)
      BY <1>g, <2>1, <2>3, PushFacts
    <3>2. connected =>
            screen' = {s \in screen : s.id # partial}
                        \cup {[id |-> segs + 1, text |-> Texts(glosses')]}
      BY <1>0, <1>g, <2>3, <3>1, EmitFacts
    <3>3. connected => \/ screen = {}
                       \/ screen = {[id |-> partial, text |-> Texts(glosses)]}
      BY <2>1, ScreenFacts
    <3>4. connected => screen' = {[id |-> partial', text |-> Texts(glosses')]}
      BY <2>3, <3>2, <3>3, NothingElseShown
    <3>5. partial' # NoSeg /\ rpc' \in {"recv", "done"} /\ connected' = connected
      BY <1>g, <2>1, <2>3 DEF NoSeg, Sent, session
    <3>6. Texts(glosses)' = Texts(glosses')
      BY DEF Texts
    <3>7. connected' => Shown'
      BY <3>4, <3>5, <3>6
    <3> QED
      BY <1>a, <1>b, <1>g, <2>3, <3>1, <3>7
  <2> QED
    BY <2>1, <2>2, <2>3
<1>3. CASE GlossReturns
  <2>1. /\ UNCHANGED <<glosses, partial, session>> /\ rpc = "gloss"
        /\ rpc' \in {"recv", "done"}
        /\ Emit("FINAL", replaced, phrase, EngineTime)
    BY <1>3 DEF GlossReturns, Settle, Sent
  <2>2. connected => screen' = {s \in screen : s.id # replaced} \cup {}
    BY <1>0, <1>g, <2>1, EmitFacts
  <2>3. connected => screen = {[id |-> replaced, text |-> Texts(phrase)]}
    BY <2>1, ScreenFacts
  <2>4. connected => screen' = {}
    BY <2>2, <2>3
  <2>5. partial = NoSeg
    BY <2>1 DEF ScreenInv, PhraseInv
  <2>6. connected' => Shown'
    BY <2>1, <2>4, <2>5 DEF session
  <2> QED
    BY <1>a, <1>b, <1>g, <2>1, <2>6
<1>4. CASE Quiet
  <2>1. /\ UNCHANGED <<words, segments>> /\ (connected' => connected)
        /\ \/ rpc' = rpc
           \/ rpc = "tsl" /\ rpc' = "recv"
           \/ rpc' = "done"
    BY <1>0, <1>4, QuietFacts
  <2>2. connected' /\ rpc' # "done" => Shown'
    BY <1>q, <2>1 DEF words, segments
  <2>3. Numbered'
    BY <1>w, <2>1 DEF segments
  <2> QED
    BY <1>a, <2>2, <2>3
<1> QED
  BY <1>1, <1>2, <1>3, <1>4, NextCases

-----------------------------------------------------------------------------
(* The transcript                                                          *)

\* A segment that replaces all that is shown is a step of the transcript.
LEMMA EmitDelivers ==
  ASSUME ScreenInv, connected,
         NEW status \in {"PARTIAL", "FINAL"}, NEW replaces \in Nat,
         NEW entries \in Seq(Entries), Emit(status, replaces, entries, EngineTime),
         NEW text,
         screen = IF replaces = NoSeg THEN {} ELSE {[id |-> replaces, text |-> text]}
  PROVE  Stream!Next
<1> DEFINE shown == {s.id : s \in screen}
           new == [id |-> segs + 1, text |-> Texts(entries)]
<1>1. segs \in Nat /\ wire.id \in Nat /\ wire.id <= segs
  BY DEF ScreenInv, PhraseInv, TypeOK
<1>2. /\ wire' = [id |-> segs + 1, status |-> status, replaces |-> replaces, at |-> 0]
      /\ screen' = {s \in screen : s.id # replaces} \cup
           (IF status = "PARTIAL" THEN {new} ELSE {})
  BY EmitFacts DEF ScreenInv, PhraseInv
<1>3. shown = IF replaces = NoSeg THEN {} ELSE {replaces}
  <2>1. CASE replaces = NoSeg
    BY <2>1
  <2>2. CASE replaces # NoSeg
    <3>1. \A s \in screen : s.id = replaces
      BY <2>2
    <3>2. [id |-> replaces, text |-> text] \in screen
      BY <2>2
    <3> QED
      BY <2>2, <3>1, <3>2
  <2> QED
    BY <2>1, <2>2
<1>4. screen' = IF status = "PARTIAL" THEN {new} ELSE {}
  <2>1. {s \in screen : s.id # replaces} = {}
    BY NothingElseShown
  <2> QED
    BY <1>2, <2>1
<1>5. shown' = IF status = "PARTIAL" THEN {segs + 1} ELSE {}
  <2>1. new.id = segs + 1
    OBVIOUS
  <2> HIDE DEF new
  <2>2. CASE status = "PARTIAL"
    BY <1>4, <2>1, <2>2
  <2>3. CASE status # "PARTIAL"
    BY <1>4, <2>3
  <2> QED
    BY <2>2, <2>3
<1>6. wire'.id = segs + 1 /\ wire'.status = status /\ wire'.replaces = replaces
  BY <1>2
<1>7. segs + 1 > wire.id
  BY <1>1
<1> HIDE DEF shown
<1>8. CASE status = "PARTIAL"
  BY <1>3, <1>5, <1>6, <1>7, <1>8
     DEF Stream!Next, Stream!Revise, Stream!Deliver, Stream!Named, Stream!NoSeg, NoSeg, shown
<1>9. CASE status = "FINAL"
  BY <1>3, <1>5, <1>6, <1>7, <1>9
     DEF Stream!Next, Stream!Settle, Stream!Deliver, Stream!Named, Stream!NoSeg, NoSeg, shown
<1> QED
  BY <1>8, <1>9

\* Every step of a session is a step of the transcript or changes nothing there.
LEMMA TranscriptStep ==
  ASSUME ScreenInv, [Next]_vars
  PROVE  Stream!Next \/ UNCHANGED <<screen, wire>>
<1>0. TypeOK
  BY DEF ScreenInv, PhraseInv
<1>g. /\ glosses \in Seq(Entries) /\ phrase \in Seq(Entries)
      /\ partial \in Nat /\ replaced \in Nat /\ window \in Seq(Nat) /\ utter \in Nat
  BY <1>0 DEF TypeOK
<1>a. ASSUME NEW status \in {"PARTIAL", "FINAL"}, NEW replaces \in Nat,
             NEW entries \in Seq(Entries), Emit(status, replaces, entries, EngineTime),
             NEW text,
             connected =>
               screen = IF replaces = NoSeg THEN {} ELSE {[id |-> replaces, text |-> text]}
      PROVE  Stream!Next \/ UNCHANGED <<screen, wire>>
  <2>1. CASE connected
    BY <1>a, <2>1, EmitDelivers
  <2>2. CASE ~connected
    BY <1>0, <1>a, <2>2, EmitFacts
  <2> QED
    BY <2>1, <2>2
<1>1. ASSUME NEW f \in Shots, NEW t \in Stamps, HandleFrame(f, t)
      PROVE  Stream!Next \/ UNCHANGED <<screen, wire>>
  <2>1. /\ rpc = "recv"
        /\ FrameIgnored \/ FrameBegins \/ FrameGoesOn \/ FrameAsks \/ FrameSettles
    BY <1>0, <1>1, FrameCases
  <2>2. CASE FrameIgnored \/ FrameBegins \/ FrameGoesOn \/ FrameAsks
    BY <2>2 DEF FrameIgnored, FrameBegins, FrameGoesOn, FrameAsks, segments
  <2>3. CASE FrameSettles
    <3>1. glosses # <<>> /\ Emit("FINAL", partial, glosses, EngineTime)
      BY <2>3 DEF FrameSettles, Settle
    <3>2. connected =>
            partial # NoSeg /\ screen = {[id |-> partial, text |-> Texts(glosses)]}
      BY <2>1, <3>1, ScreenFacts
    <3> QED
      BY <1>a, <1>g, <3>1, <3>2
  <2> QED
    BY <2>1, <2>2, <2>3
<1>2. ASSUME NEW w \in Words, NEW c \in Confidences, TslReturns(w, c)
      PROVE  Stream!Next \/ UNCHANGED <<screen, wire>>
  <2> DEFINE entry == [text |-> w, conf |-> c, from |-> {batch[i] : i \in DOMAIN batch}]
  <2>1. /\ rpc = "tsl" /\ entry \in Entries
        /\ \/ /\ Changes(entry) /\ glosses' = Pushed(entry)
              /\ Emit("PARTIAL", partial, glosses', EngineTime)
           \/ UNCHANGED segments
    BY <1>0, <1>2, TslCases
  <2> HIDE DEF entry
  <2>2. CASE UNCHANGED segments
    BY <2>2 DEF segments
  <2>3. CASE /\ Changes(entry) /\ glosses' = Pushed(entry)
             /\ Emit("PARTIAL", partial, glosses', EngineTime)
    <3>1. glosses' \in Seq(Entries)
      BY <1>g, <2>1, <2>3, PushFacts
    <3>2. connected =>
            screen = IF partial = NoSeg THEN {} ELSE {[id |-> partial, text |-> Texts(glosses)]}
      BY <2>1, ScreenFacts
    <3> QED
      BY <1>a, <1>g, <2>3, <3>1, <3>2
  <2> QED
    BY <2>1, <2>2, <2>3
<1>3. CASE GlossReturns
  <2>1. rpc = "gloss" /\ Emit("FINAL", replaced, phrase, EngineTime)
    BY <1>3 DEF GlossReturns, Settle
  <2>2. connected =>
          replaced # NoSeg /\ screen = {[id |-> replaced, text |-> Texts(phrase)]}
    BY <2>1, ScreenFacts
  <2> QED
    BY <1>a, <1>g, <2>1, <2>2
<1>4. CASE Quiet
  BY <1>0, <1>4, QuietFacts DEF segments
<1> QED
  BY <1>1, <1>2, <1>3, <1>4, NextCases

-----------------------------------------------------------------------------
(* The window                                                              *)

\* Every step keeps WindowInv.
LEMMA WindowStep == WindowInv /\ [Next]_vars => WindowInv'
<1> SUFFICES ASSUME WindowInv, [Next]_vars PROVE WindowInv'
  OBVIOUS
<1>0. TypeOK /\ PhraseInv' /\ PhraseInv
  BY PhraseStep DEF WindowInv, PhraseInv
<1>g. /\ window \in Seq(Nat) /\ batch \in Seq(Nat) /\ utter \in Nat /\ settled \in Nat
      /\ \A i \in DOMAIN window : window[i] \in Nat
  <2>1. window \in Seq(Nat) /\ batch \in Seq(Nat) /\ utter \in Nat /\ settled \in Nat
    BY <1>0 DEF TypeOK
  <2> QED
    BY <2>1, LenProperties, ElementOfSeq
<1> DEFINE Parts == /\ \A i \in DOMAIN window : window[i] > settled
                    /\ settled <= utter
                    /\ active => settled < utter
<1>p. Parts
  BY DEF WindowInv, SettledIsForgotten
<1>e. DOMAIN <<>> = {}
  OBVIOUS
<1>1. ASSUME NEW f \in Shots, NEW t \in Stamps, HandleFrame(f, t)
      PROVE  Parts'
  <2>1. FrameIgnored \/ FrameBegins \/ FrameGoesOn \/ FrameAsks \/ FrameSettles
    BY <1>0, <1>1, FrameCases
  <2>2. CASE FrameIgnored \/ FrameAsks
    <3>1. UNCHANGED <<window, utter, settled>> /\ (active' => active)
      BY <2>2 DEF FrameIgnored, FrameAsks, views, ghosts
    <3> QED
      BY <1>p, <3>1
  <2>3. CASE FrameBegins \/ FrameGoesOn
    <3>1. PICK of \in Nat : /\ Collect(of) /\ of > settled /\ utter' >= of
                            /\ utter' \in Nat /\ settled' = settled
      BY <1>g, <1>p, <2>3 DEF FrameBegins, FrameGoesOn, ghosts
    <3>2. \A i \in DOMAIN window' :
            window'[i] = of \/ \E j \in DOMAIN window : window'[i] = window[j]
      BY <1>g, <3>1, CollectFacts
    <3>3. \A i \in DOMAIN window' : window'[i] > settled
      BY <1>p, <3>1, <3>2
    <3>4. settled < utter'
      BY <1>g, <3>1
    <3> QED
      BY <1>g, <3>1, <3>3, <3>4
  <2>4. CASE FrameSettles
    <3>1. window' = <<>> /\ settled' = utter /\ utter' = utter /\ ~active'
      BY <2>4 DEF FrameSettles, Settle
    <3> QED
      BY <1>e, <1>g, <3>1
  <2> QED
    BY <2>1, <2>2, <2>3, <2>4
<1>2. ASSUME NEW w \in Words, NEW c \in Confidences, TslReturns(w, c)
      PROVE  Parts'
  <2>1. UNCHANGED <<window, utter, settled, active>>
    BY <1>2 DEF TslReturns, detectorVars, ghosts
  <2> QED
    BY <1>p, <2>1
<1>3. ASSUME GlossReturns PROVE Parts'
  <2>1. /\ rpc = "gloss" /\ window' = <<>> /\ settled' = utter /\ utter' = utter
        /\ active' = active
    BY <1>3 DEF GlossReturns, Settle, detectorVars
  <2>2. ~active
    BY <1>0, <2>1 DEF PhraseInv
  <2> QED
    BY <1>e, <1>g, <2>1, <2>2
<1>4. ASSUME Quiet PROVE Parts'
  <2>1. UNCHANGED <<window, utter, settled, active>>
    BY <1>0, <1>4, QuietFacts DEF detectorVars, ghosts
  <2> QED
    BY <1>p, <2>1
<1>5. Parts'
  BY <1>1, <1>2, <1>3, <1>4, NextCases
<1> QED
  BY <1>0, <1>5 DEF WindowInv, SettledIsForgotten

\* The frames behind a phrase when a word is pushed.
LEMMA PushedIsFresh ==
  ASSUME glosses \in Seq(Entries), NEW entry \in Entries, Changes(entry),
         glosses' = Pushed(entry), Seen(glosses), Fresh(entry.from),
         UNCHANGED <<utter, settled>>
  PROVE  Seen(glosses)'
<1> DEFINE n == Len(glosses)
<1>1. /\ n \in Nat /\ glosses' \in Seq(Entries)
      /\ \/ /\ Len(glosses') = n /\ n >= 1 /\ glosses'[n] = entry
            /\ \A i \in 1 .. n - 1 : glosses'[i] = glosses[i]
         \/ /\ Len(glosses') = n + 1 /\ glosses'[n + 1] = entry
            /\ \A i \in 1 .. n : glosses'[i] = glosses[i]
  BY PushFacts
<1>2. DOMAIN glosses = 1 .. n /\ DOMAIN glosses' = 1 .. Len(glosses')
  BY <1>1, LenProperties
<1> HIDE DEF n
<1>3. ASSUME NEW i \in DOMAIN glosses'
      PROVE  glosses'[i] = entry \/ (i \in DOMAIN glosses /\ glosses'[i] = glosses[i])
  <2>1. CASE Len(glosses') = n /\ glosses'[n] = entry
             /\ \A j \in 1 .. n - 1 : glosses'[j] = glosses[j]
    <3>1. i = n \/ i \in 1 .. n - 1
      BY <1>1, <1>2, <1>3, <2>1
    <3> QED
      BY <1>1, <1>2, <2>1, <3>1
  <2>2. CASE Len(glosses') = n + 1 /\ glosses'[n + 1] = entry
             /\ \A j \in 1 .. n : glosses'[j] = glosses[j]
    <3>1. i = n + 1 \/ i \in 1 .. n
      BY <1>1, <1>2, <1>3, <2>2
    <3> QED
      BY <1>1, <1>2, <2>2, <3>1
  <2> QED
    BY <1>1, <2>1, <2>2
<1> QED
  BY <1>3 DEF Seen, Fresh

\* Every step keeps SeenInv.
LEMMA SeenStep == SeenInv /\ [Next]_vars => SeenInv'
<1> SUFFICES ASSUME SeenInv, [Next]_vars PROVE SeenInv'
  OBVIOUS
<1>0. TypeOK /\ PhraseInv /\ WindowInv /\ WindowInv'
  BY WindowStep DEF SeenInv, WindowInv, PhraseInv
<1>g. /\ window \in Seq(Nat) /\ batch \in Seq(Nat) /\ utter \in Nat /\ settled \in Nat
      /\ glosses \in Seq(Entries)
      /\ \A i \in DOMAIN window : window[i] \in Nat
  <2>1. /\ window \in Seq(Nat) /\ batch \in Seq(Nat) /\ utter \in Nat /\ settled \in Nat
        /\ glosses \in Seq(Entries)
    BY <1>0 DEF TypeOK
  <2> QED
    BY <2>1, LenProperties, ElementOfSeq
<1> DEFINE Room == Len(window) < WindowSize /\ \A i \in DOMAIN window : window[i] <= utter
           Given == rpc = "tsl" => Fresh({batch[i] : i \in DOMAIN batch})
           Made == Seen(glosses) /\ Seen(phrase)
<1>p. Room /\ Given /\ Made
  BY DEF SeenInv
<1>w. \A i \in DOMAIN window : window[i] > settled
  BY <1>0 DEF WindowInv, SettledIsForgotten
<1>e. DOMAIN <<>> = {} /\ Len(<<>>) = 0 /\ WindowSize \in Nat \ {0}
  BY SignAssumption
<1>1. ASSUME NEW f \in Shots, NEW t \in Stamps, HandleFrame(f, t)
      PROVE  (Room /\ Given /\ Made)'
  <2>1. /\ FrameIgnored \/ FrameBegins \/ FrameGoesOn \/ FrameAsks \/ FrameSettles
        /\ rpc = "recv"
    BY <1>0, <1>1, FrameCases
  <2>2. CASE FrameIgnored
    <3>1. UNCHANGED <<window, batch, glosses, phrase, rpc, utter, settled>>
      BY <2>2 DEF FrameIgnored, views, words, ghosts
    <3> QED
      BY <1>p, <2>1, <3>1 DEF Seen
  <2>3. CASE FrameBegins \/ FrameGoesOn
    <3>1. PICK of \in Nat : /\ Collect(of) /\ of > settled /\ utter' = of /\ utter <= of
                            /\ settled' = settled /\ UNCHANGED <<glosses, phrase>>
                            /\ utter' = utter \/ (glosses = <<>> /\ phrase = <<>>)
      <4>1. rpc = "recv" => phrase = <<>>
        BY <1>0 DEF PhraseInv
      <4>2. CASE FrameBegins
        <5>1. glosses = <<>> /\ settled <= utter
          BY <1>0, <4>2 DEF FrameBegins, PhraseInv, WindowInv
        <5>2. utter + 1 \in Nat /\ utter + 1 > settled
          BY <1>g, <5>1
        <5> QED
          BY <1>g, <2>1, <4>1, <4>2, <5>1, <5>2 DEF FrameBegins, words
      <4>3. CASE FrameGoesOn
        <5>1. utter > settled
          BY <1>0, <1>g, <4>3 DEF FrameGoesOn, WindowInv
        <5> QED
          BY <1>g, <4>3, <5>1 DEF FrameGoesOn, words, ghosts
      <4> QED
        BY <2>3, <4>2, <4>3
    <3>2. /\ \A i \in DOMAIN window' :
               window'[i] = of \/ \E j \in DOMAIN window : window'[i] = window[j]
          /\ Len(window') < WindowSize
          /\ rpc' = rpc \/ (/\ \E i \in DOMAIN batch' : batch'[i] = of
                            /\ \A i \in DOMAIN batch' :
                                 batch'[i] = of \/ \E j \in DOMAIN window : batch'[i] = window[j])
      BY <1>g, <1>p, <3>1, CollectFacts, CollectGives
    <3>3. \A j \in DOMAIN window : window[j] \in settled' + 1 .. utter'
      BY <1>g, <1>p, <1>w, <3>1
    <3>4. of \in settled' + 1 .. utter'
      BY <1>g, <3>1
    <3>a. \A i \in DOMAIN window' : window'[i] \in settled' + 1 .. utter'
      BY <3>2, <3>3, <3>4
    <3>5. Room'
      BY <1>g, <3>1, <3>2, <3>a
    <3>6. Given'
      BY <2>1, <3>1, <3>2, <3>3, <3>4 DEF Fresh
    <3>7. Made'
      BY <1>p, <1>e, <3>1 DEF Seen
    <3> QED
      BY <3>5, <3>6, <3>7
  <2>4. CASE FrameAsks
    <3>1. /\ UNCHANGED <<window, utter, settled>> /\ rpc' = "gloss"
          /\ glosses' = <<>> /\ phrase' = glosses
      BY <2>4 DEF FrameAsks, Flush, views, ghosts
    <3> QED
      BY <1>e, <1>p, <3>1 DEF Seen
  <2>5. CASE FrameSettles
    <3>1. /\ window' = <<>> /\ glosses' = <<>> /\ phrase' = phrase
          /\ rpc' \in {"recv", "done"}
      BY <2>5 DEF FrameSettles, Settle, Flush, Sent
    <3>2. phrase = <<>>
      BY <1>0, <2>1 DEF PhraseInv
    <3> QED
      BY <1>e, <3>1, <3>2 DEF Seen
  <2> QED
    BY <2>1, <2>2, <2>3, <2>4, <2>5
<1>2. ASSUME NEW w \in Words, NEW c \in Confidences, TslReturns(w, c)
      PROVE  (Room /\ Given /\ Made)'
  <2> DEFINE entry == [text |-> w, conf |-> c, from |-> {batch[i] : i \in DOMAIN batch}]
  <2>1. /\ rpc = "tsl" /\ entry \in Entries
        /\ UNCHANGED <<window, phrase, utter, settled>>
        /\ \/ Changes(entry) /\ glosses' = Pushed(entry) /\ Sent
           \/ rpc' = "recv" /\ UNCHANGED glosses
    BY <1>0, <1>2, TslCases DEF ghosts
  <2>2. Fresh(entry.from)
    BY <1>p, <2>1
  <2> HIDE DEF entry
  <2>3. rpc' \in {"recv", "done"}
    BY <2>1 DEF Sent
  <2>4. Seen(glosses)'
    <3>1. CASE UNCHANGED glosses
      BY <1>p, <2>1, <3>1 DEF Seen
    <3>2. CASE Changes(entry) /\ glosses' = Pushed(entry)
      BY <1>g, <1>p, <2>1, <2>2, <3>2, PushedIsFresh
    <3> QED
      BY <2>1, <3>1, <3>2
  <2>5. Seen(phrase)'
    BY <1>p, <2>1 DEF Seen
  <2> QED
    BY <1>p, <2>1, <2>3, <2>4, <2>5
<1>3. ASSUME GlossReturns PROVE (Room /\ Given /\ Made)'
  <2>1. /\ rpc = "gloss" /\ window' = <<>> /\ phrase' = <<>> /\ glosses' = glosses
        /\ rpc' \in {"recv", "done"}
    BY <1>3 DEF GlossReturns, Settle, Sent
  <2>2. glosses = <<>>
    BY <1>0, <2>1 DEF PhraseInv
  <2> QED
    BY <1>e, <2>1, <2>2 DEF Seen
<1>4. ASSUME Quiet PROVE (Room /\ Given /\ Made)'
  <2>1. /\ UNCHANGED <<window, glosses, phrase, utter, settled>>
        /\ batch' = batch \/ rpc' = "recv"
        /\ rpc' = "tsl" => rpc = "tsl"
    BY <1>0, <1>4, QuietFacts DEF words, ghosts
  <2> QED
    BY <1>p, <2>1 DEF Seen, Fresh
<1>5. (Room /\ Given /\ Made)'
  BY <1>1, <1>2, <1>3, <1>4, NextCases
<1> QED
  BY <1>0, <1>5 DEF SeenInv

-----------------------------------------------------------------------------
(* The accumulator                                                         *)

\* What any step does to the accumulator: nothing, empty it, or push a word.
LEMMA GlossesChange ==
  ASSUME TypeOK, [Next]_vars
  PROVE  \/ glosses' = glosses
         \/ glosses' = <<>>
         \/ \E entry \in Entries : Changes(entry) /\ glosses' = Pushed(entry)
<1>1. ASSUME NEW f \in Shots, NEW t \in Stamps, HandleFrame(f, t)
      PROVE  glosses' = glosses \/ glosses' = <<>>
  <2>1. FrameIgnored \/ FrameBegins \/ FrameGoesOn \/ FrameAsks \/ FrameSettles
    BY <1>1, FrameCases
  <2> QED
    BY <2>1 DEF FrameIgnored, FrameBegins, FrameGoesOn, FrameAsks, FrameSettles, Flush, words
<1>2. ASSUME NEW w \in Words, NEW c \in Confidences, TslReturns(w, c)
      PROVE  \/ glosses' = glosses
             \/ \E entry \in Entries : Changes(entry) /\ glosses' = Pushed(entry)
  <2> DEFINE entry == [text |-> w, conf |-> c, from |-> {batch[i] : i \in DOMAIN batch}]
  <2>1. /\ entry \in Entries
        /\ (Changes(entry) /\ glosses' = Pushed(entry)) \/ glosses' = glosses
    BY <1>2, TslCases
  <2> HIDE DEF entry
  <2> QED
    BY <2>1
<1>3. CASE GlossReturns
  BY <1>3 DEF GlossReturns
<1>4. CASE Quiet
  BY <1>4, QuietFacts DEF words
<1> QED
  BY <1>1, <1>2, <1>3, <1>4, NextCases

\* Every step keeps CollapseInv.
LEMMA CollapseStep == CollapseInv /\ [Next]_vars => CollapseInv'
<1> SUFFICES ASSUME CollapseInv, [Next]_vars PROVE CollapseInv'
  OBVIOUS
<1>0. TypeOK /\ TypeOK' /\ MaxWords \in Nat
  BY TypeStep, SignAssumption DEF CollapseInv
<1>1. glosses \in Seq(Entries)
  BY <1>0 DEF TypeOK
<1>2. /\ Len(glosses) <= MaxWords
      /\ \A i \in 1 .. Len(glosses) - 1 : glosses[i].text # glosses[i + 1].text
  BY DEF CollapseInv, RepeatsCollapse
<1>3. CASE glosses' = glosses
  BY <1>0, <1>2, <1>3 DEF CollapseInv, RepeatsCollapse
<1>4. CASE glosses' = <<>>
  <2>1. Len(glosses') = 0
    BY <1>4
  <2> QED
    BY <1>0, <2>1 DEF CollapseInv, RepeatsCollapse
<1>5. ASSUME NEW entry \in Entries, Changes(entry), glosses' = Pushed(entry)
      PROVE  CollapseInv'
  <2> DEFINE n == Len(glosses)
             m == Len(glosses')
  <2>1. /\ n \in Nat
        /\ \/ /\ m = n /\ n >= 1
              /\ glosses'[n] = entry /\ entry.text = glosses[n].text
              /\ \A i \in 1 .. n - 1 : glosses'[i] = glosses[i]
           \/ /\ m = n + 1 /\ n < MaxWords
              /\ glosses'[n + 1] = entry
              /\ glosses # <<>> => entry.text # glosses[n].text
              /\ \A i \in 1 .. n : glosses'[i] = glosses[i]
    BY <1>1, <1>5, PushFacts
  <2>2. n # 0 => glosses # <<>>
    BY <1>1, EmptySeq
  <2>3. /\ n <= MaxWords
        /\ \A i \in 1 .. n - 1 : glosses[i].text # glosses[i + 1].text
    BY <1>2
  <2> HIDE DEF n, m
  <2>4. CASE /\ m = n /\ n >= 1
             /\ glosses'[n] = entry /\ entry.text = glosses[n].text
             /\ \A i \in 1 .. n - 1 : glosses'[i] = glosses[i]
    <3>1. \A i \in 1 .. n : glosses'[i].text = glosses[i].text
      <4> SUFFICES ASSUME NEW i \in 1 .. n PROVE glosses'[i].text = glosses[i].text
        OBVIOUS
      <4>1. i = n \/ i \in 1 .. n - 1
        BY <2>1
      <4> QED
        BY <2>4, <4>1
    <3>2. ASSUME NEW i \in 1 .. n - 1 PROVE glosses'[i].text # glosses'[i + 1].text
      <4>1. i \in 1 .. n /\ i + 1 \in 1 .. n
        BY <2>1
      <4> QED
        BY <2>3, <3>1, <4>1
    <3> QED
      BY <1>0, <2>3, <2>4, <3>2 DEF CollapseInv, RepeatsCollapse, m
  <2>5. CASE /\ m = n + 1 /\ n < MaxWords
             /\ glosses'[n + 1] = entry
             /\ glosses # <<>> => entry.text # glosses[n].text
             /\ \A i \in 1 .. n : glosses'[i] = glosses[i]
    <3>1. ASSUME NEW i \in 1 .. n PROVE glosses'[i].text # glosses'[i + 1].text
      <4>1. CASE i = n
        <5>1. glosses'[n] = glosses[n] /\ n # 0
          BY <2>1, <2>5, <4>1
        <5> QED
          BY <2>2, <2>5, <4>1, <5>1
      <4>2. CASE i # n
        <5>1. i \in 1 .. n - 1 /\ i + 1 \in 1 .. n
          BY <2>1, <4>2
        <5>2. glosses'[i] = glosses[i] /\ glosses'[i + 1] = glosses[i + 1]
          BY <2>5, <5>1
        <5> QED
          BY <2>3, <5>1, <5>2
      <4> QED
        BY <4>1, <4>2
    <3>2. m <= MaxWords /\ m - 1 = n
      BY <1>0, <2>1, <2>5
    <3> QED
      BY <1>0, <3>1, <3>2 DEF CollapseInv, RepeatsCollapse, m
  <2> QED
    BY <2>1, <2>4, <2>5
<1> QED
  BY <1>0, <1>3, <1>4, <1>5, GlossesChange

\* A step that leaves as many words does not lower the last one's confidence.
LEMMA BestStep ==
  ASSUME TypeOK, [Next]_vars, glosses # <<>>, Len(glosses') = Len(glosses)
  PROVE  Last(glosses').conf >= Last(glosses).conf
<1> DEFINE n == Len(glosses)
<1>1. glosses \in Seq(Entries) /\ n \in Nat \ {0}
  BY EmptySeq DEF TypeOK
<1>2. glosses[n] \in Entries
  BY <1>1, ElementOfSeq
<1>3. glosses[n].conf \in Nat
  BY <1>2, SignAssumption DEF Entries
<1>4. CASE glosses' = glosses
  BY <1>3, <1>4 DEF Last
<1>5. CASE glosses' = <<>>
  <2>1. Len(glosses') = 0
    BY <1>5
  <2> QED
    BY <1>1, <2>1
<1>6. ASSUME NEW entry \in Entries, Changes(entry), glosses' = Pushed(entry)
      PROVE  Last(glosses').conf >= Last(glosses).conf
  <2>1. \/ glosses'[n] = entry /\ entry.conf > glosses[n].conf
        \/ Len(glosses') = n + 1
    BY <1>1, <1>6, PushFacts
  <2>2. glosses'[n] = entry /\ entry.conf > glosses[n].conf
    BY <1>1, <2>1
  <2>3. entry.conf \in Nat
    BY SignAssumption DEF Entries
  <2> QED
    BY <1>3, <2>2, <2>3 DEF Last
<1> QED
  BY <1>4, <1>5, <1>6, GlossesChange

-----------------------------------------------------------------------------
(* Theorems                                                                *)

\* The initial state satisfies the four invariants.
LEMMA InitInv == Init => ScreenInv /\ SeenInv /\ CollapseInv
<1> SUFFICES ASSUME Init PROVE ScreenInv /\ SeenInv /\ CollapseInv
  OBVIOUS
<1>1. DetectorTypeOK
  <2>1. NoWrists \in [{} -> Positions] /\ {} \in SUBSET Sides
    BY DEF NoWrists
  <2>2. \E D \in SUBSET Sides : prev \in [D -> Positions]
    BY <2>1 DEF Init, DetectorInit
  <2>3. moving \in 0 .. ActivateFrames /\ resting \in 0 .. DeactivateFrames
    BY DetectorAssumption DEF Init, DetectorInit
  <2>4. active \in BOOLEAN
    BY DEF Init, DetectorInit
  <2> QED
    BY <2>2, <2>3, <2>4 DEF DetectorTypeOK
<1>2. <<>> \in Seq(Entries) /\ <<>> \in Seq(Nat) /\ Len(<<>>) = 0 /\ DOMAIN <<>> = {}
  BY EmptySeq
<1>3. TypeOK
  BY <1>1, <1>2 DEF Init, TypeOK, Registered, NoSeg
<1>4. PhraseInv
  BY <1>2, <1>3 DEF Init, DetectorInit, PhraseInv
<1>5. ScreenInv
  BY <1>4 DEF Init, ScreenInv, ScreenIsPhrase, NoSeg
<1>6. SeenInv
  <2>1. WindowInv
    BY <1>2, <1>4 DEF Init, DetectorInit, WindowInv, SettledIsForgotten
  <2> QED
    BY <1>2, <2>1, SignAssumption DEF Init, SeenInv, Seen
<1>7. CollapseInv
  BY <1>2, <1>3, SignAssumption DEF Init, CollapseInv, RepeatsCollapse
<1> QED
  BY <1>5, <1>6, <1>7

\* Every variable has its type.
THEOREM TypeCorrect == Spec => []TypeOK
<1>1. Init => TypeOK
  BY InitInv DEF CollapseInv
<1> QED
  BY <1>1, TypeStep, PTL DEF Spec

\* Every word of a phrase was seen in frames of its utterance, at most with frames left
\* by utterances since the last FINAL: words of two utterances never make one phrase.
THEOREM PhraseOfOneUtterance == Spec => []PhraseIsOneUtterance
<1>1. Init => SeenInv
  BY InitInv
<1>2. SeenInv => PhraseIsOneUtterance
  BY DEF SeenInv, WindowInv, PhraseInv, PhraseIsOneUtterance
<1> QED
  BY <1>1, <1>2, SeenStep, PTL DEF Spec

\* ScreenInv holds in every state.
LEMMA ScreenInvariant == Spec => []ScreenInv
<1>1. Init => ScreenInv
  BY InitInv
<1> QED
  BY <1>1, ScreenStep, PTL DEF Spec

\* The client is shown the words that the server will settle.
THEOREM PhraseIsShown == Spec => []ScreenIsPhrase
<1>1. ScreenInv => ScreenIsPhrase
  BY DEF ScreenInv
<1> QED
  BY <1>1, ScreenInvariant, PTL

\* What the client receives is a transcript as the messages' contract has it.
THEOREM ImplementsTranscript == Spec => Transcript
<1>1. Init => Stream!Init
  BY DEF Init, Stream!Init, Stream!NoSeg, NoSeg
<1>2. ScreenInv /\ [Next]_vars
      => [Stream!Next]_<<{s.id : s \in screen},
                         [id |-> wire.id, status |-> wire.status, replaces |-> wire.replaces]>>
  <2> SUFFICES ASSUME ScreenInv, [Next]_vars
               PROVE  \/ Stream!Next
                      \/ UNCHANGED <<{s.id : s \in screen},
                           [id |-> wire.id, status |-> wire.status,
                            replaces |-> wire.replaces]>>
    OBVIOUS
  <2>1. CASE Stream!Next
    BY <2>1
  <2>2. CASE UNCHANGED <<screen, wire>>
    BY <2>2
  <2> QED
    BY <2>1, <2>2, TranscriptStep
<1> QED
  BY <1>1, <1>2, ScreenInvariant, PTL DEF Spec, Transcript, Stream!Spec

\* Frames of an utterance whose FINAL is out are never recognised again.
THEOREM SettledFramesForgotten == Spec => []SettledIsForgotten
<1>1. Init => WindowInv
  BY InitInv DEF SeenInv
<1>2. WindowInv => SettledIsForgotten
  BY DEF WindowInv
<1> QED
  BY <1>1, <1>2, WindowStep, PTL DEF Spec

\* Overlapping windows that show one sign give one word, and a phrase has no more
\* than max_words.
THEOREM RepeatsAreOneWord == Spec => []RepeatsCollapse
<1>1. Init => CollapseInv
  BY InitInv
<1>2. CollapseInv => RepeatsCollapse
  BY DEF CollapseInv
<1> QED
  BY <1>1, <1>2, CollapseStep, PTL DEF Spec

\* A repeated word keeps its most confident recognition.
THEOREM BestRecognitionKept == Spec => BestIsKept
<1>1. TypeOK /\ [Next]_vars =>
        [glosses # <<>> /\ Len(glosses') = Len(glosses) =>
           Last(glosses').conf >= Last(glosses).conf]_vars
  BY BestStep
<1> QED
  BY <1>1, TypeCorrect, PTL DEF Spec, BestIsKept

-----------------------------------------------------------------------------
(* The detector alone, given any frames                                    *)

\* The code counts the run that there really was, by the wrists of the last frame;
\* CountsRuns is not inductive without the wrists, nor NeverLate without CountsRuns.
RunInv ==
  /\ StreamTypeOK
  /\ prev = last
  /\ CountsRuns
  /\ NeverLate

\* The code sees movement in the frames in which there is some.
LEMMA MovementSeen ==
  ASSUME DetectorTypeOK, prev = last, NEW f \in Frames
  PROVE  ReallyActive(f) <=> FrameActive(f)
<1>1. PICK D \in SUBSET Sides : prev \in [D -> Positions]
  BY DEF DetectorTypeOK
<1>2. /\ f.hands \in SUBSET Sides /\ f.pose \in BOOLEAN
      /\ \A s \in Sides : f.at[s] \in Int
  BY DetectorAssumption DEF Frames
<1>3. DOMAIN last = D /\ \A s \in D : last[s] \in Int /\ last[s] = prev[s]
  BY <1>1, DetectorAssumption
<1> DEFINE E == IF f.pose THEN Sides ELSE f.hands
<1>4. WristsOf(f) = [s \in E |-> f.at[s]]
  BY DEF WristsOf
<1>5. Threshold \in Nat
  BY DetectorAssumption
<1>6. ASSUME NEW s \in D
      PROVE  /\ s \in Sides
             /\ s \in E <=> (f.pose \/ s \in f.hands)
             /\ Distance(prev[s], f.at[s]) > Threshold
                  <=> (f.at[s] - last[s] > Threshold \/ last[s] - f.at[s] > Threshold)
  <2>1. s \in Sides /\ (s \in E <=> (f.pose \/ s \in f.hands))
    BY <1>2
  <2>2. PICK a \in Int, b \in Int : a = f.at[s] /\ b = last[s] /\ prev[s] = b
    BY <1>2, <1>3, <2>1
  <2>3. Distance(b, a) > Threshold <=> (a - b > Threshold \/ b - a > Threshold)
    BY <1>5 DEF Distance
  <2> QED
    BY <2>1, <2>2, <2>3
<1>7. FrameActive(f) <=>
        f.hands # {} /\ \E s \in D \cap E : Distance(prev[s], f.at[s]) > Threshold
  <2>1. DOMAIN prev = D /\ DOMAIN WristsOf(f) = E /\ \A s \in E : WristsOf(f)[s] = f.at[s]
    BY <1>1, <1>4
  <2> QED
    BY <2>1 DEF FrameActive, Moved
<1>8. ReallyActive(f) <=>
        /\ f.hands # {}
        /\ \E s \in Sides \cap D :
             /\ f.pose \/ s \in f.hands
             /\ f.at[s] - last[s] > Threshold \/ last[s] - f.at[s] > Threshold
  BY <1>3 DEF ReallyActive
<1> HIDE DEF E
<1> QED
  BY <1>6, <1>7, <1>8

\* Both the detector and the record keep the wrists of the frame.
LEMMA WristsRemembered ==
  ASSUME NEW f, Give(f)
  PROVE  /\ Update(f) /\ prev' = WristsOf(f) /\ last' = WristsOf(f)
         /\ IF ReallyActive(f)
            THEN seen' = Smaller(seen + 1, ActivateFrames) /\ unseen' = 0
            ELSE seen' = 0 /\ unseen' = Smaller(unseen + 1, DeactivateFrames)
BY DEF Give, Update, Remembered

\* What a frame does to the counter that is read next and to the state, which
\* switches with a long enough run and only then.
LEMMA FrameCounted ==
  ASSUME RunInv, NEW f \in Frames, Give(f)
  PROVE  RunInv' /\ (~active /\ active' => seen' = ActivateFrames)
                 /\ (active /\ ~active' => unseen' = DeactivateFrames)
<1>1. /\ Update(f) /\ prev' = last'
      /\ IF FrameActive(f)
         THEN seen' = Smaller(seen + 1, ActivateFrames) /\ unseen' = 0
         ELSE seen' = 0 /\ unseen' = Smaller(unseen + 1, DeactivateFrames)
  BY WristsRemembered, MovementSeen DEF RunInv, StreamTypeOK
<1>2. DetectorTypeOK'
  BY <1>1, UpdateType DEF RunInv, StreamTypeOK
<1>3. /\ ActivateFrames \in Nat \ {0} /\ DeactivateFrames \in Nat \ {0}
      /\ moving \in Nat /\ resting \in Nat /\ active \in BOOLEAN
      /\ seen \in 0 .. ActivateFrames /\ unseen \in 0 .. DeactivateFrames
      /\ IF active THEN resting = unseen ELSE moving = seen
      /\ seen = ActivateFrames => active
      /\ unseen = DeactivateFrames => ~active
  BY DetectorAssumption DEF RunInv, StreamTypeOK, DetectorTypeOK, CountsRuns, NeverLate
<1>4. /\ active' = ((active \/ Starts(f)) /\ ~Ends(f))
      /\ moving' = Smaller(MovingAfter(f), ActivateFrames)
      /\ resting' = Smaller(RestingAfter(f), DeactivateFrames)
  BY <1>1 DEF Update
<1> DEFINE Kept == /\ seen' \in 0 .. ActivateFrames /\ unseen' \in 0 .. DeactivateFrames
                   /\ IF active' THEN resting' = unseen' ELSE moving' = seen'
                   /\ seen' = ActivateFrames => active'
                   /\ unseen' = DeactivateFrames => ~active'
                   /\ ~active /\ active' => seen' = ActivateFrames
                   /\ active /\ ~active' => unseen' = DeactivateFrames
<1>5. ASSUME FrameActive(f) /\ active PROVE Kept
  <2>1. ~Starts(f) /\ ~Ends(f)
    BY <1>5 DEF Starts, Ends
  <2>2. active' /\ resting' = 0
    <3>1. active'
      BY <1>4, <1>5, <2>1
    <3>2. RestingAfter(f) = 0
      BY <1>5 DEF RestingAfter
    <3>3. resting' = 0
      BY <1>3, <1>4, <3>2 DEF Smaller
    <3> QED
      BY <3>1, <3>3
  <2>3. seen' \in 0 .. ActivateFrames /\ unseen' = 0
    BY <1>1, <1>3, <1>5 DEF Smaller
  <2> QED
    BY <1>3, <1>5, <2>2, <2>3
<1>6. ASSUME FrameActive(f) /\ ~active PROVE Kept
  <2>1. ~Ends(f) /\ (Starts(f) <=> seen + 1 >= ActivateFrames)
    BY <1>3, <1>6 DEF Starts, Ends
  <2>2. seen' \in 0 .. ActivateFrames /\ unseen' = 0 /\ seen' = Smaller(seen + 1, ActivateFrames)
    BY <1>1, <1>3, <1>6 DEF Smaller
  <2>3. CASE Starts(f)
    <3>1. active'
      BY <1>4, <2>1, <2>3
    <3>2. RestingAfter(f) = 0
      BY <1>6 DEF RestingAfter
    <3>3. resting' = 0
      BY <1>3, <1>4, <3>2 DEF Smaller
    <3>4. seen' = ActivateFrames
      BY <1>3, <2>1, <2>2, <2>3 DEF Smaller
    <3> QED
      BY <1>3, <1>6, <2>2, <3>1, <3>3, <3>4
  <2>4. CASE ~Starts(f)
    <3>1. ~active' /\ moving' = seen' /\ seen' # ActivateFrames
      BY <1>3, <1>4, <1>6, <2>1, <2>2, <2>4 DEF MovingAfter, Smaller
    <3> QED
      BY <1>3, <1>6, <2>2, <3>1
  <2> QED
    BY <2>3, <2>4
<1>7. ASSUME ~FrameActive(f) /\ ~active PROVE Kept
  <2>1. ~Starts(f) /\ ~Ends(f)
    BY <1>7 DEF Starts, Ends
  <2>2. ~active' /\ moving' = 0
    BY <1>3, <1>4, <1>7, <2>1 DEF MovingAfter, Smaller
  <2>3. unseen' \in 0 .. DeactivateFrames /\ seen' = 0
    BY <1>1, <1>3, <1>7 DEF Smaller
  <2> QED
    BY <1>3, <1>7, <2>2, <2>3
<1>8. ASSUME ~FrameActive(f) /\ active PROVE Kept
  <2>1. ~Starts(f) /\ (Ends(f) <=> unseen + 1 >= DeactivateFrames)
    BY <1>3, <1>8 DEF Starts, Ends
  <2>2. /\ unseen' \in 0 .. DeactivateFrames /\ seen' = 0
        /\ unseen' = Smaller(unseen + 1, DeactivateFrames)
    BY <1>1, <1>3, <1>8 DEF Smaller
  <2>3. CASE Ends(f)
    <3>1. ~active'
      BY <1>4, <2>3
    <3>2. MovingAfter(f) = 0
      BY <1>8 DEF MovingAfter
    <3>3. moving' = 0
      BY <1>3, <1>4, <3>2 DEF Smaller
    <3>4. unseen' = DeactivateFrames
      BY <1>3, <2>1, <2>2, <2>3 DEF Smaller
    <3> QED
      BY <1>3, <1>8, <2>2, <3>1, <3>3, <3>4
  <2>4. CASE ~Ends(f)
    <3>1. active'
      BY <1>4, <1>8, <2>1, <2>4
    <3>2. RestingAfter(f) = resting + 1 /\ resting = unseen
      BY <1>3, <1>8, <2>4 DEF RestingAfter
    <3>3. resting' = unseen'
      BY <1>4, <2>2, <3>2
    <3>4. unseen' # DeactivateFrames
      BY <1>3, <2>1, <2>2, <2>4 DEF Smaller
    <3> QED
      BY <1>3, <1>8, <2>2, <3>1, <3>3, <3>4
  <2> QED
    BY <2>3, <2>4
<1>9. Kept
  BY <1>3, <1>5, <1>6, <1>7, <1>8
<1> QED
  BY <1>1, <1>2, <1>9 DEF RunInv, StreamTypeOK, CountsRuns, NeverLate

\* reset forgets the run with the rest.
LEMMA ForgetCounted == ASSUME RunInv, Forget PROVE RunInv'
<1>1. /\ prev' = NoWrists /\ last' = NoWrists /\ moving' = 0 /\ resting' = 0
      /\ active' = FALSE /\ seen' = 0 /\ unseen' = 0
  BY DEF Forget, ResetDetector
<1>2. DetectorTypeOK'
  <2>1. NoWrists \in [{} -> Positions] /\ {} \in SUBSET Sides
    BY DEF NoWrists
  <2>2. 0 \in 0 .. ActivateFrames /\ 0 \in 0 .. DeactivateFrames
    BY DetectorAssumption
  <2> QED
    BY <1>1, <2>1, <2>2 DEF DetectorTypeOK
<1>3. ActivateFrames \in Nat \ {0} /\ DeactivateFrames \in Nat \ {0}
  BY DetectorAssumption
<1>4. CountsRuns' /\ NeverLate'
  BY <1>1, <1>3 DEF CountsRuns, NeverLate
<1> QED
  BY <1>1, <1>2, <1>3, <1>4 DEF RunInv, StreamTypeOK

\* At the start there was no run.
LEMMA RunInit == StreamInit => RunInv
<1> SUFFICES ASSUME StreamInit PROVE RunInv
  OBVIOUS
<1>1. /\ prev = NoWrists /\ last = NoWrists /\ moving = 0 /\ resting = 0
      /\ active = FALSE /\ seen = 0 /\ unseen = 0
  BY DEF StreamInit, DetectorInit
<1>2. DetectorTypeOK
  <2>1. NoWrists \in [{} -> Positions] /\ {} \in SUBSET Sides
    BY DEF NoWrists
  <2>2. 0 \in 0 .. ActivateFrames /\ 0 \in 0 .. DeactivateFrames
    BY DetectorAssumption
  <2> QED
    BY <1>1, <2>1, <2>2 DEF DetectorTypeOK
<1>3. ActivateFrames \in Nat \ {0} /\ DeactivateFrames \in Nat \ {0}
  BY DetectorAssumption
<1>4. CountsRuns /\ NeverLate
  BY <1>1, <1>3 DEF CountsRuns, NeverLate
<1> QED
  BY <1>1, <1>2, <1>3, <1>4 DEF RunInv, StreamTypeOK

\* Every step keeps the run's invariant and switches as it should.
LEMMA RunStep ==
  ASSUME RunInv, [StreamNext]_streamVars
  PROVE  /\ RunInv'
         /\ [/\ ~active /\ active' => seen' = ActivateFrames
             /\ active /\ ~active' => unseen' = DeactivateFrames \/ Forget]_streamVars
<1>1. CASE UNCHANGED streamVars
  <2>1. UNCHANGED <<prev, moving, resting, active, seen, unseen, last>>
    BY <1>1 DEF streamVars, detectorVars
  <2>2. RunInv'
    BY <2>1 DEF RunInv, StreamTypeOK, DetectorTypeOK, CountsRuns, NeverLate
  <2> QED
    BY <1>1, <2>2
<1>2. ASSUME NEW f \in Frames, Give(f)
      PROVE  RunInv' /\ (~active /\ active' => seen' = ActivateFrames)
                     /\ (active /\ ~active' => unseen' = DeactivateFrames)
  BY <1>2, FrameCounted
<1>3. CASE Forget
  <2>1. RunInv' /\ ~active'
    BY <1>3, ForgetCounted DEF Forget, ResetDetector
  <2> QED
    BY <1>3, <2>1
<1> QED
  BY <1>1, <1>2, <1>3 DEF StreamNext

\* For every pair of limits and every threshold, whoever has moved for activate_frames
\* frames counts as signing, and whoever has rested for deactivate_frames does not,
\* whatever hands and poses came and went (activity_detector.py, update).
THEOREM SwitchesInTime == StreamSpec => []NeverLate
<1>1. RunInv /\ [StreamNext]_streamVars => RunInv'
  BY RunStep
<1>2. RunInv => NeverLate
  BY DEF RunInv, StreamTypeOK
<1> QED
  BY RunInit, <1>1, <1>2, PTL DEF StreamSpec

\* And the detector never switches earlier: one odd frame, or a hand that comes back
\* elsewhere, does not start an utterance or end it (activity_detector.py, update).
THEOREM SwitchesNoSooner == StreamSpec => Hysteresis
<1>1. RunInv /\ [StreamNext]_streamVars => RunInv'
  BY RunStep
<1>2. RunInv /\ [StreamNext]_streamVars =>
        [/\ ~active /\ active' => seen' = ActivateFrames
         /\ active /\ ~active' => unseen' = DeactivateFrames \/ Forget]_streamVars
  BY RunStep
<1> QED
  BY RunInit, <1>1, <1>2, PTL DEF StreamSpec, Hysteresis
=============================================================================
