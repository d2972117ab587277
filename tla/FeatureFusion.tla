---------------------------- MODULE FeatureFusion ----------------------------
(***************************************************************************)
(* Fusion of results that others have computed: process_features and       *)
(* handle_timeout of FusionOrchestrator, with the fuse method of           *)
(* SpeechFusionPolicy and SignFusionPolicy, the DegradedModeHandler and    *)
(* the health reports that SessionHandler keeps.  The server itself fuses  *)
(* by the policies' emit methods (SpeechSession, SignSession); this is the *)
(* interface beside them, which the repository's tests drive.              *)
(*                                                                         *)
(* Calls do not wait, so each is one action.  Confidences are counted in   *)
(* ten-thousandths; texts, and which of two a FINAL takes, are left out.   *)
(* The client does what segments say.                                      *)
(***************************************************************************)
EXTENDS Integers, FiniteSets

CONSTANTS
  Levels,      \* the confidences of results
  MinConf,     \* _DEFAULT_CONFIDENCE_THRESHOLD of the speech policy (3000)
  MinLip,      \* _DEFAULT_LIP_PARTIAL_THRESHOLD (7000)
  MinTsl,      \* _DEFAULT_CONFIDENCE_THRESHOLD of the sign policy (5500)
  MinGloss,    \* _DEFAULT_LLM_CONFIDENCE_THRESHOLD (4000)
  AsrWeight,   \* _DEFAULT_ASR_WEIGHT in hundredths (65)
  LipWeight,   \* _DEFAULT_LIP_WEIGHT in hundredths (35)
  Penalty,     \* _DEFAULT_CONFIDENCE_PENALTY (1500)
  MinSnr,      \* _DEFAULT_MIN_AUDIO_SNR in dB (5)
  Snrs,        \* the noise ratios of audio reports
  None,        \* Python's None
  MaxSegs      \* bound: segments made in a session

ASSUME FusionAssumption ==
  /\ Levels \subseteq 0 .. 10000 /\ \A c \in Levels : c % 100 = 0
  /\ {MinConf, MinLip, MinTsl, MinGloss, Penalty} \subseteq 1 .. 10000
  /\ MinConf <= MinLip
  /\ AsrWeight \in Nat /\ LipWeight \in Nat /\ AsrWeight + LipWeight = 100
  /\ MinSnr \in Int /\ Snrs \subseteq Int
  /\ MaxSegs \in Nat

ASSUME NoneAssumption == None \notin {"unavailable", "obstructed", "low audio"}

VARIABLES
  path,      \* the session's modality_path
  policies,  \* the paths that have a policy
  health,    \* SessionHandler.latest_health: the last report of each pipeline
  partials,  \* SpeechFusionPolicy._partial_ids, NoSeg when absent
  segs,      \* segment identifiers made so far
  screen,    \* the PARTIALs on the client's screen
  wire       \* the last segment, with the results it was made of

output == <<segs, screen, wire>>
vars == <<path, policies, health, partials, output>>

NoSeg == 0
Sid == "session"
Paths == {"SPEECH", "SIGN"}
TypesOf(p) == IF p = "SPEECH" THEN {"ASR", "LIP"} ELSE {"TSL", "GLOSS"}

\* What the engines of a path give: at most one result each.
Results(p) == [type : TypesOf(p), conf : Levels]
ResultSets(p) ==
  {{}} \cup
  {rs \in {{q, r} : q, r \in Results(p)} : \A q, r \in rs : q.type = r.type => q = r}

\* What PipelineHealth accepts: a field of the other pipeline is None.
Reports ==
  [pipeline : {"audio"}, available : BOOLEAN, snr : Snrs \cup {None}, face : {None}]
    \cup [pipeline : {"video"}, available : BOOLEAN, snr : {None}, face : BOOLEAN \cup {None}]

Init ==
  /\ path \in Paths /\ policies = {}
  /\ health = {}
  /\ partials = [s \in {"", Sid} |-> NoSeg]
  /\ segs = 0 /\ screen = {}
  /\ wire = [id |-> NoSeg, status |-> "FINAL", conf |-> 0, replaces |-> NoSeg,
             by |-> "policy", from |-> {}]

-----------------------------------------------------------------------------
(* DegradedModeHandler                                                     *)

ShouldFallback(h) ==
  \/ ~h.available
  \/ h.pipeline = "video" /\ h.face = FALSE
  \/ h.pipeline = "audio" /\ h.snr # None /\ h.snr < MinSnr

IsDegraded(hs) == \E h \in hs : ShouldFallback(h)

\* No report counts as no healthy pipeline.
Evaluate(hs) ==
  IF \A h \in hs : ShouldFallback(h) THEN "FAILED"
  ELSE IF IsDegraded(hs) THEN "DEGRADED" ELSE "NORMAL"

BugFaceForgotten(h) ==
  IF ~h.available THEN "unavailable"
  ELSE IF h.pipeline = "audio" /\ h.snr # None /\ h.snr < MinSnr THEN "low audio"
  ELSE None

\* The advice about one pipeline; which of them is unavailable is left out.
AdvisoryFor(h) ==
  IF ~h.available THEN "unavailable"
  ELSE IF h.pipeline = "video" /\ h.face = FALSE THEN "obstructed"
  ELSE IF h.pipeline = "audio" /\ h.snr # None /\ h.snr < MinSnr THEN "low audio"
  ELSE None

\* get_advisory_message, {} for None.
Advisory(hs) ==
  IF hs = {} THEN {"session ending"} ELSE {AdvisoryFor(h) : h \in hs} \ {None}

-----------------------------------------------------------------------------
(* Segments                                                                *)

Nothing == UNCHANGED <<partials, output>>

\* A segment is made for session s; TranscriptSegment raises when s is empty.
Make(s, status, conf, replaces, by, rs) ==
  LET id == segs + 1 IN
  /\ segs' = id
  /\ IF s = "" THEN UNCHANGED <<screen, wire>>
     ELSE /\ wire' = [id |-> id, status |-> status, conf |-> conf,
                      replaces |-> replaces, by |-> by, from |-> rs]
          /\ screen' = {p \in screen : p.id # replaces} \cup
               IF status = "PARTIAL" THEN {[id |-> id, by |-> by]} ELSE {}

\* handle_degraded_input: a lone result with a penalty.
DegradedInput(r) ==
  /\ UNCHANGED partials
  /\ \/ /\ r.conf - Penalty <= 0
        /\ UNCHANGED output
     \/ /\ r.conf - Penalty > 0
        /\ Make(Sid, "PARTIAL", r.conf - Penalty, NoSeg, "degraded", {r})

\* Both policies take the session's identifier from the first report.
SessionId == IF health = {} THEN "" ELSE Sid

\* should_suppress and should_suppress_llm.
Gate(type) ==
  CASE type = "ASR" -> MinConf [] type = "LIP" -> MinLip
    [] type = "TSL" -> MinTsl [] type = "GLOSS" -> MinGloss

Valid(rs) == {r \in rs : r.conf >= Gate(r.type)}

BugMergedSum(asr, lip) == asr.conf + lip.conf

Merged(asr, lip) == (AsrWeight * asr.conf + LipWeight * lip.conf) \div 100

BugFinalKept(status, id) == IF status = "FINAL" THEN partials[SessionId] ELSE id

\* What is kept as the session's partial: a PARTIAL, until a FINAL pops it.
PartialAfter(status, id) == IF status = "FINAL" THEN NoSeg ELSE id

Emit(status, conf, rs) ==
  /\ partials' = [partials EXCEPT ![SessionId] = PartialAfter(status, segs + 1)]
  /\ Make(SessionId, status, conf, partials[SessionId], "policy", rs)

\* SpeechFusionPolicy.fuse: both results give a FINAL, one a PARTIAL.
FuseSpeech(rs) ==
  \/ Valid(rs) = {} /\ Nothing
  \/ \E asr, lip \in Valid(rs) :
       /\ asr.type = "ASR" /\ lip.type = "LIP"
       /\ Emit("FINAL", Merged(asr, lip), Valid(rs))
  \/ \E r \in rs : Valid(rs) = {r} /\ Emit("PARTIAL", r.conf, {r})

\* SignFusionPolicy.fuse: it replaces nothing and keeps nothing.
FuseSign(rs) ==
  /\ UNCHANGED partials
  /\ \/ Valid(rs) = {} /\ UNCHANGED output
     \/ \E r \in Valid(rs) :
          /\ r.type = "GLOSS"
          /\ Make(SessionId, "FINAL", r.conf, NoSeg, "policy", {r})
     \/ \E r \in Valid(rs) :
          /\ r.type = "TSL" /\ \A q \in Valid(rs) : q = r
          /\ Make(SessionId, "PARTIAL", r.conf, NoSeg, "policy", {r})

Fuse(rs) == IF path = "SPEECH" THEN FuseSpeech(rs) ELSE FuseSign(rs)

-----------------------------------------------------------------------------
(* The interface                                                           *)

RegisterPolicy(p) ==
  /\ p \notin policies
  /\ policies' = policies \cup {p}
  /\ UNCHANGED <<path, health, partials, output>>

\* A pipeline_health message arrives (_handle_health).
HandleHealth(r) ==
  /\ health' = {h \in health : h.pipeline # r.pipeline} \cup {r}
  /\ UNCHANGED <<path, policies, partials, output>>

\* process_features: ValueError without a policy, the degraded handler for a
\* lone result when a pipeline is unhealthy, else the policy.
ProcessFeatures(rs) ==
  /\ segs < MaxSegs
  /\ \/ path \notin policies /\ Nothing
     \/ /\ path \in policies /\ Cardinality(rs) = 1 /\ IsDegraded(health)
        /\ \E r \in rs : DegradedInput(r)
     \/ /\ path \in policies /\ ~(Cardinality(rs) = 1 /\ IsDegraded(health))
        /\ Fuse(rs)
  /\ UNCHANGED <<path, policies, health>>

\* handle_timeout: the policy, whatever the pipelines report.
HandleTimeout(r) ==
  /\ segs < MaxSegs
  /\ IF path \in policies THEN Fuse({r}) ELSE Nothing
  /\ UNCHANGED <<path, policies, health>>

Next ==
  \/ \E p \in Paths : RegisterPolicy(p)
  \/ \E r \in Reports : HandleHealth(r)
  \/ \E rs \in ResultSets(path) : ProcessFeatures(rs)
  \/ \E r \in Results(path) : HandleTimeout(r)

Spec == Init /\ [][Next]_vars

-----------------------------------------------------------------------------
\* The speech policy's PARTIALs do not pile up: the client shows the one that the
\* policy will replace and no other of its own, whatever degraded segments and
\* calls that raised for want of a session identifier came between
\* (speech_fusion_policy.py, fuse).
OnePolicyPartial ==
  path = "SPEECH" =>
    {p.id : p \in {q \in screen : q.by = "policy"}} = {partials[Sid]} \ {NoSeg}

\* The conditions of an unhealthy pipeline are written twice, for the decision and
\* for the advice: the user is told of every state in which output is degraded and
\* of no other (degraded_mode_handler.py, evaluate and get_advisory_message).
StatusAgrees ==
  /\ Evaluate(health) = "NORMAL" <=> Advisory(health) = {}
  /\ health # {} => (IsDegraded(health) <=> Evaluate(health) # "NORMAL")

\* No segment is surer than what it was made of: a merged FINAL lies between its
\* two results and above the policy's threshold, though LIP and ASR have different
\* ones, and a degraded segment is tentative and below its only result.
ConfidenceIsEarned ==
  LET confs == {r.conf : r \in wire.from} IN
  wire.id # NoSeg =>
    /\ \E c \in confs : wire.conf <= c
    /\ wire.by = "policy" =>
         /\ \E c \in confs : wire.conf >= c
         /\ wire.conf >= IF path = "SPEECH" THEN MinConf
                         ELSE IF wire.status = "FINAL" THEN MinGloss ELSE MinTsl
    /\ wire.by = "degraded" =>
         wire.status = "PARTIAL" /\ wire.conf > 0 /\ wire.conf \notin confs

-----------------------------------------------------------------------------
\* speech_fusion_policy.py:116 says a PARTIAL replaces the one before it, so that
\* the client shows the latest and does not stack them.
NeverStacks == path = "SPEECH" => Cardinality(screen) <= 1

\* speech_fusion_policy.py:8 says results below the threshold are suppressed.
GateHolds ==
  path = "SPEECH" /\ wire.id # NoSeg => \E r \in wire.from : r.conf >= MinConf
=============================================================================
