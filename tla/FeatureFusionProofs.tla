------------------------- MODULE FeatureFusionProofs -------------------------
(***************************************************************************)
(* For every threshold, weight and set of confidences: the speech policy   *)
(* has one PARTIAL on the screen, the user is told of every pipeline that  *)
(* degrades the output, and no segment is surer than what it is made of.   *)
(***************************************************************************)
EXTENDS FeatureFusion, TLAPS

\* With the counter's type, OnePolicyPartial is inductive: a new segment's number is
\* no segment's, and not that of none.
PartialInv ==
  /\ path \in Paths
  /\ segs \in Nat
  /\ partials \in [{"", Sid} -> Nat]
  /\ OnePolicyPartial

\* The identifiers of the policy's own PARTIALs among those on a screen.
OwnIds(shown) == {p.id : p \in {q \in shown : q.by = "policy"}}

\* The screen without the segment that is replaced.
Rest(shown, replaced) == {p \in shown : p.id # replaced}

-----------------------------------------------------------------------------
\* A segment of the policy that replaces its only PARTIAL leaves none, or itself.
LEMMA PolicyShows ==
  ASSUME NEW shown, NEW last, NEW seg, seg.by = "policy",
         OwnIds(shown) = {last} \ {NoSeg}
  PROVE  /\ OwnIds(Rest(shown, last) \cup {}) = {}
         /\ OwnIds(Rest(shown, last) \cup {seg}) = {seg.id}
<1> DEFINE rest == Rest(shown, last)
<1>1. \A p \in rest : p.by # "policy"
  BY DEF OwnIds, Rest
<1>2. {q \in rest \cup {} : q.by = "policy"} = {}
  BY <1>1
<1>3. {q \in rest \cup {seg} : q.by = "policy"} = {seg}
  BY <1>1
<1> QED
  BY <1>2, <1>3 DEF OwnIds

\* A degraded segment touches none of the policy's.
LEMMA DegradedShows ==
  ASSUME NEW shown, NEW id, NoSeg \notin OwnIds(shown)
  PROVE  OwnIds(Rest(shown, NoSeg) \cup {[id |-> id, by |-> "degraded"]})
           = OwnIds(shown)
<1> DEFINE rest == Rest(shown, NoSeg)
           seg == [id |-> id, by |-> "degraded"]
<1>1. seg.by # "policy"
  OBVIOUS
<1>2. \A q \in shown : q.by = "policy" => q.id # NoSeg
  BY DEF OwnIds
<1>3. {q \in rest \cup {seg} : q.by = "policy"} = {q \in shown : q.by = "policy"}
  BY <1>1, <1>2 DEF Rest
<1> QED
  BY <1>3 DEF OwnIds
-----------------------------------------------------------------------------
\* A segment of the speech policy, made or raised over, keeps policy and screen in step.
LEMMA EmitKeeps ==
  ASSUME PartialInv, path = "SPEECH", NEW status \in {"PARTIAL", "FINAL"}, NEW conf, NEW rs,
         Emit(status, conf, rs)
  PROVE  /\ segs' \in Nat
         /\ partials' \in [{"", Sid} -> Nat]
         /\ OwnIds(screen') = {partials'[Sid]} \ {NoSeg}
<1> DEFINE id == segs + 1
<1>1. /\ id \in Nat /\ id # NoSeg /\ segs' = id
      /\ SessionId \in {"", Sid} /\ Sid # ""
  <2>1. id \in Nat /\ id # NoSeg
    <3>1. segs \in Nat
      BY DEF PartialInv
    <3> QED
      BY <3>1 DEF NoSeg
  <2>2. segs' = id
    BY DEF Emit, Make
  <2>3. SessionId \in {"", Sid} /\ Sid # ""
    BY DEF SessionId, Sid
  <2> QED
    BY <2>1, <2>2, <2>3
<1>2. OwnIds(screen) = {partials[Sid]} \ {NoSeg}
  BY DEF PartialInv, OnePolicyPartial, OwnIds
<1>3. /\ PartialAfter(status, id) = IF status = "FINAL" THEN NoSeg ELSE id
      /\ PartialAfter(status, id) \in Nat
  BY <1>1 DEF PartialAfter, NoSeg
<1>4. /\ partials' = [partials EXCEPT ![SessionId] = PartialAfter(status, id)]
      /\ partials \in [{"", Sid} -> Nat]
  BY DEF Emit, PartialInv
<1>5. partials' \in [{"", Sid} -> Nat]
  BY <1>1, <1>3, <1>4
<1>6. CASE SessionId = ""
  <2>1. screen' = screen
    BY <1>6 DEF Emit, Make
  <2>2. partials'[Sid] = partials[Sid]
    BY <1>1, <1>4, <1>6
  <2> QED
    BY <1>1, <1>2, <1>5, <2>1, <2>2
<1>7. CASE SessionId = Sid
  <2>1. screen' = Rest(screen, partials[Sid]) \cup
          IF status = "PARTIAL" THEN {[id |-> id, by |-> "policy"]} ELSE {}
    BY <1>1, <1>7 DEF Emit, Make, Rest
  <2>2. partials'[Sid] = IF status = "FINAL" THEN NoSeg ELSE id
    BY <1>1, <1>3, <1>4, <1>7
  <2>3. OwnIds(screen') = IF status = "PARTIAL" THEN {id} ELSE {}
    <3>1. CASE status = "PARTIAL"
      <4> DEFINE seg == [id |-> id, by |-> "policy"]
      <4>1. seg.by = "policy" /\ seg.id = id
        OBVIOUS
      <4>2. screen' = Rest(screen, partials[Sid]) \cup {seg}
        BY <2>1, <3>1
      <4> HIDE DEF seg
      <4>3. OwnIds(screen') = {seg.id}
        BY <1>2, <4>1, <4>2, PolicyShows
      <4> QED
        BY <3>1, <4>1, <4>3
    <3>2. CASE status = "FINAL"
      <4>1. screen' = Rest(screen, partials[Sid]) \cup {}
        BY <2>1, <3>2
      <4>2. OwnIds(Rest(screen, partials[Sid]) \cup {}) = {}
        <5>1. [by |-> "policy"].by = "policy"
          OBVIOUS
        <5> QED
          BY <1>2, <5>1, PolicyShows
      <4>3. OwnIds(screen') = {}
        BY <4>1, <4>2, Zenon
      <4> QED
        BY <3>2, <4>3
    <3> QED
      BY <3>1, <3>2
  <2> QED
    BY <1>1, <1>5, <2>2, <2>3
<1> QED
  BY <1>1, <1>6, <1>7

\* So does whatever fuse makes of the results.
LEMMA FuseKeeps ==
  ASSUME PartialInv, path = "SPEECH", NEW rs, FuseSpeech(rs)
  PROVE  /\ segs' \in Nat
         /\ partials' \in [{"", Sid} -> Nat]
         /\ OwnIds(screen') = {partials'[Sid]} \ {NoSeg}
<1>1. CASE Nothing
  BY <1>1 DEF Nothing, output, PartialInv, OnePolicyPartial, OwnIds
<1>2. CASE \E status \in {"PARTIAL", "FINAL"} : \E conf, valid : Emit(status, conf, valid)
  BY <1>2, EmitKeeps
<1>3. Nothing \/ \E status \in {"PARTIAL", "FINAL"} : \E conf, valid : Emit(status, conf, valid)
  BY DEF FuseSpeech
<1> QED
  BY <1>1, <1>2, <1>3

\* The degraded handler leaves the policy's partial alone.
LEMMA DegradedKeeps ==
  ASSUME PartialInv, path = "SPEECH", NEW r, DegradedInput(r)
  PROVE  /\ segs' \in Nat
         /\ partials' \in [{"", Sid} -> Nat]
         /\ OwnIds(screen') = {partials'[Sid]} \ {NoSeg}
<1>1. /\ OwnIds(screen) = {partials[Sid]} \ {NoSeg}
      /\ partials' = partials /\ partials \in [{"", Sid} -> Nat] /\ segs \in Nat
  BY DEF DegradedInput, PartialInv, OnePolicyPartial, OwnIds
<1>2. CASE UNCHANGED output
  BY <1>1, <1>2 DEF output
<1>3. CASE Make(Sid, "PARTIAL", r.conf - Penalty, NoSeg, "degraded", {r})
  <2>1. segs' = segs + 1
    BY <1>3 DEF Make
  <2>2. screen' = Rest(screen, NoSeg) \cup {[id |-> segs + 1, by |-> "degraded"]}
    BY <1>3 DEF Make, Sid, Rest
  <2>3. NoSeg \notin OwnIds(screen)
    BY <1>1
  <2>4. OwnIds(Rest(screen, NoSeg) \cup {[id |-> segs + 1, by |-> "degraded"]})
          = OwnIds(screen)
    BY <2>3, DegradedShows
  <2>5. OwnIds(screen') = OwnIds(screen)
    BY <2>2, <2>4, Zenon
  <2>6. segs' \in Nat
    <3>1. segs \in Nat
      BY <1>1
    <3> QED
      BY <2>1, <3>1
  <2> QED
    BY <1>1, <2>5, <2>6, Zenon
<1> QED
  BY <1>2, <1>3 DEF DegradedInput

\* The sign policy counts its segments and keeps no partial.
LEMMA SignKeeps ==
  ASSUME segs \in Nat, NEW rs, FuseSign(rs) \/ \E r \in rs : DegradedInput(r)
  PROVE  segs' \in Nat /\ partials' = partials
<1>1. ASSUME NEW s, NEW status, NEW conf, NEW replaces, NEW by, NEW valid,
             Make(s, status, conf, replaces, by, valid)
      PROVE  segs' \in Nat
  <2>1. segs' = segs + 1
    BY <1>1 DEF Make
  <2> QED
    BY <2>1
<1>2. ASSUME UNCHANGED output PROVE segs' \in Nat
  BY <1>2 DEF output
<1>3. CASE FuseSign(rs)
  BY <1>1, <1>2, <1>3 DEF FuseSign
<1>4. CASE \E r \in rs : DegradedInput(r)
  BY <1>1, <1>2, <1>4 DEF DegradedInput
<1> QED
  BY <1>3, <1>4

-----------------------------------------------------------------------------
\* Every step keeps the invariant.
LEMMA PartialStep == PartialInv /\ [Next]_vars => PartialInv'
<1> SUFFICES ASSUME PartialInv, [Next]_vars PROVE PartialInv'
  OBVIOUS
<1> DEFINE Kept == /\ segs' \in Nat
                   /\ partials' \in [{"", Sid} -> Nat]
                   /\ OwnIds(screen') = {partials'[Sid]} \ {NoSeg}
<1>1. ASSUME path' = path, path = "SPEECH", Kept PROVE PartialInv'
  BY <1>1 DEF PartialInv, OnePolicyPartial, OwnIds
<1>2. ASSUME path' = path, path # "SPEECH", segs' \in Nat, partials' = partials PROVE PartialInv'
  BY <1>2 DEF PartialInv, OnePolicyPartial
<1>3. ASSUME UNCHANGED <<path, partials, output>> PROVE PartialInv'
  BY <1>3 DEF PartialInv, OnePolicyPartial, output
<1>4. ASSUME NEW rs, path' = path, Fuse(rs) PROVE PartialInv'
  <2>1. CASE path = "SPEECH"
    <3>1. FuseSpeech(rs)
      BY <1>4, <2>1 DEF Fuse
    <3> QED
      BY <1>1, <1>4, <2>1, <3>1, FuseKeeps
  <2>2. CASE path # "SPEECH"
    <3>1. FuseSign(rs) /\ segs \in Nat
      BY <1>4, <2>2 DEF Fuse, PartialInv
    <3> QED
      BY <1>2, <1>4, <2>2, <3>1, SignKeeps
  <2> QED
    BY <2>1, <2>2
<1>5. ASSUME NEW rs, NEW r \in rs, path' = path, DegradedInput(r) PROVE PartialInv'
  <2>1. CASE path = "SPEECH"
    BY <1>1, <1>5, <2>1, DegradedKeeps
  <2>2. CASE path # "SPEECH"
    BY <1>2, <1>5, <2>2, SignKeeps DEF PartialInv
  <2> QED
    BY <2>1, <2>2
<1>6. ASSUME Nothing, path' = path PROVE PartialInv'
  BY <1>3, <1>6 DEF Nothing
<1>7. ASSUME NEW p \in Paths, RegisterPolicy(p) PROVE PartialInv'
  BY <1>3, <1>7 DEF RegisterPolicy
<1>8. ASSUME NEW r \in Reports, HandleHealth(r) PROVE PartialInv'
  BY <1>3, <1>8 DEF HandleHealth
<1>9. ASSUME NEW rs \in ResultSets(path), ProcessFeatures(rs) PROVE PartialInv'
  <2>1. path' = path /\ (Nothing \/ Fuse(rs) \/ \E r \in rs : DegradedInput(r))
    BY <1>9 DEF ProcessFeatures
  <2> QED
    BY <1>4, <1>5, <1>6, <2>1
<1>10. ASSUME NEW r \in Results(path), HandleTimeout(r) PROVE PartialInv'
  <2>1. path' = path /\ (Nothing \/ Fuse({r}))
    BY <1>10 DEF HandleTimeout
  <2> QED
    BY <1>4, <1>6, <2>1
<1>11. CASE UNCHANGED vars
  BY <1>3, <1>11 DEF vars
<1> QED
  BY <1>7, <1>8, <1>9, <1>10, <1>11 DEF Next

\* Of the speech policy's PARTIALs the client always shows the one that the policy will
\* replace and no other, also after calls that raised half-way and segments that the
\* degraded handler made beside it.
THEOREM OwnPartialIsShown == Spec => []OnePolicyPartial
<1>1. Init => PartialInv
  <2> SUFFICES ASSUME Init PROVE PartialInv
    OBVIOUS
  <2>1. path \in Paths /\ segs \in Nat
    BY DEF Init
  <2>2. partials = [s \in {"", Sid} |-> NoSeg] /\ screen = {}
    BY DEF Init
  <2>3. partials \in [{"", Sid} -> Nat] /\ partials[Sid] = NoSeg
    BY <2>2 DEF NoSeg
  <2>4. {p.id : p \in {q \in screen : q.by = "policy"}} = {}
    BY <2>2
  <2> QED
    BY <2>1, <2>3, <2>4 DEF PartialInv, OnePolicyPartial
<1>2. PartialInv => OnePolicyPartial
  BY DEF PartialInv
<1> QED
  BY <1>1, <1>2, PartialStep, PTL DEF Spec

-----------------------------------------------------------------------------
\* The two places that say what an unhealthy pipeline is agree.
LEMMA SameConditions == ASSUME NEW h PROVE ShouldFallback(h) <=> AdvisoryFor(h) # None
<1>1. None # "unavailable" /\ None # "obstructed" /\ None # "low audio"
  BY NoneAssumption
<1> QED
  BY <1>1, Zenon DEF ShouldFallback, AdvisoryFor

\* Whatever pipelines report, the user is told of every state in which output is
\* degraded, and of no other: the decision and the advice have the same conditions.
THEOREM AdviceIsGiven == Spec => []StatusAgrees
<1>1. ASSUME NEW hs PROVE /\ Evaluate(hs) = "NORMAL" <=> Advisory(hs) = {}
                          /\ hs # {} => (IsDegraded(hs) <=> Evaluate(hs) # "NORMAL")
  <2>1. Evaluate(hs) = "NORMAL" <=> hs # {} /\ \A h \in hs : ~ShouldFallback(h)
    BY DEF Evaluate, IsDegraded
  <2>2. CASE hs = {}
    BY <2>1, <2>2 DEF Advisory
  <2>3. CASE hs # {}
    <3>1. Advisory(hs) = {} <=> \A h \in hs : AdvisoryFor(h) = None
      BY <2>3 DEF Advisory
    <3> QED
      BY <2>1, <2>3, <3>1, SameConditions DEF IsDegraded
  <2> QED
    BY <2>2, <2>3
<1>2. StatusAgrees
  BY <1>1 DEF StatusAgrees
<1> QED
  BY <1>2, PTL

-----------------------------------------------------------------------------
(* Confidences                                                             *)

\* The least confidence that the policies let through.
Floor(status) ==
  IF path = "SPEECH" THEN MinConf ELSE IF status = "FINAL" THEN MinGloss ELSE MinTsl

\* A mean of two whole numbers, with weights that make a hundred, lies between them,
\* and so does its whole part.
LEMMA MeanBetween ==
  ASSUME NEW a \in Nat, NEW b \in Nat, a <= b,
         NEW v \in Nat, NEW w \in Nat, v + w = 100
  PROVE  /\ a <= (v * a + w * b) \div 100
         /\ (v * a + w * b) \div 100 <= b
<1>1. PICK d \in Nat : b = a + d
  <2>1. b - a \in Nat /\ b = a + (b - a)
    OBVIOUS
  <2> QED
    BY <2>1
<1>2. PICK s \in Nat : s = w * d
  <2>1. w * d \in Nat
    OBVIOUS
  <2> QED
    BY <2>1
<1>3. v * a + w * b = 100 * a + s
  <2>1. w * b = w * a + s
    BY <1>1, <1>2
  <2>2. v * a + w * a = (v + w) * a
    OBVIOUS
  <2>3. v * a + w * a = 100 * a
    BY <2>2
  <2>4. v * a \in Nat /\ w * a \in Nat /\ 100 * a \in Nat
    OBVIOUS
  <2> QED
    BY <2>1, <2>3, <2>4
<1>4. s <= 100 * d
  <2>1. PICK u \in Nat : u = v * d
    <3>1. v * d \in Nat
      OBVIOUS
    <3> QED
      BY <3>1
  <2>2. u + s = (v + w) * d
    BY <1>2, <2>1
  <2>3. u + s = 100 * d
    BY <2>2
  <2> QED
    BY <2>3
<1>5. a <= (100 * a + s) \div 100 /\ (100 * a + s) \div 100 <= a + d
  BY <1>4
<1> QED
  BY <1>1, <1>3, <1>5

\* What merges is between its two results.
LEMMA MergedBetween ==
  ASSUME NEW asr, NEW lip, asr.conf \in Nat, lip.conf \in Nat
  PROVE  /\ Merged(asr, lip) \in Int
         /\ \/ asr.conf <= Merged(asr, lip) /\ Merged(asr, lip) <= lip.conf
            \/ lip.conf <= Merged(asr, lip) /\ Merged(asr, lip) <= asr.conf
<1>1. AsrWeight \in Nat /\ LipWeight \in Nat /\ AsrWeight + LipWeight = 100
  BY FusionAssumption
<1>2. PICK a \in Nat, b \in Nat : a = asr.conf /\ b = lip.conf
  OBVIOUS
<1>3. Merged(asr, lip) = (AsrWeight * a + LipWeight * b) \div 100
  BY <1>2 DEF Merged
<1>4. (AsrWeight * a + LipWeight * b) \div 100 \in Int
  BY <1>1
<1>5. CASE a <= b
  <2>1. /\ a <= (AsrWeight * a + LipWeight * b) \div 100
        /\ (AsrWeight * a + LipWeight * b) \div 100 <= b
    BY <1>1, <1>5, MeanBetween
  <2> QED
    BY <1>2, <1>3, <1>4, <2>1
<1>6. CASE b <= a
  <2>1. /\ b <= (LipWeight * b + AsrWeight * a) \div 100
        /\ (LipWeight * b + AsrWeight * a) \div 100 <= a
    <3>1. LipWeight + AsrWeight = 100
      BY <1>1
    <3> QED
      BY <1>1, <1>6, <3>1, MeanBetween
  <2>2. AsrWeight * a + LipWeight * b = LipWeight * b + AsrWeight * a
    <3>1. AsrWeight * a \in Nat /\ LipWeight * b \in Nat
      BY <1>1
    <3> QED
      BY <3>1
  <2> QED
    BY <1>2, <1>3, <1>4, <2>1, <2>2
<1> QED
  BY <1>2, <1>5, <1>6

-----------------------------------------------------------------------------

\* A policy's segment earns its confidence by two of its results, which may be one.
LEMMA PolicyEarns ==
  ASSUME ConfidenceIsEarned, path' = path,
         NEW s, NEW status, NEW conf, NEW replaces, NEW rs,
         Make(s, status, conf, replaces, "policy", rs),
         NEW q \in rs, NEW r \in rs, conf <= q.conf, r.conf <= conf,
         conf >= Floor(status)
  PROVE  ConfidenceIsEarned'
<1>1. CASE s = ""
  <2>1. wire' = wire
    BY <1>1 DEF Make
  <2> QED
    BY <2>1 DEF ConfidenceIsEarned
<1>2. CASE s # ""
  <2>1. PICK w : w = wire'
    OBVIOUS
  <2>2. w.status = status /\ w.conf = conf /\ w.by = "policy" /\ w.from = rs
    <3>1. w = [id |-> segs + 1, status |-> status, conf |-> conf,
               replaces |-> replaces, by |-> "policy", from |-> rs]
      BY <1>2, <2>1 DEF Make
    <3> QED
      BY <3>1
  <2>3. PICK confs : confs = {x.conf : x \in w.from}
    OBVIOUS
  <2>4. q.conf \in confs /\ r.conf \in confs
    BY <2>2, <2>3
  <2>5. (\E c \in confs : w.conf <= c) /\ (\E c \in confs : w.conf >= c)
    BY <2>2, <2>4
  <2>6. w.conf >= IF path = "SPEECH" THEN MinConf
                  ELSE IF w.status = "FINAL" THEN MinGloss ELSE MinTsl
    BY <2>2 DEF Floor
  <2>7. "policy" # "degraded"
    OBVIOUS
  <2> QED
    BY <2>1, <2>2, <2>3, <2>5, <2>6, <2>7 DEF ConfidenceIsEarned
<1> QED
  BY <1>1, <1>2

\* A degraded segment is tentative, and less sure than its result by the penalty.
LEMMA DegradedEarns ==
  ASSUME ConfidenceIsEarned, path' = path, NEW r, r.conf \in Nat, DegradedInput(r)
  PROVE  ConfidenceIsEarned'
<1>1. CASE UNCHANGED output
  <2>1. wire' = wire
    BY <1>1 DEF output
  <2> QED
    BY <2>1 DEF ConfidenceIsEarned
<1>2. CASE /\ r.conf - Penalty > 0
           /\ Make(Sid, "PARTIAL", r.conf - Penalty, NoSeg, "degraded", {r})
  <2>1. Penalty \in 1 .. 10000
    BY FusionAssumption
  <2>2. PICK c \in Nat : c = r.conf
    OBVIOUS
  <2>3. c - Penalty > 0 /\ c - Penalty <= c /\ c - Penalty # c
    <3>1. c - Penalty > 0
      BY <1>2, <2>2
    <3> QED
      BY <2>1, <3>1
  <2>4. PICK w : w = wire'
    OBVIOUS
  <2>5. /\ w.status = "PARTIAL" /\ w.conf = c - Penalty /\ w.by = "degraded"
        /\ w.from = {r}
    BY <1>2, <2>2, <2>4 DEF Make, Sid
  <2>6. {x.conf : x \in w.from} = {c}
    BY <2>2, <2>5
  <2>7. "policy" # "degraded"
    OBVIOUS
  <2> QED
    BY <2>3, <2>4, <2>5, <2>6, <2>7 DEF ConfidenceIsEarned
<1> QED
  BY <1>1, <1>2 DEF DegradedInput

\* The gates of the results that a path can have.
LEMMA Gates ==
  /\ Gate("ASR") = MinConf /\ Gate("LIP") = MinLip
  /\ Gate("TSL") = MinTsl /\ Gate("GLOSS") = MinGloss
  /\ Gate("ASR") \in Nat /\ Gate("LIP") \in Nat /\ Gate("LIP") >= Gate("ASR")
<1>1. /\ Gate("ASR") = MinConf /\ Gate("LIP") = MinLip
      /\ Gate("TSL") = MinTsl /\ Gate("GLOSS") = MinGloss
  BY DEF Gate
<1>2. MinConf \in Nat /\ MinLip \in Nat /\ MinLip >= MinConf
  <2>1. MinConf \in 1 .. 10000 /\ MinLip \in 1 .. 10000 /\ MinConf <= MinLip
    BY FusionAssumption
  <2> QED
    BY <2>1
<1> QED
  BY <1>1, <1>2

\* A result's confidence is a number.
LEMMA ResultTyped ==
  ASSUME NEW p \in Paths, NEW r \in Results(p)
  PROVE  r.type \in TypesOf(p) /\ r.conf \in Nat
<1>1. r.conf \in Levels /\ r.type \in TypesOf(p)
  BY DEF Results
<1>2. \A c \in Levels : c \in Nat
  BY FusionAssumption
<1> QED
  BY <1>1, <1>2

\* Whatever the policies make of results is earned.
LEMMA FuseEarns ==
  ASSUME path \in Paths, ConfidenceIsEarned, path' = path,
         NEW rs \in SUBSET Results(path), Fuse(rs)
  PROVE  ConfidenceIsEarned'
<1>1. \A r \in rs : r.type \in TypesOf(path) /\ r.conf \in Nat
  BY ResultTyped
<1>2. ASSUME UNCHANGED output PROVE ConfidenceIsEarned'
  <2>1. wire' = wire
    BY <1>2 DEF output
  <2> QED
    BY <2>1 DEF ConfidenceIsEarned
<1>3. CASE path = "SPEECH"
  <2>1. \A r \in rs : r.type \in {"ASR", "LIP"}
    BY <1>1, <1>3 DEF TypesOf
  <2>2. \A r \in Valid(rs) : r \in rs /\ r.conf \in Nat /\ r.conf >= MinConf
    <3>1. \A r \in Valid(rs) : r \in rs /\ r.conf >= Gate(r.type)
      BY DEF Valid
    <3>2. MinConf \in Nat /\ MinLip \in Nat /\ MinLip >= MinConf
      BY Gates
    <3>3. ASSUME NEW r \in Valid(rs) PROVE r.conf >= MinConf
      <4>1. r \in rs /\ r.conf \in Nat /\ r.type \in {"ASR", "LIP"} /\ r.conf >= Gate(r.type)
        BY <1>1, <2>1, <3>1
      <4>2. CASE r.type = "ASR"
        BY <4>1, <4>2, Gates
      <4>3. CASE r.type = "LIP"
        <5>1. r.conf >= MinLip
          BY <4>1, <4>3, Gates
        <5> QED
          BY <3>2, <4>1, <5>1
      <4> QED
        BY <4>1, <4>2, <4>3
    <3> QED
      BY <1>1, <3>1, <3>3
  <2>3. \A status : Floor(status) = MinConf
    BY <1>3 DEF Floor
  <2>4. ASSUME NEW asr \in Valid(rs), NEW lip \in Valid(rs),
               Emit("FINAL", Merged(asr, lip), Valid(rs))
        PROVE  ConfidenceIsEarned'
    <3>1. PICK m : m = Merged(asr, lip)
      OBVIOUS
    <3>2. /\ m \in Int /\ asr.conf \in Nat /\ lip.conf \in Nat /\ MinConf \in Nat
          /\ asr.conf >= MinConf /\ lip.conf >= MinConf
          /\ \/ asr.conf <= m /\ m <= lip.conf
             \/ lip.conf <= m /\ m <= asr.conf
      BY <2>2, <3>1, MergedBetween, Gates
    <3>3. m >= MinConf
      BY <3>2
    <3>4. Make(SessionId, "FINAL", m, partials[SessionId], "policy", Valid(rs))
      BY <2>4, <3>1 DEF Emit
    <3>5. m >= Floor("FINAL")
      BY <2>3, <3>3
    <3> QED
      BY <3>2, <3>4, <3>5, PolicyEarns
  <2>5. ASSUME NEW r, Valid(rs) = {r}, Emit("PARTIAL", r.conf, {r})
        PROVE  ConfidenceIsEarned'
    <3>1. r.conf \in Nat /\ r.conf >= Floor("PARTIAL")
      BY <2>2, <2>3, <2>5
    <3>2. r.conf <= r.conf
      BY <3>1
    <3> QED
      BY <2>5, <3>1, <3>2, PolicyEarns DEF Emit
  <2>6. FuseSpeech(rs)
    BY <1>3 DEF Fuse
  <2> QED
    BY <1>2, <2>4, <2>5, <2>6 DEF FuseSpeech, Nothing
<1>4. CASE path # "SPEECH"
  <2>1. ASSUME NEW r \in Valid(rs), NEW status \in {"PARTIAL", "FINAL"},
               r.type = IF status = "FINAL" THEN "GLOSS" ELSE "TSL",
               Make(SessionId, status, r.conf, NoSeg, "policy", {r})
        PROVE  ConfidenceIsEarned'
    <3>1. r.conf \in Nat /\ r.conf >= Gate(r.type)
      BY <1>1 DEF Valid
    <3>2. Gate(r.type) = Floor(status)
      BY <1>4, <2>1, Gates DEF Floor
    <3>3. r.conf <= r.conf
      BY <3>1
    <3> QED
      BY <2>1, <3>1, <3>2, <3>3, PolicyEarns
  <2>2. FuseSign(rs)
    BY <1>4 DEF Fuse
  <2> QED
    BY <1>2, <2>1, <2>2 DEF FuseSign
<1> QED
  BY <1>3, <1>4

\* Every step keeps it.
LEMMA EarnedStep ==
  path \in Paths /\ ConfidenceIsEarned /\ [Next]_vars => (path \in Paths /\ ConfidenceIsEarned)'
<1> SUFFICES ASSUME path \in Paths, ConfidenceIsEarned, [Next]_vars
             PROVE  path' = path /\ ConfidenceIsEarned'
  BY DEF Paths
<1>1. ASSUME UNCHANGED <<path, output>> PROVE ConfidenceIsEarned'
  <2>1. wire' = wire /\ path' = path
    BY <1>1 DEF output
  <2> QED
    BY <2>1 DEF ConfidenceIsEarned
<1>2. CASE UNCHANGED vars
  BY <1>1, <1>2 DEF vars
<1>3. ASSUME NEW p \in Paths, RegisterPolicy(p) PROVE path' = path /\ ConfidenceIsEarned'
  BY <1>1, <1>3 DEF RegisterPolicy
<1>4. ASSUME NEW r \in Reports, HandleHealth(r) PROVE path' = path /\ ConfidenceIsEarned'
  BY <1>1, <1>4 DEF HandleHealth
<1>5. ASSUME NEW rs \in ResultSets(path), ProcessFeatures(rs)
      PROVE  path' = path /\ ConfidenceIsEarned'
  <2>1. rs \in SUBSET Results(path)
    BY DEF ResultSets
  <2>2. path' = path
    BY <1>5 DEF ProcessFeatures
  <2>3. CASE Nothing
    BY <1>1, <2>2, <2>3 DEF Nothing
  <2>4. CASE Fuse(rs)
    BY <2>1, <2>2, <2>4, FuseEarns
  <2>5. ASSUME NEW r \in rs, DegradedInput(r) PROVE ConfidenceIsEarned'
    <3>1. r.conf \in Nat
      BY <2>1, ResultTyped
    <3> QED
      BY <2>2, <2>5, <3>1, DegradedEarns
  <2> QED
    BY <1>5, <2>2, <2>3, <2>4, <2>5 DEF ProcessFeatures
<1>6. ASSUME NEW r \in Results(path), HandleTimeout(r)
      PROVE  path' = path /\ ConfidenceIsEarned'
  <2>1. path' = path /\ (Nothing \/ Fuse({r}))
    BY <1>6 DEF HandleTimeout
  <2>2. CASE Nothing
    BY <1>1, <2>1, <2>2 DEF Nothing
  <2>3. CASE Fuse({r})
    <3>1. {r} \in SUBSET Results(path)
      OBVIOUS
    <3> QED
      BY <2>1, <2>3, <3>1, FuseEarns
  <2> QED
    BY <2>1, <2>2, <2>3
<1> QED
  BY <1>2, <1>3, <1>4, <1>5, <1>6 DEF Next

\* For all weights that make a hundred and all thresholds, a merged FINAL is between
\* its two results, whatever passes a policy is as sure as the policy asks, and a
\* degraded segment is less sure than its result (fuse, should_suppress,
\* handle_degraded_input).
THEOREM NoConfidenceUnearned == Spec => []ConfidenceIsEarned
<1>1. Init => path \in Paths /\ ConfidenceIsEarned
  <2> SUFFICES ASSUME Init PROVE path \in Paths /\ ConfidenceIsEarned
    OBVIOUS
  <2>1. path \in Paths /\ wire.id = NoSeg
    BY DEF Init
  <2> QED
    BY <2>1 DEF ConfidenceIsEarned
<1> QED
  BY <1>1, EarnedStep, PTL DEF Spec
=============================================================================
