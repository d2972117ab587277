--------------------------- MODULE ActivityStream ----------------------------
(***************************************************************************)
(* An ActivityDetector that is given any frames.  How long the signer has  *)
(* really been moving or resting is recorded beside it, from the frames    *)
(* themselves, and the detector's state is judged against that.            *)
(***************************************************************************)
EXTENDS ActivityDetector

VARIABLES
  seen,    \* the frames given: how many of the last ones were active ...
  unseen,  \* ... or inactive, each up to its limit
  last     \* the wrists in the last frame

streamVars == <<detectorVars, seen, unseen, last>>

StreamInit == DetectorInit /\ seen = 0 /\ unseen = 0 /\ last = NoWrists

\* A hand is seen and a wrist is elsewhere than in the last frame.
ReallyActive(f) ==
  /\ f.hands # {}
  /\ \E s \in Sides \cap DOMAIN last :
       /\ f.pose \/ s \in f.hands
       /\ \/ f.at[s] - last[s] > Threshold
          \/ last[s] - f.at[s] > Threshold

\* A frame arrives (update).
Give(f) ==
  /\ Update(f)
  /\ last' = WristsOf(f)
  /\ IF ReallyActive(f)
     THEN seen' = Smaller(seen + 1, ActivateFrames) /\ unseen' = 0
     ELSE seen' = 0 /\ unseen' = Smaller(unseen + 1, DeactivateFrames)

\* reset of the session.
Forget ==
  /\ ResetDetector
  /\ seen' = 0 /\ unseen' = 0 /\ last' = NoWrists

StreamNext == (\E f \in Frames : Give(f)) \/ Forget

StreamSpec == StreamInit /\ [][StreamNext]_streamVars

-----------------------------------------------------------------------------
\* Every variable has its type.
StreamTypeOK ==
  /\ DetectorTypeOK
  /\ seen \in 0 .. ActivateFrames /\ unseen \in 0 .. DeactivateFrames

\* One odd frame does not switch the detector: it starts only after so many
\* frames with real movement, one after the other, and ends only after so many
\* without, whatever hands, poses and absences came before (activity_detector.py,
\* update; its comment on wrists that come back after an absence).
Hysteresis ==
  [][/\ ~active /\ active' => seen' = ActivateFrames
     /\ active /\ ~active' => unseen' = DeactivateFrames \/ Forget]_streamVars

\* Nor does it come too late: a signer who moved for activate_frames is active, and
\* one who rested for deactivate_frames is not.
NeverLate ==
  /\ seen = ActivateFrames => active
  /\ unseen = DeactivateFrames => ~active

\* The counter that is read next is the length of the run there really was; this is
\* what Hysteresis and NeverLate rest on.
CountsRuns == IF active THEN resting = unseen ELSE moving = seen
=============================================================================
