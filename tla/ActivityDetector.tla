-------------------------- MODULE ActivityDetector --------------------------
(***************************************************************************)
(* Whether the signer of one session is signing                            *)
(* (sozia/server/fusion/activity_detector.py): a frame counts as active    *)
(* when a hand is seen and a wrist has moved since the frame before, and   *)
(* runs of active or inactive frames switch the state with hysteresis.     *)
(*                                                                         *)
(* A wrist's position is one number; only how far it moves matters.  A     *)
(* frame with pose landmarks has both wrists, seen or not, since a pose    *)
(* always has all of its points.                                           *)
(***************************************************************************)
EXTENDS Integers

CONSTANTS
  Positions,         \* where a wrist may be
  Threshold,         \* velocity_threshold
  ActivateFrames,    \* activate_frames (3)
  DeactivateFrames   \* deactivate_frames (5)

ASSUME DetectorAssumption ==
  /\ Positions \subseteq Int
  /\ Threshold \in Nat
  /\ ActivateFrames \in Nat \ {0} /\ DeactivateFrames \in Nat \ {0}

VARIABLES
  prev,      \* _prev_wrists: the wrists of the last frame
  moving,    \* _active_count
  resting,   \* _inactive_count, counted no further than DeactivateFrames
  active     \* _is_active

detectorVars == <<prev, moving, resting, active>>

Sides == {"left", "right"}
NoWrists == [s \in {} |-> 0]

\* The frames a client may send: hands seen, pose seen, and where the wrists are.
Frames == [hands : SUBSET Sides, pose : BOOLEAN, at : [Sides -> Positions]]

DetectorInit ==
  /\ prev = NoWrists
  /\ moving = 0 /\ resting = 0
  /\ active = FALSE

-----------------------------------------------------------------------------
\* _get_all_wrists: from the pose if there is one, else from the hands.
WristsOf(f) == [s \in IF f.pose THEN Sides ELSE f.hands |-> f.at[s]]

Distance(a, b) == IF a < b THEN b - a ELSE a - b

\* Each wrist is compared with itself in the last frame, if it was seen there.
Moved(before, now) ==
  \E s \in DOMAIN before \cap DOMAIN now : Distance(before[s], now[s]) > Threshold

FrameActive(f) == f.hands # {} /\ Moved(prev, WristsOf(f))

\* Definitions named Bug... are what a plausible mistake would make of the
\* definition after them, for the runs that show that a property notices it.
BugWristsKept(f) == IF WristsOf(f) = NoWrists THEN prev ELSE WristsOf(f)

BugMovesKept(f) ==
  [s \in DOMAIN WristsOf(f) |-> IF s \in DOMAIN prev THEN f.at[s] - prev[s] ELSE f.at[s]]

\* The wrists to compare the next frame with: none when none was visible.
Remembered(f) == WristsOf(f)

\* Where the state switches.
Starts(f) == FrameActive(f) /\ ~active /\ moving + 1 >= ActivateFrames

BugEndsLate(f) == ~FrameActive(f) /\ active /\ resting + 1 > DeactivateFrames

Ends(f) == ~FrameActive(f) /\ active /\ resting + 1 >= DeactivateFrames

\* The event that update returns for frame f.
Event(f) ==
  IF Starts(f) THEN "STARTED"
  ELSE IF Ends(f) THEN "ENDED"
  ELSE IF active THEN "ACTIVE" ELSE "IDLE"

\* The two counters after frame f: a frame of one kind resets the count of the
\* other, and a switch the count that led to it.
MovingAfter(f) == IF FrameActive(f) /\ ~Starts(f) THEN moving + 1 ELSE 0

RestingAfter(f) == IF FrameActive(f) \/ Ends(f) THEN 0 ELSE resting + 1

Smaller(a, b) == IF a < b THEN a ELSE b

\* While active, _active_count grows with every active frame, and while inactive
\* _inactive_count with every inactive one; neither is read then and a switch
\* resets it, so each is counted up to its own limit only.
Update(f) ==
  /\ prev' = Remembered(f)
  /\ active' = ((active \/ Starts(f)) /\ ~Ends(f))
  /\ moving' = Smaller(MovingAfter(f), ActivateFrames)
  /\ resting' = Smaller(RestingAfter(f), DeactivateFrames)

\* reset forgets the session.
ResetDetector == prev' = NoWrists /\ moving' = 0 /\ resting' = 0 /\ active' = FALSE

-----------------------------------------------------------------------------
DetectorTypeOK ==
  /\ \E D \in SUBSET Sides : prev \in [D -> Positions]
  /\ moving \in 0 .. ActivateFrames
  /\ resting \in 0 .. DeactivateFrames
  /\ active \in BOOLEAN
=============================================================================
