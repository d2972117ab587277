---------------------------- MODULE MCSignSession ----------------------------
(***************************************************************************)
(* A small SIGN session: a left hand that is seen in two places, so that   *)
(* two frames in a row show it moved or at rest, and a frame without it.   *)
(***************************************************************************)
EXTENDS SignSession

LeftAt(p) == [hands |-> {"left"}, pose |-> FALSE, at |-> [s \in Sides |-> p]]
Absent == [hands |-> {}, pose |-> FALSE, at |-> [s \in Sides |-> 0]]

SomeShots == {LeftAt(0), LeftAt(1), Absent}
=============================================================================
