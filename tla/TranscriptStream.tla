-------------------------- MODULE TranscriptStream --------------------------
(***************************************************************************)
(* What a client is promised about the segments it receives                *)
(* (TranscriptSegment in sozia/common/models.py): a PARTIAL is tentative   *)
(* and is revised by a segment that names it in replaces_segment_id, a     *)
(* FINAL is never revised.  A client that does what the segments say shows *)
(* at most one PARTIAL at a time, below the FINALs it has settled.         *)
(*                                                                         *)
(* Segment identifiers are UUIDs in the code; here they are numbered in    *)
(* order of creation, 0 standing for None.                                 *)
(***************************************************************************)
EXTENDS Naturals

VARIABLES
  shown,  \* the PARTIALs on the client's screen that nothing has replaced
  wire    \* the last segment delivered

NoSeg == 0
Statuses == {"PARTIAL", "FINAL"}

\* The PARTIALs a segment with this replaces_segment_id takes off the screen.
Named(id) == IF id = NoSeg THEN {} ELSE {id}

Init ==
  /\ shown = {}
  /\ wire = [id |-> NoSeg, status |-> "FINAL", replaces |-> NoSeg]

\* A new segment arrives, and what it replaces is all that is shown.
Deliver(status) ==
  /\ wire'.id > wire.id
  /\ wire'.status = status
  /\ shown = Named(wire'.replaces)

Revise == Deliver("PARTIAL") /\ shown' = {wire'.id}
Settle == Deliver("FINAL") /\ shown' = {}

Next == Revise \/ Settle

Spec == Init /\ [][Next]_<<shown, wire>>
=============================================================================
