---------------------------- MODULE RoomPlacement ----------------------------
(***************************************************************************)
(* What room placement promises, without tokens, clocks, leases, crashes   *)
(* or messages: a room has at most one home, a home is a fresh pair of     *)
(* process and assignment id that is never used again, participants are    *)
(* only ever at the home, the home is given up only when nobody is there,  *)
(* and an ended meeting stays ended, without a home.                       *)
(***************************************************************************)
EXTENDS Naturals

CONSTANTS Proc, MaxAssignments, None

VARIABLES life,   \* of the meeting: open, closing, ended
          home,   \* where the room is, or None
          used,   \* how many assignments were made so far
          guests  \* homes that have participants

placement == <<life, home, used, guests>>

Init == life = "open" /\ home = None /\ used = 0 /\ guests = {}

\* The control plane binds an open room that has no home under the next id.
Assign(p) ==
  /\ life = "open" /\ home = None /\ used < MaxAssignments
  /\ used' = used + 1
  /\ home' = [proc |-> p, id |-> used']
  /\ UNCHANGED <<life, guests>>

\* The first participant arrives, at the home.
Occupy ==
  /\ home # None /\ guests = {}
  /\ guests' = {home}
  /\ UNCHANGED <<life, home, used>>

\* The last participant is gone: it left, was removed, or its process died.
Vacate ==
  /\ guests # {} /\ guests' = {}
  /\ UNCHANGED <<life, home, used>>

\* An empty home is given up, which completes the end of a closing meeting.
Unbind ==
  /\ home # None /\ guests = {}
  /\ home' = None
  /\ life' = IF life = "closing" THEN "ended" ELSE life
  /\ UNCHANGED <<used, guests>>

\* A meeting without a home ends at once, one with a home has to close first.
BeginEnd ==
  /\ life = "open"
  /\ life' = IF home = None THEN "ended" ELSE "closing"
  /\ UNCHANGED <<home, used, guests>>

Next ==
  \/ \E p \in Proc : Assign(p)
  \/ Occupy \/ Vacate \/ Unbind \/ BeginEnd

Spec == Init /\ [][Next]_placement
=============================================================================
