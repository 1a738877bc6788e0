----------------------------- MODULE RoomBinding -----------------------------
(***************************************************************************)
(* Where a room lives.  The control plane binds a room to one SFU process  *)
(* under a fresh assignment id and hands out short-lived join tokens that  *)
(* carry both; the process admits on a token, retires the assignment when  *)
(* the room empties, is reclaimed or is ended, and reports the release so  *)
(* that the control plane may bind the room elsewhere.                     *)
(*                                                                         *)
(* One room is modelled: rooms share no state but a node's capacity.  A    *)
(* process is a (node, instance) pair and never comes back after a crash.  *)
(* Whether its lease is live is free here: that both sides agree on it is  *)
(* the subject of module NodeLease.  HTTP requests and replies sit in sets *)
(* and are handled at any later time, or never.                            *)
(***************************************************************************)
EXTENDS Naturals, FiniteSets, FiniteSetsExt

CONSTANTS Proc,            \* SFU processes
          TokenTtl,        \* life of a join token: 60 s
          RetireHold,      \* a retired assignment is remembered for 120 s
          AdmissionHold,   \* kAdmissionHoldSeconds: 90 s
          ActiveSlack,     \* slack on the last token used: 30 s
          MaxReleaseDelay, \* environment: latest release after a retirement
          MaxTime, MaxAssignments, MaxMembers,    \* bounds
          None

ASSUME DurationAssumption ==
  {TokenTtl, RetireHold, AdmissionHold, ActiveSlack, MaxReleaseDelay} \subseteq Nat
ASSUME BoundAssumption == {MaxTime, MaxAssignments, MaxMembers} \subseteq Nat
ASSUME NoneAssumption ==
  None \notin Proc \cup [proc : Proc, id : 1..MaxAssignments]

VARIABLES
  clock,
  state,        \* cluster_rooms.state
  bound,        \* cluster_rooms.node and instance, None when unbound
  assignment,   \* cluster_rooms.assignment_id, 0 when unbound
  reclaimAfter, \* cluster_rooms.reclaim_after
  issued,       \* assignment ids used so far
  tokens,       \* unexpired join tokens
  live,         \* processes whose lease is unexpired
  crashed,      \* processes that are gone
  active,       \* SFU: assignments_, the assignment of the running room, or 0
  activeExp,    \* SFU: its `expires`
  members,      \* SFU: participants of the room, suspended ones included
  retired,      \* SFU: retired_assignments_
  candidates,   \* heartbeat replies naming the room as a reclaim candidate
  commands,     \* end_room commands on their way to a process
  releases      \* release requests on their way to the control plane

control == <<state, bound, assignment, reclaimAfter, issued>>
node == <<active, activeExp, members, retired>>
net == <<candidates, commands, releases>>
vars == <<clock, control, tokens, live, crashed, node, net>>

RetiredIds(p) == {x.id : x \in retired[p]}

Init ==
  /\ clock = 0
  /\ state = "open" /\ bound = None /\ assignment = 0 /\ reclaimAfter = 0
  /\ issued = 0
  /\ tokens = {} /\ live = Proc /\ crashed = {}
  /\ active = [p \in Proc |-> 0] /\ activeExp = [p \in Proc |-> 0]
  /\ members = [p \in Proc |-> 0] /\ retired = [p \in Proc |-> {}]
  /\ candidates = {} /\ commands = {} /\ releases = {}

-----------------------------------------------------------------------------
(***************************************************************************)
(* SFU process.                                                            *)
(***************************************************************************)

\* How long a retired assignment is remembered: at least RetireHold from now.
RetireUntil(p) == Max({clock + RetireHold, activeExp[p]})

\* Mutant of RetireAssignment: the retired assignment is not remembered.
RetireAssignmentForgets(p, a) ==
  /\ retired' = retired
  /\ active' = [active EXCEPT ![p] = IF @ = a THEN 0 ELSE @]
  /\ activeExp' = [activeExp EXCEPT ![p] = IF active[p] = a THEN 0 ELSE @]

\* RetireAssignment keeps the first record of an id and ends the active one.
RetireAssignment(p, a) ==
  /\ retired' = [retired EXCEPT ![p] =
       IF a \in RetiredIds(p) THEN @
       ELSE @ \cup {[id |-> a, exp |-> RetireUntil(p), since |-> clock,
                     reported |-> FALSE]}]
  /\ active' = [active EXCEPT ![p] = IF @ = a THEN 0 ELSE @]
  /\ activeExp' = [activeExp EXCEPT ![p] = IF active[p] = a THEN 0 ELSE @]

\* A client presents a token: AdmissionValidator (lease, expiry) and JoinRoom.
Join(t) ==
  LET p == t.proc
  IN  /\ t \in tokens /\ clock < t.exp /\ p \in live \ crashed
      /\ t.id \notin RetiredIds(p) /\ active[p] \in {0, t.id}
      /\ members[p] < MaxMembers
      /\ active' = [active EXCEPT ![p] = t.id]
      /\ activeExp' = [activeExp EXCEPT ![p] = Max({@, t.exp + ActiveSlack})]
      /\ members' = [members EXCEPT ![p] = @ + 1]
      /\ UNCHANGED <<clock, control, tokens, live, crashed, retired, net>>

\* Mutant of Leave: a participant is counted out a second time.
LeaveUnchecked(p) ==
  /\ members' = [members EXCEPT ![p] = @ - 1]
  /\ IF members[p] = 1 THEN RetireAssignment(p, active[p])
     ELSE UNCHANGED <<active, activeExp, retired>>
  /\ UNCHANGED <<clock, control, tokens, live, crashed, net>>

\* LeaveRoom: the last participant retires the assignment.
Leave(p) ==
  /\ members[p] > 0
  /\ members' = [members EXCEPT ![p] = @ - 1]
  /\ IF members[p] = 1 THEN RetireAssignment(p, active[p])
     ELSE UNCHANGED <<active, activeExp, retired>>
  /\ UNCHANGED <<clock, control, tokens, live, crashed, net>>

\* ControlRoom accepts reclaim_room only for an empty room, end_room always,
\* and neither for another assignment than the running one.
MayClose(p, a, ending) == active[p] \in {0, a} /\ (ending \/ members[p] = 0)

\* ControlRoom with end_room or reclaim_room: seal the assignment, then remove
\* every member.
CloseRoom(p, a) ==
  /\ RetireAssignment(p, a)
  /\ members' = [members EXCEPT ![p] = 0]

\* NodeClient::Reclaim handles one candidate of a heartbeat reply.
Reclaim(m) ==
  /\ m \in candidates /\ candidates' = candidates \ {m}
  /\ \/ /\ m.proc \notin crashed /\ MayClose(m.proc, m.id, m.closing)
        /\ CloseRoom(m.proc, m.id)
        /\ releases' = releases \cup {[proc |-> m.proc, id |-> m.id]}
     \/ /\ m.proc \in crashed \/ ~MayClose(m.proc, m.id, m.closing)
        /\ UNCHANGED <<node, releases>>
  /\ UNCHANGED <<clock, control, tokens, live, crashed, commands>>

\* NodeClient::Reclaim reports retired assignments until they are acknowledged.
ReportRelease(p) ==
  /\ \E x \in retired[p] :
       /\ ~x.reported
       /\ releases' = releases \cup {[proc |-> p, id |-> x.id]}
  /\ UNCHANGED <<clock, control, tokens, live, crashed, node, candidates, commands>>

\* RoomSignalHandler::Tick forgets acknowledged assignments past their expiry.
NodeTick(p) ==
  /\ retired' = [retired EXCEPT ![p] = {x \in @ : ~(x.reported /\ x.exp <= clock)}]
  /\ retired' # retired
  /\ UNCHANGED <<clock, control, tokens, live, crashed, active, activeExp,
                 members, net>>

\* The process dies and takes its rooms with it.
Crash(p) ==
  /\ p \notin crashed /\ crashed' = crashed \cup {p}
  /\ active' = [active EXCEPT ![p] = 0]
  /\ activeExp' = [activeExp EXCEPT ![p] = 0]
  /\ members' = [members EXCEPT ![p] = 0]
  /\ retired' = [retired EXCEPT ![p] = {}]
  /\ UNCHANGED <<clock, control, tokens, live, net>>

-----------------------------------------------------------------------------
(***************************************************************************)
(* Control plane; each action is one SQLite transaction.                   *)
(***************************************************************************)

\* Mutant of Target: a room whose node is unreachable is bound elsewhere.
TargetAnyLive == live

\* Coordinator::AssignRoom stays with the bound process, or picks a live one.
Target == IF bound = None THEN live ELSE {bound} \cap live

\* RoomAdmissionService::Admit: assign, then sign a token for what was assigned.
Admit ==
  /\ state = "open"
  /\ \E p \in Target :
       /\ \/ bound = p /\ UNCHANGED <<bound, assignment, issued>>
          \/ /\ bound # p /\ issued < MaxAssignments
             /\ bound' = p /\ issued' = issued + 1 /\ assignment' = issued'
       /\ tokens' = tokens \cup
            {[proc |-> p, id |-> assignment', exp |-> clock + TokenTtl]}
  /\ reclaimAfter' = clock + AdmissionHold
  /\ UNCHANGED <<clock, state, live, crashed, node, net>>

\* Mutant of IsCandidate: a closing room is not offered for reclaim.
IsCandidateByTime(p) == bound = p /\ reclaimAfter <= clock

IsCandidate(p) == bound = p /\ (state = "closing" \/ reclaimAfter <= clock)

\* MeetingModule::HeartbeatNode: the reply of a heartbeat names the room.
Heartbeat(p) ==
  /\ p \in live \ crashed /\ IsCandidate(p)
  /\ candidates' = candidates \cup
       {[proc |-> p, id |-> assignment, closing |-> state = "closing"]}
  /\ UNCHANGED <<clock, control, tokens, live, crashed, node, commands, releases>>

\* Mutant of Matches: a release is matched by the process alone.
MatchesProcess(m) == bound = m.proc

Matches(m) == bound = m.proc /\ assignment = m.id

\* A release handled at this moment came in time for its retirement.
InTime(m) ==
  \A x \in retired[m.proc] :
    x.id = m.id => clock <= x.since + MaxReleaseDelay

\* Coordinator::ReleaseRoom; the acknowledgement to the process may get lost.
Release(m) ==
  /\ m \in releases /\ releases' = releases \ {m}
  /\ m.proc \in live /\ InTime(m)
  /\ IF Matches(m)
     THEN /\ bound' = None /\ assignment' = 0 /\ reclaimAfter' = 0
          /\ state' = IF state = "closing" THEN "ended" ELSE state
     ELSE UNCHANGED <<bound, assignment, reclaimAfter, state>>
  /\ \/ UNCHANGED retired
     \/ retired' = [retired EXCEPT ![m.proc] =
          {IF x.id = m.id THEN [x EXCEPT !.reported = TRUE] ELSE x : x \in @}]
  /\ UNCHANGED <<clock, issued, tokens, live, crashed, active, activeExp, members,
                 candidates, commands>>

\* RoomAdminService::EndRoom, first half: BeginEnd, FindRoom, the command.
EndRoom ==
  /\ state # "ended"
  /\ state' = IF bound = None THEN "ended" ELSE "closing"
  /\ commands' = IF bound \in live
                 THEN commands \cup {[proc |-> bound, id |-> assignment]}
                 ELSE commands
  /\ UNCHANGED <<clock, bound, assignment, reclaimAfter, issued, tokens, live,
                 crashed, node, candidates, releases>>

\* RoomControlController runs the end_room command; on success EndRoom releases
\* the room, unless the reply comes too late.
Command(m) ==
  /\ m \in commands /\ commands' = commands \ {m}
  /\ \/ /\ m.proc \in live \ crashed /\ MayClose(m.proc, m.id, TRUE)
        /\ CloseRoom(m.proc, m.id)
        /\ releases' \in {releases, releases \cup {m}}
     \/ /\ m.proc \notin live \ crashed \/ ~MayClose(m.proc, m.id, TRUE)
        /\ UNCHANGED <<node, releases>>
  /\ UNCHANGED <<clock, control, tokens, live, crashed, candidates>>

\* A lease runs out, or is renewed by a process that still exists.
LeaseChanges(p) ==
  /\ \/ p \in live /\ live' = live \ {p}
     \/ p \notin live \cup crashed /\ live' = live \cup {p}
  /\ UNCHANGED <<clock, control, tokens, crashed, node, net>>

Advance ==
  /\ clock < MaxTime /\ clock' = clock + 1
  /\ tokens' = {t \in tokens : clock' < t.exp}
  /\ UNCHANGED <<control, live, crashed, node, net>>

Next ==
  \/ \E p \in Proc : \/ Leave(p) \/ ReportRelease(p) \/ NodeTick(p) \/ Crash(p)
                     \/ Heartbeat(p) \/ LeaseChanges(p)
  \/ \E t \in tokens : Join(t)
  \/ \E m \in candidates : Reclaim(m)
  \/ \E m \in releases : Release(m)
  \/ \E m \in commands : Command(m)
  \/ Admit \/ EndRoom \/ Advance

Spec == Init /\ [][Next]_vars

\* The heartbeat thread keeps running, works through every candidate it was sent,
\* and a release it keeps sending is handled at some point.
Fairness ==
  \A p \in Proc :
    /\ WF_vars(Heartbeat(p))
    /\ \A a \in 1..MaxAssignments :
         /\ WF_vars(\E m \in candidates : m.proc = p /\ m.id = a /\ Reclaim(m))
         /\ SF_vars(Release([proc |-> p, id |-> a]))

FairSpec == Spec /\ Fairness

-----------------------------------------------------------------------------
Message == [proc : Proc, id : 1..MaxAssignments]

TypeOK ==
  /\ clock \in 0..MaxTime
  /\ state \in {"open", "closing", "ended"}
  /\ bound \in Proc \cup {None}
  /\ issued \in 0..MaxAssignments /\ assignment \in 0..issued
  /\ reclaimAfter \in Nat
  /\ tokens \subseteq [proc : Proc, id : 1..MaxAssignments, exp : Nat]
  /\ live \subseteq Proc /\ crashed \subseteq Proc
  /\ active \in [Proc -> 0..MaxAssignments] /\ activeExp \in [Proc -> Nat]
  /\ members \in [Proc -> 0..MaxMembers]
  /\ \A p \in Proc : retired[p] \subseteq
       [id : 1..MaxAssignments, exp : Nat, since : Nat, reported : BOOLEAN]
  /\ candidates \subseteq [proc : Proc, id : 1..MaxAssignments, closing : BOOLEAN]
  /\ commands \subseteq Message /\ releases \subseteq Message

\* A process that has participants is the one on record, under the assignment
\* on record: a room never runs in two places, an ended room has nobody in it,
\* and a late release, candidate or command never takes a binding away from the
\* participants it serves.
HostedIsBound ==
  \A p \in Proc : members[p] > 0 => bound = p /\ assignment = active[p]

\* docs/reference.md, "房间绑定与回收": the retirement record covers the short
\* lived JWTs that are not used yet.  A token whose assignment is no longer on
\* record is refused by the process it names.
RetirementCoversTokens ==
  \A t \in tokens :
    (t.proc \notin crashed /\ ~(bound = t.proc /\ assignment = t.id))
      => t.id \in RetiredIds(t.proc)

\* A meeting that is being ended gets ended, unless its process is gone or
\* unreachable: the heartbeat finishes what a lost command or reply left undone.
EndCompletes ==
  \A p \in Proc :
    (state = "closing" /\ bound = p)
      ~> (state = "ended" \/ p \notin live \ crashed)

-----------------------------------------------------------------------------
(***************************************************************************)
(* The room as RoomPlacement sees it: its home is the binding on record,   *)
(* its guests are at the processes that really have participants, under    *)
(* the assignment those run.                                               *)
(***************************************************************************)
Placement == INSTANCE RoomPlacement WITH
  life <- state,
  home <- IF bound = None THEN None ELSE [proc |-> bound, id |-> assignment],
  used <- issued,
  guests <- {[proc |-> p, id |-> active[p]] : p \in {q \in Proc : members[q] > 0}}

\* Coordinator, RoomAdmissionService, RoomAdminService, NodeClient and the
\* RoomSignalHandlers together implement the placement a meeting is promised:
\* with tokens outstanding, processes dying, leases lapsing and releases,
\* candidates and commands late, a room changes its home only while it is empty
\* and through an assignment nobody used before, and an ended room stays ended.
ImplementsPlacement == Placement!Spec
=============================================================================
