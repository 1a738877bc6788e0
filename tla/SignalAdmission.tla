--------------------------- MODULE SignalAdmission ---------------------------
(***************************************************************************)
(* Room admission over WebSocket signalling: how a connection becomes a    *)
(* room member, keeps its membership across a broken connection, and loses *)
(* it.  Three pieces of code on two threads take part:                     *)
(*                                                                         *)
(*   - WsSignalGateway and SignalSessionCoordinator run on the network     *)
(*     executor ("front"): they own one entry per connection, decide when  *)
(*     an admission is confirmed, expired or rolled back;                  *)
(*   - RoomSignalHandler runs on the room owner's executor: it owns the    *)
(*     memberships, the media sessions and the shared RoomCapacity.        *)
(*                                                                         *)
(* The two sides talk through two FIFO executors: `tasks` (front to room)  *)
(* and `front` (room back to front).  A Post to either may be refused when *)
(* the executor is full.  Deadlines are compared with the clock, so an     *)
(* armed deadline may be found expired at any step.                        *)
(*                                                                         *)
(* A connection key carries a generation and is never reused, so each      *)
(* element of Conn stands for one key.  One room and one room owner are    *)
(* modelled; the choice of the owner is a pure hash of the room name.      *)
(***************************************************************************)
EXTENDS Naturals, Sequences, FiniteSets, SequencesExt

CONSTANTS Conn,         \* connection keys
          Subject,      \* JWT subjects that may ask for admission
          Limit,        \* RoomCapacity limit_, for participants and for media
          MaxRequests,  \* bound: requests the clients send in all
          None

ASSUME LimitAssumption == Limit \in Nat \ {0} /\ MaxRequests \in Nat \ {0}
ASSUME NoneAssumption == None \notin Conn \cup Subject \cup Nat

VARIABLES
  ws,           \* state of the WebSocket of each connection
  entries,      \* coordinator: connections with an entry in sessions_
  entry,        \* coordinator: the fields of each entry
  emissions,    \* coordinator: connections registered for room notifications
  cancelled,    \* SignalSession::cancelled_
  finished,     \* SignalSession::finished_
  busy,         \* connections whose current request has not completed
  asked,        \* requests consumed so far, for MaxRequests
  resp,         \* responses queued in the response channel, initial and final
  tasks,        \* room owner executor
  front,        \* front executor: results waiting for Finish
  identity,     \* subject of every participant ever created; its id is the index
  member,       \* room: memberships_, connection to participant id
  index,        \* room: participant_connections_, participant id to connection
  suspended,    \* room: participants with a reconnect deadline
  media,        \* room: connections with an entry in sessions_
  participants, \* RoomCapacity::participants_
  mediaCount,   \* RoomCapacity::media_
  started,      \* RoomSignalHandler::started_
  stopped,      \* SignalSessionCoordinator::stopped_
  known         \* participants whose credentials reached the client

frontVars == <<ws, entries, entry, emissions, asked, stopped, known>>
sessionVars == <<cancelled, finished, resp>>
roomVars == <<identity, member, index, suspended, media, participants,
              mediaCount, started>>
vars == <<frontVars, sessionVars, busy, tasks, front, roomVars>>

Ids == 1..Len(identity)

Entry == [bound : BOOLEAN, closing : BOOLEAN, disconnected : BOOLEAN,
          pending : BOOLEAN, admitting : BOOLEAN, admitted : BOOLEAN,
          resumed : BOOLEAN, timed : BOOLEAN, gen : Nat]

\* A freshly opened entry: unbound, with the admission deadline armed.
FreshEntry == [bound |-> FALSE, closing |-> FALSE, disconnected |-> FALSE,
               pending |-> FALSE, admitting |-> FALSE, admitted |-> FALSE,
               resumed |-> FALSE, timed |-> TRUE, gen |-> 0]

\* What a client can ask for.  Resume names a participant whose credentials
\* the client holds and is made by the subject they were issued to; any other
\* resume is refused before it changes anything.
Requests ==
  [type : {"join"}, subject : Subject]
    \cup [type : {"resume"}, id : known]
    \cup [type : {"leave", "publish", "unpublish"}]

IsAdmission(r) == r.type \in {"join", "resume"}

Init ==
  /\ ws = [c \in Conn |-> "none"]
  /\ entries = {} /\ entry = [c \in Conn |-> FreshEntry] /\ emissions = {}
  /\ cancelled = {} /\ finished = {} /\ busy = {}
  /\ asked = 0
  /\ resp = [c \in Conn |-> <<>>]
  /\ tasks = <<>> /\ front = <<>>
  /\ identity = <<>>
  /\ member = [c \in Conn |-> None] /\ index = <<>>
  /\ suspended = {} /\ media = {}
  /\ participants = 0 /\ mediaCount = 0
  /\ started = TRUE /\ stopped = FALSE
  /\ known = {}

-----------------------------------------------------------------------------
(***************************************************************************)
(* The signalling session shared by both threads.                          *)
(***************************************************************************)

\* Cancel: both channels drop what they hold.
Cancel(c) ==
  /\ cancelled' = cancelled \cup {c}
  /\ resp' = [resp EXCEPT ![c] = <<>>]
  /\ UNCHANGED finished

\* Respond with a response that matters here: the initial one of an admission.
\* A finished session takes no more responses.
Respond(c, r) ==
  /\ resp' = [resp EXCEPT ![c] = IF c \in finished THEN @ ELSE Append(@, r)]
  /\ UNCHANGED <<cancelled, finished>>

\* Finish: the last response, at most once; the connection is drained after it.
FinishSession(c) ==
  /\ finished' = finished \cup {c}
  /\ resp' = [resp EXCEPT ![c] =
                IF c \in finished THEN @ ELSE Append(@, [kind |-> "final"])]
  /\ UNCHANGED cancelled

-----------------------------------------------------------------------------
(***************************************************************************)
(* Front thread: the coordinator and the gateway.                          *)
(***************************************************************************)

\* Mutants of MustRollBack: a resumed member is undone like a new one; an
\* admission whose first response is still queued is not undone.
RollBackResumed(e) == e.pending \/ (e.admitting /\ ~e.admitted)
RollBackRequestOnly(e) == ~e.resumed /\ e.admitting /\ ~e.admitted

\* The cleanup Detach posts for an entry: undo an admission of this connection
\* that no client has seen, or suspend the member.
MustRollBack(e) == ~e.resumed /\ (e.pending \/ (e.admitting /\ ~e.admitted))

Cleanup(c, e) ==
  [kind |-> IF MustRollBack(e) THEN "reject" ELSE "closed", conn |-> c]

\* Detach: TRUE when there is nothing to clean up or the task was accepted.
Detach(c, accepted) ==
  \/ ~entry[c].bound /\ accepted = TRUE /\ UNCHANGED tasks
  \/ entry[c].bound /\ accepted = TRUE
       /\ tasks' = Append(tasks, Cleanup(c, entry[c]))
  \/ entry[c].bound /\ accepted = FALSE /\ UNCHANGED tasks

\* WsSignalGateway::Open and SignalSessionCoordinator::Open.
Open(c) ==
  /\ ws[c] = "none" /\ ~stopped
  /\ ws' = [ws EXCEPT ![c] = "up"]
  /\ entries' = entries \cup {c}
  /\ UNCHANGED <<entry, emissions, asked, stopped, known, sessionVars, busy,
                 tasks, front, roomVars>>

Alive(c) == c \in entries /\ ~entry[c].closing /\ c \notin cancelled

\* What Receive leaves in the entry when the request asks for admission.
Admitting(e, r) ==
  [e EXCEPT !.bound = TRUE, !.admitting = TRUE,
            !.resumed = IF e.admitted THEN @ ELSE r.type = "resume"]

\* Receive on a live entry within its deadline.  A request that needs no room
\* (undecodable, invalid admission, or from an unbound connection) is answered
\* without a state change and is left out.
Receive(c, r) ==
  /\ Alive(c) /\ ~stopped /\ c \notin busy \cup finished
  /\ asked < MaxRequests
  /\ IsAdmission(r) \/ entry[c].bound
  /\ asked' = asked + 1
  /\ entry' = IF IsAdmission(r)
              THEN [entry EXCEPT ![c] = Admitting(entry[c], r)] ELSE entry
  /\ emissions' = IF IsAdmission(r) THEN emissions \cup {c} ELSE emissions
  /\ \/ /\ tasks' = Append(tasks, [kind |-> "handle", conn |-> c, req |-> r])
        /\ busy' = busy \cup {c}
        /\ UNCHANGED sessionVars
     \/ Cancel(c) /\ UNCHANGED <<tasks, busy>>       \* PostRoom threw
  /\ UNCHANGED <<ws, entries, stopped, known, front, roomVars>>

\* What Finish leaves in the entry, given the room's answer.
Concluded(e, f) ==
  IF IsAdmission(f.req)
  THEN IF f.ok
       THEN [e EXCEPT !.admitting = FALSE, !.admitted = TRUE, !.pending = TRUE,
                      !.resumed = f.req.type = "resume", !.gen = @ + 1]
       ELSE [e EXCEPT !.admitting = FALSE, !.bound = e.admitted]
  ELSE IF f.req.type = "leave" /\ f.ok
       THEN [e EXCEPT !.timed = TRUE, !.gen = @ + 1, !.pending = FALSE,
                      !.admitted = FALSE, !.bound = FALSE]
       ELSE e

\* Finish, run by the front executor in the order the room answered.  Only the
\* initial response of an admission is queued: the others carry no state.
Finish ==
  /\ front # <<>>
  /\ LET f == Head(front)
         c == f.conn
     IN  /\ front' = Tail(front)
         /\ busy' = busy \ {c}
         /\ \/ /\ Alive(c) /\ ~stopped
               /\ entry' = [entry EXCEPT ![c] = Concluded(@, f)]
               /\ emissions' = IF entry'[c].bound THEN emissions
                               ELSE emissions \ {c}
               /\ IF IsAdmission(f.req) /\ f.ok
                  THEN Respond(c, [kind |-> "initial", id |-> f.id,
                                   gen |-> entry'[c].gen])
                  ELSE UNCHANGED sessionVars
            \/ /\ ~Alive(c) \/ stopped
               /\ UNCHANGED <<entry, emissions, sessionVars>>
  /\ UNCHANGED <<ws, entries, asked, stopped, known, tasks, roomVars>>

\* Expire, from Tick, from Receive or from ConfirmInitial: the deadline passed.
\* Detach's result is ignored; the session is cancelled either way.
Expire(c) ==
  /\ entry' = [entry EXCEPT ![c].closing = TRUE]
  /\ \/ /\ entry[c].pending \/ entry[c].admitting
        /\ \E accepted \in BOOLEAN : Detach(c, accepted)
        /\ Cancel(c)
     \/ /\ ~entry[c].pending /\ ~entry[c].admitting
        /\ FinishSession(c) /\ UNCHANGED tasks

TickExpire(c) ==
  /\ c \in entries /\ ~entry[c].disconnected /\ ~entry[c].closing
  /\ entry[c].timed /\ ~stopped
  /\ Expire(c)
  /\ UNCHANGED <<ws, entries, emissions, asked, stopped, known, busy, front,
                 roomVars>>

CloseConnection(c) == ws' = [ws EXCEPT ![c] = "closing"]

\* Mutant of Confirm: the deadline is disarmed, the admission stays pending.
ConfirmKeepsPending(c, r) ==
  entry' = [entry EXCEPT ![c] =
             IF @.gen # r.gen \/ @.closing THEN @
             ELSE [@ EXCEPT !.timed = FALSE]]

\* ConfirmInitial when the deadline has not passed: the first response of the
\* current admission is in the socket's queue, so the admission stands.
Confirm(c, r) ==
  entry' = [entry EXCEPT ![c] =
             IF @.gen # r.gen \/ @.closing THEN @
             ELSE [@ EXCEPT !.pending = FALSE, !.timed = FALSE]]

\* WsSignalGateway::Write of the next response.
Write(c) ==
  /\ resp[c] # <<>> /\ c \notin cancelled /\ ws[c] # "gone"
  /\ LET r == Head(resp[c])
         rest == [resp EXCEPT ![c] = Tail(@)]
     IN  \/ /\ CloseConnection(c) /\ resp' = rest            \* SendText failed
            /\ UNCHANGED <<entry, known, cancelled, finished, tasks>>
         \/ /\ ws[c] = "up" /\ r.kind = "initial"
            /\ Confirm(c, r) /\ resp' = rest
            /\ known' = known \cup {r.id}
            /\ UNCHANGED <<ws, cancelled, finished, tasks>>
         \/ /\ ws[c] = "up" /\ r.kind = "initial"       \* confirmed too late
            /\ entry[c].gen = r.gen /\ ~entry[c].closing /\ entry[c].timed
            /\ Expire(c) /\ CloseConnection(c)
            /\ UNCHANGED known
         \/ /\ ws[c] = "up" /\ r.kind = "final"
            /\ ws' = [ws EXCEPT ![c] = "draining"] /\ resp' = rest
            /\ UNCHANGED <<entry, known, cancelled, finished, tasks>>
  /\ UNCHANGED <<entries, emissions, asked, stopped, busy, front, roomVars>>

\* Mutant of Closed: the entry is erased although its cleanup was refused.
ClosedForgets(c) ==
  /\ ws[c] \in {"up", "draining", "closing"} /\ ~stopped
  /\ ws' = [ws EXCEPT ![c] = "gone"]
  /\ Cancel(c)
  /\ emissions' = emissions \ {c}
  /\ \E accepted \in BOOLEAN : Detach(c, accepted)
  /\ entries' = entries \ {c}
  /\ entry' = [entry EXCEPT ![c] = FreshEntry]
  /\ UNCHANGED <<asked, stopped, known, busy, front, roomVars>>

\* The socket is gone: WsSignalGateway::Closed, then the coordinator's Closed,
\* which keeps the entry for Tick when the room owner refuses the cleanup.
Closed(c) ==
  /\ ws[c] \in {"up", "draining", "closing"} /\ ~stopped
  /\ ws' = [ws EXCEPT ![c] = "gone"]
  /\ Cancel(c)
  /\ emissions' = emissions \ {c}
  /\ \/ Detach(c, TRUE) /\ entries' = entries \ {c}
        /\ entry' = [entry EXCEPT ![c] = FreshEntry]
     \/ Detach(c, FALSE) /\ UNCHANGED entries
        /\ entry' = [entry EXCEPT ![c].closing = TRUE,
                                  ![c].disconnected = TRUE]
  /\ UNCHANGED <<asked, stopped, known, busy, front, roomVars>>

\* Tick retries the cleanup of a connection that is already gone.
TickDetach(c) ==
  /\ c \in entries /\ entry[c].disconnected /\ ~stopped
  /\ Detach(c, TRUE)
  /\ entries' = entries \ {c}
  /\ entry' = [entry EXCEPT ![c] = FreshEntry]
  /\ UNCHANGED <<ws, emissions, asked, stopped, known, sessionVars, busy,
                 front, roomVars>>

\* WsSignalGateway::Tick closes the socket of a cancelled session.
GatewayTick(c) ==
  /\ c \in cancelled /\ ws[c] \in {"up", "draining"}
  /\ CloseConnection(c)
  /\ UNCHANGED <<entries, entry, emissions, asked, stopped, known, sessionVars,
                 busy, tasks, front, roomVars>>

\* A channel of the session overflowed or lost its executor: it cancels itself.
Overflow(c) ==
  /\ ws[c] \in {"up", "draining", "closing"} /\ c \notin cancelled
  /\ Cancel(c)
  /\ UNCHANGED <<frontVars, busy, tasks, front, roomVars>>

\* WebRtcService::Stop on the front: the gateway closes every session, the
\* coordinator forgets its entries, and the room owners are asked to stop.
Stop ==
  /\ ~stopped
  /\ stopped' = TRUE
  /\ ws' = [c \in Conn |-> IF ws[c] = "none" THEN "none" ELSE "gone"]
  /\ cancelled' = {c \in Conn : ws[c] # "none"}
  /\ resp' = [c \in Conn |-> <<>>]
  /\ entries' = {} /\ entry' = [c \in Conn |-> FreshEntry] /\ emissions' = {}
  /\ \E accepted \in SUBSET {c \in entries : entry[c].bound} :
       \E cleanups \in SetToSeqs({Cleanup(c, entry[c]) : c \in accepted}) :
         tasks' = tasks \o cleanups \o <<[kind |-> "stop"]>>
  /\ UNCHANGED <<asked, known, finished, busy, front, roomVars>>

-----------------------------------------------------------------------------
(***************************************************************************)
(* Room owner thread: RoomSignalHandler.                                   *)
(***************************************************************************)

HasMember(c) == member[c] # None

\* Mutant of LeaveRoom: the participant's capacity is not given back.
LeaveRoomKeepsCapacity(c) ==
  /\ UNCHANGED participants
  /\ IF HasMember(c)
     THEN /\ member' = [member EXCEPT ![c] = None]
          /\ index' = [index EXCEPT ![member[c]] = None]
          /\ suspended' = suspended \ {member[c]}
     ELSE UNCHANGED <<member, index, suspended>>

\* LeaveRoom: drop the membership, its capacity and its index entry.
LeaveRoom(c) ==
  IF HasMember(c)
  THEN /\ member' = [member EXCEPT ![c] = None]
       /\ index' = [index EXCEPT ![member[c]] = None]
       /\ suspended' = suspended \ {member[c]}
       /\ participants' = participants - 1
  ELSE UNCHANGED <<member, index, suspended, participants>>

\* Mutant of RemoveMediaSession: capacity is released without a session.
RemoveMediaSessionBlindly(c) ==
  media' = media \ {c} /\ mediaCount' = mediaCount - 1

\* RemoveMediaSession: drop the media session and its capacity.
RemoveMediaSession(c) ==
  IF c \in media
  THEN media' = media \ {c} /\ mediaCount' = mediaCount - 1
  ELSE UNCHANGED <<media, mediaCount>>

RemoveSession(c) ==
  LeaveRoom(c) /\ RemoveMediaSession(c) /\ UNCHANGED <<identity, started>>

\* OnSignalingClosed: suspend the member; without one, drop what is left.
OnSignalingClosed(c) ==
  IF started /\ HasMember(c)
  THEN /\ suspended' = suspended \cup {member[c]}
       /\ UNCHANGED <<identity, member, index, media, participants, mediaCount,
                      started>>
  ELSE RemoveSession(c)

CanJoin(c, s) ==
  /\ c \notin media /\ ~HasMember(c)
  /\ \A d \in Conn : HasMember(d) => identity[member[d]] # s
  /\ participants < Limit

\* JoinRoom when every check passes: a fresh participant id is bound to c.
JoinRoom(c, s) ==
  /\ CanJoin(c, s)
  /\ identity' = Append(identity, s)
  /\ member' = [member EXCEPT ![c] = Len(identity')]
  /\ index' = Append(index, c)
  /\ participants' = participants + 1
  /\ UNCHANGED <<suspended, media, mediaCount, started>>

CanResume(c, i) ==
  /\ c \notin media /\ ~HasMember(c)
  /\ index[i] # None /\ i \in suspended

\* Mutant of ResumeRoom: the index still names the previous connection.
ResumeRoomKeepsIndex(c, i) ==
  /\ CanResume(c, i)
  /\ LET previous == index[i]
     IN  /\ member' = [member EXCEPT ![c] = i, ![previous] = None]
         /\ media' = IF previous \in media THEN (media \ {previous}) \cup {c}
                     ELSE media
  /\ suspended' = suspended \ {i}
  /\ UNCHANGED <<identity, index, participants, mediaCount, started>>

\* ResumeRoom within the window: the membership, the media session and the
\* index move from the previous connection to this one.
ResumeRoom(c, i) ==
  /\ CanResume(c, i)
  /\ LET previous == index[i]
     IN  /\ member' = [member EXCEPT ![c] = i, ![previous] = None]
         /\ media' = IF previous \in media THEN (media \ {previous}) \cup {c}
                     ELSE media
         /\ index' = [index EXCEPT ![i] = c]
  /\ suspended' = suspended \ {i}
  /\ UNCHANGED <<identity, participants, mediaCount, started>>

\* CreateSession for publish or subscribe: one media session per connection.
CreateSession(c) ==
  /\ HasMember(c) /\ c \notin media /\ mediaCount < Limit
  /\ media' = media \cup {c} /\ mediaCount' = mediaCount + 1
  /\ UNCHANGED <<identity, member, index, suspended, participants, started>>

\* Handle: the room's answer to one request, TRUE when it succeeded.
Handle(c, r, ok) ==
  \/ r.type = "join"      /\ ok = TRUE /\ JoinRoom(c, r.subject)
  \/ r.type = "resume"    /\ ok = TRUE /\ ResumeRoom(c, r.id)
  \/ r.type = "resume"    /\ ok = FALSE            \* window over, media failed
       /\ CanResume(c, r.id) /\ RemoveSession(index[r.id])
  \/ r.type = "leave"     /\ ok = TRUE /\ RemoveSession(c)
  \/ r.type = "publish"   /\ ok = TRUE /\ CreateSession(c)
  \/ r.type = "unpublish" /\ ok = TRUE /\ HasMember(c)
       /\ RemoveMediaSession(c)
       /\ UNCHANGED <<identity, member, index, suspended, participants, started>>
  \/ r.type # "leave"     /\ ok = FALSE /\ UNCHANGED roomVars   \* refused

\* One request on the room owner, skipped when its session is cancelled; the
\* answer goes back through the front executor, which may refuse it.
HandleTask(t) ==
  \E ok \in BOOLEAN :
    /\ \/ /\ t.conn \notin cancelled /\ started
          /\ Handle(t.conn, t.req, ok)
       \/ /\ t.conn \in cancelled \/ ~started
          /\ ok = FALSE /\ UNCHANGED roomVars
    /\ \/ /\ front' = Append(front, [conn |-> t.conn, req |-> t.req, ok |-> ok,
                                     id |-> member'[t.conn]])
          /\ UNCHANGED <<busy, sessionVars>>
       \/ /\ Cancel(t.conn) /\ busy' = busy \ {t.conn} /\ UNCHANGED front

\* RoomSignalHandler::Stop drops every membership and media session.
StopTask ==
  /\ started' = FALSE
  /\ member' = [c \in Conn |-> None] /\ index' = [i \in Ids |-> None]
  /\ suspended' = {} /\ media' = {}
  /\ participants' = participants - Cardinality({c \in Conn : HasMember(c)})
  /\ mediaCount' = mediaCount - Cardinality(media)
  /\ UNCHANGED <<identity, busy, front, sessionVars>>

\* The room owner runs its next task.
RoomStep ==
  /\ tasks # <<>>
  /\ tasks' = Tail(tasks)
  /\ LET t == Head(tasks)
     IN  \/ t.kind = "handle" /\ HandleTask(t)
         \/ t.kind = "reject" /\ RemoveSession(t.conn)
              /\ UNCHANGED <<busy, front, sessionVars>>
         \/ t.kind = "closed" /\ OnSignalingClosed(t.conn)
              /\ UNCHANGED <<busy, front, sessionVars>>
         \/ t.kind = "stop" /\ StopTask
  /\ UNCHANGED frontVars

\* RoomSignalHandler::Tick finds that a suspended member's window is over.
RoomExpire(c) ==
  /\ started /\ HasMember(c) /\ member[c] \in suspended
  /\ RemoveSession(c)
  /\ UNCHANGED <<frontVars, sessionVars, busy, tasks, front>>

\* A connected member is removed by the room: its media failed (Tick), an
\* administrator removed it, or the room was ended.  The connection is told
\* through QueueEmission, with the response that closes it.
RoomRemove(c) ==
  /\ started /\ HasMember(c) /\ member[c] \notin suspended
  /\ RemoveSession(c)
  /\ IF c \in emissions /\ c \notin cancelled THEN FinishSession(c)
     ELSE UNCHANGED sessionVars
  /\ UNCHANGED <<frontVars, busy, tasks, front>>

Next ==
  \/ \E c \in Conn :
       \/ Open(c) \/ Write(c) \/ Closed(c) \/ Overflow(c)
       \/ TickExpire(c) \/ TickDetach(c) \/ GatewayTick(c)
       \/ RoomExpire(c) \/ RoomRemove(c)
       \/ \E r \in Requests : Receive(c, r)
  \/ Finish \/ RoomStep \/ Stop

Spec == Init /\ [][Next]_vars

\* The front executor, the room executor and the 100 ms timer all keep running,
\* and a socket that is draining or closing does get closed.  Nothing is assumed
\* of the clients, and no single Post is assumed to be accepted: only that a
\* cleanup retried for ever is accepted once.
Fairness ==
  /\ WF_vars(Finish) /\ WF_vars(RoomStep)
  /\ \A c \in Conn :
       /\ WF_vars(Write(c)) /\ WF_vars(TickExpire(c)) /\ WF_vars(TickDetach(c))
       /\ WF_vars(GatewayTick(c)) /\ WF_vars(RoomExpire(c))
       /\ WF_vars(ws[c] \in {"draining", "closing"} /\ Closed(c))

FairSpec == Spec /\ Fairness

-----------------------------------------------------------------------------
(***************************************************************************)
(* Properties.                                                             *)
(***************************************************************************)

Members == {c \in Conn : HasMember(c)}
Queued(c, kinds) ==
  \E k \in 1..Len(tasks) :
    tasks[k].kind \in kinds /\ (tasks[k].kind # "stop" => tasks[k].conn = c)

TypeOK ==
  /\ ws \in [Conn -> {"none", "up", "draining", "closing", "gone"}]
  /\ entries \subseteq Conn /\ entry \in [Conn -> Entry]
  /\ emissions \subseteq Conn /\ cancelled \subseteq Conn
  /\ finished \subseteq Conn /\ busy \subseteq Conn
  /\ asked \in 0..MaxRequests
  /\ identity \in Seq(Subject)
  /\ member \in [Conn -> Ids \cup {None}]
  /\ index \in [Ids -> Conn \cup {None}]
  /\ suspended \subseteq Ids /\ known \subseteq Ids /\ media \subseteq Conn
  /\ participants \in Nat /\ mediaCount \in Nat
  /\ started \in BOOLEAN /\ stopped \in BOOLEAN

\* RoomCapacity counts exactly the memberships and the media sessions that
\* exist, whichever of leave, rollback, kick, expiry, resume and stop ended
\* them, and never exceeds the configured limit.
CapacityExact ==
  /\ participants = Cardinality(Members) /\ participants <= Limit
  /\ mediaCount = Cardinality(media) /\ mediaCount <= Limit

\* memberships_ and participant_connections_ are inverse to each other, a
\* subject is in the room at most once, and only members are suspended or hold
\* media: a resume moves all three tables together.
TablesAgree ==
  /\ \A c \in Conn : HasMember(c) => index[member[c]] = c
  /\ \A i \in Ids : index[i] # None => member[index[i]] = i
  /\ \A c, d \in Members :
       identity[member[c]] = identity[member[d]] => c = d
  /\ \A i \in suspended : index[i] # None
  /\ media \subseteq Members

\* A connected membership always has somebody responsible for ending it: the
\* connection's entry is still bound to the room (and Closed or Tick will detach
\* it), or its cleanup, or the stop of the room, is already queued.
NoOrphan ==
  \A c \in Members :
    member[c] \notin suspended =>
      \/ c \in entries /\ entry[c].bound
      \/ Queued(c, {"reject", "closed", "stop"})

\* A rollback that is queued never hits a participant whose credentials a client
\* already has: such a participant is suspended, never deleted, when its
\* connection breaks.  The one exception is a connection the room had already
\* ended while its first join was unconfirmed, on which a resume was still queued.
RollbackSparesKnown ==
  \A c \in Members \ finished : Queued(c, {"reject"}) => member[c] \notin known

\* A participant is left suspended only if a client knows the credentials to
\* resume it; the one exception is a connection the room had already ended, on
\* which a second join was still queued.
Recoverable ==
  \A i \in suspended : i \in known \/ index[i] \in finished

\* After the socket of a member is gone, its membership under that connection
\* ends: rolled back, resumed on another connection, or removed when the
\* reconnect window is over, even when the room owner refuses the first cleanups.
ClosedIsDetached ==
  \A c \in Conn :
    (ws[c] = "gone" /\ HasMember(c)) ~> ~(HasMember(c))

\* An admission does not stay unconfirmed for ever.
PendingSettles ==
  \A c \in Conn : (c \in entries /\ entry[c].pending) ~>
                  ~(c \in entries /\ entry[c].pending)
=============================================================================
