------------------------------ MODULE RoomTracks ------------------------------
(***************************************************************************)
(* One room with its participants, their media sessions, the routes        *)
(* between their endpoints, and the process-wide registry of core tracks.  *)
(*                                                                         *)
(* Signalling requests and the tick run on the room's owner thread, one    *)
(* after the other; the registry is also changed by other threads, in the  *)
(* middle of a tick too.  A registry change first closes the track and its *)
(* consumers under the registry's lock and only then publishes the event   *)
(* that sets the handler's dirty flag.                                     *)
(*                                                                         *)
(* A participant has at most one media session, which publishes or         *)
(* subscribes.  Revisions are kept only as far as they are compared: a     *)
(* member is fresh when its notified revision is the current one.  Routes  *)
(* that are closed and wait to be pruned, renegotiation and permissions    *)
(* are left out.                                                           *)
(***************************************************************************)
EXTENDS Naturals, FiniteSets

CONSTANTS
  Participant, Track,
  Client,      \* the participants whose client's knowledge is followed
  Owner,       \* Owner[t]: the participant whose track t is
  MaxUnsent,   \* bound: other threads between a registry change and its event
  Unseen, Lost \* what a client may know instead of a set of tracks

ASSUME TracksAssumption ==
  /\ Owner \in [Track -> Participant] /\ Client \subseteq Participant
  /\ MaxUnsent \in Nat /\ Unseen # Lost

VARIABLES
  room,   \* the state of the owner thread and of the registry
  unsent, \* registry changes made by other threads, event not yet published
  phase,  \* "idle", or how far the owner thread is in Tick
  todo,   \* sessions the tick has still to reconcile
  empty,  \* sessions the tick found without tracks
  view    \* view[c]: the last list of tracks client c was sent

vars == <<room, unsent, phase, todo, empty, view>>

Pair == Participant \X Track

TracksOf(S) == {t \in Track : Owner[t] \in S}
PairsOf(S) == {x \in Pair : x[1] \in S}
PairsOn(T) == {x \in Pair : x[2] \in T}

InitRoom ==
  [members |-> {}, suspended |-> {},                    \* memberships_
   pub |-> {}, sub |-> {}, tracks |-> {}, wants |-> {}, \* sessions_
   published |-> {}, byTrack |-> {}, byPart |-> {},     \* Room
   own |-> {}, sublist |-> {},                          \* Participant
   offered |-> {}, open |-> {},                         \* SfuEndpoint: tracks, routes
   streams |-> {}, core |-> {}, dirty |-> FALSE,        \* MediaStreamRegistry
   fresh |-> {}, ever |-> FALSE]                        \* revisions

Init ==
  /\ room = InitRoom
  /\ unsent = {} /\ phase = "idle" /\ todo = {} /\ empty = {}
  /\ view = [c \in Client |-> Unseen]

-----------------------------------------------------------------------------
(***************************************************************************)
(* Room, Participant, SfuEndpoint and registry operations, on a room r and *)
(* for sets of tracks, subscriptions or participants.                      *)
(***************************************************************************)

\* Tracks T were published or unpublished: the revision moves on for everyone.
FreshAfter(fresh, T) == IF T = {} THEN fresh ELSE {}

\* The routes that SfuEndpoint::Stop closes, to and from the endpoints of S.
RoutesOf(S) == PairsOf(S) \cup PairsOn(TracksOf(S))

\* Room::UnpublishTrack: the subscriptions to the track in both indices, their
\* routes and the subscribers' lists, then the publisher's endpoint and list.
Unpublish(r, T) ==
  LET ended == r.byTrack \cap PairsOn(T)
  IN  [r EXCEPT !.byTrack = @ \ ended, !.byPart = @ \ ended, !.sublist = @ \ ended,
                !.open = @ \ (ended \cup PairsOn(T \cap r.offered)),
                !.published = @ \ T, !.offered = @ \ T, !.own = @ \ T,
                !.fresh = FreshAfter(@, T), !.ever = @ \/ T # {}]

\* Mutant of RemoveCore: a closed track leaves its consumers open.
RemoveCoreOnly(r, T) == [r EXCEPT !.core = @ \ T]

\* The registry closes tracks: the gate of each consumer closes with them.
RemoveCore(r, T) == [r EXCEPT !.core = @ \ T, !.open = @ \ PairsOn(T)]

\* RemoveMediaSession: while still a member, its tracks are unpublished and its
\* subscriptions ended; then the endpoint stops and the stream leaves the
\* registry, which publishes the event on this thread.
RemoveMediaSession(r, S) ==
  LET had == S \cap (r.pub \cup r.sub)
      bound == had \cap r.members
      gone == r.published \cap r.tracks \cap TracksOf(bound)
      ended == (r.byTrack \cap PairsOn(gone)) \cup (r.wants \cap PairsOf(bound))
      known == had \cap r.streams
  IN  [r EXCEPT !.published = @ \ gone, !.own = @ \ gone,
                !.byTrack = @ \ ended, !.byPart = @ \ ended, !.sublist = @ \ ended,
                !.fresh = FreshAfter(@, gone), !.ever = @ \/ gone # {},
                !.offered = @ \ TracksOf(had),
                !.open = @ \ (ended \cup RoutesOf(had)),
                !.streams = @ \ known, !.core = @ \ TracksOf(known),
                !.dirty = @ \/ known # {},
                !.pub = @ \ had, !.sub = @ \ had,
                !.tracks = @ \ TracksOf(had), !.wants = @ \ PairsOf(had)]

\* Mutant of Ended: subscribers of a leaver's tracks keep their own entries.
EndedByLeaver(r, S, gone) == r.byPart \cap PairsOf(S)

\* The subscriptions Room::Leave ends: the leavers' own, and others' to their tracks.
Ended(r, S, gone) == (r.byPart \cap PairsOf(S)) \cup (r.byTrack \cap PairsOn(gone))

\* RoomSignalHandler::LeaveRoom with Room::Leave and Participant::Leave, which
\* stops the endpoint; the last member takes the room and its observation along.
LeaveRoom(r, S) ==
  LET out == S \cap r.members
      gone == r.published \cap TracksOf(out)
      ended == Ended(r, out, gone)
  IN  [r EXCEPT !.published = @ \ gone,
                !.byTrack = @ \ (ended \cup PairsOn(gone)),
                !.byPart = @ \ (ended \cup PairsOn(gone)),
                !.own = @ \ TracksOf(out), !.sublist = @ \ (ended \cup PairsOf(out)),
                !.offered = @ \ TracksOf(out), !.open = @ \ (ended \cup RoutesOf(out)),
                !.members = @ \ out, !.suspended = @ \ out,
                !.fresh = FreshAfter(@, gone) \ out,
                !.ever = (@ \/ gone # {}) /\ r.members # out]

-----------------------------------------------------------------------------
(***************************************************************************)
(* Requests, on the owner thread between two ticks.                        *)
(***************************************************************************)

\* RemoveSession; a client that is out of the room no longer keeps a list.
RemoveSession(S) ==
  /\ \E left \in {LeaveRoom(room, S)} : room' = RemoveMediaSession(left, S)
  /\ view' = [c \in Client |-> IF c \in S THEN Unseen ELSE view[c]]

Connected == room.members \ room.suspended

JoinRoom(p) ==
  /\ phase = "idle" /\ p \notin room.members
  /\ room' = [room EXCEPT !.members = @ \cup {p}, !.fresh = @ \cup {p}]
  /\ UNCHANGED <<unsent, phase, todo, empty, view>>

\* leave, remove_participant, and end_room for all members at once.
Leave(S) ==
  /\ phase = "idle" /\ S # {} /\ S \subseteq room.members
  /\ RemoveSession(S)
  /\ UNCHANGED <<unsent, phase, todo, empty>>

\* publish: the stream is registered and bound, then the tracks T are published
\* one by one; when one fails, after those of K, everything is taken back.
CreatePublishSession(p, T, K) ==
  LET full == [room EXCEPT !.pub = @ \cup {p}, !.streams = @ \cup {p},
                           !.core = @ \cup T, !.offered = @ \cup T,
                           !.tracks = @ \cup K, !.published = @ \cup K, !.own = @ \cup K,
                           !.fresh = FreshAfter(@, K), !.ever = @ \/ K # {}]
  IN  /\ phase = "idle" /\ p \in Connected \ (room.pub \cup room.sub)
      /\ T # {} /\ T \subseteq TracksOf({p}) /\ K \subseteq T
      /\ \/ K = T /\ room' = full
         \/ K # T /\ \E r \in {full} : room' = RemoveMediaSession(r, {p})
      /\ UNCHANGED <<unsent, phase, todo, empty, view>>

\* FindPublishedMedia: tracks of other members that have a publishing session.
Offered(p) == room.own \cap TracksOf(room.pub \cap (room.members \ {p}))

\* Room::SubscribeTrackLocked with SfuEndpoint::Subscribe: the source must still
\* run and offer the track, and the registry must still have it.
CanRoute(t) == t \in room.published \cap room.offered \cap room.core

\* subscribe: routes are set up one by one; when one fails, after those of K,
\* everything is taken back.
CreateSubscribeSession(p, T, K) ==
  LET made == {p} \X K
      full == [room EXCEPT !.sub = @ \cup {p}, !.wants = @ \cup ({p} \X T),
                           !.byTrack = @ \cup made, !.byPart = @ \cup made,
                           !.open = @ \cup made, !.sublist = @ \cup made]
  IN  /\ phase = "idle" /\ p \in Connected \ (room.pub \cup room.sub)
      /\ T # {} /\ T \subseteq Offered(p)
      /\ K \subseteq {t \in T : CanRoute(t)}
      /\ \/ K = T /\ room' = full
         \/ K # T /\ \E r \in {full} : room' = RemoveMediaSession(r, {p})
      /\ UNCHANGED <<unsent, phase, todo, empty, view>>

\* unpublish, unsubscribe, and an update that takes the permission away.
StopMedia(p) ==
  /\ phase = "idle" /\ p \in room.pub \cup room.sub
  /\ room' = RemoveMediaSession(room, {p})
  /\ UNCHANGED <<unsent, phase, todo, empty, view>>

ListTracks(p) ==
  /\ phase = "idle" /\ p \in Connected \cap Client
  /\ view' = [view EXCEPT ![p] = room.own]
  /\ UNCHANGED <<room, unsent, phase, todo, empty>>

\* The connection is gone; a notification queued on it may never have arrived.
OnSignalingClosed(p) ==
  /\ phase = "idle" /\ p \in Connected
  /\ room' = [room EXCEPT !.suspended = @ \cup {p}]
  /\ \/ UNCHANGED view
     \/ /\ room.ever /\ p \in Client /\ view[p] # Unseen
        /\ view' = [view EXCEPT ![p] = Lost]
  /\ UNCHANGED <<unsent, phase, todo, empty>>

\* Mutant of Resumed: the notified revision survives the reconnection.
ResumedKeepsRevision(r, p) == [r EXCEPT !.suspended = @ \ {p}]

\* The notified revision goes back to 0, which is current only in a room that
\* never had a track.
Resumed(r, p) ==
  [r EXCEPT !.suspended = @ \ {p},
            !.fresh = IF r.ever THEN @ \ {p} ELSE @ \cup {p}]

\* The participant is taken over, or found expired and removed.
ResumeRoom(p) ==
  /\ phase = "idle" /\ p \in room.suspended
  /\ \/ room' = Resumed(room, p) /\ UNCHANGED view
     \/ RemoveSession({p})
  /\ UNCHANGED <<unsent, phase, todo, empty>>

-----------------------------------------------------------------------------
(***************************************************************************)
(* Tick.                                                                   *)
(***************************************************************************)

\* The dirty flag is taken before the sessions are looked at.
TickStart ==
  /\ phase = "idle" /\ phase' = "tick"
  /\ todo' = IF room.dirty THEN room.pub ELSE {}
  /\ room' = [room EXCEPT !.dirty = FALSE]
  /\ UNCHANGED <<unsent, empty, view>>

\* ReconcileMediaTracks, for one session.
Reconcile(p) ==
  LET mine == room.tracks \cap TracksOf({p})
      gone == (mine \cap room.own) \ room.core
  IN  /\ phase = "tick" /\ p \in todo /\ todo' = todo \ {p}
      /\ \/ p \notin room.streams /\ UNCHANGED room
         \/ p \in room.streams /\ room' = [Unpublish(room, gone) EXCEPT !.tracks = @ \ gone]
      /\ empty' = IF p \notin room.streams \/ mine \subseteq gone THEN empty \cup {p} ELSE empty
      /\ UNCHANGED <<unsent, phase, view>>

\* Mutant of Reconciled: the dirty flag is cleared once more after the scan.
ReconciledClears(r) == [RemoveMediaSession(r, empty) EXCEPT !.dirty = FALSE]

\* The sessions with nothing left are removed when all have been looked at.
Reconciled(r) == RemoveMediaSession(r, empty)

TickReconciled ==
  /\ phase = "tick" /\ todo = {} /\ phase' = "expire" /\ empty' = {}
  /\ room' = Reconciled(room)
  /\ UNCHANGED <<unsent, todo, view>>

\* Members that did not come back and sessions whose transport has failed go.
TickExpire(expired) ==
  /\ phase = "expire" /\ phase' = "notify"
  /\ expired \subseteq room.suspended \cup room.pub \cup room.sub
  /\ RemoveSession(expired)
  /\ UNCHANGED <<unsent, todo, empty>>

\* NotifyTrackChanges: the list goes to connected members that are not fresh;
\* sent are those whose queue accepts it.
NotifyTrackChanges(sent) ==
  /\ phase = "notify" /\ phase' = "idle"
  /\ sent \subseteq Connected \ room.fresh
  /\ room' = [room EXCEPT !.fresh = @ \cup sent]
  /\ view' = [c \in Client |-> IF c \in sent THEN room.own ELSE view[c]]
  /\ UNCHANGED <<unsent, todo, empty>>

-----------------------------------------------------------------------------
(***************************************************************************)
(* Other threads at the registry.                                          *)
(***************************************************************************)

\* MediaStreamRegistry::RemoveTrack, under its lock.
CoreRemoveTrack(t) ==
  /\ t \in room.core /\ Cardinality(unsent) < MaxUnsent
  /\ room' = RemoveCore(room, {t})
  /\ unsent' = unsent \cup {t}
  /\ UNCHANGED <<phase, todo, empty, view>>

\* MediaStreamRegistry::Remove, and Clear for all streams, under the lock.
CoreRemoveStreams(S) ==
  /\ S # {} /\ S \subseteq room.streams /\ Cardinality(unsent) < MaxUnsent
  /\ room' = [RemoveCore(room, TracksOf(S)) EXCEPT !.streams = @ \ S]
  /\ unsent' = unsent \cup S
  /\ UNCHANGED <<phase, todo, empty, view>>

\* The event is published after the lock is released.
PublishEvent(e) ==
  /\ e \in unsent /\ unsent' = unsent \ {e}
  /\ room' = [room EXCEPT !.dirty = TRUE]
  /\ UNCHANGED <<phase, todo, empty, view>>

Tick ==
  \/ TickStart
  \/ \E p \in Participant : Reconcile(p)
  \/ TickReconciled
  \/ \E S \in SUBSET Participant : TickExpire(S) \/ NotifyTrackChanges(S)

Request(p) ==
  \/ JoinRoom(p) \/ StopMedia(p) \/ ListTracks(p)
  \/ OnSignalingClosed(p) \/ ResumeRoom(p)
  \/ \E T \in SUBSET Track : \E K \in SUBSET T :
       CreatePublishSession(p, T, K) \/ CreateSubscribeSession(p, T, K)

Next ==
  \/ Tick
  \/ \E p \in Participant : Request(p)
  \/ \E S \in {{p} : p \in Participant} \cup {room.members} : Leave(S)
  \/ \E t \in Track : CoreRemoveTrack(t)
  \/ \E S \in {{p} : p \in Participant} \cup {room.streams} : CoreRemoveStreams(S)
  \/ \E e \in unsent : PublishEvent(e)

Spec == Init /\ [][Next]_vars

\* The owner keeps ticking, and a thread that has changed the registry goes on to
\* publish its event.
Fairness == WF_vars(Tick) /\ \A e \in Track \cup Participant : WF_vars(PublishEvent(e))

FairSpec == Spec /\ Fairness

-----------------------------------------------------------------------------
\* The five records of who publishes and who subscribes agree after every
\* request and in the middle of a tick: the room's indices in both directions
\* and each participant's own lists, with both ends still members.
IndicesAgree ==
  /\ room.byTrack = room.byPart /\ room.byTrack = room.sublist
  /\ room.published = room.own
  /\ \A t \in room.published : Owner[t] \in room.members
  /\ \A x \in room.byTrack : /\ x[1] \in room.members /\ x[2] \in room.published
                             /\ x[1] # Owner[x[2]]

\* Frames flow exactly where the room says: an open route for each subscription
\* whose core track lives, and none for a subscription that ended, a track that
\* was closed in the registry, or a participant that left.
RoutesMatch == room.open = {x \in room.byTrack : x[2] \in room.core}

\* A connected client whose notified revision is current, and that has seen a
\* list at all, has the list of the tracks now published, also after a
\* reconnection that lost a notification or a queue that refused one.
ViewCurrent ==
  \A c \in Client \cap Connected \cap room.fresh :
    view[c] # Unseen => view[c] = room.published

\* A track that another thread closes in the registry is unpublished in the room,
\* even when that happens while a tick is looking.
GoneTracksUnpublished ==
  \A t \in Track : t \in room.published \ room.core ~> t \notin room.published
=============================================================================
