--------------------------- MODULE RoomTracksProofs ---------------------------
(***************************************************************************)
(* Proofs about RoomTracks: the indices of a room, the routes between      *)
(* endpoints and the lists of tracks the clients were sent stay in step,   *)
(* for any number of participants, tracks and registry threads.            *)
(***************************************************************************)
EXTENDS RoomTracks, TLAPS

Fields ==
  {"members", "suspended", "pub", "sub", "tracks", "wants", "published", "byTrack",
   "byPart", "own", "sublist", "offered", "open", "streams", "core", "dirty",
   "fresh", "ever"}

\* IndicesAgree and RoutesMatch of any room record.
Agree(r) ==
  /\ r.byTrack = r.byPart /\ r.byTrack = r.sublist
  /\ r.published = r.own
  /\ \A t \in r.published : Owner[t] \in r.members
  /\ \A x \in r.byTrack : /\ x[1] \in r.members /\ x[2] \in r.published
                          /\ x[1] # Owner[x[2]]

Routed(r) == r.open = {x \in r.byTrack : x[2] \in r.core}

\* What makes them inductive: every subscription and publication belongs to a
\* media session, which therefore finds it when it goes.
Backed(r) ==
  /\ r.byTrack \subseteq Pair /\ r.byTrack \subseteq r.wants
  /\ r.published \subseteq r.tracks /\ r.tracks \subseteq TracksOf(r.pub)

Good(r) == DOMAIN r = Fields /\ Agree(r) /\ Routed(r) /\ Backed(r)

\* What the clients know, when v holds the lists they were sent: nothing outside
\* the room, nothing but an empty list before the first track, and the current
\* list when they are connected and notified.
Known(r, v) ==
  /\ \A c \in Client : c \notin r.members => v[c] = Unseen
  /\ ~r.ever => r.published = {} /\ \A c \in Client : v[c] = Unseen \/ v[c] = {}
  /\ \A c \in Client : c \in r.members /\ c \notin r.suspended /\ c \in r.fresh
       => v[c] = Unseen \/ v[c] = r.published

IInv == Good(room) /\ Known(room, view) /\ DOMAIN view = Client

-----------------------------------------------------------------------------
\* The same members; and the same tracks, or a new revision.
SameTracks(r, q) == q.published = r.published /\ q.fresh = r.fresh /\ (q.ever <=> r.ever)
NewRevision(q) == q.fresh = {} /\ q.ever
Moved(r, q) ==
  /\ q.members = r.members /\ q.suspended = r.suspended
  /\ SameTracks(r, q) \/ NewRevision(q)

\* A change of tracks that comes with a new revision leaves the clients' lists in
\* order: nobody counts as notified.
LEMMA MovedKnown ==
  ASSUME NEW r, NEW q, NEW v, Known(r, v), Moved(r, q)
  PROVE  Known(q, v)
<1>1. CASE SameTracks(r, q)
  BY <1>1 DEF Known, Moved, SameTracks
<1>2. CASE NewRevision(q)
  BY <1>2 DEF Known, Moved, NewRevision
<1> QED BY <1>1, <1>2 DEF Moved

\* A media session that goes takes its subscriptions, publications and routes
\* along, and everybody else's to its tracks.
LEMMA RemoveMediaGood ==
  ASSUME NEW r, Good(r), NEW S
  PROVE  Good(RemoveMediaSession(r, S)) /\ Moved(r, RemoveMediaSession(r, S))
<1> DEFINE q == RemoveMediaSession(r, S)
           had == S \cap (r.pub \cup r.sub)
           bound == had \cap r.members
           gone == r.published \cap r.tracks \cap TracksOf(bound)
           ended == (r.byTrack \cap PairsOn(gone)) \cup (r.wants \cap PairsOf(bound))
<1>0. DOMAIN r = Fields
  BY DEF Good
<1>1. DOMAIN q = Fields
  BY <1>0 DEF RemoveMediaSession, Fields
<1>2. q.members = r.members /\ q.suspended = r.suspended
  BY <1>0 DEF RemoveMediaSession, Fields
<1>3. q.published = r.published \ gone /\ q.own = r.own \ gone
  BY <1>0 DEF RemoveMediaSession, Fields
<1>4. q.byTrack = r.byTrack \ ended
  BY <1>0 DEF RemoveMediaSession, Fields
<1>5. q.byPart = r.byPart \ ended
  BY <1>0 DEF RemoveMediaSession, Fields
<1>6. q.sublist = r.sublist \ ended
  BY <1>0 DEF RemoveMediaSession, Fields
<1>7. q.open = r.open \ (ended \cup RoutesOf(had))
  BY <1>0 DEF RemoveMediaSession, Fields
<1>8. q.core = r.core \ TracksOf(had \cap r.streams)
  BY <1>0 DEF RemoveMediaSession, Fields
<1>9. q.tracks = r.tracks \ TracksOf(had)
  BY <1>0 DEF RemoveMediaSession, Fields
<1>10. q.wants = r.wants \ PairsOf(had) /\ q.pub = r.pub \ had
  BY <1>0 DEF RemoveMediaSession, Fields
<1>11. q.fresh = FreshAfter(r.fresh, gone)
  BY <1>0 DEF RemoveMediaSession, Fields
<1>12. q.ever <=> r.ever \/ gone # {}
  BY <1>0 DEF RemoveMediaSession, Fields
<1> HIDE DEF q
<1>13. \A x \in r.byTrack : x[1] \in had => x \in ended
  BY DEF Good, Agree, Backed, PairsOf
<1>14. \A t \in r.published : Owner[t] \in had => t \in gone
  BY DEF Good, Agree, Backed, TracksOf
<1>15. \A x \in r.byTrack : x[2] \in gone => x \in ended
  BY DEF Good, Backed, PairsOn
<1>16. \A x \in r.byTrack : Owner[x[2]] \in had => x \in ended
  BY <1>14, <1>15 DEF Good, Agree
<1> HIDE DEF ended, gone, bound, had
<1>17. Agree(q)
  BY <1>2, <1>3, <1>4, <1>5, <1>6, <1>15 DEF Good, Agree
<1>18. Routed(q)
  <2>1. \A x \in r.byTrack : x \in RoutesOf(had) => x \in ended
    BY <1>13, <1>16 DEF RoutesOf, PairsOf, PairsOn, TracksOf
  <2>2. \A x \in r.byTrack \ ended : x[2] \notin TracksOf(had \cap r.streams)
    BY <1>16 DEF TracksOf
  <2> QED BY <1>4, <1>7, <1>8, <2>1, <2>2 DEF Good, Routed
<1>19. Backed(q)
  <2>1. \A x \in r.byTrack \ ended : x \notin PairsOf(had)
    BY <1>13 DEF PairsOf
  <2>2. \A t \in r.published \ gone : t \notin TracksOf(had)
    BY <1>14 DEF TracksOf
  <2>3. r.tracks \ TracksOf(had) \subseteq TracksOf(r.pub \ had)
    BY DEF Good, Backed, TracksOf
  <2> QED BY <1>3, <1>4, <1>9, <1>10, <2>1, <2>2, <2>3 DEF Good, Backed
<1>20. Moved(r, q)
  BY <1>2, <1>3, <1>11, <1>12 DEF Moved, SameTracks, NewRevision, FreshAfter
<1> QED BY <1>1, <1>17, <1>18, <1>19, <1>20 DEF Good, q

\* A leaver takes its subscriptions and publications along, and everybody else's
\* subscriptions to its tracks.
LEMMA LeaveGood ==
  ASSUME NEW r, Good(r), NEW S
  PROVE  Good(LeaveRoom(r, S))
<1> DEFINE q == LeaveRoom(r, S)
           out == S \cap r.members
           gone == r.published \cap TracksOf(out)
           ended == Ended(r, out, gone)
<1>0. DOMAIN r = Fields
  BY DEF Good
<1>1. DOMAIN q = Fields
  BY <1>0 DEF LeaveRoom, Fields
<1>2. q.members = r.members \ out
  BY <1>0 DEF LeaveRoom, Fields
<1>3. q.published = r.published \ gone /\ q.own = r.own \ TracksOf(out)
  BY <1>0 DEF LeaveRoom, Fields
<1>4. q.byTrack = r.byTrack \ (ended \cup PairsOn(gone))
  BY <1>0 DEF LeaveRoom, Fields
<1>5. q.byPart = r.byPart \ (ended \cup PairsOn(gone))
  BY <1>0 DEF LeaveRoom, Fields
<1>6. q.sublist = r.sublist \ (ended \cup PairsOf(out))
  BY <1>0 DEF LeaveRoom, Fields
<1>7. q.open = r.open \ (ended \cup RoutesOf(out)) /\ q.core = r.core
  BY <1>0 DEF LeaveRoom, Fields
<1>8. q.tracks = r.tracks /\ q.wants = r.wants /\ q.pub = r.pub
  BY <1>0 DEF LeaveRoom, Fields
<1> HIDE DEF q
<1>9. \A x \in r.byTrack : x[2] \in gone => x \in ended
  BY DEF Good, Backed, Ended, PairsOn
<1>10. \A x \in r.byTrack : x[1] \in out => x \in ended
  BY DEF Good, Agree, Backed, Ended, PairsOf
<1>11. \A x \in r.byTrack : x \in PairsOn(gone) \/ x \in RoutesOf(out) => x \in ended
  <2>1. \A t \in r.published : t \in TracksOf(out) => t \in gone
    OBVIOUS
  <2>2. \A x \in r.byTrack : x \in PairsOn(TracksOf(out)) => x[2] \in gone
    BY <2>1 DEF Good, Agree, PairsOn
  <2> QED BY <1>9, <1>10, <2>2 DEF RoutesOf, PairsOf, PairsOn
<1>12. \A x : x \in PairsOf(out) => x \in RoutesOf(out)
  BY DEF RoutesOf
<1>13. \A t \in r.published \ gone : Owner[t] \notin out
  BY DEF Good, Backed, TracksOf
<1> HIDE DEF ended, gone, out
<1>14. q.byTrack = r.byTrack \ ended /\ q.byTrack = q.byPart /\ q.byTrack = q.sublist
  BY <1>4, <1>5, <1>6, <1>11, <1>12 DEF Good, Agree
<1>15. q.published = q.own
  BY <1>3 DEF Good, Agree, gone
<1>16. Agree(q)
  BY <1>2, <1>3, <1>9, <1>10, <1>13, <1>14, <1>15 DEF Good, Agree
<1>17. Routed(q)
  BY <1>7, <1>11, <1>14 DEF Good, Routed
<1>18. Backed(q)
  BY <1>3, <1>8, <1>14 DEF Good, Backed
<1> QED BY <1>1, <1>16, <1>17, <1>18 DEF Good, q

\* Leaving tells the members that stay when a track goes, and clears the list of
\* those that leave.
LEMMA LeaveKnown ==
  ASSUME NEW r, Good(r), NEW S, NEW v, Known(r, v),
         NEW w, \A c \in Client : w[c] = IF c \in S THEN Unseen ELSE v[c]
  PROVE  Known(LeaveRoom(r, S), w)
<1> DEFINE q == LeaveRoom(r, S)
           out == S \cap r.members
           gone == r.published \cap TracksOf(out)
<1>0. DOMAIN r = Fields
  BY DEF Good
<1>1. q.members = r.members \ out /\ q.suspended = r.suspended \ out
  BY <1>0 DEF LeaveRoom, Fields
<1>2. q.published = r.published \ gone
  BY <1>0 DEF LeaveRoom, Fields
<1>3. q.fresh = FreshAfter(r.fresh, gone) \ out
  BY <1>0 DEF LeaveRoom, Fields
<1>4. q.ever <=> (r.ever \/ gone # {}) /\ r.members # out
  BY <1>0 DEF LeaveRoom, Fields
<1> HIDE DEF q
<1>5. \A c \in Client : c \notin q.members => w[c] = Unseen
  BY <1>1 DEF Known
<1>6. ~q.ever => q.published = {} /\ \A c \in Client : w[c] = Unseen \/ w[c] = {}
  <2>1. CASE r.members = out
    <3>1. r.published \subseteq gone
      BY <2>1 DEF Good, Agree, Backed, TracksOf
    <3>2. q.members = {}
      BY <1>1, <2>1
    <3> QED BY <1>2, <1>5, <3>1, <3>2
  <2>2. CASE r.members # out
    BY <1>2, <1>4, <2>2 DEF Known
  <2> QED BY <2>1, <2>2
<1>7. \A c \in Client : c \in q.members /\ c \notin q.suspended /\ c \in q.fresh
        => w[c] = Unseen \/ w[c] = q.published
  <2>1. CASE gone = {}
    BY SMTT(30), <1>1, <1>2, <1>3, <2>1 DEF Known, FreshAfter
  <2>2. CASE gone # {}
    BY <1>3, <2>2 DEF FreshAfter
  <2> QED BY <2>1, <2>2
<1> QED BY <1>5, <1>6, <1>7 DEF Known, q

\* Unpublished tracks leave every index, and every route to them closes.
LEMMA UnpublishGood ==
  ASSUME NEW r, Good(r), NEW T
  PROVE  LET q == [Unpublish(r, T) EXCEPT !.tracks = @ \ T]
         IN  Good(q) /\ Moved(r, q)
<1> DEFINE q == [Unpublish(r, T) EXCEPT !.tracks = @ \ T]
           ended == r.byTrack \cap PairsOn(T)
<1>0. DOMAIN r = Fields
  BY DEF Good
<1>1. DOMAIN q = Fields
  BY <1>0 DEF Unpublish, Fields
<1>2. q.members = r.members /\ q.suspended = r.suspended
  BY <1>0 DEF Unpublish, Fields
<1>3. q.published = r.published \ T /\ q.own = r.own \ T
  BY <1>0 DEF Unpublish, Fields
<1>4. q.byTrack = r.byTrack \ ended /\ q.byPart = r.byPart \ ended
  BY <1>0 DEF Unpublish, Fields
<1>5. q.sublist = r.sublist \ ended
  BY <1>0 DEF Unpublish, Fields
<1>6. q.open = r.open \ (ended \cup PairsOn(T \cap r.offered)) /\ q.core = r.core
  BY <1>0 DEF Unpublish, Fields
<1>7. q.tracks = r.tracks \ T /\ q.wants = r.wants /\ q.pub = r.pub
  BY <1>0 DEF Unpublish, Fields
<1>8. q.fresh = FreshAfter(r.fresh, T)
  BY <1>0 DEF Unpublish, Fields
<1>9. q.ever <=> r.ever \/ T # {}
  BY <1>0 DEF Unpublish, Fields
<1> HIDE DEF q
<1>10. \A x \in r.byTrack : x[2] \in T => x \in ended
  BY DEF Good, Backed, PairsOn
<1>11. \A x \in r.byTrack : x \in PairsOn(T \cap r.offered) => x \in ended
  BY DEF PairsOn
<1> HIDE DEF ended
<1>12. Agree(q)
  BY <1>2, <1>3, <1>4, <1>5, <1>10 DEF Good, Agree
<1>13. Routed(q)
  BY <1>4, <1>6, <1>11 DEF Good, Routed
<1>14. Backed(q)
  BY <1>3, <1>4, <1>7 DEF Good, Backed
<1>15. Moved(r, q)
  BY <1>2, <1>3, <1>8, <1>9 DEF Moved, SameTracks, NewRevision, FreshAfter
<1> QED BY <1>1, <1>12, <1>13, <1>14, <1>15 DEF Good, q

\* Removing the sessions and memberships of S.
LEMMA RemoveSessionStep ==
  ASSUME IInv, NEW S, RemoveSession(S)
  PROVE  IInv'
<1>1. PICK left \in {LeaveRoom(room, S)} : room' = RemoveMediaSession(left, S)
  BY DEF RemoveSession
<1>2. Good(left) /\ Known(left, view')
  <2>1. \A c \in Client : view'[c] = IF c \in S THEN Unseen ELSE view[c]
    BY DEF RemoveSession
  <2> QED BY <1>1, <2>1, LeaveGood, LeaveKnown DEF IInv
<1>3. Good(room') /\ Moved(left, room')
  BY <1>1, <1>2, RemoveMediaGood
<1>4. Known(room', view')
  BY <1>2, <1>3, MovedKnown
<1>5. DOMAIN view' = Client
  BY DEF RemoveSession
<1> QED BY <1>3, <1>4, <1>5 DEF IInv

\* Steps that only change the owner's room record, keeping the members and either
\* the tracks or nobody notified.
LEMMA MovedStep ==
  ASSUME IInv, Good(room'), Moved(room, room'), view' = view
  PROVE  IInv'
<1>1. Known(room', view')
  BY MovedKnown DEF IInv
<1> QED BY <1>1 DEF IInv

\* A participant that joins brings no track; it counts as notified, and has seen no
\* list yet.
LEMMA JoinStep ==
  ASSUME IInv, NEW p, JoinRoom(p)
  PROVE  IInv'
<1>0. DOMAIN room = Fields /\ p \notin room.members
  BY DEF IInv, Good, JoinRoom
<1> DEFINE r == room
           q == [r EXCEPT !.members = @ \cup {p}, !.fresh = @ \cup {p}]
<1>1. room' = q /\ view' = view
  BY DEF JoinRoom
<1>2. /\ DOMAIN q = Fields /\ q.members = r.members \cup {p} /\ q.fresh = r.fresh \cup {p}
      /\ q.suspended = r.suspended /\ q.published = r.published /\ q.own = r.own
      /\ q.byTrack = r.byTrack /\ q.byPart = r.byPart /\ q.sublist = r.sublist
      /\ q.open = r.open /\ q.core = r.core /\ q.wants = r.wants /\ q.tracks = r.tracks
      /\ q.pub = r.pub /\ (q.ever <=> r.ever)
  BY <1>0 DEF Fields
<1> HIDE DEF q
<1>3. Good(q)
  BY <1>2 DEF IInv, Good, Agree, Routed, Backed
<1>4. Known(q, view)
  BY <1>0, <1>2 DEF IInv, Known
<1> QED BY <1>1, <1>3, <1>4 DEF IInv

\* The publisher had no session, so its new tracks have no subscribers yet, and a
\* track that is added comes with a new revision.
LEMMA PublishStep ==
  ASSUME IInv, NEW p, NEW T, NEW K, CreatePublishSession(p, T, K)
  PROVE  IInv'
<1> DEFINE r == room
           q == [r EXCEPT !.pub = @ \cup {p}, !.streams = @ \cup {p},
                          !.core = @ \cup T, !.offered = @ \cup T,
                          !.tracks = @ \cup K, !.published = @ \cup K, !.own = @ \cup K,
                          !.fresh = FreshAfter(@, K), !.ever = @ \/ K # {}]
<1>0. DOMAIN r = Fields
  BY DEF IInv, Good
<1>1. /\ p \in r.members /\ p \notin r.pub /\ T \subseteq TracksOf({p}) /\ K \subseteq T
      /\ view' = view
  BY DEF CreatePublishSession, Connected
<1>2. DOMAIN q = Fields
  BY <1>0 DEF Fields
<1>3. q.members = r.members /\ q.suspended = r.suspended
  BY <1>0 DEF Fields
<1>4. q.published = r.published \cup K /\ q.own = r.own \cup K
  BY <1>0 DEF Fields
<1>5. q.byTrack = r.byTrack /\ q.byPart = r.byPart /\ q.sublist = r.sublist
  BY <1>0 DEF Fields
<1>6. q.open = r.open /\ q.core = r.core \cup T
  BY <1>0 DEF Fields
<1>7. q.tracks = r.tracks \cup K /\ q.pub = r.pub \cup {p} /\ q.wants = r.wants
  BY <1>0 DEF Fields
<1>8. q.fresh = FreshAfter(r.fresh, K)
  BY <1>0 DEF Fields
<1>9. q.ever <=> r.ever \/ K # {}
  BY <1>0 DEF Fields
<1>10. room' = q \/ room' = RemoveMediaSession(q, {p})
  BY DEF CreatePublishSession
<1> HIDE DEF q
<1>11. \A x \in r.byTrack : x[2] \notin T
  BY <1>1 DEF IInv, Good, Agree, Backed, TracksOf
<1>12. Agree(q)
  BY <1>1, <1>3, <1>4, <1>5 DEF IInv, Good, Agree, TracksOf
<1>13. Routed(q)
  BY <1>5, <1>6, <1>11 DEF IInv, Good, Routed
<1>14. Backed(q)
  BY <1>1, <1>4, <1>5, <1>7 DEF IInv, Good, Backed, TracksOf
<1>15. Moved(r, q)
  BY <1>3, <1>4, <1>8, <1>9 DEF Moved, SameTracks, NewRevision, FreshAfter
<1>16. Good(q)
  BY <1>2, <1>12, <1>13, <1>14 DEF Good
<1>17. Known(q, view)
  BY <1>15, MovedKnown DEF IInv
<1>18. Good(RemoveMediaSession(q, {p})) /\ Known(RemoveMediaSession(q, {p}), view)
  BY <1>16, <1>17, RemoveMediaGood, MovedKnown
<1> QED BY <1>1, <1>10, <1>16, <1>17, <1>18 DEF IInv

\* A subscription enters the three indices and the wants of the subscriber's session
\* together, and opens a route for a track the core still has.
LEMMA SubscribeStep ==
  ASSUME IInv, NEW p \in Participant, NEW T, NEW K, CreateSubscribeSession(p, T, K)
  PROVE  IInv'
<1> DEFINE r == room
           made == {p} \X K
           q == [r EXCEPT !.sub = @ \cup {p}, !.wants = @ \cup ({p} \X T),
                          !.byTrack = @ \cup made, !.byPart = @ \cup made,
                          !.open = @ \cup made, !.sublist = @ \cup made]
<1>0. DOMAIN r = Fields
  BY DEF IInv, Good
<1>1. p \in r.members /\ view' = view
  BY DEF CreateSubscribeSession, Connected
<1>2. /\ K \subseteq T /\ K \subseteq r.published /\ K \subseteq r.core
      /\ K \subseteq Track /\ \A t \in K : Owner[t] # p
  BY DEF CreateSubscribeSession, CanRoute, Offered, TracksOf
<1>3. DOMAIN q = Fields
  BY <1>0 DEF Fields
<1>4. q.members = r.members /\ q.suspended = r.suspended /\ q.fresh = r.fresh
  BY <1>0 DEF Fields
<1>5. q.published = r.published /\ q.own = r.own /\ q.tracks = r.tracks /\ q.pub = r.pub
  BY <1>0 DEF Fields
<1>6. q.byTrack = r.byTrack \cup made /\ q.byPart = r.byPart \cup made
  BY <1>0 DEF Fields
<1>7. q.sublist = r.sublist \cup made /\ q.open = r.open \cup made /\ q.core = r.core
  BY <1>0 DEF Fields
<1>8. q.wants = r.wants \cup ({p} \X T) /\ (q.ever <=> r.ever)
  BY <1>0 DEF Fields
<1>9. room' = q \/ room' = RemoveMediaSession(q, {p})
  BY DEF CreateSubscribeSession
<1> HIDE DEF q
<1>10. \A x \in made : /\ x[1] = p /\ x[2] \in K /\ x \in Pair /\ x \in {p} \X T
  BY <1>2 DEF Pair
<1> HIDE DEF made
<1>11. Agree(q)
  BY <1>1, <1>2, <1>4, <1>5, <1>6, <1>7, <1>10 DEF IInv, Good, Agree
<1>12. Routed(q)
  BY <1>2, <1>6, <1>7, <1>10 DEF IInv, Good, Routed
<1>13. Backed(q)
  BY <1>5, <1>6, <1>8, <1>10 DEF IInv, Good, Backed
<1>14. Good(q)
  BY <1>3, <1>11, <1>12, <1>13 DEF Good
<1>15. Moved(r, q)
  BY <1>4, <1>5, <1>8 DEF Moved, SameTracks
<1>16. Known(q, view)
  BY <1>15, MovedKnown DEF IInv
<1>17. Good(RemoveMediaSession(q, {p})) /\ Known(RemoveMediaSession(q, {p}), view)
  BY <1>14, <1>16, RemoveMediaGood, MovedKnown
<1> QED BY <1>1, <1>9, <1>14, <1>16, <1>17 DEF IInv

\* A client that asks for the list gets the current one and counts as notified.
LEMMA ListStep ==
  ASSUME IInv, NEW p, ListTracks(p)
  PROVE  IInv'
<1>1. room' = room /\ view' = [view EXCEPT ![p] = room.own] /\ p \in room.members
  BY DEF ListTracks, Connected
<1>2. \A c \in Client : view'[c] = view[c] \/ (c = p /\ view'[c] = room.published)
  BY <1>1 DEF IInv, Good, Agree
<1>3. Known(room, view')
  BY <1>1, <1>2 DEF IInv, Known
<1> QED BY <1>1, <1>3 DEF IInv

\* A participant whose signalling closes is suspended: it is no longer among the
\* connected, of whom the list is promised.
LEMMA ClosedStep ==
  ASSUME IInv, NEW p, OnSignalingClosed(p)
  PROVE  IInv'
<1> DEFINE r == room
           q == [r EXCEPT !.suspended = @ \cup {p}]
<1>0. DOMAIN r = Fields
  BY DEF IInv, Good
<1>1. room' = q /\ p \in r.members
  BY DEF OnSignalingClosed, Connected
<1>2. view' = view \/ (r.ever /\ view' = [view EXCEPT ![p] = Lost])
  BY DEF OnSignalingClosed
<1>3. /\ DOMAIN q = Fields /\ q.members = r.members /\ q.fresh = r.fresh
      /\ q.suspended = r.suspended \cup {p} /\ q.published = r.published /\ q.own = r.own
      /\ q.byTrack = r.byTrack /\ q.byPart = r.byPart /\ q.sublist = r.sublist
      /\ q.open = r.open /\ q.core = r.core /\ q.wants = r.wants /\ q.tracks = r.tracks
      /\ q.pub = r.pub /\ (q.ever <=> r.ever)
  BY <1>0 DEF Fields
<1> HIDE DEF q
<1>4. Good(q)
  BY <1>3 DEF IInv, Good, Agree, Routed, Backed
<1>5. \A c \in Client : view'[c] = view[c] \/ (c = p /\ r.ever)
  BY <1>2 DEF IInv
<1>6. Known(q, view')
  BY <1>1, <1>3, <1>5 DEF IInv, Known
<1> QED BY <1>1, <1>2, <1>4, <1>6 DEF IInv

\* A participant that resumes is connected again, and is notified afresh once the
\* room has had a track.
LEMMA ResumedStep ==
  ASSUME IInv, NEW p, room' = Resumed(room, p), view' = view
  PROVE  IInv'
<1> DEFINE r == room
           q == Resumed(r, p)
<1>0. DOMAIN r = Fields
  BY DEF IInv, Good
<1>1. /\ DOMAIN q = Fields /\ q.members = r.members
      /\ q.suspended = r.suspended \ {p} /\ q.published = r.published /\ q.own = r.own
      /\ q.byTrack = r.byTrack /\ q.byPart = r.byPart /\ q.sublist = r.sublist
      /\ q.open = r.open /\ q.core = r.core /\ q.wants = r.wants /\ q.tracks = r.tracks
      /\ q.pub = r.pub /\ (q.ever <=> r.ever)
  BY <1>0 DEF Resumed, Fields
<1>2. r.ever => q.fresh = r.fresh \ {p}
  BY <1>0 DEF Resumed, Fields
<1>3. ~r.ever => q.fresh = r.fresh \cup {p}
  BY <1>0 DEF Resumed, Fields
<1> HIDE DEF q
<1>4. Good(q)
  BY <1>1 DEF IInv, Good, Agree, Routed, Backed
<1>5. Known(q, view)
  BY <1>1, <1>2, <1>3 DEF IInv, Known
<1> QED BY <1>4, <1>5 DEF IInv, q

\* The reconciliation of one participant retires the publications whose track the
\* core has lost.
LEMMA ReconcileStep ==
  ASSUME IInv, NEW p, Reconcile(p)
  PROVE  IInv'
<1> DEFINE gone == ((room.tracks \cap TracksOf({p})) \cap room.own) \ room.core
<1>1. /\ view' = view
      /\ room' = room \/ room' = [Unpublish(room, gone) EXCEPT !.tracks = @ \ gone]
  BY DEF Reconcile
<1>2. CASE room' = room
  BY <1>1, <1>2 DEF IInv
<1>3. CASE room' = [Unpublish(room, gone) EXCEPT !.tracks = @ \ gone]
  <2> HIDE DEF gone
  <2>1. Good(room') /\ Moved(room, room')
    BY <1>3, UnpublishGood DEF IInv
  <2> QED BY <1>1, <2>1, MovedStep
<1> QED BY <1>1, <1>2, <1>3

\* The clients a round of notifications reaches hold the list the room has now.
LEMMA NotifyStep ==
  ASSUME IInv, NEW sent, NotifyTrackChanges(sent)
  PROVE  IInv'
<1> DEFINE r == room
           q == [r EXCEPT !.fresh = @ \cup sent]
<1>0. DOMAIN r = Fields
  BY DEF IInv, Good
<1>1. /\ room' = q /\ sent \subseteq r.members /\ DOMAIN view' = Client
      /\ \A c \in Client : view'[c] = IF c \in sent THEN r.own ELSE view[c]
  BY DEF NotifyTrackChanges, Connected
<1>2. /\ DOMAIN q = Fields /\ q.members = r.members /\ q.fresh = r.fresh \cup sent
      /\ q.suspended = r.suspended /\ q.published = r.published /\ q.own = r.own
      /\ q.byTrack = r.byTrack /\ q.byPart = r.byPart /\ q.sublist = r.sublist
      /\ q.open = r.open /\ q.core = r.core /\ q.wants = r.wants /\ q.tracks = r.tracks
      /\ q.pub = r.pub /\ (q.ever <=> r.ever)
  BY <1>0 DEF Fields
<1> HIDE DEF q
<1>3. Good(q)
  BY <1>2 DEF IInv, Good, Agree, Routed, Backed
<1>4. Known(q, view')
  <2>1. r.own = r.published
    BY DEF IInv, Good, Agree
  <2> QED BY <1>1, <1>2, <2>1 DEF IInv, Known
<1> QED BY <1>1, <1>3, <1>4 DEF IInv

\* A registry change closes the track together with the routes from it.
LEMMA CoreStep ==
  ASSUME IInv, NEW T, view' = view,
         \/ room' = RemoveCore(room, T)
         \/ \E S : room' = [RemoveCore(room, T) EXCEPT !.streams = @ \ S]
  PROVE  IInv'
<1> DEFINE r == room
           q == room'
<1>0. DOMAIN r = Fields
  BY DEF IInv, Good
<1>1. /\ DOMAIN q = Fields /\ q.members = r.members /\ q.fresh = r.fresh
      /\ q.suspended = r.suspended /\ q.published = r.published /\ q.own = r.own
      /\ q.byTrack = r.byTrack /\ q.byPart = r.byPart /\ q.sublist = r.sublist
      /\ q.wants = r.wants /\ q.tracks = r.tracks /\ q.pub = r.pub /\ (q.ever <=> r.ever)
      /\ q.core = r.core \ T /\ q.open = r.open \ PairsOn(T)
  <2>1. CASE room' = RemoveCore(room, T)
    BY <1>0, <2>1 DEF RemoveCore, Fields
  <2>2. CASE \E S : room' = [RemoveCore(room, T) EXCEPT !.streams = @ \ S]
    <3>1. PICK S : room' = [RemoveCore(room, T) EXCEPT !.streams = @ \ S]
      BY <2>2
    <3> QED BY <1>0, <3>1 DEF RemoveCore, Fields
  <2> QED BY <2>1, <2>2
<1> HIDE DEF q
<1>2. \A x \in r.byTrack : x \in PairsOn(T) <=> x[2] \in T
  BY DEF IInv, Good, Backed, PairsOn
<1>3. Good(q)
  BY <1>1, <1>2 DEF IInv, Good, Agree, Routed, Backed
<1>4. Moved(r, q)
  BY <1>1 DEF Moved, SameTracks
<1> QED BY <1>3, <1>4, MovedStep DEF q

\* Setting or taking the dirty flag disturbs no index and no list.
LEMMA DirtyStep ==
  ASSUME IInv, NEW b, room' = [room EXCEPT !.dirty = b], view' = view
  PROVE  IInv'
<1> DEFINE r == room
           q == room'
<1>0. DOMAIN r = Fields
  BY DEF IInv, Good
<1>1. /\ DOMAIN q = Fields /\ q.members = r.members /\ q.fresh = r.fresh
      /\ q.suspended = r.suspended /\ q.published = r.published /\ q.own = r.own
      /\ q.byTrack = r.byTrack /\ q.byPart = r.byPart /\ q.sublist = r.sublist
      /\ q.open = r.open /\ q.core = r.core /\ q.wants = r.wants /\ q.tracks = r.tracks
      /\ q.pub = r.pub /\ (q.ever <=> r.ever)
  BY <1>0 DEF Fields
<1> HIDE DEF q
<1>2. Good(q) /\ Moved(r, q)
  BY <1>1 DEF IInv, Good, Agree, Routed, Backed, Moved, SameTracks
<1> QED BY <1>2, MovedStep DEF q

\* The empty room.
LEMMA InitInv ==
  ASSUME Init
  PROVE  IInv
<1> DEFINE q == InitRoom
<1>1. /\ DOMAIN q = Fields /\ q.members = {} /\ q.fresh = {} /\ q.suspended = {}
      /\ q.published = {} /\ q.own = {} /\ q.byTrack = {} /\ q.byPart = {}
      /\ q.sublist = {} /\ q.open = {} /\ q.tracks = {}
  BY DEF InitRoom, Fields
<1>2. room = q /\ DOMAIN view = Client /\ \A c \in Client : view[c] = Unseen
  BY DEF Init
<1> HIDE DEF q
<1>3. Good(q)
  BY <1>1 DEF Good, Agree, Routed, Backed
<1>4. Known(q, view)
  BY <1>1, <1>2 DEF Known
<1> QED BY <1>2, <1>3, <1>4 DEF IInv

\* Every step of the tick, of a request, of the registry threads and of the event
\* loop preserves the invariant.
LEMMA NextInv ==
  ASSUME IInv, [Next]_vars
  PROVE  IInv'
<1>1. CASE UNCHANGED vars
  BY <1>1 DEF IInv, vars
<1>2. CASE TickStart
  BY <1>2, DirtyStep DEF TickStart
<1>3. ASSUME NEW p \in Participant, Reconcile(p) PROVE IInv'
  BY <1>3, ReconcileStep
<1>4. CASE TickReconciled
  <2>1. room' = RemoveMediaSession(room, empty) /\ view' = view
    BY <1>4 DEF TickReconciled, Reconciled
  <2>2. Good(room') /\ Moved(room, room')
    BY <2>1, RemoveMediaGood DEF IInv
  <2> QED BY <2>1, <2>2, MovedStep
<1>5. ASSUME NEW S, TickExpire(S) PROVE IInv'
  BY <1>5, RemoveSessionStep DEF TickExpire
<1>6. ASSUME NEW S, NotifyTrackChanges(S) PROVE IInv'
  BY <1>6, NotifyStep
<1>7. ASSUME NEW p \in Participant, Request(p) PROVE IInv'
  <2>1. CASE JoinRoom(p)
    BY <2>1, JoinStep
  <2>2. CASE StopMedia(p)
    <3>1. room' = RemoveMediaSession(room, {p}) /\ view' = view
      BY <2>2 DEF StopMedia
    <3>2. Good(room') /\ Moved(room, room')
      BY <3>1, RemoveMediaGood DEF IInv
    <3> QED BY <3>1, <3>2, MovedStep
  <2>3. CASE ListTracks(p)
    BY <2>3, ListStep
  <2>4. CASE OnSignalingClosed(p)
    BY <2>4, ClosedStep
  <2>5. CASE ResumeRoom(p)
    <3>1. CASE RemoveSession({p})
      BY <3>1, RemoveSessionStep
    <3>2. CASE room' = Resumed(room, p) /\ view' = view
      BY <3>2, ResumedStep
    <3> QED BY <2>5, <3>1, <3>2 DEF ResumeRoom
  <2>6. ASSUME NEW T, NEW K, CreatePublishSession(p, T, K) PROVE IInv'
    BY <2>6, PublishStep
  <2>7. ASSUME NEW T, NEW K, CreateSubscribeSession(p, T, K) PROVE IInv'
    BY <2>7, SubscribeStep
  <2> QED BY <1>7, <2>1, <2>2, <2>3, <2>4, <2>5, <2>6, <2>7 DEF Request
<1>8. ASSUME NEW S, Leave(S) PROVE IInv'
  BY <1>8, RemoveSessionStep DEF Leave
<1>9. ASSUME NEW t \in Track, CoreRemoveTrack(t) PROVE IInv'
  BY <1>9, CoreStep DEF CoreRemoveTrack
<1>10. ASSUME NEW S, CoreRemoveStreams(S) PROVE IInv'
  BY <1>10, CoreStep DEF CoreRemoveStreams
<1>11. ASSUME NEW e, PublishEvent(e) PROVE IInv'
  BY <1>11, DirtyStep DEF PublishEvent
<1> QED BY <1>1, <1>2, <1>3, <1>4, <1>5, <1>6, <1>7, <1>8, <1>9, <1>10, <1>11
       DEF Next, Tick

-----------------------------------------------------------------------------
\* The inductive invariant holds in every reachable state.
THEOREM Invariant == Spec => []IInv
<1>1. Init => IInv
  BY InitInv
<1>2. IInv /\ [Next]_vars => IInv'
  BY NextInv
<1> QED BY <1>1, <1>2, PTL DEF Spec

\* The three subscription indices of Room name the same pairs, the published tracks
\* are the ones their owners list, and neither outlives the participant, the track or
\* the media session it belongs to, however leaving, expiring, reconciling and the
\* registry's threads interleave.
THEOREM IndicesStayAgreed == Spec => []IndicesAgree
<1>1. IInv => IndicesAgree
  BY DEF IInv, Good, Agree, IndicesAgree
<1> QED BY <1>1, Invariant, PTL

\* Media is routed for exactly the subscriptions whose track the core holds.
THEOREM RoutesStayMatched == Spec => []RoutesMatch
<1>1. IInv => RoutesMatch
  BY DEF IInv, Good, Routed, RoutesMatch
<1> QED BY <1>1, Invariant, PTL

\* A connected client that counts as notified and was sent a list was sent the
\* current one.
THEOREM ViewStaysCurrent == Spec => []ViewCurrent
<1>1. IInv => ViewCurrent
  BY DEF IInv, Good, Agree, Known, ViewCurrent, Connected
<1> QED BY <1>1, Invariant, PTL
=============================================================================
