------------------------------ MODULE TurnServer ------------------------------
(***************************************************************************)
(* The TURN relay: client sessions with a response cache and at most one   *)
(* allocation, whose permissions and channels run out on their own.  All   *)
(* of it runs on one scheduler thread; datagrams of clients arrive late,   *)
(* twice or out of order.  A relay socket is closed together with its      *)
(* allocation, so what OnRelay reads came in on the socket of an           *)
(* allocation that was there before the handler pruned.                    *)
(*                                                                         *)
(* A request is one STUN transaction, the same bytes in every copy.  Times *)
(* are kept as what is left of them.  Parsing, address families, which     *)
(* peers the configuration allows, the limit on 401 responses, Binding,    *)
(* which keeps no state, and Start and Stop are left out.                  *)
(***************************************************************************)
EXTENDS Naturals, Sequences, FiniteSets, FiniteSetsExt, Functions

CONSTANTS
  Request,       \* transactions
  Client, User, Method, Peer, Channel, \* of a request, as functions
  Ip,            \* Ip[p]: a peer's address without its port
  AllocLife, PermLife, ChanLife, CacheLife, IdleLife,
  MaxCached, MaxSessions, MaxAllocations, MaxPerUser, MaxPermissions, MaxChannels,
  MaxGeneration, \* bound: allocations made
  None

Methods == {"Allocate", "Refresh", "Delete", "CreatePermission", "ChannelBind"}

ASSUME TurnAssumption ==
  /\ {AllocLife, PermLife, ChanLife, CacheLife, MaxCached, MaxSessions, MaxAllocations,
      MaxPerUser, MaxPermissions, MaxChannels} \subseteq Nat \ {0}
  /\ IdleLife \in Nat /\ IdleLife >= CacheLife
  /\ MaxGeneration \in Nat /\ None \notin Nat
  /\ Method \in [Request -> Methods]
  /\ \A r \in Request : Method[r] \in {"CreatePermission", "ChannelBind"} => Peer[r] \in DOMAIN Ip

VARIABLES
  sess,       \* sessions: by client
  generation, \* number of allocations made
  age,        \* age[r]: time since r was sent, None before
  since,      \* history: since[r], the responses of r's client put in the cache since
              \* r last changed the state, up to MaxCached; None before it did
  done,       \* history: the request that changed the state in the last step, or None
  moved       \* history: the datagram relayed by the last step, or None

vars == <<sess, generation, age, since, done, moved>>

Peers == DOMAIN Ip
Clients == {Client[r] : r \in Request}
Channels == {Channel[r] : r \in Request} \ {None}

Init ==
  /\ sess = <<>> /\ generation = 0
  /\ age = [r \in Request |-> None]
  /\ since = [r \in Request |-> None] /\ done = None /\ moved = None

-----------------------------------------------------------------------------
\* Mutant of PruneAllocation: channels are kept as long as the allocation.
PruneAllocationOnly(a) ==
  [a EXCEPT !.perms = Restrict(@, {i \in DOMAIN @ : @[i] > 0})]

\* What has run out goes: permissions and channels of a live allocation.
PruneAllocation(a) ==
  [a EXCEPT !.perms = Restrict(@, {i \in DOMAIN @ : @[i] > 0}),
            !.chans = Restrict(@, {k \in DOMAIN @ : @[k].left > 0})]

\* Responses are forgotten from the oldest on, up to the first still kept.
Kept(cache) == {i \in 1..Len(cache) : cache[i].left > 0}

Forget(cache) ==
  IF Kept(cache) = {} THEN <<>> ELSE SubSeq(cache, Min(Kept(cache)), Len(cache))

PruneSession(s) ==
  [s EXCEPT !.cache = Forget(@),
            !.alloc = IF @ = None THEN None
                      ELSE IF @.left = 0 THEN None ELSE PruneAllocation(@)]

\* Mutant of IdleOut: a session without allocation goes at once.
IdleOutAtOnce(s) == s.alloc = None

\* A session without allocation goes after a time without requests.
IdleOut(s) == s.alloc = None /\ s.idle >= IdleLife

\* Prune, at the start of every handler and on a timer.
Prune(ss) ==
  LET p == [c \in DOMAIN ss |-> PruneSession(ss[c])]
  IN  Restrict(p, {c \in DOMAIN p : ~IdleOut(p[c])})

Allocations(ss) == {c \in DOMAIN ss : ss[c].alloc # None}

\* Another account may not touch the allocation.
Owns(a, r) == a # None => a.user = User[r]

\* HandleRequest: whether it succeeds on a session s that has been pruned.
QuotaLeft(ss, r) ==
  /\ Cardinality(Allocations(ss)) < MaxAllocations
  /\ Cardinality({c \in Allocations(ss) : ss[c].alloc.user = User[r]}) < MaxPerUser

PermsWith(a, r) == [i \in DOMAIN a.perms \cup {Ip[Peer[r]]} |->
                      IF i = Ip[Peer[r]] THEN PermLife ELSE a.perms[i]]

ChansWith(a, r) == [k \in DOMAIN a.chans \cup {Channel[r]} |->
                      IF k = Channel[r] THEN [peer |-> Peer[r], left |-> ChanLife]
                      ELSE a.chans[k]]

PermissionFits(a, r) == Cardinality(DOMAIN PermsWith(a, r)) <= MaxPermissions

ChannelFits(a, r) ==
  /\ \A k \in DOMAIN a.chans : (k = Channel[r]) <=> (a.chans[k].peer = Peer[r])
  /\ Cardinality(DOMAIN ChansWith(a, r)) <= MaxChannels

\* The allocation after a request that succeeds.
Updated(a, r) ==
  CASE Method[r] = "Delete" -> None
    [] Method[r] = "Refresh" -> [a EXCEPT !.left = AllocLife]
    [] Method[r] = "CreatePermission" -> [a EXCEPT !.perms = PermsWith(a, r)]
    [] Method[r] = "ChannelBind" ->
         [a EXCEPT !.perms = PermsWith(a, r), !.chans = ChansWith(a, r)]

NewAllocation(r) ==
  [user |-> User[r], tx |-> r, gen |-> generation + 1, left |-> AllocLife,
   perms |-> <<>>, chans |-> <<>>]

\* The session's cache takes the response, and gives up its oldest.
Cached(s, r) ==
  LET all == Append(s.cache, [tx |-> r, left |-> CacheLife])
  IN  [s EXCEPT !.cache = IF Len(all) > MaxCached THEN Tail(all) ELSE all]

Put(ss, c, s) == [d \in DOMAIN ss \cup {c} |-> IF d = c THEN s ELSE ss[d]]

NewSession == [alloc |-> None, cache |-> <<>>, idle |-> 0]

InCache(s, r) == \E i \in 1..Len(s.cache) : s.cache[i].tx = r

-----------------------------------------------------------------------------
\* A client sends a request.
Send(r) ==
  /\ age[r] = None /\ age' = [age EXCEPT ![r] = 0]
  /\ done' = None /\ moved' = None /\ UNCHANGED <<sess, generation, since>>

\* A copy of r is on its way: copies arrive while the client still retransmits,
\* which it stops before the server forgets the response.
Underway(r) == age[r] # None /\ age[r] < CacheLife

\* A response to r is put in the cache behind those of its client.
Answered(r) ==
  [q \in Request |-> IF q # r /\ Client[q] = Client[r] /\ since[q] # None /\ since[q] < MaxCached
                     THEN since[q] + 1 ELSE since[q]]

\* The outcome of r on the pruned sessions ss, where s is the client's.
Outcome(ss, s, r) ==
  LET c == Client[r]
      Effect(a) == /\ sess' = Put(ss, c, Cached([s EXCEPT !.alloc = a], r))
                   /\ since' = [Answered(r) EXCEPT ![r] = 0] /\ done' = r
  IN  \/ \* an error (not authorized, malformed, not allowed now), or an Allocate granted before
         /\ sess' = Put(ss, c, Cached(s, r)) /\ since' = Answered(r)
         /\ done' = None /\ UNCHANGED generation
      \/ \* no response could be made
         /\ sess' = Put(ss, c, s) /\ done' = None /\ UNCHANGED <<generation, since>>
      \/ /\ Method[r] = "Allocate" /\ s.alloc = None /\ QuotaLeft(ss, r)
         /\ generation < MaxGeneration /\ generation' = generation + 1
         /\ Effect(NewAllocation(r))
      \/ /\ Method[r] # "Allocate" /\ s.alloc # None /\ Owns(s.alloc, r)
         /\ Method[r] \in {"CreatePermission", "ChannelBind"} => PermissionFits(s.alloc, r)
         /\ Method[r] = "ChannelBind" => ChannelFits(s.alloc, r)
         /\ Effect(Updated(s.alloc, r)) /\ UNCHANGED generation

\* OnControl with a request.
OnRequest(r) ==
  \E ss \in {Prune(sess)} :
    LET c == Client[r]
        s == IF c \in DOMAIN ss THEN [ss[c] EXCEPT !.idle = 0] ELSE NewSession
    IN  /\ Underway(r) /\ moved' = None
        /\ \/ /\ c \notin DOMAIN ss /\ Cardinality(DOMAIN ss) >= MaxSessions
              /\ sess' = ss /\ done' = None /\ UNCHANGED <<generation, since>>
           \/ /\ InCache(s, r)
              /\ sess' = Put(ss, c, s) /\ done' = None /\ UNCHANGED <<generation, since>>
           \/ /\ c \in DOMAIN ss \/ Cardinality(DOMAIN ss) < MaxSessions
              /\ ~InCache(s, r) /\ Outcome(ss, s, r)
        /\ UNCHANGED age

\* OnControl with channel data: the binding alone decides.
OnChannelData(c, k) ==
  \E ss \in {Prune(sess)} :
    /\ sess' = ss
    /\ moved' = IF c \in Allocations(ss) /\ k \in DOMAIN ss[c].alloc.chans
                THEN [dir |-> "out", client |-> c, gen |-> ss[c].alloc.gen, via |-> k,
                      peer |-> ss[c].alloc.chans[k].peer]
                ELSE None
    /\ c \in DOMAIN sess /\ done' = None /\ UNCHANGED <<generation, age, since>>

HasPermission(a, p) == Ip[p] \in DOMAIN a.perms /\ a.perms[Ip[p]] > 0

\* OnControl with a Send indication.
OnSendIndication(c, p) ==
  \E ss \in {Prune(sess)} :
    /\ sess' = ss
    /\ moved' = IF c \in Allocations(ss) /\ HasPermission(ss[c].alloc, p)
                THEN [dir |-> "out", client |-> c, gen |-> ss[c].alloc.gen, via |-> None, peer |-> p]
                ELSE None
    /\ c \in DOMAIN sess /\ done' = None /\ UNCHANGED <<generation, age, since>>

\* OnRelay, from the socket of c's allocation, which holds its id: only while
\* that allocation is there, and with a permission; in a channel when the peer
\* has one.
OnRelay(c, p) ==
  \E ss \in {Prune(sess)} :
    LET id == sess[c].alloc.gen
        a == ss[c].alloc
        bound == {k \in DOMAIN a.chans : a.chans[k].peer = p}
        fits == c \in Allocations(ss) /\ a.gen = id /\ HasPermission(a, p)
    IN  /\ c \in Allocations(sess) /\ sess' = ss
        /\ \/ ~fits /\ moved' = None
           \/ /\ fits
              /\ \E k \in IF bound = {} THEN {None} ELSE bound :
                   moved' = [dir |-> "in", client |-> c, gen |-> id, via |-> k, peer |-> p]
        /\ done' = None /\ UNCHANGED <<generation, age, since>>

\* The prune timer.
Tick ==
  /\ sess' = Prune(sess) /\ done' = None /\ moved' = None
  /\ UNCHANGED <<generation, age, since>>

Less(n) == IF n = 0 THEN 0 ELSE n - 1

\* A channel or a cached response.
Older(e) == [e EXCEPT !.left = Less(@)]

OlderAllocation(a) ==
  [a EXCEPT !.left = Less(@),
            !.perms = [i \in DOMAIN @ |-> Less(@[i])],
            !.chans = [k \in DOMAIN @ |-> Older(@[k])]]

OlderSession(s) ==
  [s EXCEPT !.idle = IF @ < IdleLife THEN @ + 1 ELSE @,
            !.cache = [i \in DOMAIN @ |-> Older(@[i])],
            !.alloc = IF @ = None THEN None ELSE OlderAllocation(@)]

\* Time passes.
Wait ==
  /\ sess' = [c \in DOMAIN sess |-> OlderSession(sess[c])]
  /\ age' = [r \in Request |-> IF Underway(r) THEN age[r] + 1 ELSE age[r]]
  /\ done' = None /\ moved' = None /\ UNCHANGED <<generation, since>>

Next ==
  \/ \E r \in Request : Send(r) \/ OnRequest(r)
  \/ \E c \in Clients : \/ \E k \in Channels : OnChannelData(c, k)
                        \/ \E p \in Peers : OnSendIndication(c, p) \/ OnRelay(c, p)
  \/ Tick \/ Wait

Spec == Init /\ [][Next]_vars

-----------------------------------------------------------------------------
\* A request takes effect again only after its client was given, in between, as
\* many other responses as the cache holds.  Until then it takes effect once,
\* however often the client retransmits it or the network duplicates it, and
\* whatever happens to the allocation between the copies: a copy of an old
\* Allocate that arrives after the allocation was deleted makes no other one.
\* After that the cache has given up the response (8 newer ones do), and such a
\* copy does allocate again.
EffectOnce ==
  [][done' # None => \/ since[done'] = None
                     \/ since[done'] >= MaxCached]_vars

\* Data is relayed only for an allocation, within its lifetime, and to or from a peer with a permission that
\* has not run out or, towards the peer, through a channel that has not; a
\* channel always stands for one peer and a peer for one channel.
RelayedByGrant ==
  moved # None =>
    LET a == sess[moved.client].alloc
    IN  /\ a # None /\ a.left > 0 /\ a.gen = moved.gen
        /\ moved.via # None => a.chans[moved.via].peer = moved.peer
        /\ \/ HasPermission(a, moved.peer)
           \/ moved.dir = "out" /\ moved.via # None /\ a.chans[moved.via].left > 0
        /\ IsInjective([k \in DOMAIN a.chans |-> a.chans[k].peer])
=============================================================================
