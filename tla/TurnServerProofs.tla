-------------------------- MODULE TurnServerProofs --------------------------
(***************************************************************************)
(* Proofs about TurnServer, for any requests, clients, peers, lifetimes    *)
(* and limits: data is relayed only by a live grant, and no request takes  *)
(* effect again before its client got a cache full of newer responses.     *)
(***************************************************************************)
EXTENDS TurnServer, WellFoundedInduction, TLAPS

-----------------------------------------------------------------------------
(***************************************************************************)
(* The types of sessions and allocations.                                  *)
(***************************************************************************)

Ips == {Ip[p] : p \in Peers}
Users == {User[r] : r \in Request}
Numbers == {Channel[r] : r \in Request}

Binding == [peer : Peers, left : Nat]
Perms == UNION {[D -> Nat] : D \in SUBSET Ips}
Chans == UNION {[D -> Binding] : D \in SUBSET Numbers}

Allocation == [user : Users, tx : Request, gen : Nat, left : Nat, perms : Perms, chans : Chans]

Response == [tx : Request, left : Nat]
Session == [alloc : {None} \cup Allocation, cache : Seq(Response), idle : Nat]
Sessions == UNION {[D -> Session] : D \in SUBSET Clients}

\* What TurnAssumption says of the lifetimes and limits, one by one.
LEMMA Constants ==
  /\ AllocLife \in Nat /\ AllocLife > 0 /\ PermLife \in Nat /\ ChanLife \in Nat
  /\ CacheLife \in Nat /\ CacheLife > 0 /\ IdleLife \in Nat /\ IdleLife >= CacheLife
  /\ MaxCached \in Nat /\ MaxCached > 0 /\ None \notin Nat
  <1>1. {AllocLife, PermLife, ChanLife, CacheLife, MaxCached} \subseteq Nat \ {0}
    BY TurnAssumption
  <1>2. IdleLife \in Nat /\ IdleLife >= CacheLife /\ None \notin Nat
    BY TurnAssumption
  <1> QED BY <1>1, <1>2

\* The types of an allocation's fields.
LEMMA AllocationFields ==
  ASSUME NEW a \in Allocation
  PROVE  /\ a.left \in Nat /\ a.gen \in Nat /\ DOMAIN a.perms \subseteq Ips /\ DOMAIN a.chans \subseteq Numbers
         /\ \A i \in DOMAIN a.perms : a.perms[i] \in Nat
         /\ \A k \in DOMAIN a.chans : a.chans[k] \in Binding
         /\ \A k \in DOMAIN a.chans : a.chans[k].peer \in Peers /\ a.chans[k].left \in Nat
  <1>1. a.left \in Nat /\ a.gen \in Nat /\ a.perms \in Perms /\ a.chans \in Chans
    BY DEF Allocation
  <1>2. PICK D \in SUBSET Ips : a.perms \in [D -> Nat]
    BY <1>1 DEF Perms
  <1>3. PICK E \in SUBSET Numbers : a.chans \in [E -> Binding]
    BY <1>1 DEF Chans
  <1>4. \A k \in DOMAIN a.chans : a.chans[k] \in Binding
    BY <1>3
  <1>5. \A k \in DOMAIN a.chans : a.chans[k].peer \in Peers /\ a.chans[k].left \in Nat
    BY <1>4 DEF Binding
  <1> QED BY <1>1, <1>2, <1>3, <1>4, <1>5

\* The types of a session's fields.
LEMMA SessionFields ==
  ASSUME NEW s \in Session
  PROVE  /\ s.alloc = None \/ s.alloc \in Allocation
         /\ s.cache \in Seq(Response) /\ Len(s.cache) \in Nat /\ s.idle \in Nat
         /\ DOMAIN s.cache = 1..Len(s.cache)
         /\ \A i \in 1..Len(s.cache) : /\ s.cache[i] \in Response
                                       /\ s.cache[i].tx \in Request /\ s.cache[i].left \in Nat
  <1>1. /\ s.alloc = None \/ s.alloc \in Allocation
        /\ s.cache \in Seq(Response) /\ s.idle \in Nat
    BY DEF Session
  <1>2. Len(s.cache) \in Nat /\ DOMAIN s.cache = 1..Len(s.cache)
    BY <1>1
  <1>3. \A i \in 1..Len(s.cache) : s.cache[i] \in Response
    BY <1>1
  <1>4. \A i \in 1..Len(s.cache) : s.cache[i].tx \in Request /\ s.cache[i].left \in Nat
    BY <1>3 DEF Response
  <1> QED BY <1>1, <1>2, <1>3, <1>4

\* The types of a table of sessions.
LEMMA SessionsFields ==
  ASSUME NEW ss \in Sessions
  PROVE  /\ DOMAIN ss \subseteq Clients /\ ss = [c \in DOMAIN ss |-> ss[c]]
         /\ \A c \in DOMAIN ss : ss[c] \in Session
  <1>1. PICK D \in SUBSET Clients : ss \in [D -> Session]
    BY DEF Sessions
  <1> QED BY <1>1

-----------------------------------------------------------------------------
(***************************************************************************)
(* Prune.                                                                  *)
(***************************************************************************)

\* A set of natural numbers that is not empty has a least member.
LEMMA MinIs ==
  ASSUME NEW S \in SUBSET Nat, S # {}
  PROVE  Min(S) \in S /\ \A y \in S : Min(S) <= y
  <1> DEFINE R == {ss \in Nat \X Nat : ss[1] < ss[2]}
  <1>1. IsWellFoundedOn(R, Nat)
    BY NatLessThanWellFounded DEF OpToRel
  <1> HIDE DEF R
  <1>2. PICK x \in S : \A y \in S : ~(<<y, x>> \in R)
    BY <1>1, WFMin
  <1>3. \A y \in S : ~(y < x)
    BY <1>2 DEF R
  <1>4. \A y \in S : x <= y
    BY <1>2, <1>3
  <1> QED BY <1>2, <1>4 DEF Min

\* What is left of a cache is its end, from a place that no response still kept
\* comes before.
LEMMA ForgetIs ==
  ASSUME NEW cache \in Seq(Response)
  PROVE  \E n \in 0..Len(cache) :
           LET f == Forget(cache)
           IN  /\ f \in Seq(Response) /\ Len(f) = Len(cache) - n
               /\ \A i \in 1..Len(f) : n + i \in 1..Len(cache) /\ f[i] = cache[n + i]
               /\ \A j \in 1..Len(cache) : cache[j].left > 0 => j > n
  <1> DEFINE f == Forget(cache)
             K == Kept(cache)
             m == Min(K)
  <1>0. Len(cache) \in Nat
    OBVIOUS
  <1>1. K \in SUBSET Nat
    BY <1>0 DEF Kept
  <1>2. CASE K = {}
    <2>1. f = <<>>
      BY <1>2 DEF Forget
    <2>2. f \in Seq(Response) /\ Len(f) = 0
      BY <2>1
    <2> HIDE DEF f
    <2>3. \A j \in 1..Len(cache) : ~(cache[j].left > 0)
      BY <1>2 DEF Kept
    <2>4. Len(cache) \in 0..Len(cache) /\ Len(f) = Len(cache) - Len(cache)
      BY <1>0, <2>2
    <2>5. \A i \in 1..Len(f) : FALSE
      BY <2>2
    <2>6. WITNESS Len(cache) \in 0..Len(cache)
    <2> QED BY <2>2, <2>3, <2>4, <2>5 DEF f
  <1>3. CASE K # {}
    <2>1. m \in K /\ \A y \in K : m <= y
      BY <1>1, <1>3, MinIs
    <2>2. m \in 1..Len(cache)
      BY <2>1 DEF Kept
    <2>3. f = SubSeq(cache, m, Len(cache))
      BY <1>3 DEF Forget
    <2> HIDE DEF m, K
    <2> DEFINE n == m - 1
    <2>4. n \in 0..Len(cache) /\ m = n + 1 /\ n \in Nat
      BY <1>0, <2>2
    <2> HIDE DEF n
    <2>5. /\ f \in Seq(Response) /\ Len(f) = Len(cache) - n
      BY <1>0, <2>2, <2>3, <2>4
    <2>6. \A i \in 1..Len(f) : n + i \in 1..Len(cache) /\ f[i] = cache[n + i]
      <3> SUFFICES ASSUME NEW i \in 1..Len(f) PROVE n + i \in 1..Len(cache) /\ f[i] = cache[n + i]
        OBVIOUS
      <3>1. n + i \in 1..Len(cache) /\ i \in 1..(Len(cache) - m + 1) /\ m + i - 1 = n + i
        BY <1>0, <2>4, <2>5
      <3> QED BY <1>0, <2>2, <2>3, <3>1
    <2>7. \A j \in 1..Len(cache) : cache[j].left > 0 => j > n
      <3> SUFFICES ASSUME NEW j \in 1..Len(cache), cache[j].left > 0 PROVE j > n
        OBVIOUS
      <3>1. j \in K
        BY DEF K, Kept
      <3> QED BY <1>0, <2>1, <2>4, <3>1
    <2> HIDE DEF f
    <2> QED BY <2>4, <2>5, <2>6, <2>7 DEF f
  <1> QED BY <1>2, <1>3

\* An allocation that has not run out, nor any of its channels.
Living(a) == a.left > 0 /\ \A k \in DOMAIN a.chans : a.chans[k].left > 0

\* Channels and peers stand for each other.
OneToOne(a) == \A k, l \in DOMAIN a.chans : a.chans[k].peer = a.chans[l].peer => k = l

\* Pruning an allocation leaves living channels, still one to a peer.
LEMMA PruneAllocationIs ==
  ASSUME NEW a \in Allocation
  PROVE  LET p == PruneAllocation(a)
         IN  /\ p \in Allocation /\ p.left = a.left
             /\ \A k \in DOMAIN p.chans : p.chans[k].left > 0
             /\ OneToOne(a) => OneToOne(p)
  <1> DEFINE D == {i \in DOMAIN a.perms : a.perms[i] > 0}
             E == {k \in DOMAIN a.chans : a.chans[k].left > 0}
             P == [i \in D |-> a.perms[i]]
             C == [k \in E |-> a.chans[k]]
             p == PruneAllocation(a)
  <1>1. /\ DOMAIN a.perms \subseteq Ips /\ DOMAIN a.chans \subseteq Numbers
        /\ \A i \in DOMAIN a.perms : a.perms[i] \in Nat
        /\ \A k \in DOMAIN a.chans : a.chans[k] \in Binding
    BY AllocationFields
  <1>2. p = [a EXCEPT !.perms = P, !.chans = C]
    BY DEF PruneAllocation, Restrict
  <1>3. P \in Perms
    <2>1. D \in SUBSET Ips /\ P \in [D -> Nat]
      BY <1>1
    <2> HIDE DEF P, D
    <2> QED BY <2>1 DEF Perms
  <1>4. C \in Chans
    <2>1. E \in SUBSET Numbers /\ C \in [E -> Binding]
      BY <1>1
    <2> HIDE DEF C, E
    <2> QED BY <2>1 DEF Chans
  <1>5. DOMAIN C = E /\ \A k \in E : C[k] = a.chans[k]
    OBVIOUS
  <1>6. \A k \in E : k \in DOMAIN a.chans /\ a.chans[k].left > 0
    OBVIOUS
  <1> HIDE DEF P, C, D, E, p
  <1>7. p \in Allocation /\ p.left = a.left /\ p.chans = C
    BY <1>2, <1>3, <1>4 DEF Allocation
  <1>8. \A k \in DOMAIN p.chans : p.chans[k].left > 0
    BY <1>5, <1>6, <1>7
  <1>9. OneToOne(a) => OneToOne(p)
    BY <1>5, <1>6, <1>7 DEF OneToOne
  <1> QED BY <1>7, <1>8, <1>9 DEF p

\* Pruning a session forgets old responses and an allocation that ran out.
LEMMA PruneSessionIs ==
  ASSUME NEW s \in Session
  PROVE  LET p == PruneSession(s)
         IN  /\ p \in Session /\ p.cache = Forget(s.cache) /\ p.idle = s.idle
             /\ p.alloc # None => Living(p.alloc)
             /\ (s.alloc # None => OneToOne(s.alloc)) => (p.alloc # None => OneToOne(p.alloc))
  <1> DEFINE p == PruneSession(s)
             F == Forget(s.cache)
             A == IF s.alloc = None THEN None
                  ELSE IF s.alloc.left = 0 THEN None ELSE PruneAllocation(s.alloc)
  <1>0. (s.alloc = None \/ s.alloc \in Allocation) /\ s.cache \in Seq(Response)
    BY SessionFields
  <1>1. p = [s EXCEPT !.cache = F, !.alloc = A]
    BY DEF PruneSession
  <1>2. F \in Seq(Response)
    BY <1>0, ForgetIs
  <1>3. ASSUME A # None
        PROVE  /\ A \in Allocation /\ Living(A) /\ s.alloc # None
               /\ OneToOne(s.alloc) => OneToOne(A)
    <2>1. s.alloc # None /\ s.alloc.left # 0 /\ A = PruneAllocation(s.alloc)
      BY <1>3
    <2>2. s.alloc \in Allocation
      BY <1>0, <2>1
    <2>3. s.alloc.left \in Nat
      BY <2>2, AllocationFields
    <2> HIDE DEF A
    <2>4. /\ A \in Allocation /\ A.left = s.alloc.left
          /\ \A k \in DOMAIN A.chans : A.chans[k].left > 0
          /\ OneToOne(s.alloc) => OneToOne(A)
      BY <2>1, <2>2, PruneAllocationIs
    <2>5. A.left > 0
      BY <2>1, <2>3, <2>4
    <2> QED BY <2>1, <2>4, <2>5 DEF Living
  <1> HIDE DEF A, F, p
  <1>4. p \in Session /\ p.cache = F /\ p.idle = s.idle /\ p.alloc = A
    <2>1. A \in {None} \cup Allocation
      BY <1>3
    <2> QED BY <1>1, <1>2, <2>1 DEF Session
  <1> QED BY <1>3, <1>4 DEF p, F

\* Prune keeps a session unless it has no allocation and was idle too long.
LEMMA PruneIs ==
  ASSUME NEW ss \in Sessions
  PROVE  LET p == Prune(ss)
         IN  /\ p \in Sessions /\ DOMAIN p \subseteq DOMAIN ss
             /\ \A c \in DOMAIN p : p[c] = PruneSession(ss[c])
             /\ \A c \in DOMAIN ss : c \notin DOMAIN p => ss[c].idle >= IdleLife
  <1> DEFINE h == [c \in DOMAIN ss |-> PruneSession(ss[c])]
             D == {c \in DOMAIN h : ~IdleOut(h[c])}
             p == Prune(ss)
  <1>1. DOMAIN ss \subseteq Clients /\ \A c \in DOMAIN ss : ss[c] \in Session
    BY SessionsFields
  <1>2. DOMAIN h = DOMAIN ss /\ \A c \in DOMAIN ss : h[c] = PruneSession(ss[c])
    OBVIOUS
  <1>3. p = [c \in D |-> h[c]]
    BY DEF Prune, Restrict
  <1> HIDE DEF h
  <1>4. D \subseteq DOMAIN ss
    BY <1>2
  <1>5. \A c \in DOMAIN ss : c \notin D => ss[c].idle >= IdleLife
    BY <1>1, <1>2, PruneSessionIs DEF IdleOut
  <1> HIDE DEF D
  <1>6. DOMAIN p = D /\ \A c \in D : p[c] = PruneSession(ss[c])
    BY <1>2, <1>3, <1>4
  <1>7. p \in [D -> Session]
    BY <1>1, <1>2, <1>3, <1>4, PruneSessionIs
  <1> HIDE DEF p
  <1>8. p \in Sessions
    BY <1>1, <1>4, <1>7 DEF Sessions
  <1> QED BY <1>4, <1>5, <1>6, <1>8 DEF p

-----------------------------------------------------------------------------
(***************************************************************************)
(* The invariant of the sessions ss, where ag is the age of every request  *)
(* and sn what its client was answered since it last took effect.          *)
(***************************************************************************)

Ages == [Request -> Nat \cup {None}]
Counts == [Request -> Nat \cup {None}]

\* A response is kept until its request is too old to arrive; until then the
\* session was last used no earlier than the request was sent.
CacheRight(s, c, ag) ==
  \A i \in 1..Len(s.cache) :
    /\ Client[s.cache[i].tx] = c /\ ag[s.cache[i].tx] # None
    /\ ag[s.cache[i].tx] + s.cache[i].left >= CacheLife
    /\ ag[s.cache[i].tx] < CacheLife => s.idle <= ag[s.cache[i].tx]

\* The cache has the response to r, with at most n newer ones.
Behind(s, r, n) == \E i \in 1..Len(s.cache) : s.cache[i].tx = r /\ Len(s.cache) <= i + n

\* The cache of c's session has the response to a request that took effect and
\* may still arrive, unless as many newer ones came as it holds.
Recalled(s, c, ag, sn) ==
  \A r \in Request : Client[r] = c /\ sn[r] # None /\ ag[r] < CacheLife
                     => sn[r] >= MaxCached \/ Behind(s, r, sn[r])

\* A client without session has no such request.
Remembered(ss, ag, sn) ==
  \A r \in Request : sn[r] # None =>
    /\ ag[r] # None
    /\ ag[r] < CacheLife /\ Client[r] \notin DOMAIN ss => sn[r] >= MaxCached

SessionRight(s, c, ag, sn) ==
  (s.alloc # None => OneToOne(s.alloc)) /\ CacheRight(s, c, ag) /\ Recalled(s, c, ag, sn)

Right(ss, ag, sn) ==
  /\ ss \in Sessions
  /\ \A c \in DOMAIN ss : SessionRight(ss[c], c, ag, sn)
  /\ Remembered(ss, ag, sn)

\* Forgetting old responses keeps those of requests that may arrive.
LEMMA ForgetRight ==
  ASSUME NEW ag \in Ages, NEW c, NEW s \in Session, CacheRight(s, c, ag),
         NEW p \in Session, p.cache = Forget(s.cache), p.idle = s.idle
  PROVE  /\ CacheRight(p, c, ag)
         /\ \A r \in Request, m \in Nat : Behind(s, r, m) /\ ag[r] # None /\ ag[r] < CacheLife => Behind(p, r, m)
  <1> DEFINE K == s.cache
             F == p.cache
  <1>1. /\ K \in Seq(Response) /\ Len(K) \in Nat /\ Len(F) \in Nat /\ F = Forget(K)
        /\ \A i \in 1..Len(K) : K[i].tx \in Request /\ K[i].left \in Nat
    BY SessionFields
  <1>a. \E n \in 0..Len(K) :
              /\ Forget(K) \in Seq(Response) /\ Len(Forget(K)) = Len(K) - n
              /\ \A i \in 1..Len(Forget(K)) : n + i \in 1..Len(K) /\ Forget(K)[i] = K[n + i]
              /\ \A j \in 1..Len(K) : K[j].left > 0 => j > n
    BY <1>1, ForgetIs, Zenon
  <1>2. PICK n \in 0..Len(K) :
              /\ Len(F) = Len(K) - n
              /\ \A i \in 1..Len(F) : n + i \in 1..Len(K) /\ F[i] = K[n + i]
              /\ \A j \in 1..Len(K) : K[j].left > 0 => j > n
    BY <1>1, <1>a, Zenon
  <1>3. \A i \in 1..Len(K) : /\ Client[K[i].tx] = c /\ ag[K[i].tx] # None
                             /\ ag[K[i].tx] + K[i].left >= CacheLife
                             /\ ag[K[i].tx] < CacheLife => s.idle <= ag[K[i].tx]
    BY DEF CacheRight
  <1> HIDE DEF K, F
  <1>5. CacheRight(p, c, ag)
    <2>1. \A i \in 1..Len(F) : /\ Client[F[i].tx] = c /\ ag[F[i].tx] # None
                               /\ ag[F[i].tx] + F[i].left >= CacheLife
                               /\ ag[F[i].tx] < CacheLife => p.idle <= ag[F[i].tx]
      <3> TAKE i \in 1..Len(F)
      <3> DEFINE a == n + i
      <3>1. a \in 1..Len(K) /\ F[i] = K[a]
        BY <1>2
      <3> HIDE DEF a
      <3> QED BY <1>3, <3>1
    <2> QED BY <2>1 DEF CacheRight, F
  <1>6. ASSUME NEW r \in Request, NEW m \in Nat, Behind(s, r, m), ag[r] # None, ag[r] < CacheLife
        PROVE  Behind(p, r, m)
    <2>1. PICK j \in 1..Len(K) : K[j].tx = r /\ Len(K) <= j + m
      BY <1>6 DEF Behind, K
    <2>2. ag[r] \in Nat /\ ag[r] + K[j].left >= CacheLife /\ K[j].left \in Nat
      BY <1>1, <1>3, <1>6, <2>1 DEF Ages
    <2>3. K[j].left > 0
      BY <1>6, <2>2, Constants
    <2>4. j > n
      BY <1>2, <2>1, <2>3
    <2> DEFINE i == j - n
    <2>5. i \in 1..Len(F) /\ n + i = j /\ Len(F) <= i + m
      BY <1>1, <1>2, <2>1, <2>4
    <2> HIDE DEF i
    <2>6. F[i].tx = r
      BY <1>2, <2>1, <2>5
    <2> QED BY <2>5, <2>6 DEF Behind, F
  <1> QED BY <1>5, <1>6

\* Prune keeps what is right of the sessions and leaves living allocations.
LEMMA PruneRight ==
  ASSUME NEW ag \in Ages, NEW sn \in Counts, NEW ss, Right(ss, ag, sn)
  PROVE  /\ Right(Prune(ss), ag, sn)
         /\ \A c \in Allocations(Prune(ss)) : Living(Prune(ss)[c].alloc)
  <1> DEFINE p == Prune(ss)
  <1>1. /\ ss \in Sessions /\ Remembered(ss, ag, sn)
        /\ \A c \in DOMAIN ss : /\ ss[c].alloc # None => OneToOne(ss[c].alloc)
                                /\ CacheRight(ss[c], c, ag) /\ Recalled(ss[c], c, ag, sn)
    BY DEF Right, SessionRight
  <1>2. \A c \in DOMAIN ss : ss[c] \in Session
    BY <1>1, SessionsFields
  <1>3. /\ p \in Sessions /\ DOMAIN p \subseteq DOMAIN ss
        /\ \A c \in DOMAIN p : p[c] = PruneSession(ss[c])
        /\ \A c \in DOMAIN ss : c \notin DOMAIN p => ss[c].idle >= IdleLife
    BY <1>1, PruneIs
  <1> HIDE DEF p
  <1>4. ASSUME NEW c \in DOMAIN p
        PROVE  /\ p[c] \in Session /\ p[c].cache = Forget(ss[c].cache) /\ p[c].idle = ss[c].idle
               /\ p[c].alloc # None => Living(p[c].alloc) /\ OneToOne(p[c].alloc)
    BY <1>1, <1>2, <1>3, PruneSessionIs
  <1>5. \A r \in Request : sn[r] # None => sn[r] \in Nat /\ ag[r] # None /\ ag[r] \in Nat
    BY <1>1 DEF Remembered, Counts, Ages
  <1>6. ASSUME NEW c \in DOMAIN p
        PROVE  CacheRight(p[c], c, ag) /\ Recalled(p[c], c, ag, sn)
    <2>1. c \in DOMAIN ss /\ ss[c] \in Session /\ CacheRight(ss[c], c, ag) /\ Recalled(ss[c], c, ag, sn)
      BY <1>1, <1>2, <1>3
    <2>2. /\ CacheRight(p[c], c, ag)
          /\ \A r \in Request, m \in Nat :
               Behind(ss[c], r, m) /\ ag[r] # None /\ ag[r] < CacheLife => Behind(p[c], r, m)
      BY <1>4, <2>1, ForgetRight
    <2> QED BY <1>5, <2>1, <2>2 DEF Recalled
  <1>7. Remembered(p, ag, sn)
    <2> SUFFICES ASSUME NEW r \in Request, sn[r] # None, ag[r] < CacheLife, Client[r] \notin DOMAIN p
                 PROVE  sn[r] >= MaxCached
      BY <1>5 DEF Remembered
    <2> DEFINE c == Client[r]
    <2>1. CASE c \notin DOMAIN ss
      BY <1>1, <2>1 DEF Remembered
    <2>2. CASE c \in DOMAIN ss
      <3> HIDE DEF c
      <3>1. ss[c].idle >= IdleLife /\ CacheRight(ss[c], c, ag) /\ Recalled(ss[c], c, ag, sn) /\ ss[c].idle \in Nat
        BY <1>1, <1>2, <1>3, <2>2, SessionFields DEF c
      <3>2. ~Behind(ss[c], r, sn[r])
        <4> SUFFICES ASSUME Behind(ss[c], r, sn[r]) PROVE FALSE
          OBVIOUS
        <4>1. PICK i \in 1..Len(ss[c].cache) : ss[c].cache[i].tx = r
          BY DEF Behind
        <4>2. ss[c].idle <= ag[r] /\ ag[r] \in Nat
          BY <1>5, <3>1, <4>1 DEF CacheRight
        <4> QED BY <3>1, <4>2, Constants
      <3> QED BY <3>1, <3>2 DEF Recalled, c
    <2> QED BY <2>1, <2>2
  <1>8. Right(p, ag, sn)
    BY <1>3, <1>4, <1>6, <1>7 DEF Right, SessionRight
  <1>9. \A c \in Allocations(p) : Living(p[c].alloc)
    BY <1>4 DEF Allocations
  <1> QED BY <1>8, <1>9 DEF p

-----------------------------------------------------------------------------
(***************************************************************************)
(* Requests.                                                               *)
(***************************************************************************)

\* A response joins the cache of session t of client c: the others move one
\* place from the end, and the oldest is given up when there is no room.
LEMMA CachedIs ==
  ASSUME NEW ag \in Ages, NEW c, NEW t \in Session, t.idle = 0, CacheRight(t, c, ag),
         NEW r \in Request, Client[r] = c, ag[r] # None
  PROVE  LET w == Cached(t, r)
         IN  /\ w \in Session /\ w.alloc = t.alloc /\ CacheRight(w, c, ag)
             /\ \A m \in Nat : Behind(w, r, m)
             /\ \A x \in Request, m \in Nat : Behind(t, x, m) => m + 1 >= MaxCached \/ Behind(w, x, m + 1)
  <1> DEFINE w == Cached(t, r)
             K == t.cache
             e == [tx |-> r, left |-> CacheLife]
             all == Append(K, e)
             n == Len(K)
             F == IF Len(all) > MaxCached THEN Tail(all) ELSE all
             d == IF Len(all) > MaxCached THEN 1 ELSE 0
  <1>1. /\ K \in Seq(Response) /\ n \in Nat
        /\ \A i \in 1..n : K[i] \in Response /\ K[i].tx \in Request /\ K[i].left \in Nat
    BY SessionFields
  <1>2. e \in Response /\ e.tx = r /\ e.left = CacheLife
    BY Constants DEF Response
  <1>3. w = [t EXCEPT !.cache = F]
    BY DEF Cached
  <1> HIDE DEF w, K, e
  <1>4. /\ all \in Seq(Response) /\ Len(all) = n + 1 /\ all[n + 1] = e
        /\ \A i \in 1..n : all[i] = K[i]
    BY <1>1, <1>2
  <1>5. \A i \in 1..(n + 1) : i \in 1..n \/ i = n + 1
    BY <1>1
  <1> HIDE DEF all, n
  <1>6. /\ d \in {0, 1} /\ F \in Seq(Response) /\ Len(F) = n + 1 - d
        /\ \A i \in 1..Len(F) : d + i \in 1..(n + 1) /\ F[i] = all[d + i]
    <2>1. CASE Len(all) > MaxCached
      <3>1. F = Tail(all) /\ d = 1 /\ all # <<>>
        BY <1>1, <1>4, <2>1
      <3> QED BY <1>1, <1>4, <3>1
    <2>2. CASE ~(Len(all) > MaxCached)
      <3>1. F = all /\ d = 0
        BY <2>2
      <3> QED BY <1>1, <1>4, <3>1
    <2> QED BY <2>1, <2>2
  <1>7. d = 1 => n >= MaxCached
    BY <1>1, <1>4, Constants
  <1>8. n + 1 - d >= 1
    BY <1>1, <1>6, <1>7, Constants
  <1> HIDE DEF F, d
  <1>9. w \in Session /\ w.alloc = t.alloc /\ w.cache = F /\ w.idle = t.idle
    BY <1>3, <1>6 DEF Session
  <1>10. CacheRight(w, c, ag)
    <2>1. ASSUME NEW i \in 1..(n + 1)
          PROVE  /\ Client[all[i].tx] = c /\ ag[all[i].tx] # None
                 /\ ag[all[i].tx] + all[i].left >= CacheLife
                 /\ ag[all[i].tx] < CacheLife => w.idle <= ag[all[i].tx]
      <3>1. CASE i \in 1..n
        <4>1. all[i] = K[i]
          BY <1>4, <3>1
        <4>2. /\ Client[K[i].tx] = c /\ ag[K[i].tx] # None
              /\ ag[K[i].tx] + K[i].left >= CacheLife
              /\ ag[K[i].tx] < CacheLife => t.idle <= ag[K[i].tx]
          BY <3>1 DEF CacheRight, K, n
        <4> QED BY <1>9, <4>1, <4>2
      <3>2. CASE i = n + 1
        <4>1. all[i].tx = r /\ all[i].left = CacheLife
          BY <1>2, <1>4, <3>2
        <4>2. ag[r] \in Nat
          BY DEF Ages
        <4> QED BY <1>9, <4>1, <4>2, Constants
      <3> QED BY <1>5, <3>1, <3>2
    <2> SUFFICES ASSUME NEW i \in 1..Len(F)
                 PROVE  /\ Client[F[i].tx] = c /\ ag[F[i].tx] # None
                        /\ ag[F[i].tx] + F[i].left >= CacheLife
                        /\ ag[F[i].tx] < CacheLife => w.idle <= ag[F[i].tx]
      BY <1>9 DEF CacheRight
    <2> DEFINE j == d + i
    <2>2. j \in 1..(n + 1) /\ F[i] = all[j]
      BY <1>6
    <2> HIDE DEF j
    <2> QED BY <2>1, <2>2
  <1>11. ASSUME NEW m \in Nat PROVE Behind(w, r, m)
    <2> DEFINE i == n + 1 - d
    <2>1. i \in 1..Len(F) /\ d + i = n + 1 /\ Len(F) <= i + m
      BY <1>1, <1>6, <1>8
    <2> HIDE DEF i
    <2>2. F[i].tx = r
      BY <1>2, <1>4, <1>6, <2>1
    <2> QED BY <1>9, <2>1, <2>2 DEF Behind
  <1>12. ASSUME NEW x \in Request, NEW m \in Nat, Behind(t, x, m), ~(m + 1 >= MaxCached)
         PROVE  Behind(w, x, m + 1)
    <2>1. PICK j \in 1..n : K[j].tx = x /\ n <= j + m
      BY <1>12 DEF Behind, K, n
    <2> DEFINE i == j - d
    <2>2. i \in 1..Len(F) /\ d + i = j /\ Len(F) <= i + (m + 1)
      BY <1>1, <1>6, <1>7, <1>12, <2>1, Constants
    <2> HIDE DEF i
    <2>3. F[i].tx = x
      BY <1>4, <1>6, <2>1, <2>2
    <2> QED BY <1>9, <2>2, <2>3 DEF Behind
  <1> QED BY <1>9, <1>10, <1>11, <1>12 DEF w

\* Session w replaces that of client c, and the others of its client count on.
LEMMA PutRight ==
  ASSUME NEW ag, NEW sn, NEW ss, Right(ss, ag, sn), NEW c \in Clients, NEW tn,
         NEW w \in Session, SessionRight(w, c, ag, tn),
         \A x \in Request : (Client[x] # c => tn[x] = sn[x]) /\ (tn[x] # None => ag[x] # None)
  PROVE  Right(Put(ss, c, w), ag, tn)
  <1> DEFINE p == Put(ss, c, w)
             D == DOMAIN ss \cup {c}
  <1>1. /\ ss \in Sessions /\ Remembered(ss, ag, sn)
        /\ \A d \in DOMAIN ss : SessionRight(ss[d], d, ag, sn)
    BY DEF Right
  <1>2. DOMAIN ss \subseteq Clients /\ \A d \in DOMAIN ss : ss[d] \in Session
    BY <1>1, SessionsFields
  <1>3. p = [d \in D |-> IF d = c THEN w ELSE ss[d]]
    BY DEF Put
  <1>4. p \in [D -> Session]
    BY <1>2, <1>3
  <1>5. DOMAIN p = D /\ p[c] = w /\ \A d \in D : d # c => d \in DOMAIN ss /\ p[d] = ss[d]
    BY <1>3
  <1> HIDE DEF p
  <1>6. p \in Sessions
    BY <1>2, <1>4 DEF Sessions
  <1>7. ASSUME NEW d \in DOMAIN p PROVE SessionRight(p[d], d, ag, tn)
    <2>1. CASE d = c
      BY <1>5, <2>1
    <2>2. CASE d # c
      <3>1. p[d] = ss[d] /\ SessionRight(ss[d], d, ag, sn)
        BY <1>1, <1>5, <1>7, <2>2
      <3>2. \A x \in Request : Client[x] = d => tn[x] = sn[x]
        BY <2>2
      <3> QED BY <3>1, <3>2 DEF SessionRight, Recalled
    <2> QED BY <2>1, <2>2
  <1>8. Remembered(p, ag, tn)
    BY <1>1, <1>5 DEF Remembered
  <1> QED BY <1>6, <1>7, <1>8 DEF Right, p

\* Refresh, CreatePermission, ChannelBind and the deletion of an allocation.
LEMMA UpdatedIs ==
  ASSUME NEW a \in Allocation, OneToOne(a), NEW r \in Request, Method[r] # "Allocate",
         Method[r] = "ChannelBind" => ChannelFits(a, r)
  PROVE  /\ Updated(a, r) \in {None} \cup Allocation
         /\ Updated(a, r) # None => OneToOne(Updated(a, r))
  <1> DEFINE P == PermsWith(a, r)
             C == ChansWith(a, r)
  <1>0. /\ DOMAIN a.perms \subseteq Ips /\ DOMAIN a.chans \subseteq Numbers
        /\ \A i \in DOMAIN a.perms : a.perms[i] \in Nat
        /\ \A k \in DOMAIN a.chans : a.chans[k] \in Binding
    BY AllocationFields
  <1>1. Method[r] \in {"Refresh", "Delete", "CreatePermission", "ChannelBind"}
    BY TurnAssumption DEF Methods
  <1>2. ASSUME Method[r] \in {"CreatePermission", "ChannelBind"}
        PROVE  P \in Perms
    <2> DEFINE x == Ip[Peer[r]]
               D == DOMAIN a.perms \cup {x}
    <2>1. x \in Ips
      BY <1>2, TurnAssumption DEF Ips, Peers
    <2>2. P = [i \in D |-> IF i = x THEN PermLife ELSE a.perms[i]]
      BY DEF PermsWith
    <2> HIDE DEF x, P
    <2>3. D \in SUBSET Ips /\ P \in [D -> Nat]
      BY <1>0, <2>1, <2>2, Constants
    <2> HIDE DEF D
    <2> QED BY <2>3 DEF Perms
  <1>3. ASSUME Method[r] = "ChannelBind"
        PROVE  C \in Chans /\ \A k, l \in DOMAIN C : C[k].peer = C[l].peer => k = l
    <2> DEFINE x == Channel[r]
               D == DOMAIN a.chans \cup {x}
               b == [peer |-> Peer[r], left |-> ChanLife]
    <2>1. x \in Numbers
      BY DEF Numbers
    <2>2. b \in Binding /\ b.peer = Peer[r]
      BY <1>3, TurnAssumption, Constants DEF Binding, Peers
    <2>3. C = [k \in D |-> IF k = x THEN b ELSE a.chans[k]]
      BY DEF ChansWith
    <2>4. \A k \in DOMAIN a.chans : (k = x) <=> (a.chans[k].peer = Peer[r])
      BY <1>3 DEF ChannelFits
    <2> HIDE DEF x, C, b
    <2>5. D \in SUBSET Numbers /\ C \in [D -> Binding]
      BY <1>0, <2>1, <2>2, <2>3
    <2>6. DOMAIN C = D /\ C[x] = b /\ \A k \in D : k # x => k \in DOMAIN a.chans /\ C[k] = a.chans[k]
      BY <2>3
    <2> HIDE DEF D
    <2>7. C \in Chans
      BY <2>5 DEF Chans
    <2>8. ASSUME NEW k \in DOMAIN C, NEW l \in DOMAIN C, C[k].peer = C[l].peer
          PROVE  k = l
      BY <2>2, <2>4, <2>6, <2>8 DEF OneToOne
    <2> QED BY <2>7, <2>8
  <1> HIDE DEF P, C
  <1>4. CASE Method[r] = "Delete"
    BY <1>4 DEF Updated
  <1>5. CASE Method[r] = "Refresh"
    <2> DEFINE u == [a EXCEPT !.left = AllocLife]
    <2>1. Updated(a, r) = u
      BY <1>5 DEF Updated
    <2>2. u \in Allocation /\ u.chans = a.chans
      BY Constants DEF Allocation
    <2> HIDE DEF u
    <2> QED BY <2>1, <2>2 DEF OneToOne
  <1>6. CASE Method[r] = "CreatePermission"
    <2> DEFINE u == [a EXCEPT !.perms = P]
    <2>1. Updated(a, r) = u
      BY <1>6 DEF Updated, P
    <2>2. u \in Allocation /\ u.chans = a.chans
      BY <1>2, <1>6 DEF Allocation
    <2> HIDE DEF u
    <2> QED BY <2>1, <2>2 DEF OneToOne
  <1>7. CASE Method[r] = "ChannelBind"
    <2> DEFINE u == [a EXCEPT !.perms = P, !.chans = C]
    <2>1. Updated(a, r) = u
      BY <1>7 DEF Updated, P, C
    <2>2. u \in Allocation /\ u.chans = C
      BY <1>2, <1>3, <1>7 DEF Allocation
    <2> HIDE DEF u
    <2> QED BY <1>3, <1>7, <2>1, <2>2 DEF OneToOne
  <1> QED BY <1>1, <1>4, <1>5, <1>6, <1>7

\* A new allocation is well formed and has no channels.
LEMMA NewAllocationIs ==
  ASSUME NEW r \in Request, generation \in Nat
  PROVE  NewAllocation(r) \in Allocation /\ OneToOne(NewAllocation(r))
  <1> DEFINE a == NewAllocation(r)
  <1>1. <<>> \in [{} -> Nat] /\ <<>> \in [{} -> Binding] /\ DOMAIN <<>> = {}
    OBVIOUS
  <1>2. <<>> \in Perms /\ <<>> \in Chans
    BY <1>1 DEF Perms, Chans
  <1>3. User[r] \in Users
    BY DEF Users
  <1>4. a \in Allocation
    BY <1>2, <1>3, Constants DEF NewAllocation, Allocation
  <1>5. a.chans = <<>>
    BY DEF NewAllocation
  <1> HIDE DEF a
  <1>6. OneToOne(a)
    BY <1>1, <1>5 DEF OneToOne
  <1> QED BY <1>4, <1>6 DEF a

\* The client's session at the start of a request.
Current(ss, c) == IF c \in DOMAIN ss THEN [ss[c] EXCEPT !.idle = 0] ELSE NewSession

\* The session a request meets is right, found or made.
LEMMA CurrentIs ==
  ASSUME NEW ag \in Ages, NEW sn, NEW ss, Right(ss, ag, sn), NEW c \in Clients
  PROVE  LET s == Current(ss, c)
         IN  s \in Session /\ s.idle = 0 /\ SessionRight(s, c, ag, sn)
  <1> DEFINE s == Current(ss, c)
  <1>1. CASE c \in DOMAIN ss
    <2>1. ss \in Sessions /\ SessionRight(ss[c], c, ag, sn)
      BY <1>1 DEF Right
    <2>2. ss[c] \in Session
      BY <1>1, <2>1, SessionsFields
    <2>3. s = [ss[c] EXCEPT !.idle = 0]
      BY <1>1 DEF Current
    <2> HIDE DEF s
    <2>4. s \in Session /\ s.idle = 0 /\ s.alloc = ss[c].alloc /\ s.cache = ss[c].cache
      BY <2>2, <2>3 DEF Session
    <2>5. \A i \in 1..Len(ss[c].cache) : ss[c].cache[i].tx \in Request
      BY <2>2, SessionFields
    <2>6. CacheRight(s, c, ag)
      <3>1. \A x \in Request : ag[x] # None => 0 <= ag[x]
        BY DEF Ages
      <3>2. CacheRight(ss[c], c, ag)
        BY <2>1 DEF SessionRight
      <3> QED BY <2>4, <2>5, <3>1, <3>2 DEF CacheRight
    <2>7. Recalled(s, c, ag, sn)
      BY <2>1, <2>4 DEF SessionRight, Recalled, Behind
    <2>8. s.alloc # None => OneToOne(s.alloc)
      BY <2>1, <2>4 DEF SessionRight
    <2> QED BY <2>4, <2>6, <2>7, <2>8 DEF SessionRight, s
  <1>2. CASE c \notin DOMAIN ss
    <2>1. s = NewSession
      BY <1>2 DEF Current
    <2>2. s \in Session /\ s.idle = 0 /\ s.alloc = None /\ s.cache = <<>>
      BY <2>1 DEF NewSession, Session
    <2> HIDE DEF s
    <2>3. \A i \in 1..Len(s.cache) : FALSE
      BY <2>2
    <2>4. CacheRight(s, c, ag)
      BY <2>3 DEF CacheRight
    <2>5. Recalled(s, c, ag, sn)
      BY <1>2 DEF Right, Remembered, Recalled
    <2> QED BY <2>2, <2>4, <2>5 DEF SessionRight, s
  <1> QED BY <1>1, <1>2

\* A request is answered and the answer kept: it starts to count anew if it took
\* effect, and the others of its client that count have one response more.
LEMMA StoreRight ==
  ASSUME NEW ag \in Ages, NEW sn \in Counts, NEW ss, Right(ss, ag, sn), NEW r \in Request,
         NEW c, c = Client[r], ag[r] # None,
         NEW t \in Session, t.idle = 0, SessionRight(t, c, ag, sn),
         NEW tn \in Counts, tn[r] = sn[r] \/ tn[r] = 0,
         \A x \in Request \ {r} :
           tn[x] = IF Client[x] = c /\ sn[x] # None /\ sn[x] < MaxCached THEN sn[x] + 1 ELSE sn[x]
  PROVE  Right(Put(ss, c, Cached(t, r)), ag, tn)
  <1> DEFINE w == Cached(t, r)
  <1>1. c \in Clients
    BY DEF Clients
  <1>2. /\ CacheRight(t, c, ag) /\ Recalled(t, c, ag, sn)
        /\ t.alloc # None => OneToOne(t.alloc)
    BY DEF SessionRight
  <1>3. /\ w \in Session /\ w.alloc = t.alloc /\ CacheRight(w, c, ag)
        /\ \A m \in Nat : Behind(w, r, m)
        /\ \A x \in Request, m \in Nat : Behind(t, x, m) => m + 1 >= MaxCached \/ Behind(w, x, m + 1)
    BY <1>2, CachedIs
  <1> HIDE DEF w
  <1>4. Recalled(w, c, ag, tn)
    <2> SUFFICES ASSUME NEW x \in Request, Client[x] = c, tn[x] # None, ag[x] < CacheLife
                 PROVE  tn[x] >= MaxCached \/ Behind(w, x, tn[x])
      BY DEF Recalled
    <2>1. CASE x = r
      <3>1. tn[r] \in Nat
        BY <2>1 DEF Counts
      <3> QED BY <1>3, <2>1, <3>1
    <2>2. CASE x # r
      <3>1. sn[x] # None /\ sn[x] \in Nat
        BY <2>2 DEF Counts
      <3>2. CASE sn[x] < MaxCached
        <4>1. tn[x] = sn[x] + 1
          BY <2>2, <3>1, <3>2
        <4>2. Behind(t, x, sn[x])
          <5>1. sn[x] >= MaxCached \/ Behind(t, x, sn[x])
            BY <1>2, <3>1 DEF Recalled
          <5> QED BY <3>1, <3>2, <5>1, Constants
        <4> QED BY <1>3, <3>1, <4>1, <4>2
      <3>3. CASE ~(sn[x] < MaxCached)
        <4>1. tn[x] = sn[x]
          BY <2>2, <3>3
        <4> QED BY <3>1, <3>3, <4>1, Constants
      <3> QED BY <3>2, <3>3
    <2> QED BY <2>1, <2>2
  <1>5. SessionRight(w, c, ag, tn)
    BY <1>2, <1>3, <1>4 DEF SessionRight
  <1>6. \A x \in Request : (Client[x] # c => tn[x] = sn[x]) /\ (tn[x] # None => ag[x] # None)
    <2>1. \A x \in Request : sn[x] # None => ag[x] # None
      BY DEF Right, Remembered
    <2> QED BY <2>1
  <1>7. Right(Put(ss, c, w), ag, tn)
    BY <1>1, <1>3, <1>5, <1>6, PutRight
  <1> QED BY <1>7 DEF w

-----------------------------------------------------------------------------
(***************************************************************************)
(* The inductive invariant.                                                *)
(***************************************************************************)

IInv ==
  /\ generation \in Nat /\ age \in Ages /\ since \in Counts
  /\ Right(sess, age, since)

\* The invariant holds at the start.
LEMMA InitInv == Init => IInv
  <1> SUFFICES ASSUME Init PROVE IInv
    OBVIOUS
  <1>1. /\ sess = <<>> /\ generation = 0 /\ age = [r \in Request |-> None]
        /\ since = [r \in Request |-> None]
    BY DEF Init
  <1>2. age \in Ages /\ since \in Counts /\ generation \in Nat
    BY <1>1 DEF Ages, Counts
  <1>3. sess \in Sessions /\ DOMAIN sess = {}
    <2>1. sess \in [{} -> Session] /\ DOMAIN sess = {}
      BY <1>1
    <2> QED BY <2>1 DEF Sessions
  <1>4. Remembered(sess, age, since)
    BY <1>1 DEF Remembered
  <1> QED BY <1>2, <1>3, <1>4 DEF IInv, Right

\* What a copy of request r meets when it arrives, and how it may go on.
LEMMA RequestMeets ==
  ASSUME IInv, NEW r \in Request, OnRequest(r)
  PROVE  LET ss == Prune(sess)
             c == Client[r]
             s == Current(ss, c)
         IN  /\ Right(ss, age, since) /\ c \in Clients
             /\ s \in Session /\ s.idle = 0 /\ SessionRight(s, c, age, since)
             /\ age' = age /\ age[r] # None /\ age[r] < CacheLife
             /\ \/ sess' = ss /\ done' = None /\ UNCHANGED <<generation, since>>
                \/ sess' = Put(ss, c, s) /\ done' = None /\ UNCHANGED <<generation, since>>
                \/ ~InCache(s, r) /\ Outcome(ss, s, r)
  <1> DEFINE ss == Prune(sess)
             c == Client[r]
             s == Current(ss, c)
  <1>1. age \in Ages /\ since \in Counts
    BY DEF IInv
  <1>2. Right(ss, age, since)
    BY <1>1, PruneRight DEF IInv
  <1>3. c \in Clients
    BY DEF Clients
  <1>4. s \in Session /\ s.idle = 0 /\ SessionRight(s, c, age, since)
    BY <1>1, <1>2, <1>3, CurrentIs
  <1>5. /\ age' = age /\ age[r] # None /\ age[r] < CacheLife
        /\ \/ sess' = ss /\ done' = None /\ UNCHANGED <<generation, since>>
           \/ sess' = Put(ss, c, s) /\ done' = None /\ UNCHANGED <<generation, since>>
           \/ ~InCache(s, r) /\ Outcome(ss, s, r)
    BY DEF OnRequest, Underway, Current
  <1> QED BY <1>2, <1>3, <1>4, <1>5

\* A copy of request r arrives.
LEMMA OnRequestInv ==
  ASSUME IInv, NEW r \in Request, OnRequest(r)
  PROVE  IInv'
  <1> DEFINE ss == Prune(sess)
             c == Client[r]
             s == Current(ss, c)
  <1>1. generation \in Nat /\ age \in Ages /\ since \in Counts
    BY DEF IInv
  <1>2. /\ Right(ss, age, since) /\ c \in Clients
        /\ s \in Session /\ s.idle = 0 /\ SessionRight(s, c, age, since)
        /\ age' = age /\ age[r] # None /\ age[r] < CacheLife
        /\ \/ sess' = ss /\ done' = None /\ UNCHANGED <<generation, since>>
           \/ sess' = Put(ss, c, s) /\ done' = None /\ UNCHANGED <<generation, since>>
           \/ ~InCache(s, r) /\ Outcome(ss, s, r)
    BY RequestMeets
  <1>3. c = Client[r]
    OBVIOUS
  <1> HIDE DEF ss, s, c
  <1>4. Right(Put(ss, c, s), age, since)
    <2>1. \A x \in Request : (Client[x] # c => since[x] = since[x]) /\ (since[x] # None => age[x] # None)
      BY <1>2 DEF Right, Remembered
    <2> QED BY <1>2, <2>1, PutRight
  <1>5. CASE sess' = ss /\ UNCHANGED <<generation, since>>
    BY <1>1, <1>2, <1>5 DEF IInv
  <1>6. CASE sess' = Put(ss, c, s) /\ UNCHANGED <<generation, since>>
    BY <1>1, <1>2, <1>4, <1>6 DEF IInv
  <1>7. CASE ~InCache(s, r) /\ Outcome(ss, s, r)
    <2> DEFINE tn == Answered(r)
               un == [tn EXCEPT ![r] = 0]
    <2>1. /\ tn \in Counts /\ tn[r] = since[r]
          /\ \A x \in Request \ {r} : tn[x] = IF Client[x] = c /\ since[x] # None /\ since[x] < MaxCached
                                           THEN since[x] + 1 ELSE since[x]
      <3>1. tn = [q \in Request |-> IF q # r /\ Client[q] = c /\ since[q] # None /\ since[q] < MaxCached
                                   THEN since[q] + 1 ELSE since[q]]
        BY <1>3 DEF Answered
      <3> HIDE DEF tn
      <3>2. \A q \in Request : since[q] \in Nat \cup {None}
        BY <1>1 DEF Counts
      <3>3. tn \in Counts
        BY <3>1, <3>2 DEF Counts
      <3> QED BY <3>1, <3>3
    <2> HIDE DEF tn
    <2>2. /\ un \in Counts /\ un[r] = 0
          /\ \A x \in Request \ {r} : un[x] = tn[x]
      BY <2>1 DEF Counts
    <2> HIDE DEF un
    <2>3. \A x \in Request \ {r} : un[x] = IF Client[x] = c /\ since[x] # None /\ since[x] < MaxCached
                                           THEN since[x] + 1 ELSE since[x]
      BY <2>1, <2>2
    <2>4. Right(Put(ss, c, Cached(s, r)), age, tn)
      BY <1>1, <1>2, <1>3, <2>1, StoreRight
    <2>5. ASSUME NEW a \in {None} \cup Allocation, a # None => OneToOne(a)
          PROVE  Right(Put(ss, c, Cached([s EXCEPT !.alloc = a], r)), age, un)
      <3> DEFINE t == [s EXCEPT !.alloc = a]
      <3>1. t \in Session /\ t.idle = 0 /\ t.cache = s.cache /\ t.idle = s.idle /\ t.alloc = a
        BY <1>2 DEF Session
      <3> HIDE DEF t
      <3>2. CacheRight(t, c, age)
        BY <1>2, <3>1 DEF SessionRight, CacheRight
      <3>3. Recalled(t, c, age, since)
        BY <1>2, <3>1 DEF SessionRight, Recalled, Behind
      <3>4. SessionRight(t, c, age, since)
        BY <2>5, <3>1, <3>2, <3>3 DEF SessionRight
      <3>5. Right(Put(ss, c, Cached(t, r)), age, un)
        BY <1>1, <1>2, <1>3, <2>2, <2>3, <3>1, <3>4, StoreRight
      <3> QED BY <3>5 DEF t
    <2>6. \/ sess' = Put(ss, c, Cached(s, r)) /\ since' = tn /\ generation' = generation
          \/ sess' = Put(ss, c, s) /\ UNCHANGED <<generation, since>>
          \/ /\ generation' = generation + 1 /\ since' = un
             /\ sess' = Put(ss, c, Cached([s EXCEPT !.alloc = NewAllocation(r)], r))
          \/ /\ Method[r] # "Allocate" /\ s.alloc # None /\ (Method[r] = "ChannelBind" => ChannelFits(s.alloc, r))
             /\ generation' = generation /\ since' = un
             /\ sess' = Put(ss, c, Cached([s EXCEPT !.alloc = Updated(s.alloc, r)], r))
      BY <1>7 DEF Outcome, c, tn, un
    <2>7. CASE sess' = Put(ss, c, Cached(s, r)) /\ since' = tn /\ generation' = generation
      BY <1>1, <1>2, <2>1, <2>4, <2>7 DEF IInv
    <2>8. CASE sess' = Put(ss, c, s) /\ UNCHANGED <<generation, since>>
      BY <1>6, <2>8
    <2>9. CASE /\ generation' = generation + 1 /\ since' = un
               /\ sess' = Put(ss, c, Cached([s EXCEPT !.alloc = NewAllocation(r)], r))
      <3>1. NewAllocation(r) \in Allocation /\ OneToOne(NewAllocation(r))
        BY <1>1, NewAllocationIs
      <3>2. Right(sess', age, un)
        BY <2>5, <2>9, <3>1
      <3> QED BY <1>1, <1>2, <2>2, <2>9, <3>2 DEF IInv
    <2>10. CASE /\ Method[r] # "Allocate" /\ s.alloc # None /\ (Method[r] = "ChannelBind" => ChannelFits(s.alloc, r))
                /\ generation' = generation /\ since' = un
                /\ sess' = Put(ss, c, Cached([s EXCEPT !.alloc = Updated(s.alloc, r)], r))
      <3>1. s.alloc \in Allocation /\ OneToOne(s.alloc)
        BY <1>2, <2>10, SessionFields DEF SessionRight
      <3>2. /\ Updated(s.alloc, r) \in {None} \cup Allocation
            /\ Updated(s.alloc, r) # None => OneToOne(Updated(s.alloc, r))
        BY <2>10, <3>1, UpdatedIs
      <3>3. Right(sess', age, un)
        BY <2>5, <2>10, <3>2
      <3> QED BY <1>1, <1>2, <2>2, <2>10, <3>3 DEF IInv
    <2> QED BY <2>6, <2>7, <2>8, <2>9, <2>10
  <1> QED BY <1>2, <1>5, <1>6, <1>7

\* A client sends a request, which took no effect before.
LEMMA SendInv ==
  ASSUME IInv, NEW r \in Request, Send(r)
  PROVE  IInv'
  <1> DEFINE bg == [age EXCEPT ![r] = 0]
  <1>1. /\ age \in Ages /\ Right(sess, age, since) /\ sess \in Sessions /\ generation \in Nat
        /\ since \in Counts /\ Remembered(sess, age, since)
    BY DEF IInv, Right
  <1>2. age[r] = None /\ age' = bg /\ sess' = sess /\ generation' = generation /\ since' = since
    BY DEF Send
  <1>3. bg \in Ages /\ \A x \in Request : x # r => bg[x] = age[x]
    BY <1>1 DEF Ages
  <1> HIDE DEF bg
  <1>4. \A x \in Request : since[x] # None => bg[x] = age[x]
    BY <1>1, <1>2, <1>3 DEF Remembered
  <1>5. Remembered(sess, bg, since)
    BY <1>1, <1>4 DEF Remembered
  <1>6. ASSUME NEW d \in DOMAIN sess
        PROVE  SessionRight(sess[d], d, bg, since)
    <2>1. SessionRight(sess[d], d, age, since)
      BY <1>1 DEF Right
    <2>2. sess[d] \in Session
      BY <1>1, SessionsFields
    <2>3. \A i \in 1..Len(sess[d].cache) : sess[d].cache[i].tx \in Request
      BY <2>2, SessionFields
    <2>4. \A i \in 1..Len(sess[d].cache) : bg[sess[d].cache[i].tx] = age[sess[d].cache[i].tx]
      <3>1. \A i \in 1..Len(sess[d].cache) : age[sess[d].cache[i].tx] # None
        BY <2>1 DEF SessionRight, CacheRight
      <3> QED BY <1>2, <1>3, <2>3, <3>1
    <2>5. CacheRight(sess[d], d, bg)
      BY <2>1, <2>4 DEF SessionRight, CacheRight
    <2>6. Recalled(sess[d], d, bg, since)
      BY <1>4, <2>1 DEF SessionRight, Recalled
    <2> QED BY <2>1, <2>5, <2>6 DEF SessionRight
  <1>7. Right(sess, bg, since)
    BY <1>1, <1>5, <1>6 DEF Right
  <1> QED BY <1>1, <1>2, <1>3, <1>7 DEF IInv

\* Time keeps allocations well formed and channels one to a peer.
LEMMA OlderAllocationIs ==
  ASSUME NEW a \in Allocation
  PROVE  OlderAllocation(a) \in Allocation /\ (OneToOne(a) => OneToOne(OlderAllocation(a)))
  <1> DEFINE P == [i \in DOMAIN a.perms |-> Less(a.perms[i])]
             C == [k \in DOMAIN a.chans |-> Older(a.chans[k])]
             u == OlderAllocation(a)
  <1>1. /\ a.left \in Nat /\ DOMAIN a.perms \subseteq Ips /\ DOMAIN a.chans \subseteq Numbers
        /\ \A i \in DOMAIN a.perms : a.perms[i] \in Nat
        /\ \A k \in DOMAIN a.chans : a.chans[k] \in Binding
    BY AllocationFields
  <1>2. \A n \in Nat : Less(n) \in Nat
    BY DEF Less
  <1>3. u = [a EXCEPT !.left = Less(a.left), !.perms = P, !.chans = C]
    BY DEF OlderAllocation
  <1>4. P \in Perms
    <2>1. P \in [DOMAIN a.perms -> Nat]
      BY <1>1, <1>2
    <2> HIDE DEF P
    <2> QED BY <1>1, <2>1 DEF Perms
  <1>5. ASSUME NEW b \in Binding
        PROVE  Older(b) \in Binding /\ Older(b).peer = b.peer
    BY <1>2 DEF Binding, Older
  <1>6. DOMAIN C = DOMAIN a.chans /\ \A k \in DOMAIN a.chans : C[k] \in Binding /\ C[k].peer = a.chans[k].peer
    BY <1>1, <1>5
  <1>7. C \in Chans
    <2>1. C \in [DOMAIN a.chans -> Binding]
      BY <1>6
    <2> HIDE DEF C
    <2> QED BY <1>1, <2>1 DEF Chans
  <1> HIDE DEF P, C, u
  <1>8. u \in Allocation /\ u.chans = C
    BY <1>1, <1>2, <1>3, <1>4, <1>7 DEF Allocation
  <1>9. OneToOne(a) => OneToOne(u)
    BY <1>6, <1>8 DEF OneToOne
  <1> QED BY <1>8, <1>9 DEF u

\* Time keeps sessions well formed: a cached response loses what its request's age gains.
LEMMA OlderSessionIs ==
  ASSUME NEW s \in Session
  PROVE  LET w == OlderSession(s)
         IN  /\ w \in Session /\ w.idle <= s.idle + 1 /\ Len(w.cache) = Len(s.cache)
             /\ \A i \in 1..Len(s.cache) : w.cache[i].tx = s.cache[i].tx /\ w.cache[i].left = Less(s.cache[i].left)
             /\ (s.alloc # None => OneToOne(s.alloc)) => (w.alloc # None => OneToOne(w.alloc))
  <1> DEFINE w == OlderSession(s)
             K == s.cache
             F == [i \in DOMAIN K |-> Older(K[i])]
             I == IF s.idle < IdleLife THEN s.idle + 1 ELSE s.idle
             A == IF s.alloc = None THEN None ELSE OlderAllocation(s.alloc)
  <1>1. /\ s.alloc = None \/ s.alloc \in Allocation
        /\ K \in Seq(Response) /\ Len(K) \in Nat /\ s.idle \in Nat /\ DOMAIN K = 1..Len(K)
        /\ \A i \in 1..Len(K) : K[i] \in Response
    BY SessionFields
  <1>2. \A n \in Nat : Less(n) \in Nat
    BY DEF Less
  <1>3. w = [s EXCEPT !.idle = I, !.cache = F, !.alloc = A]
    BY DEF OlderSession
  <1>4. ASSUME NEW e \in Response
        PROVE  /\ Older(e) \in Response /\ Older(e).tx = e.tx
               /\ Older(e).left = Less(e.left)
    BY <1>2 DEF Response, Older
  <1> HIDE DEF K
  <1>5. F = [i \in 1..Len(K) |-> Older(K[i])]
    BY <1>1
  <1>6. /\ F \in Seq(Response) /\ Len(F) = Len(K)
        /\ \A i \in 1..Len(K) : F[i].tx = K[i].tx /\ F[i].left = Less(K[i].left)
    <2> HIDE DEF F
    <2>1. F \in [1..Len(K) -> Response]
      BY <1>1, <1>4, <1>5
    <2>2. F \in Seq(Response) /\ Len(F) = Len(K)
      BY <1>1, <2>1
    <2>3. \A i \in 1..Len(K) : F[i].tx = K[i].tx /\ F[i].left = Less(K[i].left)
      BY <1>1, <1>4, <1>5
    <2> QED BY <2>2, <2>3
  <1>7. I \in Nat /\ I <= s.idle + 1
    BY <1>1, Constants
  <1>8. /\ A \in {None} \cup Allocation
        /\ (s.alloc # None => OneToOne(s.alloc)) => (A # None => OneToOne(A))
    BY <1>1, OlderAllocationIs
  <1> HIDE DEF F, I, A, w
  <1>9. w \in Session /\ w.idle = I /\ w.cache = F /\ w.alloc = A
    BY <1>3, <1>6, <1>7, <1>8 DEF Session
  <1> QED BY <1>6, <1>7, <1>8, <1>9 DEF w, K

\* Time passes for requests, responses and sessions alike.
LEMMA WaitInv ==
  ASSUME IInv, Wait
  PROVE  IInv'
  <1> DEFINE p == [c \in DOMAIN sess |-> OlderSession(sess[c])]
             bg == [r \in Request |-> IF Underway(r) THEN age[r] + 1 ELSE age[r]]
  <1>1. /\ age \in Ages /\ Right(sess, age, since) /\ sess \in Sessions /\ generation \in Nat
        /\ since \in Counts /\ Remembered(sess, age, since)
    BY DEF IInv, Right
  <1>2. sess' = p /\ age' = bg /\ generation' = generation /\ since' = since
    BY DEF Wait
  <1>3. \A r \in Request : age[r] # None => age[r] \in Nat
    BY <1>1 DEF Ages
  <1>4. \A r \in Request : bg[r] = IF Underway(r) THEN age[r] + 1 ELSE age[r]
    OBVIOUS
  <1>5. bg \in Ages
    <2>1. \A r \in Request : bg[r] \in Nat \cup {None}
      BY <1>3, <1>4 DEF Underway
    <2> QED BY <2>1 DEF Ages
  <1> HIDE DEF bg
  <1>6. \A r \in Request : /\ bg[r] # None <=> age[r] # None
                           /\ age[r] # None /\ age[r] < CacheLife => bg[r] = age[r] + 1
                           /\ age[r] # None /\ ~(age[r] < CacheLife) => bg[r] = age[r]
    BY <1>3, <1>4, Constants DEF Underway
  <1>7. DOMAIN sess \subseteq Clients /\ \A c \in DOMAIN sess : sess[c] \in Session
    BY <1>1, SessionsFields
  <1>8. DOMAIN p = DOMAIN sess /\ \A c \in DOMAIN sess : p[c] = OlderSession(sess[c])
    OBVIOUS
  <1>9. p \in Sessions
    <2>1. p \in [DOMAIN sess -> Session]
      BY <1>7, OlderSessionIs
    <2> HIDE DEF p
    <2> QED BY <1>7, <2>1 DEF Sessions
  <1> HIDE DEF p
  <1>10. \A r \in Request : since[r] # None /\ bg[r] < CacheLife => age[r] < CacheLife
    <2>1. \A r \in Request : since[r] # None => age[r] # None
      BY <1>1 DEF Remembered
    <2> QED BY <1>3, <1>6, <2>1, Constants
  <1>11. ASSUME NEW c \in DOMAIN sess
         PROVE  SessionRight(p[c], c, bg, since)
    <2> DEFINE s == sess[c]
               w == p[c]
               K == s.cache
               F == w.cache
    <2>1. s \in Session /\ w = OlderSession(s)
      BY <1>7, <1>8
    <2>2. (s.alloc # None => OneToOne(s.alloc)) /\ CacheRight(s, c, age) /\ Recalled(s, c, age, since)
      BY <1>1 DEF Right, SessionRight
    <2> HIDE DEF s, w
    <2>3. /\ w.idle <= s.idle + 1 /\ Len(F) = Len(K) /\ w \in Session
          /\ \A i \in 1..Len(K) : F[i].tx = K[i].tx /\ F[i].left = Less(K[i].left)
          /\ w.alloc # None => OneToOne(w.alloc)
      BY <2>1, <2>2, OlderSessionIs
    <2>4. /\ s.idle \in Nat /\ w.idle \in Nat
          /\ \A i \in 1..Len(K) : K[i].tx \in Request /\ K[i].left \in Nat
      BY <2>1, <2>3, SessionFields
    <2>6. ASSUME NEW i \in 1..Len(F)
          PROVE  /\ Client[F[i].tx] = c /\ bg[F[i].tx] # None
                 /\ bg[F[i].tx] + F[i].left >= CacheLife
                 /\ bg[F[i].tx] < CacheLife => w.idle <= bg[F[i].tx]
      <3> DEFINE r == K[i].tx
                 l == K[i].left
      <3>1. /\ F[i].tx = r /\ F[i].left = Less(l) /\ r \in Request /\ l \in Nat
            /\ Client[r] = c /\ age[r] # None /\ age[r] + l >= CacheLife
            /\ age[r] < CacheLife => s.idle <= age[r]
        BY <2>2, <2>3, <2>4, <2>6 DEF CacheRight
      <3> HIDE DEF r, l
      <3>2. age[r] \in Nat /\ bg[r] # None
        BY <1>3, <1>6, <3>1
      <3>3. CASE age[r] < CacheLife
        <4>1. bg[r] = age[r] + 1
          BY <1>6, <3>1, <3>3
        <4>2. bg[r] + Less(l) >= CacheLife
          BY <3>1, <3>2, <3>3, <4>1, Constants DEF Less
        <4>3. w.idle <= bg[r]
          BY <2>3, <2>4, <3>1, <3>2, <3>3, <4>1
        <4> QED BY <3>1, <3>2, <4>2, <4>3
      <3>4. CASE ~(age[r] < CacheLife)
        <4>1. bg[r] = age[r]
          BY <1>6, <3>1, <3>4
        <4>2. Less(l) \in Nat
          BY <3>1 DEF Less
        <4>3. bg[r] + Less(l) >= CacheLife /\ ~(bg[r] < CacheLife)
          BY <3>2, <3>4, <4>1, <4>2, Constants
        <4> QED BY <3>1, <3>2, <4>3
      <3> QED BY <3>3, <3>4
    <2>7. CacheRight(w, c, bg)
      BY <2>6 DEF CacheRight
    <2>8. \A r \in Request : Behind(s, r, since[r]) => Behind(w, r, since[r])
      BY <2>3 DEF Behind
    <2>9. Recalled(w, c, bg, since)
      BY <1>10, <2>2, <2>8 DEF Recalled
    <2> QED BY <2>3, <2>7, <2>9 DEF SessionRight, s, w
  <1>12. Remembered(p, bg, since)
    BY <1>1, <1>6, <1>8, <1>10 DEF Remembered
  <1>13. Right(p, bg, since)
    BY <1>8, <1>9, <1>11, <1>12 DEF Right
  <1> QED BY <1>1, <1>2, <1>5, <1>13 DEF IInv

\* Prune alone: the timer, and the handlers that relay data.
LEMMA PruneInv ==
  ASSUME IInv, sess' = Prune(sess), UNCHANGED <<generation, age, since>>
  PROVE  IInv'
  <1>1. Right(Prune(sess), age, since)
    BY PruneRight DEF IInv
  <1> QED BY <1>1 DEF IInv

\* Every step keeps the invariant.
LEMMA StepInv ==
  ASSUME IInv, [Next]_vars
  PROVE  IInv'
  <1>1. ASSUME NEW r \in Request, Send(r) PROVE IInv'
    BY <1>1, SendInv
  <1>2. ASSUME NEW r \in Request, OnRequest(r) PROVE IInv'
    BY <1>2, OnRequestInv
  <1>3. ASSUME NEW c, NEW k, OnChannelData(c, k) PROVE IInv'
    BY <1>3, PruneInv DEF OnChannelData
  <1>4. ASSUME NEW c, NEW p, OnSendIndication(c, p) PROVE IInv'
    BY <1>4, PruneInv DEF OnSendIndication
  <1>6. ASSUME NEW c, NEW p, OnRelay(c, p) PROVE IInv'
    BY <1>6, PruneInv DEF OnRelay
  <1>7. CASE Tick
    BY <1>7, PruneInv DEF Tick
  <1>8. CASE Wait
    BY <1>8, WaitInv
  <1>9. CASE UNCHANGED vars
    <2>1. sess' = sess /\ generation' = generation /\ age' = age /\ since' = since
      BY <1>9 DEF vars
    <2> QED BY <2>1 DEF IInv
  <1> QED BY <1>1, <1>2, <1>3, <1>4, <1>6, <1>7, <1>8, <1>9 DEF Next

\* The invariant holds in every reachable state.
THEOREM Invariant == Spec => []IInv
  <1>1. Init => IInv
    BY InitInv
  <1>2. IInv /\ [Next]_vars => IInv'
    BY StepInv
  <1> QED BY <1>1, <1>2, PTL DEF Spec

-----------------------------------------------------------------------------
(***************************************************************************)
(* What follows from it.                                                   *)
(***************************************************************************)

\* A request that takes effect did so for the first time, or its client got a
\* cache full of newer responses since.
LEMMA EffectStep ==
  ASSUME IInv, [Next]_vars, ~UNCHANGED vars, done' # None
  PROVE  since[done'] = None \/ since[done'] >= MaxCached
  <1>1. ASSUME NEW r \in Request, OnRequest(r)
        PROVE  since[done'] = None \/ since[done'] >= MaxCached
    <2> DEFINE ss == Prune(sess)
               c == Client[r]
               s == Current(ss, c)
    <2>1. /\ SessionRight(s, c, age, since) /\ age[r] < CacheLife
          /\ \/ sess' = ss /\ done' = None /\ UNCHANGED <<generation, since>>
             \/ sess' = Put(ss, c, s) /\ done' = None /\ UNCHANGED <<generation, since>>
             \/ ~InCache(s, r) /\ Outcome(ss, s, r)
      BY <1>1, RequestMeets
    <2>2. c = Client[r]
      OBVIOUS
    <2> HIDE DEF ss, c, s
    <2>3. ~InCache(s, r) /\ Outcome(ss, s, r)
      BY <2>1
    <2>4. done' = r
      BY <2>3 DEF Outcome
    <2>5. ~Behind(s, r, since[r])
      BY <2>3 DEF Behind, InCache
    <2> QED BY <2>1, <2>2, <2>4, <2>5 DEF SessionRight, Recalled
  <1>2. ASSUME NEW r \in Request, Send(r) PROVE FALSE
    BY <1>2 DEF Send
  <1>3. ASSUME NEW c, NEW k, OnChannelData(c, k) PROVE FALSE
    BY <1>3 DEF OnChannelData
  <1>4. ASSUME NEW c, NEW p, OnSendIndication(c, p) PROVE FALSE
    BY <1>4 DEF OnSendIndication
  <1>5. ASSUME NEW c, NEW p, OnRelay(c, p) PROVE FALSE
    BY <1>5 DEF OnRelay
  <1>6. CASE Tick \/ Wait
    BY <1>6 DEF Tick, Wait
  <1> QED BY <1>1, <1>2, <1>3, <1>4, <1>5, <1>6 DEF Next

\* A request takes effect again, by a retransmitted or duplicated copy, only
\* after its client was given as many other responses as the cache holds; until
\* then its response is in the session's cache whenever a copy can arrive,
\* whatever became of the allocation in between.
THEOREM TakesEffectOnce == Spec => EffectOnce
  <1>1. IInv /\ [Next]_vars => [done' # None => \/ since[done'] = None
                                                \/ since[done'] >= MaxCached]_vars
    BY EffectStep
  <1> QED BY <1>1, Invariant, PTL DEF Spec, EffectOnce

\* An allocation that Prune left is alive with all its channels.
LEMMA Granted ==
  ASSUME IInv, NEW c \in Allocations(Prune(sess))
  PROVE  LET a == Prune(sess)[c].alloc
         IN  /\ a # None /\ a.left > 0
             /\ \A k \in DOMAIN a.chans : a.chans[k].left > 0
             /\ IsInjective([k \in DOMAIN a.chans |-> a.chans[k].peer])
  <1> DEFINE ss == Prune(sess)
             a == ss[c].alloc
  <1>1. Right(ss, age, since) /\ Living(a)
    BY PruneRight DEF IInv
  <1>2. c \in DOMAIN ss /\ a # None
    BY DEF Allocations
  <1>3. OneToOne(a)
    BY <1>1, <1>2 DEF Right, SessionRight
  <1> HIDE DEF ss, a
  <1>4. IsInjective([k \in DOMAIN a.chans |-> a.chans[k].peer])
    BY <1>3 DEF IsInjective, OneToOne
  <1> QED BY <1>1, <1>2, <1>4 DEF Living, a, ss

\* A step relays a datagram under a grant of the allocation it used.
LEMMA GrantStep ==
  ASSUME IInv, RelayedByGrant, [Next]_vars
  PROVE  RelayedByGrant'
  <1> DEFINE ss == Prune(sess)
  <1>1. ASSUME moved' = None PROVE RelayedByGrant'
    BY <1>1 DEF RelayedByGrant
  <1>2. ASSUME NEW c \in Allocations(ss), sess' = ss, NEW dir, NEW via, NEW peer,
               moved' = [dir |-> dir, client |-> c, gen |-> ss[c].alloc.gen, via |-> via, peer |-> peer],
               via # None => via \in DOMAIN ss[c].alloc.chans /\ ss[c].alloc.chans[via].peer = peer,
               HasPermission(ss[c].alloc, peer) \/ (dir = "out" /\ via # None)
        PROVE  RelayedByGrant'
    <2> DEFINE a == ss[c].alloc
    <2>1. /\ a # None /\ a.left > 0
          /\ \A k \in DOMAIN a.chans : a.chans[k].left > 0
          /\ IsInjective([k \in DOMAIN a.chans |-> a.chans[k].peer])
      BY Granted
    <2>2. /\ moved'.client = c /\ moved'.gen = a.gen /\ moved'.via = via /\ moved'.peer = peer
          /\ moved'.dir = dir
      BY <1>2
    <2>3. sess'[moved'.client].alloc = a
      BY <1>2, <2>2
    <2>4. via # None => a.chans[via].peer = peer /\ a.chans[via].left > 0
      BY <1>2, <2>1
    <2>5. HasPermission(a, peer) \/ (dir = "out" /\ via # None)
      BY <1>2
    <2> HIDE DEF a, ss
    <2> QED BY <2>1, <2>2, <2>3, <2>4, <2>5 DEF RelayedByGrant, HasPermission
  <1>3. ASSUME NEW c, NEW k \in Channels, OnChannelData(c, k) PROVE RelayedByGrant'
    <2>1. CASE c \in Allocations(ss) /\ k \in DOMAIN ss[c].alloc.chans
      <3> DEFINE peer == ss[c].alloc.chans[k].peer
      <3>1. sess' = ss /\ moved' = [dir |-> "out", client |-> c, gen |-> ss[c].alloc.gen, via |-> k, peer |-> peer]
        BY <1>3, <2>1 DEF OnChannelData
      <3>2. k # None
        BY DEF Channels
      <3> HIDE DEF ss
      <3> QED BY <1>2, <2>1, <3>1, <3>2
    <2>2. CASE ~(c \in Allocations(ss) /\ k \in DOMAIN ss[c].alloc.chans)
      <3>1. moved' = None
        BY <1>3, <2>2 DEF OnChannelData
      <3> QED BY <1>1, <3>1
    <2> QED BY <2>1, <2>2
  <1>4. ASSUME NEW c, NEW p, OnSendIndication(c, p) PROVE RelayedByGrant'
    <2>1. CASE c \in Allocations(ss) /\ HasPermission(ss[c].alloc, p)
      <3>1. sess' = ss /\ moved' = [dir |-> "out", client |-> c, gen |-> ss[c].alloc.gen, via |-> None, peer |-> p]
        BY <1>4, <2>1 DEF OnSendIndication
      <3> HIDE DEF ss
      <3> QED BY <1>2, <2>1, <3>1
    <2>2. CASE ~(c \in Allocations(ss) /\ HasPermission(ss[c].alloc, p))
      <3>1. moved' = None
        BY <1>4, <2>2 DEF OnSendIndication
      <3> QED BY <1>1, <3>1
    <2> QED BY <2>1, <2>2
  <1>5. ASSUME NEW c, NEW p, OnRelay(c, p) PROVE RelayedByGrant'
    <2> DEFINE id == sess[c].alloc.gen
               a == ss[c].alloc
               bound == {k \in DOMAIN a.chans : a.chans[k].peer = p}
               fits == c \in Allocations(ss) /\ a.gen = id /\ HasPermission(a, p)
    <2>1. /\ sess' = ss
          /\ \/ ~fits /\ moved' = None
             \/ /\ fits
                /\ \E k \in IF bound = {} THEN {None} ELSE bound :
                     moved' = [dir |-> "in", client |-> c, gen |-> id, via |-> k, peer |-> p]
      BY <1>5 DEF OnRelay
    <2>2. CASE moved' = None
      BY <1>1, <2>2
    <2>3. CASE moved' # None
      <3>1. fits
        BY <2>1, <2>3
      <3>2. PICK k \in IF bound = {} THEN {None} ELSE bound :
                   moved' = [dir |-> "in", client |-> c, gen |-> id, via |-> k, peer |-> p]
        BY <2>1, <2>3
      <3>3. k # None => k \in DOMAIN a.chans /\ a.chans[k].peer = p
        BY <3>2
      <3> HIDE DEF ss, id
      <3>4. moved' = [dir |-> "in", client |-> c, gen |-> ss[c].alloc.gen, via |-> k, peer |-> p]
        BY <3>1, <3>2
      <3> QED BY <1>2, <2>1, <3>1, <3>3, <3>4
    <2> QED BY <2>2, <2>3
  <1>6. ASSUME NEW r \in Request, Send(r) \/ OnRequest(r) PROVE RelayedByGrant'
    <2>1. moved' = None
      BY <1>6 DEF Send, OnRequest
    <2> QED BY <1>1, <2>1
  <1>8. CASE Tick \/ Wait
    <2>1. moved' = None
      BY <1>8 DEF Tick, Wait
    <2> QED BY <1>1, <2>1
  <1>9. CASE UNCHANGED vars
    <2>1. moved' = moved /\ sess' = sess
      BY <1>9 DEF vars
    <2> QED BY <2>1 DEF RelayedByGrant, HasPermission
  <1> QED BY <1>3, <1>4, <1>5, <1>6, <1>8, <1>9 DEF Next

\* Data is relayed only for an allocation, within its lifetime, by a permission or, towards the peer, a
\* channel that has not run out; and channels and peers stand for each other.
THEOREM GrantsRespected == Spec => []RelayedByGrant
  <1>1. Init => RelayedByGrant
    BY DEF Init, RelayedByGrant
  <1>2. IInv /\ RelayedByGrant /\ [Next]_vars => RelayedByGrant'
    BY GrantStep
  <1> QED BY <1>1, <1>2, Invariant, PTL DEF Spec
=============================================================================
