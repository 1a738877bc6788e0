------------------------------ MODULE NodeLease ------------------------------
(***************************************************************************)
(* The lease of one node id.  Successive processes of a node ("instances") *)
(* register with the control plane and renew by heartbeat; the control     *)
(* plane keeps the holder and its expiry in cluster_nodes and every        *)
(* instance it ever accepted in cluster_instances.  Each process keeps its *)
(* own NodeLease deadline and admits clients only before it.               *)
(*                                                                         *)
(* The control plane reads a clock of whole seconds, a process reads a     *)
(* monotonic clock of milliseconds; `clock` counts ticks of the latter and *)
(* `second` is the tick at which the control plane's current second began. *)
(* Both clocks advance at the same rate.  A request waits in `requests`    *)
(* for any time, also after its sender stopped waiting for the reply.      *)
(***************************************************************************)
EXTENDS Integers, FiniteSets

CONSTANTS Instance,     \* processes started with this node id
          Second,       \* ticks in a second
          LeaseTicks,   \* kLeaseSeconds, in ticks
          MarginTicks,  \* the two seconds Renew leaves out, in ticks
          MaxTime,      \* bound: last tick of the clock
          MaxInFlight,  \* bound: undelivered requests of one process
          None

ASSUME SecondAssumption == Second \in Nat \ {0}
ASSUME LeaseAssumption == LeaseTicks \in Nat /\ MarginTicks \in Nat
ASSUME MarginAssumption == MarginTicks >= Second /\ MarginTicks <= LeaseTicks
ASSUME BoundAssumption == MaxTime \in Nat /\ MaxInFlight \in Nat
ASSUME NoneAssumption == None \notin Instance /\ None \notin Int

VARIABLES clock,      \* ticks
          second,     \* first tick of the control plane's current second
          holder,     \* cluster_nodes.instance, None before the first one
          expires,    \* cluster_nodes.expires, in ticks
          accepted,   \* cluster_instances: every instance ever registered
          phase,      \* NodeClient: "new", "registering", "running", "stopped"
          pending,    \* start of the request the process waits for, or None
          deadline,   \* NodeLease::deadline_
          requests,   \* requests on their way to the control plane
          replies     \* replies on their way back

vars == <<clock, second, holder, expires, accepted, phase, pending, deadline,
          requests, replies>>
control == <<holder, expires, accepted>>
time == <<clock, second>>

Init ==
  /\ clock = 0 /\ second = 0
  /\ holder = None /\ expires = 0 /\ accepted = {}
  /\ phase = [i \in Instance |-> "new"]
  /\ pending = [i \in Instance |-> None]
  /\ deadline = [i \in Instance |-> 0]
  /\ requests = {} /\ replies = {}

-----------------------------------------------------------------------------
\* Mutants of RenewedUntil: the lease is counted without the margin; the lease
\* itself is left out.
RenewedInFull(start) == start + LeaseTicks
RenewedBackwards(start) == start - MarginTicks

\* NodeLease::Renew counts from the start of the request, less the margin.
RenewedUntil(start) == start + LeaseTicks - MarginTicks

IsLive(i) == clock < deadline[i]
ControlSeesLive == expires > second

\* NodeClient::Send: register until accepted, then heartbeat.
Send(i) ==
  /\ phase[i] \in {"new", "registering", "running"} /\ pending[i] = None
  /\ Cardinality({r \in requests : r.inst = i}) < MaxInFlight
  /\ phase' = [phase EXCEPT ![i] = IF @ = "new" THEN "registering" ELSE @]
  /\ pending' = [pending EXCEPT ![i] = clock]
  /\ requests' = requests \cup
       {[inst |-> i, start |-> clock, register |-> phase[i] # "running"]}
  /\ UNCHANGED <<time, control, deadline, replies>>

\* The reply; it has nowhere to go once the sender stopped waiting.
Reply(r, status) ==
  replies' = IF pending[r.inst] = r.start
             THEN replies \cup
                    {[inst |-> r.inst, start |-> r.start, status |-> status]}
             ELSE replies

Take(r) ==
  /\ requests' = requests \ {r}
  /\ UNCHANGED <<time, phase, pending, deadline>>

Grant(i) == holder' = i /\ expires' = second + LeaseTicks

\* Mutant of MayReplace: an instance that was replaced may come back.
MayReplaceAnyone(i) == holder = None \/ ~ControlSeesLive

\* A new holder is accepted once the old lease is over, and never a second time.
MayReplace(i) == (holder = None \/ ~ControlSeesLive) /\ i \notin accepted

\* Coordinator::Register.
Register(r) ==
  /\ r \in requests /\ r.register /\ Take(r)
  /\ \/ /\ r.inst = holder \/ MayReplace(r.inst)
        /\ Grant(r.inst) /\ accepted' = accepted \cup {r.inst}
        /\ Reply(r, 200)
     \/ /\ r.inst # holder /\ ~MayReplace(r.inst)
        /\ Reply(r, 409) /\ UNCHANGED control

\* Coordinator::Heartbeat renews the holder, expired or not, and fences others.
Heartbeat(r) ==
  /\ r \in requests /\ ~r.register /\ Take(r)
  /\ \/ r.inst = holder /\ Grant(r.inst) /\ Reply(r, 200) /\ UNCHANGED accepted
     \/ r.inst # holder /\ Reply(r, 409) /\ UNCHANGED control

\* The process gets the reply it waits for.  A conflict revokes the lease and
\* ends a running client; a registering one tries again.
Receive(p) ==
  /\ p \in replies /\ pending[p.inst] = p.start
  /\ replies' = replies \ {p}
  /\ pending' = [pending EXCEPT ![p.inst] = None]
  /\ \/ /\ p.status = 200
        /\ deadline' = [deadline EXCEPT ![p.inst] = RenewedUntil(p.start)]
        /\ phase' = [phase EXCEPT ![p.inst] = "running"]
     \/ /\ p.status = 409
        /\ deadline' = [deadline EXCEPT ![p.inst] = 0]
        /\ phase' = [phase EXCEPT ![p.inst] =
                       IF @ = "running" THEN "stopped" ELSE @]
  /\ UNCHANGED <<time, control, requests>>

\* The HTTP request times out: the process stops waiting, and a reply that
\* comes later is dropped with the connection.
Timeout(i) ==
  /\ pending[i] # None
  /\ pending' = [pending EXCEPT ![i] = None]
  /\ replies' = {p \in replies : p.inst # i}
  /\ UNCHANGED <<time, control, phase, deadline, requests>>

\* A request never reaches the control plane.
Lose(r) ==
  /\ r \in requests /\ requests' = requests \ {r}
  /\ UNCHANGED <<time, control, phase, pending, deadline, replies>>

\* NodeClient::Stop, a registration that gave up, or a crash of the process.
Stop(i) ==
  /\ phase[i] # "stopped"
  /\ phase' = [phase EXCEPT ![i] = "stopped"]
  /\ pending' = [pending EXCEPT ![i] = None]
  /\ deadline' = [deadline EXCEPT ![i] = 0]
  /\ replies' = {p \in replies : p.inst # i}
  /\ UNCHANGED <<time, control, requests>>

Advance ==
  /\ clock < MaxTime
  /\ clock' = clock + 1
  /\ second' = IF clock' = second + Second THEN clock' ELSE second
  /\ UNCHANGED <<control, phase, pending, deadline, requests, replies>>

Next ==
  \/ \E i \in Instance : Send(i) \/ Timeout(i) \/ Stop(i)
  \/ \E r \in requests : Register(r) \/ Heartbeat(r) \/ Lose(r)
  \/ \E p \in replies : Receive(p)
  \/ Advance

Spec == Init /\ [][Next]_vars

-----------------------------------------------------------------------------
Request == [inst : Instance, start : Nat, register : BOOLEAN]
ReplyMsg == [inst : Instance, start : Nat, status : {200, 409}]

TypeOK ==
  /\ clock \in Nat /\ second \in Nat
  /\ holder \in Instance \cup {None} /\ expires \in Nat
  /\ accepted \subseteq Instance
  /\ phase \in [Instance -> {"new", "registering", "running", "stopped"}]
  /\ pending \in [Instance -> Nat \cup {None}]
  /\ deadline \in [Instance -> Nat]
  /\ requests \subseteq Request /\ replies \subseteq ReplyMsg

\* A process that still admits clients on its own lease is the one the control
\* plane has on record, with a lease the control plane also finds unexpired:
\* two processes of one node never admit at the same time, and a room is never
\* routed away from a process that still admits.
LeaseAgreement ==
  \A i \in Instance : IsLive(i) => holder = i /\ ControlSeesLive

\* Once another instance has taken over, an instance never becomes the holder
\* again, whatever delayed register or heartbeat of it still arrives.
FencedForever ==
  [][\A i \in accepted : holder # i => holder' # i]_vars
=============================================================================
