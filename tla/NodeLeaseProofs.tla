--------------------------- MODULE NodeLeaseProofs ---------------------------
(***************************************************************************)
(* For any number of processes, any clock granularity and any lease, a     *)
(* process that believes in its lease is the one the control plane agrees  *)
(* on, as long as Renew leaves out at least one second.  The argument      *)
(* needs the lease ends to be ordered: the control plane's expiry is       *)
(* strictly later than the end of every lease it granted that a process    *)
(* holds (HeldUntil of its deadline) or is about to hold (HeldUntil of a   *)
(* reply on its way), and a takeover happens only after that expiry.       *)
(***************************************************************************)
EXTENDS NodeLease, TLAPS

\* The control plane reads the current second, so it lags by less than one.
ClockInv == second <= clock /\ clock < second + Second

\* No lease on record exceeds one granted now, and requests come from the past.
GrantInv ==
  /\ expires <= second + LeaseTicks
  /\ \A r \in requests : r.start <= clock

\* A lease of i that runs until t is backed by the control plane's record.
HeldUntil(i, t) == clock < t => holder = i /\ t < expires

BackedInv ==
  /\ \A i \in Instance : HeldUntil(i, deadline[i])
  /\ \A p \in replies :
       p.status = 200 => HeldUntil(p.inst, RenewedUntil(p.start))

IndInv == TypeOK /\ ClockInv /\ GrantInv /\ BackedInv

\* The initial state satisfies the inductive invariant.
LEMMA InitInv == Init => IndInv
BY SecondAssumption, LeaseAssumption, NoneAssumption
DEF Init, IndInv, TypeOK, ClockInv, GrantInv, BackedInv, HeldUntil, Request,
    ReplyMsg

\* Every step keeps the types of the variables.
LEMMA TypeStep == TypeOK /\ GrantInv /\ [Next]_vars => TypeOK'
<1> SUFFICES ASSUME TypeOK, GrantInv, [Next]_vars PROVE TypeOK'
  OBVIOUS
<1> USE SecondAssumption, LeaseAssumption, MarginAssumption
<1>1. ASSUME NEW i \in Instance, Send(i) PROVE TypeOK'
  <2>1. requests' \subseteq Request
    <3>1. clock \in Nat /\ requests \subseteq Request
      BY DEF TypeOK
    <3>2. PICK b \in BOOLEAN : b = (phase[i] # "running")
      OBVIOUS
    <3>3. requests' = requests \cup
            {[inst |-> i, start |-> clock, register |-> b]}
      BY <1>1, <3>2, Zenon DEF Send
    <3>4. [inst |-> i, start |-> clock, register |-> b] \in Request
      BY <3>1 DEF Request
    <3> QED BY <3>1, <3>3, <3>4
  <2>2. pending' \in [Instance -> Nat \cup {None}]
    BY <1>1 DEF Send, TypeOK
  <2>3. phase' \in [Instance -> {"new", "registering", "running", "stopped"}]
    BY <1>1 DEF Send, TypeOK
  <2> QED BY <1>1, <2>1, <2>2, <2>3 DEF Send, TypeOK, time, control
<1>2. ASSUME NEW i \in Instance, Timeout(i) PROVE TypeOK'
  BY <1>2 DEF Timeout, TypeOK, time, control
<1>3. ASSUME NEW i \in Instance, Stop(i) PROVE TypeOK'
  BY <1>3 DEF Stop, TypeOK, time, control
<1>4. ASSUME NEW r \in requests, Register(r) \/ Heartbeat(r) PROVE TypeOK'
  <2>1. r.inst \in Instance /\ r.start \in Nat
    BY DEF TypeOK, Request
  <2>2. Take(r) /\ (Reply(r, 200) \/ Reply(r, 409))
    BY <1>4 DEF Register, Heartbeat
  <2>3. replies' \subseteq ReplyMsg
    BY <2>1, <2>2 DEF Reply, TypeOK, ReplyMsg
  <2>4. /\ holder' \in Instance \cup {None} /\ expires' \in Nat
        /\ accepted' \subseteq Instance
    BY <1>4, <2>1 DEF Register, Heartbeat, Grant, control, TypeOK
  <2> QED BY <2>2, <2>3, <2>4 DEF Take, TypeOK, time
<1>5. ASSUME NEW r \in requests, Lose(r) PROVE TypeOK'
  BY <1>5 DEF Lose, TypeOK, time, control
<1>6. ASSUME NEW p \in replies, Receive(p) PROVE TypeOK'
  <2>1. p.inst \in Instance /\ p.start \in Nat
    BY DEF TypeOK, ReplyMsg
  <2>2. RenewedUntil(p.start) \in Nat
    BY <2>1 DEF RenewedUntil
  <2>3. deadline' \in [Instance -> Nat]
    BY <1>6, <2>1, <2>2 DEF Receive, TypeOK
  <2>4. phase' \in [Instance -> {"new", "registering", "running", "stopped"}]
    BY <1>6, <2>1 DEF Receive, TypeOK
  <2>5. pending' \in [Instance -> Nat \cup {None}] /\ replies' \subseteq ReplyMsg
    BY <1>6, <2>1 DEF Receive, TypeOK
  <2> QED BY <1>6, <2>3, <2>4, <2>5 DEF Receive, TypeOK, time, control
<1>7. CASE Advance
  BY <1>7 DEF Advance, TypeOK, control
<1>8. CASE UNCHANGED vars
  BY <1>8 DEF vars, TypeOK
<1> QED BY <1>1, <1>2, <1>3, <1>4, <1>5, <1>6, <1>7, <1>8 DEF Next

\* A grant made now outlasts every lease counted from an earlier request start,
\* because the control plane's second began less than a margin ago.
LEMMA GrantOutlasts ==
  ASSUME ClockInv, clock \in Nat, second \in Nat, NEW t \in Nat, t <= clock
  PROVE  RenewedUntil(t) < second + LeaseTicks
BY SecondAssumption, LeaseAssumption, MarginAssumption
DEF ClockInv, RenewedUntil

\* A grant to a process that is the holder, or that replaces an expired one,
\* leaves every lease in use backed.
LEMMA GrantKeepsBacked ==
  ASSUME ClockInv, GrantInv, clock \in Nat, second \in Nat, expires \in Nat,
         NEW i \in Instance, i = holder \/ MayReplace(i), Grant(i),
         UNCHANGED time, NEW j \in Instance, NEW t \in Int, HeldUntil(j, t)
  PROVE  HeldUntil(j, t)'
<1>1. SUFFICES ASSUME clock < t PROVE i = j /\ t < second + LeaseTicks
  BY DEF HeldUntil, Grant, time
<1>2. holder = j /\ t < expires
  BY <1>1 DEF HeldUntil
<1>3. t < second + LeaseTicks
  BY <1>2, LeaseAssumption DEF GrantInv
<1>4. expires > second
  BY <1>1, <1>2 DEF ClockInv
<1>5. i = j
  BY <1>2, <1>4, NoneAssumption DEF MayReplace, ControlSeesLive
<1> QED BY <1>3, <1>5

\* What the control plane does with a request keeps every lease backed, the one
\* its reply promises included.
LEMMA ControlStep ==
  ASSUME IndInv, NEW r \in requests, Register(r) \/ Heartbeat(r)
  PROVE  GrantInv' /\ BackedInv'
<1>1. /\ r.inst \in Instance /\ r.start \in Nat /\ r.start <= clock
      /\ clock \in Nat /\ second \in Nat /\ expires \in Nat /\ LeaseTicks \in Nat
  BY LeaseAssumption DEF IndInv, TypeOK, Request, GrantInv
<1>2. /\ clock' = clock /\ second' = second /\ deadline' = deadline
      /\ requests' = requests \ {r}
  BY DEF Register, Heartbeat, Take, time
<1>3. ASSUME NEW p \in replies
      PROVE  p.inst \in Instance /\ RenewedUntil(p.start) \in Int
  BY LeaseAssumption DEF IndInv, TypeOK, ReplyMsg, RenewedUntil
<1>4. CASE Grant(r.inst) /\ (r.inst = holder \/ MayReplace(r.inst)) /\ Reply(r, 200)
  <2>1. ASSUME NEW j \in Instance, NEW t \in Int, HeldUntil(j, t)
        PROVE  HeldUntil(j, t)'
    BY <1>1, <1>2, <1>4, <2>1, GrantKeepsBacked DEF IndInv, time
  <2>2. GrantInv'
    BY <1>1, <1>2, <1>4 DEF IndInv, GrantInv, Grant
  <2>3. ASSUME NEW j \in Instance PROVE HeldUntil(j, deadline[j])'
    <3>1. deadline[j] \in Int /\ HeldUntil(j, deadline[j])
      BY DEF IndInv, TypeOK, BackedInv
    <3>2. clock < deadline[j] => holder' = j /\ deadline[j] < expires'
      BY <1>2, <2>1, <3>1 DEF HeldUntil
    <3> QED BY <1>2, <3>2 DEF HeldUntil
  <2>4. ASSUME NEW p \in replies', p.status = 200
        PROVE  HeldUntil(p.inst, RenewedUntil(p.start))'
    <3>1. CASE p \in replies
      <4>1. HeldUntil(p.inst, RenewedUntil(p.start))
        BY <2>4, <3>1 DEF IndInv, BackedInv
      <4>2. p.inst \in Instance /\ RenewedUntil(p.start) \in Int
        BY <1>3, <3>1
      <4>3. clock < RenewedUntil(p.start)
              => holder' = p.inst /\ RenewedUntil(p.start) < expires'
        BY <1>2, <2>1, <4>1, <4>2 DEF HeldUntil
      <4> QED BY <1>2, <4>3 DEF HeldUntil, RenewedUntil
    <3>2. CASE p.inst = r.inst /\ p.start = r.start
      <4>1. RenewedUntil(r.start) < second + LeaseTicks
        BY <1>1, GrantOutlasts DEF IndInv
      <4>2. holder' = p.inst /\ RenewedUntil(p.start) < expires'
        BY <1>4, <3>2, <4>1 DEF Grant
      <4> QED BY <4>2 DEF HeldUntil, RenewedUntil
    <3> QED BY <1>4, <2>4, <3>1, <3>2 DEF Reply
  <2> QED BY <2>2, <2>3, <2>4 DEF BackedInv
<1>5. CASE UNCHANGED <<holder, expires>> /\ Reply(r, 409)
  <2>1. \A p \in replies' : p.status = 200 => p \in replies
    BY <1>5 DEF Reply
  <2>2. GrantInv'
    BY <1>2, <1>5 DEF IndInv, GrantInv
  <2> QED BY <1>2, <1>5, <2>1, <2>2 DEF IndInv, BackedInv, HeldUntil, RenewedUntil
<1> QED BY <1>4, <1>5 DEF Register, Heartbeat, control

\* The clock keeps the second within bounds, and lets leases only run out.
LEMMA AdvanceStep ==
  ASSUME IndInv, Advance PROVE ClockInv' /\ GrantInv' /\ BackedInv'
<1>1. /\ clock \in Nat /\ second \in Nat /\ expires \in Nat
      /\ clock' = clock + 1
      /\ second' = IF clock' = second + Second THEN clock' ELSE second
      /\ UNCHANGED <<holder, expires, deadline, requests, replies>>
  BY DEF IndInv, TypeOK, Advance, control
<1>2. ClockInv'
  BY <1>1, SecondAssumption DEF IndInv, ClockInv
<1>3. GrantInv'
  <2>1. expires' <= second' + LeaseTicks
    BY <1>1, SecondAssumption, LeaseAssumption DEF IndInv, GrantInv
  <2>2. \A r \in requests' : r.start <= clock'
    BY <1>1 DEF IndInv, GrantInv, TypeOK, Request
  <2> QED BY <2>1, <2>2 DEF GrantInv
<1>4. ASSUME NEW j, NEW t \in Int, clock < t => holder = j /\ t < expires
      PROVE  clock' < t => holder' = j /\ t < expires'
  BY <1>1, <1>4
<1>5. BackedInv'
  <2>1. ASSUME NEW j \in Instance PROVE HeldUntil(j, deadline[j])'
    <3>1. deadline[j] \in Int /\ HeldUntil(j, deadline[j])
      BY DEF IndInv, TypeOK, BackedInv
    <3> QED BY <1>1, <1>4, <3>1 DEF HeldUntil
  <2>2. ASSUME NEW p \in replies, p.status = 200
        PROVE  HeldUntil(p.inst, RenewedUntil(p.start))'
    <3>1. RenewedUntil(p.start) \in Int
      BY LeaseAssumption DEF IndInv, TypeOK, ReplyMsg, RenewedUntil
    <3>2. HeldUntil(p.inst, RenewedUntil(p.start))
      BY <2>2 DEF IndInv, BackedInv
    <3>3. clock' < RenewedUntil(p.start)
            => holder' = p.inst /\ RenewedUntil(p.start) < expires'
      BY <1>4, <3>1, <3>2 DEF HeldUntil
    <3> QED BY <3>3 DEF HeldUntil, RenewedUntil
  <2> QED BY <1>1, <2>1, <2>2 DEF BackedInv
<1> QED BY <1>2, <1>3, <1>5

\* What a process does keeps every lease backed: it only takes over what a
\* reply promised, or gives a lease up.
LEMMA ClientStep ==
  ASSUME IndInv,
         \/ \E i \in Instance : Send(i) \/ Timeout(i) \/ Stop(i)
         \/ \E r \in requests : Lose(r)
         \/ \E p \in replies : Receive(p)
         \/ UNCHANGED vars
  PROVE  ClockInv' /\ GrantInv' /\ BackedInv'
<1>1. /\ UNCHANGED <<clock, second, holder, expires>>
      /\ clock \in Nat /\ deadline \in [Instance -> Nat]
  BY DEF IndInv, TypeOK, Send, Timeout, Stop, Lose, Receive, vars, time, control
<1>2. ClockInv'
  BY <1>1 DEF IndInv, ClockInv
<1>3. ASSUME NEW r \in requests' PROVE r.start <= clock
  <2>1. CASE r \in requests
    BY <2>1 DEF IndInv, GrantInv
  <2>2. CASE r.start = clock
    BY <1>1, <2>2
  <2>3. ASSUME NEW i \in Instance, Send(i)
        PROVE  r \in requests \/ r.start = clock
    BY <2>3 DEF Send
  <2> QED BY <2>1, <2>2, <2>3 DEF Timeout, Stop, Lose, Receive, vars
<1>4. GrantInv'
  BY <1>1, <1>3 DEF IndInv, GrantInv
<1>5. replies' \subseteq replies
  <2>1. ASSUME NEW i \in Instance, Timeout(i) \/ Stop(i)
        PROVE  replies' \subseteq replies
    BY <2>1 DEF Timeout, Stop
  <2>2. ASSUME NEW p \in replies, Receive(p) PROVE replies' \subseteq replies
    BY <2>2 DEF Receive
  <2> QED BY <2>1, <2>2 DEF Send, Lose, vars
<1>6. ASSUME NEW j \in Instance PROVE HeldUntil(j, deadline[j])'
  <2>1. HeldUntil(j, deadline[j])
    BY DEF IndInv, BackedInv
  <2>2. CASE deadline'[j] = deadline[j]
    BY <1>1, <2>1, <2>2 DEF HeldUntil
  <2>3. CASE deadline'[j] = 0
    BY <1>1, <2>3 DEF HeldUntil
  <2>4. CASE \E p \in replies : /\ p.status = 200 /\ p.inst = j
                                /\ deadline'[j] = RenewedUntil(p.start)
    BY <1>1, <2>4 DEF IndInv, BackedInv, HeldUntil
  <2>5. ASSUME NEW p \in replies, Receive(p)
        PROVE  \/ deadline'[j] = deadline[j] \/ deadline'[j] = 0
               \/ p.status = 200 /\ p.inst = j
                    /\ deadline'[j] = RenewedUntil(p.start)
    BY <1>1, <2>5 DEF Receive
  <2>6. ASSUME NEW i \in Instance, Stop(i)
        PROVE  deadline'[j] = deadline[j] \/ deadline'[j] = 0
    BY <1>1, <2>6 DEF Stop
  <2> QED BY <2>2, <2>3, <2>4, <2>5, <2>6 DEF Send, Timeout, Lose, vars
<1>7. ASSUME NEW p \in replies', p.status = 200
      PROVE  HeldUntil(p.inst, RenewedUntil(p.start))'
  <2>1. HeldUntil(p.inst, RenewedUntil(p.start))
    BY <1>5, <1>7 DEF IndInv, BackedInv
  <2> QED BY <1>1, <2>1 DEF HeldUntil, RenewedUntil
<1> QED BY <1>2, <1>4, <1>6, <1>7 DEF BackedInv

\* The invariant is inductive.
LEMMA InvStep == IndInv /\ [Next]_vars => IndInv'
<1> SUFFICES ASSUME IndInv, [Next]_vars PROVE IndInv'
  OBVIOUS
<1>1. TypeOK'
  BY TypeStep DEF IndInv
<1>2. ASSUME NEW r \in requests, Register(r) \/ Heartbeat(r)
      PROVE  ClockInv' /\ GrantInv' /\ BackedInv'
  <2>1. GrantInv' /\ BackedInv'
    BY <1>2, ControlStep
  <2>2. clock' = clock /\ second' = second
    BY <1>2 DEF Register, Heartbeat, Take, time
  <2> QED BY <2>1, <2>2 DEF IndInv, ClockInv
<1>3. ClockInv' /\ GrantInv' /\ BackedInv'
  BY <1>2, AdvanceStep, ClientStep DEF Next
<1> QED BY <1>1, <1>3 DEF IndInv

\* Every reachable state satisfies the inductive invariant.
LEMMA Reachable == Spec => []IndInv
BY InitInv, InvStep, PTL DEF Spec

\* The lease variables keep their types in every behaviour.
THEOREM LeaseTypeCorrect == Spec => []TypeOK
<1>1. IndInv => TypeOK
  BY DEF IndInv
<1> QED BY <1>1, Reachable, PTL

\* For every number of processes and every lease whose margin is at least a
\* second: a process whose own lease is live is the control plane's holder, and
\* its lease is unexpired there (NodeLease::Renew against Coordinator::Register
\* and Heartbeat).
THEOREM LeaseNeverSplit == Spec => []LeaseAgreement
<1>1. ASSUME IndInv PROVE LeaseAgreement
  <2>1. ASSUME NEW i \in Instance, IsLive(i)
        PROVE  holder = i /\ ControlSeesLive
    <3>1. clock \in Nat /\ second \in Nat /\ expires \in Nat /\ deadline[i] \in Nat
      BY <1>1 DEF IndInv, TypeOK
    <3>2. clock < deadline[i] /\ HeldUntil(i, deadline[i]) /\ second <= clock
      BY <1>1, <2>1 DEF IndInv, BackedInv, IsLive, ClockInv
    <3> QED BY <3>1, <3>2 DEF HeldUntil, ControlSeesLive
  <2> QED BY <2>1 DEF LeaseAgreement
<1> QED BY <1>1, Reachable, PTL

\* A replaced instance never becomes the holder again, whatever delayed message
\* of it arrives (cluster_instances in Coordinator::Register).
THEOREM ReplacedStaysOut == Spec => FencedForever
<1>1. ASSUME [Next]_vars, NEW i \in accepted, holder # i PROVE holder' # i
  <2>1. ASSUME NEW r \in requests, Register(r) PROVE holder' # i
    BY <1>1, <2>1 DEF Register, MayReplace, Grant, control
  <2>2. ASSUME NEW r \in requests, Heartbeat(r) PROVE holder' # i
    BY <1>1, <2>2 DEF Heartbeat, Grant, control
  <2>3. CASE UNCHANGED holder
    BY <1>1, <2>3
  <2> QED BY <1>1, <2>1, <2>2, <2>3
          DEF Next, Send, Timeout, Stop, Lose, Receive, Advance, control, vars
<1>2. [Next]_vars => [\A i \in accepted : holder # i => holder' # i]_vars
  BY <1>1
<1> QED BY <1>2, PTL DEF Spec, FencedForever
=============================================================================
