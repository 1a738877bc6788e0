-------------------------- MODULE RoomBindingProofs --------------------------
(***************************************************************************)
(* Proofs about RoomBinding: types, that participants are only where the   *)
(* record says, that retirement records cover the tokens still valid, and  *)
(* that the protocol implements RoomPlacement, for any number of processes *)
(* and assignments and any durations with                                  *)
(* MaxReleaseDelay + TokenTtl <= RetireHold.                               *)
(***************************************************************************)
EXTENDS RoomBinding, TLAPS

Id == 1..MaxAssignments
Record == [id : Id, exp : Nat, since : Nat, reported : BOOLEAN]
Token == [proc : Proc, id : Id, exp : Nat]
Candidate == [proc : Proc, id : Id, closing : BOOLEAN]

\* TypeOK with the domains that EXCEPT needs.
Types ==
  /\ clock \in 0..MaxTime
  /\ state \in {"open", "closing", "ended"}
  /\ bound \in Proc \cup {None}
  /\ issued \in 0..MaxAssignments /\ assignment \in 0..issued
  /\ reclaimAfter \in Nat
  /\ tokens \subseteq Token
  /\ live \subseteq Proc /\ crashed \subseteq Proc
  /\ active \in [Proc -> 0..MaxAssignments] /\ activeExp \in [Proc -> Nat]
  /\ members \in [Proc -> 0..MaxMembers]
  /\ retired \in [Proc -> SUBSET Record]
  /\ candidates \subseteq Candidate
  /\ commands \subseteq Message /\ releases \subseteq Message

\* The room's row is consistent, and participants run under an assignment.
RowInv ==
  /\ bound = None <=> assignment = 0
  /\ state = "ended" => bound = None
  /\ state = "closing" => bound # None
  /\ \A p \in Proc : members[p] > 0 => active[p] # 0

\* Somebody knows assignment a as one of process p.
Named(p, a) ==
  \/ bound = p /\ assignment = a
  \/ active[p] = a
  \/ \E x \in retired[p] : x.id = a
  \/ \E t \in tokens : t.proc = p /\ t.id = a
  \/ \E m \in candidates : m.proc = p /\ m.id = a
  \/ \E m \in commands : m.proc = p /\ m.id = a
  \/ \E m \in releases : m.proc = p /\ m.id = a

\* An assignment belongs to one process, and the next one is unused.
NameInv ==
  /\ \A p, o \in Proc, a \in Id : Named(p, a) /\ Named(o, a) => p = o
  /\ \A p \in Proc, a \in Id : Named(p, a) => a <= issued

\* A process runs the assignment on record, which it has not retired.
ActiveInv ==
  \A p \in Proc : active[p] # 0 =>
    /\ p \notin crashed /\ bound = p /\ assignment = active[p]
    /\ \A x \in retired[p] : x.id # active[p]

\* A record lasts for RetireHold, and is acknowledged after the room was released.
RecordInv ==
  \A p \in Proc : \A x \in retired[p] :
    /\ x.since + RetireHold <= x.exp
    /\ x.reported => x.id # assignment

\* A token is for the assignment on record or one its process has retired, and
\* does not outlive the acknowledged record.
TokenInv ==
  \A t \in tokens :
    /\ clock < t.exp /\ t.exp <= clock + TokenTtl
    /\ \A x \in retired[t.proc] : x.id = t.id /\ x.reported => t.exp <= x.exp
    /\ \/ t.proc \in crashed
       \/ bound = t.proc /\ assignment = t.id
       \/ \E x \in retired[t.proc] : x.id = t.id

\* A release that can still change the record is for an assignment that was
\* retired.
ReleaseInv ==
  \A m \in releases :
    \/ m.proc \in crashed \/ assignment # m.id
    \/ \E x \in retired[m.proc] : x.id = m.id

TypeInv == Types /\ RowInv
IInv == TypeInv /\ NameInv /\ ActiveInv /\ RecordInv /\ TokenInv /\ ReleaseInv

-----------------------------------------------------------------------------
\* The larger of two numbers.
LEMMA MaxOfTwo ==
  ASSUME NEW m \in Nat, NEW n \in Nat
  PROVE  Max({m, n}) \in Nat /\ m <= Max({m, n}) /\ n <= Max({m, n})
<1>1. \E x \in {m, n} : \A y \in {m, n} : x >= y
  OBVIOUS
<1> QED BY <1>1 DEF Max

\* What RetireAssignment does, process by process: it adds one record that is not
\* acknowledged and lasts for RetireHold, unless there is a record, and ends the
\* assignment if it is the running one.
LEMMA RetireEffect ==
  ASSUME Types, NEW p \in Proc, NEW a \in Id, RetireAssignment(p, a)
  PROVE  /\ retired' \in [Proc -> SUBSET Record]
         /\ active' \in [Proc -> 0..MaxAssignments] /\ activeExp' \in [Proc -> Nat]
         /\ \A o \in Proc \ {p} : retired'[o] = retired[o] /\ active'[o] = active[o]
         /\ active'[p] = IF active[p] = a THEN 0 ELSE active[p]
         /\ retired[p] \subseteq retired'[p]
         /\ \E x \in retired'[p] : x.id = a
         /\ \A x \in retired'[p] :
              x \in retired[p] \/ (x.id = a /\ ~x.reported /\ x.since + RetireHold <= x.exp)
<1> DEFINE new == [id |-> a, exp |-> RetireUntil(p), since |-> clock, reported |-> FALSE]
<1>1. RetireUntil(p) \in Nat /\ clock + RetireHold <= RetireUntil(p)
  <2>1. clock + RetireHold \in Nat /\ activeExp[p] \in Nat
    BY DurationAssumption DEF Types
  <2> QED BY <2>1, MaxOfTwo DEF RetireUntil
<1>2. new \in Record /\ new.id = a /\ ~new.reported /\ new.since + RetireHold <= new.exp
  BY <1>1 DEF Record, Types
<1>3. retired \in [Proc -> SUBSET Record]
  BY DEF Types
<1>4. active' = [active EXCEPT ![p] = IF @ = a THEN 0 ELSE @]
  BY DEF RetireAssignment
<1>5. activeExp' = [activeExp EXCEPT ![p] = IF active[p] = a THEN 0 ELSE @]
  BY DEF RetireAssignment
<1>6. active' \in [Proc -> 0..MaxAssignments] /\ activeExp' \in [Proc -> Nat]
  BY <1>4, <1>5, BoundAssumption DEF Types
<1>7. CASE a \in RetiredIds(p)
  <2>1. retired' = [retired EXCEPT ![p] = @]
    BY <1>7 DEF RetireAssignment
  <2>2. retired' = retired
    BY <1>3, <2>1
  <2> QED BY <1>3, <1>4, <1>6, <1>7, <2>2 DEF RetiredIds, Types
<1>8. CASE a \notin RetiredIds(p)
  <2>1. retired' = [retired EXCEPT ![p] = @ \cup {new}]
    BY <1>8 DEF RetireAssignment
  <2> HIDE DEF new
  <2>2. retired'[p] = retired[p] \cup {new}
    BY <1>3, <2>1
  <2>3. retired' \in [Proc -> SUBSET Record]
    BY <1>2, <1>3, <2>1
  <2>4. \A o \in Proc \ {p} : retired'[o] = retired[o]
    BY <1>3, <2>1
  <2> QED BY <1>2, <1>3, <1>4, <1>6, <2>2, <2>3, <2>4 DEF Types
<1> QED BY <1>7, <1>8

-----------------------------------------------------------------------------
(***************************************************************************)
(* Types, and the row of the room.                                         *)
(***************************************************************************)

\* Retiring a closed or emptied room keeps the types.
LEMMA RetireTypes ==
  ASSUME TypeInv, NEW p \in Proc, NEW a \in Id, RetireAssignment(p, a),
         active[p] \in {0, a}, members' = [members EXCEPT ![p] = 0],
         UNCHANGED <<clock, control, tokens, live, crashed>>,
         candidates' \subseteq candidates, commands' \subseteq commands,
         releases' \subseteq releases \cup {[proc |-> p, id |-> a]}
  PROVE  TypeInv'
<1>1. [proc |-> p, id |-> a] \in Message
  BY DEF Message, Id
<1>2. members' \in [Proc -> 0..MaxMembers]
  BY BoundAssumption DEF TypeInv, Types
<1>3. Types'
  BY <1>1, <1>2, RetireEffect DEF TypeInv, Types, control, Message
<1>4. \A o \in Proc : members'[o] > 0 => active'[o] # 0
  BY RetireEffect DEF TypeInv, Types, RowInv
<1>5. RowInv'
  BY <1>4 DEF TypeInv, RowInv, control
<1> QED BY <1>3, <1>5 DEF TypeInv

\* A participant who leaves.
LEMMA LeaveTypes ==
  ASSUME TypeInv, NEW p \in Proc, Leave(p)
  PROVE  TypeInv'
<1>1. members[p] \in 1..MaxMembers /\ active[p] \in Id
  BY BoundAssumption DEF Leave, TypeInv, Types, RowInv, Id
<1>2. CASE members[p] = 1
  <2>1. members' = [members EXCEPT ![p] = 0]
    BY <1>2 DEF Leave, TypeInv, Types
  <2> QED BY <1>1, <1>2, <2>1, RetireTypes DEF Leave, net, control
<1>3. CASE members[p] # 1
  <2>1. members' = [members EXCEPT ![p] = @ - 1] /\ UNCHANGED <<active, activeExp, retired>>
    BY <1>3 DEF Leave
  <2>2. members' \in [Proc -> 0..MaxMembers]
    BY <1>1, <2>1, BoundAssumption DEF TypeInv, Types
  <2>3. \A o \in Proc : members'[o] > 0 => active'[o] # 0
    BY <1>1, <2>1 DEF TypeInv, Types, RowInv, Id
  <2> QED BY <2>1, <2>2, <2>3 DEF Leave, TypeInv, Types, RowInv, control, net
<1> QED BY <1>2, <1>3

\* Candidates and commands that close a room, or find that they may not.
LEMMA CloseTypes ==
  ASSUME TypeInv
  PROVE  /\ \A m \in candidates : Reclaim(m) => TypeInv'
         /\ \A m \in commands : Command(m) => TypeInv'
<1>1. ASSUME NEW m \in candidates, Reclaim(m) PROVE TypeInv'
  <2>1. m.proc \in Proc /\ m.id \in Id
    BY DEF TypeInv, Types, Candidate
  <2>2. CASE MayClose(m.proc, m.id, m.closing) /\ CloseRoom(m.proc, m.id)
               /\ releases' = releases \cup {[proc |-> m.proc, id |-> m.id]}
    BY <1>1, <2>1, <2>2, RetireTypes DEF Reclaim, CloseRoom, MayClose
  <2>3. CASE UNCHANGED <<node, releases>>
    BY <1>1, <2>3 DEF Reclaim, TypeInv, Types, RowInv, control, node
  <2> QED BY <1>1, <2>2, <2>3 DEF Reclaim
<1>2. ASSUME NEW m \in commands, Command(m) PROVE TypeInv'
  <2>1. m.proc \in Proc /\ m.id \in Id /\ m = [proc |-> m.proc, id |-> m.id]
    BY DEF TypeInv, Types, Message, Id
  <2>2. CASE MayClose(m.proc, m.id, TRUE) /\ CloseRoom(m.proc, m.id)
               /\ releases' \in {releases, releases \cup {m}}
    BY <1>2, <2>1, <2>2, RetireTypes DEF Command, CloseRoom, MayClose
  <2>3. CASE UNCHANGED <<node, releases>>
    BY <1>2, <2>3 DEF Command, TypeInv, Types, RowInv, control, node
  <2> QED BY <1>2, <2>2, <2>3 DEF Command
<1> QED BY <1>1, <1>2

\* A participant who joins runs the assignment of the token.
LEMMA JoinTypes ==
  ASSUME TypeInv, NEW t \in tokens, Join(t)
  PROVE  TypeInv'
<1> DEFINE p == t.proc
<1>1. p \in Proc /\ t.id \in Id /\ t.exp \in Nat
  BY DEF TypeInv, Types, Token
<1>2. Max({activeExp[p], t.exp + ActiveSlack}) \in Nat
  <2>1. activeExp[p] \in Nat /\ t.exp + ActiveSlack \in Nat
    BY <1>1, DurationAssumption DEF TypeInv, Types
  <2> QED BY <2>1, MaxOfTwo
<1>3. activeExp' = [activeExp EXCEPT ![p] = Max({@, t.exp + ActiveSlack})]
  BY DEF Join
<1>4. activeExp' \in [Proc -> Nat]
  BY <1>1, <1>2, <1>3 DEF TypeInv, Types
<1>5. active' = [active EXCEPT ![p] = t.id] /\ members' = [members EXCEPT ![p] = @ + 1]
      /\ members[p] < MaxMembers
  BY DEF Join
<1>6. active' \in [Proc -> 0..MaxAssignments] /\ members' \in [Proc -> 0..MaxMembers]
  BY <1>1, <1>5, BoundAssumption DEF TypeInv, Types, Id
<1>7. \A o \in Proc : members'[o] > 0 => active'[o] # 0
  BY <1>1, <1>5, BoundAssumption DEF TypeInv, Types, RowInv, Id
<1> QED BY <1>4, <1>6, <1>7 DEF Join, TypeInv, Types, RowInv, control, net

\* The control plane's transactions keep the row consistent.
LEMMA ControlTypes ==
  ASSUME TypeInv, \/ Admit \/ EndRoom \/ \E m \in releases : Release(m)
  PROVE  TypeInv'
<1>1. CASE Admit
  <2>1. PICK p \in Target :
          /\ \/ bound = p /\ UNCHANGED <<bound, assignment, issued>>
             \/ /\ bound # p /\ issued < MaxAssignments
                /\ bound' = p /\ issued' = issued + 1 /\ assignment' = issued'
          /\ tokens' = tokens \cup
               {[proc |-> p, id |-> assignment', exp |-> clock + TokenTtl]}
    BY <1>1 DEF Admit
  <2>2. p \in Proc /\ p # None
    BY NoneAssumption DEF Target, TypeInv, Types
  <2>3. /\ bound' = p /\ issued' \in 0..MaxAssignments /\ assignment' \in 1..issued'
    BY <2>1, <2>2, BoundAssumption DEF TypeInv, Types, RowInv
  <2>4. [proc |-> p, id |-> assignment', exp |-> clock + TokenTtl] \in Token
    BY <2>2, <2>3, DurationAssumption, BoundAssumption DEF Token, Id, TypeInv, Types
  <2>5. reclaimAfter' \in Nat
    BY <1>1, DurationAssumption DEF Admit, TypeInv, Types
  <2>6. Types'
    BY <1>1, <2>1, <2>2, <2>3, <2>4, <2>5 DEF Admit, TypeInv, Types, node, net
  <2>7. RowInv'
    BY <1>1, <2>2, <2>3 DEF Admit, TypeInv, RowInv, node
  <2> QED BY <2>6, <2>7 DEF TypeInv
<1>2. CASE EndRoom
  <2>1. bound \in live => bound \in Proc /\ assignment \in Id
    BY NoneAssumption, BoundAssumption DEF TypeInv, Types, RowInv, Id
  <2>2. commands' \subseteq Message
    BY <1>2, <2>1 DEF EndRoom, TypeInv, Types, Message, Id
  <2> QED BY <1>2, <2>2 DEF EndRoom, TypeInv, Types, RowInv, node
<1>3. ASSUME NEW m \in releases, Release(m) PROVE TypeInv'
  <2>1. retired' \in [Proc -> SUBSET Record]
    <3>1. m.proc \in Proc
      BY DEF TypeInv, Types, Message
    <3>2. retired[m.proc] \subseteq Record
      BY <3>1 DEF TypeInv, Types
    <3>3. \A x \in Record : [x EXCEPT !.reported = TRUE] \in Record
      BY DEF Record
    <3> QED BY <1>3, <3>1, <3>2, <3>3 DEF Release, TypeInv, Types
  <2>2. CASE Matches(m)
    BY <1>3, <2>1, <2>2 DEF Release, TypeInv, Types, RowInv
  <2>3. CASE ~Matches(m)
    BY <1>3, <2>1, <2>3 DEF Release, TypeInv, Types, RowInv
  <2> QED BY <2>2, <2>3
<1> QED BY <1>1, <1>2, <1>3

\* The steps that only pass messages, forget or let time pass.
LEMMA OtherTypes ==
  ASSUME TypeInv,
         \/ \E p \in Proc : \/ ReportRelease(p) \/ NodeTick(p) \/ Crash(p)
                            \/ Heartbeat(p) \/ LeaseChanges(p)
         \/ Advance \/ UNCHANGED vars
  PROVE  TypeInv'
<1>1. ASSUME NEW p \in Proc, ReportRelease(p) PROVE TypeInv'
  <2>1. \A x \in retired[p] : [proc |-> p, id |-> x.id] \in Message
    BY DEF TypeInv, Types, Record, Message, Id
  <2> QED BY <1>1, <2>1 DEF ReportRelease, TypeInv, Types, RowInv, control, node
<1>2. ASSUME NEW p \in Proc, NodeTick(p) PROVE TypeInv'
  BY <1>2 DEF NodeTick, TypeInv, Types, RowInv, control, net
<1>3. ASSUME NEW p \in Proc, Crash(p) PROVE TypeInv'
  BY <1>3, BoundAssumption DEF Crash, TypeInv, Types, RowInv, control, net
<1>4. ASSUME NEW p \in Proc, Heartbeat(p) PROVE TypeInv'
  <2>1. [proc |-> p, id |-> assignment, closing |-> state = "closing"] \in Candidate
    BY <1>4, NoneAssumption, BoundAssumption
       DEF Heartbeat, IsCandidate, TypeInv, Types, RowInv, Candidate, Id
  <2> QED BY <1>4, <2>1 DEF Heartbeat, TypeInv, Types, RowInv, control, node
<1>5. ASSUME NEW p \in Proc, LeaseChanges(p) PROVE TypeInv'
  BY <1>5 DEF LeaseChanges, TypeInv, Types, RowInv, control, node, net
<1>6. CASE Advance
  <2>1. clock' \in 0..MaxTime
    BY <1>6, BoundAssumption DEF Advance, TypeInv, Types
  <2>2. tokens' \subseteq tokens
    BY <1>6 DEF Advance
  <2> QED BY <1>6, <2>1, <2>2 DEF Advance, TypeInv, Types, RowInv, control, node, net
<1>7. CASE UNCHANGED vars
  BY <1>7 DEF vars, TypeInv, Types, RowInv, control, node, net
<1> QED BY <1>1, <1>2, <1>3, <1>4, <1>5, <1>6, <1>7

\* The empty row, and every step.
LEMMA TypeInvariant == Spec => []TypeInv
<1>1. Init => TypeInv
  BY BoundAssumption DEF Init, TypeInv, Types, RowInv
<1>2. TypeInv /\ [Next]_vars => TypeInv'
  BY LeaveTypes, CloseTypes, JoinTypes, ControlTypes, OtherTypes DEF Next
<1> QED BY <1>1, <1>2, PTL DEF Spec

\* The tables of the control plane and of the processes, and the messages between
\* them, always have their types: an assignment id in a message, a record or a
\* running room is one that was issued, never the 0 of an unbound room.
THEOREM BindingTypeCorrect == Spec => []TypeOK
<1>1. TypeInv => TypeOK
  BY DEF TypeInv, Types, TypeOK, Token, Candidate, Record, Id
<1> QED BY <1>1, TypeInvariant, PTL

-----------------------------------------------------------------------------
(***************************************************************************)
(* One home for every assignment, and records that outlast the tokens.     *)
(***************************************************************************)

\* The record of a retirement outlasts the tokens that are issued until the
\* release is handled.  With the durations of the code, 60 s + 60 s <= 120 s.
HoldCovers == 0 < TokenTtl /\ MaxReleaseDelay + TokenTtl <= RetireHold

\* No step but an assignment of the room makes a process known for an id.
NamesShrink ==
  /\ issued' = issued
  /\ \A p \in Proc, a \in Id : Named(p, a)' => Named(p, a)

\* Then an assignment keeps its one process.
LEMMA NamesKept ==
  ASSUME NameInv, NamesShrink
  PROVE  NameInv'
BY DEF NameInv, NamesShrink

\* Retiring a closed or emptied room: its tokens and releases are covered by the
\* record, and no participant is left.
LEMMA RetireStep ==
  ASSUME IInv, TypeInv', NEW p \in Proc, NEW a \in Id, RetireAssignment(p, a),
         active[p] \in {0, a}, Named(p, a), p \notin crashed,
         UNCHANGED <<clock, control, tokens, live, crashed>>,
         candidates' \subseteq candidates, commands' \subseteq commands,
         releases' \subseteq releases \cup {[proc |-> p, id |-> a]}
  PROVE  IInv'
<1>1. /\ \A o \in Proc \ {p} : retired'[o] = retired[o] /\ active'[o] = active[o]
      /\ active'[p] = 0
      /\ retired[p] \subseteq retired'[p]
      /\ \E x \in retired'[p] : x.id = a
      /\ \A x \in retired'[p] :
           x \in retired[p] \/ (x.id = a /\ ~x.reported /\ x.since + RetireHold <= x.exp)
  BY RetireEffect DEF IInv, TypeInv
<1>2. /\ bound' = bound /\ assignment' = assignment /\ issued' = issued
      /\ tokens' = tokens /\ clock' = clock /\ crashed' = crashed
  BY DEF control
<1>3. \A o \in Proc : retired[o] \subseteq retired'[o]
  BY <1>1
<1>4. NameInv'
  <2>1. ASSUME NEW o \in Proc, NEW b \in Id, Named(o, b)' PROVE Named(o, b)
    <3>1. CASE active'[o] = b
      BY <1>1, <3>1 DEF Named, Id
    <3>2. CASE \E x \in retired'[o] : x.id = b
      BY <1>1, <3>2 DEF Named
    <3>3. CASE \E m \in releases' : m.proc = o /\ m.id = b
      BY <3>3 DEF Named
    <3>4. CASE (bound = o /\ assignment = b) \/ \E t \in tokens : t.proc = o /\ t.id = b
      BY <3>4 DEF Named
    <3>5. CASE \/ \E m \in candidates' : m.proc = o /\ m.id = b
               \/ \E m \in commands' : m.proc = o /\ m.id = b
      BY <3>5 DEF Named
    <3> QED BY <1>2, <2>1, <3>1, <3>2, <3>3, <3>4, <3>5 DEF Named
  <2> QED BY <1>2, <2>1, NamesKept DEF NamesShrink, IInv
<1>5. ActiveInv'
  BY <1>1, <1>2 DEF IInv, ActiveInv
<1>6. RecordInv'
  BY <1>1, <1>2 DEF IInv, RecordInv
<1>7. TokenInv'
  <2>1. ASSUME NEW t \in tokens, NEW x \in retired'[t.proc], x.id = t.id, x.reported
        PROVE  t.exp <= x.exp
    <3>1. t.proc \in Proc
      BY DEF IInv, TypeInv, Types, Token
    <3>2. x \in retired[t.proc]
      BY <1>1, <2>1, <3>1
    <3> QED BY <2>1, <3>2 DEF IInv, TokenInv
  <2>2. \A t \in tokens : t.proc \in Proc
    BY DEF IInv, TypeInv, Types, Token
  <2> QED BY <1>2, <1>3, <2>1, <2>2 DEF IInv, TokenInv
<1>8. ReleaseInv'
  <2>1. \A m \in releases : m.proc \in Proc
    BY DEF IInv, TypeInv, Types, Message
  <2> QED BY <1>1, <1>2, <1>3, <2>1 DEF IInv, ReleaseInv
<1> QED BY <1>4, <1>5, <1>6, <1>7, <1>8 DEF IInv

\* A participant who leaves; the last one retires the assignment.
LEMMA LeaveStep ==
  ASSUME IInv, TypeInv', NEW p \in Proc, Leave(p)
  PROVE  IInv'
<1>1. active[p] \in Id /\ p \notin crashed
  <2>1. members[p] \in 0..MaxMembers /\ members[p] > 0
    BY DEF Leave, IInv, TypeInv, Types
  <2> QED BY <2>1, BoundAssumption DEF IInv, TypeInv, Types, RowInv, ActiveInv, Id
<1>2. CASE members[p] = 1
  BY <1>1, <1>2, RetireStep DEF Leave, Named, net, control
<1>3. CASE members[p] # 1
  <2>1. UNCHANGED <<active, retired, clock, bound, assignment, issued, tokens, crashed,
                    candidates, commands, releases>>
    BY <1>3 DEF Leave, net, control
  <2>2. NameInv'
    BY <2>1, NamesKept DEF NamesShrink, Named, IInv
  <2> QED BY <2>1, <2>2 DEF IInv, ActiveInv, RecordInv, TokenInv, ReleaseInv
<1> QED BY <1>2, <1>3

\* Steps that only touch messages: whoever is named in a new one was named before,
\* and a new release is for a retired assignment.
LEMMA MessageStep ==
  ASSUME IInv, TypeInv', NamesShrink,
         UNCHANGED <<clock, bound, assignment, tokens, crashed, active, retired>>,
         \A m \in releases' \ releases : \E x \in retired[m.proc] : x.id = m.id
  PROVE  IInv'
<1>1. NameInv'
  BY NamesKept DEF IInv
<1>2. ActiveInv' /\ RecordInv' /\ TokenInv'
  BY DEF IInv, ActiveInv, RecordInv, TokenInv
<1>3. ReleaseInv'
  BY DEF IInv, ReleaseInv
<1> QED BY <1>1, <1>2, <1>3 DEF IInv

\* Candidates and commands that close a room, or find that they may not.
LEMMA CloseStep ==
  ASSUME IInv, TypeInv'
  PROVE  /\ \A m \in candidates : Reclaim(m) => IInv'
         /\ \A m \in commands : Command(m) => IInv'
<1>1. ASSUME NEW m \in candidates, Reclaim(m) PROVE IInv'
  <2>1. m.proc \in Proc /\ m.id \in Id
    BY DEF IInv, TypeInv, Types, Candidate
  <2>2. CASE m.proc \notin crashed /\ MayClose(m.proc, m.id, m.closing)
               /\ CloseRoom(m.proc, m.id)
               /\ releases' = releases \cup {[proc |-> m.proc, id |-> m.id]}
    <3>1. Named(m.proc, m.id)
      BY DEF Named
    <3> QED BY <1>1, <2>1, <2>2, <3>1, RetireStep DEF Reclaim, CloseRoom, MayClose
  <2>3. CASE UNCHANGED <<node, releases>>
    <3>1. NamesShrink
      BY <1>1, <2>3 DEF NamesShrink, Named, Reclaim, control, node
    <3> QED BY <1>1, <2>3, <3>1, MessageStep DEF Reclaim, control, node
  <2> QED BY <1>1, <2>2, <2>3 DEF Reclaim
<1>2. ASSUME NEW m \in commands, Command(m) PROVE IInv'
  <2>1. m.proc \in Proc /\ m.id \in Id /\ m = [proc |-> m.proc, id |-> m.id]
    BY DEF IInv, TypeInv, Types, Message, Id
  <2>2. CASE m.proc \in live \ crashed /\ MayClose(m.proc, m.id, TRUE)
               /\ CloseRoom(m.proc, m.id) /\ releases' \in {releases, releases \cup {m}}
    <3>1. Named(m.proc, m.id)
      BY DEF Named
    <3> QED BY <1>2, <2>1, <2>2, <3>1, RetireStep DEF Command, CloseRoom, MayClose
  <2>3. CASE UNCHANGED <<node, releases>>
    <3>1. NamesShrink
      BY <1>2, <2>3 DEF NamesShrink, Named, Command, control, node
    <3> QED BY <1>2, <2>3, <3>1, MessageStep DEF Command, control, node
  <2> QED BY <1>2, <2>2, <2>3 DEF Command
<1> QED BY <1>1, <1>2

\* A token that is accepted is one for the assignment on record: had the process
\* retired it, the record would still be there.
LEMMA JoinStep ==
  ASSUME IInv, TypeInv', NEW t \in tokens, Join(t)
  PROVE  IInv'
<1> DEFINE p == t.proc
<1>1. p \in Proc /\ t.id \in Id
  BY DEF IInv, TypeInv, Types, Token
<1>2. /\ active' = [active EXCEPT ![p] = t.id] /\ p \notin crashed
      /\ \A x \in retired[p] : x.id # t.id
      /\ UNCHANGED <<clock, bound, assignment, issued, tokens, crashed, retired,
                     candidates, commands, releases>>
  BY DEF Join, RetiredIds, control, net
<1>3. bound = p /\ assignment = t.id
  BY <1>2 DEF IInv, TokenInv
<1>4. active \in [Proc -> 0..MaxAssignments]
  BY DEF IInv, TypeInv, Types
<1>5. NameInv'
  <2>1. \A o \in Proc, a \in Id : Named(o, a)' => Named(o, a)
    BY <1>1, <1>2, <1>3, <1>4 DEF Named
  <2> QED BY <1>2, <2>1, NamesKept DEF NamesShrink, IInv
<1>6. ActiveInv'
  BY <1>1, <1>2, <1>3, <1>4 DEF IInv, ActiveInv
<1> QED BY <1>2, <1>5, <1>6 DEF IInv, RecordInv, TokenInv, ReleaseInv

\* A new assignment is one nobody knows; a token for the old one is still covered.
LEMMA AdmitStep ==
  ASSUME HoldCovers, IInv, TypeInv', Admit
  PROVE  IInv'
<1>1. PICK p \in Target :
        /\ \/ bound = p /\ UNCHANGED <<bound, assignment, issued>>
           \/ /\ bound # p /\ issued < MaxAssignments
              /\ bound' = p /\ issued' = issued + 1 /\ assignment' = issued'
        /\ tokens' = tokens \cup
             {[proc |-> p, id |-> assignment', exp |-> clock + TokenTtl]}
  BY DEF Admit
<1>2. /\ UNCHANGED <<clock, crashed, active, retired, candidates, commands, releases>>
      /\ p \in Proc /\ p # None
  BY NoneAssumption DEF Admit, node, net, Target, IInv, TypeInv, Types
<1>3. /\ bound' = p /\ assignment' \in Id /\ issued <= issued' /\ assignment' <= issued'
      /\ issued \in Nat /\ issued' \in Nat /\ clock \in Nat /\ TokenTtl \in Nat
  BY <1>1, <1>2, DurationAssumption, BoundAssumption DEF IInv, TypeInv, Types, RowInv, Id
<1> DEFINE new == [proc |-> p, id |-> assignment', exp |-> clock + TokenTtl]
<1>4. new.proc = p /\ new.id = assignment' /\ new.exp = clock + TokenTtl
  OBVIOUS
<1>5. tokens' = tokens \cup {new}
  BY <1>1
<1> HIDE DEF new
<1>6. \A t \in tokens : t.proc \in Proc /\ t.id \in Id /\ t.exp \in Nat
  BY DEF IInv, TypeInv, Types, Token
<1>7. \A m \in releases : m.proc \in Proc /\ m.id \in Id
  BY DEF IInv, TypeInv, Types, Message, Id
<1>8. \A o \in Proc : active[o] \in 0..MaxAssignments /\ \A x \in retired[o] : x.id \in Id
  BY DEF IInv, TypeInv, Types, Record
<1>9. CASE bound = p /\ UNCHANGED <<bound, assignment, issued>>
  <2>1. NameInv'
    <3>1. \A o \in Proc, a \in Id : Named(o, a)' => Named(o, a)
      BY <1>2, <1>4, <1>5, <1>9 DEF Named
    <3> QED BY <1>9, <3>1, NamesKept DEF NamesShrink, IInv
  <2>2. ActiveInv' /\ RecordInv' /\ ReleaseInv'
    BY <1>2, <1>9 DEF IInv, ActiveInv, RecordInv, ReleaseInv
  <2>3. TokenInv'
    <3>1. /\ clock < new.exp /\ new.exp <= clock + TokenTtl
          /\ \A x \in retired[p] : x.id = new.id => ~x.reported
      BY <1>2, <1>3, <1>4, <1>9 DEF HoldCovers, IInv, RecordInv
    <3> QED BY <1>2, <1>4, <1>5, <1>9, <3>1 DEF IInv, TokenInv
  <2> QED BY <2>1, <2>2, <2>3 DEF IInv
<1>10. CASE bound # p /\ issued < MaxAssignments /\ bound' = p /\ issued' = issued + 1
              /\ assignment' = issued'
  <2>1. bound = None /\ assignment = 0
    BY <1>10 DEF Target, IInv, TypeInv, RowInv
  <2>2. \A o \in Proc, a \in Id : Named(o, a)' => Named(o, a) \/ (o = p /\ a = assignment')
    BY <1>2, <1>4, <1>5, <1>10 DEF Named
  <2>3. \A o \in Proc : ~Named(o, assignment')
    BY <1>3, <1>10 DEF IInv, NameInv
  <2>4. NameInv'
    <3>1. \A o \in Proc, a \in Id : Named(o, a)' => a <= issued'
      <4>1. \A o \in Proc, a \in Id : Named(o, a) => a <= issued
        BY DEF IInv, NameInv
      <4> QED BY <1>3, <2>2, <4>1 DEF Id
    <3>2. \A o, r \in Proc, a \in Id : Named(o, a)' /\ Named(r, a)' => o = r
      BY <2>2, <2>3 DEF IInv, NameInv
    <3> QED BY <3>1, <3>2 DEF NameInv
  <2>5. \A o \in Proc : active[o] = 0
    BY <2>1, NoneAssumption DEF IInv, ActiveInv
  <2>6. ActiveInv'
    BY <1>2, <2>5 DEF ActiveInv
  <2>7. \A o \in Proc : \A x \in retired[o] : x.id # assignment'
    BY <2>3 DEF Named
  <2>8. RecordInv'
    BY <1>2, <2>7 DEF IInv, RecordInv
  <2>9. ReleaseInv'
    <3>1. \A m \in releases : m.id # assignment'
      BY <1>7, <2>3 DEF Named
    <3> QED BY <1>2, <3>1 DEF ReleaseInv
  <2>10. TokenInv'
    <3>1. clock < new.exp /\ new.exp <= clock + TokenTtl
      BY <1>3, <1>4 DEF HoldCovers
    <3>2. \A t \in tokens : t.proc \in crashed \/ \E x \in retired[t.proc] : x.id = t.id
      BY <1>6, <2>1, NoneAssumption DEF IInv, TokenInv
    <3> QED BY <1>2, <1>3, <1>4, <1>5, <2>7, <3>1, <3>2 DEF IInv, TokenInv
  <2> QED BY <2>4, <2>6, <2>8, <2>9, <2>10 DEF IInv
<1> QED BY <1>1, <1>9, <1>10

\* A release that comes in time acknowledges records which outlast every token
\* issued so far, and takes the room from a process that has nobody in it.
LEMMA ReleaseStep ==
  ASSUME HoldCovers, IInv, TypeInv', NEW m \in releases, Release(m)
  PROVE  IInv'
<1> DEFINE h == m.proc
<1>1. h \in Proc /\ m.id \in Id
  BY DEF IInv, TypeInv, Types, Message, Id
<1>2. /\ UNCHANGED <<clock, issued, tokens, crashed, active, candidates, commands>>
      /\ releases' \subseteq releases /\ InTime(m)
  BY DEF Release
<1>3. \A o \in Proc : retired[o] \subseteq Record
  BY DEF IInv, TypeInv, Types
<1>4. \A o \in Proc : \A y \in retired'[o] : \E x \in retired[o] :
        /\ y.id = x.id /\ y.exp = x.exp /\ y.since = x.since
        /\ y.reported => x.reported \/ (o = h /\ x.id = m.id)
  <2>1. CASE UNCHANGED retired
    BY <2>1
  <2>2. CASE retired' = [retired EXCEPT ![h] =
               {IF x.id = m.id THEN [x EXCEPT !.reported = TRUE] ELSE x : x \in @}]
    <3>1. \A x \in Record : LET y == [x EXCEPT !.reported = TRUE]
                            IN  y.id = x.id /\ y.exp = x.exp /\ y.since = x.since
      BY DEF Record
    <3>2. retired'[h] = {IF x.id = m.id THEN [x EXCEPT !.reported = TRUE] ELSE x
                           : x \in retired[h]}
      BY <1>1, <2>2 DEF IInv, TypeInv, Types
    <3>3. \A o \in Proc \ {h} : retired'[o] = retired[o]
      BY <2>2 DEF IInv, TypeInv, Types
    <3>4. \A y \in retired'[h] : \E x \in retired[h] :
            /\ y.id = x.id /\ y.exp = x.exp /\ y.since = x.since
            /\ y.reported => x.reported \/ x.id = m.id
      <4>1. ASSUME NEW y \in retired'[h]
            PROVE  \E x \in retired[h] :
                     /\ y.id = x.id /\ y.exp = x.exp /\ y.since = x.since
                     /\ y.reported => x.reported \/ x.id = m.id
        <5>1. PICK x \in retired[h] :
                y = IF x.id = m.id THEN [x EXCEPT !.reported = TRUE] ELSE x
          BY <3>2
        <5>2. x \in Record
          BY <1>1, <1>3
        <5> QED BY <3>1, <5>1, <5>2
      <4> QED BY <4>1
    <3> QED BY <3>3, <3>4
  <2> QED BY <2>1, <2>2 DEF Release
<1>5. \A o \in Proc : \A x \in retired[o] : \E y \in retired'[o] : y.id = x.id
  <2>1. CASE UNCHANGED retired
    BY <2>1
  <2>2. CASE retired' = [retired EXCEPT ![h] =
               {IF x.id = m.id THEN [x EXCEPT !.reported = TRUE] ELSE x : x \in @}]
    <3>1. \A x \in Record : [x EXCEPT !.reported = TRUE].id = x.id
      BY DEF Record
    <3>2. retired'[h] = {IF x.id = m.id THEN [x EXCEPT !.reported = TRUE] ELSE x
                           : x \in retired[h]}
      BY <1>1, <2>2 DEF IInv, TypeInv, Types
    <3>3. \A o \in Proc \ {h} : retired'[o] = retired[o]
      BY <2>2 DEF IInv, TypeInv, Types
    <3> QED BY <1>1, <1>3, <3>1, <3>2, <3>3
  <2> QED BY <2>1, <2>2 DEF Release
<1>6. \/ Matches(m) /\ bound' = None /\ assignment' = 0
      \/ ~Matches(m) /\ bound' = bound /\ assignment' = assignment
  BY DEF Release
<1>7. assignment' # m.id
  <2>1. CASE Matches(m)
    BY <1>1, <1>6, <2>1 DEF Id
  <2>2. CASE ~Matches(m) /\ assignment = m.id
    <3>1. bound \in Proc
      BY <1>1, <2>2 DEF IInv, TypeInv, Types, RowInv, Id
    <3>2. Named(bound, m.id) /\ Named(h, m.id)
      BY <2>2 DEF Named
    <3> QED BY <1>1, <2>2, <3>1, <3>2 DEF IInv, NameInv, Matches
  <2> QED BY <1>6, <2>1, <2>2
<1>8. NameInv'
  <2>1. ASSUME NEW o \in Proc, NEW a \in Id, Named(o, a)' PROVE Named(o, a)
    <3>1. CASE bound' = o /\ assignment' = a
      BY <1>6, <3>1, NoneAssumption DEF Named
    <3>2. CASE \E y \in retired'[o] : y.id = a
      BY <1>4, <3>2 DEF Named
    <3> QED BY <1>2, <2>1, <3>1, <3>2 DEF Named
  <2> QED BY <1>2, <2>1, NamesKept DEF NamesShrink, IInv
<1>9. ActiveInv'
  <2>1. ASSUME NEW o \in Proc, active[o] # 0
        PROVE  /\ o \notin crashed /\ bound = o /\ assignment = active[o]
               /\ \A x \in retired[o] : x.id # active[o]
    BY <2>1 DEF IInv, ActiveInv
  <2>2. ASSUME NEW o \in Proc, active[o] # 0, Matches(m) PROVE FALSE
    BY <2>1, <2>2 DEF IInv, ReleaseInv, Matches
  <2> QED BY <1>2, <1>4, <1>6, <2>1, <2>2 DEF ActiveInv
<1>10. RecordInv'
  <2>1. ASSUME NEW o \in Proc, NEW y \in retired'[o]
        PROVE  y.since + RetireHold <= y.exp /\ (y.reported => y.id # assignment')
    <3>1. PICK x \in retired[o] :
            /\ y.id = x.id /\ y.exp = x.exp /\ y.since = x.since
            /\ y.reported => x.reported \/ (o = h /\ x.id = m.id)
      BY <1>4
    <3>2. x.since + RetireHold <= x.exp /\ (x.reported => x.id # assignment) /\ x.id \in Id
      BY <1>3 DEF IInv, RecordInv, Record
    <3> QED BY <1>6, <1>7, <3>1, <3>2 DEF Id
  <2> QED BY <2>1 DEF RecordInv
<1>11. TokenInv'
  <2>1. ASSUME NEW t \in tokens
        PROVE  /\ clock < t.exp /\ t.exp <= clock + TokenTtl
               /\ \A y \in retired'[t.proc] : y.id = t.id /\ y.reported => t.exp <= y.exp
               /\ \/ t.proc \in crashed
                  \/ bound' = t.proc /\ assignment' = t.id
                  \/ \E y \in retired'[t.proc] : y.id = t.id
    <3>1. t.proc \in Proc /\ t.id \in Id /\ t.exp \in Nat
      BY DEF IInv, TypeInv, Types, Token
    <3>2. clock < t.exp /\ t.exp <= clock + TokenTtl
      BY DEF IInv, TokenInv
    <3>3. ASSUME NEW y \in retired'[t.proc], y.id = t.id, y.reported PROVE t.exp <= y.exp
      <4>1. PICK x \in retired[t.proc] :
              /\ y.id = x.id /\ y.exp = x.exp /\ y.since = x.since
              /\ y.reported => x.reported \/ (t.proc = h /\ x.id = m.id)
        BY <1>4, <3>1
      <4>2. CASE x.reported
        BY <3>3, <4>1, <4>2 DEF IInv, TokenInv
      <4>3. CASE t.proc = h /\ x.id = m.id
        <5>1. clock <= x.since + MaxReleaseDelay /\ x.since + RetireHold <= x.exp
          BY <1>2, <3>1, <4>3 DEF InTime, IInv, RecordInv
        <5>2. x.since \in Nat /\ x.exp \in Nat /\ clock \in Nat
          BY <1>3, <3>1 DEF Record, IInv, TypeInv, Types
        <5>3. {MaxReleaseDelay, TokenTtl, RetireHold} \subseteq Nat
          BY DurationAssumption
        <5> QED BY <3>1, <3>2, <4>1, <5>1, <5>2, <5>3 DEF HoldCovers
      <4> QED BY <3>3, <4>1, <4>2, <4>3
    <3>4. CASE t.proc \in crashed \/ \E x \in retired[t.proc] : x.id = t.id
      BY <1>5, <3>1, <3>2, <3>3, <3>4
    <3>5. CASE bound = t.proc /\ assignment = t.id /\ t.proc \notin crashed
      <4>1. CASE Matches(m)
        <5>1. \E x \in retired[t.proc] : x.id = t.id
          BY <3>5, <4>1 DEF Matches, IInv, ReleaseInv
        <5> QED BY <3>4, <5>1
      <4>2. CASE ~Matches(m)
        BY <1>6, <3>2, <3>3, <3>5, <4>2
      <4> QED BY <4>1, <4>2
    <3> QED BY <3>4, <3>5 DEF IInv, TokenInv
  <2> QED BY <1>2, <2>1 DEF TokenInv
<1>12. ReleaseInv'
  <2>1. ASSUME NEW n \in releases'
        PROVE  \/ n.proc \in crashed \/ assignment' # n.id
               \/ \E y \in retired'[n.proc] : y.id = n.id
    <3>1. n \in releases /\ n.proc \in Proc /\ n.id \in Id
      BY <1>2 DEF IInv, TypeInv, Types, Message, Id
    <3>2. assignment' = n.id => assignment = n.id
      BY <1>6, <3>1 DEF Id
    <3> QED BY <1>5, <3>1, <3>2 DEF IInv, ReleaseInv
  <2> QED BY <1>2, <2>1 DEF ReleaseInv
<1> QED BY <1>8, <1>9, <1>10, <1>11, <1>12 DEF IInv

\* A record is forgotten only when no token is left that it covers.
LEMMA NodeTickStep ==
  ASSUME IInv, TypeInv', NEW p \in Proc, NodeTick(p)
  PROVE  IInv'
<1>1. /\ UNCHANGED <<clock, bound, assignment, issued, tokens, crashed, active,
                     candidates, commands, releases>>
      /\ retired' = [retired EXCEPT ![p] = {x \in @ : ~(x.reported /\ x.exp <= clock)}]
  BY DEF NodeTick, control, net
<1>2. retired \in [Proc -> SUBSET Record] /\ clock \in Nat
  BY DEF IInv, TypeInv, Types
<1>3. \A o \in Proc : retired'[o] \subseteq retired[o]
  BY <1>1, <1>2
<1>4. \A o \in Proc : \A x \in retired[o] \ retired'[o] : x.reported /\ x.exp <= clock
  BY <1>1, <1>2
<1>5. NameInv'
  BY <1>1, <1>3, NamesKept DEF NamesShrink, Named, IInv
<1>6. ActiveInv' /\ RecordInv'
  BY <1>1, <1>3 DEF IInv, ActiveInv, RecordInv
<1>7. TokenInv'
  <2>1. ASSUME NEW t \in tokens, NEW x \in retired[t.proc], x.id = t.id
        PROVE  x \in retired'[t.proc]
    <3>1. t.proc \in Proc /\ t.exp \in Nat /\ clock < t.exp /\ (x.reported => t.exp <= x.exp)
      BY <2>1 DEF IInv, TypeInv, Types, Token, TokenInv
    <3>2. x.exp \in Nat
      BY <1>2, <3>1 DEF Record
    <3> QED BY <1>2, <1>4, <3>1, <3>2
  <2>2. \A t \in tokens : t.proc \in Proc
    BY DEF IInv, TypeInv, Types, Token
  <2> QED BY <1>1, <1>3, <2>1, <2>2 DEF IInv, TokenInv
<1>8. ReleaseInv'
  <2>1. \A n \in releases : n.proc \in Proc
    BY DEF IInv, TypeInv, Types, Message
  <2> QED BY <1>1, <1>4, <2>1 DEF IInv, ReleaseInv, RecordInv
<1> QED BY <1>5, <1>6, <1>7, <1>8 DEF IInv

\* The steps of the environment: crashes, leases, time, and messages sent.
LEMMA OtherStep ==
  ASSUME IInv, TypeInv',
         \/ \E p \in Proc : \/ ReportRelease(p) \/ Crash(p) \/ Heartbeat(p)
                            \/ LeaseChanges(p)
         \/ EndRoom \/ Advance \/ UNCHANGED vars
  PROVE  IInv'
<1>1. ASSUME NEW p \in Proc, ReportRelease(p) PROVE IInv'
  <2>1. PICK x \in retired[p] : releases' = releases \cup {[proc |-> p, id |-> x.id]}
    BY <1>1 DEF ReportRelease
  <2>2. UNCHANGED <<clock, bound, assignment, issued, tokens, crashed, active, retired,
                    candidates, commands>>
    BY <1>1 DEF ReportRelease, control, node
  <2>3. NamesShrink
    BY <2>1, <2>2 DEF NamesShrink, Named
  <2> QED BY <2>1, <2>2, <2>3, MessageStep
<1>2. ASSUME NEW p \in Proc, Crash(p) PROVE IInv'
  <2>1. /\ UNCHANGED <<clock, bound, assignment, issued, tokens, candidates, commands, releases>>
        /\ crashed' = crashed \cup {p}
        /\ active' = [active EXCEPT ![p] = 0] /\ retired' = [retired EXCEPT ![p] = {}]
    BY <1>2 DEF Crash, control, net
  <2>2. /\ active'[p] = 0 /\ retired'[p] = {}
        /\ \A o \in Proc \ {p} : active'[o] = active[o] /\ retired'[o] = retired[o]
    BY <2>1 DEF IInv, TypeInv, Types
  <2>3. NamesShrink
    BY <2>1, <2>2 DEF NamesShrink, Named, Id
  <2>4. NameInv'
    BY <2>3, NamesKept DEF IInv
  <2>5. ActiveInv' /\ RecordInv'
    BY <2>1, <2>2 DEF IInv, ActiveInv, RecordInv
  <2>6. \A t \in tokens : t.proc \in Proc
    BY DEF IInv, TypeInv, Types, Token
  <2>7. \A n \in releases : n.proc \in Proc
    BY DEF IInv, TypeInv, Types, Message
  <2>8. TokenInv'
    BY <2>1, <2>2, <2>6 DEF IInv, TokenInv
  <2>9. ReleaseInv'
    BY <2>1, <2>2, <2>7 DEF IInv, ReleaseInv
  <2> QED BY <2>4, <2>5, <2>8, <2>9 DEF IInv
<1>3. ASSUME NEW p \in Proc, Heartbeat(p) PROVE IInv'
  <2>1. /\ UNCHANGED <<clock, bound, assignment, issued, tokens, crashed, active, retired,
                       commands, releases>>
        /\ bound = p
        /\ candidates' = candidates \cup
             {[proc |-> p, id |-> assignment, closing |-> state = "closing"]}
    BY <1>3 DEF Heartbeat, IsCandidate, control, node
  <2>2. NamesShrink
    BY <2>1 DEF NamesShrink, Named
  <2> QED BY <2>1, <2>2, MessageStep
<1>4. CASE EndRoom
  <2>1. /\ UNCHANGED <<clock, bound, assignment, issued, tokens, crashed, active, retired,
                       candidates, releases>>
        /\ commands' \subseteq commands \cup {[proc |-> bound, id |-> assignment]}
    BY <1>4 DEF EndRoom, node
  <2>2. NamesShrink
    BY <2>1 DEF NamesShrink, Named
  <2> QED BY <2>1, <2>2, MessageStep
<1>5. CASE (\E p \in Proc : LeaseChanges(p)) \/ UNCHANGED vars
  <2>1. UNCHANGED <<clock, bound, assignment, issued, tokens, crashed, active, retired,
                    candidates, commands, releases>>
    BY <1>5 DEF LeaseChanges, control, node, net, vars
  <2>2. NamesShrink
    BY <2>1 DEF NamesShrink, Named
  <2> QED BY <2>1, <2>2, MessageStep
<1>6. CASE Advance
  <2>1. /\ UNCHANGED <<bound, assignment, issued, crashed, active, retired, candidates,
                       commands, releases>>
        /\ clock' = clock + 1 /\ tokens' = {t \in tokens : clock' < t.exp}
    BY <1>6 DEF Advance, control, node, net
  <2>2. NamesShrink
    BY <2>1 DEF NamesShrink, Named
  <2>3. NameInv'
    BY <2>2, NamesKept DEF IInv
  <2>4. ActiveInv' /\ RecordInv' /\ ReleaseInv'
    BY <2>1 DEF IInv, ActiveInv, RecordInv, ReleaseInv
  <2>5. clock \in Nat /\ TokenTtl \in Nat /\ \A t \in tokens : t.exp \in Nat
    BY DurationAssumption DEF IInv, TypeInv, Types, Token
  <2>6. TokenInv'
    BY <2>1, <2>5 DEF IInv, TokenInv
  <2> QED BY <2>3, <2>4, <2>6 DEF IInv
<1> QED BY <1>1, <1>2, <1>3, <1>4, <1>5, <1>6

\* Under HoldCovers the invariant holds from the start and through every step.
LEMMA Invariant ==
  ASSUME HoldCovers
  PROVE  Spec => []IInv
<1>1. Init => IInv
  <2> SUFFICES ASSUME Init PROVE IInv
    OBVIOUS
  <2>1. TypeInv
    BY BoundAssumption DEF Init, TypeInv, Types, RowInv
  <2>2. \A p \in Proc, a \in Id : ~Named(p, a)
    BY NoneAssumption DEF Init, Named, Id
  <2>3. ActiveInv /\ RecordInv /\ TokenInv /\ ReleaseInv
    BY DEF Init, ActiveInv, RecordInv, TokenInv, ReleaseInv
  <2> QED BY <2>1, <2>2, <2>3 DEF IInv, NameInv
<1>2. IInv /\ TypeInv' /\ [Next]_vars => IInv'
  BY LeaveStep, CloseStep, JoinStep, AdmitStep, ReleaseStep, NodeTickStep, OtherStep
     DEF Next
<1> QED BY <1>1, <1>2, TypeInvariant, PTL DEF Spec

\* A process that has participants is the one on record, under the assignment on
\* record, whatever crashes, leases, lost messages and late releases, candidates
\* and commands do, as long as the retirement records outlast the tokens.
THEOREM HostedAtHome ==
  ASSUME HoldCovers
  PROVE  Spec => []HostedIsBound
<1>1. IInv => HostedIsBound
  BY DEF IInv, TypeInv, RowInv, ActiveInv, HostedIsBound
<1> QED BY <1>1, Invariant, PTL

\* A token that is still valid is for the assignment on record or is refused by
\* the process it names: what docs/reference.md claims, under the condition on the
\* durations and on the delay of releases that it needs.
THEOREM RetirementCovers ==
  ASSUME HoldCovers
  PROVE  Spec => []RetirementCoversTokens
<1>1. IInv => RetirementCoversTokens
  BY DEF IInv, TokenInv, RetirementCoversTokens, RetiredIds
<1> QED BY <1>1, Invariant, PTL

-----------------------------------------------------------------------------
(***************************************************************************)
(* RoomBinding implements RoomPlacement.                                   *)
(***************************************************************************)

\* The refinement mapping of the module, named.
Home == IF bound = None THEN None ELSE [proc |-> bound, id |-> assignment]
Hosts == {p \in Proc : members[p] > 0}
Guests == {[proc |-> p, id |-> active[p]] : p \in Hosts}

\* A bound room has a home, and whoever is somewhere is there.
AtHome ==
  /\ bound = None <=> Home = None
  /\ Hosts = {} => Guests = {}
  /\ Hosts # {} => Guests = {Home} /\ Home # None /\ Hosts = {bound}

\* The invariant keeps every guest at home.
LEMMA GuestsAtHome == IInv => AtHome
<1> SUFFICES ASSUME IInv PROVE AtHome
  OBVIOUS
<1>1. bound # None => [proc |-> bound, id |-> assignment] # None
  BY NoneAssumption, BoundAssumption DEF IInv, TypeInv, Types, RowInv
<1>2. bound = None <=> Home = None
  BY <1>1 DEF Home
<1>3. \A p \in Hosts : bound = p /\ assignment = active[p] /\ p # None
  BY NoneAssumption DEF Hosts, IInv, TypeInv, RowInv, ActiveInv
<1>4. Hosts # {} => Guests = {Home} /\ Home # None /\ Hosts = {bound}
  BY <1>2, <1>3 DEF Guests, Home
<1> QED BY <1>2, <1>4 DEF Guests, AtHome

\* The same in the next state.
LEMMA GuestsAtHomeNext == IInv' => AtHome'
BY GuestsAtHome, PTL

\* A step that leaves the row alone is the arrival of the first participant, the
\* departure of the last one, or none of the placement's business.
LEMMA HostsStep ==
  ASSUME IInv, IInv', UNCHANGED control
  PROVE  [Placement!Next]_(Placement!placement)
<1>1. state' = state /\ issued' = issued /\ Home' = Home
  BY DEF control, Home
<1>2. AtHome /\ AtHome'
  BY GuestsAtHome, GuestsAtHomeNext
<1>3. \/ Guests' = Guests
      \/ Guests = {} /\ Guests' = {Home} /\ Home # None
      \/ Guests # {} /\ Guests' = {}
  BY <1>1, <1>2 DEF AtHome
<1>4. CASE Guests' = Guests
  BY <1>1, <1>4 DEF Placement!placement, Home, Guests, Hosts
<1>5. CASE Guests = {} /\ Guests' = {Home} /\ Home # None
  BY <1>1, <1>5 DEF Placement!Next, Placement!Occupy, Home, Guests, Hosts
<1>6. CASE Guests # {} /\ Guests' = {}
  BY <1>1, <1>6 DEF Placement!Next, Placement!Vacate, Home, Guests, Hosts
<1> QED BY <1>3, <1>4, <1>5, <1>6

\* A step that leaves the processes' participants alone leaves the guests alone.
LEMMA GuestsKept ==
  ASSUME UNCHANGED <<active, members>>
  PROVE  Guests' = Guests /\ Hosts' = Hosts
BY DEF Guests, Hosts

\* An admission binds an unbound room under the next assignment, or renews a
\* binding.
LEMMA AdmitPlaces ==
  ASSUME IInv, IInv', Admit
  PROVE  [Placement!Next]_(Placement!placement)
<1>1. PICK p \in Target :
         \/ bound = p /\ UNCHANGED <<bound, assignment, issued>>
         \/ /\ bound # p /\ issued < MaxAssignments
            /\ bound' = p /\ issued' = issued + 1 /\ assignment' = issued'
  BY DEF Admit
<1>2. state = "open" /\ state' = state /\ Guests' = Guests
  BY GuestsKept DEF Admit, node
<1>3. CASE UNCHANGED <<bound, assignment, issued>>
  BY <1>2, <1>3 DEF Placement!placement, Guests, Hosts
<1>4. CASE bound # p /\ issued < MaxAssignments
             /\ bound' = p /\ issued' = issued + 1 /\ assignment' = issued'
  <2>1. bound = None /\ p \in Proc /\ p # None
    BY <1>4, NoneAssumption DEF Target, IInv, TypeInv, Types
  <2>2. Home = None /\ Home' = [proc |-> p, id |-> issued']
    BY <1>4, <2>1 DEF Home
  <2>3. Placement!Assign(p)
    BY <1>2, <1>4, <2>2 DEF Placement!Assign, Home, Guests, Hosts
  <2> QED BY <2>1, <2>3 DEF Placement!Next
<1> QED BY <1>1, <1>3, <1>4

\* A release that matches the record finds nobody there: its assignment was
\* retired, or its process is gone.
LEMMA ReleaseUnbinds ==
  ASSUME IInv, NEW m \in releases, Release(m)
  PROVE  [Placement!Next]_(Placement!placement)
<1>1. Guests' = Guests /\ issued' = issued
  BY GuestsKept DEF Release
<1>2. CASE ~Matches(m)
  BY <1>1, <1>2 DEF Release, Placement!placement, Guests, Hosts
<1>3. CASE Matches(m)
  <2>1. m.proc \in Proc /\ bound = m.proc /\ assignment = m.id
    BY <1>3 DEF Matches, IInv, TypeInv, Types, Message
  <2>2. m.proc \in crashed \/ \E x \in retired[m.proc] : x.id = assignment
    BY <2>1 DEF IInv, ReleaseInv
  <2>3. active[m.proc] = 0
    BY <2>1, <2>2 DEF IInv, ActiveInv
  <2>4. Hosts = {}
    BY <2>1, <2>3 DEF Hosts, IInv, TypeInv, RowInv, ActiveInv
  <2>5. AtHome /\ bound # None
    BY <2>1, NoneAssumption, GuestsAtHome
  <2>6. Home # None /\ Guests = {}
    BY <2>4, <2>5 DEF AtHome
  <2>7. Home' = None /\ state' = IF state = "closing" THEN "ended" ELSE state
    BY <1>3 DEF Release, Home
  <2>8. Placement!Unbind
    BY <1>1, <2>6, <2>7 DEF Placement!Unbind, Home, Guests, Hosts
  <2> QED BY <2>8 DEF Placement!Next
<1> QED BY <1>2, <1>3

\* Ending a meeting: at once without a home, else it is closing, once.
LEMMA EndBegins ==
  ASSUME IInv, EndRoom
  PROVE  [Placement!Next]_(Placement!placement)
<1>1. Guests' = Guests /\ issued' = issued /\ Home' = Home
  BY GuestsKept DEF EndRoom, node, Home
<1>2. (bound = None <=> Home = None) /\ state \in {"open", "closing"}
  BY GuestsAtHome DEF AtHome, EndRoom, IInv, TypeInv, Types
<1>3. CASE state = "open"
  <2>1. state' = IF Home = None THEN "ended" ELSE "closing"
    BY <1>2 DEF EndRoom
  <2>2. Placement!BeginEnd
    BY <1>1, <1>3, <2>1 DEF Placement!BeginEnd, Home, Guests, Hosts
  <2> QED BY <2>2 DEF Placement!Next
<1>4. CASE state = "closing"
  <2>1. state' = state
    BY <1>4 DEF EndRoom, IInv, TypeInv, RowInv
  <2> QED BY <1>1, <2>1 DEF Placement!placement, Home, Guests, Hosts
<1> QED BY <1>2, <1>3, <1>4

\* The protocol implements the placement a meeting is promised: every step is one
\* of RoomPlacement or invisible to it.
THEOREM PlacementImplemented ==
  ASSUME HoldCovers
  PROVE  Spec => ImplementsPlacement
<1>1. Init => Placement!Init
  BY DEF Init, Placement!Init
<1>2. IInv /\ IInv' /\ [Next]_vars => [Placement!Next]_(Placement!placement)
  <2> SUFFICES ASSUME IInv, IInv', [Next]_vars
               PROVE  [Placement!Next]_(Placement!placement)
    OBVIOUS
  <2>1. CASE UNCHANGED control
    BY <2>1, HostsStep
  <2>2. CASE Admit
    BY <2>2, AdmitPlaces
  <2>3. CASE \E m \in releases : Release(m)
    BY <2>3, ReleaseUnbinds
  <2>4. CASE EndRoom
    BY <2>4, EndBegins
  <2>5. UNCHANGED control \/ Admit \/ (\E m \in releases : Release(m)) \/ EndRoom
    BY DEF Next, vars, Leave, ReportRelease, NodeTick, Crash, Heartbeat, LeaseChanges,
           Join, Reclaim, Command, Advance
  <2> QED BY <2>1, <2>2, <2>3, <2>4, <2>5
<1> QED BY <1>1, <1>2, Invariant, PTL DEF Spec, ImplementsPlacement, Placement!Spec
=============================================================================
