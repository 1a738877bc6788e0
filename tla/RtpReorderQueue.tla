--------------------------- MODULE RtpReorderQueue ---------------------------
(***************************************************************************)
(* RtpPacketReorderQueue: the packets of one audio SSRC leave in sequence  *)
(* order.  RTP numbers packets modulo a cycle (2^16); the queue unwraps    *)
(* the numbers relative to the next one it expects, holds what came early, *)
(* and gives a gap up when a held packet has waited too long or when too   *)
(* many are held.  A run of consecutive packets far ahead of a stalled     *)
(* stream moves the queue there.                                           *)
(*                                                                         *)
(* The queue belongs to one worker, so every call is one action, at a time *)
(* no earlier than the call before.  Ghost state ties the queue to what    *)
(* the source meant: each packet carries its true index, of which the      *)
(* queue sees only the remainder.                                          *)
(***************************************************************************)
EXTENDS Integers, FiniteSets, FiniteSetsExt, Functions

CONSTANTS Cycle,       \* 2^16, the cycle of RTP sequence numbers
          MaxGap,      \* max_gap_: packets this far ahead do not fit
          MaxCache,    \* max_cache_: packets held at most
          Timeout,     \* flush_timeout_ms
          ResyncRun,   \* consecutive_packets; 0 disables resynchronisation
          Stalled,     \* stalled_ms
          Probation,   \* probation_ms
          MinIndex, MaxIndex,  \* bounds: the packets the source sends
          MaxTime              \* bound: time of the last call

Half == Cycle \div 2

ASSUME CycleAssumption == Cycle \in Nat \ {0} /\ Cycle = 2 * Half
ASSUME WindowAssumption == MaxGap \in 1..Half /\ MaxCache \in 0..(Half - 1)
ASSUME TimeAssumption == {Timeout, Stalled, Probation} \subseteq Nat
ASSUME ResyncAssumption ==
  \/ ResyncRun = 0
  \/ ResyncRun \in 2..(Half - 1) /\ Stalled > 0 /\ Probation > 0
ASSUME BoundAssumption == {MinIndex, MaxIndex, MaxTime} \subseteq Nat

VARIABLES
  now,      \* time of the last call
  started,  \* started_
  q,        \* the members of the queue, see Fresh
  base,     \* ghost: true index of a packet less its extended number
  first     \* ghost: extended number of the first packet

vars == <<now, started, q, base, first>>

Seq16(i) == i % Cycle

\* next_, buffer_ (extended number to packet and arrival), last_progress_, the
\* resync run, the two counters that account for the output, and (ghost) the
\* true indices given to the callback.
Fresh == [next |-> 0, buf |-> <<>>, progress |-> 0, run |-> 0, runLast |-> 0,
          runAt |-> 0, emitted |-> 0, lost |-> 0, out |-> {}]

Init ==
  /\ now = 0 /\ started = FALSE /\ q = Fresh
  /\ base = 0 /\ first = 0

-----------------------------------------------------------------------------
Held(s) == DOMAIN s.buf

\* The first number from n on that is not held.
RunEnd(s, n) == Min({k \in n..(n + Cardinality(Held(s))) : k \notin Held(s)})

ClearResync(s) == [s EXCEPT !.run = 0]

\* What is held below `to` is emitted in order, the other numbers are lost.
AdvanceTo(s, to, t) ==
  LET gone == {e \in Held(s) : e < to}
  IN  [s EXCEPT !.next = to,
                !.buf = Restrict(@, Held(s) \ gone),
                !.emitted = @ + Cardinality(gone),
                !.out = @ \cup {s.buf[e].idx : e \in gone},
                !.lost = @ + (to - s.next) - Cardinality(gone),
                !.progress = IF gone = {} THEN @ ELSE t,
                !.run = IF gone = {} THEN @ ELSE 0]

\* Emit: one packet that was not held leaves.
Emit(s, e, i, t) ==
  [s EXCEPT !.next = e + 1, !.emitted = @ + 1, !.out = @ \cup {i},
            !.progress = t, !.run = 0]

FlushBuffered(s, t) == AdvanceTo(s, RunEnd(s, s.next), t)

\* SkipToFirst, then flushBuffered.
SkipGap(s, t) == AdvanceTo(s, RunEnd(s, Min(Held(s))), t)

Expired(s, t) == {e \in Held(s) : t - s.buf[e].at >= Timeout}

\* Mutant of FlushExpired: only the packet next in line is looked at.
FlushExpiredHeadOnly(s, t) ==
  IF Held(s) # {} /\ Min(Held(s)) \in Expired(s, t) THEN SkipGap(s, t) ELSE s

\* flushExpired: a run that took too long is forgotten; gaps are skipped until
\* no held packet has waited for the timeout.  Skipping goes in order, so it
\* ends with the run that holds the last expired packet.
FlushExpired(s, t) ==
  LET r == IF s.run > 0 /\ t - s.runAt >= Probation THEN ClearResync(s) ELSE s
  IN  IF Expired(s, t) = {} THEN r
      ELSE AdvanceTo(r, RunEnd(s, Max(Expired(s, t))), t)

\* ConfirmForwardResync: the run of consecutive packets seen far ahead.
MayResync(s, t) == ResyncRun > 0 /\ Held(s) = {} /\ t - s.progress >= Stalled

Observe(s, n, t) ==
  CASE ~MayResync(s, t) -> ClearResync(s)
    [] MayResync(s, t) /\ s.run > 0 /\ n = s.runLast -> s
    [] MayResync(s, t) /\ s.run > 0 /\ n = Seq16(s.runLast + 1) ->
         [s EXCEPT !.run = @ + 1, !.runLast = n]
    [] OTHER -> [s EXCEPT !.run = 1, !.runAt = t, !.runLast = n]

Confirmed(s) == ResyncRun > 0 /\ s.run >= ResyncRun

\* How far ahead the queue takes packet i to be; beyond Half it is behind.
Delta(s, i) == (Seq16(i) - s.next) % Cycle

\* Mutant of IsLate: only packets just behind are taken to be late.
IsLateNearby(d) == d > Cycle - MaxGap

IsLate(d) == d > Half

\* Mutant of Extended: the carry into the next cycle is forgotten.
ExtendedSameCycle(s, i) == s.next - Seq16(s.next) + Seq16(i)

\* The extended number of a packet that is ahead.
Extended(s, i) == s.next + Delta(s, i)

\* Mutant of Jump: the numbers jumped over are not counted.
JumpUncounted(s, i, t) ==
  LET r == Observe(s, Seq16(i), t)
  IN  IF Confirmed(r) THEN Emit(r, Extended(s, i), i, t) ELSE r

\* A packet beyond the window: move there once the run is confirmed.
Jump(s, i, t) ==
  LET r == Observe(s, Seq16(i), t)
  IN  IF Confirmed(r)
      THEN [Emit(r, Extended(s, i), i, t) EXCEPT !.lost = @ + Delta(s, i)]
      ELSE r

Hold(s, i, t) ==
  [s EXCEPT !.buf = [e \in Held(s) \cup {Extended(s, i)} |->
     IF e \in Held(s) THEN s.buf[e] ELSE [idx |-> i, at |-> t]]]

\* Mutant of Overfull: one packet too many is held.
OverfullByOne(s) == Cardinality(Held(s)) > MaxCache + 1

Overfull(s) == Cardinality(Held(s)) > MaxCache

\* inputPacket after it has flushed what expired.
Accept(s, i, t) ==
  LET d == Delta(s, i)
  IN  CASE d = Half -> ClearResync(s)
        [] d # Half /\ IsLate(d) -> s
        [] d # Half /\ ~IsLate(d) /\ d >= MaxGap -> Jump(s, i, t)
        [] d = 0 /\ ~IsLate(d) -> FlushBuffered(Emit(s, s.next, i, t), t)
        [] OTHER ->
             LET h == Hold(ClearResync(s), i, t)
             IN  IF Extended(s, i) \in Held(s) THEN ClearResync(s)
                 ELSE FlushExpired(IF Overfull(h) THEN SkipGap(h, t) ELSE h, t)

-----------------------------------------------------------------------------
\* The first packet fixes the numbering.
InputFirst(i, t) ==
  /\ ~started /\ started' = TRUE /\ now' = t
  /\ q' = Emit([q EXCEPT !.next = Seq16(i)], Seq16(i), i, t)
  /\ base' = i - Seq16(i) /\ first' = Seq16(i)

\* RTP's own assumption: a packet is within half a cycle of the expected one.
Plausible(s, i) == i - base - s.next \in (-Half)..Half

Input(i, t) ==
  /\ started /\ now' = t
  /\ LET s == FlushExpired(q, t)
     IN  Plausible(s, i) /\ q' = Accept(s, i, t)
  /\ UNCHANGED <<started, base, first>>

\* TickReceive and acquirePacket: flushExpired.
Tick(t) ==
  /\ now' = t /\ q' = FlushExpired(q, t)
  /\ UNCHANGED <<started, base, first>>

\* flushTimeout: every gap is skipped at once.
Drain(t) ==
  /\ now' = t
  /\ q' = IF Held(q) = {} THEN ClearResync(q)
          ELSE AdvanceTo(ClearResync(q), Max(Held(q)) + 1, t)
  /\ UNCHANGED <<started, base, first>>

\* reset: the marks of the resync run keep their old values.
Reset ==
  /\ started /\ started' = FALSE /\ base' = 0 /\ first' = 0
  /\ q' = [Fresh EXCEPT !.runLast = q.runLast, !.runAt = q.runAt]
  /\ UNCHANGED now

Next ==
  \/ \E t \in now..MaxTime, i \in MinIndex..MaxIndex : InputFirst(i, t)
  \/ \E t \in now..MaxTime, i \in MinIndex..MaxIndex : Input(i, t)
  \/ \E t \in now..MaxTime : Tick(t)
  \/ \E t \in now..MaxTime : Drain(t)
  \/ Reset

Spec == Init /\ [][Next]_vars

-----------------------------------------------------------------------------
\* Type correctness, with the bound on what is held and on the resync run.
TypeOK ==
  /\ now \in Nat /\ started \in BOOLEAN /\ base \in Nat /\ first \in Nat
  /\ q.next \in Nat /\ Held(q) \subseteq Nat
  /\ \A e \in Held(q) : q.buf[e].idx \in Nat /\ q.buf[e].at \in 0..now
  /\ q.progress \in 0..now /\ q.runAt \in 0..now
  /\ q.run \in 0..ResyncRun /\ q.runLast \in 0..(Cycle - 1)
  /\ q.emitted \in Nat /\ q.lost \in Nat /\ q.out \subseteq Nat
  /\ Cardinality(Held(q)) <= MaxCache

\* Every number from the first packet to the expected one was given to the
\* callback once or counted as lost once, through wraps, timeouts, overflows
\* and jumps; no packet is given out twice.
OutputAccount ==
  /\ q.emitted + q.lost = q.next - first
  /\ q.emitted = Cardinality(q.out)

\* The queue unwraps sequence numbers correctly: what it holds under an extended
\* number is the packet the source sent under it, ahead of the expected one and
\* within the window, and what it gave out lies behind.
TrueIndex ==
  /\ \A e \in Held(q) : /\ q.buf[e].idx = e + base
                        /\ q.next < e /\ e < q.next + MaxGap
  /\ \A i \in q.out : i < q.next + base

\* "Deadlines belong to the blocked packets; new arrivals never extend them":
\* after any call no held packet has waited for the timeout, whichever packet
\* of the queue it is.
NoStall == \A e \in Held(q) : now - q.buf[e].at < Timeout

\* Packets leave in the order the source sent them.
InOrder ==
  [][\A i \in q'.out \ q.out : \A j \in q.out : j < i]_vars
=============================================================================
