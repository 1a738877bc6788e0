-------------------------- MODULE RtpReceiveProofs --------------------------
(***************************************************************************)
(* Proofs about the receive side of RTP, for any space of sequence         *)
(* numbers, limits and times.                                              *)
(*                                                                         *)
(* RtpReorderQueue: sequence numbers are unwrapped correctly, every number *)
(* is given out or counted lost exactly once and in order, and no packet   *)
(* waits beyond its deadline.                                              *)
(*                                                                         *)
(* NackRequester, in the second half: a packet is requested only while it  *)
(* is missing, and each request has time to be answered.                   *)
(***************************************************************************)
EXTENDS RtpReorderQueue, NackRequester, FiniteSetTheorems, WellFoundedInduction, TLAPS

-----------------------------------------------------------------------------
(***************************************************************************)
(* Numbers modulo the cycle.                                               *)
(***************************************************************************)

\* The constants are numbers; the window is less than half a cycle.
LEMMA Constants ==
  /\ Cycle \in Nat /\ Half \in Nat /\ Half > 0 /\ Cycle = 2 * Half
  /\ MaxGap \in Nat /\ MaxGap > 0 /\ MaxGap <= Half /\ MaxCache \in Nat
  /\ Timeout \in Nat /\ Stalled \in Nat /\ Probation \in Nat
  /\ ResyncRun \in Nat /\ ResyncRun # 1
  /\ MinIndex \in Nat /\ MaxIndex \in Nat /\ MaxTime \in Nat
  <1>1. Cycle \in Nat /\ Cycle # 0 /\ Cycle = 2 * Half
    BY CycleAssumption
  <1>2. Half \in Int
    BY <1>1 DEF Half
  <1>3. Half \in Nat /\ Half > 0
    BY <1>1, <1>2
  <1> HIDE DEF Half
  <1>4. MaxGap \in Nat /\ MaxGap > 0 /\ MaxGap <= Half /\ MaxCache \in Nat
    BY <1>3, WindowAssumption
  <1>5. ResyncRun \in Nat /\ ResyncRun # 1
    BY <1>3, ResyncAssumption
  <1>6. Timeout \in Nat /\ Stalled \in Nat /\ Probation \in Nat
    BY TimeAssumption
  <1>7. MinIndex \in Nat /\ MaxIndex \in Nat /\ MaxTime \in Nat
    BY BoundAssumption
  <1> QED BY <1>1, <1>3, <1>4, <1>5, <1>6, <1>7

\* Multiples of the cycle are a cycle apart.
LEMMA Multiple ==
  ASSUME NEW n \in Int
  PROVE  (n >= 1 => n * Cycle >= Cycle) /\ (n <= -1 => n * Cycle <= -Cycle) /\ n * Cycle \in Int
  <1>1. Cycle \in Nat \ {0}
    BY CycleAssumption
  <1>2. n >= 1 => n * Cycle >= Cycle
    BY <1>1
  <1>3. n <= -1 => n * Cycle <= -Cycle
    BY <1>1
  <1> QED BY <1>1, <1>2, <1>3

\* A number is a multiple of the cycle and a remainder.
LEMMA Remainder ==
  ASSUME NEW a \in Int
  PROVE  /\ a % Cycle \in 0..(Cycle - 1) /\ a \div Cycle \in Int
         /\ a = (a \div Cycle) * Cycle + (a % Cycle)
  <1>1. Cycle \in Nat \ {0}
    BY CycleAssumption
  <1>2. a % Cycle \in 0..(Cycle - 1)
    BY <1>1
  <1>3. a \div Cycle \in Int
    BY <1>1
  <1>4. a = (a \div Cycle) * Cycle + (a % Cycle)
    BY <1>1, <1>3
  <1> QED BY <1>2, <1>3, <1>4

\* There is only one such remainder.
LEMMA RemainderUnique ==
  ASSUME NEW a \in Int, NEW k \in Int, NEW r \in 0..(Cycle - 1), a = k * Cycle + r
  PROVE  a % Cycle = r
  <1> DEFINE x == a % Cycle
             m == a \div Cycle
  <1>1. x \in 0..(Cycle - 1) /\ m \in Int /\ a = m * Cycle + x
    BY Remainder
  <1> HIDE DEF x, m
  <1>2. (m - k) \in Int /\ (m - k) * Cycle = r - x
    BY <1>1, Constants
  <1>3. m - k < 1 /\ m - k > -1
    BY <1>1, <1>2, Multiple, Constants
  <1>4. m - k = 0
    BY <1>1, <1>3
  <1>5. r - x = 0
    BY <1>2, <1>4, Constants
  <1>6. x = r
    BY <1>1, <1>5, Constants
  <1> QED BY <1>6 DEF x

\* The distance the queue computes is the true one, when that is within half a
\* cycle and the queue's numbers are off by whole cycles only.
LEMMA Unwrap ==
  ASSUME NEW i \in Nat, NEW n \in Nat, NEW k \in Int,
         (i - k * Cycle) - n \in (-Half)..Half
  PROVE  LET e == (i - k * Cycle) - n
             d == (Seq16(i) - n) % Cycle
         IN  d \in 0..(Cycle - 1) /\ (e >= 0 => d = e) /\ (e < 0 => d = e + Cycle)
  <1> DEFINE e == (i - k * Cycle) - n
             x == i % Cycle
             m == i \div Cycle
  <1>0. Cycle \in Nat /\ Half \in Nat /\ Half > 0 /\ Cycle = 2 * Half
    BY Constants
  <1>1. x \in 0..(Cycle - 1) /\ m \in Int /\ i = m * Cycle + x
    BY Remainder
  <1>2. e \in Int /\ e >= -Half /\ e <= Half
    BY <1>0, Multiple
  <1> HIDE DEF x, m
  <1>3. x - n = (k - m) * Cycle + e
    BY <1>0, <1>1
  <1>4. x - n \in Int /\ k - m \in Int /\ (k - m) - 1 \in Int
    BY <1>0, <1>1
  <1>5. x - n = ((k - m) - 1) * Cycle + (e + Cycle)
    BY <1>0, <1>1
  <1> HIDE DEF e
  <1>6. ASSUME e >= 0 PROVE (x - n) % Cycle = e
    <2>1. e \in 0..(Cycle - 1)
      BY <1>0, <1>2, <1>6
    <2> QED BY <1>3, <1>4, <2>1, RemainderUnique
  <1>7. ASSUME e < 0 PROVE (x - n) % Cycle = e + Cycle
    <2>1. e + Cycle \in 0..(Cycle - 1)
      BY <1>0, <1>2, <1>7
    <2> QED BY <1>4, <1>5, <2>1, RemainderUnique
  <1>8. (x - n) % Cycle \in 0..(Cycle - 1)
    BY <1>4, Remainder
  <1> QED BY <1>6, <1>7, <1>8 DEF e, x, Seq16

-----------------------------------------------------------------------------
(***************************************************************************)
(* Least and greatest numbers of a set.                                    *)
(***************************************************************************)

\* A set of natural numbers that is not empty has a least member.
LEMMA LeastNumber ==
  ASSUME NEW S \in SUBSET Nat, S # {}
  PROVE  \E x \in S : \A y \in S : x <= y
  <1> DEFINE R == {ss \in Nat \X Nat : ss[1] < ss[2]}
  <1>1. IsWellFoundedOn(R, Nat)
    BY NatLessThanWellFounded DEF OpToRel
  <1> HIDE DEF R
  <1>2. PICK x \in S : \A y \in S : ~(<<y, x>> \in R)
    BY <1>1, WFMin
  <1>3. \A y \in S : ~(y < x)
    BY <1>2 DEF R
  <1> QED BY <1>2, <1>3

\* The least of a non-empty set of numbers.
LEMMA MinIs ==
  ASSUME NEW S \in SUBSET Nat, S # {}
  PROVE  Min(S) \in S /\ \A y \in S : Min(S) <= y
  BY LeastNumber DEF Min

\* The greatest of a non-empty set of numbers that has a bound.
LEMMA MaxIs ==
  ASSUME NEW S \in SUBSET Nat, S # {}, NEW b \in Nat, \A x \in S : x <= b
  PROVE  Max(S) \in S /\ \A y \in S : y <= Max(S)
  <1> DEFINE T == {n \in Nat : b - n \in S}
  <1>1. PICK x \in S : TRUE
    OBVIOUS
  <1>2. b - x \in Nat /\ b - (b - x) = x
    BY <1>1
  <1>3. T \in SUBSET Nat /\ T # {}
    BY <1>1, <1>2
  <1> HIDE DEF T
  <1>4. PICK n \in T : \A m \in T : n <= m
    BY <1>3, LeastNumber
  <1>5. n \in Nat /\ b - n \in S
    BY <1>4 DEF T
  <1>6. ASSUME NEW y \in S PROVE b - n >= y
    <2>1. b - y \in Nat /\ b - (b - y) = y
      BY <1>6
    <2>2. b - y \in T
      BY <2>1 DEF T
    <2> QED BY <1>4, <1>5, <2>1, <2>2
  <1>7. Max(S) \in S /\ \A y \in S : Max(S) >= y
    BY <1>5, <1>6 DEF Max
  <1> QED BY <1>7

\* Behind a run of held packets there is a number that is not held.
LEMMA RunEndIs ==
  ASSUME NEW s, IsFiniteSet(Held(s)), NEW n \in Nat
  PROVE  RunEnd(s, n) \in Nat /\ RunEnd(s, n) >= n /\ RunEnd(s, n) \notin Held(s)
  <1> DEFINE H == Held(s)
             c == Cardinality(H)
             S == {k \in n..(n + c) : k \notin H}
  <1>1. c \in Nat
    BY FS_CardinalityType
  <1> HIDE DEF c, H
  <1>2. S # {}
    <2> SUFFICES ASSUME S = {} PROVE FALSE
      OBVIOUS
    <2>1. n..(n + c) \in SUBSET H
      OBVIOUS
    <2>2. IsFiniteSet(H)
      BY DEF H
    <2>3. Cardinality(n..(n + c)) <= c
      BY <2>1, <2>2, FS_Subset DEF c
    <2>4. Cardinality(n..(n + c)) = c + 1
      <3>1. n \in Int /\ n + c \in Int /\ ~(n > n + c) /\ (n + c) - n + 1 = c + 1
        BY <1>1
      <3> QED BY <3>1, FS_Interval
    <2> QED BY <1>1, <2>3, <2>4
  <1>3. S \in SUBSET Nat
    BY <1>1
  <1> HIDE DEF S
  <1>4. Min(S) \in S
    BY <1>2, <1>3, MinIs
  <1>5. RunEnd(s, n) = Min(S)
    BY DEF RunEnd, S, c, H
  <1> QED BY <1>1, <1>4, <1>5 DEF S, H

-----------------------------------------------------------------------------
(***************************************************************************)
(* The invariant of a queue s, whose numbers lie b below the true indices  *)
(* and whose first packet had number f, at time t.                         *)
(***************************************************************************)

Entry == [idx : Nat, at : Nat]

Queue == [next : Nat, buf : UNION {[D -> Entry] : D \in SUBSET Nat}, progress : Nat,
          run : Nat, runLast : 0..(Cycle - 1), runAt : Nat,
          emitted : Nat, lost : Nat, out : SUBSET Nat]

\* What is held is what the source sent, expected or later, within the window.
HeldRight(s, b, t) ==
  /\ IsFiniteSet(Held(s))
  /\ \A e \in Held(s) : /\ s.buf[e].idx = e + b /\ s.buf[e].at <= t
                        /\ s.next <= e /\ e < s.next + MaxGap

\* The output is accounted for and lies behind.
OutRight(s, b, f) ==
  /\ s.emitted + s.lost = s.next - f
  /\ IsFiniteSet(s.out) /\ s.emitted = Cardinality(s.out)
  /\ \A i \in s.out : i < s.next + b

\* The times are past, the run is not yet long enough.
MarksRight(s, t) ==
  s.progress <= t /\ s.runAt <= t /\ (s.run = 0 \/ s.run < ResyncRun)

\* Between two steps of a call the expected packet may be held.
Core(s, b, f, t) ==
  s \in Queue /\ HeldRight(s, b, t) /\ OutRight(s, b, f) /\ MarksRight(s, t)

\* Between two calls it is not.
Waiting(s) == s.next \notin Held(s)

\* No held packet has reached its deadline.
Alive(s, t) == \A e \in Held(s) : t - s.buf[e].at < Timeout

\* From s to r only packets from the expected one on are given out.
Grows(s, r, b) ==
  s.next <= r.next /\ \A i \in r.out : i \in s.out \/ i >= s.next + b

\* What r holds, s held.
Fewer(s, r) == Held(r) \subseteq Held(s) /\ \A e \in Held(r) : r.buf[e] = s.buf[e]

\* The types of a queue's fields and of what it holds.
LEMMA QueueFields ==
  ASSUME NEW s \in Queue
  PROVE  /\ s.next \in Nat /\ s.progress \in Nat /\ s.run \in Nat /\ s.runLast \in 0..(Cycle - 1)
         /\ s.runAt \in Nat /\ s.emitted \in Nat /\ s.lost \in Nat /\ s.out \subseteq Nat
         /\ Held(s) \subseteq Nat /\ s.buf \in [Held(s) -> Entry]
         /\ \A e \in Held(s) : s.buf[e] \in Entry /\ s.buf[e].idx \in Nat /\ s.buf[e].at \in Nat
  <1>1. PICK D \in SUBSET Nat : s.buf \in [D -> Entry]
    BY DEF Queue
  <1>2. Held(s) = D
    BY <1>1 DEF Held
  <1>3. Held(s) \subseteq Nat /\ s.buf \in [Held(s) -> Entry]
    BY <1>1, <1>2
  <1>4. \A e \in Held(s) : s.buf[e] \in Entry
    BY <1>3
  <1>5. \A e \in Held(s) : s.buf[e].idx \in Nat /\ s.buf[e].at \in Nat
    BY <1>4 DEF Entry
  <1>6. /\ s.next \in Nat /\ s.progress \in Nat /\ s.run \in Nat /\ s.runLast \in 0..(Cycle - 1)
        /\ s.runAt \in Nat /\ s.emitted \in Nat /\ s.lost \in Nat /\ s.out \subseteq Nat
    BY DEF Queue
  <1> QED BY <1>3, <1>4, <1>5, <1>6

\* Two steps of a call that grow the output grow it together.
LEMMA GrowsTransitive ==
  ASSUME NEW s \in Queue, NEW r \in Queue, NEW w \in Queue, NEW b \in Nat,
         Grows(s, r, b), Grows(r, w, b)
  PROVE  Grows(s, w, b)
  <1>1. s.next \in Nat /\ r.next \in Nat /\ w.next \in Nat /\ w.out \subseteq Nat
    BY QueueFields
  <1> QED BY <1>1 DEF Grows

\* A queue that holds no more than another holds no more packets.
LEMMA FewerFits ==
  ASSUME NEW s, NEW r, IsFiniteSet(Held(s)), Fewer(s, r)
  PROVE  IsFiniteSet(Held(r)) /\ Cardinality(Held(r)) <= Cardinality(Held(s))
  BY FS_Subset DEF Fewer

-----------------------------------------------------------------------------
(***************************************************************************)
(* What the operators do to a queue.                                       *)
(***************************************************************************)

\* What leaves when the queue advances: the held packets, and their true indices.
Gone(s, to) == {e \in Held(s) : e < to}
Given(s, to) == {s.buf[e].idx : e \in Gone(s, to)}

\* The fields of a queue that has advanced.
LEMMA AdvanceFields ==
  ASSUME NEW s \in Queue, NEW to \in Nat, NEW t \in Nat, IsFiniteSet(Held(s)),
         to >= s.next, \A e \in Held(s) : s.next <= e
  PROVE  LET r == AdvanceTo(s, to, t)
             gone == Gone(s, to)
         IN  /\ r \in Queue /\ r.next = to
             /\ Held(r) = Held(s) \ gone /\ \A e \in Held(r) : r.buf[e] = s.buf[e]
             /\ IsFiniteSet(gone) /\ Cardinality(gone) \in Nat
             /\ r.emitted = s.emitted + Cardinality(gone)
             /\ r.lost = s.lost + (to - s.next) - Cardinality(gone)
             /\ r.out = s.out \cup Given(s, to)
             /\ r.progress \in {s.progress, t} /\ r.runAt = s.runAt
             /\ r.run \in {s.run, 0}
  <1> DEFINE r == AdvanceTo(s, to, t)
             gone == Gone(s, to)
             c == Cardinality(gone)
             B == Restrict(s.buf, Held(s) \ gone)
             new == Given(s, to)
             prog == IF gone = {} THEN s.progress ELSE t
             run == IF gone = {} THEN s.run ELSE 0
  <1>0. /\ s.next \in Nat /\ s.progress \in Nat /\ s.run \in Nat /\ s.emitted \in Nat /\ s.lost \in Nat
        /\ s.out \subseteq Nat /\ Held(s) \subseteq Nat /\ s.buf \in [Held(s) -> Entry]
        /\ \A e \in Held(s) : s.buf[e].idx \in Nat
    BY QueueFields
  <1>1. gone \in SUBSET Held(s)
    BY DEF Gone
  <1>2. IsFiniteSet(gone) /\ c \in Nat
    BY <1>1, FS_Subset, FS_CardinalityType
  <1>3. c <= to - s.next
    <2>1. gone \in SUBSET (s.next..(to - 1))
      BY <1>0 DEF Gone
    <2>2. s.next \in Int /\ to - 1 \in Int
      BY <1>0
    <2>3. IsFiniteSet(s.next..(to - 1)) /\ Cardinality(s.next..(to - 1)) = IF s.next > to - 1 THEN 0 ELSE (to - 1) - s.next + 1
      BY <2>2, FS_Interval
    <2>4. c <= Cardinality(s.next..(to - 1))
      BY <2>1, <2>3, FS_Subset
    <2> HIDE DEF c
    <2> QED BY <1>0, <1>2, <2>3, <2>4
  <1>4. B \in [Held(s) \ gone -> Entry] /\ DOMAIN B = Held(s) \ gone
        /\ \A e \in Held(s) \ gone : B[e] = s.buf[e]
    BY <1>0 DEF Restrict
  <1>5. Held(s) \ gone \in SUBSET Nat /\ new \in SUBSET Nat /\ prog \in Nat /\ run \in Nat
    BY <1>0, <1>1 DEF Given
  <1> HIDE DEF c
  <1>6. (s.lost + (to - s.next)) - c \in Nat /\ s.emitted + c \in Nat
    BY <1>0, <1>2, <1>3
  <1> HIDE DEF B, new, prog, run
  <1>7. r = [s EXCEPT !.next = to, !.buf = B, !.emitted = s.emitted + c, !.out = s.out \cup new,
                      !.lost = s.lost + (to - s.next) - c, !.progress = prog, !.run = run]
    BY DEF AdvanceTo, B, c, new, prog, run, Gone, Given
  <1> HIDE DEF r, gone
  <1>8. B \in UNION {[D -> Entry] : D \in SUBSET Nat}
    BY <1>4, <1>5
  <1>9. r \in Queue
    <2> DEFINE lost == s.lost + (to - s.next) - c
               emitted == s.emitted + c
               out == s.out \cup new
               Bufs == UNION {[D -> Entry] : D \in SUBSET Nat}
    <2>1. lost \in Nat /\ emitted \in Nat /\ out \in SUBSET Nat /\ B \in Bufs
      <3>1. lost \in Nat /\ emitted \in Nat
        BY <1>0, <1>2, <1>6
      <3>2. out \in SUBSET Nat
        BY <1>0, <1>5
      <3> QED BY <1>8, <3>1, <3>2
    <2>2. r = [s EXCEPT !.next = to, !.buf = B, !.emitted = emitted, !.out = out,
                        !.lost = lost, !.progress = prog, !.run = run]
      BY <1>7
    <2> HIDE DEF lost, emitted, out, Bufs
    <2>3. s \in [next : Nat, buf : Bufs, progress : Nat, run : Nat, runLast : 0..(Cycle - 1),
                 runAt : Nat, emitted : Nat, lost : Nat, out : SUBSET Nat]
      BY DEF Queue, Bufs
    <2>4. r \in [next : Nat, buf : Bufs, progress : Nat, run : Nat, runLast : 0..(Cycle - 1),
                 runAt : Nat, emitted : Nat, lost : Nat, out : SUBSET Nat]
      BY <1>5, <2>1, <2>2, <2>3
    <2> QED BY <2>4 DEF Queue, Bufs
  <1>10. /\ r.next = to /\ r.buf = B /\ r.emitted = s.emitted + c /\ r.out = s.out \cup new
         /\ r.lost = s.lost + (to - s.next) - c /\ r.progress = prog /\ r.run = run
         /\ r.runAt = s.runAt
    BY <1>7 DEF Queue
  <1>11. Held(r) = Held(s) \ gone /\ \A e \in Held(r) : r.buf[e] = s.buf[e]
    BY <1>4, <1>10 DEF Held
  <1> QED BY <1>2, <1>9, <1>10, <1>11 DEF r, gone, c, new, prog, run

\* Advancing to a number that is not held keeps the queue right.
LEMMA AdvanceRight ==
  ASSUME NEW b \in Nat, NEW f \in Nat, NEW u \in Nat, NEW t \in Nat, u <= t,
         NEW s, Core(s, b, f, u), NEW to \in Nat, to >= s.next, to \notin Held(s)
  PROVE  LET r == AdvanceTo(s, to, t)
         IN  /\ Core(r, b, f, t) /\ Waiting(r) /\ Grows(s, r, b) /\ Fewer(s, r)
             /\ r.next = to /\ \A e \in Held(s) : e \in Held(r) <=> e > to
  <1> DEFINE r == AdvanceTo(s, to, t)
             gone == Gone(s, to)
             new == Given(s, to)
             c == Cardinality(gone)
  <1>0. /\ s \in Queue /\ s.next \in Nat /\ s.progress \in Nat /\ s.run \in Nat /\ s.runAt \in Nat
        /\ s.emitted \in Nat /\ s.lost \in Nat /\ s.out \subseteq Nat /\ Held(s) \subseteq Nat
        /\ \A e \in Held(s) : s.buf[e].idx \in Nat /\ s.buf[e].at \in Nat
    BY QueueFields DEF Core
  <1>1. /\ IsFiniteSet(Held(s))
        /\ \A e \in Held(s) : /\ s.buf[e].idx = e + b /\ s.buf[e].at <= u
                              /\ s.next <= e /\ e < s.next + MaxGap
    BY DEF Core, HeldRight
  <1>2. /\ s.emitted + s.lost = s.next - f /\ IsFiniteSet(s.out) /\ s.emitted = Cardinality(s.out)
        /\ \A i \in s.out : i < s.next + b
    BY DEF Core, OutRight
  <1>3. s.progress <= u /\ s.runAt <= u /\ (s.run = 0 \/ s.run < ResyncRun)
    BY DEF Core, MarksRight
  <1>4. /\ r \in Queue /\ r.next = to
        /\ Held(r) = Held(s) \ gone /\ \A e \in Held(r) : r.buf[e] = s.buf[e]
        /\ IsFiniteSet(gone) /\ c \in Nat
        /\ r.emitted = s.emitted + c /\ r.lost = s.lost + (to - s.next) - c
        /\ r.out = s.out \cup new
        /\ r.progress \in {s.progress, t} /\ r.runAt = s.runAt
        /\ r.run \in {s.run, 0}
    BY <1>0, <1>1, AdvanceFields, SMTT(30)
  <1>5. \A e \in Held(r) : e \in Held(s) /\ e > to /\ r.buf[e] = s.buf[e]
    BY <1>0, <1>4 DEF Gone
  <1>6. \A e \in Held(s) : e > to => e \in Held(r)
    BY <1>0, <1>4 DEF Gone
  <1>7. new = {e + b : e \in gone}
    BY <1>1 DEF Given, Gone
  <1>8. IsFiniteSet(new) /\ Cardinality(new) = c
    <2> DEFINE h == [e \in gone |-> e + b]
    <2>1. gone \in SUBSET Nat
      BY <1>0 DEF Gone
    <2>2. h \in [gone -> new] /\ \A i \in new : \E e \in gone : h[e] = i
      BY <1>7
    <2>3. IsInjective(h)
      <3>1. \A x, y \in gone : x + b = y + b => x = y
        BY <2>1
      <3> QED BY <3>1 DEF IsInjective
    <2>4. h \in Bijection(gone, new)
      BY <2>2, <2>3 DEF Bijection, Injection, Surjection
    <2>5. ExistsBijection(gone, new)
      BY <2>4 DEF ExistsBijection
    <2> QED BY <1>4, <2>5, FS_Bijection
  <1>9. \A i \in new : i >= s.next + b /\ i < to + b /\ i \in Nat
    BY <1>0, <1>1, <1>7 DEF Gone
  <1>10. s.out \cap new = {}
    BY <1>0, <1>2, <1>9
  <1> HIDE DEF r, c, new, gone
  <1>11. IsFiniteSet(r.out) /\ Cardinality(r.out) = Cardinality(s.out) + c
    <2>1. IsFiniteSet(s.out \cup new)
          /\ Cardinality(s.out \cup new) = Cardinality(s.out) + Cardinality(new) - Cardinality(s.out \cap new)
      BY <1>2, <1>8, FS_Union
    <2>2. Cardinality(s.out \cap new) = 0
      BY <1>10, FS_EmptySet
    <2> QED BY <1>0, <1>2, <1>4, <1>8, <2>1, <2>2
  <1>12. HeldRight(r, b, t)
    <2>1. IsFiniteSet(Held(r))
      <3>1. Held(r) \in SUBSET Held(s)
        BY <1>5
      <3> QED BY <1>1, <3>1, FS_Subset
    <2>2. ASSUME NEW e \in Held(r)
          PROVE  /\ r.buf[e].idx = e + b /\ r.buf[e].at <= t
                 /\ r.next <= e /\ e < r.next + MaxGap
      <3>1. e \in Held(s) /\ e > to /\ r.buf[e] = s.buf[e] /\ e \in Nat
        BY <1>0, <1>5
      <3>2. s.buf[e].idx = e + b /\ s.buf[e].at <= u /\ e < s.next + MaxGap /\ s.buf[e].at \in Nat
        BY <1>0, <1>1, <3>1
      <3> QED BY <1>0, <1>4, <3>1, <3>2, Constants
    <2> QED BY <2>1, <2>2 DEF HeldRight
  <1>13. OutRight(r, b, f)
    <2>1. r.emitted + r.lost = r.next - f
      BY <1>0, <1>2, <1>4
    <2>2. r.emitted = Cardinality(r.out)
      BY <1>2, <1>4, <1>11
    <2>3. \A i \in r.out : i < r.next + b
      BY <1>0, <1>2, <1>4, <1>9
    <2> QED BY <1>11, <2>1, <2>2, <2>3 DEF OutRight
  <1>14. MarksRight(r, t)
    BY <1>0, <1>3, <1>4 DEF MarksRight
  <1>15. Core(r, b, f, t)
    BY <1>4, <1>12, <1>13, <1>14 DEF Core
  <1>16. Waiting(r)
    BY <1>4 DEF Waiting
  <1>17. Grows(s, r, b)
    BY <1>4, <1>9 DEF Grows
  <1>18. Fewer(s, r)
    BY <1>5 DEF Fewer
  <1>19. \A e \in Held(s) : e \in Held(r) <=> e > to
    BY <1>5, <1>6
  <1> QED BY <1>4, <1>15, <1>16, <1>17, <1>18, <1>19 DEF r

\* Later is no worse.
LEMMA CoreLater ==
  ASSUME NEW b \in Nat, NEW f \in Nat, NEW u \in Nat, NEW t \in Nat, u <= t,
         NEW s, Core(s, b, f, u)
  PROVE  Core(s, b, f, t)
  <1>1. /\ s \in Queue /\ s.progress \in Nat /\ s.runAt \in Nat
        /\ \A e \in Held(s) : s.buf[e].at \in Nat
    BY QueueFields DEF Core
  <1>2. HeldRight(s, b, t)
    BY <1>1 DEF Core, HeldRight
  <1>3. MarksRight(s, t)
    BY <1>1 DEF Core, MarksRight
  <1> QED BY <1>1, <1>2, <1>3 DEF Core

\* r differs from s in the marks of the run only.
SameData(s, r) ==
  /\ r.next = s.next /\ r.buf = s.buf /\ r.emitted = s.emitted /\ r.lost = s.lost /\ r.out = s.out
  /\ r.progress = s.progress

\* Starting, extending or ending a resynchronisation run keeps the queue right.
LEMMA SameDataRight ==
  ASSUME NEW b \in Nat, NEW f \in Nat, NEW t \in Nat, NEW s, Core(s, b, f, t),
         NEW r \in Queue, SameData(s, r), r.runAt <= t, r.run = 0 \/ r.run < ResyncRun
  PROVE  /\ Core(r, b, f, t) /\ Grows(s, r, b) /\ Fewer(s, r) /\ (Waiting(s) => Waiting(r))
         /\ Held(r) = Held(s) /\ (Alive(s, t) => Alive(r, t))
  <1>1. Held(r) = Held(s)
    BY DEF SameData, Held
  <1>2. s \in Queue /\ s.next \in Nat
    BY QueueFields DEF Core
  <1>3. HeldRight(r, b, t)
    BY <1>1 DEF Core, HeldRight, SameData
  <1>4. OutRight(r, b, f)
    BY DEF Core, OutRight, SameData
  <1>5. MarksRight(r, t)
    BY DEF Core, MarksRight, SameData
  <1>6. Grows(s, r, b)
    BY <1>2 DEF Grows, SameData
  <1>7. Fewer(s, r)
    BY <1>1 DEF Fewer, SameData
  <1>8. Waiting(s) => Waiting(r)
    BY <1>1 DEF Waiting, SameData
  <1>9. Alive(s, t) => Alive(r, t)
    BY <1>1 DEF Alive, SameData
  <1> QED BY <1>1, <1>3, <1>4, <1>5, <1>6, <1>7, <1>8, <1>9 DEF Core

\* Forgetting the run.
LEMMA ClearRight ==
  ASSUME NEW b \in Nat, NEW f \in Nat, NEW t \in Nat, NEW s, Core(s, b, f, t)
  PROVE  LET r == ClearResync(s)
         IN  /\ Core(r, b, f, t) /\ Grows(s, r, b) /\ Fewer(s, r) /\ (Waiting(s) => Waiting(r))
             /\ Held(r) = Held(s) /\ (Alive(s, t) => Alive(r, t)) /\ SameData(s, r) /\ r.run = 0
  <1> DEFINE r == ClearResync(s)
  <1>1. s \in Queue
    BY DEF Core
  <1>2. r \in Queue /\ SameData(s, r) /\ r.runAt = s.runAt /\ r.run = 0
    BY <1>1 DEF ClearResync, Queue, SameData
  <1>3. s.runAt <= t
    BY DEF Core, MarksRight
  <1> HIDE DEF r
  <1>4. r.runAt <= t
    BY <1>2, <1>3
  <1>5. /\ Core(r, b, f, t) /\ Grows(s, r, b) /\ Fewer(s, r) /\ (Waiting(s) => Waiting(r))
        /\ Held(r) = Held(s) /\ (Alive(s, t) => Alive(r, t))
    BY <1>2, <1>4, SameDataRight
  <1> QED BY <1>2, <1>5 DEF r

\* flushBuffered.
LEMMA FlushBufferedRight ==
  ASSUME NEW b \in Nat, NEW f \in Nat, NEW t \in Nat, NEW s, Core(s, b, f, t)
  PROVE  LET r == FlushBuffered(s, t)
         IN  Core(r, b, f, t) /\ Waiting(r) /\ Grows(s, r, b) /\ Fewer(s, r)
  <1>1. s \in Queue /\ s.next \in Nat /\ IsFiniteSet(Held(s))
    BY QueueFields DEF Core, HeldRight
  <1>2. RunEnd(s, s.next) \in Nat /\ RunEnd(s, s.next) >= s.next /\ RunEnd(s, s.next) \notin Held(s)
    BY <1>1, RunEndIs
  <1>3. t <= t
    OBVIOUS
  <1> QED BY <1>2, <1>3, AdvanceRight DEF FlushBuffered

\* SkipToFirst and flushBuffered: at least one packet leaves.
LEMMA SkipGapRight ==
  ASSUME NEW b \in Nat, NEW f \in Nat, NEW t \in Nat, NEW s, Core(s, b, f, t), Held(s) # {}
  PROVE  LET r == SkipGap(s, t)
         IN  /\ Core(r, b, f, t) /\ Waiting(r) /\ Grows(s, r, b) /\ Fewer(s, r)
             /\ Cardinality(Held(r)) < Cardinality(Held(s))
  <1> DEFINE m == Min(Held(s))
             to == RunEnd(s, m)
             r == SkipGap(s, t)
  <1>1. s \in Queue /\ s.next \in Nat /\ IsFiniteSet(Held(s)) /\ Held(s) \subseteq Nat
        /\ \A e \in Held(s) : s.next <= e
    BY QueueFields DEF Core, HeldRight
  <1>2. m \in Held(s) /\ m \in Nat /\ s.next <= m
    BY <1>1, MinIs
  <1> HIDE DEF m
  <1>3. to \in Nat /\ to >= m /\ to \notin Held(s)
    BY <1>1, <1>2, RunEndIs
  <1>4. r = AdvanceTo(s, to, t)
    BY DEF SkipGap, m
  <1> HIDE DEF to
  <1>5. to >= s.next /\ ~(m > to) /\ t <= t
    BY <1>1, <1>2, <1>3
  <1> HIDE DEF r
  <1>6. /\ Core(r, b, f, t) /\ Waiting(r) /\ Grows(s, r, b) /\ Fewer(s, r)
        /\ \A e \in Held(s) : e \in Held(r) <=> e > to
    BY <1>3, <1>4, <1>5, AdvanceRight
  <1>6a. m > to \/ m < to
    BY <1>2, <1>3
  <1>7. Held(r) \in SUBSET (Held(s)) /\ m \notin Held(r)
    BY <1>2, <1>5, <1>6 DEF Fewer
  <1>8. Cardinality(Held(r)) <= Cardinality(Held(s)) /\ Cardinality(Held(r)) # Cardinality(Held(s))
        /\ IsFiniteSet(Held(r))
    BY <1>1, <1>2, <1>7, FS_Subset
  <1>9. Cardinality(Held(r)) \in Nat /\ Cardinality(Held(s)) \in Nat
    BY <1>1, <1>8, FS_CardinalityType
  <1>10. Cardinality(Held(r)) < Cardinality(Held(s))
    BY <1>8, <1>9
  <1> QED BY <1>6, <1>10 DEF r

\* flushExpired: no held packet is past its deadline any more.
LEMMA FlushExpiredRight ==
  ASSUME NEW b \in Nat, NEW f \in Nat, NEW u \in Nat, NEW t \in Nat, u <= t, NEW s, Core(s, b, f, u), Waiting(s)
  PROVE  LET r == FlushExpired(s, t)
         IN  /\ Core(r, b, f, t) /\ Waiting(r) /\ Alive(r, t) /\ Grows(s, r, b) /\ Fewer(s, r)
             /\ (Held(s) = {} => r.next = s.next /\ r.out = s.out /\ r.emitted = s.emitted /\ r.lost = s.lost)
  <1> DEFINE c == IF s.run > 0 /\ t - s.runAt >= Probation THEN ClearResync(s) ELSE s
             X == Expired(s, t)
             w == FlushExpired(s, t)
  <1>1. Core(s, b, f, t) /\ s \in Queue /\ s.next \in Nat /\ Held(s) \subseteq Nat /\ IsFiniteSet(Held(s))
        /\ \A e \in Held(s) : s.buf[e].at \in Nat /\ s.next <= e /\ e < s.next + MaxGap
    BY QueueFields, CoreLater DEF Core, HeldRight
  <1>2. /\ Core(c, b, f, t) /\ Grows(s, c, b) /\ Fewer(s, c) /\ Waiting(c)
        /\ Held(c) = Held(s) /\ SameData(s, c) /\ (Alive(s, t) => Alive(c, t))
    <2>1. CASE c = ClearResync(s)
      BY <1>1, <2>1, ClearRight
    <2>2. CASE c = s
      BY <1>1, <2>2 DEF SameData, Fewer, Grows
    <2> QED BY <2>1, <2>2
  <1> HIDE DEF c
  <1>3. X \in SUBSET Held(s)
    BY DEF Expired
  <1>4. CASE X = {}
    <2>1. w = c
      BY <1>4 DEF FlushExpired, c
    <2>2. Alive(s, t)
      BY <1>1, <1>4, Constants DEF Alive, Expired
    <2> HIDE DEF w
    <2> QED BY <1>2, <2>1, <2>2 DEF SameData, w
  <1>5. CASE X # {}
    <2> DEFINE m == Max(X)
               to == RunEnd(s, m)
    <2>1. m \in X /\ \A e \in X : e <= m
      <3>1. X \in SUBSET Nat /\ \A e \in X : e <= s.next + MaxGap
        BY <1>1, <1>3, Constants
      <3>2. s.next + MaxGap \in Nat
        BY <1>1, Constants
      <3> HIDE DEF X
      <3> QED BY <1>5, <3>1, <3>2, MaxIs
    <2>2. w = AdvanceTo(c, to, t)
      BY <1>5 DEF FlushExpired, c
    <2> HIDE DEF m, w
    <2>3. m \in Nat /\ m \in Held(s) /\ s.next <= m
      BY <1>1, <1>3, <2>1
    <2>4. to \in Nat /\ to >= m /\ to \notin Held(s)
      BY <1>1, <2>3, RunEndIs
    <2> HIDE DEF to
    <2>5. to >= c.next /\ to \notin Held(c) /\ t <= t
      BY <1>1, <1>2, <2>3, <2>4 DEF SameData
    <2>6. /\ Core(w, b, f, t) /\ Waiting(w) /\ Grows(c, w, b) /\ Fewer(c, w)
          /\ \A e \in Held(c) : e \in Held(w) <=> e > to
      BY <1>2, <2>2, <2>4, <2>5, AdvanceRight
    <2>7. Grows(s, w, b)
      BY <1>1, <1>2, <2>6, GrowsTransitive DEF Core
    <2>8. Fewer(s, w)
      BY <1>2, <2>6 DEF Fewer, SameData
    <2>9. Alive(w, t)
      <3> SUFFICES ASSUME NEW e \in Held(w) PROVE t - w.buf[e].at < Timeout
        BY DEF Alive
      <3>1. e \in Held(s) /\ e > to /\ w.buf[e] = s.buf[e] /\ e \in Nat
        BY <1>1, <1>2, <2>6, <2>8 DEF Fewer
      <3>2. e \notin X
        BY <2>1, <2>3, <2>4, <3>1
      <3>3. ~(t - s.buf[e].at >= Timeout)
        BY <3>1, <3>2 DEF Expired
      <3>4. s.buf[e].at \in Nat
        BY <1>1, <3>1
      <3> QED BY <3>1, <3>3, <3>4, Constants
    <2>10. Held(s) # {}
      BY <2>3
    <2> QED BY <2>6, <2>7, <2>8, <2>9, <2>10 DEF w
  <1> QED BY <1>4, <1>5

\* The expected packet leaves at once.
LEMMA EmitRight ==
  ASSUME NEW b \in Nat, NEW f \in Nat, NEW t \in Nat, NEW s, Core(s, b, f, t), Waiting(s),
         NEW i \in Nat, i = s.next + b
  PROVE  LET r == Emit(s, s.next, i, t)
         IN  Core(r, b, f, t) /\ Grows(s, r, b) /\ Fewer(s, r)
  <1> DEFINE r == Emit(s, s.next, i, t)
  <1>0. /\ s \in Queue /\ s.next \in Nat /\ s.emitted \in Nat /\ s.lost \in Nat /\ s.out \subseteq Nat
        /\ s.runAt \in Nat /\ Held(s) \subseteq Nat
    BY QueueFields DEF Core
  <1>1. /\ IsFiniteSet(Held(s))
        /\ \A e \in Held(s) : /\ s.buf[e].idx = e + b /\ s.buf[e].at <= t
                              /\ s.next <= e /\ e < s.next + MaxGap
    BY DEF Core, HeldRight
  <1>2. /\ s.emitted + s.lost = s.next - f /\ IsFiniteSet(s.out) /\ s.emitted = Cardinality(s.out)
        /\ \A x \in s.out : x < s.next + b
    BY DEF Core, OutRight
  <1>3. r = [s EXCEPT !.next = s.next + 1, !.emitted = s.emitted + 1, !.out = s.out \cup {i},
                      !.progress = t, !.run = 0]
    BY DEF Emit
  <1> HIDE DEF r
  <1>4. r \in Queue
    <2>1. s.next + 1 \in Nat /\ s.emitted + 1 \in Nat /\ s.out \cup {i} \in SUBSET Nat
      BY <1>0
    <2> QED BY <1>0, <1>3, <2>1 DEF Queue
  <1>5. /\ r.next = s.next + 1 /\ r.emitted = s.emitted + 1 /\ r.out = s.out \cup {i} /\ r.progress = t
        /\ r.run = 0 /\ r.buf = s.buf /\ r.lost = s.lost /\ r.runAt = s.runAt
    BY <1>0, <1>3 DEF Queue
  <1>6. Held(r) = Held(s)
    BY <1>5 DEF Held
  <1>7. HeldRight(r, b, t)
    <2>1. \A e \in Held(s) : s.next + 1 <= e /\ e < (s.next + 1) + MaxGap
      BY <1>0, <1>1, Constants DEF Waiting
    <2> QED BY <1>1, <1>5, <1>6, <2>1 DEF HeldRight
  <1>8. OutRight(r, b, f)
    <2>1. i \notin s.out
      BY <1>0, <1>2
    <2>2. IsFiniteSet(s.out \cup {i}) /\ Cardinality(s.out \cup {i}) = Cardinality(s.out) + 1
      BY <1>2, <2>1, FS_AddElement
    <2>3. \A x \in s.out \cup {i} : x < (s.next + 1) + b
      BY <1>0, <1>2
    <2>4. (s.emitted + 1) + s.lost = (s.next + 1) - f
      BY <1>0, <1>2
    <2> QED BY <1>2, <1>5, <2>2, <2>3, <2>4 DEF OutRight
  <1>9. MarksRight(r, t)
    BY <1>5 DEF Core, MarksRight
  <1>10. Core(r, b, f, t)
    BY <1>4, <1>7, <1>8, <1>9 DEF Core
  <1>11. Grows(s, r, b)
    BY <1>0, <1>5 DEF Grows
  <1>12. Fewer(s, r)
    BY <1>5, <1>6 DEF Fewer
  <1> QED BY <1>10, <1>11, <1>12 DEF r

\* The run of consecutive packets: the queue's data stay; a run is long enough
\* only when nothing is held.
LEMMA ObserveRight ==
  ASSUME NEW b \in Nat, NEW f \in Nat, NEW t \in Nat, NEW s, Core(s, b, f, t), NEW n \in 0..(Cycle - 1)
  PROVE  LET r == Observe(s, n, t)
         IN  /\ r \in Queue /\ SameData(s, r) /\ r.runAt <= t
             /\ Confirmed(r) => Held(s) = {}
             /\ ~Confirmed(r) => r.run = 0 \/ r.run < ResyncRun
  <1> DEFINE r == Observe(s, n, t)
             A == [s EXCEPT !.run = s.run + 1, !.runLast = n]
             B == [s EXCEPT !.run = 1, !.runAt = t, !.runLast = n]
  <1>0. s \in Queue /\ s.run \in Nat /\ s.runAt \in Nat /\ s.runAt <= t /\ (s.run = 0 \/ s.run < ResyncRun)
    BY QueueFields DEF Core, MarksRight
  <1>1. ResyncRun \in Nat /\ ResyncRun # 1
    BY Constants
  <1>2. CASE r = ClearResync(s)
    <2>1. ClearResync(s) \in Queue /\ SameData(s, ClearResync(s)) /\ ClearResync(s).runAt = s.runAt
          /\ ClearResync(s).run = 0
      BY <1>0 DEF ClearResync, Queue, SameData
    <2> HIDE DEF r
    <2> QED BY <1>0, <1>1, <1>2, <2>1 DEF Confirmed, r
  <1>3. CASE MayResync(s, t) /\ r = s
    <2> HIDE DEF r
    <2> QED BY <1>0, <1>1, <1>3 DEF SameData, Confirmed, MayResync, r
  <1>4. CASE MayResync(s, t) /\ r = A
    <2>1. A \in Queue /\ SameData(s, A) /\ A.runAt = s.runAt /\ A.run = s.run + 1
      <3>1. s.run + 1 \in Nat
        BY <1>0
      <3> QED BY <1>0, <3>1 DEF Queue, SameData
    <2> HIDE DEF r, A
    <2> QED BY <1>0, <1>1, <1>4, <2>1 DEF Confirmed, MayResync, r
  <1>5. CASE MayResync(s, t) /\ r = B
    <2>1. B \in Queue /\ SameData(s, B) /\ B.runAt = t /\ B.run = 1
      BY <1>0 DEF Queue, SameData
    <2> HIDE DEF r, B
    <2> QED BY <1>0, <1>1, <1>5, <2>1 DEF Confirmed, MayResync, r
  <1>6. r = ClearResync(s) \/ (MayResync(s, t) /\ (r = s \/ r = A \/ r = B))
    BY DEF Observe
  <1> QED BY <1>2, <1>3, <1>4, <1>5, <1>6

\* A packet far ahead: the queue stays, or moves there when nothing is held.
LEMMA JumpRight ==
  ASSUME NEW b \in Nat, NEW f \in Nat, NEW t \in Nat, NEW s, Core(s, b, f, t), Waiting(s), Alive(s, t),
         NEW i \in Nat, Delta(s, i) \in Nat, i = s.next + Delta(s, i) + b
  PROVE  LET r == Jump(s, i, t)
         IN  Core(r, b, f, t) /\ Waiting(r) /\ Alive(r, t) /\ Grows(s, r, b) /\ Fewer(s, r)
  <1> DEFINE o == Observe(s, Seq16(i), t)
             d == Delta(s, i)
             w == [Emit(o, Extended(s, i), i, t) EXCEPT !.lost = @ + d]
             r == Jump(s, i, t)
  <1>1. Seq16(i) \in 0..(Cycle - 1)
    BY Remainder DEF Seq16
  <1>2. /\ o \in Queue /\ SameData(s, o) /\ o.runAt <= t
        /\ Confirmed(o) => Held(s) = {}
        /\ ~Confirmed(o) => o.run = 0 \/ o.run < ResyncRun
    BY <1>1, ObserveRight
  <1>3. r = IF Confirmed(o) THEN w ELSE o
    BY DEF Jump
  <1>4. CASE ~Confirmed(o)
    <2> HIDE DEF o, r, w
    <2>1. r = o
      BY <1>3, <1>4
    <2>2. o.run = 0 \/ o.run < ResyncRun
      BY <1>2, <1>4
    <2>3. /\ Core(o, b, f, t) /\ Grows(s, o, b) /\ Fewer(s, o) /\ (Waiting(s) => Waiting(o))
          /\ (Alive(s, t) => Alive(o, t))
      BY <1>2, <2>2, SameDataRight
    <2> QED BY <2>1, <2>3 DEF r
  <1>5. CASE Confirmed(o)
    <2>0. /\ s \in Queue /\ s.next \in Nat /\ s.emitted \in Nat /\ s.lost \in Nat /\ s.out \subseteq Nat
      BY QueueFields DEF Core
    <2>1. /\ s.emitted + s.lost = s.next - f /\ IsFiniteSet(s.out) /\ s.emitted = Cardinality(s.out)
          /\ \A x \in s.out : x < s.next + b
      BY DEF Core, OutRight
    <2>2. /\ o.next = s.next /\ o.buf = s.buf /\ o.emitted = s.emitted /\ o.lost = s.lost /\ o.out = s.out
          /\ Held(o) = {}
      BY <1>2, <1>5 DEF SameData, Held
    <2>3. w = [o EXCEPT !.next = s.next + d + 1, !.emitted = o.emitted + 1, !.out = o.out \cup {i},
                        !.progress = t, !.run = 0, !.lost = o.lost + d]
      <3> HIDE DEF o
      <3> QED BY <1>2 DEF Emit, Extended, Queue
    <2> HIDE DEF o, w, r, d
    <2>4. r = w
      BY <1>3, <1>5
    <2>5. d \in Nat /\ i = s.next + d + b
      BY DEF d
    <2>6. w \in Queue
      <3>1. s.next + d + 1 \in Nat /\ o.emitted + 1 \in Nat /\ o.out \cup {i} \in SUBSET Nat /\ o.lost + d \in Nat
        BY <2>0, <2>2, <2>5
      <3> QED BY <1>2, <2>3, <3>1 DEF Queue
    <2>7. /\ w.next = s.next + d + 1 /\ w.emitted = s.emitted + 1 /\ w.out = s.out \cup {i} /\ w.progress = t
          /\ w.run = 0 /\ w.lost = s.lost + d /\ w.buf = o.buf /\ w.runAt = o.runAt
      BY <1>2, <2>2, <2>3 DEF Queue
    <2>8. Held(w) = {}
      BY <2>2, <2>7 DEF Held
    <2>9. HeldRight(w, b, t) /\ Waiting(w) /\ Alive(w, t) /\ Fewer(s, w)
      BY <2>8, FS_EmptySet DEF HeldRight, Waiting, Alive, Fewer
    <2>10. OutRight(w, b, f)
      <3>1. i \notin s.out
        BY <2>0, <2>1, <2>5
      <3>2. IsFiniteSet(s.out \cup {i}) /\ Cardinality(s.out \cup {i}) = Cardinality(s.out) + 1
        BY <2>1, <3>1, FS_AddElement
      <3>3. \A x \in s.out \cup {i} : x < (s.next + d + 1) + b
        BY <2>0, <2>1, <2>5
      <3>4. (s.emitted + 1) + (s.lost + d) = (s.next + d + 1) - f
        BY <2>0, <2>1, <2>5
      <3> QED BY <2>1, <2>7, <3>2, <3>3, <3>4 DEF OutRight
    <2>11. MarksRight(w, t)
      BY <1>2, <2>7 DEF MarksRight
    <2>12. Grows(s, w, b)
      BY <2>0, <2>5, <2>7 DEF Grows
    <2> QED BY <2>4, <2>6, <2>9, <2>10, <2>11, <2>12 DEF Core, r
  <1> QED BY <1>4, <1>5

\* A packet ahead of the expected one is held.
LEMMA HoldRight ==
  ASSUME NEW b \in Nat, NEW f \in Nat, NEW t \in Nat, NEW s, Core(s, b, f, t), Waiting(s),
         NEW i \in Nat, NEW e \in Nat, e = Extended(s, i), e > s.next, e < s.next + MaxGap,
         e \notin Held(s), i = e + b
  PROVE  LET h == Hold(s, i, t)
         IN  /\ Core(h, b, f, t) /\ Waiting(h) /\ Grows(s, h, b) /\ Held(h) = Held(s) \cup {e}
             /\ Cardinality(Held(h)) = Cardinality(Held(s)) + 1
  <1> DEFINE h == Hold(s, i, t)
             B == [x \in Held(s) \cup {e} |-> IF x \in Held(s) THEN s.buf[x] ELSE [idx |-> i, at |-> t]]
  <1>a. t <= t /\ s.next <= e
    <2>1. s.next \in Nat
      BY QueueFields DEF Core
    <2> QED BY <2>1
  <1>0. /\ s \in Queue /\ s.next \in Nat /\ Held(s) \subseteq Nat /\ s.buf \in [Held(s) -> Entry]
        /\ \A x \in Held(s) : s.buf[x] \in Entry
    BY QueueFields DEF Core
  <1>1. /\ IsFiniteSet(Held(s))
        /\ \A x \in Held(s) : /\ s.buf[x].idx = x + b /\ s.buf[x].at <= t
                              /\ s.next <= x /\ x < s.next + MaxGap
    BY DEF Core, HeldRight
  <1>2. h = [s EXCEPT !.buf = B]
    BY DEF Hold
  <1>3. B \in [Held(s) \cup {e} -> Entry] /\ B[e] = [idx |-> i, at |-> t]
        /\ \A x \in Held(s) : B[x] = s.buf[x]
    <2>1. [idx |-> i, at |-> t] \in Entry
      BY DEF Entry
    <2> HIDE DEF Held
    <2>2. B[e] = [idx |-> i, at |-> t] /\ \A x \in Held(s) : B[x] = s.buf[x]
      OBVIOUS
    <2>3. \A x \in Held(s) \cup {e} : B[x] \in Entry
      BY <1>0, <2>1, <2>2
    <2> QED BY <2>2, <2>3
  <1> HIDE DEF B, h
  <1>4. h \in Queue
    <2>1. B \in UNION {[D -> Entry] : D \in SUBSET Nat}
      BY <1>0, <1>3
    <2> QED BY <1>0, <1>2, <2>1 DEF Queue
  <1>5. /\ h.buf = B /\ h.next = s.next /\ h.emitted = s.emitted /\ h.lost = s.lost /\ h.out = s.out
        /\ h.progress = s.progress /\ h.run = s.run /\ h.runAt = s.runAt
    BY <1>0, <1>2 DEF Queue
  <1>6. Held(h) = Held(s) \cup {e}
    BY <1>3, <1>5 DEF Held
  <1>7. IsFiniteSet(Held(h)) /\ Cardinality(Held(h)) = Cardinality(Held(s)) + 1
    <2>1. IsFiniteSet(Held(s)) /\ e \notin Held(s)
      BY <1>1
    <2>2. /\ IsFiniteSet(Held(s) \cup {e})
          /\ Cardinality(Held(s) \cup {e}) = Cardinality(Held(s)) + 1
      BY <2>1, FS_AddElement
    <2> QED BY <1>6, <2>2
  <1>8. HeldRight(h, b, t)
    <2>1. ASSUME NEW x \in Held(h)
          PROVE  /\ h.buf[x].idx = x + b /\ h.buf[x].at <= t /\ h.next <= x /\ x < h.next + MaxGap
      <3>1. CASE x \in Held(s)
        <4>1. h.buf[x] = s.buf[x]
          BY <1>3, <1>5, <3>1
        <4> QED BY <1>1, <1>5, <3>1, <4>1
      <3>2. CASE x = e
        <4>0. h.buf[x] = [idx |-> i, at |-> t]
          BY <1>3, <1>5, <3>2
        <4>1. h.buf[x].idx = i /\ h.buf[x].at = t
          BY <4>0
        <4>2. i = x + b /\ x < s.next + MaxGap
          BY <3>2
        <4>3. t <= t /\ s.next <= x
          BY <1>a, <3>2
        <4> QED BY <1>5, <4>1, <4>2, <4>3
      <3> QED BY <1>6, <3>1, <3>2
    <2> QED BY <1>7, <2>1 DEF HeldRight
  <1>9. OutRight(h, b, f)
    BY <1>5 DEF Core, OutRight
  <1>10. MarksRight(h, t)
    BY <1>5 DEF Core, MarksRight
  <1>11. Waiting(h)
    BY <1>0, <1>5, <1>6 DEF Waiting
  <1>12. Grows(s, h, b)
    BY <1>0, <1>5 DEF Grows
  <1> QED BY <1>4, <1>6, <1>7, <1>8, <1>9, <1>10, <1>11, <1>12 DEF Core, h


-----------------------------------------------------------------------------
(***************************************************************************)
(* A packet arrives.                                                       *)
(***************************************************************************)

\* What the rest of a call at time t may make of queue s.
Good(s, w, b, f, t) ==
  /\ Core(w, b, f, t) /\ Waiting(w) /\ Alive(w, t) /\ Grows(s, w, b)
  /\ Cardinality(Held(w)) <= MaxCache

\* A queue that only gave out or skipped packets is good after the call.
LEMMA FewerGood ==
  ASSUME NEW b \in Nat, NEW f \in Nat, NEW t \in Nat, NEW s, Core(s, b, f, t), Alive(s, t),
         Cardinality(Held(s)) <= MaxCache,
         NEW w, Core(w, b, f, t), Waiting(w), Grows(s, w, b), Fewer(s, w)
  PROVE  Good(s, w, b, f, t)
  <1>1. Alive(w, t)
    BY DEF Alive, Fewer
  <1>2. IsFiniteSet(Held(s)) /\ IsFiniteSet(Held(w))
    BY DEF Core, HeldRight
  <1>3. Cardinality(Held(s)) \in Nat /\ Cardinality(Held(w)) \in Nat
    BY <1>2, FS_CardinalityType
  <1>4. Cardinality(Held(w)) <= Cardinality(Held(s))
    BY <1>2, FewerFits
  <1>5. Cardinality(Held(w)) <= MaxCache
    BY <1>3, <1>4, Constants
  <1> QED BY <1>1, <1>5 DEF Good

\* A packet not taken to be late, nor half a cycle away, is where the queue
\* takes it to be.
LEMMA Distance ==
  ASSUME NEW b \in Nat, NEW k \in Int, b = k * Cycle, NEW i \in Nat, NEW s, s.next \in Nat,
         (i - b) - s.next \in (-Half)..Half
  PROVE  /\ Delta(s, i) \in Nat
         /\ Delta(s, i) < Half => i = (s.next + Delta(s, i)) + b
  <1> DEFINE n == s.next
             e == (i - b) - n
             d == (Seq16(i) - n) % Cycle
  <1>0. n \in Nat
    OBVIOUS
  <1>1. Delta(s, i) = d
    BY DEF Delta
  <1> HIDE DEF n
  <1>2. (i - k * Cycle) - n \in (-Half)..Half
    BY DEF n
  <1>3. d \in 0..(Cycle - 1) /\ (e >= 0 => d = e) /\ (e < 0 => d = e + Cycle)
    BY <1>0, <1>2, Unwrap
  <1>4. e \in Int /\ e >= -Half
    BY <1>0, <1>2, Constants
  <1> HIDE DEF d
  <1>5. ASSUME d < Half PROVE i = (n + d) + b
    <2>1. e >= 0
      <3> HIDE DEF e
      <3> QED BY <1>3, <1>4, <1>5, Constants
    <2>2. d = e
      BY <1>3, <2>1
    <2> QED BY <1>0, <2>2
  <1>6. d \in Nat
    BY <1>3, Constants
  <1> QED BY <1>1, <1>5, <1>6 DEF n

\* The whole of inputPacket behind flushExpired leaves a good queue: late packets, held packets, overflow and resynchronisation.
LEMMA AcceptRight ==
  ASSUME NEW b \in Nat, NEW f \in Nat, NEW t \in Nat, NEW s, Core(s, b, f, t), Waiting(s),
         Alive(s, t), Cardinality(Held(s)) <= MaxCache,
         NEW k \in Int, b = k * Cycle, NEW i \in Nat, (i - b) - s.next \in (-Half)..Half
  PROVE  Good(s, Accept(s, i, t), b, f, t)
  <1> DEFINE d == Delta(s, i)
             w == Accept(s, i, t)
  <1>0. s \in Queue /\ s.next \in Nat
    BY QueueFields DEF Core
  <1>1. d \in Nat /\ (d < Half => i = (s.next + d) + b)
    BY <1>0, Distance
  <1>2. Half \in Nat /\ Half > 0 /\ MaxGap \in Nat /\ MaxGap > 0 /\ MaxGap <= Half
    BY Constants
  <1>3. Good(s, ClearResync(s), b, f, t)
    BY ClearRight, FewerGood
  <1>4. Good(s, s, b, f, t)
    <2>1. Grows(s, s, b)
      BY <1>0 DEF Grows
    <2> QED BY <2>1 DEF Good
  <1>5. CASE d = Half
    <2>1. w = ClearResync(s)
      BY <1>2, <1>5 DEF Accept
    <2> QED BY <1>3, <2>1
  <1>6. CASE d # Half /\ IsLate(d)
    <2>1. w = s
      BY <1>6 DEF Accept
    <2> QED BY <1>4, <2>1
  <1>7. CASE d # Half /\ ~IsLate(d) /\ d >= MaxGap
    <2>1. w = Jump(s, i, t)
      BY <1>1, <1>2, <1>7 DEF Accept
    <2>2. d < Half
      BY <1>1, <1>2, <1>7 DEF IsLate
    <2>3. d \in Nat /\ i = s.next + d + b
      BY <1>0, <1>1, <2>2
    <2>4. Core(w, b, f, t) /\ Waiting(w) /\ Grows(s, w, b) /\ Fewer(s, w)
      BY <2>1, <2>3, JumpRight
    <2> HIDE DEF w
    <2> QED BY <2>4, FewerGood DEF w
  <1>8. CASE d = 0
    <2> DEFINE r == Emit(s, s.next, i, t)
    <2>1. ~IsLate(d) /\ d # Half /\ ~(d >= MaxGap)
      BY <1>2, <1>8 DEF IsLate
    <2>2. w = FlushBuffered(r, t)
      BY <1>8, <2>1 DEF Accept
    <2>3. i = s.next + b
      BY <1>0, <1>1, <1>2, <1>8
    <2>4. Core(r, b, f, t) /\ Grows(s, r, b) /\ Fewer(s, r)
      BY <2>3, EmitRight
    <2> HIDE DEF r
    <2>5. Core(w, b, f, t) /\ Waiting(w) /\ Grows(r, w, b) /\ Fewer(r, w)
      BY <2>2, <2>4, FlushBufferedRight
    <2> HIDE DEF w
    <2>6. r \in Queue /\ w \in Queue
      BY <2>4, <2>5 DEF Core
    <2>7. Grows(s, w, b)
      BY <1>0, <2>4, <2>5, <2>6, GrowsTransitive
    <2>8. Fewer(s, w)
      BY <2>4, <2>5 DEF Fewer
    <2> QED BY <2>5, <2>7, <2>8, FewerGood DEF w
  <1>9. CASE d # Half /\ ~IsLate(d) /\ ~(d >= MaxGap) /\ d # 0
    <2> DEFINE c == ClearResync(s)
               h == Hold(c, i, t)
               g == IF Overfull(h) THEN SkipGap(h, t) ELSE h
               e == Extended(s, i)
    <2>1. w = IF e \in Held(s) THEN c ELSE FlushExpired(g, t)
      BY <1>9 DEF Accept
    <2>2. d < Half /\ d < MaxGap /\ d > 0
      BY <1>1, <1>2, <1>9 DEF IsLate
    <2>3. e = s.next + d
      BY DEF Extended
    <2>4. e \in Nat /\ e > s.next /\ e < s.next + MaxGap /\ i = e + b
      <3> HIDE DEF d, e
      <3>1. e \in Nat /\ e > s.next /\ e < s.next + MaxGap
        BY <1>0, <1>1, <1>2, <2>2, <2>3
      <3> QED BY <1>1, <2>2, <2>3, <3>1
    <2>5. Core(c, b, f, t) /\ Grows(s, c, b) /\ Waiting(c) /\ Held(c) = Held(s) /\ SameData(s, c)
      BY ClearRight
    <2>6. c.next = s.next /\ e = Extended(c, i)
      BY <2>5 DEF SameData, Extended, Delta
    <2>7. CASE e \in Held(s)
      BY <1>3, <2>1, <2>7
    <2>8. CASE e \notin Held(s)
      <3> HIDE DEF c, e, d
      <3>0. e \in Nat /\ e > c.next /\ e < c.next + MaxGap /\ e \notin Held(c)
        BY <2>4, <2>5, <2>6, <2>8
      <3>1. /\ Core(h, b, f, t) /\ Waiting(h) /\ Grows(c, h, b) /\ Held(h) = Held(c) \cup {e}
            /\ Cardinality(Held(h)) = Cardinality(Held(c)) + 1
        BY SMTT(30), <2>4, <2>5, <2>6, <3>0, HoldRight
      <3> HIDE DEF h
      <3>2. /\ IsFiniteSet(Held(s)) /\ Cardinality(Held(s)) \in Nat
            /\ IsFiniteSet(Held(h)) /\ Cardinality(Held(h)) \in Nat
        BY <3>1, FS_CardinalityType DEF Core, HeldRight
      <3>3. /\ Core(g, b, f, t) /\ Waiting(g) /\ Grows(h, g, b) /\ Cardinality(Held(g)) <= MaxCache
        <4>1. CASE Overfull(h)
          <5>1. g = SkipGap(h, t) /\ Held(h) # {}
            BY <3>1, <4>1
          <5>2. /\ Core(g, b, f, t) /\ Waiting(g) /\ Grows(h, g, b)
                /\ Cardinality(Held(g)) < Cardinality(Held(h))
            BY <3>1, <5>1, SkipGapRight
          <5> HIDE DEF g
          <5>3. IsFiniteSet(Held(g)) /\ Cardinality(Held(g)) \in Nat
            BY <5>2, FS_CardinalityType DEF Core, HeldRight
          <5>4. Cardinality(Held(h)) <= MaxCache + 1
            BY <2>5, <3>1, <3>2, Constants
          <5>5. Cardinality(Held(g)) <= MaxCache
            BY <3>2, <5>2, <5>3, <5>4, Constants
          <5> QED BY <5>2, <5>5
        <4>2. CASE ~Overfull(h)
          <5>1. g = h
            BY <4>2
          <5>2. Cardinality(Held(h)) <= MaxCache
            BY <3>2, <4>2, Constants DEF Overfull
          <5>3. Grows(h, h, b)
            <6>1. h \in Queue /\ h.next \in Nat
              BY <3>1, QueueFields DEF Core
            <6> QED BY <6>1 DEF Grows
          <5> HIDE DEF g
          <5> QED BY <3>1, <5>1, <5>2, <5>3
        <4> QED BY <4>1, <4>2
      <3> HIDE DEF g
      <3>4. t <= t
        OBVIOUS
      <3>5. w = FlushExpired(g, t)
        BY <2>1, <2>8
      <3>6. Core(w, b, f, t) /\ Waiting(w) /\ Alive(w, t) /\ Grows(g, w, b) /\ Fewer(g, w)
        BY <3>3, <3>4, <3>5, FlushExpiredRight
      <3> HIDE DEF w
      <3>7. c \in Queue /\ h \in Queue /\ g \in Queue /\ w \in Queue
        BY <2>5, <3>1, <3>3, <3>6 DEF Core
      <3>8. Grows(s, h, b)
        BY <1>0, <2>5, <3>1, <3>7, GrowsTransitive
      <3>9. Grows(s, g, b)
        BY <1>0, <3>3, <3>7, <3>8, GrowsTransitive
      <3>10. Grows(s, w, b)
        BY <1>0, <3>6, <3>7, <3>9, GrowsTransitive
      <3>11. /\ IsFiniteSet(Held(g)) /\ Cardinality(Held(g)) \in Nat
             /\ IsFiniteSet(Held(w)) /\ Cardinality(Held(w)) \in Nat
        BY <3>3, <3>6, FS_CardinalityType DEF Core, HeldRight
      <3>12. Cardinality(Held(w)) <= Cardinality(Held(g))
        BY <3>6, <3>11, FewerFits
      <3>13. Cardinality(Held(w)) <= MaxCache
        BY <3>3, <3>11, <3>12, Constants
      <3> QED BY <3>6, <3>10, <3>13 DEF Good, w
    <2> QED BY <2>7, <2>8
  <1> QED BY <1>5, <1>6, <1>7, <1>8, <1>9

-----------------------------------------------------------------------------
(***************************************************************************)
(* The inductive invariant.                                                *)
(***************************************************************************)

\* Before the first packet nothing is held and nothing was given out.
Untouched(s) == s.emitted = 0 /\ s.lost = 0 /\ s.out = {} /\ Held(s) = {}

IInv ==
  /\ now \in Nat /\ started \in BOOLEAN /\ base \in Nat /\ first \in Nat
  /\ \E k \in Int : base = k * Cycle
  /\ Core(q, base, first, now) /\ Waiting(q) /\ Alive(q, now)
  /\ Cardinality(Held(q)) <= MaxCache
  /\ ~started => Untouched(q)

\* What InOrder says of one step.
Ordered == \A i \in q'.out \ q.out : \A j \in q.out : j < i

\* A queue such as Fresh, and such as reset leaves.
Empty(s) == s.next = 0 /\ s.buf = <<>> /\ s.progress = 0 /\ s.run = 0 /\ Untouched(s)

\* The queue is empty when it is made.
LEMMA FreshEmpty == Fresh \in Queue /\ Empty(Fresh) /\ Fresh.runAt = 0
  <1>1. <<>> \in UNION {[D -> Entry] : D \in SUBSET Nat}
    <2>1. <<>> \in [{} -> Entry]
      OBVIOUS
    <2> QED BY <2>1
  <1>2. DOMAIN <<>> = {} /\ 0 \in 0..(Cycle - 1)
    BY Constants
  <1>3. Fresh \in Queue
    BY <1>1, <1>2 DEF Fresh, Queue
  <1>4. /\ Fresh.next = 0 /\ Fresh.buf = <<>> /\ Fresh.progress = 0 /\ Fresh.run = 0
        /\ Fresh.emitted = 0 /\ Fresh.lost = 0 /\ Fresh.out = {} /\ Fresh.runAt = 0
    BY DEF Fresh
  <1>5. Held(Fresh) = {}
    BY <1>2, <1>4 DEF Held
  <1> QED BY <1>3, <1>4, <1>5 DEF Empty, Untouched

\* An empty queue is right.
LEMMA EmptyRight ==
  ASSUME NEW t \in Nat, NEW r \in Queue, Empty(r), r.runAt <= t
  PROVE  /\ Core(r, 0, 0, t) /\ Waiting(r) /\ Alive(r, t)
         /\ Cardinality(Held(r)) <= MaxCache /\ Untouched(r)
  <1>1. /\ r.next = 0 /\ r.progress = 0 /\ r.run = 0 /\ Untouched(r)
        /\ r.emitted = 0 /\ r.lost = 0 /\ r.out = {} /\ Held(r) = {}
    BY DEF Empty, Untouched
  <1>2. IsFiniteSet({}) /\ Cardinality({}) = 0
    BY FS_EmptySet
  <1>3. HeldRight(r, 0, t)
    BY <1>1, <1>2 DEF HeldRight
  <1>4. OutRight(r, 0, 0)
    BY <1>1, <1>2 DEF OutRight
  <1>5. MarksRight(r, t)
    BY <1>1 DEF MarksRight
  <1>6. Waiting(r) /\ Alive(r, t) /\ Cardinality(Held(r)) <= MaxCache
    BY <1>1, <1>2, Constants DEF Waiting, Alive
  <1> QED BY <1>1, <1>3, <1>4, <1>5, <1>6 DEF Core

\* The invariant holds at the start.
LEMMA InitInv == Init => IInv
  <1> SUFFICES ASSUME Init PROVE IInv
    OBVIOUS
  <1>1. now = 0 /\ started = FALSE /\ q = Fresh /\ base = 0 /\ first = 0
    BY DEF Init
  <1>2. 0 \in Nat /\ q \in Queue /\ Empty(q) /\ q.runAt <= 0
    BY <1>1, FreshEmpty
  <1>3. Core(q, 0, 0, 0) /\ Waiting(q) /\ Alive(q, 0) /\ Cardinality(Held(q)) <= MaxCache /\ Untouched(q)
    BY <1>2, EmptyRight
  <1>4. \E k \in Int : base = k * Cycle
    <2>1. 0 = 0 * Cycle
      BY Constants
    <2> QED BY <1>1, <2>1
  <1> QED BY <1>1, <1>3, <1>4 DEF IInv

\* A call on a started queue, or one that leaves it untouched.
LEMMA CallInv ==
  ASSUME IInv, NEW t \in Nat, now' = t, UNCHANGED <<started, base, first>>,
         Good(q, q', base, first, t), ~started => Untouched(q')
  PROVE  IInv' /\ Ordered
  <1>1. /\ now' = t /\ started' = started /\ base' = base /\ first' = first
        /\ started \in BOOLEAN /\ base \in Nat /\ first \in Nat /\ \E k \in Int : base = k * Cycle
    BY DEF IInv
  <1>2. /\ Core(q', base, first, t) /\ Waiting(q') /\ Alive(q', t) /\ Grows(q, q', base)
        /\ Cardinality(Held(q')) <= MaxCache
    BY DEF Good
  <1>3. IInv'
    BY <1>1, <1>2 DEF IInv
  <1>4. Ordered
    <2>1. q \in Queue /\ q' \in Queue /\ \A j \in q.out : j < q.next + base
      BY <1>2 DEF IInv, Core, OutRight
    <2>2. q.next \in Nat /\ q.out \subseteq Nat /\ q'.out \subseteq Nat
      BY <2>1, QueueFields
    <2>3. \A i \in q'.out : i \in q.out \/ i >= q.next + base
      BY <1>2 DEF Grows
    <2> QED BY <1>1, <2>1, <2>2, <2>3 DEF Ordered
  <1> QED BY <1>3, <1>4

\* flushExpired at the start of a call, or as the whole of it.
LEMMA FlushGood ==
  ASSUME IInv, NEW t \in Nat, now <= t
  PROVE  /\ Good(q, FlushExpired(q, t), base, first, t)
         /\ Untouched(q) => Untouched(FlushExpired(q, t))
  <1> DEFINE s == FlushExpired(q, t)
  <1>1. /\ now \in Nat /\ base \in Nat /\ first \in Nat /\ Core(q, base, first, now) /\ Waiting(q)
        /\ Cardinality(Held(q)) <= MaxCache
    BY DEF IInv
  <1>2. /\ Core(s, base, first, t) /\ Waiting(s) /\ Alive(s, t) /\ Grows(q, s, base) /\ Fewer(q, s)
        /\ (Held(q) = {} => s.next = q.next /\ s.out = q.out /\ s.emitted = q.emitted /\ s.lost = q.lost)
    BY <1>1, FlushExpiredRight
  <1> HIDE DEF s
  <1>3. IsFiniteSet(Held(q)) /\ IsFiniteSet(Held(s))
    BY <1>1, <1>2 DEF Core, HeldRight
  <1>4. Cardinality(Held(q)) \in Nat /\ Cardinality(Held(s)) \in Nat
    BY <1>3, FS_CardinalityType
  <1>5. Cardinality(Held(s)) <= Cardinality(Held(q))
    BY <1>2, <1>3, FewerFits
  <1>6. Cardinality(Held(s)) <= MaxCache
    BY <1>1, <1>4, <1>5, Constants
  <1>7. Good(q, s, base, first, t)
    BY <1>2, <1>6 DEF Good
  <1>8. Untouched(q) => Untouched(s)
    BY <1>2 DEF Untouched, Fewer
  <1> QED BY <1>7, <1>8 DEF s

\* The first packet fixes the numbering.
LEMMA InputFirstInv ==
  ASSUME IInv, NEW t \in Nat, now <= t, NEW i \in Nat, InputFirst(i, t)
  PROVE  IInv' /\ Ordered
  <1> DEFINE n == Seq16(i)
             b == i - n
             m == i \div Cycle
             s == [q EXCEPT !.next = n]
             r == Emit(s, n, i, t)
  <1>1. n \in 0..(Cycle - 1) /\ m \in Int /\ i = m * Cycle + n
    BY Remainder DEF Seq16
  <1>2. ~started /\ started' = TRUE /\ now' = t /\ q' = r /\ base' = b /\ first' = n
    BY DEF InputFirst
  <1>3. b \in Nat /\ b = m * Cycle /\ i = n + b /\ n \in Nat
    <2> HIDE DEF m, n
    <2>1. m * Cycle \in Int /\ b = m * Cycle /\ i = n + b /\ n \in Nat
      BY <1>1, Constants
    <2>2. m >= 0
      <3> SUFFICES ASSUME m <= -1 PROVE FALSE
        BY <1>1
      <3>1. m * Cycle <= -Cycle
        BY <1>1, Multiple
      <3> QED BY <1>1, <2>1, <3>1, Constants
    <2>3. m * Cycle >= 0
      <3>1. CASE m = 0
        BY <3>1, Constants
      <3>2. CASE m >= 1
        BY <1>1, <2>1, <3>2, Multiple, Constants
      <3> QED BY <1>1, <2>2, <3>1, <3>2
    <2> QED BY <2>1, <2>3
  <1>4. /\ Core(q, base, first, now) /\ Untouched(q) /\ now \in Nat /\ q \in Queue
    BY <1>2 DEF IInv, Core
  <1> HIDE DEF n, b, m
  <1>5. /\ s \in Queue /\ s.next = n /\ s.buf = q.buf /\ s.emitted = 0 /\ s.lost = 0 /\ s.out = {}
        /\ s.progress = q.progress /\ s.runAt = q.runAt /\ s.run = q.run
    BY <1>3, <1>4 DEF Queue, Untouched
  <1>6. Held(s) = {} /\ IsFiniteSet({}) /\ Cardinality({}) = 0
    BY <1>4, <1>5, FS_EmptySet DEF Held, Untouched
  <1> HIDE DEF s
  <1>7. Core(s, b, n, t)
    <2>1. HeldRight(s, b, t)
      BY <1>6 DEF HeldRight
    <2>2. OutRight(s, b, n)
      BY <1>3, <1>5, <1>6 DEF OutRight
    <2>3. MarksRight(s, t)
      <3>1. q.progress \in Nat /\ q.runAt \in Nat
        BY <1>4, QueueFields
      <3>2. q.progress <= now /\ q.runAt <= now /\ (q.run = 0 \/ q.run < ResyncRun)
        BY <1>4 DEF Core, MarksRight
      <3>3. q.progress <= t /\ q.runAt <= t
        BY <1>4, <3>1, <3>2
      <3> QED BY <1>5, <3>2, <3>3 DEF MarksRight
    <2> QED BY <1>5, <2>1, <2>2, <2>3 DEF Core
  <1>8. Waiting(s) /\ i = s.next + b
    BY <1>3, <1>5, <1>6 DEF Waiting
  <1>9. Core(r, b, n, t) /\ Fewer(s, r)
    BY <1>3, <1>5, <1>7, <1>8, EmitRight
  <1> HIDE DEF r
  <1>10. Held(r) = {}
    BY <1>6, <1>9 DEF Fewer
  <1>11. Waiting(r) /\ Alive(r, t) /\ Cardinality(Held(r)) <= MaxCache
    BY <1>6, <1>10, Constants DEF Waiting, Alive
  <1>12. \E k \in Int : b = k * Cycle
    BY <1>1, <1>3
  <1>13. IInv'
    BY <1>2, <1>3, <1>9, <1>11, <1>12 DEF IInv
  <1>14. Ordered
    BY <1>4 DEF Untouched, Ordered
  <1> QED BY <1>13, <1>14

\* inputPacket keeps the invariant and the order of the output.
LEMMA InputInv ==
  ASSUME IInv, NEW t \in Nat, now <= t, NEW i \in Nat, Input(i, t)
  PROVE  IInv' /\ Ordered
  <1> DEFINE s == FlushExpired(q, t)
             w == Accept(s, i, t)
  <1>1. Good(q, s, base, first, t)
    BY FlushGood
  <1>2. started /\ now' = t /\ Plausible(s, i) /\ q' = w /\ UNCHANGED <<started, base, first>>
    BY DEF Input
  <1> HIDE DEF s
  <1>3. (i - base) - s.next \in (-Half)..Half
    BY <1>2 DEF Plausible
  <1>4. PICK k \in Int : base = k * Cycle
    BY DEF IInv
  <1>5. base \in Nat /\ first \in Nat /\ q \in Queue
    BY DEF IInv, Core
  <1>6. /\ Core(s, base, first, t) /\ Waiting(s) /\ Alive(s, t) /\ Grows(q, s, base)
        /\ Cardinality(Held(s)) <= MaxCache
    BY <1>1 DEF Good
  <1>7. Good(s, w, base, first, t)
    BY <1>3, <1>4, <1>5, <1>6, AcceptRight
  <1> HIDE DEF w
  <1>8. Grows(q, w, base)
    <2>1. s \in Queue /\ w \in Queue /\ Grows(s, w, base)
      BY <1>6, <1>7 DEF Good, Core
    <2> QED BY <1>5, <1>6, <2>1, GrowsTransitive
  <1>9. Good(q, q', base, first, t)
    BY <1>2, <1>7, <1>8 DEF Good
  <1> QED BY <1>2, <1>9, CallInv

\* The timer keeps the invariant and the order of the output.
LEMMA TickInv ==
  ASSUME IInv, NEW t \in Nat, now <= t, Tick(t)
  PROVE  IInv' /\ Ordered
  <1>1. now' = t /\ q' = FlushExpired(q, t) /\ UNCHANGED <<started, base, first>>
    BY DEF Tick
  <1>2. Good(q, q', base, first, t) /\ (Untouched(q) => Untouched(q'))
    BY <1>1, FlushGood
  <1>3. ~started => Untouched(q)
    BY DEF IInv
  <1> QED BY <1>1, <1>2, <1>3, CallInv

\* flushTimeout: what is held leaves, whatever is missing between.
LEMMA DrainInv ==
  ASSUME IInv, NEW t \in Nat, now <= t, Drain(t)
  PROVE  IInv' /\ Ordered
  <1> DEFINE c == ClearResync(q)
             to == Max(Held(q)) + 1
  <1>1. /\ now' = t /\ q' = (IF Held(q) = {} THEN c ELSE AdvanceTo(c, to, t))
        /\ UNCHANGED <<started, base, first>>
    BY DEF Drain
  <1>2. /\ now \in Nat /\ base \in Nat /\ first \in Nat /\ Core(q, base, first, now) /\ Waiting(q)
        /\ Cardinality(Held(q)) <= MaxCache /\ (~started => Untouched(q))
    BY DEF IInv
  <1>3. Core(q, base, first, t)
    BY <1>2, CoreLater
  <1>4. /\ Core(c, base, first, t) /\ Grows(q, c, base) /\ Fewer(q, c) /\ Waiting(c)
        /\ Held(c) = Held(q) /\ SameData(q, c)
    BY <1>2, <1>3, ClearRight
  <1> HIDE DEF c
  <1>5. c \in Queue /\ q \in Queue
    BY <1>3, <1>4 DEF Core
  <1>6. CASE Held(q) = {}
    <2>1. q' = c
      BY <1>1, <1>6
    <2>2. Alive(c, t)
      BY <1>4, <1>6 DEF Alive
    <2>3. Good(q, q', base, first, t)
      BY <1>2, <1>4, <2>1, <2>2 DEF Good
    <2>4. Untouched(q) => Untouched(q')
      BY <1>4, <2>1 DEF Untouched, SameData
    <2> QED BY <1>1, <1>2, <2>3, <2>4, CallInv
  <1>7. CASE Held(q) # {}
    <2>1. /\ Held(q) \in SUBSET Nat /\ q.next \in Nat /\ MaxGap \in Nat
          /\ \A e \in Held(q) : q.next <= e /\ e < q.next + MaxGap
      BY <1>3, <1>5, QueueFields, Constants DEF Core, HeldRight
    <2>2. q.next + MaxGap \in Nat /\ \A e \in Held(q) : e <= q.next + MaxGap
      BY <2>1
    <2>3. Max(Held(q)) \in Held(q) /\ \A e \in Held(q) : e <= Max(Held(q))
      BY <1>7, <2>1, <2>2, MaxIs
    <2>4. to \in Nat /\ to >= q.next /\ \A e \in Held(q) : e < to
      BY <2>1, <2>3
    <2> HIDE DEF to
    <2>5. to \notin Held(q)
      BY <2>1, <2>4
    <2>6. c.next = q.next
      BY <1>4 DEF SameData
    <2>7. to >= c.next /\ to \notin Held(c) /\ t <= t
      BY <1>4, <2>4, <2>5, <2>6
    <2>8. q' = AdvanceTo(c, to, t)
      BY <1>1, <1>7
    <2>9. /\ Core(q', base, first, t) /\ Waiting(q') /\ Grows(c, q', base) /\ Fewer(c, q')
          /\ \A e \in Held(c) : e \in Held(q') <=> e > to
      BY <1>2, <1>4, <2>4, <2>7, <2>8, AdvanceRight
    <2>10. Held(q') = {}
      <3>1. \A e \in Held(c) : ~(e > to)
        BY <1>4, <2>1, <2>4
      <3> QED BY <2>9, <3>1 DEF Fewer
    <2>11. Alive(q', t) /\ Cardinality(Held(q')) <= MaxCache
      BY <2>10, FS_EmptySet, Constants DEF Alive
    <2>12. q' \in Queue
      BY <2>9 DEF Core
    <2>13. Grows(q, q', base)
      BY <1>2, <1>4, <1>5, <2>9, <2>12, GrowsTransitive
    <2>14. Good(q, q', base, first, t)
      BY <2>9, <2>11, <2>13 DEF Good
    <2>15. started
      BY <1>2, <1>7 DEF Untouched
    <2> QED BY <1>1, <2>14, <2>15, CallInv
  <1> QED BY <1>6, <1>7

\* reset keeps the invariant and the order of the output.
LEMMA ResetInv ==
  ASSUME IInv, Reset
  PROVE  IInv' /\ Ordered
  <1>1. /\ now' = now /\ started' = FALSE /\ base' = 0 /\ first' = 0
        /\ q' = [Fresh EXCEPT !.runLast = q.runLast, !.runAt = q.runAt]
    BY DEF Reset
  <1>2. now \in Nat /\ q \in Queue /\ q.runAt <= now
    BY DEF IInv, Core, MarksRight
  <1>3. q.runLast \in 0..(Cycle - 1) /\ q.runAt \in Nat
    BY <1>2, QueueFields
  <1>4. /\ Core(q', 0, 0, now) /\ Waiting(q') /\ Alive(q', now) /\ Cardinality(Held(q')) <= MaxCache
        /\ Untouched(q')
    <2> DEFINE r == [Fresh EXCEPT !.runLast = q.runLast, !.runAt = q.runAt]
    <2>1. r \in Queue /\ r.runAt = q.runAt
      BY <1>3, FreshEmpty DEF Queue
    <2>2. Empty(r)
      BY FreshEmpty DEF Queue, Empty, Untouched, Held
    <2> HIDE DEF r
    <2>3. q' = r /\ r.runAt <= now
      BY <1>1, <1>2, <2>1 DEF r
    <2> QED BY <1>2, <2>1, <2>2, <2>3, EmptyRight
  <1>5. \E k \in Int : 0 = k * Cycle
    <2>1. 0 = 0 * Cycle
      BY Constants
    <2> QED BY <2>1
  <1>6. IInv'
    BY <1>1, <1>2, <1>4, <1>5 DEF IInv
  <1>7. Ordered
    BY <1>4 DEF Ordered, Untouched
  <1> QED BY <1>6, <1>7

\* Every step keeps the invariant and the order of what leaves.
LEMMA StepInv ==
  ASSUME IInv, [Next]_vars
  PROVE  IInv' /\ Ordered
  <1>0. now \in Nat
    BY DEF IInv
  <1>1. CASE \E t \in now..MaxTime, i \in MinIndex..MaxIndex : InputFirst(i, t)
    <2>1. PICK t \in now..MaxTime, i \in MinIndex..MaxIndex : InputFirst(i, t)
      BY <1>1
    <2>2. t \in Nat /\ now <= t /\ i \in Nat
      BY <1>0, <2>1, Constants
    <2> QED BY <2>1, <2>2, InputFirstInv
  <1>2. CASE \E t \in now..MaxTime, i \in MinIndex..MaxIndex : Input(i, t)
    <2>1. PICK t \in now..MaxTime, i \in MinIndex..MaxIndex : Input(i, t)
      BY <1>2
    <2>2. t \in Nat /\ now <= t /\ i \in Nat
      BY <1>0, <2>1, Constants
    <2> QED BY <2>1, <2>2, InputInv
  <1>3. CASE \E t \in now..MaxTime : Tick(t)
    <2>1. PICK t \in now..MaxTime : Tick(t)
      BY <1>3
    <2>2. t \in Nat /\ now <= t
      BY <1>0, <2>1, Constants
    <2> QED BY <2>1, <2>2, TickInv
  <1>4. CASE \E t \in now..MaxTime : Drain(t)
    <2>1. PICK t \in now..MaxTime : Drain(t)
      BY <1>4
    <2>2. t \in Nat /\ now <= t
      BY <1>0, <2>1, Constants
    <2> QED BY <2>1, <2>2, DrainInv
  <1>5. CASE Reset
    BY <1>5, ResetInv
  <1>6. CASE UNCHANGED vars
    <2>1. now' = now /\ started' = started /\ q' = q /\ base' = base /\ first' = first
      BY <1>6 DEF vars
    <2>2. IInv'
      BY <2>1 DEF IInv
    <2>3. Ordered
      BY <2>1 DEF Ordered
    <2> QED BY <2>2, <2>3
  <1> QED BY <1>1, <1>2, <1>3, <1>4, <1>5, <1>6 DEF Next

\* The invariant holds in every reachable state.
THEOREM Invariant == Spec => []IInv
  <1>1. Init => IInv
    BY InitInv
  <1>2. IInv /\ [Next]_vars => IInv'
    BY StepInv
  <1> QED BY <1>1, <1>2, PTL DEF Spec

-----------------------------------------------------------------------------
(***************************************************************************)
(* What follows from it.                                                   *)
(***************************************************************************)

\* Type correctness: the buffer never exceeds max_cache_, the resynchronisation
\* run never exceeds the length that moves the queue, no time lies in the future
\* and the counters never become negative.
THEOREM ReorderTypeCorrect == Spec => []TypeOK
  <1>1. IInv => TypeOK
    <2> SUFFICES ASSUME IInv PROVE TypeOK
      OBVIOUS
    <2>1. /\ now \in Nat /\ started \in BOOLEAN /\ base \in Nat /\ first \in Nat
          /\ q \in Queue /\ HeldRight(q, base, now) /\ MarksRight(q, now) /\ Cardinality(Held(q)) <= MaxCache
      BY DEF IInv, Core
    <2>2. /\ q.next \in Nat /\ q.progress \in Nat /\ q.run \in Nat /\ q.runLast \in 0..(Cycle - 1)
          /\ q.runAt \in Nat /\ q.emitted \in Nat /\ q.lost \in Nat /\ q.out \subseteq Nat
          /\ Held(q) \subseteq Nat /\ \A e \in Held(q) : q.buf[e].idx \in Nat /\ q.buf[e].at \in Nat
      BY <2>1, QueueFields
    <2>3. \A e \in Held(q) : q.buf[e].idx \in Nat /\ q.buf[e].at \in 0..now
      BY <2>1, <2>2 DEF HeldRight
    <2>4. q.progress \in 0..now /\ q.runAt \in 0..now /\ q.run \in 0..ResyncRun
      BY <2>1, <2>2, Constants DEF MarksRight
    <2> QED BY <2>1, <2>2, <2>3, <2>4 DEF TypeOK
  <1> QED BY <1>1, Invariant, PTL

\* Every number from the first packet to the expected one was given to the
\* callback once or counted as lost once, through wraps of the 16-bit number,
\* timeouts, overflows of the buffer and jumps.
THEOREM OutputAccounted == Spec => []OutputAccount
  <1>1. IInv => OutputAccount
    BY DEF IInv, Core, OutRight, OutputAccount
  <1> QED BY <1>1, Invariant, PTL

\* The extended number under which a packet is held is the one the source meant,
\* ahead of the expected one and within the window; what was given out lies
\* behind.
THEOREM UnwrapsRight == Spec => []TrueIndex
  <1>1. IInv => TrueIndex
    <2> SUFFICES ASSUME IInv PROVE TrueIndex
      OBVIOUS
    <2>1. q \in Queue /\ HeldRight(q, base, now) /\ OutRight(q, base, first) /\ Waiting(q)
      BY DEF IInv, Core
    <2>2. q.next \in Nat /\ Held(q) \subseteq Nat
      BY <2>1, QueueFields
    <2>3. \A e \in Held(q) : q.buf[e].idx = e + base /\ q.next <= e /\ e < q.next + MaxGap
      BY <2>1 DEF HeldRight
    <2>4. \A e \in Held(q) : e # q.next
      BY <2>1 DEF Waiting
    <2>5. \A e \in Held(q) : q.next < e
      BY <2>2, <2>3, <2>4
    <2>6. \A i \in q.out : i < q.next + base
      BY <2>1 DEF OutRight
    <2> QED BY <2>3, <2>5, <2>6 DEF TrueIndex
  <1> QED BY <1>1, Invariant, PTL

\* After any call no held packet has waited for the flush timeout, wherever in
\* the queue it stands: a later arrival never extends a deadline.
THEOREM NeverStalls == Spec => []NoStall
  <1>1. IInv => NoStall
    BY DEF IInv, Alive, NoStall
  <1> QED BY <1>1, Invariant, PTL

\* Packets are given to the callback in the order the source sent them, over
\* wraps, skipped gaps and jumps.
THEOREM LeavesInOrder == Spec => InOrder
  <1>1. IInv /\ [Next]_vars => [Ordered]_vars
    BY StepInv
  <1> QED BY <1>1, Invariant, PTL DEF Spec, InOrder, Ordered

-----------------------------------------------------------------------------
(***************************************************************************)
(* The NACK requester: numbers modulo the size of the sequence space.      *)
(***************************************************************************)

\* What NackAssumption says of the constants, one by one.
LEMMA NackConstants ==
  /\ Modulus \in Nat /\ HalfSpace \in Nat /\ 2 * HalfSpace <= Modulus /\ MaxAhead \in Nat
  /\ MaxAhead < HalfSpace /\ ListSize \in Nat /\ MaxAge \in Nat /\ MaxAge > 0
  /\ MaxRetries \in Nat /\ Rtts \subseteq Nat /\ None \notin Seqs
  <1>1. {Modulus, MaxAhead, ListSize, MaxAge, MaxRetries} \subseteq Nat \ {0}
    BY NackAssumption
  <1>2. MaxAhead < HalfSpace /\ Rtts \subseteq Nat /\ None \notin Seqs
    BY NackAssumption
  <1>3. HalfSpace \in Nat /\ 2 * HalfSpace <= Modulus
    BY <1>1 DEF HalfSpace
  <1> QED BY <1>1, <1>2, <1>3

\* A sum in the sequence space, without the modulus.
LEMMA PlusIs ==
  ASSUME NEW a \in Seqs, NEW b \in Nat, b <= Modulus
  PROVE  /\ Plus(a, b) \in Seqs
         /\ Plus(a, b) = IF a + b < Modulus THEN a + b ELSE (a + b) - Modulus
  <1>1. Modulus \in Nat /\ a \in Nat /\ a < Modulus
    BY NackConstants DEF Seqs
  <1>2. a + b < Modulus => (a + b) % Modulus = a + b
    BY <1>1
  <1>3. a + b >= Modulus => (a + b) % Modulus = (a + b) - Modulus
    BY <1>1
  <1>4. Plus(a, b) = IF a + b < Modulus THEN a + b ELSE (a + b) - Modulus
    BY <1>1, <1>2, <1>3 DEF Plus
  <1> QED BY <1>1, <1>4 DEF Seqs

\* A packet d ahead of n is newer than n, and d ahead.
LEMMA AheadIs ==
  ASSUME NEW n \in Seqs, NEW d \in Nat, 0 < d, d < HalfSpace
  PROVE  /\ IsNewer(Plus(n, d), n)
         /\ Plus(Plus(n, d), Modulus - n) = d
  <1>1. /\ Modulus \in Nat /\ HalfSpace \in Nat /\ 2 * HalfSpace <= Modulus
        /\ n \in Nat /\ n < Modulus
    BY NackConstants DEF Seqs
  <1> DEFINE p == Plus(n, d)
  <1>2. p \in Seqs /\ p = IF n + d < Modulus THEN n + d ELSE (n + d) - Modulus
    BY <1>1, PlusIs
  <1>3. Modulus - n \in Nat /\ Modulus - n <= Modulus
    BY <1>1
  <1> HIDE DEF p
  <1>4. Plus(p, Modulus - n) = IF p + (Modulus - n) < Modulus THEN p + (Modulus - n)
                                 ELSE (p + (Modulus - n)) - Modulus
    BY <1>2, <1>3, PlusIs
  <1>5. Plus(p, Modulus - n) = d /\ p # n
    BY <1>1, <1>2, <1>4
  <1> QED BY <1>5 DEF p, IsNewer

\* A packet d behind n, less than half the space, is not newer.
LEMMA BehindIs ==
  ASSUME NEW n \in Seqs, NEW d \in Nat, d < HalfSpace
  PROVE  ~IsNewer(Plus(n, Modulus - d), n)
  <1>1. /\ Modulus \in Nat /\ HalfSpace \in Nat /\ 2 * HalfSpace <= Modulus
        /\ n \in Nat /\ n < Modulus
    BY NackConstants DEF Seqs
  <1>2. Modulus - d \in Nat /\ Modulus - d <= Modulus /\ Modulus - n \in Nat /\ Modulus - n <= Modulus
    BY <1>1
  <1> DEFINE p == Plus(n, Modulus - d)
  <1>3. p \in Seqs /\ p = IF n + (Modulus - d) < Modulus THEN n + (Modulus - d)
                            ELSE (n + (Modulus - d)) - Modulus
    BY <1>2, PlusIs
  <1> HIDE DEF p
  <1>4. Plus(p, Modulus - n) = IF p + (Modulus - n) < Modulus THEN p + (Modulus - n)
                                 ELSE (p + (Modulus - n)) - Modulus
    BY <1>2, <1>3, PlusIs
  <1>5. p = n \/ Plus(p, Modulus - n) >= HalfSpace
    BY <1>1, <1>3, <1>4
  <1>6. Plus(p, Modulus - n) \in Nat
    BY <1>1, <1>3, <1>4
  <1>7. ~(p # n /\ Plus(p, Modulus - n) < HalfSpace)
    BY <1>1, <1>5, <1>6
  <1> QED BY <1>7 DEF p, IsNewer

\* When the newest packet moves d ahead, what was b behind it is b + d behind.
LEMMA MovesBack ==
  ASSUME NEW n \in Seqs, NEW d \in Nat, NEW b \in Int,
         d < HalfSpace, b + d >= 0, b + d < HalfSpace, b >= -d
  PROVE  Plus(Plus(n, d), Modulus - (b + d))
           = IF b >= 0 THEN Plus(n, Modulus - b) ELSE Plus(n, -b)
  <1>1. /\ Modulus \in Nat /\ HalfSpace \in Nat /\ 2 * HalfSpace <= Modulus
        /\ n \in Nat /\ n < Modulus
    BY NackConstants DEF Seqs
  <1> DEFINE p == Plus(n, d)
             c == Modulus - (b + d)
  <1>2. p \in Seqs /\ p = IF n + d < Modulus THEN n + d ELSE (n + d) - Modulus
    BY <1>1, PlusIs
  <1>3. p \in Nat /\ p < Modulus
    BY <1>1, <1>2
  <1>4. c \in Nat /\ c <= Modulus /\ c = Modulus - (b + d)
    BY <1>1
  <1> HIDE DEF p, c
  <1>5. Plus(p, c) = IF p + c < Modulus THEN p + c ELSE (p + c) - Modulus
    BY <1>2, <1>4, PlusIs
  <1>6. CASE b >= 0
    <2>1. Modulus - b \in Nat /\ Modulus - b <= Modulus
      BY <1>1, <1>6
    <2>2. Plus(n, Modulus - b) = IF n + (Modulus - b) < Modulus THEN n + (Modulus - b)
                                   ELSE (n + (Modulus - b)) - Modulus
      BY <2>1, PlusIs
    <2>3. Plus(n, Modulus - b) = Plus(p, c)
      BY <1>1, <1>2, <1>3, <1>4, <1>5, <1>6, <2>2
    <2> QED BY <1>6, <2>3 DEF p, c
  <1>7. CASE b < 0
    <2>1. -b \in Nat /\ -b <= Modulus
      BY <1>1, <1>7
    <2>2. Plus(n, -b) = IF n + (-b) < Modulus THEN n + (-b) ELSE (n + (-b)) - Modulus
      BY <2>1, PlusIs
    <2>3. Plus(n, -b) = Plus(p, c)
      BY <1>1, <1>2, <1>3, <1>4, <1>5, <1>7, <2>2
    <2>4. ~(b >= 0)
      BY <1>7
    <2> QED BY <2>3, <2>4 DEF p, c
  <1> QED BY <1>6, <1>7

\* The lesser of two numbers.
LEMMA LesserIs ==
  ASSUME NEW a \in Nat, NEW b \in Nat
  PROVE  Min({a, b}) = IF a <= b THEN a ELSE b
  <1>1. \E x \in {a, b} : \A y \in {a, b} : x <= y
    OBVIOUS
  <1>2. Min({a, b}) \in {a, b} /\ \A y \in {a, b} : Min({a, b}) <= y
    BY <1>1 DEF Min
  <1> QED BY <1>2

-----------------------------------------------------------------------------
(***************************************************************************)
(* The list m of missing packets.                                          *)
(***************************************************************************)

NackEntry == [age : Nat, since : Nat, count : Nat, asked : Nat, back : Nat]

\* An entry was requested since it was found, not too often, and when it was
\* there was time for the answer before it becomes too old.
Timely(e) ==
  /\ e.age <= MaxAge /\ e.since <= e.age /\ e.count <= MaxRetries
  /\ e.count > 0 /\ e.asked # 0 => e.asked + e.age < MaxAge + e.since

Sound(m) == \A s \in DOMAIN m : m[s] \in NackEntry /\ Timely(m[s])

Short(m) == IsFiniteSet(DOMAIN m) /\ Cardinality(DOMAIN m) <= ListSize

\* An entry has the number of a packet less than half the space behind the
\* newest one, n, and not among those that arrived, G behind.
Placed(m, n, G) ==
  \A s \in DOMAIN m : /\ m[s].back \in 1..(HalfSpace - 1) /\ m[s].back \notin G
                      /\ s = Plus(n, Modulus - m[s].back)

\* p lists packets of m only.
Shrinks(m, p) == DOMAIN p \subseteq DOMAIN m /\ \A s \in DOMAIN p : p[s].back = m[s].back

\* A list that shrinks stays short and in place.
LEMMA ShrinksKeeps ==
  ASSUME NEW m, NEW p, Shrinks(m, p)
  PROVE  /\ Short(m) => Short(p)
         /\ \A n, G : Placed(m, n, G) => Placed(p, n, G)
  <1>1. ASSUME Short(m) PROVE Short(p)
    <2>1. DOMAIN p \in SUBSET DOMAIN m
      BY DEF Shrinks
    <2>2. IsFiniteSet(DOMAIN p) /\ Cardinality(DOMAIN p) <= Cardinality(DOMAIN m)
      BY <1>1, <2>1, FS_Subset DEF Short
    <2>3. Cardinality(DOMAIN p) \in Nat /\ Cardinality(DOMAIN m) \in Nat /\ ListSize \in Nat
      BY <1>1, <2>2, FS_CardinalityType, NackConstants DEF Short
    <2> QED BY <1>1, <2>2, <2>3 DEF Short
  <1>2. \A n, G : Placed(m, n, G) => Placed(p, n, G)
    BY Zenon DEF Placed, Shrinks
  <1> QED BY <1>1, <1>2

\* The types of an entry's fields.
LEMMA EntryFields ==
  ASSUME NEW e \in NackEntry
  PROVE  e.age \in Nat /\ e.since \in Nat /\ e.count \in Nat /\ e.asked \in Nat /\ e.back \in Nat
  BY DEF NackEntry

\* A request is made while the answer can still be in time, and is counted.
LEMMA RequestIs ==
  ASSUME rtt \in Nat, NEW e \in NackEntry, Timely(e),
         RetryDue(e), ~TooOld(e), ~Exhausted(e), ~TooLate(e)
  PROVE  LET f == [e EXCEPT !.since = 0, !.count = @ + 1, !.asked = rtt]
         IN  f \in NackEntry /\ Timely(f) /\ f.back = e.back /\ f.age = e.age
  <1> DEFINE f == [e EXCEPT !.since = 0, !.count = @ + 1, !.asked = rtt]
  <1>1. /\ e.age \in Nat /\ e.since \in Nat /\ e.count \in Nat /\ e.asked \in Nat
        /\ MaxAge \in Nat /\ MaxRetries \in Nat
    BY EntryFields, NackConstants
  <1>a. e.count + 1 \in Nat
    BY <1>1
  <1>b. f \in NackEntry
    BY <1>a DEF NackEntry
  <1>c. f.back = e.back /\ f.age = e.age /\ f.since = 0 /\ f.asked = rtt
    BY DEF NackEntry
  <1>d. f.count = e.count + 1
    BY DEF NackEntry
  <1>2. f \in NackEntry /\ f.back = e.back /\ f.age = e.age /\ f.since = 0
        /\ f.count = e.count + 1 /\ f.asked = rtt
    BY <1>b, <1>c, <1>d, Zenon
  <1> HIDE DEF f
  <1>3. e.age < MaxAge /\ e.count < MaxRetries
    BY <1>1 DEF TooOld, Exhausted
  <1>4. rtt # 0 => rtt < MaxAge - e.age
    BY <1>1 DEF TooLate
  <1>5. Timely(f)
    BY <1>1, <1>2, <1>3, <1>4 DEF Timely
  <1> QED BY <1>2, <1>5 DEF f

\* A pass over the list leaves a sound one, without what is too old.
LEMMA ProcessIs ==
  ASSUME rtt \in Nat, NEW m, Sound(m)
  PROVE  LET p == Process(m)
         IN  Sound(p) /\ Shrinks(m, p) /\ \A s \in DOMAIN p : p[s].age < MaxAge
  <1> DEFINE p == Process(m)
  <1>1. DOMAIN p = DOMAIN m \ GivenUp(m)
    BY DEF Process
  <1>2. ASSUME NEW s \in DOMAIN p
        PROVE  p[s] \in NackEntry /\ Timely(p[s]) /\ p[s].back = m[s].back /\ p[s].age < MaxAge
    <2>1. s \in DOMAIN m /\ s \notin GivenUp(m)
      BY <1>1, <1>2
    <2>2. m[s] \in NackEntry /\ Timely(m[s])
      BY <2>1 DEF Sound
    <2>3. ~TooOld(m[s]) /\ ~Exhausted(m[s]) /\ ~TooLate(m[s])
      BY <2>1 DEF GivenUp
    <2>4. m[s].age < MaxAge
      BY <2>2, <2>3, EntryFields, NackConstants DEF TooOld
    <2>5. CASE s \in Batch(m)
      <3>1. RetryDue(m[s])
        BY <2>5 DEF Batch
      <3>2. p[s] = [m[s] EXCEPT !.since = 0, !.count = @ + 1, !.asked = rtt]
        BY <1>1, <1>2, <2>5 DEF Process
      <3> HIDE DEF p
      <3> QED BY <2>2, <2>3, <2>4, <3>1, <3>2, RequestIs
    <2>6. CASE s \notin Batch(m)
      <3>1. p[s] = m[s]
        BY <1>1, <1>2, <2>6 DEF Process
      <3> QED BY <2>2, <2>4, <3>1
    <2> QED BY <2>5, <2>6
  <1>3. Sound(p)
    BY <1>2 DEF Sound
  <1>4. Shrinks(m, p)
    BY <1>1, <1>2 DEF Shrinks
  <1> QED BY <1>2, <1>3, <1>4

\* What AnswerAwaited asks of the entries that are given up.
Awaited(g) ==
  g.entry.count > 0 /\ g.entry.asked # 0
    => g.entry.since >= g.entry.asked \/ g.entry.since >= g.interval

\* What a pass gives up had its time.
LEMMA ReportIs ==
  ASSUME NEW m, Sound(m), NEW g \in Report(m)
  PROVE  Awaited(g)
  <1>1. PICK s \in GivenUp(m) : g = [entry |-> m[s], interval |-> RetryInterval]
    BY DEF Report
  <1> DEFINE e == m[s]
  <1>2. g.entry = e /\ g.interval = RetryInterval
    BY <1>1
  <1>3. e \in NackEntry /\ Timely(e) /\ (TooOld(e) \/ Exhausted(e) \/ TooLate(e))
    BY <1>1 DEF GivenUp, Sound
  <1> HIDE DEF e
  <1>4. ASSUME e.count > 0, e.asked # 0, TooOld(e) PROVE e.since >= e.asked
    <2>1. /\ e.age \in Nat /\ e.since \in Nat /\ e.count \in Nat /\ e.asked \in Nat /\ MaxAge \in Nat
      BY <1>3, EntryFields, NackConstants
    <2>2. e.asked + e.age < MaxAge + e.since /\ e.age >= MaxAge
      BY <1>3, <1>4 DEF Timely, TooOld
    <2> QED BY <2>1, <2>2
  <1>5. ASSUME e.count > 0, Exhausted(e) \/ TooLate(e) PROVE e.since >= RetryInterval
    <2>1. RetryDue(e) /\ e.count \in Nat
      BY <1>3, <1>5, EntryFields DEF Exhausted, TooLate
    <2>2. e.count # 0
      BY <1>5, <2>1
    <2> QED BY <2>1, <2>2 DEF RetryDue
  <1> QED BY <1>2, <1>3, <1>4, <1>5 DEF Awaited

\* A packet that arrives leaves the list.
LEMMA ArriveIs ==
  ASSUME NEW m, Sound(m), NEW seq
  PROVE  LET a == Arrive(m, seq)
         IN  Sound(a) /\ Shrinks(m, a) /\ seq \notin DOMAIN a
  <1> DEFINE a == Arrive(m, seq)
  <1>1. a = [s \in DOMAIN m \ {seq} |-> m[s]]
    BY DEF Arrive, Restrict
  <1> HIDE DEF a
  <1>2. DOMAIN a = DOMAIN m \ {seq} /\ \A s \in DOMAIN a : a[s] = m[s]
    BY <1>1
  <1>3. Sound(a) /\ Shrinks(m, a) /\ seq \notin DOMAIN a
    BY <1>2 DEF Sound, Shrinks
  <1> QED BY <1>3 DEF a

\* The distances that packets of G behind n have behind the packet d ahead.
Moved(G, d) == {0} \cup ({k + d : k \in G} \cap 0..(HalfSpace - 1))

\* The packets between the newest and the next that have room in the list.
Room(m, g) == Min({g - 1, ListSize - Min({ListSize, Cardinality(DOMAIN m)})})
Added(m, g) == 1..Room(m, g)
Skipped(m, g) == {Plus(newest, k) : k \in Added(m, g)}

\* How many have room.
LEMMA RoomIs ==
  ASSUME NEW m, Short(m), NEW g \in Nat, 0 < g
  PROVE  Room(m, g) \in Nat /\ Room(m, g) < g /\ Room(m, g) + Cardinality(DOMAIN m) <= ListSize
  <1> DEFINE c == Cardinality(DOMAIN m)
  <1>1. c \in Nat /\ c <= ListSize /\ ListSize \in Nat
    BY FS_CardinalityType, NackConstants DEF Short
  <1>2. Cardinality(DOMAIN m) = c
    OBVIOUS
  <1> HIDE DEF c
  <1>3. Min({ListSize, c}) = c
    BY <1>1, LesserIs
  <1>4. g - 1 \in Nat /\ ListSize - c \in Nat
    BY <1>1
  <1>5. Min({g - 1, ListSize - c}) = IF g - 1 <= ListSize - c THEN g - 1 ELSE ListSize - c
    BY <1>4, LesserIs
  <1>6. Room(m, g) = IF g - 1 <= ListSize - c THEN g - 1 ELSE ListSize - c
    BY <1>2, <1>3, <1>5 DEF Room
  <1>7. Room(m, g) \in Nat /\ Room(m, g) < g /\ Room(m, g) + c <= ListSize
    BY <1>1, <1>4, <1>6
  <1> QED BY <1>7 DEF c

\* They fit.
LEMMA SkippedFit ==
  ASSUME NEW m, Short(m), NEW g \in Nat, 0 < g
  PROVE  LET D == DOMAIN m \cup Skipped(m, g)
         IN  IsFiniteSet(D) /\ Cardinality(D) <= ListSize
  <1> DEFINE r == Room(m, g)
             S == Skipped(m, g)
             A == Added(m, g)
             D == DOMAIN m
  <1>1. r \in Nat /\ r + Cardinality(D) <= ListSize /\ A = 1..r
    BY RoomIs DEF Added
  <1>2. S = {Plus(newest, k) : k \in A}
    BY DEF Skipped
  <1>3. IsFiniteSet(D)
    BY DEF Short
  <1> HIDE DEF r, S, A, D
  <1>4. IsFiniteSet(A) /\ Cardinality(A) = r
    <2>1. 1 \in Int /\ r \in Int /\ (1 > r => r = 0) /\ (r - 1) + 1 = r
      BY <1>1
    <2> QED BY <1>1, <2>1, FS_Interval
  <1> DEFINE f == [k \in A |-> Plus(newest, k)]
  <1>5. f \in Surjection(A, S)
    BY <1>2 DEF Surjection
  <1> HIDE DEF f
  <1>6. IsFiniteSet(S) /\ Cardinality(S) <= Cardinality(A)
    BY <1>4, <1>5, FS_Surjection
  <1>7. IsFiniteSet(D \cup S)
    BY <1>3, <1>6, FS_Union
  <1>8. Cardinality(D \cup S) = Cardinality(D) + Cardinality(S) - Cardinality(D \cap S)
    BY <1>3, <1>6, FS_Union
  <1>9. IsFiniteSet(D \cap S)
    BY <1>3, FS_Intersection
  <1>10. /\ Cardinality(D \cup S) \in Nat /\ Cardinality(D) \in Nat /\ Cardinality(S) \in Nat
         /\ Cardinality(D \cap S) \in Nat /\ ListSize \in Nat
    BY <1>3, <1>6, <1>7, <1>9, FS_CardinalityType, NackConstants
  <1>11. Cardinality(D \cup S) <= ListSize
    BY <1>1, <1>4, <1>6, <1>8, <1>10
  <1> QED BY <1>7, <1>11 DEF D, S

\* The packet j ahead of the newest is g - j behind the packet g ahead, and has not arrived.
LEMMA FreshIs ==
  ASSUME newest \in Seqs, got \in SUBSET Nat, NEW g \in Nat, g < HalfSpace,
         NEW j \in Nat, 1 <= j, j < g
  PROVE  /\ g - j \in Nat /\ g - j \in 1..(HalfSpace - 1) /\ g - j \notin Moved(got, g)
         /\ Plus(newest, j) = Plus(Plus(newest, g), Modulus - (g - j))
  <1>1. HalfSpace \in Nat
    BY NackConstants
  <1>2. g - j \in Nat /\ g - j \in 1..(HalfSpace - 1) /\ g - j # 0 /\ \A k \in got : k + g # g - j
    BY <1>1
  <1>3. g - j \notin Moved(got, g)
    BY <1>2 DEF Moved
  <1>4. Plus(Plus(newest, g), Modulus - ((-j) + g)) = Plus(newest, -(-j))
    <2> DEFINE b == -j
    <2>1. b \in Int /\ b + g >= 0 /\ b + g < HalfSpace /\ b >= -g /\ ~(b >= 0)
      BY <1>1
    <2> HIDE DEF b
    <2>2. Plus(Plus(newest, g), Modulus - (b + g)) = Plus(newest, -b)
      BY <2>1, MovesBack
    <2> QED BY <2>2 DEF b
  <1>5. (-j) + g = g - j /\ -(-j) = j
    OBVIOUS
  <1>6. Plus(newest, j) = Plus(Plus(newest, g), Modulus - (g - j))
    BY <1>4, <1>5
  <1> QED BY <1>2, <1>3, <1>6

\* An old entry moves back with its packet.
LEMMA OldIs ==
  ASSUME NEW n \in Seqs, NEW g \in Nat, 0 < g,
         NEW b \in 1..(HalfSpace - 1), b + g < HalfSpace, NEW G \in SUBSET Nat, b \notin G
  PROVE  /\ b + g \in 1..(HalfSpace - 1) /\ b + g \notin Moved(G, g)
         /\ Plus(n, Modulus - b) = Plus(Plus(n, g), Modulus - (b + g))
  <1>1. HalfSpace \in Nat /\ b \in Nat /\ b >= 1
    BY NackConstants
  <1>2. b + g \in 1..(HalfSpace - 1) /\ b + g # 0 /\ \A k \in G : k + g = b + g => k = b
    BY <1>1
  <1>3. b + g \notin Moved(G, g)
    BY <1>2 DEF Moved
  <1>4. b \in Int /\ g < HalfSpace /\ b + g >= 0 /\ b >= -g /\ b >= 0
    BY <1>1
  <1>5. Plus(n, Modulus - b) = Plus(Plus(n, g), Modulus - (b + g))
    BY <1>4, MovesBack
  <1> QED BY <1>2, <1>3, <1>5

\* Adding missing packets keeps the list right, seen from the new newest packet.
LEMMA AddMissingIs ==
  ASSUME newest \in Seqs, got \in SUBSET Nat,
         NEW m, Sound(m), Short(m), Placed(m, newest, got),
         NEW g \in Nat, 0 < g, g < HalfSpace, \A s \in DOMAIN m : m[s].back + g < HalfSpace
  PROVE  LET a == AddMissing(m, g)
         IN  Sound(a) /\ Short(a) /\ Placed(a, Plus(newest, g), Moved(got, g))
  <1> DEFINE a == AddMissing(m, g)
             A == Added(m, g)
             Old(s) == [m[s] EXCEPT !.back = @ + g]
             New(s) == [age |-> 0, since |-> 0, count |-> 0, asked |-> 0,
                        back |-> g - CHOOSE k \in A : Plus(newest, k) = s]
  <1>1. DOMAIN a = DOMAIN m \cup Skipped(m, g)
    BY DEF AddMissing, Skipped, Added, Room
  <1>2. \A s \in DOMAIN m : a[s] = Old(s)
    BY DEF AddMissing
  <1>3. \A s \in Skipped(m, g) : s \notin DOMAIN m => a[s] = New(s)
    BY DEF AddMissing, Skipped, Added, Room
  <1> HIDE DEF a
  <1>4. MaxAge \in Nat /\ MaxAge > 0 /\ MaxRetries \in Nat /\ HalfSpace \in Nat
    BY NackConstants
  <1>5. ASSUME NEW s \in DOMAIN a
        PROVE  /\ a[s] \in NackEntry /\ Timely(a[s])
               /\ a[s].back \in 1..(HalfSpace - 1) /\ a[s].back \notin Moved(got, g)
               /\ s = Plus(Plus(newest, g), Modulus - a[s].back)
    <2>1. CASE s \in DOMAIN m
      <3> DEFINE e == m[s]
                 f == Old(s)
      <3>1. /\ e \in NackEntry /\ Timely(e) /\ e.back \in 1..(HalfSpace - 1) /\ e.back \notin got
            /\ s = Plus(newest, Modulus - e.back) /\ e.back + g < HalfSpace
        BY <2>1 DEF Sound, Placed
      <3>2. a[s] = f
        BY <1>2, <2>1
      <3>3. f = [e EXCEPT !.back = e.back + g]
        OBVIOUS
      <3> HIDE DEF f, e
      <3>4. e.back + g \in Nat
        BY <3>1, EntryFields
      <3>5. f \in NackEntry
        BY <3>1, <3>3, <3>4 DEF NackEntry
      <3>6. f.age = e.age /\ f.since = e.since /\ f.count = e.count /\ f.asked = e.asked
        BY <3>1, <3>3 DEF NackEntry
      <3>7. f.back = e.back + g
        BY <3>1, <3>3 DEF NackEntry
      <3>8. Timely(f)
        BY <3>1, <3>6, Zenon DEF Timely
      <3> DEFINE b == e.back
      <3>9. b \in 1..(HalfSpace - 1) /\ b + g < HalfSpace /\ b \notin got
        BY <3>1
      <3> HIDE DEF b
      <3>10. /\ b + g \in 1..(HalfSpace - 1) /\ b + g \notin Moved(got, g)
             /\ Plus(newest, Modulus - b) = Plus(Plus(newest, g), Modulus - (b + g))
        BY <3>9, OldIs
      <3> QED BY <3>1, <3>2, <3>5, <3>7, <3>8, <3>10, Zenon DEF b
    <2>2. CASE s \notin DOMAIN m
      <3> DEFINE r == Room(m, g)
                 j == CHOOSE k \in 1..r : Plus(newest, k) = s
                 b == g - j
      <3>1. s \in Skipped(m, g)
        BY <1>1, <2>2
      <3>2. r \in Nat /\ r < g
        BY RoomIs
      <3>3. s \in {Plus(newest, k) : k \in 1..r}
        BY <3>1 DEF Skipped, Added
      <3>4. a[s] = [age |-> 0, since |-> 0, count |-> 0, asked |-> 0, back |-> b]
        BY <1>3, <2>2, <3>1 DEF Added
      <3> HIDE DEF r
      <3>a. j \in 1..r /\ Plus(newest, j) = s
        BY <3>3
      <3> HIDE DEF j
      <3>b. j \in Nat /\ 1 <= j /\ j < g
        BY <3>2, <3>a
      <3>5. /\ b \in Nat /\ b \in 1..(HalfSpace - 1) /\ b \notin Moved(got, g)
            /\ s = Plus(Plus(newest, g), Modulus - b)
        <4>1. /\ g - j \in Nat /\ g - j \in 1..(HalfSpace - 1) /\ g - j \notin Moved(got, g)
              /\ Plus(newest, j) = Plus(Plus(newest, g), Modulus - (g - j))
          BY <3>b, FreshIs
        <4> QED BY <3>a, <4>1, Zenon
      <3> HIDE DEF b
      <3>6. a[s] \in NackEntry
        BY <3>4, <3>5 DEF NackEntry
      <3>7. a[s].age = 0 /\ a[s].since = 0 /\ a[s].count = 0 /\ a[s].back = b
        BY <3>4
      <3>8. Timely(a[s])
        BY <1>4, <3>7 DEF Timely
      <3> QED BY <3>5, <3>6, <3>7, <3>8, Zenon
    <2> QED BY <2>1, <2>2
  <1>6. Sound(a)
    BY <1>5 DEF Sound
  <1>7. Placed(a, Plus(newest, g), Moved(got, g))
    BY <1>5, Zenon DEF Placed
  <1>8. Short(a)
    BY <1>1, SkippedFit DEF Short
  <1> QED BY <1>6, <1>7, <1>8 DEF a

\* An empty list is right.
LEMMA EmptyListRight ==
  ASSUME NEW m, DOMAIN m = {}
  PROVE  Sound(m) /\ Short(m) /\ \A n, G : Placed(m, n, G)
  <1>1. IsFiniteSet({}) /\ Cardinality({}) = 0 /\ ListSize \in Nat
    BY FS_EmptySet, NackConstants
  <1>2. Short(m)
    BY <1>1 DEF Short
  <1> QED BY <1>2 DEF Sound, Placed

\* A packet d ahead.
LEMMA ReceivedAhead ==
  ASSUME newest \in Seqs, got \in SUBSET Nat,
         NEW m, Sound(m), Short(m), Placed(m, newest, got),
         NEW d \in Nat, 0 < d, d < HalfSpace, \A s \in DOMAIN m : m[s].back + d < HalfSpace
  PROVE  LET p == Plus(newest, d)
             c == Received(m, p)
         IN  Sound(c) /\ Short(c) /\ Placed(c, p, Moved(got, d))
  <1> DEFINE p == Plus(newest, d)
             c == Received(m, p)
             a == Arrive(m, p)
  <1>1. IsNewer(p, newest) /\ Plus(p, Modulus - newest) = d
    BY AheadIs
  <1>2. Sound(a) /\ Shrinks(m, a)
    BY ArriveIs
  <1> HIDE DEF a
  <1>3. Short(a) /\ Placed(a, newest, got)
    BY <1>2, ShrinksKeeps
  <1>4. \A s \in DOMAIN a : a[s].back + d < HalfSpace
    BY <1>2, Zenon DEF Shrinks
  <1>5. CASE d > NackGap
    <2>1. c = <<>>
      BY <1>1, <1>5 DEF Received
    <2>2. DOMAIN c = {}
      BY <2>1
    <2> HIDE DEF c
    <2> QED BY <2>2, EmptyListRight DEF c
  <1>6. CASE ~(d > NackGap)
    <2>1. c = AddMissing(a, d)
      BY <1>1, <1>6 DEF Received, a
    <2> HIDE DEF c
    <2> QED BY <1>2, <1>3, <1>4, <2>1, AddMissingIs DEF c
  <1> QED BY <1>5, <1>6

\* A packet d behind.
LEMMA ReceivedBehind ==
  ASSUME newest \in Seqs,
         NEW m, Sound(m), Short(m), Placed(m, newest, got), NEW d \in Nat, d < HalfSpace
  PROVE  LET p == Plus(newest, Modulus - d)
             c == Received(m, p)
         IN  Sound(c) /\ Short(c) /\ Placed(c, newest, got \cup {d}) /\ ~IsNewer(p, newest)
  <1> DEFINE p == Plus(newest, Modulus - d)
             c == Received(m, p)
             a == Arrive(m, p)
  <1>1. ~IsNewer(p, newest)
    BY BehindIs
  <1>2. c = a
    BY <1>1 DEF Received
  <1>3. Sound(a) /\ Shrinks(m, a) /\ p \notin DOMAIN a
    BY ArriveIs
  <1> HIDE DEF a, c
  <1>4. Short(a) /\ Placed(a, newest, got)
    BY <1>3, ShrinksKeeps
  <1>5. Placed(a, newest, got \cup {d})
    <2> SUFFICES ASSUME NEW s \in DOMAIN a
                 PROVE  a[s].back \notin got \cup {d}
      BY <1>4, Zenon DEF Placed
    <2>1. s = Plus(newest, Modulus - a[s].back) /\ a[s].back \notin got
      BY <1>4 DEF Placed
    <2>2. a[s].back # d
      BY <1>3, <2>1
    <2> QED BY <2>1, <2>2
  <1> QED BY <1>1, <1>2, <1>3, <1>4, <1>5 DEF c

-----------------------------------------------------------------------------
(***************************************************************************)
(* The invariant of the NACK requester, and its steps.                     *)
(***************************************************************************)

ListInv ==
  /\ newest \in Seqs \cup {None} /\ rtt \in Nat /\ got \in SUBSET Nat
  /\ newest = None => DOMAIN missing = {}
  /\ Sound(missing) /\ Short(missing) /\ Placed(missing, newest, got)

\* What the last handler gave up, and what it left.
PassInv ==
  /\ \A g \in gaveUp : Awaited(g)
  /\ ran => \A s \in DOMAIN missing : missing[s].age < MaxAge

NackInv == ListInv /\ PassInv

\* The invariant gives the two properties.
LEMMA NackInvGives ==
  ASSUME NackInv
  PROVE  OnlyMissing /\ AnswerAwaited
  <1>1. Cardinality(DOMAIN missing) <= ListSize
    BY DEF NackInv, ListInv, Short
  <1>2. OnlyMissing
    BY <1>1 DEF OnlyMissing, NackInv, ListInv, Placed
  <1>3. \A s \in DOMAIN missing : missing[s].count <= MaxRetries
    BY DEF NackInv, ListInv, Sound, Timely
  <1>4. AnswerAwaited
    BY <1>3, Zenon DEF AnswerAwaited, NackInv, PassInv, Awaited
  <1> QED BY <1>2, <1>4

\* At the start nothing is missing.
LEMMA NackInvStarts ==
  ASSUME NackInit
  PROVE  NackInv
  <1>1. newest = None /\ missing = <<>> /\ rtt = 0 /\ got = {} /\ gaveUp = {} /\ ran = FALSE
    BY DEF NackInit
  <1>2. DOMAIN missing = {}
    BY <1>1
  <1>3. Sound(missing) /\ Short(missing) /\ Placed(missing, newest, got)
    BY <1>2, EmptyListRight
  <1> QED BY <1>1, <1>2, <1>3 DEF NackInv, ListInv, PassInv

\* What a handler starts from: the list, or nothing when a frame was given up.
LEMMA StartIs ==
  ASSUME ListInv, NEW ab \in BOOLEAN
  PROVE  LET m == Start(ab)
         IN  Sound(m) /\ Short(m) /\ Placed(m, newest, got) /\ Shrinks(missing, m)
  <1> DEFINE m == Start(ab)
  <1>1. CASE ab
    <2>1. m = <<>>
      BY <1>1 DEF Start
    <2>2. DOMAIN m = {}
      BY <2>1
    <2> HIDE DEF m
    <2>3. Sound(m) /\ Short(m) /\ Placed(m, newest, got)
      BY <2>2, EmptyListRight
    <2>4. Shrinks(missing, m)
      BY <2>2 DEF Shrinks
    <2> QED BY <2>3, <2>4 DEF m
  <1>2. CASE ~ab
    <2>1. m = missing
      BY <1>2 DEF Start
    <2>2. Shrinks(missing, missing)
      BY DEF Shrinks
    <2> QED BY <2>1, <2>2 DEF ListInv
  <1> QED BY <1>1, <1>2

\* The last pass of a handler, over list c, with the reports of all of them.
LEMMA PassKeeps ==
  ASSUME NEW c, Sound(c), Short(c), Placed(c, newest', got'),
         rtt \in Nat, rtt' = rtt, newest' \in Seqs, None \notin Seqs, got' \in SUBSET Nat,
         missing' = Process(c), \A g \in gaveUp' : Awaited(g)
  PROVE  NackInv'
  <1> DEFINE p == Process(c)
  <1>1. Sound(p) /\ Shrinks(c, p) /\ \A s \in DOMAIN p : p[s].age < MaxAge
    BY ProcessIs
  <1> HIDE DEF p
  <1>2. Short(p) /\ Placed(p, newest', got')
    BY <1>1, ShrinksKeeps
  <1>3. missing' = p
    BY DEF p
  <1>4. Sound(missing)' /\ Short(missing)' /\ Placed(missing, newest, got)'
    <2>1. Sound(missing)'
      BY <1>1, <1>3 DEF Sound, Timely
    <2>2. Short(missing)'
      BY <1>2, <1>3 DEF Short
    <2>3. Placed(missing, newest, got)'
      BY <1>2, <1>3 DEF Placed, Plus, HalfSpace
    <2> QED BY <2>1, <2>2, <2>3
  <1>5. newest' # None
    OBVIOUS
  <1>6. ListInv'
    BY <1>4, <1>5 DEF ListInv, Seqs
  <1>7. PassInv'
    BY <1>1, <1>3 DEF PassInv, Awaited
  <1> QED BY <1>6, <1>7 DEF NackInv

\* The first packet.
LEMMA FirstKeeps ==
  ASSUME NackInv, NEW seq \in Seqs, FirstPacket(seq)
  PROVE  NackInv'
  <1>1. /\ newest = None /\ newest' = seq /\ got' = {0} /\ ran' = TRUE
        /\ missing' = missing /\ rtt' = rtt /\ gaveUp' = gaveUp
    BY DEF FirstPacket
  <1>2. DOMAIN missing = {} /\ rtt \in Nat /\ newest' # None /\ \A g \in gaveUp : Awaited(g)
    BY <1>1, NackConstants DEF NackInv, ListInv, PassInv
  <1>3. DOMAIN missing' = {}
    BY <1>1, <1>2
  <1>4. (Sound(missing) /\ Short(missing))'
    BY <1>1 DEF NackInv, ListInv, Sound, Short, Timely
  <1>5. Placed(missing, newest, got)'
    BY <1>3 DEF Placed
  <1>6. ListInv'
    BY <1>1, <1>2, <1>3, <1>4, <1>5 DEF ListInv, Seqs
  <1>7. PassInv'
    BY <1>1, <1>2, <1>3 DEF PassInv, Awaited
  <1> QED BY <1>6, <1>7 DEF NackInv

\* The pass of a tick.
LEMMA TickReceiveKeeps ==
  ASSUME NackInv, NEW ab \in BOOLEAN, newest # None, TickReceive(ab)
  PROVE  NackInv'
  <1> DEFINE m == Start(ab)
  <1>1. /\ missing' = Process(m) /\ gaveUp' = Report(m)
        /\ newest' = newest /\ rtt' = rtt /\ got' = got
    BY DEF TickReceive
  <1>2. ListInv
    BY DEF NackInv
  <1>3. Sound(m) /\ Short(m) /\ Placed(m, newest, got)
    BY <1>2, StartIs
  <1> HIDE DEF m
  <1>4. \A g \in gaveUp' : Awaited(g)
    BY <1>1, <1>3, ReportIs
  <1>5. newest \in Seqs /\ rtt \in Nat /\ got \in SUBSET Nat /\ None \notin Seqs
    BY <1>2, NackConstants DEF ListInv
  <1> QED BY <1>1, <1>3, <1>4, <1>5, PassKeeps

\* A packet ahead of the newest.
LEMMA InputAheadKeeps ==
  ASSUME NackInv, NEW ab \in BOOLEAN, NEW d \in 1..MaxAhead, InputAhead(ab, d)
  PROVE  NackInv'
  <1> DEFINE m == Start(ab)
             b == Process(m)
             p == Plus(newest, d)
             c == Received(b, p)
  <1>1. InputRtp(ab, p) /\ newest # None /\ got' = Moved(got, d)
        /\ \A s \in DOMAIN missing : missing[s].back + d < HalfSpace
    BY DEF InputAhead, Moved
  <1>2. /\ missing' = Process(c) /\ gaveUp' = Report(m) \cup Report(c)
        /\ newest' = (IF IsNewer(p, newest) THEN p ELSE newest) /\ rtt' = rtt
    BY <1>1 DEF InputRtp
  <1>3. ListInv
    BY DEF NackInv
  <1>4. d \in Nat /\ 0 < d /\ d < HalfSpace /\ d <= Modulus /\ None \notin Seqs
    BY NackConstants
  <1>5. newest \in Seqs /\ rtt \in Nat /\ got \in SUBSET Nat
    BY <1>1, <1>3 DEF ListInv
  <1>6. p \in Seqs /\ newest' = p
    BY <1>2, <1>4, <1>5, PlusIs, AheadIs
  <1>7. Sound(m) /\ Short(m) /\ Placed(m, newest, got) /\ Shrinks(missing, m)
    BY <1>3, StartIs
  <1> HIDE DEF m
  <1>8. Sound(b) /\ Shrinks(m, b)
    BY <1>5, <1>7, ProcessIs
  <1> HIDE DEF b
  <1>9. Short(b) /\ Placed(b, newest, got)
    BY <1>7, <1>8, ShrinksKeeps
  <1>10. \A s \in DOMAIN b : b[s].back + d < HalfSpace
    BY <1>1, <1>7, <1>8, Zenon DEF Shrinks
  <1>11. Sound(c) /\ Short(c) /\ Placed(c, p, Moved(got, d))
    BY <1>4, <1>5, <1>8, <1>9, <1>10, ReceivedAhead
  <1> HIDE DEF c, p
  <1>12. \A g \in gaveUp' : Awaited(g)
    BY <1>2, <1>7, <1>11, ReportIs
  <1>13. Moved(got, d) \in SUBSET Nat
    BY <1>4, <1>5, NackConstants DEF Moved
  <1> QED BY <1>1, <1>2, <1>4, <1>5, <1>6, <1>11, <1>12, <1>13, PassKeeps

\* A late packet, or a copy.
LEMMA InputLateKeeps ==
  ASSUME NackInv, NEW ab \in BOOLEAN, NEW d \in 0..(HalfSpace - 1), InputLate(ab, d)
  PROVE  NackInv'
  <1> DEFINE m == Start(ab)
             b == Process(m)
             p == Plus(newest, Modulus - d)
             c == Received(b, p)
  <1>1. InputRtp(ab, p) /\ newest # None /\ got' = got \cup {d}
    BY DEF InputLate
  <1>2. /\ missing' = Process(c) /\ gaveUp' = Report(m) \cup Report(c)
        /\ newest' = (IF IsNewer(p, newest) THEN p ELSE newest) /\ rtt' = rtt
    BY <1>1 DEF InputRtp
  <1>3. ListInv
    BY DEF NackInv
  <1>4. d \in Nat /\ d < HalfSpace /\ None \notin Seqs
    BY NackConstants
  <1>5. newest \in Seqs /\ rtt \in Nat /\ got \in SUBSET Nat
    BY <1>1, <1>3 DEF ListInv
  <1>6. Sound(m) /\ Short(m) /\ Placed(m, newest, got) /\ Shrinks(missing, m)
    BY <1>3, StartIs
  <1> HIDE DEF m
  <1>7. Sound(b) /\ Shrinks(m, b)
    BY <1>5, <1>6, ProcessIs
  <1> HIDE DEF b
  <1>8. Short(b) /\ Placed(b, newest, got)
    BY <1>6, <1>7, ShrinksKeeps
  <1>9. Sound(c) /\ Short(c) /\ Placed(c, newest, got \cup {d}) /\ ~IsNewer(p, newest)
    BY <1>4, <1>5, <1>7, <1>8, ReceivedBehind
  <1>10. newest' = newest
    BY <1>2, <1>9
  <1> HIDE DEF c, p
  <1>11. \A g \in gaveUp' : Awaited(g)
    BY <1>2, <1>6, <1>9, ReportIs
  <1>12. got \cup {d} \in SUBSET Nat
    BY <1>4, <1>5
  <1> QED BY <1>1, <1>2, <1>4, <1>5, <1>9, <1>10, <1>11, <1>12, PassKeeps

\* A new round-trip time.
LEMMA UpdateRttKeeps ==
  ASSUME NackInv, NEW r \in Rtts, UpdateRtt(r)
  PROVE  NackInv'
  <1>1. /\ rtt' = r /\ gaveUp' = {} /\ newest' = newest /\ missing' = missing
        /\ got' = got /\ ran' = ran
    BY DEF UpdateRtt
  <1>2. r \in Nat
    BY NackConstants
  <1>3. ListInv'
    BY <1>1, <1>2 DEF NackInv, ListInv, Sound, Short, Placed, Timely, Seqs, Plus, HalfSpace
  <1>4. PassInv'
    BY <1>1 DEF NackInv, PassInv
  <1> QED BY <1>3, <1>4 DEF NackInv

\* Time makes entries older by one, up to the age at which they are given up.
LEMMA OlderEntry ==
  ASSUME NEW e \in NackEntry, Timely(e)
  PROVE  LET f == [e EXCEPT !.age = Min({@ + 1, MaxAge}), !.since = Min({@ + 1, MaxAge})]
         IN  f \in NackEntry /\ Timely(f) /\ f.back = e.back
  <1> DEFINE a == Min({e.age + 1, MaxAge})
             t == Min({e.since + 1, MaxAge})
             f == [e EXCEPT !.age = Min({@ + 1, MaxAge}), !.since = Min({@ + 1, MaxAge})]
  <1>1. /\ e.age \in Nat /\ e.since \in Nat /\ e.count \in Nat /\ e.asked \in Nat
        /\ MaxAge \in Nat /\ e.age + 1 \in Nat /\ e.since + 1 \in Nat
    BY EntryFields, NackConstants
  <1>2. a = IF e.age + 1 <= MaxAge THEN e.age + 1 ELSE MaxAge
    BY <1>1, LesserIs
  <1>3. t = IF e.since + 1 <= MaxAge THEN e.since + 1 ELSE MaxAge
    BY <1>1, LesserIs
  <1>4. f = [e EXCEPT !.age = a, !.since = t]
    OBVIOUS
  <1> HIDE DEF f, a, t
  <1>5. a \in Nat /\ t \in Nat
    BY <1>1, <1>2, <1>3
  <1>6. f \in NackEntry
    BY <1>4, <1>5 DEF NackEntry
  <1>7. f.age = a /\ f.since = t
    BY <1>4 DEF NackEntry
  <1>8. f.count = e.count /\ f.asked = e.asked /\ f.back = e.back
    BY <1>4 DEF NackEntry
  <1>9. /\ e.age <= MaxAge /\ e.since <= e.age /\ e.count <= MaxRetries
        /\ e.count > 0 /\ e.asked # 0 => e.asked + e.age < MaxAge + e.since
    BY DEF Timely
  <1>10. /\ a <= MaxAge /\ t <= a
         /\ e.count > 0 /\ e.asked # 0 => e.asked + a < MaxAge + t
    BY <1>1, <1>2, <1>3, <1>9
  <1>11. Timely(f)
    BY <1>7, <1>8, <1>9, <1>10 DEF Timely
  <1> QED BY <1>6, <1>8, <1>11 DEF f

\* Time passes.
LEMMA NackWaitKeeps ==
  ASSUME NackInv, Wait
  PROVE  NackInv'
  <1> DEFINE Older(s) == [missing[s] EXCEPT !.age = Min({@ + 1, MaxAge}),
                                            !.since = Min({@ + 1, MaxAge})]
  <1>1. /\ missing' = [s \in DOMAIN missing |-> Older(s)]
        /\ gaveUp' = {} /\ ran' = FALSE /\ newest # None
        /\ newest' = newest /\ rtt' = rtt /\ got' = got
    BY DEF Wait
  <1>2. ListInv
    BY DEF NackInv
  <1>3. DOMAIN missing' = DOMAIN missing
    BY <1>1
  <1>4. ASSUME NEW s \in DOMAIN missing
        PROVE  /\ missing'[s] \in NackEntry /\ Timely(missing'[s])
               /\ missing'[s].back = missing[s].back
    <2>1. missing[s] \in NackEntry /\ Timely(missing[s])
      BY <1>2, <1>4 DEF ListInv, Sound
    <2>2. missing'[s] = Older(s)
      BY <1>1, <1>4
    <2>3. Older(s) \in NackEntry /\ Timely(Older(s)) /\ Older(s).back = missing[s].back
      BY <2>1, OlderEntry
    <2> HIDE DEF Older
    <2> QED BY <2>2, <2>3
  <1>5. Sound(missing)'
    BY <1>3, <1>4 DEF Sound, Timely
  <1>6. Short(missing)'
    BY <1>2, <1>3 DEF ListInv, Short
  <1>7. Placed(missing, newest, got)'
    <2>1. Placed(missing, newest, got) /\ newest' = newest /\ got' = got
      BY <1>1, <1>2 DEF ListInv
    <2> SUFFICES ASSUME NEW s \in DOMAIN missing
                 PROVE  /\ missing'[s].back \in 1..(HalfSpace - 1) /\ missing'[s].back \notin got'
                        /\ s = Plus(newest', Modulus - missing'[s].back)
      BY <1>3, Zenon DEF Placed, Plus, HalfSpace
    <2> HIDE DEF Older
    <2> QED BY <1>4, <2>1, Zenon DEF Placed
  <1>8. ListInv'
    BY <1>1, <1>2, <1>5, <1>6, <1>7 DEF ListInv, Seqs
  <1>9. PassInv'
    BY <1>1 DEF PassInv
  <1> QED BY <1>8, <1>9 DEF NackInv

\* Every step of the NACK requester keeps the invariant.
LEMMA NackStep ==
  ASSUME NackInv, [NackNext]_nackVars
  PROVE  NackInv'
  <1>1. CASE NackNext
    BY <1>1, FirstKeeps, TickReceiveKeeps, InputAheadKeeps, InputLateKeeps,
       UpdateRttKeeps, NackWaitKeeps DEF NackNext
  <1>2. CASE UNCHANGED nackVars
    <2>1. /\ newest' = newest /\ missing' = missing /\ rtt' = rtt
          /\ got' = got /\ gaveUp' = gaveUp /\ ran' = ran
      BY <1>2 DEF nackVars
    <2>2. ListInv'
      BY <2>1 DEF NackInv, ListInv, Sound, Short, Placed, Timely, Seqs, Plus, HalfSpace
    <2>3. PassInv'
      BY <2>1 DEF NackInv, PassInv, Awaited
    <2> QED BY <2>2, <2>3 DEF NackInv
  <1> QED BY <1>1, <1>2

\* For any space of sequence numbers, gap, list and batch size, the list holds
\* only packets that lie behind the newest one and have not arrived, under their
\* right number, and no more of them than it may.
THEOREM OnlyMissingRequested == NackSpec => []OnlyMissing
  <1>1. NackInv => OnlyMissing
    BY NackInvGives
  <1> QED BY <1>1, NackInvStarts, NackStep, PTL DEF NackSpec

\* For any ages, retries and round-trip times, however they change, a packet that
\* was requested is given up only when the answer had its time, and no pass
\* leaves a packet that is too old or was requested too often.
THEOREM AnswersAwaited == NackSpec => []AnswerAwaited
  <1>1. NackInv => AnswerAwaited
    BY NackInvGives
  <1> QED BY <1>1, NackInvStarts, NackStep, PTL DEF NackSpec
=============================================================================
