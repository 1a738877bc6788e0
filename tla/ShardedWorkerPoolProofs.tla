----------------------- MODULE ShardedWorkerPoolProofs -----------------------
(***************************************************************************)
(* Proofs about ShardedWorkerPool, for any number of pools, shards, jobs   *)
(* and keys and any limits: types and exact byte counts, that no accepted  *)
(* job is lost, and that the jobs of a key run in order.                   *)
(***************************************************************************)
EXTENDS ShardedWorkerPool, Integers, SequenceTheorems, WellFoundedInduction, TLAPS

-----------------------------------------------------------------------------
(***************************************************************************)
(* The inductive invariant.                                                *)
(***************************************************************************)

Statuses == {"new", "held", "queued", "running", "done", "dropped", "refused"}
Phases == {"unborn", "open", "due", "stopping", "joining", "stopped"}

\* TypeOK with the domains that EXCEPT needs.
Types ==
  /\ entry \in Pool \cup {None}
  /\ phase \in [Pool -> Phases]
  /\ drain \subseteq Pool /\ started \subseteq Pool /\ locked \subseteq Pool
  /\ signal \in [Pool -> SUBSET Shard] /\ running \in [Pool -> SUBSET Shard]
  /\ q \in [Pool -> [Shard -> Seq(Job)]] /\ bytes \in [Pool -> [Shard -> Int]]
  /\ worker \in [Pool -> [Shard -> Job \cup {None, "exited"}]]
  /\ status \in [Job -> Statuses] /\ held \in [Job -> Pool \cup {None}]
  /\ accepted \in [Pool -> Seq(Job)]

\* Job j is in the care of shard s of pool p.
Belongs(j, p, s) == held[j] = p /\ ShardOf(j) = s

\* What is queued is queued once, where it belongs, and counted.
QueueInv(p, s) ==
  /\ \A n \in 1..Len(q[p][s]) : status[q[p][s][n]] = "queued" /\ Belongs(q[p][s][n], p, s)
  /\ \A m, n \in 1..Len(q[p][s]) : q[p][s][m] = q[p][s][n] => m = n

BoundInv(p, s) ==
  Len(q[p][s]) <= MaxLen /\ bytes[p][s] = SumSize(q[p][s]) /\ bytes[p][s] <= MaxBytes

\* A worker runs a job of its shard.  One that has left is stopped, with nothing
\* queued.
WorkerInv(p, s) ==
  /\ worker[p][s] \in Job =>
       status[worker[p][s]] = "running" /\ Belongs(worker[p][s], p, s)
  /\ worker[p][s] = "exited" => q[p][s] = <<>> /\ s \notin running[p]
  /\ phase[p] \in {"unborn", "stopped"} => worker[p][s] = "exited"

\* A job is where its status says, and was dropped by a pool that may.
JobInv(j) ==
  /\ status[j] \in {"held", "queued", "running", "dropped"} => held[j] \in Pool
  /\ status[j] = "queued" =>
       \E n \in 1..Len(q[held[j]][ShardOf(j)]) : q[held[j]][ShardOf(j)][n] = j
  /\ status[j] = "running" => worker[held[j]][ShardOf(j)] = j
  /\ status[j] = "dropped" => held[j] \in DropHead \/ held[j] \notin drain

\* A pool accepts a job once.
AcceptInv(p) ==
  /\ \A n \in 1..Len(accepted[p]) :
       held[accepted[p][n]] = p /\ status[accepted[p][n]] \in {"queued", "running", "done", "dropped"}
  /\ \A m, n \in 1..Len(accepted[p]) : accepted[p][m] = accepted[p][n] => m = n

\* Job j follows job i, of the same shard: it starts after i is over, and is
\* queued behind it.
Follows(i, j, p) ==
  /\ status[j] \in {"running", "done"} => status[i] \in {"done", "dropped"}
  /\ \A x, y \in 1..Len(q[p][ShardOf(i)]) :
       q[p][ShardOf(i)][x] = i /\ q[p][ShardOf(i)][y] = j => x < y

OrderInv(p) ==
  \A m, n \in 1..Len(accepted[p]) :
    m < n /\ ShardOf(accepted[p][m]) = ShardOf(accepted[p][n])
      => Follows(accepted[p][m], accepted[p][n], p)

IInv ==
  /\ Types
  /\ \A p \in Pool, s \in Shard : QueueInv(p, s) /\ BoundInv(p, s) /\ WorkerInv(p, s)
  /\ \A j \in Job : JobInv(j)
  /\ \A p \in Pool : AcceptInv(p) /\ OrderInv(p)
-----------------------------------------------------------------------------
(***************************************************************************)
(* Numbers and sums.  SumSize is a recursive function; what it computes is *)
(* shown by induction over the natural numbers, from the library's theorem *)
(* that a nonempty set of them has a least element.                        *)
(***************************************************************************)

\* A nonempty set of numbers has a least one.
LEMMA LeastNumber ==
  ASSUME NEW S \in SUBSET Nat, S # {}
  PROVE  \E x \in S : \A y \in S : x <= y
  <1> DEFINE R == {ss \in Nat \X Nat : ss[1] < ss[2]}
  <1>1. IsWellFoundedOn(R, Nat)
    BY NatLessThanWellFounded DEF OpToRel
  <1> HIDE DEF R
  <1>2. PICK x \in S : \A y \in S : ~(<<y, x>> \in R)
    BY <1>1, WFMin
  <1>3. \A y \in S : ~(y < x)
    BY <1>2 DEF R
  <1> QED BY <1>3

\* A set of numbers with 0 and with every successor is all of them.
LEMMA Induction ==
  ASSUME NEW S \in SUBSET Nat, 0 \in S, \A n \in S : n + 1 \in S
  PROVE  \A n \in Nat : n \in S
  <1> SUFFICES ASSUME Nat \ S # {} PROVE FALSE
    OBVIOUS
  <1>1. PICK x \in Nat \ S : \A y \in Nat \ S : x <= y
    BY LeastNumber
  <1>2. x # 0 /\ x - 1 \in Nat
    BY <1>1
  <1> QED BY <1>1, <1>2

\* Min finds the least number.
LEMMA MinIs ==
  ASSUME NEW S \in SUBSET Nat, S # {}
  PROVE  Min(S) \in S
  BY LeastNumber DEF Min

\* f holds the partial sums of the sizes of s.
Sums(s, f) ==
    /\ f \in [0..Len(s) -> Nat] /\ f[0] = 0
    /\ \A n \in 1..Len(s) : f[n] = f[n - 1] + Size[s[n]]

\* Every queue has partial sums of its sizes, by induction on its length.
LEMMA SumsExist ==
  ASSUME NEW s \in Seq(Job)
  PROVE  \E f : Sums(s, f)
  <1> DEFINE Upto(n, f) == /\ f \in [0..n -> Nat] /\ f[0] = 0
                           /\ \A k \in 1..n : f[k] = f[k - 1] + Size[s[k]]
             S == {n \in Nat : n <= Len(s) => \E f : Upto(n, f)}
  <1>0. Len(s) \in Nat /\ \A k \in 1..Len(s) : Size[s[k]] \in Nat
    BY PoolAssumption
  <1> HIDE DEF Upto
  <1>1. 0 \in S
    <2>1. Upto(0, [k \in 0..0 |-> 0])
      BY DEF Upto
    <2> QED BY <2>1
  <1>2. ASSUME NEW n \in S PROVE n + 1 \in S
    <2> SUFFICES ASSUME n + 1 <= Len(s) PROVE \E f : Upto(n + 1, f)
      OBVIOUS
    <2>1. n \in Nat /\ n + 1 \in 1..Len(s) /\ Size[s[n + 1]] \in Nat
      BY <1>0
    <2>2. PICK f : Upto(n, f)
      BY <1>0, <2>1
    <2> DEFINE g == [k \in 0..(n + 1) |-> IF k = n + 1 THEN f[n] + Size[s[n + 1]] ELSE f[k]]
    <2>3. f[n] \in Nat
      BY <2>1, <2>2 DEF Upto
    <2>4. g \in [0..(n + 1) -> Nat] /\ g[0] = 0
      BY <2>1, <2>2, <2>3 DEF Upto
    <2>5. ASSUME NEW k \in 1..(n + 1) PROVE g[k] = g[k - 1] + Size[s[k]]
      BY <2>1, <2>2 DEF Upto
    <2>6. Upto(n + 1, g)
      BY <2>4, <2>5 DEF Upto
    <2> QED BY <2>6
  <1>3. \A n \in Nat : n \in S
    <2> HIDE DEF S
    <2>1. S \in SUBSET Nat
      BY DEF S
    <2> QED BY <1>1, <1>2, <2>1, Induction
  <1>4. Len(s) \in S
    BY <1>0, <1>3
  <1> QED BY <1>4 DEF Sums, Upto

\* SumSize is the last of the partial sums.
LEMMA SumSizeIs ==
  ASSUME NEW s \in Seq(Job), NEW f, Sums(s, f)
  PROVE  SumSize(s) = f[Len(s)] /\ SumSize(s) \in Nat
  <1> DEFINE Step(g) == [n \in 0..Len(s) |-> IF n = 0 THEN 0 ELSE g[n - 1] + Size[s[n]]]
             h == CHOOSE g : g = Step(g)
  <1>0. Len(s) \in Nat /\ \A k \in 1..Len(s) : Size[s[k]] \in Nat
    BY PoolAssumption
  <1>1. f = Step(f)
    BY <1>0 DEF Sums
  <1>2. h = Step(h)
    <2> HIDE DEF Step
    <2> QED BY <1>1
  <1>3. SumSize(s) = h[Len(s)]
    BY DEF SumSize
  <1> HIDE DEF h
  <1> DEFINE S == {n \in Nat : n <= Len(s) => h[n] = f[n]}
  <1>4. 0 \in S
    BY <1>0, <1>2 DEF Sums
  <1>5. ASSUME NEW n \in S PROVE n + 1 \in S
    BY <1>0, <1>2 DEF Sums
  <1>6. \A n \in Nat : n \in S
    <2> HIDE DEF S
    <2>1. S \in SUBSET Nat
      BY DEF S
    <2> QED BY <1>4, <1>5, <2>1, Induction
  <1>7. h[Len(s)] = f[Len(s)]
    BY <1>0, <1>6
  <1> QED BY <1>0, <1>3, <1>7 DEF Sums

\* The empty list has no bytes.
LEMMA SumSizeEmpty == SumSize(<<>>) = 0
  <1>0. <<>> \in Seq(Job) /\ Len(<<>>) = 0
    OBVIOUS
  <1>1. PICK f : Sums(<<>>, f)
    BY <1>0, SumsExist
  <1>2. SumSize(<<>>) = f[Len(<<>>)]
    BY <1>0, <1>1, SumSizeIs
  <1> QED BY <1>0, <1>1, <1>2 DEF Sums

\* The bytes of a list are a natural number.
LEMMA SumSizeType == ASSUME NEW s \in Seq(Job) PROVE SumSize(s) \in Nat
  BY SumsExist, SumSizeIs

\* An appended item adds its bytes.
LEMMA SumSizeAppend ==
  ASSUME NEW s \in Seq(Job), NEW m \in Job
  PROVE  SumSize(Append(s, m)) = SumSize(s) + Size[m]
  <1> DEFINE t == Append(s, m)
  <1>1. /\ Len(s) \in Nat /\ Len(t) = Len(s) + 1 /\ t \in Seq(Job)
        /\ (\A i \in 1..Len(s) : t[i] = s[i]) /\ t[Len(s) + 1] = m
    OBVIOUS
  <1> HIDE DEF t
  <1>2. Size[m] \in Nat
    BY PoolAssumption
  <1>3. PICK f : Sums(s, f)
    BY SumsExist
  <1>4. SumSize(s) = f[Len(s)] /\ SumSize(s) \in Nat
    BY <1>3, SumSizeIs
  <1> DEFINE g == [n \in 0..Len(t) |-> IF n = Len(t) THEN SumSize(s) + Size[m] ELSE f[n]]
  <1>5. Sums(t, g)
    <2>1. g \in [0..Len(t) -> Nat] /\ g[0] = 0
      BY <1>1, <1>2, <1>3, <1>4 DEF Sums
    <2>2. ASSUME NEW n \in 1..Len(t) PROVE g[n] = g[n - 1] + Size[t[n]]
      BY SMTT(30), <1>1, <1>3, <1>4 DEF Sums
    <2> HIDE DEF g
    <2> QED BY <2>1, <2>2 DEF Sums
  <1>6. g[Len(t)] = SumSize(s) + Size[m]
    BY <1>1
  <1> HIDE DEF g
  <1>7. SumSize(t) = g[Len(t)]
    BY <1>1, <1>5, SumSizeIs
  <1> QED BY <1>6, <1>7 DEF t

\* Taking the head off removes its bytes.
LEMMA SumSizeTail ==
  ASSUME NEW s \in Seq(Job), s # <<>>
  PROVE  SumSize(s) = Size[Head(s)] + SumSize(Tail(s))
  <1> DEFINE t == Tail(s)
             m == Head(s)
  <1>1. /\ Len(s) \in Nat /\ Len(s) > 0 /\ Len(t) = Len(s) - 1 /\ t \in Seq(Job)
        /\ (\A i \in 1..Len(t) : t[i] = s[i + 1]) /\ s[1] = m /\ m \in Job
    OBVIOUS
  <1> HIDE DEF t, m
  <1>2. Size[m] \in Nat
    BY <1>1, PoolAssumption
  <1>3. PICK f : Sums(t, f)
    BY <1>1, SumsExist
  <1>4. SumSize(t) = f[Len(t)] /\ SumSize(t) \in Nat
    BY <1>1, <1>3, SumSizeIs
  <1> DEFINE g == [n \in 0..Len(s) |-> IF n = 0 THEN 0 ELSE Size[m] + f[n - 1]]
  <1>5. Sums(s, g)
    <2>0. \A n \in 1..Len(s) : f[n - 1] \in Nat
      <3>1. \A n \in 1..Len(s) : n - 1 \in 0..Len(t)
        BY <1>1
      <3> QED BY <1>3, <3>1 DEF Sums
    <2>1. g \in [0..Len(s) -> Nat] /\ g[0] = 0
      BY <1>1, <1>2, <2>0
    <2>2. ASSUME NEW n \in 1..Len(s) PROVE g[n] = g[n - 1] + Size[s[n]]
      <3>1. CASE n = 1
        <4>1. g[1] = Size[m] + f[0] /\ f[0] = 0 /\ g[0] = 0
          BY <1>1, <1>3 DEF Sums
        <4> QED BY <1>1, <1>2, <3>1, <4>1
      <3>2. CASE n # 1
        <4>1. n - 1 \in 1..Len(t) /\ t[n - 1] = s[n] /\ (n - 1) - 1 \in 0..Len(t)
          BY <1>1, <3>2
        <4>2. f[n - 1] = f[(n - 1) - 1] + Size[s[n]]
          BY <1>3, <4>1 DEF Sums
        <4>3. g[n] = Size[m] + f[n - 1] /\ g[n - 1] = Size[m] + f[(n - 1) - 1]
          BY <1>1, <3>2
        <4>4. f[(n - 1) - 1] \in Nat /\ s[n] \in Job
          BY <1>3, <4>1 DEF Sums
        <4>5. Size[s[n]] \in Nat
          BY <4>4, PoolAssumption
        <4> HIDE DEF g
        <4> QED BY <1>2, <4>2, <4>3, <4>4, <4>5
      <3> QED BY <3>1, <3>2
    <2> HIDE DEF g
    <2> QED BY <2>1, <2>2 DEF Sums
  <1>6. g[Len(s)] = Size[m] + SumSize(t)
    BY <1>1, <1>4
  <1> HIDE DEF g
  <1>7. SumSize(s) = g[Len(s)]
    BY <1>5, SumSizeIs
  <1> QED BY <1>6, <1>7 DEF t, m

\* The bytes of two lists add up.
LEMMA SumSizeJoin ==
  ASSUME NEW s \in Seq(Job), NEW d \in Seq(Job)
  PROVE  SumSize(s \o d) = SumSize(s) + SumSize(d)
  <1> DEFINE t == s \o d
  <1>1. /\ Len(s) \in Nat /\ Len(d) \in Nat /\ Len(t) = Len(s) + Len(d) /\ t \in Seq(Job)
        /\ \A i \in 1..Len(s) : t[i] = s[i]
    OBVIOUS
  <1>2. \A i \in 1..Len(t) : i > Len(s) => t[i] = d[i - Len(s)]
    BY <1>1
  <1> HIDE DEF t
  <1>3. PICK f : Sums(s, f)
    BY SumsExist
  <1>4. PICK e : Sums(d, e)
    BY SumsExist
  <1>5. /\ SumSize(s) = f[Len(s)] /\ SumSize(d) = e[Len(d)]
        /\ SumSize(s) \in Nat /\ SumSize(d) \in Nat
    BY <1>3, <1>4, SumSizeIs
  <1> DEFINE g == [n \in 0..Len(t) |-> IF n <= Len(s) THEN f[n] ELSE SumSize(s) + e[n - Len(s)]]
  <1>6. Sums(t, g)
    <2>1. \A n \in 0..Len(s) : f[n] \in Nat
      BY <1>3 DEF Sums
    <2>2. \A n \in 0..Len(d) : e[n] \in Nat
      BY <1>4 DEF Sums
    <2>3. \A n \in 0..Len(t) : n > Len(s) => n - Len(s) \in 0..Len(d)
      BY <1>1
    <2>4. g \in [0..Len(t) -> Nat] /\ g[0] = 0
      <3>1. f[0] = 0
        BY <1>3 DEF Sums
      <3> QED BY <1>1, <1>5, <2>1, <2>2, <2>3, <3>1
    <2>5. ASSUME NEW n \in 1..Len(t) PROVE g[n] = g[n - 1] + Size[t[n]]
      <3>1. CASE n <= Len(s)
        <4>1. n \in 1..Len(s) /\ t[n] = s[n] /\ n - 1 \in 0..Len(t) /\ n - 1 <= Len(s)
          BY <1>1, <3>1
        <4>2. g[n] = f[n] /\ g[n - 1] = f[n - 1]
          BY <3>1, <4>1
        <4> HIDE DEF g
        <4> QED BY <1>3, <4>1, <4>2 DEF Sums
      <3>2. CASE n > Len(s)
        <4> DEFINE k == n - Len(s)
        <4>1. k \in 1..Len(d) /\ t[n] = d[k]
          BY <1>1, <1>2, <3>2
        <4>2. e[k] = e[k - 1] + Size[d[k]] /\ e[k - 1] \in Nat /\ Size[d[k]] \in Nat
          <5> HIDE DEF k
          <5>1. d[k] \in Job /\ k - 1 \in 0..Len(d)
            BY <1>1, <4>1
          <5>2. Size[d[k]] \in Nat
            BY <5>1, PoolAssumption
          <5> QED BY <1>4, <2>2, <4>1, <5>1, <5>2 DEF Sums
        <4>3. g[n] = SumSize(s) + e[k]
          BY <3>2, <1>1
        <4>4. g[n - 1] = SumSize(s) + e[k - 1]
          <5>1. CASE k = 1
            <6>1. n - 1 = Len(s) /\ n - 1 \in 0..Len(t) /\ k - 1 = 0
              BY <1>1, <5>1
            <6>2. g[n - 1] = f[Len(s)]
              BY <1>1, <6>1
            <6> QED BY <1>4, <1>5, <6>1, <6>2 DEF Sums
          <5>2. CASE k # 1
            <6>1. n - 1 \in 0..Len(t) /\ n - 1 > Len(s) /\ (n - 1) - Len(s) = k - 1
              BY <1>1, <3>2, <5>2
            <6> QED BY <1>1, <6>1
          <5> QED BY <5>1, <5>2
        <4> HIDE DEF g, k
        <4> QED BY SMTT(30), <1>5, <4>2, <4>3, <4>4, <4>1
      <3> QED BY <1>1, <3>1, <3>2
    <2> HIDE DEF g
    <2> QED BY <2>4, <2>5 DEF Sums
  <1>7. g[Len(t)] = SumSize(s) + SumSize(d)
    <2>1. CASE Len(d) = 0
      BY <1>1, <1>4, <1>5, <2>1 DEF Sums
    <2>2. CASE Len(d) # 0
      <3>1. Len(t) > Len(s) /\ Len(t) - Len(s) = Len(d) /\ Len(t) \in 0..Len(t)
        BY <1>1, <2>2
      <3> QED BY <1>1, <1>5, <3>1
    <2> QED BY <2>1, <2>2
  <1> HIDE DEF g
  <1>8. SumSize(t) = g[Len(t)]
    BY <1>1, <1>6, SumSizeIs
  <1> QED BY <1>7, <1>8 DEF t

\* A list is its first n items and the others.
LEMMA SumSizeSplit ==
  ASSUME NEW s \in Seq(Job), NEW n \in 0..Len(s)
  PROVE  LET gone == SubSeq(s, 1, n)
             rest == SubSeq(s, n + 1, Len(s))
         IN  /\ gone \in Seq(Job) /\ Len(gone) = n /\ \A i \in 1..n : gone[i] = s[i]
             /\ rest \in Seq(Job) /\ Len(rest) = Len(s) - n
             /\ \A i \in 1..(Len(s) - n) : rest[i] = s[n + i]
             /\ SumSize(s) = SumSize(gone) + SumSize(rest)
  <1> DEFINE g == SubSeq(s, 1, n)
             r == SubSeq(s, n + 1, Len(s))
  <1>1. Len(s) \in Nat /\ n \in Nat /\ n <= Len(s)
    OBVIOUS
  <1>2. g \in Seq(Job) /\ Len(g) = n /\ \A i \in 1..n : g[i] = s[i]
    BY <1>1
  <1>3. /\ r \in Seq(Job) /\ Len(r) = Len(s) - n
        /\ \A i \in 1..(Len(s) - n) : r[i] = s[n + i]
    BY <1>1
  <1> HIDE DEF g, r
  <1>4. s = g \o r
    <2>1. g \o r \in Seq(Job) /\ Len(g \o r) = Len(s)
      BY <1>1, <1>2, <1>3
    <2>2. ASSUME NEW i \in 1..Len(s) PROVE (g \o r)[i] = s[i]
      <3>1. CASE i <= n
        BY <1>1, <1>2, <1>3, <3>1
      <3>2. CASE i > n
        <4> DEFINE k == i - n
        <4>1. k \in 1..(Len(s) - n) /\ n + k = i /\ i \in 1..(Len(g) + Len(r)) /\ i > Len(g)
              /\ i - Len(g) = k
          BY <1>1, <1>2, <1>3, <3>2
        <4>2. (g \o r)[i] = r[i - Len(g)]
          BY <1>2, <1>3, <4>1, ConcatProperties
        <4>3. r[k] = s[n + k]
          <5> HIDE DEF k
          <5> QED BY <1>3, <4>1
        <4> QED BY <4>1, <4>2, <4>3
      <3>3. i <= n \/ i > n
        BY <1>1
      <3> QED BY <3>1, <3>2, <3>3
    <2> DEFINE h == g \o r
    <2> HIDE DEF h
    <2>3. s = h
      BY <2>1, <2>2, SeqEqual DEF h
    <2> QED BY <2>3 DEF h
  <1>5. SumSize(s) = SumSize(g) + SumSize(r)
    BY <1>2, <1>3, <1>4, SumSizeJoin
  <1> QED BY <1>2, <1>3, <1>5 DEF g, r

-----------------------------------------------------------------------------
(***************************************************************************)
(* The steps.                                                              *)
(***************************************************************************)

\* A job has a shard.
LEMMA ShardType == \A j \in Job : ShardOf(j) \in Shard
  BY PoolAssumption DEF ShardOf

\* What a pool holds in a shard is a list of jobs.
LEMMA QueueType ==
  ASSUME Types, NEW p \in Pool, NEW s \in Shard
  PROVE  /\ q[p][s] \in Seq(Job) /\ Len(q[p][s]) \in Nat
         /\ \A n \in 1..Len(q[p][s]) : q[p][s][n] \in Job
         /\ bytes[p][s] \in Int /\ worker[p][s] \in Job \cup {None, "exited"}
         /\ (Len(q[p][s]) = 0 <=> q[p][s] = <<>>)
  <1>1. q[p][s] \in Seq(Job) /\ bytes[p][s] \in Int /\ worker[p][s] \in Job \cup {None, "exited"}
    BY DEF Types
  <1> DEFINE x == q[p][s]
  <1> HIDE DEF x
  <1>2. x \in Seq(Job)
    BY <1>1 DEF x
  <1>3. Len(x) \in Nat /\ (\A n \in 1..Len(x) : x[n] \in Job) /\ (Len(x) = 0 <=> x = <<>>)
    BY <1>2
  <1> QED BY <1>1, <1>3 DEF x

\* What a pool accepted is a list of jobs.
LEMMA AcceptType ==
  ASSUME Types, NEW p \in Pool
  PROVE  /\ accepted[p] \in Seq(Job) /\ Len(accepted[p]) \in Nat
         /\ \A n \in 1..Len(accepted[p]) : accepted[p][n] \in Job
  <1>1. accepted[p] \in Seq(Job)
    BY DEF Types
  <1> DEFINE x == accepted[p]
  <1> HIDE DEF x
  <1>2. x \in Seq(Job)
    BY <1>1 DEF x
  <1>3. Len(x) \in Nat /\ \A n \in 1..Len(x) : x[n] \in Job
    BY <1>2
  <1> QED BY <1>1, <1>3 DEF x

\* Initially there is nothing.
LEMMA InitInv == Init => IInv
  <1> SUFFICES ASSUME Init PROVE IInv
    OBVIOUS
  <1>1. Types
    BY DEF Init, Types, Statuses, Phases
  <1>2. ASSUME NEW p \in Pool, NEW s \in Shard PROVE QueueInv(p, s) /\ BoundInv(p, s) /\ WorkerInv(p, s)
    <2>1. q[p][s] = <<>> /\ Len(q[p][s]) = 0 /\ bytes[p][s] = 0 /\ worker[p][s] = "exited" /\ running[p] = {}
      BY DEF Init
    <2>2. MaxLen \in Nat /\ MaxBytes \in Nat /\ "exited" \notin Job
      BY PoolAssumption
    <2> QED BY <2>1, <2>2, SumSizeEmpty DEF QueueInv, BoundInv, WorkerInv
  <1>3. \A j \in Job : JobInv(j)
    BY DEF Init, JobInv
  <1>4. \A p \in Pool : AcceptInv(p) /\ OrderInv(p)
    <2>1. \A p \in Pool : Len(accepted[p]) = 0
      BY DEF Init
    <2> QED BY <2>1 DEF AcceptInv, OrderInv
  <1> QED BY <1>1, <1>2, <1>3, <1>4 DEF IInv

\* What Follows says of jobs i and j after a step.
FollowsNext(i, j, p) ==
  /\ status'[j] \in {"running", "done"} => status'[i] \in {"done", "dropped"}
  /\ \A x, y \in 1..Len(q'[p][ShardOf(i)]) :
       q'[p][ShardOf(i)][x] = i /\ q'[p][ShardOf(i)][y] = j => x < y

\* The order of what pool o has accepted after a step.
LEMMA OrderNext ==
  ASSUME NEW o \in Pool, NEW B, accepted'[o] = B,
         \A m, k \in 1..Len(B) : m < k /\ ShardOf(B[m]) = ShardOf(B[k]) => FollowsNext(B[m], B[k], o)
  PROVE  OrderInv(o)'
  <1>1. \A m, k \in 1..Len(accepted'[o]) :
          m < k /\ ShardOf(accepted'[o][m]) = ShardOf(accepted'[o][k])
            => FollowsNext(accepted'[o][m], accepted'[o][k], o)
    OBVIOUS
  <1> QED BY <1>1, Zenon DEF OrderInv, Follows, FollowsNext

\* A step of the life cycle: nothing queued or running changes.
LEMMA LifecycleKeeps ==
  ASSUME IInv, Types', UNCHANGED <<queues, status, held, accepted>>, drain' \subseteq drain,
         \A p \in Pool : phase'[p] \in {"unborn", "stopped"} =>
           \A s \in Shard : worker[p][s] = "exited"
  PROVE  IInv'
  <1>1. UNCHANGED <<running, q, bytes, worker>>
    BY DEF queues
  <1>2. ASSUME NEW p \in Pool, NEW s \in Shard PROVE (QueueInv(p, s) /\ BoundInv(p, s) /\ WorkerInv(p, s))'
    <2>1. QueueInv(p, s) /\ BoundInv(p, s) /\ WorkerInv(p, s)
      BY DEF IInv
    <2> QED BY <1>1, <2>1 DEF QueueInv, BoundInv, WorkerInv, Belongs
  <1>3. ASSUME NEW j \in Job PROVE JobInv(j)'
    <2>1. JobInv(j)
      BY DEF IInv
    <2> QED BY <1>1, <2>1 DEF JobInv
  <1>4. ASSUME NEW p \in Pool PROVE (AcceptInv(p) /\ OrderInv(p))'
    <2>1. AcceptInv(p) /\ OrderInv(p)
      BY DEF IInv
    <2> QED BY <1>1, <2>1 DEF AcceptInv, OrderInv, Follows
  <1> QED BY <1>2, <1>3, <1>4 DEF IInv

\* A job that no pool has accepted changes its status.
LEMMA OutsideKeeps ==
  ASSUME IInv, NEW j \in Job, NEW x \in {"held", "refused"}, status[j] \in {"new", "held"},
         status' = [status EXCEPT ![j] = x], held' \in [Job -> Pool \cup {None}],
         \A k \in Job : k # j => held'[k] = held[k],
         x = "held" => held'[j] \in Pool,
         UNCHANGED <<entry, lifecycle, queues, accepted>>
  PROVE  IInv'
  <1>0. Types
    BY DEF IInv
  <1>1. /\ status'[j] = x /\ \A k \in Job : k # j => status'[k] = status[k] /\ held'[k] = held[k]
        /\ UNCHANGED <<entry, phase, drain, signal, started, locked, running, q, bytes, worker, accepted>>
    BY <1>0 DEF Types, queues, lifecycle
  <1>2. Types'
    BY <1>0, <1>1 DEF Types, Statuses
  <1>3. ASSUME NEW p \in Pool, NEW s \in Shard PROVE (QueueInv(p, s) /\ BoundInv(p, s) /\ WorkerInv(p, s))'
    <2>1. QueueInv(p, s) /\ BoundInv(p, s) /\ WorkerInv(p, s)
      BY DEF IInv
    <2>2. QueueInv(p, s)'
      <3>1. ASSUME NEW n \in 1..Len(q[p][s])
            PROVE  status'[q[p][s][n]] = status[q[p][s][n]] /\ held'[q[p][s][n]] = held[q[p][s][n]]
        BY <1>0, <1>1, <2>1, QueueType DEF QueueInv
      <3> QED BY <1>1, <2>1, <3>1 DEF QueueInv, Belongs
    <2>3. BoundInv(p, s)'
      BY <1>1, <2>1 DEF BoundInv
    <2>4. WorkerInv(p, s)'
      BY <1>1, <2>1 DEF WorkerInv, Belongs
    <2> QED BY <2>2, <2>3, <2>4
  <1>4. ASSUME NEW k \in Job PROVE JobInv(k)'
    <2>1. JobInv(k)
      BY DEF IInv
    <2>2. CASE k = j
      BY <1>1, <2>2 DEF JobInv
    <2>3. CASE k # j
      <3>1. status'[k] = status[k] /\ held'[k] = held[k]
        BY <1>1, <2>3
      <3> QED BY <1>1, <2>1, <3>1 DEF JobInv
    <2> QED BY <2>2, <2>3
  <1>5. ASSUME NEW p \in Pool PROVE (AcceptInv(p) /\ OrderInv(p))'
    <2>1. AcceptInv(p) /\ OrderInv(p)
      BY DEF IInv
    <2>2. \A n \in 1..Len(accepted[p]) :
            /\ status'[accepted[p][n]] = status[accepted[p][n]]
            /\ held'[accepted[p][n]] = held[accepted[p][n]]
      BY <1>0, <1>1, <2>1, AcceptType DEF AcceptInv
    <2>3. AcceptInv(p)'
      BY <1>1, <2>1, <2>2 DEF AcceptInv
    <2>4. OrderInv(p)'
      <3>1. accepted' = accepted /\ q' = q
        BY <1>1
      <3> SUFFICES ASSUME NEW m \in 1..Len(accepted[p]), NEW n \in 1..Len(accepted[p]), m < n,
                          ShardOf(accepted[p][m]) = ShardOf(accepted[p][n])
                   PROVE  Follows(accepted[p][m], accepted[p][n], p)'
        BY <3>1 DEF OrderInv
      <3>2. Follows(accepted[p][m], accepted[p][n], p)
        BY <2>1 DEF OrderInv
      <3>3. status'[accepted[p][m]] = status[accepted[p][m]] /\ status'[accepted[p][n]] = status[accepted[p][n]]
        BY <2>2
      <3> QED BY <3>1, <3>2, <3>3 DEF Follows
    <2> QED BY <2>3, <2>4
  <1> QED BY <1>2, <1>3, <1>4, <1>5 DEF IInv

\* A worker returns from a job, or leaves.
LEMMA FinishKeeps ==
  ASSUME IInv, NEW p \in Pool, NEW s \in Shard, Finish(p, s)
  PROVE  IInv'
  <1> DEFINE j == worker[p][s]
  <1>0. Types /\ QueueInv(p, s) /\ BoundInv(p, s) /\ WorkerInv(p, s)
    BY DEF IInv
  <1>1. /\ j \in Job /\ worker' = [worker EXCEPT ![p][s] = None]
        /\ status' = [status EXCEPT ![j] = "done"]
        /\ UNCHANGED <<entry, phase, drain, signal, started, locked, running, q, bytes, held, accepted>>
    BY DEF Finish, lifecycle
  <1>2. status[j] = "running" /\ Belongs(j, p, s)
    BY <1>0, <1>1 DEF WorkerInv
  <1>3. /\ status'[j] = "done" /\ \A k \in Job : k # j => status'[k] = status[k]
        /\ worker'[p][s] = None
        /\ \A o \in Pool, t \in Shard : (o # p \/ t # s) => worker'[o][t] = worker[o][t]
    BY <1>0, <1>1 DEF Types
  <1> HIDE DEF j
  <1>4. Types'
    BY <1>0, <1>1 DEF Types, Statuses
  <1>5. ASSUME NEW o \in Pool, NEW t \in Shard PROVE (QueueInv(o, t) /\ BoundInv(o, t) /\ WorkerInv(o, t))'
    <2>1. QueueInv(o, t) /\ BoundInv(o, t) /\ WorkerInv(o, t)
      BY DEF IInv
    <2>2. QueueInv(o, t)'
      <3>1. ASSUME NEW n \in 1..Len(q[o][t]) PROVE status'[q[o][t][n]] = status[q[o][t][n]]
        BY <1>0, <1>2, <1>3, <2>1, QueueType DEF QueueInv
      <3> QED BY <1>1, <2>1, <3>1 DEF QueueInv, Belongs
    <2>3. BoundInv(o, t)'
      BY <1>1, <2>1 DEF BoundInv
    <2>4. WorkerInv(o, t)'
      <3>1. CASE o = p /\ t = s
        BY <1>0, <1>1, <1>3, <3>1, PoolAssumption DEF WorkerInv, j
      <3>2. CASE o # p \/ t # s
        <4>1. worker'[o][t] = worker[o][t]
          BY <1>3, <3>2
        <4>2. worker[o][t] \in Job => worker[o][t] # j
          BY <1>2, <2>1, <3>2 DEF WorkerInv, Belongs
        <4> QED BY <1>1, <1>3, <2>1, <4>1, <4>2 DEF WorkerInv, Belongs
      <3> QED BY <3>1, <3>2
    <2> QED BY <2>2, <2>3, <2>4
  <1>6. ASSUME NEW k \in Job PROVE JobInv(k)'
    <2>1. JobInv(k)
      BY DEF IInv
    <2>2. CASE k = j
      BY <1>1, <1>3, <2>2 DEF JobInv
    <2>3. CASE k # j
      <3>1. status'[k] = status[k]
        BY <1>3, <2>3
      <3>2. status[k] = "running" => worker'[held[k]][ShardOf(k)] = k
        <4>1. status[k] = "running" => held[k] \in Pool /\ worker[held[k]][ShardOf(k)] = k
          BY <2>1 DEF JobInv
        <4> QED BY <1>3, <2>3, <4>1, ShardType DEF j
      <3> QED BY <1>1, <2>1, <3>1, <3>2 DEF JobInv
    <2> QED BY <2>2, <2>3
  <1>7. ASSUME NEW o \in Pool PROVE (AcceptInv(o) /\ OrderInv(o))'
    <2>1. AcceptInv(o) /\ OrderInv(o)
      BY DEF IInv
    <2>2. AcceptInv(o)'
      BY <1>0, <1>1, <1>3, <2>1, AcceptType DEF AcceptInv
    <2>3. OrderInv(o)'
      <3> SUFFICES ASSUME NEW m \in 1..Len(accepted[o]), NEW n \in 1..Len(accepted[o]), m < n,
                          ShardOf(accepted[o][m]) = ShardOf(accepted[o][n])
                   PROVE  Follows(accepted[o][m], accepted[o][n], o)'
        BY <1>1 DEF OrderInv
      <3>1. Follows(accepted[o][m], accepted[o][n], o)
        BY <2>1 DEF OrderInv
      <3>2. accepted[o][m] \in Job /\ accepted[o][n] \in Job
        BY <1>0, AcceptType
      <3> QED BY <1>1, <1>2, <1>3, <3>1, <3>2 DEF Follows
    <2> QED BY <2>2, <2>3
  <1> QED BY <1>4, <1>5, <1>6, <1>7 DEF IInv

\* A worker leaves, or all workers of a new pool start: none of them runs a job.
LEMMA IdleKeeps ==
  ASSUME IInv, Types', UNCHANGED <<drain, q, bytes, status, held, accepted>>,
         \A o \in Pool, t \in Shard :
           \/ worker'[o][t] = worker[o][t] /\ running'[o] = running[o]
              /\ (phase'[o] \in {"unborn", "stopped"} => phase'[o] = phase[o])
           \/ /\ worker[o][t] \notin Job /\ worker'[o][t] \notin Job
              /\ worker'[o][t] = "exited" => q[o][t] = <<>> /\ t \notin running'[o]
              /\ phase'[o] \in {"unborn", "stopped"} => worker'[o][t] = "exited"
  PROVE  IInv'
  <1>1. ASSUME NEW o \in Pool, NEW t \in Shard PROVE (QueueInv(o, t) /\ BoundInv(o, t) /\ WorkerInv(o, t))'
    <2>1. QueueInv(o, t) /\ BoundInv(o, t) /\ WorkerInv(o, t)
      BY DEF IInv
    <2>2. (QueueInv(o, t) /\ BoundInv(o, t))'
      BY <2>1 DEF QueueInv, BoundInv, Belongs
    <2>3. WorkerInv(o, t)'
      BY <2>1 DEF WorkerInv, Belongs
    <2> QED BY <2>2, <2>3
  <1>2. ASSUME NEW k \in Job PROVE JobInv(k)'
    <2>1. JobInv(k)
      BY DEF IInv
    <2>2. status[k] = "running" => worker'[held[k]][ShardOf(k)] = k
      <3>1. status[k] = "running" => held[k] \in Pool /\ worker[held[k]][ShardOf(k)] = k
        BY <2>1 DEF JobInv
      <3> QED BY <3>1, ShardType
    <2> QED BY <2>1, <2>2 DEF JobInv
  <1>3. ASSUME NEW o \in Pool PROVE (AcceptInv(o) /\ OrderInv(o))'
    <2>1. AcceptInv(o) /\ OrderInv(o)
      BY DEF IInv
    <2> QED BY <2>1 DEF AcceptInv, OrderInv, Follows
  <1> QED BY <1>1, <1>2, <1>3 DEF IInv

\* Exit and create_pool are such steps.
LEMMA ExitKeeps ==
  ASSUME IInv, NEW p \in Pool, NEW s \in Shard, Exit(p, s)
  PROVE  IInv'
  <1>0. Types
    BY DEF IInv
  <1>1. /\ worker[p][s] = None /\ s \notin running[p] /\ q[p][s] = <<>>
        /\ worker' = [worker EXCEPT ![p][s] = "exited"]
        /\ UNCHANGED <<entry, phase, drain, signal, started, locked, running, q, bytes, status, held, accepted>>
    BY DEF Exit, MayExit, lifecycle
  <1>2. Types'
    BY <1>0, <1>1 DEF Types
  <1>3. worker'[p][s] = "exited"
        /\ \A o \in Pool, t \in Shard : (o # p \/ t # s) => worker'[o][t] = worker[o][t]
    BY <1>0, <1>1 DEF Types
  <1>4. None \notin Job /\ "exited" \notin Job
    BY PoolAssumption
  <1> QED BY <1>1, <1>2, <1>3, <1>4, IdleKeeps

\* createPool opens an empty pool under the name and retires the one before it.
LEMMA CreateKeeps ==
  ASSUME IInv, NEW p \in Pool, CreatePool(p)
  PROVE  IInv'
  <1>0. Types
    BY DEF IInv
  <1>1. /\ phase[p] = "unborn" /\ started' = started \cup {p} /\ entry' = p
        /\ phase' = [o \in Pool |-> IF o = p THEN "open"
                                    ELSE IF o = entry THEN "due" ELSE phase[o]]
        /\ running' = [running EXCEPT ![p] = Shard]
        /\ worker' = [worker EXCEPT ![p] = [s \in Shard |-> None]]
        /\ UNCHANGED <<drain, signal, locked, q, bytes, status, held, accepted>>
    BY DEF CreatePool
  <1>2. Types'
    BY <1>0, <1>1 DEF Types, Phases
  <1>3. \A t \in Shard : worker[p][t] = "exited" /\ worker'[p][t] = None
    BY <1>0, <1>1 DEF IInv, WorkerInv, Types
  <1>4. \A o \in Pool, t \in Shard : o # p => worker'[o][t] = worker[o][t] /\ running'[o] = running[o]
    BY <1>0, <1>1 DEF Types
  <1>5. \A o \in Pool : phase'[o] \in {"unborn", "stopped"} => o # p /\ phase'[o] = phase[o]
    BY <1>1
  <1>6. None \notin Job /\ "exited" \notin Job /\ None # "exited"
    BY PoolAssumption
  <1> QED BY <1>1, <1>2, <1>3, <1>4, <1>5, <1>6, IdleKeeps

\* The worker takes the oldest job of its shard: every earlier one is over.
LEMMA TakeKeeps ==
  ASSUME IInv, NEW p \in Pool, NEW s \in Shard, Take(p, s)
  PROVE  IInv'
  <1> DEFINE Q == q[p][s]
             R == q'[p][s]
             j == Head(Q)
  <1>0. Types /\ QueueInv(p, s) /\ BoundInv(p, s) /\ WorkerInv(p, s)
    BY DEF IInv
  <1>1. /\ worker[p][s] = None /\ Q # <<>>
        /\ worker' = [worker EXCEPT ![p][s] = j]
        /\ bytes' = [bytes EXCEPT ![p][s] = @ - Size[j]]
        /\ status' = [status EXCEPT ![j] = "running"]
        /\ q' = [q EXCEPT ![p][s] = Tail(@)]
        /\ UNCHANGED <<entry, phase, drain, signal, started, locked, running, held, accepted>>
    BY DEF Take, lifecycle
  <1>2. Q \in Seq(Job) /\ R = Tail(Q) /\ bytes[p][s] \in Int
    BY <1>0, <1>1 DEF Types
  <1>3. /\ Len(Q) \in Nat /\ Len(Q) > 0 /\ Len(R) = Len(Q) - 1 /\ R \in Seq(Job)
        /\ Q[1] = j /\ j \in Job /\ \A n \in 1..Len(R) : R[n] = Q[n + 1]
    <2> HIDE DEF Q, R
    <2> QED BY <1>1, <1>2
  <1>4. SumSize(Q) = Size[j] + SumSize(R) /\ SumSize(R) \in Nat /\ Size[j] \in Nat
    BY <1>1, <1>2, <1>3, SumSizeTail, SumSizeType, PoolAssumption
  <1>5. status[j] = "queued" /\ Belongs(j, p, s)
    BY <1>0, <1>3 DEF QueueInv
  <1>6. /\ status'[j] = "running" /\ \A k \in Job : k # j => status'[k] = status[k]
        /\ worker'[p][s] = j
        /\ \A o \in Pool, t \in Shard : (o # p \/ t # s) =>
             worker'[o][t] = worker[o][t] /\ q'[o][t] = q[o][t] /\ bytes'[o][t] = bytes[o][t]
        /\ bytes'[p][s] = bytes[p][s] - Size[j]
    BY <1>0, <1>1, <1>3 DEF Types
  <1>7. Types'
    <2>1. q' \in [Pool -> [Shard -> Seq(Job)]]
      BY <1>0, <1>1, <1>2, <1>3 DEF Types
    <2>2. bytes' \in [Pool -> [Shard -> Int]]
      BY <1>0, <1>1, <1>2, <1>4 DEF Types
    <2>3. worker' \in [Pool -> [Shard -> Job \cup {None, "exited"}]] /\ status' \in [Job -> Statuses]
      BY <1>0, <1>1, <1>3 DEF Types, Statuses
    <2> QED BY <1>0, <1>1, <2>1, <2>2, <2>3 DEF Types
  <1> HIDE DEF Q, R, j
  <1>8. \A m, n \in 1..Len(Q) : Q[m] = Q[n] => m = n
    BY <1>0 DEF QueueInv, Q
  <1>9. None \notin Job /\ "exited" \notin Job /\ None # "exited"
    BY PoolAssumption
  <1>10. ASSUME NEW o \in Pool, NEW t \in Shard PROVE (QueueInv(o, t) /\ BoundInv(o, t) /\ WorkerInv(o, t))'
    <2>1. QueueInv(o, t) /\ BoundInv(o, t) /\ WorkerInv(o, t)
      BY DEF IInv
    <2>2. CASE o = p /\ t = s
      <3>1. ASSUME NEW n \in 1..Len(R)
            PROVE  status'[R[n]] = "queued" /\ held[R[n]] = p /\ ShardOf(R[n]) = s
        <4>1. n + 1 \in 1..Len(Q) /\ R[n] = Q[n + 1] /\ Q[n + 1] # j /\ Q[n + 1] \in Job
          BY <1>2, <1>3, <1>8
        <4>2. status[Q[n + 1]] = "queued" /\ Belongs(Q[n + 1], p, s)
          BY <1>0, <4>1 DEF QueueInv, Q
        <4> QED BY <1>6, <4>1, <4>2 DEF Belongs
      <3>2. \A m, n \in 1..Len(R) : R[m] = R[n] => m = n
        <4>1. \A n \in 1..Len(R) : n + 1 \in 1..Len(Q) /\ R[n] = Q[n + 1]
          BY <1>3
        <4>2. \A m, n \in 1..Len(R) : R[m] = R[n] => m + 1 = n + 1
          BY <1>8, <4>1
        <4> QED BY <4>2
      <3>3. QueueInv(p, s)'
        <4>1. held' = held
          BY <1>1
        <4>2. \A n \in 1..Len(R) : status'[R[n]] = "queued" /\ held'[R[n]] = p /\ ShardOf(R[n]) = s
          BY <3>1, <4>1
        <4> QED BY <3>2, <4>2 DEF QueueInv, Belongs, R
      <3>4. BoundInv(p, s)'
        <4>1. Len(Q) <= MaxLen /\ bytes[p][s] = SumSize(Q) /\ bytes[p][s] <= MaxBytes
              /\ MaxLen \in Nat /\ MaxBytes \in Nat
          BY <1>0, PoolAssumption DEF BoundInv, Q
        <4>2. Len(R) <= MaxLen /\ bytes'[p][s] = SumSize(R) /\ bytes'[p][s] <= MaxBytes
          BY <1>3, <1>4, <1>6, <4>1
        <4> QED BY <4>2 DEF BoundInv, R
      <3>5. WorkerInv(p, s)'
        <4>1. phase' = phase /\ held' = held /\ worker[p][s] = None
          BY <1>1
        <4>2. phase[p] \notin {"unborn", "stopped"}
          BY <1>0, <1>9, <4>1 DEF WorkerInv
        <4>3. worker'[p][s] = j /\ j # "exited" /\ status'[j] = "running"
              /\ held'[j] = p /\ ShardOf(j) = s
          BY <1>3, <1>5, <1>6, <1>9, <4>1 DEF Belongs
        <4> QED BY <4>1, <4>2, <4>3 DEF WorkerInv, Belongs
      <3> QED BY <2>2, <3>3, <3>4, <3>5
    <2>3. CASE o # p \/ t # s
      <3>1. worker'[o][t] = worker[o][t] /\ q'[o][t] = q[o][t] /\ bytes'[o][t] = bytes[o][t]
        BY <1>6, <2>3
      <3>2. \A n \in 1..Len(q[o][t]) : q[o][t][n] \in Job /\ q[o][t][n] # j
        BY <1>0, <1>5, <2>1, <2>3, QueueType DEF QueueInv, Belongs
      <3>3. QueueInv(o, t)'
        <4>1. held' = held
          BY <1>1
        <4>2. \A n \in 1..Len(q[o][t]) : status'[q[o][t][n]] = "queued" /\ Belongs(q[o][t][n], o, t)
          BY <1>6, <2>1, <3>2 DEF QueueInv
        <4> QED BY <2>1, <3>1, <4>1, <4>2 DEF QueueInv, Belongs
      <3>4. BoundInv(o, t)'
        BY <2>1, <3>1 DEF BoundInv
      <3>5. WorkerInv(o, t)'
        BY <1>1, <1>5, <1>6, <2>1, <3>1 DEF WorkerInv, Belongs
      <3> QED BY <3>3, <3>4, <3>5
    <2> QED BY <2>2, <2>3
  <1>11. ASSUME NEW k \in Job PROVE JobInv(k)'
    <2>1. JobInv(k)
      BY DEF IInv
    <2>2. CASE k = j
      BY <1>1, <1>5, <1>6, <2>2 DEF JobInv, Belongs
    <2>3. CASE k # j
      <3>1. status'[k] = status[k] /\ held'[k] = held[k] /\ ShardOf(k) \in Shard
        BY <1>1, <1>6, <2>3, ShardType
      <3>2. ASSUME status[k] = "running" PROVE worker'[held[k]][ShardOf(k)] = k
        <4>1. held[k] \in Pool /\ worker[held[k]][ShardOf(k)] = k
          BY <2>1, <3>2 DEF JobInv
        <4>2. held[k] # p \/ ShardOf(k) # s
          BY <1>1, <1>9, <4>1
        <4> QED BY <1>6, <3>1, <4>1, <4>2
      <3>3. ASSUME status[k] = "queued"
            PROVE  \E n \in 1..Len(q'[held[k]][ShardOf(k)]) : q'[held[k]][ShardOf(k)][n] = k
        <4>1. held[k] \in Pool
              /\ \E n \in 1..Len(q[held[k]][ShardOf(k)]) : q[held[k]][ShardOf(k)][n] = k
          BY <2>1, <3>3 DEF JobInv
        <4>2. CASE held[k] = p /\ ShardOf(k) = s
          <5>1. PICK n \in 1..Len(Q) : Q[n] = k
            BY <4>1, <4>2 DEF Q
          <5>2. n # 1 /\ n - 1 \in 1..Len(R) /\ R[n - 1] = Q[(n - 1) + 1] /\ (n - 1) + 1 = n
            BY <1>3, <2>3, <5>1
          <5>3. \E i \in 1..Len(R) : R[i] = k
            BY <5>1, <5>2
          <5> QED BY <4>2, <5>3 DEF R
        <4>3. CASE held[k] # p \/ ShardOf(k) # s
          BY <1>6, <3>1, <4>1, <4>3
        <4> QED BY <4>2, <4>3
      <3> QED BY <1>1, <2>1, <3>1, <3>2, <3>3 DEF JobInv
    <2> QED BY <2>2, <2>3
  <1>12. ASSUME NEW o \in Pool PROVE (AcceptInv(o) /\ OrderInv(o))'
    <2>1. AcceptInv(o) /\ OrderInv(o)
      BY DEF IInv
    <2>2. AcceptInv(o)'
      BY <1>0, <1>1, <1>6, <2>1, AcceptType DEF AcceptInv
    <2>3. OrderInv(o)'
      <3> SUFFICES ASSUME NEW m \in 1..Len(accepted[o]), NEW n \in 1..Len(accepted[o]), m < n,
                          ShardOf(accepted[o][m]) = ShardOf(accepted[o][n])
                   PROVE  Follows(accepted[o][m], accepted[o][n], o)'
        BY <1>1 DEF OrderInv
      <3>0. accepted' = accepted
        BY <1>1
      <3> DEFINE i == accepted[o][m]
                 k == accepted[o][n]
      <3>1. Follows(i, k, o)
        BY <2>1 DEF OrderInv
      <3>2. i \in Job /\ k \in Job /\ i # k /\ held[i] = o /\ held[k] = o
            /\ status[i] \in {"queued", "running", "done", "dropped"} /\ ShardOf(i) = ShardOf(k)
            /\ ShardOf(i) \in Shard
        BY <1>0, <2>1, AcceptType, ShardType DEF AcceptInv
      <3> HIDE DEF i, k
      <3>3. ASSUME NEW x \in 1..Len(q'[o][ShardOf(i)]), NEW y \in 1..Len(q'[o][ShardOf(i)]),
                   q'[o][ShardOf(i)][x] = i, q'[o][ShardOf(i)][y] = k
            PROVE  x < y
        <4>1. CASE o = p /\ ShardOf(i) = s
          <5>1. x \in 1..Len(R) /\ y \in 1..Len(R) /\ R[x] = i /\ R[y] = k
            BY <3>3, <4>1 DEF R
          <5>2. x + 1 \in 1..Len(Q) /\ y + 1 \in 1..Len(Q) /\ Q[x + 1] = i /\ Q[y + 1] = k
            BY <1>3, <5>1
          <5>3. x + 1 < y + 1
            BY <3>1, <4>1, <5>2 DEF Follows, Q
          <5> QED BY <5>3
        <4>2. CASE o # p \/ ShardOf(i) # s
          BY <1>6, <3>1, <3>2, <3>3, <4>2 DEF Follows
        <4> QED BY <4>1, <4>2
      <3>4. ASSUME status'[k] \in {"running", "done"} PROVE status'[i] \in {"done", "dropped"}
        <4>1. CASE k = j
          <5>1. o = p /\ ShardOf(i) = s
            BY <1>5, <3>2, <4>1 DEF Belongs
          <5>2. status[i] # "running"
            BY <1>1, <1>9, <3>2, <5>1 DEF IInv, JobInv
          <5>3. status[i] # "queued"
            <6> SUFFICES ASSUME status[i] = "queued" PROVE FALSE
              OBVIOUS
            <6>1. PICK x \in 1..Len(Q) : Q[x] = i
              BY <3>2, <5>1 DEF IInv, JobInv, Q
            <6>2. 1 \in 1..Len(Q) /\ Q[1] = k
              BY <1>3, <4>1
            <6>3. x < 1
              BY <3>1, <5>1, <6>1, <6>2 DEF Follows, Q
            <6> QED BY <6>1, <6>3
          <5> QED BY <1>6, <3>2, <4>1, <5>2, <5>3
        <4>2. CASE k # j
          <5>1. status[i] \in {"done", "dropped"}
            BY <1>6, <3>1, <3>2, <3>4, <4>2 DEF Follows
          <5> QED BY <1>5, <1>6, <3>2, <5>1
        <4> QED BY <4>1, <4>2
      <3>5. /\ status'[k] \in {"running", "done"} => status'[i] \in {"done", "dropped"}
            /\ \A x, y \in 1..Len(q'[o][ShardOf(i)]) :
                 q'[o][ShardOf(i)][x] = i /\ q'[o][ShardOf(i)][y] = k => x < y
        BY <3>3, <3>4
      <3> QED BY <3>0, <3>5 DEF Follows, i, k
    <2> QED BY <2>2, <2>3
  <1> QED BY <1>7, <1>10, <1>11, <1>12 DEF IInv

\* post puts a job at the end of its shard's queue, after jobs at the head are
\* dropped where the policy is to drop them.
LEMMA EnqueueKeeps ==
  ASSUME IInv, NEW p \in Pool, NEW s \in Shard, NEW j \in Job, NEW n \in 0..Len(q[p][s]),
         status[j] = "held", Belongs(j, p, s), s \in running[p], n > 0 => p \in DropHead,
         Fits(SubSeq(q[p][s], n + 1, Len(q[p][s])), SumSize(SubSeq(q[p][s], n + 1, Len(q[p][s]))), j),
         Enqueue(p, s, j, n), UNCHANGED <<entry, lifecycle, running, worker, held>>
  PROVE  IInv'
  <1> DEFINE Q == q[p][s]
             gone == SubSeq(Q, 1, n)
             rest == SubSeq(Q, n + 1, Len(Q))
             R == Append(rest, j)
             d == Len(Q) - n
             Gone(k) == \E i \in 1..n : Q[i] = k
  <1>0. Types /\ QueueInv(p, s) /\ BoundInv(p, s) /\ WorkerInv(p, s)
    BY DEF IInv
  <1>1. /\ q' = [q EXCEPT ![p][s] = R]
        /\ bytes' = [bytes EXCEPT ![p][s] = (@ - SumSize(gone)) + Size[j]]
        /\ status' = [i \in Job |-> IF i = j THEN "queued"
                                    ELSE IF i \in ToSet(gone) THEN "dropped" ELSE status[i]]
        /\ accepted' = [accepted EXCEPT ![p] = Append(@, j)]
    BY DEF Enqueue
  <1>2. UNCHANGED <<entry, phase, drain, signal, started, locked, running, worker, held>>
    BY DEF lifecycle
  <1>3. /\ Q \in Seq(Job) /\ Len(Q) \in Nat /\ bytes[p][s] \in Int
        /\ \A i \in 1..Len(Q) : Q[i] \in Job
    BY <1>0, QueueType
  <1> HIDE DEF Q
  <1>4. n \in 0..Len(Q) /\ n \in Nat /\ d \in Nat /\ n + d = Len(Q)
    <2>1. n \in 0..Len(Q)
      BY DEF Q
    <2> QED BY <1>3, <2>1
  <1>5. /\ gone \in Seq(Job) /\ Len(gone) = n /\ \A i \in 1..n : gone[i] = Q[i]
        /\ rest \in Seq(Job) /\ Len(rest) = d /\ \A i \in 1..d : rest[i] = Q[n + i]
        /\ SumSize(Q) = SumSize(gone) + SumSize(rest)
    BY <1>3, <1>4, SumSizeSplit
  <1>6. Fits(rest, SumSize(rest), j)
    BY DEF Q
  <1> HIDE DEF gone, rest
  <1>7. \A k : k \in ToSet(gone) <=> Gone(k)
    <2>1. DOMAIN gone = 1..n
      BY <1>5
    <2>2. \A k : k \in ToSet(gone) <=> \E i \in 1..n : gone[i] = k
      BY <2>1 DEF ToSet
    <2> QED BY SMTT(30), <1>5, <2>2
  <1>8. /\ R \in Seq(Job) /\ Len(R) = d + 1 /\ R[d + 1] = j
        /\ \A i \in 1..d : R[i] = rest[i]
    BY <1>4, <1>5
  <1>9. SumSize(R) = SumSize(rest) + Size[j]
    BY <1>5, SumSizeAppend
  <1>10. SumSize(gone) \in Nat /\ SumSize(rest) \in Nat /\ Size[j] \in Nat
    BY <1>5, SumSizeType, PoolAssumption
  <1> HIDE DEF R, d
  <1>11. Len(R) = d + 1 /\ R[d + 1] = j /\ \A i \in 1..d : R[i] = Q[n + i] /\ n + i \in 1..Len(Q)
    <2>1. \A i \in 1..d : n + i \in 1..Len(Q)
      BY <1>4
    <2>2. \A i \in 1..d : R[i] = Q[n + i]
      BY <1>5, <1>8
    <2> QED BY <1>8, <2>1, <2>2
  <1>12. \A i \in 1..Len(Q) : status[Q[i]] = "queued" /\ Belongs(Q[i], p, s)
    BY <1>0 DEF QueueInv, Q
  <1>13. \A x, y \in 1..Len(Q) : Q[x] = Q[y] => x = y
    BY <1>0 DEF QueueInv, Q
  <1>14. ASSUME NEW k, Gone(k)
         PROVE  k \in Job /\ status[k] = "queued" /\ Belongs(k, p, s) /\ p \in DropHead
    <2>1. PICK i \in 1..n : Q[i] = k
      BY <1>14
    <2>2. i \in 1..Len(Q) /\ n > 0
      BY <1>4, <2>1
    <2> QED BY <1>3, <1>12, <2>1, <2>2
  <1> HIDE DEF Gone
  <1>15. /\ status'[j] = "queued"
         /\ \A k \in Job : k # j /\ Gone(k) => status'[k] = "dropped"
         /\ \A k \in Job : k # j /\ ~Gone(k) => status'[k] = status[k]
    BY <1>1, <1>7
  <1>16. \A k \in Job : status[k] \notin {"held", "queued"} => k # j /\ ~Gone(k) /\ status'[k] = status[k]
    BY <1>14, <1>15
  <1>17. /\ q'[p][s] = R /\ bytes'[p][s] = (bytes[p][s] - SumSize(gone)) + Size[j]
         /\ \A o \in Pool, t \in Shard : (o # p \/ t # s) =>
              q'[o][t] = q[o][t] /\ bytes'[o][t] = bytes[o][t]
         /\ accepted'[p] = Append(accepted[p], j)
         /\ \A o \in Pool : o # p => accepted'[o] = accepted[o]
    BY <1>0, <1>1 DEF Types
  <1>18. Types'
    <2>1. q' \in [Pool -> [Shard -> Seq(Job)]]
      BY <1>0, <1>1, <1>8 DEF Types
    <2>2. bytes' \in [Pool -> [Shard -> Int]]
      BY SMTT(30), <1>0, <1>1, <1>3, <1>10 DEF Types
    <2>3. status' \in [Job -> Statuses]
      BY <1>0, <1>1 DEF Types, Statuses
    <2>4. accepted' \in [Pool -> Seq(Job)]
      <3>1. accepted[p] \in Seq(Job)
        BY <1>0, AcceptType
      <3>2. Append(accepted[p], j) \in Seq(Job)
        BY <3>1
      <3> QED BY <1>0, <1>1, <3>2 DEF Types
    <2> QED BY <1>0, <1>2, <2>1, <2>2, <2>3, <2>4 DEF Types
  <1>19. ASSUME NEW i \in 1..d
         PROVE  R[i] \in Job /\ R[i] # j /\ ~Gone(R[i]) /\ status'[R[i]] = "queued" /\ Belongs(R[i], p, s)
    <2>1. R[i] = Q[n + i] /\ n + i \in 1..Len(Q) /\ Q[n + i] \in Job
      BY <1>3, <1>11
    <2>2. status[Q[n + i]] = "queued" /\ Belongs(Q[n + i], p, s)
      BY <1>12, <2>1
    <2>3. ~Gone(Q[n + i])
      <3> SUFFICES ASSUME NEW x \in 1..n, Q[x] = Q[n + i] PROVE FALSE
        BY DEF Gone
      <3>1. x \in 1..Len(Q)
        BY <1>4
      <3>2. x = n + i
        BY <1>13, <2>1, <3>1
      <3> QED BY <1>4, <3>2
    <2> QED BY <1>15, <2>1, <2>2, <2>3
  <1>20. ASSUME NEW o \in Pool, NEW t \in Shard PROVE (QueueInv(o, t) /\ BoundInv(o, t) /\ WorkerInv(o, t))'
    <2>1. QueueInv(o, t) /\ BoundInv(o, t) /\ WorkerInv(o, t)
      BY DEF IInv
    <2>2. WorkerInv(o, t)'
      <3>0. worker' = worker /\ phase' = phase /\ running' = running /\ held' = held
        BY <1>2
      <3>1. worker[o][t] \in Job => status'[worker[o][t]] = "running" /\ Belongs(worker[o][t], o, t)
        BY <1>16, <2>1 DEF WorkerInv
      <3>2. worker[o][t] = "exited" => q'[o][t] = <<>> /\ t \notin running[o]
        BY <1>17, <2>1 DEF WorkerInv
      <3>3. phase[o] \in {"unborn", "stopped"} => worker[o][t] = "exited"
        BY <2>1 DEF WorkerInv
      <3> QED BY <3>0, <3>1, <3>2, <3>3 DEF WorkerInv, Belongs
    <2>3. CASE o = p /\ t = s
      <3>1. \A i \in 1..Len(R) : i \in 1..d \/ i = d + 1
        BY <1>4, <1>11
      <3>2. ASSUME NEW i \in 1..Len(R) PROVE status'[R[i]] = "queued" /\ Belongs(R[i], p, s)
        BY <1>11, <1>15, <1>19, <3>1
      <3>3. ASSUME NEW x \in 1..Len(R), NEW y \in 1..Len(R), R[x] = R[y] PROVE x = y
        <4>1. CASE x \in 1..d /\ y \in 1..d
          <5>1. n + x = n + y
            BY <1>11, <1>13, <3>3, <4>1
          <5> QED BY <1>4, <4>1, <5>1
        <4>2. CASE x = d + 1 /\ y = d + 1
          BY <4>2
        <4>3. CASE (x \in 1..d /\ y = d + 1) \/ (x = d + 1 /\ y \in 1..d)
          BY <1>11, <1>19, <3>3, <4>3
        <4> QED BY <3>1, <4>1, <4>2, <4>3
      <3>4. QueueInv(p, s)'
        <4>1. held' = held
          BY <1>2
        <4> QED BY <1>17, <3>2, <3>3, <4>1 DEF QueueInv, Belongs
      <3>5. BoundInv(p, s)'
        <4>1. bytes[p][s] = SumSize(Q) /\ MaxLen \in Nat /\ MaxBytes \in Nat
          BY <1>0, PoolAssumption DEF BoundInv, Q
        <4>2. d < MaxLen /\ Size[j] <= MaxBytes - SumSize(rest)
          BY <1>5, <1>6 DEF Fits
        <4>3. bytes'[p][s] = SumSize(R) /\ bytes'[p][s] <= MaxBytes /\ Len(R) <= MaxLen
          BY SMTT(30), <1>3, <1>4, <1>5, <1>9, <1>10, <1>11, <1>17, <4>1, <4>2
        <4> QED BY <1>17, <4>3 DEF BoundInv
      <3> QED BY <2>2, <2>3, <3>4, <3>5
    <2>4. CASE o # p \/ t # s
      <3>1. q'[o][t] = q[o][t] /\ bytes'[o][t] = bytes[o][t] /\ held' = held
        BY <1>2, <1>17, <2>4
      <3>2. ASSUME NEW i \in 1..Len(q[o][t])
            PROVE  status'[q[o][t][i]] = "queued" /\ Belongs(q[o][t][i], o, t)
        <4>1. q[o][t][i] \in Job /\ status[q[o][t][i]] = "queued" /\ Belongs(q[o][t][i], o, t)
          BY <1>0, <2>1, QueueType DEF QueueInv
        <4>2. q[o][t][i] # j /\ ~Gone(q[o][t][i])
          BY <1>14, <2>4, <4>1 DEF Belongs
        <4> QED BY <1>15, <4>1, <4>2
      <3>3. QueueInv(o, t)'
        BY <2>1, <3>1, <3>2 DEF QueueInv, Belongs
      <3>4. BoundInv(o, t)'
        BY <2>1, <3>1 DEF BoundInv
      <3> QED BY <2>2, <3>3, <3>4
    <2> QED BY <2>3, <2>4
  <1>21. ASSUME NEW k \in Job PROVE JobInv(k)'
    <2>0. worker' = worker /\ held' = held /\ drain' = drain
      BY <1>2
    <2>1. JobInv(k)
      BY DEF IInv
    <2>2. CASE k = j
      <3>1. held[k] = p /\ ShardOf(k) = s /\ d + 1 \in 1..Len(R) /\ R[d + 1] = k
        BY <1>4, <1>11, <2>2 DEF Belongs
      <3>2. \E i \in 1..Len(q'[p][s]) : q'[p][s][i] = k
        BY <1>17, <3>1
      <3> QED BY <1>15, <2>0, <2>2, <3>1, <3>2 DEF JobInv
    <2>3. CASE k # j /\ Gone(k)
      <3>1. status'[k] = "dropped" /\ held[k] = p /\ p \in DropHead
        BY <1>14, <1>15, <2>3 DEF Belongs
      <3> QED BY <2>0, <3>1 DEF JobInv
    <2>4. CASE k # j /\ ~Gone(k)
      <3>1. status'[k] = status[k] /\ ShardOf(k) \in Shard
        BY <1>15, <2>4, ShardType
      <3>2. ASSUME status[k] = "queued"
            PROVE  \E i \in 1..Len(q'[held[k]][ShardOf(k)]) : q'[held[k]][ShardOf(k)][i] = k
        <4>1. held[k] \in Pool
              /\ \E i \in 1..Len(q[held[k]][ShardOf(k)]) : q[held[k]][ShardOf(k)][i] = k
          BY <2>1, <3>2 DEF JobInv
        <4>2. CASE held[k] = p /\ ShardOf(k) = s
          <5>1. PICK i \in 1..Len(Q) : Q[i] = k
            BY <4>1, <4>2 DEF Q
          <5>2. ~(i \in 1..n)
            BY <2>4, <5>1 DEF Gone
          <5>3. i - n \in 1..d /\ i - n \in 1..Len(R) /\ n + (i - n) = i
            BY <1>4, <1>11, <5>1, <5>2
          <5>4. R[i - n] = k
            BY <1>11, <5>1, <5>3
          <5>5. \E x \in 1..Len(R) : R[x] = k
            BY <5>3, <5>4
          <5> QED BY <1>17, <4>2, <5>5
        <4>3. CASE held[k] # p \/ ShardOf(k) # s
          BY <1>17, <3>1, <4>1, <4>3
        <4> QED BY <4>2, <4>3
      <3> QED BY <2>0, <2>1, <3>1, <3>2 DEF JobInv
    <2> QED BY <2>2, <2>3, <2>4
  <1>22. ASSUME NEW o \in Pool PROVE (AcceptInv(o) /\ OrderInv(o))'
    <2>0. held' = held
      BY <1>2
    <2>1. AcceptInv(o) /\ OrderInv(o)
      BY DEF IInv
    <2> DEFINE A == accepted[o]
    <2>2. A \in Seq(Job) /\ Len(A) \in Nat /\ \A m \in 1..Len(A) : A[m] \in Job
      BY <1>0, AcceptType
    <2>3. \A m \in 1..Len(A) : held[A[m]] = o /\ A[m] # j
            /\ status[A[m]] \in {"queued", "running", "done", "dropped"}
      BY <2>1 DEF AcceptInv
    <2>4. \A m \in 1..Len(A) : status'[A[m]] \in {"queued", "running", "done", "dropped"}
      BY <1>15, <2>2, <2>3
    <2>5. \A m, k \in 1..Len(A) : A[m] = A[k] => m = k
      BY <2>1 DEF AcceptInv
    <2>6. \A m, k \in 1..Len(A) : m < k /\ ShardOf(A[m]) = ShardOf(A[k]) => Follows(A[m], A[k], o)
      BY <2>1 DEF OrderInv
    <2>7. ASSUME NEW m \in 1..Len(A), NEW k \in 1..Len(A), Follows(A[m], A[k], o),
                 ShardOf(A[m]) = ShardOf(A[k])
          PROVE  /\ status'[A[k]] \in {"running", "done"} => status'[A[m]] \in {"done", "dropped"}
                 /\ \A x, y \in 1..Len(q'[o][ShardOf(A[m])]) :
                      q'[o][ShardOf(A[m])][x] = A[m] /\ q'[o][ShardOf(A[m])][y] = A[k] => x < y
      <3>1. A[m] \in Job /\ A[k] \in Job /\ ShardOf(A[m]) \in Shard /\ A[m] # j /\ A[k] # j
        BY <2>2, <2>3, ShardType
      <3>2. ASSUME status'[A[k]] \in {"running", "done"} PROVE status'[A[m]] \in {"done", "dropped"}
        <4>1. status[A[k]] \in {"running", "done"}
          BY <1>15, <3>1, <3>2
        <4>2. status[A[m]] \in {"done", "dropped"}
          BY <2>7, <4>1 DEF Follows
        <4> QED BY <1>16, <3>1, <4>2
      <3>3. ASSUME NEW x \in 1..Len(q'[o][ShardOf(A[m])]), NEW y \in 1..Len(q'[o][ShardOf(A[m])]),
                   q'[o][ShardOf(A[m])][x] = A[m], q'[o][ShardOf(A[m])][y] = A[k]
            PROVE  x < y
        <4>1. CASE o = p /\ ShardOf(A[m]) = s
          <5>1. x \in 1..Len(R) /\ y \in 1..Len(R) /\ R[x] = A[m] /\ R[y] = A[k]
            BY <1>17, <3>3, <4>1
          <5>2. x \in 1..d /\ y \in 1..d
            BY SMTT(30), <1>4, <1>11, <3>1, <5>1
          <5>3. n + x \in 1..Len(Q) /\ n + y \in 1..Len(Q) /\ Q[n + x] = A[m] /\ Q[n + y] = A[k]
            BY <1>11, <5>1, <5>2
          <5>4. n + x < n + y
            BY <2>7, <4>1, <5>3 DEF Follows, Q
          <5> QED BY <1>4, <5>2, <5>4
        <4>2. CASE o # p \/ ShardOf(A[m]) # s
          <5>1. q'[o][ShardOf(A[m])] = q[o][ShardOf(A[m])]
            BY <1>17, <3>1, <4>2
          <5> QED BY <2>7, <3>3, <5>1 DEF Follows
        <4> QED BY <4>1, <4>2
      <3> QED BY <3>2, <3>3
    <2>8. CASE o # p
      <3>1. accepted'[o] = A
        BY <1>17, <2>8
      <3>2. AcceptInv(o)'
        BY <2>0, <2>3, <2>4, <2>5, <3>1 DEF AcceptInv
      <3>3. OrderInv(o)'
        <4> HIDE DEF A
        <4>1. \A m, k \in 1..Len(A) : m < k /\ ShardOf(A[m]) = ShardOf(A[k]) => Follows(A[m], A[k], o)
          BY <2>6
        <4> SUFFICES ASSUME NEW m \in 1..Len(A), NEW k \in 1..Len(A), m < k, ShardOf(A[m]) = ShardOf(A[k])
                     PROVE  FollowsNext(A[m], A[k], o)
          BY <3>1, OrderNext
        <4> QED BY <2>7, <4>1 DEF FollowsNext
      <3> QED BY <3>2, <3>3
    <2>9. CASE o = p
      <3> DEFINE B == Append(A, j)
      <3>1. accepted'[o] = B
        BY <1>17, <2>9
      <3>2. /\ Len(B) = Len(A) + 1 /\ B[Len(A) + 1] = j /\ \A m \in 1..Len(A) : B[m] = A[m]
            /\ \A m \in 1..Len(B) : m \in 1..Len(A) \/ m = Len(A) + 1
        <4> HIDE DEF A
        <4> QED BY <2>2
      <3> HIDE DEF A, B
      <3>3. AcceptInv(o)'
        <4>1. held[j] = o
          BY <2>9 DEF Belongs
        <4>2. \A m \in 1..Len(B) : held[B[m]] = o /\ status'[B[m]] \in {"queued", "running", "done", "dropped"}
          BY <1>15, <2>3, <2>4, <3>2, <4>1
        <4>3. \A m, k \in 1..Len(B) : B[m] = B[k] => m = k
          BY <2>3, <2>5, <3>2
        <4> QED BY <2>0, <3>1, <4>2, <4>3 DEF AcceptInv
      <3>4. OrderInv(o)'
        <4> SUFFICES ASSUME NEW m \in 1..Len(B), NEW k \in 1..Len(B), m < k, ShardOf(B[m]) = ShardOf(B[k])
                     PROVE  FollowsNext(B[m], B[k], o)
          BY <3>1, OrderNext
        <4>1. m \in 1..Len(A) /\ B[m] = A[m]
          BY <2>2, <3>2
        <4>2. CASE k \in 1..Len(A)
          <5>1. B[k] = A[k]
            BY <3>2, <4>2
          <5>2. Follows(A[m], A[k], o)
            BY <2>6, <4>1, <4>2, <5>1
          <5>3. ShardOf(A[m]) = ShardOf(A[k])
            BY <4>1, <5>1
          <5> HIDE DEF Q, R
          <5>4. FollowsNext(A[m], A[k], o)
            BY <2>7, <4>1, <4>2, <5>2, <5>3 DEF FollowsNext
          <5> QED BY <4>1, <5>1, <5>4
        <4>3. CASE k = Len(A) + 1
          <5>1. B[k] = j /\ ShardOf(B[m]) = s /\ B[m] # j
            BY <2>3, <3>2, <4>1, <4>3 DEF Belongs
          <5>2. ASSUME NEW x \in 1..Len(R), NEW y \in 1..Len(R), R[x] = B[m], R[y] = j
                PROVE  x < y
            <6>1. ~(y \in 1..d)
              BY <1>19, <5>2
            <6>2. x # d + 1
              BY <1>11, <5>1, <5>2
            <6> QED BY <1>4, <1>11, <6>1, <6>2
          <5>3. q'[o][ShardOf(B[m])] = R
            BY <1>17, <2>9, <5>1
          <5> QED BY <1>15, <5>1, <5>2, <5>3 DEF FollowsNext
        <4> QED BY <3>2, <4>2, <4>3
      <3> QED BY <3>3, <3>4
    <2> QED BY <2>8, <2>9
  <1> QED BY <1>18, <1>20, <1>21, <1>22 DEF IInv

\* A job no larger than the queue fits once enough jobs at the head are dropped.
LEMMA OverflowFits ==
  ASSUME NEW Q \in Seq(Job), NEW j \in Job, Size[j] <= MaxBytes
  PROVE  /\ Overflow(Q, j) \in 0..Len(Q)
         /\ Fits(SubSeq(Q, Overflow(Q, j) + 1, Len(Q)), SumSize(SubSeq(Q, Overflow(Q, j) + 1, Len(Q))), j)
  <1> DEFINE rest(n) == SubSeq(Q, n + 1, Len(Q))
             T == {n \in 0..Len(Q) : Fits(rest(n), SumSize(rest(n)), j)}
  <1>1. Len(Q) \in Nat /\ Len(Q) \in 0..Len(Q)
    OBVIOUS
  <1>2. rest(Len(Q)) = <<>>
    <2>1. rest(Len(Q)) \in Seq(Job) /\ Len(rest(Len(Q))) = Len(Q) - Len(Q)
      BY <1>1, SumSizeSplit
    <2> HIDE DEF rest
    <2>2. Len(rest(Len(Q))) = 0
      BY <1>1, <2>1
    <2> QED BY <2>1, <2>2
  <1> HIDE DEF rest
  <1>3. Fits(<<>>, SumSize(<<>>), j)
    <2>1. MaxLen \in Nat \ {0} /\ MaxBytes \in Nat /\ Size[j] \in Nat /\ Len(<<>>) = 0
      BY PoolAssumption
    <2> QED BY <2>1, SumSizeEmpty DEF Fits
  <1>4. T \in SUBSET Nat /\ T # {}
    BY <1>1, <1>2, <1>3
  <1> HIDE DEF T
  <1>5. Min(T) \in T
    BY <1>4, MinIs
  <1>6. Overflow(Q, j) = Min(T)
    BY DEF Overflow, T, rest
  <1> QED BY <1>5, <1>6 DEF T, rest

\* post, whatever it does with the job.
LEMMA PostKeeps ==
  ASSUME IInv, NEW j \in Job, Post(j)
  PROVE  IInv'
  <1> DEFINE p == held[j]
             s == ShardOf(j)
             Q == q[p][s]
             open == p \in started /\ s \in running[p] /\ Size[j] <= MaxBytes
             room == Fits(Q, bytes[p][s], j)
  <1>1. /\ status[j] = "held"
        /\ \/ open /\ room /\ Enqueue(p, s, j, 0)
           \/ open /\ ~room /\ p \in DropHead /\ Enqueue(p, s, j, Overflow(Q, j))
           \/ status' = [status EXCEPT ![j] = "refused"] /\ UNCHANGED <<q, bytes, accepted>>
        /\ UNCHANGED <<entry, lifecycle, running, worker, held>>
    BY DEF Post
  <1>2. p \in Pool /\ s \in Shard /\ Belongs(j, p, s) /\ Types /\ BoundInv(p, s)
    BY <1>1, ShardType DEF IInv, JobInv, Belongs
  <1>3. Q \in Seq(Job) /\ Len(Q) \in Nat
    BY <1>2, QueueType
  <1>4. CASE open /\ room /\ Enqueue(p, s, j, 0)
    <2>1. SubSeq(Q, 0 + 1, Len(Q)) = Q
      <3> DEFINE rest == SubSeq(Q, 0 + 1, Len(Q))
      <3> HIDE DEF Q
      <3>1. 0 \in 0..Len(Q)
        BY <1>3
      <3>2. rest \in Seq(Job) /\ Len(rest) = Len(Q) - 0 /\ \A i \in 1..(Len(Q) - 0) : rest[i] = Q[0 + i]
        BY <1>3, <3>1, SumSizeSplit
      <3> HIDE DEF rest
      <3>3. Len(rest) = Len(Q) /\ \A i \in 1..Len(Q) : rest[i] = Q[i]
        BY <1>3, <3>2
      <3>4. rest = Q
        BY <1>3, <3>2, <3>3
      <3> QED BY <3>4 DEF rest
    <2>2. Fits(Q, SumSize(Q), j)
      BY <1>2, <1>4 DEF BoundInv
    <2>3. Fits(SubSeq(Q, 0 + 1, Len(Q)), SumSize(SubSeq(Q, 0 + 1, Len(Q))), j)
      BY <2>1, <2>2
    <2>4. 0 \in 0..Len(Q) /\ ~(0 > 0)
      BY <1>3
    <2> HIDE DEF p, s, open, room
    <2>5. s \in running[p] /\ UNCHANGED <<entry, lifecycle, running, worker, held>>
      BY <1>1, <1>4 DEF open
    <2> QED BY <1>1, <1>2, <1>4, <2>3, <2>4, <2>5, EnqueueKeeps
  <1>5. CASE open /\ ~room /\ p \in DropHead /\ Enqueue(p, s, j, Overflow(Q, j))
    <2> DEFINE n == Overflow(Q, j)
    <2>1. n \in 0..Len(Q) /\ Fits(SubSeq(Q, n + 1, Len(Q)), SumSize(SubSeq(Q, n + 1, Len(Q))), j)
      BY <1>3, <1>5, OverflowFits
    <2> HIDE DEF n, p, s, open, room
    <2>2. s \in running[p] /\ UNCHANGED <<entry, lifecycle, running, worker, held>> /\ Enqueue(p, s, j, n)
      BY <1>1, <1>5 DEF open, n
    <2> QED BY <1>1, <1>2, <1>5, <2>1, <2>2, EnqueueKeeps
  <1>6. CASE status' = [status EXCEPT ![j] = "refused"] /\ UNCHANGED <<q, bytes, accepted>>
    <2>1. held' = held /\ UNCHANGED <<entry, lifecycle, queues, accepted>>
      BY <1>1, <1>6 DEF queues
    <2>2. held \in [Job -> Pool \cup {None}]
      BY <1>2 DEF Types
    <2> QED BY <1>1, <1>6, <2>1, <2>2, OutsideKeeps
  <1> QED BY <1>1, <1>4, <1>5, <1>6

\* shutdown stops a shard, and drops its queue unless the pool drains.
LEMMA ShutdownShardKeeps ==
  ASSUME IInv, NEW p \in Pool, ShutdownShard(p)
  PROVE  IInv'
  <1> DEFINE s == Min(signal[p])
             gone == IF p \in drain THEN {} ELSE ToSet(q[p][s])
  <1>0. Types
    BY DEF IInv
  <1>1. /\ signal[p] # {}
        /\ signal' = [signal EXCEPT ![p] = @ \ {s}]
        /\ running' = [running EXCEPT ![p] = @ \ {s}]
        /\ q' = [q EXCEPT ![p][s] = IF p \in drain THEN @ ELSE <<>>]
        /\ bytes' = [bytes EXCEPT ![p][s] = IF p \in drain THEN @ ELSE 0]
        /\ status' = [k \in Job |-> IF k \in gone THEN "dropped" ELSE status[k]]
        /\ UNCHANGED <<entry, phase, drain, started, locked, worker, held, accepted>>
    BY DEF ShutdownShard
  <1>2. s \in Shard
    <2>1. signal[p] \in SUBSET Shard /\ Shard \in SUBSET Nat
      BY <1>0, PoolAssumption DEF Types, Shard
    <2> QED BY <1>1, <2>1, MinIs
  <1>3. q[p][s] \in Seq(Job) /\ \A n \in 1..Len(q[p][s]) : q[p][s][n] \in Job
    BY <1>0, <1>2, QueueType
  <1>4. QueueInv(p, s)
    BY <1>2 DEF IInv
  <1>5. \A k : k \in ToSet(q[p][s]) <=> \E n \in 1..Len(q[p][s]) : q[p][s][n] = k
    <2>1. DOMAIN q[p][s] = 1..Len(q[p][s])
      BY <1>3
    <2> QED BY <2>1 DEF ToSet
  <1>6. \A k \in gone : k \in Job /\ status[k] = "queued" /\ Belongs(k, p, s) /\ p \notin drain
    BY <1>3, <1>4, <1>5 DEF QueueInv
  <1>7. \A n \in 1..Len(q[p][s]) : p \notin drain => q[p][s][n] \in gone
    BY <1>5
  <1> HIDE DEF s, gone
  <1>8. /\ \A k \in gone : status'[k] = "dropped"
        /\ \A k \in Job : k \notin gone => status'[k] = status[k]
    BY <1>1, <1>6
  <1>9. /\ p \in drain => q'[p][s] = q[p][s] /\ bytes'[p][s] = bytes[p][s]
        /\ p \notin drain => q'[p][s] = <<>> /\ bytes'[p][s] = 0
        /\ \A o \in Pool, t \in Shard : (o # p \/ t # s) =>
             q'[o][t] = q[o][t] /\ bytes'[o][t] = bytes[o][t]
        /\ \A o \in Pool : running'[o] \subseteq running[o]
    BY <1>0, <1>1, <1>2 DEF Types
  <1>10. \A o \in Pool, t \in Shard :
           (q'[o][t] = q[o][t] /\ bytes'[o][t] = bytes[o][t]) \/ (q'[o][t] = <<>> /\ bytes'[o][t] = 0)
    BY <1>9
  <1>11. Types'
    <2>1. q' \in [Pool -> [Shard -> Seq(Job)]] /\ bytes' \in [Pool -> [Shard -> Int]]
      BY <1>0, <1>1, <1>2 DEF Types
    <2>2. status' \in [Job -> Statuses]
      BY <1>0, <1>1 DEF Types, Statuses
    <2>3. signal' \in [Pool -> SUBSET Shard] /\ running' \in [Pool -> SUBSET Shard]
      BY <1>0, <1>1 DEF Types
    <2> QED BY <1>0, <1>1, <2>1, <2>2, <2>3 DEF Types
  <1>12. held' = held /\ worker' = worker /\ phase' = phase /\ drain' = drain /\ accepted' = accepted
    BY <1>1
  <1>13. ASSUME NEW o \in Pool, NEW t \in Shard PROVE (QueueInv(o, t) /\ BoundInv(o, t) /\ WorkerInv(o, t))'
    <2>1. QueueInv(o, t) /\ BoundInv(o, t) /\ WorkerInv(o, t)
      BY DEF IInv
    <2>2. WorkerInv(o, t)'
      <3>1. worker[o][t] \in Job => status'[worker[o][t]] = "running" /\ Belongs(worker[o][t], o, t)
        BY <1>6, <1>8, <2>1 DEF WorkerInv
      <3>2. worker[o][t] = "exited" => q'[o][t] = <<>> /\ t \notin running'[o]
        BY <1>9, <1>10, <2>1 DEF WorkerInv
      <3>3. phase[o] \in {"unborn", "stopped"} => worker[o][t] = "exited"
        BY <2>1 DEF WorkerInv
      <3> QED BY <1>12, <3>1, <3>2, <3>3 DEF WorkerInv, Belongs
    <2>3. CASE q'[o][t] = <<>> /\ bytes'[o][t] = 0
      <3>1. Len(q'[o][t]) = 0 /\ MaxLen \in Nat /\ MaxBytes \in Nat
        BY <2>3, PoolAssumption
      <3>2. QueueInv(o, t)'
        BY <3>1 DEF QueueInv
      <3>3. BoundInv(o, t)'
        BY <2>3, <3>1, SumSizeEmpty DEF BoundInv
      <3> QED BY <2>2, <3>2, <3>3
    <2>4. CASE q'[o][t] = q[o][t] /\ bytes'[o][t] = bytes[o][t]
      <3>1. ASSUME NEW n \in 1..Len(q[o][t])
            PROVE  status'[q[o][t][n]] = "queued" /\ Belongs(q[o][t][n], o, t)
        <4>1. q[o][t][n] \in Job /\ status[q[o][t][n]] = "queued" /\ Belongs(q[o][t][n], o, t)
          BY <1>0, <2>1, QueueType DEF QueueInv
        <4>2. q[o][t][n] \notin gone
          <5>1. q[o][t] # <<>>
            <6>1. q[o][t] = <<>> => Len(q[o][t]) = 0
              OBVIOUS
            <6> QED BY <6>1
          <5> QED BY <1>6, <1>9, <2>4, <4>1, <5>1 DEF Belongs
        <4> QED BY <1>8, <4>1, <4>2
      <3>2. QueueInv(o, t)'
        BY <1>12, <2>1, <2>4, <3>1 DEF QueueInv, Belongs
      <3>3. BoundInv(o, t)'
        BY <2>1, <2>4 DEF BoundInv
      <3> QED BY <2>2, <3>2, <3>3
    <2> QED BY <1>10, <2>3, <2>4
  <1>14. ASSUME NEW k \in Job PROVE JobInv(k)'
    <2>1. JobInv(k) /\ ShardOf(k) \in Shard
      BY ShardType DEF IInv
    <2>2. CASE k \in gone
      <3>1. status'[k] = "dropped" /\ held[k] = p /\ p \notin drain
        BY <1>6, <1>8, <2>2 DEF Belongs
      <3> QED BY <1>12, <3>1 DEF JobInv
    <2>3. CASE k \notin gone
      <3>1. status'[k] = status[k]
        BY <1>8, <2>3
      <3>2. ASSUME status[k] = "queued"
            PROVE  \E n \in 1..Len(q'[held[k]][ShardOf(k)]) : q'[held[k]][ShardOf(k)][n] = k
        <4>1. PICK n \in 1..Len(q[held[k]][ShardOf(k)]) : q[held[k]][ShardOf(k)][n] = k
          BY <2>1, <3>2 DEF JobInv
        <4>2. held[k] \in Pool
          BY <2>1, <3>2 DEF JobInv
        <4>3. held[k] # p \/ ShardOf(k) # s \/ p \in drain
          BY <1>7, <2>3, <4>1
        <4>4. q'[held[k]][ShardOf(k)] = q[held[k]][ShardOf(k)]
          BY <1>9, <2>1, <4>2, <4>3
        <4> QED BY <4>1, <4>4
      <3> QED BY <1>12, <2>1, <3>1, <3>2 DEF JobInv
    <2> QED BY <2>2, <2>3
  <1>15. ASSUME NEW o \in Pool PROVE (AcceptInv(o) /\ OrderInv(o))'
    <2>1. AcceptInv(o) /\ OrderInv(o)
      BY DEF IInv
    <2>2. \A n \in 1..Len(accepted[o]) : accepted[o][n] \in Job
      BY <1>0, AcceptType
    <2>3. AcceptInv(o)'
      <3>1. \A n \in 1..Len(accepted[o]) : status'[accepted[o][n]] \in {"queued", "running", "done", "dropped"}
        BY <1>8, <2>1, <2>2 DEF AcceptInv
      <3> QED BY <1>12, <2>1, <3>1 DEF AcceptInv
    <2>4. OrderInv(o)'
      <3> SUFFICES ASSUME NEW m \in 1..Len(accepted[o]), NEW n \in 1..Len(accepted[o]), m < n,
                          ShardOf(accepted[o][m]) = ShardOf(accepted[o][n])
                   PROVE  Follows(accepted[o][m], accepted[o][n], o)'
        BY <1>12 DEF OrderInv
      <3> DEFINE i == accepted[o][m]
                 k == accepted[o][n]
      <3>1. Follows(i, k, o) /\ i \in Job /\ k \in Job /\ ShardOf(i) \in Shard
        BY <2>1, <2>2, ShardType DEF OrderInv
      <3> HIDE DEF i, k
      <3>2. ASSUME status'[k] \in {"running", "done"} PROVE status'[i] \in {"done", "dropped"}
        <4>1. status[k] \in {"running", "done"}
          BY <1>8, <3>1, <3>2
        <4> QED BY <1>8, <3>1, <4>1 DEF Follows
      <3>3. \A x, y \in 1..Len(q'[o][ShardOf(i)]) :
              q'[o][ShardOf(i)][x] = i /\ q'[o][ShardOf(i)][y] = k => x < y
        <4>1. CASE q'[o][ShardOf(i)] = <<>>
          <5>1. Len(q'[o][ShardOf(i)]) = 0
            BY <4>1
          <5> QED BY <5>1
        <4>2. CASE q'[o][ShardOf(i)] = q[o][ShardOf(i)]
          BY <3>1, <4>2 DEF Follows
        <4> QED BY <1>10, <3>1, <4>1, <4>2
      <3> QED BY <1>12, <3>2, <3>3 DEF Follows, i, k
    <2> QED BY <2>3, <2>4
  <1> QED BY <1>11, <1>13, <1>14, <1>15 DEF IInv

\* Every step preserves the invariant.
LEMMA NextInv == IInv /\ [Next]_vars => IInv'
  <1> SUFFICES ASSUME IInv, [Next]_vars PROVE IInv'
    OBVIOUS
  <1>0. Types
    BY DEF IInv
  <1>1. ASSUME NEW j \in Job, LookUp(j) PROVE IInv'
    <2>1. CASE entry = None
      <3>1. status' = [status EXCEPT ![j] = "refused"] /\ status[j] = "new"
            /\ held' = [held EXCEPT ![j] = None] /\ UNCHANGED <<entry, lifecycle, queues, accepted>>
        BY <1>1, <2>1 DEF LookUp
      <3>2. held' \in [Job -> Pool \cup {None}] /\ \A k \in Job : k # j => held'[k] = held[k]
        BY <1>0, <3>1 DEF Types
      <3> QED BY <3>1, <3>2, OutsideKeeps
    <2>2. CASE entry # None
      <3>1. status' = [status EXCEPT ![j] = "held"] /\ status[j] = "new"
            /\ held' = [held EXCEPT ![j] = entry] /\ UNCHANGED <<entry, lifecycle, queues, accepted>>
        BY <1>1, <2>2 DEF LookUp
      <3>2. held' \in [Job -> Pool \cup {None}] /\ (\A k \in Job : k # j => held'[k] = held[k])
            /\ held'[j] \in Pool
        BY <1>0, <2>2, <3>1 DEF Types
      <3> QED BY <3>1, <3>2, OutsideKeeps
    <2> QED BY <2>1, <2>2
  <1>2. ASSUME NEW p \in Pool, ShutdownBegin(p) \/ ShutdownUnlock(p) \/ ShutdownDone(p) PROVE IInv'
    <2>1. UNCHANGED <<queues, status, held, accepted>> /\ drain' = drain
      BY <1>2 DEF ShutdownBegin, ShutdownUnlock, ShutdownDone
    <2>2. Types'
      BY <1>0, <1>2 DEF ShutdownBegin, ShutdownUnlock, ShutdownDone, Types, Phases, queues
    <2>3. \A o \in Pool : phase'[o] \in {"unborn", "stopped"} =>
            \A t \in Shard : worker[o][t] = "exited"
      <3>1. \A o \in Pool, t \in Shard : phase[o] \in {"unborn", "stopped"} => worker[o][t] = "exited"
        BY DEF IInv, WorkerInv
      <3>2. \A o \in Pool : o # p => phase'[o] = phase[o]
        BY <1>0, <1>2 DEF ShutdownBegin, ShutdownUnlock, ShutdownDone, Types
      <3>3. phase'[p] \in {"unborn", "stopped"} => \A t \in Shard : worker[p][t] = "exited"
        BY <1>0, <1>2 DEF ShutdownBegin, ShutdownUnlock, ShutdownDone, Types
      <3> QED BY <3>1, <3>2, <3>3
    <2> QED BY <2>1, <2>2, <2>3, LifecycleKeeps
  <1>3. CASE DestroyPool
    <2>1. entry \in Pool /\ phase' = [phase EXCEPT ![entry] = "due"] /\ drain' \subseteq drain /\ entry' = None
          /\ UNCHANGED <<signal, started, locked, queues, status, held, accepted>>
      BY <1>0, <1>3 DEF DestroyPool, Types
    <2>2. Types'
      BY <1>0, <2>1 DEF Types, Phases, queues
    <2>3. \A o \in Pool, t \in Shard : phase[o] \in {"unborn", "stopped"} => worker[o][t] = "exited"
      BY DEF IInv, WorkerInv
    <2>4. \A o \in Pool : phase'[o] \in {"unborn", "stopped"} => phase'[o] = phase[o]
      BY <1>0, <2>1 DEF Types
    <2> QED BY <2>1, <2>2, <2>3, <2>4, LifecycleKeeps
  <1>4. CASE UNCHANGED vars
    <2>1. UNCHANGED <<queues, status, held, accepted>> /\ phase' = phase /\ drain' = drain
      BY <1>4 DEF vars, lifecycle
    <2>2. Types'
      BY <1>0, <1>4 DEF vars, lifecycle, queues, Types
    <2>3. \A o \in Pool, t \in Shard : phase[o] \in {"unborn", "stopped"} => worker[o][t] = "exited"
      BY DEF IInv, WorkerInv
    <2> QED BY <2>1, <2>2, <2>3, LifecycleKeeps
  <1> QED BY <1>1, <1>2, <1>3, <1>4, PostKeeps, ShutdownShardKeeps, CreateKeeps,
             TakeKeeps, FinishKeeps, ExitKeeps DEF Next, Shutdown, Work

-----------------------------------------------------------------------------
(***************************************************************************)
(* The theorems.                                                           *)
(***************************************************************************)

\* The invariant holds in every reachable state of the pools.
LEMMA PoolInvariant == Spec => []IInv
  BY InitInv, NextInv, PTL DEF Spec

\* Types, and the bounds of a queue: never longer than max_queue_len_, its byte
\* count exactly that of the jobs in it and within max_queue_bytes_, so that no
\* subtraction in post or in the worker wraps around.
THEOREM PoolTypeCorrect == Spec => []TypeOK
  <1>1. IInv => TypeOK
    <2> SUFFICES ASSUME IInv PROVE TypeOK
      OBVIOUS
    <2>1. Types
      BY DEF IInv
    <2>2. ASSUME NEW p \in Pool, NEW s \in Shard
          PROVE  /\ q[p][s] \in Seq(Job) /\ Len(q[p][s]) <= MaxLen
                 /\ bytes[p][s] = SumSize(q[p][s]) /\ bytes[p][s] <= MaxBytes
      BY <2>1, QueueType DEF IInv, BoundInv
    <2> QED BY <2>1, <2>2 DEF TypeOK, Types, Statuses, Phases
  <1> QED BY <1>1, PoolInvariant, PTL

\* A job that a pool accepted is never left behind: once shutdown has returned it
\* has run, or was dropped by a policy that says so, whatever posts and handlers
\* raced with the shutdown.
THEOREM NothingIsLost == Spec => []NothingLost
  <1>1. IInv => NothingLost
    <2> SUFFICES ASSUME IInv, NEW p \in Pool, NEW j \in ToSet(accepted[p])
                 PROVE  /\ phase[p] = "stopped" => status[j] \in {"done", "dropped"}
                        /\ status[j] = "dropped" => p \in DropHead \/ p \notin drain
      BY DEF NothingLost
    <2>1. Types /\ AcceptInv(p)
      BY DEF IInv
    <2>2. accepted[p] \in Seq(Job)
      BY <2>1, AcceptType
    <2>3. DOMAIN accepted[p] = 1..Len(accepted[p])
      BY <2>2
    <2>4. PICK n \in 1..Len(accepted[p]) : accepted[p][n] = j
      BY <2>3 DEF ToSet
    <2>5. j \in Job /\ held[j] = p /\ status[j] \in {"queued", "running", "done", "dropped"}
      BY <2>1, <2>4, AcceptType DEF AcceptInv
    <2>6. JobInv(j) /\ ShardOf(j) \in Shard
      BY <2>5, ShardType DEF IInv
    <2>7. WorkerInv(p, ShardOf(j))
      BY <2>6 DEF IInv
    <2>8. ASSUME phase[p] = "stopped" PROVE status[j] \notin {"queued", "running"}
      <3>1. worker[p][ShardOf(j)] = "exited" /\ q[p][ShardOf(j)] = <<>>
        BY <2>7, <2>8 DEF WorkerInv
      <3>2. Len(q[p][ShardOf(j)]) = 0
        BY <3>1
      <3>3. status[j] # "queued"
        BY <2>5, <2>6, <3>2 DEF JobInv
      <3>4. status[j] # "running"
        BY <2>5, <2>6, <3>1, PoolAssumption DEF JobInv
      <3> QED BY <3>3, <3>4
    <2> QED BY <2>5, <2>6, <2>8 DEF JobInv
  <1> QED BY <1>1, PoolInvariant, PTL

\* The jobs of a key run in the order in which the pool accepted them and one at
\* a time, while the pool runs and while it drains.
THEOREM KeysInOrder == Spec => []KeyOrder
  <1>1. IInv => KeyOrder
    <2> SUFFICES ASSUME IInv, NEW p \in Pool, NEW m \in 1..Len(accepted[p]), NEW n \in 1..Len(accepted[p]),
                        m < n, Key[accepted[p][m]] = Key[accepted[p][n]],
                        status[accepted[p][n]] \in {"running", "done"}
                 PROVE  status[accepted[p][m]] \in {"done", "dropped"}
      BY DEF KeyOrder
    <2>1. OrderInv(p)
      BY DEF IInv
    <2>2. ShardOf(accepted[p][m]) = ShardOf(accepted[p][n])
      BY DEF ShardOf
    <2>3. Follows(accepted[p][m], accepted[p][n], p)
      BY <2>1, <2>2 DEF OrderInv
    <2> QED BY <2>3 DEF Follows
  <1> QED BY <1>1, PoolInvariant, PTL
=============================================================================
