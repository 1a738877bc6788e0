-------------------------- MODULE ShardedWorkerPool --------------------------
(***************************************************************************)
(* A named pool of worker threads with one bounded queue per shard, and    *)
(* the entry of WorkerService that threads post through.  The pool behind  *)
(* a name can be replaced or destroyed while others post: a poster may     *)
(* hold a pool that is being shut down.                                    *)
(*                                                                         *)
(* post runs as one step because it holds the pool's lifecycle mutex and   *)
(* the shard's mutex from its first check to its last write.  shutdown     *)
(* holds the lifecycle mutex over all shards but each shard's mutex only   *)
(* in turn, and neither while it joins the workers.  Counters, metrics and *)
(* the periodic tick of an idle worker are left out.                       *)
(***************************************************************************)
EXTENDS Naturals, Sequences, SequencesExt, FiniteSetsExt

CONSTANTS
  Pools,      \* bound: pool objects created under the name
  ShardCount, \* worker_count
  Job, Key,   \* Key[j]: affinity key of a job
  Size,       \* Size[j]: payload bytes
  Parent,     \* Parent[j]: the job whose handler posts j, None for outside threads
  Hash,       \* Hash[k]: shard_index
  MaxLen, MaxBytes,
  DropHead,   \* pools with DropPolicy::DropHead, the others drop the tail
  None

Pool == 1..Pools
Shard == 1..ShardCount

ASSUME PoolAssumption ==
  /\ Pools \in Nat /\ ShardCount \in Nat \ {0}
  /\ MaxLen \in Nat \ {0} /\ MaxBytes \in Nat
  /\ Size \in [Job -> Nat] /\ Parent \in [Job -> Job \cup {None}]
  /\ \A j \in Job : Hash[Key[j]] \in Shard
  /\ DropHead \subseteq Pool /\ None \notin Pool \cup Job
  /\ "exited" \notin Job \cup {None}

VARIABLES
  entry,    \* pools_[name], or None
  phase,    \* shutdown progress of a pool
  drain,    \* pools shut down without draining are not in it
  signal,   \* shards the running shutdown has still to stop
  started,  \* pools with started_
  locked,   \* pools whose lifecycle_mtx_ is held across steps
  running,  \* running[p]: shards with Worker::running
  q, bytes, \* Worker::q and st.queue_bytes
  worker,   \* worker[p][s]: None when idle, the job it runs, or "exited"
  status,   \* history: what became of a job
  held,     \* held[j]: the pool its poster looked up
  accepted  \* history: jobs a pool accepted, in order

queues == <<running, q, bytes, worker>>
lifecycle == <<phase, drain, signal, started, locked>>
vars == <<entry, lifecycle, queues, status, held, accepted>>

Init ==
  /\ entry = None
  /\ phase = [p \in Pool |-> "unborn"] /\ drain = Pool
  /\ signal = [p \in Pool |-> {}] /\ started = {} /\ locked = {}
  /\ running = [p \in Pool |-> {}]
  /\ q = [p \in Pool |-> [s \in Shard |-> <<>>]]
  /\ bytes = [p \in Pool |-> [s \in Shard |-> 0]]
  /\ worker = [p \in Pool |-> [s \in Shard |-> "exited"]]
  /\ status = [j \in Job |-> "new"] /\ held = [j \in Job |-> None]
  /\ accepted = [p \in Pool |-> <<>>]

-----------------------------------------------------------------------------
(***************************************************************************)
(* Posting.                                                                *)
(***************************************************************************)

\* A job is posted by an outside thread, or by the handler of its parent.
CanPost(j) == Parent[j] # None => status[Parent[j]] = "running"

\* WorkerService::post, first half: look the pool up under the service's lock.
LookUp(j) ==
  /\ status[j] = "new" /\ CanPost(j)
  /\ held' = [held EXCEPT ![j] = entry]
  /\ status' = [status EXCEPT ![j] = IF entry = None THEN "refused" ELSE "held"]
  /\ UNCHANGED <<entry, lifecycle, queues, accepted>>

\* The bytes of the jobs in a queue.
SumSize(seq) ==
  LET sum[n \in 0..Len(seq)] == IF n = 0 THEN 0 ELSE sum[n - 1] + Size[seq[n]]
  IN  sum[Len(seq)]

\* Mutant of Fits: a job is measured against the whole queue, not what is left.
FitsWholeQueue(seq, b, j) == Len(seq) < MaxLen /\ Size[j] <= MaxBytes

\* There is room for j behind seq, whose bytes are b.
Fits(seq, b, j) == Len(seq) < MaxLen /\ Size[j] <= MaxBytes - b

\* Mutant of ShardOf: the shard is chosen by the job, not by its key.
ShardOfJob(j) == IF Size[j] = 1 THEN 1 ELSE ShardCount

\* shard_index: all jobs with a key go to the same worker.
ShardOf(j) == Hash[Key[j]]

\* The head jobs that go to make room for j under DropHead.
Overflow(seq, j) ==
  Min({n \in 0..Len(seq) :
         LET rest == SubSeq(seq, n + 1, Len(seq)) IN Fits(rest, SumSize(rest), j)})

\* Enqueue j after its shard has given up n jobs at the head.
Enqueue(p, s, j, n) ==
  LET gone == SubSeq(q[p][s], 1, n)
  IN  /\ q' = [q EXCEPT ![p][s] = Append(SubSeq(@, n + 1, Len(@)), j)]
      /\ bytes' = [bytes EXCEPT ![p][s] = (@ - SumSize(gone)) + Size[j]]
      /\ status' = [i \in Job |-> IF i = j THEN "queued"
                                  ELSE IF i \in ToSet(gone) THEN "dropped"
                                  ELSE status[i]]
      /\ accepted' = [accepted EXCEPT ![p] = Append(@, j)]

\* ShardedWorkerPool::post on the pool the poster holds.
Post(j) ==
  LET p == held[j]
      s == ShardOf(j)
      open == p \in started /\ s \in running[p] /\ Size[j] <= MaxBytes
      room == Fits(q[p][s], bytes[p][s], j)
  IN  /\ status[j] = "held" /\ p \notin locked
      /\ \/ open /\ room /\ Enqueue(p, s, j, 0)
         \/ /\ open /\ ~room /\ p \in DropHead
            /\ Enqueue(p, s, j, Overflow(q[p][s], j))
         \/ /\ ~open \/ (~room /\ p \notin DropHead)
            /\ status' = [status EXCEPT ![j] = "refused"]
            /\ UNCHANGED <<q, bytes, accepted>>
      /\ UNCHANGED <<entry, lifecycle, running, worker, held>>

-----------------------------------------------------------------------------
(***************************************************************************)
(* worker_loop.                                                            *)
(***************************************************************************)

\* The worker takes the head of its queue, whether it still runs or drains.
Take(p, s) ==
  /\ worker[p][s] = None /\ q[p][s] # <<>>
  /\ LET j == Head(q[p][s])
     IN  /\ worker' = [worker EXCEPT ![p][s] = j]
         /\ bytes' = [bytes EXCEPT ![p][s] = @ - Size[j]]
         /\ status' = [status EXCEPT ![j] = "running"]
  /\ q' = [q EXCEPT ![p][s] = Tail(@)]
  /\ UNCHANGED <<entry, lifecycle, running, held, accepted>>

\* The handler returns or throws, after it has posted what it posts.
Finish(p, s) ==
  LET j == worker[p][s]
  IN  /\ j \in Job
      /\ \A i \in Job : Parent[i] = j => status[i] \notin {"new", "held"}
      /\ worker' = [worker EXCEPT ![p][s] = None]
      /\ status' = [status EXCEPT ![j] = "done"]
      /\ UNCHANGED <<entry, lifecycle, running, q, bytes, held, accepted>>

\* Mutant of MayExit: a stopped worker leaves without draining its queue.
MayExitAtOnce(p, s) == s \notin running[p]

\* The worker leaves only when it is stopped and its queue is empty.
MayExit(p, s) == s \notin running[p] /\ q[p][s] = <<>>

Exit(p, s) ==
  /\ worker[p][s] = None /\ MayExit(p, s)
  /\ worker' = [worker EXCEPT ![p][s] = "exited"]
  /\ UNCHANGED <<entry, lifecycle, running, q, bytes, status, held, accepted>>

-----------------------------------------------------------------------------
(***************************************************************************)
(* Life cycle.                                                             *)
(***************************************************************************)

\* create_pool: start a new pool, put it in the entry, shut the old one down.
CreatePool(p) ==
  /\ phase[p] = "unborn" /\ \A o \in 1..(p - 1) : phase[o] # "unborn"
  /\ phase' = [o \in Pool |-> IF o = p THEN "open"
                              ELSE IF o = entry THEN "due" ELSE phase[o]]
  /\ started' = started \cup {p}
  /\ running' = [running EXCEPT ![p] = Shard]
  /\ worker' = [worker EXCEPT ![p] = [s \in Shard |-> None]]
  /\ entry' = p
  /\ UNCHANGED <<drain, signal, locked, q, bytes, status, held, accepted>>

\* destroy_pool and destroy_all: take the pool out of the entry, shut it down.
DestroyPool ==
  /\ entry # None
  /\ phase' = [phase EXCEPT ![entry] = "due"]
  /\ drain' \in {drain, drain \ {entry}}
  /\ entry' = None
  /\ UNCHANGED <<signal, started, locked, queues, status, held, accepted>>

\* shutdown takes the lifecycle mutex and stops accepting.
ShutdownBegin(p) ==
  /\ phase[p] = "due" /\ p \notin locked
  /\ phase' = [phase EXCEPT ![p] = "stopping"]
  /\ started' = started \ {p} /\ locked' = locked \cup {p}
  /\ signal' = [signal EXCEPT ![p] = Shard]
  /\ UNCHANGED <<entry, drain, queues, status, held, accepted>>

\* One shard is told to stop; without drain its queue is dropped.
ShutdownShard(p) ==
  LET s == Min(signal[p])
      gone == IF p \in drain THEN {} ELSE ToSet(q[p][s])
  IN  /\ phase[p] = "stopping" /\ signal[p] # {}
      /\ signal' = [signal EXCEPT ![p] = @ \ {s}]
      /\ running' = [running EXCEPT ![p] = @ \ {s}]
      /\ q' = [q EXCEPT ![p][s] = IF p \in drain THEN @ ELSE <<>>]
      /\ bytes' = [bytes EXCEPT ![p][s] = IF p \in drain THEN @ ELSE 0]
      /\ status' = [j \in Job |-> IF j \in gone THEN "dropped" ELSE status[j]]
      /\ UNCHANGED <<entry, phase, drain, started, locked, worker, held, accepted>>

\* Mutant of ShutdownUnlock: the lifecycle mutex is kept while joining.
ShutdownStaysLocked(p) ==
  /\ phase[p] = "stopping" /\ signal[p] = {}
  /\ phase' = [phase EXCEPT ![p] = "joining"]
  /\ UNCHANGED <<entry, drain, signal, started, locked, queues, status, held, accepted>>

\* The mutex is released before the workers are joined.
ShutdownUnlock(p) ==
  /\ phase[p] = "stopping" /\ signal[p] = {}
  /\ phase' = [phase EXCEPT ![p] = "joining"]
  /\ locked' = locked \ {p}
  /\ UNCHANGED <<entry, drain, signal, started, queues, status, held, accepted>>

\* Every worker is joined; the workers and the handler are released.
ShutdownDone(p) ==
  /\ phase[p] = "joining"
  /\ \A s \in Shard : worker[p][s] = "exited"
  /\ phase' = [phase EXCEPT ![p] = "stopped"]
  /\ UNCHANGED <<entry, drain, signal, started, locked, queues, status, held, accepted>>

Shutdown(p) ==
  ShutdownBegin(p) \/ ShutdownShard(p) \/ ShutdownUnlock(p) \/ ShutdownDone(p)

Work(p, s) == Take(p, s) \/ Finish(p, s) \/ Exit(p, s)

Next ==
  \/ \E j \in Job : LookUp(j) \/ Post(j)
  \/ \E p \in Pool : Shutdown(p) \/ CreatePool(p)
  \/ \E p \in Pool, s \in Shard : Work(p, s)
  \/ DestroyPool

Spec == Init /\ [][Next]_vars

\* Threads that can go on do: workers whose handlers return, a thread inside
\* shutdown, a poster between its two locks, a handler with something to post.
Fairness ==
  /\ \A p \in Pool : WF_vars(Shutdown(p))
  /\ \A p \in Pool, s \in Shard : WF_vars(Work(p, s))
  /\ \A j \in Job : WF_vars(Post(j)) /\ (Parent[j] # None => WF_vars(LookUp(j)))

FairSpec == Spec /\ Fairness

-----------------------------------------------------------------------------
\* Types, and the bounds of a queue: never longer than max_queue_len_, its byte
\* count exact and within max_queue_bytes_, so that the subtraction in post and
\* the one in the worker cannot wrap.
TypeOK ==
  /\ entry \in Pool \cup {None}
  /\ phase \in [Pool -> {"unborn", "open", "due", "stopping", "joining", "stopped"}]
  /\ drain \subseteq Pool /\ started \subseteq Pool /\ locked \subseteq Pool
  /\ \A p \in Pool : signal[p] \subseteq Shard /\ running[p] \subseteq Shard
  /\ worker \in [Pool -> [Shard -> Job \cup {None, "exited"}]]
  /\ status \in [Job -> {"new", "held", "queued", "running", "done", "dropped", "refused"}]
  /\ held \in [Job -> Pool \cup {None}]
  /\ \A p \in Pool, s \in Shard :
       /\ q[p][s] \in Seq(Job) /\ Len(q[p][s]) <= MaxLen
       /\ bytes[p][s] = SumSize(q[p][s]) /\ bytes[p][s] <= MaxBytes

\* A job whose post returned 0 is never left behind: when shutdown has returned,
\* it has run, or it was dropped by a policy that says so (DropHead, or a
\* shutdown without drain).  Racing posts, handlers that post while their pool
\* is stopped included.
NothingLost ==
  \A p \in Pool : \A j \in ToSet(accepted[p]) :
    /\ phase[p] = "stopped" => status[j] \in {"done", "dropped"}
    /\ status[j] = "dropped" => p \in DropHead \/ p \notin drain

\* Jobs with one key run in the order in which their pool accepted them, one
\* after the other: a handler never sees two jobs of a key at once, even while
\* the pool drains.
KeyOrder ==
  \A p \in Pool : \A m, n \in 1..Len(accepted[p]) :
    LET i == accepted[p][m]
        j == accepted[p][n]
    IN  m < n /\ Key[i] = Key[j] /\ status[j] \in {"running", "done"}
          => status[i] \in {"done", "dropped"}

\* shutdown returns, also when the jobs it waits for post to the pool that is
\* being shut down.
ShutdownReturns ==
  \A p \in Pool : phase[p] = "due" ~> phase[p] = "stopped"
=============================================================================
