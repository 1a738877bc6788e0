---------------------------- MODULE NackRequester ----------------------------
(***************************************************************************)
(* The receiver's list of missing RTP packets and the requests it makes    *)
(* for them, as the video receiver drives it: a pass over the list in      *)
(* every tick, and one before and one after each packet.                   *)
(*                                                                         *)
(* Sequence numbers are the residues of the packets' indices modulo        *)
(* Modulus, which stands for 2^16.  The model follows the indices too,     *)
(* counted back from the newest packet, to say which packet an entry       *)
(* really stands for.  Times are kept as ages.  Statistics and the         *)
(* rate-limited failure callback are left out.                             *)
(***************************************************************************)
EXTENDS Naturals, FiniteSets, FiniteSetsExt, Functions

CONSTANTS
  Modulus,      \* size of the sequence space
  MaxAhead,     \* bound: how far a packet is ahead of the newest one
  NackGap,      \* max_sequence_gap
  ListSize,     \* max_nack_list_size
  BatchSize,    \* max_batch_size
  ReorderWait, MaxAge, MaxRetries,
  RetryFallback, MinRetry, \* retry_interval_ms, min_retry_interval_ms
  Rtts,         \* round-trip times reported, 0 for unknown
  None

HalfSpace == Modulus \div 2
Seqs == 0..(Modulus - 1)

ASSUME NackAssumption ==
  /\ {Modulus, MaxAhead, NackGap, ListSize, BatchSize, ReorderWait, MaxAge,
      MaxRetries, RetryFallback, MinRetry} \subseteq Nat \ {0}
  /\ MaxAhead < HalfSpace /\ Rtts \subseteq Nat /\ 0 \in Rtts /\ None \notin Seqs

VARIABLES
  newest,  \* newest_seq_, None before the first packet
  missing, \* missing_packets_: by sequence number
  rtt,     \* rtt_ms_
  got,     \* history: distances back from the newest of packets that arrived
  gaveUp,  \* history: the entries the last handler gave up
  ran      \* the last step was a handler, not time

nackVars == <<newest, missing, rtt, got, gaveUp, ran>>

NackInit ==
  /\ newest = None /\ missing = <<>> /\ rtt = 0
  /\ got = {} /\ gaveUp = {} /\ ran = FALSE

-----------------------------------------------------------------------------
\* RetryIntervalMs.
RetryInterval == IF rtt = 0 THEN Max({RetryFallback, MinRetry}) ELSE Max({MinRetry, rtt})

RetryDue(e) == e.count = 0 \/ e.since >= RetryInterval
TooOld(e) == e.age >= MaxAge
TooLate(e) == ~TooOld(e) /\ RetryDue(e) /\ rtt # 0 /\ rtt >= MaxAge - e.age

\* Mutant of Exhausted: the last request gets no time to be answered.
ExhaustedAtOnce(e) == e.count >= MaxRetries

\* The last request had its full interval before the packet is given up.
Exhausted(e) == e.count >= MaxRetries /\ RetryDue(e)

\* Process: the entries that are given up, ...
GivenUp(m) == {s \in DOMAIN m : TooOld(m[s]) \/ Exhausted(m[s]) \/ TooLate(m[s])}

\* ... those that are requested, in the order of the map, ...
Batch(m) ==
  LET due == {s \in DOMAIN m \ GivenUp(m) : m[s].age >= ReorderWait /\ RetryDue(m[s])}
  IN  {s \in due : Cardinality({u \in due : u < s}) < BatchSize}

\* ... and the list after the pass.
Process(m) ==
  [s \in DOMAIN m \ GivenUp(m) |->
     IF s \in Batch(m)
     THEN [m[s] EXCEPT !.since = 0, !.count = @ + 1, !.asked = rtt]
     ELSE m[s]]

\* What a pass gives up, with the interval that applied.
Report(m) == {[entry |-> m[s], interval |-> RetryInterval] : s \in GivenUp(m)}

\* a + b in the sequence space.
Plus(a, b) == (a + b) % Modulus

IsNewer(seq, reference) ==
  seq # reference /\ Plus(seq, Modulus - reference) < HalfSpace

\* AddMissingPackets: the packets between the newest and one g ahead of it, as
\* far as the list has room; back is the distance from the new newest.
AddMissing(m, g) ==
  LET added == 1..Min({g - 1, ListSize - Min({ListSize, Cardinality(DOMAIN m)})})
      fresh == [s \in {Plus(newest, k) : k \in added} |->
                  [age |-> 0, since |-> 0, count |-> 0, asked |-> 0,
                   back |-> g - CHOOSE k \in added : Plus(newest, k) = s]]
      old == [s \in DOMAIN m |-> [m[s] EXCEPT !.back = @ + g]]
  IN  [s \in DOMAIN old \cup DOMAIN fresh |-> IF s \in DOMAIN old THEN old[s] ELSE fresh[s]]

\* Mutant of Arrive: only a packet ahead of the newest is looked up in the list.
ArriveAhead(m, seq) ==
  IF IsNewer(seq, newest) THEN Restrict(m, DOMAIN m \ {seq}) ELSE m

\* A packet that arrives is no longer missing.
Arrive(m, seq) == Restrict(m, DOMAIN m \ {seq})

\* OnReceivedPacket: the list after the packet with this sequence number, where
\* g is how far it is ahead when it is newer.
Received(m, seq) ==
  LET a == Arrive(m, seq)
      g == Plus(seq, Modulus - newest)
  IN  IF ~IsNewer(seq, newest) THEN a
      ELSE IF g > NackGap THEN <<>>
      ELSE AddMissing(a, g)

-----------------------------------------------------------------------------
\* The first packet only sets the newest sequence number.
FirstPacket(seq) ==
  /\ newest = None /\ newest' = seq
  /\ got' = {0} /\ ran' = TRUE
  /\ UNCHANGED <<missing, rtt, gaveUp>>

\* TickReceive: pending losses are dropped when a frame's deadline has passed,
\* then a pass over the list.
Start(abandon) == IF abandon THEN <<>> ELSE missing

TickReceive(abandon) ==
  \E m \in {Start(abandon)} :
    /\ missing' = Process(m)
    /\ gaveUp' = Report(m)
    /\ ran' = TRUE
    /\ UNCHANGED <<newest, rtt, got>>

\* inputRtp: the tick's pass, the packet, and another pass.
InputRtp(abandon, seq) ==
  \E m \in {Start(abandon)} : \E b \in {Process(m)} : \E c \in {Received(b, seq)} :
    /\ missing' = Process(c)
    /\ gaveUp' = Report(m) \cup Report(c)
    /\ newest' = IF IsNewer(seq, newest) THEN seq ELSE newest
    /\ ran' = TRUE /\ UNCHANGED rtt

\* A packet d ahead of the newest.  The stream does not run through half the
\* sequence space while a packet is waited for.
InputAhead(abandon, d) ==
  /\ newest # None /\ \A s \in DOMAIN missing : missing[s].back + d < HalfSpace
  /\ InputRtp(abandon, Plus(newest, d))
  /\ got' = {0} \cup ({k + d : k \in got} \cap 0..(HalfSpace - 1))

\* A packet that is late, retransmitted or duplicated, d behind the newest.
InputLate(abandon, d) ==
  /\ newest # None
  /\ InputRtp(abandon, Plus(newest, Modulus - d))
  /\ got' = got \cup {d}

UpdateRtt(r) ==
  /\ newest # None /\ rtt' = r
  /\ gaveUp' = {} /\ UNCHANGED <<newest, missing, got, ran>>

\* Time passes.  Ages are followed up to MaxAge, past which nothing changes.
Wait ==
  /\ newest # None
  /\ missing' = [s \in DOMAIN missing |->
                   [missing[s] EXCEPT !.age = Min({@ + 1, MaxAge}),
                                      !.since = Min({@ + 1, MaxAge})]]
  /\ gaveUp' = {} /\ ran' = FALSE
  /\ UNCHANGED <<newest, rtt, got>>

NackNext ==
  \/ \E seq \in Seqs : FirstPacket(seq)
  \/ \E abandon \in BOOLEAN :
       \/ newest # None /\ TickReceive(abandon)
       \/ \E d \in 1..MaxAhead : InputAhead(abandon, d)
       \/ \E d \in 0..(HalfSpace - 1) : InputLate(abandon, d)
  \/ \E r \in Rtts : UpdateRtt(r)
  \/ Wait

NackSpec == NackInit /\ [][NackNext]_nackVars

-----------------------------------------------------------------------------
\* Only packets that never arrived are on the list, and so are requested: each
\* entry's sequence number is that of a packet between the first and the newest
\* that has not been received, across the wrap and after late, retransmitted and
\* duplicated packets and sequence jumps.
OnlyMissing ==
  /\ Cardinality(DOMAIN missing) <= ListSize
  /\ \A s \in DOMAIN missing :
       LET back == missing[s].back
       IN  s = Plus(newest, Modulus - back) /\ back \in 1..(HalfSpace - 1) /\ back \notin got

\* A request is given time to be answered: a packet that was requested is given
\* up only after the round-trip time known when it was last requested, or the
\* retry interval that applies now.  And no pass leaves a packet on the list that
\* is too old or was requested too often, however full the batch was.
AnswerAwaited ==
  /\ \A g \in gaveUp : g.entry.count > 0 /\ g.entry.asked # 0
       => g.entry.since >= g.entry.asked \/ g.entry.since >= g.interval
  /\ ran => \A s \in DOMAIN missing :
               missing[s].age < MaxAge /\ missing[s].count <= MaxRetries
=============================================================================
