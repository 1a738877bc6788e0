------------------------ MODULE BoundedChannelProofs ------------------------
(* Proofs, for every number of channels, messages and every limit, that a   *)
(* channel is pumped by exactly one holder of the duty, that no wakeup is   *)
(* lost, that the accounts of messages and bytes and the shared budget are  *)
(* exact, that a gated channel keeps notifications behind the opener, and   *)
(* that messages are consumed once at most and in order.                    *)
EXTENDS BoundedChannel, FiniteSetTheorems, WellFoundedInduction, TLAPS

(* One channel: the three properties, and what they rest on: the frame of a *)
(* running Pump is coherent and an open channel with queued items is        *)
(* scheduled.                                                               *)
DutyOf(c) ==
    /\ \A m, n \in pending[c] : m = n
    /\ Duties(c) <= 1
    /\ c \notin scheduled => Duties(c) = 0
    /\ c \in scheduled /\ status[c] = "Accepted" => Duties(c) = 1
    /\ status[c] = "Accepted" /\ queue[c] # <<>> => c \in scheduled

AccountOf(c) ==
    /\ messages[c] = Waiting(c) + InPump(c) + InFlight(c)
    /\ messages[c] <= MaxMessages

FrameOf(c) ==
    /\ At(c, "sync") => item[c] \in Message /\ batch[c] < BatchLimit
    /\ at[c] \in {"async", "throwing"} =>
          item[c] \in Message /\ item[c] \in pending[c] \cup completed[c]

ChanInv(c) == DutyOf(c) /\ AccountOf(c) /\ FrameOf(c)

IndInv == TypeOK /\ \A c \in Channel : ChanInv(c)

(* The part of the state ChanInv(c) speaks of. *)
Local(c) == <<status[c], queue[c], deferred[c], messages[c], c \in scheduled,
              posting[c], posted[c], at[c], item[c], batch[c], pending[c], completed[c]>>

(* The inductive invariant holds initially: nothing is queued or scheduled. *)
LEMMA InitInv == Init => IndInv
  <1> SUFFICES ASSUME Init PROVE IndInv
    OBVIOUS
  <1>1. TypeOK
    BY ChannelAssumption DEF Init, TypeOK, Statuses, PumpAt
  <1>2. \A c \in Channel : ChanInv(c)
    BY ChannelAssumption DEF Init, ChanInv, DutyOf, AccountOf, FrameOf,
       Duties, Waiting, InLoop, InFlight, InPump, At
  <1> QED
    BY <1>1, <1>2 DEF IndInv

(* The inductive invariant gives the three properties the runs check. *)
LEMMA InvGivesProperties == IndInv => OneDuty /\ NoLostWakeup /\ MessageAccount
  BY DEF IndInv, ChanInv, DutyOf, AccountOf, OneDuty, NoLostWakeup, MessageAccount

(* A step that leaves the state of a channel alone keeps its invariant. *)
LEMMA Untouched ==
  ASSUME NEW c \in Channel, ChanInv(c), Local(c)' = Local(c)
  PROVE  ChanInv(c)'
  BY DEF ChanInv, DutyOf, AccountOf, FrameOf, Local, Duties, Waiting, InLoop, InFlight, InPump, At

(* The types of one channel's state, as the step lemmas use them. *)
LEMMA ChannelTypes ==
  ASSUME TypeOK, NEW c \in Channel
  PROVE  /\ queue[c] \in Seq(Message) /\ deferred[c] \in Seq(Message)
         /\ Waiting(c) \in Nat
         /\ messages[c] \in Int /\ posting[c] \in Nat /\ posted[c] \in Nat
         /\ at[c] \in PumpAt /\ item[c] \in Message \cup {Nil}
         /\ batch[c] \in 0..BatchLimit
         /\ InPump(c) \in Nat /\ InFlight(c) \in Nat /\ InLoop(c) \in Nat
  <1>1. queue[c] \in Seq(Message) /\ deferred[c] \in Seq(Message)
    BY DEF TypeOK
  <1> QED BY <1>1 DEF TypeOK, Waiting, InPump, InFlight, InLoop

-----------------------------------------------------------------------------
(* What the operators the actions are built from do to one channel, and     *)
(* that they leave the other channels alone.                                *)

(* Enqueue files exactly one more item, in the queue or behind the gate. *)
LEMMA EnqueueEffect ==
  ASSUME queue \in [Channel -> Seq(Message)], deferred \in [Channel -> Seq(Message)],
         ready \in SUBSET Channel,
         NEW c \in Channel, NEW m \in Message, Enqueue(c, m)
  PROVE  /\ queue' \in [Channel -> Seq(Message)] /\ deferred' \in [Channel -> Seq(Message)]
         /\ ready' \in SUBSET Channel
         /\ Waiting(c)' = Waiting(c) + 1
         /\ \A d \in Channel \ {c} : queue'[d] = queue[d] /\ deferred'[d] = deferred[d]
  <1> DEFINE q == queue[c]
             p == deferred[c]
  <1>1. q \in Seq(Message) /\ p \in Seq(Message)
    OBVIOUS
  <1>2. CASE Park(c, m) /\ deferred' = [deferred EXCEPT ![c] = Append(@, m)] /\ UNCHANGED <<queue, ready>>
    <2>1. Append(p, m) \in Seq(Message) /\ Len(Append(p, m)) = Len(p) + 1
      BY <1>1
    <2> QED BY <1>2, <1>1, <2>1 DEF Waiting
  <1>3. CASE /\ queue' = [queue EXCEPT ![c] = Append(@, m) \o deferred[c]]
             /\ deferred' = [deferred EXCEPT ![c] = <<>>]
             /\ ready' = ready \cup {c}
    <2>1. /\ Append(q, m) \o p \in Seq(Message)
          /\ Len(Append(q, m) \o p) = Len(q) + Len(p) + 1
      BY <1>1
    <2>2. <<>> \in Seq(Message) /\ Len(<<>>) = 0
      OBVIOUS
    <2>3. queue'[c] = Append(q, m) \o p /\ deferred'[c] = <<>>
      BY <1>3
    <2> HIDE DEF q, p
    <2> QED BY <1>3, <1>1, <2>1, <2>2, <2>3 DEF q, p, Waiting
  <1>4. CASE queue' = [queue EXCEPT ![c] = Append(@, m)] /\ UNCHANGED <<deferred, ready>>
    <2>1. Append(q, m) \in Seq(Message) /\ Len(Append(q, m)) = Len(q) + 1
      BY <1>1
    <2> QED BY <1>4, <1>1, <2>1 DEF Waiting
  <1> QED BY <1>2, <1>3, <1>4 DEF Enqueue, Opened, Waiting

(* TakeDuty posts exactly when nobody holds the duty and there is work. *)
LEMMA TakeDutyEffect ==
  ASSUME scheduled \in SUBSET Channel, posting \in [Channel -> Nat],
         NEW c \in Channel, TakeDuty(c)
  PROVE  /\ scheduled' \in SUBSET Channel /\ posting' \in [Channel -> Nat]
         /\ \A d \in Channel \ {c} : (d \in scheduled' <=> d \in scheduled) /\ posting'[d] = posting[d]
         /\ queue'[c] # <<>> => c \in scheduled'
         /\ posting'[c] = posting[c] + (IF c \in scheduled' /\ c \notin scheduled THEN 1 ELSE 0)
         /\ c \in scheduled => c \in scheduled'
  BY DEF TakeDuty

(* Stop either finds the channel stopped and does nothing, or empties it and *)
(* takes what it dropped off the message account.                           *)
LEMMA StopEffect ==
  ASSUME status \in [Channel -> Statuses],
         queue \in [Channel -> Seq(Message)], deferred \in [Channel -> Seq(Message)],
         messages \in [Channel -> Int], budgetMessages \in Int,
         NEW c \in Channel, NEW s \in {"Closed", "Cancelled"}, Stop(c, s)
  PROVE  /\ status' \in [Channel -> Statuses]
         /\ queue' \in [Channel -> Seq(Message)] /\ deferred' \in [Channel -> Seq(Message)]
         /\ messages' \in [Channel -> Int] /\ budgetMessages' \in Int
         /\ status'[c] # "Accepted"
         /\ messages'[c] - Waiting(c)' = messages[c] - Waiting(c) /\ Waiting(c)' \in Nat
         /\ messages'[c] <= messages[c]
         /\ \A d \in Channel \ {c} : /\ status'[d] = status[d] /\ queue'[d] = queue[d]
                                     /\ deferred'[d] = deferred[d] /\ messages'[d] = messages[d]
  <1> DEFINE n == Len(queue[c]) + Len(deferred[c])
  <1>1. queue[c] \in Seq(Message) /\ deferred[c] \in Seq(Message)
    OBVIOUS
  <1>2. Len(queue[c]) \in Nat /\ Len(deferred[c]) \in Nat /\ n \in Nat
    BY <1>1
  <1>3. <<>> \in Seq(Message) /\ Len(<<>>) = 0
    OBVIOUS
  <1>4. CASE status[c] # "Accepted" /\ UNCHANGED <<status, queue, deferred, account>>
    BY <1>2, <1>4 DEF account, Waiting
  <1>5. CASE /\ status' = [status EXCEPT ![c] = s]
             /\ messages' = [messages EXCEPT ![c] = @ - n]
             /\ budgetMessages' = budgetMessages - n
             /\ queue' = [queue EXCEPT ![c] = <<>>]
             /\ deferred' = [deferred EXCEPT ![c] = <<>>]
    <2>1. /\ messages'[c] = messages[c] - n /\ queue'[c] = <<>> /\ deferred'[c] = <<>>
          /\ status'[c] = s
      BY <1>5
    <2>2. /\ status' \in [Channel -> Statuses]
          /\ queue' \in [Channel -> Seq(Message)] /\ deferred' \in [Channel -> Seq(Message)]
      BY <1>3, <1>5 DEF Statuses
    <2>3. messages' \in [Channel -> Int] /\ budgetMessages' \in Int
      BY <1>2, <1>5
    <2>4. messages[c] \in Int
      OBVIOUS
    <2>5. \A d \in Channel \ {c} : /\ status'[d] = status[d] /\ queue'[d] = queue[d]
                                  /\ deferred'[d] = deferred[d] /\ messages'[d] = messages[d]
      BY <1>5
    <2> QED BY <1>2, <1>3, <2>1, <2>2, <2>3, <2>4, <2>5 DEF Waiting
  <1> QED BY <1>4, <1>5 DEF Stop, ReturnUnconsumed, Release

-----------------------------------------------------------------------------
(* One lemma per action (actions of the same shape share one): types, the   *)
(* other channels, then the duty, the account and the frame of the channel. *)

(* A Send that is accepted keeps the invariant: it posts a Pump exactly when *)
(* nobody holds the duty.                                                   *)
LEMMA SendKeeps ==
  ASSUME IndInv, NEW c \in Channel, NEW m \in Message, SendAccepted(c, m)
  PROVE  IndInv'
  <1>0. TypeOK /\ ChanInv(c)
    BY DEF IndInv
  <1>t. /\ Waiting(c) \in Nat /\ messages[c] \in Int
        /\ posting[c] \in Nat /\ posted[c] \in Nat /\ InPump(c) \in Nat /\ InFlight(c) \in Nat /\ InLoop(c) \in Nat
    BY <1>0, ChannelTypes
  <1>a. /\ queue' \in [Channel -> Seq(Message)] /\ deferred' \in [Channel -> Seq(Message)]
        /\ ready' \in SUBSET Channel
        /\ Waiting(c)' = Waiting(c) + 1
        /\ \A d \in Channel \ {c} : queue'[d] = queue[d] /\ deferred'[d] = deferred[d]
    BY <1>0, EnqueueEffect DEF TypeOK, SendAccepted
  <1>b. /\ scheduled' \in SUBSET Channel /\ posting' \in [Channel -> Nat]
        /\ \A d \in Channel \ {c} : (d \in scheduled' <=> d \in scheduled) /\ posting'[d] = posting[d]
        /\ queue'[c] # <<>> => c \in scheduled'
        /\ posting'[c] = posting[c] + (IF c \in scheduled' /\ c \notin scheduled THEN 1 ELSE 0)
        /\ c \in scheduled => c \in scheduled'
    BY <1>0, TakeDutyEffect DEF TypeOK, SendAccepted
  <1>c. /\ messages' \in [Channel -> Int] /\ budgetMessages' \in Int
        /\ messages'[c] = messages[c] + 1 /\ messages[c] < MaxMessages
        /\ \A d \in Channel \ {c} : messages'[d] = messages[d]
    BY <1>0 DEF TypeOK, SendAccepted, HasRoom, Charge
  <1>d. /\ status' = status /\ posted' = posted /\ at' = at /\ item' = item /\ batch' = batch
        /\ pending' = pending /\ completed' = completed /\ consumed' = consumed
        /\ status[c] = "Accepted"
    BY DEF SendAccepted, frame
  <1>1. TypeOK'
    <2>1. sent' \in SUBSET Message
      BY <1>0 DEF TypeOK, SendAccepted
    <2> QED BY <1>0, <1>a, <1>b, <1>c, <1>d, <2>1 DEF TypeOK
  <1>2. ASSUME NEW d \in Channel, d # c PROVE ChanInv(d)'
    <2>1. Local(d)' = Local(d)
      BY <1>2, <1>a, <1>b, <1>c, <1>d DEF Local
    <2> QED BY <1>2, <2>1, Untouched DEF IndInv
  <1>3. DutyOf(c)'
    <2>0. InLoop(c)' = InLoop(c) /\ InFlight(c)' = InFlight(c) /\ posting'[c] \in Nat /\ posted'[c] = posted[c]
      BY <1>b, <1>d DEF InLoop, InFlight
    <2>1. Duties(c)' = Duties(c) + (posting'[c] - posting[c]) /\ Duties(c) \in Nat
      BY <1>t, <2>0 DEF Duties
    <2> QED BY <1>0, <1>b, <1>d, <1>t, <2>1 DEF ChanInv, DutyOf
  <1>4. AccountOf(c)'
    <2>1. InPump(c)' = InPump(c) /\ InFlight(c)' = InFlight(c)
      BY <1>d DEF InPump, InFlight, At
    <2>2. messages'[c] = Waiting(c)' + InPump(c) + InFlight(c)
      BY <1>0, <1>a, <1>c, <1>t DEF ChanInv, AccountOf
    <2> QED BY <1>c, <1>t, <2>1, <2>2, ChannelAssumption DEF AccountOf
  <1>5. FrameOf(c)'
    BY <1>0, <1>d DEF ChanInv, FrameOf, At
  <1> QED BY <1>1, <1>2, <1>3, <1>4, <1>5 DEF IndInv, ChanInv

(* Close, Cancel and a refused post: the channel ends up stopped, and a duty *)
(* that was only a pending post may be given up with it.                    *)
LEMMA StopKeeps ==
  ASSUME IndInv, NEW c \in Channel, Close(c) \/ Cancel(c) \/ PostFail(c)
  PROVE  IndInv'
  <1>0. TypeOK /\ ChanInv(c)
    BY DEF IndInv
  <1>t. /\ Waiting(c) \in Nat /\ messages[c] \in Int
        /\ posting[c] \in Nat /\ posted[c] \in Nat /\ InPump(c) \in Nat /\ InFlight(c) \in Nat /\ InLoop(c) \in Nat
    BY <1>0, ChannelTypes
  <1>s. PICK s \in {"Closed", "Cancelled"} : Stop(c, s)
    BY DEF Close, Cancel, PostFail
  <1>a. /\ status' \in [Channel -> Statuses]
        /\ queue' \in [Channel -> Seq(Message)] /\ deferred' \in [Channel -> Seq(Message)]
        /\ messages' \in [Channel -> Int] /\ budgetMessages' \in Int
        /\ status'[c] # "Accepted"
        /\ messages'[c] - Waiting(c)' = messages[c] - Waiting(c) /\ Waiting(c)' \in Nat
        /\ messages'[c] <= messages[c]
        /\ \A d \in Channel \ {c} : /\ status'[d] = status[d] /\ queue'[d] = queue[d]
                                    /\ deferred'[d] = deferred[d] /\ messages'[d] = messages[d]
    BY <1>0, <1>s, StopEffect DEF TypeOK
  <1>b. /\ scheduled' = scheduled /\ posted' = posted /\ at' = at /\ item' = item /\ batch' = batch
        /\ pending' = pending /\ completed' = completed /\ consumed' = consumed
        /\ ready' = ready /\ sent' = sent
    BY DEF Close, Cancel, PostFail, gate, flow, frame
  <1>c. /\ posting' \in [Channel -> Nat] /\ posting'[c] <= posting[c]
        /\ \A d \in Channel \ {c} : posting'[d] = posting[d]
    <2>1. posting \in [Channel -> Nat]
      BY <1>0 DEF TypeOK
    <2>2. \/ posting' = posting
          \/ posting[c] > 0 /\ posting' = [posting EXCEPT ![c] = @ - 1]
      BY DEF Close, Cancel, PostFail, flow
    <2> QED BY <2>1, <2>2
  <1>1. TypeOK'
    BY <1>0, <1>a, <1>b, <1>c DEF TypeOK
  <1>2. ASSUME NEW d \in Channel, d # c PROVE ChanInv(d)'
    <2>1. Local(d)' = Local(d)
      BY <1>2, <1>a, <1>b, <1>c DEF Local
    <2> QED BY <1>2, <2>1, Untouched DEF IndInv
  <1>3. DutyOf(c)'
    <2>0. InLoop(c)' = InLoop(c) /\ InFlight(c)' = InFlight(c) /\ posting'[c] \in Nat /\ posted'[c] = posted[c]
      BY <1>b, <1>c DEF InLoop, InFlight
    <2>1. Duties(c)' = Duties(c) + (posting'[c] - posting[c]) /\ Duties(c) \in Nat /\ Duties(c)' \in Nat
      BY <1>t, <2>0 DEF Duties
    <2>2. Duties(c)' <= Duties(c)
      BY <1>c, <1>t, <2>0, <2>1
    <2>3. status'[c] # "Accepted" /\ scheduled' = scheduled /\ pending' = pending
      BY <1>a, <1>b
    <2> QED BY <1>0, <2>1, <2>2, <2>3 DEF ChanInv, DutyOf
  <1>4. AccountOf(c)'
    <2>1. InPump(c)' = InPump(c) /\ InFlight(c)' = InFlight(c)
      BY <1>b DEF InPump, InFlight, At
    <2>2. /\ Waiting(c)' \in Nat /\ messages'[c] \in Int /\ messages'[c] <= messages[c]
          /\ messages'[c] - Waiting(c)' = messages[c] - Waiting(c)
      BY <1>a
    <2>x. messages[c] = Waiting(c) + InPump(c) + InFlight(c) /\ messages[c] <= MaxMessages
      BY <1>0 DEF ChanInv, AccountOf
    <2>3. messages'[c] = Waiting(c)' + InPump(c) + InFlight(c)
      BY <1>t, <2>2, <2>x
    <2> QED BY <1>t, <2>1, <2>2, <2>x, <2>3, ChannelAssumption DEF AccountOf
  <1>5. FrameOf(c)'
    BY <1>0, <1>b DEF ChanInv, FrameOf, At
  <1> QED BY <1>1, <1>2, <1>3, <1>4, <1>5 DEF IndInv, ChanInv

(* The actions that only pass the duty on, or give it back: nothing enters   *)
(* or leaves the channel.                                                   *)
LEMMA HandoverKeeps ==
  ASSUME IndInv, NEW c \in Channel,
         \/ ResetGate(c) \/ PostOk(c) \/ PumpStart(c)
         \/ PumpRest(c) \/ PumpYield(c) \/ AsyncReturn(c)
  PROVE  IndInv'
  <1>0. TypeOK /\ ChanInv(c)
    BY DEF IndInv
  <1>t. /\ Waiting(c) \in Nat /\ messages[c] \in Int
        /\ posting[c] \in Nat /\ posted[c] \in Nat /\ InPump(c) \in Nat /\ InFlight(c) \in Nat /\ InLoop(c) \in Nat
    BY <1>0, ChannelTypes
  <1>a. /\ status' = status /\ queue' = queue /\ deferred' = deferred /\ messages' = messages
        /\ budgetMessages' = budgetMessages /\ pending' = pending /\ completed' = completed
        /\ sent' = sent /\ consumed' = consumed
    BY DEF ResetGate, PostOk, PumpStart, PumpRest, PumpYield, AsyncReturn, account, gate, flow
  <1>b. /\ at' \in [Channel -> PumpAt] /\ item' \in [Channel -> Message \cup {Nil}]
        /\ batch' \in [Channel -> 0..BatchLimit]
        /\ \A d \in Channel \ {c} : at'[d] = at[d] /\ item'[d] = item[d] /\ batch'[d] = batch[d]
    <2>1. at \in [Channel -> PumpAt] /\ item \in [Channel -> Message \cup {Nil}]
          /\ batch \in [Channel -> 0..BatchLimit]
      BY <1>0 DEF TypeOK
    <2>2. \/ at' = at /\ item' = item /\ batch' = batch
          \/ at' = [at EXCEPT ![c] = "loop"] /\ item' = item /\ batch' = batch
          \/ Return(c)
      BY DEF ResetGate, PostOk, PumpStart, PumpRest, PumpYield, AsyncReturn, flow, frame
    <2> QED BY <2>1, <2>2, ChannelAssumption DEF Return, PumpAt
  <1>c. /\ posting' \in [Channel -> Nat] /\ posted' \in [Channel -> Nat]
        /\ \A d \in Channel \ {c} : posting'[d] = posting[d] /\ posted'[d] = posted[d]
    <2>1. posting \in [Channel -> Nat] /\ posted \in [Channel -> Nat]
      BY <1>0 DEF TypeOK
    <2>2. CASE ResetGate(c) \/ PumpRest(c) \/ AsyncReturn(c)
      BY <2>1, <2>2 DEF ResetGate, PumpRest, AsyncReturn, flow
    <2>3. CASE PostOk(c)
      BY <2>1, <2>3 DEF PostOk
    <2>4. CASE PumpStart(c)
      BY <2>1, <2>4 DEF PumpStart
    <2>5. CASE PumpYield(c)
      BY <2>1, <2>5 DEF PumpYield
    <2> QED BY <2>2, <2>3, <2>4, <2>5
  <1>d. /\ scheduled' \in SUBSET Channel /\ ready' \in SUBSET Channel
        /\ \A d \in Channel \ {c} : d \in scheduled' <=> d \in scheduled
    <2>1. scheduled \in SUBSET Channel /\ ready \in SUBSET Channel
      BY <1>0 DEF TypeOK
    <2>2. \/ scheduled' = scheduled \/ scheduled' = scheduled \ {c}
      BY DEF ResetGate, PostOk, PumpStart, PumpRest, PumpYield, AsyncReturn
    <2>3. \/ ready' = ready \/ ready' = ready \ {c}
      BY DEF ResetGate, PostOk, PumpStart, PumpRest, PumpYield, AsyncReturn, gate
    <2> QED BY <2>1, <2>2, <2>3
  <1>1. TypeOK'
    BY <1>0, <1>a, <1>b, <1>c, <1>d DEF TypeOK
  <1>2. ASSUME NEW d \in Channel, d # c PROVE ChanInv(d)'
    <2>1. Local(d)' = Local(d)
      BY <1>2, <1>a, <1>b, <1>c, <1>d DEF Local
    <2> QED BY <1>2, <2>1, Untouched DEF IndInv
  <1>3. InPump(c)' = InPump(c) /\ FrameOf(c)'
    <2>1. c \in DOMAIN at /\ c \in DOMAIN item /\ c \in DOMAIN batch
      BY <1>0 DEF TypeOK
    <2>2. FrameOf(c)
      BY <1>0 DEF ChanInv
    <2>3. CASE at' = at /\ item' = item /\ batch' = batch
      BY <1>a, <2>2, <2>3 DEF FrameOf, At, InPump
    <2>4. CASE at[c] # "sync" /\ (at'[c] = "loop" \/ at'[c] = "idle")
      BY <2>4 DEF FrameOf, At, InPump
    <2>5. \/ at' = at /\ item' = item /\ batch' = batch
          \/ at[c] # "sync" /\ (at'[c] = "loop" \/ at'[c] = "idle")
      BY <2>1 DEF ResetGate, PostOk, PumpStart, PumpRest, PumpYield, AsyncReturn, Return, flow, frame, At
    <2> QED BY <2>3, <2>4, <2>5
  <1>4. AccountOf(c)'
    BY <1>0, <1>a, <1>3 DEF ChanInv, AccountOf, Waiting, InFlight
  <1>5. DutyOf(c)'
    <2>0. DutyOf(c) /\ InFlight(c)' = InFlight(c) /\ Duties(c) \in Nat
      BY <1>0, <1>a, <1>t DEF ChanInv, InFlight, Duties
    <2>1. CASE ResetGate(c)
      <3>1. scheduled' = scheduled /\ Duties(c)' = Duties(c)
        BY <2>1 DEF ResetGate, flow, frame, Duties, InLoop, InFlight
      <3> QED BY <1>a, <2>0, <3>1 DEF DutyOf
    <2>2. CASE PostOk(c)
      <3>1. /\ posting'[c] = posting[c] - 1 /\ posted'[c] = posted[c] + 1 /\ InLoop(c)' = InLoop(c)
            /\ scheduled' = scheduled
        BY <1>0, <2>2 DEF PostOk, TypeOK, InLoop, frame
      <3>2. Duties(c)' = Duties(c)
        BY <1>t, <2>0, <3>1 DEF Duties
      <3> QED BY <1>a, <2>0, <3>1, <3>2 DEF DutyOf
    <2>3. CASE PumpStart(c)
      <3>1. /\ posting'[c] = posting[c] /\ posted'[c] = posted[c] - 1
            /\ InLoop(c) = 0 /\ InLoop(c)' = 1 /\ scheduled' = scheduled
        BY <1>0, <2>3 DEF PumpStart, TypeOK, InLoop, At
      <3>2. Duties(c)' = Duties(c)
        BY <1>t, <2>0, <3>1 DEF Duties
      <3> QED BY <1>a, <2>0, <3>1, <3>2 DEF DutyOf
    <2>4. CASE PumpRest(c)
      <3>1. /\ posting'[c] = posting[c] /\ posted'[c] = posted[c]
            /\ InLoop(c) = 1 /\ InLoop(c)' = 0 /\ scheduled' = scheduled \ {c}
        BY <1>0, <2>4 DEF PumpRest, Return, TypeOK, InLoop, At
      <3>2. Duties(c)' = 0
        BY <1>t, <2>0, <3>1 DEF Duties, DutyOf
      <3>3. status'[c] # "Accepted" \/ queue'[c] = <<>>
        BY <1>a, <2>4 DEF PumpRest
      <3> QED BY <1>a, <2>0, <3>1, <3>2, <3>3 DEF DutyOf
    <2>5. CASE PumpYield(c)
      <3>1. /\ posting'[c] = posting[c] + 1 /\ posted'[c] = posted[c]
            /\ InLoop(c) = 1 /\ InLoop(c)' = 0 /\ scheduled' = scheduled
        BY <1>0, <2>5 DEF PumpYield, Return, TypeOK, InLoop, At
      <3>2. Duties(c)' = Duties(c)
        BY <1>t, <2>0, <3>1 DEF Duties
      <3> QED BY <1>a, <2>0, <3>1, <3>2 DEF DutyOf
    <2>6. CASE AsyncReturn(c)
      <3>1. /\ posting'[c] = posting[c] /\ posted'[c] = posted[c]
            /\ InLoop(c) = 0 /\ InLoop(c)' = 0 /\ scheduled' = scheduled
        BY <1>0, <2>6 DEF AsyncReturn, Return, TypeOK, InLoop, At
      <3>2. Duties(c)' = Duties(c)
        BY <1>t, <2>0, <3>1 DEF Duties
      <3> QED BY <1>a, <2>0, <3>1, <3>2 DEF DutyOf
    <2> QED BY <2>1, <2>2, <2>3, <2>4, <2>5, <2>6
  <1> QED BY <1>1, <1>2, <1>3, <1>4, <1>5 DEF IndInv, ChanInv

(* Taking an item moves it from the queue to the callback: the account keeps *)
(* it, and an async item takes the duty over from the loop.                 *)
LEMMA TakeKeeps ==
  ASSUME IndInv, NEW c \in Channel, PumpTake(c)
  PROVE  IndInv'
  <1>0. TypeOK /\ ChanInv(c)
    BY DEF IndInv
  <1>t. /\ Waiting(c) \in Nat /\ messages[c] \in Int
        /\ posting[c] \in Nat /\ posted[c] \in Nat /\ InPump(c) \in Nat /\ InFlight(c) \in Nat /\ InLoop(c) \in Nat
    BY <1>0, ChannelTypes
  <1> DEFINE m == Head(queue[c])
  <1>m. /\ m \in Message /\ Tail(queue[c]) \in Seq(Message)
        /\ Len(Tail(queue[c])) = Len(queue[c]) - 1
        /\ Len(queue[c]) \in Nat /\ Len(deferred[c]) \in Nat
    <2>1. queue[c] \in Seq(Message) /\ deferred[c] \in Seq(Message) /\ queue[c] # <<>>
      BY <1>0 DEF TypeOK, PumpTake
    <2> QED BY <2>1
  <1> HIDE DEF m
  <1>a. /\ queue' = [queue EXCEPT ![c] = Tail(@)] /\ consumed' = [consumed EXCEPT ![c] = Append(@, m)]
        /\ item' = [item EXCEPT ![c] = m] /\ batch' = batch
        /\ at[c] = "loop" /\ batch[c] < BatchLimit /\ status[c] = "Accepted"
        /\ status' = status /\ deferred' = deferred /\ messages' = messages
        /\ budgetMessages' = budgetMessages /\ ready' = ready /\ sent' = sent
        /\ scheduled' = scheduled /\ posting' = posting /\ posted' = posted /\ completed' = completed
    BY DEF PumpTake, m, At, account, gate
  <1>b. \/ /\ at' = [at EXCEPT ![c] = "async"]
           /\ pending' = [pending EXCEPT ![c] = @ \cup {m}]
        \/ /\ at' = [at EXCEPT ![c] = "sync"]
           /\ pending' = pending
    BY DEF PumpTake, m
  <1>w. Waiting(c)' = Waiting(c) - 1
    <2>1. queue'[c] = Tail(queue[c]) /\ deferred'[c] = deferred[c]
      BY <1>0, <1>a DEF TypeOK
    <2>2. Len(queue'[c]) = Len(queue[c]) - 1 /\ Len(deferred'[c]) = Len(deferred[c])
      BY <1>m, <2>1
    <2>3. Waiting(c)' = Len(queue'[c]) + Len(deferred'[c]) /\ Waiting(c) = Len(queue[c]) + Len(deferred[c])
      BY DEF Waiting
    <2> QED BY <1>m, <2>2, <2>3
  <1>1. TypeOK'
    <2>1. at' \in [Channel -> PumpAt] /\ pending' \in [Channel -> SUBSET Message]
      <3>1. at \in [Channel -> PumpAt] /\ pending \in [Channel -> SUBSET Message]
        BY <1>0 DEF TypeOK
      <3> QED BY <1>b, <1>m, <3>1 DEF PumpAt
    <2>2. queue' \in [Channel -> Seq(Message)]
      BY <1>0, <1>a, <1>m DEF TypeOK
    <2>3. consumed' \in [Channel -> Seq(Message)]
      <3>1. consumed \in [Channel -> Seq(Message)] /\ consumed[c] \in Seq(Message)
        BY <1>0 DEF TypeOK
      <3>2. Append(consumed[c], m) \in Seq(Message)
        BY <3>1, <1>m
      <3> QED BY <1>a, <3>1, <3>2
    <2>4. item' \in [Channel -> Message \cup {Nil}]
      BY <1>0, <1>a, <1>m DEF TypeOK
    <2> QED BY <1>0, <1>a, <2>1, <2>2, <2>3, <2>4 DEF TypeOK
  <1>2. ASSUME NEW d \in Channel, d # c PROVE ChanInv(d)'
    <2>1. queue'[d] = queue[d] /\ item'[d] = item[d] /\ at'[d] = at[d] /\ pending'[d] = pending[d]
      BY <1>0, <1>2, <1>a, <1>b DEF TypeOK
    <2>2. Local(d)' = Local(d)
      BY <1>a, <2>1 DEF Local
    <2> QED BY <1>2, <2>2, Untouched DEF IndInv
  <1>f. /\ DutyOf(c) /\ AccountOf(c) /\ Duties(c) \in Nat
        /\ InLoop(c) = 1 /\ InPump(c) = 0
    BY <1>0, <1>a, <1>t DEF ChanInv, Duties, InLoop, InPump, At
  <1>g. InFlight(c) = 0 /\ pending[c] = {}
    <2>1. InFlight(c) = 0
      BY <1>f, <1>t DEF DutyOf, Duties
    <2> QED BY <2>1 DEF InFlight
  <1>q. c \in scheduled
    BY <1>f, <1>t DEF DutyOf, Duties
  <1>3. CASE at' = [at EXCEPT ![c] = "async"] /\ pending' = [pending EXCEPT ![c] = @ \cup {m}]
    <2>1. /\ at'[c] = "async" /\ pending'[c] = {m} /\ item'[c] = m
      BY <1>0, <1>3, <1>a, <1>g DEF TypeOK
    <2>2. InLoop(c)' = 0 /\ InPump(c)' = 0 /\ InFlight(c)' = 1
      BY <2>1 DEF InLoop, InPump, InFlight, At
    <2>3. Duties(c)' = Duties(c)
      BY <1>a, <1>f, <1>g, <1>t, <2>2 DEF Duties
    <2>4. DutyOf(c)'
      BY <1>a, <1>f, <1>q, <2>1, <2>3 DEF DutyOf
    <2>5. messages'[c] = Waiting(c)' + InPump(c)' + InFlight(c)' /\ messages'[c] <= MaxMessages
      <3>1. messages'[c] = messages[c]
        BY <1>a
      <3> QED BY <1>f, <1>g, <1>t, <1>w, <2>2, <3>1 DEF AccountOf
    <2>6. FrameOf(c)'
      BY <1>m, <2>1 DEF FrameOf, At
    <2>7. ChanInv(c)'
      BY <2>4, <2>5, <2>6 DEF ChanInv, AccountOf
    <2> QED BY <1>1, <1>2, <2>7 DEF IndInv
  <1>4. CASE at' = [at EXCEPT ![c] = "sync"] /\ pending' = pending
    <2>1. /\ at'[c] = "sync" /\ pending'[c] = pending[c] /\ item'[c] = m /\ batch'[c] < BatchLimit
      BY <1>0, <1>4, <1>a DEF TypeOK
    <2>2. InLoop(c)' = 1 /\ InPump(c)' = 1 /\ InFlight(c)' = 0
      BY <1>g, <2>1 DEF InLoop, InPump, InFlight, At
    <2>3. Duties(c)' = Duties(c)
      BY <1>a, <1>f, <1>g, <1>t, <2>2 DEF Duties
    <2>4. DutyOf(c)'
      BY <1>a, <1>f, <1>q, <2>1, <2>3 DEF DutyOf
    <2>5. messages'[c] = Waiting(c)' + InPump(c)' + InFlight(c)' /\ messages'[c] <= MaxMessages
      <3>1. messages'[c] = messages[c]
        BY <1>a
      <3> QED BY <1>f, <1>g, <1>t, <1>w, <2>2, <3>1 DEF AccountOf
    <2>6. FrameOf(c)'
      BY <1>m, <2>1 DEF FrameOf, At
    <2>7. ChanInv(c)'
      BY <2>4, <2>5, <2>6 DEF ChanInv, AccountOf
    <2> QED BY <1>1, <1>2, <2>7 DEF IndInv
  <1> QED BY <1>3, <1>4, <1>b

(* The end of a synchronous callback takes its item off the account. *)
LEMMA SyncDoneKeeps ==
  ASSUME IndInv, NEW c \in Channel, NEW ok \in BOOLEAN, SyncDone(c, ok)
  PROVE  IndInv'
  <1>0. TypeOK /\ ChanInv(c)
    BY DEF IndInv
  <1>t. /\ Waiting(c) \in Nat /\ messages[c] \in Int
        /\ posting[c] \in Nat /\ posted[c] \in Nat /\ InPump(c) \in Nat /\ InFlight(c) \in Nat /\ InLoop(c) \in Nat
    BY <1>0, ChannelTypes
  <1>a. /\ status' = status /\ queue' = queue /\ deferred' = deferred
        /\ ready' = ready /\ sent' = sent /\ scheduled' = scheduled
        /\ posting' = posting /\ posted' = posted /\ pending' = pending
        /\ completed' = completed /\ consumed' = consumed
    BY DEF SyncDone, gate
  <1>b. /\ messages' = [messages EXCEPT ![c] = @ - 1] /\ budgetMessages' = budgetMessages - 1
        /\ item' = [item EXCEPT ![c] = Nil] /\ batch' = [batch EXCEPT ![c] = @ + 1]
        /\ at[c] = "sync"
    BY DEF SyncDone, Release, At
  <1>c. at' = [at EXCEPT ![c] = "loop"] \/ at' = [at EXCEPT ![c] = "failed"]
    BY DEF SyncDone
  <1>1. TypeOK'
    <2>1. at' \in [Channel -> PumpAt] /\ item' \in [Channel -> Message \cup {Nil}]
      <3>1. at \in [Channel -> PumpAt] /\ item \in [Channel -> Message \cup {Nil}]
        BY <1>0 DEF TypeOK
      <3> QED BY <1>b, <1>c, <3>1 DEF PumpAt
    <2>2. batch' \in [Channel -> 0..BatchLimit]
      <3>1. batch \in [Channel -> 0..BatchLimit] /\ batch[c] < BatchLimit
        BY <1>0, <1>b DEF TypeOK, ChanInv, FrameOf, At
      <3> QED BY <1>b, <3>1, ChannelAssumption
    <2>3. messages' \in [Channel -> Int] /\ budgetMessages' \in Int
      BY <1>0, <1>b DEF TypeOK
    <2> QED BY <1>0, <1>a, <2>1, <2>2, <2>3 DEF TypeOK
  <1>2. ASSUME NEW d \in Channel, d # c PROVE ChanInv(d)'
    <2>1. messages'[d] = messages[d] /\ item'[d] = item[d] /\ at'[d] = at[d] /\ batch'[d] = batch[d]
      BY <1>0, <1>2, <1>b, <1>c DEF TypeOK
    <2>2. Local(d)' = Local(d)
      BY <1>a, <2>1 DEF Local
    <2> QED BY <1>2, <2>2, Untouched DEF IndInv
  <1>3. /\ at'[c] \in {"loop", "failed"} /\ messages'[c] = messages[c] - 1
    BY <1>0, <1>b, <1>c DEF TypeOK
  <1>4. InLoop(c) = 1 /\ InLoop(c)' = 1 /\ InPump(c) = 1 /\ InPump(c)' = 0 /\ InFlight(c)' = InFlight(c)
    BY <1>a, <1>b, <1>3 DEF InLoop, InPump, InFlight, At
  <1>5. DutyOf(c)'
    <2>1. Duties(c)' = Duties(c)
      BY <1>a, <1>4 DEF Duties
    <2> QED BY <1>0, <1>a, <2>1 DEF ChanInv, DutyOf
  <1>6. AccountOf(c)'
    <2>1. Waiting(c)' = Waiting(c)
      BY <1>a DEF Waiting
    <2>2. messages[c] = Waiting(c) + InPump(c) + InFlight(c) /\ messages[c] <= MaxMessages
      BY <1>0 DEF ChanInv, AccountOf
    <2> QED BY <1>3, <1>4, <1>t, <2>1, <2>2, ChannelAssumption DEF AccountOf
  <1>7. FrameOf(c)'
    BY <1>3 DEF FrameOf, At
  <1> QED BY <1>1, <1>2, <1>5, <1>6, <1>7 DEF IndInv, ChanInv

(* A callback that throws stops the channel; a synchronous one has already   *)
(* given back its item, an asynchronous one still holds it.                 *)
LEMMA ThrowKeeps ==
  ASSUME IndInv, NEW c \in Channel, SyncFailed(c) \/ AsyncThrow(c)
  PROVE  IndInv'
  <1>0. TypeOK /\ ChanInv(c)
    BY DEF IndInv
  <1>t. /\ Waiting(c) \in Nat /\ messages[c] \in Int
        /\ posting[c] \in Nat /\ posted[c] \in Nat /\ InPump(c) \in Nat /\ InFlight(c) \in Nat /\ InLoop(c) \in Nat
    BY <1>0, ChannelTypes
  <1>a. /\ status' \in [Channel -> Statuses]
        /\ queue' \in [Channel -> Seq(Message)] /\ deferred' \in [Channel -> Seq(Message)]
        /\ messages' \in [Channel -> Int] /\ budgetMessages' \in Int
        /\ status'[c] # "Accepted"
        /\ messages'[c] - Waiting(c)' = messages[c] - Waiting(c) /\ Waiting(c)' \in Nat
        /\ messages'[c] <= messages[c]
        /\ \A d \in Channel \ {c} : /\ status'[d] = status[d] /\ queue'[d] = queue[d]
                                    /\ deferred'[d] = deferred[d] /\ messages'[d] = messages[d]
    <2>1. Stop(c, "Cancelled")
      BY DEF SyncFailed, AsyncThrow
    <2> QED BY <1>0, <2>1, StopEffect DEF TypeOK
  <1>b. /\ scheduled' = scheduled /\ posting' = posting /\ posted' = posted
        /\ pending' = pending /\ completed' = completed /\ consumed' = consumed
        /\ ready' = ready /\ sent' = sent
    BY DEF SyncFailed, AsyncThrow, gate
  <1>c. \/ at[c] = "failed" /\ Return(c)
        \/ at[c] = "async" /\ at' = [at EXCEPT ![c] = "throwing"] /\ item' = item /\ batch' = batch
    BY DEF SyncFailed, AsyncThrow, At
  <1>d. at \in [Channel -> PumpAt] /\ item \in [Channel -> Message \cup {Nil}]
        /\ batch \in [Channel -> 0..BatchLimit]
    BY <1>0 DEF TypeOK
  <1>1. TypeOK'
    <2>1. at' \in [Channel -> PumpAt] /\ item' \in [Channel -> Message \cup {Nil}]
          /\ batch' \in [Channel -> 0..BatchLimit]
      BY <1>c, <1>d, ChannelAssumption DEF Return, PumpAt
    <2> QED BY <1>0, <1>a, <1>b, <2>1 DEF TypeOK
  <1>2. ASSUME NEW d \in Channel, d # c PROVE ChanInv(d)'
    <2>1. at'[d] = at[d] /\ item'[d] = item[d] /\ batch'[d] = batch[d]
      BY <1>2, <1>c, <1>d DEF Return
    <2>2. Local(d)' = Local(d)
      BY <1>2, <1>a, <1>b, <2>1 DEF Local
    <2> QED BY <1>2, <2>2, Untouched DEF IndInv
  <1>3. /\ InPump(c) = 0 /\ InPump(c)' = 0 /\ InFlight(c)' = InFlight(c)
        /\ InLoop(c)' = 0 /\ FrameOf(c)'
    <2>1. FrameOf(c)
      BY <1>0 DEF ChanInv
    <2>2. CASE at[c] = "failed" /\ Return(c)
      <3>1. at'[c] = "idle"
        BY <1>d, <2>2 DEF Return
      <3> QED BY <1>b, <2>2, <3>1 DEF InPump, InFlight, InLoop, FrameOf, At
    <2>3. CASE at[c] = "async" /\ at' = [at EXCEPT ![c] = "throwing"] /\ item' = item
      <3>1. at'[c] = "throwing"
        BY <1>d, <2>3
      <3> QED BY <1>b, <2>1, <2>3, <3>1 DEF InPump, InFlight, InLoop, FrameOf, At
    <2> QED BY <1>c, <2>2, <2>3
  <1>4. DutyOf(c)'
    <2>1. Duties(c)' <= Duties(c) /\ Duties(c)' \in Nat /\ Duties(c) \in Nat
      BY <1>b, <1>t, <1>3 DEF Duties
    <2>2. status'[c] # "Accepted"
      BY <1>a
    <2> QED BY <1>0, <1>b, <2>1, <2>2 DEF ChanInv, DutyOf
  <1>5. AccountOf(c)'
    <2>1. /\ Waiting(c)' \in Nat /\ messages'[c] \in Int /\ messages'[c] <= messages[c]
          /\ messages'[c] - Waiting(c)' = messages[c] - Waiting(c)
      BY <1>a
    <2>2. messages[c] = Waiting(c) + InPump(c) + InFlight(c) /\ messages[c] <= MaxMessages
      BY <1>0 DEF ChanInv, AccountOf
    <2> QED BY <1>t, <1>3, <2>1, <2>2, ChannelAssumption DEF AccountOf
  <1> QED BY <1>1, <1>2, <1>3, <1>4, <1>5 DEF IndInv, ChanInv

(* The first completion of an item takes it off the account and turns its    *)
(* duty into a pending post, or gives it back on a stopped channel; any      *)
(* later one changes nothing.                                               *)
LEMMA CompleteKeeps ==
  ASSUME IndInv, NEW c \in Channel,
         (\E m \in Message : AsyncComplete(c, m)) \/ AsyncThrowComplete(c)
  PROVE  IndInv'
  <1>0. TypeOK /\ ChanInv(c)
    BY DEF IndInv
  <1>t. /\ Waiting(c) \in Nat /\ messages[c] \in Int
        /\ posting[c] \in Nat /\ posted[c] \in Nat /\ InPump(c) \in Nat /\ InFlight(c) \in Nat /\ InLoop(c) \in Nat
    BY <1>0, ChannelTypes
  <1>m. PICK m \in Message :
          m \in pending[c] \cup completed[c] /\ (Complete(c, m) \/ CompleteIsIgnored(c, m))
    BY <1>0 DEF AsyncComplete, AsyncThrowComplete, ChanInv, FrameOf, At
  <1>a. /\ status' = status /\ queue' = queue /\ deferred' = deferred
        /\ ready' = ready /\ sent' = sent /\ posted' = posted /\ consumed' = consumed
    BY DEF AsyncComplete, AsyncThrowComplete, gate
  <1>b. \/ at' = at /\ item' = item /\ batch' = batch
        \/ at[c] = "throwing" /\ Return(c)
    BY DEF AsyncComplete, AsyncThrowComplete, frame, At
  <1>d. at \in [Channel -> PumpAt] /\ item \in [Channel -> Message \cup {Nil}]
        /\ batch \in [Channel -> 0..BatchLimit]
    BY <1>0 DEF TypeOK
  <1>e. /\ scheduled \in SUBSET Channel /\ posting \in [Channel -> Nat] /\ messages \in [Channel -> Int]
        /\ budgetMessages \in Int
        /\ pending \in [Channel -> SUBSET Message] /\ completed \in [Channel -> SUBSET Message]
    BY <1>0 DEF TypeOK
  <1>f. /\ scheduled' \in SUBSET Channel /\ posting' \in [Channel -> Nat] /\ messages' \in [Channel -> Int]
        /\ budgetMessages' \in Int
        /\ pending' \in [Channel -> SUBSET Message] /\ completed' \in [Channel -> SUBSET Message]
        /\ \A d \in Channel \ {c} :
              /\ d \in scheduled' <=> d \in scheduled
              /\ posting'[d] = posting[d] /\ messages'[d] = messages[d]
              /\ pending'[d] = pending[d] /\ completed'[d] = completed[d]
    <2>1. CASE CompleteIsIgnored(c, m)
      BY <1>e, <2>1 DEF CompleteIsIgnored, account
    <2>2. CASE Complete(c, m)
      <3>1. scheduled' \in SUBSET Channel /\ posting' \in [Channel -> Nat]
            /\ \A d \in Channel \ {c} : (d \in scheduled' <=> d \in scheduled) /\ posting'[d] = posting[d]
        BY <1>e, <2>2 DEF Complete
      <3>2. messages' \in [Channel -> Int] /\ budgetMessages' \in Int
            /\ \A d \in Channel \ {c} : messages'[d] = messages[d]
        BY <1>e, <2>2 DEF Complete, Release
      <3>3. pending' \in [Channel -> SUBSET Message] /\ completed' \in [Channel -> SUBSET Message]
            /\ \A d \in Channel \ {c} : pending'[d] = pending[d] /\ completed'[d] = completed[d]
        BY <1>e, <2>2 DEF Complete
      <3> QED BY <3>1, <3>2, <3>3
    <2> QED BY <1>m, <2>1, <2>2
  <1>1. TypeOK'
    <2>1. at' \in [Channel -> PumpAt] /\ item' \in [Channel -> Message \cup {Nil}]
          /\ batch' \in [Channel -> 0..BatchLimit]
      BY <1>b, <1>d, ChannelAssumption DEF Return, PumpAt
    <2> QED BY <1>0, <1>a, <1>f, <2>1 DEF TypeOK
  <1>2. ASSUME NEW d \in Channel, d # c PROVE ChanInv(d)'
    <2>1. at'[d] = at[d] /\ item'[d] = item[d] /\ batch'[d] = batch[d]
      BY <1>2, <1>b, <1>d DEF Return
    <2>2. Local(d)' = Local(d)
      BY <1>2, <1>a, <1>f, <2>1 DEF Local
    <2> QED BY <1>2, <2>2, Untouched DEF IndInv
  <1>3. /\ InPump(c)' = InPump(c) /\ InLoop(c)' = InLoop(c) /\ Waiting(c)' = Waiting(c)
        /\ \/ at'[c] = at[c] /\ item'[c] = item[c] /\ batch'[c] = batch[c]
           \/ at'[c] = "idle"
    <2>1. \/ at'[c] = at[c] /\ item'[c] = item[c] /\ batch'[c] = batch[c]
          \/ at[c] = "throwing" /\ at'[c] = "idle"
      BY <1>b, <1>d DEF Return
    <2> QED BY <1>a, <2>1 DEF InPump, InLoop, Waiting, At
  <1>4. CASE CompleteIsIgnored(c, m)
    <2>1. scheduled' = scheduled /\ posting' = posting /\ messages' = messages
          /\ pending' = pending /\ completed' = completed
      BY <1>4 DEF CompleteIsIgnored, account
    <2>2. InFlight(c)' = InFlight(c)
      BY <2>1 DEF InFlight
    <2>3. DutyOf(c)'
      <3>1. Duties(c)' = Duties(c)
        BY <1>3, <1>a, <2>1, <2>2 DEF Duties
      <3> QED BY <1>0, <1>a, <2>1, <3>1 DEF ChanInv, DutyOf
    <2>4. AccountOf(c)'
      BY <1>0, <1>3, <2>1, <2>2 DEF ChanInv, AccountOf
    <2>5. FrameOf(c)'
      BY <1>0, <1>3, <2>1 DEF ChanInv, FrameOf, At
    <2> QED BY <1>1, <1>2, <2>3, <2>4, <2>5 DEF IndInv, ChanInv
  <1>5. CASE Complete(c, m)
    <2>1. m \in pending[c] /\ m \notin completed[c]
      BY <1>5, <1>m DEF Complete, FirstCompletion
    <2>2. pending'[c] = pending[c] \ {m} /\ completed'[c] = completed[c] \cup {m}
          /\ messages'[c] = messages[c] - 1
      BY <1>5, <1>e DEF Complete, Release
    <2>3. InFlight(c) = 1 /\ InFlight(c)' = 0 /\ pending'[c] = {}
      <3>1. pending[c] = {m}
        BY <1>0, <2>1 DEF ChanInv, DutyOf
      <3> QED BY <2>2, <3>1 DEF InFlight
    <2>4. DutyOf(c) /\ Duties(c) \in Nat /\ posted'[c] = posted[c]
      BY <1>0, <1>a, <1>t DEF ChanInv, Duties
    <2>5. DutyOf(c)'
      <3>1. CASE status[c] = "Accepted"
        <4>1. posting'[c] = posting[c] + 1 /\ scheduled' = scheduled
          BY <1>5, <1>e, <3>1 DEF Complete
        <4>2. Duties(c)' = Duties(c)
          BY <1>3, <1>t, <2>3, <2>4, <4>1 DEF Duties
        <4> QED BY <1>a, <2>3, <2>4, <4>1, <4>2 DEF DutyOf
      <3>2. CASE status[c] # "Accepted"
        <4>1. posting'[c] = posting[c] /\ scheduled' = scheduled \ {c}
          BY <1>5, <1>e, <3>2 DEF Complete
        <4>2. Duties(c)' = 0
          BY <1>3, <1>t, <2>3, <2>4, <4>1 DEF Duties, DutyOf
        <4> QED BY <1>a, <2>3, <3>2, <4>1, <4>2 DEF DutyOf
      <3> QED BY <3>1, <3>2
    <2>7. AccountOf(c)'
      <3>1. messages[c] = Waiting(c) + InPump(c) + InFlight(c) /\ messages[c] <= MaxMessages
        BY <1>0 DEF ChanInv, AccountOf
      <3> QED BY <1>3, <1>t, <2>2, <2>3, <3>1, ChannelAssumption DEF AccountOf
    <2>8. FrameOf(c)'
      BY <1>0, <1>3, <2>2 DEF ChanInv, FrameOf, At
    <2> QED BY <1>1, <1>2, <2>5, <2>7, <2>8 DEF IndInv, ChanInv
  <1> QED BY <1>4, <1>5, <1>m

-----------------------------------------------------------------------------

(* Every step, and stuttering, keeps the inductive invariant. *)
LEMMA NextKeeps == IndInv /\ [Next]_vars => IndInv'
  <1> SUFFICES ASSUME IndInv, [Next]_vars PROVE IndInv'
    OBVIOUS
  <1>1. CASE UNCHANGED vars
    <2>1. TypeOK'
      BY <1>1 DEF IndInv, TypeOK, vars
    <2>2. ASSUME NEW d \in Channel PROVE ChanInv(d)'
      <3>1. Local(d)' = Local(d)
        BY <1>1 DEF Local, vars
      <3> QED BY <3>1, Untouched DEF IndInv
    <2> QED BY <2>1, <2>2 DEF IndInv
  <1>2. ASSUME NEW c \in Channel, NEW m \in Message, Send(c, m) PROVE IndInv'
    BY <1>1, <1>2, SendKeeps DEF Send, SendRefused
  <1>3. ASSUME NEW c \in Channel, Close(c) \/ Cancel(c) \/ PostFail(c) PROVE IndInv'
    BY <1>3, StopKeeps
  <1>4. ASSUME NEW c \in Channel,
               \/ ResetGate(c) \/ PostOk(c) \/ PumpStart(c)
               \/ PumpRest(c) \/ PumpYield(c) \/ AsyncReturn(c)
        PROVE IndInv'
    BY <1>4, HandoverKeeps
  <1>5. ASSUME NEW c \in Channel, PumpTake(c) PROVE IndInv'
    BY <1>5, TakeKeeps
  <1>6. ASSUME NEW c \in Channel, NEW ok \in BOOLEAN, SyncDone(c, ok) PROVE IndInv'
    BY <1>6, SyncDoneKeeps
  <1>7. ASSUME NEW c \in Channel, SyncFailed(c) \/ AsyncThrow(c) PROVE IndInv'
    BY <1>7, ThrowKeeps
  <1>8. ASSUME NEW c \in Channel,
               (\E m \in Message : AsyncComplete(c, m)) \/ AsyncThrowComplete(c)
        PROVE IndInv'
    BY <1>8, CompleteKeeps
  <1> QED BY <1>1, <1>2, <1>3, <1>4, <1>5, <1>6, <1>7, <1>8 DEF Next

(* Type correctness of the channel: the account of messages stays a number,  *)
(* a Pump is always at one of its program points.                           *)
THEOREM ChannelTypeCorrect == Spec => []TypeOK
  <1>1. IndInv => TypeOK
    BY DEF IndInv
  <1> QED BY InitInv, NextKeeps, <1>1, PTL DEF Spec

(* A channel has exactly one consumer: utils/BoundedChannel.h promises        *)
(* single-executor consumption, for any number of senders.                  *)
THEOREM SingleConsumer == Spec => []OneDuty
  BY InitInv, NextKeeps, InvGivesProperties, PTL DEF Spec

(* No lost wakeup: queued items of an open channel always have a Pump coming. *)
THEOREM WakeupNeverLost == Spec => []NoLostWakeup
  BY InitInv, NextKeeps, InvGivesProperties, PTL DEF Spec

(* The message account is exact and within its limit, so a channel is Full   *)
(* only when it really holds that many messages.                            *)
THEOREM AccountExact == Spec => []MessageAccount
  BY InitInv, NextKeeps, InvGivesProperties, PTL DEF Spec
-----------------------------------------------------------------------------
(* The gate.  GateFirst speaks of what was consumed; what is still queued    *)
(* has to be in the same order, and an open gate has to have an opener.     *)

(* One of the first n items of s opens the gate. *)
Opener(s, n) == \E j \in 1..n : Delivery[s[j]] = "OpenGate"

(* A Deferred item of s is behind an opener, in s or in what came before. *)
Ordered(s, before) ==
    \A i \in 1..Len(s) : Delivery[s[i]] = "Deferred" => before \/ Opener(s, i - 1)

GateOf(c) ==
    /\ Ordered(consumed[c], FALSE)
    /\ Ordered(queue[c], Opener(consumed[c], Len(consumed[c])))
    /\ status[c] = "Accepted" /\ c \in ready =>
          Opener(consumed[c], Len(consumed[c])) \/ Opener(queue[c], Len(queue[c]))

GateInv == \A c \in GatedChannel : GateOf(c)

(* A step that takes nothing from channel c and queues nothing keeps GateOf. *)
LEMMA GateUntouched ==
  ASSUME NEW c \in Channel, GateOf(c), consumed'[c] = consumed[c],
         \/ queue'[c] = queue[c] /\ status'[c] = status[c]
         \/ queue'[c] = <<>> /\ status'[c] # "Accepted",
         c \in ready' => c \in ready
  PROVE  GateOf(c)'
  BY DEF GateOf, Ordered, Opener

(* Stop leaves nothing queued, or leaves the channel as it was. *)
LEMMA StopGate ==
  ASSUME TypeOK, NEW c \in Channel, NEW d \in Channel,
         NEW s \in {"Closed", "Cancelled"}, Stop(d, s)
  PROVE  \/ queue'[c] = queue[c] /\ status'[c] = status[c]
         \/ queue'[c] = <<>> /\ status'[c] # "Accepted"
  BY DEF Stop, TypeOK

(* Appending an item keeps the order, if a Deferred one has its opener. *)
LEMMA OrderedAppend ==
  ASSUME NEW s \in Seq(Message), NEW m \in Message, NEW b \in BOOLEAN, Ordered(s, b),
         Delivery[m] = "Deferred" => b \/ Opener(s, Len(s))
  PROVE  /\ Ordered(Append(s, m), b)
         /\ Opener(s, Len(s)) => Opener(Append(s, m), Len(s) + 1)
         /\ Delivery[m] = "OpenGate" => Opener(Append(s, m), Len(s) + 1)
         /\ Len(Append(s, m)) = Len(s) + 1
  <1> DEFINE t == Append(s, m)
  <1>1. Len(s) \in Nat /\ Len(t) = Len(s) + 1 /\ (\A i \in 1..Len(s) : t[i] = s[i]) /\ t[Len(s) + 1] = m
    OBVIOUS
  <1> HIDE DEF t
  <1>2. \A i \in 1..(Len(s) + 1) : Opener(s, i - 1) => Opener(t, i - 1)
    BY <1>1 DEF Opener
  <1>3. Ordered(t, b)
    BY <1>1, <1>2 DEF Ordered
  <1>4. Opener(s, Len(s)) => Opener(t, Len(s) + 1)
    BY <1>1 DEF Opener
  <1>5. Delivery[m] = "OpenGate" => Opener(t, Len(s) + 1)
    BY <1>1 DEF Opener
  <1> QED BY <1>1, <1>3, <1>4, <1>5 DEF t

(* Whatever is joined behind an opener is in order. *)
LEMMA OrderedJoin ==
  ASSUME NEW s \in Seq(Message), NEW d \in Seq(Message), NEW b \in BOOLEAN,
         Ordered(s, b), Opener(s, Len(s))
  PROVE  Ordered(s \o d, b) /\ Opener(s \o d, Len(s \o d))
  <1> DEFINE t == s \o d
  <1>1. /\ Len(s) \in Nat /\ Len(d) \in Nat /\ Len(t) = Len(s) + Len(d)
        /\ \A i \in 1..Len(s) : t[i] = s[i]
    OBVIOUS
  <1> HIDE DEF t
  <1>2. \A i \in 1..(Len(s) + 1) : Opener(s, i - 1) => Opener(t, i - 1)
    BY <1>1 DEF Opener
  <1>3. Opener(t, Len(s))
    BY <1>1 DEF Opener
  <1>4. \A i \in 1..Len(t) : i > Len(s) => Opener(t, i - 1)
    BY <1>1, <1>3 DEF Opener
  <1>5. Ordered(t, b)
    BY <1>1, <1>2, <1>4 DEF Ordered
  <1>6. Opener(t, Len(t))
    BY <1>1, <1>3 DEF Opener
  <1> QED BY <1>5, <1>6 DEF t

(* Sending: a Deferred message is queued only through an open gate, and one  *)
(* that waited is queued behind the message that opens it.                  *)
LEMMA SendGate ==
  ASSUME TypeOK, NEW c \in Channel, NEW m \in Message, SendAccepted(c, m), GateOf(c)
  PROVE  GateOf(c)'
  <1>1. /\ queue[c] \in Seq(Message) /\ deferred[c] \in Seq(Message)
        /\ consumed' = consumed /\ status' = status /\ status[c] = "Accepted"
    BY DEF TypeOK, SendAccepted
  <1> DEFINE b == Opener(consumed[c], Len(consumed[c]))
             s == queue[c]
             t == queue'[c]
  <1>2. b \in BOOLEAN /\ Ordered(s, b) /\ (c \in ready => b \/ Opener(s, Len(s)))
    BY <1>1 DEF GateOf, Opener
  <1>3. CASE Park(c, m) /\ queue' = queue /\ ready' = ready
    BY <1>1, <1>3, GateUntouched
  <1>4. CASE /\ Delivery[m] = "OpenGate" /\ t = Opened(c, m)
    <2>1. Ordered(Append(s, m), b) /\ Opener(Append(s, m), Len(Append(s, m))) /\ Append(s, m) \in Seq(Message)
      BY <1>1, <1>2, <1>4, OrderedAppend
    <2>2. t = Append(s, m) \o deferred[c]
      BY <1>4 DEF Opened
    <2>3. Ordered(t, b) /\ Opener(t, Len(t))
      <3> HIDE DEF b, s, t
      <3> QED BY <1>1, <1>2, <2>1, <2>2, OrderedJoin
    <2> QED BY <1>1, <2>3 DEF GateOf
  <1>5. CASE ~Park(c, m) /\ Delivery[m] # "OpenGate" /\ t = Append(s, m) /\ ready' = ready
    <2>1. Delivery[m] = "Deferred" => c \in ready
      BY <1>5 DEF Park
    <2>2. Delivery[m] = "Deferred" => b \/ Opener(s, Len(s))
      BY <1>2, <2>1
    <2>3. Ordered(t, b) /\ (Opener(s, Len(s)) => Opener(t, Len(t)))
      <3> HIDE DEF b, s, t
      <3>1. s \in Seq(Message)
        BY <1>1 DEF s
      <3> QED BY <3>1, <1>2, <1>5, <2>2, OrderedAppend
    <2> QED BY <1>1, <1>2, <1>5, <2>3 DEF GateOf
  <1>6. Enqueue(c, m)
    BY DEF SendAccepted
  <1>7. \/ Park(c, m) /\ queue' = queue /\ ready' = ready
        \/ Delivery[m] = "OpenGate" /\ t = Opened(c, m)
        \/ ~Park(c, m) /\ Delivery[m] # "OpenGate" /\ t = Append(s, m) /\ ready' = ready
    BY <1>6 DEF Enqueue, TypeOK
  <1> QED BY <1>3, <1>4, <1>5, <1>7

(* The Pump moves the head of the queue to the end of what was consumed. *)
LEMMA TakeGate ==
  ASSUME TypeOK, NEW c \in Channel, PumpTake(c), GateOf(c)
  PROVE  GateOf(c)'
  <1> DEFINE m == Head(queue[c])
             s == queue[c]
             t == queue'[c]
             e == consumed[c]
             f == consumed'[c]
             b == Opener(e, Len(e))
             p == Opener(f, Len(f))
  <1>1. /\ t = Tail(s) /\ f = Append(e, m) /\ s \in Seq(Message) /\ s # <<>>
        /\ e \in Seq(Message) /\ status' = status /\ ready' = ready
    BY DEF TypeOK, PumpTake, gate
  <1>2. /\ m \in Message /\ m = s[1] /\ Len(s) \in Nat /\ Len(s) > 0 /\ Len(t) = Len(s) - 1
        /\ \A i \in 1..Len(t) : t[i] = s[i + 1]
    BY <1>1
  <1>3. /\ Ordered(e, FALSE) /\ Ordered(s, b)
        /\ status[c] = "Accepted" /\ c \in ready => b \/ Opener(s, Len(s))
    BY DEF GateOf
  <1> HIDE DEF m, s, t, e, f
  <1>4. Delivery[m] = "Deferred" => b
    BY <1>2, <1>3 DEF Ordered, Opener
  <1>5. Ordered(f, FALSE) /\ (b => p) /\ (Delivery[m] = "OpenGate" => p)
    BY <1>1, <1>2, <1>3, <1>4, OrderedAppend DEF Opener
  <1> HIDE DEF b, p
  <1>6. \A i \in 1..Len(t) : Opener(s, i) => p \/ Opener(t, i - 1)
    <2> SUFFICES ASSUME NEW i \in 1..Len(t), Opener(s, i) PROVE p \/ Opener(t, i - 1)
      OBVIOUS
    <2>1. PICK j \in 1..i : Delivery[s[j]] = "OpenGate"
      BY DEF Opener
    <2>2. CASE j = 1
      BY <1>2, <1>5, <2>1, <2>2
    <2>3. CASE j # 1
      <3>1. j - 1 \in 1..(i - 1) /\ t[j - 1] = s[j]
        BY <1>2, <2>1, <2>3
      <3> QED BY <2>1, <3>1 DEF Opener
    <2> QED BY <2>2, <2>3
  <1>7. Ordered(t, p)
    <2> SUFFICES ASSUME NEW i \in 1..Len(t), Delivery[t[i]] = "Deferred"
                 PROVE  p \/ Opener(t, i - 1)
      BY DEF Ordered
    <2>1. i + 1 \in 1..Len(s) /\ (i + 1) - 1 = i /\ t[i] = s[i + 1]
      BY <1>2
    <2>2. b \/ Opener(s, (i + 1) - 1)
      BY <1>3, <2>1 DEF Ordered
    <2> QED BY <1>5, <1>6, <2>1, <2>2
  <1>8. Opener(s, Len(s)) => p \/ Opener(t, Len(t))
    <2> SUFFICES ASSUME Opener(s, Len(s)) PROVE p \/ Opener(t, Len(t))
      OBVIOUS
    <2>1. PICK j \in 1..Len(s) : Delivery[s[j]] = "OpenGate"
      BY DEF Opener
    <2>2. CASE j = 1
      BY <1>2, <1>5, <2>1, <2>2
    <2>3. CASE j # 1
      <3>1. j - 1 \in 1..Len(t) /\ t[j - 1] = s[j]
        BY <1>2, <2>1, <2>3
      <3> QED BY <2>1, <3>1 DEF Opener
    <2> QED BY <2>2, <2>3
  <1>9. status'[c] = "Accepted" /\ c \in ready' => p \/ Opener(t, Len(t))
    BY <1>1, <1>3, <1>5, <1>8
  <1> QED BY <1>5, <1>7, <1>9 DEF GateOf, p, f, t

(* Every step keeps the gate's invariant. *)
LEMMA NextGate == TypeOK /\ GateInv /\ [Next]_vars => GateInv'
  <1> SUFFICES ASSUME TypeOK, GateInv, [Next]_vars, NEW c \in GatedChannel PROVE GateOf(c)'
    BY DEF GateInv
  <1>0. c \in Channel /\ GateOf(c)
    BY ChannelAssumption DEF GateInv
  <1>1. CASE UNCHANGED vars
    BY <1>0, <1>1, GateUntouched DEF vars
  <1>2. ASSUME NEW d \in Channel, NEW m \in Message, Send(d, m) PROVE GateOf(c)'
    <2>1. CASE SendRefused(d, m)
      BY <1>1, <2>1 DEF SendRefused
    <2>2. CASE SendAccepted(d, m) /\ d = c
      BY <1>0, <2>2, SendGate
    <2>3. CASE SendAccepted(d, m) /\ d # c
      <3>1. Enqueue(d, m) /\ status' = status /\ consumed' = consumed
        BY <2>3 DEF SendAccepted
      <3>2. queue'[c] = queue[c] /\ (c \in ready' => c \in ready)
        BY <1>0, <2>3, <3>1 DEF Enqueue, TypeOK
      <3> QED BY <1>0, <3>1, <3>2, GateUntouched
    <2> QED BY <1>2, <2>1, <2>2, <2>3 DEF Send
  <1>3. ASSUME NEW d \in Channel,
               Close(d) \/ Cancel(d) \/ PostFail(d) \/ SyncFailed(d) \/ AsyncThrow(d)
        PROVE GateOf(c)'
    <2>1. consumed' = consumed /\ ready' = ready
          /\ \E s \in {"Closed", "Cancelled"} : Stop(d, s)
      BY <1>3 DEF Close, Cancel, PostFail, SyncFailed, AsyncThrow, gate, flow
    <2> QED BY <1>0, <2>1, StopGate, GateUntouched
  <1>4. ASSUME NEW d \in Channel,
               \/ ResetGate(d) \/ PostOk(d) \/ PumpStart(d)
               \/ PumpRest(d) \/ PumpYield(d) \/ AsyncReturn(d)
               \/ \E ok \in BOOLEAN : SyncDone(d, ok)
               \/ (\E m \in Message : AsyncComplete(d, m)) \/ AsyncThrowComplete(d)
        PROVE GateOf(c)'
    <2>1. /\ consumed' = consumed /\ queue' = queue /\ status' = status
          /\ (c \in ready' => c \in ready)
      BY <1>4 DEF ResetGate, PostOk, PumpStart, PumpRest, PumpYield, AsyncReturn, SyncDone,
         AsyncComplete, AsyncThrowComplete, gate, flow
    <2> QED BY <1>0, <2>1, GateUntouched
  <1>5. ASSUME NEW d \in Channel, PumpTake(d) PROVE GateOf(c)'
    <2>1. CASE d = c
      BY <1>0, <1>5, <2>1, TakeGate
    <2>2. CASE d # c
      <3>1. queue'[c] = queue[c] /\ consumed'[c] = consumed[c] /\ status' = status /\ ready' = ready
        BY <1>0, <1>5, <2>2 DEF PumpTake, TypeOK, gate
      <3> QED BY <1>0, <3>1, GateUntouched
    <2> QED BY <2>1, <2>2
  <1> QED BY <1>1, <1>2, <1>3, <1>4, <1>5 DEF Next

(* On a channel that starts gated, no room notification (Deferred) is given  *)
(* to the consumer before a joined response that opens the gate, through    *)
(* resets of the gate, a stop and any number of messages.                   *)
THEOREM NotificationsBehindGate == Spec => []GateFirst
  <1>1. Init => GateInv
    BY ChannelAssumption DEF Init, GateInv, GateOf, Ordered, Opener
  <1>2. TypeOK /\ GateInv => GateFirst
    <2> SUFFICES ASSUME TypeOK, GateInv, NEW c \in GatedChannel, NEW i \in DOMAIN consumed[c],
                        Delivery[consumed[c][i]] = "Deferred"
                 PROVE  \E j \in 1..(i - 1) : Delivery[consumed[c][j]] = "OpenGate"
      BY DEF GateFirst
    <2>1. DOMAIN consumed[c] = 1..Len(consumed[c])
      BY ChannelAssumption DEF TypeOK
    <2> QED BY <2>1 DEF GateInv, GateOf, Ordered, Opener
  <1> QED BY <1>1, <1>2, NextGate, ChannelTypeCorrect, PTL DEF Spec
-----------------------------------------------------------------------------
(* The order of a channel.  Nothing is given to a consumer twice, and what  *)
(* is queued is consumed in the order of the queue, unless it is dropped.   *)

Has(s, m) == \E i \in 1..Len(s) : s[i] = m
Once(s) == \A i, j \in 1..Len(s) : s[i] = s[j] => i = j
Apart(s, t) == \A m \in Message : ~(Has(s, m) /\ Has(t, m))
Leads(s, x, y) == \E i, j \in 1..Len(s) : i < j /\ s[i] = x /\ s[j] = y

(* The messages that channel c was given, as far as it still knows them. *)
Seen(c) == {m \in Message : Has(consumed[c], m) \/ Has(queue[c], m) \/ Has(deferred[c], m)}

OnceOf(c) ==
    /\ Once(consumed[c]) /\ Once(queue[c]) /\ Once(deferred[c])
    /\ Apart(consumed[c], queue[c]) /\ Apart(consumed[c], deferred[c])
    /\ Apart(queue[c], deferred[c])

OnceInv ==
    /\ \A c \in Channel : OnceOf(c) /\ Seen(c) \subseteq sent
    /\ \A c, d \in Channel : c # d => Seen(c) \cap Seen(d) = {}

(* A message that was consumed is neither waiting on its channel nor known   *)
(* to another one, and was consumed once.                                   *)
ConsumedOnce ==
    \A c \in Channel : \A i \in 1..Len(consumed[c]) :
        /\ ~Has(queue[c], consumed[c][i]) /\ ~Has(deferred[c], consumed[c][i])
        /\ \A d \in Channel : \A j \in 1..Len(consumed[d]) :
               consumed[c][i] = consumed[d][j] => c = d /\ i = j

(* In the line of channel c, what was consumed followed by the queue, x is   *)
(* ahead of y.                                                              *)
Ahead(c, x, y) ==
    \/ Leads(consumed[c], x, y) \/ Leads(queue[c], x, y)
    \/ Has(consumed[c], x) /\ Has(queue[c], y)

(* A message never overtakes one ahead of it: when it has been consumed, the *)
(* other one was consumed before.                                           *)
NoOvertaking ==
    \A c \in Channel : \A x, y \in Message :
        Ahead(c, x, y) /\ Has(consumed'[c], y) => Leads(consumed'[c], x, y)

(* What appending a message does. *)
LEMMA AppendOnce ==
  ASSUME NEW s \in Seq(Message), NEW m \in Message
  PROVE  /\ \A x : Has(Append(s, m), x) <=> Has(s, x) \/ x = m
         /\ Once(s) /\ ~Has(s, m) => Once(Append(s, m))
         /\ \A x, y : Leads(s, x, y) \/ (Has(s, x) /\ y = m) => Leads(Append(s, m), x, y)
  <1> DEFINE t == Append(s, m)
             n == Len(s)
  <1>1. n \in Nat /\ Len(t) = n + 1 /\ (\A i \in 1..n : t[i] = s[i]) /\ t[n + 1] = m
    OBVIOUS
  <1> HIDE DEF t
  <1>2. 1..Len(t) = (1..n) \cup {n + 1} /\ n + 1 \notin 1..n /\ \A i \in 1..n : i < n + 1
    BY <1>1
  <1>3. \A x : Has(t, x) <=> Has(s, x) \/ x = m
    BY <1>1, <1>2 DEF Has
  <1>4. ASSUME Once(s), ~Has(s, m) PROVE Once(t)
    BY <1>1, <1>2, <1>4 DEF Once, Has
  <1>5. ASSUME NEW x, NEW y, Leads(s, x, y) PROVE Leads(t, x, y)
    BY <1>1, <1>2, <1>5 DEF Leads
  <1>6. ASSUME NEW x, Has(s, x) PROVE Leads(t, x, m)
    BY <1>1, <1>2, <1>6 DEF Leads, Has
  <1> QED BY <1>3, <1>4, <1>5, <1>6 DEF t

(* What joining two lists does. *)
LEMMA JoinOnce ==
  ASSUME NEW s \in Seq(Message), NEW d \in Seq(Message)
  PROVE  /\ \A x : Has(s \o d, x) <=> Has(s, x) \/ Has(d, x)
         /\ Once(s) /\ Once(d) /\ Apart(s, d) => Once(s \o d)
  <1> DEFINE t == s \o d
             n == Len(s)
             k == Len(d)
  <1>1. /\ n \in Nat /\ k \in Nat /\ Len(t) = n + k
        /\ \A i \in 1..n : t[i] = s[i] /\ s[i] \in Message
        /\ \A i \in 1..k : t[n + i] = d[i]
    OBVIOUS
  <1> HIDE DEF t, n, k
  <1>2. /\ \A i \in 1..k : n + i \in 1..Len(t)
        /\ \A i \in 1..n : i \in 1..Len(t)
    BY <1>1
  <1>3. \A i \in 1..Len(t) : i \in 1..n \/ (i - n \in 1..k /\ t[i] = d[i - n] /\ i \notin 1..n)
    <2> SUFFICES ASSUME NEW i \in 1..Len(t), i \notin 1..n PROVE i - n \in 1..k /\ t[i] = d[i - n]
      OBVIOUS
    <2>1. i - n \in 1..k /\ n + (i - n) = i
      BY <1>1
    <2> QED BY <1>1, <2>1
  <1>4. ASSUME NEW x PROVE Has(t, x) <=> Has(s, x) \/ Has(d, x)
    <2>1. ASSUME Has(s, x) PROVE Has(t, x)
      BY <1>1, <1>2, <2>1 DEF Has, n
    <2>2. ASSUME Has(d, x) PROVE Has(t, x)
      BY <1>1, <1>2, <2>2 DEF Has, k
    <2>3. ASSUME Has(t, x) PROVE Has(s, x) \/ Has(d, x)
      BY <1>1, <1>3, <2>3 DEF Has, n, k
    <2> QED BY <2>1, <2>2, <2>3
  <1>5. ASSUME Once(s), Once(d), Apart(s, d), NEW i \in 1..Len(t), NEW j \in 1..Len(t), t[i] = t[j]
        PROVE  i = j
    <2>0. i \in Int /\ j \in Int /\ n \in Int
      BY <1>1
    <2>1. CASE i \in 1..n /\ j \in 1..n
      BY <1>1, <1>5, <2>1 DEF Once, n
    <2>2. CASE i \notin 1..n /\ j \notin 1..n
      <3>1. i - n \in 1..k /\ j - n \in 1..k /\ d[i - n] = d[j - n]
        BY <1>3, <1>5, <2>2
      <3>2. i - n = j - n
        BY <1>5, <3>1 DEF Once, k
      <3> QED BY <2>0, <3>2
    <2>3. CASE i \in 1..n /\ j \notin 1..n
      <3>1. Has(s, t[i]) /\ t[i] \in Message
        BY <1>1, <2>3 DEF Has, n
      <3>2. Has(d, t[j])
        BY <1>3, <2>3 DEF Has, k
      <3> QED BY <1>5, <3>1, <3>2 DEF Apart
    <2>4. CASE i \notin 1..n /\ j \in 1..n
      <3>1. Has(s, t[j]) /\ t[j] \in Message
        BY <1>1, <2>4 DEF Has, n
      <3>2. Has(d, t[i])
        BY <1>3, <2>4 DEF Has, k
      <3> QED BY <1>5, <3>1, <3>2 DEF Apart
    <2> QED BY <2>1, <2>2, <2>3, <2>4
  <1>6. Once(s) /\ Once(d) /\ Apart(s, d) => Once(t)
    BY <1>5 DEF Once
  <1> QED BY <1>4, <1>6 DEF t

(* What taking the head away does. *)
LEMMA TailOnce ==
  ASSUME NEW s \in Seq(Message), s # <<>>
  PROVE  /\ \A x : Has(s, x) <=> x = Head(s) \/ Has(Tail(s), x)
         /\ Once(s) => Once(Tail(s)) /\ ~Has(Tail(s), Head(s))
         /\ \A x : Once(s) => ~Leads(s, x, Head(s))
  <1> DEFINE t == Tail(s)
             n == Len(s)
             h == Head(s)
  <1>1. /\ n \in Nat /\ n > 0 /\ Len(t) = n - 1 /\ s[1] = h
        /\ \A i \in 1..(n - 1) : t[i] = s[i + 1]
    OBVIOUS
  <1> HIDE DEF t, n, h
  <1>2. \A i \in 1..n : i = 1 \/ (i - 1 \in 1..(n - 1) /\ t[i - 1] = s[i])
    <2> SUFFICES ASSUME NEW i \in 1..n, i # 1 PROVE i - 1 \in 1..(n - 1) /\ t[i - 1] = s[i]
      OBVIOUS
    <2>1. i - 1 \in 1..(n - 1) /\ (i - 1) + 1 = i
      BY <1>1
    <2> QED BY <1>1, <2>1
  <1>3. \A i \in 1..(n - 1) : i + 1 \in 1..n /\ i + 1 # 1
    BY <1>1
  <1>4. 1 \in 1..n
    BY <1>1
  <1>5. ASSUME NEW x PROVE Has(s, x) <=> x = h \/ Has(t, x)
    <2>1. ASSUME Has(s, x) PROVE x = h \/ Has(t, x)
      BY <1>1, <1>2, <2>1 DEF Has, n
    <2>2. ASSUME x = h \/ Has(t, x) PROVE Has(s, x)
      BY <1>1, <1>3, <1>4, <2>2 DEF Has, n
    <2> QED BY <2>1, <2>2
  <1>6. ASSUME Once(s) PROVE Once(t) /\ ~Has(t, h)
    <2>1. ASSUME NEW i \in 1..(n - 1), NEW j \in 1..(n - 1), t[i] = t[j] PROVE i = j
      <3>1. i + 1 = j + 1
        BY <1>1, <1>3, <1>6, <2>1 DEF Once, n
      <3> QED BY <3>1
    <2>2. ASSUME NEW i \in 1..(n - 1), t[i] = h PROVE FALSE
      BY <1>1, <1>3, <1>4, <1>6, <2>2 DEF Once, n
    <2> QED BY <1>1, <2>1, <2>2 DEF Once, Has
  <1>7. ASSUME NEW x, Once(s), Leads(s, x, h) PROVE FALSE
    <2>1. PICK i, j \in 1..n : i < j /\ s[j] = h
      BY <1>7 DEF Leads, n
    <2>2. j = 1
      BY <1>1, <1>4, <1>7, <2>1 DEF Once, n
    <2> QED BY <1>1, <2>1, <2>2
  <1> QED BY <1>5, <1>6, <1>7 DEF t, h

(* A step that consumes nothing lets nothing overtake. *)
LEMMA NoneTaken ==
  ASSUME OnceInv, consumed' = consumed
  PROVE  NoOvertaking
  <1> SUFFICES ASSUME NEW c \in Channel, NEW x \in Message, NEW y \in Message,
                      Ahead(c, x, y), Has(consumed[c], y)
               PROVE  Leads(consumed[c], x, y)
    BY DEF NoOvertaking
  <1>1. ~Has(queue[c], y)
    BY DEF OnceInv, OnceOf, Apart
  <1>2. ~Leads(queue[c], x, y)
    BY <1>1 DEF Leads, Has
  <1> QED BY <1>1, <1>2 DEF Ahead

(* A step that only empties lists. *)
LEMMA DropOnce ==
  ASSUME OnceInv, consumed' = consumed, sent' = sent,
         \A c \in Channel : /\ queue'[c] \in {queue[c], <<>>}
                            /\ deferred'[c] \in {deferred[c], <<>>}
  PROVE  OnceInv' /\ NoOvertaking
  <1>1. Once(<<>>) /\ \A x : ~Has(<<>>, x)
    BY DEF Once, Has
  <1>2. ASSUME NEW c \in Channel PROVE OnceOf(c)' /\ Seen(c)' \subseteq Seen(c)
    <2>1. OnceOf(c)
      BY DEF OnceInv
    <2>2. \A x : /\ Has(queue'[c], x) => Has(queue[c], x)
                 /\ Has(deferred'[c], x) => Has(deferred[c], x)
      BY <1>1
    <2>3. Once(queue'[c]) /\ Once(deferred'[c])
      BY <1>1, <2>1 DEF OnceOf
    <2>4. OnceOf(c)'
      BY <2>1, <2>2, <2>3 DEF OnceOf, Apart
    <2> QED BY <2>2, <2>4 DEF Seen
  <1>3. OnceInv'
    BY <1>2, Zenon DEF OnceInv
  <1> QED BY <1>3, NoneTaken

(* A message that is accepted was not known to any channel. *)
LEMMA SendOnce ==
  ASSUME TypeOK, OnceInv, NEW c \in Channel, NEW m \in Message, SendAccepted(c, m)
  PROVE  OnceInv' /\ NoOvertaking
  <1> DEFINE q == queue[c]
             p == deferred[c]
             k == consumed[c]
  <1>1. /\ q \in Seq(Message) /\ p \in Seq(Message) /\ consumed' = consumed
        /\ m \notin sent /\ sent' = sent \cup {m} /\ Enqueue(c, m)
    BY DEF TypeOK, SendAccepted
  <1>2. ~Has(q, m) /\ ~Has(p, m) /\ ~Has(k, m)
    BY <1>1 DEF OnceInv, Seen
  <1>3. /\ Once(k) /\ Once(q) /\ Once(p) /\ Apart(k, q) /\ Apart(k, p) /\ Apart(q, p)
    BY DEF OnceInv, OnceOf
  <1>4. \A e \in Channel \ {c} : queue'[e] = queue[e] /\ deferred'[e] = deferred[e]
    BY <1>1, EnqueueEffect DEF TypeOK
  <1>5. /\ Once(queue'[c]) /\ Once(deferred'[c])
        /\ \A x : Has(queue'[c], x) \/ Has(deferred'[c], x) => Has(q, x) \/ Has(p, x) \/ x = m
        /\ Apart(queue'[c], deferred'[c])
    <2>1. CASE queue'[c] = q /\ deferred'[c] = Append(p, m)
      <3>1. Once(Append(p, m)) /\ \A x : Has(Append(p, m), x) <=> Has(p, x) \/ x = m
        BY <1>1, <1>2, <1>3, AppendOnce
      <3> HIDE DEF q, p
      <3> QED BY <1>2, <1>3, <2>1, <3>1 DEF Apart
    <2>2. CASE queue'[c] = Append(q, m) \o p /\ deferred'[c] = <<>>
      <3> DEFINE r == Append(q, m)
      <3>1. r \in Seq(Message) /\ Once(r) /\ \A x : Has(r, x) <=> Has(q, x) \/ x = m
        BY <1>1, <1>2, <1>3, AppendOnce
      <3> HIDE DEF q, p, r
      <3>2. Apart(r, p)
        BY <1>2, <1>3, <3>1 DEF Apart
      <3>3. Once(r \o p) /\ \A x : Has(r \o p, x) <=> Has(r, x) \/ Has(p, x)
        BY <1>1, <1>3, <3>1, <3>2, JoinOnce
      <3>4. Once(<<>>) /\ \A x : ~Has(<<>>, x)
        BY DEF Once, Has
      <3>5. queue'[c] = r \o p
        BY <2>2 DEF r
      <3> QED BY <2>2, <3>1, <3>3, <3>4, <3>5 DEF Apart
    <2>3. CASE queue'[c] = Append(q, m) /\ deferred'[c] = p
      <3>1. Once(Append(q, m)) /\ \A x : Has(Append(q, m), x) <=> Has(q, x) \/ x = m
        BY <1>1, <1>2, <1>3, AppendOnce
      <3> HIDE DEF q, p
      <3> QED BY <1>2, <1>3, <2>3, <3>1 DEF Apart
    <2> QED BY <1>1, <2>1, <2>2, <2>3 DEF Enqueue, Opened, TypeOK
  <1>6. OnceOf(c)' /\ Seen(c)' \subseteq Seen(c) \cup {m}
    <2>1. Apart(k, queue'[c]) /\ Apart(k, deferred'[c])
      <3> HIDE DEF q, p, k
      <3> QED BY <1>2, <1>3, <1>5 DEF Apart
    <2>2. OnceOf(c)'
      BY <1>1, <1>3, <1>5, <2>1 DEF OnceOf
    <2> QED BY <1>1, <1>5, <2>2 DEF Seen
  <1>7. \A e \in Channel \ {c} : OnceOf(e)' /\ Seen(e)' = Seen(e)
    BY <1>1, <1>4 DEF OnceInv, OnceOf, Seen
  <1>8. \A e \in Channel : OnceOf(e)' /\ Seen(e)' \subseteq sent'
    BY <1>1, <1>6, <1>7 DEF OnceInv
  <1>9. ASSUME NEW e \in Channel, NEW f \in Channel, e # f PROVE Seen(e)' \cap Seen(f)' = {}
    <2>1. Seen(e) \cap Seen(f) = {} /\ m \notin Seen(e) /\ m \notin Seen(f)
      BY <1>1, <1>9 DEF OnceInv
    <2>2. CASE e = c
      BY <1>6, <1>7, <1>9, <2>1, <2>2
    <2>3. CASE f = c
      BY <1>6, <1>7, <1>9, <2>1, <2>3
    <2> QED BY <1>7, <2>1, <2>2, <2>3
  <1>10. OnceInv'
    BY <1>8, <1>9 DEF OnceInv
  <1> QED BY <1>1, <1>10, NoneTaken

(* The Pump moves the head of the queue to the end of what was consumed:    *)
(* whatever is ahead of it has been consumed.                               *)
LEMMA TakeOnce ==
  ASSUME TypeOK, OnceInv, NEW c \in Channel, PumpTake(c)
  PROVE  OnceInv' /\ NoOvertaking
  <1> DEFINE q == queue[c]
             k == consumed[c]
             h == Head(queue[c])
             t == Tail(queue[c])
             n == Append(consumed[c], Head(queue[c]))
  <1>1. /\ q \in Seq(Message) /\ q # <<>> /\ k \in Seq(Message)
        /\ queue'[c] = t /\ consumed'[c] = n /\ deferred' = deferred /\ sent' = sent
        /\ \A e \in Channel \ {c} : queue'[e] = queue[e] /\ consumed'[e] = consumed[e]
    BY DEF TypeOK, PumpTake, gate
  <1>2. h \in Message
    BY <1>1
  <1>3. /\ Once(k) /\ Once(q) /\ Once(deferred[c]) /\ Apart(k, q)
        /\ Apart(k, deferred[c]) /\ Apart(q, deferred[c])
    BY DEF OnceInv, OnceOf
  <1>4. /\ \A x : Has(q, x) <=> x = h \/ Has(t, x)
        /\ Once(t) /\ ~Has(t, h) /\ \A x : ~Leads(q, x, h)
    BY <1>1, <1>3, TailOnce
  <1>5. ~Has(k, h)
    BY <1>2, <1>3, <1>4 DEF Apart
  <1>6. /\ \A x : Has(n, x) <=> Has(k, x) \/ x = h
        /\ Once(n)
        /\ \A x, y : Leads(k, x, y) \/ (Has(k, x) /\ y = h) => Leads(n, x, y)
    BY <1>1, <1>2, <1>3, <1>5, AppendOnce
  <1>7. OnceOf(c)' /\ Seen(c)' = Seen(c)
    <2> HIDE DEF q, k, h, t, n
    <2>1. Apart(n, t) /\ Apart(n, deferred[c]) /\ Apart(t, deferred[c])
      BY <1>3, <1>4, <1>6 DEF Apart
    <2>2. OnceOf(c)'
      BY <1>1, <1>3, <1>4, <1>6, <2>1 DEF OnceOf
    <2>3. \A x : Has(n, x) \/ Has(t, x) <=> Has(k, x) \/ Has(q, x)
      BY <1>4, <1>6
    <2>4. Seen(c)' = Seen(c)
      BY <1>1, <2>3 DEF Seen, k, q
    <2> QED BY <2>2, <2>4
  <1>8. \A e \in Channel \ {c} : OnceOf(e)' /\ Seen(e)' = Seen(e)
    BY <1>1 DEF OnceInv, OnceOf, Seen
  <1>9. OnceInv'
    <2>1. \A e \in Channel : OnceOf(e)' /\ Seen(e)' = Seen(e)
      BY <1>7, <1>8
    <2> QED BY <1>1, <2>1, Zenon DEF OnceInv
  <1>10. ASSUME NEW e \in Channel, NEW x \in Message, NEW y \in Message,
                Ahead(e, x, y), Has(consumed'[e], y)
         PROVE  Leads(consumed'[e], x, y)
    <2>1. Has(consumed[e], y) => ~Has(queue[e], y)
      BY DEF OnceInv, OnceOf, Apart
    <2>2. Leads(queue[e], x, y) => Has(queue[e], y)
      BY DEF Leads, Has
    <2>3. CASE e # c
      BY <1>1, <1>10, <2>1, <2>2, <2>3 DEF Ahead
    <2>4. CASE e = c /\ y = h
      <3>1. Has(k, x) \/ Leads(k, x, y)
        BY <1>4, <1>10, <2>4 DEF Ahead
      <3> QED BY <1>1, <1>6, <2>4, <3>1
    <2>5. CASE e = c /\ y # h
      <3>1. Has(k, y)
        BY <1>1, <1>6, <1>10, <2>5
      <3>2. Leads(k, x, y)
        BY <1>10, <2>1, <2>2, <2>5, <3>1 DEF Ahead
      <3> QED BY <1>1, <1>6, <2>5, <3>2
    <2> QED BY <2>3, <2>4, <2>5
  <1> QED BY <1>9, <1>10 DEF NoOvertaking

(* Every step keeps the order. *)
LEMMA NextOnce == TypeOK /\ OnceInv /\ [Next]_vars => OnceInv' /\ NoOvertaking
  <1> SUFFICES ASSUME TypeOK, OnceInv, [Next]_vars PROVE OnceInv' /\ NoOvertaking
    OBVIOUS
  <1>1. CASE UNCHANGED vars
    BY <1>1, DropOnce DEF vars
  <1>2. ASSUME NEW d \in Channel, NEW m \in Message, Send(d, m) PROVE OnceInv' /\ NoOvertaking
    BY <1>1, <1>2, SendOnce DEF Send, SendRefused
  <1>3. ASSUME NEW d \in Channel,
               Close(d) \/ Cancel(d) \/ PostFail(d) \/ SyncFailed(d) \/ AsyncThrow(d)
        PROVE OnceInv' /\ NoOvertaking
    <2>1. consumed' = consumed /\ sent' = sent
          /\ \E s \in {"Closed", "Cancelled"} : Stop(d, s)
      BY <1>3 DEF Close, Cancel, PostFail, SyncFailed, AsyncThrow, gate, flow
    <2>2. \A c \in Channel : /\ queue'[c] \in {queue[c], <<>>}
                             /\ deferred'[c] \in {deferred[c], <<>>}
      BY <2>1 DEF Stop, TypeOK
    <2> QED BY <2>1, <2>2, DropOnce
  <1>4. ASSUME NEW d \in Channel,
               \/ ResetGate(d) \/ PostOk(d) \/ PumpStart(d)
               \/ PumpRest(d) \/ PumpYield(d) \/ AsyncReturn(d)
               \/ \E ok \in BOOLEAN : SyncDone(d, ok)
               \/ (\E m \in Message : AsyncComplete(d, m)) \/ AsyncThrowComplete(d)
        PROVE OnceInv' /\ NoOvertaking
    <2>1. consumed' = consumed /\ queue' = queue /\ deferred' = deferred /\ sent' = sent
      BY <1>4 DEF ResetGate, PostOk, PumpStart, PumpRest, PumpYield, AsyncReturn, SyncDone,
         AsyncComplete, AsyncThrowComplete, gate, flow
    <2> QED BY <2>1, DropOnce
  <1>5. ASSUME NEW d \in Channel, PumpTake(d) PROVE OnceInv' /\ NoOvertaking
    BY <1>5, TakeOnce
  <1> QED BY <1>1, <1>2, <1>3, <1>4, <1>5 DEF Next

(* Nothing is known to a channel at first. *)
LEMMA InitOnce == Init => OnceInv
  <1> SUFFICES ASSUME Init PROVE OnceInv
    OBVIOUS
  <1>1. Once(<<>>) /\ \A x : ~Has(<<>>, x)
    BY DEF Once, Has
  <1>2. \A c \in Channel : queue[c] = <<>> /\ deferred[c] = <<>> /\ consumed[c] = <<>>
    BY DEF Init
  <1>3. \A c \in Channel : OnceOf(c) /\ Seen(c) = {}
    BY <1>1, <1>2 DEF OnceOf, Apart, Seen
  <1> QED BY <1>3 DEF OnceInv

(* A message that was accepted is given to the consumer of one channel, once *)
(* at most, whatever posts, throws, completes twice or stops: what has been *)
(* consumed is neither queued nor parked any more.                          *)
THEOREM AtMostOnce == Spec => []ConsumedOnce
  <1>1. TypeOK /\ OnceInv => ConsumedOnce
    <2> SUFFICES ASSUME TypeOK, OnceInv, NEW c \in Channel, NEW i \in 1..Len(consumed[c])
                 PROVE  /\ ~Has(queue[c], consumed[c][i]) /\ ~Has(deferred[c], consumed[c][i])
                        /\ \A d \in Channel : \A j \in 1..Len(consumed[d]) :
                              consumed[c][i] = consumed[d][j] => c = d /\ i = j
      BY DEF ConsumedOnce
    <2>1. consumed[c][i] \in Message /\ Has(consumed[c], consumed[c][i])
      BY DEF TypeOK, Has
    <2>2. ~Has(queue[c], consumed[c][i]) /\ ~Has(deferred[c], consumed[c][i])
      BY <2>1 DEF OnceInv, OnceOf, Apart
    <2>3. ASSUME NEW d \in Channel, NEW j \in 1..Len(consumed[d]),
                 consumed[c][i] = consumed[d][j]
          PROVE  c = d /\ i = j
      <3>1. Has(consumed[d], consumed[c][i])
        BY <2>3 DEF Has
      <3>2. c = d
        BY <2>1, <3>1 DEF OnceInv, Seen
      <3>3. Once(consumed[c])
        BY DEF OnceInv, OnceOf
      <3> QED BY <2>3, <3>2, <3>3 DEF Once
    <2> QED BY <2>2, <2>3
  <1> QED BY <1>1, InitOnce, NextOnce, ChannelTypeCorrect, PTL DEF Spec

(* A channel is first in, first out: while messages are sent, parked, let    *)
(* through the gate and dropped, none is consumed before one that was ahead *)
(* of it in the queue.                                                      *)
THEOREM FirstInFirstOut == Spec => [][NoOvertaking]_vars
  <1>1. TypeOK /\ OnceInv /\ [Next]_vars => [NoOvertaking]_vars
    BY NextOnce
  <1> QED BY <1>1, InitOnce, NextOnce, ChannelTypeCorrect, PTL DEF Spec

-----------------------------------------------------------------------------
(* Sums.  SizeOf and SumOver are recursive functions; what they compute is   *)
(* shown by induction over the natural numbers, taken from the library's     *)
(* theorem that a nonempty set of them has a least element.                 *)

(* A set of numbers with 0 and with every successor is all of them. *)
LEMMA Induction ==
  ASSUME NEW S \in SUBSET Nat, 0 \in S, \A n \in S : n + 1 \in S
  PROVE  \A n \in Nat : n \in S
  <1> DEFINE R == {ss \in Nat \X Nat : ss[1] < ss[2]}
             T == Nat \ S
  <1>1. IsWellFoundedOn(R, Nat)
    BY NatLessThanWellFounded DEF OpToRel
  <1> SUFFICES ASSUME T # {} PROVE FALSE
    OBVIOUS
  <1> HIDE DEF R
  <1>2. PICK x \in T : \A y \in T : ~(<<y, x>> \in R)
    <2>1. T \subseteq Nat
      OBVIOUS
    <2> HIDE DEF T
    <2> QED BY <1>1, <2>1, WFMin
  <1>3. \A y \in T : ~(y < x)
    BY <1>2 DEF R
  <1>4. x # 0 /\ x - 1 \in Nat
    BY <1>2
  <1> QED BY <1>2, <1>3, <1>4

(* f holds the partial sums of the sizes of s. *)
Sums(s, f) ==
    /\ f \in [0..Len(s) -> Nat] /\ f[0] = 0
    /\ \A n \in 1..Len(s) : f[n] = f[n - 1] + Size[s[n]]

\* Every queue has partial sums of its sizes, by induction on its length.
LEMMA SumsExist ==
  ASSUME NEW s \in Seq(Message)
  PROVE  \E f : Sums(s, f)
  <1> DEFINE Upto(n, f) == /\ f \in [0..n -> Nat] /\ f[0] = 0
                           /\ \A k \in 1..n : f[k] = f[k - 1] + Size[s[k]]
             S == {n \in Nat : n <= Len(s) => \E f : Upto(n, f)}
  <1>0. Len(s) \in Nat /\ \A k \in 1..Len(s) : Size[s[k]] \in Nat
    BY ChannelAssumption
  <1> HIDE DEF Upto
  <1>1. 0 \in S
    <2>1. Upto(0, [k \in 0..0 |-> 0])
      BY DEF Upto
    <2> QED BY <2>1
  <1>2. ASSUME NEW n \in S PROVE n + 1 \in S
    <2> SUFFICES ASSUME n + 1 <= Len(s) PROVE \E f : Upto(n + 1, f)
      OBVIOUS
    <2>1. n \in Nat /\ n + 1 \in 1..Len(s) /\ Size[s[n + 1]] \in Nat
      BY <1>0
    <2>2. PICK f : Upto(n, f)
      BY <1>0, <2>1
    <2> DEFINE g == [k \in 0..(n + 1) |-> IF k = n + 1 THEN f[n] + Size[s[n + 1]] ELSE f[k]]
    <2>3. f[n] \in Nat
      BY <2>1, <2>2 DEF Upto
    <2>4. g \in [0..(n + 1) -> Nat] /\ g[0] = 0
      BY <2>1, <2>2, <2>3 DEF Upto
    <2>5. ASSUME NEW k \in 1..(n + 1) PROVE g[k] = g[k - 1] + Size[s[k]]
      BY <2>1, <2>2 DEF Upto
    <2>6. Upto(n + 1, g)
      BY <2>4, <2>5 DEF Upto
    <2> QED BY <2>6
  <1>3. \A n \in Nat : n \in S
    <2> HIDE DEF S
    <2>1. S \in SUBSET Nat
      BY DEF S
    <2> QED BY <1>1, <1>2, <2>1, Induction
  <1>4. Len(s) \in S
    BY <1>0, <1>3
  <1> QED BY <1>4 DEF Sums, Upto

(* SizeOf is the last of the partial sums. *)
LEMMA SizeOfIs ==
  ASSUME NEW s \in Seq(Message), NEW f, Sums(s, f)
  PROVE  SizeOf(s) = f[Len(s)] /\ SizeOf(s) \in Nat
  <1> DEFINE Step(g) == [n \in 0..Len(s) |-> IF n = 0 THEN 0 ELSE g[n - 1] + Size[s[n]]]
             h == CHOOSE g : g = Step(g)
  <1>0. Len(s) \in Nat /\ \A k \in 1..Len(s) : Size[s[k]] \in Nat
    BY ChannelAssumption
  <1>1. f = Step(f)
    BY <1>0 DEF Sums
  <1>2. h = Step(h)
    <2> HIDE DEF Step
    <2> QED BY <1>1
  <1>3. SizeOf(s) = h[Len(s)]
    BY DEF SizeOf
  <1> HIDE DEF h
  <1> DEFINE S == {n \in Nat : n <= Len(s) => h[n] = f[n]}
  <1>4. 0 \in S
    BY <1>0, <1>2 DEF Sums
  <1>5. ASSUME NEW n \in S PROVE n + 1 \in S
    BY <1>0, <1>2 DEF Sums
  <1>6. \A n \in Nat : n \in S
    <2> HIDE DEF S
    <2>1. S \in SUBSET Nat
      BY DEF S
    <2> QED BY <1>4, <1>5, <2>1, Induction
  <1>7. h[Len(s)] = f[Len(s)]
    BY <1>0, <1>6
  <1> QED BY <1>0, <1>3, <1>7 DEF Sums

(* The empty list has no bytes. *)
LEMMA SizeOfEmpty == SizeOf(<<>>) = 0
  <1>0. <<>> \in Seq(Message) /\ Len(<<>>) = 0
    OBVIOUS
  <1>1. PICK f : Sums(<<>>, f)
    BY <1>0, SumsExist
  <1>2. SizeOf(<<>>) = f[Len(<<>>)]
    BY <1>0, <1>1, SizeOfIs
  <1> QED BY <1>0, <1>1, <1>2 DEF Sums

(* The bytes of a list are a natural number. *)
LEMMA SizeOfType == ASSUME NEW s \in Seq(Message) PROVE SizeOf(s) \in Nat
  BY SumsExist, SizeOfIs

(* An appended item adds its bytes. *)
LEMMA SizeOfAppend ==
  ASSUME NEW s \in Seq(Message), NEW m \in Message
  PROVE  SizeOf(Append(s, m)) = SizeOf(s) + Size[m]
  <1> DEFINE t == Append(s, m)
  <1>1. /\ Len(s) \in Nat /\ Len(t) = Len(s) + 1 /\ t \in Seq(Message)
        /\ (\A i \in 1..Len(s) : t[i] = s[i]) /\ t[Len(s) + 1] = m
    OBVIOUS
  <1> HIDE DEF t
  <1>2. Size[m] \in Nat
    BY ChannelAssumption
  <1>3. PICK f : Sums(s, f)
    BY SumsExist
  <1>4. SizeOf(s) = f[Len(s)] /\ SizeOf(s) \in Nat
    BY <1>3, SizeOfIs
  <1> DEFINE g == [n \in 0..Len(t) |-> IF n = Len(t) THEN SizeOf(s) + Size[m] ELSE f[n]]
  <1>5. Sums(t, g)
    <2>1. g \in [0..Len(t) -> Nat] /\ g[0] = 0
      BY <1>1, <1>2, <1>3, <1>4 DEF Sums
    <2>2. ASSUME NEW n \in 1..Len(t) PROVE g[n] = g[n - 1] + Size[t[n]]
      BY SMTT(30), <1>1, <1>3, <1>4 DEF Sums
    <2> HIDE DEF g
    <2> QED BY <2>1, <2>2 DEF Sums
  <1>6. g[Len(t)] = SizeOf(s) + Size[m]
    BY <1>1
  <1> HIDE DEF g
  <1>7. SizeOf(t) = g[Len(t)]
    BY <1>1, <1>5, SizeOfIs
  <1> QED BY <1>6, <1>7 DEF t

(* Taking the head off removes its bytes. *)
LEMMA SizeOfTail ==
  ASSUME NEW s \in Seq(Message), s # <<>>
  PROVE  SizeOf(s) = Size[Head(s)] + SizeOf(Tail(s))
  <1> DEFINE t == Tail(s)
             m == Head(s)
  <1>1. /\ Len(s) \in Nat /\ Len(s) > 0 /\ Len(t) = Len(s) - 1 /\ t \in Seq(Message)
        /\ (\A i \in 1..Len(t) : t[i] = s[i + 1]) /\ s[1] = m /\ m \in Message
    OBVIOUS
  <1> HIDE DEF t, m
  <1>2. Size[m] \in Nat
    BY <1>1, ChannelAssumption
  <1>3. PICK f : Sums(t, f)
    BY <1>1, SumsExist
  <1>4. SizeOf(t) = f[Len(t)] /\ SizeOf(t) \in Nat
    BY <1>1, <1>3, SizeOfIs
  <1> DEFINE g == [n \in 0..Len(s) |-> IF n = 0 THEN 0 ELSE Size[m] + f[n - 1]]
  <1>5. Sums(s, g)
    <2>0. \A n \in 1..Len(s) : f[n - 1] \in Nat
      <3>1. \A n \in 1..Len(s) : n - 1 \in 0..Len(t)
        BY <1>1
      <3> QED BY <1>3, <3>1 DEF Sums
    <2>1. g \in [0..Len(s) -> Nat] /\ g[0] = 0
      BY <1>1, <1>2, <2>0
    <2>2. ASSUME NEW n \in 1..Len(s) PROVE g[n] = g[n - 1] + Size[s[n]]
      <3>1. CASE n = 1
        <4>1. g[1] = Size[m] + f[0] /\ f[0] = 0 /\ g[0] = 0
          BY <1>1, <1>3 DEF Sums
        <4> QED BY <1>1, <1>2, <3>1, <4>1
      <3>2. CASE n # 1
        <4>1. n - 1 \in 1..Len(t) /\ t[n - 1] = s[n] /\ (n - 1) - 1 \in 0..Len(t)
          BY <1>1, <3>2
        <4>2. f[n - 1] = f[(n - 1) - 1] + Size[s[n]]
          BY <1>3, <4>1 DEF Sums
        <4>3. g[n] = Size[m] + f[n - 1] /\ g[n - 1] = Size[m] + f[(n - 1) - 1]
          BY <1>1, <3>2
        <4>4. f[(n - 1) - 1] \in Nat /\ s[n] \in Message
          BY <1>3, <4>1 DEF Sums
        <4>5. Size[s[n]] \in Nat
          BY <4>4, ChannelAssumption
        <4> HIDE DEF g
        <4> QED BY <1>2, <4>2, <4>3, <4>4, <4>5
      <3> QED BY <3>1, <3>2
    <2> HIDE DEF g
    <2> QED BY <2>1, <2>2 DEF Sums
  <1>6. g[Len(s)] = Size[m] + SizeOf(t)
    BY <1>1, <1>4
  <1> HIDE DEF g
  <1>7. SizeOf(s) = g[Len(s)]
    BY <1>5, SizeOfIs
  <1> QED BY <1>6, <1>7 DEF t, m

(* The bytes of two lists add up. *)
LEMMA SizeOfJoin ==
  ASSUME NEW s \in Seq(Message), NEW d \in Seq(Message)
  PROVE  SizeOf(s \o d) = SizeOf(s) + SizeOf(d)
  <1> DEFINE t == s \o d
  <1>1. /\ Len(s) \in Nat /\ Len(d) \in Nat /\ Len(t) = Len(s) + Len(d) /\ t \in Seq(Message)
        /\ \A i \in 1..Len(s) : t[i] = s[i]
    OBVIOUS
  <1>2. \A i \in 1..Len(t) : i > Len(s) => t[i] = d[i - Len(s)]
    BY <1>1
  <1> HIDE DEF t
  <1>3. PICK f : Sums(s, f)
    BY SumsExist
  <1>4. PICK e : Sums(d, e)
    BY SumsExist
  <1>5. /\ SizeOf(s) = f[Len(s)] /\ SizeOf(d) = e[Len(d)]
        /\ SizeOf(s) \in Nat /\ SizeOf(d) \in Nat
    BY <1>3, <1>4, SizeOfIs
  <1> DEFINE g == [n \in 0..Len(t) |-> IF n <= Len(s) THEN f[n] ELSE SizeOf(s) + e[n - Len(s)]]
  <1>6. Sums(t, g)
    <2>1. \A n \in 0..Len(s) : f[n] \in Nat
      BY <1>3 DEF Sums
    <2>2. \A n \in 0..Len(d) : e[n] \in Nat
      BY <1>4 DEF Sums
    <2>3. \A n \in 0..Len(t) : n > Len(s) => n - Len(s) \in 0..Len(d)
      BY <1>1
    <2>4. g \in [0..Len(t) -> Nat] /\ g[0] = 0
      <3>1. f[0] = 0
        BY <1>3 DEF Sums
      <3> QED BY <1>1, <1>5, <2>1, <2>2, <2>3, <3>1
    <2>5. ASSUME NEW n \in 1..Len(t) PROVE g[n] = g[n - 1] + Size[t[n]]
      <3>1. CASE n <= Len(s)
        <4>1. n \in 1..Len(s) /\ t[n] = s[n] /\ n - 1 \in 0..Len(t) /\ n - 1 <= Len(s)
          BY <1>1, <3>1
        <4>2. g[n] = f[n] /\ g[n - 1] = f[n - 1]
          BY <3>1, <4>1
        <4> HIDE DEF g
        <4> QED BY <1>3, <4>1, <4>2 DEF Sums
      <3>2. CASE n > Len(s)
        <4> DEFINE k == n - Len(s)
        <4>1. k \in 1..Len(d) /\ t[n] = d[k]
          BY <1>1, <1>2, <3>2
        <4>2. e[k] = e[k - 1] + Size[d[k]] /\ e[k - 1] \in Nat /\ Size[d[k]] \in Nat
          <5> HIDE DEF k
          <5>1. d[k] \in Message /\ k - 1 \in 0..Len(d)
            BY <1>1, <4>1
          <5>2. Size[d[k]] \in Nat
            BY <5>1, ChannelAssumption
          <5> QED BY <1>4, <2>2, <4>1, <5>1, <5>2 DEF Sums
        <4>3. g[n] = SizeOf(s) + e[k]
          BY <3>2, <1>1
        <4>4. g[n - 1] = SizeOf(s) + e[k - 1]
          <5>1. CASE k = 1
            <6>1. n - 1 = Len(s) /\ n - 1 \in 0..Len(t) /\ k - 1 = 0
              BY <1>1, <5>1
            <6>2. g[n - 1] = f[Len(s)]
              BY <1>1, <6>1
            <6> QED BY <1>4, <1>5, <6>1, <6>2 DEF Sums
          <5>2. CASE k # 1
            <6>1. n - 1 \in 0..Len(t) /\ n - 1 > Len(s) /\ (n - 1) - Len(s) = k - 1
              BY <1>1, <3>2, <5>2
            <6> QED BY <1>1, <6>1
          <5> QED BY <5>1, <5>2
        <4> HIDE DEF g, k
        <4> QED BY <1>5, <4>1, <4>2, <4>3, <4>4
      <3> QED BY <1>1, <3>1, <3>2
    <2> HIDE DEF g
    <2> QED BY <2>4, <2>5 DEF Sums
  <1>7. g[Len(t)] = SizeOf(s) + SizeOf(d)
    <2>1. CASE Len(d) = 0
      BY <1>1, <1>4, <1>5, <2>1 DEF Sums
    <2>2. CASE Len(d) # 0
      <3>1. Len(t) > Len(s) /\ Len(t) - Len(s) = Len(d) /\ Len(t) \in 0..Len(t)
        BY <1>1, <2>2
      <3> QED BY <1>1, <1>5, <3>1
    <2> QED BY <2>1, <2>2
  <1> HIDE DEF g
  <1>8. SizeOf(t) = g[Len(t)]
    BY <1>1, <1>6, SizeOfIs
  <1> QED BY <1>7, <1>8 DEF t

(* The channel SumOver adds next, and the equation it is defined by. *)
Pick(S) == CHOOSE x \in S : TRUE
Added(f, g, S) == IF S = {} THEN 0 ELSE f[Pick(S)] + g[S \ {Pick(S)}]

(* Sets of channels are finite, and are left smaller by Pick. *)
LEMMA PickSmaller ==
  ASSUME NEW S \in SUBSET Channel
  PROVE  /\ Cardinality(S) \in Nat /\ Cardinality(S) <= Cardinality(Channel)
         /\ S # {} => /\ Pick(S) \in S /\ S \ {Pick(S)} \in SUBSET Channel
                      /\ Cardinality(S \ {Pick(S)}) = Cardinality(S) - 1
         /\ Cardinality(S) = 0 <=> S = {}
  <1>1. IsFiniteSet(S) /\ Cardinality(S) <= Cardinality(Channel)
    BY FiniteAssumption, FS_Subset
  <1>2. Cardinality(S) \in Nat /\ (Cardinality(S) = 0 <=> S = {})
    BY <1>1, FS_CardinalityType, FS_EmptySet
  <1>3. S # {} => Pick(S) \in S
    BY DEF Pick
  <1>4. S # {} => Cardinality(S \ {Pick(S)}) = Cardinality(S) - 1
    BY <1>1, <1>3, FS_RemoveElement
  <1> QED BY <1>1, <1>2, <1>3, <1>4

(* SumOver adds the values up one channel at a time. *)
LEMMA SumOverSteps ==
  ASSUME NEW f
  PROVE  \E h : /\ SumOver(f) = h[Channel]
                /\ \A S \in SUBSET Channel : h[S] = Added(f, h, S)
  <1> DEFINE Step(g) == [S \in SUBSET Channel |-> Added(f, g, S)]
             Good(n, g) == \A S \in SUBSET Channel : Cardinality(S) <= n => g[S] = Step(g)[S]
             N == {n \in Nat : \E g : Good(n, g) /\ g = [S \in SUBSET Channel |-> g[S]]}
  <1>1. 0 \in N
    <2> DEFINE g == [S \in SUBSET Channel |-> 0]
    <2>1. Good(0, g)
      <3>1. ASSUME NEW S \in SUBSET Channel, Cardinality(S) <= 0 PROVE S = {}
        <4>1. Cardinality(S) \in Nat /\ (Cardinality(S) = 0 <=> S = {})
          BY PickSmaller
        <4> QED BY <3>1, <4>1
      <3> QED BY <3>1 DEF Added
    <2>2. g = [S \in SUBSET Channel |-> g[S]]
      OBVIOUS
    <2> HIDE DEF g, Good
    <2> QED BY <2>1, <2>2
  <1>2. ASSUME NEW n \in N PROVE n + 1 \in N
    <2>1. PICK g : Good(n, g)
      OBVIOUS
    <2>2. ASSUME NEW S \in SUBSET Channel, Cardinality(S) <= n + 1
          PROVE  Step(g)[S] = Step(Step(g))[S]
      <3>1. CASE S = {}
        BY <3>1 DEF Added
      <3>2. CASE S # {}
        <4> DEFINE T == S \ {Pick(S)}
        <4>1. T \in SUBSET Channel /\ Cardinality(T) <= n
          BY <2>2, <3>2, PickSmaller
        <4>2. g[T] = Step(g)[T]
          BY <2>1, <4>1
        <4>3. Step(g)[S] = f[Pick(S)] + g[T]
          BY <3>2 DEF Added
        <4>4. Step(Step(g))[S] = f[Pick(S)] + Step(g)[T]
          BY <3>2 DEF Added
        <4> QED BY <4>2, <4>3, <4>4
      <3> QED BY <3>1, <3>2
    <2>3. Good(n + 1, Step(g))
      BY <2>2
    <2>4. Step(g) = [S \in SUBSET Channel |-> Step(g)[S]]
      OBVIOUS
    <2>5. \E k : Good(n + 1, k) /\ k = [S \in SUBSET Channel |-> k[S]]
      <3> DEFINE k == Step(g)
      <3>1. Good(n + 1, k) /\ k = [S \in SUBSET Channel |-> k[S]]
        BY <2>3, <2>4
      <3> HIDE DEF k, Good
      <3> QED BY <3>1
    <2> HIDE DEF Good
    <2> QED BY <2>5
  <1>3. \A n \in Nat : n \in N
    <2> HIDE DEF N
    <2>1. N \in SUBSET Nat
      BY DEF N
    <2> QED BY <1>1, <1>2, <2>1, Induction
  <1>4. Cardinality(Channel) \in N
    BY <1>3, PickSmaller
  <1>5. PICK g : Good(Cardinality(Channel), g) /\ g = [S \in SUBSET Channel |-> g[S]]
    BY <1>4
  <1>6. g = Step(g)
    BY <1>5, PickSmaller
  <1> DEFINE h == CHOOSE k : k = Step(k)
  <1>7. h = Step(h)
    <2> HIDE DEF Step
    <2> QED BY <1>6
  <1>8. SumOver(f) = h[Channel]
    BY DEF SumOver, Added, Pick
  <1> HIDE DEF h
  <1> QED BY <1>7, <1>8

(* The sum follows a change of one channel's value. *)
LEMMA SumOverChange ==
  ASSUME NEW f \in [Channel -> Int], NEW c \in Channel, NEW v \in Int
  PROVE  SumOver([f EXCEPT ![c] = v]) = SumOver(f) + (v - f[c]) /\ SumOver(f) \in Int
  <1> DEFINE e == [f EXCEPT ![c] = v]
             more(S) == IF c \in S THEN v - f[c] ELSE 0
  <1>1. PICK h : /\ SumOver(f) = h[Channel]
                 /\ \A S \in SUBSET Channel : h[S] = Added(f, h, S)
    BY SumOverSteps
  <1>2. PICK k : /\ SumOver(e) = k[Channel]
                 /\ \A S \in SUBSET Channel : k[S] = Added(e, k, S)
    <2> HIDE DEF e
    <2> QED BY SumOverSteps
  <1> DEFINE N == {n \in Nat : \A S \in SUBSET Channel :
                     Cardinality(S) = n => h[S] \in Int /\ k[S] = h[S] + more(S)}
  <1>3. 0 \in N
    <2>1. \A S \in SUBSET Channel : Cardinality(S) = 0 => S = {}
      BY PickSmaller
    <2>2. h[{}] = 0 /\ k[{}] = 0
      <3>1. {} \in SUBSET Channel
        OBVIOUS
      <3>2. h[{}] = Added(f, h, {}) /\ k[{}] = Added(e, k, {})
        BY <1>1, <1>2, <3>1
      <3> QED BY <3>2 DEF Added
    <2> QED BY <2>1, <2>2
  <1>4. ASSUME NEW n \in N PROVE n + 1 \in N
    <2> SUFFICES ASSUME NEW S \in SUBSET Channel, Cardinality(S) = n + 1
                 PROVE  h[S] \in Int /\ k[S] = h[S] + more(S)
      OBVIOUS
    <2> DEFINE x == Pick(S)
               T == S \ {x}
    <2>1. S # {} /\ x \in S /\ T \in SUBSET Channel /\ Cardinality(T) = n
      BY PickSmaller
    <2>2. h[T] \in Int /\ k[T] = h[T] + more(T)
      BY <2>1
    <2>3. h[S] = f[x] + h[T] /\ k[S] = e[x] + k[T]
      BY <1>1, <1>2, <2>1 DEF Added
    <2> HIDE DEF x, e
    <2>4. x \in Channel /\ f[x] \in Int /\ f[c] \in Int
      BY <2>1
    <2>5. CASE x = c
      <3>1. e[x] = v /\ c \notin T /\ c \in S
        BY <2>1, <2>5 DEF e
      <3>2. more(T) = 0 /\ more(S) = v - f[c]
        BY <3>1
      <3>3. h[S] = f[c] + h[T] /\ k[S] = v + h[T]
        BY <2>2, <2>3, <2>5, <3>1, <3>2
      <3>4. v + h[T] = (f[c] + h[T]) + (v - f[c])
        <4> HIDE DEF T
        <4> QED BY <2>2, <2>4
      <3>5. h[S] \in Int
        <4> HIDE DEF T
        <4> QED BY <2>2, <2>4, <3>3
      <3> QED BY <3>2, <3>3, <3>4, <3>5
    <2>6. CASE x # c
      <3>1. e[x] = f[x] /\ (c \in T <=> c \in S)
        BY <2>4, <2>6 DEF e
      <3>2. more(T) = more(S) /\ more(S) \in Int
        BY <2>4, <3>1
      <3> HIDE DEF more, T
      <3> QED BY <2>2, <2>3, <2>4, <3>1, <3>2
    <2> QED BY <2>5, <2>6
  <1>5. \A n \in Nat : n \in N
    <2> HIDE DEF N
    <2>1. N \in SUBSET Nat
      BY DEF N
    <2> QED BY <1>3, <1>4, <2>1, Induction
  <1>6. h[Channel] \in Int /\ k[Channel] = h[Channel] + (v - f[c])
    BY <1>5, PickSmaller
  <1> QED BY <1>1, <1>2, <1>6

(* Accounts that are all zero sum up to zero. *)
LEMMA SumOverZero == SumOver([c \in Channel |-> 0]) = 0
  <1> DEFINE f == [c \in Channel |-> 0]
  <1>1. PICK h : /\ SumOver(f) = h[Channel]
                 /\ \A S \in SUBSET Channel : h[S] = Added(f, h, S)
    BY SumOverSteps
  <1> DEFINE N == {n \in Nat : \A S \in SUBSET Channel : Cardinality(S) = n => h[S] = 0}
  <1>2. 0 \in N
    <2>1. \A S \in SUBSET Channel : Cardinality(S) = 0 => S = {}
      BY PickSmaller
    <2> QED BY <1>1, <2>1 DEF Added
  <1>3. ASSUME NEW n \in N PROVE n + 1 \in N
    <2> SUFFICES ASSUME NEW S \in SUBSET Channel, Cardinality(S) = n + 1 PROVE h[S] = 0
      OBVIOUS
    <2> DEFINE x == Pick(S)
               T == S \ {x}
    <2>1. S # {} /\ x \in Channel /\ T \in SUBSET Channel /\ Cardinality(T) = n
      BY PickSmaller
    <2>2. h[T] = 0 /\ h[S] = f[x] + h[T]
      BY <1>1, <2>1 DEF Added
    <2> QED BY <2>1, <2>2
  <1>4. \A n \in Nat : n \in N
    <2> HIDE DEF N
    <2>1. N \in SUBSET Nat
      BY DEF N
    <2> QED BY <1>2, <1>3, <2>1, Induction
  <1>5. h[Channel] = 0
    BY <1>4, PickSmaller
  <1> QED BY <1>1, <1>5

-----------------------------------------------------------------------------
(* The byte accounts and the shared budget. *)

BudgetInv == bytes \in [Channel -> Int] /\ budgetBytes \in Int /\ BudgetAccount

(* The bytes of the item a Pump is consuming, and of the async item out. *)
InSync(c) == IF At(c, "sync") THEN Size[item[c]] ELSE 0
Out(c) == IF pending[c] = {} THEN 0 ELSE Size[CHOOSE m \in pending[c] : TRUE]

(* HeldBytes and its parts are numbers. *)
LEMMA HeldTypes ==
  ASSUME IndInv, NEW c \in Channel
  PROVE  /\ SizeOf(queue[c]) \in Nat /\ SizeOf(deferred[c]) \in Nat
         /\ InSync(c) \in Nat /\ Out(c) \in Nat
         /\ HeldBytes(c) = SizeOf(queue[c]) + SizeOf(deferred[c]) + InSync(c) + Out(c)
  <1>1. queue[c] \in Seq(Message) /\ deferred[c] \in Seq(Message) /\ pending[c] \subseteq Message
    BY DEF IndInv, TypeOK
  <1>2. SizeOf(queue[c]) \in Nat /\ SizeOf(deferred[c]) \in Nat
    BY <1>1, SizeOfType
  <1>3. InSync(c) \in Nat
    BY ChannelAssumption DEF IndInv, ChanInv, FrameOf, InSync
  <1>4. Out(c) \in Nat
    <2>1. pending[c] # {} => (CHOOSE m \in pending[c] : TRUE) \in Message
      BY <1>1
    <2> QED BY <2>1, ChannelAssumption DEF Out
  <1>5. HeldBytes(c) = SizeOf(queue[c]) + SizeOf(deferred[c]) + InSync(c) + Out(c)
    BY DEF InSync, Out, HeldBytes
  <1> QED BY <1>2, <1>3, <1>4, <1>5

(* The state HeldBytes speaks of. *)
Goods(c) == <<queue[c], deferred[c], at[c], item[c], pending[c]>>

\* HeldBytes depends on these parts of the state only.
LEMMA GoodsHeld ==
  ASSUME NEW c \in Channel, Goods(c)' = Goods(c)
  PROVE  HeldBytes(c)' = HeldBytes(c)
  BY DEF Goods, HeldBytes, At

(* If channel c is charged b bytes and n messages, or gives them back with b *)
(* and n negative, the budget follows, within its limits.                   *)
LEMMA BudgetMoves ==
  ASSUME TypeOK, BudgetInv, NEW c \in Channel, NEW b \in Int, NEW n \in Int,
         bytes' = [bytes EXCEPT ![c] = bytes[c] + b],
         messages' = [messages EXCEPT ![c] = messages[c] + n],
         budgetBytes' = budgetBytes + b, budgetMessages' = budgetMessages + n,
         b <= 0 \/ (b <= MaxBytes - bytes[c] /\ b <= BudgetBytes - budgetBytes),
         n <= 0 \/ n <= BudgetMessages - budgetMessages,
         HeldBytes(c)' = HeldBytes(c) + b,
         \A d \in Channel \ {c} : HeldBytes(d)' = HeldBytes(d)
  PROVE  BudgetInv'
  <1>1. /\ bytes \in [Channel -> Int] /\ messages \in [Channel -> Int] /\ budgetBytes \in Int
        /\ budgetMessages \in Int
        /\ MaxBytes \in Nat /\ BudgetBytes \in Nat /\ BudgetMessages \in Nat
    BY ChannelAssumption DEF BudgetInv, TypeOK
  <1>2. bytes[c] \in Int /\ messages[c] \in Int /\ bytes[c] + b \in Int /\ messages[c] + n \in Int
    BY <1>1
  <1>3. SumOver(bytes') = SumOver(bytes) + ((bytes[c] + b) - bytes[c]) /\ SumOver(bytes) \in Int
    BY <1>1, <1>2, SumOverChange
  <1>4. SumOver(messages') = SumOver(messages) + ((messages[c] + n) - messages[c]) /\ SumOver(messages) \in Int
    BY <1>1, <1>2, SumOverChange
  <1>5. /\ budgetBytes = SumOver(bytes) /\ budgetBytes <= BudgetBytes
        /\ budgetMessages = SumOver(messages) /\ budgetMessages <= BudgetMessages
        /\ \A d \in Channel : bytes[d] = HeldBytes(d) /\ bytes[d] <= MaxBytes
    BY DEF BudgetInv, BudgetAccount
  <1>6. budgetBytes' = SumOver(bytes') /\ budgetMessages' = SumOver(messages')
    BY <1>1, <1>2, <1>3, <1>4, <1>5
  <1>7. budgetBytes' <= BudgetBytes /\ budgetMessages' <= BudgetMessages
    BY <1>1, <1>5
  <1>8. bytes' \in [Channel -> Int] /\ budgetBytes' \in Int
    BY <1>1, <1>2
  <1>9. ASSUME NEW d \in Channel PROVE bytes'[d] = HeldBytes(d)' /\ bytes'[d] <= MaxBytes
    <2>1. CASE d = c
      <3>1. bytes'[c] = bytes[c] + b
        BY <1>1
      <3>2. bytes[c] = HeldBytes(c) /\ bytes[c] <= MaxBytes
        BY <1>5
      <3> QED BY <1>1, <1>2, <2>1, <3>1, <3>2
    <2>2. CASE d # c
      <3>1. bytes'[d] = bytes[d] /\ HeldBytes(d)' = HeldBytes(d)
        BY <1>1, <2>2
      <3> QED BY <1>5, <3>1
    <2> QED BY <2>1, <2>2
  <1> QED BY <1>6, <1>7, <1>8, <1>9 DEF BudgetInv, BudgetAccount

(* What Release does to the four accounts. *)
LEMMA ReleaseIs ==
  ASSUME TypeOK, BudgetInv, NEW c \in Channel, NEW b \in Nat, NEW n \in Nat, Release(c, b, n)
  PROVE  /\ bytes' = [bytes EXCEPT ![c] = bytes[c] + (-b)]
         /\ messages' = [messages EXCEPT ![c] = messages[c] + (-n)]
         /\ budgetBytes' = budgetBytes + (-b) /\ budgetMessages' = budgetMessages + (-n)
  <1>1. bytes[c] \in Int /\ messages[c] \in Int /\ budgetBytes \in Int /\ budgetMessages \in Int
    BY DEF BudgetInv, TypeOK
  <1>2. bytes[c] - b = bytes[c] + (-b) /\ messages[c] - n = messages[c] + (-n)
        /\ budgetBytes - b = budgetBytes + (-b) /\ budgetMessages - n = budgetMessages + (-n)
    BY <1>1
  <1> QED BY <1>2 DEF Release

(* A step that keeps the accounts and what every channel holds. *)
LEMMA BudgetRests ==
  ASSUME BudgetInv, UNCHANGED account, \A d \in Channel : HeldBytes(d)' = HeldBytes(d)
  PROVE  BudgetInv'
  BY DEF BudgetInv, BudgetAccount, account

(* Stop gives back exactly what the two lists hold. *)
LEMMA StopBudget ==
  ASSUME IndInv, BudgetInv, NEW c \in Channel, NEW s \in {"Closed", "Cancelled"}, Stop(c, s),
         InSync(c)' = InSync(c), Out(c)' = Out(c),
         \A d \in Channel \ {c} : UNCHANGED <<at[d], item[d], pending[d]>>
  PROVE  BudgetInv'
  <1>0. TypeOK
    BY DEF IndInv
  <1>1. ASSUME NEW d \in Channel \ {c} PROVE HeldBytes(d)' = HeldBytes(d)
    <2>1. queue'[d] = queue[d] /\ deferred'[d] = deferred[d]
      BY <1>0 DEF Stop, TypeOK
    <2> QED BY <2>1, GoodsHeld DEF Goods
  <1>2. HeldBytes(c)' = SizeOf(queue'[c]) + SizeOf(deferred'[c]) + InSync(c) + Out(c)
    BY DEF HeldBytes, InSync, Out
  <1>3. /\ SizeOf(queue[c]) \in Nat /\ SizeOf(deferred[c]) \in Nat
        /\ InSync(c) \in Nat /\ Out(c) \in Nat
        /\ HeldBytes(c) = SizeOf(queue[c]) + SizeOf(deferred[c]) + InSync(c) + Out(c)
    BY HeldTypes
  <1>4. CASE status[c] # "Accepted"
    <2>1. UNCHANGED <<queue, deferred, account>>
      BY <1>4 DEF Stop
    <2>2. HeldBytes(c)' = HeldBytes(c)
      BY <1>2, <1>3, <2>1
    <2> QED BY <1>1, <2>1, <2>2, BudgetRests
  <1>5. CASE status[c] = "Accepted"
    <2> DEFINE b == SizeOf(queue[c]) + SizeOf(deferred[c])
               n == Len(queue[c]) + Len(deferred[c])
    <2>1. queue'[c] = <<>> /\ deferred'[c] = <<>> /\ Release(c, b, n)
      BY <1>0, <1>5 DEF Stop, ReturnUnconsumed, TypeOK
    <2>2. b \in Nat /\ n \in Nat
      BY <1>0, <1>3 DEF TypeOK
    <2>3. HeldBytes(c)' = HeldBytes(c) + (-b)
      BY <1>2, <1>3, <2>1, SizeOfEmpty
    <2> HIDE DEF b, n
    <2>4. /\ bytes' = [bytes EXCEPT ![c] = bytes[c] + (-b)]
          /\ messages' = [messages EXCEPT ![c] = messages[c] + (-n)]
          /\ budgetBytes' = budgetBytes + (-b) /\ budgetMessages' = budgetMessages + (-n)
      BY <2>1, <2>2, ReleaseIs DEF IndInv
    <2>5. -b \in Int /\ -n \in Int /\ -b <= 0 /\ -n <= 0
      BY <2>2
    <2> QED BY <1>0, <1>1, <2>3, <2>4, <2>5, BudgetMoves
  <1> QED BY <1>4, <1>5

(* Send charges the message it files. *)
LEMMA SendBudget ==
  ASSUME IndInv, BudgetInv, NEW c \in Channel, NEW m \in Message, SendAccepted(c, m)
  PROVE  BudgetInv'
  <1>0. TypeOK /\ UNCHANGED <<at, item, pending>>
    BY DEF IndInv, SendAccepted, frame
  <1> DEFINE q == queue[c]
             d == deferred[c]
             b == Size[m]
  <1>1. q \in Seq(Message) /\ d \in Seq(Message) /\ b \in Nat
    BY <1>0, ChannelAssumption DEF TypeOK
  <1>2. /\ SizeOf(q) \in Nat /\ SizeOf(d) \in Nat /\ InSync(c) \in Nat /\ Out(c) \in Nat
        /\ HeldBytes(c) = SizeOf(q) + SizeOf(d) + InSync(c) + Out(c)
    BY HeldTypes
  <1>3. HeldBytes(c)' = SizeOf(queue'[c]) + SizeOf(deferred'[c]) + InSync(c) + Out(c)
    BY <1>0 DEF HeldBytes, InSync, Out, At
  <1>4. Enqueue(c, m)
    BY DEF SendAccepted
  <1>5. ASSUME NEW e \in Channel \ {c} PROVE HeldBytes(e)' = HeldBytes(e)
    <2>1. queue'[e] = queue[e] /\ deferred'[e] = deferred[e]
      BY <1>0, <1>4 DEF Enqueue, TypeOK
    <2> QED BY <1>0, <2>1, GoodsHeld DEF Goods
  <1>6. \/ queue'[c] = q /\ deferred'[c] = Append(d, m)
        \/ queue'[c] = Append(q, m) \o d /\ deferred'[c] = <<>>
        \/ queue'[c] = Append(q, m) /\ deferred'[c] = d
    BY <1>0, <1>4 DEF Enqueue, Opened, TypeOK
  <1>7. SizeOf(queue'[c]) + SizeOf(deferred'[c]) = SizeOf(q) + SizeOf(d) + b
    <2>1. SizeOf(Append(q, m)) = SizeOf(q) + b /\ SizeOf(Append(d, m)) = SizeOf(d) + b
      BY <1>1, SizeOfAppend
    <2>2. Append(q, m) \in Seq(Message)
      BY <1>1
    <2>3. SizeOf(Append(q, m) \o d) = SizeOf(Append(q, m)) + SizeOf(d)
      BY <1>1, <2>2, SizeOfJoin
    <2>4. CASE queue'[c] = q /\ deferred'[c] = Append(d, m)
      <3>1. SizeOf(queue'[c]) = SizeOf(q) /\ SizeOf(deferred'[c]) = SizeOf(d) + b
        BY <2>1, <2>4
      <3> HIDE DEF q, d, b
      <3> QED BY <1>1, <1>2, <3>1
    <2>5. CASE queue'[c] = Append(q, m) \o d /\ deferred'[c] = <<>>
      <3>1. SizeOf(queue'[c]) = (SizeOf(q) + b) + SizeOf(d) /\ SizeOf(deferred'[c]) = 0
        BY <2>1, <2>3, <2>5, SizeOfEmpty
      <3> HIDE DEF q, d, b
      <3> QED BY <1>1, <1>2, <3>1
    <2>6. CASE queue'[c] = Append(q, m) /\ deferred'[c] = d
      <3>1. SizeOf(queue'[c]) = SizeOf(q) + b /\ SizeOf(deferred'[c]) = SizeOf(d)
        BY <2>1, <2>6
      <3> HIDE DEF q, d, b
      <3> QED BY <1>1, <1>2, <3>1
    <2> QED BY <1>6, <2>4, <2>5, <2>6
  <1> HIDE DEF q, d
  <1>8. HeldBytes(c)' = HeldBytes(c) + b
    <2> HIDE DEF b
    <2>1. HeldBytes(c)' = (SizeOf(q) + SizeOf(d) + b) + InSync(c) + Out(c)
      BY <1>3, <1>7
    <2> QED BY <1>1, <1>2, <2>1
  <1>9. /\ bytes' = [bytes EXCEPT ![c] = bytes[c] + b]
        /\ messages' = [messages EXCEPT ![c] = messages[c] + 1]
        /\ budgetBytes' = budgetBytes + b /\ budgetMessages' = budgetMessages + 1
    BY DEF SendAccepted, Charge
  <1>10. b <= MaxBytes - bytes[c] /\ b <= BudgetBytes - budgetBytes /\ 1 <= BudgetMessages - budgetMessages
    <2>1. /\ b <= MaxBytes - bytes[c] /\ b <= BudgetBytes - budgetBytes
          /\ budgetMessages < BudgetMessages
      BY DEF SendAccepted, HasRoom, BudgetHasRoom
    <2> QED BY <1>0, <2>1, ChannelAssumption DEF TypeOK
  <1>11. b \in Int /\ 1 \in Int
    BY <1>1
  <1> HIDE DEF b
  <1> QED BY <1>0, <1>5, <1>8, <1>9, <1>10, <1>11, BudgetMoves

(* An item that is taken is held by the callback instead of the queue. *)
LEMMA TakeBudget ==
  ASSUME IndInv, BudgetInv, NEW c \in Channel, PumpTake(c)
  PROVE  BudgetInv'
  <1>0. TypeOK /\ ChanInv(c)
    BY DEF IndInv
  <1> DEFINE q == queue[c]
             m == Head(q)
  <1>1. /\ q \in Seq(Message) /\ q # <<>> /\ queue'[c] = Tail(q) /\ UNCHANGED <<deferred, account>>
    BY <1>0 DEF PumpTake, TypeOK
  <1>2. SizeOf(q) = Size[m] + SizeOf(queue'[c]) /\ m \in Message /\ Tail(q) \in Seq(Message)
    BY <1>1, SizeOfTail
  <1>3. SizeOf(queue'[c]) \in Nat /\ Size[m] \in Nat
    BY <1>1, <1>2, SizeOfType, ChannelAssumption
  <1>4. at[c] = "loop" /\ pending[c] = {}
    <2>1. at[c] = "loop" /\ InLoop(c) = 1
      BY DEF PumpTake, At, InLoop
    <2>2. Duties(c) <= 1 /\ posting[c] \in Nat /\ posted[c] \in Nat
      BY <1>0 DEF ChanInv, DutyOf, TypeOK
    <2>3. InFlight(c) = 0
      BY <2>1, <2>2 DEF Duties, InFlight
    <2> QED BY <2>1, <2>3 DEF InFlight
  <1>5. InSync(c) = 0 /\ Out(c) = 0
    BY <1>4 DEF InSync, Out, At
  <1>6. InSync(c)' + Out(c)' = Size[m]
    <2>1. CASE c \in AsyncChannel
      <3>1. at'[c] = "async" /\ pending'[c] = {m}
        BY <1>0, <1>4, <2>1 DEF PumpTake, TypeOK
      <3>2. InSync(c)' = 0 /\ Out(c)' = Size[m]
        BY <3>1 DEF InSync, Out, At
      <3> QED BY <1>3, <3>2
    <2>2. CASE c \notin AsyncChannel
      <3>1. at'[c] = "sync" /\ pending'[c] = {} /\ item'[c] = m
        BY <1>0, <1>4, <2>2 DEF PumpTake, TypeOK
      <3>2. InSync(c)' = Size[m] /\ Out(c)' = 0
        BY <3>1 DEF InSync, Out, At
      <3> QED BY <1>3, <3>2
    <2> QED BY <2>1, <2>2
  <1>7. InSync(c)' \in Nat /\ Out(c)' \in Nat
    <2>1. CASE c \in AsyncChannel
      BY <1>0, <1>3, <1>4, <2>1 DEF PumpTake, TypeOK, InSync, Out, At
    <2>2. CASE c \notin AsyncChannel
      BY <1>0, <1>3, <1>4, <2>2 DEF PumpTake, TypeOK, InSync, Out, At
    <2> QED BY <2>1, <2>2
  <1>8. HeldBytes(c)' = HeldBytes(c)
    <2>1. HeldBytes(c)' = SizeOf(queue'[c]) + SizeOf(deferred[c]) + InSync(c)' + Out(c)'
      BY <1>1 DEF HeldBytes, InSync, Out
    <2>2. HeldBytes(c) = SizeOf(q) + SizeOf(deferred[c]) + InSync(c) + Out(c)
          /\ SizeOf(deferred[c]) \in Nat
      BY HeldTypes
    <2> HIDE DEF q, m
    <2> QED BY <1>2, <1>3, <1>5, <1>6, <1>7, <2>1, <2>2
  <1>9. ASSUME NEW d \in Channel, d # c PROVE HeldBytes(d)' = HeldBytes(d)
    <2>1. Goods(d)' = Goods(d)
      BY <1>0, <1>9 DEF PumpTake, TypeOK, Goods
    <2> QED BY <2>1, GoodsHeld
  <1> QED BY <1>1, <1>8, <1>9, BudgetRests

(* A consumed item is given back. *)
LEMMA SyncDoneBudget ==
  ASSUME IndInv, BudgetInv, NEW c \in Channel, NEW ok \in BOOLEAN, SyncDone(c, ok)
  PROVE  BudgetInv'
  <1>0. TypeOK /\ ChanInv(c)
    BY DEF IndInv
  <1> DEFINE b == Size[item[c]]
  <1>1. /\ At(c, "sync") /\ Release(c, b, 1) /\ at'[c] # "sync" /\ UNCHANGED <<queue, deferred, pending>>
    BY <1>0 DEF SyncDone, TypeOK
  <1>2. b \in Nat /\ InSync(c) = b /\ InSync(c)' = 0 /\ Out(c)' = Out(c)
    BY <1>0, <1>1, ChannelAssumption DEF ChanInv, FrameOf, InSync, Out, At
  <1>3. HeldBytes(c)' = HeldBytes(c) + (-b)
    <2>1. HeldBytes(c)' = SizeOf(queue[c]) + SizeOf(deferred[c]) + InSync(c)' + Out(c)'
      BY <1>1 DEF HeldBytes, InSync, Out
    <2>2. /\ SizeOf(queue[c]) \in Nat /\ SizeOf(deferred[c]) \in Nat /\ Out(c) \in Nat
          /\ HeldBytes(c) = SizeOf(queue[c]) + SizeOf(deferred[c]) + InSync(c) + Out(c)
      BY HeldTypes
    <2> HIDE DEF b
    <2> QED BY <1>2, <2>1, <2>2
  <1>4. ASSUME NEW d \in Channel \ {c} PROVE HeldBytes(d)' = HeldBytes(d)
    <2>1. Goods(d)' = Goods(d)
      BY <1>0 DEF SyncDone, TypeOK, Goods
    <2> QED BY <2>1, GoodsHeld
  <1> HIDE DEF b
  <1>5. /\ bytes' = [bytes EXCEPT ![c] = bytes[c] + (-b)]
        /\ messages' = [messages EXCEPT ![c] = messages[c] + (-1)]
        /\ budgetBytes' = budgetBytes + (-b) /\ budgetMessages' = budgetMessages + (-1)
    BY <1>0, <1>1, <1>2, ReleaseIs
  <1>6. -b \in Int /\ -b <= 0 /\ -1 \in Int /\ -1 <= 0
    BY <1>2
  <1> QED BY <1>0, <1>3, <1>4, <1>5, <1>6, BudgetMoves

(* The first completion of an async item gives it back, a later one nothing. *)
LEMMA CompleteBudget ==
  ASSUME IndInv, BudgetInv, NEW c \in Channel, NEW m \in Message,
         m \in pending[c] \cup completed[c],
         Complete(c, m) \/ CompleteIsIgnored(c, m),
         UNCHANGED <<queue, deferred>>, at[c] # "sync", at'[c] # "sync",
         \A d \in Channel \ {c} : UNCHANGED <<at[d], item[d]>>
  PROVE  BudgetInv'
  <1>0. TypeOK /\ ChanInv(c)
    BY DEF IndInv
  <1>1. ASSUME NEW d \in Channel \ {c} PROVE HeldBytes(d)' = HeldBytes(d)
    <2>1. pending'[d] = pending[d]
      BY <1>0 DEF Complete, CompleteIsIgnored, TypeOK
    <2> QED BY <2>1, GoodsHeld DEF Goods
  <1>2. InSync(c) = 0 /\ InSync(c)' = 0
    BY DEF InSync, At
  <1>3. HeldBytes(c)' = SizeOf(queue[c]) + SizeOf(deferred[c]) + InSync(c)' + Out(c)'
    BY DEF HeldBytes, InSync, Out
  <1>4. /\ SizeOf(queue[c]) \in Nat /\ SizeOf(deferred[c]) \in Nat /\ Out(c) \in Nat
        /\ HeldBytes(c) = SizeOf(queue[c]) + SizeOf(deferred[c]) + InSync(c) + Out(c)
    BY HeldTypes
  <1>5. CASE CompleteIsIgnored(c, m)
    <2>1. UNCHANGED <<pending, account>>
      BY <1>5 DEF CompleteIsIgnored
    <2>2. Out(c)' = Out(c)
      BY <2>1 DEF Out
    <2>3. HeldBytes(c)' = HeldBytes(c)
      BY <1>2, <1>3, <1>4, <2>2
    <2> QED BY <1>1, <2>1, <2>3, BudgetRests
  <1>6. CASE Complete(c, m)
    <2>1. m \in pending[c] /\ pending'[c] = pending[c] \ {m} /\ Release(c, Size[m], 1)
      BY <1>0, <1>6 DEF Complete, FirstCompletion, TypeOK
    <2>2. pending[c] = {m} /\ pending'[c] = {}
      BY <1>0, <2>1 DEF ChanInv, DutyOf
    <2> DEFINE b == Size[m]
    <2>3. b \in Nat /\ Out(c) = b /\ Out(c)' = 0
      BY <2>2, ChannelAssumption DEF Out
    <2> HIDE DEF b
    <2>4. HeldBytes(c)' = HeldBytes(c) + (-b)
      BY <1>2, <1>3, <1>4, <2>3
    <2>5. /\ bytes' = [bytes EXCEPT ![c] = bytes[c] + (-b)]
          /\ messages' = [messages EXCEPT ![c] = messages[c] + (-1)]
          /\ budgetBytes' = budgetBytes + (-b) /\ budgetMessages' = budgetMessages + (-1)
      BY <1>0, <2>1, <2>3, ReleaseIs DEF b
    <2>6. -b \in Int /\ -b <= 0 /\ -1 \in Int /\ -1 <= 0
      BY <2>3
    <2> QED BY <1>0, <1>1, <2>4, <2>5, <2>6, BudgetMoves
  <1> QED BY <1>5, <1>6

(* Every step keeps the accounts. *)
LEMMA NextBudget == IndInv /\ BudgetInv /\ [Next]_vars => BudgetInv'
  <1> SUFFICES ASSUME IndInv, BudgetInv, [Next]_vars PROVE BudgetInv'
    OBVIOUS
  <1>0. TypeOK
    BY DEF IndInv
  <1>1. CASE UNCHANGED vars
    BY <1>1, BudgetRests, GoodsHeld DEF vars, account, Goods
  <1>2. ASSUME NEW c \in Channel, NEW m \in Message, Send(c, m) PROVE BudgetInv'
    BY <1>1, <1>2, SendBudget DEF Send, SendRefused
  <1>3. ASSUME NEW c \in Channel,
               Close(c) \/ Cancel(c) \/ PostFail(c) \/ SyncFailed(c) \/ AsyncThrow(c)
        PROVE BudgetInv'
    <2>1. \E s \in {"Closed", "Cancelled"} : Stop(c, s)
      BY <1>3 DEF Close, Cancel, PostFail, SyncFailed, AsyncThrow
    <2>2. pending' = pending
      BY <1>3 DEF Close, Cancel, PostFail, SyncFailed, AsyncThrow, flow
    <2>3. /\ \A d \in Channel \ {c} : UNCHANGED <<at[d], item[d]>>
          /\ \/ at' = at /\ item' = item
             \/ at[c] # "sync" /\ at'[c] # "sync"
      BY <1>0, <1>3 DEF Close, Cancel, PostFail, SyncFailed, AsyncThrow, flow, frame, Return, At, TypeOK
    <2>4. InSync(c)' = InSync(c) /\ Out(c)' = Out(c)
      BY <2>2, <2>3 DEF InSync, Out, At
    <2> QED BY <2>1, <2>2, <2>3, <2>4, StopBudget
  <1>4. ASSUME NEW c \in Channel,
               \/ ResetGate(c) \/ PostOk(c) \/ PumpStart(c)
               \/ PumpRest(c) \/ PumpYield(c) \/ AsyncReturn(c)
        PROVE BudgetInv'
    <2>1. UNCHANGED <<queue, deferred, account, pending>>
      BY <1>4 DEF ResetGate, PostOk, PumpStart, PumpRest, PumpYield, AsyncReturn, flow
    <2>2. ASSUME NEW d \in Channel PROVE HeldBytes(d)' = HeldBytes(d)
      <3>1. \/ at'[d] = at[d] /\ item'[d] = item[d]
            \/ at[d] # "sync" /\ at'[d] # "sync"
        BY <1>0, <1>4 DEF ResetGate, PostOk, PumpStart, PumpRest, PumpYield, AsyncReturn, flow, frame,
           Return, At, TypeOK
      <3>2. InSync(d)' = InSync(d) /\ Out(d)' = Out(d)
        BY <2>1, <3>1 DEF InSync, Out, At
      <3>3. HeldBytes(d)' = SizeOf(queue[d]) + SizeOf(deferred[d]) + InSync(d)' + Out(d)'
        BY <2>1 DEF HeldBytes, InSync, Out
      <3> QED BY <3>2, <3>3, HeldTypes
    <2> QED BY <2>1, <2>2, BudgetRests
  <1>5. ASSUME NEW c \in Channel, PumpTake(c) PROVE BudgetInv'
    BY <1>5, TakeBudget
  <1>6. ASSUME NEW c \in Channel, NEW ok \in BOOLEAN, SyncDone(c, ok) PROVE BudgetInv'
    BY <1>6, SyncDoneBudget
  <1>7. ASSUME NEW c \in Channel, NEW m \in Message, AsyncComplete(c, m) PROVE BudgetInv'
    <2>1. /\ UNCHANGED <<queue, deferred, at, item>> /\ m \in pending[c] \cup completed[c]
          /\ Complete(c, m) \/ CompleteIsIgnored(c, m)
      BY <1>7 DEF AsyncComplete, frame
    <2>2. CASE at[c] # "sync"
      BY <2>1, <2>2, CompleteBudget
    <2>3. CASE at[c] = "sync"
      <3>1. pending[c] = {}
        <4>1. ChanInv(c) /\ InLoop(c) = 1 /\ posting[c] \in Nat /\ posted[c] \in Nat
          BY <1>0, <2>3 DEF IndInv, InLoop, TypeOK
        <4> QED BY <4>1 DEF ChanInv, DutyOf, Duties, InFlight
      <3>2. CompleteIsIgnored(c, m)
        BY <2>1, <3>1 DEF Complete, FirstCompletion
      <3>3. UNCHANGED <<pending, account>>
        BY <3>2 DEF CompleteIsIgnored
      <3> QED BY <2>1, <3>3, BudgetRests, GoodsHeld DEF Goods
    <2> QED BY <2>2, <2>3
  <1>8. ASSUME NEW c \in Channel, AsyncThrowComplete(c) PROVE BudgetInv'
    <2>1. /\ UNCHANGED <<queue, deferred>> /\ at[c] = "throwing" /\ Return(c)
          /\ Complete(c, item[c]) \/ CompleteIsIgnored(c, item[c])
      BY <1>8 DEF AsyncThrowComplete, At
    <2>2. item[c] \in Message /\ item[c] \in pending[c] \cup completed[c]
      BY <2>1 DEF IndInv, ChanInv, FrameOf
    <2>3. at'[c] # "sync" /\ \A d \in Channel \ {c} : UNCHANGED <<at[d], item[d]>>
      BY <1>0, <2>1 DEF Return, TypeOK
    <2> QED BY <2>1, <2>2, <2>3, CompleteBudget
  <1> QED BY <1>1, <1>2, <1>3, <1>4, <1>5, <1>6, <1>7, <1>8 DEF Next

(* The shared budget neither leaks nor is released twice: it is the sum of   *)
(* what the channels hold, and a channel's bytes are those of the messages  *)
(* it holds, within the limits, whatever is closed, refused or thrown.      *)
THEOREM BudgetExact == Spec => []BudgetAccount
  <1>1. Init => BudgetInv
    <2> SUFFICES ASSUME Init PROVE BudgetInv
      OBVIOUS
    <2>1. /\ bytes = [c \in Channel |-> 0] /\ messages = [c \in Channel |-> 0]
          /\ budgetBytes = 0 /\ budgetMessages = 0
      BY DEF Init
    <2>2. SumOver([c \in Channel |-> 0]) = 0
      BY SumOverZero
    <2>3. ASSUME NEW c \in Channel PROVE HeldBytes(c) = 0
      <3>1. queue[c] = <<>> /\ deferred[c] = <<>> /\ at[c] = "idle" /\ pending[c] = {}
        BY DEF Init
      <3> QED BY <3>1, SizeOfEmpty DEF HeldBytes, At
    <2> QED BY <2>1, <2>2, <2>3, ChannelAssumption DEF BudgetInv, BudgetAccount
  <1>2. BudgetInv => BudgetAccount
    BY DEF BudgetInv
  <1> QED BY <1>1, <1>2, InitInv, NextKeeps, NextBudget, PTL DEF Spec
=============================================================================
