--------------------------- MODULE BoundedChannel ---------------------------
(* The bounded, budgeted message channel of utils/BoundedChannel.h.         *)
(* Many threads Send; one executor per channel consumes by running Pump     *)
(* tasks that were posted to it.  Every action is one critical section of   *)
(* the channel's mutex (a lock_guard block), or one call made outside it:   *)
(* the post of a Pump task, the consume callback, the completion callback.  *)
EXTENDS Integers, Sequences, FiniteSets

CONSTANTS
    Channel,        \* the channels that share one ChannelBudget
    AsyncChannel,   \* those built with an AsyncConsume callback
    GatedChannel,   \* those built with start_gated
    Message,        \* the messages; each is handed to Send until accepted once
    Size,           \* Size[m]: the bytes the sender charges for m
    Delivery,       \* Delivery[m]: the ChannelDelivery the sender asks for
    MaxMessages, MaxBytes,        \* ChannelLimits, per channel
    BudgetMessages, BudgetBytes,  \* ChannelBudget, over all channels
    BatchLimit,     \* messages one Pump task consumes (16 in the code)
    Nil

Deliveries == {"Ready", "Deferred", "OpenGate"}

ASSUME ChannelAssumption ==
    /\ AsyncChannel \subseteq Channel
    /\ GatedChannel \subseteq Channel
    /\ Size \in [Message -> Nat]
    /\ Delivery \in [Message -> Deliveries]
    /\ MaxMessages \in Nat /\ MaxBytes \in Nat
    /\ BudgetMessages \in Nat /\ BudgetBytes \in Nat
    /\ BatchLimit \in Nat \ {0}
    /\ Nil \notin Message

ASSUME FiniteAssumption == IsFiniteSet(Channel)

VARIABLES
    status,     \* ChannelResult of the channel
    queue,      \* items a Pump may take
    deferred,   \* items parked until the gate opens
    bytes, messages,    \* the channel's own account
    ready,      \* the channels whose gate is open
    scheduled,  \* the channels whose flag says: a Pump is posted, running, or waiting for a completion
    budgetBytes, budgetMessages,    \* the shared account
    posting,    \* threads that left the lock with schedule = true
    posted,     \* Pump tasks in the executor's queue
    at,         \* where the executor's Pump of the channel is
    item,       \* the item that Pump took
    batch,      \* how many it has taken
    pending,    \* async items whose completion has not taken effect
    completed,  \* async items whose `completed` flag is set
    sent,       \* messages accepted so far
    consumed    \* the messages given to the consumer, in order

vars == <<status, queue, deferred, bytes, messages, ready, scheduled,
          budgetBytes, budgetMessages, posting, posted, at, item, batch, pending, completed,
          sent, consumed>>

account == <<bytes, messages, budgetBytes, budgetMessages>>
gate == <<ready, sent>>
frame == <<at, item, batch>>
flow == <<posting, posted, frame, pending, completed, consumed>>

Statuses == {"Accepted", "Closed", "Cancelled"}
PumpAt == {"idle", "loop", "sync", "failed", "async", "throwing"}

(* The two byte accounts have no type of their own here: BudgetAccount fixes *)
(* their exact values.                                                      *)
TypeOK ==
    /\ status \in [Channel -> Statuses]
    /\ queue \in [Channel -> Seq(Message)]
    /\ deferred \in [Channel -> Seq(Message)]
    /\ messages \in [Channel -> Int]
    /\ budgetMessages \in Int
    /\ ready \in SUBSET Channel /\ scheduled \in SUBSET Channel
    /\ posting \in [Channel -> Nat] /\ posted \in [Channel -> Nat]
    /\ at \in [Channel -> PumpAt]
    /\ item \in [Channel -> Message \cup {Nil}]
    /\ batch \in [Channel -> 0..BatchLimit]
    /\ pending \in [Channel -> SUBSET Message]
    /\ completed \in [Channel -> SUBSET Message]
    /\ sent \in SUBSET Message
    /\ consumed \in [Channel -> Seq(Message)]

Init ==
    /\ status = [c \in Channel |-> "Accepted"]
    /\ queue = [c \in Channel |-> <<>>]
    /\ deferred = [c \in Channel |-> <<>>]
    /\ bytes = [c \in Channel |-> 0]
    /\ messages = [c \in Channel |-> 0]
    /\ ready = Channel \ GatedChannel
    /\ scheduled = {}
    /\ budgetBytes = 0 /\ budgetMessages = 0
    /\ posting = [c \in Channel |-> 0]
    /\ posted = [c \in Channel |-> 0]
    /\ at = [c \in Channel |-> "idle"]
    /\ item = [c \in Channel |-> Nil]
    /\ batch = [c \in Channel |-> 0]
    /\ pending = [c \in Channel |-> {}]
    /\ completed = [c \in Channel |-> {}]
    /\ sent = {}
    /\ consumed = [c \in Channel |-> <<>>]

-----------------------------------------------------------------------------
(* The accounts.                                                            *)

(* The bytes of a list of items, as Stop sums them while it drops the list. *)
SizeOf(s) ==
    LET sum[n \in 0..Len(s)] == IF n = 0 THEN 0 ELSE sum[n - 1] + Size[s[n]]
    IN  sum[Len(s)]

(* ChannelBudget::Reserve: refuses when the shared account is full. *)
BudgetHasRoom(b) ==
    /\ budgetMessages < BudgetMessages
    /\ b <= BudgetBytes - budgetBytes

HasRoom(c, b) ==
    /\ messages[c] < MaxMessages
    /\ b <= MaxBytes - bytes[c]
    /\ BudgetHasRoom(b)

Charge(c, b) ==
    /\ bytes' = [bytes EXCEPT ![c] = @ + b]
    /\ messages' = [messages EXCEPT ![c] = @ + 1]
    /\ budgetBytes' = budgetBytes + b
    /\ budgetMessages' = budgetMessages + 1

(* The channel's own account and ChannelBudget::Release together. *)
Release(c, b, n) ==
    /\ bytes' = [bytes EXCEPT ![c] = @ - b]
    /\ messages' = [messages EXCEPT ![c] = @ - n]
    /\ budgetBytes' = budgetBytes - b
    /\ budgetMessages' = budgetMessages - n

-----------------------------------------------------------------------------
(* Producers.                                                               *)

(* Where Send files the message. *)
Park(c, m) == Delivery[m] = "Deferred" /\ c \notin ready

(* What the queue is once m has opened the gate; its mutant puts m last. *)
OpenedLast(c, m) == Append(queue[c] \o deferred[c], m)
Opened(c, m) == Append(queue[c], m) \o deferred[c]

(* A Deferred message goes behind the closed gate, every other one to the    *)
(* queue; OpenGate then moves what was parked behind the opening message.   *)
Enqueue(c, m) ==
    \/ /\ Park(c, m)
       /\ deferred' = [deferred EXCEPT ![c] = Append(@, m)]
       /\ UNCHANGED <<queue, ready>>
    \/ /\ Delivery[m] = "OpenGate"
       /\ queue' = [queue EXCEPT ![c] = Opened(c, m)]
       /\ deferred' = [deferred EXCEPT ![c] = <<>>]
       /\ ready' = ready \cup {c}
    \/ /\ ~Park(c, m) /\ Delivery[m] # "OpenGate"
       /\ queue' = [queue EXCEPT ![c] = Append(@, m)]
       /\ UNCHANGED <<deferred, ready>>

(* Mutant of TakeDuty: the flag is not looked at. *)
TakeDutyAlways(c) ==
    \/ /\ queue'[c] # <<>>
       /\ scheduled' = scheduled \cup {c}
       /\ posting' = [posting EXCEPT ![c] = @ + 1]
    \/ /\ queue'[c] = <<>>
       /\ UNCHANGED <<scheduled, posting>>

(* Whoever finds the queue non-empty and nothing scheduled takes the duty    *)
(* of posting the Pump; it posts after it has left the lock.                *)
TakeDuty(c) ==
    \/ /\ c \notin scheduled /\ queue'[c] # <<>>
       /\ scheduled' = scheduled \cup {c}
       /\ posting' = [posting EXCEPT ![c] = @ + 1]
    \/ /\ c \in scheduled \/ queue'[c] = <<>>
       /\ UNCHANGED <<scheduled, posting>>

SendAccepted(c, m) ==
    /\ m \notin sent
    /\ status[c] = "Accepted"
    /\ HasRoom(c, Size[m])
    /\ Charge(c, Size[m])
    /\ Enqueue(c, m)
    /\ TakeDuty(c)
    /\ sent' = sent \cup {m}
    /\ UNCHANGED <<status, posted, frame, pending, completed, consumed>>

(* Full, Closed or Cancelled: the message is dropped, nothing changes. *)
SendRefused(c, m) ==
    /\ m \notin sent
    /\ status[c] # "Accepted" \/ ~HasRoom(c, Size[m])
    /\ UNCHANGED vars

Send(c, m) == SendAccepted(c, m) \/ SendRefused(c, m)

(* What Stop returns to the accounts; its mutant forgets the parked messages. *)
ReturnQueuedOnly(c) == Release(c, SizeOf(queue[c]), Len(queue[c]))
ReturnUnconsumed(c) ==
    Release(c, SizeOf(queue[c]) + SizeOf(deferred[c]),
               Len(queue[c]) + Len(deferred[c]))

(* Stop: the first caller fixes the status and drops what is not yet taken. *)
Stop(c, s) ==
    \/ /\ status[c] # "Accepted"
       /\ UNCHANGED <<status, queue, deferred, account>>
    \/ /\ status[c] = "Accepted"
       /\ status' = [status EXCEPT ![c] = s]
       /\ ReturnUnconsumed(c)
       /\ queue' = [queue EXCEPT ![c] = <<>>]
       /\ deferred' = [deferred EXCEPT ![c] = <<>>]

Close(c) == Stop(c, "Closed") /\ UNCHANGED <<gate, scheduled, flow>>
Cancel(c) == Stop(c, "Cancelled") /\ UNCHANGED <<gate, scheduled, flow>>

ResetGate(c) ==
    /\ ready' = ready \ {c}
    /\ UNCHANGED <<status, queue, deferred, account, scheduled, sent, flow>>

-----------------------------------------------------------------------------
(* Schedule: the post of a Pump task, by a sender or by a completion.  The  *)
(* executor may refuse it (or throw), which cancels the channel.            *)

PostOk(c) ==
    /\ posting[c] > 0
    /\ posting' = [posting EXCEPT ![c] = @ - 1]
    /\ posted' = [posted EXCEPT ![c] = @ + 1]
    /\ UNCHANGED <<status, queue, deferred, account, gate, scheduled,
                   frame, pending, completed, consumed>>

PostFail(c) ==
    /\ posting[c] > 0
    /\ posting' = [posting EXCEPT ![c] = @ - 1]
    /\ Stop(c, "Cancelled")
    /\ UNCHANGED <<gate, scheduled, posted, frame, pending, completed, consumed>>

-----------------------------------------------------------------------------
(* The executor.  It runs one Pump of a channel at a time.                  *)

At(c, a) == at[c] = a

(* The Pump returns to the executor. *)
Return(c) ==
    /\ at' = [at EXCEPT ![c] = "idle"]
    /\ item' = [item EXCEPT ![c] = Nil]
    /\ batch' = [batch EXCEPT ![c] = 0]

PumpStart(c) ==
    /\ posted[c] > 0 /\ At(c, "idle")
    /\ posted' = [posted EXCEPT ![c] = @ - 1]
    /\ at' = [at EXCEPT ![c] = "loop"]
    /\ UNCHANGED <<item, batch>>
    /\ UNCHANGED <<status, queue, deferred, account, gate, scheduled,
                   posting, pending, completed, consumed>>

(* Mutant of PumpRest: the flag stays up, so a later Send posts nothing. *)
PumpRestKeepsDuty(c) ==
    /\ At(c, "loop") /\ batch[c] < BatchLimit
    /\ status[c] # "Accepted" \/ queue[c] = <<>>
    /\ Return(c)
    /\ UNCHANGED <<status, queue, deferred, account, gate, scheduled,
                   posting, posted, pending, completed, consumed>>

(* Stopped, or nothing left: the duty is given back under the lock. *)
PumpRest(c) ==
    /\ At(c, "loop") /\ batch[c] < BatchLimit
    /\ status[c] # "Accepted" \/ queue[c] = <<>>
    /\ scheduled' = scheduled \ {c}
    /\ Return(c)
    /\ UNCHANGED <<status, queue, deferred, account, gate,
                   posting, posted, pending, completed, consumed>>

(* Mutant of PumpTake: the bound of the loop is off by one. *)
PumpTakeOneMore(c) ==
    /\ At(c, "loop") /\ batch[c] <= BatchLimit
    /\ status[c] = "Accepted" /\ queue[c] # <<>>
    /\ queue' = [queue EXCEPT ![c] = Tail(@)]
    /\ consumed' = [consumed EXCEPT ![c] = Append(@, Head(queue[c]))]
    /\ item' = [item EXCEPT ![c] = Head(queue[c])]
    /\ at' = [at EXCEPT ![c] = "sync"]
    /\ UNCHANGED <<status, deferred, account, gate, scheduled,
                   posting, posted, batch, pending, completed>>

PumpTake(c) ==
    /\ At(c, "loop") /\ batch[c] < BatchLimit
    /\ status[c] = "Accepted" /\ queue[c] # <<>>
    /\ LET m == Head(queue[c]) IN
        /\ queue' = [queue EXCEPT ![c] = Tail(@)]
        /\ consumed' = [consumed EXCEPT ![c] = Append(@, m)]
        /\ item' = [item EXCEPT ![c] = m]
        /\ \/ /\ c \in AsyncChannel
              /\ at' = [at EXCEPT ![c] = "async"]
              /\ pending' = [pending EXCEPT ![c] = @ \cup {m}]
           \/ /\ c \notin AsyncChannel
              /\ at' = [at EXCEPT ![c] = "sync"]
              /\ UNCHANGED pending
    /\ UNCHANGED <<status, deferred, account, gate, scheduled,
                   posting, posted, batch, completed>>

(* consume returned (ok) or threw; the item leaves the account either way. *)
SyncDone(c, ok) ==
    /\ At(c, "sync")
    /\ Release(c, Size[item[c]], 1)
    /\ at' = [at EXCEPT ![c] = IF ok THEN "loop" ELSE "failed"]
    /\ item' = [item EXCEPT ![c] = Nil]
    /\ batch' = [batch EXCEPT ![c] = @ + 1]
    /\ UNCHANGED <<status, queue, deferred, gate, scheduled,
                   posting, posted, pending, completed, consumed>>

(* A throwing consumer cancels the channel; `scheduled` stays set. *)
SyncFailed(c) ==
    /\ At(c, "failed")
    /\ Stop(c, "Cancelled")
    /\ Return(c)
    /\ UNCHANGED <<gate, scheduled, posting, posted, pending, completed, consumed>>

(* Mutant of PumpYield: the Pump does not post itself again. *)
PumpYieldsOnlyIdle(c) ==
    /\ At(c, "loop") /\ batch[c] = BatchLimit
    /\ Return(c)
    /\ UNCHANGED <<status, queue, deferred, account, gate, scheduled,
                   posting, posted, pending, completed, consumed>>

(* The batch is used up: the Pump yields its thread and posts itself again,  *)
(* whatever the status and the queue are by now.                            *)
PumpYield(c) ==
    /\ At(c, "loop") /\ batch[c] = BatchLimit
    /\ Return(c)
    /\ posting' = [posting EXCEPT ![c] = @ + 1]
    /\ UNCHANGED <<status, queue, deferred, account, gate, scheduled,
                   posted, pending, completed, consumed>>

(* The `completed` flag tells the first call; the mutant forgets to look. *)
AnyCompletion(c, m) == m \in Message
FirstCompletion(c, m) == m \notin completed[c]

(* The completion callback of item m: any thread may call it, any number of *)
(* times; only the first call counts.  It reposts the Pump without looking  *)
(* at the queue, and gives the duty back when the channel has stopped.      *)
Complete(c, m) ==
    /\ FirstCompletion(c, m)
    /\ completed' = [completed EXCEPT ![c] = @ \cup {m}]
    /\ pending' = [pending EXCEPT ![c] = @ \ {m}]
    /\ Release(c, Size[m], 1)
    /\ \/ /\ status[c] = "Accepted"
          /\ posting' = [posting EXCEPT ![c] = @ + 1] /\ UNCHANGED scheduled
       \/ /\ status[c] # "Accepted"
          /\ scheduled' = scheduled \ {c} /\ UNCHANGED posting

CompleteIsIgnored(c, m) ==
    /\ m \in completed[c]
    /\ UNCHANGED <<completed, pending, account, posting, scheduled>>

AsyncComplete(c, m) ==
    /\ m \in pending[c] \cup completed[c]
    /\ Complete(c, m) \/ CompleteIsIgnored(c, m)
    /\ UNCHANGED <<status, queue, deferred, gate, posted, frame, consumed>>

(* async_consume returns to Pump, which returns to the executor. *)
AsyncReturn(c) ==
    /\ At(c, "async")
    /\ Return(c)
    /\ UNCHANGED <<status, queue, deferred, account, gate, scheduled,
                   posting, posted, pending, completed, consumed>>

(* async_consume throws, possibly after it completed the item. *)
AsyncThrow(c) ==
    /\ At(c, "async")
    /\ Stop(c, "Cancelled")
    /\ at' = [at EXCEPT ![c] = "throwing"]
    /\ UNCHANGED <<item, batch, gate, scheduled, posting, posted, pending, completed, consumed>>

AsyncThrowComplete(c) ==
    /\ At(c, "throwing")
    /\ Complete(c, item[c]) \/ CompleteIsIgnored(c, item[c])
    /\ Return(c)
    /\ UNCHANGED <<status, queue, deferred, gate, posted, consumed>>

-----------------------------------------------------------------------------

Next ==
    \E c \in Channel :
        \/ \E m \in Message : Send(c, m) \/ AsyncComplete(c, m)
        \/ Close(c) \/ Cancel(c)
        \/ c \in GatedChannel /\ ResetGate(c)
        \/ PostOk(c) \/ PostFail(c)
        \/ PumpStart(c) \/ PumpRest(c) \/ PumpTake(c) \/ PumpYield(c)
        \/ \E ok \in BOOLEAN : SyncDone(c, ok)
        \/ SyncFailed(c)
        \/ AsyncReturn(c) \/ AsyncThrow(c) \/ AsyncThrowComplete(c)

(* The threads keep running: a sender that left the lock reaches its post,  *)
(* the executor runs what was posted, callbacks return and complete.        *)
Fairness ==
    \A c \in Channel :
        /\ WF_vars(PostOk(c) \/ PostFail(c))
        /\ WF_vars(PumpStart(c)) /\ WF_vars(PumpRest(c))
        /\ WF_vars(PumpTake(c)) /\ WF_vars(PumpYield(c))
        /\ WF_vars(\E ok \in BOOLEAN : SyncDone(c, ok))
        /\ WF_vars(SyncFailed(c))
        /\ WF_vars(AsyncReturn(c) \/ AsyncThrow(c))
        /\ WF_vars(AsyncThrowComplete(c))
        /\ WF_vars(\E m \in Message : AsyncComplete(c, m))

Spec == Init /\ [][Next]_vars
FairSpec == Spec /\ Fairness

-----------------------------------------------------------------------------
(* Properties.                                                              *)

Waiting(c) == Len(queue[c]) + Len(deferred[c])
InPump(c) == IF At(c, "sync") THEN 1 ELSE 0
InLoop(c) == IF at[c] \in {"loop", "sync", "failed"} THEN 1 ELSE 0
InFlight(c) == IF pending[c] = {} THEN 0 ELSE 1

(* Who is responsible for the next consumption of c: a thread about to post, *)
(* a posted Pump, a Pump in its loop, or an uncompleted async item.          *)
Duties(c) == posting[c] + posted[c] + InLoop(c) + InFlight(c)

(* The duty to pump is held exactly once while `scheduled` is set on an open *)
(* channel and by nobody while it is clear, so there are never two consumers *)
(* of one channel and never two async items of it out, even after Close or   *)
(* Cancel ("multi-producer, single-executor consumption").                  *)
OneDuty ==
    \A c \in Channel :
        /\ \A m, n \in pending[c] : m = n
        /\ Duties(c) <= 1
        /\ c \notin scheduled => Duties(c) = 0
        /\ c \in scheduled /\ status[c] = "Accepted" => Duties(c) = 1

(* No lost wakeup: an open channel with something to consume has someone     *)
(* responsible for consuming it.                                            *)
NoLostWakeup ==
    \A c \in Channel :
        status[c] = "Accepted" /\ queue[c] # <<>> => Duties(c) = 1

(* A channel's message account is what it still holds: queued, parked, or    *)
(* handed to a callback that has not finished.                              *)
MessageAccount ==
    \A c \in Channel :
        /\ messages[c] = Waiting(c) + InPump(c) + InFlight(c)
        /\ messages[c] <= MaxMessages

HeldBytes(c) ==
    SizeOf(queue[c]) + SizeOf(deferred[c])
        + (IF At(c, "sync") THEN Size[item[c]] ELSE 0)
        + (IF pending[c] = {} THEN 0 ELSE Size[CHOOSE m \in pending[c] : TRUE])

SumOver(f) ==
    LET sum[S \in SUBSET Channel] ==
            IF S = {} THEN 0
            ELSE LET c == CHOOSE x \in S : TRUE IN f[c] + sum[S \ {c}]
    IN  sum[Channel]

(* The shared budget never leaks and is never released twice: it is exactly  *)
(* the sum of what the channels hold, whatever was dropped by Close, Cancel, *)
(* a refused post or a throwing consumer, and it stays within its limits.   *)
BudgetAccount ==
    /\ \A c \in Channel : bytes[c] = HeldBytes(c) /\ bytes[c] <= MaxBytes
    /\ budgetBytes = SumOver(bytes) /\ budgetBytes <= BudgetBytes
    /\ budgetMessages = SumOver(messages) /\ budgetMessages <= BudgetMessages

(* On a channel that starts gated no Deferred message (a room notification)  *)
(* reaches the consumer before a message that opened the gate (the joined    *)
(* response).                                                               *)
GateFirst ==
    \A c \in GatedChannel : \A i \in DOMAIN consumed[c] :
        Delivery[consumed[c][i]] = "Deferred" =>
            \E j \in 1..(i - 1) : Delivery[consumed[c][j]] = "OpenGate"

(* Every message that reached the queue is consumed, unless the channel is   *)
(* stopped first.                                                           *)
Drained ==
    \A c \in Channel : \A m \in Message :
        (\E i \in DOMAIN queue[c] : queue[c][i] = m) ~>
            (status[c] # "Accepted" \/ \E i \in DOMAIN consumed[c] : consumed[c][i] = m)
=============================================================================
