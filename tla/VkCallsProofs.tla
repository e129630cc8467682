----------------------------- MODULE VkCallsProofs -----------------------------
(***************************************************************************)
(* Requests to VK keep their distance, the limiter serves everybody who    *)
(* waits, and a call ends in time, for any number of callers, any timeouts *)
(* and retries and any lateness of the timers.                             *)
(***************************************************************************)
EXTENDS VkCalls, SequenceTheorems, FiniteSetTheorems, TLAPS

(* The limiter's clock is no further than the last request, and the timer  *)
(* that is set runs when the distance is reached, or later.                *)
Spacing ==
    /\ phase \in [Callers -> {"idle", "queued", "sent", "backoff"}]
    /\ since \in 0..MinInterval /\ gap \in 0..MinInterval
    /\ since <= gap
    /\ wake \in Int \cup {None}
    /\ wake # None => since = MinInterval \/ wake = MinInterval - since

(* A caller's request is sent only when the distance has been reached. *)
SentInTime == \A c \in Callers : phase[c] # "sent" /\ phase'[c] = "sent" => gap = MinInterval

LEMMA SpacingInit == Init => Spacing
BY VkCallsAssumption DEF Init, Spacing

(* Entering anything but "sent" leaves the clocks to the action. *)
LEMMA TrySpaced ==
    ASSUME NEW c \in Callers, NEW n, Spacing, Try(c, n)
    PROVE  Spacing' /\ SentInTime
<1> USE VkCallsAssumption DEF Spacing
<1>1. CASE SlotIsFree /\ since' = 0 /\ Send(c) /\ UNCHANGED <<queue, wake>>
    BY <1>1 DEF SlotIsFree, Send, Enter, SentInTime
<1>2. CASE ~SlotIsFree /\ wake' = (IF wake = None THEN MinInterval - since ELSE wake)
            /\ Enter(c, "queued", None) /\ UNCHANGED <<since, aborted, gap>>
  <2>1. Spacing'
    BY <1>2 DEF Enter
  <2>2. SentInTime
    BY <1>2 DEF Enter, SentInTime
  <2> QED BY <2>1, <2>2
<1> QED BY <1>1, <1>2 DEF Try

(* A step that leaves the limiter and the clocks alone and sends nothing. *)
LEMMA ElsewhereSpaced ==
    ASSUME NEW c \in Callers, NEW label \in {"idle", "queued", "backoff"}, NEW t,
           Spacing, UNCHANGED limiter, UNCHANGED gap, Enter(c, label, t)
    PROVE  Spacing' /\ SentInTime
BY DEF Spacing, limiter, Enter, SentInTime

LEMMA RecoverSpaced ==
    ASSUME NEW c \in Callers, NEW category, Spacing, Recover(c, category)
    PROVE  Spacing' /\ SentInTime
<1>1. CASE End(c) /\ UNCHANGED <<limiter, attempt>>
    BY <1>1, ElsewhereSpaced DEF End
<1>2. ASSUME NEW delay, Try(c, attempt[c] + 1) PROVE Spacing' /\ SentInTime
    BY <1>2, TrySpaced
<1>3. ASSUME NEW delay, Enter(c, "backoff", delay), UNCHANGED <<limiter, attempt, aborted, gap>>
      PROVE  Spacing' /\ SentInTime
    BY <1>3, ElsewhereSpaced
<1> QED BY <1>1, <1>2, <1>3 DEF Recover

LEMMA ProcessQueueSpaced ==
    ASSUME Spacing, ProcessQueue
    PROVE  Spacing' /\ SentInTime
<1> USE VkCallsAssumption DEF Spacing, ProcessQueue, SinceSlot
<1>1. wake \in Int /\ wake <= 0
    BY DEF Due
<1>2. since = MinInterval /\ gap = MinInterval
    BY <1>1
<1>3. SentInTime
    BY <1>2 DEF SentInTime
<1>4. wake' = None \/ wake' = MinInterval
    BY DEF NextWake
<1>5. phase' \in [Callers -> {"idle", "queued", "sent", "backoff"}] /\ gap' \in {0, gap}
    BY DEF End, Send, Enter
<1> QED BY <1>2, <1>3, <1>4, <1>5

LEMMA TickSpaced ==
    ASSUME Spacing, Tick
    PROVE  Spacing' /\ SentInTime
<1> USE VkCallsAssumption DEF Spacing, Tick
<1>1. since' \in 0..MinInterval /\ gap' \in 0..MinInterval /\ since' <= gap'
    BY DEF Older
<1>2. wake' \in Int \cup {None}
    BY DEF AfterTick
<1>3. wake' # None => since' = MinInterval \/ wake' = MinInterval - since'
    BY DEF AfterTick, Older
<1>4. SentInTime
    BY DEF SentInTime
<1> QED BY <1>1, <1>2, <1>3, <1>4

LEMMA StepSpaced ==
    ASSUME Spacing, [Next]_vars
    PROVE  Spacing' /\ SentInTime
<1>1. ASSUME NEW c \in Callers, Begin(c) PROVE Spacing' /\ SentInTime
    BY <1>1, TrySpaced DEF Begin
<1>2. ASSUME NEW c \in Callers, Answer(c) PROVE Spacing' /\ SentInTime
  <2>1. CASE End(c) /\ UNCHANGED <<limiter, attempt>>
    BY <2>1, ElsewhereSpaced DEF End
  <2>2. ASSUME NEW category \in Failures, Recover(c, category) PROVE Spacing' /\ SentInTime
    BY <2>2, RecoverSpaced
  <2> QED BY <1>2, <2>1, <2>2 DEF Answer
<1>3. ASSUME NEW c \in Callers, TimeOut(c) PROVE Spacing' /\ SentInTime
    BY <1>3, RecoverSpaced DEF TimeOut
<1>4. ASSUME NEW c \in Callers, Retry(c) PROVE Spacing' /\ SentInTime
    BY <1>4, TrySpaced DEF Retry
<1>5. ASSUME NEW c \in Callers, Abort(c) PROVE Spacing' /\ SentInTime
  <2>1. CASE UNCHANGED <<call, gap>>
    BY <1>5, <2>1 DEF Abort, call, limiter, Spacing, SentInTime
  <2>2. CASE Cancel(c)
    BY <1>5, <2>2, ElsewhereSpaced DEF Abort, Cancel, End
  <2> QED BY <1>5, <2>1, <2>2 DEF Abort
<1>6. CASE ProcessQueue
    BY <1>6, ProcessQueueSpaced
<1>7. CASE Tick
    BY <1>7, TickSpaced
<1>8. CASE UNCHANGED vars
    BY <1>8 DEF vars, limiter, call, Spacing, SentInTime
<1> QED BY <1>1, <1>2, <1>3, <1>4, <1>5, <1>6, <1>7, <1>8 DEF Next

(* The invariant of the limiter in every reachable state. *)
THEOREM SpacingHolds == Spec => []Spacing
BY SpacingInit, StepSpaced, PTL DEF Spec

(* Two requests to VK are MinInterval apart, whoever sends them: the       *)
(* promise of VkRateLimiter, over retries, cancellations and late timers.  *)
THEOREM RequestsKeepTheirDistance == Spec => RequestsSpaced
<1>1. Spacing /\ [Next]_vars => [SentInTime]_vars
    BY StepSpaced
<1> QED BY <1>1, SpacingHolds, PTL DEF Spec, RequestsSpaced, SentInTime

-----------------------------------------------------------------------------
(* The queue.                                                              *)

Waiting ==
    /\ queue \in Seq(Callers)
    /\ aborted \subseteq Callers
    /\ QueueOK

LEMMA WaitingInit == Init => Waiting
BY VkCallsAssumption DEF Init, Waiting, QueueOK

(* A step that leaves the queue alone, with the caller not in it before    *)
(* nor after.                                                              *)
LEMMA OutsideWaits ==
    ASSUME Spacing, Waiting, NEW c \in Callers, phase[c] # "queued",
           NEW label \in {"idle", "sent", "backoff"}, NEW t, Enter(c, label, t),
           UNCHANGED <<queue, wake>>, aborted' \subseteq aborted
    PROVE  Waiting'
<1>1. /\ phase' = [phase EXCEPT ![c] = label]
      /\ phase \in [Callers -> {"idle", "queued", "sent", "backoff"}]
    BY DEF Enter, Spacing
<1>2. \A d \in Callers : phase'[d] = "queued" <=> phase[d] = "queued"
    BY <1>1
<1>3. \A d \in aborted' : phase'[d] = "queued"
    BY <1>2 DEF Waiting, QueueOK
<1> QED BY <1>2, <1>3 DEF Waiting, QueueOK

LEMMA TryWaits ==
    ASSUME Spacing, Waiting, NEW c \in Callers, phase[c] # "queued", NEW n, Try(c, n)
    PROVE  Waiting'
<1>1. CASE SlotIsFree /\ Send(c) /\ UNCHANGED <<queue, wake>>
    BY <1>1, OutsideWaits DEF Send
<1>2. CASE /\ queue' = Append(queue, c)
           /\ wake' = (IF wake = None THEN MinInterval - since ELSE wake)
           /\ Enter(c, "queued", None) /\ UNCHANGED <<since, aborted, gap>>
  <2>1. /\ queue' \in Seq(Callers) /\ queue' # <<>>
        /\ Len(queue') = Len(queue) + 1 /\ Len(queue) \in Nat
        /\ \A i \in 1..Len(queue) : queue'[i] = queue[i]
        /\ queue'[Len(queue) + 1] = c
    BY <1>2, AppendProperties, LenProperties DEF Waiting
  <2>2. wake' # None
    BY <1>2, VkCallsAssumption DEF Spacing
  <2>3. /\ phase'[c] = "queued"
        /\ \A d \in Callers \ {c} : phase'[d] = phase[d]
    BY <1>2 DEF Enter, Spacing
  <2>4. \A d \in Callers : phase'[d] = "queued" <=> \E i \in 1..Len(queue') : queue'[i] = d
    <3>1. \A d \in Callers : phase[d] = "queued" <=> \E i \in 1..Len(queue) : queue[i] = d
      BY DEF Waiting, QueueOK
    <3> QED BY <2>1, <2>3, <3>1
  <2>5. \A i, j \in 1..Len(queue') : queue'[i] = queue'[j] => i = j
    <3>1. \A i \in 1..Len(queue) : queue[i] # c
      BY DEF Waiting, QueueOK
    <3>2. \A i, j \in 1..Len(queue) : queue[i] = queue[j] => i = j
      BY DEF Waiting, QueueOK
    <3> QED BY <2>1, <3>1, <3>2
  <2>6. \A d \in aborted' : phase'[d] = "queued" /\ d \in Callers
    BY <1>2, <2>3 DEF Waiting, QueueOK
  <2> QED BY <2>1, <2>2, <2>4, <2>5, <2>6 DEF Waiting, QueueOK
<1> QED BY <1>1, <1>2 DEF Try

LEMMA RecoverWaits ==
    ASSUME Spacing, Waiting, NEW c \in Callers, phase[c] = "sent", NEW category,
           Recover(c, category)
    PROVE  Waiting'
<1>1. CASE End(c) /\ UNCHANGED <<limiter, attempt>>
    BY <1>1, OutsideWaits DEF End, limiter
<1>2. ASSUME NEW delay, Try(c, attempt[c] + 1) PROVE Waiting'
    BY <1>2, TryWaits
<1>3. ASSUME NEW delay, Enter(c, "backoff", delay), UNCHANGED <<limiter, attempt, aborted, gap>>
      PROVE  Waiting'
    BY <1>3, OutsideWaits DEF limiter
<1> QED BY <1>1, <1>2, <1>3 DEF Recover

(* The first leaves the queue; the timer goes on if others are left. *)
LEMMA ProcessQueueWaits ==
    ASSUME Spacing, Waiting, ProcessQueue
    PROVE  Waiting'
<1> DEFINE c == Head(queue)
<1>1. wake \in Int /\ queue # <<>>
    BY DEF ProcessQueue, Due, Spacing, Waiting, QueueOK
<1>2. /\ queue' \in Seq(Callers) /\ Len(queue) \in Nat /\ Len(queue) >= 1
      /\ Len(queue') = Len(queue) - 1
      /\ \A i \in 1..Len(queue') : queue'[i] = queue[i + 1]
      /\ c = queue[1] /\ c \in Callers
    BY <1>1, HeadTailProperties, LenProperties DEF ProcessQueue, Waiting
<1>3. wake' # None <=> queue' # <<>>
  <2>1. wake' = IF Len(queue) > 1 THEN MinInterval ELSE None
    BY VkCallsAssumption DEF ProcessQueue, NextWake, SinceSlot
  <2>2. queue' # <<>> <=> Len(queue') > 0
    BY <1>2, EmptySeq
  <2> QED BY <1>2, <2>1, <2>2, VkCallsAssumption
<1>4. /\ \E label \in {"idle", "sent"} : phase' = [phase EXCEPT ![c] = label]
      /\ aborted' \subseteq aborted /\ c \notin aborted'
    BY DEF ProcessQueue, HeedsAbort, End, Send, Enter
<1>5. phase'[c] # "queued" /\ \A d \in Callers \ {c} : phase'[d] = phase[d]
    BY <1>2, <1>4 DEF Spacing
<1>6. \A i, j \in 1..Len(queue') : queue'[i] = queue'[j] => i = j
  <2>1. \A i, j \in 1..Len(queue) : queue[i] = queue[j] => i = j
    BY DEF Waiting, QueueOK
  <2> QED BY <1>2, <2>1
<1>7. ASSUME NEW d \in Callers
      PROVE  phase'[d] = "queued" <=> \E i \in 1..Len(queue') : queue'[i] = d
  <2>1. phase[d] = "queued" <=> \E i \in 1..Len(queue) : queue[i] = d
    BY DEF Waiting, QueueOK
  <2>2. \A i \in 1..Len(queue) : queue[i] = c => i = 1
    BY <1>2 DEF Waiting, QueueOK
  <2>3. CASE d = c
    <3>1. \A i \in 1..Len(queue') : queue'[i] # c
      BY <1>2, <2>2
    <3> QED BY <1>5, <2>3, <3>1
  <2>4. CASE d # c
    <3>1. ASSUME NEW i \in 1..Len(queue), queue[i] = d
          PROVE  \E k \in 1..Len(queue') : queue'[k] = d
      <4>1. i - 1 \in 1..Len(queue') /\ queue'[i - 1] = d
        BY <1>2, <2>4, <3>1
      <4> QED BY <4>1
    <3>2. ASSUME NEW k \in 1..Len(queue'), queue'[k] = d
          PROVE  \E i \in 1..Len(queue) : queue[i] = d
      BY <1>2, <3>2
    <3> QED BY <1>5, <2>1, <2>4, <3>1, <3>2
  <2> QED BY <2>3, <2>4
<1>8. \A d \in aborted' : phase'[d] = "queued" /\ d \in Callers
    BY <1>4, <1>5 DEF Waiting, QueueOK
<1> QED BY <1>2, <1>3, <1>6, <1>7, <1>8 DEF Waiting, QueueOK

LEMMA StepWaits ==
    ASSUME Spacing, Waiting, [Next]_vars
    PROVE  Waiting'
<1>1. ASSUME NEW c \in Callers, Begin(c) PROVE Waiting'
    BY <1>1, TryWaits DEF Begin
<1>2. ASSUME NEW c \in Callers, Answer(c) PROVE Waiting'
  <2>1. CASE End(c) /\ UNCHANGED <<limiter, attempt>>
    BY <1>2, <2>1, OutsideWaits DEF End, Answer, limiter
  <2> QED BY <1>2, <2>1, RecoverWaits DEF Answer
<1>3. ASSUME NEW c \in Callers, TimeOut(c) PROVE Waiting'
    BY <1>3, RecoverWaits DEF TimeOut
<1>4. ASSUME NEW c \in Callers, Retry(c) PROVE Waiting'
    BY <1>4, TryWaits DEF Retry
<1>5. ASSUME NEW c \in Callers, Abort(c) PROVE Waiting'
  <2>1. CASE phase[c] = "queued" /\ aborted' = aborted \cup {c} /\ UNCHANGED <<call, gap>>
    BY <1>5, <2>1 DEF Abort, call, limiter, Waiting, QueueOK
  <2>2. CASE phase[c] \in {"sent", "backoff"} /\ Cancel(c)
    BY <1>5, <2>2, OutsideWaits DEF Abort, Cancel, End, limiter
  <2> QED BY <1>5, <2>1, <2>2 DEF Abort
<1>6. CASE ProcessQueue
    BY <1>6, ProcessQueueWaits
<1>7. CASE Tick
  <2>1. UNCHANGED <<queue, phase, aborted>> /\ (wake' = None <=> wake = None)
    BY <1>7, VkCallsAssumption DEF Tick, AfterTick, Spacing
  <2> QED BY <2>1 DEF Waiting, QueueOK
<1>8. CASE UNCHANGED vars
    BY <1>8 DEF vars, limiter, call, Waiting, QueueOK
<1> QED BY <1>1, <1>2, <1>3, <1>4, <1>5, <1>6, <1>7, <1>8 DEF Next

(* The limiter is at work exactly while somebody waits, everybody waits    *)
(* once, and who was aborted while waiting is still there to be dropped:   *)
(* no interleaving of acquire and processQueue loses a wake-up.            *)
THEOREM NoWakeUpLost == Spec => []QueueOK
<1>1. Waiting => QueueOK
    BY DEF Waiting
<1>2. Spacing /\ Waiting /\ [Next]_vars => Waiting'
    BY StepWaits
<1> QED BY <1>1, <1>2, WaitingInit, SpacingHolds, PTL DEF Spec

-----------------------------------------------------------------------------
(* Types.                                                                  *)

Shapes ==
    /\ attempt \in [Callers -> 0..MaxRetries]
    /\ timer \in [Callers -> Timers] /\ wake \in Timers
    /\ wake # None => wake <= MinInterval
    /\ aborted \subseteq Abortable
    /\ \A c \in Callers : phase[c] = "backoff" => attempt[c] < MaxRetries
    /\ \A c \in Callers : phase[c] \in {"sent", "backoff"} => timer[c] # None

(* Whatever the attempt, a backoff is shorter than the cap. *)
LEMMA DelayIsCapped ==
    ASSUME NEW n \in Nat, NEW delay \in 0..(DelayCap(n) - 1)
    PROVE  delay \in 0..(MaxDelay - 1)
BY VkCallsAssumption DEF DelayCap

LEMMA TimersAre ==
    /\ None \in Timers /\ Timeout \in Timers /\ MinInterval \in Timers
    /\ \A past \in 0..MinInterval : MinInterval - past \in Timers
    /\ \A delay \in 0..(MaxDelay - 1) : delay \in Timers
    /\ \A t \in Timers : t # None => t \in Int
BY VkCallsAssumption DEF Timers

LEMMA ShapesInit == Init => Shapes
BY VkCallsAssumption, TimersAre DEF Init, Shapes

LEMMA EnterShapes ==
    ASSUME Spacing, Shapes, NEW c \in Callers,
           NEW label \in {"idle", "queued", "sent", "backoff"}, NEW t \in Timers,
           Enter(c, label, t), wake' \in Timers, wake' # None => wake' <= MinInterval,
           aborted' \subseteq aborted,
           attempt' \in [Callers -> 0..MaxRetries],
           \A d \in Callers \ {c} : attempt'[d] = attempt[d],
           label = "backoff" => attempt'[c] < MaxRetries,
           label \in {"sent", "backoff"} => t # None
    PROVE  Shapes'
<1>1. phase' = [phase EXCEPT ![c] = label] /\ timer' = [timer EXCEPT ![c] = t]
      /\ phase \in [Callers -> {"idle", "queued", "sent", "backoff"}]
    BY DEF Enter, Spacing
<1>2. timer' \in [Callers -> Timers]
    BY <1>1 DEF Shapes
<1>3. ASSUME NEW d \in Callers
      PROVE  /\ phase'[d] = "backoff" => attempt'[d] < MaxRetries
             /\ phase'[d] \in {"sent", "backoff"} => timer'[d] # None
  <2>1. CASE d = c
    BY <1>1, <2>1 DEF Shapes
  <2>2. CASE d # c
    BY <1>1, <2>2 DEF Shapes
  <2> QED BY <2>1, <2>2
<1> QED BY <1>2, <1>3 DEF Shapes

LEMMA TryShapes ==
    ASSUME Spacing, Shapes, NEW c \in Callers, NEW n \in 0..MaxRetries, Try(c, n)
    PROVE  Shapes'
<1>1. /\ attempt' \in [Callers -> 0..MaxRetries]
      /\ \A d \in Callers \ {c} : attempt'[d] = attempt[d]
    BY DEF Try, Shapes
<1>2. CASE Send(c) /\ UNCHANGED <<queue, wake>>
    BY <1>1, <1>2, TimersAre, EnterShapes, VkCallsAssumption DEF Send, Shapes
<1>3. CASE /\ wake' = (IF wake = None THEN MinInterval - since ELSE wake)
           /\ Enter(c, "queued", None) /\ UNCHANGED <<since, aborted, gap>>
  <2>1. wake' \in Timers /\ (wake' # None => wake' <= MinInterval)
    BY <1>3, TimersAre, VkCallsAssumption DEF Shapes, Spacing
  <2> QED BY <1>1, <1>3, <2>1, TimersAre, EnterShapes
<1> QED BY <1>2, <1>3 DEF Try

LEMMA EndShapes ==
    ASSUME Spacing, Shapes, NEW c \in Callers, End(c), wake' \in Timers,
           wake' # None => wake' <= MinInterval, UNCHANGED attempt
    PROVE  Shapes'
BY TimersAre, EnterShapes DEF End, Shapes

LEMMA RecoverShapes ==
    ASSUME Spacing, Shapes, NEW c \in Callers, NEW category, Recover(c, category)
    PROVE  Shapes'
<1>0. /\ attempt[c] \in 0..MaxRetries
      /\ wake \in Timers /\ (wake # None => wake <= MinInterval)
      /\ MaxRetries \in Nat
    BY VkCallsAssumption DEF Shapes
<1>1. CASE End(c) /\ UNCHANGED <<limiter, attempt>>
    BY <1>0, <1>1, EndShapes DEF limiter
<1>2. ASSUME attempt[c] < MaxRetries, Try(c, attempt[c] + 1) PROVE Shapes'
    BY <1>0, <1>2, TryShapes
<1>3. ASSUME attempt[c] < MaxRetries, NEW delay \in 0..(DelayCap(attempt[c]) - 1),
             Enter(c, "backoff", delay), UNCHANGED <<limiter, attempt, aborted, gap>>
      PROVE  Shapes'
  <2>1. delay \in Timers /\ delay # None
    BY <1>0, <1>3, DelayIsCapped, TimersAre, VkCallsAssumption
  <2>2. /\ attempt' \in [Callers -> 0..MaxRetries] /\ attempt' = attempt
        /\ wake' \in Timers /\ (wake' # None => wake' <= MinInterval)
        /\ aborted' \subseteq aborted
    BY <1>0, <1>3 DEF limiter, Shapes
  <2> QED BY <1>3, <2>1, <2>2, EnterShapes
<1> QED BY <1>1, <1>2, <1>3 DEF Recover

LEMMA StepShapes ==
    ASSUME Spacing, Waiting, Shapes, [Next]_vars
    PROVE  Shapes'
<1> USE VkCallsAssumption
<1>1. ASSUME NEW c \in Callers, Begin(c) PROVE Shapes'
    BY <1>1, TryShapes DEF Begin
<1>2. ASSUME NEW c \in Callers, Answer(c) PROVE Shapes'
  <2>1. CASE End(c) /\ UNCHANGED <<limiter, attempt>>
    BY <2>1, EndShapes DEF limiter, Shapes
  <2> QED BY <1>2, <2>1, RecoverShapes DEF Answer
<1>3. ASSUME NEW c \in Callers, TimeOut(c) PROVE Shapes'
    BY <1>3, RecoverShapes DEF TimeOut
<1>4. ASSUME NEW c \in Callers, Retry(c) PROVE Shapes'
  <2>1. attempt[c] + 1 \in 0..MaxRetries
    BY <1>4 DEF Retry, Shapes
  <2> QED BY <1>4, <2>1, TryShapes DEF Retry
<1>5. ASSUME NEW c \in Callers, Abort(c) PROVE Shapes'
  <2>1. CASE aborted' = aborted \cup {c} /\ UNCHANGED <<call, gap>>
    BY <1>5, <2>1 DEF Abort, call, limiter, Shapes
  <2>2. CASE Cancel(c) /\ UNCHANGED attempt
    BY <1>5, <2>2, EndShapes DEF Abort, Cancel, limiter, Shapes
  <2> QED BY <1>5, <2>1, <2>2 DEF Abort
<1>6. CASE ProcessQueue
  <2>1. wake # None /\ queue # <<>>
    BY <1>6 DEF ProcessQueue, Due, Waiting, QueueOK
  <2>2. Head(queue) \in Callers
    BY <2>1, HeadTailProperties DEF Waiting
  <2>3. wake' \in Timers /\ (wake' # None => wake' <= MinInterval)
    BY <1>6, TimersAre DEF ProcessQueue, NextWake, SinceSlot
  <2>4. UNCHANGED attempt
    BY <1>6 DEF ProcessQueue
  <2>5. CASE End(Head(queue))
    BY <2>2, <2>3, <2>4, <2>5, EndShapes
  <2>6. CASE Send(Head(queue))
    BY <2>2, <2>3, <2>4, <2>6, TimersAre, EnterShapes DEF Send, Shapes
  <2> QED BY <1>6, <2>5, <2>6 DEF ProcessQueue
<1>7. CASE Tick
  <2>1. \A t \in Timers : t = None \/ t > -Late => AfterTick(t) \in Timers
    BY DEF AfterTick, Timers
  <2>2. wake' \in Timers /\ (wake' # None => wake' <= MinInterval)
    BY <1>7, <2>1, TimersAre DEF Tick, Shapes, AfterTick
  <2>3. timer' \in [Callers -> Timers]
    BY <1>7, <2>1 DEF Tick, Shapes
  <2>4. \A c \in Callers : timer[c] # None => timer'[c] # None
    BY <1>7, TimersAre DEF Tick, AfterTick, Shapes
  <2>5. UNCHANGED <<phase, attempt, aborted>>
    BY <1>7 DEF Tick
  <2> QED BY <2>2, <2>3, <2>4, <2>5 DEF Shapes
<1>8. CASE UNCHANGED vars
    BY <1>8 DEF vars, limiter, call, Shapes
<1> QED BY <1>1, <1>2, <1>3, <1>4, <1>5, <1>6, <1>7, <1>8 DEF Next

(* The limiter's queue, clocks and timers are what the code expects. *)
THEOREM TypesHold == Spec => []TypeOK
<1>1. Spacing /\ Waiting /\ Shapes => TypeOK
    BY DEF Spacing, Waiting, Shapes, TypeOK
<1>2. Spacing /\ Waiting /\ Shapes /\ [Next]_vars => Shapes'
    BY StepShapes
<1>3. Spacing /\ Waiting /\ [Next]_vars => Waiting'
    BY StepWaits
<1> QED BY <1>1, <1>2, <1>3, ShapesInit, WaitingInit, SpacingHolds, PTL DEF Spec

-----------------------------------------------------------------------------
(* How long a call lasts.  By the attempt it is at, a call has used what   *)
(* the attempts and backoffs before allow; what is left of the present one *)
(* is bounded by the timer it has, or, while it is queued, by the wake-up  *)
(* timer and the places before it.                                         *)

Slot == MinInterval + Late      \* the longest a place in the queue costs
LongestWait == Cardinality(Callers) * Slot
LongestBackoff == MaxDelay - 1 + Late

(* When attempt n begins at the latest. *)
StartOf(n) == n * (LongestAttempt + LongestBackoff)

InQueueBy(limit) ==
    \A k \in 1..Len(queue) :
        queue[k] = Probe => elapsed + wake + Late + (k - 1) * Slot <= limit

Budget ==
    /\ elapsed \in Nat
    /\ phase[Probe] = "idle" => elapsed <= LongestCall
    /\ phase[Probe] = "queued" =>
          InQueueBy(StartOf(attempt[Probe]) + LongestWait)
    /\ phase[Probe] = "sent" =>
          elapsed + timer[Probe] + Late <= StartOf(attempt[Probe]) + LongestAttempt
    /\ phase[Probe] = "backoff" =>
          elapsed + timer[Probe] + Late <= StartOf(attempt[Probe] + 1)

LEMMA Lengths ==
    /\ Cardinality(Callers) \in Nat /\ Slot \in Nat /\ LongestWait \in Nat
    /\ LongestAttempt \in Nat /\ LongestBackoff \in Nat /\ Probe \in Callers
    /\ LongestAttempt = LongestWait + Timeout + Late
<1>1. Cardinality(Callers) \in Nat /\ Slot \in Nat
    BY VkCallsAssumption, FS_CardinalityType DEF Slot
<1>2. \A a, b \in Nat : a * b \in Nat
    OBVIOUS
<1>3. LongestWait \in Nat
    BY <1>1, <1>2 DEF LongestWait
<1>4. LongestAttempt = LongestWait + Timeout + Late
    BY DEF LongestAttempt, LongestWait, Slot
<1> HIDE DEF Slot
<1> QED BY <1>1, <1>3, <1>4, VkCallsAssumption DEF LongestBackoff

(* Attempts follow each other, and the last one ends with the call. *)
LEMMA Starts ==
    /\ StartOf(0) = 0 /\ LongestCall \in Nat
    /\ \A n \in Nat : /\ StartOf(n) \in Nat
                      /\ StartOf(n + 1) = StartOf(n) + LongestAttempt + LongestBackoff
    /\ \A n \in 0..MaxRetries : StartOf(n) + LongestAttempt <= LongestCall
<1> DEFINE P == LongestAttempt + LongestBackoff
<1>1. P \in Nat BY Lengths
<1>2. \A n \in Nat : StartOf(n) = n * P BY DEF StartOf
<1>3. LongestCall = MaxRetries * P + LongestAttempt
  <2>1. \A m, a, b \in Nat : (m + 1) * a + m * b = m * (a + b) + a
    OBVIOUS
  <2>2. LongestCall = (MaxRetries + 1) * LongestAttempt + MaxRetries * LongestBackoff
    BY DEF LongestCall, LongestBackoff
  <2>3. MaxRetries \in Nat BY VkCallsAssumption
  <2> QED BY <2>1, <2>2, <2>3, Lengths
<1> HIDE DEF P
<1>4. StartOf(0) = 0
    BY <1>1, <1>2
<1>5. \A n, p \in Nat : n * p \in Nat /\ (n + 1) * p = n * p + p
    OBVIOUS
<1>6. ASSUME NEW n \in Nat
      PROVE  StartOf(n) \in Nat /\ StartOf(n + 1) = StartOf(n) + P
    BY <1>1, <1>2, <1>5
<1>7. \A n, m, p \in Nat : n <= m => n * p <= m * p
    OBVIOUS
<1>8. ASSUME NEW n \in 0..MaxRetries PROVE StartOf(n) + LongestAttempt <= LongestCall
  <2>1. n \in Nat /\ MaxRetries \in Nat /\ n <= MaxRetries
    BY VkCallsAssumption
  <2>2. n * P <= MaxRetries * P
    BY <1>1, <1>7, <2>1
  <2>3. n * P \in Nat /\ MaxRetries * P \in Nat
    BY <1>1, <1>5, <2>1
  <2> QED BY <1>2, <1>3, <2>1, <2>2, <2>3, Lengths
<1>9. \A n \in Nat : StartOf(n + 1) = StartOf(n) + LongestAttempt + LongestBackoff
  <2>1. \A a, b, c \in Nat : a + (b + c) = a + b + c
    OBVIOUS
  <2> QED BY <1>6, <2>1, Lengths DEF P
<1>10. LongestCall \in Nat
  <2>1. MaxRetries * P \in Nat
    BY <1>1, <1>5, VkCallsAssumption
  <2> QED BY <1>3, <2>1, Lengths
<1> QED BY <1>4, <1>6, <1>8, <1>9, <1>10

(* Nobody queues twice, so the queue is no longer than there are callers. *)
LEMMA QueueFits ==
    ASSUME NEW q \in Seq(Callers), \A i, j \in 1..Len(q) : q[i] = q[j] => i = j
    PROVE  Len(q) \in Nat /\ Len(q) <= Cardinality(Callers)
<1>1. Len(q) \in Nat /\ q \in [1..Len(q) -> Callers]
    BY LenProperties
<1>2. q \in Injection(1..Len(q), Callers)
    BY <1>1 DEF Injection, IsInjective
<1>3. Cardinality(1..Len(q)) = Len(q)
    BY <1>1, FS_Interval
<1> QED BY <1>1, <1>2, <1>3, FS_Injection, VkCallsAssumption

LEMMA BudgetInit == Init => Budget
<1> SUFFICES ASSUME Init PROVE Budget
    OBVIOUS
<1>1. 0 <= LongestCall
    BY Starts
<1> QED BY <1>1, Lengths DEF Init, Budget

(* An attempt that begins in time. *)
LEMMA TryInTime ==
    ASSUME Spacing, Waiting, Waiting', Shapes, NEW n \in 0..MaxRetries, Try(Probe, n),
           elapsed' \in Nat, elapsed' <= StartOf(n)
    PROVE  Budget'
<1> USE VkCallsAssumption, Lengths
<1>0. StartOf(n) \in Nat BY Starts
<1>1. attempt'[Probe] = n
    BY DEF Try, Shapes
<1>2. CASE Send(Probe)
  <2>1. phase'[Probe] = "sent" /\ timer'[Probe] = Timeout
    BY <1>2 DEF Send, Enter, Spacing, Shapes
  <2>2. elapsed' + Timeout + Late <= StartOf(n) + LongestAttempt
    BY <1>0
  <2> QED BY <1>1, <2>1, <2>2 DEF Budget
<1>3. CASE /\ queue' = Append(queue, Probe)
           /\ wake' = (IF wake = None THEN MinInterval - since ELSE wake)
           /\ Enter(Probe, "queued", None)
  <2>1. phase'[Probe] = "queued"
    BY <1>3 DEF Enter, Spacing
  <2>2. wake' \in Int /\ wake' <= MinInterval
    <3>1. /\ wake \in Int \cup {None} /\ (wake # None => wake <= MinInterval)
          /\ since \in 0..MinInterval
      BY DEF Spacing, Shapes
    <3> QED BY <1>3, <3>1
  <2>3. /\ Len(queue') = Len(queue) + 1 /\ Len(queue) \in Nat
        /\ Len(queue') <= Cardinality(Callers)
    <3>1. Len(queue') \in Nat /\ Len(queue') <= Cardinality(Callers)
      BY QueueFits DEF Waiting, QueueOK
    <3> QED BY <1>3, <3>1, AppendProperties, LenProperties DEF Waiting
  <2>4. ASSUME NEW k \in 1..Len(queue')
        PROVE  elapsed' + wake' + Late + (k - 1) * Slot
                 <= StartOf(n) + LongestWait
    <3>1. \A i, m, p \in Nat : i + 1 <= m => i * p + p <= m * p /\ i * p \in Nat
      <4>1. \A j, m, p \in Nat : j <= m => j * p <= m * p
        OBVIOUS
      <4>2. \A i, p \in Nat : (i + 1) * p = i * p + p /\ i * p \in Nat
        OBVIOUS
      <4> QED BY <4>1, <4>2
    <3>2. k - 1 \in Nat /\ (k - 1) + 1 <= Cardinality(Callers)
      BY <2>3
    <3>3. (k - 1) * Slot + Slot <= LongestWait /\ (k - 1) * Slot \in Nat
      BY <3>1, <3>2, Lengths, Zenon DEF LongestWait
    <3>4. elapsed' + wake' + Late <= StartOf(n) + Slot
      <4>1. wake' + Late <= Slot
        BY <2>2 DEF Slot
      <4>2. \A e, w, l, t, p \in Int : e <= t /\ w + l <= p => e + w + l <= t + p
        OBVIOUS
      <4>3. elapsed' \in Int /\ wake' \in Int /\ Late \in Int /\ StartOf(n) \in Int /\ Slot \in Int
        BY <1>0, <2>2
      <4> QED BY <4>1, <4>2, <4>3, Zenon
    <3>5. \A e, x, p, m, t \in Int : e <= t + p /\ x + p <= m => e + x <= t + m
      OBVIOUS
    <3>6. /\ elapsed' + wake' + Late \in Int /\ (k - 1) * Slot \in Int /\ Slot \in Int
          /\ LongestWait \in Int /\ StartOf(n) \in Int
      <4>1. elapsed' \in Int /\ Late \in Int /\ wake' \in Int
        BY <2>2
      <4>2. /\ (k - 1) * Slot \in Nat /\ Slot \in Nat
            /\ LongestWait \in Nat /\ StartOf(n) \in Nat
        BY <1>0, <3>3
      <4>3. \A i \in Nat : i \in Int
        OBVIOUS
      <4>4. elapsed' + wake' + Late \in Int
        BY <4>1
      <4> QED BY <4>2, <4>3, <4>4, Zenon
    <3> QED BY <3>3, <3>4, <3>5, <3>6, Zenon
  <2> QED BY <1>1, <2>1, <2>4 DEF Budget, InQueueBy
<1> QED BY <1>2, <1>3 DEF Try

(* What others do leaves Probe its place and its timer. *)
LEMMA OthersInTime ==
    ASSUME Budget, NEW c \in Callers, c # Probe, UNCHANGED <<elapsed, queue, wake>>,
           UNCHANGED <<phase[Probe], attempt[Probe], timer[Probe]>>
    PROVE  Budget'
BY DEF Budget, InQueueBy

LEMMA OtherEnters ==
    ASSUME Budget, Spacing, Shapes, NEW c \in Callers, c # Probe, NEW label, NEW t,
           Enter(c, label, t), UNCHANGED <<elapsed, queue, wake>>,
           attempt'[Probe] = attempt[Probe]
    PROVE  Budget'
<1>1. UNCHANGED <<phase[Probe], timer[Probe]>>
    BY Lengths DEF Enter, Spacing, Shapes
<1> QED BY <1>1, OthersInTime

LEMMA OtherTries ==
    ASSUME Budget, Spacing, Waiting, Shapes, NEW c \in Callers, c # Probe, NEW n, Try(c, n),
           UNCHANGED elapsed
    PROVE  Budget'
<1>0. attempt'[Probe] = attempt[Probe]
    BY Lengths DEF Try, Shapes
<1>1. CASE Send(c) /\ UNCHANGED <<queue, wake>>
    BY <1>0, <1>1, OtherEnters DEF Send
<1>2. CASE /\ queue' = Append(queue, c)
           /\ wake' = (IF wake = None THEN MinInterval - since ELSE wake)
           /\ Enter(c, "queued", None)
  <2>1. UNCHANGED <<phase[Probe], timer[Probe]>>
    BY <1>2, Lengths DEF Enter, Spacing, Shapes
  <2>2. /\ Len(queue') = Len(queue) + 1 /\ Len(queue) \in Nat
        /\ \A i \in 1..Len(queue) : queue'[i] = queue[i]
        /\ queue'[Len(queue) + 1] = c
    BY <1>2, AppendProperties, LenProperties DEF Waiting
  <2>3. phase[Probe] = "queued" => wake' = wake
    <3>1. phase[Probe] = "queued" => \E i \in 1..Len(queue) : queue[i] = Probe
      BY Lengths DEF Waiting, QueueOK
    <3>2. phase[Probe] = "queued" => queue # <<>>
      BY <2>2, <3>1, EmptySeq DEF Waiting
    <3>3. queue # <<>> => wake # None
      BY DEF Waiting, QueueOK
    <3> QED BY <1>2, <3>2, <3>3
  <2>4. \A k \in 1..Len(queue') : queue'[k] = Probe => k \in 1..Len(queue) /\ queue[k] = Probe
    BY <2>2
  <2> QED BY <1>0, <2>1, <2>3, <2>4 DEF Budget, InQueueBy
<1> QED BY <1>1, <1>2 DEF Try

(* The attempt fails: the call ends, goes on at once or after a backoff. *)
LEMMA RecoverInTime ==
    ASSUME Budget, Spacing, Waiting, Waiting', Shapes, phase[Probe] = "sent", NEW category,
           Recover(Probe, category), UNCHANGED elapsed
    PROVE  Budget'
<1> USE VkCallsAssumption, Lengths
<1> DEFINE a == attempt[Probe]
<1>1. a \in 0..MaxRetries /\ timer[Probe] \in Int /\ -Late <= timer[Probe]
  <2>1. timer[Probe] \in Timers /\ timer[Probe] # None /\ a \in 0..MaxRetries
    BY DEF Shapes
  <2> QED BY <2>1 DEF Timers
<1>2. /\ StartOf(a) \in Nat
      /\ StartOf(a + 1) = StartOf(a) + LongestAttempt + LongestBackoff
      /\ StartOf(a) + LongestAttempt <= LongestCall
    BY <1>1, Starts
<1>3. elapsed \in Nat /\ elapsed <= StartOf(a) + LongestAttempt
    BY <1>1, <1>2 DEF Budget
<1>4. CASE End(Probe)
  <2>1. phase'[Probe] = "idle"
    BY <1>4 DEF End, Enter, Spacing
  <2>2. elapsed' <= LongestCall
    BY <1>2, <1>3, Starts
  <2> QED BY <1>3, <2>1, <2>2 DEF Budget
<1>5. CASE a < MaxRetries /\ Try(Probe, a + 1)
  <2>1. elapsed' <= StartOf(a + 1) /\ a + 1 \in 0..MaxRetries
    BY <1>1, <1>2, <1>3, <1>5
  <2> QED BY <1>3, <1>5, <2>1, TryInTime
<1>6. ASSUME NEW delay \in 0..(DelayCap(a) - 1), Enter(Probe, "backoff", delay),
             UNCHANGED <<limiter, attempt, aborted, gap>>
      PROVE  Budget'
  <2>1. delay \in 0..(MaxDelay - 1)
    BY <1>1, DelayIsCapped
  <2>2. phase'[Probe] = "backoff" /\ timer'[Probe] = delay /\ attempt'[Probe] = a
    BY <1>6 DEF Enter, Spacing, Shapes
  <2>3. elapsed + delay + Late <= StartOf(a + 1)
    <3>1. delay + Late <= LongestBackoff /\ delay \in Int
      BY <2>1 DEF LongestBackoff
    <3>2. \A e, d, l, s, b \in Int : e <= s /\ d + l <= b => e + d + l <= s + b
      OBVIOUS
    <3>3. StartOf(a) + LongestAttempt \in Int
      BY <1>2
    <3>4. /\ elapsed \in Int /\ Late \in Int /\ LongestBackoff \in Int
      BY <1>3
    <3>5. elapsed + delay + Late <= (StartOf(a) + LongestAttempt) + LongestBackoff
      BY <1>3, <3>1, <3>2, <3>3, <3>4, Zenon
    <3> QED BY <1>2, <3>5
  <2> QED BY <1>3, <1>6, <2>2, <2>3 DEF Budget
<1> QED BY <1>4, <1>5, <1>6 DEF Recover

(* The first in the queue gets its slot, the others move up. *)
LEMMA QueueInTime ==
    ASSUME Budget, Spacing, Waiting, Shapes, ProcessQueue
    PROVE  Budget'
<1> USE VkCallsAssumption, Lengths
<1> DEFINE c == Head(queue)
<1>0. /\ elapsed \in Nat /\ UNCHANGED <<attempt, elapsed>>
      /\ attempt[Probe] \in 0..MaxRetries
    BY DEF ProcessQueue, Budget, Shapes
<1>1. wake \in Int /\ -Late <= wake /\ queue # <<>>
  <2>1. wake # None /\ wake \in Timers
    BY DEF ProcessQueue, Due, Shapes
  <2>2. queue # <<>>
    BY <2>1 DEF Waiting, QueueOK
  <2> QED BY <2>1, <2>2 DEF Timers
<1>2. /\ Len(queue) \in Nat /\ Len(queue) >= 1 /\ Len(queue') = Len(queue) - 1
      /\ \A i \in 1..Len(queue') : queue'[i] = queue[i + 1]
      /\ c = queue[1] /\ c \in Callers
    BY <1>1, HeadTailProperties, LenProperties DEF ProcessQueue, Waiting
<1>3. wake' = IF Len(queue) > 1 THEN MinInterval ELSE None
    BY DEF ProcessQueue, NextWake, SinceSlot
<1>4. \/ Enter(c, "sent", Timeout)
      \/ Enter(c, "idle", None)
    BY DEF ProcessQueue, HeedsAbort, End, Send
<1>5. CASE c = Probe
  <2> DEFINE X == StartOf(attempt[Probe]) + LongestWait
  <2>1. X \in Int /\ X + Timeout + Late = StartOf(attempt[Probe]) + LongestAttempt
        /\ StartOf(attempt[Probe]) + LongestAttempt <= LongestCall
    <3>1. StartOf(attempt[Probe]) \in Nat /\ LongestWait \in Nat
      BY <1>0, Starts
    <3>2. StartOf(attempt[Probe]) + LongestAttempt <= LongestCall
      BY <1>0, Starts
    <3>3. \A s, n, t, l \in Nat : s + n + t + l = s + (n + t + l)
      OBVIOUS
    <3> QED BY <3>1, <3>2, <3>3
  <2>2. elapsed <= X
    <3>1. phase[Probe] = "queued" /\ 1 \in 1..Len(queue) /\ queue[1] = Probe
      BY <1>2, <1>5 DEF Waiting, QueueOK
    <3>2. elapsed + wake + Late + (1 - 1) * Slot <= X
      BY <3>1 DEF Budget, InQueueBy
    <3>3. (1 - 1) * Slot = 0
      OBVIOUS
    <3> HIDE DEF X
    <3> QED BY <1>0, <1>1, <2>1, <3>2, <3>3
  <2> HIDE DEF X
  <2>3. CASE Enter(Probe, "sent", Timeout)
    <3>1. phase'[Probe] = "sent" /\ timer'[Probe] = Timeout
      BY <2>3 DEF Enter, Spacing, Shapes
    <3>2. elapsed' + Timeout + Late <= StartOf(attempt'[Probe]) + LongestAttempt
      BY <1>0, <2>1, <2>2
    <3> QED BY <1>0, <3>1, <3>2 DEF Budget
  <2>4. CASE Enter(Probe, "idle", None)
    <3>1. phase'[Probe] = "idle"
      BY <2>4 DEF Enter, Spacing
    <3>2. elapsed' <= LongestCall
      BY <1>0, <2>1, <2>2, Starts
    <3> QED BY <1>0, <3>1, <3>2 DEF Budget
  <2> QED BY <1>4, <1>5, <2>3, <2>4
<1>6. CASE c # Probe
  <2>1. UNCHANGED <<phase[Probe], timer[Probe]>>
    BY <1>2, <1>4, <1>6 DEF Enter, Spacing, Shapes
  <2>2. ASSUME NEW limit \in Int, InQueueBy(limit)
        PROVE  InQueueBy(limit)'
    <3> SUFFICES ASSUME NEW k \in 1..Len(queue'), queue'[k] = Probe
                 PROVE  elapsed + wake' + Late + (k - 1) * Slot <= limit
      BY <1>0 DEF InQueueBy
    <3>1. k + 1 \in 1..Len(queue) /\ queue[k + 1] = Probe /\ wake' = MinInterval
      <4>1. Len(queue') \in Nat /\ Len(queue) = Len(queue') + 1
        BY <1>2
      <4>2. k \in Nat /\ 1 <= k /\ k <= Len(queue')
        BY <4>1
      <4>3. k + 1 \in 1..Len(queue) /\ Len(queue) > 1
        BY <4>1, <4>2
      <4> QED BY <1>2, <1>3, <4>3
    <3>2. elapsed + wake + Late + ((k + 1) - 1) * Slot <= limit
      BY <2>2, <3>1 DEF InQueueBy
    <3>3. ((k + 1) - 1) * Slot = (k - 1) * Slot + Slot /\ (k - 1) * Slot \in Nat
      <4>1. \A i, p \in Nat : ((i + 1 + 1) - 1) * p = i * p + p /\ i * p \in Nat
        OBVIOUS
      <4>2. k - 1 \in Nat /\ k = (k - 1) + 1
        OBVIOUS
      <4> QED BY <4>1, <4>2
    <3>4. \A e, w, l, y, p, m \in Int :
            e + w + l + (y + p) <= limit /\ -l <= w /\ p = m + l => e + m + l + y <= limit
      OBVIOUS
    <3>5. elapsed + wake + Late + ((k - 1) * Slot + Slot) <= limit
      BY <3>2, <3>3
    <3>6. Slot = MinInterval + Late BY DEF Slot
    <3>7. /\ elapsed \in Int /\ wake \in Int /\ Late \in Int /\ (k - 1) * Slot \in Int
          /\ Slot \in Int /\ MinInterval \in Int
      BY <1>0, <1>1, <3>3
    <3> QED BY <1>1, <3>1, <3>4, <3>5, <3>6, <3>7, Zenon
  <2>3. StartOf(attempt[Probe]) + LongestWait \in Int
    <3>1. StartOf(attempt[Probe]) \in Nat BY <1>0, Starts
    <3> QED BY <3>1
  <2>4. phase[Probe] = "queued" =>
          InQueueBy(StartOf(attempt[Probe]) + LongestWait)'
    BY <1>0, <2>2, <2>3 DEF Budget
  <2> QED BY <1>0, <2>1, <2>4 DEF Budget
<1> QED BY <1>5, <1>6

LEMMA TickInTime ==
    ASSUME Budget, Spacing, Waiting, Shapes, Tick
    PROVE  Budget'
<1> USE VkCallsAssumption, Lengths
<1>1. /\ UNCHANGED <<queue, phase, attempt, aborted>>
      /\ elapsed' = IF phase[Probe] = "idle" THEN 0 ELSE elapsed + 1
      /\ wake' = AfterTick(wake) /\ timer'[Probe] = AfterTick(timer[Probe])
      /\ elapsed \in Nat
    BY DEF Tick, Budget
<1>2. CASE phase[Probe] = "idle"
  <2>1. 0 <= LongestCall BY Starts
  <2> QED BY <1>1, <1>2, <2>1 DEF Budget
<1>3. CASE phase[Probe] = "queued"
  <2>1. wake \in Int /\ wake' = wake - 1
    <3>1. \E i \in 1..Len(queue) : queue[i] = Probe
      BY <1>3 DEF Waiting, QueueOK
    <3>2. Len(queue) # 0
      BY <3>1, LenProperties DEF Waiting
    <3>3. queue # <<>>
      BY <3>2, EmptySeq
    <3>4. wake # None /\ wake \in Timers
      BY <3>3 DEF Waiting, QueueOK, Shapes
    <3> QED BY <1>1, <3>4, TimersAre DEF AfterTick
  <2>2. elapsed' + wake' + Late = elapsed + wake + Late /\ elapsed' \in Nat
    BY <1>1, <1>3, <2>1
  <2>3. ASSUME NEW limit, InQueueBy(limit) PROVE InQueueBy(limit)'
    BY <1>1, <2>2, <2>3 DEF InQueueBy
  <2> QED BY <1>1, <1>3, <2>2, <2>3 DEF Budget
<1>4. CASE phase[Probe] \in {"sent", "backoff"}
  <2>1. timer[Probe] \in Int /\ timer'[Probe] = timer[Probe] - 1
    <3>1. timer[Probe] # None /\ timer[Probe] \in Timers
      BY <1>4 DEF Shapes
    <3> QED BY <1>1, <3>1, TimersAre DEF AfterTick
  <2>2. elapsed' + timer'[Probe] + Late = elapsed + timer[Probe] + Late /\ elapsed' \in Nat
    <3>1. elapsed' = elapsed + 1 /\ Late \in Int
      BY <1>1, <1>4
    <3>2. \A e, t, l \in Int : e + 1 + (t - 1) + l = e + t + l
      OBVIOUS
    <3>3. elapsed + 1 + (timer[Probe] - 1) + Late = elapsed + timer[Probe] + Late
      <4>1. elapsed \in Int /\ timer[Probe] \in Int /\ Late \in Int
        BY <1>1, <2>1, <3>1
      <4> QED BY <3>2, <4>1, Zenon
    <3>4. elapsed + 1 \in Nat BY <1>1
    <3> QED BY <2>1, <3>1, <3>3, <3>4, Zenon
  <2> QED BY <1>1, <1>4, <2>2 DEF Budget
<1> QED BY <1>2, <1>3, <1>4 DEF Spacing

LEMMA StepInTime ==
    ASSUME Budget, Spacing, Waiting, Waiting', Shapes, [Next]_vars
    PROVE  Budget'
<1> USE VkCallsAssumption, Lengths
<1>0. elapsed \in Nat BY DEF Budget
<1>1. ASSUME NEW c \in Callers, Begin(c) PROVE Budget'
  <2>1. CASE c = Probe
    <3>1. elapsed' = 0 /\ Try(Probe, 0) /\ 0 \in 0..MaxRetries /\ StartOf(0) = 0
      BY <1>1, <2>1, Starts DEF Begin
    <3>2. elapsed' \in Nat /\ elapsed' <= StartOf(0)
      BY <3>1
    <3> QED BY <3>1, <3>2, TryInTime
  <2>2. CASE c # Probe
    BY <1>1, <2>2, OtherTries DEF Begin
  <2> QED BY <2>1, <2>2
<1>2. ASSUME NEW c \in Callers, c # Probe, NEW category, Recover(c, category),
             UNCHANGED elapsed
      PROVE  Budget'
  <2>1. CASE End(c) /\ UNCHANGED <<limiter, attempt>>
    BY <1>2, <2>1, OtherEnters DEF End, limiter
  <2>2. CASE Try(c, attempt[c] + 1)
    BY <1>2, <2>2, OtherTries
  <2>3. ASSUME NEW delay, Enter(c, "backoff", delay), UNCHANGED <<limiter, attempt, aborted, gap>>
        PROVE  Budget'
    BY <1>2, <2>3, OtherEnters DEF limiter
  <2> QED BY <1>2, <2>1, <2>2, <2>3 DEF Recover
<1>3. ASSUME NEW c \in Callers, Answer(c) PROVE Budget'
  <2>1. phase[c] = "sent" /\ UNCHANGED elapsed
    BY <1>3 DEF Answer
  <2>2. CASE End(c) /\ UNCHANGED <<limiter, attempt>>
    <3>1. CASE c = Probe
      <4>1. Recover(Probe, "VALIDATION")
        BY <2>2, <3>1 DEF Recover, IsRetryable
      <4> QED BY <2>1, <3>1, <4>1, RecoverInTime
    <3>2. CASE c # Probe
      BY <2>1, <2>2, <3>2, OtherEnters DEF End, limiter
    <3> QED BY <3>1, <3>2
  <2>3. ASSUME NEW category, Recover(c, category) PROVE Budget'
    BY <1>2, <2>1, <2>3, RecoverInTime
  <2> QED BY <1>3, <2>2, <2>3 DEF Answer
<1>4. ASSUME NEW c \in Callers, TimeOut(c) PROVE Budget'
    BY <1>2, <1>4, RecoverInTime DEF TimeOut
<1>5. ASSUME NEW c \in Callers, Retry(c) PROVE Budget'
  <2>1. CASE c = Probe
    <3>1. /\ timer[Probe] \in Timers /\ timer[Probe] # None
          /\ attempt[Probe] \in 0..MaxRetries /\ attempt[Probe] < MaxRetries
      BY <1>5, <2>1 DEF Retry, Shapes
    <3>2. timer[Probe] \in Int /\ -Late <= timer[Probe]
      BY <3>1 DEF Timers
    <3>3. attempt[Probe] + 1 \in 0..MaxRetries /\ StartOf(attempt[Probe] + 1) \in Nat
      BY <3>1, Starts
    <3>4. elapsed + timer[Probe] + Late <= StartOf(attempt[Probe] + 1)
      BY <1>5, <2>1 DEF Retry, Budget
    <3>5. elapsed' \in Nat /\ elapsed' <= StartOf(attempt[Probe] + 1)
      BY <1>0, <1>5, <3>2, <3>3, <3>4 DEF Retry
    <3> QED BY <1>5, <2>1, <3>3, <3>5, TryInTime DEF Retry
  <2>2. CASE c # Probe
    BY <1>5, <2>2, OtherTries DEF Retry
  <2> QED BY <2>1, <2>2
<1>6. ASSUME NEW c \in Callers, Abort(c) PROVE Budget'
  <2>1. CASE UNCHANGED <<call, gap>>
    BY <1>6, <2>1 DEF Abort, call, limiter, Budget, InQueueBy
  <2>2. CASE phase[c] \in {"sent", "backoff"} /\ Cancel(c) /\ UNCHANGED attempt
    <3>1. CASE c # Probe
      BY <1>6, <2>2, <3>1, OtherEnters DEF Abort, Cancel, End, limiter
    <3>2. CASE c = Probe
      <4>1. /\ timer[Probe] \in Timers /\ timer[Probe] # None
            /\ attempt[Probe] \in 0..MaxRetries
            /\ phase[Probe] = "backoff" => attempt[Probe] < MaxRetries
        BY <2>2, <3>2 DEF Shapes
      <4>2. timer[Probe] \in Int /\ -Late <= timer[Probe]
        BY <4>1 DEF Timers
      <4>3. /\ StartOf(attempt[Probe]) + LongestAttempt <= LongestCall
            /\ StartOf(attempt[Probe]) \in Nat /\ LongestCall \in Nat
        BY <4>1, Starts
      <4>4. phase[Probe] = "backoff" =>
              StartOf(attempt[Probe] + 1) \in Nat /\ StartOf(attempt[Probe] + 1) <= LongestCall
        <5> SUFFICES ASSUME phase[Probe] = "backoff"
                     PROVE  /\ StartOf(attempt[Probe] + 1) \in Nat
                            /\ StartOf(attempt[Probe] + 1) <= LongestCall
          OBVIOUS
        <5>1. attempt[Probe] + 1 \in 0..MaxRetries
          BY <4>1
        <5>2. /\ StartOf(attempt[Probe] + 1) + LongestAttempt <= LongestCall
              /\ StartOf(attempt[Probe] + 1) \in Nat
          BY <5>1, Starts
        <5> QED BY <4>3, <5>2
      <4>5. elapsed <= LongestCall
        BY <1>0, <2>2, <3>2, <4>2, <4>3, <4>4 DEF Budget
      <4>6. phase'[Probe] = "idle" /\ elapsed' = elapsed
        BY <1>6, <2>2, <3>2 DEF Abort, Cancel, End, Enter, Spacing
      <4> QED BY <1>0, <4>5, <4>6 DEF Budget
    <3> QED BY <3>1, <3>2
  <2> QED BY <1>6, <2>1, <2>2 DEF Abort
<1>7. CASE ProcessQueue
    BY <1>7, QueueInTime
<1>8. CASE Tick
    BY <1>8, TickInTime
<1>9. CASE UNCHANGED vars
    BY <1>9 DEF vars, limiter, call, Budget, InQueueBy
<1> QED BY <1>1, <1>3, <1>4, <1>5, <1>6, <1>7, <1>8, <1>9 DEF Next

LEMMA BudgetSuffices ==
    ASSUME Budget, Spacing, Waiting, Shapes
    PROVE  CallsEndInTime
<1> USE VkCallsAssumption, Lengths
<1>0. /\ elapsed \in Nat /\ LongestCall \in Nat
      /\ attempt[Probe] \in 0..MaxRetries
    BY Starts DEF Budget, Shapes
<1>1. /\ StartOf(attempt[Probe]) \in Nat
      /\ StartOf(attempt[Probe]) + LongestAttempt <= LongestCall
    BY <1>0, Starts
<1>2. CASE phase[Probe] = "idle"
    BY <1>2 DEF Budget, CallsEndInTime
<1>3. CASE phase[Probe] = "queued"
  <2>1. PICK k \in 1..Len(queue) : queue[k] = Probe
    BY <1>3 DEF Waiting, QueueOK
  <2>2. queue # <<>> /\ Len(queue) \in Nat
    BY <2>1, LenProperties, EmptySeq DEF Waiting
  <2>3. wake \in Timers /\ wake # None
    BY <2>2 DEF Waiting, QueueOK, Shapes
  <2>4. wake \in Int /\ -Late <= wake
    BY <2>3 DEF Timers
  <2>5. elapsed + wake + Late + (k - 1) * Slot
          <= StartOf(attempt[Probe]) + LongestWait
    BY <1>3, <2>1 DEF Budget, InQueueBy
  <2>6. (k - 1) * Slot \in Nat
    <3>1. \A i, p \in Nat : i * p \in Nat
      OBVIOUS
    <3>2. k - 1 \in Nat BY <2>1, <2>2
    <3> QED BY <3>1, <3>2
  <2>7. \A e, w, l, y, x, q, z \in Int :
          e + w + l + y <= x + q /\ -l <= w /\ 0 <= y /\ x + z <= LongestCall /\ q <= z
            => e <= LongestCall
    BY <1>0
  <2>8. /\ elapsed \in Int /\ Late \in Int /\ (k - 1) * Slot \in Int /\ 0 <= (k - 1) * Slot
        /\ StartOf(attempt[Probe]) \in Int /\ LongestWait \in Int
        /\ LongestAttempt \in Int /\ LongestWait <= LongestAttempt
    <3>1. elapsed \in Int /\ Late \in Int /\ StartOf(attempt[Probe]) \in Int
      BY <1>0, <1>1
    <3>2. (k - 1) * Slot \in Int /\ 0 <= (k - 1) * Slot
      <4> DEFINE x == (k - 1) * Slot
      <4>1. x \in Nat
        BY <2>6
      <4> HIDE DEF x
      <4>2. x \in Int /\ 0 <= x
        BY <4>1
      <4> QED BY <4>2 DEF x
    <3>3. LongestWait \in Int /\ LongestAttempt \in Int /\ LongestWait <= LongestAttempt
      BY Lengths
    <3> QED BY <3>1, <3>2, <3>3
  <2>9. elapsed <= LongestCall
    BY <1>1, <2>4, <2>5, <2>7, <2>8, Zenon
  <2> QED BY <2>9 DEF CallsEndInTime
<1>4. CASE phase[Probe] = "sent"
  <2>1. timer[Probe] \in Timers /\ timer[Probe] # None
    BY <1>4 DEF Shapes
  <2>2. timer[Probe] \in Int /\ -Late <= timer[Probe]
    BY <2>1 DEF Timers
  <2> QED BY <1>0, <1>1, <1>4, <2>2 DEF Budget, CallsEndInTime
<1>5. CASE phase[Probe] = "backoff"
  <2>1. timer[Probe] \in Timers /\ timer[Probe] # None /\ attempt[Probe] < MaxRetries
    BY <1>5 DEF Shapes
  <2>2. timer[Probe] \in Int /\ -Late <= timer[Probe]
    BY <2>1 DEF Timers
  <2>3. /\ StartOf(attempt[Probe] + 1) \in Nat
        /\ StartOf(attempt[Probe] + 1) + LongestAttempt <= LongestCall
    BY <1>0, <2>1, Starts
  <2> QED BY <1>0, <1>5, <2>2, <2>3 DEF Budget, CallsEndInTime
<1> QED BY <1>2, <1>3, <1>4, <1>5 DEF Spacing

(* A call of the VK API ends within LongestCall, whoever else calls and    *)
(* retries at the same time and whatever VK answers or fails to answer.    *)
THEOREM CallsAreShort == Spec => []CallsEndInTime
<1>1. Budget /\ Spacing /\ Waiting /\ Shapes => CallsEndInTime
    BY BudgetSuffices
<1>2. Spacing /\ Waiting /\ Shapes /\ [Next]_vars => Shapes'
    BY StepShapes
<1>3. Spacing /\ Waiting /\ [Next]_vars => Waiting'
    BY StepWaits
<1>4. Budget /\ Spacing /\ Waiting /\ Waiting' /\ Shapes /\ [Next]_vars => Budget'
    BY StepInTime
<1> QED BY <1>1, <1>2, <1>3, <1>4, BudgetInit, ShapesInit, WaitingInit, SpacingHolds, PTL DEF Spec

===============================================================================
