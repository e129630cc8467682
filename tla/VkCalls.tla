-------------------------------- MODULE VkCalls --------------------------------
(***************************************************************************)
(* Calls of the VK API by concurrent handlers of one instance: the queue   *)
(* of the shared rate limiter, the timeout of each attempt, the retries    *)
(* with backoff, and the caller's signal.                                  *)
(*                                                                         *)
(* Time passes in ticks; a timer is counted down and its callback runs     *)
(* when it is due, or up to Late ticks later when the event loop is busy.  *)
(* The wall clock that the limiter reads is taken to run with the timers.  *)
(***************************************************************************)
EXTENDS Integers, Sequences, FiniteSets

CONSTANTS
    Callers,        \* handlers calling VK at the same time
    Abortable,      \* those that pass a signal
    Probe,          \* the caller whose calls are timed
    MinInterval,    \* minIntervalMs
    Timeout,        \* timeoutMs
    MaxRetries, InitialDelay, Factor, MaxDelay,     \* VkRetryOptions
    ApiCodes,       \* error codes in VK's answers
    HttpStatuses,   \* other HTTP statuses than 200 of its answers
    Late,           \* bound: how late a timer runs
    None

ASSUME VkCallsAssumption ==
    /\ Abortable \subseteq Callers /\ Probe \in Callers /\ IsFiniteSet(Callers)
    /\ {MinInterval, Timeout, InitialDelay, Factor, MaxDelay} \subseteq Nat \ {0}
    /\ {MaxRetries, Late} \subseteq Nat
    /\ None \notin Int

VARIABLES
    queue,      \* callers waiting for a slot
    wake,       \* the timer processQueue awaits; None: it is not processing
    since,      \* time since lastRequestTime, up to MinInterval
    phase,      \* per caller: "idle", "queued", "sent" or "backoff"
    attempt,    \* per caller: retries made
    timer,      \* per caller: its timeout or its backoff
    aborted,    \* callers whose signal was aborted during the call
    gap,        \* history: time since a request was sent, up to MinInterval
    elapsed     \* history: how long Probe's call has lasted

limiter == <<queue, wake, since>>
call    == <<phase, attempt, timer>>
vars    == <<limiter, call, aborted, gap, elapsed>>

Init ==
    /\ queue = <<>> /\ wake = None /\ since = MinInterval
    /\ phase = [c \in Callers |-> "idle"]
    /\ attempt = [c \in Callers |-> 0]
    /\ timer = [c \in Callers |-> None]
    /\ aborted = {}
    /\ gap = MinInterval
    /\ elapsed = 0

-----------------------------------------------------------------------------
(* Errors.                                                                 *)

ApiCategory(code) ==
    CASE code \in {1, 10} -> "TEMPORARY"
      [] code \in {4, 5, 28} -> "AUTH"
      [] code \in {6, 9, 29} -> "RATE_LIMIT"
      [] code \in {7, 260} -> "PERMISSION"
      [] code \in {15, 30, 203} -> "PRIVATE_RESOURCE"
      [] code = 36 -> "TIMEOUT"
      [] code \in {104, 210, 214} -> "NOT_FOUND"
      [] OTHER -> "VALIDATION"

HttpCategory(status) ==
    CASE status = 429 -> "RATE_LIMIT"
      [] status \in 500..504 -> "TEMPORARY"
      [] status = 401 -> "AUTH"
      [] status = 403 -> "PERMISSION"
      [] status = 404 -> "NOT_FOUND"
      [] status \in (400..499) \ {401, 403, 404, 429} -> "VALIDATION"
      [] OTHER -> "NETWORK"

IsRetryable(category) == category \in {"RATE_LIMIT", "TEMPORARY", "NETWORK", "TIMEOUT"}

(* How an attempt fails that is neither timed out nor cancelled: by an     *)
(* error of VK, of the transport, or of the answer's text.                 *)
Failures ==
    {ApiCategory(code) : code \in ApiCodes}
        \cup {HttpCategory(status) : status \in HttpStatuses}
        \cup {"NETWORK", "VALIDATION"}

(* Full jitter: anything below the exponential delay with its cap. *)
DelayCapUncapped(n) == InitialDelay * Factor ^ n
DelayCap(n) ==
    IF InitialDelay * Factor ^ n < MaxDelay THEN InitialDelay * Factor ^ n ELSE MaxDelay

-----------------------------------------------------------------------------
(* The steps of a call.                                                    *)

Enter(c, label, t) ==
    /\ phase' = [phase EXCEPT ![c] = label]
    /\ timer' = [timer EXCEPT ![c] = t]

Send(c) == Enter(c, "sent", Timeout) /\ gap' = 0 /\ UNCHANGED aborted

End(c) == Enter(c, "idle", None) /\ aborted' = aborted \ {c} /\ UNCHANGED gap

(* The timer is cleared and the call rejected. *)
CancelUnanswered(c) == Enter(c, phase[c], None) /\ UNCHANGED <<aborted, gap>>
Cancel(c) == End(c)

Due(t) == t # None /\ t <= 0

SlotIsFree == wake = None /\ since = MinInterval

(* acquire: a free slot is taken at once; otherwise the caller queues up,  *)
(* and the first to do so starts the timer.                                *)
Try(c, n) ==
    /\ attempt' = [attempt EXCEPT ![c] = n]
    /\ \/ /\ SlotIsFree
          /\ since' = 0
          /\ Send(c)
          /\ UNCHANGED <<queue, wake>>
       \/ /\ ~SlotIsFree
          /\ queue' = Append(queue, c)
          /\ wake' = IF wake = None THEN MinInterval - since ELSE wake
          /\ Enter(c, "queued", None)
          /\ UNCHANGED <<since, aborted, gap>>

Begin(c) ==
    /\ phase[c] = "idle"
    /\ Try(c, 0)
    /\ elapsed' = IF c = Probe THEN 0 ELSE elapsed

(* What lastRequestTime is set to: the time at which the timer ran, not    *)
(* the one for which it was set.                                           *)
SinceSlotPlanned == -wake
SinceSlot == 0

HeedsAbortNever(c) == FALSE
HeedsAbort(c) == c \in aborted

NextWake == IF Len(queue) > 1 THEN MinInterval - SinceSlot ELSE None

(* processQueue: the first in the queue gets its slot, which is lost if it *)
(* was cancelled meanwhile.                                                *)
ProcessQueue ==
    /\ Due(wake)
    /\ since' = SinceSlot
    /\ queue' = Tail(queue)
    /\ wake' = NextWake
    /\ LET c == Head(queue) IN IF HeedsAbort(c) THEN End(c) ELSE Send(c)
    /\ UNCHANGED <<attempt, elapsed>>

(* The loop of executeWithRetry after an error; no delay, no await.        *)
Recover(c, category) ==
    \/ /\ attempt[c] = MaxRetries \/ ~IsRetryable(category)
       /\ End(c)
       /\ UNCHANGED <<limiter, attempt>>
    \/ /\ attempt[c] < MaxRetries /\ IsRetryable(category)
       /\ \E delay \in 0..(DelayCap(attempt[c]) - 1) :
             IF delay = 0 THEN Try(c, attempt[c] + 1)
             ELSE Enter(c, "backoff", delay) /\ UNCHANGED <<limiter, attempt, aborted, gap>>

Answer(c) ==
    /\ phase[c] = "sent"
    /\ \/ End(c) /\ UNCHANGED <<limiter, attempt>>
       \/ \E category \in Failures : Recover(c, category)
    /\ UNCHANGED elapsed

TimeOut(c) ==
    /\ phase[c] = "sent" /\ Due(timer[c])
    /\ Recover(c, "TIMEOUT")
    /\ UNCHANGED elapsed

Retry(c) ==
    /\ phase[c] = "backoff" /\ Due(timer[c])
    /\ Try(c, attempt[c] + 1)
    /\ UNCHANGED elapsed

(* The caller's signal: noticed at once by a request and by a backoff, by  *)
(* a queued call only when it gets its slot.                               *)
Abort(c) ==
    /\ c \in Abortable \ aborted
    /\ \/ phase[c] = "queued" /\ aborted' = aborted \cup {c} /\ UNCHANGED <<call, gap>>
       \/ phase[c] \in {"sent", "backoff"} /\ Cancel(c) /\ UNCHANGED attempt
    /\ UNCHANGED <<limiter, elapsed>>

(* Time passes unless a timer is too late already. *)
AfterTick(t) == IF t = None THEN None ELSE t - 1
Older(t) == IF t < MinInterval THEN t + 1 ELSE t

Tick ==
    /\ \A t \in ({wake} \cup {timer[c] : c \in Callers}) \ {None} : t > -Late
    /\ wake' = AfterTick(wake)
    /\ timer' = [c \in Callers |-> AfterTick(timer[c])]
    /\ since' = Older(since) /\ gap' = Older(gap)
    /\ elapsed' = IF phase[Probe] = "idle" THEN 0 ELSE elapsed + 1
    /\ UNCHANGED <<queue, phase, attempt, aborted>>

Next ==
    \/ \E c \in Callers : Begin(c) \/ Answer(c) \/ TimeOut(c) \/ Retry(c) \/ Abort(c)
    \/ ProcessQueue
    \/ Tick

(* Timers run, and time goes on; VK need not answer. *)
Fairness ==
    /\ WF_vars(Tick)
    /\ WF_vars(ProcessQueue)
    /\ \A c \in Callers : WF_vars(TimeOut(c)) /\ WF_vars(Retry(c))

Spec == Init /\ [][Next]_vars /\ Fairness

-----------------------------------------------------------------------------
(* Properties.                                                             *)

Timers == (-Late..(MinInterval + Timeout + MaxDelay)) \cup {None}

(* The limiter processes exactly while somebody is queued: no wake-up is   *)
(* lost, and nobody waits twice or waits on while a slot is free.  A call  *)
(* aborted while it waited for its slot is never sent.                     *)
QueueOK ==
    /\ wake # None <=> queue # <<>>
    /\ \A c \in Callers : phase[c] = "queued" <=> \E i \in 1..Len(queue) : queue[i] = c
    /\ \A i, j \in 1..Len(queue) : queue[i] = queue[j] => i = j
    /\ \A c \in aborted : phase[c] = "queued"

TypeOK ==
    /\ phase \in [Callers -> {"idle", "queued", "sent", "backoff"}]
    /\ attempt \in [Callers -> 0..MaxRetries]
    /\ timer \in [Callers -> Timers] /\ wake \in Timers
    /\ since \in 0..MinInterval /\ gap \in 0..MinInterval
    /\ queue \in Seq(Callers) /\ aborted \subseteq Abortable
    /\ QueueOK

(* Whoever calls, retries, times out or cancels, and however late timers   *)
(* run, two requests to VK are sent MinInterval apart.                     *)
RequestsSpaced ==
    [][\A c \in Callers :
          phase[c] # "sent" /\ phase'[c] = "sent" => gap = MinInterval]_vars

(* Everybody queues at most once and in order, so that no call lasts       *)
(* longer than its attempts, each with a full queue before it and a whole  *)
(* timeout, and the capped backoffs between them.                          *)
LongestAttempt ==
    Cardinality(Callers) * (MinInterval + Late) + Timeout + Late

LongestCall ==
    (MaxRetries + 1) * LongestAttempt + MaxRetries * (MaxDelay - 1 + Late)

CallsEndInTime == elapsed <= LongestCall

(* Every call ends, though VK may never answer and the others may call     *)
(* again and again.                                                        *)
EveryCallEnds == \A c \in Callers : phase[c] # "idle" ~> phase[c] = "idle"

===============================================================================
