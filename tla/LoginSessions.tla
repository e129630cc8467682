------------------------------ MODULE LoginSessions ----------------------------
(***************************************************************************)
(* Login and sessions: the OAuth state that starts a login and is consumed *)
(* by its callback, the session the callback makes, the row that every     *)
(* instance reads and the copies each instance keeps of what it read.      *)
(*                                                                         *)
(* A handler is cut at its awaits.  Time is that of the instances, whose   *)
(* clocks agree.  A request with a session that is cached where it arrives *)
(* is let in by a step that changes nothing: Accepts is what it would be   *)
(* told.                                                                   *)
(***************************************************************************)
EXTENDS Integers, FiniteSets

CONSTANTS
    Requests, Instances,
    On,          \* the instance that serves a request
    States,      \* random OAuth states, each made at most once
    Sessions,    \* random session ids, each made at most once
    StateTtl,    \* 10 minutes
    SessionTtl,  \* 30 days
    CacheTtl,    \* 60 seconds
    Latency,     \* the longest a handler takes before it ends or fails
    MaxNow,      \* bound: time
    None

ASSUME LoginAssumption ==
    /\ On \in [Requests -> Instances]
    /\ {StateTtl, SessionTtl, CacheTtl, Latency, MaxNow} \subseteq Nat
    /\ Latency <= CacheTtl
    /\ None \notin Nat \cup States \cup Sessions
    /\ None \notin [state : States, on : Instances, until : Nat, given : BOOLEAN]
    /\ None \notin [on : Instances, at : Nat]

VARIABLES
    now,           \* Date.now()
    transactions,  \* OAuthTransaction rows: when the state expires
    rows,          \* Session rows: when the session expires
    cache,         \* validSessionCache of each instance: when the copy expires
    pc, job,       \* each handler: where it waits and what it holds
    since,         \* when it began, 0 if it is idle
    issued,        \* history: states made
    cancelled,     \* history: states whose row a cancellation took
    born,          \* history: of a session, the state and instance of its login,
                   \* its expiry, and whether a client was given it
    ended          \* history: of a session logged out, where and when

vars == <<now, transactions, rows, cache, pc, job, since, issued, cancelled, born, ended>>

store == <<transactions, rows, cache>>
history == <<issued, cancelled, born, ended>>

NoJob == [of |-> None, expiresAt |-> None]

-----------------------------------------------------------------------------
(* Definitions the handlers share. *)

ExpiredNever(expiresAt) == FALSE
Expired(expiresAt) == now > expiresAt

Accepts(i, s) == cache[i][s] # None /\ ~Expired(cache[i][s])

CacheUntil(ttl) == now + ttl

Cached(i, s, ttl) == [cache EXCEPT ![i][s] = CacheUntil(ttl)]
InvalidatedNot(i, s) == cache
Invalidated(i, s) == [cache EXCEPT ![i][s] = None]

(* Continue the handler at step where, holding j; End it with a reply. *)
Goto(r, where, j) ==
    /\ pc' = [pc EXCEPT ![r] = where]
    /\ job' = [job EXCEPT ![r] = j]
    /\ UNCHANGED since

Begin(r, where, j) ==
    /\ pc[r] = "idle"
    /\ pc' = [pc EXCEPT ![r] = where]
    /\ job' = [job EXCEPT ![r] = j]
    /\ since' = [since EXCEPT ![r] = now]

End(r) ==
    /\ pc' = [pc EXCEPT ![r] = "idle"]
    /\ job' = [job EXCEPT ![r] = NoJob]
    /\ since' = [since EXCEPT ![r] = 0]

-----------------------------------------------------------------------------
Init ==
    /\ now = 0
    /\ transactions = [t \in States |-> None]
    /\ rows = [s \in Sessions |-> None]
    /\ cache = [i \in Instances |-> [s \in Sessions |-> None]]
    /\ pc = [r \in Requests |-> "idle"]
    /\ job = [r \in Requests |-> NoJob]
    /\ since = [r \in Requests |-> 0]
    /\ issued = {} /\ cancelled = {}
    /\ born = [s \in Sessions |-> None]
    /\ ended = [s \in Sessions |-> None]

(* GET auth/vk/start: createTransaction, then the redirect to VK. *)
StartLogin(t) ==
    /\ t \notin issued
    /\ transactions' = [transactions EXCEPT ![t] = now + StateTtl]
    /\ issued' = issued \cup {t}
    /\ UNCHANGED <<now, rows, cache, pc, job, since, cancelled, born, ended>>

(* GET auth/vk/callback with an error: invalidateTransaction. *)
CancelLogin(t) ==
    /\ transactions[t] # None
    /\ transactions' = [transactions EXCEPT ![t] = None]
    /\ cancelled' = cancelled \cup {t}
    /\ UNCHANGED <<now, rows, cache, pc, job, since, issued, born, ended>>

(* The callback with a code: findUnique of consumeTransaction.  A state    *)
(* that is not there is refused.                                           *)
FindTransaction(r, t) ==
    /\ transactions[t] # None
    /\ Begin(r, "claim", [of |-> t, expiresAt |-> transactions[t]])
    /\ UNCHANGED <<now, store, history>>

(* delete and commit; for a row that is gone, P2025 becomes a refusal. *)
ClaimableFound(t) == TRUE
Claimable(t) == transactions[t] # None

DeleteTransaction(r) ==
    /\ pc[r] = "claim"
    /\ IF Claimable(job[r].of)
       THEN /\ transactions' = [transactions EXCEPT ![job[r].of] = None]
            /\ Goto(r, "claimed", job[r])
       ELSE End(r) /\ UNCHANGED transactions
    /\ UNCHANGED <<now, rows, cache, history>>

(* The expiry is checked when the transaction is gone already. *)
CheckTransaction(r) ==
    /\ pc[r] = "claimed"
    /\ IF Expired(job[r].expiresAt) THEN End(r) ELSE Goto(r, "exchange", job[r])
    /\ UNCHANGED <<now, store, history>>

(* VK has exchanged the code, tokens are stored, and createSession writes  *)
(* its row.                                                                *)
CreateSession(r, s) ==
    /\ pc[r] = "exchange"
    /\ born[s] = None
    /\ rows' = [rows EXCEPT ![s] = now + SessionTtl]
    /\ born' = [born EXCEPT ![s] =
          [state |-> job[r].of, on |-> On[r], until |-> now + SessionTtl, given |-> FALSE]]
    /\ Goto(r, "created", [of |-> s, expiresAt |-> None])
    /\ UNCHANGED <<now, transactions, cache, issued, cancelled, ended>>

(* The rest of createSession, and the cookie. *)
CacheCreated(r) ==
    /\ pc[r] = "created"
    /\ cache' = Cached(On[r], job[r].of, SessionTtl)
    /\ born' = [born EXCEPT ![job[r].of].given = TRUE]
    /\ End(r)
    /\ UNCHANGED <<now, transactions, rows, issued, cancelled, ended>>

(* A client knows the cookie of a session once its login has replied. *)
Known(s) == born[s] # None /\ born[s].given

(* requireAuthenticatedUser and GET auth/me, when the session is not in    *)
(* the cache: getSession's lookup.                                         *)
LookUp(r, s) ==
    /\ Known(s)
    /\ ~Accepts(On[r], s)
    /\ Begin(r, "lookup", [of |-> s, expiresAt |-> None])
    /\ cache' = Invalidated(On[r], s)
    /\ UNCHANGED <<now, transactions, rows, history>>

FindSession(r) ==
    /\ pc[r] = "lookup"
    /\ Goto(r, "found", [of |-> job[r].of, expiresAt |-> rows[job[r].of]])
    /\ UNCHANGED <<now, store, history>>

(* No row is an answer of 401, an expired one is deleted first, and a live *)
(* one is cached.                                                          *)
FinishLookup(r) ==
    /\ pc[r] = "found"
    /\ IF job[r].expiresAt = None
       THEN End(r) /\ UNCHANGED cache
       ELSE IF Expired(job[r].expiresAt)
       THEN Goto(r, "purge", job[r]) /\ cache' = Invalidated(On[r], job[r].of)
       ELSE End(r) /\ cache' = Cached(On[r], job[r].of, CacheTtl)
    /\ UNCHANGED <<now, transactions, rows, history>>

PurgeSession(r) ==
    /\ pc[r] = "purge"
    /\ rows' = [rows EXCEPT ![job[r].of] = None]
    /\ End(r)
    /\ UNCHANGED <<now, transactions, cache, history>>

(* POST auth/logout: destroySession. *)
Logout(r, s) ==
    /\ Known(s)
    /\ Begin(r, "logout", [of |-> s, expiresAt |-> None])
    /\ cache' = Invalidated(On[r], s)
    /\ UNCHANGED <<now, transactions, rows, history>>

DeleteSession(r) ==
    /\ pc[r] = "logout"
    /\ rows' = [rows EXCEPT ![job[r].of] = None]
    /\ ended' = IF ended[job[r].of] = None
                THEN [ended EXCEPT ![job[r].of] = [on |-> On[r], at |-> now]] ELSE ended
    /\ End(r)
    /\ UNCHANGED <<now, transactions, cache, issued, cancelled, born>>

(* VK, the database or a configuration check fails the handler. *)
Fail(r) ==
    /\ pc[r] # "idle"
    /\ End(r)
    /\ UNCHANGED <<now, store, history>>

(* An instance stops: its cache and its handlers are gone. *)
Restart(i) ==
    /\ cache' = [cache EXCEPT ![i] = [s \in Sessions |-> None]]
    /\ pc' = [r \in Requests |-> IF On[r] = i THEN "idle" ELSE pc[r]]
    /\ job' = [r \in Requests |-> IF On[r] = i THEN NoJob ELSE job[r]]
    /\ since' = [r \in Requests |-> IF On[r] = i THEN 0 ELSE since[r]]
    /\ UNCHANGED <<now, transactions, rows, history>>

Tick ==
    /\ now < MaxNow
    /\ \A r \in Requests : pc[r] # "idle" => now - since[r] < Latency
    /\ now' = now + 1
    /\ UNCHANGED <<store, pc, job, since, history>>

Next ==
    \/ Tick
    \/ \E t \in States : StartLogin(t) \/ CancelLogin(t)
    \/ \E i \in Instances : Restart(i)
    \/ \E r \in Requests :
        \/ \E t \in States : FindTransaction(r, t)
        \/ \E s \in Sessions : CreateSession(r, s) \/ LookUp(r, s) \/ Logout(r, s)
        \/ DeleteTransaction(r) \/ CheckTransaction(r) \/ CacheCreated(r)
        \/ FindSession(r) \/ FinishLookup(r) \/ PurgeSession(r)
        \/ DeleteSession(r) \/ Fail(r)

Spec == Init /\ [][Next]_vars

-----------------------------------------------------------------------------
(* Properties. *)

(* An OAuth state has one outcome: it gives at most one session, however   *)
(* often and wherever its callback is repeated, and none once the login    *)
(* was cancelled.                                                          *)
StateUsedOnce ==
    \A s1 \in Sessions : born[s1] # None =>
        /\ born[s1].state \notin cancelled
        /\ \A s2 \in Sessions : born[s2] # None /\ born[s2].state = born[s1].state => s1 = s2

(* No instance goes on accepting a session for longer than the cache's TTL *)
(* after it expired.                                                       *)
ExpiryRespected ==
    \A i \in Instances, s \in Sessions :
        born[s] # None /\ Accepts(i, s) => now <= born[s].until + CacheTtl

(* After a logout the session dies within the cache's TTL, and the time a  *)
(* lookup under way may still take: on the instance that served the logout *)
(* and on every one but that of the login.                                 *)
LogoutReaches ==
    \A s \in Sessions : ended[s] # None =>
        \A i \in Instances : i = ended[s].on \/ i # born[s].on =>
            (Accepts(i, s) => now <= ended[s].at + Latency + CacheTtl)

(* session.ts:29: the cache is short-lived; TASK-2026-08-21-16: its TTL is *)
(* 60 seconds; TOKEN_STORAGE.md:31: logout terminates the session.         *)
LogoutEndsSession ==
    \A s \in Sessions : ended[s] # None =>
        \A i \in Instances : Accepts(i, s) => now <= ended[s].at + Latency + CacheTtl
===============================================================================
