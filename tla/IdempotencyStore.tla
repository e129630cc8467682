---------------------------- MODULE IdempotencyStore ---------------------------
(***************************************************************************)
(* MemoryIdempotencyStore and the way the POST routes use it: get before   *)
(* the operation, set after it, and the operation awaited in between.  The *)
(* store is a Map, whose keys are in insertion order; get and set run      *)
(* to completion, handlers interleave at the await.  A key is the          *)
(* composite of operation, giveaway and Idempotency-Key.                   *)
(***************************************************************************)
EXTENDS BoundedMap

CONSTANTS
    Payloads,   \* request payloads (their fingerprints)
    Requests,   \* handlers in flight at the same time
    Ttl,        \* defaultTtlMs
    MaxEntries  \* capacity of the Map

ASSUME IdemAssumption ==
    /\ Ttl \in Nat /\ MaxNow \in Nat
    /\ MaxEntries \in Nat \ {0} /\ CleanupEvery \in Nat \ {0}
    /\ None \notin [payload : Payloads, at : 0..MaxNow]
    /\ None \notin [fingerprint : Payloads, expiresAt : Nat]
    /\ None \notin [key : Keys, payload : Payloads]
    /\ None \notin [key : Keys, payload : Payloads, replayed : BOOLEAN]

VARIABLES
    entries,    \* the Map: per key its fingerprint and expiresAt, None where
                \* there is none; bodies are left out
    job,        \* per request: the key and payload it is executing, or None
    answered,   \* history: the answer the last step gave out of the store
    stored      \* history: per key, what was last stored and when; None once
                \* the store has run out of room for it or has restarted

idemVars == <<now, entries, older, opCounter, job, answered, stored>>

-----------------------------------------------------------------------------
(* The Map. *)

EntryKeys == {k \in Keys : entries[k] # None}

ExpiredEarly(e) == now >= e.expiresAt
Expired(e) == now > e.expiresAt

(* get finds the entry of a key, and it is alive. *)
Live(k) == entries[k] # None /\ ~Expired(entries[k])

NoRoomLate(keys) == Cardinality(keys) > MaxEntries
NoRoom(keys) == Cardinality(keys) >= MaxEntries

(* What set makes of the Map before it puts the new entry in. *)
KeysLeft ==
    IF opCounter + 1 = CleanupEvery \/ NoRoom(EntryKeys) THEN {k \in Keys : Live(k)} ELSE EntryKeys
MakesRoom == IF NoRoom(KeysLeft) THEN Oldest(older, KeysLeft) ELSE {}
Kept == KeysLeft \ MakesRoom

FingerprintIgnored(e, payload) == TRUE
FingerprintMatches(e, payload) == e.fingerprint = payload

-----------------------------------------------------------------------------
IdemInit ==
    /\ now = 0
    /\ entries = [k \in Keys |-> None]
    /\ older = {}
    /\ opCounter = 0
    /\ job = [r \in Requests |-> None]
    /\ answered = None
    /\ stored = [k \in Keys |-> None]

(* get finds a live entry: the stored response, or a conflict when the     *)
(* payload is another one.  The operation is not executed.                 *)
Answer(r) ==
    /\ job[r] = None
    /\ \E k \in Keys, payload \in Payloads :
          /\ Live(k)
          /\ answered' = [key |-> k, payload |-> payload,
                           replayed |-> FingerprintMatches(entries[k], payload)]
    /\ UNCHANGED <<now, entries, older, opCounter, job, stored>>

(* get finds none, deleting an expired one: the operation is executed. *)
Execute(r) ==
    /\ job[r] = None
    /\ \E k \in Keys, payload \in Payloads :
          /\ ~Live(k)
          /\ entries' = [entries EXCEPT ![k] = None]
          /\ older' = Among(older, EntryKeys \ {k})
          /\ job' = [job EXCEPT ![r] = [key |-> k, payload |-> payload]]
    /\ answered' = None
    /\ UNCHANGED <<now, opCounter, stored>>

(* The operation has succeeded: set its response. *)
Store(r) ==
    /\ job[r] # None
    /\ LET k == job[r].key
           payload == job[r].payload
       IN  /\ entries' = [i \in Keys |->
                IF i = k THEN [fingerprint |-> payload, expiresAt |-> now + Ttl]
                ELSE IF i \in Kept THEN entries[i] ELSE None]
           /\ older' = Put(older, Kept, k)
           /\ stored' = [i \in Keys |->
                IF i = k THEN [payload |-> payload, at |-> now]
                ELSE IF i \in MakesRoom THEN None ELSE stored[i]]
    /\ opCounter' = (opCounter + 1) % CleanupEvery
    /\ job' = [job EXCEPT ![r] = None]
    /\ answered' = None
    /\ UNCHANGED now

(* The operation throws: nothing is stored for the key. *)
Fail(r) ==
    /\ job[r] # None
    /\ job' = [job EXCEPT ![r] = None]
    /\ answered' = None
    /\ UNCHANGED <<now, entries, older, opCounter, stored>>

(* The process restarts: the Map and the handlers are gone. *)
Restart ==
    /\ entries' = [k \in Keys |-> None]
    /\ older' = {}
    /\ opCounter' = 0
    /\ job' = [r \in Requests |-> None]
    /\ answered' = None
    /\ stored' = [k \in Keys |-> None]
    /\ UNCHANGED now

IdemTick ==
    /\ now < MaxNow
    /\ now' = now + 1
    /\ answered' = None
    /\ UNCHANGED <<entries, older, opCounter, job, stored>>

IdemNext ==
    \/ \E r \in Requests : Answer(r) \/ Execute(r) \/ Store(r) \/ Fail(r)
    \/ Restart
    \/ IdemTick

IdemSpec == IdemInit /\ [][IdemNext]_idemVars

-----------------------------------------------------------------------------
(* Properties. *)

Entries == [fingerprint : Payloads, expiresAt : Nat]

(* Entries, requests and histories have the shape the code gives them; the *)
(* Map never has more entries than fit, and its keys are in an order.      *)
IdemTypeOK ==
    /\ now \in 0..MaxNow
    /\ entries \in [Keys -> Entries \cup {None}]
    /\ IsOrder(older, EntryKeys) /\ Cardinality(EntryKeys) <= MaxEntries
    /\ opCounter \in 0..(CleanupEvery - 1)
    /\ job \in [Requests -> [key : Keys, payload : Payloads] \cup {None}]
    /\ answered \in [key : Keys, payload : Payloads, replayed : BOOLEAN] \cup {None}
    /\ stored \in [Keys -> [payload : Payloads, at : 0..MaxNow] \cup {None}]

(* A response was stored for k in the last Ttl and never had to make room. *)
Remembered(k) == stored[k] # None /\ now <= stored[k].at + Ttl

(* What is answered out of the store is right, whatever was set, evicted,  *)
(* cleaned up or run side by side before: the last response stored for the *)
(* key is still within its TTL, and is replayed exactly to its own payload.*)
AnswersAreTrue ==
    answered # None =>
        /\ Remembered(answered.key)
        /\ answered.replayed <=> stored[answered.key].payload = answered.payload

(* A retry within the TTL of a stored response is never executed: neither  *)
(* cleanup, nor a set of another key below capacity, takes what is alive.  *)
RetryIsReplayed ==
    [][\A r \in Requests :
          job[r] = None /\ job'[r] # None => ~Remembered(job'[r].key)]_idemVars

===============================================================================
