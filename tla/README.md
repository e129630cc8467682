# Randomayzer in TLA+

Randomayzer runs giveaways on VK posts: an organiser creates a giveaway, imports
the people who liked or commented, locks the eligible ones as a snapshot together
with the hash of a secret seed, and draws winners with an algorithm that anybody
can replay once the seed is shown. This directory holds TLA+ models of the parts
on which that promise rests, the TLC configurations that check them, and TLAPS
proofs of the most important properties. Paths below are relative to the
repository, which the models see as `src/`.

Run a model with `tlc -config X.cfg MCmodule.tla`, and the proofs of a component
with `tlapm XProofs.tla`.

## 1. The system

| Component | State | Operations | Talks to |
|---|---|---|---|
| Giveaway routes (`src/app/api/giveaways`) | none across requests; a copy of the giveaway within one | create, import participants, lock, unlock, draw, owner and public view, verify | guards, idempotency store, rate limiter, repository, VK provider, randomizer |
| Repositories (`src/lib/repository`) | Giveaway, Participant, ParticipantSnapshot, DrawResult, AuditRecord rows | createGiveaway, saveParticipants, createAndLockSnapshot, unlockSnapshot, saveDrawResultAndAudit, reads, updateStatus (uncalled) | PostgreSQL through Prisma, or a Map |
| State machine (`src/core/fsm`) | none | assertCanDraw, transition table (uncalled but for updateStatus) | repositories |
| Randomizer (`src/core/randomizer`) | pool, HMAC counter | executeDeterministicDrawV1, verifyDrawResult, hashes | draw and verify routes |
| Filter engine, enrichment, validation (`src/core/filtering`, `pipeline`, `validation`) | none | deduplicate, enrich, filter | import and lock routes, provider |
| Idempotency store (`src/lib/idempotency.ts`) | Map with TTL, capacity, counter of sets | get, set, cleanupExpired, clear | POST routes |
| Rate limiter (`src/lib/rate-limiter.ts`) | buckets of timestamps | check, peek, consume, cleanup, eviction | every route, auth guard |
| Sessions and guards (`src/lib/auth`) | session table, per-instance cache | create, validate, cache, invalidate; ownership and origin checks | routes |
| OAuth login (`oauth-state.ts`, auth routes) | transaction table, cookies | start, callback, single-use consumption | VK ID, sessions |
| Token storage and refresh (`token-refresher.ts`, `token-vault.ts`, `user-repository.ts`) | encrypted credentials, flights in progress | read, refresh single-flight, compare-and-set write | VK ID, VK client |
| VK client (`src/integrations/vk`) | request queue, retry state | call, retry, backoff, throttle, paging | VK API |
| VK provider (`src/providers`) | map of participants under way | fetch post, likes, comments, memberships; service-to-user fallback | VK client, token refresher |
| Wizard (`src/app/giveaways/new`) | step, post, form, table, lock and result shown, flags of what is loading | load a post, edit the conditions, import, turn the table's tabs, lock, unlock, draw | routes |
| Other pages (`src/app`, `components`) | what was fetched | dashboard, page of one giveaway, login button | routes |

What makes it hard:

* **Interleaving.** A handler reads the giveaway once, awaits several things and
  then writes; the write is guarded by the *status* only. Other requests of the
  same organiser (two tabs, a retry) run in between, on the same instance or on
  another one.
* **Failure.** An instance can stop between a commit and its reply; the client
  retries.
* **A page ahead of its answers.** The wizard's handlers await several requests each
  while the organiser may press whatever is not disabled; replies come late, fail or
  get lost, and what is on the screen decides what is asked for next.
* **A shared queue.** Calls of VK by all handlers of an instance wait for one
  another's slots, time out, retry and get cancelled there.
* **Read, await, write** also in the idempotency store, the pre-authentication
  quota, the token refresh.
* **Numbers.** Reducing 32-bit words to an index without bias; TTL and window
  boundaries; full maps.
* **Verifiability.** What is stored must replay to the same winners, for ever,
  in whatever order the database returns the rows, and nothing else may pass; what
  the code compares is less than what it stores (see `Randomizer`).

What makes each part correct: the draw is made from one lock, with the seed
committed to by that lock, once, and is then final; the randomizer delivers
distinct rows, each order equally likely, and verifies exactly the
ids it produced;
a stored response is replayed to its own request while it lives, and to none
other; a limiter never lets more through than its window; a revoked session dies
within the cache's TTL; a login transaction is used once; a refreshed token is
never overwritten by an older one; the import is complete or fails; requests to VK
keep their distance and calls end; the wizard locks and draws what it has shown. The
hazards
in `PROJECT.json` list where each of these could break.

## 2. The modules

### GiveawayContract, GiveawayLifecycle

`GiveawayContract` says what a giveaway promises without requests or races: a
ledger of locks that only grows, each with rows, rules and a fresh seed; a phase;
and at most one result, drawn while locked from *one* entry of the ledger.

`GiveawayLifecycle` is one giveaway in the store and the handlers working on it.

| Model | Code |
|---|---|
| `status`, `participants`, `filterRules`, `seed`, `snapshots`, `drawResult` | the Giveaway row and its relations (`prisma/schema.prisma`); the index of a snapshot is its `version`; AuditRecord is written with DrawResult and has the same data |
| `pc`, `job` | where each handler is waiting and the data in its local variables |
| `FetchParticipants`, `SaveParticipants` | POST participants up to the fetch; the repository's guarded delete-and-create transaction |
| `FilterForLock`, `CheckLock`, `CreateAndLockSnapshot` | POST snapshot: the filtering of the copy read at the ownership check; the repository's early check; its transaction |
| `RequestUnlock`, `CheckUnlock`, `UnlockSnapshot`, `RereadUnlocked` | POST unlock, likewise, and the second read its reply is made of |
| `RunDraw`, `CheckDraw`, `SaveDrawResultAndAudit` | POST draw: guards and computation on the copy; `assertCanDraw`; the transaction |
| `DeliverReply`, `ViewGiveaway` | the reply reaches the client; the GET routes that show the seed once drawn |
| `Crash` | the instance stops, or VK or the client fails the handler; an open transaction rolls back |
| `lockSeeds`, `replies`, `revealed` | history: what each lock committed to, what clients and the public have seen |

The handler is cut where another request can come in between: at each `await` of
a database call. Route guards and filtering use one copy of the giveaway, so they
are one action with the read. A repository transaction begins with a conditional
`updateMany` that takes the giveaway's row lock, so transactions of one giveaway
are serial and each is one action. `MemoryGiveawayRepository`, whose methods are one
step each, is in `MemoryRepository` below. Rate limits and sessions only remove
behaviours and are left out.

The draw algorithm is a constant operator `Outcome(seed, rows, need)`: that it is
a function of those three is what `Randomizer` checks. The rows that pass the
rules are a constant function `Passing`. `drawId`, dates and counters of
participants are left out of a result. Seeds never repeat (`FreshSeeds`): a
128-bit random number is taken to be new.

### Randomizer

One draw of one snapshot, then one verification of what was stored.

| Model | Code |
|---|---|
| `ExecuteDraw` | argument checks, sort, stream (`deterministic.ts:49-71`) |
| `SampleUnbiasedIndex`, `SampleOnlyIndex` | one turn of the rejection loop, or the case of one row left, with the swap that follows an accepted word |
| `FinishDraw`; `DrawResult` | selection of winners and reserve, both proof hashes; the columns that `saveDrawResultAndAudit` stores |
| `ReadBack` | what the verifier finds: rows in another order, or one column changed |
| `VerifyDrawResult`, `ClaimedCounts`, `FinishReplay` | GET verify and `verifyDrawResult` |

HMAC-SHA256 is an unknown function of seed, context and counter: each word is
chosen freely the first time and remembered in `words`, so that the replay sees
the same words only if it uses the same seed and snapshot hash. SHA-256 is taken
to be free of collisions, so a hash is the data it is taken of (the snapshot hash
the *set* of rows, since the code sorts before hashing). Rows carry only their
id. `DrawResult` stores the winners twice, and so does `record`: `winners` and
`reserveWinners` are the participants' JSON, which the public page shows, `winnerIds` and
`reserveWinnerIds` their ids. A draw stores the same rows in both, and each column may
come back changed by itself. Verification replays as many winners as the JSON lists have
(`ClaimedCounts`) and compares what comes out with the ids; whom the JSON names it never
looks at. It replays version 1 of the algorithm whatever version the record names, and
then refuses any other. `VouchedFor` is a record without what verification passes over.
The two totals of `DrawResult`, which it does not read either, are left out. The array
sort is external, a constant operator with the assumption that it rearranges and that its
result does not depend on the order it was given (ids are unique after
deduplication).

### IdempotencyStore

`MemoryIdempotencyStore` and its use by the POST routes: `Answer` and `Execute`
are the two outcomes of `get`, `Store` is `set` with its cleanup, eviction and
insertion, `Fail` an operation that throws, `Restart` a new process, `IdemTick` time.
The Map is a function with `None` for a key that is not there, together with the
relation `older` between the keys, "was inserted before" (module `BoundedMap`, which
the rate limiter extends as well): setting a key that is there keeps its place, a new
one comes last, and `keys().next()` is the one with none before it, as in JavaScript.
What the limiter has too is named for the store (`IdemInit`, `IdemNext`, `IdemSpec`,
`IdemTypeOK`), so that one module of proofs can extend both.
Bodies and status codes are left out: the fingerprint stands for the request the entry
answers.

### TokenRefresh

The VK credential of one user, the calls of `getOrRefreshUserToken` on several
instances, and as much of VK ID as they depend on.

| Model | Code |
|---|---|
| `cred`; `updatedAt` | the UserCredential row; its `updatedAt`, a counter of writes |
| `flight` | `inFlightRefreshes`, one per instance: the call that owns the flight |
| `ReadCredentials`, `UseStored` | `getCredentials`, and a token that is still good |
| `JoinFlight`, `StartFlight` | the look at the map after that await: another call's promise, or an own one put there |
| `VkAccepts`, `AnswerUnused`, `VkRefuses`, `VkUnreachable` | VK rotates or keeps the refresh token and answers; answers, but the answer is lost, unusable or for another user; refuses with 4xx; fails with 5xx or not at all |
| `StoreRefreshed` | the compare-and-set on `updatedAt`; whoever loses it reads the newer row |
| `Cleanup`, `FinishJoined` | the owner's `finally`; the joiners' awaits, in any order |
| `Login`, `Expire`, `Restart` | the upsert of the OAuth callback; time; a new process |
| `issued`, `alive`, `rotates`, `from`, `due`, `dropped`, ... | what VK knows, and history |

Grant *n* stands for an access token and its refresh token; encryption is left
out. A row is fresh, due (expired or within the 30 s margin) or of unknown expiry,
which the code takes for expired. `Expire` happens while no call is under way: a
token outlives the few seconds of a refresh. The branch of missing credentials
touches nothing and is left out.

### RateWindow, SlidingWindow, PreAuth

`RateWindow` is the arithmetic on the timestamps of one bucket: those in the
window, whether there is room, what a check leaves, when to come back. The code's
ascending array with repetitions is a set of stamps that carry their number among
those of the same millisecond. `SlidingWindow` is the Map around it, a `BoundedMap`:
`Check` is `check` with the cleanup it may begin with, the eviction of the oldest
bucket and the insertion, in one step as in the code; `PeekAllowed` is `peek`. Cleanup comes
every `CleanupEvery` checks (200 in the code) and when the Map is full. `granted`
and `promised` are history: what of the window was let through since the bucket last had
to make room, and when the last refusal said to come back. Keys are not empty, as all
callers put a prefix before the user or address.

`PreAuth` is the limiter in use, by `requireAuthenticatedUser` above all: `Anonymous`
pays at once, `LookUp` only looks (`assertCanAttempt`) and then awaits the session,
`SessionFound` pays nothing, `NoSession` pays whatever `consume` answers. In between the
bucket may change: time passes, other requests of the address pay, other addresses make
it clean up or take its room. `AssertAllowed` is the limiter as the routes use it; theirs
are other instances of the class, put together here as one, which can only add
behaviours. `Lookups` are the places of requests whose lookups run side by side.
`failed` is history: which lookups of the window found no session, per place and address,
since the address's bucket last had to make room. The cookie's way into the cache is
before all this and in `LoginSessions`.

### LoginSessions

A login from its OAuth state to its session, and the session until it is gone.

| Model | Code |
|---|---|
| `transactions`, `rows` | OAuthTransaction and Session rows, by their expiry |
| `cache`; `Accepts` | `validSessionCache` of each instance; the fast path of the guard, which changes nothing |
| `StartLogin`, `CancelLogin` | GET start; GET callback with an error |
| `FindTransaction`, `DeleteTransaction`, `CheckTransaction` | `consumeTransaction`: read, delete (a row that is gone is P2025, a refusal) and commit, expiry |
| `CreateSession`, `CacheCreated` | the row that `createSession` writes after VK's exchange; its copy in the cache, and the cookie |
| `LookUp`, `FindSession`, `FinishLookup`, `PurgeSession` | `requireAuthenticatedUser` and GET me when the session is not cached: read, then refuse, delete what expired, or cache for 60 seconds |
| `Logout`, `DeleteSession` | `destroySession`: the own copy first, then the row |
| `Fail`, `Restart` | an exception at any await; a new process with an empty cache |

`consumeTransaction` runs in a transaction of the default isolation level, READ
COMMITTED, so two of them may both find the row; the delete is where they meet.
States and session ids are random and taken never to repeat. Instances share one
clock. The pre-authentication quota (see `PreAuth`) and the start limiter only refuse, so
leaving them out here adds behaviours and removes none. The in-memory stores do the same steps
without awaits between them, for one instance only.

### FilterEngine, ParticipantImport

`FilterEngine` is `applyFilterRules` as operators, with a reference definition
(`AgreesWithReference`) that speaks of users where the code speaks of records. Its two
loops are folds: `Deduplicated` over the records, and one fold that builds the lists of
the eligible, of the excluded and of all at once, as the code's second loop does.
`ParticipantImport` is one import, from the route's capability check to what the
filter engine answers.

| Model | Code |
|---|---|
| `at`, `token`, `attempt` | where `fetchParticipants` and the pipeline are, the token in use, the loop variable of `executeWithRetry` |
| `page`, `offset`, `likeProfiles` | local variables of `fetchPaginatedVk`; the comments' own list is only counted |
| `participants`, `unchecked`, `subscribed` | `participantsMap`; the chunks of `checkSubscription` still to come; its answer |
| `Start` | the route's `validateProviderCapabilities`, then `executeFetchParticipants` |
| `LikesPage`, `CommentsPage` | one successful call and what follows it: the next offset, or the end of the list, the ceiling's error, the next phase |
| `MembersChunk` | one chunk of `groups.isMember`; after the last, `subscribed` is set and the filter engine runs |
| `CallFails` | an attempt fails with one of the client's categories: another attempt, the organiser's token, or the import fails |
| `Fallback`, `NoFallback` | `resolveUserFallbackContext` and the restart, or its failure |
| `Like`, `Unlike`, `Comment`, `DeleteComment`, `JoinOrLeave` | the post and the community change at VK between two calls (external) |
| `ever`, `always`, `made`, `shifted` | history: what each user did at some time or throughout, comments made, entries removed before the offset |

A page with its call is one action: nothing else of the import runs meanwhile, and
VK answers from the list as it is at one moment. A *likes* page is the slice of the
list, newest first, that offset and count name, a *comments* page likewise, oldest
first, and the total is the length of the list. That VK serves whole slices is an
assumption; a page shorter than that ends the paging in the code whatever the total
says. Names are left out, so `username` is `NoName` but where `OneChanceEach` adds a
record with one. The rate limiter only delays a call. The route passes no signal, so
nothing is cancelled; both are in `VkCalls`. `ProviderFactory` makes a provider only
with a service token, so every import begins with it, and memberships are asked for with
it again.

### VkCalls

The calls of the VK API that the handlers of one instance make through one client and
its limiter.

| Model | Code |
|---|---|
| `queue`, `wake`, `since` | the limiter's `queue`, the timer `processQueue` awaits (none: `isProcessing` is false), and the time since `lastRequestTime` |
| `phase`, `attempt`, `timer` | where each call of `VkClient.call` is: waiting for its slot, sent, or backing off; the loop variable of `executeWithRetry`; the timeout or backoff it has set |
| `Begin`, `Try` | `call` up to the limiter: a free slot is taken at once, otherwise the call queues up and the first to do so starts the timer |
| `ProcessQueue` | the timer runs: the first in the queue gets the slot, and loses it if it was cancelled meanwhile |
| `Answer`, `TimeOut`, `Recover` | an answer, or one of the client's error categories; the abort after `timeoutMs`; retry with backoff, retry at once, or failure |
| `Retry`, `Abort` | the backoff is over; the caller's signal, heard at once by a request and a backoff, and by a queued call when it gets its slot |
| `Tick` | time; a timer may run up to `Late` ticks late (external) |
| `gap`, `elapsed` | history: since the last request was really sent; how long one caller's call has lasted |

The steps of one turn of the event loop are one action: taking a slot, `fetch` and the
start of its timeout; or an answer, the `catch` of `executeSingleCall` and that of
`executeWithRetry`. Between the slot and `fetch` the code has microtasks only, which
no timer or signal from outside comes between. Error codes and HTTP statuses are
mapped to categories by the tables of `vk-errors.ts`; full jitter makes every delay
below the cap possible. The text of an answer is an error or not.

### MemoryRepository, GiveawayWizard

`MemoryRepository` has the methods of `MemoryGiveawayRepository` as a guard and a new
value each, for none of them awaits anything. `GiveawayWizard` is the page that makes a
giveaway, over the routes and that repository.

| Model | Code |
|---|---|
| `step`, `postData`, `createdGiveawayId`, `participantTab`, `participants`, `lockedSnapshot`, `drawResult` | the page's state of the same names; `counts` is `eligibleCount` and `excludedCount`, `form` is `rules` with the users meant by `blacklistInput` |
| `busy` | the loading flags that are true |
| `call` | of each handler that runs: the request it awaits and the answer, if there is one |
| `store` | the server's giveaways |
| `FetchPost`, `ShowPost`, `PostReady` | `handleFetchPost` before, between and after its two requests |
| `GoToConditions`, `Edit`, `GoBack` | buttons and inputs without a request |
| `FetchParticipants`, `ShowParticipants`, `ShowRows` | `handleFetchParticipants`, and the load of the first page it ends with |
| `ChooseTab`, `ShowRows` | the tabs of the table and their `loadParticipantsPage` |
| `LockSnapshot`, `ShowLock`; `UnlockSnapshot`, `ShowUnlocked`; `ExecuteDraw`, `ShowResult` | the handlers of steps 3 and 4 |
| `Fail` | `catch` and `finally`: the request was refused, failed, or its reply got lost |
| `Answer`, `Accept...` | the server's side of a request |
| `hasty` | history: presses under a running call that the page does not prevent |

A handler works with the values of the render it was clicked in, so what it sends
later is part of `call`. The server's side of a request is one step: the races of its
handlers are the subject of `GiveawayLifecycle`. A request that its handler has given
up is not executed any more, except that it may have been before its reply was lost.
The table has one page. A snapshot is given by its giveaway, version and rows, and the
seed by the lock it was made for. `CallsOf` says for each handler which requests it makes
and which answers the routes give to them; that `None` is none of these is all that
`NoneAssumption` asks of it.

### Proof and model-checking modules

`MC*.tla` give the constants their values. The theorems are in a module for each
component: `GiveawayLifecycleProofs`, `RandomizerProofs`, `TokenRefreshProofs`,
`VkCallsProofs`, `LoginSessionsProofs`, `ParticipantImportProofs` (with those of the
filter engine) and `GiveawayWizardProofs`; the two stores that are bounded Maps,
`SlidingWindow` with `PreAuth` and `IdempotencyStore`, share `BoundedMapsProofs`.

## 3. What the runs check

| Run | Instance | Shows |
|---|---|---|
| `GiveawayLifecycle.cfg` | 2 requests, 2 rows, 2 rules, 2 locks, draws of 1 or 2; 0.6 million states | a stored draw can be verified (`DrawIsVerifiable`) and is final (`DrawIsFinal`), a lock holds its commitment and its participants, no seed is shown early, what a client was told stays true (`RepliesStayTrue`), and the store implements `GiveawayContract` |
| `Randomizer.cfg` | 3 ids, words 0..4, 1 rejection, 3 pairs of counts, 2 rules, seeds and events; 0.5 million states | draws deliver in full, sampling is unbiased, offsets and selections correspond one to one, replay reproduces the draw in any row order and whomever the JSON lists name (`ReplayReproduces`), and any other change of a column is noticed (`ChangesAreNoticed`) |
| `IdempotencyStore.cfg` | 3 keys, 2 payloads, 3 requests, 2 entries, TTL 2, cleanup every 2nd set, time 0..5; 0.1 million states | an answer from the store is the response to that very request (`AnswersAreTrue`), a retry within the TTL is replayed unless the store was full (`RetryIsReplayed`), and the Map stays within its capacity and its keys in an order (`IdemTypeOK`) |
| `TokenRefresh.cfg` | 3 calls on 2 instances, 3 grants, 1 login with or without a refresh token, fair; 0.8 million states | one refresh per instance at a time (`SingleFlight`), a refresh is stored only over the row it was made from (`RefreshContinuesStored`), a stored refresh token is one VK accepts unless an answer was lost or a login without one kept it during a refresh (`StoredRefreshTokenWorks`), no call gets a token that was due when it asked, every call ends |
| `PreAuth.cfg` | 3 keys, 2 buckets, 2 requests in a window of 2, cleanup every 2nd check, 2 lookups at a time, time 0..3; 1.3 million states | `WindowRespected`; the promised time is neither too short nor too long (`PromiseExact`); in each place no more lookups fail within a window than requests of the address were let through in it, and one (`LookupsAreCounted`), so that the session store sees at most `MaxRequests + 1` for each request at a time; the Map stays within its capacity (`TypeOK`) |
| `LoginSessions.cfg` | 3 handlers on 2 instances, 1 state, 2 session ids, TTLs 1, 4, 2, time 0..7; 0.4 million states | an OAuth state gives one session or none (`StateUsedOnce`), a session outlives its expiry by the cache's TTL at most, and a logout reaches every instance within it except that of the login |
| `ParticipantImport.cfg` | 3 users, 1 community that comments, pages of 2, a ceiling of 2 pages, chunks of 2, 1 retry, 3 changes at VK, fair; 0.7 million states | whoever is eligible earned it, nobody who did is missed, with no comment counted twice over retries and the restart (`EligibleEarnedIt`), one chance each by the reference of `FilterEngine`, every import ends |
| `VkCalls.cfg` | 3 callers, one with a signal, distance 2, timeout 2, 2 retries, backoff up to 3, timers 1 late, 2 error codes and 2 statuses, fair; 0.6 million states | two requests keep the minimum distance however late timers run (`RequestsSpaced`), the limiter runs exactly while somebody waits and sends nothing for who was aborted (`TypeOK`), a call ends within `LongestCall`, which is tight, and every call ends though VK never answers |
| `GiveawayWizard.cfg` | 2 posts, 2 users, 3 forms, 1 late tab, 1 press under a running call, 2 locks; 1.3 million states | a button is disabled exactly while its handler runs (`TypeOK`), the giveaway in work is of the post displayed, the lock holds everybody counted as eligible, the result is of the lock announced |

and the disagreements, each a run that TLC refutes:

| Run | The text | What the code does |
|---|---|---|
| `StaleDraw.cfg` | ARCHITECTURE.md: the revealed seed hashes to the published commitment | a draw that read the giveaway before *unlock; lock* is stored after it, with the old snapshot and seed, since only the status is compared. The result still verifies; the commitment in force was another one |
| `LogoutEverywhere.cfg` | session.ts: a short-lived cache; TOKEN_STORAGE.md: logout terminates the session | the instance of the login caches the session for its 30 days and goes on accepting it after a logout on another instance |
| `BlacklistForgotten.cfg` | the wizard's step 2 offers a blacklist, and the button of step 3 counts who is locked in | the lock is requested with the rules of the form alone (`page.tsx:203`), so those shown as excluded by the blacklist are locked in and may win |

Observations without a run:

* A draw that loses the race before its transaction meets `assertCanDraw`, whose plain
  Error becomes 500 (`prisma-repository.ts:539`), not the 409 of
  docs/PRODUCTION_GUARDS.md:79.
* The idempotency key is looked up before the operation and stored after it, and
  nothing marks it in between: two overlapping requests with one key and payload both
  execute (`giveaways/route.ts:58`; docs/PRODUCTION_GUARDS.md:24 promises otherwise).
  Creation looks its key up without the user, so two organisers who send the same key
  and payload share one response (`:47`).
* A call whose read of the credential was overtaken by a whole flight refreshes again
  from what was just used (`token-refresher.ts:150`); with a VK that rotates, the user
  is told to log in although a good credential is stored. The refresher's test counts
  one refresh for concurrent calls.
* Verification does not cover the winners that are shown. Both pages and the public
  route publish the stored JSON of `winners` and `reserveWinners` (`public/route.ts:79`,
  `giveaways/[id]/page.tsx:160`); verification takes only its length
  (`verify/route.ts:44`) and compares the ids, which are stored apart
  (`deterministic.ts:221`). Where the two disagree it still succeeds, and the page says
  that the result is confirmed to 100% (`page.tsx:255`; README.md:28 promises a public
  page that checks the winners).
* The quota of failed logins is looked at before the session is awaited and paid after
  (`auth-guard.ts:38`), so lookups that all look before any has paid pass together: n
  requests at a time make up to n times (60 + 1) lookups in a window, where
  `agents/antigravity/done/TASK-2026-08-21-15-pre-auth-limit-before-store.md:87` says that
  access to the database is strictly limited to 60. The test that counts them sends its
  300 requests one after another (`tests/pre-auth-rate-limit.test.ts:235`).
* The wizard's draw button is not disabled while an unlock runs (`page.tsx:956`), and its
  Back buttons and inputs are not while an import does: the import then shows step 3
  whatever was pressed. The draw request names no snapshot.
* A lock or unlock whose reply is lost leaves the page at the step before, and asking
  again is refused with 409 (`page.tsx:216`): the organiser has to start over.
* The limiter of VK calls is set to 10 requests a second (`vk-rate-limit.ts:65`), where
  its comment gives users 3 (`:13`); its distance is taken from the wall clock, so a
  clock set back makes everybody wait for as much; a call's timeout begins with its
  slot, so waiting for the slot is not limited by it.
* A page of likes or comments shorter than asked for ends the paging, whatever the
  total says (`vk-client.ts:254`).
* An import that commits between the filtering and the lock of the snapshot route
  leaves a lock on rows the giveaway no longer has
  (`snapshot/route.ts:51`, "current participants").
* The reply of *unlock* is that of a second read, which may already show a later
  lock.
* A 5xx of VK during a refresh is reported as *log in again* although the stored
  credential still works (`vk-oauth-client.ts:190`).
* docs/VK_AUTHENTICATED_ACCESS.md:23 lets `groups.isMember` fall back to the
  organiser's token when the community is restricted; `checkSubscription` has no
  such branch, so the import fails there (`CallFails` in phase `subscriptions`).
* Entries removed from pages already read move others into them, so an import may
  miss users; docs/VK_INTEGRATION_PLAN.md:207 says so too. `NobodyMissed` is about
  imports during which that does not happen.

**Bounds.** Every race above needs at most two handlers, and *unlock, lock again*
needs two locks. `Seeds` bounds the number of locks: `FilterForLock`
lets no more lock requests in than there are seeds left, so none gets stuck for
want of one. Two rows suffice for a stale list to differ in either direction and
two rules for it to matter which of them a snapshot was made under. In the
randomizer, three rows give shuffles of two proper rounds, five words make every
remainder (5 mod 3, 5 mod 2) non-zero, so that rejection happens for every range;
`MaxRejects` bounds the loop, which the code leaves unbounded. The counts include
a draw that asks for too many rows and one that leaves some undrawn. The
idempotency instance has more keys than entries, expires within the run, and
cleans up on both of its triggers. For the token refresh, two calls on one
instance share a flight and a third competes from another; three grants are the
first, one refresh and a login or second refresh. Whether VK's answer to a login
has a refresh token is a setting of the application: in the run it may or may not. The limiter's
instance has more keys than buckets, time for a window to pass and begin again, and
cleanup with and without a full Map; two lookups overtake each other. In
`LoginSessions.cfg` the TTLs keep the code's order (latency below the cache's TTL,
that below the session's) and time goes on until after a session that expired has
left every cache; a second session id exists so that a state used twice would show.
The import's lists are empty, take one page or two, or exceed the ceiling, and
three changes can lengthen a list past the ceiling while it is read; four
attempts or ten thousand pages, as in the code, would only repeat what two show.
Three callers of VK make a queue of two with one more to arrive while it is emptied; two
retries show a backoff below and one at its cap; the codes and statuses are one that is
retried and one that is not of either kind. The wizard's two posts let one load
overtake the memory of another, its three forms are one without and one with a
blacklist and one with a condition that only some fulfil; `MaxHasty` allows one press
too early, which is enough to get ahead of any one answer, and `MaxLocks` one lock after
an unlock. `BlacklistForgotten.cfg`, `GiveawayWizard.cfg`, `Randomizer.cfg`,
`ParticipantImport.cfg` and `TokenRefresh.cfg` switch the deadlock check off because the
wizard ends with its result, and a draw with its verification, an import, and a bounded
number of calls, end; the other models never stop.

**Fairness.** `TokenRefresh.cfg` assumes weak fairness of each call's next step once
it has begun: Node's event loop runs what is ready, and `fetch` and the database
answer or fail. (The OAuth client sets no time limit of its own, so this rests on
those of Node and the database driver.) `ParticipantImport.cfg` assumes it of the import's
next step: each call of the VK client is aborted after 15 seconds
(`DEFAULT_TIMEOUT_MS`), which is one of the errors it may fail with. `VkCalls.cfg` assumes it of
time, of the limiter's timer, of each timeout and of each backoff, which are timers of
the event loop, and not of VK's answers: calls end because of their timeouts. Waiting
for a slot needs no more, since the queue is served in order. No fairness is
assumed of clients, of VK's answer being a good one, of changes at VK, of logins, of
time or of restarts. The handlers of the other models never wait for one another, so
liveness would only restate that the event loop runs.

**Symmetry** is used for requests, keys, payloads, rules, seeds and events where
the model treats them alike, never in the run with liveness.

## 4. What is proved

All for every value of the constants, with the assumptions named in the modules.

`GiveawayLifecycleProofs` assumes what `ConstantsAssumption` and
`NoneAssumption` say: `Passing` maps rules to rows, there are finitely many
seeds in the instance, the algorithm returns a sequence of rows, `None` is
neither a seed nor a result. The argument is the inductive invariant

    IInv == TypeOK /\ ReachedStatus /\ SnapshotsCommitted /\ InFlight
              /\ DrawIsVerifiable /\ LockHoldsItsCommitment
              /\ SecretUntilDrawn /\ RepliesStayTrue

The four safety properties are not inductive alone: what a handler carries across
its awaits must stay usable while the giveaway moves on. `InFlight` says so: a
computed draw in `job` is already verifiable against *some* lock of the ledger
(`Verifiable` only mentions entries that never change, which is why the store
moving on cannot hurt it), the rows to lock are non-empty and pass their rules,
and an undelivered reply is true. `SnapshotsCommitted` keeps the ledger and its
seeds of one length. From `IInv` follow `TypeCorrect`, `DrawVerifies`,
`LockCommits`, `SeedSecrecy`, `RepliesTrue`, the action property `DrawFinal` (which
also keeps the participants of a lock in force), and `LifecycleImplementsContract`: each
step is a step of `GiveawayContract` or leaves its variables alone.

`RandomizerProofs` proves that the shuffle permutes any number of rows
(`ShufflePermutes`), that a draw delivers as many different rows of the snapshot
as it was asked for (`DeliversInFull`), both from an inductive invariant that
relates the loop index to the pool, and that rejection sampling is fair for every
word size and range (`SamplingFair`): each residue class below the largest
multiple of the range has exactly `Word \div range` members, by division with
remainder. It rests on `SortAssumption` about the external sort.

That verification returns the draw (`ReplayVerifies`) and nothing but the draw
(`ChangesShow`) compares two executions of the loop. The second invariant,
`HistoryInv`, carries the first one along: what the store holds is what the draw
stored but for one change (`Kept`); a draw is where the words of its stream led it, as
a sequence of states of the loop, one for each word (`Drawing`); and a replay of what is
untouched, but for whom the JSON lists name, stands somewhere on that same sequence
(`Replaying`), so that it asks for no word the draw has not used and ends where the draw
ended. That a change shows then
needs no execution at all: a record whose comparisons succeed has the proof and the event
of the draw, whichever column was changed; the proof names snapshot, rules, seed and ids;
and the JSON lists are as long as the ids, because the replay drew as many as they have.
Whom they name does not follow, and `VouchedFor` leaves it out.
`OffsetsFollow`, that winners and order tell the offsets, is about the recursive function
that applies a list of offsets to the sorted rows: each round decides its own place for
good, so two lists that first differ somewhere leave different rows there. Both
inductions, over words and over rounds, are done by least counterexample, since the
order of the natural numbers is well-founded.

`TokenRefreshProofs` has five inductive invariants. `FlightInv` says that whoever is
refreshing is registered as its instance's flight, from which `SingleFlightHolds`
follows, since a map has one entry per key. `CasInv` adds to the types what each
call knows: the row it read is one of the past, so its `updatedAt` is not above the
row's, and what it is about to store was refreshed from it. `TypeCorrect` and
`RefreshNeverOverwritesNewer` follow.

Three more rest on these. `DueInv` says of each call which tokens it may still return:
one that was due when the call began is not in the row it read as fresh, nor VK's answer,
nor what its flight's owner returns to those who joined, an owner that may have begun
earlier than they did; `ExpiredTokensStay` (`NoExpiredToken`) follows. `RefreshInv`
follows the refresh tokens: VK's answer is known to one call only, that call is the one
that may have used the stored token up, and unless an answer was lost its
compare-and-set succeeds or the row is a newer one. A login that brings no refresh token
keeps the stored one in a newer row (`user-repository.ts:60`), also while a refresh is
using it up, whose compare-and-set then fails: the new token is dropped and the dead one
stays. `StoredTokenWorks` says that nothing else leaves a dead token behind. The login is
told by its grant, which was made from no refresh token (`Origins`), and its victim by a
call that had read an older row with the same one (`KeptWhileRefreshed`).
`NothingDeadIsKept` adds that there is no such case where every login brings a refresh
token (`FALSE \notin LoginRefresh`): by `LoginInv` all tokens that calls have read or got
are older than the one the login stores.

`BoundedMapsProofs` proves `WindowHolds` and `PromiseIsExact` of the limiter from the
inductive invariant

    Inv == Types /\ WithinQuota /\ GrantsKept /\ Promises

`WindowRespected` speaks of what was let through and is not inductive: the code
knows only its buckets. `GrantsKept` ties the two, all that was let through in the
window is in the bucket, and `WithinQuota` bounds the bucket. `Promises` says, for
every later moment, which answer the bucket as it is would give. That cleanup
changes none of this is one lemma (`CleanupLosesNothing`): it only drops what no
present or later window contains.

That the Map never grows beyond its capacity (`TypesHold`) needs the order of its keys:
only because one of them is always the oldest does eviction make room. `OrderKept` says
that deleting and setting keys keep `older` an order, `OneIsOldest` that a finite set so
ordered has exactly one oldest, the one with the fewest before it, and `RoomIsMade` that
after whatever cleanup left and eviction took there is room for the key that is put.

The guard adds nothing to what the limiter does (`GuardUsesTheLimiter`), so all this
holds under it. `LookupsCounted` keeps an account per place and key (`Accounts`). From any
time on, the failed lookups are at most one more than the requests let through (`Paid`);
and as long as a lookup is under way either its key still has room in the bucket, or they
are none or no more than those (`Covered`), so that one more may fail. A lookup starts
with room, time and the checks of other keys leave it (`TimeMakesRoom`,
`OthersStayAllowed`), and a check of its own key that takes the room is let through, which
covers the failure (`GrantCovers`), its own included. Both histories forget alike what
leaves the window (`ForgottenOfBoth`) and what has to make room. Counting needs stamps that
are all different: `Numbered` says that a bucket's stamps of one millisecond carry numbers
below their count, also after the purge, which takes all of a millisecond or none, so that
the next one is new (`StampIsNew`).

The same lemmas serve the idempotency store. What is answered is true
(`AnswersHold`) and what is remembered is not executed again (`RetriesAreReplayed`)
because of `EntriesTruthful`: an entry is what was stored for its key last, and whatever
was stored within the TTL and has not had to make room is still an entry. Neither half
survives cleanup or eviction without the other. `IdemTypesHold` bounds the Map. The
two specifications have the Map's key order, its counter and the time in common and
nothing else: each theorem is about one of them.

`VkCallsProofs` has four inductive invariants. `Spacing` says that the limiter's own
clock is never ahead of the time since a request was really sent, and that its timer,
when set, is due when that clock has reached the distance or later; so whoever gets a
slot may send (`RequestsKeepTheirDistance`), with `Late` a bound of the runs only as
far as this is concerned. `Waiting` says who is in the queue: exactly those who wait,
once each, with the timer set exactly while there is somebody (`NoWakeUpLost`, the part
`QueueOK` of `TypeOK`), which is what fairness of that one timer rests on. `Shapes` bounds
each timer by what set it, a timeout or a backoff below its cap (`TypesHold`). `Budget`
is how long a call can last (`CallsAreShort`): at every moment, the time it has lasted and
what is left of its attempt, by its timer or by its place in the queue with a slot for each
one ahead, fit in what is allowed up to the end of that attempt.

`LoginSessionsProofs` has one inductive invariant of several parts. `OnePlace` gives each
OAuth state one place, however many callbacks carry it: its row, the one callback that has
deleted the row, or the one session made of it (`StateGivesOneSession`). `InTime` says that
no handler is at work for longer than `Latency`, `Holds` that what it carries across its
awaits was true of the session when it was read, and `Copies` that a copy in a cache is
short except the login's own, so that none outlives its session by more than the cache's
TTL (`ExpiryHolds`). `LogoutTakesEffect` needs two more: what a logout leaves on its own
instance while it is deleting the row (`LoggingOut`), and that after it the only lookups
that still hold the row began before it (`LoggedOut`), so what they cache is gone within
`Latency` and the TTL.

`ParticipantImportProofs` first shows that the filter engine does what its reference says
for every list of records (`OneChance`). Both loops are folds; the functions that compute
them are shown to exist, and their values to have the right shape, by induction over the
records read so far: the map has one entry for every user among them, and an entry sums up
that user's records, however they are spread. The inductive invariant of the import then
says what each phase holds. All that the map says of a user happened (`ever`), comments
counted and those still ahead of the offset are together no more than were made, and
whoever acted all the time is in the map or wholly ahead of the offset, unless entries
already paged were removed. `EarnedTheirChance`, `NobodyIsMissed` and
`OneChancePerUser` follow by putting the two together. `MaxPages`, `PageSize` and the posts
are arbitrary, as are the changes at VK between two calls.

`GiveawayWizardProofs` proves `WorksOnPostShown` from `Inv == Stored /\ Loading`. That
the giveaway in work is of the post displayed is not inductive, for the two are set by
different replies: `Loading` says that in between none is in work, and that the one
being made is for the post displayed. `Stored`, that giveaways keep their posts
whatever the other requests do, is what makes this last. The store is a sequence of
records of varying shape and none of its methods is trusted to leave `post` alone: each has
its step. `Sound` adds the types (`TypesHold`): a handler's requests and answers, that a
button is disabled exactly while its handler runs, that giveaways the calls are about
are in the store, and that one with a result is final. `Calm` holds while nobody has pressed a
button under a running call that the page leaves enabled (`hasty = 0`). It says which
handlers can run in each step, that all of them are for the giveaway in work, and what the
table, the import, the loads of its page, the lock and the result then agree on.
`LockIsOfTable` follows from it; `ResultIsOfLock` holds even for a draw asked for while its
lock was being undone, since a drawn giveaway changes no more.

Only model-checked: `EveryCallEnds` of `TokenRefresh` and `VkCalls` and the import's
`ImportEnds`, which are liveness under fairness and out of the provers' reach, and the three
runs that TLC refutes. The other properties of every run are theorems.

## 5. What is not modelled

* A giveaway and its relations are read in one step. Prisma may fetch relations
  with separate queries; a lock between them would give a copy of two locks.
* `updateStatus`, the transition table and `assertCanModifyParticipants`: no route
  calls them. So a giveaway is never CANCELLED, FETCHING or PUBLISHED here.
* Listing and its paging, the other pages of the user interface (they fetch once and
  show what they got), the wording of errors and the HTTP status of a refusal.
* `reset` of the VK limiter, which nothing calls; it would drop queued callers.
* A request of the wizard that is executed after its page has given it up, and a page of
  the table beyond the first.

## 6. Plan

Done: the models of section 2, checked, and theorems for all of their safety and action
properties. To do: a run for the membership check that docs/VK_AUTHENTICATED_ACCESS.md
lets fall back and the code does not; and separate queries for a giveaway's relations.
