------------------------------ MODULE TokenRefresh -----------------------------
(***************************************************************************)
(* TokenRefresher: the VK access token of one user, refreshed when it is   *)
(* due, by handlers of several server instances at once.  An instance      *)
(* keeps the refresh in flight in a map (single flight); the credential    *)
(* row in the database is written with a compare-and-set on updatedAt.     *)
(* VK ID is external: it issues tokens, may rotate the refresh token, may  *)
(* refuse, may be unreachable, and its answer may be lost.                 *)
(*                                                                         *)
(* Tokens are numbered as VK issues them: grant n is an access token and   *)
(* the refresh token that comes with it.  Encryption is left out.          *)
(***************************************************************************)
EXTENDS Integers, FiniteSets

CONSTANTS
    Requests,   \* calls of getOrRefreshUserToken, each made once
    Instances,  \* server processes
    On,         \* the instance a call runs on
    LoginRefresh, \* whether a login may, may not, bring a refresh token
    Outages,    \* may VK answer 5xx to a refresh it could have accepted?
    MaxGrants,  \* bound: grants VK issues
    MaxLogins,  \* bound: logins
    None

ASSUME ConstantsAssumption ==
    /\ On \in [Requests -> Instances]
    /\ LoginRefresh \subseteq BOOLEAN /\ Outages \in BOOLEAN
    /\ MaxGrants \in Nat \ {0} /\ MaxLogins \in Nat
    /\ None \notin Requests

VARIABLES
    cred,       \* the user's UserCredential row
    flight,     \* inFlightRefreshes: per instance, the call that owns it
    pc,         \* per call, where it is
    read,       \* per call, the row it has read
    joined,     \* per call, the owner of the flight it awaits
    reply,      \* per owner, VK's answer to its refresh
    result,     \* per call, and per flight by its owner, how it ended
    issued,     \* VK: grants issued so far
    alive,      \* VK: refresh tokens it still accepts
    rotates,    \* VK: does a refresh replace the refresh token?
    logins,     \* history: logins after the first
    due,        \* history: access tokens known to have expired
    from,       \* history: the refresh token a grant was made from; 0: a login
    dropped,    \* history: refresh tokens used up in an answer nobody stored
    dueAtRead   \* history: per call, due when it read the row

vk == <<issued, alive, rotates, from>>
history == <<logins, due, dropped, dueAtRead>>
vars == <<cred, flight, pc, read, joined, reply, result, vk, history>>

Grants == 1..MaxGrants

(* Row: refresh is 0 without a refresh token; unknown: expiresAt is null;   *)
(* due: expired or within 30 s of it; updatedAt counts the writes.          *)
Rows == [access : Grants, refresh : 0..MaxGrants,
         expiry : {"fresh", "due", "unknown"}, updatedAt : Nat]
Replies == [access : Grants, refresh : Grants, expiry : {"fresh", "unknown"}]

Pending == [kind |-> "pending", token |-> 0]
Token(n) == [kind |-> "token", token |-> n]
Reauth == [kind |-> "reauth", token |-> 0]  \* VkReauthenticationRequiredError
Failed == [kind |-> "error", token |-> 0]   \* any other error

-----------------------------------------------------------------------------
Init ==
    /\ \E refresh \in {0, 1}, expiry \in {"fresh", "due", "unknown"} :
          cred = [access |-> 1, refresh |-> refresh, expiry |-> expiry, updatedAt |-> 1]
    /\ flight = [i \in Instances |-> None]
    /\ pc = [r \in Requests |-> "idle"]
    /\ read = [r \in Requests |-> None]
    /\ joined = [r \in Requests |-> None]
    /\ reply = [r \in Requests |-> None]
    /\ result = [r \in Requests |-> Pending]
    /\ issued = 1
    /\ alive = {1}
    /\ rotates \in BOOLEAN
    /\ logins = 0
    /\ due = IF cred.expiry = "due" THEN {1} ELSE {}
    /\ from = [n \in Grants |-> 0]
    /\ dropped = {}
    /\ dueAtRead = [r \in Requests |-> {}]

Goto(r, there) == pc' = [pc EXCEPT ![r] = there]
Result(r, outcome) == result' = [result EXCEPT ![r] = outcome]
End(r, outcome) == Goto(r, "done") /\ Result(r, outcome)

ReadCredentials(r) ==
    /\ pc[r] = "idle"
    /\ read' = [read EXCEPT ![r] = cred]
    /\ dueAtRead' = [dueAtRead EXCEPT ![r] = due]
    /\ Goto(r, "read")
    /\ UNCHANGED <<cred, flight, joined, reply, result, vk, logins, due, dropped>>

(* Unknown expiry is taken as expired. *)
Fresh(row) == row.expiry = "fresh"

(* The stored token is still good, or it is not and cannot be refreshed. *)
UseStored(r) ==
    /\ pc[r] = "read"
    /\ \/ Fresh(read[r]) /\ End(r, Token(read[r].access))
       \/ ~Fresh(read[r]) /\ read[r].refresh = 0 /\ End(r, Reauth)
    /\ UNCHANGED <<cred, flight, read, joined, reply, vk, history>>

MustRefresh(r) == pc[r] = "read" /\ ~Fresh(read[r]) /\ read[r].refresh # 0

NeverInFlight(i) == FALSE
InFlight(i) == flight[i] # None

JoinFlight(r) ==
    /\ MustRefresh(r) /\ InFlight(On[r])
    /\ joined' = [joined EXCEPT ![r] = flight[On[r]]]
    /\ Goto(r, "joined")
    /\ UNCHANGED <<cred, flight, read, reply, result, vk, history>>

StartFlight(r) ==
    /\ MustRefresh(r) /\ ~InFlight(On[r])
    /\ flight' = [flight EXCEPT ![On[r]] = r]
    /\ Goto(r, "calling")
    /\ UNCHANGED <<cred, read, joined, reply, result, vk, history>>

-----------------------------------------------------------------------------
(* VK's token endpoint, and executeRefresh up to the write. *)

(* VK accepts the refresh token of owner r and issues the next grant. *)
Issue(r) ==
    /\ read[r].refresh \in alive
    /\ issued < MaxGrants
    /\ issued' = issued + 1
    /\ from' = [from EXCEPT ![issued'] = read[r].refresh]
    /\ alive' = IF rotates THEN (alive \ {read[r].refresh}) \cup {issued'} ELSE alive

VkAccepts(r) ==
    /\ pc[r] = "calling"
    /\ Issue(r)
    /\ \E expiry \in {"fresh", "unknown"} :
          reply' = [reply EXCEPT ![r] =
              [access |-> issued', expiry |-> expiry,
               refresh |-> IF rotates THEN issued' ELSE read[r].refresh]]
    /\ Goto(r, "storing")
    /\ UNCHANGED <<cred, flight, read, joined, result, rotates, history>>

(* VK accepts, and the answer is lost, or is for another VK account and is *)
(* not used.                                                               *)
AnswerUnused(r) ==
    /\ pc[r] = "calling"
    /\ Issue(r)
    /\ dropped' = dropped \cup {read[r].refresh}
    /\ Goto(r, "settled")
    /\ \E outcome \in {Failed, Reauth} : Result(r, outcome)
    /\ UNCHANGED <<cred, flight, read, joined, reply, rotates, logins, due, dueAtRead>>

(* An answer that is not ok is a VkAuthError, whatever its status. *)
VkRefuses(r) ==
    /\ pc[r] = "calling"
    /\ read[r].refresh \notin alive \/ Outages
    /\ Goto(r, "settled")
    /\ Result(r, Reauth)
    /\ UNCHANGED <<cred, flight, read, joined, reply, vk, history>>

VkUnreachable(r) ==
    /\ pc[r] = "calling"
    /\ Goto(r, "settled")
    /\ Result(r, Failed)
    /\ UNCHANGED <<cred, flight, read, joined, reply, vk, history>>

-----------------------------------------------------------------------------
(* updateCredentialConditionally. *)

AlwaysUnchanged(row) == TRUE
CredentialUnchanged(row) == cred.updatedAt = row.updatedAt

UndefinedRefreshToken(r) == None
KeepRefreshToken(r) == cred.refresh
NewRefreshToken(r) == reply[r].refresh

StoreRefreshed(r) ==
    /\ pc[r] = "storing"
    /\ IF CredentialUnchanged(read[r])
       THEN /\ cred' = [access |-> reply[r].access, refresh |-> NewRefreshToken(r),
                        expiry |-> reply[r].expiry, updatedAt |-> cred.updatedAt + 1]
       ELSE UNCHANGED cred
    /\ Goto(r, "settled")
    /\ Result(r, Token(reply[r].access))
    /\ UNCHANGED <<flight, read, joined, reply, vk, history>>

(* The flight is settled: its owner wakes and removes it, and so does every*)
(* call that joined it, in any order.                                      *)
Registered(r) == flight
Unregistered(r) == [flight EXCEPT ![On[r]] = IF @ = r THEN None ELSE @]

Cleanup(r) ==
    /\ pc[r] = "settled"
    /\ flight' = Unregistered(r)
    /\ Goto(r, "done")
    /\ UNCHANGED <<cred, read, joined, reply, result, vk, history>>

FinishJoinedOnSuccess(r) ==
    /\ pc[r] = "joined"
    /\ result[joined[r]].kind = "token"
    /\ End(r, result[joined[r]])
    /\ UNCHANGED <<cred, flight, read, joined, reply, vk, history>>

FinishJoined(r) ==
    /\ pc[r] = "joined"
    /\ result[joined[r]] # Pending
    /\ End(r, result[joined[r]])
    /\ UNCHANGED <<cred, flight, read, joined, reply, vk, history>>

-----------------------------------------------------------------------------
(* The rest of the system. *)

(* The row the login callback upserts: without a refresh token in VK's     *)
(* answer, the stored one stays.                                           *)
Upserted(n, expiry, withRefresh) ==
    [access |-> n, expiry |-> expiry, refresh |-> IF withRefresh THEN n ELSE cred.refresh,
     updatedAt |-> cred.updatedAt + 1]

(* expires_in may be missing, and is then 0. *)
Login ==
    /\ logins < MaxLogins /\ issued < MaxGrants
    /\ issued' = issued + 1
    /\ \E expiry \in {"fresh", "due"}, withRefresh \in LoginRefresh :
          /\ alive' = IF withRefresh THEN alive \cup {issued'} ELSE alive
          /\ cred' = Upserted(issued', expiry, withRefresh)
          /\ due' = IF expiry = "due" THEN due \cup {issued'} ELSE due
    /\ logins' = logins + 1
    /\ UNCHANGED <<flight, pc, read, joined, reply, result, rotates, from, dropped, dueAtRead>>

(* An access token lives for much longer than any call: the stored one     *)
(* falls due while none is under way.                                      *)
Expire ==
    /\ Fresh(cred)
    /\ \A r \in Requests : pc[r] \in {"idle", "read", "done"}
    /\ cred' = [access |-> cred.access, refresh |-> cred.refresh, expiry |-> "due",
                updatedAt |-> cred.updatedAt]
    /\ due' = due \cup {cred.access}
    /\ UNCHANGED <<flight, pc, read, joined, reply, result, vk, logins, dropped, dueAtRead>>

(* Instance i restarts: its map and its calls are gone. *)
Interrupted(i) == {r \in Requests : On[r] = i /\ pc[r] \notin {"idle", "done"}}

Restart(i) ==
    /\ Interrupted(i) # {}
    /\ flight' = [flight EXCEPT ![i] = None]
    /\ pc' = [r \in Requests |-> IF r \in Interrupted(i) THEN "done" ELSE pc[r]]
    /\ result' = [r \in Requests |-> IF r \in Interrupted(i) THEN Failed ELSE result[r]]
    /\ dropped' = dropped \cup
          {read[r].refresh : r \in {q \in Interrupted(i) : pc[q] = "storing"}}
    /\ UNCHANGED <<cred, read, joined, reply, vk, logins, due, dueAtRead>>

CallVk(r) == VkAccepts(r) \/ AnswerUnused(r) \/ VkRefuses(r) \/ VkUnreachable(r)

Step(r) ==
    \/ ReadCredentials(r) \/ UseStored(r) \/ JoinFlight(r) \/ StartFlight(r)
    \/ CallVk(r)
    \/ StoreRefreshed(r) \/ Cleanup(r) \/ FinishJoined(r)

Next ==
    \/ \E r \in Requests : Step(r)
    \/ \E i \in Instances : Restart(i)
    \/ Login
    \/ Expire

Spec == Init /\ [][Next]_vars

(* A call that has begun goes on: the event loop runs what is ready, and   *)
(* fetch and the database answer or time out.                              *)
FairSpec == Spec /\ \A r \in Requests : WF_vars(pc[r] # "idle" /\ Step(r))

-----------------------------------------------------------------------------
(* Properties. *)

(* Rows, maps, calls and what VK keeps have the shape the code gives them. *)
TypeOK ==
    /\ cred \in Rows
    /\ flight \in [Instances -> Requests \cup {None}]
    /\ pc \in [Requests -> {"idle", "read", "joined", "calling", "storing", "settled", "done"}]
    /\ read \in [Requests -> Rows \cup {None}]
    /\ joined \in [Requests -> Requests \cup {None}]
    /\ reply \in [Requests -> Replies \cup {None}]
    /\ result \in [Requests -> {Pending, Reauth, Failed} \cup {Token(n) : n \in Grants}]
    /\ issued \in Grants /\ alive \subseteq Grants /\ rotates \in BOOLEAN
    /\ logins \in 0..MaxLogins /\ due \subseteq Grants
    /\ from \in [Grants -> 0..MaxGrants] /\ dropped \subseteq Grants
    /\ dueAtRead \in [Requests -> SUBSET Grants]

(* Two calls of one instance never have a refresh under way at VK at the   *)
(* same time, whatever joins, fails, logs in or restarts around them.      *)
Refreshing(r) == pc[r] \in {"calling", "storing"}
SingleFlight ==
    \A r, s \in Requests :
        Refreshing(r) /\ Refreshing(s) /\ On[r] = On[s] => r = s

(* A refresh that comes back late never replaces a login or another        *)
(* refresh that was stored after it began: what a refresh stores was made  *)
(* from the refresh token that is stored.                                  *)
RefreshContinuesStored ==
    [][cred'.access # cred.access /\ logins' = logins =>
          from[cred'.access] = cred.refresh]_vars

(* The row is that of a login that brought no refresh token and kept one   *)
(* of which VK has made a grant for a call that had begun before: the call *)
(* finds the row changed, and the token that replaces it is not stored.    *)
KeptWhileRefreshed ==
    /\ from[cred.access] = 0
    /\ \E r \in Requests, n \in Grants :
          /\ pc[r] # "idle" /\ read[r].updatedAt < cred.updatedAt
          /\ read[r].refresh = cred.refresh /\ from[n] = cred.refresh

(* The stored refresh token is one VK still takes, unless the answer that  *)
(* replaces it was lost, or is on its way to the row, which is still the   *)
(* one it was made from.  Of all the orders in which calls and logins can  *)
(* finish, only such a login leaves a dead token behind.                   *)
StoredRefreshTokenWorks ==
    \/ cred.refresh \in {0} \cup alive \cup dropped
    \/ \E r \in Requests :
          /\ pc[r] = "storing" /\ read[r].refresh = cred.refresh
          /\ read[r].updatedAt = cred.updatedAt
    \/ KeptWhileRefreshed

(* A call never gets an access token that had expired before it asked: not *)
(* from the row, not from a flight left in the map by an earlier refresh.  *)
NoExpiredToken ==
    \A r \in Requests : pc[r] = "done" => result[r].token \notin dueAtRead[r]

(* Every call that has begun ends, owners and those that joined them. *)
EveryCallEnds == \A r \in Requests : pc[r] = "read" ~> pc[r] = "done"

===============================================================================
