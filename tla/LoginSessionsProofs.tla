-------------------------- MODULE LoginSessionsProofs --------------------------
(***************************************************************************)
(* What an OAuth state gives, and how long a session is accepted: for any  *)
(* number of requests, instances, states and sessions, and any lifetimes   *)
(* in which a handler ends before a copy of the cache does.                *)
(***************************************************************************)
EXTENDS LoginSessions, TLAPS

Time == Nat \cup {None}
Births == [state : States, on : Instances, until : Nat, given : BOOLEAN]
Ends == [on : Instances, at : Nat]
OfState == {"claim", "claimed", "exchange"}
OfSession == {"created", "lookup", "found", "purge", "logout"}

Types ==
    /\ now \in Nat
    /\ transactions \in [States -> Time] /\ rows \in [Sessions -> Time]
    /\ cache \in [Instances -> [Sessions -> Time]]
    /\ pc \in [Requests -> {"idle"} \cup OfState \cup OfSession]
    /\ job \in [Requests -> [of : States \cup Sessions \cup {None}, expiresAt : Time]]
    /\ since \in [Requests -> Nat]
    /\ issued \subseteq States /\ cancelled \subseteq States
    /\ born \in [Sessions -> Births \cup {None}]
    /\ ended \in [Sessions -> Ends \cup {None}]
    /\ \A r \in Requests :
          /\ pc[r] \in OfState => job[r].of \in States /\ job[r].expiresAt \in Nat
          /\ pc[r] \in OfSession => job[r].of \in Sessions

(* Handler r has deleted the transaction of state t and made no session yet. *)
Claims(r, t) == pc[r] \in {"claimed", "exchange"} /\ job[r].of = t

Came(s, t) == born[s] # None /\ born[s].state = t

(* A state that was made is in one place: its row is there, or it was       *)
(* cancelled, or one handler claims it, or it came to be one session, or    *)
(* the handler that claimed it has failed.                                  *)
OnePlace ==
    /\ cancelled \subseteq issued
    /\ \A t \in States :
           /\ transactions[t] # None => t \in issued \ cancelled
           /\ \A r \in Requests : Claims(r, t) =>
                 /\ transactions[t] = None /\ t \in issued \ cancelled
                 /\ \A q \in Requests : Claims(q, t) => q = r
           /\ \A s \in Sessions : Came(s, t) =>
                 /\ transactions[t] = None /\ t \in issued \ cancelled
                 /\ \A r \in Requests : ~Claims(r, t)
                 /\ \A u \in Sessions : Came(u, t) => u = s

(* Nobody is at work for longer than Latency. *)
InTime ==
    \A r \in Requests : pc[r] # "idle" => since[r] <= now /\ now <= since[r] + Latency

(* What a handler holds of a session is true: it is the one that makes it,  *)
(* or works on one that a client was given, with its expiry if its row was  *)
(* there.                                                                   *)
Making(r, s) == pc[r] = "created" /\ job[r].of = s

Holds ==
    /\ \A r \in Requests, s \in Sessions : Making(r, s) =>
          /\ born[s] # None /\ ~born[s].given /\ born[s].on = On[r]
          /\ since[r] + SessionTtl <= born[s].until
          /\ \A q \in Requests : Making(q, s) => q = r
    /\ \A r \in Requests : pc[r] \in OfSession \ {"created"} =>
          /\ Known(job[r].of)
          /\ job[r].expiresAt \in {None, born[job[r].of].until}
    /\ \A s \in Sessions : rows[s] # None => born[s] # None /\ rows[s] = born[s].until

(* A copy outlives the session by the cache's TTL at most; it is short      *)
(* unless it is that of the login, which is there only when the login has   *)
(* replied.                                                                 *)
Copies ==
    \A i \in Instances, s \in Sessions : cache[i][s] # None =>
        /\ Known(s)
        /\ cache[i][s] <= born[s].until + CacheTtl
        /\ i # born[s].on => cache[i][s] <= now + CacheTtl

(* So is what a logout leaves on its instance while it is deleting the row. *)
LoggingOut ==
    \A r \in Requests, s \in Sessions :
        pc[r] = "logout" /\ job[r].of = s /\ cache[On[r]][s] # None =>
            cache[On[r]][s] <= now + CacheTtl

(* After a logout the row is gone, and who found it began before.           *)
LoggedOut ==
    \A s \in Sessions : ended[s] # None =>
        /\ Known(s) /\ rows[s] = None /\ ended[s].at <= now
        /\ \A r \in Requests :
              pc[r] = "found" /\ job[r].of = s /\ job[r].expiresAt # None =>
                  since[r] <= ended[s].at
        /\ \A i \in Instances :
              (i = ended[s].on \/ i # born[s].on) /\ cache[i][s] # None =>
                  cache[i][s] <= ended[s].at + Latency + CacheTtl

Inv == Types /\ OnePlace /\ InTime /\ Holds /\ Copies /\ LoggingOut /\ LoggedOut
-----------------------------------------------------------------------------
(* The steps.                                                              *)

(* The handlers' decisions, one step for each outcome; a refusal does to    *)
(* the state what a failure does.                                           *)
Takes(r) ==
    /\ pc[r] = "claim" /\ transactions[job[r].of] # None
    /\ transactions' = [transactions EXCEPT ![job[r].of] = None]
    /\ Goto(r, "claimed", job[r])
    /\ UNCHANGED <<now, rows, cache, history>>

Passes(r) ==
    /\ pc[r] = "claimed"
    /\ Goto(r, "exchange", job[r])
    /\ UNCHANGED <<now, store, history>>

Outlived(r) ==
    /\ pc[r] = "found" /\ job[r].expiresAt # None
    /\ Goto(r, "purge", job[r])
    /\ cache' = Invalidated(On[r], job[r].of)
    /\ UNCHANGED <<now, transactions, rows, history>>

Caches(r) ==
    /\ pc[r] = "found" /\ job[r].expiresAt # None /\ ~(now > job[r].expiresAt)
    /\ End(r)
    /\ cache' = Cached(On[r], job[r].of, CacheTtl)
    /\ UNCHANGED <<now, transactions, rows, history>>

LEMMA Outcomes ==
    ASSUME NEW r \in Requests
    PROVE  /\ DeleteTransaction(r) => Takes(r) \/ Fail(r)
           /\ CheckTransaction(r) => Passes(r) \/ Fail(r)
           /\ FinishLookup(r) => Outlived(r) \/ Caches(r) \/ Fail(r)
<1>1. DeleteTransaction(r) => Takes(r) \/ Fail(r)
    BY DEF DeleteTransaction, Claimable, Takes, Fail, store, history
<1>2. CheckTransaction(r) => Passes(r) \/ Fail(r)
    BY DEF CheckTransaction, Passes, Fail
<1>3. FinishLookup(r) => Outlived(r) \/ Caches(r) \/ Fail(r)
    BY DEF FinishLookup, Outlived, Caches, Fail, Expired, store
<1> QED BY <1>1, <1>2, <1>3

(* The reply of a login: nothing of the session changes but that a client   *)
(* knows it.                                                                *)
LEMMA GivenOnly ==
    ASSUME Types, Holds, NEW r \in Requests, CacheCreated(r)
    PROVE  /\ job[r].of \in Sessions /\ born[job[r].of] # None
           /\ born' \in [Sessions -> Births \cup {None}]
           /\ \A s \in Sessions :
                 /\ (born'[s] # None) = (born[s] # None)
                 /\ born[s] # None =>
                       /\ born'[s].state = born[s].state /\ born'[s].on = born[s].on
                       /\ born'[s].until = born[s].until
                       /\ born'[s].given = (born[s].given \/ s = job[r].of)
<1> DEFINE s == job[r].of
<1>1. s \in Sessions /\ born[s] # None /\ born[s] \in Births
    BY DEF CacheCreated, Types, Holds, Making, OfSession, OfState
<1>2. /\ [born[s] EXCEPT !.given = TRUE] \in Births
      /\ [born[s] EXCEPT !.given = TRUE].state = born[s].state
      /\ [born[s] EXCEPT !.given = TRUE].on = born[s].on
      /\ [born[s] EXCEPT !.given = TRUE].until = born[s].until
      /\ [born[s] EXCEPT !.given = TRUE].given = TRUE
  BY <1>1 DEF Births
<1>3. [born[s] EXCEPT !.given = TRUE] # None
    BY <1>2, LoginAssumption DEF Births
<1>4. /\ born'[s] = [born[s] EXCEPT !.given = TRUE]
      /\ \A u \in Sessions \ {s} : born'[u] = born[u]
      /\ born' \in [Sessions -> Births \cup {None}]
  BY <1>1, <1>2 DEF CacheCreated, Types
<1>5. \A u \in Sessions : born[u] # None => born[u].given \in BOOLEAN
    BY DEF Types, Births
<1> QED BY <1>1, <1>2, <1>3, <1>4, <1>5

-----------------------------------------------------------------------------
(* Types. *)

LEMMA TypesAfterReply ==
    ASSUME Inv, NEW r \in Requests, CacheCreated(r)
    PROVE  Types'
<1>1. Types /\ Holds /\ On[r] \in Instances /\ now + SessionTtl \in Nat
    BY LoginAssumption DEF Inv, Types
<1>2. cache' \in [Instances -> [Sessions -> Time]]
    BY <1>1, GivenOnly DEF CacheCreated, Cached, CacheUntil, Types, Time
<1>3. \A q \in Requests : q # r => pc'[q] = pc[q] /\ job'[q] = job[q]
    BY DEF CacheCreated, End, Inv, Types
<1>4. pc'[r] = "idle"
    BY DEF CacheCreated, End, Inv, Types
<1>5. /\ pc' \in [Requests -> {"idle"} \cup OfState \cup OfSession]
      /\ job' \in [Requests -> [of : States \cup Sessions \cup {None}, expiresAt : Time]]
      /\ since' \in [Requests -> Nat]
  BY <1>1 DEF CacheCreated, End, Types, NoJob, Time
<1>6. UNCHANGED <<now, transactions, rows, issued, cancelled, ended>>
    BY DEF CacheCreated
<1>7. \A q \in Requests :
          /\ pc'[q] \in OfState => job'[q].of \in States /\ job'[q].expiresAt \in Nat
          /\ pc'[q] \in OfSession => job'[q].of \in Sessions
  BY <1>1, <1>3, <1>4 DEF Types, OfState, OfSession
<1> QED BY <1>1, <1>2, <1>5, <1>6, <1>7, GivenOnly DEF Types

(* Every step keeps the types. *)
LEMMA TypesStep ==
    ASSUME Inv, [Next]_vars
    PROVE  Types'
<1> USE LoginAssumption DEF Inv, Types, Births, Ends, Time, OfState, OfSession, NoJob
<1>1. CASE Tick
    BY <1>1 DEF Tick, store, history
<1>2. ASSUME NEW t \in States, StartLogin(t) PROVE Types'
    BY <1>2 DEF StartLogin, store, history
<1>3. ASSUME NEW t \in States, CancelLogin(t) PROVE Types'
    BY <1>3 DEF CancelLogin, store, history
<1>4. ASSUME NEW i \in Instances, Restart(i) PROVE Types'
    BY <1>4 DEF Restart, store, history
<1>5. ASSUME NEW r \in Requests, NEW t \in States, FindTransaction(r, t) PROVE Types'
    BY <1>5 DEF FindTransaction, Begin, store, history
<1>6. ASSUME NEW r \in Requests, NEW s \in Sessions, CreateSession(r, s) PROVE Types'
    BY <1>6 DEF CreateSession, Goto, store, history
<1>7. ASSUME NEW r \in Requests, NEW s \in Sessions, LookUp(r, s) PROVE Types'
    BY <1>7 DEF LookUp, Begin, Invalidated, store, history
<1>8. ASSUME NEW r \in Requests, NEW s \in Sessions, Logout(r, s) PROVE Types'
    BY <1>8 DEF Logout, Begin, Invalidated, store, history
<1>9. ASSUME NEW r \in Requests, Takes(r) PROVE Types'
    BY <1>9 DEF Takes, Goto, store, history
<1>10. ASSUME NEW r \in Requests, Passes(r) PROVE Types'
    BY <1>10 DEF Passes, Goto, store, history
<1>11. ASSUME NEW r \in Requests, CacheCreated(r) PROVE Types'
    BY <1>11, TypesAfterReply
<1>12. ASSUME NEW r \in Requests, FindSession(r) PROVE Types'
    BY <1>12 DEF FindSession, Goto, store, history
<1>13. ASSUME NEW r \in Requests, Outlived(r) PROVE Types'
    BY <1>13 DEF Outlived, Goto, Invalidated, store, history
<1>14. ASSUME NEW r \in Requests, Caches(r) PROVE Types'
    BY <1>14 DEF Caches, End, Cached, CacheUntil, store, history
<1>15. ASSUME NEW r \in Requests, PurgeSession(r) PROVE Types'
    BY <1>15 DEF PurgeSession, End, store, history
<1>16. ASSUME NEW r \in Requests, DeleteSession(r) PROVE Types'
    BY <1>16 DEF DeleteSession, End, store, history
<1>17. ASSUME NEW r \in Requests, Fail(r) PROVE Types'
    BY <1>17 DEF Fail, End, store, history
<1>18. CASE UNCHANGED vars
    BY <1>18 DEF vars
<1> HIDE DEF Inv, Types, Births, Ends, Time, OfState, OfSession, NoJob
<1> QED BY Outcomes, <1>1, <1>2, <1>3, <1>4, <1>5, <1>6, <1>7, <1>8, <1>9, <1>10, <1>11,
        <1>12, <1>13, <1>14, <1>15, <1>16, <1>17, <1>18 DEF Next

-----------------------------------------------------------------------------
(* The place of a state. *)

LEMMA NewStatePlaced ==
    ASSUME Inv, NEW t \in States, StartLogin(t)
    PROVE  OnePlace'
<1>1. \A s \in Sessions : ~Came(s, t)
   BY DEF Inv, StartLogin, OnePlace
<1>2. \A s \in Requests : ~Claims(s, t)
   BY DEF Inv, StartLogin, OnePlace
<1>3. /\ \A s \in Sessions, u \in States : Came(s, u)' = Came(s, u) 
      /\ \A q \in Requests, u \in States : Claims(q, u)' = Claims(q, u) 
  BY DEF StartLogin, Came, Claims
<1>5. issued' = issued \cup {t} /\ cancelled' = cancelled /\ t \notin issued
    BY DEF StartLogin
<1>6. t \notin cancelled /\ \A u \in States : u # t => transactions'[u] = transactions[u]
    BY DEF Inv, StartLogin, Types, OnePlace
<1> QED BY <1>1, <1>2, <1>3, <1>5, <1>6 DEF Inv, OnePlace

LEMMA PlacesAfterReply ==
    ASSUME Inv, NEW r \in Requests, CacheCreated(r)
    PROVE  OnePlace'
<1>1. \A s \in Sessions, u \in States : Came(s, u)' = Came(s, u) 
    BY GivenOnly DEF Inv, Came
<1>2. \A q \in Requests, u \in States : Claims(q, u)' = Claims(q, u) 
    BY DEF Inv, Types, CacheCreated, Claims, End, NoJob
<1> QED BY <1>1, <1>2 DEF Inv, OnePlace, CacheCreated

(* No step gives a state a second place. *)
LEMMA OnePlaceStep ==
    ASSUME Inv, [Next]_vars
    PROVE  OnePlace'
<1> USE LoginAssumption DEF Inv, OnePlace, Claims, Came, OfState, OfSession, NoJob, Types,
        Births, Time
<1>1. CASE Tick
    BY <1>1 DEF Tick, store, history
<1>2. ASSUME NEW t \in States, StartLogin(t) PROVE OnePlace'
    BY <1>2, NewStatePlaced
<1>3. ASSUME NEW t \in States, CancelLogin(t) PROVE OnePlace'
    BY <1>3 DEF CancelLogin, store, history
<1>4. ASSUME NEW i \in Instances, Restart(i) PROVE OnePlace'
    BY <1>4 DEF Restart, store, history
<1>5. ASSUME NEW r \in Requests, NEW t \in States, FindTransaction(r, t) PROVE OnePlace'
    BY <1>5 DEF FindTransaction, Begin, store, history
<1>6. ASSUME NEW r \in Requests, NEW s \in Sessions, CreateSession(r, s) PROVE OnePlace'
    BY <1>6 DEF CreateSession, Goto, store, history
<1>7. ASSUME NEW r \in Requests, NEW s \in Sessions, LookUp(r, s) PROVE OnePlace'
    BY <1>7 DEF LookUp, Begin, Invalidated, store, history
<1>8. ASSUME NEW r \in Requests, NEW s \in Sessions, Logout(r, s) PROVE OnePlace'
    BY <1>8 DEF Logout, Begin, Invalidated, store, history
<1>9. ASSUME NEW r \in Requests, Takes(r) PROVE OnePlace'
    BY <1>9 DEF Takes, Goto, store, history
<1>10. ASSUME NEW r \in Requests, Passes(r) PROVE OnePlace'
    BY <1>10 DEF Passes, Goto, store, history
<1>11. ASSUME NEW r \in Requests, CacheCreated(r) PROVE OnePlace'
    BY <1>11, PlacesAfterReply
<1>12. ASSUME NEW r \in Requests, FindSession(r) PROVE OnePlace'
    BY <1>12 DEF FindSession, Goto, store, history
<1>13. ASSUME NEW r \in Requests, Outlived(r) PROVE OnePlace'
    BY <1>13 DEF Outlived, Goto, Invalidated, store, history
<1>14. ASSUME NEW r \in Requests, Caches(r) PROVE OnePlace'
    BY <1>14 DEF Caches, End, Cached, CacheUntil, store, history
<1>15. ASSUME NEW r \in Requests, PurgeSession(r) PROVE OnePlace'
    BY <1>15 DEF PurgeSession, End, store, history
<1>16. ASSUME NEW r \in Requests, DeleteSession(r) PROVE OnePlace'
    BY <1>16 DEF DeleteSession, End, store, history
<1>17. ASSUME NEW r \in Requests, Fail(r) PROVE OnePlace'
    BY <1>17 DEF Fail, End, store, history
<1>18. CASE UNCHANGED vars
    BY <1>18 DEF vars
<1> HIDE DEF Inv, OnePlace, Claims, Came, OfState, OfSession, NoJob, Types, Births, Time
<1> QED BY Outcomes, <1>1, <1>2, <1>3, <1>4, <1>5, <1>6, <1>7, <1>8, <1>9, <1>10, <1>11,
        <1>12, <1>13, <1>14, <1>15, <1>16, <1>17, <1>18 DEF Next

-----------------------------------------------------------------------------
(* What handlers hold, and for how long. *)

(* Time does not pass a handler that should be done. *)
LEMMA InTimeStep ==
    ASSUME Inv, [Next]_vars
    PROVE  InTime'
<1> USE LoginAssumption DEF Inv, InTime, Types
<1>1. CASE Tick
    BY <1>1 DEF Tick
<1>2. ASSUME NEW t \in States, StartLogin(t) PROVE InTime'
    BY <1>2 DEF StartLogin
<1>3. ASSUME NEW t \in States, CancelLogin(t) PROVE InTime'
    BY <1>3 DEF CancelLogin
<1>4. ASSUME NEW i \in Instances, Restart(i) PROVE InTime'
    BY <1>4 DEF Restart
<1>5. ASSUME NEW r \in Requests, NEW t \in States, FindTransaction(r, t) PROVE InTime'
    BY <1>5 DEF FindTransaction, Begin
<1>6. ASSUME NEW r \in Requests, NEW s \in Sessions, CreateSession(r, s) PROVE InTime'
    BY <1>6 DEF CreateSession, Goto
<1>7. ASSUME NEW r \in Requests, NEW s \in Sessions, LookUp(r, s) PROVE InTime'
    BY <1>7 DEF LookUp, Begin, Invalidated
<1>8. ASSUME NEW r \in Requests, NEW s \in Sessions, Logout(r, s) PROVE InTime'
    BY <1>8 DEF Logout, Begin, Invalidated
<1>9. ASSUME NEW r \in Requests, Takes(r) PROVE InTime'
    BY <1>9 DEF Takes, Goto
<1>10. ASSUME NEW r \in Requests, Passes(r) PROVE InTime'
    BY <1>10 DEF Passes, Goto
<1>11. ASSUME NEW r \in Requests, CacheCreated(r) PROVE InTime'
    BY <1>11 DEF CacheCreated, End, Cached, CacheUntil
<1>12. ASSUME NEW r \in Requests, FindSession(r) PROVE InTime'
    BY <1>12 DEF FindSession, Goto
<1>13. ASSUME NEW r \in Requests, Outlived(r) PROVE InTime'
    BY <1>13 DEF Outlived, Goto, Invalidated
<1>14. ASSUME NEW r \in Requests, Caches(r) PROVE InTime'
    BY <1>14 DEF Caches, End, Cached, CacheUntil
<1>15. ASSUME NEW r \in Requests, PurgeSession(r) PROVE InTime'
    BY <1>15 DEF PurgeSession, End
<1>16. ASSUME NEW r \in Requests, DeleteSession(r) PROVE InTime'
    BY <1>16 DEF DeleteSession, End
<1>17. ASSUME NEW r \in Requests, Fail(r) PROVE InTime'
    BY <1>17 DEF Fail, End
<1>18. CASE UNCHANGED vars
    BY <1>18 DEF vars
<1> HIDE DEF Inv, InTime, Types
<1> QED BY Outcomes, <1>1, <1>2, <1>3, <1>4, <1>5, <1>6, <1>7, <1>8, <1>9, <1>10, <1>11,
        <1>12, <1>13, <1>14, <1>15, <1>16, <1>17, <1>18 DEF Next

LEMMA HoldsAfterCreation ==
    ASSUME Inv, NEW r \in Requests, NEW s \in Sessions, CreateSession(r, s)
    PROVE  Holds'
<1>0. Types /\ Holds /\ InTime /\ pc[r] = "exchange" /\ born[s] = None
    BY DEF Inv, CreateSession
<1>1. \A q \in Requests : ~Making(q, s) 
    BY <1>0 DEF Holds
<1>2. /\ born'[s] # None /\ ~born'[s].given
      /\ born'[s].on = On[r] /\ born'[s].until = now + SessionTtl
      /\ \A u \in Sessions : u # s => born'[u] = born[u]
  <2> DEFINE b == [state |-> job[r].of, on |-> On[r], until |-> now + SessionTtl, given |-> FALSE]
  <2>1. b \in Births
    BY <1>0, LoginAssumption DEF Types, Births, OfState
  <2>2. b # None
    BY <2>1, LoginAssumption DEF Births
  <2>3. born'[s] = b /\ \A u \in Sessions : u # s => born'[u] = born[u]
    BY <1>0 DEF CreateSession, Types
  <2> QED BY <2>2, <2>3
<1>3. since[r] <= now /\ since' = since /\ Making(r, s)'
    BY <1>0 DEF CreateSession, Goto, InTime, Making, Types
<1>4. \A q \in Requests : q # r => pc'[q] = pc[q] /\ job'[q] = job[q]
    BY <1>0 DEF CreateSession, Goto, Types
<1>5. rows'[s] = born'[s].until /\ \A u \in Sessions : u # s => rows'[u] = rows[u]
    BY <1>0, <1>2 DEF CreateSession, Types
<1>6. ASSUME NEW q \in Requests, NEW u \in Sessions, Making(q, u)'
      PROVE /\ born'[u] # None /\ ~born'[u].given /\ born'[u].on = On[q]
          /\ since'[q] + SessionTtl <= born'[u].until
          /\ \A p \in Requests : Making(p, u)' => p = q
  <2>1. CASE u = s
    <3>1. q = r /\ \A p \in Requests : Making(p, u)' => p = r
      BY <1>1, <1>4, <1>6, <2>1 DEF Making
    <3> QED BY <1>0, <1>2, <1>3, <2>1, <3>1, LoginAssumption DEF Types
  <2>2. CASE u # s
    <3>1. \A p \in Requests : Making(p, u)' => p # r /\ Making(p, u)
      BY <1>3, <1>4, <2>2 DEF Making
    <3> QED BY <1>0, <1>2, <1>3, <1>6, <2>2, <3>1 DEF Holds
  <2> QED BY <2>1, <2>2
<1>7. ASSUME NEW q \in Requests, pc'[q] \in OfSession \ {"created"}
     PROVE Known(job[q].of)' /\ job'[q].expiresAt \in {None, born'[job'[q].of].until}
  <2>1. q # r BY <1>3, <1>7 DEF Making
  <2> QED BY <2>1, <1>0, <1>2, <1>4, <1>7 DEF Holds, Known, Types
<1>8. \A u \in Sessions : rows'[u] # None => born'[u] # None /\ rows'[u] = born'[u].until
    BY <1>0, <1>2, <1>5 DEF Holds
<1> QED BY <1>6, <1>7, <1>8 DEF Holds

LEMMA HoldsAfterReply ==
    ASSUME Inv, NEW r \in Requests, CacheCreated(r)
    PROVE  Holds'
<1>1. Types /\ Holds /\ pc[r] = "created" BY DEF Inv, CacheCreated
<1>2. /\ \A q \in Requests \ {r} : pc'[q] = pc[q] /\ job'[q] = job[q] /\ since'[q] = since[q]
      /\ pc'[r] = "idle" /\ rows' = rows
  BY <1>1 DEF CacheCreated, End, Types
<1>3. \A q \in Requests, s \in Sessions : Making(q, s)' => q # r /\ Making(q, s) /\ s # job[r].of
    BY <1>1, <1>2, GivenOnly DEF Holds, Making
<1>4. \A q \in Requests, s \in Sessions : Making(q, s)' =>
          /\ born'[s] # None /\ ~born'[s].given /\ born'[s].on = On[q]
          /\ since'[q] + SessionTtl <= born'[s].until
          /\ \A p \in Requests : Making(p, s)' => p = q
  BY <1>1, <1>2, <1>3, GivenOnly, ZenonT(30) DEF Holds
<1>5. ASSUME NEW q \in Requests, pc'[q] \in OfSession \ {"created"}
     PROVE Known(job[q].of)' /\ job'[q].expiresAt \in {None, born'[job'[q].of].until}
  <2>1. q # r
    BY <1>2, <1>5 DEF OfSession
  <2>2. job'[q] = job[q] /\ pc[q] \in OfSession \ {"created"}
    BY <1>2, <1>5, <2>1
  <2>3. /\ job[q].of \in Sessions /\ Known(job[q].of)
        /\ job[q].expiresAt \in {None, born[job[q].of].until}
    BY <1>1, <2>2 DEF Types, Holds
  <2>4. \A u \in Sessions : Known(u) => Known(u)' /\ born'[u].until = born[u].until
    BY <1>1, GivenOnly DEF Known
  <2> QED BY <2>2, <2>3, <2>4 DEF Known
<1>6. \A u \in Sessions : rows'[u] # None => born'[u] # None /\ rows'[u] = born'[u].until
    BY <1>1, <1>2, GivenOnly DEF Holds
<1> QED BY <1>4, <1>5, <1>6 DEF Holds

(* What a handler holds stays true of the session. *)
LEMMA HoldsStep ==
    ASSUME Inv, [Next]_vars
    PROVE  Holds'
<1> USE LoginAssumption DEF Inv, Holds, Making, Known, Types, InTime, OfSession, OfState,
        Births, Time, NoJob
<1>1. CASE Tick
    BY <1>1 DEF Tick, store, history
<1>2. ASSUME NEW t \in States, StartLogin(t) PROVE Holds'
    BY <1>2 DEF StartLogin, store, history
<1>3. ASSUME NEW t \in States, CancelLogin(t) PROVE Holds'
    BY <1>3 DEF CancelLogin, store, history
<1>4. ASSUME NEW i \in Instances, Restart(i) PROVE Holds'
    BY <1>4 DEF Restart, store, history
<1>5. ASSUME NEW r \in Requests, NEW t \in States, FindTransaction(r, t) PROVE Holds'
    BY <1>5 DEF FindTransaction, Begin, store, history
<1>6. ASSUME NEW r \in Requests, NEW s \in Sessions, CreateSession(r, s) PROVE Holds'
    BY <1>6, HoldsAfterCreation
<1>7. ASSUME NEW r \in Requests, NEW s \in Sessions, LookUp(r, s) PROVE Holds'
    BY <1>7 DEF LookUp, Begin, Invalidated, store, history
<1>8. ASSUME NEW r \in Requests, NEW s \in Sessions, Logout(r, s) PROVE Holds'
    BY <1>8 DEF Logout, Begin, Invalidated, store, history
<1>9. ASSUME NEW r \in Requests, Takes(r) PROVE Holds'
    BY <1>9 DEF Takes, Goto, store, history
<1>10. ASSUME NEW r \in Requests, Passes(r) PROVE Holds'
    BY <1>10 DEF Passes, Goto, store, history
<1>11. ASSUME NEW r \in Requests, CacheCreated(r) PROVE Holds'
    BY <1>11, HoldsAfterReply
<1>12. ASSUME NEW r \in Requests, FindSession(r) PROVE Holds'
    BY <1>12 DEF FindSession, Goto, store, history
<1>13. ASSUME NEW r \in Requests, Outlived(r) PROVE Holds'
    BY <1>13 DEF Outlived, Goto, Invalidated, store, history
<1>14. ASSUME NEW r \in Requests, Caches(r) PROVE Holds'
    BY <1>14 DEF Caches, End, Cached, CacheUntil, store, history
<1>15. ASSUME NEW r \in Requests, PurgeSession(r) PROVE Holds'
    BY <1>15 DEF PurgeSession, End, store, history
<1>16. ASSUME NEW r \in Requests, DeleteSession(r) PROVE Holds'
    BY <1>16 DEF DeleteSession, End, store, history
<1>17. ASSUME NEW r \in Requests, Fail(r) PROVE Holds'
    BY <1>17 DEF Fail, End, store, history
<1>18. CASE UNCHANGED vars
    BY <1>18 DEF vars
<1> HIDE DEF Inv, Holds, Making, Known, Types, InTime, OfSession, OfState, Births, Time, NoJob
<1> QED BY Outcomes, <1>1, <1>2, <1>3, <1>4, <1>5, <1>6, <1>7, <1>8, <1>9, <1>10, <1>11,
        <1>12, <1>13, <1>14, <1>15, <1>16, <1>17, <1>18 DEF Next

-----------------------------------------------------------------------------
(* The copies. *)

LEMMA CopiesAfterReply ==
    ASSUME Inv, NEW r \in Requests, CacheCreated(r)
    PROVE  Copies'
<1> DEFINE s == job[r].of
<1>1. Types /\ Holds /\ pc[r] = "created" /\ InTime /\ Copies BY DEF Inv, CacheCreated
<1>2. now' = now /\ \A i \in Instances, u \in Sessions :
         cache'[i][u] = IF i = On[r] /\ u = s THEN now + SessionTtl ELSE cache[i][u]
  BY <1>1, LoginAssumption DEF CacheCreated, Cached, CacheUntil, Types
<1>3. now + SessionTtl <= born[s].until + CacheTtl /\ born[s].on = On[r]
   <2>1. since[r] + SessionTtl <= born[s].until /\ born[s].on = On[r]
     BY <1>1, GivenOnly DEF Holds, Making
   <2>2. now <= since[r] + Latency
     BY <1>1 DEF InTime
   <2> QED BY <2>1, <2>2, <1>1, GivenOnly, LoginAssumption DEF Types, Births
<1> HIDE DEF s
<1>4. \A u \in Sessions : Known(u) \/ u = s => born'[u] # None /\ born'[u].given
                   /\ born'[u].until = born[u].until /\ born'[u].on = born[u].on
  <2>1. s \in Sessions /\ born[s] # None
    BY <1>1, GivenOnly DEF s
  <2> QED BY <1>1, <2>1, GivenOnly DEF Known, s
<1> QED BY <1>1, <1>2, <1>3, <1>4 DEF Copies, Known

(* Only the login makes a long copy, once. *)
LEMMA CopiesStep ==
    ASSUME Inv, [Next]_vars
    PROVE  Copies'
<1> USE LoginAssumption DEF Inv, Copies, Known, Types, InTime, Holds, Making, Births,
        OfSession, OfState, Time
<1>1. CASE Tick
    BY <1>1 DEF Tick, store, history
<1>2. ASSUME NEW t \in States, StartLogin(t) PROVE Copies'
    BY <1>2 DEF StartLogin, store, history
<1>3. ASSUME NEW t \in States, CancelLogin(t) PROVE Copies'
    BY <1>3 DEF CancelLogin, store, history
<1>4. ASSUME NEW i \in Instances, Restart(i) PROVE Copies'
    BY <1>4 DEF Restart, store, history
<1>5. ASSUME NEW r \in Requests, NEW t \in States, FindTransaction(r, t) PROVE Copies'
    BY <1>5 DEF FindTransaction, Begin, store, history
<1>6. ASSUME NEW r \in Requests, NEW s \in Sessions, CreateSession(r, s) PROVE Copies'
    BY <1>6 DEF CreateSession, Goto, store, history
<1>7. ASSUME NEW r \in Requests, NEW s \in Sessions, LookUp(r, s) PROVE Copies'
    BY <1>7 DEF LookUp, Begin, Invalidated, store, history
<1>8. ASSUME NEW r \in Requests, NEW s \in Sessions, Logout(r, s) PROVE Copies'
    BY <1>8 DEF Logout, Begin, Invalidated, store, history
<1>9. ASSUME NEW r \in Requests, Takes(r) PROVE Copies'
    BY <1>9 DEF Takes, Goto, store, history
<1>10. ASSUME NEW r \in Requests, Passes(r) PROVE Copies'
    BY <1>10 DEF Passes, Goto, store, history
<1>11. ASSUME NEW r \in Requests, CacheCreated(r) PROVE Copies'
    BY <1>11, CopiesAfterReply
<1>12. ASSUME NEW r \in Requests, FindSession(r) PROVE Copies'
    BY <1>12 DEF FindSession, Goto, store, history
<1>13. ASSUME NEW r \in Requests, Outlived(r) PROVE Copies'
    BY <1>13 DEF Outlived, Goto, Invalidated, store, history
<1>14. ASSUME NEW r \in Requests, Caches(r) PROVE Copies'
    BY <1>14 DEF Caches, End, Cached, CacheUntil, store, history
<1>15. ASSUME NEW r \in Requests, PurgeSession(r) PROVE Copies'
    BY <1>15 DEF PurgeSession, End, store, history
<1>16. ASSUME NEW r \in Requests, DeleteSession(r) PROVE Copies'
    BY <1>16 DEF DeleteSession, End, store, history
<1>17. ASSUME NEW r \in Requests, Fail(r) PROVE Copies'
    BY <1>17 DEF Fail, End, store, history
<1>18. CASE UNCHANGED vars
    BY <1>18 DEF vars
<1> HIDE DEF Inv, Copies, Known, Types, InTime, Holds, Making, Births, OfSession, OfState, Time
<1> QED BY Outcomes, <1>1, <1>2, <1>3, <1>4, <1>5, <1>6, <1>7, <1>8, <1>9, <1>10, <1>11,
        <1>12, <1>13, <1>14, <1>15, <1>16, <1>17, <1>18 DEF Next

(* Copies that were short stay so, and new ones are. *)
LEMMA KeepsShort ==
    ASSUME Types, LoggingOut, now' >= now, now' \in Nat,
           \A q \in Requests : pc'[q] = "logout" => pc[q] = "logout" /\ job'[q] = job[q],
           \A i \in Instances, s \in Sessions :
               \/ cache'[i][s] = None
               \/ cache'[i][s] = cache[i][s]
               \/ cache'[i][s] = now' + CacheTtl
    PROVE  LoggingOut'
<1> SUFFICES ASSUME NEW r \in Requests, NEW s \in Sessions,
                    pc'[r] = "logout", job'[r].of = s, cache'[On[r]][s] # None
             PROVE  cache'[On[r]][s] <= now' + CacheTtl
  BY DEF LoggingOut
<1>1. On[r] \in Instances /\ CacheTtl \in Nat /\ now' + CacheTtl \in Nat
    BY LoginAssumption
<1>2. CASE cache'[On[r]][s] = now' + CacheTtl
    BY <1>1, <1>2
<1>3. CASE cache'[On[r]][s] = cache[On[r]][s]
  <2>1. cache[On[r]][s] <= now + CacheTtl
    BY <1>1, <1>3 DEF LoggingOut, Types
  <2>2. cache[On[r]][s] \in Nat
    BY <1>1, <1>3 DEF Types, Time
  <2> QED BY <1>1, <1>3, <2>1, <2>2 DEF Types
<1> QED BY <1>1, <1>2, <1>3

LEMMA LoggingOutStep ==
    ASSUME Inv, [Next]_vars
    PROVE  LoggingOut'
<1>0. Types /\ LoggingOut
    BY DEF Inv
<1>1. CASE Tick
    BY <1>0, <1>1, KeepsShort DEF Tick, store, history, Types
<1>2. ASSUME NEW t \in States, StartLogin(t) \/ CancelLogin(t) PROVE LoggingOut'
    BY <1>0, <1>2, KeepsShort DEF StartLogin, CancelLogin, Types
<1>3. ASSUME NEW i \in Instances, Restart(i) PROVE LoggingOut'
    BY <1>0, <1>3, KeepsShort DEF Restart, Types
<1>4. ASSUME NEW r \in Requests, NEW t \in States, FindTransaction(r, t) PROVE LoggingOut'
    BY <1>0, <1>4, KeepsShort DEF FindTransaction, Begin, Types, store
<1>5. ASSUME NEW r \in Requests, NEW s \in Sessions, CreateSession(r, s) PROVE LoggingOut'
    BY <1>0, <1>5, KeepsShort DEF CreateSession, Goto, Types
<1>6. ASSUME NEW r \in Requests, NEW s \in Sessions, LookUp(r, s) PROVE LoggingOut'
    BY <1>0, <1>6, LoginAssumption, KeepsShort DEF LookUp, Begin, Types, Invalidated
<1>7. ASSUME NEW r \in Requests, NEW s \in Sessions, Logout(r, s) PROVE LoggingOut'
  <2>1. pc' = [pc EXCEPT ![r] = "logout"] /\ job'[r].of = s /\ cache'[On[r]][s] = None
        /\ now' = now
        /\ \A i \in Instances, u \in Sessions : cache'[i][u] \in {None, cache[i][u]}
        /\ \A q \in Requests : q # r => job'[q] = job[q]
    BY <1>0, <1>7, LoginAssumption DEF Logout, Begin, Types, Invalidated
  <2>2. \A q \in Requests : q # r => pc'[q] = pc[q]
    BY <2>1
  <2>3. ASSUME NEW q \in Requests, NEW u \in Sessions,
               pc'[q] = "logout", job'[q].of = u, cache'[On[q]][u] # None
        PROVE  cache'[On[q]][u] <= now' + CacheTtl
    <3>1. q # r \/ u # s
      BY <2>1, <2>3
    <3>2. q # r
      BY <2>1, <2>3, <3>1
    <3>3. On[q] \in Instances /\ cache'[On[q]][u] = cache[On[q]][u]
      BY <2>1, <2>3, LoginAssumption
    <3> QED BY <1>0, <2>1, <2>2, <2>3, <3>2, <3>3 DEF LoggingOut
  <2> QED BY <2>3 DEF LoggingOut
<1>8. ASSUME NEW r \in Requests, Takes(r) \/ Passes(r) \/ FindSession(r) PROVE LoggingOut'
    BY <1>0, <1>8, KeepsShort DEF Takes, Passes, FindSession, Goto, Types, store
<1>9. ASSUME NEW r \in Requests, CacheCreated(r) PROVE LoggingOut'
  <2>1. now' = now /\ \A q \in Requests : pc'[q] = "logout" => pc[q] = "logout" /\ job'[q] = job[q]
    BY <1>0, <1>9 DEF CacheCreated, End, Types
  <2>2. \A i \in Instances, u \in Sessions : u # job[r].of => cache'[i][u] = cache[i][u]
    BY <1>0, <1>9, LoginAssumption DEF CacheCreated, Cached, Types
  <2>3. \A q \in Requests : pc[q] = "logout" => job[q].of # job[r].of
    BY <1>9, GivenOnly DEF Inv, Holds, Making, CacheCreated, Known, OfSession
  <2> QED BY <1>0, <2>1, <2>2, <2>3, LoginAssumption DEF LoggingOut, Types
<1>10. ASSUME NEW r \in Requests, Outlived(r) PROVE LoggingOut'
    BY <1>0, <1>10, LoginAssumption, KeepsShort DEF Outlived, Goto, Types, Invalidated
<1>11. ASSUME NEW r \in Requests, Caches(r) PROVE LoggingOut'
    BY <1>0, <1>11, LoginAssumption, KeepsShort DEF Caches, End, Types, Cached, CacheUntil
<1>12. ASSUME NEW r \in Requests, PurgeSession(r) \/ DeleteSession(r) \/ Fail(r) PROVE LoggingOut'
    BY <1>0, <1>12, KeepsShort DEF PurgeSession, DeleteSession, Fail, End, Types, store
<1>13. CASE UNCHANGED vars
    BY <1>0, <1>13 DEF vars, LoggingOut
<1> QED BY Outcomes, <1>1, <1>2, <1>3, <1>4, <1>5, <1>6, <1>7, <1>8, <1>9, <1>10, <1>11,
        <1>12, <1>13 DEF Next

LEMMA LoggedOutAfterLookup ==
    ASSUME Inv, NEW r \in Requests, Caches(r)
    PROVE  LoggedOut'
<1> DEFINE s == job[r].of
<1>1. /\ Types /\ Holds /\ pc[r] = "found" /\ InTime /\ LoggedOut
      /\ s \in Sessions /\ job[r].expiresAt # None
    BY DEF Inv, Caches, Types, OfSession
<1>2. now' = now /\ \A i \in Instances, u \in Sessions :
         cache'[i][u] = IF i = On[r] /\ u = s THEN now + CacheTtl ELSE cache[i][u]
  BY <1>1, LoginAssumption DEF Caches, Cached, CacheUntil, Types
<1>3. ended[s] # None => now + CacheTtl <= ended[s].at + Latency + CacheTtl
   <2>1. ended[s] # None => since[r] <= ended[s].at /\ ended[s] \in Ends
     BY <1>1 DEF LoggedOut, Types
   <2>2. now <= since[r] + Latency
     BY <1>1 DEF InTime
   <2> QED BY <2>1, <2>2, <1>1, LoginAssumption DEF Types, Ends
<1>4. \A q \in Requests : pc'[q] = "found" =>
        pc[q] = "found" /\ job'[q] = job[q] /\ since'[q] = since[q]
    BY <1>1 DEF Caches, End, Types
<1>5. UNCHANGED <<ended, born, rows>>
    BY DEF Caches, history
<1> HIDE DEF s
<1> QED BY <1>1, <1>2, <1>3, <1>4, <1>5 DEF LoggedOut, Known

(* A lookup that began before the logout is the last to cache the session. *)
LEMMA LoggedOutStep ==
    ASSUME Inv, [Next]_vars
    PROVE  LoggedOut'
<1> USE LoginAssumption DEF Inv, LoggedOut, Types, InTime, Holds, Making, Copies,
        LoggingOut, Known, Births, Ends, Time, OfSession, OfState
<1>1. CASE Tick
    BY <1>1 DEF Tick, store, history
<1>2. ASSUME NEW t \in States, StartLogin(t) PROVE LoggedOut'
    BY <1>2 DEF StartLogin, store, history
<1>3. ASSUME NEW t \in States, CancelLogin(t) PROVE LoggedOut'
    BY <1>3 DEF CancelLogin, store, history
<1>4. ASSUME NEW i \in Instances, Restart(i) PROVE LoggedOut'
    BY <1>4 DEF Restart, store, history
<1>5. ASSUME NEW r \in Requests, NEW t \in States, FindTransaction(r, t) PROVE LoggedOut'
    BY <1>5 DEF FindTransaction, Begin, store, history
<1>6. ASSUME NEW r \in Requests, NEW s \in Sessions, CreateSession(r, s) PROVE LoggedOut'
    BY <1>6 DEF CreateSession, Goto, store, history
<1>7. ASSUME NEW r \in Requests, NEW s \in Sessions, LookUp(r, s) PROVE LoggedOut'
    BY <1>7 DEF LookUp, Begin, Invalidated, store, history
<1>8. ASSUME NEW r \in Requests, NEW s \in Sessions, Logout(r, s) PROVE LoggedOut'
    BY <1>8 DEF Logout, Begin, Invalidated, store, history
<1>9. ASSUME NEW r \in Requests, Takes(r) PROVE LoggedOut'
    BY <1>9 DEF Takes, Goto, store, history
<1>10. ASSUME NEW r \in Requests, Passes(r) PROVE LoggedOut'
    BY <1>10 DEF Passes, Goto, store, history
<1>11. ASSUME NEW r \in Requests, CacheCreated(r) PROVE LoggedOut'
    BY <1>11 DEF CacheCreated, End, Cached, CacheUntil, store, history
<1>12. ASSUME NEW r \in Requests, FindSession(r) PROVE LoggedOut'
    BY <1>12 DEF FindSession, Goto, store, history
<1>13. ASSUME NEW r \in Requests, Outlived(r) PROVE LoggedOut'
    BY <1>13 DEF Outlived, Goto, Invalidated, store, history
<1>14. ASSUME NEW r \in Requests, Caches(r) PROVE LoggedOut'
    BY <1>14, LoggedOutAfterLookup
<1>15. ASSUME NEW r \in Requests, PurgeSession(r) PROVE LoggedOut'
    BY <1>15 DEF PurgeSession, End, store, history
<1>16. ASSUME NEW r \in Requests, DeleteSession(r) PROVE LoggedOut'
    BY <1>16 DEF DeleteSession, End, store, history
<1>17. ASSUME NEW r \in Requests, Fail(r) PROVE LoggedOut'
    BY <1>17 DEF Fail, End, store, history
<1>18. CASE UNCHANGED vars
    BY <1>18 DEF vars
<1> HIDE DEF Inv, LoggedOut, Types, InTime, Holds, Making, Copies, LoggingOut, Known,
        Births, Ends, Time, OfSession, OfState
<1> QED BY Outcomes, <1>1, <1>2, <1>3, <1>4, <1>5, <1>6, <1>7, <1>8, <1>9, <1>10, <1>11,
        <1>12, <1>13, <1>14, <1>15, <1>16, <1>17, <1>18 DEF Next

-----------------------------------------------------------------------------
(* The theorems. *)

LEMMA InvInit == Init => Inv
BY LoginAssumption DEF Init, Inv, Types, OnePlace, InTime, Holds, Copies, LoggingOut, LoggedOut,
    Time, Births, Ends, OfState, OfSession, NoJob, Claims, Came, Making

(* The invariant in every reachable state. *)
THEOREM Invariance == Spec => []Inv
<1>1. Inv /\ [Next]_vars => Inv'
    BY TypesStep, OnePlaceStep, InTimeStep, HoldsStep, CopiesStep, LoggingOutStep,
        LoggedOutStep DEF Inv
<1> QED BY InvInit, <1>1, PTL DEF Spec

(* However often, wherever and in whatever order callbacks come: a state    *)
(* gives one session at most, and none once its login was cancelled.        *)
THEOREM StateGivesOneSession == Spec => []StateUsedOnce
<1>1. Inv => StateUsedOnce
  <2> SUFFICES ASSUME Inv, NEW s1 \in Sessions, born[s1] # None
               PROVE  /\ born[s1].state \notin cancelled
                      /\ \A s2 \in Sessions :
                            born[s2] # None /\ born[s2].state = born[s1].state => s1 = s2
    BY DEF StateUsedOnce
  <2>1. born[s1].state \in States /\ Came(s1, born[s1].state)
    BY DEF Inv, Types, Births, Came
  <2> QED BY <2>1 DEF Inv, OnePlace, Came
<1> QED BY <1>1, Invariance, PTL

(* No instance accepts a session for longer than the cache's TTL after it   *)
(* expired, the one of the login included.                                  *)
THEOREM ExpiryHolds == Spec => []ExpiryRespected
<1>1. Inv => ExpiryRespected
    BY LoginAssumption DEF Inv, Types, Births, Time, Copies, ExpiryRespected, Accepts, Expired
<1> QED BY <1>1, Invariance, PTL

(* After a logout every instance but that of the login, and that one too    *)
(* if it served the logout, stops accepting the session in time.            *)
THEOREM LogoutTakesEffect == Spec => []LogoutReaches
<1>1. Inv => LogoutReaches
    BY LoginAssumption DEF Inv, Types, Births, Ends, Time, LoggedOut, LogoutReaches,
            Accepts, Expired
<1> QED BY <1>1, Invariance, PTL

===============================================================================
