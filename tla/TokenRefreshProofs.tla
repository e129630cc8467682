--------------------------- MODULE TokenRefreshProofs --------------------------
(***************************************************************************)
(* Proofs about TokenRefresh for every set of calls and instances, every   *)
(* placement On and every bound, in five parts:                            *)
(*   FlightInv   a call that owns a flight is the one its map holds, which *)
(*               is what keeps a second one out (SingleFlight);            *)
(*   CasInv      types, and what a call knows of the row and of VK's       *)
(*               answer: why the compare-and-set suffices;                 *)
(*   DueInv      what a call can hand out had not expired when it looked;  *)
(*   RefreshInv  who may use up a refresh token, and that the stored one   *)
(*               is left used up only if the answer was lost or a login    *)
(*               kept it;                                                  *)
(*   LoginInv    that logins which bring a refresh token keep none.        *)
(* DueInv and RefreshInv rest on the first two, LoginInv on RefreshInv too.*)
(***************************************************************************)
EXTENDS TokenRefresh, TLAPS

(* The owner of a flight: from its registration to its own cleanup. *)
Owner(r) == pc[r] \in {"calling", "storing", "settled"}

FlightType ==
    /\ flight \in [Instances -> Requests \cup {None}]
    /\ pc \in [Requests -> {"idle", "read", "joined", "calling", "storing", "settled", "done"}]

(* An owner is the flight its instance has registered. *)
OwnersRegistered == \A r \in Requests : Owner(r) => flight[On[r]] = r

FlightInv == FlightType /\ OwnersRegistered

-----------------------------------------------------------------------------
LEMMA InitFlight == Init => FlightInv
BY ConstantsAssumption DEF Init, FlightInv, FlightType, OwnersRegistered, Owner

(* A step of r that neither starts nor ends a flight, and leaves no other  *)
(* owner behind, keeps the map true.                                       *)
LEMMA QuietStep ==
    ASSUME NEW r \in Requests, FlightInv, flight' = flight,
           NEW there \in {"idle", "read", "joined", "calling", "storing", "settled", "done"},
           Goto(r, there), Owner(r) \/ ~(there \in {"calling", "storing", "settled"})
    PROVE  FlightInv'
BY ConstantsAssumption DEF FlightInv, FlightType, OwnersRegistered, Owner, Goto

LEMMA StepKeepsFlight ==
    ASSUME NEW r \in Requests, FlightInv, Step(r)
    PROVE  FlightInv'
<1>1. CASE ReadCredentials(r)
  BY <1>1, QuietStep DEF ReadCredentials
<1>2. CASE UseStored(r)
  BY <1>2, QuietStep DEF UseStored, End
<1>3. CASE JoinFlight(r)
  BY <1>3, QuietStep DEF JoinFlight
<1>4. CASE StartFlight(r)
  <2>1. /\ flight[On[r]] = None
        /\ flight' = [flight EXCEPT ![On[r]] = r]
        /\ pc' = [pc EXCEPT ![r] = "calling"]
    BY <1>4 DEF StartFlight, InFlight, Goto
  <2>2. FlightType'
    BY <2>1 DEF FlightInv, FlightType
  <2>3. ASSUME NEW s \in Requests, Owner(s)'
        PROVE  flight'[On[s]] = s
    <3>1. CASE s = r
      BY <3>1, <2>1, ConstantsAssumption DEF FlightInv, FlightType
    <3>2. CASE s # r
      <4>1. Owner(s) /\ flight[On[s]] = s
        BY <3>2, <2>1, <2>3 DEF Owner, FlightInv, FlightType, OwnersRegistered
      <4>2. On[s] # On[r]
        BY <4>1, <2>1, ConstantsAssumption
      <4> QED BY <4>1, <4>2, <2>1, ConstantsAssumption DEF FlightInv, FlightType
    <3> QED BY <3>1, <3>2
  <2> QED BY <2>2, <2>3 DEF FlightInv, OwnersRegistered
<1>5. CASE CallVk(r)
  <2>1. CASE VkAccepts(r)
    BY <2>1, QuietStep DEF VkAccepts, Owner
  <2>2. CASE AnswerUnused(r) \/ VkRefuses(r) \/ VkUnreachable(r)
    BY <2>2, QuietStep DEF AnswerUnused, VkRefuses, VkUnreachable, Owner
  <2> QED BY <1>5, <2>1, <2>2 DEF CallVk
<1>6. CASE StoreRefreshed(r)
  BY <1>6, QuietStep DEF StoreRefreshed, Owner
<1>7. CASE Cleanup(r)
  <2>1. /\ flight' = [flight EXCEPT ![On[r]] = IF flight[On[r]] = r THEN None ELSE flight[On[r]]]
        /\ pc' = [pc EXCEPT ![r] = "done"]
    BY <1>7 DEF Cleanup, Unregistered, Goto
  <2>2. FlightType'
    BY <2>1, ConstantsAssumption DEF FlightInv, FlightType
  <2>3. ASSUME NEW s \in Requests, Owner(s)'
        PROVE  flight'[On[s]] = s
    <3>1. s # r /\ Owner(s) /\ flight[On[s]] = s
      BY <2>1, <2>3 DEF Owner, FlightInv, FlightType, OwnersRegistered
    <3> QED BY <3>1, <2>1, ConstantsAssumption DEF FlightInv, FlightType
  <2> QED BY <2>2, <2>3 DEF FlightInv, OwnersRegistered
<1>8. CASE FinishJoined(r)
  BY <1>8, QuietStep DEF FinishJoined, End
<1> QED BY <1>1, <1>2, <1>3, <1>4, <1>5, <1>6, <1>7, <1>8 DEF Step

LEMMA RestartKeepsFlight ==
    ASSUME NEW i \in Instances, FlightInv, Restart(i)
    PROVE  FlightInv'
<1>1. /\ flight' = [flight EXCEPT ![i] = None]
      /\ pc' = [r \in Requests |-> IF r \in Interrupted(i) THEN "done" ELSE pc[r]]
  BY DEF Restart
<1>2. FlightType'
  BY <1>1 DEF FlightInv, FlightType
<1>3. ASSUME NEW s \in Requests, Owner(s)'
      PROVE  flight'[On[s]] = s
  <2>1. s \notin Interrupted(i) /\ Owner(s)
    BY <1>1, <1>3 DEF Owner
  <2>2. On[s] # i
    BY <2>1 DEF Interrupted, Owner
  <2> QED BY <2>1, <2>2, <1>1, ConstantsAssumption
          DEF FlightInv, FlightType, OwnersRegistered
<1> QED BY <1>2, <1>3 DEF FlightInv, OwnersRegistered

LEMMA NextKeepsFlight == FlightInv /\ [Next]_vars => FlightInv'
<1> SUFFICES ASSUME FlightInv, [Next]_vars PROVE FlightInv'
  OBVIOUS
<1>1. ASSUME NEW r \in Requests, Step(r) PROVE FlightInv'
  BY <1>1, StepKeepsFlight
<1>2. ASSUME NEW i \in Instances, Restart(i) PROVE FlightInv'
  BY <1>2, RestartKeepsFlight
<1>3. CASE Login \/ Expire \/ UNCHANGED vars
  BY <1>3 DEF Login, Expire, vars, FlightInv, FlightType, OwnersRegistered, Owner
<1> QED BY <1>1, <1>2, <1>3 DEF Next

(* Two owners on one instance would both be its registered flight. *)
LEMMA FlightIsSingle == FlightInv => SingleFlight
BY DEF FlightInv, OwnersRegistered, Owner, SingleFlight, Refreshing

(* Whatever calls join, fail, log in or restart, an instance never has two *)
(* refreshes of the user under way: getOrRefreshUserToken's mutex.         *)
THEOREM SingleFlightHolds == Spec => []SingleFlight
<1>1. Init => FlightInv BY InitFlight
<1>2. FlightInv /\ [Next]_vars => FlightInv' BY NextKeepsFlight
<1>3. FlightInv => SingleFlight BY FlightIsSingle
<1> QED BY <1>1, <1>2, <1>3, PTL DEF Spec
-----------------------------------------------------------------------------
(* Type correctness and the compare-and-set.  A call is described by what   *)
(* it knows: the row it read is not newer than the stored one, and is the   *)
(* stored one, up to its expiry, if it has the same updatedAt; VK's answer  *)
(* was made from the refresh token it read.                                 *)

ReadsStored(r) ==
    pc[r] # "idle" =>
        /\ read[r] \in Rows
        /\ read[r].updatedAt <= cred.updatedAt
        /\ read[r].updatedAt = cred.updatedAt => read[r].refresh = cred.refresh

HasRefreshToken(r) == pc[r] \in {"calling", "storing"} => read[r].refresh \in Grants

AwaitsOwner(r) == pc[r] = "joined" => joined[r] \in Requests

AnswersRead(r) ==
    pc[r] = "storing" =>
        /\ reply[r] \in Replies
        /\ reply[r].access <= issued
        /\ from[reply[r].access] = read[r].refresh

CallInv(r) == ReadsStored(r) /\ HasRefreshToken(r) /\ AwaitsOwner(r) /\ AnswersRead(r)

CasInv == TypeOK /\ \A r \in Requests : CallInv(r)
LEMMA InitCas == Init => CasInv
<1> SUFFICES ASSUME Init PROVE CasInv
  OBVIOUS
<1>1. TypeOK
  BY ConstantsAssumption DEF Init, TypeOK, Rows, Grants, Pending
<1>2. ASSUME NEW r \in Requests PROVE CallInv(r)
  BY DEF Init, CallInv, ReadsStored, HasRefreshToken, AwaitsOwner, AnswersRead
<1> QED BY <1>1, <1>2 DEF CasInv

(* What VK and the row do meanwhile does not touch what a call knows: the  *)
(* row is written under a new updatedAt, grants keep their origin.         *)
LEMMA CallKeeps ==
    ASSUME NEW s \in Requests, CasInv,
           pc'[s] = pc[s], read'[s] = read[s], joined'[s] = joined[s], reply'[s] = reply[s],
           \/ cred' = cred
           \/ cred'.updatedAt = cred.updatedAt + 1
           \/ cred'.updatedAt = cred.updatedAt /\ cred'.refresh = cred.refresh,
           issued' \in Grants, issued <= issued',
           \A n \in Grants : n <= issued => from'[n] = from[n]
    PROVE  CallInv(s)'
<1>1. CallInv(s) /\ cred \in Rows /\ issued \in Grants
  BY DEF CasInv, TypeOK
<1>2. ReadsStored(s)'
  BY <1>1 DEF CallInv, ReadsStored, Rows
<1>3. HasRefreshToken(s)' /\ AwaitsOwner(s)'
  BY <1>1 DEF CallInv, HasRefreshToken, AwaitsOwner
<1>4. AnswersRead(s)'
  BY <1>1, ConstantsAssumption DEF CallInv, AnswersRead, Replies, Grants
<1> QED BY <1>2, <1>3, <1>4 DEF CallInv

(* A step of call r is right when types and r itself are, the other calls  *)
(* keeping what they know.                                                 *)
LEMMA CallStep ==
    ASSUME NEW r \in Requests, CasInv, TypeOK', CallInv(r)',
           \A s \in Requests \ {r} : /\ pc'[s] = pc[s] /\ read'[s] = read[s]
                                     /\ joined'[s] = joined[s] /\ reply'[s] = reply[s],
           cred' = cred \/ cred'.updatedAt = cred.updatedAt + 1,
           issued <= issued',
           \A n \in Grants : n <= issued => from'[n] = from[n]
    PROVE  CasInv'
<1>1. issued' \in Grants BY DEF TypeOK
<1>2. ASSUME NEW s \in Requests PROVE CallInv(s)'
  BY <1>1, CallKeeps
<1> QED BY <1>2 DEF CasInv

LEMMA QuietCallStep ==
    ASSUME NEW r \in Requests, CasInv, TypeOK', CallInv(r)',
           \A s \in Requests \ {r} : /\ pc'[s] = pc[s] /\ read'[s] = read[s]
                                     /\ joined'[s] = joined[s] /\ reply'[s] = reply[s],
           UNCHANGED <<cred, issued, from>>
    PROVE  CasInv'
<1>1. issued <= issued' BY DEF CasInv, TypeOK, Grants
<1> QED BY <1>1, CallStep

LEMMA StepKeepsCas ==
    ASSUME NEW r \in Requests, CasInv, Step(r)
    PROVE  CasInv'
<1> USE ConstantsAssumption
<1>0. TypeOK /\ CallInv(r) BY DEF CasInv
<1>1. CASE ReadCredentials(r)
  <2>1. TypeOK'
    BY <1>0, <1>1 DEF ReadCredentials, Goto, TypeOK, vk
  <2>2. CallInv(r)'
    BY <1>0, <1>1 DEF ReadCredentials, Goto, TypeOK, CallInv, ReadsStored, HasRefreshToken,
       AwaitsOwner, AnswersRead, Rows
  <2>8. \A s \in Requests \ {r} : /\ pc'[s] = pc[s] /\ read'[s] = read[s]
                                  /\ joined'[s] = joined[s] /\ reply'[s] = reply[s]
    BY <1>0, <1>1 DEF ReadCredentials, Goto, TypeOK
  <2>9. UNCHANGED <<cred, issued, from>>
    BY <1>1 DEF ReadCredentials, vk
  <2> QED BY <2>1, <2>2, <2>8, <2>9, QuietCallStep
<1>2. CASE UseStored(r)
  <2>1. TypeOK'
    <3>1. PICK outcome \in {Reauth} \cup {Token(n) : n \in Grants} :
            pc' = [pc EXCEPT ![r] = "done"] /\ result' = [result EXCEPT ![r] = outcome]
      BY <1>0, <1>2 DEF UseStored, End, Goto, Result, CallInv, ReadsStored, Rows
    <3> QED BY <1>0, <1>2, <3>1 DEF UseStored, TypeOK, vk, history
  <2>2. CallInv(r)'
    BY <1>0, <1>2 DEF UseStored, End, Goto, TypeOK, CallInv, ReadsStored, HasRefreshToken,
       AwaitsOwner, AnswersRead
  <2>8. \A s \in Requests \ {r} : /\ pc'[s] = pc[s] /\ read'[s] = read[s]
                                  /\ joined'[s] = joined[s] /\ reply'[s] = reply[s]
    BY <1>0, <1>2 DEF UseStored, End, Goto, TypeOK
  <2>9. UNCHANGED <<cred, issued, from>>
    BY <1>2 DEF UseStored, vk
  <2> QED BY <2>1, <2>2, <2>8, <2>9, QuietCallStep
<1>3. CASE JoinFlight(r)
  <2>0. flight[On[r]] \in Requests
    BY <1>0, <1>3 DEF JoinFlight, InFlight, TypeOK
  <2>1. TypeOK'
    BY <1>0, <1>3, <2>0 DEF JoinFlight, Goto, TypeOK, vk, history
  <2>2. CallInv(r)'
    BY <1>0, <1>3, <2>0 DEF JoinFlight, MustRefresh, Goto, TypeOK, CallInv, ReadsStored,
       HasRefreshToken, AwaitsOwner, AnswersRead
  <2>8. \A s \in Requests \ {r} : /\ pc'[s] = pc[s] /\ read'[s] = read[s]
                                  /\ joined'[s] = joined[s] /\ reply'[s] = reply[s]
    BY <1>0, <1>3 DEF JoinFlight, Goto, TypeOK
  <2>9. UNCHANGED <<cred, issued, from>>
    BY <1>3 DEF JoinFlight, vk
  <2> QED BY <2>1, <2>2, <2>8, <2>9, QuietCallStep
<1>4. CASE StartFlight(r)
  <2>1. TypeOK'
    BY <1>0, <1>4 DEF StartFlight, Goto, TypeOK, vk, history
  <2>2. read[r].refresh \in Grants
    BY <1>0, <1>4 DEF StartFlight, MustRefresh, CallInv, ReadsStored, Rows, Grants
  <2>3. CallInv(r)'
    BY <1>0, <1>4, <2>2 DEF StartFlight, MustRefresh, Goto, TypeOK, CallInv, ReadsStored,
       HasRefreshToken, AwaitsOwner, AnswersRead
  <2>8. \A s \in Requests \ {r} : /\ pc'[s] = pc[s] /\ read'[s] = read[s]
                                  /\ joined'[s] = joined[s] /\ reply'[s] = reply[s]
    BY <1>0, <1>4 DEF StartFlight, Goto, TypeOK
  <2>9. UNCHANGED <<cred, issued, from>>
    BY <1>4 DEF StartFlight, vk
  <2> QED BY <2>1, <2>3, <2>8, <2>9, QuietCallStep
<1>5. CASE VkAccepts(r)
  <2>1. PICK answer \in Replies :
          /\ answer.access = issued + 1
          /\ reply' = [reply EXCEPT ![r] = answer]
    <3>1. issued' \in Grants /\ issued' = issued + 1 /\ read[r].refresh \in Grants
      BY <1>0, <1>5 DEF VkAccepts, Issue, TypeOK, Grants, CallInv, HasRefreshToken
    <3> QED BY <1>5, <3>1 DEF VkAccepts, Replies
  <2>2. /\ issued' \in Grants /\ issued' = issued + 1
        /\ from' = [from EXCEPT ![issued + 1] = read[r].refresh]
        /\ alive' \subseteq Grants /\ read[r].refresh \in Grants
    <3>1. read[r].refresh \in Grants
      BY <1>0, <1>5 DEF VkAccepts, CallInv, HasRefreshToken
    <3>2. issued' \in Grants /\ issued' = issued + 1
      BY <1>0, <1>5 DEF VkAccepts, Issue, TypeOK, Grants
    <3>3. alive' \subseteq Grants
      BY <1>0, <1>5, <3>2 DEF VkAccepts, Issue, TypeOK
    <3> QED BY <1>5, <3>1, <3>2, <3>3 DEF VkAccepts, Issue
  <2>3. pc' = [pc EXCEPT ![r] = "storing"]
    BY <1>5 DEF VkAccepts, Goto
  <2>4. TypeOK'
    BY <1>0, <1>5, <2>1, <2>2, <2>3 DEF VkAccepts, TypeOK, history, Grants
  <2>5. CallInv(r)'
    BY <1>0, <1>5, <2>1, <2>2, <2>3 DEF VkAccepts, TypeOK, history, CallInv, ReadsStored,
       HasRefreshToken, AwaitsOwner, AnswersRead, Grants
  <2>6. \A n \in Grants : n <= issued => from'[n] = from[n]
    BY <1>0, <2>2 DEF TypeOK, Grants
  <2>7. issued <= issued' BY <1>0, <2>2 DEF TypeOK, Grants
  <2>8. \A s \in Requests \ {r} : /\ pc'[s] = pc[s] /\ read'[s] = read[s]
                                  /\ joined'[s] = joined[s] /\ reply'[s] = reply[s]
    BY <1>0, <1>5, <2>1, <2>3 DEF VkAccepts, TypeOK
  <2>9. cred' = cred BY <1>5 DEF VkAccepts
  <2> QED BY <2>4, <2>5, <2>6, <2>7, <2>8, <2>9, CallStep
<1>6. CASE AnswerUnused(r)
  <2>1. /\ issued' \in Grants /\ issued' = issued + 1
        /\ from' = [from EXCEPT ![issued + 1] = read[r].refresh]
        /\ alive' \subseteq Grants /\ read[r].refresh \in Grants
    <3>1. read[r].refresh \in Grants
      BY <1>0, <1>6 DEF AnswerUnused, CallInv, HasRefreshToken
    <3>2. issued' \in Grants /\ issued' = issued + 1
      BY <1>0, <1>6 DEF AnswerUnused, Issue, TypeOK, Grants
    <3>3. alive' \subseteq Grants
      BY <1>0, <1>6, <3>2 DEF AnswerUnused, Issue, TypeOK
    <3> QED BY <1>6, <3>1, <3>2, <3>3 DEF AnswerUnused, Issue
  <2>2. pc' = [pc EXCEPT ![r] = "settled"]
    BY <1>6 DEF AnswerUnused, Goto
  <2>3. PICK outcome \in {Failed, Reauth} : result' = [result EXCEPT ![r] = outcome]
    BY <1>6 DEF AnswerUnused, Result
  <2>4. TypeOK'
    <3>1. dropped' \subseteq Grants
      BY <1>0, <1>6, <2>1 DEF AnswerUnused, TypeOK
    <3>2. from' \in [Grants -> 0..MaxGrants]
      BY <1>0, <2>1 DEF TypeOK, Grants
    <3>3. /\ pc' \in [Requests -> {"idle", "read", "joined", "calling", "storing",
                                    "settled", "done"}]
          /\ result' \in [Requests -> {Pending, Reauth, Failed} \cup {Token(n) : n \in Grants}]
      BY <1>0, <2>2, <2>3 DEF TypeOK
    <3>4. UNCHANGED <<cred, flight, read, joined, reply, rotates, logins, due, dueAtRead>>
      BY <1>6 DEF AnswerUnused
    <3> QED BY <1>0, <2>1, <3>1, <3>2, <3>3, <3>4 DEF TypeOK
  <2>5. CallInv(r)'
    BY <1>0, <1>6, <2>2 DEF AnswerUnused, TypeOK, CallInv, ReadsStored,
       HasRefreshToken, AwaitsOwner, AnswersRead
  <2>6. \A n \in Grants : n <= issued => from'[n] = from[n]
    BY <1>0, <2>1 DEF TypeOK, Grants
  <2>7. issued <= issued' BY <1>0, <2>1 DEF TypeOK, Grants
  <2>8. \A s \in Requests \ {r} : /\ pc'[s] = pc[s] /\ read'[s] = read[s]
                                  /\ joined'[s] = joined[s] /\ reply'[s] = reply[s]
    BY <1>0, <1>6, <2>2 DEF AnswerUnused, TypeOK
  <2>9. cred' = cred BY <1>6 DEF AnswerUnused
  <2> QED BY <2>4, <2>5, <2>6, <2>7, <2>8, <2>9, CallStep
<1>7. CASE VkRefuses(r) \/ VkUnreachable(r)
  <2>1. PICK outcome \in {Failed, Reauth} :
          pc' = [pc EXCEPT ![r] = "settled"] /\ result' = [result EXCEPT ![r] = outcome]
    BY <1>7 DEF VkRefuses, VkUnreachable, Goto, Result
  <2>2. UNCHANGED <<cred, flight, read, joined, reply, vk, history>> /\ pc[r] = "calling"
    BY <1>7 DEF VkRefuses, VkUnreachable
  <2>3. TypeOK'
    BY <1>0, <2>1, <2>2 DEF TypeOK, vk, history
  <2>4. CallInv(r)'
    BY <1>0, <2>1, <2>2 DEF TypeOK, CallInv, ReadsStored, HasRefreshToken, AwaitsOwner,
       AnswersRead
  <2>8. \A s \in Requests \ {r} : /\ pc'[s] = pc[s] /\ read'[s] = read[s]
                                  /\ joined'[s] = joined[s] /\ reply'[s] = reply[s]
    BY <1>0, <2>1, <2>2 DEF TypeOK
  <2>9. UNCHANGED <<cred, issued, from>>
    BY <2>2 DEF vk
  <2> QED BY <2>3, <2>4, <2>8, <2>9, QuietCallStep
<1>8. CASE StoreRefreshed(r)
  <2>1. reply[r] \in Replies /\ read[r] \in Rows
    BY <1>0, <1>8 DEF StoreRefreshed, CallInv, ReadsStored, AnswersRead
  <2>2. cred' \in Rows /\ (cred' = cred \/ cred'.updatedAt = cred.updatedAt + 1)
    BY <1>0, <1>8, <2>1 DEF StoreRefreshed, NewRefreshToken, TypeOK, Rows, Replies, Grants
  <2>3. /\ pc' = [pc EXCEPT ![r] = "settled"]
        /\ result' = [result EXCEPT ![r] = Token(reply[r].access)]
        /\ UNCHANGED <<flight, read, joined, reply, vk, history>>
    BY <1>8 DEF StoreRefreshed, Goto, Result
  <2>4. TypeOK'
    BY <1>0, <2>1, <2>2, <2>3 DEF TypeOK, vk, history, Replies
  <2>5. CallInv(r)'
    BY <1>0, <1>8, <2>2, <2>3 DEF StoreRefreshed, TypeOK, CallInv, ReadsStored, HasRefreshToken,
       AwaitsOwner, AnswersRead, Rows
  <2> QED BY <1>0, <2>2, <2>3, <2>4, <2>5, CallStep, SMTT(20)
           DEF TypeOK, vk, Grants
<1>9. CASE Cleanup(r)
  <2>1. /\ flight' \in [Instances -> Requests \cup {None}]
        /\ pc' = [pc EXCEPT ![r] = "done"]
        /\ UNCHANGED <<cred, read, joined, reply, result, vk, history>>
    BY <1>0, <1>9 DEF Cleanup, Unregistered, Goto, TypeOK
  <2>2. TypeOK'
    BY <1>0, <2>1 DEF TypeOK, vk, history
  <2>3. CallInv(r)'
    BY <1>0, <1>9, <2>1 DEF Cleanup, TypeOK, CallInv, ReadsStored, HasRefreshToken, AwaitsOwner,
       AnswersRead
  <2>8. \A s \in Requests \ {r} : /\ pc'[s] = pc[s] /\ read'[s] = read[s]
                                  /\ joined'[s] = joined[s] /\ reply'[s] = reply[s]
    BY <1>0, <2>1 DEF TypeOK
  <2>9. UNCHANGED <<cred, issued, from>>
    BY <2>1 DEF vk
  <2> QED BY <2>2, <2>3, <2>8, <2>9, QuietCallStep
<1>10. CASE FinishJoined(r)
  <2>1. /\ pc' = [pc EXCEPT ![r] = "done"]
        /\ result' = [result EXCEPT ![r] = result[joined[r]]]
        /\ UNCHANGED <<cred, flight, read, joined, reply, vk, history>>
        /\ joined[r] \in Requests
    BY <1>0, <1>10 DEF FinishJoined, End, Goto, Result, CallInv, AwaitsOwner
  <2>2. TypeOK'
    BY <1>0, <2>1 DEF TypeOK, vk, history
  <2>3. CallInv(r)'
    BY <1>0, <1>10, <2>1 DEF FinishJoined, TypeOK, CallInv, ReadsStored, HasRefreshToken,
       AwaitsOwner, AnswersRead
  <2>8. \A s \in Requests \ {r} : /\ pc'[s] = pc[s] /\ read'[s] = read[s]
                                  /\ joined'[s] = joined[s] /\ reply'[s] = reply[s]
    BY <1>0, <2>1 DEF TypeOK
  <2>9. UNCHANGED <<cred, issued, from>>
    BY <2>1 DEF vk
  <2> QED BY <2>2, <2>3, <2>8, <2>9, QuietCallStep
<1> QED BY <1>1, <1>2, <1>3, <1>4, <1>5, <1>6, <1>7, <1>8, <1>9, <1>10 DEF Step, CallVk
LEMMA LoginKeepsCas == CasInv /\ Login => CasInv'
<1> SUFFICES ASSUME CasInv, Login PROVE CasInv'
  OBVIOUS
<1> USE ConstantsAssumption
<1>0. TypeOK BY DEF CasInv
<1>1. /\ issued' \in Grants /\ issued' = issued + 1 /\ issued <= issued'
      /\ logins' \in 0..MaxLogins
  BY <1>0 DEF Login, TypeOK, Grants
<1>2. /\ cred' \in Rows /\ cred'.updatedAt = cred.updatedAt + 1
      /\ alive' \subseteq Grants /\ due' \subseteq Grants
  BY <1>0, <1>1 DEF Login, Upserted, TypeOK, Rows, Grants
<1>3. UNCHANGED <<flight, pc, read, joined, reply, result, rotates, from, dropped, dueAtRead>>
  BY DEF Login
<1>4. TypeOK'
  BY <1>0, <1>1, <1>2, <1>3 DEF TypeOK
<1>5. ASSUME NEW s \in Requests PROVE CallInv(s)'
  BY <1>1, <1>2, <1>3, CallKeeps
<1> QED BY <1>4, <1>5 DEF CasInv

LEMMA ExpireKeepsCas == CasInv /\ Expire => CasInv'
<1> SUFFICES ASSUME CasInv, Expire PROVE CasInv'
  OBVIOUS
<1>0. TypeOK BY DEF CasInv
<1>1. /\ cred' \in Rows /\ due' \subseteq Grants
      /\ cred'.updatedAt = cred.updatedAt /\ cred'.refresh = cred.refresh
  BY <1>0 DEF Expire, TypeOK, Rows
<1>2. UNCHANGED <<flight, pc, read, joined, reply, result, vk, logins, dropped, dueAtRead>>
  BY DEF Expire
<1>3. TypeOK'
  BY <1>0, <1>1, <1>2 DEF TypeOK, vk
<1>4. issued' \in Grants /\ issued <= issued' /\ from' = from
  BY <1>0, <1>2 DEF TypeOK, vk, Grants
<1>5. ASSUME NEW s \in Requests PROVE CallInv(s)'
  BY <1>1, <1>2, <1>4, CallKeeps
<1> QED BY <1>3, <1>5 DEF CasInv

LEMMA RestartKeepsCas ==
    ASSUME NEW i \in Instances, CasInv, Restart(i)
    PROVE  CasInv'
<1> USE ConstantsAssumption
<1>0. TypeOK BY DEF CasInv
<1>1. /\ flight' = [flight EXCEPT ![i] = None]
      /\ pc' = [r \in Requests |-> IF r \in Interrupted(i) THEN "done" ELSE pc[r]]
      /\ result' = [r \in Requests |-> IF r \in Interrupted(i) THEN Failed ELSE result[r]]
      /\ UNCHANGED <<cred, read, joined, reply, vk, logins, due, dueAtRead>>
  BY DEF Restart
<1>2. dropped' \subseteq Grants
  <2>1. \A r \in Requests : pc[r] = "storing" => read[r].refresh \in Grants
    BY DEF CasInv, CallInv, HasRefreshToken
  <2> QED BY <1>0, <2>1 DEF Restart, Interrupted, TypeOK
<1>3. TypeOK'
  <2>1. pc' \in [Requests -> {"idle", "read", "joined", "calling", "storing",
                              "settled", "done"}]
    BY <1>0, <1>1 DEF TypeOK
  <2>2. result' \in [Requests -> {Pending, Reauth, Failed} \cup {Token(n) : n \in Grants}]
    BY <1>0, <1>1 DEF TypeOK
  <2> QED BY <1>0, <1>1, <1>2, <2>1, <2>2 DEF TypeOK, vk
<1>4. ASSUME NEW s \in Requests PROVE CallInv(s)'
  <2>1. CASE s \notin Interrupted(i)
    <3>1. pc'[s] = pc[s] BY <1>1, <2>1
    <3>2. issued' \in Grants /\ issued <= issued' /\ from' = from
      BY <1>0, <1>1 DEF TypeOK, vk, Grants
    <3> QED BY <1>1, <3>1, <3>2, CallKeeps
  <2>2. CASE s \in Interrupted(i)
    <3>1. pc'[s] = "done" /\ pc[s] # "idle" /\ CallInv(s)
      BY <1>1, <2>2 DEF Interrupted, CasInv
    <3> QED BY <1>1, <3>1 DEF CallInv, ReadsStored, HasRefreshToken, AwaitsOwner, AnswersRead
  <2> QED BY <2>1, <2>2
<1> QED BY <1>3, <1>4 DEF CasInv

LEMMA NextKeepsCas == CasInv /\ [Next]_vars => CasInv'
<1> SUFFICES ASSUME CasInv, [Next]_vars PROVE CasInv'
  OBVIOUS
<1>1. ASSUME NEW r \in Requests, Step(r) PROVE CasInv'
  BY <1>1, StepKeepsCas
<1>2. ASSUME NEW i \in Instances, Restart(i) PROVE CasInv'
  BY <1>2, RestartKeepsCas
<1>3. CASE UNCHANGED vars
  <2>1. TypeOK'
    BY <1>3 DEF CasInv, TypeOK, vars, vk, history
  <2>2. issued' \in Grants /\ issued <= issued' /\ from' = from /\ cred' = cred
    BY <1>3 DEF CasInv, TypeOK, vars, vk, Grants
  <2>3. ASSUME NEW s \in Requests PROVE CallInv(s)'
    BY <1>3, <2>2, CallKeeps DEF vars
  <2> QED BY <2>1, <2>3 DEF CasInv
<1> QED BY <1>1, <1>2, <1>3, LoginKeepsCas, ExpireKeepsCas DEF Next

(* The row, the calls and VK's tokens keep their types, for any number of  *)
(* calls on any number of instances.                                       *)
THEOREM TypeCorrect == Spec => []TypeOK
<1>1. CasInv => TypeOK BY DEF CasInv
<1> QED BY <1>1, InitCas, NextKeepsCas, PTL DEF Spec

LEMMA StoreContinues ==
    ASSUME CasInv, Next, cred'.access # cred.access, logins' = logins
    PROVE  from[cred'.access] = cred.refresh
<1>0. TypeOK BY DEF CasInv
<1>1. ASSUME NEW r \in Requests, StoreRefreshed(r)
      PROVE  from[cred'.access] = cred.refresh
  <2>1. cred'.access = reply[r].access /\ read[r].updatedAt = cred.updatedAt
    BY <1>1 DEF StoreRefreshed, CredentialUnchanged
  <2>2. read[r].refresh = cred.refresh /\ from[reply[r].access] = read[r].refresh
    BY <1>1, <2>1 DEF StoreRefreshed, CasInv, CallInv, ReadsStored, AnswersRead
  <2> QED BY <2>1, <2>2
<1>2. ASSUME NEW r \in Requests, Step(r), ~StoreRefreshed(r)
      PROVE  cred' = cred
  BY <1>2 DEF Step, CallVk, ReadCredentials, UseStored, JoinFlight, StartFlight, VkAccepts,
     AnswerUnused, VkRefuses, VkUnreachable, Cleanup, FinishJoined
<1>3. ASSUME NEW i \in Instances, Restart(i) PROVE cred' = cred
  BY <1>3 DEF Restart
<1>4. Expire => cred'.access = cred.access
  BY DEF Expire
<1>5. Login => logins' # logins
  BY <1>0 DEF Login, TypeOK
<1> QED BY <1>1, <1>2, <1>3, <1>4, <1>5 DEF Next

(* updateCredentialConditionally keeps what it promises: however many      *)
(* refreshes and logins overlap, a refresh is stored only on top of the    *)
(* very credential it was made from.                                       *)
THEOREM RefreshNeverOverwritesNewer == Spec => RefreshContinuesStored
<1>1. CasInv /\ [Next]_vars =>
        [cred'.access # cred.access /\ logins' = logins => from[cred'.access] = cred.refresh]_vars
  BY StoreContinues
<1> QED BY <1>1, InitCas, NextKeepsCas, PTL DEF Spec, RefreshContinuesStored
-----------------------------------------------------------------------------
(* Tokens that have expired.  A call hands out what it read, what VK has   *)
(* answered, or what the owner of a flight ended with; none of these was   *)
(* known to have expired when the call read the row, because what expires  *)
(* later was not due then, and because a flight that can be joined has its *)
(* owner alive: what it ended with is no older than the call that joins.   *)

(* What the map holds is an owner, on the instance of the map. *)
RegisteredOwn ==
    \A i \in Instances, r \in Requests : flight[i] = r => Owner(r) /\ On[r] = i

(* What is due was issued, and a stored token that is due is not fresh. *)
StoredNotDue ==
    /\ due \subseteq 1..issued
    /\ cred.access <= issued
    /\ Fresh(cred) => cred.access \notin due

Undecided(r) == pc[r] \in {"idle", "read", "joined", "calling", "storing"}

NotDue(r) ==
    /\ dueAtRead[r] \subseteq due
    /\ Undecided(r) => result[r] = Pending
    /\ pc[r] = "read" /\ Fresh(read[r]) => read[r].access \notin dueAtRead[r]
    /\ pc[r] = "storing" => reply[r].access \notin due
    /\ pc[r] = "settled" => result[r].token <= issued /\ result[r].token \notin due
    /\ pc[r] = "done" => result[r].token \notin dueAtRead[r]

(* A call that joined a flight awaits an owner that began before, and ends *)
(* with what that owner ended with.                                        *)
AwaitsGood(r) ==
    pc[r] = "joined" =>
        /\ Owner(joined[r]) \/ pc[joined[r]] = "done"
        /\ result[joined[r]].token \notin dueAtRead[r]

DueInv ==
    /\ RegisteredOwn /\ StoredNotDue
    /\ \A r \in Requests : NotDue(r) /\ AwaitsGood(r)

LEMMA InitDue == Init => DueInv
<1> SUFFICES ASSUME Init PROVE DueInv
  OBVIOUS
<1>1. RegisteredOwn
  BY ConstantsAssumption DEF Init, RegisteredOwn
<1>2. StoredNotDue
  BY DEF Init, StoredNotDue, Fresh
<1>3. ASSUME NEW r \in Requests PROVE NotDue(r) /\ AwaitsGood(r)
  BY DEF Init, NotDue, AwaitsGood, Undecided
<1> QED BY <1>1, <1>2, <1>3 DEF DueInv

(* What the others know of expired tokens survives a step of r in which    *)
(* nothing falls due, if an owner stays one until it is done and ends with *)
(* a token that is not due.                                                *)
LEMMA OthersNotDue ==
    ASSUME NEW r \in Requests, CasInv, DueInv, TypeOK', NotDue(r)', AwaitsGood(r)',
           \A s \in Requests \ {r} :
               /\ pc'[s] = pc[s] /\ read'[s] = read[s] /\ joined'[s] = joined[s]
               /\ reply'[s] = reply[s] /\ result'[s] = result[s]
               /\ dueAtRead'[s] = dueAtRead[s],
           due' = due, issued <= issued',
           Owner(r) \/ pc[r] = "done" =>
               /\ Owner(r)' \/ pc'[r] = "done"
               /\ result'[r] = result[r] \/ result'[r].token \notin due
    PROVE  \A s \in Requests : NotDue(s)' /\ AwaitsGood(s)'
<1> SUFFICES ASSUME NEW s \in Requests, s # r PROVE NotDue(s)' /\ AwaitsGood(s)'
  OBVIOUS
<1>0. /\ pc'[s] = pc[s] /\ read'[s] = read[s] /\ joined'[s] = joined[s]
      /\ reply'[s] = reply[s] /\ result'[s] = result[s] /\ dueAtRead'[s] = dueAtRead[s]
  OBVIOUS
<1>1. NotDue(s) /\ AwaitsGood(s) /\ TypeOK /\ AwaitsOwner(s)
  BY DEF DueInv, CasInv, CallInv
<1>2. NotDue(s)'
  <2>1. ASSUME pc[s] = "settled" PROVE result[s].token <= issued'
    <3>1. result[s].token \in 0..MaxGrants /\ issued \in Nat /\ issued' \in Nat
      <4>1. result[s] \in {Pending, Reauth, Failed} \cup {Token(n) : n \in Grants}
        BY <1>1 DEF TypeOK
      <4> QED BY <4>1, <1>1, ConstantsAssumption
              DEF TypeOK, Pending, Reauth, Failed, Token, Grants
    <3>2. result[s].token <= issued BY <1>1, <2>1 DEF NotDue
    <3> QED BY <3>1, <3>2
  <2> QED BY <1>0, <1>1, <2>1 DEF NotDue, Undecided, Fresh
<1>3. AwaitsGood(s)'
  <2> SUFFICES ASSUME pc[s] = "joined"
               PROVE  /\ Owner(joined[s])' \/ pc'[joined[s]] = "done"
                      /\ result'[joined[s]].token \notin dueAtRead[s]
    BY <1>0 DEF AwaitsGood, Owner
  <2>1. /\ joined[s] \in Requests
        /\ Owner(joined[s]) \/ pc[joined[s]] = "done"
        /\ result[joined[s]].token \notin dueAtRead[s]
        /\ dueAtRead[s] \subseteq due
    BY <1>1 DEF AwaitsOwner, AwaitsGood, NotDue
  <2>2. CASE joined[s] = r
    BY <2>1, <2>2
  <2>3. CASE joined[s] # r
    BY <2>1, <2>3 DEF Owner
  <2> QED BY <2>2, <2>3
<1> QED BY <1>2, <1>3

(* The map, when a step of r leaves it alone. *)
LEMMA MapStays ==
    ASSUME NEW r \in Requests, RegisteredOwn, flight' = flight,
           \A s \in Requests \ {r} : pc'[s] = pc[s],
           Owner(r) => Owner(r)'
    PROVE  RegisteredOwn'
BY DEF RegisteredOwn, Owner

LEMMA StoredStays ==
    ASSUME StoredNotDue, UNCHANGED <<cred, due>>, issued <= issued',
           issued \in Nat, issued' \in Nat, cred.access \in Nat
    PROVE  StoredNotDue'
BY DEF StoredNotDue, Fresh

(* No outcome of a call without a token is a token. *)
LEMMA NoToken ==
    ASSUME TypeOK
    PROVE  \A r \in Requests : /\ 0 \notin dueAtRead[r] /\ 0 \notin due
                               /\ Pending.token = 0 /\ Reauth.token = 0 /\ Failed.token = 0
BY DEF TypeOK, Grants, Pending, Reauth, Failed

LEMMA StepKeepsDue ==
    ASSUME NEW r \in Requests, FlightInv, CasInv, TypeOK', DueInv, Step(r)
    PROVE  DueInv'
<1> USE ConstantsAssumption
<1>0. /\ TypeOK /\ CallInv(r) /\ NotDue(r) /\ AwaitsGood(r)
      /\ RegisteredOwn /\ StoredNotDue
      /\ 0 \notin due /\ 0 \notin dueAtRead[r]
      /\ issued \in Nat /\ cred.access \in Nat
  <2>1. TypeOK /\ CallInv(r) /\ NotDue(r) /\ AwaitsGood(r) /\ RegisteredOwn /\ StoredNotDue
    BY DEF CasInv, DueInv
  <2>2. issued \in Nat /\ cred.access \in Nat
    BY <2>1 DEF TypeOK, Rows, Grants
  <2> QED BY <2>1, <2>2, NoToken
<1>1. CASE ReadCredentials(r)
  <2>0. /\ pc[r] = "idle" /\ pc' = [pc EXCEPT ![r] = "read"]
        /\ read' = [read EXCEPT ![r] = cred]
        /\ dueAtRead' = [dueAtRead EXCEPT ![r] = due]
        /\ UNCHANGED <<cred, flight, joined, reply, result, vk, logins, due, dropped>>
    BY <1>1 DEF ReadCredentials, Goto
  <2>1. RegisteredOwn'
    BY <1>0, <2>0, MapStays DEF Owner, TypeOK
  <2>2. StoredNotDue'
    BY <1>0, <2>0 DEF StoredNotDue, Fresh, vk
  <2>3. NotDue(r)'
    BY <1>0, <2>0 DEF NotDue, Undecided, StoredNotDue, Fresh, TypeOK
  <2>4. AwaitsGood(r)'
    BY <1>0, <2>0 DEF AwaitsGood, TypeOK
  <2>5. \A s \in Requests : NotDue(s)' /\ AwaitsGood(s)'
    BY <1>0, <2>0, <2>3, <2>4, OthersNotDue DEF Owner, TypeOK, vk
  <2> QED BY <2>1, <2>2, <2>5 DEF DueInv
<1>2. CASE UseStored(r)
  <2>0. /\ pc[r] = "read" /\ pc' = [pc EXCEPT ![r] = "done"]
        /\ UNCHANGED <<cred, flight, read, joined, reply, vk, history>>
    BY <1>2 DEF UseStored, End, Goto
  <2>1. PICK outcome : /\ result' = [result EXCEPT ![r] = outcome]
                       /\ outcome.token \notin dueAtRead[r]
    <3>1. CASE Fresh(read[r]) /\ End(r, Token(read[r].access))
      <4>1. result' = [result EXCEPT ![r] = Token(read[r].access)]
        BY <3>1 DEF End, Result
      <4>2. Token(read[r].access).token \notin dueAtRead[r]
        BY <1>0, <2>0, <3>1 DEF Token, NotDue
      <4> QED BY <4>1, <4>2
    <3>2. CASE ~Fresh(read[r]) /\ read[r].refresh = 0 /\ End(r, Reauth)
      <4>1. result' = [result EXCEPT ![r] = Reauth]
        BY <3>2 DEF End, Result
      <4>2. Reauth.token \notin dueAtRead[r]
        BY <1>0 DEF Reauth
      <4> QED BY <4>1, <4>2
    <3> QED BY <1>2, <3>1, <3>2 DEF UseStored
  <2>2. RegisteredOwn'
    BY <1>0, <2>0, MapStays DEF Owner, TypeOK
  <2>3. StoredNotDue'
    BY <1>0, <2>0 DEF StoredNotDue, Fresh, vk, history
  <2>4. NotDue(r)'
    BY <1>0, <2>0, <2>1 DEF NotDue, Undecided, TypeOK, history
  <2>5. AwaitsGood(r)'
    BY <1>0, <2>0 DEF AwaitsGood, TypeOK
  <2>6. \A s \in Requests : NotDue(s)' /\ AwaitsGood(s)'
    BY <1>0, <2>0, <2>1, <2>4, <2>5, OthersNotDue DEF Owner, TypeOK, vk, history
  <2> QED BY <2>2, <2>3, <2>6 DEF DueInv
<1>3. CASE JoinFlight(r)
  <2>0. /\ pc[r] = "read" /\ pc' = [pc EXCEPT ![r] = "joined"]
        /\ joined' = [joined EXCEPT ![r] = flight[On[r]]]
        /\ flight[On[r]] \in Requests
        /\ UNCHANGED <<cred, flight, read, reply, result, vk, history>>
    BY <1>0, <1>3 DEF JoinFlight, MustRefresh, InFlight, Goto, TypeOK
  <2>1. RegisteredOwn'
    BY <1>0, <2>0, MapStays DEF Owner, TypeOK
  <2>2. StoredNotDue'
    BY <1>0, <2>0 DEF StoredNotDue, Fresh, vk, history
  <2>3. NotDue(r)'
    BY <1>0, <2>0 DEF NotDue, Undecided, TypeOK, history
  <2>4. AwaitsGood(r)'
    <3> DEFINE o == flight[On[r]]
    <3>1. o \in Requests /\ Owner(o) /\ o # r
      BY <1>0, <2>0 DEF RegisteredOwn, Owner
    <3>2. pc'[o] = pc[o] /\ joined'[r] = o
      BY <1>0, <2>0, <3>1 DEF TypeOK
    <3>3. result[o].token \notin due
      <4>1. NotDue(o) BY <3>1 DEF DueInv
      <4> QED BY <1>0, <3>1, <4>1 DEF NotDue, Owner, Undecided, Pending
    <3>4. result[o].token \notin dueAtRead[r]
      BY <1>0, <3>3 DEF NotDue
    <3> QED BY <2>0, <3>1, <3>2, <3>4 DEF AwaitsGood, Owner, history
  <2>5. \A s \in Requests : NotDue(s)' /\ AwaitsGood(s)'
    BY <1>0, <2>0, <2>3, <2>4, OthersNotDue DEF Owner, TypeOK, vk, history
  <2> QED BY <2>1, <2>2, <2>5 DEF DueInv
<1>4. CASE StartFlight(r)
  <2>0. /\ pc[r] = "read" /\ pc' = [pc EXCEPT ![r] = "calling"]
        /\ flight' = [flight EXCEPT ![On[r]] = r]
        /\ UNCHANGED <<cred, read, joined, reply, result, vk, history>>
    BY <1>4 DEF StartFlight, MustRefresh, Goto
  <2>1. RegisteredOwn'
    BY <1>0, <2>0 DEF RegisteredOwn, Owner, TypeOK
  <2>2. StoredNotDue'
    BY <1>0, <2>0 DEF StoredNotDue, Fresh, vk, history
  <2>3. NotDue(r)'
    BY <1>0, <2>0 DEF NotDue, Undecided, TypeOK, history
  <2>4. AwaitsGood(r)'
    BY <1>0, <2>0 DEF AwaitsGood, TypeOK
  <2>5. \A s \in Requests : NotDue(s)' /\ AwaitsGood(s)'
    BY <1>0, <2>0, <2>3, <2>4, OthersNotDue DEF Owner, TypeOK, vk, history
  <2> QED BY <2>1, <2>2, <2>5 DEF DueInv
<1>5. CASE VkAccepts(r)
  <2>0. /\ pc[r] = "calling" /\ pc' = [pc EXCEPT ![r] = "storing"]
        /\ issued' = issued + 1 /\ issued' \in Nat /\ issued <= issued'
        /\ UNCHANGED <<cred, flight, read, joined, result, rotates, history>>
    BY <1>0, <1>5 DEF VkAccepts, Issue, Goto
  <2>1. PICK answer : reply' = [reply EXCEPT ![r] = answer] /\ answer.access = issued + 1
    <3>1. PICK expiry \in {"fresh", "unknown"} :
            reply' = [reply EXCEPT ![r] =
                [access |-> issued', expiry |-> expiry,
                 refresh |-> IF rotates THEN issued' ELSE read[r].refresh]]
      BY <1>5 DEF VkAccepts
    <3> DEFINE new == [access |-> issued', expiry |-> expiry,
                       refresh |-> IF rotates THEN issued' ELSE read[r].refresh]
    <3>2. reply' = [reply EXCEPT ![r] = new] /\ new.access = issued + 1
      BY <2>0, <3>1
    <3> HIDE DEF new
    <3> QED BY <3>2
  <2>2. RegisteredOwn'
    BY <1>0, <2>0, MapStays DEF Owner, TypeOK
  <2>3. StoredNotDue'
    BY <1>0, <2>0, StoredStays DEF history
  <2>4. NotDue(r)'
    <3>1. issued + 1 \notin due
      BY <1>0 DEF StoredNotDue
    <3> QED BY <1>0, <2>0, <2>1, <3>1 DEF NotDue, Undecided, TypeOK, history
  <2>5. AwaitsGood(r)'
    BY <1>0, <2>0 DEF AwaitsGood, TypeOK
  <2>6. \A s \in Requests : NotDue(s)' /\ AwaitsGood(s)'
    BY <1>0, <2>0, <2>1, <2>4, <2>5, OthersNotDue DEF Owner, TypeOK, history
  <2> QED BY <2>2, <2>3, <2>6 DEF DueInv
<1>6. CASE AnswerUnused(r) \/ VkRefuses(r) \/ VkUnreachable(r)
  <2>0. /\ pc[r] = "calling" /\ pc' = [pc EXCEPT ![r] = "settled"]
        /\ issued' \in Nat /\ issued <= issued'
        /\ UNCHANGED <<cred, flight, read, joined, reply, due, dueAtRead>>
    BY <1>0, <1>6
       DEF AnswerUnused, VkRefuses, VkUnreachable, Issue, Goto, vk, history
  <2>1. PICK outcome \in {Failed, Reauth} : result' = [result EXCEPT ![r] = outcome]
    BY <1>6 DEF AnswerUnused, VkRefuses, VkUnreachable, Result
  <2>2. RegisteredOwn'
    BY <1>0, <2>0, MapStays DEF Owner, TypeOK
  <2>3. StoredNotDue'
    BY <1>0, <2>0, StoredStays
  <2>4. NotDue(r)'
    BY <1>0, <2>0, <2>1 DEF NotDue, Undecided, TypeOK, Failed, Reauth
  <2>5. AwaitsGood(r)'
    BY <1>0, <2>0 DEF AwaitsGood, TypeOK
  <2>6. \A s \in Requests : NotDue(s)' /\ AwaitsGood(s)'
    BY <1>0, <2>0, <2>1, <2>4, <2>5, OthersNotDue DEF Owner, TypeOK, Failed, Reauth
  <2> QED BY <2>2, <2>3, <2>6 DEF DueInv
<1>7. CASE StoreRefreshed(r)
  <2>0. /\ pc[r] = "storing" /\ pc' = [pc EXCEPT ![r] = "settled"]
        /\ result' = [result EXCEPT ![r] = Token(reply[r].access)]
        /\ cred' = cred \/ cred'.access = reply[r].access
        /\ UNCHANGED <<flight, read, joined, reply, vk, history>>
    BY <1>7 DEF StoreRefreshed, Goto, Result
  <2>1. reply[r].access \notin due /\ reply[r].access <= issued
    BY <1>0, <2>0 DEF NotDue, CallInv, AnswersRead
  <2>2. RegisteredOwn'
    BY <1>0, <2>0, MapStays DEF Owner, TypeOK
  <2>3. StoredNotDue'
    BY <1>0, <2>0, <2>1 DEF StoredNotDue, Fresh, vk, history
  <2>4. NotDue(r)'
    BY <1>0, <2>0, <2>1 DEF NotDue, Undecided, TypeOK, Token, vk, history
  <2>5. AwaitsGood(r)'
    BY <1>0, <2>0 DEF AwaitsGood, TypeOK
  <2>6. /\ result'[r].token \notin due /\ Owner(r)'
        /\ due' = due /\ issued <= issued'
        /\ \A s \in Requests \ {r} :
              /\ pc'[s] = pc[s] /\ read'[s] = read[s] /\ joined'[s] = joined[s]
              /\ reply'[s] = reply[s] /\ result'[s] = result[s]
              /\ dueAtRead'[s] = dueAtRead[s]
    BY <1>0, <2>0, <2>1 DEF Owner, TypeOK, Token, vk, history
  <2>7. \A s \in Requests : NotDue(s)' /\ AwaitsGood(s)'
    BY <2>4, <2>5, <2>6, OthersNotDue
  <2> QED BY <2>2, <2>3, <2>7 DEF DueInv
<1>8. CASE Cleanup(r)
  <2>0. /\ pc[r] = "settled" /\ pc' = [pc EXCEPT ![r] = "done"]
        /\ flight' = [flight EXCEPT ![On[r]] = None]
        /\ UNCHANGED <<cred, read, joined, reply, result, vk, history>>
    BY <1>8 DEF Cleanup, Unregistered, Goto, FlightInv, OwnersRegistered, Owner
  <2>1. RegisteredOwn'
    <3> SUFFICES ASSUME NEW i \in Instances, NEW s \in Requests, flight'[i] = s
                 PROVE  Owner(s)' /\ On[s] = i
      BY DEF RegisteredOwn
    <3>1. i # On[r] /\ flight[i] = s
      BY <1>0, <2>0 DEF TypeOK
    <3>2. Owner(s) /\ On[s] = i /\ s # r
      BY <1>0, <3>1 DEF RegisteredOwn
    <3> QED BY <1>0, <2>0, <3>2 DEF Owner, TypeOK
  <2>2. StoredNotDue'
    BY <1>0, <2>0 DEF StoredNotDue, Fresh, vk, history
  <2>3. NotDue(r)'
    BY <1>0, <2>0 DEF NotDue, Undecided, TypeOK, history
  <2>4. AwaitsGood(r)'
    BY <1>0, <2>0 DEF AwaitsGood, TypeOK
  <2>5. \A s \in Requests : NotDue(s)' /\ AwaitsGood(s)'
    BY <1>0, <2>0, <2>3, <2>4, OthersNotDue DEF Owner, TypeOK, vk, history
  <2> QED BY <2>1, <2>2, <2>5 DEF DueInv
<1>9. CASE FinishJoined(r)
  <2>0. /\ pc[r] = "joined" /\ pc' = [pc EXCEPT ![r] = "done"]
        /\ result' = [result EXCEPT ![r] = result[joined[r]]]
        /\ UNCHANGED <<cred, flight, read, joined, reply, vk, history>>
    BY <1>9 DEF FinishJoined, End, Goto, Result
  <2>1. RegisteredOwn'
    BY <1>0, <2>0, MapStays DEF Owner, TypeOK
  <2>2. StoredNotDue'
    BY <1>0, <2>0 DEF StoredNotDue, Fresh, vk, history
  <2>3. NotDue(r)'
    BY <1>0, <2>0 DEF NotDue, AwaitsGood, Undecided, TypeOK, history
  <2>4. AwaitsGood(r)'
    BY <1>0, <2>0 DEF AwaitsGood, TypeOK
  <2>5. \A s \in Requests : NotDue(s)' /\ AwaitsGood(s)'
    BY <1>0, <2>0, <2>3, <2>4, OthersNotDue DEF Owner, TypeOK, vk, history
  <2> QED BY <2>1, <2>2, <2>5 DEF DueInv
<1> QED BY <1>1, <1>2, <1>3, <1>4, <1>5, <1>6, <1>7, <1>8, <1>9 DEF Step, CallVk

(* A login issues a token after all those a call can hold. *)
LEMMA LoginKeepsDue ==
    ASSUME CasInv, TypeOK', DueInv, Login
    PROVE  DueInv'
<1>0. TypeOK /\ RegisteredOwn /\ StoredNotDue /\ issued \in Nat
  BY DEF CasInv, DueInv, TypeOK, Grants
<1>1. PICK expiry \in {"fresh", "due"} :
        /\ issued' = issued + 1
        /\ cred'.access = issued + 1 /\ cred'.expiry = expiry
        /\ due' = IF expiry = "due" THEN due \cup {issued + 1} ELSE due
        /\ UNCHANGED <<flight, pc, read, joined, reply, result, rotates, from, dropped,
                       dueAtRead>>
  BY DEF Login, Upserted
<1>2. RegisteredOwn'
  BY <1>0, <1>1 DEF RegisteredOwn, Owner
<1>3. StoredNotDue'
  BY <1>0, <1>1 DEF StoredNotDue, Fresh
<1>4. ASSUME NEW s \in Requests PROVE NotDue(s)' /\ AwaitsGood(s)'
  <2>1. NotDue(s) /\ AwaitsGood(s) /\ CallInv(s)
    BY DEF DueInv, CasInv
  <2>2. pc[s] = "storing" => reply[s].access # issued + 1
    BY <1>0, <2>1 DEF CallInv, AnswersRead
  <2>3. pc[s] = "settled" => result[s].token # issued + 1 /\ result[s].token <= issued + 1
    <3>1. result[s].token \in 0..MaxGrants
      <4>1. result[s] \in {Pending, Reauth, Failed} \cup {Token(n) : n \in Grants}
        BY <1>0 DEF TypeOK
      <4> QED BY <4>1, ConstantsAssumption DEF Pending, Reauth, Failed, Token, Grants
    <3> QED BY <1>0, <2>1, <3>1 DEF NotDue
  <2> QED BY <1>1, <2>1, <2>2, <2>3 DEF NotDue, AwaitsGood, Undecided, Fresh, Owner
<1> QED BY <1>2, <1>3, <1>4 DEF DueInv

(* What falls due while no call is under way is due to none that has read. *)
LEMMA ExpireKeepsDue ==
    ASSUME CasInv, DueInv, Expire
    PROVE  DueInv'
<1>0. TypeOK /\ RegisteredOwn /\ StoredNotDue /\ issued \in Nat
  BY DEF CasInv, DueInv, TypeOK, Grants
<1>1. /\ \A r \in Requests : pc[r] \in {"idle", "read", "done"}
      /\ cred'.expiry = "due" /\ cred'.access = cred.access
      /\ due' = due \cup {cred.access}
      /\ UNCHANGED <<flight, pc, read, joined, reply, result, vk, logins, dropped, dueAtRead>>
  BY DEF Expire
<1>2. RegisteredOwn'
  BY <1>0, <1>1 DEF RegisteredOwn, Owner
<1>3. StoredNotDue'
  <2>1. cred.access \in 1..issued /\ issued' = issued /\ due \subseteq 1..issued
    BY <1>0, <1>1 DEF StoredNotDue, vk, TypeOK, Rows, Grants
  <2>2. due' \subseteq 1..issued' /\ cred'.access <= issued'
    <3>1. due' = due \cup {cred.access} /\ cred'.access = cred.access
      BY <1>1
    <3>2. due' \subseteq 1..issued
      BY <2>1, <3>1
    <3>3. cred.access <= issued
      BY <1>0 DEF StoredNotDue
    <3> QED BY <2>1, <3>1, <3>2, <3>3
  <2>3. ~Fresh(cred')
    BY <1>1 DEF Fresh
  <2> QED BY <2>2, <2>3 DEF StoredNotDue, Fresh
<1>4. ASSUME NEW s \in Requests PROVE NotDue(s)' /\ AwaitsGood(s)'
  <2>1. NotDue(s) BY DEF DueInv
  <2>2. pc[s] \in {"idle", "read", "done"} BY <1>1
  <2> QED BY <1>1, <2>1, <2>2 DEF NotDue, AwaitsGood, Undecided, Fresh
<1> QED BY <1>2, <1>3, <1>4 DEF DueInv

LEMMA RestartKeepsDue ==
    ASSUME NEW i \in Instances, CasInv, TypeOK', DueInv, Restart(i)
    PROVE  DueInv'
<1>0. TypeOK /\ RegisteredOwn /\ StoredNotDue
  BY DEF CasInv, DueInv
<1>1. /\ flight' = [flight EXCEPT ![i] = None]
      /\ \A r \in Requests : pc'[r] = IF r \in Interrupted(i) THEN "done" ELSE pc[r]
      /\ \A r \in Requests : result'[r] = IF r \in Interrupted(i) THEN Failed ELSE result[r]
      /\ UNCHANGED <<cred, read, joined, reply, vk, logins, due, dueAtRead>>
  BY DEF Restart
<1>2. RegisteredOwn'
  <2> SUFFICES ASSUME NEW j \in Instances, NEW s \in Requests, flight'[j] = s
               PROVE  Owner(s)' /\ On[s] = j
    BY DEF RegisteredOwn
  <2>1. j # i /\ flight[j] = s
    BY <1>0, <1>1, ConstantsAssumption DEF TypeOK
  <2>2. Owner(s) /\ On[s] = j
    BY <1>0, <2>1 DEF RegisteredOwn
  <2>3. s \notin Interrupted(i)
    BY <2>1, <2>2 DEF Interrupted
  <2> QED BY <1>1, <2>2, <2>3 DEF Owner
<1>3. StoredNotDue'
  BY <1>0, <1>1 DEF StoredNotDue, Fresh, vk
<1>4. ASSUME NEW s \in Requests PROVE NotDue(s)' /\ AwaitsGood(s)'
  <2>1. NotDue(s) /\ AwaitsGood(s) /\ AwaitsOwner(s) /\ Failed.token \notin dueAtRead[s]
    BY <1>0, NoToken DEF DueInv, CasInv, CallInv
  <2>2. CASE s \in Interrupted(i)
    <3>1. pc'[s] = "done" /\ result'[s] = Failed BY <1>1, <2>2
    <3> QED BY <1>1, <2>1, <3>1 DEF NotDue, AwaitsGood, Undecided
  <2>3. CASE s \notin Interrupted(i)
    <3>1. pc'[s] = pc[s] /\ result'[s] = result[s] BY <1>1, <2>3
    <3>2. NotDue(s)'
      BY <1>1, <2>1, <3>1 DEF NotDue, Undecided, Fresh, vk
    <3>3. AwaitsGood(s)'
      <4> SUFFICES ASSUME pc[s] = "joined"
                   PROVE  /\ Owner(joined[s])' \/ pc'[joined[s]] = "done"
                          /\ result'[joined[s]].token \notin dueAtRead[s]
        BY <1>1, <3>1 DEF AwaitsGood, Owner
      <4>1. joined[s] \in Requests /\ (Owner(joined[s]) \/ pc[joined[s]] = "done")
            /\ result[joined[s]].token \notin dueAtRead[s]
        BY <2>1 DEF AwaitsOwner, AwaitsGood
      <4> QED BY <1>1, <2>1, <4>1 DEF Owner
    <3> QED BY <3>2, <3>3
  <2> QED BY <2>2, <2>3
<1> QED BY <1>2, <1>3, <1>4 DEF DueInv

LEMMA NextKeepsDue ==
    ASSUME FlightInv, CasInv, CasInv', DueInv, [Next]_vars
    PROVE  DueInv'
<1>0. TypeOK' BY DEF CasInv
<1>1. ASSUME NEW r \in Requests, Step(r) PROVE DueInv'
  BY <1>0, <1>1, StepKeepsDue
<1>2. ASSUME NEW i \in Instances, Restart(i) PROVE DueInv'
  BY <1>0, <1>2, RestartKeepsDue
<1>3. CASE Login
  BY <1>0, <1>3, LoginKeepsDue
<1>4. CASE Expire
  BY <1>4, ExpireKeepsDue
<1>5. CASE UNCHANGED vars
  <2>1. RegisteredOwn' /\ StoredNotDue'
    BY <1>5 DEF DueInv, RegisteredOwn, StoredNotDue, Owner, Fresh, vars, vk, history
  <2>2. ASSUME NEW s \in Requests PROVE NotDue(s)' /\ AwaitsGood(s)'
    BY <1>5 DEF DueInv, NotDue, AwaitsGood, Undecided, Owner, Fresh, vars, vk, history
  <2> QED BY <2>1, <2>2 DEF DueInv
<1> QED BY <1>1, <1>2, <1>3, <1>4, <1>5 DEF Next

(* getOrRefreshUserToken never hands out an access token that had expired  *)
(* before the call looked: not the stored one, and not what a flight left  *)
(* in the map ended with.  For any number of calls, instances and logins.  *)
THEOREM ExpiredTokensStay == Spec => []NoExpiredToken
<1>1. DueInv => NoExpiredToken
  BY DEF DueInv, NotDue, NoExpiredToken
<1> QED BY <1>1, InitFlight, InitCas, InitDue, NextKeepsFlight, NextKeepsCas, NextKeepsDue, PTL
        DEF Spec
-----------------------------------------------------------------------------
(* The stored refresh token.  Where VK does not rotate, the stored token   *)
(* stays accepted.  Where it does, a token is used up only by a call that  *)
(* has read it, and nobody has read the one in an answer until it is       *)
(* stored; and no write brings back a refresh token that was replaced,     *)
(* though a login may keep the one that is being replaced.                 *)

(* What the stored grant was made from is known: a login's grants were     *)
(* made from no refresh token, nor were those to come.                     *)
Origins ==
    /\ cred.access <= issued
    /\ \A n \in Grants : n > issued => from[n] = 0

WithoutRotation ==
    /\ cred.refresh \in {0} \cup alive
    /\ \A r \in Requests : pc[r] = "storing" => reply[r].refresh = read[r].refresh

ReadBefore(r) ==
    pc[r] # "idle" =>
        /\ read[r].refresh <= issued
        /\ read[r].updatedAt # cred.updatedAt =>
              read[r].refresh # cred.refresh \/ from[cred.access] = 0

(* VK's answer to r is known to r only. *)
AnswerIsNew(r) ==
    pc[r] = "storing" =>
        /\ reply[r].refresh \in alive /\ reply[r].refresh <= issued
        /\ reply[r].refresh # cred.refresh
        /\ \A s \in Requests : pc[s] # "idle" => read[s].refresh # reply[r].refresh
        /\ \A s \in Requests \ {r} : pc[s] = "storing" => reply[s].refresh # reply[r].refresh

WithRotation ==
    /\ cred.refresh <= issued
    /\ \A r \in Requests : ReadBefore(r) /\ AnswerIsNew(r)

RefreshInv ==
    /\ StoredRefreshTokenWorks /\ Origins
    /\ rotates => WithRotation
    /\ ~rotates => WithoutRotation

LEMMA InitRefresh == Init => RefreshInv
<1> SUFFICES ASSUME Init PROVE RefreshInv
  OBVIOUS
<1>1. Origins BY DEF Init, Origins
<1> QED BY <1>1 DEF Init, RefreshInv, StoredRefreshTokenWorks, WithRotation, WithoutRotation,
        ReadBefore, AnswerIsNew

(* A step that only moves r on, from a row it has read to no answer it has *)
(* to store.                                                               *)
LEMMA QuietRefresh ==
    ASSUME NEW r \in Requests, RefreshInv,
           UNCHANGED <<cred, read, reply, issued, alive, rotates, from>>,
           dropped \subseteq dropped',
           \A s \in Requests \ {r} : pc'[s] = pc[s],
           pc[r] \notin {"idle", "storing"}, pc'[r] \notin {"idle", "storing"}
    PROVE  RefreshInv'
<1>1. StoredRefreshTokenWorks' /\ Origins'
  BY DEF RefreshInv, StoredRefreshTokenWorks, KeptWhileRefreshed, Origins
<1>2. ASSUME rotates PROVE WithRotation'
  <2>1. WithRotation BY <1>2 DEF RefreshInv
  <2>2. ASSUME NEW s \in Requests PROVE ReadBefore(s)'
    BY <2>1 DEF WithRotation, ReadBefore
  <2>3. ASSUME NEW s \in Requests PROVE AnswerIsNew(s)'
    BY <2>1 DEF WithRotation, AnswerIsNew
  <2> QED BY <2>1, <2>2, <2>3 DEF WithRotation
<1>3. ASSUME ~rotates PROVE WithoutRotation'
  BY <1>3 DEF RefreshInv, WithoutRotation
<1> QED BY <1>1, <1>2, <1>3 DEF RefreshInv

LEMMA ReadKeepsRefresh ==
    ASSUME NEW r \in Requests, CasInv, RefreshInv, ReadCredentials(r)
    PROVE  RefreshInv'
<1>0. /\ pc[r] = "idle" /\ pc' = [pc EXCEPT ![r] = "read"]
      /\ read' = [read EXCEPT ![r] = cred]
      /\ UNCHANGED <<cred, reply, issued, alive, rotates, from, dropped>> /\ TypeOK
  BY DEF ReadCredentials, Goto, vk, CasInv
<1>1. /\ pc'[r] = "read" /\ read'[r] = cred
      /\ \A s \in Requests \ {r} : pc'[s] = pc[s] /\ read'[s] = read[s]
  BY <1>0 DEF TypeOK
<1>2. StoredRefreshTokenWorks' /\ Origins'
  BY <1>0, <1>1 DEF RefreshInv, StoredRefreshTokenWorks, KeptWhileRefreshed, Origins
<1>3. ASSUME rotates PROVE WithRotation'
  <2>1. WithRotation BY <1>3 DEF RefreshInv
  <2>2. ASSUME NEW s \in Requests PROVE ReadBefore(s)'
    BY <1>0, <1>1, <2>1 DEF WithRotation, ReadBefore
  <2>3. ASSUME NEW s \in Requests PROVE AnswerIsNew(s)'
    BY <1>0, <1>1, <2>1 DEF WithRotation, AnswerIsNew
  <2> QED BY <1>0, <2>1, <2>2, <2>3 DEF WithRotation
<1>4. ASSUME ~rotates PROVE WithoutRotation'
  BY <1>0, <1>1, <1>4 DEF RefreshInv, WithoutRotation
<1> QED BY <1>0, <1>2, <1>3, <1>4 DEF RefreshInv

(* VK's answer: the token it was made from may be used up, the new one is  *)
(* its caller's.                                                           *)
LEMMA AcceptKeepsRefresh ==
    ASSUME NEW r \in Requests, CasInv, RefreshInv, VkAccepts(r)
    PROVE  RefreshInv'
<1>0. /\ pc[r] = "calling" /\ pc' = [pc EXCEPT ![r] = "storing"]
      /\ issued' = issued + 1
      /\ alive' = IF rotates THEN (alive \ {read[r].refresh}) \cup {issued + 1} ELSE alive
      /\ from' = [from EXCEPT ![issued + 1] = read[r].refresh] /\ issued < MaxGrants
      /\ UNCHANGED <<cred, read, rotates, dropped>> /\ TypeOK
  BY DEF VkAccepts, Issue, Goto, history, CasInv
<1>1. PICK answer :
        /\ reply' = [reply EXCEPT ![r] = answer]
        /\ answer.refresh = IF rotates THEN issued + 1 ELSE read[r].refresh
  <2>1. PICK expiry \in {"fresh", "unknown"} :
          reply' = [reply EXCEPT ![r] =
              [access |-> issued', expiry |-> expiry,
               refresh |-> IF rotates THEN issued' ELSE read[r].refresh]]
    BY DEF VkAccepts
  <2> DEFINE new == [access |-> issued', expiry |-> expiry,
                     refresh |-> IF rotates THEN issued' ELSE read[r].refresh]
  <2>2. /\ reply' = [reply EXCEPT ![r] = new]
        /\ new.refresh = IF rotates THEN issued + 1 ELSE read[r].refresh
    BY <1>0, <2>1
  <2> HIDE DEF new
  <2> QED BY <2>2
<1>2. /\ pc'[r] = "storing" /\ reply'[r] = answer /\ issued \in Nat
      /\ \A s \in Requests \ {r} : pc'[s] = pc[s] /\ reply'[s] = reply[s]
  BY <1>0, <1>1 DEF TypeOK, Grants
<1>g. /\ issued + 1 \in Grants /\ from'[issued + 1] = read[r].refresh
      /\ \A n \in Grants : n # issued + 1 => from'[n] = from[n]
      /\ cred.access \in Grants /\ cred.access # issued + 1
      /\ cred.refresh # 0 => \A n \in Grants : from[n] = cred.refresh => n # issued + 1
  BY <1>0, ConstantsAssumption DEF TypeOK, Rows, Grants, RefreshInv, Origins
<1>o. Origins'
  BY <1>0, <1>g DEF RefreshInv, Origins, TypeOK, Grants
<1>r. CallInv(r) /\ ReadsStored(r) /\ read[r] \in Rows
      /\ (rotates => ReadBefore(r))
  BY <1>0 DEF CasInv, CallInv, ReadsStored, RefreshInv, WithRotation
<1>3. StoredRefreshTokenWorks'
  <2>1. CASE cred.refresh = read[r].refresh /\ read[r].updatedAt = cred.updatedAt
    BY <1>0, <1>2, <2>1 DEF StoredRefreshTokenWorks
  <2>2. CASE /\ rotates /\ cred.refresh = read[r].refresh
             /\ read[r].updatedAt # cred.updatedAt
    <3>1. from[cred.access] = 0
      BY <1>0, <1>r, <2>2 DEF ReadBefore
    <3>2. read[r].updatedAt <= cred.updatedAt /\ read[r].updatedAt \in Nat /\ cred.updatedAt \in Nat
      BY <1>0, <1>r DEF ReadsStored, Rows, TypeOK
    <3>3. read[r].updatedAt < cred.updatedAt
      BY <2>2, <3>2
    <3>4. KeptWhileRefreshed'
      BY <1>0, <1>2, <1>g, <2>2, <3>1, <3>3 DEF KeptWhileRefreshed
    <3> QED BY <3>4 DEF StoredRefreshTokenWorks
  <2>3. CASE cred.refresh = 0
    BY <1>0, <2>3 DEF StoredRefreshTokenWorks
  <2>4. CASE cred.refresh # read[r].refresh /\ cred.refresh \in {0} \cup alive \cup dropped
    BY <1>0, <2>4 DEF StoredRefreshTokenWorks
  <2>5. ASSUME NEW s \in Requests, pc[s] = "storing", read[s].refresh = cred.refresh,
               read[s].updatedAt = cred.updatedAt
        PROVE  StoredRefreshTokenWorks'
    BY <1>0, <1>2, <2>5 DEF StoredRefreshTokenWorks
  <2>6. CASE KeptWhileRefreshed /\ cred.refresh # 0
    <3>1. PICK s \in Requests, n \in Grants :
            /\ pc[s] # "idle" /\ read[s].updatedAt < cred.updatedAt
            /\ read[s].refresh = cred.refresh /\ from[n] = cred.refresh
      BY <2>6 DEF KeptWhileRefreshed
    <3>2. from'[n] = from[n] /\ from'[cred.access] = from[cred.access] /\ pc'[s] # "idle"
      BY <1>0, <1>2, <1>g, <2>6, <3>1
    <3>3. KeptWhileRefreshed'
      BY <1>0, <2>6, <3>1, <3>2 DEF KeptWhileRefreshed
    <3> QED BY <3>3 DEF StoredRefreshTokenWorks
  <2>7. CASE ~rotates /\ cred.refresh \in {0} \cup alive \cup dropped
    BY <1>0, <2>7 DEF StoredRefreshTokenWorks
  <2> QED BY <2>1, <2>2, <2>3, <2>4, <2>5, <2>6, <2>7 DEF RefreshInv, StoredRefreshTokenWorks
<1>4. ASSUME rotates PROVE WithRotation'
  <2>1. WithRotation BY <1>4 DEF RefreshInv
  <2>2. cred.refresh \in Nat /\ \A s \in Requests : pc[s] # "idle" => read[s].refresh \in Nat
    BY <1>0, ConstantsAssumption DEF CasInv, CallInv, ReadsStored, TypeOK, Rows
  <2>3. ASSUME NEW s \in Requests PROVE ReadBefore(s)'
    <3>1. pc'[s] # "idle" => pc[s] # "idle"
      BY <1>0, <1>2
    <3> QED BY <1>0, <1>2, <1>g, <2>1, <2>2, <3>1 DEF WithRotation, ReadBefore
  <2>4. ASSUME NEW s \in Requests, pc[s] # "idle" PROVE read[s].refresh # issued + 1
    BY <1>2, <2>1, <2>2, <2>4 DEF WithRotation, ReadBefore
  <2>5. AnswerIsNew(r)'
    <3>1. reply'[r].refresh = issued + 1 /\ issued + 1 \in alive' /\ issued + 1 <= issued'
      BY <1>0, <1>1, <1>2, <1>4
    <3>2. issued + 1 # cred.refresh
      BY <1>2, <2>1, <2>2 DEF WithRotation
    <3>3. \A s \in Requests : pc'[s] # "idle" => read'[s].refresh # issued + 1
      BY <1>0, <1>2, <2>4
    <3>4. ASSUME NEW s \in Requests \ {r}, pc'[s] = "storing"
          PROVE  reply'[s].refresh # issued + 1
      <4>1. pc[s] = "storing" /\ reply'[s] = reply[s] BY <1>2, <3>4
      <4>2. reply[s].refresh <= issued /\ reply[s].refresh \in Nat
        BY <2>1, <4>1 DEF WithRotation, AnswerIsNew, CasInv, CallInv, AnswersRead, Replies,
           Grants
      <4> QED BY <1>2, <4>1, <4>2
    <3> QED BY <1>0, <3>1, <3>2, <3>3, <3>4 DEF AnswerIsNew
  <2>6. ASSUME NEW s \in Requests, s # r PROVE AnswerIsNew(s)'
    <3> SUFFICES ASSUME pc[s] = "storing" PROVE AnswerIsNew(s)'
      BY <1>2, <2>6 DEF AnswerIsNew
    <3>1. AnswerIsNew(s) /\ reply'[s] = reply[s] /\ reply[s].refresh \in Nat
      BY <1>2, <2>1, <2>6
         DEF WithRotation, CasInv, CallInv, AnswersRead, Replies, Grants
    <3>2. /\ reply[s].refresh \in alive /\ reply[s].refresh <= issued
          /\ reply[s].refresh # read[r].refresh
      BY <1>0, <3>1 DEF AnswerIsNew
    <3>3. reply[s].refresh \in alive' /\ reply[s].refresh <= issued'
          /\ reply[s].refresh # reply'[r].refresh
      BY <1>0, <1>1, <1>2, <1>4, <3>1, <3>2
    <3>4. \A q \in Requests : pc'[q] # "idle" => read'[q].refresh # reply[s].refresh
      BY <1>0, <1>2, <3>1 DEF AnswerIsNew
    <3>5. \A q \in Requests \ {s} : pc'[q] = "storing" => reply'[q].refresh # reply[s].refresh
      BY <1>2, <3>1, <3>3 DEF AnswerIsNew
    <3>6. reply[s].refresh # cred'.refresh
      BY <1>0, <3>1 DEF AnswerIsNew
    <3> QED BY <3>1, <3>3, <3>4, <3>5, <3>6 DEF AnswerIsNew
  <2>7. cred'.refresh <= issued'
    BY <1>0, <1>2, <2>1, <2>2 DEF WithRotation
  <2> QED BY <2>3, <2>5, <2>6, <2>7 DEF WithRotation
<1>5. ASSUME ~rotates PROVE WithoutRotation'
  BY <1>0, <1>1, <1>2, <1>5 DEF RefreshInv, WithoutRotation
<1> QED BY <1>0, <1>3, <1>4, <1>5, <1>o DEF RefreshInv

(* The answer is lost: its new token is nobody's, the old one may be gone. *)
LEMMA LostKeepsRefresh ==
    ASSUME NEW r \in Requests, CasInv, RefreshInv, AnswerUnused(r)
    PROVE  RefreshInv'
<1>0. /\ pc[r] = "calling" /\ pc' = [pc EXCEPT ![r] = "settled"]
      /\ issued' = issued + 1
      /\ alive' = IF rotates THEN (alive \ {read[r].refresh}) \cup {issued + 1} ELSE alive
      /\ dropped' = dropped \cup {read[r].refresh}
      /\ from' = [from EXCEPT ![issued + 1] = read[r].refresh] /\ issued < MaxGrants
      /\ UNCHANGED <<cred, read, reply, rotates>> /\ TypeOK
  BY DEF AnswerUnused, Issue, Goto, CasInv
<1>1. /\ pc'[r] = "settled" /\ issued \in Nat
      /\ \A s \in Requests \ {r} : pc'[s] = pc[s]
  BY <1>0 DEF TypeOK, Grants
<1>g. /\ \A n \in Grants : n # issued + 1 => from'[n] = from[n]
      /\ cred.access \in Grants /\ cred.access # issued + 1
      /\ cred.refresh # 0 => \A n \in Grants : from[n] = cred.refresh => n # issued + 1
  BY <1>0, ConstantsAssumption DEF TypeOK, Rows, Grants, RefreshInv, Origins
<1>o. Origins'
  BY <1>0, <1>g DEF RefreshInv, Origins, TypeOK, Grants
<1>2. StoredRefreshTokenWorks'
  <2>1. CASE \/ cred.refresh \in {0} \cup alive \cup dropped
             \/ \E s \in Requests : /\ pc[s] = "storing" /\ read[s].refresh = cred.refresh
                                    /\ read[s].updatedAt = cred.updatedAt
    BY <1>0, <1>1, <2>1 DEF StoredRefreshTokenWorks
  <2>2. CASE KeptWhileRefreshed /\ cred.refresh # 0
    <3>1. PICK s \in Requests, n \in Grants :
            /\ pc[s] # "idle" /\ read[s].updatedAt < cred.updatedAt
            /\ read[s].refresh = cred.refresh /\ from[n] = cred.refresh
      BY <2>2 DEF KeptWhileRefreshed
    <3>2. from'[n] = from[n] /\ from'[cred.access] = from[cred.access] /\ pc'[s] # "idle"
      BY <1>0, <1>1, <1>g, <2>2, <3>1
    <3>3. KeptWhileRefreshed'
      BY <1>0, <2>2, <3>1, <3>2 DEF KeptWhileRefreshed
    <3> QED BY <3>3 DEF StoredRefreshTokenWorks
  <2> QED BY <2>1, <2>2 DEF RefreshInv, StoredRefreshTokenWorks
<1>3. ASSUME rotates PROVE WithRotation'
  <2>1. WithRotation BY <1>3 DEF RefreshInv
  <2>2. cred.refresh \in Nat /\ \A s \in Requests : pc[s] # "idle" => read[s].refresh \in Nat
    BY <1>0, ConstantsAssumption DEF CasInv, CallInv, ReadsStored, TypeOK, Rows
  <2>3. ASSUME NEW s \in Requests PROVE ReadBefore(s)'
    <3>1. pc'[s] # "idle" => pc[s] # "idle"
      BY <1>0, <1>1
    <3> QED BY <1>0, <1>1, <1>g, <2>1, <2>2, <3>1 DEF WithRotation, ReadBefore
  <2>4. ASSUME NEW s \in Requests PROVE AnswerIsNew(s)'
    <3> SUFFICES ASSUME pc[s] = "storing", s # r PROVE AnswerIsNew(s)'
      BY <1>0, <1>1 DEF AnswerIsNew
    <3>1. AnswerIsNew(s) /\ reply[s].refresh \in Nat
      BY <2>1 DEF WithRotation, CasInv, CallInv, AnswersRead, Replies, Grants
    <3>2. reply[s].refresh \in alive' /\ reply[s].refresh <= issued'
      BY <1>0, <1>1, <3>1 DEF AnswerIsNew
    <3> QED BY <1>0, <1>1, <3>1, <3>2 DEF AnswerIsNew
  <2>5. cred'.refresh <= issued'
    BY <1>0, <1>1, <2>1, <2>2 DEF WithRotation
  <2> QED BY <2>3, <2>4, <2>5 DEF WithRotation
<1>4. ASSUME ~rotates PROVE WithoutRotation'
  BY <1>0, <1>1, <1>4 DEF RefreshInv, WithoutRotation
<1> QED BY <1>0, <1>2, <1>3, <1>4, <1>o DEF RefreshInv

(* The write: a call whose compare-and-set fails was not the one the       *)
(* stored token waited for, because the row is not the one it read.        *)
LEMMA StoreKeepsRefresh ==
    ASSUME NEW r \in Requests, CasInv, RefreshInv, StoreRefreshed(r)
    PROVE  RefreshInv'
<1>0. /\ pc[r] = "storing" /\ pc' = [pc EXCEPT ![r] = "settled"]
      /\ UNCHANGED <<read, reply, issued, alive, rotates, from, dropped>> /\ TypeOK
      /\ CallInv(r)
  BY DEF StoreRefreshed, Goto, vk, history, CasInv
<1>1. /\ pc'[r] = "settled"
      /\ \A s \in Requests \ {r} : pc'[s] = pc[s]
  BY <1>0 DEF TypeOK
<1>o. Origins'
  <2>1. cred' = cred \/ cred'.access = reply[r].access
    BY DEF StoreRefreshed
  <2>2. reply[r].access <= issued
    BY <1>0 DEF CallInv, AnswersRead
  <2> QED BY <1>0, <2>1, <2>2 DEF RefreshInv, Origins
<1>2. CASE cred.updatedAt = read[r].updatedAt
  <2>1. cred'.refresh = reply[r].refresh /\ cred'.updatedAt = cred.updatedAt + 1
    BY <1>2 DEF StoreRefreshed, CredentialUnchanged, NewRefreshToken
  <2>2. read[r].refresh = cred.refresh
    BY <1>0, <1>2 DEF CallInv, ReadsStored
  <2>3. ASSUME rotates PROVE WithRotation' /\ StoredRefreshTokenWorks'
    <3>1. WithRotation /\ AnswerIsNew(r)
      BY <2>3 DEF RefreshInv, WithRotation
    <3>2. reply[r].refresh \in alive /\ reply[r].refresh <= issued
      BY <1>0, <3>1 DEF AnswerIsNew
    <3>3. ASSUME NEW s \in Requests PROVE ReadBefore(s)'
      <4>1. pc'[s] # "idle" => pc[s] # "idle" BY <1>0, <1>1
      <4>2. pc[s] # "idle" => read[s].refresh # reply[r].refresh
        BY <1>0, <3>1 DEF AnswerIsNew
      <4> QED BY <1>0, <2>1, <3>1, <4>1, <4>2 DEF WithRotation, ReadBefore
    <3>4. ASSUME NEW s \in Requests PROVE AnswerIsNew(s)'
      <4> SUFFICES ASSUME pc[s] = "storing", s # r PROVE AnswerIsNew(s)'
        BY <1>0, <1>1 DEF AnswerIsNew
      <4>1. AnswerIsNew(s) BY <3>1 DEF WithRotation
      <4>2. reply[s].refresh # cred'.refresh
        BY <1>0, <2>1, <3>1 DEF AnswerIsNew
      <4> QED BY <1>0, <1>1, <4>1, <4>2 DEF AnswerIsNew
    <3>5. StoredRefreshTokenWorks'
      BY <1>0, <2>1, <3>2 DEF StoredRefreshTokenWorks
    <3> QED BY <1>0, <2>1, <3>2, <3>3, <3>4, <3>5 DEF WithRotation
  <2>4. ASSUME ~rotates PROVE WithoutRotation' /\ StoredRefreshTokenWorks'
    <3>1. WithoutRotation BY <2>4 DEF RefreshInv
    <3>2. cred'.refresh = cred.refresh
      BY <1>0, <2>1, <2>2, <3>1 DEF WithoutRotation
    <3> QED BY <1>0, <1>1, <3>1, <3>2 DEF WithoutRotation, StoredRefreshTokenWorks
  <2> QED BY <1>0, <1>o, <2>3, <2>4 DEF RefreshInv
<1>3. CASE cred.updatedAt # read[r].updatedAt
  <2>1. cred' = cred
    BY <1>3 DEF StoreRefreshed, CredentialUnchanged
  <2>2. ASSUME rotates PROVE WithRotation' /\ StoredRefreshTokenWorks'
    <3>1. WithRotation BY <2>2 DEF RefreshInv
    <3>3. StoredRefreshTokenWorks'
      BY <1>0, <1>1, <1>3, <2>1 DEF RefreshInv, StoredRefreshTokenWorks, KeptWhileRefreshed
    <3>4. ASSUME NEW s \in Requests PROVE ReadBefore(s)'
      BY <1>0, <1>1, <2>1, <3>1 DEF WithRotation, ReadBefore
    <3>5. ASSUME NEW s \in Requests PROVE AnswerIsNew(s)'
      <4> SUFFICES ASSUME pc[s] = "storing", s # r PROVE AnswerIsNew(s)'
        BY <1>0, <1>1 DEF AnswerIsNew
      <4>1. AnswerIsNew(s) BY <3>1 DEF WithRotation
      <4> QED BY <1>0, <1>1, <2>1, <4>1 DEF AnswerIsNew
    <3> QED BY <1>0, <2>1, <3>1, <3>3, <3>4, <3>5 DEF WithRotation
  <2>3. ASSUME ~rotates PROVE WithoutRotation' /\ StoredRefreshTokenWorks'
    BY <1>0, <1>1, <2>1, <2>3 DEF RefreshInv, WithoutRotation, StoredRefreshTokenWorks
  <2> QED BY <1>0, <1>o, <2>2, <2>3 DEF RefreshInv
<1> QED BY <1>2, <1>3

LEMMA StepKeepsRefresh ==
    ASSUME NEW r \in Requests, CasInv, RefreshInv, Step(r)
    PROVE  RefreshInv'
<1>0. TypeOK BY DEF CasInv
<1>1. CASE UseStored(r) \/ JoinFlight(r) \/ StartFlight(r) \/ VkRefuses(r)
           \/ VkUnreachable(r) \/ Cleanup(r) \/ FinishJoined(r)
  <2>1. /\ UNCHANGED <<cred, read, reply, issued, alive, rotates, from, dropped>>
        /\ pc[r] \in {"read", "calling", "settled", "joined"}
        /\ \E there \in {"done", "joined", "calling", "settled"} : pc' = [pc EXCEPT ![r] = there]
    BY <1>1 DEF UseStored, JoinFlight, StartFlight, MustRefresh, VkRefuses, VkUnreachable,
       Cleanup, FinishJoined, End, Goto, vk, history
  <2>2. /\ pc'[r] \in {"done", "joined", "calling", "settled"}
        /\ \A s \in Requests \ {r} : pc'[s] = pc[s]
    BY <1>0, <2>1 DEF TypeOK
  <2> QED BY <2>1, <2>2, QuietRefresh
<1>2. CASE ReadCredentials(r)
  BY <1>2, ReadKeepsRefresh
<1>3. CASE VkAccepts(r)
  BY <1>3, AcceptKeepsRefresh
<1>4. CASE AnswerUnused(r)
  BY <1>4, LostKeepsRefresh
<1>5. CASE StoreRefreshed(r)
  BY <1>5, StoreKeepsRefresh
<1> QED BY <1>1, <1>2, <1>3, <1>4, <1>5 DEF Step, CallVk

(* A login replaces the stored refresh token by a new one, or keeps it in  *)
(* a row of its own: whoever was to replace it then finds the row changed. *)
LEMMA LoginKeepsRefresh ==
    ASSUME CasInv, RefreshInv, Login
    PROVE  RefreshInv'
<1>0. TypeOK /\ issued \in Nat /\ cred.updatedAt \in Nat BY DEF CasInv, TypeOK, Grants, Rows
<1>1. /\ issued' = issued + 1 /\ issued + 1 \in Grants
      /\ cred'.access = issued + 1 /\ cred'.updatedAt = cred.updatedAt + 1
      /\ \/ cred'.refresh = issued + 1 /\ alive' = alive \cup {issued + 1}
         \/ cred'.refresh = cred.refresh /\ alive' = alive
      /\ UNCHANGED <<pc, read, reply, rotates, from, dropped>>
  <2>1. PICK expiry \in {"fresh", "due"}, withRefresh \in LoginRefresh :
          /\ alive' = IF withRefresh THEN alive \cup {issued'} ELSE alive
          /\ cred' = Upserted(issued', expiry, withRefresh)
    BY DEF Login
  <2>2. /\ issued' = issued + 1 /\ issued < MaxGrants
        /\ UNCHANGED <<pc, read, reply, rotates, from, dropped>>
    BY DEF Login
  <2> QED BY <1>0, <2>1, <2>2, ConstantsAssumption DEF Upserted, Grants
<1>2. Origins' /\ from'[cred'.access] = 0
  BY <1>0, <1>1 DEF RefreshInv, Origins, Grants
<1>3. \A s \in Requests : pc[s] # "idle" =>
         /\ read[s].refresh \in Nat /\ read[s].updatedAt \in Nat
         /\ read[s].updatedAt < cred'.updatedAt
  BY <1>0, <1>1, ConstantsAssumption DEF CasInv, CallInv, ReadsStored, Rows
<1>4. StoredRefreshTokenWorks'
  <2>1. CASE cred'.refresh = issued + 1 /\ alive' = alive \cup {issued + 1}
    BY <2>1 DEF StoredRefreshTokenWorks
  <2>2. CASE cred'.refresh = cred.refresh /\ alive' = alive
    <3>1. CASE cred.refresh \in {0} \cup alive \cup dropped
      BY <1>1, <2>2, <3>1 DEF StoredRefreshTokenWorks
    <3>2. ASSUME NEW s \in Requests, pc[s] = "storing", read[s].refresh = cred.refresh
          PROVE  KeptWhileRefreshed'
      <4>1. reply[s].access \in Grants /\ from[reply[s].access] = cred.refresh
        BY <3>2 DEF CasInv, CallInv, AnswersRead, Replies
      <4> QED BY <1>1, <1>2, <1>3, <2>2, <3>2, <4>1 DEF KeptWhileRefreshed
    <3>3. ASSUME NEW s \in Requests, NEW n \in Grants, pc[s] # "idle",
                 read[s].refresh = cred.refresh, from[n] = cred.refresh
          PROVE  KeptWhileRefreshed'
      <4>1. read'[s].updatedAt < cred'.updatedAt
        BY <1>1, <1>3, <3>3
      <4>2. /\ read'[s].refresh = cred'.refresh /\ from'[n] = cred'.refresh
            /\ pc'[s] # "idle" /\ from'[cred'.access] = 0
        BY <1>1, <1>2, <2>2, <3>3
      <4> QED BY <4>1, <4>2 DEF KeptWhileRefreshed
    <3> QED BY <3>1, <3>2, <3>3 DEF RefreshInv, StoredRefreshTokenWorks, KeptWhileRefreshed
  <2> QED BY <1>1, <2>1, <2>2
<1>5. ASSUME rotates PROVE WithRotation'
  <2>1. WithRotation BY <1>5 DEF RefreshInv
  <2>2. ASSUME NEW s \in Requests PROVE ReadBefore(s)'
    BY <1>0, <1>1, <1>2, <1>3, <2>1 DEF WithRotation, ReadBefore
  <2>3. ASSUME NEW s \in Requests PROVE AnswerIsNew(s)'
    <3> SUFFICES ASSUME pc[s] = "storing" PROVE AnswerIsNew(s)'
      BY <1>1 DEF AnswerIsNew
    <3>1. AnswerIsNew(s) /\ reply[s].refresh \in Nat
      BY <2>1 DEF WithRotation, CasInv, CallInv, AnswersRead, Replies, Grants
    <3>2. /\ reply[s].refresh \in alive' /\ reply[s].refresh <= issued'
          /\ reply[s].refresh # cred'.refresh
      BY <1>0, <1>1, <3>1 DEF AnswerIsNew
    <3> QED BY <1>1, <3>1, <3>2 DEF AnswerIsNew
  <2>4. cred'.refresh <= issued'
    <3>1. cred.refresh \in Nat /\ cred.refresh <= issued
      BY <1>0, <2>1, ConstantsAssumption DEF TypeOK, Rows, WithRotation
    <3> QED BY <1>0, <1>1, <3>1
  <2> QED BY <2>2, <2>3, <2>4 DEF WithRotation
<1>6. ASSUME ~rotates PROVE WithoutRotation'
  BY <1>1, <1>6 DEF RefreshInv, WithoutRotation
<1> QED BY <1>1, <1>2, <1>4, <1>5, <1>6 DEF RefreshInv

LEMMA ExpireKeepsRefresh ==
    ASSUME RefreshInv, Expire
    PROVE  RefreshInv'
<1>1. /\ cred'.access = cred.access /\ cred'.refresh = cred.refresh
      /\ cred'.updatedAt = cred.updatedAt
      /\ UNCHANGED <<pc, read, reply, issued, alive, rotates, from, dropped>>
  BY DEF Expire, vk
<1>2. StoredRefreshTokenWorks' /\ Origins'
  BY <1>1 DEF RefreshInv, StoredRefreshTokenWorks, KeptWhileRefreshed, Origins
<1>3. ASSUME rotates PROVE WithRotation'
  BY <1>1, <1>3 DEF RefreshInv, WithRotation, ReadBefore, AnswerIsNew
<1>4. ASSUME ~rotates PROVE WithoutRotation'
  BY <1>1, <1>4 DEF RefreshInv, WithoutRotation
<1> QED BY <1>1, <1>2, <1>3, <1>4 DEF RefreshInv

(* A restart loses answers, and their tokens with them. *)
LEMMA RestartKeepsRefresh ==
    ASSUME NEW i \in Instances, RefreshInv, Restart(i)
    PROVE  RefreshInv'
<1>1. /\ \A r \in Requests : pc'[r] = IF r \in Interrupted(i) THEN "done" ELSE pc[r]
      /\ dropped' = dropped \cup
            {read[r].refresh : r \in {q \in Interrupted(i) : pc[q] = "storing"}}
      /\ UNCHANGED <<cred, read, reply, issued, alive, rotates, from>>
  BY DEF Restart, vk
<1>2. \A r \in Requests : /\ pc'[r] # "idle" => pc[r] # "idle"
                          /\ pc'[r] = "storing" => pc[r] = "storing"
  BY <1>1 DEF Interrupted
<1>3. StoredRefreshTokenWorks'
  <2>1. CASE cred.refresh \in {0} \cup alive \cup dropped
    BY <1>1, <2>1 DEF StoredRefreshTokenWorks
  <2>3. CASE KeptWhileRefreshed
    <3>1. \A r \in Requests : pc[r] # "idle" => pc'[r] # "idle"
      BY <1>1
    <3>2. KeptWhileRefreshed'
      BY <1>1, <2>3, <3>1 DEF KeptWhileRefreshed
    <3> QED BY <3>2 DEF StoredRefreshTokenWorks
  <2>2. ASSUME NEW r \in Requests, pc[r] = "storing", read[r].refresh = cred.refresh,
               read[r].updatedAt = cred.updatedAt
        PROVE  StoredRefreshTokenWorks'
    <3>1. CASE r \in Interrupted(i)
      BY <1>1, <2>2, <3>1 DEF StoredRefreshTokenWorks
    <3>2. CASE r \notin Interrupted(i)
      BY <1>1, <2>2, <3>2 DEF StoredRefreshTokenWorks
    <3> QED BY <3>1, <3>2
  <2> QED BY <2>1, <2>2, <2>3 DEF RefreshInv, StoredRefreshTokenWorks
<1>o. Origins' BY <1>1 DEF RefreshInv, Origins
<1>4. ASSUME rotates PROVE WithRotation'
  <2>1. WithRotation BY <1>4 DEF RefreshInv
  <2>2. ASSUME NEW s \in Requests PROVE ReadBefore(s)'
    BY <1>1, <1>2, <2>1 DEF WithRotation, ReadBefore
  <2>3. ASSUME NEW s \in Requests PROVE AnswerIsNew(s)'
    BY <1>1, <1>2, <2>1 DEF WithRotation, AnswerIsNew
  <2> QED BY <1>1, <2>1, <2>2, <2>3 DEF WithRotation
<1>5. ASSUME ~rotates PROVE WithoutRotation'
  BY <1>1, <1>2, <1>5 DEF RefreshInv, WithoutRotation
<1> QED BY <1>1, <1>o, <1>3, <1>4, <1>5 DEF RefreshInv

LEMMA NextKeepsRefresh ==
    ASSUME CasInv, RefreshInv, [Next]_vars
    PROVE  RefreshInv'
<1>1. ASSUME NEW r \in Requests, Step(r) PROVE RefreshInv'
  BY <1>1, StepKeepsRefresh
<1>2. ASSUME NEW i \in Instances, Restart(i) PROVE RefreshInv'
  BY <1>2, RestartKeepsRefresh
<1>3. CASE UNCHANGED vars
  BY <1>3 DEF vars, vk, history, RefreshInv, StoredRefreshTokenWorks, KeptWhileRefreshed,
     Origins, WithRotation, WithoutRotation, ReadBefore, AnswerIsNew
<1> QED BY <1>1, <1>2, <1>3, LoginKeepsRefresh, ExpireKeepsRefresh DEF Next

(* The order in which refreshes, logins and restarts finish never leaves a *)
(* used-up refresh token in the row: it is one VK takes, or its answer is  *)
(* on its way or was lost, or a login without one kept it meanwhile.       *)
THEOREM StoredTokenWorks == Spec => []StoredRefreshTokenWorks
<1>1. CasInv /\ RefreshInv /\ [Next]_vars => RefreshInv'
  BY NextKeepsRefresh
<1>2. RefreshInv => StoredRefreshTokenWorks
  BY DEF RefreshInv
<1> QED BY <1>1, <1>2, InitCas, InitRefresh, NextKeepsCas, PTL DEF Spec

-----------------------------------------------------------------------------
(* Where every login brings a refresh token, none is kept: all tokens that *)
(* calls know are older than the one a login brings.                       *)

TokensIssued ==
    /\ cred.refresh <= issued
    /\ \A r \in Requests :
          /\ pc[r] # "idle" => read[r].refresh <= issued
          /\ pc[r] = "storing" => reply[r].refresh <= issued

LoginsReplace ==
    from[cred.access] = 0 =>
        \A r \in Requests :
            pc[r] # "idle" /\ read[r].updatedAt # cred.updatedAt =>
                read[r].refresh # cred.refresh

LoginInv == TokensIssued /\ LoginsReplace

LEMMA InitLogin == Init => LoginInv
BY DEF Init, LoginInv, TokensIssued, LoginsReplace

(* Nothing happens to the row but that it expires. *)
LEMMA RowKeepsLogin ==
    ASSUME CasInv, LoginInv,
           cred'.access = cred.access, cred'.refresh = cred.refresh,
           cred'.updatedAt = cred.updatedAt,
           issued' \in Nat, issued <= issued', from'[cred.access] = from[cred.access],
           \A s \in Requests :
              /\ pc'[s] # "idle" => read'[s] = cred \/ (read'[s] = read[s] /\ pc[s] # "idle")
              /\ pc'[s] = "storing" =>
                    reply'[s].refresh <= issued' \/ (reply'[s] = reply[s] /\ pc[s] = "storing")
    PROVE  LoginInv'
<1>1. /\ issued \in Nat /\ cred.refresh \in Nat
      /\ \A s \in Requests : /\ pc[s] # "idle" => read[s].refresh \in Nat
                             /\ pc[s] = "storing" => reply[s].refresh \in Nat
  BY ConstantsAssumption DEF CasInv, TypeOK, Grants, Rows, CallInv, ReadsStored, AnswersRead,
     Replies
<1>2. TokensIssued'
  BY <1>1 DEF LoginInv, TokensIssued
<1>3. LoginsReplace'
  BY DEF LoginInv, LoginsReplace
<1> QED BY <1>2, <1>3 DEF LoginInv

LEMMA StepKeepsLogin ==
    ASSUME NEW r \in Requests, CasInv, RefreshInv, LoginInv, Step(r)
    PROVE  LoginInv'
<1>0. TypeOK /\ issued \in Nat /\ CallInv(r) BY DEF CasInv, TypeOK, Grants
<1>1. CASE UseStored(r) \/ JoinFlight(r) \/ StartFlight(r) \/ VkRefuses(r)
           \/ VkUnreachable(r) \/ Cleanup(r) \/ FinishJoined(r)
  <2>1. /\ UNCHANGED <<cred, read, reply, issued, from>>
        /\ pc[r] \in {"read", "calling", "settled", "joined"}
        /\ \E there \in {"done", "joined", "calling", "settled"} : pc' = [pc EXCEPT ![r] = there]
    BY <1>1 DEF UseStored, JoinFlight, StartFlight, MustRefresh, VkRefuses, VkUnreachable,
       Cleanup, FinishJoined, End, Goto, vk, history
  <2> QED BY <1>0, <2>1, RowKeepsLogin DEF TypeOK
<1>2. CASE ReadCredentials(r)
  <2>1. /\ UNCHANGED <<cred, reply, issued, from>>
        /\ pc' = [pc EXCEPT ![r] = "read"] /\ read' = [read EXCEPT ![r] = cred]
    BY <1>2 DEF ReadCredentials, Goto, vk
  <2> QED BY <1>0, <2>1, RowKeepsLogin DEF TypeOK
<1>3. CASE VkAccepts(r) \/ AnswerUnused(r)
  <2>1. /\ UNCHANGED <<cred, read>> /\ issued' = issued + 1 /\ pc[r] = "calling"
        /\ from' = [from EXCEPT ![issued + 1] = read[r].refresh]
        /\ \E there \in {"storing", "settled"} : pc' = [pc EXCEPT ![r] = there]
    BY <1>3 DEF VkAccepts, AnswerUnused, Issue, Goto
  <2>2. from'[cred.access] = from[cred.access]
    BY <1>0, <2>1 DEF RefreshInv, Origins, TypeOK, Rows, Grants
  <2>3. read[r].refresh <= issued /\ read[r].refresh \in Nat
    BY <1>0, <2>1, ConstantsAssumption
       DEF LoginInv, TokensIssued, CallInv, HasRefreshToken, Grants
  <2>4. ASSUME NEW s \in Requests, pc'[s] = "storing"
        PROVE  reply'[s].refresh <= issued' \/ (reply'[s] = reply[s] /\ pc[s] = "storing")
    <3>1. CASE s # r
      BY <1>0, <1>3, <2>1, <2>4, <3>1 DEF VkAccepts, AnswerUnused, TypeOK
    <3>2. CASE s = r /\ VkAccepts(r)
      <4>1. PICK expiry \in {"fresh", "unknown"} :
              reply' = [reply EXCEPT ![r] =
                  [access |-> issued', expiry |-> expiry,
                   refresh |-> IF rotates THEN issued' ELSE read[r].refresh]]
        BY <3>2 DEF VkAccepts
      <4>2. reply'[r].refresh = IF rotates THEN issued' ELSE read[r].refresh
        BY <1>0, <4>1 DEF TypeOK
      <4> QED BY <1>0, <2>1, <2>3, <3>2, <4>2
    <3>3. CASE s = r /\ AnswerUnused(r)
      BY <1>0, <2>4, <3>3 DEF AnswerUnused, Goto, TypeOK
    <3> QED BY <1>3, <3>1, <3>2, <3>3
  <2>5. \A s \in Requests : pc'[s] # "idle" => pc[s] # "idle"
    BY <1>0, <2>1 DEF TypeOK
  <2> QED BY <1>0, <2>1, <2>2, <2>4, <2>5, RowKeepsLogin
<1>4. CASE StoreRefreshed(r)
  <2>1. /\ UNCHANGED <<read, reply, issued, from>>
        /\ pc[r] = "storing" /\ pc' = [pc EXCEPT ![r] = "settled"]
    BY <1>4 DEF StoreRefreshed, Goto, vk
  <2>2. CASE cred' = cred
    BY <1>0, <2>1, <2>2, RowKeepsLogin DEF TypeOK
  <2>3. CASE cred'.access = reply[r].access /\ cred'.refresh = reply[r].refresh
    <3>1. from'[cred'.access] # 0
      BY <1>0, <2>1, <2>3, ConstantsAssumption
         DEF CallInv, AnswersRead, HasRefreshToken, Grants
    <3>2. TokensIssued'
      BY <1>0, <2>1, <2>3 DEF LoginInv, TokensIssued, TypeOK
    <3> QED BY <3>1, <3>2 DEF LoginInv, LoginsReplace
  <2> QED BY <1>4, <2>2, <2>3 DEF StoreRefreshed, NewRefreshToken
<1> QED BY <1>1, <1>2, <1>3, <1>4 DEF Step, CallVk

LEMMA NextKeepsLogin ==
    ASSUME FALSE \notin LoginRefresh, CasInv, RefreshInv, LoginInv, [Next]_vars
    PROVE  LoginInv'
<1>0. TypeOK /\ issued \in Nat BY DEF CasInv, TypeOK, Grants
<1>1. ASSUME NEW r \in Requests, Step(r) PROVE LoginInv'
  BY <1>1, StepKeepsLogin
<1>2. ASSUME NEW i \in Instances, Restart(i) PROVE LoginInv'
  <2>1. /\ UNCHANGED <<cred, read, reply, issued, from>>
        /\ \A s \in Requests : /\ pc'[s] # "idle" => pc[s] # "idle"
                               /\ pc'[s] = "storing" => pc[s] = "storing"
    BY <1>2 DEF Restart, Interrupted, vk
  <2> QED BY <1>0, <2>1, RowKeepsLogin
<1>3. CASE Login
  <2>1. /\ issued' = issued + 1 /\ cred'.refresh = issued + 1
        /\ UNCHANGED <<pc, read, reply>>
    <3>1. PICK expiry \in {"fresh", "due"}, withRefresh \in LoginRefresh :
            cred' = Upserted(issued', expiry, withRefresh)
      BY <1>3 DEF Login
    <3>2. withRefresh BY ConstantsAssumption
    <3> QED BY <1>3, <3>1, <3>2 DEF Login, Upserted
  <2>2. \A s \in Requests : /\ pc[s] # "idle" => read[s].refresh \in Nat
                            /\ pc[s] = "storing" => reply[s].refresh \in Nat
    BY ConstantsAssumption DEF CasInv, Grants, Rows, CallInv, ReadsStored, AnswersRead, Replies
  <2>3. TokensIssued'
    BY <1>0, <2>1, <2>2 DEF LoginInv, TokensIssued
  <2>4. LoginsReplace'
    BY <1>0, <2>1, <2>2 DEF LoginInv, TokensIssued, LoginsReplace
  <2> QED BY <2>3, <2>4 DEF LoginInv
<1>4. CASE Expire
  <2>1. /\ cred'.access = cred.access /\ cred'.refresh = cred.refresh
        /\ cred'.updatedAt = cred.updatedAt
        /\ UNCHANGED <<pc, read, reply, issued, from>>
    BY <1>4 DEF Expire, vk
  <2> QED BY <1>0, <2>1, RowKeepsLogin
<1>5. CASE UNCHANGED vars
  BY <1>0, <1>5, RowKeepsLogin DEF vars, vk, history
<1> QED BY <1>1, <1>2, <1>3, <1>4, <1>5 DEF Next

(* Where every login brings a refresh token, no login keeps one that is    *)
(* being replaced: the stored refresh token is one VK takes, unless its    *)
(* answer is on its way or was lost.                                       *)
THEOREM NothingDeadIsKept ==
    ASSUME FALSE \notin LoginRefresh
    PROVE  Spec => [](StoredRefreshTokenWorks /\ ~KeptWhileRefreshed)
<1>1. CasInv /\ RefreshInv /\ [Next]_vars => RefreshInv'
  BY NextKeepsRefresh
<1>2. CasInv /\ RefreshInv /\ LoginInv /\ [Next]_vars => LoginInv'
  BY NextKeepsLogin
<1>3. CasInv /\ RefreshInv /\ LoginInv => StoredRefreshTokenWorks /\ ~KeptWhileRefreshed
  <2> SUFFICES ASSUME CasInv, LoginInv, KeptWhileRefreshed PROVE FALSE
    BY DEF RefreshInv
  <2>1. PICK r \in Requests : /\ pc[r] # "idle" /\ read[r].updatedAt < cred.updatedAt
                              /\ read[r].refresh = cred.refresh
    BY DEF KeptWhileRefreshed
  <2>2. read[r].updatedAt \in Nat /\ cred.updatedAt \in Nat
    BY <2>1 DEF CasInv, TypeOK, Rows, CallInv, ReadsStored
  <2> QED BY <2>1, <2>2 DEF KeptWhileRefreshed, LoginInv, LoginsReplace
<1> QED BY <1>1, <1>2, <1>3, InitCas, InitRefresh, InitLogin, NextKeepsCas, PTL DEF Spec
===============================================================================
