------------------------ MODULE GiveawayLifecycleProofs ------------------------
(* Proofs about GiveawayLifecycle, for any number of rows, rules, seeds,     *)
(* requests and locks, and any draw algorithm.                               *)
EXTENDS GiveawayLifecycle, TLAPS

(* Moving one request leaves the data of every request well shaped. *)
LEMMA GotoTypes ==
    ASSUME TypeOK, NEW r \in Requests, NEW label \in Labels, NEW j \in Jobs,
           JobFits(label, j), Goto(r, label, j)
    PROVE  /\ pc' \in [Requests -> Labels]
           /\ job' \in [Requests -> Jobs]
           /\ \A q \in Requests : JobFits(pc'[q], job'[q])
BY DEF TypeOK, Goto

(* The types of what a draw computes. *)
LEMMA ComputeDrawType ==
    ASSUME TypeOK, NEW n \in Needs, Latest > 0, seed # None
    PROVE  ComputeDraw(seed, Latest, n) \in Results
<1>1. snapshots[Latest] \in Snapshots
    BY DEF TypeOK, Latest
<1>2. seed \in Seeds /\ snapshots[Latest].eligible \in SUBSET Rows
    BY <1>1 DEF TypeOK, Snapshots
<1>3. Outcome(seed, snapshots[Latest].eligible, n) \in Seq(Rows)
    BY <1>2, ConstantsAssumption
<1>4. Latest \in Nat \ {0}
    BY DEF TypeOK, Latest
<1> QED
    BY <1>2, <1>3, <1>4 DEF ComputeDraw, Results

(* Every step keeps every column and every request's data in shape. *)
LEMMA TypeStep == TypeOK /\ [Next]_vars => TypeOK'
<1> SUFFICES ASSUME TypeOK, [Next]_vars PROVE TypeOK'
    OBVIOUS
<1> USE DEF store, History
<1>1. ASSUME NEW r \in Requests, FetchParticipants(r) PROVE TypeOK'
    <2>1. PICK rows \in SUBSET Rows : Goto(r, "saveParticipants", [rows |-> rows])
        BY <1>1 DEF FetchParticipants
    <2>2. [rows |-> rows] \in Jobs /\ JobFits("saveParticipants", [rows |-> rows])
        BY DEF Jobs, JobFits
    <2>3. "saveParticipants" \in Labels
        BY DEF Labels
    <2>4. QED
        BY <1>1, <2>1, <2>2, <2>3, GotoTypes DEF TypeOK, FetchParticipants
<1> DEFINE IdleJob == None \in Jobs /\ JobFits("idle", None) /\ "idle" \in Labels
<1>idle. IdleJob
    BY DEF Jobs, JobFits, Labels
<1>2. ASSUME NEW r \in Requests, SaveParticipants(r) PROVE TypeOK'
    <2>1. Goto(r, "idle", None)
        BY <1>2 DEF SaveParticipants, Refuse
    <2>2. job[r] \in [rows : SUBSET Rows]
        BY <1>2 DEF SaveParticipants, TypeOK, JobFits
    <2>3. QED
        BY <1>2, <2>1, <2>2, <1>idle, GotoTypes DEF TypeOK, SaveParticipants, Refuse
<1>3. ASSUME NEW r \in Requests, FilterForLock(r) PROVE TypeOK'
    <2>1. PICK u \in Rules :
            Goto(r, "lockCheck", [eligible |-> Eligible(participants, u), rules |-> u])
        BY <1>3 DEF FilterForLock
    <2>2. [eligible |-> Eligible(participants, u), rules |-> u] \in Snapshots
        BY DEF TypeOK, Eligible, Snapshots
    <2> DEFINE j == [eligible |-> Eligible(participants, u), rules |-> u]
    <2>3. j \in Jobs /\ JobFits("lockCheck", j) /\ "lockCheck" \in Labels
        BY <2>2 DEF Jobs, JobFits, Labels
    <2>4. QED
        BY <1>3, <2>1, <2>3, GotoTypes DEF TypeOK, FilterForLock
<1>4. ASSUME NEW r \in Requests, CheckLock(r) PROVE TypeOK'
    <2>1. job[r] \in Jobs /\ JobFits("lockTx", job[r]) /\ "lockTx" \in Labels
        BY <1>4 DEF CheckLock, TypeOK, JobFits, Labels
    <2>2. QED
        BY <1>4, <2>1, <1>idle, GotoTypes DEF TypeOK, CheckLock, Refuse
<1>5. ASSUME NEW r \in Requests, CreateAndLockSnapshot(r) PROVE TypeOK'
    <2>1. CASE ~MayLock(status)
        BY <1>5, <2>1, <1>idle, GotoTypes DEF TypeOK, CreateAndLockSnapshot, Refuse
    <2>2. CASE MayLock(status)
        <3>1. PICK s \in FreshSeeds :
                /\ status' = "SNAPSHOT_LOCKED"
                /\ filterRules' = job[r].rules
                /\ seed' = s
                /\ snapshots' = NewSnapshots(job[r])
                /\ lockSeeds' = Append(lockSeeds, s)
                /\ Goto(r, "reply", [op |-> "lock", version |-> NextVersion, seed |-> s])
            BY <1>5, <2>2 DEF CreateAndLockSnapshot
        <3>2. job[r] \in Snapshots /\ s \in Seeds
            BY <1>5 DEF CreateAndLockSnapshot, TypeOK, JobFits, FreshSeeds
        <3>3. /\ snapshots' \in Seq(Snapshots) /\ lockSeeds' \in Seq(Seeds)
              /\ filterRules' \in Rules /\ seed' \in Seeds \cup {None}
              /\ status' \in Statuses
            BY <3>1, <3>2 DEF TypeOK, NewSnapshots, Snapshots, Statuses
        <3> DEFINE j == [op |-> "lock", version |-> NextVersion, seed |-> s]
        <3>4. j \in Replies
            BY <3>2 DEF TypeOK, Replies, NextVersion, Latest
        <3>5. j \in Jobs /\ JobFits("reply", j) /\ "reply" \in Labels
            BY <3>4 DEF Jobs, JobFits, Labels
        <3>6. QED
            BY <1>5, <2>2, <3>1, <3>3, <3>5, GotoTypes DEF TypeOK, CreateAndLockSnapshot
    <2>3. QED
        BY <2>1, <2>2
<1>6. ASSUME NEW r \in Requests, RequestUnlock(r) PROVE TypeOK'
    <2>1. JobFits("unlockCheck", None) /\ "unlockCheck" \in Labels
        BY DEF JobFits, Labels
    <2>2. QED
        BY <1>6, <2>1, <1>idle, GotoTypes DEF TypeOK, RequestUnlock
<1>7. ASSUME NEW r \in Requests, CheckUnlock(r) PROVE TypeOK'
    <2>1. JobFits("unlockTx", None) /\ "unlockTx" \in Labels
        BY DEF JobFits, Labels
    <2>2. QED
        BY <1>7, <2>1, <1>idle, GotoTypes DEF TypeOK, CheckUnlock, Refuse
<1>8. ASSUME NEW r \in Requests, UnlockSnapshot(r) PROVE TypeOK'
    <2>1. JobFits("unlockReread", None) /\ "unlockReread" \in Labels
        BY DEF JobFits, Labels
    <2>2. "READY" \in Statuses
        BY DEF Statuses
    <2>3. QED
        BY <1>8, <2>1, <2>2, <1>idle, GotoTypes
        DEF TypeOK, UnlockSnapshot, Refuse, SeedAfterUnlock
<1>9. ASSUME NEW r \in Requests, RereadUnlocked(r) PROVE TypeOK'
    <2> DEFINE j == [op |-> "unlock", status |-> status]
    <2>1. j \in Replies
        BY DEF TypeOK, Replies
    <2>2. j \in Jobs /\ JobFits("reply", j) /\ "reply" \in Labels
        BY <2>1 DEF Jobs, JobFits, Labels
    <2>3. QED
        BY <1>9, <2>2, GotoTypes DEF TypeOK, RereadUnlocked
<1>10. ASSUME NEW r \in Requests, RunDraw(r) PROVE TypeOK'
    <2>1. PICK n \in Needs : Goto(r, "drawCheck", ComputeDraw(seed, Latest, n))
        BY <1>10 DEF RunDraw
    <2> DEFINE j == ComputeDraw(seed, Latest, n)
    <2>2. j \in Results
        BY <1>10, ComputeDrawType DEF RunDraw
    <2>3. j \in Jobs /\ JobFits("drawCheck", j) /\ "drawCheck" \in Labels
        BY <2>2 DEF Jobs, JobFits, Labels
    <2> HIDE DEF j
    <2>4. Goto(r, "drawCheck", j)
        BY <2>1 DEF j
    <2>5. QED
        BY <1>10, <2>3, <2>4, GotoTypes DEF TypeOK, RunDraw
<1>11. ASSUME NEW r \in Requests, CheckDraw(r) PROVE TypeOK'
    <2>1. job[r] \in Jobs /\ JobFits("drawTx", job[r]) /\ "drawTx" \in Labels
        BY <1>11 DEF CheckDraw, TypeOK, JobFits, Labels
    <2>2. QED
        BY <1>11, <2>1, <1>idle, GotoTypes DEF TypeOK, CheckDraw, Refuse
<1>12. ASSUME NEW r \in Requests, SaveDrawResultAndAudit(r) PROVE TypeOK'
    <2> DEFINE j == [op |-> "draw", result |-> job[r]]
    <2>1. job[r] \in Results
        BY <1>12 DEF SaveDrawResultAndAudit, TypeOK, JobFits
    <2>2. j \in Replies /\ job[r].seed \in Seeds
        BY <2>1 DEF Replies, Results
    <2>3. j \in Jobs /\ JobFits("reply", j) /\ "reply" \in Labels
        BY <2>2 DEF Jobs, JobFits, Labels
    <2>4. "DRAWN" \in Statuses
        BY DEF Statuses
    <2>5. QED
        BY <1>12, <2>1, <2>2, <2>3, <2>4, <1>idle, GotoTypes
        DEF TypeOK, SaveDrawResultAndAudit, Refuse
<1>13. ASSUME NEW r \in Requests, DeliverReply(r) PROVE TypeOK'
    <2>1. job[r] \in Replies
        BY <1>13 DEF DeliverReply, TypeOK, JobFits
    <2>2. job[r].op = "draw" => job[r].result.seed \in Seeds
        BY <2>1 DEF Replies, Results
    <2>3. QED
        BY <1>13, <2>1, <2>2, <1>idle, GotoTypes DEF TypeOK, DeliverReply
<1>14. CASE ViewGiveaway
    <2>1. revealed' \in SUBSET Seeds
        BY <1>14 DEF ViewGiveaway, ExposedSeed, TypeOK
    <2>2. QED
        BY <1>14, <2>1 DEF ViewGiveaway, TypeOK
<1>15. ASSUME NEW r \in Requests, Crash(r) PROVE TypeOK'
    BY <1>15, <1>idle, GotoTypes DEF TypeOK, Crash, Refuse
<1>16. CASE UNCHANGED vars
    BY <1>16 DEF TypeOK, vars
<1> QED
    BY <1>1, <1>2, <1>3, <1>4, <1>5, <1>6, <1>7, <1>8, <1>9, <1>10, <1>11, <1>12,
       <1>13, <1>14, <1>15, <1>16 DEF Next, Arrive, Continue

(* Main theorem on types: they hold in every reachable state. *)
THEOREM TypeCorrect == Spec => []TypeOK
<1>1. Init => TypeOK
    BY ConstantsAssumption DEF Init, TypeOK, Statuses, Labels, Jobs, JobFits
<1> QED
    BY <1>1, TypeStep, PTL DEF Spec

-----------------------------------------------------------------------------
(* What a step may do to the ledger of snapshots and commitments, and to     *)
(* the draw, without disturbing what requests carry or clients hold.         *)
LedgerGrows ==
    /\ Len(snapshots') >= Len(snapshots)
    /\ Len(lockSeeds') >= Len(lockSeeds)
    /\ \A v \in 1..Len(snapshots) : snapshots'[v] = snapshots[v]
    /\ \A v \in 1..Len(lockSeeds) : lockSeeds'[v] = lockSeeds[v]

DrawKept == drawResult = None \/ drawResult' = drawResult

(* A result that verifies goes on verifying while the ledger grows. *)
LEMMA VerifiableKept ==
    ASSUME TypeOK, TypeOK', LedgerGrows, NEW d \in Results, Verifiable(d)
    PROVE  Verifiable(d)'
<1>1. /\ Len(snapshots) \in Nat /\ Len(snapshots') \in Nat
      /\ Len(lockSeeds) \in Nat /\ Len(lockSeeds') \in Nat
    BY DEF TypeOK
<1>2. snapshots'[d.version] = snapshots[d.version] /\ lockSeeds'[d.version] = lockSeeds[d.version]
    BY DEF LedgerGrows, Verifiable
<1>3. d.version \in 1..Len(snapshots') /\ d.version \in 1..Len(lockSeeds')
    BY <1>1 DEF LedgerGrows, Verifiable
<1> QED
    BY <1>2, <1>3 DEF Verifiable

(* A reply that is true stays true: no result is ever replaced. *)
LEMMA ReplyKept ==
    ASSUME TypeOK, TypeOK', LedgerGrows, DrawKept, NEW p \in Replies, ReplyHolds(p)
    PROVE  ReplyHolds(p)'
<1>1. p.op = "draw" => p.result \in Results
    BY DEF Replies
<1>2. p.op = "draw" => p.result = drawResult'
    BY <1>1, NoneAssumption DEF ReplyHolds, DrawKept
<1>3. p.op = "lock" => p.version \in Nat \ {0}
    BY DEF Replies
<1>4. p.op = "lock" => p.version <= Len(lockSeeds') /\ p.seed = lockSeeds'[p.version]
    BY <1>3 DEF ReplyHolds, LedgerGrows, TypeOK
<1> QED
    BY <1>2, <1>4 DEF ReplyHolds

(* What every handler carries across its awaits stays usable. *)
LEMMA InFlightStep ==
    ASSUME TypeOK, TypeOK', InFlight, LedgerGrows, DrawKept,
           NEW r \in Requests, NEW label, NEW j, Goto(r, label, j), Carries(label, j)'
    PROVE  InFlight'
<1> SUFFICES ASSUME NEW q \in Requests PROVE Carries(pc[q], job[q])'
    BY DEF InFlight
<1>1. CASE q = r
    <2>1. pc'[r] = label /\ job'[r] = j
        BY DEF Goto, TypeOK
    <2> QED
        BY <1>1, <2>1 DEF Carries, Verifiable, ReplyHolds
<1>2. CASE q # r
    <2>1. pc'[q] = pc[q] /\ job'[q] = job[q]
        BY <1>2 DEF Goto, TypeOK
    <2>2. JobFits(pc[q], job[q]) /\ Carries(pc[q], job[q])
        BY DEF TypeOK, InFlight
    <2> QED
        BY <2>1, <2>2, VerifiableKept, ReplyKept DEF Carries, JobFits
<1> QED
    BY <1>1, <1>2

(* What clients hold stays true. *)
LEMMA RepliesStep ==
    ASSUME TypeOK, TypeOK', RepliesStayTrue, LedgerGrows, DrawKept, replies' = replies
    PROVE  RepliesStayTrue'
<1> SUFFICES ASSUME NEW p \in replies PROVE ReplyHolds(p)'
    BY DEF RepliesStayTrue
<1>1. p \in Replies /\ ReplyHolds(p)
    BY DEF TypeOK, RepliesStayTrue
<1> QED
    BY <1>1, ReplyKept

(* A step of one handler that stores nothing. *)
LEMMA StoreKept ==
    ASSUME IInv, TypeOK', UNCHANGED <<store, lockSeeds, replies, revealed>>,
           NEW r \in Requests, NEW label, NEW j, Goto(r, label, j), Carries(label, j)
    PROVE  IInv'
<1>1. LedgerGrows /\ DrawKept
    BY DEF LedgerGrows, DrawKept, store, IInv, TypeOK
<1>2. Carries(label, j)'
    BY DEF Carries, Verifiable, ReplyHolds, store
<1>3. InFlight'
    BY <1>1, <1>2, InFlightStep DEF IInv
<1>4. RepliesStayTrue'
    BY <1>1, RepliesStep DEF IInv
<1>5. /\ ReachedStatus' /\ SnapshotsCommitted' /\ DrawIsVerifiable'
      /\ LockHoldsItsCommitment' /\ SecretUntilDrawn'
    BY DEF IInv, store, ReachedStatus, SnapshotsCommitted, DrawIsVerifiable, Verifiable,
           LockHoldsItsCommitment, SecretUntilDrawn, Latest
<1> QED
    BY <1>3, <1>4, <1>5 DEF IInv

(* The lock appends one snapshot and its commitment. *)
LEMMA LockStep ==
    ASSUME IInv, TypeOK', NEW r \in Requests, CreateAndLockSnapshot(r), MayLock(status)
    PROVE  IInv'
<1>1. PICK s \in FreshSeeds :
        /\ status' = "SNAPSHOT_LOCKED"
        /\ filterRules' = job[r].rules
        /\ seed' = s
        /\ snapshots' = Append(snapshots, job[r])
        /\ lockSeeds' = Append(lockSeeds, s)
        /\ Goto(r, "reply", [op |-> "lock", version |-> Latest + 1, seed |-> s])
    BY DEF CreateAndLockSnapshot, NewSnapshots, NextVersion
<1>2. /\ job[r] \in Snapshots /\ s \in Seeds
      /\ job[r].eligible # {} /\ job[r].eligible \subseteq Passing[job[r].rules]
    BY DEF CreateAndLockSnapshot, IInv, TypeOK, JobFits, FreshSeeds, InFlight, Carries
<1>3. /\ Len(snapshots') = Latest + 1 /\ snapshots'[Latest + 1] = job[r]
      /\ Len(lockSeeds') = Latest + 1 /\ lockSeeds'[Latest + 1] = s
      /\ \A v \in 1..Latest : snapshots'[v] = snapshots[v] /\ lockSeeds'[v] = lockSeeds[v]
      /\ Latest \in Nat /\ Latest = Len(lockSeeds)
    BY <1>1, <1>2 DEF IInv, TypeOK, Latest, SnapshotsCommitted
<1>4. LedgerGrows /\ DrawKept
    BY <1>3 DEF LedgerGrows, DrawKept, CreateAndLockSnapshot, Latest
<1>5. PICK j : j = [op |-> "lock", version |-> Latest + 1, seed |-> s]
    OBVIOUS
<1>51. Carries("reply", j)'
    BY <1>3, <1>5 DEF Carries, ReplyHolds
<1>6. InFlight'
    BY <1>1, <1>4, <1>5, <1>51, InFlightStep DEF IInv
<1>7. UNCHANGED <<drawResult, replies, revealed>> /\ status = "READY"
    BY DEF CreateAndLockSnapshot, MayLock
<1>8. RepliesStayTrue'
    BY <1>4, <1>7, RepliesStep DEF IInv
<1>9. SnapshotsCommitted'
    BY <1>2, <1>3 DEF IInv, SnapshotsCommitted, Latest
<1>10. LockHoldsItsCommitment'
    BY <1>1, <1>2, <1>3, NoneAssumption DEF LockHoldsItsCommitment, Latest
<1>11. ReachedStatus' /\ DrawIsVerifiable' /\ SecretUntilDrawn'
    BY <1>1, <1>7 DEF IInv, ReachedStatus, DrawIsVerifiable, SecretUntilDrawn
<1> QED
    BY <1>6, <1>8, <1>9, <1>10, <1>11 DEF IInv

(* The draw stores the one result there will be. *)
LEMMA SaveDrawStep ==
    ASSUME IInv, TypeOK', NEW r \in Requests, SaveDrawResultAndAudit(r), MaySaveDraw(status)
    PROVE  IInv'
<1>1. /\ status' = "DRAWN" /\ seed' = job[r].seed /\ drawResult' = job[r]
      /\ Goto(r, "reply", [op |-> "draw", result |-> job[r]])
      /\ UNCHANGED <<snapshots, lockSeeds, replies, revealed>>
      /\ drawResult = None
    BY DEF SaveDrawResultAndAudit, MaySaveDraw, History
<1>2. job[r] \in Results /\ Verifiable(job[r]) /\ job[r].seed \in Seeds
    BY DEF SaveDrawResultAndAudit, IInv, TypeOK, JobFits, InFlight, Carries, Results
<1>3. job[r] # None /\ job[r].seed # None
    BY <1>2, NoneAssumption
<1>4. LedgerGrows /\ DrawKept
    BY <1>1 DEF LedgerGrows, DrawKept, IInv, TypeOK
<1>5. PICK j : j = [op |-> "draw", result |-> job[r]]
    OBVIOUS
<1>51. Carries("reply", j)'
    BY <1>1, <1>5 DEF Carries, ReplyHolds
<1>6. InFlight'
    BY <1>1, <1>4, <1>5, <1>51, InFlightStep DEF IInv
<1>7. RepliesStayTrue'
    BY <1>1, <1>4, RepliesStep DEF IInv
<1>8. ReachedStatus' /\ SnapshotsCommitted' /\ LockHoldsItsCommitment'
    BY <1>1, <1>3 DEF IInv, ReachedStatus, SnapshotsCommitted, LockHoldsItsCommitment
<1>9. DrawIsVerifiable'
    BY <1>1, <1>2, <1>3 DEF DrawIsVerifiable, Verifiable
<1>10. SecretUntilDrawn'
    BY <1>1 DEF IInv, SecretUntilDrawn
<1> QED
    BY <1>6, <1>7, <1>8, <1>9, <1>10 DEF IInv

(* The unlock drops the seed and keeps the ledger. *)
LEMMA UnlockStep ==
    ASSUME IInv, TypeOK', NEW r \in Requests, UnlockSnapshot(r), MayUnlock(status)
    PROVE  IInv'
<1>1. /\ status' = "READY" /\ seed' = None /\ status = "SNAPSHOT_LOCKED"
      /\ Goto(r, "unlockReread", None)
      /\ UNCHANGED <<snapshots, lockSeeds, replies, revealed, drawResult>>
    BY DEF UnlockSnapshot, MayUnlock, SeedAfterUnlock, History
<1>2. LedgerGrows /\ DrawKept
    BY <1>1 DEF LedgerGrows, DrawKept, IInv, TypeOK
<1>3. Carries("unlockReread", None)'
    BY DEF Carries
<1>4. InFlight'
    BY <1>1, <1>2, <1>3, InFlightStep DEF IInv
<1>5. RepliesStayTrue'
    BY <1>1, <1>2, RepliesStep DEF IInv
<1>6. /\ ReachedStatus' /\ SnapshotsCommitted' /\ LockHoldsItsCommitment'
      /\ DrawIsVerifiable' /\ SecretUntilDrawn'
    BY <1>1 DEF IInv, ReachedStatus, SnapshotsCommitted, LockHoldsItsCommitment,
                DrawIsVerifiable, SecretUntilDrawn
<1> QED
    BY <1>4, <1>5, <1>6 DEF IInv

(* An import leaves everything but the participants alone. *)
LEMMA ImportStep ==
    ASSUME IInv, TypeOK', NEW r \in Requests, SaveParticipants(r), MayImport(status)
    PROVE  IInv'
<1>1. /\ Goto(r, "idle", None)
      /\ UNCHANGED <<status, filterRules, seed, snapshots, drawResult>>
      /\ UNCHANGED <<lockSeeds, replies, revealed>>
    BY DEF SaveParticipants, History
<1>2. LedgerGrows /\ DrawKept
    BY <1>1 DEF LedgerGrows, DrawKept, IInv, TypeOK
<1>3. Carries("idle", None)'
    BY DEF Carries
<1>4. InFlight'
    BY <1>1, <1>2, <1>3, InFlightStep DEF IInv
<1>5. RepliesStayTrue'
    BY <1>1, <1>2, RepliesStep DEF IInv
<1>6. /\ ReachedStatus' /\ SnapshotsCommitted' /\ LockHoldsItsCommitment'
      /\ DrawIsVerifiable' /\ SecretUntilDrawn'
    BY <1>1 DEF IInv, ReachedStatus, SnapshotsCommitted, LockHoldsItsCommitment, Latest,
                DrawIsVerifiable, Verifiable, SecretUntilDrawn
<1> QED
    BY <1>4, <1>5, <1>6 DEF IInv

(* A delivered reply was true when the store made it, and still is. *)
LEMMA DeliverStep ==
    ASSUME IInv, TypeOK', NEW r \in Requests, DeliverReply(r)
    PROVE  IInv'
<1>1. /\ Goto(r, "idle", None) /\ UNCHANGED <<store, lockSeeds>>
      /\ replies' = replies \cup {job[r]}
      /\ revealed' = revealed \cup
            (IF job[r].op = "draw" THEN {job[r].result.seed} ELSE {})
    BY DEF DeliverReply
<1>2. job[r] \in Replies /\ ReplyHolds(job[r])
    BY DEF DeliverReply, IInv, TypeOK, JobFits, InFlight, Carries
<1>3. LedgerGrows /\ DrawKept
    BY <1>1 DEF LedgerGrows, DrawKept, store, IInv, TypeOK
<1>4. Carries("idle", None)'
    BY DEF Carries
<1>5. InFlight'
    BY <1>1, <1>3, <1>4, InFlightStep DEF IInv
<1>6. RepliesStayTrue'
    <2> SUFFICES ASSUME NEW p \in replies \cup {job[r]} PROVE ReplyHolds(p)'
        BY <1>1 DEF RepliesStayTrue
    <2>1. p \in Replies /\ ReplyHolds(p)
        BY <1>2 DEF IInv, TypeOK, RepliesStayTrue
    <2> QED
        BY <1>3, <2>1, ReplyKept DEF IInv
<1>7. job[r].op = "draw" =>
        drawResult # None /\ drawResult.seed = job[r].result.seed
    BY <1>2, NoneAssumption DEF Replies, ReplyHolds
<1>8. SecretUntilDrawn'
    BY <1>1, <1>7 DEF IInv, SecretUntilDrawn, store
<1>9. /\ ReachedStatus' /\ SnapshotsCommitted' /\ LockHoldsItsCommitment'
      /\ DrawIsVerifiable'
    BY <1>1 DEF IInv, store, ReachedStatus, SnapshotsCommitted, LockHoldsItsCommitment,
                DrawIsVerifiable, Verifiable, Latest
<1> QED
    BY <1>5, <1>6, <1>8, <1>9 DEF IInv

(* Every step preserves the inductive invariant. *)
LEMMA InvStep == IInv /\ [Next]_vars => IInv'
<1> SUFFICES ASSUME IInv, [Next]_vars PROVE IInv'
    OBVIOUS
<1>types. TypeOK'
    BY TypeStep DEF IInv
<1> USE DEF History
<1>idle. Carries("idle", None)
    BY DEF Carries
<1>1. ASSUME NEW r \in Requests, FetchParticipants(r) PROVE IInv'
    <2>1. PICK j : Goto(r, "saveParticipants", j)
        BY <1>1 DEF FetchParticipants
    <2>2. Carries("saveParticipants", j)
        BY DEF Carries
    <2> QED
        BY <1>1, <1>types, <2>1, <2>2, StoreKept DEF FetchParticipants
<1>2. ASSUME NEW r \in Requests, SaveParticipants(r) PROVE IInv'
    <2>1. CASE MayImport(status)
        BY <1>2, <1>types, <2>1, ImportStep
    <2>2. CASE ~MayImport(status)
        BY <1>2, <1>types, <1>idle, <2>2, StoreKept DEF SaveParticipants, Refuse
    <2> QED
        BY <2>1, <2>2
<1>3. ASSUME NEW r \in Requests, FilterForLock(r) PROVE IInv'
    <2>1. PICK u \in Rules :
            /\ Eligible(participants, u) # {}
            /\ Goto(r, "lockCheck", [eligible |-> Eligible(participants, u), rules |-> u])
        BY <1>3 DEF FilterForLock
    <2>2. PICK j : j = [eligible |-> Eligible(participants, u), rules |-> u]
        OBVIOUS
    <2>3. Carries("lockCheck", j)
        BY <2>1, <2>2 DEF Carries, Eligible
    <2> QED
        BY <1>3, <1>types, <2>1, <2>2, <2>3, StoreKept DEF FilterForLock
<1>4. ASSUME NEW r \in Requests, CheckLock(r) PROVE IInv'
    <2>1. PICK j : j = job[r]
        OBVIOUS
    <2>2. Carries("lockTx", j)
        BY <1>4, <2>1 DEF CheckLock, IInv, InFlight, Carries
    <2> QED
        BY <1>4, <1>types, <1>idle, <2>1, <2>2, StoreKept DEF CheckLock, Refuse
<1>5. ASSUME NEW r \in Requests, CreateAndLockSnapshot(r) PROVE IInv'
    <2>1. CASE MayLock(status)
        BY <1>5, <1>types, <2>1, LockStep
    <2>2. CASE ~MayLock(status)
        BY <1>5, <1>types, <1>idle, <2>2, StoreKept DEF CreateAndLockSnapshot, Refuse
    <2> QED
        BY <2>1, <2>2
<1>6. ASSUME NEW r \in Requests, RequestUnlock(r) PROVE IInv'
    <2>1. Carries("unlockCheck", None)
        BY DEF Carries
    <2> QED
        BY <1>6, <1>types, <2>1, StoreKept DEF RequestUnlock
<1>7. ASSUME NEW r \in Requests, CheckUnlock(r) PROVE IInv'
    <2>1. Carries("unlockTx", None)
        BY DEF Carries
    <2> QED
        BY <1>7, <1>types, <1>idle, <2>1, StoreKept DEF CheckUnlock, Refuse
<1>8. ASSUME NEW r \in Requests, UnlockSnapshot(r) PROVE IInv'
    <2>1. CASE MayUnlock(status)
        BY <1>8, <1>types, <2>1, UnlockStep
    <2>2. CASE ~MayUnlock(status)
        BY <1>8, <1>types, <1>idle, <2>2, StoreKept DEF UnlockSnapshot, Refuse
    <2> QED
        BY <2>1, <2>2
<1>9. ASSUME NEW r \in Requests, RereadUnlocked(r) PROVE IInv'
    <2>1. PICK j : j = [op |-> "unlock", status |-> status]
        OBVIOUS
    <2>2. Carries("reply", j)
        BY <2>1 DEF Carries, ReplyHolds
    <2> QED
        BY <1>9, <1>types, <2>1, <2>2, StoreKept DEF RereadUnlocked
<1>10. ASSUME NEW r \in Requests, RunDraw(r) PROVE IInv'
    <2>1. PICK n \in Needs :
            /\ n <= Cardinality(snapshots[Latest].eligible)
            /\ Goto(r, "drawCheck", ComputeDraw(seed, Latest, n))
        BY <1>10 DEF RunDraw
    <2>2. PICK j : j = ComputeDraw(seed, Latest, n)
        OBVIOUS
    <2>3. /\ Latest \in 1..Len(snapshots) /\ Latest \in 1..Len(lockSeeds)
          /\ seed = lockSeeds[Latest]
        BY <1>10 DEF RunDraw, CanDraw, IInv, TypeOK, LockHoldsItsCommitment, Latest
    <2>4. Verifiable(j)
        BY <2>1, <2>2, <2>3 DEF Verifiable, ComputeDraw
    <2>5. Carries("drawCheck", j)
        BY <2>4 DEF Carries
    <2> QED
        BY <1>10, <1>types, <2>1, <2>2, <2>5, StoreKept DEF RunDraw
<1>11. ASSUME NEW r \in Requests, CheckDraw(r) PROVE IInv'
    <2>1. PICK j : j = job[r]
        OBVIOUS
    <2>2. Carries("drawTx", j)
        BY <1>11, <2>1 DEF CheckDraw, IInv, InFlight, Carries
    <2> QED
        BY <1>11, <1>types, <1>idle, <2>1, <2>2, StoreKept DEF CheckDraw, Refuse
<1>12. ASSUME NEW r \in Requests, SaveDrawResultAndAudit(r) PROVE IInv'
    <2>1. CASE MaySaveDraw(status)
        BY <1>12, <1>types, <2>1, SaveDrawStep
    <2>2. CASE ~MaySaveDraw(status)
        BY <1>12, <1>types, <1>idle, <2>2, StoreKept DEF SaveDrawResultAndAudit, Refuse
    <2> QED
        BY <2>1, <2>2
<1>13. ASSUME NEW r \in Requests, DeliverReply(r) PROVE IInv'
    BY <1>13, <1>types, DeliverStep
<1>14. CASE ViewGiveaway
    <2>1. \A s \in ExposedSeed(status, seed) : drawResult # None /\ drawResult.seed = s
        BY DEF IInv, ExposedSeed, Final, ReachedStatus, DrawIsVerifiable
    <2>2. SecretUntilDrawn'
        BY <1>14, <2>1 DEF IInv, ViewGiveaway, SecretUntilDrawn, store
    <2> QED
        BY <1>14, <1>types, <2>2
        DEF ViewGiveaway, IInv, store, ReachedStatus, SnapshotsCommitted, InFlight, Carries,
            DrawIsVerifiable, Verifiable, LockHoldsItsCommitment, RepliesStayTrue, ReplyHolds,
            Latest
<1>15. ASSUME NEW r \in Requests, Crash(r) PROVE IInv'
    BY <1>15, <1>types, <1>idle, StoreKept DEF Crash, Refuse
<1>16. CASE UNCHANGED vars
    BY <1>16, <1>types
    DEF vars, IInv, store, ReachedStatus, SnapshotsCommitted, InFlight, Carries,
        DrawIsVerifiable, Verifiable, LockHoldsItsCommitment, SecretUntilDrawn,
        RepliesStayTrue, ReplyHolds, Latest
<1> QED
    BY <1>1, <1>2, <1>3, <1>4, <1>5, <1>6, <1>7, <1>8, <1>9, <1>10, <1>11, <1>12,
       <1>13, <1>14, <1>15, <1>16 DEF Next, Arrive, Continue

(* The inductive invariant holds in every reachable state. *)
THEOREM Invariance == Spec => []IInv
<1>1. Init => IInv
    <2>1. Init => TypeOK
        BY ConstantsAssumption DEF Init, TypeOK, Statuses, Labels, Jobs, JobFits
    <2> QED
        BY <2>1 DEF Init, IInv, ReachedStatus, SnapshotsCommitted, InFlight, Carries,
            DrawIsVerifiable, LockHoldsItsCommitment, SecretUntilDrawn, RepliesStayTrue
<1> QED
    BY <1>1, InvStep, PTL DEF Spec

(* Any interleaving of any number of requests leaves a stored draw that    *)
(* verifies against the commitment of its own snapshot.                    *)
THEOREM DrawVerifies == Spec => []DrawIsVerifiable
<1>1. IInv => DrawIsVerifiable
    BY DEF IInv
<1> QED
    BY <1>1, Invariance, PTL

(* A lock in force has the seed, rules and rows of its latest snapshot. *)
THEOREM LockCommits == Spec => []LockHoldsItsCommitment
<1>1. IInv => LockHoldsItsCommitment
    BY DEF IInv
<1> QED
    BY <1>1, Invariance, PTL

(* Every seed outside the server is the one of the final draw. *)
THEOREM SeedSecrecy == Spec => []SecretUntilDrawn
<1>1. IInv => SecretUntilDrawn
    BY DEF IInv
<1> QED
    BY <1>1, Invariance, PTL

(* No two clients hold different results, nor a commitment that is untrue. *)
THEOREM RepliesTrue == Spec => []RepliesStayTrue
<1>1. IInv => RepliesStayTrue
    BY DEF IInv
<1> QED
    BY <1>1, Invariance, PTL

-----------------------------------------------------------------------------
(* Once drawn, every way a handler can still store something is refused,   *)
(* and under a lock every import is (DrawIsFinal).                         *)
THEOREM DrawFinal == Spec => DrawIsFinal
<1> DEFINE A == /\ Final(status) => UNCHANGED store
                /\ status = "SNAPSHOT_LOCKED" => UNCHANGED participants
<1>1. IInv /\ [Next]_vars => [A]_vars
    <2> SUFFICES ASSUME IInv, Next PROVE A
        BY DEF vars
    <2>1. ASSUME Final(status) PROVE UNCHANGED store
        <3>1. /\ ~MayImport(status) /\ ~MayLock(status) /\ ~MayUnlock(status)
              /\ ~CanDraw(status) /\ ~MaySaveDraw(status)
            BY <2>1 DEF Final, MayImport, MayLock, MayUnlock, CanDraw, MaySaveDraw
        <3>2. ASSUME NEW r \in Requests, Arrive(r) PROVE UNCHANGED store
            BY <3>2 DEF Arrive, FetchParticipants, FilterForLock, RequestUnlock, RunDraw
        <3>3. ASSUME NEW r \in Requests, Continue(r) PROVE UNCHANGED store
            BY <3>1, <3>3 DEF Continue, SaveParticipants, CheckLock, CreateAndLockSnapshot,
                CheckUnlock, UnlockSnapshot, RereadUnlocked, CheckDraw,
                SaveDrawResultAndAudit, DeliverReply, Refuse
        <3> QED
            BY <3>2, <3>3 DEF Next, Crash, Refuse, ViewGiveaway
    <2>2. status = "SNAPSHOT_LOCKED" => UNCHANGED participants
        BY DEF Next, Arrive, Continue, store, MayImport, FetchParticipants,
            FilterForLock, RequestUnlock, RunDraw, SaveParticipants, CheckLock,
            CreateAndLockSnapshot, CheckUnlock, UnlockSnapshot, RereadUnlocked, CheckDraw,
            SaveDrawResultAndAudit, DeliverReply, Crash, Refuse, ViewGiveaway
    <2> QED
        BY <2>1, <2>2
<1> QED
    BY <1>1, Invariance, PTL DEF Spec, DrawIsFinal

(* What each action may do to the ledger. *)
LEMMA LedgerStep ==
    ASSUME IInv, Next
    PROVE  \/ UNCHANGED <<status, filterRules, seed, snapshots, drawResult, lockSeeds>>
           \/ \E r \in Requests : CreateAndLockSnapshot(r) /\ MayLock(status)
           \/ \E r \in Requests : UnlockSnapshot(r) /\ MayUnlock(status)
           \/ \E r \in Requests : SaveDrawResultAndAudit(r) /\ MaySaveDraw(status)
<1> USE DEF History
<1>1. ASSUME NEW r \in Requests, Arrive(r)
      PROVE  UNCHANGED <<status, filterRules, seed, snapshots, drawResult, lockSeeds>>
    BY <1>1 DEF store, Arrive, FetchParticipants, FilterForLock, RequestUnlock, RunDraw
<1>2. ASSUME NEW r \in Requests, Continue(r),
             ~(CreateAndLockSnapshot(r) /\ MayLock(status)),
             ~(UnlockSnapshot(r) /\ MayUnlock(status)),
             ~(SaveDrawResultAndAudit(r) /\ MaySaveDraw(status))
      PROVE  UNCHANGED <<status, filterRules, seed, snapshots, drawResult, lockSeeds>>
    BY <1>2 DEF store, Continue, SaveParticipants, CheckLock, CreateAndLockSnapshot,
        CheckUnlock, UnlockSnapshot, RereadUnlocked, CheckDraw, SaveDrawResultAndAudit,
        DeliverReply, Refuse
<1> QED
    BY <1>1, <1>2 DEF Next, store, Crash, Refuse, ViewGiveaway

(* The lifecycle under concurrent requests implements the abstract ledger. *)
THEOREM LifecycleImplementsContract == Spec => ImplementsContract
<1>1. Init => Contract!Init
    BY DEF Init, Contract!Init, Phase, Ledger
<1>2. IInv /\ [Next]_vars => [Contract!Next]_(Contract!vars)
    <2> SUFFICES ASSUME IInv, Next
                 PROVE  Contract!Next \/ UNCHANGED <<Phase, Ledger, drawResult>>
        BY DEF vars, store, History, Phase, Ledger, Contract!vars
    <2>1. CASE UNCHANGED <<status, filterRules, seed, snapshots, drawResult, lockSeeds>>
        BY <2>1 DEF Phase, Ledger
    <2>2. ASSUME NEW r \in Requests, CreateAndLockSnapshot(r), MayLock(status)
          PROVE  Contract!Lock
        <3>1. PICK s \in FreshSeeds :
                /\ status' = "SNAPSHOT_LOCKED"
                /\ snapshots' = Append(snapshots, job[r])
                /\ lockSeeds' = Append(lockSeeds, s)
            BY <2>2 DEF CreateAndLockSnapshot, NewSnapshots
        <3>2. job[r] \in Snapshots /\ job[r].eligible # {}
            BY <2>2 DEF CreateAndLockSnapshot, IInv, TypeOK, JobFits, InFlight, Carries
        <3>3. Phase = "open" /\ Phase' = "locked" /\ UNCHANGED drawResult
            BY <2>2, <3>1 DEF MayLock, Phase, CreateAndLockSnapshot
        <3> DEFINE e == [eligible |-> job[r].eligible, rules |-> job[r].rules, seed |-> s]
        <3>4. s \in Seeds /\ Len(lockSeeds) = Len(snapshots) /\ Len(snapshots) \in Nat
            BY <3>1 DEF FreshSeeds, IInv, SnapshotsCommitted, TypeOK
        <3>5. \A v \in 1..Len(Ledger) : Ledger[v].seed # s
            BY <3>4 DEF Ledger, FreshSeeds
        <3>6. Ledger' = Append(Ledger, e)
            BY <3>1, <3>2, <3>4 DEF Ledger, IInv, TypeOK
        <3>7. job[r].eligible \in (SUBSET Rows) \ {{}} /\ job[r].rules \in Rules
            BY <3>2 DEF Snapshots
        <3> QED
            BY <3>3, <3>4, <3>5, <3>6, <3>7 DEF Contract!Lock
    <2>3. ASSUME NEW r \in Requests, UnlockSnapshot(r), MayUnlock(status)
          PROVE  Contract!Unlock
        BY <2>3 DEF UnlockSnapshot, MayUnlock, Phase, Ledger, History, Contract!Unlock
    <2>4. ASSUME NEW r \in Requests, SaveDrawResultAndAudit(r), MaySaveDraw(status)
          PROVE  Contract!Draw
        <3>1. /\ status' = "DRAWN" /\ drawResult' = job[r]
              /\ UNCHANGED <<snapshots, lockSeeds>>
            BY <2>4 DEF SaveDrawResultAndAudit, History
        <3>2. job[r] \in Results /\ Verifiable(job[r])
            BY <2>4 DEF SaveDrawResultAndAudit, IInv, TypeOK, JobFits, InFlight, Carries
        <3>3. Phase = "locked" /\ Phase' = "drawn" /\ Ledger' = Ledger
            BY <2>4, <3>1 DEF MaySaveDraw, CanDraw, Phase, Ledger
        <3>v. PICK v, n : v = job[r].version /\ n = job[r].need
            OBVIOUS
        <3>4. v \in 1..Len(Ledger) /\ n \in Needs
            BY <3>2, <3>v DEF Verifiable, Ledger, Results
        <3>5. Ledger[v].eligible = snapshots[v].eligible /\ Ledger[v].seed = job[r].seed
            BY <3>2, <3>v DEF Verifiable, Ledger
        <3>6. drawResult' = [version |-> v, seed |-> Ledger[v].seed, need |-> n,
                            winners |-> Outcome(Ledger[v].seed, Ledger[v].eligible, n)]
            BY <3>1, <3>2, <3>5, <3>v DEF Verifiable, Results
        <3>7. n <= Cardinality(Ledger[v].eligible)
            BY <3>2, <3>5, <3>v DEF Verifiable
        <3>8. \E w \in 1..Len(Ledger), m \in Needs :
                /\ m <= Cardinality(Ledger[w].eligible)
                /\ drawResult' = [version |-> w, seed |-> Ledger[w].seed, need |-> m,
                                  winners |-> Outcome(Ledger[w].seed, Ledger[w].eligible, m)]
            BY <3>4, <3>6, <3>7, Zenon
        <3> QED
            BY <3>3, <3>8 DEF Contract!Draw, Contract!Cardinality, Cardinality
    <2> QED
        BY <2>1, <2>2, <2>3, <2>4, LedgerStep DEF Contract!Next
<1> QED
    BY <1>1, <1>2, Invariance, PTL DEF Spec, ImplementsContract, Contract!Spec
===============================================================================
