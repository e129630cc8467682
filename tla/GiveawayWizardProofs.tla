-------------------------- MODULE GiveawayWizardProofs --------------------------
(***************************************************************************)
(* For any posts, people, forms, conditions and number of page loads under *)
(* way, whichever requests fail:                                           *)
(*  - the giveaway in work is one of the post displayed (Inv);             *)
(*  - buttons are disabled while their handlers run, and what the page     *)
(*    shows as a result is the final one of a giveaway (Sound);            *)
(*  - unless the organiser pressed on under a running call, a lock holds   *)
(*    whom the table showed, and the result is of that lock (Calm): in     *)
(*    each step only certain handlers run, all for the giveaway in work.   *)
(***************************************************************************)
EXTENDS GiveawayWizard, SequenceTheorems, TLAPS

(* The giveaways made so far keep their posts. *)
Stored ==
    /\ store \in Seq({store[i] : i \in DOMAIN store})
    /\ \A i \in DOMAIN store : "post" \in DOMAIN store[i]

IsOf(gid, p) == gid \in DOMAIN store /\ store[gid].post = p

(* While a post is being loaded no giveaway is in work; the one being made *)
(* is for the post displayed, and no other handler makes any.              *)
Loading ==
    /\ DOMAIN call = Handlers
    /\ createdGiveawayId # None => IsOf(createdGiveawayId, postData)
    /\ call["post"] # None =>
          createdGiveawayId = None /\ DOMAIN call["post"] = {"req", "reply"}
    /\ call["post"] # None /\ call["post"].req.op = "create" =>
          /\ call["post"].req.post = postData
          /\ call["post"].reply # None => IsOf(call["post"].reply.gid, postData)

Inv == Stored /\ Loading

-----------------------------------------------------------------------------
(* What the repository's methods leave alone. *)

LEMMA ReplacedInPlace ==
    ASSUME Stored, NEW gid, NEW gw,
           store' = [store EXCEPT ![gid] = gw],
           gid \in DOMAIN store => "post" \in DOMAIN gw /\ gw.post = store[gid].post
    PROVE  /\ Stored'
           /\ DOMAIN store \subseteq DOMAIN store'
           /\ \A i \in DOMAIN store : store'[i].post = store[i].post
<1> DEFINE S == {store[i] : i \in DOMAIN store}
           T == {store'[i] : i \in DOMAIN store'}
<1>1. store \in [1..Len(store) -> S] /\ Len(store) \in Nat /\ DOMAIN store = 1..Len(store)
    BY LenProperties DEF Stored
<1>2. DOMAIN store' = 1..Len(store) /\ store' = [i \in 1..Len(store) |-> store'[i]]
    BY <1>1
<1>3. store' \in [1..Len(store) -> T]
    BY <1>2
<1>4. store' \in Seq(T)
  <2> HIDE DEF T
  <2> QED BY <1>1, <1>3, SeqDef
<1>5. \A i \in DOMAIN store : store'[i].post = store[i].post /\ "post" \in DOMAIN store'[i]
    BY DEF Stored
<1> QED BY <1>1, <1>2, <1>4, <1>5 DEF Stored

LEMMA AppendedAtEnd ==
    ASSUME Stored, NEW p, store' = Append(store, Created(p))
    PROVE  /\ Stored'
           /\ DOMAIN store \subseteq DOMAIN store'
           /\ \A i \in DOMAIN store : store'[i].post = store[i].post
           /\ Len(store') \in DOMAIN store' /\ store'[Len(store')].post = p
<1> DEFINE S == {store[i] : i \in DOMAIN store} \cup {Created(p)}
           T == {store'[i] : i \in DOMAIN store'}
<1>1. store \in Seq(S) /\ Created(p) \in S
    BY DEF Stored
<1>2. /\ store' \in Seq(S) /\ Len(store') = Len(store) + 1
      /\ \A i \in 1..Len(store) : store'[i] = store[i]
      /\ store'[Len(store) + 1] = Created(p)
    BY <1>1, AppendProperties
<1>3. DOMAIN store = 1..Len(store) /\ DOMAIN store' = 1..Len(store') /\ Len(store) \in Nat
    BY <1>1, <1>2
<1>4. store' \in Seq(T)
    BY <1>2, <1>3, SeqDef
<1>5. "post" \in DOMAIN Created(p) /\ Created(p).post = p
    BY DEF Created
<1> QED BY <1>2, <1>3, <1>4, <1>5 DEF Stored

(* Whatever a request does on the server: no giveaway changes its post, and *)
(* only a creation, of its own post, makes one.                             *)
Kept ==
    /\ DOMAIN store \subseteq DOMAIN store'
    /\ \A i \in DOMAIN store : store'[i].post = store[i].post

LEMMA AcceptKeeps ==
    ASSUME Stored, NEW req, Accept(req)
    PROVE  /\ Stored' /\ Kept
           /\ req.op = "create" =>
                 Len(store') \in DOMAIN store' /\ store'[Len(store')].post = req.post
<1>1. CASE req.op \in {"preview", "rows"} /\ UNCHANGED store
    BY <1>1 DEF Stored, Kept
<1>2. CASE req.op = "create" /\ AcceptCreate(req)
    BY <1>2, AppendedAtEnd DEF AcceptCreate, Kept, IsOf
<1>3. CASE req.op = "import" /\ AcceptImport(req)
  <2>1. PICK rows : store' = [store EXCEPT ![req.gid] = Saved(store[req.gid], rows)]
    BY <1>3 DEF AcceptImport
  <2>2. req.gid \in DOMAIN store =>
           /\ "post" \in DOMAIN Saved(store[req.gid], rows)
           /\ Saved(store[req.gid], rows).post = store[req.gid].post
    BY DEF Stored, Saved
  <2> HIDE DEF Stored
  <2> QED BY <1>3, <2>1, <2>2, ReplacedInPlace DEF Kept
<1>4. CASE req.op = "lock" /\ AcceptLock(req)
  <2>1. PICK eligible : store' = [store EXCEPT ![req.gid] = Locked(store[req.gid], eligible)]
    BY <1>4 DEF AcceptLock
  <2>2. req.gid \in DOMAIN store =>
           /\ "post" \in DOMAIN Locked(store[req.gid], eligible)
           /\ Locked(store[req.gid], eligible).post = store[req.gid].post
    BY DEF Stored, Locked
  <2> QED BY <1>4, <2>1, <2>2, ReplacedInPlace DEF Kept
<1>5. CASE req.op = "unlock" /\ AcceptUnlock(req)
  <2>1. store' = [store EXCEPT ![req.gid] = Unlocked(store[req.gid])]
    BY <1>5 DEF AcceptUnlock
  <2>2. req.gid \in DOMAIN store =>
           /\ "post" \in DOMAIN Unlocked(store[req.gid])
           /\ Unlocked(store[req.gid]).post = store[req.gid].post
    BY DEF Stored, Unlocked
  <2> QED BY <1>5, <2>1, <2>2, ReplacedInPlace DEF Kept
<1>6. CASE req.op = "draw" /\ AcceptDraw(req)
  <2>1. PICK result : store' = [store EXCEPT ![req.gid] = Drawn(store[req.gid], result)]
    BY <1>6 DEF AcceptDraw
  <2>2. req.gid \in DOMAIN store =>
           /\ "post" \in DOMAIN Drawn(store[req.gid], result)
           /\ Drawn(store[req.gid], result).post = store[req.gid].post
    BY DEF Stored, Drawn
  <2> QED BY <1>6, <2>1, <2>2, ReplacedInPlace DEF Kept
<1> QED BY <1>1, <1>2, <1>3, <1>4, <1>5, <1>6 DEF Accept

-----------------------------------------------------------------------------
(* The steps.                                                              *)

LEMMA InvInit == Init => Inv
<1> SUFFICES ASSUME Init PROVE Inv
    OBVIOUS
<1>1. Stored
  <2>1. store = <<>> /\ DOMAIN store = {}
    BY DEF Init
  <2> QED BY <2>1 DEF Stored
<1>2. Loading
    BY DEF Init, Loading, Handlers
<1> QED BY <1>1, <1>2 DEF Inv

LEMMA AnswerKeeps ==
    ASSUME Inv, NEW h \in Handlers, Answer(h)
    PROVE  Inv'
<1>1. Accept(call[h].req) /\ Stored
    BY DEF Answer, Inv
<1>2. /\ Stored' /\ Kept
      /\ call[h].req.op = "create" =>
            Len(store') \in DOMAIN store' /\ store'[Len(store')].post = call[h].req.post
    BY <1>1, AcceptKeeps
<1>3. /\ call' = [call EXCEPT ![h].reply = Reply(call[h].req, store')]
      /\ UNCHANGED <<createdGiveawayId, postData>>
      /\ call[h] # None
    BY DEF Answer, page, post
<1>4. \A gid, p : IsOf(gid, p) => IsOf(gid, p)'
    BY <1>2 DEF Kept, IsOf
<1>5. Loading'
  <2>1. DOMAIN call' = Handlers /\ (createdGiveawayId' # None => IsOf(createdGiveawayId, postData)')
    BY <1>3, <1>4 DEF Inv, Loading
  <2>2. CASE h # "post"
    <3>1. call'["post"] = call["post"]
      BY <1>3, <2>2 DEF Inv, Loading
    <3> QED BY <1>3, <1>4, <2>1, <3>1 DEF Inv, Loading
  <2>3. CASE h = "post"
    <3>1. call["post"] # None /\ createdGiveawayId = None
      BY <1>3, <2>3 DEF Inv, Loading
    <3>2. call["post"].req.op = "create" => Reply(call["post"].req, store').gid = Len(store')
      BY DEF Reply
    <3>3. call'["post"].req = call["post"].req /\ DOMAIN call'["post"] = {"req", "reply"}
          /\ call'["post"].reply = Reply(call["post"].req, store')
      BY <1>3, <2>3, <3>1 DEF Inv, Loading
    <3>4. call["post"].req.op = "create" =>
             call["post"].req.post = postData /\ IsOf(Len(store), postData)'
      BY <1>2, <1>3, <2>3, <3>1 DEF Inv, Loading, IsOf
    <3> QED BY <1>3, <2>1, <3>1, <3>2, <3>3, <3>4 DEF Loading, IsOf
  <2> QED BY <2>2, <2>3
<1> QED BY <1>2, <1>5 DEF Inv

(* Every step but an answer leaves the store alone. *)
LEMMA StoreKeeps ==
    ASSUME Stored, UNCHANGED store
    PROVE  Stored' /\ \A gid, p : IsOf(gid, p) => IsOf(gid, p)'
BY DEF Stored, IsOf

(* The handlers but that of step 1, and what begins or ends them. *)
LEMMA OthersKeep ==
    ASSUME Inv, UNCHANGED <<postData, createdGiveawayId, store>>,
           DOMAIN call' = Handlers, call'["post"] = call["post"]
    PROVE  Inv'
BY StoreKeeps DEF Inv, Loading

LEMMA CallOf ==
    ASSUME Inv, NEW h \in Handlers \ {"post"}, NEW new, call' = [call EXCEPT ![h] = new]
    PROVE  DOMAIN call' = Handlers /\ call'["post"] = call["post"]
BY DEF Inv, Loading, Handlers

LEMMA Buttons ==
    ASSUME Inv, Organiser
    PROVE  Inv'
<1> USE DEF post, table, page, calls, rest
<1>1. ASSUME NEW p \in Posts, FetchPost(p) PROVE Inv'
  <2>1. /\ createdGiveawayId' = None /\ UNCHANGED <<postData, store>>
        /\ call' = [call EXCEPT !["post"] =
              [req |-> [op |-> "preview", post |-> p], reply |-> None]]
    BY <1>1 DEF FetchPost, Begin, Send, IdWhileLoading
  <2>2. /\ DOMAIN call' = Handlers
        /\ call'["post"] = [req |-> [op |-> "preview", post |-> p], reply |-> None]
    BY <2>1 DEF Inv, Loading, Handlers
  <2> QED BY <2>1, <2>2, StoreKeeps DEF Inv, Loading
<1>2. CASE GoToConditions \/ Edit \/ GoBack
    BY <1>2, OthersKeep DEF GoToConditions, Edit, GoBack, Inv, Loading
<1>3. CASE FetchParticipants
    BY <1>3, OthersKeep, CallOf DEF FetchParticipants, Begin, Send, Handlers
<1>4. ASSUME NEW tab \in Tabs, NEW h \in TabLoads, ChooseTab(tab, h) PROVE Inv'
  <2>1. h \in Handlers \ {"post"}
    BY WizardAssumption DEF Handlers
  <2> QED BY <1>4, <2>1, OthersKeep, CallOf DEF ChooseTab, Begin, Send, Inv, Loading
<1>5. CASE LockSnapshot
    BY <1>5, OthersKeep, CallOf DEF LockSnapshot, Begin, Send, Handlers
<1>6. CASE UnlockSnapshot
    BY <1>6, OthersKeep, CallOf DEF UnlockSnapshot, Begin, Send, Handlers, Inv, Loading
<1>7. CASE ExecuteDraw
    BY <1>7, OthersKeep, CallOf DEF ExecuteDraw, Begin, Send, Handlers, Press
<1> QED BY <1>1, <1>2, <1>3, <1>4, <1>5, <1>6, <1>7 DEF Organiser

LEMMA Replies ==
    ASSUME Inv, NEW h \in Handlers, Show(h) \/ Fail(h)
    PROVE  Inv'
<1> USE DEF post, table, page, calls, rest
<1>1. CASE ShowPost
  <2>1. /\ UNCHANGED <<createdGiveawayId, store>>
        /\ postData' = call["post"].reply.post
        /\ call["post"] # None
        /\ call' = [call EXCEPT !["post"] =
              [req |-> [op |-> "create", post |-> call["post"].reply.post], reply |-> None]]
    BY <1>1 DEF ShowPost, Replied, Send
  <2>2. createdGiveawayId = None /\ DOMAIN call' = Handlers
        /\ call'["post"] =
              [req |-> [op |-> "create", post |-> call["post"].reply.post], reply |-> None]
    BY <2>1 DEF Inv, Loading, Handlers
  <2> QED BY <2>1, <2>2, StoreKeeps DEF Inv, Loading
<1>2. CASE PostReady
  <2>1. /\ UNCHANGED <<postData, store>>
        /\ createdGiveawayId' = call["post"].reply.gid
        /\ call["post"] # None /\ call["post"].req.op = "create" /\ call["post"].reply # None
        /\ call' = [call EXCEPT !["post"] = None]
    BY <1>2 DEF PostReady, Replied, End
  <2>2. DOMAIN call' = Handlers /\ call'["post"] = None
    BY <2>1 DEF Inv, Loading, Handlers
  <2>3. IsOf(call["post"].reply.gid, postData)
    BY <2>1 DEF Inv, Loading
  <2> QED BY <2>1, <2>2, <2>3, StoreKeeps DEF Inv, Loading
<1>3. CASE ShowParticipants
    BY <1>3, OthersKeep, CallOf DEF ShowParticipants, Send, Handlers
<1>4. CASE ShowLock \/ ShowUnlocked \/ ShowResult
    BY <1>4, OthersKeep, CallOf DEF ShowLock, ShowUnlocked, ShowResult, End, Handlers
<1>5. CASE ShowRows(h) \/ Fail(h)
  <2>1. UNCHANGED <<postData, createdGiveawayId, store>> /\ call' = [call EXCEPT ![h] = None]
    BY <1>5 DEF ShowRows, Fail, End
  <2>2. CASE h # "post"
    BY <2>1, <2>2, OthersKeep, CallOf
  <2>3. CASE h = "post"
    <3>1. DOMAIN call' = Handlers /\ call'["post"] = None
      BY <2>1, <2>3 DEF Inv, Loading
    <3> QED BY <2>1, <3>1, StoreKeeps DEF Inv, Loading
  <2> QED BY <2>2, <2>3
<1> QED BY <1>1, <1>2, <1>3, <1>4, <1>5 DEF Show

LEMMA InvStep == Inv /\ [Next]_vars => Inv'
<1> SUFFICES ASSUME Inv, [Next]_vars PROVE Inv'
    OBVIOUS
<1>1. CASE Organiser
    BY <1>1, Buttons
<1>2. ASSUME NEW h \in Handlers, Proceed(h) PROVE Inv'
    BY <1>2, AnswerKeeps, Replies DEF Proceed
<1>3. CASE UNCHANGED vars
    BY <1>3, OthersKeep DEF vars, page, post, calls, rest, Inv, Loading
<1> QED BY <1>1, <1>2, <1>3 DEF Next

(* The invariant in every reachable state. *)
THEOREM Invariance == Spec => []Inv
BY InvInit, InvStep, PTL DEF Spec

(* Whatever posts are loaded one after the other, and whichever loads fail *)
(* half way: the giveaway in work is one of the post displayed.            *)
THEOREM WorksOnPostShown == Spec => []CreatedIsOfPostShown
<1>1. Inv => CreatedIsOfPostShown
    BY DEF Inv, Loading, IsOf, CreatedIsOfPostShown
<1> QED BY <1>1, Invariance, PTL

-----------------------------------------------------------------------------
(* The server's giveaways, and what each request makes of one.               *)

(* The giveaways.  What is in a row is what an import has saved; a lock has *)
(* the seed of its version, and a result is there exactly when drawn.       *)
Saves == {NoParticipants} \cup {Import(p, f) : p \in Posts, f \in Filters}

Giveaways ==
    [post : Posts, status : {"READY", "SNAPSHOT_LOCKED", "DRAWN"}, participants : Saves,
     snapshots : Seq(SUBSET People), seed : (1..MaxLocks) \cup {None},
     drawResult : Locks \cup {None}]

InOrder(gw) ==
    /\ LatestVersion(gw) <= MaxLocks
    /\ gw.status = "SNAPSHOT_LOCKED" => LatestVersion(gw) \in 1..MaxLocks /\ gw.seed # None
    /\ gw.status = "DRAWN" <=> gw.drawResult # None

StoreOK ==
    /\ store \in Seq(Giveaways)
    /\ \A i \in 1..Len(store) : InOrder(store[i])

LEMMA NewGiveaway ==
    ASSUME NEW p \in Posts
    PROVE  Created(p) \in Giveaways /\ InOrder(Created(p))
<1>1. <<>> \in Seq(SUBSET People) /\ Len(<<>>) = 0 /\ NoParticipants \in Saves
    BY EmptySeq DEF Saves
<1>2. Created(p) \in Giveaways
  <2> HIDE DEF Saves, Locks
  <2> QED BY <1>1 DEF Created, Giveaways
<1>3. InOrder(Created(p))
    BY <1>1, WizardAssumption DEF Created, InOrder, LatestVersion
<1> QED BY <1>2, <1>3

LEMMA RowsSaved ==
    ASSUME NEW gw \in Giveaways, InOrder(gw), NEW f \in Filters
    PROVE  /\ Saved(gw, Import(gw.post, f)) \in Giveaways
           /\ InOrder(Saved(gw, Import(gw.post, f)))
           /\ Saved(gw, Import(gw.post, f)) =
                 [gw EXCEPT !.participants = Import(gw.post, f)]
<1>1. Import(gw.post, f) \in Saves
    BY DEF Saves, Giveaways
<1> HIDE DEF Saves, Locks
<1> QED BY <1>1 DEF Saved, Giveaways, InOrder, LatestVersion

(* Whatever rules they are filtered by: the rows are of VK users. *)
LEMMA RowsAreUsers ==
    ASSUME NEW gw \in Giveaways
    PROVE  /\ \A f : Passing(gw.participants.known, f) \in SUBSET People
           /\ Counts(gw) \in Flagged
           /\ \A tab : FirstPage(gw, tab) \in Flagged
<1>1. /\ DOMAIN gw.participants.known \subseteq People
      /\ gw.participants.eligible \subseteq DOMAIN gw.participants.known
  <2>1. gw.participants \in Saves
      BY DEF Giveaways
  <2>2. CASE gw.participants = NoParticipants
      BY <2>2 DEF NoParticipants
  <2>3. ASSUME NEW p \in Posts, NEW f \in Filters, gw.participants = Import(p, f)
        PROVE  <1>1
    <3>1. DOMAIN Known(p, f) \subseteq People
        BY DEF Known
    <3>2. gw.participants.known = Known(p, f) /\ gw.participants.eligible = Passing(Known(p, f), f)
        BY <2>3 DEF Import
    <3> QED BY <3>1, <3>2 DEF Passing
  <2> QED BY <2>1, <2>2, <2>3 DEF Saves
<1>2. Counts(gw) \in Flagged
    BY <1>1 DEF Counts, Flagged
<1>3. \A f : Passing(gw.participants.known, f) \in SUBSET People
    BY <1>1 DEF Passing
<1>4. \A tab : FirstPage(gw, tab) \in Flagged
    BY <1>2 DEF FirstPage, Flagged
<1> QED BY <1>2, <1>3, <1>4

LEMMA LockMade ==
    ASSUME NEW gw \in Giveaways, InOrder(gw), NEW eligible \in SUBSET People, NEW gid \in Ids,
           MayLock(gw, eligible), NewVersion(gw) <= MaxLocks
    PROVE  /\ Locked(gw, eligible) \in Giveaways /\ InOrder(Locked(gw, eligible))
           /\ Locked(gw, eligible).status = "SNAPSHOT_LOCKED"
           /\ Locked(gw, eligible).post = gw.post
           /\ Locked(gw, eligible).participants = gw.participants
           /\ LET lock == Snapshot(gid, Locked(gw, eligible), LatestVersion(Locked(gw, eligible)))
              IN  lock \in Locks /\ lock.eligible = eligible
<1> DEFINE n == Len(gw.snapshots)
           new == Append(gw.snapshots, eligible)
           locked == Locked(gw, eligible)
<1>1. n \in Nat /\ NewVersion(gw) = n + 1 /\ MaxLocks \in Nat
    BY WizardAssumption, LenProperties DEF Giveaways, NewVersion
<1>2. new \in Seq(SUBSET People) /\ Len(new) = n + 1 /\ new[n + 1] = eligible
    BY AppendProperties DEF Giveaways
<1>3. n + 1 \in 1..MaxLocks
    BY <1>1
<1>4. locked = [gw EXCEPT !.status = "SNAPSHOT_LOCKED", !.snapshots = new, !.seed = n + 1]
    BY <1>1 DEF Locked
<1> HIDE DEF Saves, Locks, new, n, locked
<1>5. /\ locked \in Giveaways /\ locked.status = "SNAPSHOT_LOCKED"
      /\ locked.post = gw.post /\ locked.participants = gw.participants
      /\ locked.snapshots = new /\ locked.seed = n + 1 /\ locked.drawResult = gw.drawResult
    BY <1>2, <1>3, <1>4 DEF Giveaways
<1>6. LatestVersion(locked) = n + 1
    BY <1>2, <1>5 DEF LatestVersion
<1>7. InOrder(locked)
  <2>1. gw.drawResult = None
      BY DEF InOrder, MayLock
  <2>2. n + 1 # None
      BY <1>1, NoneAssumption DEF Ids
  <2> QED BY <1>3, <1>1, <1>5, <1>6, <2>1, <2>2 DEF InOrder
<1>8. Snapshot(gid, locked, n + 1) \in Locks /\ Snapshot(gid, locked, n + 1).eligible = eligible
    BY <1>2, <1>3, <1>5 DEF Snapshot, Locks
<1> QED BY <1>5, <1>6, <1>7, <1>8 DEF locked

LEMMA LockUndone ==
    ASSUME NEW gw \in Giveaways, InOrder(gw), MayUnlock(gw)
    PROVE  /\ Unlocked(gw) \in Giveaways /\ InOrder(Unlocked(gw))
           /\ Unlocked(gw).status = "READY" /\ Unlocked(gw).post = gw.post
           /\ Unlocked(gw).participants = gw.participants
<1> HIDE DEF Saves, Locks
<1> QED BY DEF Unlocked, MayUnlock, Giveaways, InOrder, LatestVersion

LEMMA ResultMade ==
    ASSUME NEW gw \in Giveaways, InOrder(gw), MayDraw(gw), NEW gid \in Ids,
           NEW lock, lock = Snapshot(gid, gw, SnapshotToDraw(gw))
    PROVE  /\ lock \in Locks /\ Drawn(gw, lock) \in Giveaways /\ InOrder(Drawn(gw, lock))
           /\ Drawn(gw, lock).status = "DRAWN" /\ Drawn(gw, lock).drawResult = lock
           /\ Drawn(gw, lock).post = gw.post
           /\ Drawn(gw, lock).participants = gw.participants
<1>1. LatestVersion(gw) \in 1..MaxLocks /\ gw.seed \in 1..MaxLocks
    BY DEF MayDraw, InOrder, Giveaways
<1>2. gw.snapshots[LatestVersion(gw)] \in SUBSET People
  <2>1. gw.snapshots \in Seq(SUBSET People) /\ LatestVersion(gw) \in 1..Len(gw.snapshots)
      BY <1>1 DEF Giveaways, LatestVersion
  <2> QED BY <2>1, ElementOfSeq
<1>3. lock \in Locks /\ lock.seed \in 1..MaxLocks
    BY <1>1, <1>2 DEF Snapshot, SnapshotToDraw, Locks
<1>4. lock # None
    BY <1>3, NoneAssumption
<1> HIDE DEF Saves, Locks
<1> QED BY <1>1, <1>3, <1>4 DEF Drawn, Giveaways, InOrder, LatestVersion

(* What each handler is answered. *)
LEMMA CallKinds ==
    /\ CallsOf("post") = PostCalls /\ CallsOf("import") = ImportCalls \cup RowsCalls
    /\ CallsOf("lock") = LockCalls /\ CallsOf("unlock") = UnlockCalls
    /\ CallsOf("draw") = DrawCalls
    /\ \A h \in TabLoads : CallsOf(h) = RowsCalls
<1>1. \A h \in TabLoads : h \notin {"post", "import", "lock", "unlock", "draw"}
    BY WizardAssumption
<1> HIDE DEF PostCalls, ImportCalls, RowsCalls, LockCalls, UnlockCalls, DrawCalls
<1> QED BY <1>1 DEF CallsOf

LEMMA Replaced ==
    ASSUME StoreOK, NEW gid \in 1..Len(store), NEW gw \in Giveaways, InOrder(gw),
           store' = [store EXCEPT ![gid] = gw]
    PROVE  /\ StoreOK' /\ Len(store') = Len(store) /\ store'[gid] = gw
           /\ \A i \in 1..Len(store) \ {gid} : store'[i] = store[i]
<1> HIDE DEF Giveaways, InOrder
<1>1. /\ store' \in Seq(Giveaways) /\ Len(store') = Len(store)
      /\ \A i \in 1..Len(store) : store'[i] = IF i = gid THEN gw ELSE store[i]
    BY ExceptSeq DEF StoreOK
<1>2. \A i \in 1..Len(store') : InOrder(store'[i])
    BY <1>1 DEF StoreOK
<1> QED BY <1>1, <1>2 DEF StoreOK

(* A drawn giveaway is final. *)
StillThere ==
    /\ Len(store) <= Len(store')
    /\ \A i \in 1..Len(store) : store[i].status = "DRAWN" => store'[i] = store[i]

LEMMA Unchanging ==
    ASSUME StoreOK, UNCHANGED store
    PROVE  StoreOK' /\ StillThere
<1> HIDE DEF Giveaways, InOrder
<1>1. Len(store) \in Nat
    BY LenProperties DEF StoreOK
<1> QED BY <1>1 DEF StoreOK, StillThere

LEMMA StoredOne ==
    ASSUME StoreOK, NEW gid \in 1..Len(store)
    PROVE  store[gid] \in Giveaways /\ InOrder(store[gid]) /\ gid \in Ids /\ Len(store) \in Nat
<1> HIDE DEF Giveaways, InOrder
<1>1. store[gid] \in Giveaways /\ Len(store) \in Nat
    BY ElementOfSeq, LenProperties DEF StoreOK
<1> QED BY <1>1 DEF StoreOK, Ids

LEMMA CreateAccepted ==
    ASSUME StoreOK, NEW req, req.post \in Posts, AcceptCreate(req)
    PROVE  StoreOK' /\ StillThere /\ Len(store') \in Ids
<1> HIDE DEF Giveaways, InOrder
<1>1. /\ store' \in Seq(Giveaways) /\ Len(store') = Len(store) + 1 /\ Len(store) \in Nat
      /\ \A i \in 1..Len(store) : store'[i] = store[i]
      /\ store'[Len(store) + 1] = Created(req.post)
    BY NewGiveaway, AppendProperties, LenProperties DEF StoreOK, AcceptCreate
<1>2. \A i \in 1..Len(store') : i \in 1..Len(store) \/ i = Len(store) + 1
    BY <1>1
<1>3. \A i \in 1..Len(store') : InOrder(store'[i])
    BY <1>1, <1>2, NewGiveaway DEF StoreOK
<1>4. Len(store') \in Ids
    BY <1>1 DEF Ids
<1> QED BY <1>1, <1>3, <1>4 DEF StoreOK, StillThere

LEMMA ImportAccepted ==
    ASSUME StoreOK, NEW req, req.gid \in 1..Len(store), req.filter \in Filters, AcceptImport(req)
    PROVE  /\ StoreOK' /\ StillThere
           /\ Len(store') = Len(store)
           /\ store'[req.gid] = [store[req.gid] EXCEPT
                 !.participants = Import(store[req.gid].post, req.filter)]
           /\ Counts(store'[req.gid]) \in Flagged
<1> DEFINE gw == store[req.gid]
           new == Saved(gw, Import(gw.post, req.filter))
<1>1. gw \in Giveaways /\ InOrder(gw) /\ gw.status = "READY" /\ Len(store) \in Nat
      /\ store' = [store EXCEPT ![req.gid] = new]
    BY StoredOne DEF AcceptImport, MaySave
<1>2. new \in Giveaways /\ InOrder(new)
      /\ new = [gw EXCEPT !.participants = Import(gw.post, req.filter)]
    BY <1>1, RowsSaved
<1> HIDE DEF new, Giveaways, InOrder
<1>3. /\ StoreOK' /\ Len(store') = Len(store) /\ store'[req.gid] = new
      /\ \A i \in 1..Len(store) \ {req.gid} : store'[i] = store[i]
    BY <1>1, <1>2, Replaced
<1>4. StillThere
    BY <1>1, <1>3 DEF StillThere
<1> QED BY <1>2, <1>3, <1>4, RowsAreUsers

LEMMA LockAccepted ==
    ASSUME StoreOK, NEW req, req.gid \in 1..Len(store), req.filter \in Filters, AcceptLock(req)
    PROVE  /\ StoreOK' /\ StillThere
           /\ Len(store') = Len(store)
           /\ store'[req.gid].status = "SNAPSHOT_LOCKED"
           /\ store'[req.gid].post = store[req.gid].post
           /\ store'[req.gid].participants = store[req.gid].participants
           /\ LET lock == Snapshot(req.gid, store'[req.gid], LatestVersion(store'[req.gid]))
              IN  /\ lock \in Locks
                  /\ lock.eligible = Passing(store[req.gid].participants.known, req.filter)
<1> DEFINE gw == store[req.gid]
           eligible == Passing(gw.participants.known, req.filter)
           new == Locked(gw, eligible)
<1>1. gw \in Giveaways /\ InOrder(gw) /\ req.gid \in Ids /\ Len(store) \in Nat
      /\ MayLock(gw, eligible) /\ NewVersion(gw) <= MaxLocks
      /\ store' = [store EXCEPT ![req.gid] = new]
    BY StoredOne DEF AcceptLock
<1>2. eligible \in SUBSET People
    BY <1>1, RowsAreUsers
<1> HIDE DEF Giveaways, InOrder, eligible
<1>3. /\ new \in Giveaways /\ InOrder(new) /\ new.status = "SNAPSHOT_LOCKED"
      /\ new.post = gw.post /\ new.participants = gw.participants
      /\ Snapshot(req.gid, new, LatestVersion(new)) \in Locks
      /\ Snapshot(req.gid, new, LatestVersion(new)).eligible = eligible
    BY <1>1, <1>2, LockMade
<1> HIDE DEF new
<1>4. /\ StoreOK' /\ Len(store') = Len(store) /\ store'[req.gid] = new
      /\ \A i \in 1..Len(store) \ {req.gid} : store'[i] = store[i]
    BY <1>1, <1>3, Replaced
<1>5. StillThere
    BY <1>1, <1>4 DEF StillThere, MayLock
<1> QED BY <1>3, <1>4, <1>5 DEF eligible

LEMMA UnlockAccepted ==
    ASSUME StoreOK, NEW req, req.gid \in 1..Len(store), AcceptUnlock(req)
    PROVE  /\ StoreOK' /\ StillThere
           /\ Len(store') = Len(store)
           /\ store'[req.gid].status = "READY"
           /\ store'[req.gid].post = store[req.gid].post
           /\ store'[req.gid].participants = store[req.gid].participants
<1> DEFINE gw == store[req.gid]
           new == Unlocked(gw)
<1>1. gw \in Giveaways /\ InOrder(gw) /\ MayUnlock(gw) /\ Len(store) \in Nat
      /\ store' = [store EXCEPT ![req.gid] = new]
    BY StoredOne DEF AcceptUnlock
<1> HIDE DEF Giveaways, InOrder
<1>2. /\ new \in Giveaways /\ InOrder(new) /\ new.status = "READY"
      /\ new.post = gw.post /\ new.participants = gw.participants
    BY <1>1, LockUndone
<1> HIDE DEF new
<1>3. /\ StoreOK' /\ Len(store') = Len(store) /\ store'[req.gid] = new
      /\ \A i \in 1..Len(store) \ {req.gid} : store'[i] = store[i]
    BY <1>1, <1>2, Replaced
<1>4. StillThere
    BY <1>1, <1>3 DEF StillThere, MayUnlock
<1> QED BY <1>2, <1>3, <1>4

LEMMA DrawAccepted ==
    ASSUME StoreOK, NEW req, req.gid \in 1..Len(store), AcceptDraw(req),
           NEW lock, lock = Snapshot(req.gid, store[req.gid], SnapshotToDraw(store[req.gid]))
    PROVE  /\ StoreOK' /\ StillThere
           /\ Len(store') = Len(store)
           /\ store[req.gid].status = "SNAPSHOT_LOCKED"
           /\ store'[req.gid].status = "DRAWN"
           /\ store'[req.gid].drawResult = lock /\ lock \in Locks /\ lock.gid = req.gid
           /\ store'[req.gid].post = store[req.gid].post
           /\ store'[req.gid].participants = store[req.gid].participants
<1> DEFINE gw == store[req.gid]
           new == Drawn(gw, lock)
<1>1. gw \in Giveaways /\ InOrder(gw) /\ MayDraw(gw) /\ req.gid \in Ids /\ Len(store) \in Nat
      /\ store' = [store EXCEPT ![req.gid] = new]
    BY StoredOne DEF AcceptDraw
<1> HIDE DEF Giveaways, InOrder
<1>2. /\ lock \in Locks /\ new \in Giveaways /\ InOrder(new)
      /\ new.status = "DRAWN" /\ new.drawResult = lock
      /\ new.post = gw.post /\ new.participants = gw.participants
    BY <1>1, ResultMade
<1> HIDE DEF new
<1>3. /\ StoreOK' /\ Len(store') = Len(store) /\ store'[req.gid] = new
      /\ \A i \in 1..Len(store) \ {req.gid} : store'[i] = store[i]
    BY <1>1, <1>2, Replaced
<1>4. StillThere
    BY <1>1, <1>3 DEF StillThere, MayDraw
<1>5. lock.gid = req.gid
    BY DEF Snapshot
<1> QED BY <1>1, <1>2, <1>3, <1>4, <1>5 DEF MayDraw

-----------------------------------------------------------------------------
(* The requests of the page and what they are answered.                      *)

LEMMA RowsAccepted ==
    ASSUME StoreOK, NEW c \in RowsCalls, c.req.gid \in 1..Len(store), Accept(c.req)
    PROVE  /\ UNCHANGED store
           /\ [c EXCEPT !.reply = Reply(c.req, store')] \in RowsCalls
           /\ Reply(c.req, store').counts = Counts(store[c.req.gid])
<1>1. c.req.op = "rows"
    BY DEF RowsCalls
<1>2. UNCHANGED store
    BY <1>1 DEF Accept
<1>3. Reply(c.req, store') =
         [counts |-> Counts(store[c.req.gid]), rows |-> FirstPage(store[c.req.gid], c.req.tab)]
    BY <1>1, <1>2 DEF Reply
<1>4. Counts(store[c.req.gid]) \in Flagged /\ FirstPage(store[c.req.gid], c.req.tab) \in Flagged
    BY StoredOne, RowsAreUsers
<1> QED BY <1>2, <1>3, <1>4 DEF RowsCalls

LEMMA AcceptSound ==
    ASSUME StoreOK, NEW h \in Handlers, NEW c \in CallsOf(h),
           h # "post" => c.req.gid \in 1..Len(store), Accept(c.req)
    PROVE  /\ StoreOK' /\ StillThere
           /\ [c EXCEPT !.reply = Reply(c.req, store')] \in CallsOf(h)
<1>1. CASE h = "post"
  <2>1. c \in PostCalls
      BY <1>1, CallKinds
  <2>2. CASE c.req.op = "preview"
    <3>1. UNCHANGED store /\ Reply(c.req, store') = [post |-> c.req.post]
        BY <2>2 DEF Accept, Reply
    <3>2. [c EXCEPT !.reply = Reply(c.req, store')] \in PostCalls
        BY <2>1, <2>2, <3>1 DEF PostCalls
    <3> QED BY <1>1, <3>1, <3>2, Unchanging, CallKinds
  <2>3. CASE c.req.op = "create"
    <3>1. AcceptCreate(c.req) /\ Reply(c.req, store') = [gid |-> Len(store')]
        BY <2>3 DEF Accept, Reply
    <3>2. c.req.post \in Posts
        BY <2>1 DEF PostCalls
    <3>3. StoreOK' /\ StillThere /\ Len(store') \in Ids
        BY <3>1, <3>2, CreateAccepted
    <3>4. [c EXCEPT !.reply = Reply(c.req, store')] \in PostCalls
        BY <2>1, <2>3, <3>1, <3>3 DEF PostCalls
    <3> QED BY <1>1, <3>3, <3>4, CallKinds
  <2> QED BY <2>1, <2>2, <2>3 DEF PostCalls
<1>2. CASE c \in RowsCalls /\ (h = "import" \/ h \in TabLoads)
  <2>1. UNCHANGED store /\ [c EXCEPT !.reply = Reply(c.req, store')] \in RowsCalls
      BY <1>2, RowsAccepted, WizardAssumption
  <2> QED BY <1>2, <2>1, Unchanging, CallKinds
<1>3. CASE c \in ImportCalls /\ h = "import"
  <2>1. c.req.op = "import" /\ c.req.filter \in Filters
      BY <1>3 DEF ImportCalls
  <2>2. AcceptImport(c.req) /\ Reply(c.req, store') = [counts |-> Counts(store'[c.req.gid])]
      BY <2>1 DEF Accept, Reply
  <2>3. StoreOK' /\ StillThere /\ Counts(store'[c.req.gid]) \in Flagged
      BY <1>3, <2>1, <2>2, ImportAccepted
  <2>4. [c EXCEPT !.reply = Reply(c.req, store')] \in ImportCalls
      BY <1>3, <2>2, <2>3 DEF ImportCalls
  <2> QED BY <1>3, <2>3, <2>4, CallKinds
<1>4. CASE h = "lock"
  <2>1. c \in LockCalls
      BY <1>4, CallKinds
  <2>2. c.req.op = "lock" /\ c.req.filter \in Filters
      BY <2>1 DEF LockCalls
  <2>3. /\ AcceptLock(c.req)
        /\ Reply(c.req, store') = [snapshot |->
              Snapshot(c.req.gid, store'[c.req.gid], LatestVersion(store'[c.req.gid]))]
      BY <2>2 DEF Accept, Reply
  <2>4. /\ StoreOK' /\ StillThere
        /\ Snapshot(c.req.gid, store'[c.req.gid], LatestVersion(store'[c.req.gid])) \in Locks
      BY <1>4, <2>2, <2>3, LockAccepted
  <2> HIDE DEF Locks
  <2>5. [c EXCEPT !.reply = Reply(c.req, store')] \in LockCalls
      BY <2>1, <2>3, <2>4 DEF LockCalls
  <2> QED BY <1>4, <2>4, <2>5, CallKinds
<1>5. CASE h = "unlock"
  <2>1. c \in UnlockCalls
      BY <1>5, CallKinds
  <2>2. c.req.op = "unlock"
      BY <2>1 DEF UnlockCalls
  <2>3. AcceptUnlock(c.req) /\ Reply(c.req, store') = [snapshot |-> None]
      BY <2>2 DEF Accept, Reply
  <2>4. StoreOK' /\ StillThere
      BY <1>5, <2>3, UnlockAccepted
  <2>5. [c EXCEPT !.reply = Reply(c.req, store')] \in UnlockCalls
      BY <2>1, <2>3 DEF UnlockCalls
  <2> QED BY <1>5, <2>4, <2>5, CallKinds
<1>6. CASE h = "draw"
  <2> DEFINE lock == Snapshot(c.req.gid, store[c.req.gid], SnapshotToDraw(store[c.req.gid]))
  <2>1. c \in DrawCalls
      BY <1>6, CallKinds
  <2>2. c.req.op = "draw"
      BY <2>1 DEF DrawCalls
  <2>3. AcceptDraw(c.req) /\ Reply(c.req, store') = [result |-> store'[c.req.gid].drawResult]
      BY <2>2 DEF Accept, Reply
  <2> HIDE DEF lock
  <2>4. /\ StoreOK' /\ StillThere
        /\ store'[c.req.gid].drawResult = lock /\ lock \in Locks
      BY <1>6, <2>3, DrawAccepted DEF lock
  <2> HIDE DEF Locks
  <2>5. [c EXCEPT !.reply = Reply(c.req, store')] \in DrawCalls
      BY <2>1, <2>3, <2>4 DEF DrawCalls
  <2> QED BY <1>6, <2>4, <2>5, CallKinds
<1>7. \/ h = "post" \/ h = "lock" \/ h = "unlock" \/ h = "draw"
      \/ c \in RowsCalls /\ (h = "import" \/ h \in TabLoads)
      \/ c \in ImportCalls /\ h = "import"
    BY CallKinds DEF Handlers
<1> QED BY <1>1, <1>2, <1>3, <1>4, <1>5, <1>6, <1>7

-----------------------------------------------------------------------------
(* The types of the page, the buttons, and the results of draws.             *)

PageOK ==
    /\ step \in 1..5
    /\ postData \in Posts \cup {None}
    /\ createdGiveawayId \in Ids \cup {None}
    /\ form \in Forms
    /\ participantTab \in Tabs
    /\ participants \in Flagged /\ counts \in Flagged
    /\ lockedSnapshot \in Locks \cup {None} /\ drawResult \in Locks \cup {None}
    /\ hasty \in 0..MaxHasty
    /\ step = 4 => lockedSnapshot # None
    /\ step = 5 => drawResult # None

CallsOK ==
    /\ DOMAIN call = Handlers
    /\ \A h \in Handlers : call[h] \in CallsOf(h) \cup {None}

ButtonsOK ==
    /\ busy \subseteq {"post", "import", "page", "lock", "unlock", "draw"}
    /\ \A b \in Handlers \ TabLoads : b \in busy <=> call[b] # None
    /\ "page" \in busy => \E h \in Handlers : call[h] # None /\ call[h].req.op = "rows"

(* The giveaways that the calls are about are in the store. *)
AboutStored ==
    \A h \in Handlers \ {"post"} : call[h] # None => call[h].req.gid \in 1..Len(store)

(* A result is that of a giveaway, which is then final. *)
IsResult(lock) ==
    /\ lock.gid \in 1..Len(store)
    /\ store[lock.gid].status = "DRAWN" /\ store[lock.gid].drawResult = lock

Results ==
    /\ drawResult # None => IsResult(drawResult)
    /\ call["draw"] # None /\ call["draw"].reply # None => IsResult(call["draw"].reply.result)

Sound == PageOK /\ CallsOK /\ ButtonsOK /\ StoreOK /\ AboutStored /\ Results

LEMMA SoundIsTypeOK == Sound => TypeOK
BY DEF Sound, PageOK, CallsOK, ButtonsOK, TypeOK

-----------------------------------------------------------------------------
(* A handler begins, goes on to another request, or ends. *)

LEMMA CallSet ==
    ASSUME CallsOK, NEW h \in Handlers, NEW new \in CallsOf(h) \cup {None},
           call' = [call EXCEPT ![h] = new]
    PROVE  CallsOK' /\ call'[h] = new /\ \A k \in Handlers \ {h} : call'[k] = call[k]
<1> HIDE DEF CallsOf
<1> QED BY DEF CallsOK

LEMMA HandlersDistinct ==
    /\ Handlers \ TabLoads = {"post", "import", "lock", "unlock", "draw"}
    /\ \A h \in Handlers : h \in TabLoads \/ h \in {"post", "import", "lock", "unlock", "draw"}
    /\ \A h \in TabLoads : h \notin {"post", "import", "lock", "unlock", "draw"}
BY WizardAssumption DEF Handlers

LEMMA Begun ==
    ASSUME CallsOK, ButtonsOK, NEW h \in Handlers, NEW req, Begin(h, req),
           [req |-> req, reply |-> None] \in CallsOf(h)
    PROVE  /\ CallsOK' /\ ButtonsOK'
           /\ call[h] = None /\ call'[h] = [req |-> req, reply |-> None] /\ call'[h] # None
           /\ \A k \in Handlers \ {h} : call'[k] = call[k]
<1> DEFINE new == [req |-> req, reply |-> None]
<1>0. new.req = req
    OBVIOUS
<1> HIDE DEF CallsOf
<1>1. new # None
    BY NoneAssumption
<1>2. call[h] = None /\ call' = [call EXCEPT ![h] = new] /\ busy' = busy \cup {FlagOf(h)}
    BY DEF Begin, Send
<1> HIDE DEF new
<1>3. CallsOK' /\ call'[h] = new /\ \A k \in Handlers \ {h} : call'[k] = call[k]
    BY <1>2, CallSet DEF new
<1>4. h \in TabLoads => new.req.op = "rows"
    BY CallKinds DEF RowsCalls, new
<1>5. ButtonsOK'
  <2>1. CASE h \in TabLoads
    <3>1. FlagOf(h) = "page"
        BY <2>1 DEF FlagOf
    <3> QED BY <1>1, <1>2, <1>3, <1>4, <2>1, <3>1, HandlersDistinct DEF ButtonsOK
  <2>2. CASE h \notin TabLoads
    <3>1. FlagOf(h) = h /\ h # "page" /\ h \in {"post", "import", "lock", "unlock", "draw"}
        BY <2>2, HandlersDistinct DEF FlagOf
    <3> QED BY <1>1, <1>2, <1>3, <2>2, <3>1, HandlersDistinct, ZenonT(30)
           DEF ButtonsOK
  <2> QED BY <2>1, <2>2
<1> QED BY <1>1, <1>2, <1>3, <1>5 DEF new

LEMMA Ended ==
    ASSUME CallsOK, ButtonsOK, NEW h \in Handlers, End(h)
    PROVE  /\ CallsOK' /\ ButtonsOK'
           /\ call'[h] = None
           /\ \A k \in Handlers \ {h} : call'[k] = call[k]
<1> HIDE DEF CallsOf
<1>1. call' = [call EXCEPT ![h] = None] /\ busy' = busy \ Cleared(h)
    BY DEF End
<1>2. CallsOK' /\ call'[h] = None /\ \A k \in Handlers \ {h} : call'[k] = call[k]
    BY <1>1, CallSet
<1>3. \A b \in Handlers \ TabLoads : b \in Cleared(h) <=> b = h
    BY HandlersDistinct DEF Cleared, FlagOf
<1>4. call[h].req.op = "rows" => "page" \in Cleared(h)
    BY DEF Cleared
<1>5. ButtonsOK'
  <2>1. \A b \in Handlers \ TabLoads : b \in busy' <=> call'[b] # None
      BY <1>1, <1>2, <1>3 DEF ButtonsOK
  <2>2. "page" \in busy' => \E k \in Handlers : call'[k] # None /\ call'[k].req.op = "rows"
    <3> SUFFICES ASSUME "page" \in busy'
                 PROVE  \E k \in Handlers : call'[k] # None /\ call'[k].req.op = "rows"
        OBVIOUS
    <3>1. PICK k \in Handlers : call[k] # None /\ call[k].req.op = "rows"
        BY <1>1 DEF ButtonsOK
    <3>2. k # h
        BY <1>1, <1>4, <3>1
    <3> QED BY <1>2, <3>1, <3>2
  <2> QED BY <1>1, <2>1, <2>2 DEF ButtonsOK
<1> QED BY <1>2, <1>5

LEMMA WentOn ==
    ASSUME CallsOK, ButtonsOK, NEW h \in Handlers, NEW new \in CallsOf(h),
           call[h] # None, call' = [call EXCEPT ![h] = new],
           \/ UNCHANGED busy /\ new.req.op = call[h].req.op
           \/ busy' = busy \cup {"page"} /\ new.req.op = "rows"
           \/ UNCHANGED busy /\ call[h].req.op # "rows"
    PROVE  /\ CallsOK' /\ ButtonsOK'
           /\ call'[h] = new /\ call'[h] # None
           /\ \A k \in Handlers \ {h} : call'[k] = call[k]
<1> HIDE DEF CallsOf
<1>1. new # None
    BY NoneAssumption
<1>2. CallsOK' /\ call'[h] = new /\ \A k \in Handlers \ {h} : call'[k] = call[k]
    BY CallSet
<1>3. "page" \notin Handlers \ TabLoads
    BY HandlersDistinct
<1>4. \A b \in Handlers \ TabLoads : b \in busy' <=> call'[b] # None
    BY <1>1, <1>2, <1>3 DEF ButtonsOK
<1>5. "page" \in busy' => \E k \in Handlers : call'[k] # None /\ call'[k].req.op = "rows"
  <2>1. CASE UNCHANGED busy /\ new.req.op = call[h].req.op
      BY <1>1, <1>2, <2>1 DEF ButtonsOK
  <2>2. CASE busy' = busy \cup {"page"} /\ new.req.op = "rows"
      BY <1>1, <1>2, <2>2 DEF ButtonsOK
  <2>3. CASE UNCHANGED busy /\ call[h].req.op # "rows"
      BY <1>1, <1>2, <2>3 DEF ButtonsOK
  <2> QED BY <2>1, <2>2, <2>3
<1> QED BY <1>1, <1>2, <1>4, <1>5 DEF ButtonsOK

(* The server's side of what the page does by itself. *)
LEMMA ServerKeeps ==
    ASSUME StoreOK, AboutStored, Results, UNCHANGED <<store, drawResult>>, NEW h \in Handlers,
           h # "post" /\ call'[h] # None => call'[h].req.gid \in 1..Len(store),
           h = "draw" /\ call'[h] # None => call'[h].reply = None,
           \A k \in Handlers \ {h} : call'[k] = call[k]
    PROVE  StoreOK' /\ AboutStored' /\ Results'
<1> HIDE DEF StoreOK
<1>1. StoreOK'
    BY Unchanging
<1>2. AboutStored'
    BY DEF AboutStored
<1>3. Results'
    BY HandlersDistinct DEF Results, IsResult, Handlers
<1> QED BY <1>1, <1>2, <1>3

LEMMA InWork ==
    ASSUME Inv, StoreOK, createdGiveawayId # None
    PROVE  createdGiveawayId \in 1..Len(store)
<1>1. DOMAIN store = 1..Len(store)
    BY LenProperties DEF StoreOK
<1> QED BY <1>1 DEF Inv, Loading, IsOf

LEMMA SoundInit == Init => Sound
<1> SUFFICES ASSUME Init PROVE Sound
    OBVIOUS
<1>1. PageOK
    BY NoneAssumption, WizardAssumption DEF Init, PageOK, NoRows, Flagged
<1>2. \A h \in Handlers : call[h] = None
    BY DEF Init
<1>3. CallsOK /\ ButtonsOK /\ AboutStored
    BY <1>2 DEF Init, CallsOK, ButtonsOK, AboutStored
<1>4. StoreOK
  <2>1. store \in Seq(Giveaways) /\ Len(store) = 0
      BY EmptySeq DEF Init
  <2> QED BY <2>1 DEF StoreOK
<1>5. Results
    BY <1>2 DEF Init, Results, Handlers
<1> QED BY <1>1, <1>3, <1>4, <1>5 DEF Sound

LEMMA Pressing ==
    ASSUME hasty \in 0..MaxHasty, NEW running, Press(running)
    PROVE  hasty' \in 0..MaxHasty /\ (hasty' = 0 => hasty = 0 /\ ~running)
BY WizardAssumption DEF Press

LEMMA SoundButtons ==
    ASSUME Inv, Sound, Organiser
    PROVE  Sound'
<1> USE DEF post, table, page, calls, rest
<1> HIDE DEF CallsOf, StoreOK, Inv, Flagged, Locks
<1>1. ASSUME NEW p \in Posts, FetchPost(p) PROVE Sound'
  <2> DEFINE req == [op |-> "preview", post |-> p]
  <2>1. Begin("post", req) /\ "post" \in Handlers /\ UNCHANGED <<store, drawResult>>
      BY <1>1 DEF FetchPost, Handlers
  <2>2. [req |-> req, reply |-> None] \in CallsOf("post")
      BY CallKinds DEF PostCalls
  <2>3. /\ CallsOK' /\ ButtonsOK' /\ \A k \in Handlers \ {"post"} : call'[k] = call[k]
      BY <2>1, <2>2, Begun DEF Sound
  <2>4. StoreOK' /\ AboutStored' /\ Results'
      BY <2>1, <2>3, ServerKeeps DEF Sound
  <2>5. PageOK'
      BY <1>1 DEF FetchPost, IdWhileLoading, Sound, PageOK
  <2> QED BY <2>3, <2>4, <2>5 DEF Sound
<1>2. CASE GoToConditions \/ Edit \/ GoBack
  <2>1. UNCHANGED <<store, drawResult, call, busy>> /\ "post" \in Handlers
      BY <1>2 DEF GoToConditions, Edit, GoBack, Handlers
  <2>2. StoreOK' /\ AboutStored' /\ Results'
      BY <2>1, ServerKeeps DEF Sound
  <2>3. CallsOK' /\ ButtonsOK'
      BY <2>1 DEF Sound, CallsOK, ButtonsOK
  <2>4. PageOK'
    <3>1. CASE GoToConditions
        BY <3>1 DEF GoToConditions, Sound, PageOK
    <3>2. CASE Edit
        BY <3>2, Pressing DEF Edit, Sound, PageOK
    <3>3. CASE GoBack
        BY <3>3, Pressing DEF GoBack, Sound, PageOK
    <3> QED BY <1>2, <3>1, <3>2, <3>3
  <2> QED BY <2>2, <2>3, <2>4 DEF Sound
<1>3. CASE FetchParticipants
  <2> DEFINE req == [op |-> "import", gid |-> createdGiveawayId,
                     filter |-> ActiveRules, tab |-> participantTab]
  <2>1. /\ Begin("import", req) /\ "import" \in Handlers /\ createdGiveawayId # None
        /\ UNCHANGED <<store, page, hasty>>
      BY <1>3 DEF FetchParticipants, Handlers
  <2>2. createdGiveawayId \in 1..Len(store) /\ createdGiveawayId \in Ids
      BY <2>1, InWork DEF Sound, PageOK
  <2>3. [req |-> req, reply |-> None] \in CallsOf("import")
      BY <2>2, CallKinds, WizardAssumption DEF ImportCalls, ActiveRules, Sound, PageOK, Filters
  <2>4. /\ CallsOK' /\ ButtonsOK' /\ \A k \in Handlers \ {"import"} : call'[k] = call[k]
        /\ call'["import"].req = req
      BY <2>1, <2>3, Begun DEF Sound
  <2>5. StoreOK' /\ AboutStored' /\ Results'
      BY <2>1, <2>2, <2>4, ServerKeeps DEF Sound
  <2>6. PageOK'
      BY <2>1 DEF Sound, PageOK
  <2> QED BY <2>4, <2>5, <2>6 DEF Sound
<1>4. ASSUME NEW tab \in Tabs, NEW h \in TabLoads, ChooseTab(tab, h) PROVE Sound'
  <2> DEFINE req == [op |-> "rows", gid |-> createdGiveawayId, tab |-> tab]
  <2>1. h \in Handlers /\ h # "draw"
      BY WizardAssumption DEF Handlers
  <2>2. UNCHANGED <<store, drawResult>> /\ PageOK'
      BY <1>4 DEF ChooseTab, Sound, PageOK
  <2>3. CASE createdGiveawayId # None
    <3>1. Begin(h, req)
        BY <1>4, <2>3 DEF ChooseTab
    <3>2. createdGiveawayId \in 1..Len(store) /\ createdGiveawayId \in Ids
        BY <2>3, InWork DEF Sound, PageOK
    <3>3. [req |-> req, reply |-> None] \in CallsOf(h)
        BY <3>2, CallKinds DEF RowsCalls
    <3>4. /\ CallsOK' /\ ButtonsOK' /\ \A k \in Handlers \ {h} : call'[k] = call[k]
          /\ call'[h].req = req
        BY <2>1, <3>1, <3>3, Begun DEF Sound
    <3>5. StoreOK' /\ AboutStored' /\ Results'
        BY <2>1, <2>2, <3>2, <3>4, ServerKeeps DEF Sound
    <3> QED BY <2>2, <3>4, <3>5 DEF Sound
  <2>4. CASE createdGiveawayId = None
    <3>1. UNCHANGED <<call, busy>> /\ "post" \in Handlers
        BY <1>4, <2>4 DEF ChooseTab, Handlers
    <3>2. StoreOK' /\ AboutStored' /\ Results'
        BY <2>2, <3>1, ServerKeeps DEF Sound
    <3> QED BY <2>2, <3>1, <3>2 DEF Sound, CallsOK, ButtonsOK
  <2> QED BY <2>3, <2>4
<1>5. CASE LockSnapshot
  <2> DEFINE req == [op |-> "lock", gid |-> createdGiveawayId, filter |-> LockRules]
  <2>1. /\ Begin("lock", req) /\ "lock" \in Handlers /\ createdGiveawayId # None
        /\ UNCHANGED <<store, page, hasty>>
      BY <1>5 DEF LockSnapshot, Handlers
  <2>2. createdGiveawayId \in 1..Len(store) /\ createdGiveawayId \in Ids
      BY <2>1, InWork DEF Sound, PageOK
  <2>3. [req |-> req, reply |-> None] \in CallsOf("lock")
    <3>1. form \in Filters
        BY WizardAssumption DEF Filters, Sound, PageOK
    <3>2. LockRules \in Filters
        BY <3>1 DEF Filters, LockRules
    <3> QED BY <2>2, <3>2, CallKinds DEF LockCalls
  <2>4. /\ CallsOK' /\ ButtonsOK' /\ \A k \in Handlers \ {"lock"} : call'[k] = call[k]
        /\ call'["lock"].req = req
      BY <2>1, <2>3, Begun DEF Sound
  <2>5. StoreOK' /\ AboutStored' /\ Results'
      BY <2>1, <2>2, <2>4, ServerKeeps DEF Sound
  <2>6. PageOK'
      BY <2>1 DEF Sound, PageOK
  <2> QED BY <2>4, <2>5, <2>6 DEF Sound
<1>6. CASE UnlockSnapshot
  <2> DEFINE req == [op |-> "unlock", gid |-> createdGiveawayId]
  <2>1. UNCHANGED <<store, drawResult>> /\ "unlock" \in Handlers /\ PageOK'
      BY <1>6 DEF UnlockSnapshot, Handlers, Sound, PageOK
  <2>2. CASE createdGiveawayId # None
    <3>1. Begin("unlock", req)
        BY <1>6, <2>2 DEF UnlockSnapshot
    <3>2. createdGiveawayId \in 1..Len(store) /\ createdGiveawayId \in Ids
        BY <2>2, InWork DEF Sound, PageOK
    <3>3. [req |-> req, reply |-> None] \in CallsOf("unlock")
        BY <3>2, CallKinds DEF UnlockCalls
    <3>4. /\ CallsOK' /\ ButtonsOK' /\ \A k \in Handlers \ {"unlock"} : call'[k] = call[k]
          /\ call'["unlock"].req = req
        BY <2>1, <3>1, <3>3, Begun DEF Sound
    <3>5. StoreOK' /\ AboutStored' /\ Results'
        BY <2>1, <3>2, <3>4, ServerKeeps DEF Sound
    <3> QED BY <2>1, <3>4, <3>5 DEF Sound
  <2>3. CASE createdGiveawayId = None
    <3>1. UNCHANGED <<call, busy>> /\ "post" \in Handlers
        BY <1>6, <2>3 DEF UnlockSnapshot, Handlers
    <3>2. StoreOK' /\ AboutStored' /\ Results'
        BY <2>1, <3>1, ServerKeeps DEF Sound
    <3> QED BY <2>1, <3>1, <3>2 DEF Sound, CallsOK, ButtonsOK
  <2> QED BY <2>2, <2>3
<1>7. CASE ExecuteDraw
  <2> DEFINE req == [op |-> "draw", gid |-> createdGiveawayId]
  <2>1. /\ Begin("draw", req) /\ "draw" \in Handlers /\ createdGiveawayId # None
        /\ UNCHANGED <<store, page>> /\ Press("unlock" \in busy)
      BY <1>7 DEF ExecuteDraw, Handlers
  <2>2. createdGiveawayId \in 1..Len(store) /\ createdGiveawayId \in Ids
      BY <2>1, InWork DEF Sound, PageOK
  <2>3. [req |-> req, reply |-> None] \in CallsOf("draw")
      BY <2>2, CallKinds DEF DrawCalls
  <2>4. /\ CallsOK' /\ ButtonsOK' /\ \A k \in Handlers \ {"draw"} : call'[k] = call[k]
        /\ call'["draw"].req = req /\ call'["draw"].reply = None
      BY <2>1, <2>3, Begun DEF Sound
  <2>5. StoreOK' /\ AboutStored' /\ Results'
      BY <2>1, <2>2, <2>4, ServerKeeps DEF Sound
  <2>6. PageOK'
      BY <2>1, Pressing DEF Sound, PageOK
  <2> QED BY <2>4, <2>5, <2>6 DEF Sound
<1> QED BY <1>1, <1>2, <1>3, <1>4, <1>5, <1>6, <1>7 DEF Organiser

LEMMA CallShape == \A h \in Handlers : \A c \in CallsOf(h) : DOMAIN c = {"req", "reply"}
<1>1. \A c \in PostCalls : DOMAIN c = {"req", "reply"}
    BY DEF PostCalls
<1>2. \A c \in ImportCalls \cup RowsCalls : DOMAIN c = {"req", "reply"}
    BY DEF ImportCalls, RowsCalls
<1>3. \A c \in LockCalls \cup UnlockCalls \cup DrawCalls : DOMAIN c = {"req", "reply"}
    BY DEF LockCalls, UnlockCalls, DrawCalls
<1> HIDE DEF PostCalls, ImportCalls, RowsCalls, LockCalls, UnlockCalls, DrawCalls, CallsOf
<1> QED BY <1>1, <1>2, <1>3, CallKinds, HandlersDistinct

(* Only imports and loads for tabs ask for rows. *)
LEMMA WhoAsksForRows ==
    ASSUME NEW h \in Handlers, NEW c \in CallsOf(h), c.req.op = "rows"
    PROVE  c \in RowsCalls /\ (h = "import" \/ h \in TabLoads)
<1>1. \A x \in PostCalls : x.req.op # "rows"
    BY DEF PostCalls
<1>2. \A x \in ImportCalls : x.req.op # "rows"
    BY DEF ImportCalls
<1>3. \A x \in LockCalls \cup UnlockCalls \cup DrawCalls : x.req.op # "rows"
    BY DEF LockCalls, UnlockCalls, DrawCalls
<1> HIDE DEF PostCalls, ImportCalls, RowsCalls, LockCalls, UnlockCalls, DrawCalls, CallsOf
<1> QED BY <1>1, <1>2, <1>3, CallKinds, HandlersDistinct

LEMMA SoundAnswer ==
    ASSUME Inv, Sound, NEW h \in Handlers, Answer(h)
    PROVE  Sound' /\ StillThere
<1> DEFINE c == call[h]
           new == [c EXCEPT !.reply = Reply(c.req, store')]
<1> USE DEF post, table, page
<1> HIDE DEF CallsOf, StoreOK, Inv, Flagged, Locks
<1>1. /\ c # None /\ c \in CallsOf(h) /\ Accept(c.req)
      /\ call' = [call EXCEPT ![h] = new]
      /\ UNCHANGED <<page, busy, hasty>>
    BY DEF Answer, Sound, CallsOK
<1>2. h # "post" => c.req.gid \in 1..Len(store)
    BY <1>1 DEF Sound, AboutStored
<1>3. StoreOK' /\ StillThere /\ new \in CallsOf(h)
    BY <1>1, <1>2, AcceptSound DEF Sound
<1>4. new.req = c.req /\ new.reply = Reply(c.req, store')
  <2>1. DOMAIN c = {"req", "reply"}
      BY <1>1, CallShape
  <2> QED BY <2>1
<1>5. /\ CallsOK' /\ ButtonsOK' /\ call'[h] = new
      /\ \A k \in Handlers \ {h} : call'[k] = call[k]
  <2> HIDE DEF new
  <2> QED BY <1>1, <1>3, <1>4, WentOn DEF Sound
<1>6. PageOK'
    BY <1>1 DEF Sound, PageOK
<1>7. Len(store) \in Nat /\ Len(store') \in Nat /\ Len(store) <= Len(store')
    BY <1>3, LenProperties DEF Sound, StoreOK, StillThere
<1> HIDE DEF new
<1>8. AboutStored'
    BY <1>2, <1>4, <1>5, <1>7 DEF Sound, AboutStored
<1>9. Results'
  <2>1. \A lock : IsResult(lock) => IsResult(lock)'
      BY <1>3, <1>7 DEF IsResult, StillThere
  <2>2. CASE h # "draw"
    <3>1. call'["draw"] = call["draw"] /\ UNCHANGED drawResult
        BY <1>1, <1>5, <2>2, HandlersDistinct
    <3> QED BY <2>1, <3>1 DEF Sound, Results
  <2>3. CASE h = "draw"
    <3> DEFINE lock == Snapshot(c.req.gid, store[c.req.gid], SnapshotToDraw(store[c.req.gid]))
    <3>1. c.req.op = "draw"
      <4>1. c \in DrawCalls
          BY <1>1, <2>3, CallKinds
      <4> QED BY <4>1 DEF DrawCalls
    <3>2. AcceptDraw(c.req) /\ new.reply = [result |-> store'[c.req.gid].drawResult]
        BY <1>1, <1>4, <3>1 DEF Accept, Reply
    <3>3. /\ Len(store') = Len(store) /\ store'[c.req.gid].status = "DRAWN"
          /\ store'[c.req.gid].drawResult = lock /\ lock.gid = c.req.gid
      <4> HIDE DEF lock
      <4> QED BY <1>2, <2>3, <3>2, DrawAccepted DEF lock, Sound
    <3> HIDE DEF lock
    <3>4. IsResult(call["draw"].reply.result)'
        BY <1>2, <1>5, <2>3, <3>2, <3>3 DEF IsResult
    <3> QED BY <1>1, <1>5, <2>1, <2>3, <3>4 DEF Sound, Results
  <2> QED BY <2>2, <2>3
<1> QED BY <1>3, <1>5, <1>6, <1>8, <1>9 DEF Sound

LEMMA SoundReplies ==
    ASSUME Inv, Sound, NEW h \in Handlers, Show(h) \/ Fail(h)
    PROVE  Sound'
<1> USE DEF post, table, page, calls, rest
<1> HIDE DEF CallsOf, StoreOK, Inv, Flagged, Locks
<1>0. {"post", "import", "lock", "unlock", "draw"} \subseteq Handlers
    BY DEF Handlers
<1>1. CASE ShowPost
  <2> DEFINE new == [req |-> [op |-> "create", post |-> call["post"].reply.post], reply |-> None]
  <2>1. /\ call["post"] # None /\ call["post"].req.op = "preview" /\ call["post"].reply # None
        /\ call' = [call EXCEPT !["post"] = new]
        /\ postData' = call["post"].reply.post /\ UNCHANGED <<store, drawResult, busy>>
      BY <1>1 DEF ShowPost, Replied, Send
  <2>2. call["post"] \in PostCalls
      BY <1>0, <2>1, CallKinds DEF Sound, CallsOK
  <2>3. call["post"].reply.post \in Posts
      BY <2>1, <2>2 DEF PostCalls
  <2>4. new \in CallsOf("post")
      BY <2>3, CallKinds DEF PostCalls
  <2> HIDE DEF new
  <2>5. /\ CallsOK' /\ ButtonsOK' /\ \A k \in Handlers \ {"post"} : call'[k] = call[k]
      BY <1>0, <2>1, <2>4, WentOn DEF Sound
  <2>6. StoreOK' /\ AboutStored' /\ Results'
      BY <1>0, <2>1, <2>5, ServerKeeps DEF Sound
  <2>7. PageOK'
      BY <1>1, <2>1, <2>3 DEF ShowPost, Sound, PageOK
  <2> QED BY <2>5, <2>6, <2>7 DEF Sound
<1>2. CASE PostReady
  <2>1. /\ call["post"] # None /\ call["post"].req.op = "create" /\ call["post"].reply # None
        /\ End("post")
        /\ createdGiveawayId' = call["post"].reply.gid /\ UNCHANGED <<store, drawResult>>
      BY <1>2 DEF PostReady, Replied
  <2>2. call["post"] \in PostCalls
      BY <1>0, <2>1, CallKinds DEF Sound, CallsOK
  <2>3. call["post"].reply.gid \in Ids
      BY <2>1, <2>2 DEF PostCalls
  <2>4. /\ CallsOK' /\ ButtonsOK' /\ call'["post"] = None
        /\ \A k \in Handlers \ {"post"} : call'[k] = call[k]
      BY <1>0, <2>1, Ended DEF Sound
  <2>5. StoreOK' /\ AboutStored' /\ Results'
      BY <1>0, <2>1, <2>4, ServerKeeps DEF Sound
  <2>6. PageOK'
      BY <1>2, <2>1, <2>3 DEF PostReady, Sound, PageOK
  <2> QED BY <2>4, <2>5, <2>6 DEF Sound
<1>3. CASE ShowParticipants
  <2> DEFINE c == call["import"]
             new == [req |-> [op |-> "rows", gid |-> c.req.gid, tab |-> c.req.tab],
                     reply |-> None]
  <2>1. /\ c # None /\ c.req.op = "import" /\ c.reply # None
        /\ call' = [call EXCEPT !["import"] = new]
        /\ busy' = busy \cup {"page"}
        /\ counts' = c.reply.counts /\ UNCHANGED <<store, drawResult>>
      BY <1>3 DEF ShowParticipants, Replied, Send
  <2>2. c \in ImportCalls
      BY <1>0, <2>1, CallKinds DEF Sound, CallsOK, RowsCalls
  <2>3. c.reply.counts \in Flagged /\ c.req.gid \in Ids /\ c.req.tab \in Tabs
      BY <2>1, <2>2 DEF ImportCalls
  <2>4. new \in CallsOf("import") /\ new.req.op = "rows" /\ new.req.gid = c.req.gid
      BY <2>3, CallKinds DEF RowsCalls
  <2> HIDE DEF new
  <2>5. /\ CallsOK' /\ ButtonsOK' /\ call'["import"] = new
        /\ \A k \in Handlers \ {"import"} : call'[k] = call[k]
      BY <1>0, <2>1, <2>4, WentOn DEF Sound
  <2>6. c.req.gid \in 1..Len(store)
      BY <1>0, <2>1 DEF Sound, AboutStored
  <2>7. StoreOK' /\ AboutStored' /\ Results'
      BY <1>0, <2>1, <2>4, <2>5, <2>6, ServerKeeps DEF Sound
  <2>8. PageOK'
      BY <1>3, <2>1, <2>3 DEF ShowParticipants, Sound, PageOK
  <2> QED BY <2>5, <2>7, <2>8 DEF Sound
<1>4. CASE ShowRows(h) \/ Fail(h)
  <2>1. End(h) /\ UNCHANGED <<store, drawResult>>
      BY <1>4 DEF ShowRows, Fail
  <2>2. /\ CallsOK' /\ ButtonsOK' /\ call'[h] = None
        /\ \A k \in Handlers \ {h} : call'[k] = call[k]
      BY <2>1, Ended DEF Sound
  <2>3. StoreOK' /\ AboutStored' /\ Results'
      BY <2>1, <2>2, ServerKeeps DEF Sound
  <2>4. PageOK'
    <3>1. CASE Fail(h)
        BY <3>1 DEF Fail, Sound, PageOK
    <3>2. CASE ShowRows(h)
      <4>1. call[h] # None /\ call[h].req.op = "rows" /\ call[h].reply # None
          BY <3>2 DEF ShowRows, Replied
      <4>2. call[h] \in RowsCalls
          BY <4>1, WhoAsksForRows DEF Sound, CallsOK
      <4>3. call[h].reply.counts \in Flagged /\ call[h].reply.rows \in Flagged
          BY <4>1, <4>2 DEF RowsCalls
      <4> QED BY <3>2, <4>3 DEF ShowRows, Sound, PageOK
    <3> QED BY <1>4, <3>1, <3>2
  <2> QED BY <2>2, <2>3, <2>4 DEF Sound
<1>5. CASE ShowLock
  <2>1. /\ call["lock"] # None /\ call["lock"].reply # None /\ End("lock")
        /\ lockedSnapshot' = call["lock"].reply.snapshot /\ UNCHANGED <<store, drawResult>>
      BY <1>5 DEF ShowLock, Replied
  <2>2. call["lock"] \in LockCalls
      BY <1>0, <2>1, CallKinds DEF Sound, CallsOK
  <2>3. call["lock"].reply.snapshot \in Locks /\ call["lock"].reply.snapshot # None
      BY <2>1, <2>2, NoneAssumption DEF LockCalls
  <2>4. /\ CallsOK' /\ ButtonsOK' /\ call'["lock"] = None
        /\ \A k \in Handlers \ {"lock"} : call'[k] = call[k]
      BY <1>0, <2>1, Ended DEF Sound
  <2>5. StoreOK' /\ AboutStored' /\ Results'
      BY <1>0, <2>1, <2>4, ServerKeeps DEF Sound
  <2>6. PageOK'
      BY <1>5, <2>1, <2>3 DEF ShowLock, Sound, PageOK
  <2> QED BY <2>4, <2>5, <2>6 DEF Sound
<1>6. CASE ShowUnlocked
  <2>1. End("unlock") /\ UNCHANGED <<store, drawResult>>
      BY <1>6 DEF ShowUnlocked
  <2>2. /\ CallsOK' /\ ButtonsOK' /\ call'["unlock"] = None
        /\ \A k \in Handlers \ {"unlock"} : call'[k] = call[k]
      BY <1>0, <2>1, Ended DEF Sound
  <2>3. StoreOK' /\ AboutStored' /\ Results'
      BY <1>0, <2>1, <2>2, ServerKeeps DEF Sound
  <2>4. PageOK'
      BY <1>6 DEF ShowUnlocked, Sound, PageOK
  <2> QED BY <2>2, <2>3, <2>4 DEF Sound
<1>7. CASE ShowResult
  <2>1. /\ call["draw"] # None /\ call["draw"].reply # None /\ End("draw")
        /\ drawResult' = call["draw"].reply.result /\ UNCHANGED store
      BY <1>7 DEF ShowResult, Replied
  <2>2. call["draw"] \in DrawCalls
      BY <1>0, <2>1, CallKinds DEF Sound, CallsOK
  <2>3. call["draw"].reply.result \in Locks /\ call["draw"].reply.result # None
      BY <2>1, <2>2, NoneAssumption DEF DrawCalls
  <2>4. /\ CallsOK' /\ ButtonsOK' /\ call'["draw"] = None
        /\ \A k \in Handlers \ {"draw"} : call'[k] = call[k]
      BY <1>0, <2>1, Ended DEF Sound
  <2>5. StoreOK' /\ AboutStored'
      BY <1>0, <2>1, <2>4, Unchanging DEF Sound, AboutStored
  <2>6. Results'
      BY <2>1, <2>4 DEF Sound, Results, IsResult
  <2>7. PageOK'
      BY <1>7, <2>1, <2>3 DEF ShowResult, Sound, PageOK
  <2> QED BY <2>4, <2>5, <2>6, <2>7 DEF Sound
<1> QED BY <1>1, <1>2, <1>3, <1>4, <1>5, <1>6, <1>7 DEF Show

LEMMA SoundStep == Inv /\ Sound /\ [Next]_vars => Sound'
<1> SUFFICES ASSUME Inv, Sound, [Next]_vars PROVE Sound'
    OBVIOUS
<1> HIDE DEF Inv, Sound
<1>1. CASE Organiser
    BY <1>1, SoundButtons
<1>2. ASSUME NEW h \in Handlers, Proceed(h) PROVE Sound'
    BY <1>2, SoundAnswer, SoundReplies DEF Proceed
<1>3. CASE UNCHANGED vars
  <2>1. UNCHANGED <<store, drawResult, call, busy>> /\ "post" \in Handlers
      BY <1>3 DEF vars, page, calls, rest, Handlers
  <2>2. StoreOK' /\ AboutStored' /\ Results'
      BY <2>1, ServerKeeps DEF Sound
  <2>3. CallsOK' /\ ButtonsOK' /\ PageOK'
      BY <1>3, <2>1 DEF Sound, CallsOK, ButtonsOK, PageOK, vars, page, post, table, rest
  <2> QED BY <2>2, <2>3 DEF Sound
<1> QED BY <1>1, <1>2, <1>3 DEF Next

(* Calls, buttons, store and results fit together in every reachable state. *)
THEOREM SoundInvariance == Spec => []Sound
BY SoundInit, SoundStep, Invariance, PTL DEF Spec

(* A button of the page is disabled exactly while its handler runs, and the  *)
(* page, the calls and the server's giveaways have the shape the code gives. *)
THEOREM TypesHold == Spec => []TypeOK
BY SoundInvariance, SoundIsTypeOK, PTL

-----------------------------------------------------------------------------
(* An organiser who does not press on under a running call: which handlers   *)
(* run in which step, and what the page and the giveaway then agree on.      *)

(* Who does not press on under a running call. *)
Work == store[createdGiveawayId]

Answered(h) == call[h].reply # None

WhoRuns ==
    /\ step >= 2 => createdGiveawayId # None
    /\ call["post"] # None => step = 1
    /\ call["import"] # None =>
          \/ step = 2 /\ call["import"].req.op = "import"
          \/ step >= 3 /\ call["import"].req.op = "rows"
    /\ \A h \in TabLoads : call[h] # None => step >= 3
    /\ call["lock"] # None => step = 3
    /\ call["unlock"] # None => step = 4 /\ call["draw"] = None
    /\ call["draw"] # None => step = 4
    /\ \A h \in Handlers \ {"post"} : call[h] # None => call[h].req.gid = createdGiveawayId

InLock == Passing(Known(Work.post, form), LockRules)
InForce == Snapshot(createdGiveawayId, Work, LatestVersion(Work))

TableIsOfForm ==
    step >= 3 => Work.participants = Import(Work.post, form) /\ counts = Counts(Work)

ImportIsOfForm ==
    call["import"] # None /\ call["import"].req.op = "import" =>
        /\ call["import"].req.filter = form
        /\ Answered("import") => /\ Work.participants = Import(Work.post, form)
                                 /\ call["import"].reply.counts = Counts(Work)

LoadsCount ==
    \A h \in TabLoads \cup {"import"} :
        call[h] # None /\ call[h].req.op = "rows" /\ Answered(h) =>
            call[h].reply.counts = Counts(Work)

LockIsOfForm ==
    call["lock"] # None =>
        /\ call["lock"].req.filter = LockRules
        /\ Answered("lock") => /\ Work.status = "SNAPSHOT_LOCKED"
                               /\ call["lock"].reply.snapshot = InForce
                               /\ InForce.eligible = InLock

LockShown ==
    step = 4 => /\ lockedSnapshot.gid = createdGiveawayId /\ lockedSnapshot.eligible = InLock
                /\ Work.status = "SNAPSHOT_LOCKED" => lockedSnapshot = InForce
                /\ Work.status = "DRAWN" => Work.drawResult = lockedSnapshot

ResultShown ==
    /\ call["draw"] # None /\ Answered("draw") => call["draw"].reply.result = lockedSnapshot
    /\ step = 5 => drawResult = lockedSnapshot

WhatIsShown ==
    TableIsOfForm /\ ImportIsOfForm /\ LoadsCount /\ LockIsOfForm /\ LockShown /\ ResultShown

Calm == hasty = 0 => WhoRuns /\ WhatIsShown

LEMMA CallBecomes ==
    ASSUME Sound, NEW h \in Handlers, NEW new, call' = [call EXCEPT ![h] = new]
    PROVE  call'[h] = new /\ \A k \in Handlers \ {h} : call'[k] = call[k]
BY DEF Sound, CallsOK

LEMMA Asked ==
    ASSUME Sound, NEW h \in Handlers, NEW req, Send(h, req)
    PROVE  /\ call'[h].req = req /\ call'[h].reply = None
           /\ \A k \in Handlers \ {h} : call'[k] = call[k]
<1> DEFINE new == [req |-> req, reply |-> None]
<1>1. call' = [call EXCEPT ![h] = new] /\ new.req = req /\ new.reply = None
    BY DEF Send
<1> HIDE DEF new, Sound
<1> QED BY <1>1, CallBecomes

LEMMA SameWork ==
    ASSUME UNCHANGED <<store, createdGiveawayId, form>>
    PROVE  /\ Work' = Work /\ InLock' = InLock /\ InForce' = InForce /\ LockRules' = LockRules
           /\ Counts(Work)' = Counts(Work) /\ Import(Work.post, form)' = Import(Work.post, form)
BY DEF Work, InLock, InForce, LockRules

(* Before the table only the handler of the step runs. *)
LEMMA EarlySteps ==
    ASSUME Sound, WhoRuns
    PROVE  /\ step = 1 => \A h \in Handlers \ {"post"} : call[h] = None
           /\ step = 2 => \A h \in Handlers \ {"import"} : call[h] = None
<1> HIDE DEF Sound
<1> QED BY HandlersDistinct DEF WhoRuns

LEMMA CalmButtons ==
    ASSUME Inv, Sound, WhoRuns, WhatIsShown, Organiser, hasty' = 0
    PROVE  (WhoRuns /\ WhatIsShown)'
<1> USE DEF post, table, page, calls, rest
<1> HIDE DEF CallsOf, StoreOK, Inv, Flagged, Locks
<1>0. /\ {"post", "import", "lock", "unlock", "draw"} \subseteq Handlers
      /\ TabLoads \subseteq Handlers /\ step \in 1..5 /\ hasty \in 0..MaxHasty
    BY DEF Handlers, Sound, PageOK
<1>9. \A h \in {"post", "import", "lock", "unlock", "draw"} : h \in busy <=> call[h] # None
    BY HandlersDistinct DEF Sound, ButtonsOK
<1>1. ASSUME NEW p \in Posts, FetchPost(p) PROVE (WhoRuns /\ WhatIsShown)'
  <2>1. /\ call' = [call EXCEPT !["post"] =
              [req |-> [op |-> "preview", post |-> p], reply |-> None]]
        /\ step = 1 /\ step' = 1
      BY <1>1 DEF FetchPost, Begin, Send
  <2>2. \A h \in Handlers \ {"post"} : call'[h] = None
      BY <1>0, <2>1, CallBecomes, EarlySteps
  <2> QED BY <1>0, <2>1, <2>2, HandlersDistinct
          DEF WhoRuns, WhatIsShown, TableIsOfForm, ImportIsOfForm, LoadsCount, LockIsOfForm,
              LockShown, ResultShown
<1>2. CASE GoToConditions
  <2>1. step = 1 /\ step' = 2 /\ createdGiveawayId # None /\ UNCHANGED <<call, createdGiveawayId>>
      BY <1>2 DEF GoToConditions
  <2>2. \A h \in Handlers : call'[h] = None
      BY <2>1, EarlySteps DEF Inv, Loading
  <2> QED BY <1>0, <2>1, <2>2
          DEF WhoRuns, WhatIsShown, TableIsOfForm, ImportIsOfForm, LoadsCount, LockIsOfForm,
              LockShown, ResultShown
<1>3. CASE Edit \/ GoBack
  <2>1. /\ step' \in {1, 2} /\ UNCHANGED <<call, createdGiveawayId>> /\ step \in {2, 3}
        /\ Press(SomeCallRuns)
      BY <1>3 DEF Edit, GoBack
  <2>2. \A h \in Handlers : call'[h] = None
      BY <1>0, <2>1, Pressing DEF SomeCallRuns
  <2> QED BY <1>0, <2>1, <2>2
          DEF WhoRuns, WhatIsShown, TableIsOfForm, ImportIsOfForm, LoadsCount, LockIsOfForm,
              LockShown, ResultShown
<1>4. CASE FetchParticipants
  <2> DEFINE req == [op |-> "import", gid |-> createdGiveawayId, filter |-> form,
                     tab |-> participantTab]
  <2>1. /\ step = 2 /\ createdGiveawayId # None
        /\ UNCHANGED <<step, createdGiveawayId, form, store>>
        /\ Send("import", req)
      BY <1>4 DEF FetchParticipants, Begin, ActiveRules
  <2>2. /\ \A h \in Handlers \ {"import"} : call'[h] = None
        /\ call'["import"].req.op = "import" /\ call'["import"].req.gid = createdGiveawayId
        /\ call'["import"].req.filter = form /\ call'["import"].reply = None
    <3>1. /\ call'["import"].req = req /\ call'["import"].reply = None
          /\ \A k \in Handlers \ {"import"} : call'[k] = call[k]
        BY <1>0, <2>1, Asked
    <3> QED BY <2>1, <3>1, EarlySteps
  <2> QED BY <1>0, <2>1, <2>2, HandlersDistinct
          DEF WhoRuns, WhatIsShown, TableIsOfForm, ImportIsOfForm, LoadsCount, LockIsOfForm,
              LockShown, ResultShown, Answered
<1>5. ASSUME NEW tab \in Tabs, NEW h \in TabLoads, ChooseTab(tab, h)
      PROVE  (WhoRuns /\ WhatIsShown)'
  <2> DEFINE req == [op |-> "rows", gid |-> createdGiveawayId, tab |-> tab]
  <2>1. /\ step = 3 /\ createdGiveawayId # None
        /\ UNCHANGED <<step, createdGiveawayId, form, store, counts, lockedSnapshot, drawResult>>
        /\ Send(h, req)
      BY <1>5 DEF ChooseTab, Begin, WhoRuns
  <2>2. /\ \A k \in Handlers \ {h} : call'[k] = call[k]
        /\ call'[h].req.gid = createdGiveawayId /\ call'[h].reply = None
      BY <1>0, <2>1, Asked
  <2>3. WhoRuns'
      BY <1>0, <2>1, <2>2, HandlersDistinct DEF WhoRuns
  <2>4. WhatIsShown'
      BY <1>0, <2>1, <2>2, HandlersDistinct, SameWork
          DEF WhatIsShown, TableIsOfForm, ImportIsOfForm, LoadsCount, LockIsOfForm,
              LockShown, ResultShown, Answered
  <2> QED BY <2>3, <2>4
<1>6. CASE LockSnapshot
  <2> DEFINE req == [op |-> "lock", gid |-> createdGiveawayId, filter |-> LockRules]
  <2>1. /\ step = 3 /\ createdGiveawayId # None
        /\ UNCHANGED <<step, createdGiveawayId, form, store, counts, lockedSnapshot, drawResult>>
        /\ Send("lock", req)
      BY <1>6 DEF LockSnapshot, Begin
  <2>2. /\ \A k \in Handlers \ {"lock"} : call'[k] = call[k]
        /\ call'["lock"].req.gid = createdGiveawayId /\ call'["lock"].reply = None
        /\ call'["lock"].req.filter = LockRules
      BY <1>0, <2>1, Asked
  <2>3. WhoRuns'
      BY <1>0, <2>1, <2>2, HandlersDistinct DEF WhoRuns
  <2>4. WhatIsShown'
      BY <1>0, <2>1, <2>2, HandlersDistinct, SameWork
          DEF WhatIsShown, TableIsOfForm, ImportIsOfForm, LoadsCount, LockIsOfForm,
              LockShown, ResultShown, Answered
  <2> QED BY <2>3, <2>4
<1>7. CASE UnlockSnapshot
  <2> DEFINE req == [op |-> "unlock", gid |-> createdGiveawayId]
  <2>1. /\ step = 4 /\ createdGiveawayId # None /\ call["draw"] = None
        /\ UNCHANGED <<step, createdGiveawayId, form, store, counts, lockedSnapshot, drawResult>>
        /\ Send("unlock", req)
    <3>1. step = 4 /\ createdGiveawayId # None /\ call["draw"] = None
        BY <1>9, <1>7 DEF UnlockSnapshot, WhoRuns
    <3> QED BY <1>7, <3>1 DEF UnlockSnapshot, Begin
  <2>2. /\ \A k \in Handlers \ {"unlock"} : call'[k] = call[k]
        /\ call'["unlock"].req.gid = createdGiveawayId
      BY <1>0, <2>1, Asked
  <2>3. WhoRuns'
      BY <1>0, <2>1, <2>2, HandlersDistinct DEF WhoRuns
  <2>4. WhatIsShown'
      BY <1>0, <2>1, <2>2, HandlersDistinct, SameWork
          DEF WhatIsShown, TableIsOfForm, ImportIsOfForm, LoadsCount, LockIsOfForm,
              LockShown, ResultShown, Answered
  <2> QED BY <2>3, <2>4
<1>8. CASE ExecuteDraw
  <2> DEFINE req == [op |-> "draw", gid |-> createdGiveawayId]
  <2>1. /\ step = 4 /\ createdGiveawayId # None /\ call["unlock"] = None
        /\ UNCHANGED <<step, createdGiveawayId, form, store, counts, lockedSnapshot, drawResult>>
        /\ Send("draw", req)
    <3>1. call["unlock"] = None
        BY <1>0, <1>9, <1>8, Pressing DEF ExecuteDraw
    <3> QED BY <1>8, <3>1 DEF ExecuteDraw, Begin
  <2>2. /\ \A k \in Handlers \ {"draw"} : call'[k] = call[k]
        /\ call'["draw"].req.gid = createdGiveawayId /\ call'["draw"].reply = None
      BY <1>0, <2>1, Asked
  <2>3. WhoRuns'
      BY <1>0, <2>1, <2>2, HandlersDistinct DEF WhoRuns
  <2>4. WhatIsShown'
      BY <1>0, <2>1, <2>2, HandlersDistinct, SameWork
          DEF WhatIsShown, TableIsOfForm, ImportIsOfForm, LoadsCount, LockIsOfForm,
              LockShown, ResultShown, Answered
  <2> QED BY <2>3, <2>4
<1> QED BY <1>1, <1>2, <1>3, <1>4, <1>5, <1>6, <1>7, <1>8 DEF Organiser

LEMMA CalmReplies ==
    ASSUME Inv, Sound, WhoRuns, WhatIsShown, NEW h \in Handlers, Show(h) \/ Fail(h)
    PROVE  (WhoRuns /\ WhatIsShown)'
<1> USE DEF post, table, page, calls, rest
<1> HIDE DEF CallsOf, StoreOK, Inv, Flagged, Locks
<1>0. /\ {"post", "import", "lock", "unlock", "draw"} \subseteq Handlers
      /\ TabLoads \subseteq Handlers /\ step \in 1..5
    BY DEF Handlers, Sound, PageOK
<1>1. CASE ShowPost \/ PostReady
  <2>1. /\ step = 1 /\ step' = 1
        /\ \E new : call' = [call EXCEPT !["post"] = new]
      BY <1>1 DEF ShowPost, PostReady, Send, End, Replied, WhoRuns
  <2>2. \A k \in Handlers \ {"post"} : call'[k] = None
      BY <1>0, <2>1, CallBecomes, EarlySteps
  <2> QED BY <1>0, <2>1, <2>2, HandlersDistinct
          DEF WhoRuns, WhatIsShown, TableIsOfForm, ImportIsOfForm, LoadsCount, LockIsOfForm,
              LockShown, ResultShown
<1>2. CASE ShowParticipants
  <2> DEFINE req == [op |-> "rows", gid |-> call["import"].req.gid, tab |-> call["import"].req.tab]
  <2>1. /\ call["import"] # None /\ call["import"].req.op = "import" /\ Answered("import")
        /\ step' = 3 /\ counts' = call["import"].reply.counts
        /\ UNCHANGED <<createdGiveawayId, form, store, lockedSnapshot, drawResult>>
        /\ Send("import", req)
      BY <1>2 DEF ShowParticipants, Replied, Answered
  <2>2. /\ call'["import"].req = req /\ call'["import"].reply = None
        /\ \A k \in Handlers \ {"import"} : call'[k] = call[k]
      BY <1>0, <2>1, Asked
  <2>3. /\ step = 2 /\ createdGiveawayId # None
        /\ call'["import"].req.op = "rows" /\ call'["import"].req.gid = createdGiveawayId
      BY <1>0, <2>1, <2>2, HandlersDistinct DEF WhoRuns
  <2>4. \A k \in Handlers \ {"import"} : call'[k] = None
      BY <2>2, <2>3, EarlySteps
  <2>5. WhoRuns'
      BY <1>0, <2>1, <2>3, <2>4, HandlersDistinct DEF WhoRuns
  <2>6. Work.participants = Import(Work.post, form) /\ counts' = Counts(Work)
      BY <2>1 DEF WhatIsShown, ImportIsOfForm
  <2>7. WhatIsShown'
      BY <1>0, <2>1, <2>2, <2>3, <2>4, <2>6, HandlersDistinct, SameWork
          DEF WhatIsShown, TableIsOfForm, ImportIsOfForm, LoadsCount, LockIsOfForm,
              LockShown, ResultShown, Answered
  <2> QED BY <2>5, <2>7
<1>3. CASE ShowRows(h)
  <2>1. /\ call[h] # None /\ call[h].req.op = "rows" /\ Answered(h)
        /\ counts' = call[h].reply.counts /\ call' = [call EXCEPT ![h] = None]
        /\ UNCHANGED <<step, createdGiveawayId, form, store, lockedSnapshot, drawResult>>
      BY <1>3 DEF ShowRows, Replied, Answered, End
  <2>2. call'[h] = None /\ \A k \in Handlers \ {h} : call'[k] = call[k]
      BY <2>1, CallBecomes
  <2>3. h = "import" \/ h \in TabLoads
      BY <2>1, WhoAsksForRows DEF Sound, CallsOK
  <2>4. counts' = Counts(Work)
      BY <2>1, <2>3 DEF WhatIsShown, LoadsCount
  <2>5. WhoRuns'
      BY <1>0, <2>1, <2>2, HandlersDistinct DEF WhoRuns
  <2>6. WhatIsShown'
      BY <1>0, <2>1, <2>2, <2>4, HandlersDistinct, SameWork
          DEF WhatIsShown, TableIsOfForm, ImportIsOfForm, LoadsCount, LockIsOfForm,
              LockShown, ResultShown, Answered
  <2> QED BY <2>5, <2>6
<1>4. CASE ShowLock
  <2>1. /\ call["lock"] # None /\ Answered("lock")
        /\ lockedSnapshot' = call["lock"].reply.snapshot /\ step' = 4
        /\ call' = [call EXCEPT !["lock"] = None]
        /\ UNCHANGED <<createdGiveawayId, form, store, counts, drawResult>>
      BY <1>4 DEF ShowLock, Replied, Answered, End
  <2>2. call'["lock"] = None /\ \A k \in Handlers \ {"lock"} : call'[k] = call[k]
      BY <1>0, <2>1, CallBecomes
  <2>3. step = 3 /\ call["draw"] = None /\ call["unlock"] = None /\ createdGiveawayId # None
      BY <2>1 DEF WhoRuns
  <2>4. /\ Work.status = "SNAPSHOT_LOCKED" /\ lockedSnapshot' = InForce
        /\ InForce.eligible = InLock /\ InForce.gid = createdGiveawayId
      BY <2>1 DEF WhatIsShown, LockIsOfForm, InForce, Snapshot
  <2>5. WhoRuns'
      BY <1>0, <2>1, <2>2, <2>3, HandlersDistinct DEF WhoRuns
  <2>6. WhatIsShown'
      BY <1>0, <2>1, <2>2, <2>3, <2>4, HandlersDistinct, SameWork
          DEF WhatIsShown, TableIsOfForm, ImportIsOfForm, LoadsCount, LockIsOfForm,
              LockShown, ResultShown, Answered
  <2> QED BY <2>5, <2>6
<1>5. CASE ShowUnlocked
  <2>1. /\ call["unlock"] # None /\ step' = 3 /\ call' = [call EXCEPT !["unlock"] = None]
        /\ UNCHANGED <<createdGiveawayId, form, store, counts, drawResult>>
      BY <1>5 DEF ShowUnlocked, Replied, End
  <2>2. call'["unlock"] = None /\ \A k \in Handlers \ {"unlock"} : call'[k] = call[k]
      BY <1>0, <2>1, CallBecomes
  <2>3. step = 4 /\ call["draw"] = None /\ call["lock"] = None /\ createdGiveawayId # None
      BY <2>1 DEF WhoRuns
  <2>4. WhoRuns'
      BY <1>0, <2>1, <2>2, <2>3, HandlersDistinct DEF WhoRuns
  <2>5. WhatIsShown'
      BY <1>0, <2>1, <2>2, <2>3, HandlersDistinct, SameWork
          DEF WhatIsShown, TableIsOfForm, ImportIsOfForm, LoadsCount, LockIsOfForm,
              LockShown, ResultShown, Answered
  <2> QED BY <2>4, <2>5
<1>6. CASE ShowResult
  <2>1. /\ call["draw"] # None /\ Answered("draw") /\ step' = 5
        /\ drawResult' = call["draw"].reply.result
        /\ call' = [call EXCEPT !["draw"] = None]
        /\ UNCHANGED <<createdGiveawayId, form, store, counts, lockedSnapshot>>
      BY <1>6 DEF ShowResult, Replied, Answered, End
  <2>2. call'["draw"] = None /\ \A k \in Handlers \ {"draw"} : call'[k] = call[k]
      BY <1>0, <2>1, CallBecomes
  <2>3. /\ step = 4 /\ call["unlock"] = None /\ call["lock"] = None /\ createdGiveawayId # None
        /\ drawResult' = lockedSnapshot
      BY <2>1 DEF WhoRuns, WhatIsShown, ResultShown
  <2>4. WhoRuns'
      BY <1>0, <2>1, <2>2, <2>3, HandlersDistinct DEF WhoRuns
  <2>5. WhatIsShown'
      BY <1>0, <2>1, <2>2, <2>3, HandlersDistinct, SameWork
          DEF WhatIsShown, TableIsOfForm, ImportIsOfForm, LoadsCount, LockIsOfForm,
              LockShown, ResultShown, Answered
  <2> QED BY <2>4, <2>5
<1>7. CASE Fail(h)
  <2>1. /\ call' = [call EXCEPT ![h] = None]
        /\ UNCHANGED <<step, createdGiveawayId, form, store, counts, lockedSnapshot, drawResult>>
      BY <1>7 DEF Fail, End
  <2>2. call'[h] = None /\ \A k \in Handlers \ {h} : call'[k] = call[k]
      BY <2>1, CallBecomes
  <2>3. WhoRuns'
      BY <1>0, <2>1, <2>2, HandlersDistinct DEF WhoRuns
  <2>4. WhatIsShown'
      BY <1>0, <2>1, <2>2, HandlersDistinct, SameWork
          DEF WhatIsShown, TableIsOfForm, ImportIsOfForm, LoadsCount, LockIsOfForm,
              LockShown, ResultShown, Answered
  <2> QED BY <2>3, <2>4
<1> QED BY <1>1, <1>2, <1>3, <1>4, <1>5, <1>6, <1>7 DEF Show

LEMMA Answering ==
    ASSUME Sound, NEW h \in Handlers, Answer(h)
    PROVE  /\ call[h] # None /\ call[h] \in CallsOf(h) /\ Accept(call[h].req)
           /\ call'[h].req = call[h].req /\ call'[h].reply = Reply(call[h].req, store')
           /\ \A k \in Handlers \ {h} : call'[k] = call[k]
           /\ UNCHANGED <<step, createdGiveawayId, form, counts, lockedSnapshot, drawResult>>
<1> DEFINE c == call[h]
           new == [c EXCEPT !.reply = Reply(c.req, store')]
<1> HIDE DEF CallsOf, StoreOK, Flagged, Locks
<1>1. c # None /\ c \in CallsOf(h) /\ Accept(c.req) /\ call' = [call EXCEPT ![h] = new]
    BY DEF Answer, Sound, CallsOK
<1>2. new.req = c.req /\ new.reply = Reply(c.req, store')
  <2>1. DOMAIN c = {"req", "reply"}
      BY <1>1, CallShape
  <2> QED BY <2>1
<1> HIDE DEF new
<1>3. call'[h] = new /\ \A k \in Handlers \ {h} : call'[k] = call[k]
    BY <1>1, CallBecomes
<1> QED BY <1>1, <1>2, <1>3 DEF Answer, page, post, table

LEMMA CalmAnswers ==
    ASSUME Inv, Sound, WhoRuns, WhatIsShown, NEW h \in Handlers, Answer(h)
    PROVE  (WhoRuns /\ WhatIsShown)'
<1> DEFINE c == call[h]
<1> HIDE DEF CallsOf, StoreOK, Inv, Flagged, Locks
<1>0. /\ {"post", "import", "lock", "unlock", "draw"} \subseteq Handlers
      /\ TabLoads \subseteq Handlers /\ step \in 1..5 /\ StoreOK
    BY DEF Handlers, Sound, PageOK
<1>1. /\ c # None /\ c \in CallsOf(h) /\ Accept(c.req)
      /\ call'[h].req = c.req /\ call'[h].reply = Reply(c.req, store')
      /\ \A k \in Handlers \ {h} : call'[k] = call[k]
      /\ UNCHANGED <<step, createdGiveawayId, form, counts, lockedSnapshot, drawResult>>
    BY Answering
<1> HIDE DEF c
<1>2. \A k \in Handlers : call'[k] # None => call[k] # None /\ call'[k].req = call[k].req
    BY <1>1 DEF c
<1>3. WhoRuns'
    BY <1>0, <1>1, <1>2, HandlersDistinct DEF WhoRuns
<1>4. h # "post" => /\ c.req.gid = createdGiveawayId /\ createdGiveawayId \in 1..Len(store)
                    /\ LockRules' = LockRules
  <2> SUFFICES ASSUME h # "post" PROVE <1>4!2
      OBVIOUS
  <2>1. c.req.gid = createdGiveawayId /\ c.req.gid \in 1..Len(store)
      BY <1>1 DEF c, WhoRuns, Sound, AboutStored
  <2> QED BY <1>1, <2>1 DEF LockRules
<1>5. WhatIsShown'
  <2>1. CASE h = "post"
    <3>1. step = 1 /\ step' = 1 /\ \A k \in Handlers \ {"post"} : call'[k] = None
        BY <1>1, <2>1, EarlySteps DEF c, WhoRuns
    <3> QED BY <1>0, <3>1, HandlersDistinct
            DEF WhatIsShown, TableIsOfForm, ImportIsOfForm, LoadsCount, LockIsOfForm,
                LockShown, ResultShown
  <2>2. CASE h \in TabLoads \cup {"import"} /\ c.req.op = "rows"
    <3>1. c \in RowsCalls
        BY <1>1, <2>2, WhoAsksForRows
    <3>2. UNCHANGED store /\ Reply(c.req, store').counts = Counts(Work)
        BY <1>0, <1>1, <1>4, <2>2, <3>1, HandlersDistinct, RowsAccepted DEF Work
    <3>3. call'[h].reply.counts = Counts(Work) /\ call'[h].req.op = "rows"
        BY <1>1, <2>2, <3>2
    <3> QED BY <1>0, <1>1, <2>2, <3>2, <3>3, HandlersDistinct, SameWork
            DEF WhatIsShown, TableIsOfForm, ImportIsOfForm, LoadsCount, LockIsOfForm,
                LockShown, ResultShown, Answered
  <2>3. CASE h = "import" /\ c.req.op = "import"
    <3>1. step = 2 /\ step' = 2 /\ \A k \in Handlers \ {"import"} : call'[k] = None
        BY <1>0, <1>1, <2>3, EarlySteps DEF c, WhoRuns
    <3>2. c.req.filter = form /\ c.req.filter \in Filters
      <4>1. c \in ImportCalls
          BY <1>1, <2>3, CallKinds DEF RowsCalls
      <4>2. c.req.filter \in Filters
          BY <4>1 DEF ImportCalls
      <4> QED BY <1>1, <2>3, <4>2 DEF c, WhatIsShown, ImportIsOfForm
    <3>3. AcceptImport(c.req) /\ Reply(c.req, store') = [counts |-> Counts(store'[c.req.gid])]
        BY <1>1, <2>3 DEF Accept, Reply
    <3>4. /\ Work' = [Work EXCEPT !.participants = Import(Work.post, form)]
          /\ Work \in Giveaways
      <4>1. store'[c.req.gid] = [store[c.req.gid] EXCEPT
               !.participants = Import(store[c.req.gid].post, c.req.filter)]
          BY <1>0, <1>4, <2>3, <3>2, <3>3, ImportAccepted
      <4> QED BY <1>0, <1>1, <1>4, <2>3, <3>2, <4>1, StoredOne DEF Work
    <3>5. Work'.participants = Import(Work'.post, form)
        BY <3>4 DEF Giveaways
    <3>6. call'["import"].reply.counts = Counts(Work')
        BY <1>1, <1>4, <2>3, <3>3 DEF Work
    <3>7. ImportIsOfForm'
        BY <1>1, <2>3, <3>2, <3>5, <3>6 DEF ImportIsOfForm
    <3> QED BY <1>0, <1>1, <2>3, <3>1, <3>7, HandlersDistinct
            DEF WhatIsShown, TableIsOfForm, LoadsCount, LockIsOfForm, LockShown, ResultShown
  <2>4. CASE h = "lock"
    <3>1. /\ step = 3 /\ step' = 3 /\ c.req.filter = LockRules
          /\ call'["unlock"] = None /\ call'["draw"] = None
        BY <1>0, <1>1, <2>4 DEF c, WhoRuns, WhatIsShown, LockIsOfForm
    <3>2. c.req.op = "lock" /\ c.req.filter \in Filters
      <4>1. c \in LockCalls
          BY <1>1, <2>4, CallKinds
      <4> QED BY <4>1 DEF LockCalls
    <3>3. /\ AcceptLock(c.req)
          /\ Reply(c.req, store').snapshot =
                Snapshot(c.req.gid, store'[c.req.gid], LatestVersion(store'[c.req.gid]))
        BY <1>1, <3>2 DEF Accept, Reply
    <3>4. /\ Work'.status = "SNAPSHOT_LOCKED" /\ Work'.post = Work.post
          /\ Work'.participants = Work.participants
          /\ InForce'.eligible = Passing(Work.participants.known, LockRules)
      <4>1. /\ store'[c.req.gid].status = "SNAPSHOT_LOCKED"
            /\ store'[c.req.gid].post = store[c.req.gid].post
            /\ store'[c.req.gid].participants = store[c.req.gid].participants
            /\ Snapshot(c.req.gid, store'[c.req.gid], LatestVersion(store'[c.req.gid])).eligible
                  = Passing(store[c.req.gid].participants.known, c.req.filter)
          BY <1>0, <1>4, <2>4, <3>2, <3>3, LockAccepted
      <4> QED BY <1>1, <1>4, <2>4, <3>1, <4>1 DEF Work, InForce
    <3>5. Work.participants = Import(Work.post, form) /\ counts = Counts(Work)
        BY <3>1 DEF WhatIsShown, TableIsOfForm
    <3>6. Work.participants.known = Known(Work.post, form)
        BY <3>5 DEF Import
    <3>7. InForce'.eligible = InLock' /\ InLock' = InLock
        BY <1>1, <1>4, <2>4, <3>4, <3>6 DEF InLock
    <3>8. call'["lock"].reply.snapshot = InForce'
        BY <1>1, <1>4, <2>4, <3>3 DEF Work, InForce
    <3>9. LockIsOfForm'
        BY <1>1, <1>4, <2>4, <3>1, <3>4, <3>7, <3>8 DEF LockIsOfForm
    <3>10. Counts(Work') = Counts(Work) /\ TableIsOfForm'
        BY <1>1, <3>4, <3>5 DEF Counts, TableIsOfForm
    <3>11. LoadsCount'
        BY <1>0, <1>1, <2>4, <3>10, HandlersDistinct DEF WhatIsShown, LoadsCount, Answered
    <3>12. call'["import"] # None => call'["import"].req.op = "rows"
        BY <1>0, <3>1, <1>3 DEF WhoRuns
    <3> QED BY <3>1, <3>9, <3>10, <3>11, <3>12
            DEF WhatIsShown, ImportIsOfForm, LockShown, ResultShown
  <2>5. CASE h = "unlock"
    <3>1. step = 4 /\ step' = 4 /\ call'["draw"] = None /\ call'["lock"] = None
        BY <1>0, <1>1, <2>5 DEF c, WhoRuns
    <3>2. c.req.op = "unlock"
      <4>1. c \in UnlockCalls
          BY <1>1, <2>5, CallKinds
      <4> QED BY <4>1 DEF UnlockCalls
    <3>3. AcceptUnlock(c.req)
        BY <1>1, <3>2 DEF Accept
    <3>4. /\ Work'.status = "READY" /\ Work'.post = Work.post
          /\ Work'.participants = Work.participants
      <4>1. /\ store'[c.req.gid].status = "READY"
            /\ store'[c.req.gid].post = store[c.req.gid].post
            /\ store'[c.req.gid].participants = store[c.req.gid].participants
          BY <1>0, <1>4, <2>5, <3>3, UnlockAccepted
      <4> QED BY <1>1, <1>4, <2>5, <4>1 DEF Work
    <3>5. InLock' = InLock
        BY <1>1, <1>4, <2>5, <3>4 DEF InLock
    <3>6. Counts(Work') = Counts(Work) /\ TableIsOfForm'
        BY <1>1, <3>1, <3>4 DEF Counts, TableIsOfForm, WhatIsShown
    <3>7. LoadsCount'
        BY <1>0, <1>1, <2>5, <3>6, HandlersDistinct DEF WhatIsShown, LoadsCount, Answered
    <3>8. call'["import"] # None => call'["import"].req.op = "rows"
        BY <1>0, <3>1, <1>3 DEF WhoRuns
    <3>9. LockShown'
        BY <1>1, <3>1, <3>4, <3>5 DEF WhatIsShown, LockShown
    <3> QED BY <3>1, <3>6, <3>7, <3>8, <3>9
            DEF WhatIsShown, ImportIsOfForm, LockIsOfForm, ResultShown
  <2>6. CASE h = "draw"
    <3> DEFINE lock == Snapshot(c.req.gid, store[c.req.gid], SnapshotToDraw(store[c.req.gid]))
    <3>1. step = 4 /\ step' = 4 /\ call'["unlock"] = None /\ call'["lock"] = None
        BY <1>0, <1>1, <2>6 DEF c, WhoRuns
    <3>2. c.req.op = "draw"
      <4>1. c \in DrawCalls
          BY <1>1, <2>6, CallKinds
      <4> QED BY <4>1 DEF DrawCalls
    <3>3. AcceptDraw(c.req) /\ Reply(c.req, store').result = store'[c.req.gid].drawResult
        BY <1>1, <3>2 DEF Accept, Reply
    <3>4. lock = InForce
        BY <1>4, <2>6 DEF InForce, Work, SnapshotToDraw
    <3> HIDE DEF lock
    <3>5. /\ Work.status = "SNAPSHOT_LOCKED"
          /\ Work'.status = "DRAWN" /\ Work'.drawResult = lock /\ Work'.post = Work.post
          /\ Work'.participants = Work.participants
      <4>1. /\ store[c.req.gid].status = "SNAPSHOT_LOCKED"
            /\ store'[c.req.gid].status = "DRAWN"
            /\ store'[c.req.gid].drawResult = lock
            /\ store'[c.req.gid].post = store[c.req.gid].post
            /\ store'[c.req.gid].participants = store[c.req.gid].participants
          BY <1>0, <1>4, <2>6, <3>3, DrawAccepted DEF lock
      <4> QED BY <1>1, <1>4, <2>6, <4>1 DEF Work
    <3>6. lock = lockedSnapshot
        BY <3>1, <3>4, <3>5 DEF WhatIsShown, LockShown
    <3>7. InLock' = InLock
        BY <1>1, <1>4, <2>6, <3>5 DEF InLock
    <3>8. Counts(Work') = Counts(Work) /\ TableIsOfForm'
        BY <1>1, <3>1, <3>5 DEF Counts, TableIsOfForm, WhatIsShown
    <3>9. LoadsCount'
        BY <1>0, <1>1, <2>6, <3>8, HandlersDistinct DEF WhatIsShown, LoadsCount, Answered
    <3>10. call'["import"] # None => call'["import"].req.op = "rows"
        BY <1>0, <3>1, <1>3 DEF WhoRuns
    <3>11. LockShown'
        BY <1>1, <3>1, <3>5, <3>6, <3>7 DEF WhatIsShown, LockShown
    <3>12. call'["draw"].reply.result = lockedSnapshot
        BY <1>1, <1>4, <2>6, <3>3, <3>5, <3>6 DEF Work
    <3>13. ResultShown'
        BY <1>1, <3>1, <3>12 DEF ResultShown
    <3> QED BY <3>1, <3>8, <3>9, <3>10, <3>11, <3>13
            DEF WhatIsShown, ImportIsOfForm, LockIsOfForm
  <2>7. \/ h = "post" \/ h = "lock" \/ h = "unlock" \/ h = "draw"
        \/ h \in TabLoads \cup {"import"} /\ c.req.op = "rows"
        \/ h = "import" /\ c.req.op = "import"
    <3>1. h \in TabLoads => c.req.op = "rows"
      <4>1. h \in TabLoads => c \in RowsCalls
          BY <1>1, CallKinds
      <4> QED BY <4>1 DEF RowsCalls
    <3>2. h = "import" => c.req.op \in {"import", "rows"}
        BY <1>1 DEF c, WhoRuns
    <3> QED BY <3>1, <3>2, HandlersDistinct
  <2> QED BY <2>1, <2>2, <2>3, <2>4, <2>5, <2>6, <2>7
<1> QED BY <1>3, <1>5

LEMMA CalmInit == Init => Calm
<1> SUFFICES ASSUME Init PROVE WhoRuns /\ WhatIsShown
    BY DEF Calm
<1>1. step = 1 /\ \A h \in Handlers : call[h] = None
    BY DEF Init
<1>2. {"post", "import", "lock", "unlock", "draw"} \cup TabLoads \subseteq Handlers
    BY DEF Handlers
<1>3. WhoRuns
    BY <1>1, <1>2 DEF WhoRuns
<1>4. WhatIsShown
    BY <1>1, <1>2
       DEF WhatIsShown, TableIsOfForm, ImportIsOfForm, LoadsCount, LockIsOfForm, LockShown,
           ResultShown
<1> QED BY <1>3, <1>4

LEMMA CalmStep == Inv /\ Sound /\ Calm /\ [Next]_vars => Calm'
<1> SUFFICES ASSUME Inv, Sound, Calm, [Next]_vars, hasty' = 0 PROVE (WhoRuns /\ WhatIsShown)'
    BY DEF Calm
<1> USE DEF page, post, table, calls, rest
<1> HIDE DEF Inv, WhoRuns, WhatIsShown
<1>1. hasty = 0
  <2>1. hasty \in 0..MaxHasty
      BY DEF Sound, PageOK
  <2>2. UNCHANGED hasty \/ \E running : Press(running)
    <3>1. CASE Organiser
      <4>1. ASSUME NEW p \in Posts, FetchPost(p) PROVE UNCHANGED hasty
          BY <4>1 DEF FetchPost
      <4>2. ASSUME NEW tab \in Tabs, NEW h \in TabLoads, ChooseTab(tab, h) PROVE UNCHANGED hasty
          BY <4>2 DEF ChooseTab
      <4> QED BY <3>1, <4>1, <4>2 DEF Organiser, GoToConditions, Edit, GoBack,
                 FetchParticipants, LockSnapshot, UnlockSnapshot, ExecuteDraw
    <3>2. ASSUME NEW h \in Handlers, Proceed(h) PROVE UNCHANGED hasty
        BY <3>2 DEF Proceed, Answer, Show, Fail, ShowPost, PostReady, ShowParticipants, ShowLock,
                    ShowUnlocked, ShowResult, ShowRows
    <3> QED BY <3>1, <3>2 DEF Next, vars
  <2> QED BY <2>1, <2>2, Pressing
<1>2. WhoRuns /\ WhatIsShown
    BY <1>1 DEF Calm
<1>3. CASE Organiser
    BY <1>2, <1>3, CalmButtons
<1>4. ASSUME NEW h \in Handlers, Proceed(h) PROVE (WhoRuns /\ WhatIsShown)'
    BY <1>2, <1>4, CalmAnswers, CalmReplies DEF Proceed
<1>5. CASE UNCHANGED vars
  <2>1. UNCHANGED <<step, createdGiveawayId, form, counts, store, call, lockedSnapshot, drawResult>>
      BY <1>5 DEF vars
  <2> QED BY <1>2, <2>1, SameWork
          DEF WhoRuns, WhatIsShown, TableIsOfForm, ImportIsOfForm, LoadsCount, LockIsOfForm,
              LockShown, ResultShown, Answered
<1> QED BY <1>3, <1>4, <1>5 DEF Next

(* Who does not press on under a running call sees what the server has.      *)
THEOREM CalmInvariance == Spec => []Calm
BY CalmInit, CalmStep, Invariance, SoundInvariance, PTL DEF Spec

(* Whatever requests fail, in whatever order replies come: unless the       *)
(* organiser pressed on under a running call, the lock that is announced    *)
(* holds everybody whom the table counted as eligible.                      *)
THEOREM LockIsOfTable == Spec => []LockHoldsWhoWasShown
<1>1. Sound /\ Calm => LockHoldsWhoWasShown
  <2> SUFFICES ASSUME Sound, Calm, hasty = 0, step = 4
               PROVE  /\ lockedSnapshot.gid = createdGiveawayId
                      /\ counts.eligible \subseteq lockedSnapshot.eligible
                      /\ lockedSnapshot.eligible \ counts.eligible \subseteq form.blacklist
      BY DEF LockHoldsWhoWasShown
  <2>1. lockedSnapshot.gid = createdGiveawayId /\ lockedSnapshot.eligible = InLock
      BY DEF Calm, WhatIsShown, LockShown
  <2>2. Work.participants = Import(Work.post, form) /\ counts = Counts(Work)
      BY DEF Calm, WhatIsShown, TableIsOfForm
  <2>3. counts.eligible = Passing(Known(Work.post, form), form)
      BY <2>2 DEF Import, Counts
  <2>4. form \in Filters
      BY WizardAssumption DEF Sound, PageOK, Filters
  <2>5. LockRules.conditions = form.conditions /\ LockRules.blacklist = {}
      BY <2>4 DEF LockRules, Filters
  <2> QED BY <2>1, <2>3, <2>5 DEF InLock, Passing
<1> QED BY <1>1, SoundInvariance, CalmInvariance, PTL

(* Even if the draw was asked for while its lock was being undone: the      *)
(* result that is shown is the final one of a giveaway; and it is drawn     *)
(* from the lock announced before it, unless the organiser pressed on.      *)
THEOREM ResultIsOfLock == Spec => []ResultIsOfLockShown
<1>1. Sound /\ Calm => ResultIsOfLockShown
    BY DEF Sound, PageOK, Results, IsResult, Calm, WhatIsShown, ResultShown, ResultIsOfLockShown
<1> QED BY <1>1, SoundInvariance, CalmInvariance, PTL

===============================================================================
