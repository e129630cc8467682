----------------------------- MODULE GiveawayWizard -----------------------------
(***************************************************************************)
(* The page on which an organiser makes a giveaway in five steps (post,    *)
(* conditions, participants, draw, result), with as much of the server as  *)
(* the page talks to.                                                      *)
(*                                                                         *)
(* Each button runs an async handler that sends requests one after the     *)
(* other and sets the page's state as they are answered.  A handler works  *)
(* with the values of the render in which it was clicked, while the        *)
(* organiser may press whatever is not disabled.  The server's side of a   *)
(* request, on the memory repository, is one action here: the races of its *)
(* handlers are the subject of GiveawayLifecycle.                          *)
(*                                                                         *)
(* Lists fit one page of 50, so there is no page to turn, and a count is   *)
(* the set that it counts.                                                 *)
(***************************************************************************)
EXTENDS MemoryRepository

CONSTANTS
    Posts,          \* VK posts
    People,         \* VK users
    Did,            \* Did[p][u]: the conditions user u meets on post p
    Reactions,      \* conditions by which the import finds users
    Conditions,     \* conditions with a check box
    Forms,          \* bound: what may be checked and typed in step 2
    Preset,         \* the form as it is at first
    Tabs,           \* the tabs of the table, or those pressed
    TabLoads,       \* bound: page loads for tabs under way at the same time
    MaxHasty,       \* bound: presses under a running call
    MaxLocks        \* bound: locks of one giveaway

ASSUME WizardAssumption ==
    /\ Reactions \subseteq Conditions
    /\ Forms \subseteq [conditions : SUBSET Conditions, blacklist : SUBSET People]
    /\ Preset \in Forms /\ Preset.blacklist = {}
    /\ TabLoads \cap {"post", "import", "lock", "unlock", "draw"} = {}
    /\ Tabs \subseteq {"eligible", "excluded", "all"} /\ "eligible" \in Tabs
    /\ Did \in [Posts -> [People -> SUBSET Conditions]]
    /\ MaxHasty \in Nat /\ MaxLocks \in Nat

VARIABLES
    step, postData, createdGiveawayId, participantTab,
    form,            \* rules, and the users meant by blacklistInput
    participants,    \* the rows displayed, by their flag
    counts,          \* eligibleCount and excludedCount
    lockedSnapshot,  \* with the seedCommitment, set and reset together
    drawResult,
    busy,            \* the loading flags that are true
    call,            \* per handler: the request it awaits and its answer
    store,           \* the server's giveaways; the index is the id
    hasty            \* history: how often the organiser pressed on under a running call

post  == <<postData, createdGiveawayId>>
table == <<participantTab, participants, counts>>
page  == <<step, post, form, table, lockedSnapshot, drawResult>>
calls == <<busy, call>>
rest  == <<store, hasty>>
vars  == <<page, calls, rest>>

Handlers == {"post", "import", "lock", "unlock", "draw"} \cup TabLoads

NoRows == [eligible |-> {}, excluded |-> {}]

Init ==
    /\ step = 1
    /\ postData = None /\ createdGiveawayId = None
    /\ form = Preset
    /\ participantTab = "eligible" /\ participants = NoRows /\ counts = NoRows
    /\ lockedSnapshot = None /\ drawResult = None
    /\ busy = {} /\ call = [h \in Handlers |-> None]
    /\ store = <<>> /\ hasty = 0

-----------------------------------------------------------------------------
(* The server.                                                             *)

(* What an import learns of a user: only what it asks VK about. *)
Known(p, filter) ==
    [u \in {x \in People : Did[p][x] \cap filter.conditions \cap Reactions # {}} |->
        Did[p][u] \cap filter.conditions]

(* The rows the filter engine lets through. *)
Passing(known, filter) ==
    {u \in DOMAIN known : filter.conditions \subseteq known[u]} \ filter.blacklist

(* The rows an import saves. *)
Import(p, filter) ==
    [known |-> Known(p, filter), eligible |-> Passing(Known(p, filter), filter)]

AcceptCreate(req) == store' = Append(store, Created(req.post))

AcceptImport(req) ==
    LET gw == store[req.gid] IN
       /\ MaySave(gw)
       /\ store' = [store EXCEPT ![req.gid] = Saved(gw, Import(gw.post, req.filter))]

AcceptLock(req) ==
    LET gw == store[req.gid]
        eligible == Passing(gw.participants.known, req.filter)
    IN /\ MayLock(gw, eligible)
       /\ NewVersion(gw) <= MaxLocks
       /\ store' = [store EXCEPT ![req.gid] = Locked(gw, eligible)]

AcceptUnlock(req) ==
    /\ MayUnlock(store[req.gid])
    /\ store' = [store EXCEPT ![req.gid] = Unlocked(store[req.gid])]

(* A snapshot with the seed it is locked or drawn with. *)
Snapshot(gid, gw, v) ==
    [gid |-> gid, version |-> v, eligible |-> gw.snapshots[v], seed |-> gw.seed]

(* The request asks for no more winners than there are; it names no snapshot. *)
SnapshotToDrawOldest(gw) == 1
SnapshotToDraw(gw) == LatestVersion(gw)

AcceptDraw(req) ==
    LET gw == store[req.gid] IN
       /\ MayDraw(gw)
       /\ store' = [store EXCEPT ![req.gid] =
            Drawn(gw, Snapshot(req.gid, gw, SnapshotToDraw(gw)))]

(* What a request that is not refused does. *)
Accept(req) ==
    \/ req.op \in {"preview", "rows"} /\ UNCHANGED store
    \/ req.op = "create" /\ AcceptCreate(req)
    \/ req.op = "import" /\ AcceptImport(req)
    \/ req.op = "lock" /\ AcceptLock(req)
    \/ req.op = "unlock" /\ AcceptUnlock(req)
    \/ req.op = "draw" /\ AcceptDraw(req)

(* What its reply carries, from the giveaways as they are after it. *)
Reply(req, gws) ==
    LET gw == gws[req.gid] IN
    CASE req.op = "preview" -> [post |-> req.post]
      [] req.op = "create"  -> [gid |-> Len(gws)]
      [] req.op = "import"  -> [counts |-> Counts(gw)]
      [] req.op = "rows"    -> [counts |-> Counts(gw), rows |-> FirstPage(gw, req.tab)]
      [] req.op = "lock"    -> [snapshot |-> Snapshot(req.gid, gw, LatestVersion(gw))]
      [] req.op = "unlock"  -> [snapshot |-> None]
      [] req.op = "draw"    -> [result |-> gw.drawResult]

Answer(h) ==
    /\ call[h] # None /\ call[h].reply = None
    /\ Accept(call[h].req)
    /\ call' = [call EXCEPT ![h].reply = Reply(call[h].req, store')]
    /\ UNCHANGED <<page, busy, hasty>>

-----------------------------------------------------------------------------
(* What the handlers have in common.                                       *)

FlagOf(h) == IF h \in TabLoads THEN "page" ELSE h

Send(h, req) == call' = [call EXCEPT ![h] = [req |-> req, reply |-> None]]

Begin(h, req) ==
    /\ call[h] = None
    /\ Send(h, req)
    /\ busy' = busy \cup {FlagOf(h)}

(* What the finally blocks reset, that of a page load before that of the *)
(* import which awaits it.                                               *)
ClearedByLoad(h) == IF call[h].req.op = "rows" THEN {"page"} ELSE {FlagOf(h)}
Cleared(h) == {FlagOf(h)} \cup (IF call[h].req.op = "rows" THEN {"page"} ELSE {})

End(h) ==
    /\ call' = [call EXCEPT ![h] = None]
    /\ busy' = busy \ Cleared(h)

Replied(h, op) == call[h] # None /\ call[h].req.op = op /\ call[h].reply # None

(* The organiser goes back, edits the form or asks for the draw, none of   *)
(* which is disabled while other handlers run.                             *)
Press(running) ==
    IF running THEN hasty < MaxHasty /\ hasty' = hasty + 1 ELSE UNCHANGED hasty

SomeCallRuns == \E h \in Handlers : call[h] # None

-----------------------------------------------------------------------------
(* Step 1: the post.                                                       *)

(* handleFetchPost: the id of the giveaway made before is forgotten first. *)
IdWhileLoadingKept == createdGiveawayId
IdWhileLoading == None

FetchPost(p) ==
    /\ step = 1
    /\ "post" \notin busy
    /\ \A g \in DOMAIN store : store[g].post # p    \* bound: each post once
    /\ Begin("post", [op |-> "preview", post |-> p])
    /\ createdGiveawayId' = IdWhileLoading
    /\ UNCHANGED <<step, postData, form, table, lockedSnapshot, drawResult, rest>>

ShowPost ==
    /\ Replied("post", "preview")
    /\ postData' = call["post"].reply.post
    /\ Send("post", [op |-> "create", post |-> call["post"].reply.post])
    /\ UNCHANGED <<step, createdGiveawayId, form, table, lockedSnapshot, drawResult, busy, rest>>

PostReady ==
    /\ Replied("post", "create")
    /\ createdGiveawayId' = call["post"].reply.gid
    /\ End("post")
    /\ UNCHANGED <<step, postData, form, table, lockedSnapshot, drawResult, rest>>

GoToConditions ==
    /\ step = 1
    /\ createdGiveawayId # None
    /\ step' = 2
    /\ UNCHANGED <<post, form, table, lockedSnapshot, drawResult, calls, rest>>

-----------------------------------------------------------------------------
(* Step 2: the conditions and the blacklist.                               *)

Edit ==
    /\ step = 2
    /\ form' \in Forms \ {form}
    /\ Press(SomeCallRuns)
    /\ UNCHANGED <<step, post, table, lockedSnapshot, drawResult, calls, store>>

GoBack ==
    /\ step \in {2, 3}
    /\ step' = step - 1
    /\ Press(SomeCallRuns)
    /\ UNCHANGED <<post, form, table, lockedSnapshot, drawResult, calls, store>>

(* The rules of the form with the blacklist typed in. *)
ActiveRules == form

FetchParticipants ==
    /\ step = 2
    /\ "import" \notin busy
    /\ createdGiveawayId # None
    /\ Begin("import", [op |-> "import", gid |-> createdGiveawayId,
                        filter |-> ActiveRules, tab |-> participantTab])
    /\ UNCHANGED <<page, rest>>

(* On to the table, and to a load of its first page. *)
ShowParticipants ==
    /\ Replied("import", "import")
    /\ counts' = call["import"].reply.counts
    /\ step' = 3
    /\ Send("import", [op |-> "rows", gid |-> call["import"].req.gid,
                       tab |-> call["import"].req.tab])
    /\ busy' = busy \cup {"page"}
    /\ UNCHANGED <<post, form, participantTab, participants, lockedSnapshot, drawResult, rest>>

(* loadParticipantsPage, as the end of an import or for a tab. *)
ShowRows(h) ==
    /\ Replied(h, "rows")
    /\ participants' = call[h].reply.rows
    /\ counts' = call[h].reply.counts
    /\ End(h)
    /\ UNCHANGED <<step, post, form, participantTab, lockedSnapshot, drawResult, rest>>

-----------------------------------------------------------------------------
(* Step 3: the table and the lock.                                         *)

ChooseTab(tab, h) ==
    /\ step = 3
    /\ participantTab' = tab
    /\ IF createdGiveawayId # None
       THEN Begin(h, [op |-> "rows", gid |-> createdGiveawayId, tab |-> tab])
       ELSE UNCHANGED <<calls>>
    /\ UNCHANGED <<step, post, form, participants, counts, lockedSnapshot, drawResult, rest>>

(* The rules of the form alone: excludeBlacklistedIds stays the empty default. *)
LockRulesPreset == Preset
LockRules == [form EXCEPT !.blacklist = {}]

LockSnapshot ==
    /\ step = 3
    /\ "lock" \notin busy
    /\ counts.eligible # {}
    /\ createdGiveawayId # None
    /\ Begin("lock", [op |-> "lock", gid |-> createdGiveawayId, filter |-> LockRules])
    /\ UNCHANGED <<page, rest>>

ShowLock ==
    /\ Replied("lock", "lock")
    /\ lockedSnapshot' = call["lock"].reply.snapshot
    /\ step' = 4
    /\ End("lock")
    /\ UNCHANGED <<post, form, table, drawResult, rest>>

-----------------------------------------------------------------------------
(* Step 4: back to the table, or the draw.                                 *)

UnlockSnapshot ==
    /\ step = 4
    /\ busy \cap {"unlock", "draw"} = {}
    /\ IF createdGiveawayId # None
       THEN /\ Begin("unlock", [op |-> "unlock", gid |-> createdGiveawayId])
            /\ UNCHANGED step
       ELSE step' = 3 /\ UNCHANGED <<calls>>
    /\ UNCHANGED <<post, form, table, lockedSnapshot, drawResult, rest>>

ShowUnlocked ==
    /\ Replied("unlock", "unlock")
    /\ lockedSnapshot' = None
    /\ step' = 3
    /\ End("unlock")
    /\ UNCHANGED <<post, form, table, drawResult, rest>>

(* Disabled while drawing and when no eligible row is displayed, not while *)
(* unlocking; the request does not say which snapshot is meant.            *)
ExecuteDraw ==
    /\ step = 4
    /\ "draw" \notin busy
    /\ participants.eligible # {}
    /\ createdGiveawayId # None
    /\ Begin("draw", [op |-> "draw", gid |-> createdGiveawayId])
    /\ Press("unlock" \in busy)
    /\ UNCHANGED <<page, store>>

ShowResult ==
    /\ Replied("draw", "draw")
    /\ drawResult' = call["draw"].reply.result
    /\ step' = 5
    /\ End("draw")
    /\ UNCHANGED <<post, form, table, lockedSnapshot, rest>>

-----------------------------------------------------------------------------
(* The catch and finally blocks: the request was refused, failed, or its   *)
(* reply got lost.                                                         *)
Fail(h) ==
    /\ call[h] # None
    /\ End(h)
    /\ UNCHANGED <<page, rest>>

Organiser ==
    \/ \E p \in Posts : FetchPost(p)
    \/ GoToConditions \/ Edit \/ GoBack \/ FetchParticipants
    \/ \E tab \in Tabs, h \in TabLoads : ChooseTab(tab, h)
    \/ LockSnapshot \/ UnlockSnapshot \/ ExecuteDraw

Show(h) ==
    \/ h = "post" /\ (ShowPost \/ PostReady)
    \/ h = "import" /\ ShowParticipants
    \/ h = "lock" /\ ShowLock
    \/ h = "unlock" /\ ShowUnlocked
    \/ h = "draw" /\ ShowResult
    \/ ShowRows(h)

Proceed(h) == Answer(h) \/ Show(h) \/ Fail(h)

Next ==
    \/ Organiser
    \/ \E h \in Handlers : Proceed(h)

Spec == Init /\ [][Next]_vars

-----------------------------------------------------------------------------
(* Properties.                                                             *)

Flagged == [eligible : SUBSET People, excluded : SUBSET People]
Ids     == Nat \ {0}
Locks   == [gid : Ids, version : 1..MaxLocks, eligible : SUBSET People,
            seed : 1..MaxLocks]
Filters == [conditions : SUBSET Conditions, blacklist : SUBSET People]

(* What each handler asks for, and is answered. *)
PostCalls ==
    [req : [op : {"preview"}, post : Posts], reply : [post : Posts] \cup {None}]
        \cup [req : [op : {"create"}, post : Posts], reply : [gid : Ids] \cup {None}]
RowsCalls ==
    [req : [op : {"rows"}, gid : Ids, tab : Tabs],
     reply : [counts : Flagged, rows : Flagged] \cup {None}]
ImportCalls ==
    [req : [op : {"import"}, gid : Ids, filter : Filters, tab : Tabs],
     reply : [counts : Flagged] \cup {None}]
LockCalls ==
    [req : [op : {"lock"}, gid : Ids, filter : Filters], reply : [snapshot : Locks] \cup {None}]
UnlockCalls ==
    [req : [op : {"unlock"}, gid : Ids], reply : [snapshot : {None}] \cup {None}]
DrawCalls ==
    [req : [op : {"draw"}, gid : Ids], reply : [result : Locks] \cup {None}]

CallsOf(h) ==
    CASE h = "post"   -> PostCalls
      [] h = "import" -> ImportCalls \cup RowsCalls
      [] h = "lock"   -> LockCalls
      [] h = "unlock" -> UnlockCalls
      [] h = "draw"   -> DrawCalls
      [] OTHER        -> RowsCalls

(* null is none of the values that may be there instead. *)
ASSUME NoneAssumption ==
    /\ None \notin Ids \cup Posts \cup Locks
    /\ \A h \in Handlers : None \notin CallsOf(h)
    /\ None \notin [post : Posts] \cup [gid : Ids] \cup [counts : Flagged]
    /\ None \notin [counts : Flagged, rows : Flagged]
    /\ None \notin [snapshot : Locks \cup {None}] \cup [result : Locks]

(* The page's state has the shape its screens expect, and the screens of   *)
(* the last steps have what they show.  A button is disabled exactly while *)
(* its handler runs, whatever fails and whatever the handler awaits in     *)
(* turn, so that none runs twice at a time and none stays disabled; and no *)
(* spinner turns without a load.                                           *)
TypeOK ==
    /\ step \in 1..5
    /\ postData \in Posts \cup {None}
    /\ createdGiveawayId \in Ids \cup {None}
    /\ form \in Forms
    /\ participantTab \in Tabs
    /\ participants \in Flagged /\ counts \in Flagged
    /\ lockedSnapshot \in Locks \cup {None} /\ drawResult \in Locks \cup {None}
    /\ busy \subseteq {"post", "import", "page", "lock", "unlock", "draw"}
    /\ DOMAIN call = Handlers /\ hasty \in 0..MaxHasty
    /\ \A h \in Handlers : call[h] \in CallsOf(h) \cup {None}
    /\ step = 4 => lockedSnapshot # None
    /\ step = 5 => drawResult # None
    /\ \A b \in Handlers \ TabLoads : b \in busy <=> call[b] # None
    /\ "page" \in busy => \E h \in Handlers : call[h] # None /\ call[h].req.op = "rows"

(* The giveaway that the next steps work on is one of the post displayed,  *)
(* whichever posts were loaded one after the other and whichever of those  *)
(* loads failed half way.                                                  *)
CreatedIsOfPostShown ==
    createdGiveawayId # None => store[createdGiveawayId].post = postData

(* Unless the organiser pressed on under a running call, the lock that is  *)
(* announced in step 4 is one of the giveaway in work and holds everybody  *)
(* the table counted as eligible, whatever requests failed before; whoever *)
(* else it holds was on the blacklist.                                     *)
LockHoldsWhoWasShown ==
    hasty = 0 /\ step = 4 =>
        /\ lockedSnapshot.gid = createdGiveawayId
        /\ counts.eligible \subseteq lockedSnapshot.eligible
        /\ lockedSnapshot.eligible \ counts.eligible \subseteq form.blacklist

(* The result of step 5 is the final one of a giveaway in the store, even  *)
(* if the draw was asked for while its lock was being undone; and under    *)
(* the same condition as above it is drawn from the very lock, with its    *)
(* commitment, that step 4 announced, although the request names none.     *)
ResultIsOfLockShown ==
    step = 5 =>
        /\ store[drawResult.gid].status = "DRAWN"
        /\ store[drawResult.gid].drawResult = drawResult
        /\ hasty = 0 => drawResult = lockedSnapshot

-----------------------------------------------------------------------------
(* What the page says and does not do: those on the blacklist of step 2,   *)
(* whom step 3 shows as excluded, are not in the lock that its button      *)
(* makes "of the participants".                                            *)
BlacklistIsKept ==
    hasty = 0 /\ step = 4 => lockedSnapshot.eligible \cap form.blacklist = {}

===============================================================================
