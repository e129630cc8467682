---------------------------- MODULE MemoryRepository ----------------------------
(***************************************************************************)
(* A giveaway of MemoryGiveawayRepository (STORAGE_DRIVER=memory).  No     *)
(* method awaits anything, so that each is one step: a guard May..., where *)
(* the method throws a ConflictError otherwise, and what it makes of the   *)
(* giveaway.  PrismaGiveawayRepository, which does the same in several     *)
(* steps, is the subject of GiveawayLifecycle.                             *)
(***************************************************************************)
EXTENDS Naturals, Sequences

CONSTANT None       \* null

(* The participants of a giveaway: what is known of whom, and who of them  *)
(* was flagged eligible.                                                   *)
NoParticipants == [known |-> [u \in {} |-> {}], eligible |-> {}]

Created(post) ==
    [post |-> post, status |-> "READY", participants |-> NoParticipants,
     snapshots |-> <<>>, seed |-> None, drawResult |-> None]

MaySave(gw) == gw.status = "READY"
Saved(gw, rows) == [gw EXCEPT !.participants = rows]

MayLock(gw, eligible) == gw.status = "READY" /\ eligible # {}

NewVersion(gw) == Len(gw.snapshots) + 1

(* The seed is a fresh one of each lock: it is named by the lock's version. *)
Locked(gw, eligible) ==
    [gw EXCEPT !.status = "SNAPSHOT_LOCKED",
               !.snapshots = Append(@, eligible),
               !.seed = NewVersion(gw)]

MayUnlock(gw) == gw.status = "SNAPSHOT_LOCKED"

Unlocked(gw) == [gw EXCEPT !.status = "READY", !.seed = None]

(* getGiveawayById offers the last snapshot, whether or not it is in force. *)
LatestVersion(gw) == Len(gw.snapshots)

(* drawLocks holds exactly the giveaways with a result. *)
MayDraw(gw) == gw.status = "SNAPSHOT_LOCKED" /\ gw.drawResult = None
Drawn(gw, result) ==
    [gw EXCEPT !.status = "DRAWN", !.drawResult = result, !.seed = result.seed]

(* getParticipantsPaginated: the first page, and the counts it comes with. *)
Counts(gw) ==
    [eligible |-> gw.participants.eligible,
     excluded |-> DOMAIN gw.participants.known \ gw.participants.eligible]

FirstPage(gw, tab) ==
    [eligible |-> IF tab = "excluded" THEN {} ELSE Counts(gw).eligible,
     excluded |-> IF tab = "eligible" THEN {} ELSE Counts(gw).excluded]

===============================================================================
