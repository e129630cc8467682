---------------------------- MODULE ParticipantImport --------------------------
(***************************************************************************)
(* One import of participants: the likes and the comments of a post are    *)
(* paged out of VK, call by call, each retried; a service token that VK    *)
(* refuses is exchanged for the organiser's and the import starts over;    *)
(* memberships are asked for in chunks; the filter engine decides.         *)
(*                                                                         *)
(* Between any two calls the post and the community change at VK.  VK is   *)
(* modelled from the calls made of it: likes come newest first, comments   *)
(* oldest first, a page is the part of the list that offset and count      *)
(* name, and the total count is the length of the list at that moment.     *)
(***************************************************************************)
EXTENDS FilterEngine, FiniteSets

CONSTANTS
    Users, Communities,  \* authors of comments: users, and ids that are not positive
    Posts,               \* posts an import may find
    RuleSets,            \* rules it may be asked for
    PageSize, MaxPages, ChunkSize, MaxRetries,
    MaxChanges           \* bound: changes at VK during the import

ASSUME ImportAssumption ==
    /\ {PageSize, MaxPages, ChunkSize} \subseteq Nat \ {0}
    /\ {MaxRetries, MaxChanges} \subseteq Nat
    /\ Users \cap Communities = {}
    /\ Posts \subseteq [likes : Seq(Users), comments : Seq(Users \cup Communities),
                        members : SUBSET Users]

VARIABLES
    post,          \* at VK: likes, comments, members of the community
    changes,       \* changes made so far
    rules, group,  \* what is asked for; whether a community to check is known
    at,            \* what the import is doing: "start", "likes", "comments",
                   \* "fallback", "subscriptions", "done" or "failed"
    token,         \* the token in use
    attempt,       \* attempts of the present call that failed
    page, offset,  \* of fetchPaginatedVk; offset is the number of items loaded
    likeProfiles,  \* allItems of the likes
    participants,  \* participantsMap
    unchecked,     \* users whose membership is still to be asked for
    subscribed,    \* users VK called members
    result,        \* what the filter engine answered
    ever, always,  \* history: users who did each thing at some time, all the time
    made,          \* history: comments a user ever had on the post
    shifted        \* history: an entry was removed among those already paged

atVk == <<post, changes, ever, always, made>>
asked == <<rules, group>>
paging == <<page, offset, likeProfiles>>
vars == <<atVk, asked, at, token, attempt, paging, participants,
          unchecked, subscribed, result, shifted>>

Acts(p) ==
    [like |-> Range(p.likes), comment |-> Range(p.comments) \cap Users,
     member |-> p.members]
CommentsBy(p, u) == Cardinality({i \in DOMAIN p.comments : p.comments[i] = u})

Init ==
    /\ post \in Posts /\ changes = 0
    /\ rules \in RuleSets /\ group \in BOOLEAN
    /\ at = "start" /\ token = "SERVICE" /\ attempt = 0
    /\ page = 0 /\ offset = 0 /\ likeProfiles = <<>>
    /\ participants = <<>>
    /\ unchecked = {} /\ subscribed = {} /\ result = Nothing
    /\ ever = Acts(post) /\ always = Acts(post)
    /\ made = [u \in Users |-> CommentsBy(post, u)]
    /\ shifted = FALSE

-----------------------------------------------------------------------------
(* What happens at VK. *)

Becomes(p) ==
    /\ at \notin {"done", "failed"} /\ changes < MaxChanges
    /\ post' = p
    /\ changes' = changes + 1
    /\ ever' = [a \in DOMAIN ever |-> ever[a] \cup Acts(p)[a]]
    /\ always' = [a \in DOMAIN always |-> always[a] \cap Acts(p)[a]]
    /\ UNCHANGED <<asked, at, token, attempt, paging, participants, unchecked,
                   subscribed, result>>

Removing(list, i) == shifted' = (shifted \/ (at = list /\ i <= offset))

Like == \E u \in Users \ Range(post.likes) :
    /\ Becomes([post EXCEPT !.likes = <<u>> \o @])
    /\ UNCHANGED <<made, shifted>>

Unlike == \E i \in DOMAIN post.likes :
    /\ Becomes([post EXCEPT !.likes = RemoveAt(@, i)])
    /\ Removing("likes", i) /\ UNCHANGED made

Comment == \E a \in Users \cup Communities :
    /\ Becomes([post EXCEPT !.comments = Append(@, a)])
    /\ made' = [u \in Users |-> made[u] + (IF u = a THEN 1 ELSE 0)]
    /\ UNCHANGED shifted

DeleteComment == \E i \in DOMAIN post.comments :
    /\ Becomes([post EXCEPT !.comments = RemoveAt(@, i)])
    /\ Removing("comments", i) /\ UNCHANGED made

JoinOrLeave == \E u \in Users :
    /\ Becomes([post EXCEPT !.members = SymDiff(@, {u})])
    /\ UNCHANGED <<made, shifted>>

AtVk == Like \/ Unlike \/ Comment \/ DeleteComment \/ JoinOrLeave

-----------------------------------------------------------------------------
(* One page of fetchPaginatedVk. *)

PageOf(list) == SubSeq(list, offset + 1, Min({offset + PageSize, Len(list)}))

NextOffset(items) == offset + Len(items)
PagesRead(items) == IF items = <<>> THEN page ELSE page + 1

Ceiling(items) == PagesRead(items) >= MaxPages

(* An empty page, the total count, or a short page ends the list. *)
LastPage(items, totalCount) ==
    \/ items = <<>>
    \/ NextOffset(items) >= totalCount
    \/ Len(items) < PageSize
    \/ Ceiling(items)

(* maxPages was reached and the count says that more follow. *)
TruncatedSilently(items, totalCount) == FALSE
Truncated(items, totalCount) == Ceiling(items) /\ NextOffset(items) < totalCount

StartPaging ==
    /\ page' = 0 /\ offset' = 0 /\ likeProfiles' = <<>>

-----------------------------------------------------------------------------
(* The participants. *)

FromLike(u) == [liked |-> TRUE, commented |-> FALSE, commentsCount |-> 0]
FromLikes(profiles) == [u \in Range(profiles) |-> FromLike(u)]

NotInMap == [liked |-> FALSE, commented |-> FALSE, commentsCount |-> 0]
Existing(map, u) == IF u \in DOMAIN map THEN map[u] ELSE NotInMap

(* Authors that are not users are passed over. *)
WithComments(map, items) ==
    [u \in DOMAIN map \cup (Range(items) \cap Users) |->
        LET n == Cardinality({i \in DOMAIN items : items[i] = u})
        IN [Existing(map, u) EXCEPT !.commented = @ \/ n > 0, !.commentsCount = @ + n]]

(* Boolean(subMap.get(id)): whoever VK did not answer about is no member. *)
IsSubscribedUnlessDenied(members, u) == TRUE
IsSubscribed(members, u) == u \in members

RawParticipant(map, members, u) ==
    [id |-> u, username |-> NoName, liked |-> map[u].liked, commented |-> map[u].commented,
     commentsCount |-> map[u].commentsCount, reposted |-> FALSE,
     subscribed |-> IsSubscribed(members, u), isAdmin |-> FALSE]

RawParticipants(map, members) ==
    LET ids == SetToSeq(DOMAIN map)
    IN [i \in DOMAIN ids |-> RawParticipant(map, members, ids[i])]

-----------------------------------------------------------------------------
(* From one phase to the next. *)

Fail ==
    /\ at' = "failed"
    /\ UNCHANGED <<token, paging, participants, unchecked, subscribed, result>>

(* Filter under the rules and report. *)
Report(map, members) ==
    /\ at' = "done"
    /\ result' = ApplyFilterRules(RawParticipants(map, members), rules)

(* executeParticipantPipeline: memberships are asked for, with the service    *)
(* token again, if the rules need them and there is a community and somebody  *)
(* to ask about.                                                              *)
EndFetch(map) ==
    /\ participants' = map
    /\ IF rules.requireSubscription /\ group /\ DOMAIN map # {}
       THEN /\ at' = "subscriptions" /\ unchecked' = DOMAIN map
            /\ token' = "SERVICE" /\ UNCHANGED result
       ELSE Report(map, {}) /\ UNCHANGED <<unchecked, token>>
    /\ UNCHANGED subscribed

EndLikes(map) ==
    IF rules.requireComment
    THEN /\ at' = "comments" /\ participants' = map
         /\ UNCHANGED <<token, unchecked, subscribed, result>>
    ELSE EndFetch(map)

(* executeFetchParticipants starts with an empty map and the first page. *)
EmptyMap == <<>>
StartFetch(as) ==
    /\ attempt' = 0 /\ StartPaging /\ shifted' = FALSE
    /\ IF rules.requireLike \/ rules.requireComment
       THEN /\ at' = IF rules.requireLike THEN "likes" ELSE "comments"
            /\ token' = as /\ participants' = EmptyMap
            /\ UNCHANGED <<unchecked, subscribed, result>>
       ELSE EndFetch(EmptyMap)

(* Rules the provider cannot check are refused.  The factory makes a provider *)
(* only if there is a service token.                                          *)
Supported == ~rules.requireRepost /\ ~rules.excludeAdmins

Start ==
    /\ at = "start"
    /\ IF Supported THEN StartFetch("SERVICE") ELSE Fail /\ UNCHANGED <<attempt, shifted>>
    /\ UNCHANGED <<atVk, asked>>

-----------------------------------------------------------------------------
(* The calls. *)

LikesPage ==
    LET items == PageOf(post.likes)
        loaded == likeProfiles \o items
        total == Len(post.likes)
    IN /\ at = "likes" /\ attempt' = 0
       /\ IF ~LastPage(items, total)
          THEN /\ page' = PagesRead(items) /\ offset' = NextOffset(items)
               /\ likeProfiles' = loaded
               /\ UNCHANGED <<at, token, participants, unchecked, subscribed, result>>
          ELSE IF Truncated(items, total) THEN Fail
          ELSE StartPaging /\ EndLikes(FromLikes(loaded))
       /\ UNCHANGED <<atVk, asked, shifted>>

(* A page of comments is added to the map as it arrives. *)
CommentsPage ==
    LET items == PageOf(post.comments)
        map == WithComments(participants, items)
        total == Len(post.comments)
    IN /\ at = "comments" /\ attempt' = 0
       /\ IF ~LastPage(items, total)
          THEN /\ page' = PagesRead(items) /\ offset' = NextOffset(items)
               /\ participants' = map
               /\ UNCHANGED <<at, token, likeProfiles, unchecked, subscribed, result>>
          ELSE IF Truncated(items, total) THEN Fail
          ELSE StartPaging /\ EndFetch(map)
       /\ UNCHANGED <<atVk, asked, shifted>>

(* checkSubscription asks about a chunk of users. *)
MembersChunk ==
    /\ at = "subscriptions" /\ attempt' = 0
    /\ \E chunk \in kSubset(Min({ChunkSize, Cardinality(unchecked)}), unchecked) :
        /\ unchecked' = unchecked \ chunk
        /\ subscribed' = subscribed \cup (chunk \cap post.members)
    /\ IF unchecked' = {} THEN Report(participants, subscribed') ELSE UNCHANGED <<at, result>>
    /\ UNCHANGED <<atVk, asked, token, paging, participants, shifted>>

(* A call that fails does so with an error of one category.                  *)
Categories ==
    {"AUTH", "PERMISSION", "RATE_LIMIT", "PRIVATE_RESOURCE", "NOT_FOUND", "VALIDATION",
     "TEMPORARY", "NETWORK", "TIMEOUT"}
IsRetryable(error) == error \in {"RATE_LIMIT", "TEMPORARY", "NETWORK", "TIMEOUT"}

Calling == at \in {"likes", "comments", "subscriptions"}

(* executeWithRetry goes on, but not after the last attempt. *)
MayRetry(error) == IsRetryable(error) /\ attempt < MaxRetries

(* fetchParticipants exchanges the token; checkSubscription never does. *)
MayFallBackAgain(error) ==
    error \in {"PERMISSION", "PRIVATE_RESOURCE"} /\ at \in {"likes", "comments"}
MayFallBack(error) ==
    /\ error \in {"PERMISSION", "PRIVATE_RESOURCE"}
    /\ at \in {"likes", "comments"} /\ token = "SERVICE"

CallFails(error) ==
    /\ Calling
    /\ IF MayRetry(error)
       THEN /\ attempt' = attempt + 1
            /\ UNCHANGED <<at, token, paging, participants, unchecked, subscribed, result>>
       ELSE IF MayFallBack(error)
       THEN /\ at' = "fallback"
            /\ UNCHANGED <<token, attempt, paging, participants, unchecked,
                           subscribed, result>>
       ELSE Fail /\ UNCHANGED attempt
    /\ UNCHANGED <<atVk, asked, shifted>>

(* resolveUserFallbackContext gets the organiser's token, or fails. *)
Fallback ==
    /\ at = "fallback"
    /\ StartFetch("USER")
    /\ UNCHANGED <<atVk, asked>>

NoFallback ==
    /\ at = "fallback"
    /\ Fail
    /\ UNCHANGED <<atVk, asked, attempt, shifted>>

Import ==
    \/ NoFallback \/ Start \/ Fallback
    \/ \E error \in Categories : CallFails(error)
    \/ LikesPage \/ CommentsPage \/ MembersChunk

Next == AtVk \/ Import

(* Every call is answered or times out, and the import goes on. *)
Spec == Init /\ [][Next]_vars /\ WF_vars(Import)
-----------------------------------------------------------------------------
(* Whoever is eligible did all that the rules require: liked, commented, was *)
(* a member, at some time while the import ran, and is not blacklisted,      *)
(* whatever failed, was retried or was started over on the way; and a        *)
(* comment is counted once, though its page was asked for again after an     *)
(* error, or everything was under the organiser's token ("no partial         *)
(* SERVICE results are carried over").                                       *)
EligibleEarnedIt ==
    /\ \A p \in Range(result.eligible) :
        /\ rules.requireLike => p.id \in ever.like
        /\ rules.requireComment => p.id \in ever.comment
        /\ rules.requireSubscription => p.id \in ever.member
        /\ p.id \notin rules.excludeBlacklistedIds
    /\ \A u \in DOMAIN participants : participants[u].commentsCount <= made[u]

(* An import that succeeds missed nobody who met the rules while it ran:     *)
(* pages that grow at VK between two calls shift entries, never past the     *)
(* offset, and a list longer than the ceiling is an error, not a result.     *)
(* What is removed from pages already read shifts others into them: then     *)
(* users may be missed (fetchPaginatedVk).                                   *)
MetRulesThroughout(u) ==
    /\ rules.requireLike \/ rules.requireComment
    /\ rules.requireLike => u \in always.like
    /\ rules.requireComment => u \in always.comment
    /\ rules.requireSubscription => group /\ u \in always.member
    /\ u \notin rules.excludeBlacklistedIds

NobodyMissed ==
    at = "done" /\ ~shifted =>
        \A u \in Users : MetRulesThroughout(u) =>
            \E p \in Range(result.eligible) : p.id = u

(* However a user's actions are spread over the records of a provider, the   *)
(* user has one chance if all of them together meet the rules and none       *)
(* otherwise; nobody is listed twice, as eligible and excluded, or lost: of  *)
(* what was imported, and had the provider named a user once more, as the    *)
(* mock provider can (applyFilterRules).                                     *)
FurtherRecords ==
    [id : Users, username : {NoName} \cup rules.excludeBlacklistedIds,
     liked : BOOLEAN, commented : BOOLEAN, commentsCount : {0, 1, NoCount},
     reposted : {FALSE}, subscribed : BOOLEAN, isAdmin : {FALSE}]

OneChanceEach ==
    at = "done" =>
        LET imported == RawParticipants(participants, subscribed)
        IN /\ AgreesWithReference(imported, rules)
           /\ \A p \in FurtherRecords : AgreesWithReference(Append(imported, p), rules)

(* Every import ends: no sequence of errors, retries, refusals and changes   *)
(* keeps it going for ever.                                                  *)
ImportEnds == <>(at \in {"done", "failed"})
================================================================================
