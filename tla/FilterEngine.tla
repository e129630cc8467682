------------------------------ MODULE FilterEngine -----------------------------
(***************************************************************************)
(* applyFilterRules: the participants a provider returned, several records *)
(* of one user among them, become one participant per user, eligible or    *)
(* excluded under the giveaway's rules.  Names and pictures are left out;  *)
(* ids and user names are compared as the code has normalised them.        *)
(***************************************************************************)
EXTENDS Integers, SequencesExt

CONSTANTS
    NoCount,  \* a record whose commentsCount is not a number
    NoName    \* a record without a user name

ASSUME FilterAssumption == NoCount \notin Nat

-----------------------------------------------------------------------------
(* One participant = one chance. *)

CommentsAtLeastOne(p) == IF p.commentsCount \in Nat \ {0} THEN p.commentsCount ELSE 1
CommentsOf(p) ==
    IF p.commentsCount # NoCount THEN p.commentsCount
    ELSE IF p.commented THEN 1 ELSE 0

Merged(existing, p) ==
    [existing EXCEPT
        !.liked = @ \/ p.liked,
        !.commented = @ \/ p.commented,
        !.commentsCount = @ + CommentsOf(p),
        !.reposted = @ \/ p.reposted,
        !.subscribed = @ \/ p.subscribed,
        !.isAdmin = @ \/ p.isAdmin]

Known(participantMap, p) == \E e \in Range(participantMap) : e.id = p.id

(* participantMap.set or the merge; the Map, in order of insertion, is a     *)
(* sequence of its values.                                                   *)
Collected(participantMap, p) ==
    IF Known(participantMap, p)
    THEN [i \in DOMAIN participantMap |->
            IF participantMap[i].id = p.id THEN Merged(participantMap[i], p)
            ELSE participantMap[i]]
    ELSE Append(participantMap, [p EXCEPT !.commentsCount = CommentsOf(p)])

Deduplicated(participants) == FoldLeft(Collected, <<>>, participants)

-----------------------------------------------------------------------------
(* The reasons that exclude a participant. *)

Blacklisted(p, rules) ==
    \/ p.id \in rules.excludeBlacklistedIds
    \/ p.username # NoName /\ p.username \in rules.excludeBlacklistedIds

MissingComment(p) == ~p.commented \/ p.commentsCount < 1

Reasons(p, rules) ==
    {reason \in {"BLACKLISTED", "IS_ADMIN", "MISSING_LIKE", "MISSING_COMMENT",
                 "MISSING_REPOST", "NOT_SUBSCRIBED"} :
        CASE reason = "BLACKLISTED" -> Blacklisted(p, rules)
          [] reason = "IS_ADMIN" -> rules.excludeAdmins /\ p.isAdmin
          [] reason = "MISSING_LIKE" -> rules.requireLike /\ ~p.liked
          [] reason = "MISSING_COMMENT" -> rules.requireComment /\ MissingComment(p)
          [] reason = "MISSING_REPOST" -> rules.requireRepost /\ ~p.reposted
          [] reason = "NOT_SUBSCRIBED" -> rules.requireSubscription /\ ~p.subscribed}

Nothing == [all |-> <<>>, eligible |-> <<>>, excluded |-> <<>>]

(* One turn of the loop: everybody is in the list of all and in one other.   *)
Listed(rules, result, p) ==
    LET eligible == Reasons(p, rules) = {}
    IN [all |-> Append(result.all, p),
        eligible |-> IF eligible THEN Append(result.eligible, p) ELSE result.eligible,
        excluded |-> IF eligible THEN result.excluded ELSE Append(result.excluded, p)]

ApplyFilterRules(participants, rules) ==
    FoldLeft(LAMBDA result, p : Listed(rules, result, p), Nothing, Deduplicated(participants))

-----------------------------------------------------------------------------
(* The reference: a user did what all records of the user together say; the  *)
(* user name is that of the first.                                           *)

Did(participants, u, what(_)) == \E p \in Range(participants) : p.id = u /\ what(p)

FirstOf(participants, u) == participants[CHOOSE i \in DOMAIN participants :
    participants[i].id = u /\ \A j \in 1..(i - 1) : participants[j].id # u]

MeetsRules(participants, rules, u) ==
    /\ u \notin rules.excludeBlacklistedIds
    /\ FirstOf(participants, u).username \notin rules.excludeBlacklistedIds \ {NoName}
    /\ rules.excludeAdmins => ~Did(participants, u, LAMBDA p : p.isAdmin)
    /\ rules.requireLike => Did(participants, u, LAMBDA p : p.liked)
    /\ rules.requireComment =>
        /\ Did(participants, u, LAMBDA p : p.commented)
        /\ Did(participants, u, LAMBDA p :
                IF p.commentsCount = NoCount THEN p.commented ELSE p.commentsCount > 0)
    /\ rules.requireRepost => Did(participants, u, LAMBDA p : p.reposted)
    /\ rules.requireSubscription => Did(participants, u, LAMBDA p : p.subscribed)

(* list names every user of the set once, and nobody else. *)
ListsOnce(list, users) ==
    LET ids == [i \in DOMAIN list |-> list[i].id]
    IN IsInjective(ids) /\ Range(ids) = users

AgreesWithReference(participants, rules) ==
    LET result == ApplyFilterRules(participants, rules)
        users == {p.id : p \in Range(participants)}
        eligible == {u \in users : MeetsRules(participants, rules, u)}
    IN /\ ListsOnce(result.all, users)
       /\ ListsOnce(result.eligible, eligible)
       /\ ListsOnce(result.excluded, users \ eligible)
===============================================================================
