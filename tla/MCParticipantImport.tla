-------------------------- MODULE MCParticipantImport --------------------------
(* ParticipantImport on small posts that need more than one page. *)
EXTENDS ParticipantImport

CONSTANTS u1, u2, u3, c

MCUsers == {u1, u2, u3}
MCPosts ==
    {[likes |-> <<u1, u2, u3>>, comments |-> <<u2, c, u2>>, members |-> {u2, u3}],
     [likes |-> <<u1>>, comments |-> <<u1, u2, u1, u2, u3>>, members |-> {u3}],
     [likes |-> <<>>, comments |-> <<>>, members |-> MCUsers]}

Requiring(like, comment, subscription, blacklist) ==
    [requireLike |-> like, requireComment |-> comment, requireRepost |-> FALSE,
     requireSubscription |-> subscription, excludeAdmins |-> FALSE,
     excludeBlacklistedIds |-> blacklist]

MCRuleSets ==
    {Requiring(TRUE, FALSE, FALSE, {}), Requiring(FALSE, TRUE, TRUE, {}),
     Requiring(TRUE, TRUE, FALSE, {u2}), Requiring(TRUE, TRUE, TRUE, {}),
     Requiring(FALSE, FALSE, TRUE, {}),
     [Requiring(TRUE, FALSE, FALSE, {}) EXCEPT !.excludeAdmins = TRUE]}
================================================================================
