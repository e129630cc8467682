---------------------------- MODULE MCGiveawayWizard ----------------------------
(* Values for model-checking GiveawayWizard: on the first post everybody      *)
(* liked and one user is subscribed too; on the second only one user liked.   *)
EXTENDS GiveawayWizard, TLC

CONSTANTS p1, p2, u1, u2

MCDid == p1 :> (u1 :> {"like"} @@ u2 :> {"like", "subscription"})
      @@ p2 :> (u1 :> {} @@ u2 :> {})
Liked(b) == [conditions |-> {"like"}, blacklist |-> b]
MCPreset == Liked({})
MCForms == {MCPreset, Liked({u1}), [conditions |-> {"like", "subscription"}, blacklist |-> {}]}
===============================================================================
