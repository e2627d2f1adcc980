---------------------------- MODULE MCBackground ----------------------------
(***************************************************************************)
(* Six parts of the system that share no state, checked in one run: the    *)
(* initial state says which of them moves, so their states add up and do   *)
(* not multiply.  The others stay as they began.                           *)
(***************************************************************************)
EXTENDS EmailOutbox, WebhookDelivery, DepositLimits, IdentityChecks,
        AuditTrail, MCPayout, TLC

VARIABLE part   \* the part that moves

vars == <<part, mailVars, hookVars, limitVars, identityVars, trailVars, priceVars>>

Init ==
  /\ part \in {"mail", "hooks", "limits", "identity", "trail", "prices"}
  /\ MailInit /\ HookInit /\ LimitInit /\ TrailInit
  /\ IdentityInit /\ (mismatch => part = "identity")
  /\ PriceInit /\ (<<feeBp, rewardBp, revBp>> # <<0, 0, 0>> => part = "prices")

Next ==
  \/ /\ part = "mail" /\ MailNext
     /\ UNCHANGED <<part, hookVars, limitVars, identityVars, trailVars, priceVars>>
  \/ /\ part = "hooks" /\ HookNext
     /\ UNCHANGED <<part, mailVars, limitVars, identityVars, trailVars, priceVars>>
  \/ /\ part = "limits" /\ LimitNext
     /\ UNCHANGED <<part, mailVars, hookVars, identityVars, trailVars, priceVars>>
  \/ /\ part = "identity" /\ IdentityNext
     /\ UNCHANGED <<part, mailVars, hookVars, limitVars, trailVars, priceVars>>
  \/ /\ part = "trail" /\ TrailNext
     /\ UNCHANGED <<part, mailVars, hookVars, limitVars, identityVars, priceVars>>
  \/ /\ part = "prices" /\ RaiseStake
     /\ UNCHANGED <<part, mailVars, hookVars, limitVars, identityVars, trailVars>>

Spec == Init /\ [][Next]_vars

TypeOK ==
  /\ MailTypeOK /\ HookTypeOK /\ LimitTypeOK /\ IdentityTypeOK /\ TrailTypeOK
  /\ PriceTypeOK

Symmetry ==
  Permutations(Mailers) \cup Permutations(Senders) \cup Permutations(Tabs)
    \cup Permutations(Appliers)

=============================================================================
