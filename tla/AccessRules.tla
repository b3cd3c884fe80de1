---------------------------- MODULE AccessRules ----------------------------
(***************************************************************************)
(* The rules that decide who may use the paid product, and the event       *)
(* classes they are applied to: effective_active in                        *)
(* src/tmo/payments/store.py, tiers.py and handler.py, which the edge has  *)
(* again in web/lib/rules.ts and subscribers.ts.  Everything here is pure. *)
(*                                                                         *)
(* Times are integers on one clock; NULL stands for Python's None, for     *)
(* SQL's NULL and for JavaScript's null and undefined.  E-mail addresses,  *)
(* prices, tiers and keys are only ever compared.                          *)
(***************************************************************************)
EXTENDS Integers

CONSTANTS
    NULL,       \* no value
    Prices,     \* the price ids a webhook can carry
    Tiers,      \* the products
    TierMap     \* TMO_TIER_PRICE_MAP: the prices we sell, and what each sells

ASSUME NullAssumption == /\ NULL \notin Int
                         /\ NULL \notin Tiers
ASSUME TierMapAssumption == /\ DOMAIN TierMap \subseteq Prices
                            /\ TierMap \in [DOMAIN TierMap -> Tiers]

(* What is supplied, or else what is on file. *)
Coalesce(a, b) == IF a # NULL THEN a ELSE b

Later(a, b) == IF a >= b THEN a ELSE b

-----------------------------------------------------------------------------
ACTIVE == {"subscription.created", "subscription.updated",
           "subscription.activated", "subscription.revived",
           "subscription.trialing"}
GRACE == {"subscription.canceled", "subscription.paused"}
PAST_DUE == {"subscription.past_due"}
HARD_REVOKE == {"subscription.expired"}
ADJUSTMENT == {"adjustment.created", "adjustment.updated"}

SETTLED == {"approved"}
REVOKING == {"refund", "chargeback"}

(* Is this subscriber's access valid right now: the hard ceiling first, then *)
(* the paid-through date, then the plain flag.                               *)
EffectiveActiveNoCeiling(row, now) ==
    /\ row # NULL
    /\ \/ row.active_until # NULL /\ now < row.active_until
       \/ row.active = 1

EffectiveActive(row, now) ==
    /\ row # NULL
    /\ row.expires_at # NULL => now < row.expires_at
    /\ \/ row.active_until # NULL /\ now < row.active_until
       \/ row.active = 1

(* The tier a price sells, or NULL for a price we do not sell. *)
ResolveTier(price) == IF price \in DOMAIN TierMap THEN TierMap[price] ELSE NULL

(* Does an adjustment count at all, and does it end access. *)
DecideAdjustment(action, status, kind) ==
    LET applied == /\ action \in REVOKING
                   /\ action = "refund" => status \in SETTLED
    IN  [applied |-> applied,
         revoke  |-> applied /\ (action = "chargeback" \/ kind = "full")]

=============================================================================
