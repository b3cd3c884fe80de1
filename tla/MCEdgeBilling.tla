--------------------------- MODULE MCEdgeBilling ---------------------------
(***************************************************************************)
(* Small instances of EdgeBilling: the webhooks of one or two              *)
(* subscriptions, named after the story each run tells.                    *)
(***************************************************************************)
EXTENDS EdgeBilling, TLC

CONSTANTS s1, s2, sold, unsold, terminal, mail, i1, i2,
          e1, e2, e3, e4, e5, a1

Alike == Permutations({i1, i2})

MCTierMap == sold :> terminal
MCCustomerEmail == [s \in Subscriptions |-> mail]

Webhook(id, type, sub) ==
    [id |-> id, type |-> type, sub |-> sub, email |-> NULL, price |-> NULL,
     period |-> NULL, adj |-> a1, action |-> "", status |-> "", kind |-> ""]

At(m, price, period) == [m EXCEPT !.price = price, !.period = period]

Adjust(m, action, status, kind) ==
    [m EXCEPT !.action = action, !.status = status, !.kind = kind]

Created(id, s, period) == At(Webhook(id, "subscription.created", s), sold, period)
Activated(id, s, period) == At(Webhook(id, "subscription.activated", s), sold, period)
Canceled(id, s) == Webhook(id, "subscription.canceled", s)
PastDue(id, s) == Webhook(id, "subscription.past_due", s)
Expired(id, s) == Webhook(id, "subscription.expired", s)
Refund(id, s) == Adjust(Webhook(id, "adjustment.created", s), "refund", "approved", "full")
PartialRefund(id, s) ==
    Adjust(Webhook(id, "adjustment.created", s), "refund", "approved", "partial")

(* A subscription's life: bought, payment late, refunded. *)
Lifecycle == {[Created(e1, s1, 1) EXCEPT !.email = mail], PastDue(e2, s1), Refund(e3, s1)}

(* What must not provision: an unsold price, a partial refund of nobody, a   *)
(* message about no subscription; and a neighbour bought by a payload with   *)
(* no event id, cancelled and expired.                                       *)
Strays == {At(Webhook(e1, "subscription.created", s1), unsold, 2),
           PartialRefund(e2, s1), Webhook(e3, "customer.created", NULL),
           Created(NULL, s2, 2), Canceled(e4, s2), Expired(e5, s2)}

(* An activation, a renewal and a refund. *)
Refunded == {Created(e1, s1, NULL), Activated(e2, s1, NULL), Refund(e3, s1)}

==================================================
