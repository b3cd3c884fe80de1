---------------------------- MODULE MCBoxBilling ----------------------------
(***************************************************************************)
(* Small instances of BoxBilling: the webhooks of one or two               *)
(* subscriptions, named after the story each run tells.                    *)
(***************************************************************************)
EXTENDS BoxBilling, TLC

CONSTANTS s1, s2, sold, unsold, dearer, terminal, desk, mail, other, t1, t2,
          e1, e2, e3, e4, a1, a2

Alike == Permutations({t1, t2})

MCTierMap == sold :> terminal @@ dearer :> desk
MCCustomerEmail == [s \in Subscriptions |-> mail]

Subscription(id, event, s, price, period) ==
    [id |-> id, type |-> "subscription." \o event, sub |-> s, email |-> NULL,
     price |-> price, period |-> period, change |-> NULL, adj |-> a1, action |-> "", status |-> "", kind |-> ""]

Adjustment(id, s, adj, action, kind) ==
    [id |-> id, type |-> "adjustment.created", sub |-> s, email |-> NULL, price |-> NULL,
     period |-> NULL, change |-> NULL, adj |-> adj, action |-> action, status |-> "approved", kind |-> kind]

(* One customer buys, already set to cancel, pays late at another price, is  *)
(* refunded in part and charges back.                                        *)
Lifecycle == {[Subscription(e1, "created", s1, sold, NULL) EXCEPT !.email = other, !.change = 3],
              Subscription(e2, "past_due", s1, dearer, NULL),
              Adjustment(e3, s1, a1, "chargeback", "partial"),
              Adjustment(e4, s1, a2, "refund", "partial")}

(* One customer buys and expires; the other is cancelled before anything     *)
(* else is known of it, and renewed at a price nobody sells by a payload     *)
(* without an event id.                                                      *)
Crossing == {Subscription(e1, "created", s1, sold, 1),
             Subscription(e2, "expired", s1, sold, NULL),
             Subscription(e3, "canceled", s2, sold, NULL),
             Subscription(NULL, "updated", s2, unsold, 2)}

=============================================================================
