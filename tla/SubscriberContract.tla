------------------------- MODULE SubscriberContract -------------------------
(***************************************************************************)
(* What billing promises of one subscriber's record, whichever handler     *)
(* writes it: every change is the whole effect of exactly one webhook on   *)
(* the record as it stands at that moment.  The columns are those of the   *)
(* subscribers table (web/migrations/0001_subscribers.sql) that a decision *)
(* is read from; Watched names those an implementation is held to.         *)
(***************************************************************************)
EXTENDS AccessRules

CONSTANTS
    Messages,       \* the webhooks
    Watched         \* the columns the contract speaks of

VARIABLES subscribers

Unchanged(old, new, columns) == \A c \in columns \cap Watched : new[c] = old[c]

(* An activation at a price we sell opens access, keeps the key and leaves   *)
(* the ceiling alone.                                                        *)
Granted(m, old, new) ==
    /\ m.type \in ACTIVE
    /\ ResolveTier(m.price) # NULL
    /\ "tier" \in Watched => new.tier = ResolveTier(m.price)
    /\ new.active = 1
    /\ new.active_until = Coalesce(m.period, old.active_until)
    /\ new.api_key # NULL /\ new.api_key = Coalesce(old.api_key, new.api_key)
    /\ "email" \in Watched =>
          /\ m.email # NULL => new.email = m.email
          /\ m.email = NULL /\ old.email # NULL => new.email = old.email
    /\ Unchanged(old, new, {"expires_at"})

(* A cancellation or pause lets the paid period run. *)
Cancelled(m, old, new) ==
    /\ m.type \in GRACE
    /\ new.active = 0
    /\ new.active_until = Coalesce(m.period, old.active_until)
    /\ Unchanged(old, new, {"email", "tier", "expires_at", "api_key"})

(* A late payment opens a window and never shortens one. *)
PastDue(m, old, new) ==
    /\ m.type \in PAST_DUE
    /\ new.active = 0
    /\ new.active_until # NULL
    /\ old.active_until # NULL => new.active_until >= old.active_until
    /\ Unchanged(old, new, {"email", "tier", "expires_at", "api_key"})

(* An expiry, a settled full refund or a chargeback shuts the record. *)
Revoked(m, old, new) ==
    /\ \/ m.type \in HARD_REVOKE
       \/ m.type \in ADJUSTMENT /\ DecideAdjustment(m.action, m.status, m.kind).revoke
    /\ new.active = 0
    /\ new.expires_at # NULL /\ new.active_until = new.expires_at
    /\ Unchanged(old, new, {"email", "tier", "api_key"})

Effect(m, old, new) ==
    Granted(m, old, new) \/ Cancelled(m, old, new) \/ PastDue(m, old, new) \/ Revoked(m, old, new)

(* A record that is not there reads as one with nothing in it. *)
Absent == [email |-> NULL, tier |-> NULL, active |-> 0, active_until |-> NULL,
           expires_at |-> NULL, api_key |-> NULL]

Init == \A s \in DOMAIN subscribers : subscribers[s] = NULL

Next ==
    \E m \in Messages :
        LET s == m.sub
        IN  /\ s # NULL /\ subscribers'[s] # NULL
            /\ subscribers' = [subscribers EXCEPT ![s] = subscribers'[s]]
            /\ Effect(m, IF subscribers[s] = NULL THEN Absent ELSE subscribers[s],
                      subscribers'[s])

Spec == Init /\ [][Next]_subscribers

=============================================================================
