---------------------------- MODULE EdgeBilling ----------------------------
(***************************************************************************)
(* The Paddle webhook at the edge: web/functions/webhook.ts and the one    *)
(* function that changes subscriber state, web/lib/subscribers.ts.         *)
(*                                                                         *)
(* Every request runs in an isolate of its own and every D1 statement is   *)
(* awaited, so a step of the model is the code between two awaits: one     *)
(* statement against the database, or one call to Paddle.  Requests that   *)
(* are in flight together interleave at those points, a request may die at *)
(* any of them, and a statement may throw.  Paddle sends its messages in   *)
(* any order, sends again what it has no 200 for, and may send a copy of a *)
(* message that is in flight or answered.                                  *)
(***************************************************************************)
EXTENDS AccessRules, FiniteSets

CONSTANTS
    Subscriptions,      \* subscription ids
    Emails,             \* addresses, already folded to lower case
    CustomerEmail,      \* what Paddle's customer object says of a subscription
    Messages,           \* the webhooks Paddle will send
    EventIds,           \* Paddle's event ids
    AdjustmentIds,      \* Paddle's adjustment ids
    Isolates,           \* requests that can be in flight at once
    PastDueGrace,       \* PAST_DUE_GRACE_S
    RequestLife,        \* how long a request can last
    MaxTime,            \* bound on the clock
    MaxCrashes,         \* bound on requests that die
    MaxThrows,          \* bound on statements that throw
    MaxCopies           \* bound on deliveries Paddle did not need to make

Time == Nat
MaybeTime == Time \cup {NULL}

(* A verified, parsed webhook: what apply() reads of it.  An adjustment has  *)
(* its own id (adj) beside the subscription's (sub).                         *)
Message == [id     : EventIds \cup {NULL},
            type   : STRING,
            sub    : Subscriptions \cup {NULL},
            email  : Emails \cup {NULL},
            price  : Prices \cup {NULL},
            period : MaybeTime,
            adj    : AdjustmentIds,
            action : STRING, status : STRING, kind : STRING]

ASSUME MessagesAssumption ==
    /\ Messages \subseteq Message
    /\ \A m, n \in Messages : m.id = n.id /\ m.id # NULL => m = n
ASSUME MailAssumption ==
    /\ NULL \notin Emails
    /\ CustomerEmail \in [Subscriptions -> Emails \cup {NULL}]
ASSUME IdAssumption == NULL \notin EventIds /\ NULL \notin Subscriptions
ASSUME BoundAssumption ==
    /\ {PastDueGrace, RequestLife, MaxTime, MaxCrashes, MaxThrows, MaxCopies}
           \subseteq Nat
    /\ RequestLife < PastDueGrace

VARIABLES
    subscribers,        \* table subscribers: id -> row, NULL when there is none
    events,             \* table events: event id -> what its row says, or NULL
    adjustments,        \* table adjustments: id -> its row's `revoked`, or NULL
    minted,             \* keys handed out by newApiKey so far
    now,                \* Date.now() / 1000
    pc,                 \* isolate -> the await its request is at
    msg,                \* isolate -> the webhook it is answering
    at,                 \* isolate -> `now`, read once at the top of the request
    read,               \* isolate -> the row its last get() returned
    patch,              \* isolate -> the argument of upsert()
    acked,              \* messages Paddle has had a 200 for
    handled, ignored,   \* messages apply() returned handled: true / false for
    \* what the properties remember:
    written,            \* messages whose upsert() has written
    unrecorded,         \* of these, the ones whose request died before it wrote
                        \* the event's row, until a later one writes it
    abreast,            \* requests that have run beside one for the same message
    crossed,            \* requests whose row another wrote since they first read it
    overwritten,        \* subscriptions a write was made to from an older row
    crashes, throws, copies     \* faults so far

db == <<subscribers, events, adjustments>>
local == <<msg, at, read, patch>>
outcome == <<handled, ignored, written>>
overlap == <<abreast, crossed, overwritten>>
history == <<acked, outcome, unrecorded, overlap>>
faults == <<crashes, throws, copies>>
vars == <<db, minted, now, pc, local, history, faults>>

-----------------------------------------------------------------------------
(* Rows.  The columns nothing decides by (customer_id) are left out.         *)

Row == [email        : Emails \cup {NULL},
        tier         : Tiers \cup {NULL},
        active       : {0, 1},
        active_until : MaybeTime,
        expires_at   : MaybeTime,
        api_key      : Nat \cup {NULL},
        updated_at   : Time]

ASSUME RowAssumption == NULL \notin Row

(* What a row of events says. *)
Outcomes == {"applied", "unapplied", "failed"}

ASSUME OutcomeAssumption == NULL \notin Outcomes

Patch == [email        : Emails \cup {NULL},
          tier         : Tiers \cup {NULL},
          active       : {0, 1},
          active_until : MaybeTime,
          expires_at   : MaybeTime,
          api_key      : Nat \cup {NULL}]

(* What the ?? chains fall back to where there is no row. *)
Blank == [email |-> NULL, tier |-> NULL, active |-> 0, active_until |-> NULL,
          expires_at |-> NULL, api_key |-> NULL, updated_at |-> 0]

Prior(row) == IF row = NULL THEN Blank ELSE row

(* The record upsert() writes: the patch over the row it read a moment ago,  *)
(* every column at once, the key on file before a new one.                   *)
MergeDropsKey(p, prior, t) ==
    [email        |-> Coalesce(p.email, prior.email),
     tier         |-> Coalesce(p.tier, prior.tier),
     active       |-> p.active,
     active_until |-> Coalesce(p.active_until, prior.active_until),
     expires_at   |-> Coalesce(p.expires_at, prior.expires_at),
     api_key      |-> p.api_key,
     updated_at   |-> t]

Merge(p, prior, t) ==
    [email        |-> Coalesce(p.email, prior.email),
     tier         |-> Coalesce(p.tier, prior.tier),
     active       |-> p.active,
     active_until |-> Coalesce(p.active_until, prior.active_until),
     expires_at   |-> Coalesce(p.expires_at, prior.expires_at),
     api_key      |-> Coalesce(prior.api_key, p.api_key),
     updated_at   |-> t]

NoPatch == [email |-> NULL, tier |-> NULL, active |-> 0, active_until |-> NULL,
            expires_at |-> NULL, api_key |-> NULL]

(* The patches apply() builds, one per event class. *)
GrantPatchRaw(m, email, key) ==
    [NoPatch EXCEPT !.email = email, !.tier = m.price, !.active = 1,
                    !.active_until = m.period, !.api_key = key]
GrantPatch(m, email, key) ==
    [NoPatch EXCEPT !.email = email, !.tier = ResolveTier(m.price), !.active = 1,
                    !.active_until = m.period, !.api_key = key]
CancelPatch(m) == [NoPatch EXCEPT !.active_until = m.period]
PastDuePatchNoGrace(until, t) ==
    [NoPatch EXCEPT !.active_until = Coalesce(until, t)]
PastDuePatch(until, t) ==
    [NoPatch EXCEPT !.active_until = IF until = NULL THEN t + PastDueGrace
                                     ELSE Later(until, t + PastDueGrace)]
RevokePatchLater(t) == [NoPatch EXCEPT !.active_until = t, !.expires_at = t + 1]
RevokePatch(t) == [NoPatch EXCEPT !.active_until = t, !.expires_at = t]

-----------------------------------------------------------------------------
Init ==
    /\ subscribers = [s \in Subscriptions |-> NULL]
    /\ events = [e \in EventIds |-> NULL]
    /\ adjustments = [a \in AdjustmentIds |-> NULL]
    /\ minted = 0
    /\ now = 0
    /\ pc = [i \in Isolates |-> "idle"]
    /\ msg = [i \in Isolates |-> NULL]
    /\ at = [i \in Isolates |-> 0]
    /\ read = [i \in Isolates |-> NULL]
    /\ patch = [i \in Isolates |-> NoPatch]
    /\ acked = {} /\ handled = {} /\ ignored = {} /\ written = {} /\ unrecorded = {}
    /\ abreast = {} /\ crossed = {} /\ overwritten = {}
    /\ crashes = 0 /\ throws = 0 /\ copies = 0

InFlight(m) == \E i \in Isolates : pc[i] # "idle" /\ msg[i] = m

Goto(i, label) == pc' = [pc EXCEPT ![i] = label]

(* The request is over and its locals with it. *)
Leave(i) ==
    /\ pc' = [pc EXCEPT ![i] = "idle"]
    /\ msg' = [msg EXCEPT ![i] = NULL]
    /\ at' = [at EXCEPT ![i] = 0]
    /\ read' = [read EXCEPT ![i] = NULL]
    /\ patch' = [patch EXCEPT ![i] = NoPatch]
    /\ abreast' = abreast \ {i}
    /\ crossed' = crossed \ {i}
    /\ UNCHANGED overwritten

(* Time passes, but no request outlives its time limit. *)
Tick ==
    /\ now < MaxTime
    /\ \A i \in Isolates : pc[i] # "idle" => now < at[i] + RequestLife
    /\ now' = now + 1
    /\ UNCHANGED <<db, minted, pc, local, history, faults>>

(* A signed webhook arrives, is verified and parsed, and its id looked at: a *)
(* payload without one cannot be deduplicated.                               *)
Receive(i, m) ==
    /\ pc[i] = "idle"
    /\ Goto(i, IF m.id = NULL THEN "apply" ELSE "dedupe")
    /\ msg' = [msg EXCEPT ![i] = m]
    /\ at' = [at EXCEPT ![i] = now]
    /\ abreast' = IF InFlight(m)
                  THEN abreast \cup {i} \cup {j \in Isolates : pc[j] # "idle" /\ msg[j] = m}
                  ELSE abreast
    /\ UNCHANGED <<db, minted, now, read, patch, acked, outcome, unrecorded, crossed,
                   overwritten, crashes, throws>>

(* Paddle sends what it has no 200 for and is not already waiting on ... *)
Deliver(i, m) ==
    /\ m \notin acked /\ ~InFlight(m)
    /\ Receive(i, m)
    /\ UNCHANGED copies

(* ... and now and then a copy: its own timeout racing a late answer, an     *)
(* answer lost on the way, a captured request sent again.                    *)
DeliverCopy(i, m) ==
    /\ m \in acked \/ InFlight(m)
    /\ copies < MaxCopies
    /\ copies' = copies + 1
    /\ Receive(i, m)

(* SELECT applied FROM events: any row at all makes it a duplicate, answered *)
(* 200 on the spot.                                                          *)
DedupeForgotten(i) ==
    /\ pc[i] = "dedupe"
    /\ Goto(i, "apply")
    /\ UNCHANGED <<db, minted, now, local, history, faults>>

DedupeMarks(i) ==
    /\ pc[i] = "dedupe"
    /\ IF events[msg[i].id] # NULL
       THEN Leave(i) /\ acked' = acked \cup {msg[i]} /\ UNCHANGED events
       ELSE /\ events' = [events EXCEPT ![msg[i].id] = "unapplied"]
            /\ Goto(i, "apply") /\ UNCHANGED <<local, overlap, acked>>
    /\ UNCHANGED <<subscribers, adjustments, minted, now, outcome, unrecorded, faults>>

DedupeConflict(i) ==
    /\ pc[i] = "dedupe"
    /\ IF events[msg[i].id] # NULL THEN Leave(i)
       ELSE Goto(i, "apply") /\ UNCHANGED <<local, overlap>>
    /\ UNCHANGED <<db, minted, now, acked, outcome, unrecorded, faults>>

Dedupe(i) ==
    /\ pc[i] = "dedupe"
    /\ IF events[msg[i].id] # NULL
       THEN Leave(i) /\ acked' = acked \cup {msg[i]}
       ELSE Goto(i, "apply") /\ UNCHANGED <<local, overlap, acked>>
    /\ UNCHANGED <<db, minted, now, outcome, unrecorded, faults>>

-----------------------------------------------------------------------------
(* apply(), up to the patch it hands to upsert().                            *)

AtApply(i, types) == pc[i] = "apply" /\ msg[i].sub # NULL /\ msg[i].type \in types

(* apply() returns without a write: no subscription, a class nobody handles, *)
(* a price we do not sell.                                                   *)
Ignore(i) ==
    /\ pc[i] = "apply"
    /\ \/ msg[i].sub = NULL
       \/ msg[i].type \notin ADJUSTMENT \cup ACTIVE \cup GRACE \cup PAST_DUE \cup HARD_REVOKE
       \/ msg[i].type \in ACTIVE /\ ResolveTier(msg[i].price) = NULL
    /\ ignored' = ignored \cup {msg[i]}
    /\ Goto(i, "ignored")
    /\ UNCHANGED <<db, minted, now, local, acked, handled, written, unrecorded, overlap,
                   faults>>

(* An adjustment looks its subscription up first, so that it cannot invent   *)
(* one; then the rules say whether it counts and whether it revokes.         *)
ReadForAdjustmentBlindly(i) ==
    /\ AtApply(i, ADJUSTMENT)
    /\ LET m == msg[i]
           d == DecideAdjustment(m.action, m.status, m.kind)
       IN  IF ~d.applied
           THEN /\ ignored' = ignored \cup {m}
                /\ Goto(i, "ignored")
                /\ UNCHANGED patch
           ELSE /\ patch' = IF d.revoke THEN [patch EXCEPT ![i] = RevokePatch(at[i])]
                            ELSE patch
                /\ Goto(i, IF d.revoke THEN "upsert" ELSE "adjust")
                /\ UNCHANGED ignored
    /\ UNCHANGED <<db, minted, now, msg, at, read, acked, handled, written, unrecorded,
                   overlap, faults>>

ReadForAdjustment(i) ==
    /\ AtApply(i, ADJUSTMENT)
    /\ LET m == msg[i]
           d == DecideAdjustment(m.action, m.status, m.kind)
       IN  IF subscribers[m.sub] = NULL \/ ~d.applied
           THEN /\ ignored' = ignored \cup {m}
                /\ Goto(i, "ignored")
                /\ UNCHANGED patch
           ELSE /\ patch' = IF d.revoke THEN [patch EXCEPT ![i] = RevokePatch(at[i])]
                            ELSE patch
                /\ Goto(i, IF d.revoke THEN "upsert" ELSE "adjust")
                /\ UNCHANGED ignored
    /\ UNCHANGED <<db, minted, now, msg, at, read, acked, handled, written, unrecorded,
                   overlap, faults>>

(* The argument of an activation's upsert: a fresh key unless the row read   *)
(* holds one.                                                                *)
Grant(i, prior, email) ==
    /\ minted' = IF prior.api_key = NULL THEN minted + 1 ELSE minted
    /\ patch' = [patch EXCEPT ![i] =
                   GrantPatch(msg[i], email, Coalesce(prior.api_key, minted + 1))]
    /\ Goto(i, "upsert")

(* An activation at a price we sell reads the row; it needs the network only *)
(* when neither the payload nor the row has an address.                      *)
ReadForGrantUnsold(i) ==
    /\ AtApply(i, ACTIVE)
    /\ Grant(i, Prior(subscribers[msg[i].sub]), msg[i].email)
    /\ UNCHANGED <<db, now, msg, at, read, history, faults>>

ReadForGrant(i) ==
    /\ AtApply(i, ACTIVE)
    /\ ResolveTier(msg[i].price) # NULL
    /\ LET prior == Prior(subscribers[msg[i].sub])
       IN  IF msg[i].email = NULL /\ prior.email = NULL
           THEN /\ read' = [read EXCEPT ![i] = subscribers[msg[i].sub]]
                /\ Goto(i, "email")
                /\ UNCHANGED <<minted, patch>>
           ELSE Grant(i, prior, msg[i].email) /\ UNCHANGED read
    /\ UNCHANGED <<db, now, msg, at, history, faults>>

(* fetchCustomerEmail is best effort: a hiccup is NULL, never an error. *)
LookUpEmail(i) ==
    /\ pc[i] = "email"
    /\ \E found \in {CustomerEmail[msg[i].sub], NULL} : Grant(i, Prior(read[i]), found)
    /\ read' = [read EXCEPT ![i] = NULL]
    /\ UNCHANGED <<db, now, msg, at, history, faults>>

(* A cancellation and an expiry have nothing to look up: their first         *)
(* statement is upsert's own get().                                          *)
UpsertAtOnce(i, p) ==
    /\ patch' = [patch EXCEPT ![i] = p]
    /\ read' = [read EXCEPT ![i] = subscribers[msg[i].sub]]
    /\ Goto(i, "write")
    /\ UNCHANGED <<db, minted, now, msg, at, history, faults>>

Cancel(i) == AtApply(i, GRACE) /\ UpsertAtOnce(i, CancelPatch(msg[i]))

Expire(i) == AtApply(i, HARD_REVOKE) /\ UpsertAtOnce(i, RevokePatch(at[i]))

ReadForPastDue(i) ==
    /\ AtApply(i, PAST_DUE)
    /\ patch' = [patch EXCEPT ![i] =
                   PastDuePatch(Prior(subscribers[msg[i].sub]).active_until, at[i])]
    /\ Goto(i, "upsert")
    /\ UNCHANGED <<db, minted, now, msg, at, read, history, faults>>

-----------------------------------------------------------------------------
(* upsert() and what follows it.                                             *)

UpsertRead(i) ==
    /\ pc[i] = "upsert"
    /\ read' = [read EXCEPT ![i] = subscribers[msg[i].sub]]
    /\ Goto(i, "write")
    /\ UNCHANGED <<db, minted, now, msg, at, patch, history, faults>>

(* A request between its first read of a subscription's row and its write.   *)
HasRead(i, s) == pc[i] \in {"email", "upsert", "write"} /\ msg[i].sub = s

Overwrites(i) == pc[i] = "write" /\ read[i] # subscribers[msg[i].sub]

(* INSERT ... ON CONFLICT DO UPDATE: every column, from the row read before. *)
UpsertWrite(i) ==
    /\ pc[i] = "write"
    /\ subscribers' = [subscribers EXCEPT ![msg[i].sub] =
                         Merge(patch[i], Prior(read[i]), now)]
    /\ IF msg[i].type \in ADJUSTMENT
       THEN Goto(i, "adjust") /\ UNCHANGED handled
       ELSE Goto(i, "handled") /\ handled' = handled \cup {msg[i]}
    /\ read' = [read EXCEPT ![i] = NULL]
    /\ patch' = [patch EXCEPT ![i] = NoPatch]
    /\ written' = written \cup {msg[i]}
    /\ crossed' = (crossed \ {i}) \cup {j \in Isolates \ {i} : HasRead(j, msg[i].sub)}
    /\ overwritten' = IF Overwrites(i) THEN overwritten \cup {msg[i].sub} ELSE overwritten
    /\ UNCHANGED <<events, adjustments, minted, now, msg, at, acked, ignored, unrecorded,
                   abreast, faults>>

(* INSERT OR REPLACE INTO adjustments, after the subscriber is revoked. *)
InsertAdjustment(i) ==
    /\ pc[i] = "adjust"
    /\ LET m == msg[i]
       IN  /\ adjustments' = [adjustments EXCEPT ![m.adj] =
                IF DecideAdjustment(m.action, m.status, m.kind).revoke THEN 1 ELSE 0]
           /\ handled' = handled \cup {m}
    /\ Goto(i, "handled")
    /\ UNCHANGED <<subscribers, events, minted, now, local, acked, ignored, written,
                   unrecorded, overlap, faults>>

(* INSERT OR REPLACE INTO events, once apply() has returned.  A payload      *)
(* without an id gets a row nobody will look for.                            *)
RecordEvent(i) ==
    /\ pc[i] \in {"handled", "ignored"}
    /\ events' = IF msg[i].id = NULL THEN events
                 ELSE [events EXCEPT ![msg[i].id] =
                         IF pc[i] = "handled" THEN "applied" ELSE "unapplied"]
    /\ unrecorded' = unrecorded \ {msg[i]}
    /\ Goto(i, "respond")
    /\ UNCHANGED <<subscribers, adjustments, minted, now, local, acked, outcome, overlap,
                   faults>>

(* 200: Paddle will not send it again of its own accord. *)
Respond(i) ==
    /\ pc[i] = "respond"
    /\ acked' = acked \cup {msg[i]}
    /\ Leave(i)
    /\ UNCHANGED <<db, minted, now, outcome, unrecorded, faults>>

(* A statement of apply() throws; nothing it would have written is written. *)
Throw(i) ==
    /\ pc[i] \in {"apply", "upsert", "write", "adjust"}
    /\ throws < MaxThrows
    /\ throws' = throws + 1
    /\ Goto(i, "failed")
    /\ UNCHANGED <<db, minted, now, local, history, crashes, copies>>

(* The catch block records the failure and answers 500. *)
RecordFailure(i) ==
    /\ pc[i] = "failed"
    /\ events' = IF msg[i].id = NULL THEN events
                 ELSE [events EXCEPT ![msg[i].id] = "failed"]
    /\ unrecorded' = unrecorded \ {msg[i]}
    /\ Leave(i)
    /\ UNCHANGED <<subscribers, adjustments, minted, now, acked, outcome, faults>>

(* The isolate dies, or a statement outside the try throws: no 200. *)
Crash(i) ==
    /\ pc[i] # "idle"
    /\ crashes < MaxCrashes
    /\ crashes' = crashes + 1
    /\ unrecorded' = IF pc[i] \in {"adjust", "handled", "failed"} /\ msg[i] \in written
                     THEN unrecorded \cup {msg[i]} ELSE unrecorded
    /\ Leave(i)
    /\ UNCHANGED <<db, minted, now, acked, outcome, throws, copies>>

Apply(i) ==
    \/ Ignore(i)
    \/ ReadForAdjustment(i)
    \/ ReadForGrant(i)
    \/ LookUpEmail(i)
    \/ Cancel(i)
    \/ ReadForPastDue(i)
    \/ Expire(i)

Advance(i) ==
    \/ Dedupe(i)
    \/ Apply(i)
    \/ UpsertRead(i)
    \/ UpsertWrite(i)
    \/ InsertAdjustment(i)
    \/ RecordEvent(i)
    \/ Respond(i)
    \/ RecordFailure(i)

Next ==
    \/ Tick
    \/ \E i \in Isolates : \/ Advance(i)
                           \/ Throw(i)
                           \/ Crash(i)
                           \/ \E m \in Messages : Deliver(i, m) \/ DeliverCopy(i, m)

Spec == Init /\ [][Next]_vars

(* The runtime drives a request it accepted, and Paddle retries until a 200. *)
FairSpec ==
    /\ Spec
    /\ \A i \in Isolates : WF_vars(Advance(i))
    /\ \A m \in Messages : WF_vars(\E i \in Isolates : Deliver(i, m))

-----------------------------------------------------------------------------
(* Properties.                                                               *)

Labels == {"idle", "dedupe", "apply", "email", "upsert", "write", "adjust",
           "handled", "ignored", "failed", "respond"}

(* Every table row, every local and every counter has its shape. *)
TypeOK ==
    /\ subscribers \in [Subscriptions -> Row \cup {NULL}]
    /\ events \in [EventIds -> Outcomes \cup {NULL}]
    /\ adjustments \in [AdjustmentIds -> {0, 1, NULL}]
    /\ minted \in Nat /\ now \in Time
    /\ pc \in [Isolates -> Labels]
    /\ msg \in [Isolates -> Messages \cup {NULL}]
    /\ at \in [Isolates -> Time]
    /\ read \in [Isolates -> Row \cup {NULL}]
    /\ patch \in [Isolates -> Patch]
    /\ acked \subseteq Messages /\ handled \subseteq Messages /\ ignored \subseteq Messages
    /\ written \subseteq Messages /\ unrecorded \subseteq written
    /\ abreast \subseteq Isolates /\ crossed \subseteq Isolates
    /\ overwritten \subseteq Subscriptions
    /\ crashes \in Nat /\ throws \in Nat /\ copies \in Nat

Entitled(s) == EffectiveActive(subscribers[s], now)

(* upsert()'s statement, as a step. *)
Writes(i) == pc[i] = "write" /\ pc'[i] \in {"adjust", "handled"}

(* A message that ends access the moment it is acted on. *)
Revokes(m) ==
    \/ m.type \in HARD_REVOKE
    \/ m.type \in ADJUSTMENT /\ DecideAdjustment(m.action, m.status, m.kind).revoke

(* An active row was provisioned: it has a tier we sell and a key to use it  *)
(* with.  Rows are written whole, from a read that may be stale, by requests *)
(* that know nothing of each other; none may leave a row that is active for  *)
(* a price nobody sells (subscribers.ts, "we provision only prices we sell").*)
ActiveIsProvisioned ==
    \A s \in Subscriptions :
        subscribers[s] # NULL /\ subscribers[s].active = 1
            => /\ subscribers[s].tier \in {TierMap[p] : p \in DOMAIN TierMap}
               /\ subscribers[s].api_key # NULL

(* A row that carries the hard ceiling is shut, whoever wrote it and however *)
(* long ago it read the clock (rules.ts, "past it, nothing else matters").   *)
CeilingIsShut ==
    \A s \in Subscriptions :
        subscribers[s] # NULL /\ subscribers[s].expires_at # NULL => ~Entitled(s)

(* No refund, chargeback, unsold price or unhandled type invents a          *)
(* subscriber: a row exists only where a message of the subscription's own   *)
(* has been handled (subscribers.ts, "would invent a subscriber on every     *)
(* refund").                                                                 *)
NoPhantomSubscriber ==
    \A s \in Subscriptions :
        subscribers[s] # NULL =>
            \E m \in handled : m.sub = s /\ m.type \notin ADJUSTMENT

(* What Paddle was told 200 for has been applied, or turned down for a       *)
(* reason: no message is answered and forgotten (webhook.ts, "losing an      *)
(* event silently is worse than being asked again").                         *)
NoSilentLoss == acked \subseteq handled \cup ignored

(* A subscription that was revoked stays revoked, through the activations,   *)
(* cancellations and grace windows that arrive after it or run beside it     *)
(* (0001_subscribers.sql, "a hard ceiling that overrides it, which is how a  *)
(* refund revokes at once"), until a request writes it from a row it read    *)
(* before another wrote: upsert() awaits between the two.  A refund that     *)
(* arrives before anything else of its subscription is turned down and is    *)
(* none of those meant here.                                                 *)
RevocationHolds ==
    \A m \in written :
        Revokes(m) /\ m.sub \notin overwritten => ~Entitled(m.sub)

(* Access ends only because the paid-through date passes, the subscription   *)
(* is revoked, it is cancelled with no paid period left to run, or an older  *)
(* row is written over it.  A failed card, a renewal or a cancellation       *)
(* inside the period never shuts anyone out, whatever runs beside it.        *)
AccessEndsForAReason ==
    [][\A s \in Subscriptions :
          Entitled(s) /\ ~Entitled(s)' =>
              \/ now' > now /\ now' = subscribers[s].active_until
              \/ \E i \in Isolates :
                    /\ Writes(i) /\ msg[i].sub = s
                    /\ \/ Revokes(msg[i])
                       \/ Overwrites(i)
                       \/ /\ msg[i].type \in GRACE
                          /\ LET until == Coalesce(msg[i].period, subscribers[s].active_until)
                             IN  until # NULL => until <= now]_vars

(* A message that was written is written again only by a request that ran    *)
(* beside another for it, or after one that died before it recorded the      *)
(* event (webhook.ts, "this makes a retry a no-op rather than a double       *)
(* write"): the guard reads the events row first and writes it last.         *)
AppliedOnce ==
    [][\A i \in Isolates :
          Writes(i) /\ msg[i].id # NULL /\ msg[i] \in written
          => i \in abreast \/ msg[i] \in unrecorded]_vars

(* The same, as the header of webhook.ts promises it: "record the event      *)
(* before acting on it", so that no message is ever written twice.           *)
NeverWrittenTwice ==
    [][\A i \in Isolates : Writes(i) /\ msg[i].id # NULL => msg[i] \notin written]_vars

(* The handler keeps the contract: each write is the whole effect of its     *)
(* webhook on the record as it stands, though it is put together from rows   *)
(* read two statements earlier, unless another request wrote the row in      *)
(* between.                                                                  *)
Columns == {"email", "tier", "active", "active_until", "expires_at", "api_key"}
Contract == INSTANCE SubscriberContract WITH Watched <- Columns
KeepsContract ==
    /\ Contract!Init
    /\ [][(\E i \in crossed : Writes(i)) \/ Contract!Next]_subscribers

(* Every message Paddle sends is answered in the end, through crashes and    *)
(* throwing statements.                                                      *)
EveryMessageAnswered == \A m \in Messages : <>(m \in acked)

=============================================================================
