---------------------------- MODULE BoxBilling ----------------------------
(***************************************************************************)
(* The webhook server for a box of one's own: src/tmo/payments/server.py,  *)
(* handler.py, store.py and event_ledger.py.  One process, a thread per    *)
(* connection.  Each request builds its own handler, and with it its own   *)
(* SubscriberStore: a copy of every subscriber, taken from a module-level  *)
(* cache or from the file, changed in memory and written back whole.       *)
(*                                                                         *)
(* Threads meet in three places, which are the steps of the model: the     *)
(* subscribers file, the cache and the ledger file with its lock.  What a  *)
(* thread does with its own copy in between belongs to the step that       *)
(* publishes it.                                                           *)
(***************************************************************************)
EXTENDS AccessRules, FiniteSets, Sequences

CONSTANTS
    Subscriptions,      \* subscription ids
    Emails,             \* addresses, already folded to lower case
    CustomerEmail,      \* what Paddle's customer object says of a subscription
    Messages,           \* the webhooks Paddle will send
    EventIds,           \* Paddle's event ids
    AdjustmentIds,      \* Paddle's adjustment ids
    Threads,            \* requests that can be in flight at once
    PastDueGrace,       \* past_due_grace_s()
    CacheTTL,           \* _CACHE_TTL_S
    Retention, MaxEntries,  \* of the event ledger
    MaxRefunds,         \* adjustments kept on a record
    MaxTime,            \* bound on the clock
    MaxRestarts,        \* bound on process restarts
    MaxFailures,        \* bound on writes that raise
    MaxUnreadable,      \* bound on reads of a file that fail
    MaxCopies           \* bound on deliveries Paddle did not need to make

Ledgers == INSTANCE EventLedger

Message == [id     : EventIds \cup {NULL},
            type   : STRING,
            sub    : Subscriptions \cup {NULL},
            email  : Emails \cup {NULL},
            price  : Prices \cup {NULL},
            period : Nat \cup {NULL},
            change : Nat \cup {NULL},
            adj    : AdjustmentIds,
            action : STRING, status : STRING, kind : STRING]

ASSUME BoxMessagesAssumption ==
    /\ Messages \subseteq Message
    /\ \A m, n \in Messages : m.id = n.id /\ m.id # NULL => m = n
ASSUME BoxAssumption ==
    /\ {PastDueGrace, CacheTTL, Retention, MaxTime} \subseteq Nat
    /\ {MaxRestarts, MaxFailures, MaxUnreadable, MaxCopies} \subseteq Nat
    /\ {MaxRefunds, MaxEntries} \subseteq Nat \ {0}
    /\ IsFiniteSet(EventIds)
    /\ CustomerEmail \in [Subscriptions -> Emails \cup {NULL}]

VARIABLES
    file,               \* subscribers.json: id -> entry, NULL when there is none
    cache,              \* _cache: when it was filled and with what, or NULL
    ledger,             \* processed_events.json
    minted,             \* keys handed out by generate_api_key so far
    now,                \* time.time()
    pc,                 \* thread -> where its request is
    msg,                \* thread -> the webhook it is answering
    copy,               \* thread -> _data of the store it built
    looked,             \* thread -> the ledger it loaded, while it holds _LOCK
    acked,              \* messages Paddle has had a 200 for
    \* what the properties remember:
    saved,              \* messages a thread has saved an effect of
    halved,             \* refunds stopped between their two saves
    newer,              \* refund -> how many were noted after it, NULL when it is not
    overwritten,        \* records a save put back to what they were before
    forgotten,          \* event ids in the ledger when it could not be read
    disturbed,          \* since the box was last at rest with nothing cached,
                        \* requests have overlapped or a read has failed
    restarts, failures, unreadable, copies      \* faults so far

disk == <<file, ledger>>
local == <<msg, copy, looked>>
history == <<acked, saved, halved, newer, overwritten, forgotten, disturbed>>
faults == <<restarts, failures, unreadable, copies>>
vars == <<disk, cache, minted, now, pc, local, history, faults>>

-----------------------------------------------------------------------------
(* Entries.  A field no decision reads (customer_id) is left out.            *)
Entry == [email        : Emails \cup {NULL},
          tier         : Tiers \cup {NULL},
          active       : {0, 1},
          active_until : Nat \cup {NULL},
          expires_at   : Nat \cup {NULL},
          api_key      : Nat \cup {NULL},
          adjustments  : Seq([adj : AdjustmentIds, revoked : BOOLEAN])]

ASSUME EntryAssumption == NULL \notin Entry /\ NULL \notin Ledgers!Ledger

Blank == [email |-> NULL, tier |-> NULL, active |-> 0, active_until |-> NULL,
          expires_at |-> NULL, api_key |-> NULL, adjustments |-> <<>>]

Prior(data, s) == IF data[s] = NULL THEN Blank ELSE data[s]

(* set_active: a field is overwritten only by something; an unmapped price   *)
(* is nothing; the first activation mints a key.                             *)
SetActiveForgets(old, new) ==
    [Blank EXCEPT
       !.email        = Coalesce(new.email, old.email),
       !.tier         = Coalesce(new.tier, old.tier),
       !.active       = new.active,
       !.active_until = Coalesce(new.active_until, old.active_until),
       !.expires_at   = Coalesce(new.expires_at, old.expires_at),
       !.api_key      = IF new.active = 1 /\ old.api_key = NULL THEN minted + 1 ELSE old.api_key]

SetActive(old, new) ==
    [old EXCEPT
       !.email        = Coalesce(new.email, old.email),
       !.tier         = Coalesce(new.tier, old.tier),
       !.active       = new.active,
       !.active_until = Coalesce(new.active_until, old.active_until),
       !.expires_at   = Coalesce(new.expires_at, old.expires_at),
       !.api_key      = IF new.active = 1 /\ old.api_key = NULL THEN minted + 1 ELSE old.api_key]

(* record_refund: the newest MaxRefunds stay. *)
WithRefund(entry, adj, revoked) ==
    LET h == Append(entry.adjustments, [adj |-> adj, revoked |-> revoked])
    IN  [entry EXCEPT !.adjustments =
           IF Len(h) <= MaxRefunds THEN h ELSE SubSeq(h, Len(h) - MaxRefunds + 1, Len(h))]

(* The paid-through date of a payload: of its billing period, or else of the *)
(* change it is scheduled for.                                               *)
ActiveUntil(m) == Coalesce(m.period, m.change)

(* Paddle's customer object, when Paddle answers. *)
Fetched(m) == {CustomerEmail[m.sub], NULL}

(* Paddle is asked only when neither the payload nor the record has one. *)
Address(m, old) ==
    IF m.email = NULL /\ old.email = NULL THEN Fetched(m) ELSE {m.email}

(* The keyword arguments set_active gets, one set per event class. *)
ArgumentsRaw(active, m, email, until, expires) ==
    [active |-> active, email |-> email, tier |-> m.price,
     active_until |-> until, expires_at |-> expires]

Arguments(active, m, email, until, expires) ==
    [active |-> active, email |-> email, tier |-> ResolveTier(m.price),
     active_until |-> until, expires_at |-> expires]

PastDueUntilShrinks(until) == now + PastDueGrace

PastDueUntil(until) ==
    IF until = NULL THEN now + PastDueGrace ELSE Later(until, now + PastDueGrace)

-----------------------------------------------------------------------------
Nothing == [s \in Subscriptions |-> NULL]

Init ==
    /\ file = Nothing
    /\ cache = NULL
    /\ ledger = Ledgers!Empty
    /\ minted = 0
    /\ now = 0
    /\ pc = [i \in Threads |-> "idle"]
    /\ msg = [i \in Threads |-> NULL]
    /\ copy = [i \in Threads |-> NULL]
    /\ looked = [i \in Threads |-> NULL]
    /\ acked = {} /\ saved = {} /\ halved = {} /\ overwritten = {} /\ forgotten = {}
    /\ newer = [m \in Messages |-> NULL]
    /\ disturbed = FALSE
    /\ restarts = 0 /\ failures = 0 /\ unreadable = 0 /\ copies = 0

InFlight(m) == \E i \in Threads : pc[i] # "idle" /\ msg[i] = m

Goto(i, label) == pc' = [pc EXCEPT ![i] = label]

Leave(i) ==
    /\ pc' = [pc EXCEPT ![i] = "idle"]
    /\ msg' = [msg EXCEPT ![i] = NULL]
    /\ copy' = [copy EXCEPT ![i] = NULL]
    /\ looked' = [looked EXCEPT ![i] = NULL]

Tick ==
    /\ now < MaxTime
    /\ now' = now + 1
    /\ UNCHANGED <<disk, cache, minted, pc, local, history, faults>>

CacheIsFresh == cache # NULL /\ now - cache.at < CacheTTL

(* A request that comes alone to a box with nothing cached starts afresh.    *)
StillDisturbed(i) ==
    (\E j \in Threads \ {i} : pc[j] # "idle") \/ (disturbed /\ CacheIsFresh)

(* do_POST builds a handler, whose store is read from the cache while that   *)
(* is young and from the file otherwise.                                     *)
Open(i, m) ==
    /\ pc[i] = "idle"
    /\ msg' = [msg EXCEPT ![i] = m]
    /\ IF CacheIsFresh
       THEN copy' = [copy EXCEPT ![i] = cache.data] /\ Goto(i, "mark")
       ELSE UNCHANGED copy /\ Goto(i, "read")
    /\ disturbed' = StillDisturbed(i)
    /\ UNCHANGED <<disk, cache, minted, now, looked, acked, saved, halved, newer, overwritten,
                   forgotten, restarts, failures, unreadable>>

Deliver(i, m) ==
    /\ m \notin acked /\ ~InFlight(m)
    /\ Open(i, m)
    /\ UNCHANGED copies

DeliverCopy(i, m) ==
    /\ m \in acked \/ InFlight(m)
    /\ copies < MaxCopies
    /\ copies' = copies + 1
    /\ Open(i, m)

(* A file that cannot be read or parsed is taken for an empty one.           *)
ReadFile(i) ==
    /\ pc[i] = "read"
    /\ \/ /\ copy' = [copy EXCEPT ![i] = file]
          /\ UNCHANGED <<unreadable, disturbed>>
       \/ /\ unreadable < MaxUnreadable
          /\ unreadable' = unreadable + 1
          /\ copy' = [copy EXCEPT ![i] = Nothing]
          /\ disturbed' = TRUE
    /\ Goto(i, "fill")
    /\ UNCHANGED <<disk, cache, minted, now, msg, looked, acked, saved, halved, newer,
                   overwritten, forgotten, restarts, failures, copies>>

(* _update_cache, after a load, after set_active and after record_refund.    *)
AfterCache(i) ==
    CASE pc[i] = "fill" -> "mark"
      [] pc[i] = "cache" /\ msg[i].type \in ADJUSTMENT -> "refund"
      [] OTHER -> "respond"

UpdateCacheOnLoadOnly(i) ==
    /\ pc[i] \in {"fill", "cache", "cache refund"}
    /\ cache' = IF pc[i] = "fill" THEN [at |-> now, data |-> copy[i]] ELSE cache
    /\ Goto(i, AfterCache(i))
    /\ UNCHANGED <<disk, minted, now, local, history, faults>>

UpdateCache(i) ==
    /\ pc[i] \in {"fill", "cache", "cache refund"}
    /\ cache' = IF CacheTTL > 0 THEN [at |-> now, data |-> copy[i]] ELSE cache
    /\ Goto(i, AfterCache(i))
    /\ UNCHANGED <<disk, minted, now, local, history, faults>>

(* check_and_mark, before anything is applied.  A payload without an id      *)
(* cannot be deduplicated and goes past it.                                  *)
SkipLedger(i) ==
    /\ pc[i] = "mark"
    /\ msg[i].id = NULL
    /\ Goto(i, "apply")
    /\ UNCHANGED <<disk, cache, minted, now, local, history, faults>>

(* Under _LOCK it loads the ledger, which is empty when it cannot be read ...*)
LookUnlocked(i) ==
    /\ pc[i] = "mark"
    /\ msg[i].id # NULL
    /\ looked' = [looked EXCEPT ![i] = ledger]
    /\ Goto(i, "marking")
    /\ UNCHANGED <<disk, cache, minted, now, msg, copy, history, faults>>

Look(i) ==
    /\ pc[i] = "mark"
    /\ msg[i].id # NULL
    /\ \A j \in Threads : looked[j] = NULL
    /\ \/ /\ looked' = [looked EXCEPT ![i] = ledger]
          /\ UNCHANGED <<unreadable, forgotten>>
       \/ /\ unreadable < MaxUnreadable
          /\ unreadable' = unreadable + 1
          /\ looked' = [looked EXCEPT ![i] = Ledgers!Empty]
          /\ forgotten' = forgotten \cup Ledgers!Held(ledger)
    /\ Goto(i, "marking")
    /\ UNCHANGED <<disk, cache, minted, now, msg, copy, acked, saved, halved, newer,
                   overwritten, disturbed, restarts, failures, copies>>

(* ... and writes it back with the id, or leaves it for a repeat, which is   *)
(* answered 200 and nothing is done.                                         *)
Mark(i) ==
    /\ pc[i] = "marking"
    /\ \E result \in Ledgers!CheckAndMark(looked[i], msg[i].id, now) :
          IF result.first
          THEN /\ ledger' = result.ledger
               /\ Goto(i, "apply")
               /\ looked' = [looked EXCEPT ![i] = NULL]
               /\ UNCHANGED <<msg, copy, acked>>
          ELSE Leave(i) /\ acked' = acked \cup {msg[i]} /\ UNCHANGED ledger
    /\ UNCHANGED <<file, cache, minted, now, saved, halved, newer, overwritten, forgotten,
                   disturbed, faults>>

-----------------------------------------------------------------------------
AtApply(i, types) == pc[i] = "apply" /\ msg[i].sub # NULL /\ msg[i].type \in types

Decision(m) == DecideAdjustment(m.action, m.status, m.kind)

(* handle() returns without a write: no subscription, an adjustment of an    *)
(* unknown one or that does not count, an unsold price, an unhandled type.   *)
Ignore(i) ==
    /\ pc[i] = "apply"
    /\ LET m == msg[i]
       IN  \/ m.sub = NULL
           \/ m.type \in ADJUSTMENT /\ (copy[i][m.sub] = NULL \/ ~Decision(m).applied)
           \/ m.type \in ACTIVE /\ ResolveTier(m.price) = NULL
           \/ m.type \notin ADJUSTMENT \cup ACTIVE \cup GRACE \cup PAST_DUE \cup HARD_REVOKE
    /\ Goto(i, "respond")
    /\ UNCHANGED <<disk, cache, minted, now, local, history, faults>>

(* The thread's copy with one entry changed, over the file: a record that is *)
(* not in the file as it is in the copy goes back to what it was.            *)
Save(i, entry, label) ==
    LET data == [copy[i] EXCEPT ![msg[i].sub] = entry]
    IN  /\ copy' = [copy EXCEPT ![i] = data]
        /\ file' = data
        /\ saved' = saved \cup {msg[i]}
        /\ overwritten' = overwritten \cup {s \in Subscriptions : copy[i][s] # file[s]}
        /\ Goto(i, label)
        /\ UNCHANGED <<ledger, cache, now, msg, looked, acked, halved, forgotten, disturbed,
                       faults>>

(* An activation at a price we sell. *)
Grant(i) ==
    /\ AtApply(i, ACTIVE)
    /\ ResolveTier(msg[i].price) # NULL
    /\ LET m == msg[i]
           old == Prior(copy[i], m.sub)
       IN  \E email \in Address(m, old) :
             LET entry == SetActive(old, Arguments(1, m, email, ActiveUntil(m), NULL))
             IN  /\ minted' = IF entry.api_key = old.api_key THEN minted ELSE minted + 1
                 /\ Save(i, entry, "cache")
    /\ UNCHANGED newer

SaveInactive(i, until, expires) ==
    /\ Save(i, SetActive(Prior(copy[i], msg[i].sub),
                         Arguments(0, msg[i], msg[i].email, until, expires)), "cache")
    /\ UNCHANGED <<minted, newer>>

Cancel(i) == AtApply(i, GRACE) /\ SaveInactive(i, ActiveUntil(msg[i]), NULL)

PastDue(i) ==
    /\ AtApply(i, PAST_DUE)
    /\ SaveInactive(i, PastDueUntil(Prior(copy[i], msg[i].sub).active_until), NULL)

ExpireLate(i) == AtApply(i, HARD_REVOKE) /\ SaveInactive(i, now, now + 1)

Expire(i) == AtApply(i, HARD_REVOKE) /\ SaveInactive(i, now, now)

(* A settled full refund or a chargeback shuts the record first ... *)
Revoke(i) ==
    /\ AtApply(i, ADJUSTMENT)
    /\ copy[i][msg[i].sub] # NULL /\ Decision(msg[i]).revoke
    /\ Save(i, SetActive(copy[i][msg[i].sub],
                         [Arguments(0, msg[i], NULL, now, now) EXCEPT !.tier = NULL]), "cache")
    /\ UNCHANGED <<minted, newer>>

(* ... and is then noted on it; a partial refund is only noted. *)
RecordRefund(i) ==
    /\ \/ pc[i] = "refund"
       \/ AtApply(i, ADJUSTMENT) /\ Decision(msg[i]).applied /\ ~Decision(msg[i]).revoke
    /\ copy[i][msg[i].sub] # NULL
    /\ Save(i, WithRefund(copy[i][msg[i].sub], msg[i].adj, Decision(msg[i]).revoke),
            "cache refund")
    /\ newer' = [m \in Messages |->
                   IF m = msg[i] THEN 0
                   ELSE IF m.sub = msg[i].sub /\ newer[m] # NULL THEN newer[m] + 1
                   ELSE newer[m]]
    /\ UNCHANGED minted

Respond(i) ==
    /\ pc[i] = "respond"
    /\ acked' = acked \cup {msg[i]}
    /\ Leave(i)
    /\ UNCHANGED <<disk, cache, minted, now, saved, halved, newer, overwritten, forgotten,
                   disturbed, faults>>

(* Threads that have shut a record and not yet noted why. *)
Halfway == {i \in Threads : \/ pc[i] = "refund"
                            \/ pc[i] = "cache" /\ msg[i].type \in ADJUSTMENT}

(* write_json raises with the old file in place; do_POST answers 400. *)
Fail(i) ==
    /\ pc[i] \in {"marking", "apply", "refund"}
    /\ failures < MaxFailures
    /\ failures' = failures + 1
    /\ halved' = IF i \in Halfway THEN halved \cup {msg[i]} ELSE halved
    /\ Leave(i)
    /\ UNCHANGED <<disk, cache, minted, now, acked, saved, newer, overwritten, forgotten,
                   disturbed, restarts, unreadable, copies>>

(* The process dies with all its threads; the files are whole. *)
Restart ==
    /\ restarts < MaxRestarts
    /\ restarts' = restarts + 1
    /\ cache' = NULL
    /\ pc' = [i \in Threads |-> "idle"]
    /\ msg' = [i \in Threads |-> NULL]
    /\ copy' = [i \in Threads |-> NULL]
    /\ looked' = [i \in Threads |-> NULL]
    /\ halved' = halved \cup {msg[i] : i \in Halfway}
    /\ UNCHANGED <<disk, minted, now, acked, saved, newer, overwritten, forgotten, disturbed,
                   failures, unreadable, copies>>

Advance(i) ==
    \/ ReadFile(i)
    \/ UpdateCache(i)
    \/ SkipLedger(i)
    \/ Look(i)
    \/ Mark(i)
    \/ Ignore(i)
    \/ Grant(i)
    \/ Cancel(i)
    \/ PastDue(i)
    \/ Expire(i)
    \/ Revoke(i)
    \/ RecordRefund(i)
    \/ Respond(i)

Next ==
    \/ Tick
    \/ Restart
    \/ \E i \in Threads : \/ Advance(i)
                          \/ Fail(i)
                          \/ \E m \in Messages : Deliver(i, m) \/ DeliverCopy(i, m)

Spec == Init /\ [][Next]_vars

-----------------------------------------------------------------------------
(* Properties.                                                               *)

Labels == {"idle", "read", "fill", "mark", "marking", "apply", "cache", "refund",
           "cache refund", "respond"}

Table == [Subscriptions -> Entry \cup {NULL}]

(* Both files, the cache and every thread's copy have their shape. *)
TypeOK ==
    /\ file \in Table /\ ledger \in Ledgers!Ledger
    /\ cache # NULL => cache.at <= now /\ cache.data \in Table
    /\ pc \in [Threads -> Labels]
    /\ \A i \in Threads : /\ msg[i] \in Messages \cup {NULL}
                          /\ copy[i] # NULL => copy[i] \in Table
    /\ acked \cup saved \cup halved \subseteq Messages
    /\ newer \in [Messages -> Nat \cup {NULL}]

Entitled(s) == EffectiveActive(file[s], now)

(* A record that carries the hard ceiling is shut, from whatever copy it was *)
(* written (store.py, "past it, access is gone whatever else says").         *)
CeilingIsShut ==
    \A s \in Subscriptions :
        file[s] # NULL /\ file[s].expires_at # NULL => ~Entitled(s)

(* Two deliveries of one event, at the same time or one after the other,     *)
(* have one effect (event_ledger.py, "avoids a check/mark race between two   *)
(* near-simultaneous deliveries of the same retried event"), as long as the  *)
(* ledger could be read since the first.                                     *)
AppliedOnce ==
    [][\A i \in Threads :
          /\ msg[i] # NULL /\ msg[i].id # NULL /\ msg[i].id \notin forgotten
          /\ pc[i] = "apply" /\ pc'[i] \in {"cache", "cache refund"}
          => msg[i] \notin saved]_vars

(* A refund that had its effect is noted on the customer's record, in its    *)
(* place, until MaxRefunds newer ones push it off (store.py, "a question     *)
(* support asks later").  It is not while it is being noted, when the write  *)
(* of the note failed, or when another copy was saved over the record.       *)
RefundsAreOnRecord ==
    \A m \in saved \ halved :
        /\ m.type \in ADJUSTMENT /\ m.sub \notin overwritten
        /\ \A i \in Halfway : msg[i] # m
        => /\ newer[m] # NULL
           /\ newer[m] < MaxRefunds =>
                 LET noted == file[m.sub].adjustments
                 IN  /\ newer[m] < Len(noted)
                     /\ noted[Len(noted) - newer[m]] =
                           [adj |-> m.adj, revoked |-> Decision(m).revoke]

(* A save puts no record back to what it was before another webhook, unless  *)
(* requests have overlapped or a read has failed since the box was last at   *)
(* rest with nothing cached: the cache, a restart and a write that raises    *)
(* alone never bring an old copy back (store.py, "the write path updates     *)
(* this cache immediately").                                                 *)
OverwritesAreExplained == [][overwritten' # overwritten => disturbed]_vars

(* The box against the contract of the edge, in the columns that decide      *)
(* access: every write of the file from a copy of the file as it stands is   *)
(* one webhook's whole effect on one record.  The address and the tier are left  *)
(* out: a cancellation, a late payment and an expiry write them here         *)
(* (handler.py:271-291) and not there (subscribers.ts:184-200).              *)
AccessColumns == {"active", "active_until", "expires_at", "api_key"}

Rows ==
    [s \in Subscriptions |->
        IF file[s] = NULL THEN NULL ELSE [c \in AccessColumns |-> file[s][c]]]

ASSUME RowsAssumption == NULL \notin [AccessColumns -> Nat \cup {NULL}]

(* The contract knows one paid-through date of a webhook. *)
Dated == {[m EXCEPT !.period = ActiveUntil(m)] : m \in Messages}

Contract == INSTANCE SubscriberContract
                WITH subscribers <- Rows, Watched <- AccessColumns, Messages <- Dated

SavesStale(i) == pc[i] \in {"apply", "refund"} /\ pc'[i] \in {"cache", "cache refund"}
                    /\ copy[i] # file

KeepsContract ==
    /\ Contract!Init
    /\ [][(\E i \in Threads : SavesStale(i)) \/ Contract!Next]_Rows

=============================================================================
