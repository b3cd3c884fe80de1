---------------------------- MODULE ReplayWindow ----------------------------
(***************************************************************************)
(* How the box keeps a webhook from being acted on twice: a signature is   *)
(* good for Window seconds either side of its timestamp                    *)
(* (verify_webhook_signature in src/tmo/payments/webhook.py), and inside   *)
(* that window the ledger of event ids turns a repeat away (handle in      *)
(* src/tmo/payments/handler.py).  A delivery is an event id with the       *)
(* timestamp its signature covers.  Paddle signs an event afresh each time *)
(* it sends it, and any delivery it ever signed may arrive, and arrive     *)
(* again, at any time and in several requests at once.                     *)
(*                                                                         *)
(* A request reads the clock twice: the check of its signature cuts it to  *)
(* whole seconds, and the ledger, later, keeps the fraction.  The clock    *)
(* therefore runs in ticks, Second of them to a second.                    *)
(***************************************************************************)
EXTENDS EventLedger

CONSTANTS
    Second,         \* ticks in a second; Retention is in ticks too
    Window,         \* max_timestamp_age_s, in seconds
    Skew,           \* how far Paddle's clock may be from ours, in seconds
    Lag,            \* ticks a request may spend between its two clock reads
    MaxTime,        \* bound on the clock
    MaxSigned,      \* bound on the deliveries Paddle signs
    MaxUnreadable   \* bound on the times the ledger file cannot be read

ASSUME WindowAssumption ==
    /\ {Window, Skew, Lag, MaxTime, MaxSigned, MaxUnreadable} \subseteq Nat
    /\ Second \in Nat \ {0}

(* What the module is about: the ledger outlives every signature.  From the  *)
(* first tick a signature is good to the last is two whole windows and all   *)
(* but one tick of the second it dies in, and a request may take Lag ticks   *)
(* more on either side.  However fine the ticks, two windows alone are a     *)
(* second short.  The code has 3600 against 601 seconds, which leaves a      *)
(* request 2999 seconds to get from its signature to the ledger.             *)
ASSUME RetentionCovers == (2 * Window + 1) * Second - 1 + Lag <= Retention

Delivery == [id : EventIds, ts : Int]

VARIABLES
    ledger,         \* the ledger file
    now,            \* time.time(), in ticks
    signed,         \* deliveries Paddle has signed
    checked,        \* requests past the signature check: the delivery and
                    \* the tick of that check
    unreadable,     \* times the ledger file could not be read
    \* what the properties remember:
    accepted,       \* deliveries handle() has gone on to process
    applied,        \* event id -> when it was last processed, or NULL
    forgotten       \* ids processed before a failed read and not since

vars == <<ledger, now, signed, checked, unreadable, accepted, applied, forgotten>>

Init ==
    /\ ledger = Empty
    /\ now = 0
    /\ signed = {}
    /\ checked = {}
    /\ unreadable = 0
    /\ accepted = {}
    /\ applied = Empty
    /\ forgotten = {}

(* Time passes, for no request longer than Lag between its clock reads. *)
Tick ==
    /\ now < MaxTime
    /\ \A c \in checked : now < c.at + Lag
    /\ now' = now + 1
    /\ UNCHANGED <<ledger, signed, checked, unreadable, accepted, applied, forgotten>>

(* int(time.time()) *)
Clock == now \div Second

(* Paddle sends an event, for the first time or again. *)
Sign(e, ts) ==
    /\ Cardinality(signed) < MaxSigned
    /\ ts \in Clock - Skew .. Clock + Skew
    /\ signed' = signed \cup {[id |-> e, ts |-> ts]}
    /\ UNCHANGED <<ledger, now, checked, unreadable, accepted, applied, forgotten>>

(* abs(now_i - ts_i) > max_timestamp_age_s is stale. *)
TimelyFuture(ts) == Clock - ts <= Window

Timely(ts) == Clock - ts <= Window /\ ts - Clock <= Window

(* The signature holds: the request goes on, its body still to be parsed. *)
Verify(d) ==
    /\ Timely(d.ts)
    /\ checked' = checked \cup {[id |-> d.id, ts |-> d.ts, at |-> now]}
    /\ UNCHANGED <<ledger, now, signed, unreadable, accepted, applied, forgotten>>

(* The id is new to the ledger as it was read: process the event. *)
Accept(c, read) ==
    /\ \E result \in CheckAndMark(read, c.id, now) :
        /\ result.first
        /\ ledger' = result.ledger
    /\ checked' = checked \ {c}
    /\ unreadable' = IF read = ledger THEN unreadable ELSE unreadable + 1
    /\ unreadable' <= MaxUnreadable
    /\ accepted' = accepted \cup {[id |-> c.id, ts |-> c.ts]}
    /\ applied' = [applied EXCEPT ![c.id] = now]
    /\ forgotten' = (IF read = ledger THEN forgotten ELSE Held(applied)) \ {c.id}
    /\ UNCHANGED <<now, signed>>

(* A repeat is answered 200 and nothing is done. *)
TurnAway(c) ==
    /\ \E result \in CheckAndMark(ledger, c.id, now) : ~result.first
    /\ checked' = checked \ {c}
    /\ UNCHANGED <<ledger, now, signed, unreadable, accepted, applied, forgotten>>

(* The process stops with the request in hand. *)
Lose(c) ==
    /\ checked' = checked \ {c}
    /\ UNCHANGED <<ledger, now, signed, unreadable, accepted, applied, forgotten>>

Next ==
    \/ Tick
    \/ \E e \in EventIds : \E ts \in Clock - Skew .. Clock + Skew : Sign(e, ts)
    \/ \E d \in signed : Verify(d)
    \/ \E c \in checked :
          \/ \E read \in Loaded(ledger) : Accept(c, read)
          \/ TurnAway(c)
          \/ Lose(c)

Spec == Init /\ [][Next]_vars

-----------------------------------------------------------------------------
TypeOK ==
    /\ ledger \in Ledger
    /\ now \in Nat
    /\ signed \subseteq Delivery
    /\ checked \subseteq [id : EventIds, ts : Int, at : Nat]
    /\ unreadable \in 0 .. MaxUnreadable
    /\ accepted \subseteq signed
    /\ applied \in Ledger
    /\ forgotten \subseteq EventIds

(* As many other ids as the file has room for were processed in the moment   *)
(* this one was, or since.                                                   *)
Crowded(e) ==
    MaxEntries <= Cardinality({x \in EventIds \ {e} :
                                  applied[x] # NULL /\ applied[x] >= applied[e]})

(* What the ledger's own notes allow a processed id to be missing for: the   *)
(* cap had no room left for it, or the file was lost after it was noted.     *)
Excused(e) == Crowded(e) \/ e \in forgotten

(* A delivery captured on the wire works once: sent again byte for byte, in  *)
(* any number of requests at a time, the ledger that can be read still holds *)
(* its id for as long as its signature is good (event_ledger.py, "within the *)
(* window it can be POSTed again").  The exceptions are a crowd of newer ids *)
(* that fills the whole cap and a file lost since.                           *)
CaptureWorksOnce ==
    [][\A c \in checked :
          /\ [id |-> c.id, ts |-> c.ts] \in accepted
          /\ Accept(c, ledger)
          => Excused(c.id)]_vars

(* An event is processed again, under whatever signature, only when more     *)
(* than the retention has gone by since the last time, or for one of the     *)
(* same two exceptions.                                                      *)
ReappliedOnlyAfterRetention ==
    [][\A c \in checked :
          /\ applied[c.id] # NULL
          /\ Accept(c, ledger)
          => now > applied[c.id] + Retention \/ Excused(c.id)]_vars

(* No call leaves more ids in the file than the cap allows, whatever it      *)
(* found there (event_ledger.py:22, "hard-capped by count").                 *)
LedgerIsBounded == Cardinality(Held(ledger)) <= MaxEntries

=============================================================================
