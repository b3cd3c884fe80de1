---------------------------- MODULE EventLedger ----------------------------
(***************************************************************************)
(* The ledger of processed webhook ids, ProcessedEventLedger in            *)
(* src/tmo/payments/event_ledger.py: what one call does to the file.       *)
(* A ledger maps an event id to the moment it was marked, or to NULL.      *)
(* Every call runs under one lock, reloads the file and replaces it whole, *)
(* so a call is one step for whoever makes it.  The cap is at least one: a *)
(* cap of zero would keep every id (`ordered[-0:]`).                       *)
(***************************************************************************)
EXTENDS Integers, FiniteSets

CONSTANTS
    NULL,
    EventIds,       \* Paddle's event ids
    Retention,      \* retention_s
    MaxEntries      \* max_entries

ASSUME LedgerAssumption ==
    /\ IsFiniteSet(EventIds) /\ NULL \notin EventIds /\ NULL \notin Int
    /\ Retention \in Nat /\ MaxEntries \in Nat \ {0}

Ledger == [EventIds -> Nat \cup {NULL}]

Empty == [e \in EventIds |-> NULL]

(* _load: what a call may find.  A file that cannot be read or parsed is     *)
(* taken for an empty one, and the next save writes that over it.            *)
Loaded(l) == {l, Empty}

Held(l) == {e \in EventIds : l[e] # NULL}

Only(l, keep) == [e \in EventIds |-> IF e \in keep THEN l[e] ELSE NULL]

(* The entries that are young enough at t. *)
FreshStrict(l, t) == {e \in Held(l) : l[e] > t - Retention}
Fresh(l, t) == {e \in Held(l) : l[e] >= t - Retention}

(* What is left after the cap: the newest, and among entries of one moment   *)
(* the one marked last (`last`, NULL when the call marks nothing).           *)
Newest(l, ids, last) ==
    IF Cardinality(ids) <= MaxEntries THEN {ids}
    ELSE {keep \in SUBSET ids :
            /\ Cardinality(keep) = MaxEntries
            /\ \A k \in keep, d \in ids \ keep :
                  l[d] < l[k] \/ (l[d] = l[k] /\ d # last)}

(* _prune: by age, then by count. *)
PruneByAge(l, t, last) == {Only(l, Fresh(l, t))}

PruneEarly(l, t, last) == {Only(l, keep) : keep \in Newest(l, FreshStrict(l, t), last)}

Prune(l, t, last) == {Only(l, keep) : keep \in Newest(l, Fresh(l, t), last)}

(* check_and_mark on a ledger as loaded: TRUE with the ledger it leaves the  *)
(* first time an id is seen, FALSE with the file untouched for a repeat.  It *)
(* looks for the id in the ledger as pruned now, never in the file as it was.*)
CheckAndMark(l, e, t) ==
    UNION {IF p[e] # NULL THEN {[first |-> FALSE, ledger |-> l]}
           ELSE {[first |-> TRUE, ledger |-> q] : q \in Prune([p EXCEPT ![e] = t], t, e)}
             : p \in Prune(l, t, NULL)}

=============================================================================
