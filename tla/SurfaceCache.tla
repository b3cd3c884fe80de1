---------------------------- MODULE SurfaceCache ----------------------------
(***************************************************************************)
(* The fit service's cache, src/tmo/service/cache.py: request threads call *)
(* get(), which computes only what is missing, and a background loop calls *)
(* refresh() on what is stale.  One lock per key: a request waits for it,  *)
(* the loop does not.  stop() gives the loop five seconds and then forgets *)
(* it, finished or not, so that a later start can run beside it.           *)
(*                                                                         *)
(* A fit takes any time and may raise.  What it returns is told apart by   *)
(* the moment the fit began, which is when it looked at the market.        *)
(***************************************************************************)
EXTENDS Integers, Sequences

CONSTANTS
    NULL,
    Keys,           \* (venue, currency)
    Targets,        \* the keys the loop keeps warm, in its order
    Requests,       \* request threads
    Refreshers,     \* threads that can be started to refresh
    TTL,            \* ttl_s
    MaxTime,        \* bound on the clock
    MaxFailures,    \* bound on fits that raise
    MaxStarts       \* bound on start_refreshing

Threads == Requests \cup Refreshers

ASSUME CacheAssumption ==
    /\ Targets \in Seq(Keys)
    /\ Requests \cap Refreshers = {} /\ NULL \notin Threads
    /\ NULL \notin [asof : Nat, computed_at : Nat, error : BOOLEAN]
    /\ {TTL, MaxTime, MaxFailures, MaxStarts} \subseteq Nat

VARIABLES
    entries,        \* _entries: key -> Entry, NULL when there is none
    lock,           \* _locks: key -> the thread that holds it, or NULL
    now,            \* time.time()
    pc,             \* thread -> where it is
    key,            \* thread -> the key it is at work on
    began,          \* thread -> when its fit began
    todo,           \* refresher -> keys left in this pass
    stopping,       \* _stop
    refresher,      \* _refresher
    joining,        \* stop() is waiting for the thread
    lastFailed,     \* history: key -> its last finished fit raised
    failures, starts

threads == <<pc, key, began, todo>>
control == <<stopping, refresher, joining, starts>>
vars == <<entries, lock, now, threads, control, lastFailed, failures>>

Init ==
    /\ entries = [k \in Keys |-> NULL]
    /\ lock = [k \in Keys |-> NULL]
    /\ now = 0
    /\ pc = [t \in Threads |-> IF t \in Requests THEN "idle" ELSE "off"]
    /\ key = [t \in Threads |-> NULL]
    /\ began = [t \in Threads |-> 0]
    /\ todo = [w \in Refreshers |-> <<>>]
    /\ stopping = FALSE /\ refresher = NULL /\ joining = FALSE
    /\ lastFailed = [k \in Keys |-> FALSE]
    /\ failures = 0 /\ starts = 0

Goto(t, label) == pc' = [pc EXCEPT ![t] = label]

Tick ==
    /\ now < MaxTime
    /\ now' = now + 1
    /\ UNCHANGED <<entries, lock, threads, control, lastFailed, failures>>

(* is_stale: missing, or at least the TTL old. *)
IsStale(k) == entries[k] = NULL \/ now - entries[k].computed_at >= TTL

(* A thread that has the lock starts to fit. *)
Compute(t, k) ==
    /\ lock[k] = NULL
    /\ lock' = [lock EXCEPT ![k] = t]
    /\ began' = [began EXCEPT ![t] = now]
    /\ Goto(t, "compute")

StoreKeepsError(t) ==
    LET k == key[t]
    IN  /\ entries' = [entries EXCEPT ![k] =
                         [asof |-> began[t], computed_at |-> now,
                          error |-> IF @ = NULL THEN FALSE ELSE @.error]]
        /\ lock' = [lock EXCEPT ![k] = NULL]
        /\ lastFailed' = [lastFailed EXCEPT ![k] = FALSE]

(* The fit returns: a new Entry with no error on it, and the lock released.  *)
Store(t) ==
    LET k == key[t]
    IN  /\ entries' = [entries EXCEPT ![k] =
                         [asof |-> began[t], computed_at |-> now, error |-> FALSE]]
        /\ lock' = [lock EXCEPT ![k] = NULL]
        /\ lastFailed' = [lastFailed EXCEPT ![k] = FALSE]

-----------------------------------------------------------------------------
(* get().                                                                    *)

(* A present value, however stale, is returned as it is, and changes nothing. *)
Miss(r, k) ==
    /\ pc[r] = "idle" /\ entries[k] = NULL
    /\ key' = [key EXCEPT ![r] = k]
    /\ Goto(r, "wait")
    /\ UNCHANGED <<entries, lock, now, began, todo, control, lastFailed, failures>>

AcquireBlindly(r) ==
    /\ pc[r] = "wait"
    /\ Compute(r, key[r])
    /\ UNCHANGED <<entries, now, key, todo, control, lastFailed, failures>>

(* With the lock, look again: somebody may have filled it meanwhile. *)
Acquire(r) ==
    /\ pc[r] = "wait" /\ lock[key[r]] = NULL
    /\ IF entries[key[r]] = NULL
       THEN Compute(r, key[r]) /\ UNCHANGED key
       ELSE /\ Goto(r, "idle")
            /\ key' = [key EXCEPT ![r] = NULL]
            /\ UNCHANGED <<lock, began>>
    /\ UNCHANGED <<entries, now, todo, control, lastFailed, failures>>

FinishGet(r) ==
    /\ pc[r] = "compute"
    /\ Store(r)
    /\ Goto(r, "idle")
    /\ key' = [key EXCEPT ![r] = NULL]
    /\ UNCHANGED <<now, began, todo, control, failures>>

FailGetLocked(r) ==
    /\ pc[r] = "compute"
    /\ failures < MaxFailures /\ failures' = failures + 1
    /\ lastFailed' = [lastFailed EXCEPT ![key[r]] = TRUE]
    /\ Goto(r, "idle")
    /\ key' = [key EXCEPT ![r] = NULL]
    /\ UNCHANGED <<entries, lock, now, began, todo, control>>

(* The fit raises through get(), and the lock goes with it. *)
FailGet(r) ==
    /\ pc[r] = "compute"
    /\ failures < MaxFailures /\ failures' = failures + 1
    /\ lock' = [lock EXCEPT ![key[r]] = NULL]
    /\ lastFailed' = [lastFailed EXCEPT ![key[r]] = TRUE]
    /\ Goto(r, "idle")
    /\ key' = [key EXCEPT ![r] = NULL]
    /\ UNCHANGED <<entries, now, began, todo, control>>

-----------------------------------------------------------------------------
(* The background loop.                                                      *)

(* start_refreshing does nothing while a thread is on file. *)
Start(w) ==
    /\ refresher = NULL /\ pc[w] = "off"
    /\ starts < MaxStarts /\ starts' = starts + 1
    /\ stopping' = FALSE
    /\ refresher' = w
    /\ todo' = [todo EXCEPT ![w] = Targets]
    /\ Goto(w, "pass")
    /\ UNCHANGED <<entries, lock, now, key, began, joining, lastFailed, failures>>

(* Between two keys, and before the sleep, the loop looks at _stop. *)
Check(w) ==
    /\ pc[w] = "pass"
    /\ IF stopping THEN Goto(w, "off") /\ UNCHANGED <<key, todo>>
       ELSE IF todo[w] = <<>> THEN Goto(w, "sleep") /\ UNCHANGED <<key, todo>>
       ELSE LET k == Head(todo[w])
            IN  /\ todo' = [todo EXCEPT ![w] = Tail(@)]
                /\ IF IsStale(k)
                   THEN key' = [key EXCEPT ![w] = k] /\ Goto(w, "refresh")
                   ELSE UNCHANGED <<key, pc>>
    /\ UNCHANGED <<entries, lock, now, began, control, lastFailed, failures>>

RefreshUnlocked(w) ==
    /\ pc[w] = "refresh"
    /\ began' = [began EXCEPT ![w] = now]
    /\ Goto(w, "compute")
    /\ UNCHANGED <<entries, lock, now, key, todo, control, lastFailed, failures>>

(* refresh() does not wait: somebody is already on it. *)
Refresh(w) ==
    /\ pc[w] = "refresh"
    /\ IF lock[key[w]] = NULL
       THEN Compute(w, key[w]) /\ UNCHANGED key
       ELSE /\ Goto(w, "pass")
            /\ key' = [key EXCEPT ![w] = NULL]
            /\ UNCHANGED <<lock, began>>
    /\ UNCHANGED <<entries, now, todo, control, lastFailed, failures>>

FinishRefresh(w) ==
    /\ pc[w] = "compute"
    /\ Store(w)
    /\ Goto(w, "pass")
    /\ key' = [key EXCEPT ![w] = NULL]
    /\ UNCHANGED <<now, began, todo, control, failures>>

FailRefreshDrops(w) ==
    LET k == key[w]
    IN  /\ pc[w] = "compute"
        /\ failures < MaxFailures /\ failures' = failures + 1
        /\ entries' = [entries EXCEPT ![k] = NULL]
        /\ lock' = [lock EXCEPT ![k] = NULL]
        /\ lastFailed' = [lastFailed EXCEPT ![k] = TRUE]
        /\ Goto(w, "pass")
        /\ key' = [key EXCEPT ![w] = NULL]
        /\ UNCHANGED <<now, began, todo, control>>

FailRefreshBare(w) ==
    LET k == key[w]
    IN  /\ pc[w] = "compute"
        /\ failures < MaxFailures /\ failures' = failures + 1
        /\ entries' = [entries EXCEPT ![k] =
                         IF @ = NULL THEN [error |-> TRUE] ELSE [@ EXCEPT !.error = TRUE]]
        /\ lock' = [lock EXCEPT ![k] = NULL]
        /\ lastFailed' = [lastFailed EXCEPT ![k] = TRUE]
        /\ Goto(w, "pass")
        /\ key' = [key EXCEPT ![w] = NULL]
        /\ UNCHANGED <<now, began, todo, control>>

FailRefreshLocked(w) ==
    LET k == key[w]
    IN  /\ pc[w] = "compute"
        /\ failures < MaxFailures /\ failures' = failures + 1
        /\ lastFailed' = [lastFailed EXCEPT ![k] = TRUE]
        /\ Goto(w, "pass")
        /\ key' = [key EXCEPT ![w] = NULL]
        /\ UNCHANGED <<entries, lock, now, began, todo, control>>

(* A refresh that raises notes it on the value that stays, if there is one.  *)
FailRefresh(w) ==
    LET k == key[w]
    IN  /\ pc[w] = "compute"
        /\ failures < MaxFailures /\ failures' = failures + 1
        /\ entries' = IF entries[k] = NULL THEN entries
                      ELSE [entries EXCEPT ![k].error = TRUE]
        /\ lock' = [lock EXCEPT ![k] = NULL]
        /\ lastFailed' = [lastFailed EXCEPT ![k] = TRUE]
        /\ Goto(w, "pass")
        /\ key' = [key EXCEPT ![w] = NULL]
        /\ UNCHANGED <<now, began, todo, control>>

(* _stop.wait(interval_s) ends: told to stop, or time for another pass. *)
Wake(w) ==
    /\ pc[w] = "sleep"
    /\ IF stopping THEN Goto(w, "off") /\ UNCHANGED todo
       ELSE Goto(w, "pass") /\ todo' = [todo EXCEPT ![w] = Targets]
    /\ UNCHANGED <<entries, lock, now, key, began, control, lastFailed, failures>>

(* stop() with no thread on file only sets the flag. *)
Stop ==
    /\ ~joining
    /\ stopping' = TRUE /\ joining' = (refresher # NULL)
    /\ UNCHANGED <<entries, lock, now, threads, refresher, starts, lastFailed, failures>>

(* join(timeout=5): the thread has ended, or is in a fit that takes longer. *)
Join ==
    /\ joining
    /\ pc[refresher] \in {"off", "compute"}
    /\ refresher' = NULL /\ joining' = FALSE
    /\ UNCHANGED <<entries, lock, now, threads, stopping, starts, lastFailed, failures>>

Get(r) ==
    \/ \E k \in Keys : Miss(r, k)
    \/ Acquire(r)
    \/ FinishGet(r)
    \/ FailGet(r)

Loop(w) ==
    \/ Check(w)
    \/ Refresh(w)
    \/ FinishRefresh(w)
    \/ FailRefresh(w)
    \/ Wake(w)

Next ==
    \/ Tick
    \/ \E r \in Requests : Get(r)
    \/ \E w \in Refreshers : Start(w) \/ Loop(w)
    \/ Stop
    \/ Join

Spec == Init /\ [][Next]_vars

(* Every thread is scheduled, a fit ends one way or the other, and a thread  *)
(* that waits for a lock which keeps coming free gets it in the end.         *)
FairSpec ==
    /\ Spec
    /\ \A r \in Requests : /\ SF_vars(Acquire(r))
                           /\ WF_vars(FinishGet(r) \/ FailGet(r))
    /\ \A w \in Refreshers : WF_vars(Loop(w))

-----------------------------------------------------------------------------
(* Properties.                                                               *)

Entry == [asof : Nat, computed_at : Nat, error : BOOLEAN]

(* Entries, locks and threads have their shape. *)
TypeOK ==
    /\ entries \in [Keys -> Entry \cup {NULL}]
    /\ lock \in [Keys -> Threads \cup {NULL}]
    /\ now \in Nat
    /\ pc \in [Threads -> {"idle", "wait", "compute", "off", "pass", "refresh", "sleep"}]
    /\ key \in [Threads -> Keys \cup {NULL}]
    /\ began \in [Threads -> Nat]
    /\ todo \in [Refreshers -> Seq(Keys)]
    /\ stopping \in BOOLEAN /\ joining \in BOOLEAN
    /\ refresher \in Refreshers \cup {NULL}
    /\ lastFailed \in [Keys -> BOOLEAN]
    /\ failures \in Nat /\ starts \in Nat

Computing(t, k) == pc[t] = "compute" /\ key[t] = k

(* Two threads never fit the same chain at once, not even two loops after a  *)
(* stop() that gave up waiting (cache.py, "never lets two threads compute    *)
(* the same thing").                                                         *)
SingleFlight ==
    \A k \in Keys : \A t, u \in Threads : Computing(t, k) /\ Computing(u, k) => t = u

(* A customer's request fits only while there is nothing to serve: a stale   *)
(* value is never recomputed at a customer's expense, and of several that    *)
(* found nothing only one pays (cache.py, "computing only if there is        *)
(* nothing").                                                                *)
RequestsFitOnlyTheMissing ==
    \A r \in Requests, k \in Keys : Computing(r, k) => entries[k] = NULL

(* A value that was served is never lost and never replaced by one that      *)
(* looked at the market earlier, whatever raised and whoever else was        *)
(* fitting (cache.py, "keeps the old value on failure").                     *)
ValuesOnlyGetNewer ==
    [][\A k \in Keys :
          entries[k] # NULL => /\ entries'[k] # NULL
                               /\ entries'[k].asof >= entries[k].asof
                               /\ entries'[k].computed_at >= entries[k].computed_at]_vars

(* The error /health reports with a value is that of the last fit that ended *)
(* (app.py, "last_error").                                                   *)
ErrorIsCurrent ==
    \A k \in Keys : entries[k] # NULL => entries[k].error = lastFailed[k]

(* No request hangs: it is answered or gets the exception of its own fit.    *)
RequestsEnd == \A r \in Requests : pc[r] # "idle" ~> pc[r] = "idle"

(* While a loop runs, a target that is stale is fresh again in the end, or   *)
(* the loop is told to stop (cache.py, "Keep targets warm").                 *)
StaleIsRefreshed ==
    \A w \in Refreshers, k \in Keys :
        (pc[w] # "off" /\ IsStale(k)) ~> (~IsStale(k) \/ stopping)

=============================================================================
