------------------------- MODULE SurfaceCacheProofs -------------------------
(***************************************************************************)
(* The safety of the fit service's cache, for any number of keys, request  *)
(* threads and refresh loops, any TTL, any number of starts and of fits    *)
(* that raise.  What carries it is HoldsLock: a thread that fits holds the *)
(* lock of the key it fits, so that nobody else stores there meanwhile.    *)
(***************************************************************************)
EXTENDS SurfaceCache, SequenceTheorems, TLAPS

(* A thread that has looked a key up works on one of the keys.               *)
KeysKnown ==
    \A t \in Threads : pc[t] \in {"wait", "refresh", "compute"} => key[t] \in Keys

(* A thread that fits holds the lock of its key.                             *)
HoldsLock ==
    \A t \in Threads : pc[t] = "compute" => lock[key[t]] = t

(* Nothing on file is from the future, and what a fit will store looked at   *)
(* the market no earlier than what it replaces.                              *)
InOrder ==
    /\ \A t \in Threads : began[t] <= now
    /\ \A k \in Keys : entries[k] # NULL =>
          /\ entries[k].asof <= now
          /\ entries[k].computed_at <= now
    /\ \A t \in Threads : pc[t] = "compute" /\ entries[key[t]] # NULL
                              => entries[key[t]].asof <= began[t]

Inductive ==
    /\ TypeOK
    /\ KeysKnown
    /\ HoldsLock
    /\ RequestsFitOnlyTheMissing
    /\ ErrorIsCurrent
    /\ InOrder

(* Every step keeps the shapes, and a thread's key is one of the keys.       *)
LEMMA TypeStep ==
    ASSUME TypeOK, KeysKnown, [Next]_vars
    PROVE  TypeOK' /\ KeysKnown'
<1>1. CASE Tick
  BY <1>1, CacheAssumption DEF Tick, control, threads, TypeOK, KeysKnown, Entry, Threads
<1>2. ASSUME NEW r \in Requests, NEW k \in Keys, Miss(r, k)
      PROVE  TypeOK' /\ KeysKnown'
  BY <1>2, CacheAssumption DEF Miss, Goto, control, threads, TypeOK, KeysKnown, Entry, Threads
<1>3. ASSUME NEW r \in Requests, Acquire(r)
      PROVE  TypeOK' /\ KeysKnown'
  <2>1. key[r] \in Keys
    BY <1>3 DEF Acquire, KeysKnown, Threads
  <2>2. CASE entries[key[r]] = NULL
    <3>1. UNCHANGED <<entries, now, key, todo, control, lastFailed, failures>>
      BY <1>3, <2>2 DEF Acquire
    <3>2. /\ lock' \in [Keys -> Threads \cup {NULL}]
          /\ began' \in [Threads -> Nat]
          /\ pc' = [pc EXCEPT ![r] = "compute"]
      BY <1>3, <2>1, <2>2 DEF Acquire, Compute, Goto, TypeOK, Threads
    <3>3. QED
      BY <2>1, <3>1, <3>2 DEF TypeOK, KeysKnown, control, Threads
  <2>3. CASE entries[key[r]] # NULL
    <3>1. UNCHANGED <<entries, lock, began, now, todo, control, lastFailed, failures>>
      BY <1>3, <2>3 DEF Acquire
    <3>2. /\ key' = [key EXCEPT ![r] = NULL]
          /\ pc' = [pc EXCEPT ![r] = "idle"]
      BY <1>3, <2>3 DEF Acquire, Goto
    <3>3. QED
      BY <2>1, <3>1, <3>2 DEF TypeOK, KeysKnown, control, Threads
  <2>4. QED
    BY <2>2, <2>3
<1>4. ASSUME NEW r \in Requests, FinishGet(r)
      PROVE  TypeOK' /\ KeysKnown'
  BY <1>4, CacheAssumption DEF FinishGet, Store, Goto, control, threads, TypeOK, KeysKnown, Entry, Threads
<1>5. ASSUME NEW r \in Requests, FailGet(r)
      PROVE  TypeOK' /\ KeysKnown'
  BY <1>5, CacheAssumption DEF FailGet, Goto, control, threads, TypeOK, KeysKnown, Entry, Threads
<1>6. ASSUME NEW w \in Refreshers, Start(w)
      PROVE  TypeOK' /\ KeysKnown'
  <2>1. todo' \in [Refreshers -> Seq(Keys)]
    BY <1>6, CacheAssumption DEF Start, TypeOK
  <2>2. pc' = [pc EXCEPT ![w] = "pass"] /\ w \in Threads
    BY <1>6 DEF Start, Goto, Threads
  <2>3. /\ UNCHANGED <<entries, lock, now, key, began, joining, lastFailed, failures>>
        /\ stopping' = FALSE /\ refresher' = w /\ starts' = starts + 1
    BY <1>6 DEF Start
  <2>4. TypeOK'
    <3>1. /\ pc' \in [Threads -> {"idle", "wait", "compute", "off", "pass", "refresh", "sleep"}]
          /\ starts' \in Nat
      BY <2>2, <2>3 DEF TypeOK
    <3>2. /\ refresher' \in Refreshers \cup {NULL}
          /\ stopping' \in BOOLEAN
      BY <2>3
    <3>3. QED
      BY <2>1, <2>3, <3>1, <3>2 DEF TypeOK
  <2>5. KeysKnown'
    BY <2>2, <2>3 DEF TypeOK, KeysKnown
  <2>6. QED
    BY <2>4, <2>5
<1>7. ASSUME NEW w \in Refreshers, Check(w)
      PROVE  TypeOK' /\ KeysKnown'
  <2>1. UNCHANGED <<entries, lock, now, began, control, lastFailed, failures>> /\ w \in Threads
    BY <1>7 DEF Check, Threads
  <2>2. CASE stopping
    BY <1>7, <2>1, <2>2 DEF Check, Goto, control, TypeOK, KeysKnown
  <2>3. CASE ~stopping /\ todo[w] = <<>>
    BY <1>7, <2>1, <2>3 DEF Check, Goto, control, TypeOK, KeysKnown
  <2>4. CASE ~stopping /\ todo[w] # <<>>
    <3>1. Head(todo[w]) \in Keys /\ Tail(todo[w]) \in Seq(Keys)
      BY <2>4, HeadTailProperties DEF TypeOK
    <3>2. /\ todo' = [todo EXCEPT ![w] = Tail(todo[w])]
          /\ \/ /\ key' = [key EXCEPT ![w] = Head(todo[w])]
                /\ pc' = [pc EXCEPT ![w] = "refresh"]
             \/ UNCHANGED <<key, pc>>
      BY <1>7, <2>4 DEF Check, Goto
    <3>3. TypeOK'
      BY <2>1, <3>1, <3>2 DEF TypeOK, control
    <3>4. KeysKnown'
      BY <2>1, <3>1, <3>2 DEF TypeOK, KeysKnown
    <3>5. QED
      BY <3>3, <3>4
  <2>5. QED
    BY <2>2, <2>3, <2>4
<1>8. ASSUME NEW w \in Refreshers, Refresh(w)
      PROVE  TypeOK' /\ KeysKnown'
  <2>1. key[w] \in Keys /\ w \in Threads
    BY <1>8 DEF Refresh, KeysKnown, Threads
  <2>2. CASE lock[key[w]] = NULL
    <3>1. UNCHANGED <<entries, now, key, todo, control, lastFailed, failures>>
      BY <1>8, <2>2 DEF Refresh
    <3>2. /\ lock' \in [Keys -> Threads \cup {NULL}]
          /\ began' \in [Threads -> Nat]
          /\ pc' = [pc EXCEPT ![w] = "compute"]
      BY <1>8, <2>1, <2>2 DEF Refresh, Compute, Goto, TypeOK
    <3>3. QED
      BY <2>1, <3>1, <3>2 DEF TypeOK, KeysKnown, control
  <2>3. CASE lock[key[w]] # NULL
    <3>1. UNCHANGED <<entries, lock, began, now, todo, control, lastFailed, failures>>
      BY <1>8, <2>3 DEF Refresh
    <3>2. /\ key' = [key EXCEPT ![w] = NULL]
          /\ pc' = [pc EXCEPT ![w] = "pass"]
      BY <1>8, <2>3 DEF Refresh, Goto
    <3>3. QED
      BY <2>1, <3>1, <3>2 DEF TypeOK, KeysKnown, control
  <2>4. QED
    BY <2>2, <2>3
<1>9. ASSUME NEW w \in Refreshers, FinishRefresh(w)
      PROVE  TypeOK' /\ KeysKnown'
  BY <1>9, CacheAssumption DEF FinishRefresh, Store, Goto, control, threads, TypeOK, KeysKnown, Entry, Threads
<1>10. ASSUME NEW w \in Refreshers, FailRefresh(w)
      PROVE  TypeOK' /\ KeysKnown'
  <2>1. key[w] \in Keys /\ w \in Threads
    BY <1>10 DEF FailRefresh, KeysKnown, Threads
  <2>2. entries' \in [Keys -> Entry \cup {NULL}]
    BY <1>10, <2>1 DEF FailRefresh, TypeOK, Entry
  <2>3. /\ failures' = failures + 1
        /\ lock' = [lock EXCEPT ![key[w]] = NULL]
        /\ lastFailed' = [lastFailed EXCEPT ![key[w]] = TRUE]
        /\ pc' = [pc EXCEPT ![w] = "pass"]
        /\ key' = [key EXCEPT ![w] = NULL]
        /\ UNCHANGED <<now, began, todo, control>>
    BY <1>10 DEF FailRefresh, Goto
  <2>4. TypeOK'
    BY <2>1, <2>2, <2>3 DEF TypeOK, control
  <2>5. KeysKnown'
    BY <2>1, <2>3 DEF TypeOK, KeysKnown
  <2>6. QED
    BY <2>4, <2>5
<1>11. ASSUME NEW w \in Refreshers, Wake(w)
      PROVE  TypeOK' /\ KeysKnown'
  <2>1. UNCHANGED <<entries, lock, now, key, began, control, lastFailed, failures>> /\ w \in Threads
    BY <1>11 DEF Wake, Threads
  <2>2. CASE stopping
    BY <1>11, <2>1, <2>2 DEF Wake, Goto, control, TypeOK, KeysKnown
  <2>3. CASE ~stopping
    <3>1. todo' \in [Refreshers -> Seq(Keys)] /\ pc' = [pc EXCEPT ![w] = "pass"]
      BY <1>11, <2>3, CacheAssumption DEF Wake, Goto, TypeOK
    <3>2. QED
      BY <2>1, <3>1 DEF TypeOK, KeysKnown, control
  <2>4. QED
    BY <2>2, <2>3
<1>12. CASE Stop
  BY <1>12, CacheAssumption DEF Stop, control, threads, TypeOK, KeysKnown, Entry, Threads
<1>13. CASE Join
  BY <1>13, CacheAssumption DEF Join, control, threads, TypeOK, KeysKnown, Entry, Threads
<1>14. CASE UNCHANGED vars
  BY <1>14, CacheAssumption DEF vars, threads, control, TypeOK, KeysKnown, Entry, Threads
<1>15. QED
  BY <1>1, <1>2, <1>3, <1>4, <1>5, <1>6, <1>7, <1>8, <1>9, <1>10, <1>11, <1>12, <1>13, <1>14 DEF Next, Get, Loop

(* A lock is taken free, by the thread that then fits, and kept until it has *)
(* finished.                                                                 *)
LEMMA LockStep ==
    ASSUME TypeOK, KeysKnown, HoldsLock, [Next]_vars
    PROVE  HoldsLock'
<1>1. CASE Tick
  BY <1>1, CacheAssumption DEF Tick, control, threads, TypeOK, KeysKnown, HoldsLock, Threads
<1>2. ASSUME NEW r \in Requests, NEW k \in Keys, Miss(r, k)
      PROVE  HoldsLock'
  BY <1>2, CacheAssumption DEF Miss, Goto, control, threads, TypeOK, KeysKnown, HoldsLock, Threads
<1>3. ASSUME NEW r \in Requests, Acquire(r)
      PROVE  HoldsLock'
  BY <1>3, CacheAssumption DEF Acquire, Compute, Goto, control, threads, TypeOK, KeysKnown, HoldsLock, Threads
<1>4. ASSUME NEW r \in Requests, FinishGet(r)
      PROVE  HoldsLock'
  BY <1>4, CacheAssumption DEF FinishGet, Store, Goto, control, threads, TypeOK, KeysKnown, HoldsLock, Threads
<1>5. ASSUME NEW r \in Requests, FailGet(r)
      PROVE  HoldsLock'
  BY <1>5, CacheAssumption DEF FailGet, Goto, control, threads, TypeOK, KeysKnown, HoldsLock, Threads
<1>6. ASSUME NEW w \in Refreshers, Start(w)
      PROVE  HoldsLock'
  BY <1>6, CacheAssumption DEF Start, Goto, control, threads, TypeOK, KeysKnown, HoldsLock, Threads
<1>7. ASSUME NEW w \in Refreshers, Check(w)
      PROVE  HoldsLock'
  BY <1>7, CacheAssumption DEF Check, Goto, control, threads, TypeOK, KeysKnown, HoldsLock, Threads
<1>8. ASSUME NEW w \in Refreshers, Refresh(w)
      PROVE  HoldsLock'
  <2>1. key[w] \in Keys /\ w \in Threads
    BY <1>8 DEF Refresh, KeysKnown, Threads
  <2>2. CASE lock[key[w]] = NULL
    <3>1. /\ lock' = [lock EXCEPT ![key[w]] = w]
          /\ pc' = [pc EXCEPT ![w] = "compute"]
          /\ key' = key
      BY <1>8, <2>2 DEF Refresh, Compute, Goto
    <3>2. ASSUME NEW t \in Threads, t # w, pc[t] = "compute"
          PROVE  key[t] # key[w]
      BY <2>2, <3>2, CacheAssumption DEF HoldsLock
    <3>3. QED
      BY <2>1, <3>1, <3>2 DEF TypeOK, KeysKnown, HoldsLock
  <2>3. CASE lock[key[w]] # NULL
    <3>1. /\ lock' = lock
          /\ pc' = [pc EXCEPT ![w] = "pass"]
          /\ key' = [key EXCEPT ![w] = NULL]
      BY <1>8, <2>3 DEF Refresh, Goto
    <3>2. QED
      BY <2>1, <3>1 DEF TypeOK, HoldsLock
  <2>4. QED
    BY <2>2, <2>3
<1>9. ASSUME NEW w \in Refreshers, FinishRefresh(w)
      PROVE  HoldsLock'
  BY <1>9, CacheAssumption DEF FinishRefresh, Store, Goto, control, threads, TypeOK, KeysKnown, HoldsLock, Threads
<1>10. ASSUME NEW w \in Refreshers, FailRefresh(w)
      PROVE  HoldsLock'
  BY <1>10, CacheAssumption DEF FailRefresh, Goto, control, threads, TypeOK, KeysKnown, HoldsLock, Threads
<1>11. ASSUME NEW w \in Refreshers, Wake(w)
      PROVE  HoldsLock'
  BY <1>11, CacheAssumption DEF Wake, Goto, control, threads, TypeOK, KeysKnown, HoldsLock, Threads
<1>12. CASE Stop
  BY <1>12, CacheAssumption DEF Stop, control, threads, TypeOK, KeysKnown, HoldsLock, Threads
<1>13. CASE Join
  BY <1>13, CacheAssumption DEF Join, control, threads, TypeOK, KeysKnown, HoldsLock, Threads
<1>14. CASE UNCHANGED vars
  BY <1>14, CacheAssumption DEF vars, threads, control, TypeOK, KeysKnown, HoldsLock, Threads
<1>15. QED
  BY <1>1, <1>2, <1>3, <1>4, <1>5, <1>6, <1>7, <1>8, <1>9, <1>10, <1>11, <1>12, <1>13, <1>14 DEF Next, Get, Loop

(* Only the holder of a key's lock stores there, so that what was missing    *)
(* when a request began to fit is missing until it is done.                  *)
LEMMA MissingStep ==
    ASSUME TypeOK, KeysKnown, HoldsLock, RequestsFitOnlyTheMissing, [Next]_vars
    PROVE  RequestsFitOnlyTheMissing'
<1>1. CASE Tick
  BY <1>1, CacheAssumption DEF Tick, control, threads, TypeOK, KeysKnown, HoldsLock, RequestsFitOnlyTheMissing, Computing, Threads, Entry
<1>2. ASSUME NEW r \in Requests, NEW k \in Keys, Miss(r, k)
      PROVE  RequestsFitOnlyTheMissing'
  BY <1>2, CacheAssumption DEF Miss, Goto, control, threads, TypeOK, KeysKnown, HoldsLock, RequestsFitOnlyTheMissing, Computing, Threads, Entry
<1>3. ASSUME NEW r \in Requests, Acquire(r)
      PROVE  RequestsFitOnlyTheMissing'
  BY <1>3, CacheAssumption DEF Acquire, Compute, Goto, control, threads, TypeOK, KeysKnown, HoldsLock, RequestsFitOnlyTheMissing, Computing, Threads, Entry
<1>4. ASSUME NEW r \in Requests, FinishGet(r)
      PROVE  RequestsFitOnlyTheMissing'
  BY <1>4, CacheAssumption DEF FinishGet, Store, Goto, control, threads, TypeOK, KeysKnown, HoldsLock, RequestsFitOnlyTheMissing, Computing, Threads, Entry
<1>5. ASSUME NEW r \in Requests, FailGet(r)
      PROVE  RequestsFitOnlyTheMissing'
  BY <1>5, CacheAssumption DEF FailGet, Goto, control, threads, TypeOK, KeysKnown, HoldsLock, RequestsFitOnlyTheMissing, Computing, Threads, Entry
<1>6. ASSUME NEW w \in Refreshers, Start(w)
      PROVE  RequestsFitOnlyTheMissing'
  BY <1>6, CacheAssumption DEF Start, Goto, control, threads, TypeOK, KeysKnown, HoldsLock, RequestsFitOnlyTheMissing, Computing, Threads, Entry
<1>7. ASSUME NEW w \in Refreshers, Check(w)
      PROVE  RequestsFitOnlyTheMissing'
  BY <1>7, CacheAssumption DEF Check, Goto, control, threads, TypeOK, KeysKnown, HoldsLock, RequestsFitOnlyTheMissing, Computing, Threads, Entry
<1>8. ASSUME NEW w \in Refreshers, Refresh(w)
      PROVE  RequestsFitOnlyTheMissing'
  BY <1>8, CacheAssumption DEF Refresh, Compute, Goto, control, threads, TypeOK, KeysKnown, HoldsLock, RequestsFitOnlyTheMissing, Computing, Threads, Entry
<1>9. ASSUME NEW w \in Refreshers, FinishRefresh(w)
      PROVE  RequestsFitOnlyTheMissing'
  BY <1>9, CacheAssumption DEF FinishRefresh, Store, Goto, control, threads, TypeOK, KeysKnown, HoldsLock, RequestsFitOnlyTheMissing, Computing, Threads, Entry
<1>10. ASSUME NEW w \in Refreshers, FailRefresh(w)
      PROVE  RequestsFitOnlyTheMissing'
  BY <1>10, CacheAssumption DEF FailRefresh, Goto, control, threads, TypeOK, KeysKnown, HoldsLock, RequestsFitOnlyTheMissing, Computing, Threads, Entry
<1>11. ASSUME NEW w \in Refreshers, Wake(w)
      PROVE  RequestsFitOnlyTheMissing'
  BY <1>11, CacheAssumption DEF Wake, Goto, control, threads, TypeOK, KeysKnown, HoldsLock, RequestsFitOnlyTheMissing, Computing, Threads, Entry
<1>12. CASE Stop
  BY <1>12, CacheAssumption DEF Stop, control, threads, TypeOK, KeysKnown, HoldsLock, RequestsFitOnlyTheMissing, Computing, Threads, Entry
<1>13. CASE Join
  BY <1>13, CacheAssumption DEF Join, control, threads, TypeOK, KeysKnown, HoldsLock, RequestsFitOnlyTheMissing, Computing, Threads, Entry
<1>14. CASE UNCHANGED vars
  BY <1>14, CacheAssumption DEF vars, threads, control, TypeOK, KeysKnown, HoldsLock, RequestsFitOnlyTheMissing, Computing, Threads, Entry
<1>15. QED
  BY <1>1, <1>2, <1>3, <1>4, <1>5, <1>6, <1>7, <1>8, <1>9, <1>10, <1>11, <1>12, <1>13, <1>14 DEF Next, Get, Loop

(* A fit's outcome and the error on file are written together; a request     *)
(* that fails has nothing on file to write it on.                            *)
LEMMA ErrorStep ==
    ASSUME TypeOK, KeysKnown, RequestsFitOnlyTheMissing, ErrorIsCurrent, [Next]_vars
    PROVE  ErrorIsCurrent'
<1>1. CASE Tick
  BY <1>1, CacheAssumption DEF Tick, control, threads, TypeOK, KeysKnown, RequestsFitOnlyTheMissing, ErrorIsCurrent, Computing, Threads, Entry
<1>2. ASSUME NEW r \in Requests, NEW k \in Keys, Miss(r, k)
      PROVE  ErrorIsCurrent'
  BY <1>2, CacheAssumption DEF Miss, Goto, control, threads, TypeOK, KeysKnown, RequestsFitOnlyTheMissing, ErrorIsCurrent, Computing, Threads, Entry
<1>3. ASSUME NEW r \in Requests, Acquire(r)
      PROVE  ErrorIsCurrent'
  BY <1>3, CacheAssumption DEF Acquire, Compute, Goto, control, threads, TypeOK, KeysKnown, RequestsFitOnlyTheMissing, ErrorIsCurrent, Computing, Threads, Entry
<1>4. ASSUME NEW r \in Requests, FinishGet(r)
      PROVE  ErrorIsCurrent'
  BY <1>4, CacheAssumption DEF FinishGet, Store, Goto, control, threads, TypeOK, KeysKnown, RequestsFitOnlyTheMissing, ErrorIsCurrent, Computing, Threads, Entry
<1>5. ASSUME NEW r \in Requests, FailGet(r)
      PROVE  ErrorIsCurrent'
  BY <1>5, CacheAssumption DEF FailGet, Goto, control, threads, TypeOK, KeysKnown, RequestsFitOnlyTheMissing, ErrorIsCurrent, Computing, Threads, Entry
<1>6. ASSUME NEW w \in Refreshers, Start(w)
      PROVE  ErrorIsCurrent'
  BY <1>6, CacheAssumption DEF Start, Goto, control, threads, TypeOK, KeysKnown, RequestsFitOnlyTheMissing, ErrorIsCurrent, Computing, Threads, Entry
<1>7. ASSUME NEW w \in Refreshers, Check(w)
      PROVE  ErrorIsCurrent'
  BY <1>7, CacheAssumption DEF Check, Goto, control, threads, TypeOK, KeysKnown, RequestsFitOnlyTheMissing, ErrorIsCurrent, Computing, Threads, Entry
<1>8. ASSUME NEW w \in Refreshers, Refresh(w)
      PROVE  ErrorIsCurrent'
  BY <1>8, CacheAssumption DEF Refresh, Compute, Goto, control, threads, TypeOK, KeysKnown, RequestsFitOnlyTheMissing, ErrorIsCurrent, Computing, Threads, Entry
<1>9. ASSUME NEW w \in Refreshers, FinishRefresh(w)
      PROVE  ErrorIsCurrent'
  BY <1>9, CacheAssumption DEF FinishRefresh, Store, Goto, control, threads, TypeOK, KeysKnown, RequestsFitOnlyTheMissing, ErrorIsCurrent, Computing, Threads, Entry
<1>10. ASSUME NEW w \in Refreshers, FailRefresh(w)
      PROVE  ErrorIsCurrent'
  <2>1. key[w] \in Keys /\ w \in Threads
    BY <1>10 DEF FailRefresh, KeysKnown, Threads
  <2>2. /\ lastFailed' = [lastFailed EXCEPT ![key[w]] = TRUE]
        /\ entries' = IF entries[key[w]] = NULL THEN entries
                      ELSE [entries EXCEPT ![key[w]].error = TRUE]
    BY <1>10 DEF FailRefresh
  <2>3. CASE entries[key[w]] = NULL
    BY <2>1, <2>2, <2>3 DEF TypeOK, ErrorIsCurrent
  <2>4. CASE entries[key[w]] # NULL
    <3>1. entries[key[w]] \in Entry
      BY <2>1, <2>4 DEF TypeOK
    <3>2. entries'[key[w]].error = TRUE
      BY <2>1, <2>2, <2>4, <3>1 DEF TypeOK, Entry
    <3>3. \A k \in Keys : k # key[w] => entries'[k] = entries[k]
      BY <2>1, <2>2, <2>4 DEF TypeOK
    <3>4. QED
      BY <2>1, <2>2, <2>4, <3>2, <3>3 DEF TypeOK, ErrorIsCurrent
  <2>5. QED
    BY <2>3, <2>4
<1>11. ASSUME NEW w \in Refreshers, Wake(w)
      PROVE  ErrorIsCurrent'
  BY <1>11, CacheAssumption DEF Wake, Goto, control, threads, TypeOK, KeysKnown, RequestsFitOnlyTheMissing, ErrorIsCurrent, Computing, Threads, Entry
<1>12. CASE Stop
  BY <1>12, CacheAssumption DEF Stop, control, threads, TypeOK, KeysKnown, RequestsFitOnlyTheMissing, ErrorIsCurrent, Computing, Threads, Entry
<1>13. CASE Join
  BY <1>13, CacheAssumption DEF Join, control, threads, TypeOK, KeysKnown, RequestsFitOnlyTheMissing, ErrorIsCurrent, Computing, Threads, Entry
<1>14. CASE UNCHANGED vars
  BY <1>14, CacheAssumption DEF vars, threads, control, TypeOK, KeysKnown, RequestsFitOnlyTheMissing, ErrorIsCurrent, Computing, Threads, Entry
<1>15. QED
  BY <1>1, <1>2, <1>3, <1>4, <1>5, <1>6, <1>7, <1>8, <1>9, <1>10, <1>11, <1>12, <1>13, <1>14 DEF Next, Get, Loop

(* The clock goes forward, and while a thread fits nobody replaces what it   *)
(* is going to replace.                                                      *)
LEMMA OrderStep ==
    ASSUME TypeOK, KeysKnown, HoldsLock, InOrder, [Next]_vars
    PROVE  InOrder'
<1>1. CASE Tick
  BY <1>1, CacheAssumption DEF Tick, control, threads, TypeOK, KeysKnown, HoldsLock, InOrder, Threads, Entry
<1>2. ASSUME NEW r \in Requests, NEW k \in Keys, Miss(r, k)
      PROVE  InOrder'
  BY <1>2, CacheAssumption DEF Miss, Goto, control, threads, TypeOK, KeysKnown, HoldsLock, InOrder, Threads, Entry
<1>3. ASSUME NEW r \in Requests, Acquire(r)
      PROVE  InOrder'
  <2>1. key[r] \in Keys /\ r \in Threads
    BY <1>3 DEF Acquire, KeysKnown, Threads
  <2>2. UNCHANGED <<entries, now>>
    BY <1>3 DEF Acquire
  <2>3. CASE began' = [began EXCEPT ![r] = now] /\ pc' = [pc EXCEPT ![r] = "compute"] /\ key' = key
    <3>1. \A k \in Keys : entries[k] # NULL => entries[k].asof \in Nat
      BY DEF TypeOK, Entry
    <3>2. /\ now \in Nat
          /\ \A t \in Threads : began'[t] = IF t = r THEN now ELSE began[t]
          /\ \A t \in Threads : t # r => pc'[t] = pc[t]
      BY <2>1, <2>3 DEF TypeOK
    <3>3. QED
      BY <2>1, <2>2, <2>3, <3>1, <3>2 DEF InOrder
  <2>4. CASE began' = began /\ pc'[r] # "compute" /\ (\A t \in Threads : t # r => pc'[t] = pc[t] /\ key'[t] = key[t])
    BY <2>1, <2>2, <2>4 DEF InOrder
  <2>5. QED
    BY <1>3, <2>1, <2>3, <2>4 DEF Acquire, Compute, Goto, TypeOK
<1>4. ASSUME NEW r \in Requests, FinishGet(r)
      PROVE  InOrder'
  BY <1>4, CacheAssumption DEF FinishGet, Store, Goto, control, threads, TypeOK, KeysKnown, HoldsLock, InOrder, Threads, Entry
<1>5. ASSUME NEW r \in Requests, FailGet(r)
      PROVE  InOrder'
  BY <1>5, CacheAssumption DEF FailGet, Goto, control, threads, TypeOK, KeysKnown, HoldsLock, InOrder, Threads, Entry
<1>6. ASSUME NEW w \in Refreshers, Start(w)
      PROVE  InOrder'
  BY <1>6, CacheAssumption DEF Start, Goto, control, threads, TypeOK, KeysKnown, HoldsLock, InOrder, Threads, Entry
<1>7. ASSUME NEW w \in Refreshers, Check(w)
      PROVE  InOrder'
  <2>1. UNCHANGED <<entries, now, began>> /\ w \in Threads
    BY <1>7 DEF Check, Threads
  <2>2. /\ pc'[w] # "compute"
        /\ \A t \in Threads : t # w => pc'[t] = pc[t] /\ key'[t] = key[t]
    BY <1>7, <2>1 DEF Check, Goto, TypeOK
  <2>3. QED
    BY <2>1, <2>2 DEF InOrder
<1>8. ASSUME NEW w \in Refreshers, Refresh(w)
      PROVE  InOrder'
  <2>1. key[w] \in Keys /\ w \in Threads
    BY <1>8 DEF Refresh, KeysKnown, Threads
  <2>2. UNCHANGED <<entries, now>>
    BY <1>8 DEF Refresh
  <2>3. CASE began' = [began EXCEPT ![w] = now] /\ pc' = [pc EXCEPT ![w] = "compute"] /\ key' = key
    <3>1. \A k \in Keys : entries[k] # NULL => entries[k].asof \in Nat
      BY DEF TypeOK, Entry
    <3>2. /\ now \in Nat
          /\ \A t \in Threads : began'[t] = IF t = w THEN now ELSE began[t]
          /\ \A t \in Threads : t # w => pc'[t] = pc[t]
      BY <2>1, <2>3 DEF TypeOK
    <3>3. QED
      BY <2>1, <2>2, <2>3, <3>1, <3>2 DEF InOrder
  <2>4. CASE began' = began /\ pc'[w] # "compute" /\ (\A t \in Threads : t # w => pc'[t] = pc[t] /\ key'[t] = key[t])
    BY <2>1, <2>2, <2>4 DEF InOrder
  <2>5. QED
    BY <1>8, <2>1, <2>3, <2>4 DEF Refresh, Compute, Goto, TypeOK
<1>9. ASSUME NEW w \in Refreshers, FinishRefresh(w)
      PROVE  InOrder'
  BY <1>9, CacheAssumption DEF FinishRefresh, Store, Goto, control, threads, TypeOK, KeysKnown, HoldsLock, InOrder, Threads, Entry
<1>10. ASSUME NEW w \in Refreshers, FailRefresh(w)
      PROVE  InOrder'
  BY <1>10, CacheAssumption DEF FailRefresh, Goto, control, threads, TypeOK, KeysKnown, HoldsLock, InOrder, Threads, Entry
<1>11. ASSUME NEW w \in Refreshers, Wake(w)
      PROVE  InOrder'
  BY <1>11, CacheAssumption DEF Wake, Goto, control, threads, TypeOK, KeysKnown, HoldsLock, InOrder, Threads, Entry
<1>12. CASE Stop
  BY <1>12, CacheAssumption DEF Stop, control, threads, TypeOK, KeysKnown, HoldsLock, InOrder, Threads, Entry
<1>13. CASE Join
  BY <1>13, CacheAssumption DEF Join, control, threads, TypeOK, KeysKnown, HoldsLock, InOrder, Threads, Entry
<1>14. CASE UNCHANGED vars
  BY <1>14, CacheAssumption DEF vars, threads, control, TypeOK, KeysKnown, HoldsLock, InOrder, Threads, Entry
<1>15. QED
  BY <1>1, <1>2, <1>3, <1>4, <1>5, <1>6, <1>7, <1>8, <1>9, <1>10, <1>11, <1>12, <1>13, <1>14 DEF Next, Get, Loop

-----------------------------------------------------------------------------
LEMMA InitInductive == Init => Inductive
<1> SUFFICES ASSUME Init PROVE Inductive
  OBVIOUS
<1>1. TypeOK
  <2>1. <<>> \in Seq(Keys)
    OBVIOUS
  <2>2. QED
    BY <2>1 DEF Init, TypeOK, Threads
<1>2. KeysKnown /\ HoldsLock /\ RequestsFitOnlyTheMissing /\ ErrorIsCurrent
  BY DEF Init, KeysKnown, HoldsLock, RequestsFitOnlyTheMissing, Computing, ErrorIsCurrent
<1>3. InOrder
  BY DEF Init, InOrder
<1>4. QED
  BY <1>1, <1>2, <1>3 DEF Inductive

(* The conjuncts of Inductive hold together in every reachable state.        *)
THEOREM InductiveHolds == Spec => []Inductive
<1>1. Inductive /\ [Next]_vars => Inductive'
  BY TypeStep, LockStep, MissingStep, ErrorStep, OrderStep DEF Inductive
<1>2. QED
  BY InitInductive, <1>1, PTL DEF Spec

(* cache.py's state keeps its shape, whatever the threads do.                *)
THEOREM TypeCorrect == Spec => []TypeOK
BY InductiveHolds, PTL DEF Inductive

(* Never two threads on one chain's fit: two that fit it would both hold its *)
(* lock (get, refresh, and a loop that outlived stop()).                     *)
THEOREM FitsAreSingle == Spec => []SingleFlight
<1>1. Inductive => SingleFlight
  BY DEF Inductive, HoldsLock, SingleFlight, Computing
<1>2. QED
  BY InductiveHolds, <1>1, PTL

(* get() fits a key only while there is no value for it.                     *)
THEOREM RequestsSpareTheFit == Spec => []RequestsFitOnlyTheMissing
BY InductiveHolds, PTL DEF Inductive

(* What /health says of the last fit is true of the last fit.                *)
THEOREM ErrorsAreCurrent == Spec => []ErrorIsCurrent
BY InductiveHolds, PTL DEF Inductive

(* No step drops a value or puts an older look at the market in its place.   *)
LEMMA NewerStep ==
    ASSUME Inductive, [Next]_vars,
           NEW k \in Keys, entries[k] # NULL
    PROVE  /\ entries'[k] # NULL
           /\ entries'[k].asof >= entries[k].asof
           /\ entries'[k].computed_at >= entries[k].computed_at
<1> DEFINE Newer == /\ entries'[k] # NULL
                   /\ entries'[k].asof >= entries[k].asof
                   /\ entries'[k].computed_at >= entries[k].computed_at
<1>1. entries[k] \in Entry
  BY DEF Inductive, TypeOK
<1>2. CASE UNCHANGED entries
  BY <1>1, <1>2 DEF Entry
<1>3. ASSUME NEW t \in Threads, pc[t] = "compute", Store(t)
      PROVE  Newer
  <2>1. CASE key[t] # k
    <3>1. entries'[k] = entries[k]
      BY <1>3, <2>1 DEF Store, Inductive, TypeOK
    <3>2. QED
      BY <1>1, <3>1 DEF Entry
  <2>2. CASE key[t] = k
    <3>1. entries'[k] = [asof |-> began[t], computed_at |-> now, error |-> FALSE]
      BY <1>3, <2>2 DEF Store, Inductive, TypeOK
    <3>2. entries[k].asof <= began[t] /\ entries[k].computed_at <= now
      BY <1>3, <2>2 DEF Inductive, InOrder
    <3>3. began[t] \in Nat /\ now \in Nat
      BY DEF Inductive, TypeOK
    <3>4. entries'[k] # NULL
      <4>1. [asof |-> began[t], computed_at |-> now, error |-> FALSE]
              \in [asof : Nat, computed_at : Nat, error : BOOLEAN]
        BY <3>3
      <4>2. QED
        BY <3>1, <4>1, CacheAssumption
    <3>5. QED
      BY <1>1, <3>1, <3>2, <3>3, <3>4 DEF Entry
  <2>3. QED
    BY <2>1, <2>2
<1>4. ASSUME NEW w \in Refreshers, FailRefresh(w)
      PROVE  Newer
  <2>1. key[w] \in Keys
    BY <1>4 DEF FailRefresh, Inductive, KeysKnown, Threads
  <2>2. CASE entries[key[w]] = NULL
    BY <1>2, <1>4, <2>2 DEF FailRefresh
  <2>3. CASE key[w] # k
    <3>1. entries'[k] = entries[k]
      BY <1>4, <2>1, <2>3 DEF FailRefresh, Inductive, TypeOK
    <3>2. QED
      BY <1>1, <3>1 DEF Entry
  <2>4. CASE key[w] = k
    <3>1. entries' = [entries EXCEPT ![k].error = TRUE]
      BY <1>4, <2>4 DEF FailRefresh
    <3>2. entries'[k] = [entries[k] EXCEPT !.error = TRUE]
      BY <3>1 DEF Inductive, TypeOK
    <3>3. /\ entries'[k].asof = entries[k].asof
          /\ entries'[k].computed_at = entries[k].computed_at
          /\ entries'[k] \in [asof : Nat, computed_at : Nat, error : BOOLEAN]
      BY <1>1, <3>2 DEF Entry
    <3>4. QED
      BY <1>1, <3>3, CacheAssumption DEF Entry
  <2>5. QED
    BY <2>2, <2>3, <2>4
<1>5. ASSUME Next PROVE Newer
  BY <1>2, <1>3, <1>4, <1>5
     DEF Next, Get, Loop, Tick, Miss, Acquire, FinishGet, FailGet, Start, Check, Refresh,
         FinishRefresh, Wake, Stop, Join, Threads
<1>6. QED
  BY <1>2, <1>5 DEF vars

(* A value that was served is never lost and never replaced by an older one, *)
(* whichever fits raise and however many loops run.                          *)
THEOREM ValuesGetNewer == Spec => ValuesOnlyGetNewer
<1>1. Inductive /\ [Next]_vars =>
        [\A k \in Keys :
            entries[k] # NULL => /\ entries'[k] # NULL
                                 /\ entries'[k].asof >= entries[k].asof
                                 /\ entries'[k].computed_at >= entries[k].computed_at]_vars
  BY NewerStep
<1>2. QED
  BY InductiveHolds, <1>1, PTL DEF Spec, ValuesOnlyGetNewer

=============================================================================
