------------------------- MODULE ReplayWindowProofs -------------------------
(***************************************************************************)
(* What the ledger and the signature window promise together, for every    *)
(* set of event ids, every cap and every retention that outlives a         *)
(* signature and the time a request takes to reach the ledger.             *)
(***************************************************************************)
EXTENDS ReplayWindow, FiniteSetTheorems, TLAPS

(* The cap takes nothing from a set of ids that fits under it, and leaves a  *)
(* set that fits of the newest ids otherwise.                                *)
LEMMA NewestKeeps ==
    ASSUME NEW l, NEW ids, NEW last, NEW keep \in Newest(l, ids, last)
    PROVE  /\ keep \subseteq ids
           /\ Cardinality(keep) <= MaxEntries
           /\ Cardinality(ids) <= MaxEntries => keep = ids
           /\ keep # ids => /\ Cardinality(keep) = MaxEntries
                            /\ \A k \in keep, d \in ids \ keep :
                                  l[d] < l[k] \/ (l[d] = l[k] /\ d # last)
<1>1. CASE Cardinality(ids) <= MaxEntries
  BY <1>1 DEF Newest
<1>2. CASE ~(Cardinality(ids) <= MaxEntries)
  <2>1. /\ keep \in SUBSET ids
        /\ Cardinality(keep) = MaxEntries
        /\ \A k \in keep, d \in ids \ keep : l[d] < l[k] \/ (l[d] = l[k] /\ d # last)
    BY <1>2 DEF Newest
  <2> QED
    BY <1>2, <2>1, LedgerAssumption
<1> QED
  BY <1>1, <1>2

(* A ledger that fits under the cap is pruned by age alone. *)
LEMMA BoundedIsPrunedByAge ==
    ASSUME NEW l, NEW t, Cardinality(Held(l)) <= MaxEntries, NEW p \in Prune(l, t, NULL)
    PROVE  p = Only(l, Fresh(l, t))
<1>1. PICK keep \in Newest(l, Fresh(l, t), NULL) : p = Only(l, keep)
  BY DEF Prune
<1>2. Fresh(l, t) \subseteq Held(l) /\ IsFiniteSet(Held(l))
  <2>1. Held(l) \subseteq EventIds
    BY DEF Held
  <2> QED
    BY <2>1, LedgerAssumption, FS_Subset DEF Fresh
<1>3. Cardinality(Fresh(l, t)) <= MaxEntries
  <2>1. /\ Cardinality(Fresh(l, t)) <= Cardinality(Held(l))
        /\ Cardinality(Fresh(l, t)) \in Nat /\ Cardinality(Held(l)) \in Nat
    BY <1>2, FS_Subset, FS_CardinalityType
  <2> QED
    BY <2>1, LedgerAssumption
<1> QED
  BY <1>1, <1>3, NewestKeeps

(* The ledger an id is marked in, before the cap is applied. *)
Marked(l, e, t) ==
    [x \in EventIds |-> IF x = e THEN t ELSE IF x \in Fresh(l, t) THEN l[x] ELSE NULL]

(* The first sighting of an id: it was not held, or too old to be.  Of the   *)
(* ids young enough and itself, the newest that fit under the cap remain.    *)
LEMMA FirstSighting ==
    ASSUME NEW l \in Ledger, Cardinality(Held(l)) <= MaxEntries,
           NEW e \in EventIds, NEW t \in Nat,
           NEW r \in CheckAndMark(l, e, t), r.first
    PROVE  /\ l[e] # NULL => l[e] < t - Retention
           /\ \E keep \in Newest(Marked(l, e, t), Held(Marked(l, e, t)), e) :
                 r.ledger = Only(Marked(l, e, t), keep)
<1> DEFINE p == Only(l, Fresh(l, t))
           q == [p EXCEPT ![e] = t]
<1>1. PICK s \in Prune(l, t, NULL) :
          r \in IF s[e] # NULL THEN {[first |-> FALSE, ledger |-> l]}
                ELSE {[first |-> TRUE, ledger |-> z] : z \in Prune([s EXCEPT ![e] = t], t, e)}
  BY DEF CheckAndMark
<1>2. s = p
  BY BoundedIsPrunedByAge
<1>3. p[e] = NULL
  BY <1>1, <1>2
<1>4. PICK z \in Prune(q, t, e) : r = [first |-> TRUE, ledger |-> z]
  BY <1>1, <1>2, <1>3
<1>5. q = Marked(l, e, t)
  BY DEF Only, Marked
<1>6. Fresh(q, t) = Held(q)
  <2>1. t >= t - Retention
    BY LedgerAssumption
  <2> HIDE DEF q
  <2>2. ASSUME NEW x \in EventIds, q[x] # NULL PROVE q[x] >= t - Retention
    <3>1. CASE x = e
      BY <1>5, <2>1, <3>1 DEF Marked
    <3>2. CASE x # e
      <4>1. q[x] = l[x] /\ x \in Fresh(l, t)
        BY <1>5, <2>2, <3>2 DEF Marked
      <4> QED
        BY <4>1 DEF Fresh
    <3> QED
      BY <3>1, <3>2
  <2> QED
    BY <2>2 DEF Fresh, Held
<1>7. PICK keep \in Newest(q, Fresh(q, t), e) : z = Only(q, keep)
  BY DEF Prune
<1>8. l[e] # NULL => l[e] < t - Retention
  <2>1. l[e] # NULL => ~(l[e] >= t - Retention)
    BY <1>3 DEF Only, Fresh, Held
  <2> QED
    BY <2>1, LedgerAssumption DEF Ledger
<1> QED
  BY <1>4, <1>5, <1>6, <1>7, <1>8

(* No call leaves more ids than the cap. *)
LEMMA MarkIsCapped ==
    ASSUME NEW l, NEW e, NEW t, NEW r \in CheckAndMark(l, e, t), r.first
    PROVE  Cardinality(Held(r.ledger)) <= MaxEntries
<1>1. PICK p \in Prune(l, t, NULL) :
          r \in IF p[e] # NULL THEN {[first |-> FALSE, ledger |-> l]}
                ELSE {[first |-> TRUE, ledger |-> q] : q \in Prune([p EXCEPT ![e] = t], t, e)}
  BY DEF CheckAndMark
<1>2. p[e] = NULL
  BY <1>1
<1>3. PICK q \in Prune([p EXCEPT ![e] = t], t, e) : r = [first |-> TRUE, ledger |-> q]
  BY <1>1, <1>2
<1> DEFINE w == [p EXCEPT ![e] = t]
<1>4. PICK keep \in Newest(w, Fresh(w, t), e) : q = Only(w, keep)
  BY DEF Prune
<1>5. keep \subseteq Fresh(w, t) /\ Cardinality(keep) <= MaxEntries
  BY NewestKeeps
<1>6. Held(q) = keep
  BY <1>4, <1>5 DEF Held, Only, Fresh
<1> QED
  BY <1>3, <1>5, <1>6

(* The ledger file never holds more ids than the cap, whatever the clock,    *)
(* the retention and the number of events, and whatever a call read.         *)
THEOREM CapHolds == Spec => []LedgerIsBounded
<1>1. Init => LedgerIsBounded
  <2>1. Held(Empty) = {}
    BY DEF Held, Empty
  <2> QED
    BY <2>1, FS_EmptySet, LedgerAssumption DEF Init, LedgerIsBounded
<1>2. LedgerIsBounded /\ [Next]_vars => LedgerIsBounded'
  <2> SUFFICES ASSUME LedgerIsBounded, [Next]_vars PROVE LedgerIsBounded'
    OBVIOUS
  <2>1. CASE \E c \in checked : \E read \in Loaded(ledger) : Accept(c, read)
    <3>1. PICK c \in checked, read \in Loaded(ledger) : Accept(c, read)
      BY <2>1
    <3>2. PICK r \in CheckAndMark(read, c.id, now) : r.first /\ ledger' = r.ledger
      BY <3>1 DEF Accept
    <3> QED
      BY <3>2, MarkIsCapped DEF LedgerIsBounded
  <2>2. CASE ledger' = ledger
    BY <2>2 DEF LedgerIsBounded
  <2> QED
    BY <2>1, <2>2 DEF Next, Tick, Sign, Verify, TurnAway, Lose, vars
<1> QED
  BY <1>1, <1>2, PTL DEF Spec

-----------------------------------------------------------------------------
(* What the clocks allow a request, and what the ledger remembers.           *)
InWindow(at, ts) == at \div Second - ts <= Window /\ ts - at \div Second <= Window

CheckedInTime ==
    \A c \in checked :
        /\ [id |-> c.id, ts |-> c.ts] \in signed
        /\ c.at <= now /\ now <= c.at + Lag
        /\ InWindow(c.at, c.ts)

Remembers ==
    \A e \in EventIds :
        /\ applied[e] # NULL => applied[e] <= now
        /\ ledger[e] # NULL => ledger[e] = applied[e]
        /\ applied[e] # NULL /\ now <= applied[e] + Retention
              => ledger[e] # NULL \/ Excused(e)

AppliedInWindow ==
    \A d \in accepted : applied[d.id] # NULL /\ (d.ts - Window) * Second <= applied[d.id]

IInv == TypeOK /\ CheckedInTime /\ Remembers /\ AppliedInWindow /\ LedgerIsBounded

LEMMA SecondBounds ==
    ASSUME NEW n \in Nat
    PROVE  /\ n \div Second \in Nat
           /\ (n \div Second) * Second <= n
           /\ n < (n \div Second) * Second + Second
  BY WindowAssumption

LEMMA InSeconds ==
    ASSUME NEW a \in Int, NEW b \in Int, a <= b
    PROVE  a * Second <= b * Second
  BY WindowAssumption

LEMMA InitIInv == Init => IInv
<1> SUFFICES ASSUME Init PROVE IInv
  OBVIOUS
<1> USE LedgerAssumption, WindowAssumption DEF Init
<1>1. TypeOK /\ CheckedInTime /\ Remembers /\ AppliedInWindow
  BY DEF TypeOK, CheckedInTime, Remembers, AppliedInWindow, Ledger, Empty, Delivery
<1>2. LedgerIsBounded
  <2>1. Held(Empty) = {}
    BY DEF Held, Empty
  <2> QED
    BY <2>1, FS_EmptySet DEF LedgerIsBounded
<1> QED
  BY <1>1, <1>2 DEF IInv

LEMMA TickIInv == IInv /\ Tick => IInv'
<1> SUFFICES ASSUME IInv, Tick PROVE IInv'
  OBVIOUS
<1> USE LedgerAssumption, WindowAssumption DEF Tick, IInv
<1>1. TypeOK'
  BY DEF TypeOK
<1>2. CheckedInTime'
  <2> SUFFICES ASSUME NEW c \in checked
               PROVE  /\ [id |-> c.id, ts |-> c.ts] \in signed
                      /\ c.at <= now' /\ now' <= c.at + Lag
                      /\ InWindow(c.at, c.ts)
    BY DEF CheckedInTime
  <2>1. c.at \in Nat /\ now \in Nat
    BY DEF TypeOK
  <2> QED
    BY <2>1 DEF CheckedInTime
<1>3. Remembers'
  BY DEF TypeOK, Remembers, Ledger, Excused, Crowded
<1>4. AppliedInWindow' /\ LedgerIsBounded'
  BY DEF AppliedInWindow, LedgerIsBounded
<1> QED
  BY <1>1, <1>2, <1>3, <1>4

LEMMA SignIInv ==
    ASSUME NEW e \in EventIds, NEW ts \in Clock - Skew .. Clock + Skew, IInv, Sign(e, ts)
    PROVE  IInv'
<1> USE LedgerAssumption, WindowAssumption DEF Sign, IInv
<1>1. ts \in Int
  <2>1. Clock \in Nat
    BY SecondBounds DEF Clock, TypeOK
  <2> QED
    BY <2>1
<1>2. TypeOK'
  BY <1>1 DEF TypeOK, Delivery
<1>3. CheckedInTime' /\ Remembers' /\ AppliedInWindow' /\ LedgerIsBounded'
  BY DEF CheckedInTime, Remembers, AppliedInWindow, LedgerIsBounded, Excused, Crowded
<1> QED
  BY <1>2, <1>3

LEMMA VerifyIInv ==
    ASSUME NEW d \in signed, IInv, Verify(d)
    PROVE  IInv'
<1> USE LedgerAssumption, WindowAssumption DEF Verify, IInv
<1>1. d = [id |-> d.id, ts |-> d.ts] /\ d.id \in EventIds /\ d.ts \in Int /\ now \in Nat
  BY DEF TypeOK, Delivery
<1>2. TypeOK'
  BY <1>1 DEF TypeOK
<1>3. CheckedInTime'
  <2>1. InWindow(now, d.ts)
    BY DEF InWindow, Timely, Clock
  <2>2. checked' = checked \cup {[id |-> d.id, ts |-> d.ts, at |-> now]}
    OBVIOUS
  <2>3. \A c \in checked' : c \in checked \/ c = [id |-> d.id, ts |-> d.ts, at |-> now]
    BY <2>2
  <2>4. now <= now /\ now <= now + Lag
    BY <1>1
  <2>5. signed' = signed /\ now' = now
    OBVIOUS
  <2> SUFFICES ASSUME NEW c \in checked'
               PROVE  /\ [id |-> c.id, ts |-> c.ts] \in signed
                      /\ c.at <= now /\ now <= c.at + Lag
                      /\ InWindow(c.at, c.ts)
    BY <2>5 DEF CheckedInTime
  <2>6. CASE c \in checked
    BY <2>6 DEF CheckedInTime
  <2>7. CASE c = [id |-> d.id, ts |-> d.ts, at |-> now]
    <3>1. c.id = d.id /\ c.ts = d.ts /\ c.at = now
      BY <2>7
    <3> QED
      BY <1>1, <2>1, <2>4, <3>1
  <2> QED
    BY <2>3, <2>6, <2>7
<1>4. Remembers' /\ AppliedInWindow' /\ LedgerIsBounded'
  BY DEF Remembers, AppliedInWindow, LedgerIsBounded, Excused, Crowded
<1> QED
  BY <1>2, <1>3, <1>4

(* A request that goes without being processed leaves only its own absence.  *)
LEMMA LeaveIInv ==
    ASSUME NEW c \in checked, IInv, TurnAway(c) \/ Lose(c)
    PROVE  IInv'
<1> USE DEF TurnAway, Lose, IInv
<1>1. TypeOK'
  BY DEF TypeOK
<1>2. CheckedInTime'
  BY DEF CheckedInTime
<1>3. Remembers' /\ AppliedInWindow' /\ LedgerIsBounded'
  BY DEF Remembers, AppliedInWindow, LedgerIsBounded, Excused, Crowded
<1> QED
  BY <1>1, <1>2, <1>3

LEMMA AcceptIInv ==
    ASSUME NEW c \in checked, NEW read \in Loaded(ledger), IInv, Accept(c, read)
    PROVE  IInv'
<1> USE LedgerAssumption, WindowAssumption DEF IInv
<1>1. /\ c.id \in EventIds /\ c.ts \in Int /\ c.at \in Nat /\ now \in Nat
      /\ ledger \in Ledger /\ applied \in Ledger /\ forgotten \subseteq EventIds
      /\ [id |-> c.id, ts |-> c.ts] \in signed
  BY DEF TypeOK, CheckedInTime
<1>2. read \in Ledger /\ Cardinality(Held(read)) <= MaxEntries
  <2>1. Held(Empty) = {} /\ Empty \in Ledger
    BY DEF Held, Empty, Ledger
  <2> QED
    BY <1>1, <2>1, FS_EmptySet DEF Loaded, LedgerIsBounded
<1>3. PICK r \in CheckAndMark(read, c.id, now) : r.first /\ ledger' = r.ledger
  BY DEF Accept
<1> DEFINE m == Marked(read, c.id, now)
<1>4. PICK keep \in Newest(m, Held(m), c.id) : ledger' = Only(m, keep)
  BY <1>1, <1>2, <1>3, FirstSighting
<1>5. /\ applied' = [applied EXCEPT ![c.id] = now]
      /\ accepted' = accepted \cup {[id |-> c.id, ts |-> c.ts]}
      /\ checked' = checked \ {c}
      /\ forgotten' = (IF read = ledger THEN forgotten ELSE Held(applied)) \ {c.id}
      /\ now' = now /\ signed' = signed
      /\ unreadable' \in 0 .. MaxUnreadable
  BY DEF Accept, TypeOK
<1>6. \A x \in EventIds : read[x] # NULL => read[x] = applied[x] /\ applied[x] <= now
  <2>1. \A x \in EventIds : Empty[x] = NULL
    BY DEF Empty
  <2> QED
    BY <2>1 DEF Loaded, Remembers
<1>7. m \in Ledger /\ \A x \in EventIds : m[x] # NULL => m[x] = applied'[x] /\ m[x] <= now
  BY <1>1, <1>2, <1>5, <1>6 DEF Marked, Fresh, Held, Ledger
<1>8. ledger' \in Ledger /\ \A x \in EventIds : ledger'[x] # NULL => ledger'[x] = applied'[x]
  BY <1>4, <1>7 DEF Only, Ledger
<1>9. applied' \in Ledger /\ \A x \in EventIds : applied'[x] # NULL => applied'[x] <= now
  BY <1>1, <1>5 DEF Remembers, Ledger
<1>10. /\ keep \subseteq Held(m)
       /\ keep # Held(m) => /\ Cardinality(keep) = MaxEntries
                            /\ \A k \in keep, d \in Held(m) \ keep :
                                  m[d] < m[k] \/ (m[d] = m[k] /\ d # c.id)
  BY NewestKeeps
<1>11. TypeOK'
  BY <1>1, <1>5, <1>8, <1>9 DEF TypeOK, Held
<1>12. CheckedInTime'
  BY <1>5 DEF CheckedInTime
<1>13. \A x \in Held(m) \ keep : Crowded(x)'
  <2> SUFFICES ASSUME NEW x \in Held(m) \ keep PROVE Crowded(x)'
    OBVIOUS
  <2> DEFINE crowd == {y \in EventIds \ {x} : applied'[y] # NULL /\ applied'[y] >= applied'[x]}
  <2>1. keep \subseteq crowd
    <3> SUFFICES ASSUME NEW k \in keep PROVE k \in crowd
      OBVIOUS
    <3>1. /\ k \in EventIds /\ x \in EventIds /\ k # x
          /\ m[k] # NULL /\ m[x] # NULL
      BY <1>10 DEF Held
    <3>2. m[x] <= m[k]
      BY <1>7, <1>10, <3>1 DEF Ledger
    <3> QED
      BY <1>7, <3>1, <3>2
  <2>2. IsFiniteSet(crowd)
    BY FS_Subset
  <2>3. Cardinality(keep) <= Cardinality(crowd) /\ Cardinality(keep) = MaxEntries
    BY <1>10, <2>1, <2>2, FS_Subset
  <2> QED
    BY <2>3 DEF Crowded
<1>14. ASSUME NEW x \in EventIds, x # c.id, Crowded(x), applied[x] # NULL
       PROVE  Crowded(x)'
  <2> DEFINE before == {y \in EventIds \ {x} : applied[y] # NULL /\ applied[y] >= applied[x]}
             after == {y \in EventIds \ {x} : applied'[y] # NULL /\ applied'[y] >= applied'[x]}
  <2>1. before \subseteq after
    <3> SUFFICES ASSUME NEW y \in before PROVE y \in after
      OBVIOUS
    <3>1. applied'[x] = applied[x] /\ applied[x] <= now
      BY <1>1, <1>5, <1>14 DEF Remembers, Ledger
    <3>2. applied'[y] = IF y = c.id THEN now ELSE applied[y]
      BY <1>1, <1>5 DEF Ledger
    <3> QED
      BY <1>1, <3>1, <3>2
  <2>2. IsFiniteSet(after) /\ IsFiniteSet(before)
    BY FS_Subset
  <2>3. /\ Cardinality(before) <= Cardinality(after)
        /\ Cardinality(before) \in Nat /\ Cardinality(after) \in Nat
    BY <2>1, <2>2, FS_Subset, FS_CardinalityType
  <2>4. MaxEntries <= Cardinality(before)
    BY <1>14 DEF Crowded
  <2> QED
    BY <2>3, <2>4 DEF Crowded
<1>15. Remembers'
  <2> SUFFICES ASSUME NEW x \in EventIds, applied'[x] # NULL, now <= applied'[x] + Retention,
                      ledger'[x] = NULL
               PROVE  Excused(x)'
    BY <1>5, <1>8, <1>9 DEF Remembers
  <2>1. CASE x \in Held(m)
    <3>1. x \notin keep
      BY <1>4, <2>1 DEF Only, Held
    <3> QED
      BY <1>13, <2>1, <3>1 DEF Excused
  <2>2. CASE x \notin Held(m)
    <3>1. x # c.id
      BY <1>1, <2>2 DEF Held, Marked
    <3>2. applied'[x] = applied[x] /\ applied[x] \in Nat
      BY <1>1, <1>5, <3>1 DEF Ledger
    <3>3. ~(x \in Fresh(read, now))
      <4>1. x \in Fresh(read, now) => m[x] = read[x] /\ read[x] # NULL
        BY <3>1 DEF Marked, Fresh, Held
      <4> QED
        BY <2>2, <4>1 DEF Held
    <3>4. read[x] = NULL
      <4>1. read[x] # NULL => read[x] = applied[x] /\ applied[x] >= now - Retention
        BY <1>1, <1>6, <3>2
      <4> QED
        BY <3>3, <4>1 DEF Fresh, Held
    <3>5. CASE read = ledger
      <4>1. Crowded(x) \/ x \in forgotten
        BY <3>2, <3>4, <3>5 DEF Remembers, Excused
      <4>2. x \in forgotten => x \in forgotten'
        BY <1>5, <3>1, <3>5
      <4> QED
        BY <1>14, <3>1, <3>2, <4>1, <4>2 DEF Excused
    <3>6. CASE read # ledger
      BY <1>5, <3>1, <3>2, <3>6 DEF Excused, Held
    <3> QED
      BY <3>5, <3>6
  <2> QED
    BY <2>1, <2>2
<1>16. AppliedInWindow'
  <2> SUFFICES ASSUME NEW d \in accepted'
               PROVE  applied'[d.id] # NULL /\ (d.ts - Window) * Second <= applied'[d.id]
    BY DEF AppliedInWindow
  <2>1. d.id \in EventIds /\ d.ts \in Int
    BY <1>1, <1>5 DEF TypeOK, Delivery
  <2>2. CASE d \in accepted
    <3>1. /\ applied[d.id] # NULL /\ (d.ts - Window) * Second <= applied[d.id]
          /\ applied[d.id] <= now /\ applied[d.id] \in Nat
      BY <1>1, <2>1, <2>2 DEF AppliedInWindow, Remembers, Ledger
    <3>2. applied'[d.id] \in {now, applied[d.id]}
      BY <1>1, <1>5, <2>1 DEF Ledger
    <3>3. (d.ts - Window) * Second \in Int
      BY <2>1
    <3> HIDE DEF IInv
    <3> QED
      BY <1>1, <3>1, <3>2, <3>3
  <2>3. CASE d = [id |-> c.id, ts |-> c.ts]
    <3>1. applied'[d.id] = now
      BY <1>1, <1>5, <2>3 DEF Ledger
    <3>2. d.ts - Window <= c.at \div Second /\ c.at <= now
      BY <1>1, <2>3, SecondBounds DEF CheckedInTime, InWindow
    <3>3. (d.ts - Window) * Second <= (c.at \div Second) * Second
      BY <1>1, <2>1, <3>2, SecondBounds, InSeconds
    <3>4. (c.at \div Second) * Second <= c.at
      BY <1>1, SecondBounds
    <3>5. (d.ts - Window) * Second \in Int /\ (c.at \div Second) * Second \in Int
      BY <1>1, <2>1, SecondBounds
    <3> QED
      BY <1>1, <3>1, <3>2, <3>3, <3>4, <3>5
  <2> QED
    BY <1>5, <2>2, <2>3
<1>17. LedgerIsBounded'
  BY <1>3, MarkIsCapped DEF LedgerIsBounded
<1> QED
  BY <1>11, <1>12, <1>15, <1>16, <1>17

LEMMA StepIInv == IInv /\ [Next]_vars => IInv'
<1> SUFFICES ASSUME IInv, [Next]_vars PROVE IInv'
  OBVIOUS
<1>1. CASE Tick
  BY <1>1, TickIInv
<1>2. CASE \E e \in EventIds : \E ts \in Clock - Skew .. Clock + Skew : Sign(e, ts)
  BY <1>2, SignIInv
<1>3. CASE \E d \in signed : Verify(d)
  BY <1>3, VerifyIInv
<1>4. CASE \E c \in checked : \E read \in Loaded(ledger) : Accept(c, read)
  BY <1>4, AcceptIInv
<1>5. CASE \E c \in checked : TurnAway(c) \/ Lose(c)
  BY <1>5, LeaveIInv
<1>6. CASE UNCHANGED vars
  BY <1>6 DEF vars, IInv, TypeOK, CheckedInTime, Remembers, AppliedInWindow,
              LedgerIsBounded, Excused, Crowded
<1> QED
  BY <1>1, <1>2, <1>3, <1>4, <1>5, <1>6 DEF Next

LEMMA Always == Spec => []IInv
  BY InitIInv, StepIInv, PTL DEF Spec

-----------------------------------------------------------------------------
(* An id processed within the retention and not excused is found.            *)
LEMMA HeldIsTurnedAway ==
    ASSUME IInv, NEW c \in checked, Accept(c, ledger), applied[c.id] # NULL
    PROVE  now > applied[c.id] + Retention \/ Excused(c.id)
<1>1. /\ c.id \in EventIds /\ now \in Nat /\ ledger \in Ledger /\ applied[c.id] \in Nat
      /\ Cardinality(Held(ledger)) <= MaxEntries
  BY DEF IInv, TypeOK, Ledger, LedgerIsBounded
<1>2. PICK r \in CheckAndMark(ledger, c.id, now) : r.first
  BY DEF Accept
<1>3. ledger[c.id] # NULL => ledger[c.id] < now - Retention
  BY <1>1, <1>2, FirstSighting
<1> QED
  BY <1>1, <1>3, LedgerAssumption DEF IInv, Remembers

LEMMA CaptureStep ==
    ASSUME IInv, NEW c \in checked, [id |-> c.id, ts |-> c.ts] \in accepted, Accept(c, ledger)
    PROVE  Excused(c.id)
<1> DEFINE d == [id |-> c.id, ts |-> c.ts]
           sec == c.at \div Second
<1>1. /\ c.id \in EventIds /\ c.ts \in Int /\ c.at \in Nat /\ now \in Nat
      /\ applied[c.id] # NULL /\ applied[c.id] \in Nat
      /\ (c.ts - Window) * Second <= applied[c.id]
  BY DEF IInv, TypeOK, AppliedInWindow, Ledger
<1>2. now <= c.at + Lag /\ sec - c.ts <= Window
  BY DEF IInv, CheckedInTime, InWindow
<1>3. sec \in Nat /\ c.at < sec * Second + Second
  BY <1>1, SecondBounds
<1> HIDE DEF sec
<1>4. sec <= (c.ts - Window) + 2 * Window
  BY <1>1, <1>2, <1>3, WindowAssumption
<1>5. sec * Second <= ((c.ts - Window) + 2 * Window) * Second
  BY <1>1, <1>3, <1>4, WindowAssumption, InSeconds
<1>6. ((c.ts - Window) + 2 * Window) * Second = (c.ts - Window) * Second + (2 * Window) * Second
  BY <1>1, WindowAssumption
<1> DEFINE from == (c.ts - Window) * Second
           long == (2 * Window) * Second
           good == (2 * Window + 1) * Second
<1>7. from \in Int /\ long \in Int /\ sec * Second \in Int /\ Second \in Nat /\ Lag \in Nat
  BY <1>1, <1>3, WindowAssumption
<1>8. /\ from <= applied[c.id] /\ sec * Second <= from + long
      /\ good = long + Second /\ good - 1 + Lag <= Retention
  BY <1>1, <1>5, <1>6, WindowAssumption, RetentionCovers
<1> HIDE DEF from, long, good
<1>9. now <= applied[c.id] + Retention
  BY <1>1, <1>2, <1>3, <1>7, <1>8, LedgerAssumption
<1>10. now > applied[c.id] + Retention \/ Excused(c.id)
  BY <1>1, HeldIsTurnedAway
<1> QED
  BY <1>1, <1>9, <1>10, LedgerAssumption

(* No signed delivery is acted on twice, however often, whenever and in      *)
(* however many requests it is sent: while its signature is good the ledger  *)
(* still holds its id, unless newer ids took all its room or it was lost.    *)
THEOREM CaptureRefused == Spec => CaptureWorksOnce
<1>1. IInv => \A c \in checked :
                 /\ [id |-> c.id, ts |-> c.ts] \in accepted
                 /\ Accept(c, ledger)
                 => Excused(c.id)
  BY CaptureStep
<1> QED
  BY <1>1, Always, PTL DEF CaptureWorksOnce

(* An event is acted on again only after the retention has gone by, whether  *)
(* it comes back as a capture or freshly signed, with the same exceptions.   *)
THEOREM RetentionHolds == Spec => ReappliedOnlyAfterRetention
<1>1. IInv => \A c \in checked :
                 /\ applied[c.id] # NULL
                 /\ Accept(c, ledger)
                 => now > applied[c.id] + Retention \/ Excused(c.id)
  BY HeldIsTurnedAway
<1> QED
  BY <1>1, Always, PTL DEF ReappliedOnlyAfterRetention

=============================================================================
