------------------------- MODULE EdgeBillingProofs -------------------------
(***************************************************************************)
(* Theorems about EdgeBilling, for any number of requests in flight, any   *)
(* set of webhooks and any faults, unless an assumption says otherwise.    *)
(***************************************************************************)
EXTENDS EdgeBilling, TLAPS

(* The fields of a webhook, one by one. *)
LEMMA MessageFields ==
    ASSUME NEW m \in Messages
    PROVE  /\ m.id \in EventIds \cup {NULL}
           /\ m.sub \in Subscriptions \cup {NULL}
           /\ m.email \in Emails \cup {NULL}
           /\ m.period \in MaybeTime
           /\ m.adj \in AdjustmentIds
  BY MessagesAssumption DEF Message

LEMMA TierType == \A price : ResolveTier(price) \in Tiers \cup {NULL}
  BY TierMapAssumption DEF ResolveTier

(* Every patch apply() builds is a patch. *)
LEMMA PatchType ==
    ASSUME NEW m \in Messages, NEW t \in Time, NEW until \in MaybeTime,
           NEW email \in Emails \cup {NULL}, NEW key \in Nat \cup {NULL}
    PROVE  /\ GrantPatch(m, email, key) \in Patch
           /\ CancelPatch(m) \in Patch
           /\ PastDuePatch(until, t) \in Patch
           /\ RevokePatch(t) \in Patch
  <1>1. GrantPatch(m, email, key) \in Patch
    BY MessageFields, TierType DEF GrantPatch, NoPatch, Patch, MaybeTime, Time
  <1>2. CancelPatch(m) \in Patch
    BY MessageFields DEF CancelPatch, NoPatch, Patch, MaybeTime, Time
  <1>3. PastDuePatch(until, t) \in Patch
    BY BoundAssumption, NullAssumption
       DEF PastDuePatch, NoPatch, Patch, MaybeTime, Time, Later
  <1>4. RevokePatch(t) \in Patch
    BY DEF RevokePatch, NoPatch, Patch, MaybeTime, Time
  <1> QED BY <1>1, <1>2, <1>3, <1>4

(* What upsert() writes is a row, whatever it merges. *)
LEMMA PriorType == ASSUME NEW row \in Row \cup {NULL} PROVE Prior(row) \in Row
  BY DEF Prior, Blank, Row, MaybeTime, Time

LEMMA MergeType ==
    ASSUME NEW p \in Patch, NEW row \in Row \cup {NULL}, NEW t \in Time
    PROVE  Merge(p, Prior(row), t) \in Row
  <1>1. Prior(row) \in Row BY PriorType
  <1> QED BY <1>1 DEF Merge, Coalesce, Patch, Row

-----------------------------------------------------------------------------
LEMMA TypeInit == Init => TypeOK
  BY DEF Init, TypeOK, NoPatch, Patch, MaybeTime, Time, Labels

LEMMA LeaveType ==
    ASSUME TypeOK, NEW i \in Isolates, Leave(i)
    PROVE  /\ pc' \in [Isolates -> Labels]
           /\ msg' \in [Isolates -> Messages \cup {NULL}]
           /\ at' \in [Isolates -> Time]
           /\ read' \in [Isolates -> Row \cup {NULL}]
           /\ patch' \in [Isolates -> Patch]
           /\ abreast' \subseteq Isolates /\ crossed' \subseteq Isolates
           /\ overwritten' = overwritten
  <1>1. NoPatch \in Patch BY DEF NoPatch, Patch, MaybeTime, Time
  <1> QED BY <1>1 DEF Leave, TypeOK, Labels, Time

(* A request in flight has a webhook, and past apply()'s dispatch it has a   *)
(* subscription to work on.                                                  *)
Busy ==
    \A i \in Isolates :
        /\ pc[i] # "idle" => msg[i] \in Messages
        /\ pc[i] = "dedupe" => msg[i].id \in EventIds
        /\ pc[i] \in {"email", "upsert", "write", "adjust"} => msg[i].sub \in Subscriptions

TypeInv == TypeOK /\ Busy

LEMMA LeaveBusy ==
    ASSUME TypeInv, NEW i \in Isolates, Leave(i)
    PROVE  Busy'
  BY DEF TypeInv, TypeOK, Busy, Leave

LEMMA BusyInit == Init => Busy
  BY DEF Init, Busy

LEMMA GrantType ==
    ASSUME TypeInv, NEW i \in Isolates, NEW row \in Row \cup {NULL},
           NEW email \in Emails \cup {NULL},
           msg[i] \in Messages, Grant(i, Prior(row), email)
    PROVE  /\ minted' \in Nat
           /\ patch' \in [Isolates -> Patch]
           /\ pc' \in [Isolates -> Labels]
  <1> DEFINE key == Coalesce(Prior(row).api_key, minted + 1)
  <1>1. key \in Nat
    BY PriorType DEF Coalesce, Row, TypeInv, TypeOK
  <1>2. GrantPatch(msg[i], email, key) \in Patch
    BY <1>1, PatchType, 0 \in Time, NULL \in MaybeTime DEF Time, MaybeTime
  <1> HIDE DEF key
  <1>3. patch' = [patch EXCEPT ![i] = GrantPatch(msg[i], email, key)]
    BY DEF Grant, key
  <1> QED BY <1>2, <1>3 DEF Grant, Goto, TypeInv, TypeOK, Labels

(* No step leaves the types. *)
LEMMA TypeStep == TypeInv /\ [Next]_vars => TypeInv'
  <1> SUFFICES ASSUME TypeInv, [Next]_vars PROVE TypeInv' OBVIOUS
  <1> USE DEF TypeInv, outcome, overlap
  <1>1. CASE UNCHANGED vars
    BY <1>1 DEF vars, db, local, history, outcome, overlap, faults, TypeOK, Busy
  <1>2. CASE Tick
    BY <1>2 DEF Tick, db, local, history, outcome, overlap, faults, TypeOK, Busy, Time
  <1>3. ASSUME NEW i \in Isolates, NEW m \in Messages, Deliver(i, m) \/ DeliverCopy(i, m)
        PROVE  TypeInv'
    <2>1. Receive(i, m) /\ copies' \in Nat
      BY <1>3 DEF Deliver, DeliverCopy, TypeOK
    <2>2. TypeOK'
      BY <2>1 DEF Receive, Goto, TypeOK, Labels, Time, db, history, outcome, overlap
    <2>3. Busy'
      BY <2>1, MessageFields DEF Receive, Goto, TypeOK, Busy
    <2> QED BY <2>2, <2>3
  <1>4. ASSUME NEW i \in Isolates, Dedupe(i) PROVE TypeInv'
    <2> USE DEF db, local, history, outcome, overlap, faults
    <2>1. CASE Leave(i) /\ acked' = acked \cup {msg[i]}
      <3>1. msg[i] \in Messages BY <1>4 DEF Dedupe, Busy
      <3>2. TypeOK' BY <1>4, <2>1, <3>1, LeaveType DEF Dedupe, TypeOK
      <3> QED BY <2>1, <3>2, LeaveBusy
    <2>2. CASE Goto(i, "apply") /\ UNCHANGED <<local, overlap, acked>>
      BY <1>4, <2>2 DEF Dedupe, TypeOK, Busy, Goto, Labels
    <2> QED BY <1>4, <2>1, <2>2 DEF Dedupe
  <1>5. ASSUME NEW i \in Isolates, Ignore(i) PROVE TypeInv'
    BY <1>5 DEF Ignore, Goto, db, local, history, outcome, overlap, faults, TypeOK, Busy, Labels
  <1>6. ASSUME NEW i \in Isolates, ReadForAdjustment(i) PROVE TypeInv'
    <2>1. msg[i] \in Messages /\ msg[i].sub \in Subscriptions
      BY <1>6, MessageFields DEF ReadForAdjustment, AtApply, Busy
    <2>2. RevokePatch(at[i]) \in Patch
      BY <2>1, PatchType, NULL \in MaybeTime, NULL \in Emails \cup {NULL}
         DEF TypeOK, MaybeTime
    <2> QED BY <1>6, <2>1, <2>2
          DEF ReadForAdjustment, AtApply, Goto, db, faults, TypeOK, Busy, Labels
  <1>7. ASSUME NEW i \in Isolates, ReadForGrant(i) PROVE TypeInv'
    <2>1. /\ msg[i] \in Messages /\ msg[i].sub \in Subscriptions
          /\ subscribers[msg[i].sub] \in Row \cup {NULL}
      BY <1>7, MessageFields DEF ReadForGrant, AtApply, Busy, TypeOK
    <2>2. CASE Grant(i, Prior(subscribers[msg[i].sub]), msg[i].email) /\ UNCHANGED read
      <3>1. /\ minted' \in Nat
            /\ patch' \in [Isolates -> Patch]
            /\ pc' \in [Isolates -> Labels]
        BY <2>1, <2>2, MessageFields, GrantType
      <3>2. pc' = [pc EXCEPT ![i] = "upsert"] BY <2>2 DEF Grant, Goto
      <3> QED BY <1>7, <2>1, <2>2, <3>1, <3>2
            DEF ReadForGrant, db, history, outcome, overlap, faults, TypeOK, Busy
    <2>3. CASE /\ read' = [read EXCEPT ![i] = subscribers[msg[i].sub]]
               /\ Goto(i, "email")
               /\ UNCHANGED <<minted, patch>>
      BY <1>7, <2>1, <2>3 DEF ReadForGrant, Goto, db, history, outcome, overlap, faults, TypeOK, Busy, Labels
    <2> QED BY <1>7, <2>2, <2>3 DEF ReadForGrant
  <1>8. ASSUME NEW i \in Isolates, LookUpEmail(i) PROVE TypeInv'
    <2>1. /\ msg[i] \in Messages /\ msg[i].sub \in Subscriptions
          /\ CustomerEmail[msg[i].sub] \in Emails \cup {NULL}
          /\ read[i] \in Row \cup {NULL}
      BY <1>8, MailAssumption DEF LookUpEmail, Busy, TypeOK
    <2>2. PICK found \in Emails \cup {NULL} : Grant(i, Prior(read[i]), found)
      BY <1>8, <2>1 DEF LookUpEmail
    <2>3. /\ minted' \in Nat
          /\ patch' \in [Isolates -> Patch]
          /\ pc' \in [Isolates -> Labels]
      BY <2>1, <2>2, GrantType
    <2>4. pc' = [pc EXCEPT ![i] = "upsert"] BY <2>2 DEF Grant, Goto
    <2> QED BY <1>8, <2>1, <2>3, <2>4
          DEF LookUpEmail, db, history, outcome, overlap, faults, TypeOK, Busy
  <1>9. ASSUME NEW i \in Isolates, Cancel(i) \/ Expire(i) PROVE TypeInv'
    <2>1. /\ msg[i] \in Messages /\ msg[i].sub \in Subscriptions
          /\ at[i] \in Time
      BY <1>9, MessageFields DEF Cancel, Expire, AtApply, Busy, TypeOK
    <2>2. CancelPatch(msg[i]) \in Patch /\ RevokePatch(at[i]) \in Patch
      BY <2>1, PatchType, NULL \in MaybeTime, NULL \in Emails \cup {NULL} DEF MaybeTime
    <2>3. PICK p \in Patch : UpsertAtOnce(i, p)
      BY <1>9, <2>2 DEF Cancel, Expire
    <2> QED BY <2>1, <2>3
          DEF UpsertAtOnce, Goto, db, history, outcome, overlap, faults, TypeOK, Busy, Labels
  <1>10. ASSUME NEW i \in Isolates, ReadForPastDue(i) PROVE TypeInv'
    <2>1. /\ msg[i] \in Messages /\ msg[i].sub \in Subscriptions /\ at[i] \in Time
          /\ subscribers[msg[i].sub] \in Row \cup {NULL}
      BY <1>10, MessageFields DEF ReadForPastDue, AtApply, Busy, TypeOK
    <2>2. Prior(subscribers[msg[i].sub]).active_until \in MaybeTime
      BY <2>1, PriorType DEF Row
    <2>3. PastDuePatch(Prior(subscribers[msg[i].sub]).active_until, at[i]) \in Patch
      BY <2>1, <2>2, PatchType, NULL \in Emails \cup {NULL}
    <2> QED BY <1>10, <2>1, <2>3
          DEF ReadForPastDue, Goto, db, history, outcome, overlap, faults, TypeOK, Busy, Labels
  <1>11. ASSUME NEW i \in Isolates, UpsertRead(i) PROVE TypeInv'
    BY <1>11 DEF UpsertRead, Goto, db, history, outcome, overlap, faults, TypeOK, Busy, Labels
  <1>12. ASSUME NEW i \in Isolates, UpsertWrite(i) PROVE TypeInv'
    <2>1. msg[i] \in Messages /\ msg[i].sub \in Subscriptions
      BY <1>12 DEF UpsertWrite, Busy
    <2>2. Merge(patch[i], Prior(read[i]), now) \in Row
      BY MergeType DEF TypeOK
    <2>3. NoPatch \in Patch
      BY DEF NoPatch, Patch, MaybeTime, Time
    <2> QED BY <1>12, <2>1, <2>2, <2>3
          DEF UpsertWrite, Goto, faults, TypeOK, Busy, Labels
  <1>13. ASSUME NEW i \in Isolates, InsertAdjustment(i) PROVE TypeInv'
    <2>1. msg[i] \in Messages /\ msg[i].adj \in AdjustmentIds
      BY <1>13, MessageFields DEF InsertAdjustment, Busy
    <2> QED BY <1>13, <2>1
          DEF InsertAdjustment, Goto, local, faults, TypeOK, Busy, Labels
  <1>14. ASSUME NEW i \in Isolates, RecordEvent(i) PROVE TypeInv'
    <2>1. msg[i] \in Messages /\ msg[i].id \in EventIds \cup {NULL}
      BY <1>14, MessageFields DEF RecordEvent, Busy
    <2> QED BY <1>14, <2>1
          DEF RecordEvent, Goto, local, history, outcome, overlap, faults, TypeOK, Outcomes, Busy, Labels
  <1>15. ASSUME NEW i \in Isolates, Respond(i) PROVE TypeInv'
    <2>1. Leave(i) /\ msg[i] \in Messages BY <1>15 DEF Respond, Busy
    <2>2. TypeOK' BY <1>15, <2>1, LeaveType DEF Respond, db, faults, TypeOK
    <2> QED BY <2>1, <2>2, LeaveBusy
  <1>16. ASSUME NEW i \in Isolates, Throw(i) PROVE TypeInv'
    BY <1>16 DEF Throw, Goto, db, local, history, outcome, overlap, TypeOK, Busy, Labels
  <1>17. ASSUME NEW i \in Isolates, RecordFailure(i) PROVE TypeInv'
    <2>1. msg[i] \in Messages /\ msg[i].id \in EventIds \cup {NULL}
      BY <1>17, MessageFields DEF RecordFailure, Busy
    <2>2. Leave(i) BY <1>17 DEF RecordFailure
    <2>3. TypeOK'
      BY <1>17, <2>1, <2>2, LeaveType DEF RecordFailure, history, outcome, overlap, faults, TypeOK, Outcomes
    <2> QED BY <2>2, <2>3, LeaveBusy
  <1>18. ASSUME NEW i \in Isolates, Crash(i) PROVE TypeInv'
    <2>1. Leave(i) BY <1>18 DEF Crash
    <2>2. TypeOK' BY <1>18, <2>1, LeaveType DEF Crash, db, history, outcome, overlap, TypeOK
    <2> QED BY <2>1, <2>2, LeaveBusy
  <1> QED
    BY <1>1, <1>2, <1>3, <1>4, <1>5, <1>6, <1>7, <1>8, <1>9, <1>10, <1>11, <1>12,
       <1>13, <1>14, <1>15, <1>16, <1>17, <1>18 DEF Next, Advance, Apply

(* Every reachable state is well typed. *)
THEOREM TypeCorrect == Spec => []TypeInv
  <1>1. Init => TypeInv BY TypeInit, BusyInit DEF TypeInv
  <1> QED BY <1>1, TypeStep, PTL DEF Spec

(* Tables, requests and counters of webhook.ts keep their shape, however the *)
(* requests interleave and fail.                                             *)
THEOREM TypesHold == Spec => []TypeOK
  <1>1. TypeInv => TypeOK BY DEF TypeInv
  <1> QED BY <1>1, TypeCorrect, PTL

-----------------------------------------------------------------------------
(* How a step can touch the two things every safety invariant below is      *)
(* about: the patch a request holds, and the table.  A request gets one of   *)
(* the four patches apply() builds, or none; and only UpsertWrite writes.    *)
Granting(i) ==
    \E email \in Emails \cup {NULL}, key \in Nat :
        /\ msg[i].type \in ACTIVE /\ ResolveTier(msg[i].price) # NULL
        /\ patch' = [patch EXCEPT ![i] = GrantPatch(msg[i], email, key)]

Dropping(i) == patch' = [patch EXCEPT ![i] = NoPatch]

Closing(i) ==
    \/ /\ msg[i].type \in GRACE
       /\ patch' = [patch EXCEPT ![i] = CancelPatch(msg[i])]
    \/ /\ msg[i].type \in PAST_DUE
       /\ \E until \in MaybeTime : patch' = [patch EXCEPT ![i] = PastDuePatch(until, at[i])]
    \/ /\ Revokes(msg[i])
       /\ patch' = [patch EXCEPT ![i] = RevokePatch(at[i])]

PatchMoves ==
    \/ UNCHANGED patch
    \/ \E i \in Isolates : msg[i] \in Messages /\ (Granting(i) \/ Closing(i))
    \/ \E i \in Isolates : Dropping(i)

TableMoves ==
    \/ UNCHANGED subscribers
    \/ \E i \in Isolates : UpsertWrite(i)

(* A request waiting for Paddle's answer is an activation at a price we sell. *)
EmailIsSold ==
    \A i \in Isolates :
        pc[i] = "email" => msg[i].type \in ACTIVE /\ ResolveTier(msg[i].price) # NULL

LEMMA EmailIsSoldStep == TypeInv /\ EmailIsSold /\ [Next]_vars => EmailIsSold'
  <1> SUFFICES ASSUME TypeInv, EmailIsSold, [Next]_vars, NEW j \in Isolates, pc'[j] = "email"
               PROVE  msg'[j].type \in ACTIVE /\ ResolveTier(msg'[j].price) # NULL
    BY DEF EmailIsSold
  <1> USE DEF TypeInv, TypeOK, EmailIsSold, local, Goto
  <1>1. CASE UNCHANGED vars BY <1>1 DEF vars
  <1>2. CASE Tick BY <1>2 DEF Tick
  <1>3. ASSUME NEW i \in Isolates, NEW m \in Messages, Receive(i, m)
        PROVE  msg'[j].type \in ACTIVE /\ ResolveTier(msg'[j].price) # NULL
    BY <1>3 DEF Receive
  <1>4. ASSUME NEW i \in Isolates, Leave(i)
        PROVE  msg'[j].type \in ACTIVE /\ ResolveTier(msg'[j].price) # NULL
    BY <1>4 DEF Leave
  <1>5. ASSUME NEW i \in Isolates, ReadForGrant(i)
        PROVE  msg'[j].type \in ACTIVE /\ ResolveTier(msg'[j].price) # NULL
    BY <1>5 DEF ReadForGrant, AtApply, Grant
  <1>7. ASSUME NEW i \in Isolates, Dedupe(i)
        PROVE  msg'[j].type \in ACTIVE /\ ResolveTier(msg'[j].price) # NULL
    BY <1>7, <1>4 DEF Dedupe
  <1>8. ASSUME NEW i \in Isolates,
               Ignore(i) \/ ReadForAdjustment(i) \/ LookUpEmail(i) \/ Cancel(i)
                   \/ ReadForPastDue(i) \/ Expire(i)
        PROVE  msg'[j].type \in ACTIVE /\ ResolveTier(msg'[j].price) # NULL
    BY <1>8 DEF Ignore, ReadForAdjustment, LookUpEmail, Grant, Cancel, ReadForPastDue,
                Expire, UpsertAtOnce
  <1>9. ASSUME NEW i \in Isolates,
               UpsertRead(i) \/ UpsertWrite(i) \/ InsertAdjustment(i) \/ RecordEvent(i)
                   \/ Throw(i)
        PROVE  msg'[j].type \in ACTIVE /\ ResolveTier(msg'[j].price) # NULL
    BY <1>9 DEF UpsertRead, UpsertWrite, InsertAdjustment, RecordEvent, Throw
  <1> QED
    BY <1>1, <1>2, <1>3, <1>4, <1>5, <1>7, <1>8, <1>9
       DEF Next, Advance, Apply, Deliver, DeliverCopy, Respond, RecordFailure, Crash

LEMMA Shape == TypeInv /\ EmailIsSold /\ [Next]_vars => PatchMoves /\ TableMoves
  <1> SUFFICES ASSUME TypeInv, EmailIsSold, [Next]_vars PROVE PatchMoves /\ TableMoves OBVIOUS
  <1> USE DEF db, local
  <1>1. CASE UNCHANGED vars \/ Tick
    BY <1>1 DEF vars, Tick, PatchMoves, TableMoves
  <1>2. ASSUME NEW i \in Isolates, NEW m \in Messages, Receive(i, m)
        PROVE  PatchMoves /\ TableMoves
    BY <1>2 DEF Receive, PatchMoves, TableMoves
  <1>3. ASSUME NEW i \in Isolates, Leave(i), UNCHANGED subscribers
        PROVE  PatchMoves /\ TableMoves
    BY <1>3 DEF Leave, PatchMoves, TableMoves, Dropping
  <1>4. ASSUME NEW i \in Isolates, Dedupe(i) PROVE PatchMoves /\ TableMoves
    BY <1>4, <1>3 DEF Dedupe, PatchMoves, TableMoves
  <1>5. ASSUME NEW i \in Isolates,
               Ignore(i) \/ UpsertRead(i) \/ InsertAdjustment(i) \/ RecordEvent(i) \/ Throw(i)
        PROVE  PatchMoves /\ TableMoves
    BY <1>5 DEF Ignore, UpsertRead, InsertAdjustment, RecordEvent, Throw, PatchMoves, TableMoves
  <1>6. ASSUME NEW i \in Isolates, UpsertWrite(i) PROVE PatchMoves /\ TableMoves
    BY <1>6 DEF UpsertWrite, PatchMoves, TableMoves, Dropping
  <1>7. ASSUME NEW i \in Isolates, ReadForAdjustment(i) PROVE PatchMoves /\ TableMoves
    <2>1. msg[i] \in Messages BY <1>7 DEF ReadForAdjustment, AtApply, TypeInv, Busy
    <2> QED BY <1>7, <2>1
          DEF ReadForAdjustment, AtApply, PatchMoves, TableMoves, Closing, Revokes
  <1>8. ASSUME NEW i \in Isolates, NEW row \in Row \cup {NULL},
               NEW email \in Emails \cup {NULL}, Grant(i, Prior(row), email),
               msg[i] \in Messages, msg[i].type \in ACTIVE, ResolveTier(msg[i].price) # NULL
        PROVE  PatchMoves
    <2>1. Coalesce(Prior(row).api_key, minted + 1) \in Nat
      BY PriorType DEF Coalesce, Row, TypeInv, TypeOK
    <2>2. Granting(i) BY <1>8, <2>1 DEF Grant, Granting
    <2> QED BY <1>8, <2>2 DEF PatchMoves
  <1>9. ASSUME NEW i \in Isolates, ReadForGrant(i) PROVE PatchMoves /\ TableMoves
    <2>1. /\ msg[i] \in Messages /\ msg[i].email \in Emails \cup {NULL}
          /\ msg[i].sub \in Subscriptions
          /\ subscribers[msg[i].sub] \in Row \cup {NULL}
      BY <1>9, MessageFields DEF ReadForGrant, AtApply, TypeInv, Busy, TypeOK
    <2> QED BY <1>8, <1>9, <2>1 DEF ReadForGrant, AtApply, PatchMoves, TableMoves
  <1>10. ASSUME NEW i \in Isolates, LookUpEmail(i) PROVE PatchMoves /\ TableMoves
    <2>1. /\ msg[i] \in Messages /\ msg[i].sub \in Subscriptions
          /\ CustomerEmail[msg[i].sub] \in Emails \cup {NULL}
          /\ read[i] \in Row \cup {NULL}
          /\ msg[i].type \in ACTIVE /\ ResolveTier(msg[i].price) # NULL
      BY <1>10, MailAssumption DEF LookUpEmail, TypeInv, Busy, TypeOK, EmailIsSold
    <2> QED BY <1>8, <1>10, <2>1 DEF LookUpEmail, TableMoves
  <1>11. ASSUME NEW i \in Isolates, Cancel(i) \/ Expire(i) PROVE PatchMoves /\ TableMoves
    <2>1. msg[i] \in Messages BY <1>11 DEF Cancel, Expire, AtApply, TypeInv, Busy
    <2> QED BY <1>11, <2>1 DEF Cancel, Expire, AtApply, UpsertAtOnce, PatchMoves, TableMoves,
                               Closing, Revokes
  <1>12. ASSUME NEW i \in Isolates, ReadForPastDue(i) PROVE PatchMoves /\ TableMoves
    <2>1. /\ msg[i] \in Messages /\ msg[i].sub \in Subscriptions
          /\ subscribers[msg[i].sub] \in Row \cup {NULL}
      BY <1>12, MessageFields DEF ReadForPastDue, AtApply, TypeInv, Busy, TypeOK
    <2>2. Prior(subscribers[msg[i].sub]).active_until \in MaybeTime
      BY <2>1, PriorType DEF Row
    <2> QED BY <1>12, <2>1, <2>2 DEF ReadForPastDue, AtApply, PatchMoves, TableMoves, Closing
  <1> QED
    BY <1>1, <1>2, <1>3, <1>4, <1>5, <1>6, <1>7, <1>9, <1>10, <1>11, <1>12
       DEF Next, Advance, Apply, Deliver, DeliverCopy, Respond, RecordFailure, Crash

LEMMA EmailIsSoldHolds == Spec => []EmailIsSold
  <1>1. Init => EmailIsSold BY DEF Init, EmailIsSold
  <1> QED BY <1>1, TypeCorrect, EmailIsSoldStep, PTL DEF Spec

LEMMA PatchFields ==
    ASSUME NEW m, NEW email, NEW key, NEW until, NEW t
    PROVE  /\ GrantPatch(m, email, key).active = 1
           /\ GrantPatch(m, email, key).tier = ResolveTier(m.price)
           /\ GrantPatch(m, email, key).api_key = key
           /\ GrantPatch(m, email, key).expires_at = NULL
           /\ CancelPatch(m).active = 0 /\ CancelPatch(m).expires_at = NULL
           /\ PastDuePatch(until, t).active = 0 /\ PastDuePatch(until, t).expires_at = NULL
           /\ RevokePatch(t).active = 0 /\ RevokePatch(t).expires_at = t
           /\ NoPatch.active = 0 /\ NoPatch.expires_at = NULL
  BY DEF GrantPatch, CancelPatch, PastDuePatch, RevokePatch, NoPatch

(* The same of one request: the patch it holds after a step. *)
LEMMA PatchOf ==
    ASSUME TypeInv, PatchMoves, NEW j \in Isolates
    PROVE  \/ patch'[j] = patch[j]
           \/ /\ ResolveTier(msg[j].price) # NULL
              /\ \E email \in Emails \cup {NULL}, key \in Nat :
                     patch'[j] = GrantPatch(msg[j], email, key)
           \/ patch'[j] = CancelPatch(msg[j])
           \/ \E until \in MaybeTime : patch'[j] = PastDuePatch(until, at[j])
           \/ Revokes(msg[j]) /\ patch'[j] = RevokePatch(at[j])
           \/ patch'[j] = NoPatch
  BY DEF PatchMoves, Granting, Closing, Dropping, TypeInv, TypeOK

-----------------------------------------------------------------------------
(* An active row is provisioned: the invariant is that every patch that      *)
(* would make a row active already carries its tier and its key, so that it  *)
(* does not matter what the patch is merged into.                            *)
PatchIsProvisioned ==
    \A i \in Isolates :
        patch[i].active = 1 => /\ patch[i].tier \in {TierMap[p] : p \in DOMAIN TierMap}
                               /\ patch[i].api_key # NULL

LEMMA SoldTier ==
    \A price : ResolveTier(price) # NULL
                   => ResolveTier(price) \in {TierMap[p] : p \in DOMAIN TierMap}
  BY DEF ResolveTier

ProvisionedInv == TypeInv /\ EmailIsSold /\ PatchIsProvisioned /\ ActiveIsProvisioned

LEMMA ProvisionedStep == ProvisionedInv /\ [Next]_vars => ProvisionedInv'
  <1> SUFFICES ASSUME ProvisionedInv, [Next]_vars PROVE ProvisionedInv'
    OBVIOUS
  <1> USE DEF ProvisionedInv
  <1>1. TypeInv' /\ EmailIsSold' BY TypeStep, EmailIsSoldStep
  <1>2. PatchMoves /\ TableMoves BY Shape
  <1>3. PatchIsProvisioned'
    <2> SUFFICES ASSUME NEW i \in Isolates, patch'[i].active = 1
                 PROVE  /\ patch'[i].tier \in {TierMap[p] : p \in DOMAIN TierMap}
                        /\ patch'[i].api_key # NULL
      BY DEF PatchIsProvisioned
    <2>1. CASE patch'[i] = patch[i]
      BY <2>1 DEF PatchIsProvisioned
    <2>2. ASSUME NEW email, NEW key \in Nat, patch'[i] = GrantPatch(msg[i], email, key),
                 ResolveTier(msg[i].price) # NULL
          PROVE  /\ patch'[i].tier \in {TierMap[p] : p \in DOMAIN TierMap}
                 /\ patch'[i].api_key # NULL
      BY <2>2, PatchFields, SoldTier, NullAssumption
    <2>3. /\ patch'[i] # CancelPatch(msg[i]) /\ patch'[i] # RevokePatch(at[i])
          /\ patch'[i] # NoPatch
          /\ \A until \in MaybeTime : patch'[i] # PastDuePatch(until, at[i])
      BY PatchFields
    <2> QED BY <1>2, <2>1, <2>2, <2>3, PatchOf
  <1>4. ActiveIsProvisioned'
    <2>1. ASSUME NEW i \in Isolates, UpsertWrite(i) PROVE ActiveIsProvisioned'
      <3>1. /\ msg[i].sub \in Subscriptions
            /\ subscribers' = [subscribers EXCEPT ![msg[i].sub] =
                                 Merge(patch[i], Prior(read[i]), now)]
        BY <2>1 DEF UpsertWrite, TypeInv, Busy
      <3> DEFINE new == Merge(patch[i], Prior(read[i]), now)
      <3>2. new.active = 1 => /\ new.tier \in {TierMap[p] : p \in DOMAIN TierMap}
                              /\ new.api_key # NULL
        BY NullAssumption, TierMapAssumption DEF Merge, Coalesce, PatchIsProvisioned
      <3> HIDE DEF new
      <3> QED BY <3>1, <3>2 DEF ActiveIsProvisioned, TypeInv, TypeOK, new
    <2> QED BY <1>2, <2>1 DEF TableMoves, ActiveIsProvisioned
  <1> QED BY <1>1, <1>3, <1>4

(* However requests interleave, crash or merge into stale rows, a row that   *)
(* is active has a tier we sell and a key.                                   *)
THEOREM ProvisionedAlways == Spec => []ActiveIsProvisioned
  <1>1. Init => ProvisionedInv
    <2> SUFFICES ASSUME Init PROVE ProvisionedInv OBVIOUS
    <2>1. TypeInv BY TypeInit, BusyInit DEF TypeInv
    <2>2. EmailIsSold /\ PatchIsProvisioned /\ ActiveIsProvisioned
      BY DEF Init, EmailIsSold, PatchIsProvisioned, ActiveIsProvisioned, NoPatch
    <2> QED BY <2>1, <2>2 DEF ProvisionedInv
  <1>2. ProvisionedInv => ActiveIsProvisioned BY DEF ProvisionedInv
  <1> QED BY <1>1, <1>2, ProvisionedStep, PTL DEF Spec

-----------------------------------------------------------------------------
(* A ceiling is never in the future: not in the table, not in a row a        *)
(* request has read, not in a patch it is about to merge, and no request     *)
(* has read the clock ahead of time.                                         *)
Reached(t) == t # NULL => t <= now

CeilingReached ==
    /\ \A s \in Subscriptions : subscribers[s] # NULL => Reached(subscribers[s].expires_at)
    /\ \A i \in Isolates : /\ read[i] # NULL => Reached(read[i].expires_at)
                           /\ Reached(patch[i].expires_at)
                           /\ at[i] <= now

CeilingInv == TypeInv /\ EmailIsSold /\ CeilingReached

LEMMA ClockStep ==
    ASSUME CeilingInv, [Next]_vars
    PROVE  now' \in Time /\ now <= now' /\ \A i \in Isolates : at'[i] <= now'
  <1> USE DEF CeilingInv, TypeInv, TypeOK, CeilingReached, Time, db, local, faults
  <1>1. CASE UNCHANGED vars BY <1>1 DEF vars
  <1>2. CASE Tick BY <1>2 DEF Tick
  <1>3. ASSUME NEW i \in Isolates, NEW m \in Messages, Receive(i, m)
        PROVE  now' = now /\ \A k \in Isolates : at'[k] <= now'
    BY <1>3 DEF Receive
  <1>4. ASSUME NEW i \in Isolates, Leave(i), now' = now
        PROVE  \A k \in Isolates : at'[k] <= now'
    BY <1>4 DEF Leave
  <1>5. ASSUME NEW i \in Isolates, Advance(i) \/ Throw(i) \/ Crash(i)
        PROVE  now' = now /\ \A k \in Isolates : at'[k] <= now'
    <2>1. now' = now /\ (UNCHANGED at \/ Leave(i))
      BY <1>5 DEF Advance, Apply, Dedupe, Ignore, ReadForAdjustment, ReadForGrant,
                  LookUpEmail, Cancel, Expire, UpsertAtOnce, ReadForPastDue, UpsertRead,
                  UpsertWrite, InsertAdjustment, RecordEvent, Respond, RecordFailure,
                  Throw, Crash
    <2> QED BY <1>4, <2>1
  <1> QED BY <1>1, <1>2, <1>3, <1>5 DEF Next, Deliver, DeliverCopy

LEMMA ReadStep ==
    ASSUME TypeInv, [Next]_vars, NEW j \in Isolates
    PROVE  \/ read'[j] = read[j]
           \/ read'[j] = NULL
           \/ \E s \in Subscriptions : read'[j] = subscribers[s]
  <1> USE DEF TypeInv, TypeOK, local
  <1>1. ASSUME NEW i \in Isolates, Leave(i) PROVE read'[j] = read[j] \/ read'[j] = NULL
    BY <1>1 DEF Leave
  <1>2. CASE UNCHANGED read BY <1>2
  <1>3. ASSUME NEW i \in Isolates, ReadForGrant(i) \/ Cancel(i) \/ Expire(i) \/ UpsertRead(i)
        PROVE  read'[j] = read[j] \/ \E s \in Subscriptions : read'[j] = subscribers[s]
    <2>1. msg[i].sub \in Subscriptions
      BY <1>3, MessageFields DEF ReadForGrant, Cancel, Expire, UpsertRead, AtApply, Busy
    <2> QED BY <1>3, <2>1 DEF ReadForGrant, Cancel, Expire, UpsertRead, UpsertAtOnce
  <1>4. ASSUME NEW i \in Isolates, LookUpEmail(i) \/ UpsertWrite(i)
        PROVE  read'[j] = read[j] \/ read'[j] = NULL
    BY <1>4 DEF LookUpEmail, UpsertWrite
  <1>5. ASSUME NEW i \in Isolates, Advance(i) \/ Throw(i) \/ Crash(i)
        PROVE  \/ UNCHANGED read \/ Leave(i)
               \/ ReadForGrant(i) \/ Cancel(i) \/ Expire(i) \/ UpsertRead(i)
               \/ LookUpEmail(i) \/ UpsertWrite(i)
    BY <1>5 DEF Advance, Apply, Dedupe, Ignore, ReadForAdjustment, ReadForPastDue,
                InsertAdjustment, RecordEvent, Respond, RecordFailure, Throw, Crash
  <1> QED BY <1>1, <1>2, <1>3, <1>4, <1>5
        DEF Next, Deliver, DeliverCopy, Receive, Tick, vars

LEMMA CeilingStep == CeilingInv /\ [Next]_vars => CeilingInv'
  <1> SUFFICES ASSUME CeilingInv, [Next]_vars PROVE CeilingInv' OBVIOUS
  <1> USE DEF CeilingInv
  <1>1. TypeInv' /\ EmailIsSold' BY TypeStep, EmailIsSoldStep
  <1>2. PatchMoves /\ TableMoves BY Shape
  <1>3. now \in Time /\ now' \in Time /\ now <= now' /\ \A i \in Isolates : at'[i] <= now'
    BY ClockStep DEF TypeInv, TypeOK
  <1>4. ASSUME NEW t \in MaybeTime, Reached(t) PROVE t # NULL => t <= now'
    BY <1>3, <1>4, NullAssumption DEF Reached, MaybeTime, Time
  <1>5. ASSUME NEW i \in Isolates PROVE patch'[i].expires_at # NULL => patch'[i].expires_at <= now'
    <2>1. patch[i].expires_at \in MaybeTime /\ at[i] \in Time /\ at[i] <= now
      BY DEF TypeInv, TypeOK, Patch, CeilingReached
    <2>2. at[i] <= now' BY <1>3, <2>1 DEF Time
    <2>3. patch[i].expires_at # NULL => patch[i].expires_at <= now'
      BY <1>4, <2>1 DEF CeilingReached
    <2>4. CASE patch'[i] = RevokePatch(at[i])
      BY <2>2, <2>4, PatchFields
    <2>5. /\ CancelPatch(msg[i]).expires_at = NULL /\ NoPatch.expires_at = NULL
          /\ \A email, key : GrantPatch(msg[i], email, key).expires_at = NULL
          /\ \A until \in MaybeTime : PastDuePatch(until, at[i]).expires_at = NULL
      BY PatchFields
    <2> QED BY <1>2, <2>3, <2>4, <2>5, PatchOf
  <1>6. ASSUME NEW i \in Isolates, read'[i] # NULL
        PROVE  read'[i].expires_at # NULL => read'[i].expires_at <= now'
    <2>1. ASSUME NEW row \in Row, Reached(row.expires_at)
          PROVE  row.expires_at # NULL => row.expires_at <= now'
      BY <1>4, <2>1 DEF Row
    <2>2. CASE read'[i] = read[i]
      BY <1>6, <2>1, <2>2 DEF CeilingReached, TypeInv, TypeOK
    <2>3. ASSUME NEW s \in Subscriptions, read'[i] = subscribers[s]
          PROVE  read'[i].expires_at # NULL => read'[i].expires_at <= now'
      BY <1>6, <2>1, <2>3 DEF CeilingReached, TypeInv, TypeOK
    <2> QED BY <1>6, <2>2, <2>3, ReadStep
  <1>7. ASSUME NEW s \in Subscriptions, subscribers'[s] # NULL
        PROVE  subscribers'[s].expires_at # NULL => subscribers'[s].expires_at <= now'
    <2>1. CASE subscribers'[s] = subscribers[s]
      BY <1>4, <1>7, <2>1 DEF CeilingReached, TypeInv, TypeOK, Row
    <2>2. ASSUME NEW i \in Isolates, UpsertWrite(i), subscribers'[s] # subscribers[s]
          PROVE  subscribers'[s].expires_at # NULL => subscribers'[s].expires_at <= now'
      <3>1. subscribers'[s] = Merge(patch[i], Prior(read[i]), now)
        BY <2>2 DEF UpsertWrite, TypeInv, TypeOK, Busy
      <3>2. /\ patch[i].expires_at \in MaybeTime
            /\ Prior(read[i]).expires_at \in MaybeTime
        BY PriorType DEF TypeInv, TypeOK, Patch, Row
      <3>3. Reached(patch[i].expires_at) /\ Reached(Prior(read[i]).expires_at)
        BY DEF CeilingReached, Prior, Blank, Reached
      <3> QED BY <1>4, <3>1, <3>2, <3>3 DEF Merge, Coalesce
    <2> QED BY <1>2, <2>1, <2>2 DEF TableMoves
  <1>8. CeilingReached'
    BY <1>3, <1>5, <1>6, <1>7 DEF CeilingReached, Reached
  <1> QED BY <1>1, <1>8

(* However requests interleave, a row that carries a ceiling is shut.        *)
THEOREM CeilingShuts == Spec => []CeilingIsShut
  <1>1. Init => CeilingInv
    <2> SUFFICES ASSUME Init PROVE CeilingInv OBVIOUS
    <2>1. TypeInv BY TypeInit, BusyInit DEF TypeInv
    <2>2. EmailIsSold /\ CeilingReached
      BY DEF Init, EmailIsSold, CeilingReached, Reached, NoPatch
    <2> QED BY <2>1, <2>2 DEF CeilingInv
  <1>2. CeilingInv => CeilingIsShut
    <2> SUFFICES ASSUME CeilingInv, NEW s \in Subscriptions,
                        subscribers[s] # NULL, subscribers[s].expires_at # NULL
                 PROVE  ~Entitled(s)
      BY DEF CeilingIsShut
    <2>1. subscribers[s].expires_at \in Nat /\ now \in Nat /\ subscribers[s].expires_at <= now
      BY DEF CeilingInv, TypeInv, TypeOK, CeilingReached, Reached, Row, MaybeTime, Time
    <2> QED BY <2>1 DEF Entitled, EffectiveActive
  <1> QED BY <1>1, <1>2, CeilingStep, PTL DEF Spec

-----------------------------------------------------------------------------
(* Nothing is answered and forgotten, as long as no statement throws: the    *)
(* events table only knows messages apply() has returned for, and an answer  *)
(* is given only for those.                                                  *)
Settled == handled \cup ignored

NoFailure == throws = 0 /\ \A i \in Isolates : pc[i] # "failed"

LossInv ==
    /\ TypeInv
    /\ NoFailure
    /\ \A i \in Isolates : pc[i] \in {"handled", "ignored", "respond"} => msg[i] \in Settled
    /\ \A m \in Messages : m.id # NULL /\ events[m.id] # NULL => m \in Settled
    /\ NoSilentLoss

LEMMA LossStep ==
    ASSUME MaxThrows = 0, LossInv, [Next]_vars
    PROVE  LossInv'
  <1> USE DEF LossInv, NoFailure, Settled, NoSilentLoss
  <1>1. TypeInv' BY TypeStep
  <1> USE DEF TypeInv, TypeOK, db, local, history, outcome, overlap, faults, Goto
  <1>2. CASE UNCHANGED vars \/ Tick
    BY <1>1, <1>2 DEF vars, Tick
  <1>3. ASSUME NEW i \in Isolates, NEW m \in Messages, Deliver(i, m) \/ DeliverCopy(i, m)
        PROVE  LossInv'
    BY <1>1, <1>3 DEF Deliver, DeliverCopy, Receive
  <1>4. ASSUME NEW i \in Isolates, Dedupe(i) PROVE LossInv'
    <2>1. msg[i] \in Messages /\ msg[i].id \in EventIds
      BY <1>4 DEF Dedupe, Busy
    <2>2. CASE events[msg[i].id] # NULL
      <3>1. msg[i] \in Settled BY <2>1, <2>2, IdAssumption
      <3> QED BY <1>1, <1>4, <2>2, <3>1 DEF Dedupe, Leave
    <2>3. CASE events[msg[i].id] = NULL
      BY <1>1, <1>4, <2>3 DEF Dedupe
    <2> QED BY <2>2, <2>3
  <1>5. ASSUME NEW i \in Isolates, Ignore(i) \/ ReadForAdjustment(i) PROVE LossInv'
    BY <1>1, <1>5 DEF Ignore, ReadForAdjustment, AtApply
  <1>6. ASSUME NEW i \in Isolates,
               ReadForGrant(i) \/ LookUpEmail(i) \/ Cancel(i) \/ Expire(i)
                   \/ ReadForPastDue(i) \/ UpsertRead(i)
        PROVE  LossInv'
    BY <1>1, <1>6 DEF ReadForGrant, LookUpEmail, Grant, Cancel, Expire, UpsertAtOnce,
                      ReadForPastDue, UpsertRead, AtApply
  <1>7. ASSUME NEW i \in Isolates, UpsertWrite(i) \/ InsertAdjustment(i) PROVE LossInv'
    BY <1>1, <1>7 DEF UpsertWrite, InsertAdjustment
  <1>8. ASSUME NEW i \in Isolates, RecordEvent(i) PROVE LossInv'
    <2>1. msg[i] \in Messages /\ msg[i] \in Settled
      BY <1>8 DEF RecordEvent, Busy
    <2>2. \A m \in Messages : m.id # NULL /\ events'[m.id] # NULL => m \in Settled
      <3> SUFFICES ASSUME NEW m \in Messages, m.id # NULL, events'[m.id] # NULL
                   PROVE  m \in Settled
        OBVIOUS
      <3>1. CASE m.id = msg[i].id
        BY <2>1, <3>1, MessagesAssumption
      <3>2. CASE m.id # msg[i].id
        BY <1>8, <3>2, MessageFields DEF RecordEvent
      <3> QED BY <3>1, <3>2
    <2> QED BY <1>1, <1>8, <2>1, <2>2 DEF RecordEvent
  <1>9. ASSUME NEW i \in Isolates, Respond(i) PROVE LossInv'
    BY <1>1, <1>9 DEF Respond, Leave
  <1>10. ASSUME NEW i \in Isolates, Throw(i) \/ RecordFailure(i) PROVE LossInv'
    BY <1>10 DEF Throw, RecordFailure
  <1>11. ASSUME NEW i \in Isolates, Crash(i) PROVE LossInv'
    BY <1>1, <1>11 DEF Crash, Leave
  <1> QED
    BY <1>2, <1>3, <1>4, <1>5, <1>6, <1>7, <1>8, <1>9, <1>10, <1>11 DEF Next, Advance, Apply

(* If no statement of the database throws, every message Paddle has a 200    *)
(* for was applied or turned down, whatever crashes and copies there are.    *)
THEOREM NothingLost == ASSUME MaxThrows = 0 PROVE Spec => []NoSilentLoss
  <1>1. Init => LossInv
    <2> SUFFICES ASSUME Init PROVE LossInv OBVIOUS
    <2>1. TypeInv BY TypeInit, BusyInit DEF TypeInv
    <2> QED BY <2>1, MessageFields DEF Init, LossInv, NoFailure, Settled, NoSilentLoss
  <1>2. LossInv /\ [Next]_vars => LossInv' BY LossStep
  <1>3. LossInv => NoSilentLoss BY DEF LossInv
  <1> QED BY <1>1, <1>2, <1>3, PTL DEF Spec

-----------------------------------------------------------------------------
(* What is written and why, for any number of requests in flight, any        *)
(* webhooks and any faults.                                                  *)

(* A step leaves the table alone or writes the row of one request.           *)
LEMMA TableStep ==
    ASSUME TypeInv, EmailIsSold, [Next]_vars
    PROVE  \/ UNCHANGED subscribers
           \/ \E i \in Isolates :
                 /\ UpsertWrite(i)
                 /\ msg[i] \in Messages /\ msg[i].sub \in Subscriptions
                 /\ Merge(patch[i], Prior(read[i]), now) \in Row
                 /\ subscribers' = [subscribers EXCEPT ![msg[i].sub] =
                                      Merge(patch[i], Prior(read[i]), now)]
<1>1. ASSUME NEW i \in Isolates, UpsertWrite(i)
      PROVE  /\ msg[i] \in Messages /\ msg[i].sub \in Subscriptions
             /\ Merge(patch[i], Prior(read[i]), now) \in Row
             /\ subscribers' = [subscribers EXCEPT ![msg[i].sub] =
                                  Merge(patch[i], Prior(read[i]), now)]
  BY <1>1, MergeType DEF UpsertWrite, TypeInv, TypeOK, Busy
<1> QED BY <1>1, Shape DEF TableMoves

(* What is on file stays on file, and what is handled stays handled.         *)
LEMMA RowsStay ==
    ASSUME TypeInv, EmailIsSold, [Next]_vars, NEW s \in Subscriptions, subscribers[s] # NULL
    PROVE  subscribers'[s] # NULL
  BY TableStep, RowAssumption DEF TypeInv, TypeOK

LEMMA HandledStays == ASSUME [Next]_vars PROVE handled \subseteq handled'
  BY DEF Next, Advance, Apply, Deliver, DeliverCopy, Receive, Dedupe, Ignore,
         ReadForAdjustment, ReadForGrant, LookUpEmail, Cancel, Expire, UpsertAtOnce,
         ReadForPastDue, UpsertRead, UpsertWrite, InsertAdjustment, RecordEvent, Respond,
         Throw, RecordFailure, Crash, Tick, vars, history, outcome, overlap

-----------------------------------------------------------------------------
(* Nobody is invented: an adjustment that has got as far as a write found    *)
(* its subscriber on file.                                                   *)
Writing == {"upsert", "write", "adjust"}

AdjustsSomebody ==
    \A i \in Isolates :
        pc[i] \in Writing /\ msg[i].type \in ADJUSTMENT => subscribers[msg[i].sub] # NULL

PhantomInv == TypeInv /\ EmailIsSold /\ AdjustsSomebody /\ NoPhantomSubscriber

(* A request gets to a write from apply(), or is on its way to one.          *)
LEMMA OnTheWay ==
    ASSUME TypeInv, EmailIsSold, [Next]_vars, NEW j \in Isolates,
           pc'[j] \in Writing, msg'[j].type \in ADJUSTMENT
    PROVE  /\ msg'[j] = msg[j] /\ msg[j].sub \in Subscriptions
           /\ pc[j] \in Writing \/ subscribers[msg[j].sub] # NULL
<1> USE DEF TypeInv, TypeOK, Busy, Writing, local, Goto
<1> DEFINE Goal == /\ msg'[j] = msg[j] /\ msg[j].sub \in Subscriptions
                   /\ pc[j] \in Writing \/ subscribers[msg[j].sub] # NULL
<1>1. CASE UNCHANGED vars \/ Tick
  BY <1>1 DEF vars, Tick
<1>2. ASSUME NEW i \in Isolates, NEW m \in Messages, Receive(i, m) PROVE Goal
  BY <1>2 DEF Receive
<1>3. ASSUME NEW i \in Isolates, Leave(i) PROVE Goal
  BY <1>3 DEF Leave
<1>4. ASSUME NEW i \in Isolates, Dedupe(i) PROVE Goal
  BY <1>3, <1>4 DEF Dedupe
<1>5. ASSUME NEW i \in Isolates,
             Ignore(i) \/ UpsertRead(i) \/ UpsertWrite(i) \/ InsertAdjustment(i)
                 \/ RecordEvent(i) \/ Throw(i)
      PROVE  Goal
  BY <1>5 DEF Ignore, UpsertRead, UpsertWrite, InsertAdjustment, RecordEvent, Throw
<1>6. ASSUME NEW i \in Isolates, ReadForAdjustment(i) PROVE Goal
  <2>1. msg[i] \in Messages /\ msg[i].sub \in Subscriptions
    BY <1>6, MessageFields DEF ReadForAdjustment, AtApply
  <2> QED BY <1>6, <2>1 DEF ReadForAdjustment
<1>7. ASSUME NEW i \in Isolates,
             ReadForGrant(i) \/ LookUpEmail(i) \/ Cancel(i) \/ Expire(i) \/ ReadForPastDue(i)
      PROVE  Goal
  <2>1. msg[i].type \notin ADJUSTMENT
    BY <1>7 DEF ReadForGrant, LookUpEmail, Cancel, Expire, ReadForPastDue, AtApply,
                EmailIsSold, ACTIVE, GRACE, PAST_DUE, HARD_REVOKE, ADJUSTMENT
  <2>2. msg' = msg /\ (j # i => pc'[j] = pc[j])
    BY <1>7 DEF ReadForGrant, LookUpEmail, Cancel, Expire, ReadForPastDue, UpsertAtOnce, Grant
  <2> QED BY <2>1, <2>2
<1> QED
  BY <1>1, <1>2, <1>3, <1>4, <1>5, <1>6, <1>7
  DEF Next, Advance, Apply, Deliver, DeliverCopy, Respond, RecordFailure, Crash

LEMMA PhantomStep == PhantomInv /\ [Next]_vars => PhantomInv'
<1> SUFFICES ASSUME PhantomInv, [Next]_vars PROVE PhantomInv'
  OBVIOUS
<1> USE DEF PhantomInv
<1>1. TypeInv' /\ EmailIsSold'
  BY TypeStep, EmailIsSoldStep
<1>2. AdjustsSomebody'
  <2> SUFFICES ASSUME NEW j \in Isolates, pc'[j] \in Writing, msg'[j].type \in ADJUSTMENT
               PROVE  subscribers'[msg'[j].sub] # NULL
    BY DEF AdjustsSomebody
  <2>1. /\ msg'[j] = msg[j] /\ msg[j].sub \in Subscriptions
        /\ pc[j] \in Writing \/ subscribers[msg[j].sub] # NULL
    BY OnTheWay
  <2>2. subscribers[msg[j].sub] # NULL
    BY <2>1 DEF AdjustsSomebody
  <2> QED BY <2>1, <2>2, RowsStay
<1>3. NoPhantomSubscriber'
  <2> SUFFICES ASSUME NEW s \in Subscriptions, subscribers'[s] # NULL
               PROVE  \E m \in handled' : m.sub = s /\ m.type \notin ADJUSTMENT
    BY DEF NoPhantomSubscriber
  <2>1. CASE subscribers[s] # NULL
    BY <2>1, HandledStays DEF NoPhantomSubscriber
  <2>2. CASE subscribers[s] = NULL
    <3>1. PICK i \in Isolates :
            /\ UpsertWrite(i) /\ msg[i].sub \in Subscriptions
            /\ subscribers' = [subscribers EXCEPT ![msg[i].sub] =
                                 Merge(patch[i], Prior(read[i]), now)]
      BY <2>2, TableStep
    <3>2. msg[i].sub = s
      BY <2>2, <3>1 DEF TypeInv, TypeOK
    <3>3. msg[i].type \notin ADJUSTMENT
      BY <2>2, <3>1, <3>2 DEF AdjustsSomebody, Writing, UpsertWrite
    <3>4. msg[i] \in handled'
      BY <3>1, <3>3 DEF UpsertWrite
    <3> QED BY <3>2, <3>3, <3>4
  <2> QED BY <2>1, <2>2
<1> QED BY <1>1, <1>2, <1>3

(* However requests interleave, die and throw, a row exists only where a     *)
(* message of the subscription's own was handled.                            *)
THEOREM NobodyInvented == Spec => []NoPhantomSubscriber
<1>1. Init => PhantomInv
  <2> SUFFICES ASSUME Init PROVE PhantomInv
    OBVIOUS
  <2>1. TypeInv
    BY TypeInit, BusyInit DEF TypeInv
  <2> QED BY <2>1 DEF Init, PhantomInv, EmailIsSold, AdjustsSomebody, Writing, NoPhantomSubscriber
<1>2. PhantomInv => NoPhantomSubscriber
  BY DEF PhantomInv
<1> QED BY <1>1, <1>2, PhantomStep, PTL DEF Spec

-----------------------------------------------------------------------------
(* A step of one request leaves the locals of the others alone.              *)
Act(i) ==
    \/ Advance(i)
    \/ Throw(i)
    \/ Crash(i)
    \/ \E m \in Messages : Deliver(i, m) \/ DeliverCopy(i, m)

LEMMA NextIsAct == Next => Tick \/ \E i \in Isolates : Act(i)
  BY DEF Next, Act

LEMMA OthersWait ==
    ASSUME TypeInv, NEW i \in Isolates, NEW j \in Isolates \ {i}, Act(i)
    PROVE  /\ pc'[j] = pc[j] /\ msg'[j] = msg[j] /\ at'[j] = at[j]
           /\ read'[j] = read[j] /\ patch'[j] = patch[j]
           /\ j \in crossed => j \in crossed'
           /\ j \in abreast => j \in abreast'
<1> DEFINE Goal == /\ pc'[j] = pc[j] /\ msg'[j] = msg[j] /\ at'[j] = at[j]
                   /\ read'[j] = read[j] /\ patch'[j] = patch[j]
                   /\ j \in crossed => j \in crossed'
                   /\ j \in abreast => j \in abreast'
<1> USE DEF TypeInv, TypeOK, local, history, outcome, overlap, Goto
<1>1. ASSUME NEW m \in Messages, Receive(i, m) PROVE Goal
  BY <1>1 DEF Receive
<1>2. ASSUME Leave(i) PROVE Goal
  BY <1>2 DEF Leave
<1>3. CASE Dedupe(i) \/ Respond(i) \/ RecordFailure(i) \/ Crash(i)
  BY <1>2, <1>3 DEF Dedupe, Respond, RecordFailure, Crash
<1>4. CASE Apply(i) \/ UpsertRead(i) \/ UpsertWrite(i) \/ InsertAdjustment(i)
              \/ RecordEvent(i) \/ Throw(i)
  BY <1>4 DEF Apply, Ignore, ReadForAdjustment, ReadForGrant, LookUpEmail, Grant, Cancel,
              Expire, UpsertAtOnce, ReadForPastDue, UpsertRead, UpsertWrite,
              InsertAdjustment, RecordEvent, Throw
<1> QED BY <1>1, <1>3, <1>4 DEF Act, Advance, Deliver, DeliverCopy

(* The table, and what is remembered of its writes, changes in one statement.*)
LEMMA OnlyWrites ==
    ASSUME NEW i \in Isolates, Act(i)
    PROVE  UpsertWrite(i) \/ UNCHANGED <<subscribers, written, overwritten>>
<1> USE DEF db, history, outcome, overlap
<1>1. ASSUME Leave(i) PROVE UNCHANGED overwritten
  BY <1>1 DEF Leave
<1>2. ASSUME NEW m \in Messages, Receive(i, m)
      PROVE  UNCHANGED <<subscribers, written, overwritten>>
  BY <1>2 DEF Receive
<1> QED BY <1>1, <1>2
      DEF Act, Advance, Apply, Deliver, DeliverCopy, Dedupe, Ignore, ReadForAdjustment,
          ReadForGrant, LookUpEmail, Cancel, Expire, UpsertAtOnce, ReadForPastDue, UpsertRead,
          InsertAdjustment, RecordEvent, Respond, RecordFailure, Throw, Crash

-----------------------------------------------------------------------------
(* Once.  A message that was written has a row in the events table, or a     *)
(* request that is about to give it one, or lost the request that would      *)
(* have; and a request that has found no row for it runs beside the one that *)
(* is about to, or comes after the one that was lost.                        *)
Before == {"apply", "email", "upsert", "write"}
After == {"adjust", "handled", "failed"}

Together ==
    \A i, j \in Isolates :
        i # j /\ pc[i] # "idle" /\ pc[j] # "idle" /\ msg[i] = msg[j] => i \in abreast

Recorded(m) ==
    \/ events[m.id] # NULL
    \/ m \in unrecorded
    \/ \E i \in Isolates : pc[i] \in After /\ msg[i] = m

Excused(i) ==
    pc[i] \in Before /\ msg[i].id # NULL /\ msg[i] \in written
        => i \in abreast \/ msg[i] \in unrecorded

OnceInv ==
    /\ TypeInv
    /\ Together
    /\ \A m \in written : m.id # NULL => Recorded(m)
    /\ \A i \in Isolates : Excused(i)

LEMMA TogetherStep ==
    ASSUME OnceInv, [Next]_vars
    PROVE  Together'
<1> USE DEF OnceInv, TypeInv, TypeOK
<1>1. CASE UNCHANGED vars \/ Tick
  BY <1>1 DEF vars, Tick, Together, local, history, overlap
<1>2. ASSUME NEW k \in Isolates, Act(k) PROVE Together'
  <2>1. CASE \E m \in Messages : Receive(k, m)
    BY <2>1 DEF Receive, InFlight, Together, Goto
  <2>2. CASE \A m \in Messages : ~Receive(k, m)
    <3>1. \/ pc'[k] = "idle"
          \/ pc[k] # "idle" /\ msg'[k] = msg[k] /\ (k \in abreast => k \in abreast')
      BY <1>2, <2>2
      DEF Act, Advance, Apply, Deliver, DeliverCopy, Dedupe, Ignore, ReadForAdjustment,
          ReadForGrant, LookUpEmail, Grant, Cancel, Expire, UpsertAtOnce, ReadForPastDue,
          UpsertRead, UpsertWrite, InsertAdjustment, RecordEvent, Respond, RecordFailure,
          Throw, Crash, Leave, AtApply, local, history, overlap
    <3> SUFFICES ASSUME NEW i \in Isolates, NEW j \in Isolates, i # j,
                        pc'[i] # "idle", pc'[j] # "idle", msg'[i] = msg'[j]
                 PROVE  i \in abreast'
      BY DEF Together
    <3>2. \A l \in Isolates \ {k} : /\ pc'[l] = pc[l] /\ msg'[l] = msg[l]
                                    /\ l \in abreast => l \in abreast'
      BY <1>2, OthersWait
    <3>3. pc[i] # "idle" /\ pc[j] # "idle" /\ msg[i] = msg[j]
      BY <3>1, <3>2
    <3> QED BY <3>1, <3>2, <3>3 DEF Together
  <2> QED BY <2>1, <2>2
<1> QED BY <1>1, <1>2, NextIsAct

(* What one request does to the record of its message.                       *)
LEMMA RecordedStep ==
    ASSUME OnceInv, NEW k \in Isolates, Act(k)
    PROVE  /\ \A e \in EventIds : events[e] # NULL => events'[e] # NULL
           /\ \/ unrecorded \subseteq unrecorded'
              \/ /\ msg[k] \in Messages /\ pc[k] # "idle"
                 /\ unrecorded' = unrecorded \ {msg[k]}
                 /\ msg[k].id # NULL => events'[msg[k].id] # NULL
           /\ pc[k] \in After /\ msg[k] \in written /\ msg[k].id # NULL
                => \/ pc'[k] \in After /\ msg'[k] = msg[k]
                   \/ msg[k] \in unrecorded'
                   \/ events'[msg[k].id] # NULL
<1> DEFINE Goal ==
           /\ \A e \in EventIds : events[e] # NULL => events'[e] # NULL
           /\ \/ unrecorded \subseteq unrecorded'
              \/ /\ msg[k] \in Messages /\ pc[k] # "idle"
                 /\ unrecorded' = unrecorded \ {msg[k]}
                 /\ msg[k].id # NULL => events'[msg[k].id] # NULL
           /\ pc[k] \in After /\ msg[k] \in written /\ msg[k].id # NULL
                => \/ pc'[k] \in After /\ msg'[k] = msg[k]
                   \/ msg[k] \in unrecorded'
                   \/ events'[msg[k].id] # NULL
<1> USE DEF OnceInv, TypeInv, TypeOK, After, db, local, history, outcome, overlap, Goto
<1>1. CASE RecordEvent(k) \/ RecordFailure(k)
  <2>1. msg[k] \in Messages /\ msg[k].id \in EventIds \cup {NULL}
    BY <1>1, MessageFields DEF RecordEvent, RecordFailure, Busy
  <2>2. /\ unrecorded' = unrecorded \ {msg[k]} /\ pc[k] # "idle"
        /\ \/ msg[k].id = NULL /\ events' = events
           \/ /\ msg[k].id # NULL
              /\ \E o \in Outcomes : events' = [events EXCEPT ![msg[k].id] = o]
    BY <1>1 DEF RecordEvent, RecordFailure, Outcomes
  <2>3. NULL \notin Outcomes BY OutcomeAssumption
  <2> HIDE DEF db, local, history, outcome, overlap, Goto
  <2>4. CASE msg[k].id = NULL
    BY <2>1, <2>2, <2>4
  <2>5. CASE msg[k].id # NULL
    <3>1. PICK o \in Outcomes : events' = [events EXCEPT ![msg[k].id] = o]
      BY <2>2, <2>5
    <3> QED BY <2>1, <2>2, <2>3, <2>5, <3>1
  <2> QED BY <2>4, <2>5
<1>2. CASE Crash(k)
  BY <1>2 DEF Crash
<1>3. CASE InsertAdjustment(k) \/ Throw(k)
  BY <1>3 DEF InsertAdjustment, Throw
<1>4. CASE Dedupe(k) \/ Apply(k) \/ UpsertRead(k) \/ UpsertWrite(k) \/ Respond(k)
  BY <1>4 DEF Apply, Dedupe, Ignore, ReadForAdjustment, ReadForGrant, LookUpEmail, Cancel,
              Expire, UpsertAtOnce, ReadForPastDue, UpsertRead, UpsertWrite, Respond, AtApply
<1>5. ASSUME NEW m \in Messages, Receive(k, m) PROVE Goal
  BY <1>5 DEF Receive
<1> QED BY <1>1, <1>2, <1>3, <1>4, <1>5 DEF Act, Advance, Deliver, DeliverCopy

LEMMA OnceStep ==
    ASSUME OnceInv, [Next]_vars
    PROVE  OnceInv'
<1>1. TypeInv' /\ Together'
  BY TypeStep, TogetherStep DEF OnceInv
<1>2. CASE UNCHANGED vars \/ Tick
  BY <1>1, <1>2 DEF vars, Tick, OnceInv, Recorded, Excused, db, local, history, outcome, overlap
<1>3. ASSUME NEW k \in Isolates, Act(k) PROVE OnceInv'
  <2>1. TypeInv /\ Together
    BY DEF OnceInv
  <2>2. \/ written' = written
        \/ /\ UpsertWrite(k) /\ pc[k] = "write" /\ pc'[k] \in After /\ msg'[k] = msg[k]
           /\ written' = written \cup {msg[k]} /\ msg[k] \in Messages
    BY <1>3, <2>1, OnlyWrites DEF UpsertWrite, After, Goto, TypeInv, TypeOK, Busy
  <2>3. \A l \in Isolates \ {k} : /\ pc'[l] = pc[l] /\ msg'[l] = msg[l]
                                  /\ l \in abreast => l \in abreast'
    BY <1>3, <2>1, OthersWait
  <2>4. ASSUME NEW m \in written', m.id # NULL PROVE Recorded(m)'
    <3>1. CASE m \notin written
      BY <2>2, <3>1 DEF Recorded
    <3>2. CASE m \in written
      <4>1. m.id \in EventIds
        BY <2>1, <2>4, <3>2, MessageFields DEF TypeInv, TypeOK
      <4>2. CASE events[m.id] # NULL
        BY <1>3, <4>1, <4>2, RecordedStep DEF Recorded
      <4>3. CASE m \in unrecorded
        BY <1>3, <2>4, <4>3, RecordedStep DEF Recorded
      <4>4. ASSUME NEW l \in Isolates, pc[l] \in After, msg[l] = m PROVE Recorded(m)'
        <5>1. CASE l = k
          BY <1>3, <2>4, <3>2, <4>4, <5>1, RecordedStep DEF Recorded
        <5>2. CASE l # k
          BY <2>3, <4>4, <5>2 DEF Recorded
        <5> QED BY <5>1, <5>2
      <4> QED BY <2>4, <3>2, <4>2, <4>3, <4>4 DEF OnceInv, Recorded
    <3> QED BY <3>1, <3>2
  <2>5. ASSUME NEW i \in Isolates PROVE Excused(i)'
    <3> SUFFICES ASSUME pc'[i] \in Before, msg'[i].id # NULL, msg'[i] \in written'
                 PROVE  i \in abreast' \/ msg'[i] \in unrecorded'
      BY DEF Excused
    <3>1. CASE i = k
      <4>1. CASE pc[k] \in Before
        <5>1. /\ msg'[k] = msg[k] /\ abreast' = abreast /\ unrecorded' = unrecorded
              /\ written' = written
          BY <1>3, <2>1, <2>2, <3>1, <4>1
          DEF Act, Advance, Apply, Deliver, DeliverCopy, Receive, Dedupe, Ignore,
              ReadForAdjustment, ReadForGrant, LookUpEmail, Grant, Cancel, Expire,
              UpsertAtOnce, ReadForPastDue, UpsertRead, UpsertWrite, InsertAdjustment,
              RecordEvent, Respond, RecordFailure, Throw, Crash, Leave, Before, After, Goto,
              TypeInv, TypeOK, local, history, outcome, overlap
        <5> QED BY <3>1, <4>1, <5>1 DEF OnceInv, Excused
      <4>2. CASE pc[k] \notin Before
        <5>1. \/ Dedupe(k)
              \/ \E m \in Messages : Receive(k, m)
          BY <1>3, <2>1, <3>1, <4>2
          DEF Act, Advance, Apply, Deliver, DeliverCopy, Ignore, ReadForAdjustment,
              ReadForGrant, LookUpEmail, Cancel, Expire, ReadForPastDue, AtApply,
              UpsertRead, UpsertWrite, InsertAdjustment, RecordEvent, Respond, RecordFailure,
              Throw, Crash, Leave, Before, Goto, TypeInv, TypeOK
        <5>2. CASE \E m \in Messages : Receive(k, m)
          <6>1. msg'[k].id = NULL
            BY <2>1, <3>1, <5>2 DEF Receive, Goto, Before, TypeInv, TypeOK
          <6> QED BY <3>1, <6>1
        <5>3. CASE Dedupe(k)
          <6>1. /\ events[msg[k].id] = NULL /\ msg' = msg /\ abreast' = abreast
                /\ unrecorded' = unrecorded /\ written' = written /\ pc[k] = "dedupe"
            BY <2>1, <3>1, <5>3
            DEF Dedupe, Leave, Before, TypeInv, TypeOK, local, overlap, outcome
          <6>2. msg[k] \in written /\ msg[k].id # NULL
            BY <3>1, <6>1
          <6>3. Recorded(msg[k])
            BY <6>2 DEF OnceInv
          <6>4. CASE msg[k] \in unrecorded
            BY <3>1, <6>1, <6>4
          <6>5. ASSUME NEW l \in Isolates, pc[l] \in After, msg[l] = msg[k]
                PROVE  k \in abreast
            BY <2>1, <6>1, <6>5 DEF Together, After
          <6> QED BY <3>1, <6>1, <6>3, <6>4, <6>5 DEF Recorded
        <5> QED BY <5>1, <5>2, <5>3
      <4> QED BY <4>1, <4>2
    <3>2. CASE i # k
      <4>1. pc[i] = pc'[i] /\ msg[i] = msg'[i] /\ (i \in abreast => i \in abreast')
        BY <2>3, <3>2
      <4>2. CASE msg[i] = msg[k] /\ pc[k] # "idle"
        BY <2>1, <3>2, <4>1, <4>2 DEF Together, Before
      <4>3. CASE ~(msg[i] = msg[k] /\ pc[k] # "idle")
        <5>1. msg[i] \in written
          BY <2>2, <4>1, <4>3
        <5>2. msg[i] \in unrecorded => msg[i] \in unrecorded'
          BY <1>3, <4>3, RecordedStep
        <5> QED BY <4>1, <5>1, <5>2 DEF OnceInv, Excused
      <4> QED BY <4>2, <4>3
    <3> QED BY <3>1, <3>2
  <2> QED BY <1>1, <2>4, <2>5 DEF OnceInv
<1> QED BY <1>2, <1>3, NextIsAct

(* However requests interleave, die and throw, a message is written a second *)
(* time only by a request that ran beside another for it, or after one that  *)
(* died between its write and the event's row.                               *)
THEOREM WrittenOnce == Spec => AppliedOnce
<1>1. Init => OnceInv
  <2> SUFFICES ASSUME Init PROVE OnceInv
    OBVIOUS
  <2>1. TypeInv
    BY TypeInit, BusyInit DEF TypeInv
  <2> QED BY <2>1 DEF Init, OnceInv, Together, Recorded, Excused, Before
<1>2. OnceInv /\ [Next]_vars => OnceInv'
  BY OnceStep
<1>3. OnceInv /\ [Next]_vars =>
        [\A i \in Isolates :
          Writes(i) /\ msg[i].id # NULL /\ msg[i] \in written
          => i \in abreast \/ msg[i] \in unrecorded]_vars
  BY DEF OnceInv, Excused, Before, Writes
<1> QED BY <1>1, <1>2, <1>3, PTL DEF Spec, AppliedOnce

-----------------------------------------------------------------------------
(* The contract.  The invariant is that the patch a request holds is what    *)
(* its webhook asks of the record as it now stands, though it was put        *)
(* together from a row read statements ago, if no other request has written  *)
(* the row since; and of a row that once stood, if one has.                  *)
Asked(m, p, old, t) ==
    \/ Revokes(m) /\ p = RevokePatch(t)
    \/ m.type \in GRACE /\ p = CancelPatch(m)
    \/ m.type \in PAST_DUE /\ p = PastDuePatch(old.active_until, t)
    \/ /\ m.type \in ACTIVE /\ ResolveTier(m.price) # NULL
       /\ \E email \in Emails \cup {NULL}, key \in Nat :
             /\ p = GrantPatch(m, email, key)
             /\ m.email # NULL => email = m.email
             /\ m.email = NULL /\ old.email # NULL => email = NULL
             /\ old.api_key # NULL => key = old.api_key

OnFile(i) == Prior(subscribers[msg[i].sub])

(* Of any request: what it holds is asked of some row it has read.           *)
Looked(j) ==
    /\ pc[j] = "email" => msg[j].email = NULL /\ Prior(read[j]).email = NULL
    /\ pc[j] \in {"upsert", "write"} =>
          \E row \in Row \cup {NULL} : Asked(msg[j], patch[j], Prior(row), at[j])

(* Of one whose row nobody has written since: it is asked of the row on file.*)
Current(j) ==
    /\ pc[j] \in {"email", "write"} => read[j] = subscribers[msg[j].sub]
    /\ pc[j] \in {"upsert", "write"} => Asked(msg[j], patch[j], OnFile(j), at[j])

InTime == \A i \in Isolates : pc[i] # "idle" => now <= at[i] + RequestLife

RequestsInv ==
    /\ CeilingInv
    /\ InTime
    /\ \A j \in Isolates : Looked(j)
    /\ \A j \in Isolates \ crossed : Current(j)

(* An effect is the whole of what a webhook may do to a record.              *)
LEMMA MergeIsEffect ==
    ASSUME NEW m \in Messages, NEW p \in Patch, NEW row \in Row \cup {NULL},
           NEW t \in Time, NEW n \in Time, Asked(m, p, Prior(row), t)
    PROVE  Contract!Effect(m, IF row = NULL THEN Contract!Absent ELSE row,
                           Merge(p, Prior(row), n))
<1> DEFINE old == IF row = NULL THEN Contract!Absent ELSE row
           new == Merge(p, Prior(row), n)
<1>1. /\ old.email = Prior(row).email /\ old.tier = Prior(row).tier
      /\ old.active_until = Prior(row).active_until
      /\ old.expires_at = Prior(row).expires_at /\ old.api_key = Prior(row).api_key
  BY DEF Prior, Blank, Contract!Absent
<1>2. /\ new.email = Coalesce(p.email, old.email) /\ new.tier = Coalesce(p.tier, old.tier)
      /\ new.active = p.active
      /\ new.active_until = Coalesce(p.active_until, old.active_until)
      /\ new.expires_at = Coalesce(p.expires_at, old.expires_at)
      /\ new.api_key = Coalesce(old.api_key, p.api_key)
  BY <1>1 DEF Merge
<1>3. /\ old.active_until \in Nat \cup {NULL} /\ old.api_key \in Nat \cup {NULL}
      /\ old.expires_at \in Nat \cup {NULL}
  BY <1>1, PriorType DEF Row, MaybeTime, Time
<1>4. NULL \notin Nat
  BY NullAssumption
<1>5. Asked(m, p, old, t)
  BY <1>1 DEF Asked
<1> HIDE DEF old, new
<1>6. CASE Revokes(m) /\ p = RevokePatch(t)
  <2>1. /\ p.email = NULL /\ p.tier = NULL /\ p.active = 0 /\ p.active_until = t
        /\ p.expires_at = t /\ p.api_key = NULL
    BY <1>6 DEF RevokePatch, NoPatch
  <2>2. t # NULL
    BY <1>4 DEF Time
  <2>3. /\ new.email = old.email /\ new.tier = old.tier /\ new.api_key = old.api_key
        /\ new.active = 0 /\ new.active_until = t /\ new.expires_at = t
    BY <1>2, <2>1, <2>2 DEF Coalesce
  <2>4. Contract!Revoked(m, old, new)
    BY <1>6, <2>2, <2>3
    DEF Contract!Revoked, Contract!Unchanged, Contract!HARD_REVOKE, Contract!ADJUSTMENT,
        Contract!DecideAdjustment, Contract!REVOKING, Contract!SETTLED, Revokes, HARD_REVOKE,
        ADJUSTMENT, DecideAdjustment, REVOKING, SETTLED
  <2> QED BY <2>4 DEF Contract!Effect, old, new
<1>7. CASE m.type \in GRACE /\ p = CancelPatch(m)
  <2>1. /\ p.email = NULL /\ p.tier = NULL /\ p.active = 0 /\ p.active_until = m.period
        /\ p.expires_at = NULL /\ p.api_key = NULL
    BY <1>7 DEF CancelPatch, NoPatch
  <2>2. /\ new.email = old.email /\ new.tier = old.tier /\ new.api_key = old.api_key
        /\ new.active = 0 /\ new.expires_at = old.expires_at
        /\ new.active_until = Coalesce(m.period, old.active_until)
    BY <1>2, <2>1 DEF Coalesce
  <2>3. Contract!Cancelled(m, old, new)
    BY <1>7, <2>2
    DEF Contract!Cancelled, Contract!Unchanged, Contract!GRACE, GRACE, Contract!Coalesce, Coalesce
  <2> QED BY <2>3 DEF Contract!Effect, old, new
<1>8. CASE m.type \in PAST_DUE /\ p = PastDuePatch(old.active_until, t)
  <2>1. /\ p.email = NULL /\ p.tier = NULL /\ p.active = 0
        /\ p.expires_at = NULL /\ p.api_key = NULL
        /\ p.active_until = IF old.active_until = NULL THEN t + PastDueGrace
                            ELSE Later(old.active_until, t + PastDueGrace)
    BY <1>8 DEF PastDuePatch, NoPatch
  <2>2. t \in Nat /\ PastDueGrace \in Nat
    BY BoundAssumption DEF Time
  <2>3. /\ p.active_until \in Nat
        /\ old.active_until # NULL => p.active_until >= old.active_until
    BY <1>3, <2>1, <2>2 DEF Later
  <2>4. /\ new.email = old.email /\ new.tier = old.tier /\ new.api_key = old.api_key
        /\ new.active = 0 /\ new.expires_at = old.expires_at
        /\ new.active_until = p.active_until
    BY <1>2, <1>4, <2>1, <2>3 DEF Coalesce
  <2>5. Contract!PastDue(m, old, new)
    BY <1>4, <1>8, <2>3, <2>4
    DEF Contract!PastDue, Contract!Unchanged, Contract!PAST_DUE, PAST_DUE
  <2> QED BY <2>5 DEF Contract!Effect, old, new
<1>9. CASE /\ m.type \in ACTIVE /\ ResolveTier(m.price) # NULL
           /\ \E email \in Emails \cup {NULL}, key \in Nat :
                 /\ p = GrantPatch(m, email, key)
                 /\ m.email # NULL => email = m.email
                 /\ m.email = NULL /\ old.email # NULL => email = NULL
                 /\ old.api_key # NULL => key = old.api_key
  <2>1. PICK email \in Emails \cup {NULL}, key \in Nat :
           /\ p = GrantPatch(m, email, key)
           /\ m.email # NULL => email = m.email
           /\ m.email = NULL /\ old.email # NULL => email = NULL
           /\ old.api_key # NULL => key = old.api_key
    BY <1>9
  <2>2. /\ p.email = email /\ p.tier = ResolveTier(m.price) /\ p.active = 1
        /\ p.active_until = m.period /\ p.expires_at = NULL /\ p.api_key = key
    BY <2>1 DEF GrantPatch, NoPatch
  <2>3. /\ new.tier = ResolveTier(m.price) /\ new.active = 1
        /\ new.active_until = Coalesce(m.period, old.active_until)
        /\ new.expires_at = old.expires_at
        /\ new.api_key = key
    BY <1>2, <1>9, <2>1, <2>2 DEF Coalesce
  <2>4. /\ m.email # NULL => new.email = m.email
        /\ m.email = NULL /\ old.email # NULL => new.email = old.email
    BY <1>2, <2>1, <2>2 DEF Coalesce
  <2>5. key # NULL
    BY <1>4, <2>1
  <2>6. /\ Contract!ResolveTier(m.price) = ResolveTier(m.price)
        /\ Contract!ACTIVE = ACTIVE
        /\ new.active_until = Contract!Coalesce(m.period, old.active_until)
        /\ new.api_key = Contract!Coalesce(old.api_key, new.api_key)
    BY <2>1, <2>3
    DEF Contract!ResolveTier, ResolveTier, Contract!ACTIVE, ACTIVE, Contract!Coalesce, Coalesce
  <2>7. Contract!Granted(m, old, new)
    BY <1>9, <2>3, <2>4, <2>5, <2>6 DEF Contract!Granted, Contract!Unchanged
  <2> QED BY <2>7 DEF Contract!Effect, old, new
<1> QED BY <1>5, <1>6, <1>7, <1>8, <1>9 DEF Asked

(* No request outlives its time limit, however many there are.               *)
LEMMA InTimeStep ==
    ASSUME TypeInv, InTime, [Next]_vars
    PROVE  InTime'
<1> SUFFICES ASSUME NEW j \in Isolates, pc'[j] # "idle"
             PROVE  now' <= at'[j] + RequestLife
  BY DEF InTime
<1> USE DEF TypeInv, TypeOK, InTime, Time, Goto, local
<1>0. RequestLife \in Nat
  BY BoundAssumption
<1>1. CASE UNCHANGED vars
  BY <1>1 DEF vars
<1>2. CASE Tick
  <2>1. pc' = pc /\ at' = at /\ now' = now + 1 /\ now < at[j] + RequestLife
    BY <1>2 DEF Tick
  <2> QED BY <1>0, <2>1
<1>3. ASSUME NEW i \in Isolates, NEW m \in Messages, Receive(i, m)
      PROVE  now' <= at'[j] + RequestLife
  <2>1. now' = now /\ now <= now + RequestLife
    BY <1>0, <1>3 DEF Receive
  <2>2. CASE j = i
    BY <1>3, <2>1, <2>2 DEF Receive
  <2>3. CASE j # i
    BY <1>3, <2>1, <2>3 DEF Receive
  <2> QED BY <2>2, <2>3
<1>4. ASSUME NEW i \in Isolates, Leave(i), now' = now
      PROVE  now' <= at'[j] + RequestLife
  BY <1>4 DEF Leave
<1>5. ASSUME NEW i \in Isolates, Advance(i) \/ Throw(i) \/ Crash(i)
      PROVE  now' <= at'[j] + RequestLife
  <2>1. /\ now' = now
        /\ Leave(i) \/ (at' = at /\ pc[i] # "idle" /\ \A k \in Isolates : k # i => pc'[k] = pc[k])
    BY <1>5 DEF Advance, Apply, Dedupe, Ignore, ReadForAdjustment, ReadForGrant, LookUpEmail,
                Grant, Cancel, Expire, UpsertAtOnce, ReadForPastDue, AtApply, UpsertRead,
                UpsertWrite, InsertAdjustment, RecordEvent, Respond, RecordFailure, Throw, Crash
  <2>2. CASE Leave(i)
    BY <1>4, <2>1, <2>2
  <2>3. CASE at' = at /\ pc[i] # "idle" /\ \A k \in Isolates : k # i => pc'[k] = pc[k]
    BY <2>1, <2>3
  <2> QED BY <2>1, <2>2, <2>3
<1> QED BY <1>1, <1>2, <1>3, <1>5 DEF Next, Deliver, DeliverCopy

(* What an activation asks, whether the address was at hand or looked up.    *)
LEMMA GrantAsked ==
    ASSUME TypeInv, NEW i \in Isolates, NEW row \in Row \cup {NULL},
           NEW email \in Emails \cup {NULL}, Grant(i, Prior(row), email),
           msg[i].type \in ACTIVE, ResolveTier(msg[i].price) # NULL,
           msg[i].email # NULL => email = msg[i].email,
           msg[i].email = NULL /\ Prior(row).email # NULL => email = NULL
    PROVE  Asked(msg[i], patch'[i], Prior(row), at[i])
<1> DEFINE key == Coalesce(Prior(row).api_key, minted + 1)
<1>1. key \in Nat /\ (Prior(row).api_key # NULL => key = Prior(row).api_key)
  BY PriorType DEF Coalesce, Row, TypeInv, TypeOK
<1>2. patch'[i] = GrantPatch(msg[i], email, key)
  BY DEF Grant, TypeInv, TypeOK
<1> HIDE DEF key
<1> QED BY <1>1, <1>2 DEF Asked

(* What stays of a request's while others take their steps.                  *)
LEMMA RowWaits ==
    ASSUME TypeInv, NEW i \in Isolates, NEW j \in Isolates \ {i}, Act(i),
           pc[j] \in {"email", "upsert", "write"}, j \notin crossed'
    PROVE  j \notin crossed /\ subscribers'[msg[j].sub] = subscribers[msg[j].sub]
<1>1. j \notin crossed
  BY OthersWait
<1>2. CASE UpsertWrite(i)
  <2>1. msg[j].sub # msg[i].sub
    BY <1>2 DEF UpsertWrite, HasRead
  <2> QED BY <1>1, <1>2, <2>1 DEF UpsertWrite, TypeInv, TypeOK, Busy
<1> QED BY <1>1, <1>2, OnlyWrites

LEMMA OthersLooked ==
    ASSUME RequestsInv, NEW i \in Isolates, NEW j \in Isolates \ {i}, Act(i)
    PROVE  Looked(j)' /\ (j \notin crossed' => Current(j)')
<1>1. TypeInv
  BY DEF RequestsInv, CeilingInv
<1>2. /\ pc'[j] = pc[j] /\ msg'[j] = msg[j] /\ at'[j] = at[j]
      /\ read'[j] = read[j] /\ patch'[j] = patch[j]
  BY <1>1, OthersWait
<1>3. Looked(j)'
  BY <1>2 DEF RequestsInv, Looked
<1>4. ASSUME j \notin crossed' PROVE Current(j)'
  <2>1. CASE pc[j] \in {"email", "upsert", "write"}
    <3>1. j \notin crossed /\ subscribers'[msg[j].sub] = subscribers[msg[j].sub]
      BY <1>1, <1>4, <2>1, RowWaits
    <3>2. Current(j)
      BY <3>1 DEF RequestsInv
    <3> QED BY <1>2, <3>1, <3>2 DEF Current, OnFile
  <2> QED BY <1>2, <2>1 DEF Current
<1> QED BY <1>3, <1>4

LEMMA OwnLooked ==
    ASSUME RequestsInv, NEW i \in Isolates, Act(i)
    PROVE  Looked(i)' /\ (i \notin crossed' => Current(i)')
<1> DEFINE Goal == Looked(i)' /\ (i \notin crossed' => Current(i)')
<1>0. TypeInv /\ EmailIsSold /\ Looked(i) /\ (i \notin crossed => Current(i))
  BY DEF RequestsInv, CeilingInv
<1> USE DEF db, local, history, outcome, overlap, faults, Goto
<1>3. ASSUME pc'[i] \notin {"email", "upsert", "write"} PROVE Goal
  BY <1>3 DEF Looked, Current
<1>4. ASSUME pc'[i] \in {"upsert", "write"}, UNCHANGED <<subscribers, msg, at>>,
             Asked(msg[i], patch'[i], OnFile(i), at[i]),
             pc'[i] = "write" => read'[i] = subscribers[msg[i].sub],
             msg[i].sub \in Subscriptions
      PROVE  Goal
  <2>1. subscribers[msg[i].sub] \in Row \cup {NULL}
    BY <1>0, <1>4 DEF TypeInv, TypeOK
  <2>2. Looked(i)'
    BY <1>4, <2>1 DEF Looked, OnFile
  <2>3. Current(i)'
    BY <1>4 DEF Current, OnFile
  <2> QED BY <2>2, <2>3
<1>5. ASSUME NEW m \in Messages, Receive(i, m) PROVE Goal
  BY <1>0, <1>3, <1>5 DEF Receive, TypeInv, TypeOK
<1>6. ASSUME Dedupe(i) \/ Ignore(i) \/ UpsertWrite(i) \/ InsertAdjustment(i) \/ RecordEvent(i)
                 \/ Respond(i) \/ Throw(i) \/ RecordFailure(i) \/ Crash(i)
      PROVE  Goal
  <2>1. pc'[i] \notin {"email", "upsert", "write"}
    BY <1>0, <1>6 DEF Dedupe, Ignore, UpsertWrite, InsertAdjustment, RecordEvent, Respond,
                      Throw, RecordFailure, Crash, Leave, TypeInv, TypeOK
  <2> QED BY <1>3, <2>1
<1>7. ASSUME ReadForAdjustment(i) PROVE Goal
  <2> DEFINE d == DecideAdjustment(msg[i].action, msg[i].status, msg[i].kind)
  <2>1. CASE subscribers[msg[i].sub] = NULL \/ ~d.applied \/ ~d.revoke
    <3>1. pc'[i] \in {"ignored", "adjust"}
      BY <1>0, <1>7, <2>1 DEF ReadForAdjustment, TypeInv, TypeOK
    <3> QED BY <1>3, <3>1
  <2>2. CASE ~(subscribers[msg[i].sub] = NULL \/ ~d.applied \/ ~d.revoke)
    <3>1. /\ patch'[i] = RevokePatch(at[i]) /\ pc'[i] = "upsert"
          /\ UNCHANGED <<subscribers, msg, at>>
      BY <1>0, <1>7, <2>2 DEF ReadForAdjustment, TypeInv, TypeOK
    <3>2. Revokes(msg[i]) /\ msg[i].sub \in Subscriptions
      BY <1>0, <1>7, <2>2, MessageFields
      DEF ReadForAdjustment, AtApply, Revokes, TypeInv, TypeOK, Busy
    <3>3. Asked(msg[i], patch'[i], OnFile(i), at[i])
      BY <3>1, <3>2 DEF Asked
    <3> QED BY <1>4, <3>1, <3>2, <3>3
  <2> QED BY <2>1, <2>2
<1>8. ASSUME ReadForGrant(i) PROVE Goal
  <2>1. /\ msg[i] \in Messages /\ msg[i].sub \in Subscriptions
        /\ msg[i].email \in Emails \cup {NULL}
        /\ subscribers[msg[i].sub] \in Row \cup {NULL}
        /\ msg[i].type \in ACTIVE /\ ResolveTier(msg[i].price) # NULL
        /\ UNCHANGED <<subscribers, msg, at>>
    BY <1>0, <1>8, MessageFields DEF ReadForGrant, AtApply, TypeInv, Busy, TypeOK
  <2>2. CASE msg[i].email = NULL /\ OnFile(i).email = NULL
    <3>1. pc'[i] = "email" /\ read'[i] = subscribers[msg[i].sub]
      BY <1>0, <1>8, <2>2 DEF ReadForGrant, OnFile, TypeInv, TypeOK
    <3> QED BY <2>1, <2>2, <3>1 DEF Looked, Current, OnFile
  <2>3. CASE ~(msg[i].email = NULL /\ OnFile(i).email = NULL)
    <3>1. Grant(i, Prior(subscribers[msg[i].sub]), msg[i].email)
      BY <1>8, <2>3 DEF ReadForGrant, OnFile
    <3>2. pc'[i] = "upsert"
      BY <1>0, <3>1 DEF Grant, TypeInv, TypeOK
    <3>3. Asked(msg[i], patch'[i], OnFile(i), at[i])
      BY <1>0, <2>1, <3>1, GrantAsked DEF OnFile
    <3> QED BY <1>4, <2>1, <3>2, <3>3
  <2> QED BY <2>2, <2>3
<1>9. ASSUME LookUpEmail(i) PROVE Goal
  <2>1. /\ msg[i].type \in ACTIVE /\ ResolveTier(msg[i].price) # NULL
        /\ msg[i].sub \in Subscriptions /\ read[i] \in Row \cup {NULL}
        /\ CustomerEmail[msg[i].sub] \in Emails \cup {NULL}
        /\ msg[i].email = NULL /\ Prior(read[i]).email = NULL /\ pc[i] = "email"
        /\ UNCHANGED <<subscribers, msg, at, crossed>>
    BY <1>0, <1>9, MailAssumption
    DEF LookUpEmail, EmailIsSold, Looked, TypeInv, Busy, TypeOK
  <2>2. PICK found \in Emails \cup {NULL} : Grant(i, Prior(read[i]), found)
    BY <1>9, <2>1 DEF LookUpEmail
  <2>3. pc'[i] = "upsert"
    BY <1>0, <2>2 DEF Grant, TypeInv, TypeOK
  <2>4. Asked(msg[i], patch'[i], Prior(read[i]), at[i])
    BY <1>0, <2>1, <2>2, GrantAsked
  <2>5. Looked(i)'
    BY <2>1, <2>3, <2>4 DEF Looked
  <2>6. i \notin crossed => read[i] = subscribers[msg[i].sub]
    BY <1>0, <2>1 DEF Current
  <2>7. i \notin crossed' => Current(i)'
    BY <2>1, <2>3, <2>4, <2>6 DEF Current, OnFile
  <2> QED BY <2>5, <2>7
<1>10. ASSUME Cancel(i) \/ Expire(i) PROVE Goal
  <2>1. /\ UNCHANGED <<subscribers, msg, at>> /\ pc'[i] = "write"
        /\ read'[i] = subscribers[msg[i].sub] /\ msg[i].sub \in Subscriptions
    BY <1>0, <1>10, MessageFields
    DEF Cancel, Expire, AtApply, UpsertAtOnce, TypeInv, TypeOK, Busy
  <2>2. \/ msg[i].type \in GRACE /\ patch'[i] = CancelPatch(msg[i])
        \/ Revokes(msg[i]) /\ patch'[i] = RevokePatch(at[i])
    BY <1>0, <1>10 DEF Cancel, Expire, AtApply, UpsertAtOnce, Revokes, TypeInv, TypeOK
  <2>3. Asked(msg[i], patch'[i], OnFile(i), at[i])
    BY <2>2 DEF Asked
  <2> QED BY <1>4, <2>1, <2>3
<1>11. ASSUME ReadForPastDue(i) PROVE Goal
  <2>1. /\ UNCHANGED <<subscribers, msg, at>> /\ pc'[i] = "upsert"
        /\ msg[i].type \in PAST_DUE /\ msg[i].sub \in Subscriptions
        /\ patch'[i] = PastDuePatch(OnFile(i).active_until, at[i])
    BY <1>0, <1>11, MessageFields
    DEF ReadForPastDue, AtApply, OnFile, TypeInv, TypeOK, Busy
  <2>2. Asked(msg[i], patch'[i], OnFile(i), at[i])
    BY <2>1 DEF Asked
  <2> QED BY <1>4, <2>1, <2>2
<1>12. ASSUME UpsertRead(i) PROVE Goal
  <2>1. /\ UNCHANGED <<subscribers, msg, at, patch, crossed>>
        /\ pc[i] = "upsert" /\ pc'[i] = "write"
        /\ read'[i] = subscribers[msg[i].sub]
    BY <1>0, <1>12 DEF UpsertRead, TypeInv, TypeOK
  <2>2. Looked(i)'
    BY <1>0, <2>1 DEF Looked
  <2>3. i \notin crossed' => Current(i)'
    BY <1>0, <2>1 DEF Current, OnFile
  <2> QED BY <2>2, <2>3
<1> QED
  BY <1>5, <1>6, <1>7, <1>8, <1>9, <1>10, <1>11, <1>12
  DEF Act, Advance, Apply, Deliver, DeliverCopy

LEMMA RequestsStep ==
    ASSUME RequestsInv, [Next]_vars
    PROVE  RequestsInv'
<1>1. CeilingInv' /\ InTime'
  BY CeilingStep, InTimeStep DEF RequestsInv, CeilingInv
<1>2. CASE UNCHANGED vars \/ Tick
  BY <1>1, <1>2
  DEF RequestsInv, Looked, Current, OnFile, Tick, vars, db, local, history, overlap
<1>3. ASSUME NEW i \in Isolates, Act(i) PROVE RequestsInv'
  <2>1. \A j \in Isolates : Looked(j)' /\ (j \notin crossed' => Current(j)')
    BY <1>3, OwnLooked, OthersLooked
  <2> QED BY <1>1, <2>1 DEF RequestsInv
<1> QED BY <1>2, <1>3, NextIsAct

LEMMA RequestsInit == Init => RequestsInv
<1> SUFFICES ASSUME Init PROVE RequestsInv
  OBVIOUS
<1>1. TypeInv
  BY TypeInit, BusyInit DEF TypeInv
<1>2. EmailIsSold /\ CeilingReached
  BY DEF Init, EmailIsSold, CeilingReached, Reached, NoPatch
<1> QED BY <1>1, <1>2 DEF Init, RequestsInv, CeilingInv, Looked, Current, InTime

(* What a write puts into the table, and where it comes from.                *)
LEMMA WriteMerges ==
    ASSUME RequestsInv, NEW i \in Isolates, UpsertWrite(i)
    PROVE  LET s == msg[i].sub
               new == Merge(patch[i], Prior(read[i]), now)
           IN  /\ msg[i] \in Messages /\ s \in Subscriptions
               /\ patch[i] \in Patch /\ read[i] \in Row \cup {NULL}
               /\ at[i] \in Time /\ now \in Time
               /\ new \in Row
               /\ subscribers' = [subscribers EXCEPT ![s] = new]
               /\ \E row \in Row \cup {NULL} : Asked(msg[i], patch[i], Prior(row), at[i])
               /\ i \notin crossed => /\ read[i] = subscribers[s]
                                      /\ Asked(msg[i], patch[i], Prior(read[i]), at[i])
<1>1. TypeInv /\ Looked(i) /\ (i \notin crossed => Current(i)) /\ pc[i] = "write"
  BY DEF RequestsInv, CeilingInv, UpsertWrite
<1>2. /\ msg[i] \in Messages /\ msg[i].sub \in Subscriptions
      /\ patch[i] \in Patch /\ read[i] \in Row \cup {NULL}
      /\ at[i] \in Time /\ now \in Time
  BY <1>1 DEF TypeInv, TypeOK, Busy
<1>3. Merge(patch[i], Prior(read[i]), now) \in Row
  BY <1>2, MergeType
<1>4. i \notin crossed => /\ read[i] = subscribers[msg[i].sub]
                          /\ Asked(msg[i], patch[i], Prior(read[i]), at[i])
  BY <1>1 DEF Current, OnFile
<1> QED BY <1>1, <1>2, <1>3, <1>4 DEF UpsertWrite, Looked

(* Each step maps to a step of the contract or to a stutter, but for the     *)
(* write of a request that was crossed.                                      *)
LEMMA Maps ==
    ASSUME RequestsInv, [Next]_vars
    PROVE  [(\E i \in crossed : Writes(i)) \/ Contract!Next]_subscribers
<1>1. TypeInv /\ EmailIsSold
  BY DEF RequestsInv, CeilingInv
<1>2. CASE UNCHANGED subscribers
  BY <1>2
<1>3. ASSUME NEW i \in Isolates, UpsertWrite(i), i \notin crossed
      PROVE  Contract!Next
  <2> DEFINE s == msg[i].sub
             old == IF subscribers[s] = NULL THEN Contract!Absent ELSE subscribers[s]
             new == Merge(patch[i], Prior(subscribers[s]), now)
  <2>1. /\ msg[i] \in Messages /\ s \in Subscriptions /\ new \in Row
        /\ subscribers' = [subscribers EXCEPT ![s] = new]
    BY <1>3, WriteMerges
  <2>2. Contract!Effect(msg[i], old, new)
    BY <1>3, WriteMerges, MergeIsEffect
  <2> HIDE DEF new, old
  <2>3. subscribers'[s] = new
    BY <1>1, <2>1 DEF TypeInv, TypeOK
  <2>4. s # NULL /\ new # NULL
    BY <2>1, IdAssumption, RowAssumption
  <2> QED BY <2>1, <2>2, <2>3, <2>4 DEF Contract!Next, old
<1>4. ASSUME NEW i \in Isolates, UpsertWrite(i), i \in crossed
      PROVE  \E j \in crossed : Writes(j)
  BY <1>1, <1>4 DEF UpsertWrite, Writes, Goto, TypeInv, TypeOK
<1> QED BY <1>1, <1>2, <1>3, <1>4, TableStep

(* The handler implements the contract: whatever the webhooks, their order,  *)
(* copies, crashes and throws, and however the requests interleave, every    *)
(* change of the table is the whole effect of one webhook on the row as it   *)
(* stands, or is made by a request whose row another has written since it    *)
(* first read it.                                                            *)
THEOREM ContractKept == Spec => KeepsContract
<1>1. Init => Contract!Init
  BY DEF Init, Contract!Init
<1>2. RequestsInv /\ [Next]_vars => RequestsInv'
  BY RequestsStep
<1>3. RequestsInv /\ [Next]_vars =>
        [(\E i \in crossed : Writes(i)) \/ Contract!Next]_subscribers
  BY Maps
<1> QED BY <1>1, <1>2, <1>3, RequestsInit, PTL DEF Spec, KeepsContract

-----------------------------------------------------------------------------
(* Revocations.  A ceiling once written is in every row that is written over *)
(* the row as it stands; only a write from an older row can lose it.         *)
Capped(s) == subscribers[s] # NULL /\ subscribers[s].expires_at # NULL

CappedInv ==
    \A m \in written :
        Revokes(m) => /\ m.sub \in Subscriptions
                      /\ m.sub \notin overwritten => Capped(m.sub)

(* The classes of event do not overlap. *)
LEMMA Classes ==
    ASSUME NEW m, Revokes(m)
    PROVE  m.type \notin ACTIVE \cup GRACE \cup PAST_DUE
  BY DEF Revokes, ACTIVE, GRACE, PAST_DUE, HARD_REVOKE, ADJUSTMENT

LEMMA CappedStep ==
    ASSUME RequestsInv, CappedInv, [Next]_vars
    PROVE  CappedInv'
<1>1. TypeInv
  BY DEF RequestsInv, CeilingInv
<1>2. CASE UNCHANGED <<subscribers, written, overwritten>>
  BY <1>2 DEF CappedInv, Capped, Revokes
<1>3. ASSUME NEW i \in Isolates, UpsertWrite(i) PROVE CappedInv'
  <2> DEFINE s == msg[i].sub
             new == Merge(patch[i], Prior(read[i]), now)
  <2>1. /\ s \in Subscriptions /\ new \in Row /\ at[i] \in Time /\ read[i] \in Row \cup {NULL}
        /\ subscribers' = [subscribers EXCEPT ![s] = new]
        /\ \E row \in Row \cup {NULL} : Asked(msg[i], patch[i], Prior(row), at[i])
    BY <1>3, WriteMerges
  <2>2. /\ written' = written \cup {msg[i]}
        /\ overwritten \subseteq overwritten'
        /\ read[i] # subscribers[s] => s \in overwritten'
    BY <1>3 DEF UpsertWrite, Overwrites
  <2>3. new # NULL /\ new.expires_at = Coalesce(patch[i].expires_at, Prior(read[i]).expires_at)
    BY <2>1, RowAssumption DEF Merge
  <2>4. Revokes(msg[i]) => new.expires_at # NULL
    <3> SUFFICES ASSUME Revokes(msg[i]) PROVE new.expires_at # NULL
      OBVIOUS
    <3>1. patch[i] = RevokePatch(at[i])
      BY <2>1, Classes DEF Asked
    <3> QED BY <2>1, <2>3, <3>1, PatchFields, NullAssumption DEF Coalesce, Time
  <2>5. read[i] = subscribers[s] /\ Capped(s) => new.expires_at # NULL
    BY <2>3 DEF Capped, Coalesce, Prior
  <2> HIDE DEF new
  <2> SUFFICES ASSUME NEW m \in written', Revokes(m)
               PROVE  m.sub \in Subscriptions /\ (m.sub \notin overwritten' => Capped(m.sub)')
    BY DEF CappedInv, Revokes
  <2>6. CASE m = msg[i]
    BY <1>1, <2>1, <2>3, <2>4, <2>6 DEF Capped, TypeInv, TypeOK
  <2>7. CASE m \in written
    <3>1. m.sub \in Subscriptions /\ (m.sub \notin overwritten => Capped(m.sub))
      BY <2>7 DEF CappedInv
    <3>2. CASE m.sub = s
      BY <1>1, <2>1, <2>2, <2>3, <2>5, <3>1, <3>2 DEF Capped, TypeInv, TypeOK
    <3>3. CASE m.sub # s
      BY <1>1, <2>1, <2>2, <3>1, <3>3 DEF Capped, TypeInv, TypeOK
    <3> QED BY <3>2, <3>3
  <2> QED BY <2>2, <2>6, <2>7
<1>4. CASE UNCHANGED vars \/ Tick
  BY <1>2, <1>4 DEF vars, Tick, db, history, outcome, overlap
<1> QED BY <1>2, <1>3, <1>4, NextIsAct, OnlyWrites

(* What was revoked stays shut, through every later activation, cancellation *)
(* and grace window, crash and retry, until a row that was read before       *)
(* another was written goes over it.                                         *)
THEOREM RevocationsHold == Spec => []RevocationHolds
<1>1. Init => RequestsInv /\ CappedInv
  BY RequestsInit DEF Init, CappedInv
<1>2. RequestsInv /\ CappedInv /\ [Next]_vars => RequestsInv' /\ CappedInv'
  BY RequestsStep, CappedStep
<1>3. RequestsInv /\ CappedInv => RevocationHolds
  <2> SUFFICES ASSUME RequestsInv, CappedInv, NEW m \in written, Revokes(m),
                      m.sub \notin overwritten
               PROVE  ~Entitled(m.sub)
    BY DEF RevocationHolds
  <2> DEFINE row == subscribers[m.sub]
  <2>1. /\ row \in Row /\ row.expires_at # NULL
        /\ row.expires_at \in Nat /\ now \in Nat /\ row.expires_at <= now
    BY DEF CappedInv, Capped, RequestsInv, CeilingInv, TypeInv, TypeOK, CeilingReached,
           Reached, Row, MaybeTime, Time
  <2> QED BY <2>1 DEF Entitled, EffectiveActive
<1> QED BY <1>1, <1>2, <1>3, PTL DEF Spec

-----------------------------------------------------------------------------
(* Why access ends.  A step shuts a subscriber out by the clock or by the    *)
(* write of a row of his; neither may do it for any other reason.            *)
EndsRightly(s) ==
    Entitled(s) /\ ~Entitled(s)' =>
        \/ now' > now /\ now' = subscribers[s].active_until
        \/ \E i \in Isolates :
              /\ Writes(i) /\ msg[i].sub = s
              /\ \/ Revokes(msg[i])
                 \/ Overwrites(i)
                 \/ /\ msg[i].type \in GRACE
                    /\ LET until == Coalesce(msg[i].period, subscribers[s].active_until)
                       IN  until # NULL => until <= now

(* A row that is open carries no ceiling.                                    *)
LEMMA OpenHasNoCeiling ==
    ASSUME CeilingInv, NEW s \in Subscriptions, Entitled(s)
    PROVE  subscribers[s] # NULL /\ subscribers[s].expires_at = NULL
<1>1. subscribers[s] # NULL
  BY DEF Entitled, EffectiveActive
<1>2. CASE subscribers[s].expires_at # NULL
  <2>1. subscribers[s].expires_at \in Nat /\ now \in Nat /\ subscribers[s].expires_at <= now
    BY <1>1, <1>2
    DEF CeilingInv, TypeInv, TypeOK, CeilingReached, Reached, Row, MaybeTime, Time
  <2> QED BY <1>2, <2>1 DEF Entitled, EffectiveActive
<1> QED BY <1>1, <1>2

LEMMA ClockEndsRightly ==
    ASSUME CeilingInv, Tick, NEW s \in Subscriptions
    PROVE  EndsRightly(s)
<1> SUFFICES ASSUME Entitled(s), ~Entitled(s)'
             PROVE  now' > now /\ now' = subscribers[s].active_until
  BY DEF EndsRightly
<1> DEFINE row == subscribers[s]
<1>1. row # NULL /\ row.expires_at = NULL
  BY OpenHasNoCeiling
<1>2. row \in Row /\ now \in Nat
  BY <1>1 DEF CeilingInv, TypeInv, TypeOK, Time
<1>3. row.active_until \in Nat \cup {NULL}
  BY <1>2 DEF Row, MaybeTime, Time
<1>4. subscribers' = subscribers /\ now' = now + 1
  BY DEF Tick, db
<1>5. EffectiveActive(row, now) /\ ~EffectiveActive(row, now + 1)
  BY <1>4 DEF Entitled
<1> HIDE DEF row
<1>6. row.active_until # NULL /\ now < row.active_until /\ ~(now + 1 < row.active_until)
  BY <1>1, <1>5 DEF EffectiveActive
<1>7. now' = row.active_until
  BY <1>2, <1>3, <1>4, <1>6
<1> QED BY <1>2, <1>4, <1>7 DEF row

LEMMA WriteEndsRightly ==
    ASSUME RequestsInv, NEW i \in Isolates, UpsertWrite(i), NEW s \in Subscriptions
    PROVE  EndsRightly(s)
<1> SUFFICES ASSUME Entitled(s), ~Entitled(s)'
             PROVE  EndsRightly(s)
  BY DEF EndsRightly
<1> DEFINE row == subscribers[s]
           m == msg[i]
           p == patch[i]
           new == Merge(p, Prior(row), now)
<1>1. CeilingInv /\ TypeInv /\ now' = now /\ Writes(i) /\ pc[i] = "write"
  BY DEF RequestsInv, CeilingInv, UpsertWrite, Writes, Goto, TypeInv, TypeOK
<1>2. m.sub = s
  BY <1>1, WriteMerges DEF Entitled, TypeInv, TypeOK
<1>o. CASE Overwrites(i)
  BY <1>1, <1>2, <1>o DEF EndsRightly
<1> SUFFICES ASSUME read[i] = row PROVE EndsRightly(s)
  BY <1>1, <1>2, <1>o DEF Overwrites
<1>3. /\ m \in Messages /\ p \in Patch /\ at[i] \in Nat /\ now \in Nat /\ new \in Row
      /\ subscribers'[s] = new
  BY <1>1, <1>2, WriteMerges DEF TypeInv, TypeOK, Time
<1>3a. PICK was \in Row \cup {NULL} : Asked(m, p, Prior(was), at[i])
  BY WriteMerges
<1>4. row # NULL /\ row.expires_at = NULL /\ Prior(row) = row /\ row \in Row
  BY <1>1, OpenHasNoCeiling DEF Prior, TypeInv, TypeOK
<1>5. row.active_until \in Nat \cup {NULL}
  BY <1>4 DEF Row, MaybeTime, Time
<1>6. EffectiveActive(row, now) /\ ~EffectiveActive(new, now)
  BY <1>1, <1>3 DEF Entitled
<1>7. /\ new.active = p.active
      /\ new.active_until = Coalesce(p.active_until, row.active_until)
      /\ new.expires_at = p.expires_at
  BY <1>4 DEF Merge, Coalesce
<1>8. new # NULL /\ NULL \notin Nat
  BY <1>3, RowAssumption, NullAssumption
<1>9. at[i] + RequestLife < at[i] + PastDueGrace /\ now <= at[i] + RequestLife
      /\ PastDueGrace \in Nat /\ RequestLife \in Nat
  BY <1>1, <1>3, BoundAssumption DEF RequestsInv, InTime
<1> HIDE DEF new
<1>10. CASE Revokes(m)
  BY <1>1, <1>2, <1>10 DEF EndsRightly
<1>11. CASE m.type \in GRACE /\ p = CancelPatch(m)
  <2>1. p.expires_at = NULL /\ p.active_until = m.period
    BY <1>11 DEF CancelPatch, NoPatch
  <2>2. m.period \in Nat \cup {NULL}
    BY <1>3, MessageFields DEF MaybeTime, Time
  <2> DEFINE until == Coalesce(m.period, row.active_until)
  <2>3. until \in Nat \cup {NULL} /\ new.active_until = until /\ new.expires_at = NULL
    BY <1>5, <1>7, <2>1, <2>2 DEF Coalesce
  <2> HIDE DEF until
  <2>4. ~(until # NULL /\ now < until)
    BY <1>6, <1>8, <2>3 DEF EffectiveActive
  <2>5. until # NULL => until <= now
    BY <1>3, <2>3, <2>4
  <2> QED BY <1>1, <1>2, <1>11, <2>5 DEF EndsRightly, until
<1>12. CASE m.type \in PAST_DUE /\ p = PastDuePatch(Prior(was).active_until, at[i])
  <2> DEFINE until == Prior(was).active_until
  <2>0. until \in Nat \cup {NULL}
    BY PriorType DEF Row, MaybeTime, Time
  <2> HIDE DEF until
  <2>1. /\ p.expires_at = NULL
        /\ p.active_until = IF until = NULL THEN at[i] + PastDueGrace
                            ELSE Later(until, at[i] + PastDueGrace)
    BY <1>12 DEF PastDuePatch, NoPatch, until
  <2>2. p.active_until \in Nat /\ now < p.active_until
    BY <1>3, <1>9, <2>0, <2>1 DEF Later
  <2>3. new.active_until # NULL /\ now < new.active_until /\ new.expires_at = NULL
    BY <1>7, <1>8, <2>1, <2>2 DEF Coalesce
  <2> QED BY <1>6, <1>8, <2>3 DEF EffectiveActive
<1>13. CASE m.type \in ACTIVE /\ \E email \in Emails \cup {NULL}, key \in Nat :
                                    p = GrantPatch(m, email, key)
  <2>1. p.active = 1 /\ p.expires_at = NULL
    BY <1>13 DEF GrantPatch, NoPatch
  <2> QED BY <1>6, <1>7, <1>8, <2>1 DEF EffectiveActive
<1> QED BY <1>3a, <1>10, <1>11, <1>12, <1>13 DEF Asked

LEMMA AccessStep ==
    ASSUME RequestsInv, [Next]_vars
    PROVE  \A s \in Subscriptions : EndsRightly(s)
<1> SUFFICES ASSUME NEW s \in Subscriptions PROVE EndsRightly(s)
  OBVIOUS
<1>1. TypeInv /\ EmailIsSold /\ CeilingInv
  BY DEF RequestsInv, CeilingInv
<1>2. CASE Tick
  BY <1>1, <1>2, ClockEndsRightly
<1>3. CASE \E i \in Isolates : UpsertWrite(i)
  BY <1>3, WriteEndsRightly
<1>4. CASE ~Tick /\ UNCHANGED subscribers
  <2>1. now' = now
    BY <1>4 DEF Next, Advance, Apply, Deliver, DeliverCopy, Receive, Dedupe, Ignore,
           ReadForAdjustment, ReadForGrant, LookUpEmail, Cancel, Expire, UpsertAtOnce,
           ReadForPastDue, UpsertRead, UpsertWrite, InsertAdjustment, RecordEvent, Respond,
           Throw, RecordFailure, Crash, vars
  <2> QED BY <1>4, <2>1 DEF EndsRightly, Entitled
<1> QED BY <1>1, <1>2, <1>3, <1>4, TableStep

(* Nobody is shut out but by the end of the paid period, a revocation, a     *)
(* cancellation with nothing left to run, or a write from an older row.      *)
THEOREM AccessEndsRightly == Spec => AccessEndsForAReason
<1>1. RequestsInv /\ [Next]_vars => RequestsInv'
  BY RequestsStep
<1>2. RequestsInv /\ [Next]_vars =>
        [\A s \in Subscriptions :
          Entitled(s) /\ ~Entitled(s)' =>
              \/ now' > now /\ now' = subscribers[s].active_until
              \/ \E i \in Isolates :
                    /\ Writes(i) /\ msg[i].sub = s
                    /\ \/ Revokes(msg[i])
                       \/ Overwrites(i)
                       \/ /\ msg[i].type \in GRACE
                          /\ LET until == Coalesce(msg[i].period, subscribers[s].active_until)
                             IN  until # NULL => until <= now]_vars
  BY AccessStep DEF EndsRightly
<1> QED BY <1>1, <1>2, RequestsInit, PTL DEF Spec, AccessEndsForAReason

=============================================================================
