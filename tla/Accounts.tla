------------------------------- MODULE Accounts -------------------------------
(***************************************************************************)
(* Keys, links and sign-in sessions over the box's subscriber records:     *)
(* src/tmo/payments/store.py without its file, which BoxBilling has, and   *)
(* src/tmo/payments/session.py.                                            *)
(*                                                                         *)
(* A record is found by subscription, by key, by linked account or by      *)
(* address, and the lookups that may match several take the first in the   *)
(* order of the dictionary or the one updated last.  Sessions are minted   *)
(* at the edge; what is here is their verification and what they open.     *)
(***************************************************************************)
EXTENDS Integers, SequencesExt

CONSTANTS
    NULL,
    Subscriptions,
    People,          \* sign-in accounts
    Address,         \* the verified address of each account
    SessionLife,     \* how long the edge makes a session last
    MaxTime, MaxKeys

Rules == INSTANCE AccessRules WITH Prices <- {}, Tiers <- {}, TierMap <- [p \in {} |-> p]

Addresses == {Address[p] : p \in People}

Record == [active : {0, 1}, active_until : Int \union {NULL}, expires_at : Int \union {NULL},
           email : Addresses \union {NULL}, api_key : Nat \union {NULL},
           identities : SUBSET People]

ASSUME AccountsAssumption ==
    /\ {SessionLife, MaxTime, MaxKeys} \subseteq Nat
    /\ NULL \notin Int \union Subscriptions \union Addresses
    /\ NULL \notin Record

VARIABLES
    record,      \* the record of each subscription, or NULL
    order,       \* the subscriptions on file, as the dictionary has them
    updated,     \* the same, by updated_at
    keys,        \* how many keys were minted
    retired,     \* keys that were replaced or revoked
    sessions,    \* the sessions the edge has minted
    now

vars == <<record, order, updated, keys, retired, sessions, now>>

Session == [sub : People, email : Addresses, exp : Int]

Blank == [active |-> 0, active_until |-> NULL, expires_at |-> NULL, email |-> NULL,
          api_key |-> NULL, identities |-> {}]

TypeOK ==
    /\ record \in [Subscriptions -> Record \union {NULL}]
    /\ order \in Seq(Subscriptions) /\ updated \in Seq(Subscriptions)
    /\ keys \in Nat /\ retired \subseteq 1..keys
    /\ sessions \subseteq Session /\ now \in Nat

Init ==
    /\ record = [s \in Subscriptions |-> NULL]
    /\ order = <<>>
    /\ updated = <<>>
    /\ keys = 0
    /\ retired = {}
    /\ sessions = {}
    /\ now = 0

-----------------------------------------------------------------------------
(* Lookups. *)

FirstIn(seq, S) ==
    LET at == {i \in DOMAIN seq : seq[i] \in S}
    IN  IF at = {} THEN NULL ELSE seq[CHOOSE i \in at : \A j \in at : i <= j]

LastIn(seq, S) ==
    LET at == {i \in DOMAIN seq : seq[i] \in S}
    IN  IF at = {} THEN NULL ELSE seq[CHOOSE i \in at : \A j \in at : j <= i]

Known == {s \in Subscriptions : record[s] # NULL}

ByApiKey(key) == FirstIn(order, {s \in Known : record[s].api_key = key})

ByEmail(email) == LastIn(updated, {s \in Known : record[s].email = email})

ByIdentityNewest(p) == LastIn(updated, {s \in Known : p \in record[s].identities})

ByIdentity(p) == FirstIn(order, {s \in Known : p \in record[s].identities})

IsActive(s) == s # NULL /\ Rules!EffectiveActive(record[s], now)

IsActiveKey(key) == IsActive(ByApiKey(key))

ActiveKeysByFlag ==
    {record[s].api_key : s \in {k \in Known : record[k].api_key # NULL /\ record[k].active = 1}}

ActiveKeys == {record[s].api_key : s \in {k \in Known : record[k].api_key # NULL /\ IsActive(k)}}

(* What a session's account is answered by: what it is bound to, or what the *)
(* address is known for.                                                     *)
AnsweredBy(p) == IF ByIdentity(p) # NULL THEN ByIdentity(p) ELSE ByEmail(Address[p])

Verifies(session) == session.exp > now

Entitled(session) == Verifies(session) /\ IsActive(AnsweredBy(session.sub))

-----------------------------------------------------------------------------
(* Writes.  Each is one call on the store and saves the whole of it. *)

NewestLast(s) ==
    IF \E i \in DOMAIN updated : updated[i] = s
    THEN Append(RemoveAt(updated, CHOOSE i \in DOMAIN updated : updated[i] = s), s)
    ELSE Append(updated, s)

Write(s, entry) ==
    /\ record' = [record EXCEPT ![s] = entry]
    /\ order' = IF record[s] = NULL THEN Append(order, s) ELSE order
    /\ updated' = NewestLast(s)

Supplied(value, old) == IF value # NULL THEN value ELSE old

FreshKeyPerRecord == Cardinality({s \in Known : record[s].api_key # NULL}) + 1

FreshKey == keys + 1

(* What a webhook asks of set_active: an activation, a cancellation with     *)
(* or without a paid-through date, a late payment, a revocation.             *)
Request ==
    [active : {1}, email : Addresses \union {NULL}, until : {NULL, now + 1}, expires : {NULL}]
    \union [active : {0}, email : {NULL}, until : {NULL, now + 1}, expires : {NULL}]
    \union [active : {0}, email : {NULL}, until : {NULL}, expires : {now}]

(* An activation mints the key the record lacks. *)
SetActive(s, request) ==
    LET old   == IF record[s] = NULL THEN Blank ELSE record[s]
        mints == request.active = 1 /\ old.api_key = NULL
    IN  /\ mints => keys < MaxKeys
        /\ Write(s, [old EXCEPT !.active = request.active,
                                !.email = Supplied(request.email, @),
                                !.active_until = Supplied(request.until, @),
                                !.expires_at = Supplied(request.expires, @),
                                !.api_key = IF mints THEN FreshKey ELSE @])
        /\ keys' = IF mints THEN keys + 1 ELSE keys
        /\ UNCHANGED <<retired, sessions, now>>

(* A refund noted on the record: the record is the one updated last. *)
RecordRefund(s) ==
    /\ record[s] # NULL
    /\ Write(s, record[s])
    /\ UNCHANGED <<keys, retired, sessions, now>>

RotateKey(s) ==
    /\ record[s] # NULL
    /\ keys < MaxKeys
    /\ Write(s, [record[s] EXCEPT !.api_key = FreshKey])
    /\ keys' = keys + 1
    /\ retired' = retired \union ({record[s].api_key} \ {NULL})
    /\ UNCHANGED <<sessions, now>>

(* Self-service: the old key proves ownership, while it opens anything. *)
RotateKeyForApiKey(key) == IsActiveKey(key) /\ RotateKey(ByApiKey(key))

RevokeKey(s) ==
    /\ record[s] # NULL
    /\ Write(s, [record[s] EXCEPT !.api_key = NULL])
    /\ retired' = retired \union ({record[s].api_key} \ {NULL})
    /\ UNCHANGED <<keys, sessions, now>>

LinkIdentity(s, p) ==
    /\ record[s] # NULL
    /\ p \notin record[s].identities
    /\ Write(s, [record[s] EXCEPT !.identities = @ \union {p}])
    /\ UNCHANGED <<keys, retired, sessions, now>>

SignIn(p) ==
    /\ sessions' = {t \in sessions : t.sub # p}
                   \union {[sub |-> p, email |-> Address[p], exp |-> now + SessionLife]}
    /\ UNCHANGED <<record, order, updated, keys, retired, now>>

Tick ==
    /\ now < MaxTime
    /\ now' = now + 1
    /\ UNCHANGED <<record, order, updated, keys, retired, sessions>>

Next ==
    \/ \E s \in Subscriptions, r \in Request : SetActive(s, r)
    \/ \E s \in Subscriptions : RecordRefund(s) \/ RotateKey(s) \/ RevokeKey(s)
    \/ \E k \in 1..MaxKeys : RotateKeyForApiKey(k)
    \/ \E s \in Subscriptions, p \in People : LinkIdentity(s, p)
    \/ \E p \in People : SignIn(p)
    \/ Tick

Spec == Init /\ [][Next]_vars

-----------------------------------------------------------------------------
(* Properties. *)

(* Every way of asking gives one answer: a key works exactly when it is      *)
(* listed as working and when its own subscription is active, and a session  *)
(* opens no more and no less, while it lasts, than the key of the record     *)
(* that answers for it.                                                      *)
OneAnswer ==
    /\ \A s \in Known : LET key == record[s].api_key IN key # NULL =>
          /\ IsActiveKey(key) <=> IsActive(s)
          /\ IsActiveKey(key) <=> key \in ActiveKeys
    /\ \A t \in sessions : LET s == AnsweredBy(t.sub) IN
          Verifies(t) /\ s # NULL /\ record[s].api_key # NULL =>
              (Entitled(t) <=> IsActiveKey(record[s].api_key))

(* A key that was replaced or revoked opens nothing ever again, whatever is  *)
(* renewed, rotated or linked after it.                                      *)
RetiredKeysStayDead == \A k \in retired : ByApiKey(k) = NULL

(* A subscription somebody bound deliberately answers for that account until *)
(* the account is bound again: no webhook, refund or rotation on any record  *)
(* changes who answers.                                                      *)
BoundAnswerHolds ==
    [][\A p \in People :
          /\ ByIdentity(p) # NULL
          /\ \A s \in Known : p \in record[s].identities <=> p \in record[s]'.identities
          => ByIdentity(p)' = ByIdentity(p)]_vars

=============================================================================
