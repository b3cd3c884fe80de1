---------------------------- MODULE AccountsProofs ----------------------------
(***************************************************************************)
(* Keys and links of Accounts, for any number of subscriptions, people and *)
(* keys, any lifetime of a session and any number of steps: a key that was *)
(* replaced or revoked stays dead, and what an account was bound to keeps  *)
(* answering for it.                                                       *)
(*                                                                         *)
(* Both rest on how a lookup walks the dictionary: it returns a record     *)
(* that matches, the first of them, and records are only ever added at its *)
(* end.                                                                    *)
(***************************************************************************)
EXTENDS Accounts, WellFoundedInduction, TLAPS

(* A set of naturals that is not empty has a least member.                   *)
LEMMA LeastNatural ==
    ASSUME NEW T \in SUBSET Nat, T # {}
    PROVE  \E i \in T : \A j \in T : i <= j
<1>1. PICK less : IsWellFoundedOn(less, Nat) /\ \A x, y \in Nat : x < y => <<x, y>> \in less
  <2>1. IsWellFoundedOn({p \in Nat \X Nat : p[1] < p[2]}, Nat)
    BY NatLessThanWellFounded DEF OpToRel
  <2>2. \A x, y \in Nat : x < y => <<x, y>> \in {p \in Nat \X Nat : p[1] < p[2]}
    OBVIOUS
  <2> QED BY <2>1, <2>2
<1>2. PICK i \in T : \A j \in T : ~(<<j, i>> \in less)
  <2>1. T \subseteq Nat /\ IsWellFoundedOn(less, Nat)
    BY <1>1
  <2> QED BY <2>1, WFMin, Zenon
<1>3. \A j \in T : ~(j < i)
  BY <1>1, <1>2
<1> QED BY <1>3

-----------------------------------------------------------------------------
(* Walking the dictionary.                                                   *)

(* A lookup that finds something finds a record that matches, and finds one  *)
(* where one of them is on file: by_api_key, by_identity.                    *)
LEMMA FirstMatches ==
    ASSUME NEW seq \in Seq(Subscriptions), NEW S, NULL \notin S
    PROVE  /\ FirstIn(seq, S) # NULL => FirstIn(seq, S) \in S
           /\ (\E i \in DOMAIN seq : seq[i] \in S) => FirstIn(seq, S) \in S
<1> DEFINE at == {i \in DOMAIN seq : seq[i] \in S}
<1>1. CASE at = {}
  BY <1>1 DEF FirstIn
<1>2. CASE at # {}
  <2>1. at \in SUBSET Nat
    OBVIOUS
  <2>2. PICK i \in at : \A j \in at : i <= j
    BY <1>2, <2>1, LeastNatural
  <2>3. (CHOOSE k \in at : \A j \in at : k <= j) \in at
    BY <2>2
  <2> QED BY <1>2, <2>3 DEF FirstIn
<1> QED BY <1>1, <1>2

(* The last match is a match as well: by_email.                              *)
LEMMA LastMatches ==
    ASSUME NEW seq \in Seq(Subscriptions), NEW S, NULL \notin S
    PROVE  LastIn(seq, S) # NULL => LastIn(seq, S) \in S
<1> DEFINE at == {i \in DOMAIN seq : seq[i] \in S}
<1>1. CASE at = {}
  BY <1>1 DEF LastIn
<1>2. CASE at # {}
  <2> DEFINE left == {n \in Nat : \E i \in at : n = Len(seq) - i}
  <2>1. left \in SUBSET Nat /\ left # {}
    <3>1. PICK i \in at : TRUE
      BY <1>2
    <3>2. Len(seq) - i \in Nat
      OBVIOUS
    <3> QED BY <3>2
  <2>2. PICK n \in left : \A m \in left : n <= m
    BY <2>1, LeastNatural
  <2>3. PICK i \in at : n = Len(seq) - i
    BY <2>2
  <2>4. ASSUME NEW j \in at
        PROVE  j <= i
    <3>1. Len(seq) - j \in left /\ j \in Nat /\ i \in Nat
      OBVIOUS
    <3> QED BY <2>2, <2>3, <3>1
  <2>5. (CHOOSE k \in at : \A j \in at : j <= k) \in at
    BY <2>4
  <2> QED BY <1>2, <2>5 DEF LastIn
<1> QED BY <1>1, <1>2

(* A record that does not match changes nothing where it is added: the       *)
(* dictionary keeps the order of insertion.                                  *)
LEMMA FirstOutlastsAppend ==
    ASSUME NEW seq \in Seq(Subscriptions), NEW s \in Subscriptions, NEW S, s \notin S
    PROVE  FirstIn(Append(seq, s), S) = FirstIn(seq, S)
<1> DEFINE longer == Append(seq, s)
           at == {i \in DOMAIN seq : seq[i] \in S}
           after == {i \in DOMAIN longer : longer[i] \in S}
<1>1. /\ longer \in Seq(Subscriptions)
      /\ Len(longer) = Len(seq) + 1 /\ longer[Len(seq) + 1] = s
      /\ \A i \in 1..Len(seq) : longer[i] = seq[i]
  OBVIOUS
<1>2. DOMAIN longer = 1..(Len(seq) + 1) /\ DOMAIN seq = 1..Len(seq)
  BY <1>1
<1> HIDE DEF longer
<1>3. after = at
  BY <1>1, <1>2
<1>4. CASE at = {}
  BY <1>3, <1>4 DEF FirstIn, longer
<1>5. CASE at # {}
  <2> DEFINE k == CHOOSE i \in at : \A j \in at : i <= j
  <2>1. k \in at
    <3>1. at \in SUBSET Nat
      BY <1>2
    <3>2. PICK i \in at : \A j \in at : i <= j
      BY <1>5, <3>1, LeastNatural
    <3> QED BY <3>2
  <2>2. longer[k] = seq[k]
    BY <1>1, <1>2, <2>1
  <2>3. FirstIn(seq, S) = seq[k]
    BY <1>5 DEF FirstIn
  <2>4. FirstIn(longer, S) = longer[k]
    BY <1>3, <1>5 DEF FirstIn
  <2> QED BY <2>2, <2>3, <2>4 DEF longer
<1> QED BY <1>4, <1>5

-----------------------------------------------------------------------------
(* The invariant.                                                            *)

OnFile == \A s \in Known : \E i \in DOMAIN order : order[i] = s

(* A key on a record was minted and is not a retired one, ... *)
Keyed ==
    \A s \in Known : record[s].api_key # NULL =>
        record[s].api_key \in 1..keys /\ record[s].api_key \notin retired

(* ... and is on no other record. *)
Distinct ==
    \A s, t \in Known :
        record[s].api_key # NULL /\ record[s].api_key = record[t].api_key => s = t

Inv == TypeOK /\ OnFile /\ Keyed /\ Distinct

(* Moving a record to the end of the order of updates is one more order.     *)
LEMMA NewestIsAnOrder ==
    ASSUME updated \in Seq(Subscriptions), NEW s \in Subscriptions
    PROVE  NewestLast(s) \in Seq(Subscriptions)
<1>1. CASE \E i \in DOMAIN updated : updated[i] = s
  <2> DEFINE k == CHOOSE i \in DOMAIN updated : updated[i] = s
  <2>1. k \in DOMAIN updated
    BY <1>1
  <2> HIDE DEF k
  <2>2. k \in 1..Len(updated)
    BY <2>1
  <2>3. /\ SubSeq(updated, 1, k - 1) \in Seq(Subscriptions)
        /\ SubSeq(updated, k + 1, Len(updated)) \in Seq(Subscriptions)
    BY <2>2
  <2>4. RemoveAt(updated, k) \in Seq(Subscriptions)
    BY <2>3 DEF RemoveAt
  <2>5. Append(RemoveAt(updated, k), s) \in Seq(Subscriptions)
    BY <2>4
  <2> QED BY <1>1, <2>5 DEF NewestLast, k
<1>2. CASE ~\E i \in DOMAIN updated : updated[i] = s
  BY <1>2 DEF NewestLast
<1> QED BY <1>1, <1>2

(* A save keeps the invariant when the record it writes has no key, the key  *)
(* it had, or one minted for it, and only a key it had is retired.           *)
LEMMA WriteStep ==
    ASSUME Inv, NEW s \in Subscriptions, NEW entry \in Record, Write(s, entry),
           UNCHANGED <<sessions, now>>,
           keys' \in {keys, keys + 1},
           \/ entry.api_key = NULL
           \/ entry.api_key = keys + 1 /\ keys' = keys + 1
           \/ record[s] # NULL /\ entry.api_key = record[s].api_key,
           \/ retired' = retired
           \/ /\ record[s] # NULL /\ entry.api_key # record[s].api_key
              /\ retired' = retired \union ({record[s].api_key} \ {NULL})
    PROVE  Inv'
<1>1. keys \in Nat /\ keys' \in Nat /\ keys <= keys' /\ NULL \notin Int
  BY AccountsAssumption DEF Inv, TypeOK
<1>2. /\ record' = [record EXCEPT ![s] = entry]
      /\ record'[s] = entry /\ entry # NULL
      /\ \A t \in Subscriptions : t # s => record'[t] = record[t]
  BY AccountsAssumption DEF Write, Inv, TypeOK
<1>3. Known' = Known \union {s}
  BY <1>2 DEF Known
<1>4. retired' \subseteq 1..keys'
  <2>1. record[s] # NULL /\ record[s].api_key # NULL => record[s].api_key \in 1..keys
    BY DEF Inv, Keyed, Known
  <2>2. retired \subseteq 1..keys /\ 1..keys \subseteq 1..keys'
    BY <1>1 DEF Inv, TypeOK
  <2>3. CASE retired' = retired
    BY <2>2, <2>3
  <2>4. CASE /\ record[s] # NULL
             /\ retired' = retired \union ({record[s].api_key} \ {NULL})
    <3>1. {record[s].api_key} \ {NULL} \subseteq 1..keys
      BY <2>1, <2>4
    <3> QED BY <2>2, <2>4, <3>1
  <2> QED BY <2>3, <2>4
<1>5. TypeOK'
  <2>1. record' \in [Subscriptions -> Record \union {NULL}]
    BY <1>2 DEF Inv, TypeOK
  <2>2. order' \in Seq(Subscriptions)
    BY DEF Write, Inv, TypeOK
  <2>3. updated' \in Seq(Subscriptions)
    BY NewestIsAnOrder DEF Write, Inv, TypeOK
  <2> QED BY <1>1, <1>4, <2>1, <2>2, <2>3 DEF Inv, TypeOK
<1>6. OnFile'
  <2>1. CASE record[s] = NULL
    <3>1. order' = Append(order, s) /\ order \in Seq(Subscriptions)
      BY <2>1 DEF Write, Inv, TypeOK
    <3>2. /\ DOMAIN order' = 1..(Len(order) + 1) /\ DOMAIN order = 1..Len(order)
          /\ order'[Len(order) + 1] = s
          /\ \A i \in 1..Len(order) : order'[i] = order[i]
      BY <3>1
    <3>3. Len(order) + 1 \in DOMAIN order' /\ DOMAIN order \subseteq DOMAIN order'
      BY <3>1, <3>2
    <3> QED BY <1>3, <3>2, <3>3 DEF Inv, OnFile
  <2>2. CASE record[s] # NULL
    <3>1. order' = order /\ Known' = Known
      BY <1>3, <2>2 DEF Write, Known
    <3> QED BY <3>1 DEF Inv, OnFile
  <2> QED BY <2>1, <2>2
<1>7. ASSUME NEW t \in Known', t # s
      PROVE  t \in Known /\ t \in Subscriptions /\ record'[t] = record[t]
  BY <1>2, <1>3, <1>7 DEF Known
<1>8. ASSUME NEW t \in Known', t # s, record[t].api_key # NULL
      PROVE  /\ record[t].api_key \in 1..keys /\ record[t].api_key \notin retired'
             /\ record[t].api_key # entry.api_key
  <2>1. record[t].api_key \in 1..keys /\ record[t].api_key \notin retired
    BY <1>7, <1>8 DEF Inv, Keyed
  <2>2. record[s] # NULL => record[s].api_key # record[t].api_key
    BY <1>7, <1>8 DEF Inv, Distinct, Known
  <2>3. record[t].api_key \notin retired'
    BY <2>1, <2>2
  <2>4. record[t].api_key # entry.api_key
    BY <1>1, <1>8, <2>1, <2>2
  <2> QED BY <2>1, <2>3, <2>4
<1>9. entry.api_key # NULL => entry.api_key \in 1..keys' /\ entry.api_key \notin retired'
  <2>1. CASE entry.api_key = keys + 1 /\ keys' = keys + 1
    <3>1. keys + 1 \notin retired
      BY <1>1 DEF Inv, TypeOK
    <3>2. record[s] # NULL /\ record[s].api_key # NULL => record[s].api_key # keys + 1
      BY <1>1 DEF Inv, Keyed, Known
    <3> QED BY <1>1, <2>1, <3>1, <3>2
  <2>2. CASE record[s] # NULL /\ entry.api_key = record[s].api_key
    <3>1. entry.api_key # NULL => entry.api_key \in 1..keys /\ entry.api_key \notin retired
      BY <2>2 DEF Inv, Keyed, Known
    <3> QED BY <1>1, <2>2, <3>1
  <2> QED BY <2>1, <2>2
<1>10. Keyed'
  <2>1. ASSUME NEW t \in Known', record'[t].api_key # NULL
        PROVE  record'[t].api_key \in 1..keys' /\ record'[t].api_key \notin retired'
    <3>1. CASE t = s
      BY <1>2, <1>9, <2>1, <3>1
    <3>2. CASE t # s
      BY <1>1, <1>7, <1>8, <2>1, <3>2
    <3> QED BY <3>1, <3>2
  <2> QED BY <2>1 DEF Keyed
<1>11. Distinct'
  <2>1. ASSUME NEW t \in Known', NEW u \in Known',
               record'[t].api_key # NULL, record'[t].api_key = record'[u].api_key
        PROVE  t = u
    <3>1. CASE t # s /\ u # s
      BY <1>7, <2>1, <3>1 DEF Inv, Distinct
    <3>2. CASE t = s /\ u # s
      BY <1>2, <1>7, <1>8, <2>1, <3>2
    <3>3. CASE t # s /\ u = s
      BY <1>2, <1>7, <1>8, <2>1, <3>3
    <3> QED BY <3>1, <3>2, <3>3
  <2> QED BY <2>1 DEF Distinct
<1> QED BY <1>5, <1>6, <1>10, <1>11 DEF Inv

(* Nothing but the records decides, and a step that leaves them alone keeps  *)
(* the invariant.                                                            *)
LEMMA RecordsUntouched ==
    ASSUME Inv, UNCHANGED <<record, order, updated, keys, retired>>,
           sessions' \subseteq Session, now' \in Nat
    PROVE  Inv'
<1> QED BY DEF Inv, TypeOK, OnFile, Keyed, Distinct, Known

(* What set_active writes: a record that keeps its key or gets the one the   *)
(* record lacked, and a new one without a link: store.set_active.            *)
LEMMA SetActiveWrites ==
    ASSUME Inv, NEW s \in Subscriptions, NEW r \in Request, SetActive(s, r)
    PROVE  \E entry \in Record :
              /\ Write(s, entry)
              /\ keys' \in {keys, keys + 1}
              /\ \/ entry.api_key = NULL
                 \/ entry.api_key = keys + 1 /\ keys' = keys + 1
                 \/ record[s] # NULL /\ entry.api_key = record[s].api_key
              /\ record[s] = NULL => entry.identities = {}
<1> DEFINE old == IF record[s] = NULL THEN Blank ELSE record[s]
           mints == r.active = 1 /\ old.api_key = NULL
           entry == [old EXCEPT !.active = r.active,
                                !.email = Supplied(r.email, @),
                                !.active_until = Supplied(r.until, @),
                                !.expires_at = Supplied(r.expires, @),
                                !.api_key = IF mints THEN FreshKey ELSE @]
<1>1. Write(s, entry) /\ keys' = (IF mints THEN keys + 1 ELSE keys)
  BY DEF SetActive
<1>2. old \in Record
  BY DEF Inv, TypeOK, Blank, Record
<1>3. /\ r.active \in {0, 1} /\ r.email \in Addresses \union {NULL}
      /\ r.until \in Int \union {NULL} /\ r.expires \in Int \union {NULL}
  BY DEF Request, Inv, TypeOK
<1>4. keys + 1 \in Nat
  BY DEF Inv, TypeOK
<1>5. /\ old.api_key = NULL \/ (record[s] # NULL /\ old.api_key = record[s].api_key)
      /\ record[s] = NULL => old.identities = {}
  BY DEF Blank
<1> HIDE DEF old
<1>6. entry \in Record
  BY <1>2, <1>3, <1>4 DEF Record, Supplied, FreshKey
<1>7. /\ entry.api_key = IF mints THEN keys + 1 ELSE old.api_key
      /\ entry.identities = old.identities
  BY <1>2 DEF Record, FreshKey
<1> HIDE DEF entry
<1> QED BY <1>1, <1>5, <1>6, <1>7

(* An activation mints the key the record lacks.                             *)
LEMMA SetActiveStep ==
    ASSUME Inv, NEW s \in Subscriptions, NEW r \in Request, SetActive(s, r)
    PROVE  Inv'
<1>1. UNCHANGED <<retired, sessions, now>>
  BY DEF SetActive
<1> QED BY <1>1, SetActiveWrites, WriteStep

(* A rotation replaces a key with one never minted before: store.rotate_key. *)
LEMMA RotateStep ==
    ASSUME Inv, NEW s \in Subscriptions, RotateKey(s)
    PROVE  Inv'
<1> DEFINE entry == [record[s] EXCEPT !.api_key = FreshKey]
<1>1. /\ record[s] # NULL /\ Write(s, entry) /\ keys' = keys + 1
      /\ retired' = retired \union ({record[s].api_key} \ {NULL})
      /\ UNCHANGED <<sessions, now>>
  BY DEF RotateKey
<1>2. record[s] \in Record /\ keys + 1 \in Nat
  BY <1>1 DEF Inv, TypeOK
<1>3. entry \in Record /\ entry.api_key = keys + 1
  BY <1>2 DEF Record, FreshKey
<1>4. entry.api_key # record[s].api_key
  BY <1>1, <1>3, AccountsAssumption DEF Inv, TypeOK, Keyed, Known
<1> HIDE DEF entry
<1> QED BY <1>1, <1>3, <1>4, WriteStep

(* A revocation leaves the record without one: store.revoke_key.             *)
LEMMA RevokeStep ==
    ASSUME Inv, NEW s \in Subscriptions, RevokeKey(s)
    PROVE  Inv'
<1> DEFINE entry == [record[s] EXCEPT !.api_key = NULL]
<1>1. /\ record[s] # NULL /\ Write(s, entry) /\ keys' = keys
      /\ retired' = retired \union ({record[s].api_key} \ {NULL})
      /\ UNCHANGED <<sessions, now>>
  BY DEF RevokeKey
<1>2. record[s] \in Record
  BY <1>1 DEF Inv, TypeOK
<1>3. entry \in Record /\ entry.api_key = NULL
  BY <1>2 DEF Record
<1>4. \/ retired' = retired
      \/ entry.api_key # record[s].api_key
  BY <1>1, <1>3
<1> HIDE DEF entry
<1> QED BY <1>1, <1>3, <1>4, WriteStep

(* Noting a refund and binding an account touch no key.                      *)
LEMMA KeylessStep ==
    ASSUME Inv, NEW s \in Subscriptions,
           RecordRefund(s) \/ \E p \in People : LinkIdentity(s, p)
    PROVE  Inv'
<1>1. record[s] # NULL /\ record[s] \in Record
  BY DEF RecordRefund, LinkIdentity, Inv, TypeOK
<1>2. CASE RecordRefund(s)
  BY <1>1, <1>2, WriteStep DEF RecordRefund
<1>3. ASSUME NEW p \in People, LinkIdentity(s, p)
      PROVE  Inv'
  <2> DEFINE entry == [record[s] EXCEPT !.identities = @ \union {p}]
  <2>1. Write(s, entry) /\ UNCHANGED <<keys, retired, sessions, now>>
    BY <1>3 DEF LinkIdentity
  <2>2. entry \in Record /\ entry.api_key = record[s].api_key
    BY <1>1 DEF Record
  <2> HIDE DEF entry
  <2> QED BY <1>1, <2>1, <2>2, WriteStep
<1> QED BY <1>2, <1>3

(* A key opens a record that is on file.                                     *)
LEMMA KeyedRecordIsKnown ==
    ASSUME Inv, NEW key, ByApiKey(key) # NULL
    PROVE  ByApiKey(key) \in Known /\ record[ByApiKey(key)].api_key = key
<1>1. NULL \notin {s \in Known : record[s].api_key = key}
  BY AccountsAssumption DEF Known
<1> QED BY <1>1, FirstMatches DEF ByApiKey, Inv, TypeOK

(* The store starts empty.                                                   *)
LEMMA InitInvariant == Init => Inv
<1> QED BY DEF Init, Inv, TypeOK, OnFile, Keyed, Distinct, Known, Record

(* Every call on the store keeps the invariant, and so do the edge's         *)
(* sign-ins.                                                                 *)
LEMMA NextInvariant == Inv /\ [Next]_vars => Inv'
<1> SUFFICES ASSUME Inv, [Next]_vars
             PROVE  Inv'
  OBVIOUS
<1>1. ASSUME NEW s \in Subscriptions, NEW r \in Request, SetActive(s, r)
      PROVE  Inv'
  BY <1>1, SetActiveStep
<1>2. ASSUME NEW s \in Subscriptions, RecordRefund(s) \/ RotateKey(s) \/ RevokeKey(s)
      PROVE  Inv'
  BY <1>2, KeylessStep, RotateStep, RevokeStep
<1>3. ASSUME NEW key \in 1..MaxKeys, RotateKeyForApiKey(key)
      PROVE  Inv'
  <2>1. RotateKey(ByApiKey(key)) /\ ByApiKey(key) # NULL
    BY <1>3 DEF RotateKeyForApiKey, IsActiveKey, IsActive
  <2>2. ByApiKey(key) \in Subscriptions
    BY <2>1, KeyedRecordIsKnown DEF Known
  <2> QED BY <2>1, <2>2, RotateStep
<1>4. ASSUME NEW s \in Subscriptions, NEW p \in People, LinkIdentity(s, p)
      PROVE  Inv'
  BY <1>4, KeylessStep
<1>5. ASSUME NEW p \in People, SignIn(p)
      PROVE  Inv'
  <2>1. [sub |-> p, email |-> Address[p], exp |-> now + SessionLife] \in Session
    BY AccountsAssumption DEF Session, Addresses, Inv, TypeOK
  <2>2. sessions' \subseteq Session /\ now' \in Nat
    BY <1>5, <2>1 DEF SignIn, Inv, TypeOK
  <2> QED BY <1>5, <2>2, RecordsUntouched DEF SignIn
<1>6. CASE Tick
  BY <1>6, RecordsUntouched DEF Tick, Inv, TypeOK
<1>7. CASE UNCHANGED vars
  BY <1>7, RecordsUntouched DEF vars, Inv, TypeOK
<1> QED BY <1>1, <1>2, <1>3, <1>4, <1>5, <1>6, <1>7 DEF Next

(* So it holds in every reachable state.                                     *)
LEMMA Invariance == Spec => []Inv
<1> QED BY InitInvariant, NextInvariant, PTL DEF Spec

-----------------------------------------------------------------------------
(* A key that was replaced or revoked opens nothing ever again, however many *)
(* renewals, rotations and links follow: store.rotate_key, revoke_key and    *)
(* set_active.                                                               *)
THEOREM RetiredKeysOpenNothing == Spec => []RetiredKeysStayDead
<1>1. Inv => RetiredKeysStayDead
  <2> SUFFICES ASSUME Inv, NEW k \in retired
               PROVE  ByApiKey(k) = NULL
    BY DEF RetiredKeysStayDead
  <2>1. k # NULL
    BY AccountsAssumption DEF Inv, TypeOK
  <2>2. \A s \in Known : record[s].api_key # k
    BY <2>1 DEF Inv, Keyed
  <2> QED BY <2>2, KeyedRecordIsKnown
<1> QED BY <1>1, Invariance, PTL

(* A subscription somebody bound deliberately answers for that account until *)
(* the account is bound again: store.by_identity, under every other call.    *)
THEOREM BindingsHold == Spec => BoundAnswerHolds
<1> DEFINE Bound(p) == {s \in Known : p \in record[s].identities}
           Holds ==
             \A p \in People :
                 /\ ByIdentity(p) # NULL
                 /\ \A s \in Known : p \in record[s].identities <=> p \in record[s]'.identities
                 => ByIdentity(p)' = ByIdentity(p)
<1>1. ASSUME Inv, NEW s \in Subscriptions, NEW entry \in Record, Write(s, entry),
             record[s] = NULL => entry.identities = {},
             NEW p \in People,
             \A t \in Known : p \in record[t].identities <=> p \in record[t]'.identities
      PROVE  ByIdentity(p)' = ByIdentity(p)
  <2>1. /\ record'[s] = entry /\ entry # NULL
        /\ \A t \in Subscriptions : t # s => record'[t] = record[t]
    BY <1>1, AccountsAssumption DEF Write, Inv, TypeOK
  <2>2. Bound(p)' = Bound(p)
    BY <1>1, <2>1 DEF Known
  <2>3. CASE record[s] # NULL
    BY <1>1, <2>2, <2>3 DEF Write, ByIdentity
  <2>4. CASE record[s] = NULL
    <3>1. order' = Append(order, s) /\ order \in Seq(Subscriptions) /\ s \notin Bound(p)
      BY <1>1, <2>4 DEF Write, Inv, TypeOK, Known
    <3>2. FirstIn(order', Bound(p)) = FirstIn(order, Bound(p))
      BY <3>1, FirstOutlastsAppend
    <3> QED BY <2>2, <3>2 DEF ByIdentity
  <2> QED BY <2>3, <2>4
<1>2. Inv /\ [Next]_vars => [Holds]_vars
  <2> SUFFICES ASSUME Inv, Next
               PROVE  Holds
    OBVIOUS
  <2>1. CASE record' = record /\ order' = order
    BY <2>1 DEF ByIdentity, Known
  <2>2. CASE \E s \in Subscriptions, entry \in Record :
                Write(s, entry) /\ (record[s] = NULL => entry.identities = {})
    BY <1>1, <2>2
  <2>3. ASSUME NEW s \in Subscriptions, NEW r \in Request, SetActive(s, r)
        PROVE  \E entry \in Record :
                  Write(s, entry) /\ (record[s] = NULL => entry.identities = {})
    BY <2>3, SetActiveWrites
  <2>4. ASSUME NEW s \in Subscriptions,
               \/ RecordRefund(s) \/ RotateKey(s) \/ RevokeKey(s)
               \/ \E p \in People : LinkIdentity(s, p)
        PROVE  \E entry \in Record :
                  Write(s, entry) /\ (record[s] = NULL => entry.identities = {})
    <3>1. record[s] # NULL /\ record[s] \in Record /\ keys + 1 \in Nat
      <4>1. record[s] # NULL
        BY <2>4 DEF RecordRefund, RotateKey, RevokeKey, LinkIdentity
      <4> QED BY <4>1 DEF Inv, TypeOK
    <3>2. /\ [record[s] EXCEPT !.api_key = FreshKey] \in Record
          /\ [record[s] EXCEPT !.api_key = NULL] \in Record
          /\ \A p \in People : [record[s] EXCEPT !.identities = @ \union {p}] \in Record
      BY <3>1 DEF Record, FreshKey
    <3>3. CASE RecordRefund(s)
      BY <3>1, <3>3 DEF RecordRefund
    <3>4. CASE RotateKey(s)
      BY <3>1, <3>2, <3>4 DEF RotateKey
    <3>5. CASE RevokeKey(s)
      BY <3>1, <3>2, <3>5 DEF RevokeKey
    <3>6. ASSUME NEW p \in People, LinkIdentity(s, p)
          PROVE  \E entry \in Record :
                    Write(s, entry) /\ (record[s] = NULL => entry.identities = {})
      BY <3>1, <3>2, <3>6 DEF LinkIdentity
    <3> QED BY <2>4, <3>3, <3>4, <3>5, <3>6
  <2>5. ASSUME NEW key \in 1..MaxKeys, RotateKeyForApiKey(key)
        PROVE  \E s \in Subscriptions : RotateKey(s)
    <3>1. RotateKey(ByApiKey(key)) /\ ByApiKey(key) # NULL
      BY <2>5 DEF RotateKeyForApiKey, IsActiveKey, IsActive
    <3> QED BY <3>1, KeyedRecordIsKnown DEF Known
  <2>6. CASE Tick \/ \E p \in People : SignIn(p)
    BY <2>1, <2>6 DEF Tick, SignIn
  <2> QED BY <2>2, <2>3, <2>4, <2>5, <2>6 DEF Next
<1> QED BY <1>2, Invariance, PTL DEF Spec, BoundAnswerHolds

(* A key works exactly when it is listed as working and when its own         *)
(* subscription is active, and a session opens what the key of the record    *)
(* that answers for it opens: is_active_key, active_keys and session.py.     *)
THEOREM AnswersAgree == Spec => []OneAnswer
<1>1. ASSUME Inv, NEW s \in Known, record[s].api_key # NULL
      PROVE  ByApiKey(record[s].api_key) = s
  <2> DEFINE key == record[s].api_key
             S == {t \in Known : record[t].api_key = key}
  <2>1. S = {s}
    BY <1>1 DEF Inv, Distinct
  <2>2. \E i \in DOMAIN order : order[i] \in S
    BY <1>1, <2>1 DEF Inv, OnFile
  <2>3. NULL \notin S
    BY AccountsAssumption DEF Known
  <2>4. FirstIn(order, S) \in S
    BY <1>1, <2>2, <2>3, FirstMatches DEF Inv, TypeOK
  <2> QED BY <2>1, <2>4 DEF ByApiKey
<1>2. ASSUME Inv, NEW s \in Known, record[s].api_key # NULL
      PROVE  /\ IsActiveKey(record[s].api_key) <=> IsActive(s)
             /\ record[s].api_key \in ActiveKeys <=> IsActive(s)
  <2>1. IsActiveKey(record[s].api_key) <=> IsActive(s)
    BY <1>1, <1>2 DEF IsActiveKey
  <2>2. \A t \in Known : record[t].api_key = record[s].api_key => t = s
    BY <1>2 DEF Inv, Distinct
  <2>3. record[s].api_key \in ActiveKeys <=> IsActive(s)
    BY <1>2, <2>2 DEF ActiveKeys
  <2> QED BY <2>1, <2>3
<1>3. ASSUME Inv, NEW p, AnsweredBy(p) # NULL
      PROVE  AnsweredBy(p) \in Known
  <2> DEFINE S == {s \in Known : p \in record[s].identities}
             M == {s \in Known : record[s].email = Address[p]}
  <2>1. NULL \notin S /\ NULL \notin M
    BY AccountsAssumption DEF Known
  <2>2. ByIdentity(p) # NULL => ByIdentity(p) \in S
    BY <1>3, <2>1, FirstMatches DEF ByIdentity, Inv, TypeOK
  <2>3. ByEmail(Address[p]) # NULL => ByEmail(Address[p]) \in M
    BY <1>3, <2>1, LastMatches DEF ByEmail, Inv, TypeOK
  <2> QED BY <1>3, <2>2, <2>3 DEF AnsweredBy
<1>4. Inv => OneAnswer
  <2> SUFFICES ASSUME Inv
               PROVE  OneAnswer
    OBVIOUS
  <2>1. ASSUME NEW t \in sessions, Verifies(t), AnsweredBy(t.sub) # NULL,
               record[AnsweredBy(t.sub)].api_key # NULL
        PROVE  Entitled(t) <=> IsActiveKey(record[AnsweredBy(t.sub)].api_key)
    <3>1. AnsweredBy(t.sub) \in Known
      BY <1>3, <2>1
    <3>2. IsActiveKey(record[AnsweredBy(t.sub)].api_key) <=> IsActive(AnsweredBy(t.sub))
      BY <1>2, <2>1, <3>1
    <3> QED BY <2>1, <3>2 DEF Entitled
  <2> QED BY <1>2, <2>1 DEF OneAnswer
<1> QED BY <1>4, Invariance, PTL

=============================================================================
