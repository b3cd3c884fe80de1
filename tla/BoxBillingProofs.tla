-------------------------- MODULE BoxBillingProofs --------------------------
(***************************************************************************)
(* The server for a box of one's own, for any number of threads, records,  *)
(* messages, restarts, writes that raise and reads that fail: every copy   *)
(* of the file keeps its shape, a record under the hard ceiling is shut    *)
(* whichever copy it was written from, one event has one effect while the  *)
(* ledger has room and memory for its id, a refund stays on record, and    *)
(* the contract is kept by every save that is not of an older copy.        *)
(***************************************************************************)
EXTENDS BoxBilling, FiniteSetTheorems, SequenceTheorems, TLAPS

(* Where a thread has a copy of every record. *)
Holding == Labels \ {"idle", "read"}

TypeInv ==
    /\ file \in Table /\ ledger \in Ledgers!Ledger
    /\ now \in Nat /\ minted \in Nat
    /\ cache # NULL => cache.at \in Nat /\ cache.at <= now /\ cache.data \in Table
    /\ pc \in [Threads -> Labels]
    /\ msg \in [Threads -> Messages \cup {NULL}]
    /\ copy \in [Threads -> Table \cup {NULL}]
    /\ looked \in [Threads -> Ledgers!Ledger \cup {NULL}]
    /\ \A i \in Threads :
          /\ pc[i] # "idle" => msg[i] \in Messages
          /\ pc[i] = "marking" <=> looked[i] # NULL
          /\ pc[i] = "marking" => msg[i].id # NULL
          /\ pc[i] \in Holding => copy[i] \in Table
          /\ pc[i] \in {"cache", "refund", "cache refund"} => msg[i].sub \in Subscriptions
    /\ acked \cup saved \cup halved \subseteq Messages
    /\ newer \in [Messages -> Nat \cup {NULL}]

(* A ceiling on a record is in the past, in the file and in every copy. *)
Shut(entry, t) == entry.expires_at # NULL => entry.expires_at <= t

AllShut(data, t) == \A s \in Subscriptions : data[s] # NULL => Shut(data[s], t)

Ceilings ==
    /\ AllShut(file, now)
    /\ cache # NULL => AllShut(cache.data, now)
    /\ \A i \in Threads : pc[i] \in Holding => AllShut(copy[i], now)

Inv == TypeInv /\ Ceilings

-----------------------------------------------------------------------------
(* Entries and ledgers keep their shape.                                     *)

Asked == [active : {0, 1}, email : Emails \cup {NULL}, tier : Tiers \cup {NULL},
          active_until : Nat \cup {NULL}, expires_at : Nat \cup {NULL}]

(* A price is of a tier we sell or of none.                                  *)
LEMMA TierTyped ==
    ASSUME NEW price
    PROVE  ResolveTier(price) \in Tiers \cup {NULL}
<1> QED BY TierMapAssumption DEF ResolveTier

(* set_active leaves an entry an entry, its ceiling the one asked for or the *)
(* one it had.                                                               *)
LEMMA SetActiveTyped ==
    ASSUME NEW old \in Entry, NEW new \in Asked, minted \in Nat
    PROVE  /\ SetActive(old, new) \in Entry
           /\ SetActive(old, new).expires_at = Coalesce(new.expires_at, old.expires_at)
<1>1. /\ Coalesce(new.email, old.email) \in Emails \cup {NULL}
      /\ Coalesce(new.tier, old.tier) \in Tiers \cup {NULL}
      /\ Coalesce(new.active_until, old.active_until) \in Nat \cup {NULL}
      /\ Coalesce(new.expires_at, old.expires_at) \in Nat \cup {NULL}
      /\ new.active \in {0, 1}
  BY DEF Coalesce, Entry, Asked
<1>2. (IF new.active = 1 /\ old.api_key = NULL THEN minted + 1 ELSE old.api_key)
        \in Nat \cup {NULL}
  BY DEF Entry
<1>3. PICK e, t, a, u, x, k :
        /\ e = Coalesce(new.email, old.email) /\ t = Coalesce(new.tier, old.tier)
        /\ a = new.active /\ u = Coalesce(new.active_until, old.active_until)
        /\ x = Coalesce(new.expires_at, old.expires_at)
        /\ k = IF new.active = 1 /\ old.api_key = NULL THEN minted + 1 ELSE old.api_key
  OBVIOUS
<1>4. SetActive(old, new) = [old EXCEPT !.email = e, !.tier = t, !.active = a,
                                        !.active_until = u, !.expires_at = x, !.api_key = k]
  BY <1>3 DEF SetActive
<1>5. /\ e \in Emails \cup {NULL} /\ t \in Tiers \cup {NULL} /\ a \in {0, 1}
      /\ u \in Nat \cup {NULL} /\ x \in Nat \cup {NULL} /\ k \in Nat \cup {NULL}
  BY <1>1, <1>2, <1>3
<1>6. /\ [old EXCEPT !.email = e, !.tier = t, !.active = a,
                     !.active_until = u, !.expires_at = x, !.api_key = k] \in Entry
      /\ [old EXCEPT !.email = e, !.tier = t, !.active = a,
                     !.active_until = u, !.expires_at = x, !.api_key = k].expires_at = x
  BY <1>5 DEF Entry
<1> QED BY <1>3, <1>4, <1>6

(* record_refund keeps everything but the history of refunds.                *)
LEMMA WithRefundTyped ==
    ASSUME NEW entry \in Entry, NEW adj \in AdjustmentIds, NEW revoked \in BOOLEAN
    PROVE  /\ WithRefund(entry, adj, revoked) \in Entry
           /\ WithRefund(entry, adj, revoked).expires_at = entry.expires_at
<1> DEFINE R == [adj : AdjustmentIds, revoked : BOOLEAN]
           h == Append(entry.adjustments, [adj |-> adj, revoked |-> revoked])
           kept == IF Len(h) <= MaxRefunds THEN h
                   ELSE SubSeq(h, Len(h) - MaxRefunds + 1, Len(h))
<1>1. h \in Seq(R)
  <2>1. entry.adjustments \in Seq(R) /\ [adj |-> adj, revoked |-> revoked] \in R
    BY DEF Entry
  <2> QED BY <2>1, AppendProperties
<1>2. kept \in Seq(R)
  <2>1. CASE Len(h) <= MaxRefunds
    BY <1>1, <2>1
  <2>2. CASE ~(Len(h) <= MaxRefunds)
    <3>1. Len(h) \in Nat /\ MaxRefunds \in Nat /\ MaxRefunds >= 1
      BY <1>1, LenProperties, BoxAssumption
    <3> HIDE DEF h, R
    <3>2. \A k \in (Len(h) - MaxRefunds + 1)..Len(h) : h[k] \in R
      BY <1>1, <2>2, <3>1, ElementOfSeq
    <3>3. SubSeq(h, Len(h) - MaxRefunds + 1, Len(h)) \in Seq(R)
      BY <3>1, <3>2, SubSeqProperties
    <3> QED BY <2>2, <3>3
  <2> QED BY <2>1, <2>2
<1>3. WithRefund(entry, adj, revoked) = [entry EXCEPT !.adjustments = kept]
  BY DEF WithRefund
<1> HIDE DEF kept
<1>4. [entry EXCEPT !.adjustments = kept] \in Entry
      /\ [entry EXCEPT !.adjustments = kept].expires_at = entry.expires_at
  BY <1>2 DEF Entry
<1> QED BY <1>3, <1>4

(* A record that is not there reads as one with nothing in it.               *)
LEMMA PriorTyped ==
    ASSUME NEW data \in Table, NEW s \in Subscriptions
    PROVE  /\ Prior(data, s) \in Entry
           /\ \A t : AllShut(data, t) => Shut(Prior(data, s), t)
<1>1. Blank \in Entry /\ Blank.expires_at = NULL
  <2>1. <<>> \in Seq([adj : AdjustmentIds, revoked : BOOLEAN])
    OBVIOUS
  <2> QED BY <2>1 DEF Blank, Entry
<1> QED BY <1>1 DEF Prior, Table, AllShut, Shut

(* What check_and_mark leaves is a ledger.                                   *)
LEMMA AnswerTyped ==
    ASSUME NEW l \in Ledgers!Ledger, NEW e \in EventIds, NEW t \in Nat,
           NEW r \in Ledgers!CheckAndMark(l, e, t)
    PROVE  r.ledger \in Ledgers!Ledger
<1>1. ASSUME NEW k \in Ledgers!Ledger, NEW last, NEW q \in Ledgers!Prune(k, t, last)
      PROVE  q \in Ledgers!Ledger
  BY <1>1 DEF Ledgers!Prune, Ledgers!Only, Ledgers!Ledger
<1>2. PICK p \in Ledgers!Prune(l, t, NULL) :
        r \in (IF p[e] # NULL THEN {[first |-> FALSE, ledger |-> l]}
               ELSE {[first |-> TRUE, ledger |-> q] :
                        q \in Ledgers!Prune([p EXCEPT ![e] = t], t, e)})
  BY DEF Ledgers!CheckAndMark
<1>3. p \in Ledgers!Ledger
  BY <1>1
<1>4. CASE p[e] # NULL
  BY <1>2, <1>4
<1>5. CASE p[e] = NULL
  <2>1. PICK q \in Ledgers!Prune([p EXCEPT ![e] = t], t, e) :
          r = [first |-> TRUE, ledger |-> q]
    BY <1>2, <1>5
  <2>2. [p EXCEPT ![e] = t] \in Ledgers!Ledger
    BY <1>3 DEF Ledgers!Ledger
  <2>3. q \in Ledgers!Ledger
    BY <1>1, <2>2
  <2> QED BY <2>1, <2>3
<1> QED BY <1>4, <1>5

-----------------------------------------------------------------------------
(* One lemma for each kind of step.                                          *)

(* The server starts with nothing.                                           *)
LEMMA Initially ==
    ASSUME Init
    PROVE  Inv
<1>1. file \in Table /\ AllShut(file, now)
  BY DEF Init, Nothing, Table, AllShut, Shut
<1>2. ledger \in Ledgers!Ledger
  BY DEF Init, Ledgers!Empty, Ledgers!Ledger
<1> QED BY <1>1, <1>2 DEF Init, Inv, TypeInv, Ceilings, Holding, Labels

(* A thread goes on without touching records.                                *)
LEMMA MoveStep ==
    ASSUME Inv, NEW i \in Threads, NEW label \in Holding \ {"cache", "refund", "cache refund"},
           pc[i] \in Holding, Goto(i, label),
           UNCHANGED <<file, cache, minted, now, msg, copy, acked, saved, halved, newer>>,
           ledger' \in Ledgers!Ledger,
           NEW found \in Ledgers!Ledger \cup {NULL}, looked' = [looked EXCEPT ![i] = found],
           label = "marking" <=> found # NULL,
           label = "marking" => msg[i].id # NULL
    PROVE  Inv'
<1>1. pc' \in [Threads -> Labels] /\ msg[i] \in Messages
  BY DEF Inv, TypeInv, Goto, Holding
<1>2. \A j \in Threads : j # i => pc'[j] = pc[j] /\ looked'[j] = looked[j]
  BY DEF Inv, TypeInv, Goto
<1>3. pc'[i] = label /\ label \in Holding /\ looked'[i] = found
  BY DEF Inv, TypeInv, Goto
<1>4. looked' \in [Threads -> Ledgers!Ledger \cup {NULL}]
  BY DEF Inv, TypeInv
<1>5. \A j \in Threads :
        /\ pc'[j] # "idle" => msg[j] \in Messages
        /\ pc'[j] = "marking" <=> looked'[j] # NULL
        /\ pc'[j] = "marking" => msg[j].id # NULL
        /\ pc'[j] \in Holding => copy[j] \in Table
        /\ pc'[j] \in {"cache", "refund", "cache refund"} => msg[j].sub \in Subscriptions
  BY <1>1, <1>2, <1>3 DEF Inv, TypeInv
<1>6. TypeInv'
  BY <1>1, <1>4, <1>5 DEF Inv, TypeInv
<1>7. Ceilings'
  BY <1>2, <1>3 DEF Inv, Ceilings, AllShut
<1> QED BY <1>6, <1>7 DEF Inv

(* A request is over.                                                        *)
LEMMA LeaveStep ==
    ASSUME Inv, NEW i \in Threads, pc[i] # "idle", Leave(i),
           UNCHANGED <<file, cache, minted, now, saved, newer, ledger>>,
           acked' \subseteq acked \cup {msg[i]}, halved' \subseteq halved \cup {msg[i]}
    PROVE  Inv'
<1>1. \A j \in Threads :
        /\ pc'[j] = (IF j = i THEN "idle" ELSE pc[j])
        /\ msg'[j] = (IF j = i THEN NULL ELSE msg[j])
        /\ copy'[j] = (IF j = i THEN NULL ELSE copy[j])
        /\ looked'[j] = (IF j = i THEN NULL ELSE looked[j])
  BY DEF Inv, TypeInv, Leave
<1>2. /\ pc' \in [Threads -> Labels] /\ msg' \in [Threads -> Messages \cup {NULL}]
      /\ copy' \in [Threads -> Table \cup {NULL}]
      /\ looked' \in [Threads -> Ledgers!Ledger \cup {NULL}]
  BY DEF Inv, TypeInv, Leave, Labels
<1>3. TypeInv'
  BY <1>1, <1>2 DEF Inv, TypeInv, Holding
<1>4. Ceilings'
  BY <1>1 DEF Inv, Ceilings, AllShut, Holding
<1> QED BY <1>3, <1>4 DEF Inv

(* The clock passes no ceiling that was not in the past.                     *)
LEMMA TickStep ==
    ASSUME Inv, Tick
    PROVE  Inv'
<1>1. /\ now' = now + 1
      /\ UNCHANGED <<file, cache, ledger, minted, pc, msg, copy, looked, acked, saved, halved,
                     newer>>
  BY DEF Tick, disk, local, history
<1>2. TypeInv'
  <2>1. now \in Nat /\ (cache # NULL => cache.at \in Nat /\ cache.at <= now)
    BY DEF Inv, TypeInv
  <2>2. now' \in Nat /\ (cache # NULL => cache.at <= now')
    <3>1. \A n \in Nat : n <= now => n <= now + 1
      BY <2>1
    <3> QED BY <1>1, <2>1, <3>1
  <2> QED BY <1>1, <2>2 DEF Inv, TypeInv
<1>3. ASSUME NEW data \in Table, AllShut(data, now)
      PROVE  AllShut(data, now + 1)
  <2> SUFFICES ASSUME NEW s \in Subscriptions, data[s] # NULL, data[s].expires_at # NULL
               PROVE  data[s].expires_at <= now + 1
    BY DEF AllShut, Shut
  <2>1. data[s] \in Entry /\ now \in Nat
    BY DEF Table, Inv, TypeInv
  <2>2. data[s].expires_at \in Nat
    BY <2>1 DEF Entry
  <2>3. data[s].expires_at <= now
    BY <1>3 DEF AllShut, Shut
  <2> QED BY <2>1, <2>2, <2>3
<1>4. Ceilings'
  <2>1. AllShut(file, now + 1) /\ (cache # NULL => AllShut(cache.data, now + 1))
    BY <1>3 DEF Inv, TypeInv, Ceilings
  <2>2. \A i \in Threads : pc[i] \in Holding => AllShut(copy[i], now + 1)
    BY <1>3 DEF Inv, TypeInv, Ceilings
  <2> QED BY <1>1, <2>1, <2>2 DEF Ceilings, AllShut
<1> QED BY <1>2, <1>4 DEF Inv

(* A request begins with a copy from the cache or goes to the file.          *)
LEMMA OpenStep ==
    ASSUME Inv, NEW i \in Threads, NEW m \in Messages, Open(i, m)
    PROVE  Inv'
<1>1. /\ pc[i] = "idle"
      /\ UNCHANGED <<file, cache, ledger, minted, now, looked, acked, saved, halved, newer>>
  BY DEF Open, disk
<1>2. msg' = [msg EXCEPT ![i] = m]
  BY DEF Open
<1>3. \/ /\ cache # NULL /\ copy' = [copy EXCEPT ![i] = cache.data]
         /\ pc' = [pc EXCEPT ![i] = "mark"]
      \/ copy' = copy /\ pc' = [pc EXCEPT ![i] = "read"]
  BY DEF Open, CacheIsFresh, Goto
<1>4. CASE /\ cache # NULL /\ copy' = [copy EXCEPT ![i] = cache.data]
           /\ pc' = [pc EXCEPT ![i] = "mark"]
  <2>1. cache.data \in Table /\ AllShut(cache.data, now)
    BY <1>4 DEF Inv, TypeInv, Ceilings
  <2>2. TypeInv'
    BY <1>1, <1>2, <1>4, <2>1 DEF Inv, TypeInv, Holding, Labels
  <2>3. \A j \in Threads : pc'[j] \in Holding => AllShut(copy'[j], now)
    BY <1>4, <2>1 DEF Inv, TypeInv, Ceilings
  <2> QED BY <1>1, <2>2, <2>3 DEF Inv, Ceilings, AllShut
<1>5. CASE copy' = copy /\ pc' = [pc EXCEPT ![i] = "read"]
  <2>1. TypeInv'
    BY <1>1, <1>2, <1>5 DEF Inv, TypeInv, Holding, Labels
  <2>2. \A j \in Threads : pc'[j] \in Holding => AllShut(copy'[j], now)
    BY <1>5 DEF Inv, TypeInv, Ceilings, Holding
  <2> QED BY <1>1, <2>1, <2>2 DEF Inv, Ceilings, AllShut
<1> QED BY <1>3, <1>4, <1>5

(* A copy of the file is as shut as the file, and an empty one is shut.      *)
LEMMA ReadFileStep ==
    ASSUME Inv, NEW i \in Threads, ReadFile(i)
    PROVE  Inv'
<1>1. PICK data : /\ data \in {file, Nothing}
                  /\ copy' = [copy EXCEPT ![i] = data]
  BY DEF ReadFile
<1>2. /\ pc[i] = "read" /\ pc' = [pc EXCEPT ![i] = "fill"]
      /\ UNCHANGED <<file, cache, ledger, minted, now, msg, looked, acked, saved, halved,
                     newer>>
  BY DEF ReadFile, Goto, disk
<1>3. data \in Table /\ AllShut(data, now)
  BY <1>1 DEF Inv, TypeInv, Ceilings, Nothing, Table, AllShut
<1>4. TypeInv'
  BY <1>1, <1>2, <1>3 DEF Inv, TypeInv, Holding, Labels
<1>5. \A j \in Threads : pc'[j] \in Holding => AllShut(copy'[j], now)
  BY <1>1, <1>2, <1>3 DEF Inv, TypeInv, Ceilings
<1> QED BY <1>2, <1>4, <1>5 DEF Inv, Ceilings, AllShut

(* And so is the cache that is filled with it.                               *)
LEMMA UpdateCacheStep ==
    ASSUME Inv, NEW i \in Threads, UpdateCache(i)
    PROVE  Inv'
<1>1. /\ pc[i] \in {"fill", "cache", "cache refund"}
      /\ cache' = IF CacheTTL > 0 THEN [at |-> now, data |-> copy[i]] ELSE cache
      /\ pc' = [pc EXCEPT ![i] = AfterCache(i)]
      /\ UNCHANGED <<file, ledger, minted, now, msg, copy, looked, acked, saved, halved, newer>>
  BY DEF UpdateCache, Goto, disk, local, history
<1>2. copy[i] \in Table /\ AllShut(copy[i], now) /\ msg[i] \in Messages
  BY <1>1 DEF Inv, TypeInv, Ceilings, Holding, Labels
<1>3. /\ AfterCache(i) \in {"mark", "refund", "respond"}
      /\ AfterCache(i) = "refund" => msg[i].sub \in Subscriptions
  <2>1. CASE pc[i] = "fill"
    BY <2>1 DEF AfterCache
  <2>2. CASE pc[i] \in {"cache", "cache refund"}
    BY <2>2 DEF AfterCache, Inv, TypeInv
  <2> QED BY <1>1, <2>1, <2>2
<1>4. /\ cache' # NULL => cache'.at \in Nat /\ cache'.at <= now /\ cache'.data \in Table
      /\ cache' # NULL => AllShut(cache'.data, now)
  <2>1. PICK c : c = [at |-> now, data |-> copy[i]]
    OBVIOUS
  <2>2. /\ c.at = now /\ now \in Nat /\ now <= now
        /\ c.data \in Table /\ AllShut(c.data, now)
    <3>1. now \in Nat
      BY DEF Inv, TypeInv
    <3>2. c.at = now /\ c.data = copy[i]
      BY <2>1
    <3> QED BY <1>2, <3>1, <3>2
  <2>3. CASE cache' = c
    BY <2>2, <2>3
  <2>4. CASE cache' = cache
    BY <2>4 DEF Inv, TypeInv, Ceilings
  <2> QED BY <1>1, <2>1, <2>3, <2>4
<1>5. TypeInv'
  BY <1>1, <1>2, <1>3, <1>4 DEF Inv, TypeInv, Holding, Labels
<1>6. \A j \in Threads : pc'[j] \in Holding => AllShut(copy'[j], now)
  BY <1>1, <1>2 DEF Inv, TypeInv, Ceilings
<1>7. AllShut(file, now)
  BY DEF Inv, Ceilings
<1> QED BY <1>1, <1>4, <1>5, <1>6, <1>7 DEF Inv, Ceilings, AllShut

(* Saving an entry that is shut if it has a ceiling.                         *)
LEMMA SaveStep ==
    ASSUME Inv, NEW i \in Threads, NEW entry \in Entry, Shut(entry, now),
           NEW label \in {"cache", "cache refund"},
           pc[i] \in {"apply", "refund"}, msg[i].sub \in Subscriptions,
           Save(i, entry, label), minted' \in Nat, newer' \in [Messages -> Nat \cup {NULL}]
    PROVE  Inv'
<1>1. PICK data : data = [copy[i] EXCEPT ![msg[i].sub] = entry]
  OBVIOUS
<1>2. /\ copy' = [copy EXCEPT ![i] = data] /\ file' = data
      /\ saved' = saved \cup {msg[i]} /\ pc' = [pc EXCEPT ![i] = label]
      /\ UNCHANGED <<ledger, cache, now, msg, looked, acked, halved>>
  BY <1>1 DEF Save, Goto
<1>3. copy[i] \in Table /\ AllShut(copy[i], now) /\ msg[i] \in Messages
  BY DEF Inv, TypeInv, Ceilings, Holding, Labels
<1>4. data \in Table
  BY <1>1, <1>3 DEF Table
<1>5. AllShut(data, now)
  BY <1>1, <1>3 DEF AllShut, Table
<1>6. TypeInv'
  BY <1>2, <1>3, <1>4 DEF Inv, TypeInv, Holding, Labels
<1>7. \A j \in Threads : pc'[j] \in Holding => AllShut(copy'[j], now)
  BY <1>2, <1>5 DEF Inv, TypeInv, Ceilings
<1>8. cache # NULL => AllShut(cache.data, now)
  BY DEF Inv, Ceilings
<1> QED BY <1>2, <1>5, <1>6, <1>7, <1>8 DEF Inv, Ceilings, AllShut

(* A thread at work has a copy, and a webhook of somebody.                   *)
LEMMA AtWork ==
    ASSUME Inv, NEW i \in Threads, pc[i] \in {"apply", "refund"},
           pc[i] = "apply" => msg[i].sub # NULL
    PROVE  /\ msg[i] \in Messages /\ msg[i] \in Message /\ msg[i].sub \in Subscriptions
           /\ copy[i] \in Table /\ AllShut(copy[i], now)
           /\ Prior(copy[i], msg[i].sub) \in Entry
           /\ Shut(Prior(copy[i], msg[i].sub), now)
           /\ now \in Nat /\ minted \in Nat
<1>1. msg[i] \in Messages /\ copy[i] \in Table /\ AllShut(copy[i], now)
      /\ now \in Nat /\ minted \in Nat
  BY DEF Inv, TypeInv, Ceilings, Holding, Labels
<1>2. msg[i] \in Message
  BY <1>1, BoxMessagesAssumption
<1>3. msg[i].sub \in Subscriptions
  BY <1>2 DEF Message, Inv, TypeInv
<1> QED BY <1>1, <1>2, <1>3, PriorTyped

(* The date of a payload is a time or nothing.                               *)
LEMMA DateTyped ==
    ASSUME NEW m \in Message
    PROVE  ActiveUntil(m) \in Nat \cup {NULL}
<1> QED BY DEF ActiveUntil, Coalesce, Message

(* What set_active writes is shut when it was, or when it is shut now.       *)
LEMMA SetActiveShut ==
    ASSUME NEW old \in Entry, NEW new \in Asked, minted \in Nat, now \in Nat,
           Shut(old, now), new.expires_at \in {NULL, now}
    PROVE  SetActive(old, new) \in Entry /\ Shut(SetActive(old, new), now)
<1>1. PICK e : e = SetActive(old, new)
  OBVIOUS
<1>2. new.expires_at \in Nat \cup {NULL}
  BY DEF Asked
<1>3. e \in Entry /\ e.expires_at = Coalesce(new.expires_at, old.expires_at)
  BY <1>1, SetActiveTyped
<1>4. Shut(e, now)
  BY <1>3 DEF Coalesce, Shut
<1> QED BY <1>1, <1>3, <1>4

(* An activation leaves the ceiling alone.                                   *)
LEMMA GrantStep ==
    ASSUME Inv, NEW i \in Threads, Grant(i)
    PROVE  Inv'
<1>1. pc[i] = "apply" /\ msg[i].sub # NULL
  BY DEF Grant, AtApply
<1>2. PICK old : old = Prior(copy[i], msg[i].sub)
  OBVIOUS
<1>3. PICK email \in Address(msg[i], old) :
        \E entry :
          /\ entry = SetActive(old, Arguments(1, msg[i], email, ActiveUntil(msg[i]), NULL))
          /\ minted' = IF entry.api_key = old.api_key THEN minted ELSE minted + 1
          /\ Save(i, entry, "cache")
  BY <1>2 DEF Grant
<1>4. PICK entry :
        /\ entry = SetActive(old, Arguments(1, msg[i], email, ActiveUntil(msg[i]), NULL))
        /\ minted' = IF entry.api_key = old.api_key THEN minted ELSE minted + 1
        /\ Save(i, entry, "cache")
  BY <1>3
<1>5. /\ msg[i] \in Message /\ msg[i].sub \in Subscriptions
      /\ old \in Entry /\ Shut(old, now) /\ now \in Nat /\ minted \in Nat
  BY <1>1, <1>2, AtWork
<1>6. email \in Emails \cup {NULL}
  BY <1>5, BoxAssumption DEF Address, Fetched, Message
<1>7. PICK new : new = Arguments(1, msg[i], email, ActiveUntil(msg[i]), NULL)
  OBVIOUS
<1>8. new \in Asked /\ new.expires_at = NULL
  <2>1. ActiveUntil(msg[i]) \in Nat \cup {NULL} /\ ResolveTier(msg[i].price) \in Tiers \cup {NULL}
    BY <1>5, DateTyped, TierTyped
  <2> QED BY <1>6, <1>7, <2>1 DEF Arguments, Asked
<1>9. entry \in Entry /\ Shut(entry, now)
  BY <1>4, <1>5, <1>7, <1>8, SetActiveShut
<1>10. minted' \in Nat
  BY <1>4, <1>5
<1>11. newer' \in [Messages -> Nat \cup {NULL}]
  BY DEF Grant, Inv, TypeInv
<1> QED BY <1>1, <1>4, <1>5, <1>9, <1>10, <1>11, SaveStep

(* A cancellation, a late payment and an expiry; the last sets a ceiling of  *)
(* this moment.                                                              *)
LEMMA InactiveStep ==
    ASSUME Inv, NEW i \in Threads, NEW until \in Nat \cup {NULL}, NEW expires \in {NULL, now},
           pc[i] = "apply", msg[i].sub # NULL, SaveInactive(i, until, expires)
    PROVE  Inv'
<1>1. PICK old : old = Prior(copy[i], msg[i].sub)
  OBVIOUS
<1>2. PICK new : new = Arguments(0, msg[i], msg[i].email, until, expires)
  OBVIOUS
<1>3. /\ Save(i, SetActive(old, new), "cache") /\ minted' = minted
      /\ newer' \in [Messages -> Nat \cup {NULL}]
  BY <1>1, <1>2 DEF SaveInactive, Inv, TypeInv
<1>4. /\ msg[i] \in Message /\ msg[i].sub \in Subscriptions
      /\ old \in Entry /\ Shut(old, now) /\ now \in Nat /\ minted \in Nat
  BY <1>1, AtWork
<1>5. msg[i].email \in Emails \cup {NULL} /\ expires \in Nat \cup {NULL}
  BY <1>4 DEF Message
<1>6. new \in Asked /\ new.expires_at = expires
  <2>1. ResolveTier(msg[i].price) \in Tiers \cup {NULL}
    BY TierTyped
  <2> QED BY <1>2, <1>5, <2>1 DEF Arguments, Asked
<1>7. SetActive(old, new) \in Entry /\ Shut(SetActive(old, new), now)
  BY <1>4, <1>6, SetActiveShut
<1> QED BY <1>3, <1>4, <1>7, SaveStep

(* A refund or a chargeback sets it too, and asks for no tier.               *)
LEMMA RevokeStep ==
    ASSUME Inv, NEW i \in Threads, Revoke(i)
    PROVE  Inv'
<1>1. pc[i] = "apply" /\ msg[i].sub # NULL /\ copy[i][msg[i].sub] # NULL
  BY DEF Revoke, AtApply
<1>2. PICK old : old = copy[i][msg[i].sub]
  OBVIOUS
<1>3. PICK base : base = Arguments(0, msg[i], NULL, now, now)
  OBVIOUS
<1>4. PICK new : new = [base EXCEPT !.tier = NULL]
  OBVIOUS
<1>5. /\ Save(i, SetActive(old, new), "cache") /\ minted' = minted
      /\ newer' \in [Messages -> Nat \cup {NULL}]
  BY <1>2, <1>3, <1>4 DEF Revoke, Inv, TypeInv
<1>6. /\ msg[i] \in Message /\ msg[i].sub \in Subscriptions
      /\ old \in Entry /\ Shut(old, now) /\ now \in Nat /\ minted \in Nat
  BY <1>1, <1>2, AtWork DEF Prior
<1>7. base \in Asked /\ base.expires_at = now
  <2>1. ResolveTier(msg[i].price) \in Tiers \cup {NULL}
    BY TierTyped
  <2> QED BY <1>3, <1>6, <2>1 DEF Arguments, Asked
<1>8. new \in Asked /\ new.expires_at = now
  BY <1>4, <1>7 DEF Asked
<1>9. SetActive(old, new) \in Entry /\ Shut(SetActive(old, new), now)
  BY <1>6, <1>8, SetActiveShut
<1> QED BY <1>1, <1>5, <1>6, <1>9, SaveStep

(* A refund noted touches no date.                                           *)
LEMMA RecordRefundStep ==
    ASSUME Inv, NEW i \in Threads, RecordRefund(i)
    PROVE  Inv'
<1>1. /\ pc[i] \in {"apply", "refund"} /\ (pc[i] = "apply" => msg[i].sub # NULL)
      /\ copy[i][msg[i].sub] # NULL
  BY DEF RecordRefund, AtApply
<1>2. PICK old : old = copy[i][msg[i].sub]
  OBVIOUS
<1>3. PICK entry : entry = WithRefund(old, msg[i].adj, Decision(msg[i]).revoke)
  OBVIOUS
<1>4. Save(i, entry, "cache refund") /\ minted' = minted
  BY <1>2, <1>3 DEF RecordRefund
<1>5. /\ msg[i] \in Message /\ msg[i].sub \in Subscriptions
      /\ old \in Entry /\ Shut(old, now) /\ minted \in Nat
  BY <1>1, <1>2, AtWork DEF Prior
<1>6. msg[i].adj \in AdjustmentIds /\ Decision(msg[i]).revoke \in BOOLEAN
  BY <1>5 DEF Message, Decision, DecideAdjustment
<1>7. entry \in Entry /\ entry.expires_at = old.expires_at
  BY <1>3, <1>5, <1>6, WithRefundTyped
<1>8. Shut(entry, now)
  BY <1>5, <1>7 DEF Shut
<1>9. newer' \in [Messages -> Nat \cup {NULL}]
  <2>1. newer \in [Messages -> Nat \cup {NULL}]
    BY DEF Inv, TypeInv
  <2>2. \A m \in Messages : newer[m] # NULL => newer[m] + 1 \in Nat
    BY <2>1
  <2> QED BY <2>1, <2>2 DEF RecordRefund
<1> QED BY <1>1, <1>4, <1>5, <1>7, <1>8, <1>9, SaveStep

(* A restart leaves the files, which are whole.                              *)
LEMMA RestartStep ==
    ASSUME Inv, Restart
    PROVE  Inv'
<1>1. /\ cache' = NULL /\ pc' = [i \in Threads |-> "idle"]
      /\ msg' = [i \in Threads |-> NULL] /\ copy' = [i \in Threads |-> NULL]
      /\ looked' = [i \in Threads |-> NULL] /\ halved' = halved \cup {msg[i] : i \in Halfway}
      /\ UNCHANGED <<file, ledger, minted, now, acked, saved, newer>>
  BY DEF Restart, disk
<1>2. halved' \subseteq Messages
  BY <1>1 DEF Halfway, Inv, TypeInv
<1>3. TypeInv'
  BY <1>1, <1>2 DEF Inv, TypeInv, Holding, Labels
<1> QED BY <1>1, <1>3 DEF Inv, Ceilings, AllShut, Holding

(* Marking changes the ledger and nothing a record is read from.             *)
LEMMA MarkStep ==
    ASSUME Inv, NEW i \in Threads, Mark(i)
    PROVE  Inv'
<1>1. /\ pc[i] = "marking"
      /\ UNCHANGED <<file, cache, minted, now, saved, halved, newer>>
  BY DEF Mark
<1>2. PICK r \in Ledgers!CheckAndMark(looked[i], msg[i].id, now) :
        IF r.first
        THEN /\ ledger' = r.ledger /\ Goto(i, "apply")
             /\ looked' = [looked EXCEPT ![i] = NULL] /\ UNCHANGED <<msg, copy, acked>>
        ELSE Leave(i) /\ acked' = acked \cup {msg[i]} /\ UNCHANGED ledger
  BY DEF Mark
<1>3. CASE r.first
  <2>1. msg[i] \in Message /\ looked[i] \in Ledgers!Ledger /\ now \in Nat
    BY <1>1, BoxMessagesAssumption DEF Inv, TypeInv
  <2>2. msg[i].id \in EventIds
    BY <1>1, <2>1 DEF Message, Inv, TypeInv
  <2>3. ledger' \in Ledgers!Ledger
    BY <1>2, <1>3, <2>1, <2>2, AnswerTyped
  <2>4. pc[i] \in Holding /\ "apply" \in Holding \ {"cache", "refund", "cache refund"}
    BY <1>1 DEF Holding, Labels
  <2> QED BY <1>1, <1>2, <1>3, <2>3, <2>4, MoveStep
<1>4. CASE ~r.first
  BY <1>1, <1>2, <1>4, LeaveStep
<1> QED BY <1>3, <1>4

(* Every step of the server keeps the invariant.                             *)
LEMMA Inductive ==
    ASSUME Inv, [Next]_vars
    PROVE  Inv'
<1>1. CASE Tick
  BY <1>1, TickStep
<1>2. CASE Restart
  BY <1>2, RestartStep
<1>3. ASSUME NEW i \in Threads, NEW m \in Messages, Deliver(i, m) \/ DeliverCopy(i, m)
      PROVE  Inv'
  BY <1>3, OpenStep DEF Deliver, DeliverCopy
<1>4. ASSUME NEW i \in Threads, Fail(i)
      PROVE  Inv'
  <2>1. pc[i] # "idle"
    BY <1>4 DEF Fail
  <2> QED BY <1>4, <2>1, LeaveStep DEF Fail, disk
<1>5. ASSUME NEW i \in Threads, ReadFile(i) \/ UpdateCache(i) \/ Mark(i)
      PROVE  Inv'
  BY <1>5, ReadFileStep, UpdateCacheStep, MarkStep
<1>6. ASSUME NEW i \in Threads, Ignore(i) \/ SkipLedger(i)
      PROVE  Inv'
  <2>1. PICK label \in {"apply", "respond"} : Goto(i, label)
    BY <1>6 DEF Ignore, SkipLedger
  <2>2. /\ pc[i] \in {"mark", "apply"}
        /\ label \in Holding \ {"cache", "refund", "cache refund"} /\ label # "marking"
    BY <1>6, <2>1 DEF Ignore, SkipLedger, Holding, Labels
  <2>3. pc[i] \in Holding /\ looked[i] = NULL /\ ledger \in Ledgers!Ledger
    BY <2>2 DEF Inv, TypeInv, Holding, Labels
  <2>4. /\ UNCHANGED <<file, ledger, cache, minted, now, msg, copy, acked, saved, halved, newer>>
        /\ looked' = [looked EXCEPT ![i] = NULL]
    BY <1>6, <2>3 DEF Ignore, SkipLedger, disk, local, history, Inv, TypeInv
  <2> QED BY <2>1, <2>2, <2>3, <2>4, MoveStep
<1>7. ASSUME NEW i \in Threads, Look(i)
      PROVE  Inv'
  <2>1. /\ pc[i] = "mark" /\ msg[i].id # NULL /\ Goto(i, "marking")
        /\ UNCHANGED <<file, ledger, cache, minted, now, msg, copy, acked, saved, halved, newer>>
    BY <1>7 DEF Look, disk
  <2>2. PICK found \in {ledger, Ledgers!Empty} : looked' = [looked EXCEPT ![i] = found]
    BY <1>7 DEF Look
  <2>3. found \in Ledgers!Ledger /\ found # NULL /\ ledger \in Ledgers!Ledger
    <3>1. ledger \in Ledgers!Ledger /\ Ledgers!Empty \in Ledgers!Ledger
      BY DEF Inv, TypeInv, Ledgers!Empty, Ledgers!Ledger
    <3>2. NULL \notin Ledgers!Ledger
      BY EntryAssumption
    <3> QED BY <2>2, <3>1, <3>2
  <2>4. pc[i] \in Holding /\ "marking" \in Holding \ {"cache", "refund", "cache refund"}
    BY <2>1 DEF Holding, Labels
  <2> QED BY <2>1, <2>2, <2>3, <2>4, MoveStep
<1>8. ASSUME NEW i \in Threads, Grant(i) \/ Revoke(i) \/ RecordRefund(i)
      PROVE  Inv'
  BY <1>8, GrantStep, RevokeStep, RecordRefundStep
<1>9. ASSUME NEW i \in Threads, Cancel(i)
      PROVE  Inv'
  <2>1. pc[i] = "apply" /\ msg[i].sub # NULL
    BY <1>9 DEF Cancel, AtApply
  <2>2. ActiveUntil(msg[i]) \in Nat \cup {NULL}
    BY <2>1, AtWork, DateTyped
  <2> QED BY <1>9, <2>1, <2>2, InactiveStep DEF Cancel
<1>10. ASSUME NEW i \in Threads, PastDue(i)
       PROVE  Inv'
  <2>1. pc[i] = "apply" /\ msg[i].sub # NULL
    BY <1>10 DEF PastDue, AtApply
  <2>2. PICK until : until = PastDueUntil(Prior(copy[i], msg[i].sub).active_until)
    OBVIOUS
  <2>3. Prior(copy[i], msg[i].sub).active_until \in Nat \cup {NULL} /\ now \in Nat
    BY <2>1, AtWork DEF Entry
  <2>4. until \in Nat
    BY <2>2, <2>3, BoxAssumption DEF PastDueUntil, Later
  <2> QED BY <1>10, <2>1, <2>2, <2>4, InactiveStep DEF PastDue
<1>11. ASSUME NEW i \in Threads, Expire(i)
       PROVE  Inv'
  <2>1. pc[i] = "apply" /\ msg[i].sub # NULL /\ now \in Nat
    BY <1>11 DEF Expire, AtApply, Inv, TypeInv
  <2> QED BY <1>11, <2>1, InactiveStep DEF Expire
<1>12. ASSUME NEW i \in Threads, Respond(i)
       PROVE  Inv'
  <2>1. pc[i] # "idle"
    BY <1>12 DEF Respond
  <2> QED BY <1>12, <2>1, LeaveStep DEF Respond, disk
<1>13. CASE UNCHANGED vars
  <2>1. UNCHANGED <<file, cache, ledger, minted, now, pc, msg, copy, looked, acked, saved,
                    halved, newer>>
    BY <1>13 DEF vars, disk, local, history
  <2> QED BY <2>1 DEF Inv, TypeInv, Ceilings, AllShut
<1> QED
  BY <1>1, <1>2, <1>3, <1>4, <1>5, <1>6, <1>7, <1>8, <1>9, <1>10, <1>11, <1>12, <1>13
  DEF Next, Advance

(* The invariant of the server holds throughout.                             *)
THEOREM Invariance == Spec => []Inv
<1>1. Init => Inv
  BY Initially
<1>2. Inv /\ [Next]_vars => Inv'
  BY Inductive
<1> QED BY <1>1, <1>2, PTL DEF Spec

(* The files, the cache and every copy keep their shape.                     *)
THEOREM TypesHold == Spec => []TypeOK
<1>1. Inv => TypeOK
  BY DEF Inv, TypeInv, TypeOK
<1> QED BY <1>1, Invariance, PTL

(* A record under the hard ceiling is shut, from whatever copy it was        *)
(* written: every copy anywhere has its ceilings in the past.                *)
THEOREM CeilingShuts == Spec => []CeilingIsShut
<1>1. ASSUME Inv, NEW s \in Subscriptions, file[s] # NULL, file[s].expires_at # NULL
      PROVE  ~Entitled(s)
  <2>1. file[s] \in Entry /\ now \in Nat
    BY <1>1 DEF Inv, TypeInv, Table
  <2>2. file[s].expires_at \in Nat /\ file[s].expires_at <= now
    BY <1>1, <2>1 DEF Entry, Inv, Ceilings, AllShut, Shut
  <2> QED BY <1>1, <2>1, <2>2 DEF Entitled, EffectiveActive
<1>2. Inv => CeilingIsShut
  BY <1>1 DEF CeilingIsShut
<1> QED BY <1>2, Invariance, PTL

-----------------------------------------------------------------------------
(* One event, one effect.                                                    *)

(* The ledger has room for every id and forgets none while the clock runs.   *)
LedgerCovers == MaxTime <= Retention /\ Cardinality(EventIds) <= MaxEntries

(* A thread that has marked its event and may yet save its effect.           *)
Working(i) == pc[i] \in {"apply", "cache", "refund"} /\ msg[i].id # NULL

(* The ledger has the id, or had it when it could not be read.               *)
Known(e) == ledger[e] # NULL \/ e \in forgotten

OnceInv ==
    /\ now <= MaxTime
    /\ \A i \in Threads : Working(i) => Known(msg[i].id)
    /\ \A i \in Threads : Working(i) /\ pc[i] = "apply" =>
          msg[i] \notin saved \/ msg[i].id \in forgotten
    /\ \A m \in saved : m.id # NULL => Known(m.id)
    /\ \A i, j \in Threads : Working(i) /\ Working(j) /\ msg[i].id = msg[j].id =>
          i = j \/ msg[i].id \in forgotten

(* The lock: one thread holds the ledger, and what it holds is the ledger    *)
(* that is on file unless everything on file is forgotten.                   *)
LockInv ==
    /\ \A i, j \in Threads : looked[i] # NULL /\ looked[j] # NULL => i = j
    /\ \A i \in Threads :
          looked[i] # NULL => looked[i] = ledger \/ Ledgers!Held(ledger) \subseteq forgotten

(* Pruning drops nothing.                                                    *)
LEMMA PruneKeeps ==
    ASSUME LedgerCovers, NEW l \in Ledgers!Ledger, NEW t \in Nat, t <= MaxTime, NEW last
    PROVE  Ledgers!Prune(l, t, last) = {l}
<1>1. \A e \in EventIds : l[e] # NULL => l[e] >= t - Retention
  <2>1. t - Retention <= 0 /\ t - Retention \in Int
    BY BoxAssumption DEF LedgerCovers
  <2>2. \A e \in EventIds : l[e] # NULL => l[e] \in Nat
    BY DEF Ledgers!Ledger
  <2> QED BY <2>1, <2>2
<1>2. Ledgers!Fresh(l, t) = Ledgers!Held(l)
  BY <1>1 DEF Ledgers!Fresh, Ledgers!Held
<1>3. Ledgers!Held(l) \subseteq EventIds
  BY DEF Ledgers!Held
<1>4. Cardinality(Ledgers!Held(l)) <= MaxEntries
  <2>1. IsFiniteSet(EventIds) /\ Cardinality(EventIds) \in Nat /\ MaxEntries \in Nat
    BY BoxAssumption, FS_CardinalityType
  <2>2. /\ Cardinality(Ledgers!Held(l)) <= Cardinality(EventIds)
        /\ Cardinality(Ledgers!Held(l)) \in Nat
    BY <1>3, <2>1, FS_Subset, FS_CardinalityType
  <2> QED BY <2>1, <2>2 DEF LedgerCovers
<1>5. Ledgers!Only(l, Ledgers!Held(l)) = l
  BY DEF Ledgers!Only, Ledgers!Held, Ledgers!Ledger
<1>6. Ledgers!Newest(l, Ledgers!Held(l), last) = {Ledgers!Held(l)}
  <2>1. Ledgers!Cardinality(Ledgers!Held(l)) = Cardinality(Ledgers!Held(l))
    BY DEF Ledgers!Cardinality, Cardinality
  <2> QED BY <1>4, <2>1 DEF Ledgers!Newest
<1>7. Ledgers!Prune(l, t, last) = {Ledgers!Only(l, keep) : keep \in {Ledgers!Held(l)}}
  BY <1>2, <1>6 DEF Ledgers!Prune
<1> QED BY <1>5, <1>7

(* check_and_mark answers by what is in the ledger and adds its id to it.    *)
LEMMA Answers ==
    ASSUME LedgerCovers, NEW l \in Ledgers!Ledger, NEW e \in EventIds,
           NEW t \in Nat, t <= MaxTime, NEW r \in Ledgers!CheckAndMark(l, e, t)
    PROVE  \/ l[e] # NULL /\ ~r.first /\ r.ledger = l
           \/ l[e] = NULL /\ r.first /\ r.ledger = [l EXCEPT ![e] = t]
<1>1. Ledgers!Prune(l, t, NULL) = {l}
  BY PruneKeeps
<1>2. [l EXCEPT ![e] = t] \in Ledgers!Ledger
  BY DEF Ledgers!Ledger
<1>3. Ledgers!Prune([l EXCEPT ![e] = t], t, e) = {[l EXCEPT ![e] = t]}
  BY <1>2, PruneKeeps
<1>4. PICK p \in Ledgers!Prune(l, t, NULL) :
        r \in (IF p[e] # NULL THEN {[first |-> FALSE, ledger |-> l]}
               ELSE {[first |-> TRUE, ledger |-> q] :
                        q \in Ledgers!Prune([p EXCEPT ![e] = t], t, e)})
  BY DEF Ledgers!CheckAndMark
<1>5. p = l
  BY <1>1, <1>4
<1>6. CASE l[e] # NULL
  BY <1>4, <1>5, <1>6
<1>7. CASE l[e] = NULL
  <2>1. r \in {[first |-> TRUE, ledger |-> q] : q \in {[l EXCEPT ![e] = t]}}
    BY <1>3, <1>4, <1>5, <1>7
  <2> QED BY <1>7, <2>1
<1> QED BY <1>6, <1>7

(* Steps that mark and save nothing only take threads out of work.           *)
LEMMA IdleStep ==
    ASSUME OnceInv, now' <= MaxTime, UNCHANGED <<ledger, saved>>, forgotten \subseteq forgotten',
           \A i \in Threads : pc'[i] \in {"apply", "cache", "refund"} =>
               /\ pc[i] \in {"apply", "cache", "refund"} \/ msg'[i].id = NULL
               /\ msg'[i] = msg[i]
               /\ pc'[i] = "apply" => pc[i] = "apply" \/ msg'[i].id = NULL
    PROVE  OnceInv'
<1>1. \A i \in Threads : Working(i)' =>
        Working(i) /\ msg'[i] = msg[i] /\ (pc'[i] = "apply" => pc[i] = "apply")
  BY DEF Working
<1>2. \A e : Known(e) => Known(e)'
  BY DEF Known
<1>3. \A i \in Threads : Working(i)' => Known(msg[i].id)'
  BY <1>1, <1>2 DEF OnceInv
<1>4. \A i \in Threads : Working(i)' /\ pc'[i] = "apply" =>
        msg'[i] \notin saved' \/ msg'[i].id \in forgotten'
  BY <1>1 DEF OnceInv
<1>5. \A m \in saved' : m.id # NULL => Known(m.id)'
  BY <1>2 DEF OnceInv
<1>6. \A i, j \in Threads : Working(i)' /\ Working(j)' /\ msg'[i].id = msg'[j].id =>
        i = j \/ msg'[i].id \in forgotten'
  BY <1>1 DEF OnceInv
<1> QED BY <1>3, <1>4, <1>5, <1>6 DEF OnceInv

(* Who marks an event under the lock finds it unmarked, so nobody else is at *)
(* work on it.                                                               *)
LEMMA OnceMark ==
    ASSUME LedgerCovers, Inv, OnceInv, LockInv, NEW i \in Threads, Mark(i)
    PROVE  OnceInv' /\ LockInv'
<1> DEFINE e == msg[i].id
<1>1. pc[i] = "marking" /\ UNCHANGED <<now, saved, forgotten>>
  BY DEF Mark
<1>2. /\ pc \in [Threads -> Labels] /\ msg \in [Threads -> Messages \cup {NULL}]
      /\ looked \in [Threads -> Ledgers!Ledger \cup {NULL}]
      /\ msg[i] \in Message /\ now \in Nat /\ ledger \in Ledgers!Ledger
      /\ looked[i] \in Ledgers!Ledger /\ looked[i] # NULL
  BY <1>1, BoxMessagesAssumption DEF Inv, TypeInv
<1>3. e \in EventIds /\ e # NULL /\ now <= MaxTime
  BY <1>1, <1>2 DEF Message, OnceInv, Inv, TypeInv
<1>4. PICK r \in Ledgers!CheckAndMark(looked[i], e, now) :
        IF r.first
        THEN /\ ledger' = r.ledger /\ Goto(i, "apply")
             /\ looked' = [looked EXCEPT ![i] = NULL] /\ UNCHANGED <<msg, copy, acked>>
        ELSE Leave(i) /\ acked' = acked \cup {msg[i]} /\ UNCHANGED ledger
  BY DEF Mark
<1>5. \/ looked[i][e] # NULL /\ ~r.first
      \/ looked[i][e] = NULL /\ r.first /\ r.ledger = [looked[i] EXCEPT ![e] = now]
  BY <1>2, <1>3, <1>4, Answers
<1>6. looked[i] = ledger \/ Ledgers!Held(ledger) \subseteq forgotten
  BY <1>2 DEF LockInv
<1>7. looked' = [looked EXCEPT ![i] = NULL]
  BY <1>4 DEF Leave
<1>8. LockInv'
  <2>1. \A j \in Threads : looked'[j] = NULL
    BY <1>2, <1>7 DEF LockInv
  <2> QED BY <2>1 DEF LockInv
<1>9. CASE ~r.first
  <2>1. ledger' = ledger /\ Leave(i)
    BY <1>4, <1>9
  <2>2. \A j \in Threads : pc'[j] \in {"apply", "cache", "refund"} =>
          pc'[j] = pc[j] /\ msg'[j] = msg[j]
    BY <1>2, <2>1 DEF Leave
  <2>3. OnceInv'
    BY <1>1, <1>3, <2>1, <2>2, IdleStep
  <2> QED BY <1>8, <2>3
<1>10. CASE r.first
  <2>1. /\ ledger' = [looked[i] EXCEPT ![e] = now] /\ msg' = msg
        /\ pc' = [pc EXCEPT ![i] = "apply"] /\ looked[i][e] = NULL
    BY <1>4, <1>5, <1>10 DEF Goto
  <2>2. \A k \in EventIds : Known(k) => Known(k)'
    <3> SUFFICES ASSUME NEW k \in EventIds, Known(k), k \notin forgotten
                 PROVE  ledger'[k] # NULL
      BY <1>1 DEF Known
    <3>1. ledger[k] # NULL
      BY DEF Known
    <3>2. looked[i] = ledger
      BY <1>6, <3>1 DEF Ledgers!Held
    <3> QED BY <1>2, <2>1, <3>1, <3>2, NullAssumption DEF Ledgers!Ledger
  <2>3. Known(e)'
    BY <1>2, <1>3, <2>1, NullAssumption DEF Known, Ledgers!Ledger
  <2>4. Known(e) => e \in forgotten
    BY <1>3, <1>6, <2>1 DEF Known, Ledgers!Held
  <2>5. \A j \in Threads : Working(j)' => j = i \/ (Working(j) /\ pc'[j] = pc[j])
    BY <1>2, <2>1 DEF Working
  <2>6. \A j \in Threads : Working(j) => msg[j].id \in EventIds
    BY <1>2, BoxMessagesAssumption DEF Working, Message, Inv, TypeInv
  <2>7. \A m \in saved : m.id # NULL => m.id \in EventIds
    <3>1. \A m \in saved : m \in Message
      BY BoxMessagesAssumption DEF Inv, TypeInv
    <3> QED BY <3>1 DEF Message
  <2>8. msg[i] \notin saved \/ e \in forgotten
    BY <1>3, <2>4 DEF OnceInv
  <2>9. \A j \in Threads : Working(j)' => Known(msg[j].id)'
    BY <2>1, <2>2, <2>3, <2>5, <2>6 DEF OnceInv
  <2>10. \A m \in saved' : m.id # NULL => Known(m.id)'
    BY <1>1, <2>2, <2>7 DEF OnceInv
  <2>11. \A j \in Threads : Working(j)' /\ pc'[j] = "apply" =>
           msg'[j] \notin saved' \/ msg'[j].id \in forgotten'
    BY <1>1, <2>1, <2>5, <2>8 DEF OnceInv
  <2>12. \A j, k \in Threads : Working(j)' /\ Working(k)' /\ msg'[j].id = msg'[k].id =>
           j = k \/ msg'[j].id \in forgotten'
    BY <1>1, <2>1, <2>4, <2>5 DEF OnceInv
  <2>13. OnceInv'
    BY <1>1, <1>3, <2>9, <2>10, <2>11, <2>12 DEF OnceInv
  <2> QED BY <1>8, <2>13
<1> QED BY <1>9, <1>10

(* Who saves has marked, and is alone in it.                                 *)
LEMMA OnceSave ==
    ASSUME Inv, OnceInv, NEW i \in Threads, NEW entry, NEW label \in {"cache", "cache refund"},
           pc[i] \in {"apply", "refund"}, Save(i, entry, label)
    PROVE  OnceInv'
<1>1. /\ saved' = saved \cup {msg[i]} /\ pc' = [pc EXCEPT ![i] = label]
      /\ UNCHANGED <<ledger, now, msg, forgotten>>
  BY DEF Save, Goto
<1>2. pc \in [Threads -> Labels]
  BY DEF Inv, TypeInv
<1>3. \A j \in Threads :
        Working(j)' => Working(j) /\ (pc'[j] = "apply" => j # i /\ pc[j] = "apply")
  BY <1>1, <1>2 DEF Working
<1>4. msg[i].id # NULL => Working(i)
  BY DEF Working
<1>5. \A j \in Threads : Working(j)' /\ pc'[j] = "apply" =>
        msg[j] # msg[i] \/ msg[j].id \in forgotten
  BY <1>3, <1>4 DEF OnceInv, Working
<1>6. \A e : Known(e) <=> Known(e)'
  BY <1>1 DEF Known
<1>7. \A m \in saved' : m.id # NULL => Known(m.id)'
  BY <1>1, <1>4, <1>6 DEF OnceInv
<1>8. \A j \in Threads : Working(j)' /\ pc'[j] = "apply" =>
        msg'[j] \notin saved' \/ msg'[j].id \in forgotten'
  BY <1>1, <1>3, <1>5 DEF OnceInv
<1>9. \A j \in Threads : Working(j)' => Known(msg[j].id)'
  BY <1>1, <1>3, <1>6 DEF OnceInv
<1>10. \A j, k \in Threads : Working(j)' /\ Working(k)' /\ msg'[j].id = msg'[k].id =>
         j = k \/ msg'[j].id \in forgotten'
  BY <1>1, <1>3 DEF OnceInv
<1> QED BY <1>1, <1>7, <1>8, <1>9, <1>10 DEF OnceInv

(* Nobody looks while another holds the ledger, and nobody else changes it.  *)
LEMMA LockStep ==
    ASSUME Inv, LockInv, [Next]_vars, ~ \E i \in Threads : Mark(i)
    PROVE  LockInv' /\ ledger' = ledger /\ forgotten \subseteq forgotten'
<1>0. looked \in [Threads -> Ledgers!Ledger \cup {NULL}]
  BY DEF Inv, TypeInv
<1>1. CASE \E i \in Threads : Look(i)
  <2>1. PICK i \in Threads : Look(i)
    BY <1>1
  <2>2. /\ \A j \in Threads : looked[j] = NULL
        /\ \A j \in Threads : looked'[j] # NULL => j = i
        /\ ledger' = ledger
        /\ \/ looked'[i] = ledger /\ forgotten' = forgotten
           \/ forgotten' = forgotten \cup Ledgers!Held(ledger)
    BY <1>0, <2>1 DEF Look, disk
  <2> QED BY <2>2 DEF LockInv
<1>2. CASE ~ \E i \in Threads : Look(i)
  <2>1. /\ ledger' = ledger /\ forgotten' = forgotten
        /\ \A j \in Threads : looked'[j] # NULL => looked'[j] = looked[j]
    <3>1. CASE Tick \/ Restart \/ UNCHANGED vars
      BY <3>1 DEF Tick, Restart, vars, disk, local, history
    <3>2. ASSUME NEW i \in Threads, NEW m \in Messages, Open(i, m)
          PROVE  ledger' = ledger /\ forgotten' = forgotten /\ looked' = looked
      BY <3>2 DEF Open, disk
    <3>3. ASSUME NEW i \in Threads, Fail(i) \/ Respond(i)
          PROVE  /\ ledger' = ledger /\ forgotten' = forgotten
                 /\ looked' = [looked EXCEPT ![i] = NULL]
      BY <3>3 DEF Fail, Respond, Leave, disk
    <3>4. ASSUME NEW i \in Threads, ReadFile(i) \/ UpdateCache(i) \/ SkipLedger(i) \/ Ignore(i)
          PROVE  ledger' = ledger /\ forgotten' = forgotten /\ looked' = looked
      BY <3>4 DEF ReadFile, UpdateCache, SkipLedger, Ignore, disk, local, history
    <3>5. ASSUME NEW i \in Threads,
                 Grant(i) \/ Cancel(i) \/ PastDue(i) \/ Expire(i) \/ Revoke(i) \/ RecordRefund(i)
          PROVE  ledger' = ledger /\ forgotten' = forgotten /\ looked' = looked
      BY <3>5 DEF Grant, Cancel, PastDue, Expire, Revoke, RecordRefund, SaveInactive, Save
    <3> QED BY <1>0, <1>2, <3>1, <3>2, <3>3, <3>4, <3>5
            DEF Next, Advance, Deliver, DeliverCopy
  <2> QED BY <2>1 DEF LockInv
<1> QED BY <1>1, <1>2

(* Every step of the server keeps one event to one effect.                   *)
LEMMA OnceInductive ==
    ASSUME LedgerCovers, Inv, OnceInv, LockInv, [Next]_vars
    PROVE  OnceInv' /\ LockInv'
<1>0. /\ pc \in [Threads -> Labels] /\ msg \in [Threads -> Messages \cup {NULL}]
      /\ now <= MaxTime /\ now \in Nat /\ MaxTime \in Nat
  BY BoxAssumption DEF Inv, TypeInv, OnceInv
<1>1. CASE \E i \in Threads : Mark(i)
  BY <1>1, OnceMark
<1>2. CASE ~ \E i \in Threads : Mark(i)
  <2>0. LockInv' /\ ledger' = ledger /\ forgotten \subseteq forgotten'
    BY <1>2, LockStep
  <2>1. CASE Tick
    <3>1. now' <= MaxTime /\ UNCHANGED <<saved, pc, msg>>
      BY <1>0, <2>1 DEF Tick, local, history
    <3> QED BY <2>0, <3>1, IdleStep
  <2>2. CASE Restart
    <3>1. pc' = [i \in Threads |-> "idle"] /\ UNCHANGED <<saved, now>>
      BY <2>2 DEF Restart
    <3> QED BY <1>0, <2>0, <3>1, IdleStep
  <2>3. ASSUME NEW i \in Threads, NEW m \in Messages, Open(i, m)
        PROVE  OnceInv'
    <3>1. /\ pc' \in {[pc EXCEPT ![i] = "mark"], [pc EXCEPT ![i] = "read"]}
          /\ msg' = [msg EXCEPT ![i] = m] /\ UNCHANGED <<saved, now>>
      BY <2>3 DEF Open, Goto
    <3> QED BY <1>0, <2>0, <3>1, IdleStep
  <2>4. ASSUME NEW i \in Threads, Fail(i) \/ Respond(i)
        PROVE  OnceInv'
    <3>1. Leave(i) /\ UNCHANGED <<saved, now>>
      BY <2>4 DEF Fail, Respond
    <3>2. \A j \in Threads : pc'[j] \in {"apply", "cache", "refund"} =>
            pc'[j] = pc[j] /\ msg'[j] = msg[j]
      BY <1>0, <3>1 DEF Leave
    <3> QED BY <1>0, <2>0, <3>1, <3>2, IdleStep
  <2>5. ASSUME NEW i \in Threads, ReadFile(i) \/ Ignore(i) \/ Look(i)
        PROVE  OnceInv'
    <3>1. /\ pc' \in {[pc EXCEPT ![i] = label] : label \in {"fill", "respond", "marking"}}
          /\ UNCHANGED <<saved, now, msg>>
      BY <2>5 DEF ReadFile, Ignore, Look, Goto, local, history
    <3> QED BY <1>0, <2>0, <3>1, IdleStep
  <2>6. ASSUME NEW i \in Threads, SkipLedger(i)
        PROVE  OnceInv'
    <3>1. /\ pc' = [pc EXCEPT ![i] = "apply"] /\ msg[i].id = NULL
          /\ UNCHANGED <<saved, now, msg>>
      BY <2>6 DEF SkipLedger, Goto, local, history
    <3> QED BY <1>0, <2>0, <3>1, IdleStep
  <2>7. ASSUME NEW i \in Threads, UpdateCache(i)
        PROVE  OnceInv'
    <3>1. /\ pc[i] \in {"fill", "cache", "cache refund"}
          /\ pc' = [pc EXCEPT ![i] = AfterCache(i)] /\ UNCHANGED <<saved, now, msg>>
      BY <2>7 DEF UpdateCache, Goto, local, history
    <3>2. /\ AfterCache(i) \in {"mark", "refund", "respond"}
          /\ AfterCache(i) = "refund" => pc[i] = "cache"
      <4>1. CASE pc[i] = "fill"
        BY <4>1 DEF AfterCache
      <4>2. CASE pc[i] = "cache"
        BY <4>2 DEF AfterCache
      <4>3. CASE pc[i] = "cache refund"
        BY <4>3 DEF AfterCache
      <4> QED BY <3>1, <4>1, <4>2, <4>3
    <3> QED BY <1>0, <2>0, <3>1, <3>2, IdleStep
  <2>8. ASSUME NEW i \in Threads,
               Grant(i) \/ Cancel(i) \/ PastDue(i) \/ Expire(i) \/ Revoke(i) \/ RecordRefund(i)
        PROVE  OnceInv'
    <3>1. /\ pc[i] \in {"apply", "refund"}
          /\ \E entry : Save(i, entry, "cache") \/ Save(i, entry, "cache refund")
      BY <2>8 DEF Grant, Cancel, PastDue, Expire, Revoke, RecordRefund, SaveInactive, AtApply
    <3> QED BY <3>1, OnceSave
  <2>9. CASE UNCHANGED vars
    <3>1. UNCHANGED <<saved, now, pc, msg>>
      BY <2>9 DEF vars, local, history
    <3> QED BY <1>0, <2>0, <3>1, IdleStep
  <2>10. OnceInv'
    BY <1>2, <2>1, <2>2, <2>3, <2>4, <2>5, <2>6, <2>7, <2>8, <2>9
    DEF Next, Advance, Deliver, DeliverCopy
  <2> QED BY <2>0, <2>10
<1> QED BY <1>1, <1>2

(* One event has one effect while the ledger has room and memory for its id, *)
(* whatever overlaps, fails, restarts or comes again, unless the ledger      *)
(* could not be read when it held the id.                                    *)
THEOREM OneEffect == LedgerCovers /\ Spec => AppliedOnce
<1>1. Init => OnceInv /\ LockInv
  BY BoxAssumption DEF Init, OnceInv, LockInv, Working
<1>2. LedgerCovers /\ Inv /\ OnceInv /\ LockInv /\ [Next]_vars => OnceInv' /\ LockInv'
  BY OnceInductive
<1>3. OnceInv /\ [Next]_vars =>
        [\A i \in Threads :
          /\ msg[i] # NULL /\ msg[i].id # NULL /\ msg[i].id \notin forgotten
          /\ pc[i] = "apply" /\ pc'[i] \in {"cache", "cache refund"}
          => msg[i] \notin saved]_vars
  BY DEF OnceInv, Working
<1>4. LedgerCovers => []LedgerCovers
  <2>1. LedgerCovers => LedgerCovers'
    BY DEF LedgerCovers
  <2> QED BY <2>1, PTL
<1> QED BY <1>1, <1>2, <1>3, <1>4, Invariance, PTL DEF Spec, AppliedOnce

-----------------------------------------------------------------------------
(* What a box is spared that serves one request after the other and can read *)
(* its file: a thread's copy is the file whenever it has one, and so is the  *)
(* cache whenever nobody is about to fill it.                                *)
Storing == {"cache", "cache refund"}

AloneInv ==
    ~disturbed =>
        /\ \A i, j \in Threads : pc[i] # "idle" /\ pc[j] # "idle" => i = j
        /\ \A i \in Threads : pc[i] \in Holding => copy[i] = file
        /\ CacheIsFresh /\ (\A i \in Threads : pc[i] \notin Storing) => cache.data = file

(* A step that leaves file and copies alone and is not the end of a store.   *)
LEMMA AloneMoves ==
    ASSUME AloneInv, disturbed' = disturbed, UNCHANGED file,
           CacheIsFresh' => CacheIsFresh /\ cache' = cache,
           \A i \in Threads : /\ pc'[i] # "idle" => pc[i] # "idle"
                              /\ pc'[i] \in Holding => pc[i] \in Holding /\ copy'[i] = copy[i]
                              /\ pc[i] \in Storing => pc'[i] \in Storing
    PROVE  AloneInv'
<1> SUFFICES ASSUME ~disturbed
             PROVE  AloneInv'
  BY DEF AloneInv
<1>1. \A i, j \in Threads : pc'[i] # "idle" /\ pc'[j] # "idle" => i = j
  BY DEF AloneInv
<1>2. \A i \in Threads : pc'[i] \in Holding => copy'[i] = file'
  BY DEF AloneInv
<1>3. CacheIsFresh' /\ (\A i \in Threads : pc'[i] \notin Storing) => cache'.data = file'
  BY DEF AloneInv
<1> QED BY <1>1, <1>2, <1>3 DEF AloneInv

(* A request that meets nobody finds a cache it can trust or none.           *)
LEMMA AloneOpens ==
    ASSUME Inv, AloneInv, NEW i \in Threads, NEW m \in Messages, Open(i, m)
    PROVE  AloneInv'
<1> SUFFICES ASSUME ~disturbed'
             PROVE  AloneInv'
  BY DEF AloneInv
<1>1. /\ pc[i] = "idle" /\ UNCHANGED <<file, cache, now>>
      /\ \A j \in Threads \ {i} : pc[j] = "idle"
      /\ disturbed => ~CacheIsFresh
  BY DEF Open, StillDisturbed, disk
<1>2. /\ pc \in [Threads -> Labels] /\ copy \in [Threads -> Table \cup {NULL}]
      /\ CacheIsFresh' <=> CacheIsFresh
  BY <1>1 DEF Inv, TypeInv, CacheIsFresh
<1>3. CacheIsFresh => cache.data = file
  BY <1>1 DEF AloneInv, Storing
<1>4. \A j \in Threads : j # i => pc'[j] = "idle"
  BY <1>1, <1>2 DEF Open, Goto
<1>5. pc'[i] \in Holding => copy'[i] = file
  <2>1. CASE CacheIsFresh
    BY <1>2, <1>3, <2>1 DEF Open
  <2>2. CASE ~CacheIsFresh
    BY <1>2, <2>2 DEF Open, Goto, Holding
  <2> QED BY <2>1, <2>2
<1> QED BY <1>1, <1>2, <1>3, <1>4, <1>5 DEF AloneInv, Holding

(* What a thread saves alone is the file, and then the cache.                *)
LEMMA AloneSaves ==
    ASSUME Inv, AloneInv, NEW i \in Threads, NEW entry, NEW label \in Storing,
           pc[i] \in {"apply", "refund"}, Save(i, entry, label)
    PROVE  AloneInv'
<1> SUFFICES ASSUME ~disturbed'
             PROVE  AloneInv'
  BY DEF AloneInv
<1>1. /\ copy' = [copy EXCEPT ![i] = file'] /\ pc' = [pc EXCEPT ![i] = label]
      /\ disturbed' = disturbed
  BY DEF Save, Goto
<1>2. pc'[i] \in Storing /\ copy'[i] = file'
  BY <1>1 DEF Inv, TypeInv
<1>3. \A j \in Threads : j # i => pc'[j] = "idle"
  BY <1>1 DEF AloneInv, Inv, TypeInv
<1> QED BY <1>2, <1>3 DEF AloneInv, Holding

LEMMA AloneStores ==
    ASSUME Inv, AloneInv, NEW i \in Threads, UpdateCache(i)
    PROVE  AloneInv'
<1> SUFFICES ASSUME ~disturbed'
             PROVE  AloneInv'
  BY DEF AloneInv
<1>1. /\ pc[i] \in {"fill", "cache", "cache refund"}
      /\ cache' = IF CacheTTL > 0 THEN [at |-> now, data |-> copy[i]] ELSE cache
      /\ pc' = [pc EXCEPT ![i] = AfterCache(i)]
      /\ UNCHANGED <<file, copy, now, disturbed>>
  BY DEF UpdateCache, Goto, disk, local, history
<1>2. copy[i] = file
  BY <1>1 DEF AloneInv, Holding, Labels
<1>3. \A j \in Threads : j # i => pc'[j] = "idle"
  BY <1>1 DEF AloneInv, Inv, TypeInv
<1>4. CacheIsFresh' => cache'.data = file
  <2>1. CASE CacheTTL > 0
    BY <1>1, <1>2, <2>1
  <2>2. CASE ~(CacheTTL > 0)
    <3>1. cache # NULL => cache.at \in Nat /\ cache.at <= now
      BY DEF Inv, TypeInv
    <3>2. now \in Nat /\ CacheTTL \in Nat
      BY BoxAssumption DEF Inv, TypeInv
    <3>3. cache # NULL => ~(now - cache.at < CacheTTL)
      BY <2>2, <3>1, <3>2
    <3> QED BY <1>1, <2>2, <3>3 DEF CacheIsFresh
  <2> QED BY <2>1, <2>2
<1> QED BY <1>1, <1>2, <1>3, <1>4 DEF AloneInv, Holding

LEMMA AloneInductive ==
    ASSUME Inv, AloneInv, [Next]_vars
    PROVE  AloneInv'
<1>0. /\ pc \in [Threads -> Labels] /\ copy \in [Threads -> Table \cup {NULL}]
      /\ now \in Nat /\ CacheTTL \in Nat
      /\ cache # NULL => cache.at \in Nat /\ cache.at <= now
  BY BoxAssumption DEF Inv, TypeInv
<1>1. CASE Tick
  <2>1. now' = now + 1 /\ UNCHANGED <<file, cache, pc, copy, disturbed>>
    BY <1>1 DEF Tick, disk, local, history
  <2>2. CacheIsFresh' => CacheIsFresh /\ cache' = cache
    BY <1>0, <2>1 DEF CacheIsFresh
  <2> QED BY <2>1, <2>2, AloneMoves
<1>2. CASE Restart
  <2>1. /\ cache' = NULL /\ pc' = [i \in Threads |-> "idle"]
        /\ UNCHANGED <<file, disturbed>>
    BY <1>2 DEF Restart, disk
  <2> QED BY <2>1 DEF AloneInv, CacheIsFresh, Holding
<1>3. ASSUME NEW i \in Threads, NEW m \in Messages, Open(i, m)
      PROVE  AloneInv'
  BY <1>3, AloneOpens
<1>4. ASSUME NEW i \in Threads, ReadFile(i)
      PROVE  AloneInv'
  <2> SUFFICES ASSUME ~disturbed'
               PROVE  AloneInv'
    BY DEF AloneInv
  <2>1. /\ pc[i] = "read" /\ copy' = [copy EXCEPT ![i] = file] /\ pc' = [pc EXCEPT ![i] = "fill"]
        /\ UNCHANGED <<file, cache, now, disturbed>>
    BY <1>4 DEF ReadFile, Goto, disk
  <2>2. copy'[i] = file /\ pc'[i] = "fill" /\ \A j \in Threads : j # i => pc'[j] = "idle"
    BY <1>0, <2>1 DEF AloneInv
  <2>3. CacheIsFresh' => cache'.data = file
    BY <2>1, <2>2, <1>0 DEF AloneInv, CacheIsFresh, Storing
  <2> QED BY <2>1, <2>2, <2>3 DEF AloneInv, Holding
<1>5. ASSUME NEW i \in Threads, UpdateCache(i)
      PROVE  AloneInv'
  BY <1>5, AloneStores
<1>6. ASSUME NEW i \in Threads,
             SkipLedger(i) \/ Look(i) \/ Mark(i) \/ Ignore(i) \/ Respond(i) \/ Fail(i)
      PROVE  AloneInv'
  <2>1. /\ UNCHANGED <<file, cache, now, disturbed>> /\ pc[i] \in Holding \ Storing
        /\ \/ Leave(i)
           \/ copy' = copy /\ \E label \in {"marking", "apply", "respond"} : Goto(i, label)
    BY <1>6 DEF SkipLedger, Look, Mark, Ignore, Respond, Fail, disk, local, history, Holding,
                Labels, Storing
  <2>2. \A j \in Threads : /\ pc'[j] # "idle" => pc[j] # "idle"
                           /\ pc'[j] \in Holding => pc[j] \in Holding /\ copy'[j] = copy[j]
                           /\ pc[j] \in Storing => pc'[j] \in Storing
    BY <1>0, <2>1 DEF Leave, Goto, Holding
  <2>3. CacheIsFresh' <=> CacheIsFresh
    BY <2>1 DEF CacheIsFresh
  <2> QED BY <2>1, <2>2, <2>3, AloneMoves
<1>7. ASSUME NEW i \in Threads,
             Grant(i) \/ Cancel(i) \/ PastDue(i) \/ Expire(i) \/ Revoke(i) \/ RecordRefund(i)
      PROVE  AloneInv'
  <2>1. /\ pc[i] \in {"apply", "refund"}
        /\ \E entry : Save(i, entry, "cache") \/ Save(i, entry, "cache refund")
    BY <1>7 DEF Grant, Cancel, PastDue, Expire, Revoke, RecordRefund, SaveInactive, AtApply
  <2> QED BY <2>1, AloneSaves DEF Storing
<1>8. CASE UNCHANGED vars
  <2>1. UNCHANGED <<file, cache, now, pc, copy, disturbed>>
    BY <1>8 DEF vars, disk, local, history
  <2>2. CacheIsFresh' <=> CacheIsFresh
    BY <2>1 DEF CacheIsFresh
  <2> QED BY <2>1, <2>2, AloneMoves
<1> QED
  BY <1>1, <1>2, <1>3, <1>4, <1>5, <1>6, <1>7, <1>8
  DEF Next, Advance, Deliver, DeliverCopy

(* Only a save of a copy that is not the file overwrites anything.           *)
LEMMA OverwrittenBySaves ==
    ASSUME Inv, [Next]_vars
    PROVE  \/ overwritten' = overwritten
           \/ \E i \in Threads : /\ pc[i] \in {"apply", "refund"} /\ copy[i] # file
                                 /\ \E entry, label : Save(i, entry, label)
<1>1. CASE Tick \/ Restart \/ UNCHANGED vars
  BY <1>1 DEF Tick, Restart, vars, history
<1>2. ASSUME NEW i \in Threads,
             \/ \E m \in Messages : Open(i, m)
             \/ ReadFile(i) \/ UpdateCache(i) \/ SkipLedger(i) \/ Look(i) \/ Mark(i)
             \/ Ignore(i) \/ Respond(i) \/ Fail(i)
      PROVE  overwritten' = overwritten
  BY <1>2 DEF Open, ReadFile, UpdateCache, SkipLedger, Look, Mark, Ignore, Respond, Fail, history
<1>3. ASSUME NEW i \in Threads,
             Grant(i) \/ Cancel(i) \/ PastDue(i) \/ Expire(i) \/ Revoke(i) \/ RecordRefund(i)
      PROVE  /\ pc[i] \in {"apply", "refund"}
             /\ \E entry, label : Save(i, entry, label)
  BY <1>3 DEF Grant, Cancel, PastDue, Expire, Revoke, RecordRefund, SaveInactive, AtApply
<1>4. ASSUME NEW i \in Threads, NEW entry, NEW label, Save(i, entry, label), copy[i] = file
      PROVE  overwritten' = overwritten
  BY <1>4 DEF Save
<1> QED BY <1>1, <1>2, <1>3, <1>4 DEF Next, Advance, Deliver, DeliverCopy

(* Whatever the cache's age, however often the process dies and whichever    *)
(* write raises, no record goes back to what it was unless requests have     *)
(* overlapped or the file could not be read.                                 *)
THEOREM OverwritesExplained == Spec => OverwritesAreExplained
<1>1. Init => AloneInv
  BY DEF Init, AloneInv, CacheIsFresh, Holding
<1>2. Inv /\ AloneInv /\ [Next]_vars => AloneInv'
  BY AloneInductive
<1>3. Inv /\ AloneInv /\ [Next]_vars => [overwritten' # overwritten => disturbed]_vars
  <2> SUFFICES ASSUME Inv, AloneInv, [Next]_vars, overwritten' # overwritten
               PROVE  disturbed
    OBVIOUS
  <2>1. PICK i \in Threads : pc[i] \in {"apply", "refund"} /\ copy[i] # file
    BY OverwrittenBySaves
  <2> QED BY <2>1 DEF AloneInv, Holding, Labels
<1> QED BY <1>1, <1>2, <1>3, Invariance, PTL DEF Spec, OverwritesAreExplained

-----------------------------------------------------------------------------
(* What a class of webhook asks of set_active.                               *)
AskedOf(i, old, new) ==
    \/ /\ msg[i].type \in ACTIVE /\ ResolveTier(msg[i].price) # NULL
       /\ new.active = 1 /\ new.active_until = ActiveUntil(msg[i]) /\ new.expires_at = NULL
    \/ /\ msg[i].type \in GRACE
       /\ new.active = 0 /\ new.active_until = ActiveUntil(msg[i]) /\ new.expires_at = NULL
    \/ /\ msg[i].type \in PAST_DUE
       /\ new.active = 0 /\ new.expires_at = NULL
       /\ new.active_until \in Nat
       /\ old.active_until # NULL => new.active_until >= old.active_until
    \/ /\ \/ msg[i].type \in HARD_REVOKE
          \/ msg[i].type \in ADJUSTMENT /\ Decision(msg[i]).revoke
       /\ new.active = 0 /\ new.active_until = now /\ new.expires_at = now

LEMMA SavesAsked ==
    ASSUME Inv, NEW i \in Threads, pc[i] = "apply", msg[i].sub # NULL,
           Grant(i) \/ Cancel(i) \/ PastDue(i) \/ Expire(i) \/ Revoke(i)
    PROVE  \E new \in Asked :
              /\ AskedOf(i, Prior(copy[i], msg[i].sub), new)
              /\ Save(i, SetActive(Prior(copy[i], msg[i].sub), new), "cache")
              /\ newer' = newer
<1>1. PICK old : old = Prior(copy[i], msg[i].sub)
  OBVIOUS
<1>2. /\ msg[i] \in Message /\ msg[i].sub \in Subscriptions
      /\ old \in Entry /\ now \in Nat /\ minted \in Nat
  BY <1>1, AtWork
<1>3. /\ ActiveUntil(msg[i]) \in Nat \cup {NULL}
      /\ ResolveTier(msg[i].price) \in Tiers \cup {NULL}
      /\ msg[i].email \in Emails \cup {NULL}
      /\ old.active_until \in Nat \cup {NULL}
  BY <1>2, DateTyped, TierTyped DEF Message, Entry
<1>4. CASE Grant(i)
  <2>1. PICK email \in Address(msg[i], old) :
          /\ Save(i, SetActive(old, Arguments(1, msg[i], email, ActiveUntil(msg[i]), NULL)), "cache")
          /\ newer' = newer
    BY <1>1, <1>4 DEF Grant
  <2>2. email \in Emails \cup {NULL}
    BY <1>2, BoxAssumption DEF Address, Fetched, Message
  <2>3. PICK new : new = Arguments(1, msg[i], email, ActiveUntil(msg[i]), NULL)
    OBVIOUS
  <2>4. /\ new \in Asked /\ new.active = 1 /\ new.active_until = ActiveUntil(msg[i])
        /\ new.expires_at = NULL
    BY <1>3, <2>2, <2>3 DEF Arguments, Asked
  <2>5. AskedOf(i, old, new)
    BY <1>4, <2>4 DEF AskedOf, Grant, AtApply
  <2> QED BY <1>1, <2>1, <2>3, <2>4, <2>5
<1>5. ASSUME NEW until \in Nat \cup {NULL}, NEW expires \in {NULL, now},
             SaveInactive(i, until, expires)
      PROVE  \E new \in Asked :
                /\ new.active = 0 /\ new.active_until = until /\ new.expires_at = expires
                /\ Save(i, SetActive(old, new), "cache") /\ newer' = newer
  <2>1. PICK new : new = Arguments(0, msg[i], msg[i].email, until, expires)
    OBVIOUS
  <2>2. Save(i, SetActive(old, new), "cache") /\ newer' = newer
    BY <1>1, <1>5, <2>1 DEF SaveInactive
  <2>3. expires \in Nat \cup {NULL}
    BY <1>2
  <2>4. new \in Asked /\ new.active = 0 /\ new.active_until = until /\ new.expires_at = expires
    BY <1>3, <2>1, <2>3 DEF Arguments, Asked
  <2> QED BY <2>2, <2>4
<1>6. CASE Cancel(i)
  <2>1. PICK new \in Asked :
          /\ new.active = 0 /\ new.active_until = ActiveUntil(msg[i]) /\ new.expires_at = NULL
          /\ Save(i, SetActive(old, new), "cache") /\ newer' = newer
    BY <1>3, <1>5, <1>6 DEF Cancel
  <2>2. AskedOf(i, old, new)
    BY <1>6, <2>1 DEF AskedOf, Cancel, AtApply
  <2> QED BY <1>1, <2>1, <2>2
<1>7. CASE PastDue(i)
  <2>1. PICK until : until = PastDueUntil(old.active_until)
    OBVIOUS
  <2>2. until \in Nat /\ (old.active_until # NULL => until >= old.active_until)
    BY <1>2, <1>3, <2>1, BoxAssumption DEF PastDueUntil, Later
  <2>3. PICK new \in Asked :
          /\ new.active = 0 /\ new.active_until = until /\ new.expires_at = NULL
          /\ Save(i, SetActive(old, new), "cache") /\ newer' = newer
    BY <1>1, <1>5, <1>7, <2>1, <2>2 DEF PastDue
  <2>4. AskedOf(i, old, new)
    BY <1>7, <2>2, <2>3 DEF AskedOf, PastDue, AtApply
  <2> QED BY <1>1, <2>3, <2>4
<1>8. CASE Expire(i)
  <2>1. PICK new \in Asked :
          /\ new.active = 0 /\ new.active_until = now /\ new.expires_at = now
          /\ Save(i, SetActive(old, new), "cache") /\ newer' = newer
    BY <1>2, <1>5, <1>8 DEF Expire
  <2>2. AskedOf(i, old, new)
    BY <1>8, <2>1 DEF AskedOf, Expire, AtApply
  <2> QED BY <1>1, <2>1, <2>2
<1>9. CASE Revoke(i)
  <2>1. copy[i][msg[i].sub] = old
    BY <1>1, <1>9 DEF Revoke, Prior
  <2>2. PICK base : base = Arguments(0, msg[i], NULL, now, now)
    OBVIOUS
  <2>3. PICK new : new = [base EXCEPT !.tier = NULL]
    OBVIOUS
  <2>4. Save(i, SetActive(old, new), "cache") /\ newer' = newer
    BY <1>9, <2>1, <2>2, <2>3 DEF Revoke
  <2>5. /\ base \in Asked /\ base.active = 0 /\ base.active_until = now /\ base.expires_at = now
    BY <1>2, <1>3, <2>2 DEF Arguments, Asked
  <2>6. /\ new \in Asked /\ new.active = 0 /\ new.active_until = now /\ new.expires_at = now
    BY <2>3, <2>5 DEF Asked
  <2>7. AskedOf(i, old, new)
    BY <1>9, <2>6 DEF AskedOf, Revoke, AtApply
  <2> QED BY <1>1, <2>4, <2>6, <2>7
<1> QED BY <1>4, <1>6, <1>7, <1>8, <1>9

-----------------------------------------------------------------------------
(* Refunds stay on record.                                                   *)
NoteOf(m) == [adj |-> m.adj, revoked |-> Decision(m).revoke]

(* The note stands k places from the end, or as many newer ones as a record  *)
(* keeps have pushed it off.                                                 *)
Stands(h, note, k) == k < MaxRefunds => k < Len(h) /\ h[Len(h) - k] = note

NotesInv ==
    /\ \A m \in Messages : newer[m] # NULL =>
          /\ m.sub \in Subscriptions
          /\ m.sub \notin overwritten =>
                /\ file[m.sub] # NULL
                /\ Stands(file[m.sub].adjustments, NoteOf(m), newer[m])
    /\ \A m \in saved : m.type \in ADJUSTMENT /\ newer[m] = NULL =>
          m \in halved \/ \E i \in Halfway : msg[i] = m

(* set_active leaves the history of refunds.                                 *)
LEMMA SetActiveKeepsNotes ==
    ASSUME NEW old \in Entry, NEW new
    PROVE  SetActive(old, new).adjustments = old.adjustments
<1> QED BY DEF SetActive, Entry

(* record_refund puts the refund last and every other one place further.     *)
LEMMA WithRefundNotes ==
    ASSUME NEW old \in Entry, NEW adj \in AdjustmentIds, NEW revoked \in BOOLEAN
    PROVE  LET after == WithRefund(old, adj, revoked).adjustments
           IN  /\ Stands(after, [adj |-> adj, revoked |-> revoked], 0)
               /\ \A note : \A k \in Nat :
                     Stands(old.adjustments, note, k) => Stands(after, note, k + 1)
<1> DEFINE R == [adj : AdjustmentIds, revoked : BOOLEAN]
           new == [adj |-> adj, revoked |-> revoked]
           before == old.adjustments
           h == Append(before, new)
           after == WithRefund(old, adj, revoked).adjustments
<1>1. before \in Seq(R) /\ new \in R
  BY DEF Entry
<1>2. /\ h \in Seq(R) /\ Len(h) = Len(before) + 1 /\ h[Len(h)] = new
      /\ \A k \in 1..Len(before) : h[k] = before[k]
      /\ Len(before) \in Nat
  BY <1>1, AppendProperties, LenProperties
<1>3. MaxRefunds \in Nat /\ MaxRefunds >= 1
  BY BoxAssumption
<1>4. after = IF Len(h) <= MaxRefunds THEN h ELSE SubSeq(h, Len(h) - MaxRefunds + 1, Len(h))
  BY DEF WithRefund, Entry
<1> HIDE DEF R, new, before, h, after
<1>5. /\ Len(after) \in Nat /\ Len(after) >= 1
      /\ \A k \in Nat : k < MaxRefunds /\ k < Len(h) =>
            k < Len(after) /\ after[Len(after) - k] = h[Len(h) - k]
  <2>1. CASE Len(h) <= MaxRefunds
    BY <1>2, <1>4, <2>1
  <2>2. CASE ~(Len(h) <= MaxRefunds)
    <3>1. Len(h) \in Nat /\ Len(h) > MaxRefunds
      BY <1>2, <1>3, <2>2
    <3> DEFINE from == Len(h) - MaxRefunds + 1
    <3>2. from \in 1..Len(h)
      BY <1>3, <3>1
    <3>3. \A k \in from..Len(h) : h[k] \in R
      BY <1>2, <3>1, <3>2, ElementOfSeq
    <3>4. /\ Len(SubSeq(h, from, Len(h))) = IF from <= Len(h) THEN Len(h) - from + 1 ELSE 0
          /\ \A j \in 1..(Len(h) - from + 1) : SubSeq(h, from, Len(h))[j] = h[from + j - 1]
      BY <3>1, <3>2, <3>3, SubSeqProperties
    <3>5. Len(after) = MaxRefunds
      BY <1>3, <1>4, <2>2, <3>1, <3>2, <3>4
    <3>6. \A j \in 1..MaxRefunds : after[j] = h[Len(h) - MaxRefunds + j]
      <4> SUFFICES ASSUME NEW j \in 1..MaxRefunds
                   PROVE  after[j] = h[Len(h) - MaxRefunds + j]
        OBVIOUS
      <4>1. j \in 1..(Len(h) - from + 1) /\ from + j - 1 = Len(h) - MaxRefunds + j
        BY <1>3, <3>1
      <4>2. after[j] = SubSeq(h, from, Len(h))[j]
        BY <1>4, <2>2
      <4> QED BY <3>4, <4>1, <4>2
    <3> SUFFICES ASSUME NEW k \in Nat, k < MaxRefunds
                 PROVE  k < Len(after) /\ after[Len(after) - k] = h[Len(h) - k]
      BY <1>3, <3>5
    <3>7. MaxRefunds - k \in 1..MaxRefunds
      BY <1>3
    <3>8. Len(h) - MaxRefunds + (MaxRefunds - k) = Len(h) - k
      BY <1>3, <3>1
    <3> QED BY <3>5, <3>6, <3>7, <3>8
  <2> QED BY <2>1, <2>2
<1>6. Stands(after, new, 0)
  <2>1. after[Len(after) - 0] = h[Len(h) - 0] /\ 0 < Len(after)
    BY <1>2, <1>3, <1>5
  <2>2. h[Len(h) - 0] = new
    BY <1>2
  <2> QED BY <2>1, <2>2 DEF Stands
<1>7. ASSUME NEW note, NEW k \in Nat, Stands(before, note, k)
      PROVE  Stands(after, note, k + 1)
  <2> SUFFICES ASSUME k + 1 < MaxRefunds
               PROVE  k + 1 < Len(after) /\ after[Len(after) - (k + 1)] = note
    BY DEF Stands
  <2>1. k < Len(before) /\ before[Len(before) - k] = note
    BY <1>3, <1>7 DEF Stands
  <2>2. k + 1 \in Nat /\ k + 1 < Len(h) /\ Len(h) - (k + 1) = Len(before) - k
        /\ Len(before) - k \in 1..Len(before)
    BY <1>2, <2>1
  <2>3. h[Len(h) - (k + 1)] = note
    BY <1>2, <2>1, <2>2
  <2> QED BY <1>5, <2>2, <2>3
<1> QED BY <1>6, <1>7 DEF after, before, new

(* A save touches the record of its webhook, and of no other one that is not *)
(* overwritten.                                                              *)
LEMMA SaveTouchesOne ==
    ASSUME Inv, NEW i \in Threads, pc[i] \in {"apply", "refund"},
           msg[i].sub \in Subscriptions, NEW entry, NEW label, Save(i, entry, label),
           NEW s \in Subscriptions, s \notin overwritten'
    PROVE  /\ s \notin overwritten /\ copy[i][s] = file[s]
           /\ file'[s] = IF s = msg[i].sub THEN entry ELSE file[s]
<1>1. copy[i] \in Table
  BY DEF Inv, TypeInv, Holding, Labels
<1>2. /\ file' = [copy[i] EXCEPT ![msg[i].sub] = entry]
      /\ overwritten' = overwritten \cup {t \in Subscriptions : copy[i][t] # file[t]}
  BY DEF Save
<1> QED BY <1>1, <1>2 DEF Table

(* A save through set_active leaves the notes where they are.                *)
LEMMA NotesWrite ==
    ASSUME Inv, NotesInv, NEW i \in Threads,
           Grant(i) \/ Cancel(i) \/ PastDue(i) \/ Expire(i) \/ Revoke(i)
    PROVE  NotesInv'
<1>1. pc[i] = "apply" /\ msg[i].sub # NULL
  BY DEF Grant, Cancel, PastDue, Expire, Revoke, AtApply
<1>2. PICK old : old = Prior(copy[i], msg[i].sub)
  OBVIOUS
<1>3. PICK new \in Asked :
        AskedOf(i, old, new) /\ Save(i, SetActive(old, new), "cache") /\ newer' = newer
  BY <1>1, <1>2, SavesAsked
<1>4. PICK entry : entry = SetActive(old, new)
  OBVIOUS
<1>5. /\ msg[i] \in Messages /\ msg[i].sub \in Subscriptions
      /\ old \in Entry /\ minted \in Nat
  BY <1>1, <1>2, AtWork
<1>6. entry \in Entry /\ entry.adjustments = old.adjustments /\ entry # NULL
  BY <1>4, <1>5, SetActiveTyped, SetActiveKeepsNotes, EntryAssumption
<1>7. /\ saved' = saved \cup {msg[i]} /\ pc' = [pc EXCEPT ![i] = "cache"]
      /\ UNCHANGED <<msg, halved>> /\ Save(i, entry, "cache")
  BY <1>3, <1>4 DEF Save, Goto
<1>8. ASSUME NEW m \in Messages, newer'[m] # NULL
      PROVE  /\ m.sub \in Subscriptions
             /\ m.sub \notin overwritten' =>
                   /\ file'[m.sub] # NULL
                   /\ Stands(file'[m.sub].adjustments, NoteOf(m), newer'[m])
  <2>1. newer[m] # NULL /\ newer'[m] = newer[m] /\ m.sub \in Subscriptions
    BY <1>3, <1>8 DEF NotesInv
  <2> SUFFICES ASSUME m.sub \notin overwritten'
               PROVE  /\ file'[m.sub] # NULL
                      /\ Stands(file'[m.sub].adjustments, NoteOf(m), newer'[m])
    BY <2>1
  <2>2. /\ m.sub \notin overwritten /\ copy[i][m.sub] = file[m.sub]
        /\ file'[m.sub] = IF m.sub = msg[i].sub THEN entry ELSE file[m.sub]
    BY <1>1, <1>5, <1>7, <2>1, SaveTouchesOne
  <2>3. file[m.sub] # NULL /\ Stands(file[m.sub].adjustments, NoteOf(m), newer[m])
    BY <2>1, <2>2 DEF NotesInv
  <2>4. m.sub = msg[i].sub => old = file[m.sub]
    BY <1>2, <2>2, <2>3 DEF Prior
  <2> QED BY <1>6, <2>1, <2>2, <2>3, <2>4
<1>9. ASSUME NEW m \in saved', m.type \in ADJUSTMENT, newer'[m] = NULL
      PROVE  m \in halved' \/ \E j \in Halfway' : msg'[j] = m
  <2>1. \A j \in Halfway : j # i /\ j \in Halfway'
    BY <1>1, <1>7 DEF Halfway, Inv, TypeInv
  <2>2. m = msg[i] => i \in Halfway'
    BY <1>7, <1>9 DEF Halfway, Inv, TypeInv
  <2> QED BY <1>3, <1>7, <1>9, <2>1, <2>2 DEF NotesInv
<1> QED BY <1>8, <1>9 DEF NotesInv

(* A refund noted goes last, and the others on its record move one place.    *)
LEMMA NotesRefund ==
    ASSUME Inv, NotesInv, NEW i \in Threads, RecordRefund(i)
    PROVE  NotesInv'
<1>1. /\ pc[i] \in {"apply", "refund"} /\ (pc[i] = "apply" => msg[i].sub # NULL)
      /\ copy[i][msg[i].sub] # NULL
  BY DEF RecordRefund, AtApply
<1>2. PICK old : old = copy[i][msg[i].sub]
  OBVIOUS
<1>3. PICK entry : entry = WithRefund(old, msg[i].adj, Decision(msg[i]).revoke)
  OBVIOUS
<1>4. /\ Save(i, entry, "cache refund")
      /\ newer' = [m \in Messages |->
                     IF m = msg[i] THEN 0
                     ELSE IF m.sub = msg[i].sub /\ newer[m] # NULL THEN newer[m] + 1
                     ELSE newer[m]]
  BY <1>2, <1>3 DEF RecordRefund
<1>5. /\ msg[i] \in Messages /\ msg[i] \in Message /\ msg[i].sub \in Subscriptions
      /\ old \in Entry
  BY <1>1, <1>2, AtWork DEF Prior
<1>6. msg[i].adj \in AdjustmentIds /\ Decision(msg[i]).revoke \in BOOLEAN
  BY <1>5 DEF Message, Decision, DecideAdjustment
<1>7. entry \in Entry /\ entry # NULL
  BY <1>3, <1>5, <1>6, WithRefundTyped, EntryAssumption
<1>8. /\ Stands(entry.adjustments, NoteOf(msg[i]), 0)
      /\ \A note : \A k \in Nat :
            Stands(old.adjustments, note, k) => Stands(entry.adjustments, note, k + 1)
  BY <1>3, <1>5, <1>6, WithRefundNotes DEF NoteOf
<1>9. /\ saved' = saved \cup {msg[i]} /\ pc' = [pc EXCEPT ![i] = "cache refund"]
      /\ UNCHANGED <<msg, halved>>
  BY <1>4 DEF Save, Goto
<1>10. newer \in [Messages -> Nat \cup {NULL}]
  BY DEF Inv, TypeInv
<1>11. ASSUME NEW m \in Messages, newer'[m] # NULL
       PROVE  /\ m.sub \in Subscriptions
              /\ m.sub \notin overwritten' =>
                    /\ file'[m.sub] # NULL
                    /\ Stands(file'[m.sub].adjustments, NoteOf(m), newer'[m])
  <2>1. m = msg[i] \/ newer[m] # NULL
    BY <1>4, <1>11
  <2>2. m.sub \in Subscriptions
    BY <1>5, <2>1 DEF NotesInv
  <2> SUFFICES ASSUME m.sub \notin overwritten'
               PROVE  /\ file'[m.sub] # NULL
                      /\ Stands(file'[m.sub].adjustments, NoteOf(m), newer'[m])
    BY <2>2
  <2>3. /\ m.sub \notin overwritten /\ copy[i][m.sub] = file[m.sub]
        /\ file'[m.sub] = IF m.sub = msg[i].sub THEN entry ELSE file[m.sub]
    BY <1>1, <1>4, <1>5, <2>2, SaveTouchesOne
  <2>4. CASE m = msg[i]
    <3>1. newer'[m] = 0
      BY <1>4, <2>4
    <3> QED BY <1>7, <1>8, <2>3, <2>4, <3>1
  <2>5. CASE m # msg[i]
    <3>1. newer[m] \in Nat
      BY <1>10, <2>1, <2>5
    <3>2. file[m.sub] # NULL /\ Stands(file[m.sub].adjustments, NoteOf(m), newer[m])
      BY <2>1, <2>3, <2>5 DEF NotesInv
    <3>3. CASE m.sub = msg[i].sub
      <4>1. newer'[m] = newer[m] + 1 /\ old = file[m.sub] /\ file'[m.sub] = entry
        BY <1>2, <1>4, <2>1, <2>3, <2>5, <3>3
      <4>2. Stands(entry.adjustments, NoteOf(m), newer[m] + 1)
        BY <1>8, <3>1, <3>2, <4>1
      <4> QED BY <1>7, <4>1, <4>2
    <3>4. CASE m.sub # msg[i].sub
      <4>1. newer'[m] = newer[m] /\ file'[m.sub] = file[m.sub]
        BY <1>4, <2>3, <2>5, <3>4
      <4> QED BY <3>2, <4>1
    <3> QED BY <3>3, <3>4
  <2> QED BY <2>4, <2>5
<1>12. ASSUME NEW m \in saved', m.type \in ADJUSTMENT, newer'[m] = NULL
       PROVE  m \in halved' \/ \E j \in Halfway' : msg'[j] = m
  <2>0. saved \subseteq Messages
    BY DEF Inv, TypeInv
  <2>1. 0 # NULL
    BY NullAssumption
  <2>4. m \in Messages
    BY <1>5, <1>9, <1>12, <2>0
  <2>2. m # msg[i] /\ newer[m] = NULL
    <3>1. \A k \in Nat : k + 1 # NULL
      BY NullAssumption
    <3>2. m # msg[i]
      BY <1>4, <1>12, <2>1, <2>4
    <3>3. newer[m] # NULL => newer[m] \in Nat
      BY <1>10, <2>4
    <3> QED BY <1>4, <1>12, <2>4, <3>1, <3>2, <3>3
  <2>3. \A j \in Halfway : msg[j] = m => j \in Halfway'
    BY <1>9, <2>2 DEF Halfway, Inv, TypeInv
  <2> QED BY <1>9, <1>12, <2>2, <2>3 DEF NotesInv
<1> QED BY <1>11, <1>12 DEF NotesInv

LEMMA NotesInductive ==
    ASSUME Inv, NotesInv, [Next]_vars
    PROVE  NotesInv'
<1>0. pc \in [Threads -> Labels] /\ msg \in [Threads -> Messages \cup {NULL}]
  BY DEF Inv, TypeInv
<1>1. ASSUME UNCHANGED <<file, saved, newer, overwritten>>, halved \subseteq halved',
             \A i \in Halfway : msg[i] \in halved' \/ (i \in Halfway' /\ msg'[i] = msg[i])
      PROVE  NotesInv'
  <2>1. \A m \in saved' : m.type \in ADJUSTMENT /\ newer'[m] = NULL =>
          m \in halved' \/ \E i \in Halfway' : msg'[i] = m
    BY <1>1 DEF NotesInv
  <2> QED BY <1>1, <2>1 DEF NotesInv
<1>2. CASE Tick \/ UNCHANGED vars
  <2>1. UNCHANGED <<file, saved, newer, overwritten, halved, pc, msg>>
    BY <1>2 DEF Tick, vars, disk, local, history
  <2> QED BY <1>1, <2>1 DEF Halfway
<1>3. CASE Restart
  <2>1. /\ UNCHANGED <<file, saved, newer, overwritten>>
        /\ halved' = halved \cup {msg[i] : i \in Halfway}
    BY <1>3 DEF Restart, disk
  <2> QED BY <1>1, <2>1
<1>4. ASSUME NEW i \in Threads,
             \/ \E m \in Messages : Open(i, m)
             \/ ReadFile(i) \/ SkipLedger(i) \/ Look(i) \/ Mark(i) \/ Ignore(i) \/ Respond(i)
      PROVE  NotesInv'
  <2>1. /\ UNCHANGED <<file, saved, newer, overwritten, halved>>
        /\ pc[i] \notin {"cache", "refund"}
        /\ \A j \in Threads : j # i => pc'[j] = pc[j] /\ msg'[j] = msg[j]
    BY <1>0, <1>4
    DEF Open, ReadFile, SkipLedger, Look, Mark, Ignore, Respond, Leave, Goto, disk, local,
        history
  <2> QED BY <1>1, <2>1 DEF Halfway
<1>5. ASSUME NEW i \in Threads, Fail(i)
      PROVE  NotesInv'
  <2>1. /\ UNCHANGED <<file, saved, newer, overwritten>>
        /\ halved' = IF i \in Halfway THEN halved \cup {msg[i]} ELSE halved
        /\ \A j \in Threads : j # i => pc'[j] = pc[j] /\ msg'[j] = msg[j]
    BY <1>0, <1>5 DEF Fail, Leave, disk
  <2>2. \A j \in Halfway : msg[j] \in halved' \/ (j \in Halfway' /\ msg'[j] = msg[j])
    BY <2>1 DEF Halfway
  <2> QED BY <1>1, <2>1, <2>2
<1>6. ASSUME NEW i \in Threads, UpdateCache(i)
      PROVE  NotesInv'
  <2>1. /\ UNCHANGED <<file, saved, newer, overwritten, halved, msg>>
        /\ pc' = [pc EXCEPT ![i] = AfterCache(i)] /\ pc[i] # "refund"
    BY <1>6 DEF UpdateCache, Goto, disk, local, history
  <2>2. i \in Halfway => i \in Halfway'
    BY <1>0, <2>1 DEF Halfway, AfterCache
  <2>3. \A j \in Threads : j # i /\ j \in Halfway => j \in Halfway'
    BY <1>0, <2>1 DEF Halfway
  <2> QED BY <1>1, <2>1, <2>2, <2>3 DEF Halfway
<1>7. ASSUME NEW i \in Threads,
             Grant(i) \/ Cancel(i) \/ PastDue(i) \/ Expire(i) \/ Revoke(i) \/ RecordRefund(i)
      PROVE  NotesInv'
  BY <1>7, NotesWrite, NotesRefund
<1> QED
  BY <1>2, <1>3, <1>4, <1>5, <1>6, <1>7
  DEF Next, Advance, Deliver, DeliverCopy

(* A refund stays on the record of its customer, in its place, until as many *)
(* newer ones as the record keeps are noted after it, with any number of     *)
(* requests at once, unless another copy was saved over the record.          *)
THEOREM RefundsStay == Spec => []RefundsAreOnRecord
<1>1. Init => NotesInv
  BY DEF Init, NotesInv
<1>2. Inv /\ NotesInv /\ [Next]_vars => NotesInv'
  BY NotesInductive
<1>3. Inv /\ NotesInv => RefundsAreOnRecord
  <2> SUFFICES ASSUME Inv, NotesInv, NEW m \in saved \ halved,
                      m.type \in ADJUSTMENT, m.sub \notin overwritten,
                      \A i \in Halfway : msg[i] # m
               PROVE  /\ newer[m] # NULL
                      /\ newer[m] < MaxRefunds =>
                            /\ newer[m] < Len(file[m.sub].adjustments)
                            /\ file[m.sub].adjustments[Len(file[m.sub].adjustments) - newer[m]] =
                                  [adj |-> m.adj, revoked |-> Decision(m).revoke]
    BY DEF RefundsAreOnRecord
  <2>1. newer[m] # NULL /\ m \in Messages
    BY DEF NotesInv, Inv, TypeInv
  <2>2. Stands(file[m.sub].adjustments, NoteOf(m), newer[m])
    BY <2>1 DEF NotesInv
  <2> QED BY <2>1, <2>2 DEF Stands, NoteOf
<1> QED BY <1>1, <1>2, <1>3, Invariance, PTL DEF Spec

-----------------------------------------------------------------------------
(* The contract.  RowOf is what it sees of an entry.                         *)
RowOf(entry) == [c \in AccessColumns |-> entry[c]]

LEMMA RowOfFields ==
    ASSUME NEW entry \in Entry
    PROVE  /\ RowOf(entry).active = entry.active
           /\ RowOf(entry).active_until = entry.active_until
           /\ RowOf(entry).expires_at = entry.expires_at
           /\ RowOf(entry).api_key = entry.api_key
           /\ RowOf(entry) # NULL
<1>1. /\ "active" \in AccessColumns /\ "active_until" \in AccessColumns
      /\ "expires_at" \in AccessColumns /\ "api_key" \in AccessColumns
  BY DEF AccessColumns
<1>2. \A c \in AccessColumns : RowOf(entry)[c] = entry[c]
  BY DEF RowOf
<1>3. \A c \in AccessColumns : entry[c] \in Nat \cup {NULL}
  BY DEF Entry, AccessColumns
<1>4. RowOf(entry) \in [AccessColumns -> Nat \cup {NULL}]
  BY <1>3 DEF RowOf
<1> QED BY <1>1, <1>2, <1>4, RowsAssumption

(* What set_active makes of an entry, field by field.                        *)
LEMMA SetActiveFields ==
    ASSUME NEW old \in Entry, NEW new
    PROVE  /\ SetActive(old, new).active = new.active
           /\ SetActive(old, new).active_until = Coalesce(new.active_until, old.active_until)
           /\ SetActive(old, new).expires_at = Coalesce(new.expires_at, old.expires_at)
           /\ SetActive(old, new).api_key =
                IF new.active = 1 /\ old.api_key = NULL THEN minted + 1 ELSE old.api_key
<1> QED BY DEF SetActive, Entry

(* What a class asks of set_active is an effect the contract allows.         *)
LEMMA SetActiveIsEffect ==
    ASSUME NEW i \in Threads, msg[i] \in Messages, minted \in Nat, now \in Nat,
           NEW old \in Entry, NEW new \in Asked, AskedOf(i, old, new),
           NEW before, NEW after,
           /\ before.active_until = old.active_until
           /\ before.expires_at = old.expires_at /\ before.api_key = old.api_key,
           /\ after.active = SetActive(old, new).active
           /\ after.active_until = SetActive(old, new).active_until
           /\ after.expires_at = SetActive(old, new).expires_at
           /\ after.api_key = SetActive(old, new).api_key
    PROVE  Contract!Effect([msg[i] EXCEPT !.period = ActiveUntil(msg[i])], before, after)
<1> DEFINE m == [msg[i] EXCEPT !.period = ActiveUntil(msg[i])]
<1>1. msg[i] \in Message
  BY BoxMessagesAssumption
<1>2. /\ m.type = msg[i].type /\ m.price = msg[i].price /\ m.period = ActiveUntil(msg[i])
      /\ m.action = msg[i].action /\ m.status = msg[i].status /\ m.kind = msg[i].kind
  BY <1>1 DEF Message
<1>3. /\ after.active = new.active
      /\ after.active_until = Coalesce(new.active_until, before.active_until)
      /\ after.expires_at = Coalesce(new.expires_at, before.expires_at)
      /\ after.api_key = IF new.active = 1 /\ before.api_key = NULL THEN minted + 1
                         ELSE before.api_key
  BY SetActiveFields
<1>4. NULL \notin Nat
  BY NullAssumption
<1>5. old.active_until \in Nat \cup {NULL}
  BY DEF Entry
<1>6. AskedOf(i, old, new)
  OBVIOUS
<1> HIDE DEF m
<1>7. CASE /\ msg[i].type \in ACTIVE /\ ResolveTier(msg[i].price) # NULL
           /\ new.active = 1 /\ new.active_until = ActiveUntil(msg[i]) /\ new.expires_at = NULL
  <2>1. /\ m.type \in Contract!ACTIVE /\ Contract!ResolveTier(m.price) # NULL
    BY <1>2, <1>7 DEF Contract!ACTIVE, ACTIVE, Contract!ResolveTier, ResolveTier
  <2>2. /\ after.active = 1
        /\ after.active_until = Contract!Coalesce(m.period, before.active_until)
        /\ after.expires_at = before.expires_at
    BY <1>2, <1>3, <1>7 DEF Contract!Coalesce, Coalesce
  <2>3. minted + 1 # NULL
    BY <1>4
  <2>4. after.api_key # NULL
    BY <1>3, <1>7, <2>3
  <2>5. before.api_key # NULL => after.api_key = before.api_key
    BY <1>3
  <2>6. after.api_key = Contract!Coalesce(before.api_key, after.api_key)
    BY <2>5 DEF Contract!Coalesce
  <2>7. Contract!Granted(m, before, after)
    BY <2>1, <2>2, <2>4, <2>6 DEF Contract!Granted, Contract!Unchanged, AccessColumns
  <2> QED BY <2>7 DEF Contract!Effect, m
<1>8. CASE /\ msg[i].type \in GRACE
           /\ new.active = 0 /\ new.active_until = ActiveUntil(msg[i]) /\ new.expires_at = NULL
  <2>1. /\ m.type \in Contract!GRACE /\ after.active = 0
        /\ after.active_until = Contract!Coalesce(m.period, before.active_until)
        /\ after.expires_at = before.expires_at /\ after.api_key = before.api_key
    BY <1>2, <1>3, <1>8 DEF Contract!GRACE, GRACE, Contract!Coalesce, Coalesce
  <2>2. Contract!Cancelled(m, before, after)
    BY <2>1 DEF Contract!Cancelled, Contract!Unchanged, AccessColumns
  <2> QED BY <2>2 DEF Contract!Effect, m
<1>9. CASE /\ msg[i].type \in PAST_DUE
           /\ new.active = 0 /\ new.expires_at = NULL
           /\ new.active_until \in Nat
           /\ old.active_until # NULL => new.active_until >= old.active_until
  <2>1. /\ m.type \in Contract!PAST_DUE /\ after.active = 0
        /\ after.expires_at = before.expires_at /\ after.api_key = before.api_key
    BY <1>2, <1>3, <1>9 DEF Contract!PAST_DUE, PAST_DUE, Coalesce
  <2>2. after.active_until = new.active_until /\ after.active_until # NULL
    BY <1>3, <1>4, <1>9 DEF Coalesce
  <2>3. before.active_until # NULL => after.active_until >= before.active_until
    BY <1>9, <2>2
  <2>4. Contract!PastDue(m, before, after)
    BY <2>1, <2>2, <2>3 DEF Contract!PastDue, Contract!Unchanged, AccessColumns
  <2> QED BY <2>4 DEF Contract!Effect, m
<1>10. CASE /\ \/ msg[i].type \in HARD_REVOKE
               \/ msg[i].type \in ADJUSTMENT /\ Decision(msg[i]).revoke
            /\ new.active = 0 /\ new.active_until = now /\ new.expires_at = now
  <2>1. \/ m.type \in Contract!HARD_REVOKE
        \/ /\ m.type \in Contract!ADJUSTMENT
           /\ Contract!DecideAdjustment(m.action, m.status, m.kind).revoke
    BY <1>2, <1>10
    DEF Contract!HARD_REVOKE, HARD_REVOKE, Contract!ADJUSTMENT, ADJUSTMENT, Decision,
        Contract!DecideAdjustment, DecideAdjustment, Contract!REVOKING, REVOKING,
        Contract!SETTLED, SETTLED
  <2>2. /\ after.active = 0 /\ after.active_until = now /\ after.expires_at = now
        /\ now # NULL /\ after.api_key = before.api_key
    BY <1>3, <1>4, <1>10 DEF Coalesce
  <2>3. Contract!Revoked(m, before, after)
    BY <2>1, <2>2 DEF Contract!Revoked, Contract!Unchanged, AccessColumns
  <2> QED BY <2>3 DEF Contract!Effect, m
<1> QED BY <1>6, <1>7, <1>8, <1>9, <1>10 DEF AskedOf

(* A save changes the one row of its customer to that of the entry.          *)
LEMMA SaveRows ==
    ASSUME Inv, NEW i \in Threads, copy[i] = file,
           msg[i].sub \in Subscriptions, NEW entry \in Entry, NEW label, Save(i, entry, label)
    PROVE  Rows' = [Rows EXCEPT ![msg[i].sub] = RowOf(entry)]
<1> DEFINE s == msg[i].sub
<1>1. copy[i] = file /\ file \in Table
  BY DEF Inv, TypeInv
<1>2. file' = [file EXCEPT ![s] = entry]
  BY <1>1 DEF Save
<1>3. /\ file'[s] = entry /\ entry # NULL
      /\ \A t \in Subscriptions : t # s => file'[t] = file[t]
  BY <1>1, <1>2, EntryAssumption DEF Table
<1>4. Rows' = [t \in Subscriptions |-> IF file'[t] = NULL THEN NULL ELSE RowOf(file'[t])]
  BY DEF Rows, RowOf
<1>5. Rows = [t \in Subscriptions |-> IF file[t] = NULL THEN NULL ELSE RowOf(file[t])]
  BY DEF Rows, RowOf
<1>6. \A t \in Subscriptions :
        (IF file'[t] = NULL THEN NULL ELSE RowOf(file'[t])) =
          IF t = s THEN RowOf(entry) ELSE IF file[t] = NULL THEN NULL ELSE RowOf(file[t])
  BY <1>3
<1> HIDE DEF s
<1>7. Rows' = [Rows EXCEPT ![s] = RowOf(entry)]
  BY <1>4, <1>5, <1>6
<1> QED BY <1>7 DEF s

(* A write through set_active is a step of the contract.                     *)
LEMMA WriteMaps ==
    ASSUME Inv, NEW i \in Threads, copy[i] = file,
           Grant(i) \/ Cancel(i) \/ PastDue(i) \/ Expire(i) \/ Revoke(i)
    PROVE  Contract!Next
<1>1. pc[i] = "apply" /\ msg[i].sub # NULL
  BY DEF Grant, Cancel, PastDue, Expire, Revoke, AtApply
<1>2. PICK old : old = Prior(copy[i], msg[i].sub)
  OBVIOUS
<1>3. PICK new \in Asked : AskedOf(i, old, new) /\ Save(i, SetActive(old, new), "cache")
  BY <1>1, <1>2, SavesAsked
<1>4. PICK entry : entry = SetActive(old, new)
  OBVIOUS
<1>5. /\ msg[i] \in Messages /\ msg[i] \in Message /\ msg[i].sub \in Subscriptions
      /\ old \in Entry /\ now \in Nat /\ minted \in Nat
  BY <1>1, <1>2, AtWork
<1>6. entry \in Entry
  BY <1>4, <1>5, SetActiveTyped
<1>7. PICK s : s = msg[i].sub
  OBVIOUS
<1>8. copy[i] = file /\ Rows' = [Rows EXCEPT ![s] = RowOf(entry)]
  BY <1>3, <1>4, <1>5, <1>6, <1>7, SaveRows
<1>9. PICK before : before = IF Rows[s] = NULL THEN Contract!Absent ELSE Rows[s]
  OBVIOUS
<1>10. /\ before.active_until = old.active_until
       /\ before.expires_at = old.expires_at /\ before.api_key = old.api_key
  <2>1. Rows[s] = IF file[s] = NULL THEN NULL ELSE RowOf(file[s])
    BY <1>5, <1>7 DEF Rows, RowOf
  <2>2. CASE file[s] = NULL
    BY <1>2, <1>7, <1>8, <1>9, <2>1, <2>2 DEF Prior, Blank, Contract!Absent
  <2>3. CASE file[s] # NULL
    <3>1. old = file[s]
      BY <1>2, <1>7, <1>8, <2>3 DEF Prior
    <3>2. RowOf(old) # NULL
      BY <1>5, RowOfFields
    <3>3. before = RowOf(old)
      BY <1>9, <2>1, <2>3, <3>1, <3>2
    <3> QED BY <1>5, <3>3, RowOfFields
  <2> QED BY <2>2, <2>3
<1>11. PICK m : m = [msg[i] EXCEPT !.period = ActiveUntil(msg[i])]
  OBVIOUS
<1>12. Contract!Effect(m, before, RowOf(entry))
  BY <1>3, <1>4, <1>5, <1>6, <1>10, <1>11, RowOfFields, SetActiveIsEffect
<1>13. m \in Dated /\ m.sub = s
  <2>1. m \in Dated
    BY <1>5, <1>11 DEF Dated
  <2>2. m.sub = s
    BY <1>5, <1>7, <1>11 DEF Message
  <2> QED BY <2>1, <2>2
<1>14. Rows'[s] = RowOf(entry)
  BY <1>5, <1>7, <1>8 DEF Rows
<1>15. s # NULL /\ RowOf(entry) # NULL
  BY <1>1, <1>6, <1>7, RowOfFields
<1> QED BY <1>8, <1>9, <1>12, <1>13, <1>14, <1>15 DEF Contract!Next

(* A refund noted changes nothing the contract sees.                         *)
LEMMA RefundMaps ==
    ASSUME Inv, NEW i \in Threads, copy[i] = file, RecordRefund(i)
    PROVE  UNCHANGED Rows
<1>1. /\ pc[i] \in {"apply", "refund"} /\ (pc[i] = "apply" => msg[i].sub # NULL)
      /\ copy[i][msg[i].sub] # NULL
  BY DEF RecordRefund, AtApply
<1>2. PICK old : old = copy[i][msg[i].sub]
  OBVIOUS
<1>3. PICK entry : entry = WithRefund(old, msg[i].adj, Decision(msg[i]).revoke)
  OBVIOUS
<1>4. Save(i, entry, "cache refund")
  BY <1>2, <1>3 DEF RecordRefund
<1>5. msg[i] \in Message /\ msg[i].sub \in Subscriptions /\ old \in Entry
  BY <1>1, <1>2, AtWork DEF Prior
<1>6. msg[i].adj \in AdjustmentIds /\ Decision(msg[i]).revoke \in BOOLEAN
  BY <1>5 DEF Message, Decision, DecideAdjustment
<1>7. entry \in Entry
  BY <1>3, <1>5, <1>6, WithRefundTyped
<1>8. RowOf(entry) = RowOf(old)
  <2>1. \A c \in AccessColumns : entry[c] = old[c]
    BY <1>3, <1>5 DEF WithRefund, Entry, AccessColumns
  <2> QED BY <2>1 DEF RowOf
<1>9. PICK s : s = msg[i].sub
  OBVIOUS
<1>10. copy[i] = file /\ Rows' = [Rows EXCEPT ![s] = RowOf(entry)]
  BY <1>4, <1>5, <1>7, <1>9, SaveRows
<1>11. Rows[s] = RowOf(old)
  BY <1>1, <1>2, <1>5, <1>9, <1>10 DEF Rows, RowOf
<1> QED BY <1>8, <1>10, <1>11 DEF Rows

(* Who saves has a copy that is the file, or saves a stale one.              *)
LEMMA FreshOrStale ==
    ASSUME Inv, NEW i \in Threads,
           Grant(i) \/ Cancel(i) \/ PastDue(i) \/ Expire(i) \/ Revoke(i) \/ RecordRefund(i)
    PROVE  copy[i] = file \/ SavesStale(i)
<1>1. pc[i] \in {"apply", "refund"} /\ \E label \in Storing : Goto(i, label)
  BY DEF Grant, Cancel, PastDue, Expire, Revoke, RecordRefund, SaveInactive, Save, AtApply,
         Storing
<1>2. pc'[i] \in {"cache", "cache refund"}
  BY <1>1 DEF Goto, Storing, Inv, TypeInv
<1> QED BY <1>1, <1>2 DEF SavesStale

LEMMA Maps ==
    ASSUME Inv, [Next]_vars
    PROVE  [(\E i \in Threads : SavesStale(i)) \/ Contract!Next]_Rows
<1>1. CASE UNCHANGED file
  BY <1>1 DEF Rows
<1>2. ASSUME NEW i \in Threads, copy[i] = file,
             Grant(i) \/ Cancel(i) \/ PastDue(i) \/ Expire(i) \/ Revoke(i)
      PROVE  Contract!Next
  BY <1>2, WriteMaps
<1>3. ASSUME NEW i \in Threads, copy[i] = file, RecordRefund(i)
      PROVE  UNCHANGED Rows
  BY <1>3, RefundMaps
<1>4. \/ UNCHANGED file
      \/ \E i \in Threads :
            \/ Grant(i) \/ Cancel(i) \/ PastDue(i) \/ Expire(i) \/ Revoke(i)
            \/ RecordRefund(i)
  BY DEF Next, Advance, Deliver, DeliverCopy, Open, ReadFile, UpdateCache, SkipLedger, Look,
         Mark, Ignore, Respond, Fail, Tick, Restart, vars, disk
<1> QED BY <1>1, <1>2, <1>3, <1>4, FreshOrStale

(* The box keeps the contract of the edge in the columns that decide access  *)
(* with every save that is of the file as it stands, with any number of      *)
(* requests, through restarts, writes that raise, reads that fail, a cache   *)
(* of any age and any webhooks in any order.                                 *)
THEOREM ContractKept == Spec => KeepsContract
<1>1. Init => Contract!Init
  BY DEF Init, Nothing, Contract!Init, Rows
<1>2. Inv /\ [Next]_vars => [(\E i \in Threads : SavesStale(i)) \/ Contract!Next]_Rows
  BY Maps
<1> QED BY <1>1, <1>2, Invariance, PTL DEF Spec, KeepsContract

=============================================================================
