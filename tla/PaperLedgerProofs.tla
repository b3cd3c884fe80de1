-------------------------- MODULE PaperLedgerProofs --------------------------
(***************************************************************************)
(* PaperLedger, for every venue, directory of specs and number of days,    *)
(* jobs, edits and failures: the published record only grows, its rules    *)
(* are never rewritten, its days are whole and its marks replay; the       *)
(* weekly strategy's book is a whole straddle, hedged inside its band; and *)
(* a day that nothing goes wrong on passes the gate.                       *)
(*                                                                         *)
(* What the first three share is how a checkout relates to what is         *)
(* published: it is ahead of it by rows of new keys and of the run's own   *)
(* day, whatever became of the job, and everything in it was traded under  *)
(* rules it has registered.  The replay of a mark rests on that and on     *)
(* where the fills without a mark may be; the straddle on that and on what *)
(* PaperBookProofs has of one day.                                         *)
(***************************************************************************)
EXTENDS PaperLedger, PaperBookProofs

Table(t) == t = [l \in Ledgers |-> t[l]]

Times ==
    /\ day \in Nat /\ asOf \in Nat /\ asOf <= day
    /\ dir \in SpecDirs /\ files \in SpecDirs
    /\ \A x \in removed : x.day \in Nat /\ x.day <= day
    /\ \A sid \in Sids(files) : sid \in Sids(dir) \/ Gone(sid, day)

(* A checkout has every published row, and no other row of a published key. *)
Ahead ==
    \A l \in Ledgers :
        /\ published[l] \subseteq work[l]
        /\ \A r \in work[l] \ published[l] : r.id \notin Keys(published[l])

Fresh == pc = "register" => work = published

(* A version has one row, whose strategy still has a file or was taken out.  *)
Registry ==
    /\ \A r \in work["registry"] :
          /\ r.registered \in Nat /\ r.registered <= asOf
          /\ r.sid \in Sids(files) \/ Gone(r.sid, day)
          /\ r \notin published["registry"] => r.registered = asOf
    /\ \A r, other \in work["registry"] :
          r.sid = other.sid /\ r.version = other.version => r = other

(* A run that has got past the registration has every file registered. *)
Registered ==
    pc \in {"fetch", "fit", "step", "mark"} =>
        /\ todo \subseteq files
        /\ \A s \in files : Hash(s) \in Keys(work["registry"])

Deciding == pc = "mark" => deciding.spec \in files

Backed(hash, d, registry) == \E r \in registry : r.id = hash /\ r.registered <= d

Trades ==
    \A t \in work["trades"] :
        t.id.day \in Nat /\ Backed(t.hash, t.id.day, work["registry"])

MarkRows ==
    \A m \in work["marks"] :
        /\ m.day \in Nat /\ m.day <= asOf
        /\ m \notin published["marks"] => m.day = asOf
        /\ Backed(m.hash, m.day, work["registry"])

(* What the gate saw holds of the run's own day, whenever the push comes, and *)
(* a strategy without a file was taken out by that day.                       *)
Checked ==
    pc = "push" =>
        /\ \A r \in work["registry"] : r.sid \in Sids(files) \/ Gone(r.sid, asOf)
        /\ \A sid \in Sids(files) :
              \E m \in work["marks"] : m.sid = sid /\ m.day = asOf
        /\ \E f \in work["fits"] : f.day = asOf /\ f.clean

IInv ==
    /\ Table(work)
    /\ Table(published)
    /\ Times
    /\ Ahead
    /\ Fresh
    /\ Registry
    /\ Registered
    /\ Deciding
    /\ Trades
    /\ MarkRows
    /\ Checked
    /\ RulesNeverRewritten
    /\ PublishedDaysAreWhole

-----------------------------------------------------------------------------
(* Appending is the only way a checkout changes while its job runs.          *)

(* An append adds the rows of new keys to its ledger and touches no other:   *)
(* ledger.append.                                                            *)
LEMMA AppendAdds ==
    ASSUME Table(work), NEW l \in Ledgers, NEW rows, AppendTo(l, rows)
    PROVE  /\ Table(work')
           /\ work'[l] = work[l] \union {r \in rows : r.id \notin Keys(work[l])}
           /\ \A k \in Ledgers : k # l => work'[k] = work[k]
<1>1. DOMAIN work = Ledgers
  BY DEF Table
<1>2. work' = [k \in Ledgers |-> IF k = l THEN Appended(work[l], rows) ELSE work[k]]
  BY <1>1 DEF AppendTo
<1> QED BY <1>2 DEF Table, Appended

(* And it keeps the checkout ahead of what is published.                     *)
LEMMA AppendStaysAhead ==
    ASSUME Table(work), Ahead, published' = published,
           NEW l \in Ledgers, NEW rows, AppendTo(l, rows)
    PROVE  Ahead'
<1>1. /\ work'[l] = work[l] \union {r \in rows : r.id \notin Keys(work[l])}
      /\ \A k \in Ledgers : k # l => work'[k] = work[k]
  BY AppendAdds
<1>2. Keys(published[l]) \subseteq Keys(work[l])
  BY DEF Ahead, Keys
<1>3. ASSUME NEW k \in Ledgers
      PROVE  /\ published[k] \subseteq work'[k]
             /\ \A r \in work'[k] \ published[k] : r.id \notin Keys(published[k])
  <2>1. CASE k = l
    BY <1>1, <1>2, <2>1 DEF Ahead
  <2>2. CASE k # l
    BY <1>1, <2>2 DEF Ahead
  <2> QED BY <2>1, <2>2
<1> QED BY <1>3 DEF Ahead

-----------------------------------------------------------------------------
(* One lemma for each kind of step.                                          *)

(* A step that only moves the job, the clock or the repository's specs.      *)
LEMMA IdleStep ==
    ASSUME IInv, UNCHANGED <<published, work, asOf, files, todo>>,
           day' \in Nat, day <= day', dir' \in SpecDirs, removed \subseteq removed',
           \A x \in removed' : x.day \in Nat /\ x.day <= day',
           \A sid \in Sids(dir) \ Sids(dir') : \E x \in removed' : x.sid = sid /\ x.day <= day',
           \/ pc' \in {"idle", "gate"}
           \/ pc' = pc /\ deciding' = deciding
    PROVE  IInv'
<1>1. day \in Nat /\ asOf \in Nat /\ asOf <= day
  BY DEF IInv, Times
<1>2. \A sid, d : Gone(sid, d) => Gone(sid, d)'
  BY DEF Gone
<1>3. \A sid : Gone(sid, day) => Gone(sid, day)'
  <2>1. \A x \in removed : x.day \in Nat /\ x.day <= day
    BY DEF IInv, Times
  <2> QED BY <1>1, <2>1 DEF Gone
<1>4. Times'
  <2>1. \A sid \in Sids(files) : sid \in Sids(dir') \/ Gone(sid, day)'
    <3> SUFFICES ASSUME NEW sid \in Sids(files)
                 PROVE  sid \in Sids(dir') \/ Gone(sid, day)'
      OBVIOUS
    <3>1. CASE Gone(sid, day)
      BY <1>3, <3>1
    <3>2. CASE sid \in Sids(dir)
      BY <3>2 DEF Gone
    <3> QED BY <3>1, <3>2 DEF IInv, Times
  <2> QED BY <1>1, <2>1 DEF IInv, Times, Sids
<1>5. Table(work)' /\ Table(published)' /\ Ahead' /\ Fresh'
  BY DEF IInv, Table, Ahead, Fresh, Keys
<1>6. Registry'
  BY <1>3 DEF IInv, Registry, Keys, Sids
<1>7. Registered' /\ Deciding'
  BY DEF IInv, Registered, Deciding, Keys
<1>8. Trades' /\ MarkRows'
  BY DEF IInv, Trades, MarkRows, Backed
<1>9. Checked'
  BY <1>2 DEF IInv, Checked, Sids
<1>10. RulesNeverRewritten' /\ PublishedDaysAreWhole'
  BY <1>2 DEF IInv, RulesNeverRewritten, PublishedDaysAreWhole
<1> QED BY <1>4, <1>5, <1>6, <1>7, <1>8, <1>9, <1>10 DEF IInv

(* An append to a ledger that holds neither rules nor fills nor marks: the   *)
(* errors, the fits and the archived chains.                                 *)
LEMMA AsideStep ==
    ASSUME IInv, UNCHANGED <<published, asOf, files, day, dir, removed>>,
           NEW l \in {"errors", "fits", "snapshots"}, NEW rows, AppendTo(l, rows),
           todo' \subseteq todo,
           \/ pc' = "gate"
           \/ pc \in {"fetch", "fit", "step"} /\ pc' \in {"fetch", "fit", "step"}
    PROVE  IInv'
<1>1. l \in Ledgers
  BY DEF Ledgers
<1>2. /\ Table(work')
      /\ \A k \in Ledgers : k # l => work'[k] = work[k]
  <2>1. Table(work)
    BY DEF IInv
  <2> QED BY <1>1, <2>1, AppendAdds
<1>3. UNCHANGED <<work["registry"], work["trades"], work["marks"]>>
  BY <1>2 DEF Ledgers
<1>4. Ahead'
  BY <1>1, AppendStaysAhead DEF IInv
<1>5. Table(published)' /\ Times' /\ Fresh'
  BY DEF IInv, Table, Times, Fresh, Gone
<1>6. Registry' /\ Registered' /\ Deciding'
  BY <1>3 DEF IInv, Registry, Registered, Deciding, Gone
<1>7. Trades' /\ MarkRows' /\ Checked'
  BY <1>3 DEF IInv, Trades, MarkRows, Checked, Gone
<1>8. RulesNeverRewritten' /\ PublishedDaysAreWhole'
  BY DEF IInv, RulesNeverRewritten, PublishedDaysAreWhole, Gone
<1> QED BY <1>2, <1>4, <1>5, <1>6, <1>7, <1>8 DEF IInv

(* A job starts from what is published.                                      *)
LEMMA StartStep ==
    ASSUME IInv, StartJob
    PROVE  IInv'
<1>1. work' = published /\ files' = dir /\ pc' = "register"
      /\ UNCHANGED <<day, dir, published, asOf, removed>>
  BY DEF StartJob
<1>2. published["registry"] \subseteq work["registry"]
      /\ published["trades"] \subseteq work["trades"]
      /\ published["marks"] \subseteq work["marks"]
  BY DEF IInv, Ahead, Ledgers
<1>3. Table(work)' /\ Table(published)' /\ Times' /\ Ahead' /\ Fresh'
  BY <1>1 DEF IInv, Table, Times, Ahead, Fresh, Gone
<1>4. Registry'
  BY <1>1, <1>2 DEF IInv, Registry, Times, Gone
<1>5. Registered' /\ Deciding' /\ Checked'
  BY <1>1 DEF Registered, Deciding, Checked, Gone
<1>6. Trades'
  BY <1>1, <1>2 DEF IInv, Trades, Backed, RulesNeverRewritten
<1>7. MarkRows'
  BY <1>1, <1>2 DEF IInv, MarkRows, Backed, RulesNeverRewritten
<1>8. RulesNeverRewritten' /\ PublishedDaysAreWhole'
  BY <1>1 DEF IInv, RulesNeverRewritten, PublishedDaysAreWhole, Gone
<1> QED BY <1>3, <1>4, <1>5, <1>6, <1>7, <1>8 DEF IInv

(* Registration keeps one row for a version: what is new was not registered  *)
(* under other rules, and no directory names a version twice.                *)
LEMMA RegisterStep ==
    ASSUME IInv, RegisterSpecs
    PROVE  IInv'
<1> DEFINE old == work["registry"]
           rows == RegistryRows(files, day)
<1>1. /\ pc = "register" /\ Acceptable(files, old)
      /\ asOf' = day
      /\ AppendTo("registry", rows)
      /\ todo' \subseteq files
      /\ pc' \in {"gate", "fetch"}
      /\ UNCHANGED <<day, dir, published, files, removed>>
  BY DEF RegisterSpecs, Live
<1>2. work = published
  BY <1>1 DEF IInv, Fresh
<1>3. /\ Table(work')
      /\ work'["registry"] = old \union {r \in rows : r.id \notin Keys(old)}
      /\ \A k \in Ledgers : k # "registry" => work'[k] = work[k]
  <2>1. Table(work) /\ "registry" \in Ledgers
    BY DEF IInv, Ledgers
  <2> QED BY <1>1, <2>1, AppendAdds
<1>4. /\ UNCHANGED <<work["trades"], work["marks"], work["fits"]>>
      /\ old \subseteq work'["registry"]
  BY <1>3 DEF Ledgers
<1>5. Table(published)' /\ Times' /\ Fresh'
  BY <1>1 DEF IInv, Table, Times, Fresh, Gone
<1>6. Ahead'
  <2>1. "registry" \in Ledgers
    BY DEF Ledgers
  <2> QED BY <1>1, <2>1, AppendStaysAhead DEF IInv
<1>7. \A r \in rows : \E f \in files :
         /\ r.id = Hash(f) /\ r.sid = f.sid /\ r.version = f.version /\ r.registered = day
         /\ r = RegistryRow(f, day)
  BY DEF RegistryRows, RegistryRow, Gone
<1>8. Registry'
  <2>1. ASSUME NEW r \in work'["registry"]
        PROVE  /\ r.registered \in Nat /\ r.registered <= asOf'
               /\ r.sid \in Sids(files) \/ Gone(r.sid, day)
               /\ r \notin published["registry"] => r.registered = asOf'
    <3>1. CASE r \in old
      BY <1>1, <1>2, <3>1 DEF IInv, Registry, Times, Gone
    <3>2. CASE r \in rows
      BY <1>1, <1>7, <3>2 DEF IInv, Times, Sids, Gone
    <3> QED BY <1>3, <3>1, <3>2
  <2>2. ASSUME NEW r \in work'["registry"], NEW other \in work'["registry"],
               r.sid = other.sid, r.version = other.version,
               r \in old, other \notin old
        PROVE  FALSE
    <3>1. other \in rows /\ other.id \notin Keys(old)
      BY <1>3, <2>2
    <3>2. PICK f \in files : /\ other.id = Hash(f)
                             /\ other.sid = f.sid /\ other.version = f.version
      BY <1>7, <3>1
    <3>3. ~Contradicts(f, old)
      BY <1>1 DEF Acceptable
    <3>4. r.id = Hash(f)
      BY <2>2, <3>2, <3>3 DEF Contradicts
    <3> QED BY <2>2, <3>1, <3>2, <3>4 DEF Keys
  <2>3. ASSUME NEW r \in rows, NEW other \in rows,
               r.sid = other.sid, r.version = other.version
        PROVE  r = other
    <3>1. PICK f \in files : /\ r.sid = f.sid /\ r.version = f.version
                             /\ r = RegistryRow(f, day)
      BY <1>7
    <3>2. PICK g \in files : /\ other.sid = g.sid /\ other.version = g.version
                             /\ other = RegistryRow(g, day)
      BY <1>7
    <3>3. Hash(f) = Hash(g)
      <4>1. f.sid = g.sid /\ f.version = g.version
        BY <2>3, <3>1, <3>2
      <4>2. files \in SpecDirs
        BY DEF IInv, Times, Gone
      <4> QED BY <4>1, <4>2, SpecsAreNamedOnce
    <3> QED BY <2>3, <3>1, <3>2, <3>3 DEF RegistryRow, Gone
  <2>4. ASSUME NEW r \in work'["registry"], NEW other \in work'["registry"],
               r.sid = other.sid, r.version = other.version
        PROVE  r = other
    <3>1. CASE r \in old /\ other \in old
      BY <2>4, <3>1 DEF IInv, Registry, Gone
    <3>2. CASE r \notin old /\ other \notin old
      BY <1>3, <2>3, <2>4, <3>2
    <3> QED BY <2>2, <2>4, <3>1, <3>2
  <2> QED BY <1>1, <2>1, <2>4 DEF Registry, Gone
<1>9. Registered'
  <2>1. ASSUME NEW f \in files
        PROVE  Hash(f) \in Keys(work'["registry"])
    <3>1. RegistryRow(f, day) \in rows /\ RegistryRow(f, day).id = Hash(f)
      BY DEF RegistryRows, RegistryRow, Gone
    <3> QED BY <1>3, <3>1 DEF Keys
  <2> QED BY <1>1, <2>1 DEF Registered
<1>10. Deciding' /\ Checked'
  BY <1>1 DEF Deciding, Checked, Gone
<1>11. Trades'
  BY <1>4 DEF IInv, Trades, Backed
<1>12. MarkRows'
  BY <1>1, <1>2, <1>4 DEF IInv, MarkRows, Backed, Times, Gone
<1>13. RulesNeverRewritten' /\ PublishedDaysAreWhole'
  BY <1>1 DEF IInv, RulesNeverRewritten, PublishedDaysAreWhole, Gone
<1> QED BY <1>3, <1>5, <1>6, <1>8, <1>9, <1>10, <1>11, <1>12, <1>13 DEF IInv

(* The rules of a file of the run are registered by the run's own day.       *)
LEMMA FilesAreBacked ==
    ASSUME IInv, pc \in {"fetch", "fit", "step", "mark"}, NEW f \in files
    PROVE  Backed(Hash(f), asOf, work["registry"])
<1>1. PICK r \in work["registry"] : r.id = Hash(f)
  BY DEF IInv, Registered, Keys
<1> QED BY <1>1 DEF IInv, Registry, Backed, Gone

(* A day's fills are the run's, under rules it has registered.               *)
LEMMA TradeStep ==
    ASSUME IInv, Trade
    PROVE  IInv'
<1>1. pc = "step" /\ pc' = "mark" /\ UNCHANGED <<day, dir, published, files, asOf, removed>>
  BY DEF Trade
<1>2. todo \subseteq files
  BY <1>1 DEF IInv, Registered
<1>3. PICK f \in todo :
        LET history == TradesOf(f.sid)
            base    == Cardinality({t \in history : t.id.day = asOf})
            rows    == TradeRows(f.sid, Hash(f), asOf, base,
                                 Decide(f.sid, f.rules, Replay(history), Marks[chain]))
        IN  /\ AppendTo("trades", rows)
            /\ deciding' = [spec |-> f, trades |-> history \union rows,
                            n |-> Cardinality(rows)]
            /\ todo' = todo \ {f}
  BY DEF Trade
<1>4. f \in files /\ deciding'.spec = f /\ todo' \subseteq todo
  BY <1>2, <1>3
<1>5. PICK rows : AppendTo("trades", rows) /\ \A t \in rows : t.hash = Hash(f) /\ t.id.day = asOf
  <2>1. ASSUME NEW seq, NEW x
        PROVE  /\ TradeRow(f.sid, Hash(f), asOf, seq, x).hash = Hash(f)
               /\ TradeRow(f.sid, Hash(f), asOf, seq, x).id.day = asOf
    BY DEF TradeRow
  <2>2. ASSUME NEW base, NEW fills
        PROVE  \A t \in TradeRows(f.sid, Hash(f), asOf, base, fills) :
                  t.hash = Hash(f) /\ t.id.day = asOf
    BY <2>1 DEF TradeRows
  <2> QED BY <1>3, <2>2
<1>6. /\ Table(work')
      /\ work'["trades"] = work["trades"] \union {r \in rows : r.id \notin Keys(work["trades"])}
      /\ \A k \in Ledgers : k # "trades" => work'[k] = work[k]
  <2>1. Table(work) /\ "trades" \in Ledgers
    BY DEF IInv, Ledgers
  <2> QED BY <1>5, <2>1, AppendAdds
<1>7. UNCHANGED <<work["registry"], work["marks"]>>
  BY <1>6 DEF Ledgers
<1>8. Ahead'
  <2>1. "trades" \in Ledgers
    BY DEF Ledgers
  <2> QED BY <1>1, <1>5, <2>1, AppendStaysAhead DEF IInv
<1>9. Table(published)' /\ Times' /\ Fresh'
  BY <1>1 DEF IInv, Table, Times, Fresh, Gone
<1>10. Registry' /\ Registered' /\ Deciding'
  BY <1>1, <1>4, <1>7 DEF IInv, Registry, Registered, Deciding, Gone
<1>11. Trades'
  <2>1. Backed(Hash(f), asOf, work["registry"])
    BY <1>1, <1>4, FilesAreBacked
  <2> QED BY <1>5, <1>6, <1>7, <2>1 DEF IInv, Trades, Times, Gone
<1>12. MarkRows' /\ Checked'
  BY <1>1, <1>7 DEF IInv, MarkRows, Checked, Gone
<1>13. RulesNeverRewritten' /\ PublishedDaysAreWhole'
  BY <1>1 DEF IInv, RulesNeverRewritten, PublishedDaysAreWhole, Gone
<1> QED BY <1>6, <1>8, <1>9, <1>10, <1>11, <1>12, <1>13 DEF IInv

(* So is its mark.                                                           *)
LEMMA MarkStep ==
    ASSUME IInv, Mark
    PROVE  IInv'
<1> DEFINE row == MarkRow(asOf, deciding.spec, deciding.n, Replay(deciding.trades), chain)
<1>1. /\ AppendTo("marks", {row})
      /\ pc = "mark" /\ pc' = "step"
      /\ UNCHANGED <<day, dir, published, files, asOf, todo, removed>>
  BY DEF Mark
<1>2. row.day = asOf /\ row.hash = Hash(deciding.spec)
  BY DEF MarkRow
<1> HIDE DEF row
<1>3. /\ Table(work')
      /\ work'["marks"] = work["marks"] \union {r \in {row} : r.id \notin Keys(work["marks"])}
      /\ \A k \in Ledgers : k # "marks" => work'[k] = work[k]
  <2>1. Table(work) /\ "marks" \in Ledgers
    BY DEF IInv, Ledgers
  <2> QED BY <1>1, <2>1, AppendAdds
<1>4. UNCHANGED <<work["registry"], work["trades"]>>
  BY <1>3 DEF Ledgers
<1>5. Ahead'
  <2>1. "marks" \in Ledgers
    BY DEF Ledgers
  <2> QED BY <1>1, <2>1, AppendStaysAhead DEF IInv
<1>6. Table(published)' /\ Times' /\ Fresh' /\ Deciding' /\ Checked'
  BY <1>1 DEF IInv, Table, Times, Fresh, Deciding, Checked, Gone
<1>7. Registry' /\ Registered' /\ Trades'
  BY <1>1, <1>4 DEF IInv, Registry, Registered, Trades, Gone
<1>8. MarkRows'
  <2>1. Backed(row.hash, row.day, work["registry"])
    BY <1>1, <1>2, FilesAreBacked DEF IInv, Deciding
  <2> QED BY <1>1, <1>2, <1>3, <1>4, <2>1 DEF IInv, MarkRows, Times, Gone
<1>9. RulesNeverRewritten' /\ PublishedDaysAreWhole'
  BY <1>1 DEF IInv, RulesNeverRewritten, PublishedDaysAreWhole, Gone
<1> QED BY <1>3, <1>5, <1>6, <1>7, <1>8, <1>9 DEF IInv

(* The gate reads a clock of its own.  There is a live spec, so a gate that  *)
(* passes saw a mark of the day it read; no mark is later than the run's     *)
(* day, so that is the day it read.                                          *)
LEMMA GateStep ==
    ASSUME IInv, Gate
    PROVE  IInv'
<1>1. /\ UNCHANGED <<day, dir, published, files, work, asOf, todo, deciding, removed>>
      /\ pc' \in {"push", "idle"}
      /\ pc' = "push" => GatePasses
  BY DEF Gate
<1>2. day \in Nat /\ asOf \in Nat /\ asOf <= day
  BY DEF IInv, Times, Gone
<1>3. Live(files) # {} /\ Sids(files) = Sids(Live(files))
  BY SpecsAreNamedOnce DEF IInv, Times, Gone
<1>4. ASSUME GatePasses
      PROVE  /\ \A sid \in Sids(files) :
                   \E m \in work["marks"] : m.sid = sid /\ m.day = asOf
             /\ \E f \in work["fits"] : f.day = asOf /\ f.clean
  <2>1. /\ \A sid \in Sids(files) :
              \E m \in work["marks"] : m.sid = sid /\ m.day = day
        /\ \E f \in work["fits"] : f.day = day /\ f.clean
    BY <1>3, <1>4 DEF GatePasses
  <2>2. PICK m \in work["marks"] : m.day = day
    BY <1>3, <2>1 DEF Sids
  <2>3. day = asOf
    BY <1>2, <2>2 DEF IInv, MarkRows
  <2> QED BY <2>1, <2>3
<1>5. Checked'
  <2>1. GatePasses => \A r \in work["registry"] : r.sid \in Sids(files) \/ Gone(r.sid, asOf)
    <3>1. SUFFICES ASSUME GatePasses
                   PROVE  day = asOf
      BY DEF IInv, Registry
    <3>2. \E m \in work["marks"] : m.day = day
      BY <1>3, <3>1 DEF GatePasses, Sids
    <3> QED BY <1>2, <3>2 DEF IInv, MarkRows
  <2> QED BY <1>1, <1>4, <2>1 DEF Checked, Gone
<1>6. Table(work)' /\ Table(published)' /\ Times' /\ Ahead' /\ Fresh'
  BY <1>1 DEF IInv, Table, Times, Ahead, Fresh, Gone
<1>7. Registry' /\ Registered' /\ Deciding' /\ Trades' /\ MarkRows'
  BY <1>1 DEF IInv, Registry, Registered, Deciding, Trades, MarkRows, Gone
<1>8. RulesNeverRewritten' /\ PublishedDaysAreWhole'
  BY <1>1 DEF IInv, RulesNeverRewritten, PublishedDaysAreWhole, Gone
<1> QED BY <1>5, <1>6, <1>7, <1>8 DEF IInv

(* What is pushed is whole: the days before the run's were, and registering  *)
(* came after them; the run's own day is what the gate saw.                  *)
LEMMA PushStep ==
    ASSUME IInv, Push
    PROVE  IInv'
<1>1. /\ published' = work /\ pc = "push" /\ pc' = "idle"
      /\ UNCHANGED <<day, dir, files, work, asOf, todo, removed>>
  BY DEF Push
<1>2. Table(work)' /\ Table(published)' /\ Times' /\ Ahead' /\ Fresh'
  BY <1>1 DEF IInv, Table, Times, Ahead, Fresh, Gone
<1>3. Registry' /\ Registered' /\ Deciding'
  BY <1>1 DEF IInv, Registry, Registered, Deciding, Gone
<1>4. Trades' /\ MarkRows' /\ Checked'
  BY <1>1 DEF IInv, Trades, MarkRows, Checked, Gone
<1>5. RulesNeverRewritten'
  BY <1>1 DEF IInv, Registry, Trades, MarkRows, Backed, RulesNeverRewritten, Gone
<1>6. ASSUME NEW m \in work["marks"]
      PROVE  /\ \E f \in work["fits"] : f.day = m.day /\ f.clean
             /\ \A r \in work["registry"] : r.registered <= m.day /\ ~Gone(r.sid, m.day) =>
                   \E other \in work["marks"] : other.sid = r.sid /\ other.day = m.day
  <2>1. CASE m.day = asOf
    BY <1>1, <2>1 DEF IInv, Checked, Registry, Gone
  <2>2. CASE m.day # asOf
    <3>1. m \in published["marks"] /\ m.day \in Nat /\ m.day < asOf /\ asOf \in Nat
      BY <2>2 DEF IInv, MarkRows, Times, Gone
    <3>2. \A r \in work["registry"] : r.registered <= m.day => r \in published["registry"]
      BY <3>1 DEF IInv, Registry, Gone
    <3>3. /\ \E f \in published["fits"] : f.day = m.day /\ f.clean
          /\ \A r \in published["registry"] : r.registered <= m.day /\ ~Gone(r.sid, m.day) =>
                \E other \in published["marks"] : other.sid = r.sid /\ other.day = m.day
      BY <3>1 DEF IInv, PublishedDaysAreWhole, Gone
    <3>4. published["fits"] \subseteq work["fits"] /\ published["marks"] \subseteq work["marks"]
      BY DEF IInv, Ahead, Ledgers
    <3> QED BY <3>2, <3>3, <3>4
  <2> QED BY <2>1, <2>2
<1>7. PublishedDaysAreWhole'
  BY <1>1, <1>6 DEF PublishedDaysAreWhole, Gone
<1> QED BY <1>2, <1>3, <1>4, <1>5, <1>7 DEF IInv

-----------------------------------------------------------------------------
(* The invariant, and what follows from it.                                  *)

(* The first checkout is of a repository without data.                       *)
LEMMA InitInvariant == Init => IInv
<1> SUFFICES ASSUME Init
             PROVE  IInv
  OBVIOUS
<1>1. \A l \in Ledgers : work[l] = {} /\ published[l] = {}
  BY DEF Init
<1>2. Table(work) /\ Table(published) /\ Times /\ Ahead /\ Fresh
  BY SpecsAreNamedOnce DEF Init, Table, Times, Ahead, Fresh, Sids
<1>3. Registry /\ Registered /\ Deciding /\ Trades /\ MarkRows /\ Checked
  BY <1>1 DEF Init, Registry, Registered, Deciding, Trades, MarkRows, Checked, Ledgers
<1>4. RulesNeverRewritten /\ PublishedDaysAreWhole
  BY <1>1 DEF RulesNeverRewritten, PublishedDaysAreWhole, Ledgers
<1> QED BY <1>2, <1>3, <1>4 DEF IInv

(* Every step of the job, the calendar and the repository keeps it.          *)
LEMMA NextInvariant == IInv /\ [Next]_vars => IInv'
<1> SUFFICES ASSUME IInv, [Next]_vars
             PROVE  IInv'
  OBVIOUS
<1>0. day \in Nat /\ dir \in SpecDirs /\ \A x \in removed : x.day \in Nat /\ x.day <= day
  BY DEF IInv, Times
<1>1. CASE StartJob
  BY <1>1, StartStep
<1>2. CASE RegisterSpecs
  BY <1>2, RegisterStep
<1>3. CASE Refuse
  <2>1. AppendTo("errors", {RunError})
    BY <1>3 DEF Refuse
  <2> QED BY <1>3, <2>1, AsideStep DEF Refuse
<1>4. CASE Fetch
  <2>1. PICK c \in Chains(day) : AppendTo("snapshots", {SnapshotRow(c)})
    BY <1>4 DEF Fetch
  <2> QED BY <1>4, <2>1, AsideStep DEF Fetch
<1>5. CASE RecordFit
  <2>1. AppendTo("fits", {FitRow(asOf, chain)})
    BY <1>5 DEF RecordFit
  <2> QED BY <1>5, <2>1, AsideStep DEF RecordFit
<1>6. CASE Raise
  <2>1. AppendTo("errors", {RunError})
    BY <1>6 DEF Raise
  <2> QED BY <1>6, <2>1, AsideStep DEF Raise
<1>7. CASE Trade
  BY <1>7, TradeStep
<1>8. CASE StrategyFails
  <2>1. PICK s \in todo : AppendTo("errors", {StrategyError(s.sid)}) /\ todo' = todo \ {s}
    BY <1>8 DEF StrategyFails
  <2> QED BY <1>8, <2>1, AsideStep DEF StrategyFails
<1>9. CASE Mark
  BY <1>9, MarkStep
<1>10. CASE Finish
  BY <1>0, <1>10, IdleStep DEF Finish
<1>11. CASE Gate
  BY <1>11, GateStep
<1>12. CASE Push
  BY <1>12, PushStep
<1>13. CASE Crash
  BY <1>0, <1>13, IdleStep DEF Crash
<1>14. CASE Midnight
  BY <1>0, <1>14, IdleStep DEF Midnight
<1>15. CASE EditSpecs
  <2>1. PICK d \in SpecDirs :
          /\ dir' = d
          /\ removed' = removed \union
                {[sid |-> sid, day |-> day] : sid \in Sids(dir) \ Sids(d)}
    BY <1>15 DEF EditSpecs
  <2>2. \A sid \in Sids(dir) \ Sids(d) :
            [sid |-> sid, day |-> day] \in removed'
    BY <2>1
  <2>3. \A sid \in Sids(dir) \ Sids(dir') : \E x \in removed' : x.sid = sid /\ x.day <= day'
    <3> SUFFICES ASSUME NEW sid \in Sids(dir) \ Sids(dir')
                 PROVE  \E x \in removed' : x.sid = sid /\ x.day <= day'
      OBVIOUS
    <3>1. PICK x : x = [sid |-> sid, day |-> day]
      OBVIOUS
    <3>2. x \in removed' /\ x.sid = sid /\ x.day <= day'
      BY <1>0, <1>15, <2>1, <2>2, <3>1 DEF EditSpecs
    <3> QED BY <3>2
  <2>4. \A x \in removed' : x.day \in Nat /\ x.day <= day'
    BY <1>0, <1>15, <2>1 DEF EditSpecs, IInv, Times
  <2> QED BY <1>0, <1>15, <2>1, <2>3, <2>4, IdleStep DEF EditSpecs
<1>16. CASE UNCHANGED vars
  BY <1>0, <1>16, IdleStep DEF vars
<1> QED BY <1>1, <1>2, <1>3, <1>4, <1>5, <1>6, <1>7, <1>8, <1>9, <1>10, <1>11, <1>12,
           <1>13, <1>14, <1>15, <1>16 DEF Next

(* What carries the theorems holds in every reachable state.                 *)
LEMMA Invariance == Spec => []IInv
<1> QED BY InitInvariant, NextInvariant, PTL DEF Spec

(* Published rules are never rewritten, and nothing published was traded or  *)
(* marked under rules registered later: specs.verify_immutable and the order *)
(* of a run.                                                                 *)
THEOREM RulesAreCommitted == Spec => []RulesNeverRewritten
<1>1. IInv => RulesNeverRewritten
  BY DEF IInv
<1> QED BY <1>1, Invariance, PTL

(* A published day is whole, however jobs crash, fail or run past midnight:  *)
(* ci_verify's gate.                                                         *)
THEOREM DaysAreWhole == Spec => []PublishedDaysAreWhole
<1>1. IInv => PublishedDaysAreWhole
  BY DEF IInv
<1> QED BY <1>1, Invariance, PTL

(* No job takes a row out of the published ledgers or gives a published key  *)
(* another row: ledger.append, and a checkout for each job.                  *)
THEOREM RecordGrows == Spec => RecordOnlyGrows
<1> DEFINE Grows ==
      \A l \in Ledgers :
          /\ published[l] \subseteq published'[l]
          /\ \A r \in published'[l] \ published[l] : r.id \notin Keys(published[l])
<1>1. IInv /\ [Next]_vars => [Grows]_vars
  <2> SUFFICES ASSUME IInv, Next
               PROVE  Grows
    OBVIOUS
  <2>1. CASE Push
    BY <2>1 DEF Push, IInv, Ahead
  <2>2. CASE ~Push
    <3>1. published' = published
      BY <2>2 DEF Next, StartJob, RegisterSpecs, Refuse, Fetch, RecordFit, Raise, Trade,
                  StrategyFails, Mark, Finish, Gate, Crash, Midnight, EditSpecs
    <3> QED BY <3>1
  <2> QED BY <2>1, <2>2
<1> QED BY <1>1, Invariance, PTL DEF Spec, RecordOnlyGrows

-----------------------------------------------------------------------------
(* The audit.  A mark is checked against the fills of its strategy up to its *)
(* day, so it is enough that no fill is ever added there once it is written: *)
(* every fill has its day's mark, or is of the run's own day and of a        *)
(* strategy the run is done with.                                            *)

Running == pc \in {"fetch", "fit", "step", "mark"}

Fills(data, sid, d) == {t \in data["trades"] : t.id.sid = sid /\ t.id.day = d}
Before(data, sid, d) == {t \in data["trades"] : t.id.sid = sid /\ t.id.day < d}
UpTo(data, sid, d) == {t \in data["trades"] : t.id.sid = sid /\ t.id.day <= d}

Replays(m, fills, before, upTo, hashes, chains) ==
    /\ m.hash \in hashes
    /\ m.n = Cardinality(fills)
    /\ m.open = Cardinality(Held(Replay(upTo)))
    /\ m.cash = Replay(upTo).cash
    /\ \E c \in chains :
          /\ m.equity = Equity(Replay(upTo), Marks[c])
          /\ fills = TradeRows(m.sid, m.hash, m.day, 0,
                               Decide(m.sid, m.hash.rules, Replay(before), Marks[c]))

ReplaysIn(m, data) ==
    Replays(m, Fills(data, m.sid, m.day), Before(data, m.sid, m.day),
            UpTo(data, m.sid, m.day), Keys(data["registry"]), Keys(data["snapshots"]))

Audited(data) == \A m \in data["marks"] : ReplaysIn(m, data)

Dated == \A t \in work["trades"] : t.id.day \in Nat /\ t.id.day <= asOf

MarkIds == \A m \in work["marks"] : m.id = MarkId(m.sid, m.day)

Due ==
    Running => /\ todo \subseteq Live(files)
               /\ \A s \in todo : MarkId(s.sid, asOf) \notin Keys(work["marks"])

HasMark(t, data) == MarkId(t.id.sid, t.id.day) \in Keys(data["marks"])

DoneWith(t) ==
    /\ t.id.day = asOf
    /\ t.id.sid \in Sids(files)
    /\ Running => t.id.sid \notin Sids(todo)

Settled ==
    /\ \A t \in published["trades"] : HasMark(t, published)
    /\ \A t \in work["trades"] : HasMark(t, work) \/ DoneWith(t)

Archived == pc \in {"fit", "step", "mark"} => chain \in Keys(work["snapshots"])

(* Between a strategy's fills and its mark.                                  *)
HalfDone ==
    pc = "mark" =>
        LET spec  == deciding.spec
            fills == Fills(work, spec.sid, asOf)
        IN  /\ spec.sid \notin Sids(todo)
            /\ deciding.trades = UpTo(work, spec.sid, asOf)
            /\ deciding.n = Cardinality(fills)
            /\ fills = TradeRows(spec.sid, Hash(spec), asOf, 0,
                                 Decide(spec.sid, spec.rules,
                                        Replay(Before(work, spec.sid, asOf)), Marks[chain]))

AuditInv ==
    /\ Dated
    /\ MarkIds
    /\ Due
    /\ Settled
    /\ Archived
    /\ HalfDone
    /\ Audited(work)
    /\ Audited(published)

(* The same fills, more rules and more chains: a mark that replayed does.    *)
LEMMA ReplaysStill ==
    ASSUME NEW m, NEW data, NEW later,
           Fills(later, m.sid, m.day) = Fills(data, m.sid, m.day),
           Before(later, m.sid, m.day) = Before(data, m.sid, m.day),
           UpTo(later, m.sid, m.day) = UpTo(data, m.sid, m.day),
           Keys(data["registry"]) \subseteq Keys(later["registry"]),
           Keys(data["snapshots"]) \subseteq Keys(later["snapshots"]),
           ReplaysIn(m, data)
    PROVE  ReplaysIn(m, later)
BY DEF ReplaysIn, Replays

(* What Auditable says of the checkout.                                      *)
LEMMA AuditedIsAuditable ==
    ASSUME Audited(work)
    PROVE  Auditable
<1> SUFFICES ASSUME NEW m \in work["marks"]
             PROVE  LET fills  == {t \in TradesOf(m.sid) : t.id.day = m.day}
                        before == Replay({t \in TradesOf(m.sid) : t.id.day < m.day})
                        after  == Replay({t \in TradesOf(m.sid) : t.id.day <= m.day})
                    IN  /\ m.hash \in Keys(work["registry"])
                        /\ m.n = Cardinality(fills)
                        /\ m.open = Cardinality(Held(after))
                        /\ m.cash = after.cash
                        /\ \E c \in Keys(work["snapshots"]) :
                              /\ m.equity = Equity(after, Marks[c])
                              /\ fills = TradeRows(m.sid, m.hash, m.day, 0,
                                             Decide(m.sid, m.hash.rules, before, Marks[c]))
  BY DEF Auditable
<1>1. /\ {t \in TradesOf(m.sid) : t.id.day = m.day} = Fills(work, m.sid, m.day)
      /\ {t \in TradesOf(m.sid) : t.id.day < m.day} = Before(work, m.sid, m.day)
      /\ {t \in TradesOf(m.sid) : t.id.day <= m.day} = UpTo(work, m.sid, m.day)
  BY DEF TradesOf, Fills, Before, UpTo
<1>2. ReplaysIn(m, work)
  BY DEF Audited
<1> QED BY <1>1, <1>2 DEF ReplaysIn, Replays

(* A step of the job that leaves its fills and marks alone.                  *)
LEMMA AuditAside ==
    ASSUME AuditInv, UNCHANGED <<published, asOf, files, work["trades"], work["marks"]>>,
           work["registry"] \subseteq work'["registry"],
           work["snapshots"] \subseteq work'["snapshots"],
           todo' \subseteq todo,
           Running' => Running,
           pc' = "mark" => pc = "mark" /\ UNCHANGED <<deciding, chain>>,
           Archived'
    PROVE  AuditInv'
<1>1. Dated' /\ MarkIds' /\ Due'
  BY DEF AuditInv, Dated, MarkIds, Due
<1>2. Settled'
  <2>1. Sids(todo') \subseteq Sids(todo)
    BY DEF Sids
  <2>2. \A t : DoneWith(t) => DoneWith(t)'
    BY <2>1 DEF DoneWith, Sids
  <2>3. \A t : HasMark(t, work) => HasMark(t, work)'
    BY DEF HasMark
  <2> QED BY <2>2, <2>3 DEF AuditInv, Settled, HasMark
<1>3. \A sid, d : /\ Fills(work', sid, d) = Fills(work, sid, d)
                  /\ Before(work', sid, d) = Before(work, sid, d)
                  /\ UpTo(work', sid, d) = UpTo(work, sid, d)
  BY DEF Fills, Before, UpTo
<1>4. HalfDone'
  <2> SUFFICES ASSUME pc' = "mark"
               PROVE  HalfDone'
    BY DEF HalfDone
  <2>1. pc = "mark" /\ deciding' = deciding /\ chain' = chain /\ asOf' = asOf
    OBVIOUS
  <2>2. Sids(todo') \subseteq Sids(todo)
    BY DEF Sids
  <2> QED BY <1>3, <2>1, <2>2 DEF AuditInv, HalfDone
<1>5. Audited(work')
  <2>1. /\ Keys(work["registry"]) \subseteq Keys(work'["registry"])
        /\ Keys(work["snapshots"]) \subseteq Keys(work'["snapshots"])
    BY DEF Keys
  <2>2. ASSUME NEW m \in work["marks"]
        PROVE  ReplaysIn(m, work')
    <3>1. ReplaysIn(m, work)
      BY DEF AuditInv, Audited
    <3> QED BY <1>3, <2>1, <3>1, ReplaysStill
  <2> QED BY <2>2 DEF Audited
<1>6. Audited(published')
  BY DEF AuditInv
<1> QED BY <1>1, <1>2, <1>4, <1>5, <1>6 DEF AuditInv

(* A step that leaves the data alone and starts nothing.                     *)
LEMMA AuditIdle ==
    ASSUME AuditInv, UNCHANGED <<published, work, asOf, files, todo>>,
           \/ pc' \in {"idle", "gate", "push"}
           \/ UNCHANGED <<pc, deciding, chain>>
    PROVE  AuditInv'
<1>1. Archived' /\ (Running' => Running)
  BY DEF AuditInv, Archived, Running
<1> QED BY <1>1, AuditAside

(* An append to a ledger that the audit does not read, or only grows with.   *)
LEMMA AuditAppend ==
    ASSUME IInv, AuditInv, UNCHANGED <<published, asOf, files>>,
           NEW l \in {"errors", "fits", "snapshots"}, NEW rows, AppendTo(l, rows),
           todo' \subseteq todo,
           \/ pc' = "gate"
           \/ /\ pc \in {"fetch", "fit", "step"} /\ pc' \in {"fetch", "fit", "step"}
              /\ pc' \in {"fit", "step"} => chain' \in Keys(work'["snapshots"])
    PROVE  AuditInv'
<1>1. l \in Ledgers /\ Table(work)
  BY DEF Ledgers, IInv
<1>2. /\ work'[l] = work[l] \union {r \in rows : r.id \notin Keys(work[l])}
      /\ \A k \in Ledgers : k # l => work'[k] = work[k]
  BY <1>1, AppendAdds
<1>3. /\ UNCHANGED <<work["trades"], work["marks"]>>
      /\ work["registry"] \subseteq work'["registry"]
      /\ work["snapshots"] \subseteq work'["snapshots"]
  BY <1>2 DEF Ledgers
<1>4. Archived' /\ (Running' => Running)
  BY DEF Archived, Running
<1>5. pc' # "mark"
  OBVIOUS
<1> QED BY <1>3, <1>4, <1>5, AuditAside

(* A checkout is audited as the published data is.                           *)
LEMMA AuditStart ==
    ASSUME IInv, AuditInv, StartJob
    PROVE  AuditInv'
<1>1. work' = published /\ pc' = "register" /\ UNCHANGED <<published, asOf>>
  BY DEF StartJob
<1>2. published["trades"] \subseteq work["trades"] /\ published["marks"] \subseteq work["marks"]
  BY DEF IInv, Ahead, Ledgers
<1>3. Dated' /\ MarkIds'
  BY <1>1, <1>2 DEF AuditInv, Dated, MarkIds
<1>4. Due' /\ Archived' /\ HalfDone'
  BY <1>1 DEF Due, Running, Archived, HalfDone
<1>5. Settled'
  BY <1>1 DEF AuditInv, Settled, HasMark
<1> QED BY <1>1, <1>3, <1>4, <1>5 DEF AuditInv, Audited

(* Every fill has its mark when a run begins, so the strategies it has yet   *)
(* to step have no fill of its day.                                          *)
LEMMA AuditRegister ==
    ASSUME IInv, AuditInv, RegisterSpecs
    PROVE  AuditInv'
<1> DEFINE due == {s \in Live(files) : MarkId(s.sid, day) \notin Keys(work["marks"])}
<1>1. /\ pc = "register" /\ pc' \in {"gate", "fetch"}
      /\ asOf' = day
      /\ AppendTo("registry", RegistryRows(files, day))
      /\ todo' \subseteq due
      /\ UNCHANGED <<published, files>>
  BY DEF RegisterSpecs
<1>2. work = published /\ day \in Nat /\ asOf \in Nat /\ asOf <= day
  BY <1>1 DEF IInv, Fresh, Times
<1>3. /\ work'["registry"] = work["registry"] \union
                {r \in RegistryRows(files, day) : r.id \notin Keys(work["registry"])}
      /\ \A k \in Ledgers : k # "registry" => work'[k] = work[k]
  <2>1. Table(work) /\ "registry" \in Ledgers
    BY DEF IInv, Ledgers
  <2> QED BY <1>1, <2>1, AppendAdds
<1>4. UNCHANGED <<work["trades"], work["marks"], work["snapshots"]>>
  BY <1>3 DEF Ledgers
<1>5. Dated' /\ MarkIds'
  BY <1>1, <1>2, <1>4 DEF AuditInv, Dated, MarkIds
<1>6. Due'
  BY <1>1, <1>4 DEF Due
<1>7. Settled'
  BY <1>1, <1>2, <1>4 DEF AuditInv, Settled, HasMark
<1>8. Archived' /\ HalfDone'
  BY <1>1 DEF Archived, HalfDone
<1>9. \A sid, d : /\ Fills(work', sid, d) = Fills(work, sid, d)
                  /\ Before(work', sid, d) = Before(work, sid, d)
                  /\ UpTo(work', sid, d) = UpTo(work, sid, d)
  BY <1>4 DEF Fills, Before, UpTo
<1>10. Audited(work')
  <2>1. /\ Keys(work["registry"]) \subseteq Keys(work'["registry"])
        /\ Keys(work["snapshots"]) \subseteq Keys(work'["snapshots"])
    BY <1>3, <1>4 DEF Keys
  <2>2. ASSUME NEW m \in work["marks"]
        PROVE  ReplaysIn(m, work')
    <3>1. ReplaysIn(m, work)
      BY DEF AuditInv, Audited
    <3> QED BY <1>9, <2>1, <3>1, ReplaysStill
  <2> QED BY <1>4, <2>2 DEF Audited
<1>11. Audited(published')
  BY <1>1 DEF AuditInv
<1> QED BY <1>5, <1>6, <1>7, <1>8, <1>10, <1>11 DEF AuditInv

(* A strategy stepped with no fill of the day behind it.                     *)
StepsAfresh(f) ==
    LET history == TradesOf(f.sid)
        rows    == TradeRows(f.sid, Hash(f), asOf, 0,
                       Decide(f.sid, f.rules, Replay(history), Marks[chain]))
    IN  /\ f \in Live(files) /\ f \in files
        /\ MarkId(f.sid, asOf) \notin Keys(work["marks"])
        /\ \A t \in history : t.id.day \in Nat /\ t.id.day < asOf
        /\ \A t \in rows : t.id.sid = f.sid /\ t.id.day = asOf
        /\ work'["trades"] = work["trades"] \union rows
        /\ \A k \in Ledgers : k # "trades" => work'[k] = work[k]
        /\ deciding' = [spec |-> f, trades |-> history \union rows,
                        n |-> Cardinality(rows)]
        /\ todo' = todo \ {f}

(* A strategy the run has yet to step has no fill of its day, so its fills   *)
(* are numbered from nought and all are new.                                 *)
LEMMA TradeAddsNewRows ==
    ASSUME IInv, AuditInv, Trade
    PROVE  \E f \in todo : StepsAfresh(f)
<1>1. pc = "step" /\ UNCHANGED <<published, files, asOf, chain>>
  BY DEF Trade
<1>2. PICK f \in todo :
        LET history == TradesOf(f.sid)
            base    == Cardinality({t \in history : t.id.day = asOf})
            rows    == TradeRows(f.sid, Hash(f), asOf, base,
                                 Decide(f.sid, f.rules, Replay(history), Marks[chain]))
        IN  /\ AppendTo("trades", rows)
            /\ deciding' = [spec |-> f, trades |-> history \union rows,
                            n |-> Cardinality(rows)]
            /\ todo' = todo \ {f}
  BY DEF Trade
<1>3. /\ todo \subseteq Live(files) /\ f \in Live(files) /\ f \in files
      /\ MarkId(f.sid, asOf) \notin Keys(work["marks"])
      /\ asOf \in Nat
  BY <1>1 DEF AuditInv, Due, Running, Live, IInv, Times
<1>4. \A t \in work["trades"] : t.id.sid = f.sid => t.id.day \in Nat /\ t.id.day < asOf
  <2>1. ASSUME NEW t \in work["trades"], t.id.sid = f.sid, t.id.day = asOf
        PROVE  FALSE
    <3>1. ~HasMark(t, work)
      BY <1>3, <2>1 DEF HasMark
    <3>2. ~DoneWith(t)
      BY <1>1, <2>1 DEF DoneWith, Running, Sids
    <3> QED BY <3>1, <3>2 DEF AuditInv, Settled
  <2>2. \A t \in work["trades"] : t.id.day \in Nat /\ t.id.day <= asOf
    BY DEF AuditInv, Dated
  <2> QED BY <1>3, <2>1, <2>2
<1> DEFINE history == TradesOf(f.sid)
           rows == TradeRows(f.sid, Hash(f), asOf, 0,
                             Decide(f.sid, f.rules, Replay(history), Marks[chain]))
<1>5. /\ AppendTo("trades", rows)
      /\ deciding' = [spec |-> f, trades |-> history \union rows, n |-> Cardinality(rows)]
      /\ todo' = todo \ {f}
  <2>1. {t \in history : t.id.day = asOf} = {}
    BY <1>3, <1>4 DEF TradesOf
  <2>2. Cardinality({t \in history : t.id.day = asOf}) = 0
    BY <2>1, FS_EmptySet
  <2> QED BY <1>2, <2>2
<1>6. \A t \in rows : t.id.sid = f.sid /\ t.id.day = asOf
  BY DEF TradeRows, TradeRow
<1> HIDE DEF history, rows
<1>7. /\ work'["trades"] = work["trades"] \union rows
      /\ \A k \in Ledgers : k # "trades" => work'[k] = work[k]
  <2>1. Table(work) /\ "trades" \in Ledgers
    BY DEF IInv, Ledgers
  <2>2. /\ work'["trades"] = work["trades"] \union {r \in rows : r.id \notin Keys(work["trades"])}
        /\ \A k \in Ledgers : k # "trades" => work'[k] = work[k]
    BY <1>5, <2>1, AppendAdds
  <2>3. \A r \in rows : r.id \notin Keys(work["trades"])
    BY <1>3, <1>4, <1>6 DEF Keys
  <2> QED BY <2>2, <2>3
<1>8. \A t \in history : t.id.day \in Nat /\ t.id.day < asOf
  BY <1>4 DEF TradesOf, history
<1> QED BY <1>3, <1>5, <1>6, <1>7, <1>8 DEF history, rows, StepsAfresh

(* So the marks that are there are of other strategies or of earlier days,   *)
(* and what they replay is what it was.                                      *)
LEMMA AuditTrade ==
    ASSUME IInv, AuditInv, Trade
    PROVE  AuditInv'
<1>1. pc = "step" /\ pc' = "mark" /\ UNCHANGED <<published, files, asOf, chain>>
  BY DEF Trade
<1>2. PICK f \in todo : StepsAfresh(f)
  BY TradeAddsNewRows
<1> DEFINE history == TradesOf(f.sid)
           rows == TradeRows(f.sid, Hash(f), asOf, 0,
                             Decide(f.sid, f.rules, Replay(history), Marks[chain]))
<1>3. /\ todo \subseteq Live(files) /\ f \in Live(files) /\ f \in files
      /\ MarkId(f.sid, asOf) \notin Keys(work["marks"])
      /\ asOf \in Nat
  BY <1>1, <1>2 DEF AuditInv, Due, Running, IInv, Times, StepsAfresh
<1>4. \A t \in work["trades"] : t.id.sid = f.sid => t.id.day \in Nat /\ t.id.day < asOf
  BY <1>2 DEF TradesOf, StepsAfresh
<1>5. /\ deciding' = [spec |-> f, trades |-> history \union rows, n |-> Cardinality(rows)]
      /\ todo' = todo \ {f}
  BY <1>2 DEF StepsAfresh
<1>6. history = Before(work, f.sid, asOf) /\ history = UpTo(work, f.sid, asOf)
  BY <1>3, <1>4 DEF TradesOf, Before, UpTo
<1>7. \A t \in rows : t.id.sid = f.sid /\ t.id.day = asOf
  BY <1>2 DEF StepsAfresh
<1>8. /\ work'["trades"] = work["trades"] \union rows
      /\ \A k \in Ledgers : k # "trades" => work'[k] = work[k]
  BY <1>2 DEF StepsAfresh
<1> HIDE DEF history, rows
<1>9. UNCHANGED <<work["registry"], work["marks"], work["snapshots"]>>
  BY <1>8 DEF Ledgers
<1>10. /\ Fills(work', f.sid, asOf) = rows
       /\ Before(work', f.sid, asOf) = history
       /\ UpTo(work', f.sid, asOf) = history \union rows
  BY <1>3, <1>4, <1>6, <1>7, <1>8 DEF Fills, Before, UpTo
<1>11. f.sid \notin Sids(todo')
  <2>1. files \in SpecDirs
    BY DEF IInv, Times
  <2>2. \A s \in todo : s.sid = f.sid => s = f
    BY <1>3, <2>1, SpecsAreNamedOnce
  <2> QED BY <1>5, <2>2 DEF Sids
<1>12. Dated' /\ MarkIds'
  BY <1>1, <1>3, <1>7, <1>8, <1>9 DEF AuditInv, Dated, MarkIds
<1>13. Due'
  BY <1>1, <1>5, <1>9 DEF AuditInv, Due, Running
<1>14. Settled'
  <2>1. Sids(todo') \subseteq Sids(todo)
    BY <1>5 DEF Sids
  <2>2. ASSUME NEW t \in work["trades"]
        PROVE  HasMark(t, work)' \/ DoneWith(t)'
    <3>1. HasMark(t, work) \/ DoneWith(t)
      BY DEF AuditInv, Settled
    <3>2. HasMark(t, work) => HasMark(t, work)'
      BY <1>9 DEF HasMark
    <3>3. DoneWith(t) => DoneWith(t)'
      BY <1>1, <2>1 DEF DoneWith, Running, Sids
    <3> QED BY <3>1, <3>2, <3>3
  <2>3. ASSUME NEW t \in rows
        PROVE  DoneWith(t)'
    BY <1>1, <1>3, <1>7, <1>11 DEF DoneWith, Sids
  <2> QED BY <1>1, <1>8, <2>2, <2>3 DEF AuditInv, Settled, HasMark
<1>15. Archived'
  BY <1>1, <1>9 DEF AuditInv, Archived
<1>16. HalfDone'
  <2>1. deciding'.spec = f /\ deciding'.trades = history \union rows
        /\ deciding'.n = Cardinality(rows)
    BY <1>5
  <2> QED BY <1>1, <1>10, <1>11, <2>1 DEF HalfDone, rows
<1>17. Audited(work')
  <2>1. ASSUME NEW m \in work["marks"]
        PROVE  ReplaysIn(m, work')
    <3>1. ReplaysIn(m, work) /\ m.day \in Nat /\ m.day <= asOf
      BY DEF AuditInv, Audited, IInv, MarkRows
    <3>2. m.sid = f.sid => m.day # asOf
      BY <1>3 DEF AuditInv, MarkIds, Keys
    <3>3. /\ Fills(work', m.sid, m.day) = Fills(work, m.sid, m.day)
          /\ Before(work', m.sid, m.day) = Before(work, m.sid, m.day)
          /\ UpTo(work', m.sid, m.day) = UpTo(work, m.sid, m.day)
      BY <1>3, <1>7, <1>8, <3>1, <3>2 DEF Fills, Before, UpTo
    <3> QED BY <1>9, <3>1, <3>3, ReplaysStill
  <2> QED BY <1>9, <2>1 DEF Audited
<1>18. Audited(published')
  BY <1>1 DEF AuditInv
<1> QED BY <1>12, <1>13, <1>14, <1>15, <1>16, <1>17, <1>18 DEF AuditInv

(* The mark is what its strategy's fills replay to.                          *)
LEMMA AuditMark ==
    ASSUME IInv, AuditInv, Mark
    PROVE  AuditInv'
<1> DEFINE spec == deciding.spec
           row == MarkRow(asOf, spec, deciding.n, Replay(deciding.trades), chain)
<1>1. /\ AppendTo("marks", {row})
      /\ pc = "mark" /\ pc' = "step"
      /\ UNCHANGED <<published, files, asOf, todo, chain>>
  BY DEF Mark
<1>2. /\ work'["marks"] = work["marks"] \union {r \in {row} : r.id \notin Keys(work["marks"])}
      /\ \A k \in Ledgers : k # "marks" => work'[k] = work[k]
  <2>1. Table(work) /\ "marks" \in Ledgers
    BY DEF IInv, Ledgers
  <2> QED BY <1>1, <2>1, AppendAdds
<1>3. UNCHANGED <<work["registry"], work["trades"], work["snapshots"]>>
  BY <1>2 DEF Ledgers
<1>4. /\ row.id = MarkId(spec.sid, asOf) /\ row.sid = spec.sid /\ row.day = asOf
      /\ row.hash = Hash(spec) /\ row.hash.rules = spec.rules
      /\ row.n = deciding.n
      /\ row.open = Cardinality(Held(Replay(deciding.trades)))
      /\ row.cash = Replay(deciding.trades).cash
      /\ row.equity = Equity(Replay(deciding.trades), Marks[chain])
  BY DEF MarkRow, Hash
<1> HIDE DEF row
<1>5. /\ spec.sid \notin Sids(todo)
      /\ deciding.trades = UpTo(work, spec.sid, asOf)
      /\ deciding.n = Cardinality(Fills(work, spec.sid, asOf))
      /\ Fills(work, spec.sid, asOf)
            = TradeRows(spec.sid, Hash(spec), asOf, 0,
                        Decide(spec.sid, spec.rules,
                               Replay(Before(work, spec.sid, asOf)), Marks[chain]))
  BY <1>1 DEF AuditInv, HalfDone
<1>6. Hash(spec) \in Keys(work["registry"]) /\ chain \in Keys(work["snapshots"])
  BY <1>1 DEF IInv, Deciding, Registered, AuditInv, Archived
<1>7. ReplaysIn(row, work)
  BY <1>4, <1>5, <1>6 DEF ReplaysIn, Replays
<1>8. Dated' /\ MarkIds'
  BY <1>1, <1>2, <1>3, <1>4 DEF AuditInv, Dated, MarkIds
<1>9. Due'
  <2>1. \A s \in todo : MarkId(s.sid, asOf) # MarkId(spec.sid, asOf)
    BY <1>5 DEF MarkId, Sids
  <2>2. \A s \in todo : MarkId(s.sid, asOf) \notin Keys(work'["marks"])
    BY <1>1, <1>2, <1>4, <2>1 DEF AuditInv, Due, Running, Keys
  <2> QED BY <1>1, <2>2 DEF AuditInv, Due, Running
<1>10. Settled'
  <2>1. \A t : HasMark(t, work) => HasMark(t, work)'
    BY <1>2 DEF HasMark, Keys
  <2>2. \A t : DoneWith(t) => DoneWith(t)'
    BY <1>1 DEF DoneWith, Running, Sids
  <2> QED BY <1>1, <1>3, <2>1, <2>2 DEF AuditInv, Settled, HasMark
<1>11. Archived' /\ HalfDone'
  BY <1>1, <1>3 DEF AuditInv, Archived, HalfDone
<1>12. Audited(work')
  <2>1. ASSUME NEW m \in work'["marks"]
        PROVE  ReplaysIn(m, work')
    <3>1. ReplaysIn(m, work)
      BY <1>2, <1>7 DEF AuditInv, Audited
    <3>2. /\ Fills(work', m.sid, m.day) = Fills(work, m.sid, m.day)
          /\ Before(work', m.sid, m.day) = Before(work, m.sid, m.day)
          /\ UpTo(work', m.sid, m.day) = UpTo(work, m.sid, m.day)
      BY <1>3 DEF Fills, Before, UpTo
    <3> QED BY <1>3, <3>1, <3>2, ReplaysStill
  <2> QED BY <2>1 DEF Audited
<1>13. Audited(published')
  BY <1>1 DEF AuditInv
<1> QED BY <1>8, <1>9, <1>10, <1>11, <1>12, <1>13 DEF AuditInv

(* The gate saw a mark of every strategy, so the run's fills all have one    *)
(* when they are published.                                                  *)
LEMMA AuditPush ==
    ASSUME IInv, AuditInv, Push
    PROVE  AuditInv'
<1>1. /\ published' = work /\ pc = "push" /\ pc' = "idle"
      /\ UNCHANGED <<files, work, asOf, todo>>
  BY DEF Push
<1>2. Dated' /\ MarkIds' /\ Due' /\ Archived' /\ HalfDone'
  BY <1>1 DEF AuditInv, Dated, MarkIds, Due, Running, Archived, HalfDone
<1>3. \A t \in work["trades"] : HasMark(t, work)
  <2>1. ASSUME NEW t \in work["trades"], DoneWith(t)
        PROVE  HasMark(t, work)
    <3>1. PICK m \in work["marks"] : m.sid = t.id.sid /\ m.day = asOf
      BY <1>1, <2>1 DEF DoneWith, IInv, Checked
    <3>2. m.id = MarkId(t.id.sid, t.id.day)
      BY <2>1, <3>1 DEF AuditInv, MarkIds, DoneWith
    <3> QED BY <3>2 DEF HasMark, Keys
  <2> QED BY <2>1 DEF AuditInv, Settled
<1>4. Settled'
  BY <1>1, <1>3 DEF Settled, HasMark
<1>5. Audited(work') /\ Audited(published')
  BY <1>1 DEF AuditInv
<1> QED BY <1>2, <1>4, <1>5 DEF AuditInv

(* There is nothing to audit before the first job.                           *)
LEMMA AuditInit == Init => AuditInv
<1> SUFFICES ASSUME Init
             PROVE  AuditInv
  OBVIOUS
<1>1. \A l \in Ledgers : work[l] = {} /\ published[l] = {}
  BY DEF Init
<1>2. /\ work["trades"] = {} /\ work["marks"] = {}
      /\ published["trades"] = {} /\ published["marks"] = {} /\ pc = "idle"
  BY <1>1 DEF Init, Ledgers
<1> QED BY <1>2 DEF AuditInv, Dated, MarkIds, Due, Running, Settled, Archived, HalfDone, Audited

(* Every step of the job, the calendar and the repository keeps it.          *)
LEMMA AuditNext == IInv /\ AuditInv /\ [Next]_vars => AuditInv'
<1> SUFFICES ASSUME IInv, AuditInv, [Next]_vars
             PROVE  AuditInv'
  OBVIOUS
<1>1. CASE StartJob
  BY <1>1, AuditStart
<1>2. CASE RegisterSpecs
  BY <1>2, AuditRegister
<1>3. CASE Refuse
  <2>1. AppendTo("errors", {RunError})
    BY <1>3 DEF Refuse
  <2> QED BY <1>3, <2>1, AuditAppend DEF Refuse
<1>4. CASE Fetch
  <2>1. PICK c \in Chains(day) : chain' = c /\ AppendTo("snapshots", {SnapshotRow(c)})
    BY <1>4 DEF Fetch
  <2>2. chain' \in Keys(work'["snapshots"])
    <3>1. Table(work) /\ "snapshots" \in Ledgers
      BY DEF IInv, Ledgers
    <3>2. work'["snapshots"] = work["snapshots"] \union
             {r \in {SnapshotRow(c)} : r.id \notin Keys(work["snapshots"])}
      BY <2>1, <3>1, AppendAdds
    <3>3. SnapshotRow(c).id = c
      BY DEF SnapshotRow
    <3> QED BY <2>1, <3>2, <3>3 DEF Keys
  <2> QED BY <1>4, <2>1, <2>2, AuditAppend DEF Fetch
<1>5. CASE RecordFit
  <2>1. AppendTo("fits", {FitRow(asOf, chain)})
    BY <1>5 DEF RecordFit
  <2>2. work'["snapshots"] = work["snapshots"]
    <3>1. Table(work) /\ "fits" \in Ledgers
      BY DEF IInv, Ledgers
    <3> QED BY <2>1, <3>1, AppendAdds DEF Ledgers
  <2> QED BY <1>5, <2>1, <2>2, AuditAppend DEF RecordFit, AuditInv, Archived
<1>6. CASE Raise
  <2>1. AppendTo("errors", {RunError})
    BY <1>6 DEF Raise
  <2> QED BY <1>6, <2>1, AuditAppend DEF Raise
<1>7. CASE Trade
  BY <1>7, AuditTrade
<1>8. CASE StrategyFails
  <2>1. PICK s \in todo : AppendTo("errors", {StrategyError(s.sid)}) /\ todo' = todo \ {s}
    BY <1>8 DEF StrategyFails
  <2>2. work'["snapshots"] = work["snapshots"]
    <3>1. Table(work) /\ "errors" \in Ledgers
      BY DEF IInv, Ledgers
    <3> QED BY <2>1, <3>1, AppendAdds DEF Ledgers
  <2> QED BY <1>8, <2>1, <2>2, AuditAppend DEF StrategyFails, AuditInv, Archived
<1>9. CASE Mark
  BY <1>9, AuditMark
<1>10. CASE Finish \/ Gate \/ Crash
  BY <1>10, AuditIdle DEF Finish, Gate, Crash
<1>11. CASE Push
  BY <1>11, AuditPush
<1>12. CASE Midnight \/ EditSpecs \/ UNCHANGED vars
  BY <1>12, AuditIdle DEF Midnight, EditSpecs, vars
<1> QED BY <1>1, <1>2, <1>3, <1>4, <1>5, <1>6, <1>7, <1>8, <1>9, <1>10, <1>11, <1>12 DEF Next

(* Every mark of every checkout replays from the registered rules, the fills *)
(* and an archived chain, whatever was rerun, refused or cut short:          *)
(* daily.run appends the trades, then the mark.                            *)
THEOREM AuditHolds == Spec => []Auditable
<1>1. AuditInv => Auditable
  BY AuditedIsAuditable DEF AuditInv
<1>2. Spec => []AuditInv
  BY AuditInit, AuditNext, Invariance, PTL DEF Spec
<1> QED BY <1>1, <1>2, PTL

-----------------------------------------------------------------------------
(* The books.  The weekly strategy's is a whole straddle in every checkout   *)
(* and in what is published, because each of its days began from one.        *)

Bounded ==
    /\ day \in 0..MaxDay
    /\ jobs \in 0..MaxJobs /\ edits \in 0..MaxEdits /\ failures \in 0..MaxFailures
    /\ pc \in {"idle", "register", "fetch", "fit", "step", "mark", "gate", "push"}
    /\ todo \subseteq Live(files)
    /\ chain \in AllChains \union {NULL}

BookOf(data) == {t \in data["trades"] : t.id.sid = Vrp}

StraddleIn(data) ==
    /\ IsFiniteSet(data["trades"])
    /\ SoundTrades(BookOf(data))
    /\ Whole(Replay(BookOf(data)))

(* A run that got past the registration has loaded every file. *)
Loaded == Running => \A s \in files : s.complete

Priced == pc \in {"fit", "step", "mark"} => chain \in AllChains

Stepped ==
    pc = "mark" =>
        /\ deciding.spec \in Live(files)
        /\ deciding.spec.sid = Vrp =>
              InsideTheBand(Replay(deciding.trades), deciding.spec.rules, Marks[chain])

BookInv ==
    /\ Bounded
    /\ Loaded
    /\ Priced
    /\ Stepped
    /\ StraddleIn(work)
    /\ StraddleIn(published)

(* The marks of a chain are what the strategy may rely on: the loaders of    *)
(* venues.py and market.build_snapshot.                                      *)
LEMMA MarksAreSound ==
    ASSUME NEW c \in AllChains
    PROVE  SoundMarks(Marks[c])
<1> DEFINE row(q) ==
      [inst |-> q.inst, dte |-> q.dte, forward |-> q.forward, bid |-> q.bid, ask |-> q.ask,
       fitted |-> q.inst.expiry \in Slices(c),
       our |-> IF q.inst.expiry \in Slices(c) THEN OurPrice(q) ELSE NULL,
       delta |-> IF q.inst.expiry \in Slices(c) THEN OurDelta(q) ELSE NULL]
<1>1. Marks[c] = {row(q) : q \in Quotes(c)}
  BY DEF Marks, MarksOf
<1>2. \A q : row(q).inst = q.inst /\ row(q).dte = q.dte
             /\ (row(q).fitted => row(q).delta = OurDelta(q))
  OBVIOUS
<1> HIDE DEF row
<1>3. ASSUME NEW q \in Quotes(c)
      PROVE  /\ IsOption(q.inst) /\ OurDelta(q) \in Int
             /\ \E r \in Quotes(c) : r.inst = Twin(q.inst)
             /\ \A r \in Quotes(c) : /\ r.inst = q.inst => r = q
                                     /\ r.inst.expiry = q.inst.expiry => r.dte = q.dte
  BY ChainsAreSound DEF IsOption, Twin
<1>4. ASSUME NEW q \in Quotes(c)
      PROVE  Listed(Twin(row(q).inst), Marks[c])
  BY <1>1, <1>2, <1>3 DEF Listed
<1>5. \A q \in Quotes(c) : \A r \in Quotes(c) :
         /\ row(r).inst = row(q).inst => row(r) = row(q)
         /\ row(r).inst.expiry = row(q).inst.expiry => row(r).dte = row(q).dte
  BY <1>2, <1>3
<1>6. \A q \in Quotes(c) :
         /\ IsOption(row(q).inst)
         /\ row(q).fitted => row(q).delta \in Int
  BY <1>2, <1>3
<1>7. \A q \in Quotes(c) : Listed(Twin(row(q).inst), Marks[c])
  BY <1>4
<1>8. \A m \in Marks[c] : \A other \in Marks[c] :
         /\ other.inst = m.inst => other = m
         /\ other.inst.expiry = m.inst.expiry => other.dte = m.dte
  BY <1>1, <1>5
<1>9. \A m \in Marks[c] : IsOption(m.inst) /\ (m.fitted => m.delta \in Int)
  BY <1>1, <1>6
<1>10. \A m \in Marks[c] : Listed(Twin(m.inst), Marks[c])
  BY <1>1, <1>7
<1> QED BY <1>8, <1>9, <1>10 DEF SoundMarks

(* Rows of finitely many fills are finitely many.                            *)
LEMMA RowsAreFinite ==
    ASSUME NEW sid, NEW hash, NEW d, NEW base, NEW fills, IsFiniteSet(fills)
    PROVE  IsFiniteSet(TradeRows(sid, hash, d, base, fills))
<1> DEFINE order == SetToSeq(fills)
           f == [i \in DOMAIN order |-> TradeRow(sid, hash, d, base + i - 1, order[i])]
<1>1. TradeRows(sid, hash, d, base, fills) = {f[i] : i \in DOMAIN order}
  BY DEF TradeRows
<1>2. IsFiniteSet(DOMAIN order)
  BY SetToSeqIsBijective, FS_Interval
<1>3. f \in Surjection(DOMAIN order, {f[i] : i \in DOMAIN order})
  BY DEF Surjection
<1> HIDE DEF order, f
<1> QED BY <1>1, <1>2, <1>3, FS_Surjection

(* The step of the weekly strategy.                                          *)
LEMMA VrpSteps ==
    ASSUME IInv, AuditInv, BookInv, pc = "step", NEW f, StepsAfresh(f), f.sid = Vrp
    PROVE  /\ StraddleIn(work')
           /\ InsideTheBand(Replay(deciding'.trades), f.rules, Marks[chain])
<1> DEFINE fills == WeeklyVrp(f.rules, Replay(BookOf(work)), Marks[chain])
           rows == TradeRows(f.sid, Hash(f), asOf, 0, fills)
           after == BookOf(work) \union rows
<1>1. /\ f \in files
      /\ \A t \in BookOf(work) : t.id.day \in Nat /\ t.id.day < asOf
      /\ \A t \in rows : t.id.sid = Vrp /\ t.id.day = asOf
      /\ work'["trades"] = work["trades"] \union rows
      /\ deciding'.trades = after
  <2>1. TradesOf(f.sid) = BookOf(work)
    BY DEF TradesOf, BookOf
  <2>2. Decide(f.sid, f.rules, Replay(BookOf(work)), Marks[chain]) = fills
    BY DEF Decide
  <2> HIDE DEF fills, rows
  <2> QED BY <2>1, <2>2 DEF StepsAfresh, rows
<1>2. SoundRules(f.rules)
  <2>1. files \in SpecDirs /\ f.complete
    BY <1>1 DEF IInv, Times, BookInv, Loaded, Running
  <2> QED BY <1>1, <2>1, RulesAreSound DEF SoundRules
<1>3. SoundMarks(Marks[chain])
  BY MarksAreSound DEF BookInv, Priced
<1>4. SoundTrades(BookOf(work)) /\ Whole(Replay(BookOf(work)))
  BY DEF BookInv, StraddleIn
<1>5. /\ SoundFills(fills)
      /\ \A then : Moved(BookOf(work), fills, then) =>
            Whole(Replay(then)) /\ InsideTheBand(Replay(then), f.rules, Marks[chain])
  BY <1>2, <1>3, <1>4, WeeklyVrpKeepsTheStraddle
<1> HIDE DEF fills
<1>6. Moved(BookOf(work), fills, after)
  <2>1. asOf \in Nat
    BY DEF IInv, Times
  <2>2. rows \intersect BookOf(work) = {}
    BY <1>1, <2>1
  <2>3. SoundTrades(BookOf(work)) /\ SoundFills(fills)
    BY <1>4, <1>5
  <2> QED BY <2>2, <2>3, FillsMoveTheBook
<1>7. BookOf(work') = after
  BY <1>1 DEF BookOf
<1>8. IsFiniteSet(rows)
  BY <1>5, RowsAreFinite DEF SoundFills
<1>9. IsFiniteSet(work'["trades"])
  <2>1. IsFiniteSet(work["trades"])
    BY DEF BookInv, StraddleIn
  <2> HIDE DEF rows
  <2>2. IsFiniteSet(work["trades"] \union rows)
    BY <1>8, <2>1, FS_Union
  <2>3. work'["trades"] = work["trades"] \union rows
    BY <1>1
  <2> QED BY <2>2, <2>3
<1>10. SoundTrades(after)
  BY <1>6 DEF Moved
<1> HIDE DEF rows, after
<1> QED BY <1>1, <1>5, <1>6, <1>7, <1>9, <1>10 DEF StraddleIn

(* No other strategy's fills are of its book.                                *)
LEMMA OthersStep ==
    ASSUME BookInv, NEW f, StepsAfresh(f), f.sid # Vrp
    PROVE  StraddleIn(work')
<1> DEFINE fills == HoldContext(f.rules, Replay(TradesOf(f.sid)), Marks[chain])
           rows == TradeRows(f.sid, Hash(f), asOf, 0, fills)
<1>1. /\ work'["trades"] = work["trades"] \union rows
      /\ \A t \in rows : t.id.sid = f.sid
  <2>1. Decide(f.sid, f.rules, Replay(TradesOf(f.sid)), Marks[chain]) = fills
    BY DEF Decide
  <2> HIDE DEF fills, rows
  <2> QED BY <2>1 DEF StepsAfresh, rows
<1>2. IsFiniteSet(fills)
  <2>1. PICK t : fills \subseteq {t}
    BY DEF HoldContext
  <2> HIDE DEF fills
  <2> QED BY <2>1, AtMostThree
<1> HIDE DEF fills
<1>3. IsFiniteSet(rows)
  BY <1>2, RowsAreFinite
<1> HIDE DEF rows
<1>4. IsFiniteSet(work["trades"] \union rows)
  <2>1. IsFiniteSet(work["trades"])
    BY DEF BookInv, StraddleIn
  <2> QED BY <1>3, <2>1, FS_Union
<1>5. BookOf(work') = BookOf(work)
  BY <1>1 DEF BookOf
<1> QED BY <1>1, <1>4, <1>5 DEF BookInv, StraddleIn

(* A step that leaves the fills alone.                                       *)
LEMMA BookAside ==
    ASSUME BookInv, UNCHANGED <<published, work["trades"]>>,
           Bounded', Loaded', Priced',
           pc' = "mark" => pc = "mark" /\ UNCHANGED <<deciding, chain, files>>
    PROVE  BookInv'
<1>1. Stepped'
  BY DEF BookInv, Stepped
<1>2. BookOf(work') = BookOf(work)
  BY DEF BookOf
<1>3. StraddleIn(work') /\ StraddleIn(published')
  BY <1>2 DEF BookInv, StraddleIn
<1> QED BY <1>1, <1>3 DEF BookInv

(* So is one that appends to another ledger.                                 *)
LEMMA AppendSparesTrades ==
    ASSUME IInv, NEW l \in Ledgers \ {"trades"}, NEW rows, AppendTo(l, rows)
    PROVE  work'["trades"] = work["trades"]
<1>1. Table(work) /\ "trades" \in Ledgers /\ l \in Ledgers
  BY DEF IInv, Ledgers
<1> QED BY <1>1, AppendAdds

(* There is no book before the first job.                                    *)
LEMMA BookInit == Init => BookInv
<1> SUFFICES ASSUME Init
             PROVE  BookInv
  OBVIOUS
<1>1. \A l \in Ledgers : work[l] = {} /\ published[l] = {}
  BY DEF Init
<1>2. work["trades"] = {} /\ published["trades"] = {}
  BY <1>1 DEF Ledgers
<1>3. SoundTrades({}) /\ Whole(Replay({}))
  <2>1. SoundTrades({})
    BY FS_EmptySet DEF SoundTrades
  <2>2. Held(Replay({})) = {}
    BY DEF Held, Replay
  <2> QED BY <2>1, <2>2 DEF Whole
<1>4. BookOf(work) = {} /\ BookOf(published) = {}
  BY <1>2 DEF BookOf
<1>5. StraddleIn(work) /\ StraddleIn(published)
  BY <1>2, <1>3, <1>4, FS_EmptySet DEF StraddleIn
<1>6. Bounded
  BY BoundsAssumption DEF Init, Bounded
<1> QED BY <1>5, <1>6 DEF Init, BookInv, Loaded, Running, Priced, Stepped

(* The day's strategies, one at a time.                                      *)
LEMMA BookTrade ==
    ASSUME IInv, AuditInv, BookInv, Trade
    PROVE  BookInv'
<1>1. /\ pc = "step" /\ pc' = "mark"
      /\ UNCHANGED <<day, published, files, chain, jobs, edits, failures>>
  BY DEF Trade
<1>2. PICK f \in todo : StepsAfresh(f)
  BY TradeAddsNewRows
<1>3. f \in Live(files) /\ deciding'.spec = f /\ todo' \subseteq todo
  BY <1>2 DEF StepsAfresh
<1>4. CASE f.sid = Vrp
  <2>1. StraddleIn(work') /\ InsideTheBand(Replay(deciding'.trades), f.rules, Marks[chain])
    BY <1>1, <1>2, <1>4, VrpSteps
  <2> QED BY <1>1, <1>3, <2>1
              DEF BookInv, Bounded, Loaded, Running, Priced, Stepped, StraddleIn, BookOf
<1>5. CASE f.sid # Vrp
  <2>1. StraddleIn(work')
    BY <1>2, <1>5, OthersStep
  <2> QED BY <1>1, <1>3, <1>5, <2>1
              DEF BookInv, Bounded, Loaded, Running, Priced, Stepped, StraddleIn, BookOf
<1> QED BY <1>4, <1>5

(* Every step of the job, the calendar and the repository keeps it.          *)
LEMMA BookNext == IInv /\ AuditInv /\ BookInv /\ [Next]_vars => BookInv'
<1> SUFFICES ASSUME IInv, AuditInv, BookInv, [Next]_vars
             PROVE  BookInv'
  OBVIOUS
<1> USE BoundsAssumption
<1>0. Bounded /\ Loaded /\ Priced
  BY DEF BookInv
<1>1. CASE StartJob
  <2>1. BookOf(work') = BookOf(published)
    BY <1>1 DEF StartJob, BookOf
  <2>2. StraddleIn(work') /\ StraddleIn(published')
    BY <1>1, <2>1 DEF StartJob, BookInv, StraddleIn, BookOf
  <2>3. Bounded' /\ Loaded' /\ Priced' /\ Stepped'
    BY <1>0, <1>1 DEF StartJob, Bounded, Loaded, Running, Priced, Stepped
  <2> QED BY <2>2, <2>3 DEF BookInv
<1>2. CASE RegisterSpecs
  <2>1. work'["trades"] = work["trades"]
    BY <1>2, AppendSparesTrades DEF RegisterSpecs, Ledgers
  <2>2. Loaded' /\ Priced' /\ pc' # "mark"
    BY <1>2 DEF RegisterSpecs, Acceptable, Loaded, Priced
  <2>3. Bounded'
    BY <1>0, <1>2 DEF RegisterSpecs, Bounded
  <2> QED BY <1>2, <2>1, <2>2, <2>3, BookAside DEF RegisterSpecs
<1>3. CASE Refuse
  <2>1. work'["trades"] = work["trades"]
    BY <1>3, AppendSparesTrades DEF Refuse, Ledgers
  <2> QED BY <1>0, <1>3, <2>1, BookAside DEF Refuse, Bounded, Loaded, Running, Priced
<1>4. CASE Fetch
  <2>1. PICK c \in Chains(day) : chain' = c /\ AppendTo("snapshots", {SnapshotRow(c)})
    BY <1>4 DEF Fetch
  <2>2. work'["trades"] = work["trades"]
    BY <2>1, AppendSparesTrades DEF Ledgers
  <2>3. chain' \in AllChains
    BY <1>0, <2>1 DEF Bounded, AllChains
  <2>4. Bounded'
    BY <1>0, <1>4, <2>3 DEF Fetch, Bounded
  <2>5. Loaded' /\ Priced' /\ pc' # "mark" /\ published' = published
    BY <1>0, <1>4, <2>3 DEF Fetch, Loaded, Running, Priced
  <2> QED BY <2>2, <2>4, <2>5, BookAside
<1>5. CASE RecordFit
  <2>1. work'["trades"] = work["trades"]
    BY <1>5, AppendSparesTrades DEF RecordFit, Ledgers
  <2> QED BY <1>0, <1>5, <2>1, BookAside DEF RecordFit, Bounded, Loaded, Running, Priced
<1>6. CASE Raise
  <2>1. work'["trades"] = work["trades"]
    BY <1>6, AppendSparesTrades DEF Raise, Ledgers
  <2>2. Bounded'
    BY <1>0, <1>6 DEF Raise, Bounded
  <2> QED BY <1>6, <2>1, <2>2, BookAside DEF Raise, Loaded, Running, Priced
<1>7. CASE Trade
  BY <1>7, BookTrade
<1>8. CASE StrategyFails
  <2>1. PICK s \in todo : AppendTo("errors", {StrategyError(s.sid)}) /\ todo' = todo \ {s}
    BY <1>8 DEF StrategyFails
  <2>2. work'["trades"] = work["trades"]
    BY <2>1, AppendSparesTrades DEF Ledgers
  <2>3. Bounded'
    BY <1>0, <1>8, <2>1 DEF StrategyFails, Bounded
  <2> QED BY <1>0, <1>8, <2>2, <2>3, BookAside DEF StrategyFails, Loaded, Running, Priced
<1>9. CASE Mark
  <2>1. AppendTo("marks", {MarkRow(asOf, deciding.spec, deciding.n,
                                   Replay(deciding.trades), chain)})
    BY <1>9 DEF Mark
  <2>2. work'["trades"] = work["trades"]
    BY <2>1, AppendSparesTrades DEF Ledgers
  <2> QED BY <1>0, <1>9, <2>2, BookAside DEF Mark, Bounded, Loaded, Running, Priced
<1>10. CASE Finish \/ Gate \/ Crash
  <2>1. Bounded'
    BY <1>0, <1>10 DEF Finish, Gate, Crash, Bounded
  <2> QED BY <1>10, <2>1, BookAside DEF Finish, Gate, Crash, Loaded, Running, Priced
<1>11. CASE Push
  <2>1. StraddleIn(work') /\ StraddleIn(published')
    BY <1>11 DEF Push, BookInv, StraddleIn, BookOf
  <2> QED BY <1>0, <1>11, <2>1 DEF Push, BookInv, Bounded, Loaded, Running, Priced, Stepped
<1>12. CASE Midnight \/ EditSpecs \/ UNCHANGED vars
  <2>1. Bounded'
    BY <1>0, <1>12 DEF Midnight, EditSpecs, vars, Bounded
  <2> QED BY <1>0, <1>12, <2>1, BookAside DEF Midnight, EditSpecs, vars, Loaded, Running, Priced
<1> QED BY <1>1, <1>2, <1>3, <1>4, <1>5, <1>6, <1>7, <1>8, <1>9, <1>10, <1>11, <1>12 DEF Next

(* The audit and the books together, which every theorem below rests on.     *)
LEMMA BooksAreSound == Spec => [](IInv /\ AuditInv /\ BookInv)
<1> QED BY InitInvariant, NextInvariant, AuditInit, AuditNext, BookInit, BookNext, PTL DEF Spec

(* Every variable has its type: what a run holds of a chain, of the specs it *)
(* has to step and of the strategy between its fills and its mark.           *)
THEOREM LedgerTypes == Spec => []TypeOK
<1>1. IInv /\ AuditInv /\ BookInv => TypeOK
  <2> SUFFICES ASSUME IInv, AuditInv, BookInv
               PROVE  TypeOK
    OBVIOUS
  <2>1. day \in 0..MaxDay /\ asOf \in 0..day
    BY DEF IInv, Times, BookInv, Bounded
  <2>2. DOMAIN published = Ledgers /\ DOMAIN work = Ledgers
    BY DEF IInv, Table
  <2>3. pc \in {"fit", "step", "mark"} => chain # NULL
    BY ChainsAreSound DEF BookInv, Priced
  <2>4. ASSUME pc = "mark"
        PROVE  /\ deciding.spec \in Live(files) /\ deciding.n \in Nat
               /\ deciding.trades \subseteq work["trades"]
    <3>1. /\ deciding.trades = UpTo(work, deciding.spec.sid, asOf)
          /\ deciding.n = Cardinality(Fills(work, deciding.spec.sid, asOf))
      BY <2>4 DEF AuditInv, HalfDone
    <3>2. IsFiniteSet(work["trades"])
      BY DEF BookInv, StraddleIn
    <3>3. /\ UpTo(work, deciding.spec.sid, asOf) \subseteq work["trades"]
          /\ Fills(work, deciding.spec.sid, asOf) \subseteq work["trades"]
      BY DEF UpTo, Fills
    <3>4. Cardinality(Fills(work, deciding.spec.sid, asOf)) \in Nat
      BY <3>2, <3>3, FS_Subset, FS_CardinalityType
    <3> QED BY <2>4, <3>1, <3>3, <3>4 DEF BookInv, Stepped
  <2> QED BY <2>1, <2>2, <2>3, <2>4 DEF TypeOK, IInv, Times, BookInv, Bounded
<1> QED BY <1>1, BooksAreSound, PTL

(* The weekly strategy holds both legs of one straddle, short alike, or no   *)
(* option and no forward, after any sequence of days, chains and specs:      *)
(* strategies.weekly_vrp on the book that portfolio.replay gives it.         *)
THEOREM StraddlesStayWhole == Spec => []StraddleIsWhole
<1>1. BookInv => StraddleIsWhole
  <2> SUFFICES ASSUME BookInv
               PROVE  StraddleIsWhole
    OBVIOUS
  <2>1. TradesOf(Vrp) = BookOf(work)
    BY DEF TradesOf, BookOf
  <2>2. Whole(Replay(TradesOf(Vrp)))
    BY <2>1 DEF BookInv, StraddleIn
  <2> QED BY <2>2 DEF StraddleIsWhole, Whole, Twin
<1> QED BY <1>1, BooksAreSound, PTL

(* And the day's fills leave a straddle our surface fits inside the band of  *)
(* its rules: strategies._hedge.                                             *)
THEOREM HedgesStayInside == Spec => []HedgedInsideTheBand
<1>1. BookInv => HedgedInsideTheBand
  BY DEF BookInv, Stepped, InsideTheBand, HedgedInsideTheBand
<1> QED BY <1>1, BooksAreSound, PTL

-----------------------------------------------------------------------------
(* The quiet days.  The directory as shipped: a market that is known, specs  *)
(* that load and replace nothing, of strategies somebody implemented.        *)
ShippedAreSound ==
    \A s \in InitDir : s.complete /\ s.supersedes = NULL /\ s.sid \in Implemented

QuietSetting ==
    /\ DailyMarket \in Markets
    /\ ShippedAreSound

Marked(sid) == MarkId(sid, asOf) \in Keys(work["marks"])

(* While nothing has gone wrong nothing has been refused, and a run owes a   *)
(* mark only to strategies it has yet to step.                               *)
Quiet ==
    /\ dir = InitDir /\ files = InitDir
    /\ work["errors"] = {} /\ published["errors"] = {}
    /\ \A r \in work["registry"] :
          \E s \in InitDir : r.id = Hash(s) /\ r.sid = s.sid /\ r.version = s.version
    /\ pc \in {"fetch", "fit", "step", "mark"} =>
          \A s \in Live(files) : \/ Marked(s.sid)
                                 \/ s \in todo
                                 \/ pc = "mark" /\ s = deciding.spec
    /\ pc \in {"gate", "push"} => \A s \in Live(files) : Marked(s.sid)
    /\ pc \in {"step", "mark", "gate", "push"} => FitId(asOf) \in Keys(work["fits"])

FitIds == \A f \in work["fits"] : f.id = FitId(f.day)

QuietInv ==
    /\ failures \in Nat /\ edits \in Nat
    /\ FitIds
    /\ failures = 0 /\ edits = 0 => Quiet

(* Shipped specs are accepted by a registry that holds no others: the same   *)
(* version has the same hash.                                                *)
LEMMA ShippedSpecsLoad ==
    ASSUME QuietSetting, IInv, Quiet
    PROVE  Acceptable(files, work["registry"])
<1>1. \A s, t \in InitDir : s.sid = t.sid /\ s.version = t.version => Hash(s) = Hash(t)
  BY SpecsAreNamedOnce
<1>2. ASSUME NEW s \in InitDir
      PROVE  s.complete /\ ~Contradicts(s, work["registry"])
  BY <1>1, <1>2 DEF QuietSetting, ShippedAreSound, Quiet, Contradicts
<1> QED BY <1>2 DEF Acceptable, Quiet

(* A step that appends to no ledger the gate reads and leaves the run where  *)
(* it is or takes it out of the way.                                         *)
LEMMA QuietAside ==
    ASSUME Quiet, UNCHANGED <<dir, files, asOf, published>>,
           \A l \in {"errors", "registry"} : work'[l] = work[l],
           \A l \in {"marks", "fits"} : Keys(work[l]) \subseteq Keys(work'[l]),
           \/ pc' \in {"idle", "register"}
           \/ pc' = pc /\ todo' = todo /\ deciding' = deciding
           \/ pc = "fetch" /\ pc' = "fit" /\ todo' = todo
           \/ pc = "gate" /\ pc' = "push"
    PROVE  Quiet'
BY DEF Quiet, Marked

(* Every step of a quiet day keeps it quiet, and a step that does not is one *)
(* that something went wrong in.                                             *)
LEMMA QuietNext ==
    ASSUME QuietSetting, IInv, AuditInv, BookInv, QuietInv, [Next]_vars
    PROVE  QuietInv'
<1>1. failures' \in Nat /\ edits' \in Nat
  BY BoundsAssumption, BookNext DEF BookInv, Bounded
<1>2. /\ failures' = failures \/ failures' = failures + 1
      /\ edits' = edits \/ edits' = edits + 1
  BY DEF QuietInv, Next, vars, StartJob, RegisterSpecs, Refuse, Fetch, RecordFit, Raise, Trade,
         StrategyFails, Mark, Finish, Gate, Push, Crash, Midnight, EditSpecs
<1>3. failures' = 0 /\ edits' = 0 =>
         Quiet /\ failures' = failures /\ edits' = edits /\ failures = 0 /\ edits = 0
  BY <1>2 DEF QuietInv
<1>4. Table(work) /\ {"registry", "fits", "trades", "marks", "errors", "snapshots"} = Ledgers
  BY DEF IInv, Ledgers
<1>5. Live(files) \subseteq files
  BY DEF Live
<1>6. /\ published["fits"] \subseteq work["fits"]
      /\ published["registry"] \subseteq work["registry"]
  BY DEF IInv, Ahead, Ledgers
<1>7. ASSUME NEW l \in Ledgers, NEW rows, AppendTo(l, rows)
      PROVE  /\ work'[l] = work[l] \union {r \in rows : r.id \notin Keys(work[l])}
             /\ \A k \in Ledgers : k # l => work'[k] = work[k]
             /\ \A k \in Ledgers : Keys(work[k]) \subseteq Keys(work'[k])
             /\ Keys(rows) \subseteq Keys(work'[l])
  <2>1. /\ work'[l] = work[l] \union {r \in rows : r.id \notin Keys(work[l])}
        /\ \A k \in Ledgers : k # l => work'[k] = work[k]
    BY <1>4, <1>7, AppendAdds
  <2>2. \A k \in Ledgers : Keys(work[k]) \subseteq Keys(work'[k])
    BY <2>1 DEF Keys
  <2>3. Keys(rows) \subseteq Keys(work'[l])
    BY <2>1 DEF Keys
  <2> QED BY <2>1, <2>2, <2>3
<1>8. CASE StartJob
  <2>1. FitIds'
    BY <1>6, <1>8 DEF StartJob, QuietInv, FitIds
  <2>2. Quiet => Quiet'
    BY <1>6, <1>8 DEF StartJob, Quiet
  <2> QED BY <1>1, <1>3, <2>1, <2>2 DEF QuietInv
<1>9. CASE RegisterSpecs
  <2>1. AppendTo("registry", RegistryRows(files, day))
    BY <1>9 DEF RegisterSpecs
  <2>2. /\ work'["registry"] = work["registry"] \union
              {r \in RegistryRows(files, day) : r.id \notin Keys(work["registry"])}
        /\ UNCHANGED <<work["fits"], work["marks"], work["errors"]>>
    BY <1>4, <1>7, <2>1
  <2>3. FitIds'
    BY <2>2 DEF QuietInv, FitIds
  <2>4. ASSUME Quiet
        PROVE  Quiet'
    <3>1. /\ UNCHANGED <<dir, files, published>> /\ asOf' = day /\ pc' \in {"fetch", "gate"}
          /\ todo' = {s \in {s \in Live(files) : MarkId(s.sid, day) \notin Keys(work["marks"])} :
                         s.sid \in Implemented}
          /\ pc' = "gate" =>
                /\ {s \in Live(files) : MarkId(s.sid, day) \notin Keys(work["marks"])} = {}
                /\ FitId(day) \in Keys(work["fits"])
      BY <1>9 DEF RegisterSpecs
    <3>2. \A r \in work'["registry"] :
             \E s \in InitDir : r.id = Hash(s) /\ r.sid = s.sid /\ r.version = s.version
      BY <2>2, <2>4 DEF Quiet, RegistryRows, RegistryRow
    <3>3. \A s \in Live(files) : s.sid \in Implemented
      BY <1>5, <2>4 DEF Quiet, QuietSetting, ShippedAreSound
    <3>4. \A s \in Live(files) : Marked(s.sid)' \/ (pc' = "fetch" /\ s \in todo')
      BY <2>2, <3>1, <3>3 DEF Marked
    <3>5. pc' = "gate" => FitId(asOf') \in Keys(work'["fits"])
      BY <2>2, <3>1
    <3>6. work'["errors"] = {} /\ published'["errors"] = {}
      BY <2>2, <2>4, <3>1 DEF Quiet
    <3> QED BY <2>4, <3>1, <3>2, <3>4, <3>5, <3>6 DEF Quiet
  <2> QED BY <1>1, <1>3, <2>3, <2>4 DEF QuietInv
<1>10. CASE Refuse
  <2>1. ~Quiet
    BY <1>10, ShippedSpecsLoad DEF Refuse
  <2>2. AppendTo("errors", {RunError})
    BY <1>10 DEF Refuse
  <2>3. FitIds'
    BY <1>4, <1>7, <2>2 DEF QuietInv, FitIds
  <2> QED BY <1>1, <1>3, <2>1, <2>3 DEF QuietInv
<1>11. CASE Fetch
  <2>1. PICK c \in Chains(day) : AppendTo("snapshots", {SnapshotRow(c)})
    BY <1>11 DEF Fetch
  <2>2. /\ \A l \in {"errors", "registry", "fits", "marks"} : work'[l] = work[l]
    BY <1>4, <1>7, <2>1
  <2>3. FitIds'
    BY <2>2 DEF QuietInv, FitIds
  <2>4. Quiet => Quiet'
    BY <1>11, <2>2, QuietAside DEF Fetch
  <2> QED BY <1>1, <1>3, <2>3, <2>4 DEF QuietInv
<1>12. CASE RecordFit
  <2>1. AppendTo("fits", {FitRow(asOf, chain)}) /\ pc = "fit" /\ pc' = "step"
        /\ UNCHANGED <<dir, files, asOf, published, todo>>
    BY <1>12 DEF RecordFit
  <2>2. /\ \A l \in {"errors", "registry", "marks"} : work'[l] = work[l]
        /\ work'["fits"] = work["fits"] \union
              {r \in {FitRow(asOf, chain)} : r.id \notin Keys(work["fits"])}
        /\ Keys({FitRow(asOf, chain)}) \subseteq Keys(work'["fits"])
    BY <1>4, <1>7, <2>1
  <2>3. FitRow(asOf, chain).id = FitId(asOf) /\ FitRow(asOf, chain).day = asOf
    BY DEF FitRow
  <2>4. FitIds'
    BY <2>2, <2>3 DEF QuietInv, FitIds
  <2>5. FitId(asOf) \in Keys(work'["fits"])
    BY <2>2, <2>3 DEF Keys
  <2>6. Quiet => Quiet'
    BY <2>1, <2>2, <2>5 DEF Quiet, Marked
  <2> QED BY <1>1, <1>3, <2>4, <2>6 DEF QuietInv
<1>13. CASE Raise
  <2>1. AppendTo("errors", {RunError})
    BY <1>13 DEF Raise
  <2>2. FitIds'
    BY <1>4, <1>7, <2>1 DEF QuietInv, FitIds
  <2>3. failures' = failures + 1
    BY <1>13 DEF Raise, QuietSetting
  <2> QED BY <1>1, <1>3, <2>2, <2>3 DEF QuietInv
<1>14. CASE Trade
  <2>1. PICK f \in todo : StepsAfresh(f)
    BY <1>14, TradeAddsNewRows
  <2>2. /\ \A l \in {"errors", "registry", "fits", "marks"} : work'[l] = work[l]
        /\ todo' = todo \ {f} /\ deciding'.spec = f
    BY <1>4, <2>1 DEF StepsAfresh
  <2>3. pc = "step" /\ pc' = "mark" /\ UNCHANGED <<dir, files, asOf, published>>
    BY <1>14 DEF Trade
  <2>4. FitIds'
    BY <2>2 DEF QuietInv, FitIds
  <2>5. Quiet => Quiet'
    BY <2>2, <2>3 DEF Quiet, Marked
  <2> QED BY <1>1, <1>3, <2>4, <2>5 DEF QuietInv
<1>15. CASE StrategyFails
  <2>1. PICK s \in todo : AppendTo("errors", {StrategyError(s.sid)})
    BY <1>15 DEF StrategyFails
  <2>2. FitIds'
    BY <1>4, <1>7, <2>1 DEF QuietInv, FitIds
  <2>3. failures' = failures + 1
    BY <1>15 DEF StrategyFails
  <2> QED BY <1>1, <1>3, <2>2, <2>3 DEF QuietInv
<1>16. CASE Mark
  <2> DEFINE row == MarkRow(asOf, deciding.spec, deciding.n, Replay(deciding.trades), chain)
  <2>1. AppendTo("marks", {row}) /\ pc = "mark" /\ pc' = "step"
        /\ UNCHANGED <<dir, files, asOf, published, todo>>
    BY <1>16 DEF Mark
  <2>2. row.id = MarkId(deciding.spec.sid, asOf)
    BY DEF MarkRow
  <2> HIDE DEF row
  <2>3. /\ \A l \in {"errors", "registry", "fits"} : work'[l] = work[l]
        /\ Keys(work["marks"]) \subseteq Keys(work'["marks"])
        /\ Keys({row}) \subseteq Keys(work'["marks"])
    BY <1>4, <1>7, <2>1
  <2>4. FitIds'
    BY <2>3 DEF QuietInv, FitIds
  <2>5. \A s : Marked(s.sid) \/ s = deciding.spec => Marked(s.sid)'
    <3>1. MarkId(deciding.spec.sid, asOf) \in Keys({row})
      BY <2>2 DEF Keys
    <3> QED BY <2>1, <2>3, <3>1 DEF Marked
  <2>6. Quiet => Quiet'
    BY <2>1, <2>3, <2>5 DEF Quiet
  <2> QED BY <1>1, <1>3, <2>4, <2>6 DEF QuietInv
<1>17. CASE Finish
  <2>1. FitIds'
    BY <1>17 DEF Finish, QuietInv, FitIds
  <2>2. Quiet => Quiet'
    BY <1>17 DEF Finish, Quiet, Marked
  <2> QED BY <1>1, <1>3, <2>1, <2>2 DEF QuietInv
<1>18. CASE Gate \/ Push \/ Crash
  <2>1. FitIds'
    BY <1>18 DEF Gate, Push, Crash, QuietInv, FitIds
  <2>2. Quiet => Quiet'
    BY <1>18 DEF Gate, Push, Crash, Quiet, Marked
  <2> QED BY <1>1, <1>3, <2>1, <2>2 DEF QuietInv
<1>19. CASE Midnight \/ UNCHANGED vars
  <2>1. FitIds'
    BY <1>19 DEF Midnight, vars, QuietInv, FitIds
  <2>2. Quiet => Quiet'
    BY <1>19 DEF Midnight, vars, Quiet, Marked
  <2> QED BY <1>1, <1>3, <2>1, <2>2 DEF QuietInv
<1>20. CASE EditSpecs
  <2>1. FitIds' /\ edits' = edits + 1
    BY <1>20 DEF EditSpecs, QuietInv, FitIds
  <2> QED BY <1>1, <1>3, <2>1 DEF QuietInv
<1> QED BY <1>8, <1>9, <1>10, <1>11, <1>12, <1>13, <1>14, <1>15, <1>16, <1>17, <1>18,
           <1>19, <1>20 DEF Next

(* On a market the venue table knows, a job that nothing goes wrong for      *)
(* passes the gate on the day it took, in the directory as shipped:          *)
(* daily.run and ci_verify.check agree on what a whole day is.               *)
LEMMA QuietDaysPass ==
    ASSUME QuietSetting
    PROVE  Spec => []QuietDayPasses
<1>1. Init => QuietInv
  <2> SUFFICES ASSUME Init
               PROVE  QuietInv
    OBVIOUS
  <2>1. \A l \in Ledgers : work[l] = {} /\ published[l] = {}
    BY DEF Init
  <2> QED BY <2>1 DEF Init, QuietInv, FitIds, Quiet, Ledgers
<1>2. (IInv /\ AuditInv /\ BookInv) /\ QuietInv /\ [Next]_vars => QuietInv'
  BY QuietNext
<1>3. IInv /\ AuditInv /\ BookInv /\ QuietInv => QuietDayPasses
  <2> SUFFICES ASSUME AuditInv, Quiet, pc = "gate", asOf = day,
                      \A f \in work["fits"] : f.clean, FitIds
               PROVE  GatePasses
    BY DEF QuietInv, QuietDayPasses
  <2>1. Sids(Live(files)) \subseteq {m.sid : m \in {r \in work["marks"] : r.day = day}}
    <3>1. ASSUME NEW s \in Live(files)
          PROVE  \E m \in work["marks"] : m.sid = s.sid /\ m.day = day
      <4>1. PICK m \in work["marks"] : m.id = MarkId(s.sid, day)
        BY DEF Quiet, Marked, Keys
      <4> QED BY <4>1 DEF AuditInv, MarkIds, MarkId
    <3> QED BY <3>1 DEF Sids
  <2>2. \E f \in work["fits"] : f.day = day
    BY DEF Quiet, FitIds, FitId, Keys
  <2>3. work["errors"] = {}
    BY DEF Quiet
  <2> QED BY <2>1, <2>2, <2>3 DEF GatePasses
<1> QED BY <1>1, <1>2, <1>3, BooksAreSound, PTL DEF Spec

(* Without that market there is no record: no run gets past the fetch, so no *)
(* gate sees a fit.                                                          *)
Nothing == \A l \in Ledgers : published[l] = {}

NothingInv ==
    /\ pc \notin {"fit", "step", "mark", "push"}
    /\ work["fits"] = {}
    /\ Nothing

(* No run of an unknown market archives a fit or publishes anything.         *)
LEMMA NothingIsFitted ==
    ASSUME DailyMarket \notin Markets
    PROVE  Spec => []NothingInv
<1>1. Init => NothingInv
  BY DEF Init, NothingInv, Nothing, Ledgers
<1>2. IInv /\ NothingInv /\ [Next]_vars => NothingInv'
  <2> SUFFICES ASSUME IInv, NothingInv, [Next]_vars
               PROVE  NothingInv'
    OBVIOUS
  <2>1. Table(work) /\ "fits" \in Ledgers
    BY DEF IInv, Ledgers
  <2>2. ASSUME NEW l \in {"registry", "errors"}, NEW rows, AppendTo(l, rows)
        PROVE  work'["fits"] = {}
    <3>1. l \in Ledgers
      BY DEF Ledgers
    <3> QED BY <2>1, <2>2, <3>1, AppendAdds DEF NothingInv
  <2>3. CASE StartJob
    BY <2>1, <2>3 DEF StartJob, NothingInv, Nothing
  <2>4. CASE RegisterSpecs
    BY <2>2, <2>4 DEF RegisterSpecs, NothingInv, Nothing
  <2>5. CASE Refuse
    BY <2>2, <2>5 DEF Refuse, NothingInv, Nothing
  <2>6. CASE Raise
    BY <2>2, <2>6 DEF Raise, NothingInv, Nothing
  <2>7. CASE Gate
    BY <2>7 DEF Gate, GatePasses, NothingInv, Nothing
  <2>8. CASE Crash \/ Midnight \/ EditSpecs \/ UNCHANGED vars
    BY <2>8 DEF Crash, Midnight, EditSpecs, vars, NothingInv, Nothing
  <2>9. ~(Fetch \/ RecordFit \/ Trade \/ StrategyFails \/ Mark \/ Finish \/ Push)
    BY DEF NothingInv, Fetch, RecordFit, Trade, StrategyFails, Mark, Finish, Push
  <2> QED BY <2>3, <2>4, <2>5, <2>6, <2>7, <2>8, <2>9 DEF Next
<1> QED BY <1>1, <1>2, Invariance, PTL DEF Spec

(* The daily job as it is written asks for a market that is not in the venue *)
(* table, and then nothing is ever published, on any day, by any job:        *)
(* daily.run, market.state and ci_verify.check.                             *)
THEOREM UnknownMarketPublishesNothing ==
    ASSUME DailyMarket \notin Markets
    PROVE  Spec => []Nothing
<1>1. NothingInv => Nothing
  BY DEF NothingInv
<1> QED BY <1>1, NothingIsFitted, PTL

(* Whether the venue table knows the market decides a day that nothing else  *)
(* goes wrong on: if it does every such day passes the gate, and if it does  *)
(* not, as with the key daily.py asks for, no day passes it at all.          *)
THEOREM MarketDecides ==
    ASSUME ShippedAreSound
    PROVE  /\ DailyMarket \in Markets => (Spec => []QuietDayPasses)
           /\ DailyMarket \notin Markets => (Spec => []~GatePasses)
<1>1. ASSUME DailyMarket \in Markets
      PROVE  Spec => []QuietDayPasses
  <2>1. QuietSetting
    BY <1>1 DEF QuietSetting
  <2> QED BY <2>1, QuietDaysPass
<1>2. ASSUME DailyMarket \notin Markets
      PROVE  Spec => []~GatePasses
  <2>1. NothingInv => ~GatePasses
    BY DEF NothingInv, GatePasses
  <2> QED BY <1>2, <2>1, NothingIsFitted, PTL
<1> QED BY <1>1, <1>2

=============================================================================
