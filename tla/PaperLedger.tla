----------------------------- MODULE PaperLedger -----------------------------
(***************************************************************************)
(* The daily job: src/tmo/daily.py, its gate src/tmo/ci_verify.py and the  *)
(* workflow that runs them one at a time on a fresh checkout and publishes *)
(* the data directory when the gate passes.                                *)
(*                                                                         *)
(* published is the data of the repository, work that of the job's         *)
(* checkout; both hold the ledgers and the archive of chains.  Midnight    *)
(* may come, specs may be edited and the job may die between any two of    *)
(* its steps.                                                              *)
(***************************************************************************)
EXTENDS PaperBook

CONSTANTS
    SpecDirs,        \* what ledger/specs may hold
    InitDir,         \* what it holds at first
    DailyMarket,     \* the key the daily job asks for
    Chains(_),       \* the chains the venue may return on a day
    Quotes(_),       \* the quotes of a chain
    Slices(_),       \* the expiries our fit of it covers
    Clean(_),        \* whether our surface is free of arbitrage
    OurPrice(_),     \* our price of a quoted option
    OurDelta(_),     \* and its delta
    MaxDay, MaxJobs, MaxEdits, MaxFailures

Sids(files) == {s.sid : s \in files}

(* No directory names one version of a strategy twice or leaves a strategy   *)
(* with two live specs; each has one.                                        *)
ASSUME SpecsAreNamedOnce ==
    /\ InitDir \in SpecDirs
    /\ \A files \in SpecDirs :
          /\ Live(files) # {}
          /\ Sids(files) = Sids(Live(files))
          /\ \A s, t \in files : s.sid = t.sid /\ s.version = t.version => Hash(s) = Hash(t)
          /\ \A s, t \in Live(files) : s.sid = t.sid => s = t

AllChains == UNION {Chains(d) : d \in 0..MaxDay}

(* A venue lists the call and the put of a strike together, and the chain    *)
(* that market.state is given drops rows by the time their expiry has to     *)
(* run, so both or neither: a leg that leaves the chain alone is left out.   *)
ASSUME ChainsAreSound ==
    /\ NULL \notin AllChains
    /\ \A c \in AllChains : \A q \in Quotes(c) :
          /\ q.inst = Option(q.inst.expiry, q.inst.strike, q.inst.call)
          /\ q.inst.call \in BOOLEAN
          /\ OurDelta(q) \in Int
          /\ \E r \in Quotes(c) : r.inst = [q.inst EXCEPT !.call = ~q.inst.call]
          /\ \A r \in Quotes(c) :
                /\ r.inst = q.inst => r = q
                /\ r.inst.expiry = q.inst.expiry => r.dte = q.dte

(* A straddle has a size and its band is open.                               *)
ASSUME RulesAreSound ==
    \A files \in SpecDirs : \A s \in files : s.sid = Vrp /\ s.complete =>
        /\ s.rules.legs \in Nat \ {0}
        /\ s.rules.band \in Nat \ {0}
        /\ s.rules.delta \in Int

ASSUME BoundsAssumption == {MaxDay, MaxJobs, MaxEdits, MaxFailures} \subseteq Nat

VARIABLES
    day,         \* the date, UTC
    dir,         \* the spec files at the head of the repository
    published,   \* the data at the head of the repository
    pc,          \* where the job is, "idle" when there is none
    files,       \* the spec files of the job's checkout
    work,        \* the data of the job's checkout
    asOf,        \* the date the run took for its day
    todo,        \* the live specs the run has yet to step
    chain,       \* the chain it fetched
    deciding,    \* the strategy between its fills and its mark, or NULL
    removed,     \* the strategies an edit took out, each with its day
    jobs, edits, failures

vars == <<day, dir, published, pc, files, work, asOf, todo, chain, deciding,
          removed, jobs, edits, failures>>

(* The markets of venues.py, by the venue-qualified keys of BY_KEY. *)
Markets == {"deribit:BTC", "deribit:ETH", "deribit:SOL", "deribit:XRP", "deribit:HYPE",
            "deribit:TRX", "deribit:AVAX", "bybit:BTC", "bybit:ETH", "bybit:SOL"}

Ledgers == {"registry", "fits", "trades", "marks", "errors", "snapshots"}

Marks ==
    [c \in AllChains |-> MarksOf(Quotes(c), Slices(c), [q \in Quotes(c) |-> OurPrice(q)],
                                                      [q \in Quotes(c) |-> OurDelta(q)])]

Init ==
    /\ day = 0
    /\ dir = InitDir
    /\ published = [l \in Ledgers |-> {}]
    /\ pc = "idle"
    /\ files = InitDir
    /\ work = [l \in Ledgers |-> {}]
    /\ asOf = 0
    /\ todo = {}
    /\ chain = NULL
    /\ deciding = NULL
    /\ removed = {}
    /\ jobs = 0
    /\ edits = 0
    /\ failures = 0

-----------------------------------------------------------------------------
(* Rows. *)

FitId(d) == <<"BTC", d>>
MarkId(sid, d) == <<sid, d>>

FitRow(d, c) == [id |-> FitId(d), day |-> d, chain |-> c, clean |-> Clean(c)]

MarkRow(d, spec, n, book, c) ==
    [id |-> MarkId(spec.sid, d), sid |-> spec.sid, day |-> d, hash |-> Hash(spec), n |-> n,
     open |-> Cardinality(Held(book)), cash |-> book.cash, equity |-> Equity(book, Marks[c])]

RunError == [id |-> <<"run", jobs>>, day |-> day]
StrategyError(sid) == [id |-> <<sid, asOf>>, day |-> asOf]

(* Content-addressed: the same chain is archived once. *)
SnapshotRow(c) == [id |-> c]

TradesOf(sid) == {t \in work.trades : t.id.sid = sid}

AppendTo(ledger, rows) == work' = [work EXCEPT ![ledger] = Appended(@, rows)]

-----------------------------------------------------------------------------
(* The job. *)

StartJobOnOldData ==
    /\ pc = "idle"
    /\ jobs < MaxJobs
    /\ jobs' = jobs + 1
    /\ files' = dir
    /\ pc' = "register"
    /\ todo' = {}
    /\ chain' = NULL
    /\ deciding' = NULL
    /\ UNCHANGED <<day, dir, published, work, asOf, removed, edits, failures>>

(* actions/checkout, once the job before it has ended. *)
StartJob ==
    /\ pc = "idle"
    /\ jobs < MaxJobs
    /\ jobs' = jobs + 1
    /\ files' = dir
    /\ work' = published
    /\ pc' = "register"
    /\ todo' = {}
    /\ chain' = NULL
    /\ deciding' = NULL
    /\ UNCHANGED <<day, dir, published, asOf, removed, edits, failures>>

RegisterSpecsRetired ==
    /\ pc = "register"
    /\ Acceptable(files, work["registry"])
    /\ asOf' = day
    /\ AppendTo("registry", RegistryRows(files, day))
    /\ todo' = {s \in files : MarkId(s.sid, day) \notin Keys(work["marks"])}
    /\ pc' = "fetch"
    /\ UNCHANGED <<day, dir, published, files, chain, deciding, removed, jobs, edits,
                   failures>>

(* The run takes its date, registers the specs and lists what it has to do.  *)
(* A day that is all marked is left alone, and so is a strategy that is      *)
(* marked already or that nobody implemented.                                *)
RegisterSpecs ==
    /\ pc = "register"
    /\ Acceptable(files, work["registry"])
    /\ asOf' = day
    /\ AppendTo("registry", RegistryRows(files, day))
    /\ LET due == {s \in Live(files) : MarkId(s.sid, day) \notin Keys(work["marks"])}
       IN  /\ todo' = {s \in due : s.sid \in Implemented}
           /\ pc' = IF due = {} /\ FitId(day) \in Keys(work["fits"]) THEN "gate" ELSE "fetch"
    /\ UNCHANGED <<day, dir, published, files, chain, deciding, removed, jobs, edits,
                   failures>>

(* What a raising run leaves is an error row; its exit code says nothing. *)
Refuse ==
    /\ pc = "register"
    /\ ~Acceptable(files, work["registry"])
    /\ AppendTo("errors", {RunError})
    /\ pc' = "gate"
    /\ UNCHANGED <<day, dir, published, files, asOf, todo, chain, deciding, removed,
                   jobs, edits, failures>>

(* The raw chain is archived before anything is fitted. *)
Fetch ==
    /\ pc = "fetch"
    /\ DailyMarket \in Markets
    /\ \E c \in Chains(day) :
          /\ chain' = c
          /\ AppendTo("snapshots", {SnapshotRow(c)})
    /\ pc' = "fit"
    /\ UNCHANGED <<day, dir, published, files, asOf, todo, deciding, removed, jobs,
                   edits, failures>>

RecordFit ==
    /\ pc = "fit"
    /\ AppendTo("fits", {FitRow(asOf, chain)})
    /\ pc' = "step"
    /\ UNCHANGED <<day, dir, published, files, asOf, todo, chain, deciding, removed,
                   jobs, edits, failures>>

(* A market nobody knows, a venue that does not answer, a chain that cannot  *)
(* be fitted, a book that cannot be valued.                                  *)
Raise ==
    /\ pc \in {"fetch", "fit", "mark"}
    /\ IF pc = "fetch" /\ DailyMarket \notin Markets
       THEN failures' = failures
       ELSE failures < MaxFailures /\ failures' = failures + 1
    /\ AppendTo("errors", {RunError})
    /\ pc' = "gate"
    /\ UNCHANGED <<day, dir, published, files, asOf, todo, chain, deciding, removed,
                   jobs, edits>>

(* Trades first, then the mark. *)
Trade ==
    /\ pc = "step"
    /\ \E s \in todo :
          LET history == TradesOf(s.sid)
              base    == Cardinality({t \in history : t.id.day = asOf})
              rows    == TradeRows(s.sid, Hash(s), asOf, base,
                                   Decide(s.sid, s.rules, Replay(history), Marks[chain]))
          IN  /\ AppendTo("trades", rows)
              /\ deciding' = [spec |-> s, trades |-> history \union rows,
                              n |-> Cardinality(rows)]
              /\ todo' = todo \ {s}
    /\ pc' = "mark"
    /\ UNCHANGED <<day, dir, published, files, asOf, chain, removed, jobs, edits,
                   failures>>

StrategyFails ==
    /\ pc = "step"
    /\ failures < MaxFailures
    /\ failures' = failures + 1
    /\ \E s \in todo :
          /\ AppendTo("errors", {StrategyError(s.sid)})
          /\ todo' = todo \ {s}
    /\ UNCHANGED <<day, dir, published, pc, files, asOf, chain, deciding, removed, jobs,
                   edits>>

(* The mark is the day's guard. *)
Mark ==
    /\ pc = "mark"
    /\ AppendTo("marks", {MarkRow(asOf, deciding.spec, deciding.n,
                                  Replay(deciding.trades), chain)})
    /\ deciding' = NULL
    /\ pc' = "step"
    /\ UNCHANGED <<day, dir, published, files, asOf, todo, chain, removed, jobs, edits,
                   failures>>

FinishAfterOne ==
    /\ pc = "step"
    /\ pc' = "gate"
    /\ UNCHANGED <<day, dir, published, files, work, asOf, todo, chain, deciding,
                   removed, jobs, edits, failures>>

Finish ==
    /\ pc = "step"
    /\ todo = {}
    /\ pc' = "gate"
    /\ UNCHANGED <<day, dir, published, files, work, asOf, todo, chain, deciding,
                   removed, jobs, edits, failures>>

GatePassesUnclean ==
    LET today(ledger) == {r \in work[ledger] : r.day = day}
    IN  /\ Sids(Live(files)) \subseteq {m.sid : m \in today("marks")}
        /\ today("fits") # {}
        /\ today("errors") = {}

(* ci_verify reads the clock for itself. *)
GatePasses ==
    LET today(ledger) == {r \in work[ledger] : r.day = day}
    IN  /\ Sids(Live(files)) \subseteq {m.sid : m \in today("marks")}
        /\ today("fits") # {}
        /\ \A f \in today("fits") : f.clean
        /\ today("errors") = {}

(* A file that does not load fails the gate as it failed the run. *)
Gate ==
    /\ pc = "gate"
    /\ pc' = IF (\A s \in files : s.complete) /\ GatePasses THEN "push" ELSE "idle"
    /\ UNCHANGED <<day, dir, published, files, work, asOf, todo, chain, deciding,
                   removed, jobs, edits, failures>>

Push ==
    /\ pc = "push"
    /\ published' = work
    /\ pc' = "idle"
    /\ UNCHANGED <<day, dir, files, work, asOf, todo, chain, deciding, removed, jobs,
                   edits, failures>>

(* The runner dies, the job times out, or the push is refused three times. *)
Crash ==
    /\ pc # "idle"
    /\ failures < MaxFailures
    /\ failures' = failures + 1
    /\ pc' = "idle"
    /\ UNCHANGED <<day, dir, published, files, work, asOf, todo, chain, deciding,
                   removed, jobs, edits>>

Midnight ==
    /\ day < MaxDay
    /\ day' = day + 1
    /\ UNCHANGED <<dir, published, pc, files, work, asOf, todo, chain, deciding,
                   removed, jobs, edits, failures>>

(* A commit to ledger/specs: it may bring strategies in, take them out and   *)
(* change their rules.                                                       *)
EditSpecs ==
    /\ edits < MaxEdits
    /\ edits' = edits + 1
    /\ \E d \in SpecDirs \ {dir} :
          /\ dir' = d
          /\ removed' = removed \union {[sid |-> sid, day |-> day] : sid \in Sids(dir) \ Sids(d)}
    /\ UNCHANGED <<day, published, pc, files, work, asOf, todo, chain, deciding, jobs, failures>>

Next ==
    \/ StartJob \/ RegisterSpecs \/ Refuse \/ Fetch \/ RecordFit \/ Raise
    \/ Trade \/ StrategyFails \/ Mark \/ Finish \/ Gate \/ Push
    \/ Crash \/ Midnight \/ EditSpecs

Spec == Init /\ [][Next]_vars

-----------------------------------------------------------------------------
(* Properties. *)

TypeOK ==
    /\ day \in 0..MaxDay /\ asOf \in 0..day
    /\ dir \in SpecDirs /\ files \in SpecDirs
    /\ pc \in {"idle", "register", "fetch", "fit", "step", "mark", "gate", "push"}
    /\ DOMAIN published = Ledgers /\ DOMAIN work = Ledgers
    /\ todo \subseteq Live(files)
    /\ chain \in AllChains \union {NULL}
    /\ pc \in {"fit", "step", "mark"} => chain # NULL
    /\ pc = "mark" => /\ deciding.spec \in Live(files)
                      /\ deciding.n \in Nat
                      /\ deciding.trades \subseteq work["trades"]
    /\ \A x \in removed : x.day \in 0..day
    /\ jobs \in 0..MaxJobs /\ edits \in 0..MaxEdits /\ failures \in 0..MaxFailures

(* No job, however it ends, takes a row out of the published ledgers or      *)
(* gives a published key another row: ledger.append writes what is new, and  *)
(* a job starts from what is published.                                      *)
RecordOnlyGrows ==
    [][\A l \in Ledgers :
          /\ published[l] \subseteq published'[l]
          /\ \A r \in published'[l] \ published[l] : r.id \notin Keys(published[l])]_vars

(* What a stranger can check: every mark's fills are what the registered     *)
(* rules decide for the book of the days before and some archived chain, and *)
(* its count, cash, positions and equity are those of that book and chain.   *)
(* A day run twice, or half a day, would not replay.                         *)
Auditable ==
    \A m \in work["marks"] :
        LET fills  == {t \in TradesOf(m.sid) : t.id.day = m.day}
            before == Replay({t \in TradesOf(m.sid) : t.id.day < m.day})
            after  == Replay({t \in TradesOf(m.sid) : t.id.day <= m.day})
        IN  /\ m.hash \in Keys(work["registry"])
            /\ m.n = Cardinality(fills)
            /\ m.open = Cardinality(Held(after))
            /\ m.cash = after.cash
            /\ \E c \in Keys(work["snapshots"]) :
                  /\ m.equity = Equity(after, Marks[c])
                  /\ fills = TradeRows(m.sid, m.hash, m.day, 0,
                                       Decide(m.sid, m.hash.rules, before, Marks[c]))

(* The weekly strategy holds both legs of one straddle, short alike, or no   *)
(* option and then no forward either: no missed day, one-sided quote or      *)
(* change of rules leaves a naked leg or an orphaned hedge.                  *)
StraddleIsWhole ==
    LET book == Replay(TradesOf(Vrp))
    IN  \/ Held(book) = {}
        \/ \E leg \in OpenOptions(book) :
              LET other == [leg EXCEPT !.call = ~leg.call]
              IN  /\ OpenOptions(book) = {leg, other}
                  /\ book.qty[leg] < 0 /\ book.qty[other] = book.qty[leg]
                  /\ OpenFutures(book) \subseteq {Future(leg.expiry)}

(* The day's fills leave a fitted straddle's delta inside the band of the    *)
(* rules it is held under.                                                   *)
HedgedInsideTheBand ==
    pc = "mark" /\ deciding.spec.sid = Vrp =>
        LET book  == Replay(deciding.trades)
            marks == Marks[chain]
            legs  == OpenOptions(book)
            rules == deciding.spec.rules
            fwds  == SumFunction([f \in OpenFutures(book) |-> book.qty[f]])
        IN  legs # {} /\ rules.hedged /\ (\A i \in legs : RowOf(i, marks).fitted) =>
                Abs(OptionDelta(book, marks) + fwds - rules.delta) < rules.band

(* Published rules are never rewritten: a strategy's version has one hash,   *)
(* and nothing was traded or marked under rules registered later.            *)
RulesNeverRewritten ==
    LET registry == published["registry"]
    IN  /\ \A r, other \in registry :
              r.sid = other.sid /\ r.version = other.version => r = other
        /\ \A t \in published["trades"] :
              \E r \in registry : r.id = t.hash /\ r.registered <= t.id.day
        /\ \A m \in published["marks"] :
              \E r \in registry : r.id = m.hash /\ r.registered <= m.day

Gone(sid, d) == \E x \in removed : x.sid = sid /\ x.day <= d

(* A published day is whole: where one strategy has a mark, there is a fit   *)
(* free of arbitrage and a mark of every strategy registered by then that no *)
(* edit had taken out by then.                                               *)
PublishedDaysAreWhole ==
    \A m \in published["marks"] :
        /\ \E f \in published["fits"] : f.day = m.day /\ f.clean
        /\ \A r \in published["registry"] : r.registered <= m.day /\ ~Gone(r.sid, m.day) =>
              \E other \in published["marks"] : other.sid = r.sid /\ other.day = m.day

(* A job that nothing goes wrong for, from the venue to the runner, on specs *)
(* nobody touched and a chain our surface fits without arbitrage, passes the *)
(* gate.                                                                     *)
QuietDayPasses ==
    pc = "gate" /\ failures = 0 /\ edits = 0 /\ asOf = day
        /\ (\A f \in work["fits"] : f.clean) => GatePasses

=============================================================================
