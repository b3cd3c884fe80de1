------------------------------ MODULE PaperBook ------------------------------
(***************************************************************************)
(* src/tmo/portfolio.py and src/tmo/strategies.py as operators, on the     *)
(* marks that src/tmo/market.py makes of a venue's chain.                  *)
(*                                                                         *)
(* An instrument is [kind, expiry, strike, call]; a forward has strike 0.  *)
(* Marks are a set of rows, one for each listed option:                    *)
(*   inst, dte, forward    the option and the forward of its expiry        *)
(*   bid, ask              the venue's quotes in USD, or NULL              *)
(*   fitted                whether our surface has an IV for it            *)
(*   our, delta            our price in USD, and delta in hundredths       *)
(* Quantities are in hundredths of a BTC, cash in millionths of a USD, so  *)
(* that the venue's fee rates give whole numbers.  NULL stands for NaN.    *)
(***************************************************************************)
EXTENDS SpecRegistry, FiniteSetsExt, SequencesExt

CONSTANTS Vrp, Hold       \* btc-weekly-vrp, btc-hold-context

Context == 0              \* the label of the context line's forward

Abs(n) == IF n < 0 THEN -n ELSE n

-----------------------------------------------------------------------------
(* What the venue quotes, and what we make of it. *)

(* The chain with our surface laid over it: an expiry the fit has no slice   *)
(* for gets no IV, so neither price nor delta.                               *)
MarksOf(quotes, slices, price, delta) ==
    {LET fitted == q.inst.expiry \in slices
     IN  [inst |-> q.inst, dte |-> q.dte, forward |-> q.forward, bid |-> q.bid, ask |-> q.ask,
          fitted |-> fitted, our   |-> IF fitted THEN price[q] ELSE NULL,
          delta  |-> IF fitted THEN delta[q] ELSE NULL] : q \in quotes}

TwoSided(row) == row.bid # NULL /\ row.ask # NULL /\ row.bid > 0 /\ row.ask > 0

(* Twice the mid, which keeps it whole. *)
TwiceMid(row) == IF row.bid = NULL \/ row.ask = NULL THEN NULL ELSE row.bid + row.ask

(* Our price where the venue has no mid; no price where we have none either. *)
TwicePrice(row) ==
    CASE TwiceMid(row) # NULL -> TwiceMid(row)
      [] TwiceMid(row) = NULL /\ row.fitted -> 2 * row.our
      [] OTHER -> NULL

Tradeable(marks) == {r \in marks : TwoSided(r) /\ r.fitted}

Listed(inst, marks) == \E r \in marks : r.inst = inst

RowOf(inst, marks) == CHOOSE r \in marks : r.inst = inst

FrontForward(marks) ==
    (CHOOSE r \in marks : \A other \in marks : r.dte <= other.dte).forward

ForwardOf(expiry, marks) ==
    IF \E r \in marks : r.inst.expiry = expiry
    THEN (CHOOSE r \in marks : r.inst.expiry = expiry).forward
    ELSE FrontForward(marks)

Intrinsic(inst, forward) ==
    Max({0, IF inst.call THEN forward - inst.strike ELSE inst.strike - forward})

-----------------------------------------------------------------------------
(* Fills and the book they replay to. *)

Option(expiry, strike, call) ==
    [kind |-> "option", expiry |-> expiry, strike |-> strike, call |-> call]

Future(label) == [kind |-> "future", expiry |-> label, strike |-> 0, call |-> FALSE]

(* 0.03% of the forward, capped at 12.5% of the premium. *)
OptionFee(forward, price, qty) == Abs(qty) * Min({3 * forward, 1250 * price})

(* 0.05% of the notional. *)
FutureFee(price, qty) == Abs(qty) * price * 5

MakeTrade(inst, qty, price, forward, action) ==
    LET fee == IF inst.kind = "option" THEN OptionFee(forward, price, qty)
                                       ELSE FutureFee(price, qty)
    IN  [inst |-> inst, qty |-> qty, price |-> price, action |-> action,
         cash |-> -qty * price * 10000 - fee]

(* A fill as the trades ledger keeps it: the key is made of its content. *)
TradeRow(sid, hash, day, seq, t) ==
    [id   |-> [sid |-> sid, day |-> day, seq |-> seq, inst |-> t.inst, qty |-> t.qty,
               price |-> t.price, action |-> t.action],
     hash |-> hash, cash |-> t.cash]

(* A day's fills, numbered on from those the day already has.  In which      *)
(* order is of no account, so any will do.                                   *)
TradeRows(sid, hash, day, base, fills) ==
    LET order == SetToSeq(fills)
    IN  {TradeRow(sid, hash, day, base + i - 1, order[i]) : i \in DOMAIN order}

(* What the fills of an instrument come to. *)
Net(trades, inst) == SumFunction([t \in {u \in trades : u.id.inst = inst} |-> t.id.qty])

(* Cash, and the instruments whose fills do not net to nothing. *)
Replay(trades) ==
    LET traded == {t.id.inst : t \in trades}
    IN  [cash |-> SumFunction([t \in trades |-> t.cash]),
         qty  |-> [inst \in {i \in traded : Net(trades, i) # 0} |-> Net(trades, inst)]]

Held(book) == DOMAIN book.qty
OpenOptions(book) == {i \in Held(book) : i.kind = "option"}
OpenFutures(book) == {i \in Held(book) : i.kind = "future"}

(* Twice what one unit of a held instrument is worth: forwards at the front *)
(* forward, an option the venue no longer lists at intrinsic.               *)
TwiceWorth(inst, marks) ==
    CASE inst.kind = "future" -> 2 * FrontForward(marks)
      [] inst.kind = "option" /\ Listed(inst, marks) -> TwicePrice(RowOf(inst, marks))
      [] OTHER -> 2 * Intrinsic(inst, FrontForward(marks))

(* The book's equity, or NULL where a price is missing. *)
Equity(book, marks) ==
    IF \E i \in Held(book) : TwiceWorth(i, marks) = NULL
    THEN NULL
    ELSE book.cash
         + SumFunction([i \in Held(book) |-> book.qty[i] * TwiceWorth(i, marks) * 5000])

-----------------------------------------------------------------------------
(* The strategies: the set of fills a day calls for. *)

FillPrice(row, qty) == IF qty > 0 THEN row.ask ELSE row.bid

HedgeForgetsTheHeld(rules, book, optionDelta, expiry, forward) ==
    LET diff == rules.delta - optionDelta
    IN  IF ~rules.hedged \/ Abs(diff) < rules.band
        THEN {}
        ELSE {MakeTrade(Future(expiry), diff, forward, forward, "hedge")}

(* Trade the forward of an expiry back to the target delta, inside a band. *)
Hedge(rules, book, optionDelta, expiry, forward) ==
    LET fwd     == Future(expiry)
        current == IF fwd \in Held(book) THEN book.qty[fwd] ELSE 0
        diff    == rules.delta - optionDelta - current
    IN  IF ~rules.hedged \/ Abs(diff) < rules.band
        THEN {}
        ELSE {MakeTrade(fwd, diff, forward, forward, "hedge")}

(* A leg our surface has no delta for counts as none. *)
OptionDelta(book, marks) ==
    LET seen == {i \in OpenOptions(book) : Listed(i, marks) /\ RowOf(i, marks).fitted}
    IN  SumFunction([i \in seen |-> (book.qty[i] * RowOf(i, marks).delta) \div 100])

(* The open legs too near their expiry, those that are gone among them. *)
Expiring(rules, book, marks) ==
    {i \in OpenOptions(book) :
        (IF Listed(i, marks) THEN RowOf(i, marks).dte ELSE -1) < rules.closeBelow}

CloseLeg(inst, book, marks) ==
    LET qty   == -book.qty[inst]
        front == FrontForward(marks)
    IN  IF \E r \in Tradeable(marks) : r.inst = inst
        THEN LET row == RowOf(inst, marks)
             IN  MakeTrade(inst, qty, FillPrice(row, qty), row.forward, "close")
        ELSE MakeTrade(inst, qty, Intrinsic(inst, front), front, "close")

ExitKeepsTheHedge(rules, book, marks) ==
    {CloseLeg(i, book, marks) : i \in Expiring(rules, book, marks)}

Exit(rules, book, marks) ==
    LET front == FrontForward(marks)
    IN  {CloseLeg(i, book, marks) : i \in Expiring(rules, book, marks)}
        \union {MakeTrade(f, -book.qty[f], front, front, "close") : f \in OpenFutures(book)}

(* Sell both legs of the strike nearest the forward, in the tradeable expiry *)
(* nearest the target, and hedge what is about to be held.                   *)
Entry(rules, book, marks) ==
    LET cand   == {r \in Tradeable(marks) : r.dte >= rules.lo /\ r.dte <= rules.hi}
        Far(r) == Abs(r.dte - rules.target)
        pick   == CHOOSE r \in cand : \A o \in cand :
                      \/ Far(r) < Far(o)
                      \/ Far(r) = Far(o) /\ r.dte <= o.dte
        slice  == {r \in cand : r.inst.expiry = pick.inst.expiry}
        Off(r) == Abs(r.inst.strike - pick.forward)
        near   == CHOOSE r \in slice : \A o \in slice :
                      \/ Off(r) < Off(o)
                      \/ Off(r) = Off(o) /\ r.inst.strike <= o.inst.strike
        legs   == {r \in slice : r.inst.strike = near.inst.strike}
        delta  == SumFunction([r \in legs |-> (-rules.legs * r.delta) \div 100])
    IN  IF cand = {} \/ {r.inst.call : r \in legs} # BOOLEAN
        THEN {}
        ELSE {MakeTrade(r.inst, -rules.legs, FillPrice(r, -rules.legs), pick.forward, "open")
                : r \in legs}
             \union Hedge(rules, book, delta, pick.inst.expiry, pick.forward)

Rebalance(rules, book, marks) ==
    LET leg == CHOOSE i \in OpenOptions(book) : TRUE
    IN  Hedge(rules, book, OptionDelta(book, marks), leg.expiry,
              ForwardOf(leg.expiry, marks))

WeeklyVrp(rules, book, marks) ==
    CASE Expiring(rules, book, marks) # {} -> Exit(rules, book, marks)
      [] OpenOptions(book) = {} -> Entry(rules, book, marks)
      [] OTHER -> Rebalance(rules, book, marks)

HoldContext(rules, book, marks) ==
    LET front == FrontForward(marks)
    IN  IF Held(book) # {}
        THEN {}
        ELSE {MakeTrade(Future(Context), rules.btc, front, front, "open")}

Implemented == {Vrp, Hold}

Decide(sid, rules, book, marks) ==
    IF sid = Vrp THEN WeeklyVrp(rules, book, marks) ELSE HoldContext(rules, book, marks)

=============================================================================
