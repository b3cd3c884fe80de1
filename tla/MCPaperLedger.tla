---------------------------- MODULE MCPaperLedger ----------------------------
(***************************************************************************)
(* Small instances of PaperLedger: two expiries, two strikes, a forward    *)
(* that moves between them and quotes that thin out.                       *)
(***************************************************************************)
EXTENDS PaperLedger, TLC

CONSTANT Skew       \* a strategy nobody implemented

(* An expiry is listed until a day before it. *)
Expiries == {3, 5}
Strikes == {10, 20}

(* A chain is named by its day, its forward and what is amiss with it.       *)
(*   thin      the calls of the front expiry have no bid                     *)
(*   dark      that, and the fit has no slice of the front expiry            *)
(*   crossed   our surface is not free of arbitrage                          *)
Shape(d, forward, amiss) == [day |-> d, forward |-> forward, amiss |-> amiss]

MCChains(d) == {Shape(d, 10, "nothing"), Shape(d, 20, "thin"), Shape(d, 20, "dark"),
                Shape(d, 10, "crossed")}

Dte(e, c) == e - c.day
ListedAt(c) == {e \in Expiries : Dte(e, c) >= 1}
FrontAt(c) == Min(ListedAt(c))

Worth(e, k, call, c) == Intrinsic(Option(e, k, call), c.forward)

MCQuotes(c) ==
    {[inst |-> Option(e, k, call), dte |-> Dte(e, c), forward |-> c.forward,
      bid  |-> IF c.amiss \in {"thin", "dark"} /\ e = FrontAt(c) /\ call
               THEN NULL ELSE Worth(e, k, call, c) + 3,
      ask  |-> Worth(e, k, call, c) + 5]
       : e \in ListedAt(c), k \in Strikes, call \in BOOLEAN}

MCSlices(c) == IF c.amiss = "dark" THEN ListedAt(c) \ {FrontAt(c)} ELSE ListedAt(c)
MCClean(c) == c.amiss # "crossed"

MCOurPrice(q) == Intrinsic(q.inst, q.forward) + 2
CallDelta(q) == IF q.inst.strike < q.forward THEN 90 ELSE IF q.inst.strike = q.forward THEN 60 ELSE 10
MCOurDelta(q) == IF q.inst.call THEN CallDelta(q) ELSE CallDelta(q) - 100

VrpRules(band) == [lo |-> 2, hi |-> 3, target |-> 2, closeBelow |-> 2, legs |-> 100,
                   hedged |-> TRUE, delta |-> 0, band |-> band]

File(sid, version, rules, supersedes) ==
    [sid |-> sid, version |-> version, rules |-> rules, supersedes |-> supersedes,
     complete |-> TRUE]

Vrp1 == File(Vrp, 1, VrpRules(5), NULL)
Vrp1Edited == File(Vrp, 1, VrpRules(30), NULL)
Vrp2 == File(Vrp, 2, VrpRules(30), Hash(Vrp1))
Vrp2Bump == File(Vrp, 2, VrpRules(30), NULL)
Vrp2Orphan == File(Vrp, 2, VrpRules(30), Hash(Vrp1Edited))
Hold1 == File(Hold, 1, [btc |-> 100], NULL)
HoldHalf == [Hold1 EXCEPT !.complete = FALSE]
Skew1 == File(Skew, 1, [btc |-> 0], NULL)

Both == {Vrp1, Hold1}

(* As shipped; without the context line; the rules superseded, or bumped     *)
(* without saying what they supersede; edited in place; superseding what was *)
(* never registered; a file that does not load; a strategy without an        *)
(* implementation; the weekly strategy taken out.                            *)
MCSpecDirs == {Both, {Vrp1}, {Vrp1, Vrp2}, {Vrp2Bump}, {Vrp1Edited, Hold1},
               {Vrp2Orphan, Hold1}, {Vrp1, HoldHalf}, {Vrp1, Hold1, Skew1}, {Hold1}}

Alone == {Vrp1}

=============================================================================
