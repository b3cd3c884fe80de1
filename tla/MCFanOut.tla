------------------------------ MODULE MCFanOut ------------------------------
(***************************************************************************)
(* A small instance of FanOut: two alerts of one owner with a limit of     *)
(* one, and a fit that is archived three times.                            *)
(***************************************************************************)
EXTENDS FanOut, TLC

CONSTANTS a1, a2, f1, f2, p1, p2, btc, today, butterfly, calendar

MCSettings ==
    a1 :> [kind |-> "executable_arb", currency |-> btc, min_edge |-> 2]
    @@ a2 :> [kind |-> "surface_integrity", currency |-> NULL, min_edge |-> 0]

(* One arbitrage of unknown size, one too small to be wanted, a broken fit. *)
MCSurfaces ==
    {[currency |-> btc, day |-> today, broken |-> TRUE,
      arbs |-> {[structure |-> butterfly, edge |-> NULL], [structure |-> calendar, edge |-> 1]}]}

(* No request inserts what there is no id left for. *)
IdsAreLeft == Cardinality(waiting) + Cardinality(used) <= Cardinality(Alerts)

Interchangeable == Permutations(Slots)

=============================================================================
