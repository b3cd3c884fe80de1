--------------------------- MODULE PaperBookProofs ---------------------------
(***************************************************************************)
(* What the operators of PaperBook do, for any fills, rules and marks: a   *)
(* sum over a book may be taken in any order, a day's fills move the book  *)
(* by what they say, and the weekly strategy leaves a whole straddle       *)
(* behind it, hedged inside its band.                                      *)
(*                                                                         *)
(* Sums are folds, so they are proved about by induction on the number of  *)
(* summands.  The induction is over the elements of a set of naturals and  *)
(* rests on the least element of its complement, which is first-order.     *)
(***************************************************************************)
EXTENDS PaperBook, FiniteSetTheorems, WellFoundedInduction, TLAPS

(* Induction over the naturals, stated of a set: every set of naturals that  *)
(* is not empty has a least one.                                             *)
LEMMA NatSetInduction ==
    ASSUME NEW A, 0 \in A, \A n \in Nat : n \in A => n + 1 \in A
    PROVE  Nat \subseteq A
<1> SUFFICES ASSUME Nat \ A # {}
             PROVE  FALSE
  OBVIOUS
<1> DEFINE R == OpToRel(<, Nat)
<1>1. IsWellFoundedOn(R, Nat)
  BY NatLessThanWellFounded
<1>2. \A x, y \in Nat : x < y => <<x, y>> \in R
  BY DEF OpToRel
<1> HIDE DEF R
<1>3. PICK x \in Nat \ A : \A y \in Nat \ A : <<y, x>> \notin R
  BY <1>1, WFMin
<1>4. x # 0 /\ x - 1 \in Nat /\ x - 1 < x
  BY <1>3
<1>5. x - 1 \in A
  BY <1>2, <1>3, <1>4
<1>6. (x - 1) + 1 = x
  BY <1>4
<1> QED BY <1>3, <1>4, <1>5, <1>6

-----------------------------------------------------------------------------
(* Sums.  SumFunction is a fold that takes out a chosen element at a time;   *)
(* what is proved of it is that any element may be taken out.                *)

Chosen(s) == CHOOSE x \in s : TRUE

Unrolled(F, f) ==
    F = [s \in SUBSET DOMAIN f |->
           IF s = {} THEN 0 ELSE f[Chosen(s)] + F[s \ {Chosen(s)}]]

(* The function on subsets that SumFunction is read off.                     *)
PartialSums(f) == CHOOSE F : Unrolled(F, f)

(* What the definitions of the community modules come to.                    *)
LEMMA SumIsPartial ==
    ASSUME NEW f
    PROVE  SumFunction(f) = PartialSums(f)[DOMAIN f]
BY Zenon DEF SumFunction, SumFunctionOnSet, FoldFunctionOnSet, MapThenFoldSet, Unrolled,
             Chosen, PartialSums

(* The recursion defines a function on the subsets of a finite domain: one   *)
(* exists on those of at most n elements, for every n.                       *)
LEMMA PartialSumsUnrolled ==
    ASSUME NEW f, IsFiniteSet(DOMAIN f)
    PROVE  Unrolled(PartialSums(f), f)
<1> DEFINE D == DOMAIN f
           Small(n) == {s \in SUBSET D : Cardinality(s) <= n}
           Step(F, s) == IF s = {} THEN 0 ELSE f[Chosen(s)] + F[s \ {Chosen(s)}]
           A == {n \in Nat : \E F : F = [s \in Small(n) |-> Step(F, s)]}
<1>1. 0 \in A
  <2>1. \A s \in Small(0) : s = {}
    BY FS_EmptySet, FS_Subset, FS_CardinalityType
  <2>2. [s \in Small(0) |-> 0] = [s \in Small(0) |-> Step([t \in Small(0) |-> 0], s)]
    BY <2>1
  <2> QED BY <2>2
<1>2. ASSUME NEW n \in Nat, n \in A
      PROVE  n + 1 \in A
  <2>1. PICK F : F = [s \in Small(n) |-> Step(F, s)]
    BY <1>2
  <2> DEFINE G == [s \in Small(n + 1) |-> Step(F, s)]
  <2>2. \A s \in Small(n + 1) : s # {} => s \ {Chosen(s)} \in Small(n)
    <3> SUFFICES ASSUME NEW s \in Small(n + 1), s # {}
                 PROVE  s \ {Chosen(s)} \in Small(n)
      OBVIOUS
    <3>1. Chosen(s) \in s
      BY DEF Chosen
    <3>2. IsFiniteSet(s) /\ Cardinality(s) \in Nat
      BY FS_Subset, FS_CardinalityType
    <3>3. Cardinality(s \ {Chosen(s)}) = Cardinality(s) - 1
      BY <3>1, <3>2, FS_RemoveElement
    <3> QED BY <3>2, <3>3
  <2>3. \A s \in Small(n) : s \in Small(n + 1) /\ G[s] = F[s]
    <3>1. \A s \in Small(n) : s \in Small(n + 1)
      BY FS_Subset, FS_CardinalityType
    <3>2. \A s \in Small(n) : F[s] = Step(F, s)
      BY <2>1
    <3> QED BY <3>1, <3>2
  <2>4. \A s \in Small(n + 1) : Step(F, s) = Step(G, s)
    BY <2>2, <2>3
  <2>5. G = [s \in Small(n + 1) |-> Step(G, s)]
    BY <2>4
  <2> HIDE DEF G, Small, Step
  <2> QED BY <2>5
<1>3. Cardinality(D) \in A /\ Cardinality(D) \in Nat
  BY <1>1, <1>2, NatSetInduction, FS_CardinalityType
<1>4. Small(Cardinality(D)) = SUBSET D
  BY FS_Subset
<1>5. PICK F : F = [s \in SUBSET D |-> Step(F, s)]
  BY <1>3, <1>4
<1>6. \E P : Unrolled(P, f)
  BY <1>5 DEF Unrolled
<1> QED BY <1>6 DEF PartialSums

(* Any element of a set may be taken out of its sum.                         *)
LEMMA PartialSumsAnyOrder ==
    ASSUME NEW f, IsFiniteSet(DOMAIN f), \A x \in DOMAIN f : f[x] \in Int,
           NEW S \in SUBSET DOMAIN f
    PROVE  /\ PartialSums(f)[S] \in Int
           /\ S = {} => PartialSums(f)[S] = 0
           /\ \A a \in S : PartialSums(f)[S] = f[a] + PartialSums(f)[S \ {a}]
<1> DEFINE D == DOMAIN f
           F == PartialSums(f)
           Good(s) == /\ F[s] \in Int
                      /\ \A a \in s : F[s] = f[a] + F[s \ {a}]
           A == {n \in Nat : \A s \in SUBSET D : Cardinality(s) <= n => Good(s)}
<1>0. /\ F[{}] = 0
      /\ \A s \in SUBSET D : s # {} => F[s] = f[Chosen(s)] + F[s \ {Chosen(s)}]
  BY PartialSumsUnrolled DEF Unrolled
<1> HIDE DEF F
<1>g. Good({})
  BY <1>0
<1>1. 0 \in A
  <2>1. \A s \in SUBSET D : Cardinality(s) <= 0 => s = {}
    BY FS_EmptySet, FS_Subset, FS_CardinalityType
  <2> HIDE DEF Good
  <2> QED BY <1>g, <2>1
<1>2. ASSUME NEW n \in Nat, n \in A
      PROVE  n + 1 \in A
  <2> SUFFICES ASSUME NEW s \in SUBSET D, Cardinality(s) <= n + 1, s # {}
               PROVE  Good(s)
    <3> HIDE DEF Good
    <3> QED BY <1>g
  <2> DEFINE x == Chosen(s)
  <2>1. x \in s /\ F[s] = f[x] + F[s \ {x}]
    BY <1>0 DEF Chosen
  <2> HIDE DEF x
  <2>2. \A a \in s : Good(s \ {a})
    <3> SUFFICES ASSUME NEW a \in s
                 PROVE  Good(s \ {a})
      OBVIOUS
    <3>1. IsFiniteSet(s) /\ Cardinality(s) \in Nat
      BY FS_Subset, FS_CardinalityType
    <3>2. Cardinality(s \ {a}) = Cardinality(s) - 1
      BY <3>1, FS_RemoveElement
    <3>3. Cardinality(s \ {a}) <= n
      BY <3>1, <3>2
    <3> QED BY <1>2, <3>3
  <2>3. f[x] \in Int /\ F[s \ {x}] \in Int
    BY <2>1, <2>2
  <2>4. F[s] \in Int
    BY <2>1, <2>3
  <2>5. ASSUME NEW a \in s
        PROVE  F[s] = f[a] + F[s \ {a}]
    <3>1. CASE a = x
      BY <2>1, <3>1
    <3>2. CASE a # x
      <4>1. F[s \ {x}] = f[a] + F[(s \ {x}) \ {a}]
        BY <2>1, <2>2, <2>5, <3>2
      <4>2. F[s \ {a}] = f[x] + F[(s \ {a}) \ {x}]
        BY <2>1, <2>2, <2>5, <3>2
      <4>3. (s \ {x}) \ {a} = (s \ {a}) \ {x}
        OBVIOUS
      <4>4. F[(s \ {a}) \ {x}] \in Int /\ f[a] \in Int
        <5>1. Good(s \ {a})
          BY <2>5, <2>2
        <5>2. Cardinality((s \ {a}) \ {x}) <= n
          <6>1. IsFiniteSet(s) /\ Cardinality(s) \in Nat
            BY FS_Subset, FS_CardinalityType
          <6>2. IsFiniteSet(s \ {a}) /\ Cardinality(s \ {a}) = Cardinality(s) - 1
            BY <2>5, <6>1, FS_RemoveElement
          <6>3. Cardinality((s \ {a}) \ {x}) = Cardinality(s \ {a}) - 1
            BY <2>1, <3>2, <6>2, FS_RemoveElement
          <6> QED BY <6>1, <6>2, <6>3
        <5> QED BY <1>2, <5>2
      <4> DEFINE rest == F[(s \ {a}) \ {x}]
      <4>5. F[s] = f[x] + (f[a] + rest) /\ F[s \ {a}] = f[x] + rest
        BY <2>1, <4>1, <4>2, <4>3
      <4>6. rest \in Int /\ f[a] \in Int /\ f[x] \in Int
        BY <2>3, <4>4
      <4> HIDE DEF rest
      <4> QED BY <4>5, <4>6
    <3> QED BY <3>1, <3>2
  <2> QED BY <2>4, <2>5
<1>3. IsFiniteSet(S) /\ Cardinality(S) \in Nat
  BY FS_Subset, FS_CardinalityType
<1>4. Cardinality(S) \in A
  BY <1>1, <1>2, <1>3, NatSetInduction
<1>5. Good(S)
  <2> HIDE DEF Good
  <2> QED BY <1>3, <1>4
<1> QED BY <1>0, <1>5 DEF F

(* A function with fewer arguments has the same sums on its own subsets.     *)
LEMMA PartialSumsRestrict ==
    ASSUME NEW f, IsFiniteSet(DOMAIN f), NEW E \in SUBSET DOMAIN f
    PROVE  \A S \in SUBSET E : PartialSums([x \in E |-> f[x]])[S] = PartialSums(f)[S]
<1> DEFINE g == [x \in E |-> f[x]]
           F == PartialSums(f)
           G == PartialSums(g)
           A == {n \in Nat : \A s \in SUBSET E : Cardinality(s) <= n => G[s] = F[s]}
<1>0. IsFiniteSet(E)
  BY FS_Subset
<1>1. /\ F[{}] = 0
      /\ \A s \in SUBSET E : s # {} => F[s] = f[Chosen(s)] + F[s \ {Chosen(s)}]
  BY PartialSumsUnrolled DEF Unrolled
<1>2. /\ G[{}] = 0
      /\ \A s \in SUBSET E : s # {} => G[s] = g[Chosen(s)] + G[s \ {Chosen(s)}]
  <2>1. DOMAIN g = E
    OBVIOUS
  <2> HIDE DEF g
  <2>2. Unrolled(G, g)
    BY <1>0, <2>1, PartialSumsUnrolled
  <2> QED BY <2>1, <2>2 DEF Unrolled
<1> HIDE DEF F, G
<1>3. 0 \in A
  <2>1. \A s \in SUBSET E : Cardinality(s) <= 0 => s = {}
    BY <1>0, FS_EmptySet, FS_Subset, FS_CardinalityType
  <2> QED BY <1>1, <1>2, <2>1
<1>4. ASSUME NEW n \in Nat, n \in A
      PROVE  n + 1 \in A
  <2> SUFFICES ASSUME NEW s \in SUBSET E, Cardinality(s) <= n + 1, s # {}
               PROVE  G[s] = F[s]
    <3>1. n + 1 \in Nat /\ G[{}] = F[{}]
      BY <1>1, <1>2
    <3> HIDE DEF g
    <3> QED BY <3>1
  <2>1. Chosen(s) \in s
    BY DEF Chosen
  <2>2. IsFiniteSet(s) /\ Cardinality(s) \in Nat
    BY <1>0, FS_Subset, FS_CardinalityType
  <2>3. Cardinality(s \ {Chosen(s)}) = Cardinality(s) - 1
    BY <2>1, <2>2, FS_RemoveElement
  <2>4. Cardinality(s \ {Chosen(s)}) <= n
    BY <2>2, <2>3
  <2>5. G[s \ {Chosen(s)}] = F[s \ {Chosen(s)}]
    BY <1>4, <2>4
  <2>6. g[Chosen(s)] = f[Chosen(s)]
    BY <2>1
  <2> QED BY <1>1, <1>2, <2>5, <2>6
<1>5. ASSUME NEW S \in SUBSET E
      PROVE  G[S] = F[S]
  <2>1. IsFiniteSet(S) /\ Cardinality(S) \in Nat
    BY <1>0, FS_Subset, FS_CardinalityType
  <2>2. Cardinality(S) \in A
    BY <1>3, <1>4, <2>1, NatSetInduction
  <2> QED BY <2>1, <2>2
<1> QED BY <1>5 DEF F, G

(* A sum of integers is an integer, nought of nothing, and any summand may   *)
(* be taken out of it.                                                       *)
LEMMA SumTakesOut ==
    ASSUME NEW f, IsFiniteSet(DOMAIN f), \A x \in DOMAIN f : f[x] \in Int
    PROVE  /\ SumFunction(f) \in Int
           /\ DOMAIN f = {} => SumFunction(f) = 0
           /\ \A a \in DOMAIN f :
                 SumFunction(f) = f[a] + SumFunction([x \in DOMAIN f \ {a} |-> f[x]])
<1>1. /\ SumFunction(f) \in Int
      /\ DOMAIN f = {} => SumFunction(f) = 0
  BY SumIsPartial, PartialSumsAnyOrder
<1>2. ASSUME NEW a \in DOMAIN f
      PROVE  SumFunction(f) = f[a] + SumFunction([x \in DOMAIN f \ {a} |-> f[x]])
  <2> DEFINE E == DOMAIN f \ {a}
             g == [x \in E |-> f[x]]
  <2>1. SumFunction(f) = f[a] + PartialSums(f)[E]
    BY SumIsPartial, PartialSumsAnyOrder
  <2>2. SumFunction(g) = PartialSums(g)[E]
    BY SumIsPartial
  <2>3. PartialSums(g)[E] = PartialSums(f)[E]
    BY PartialSumsRestrict
  <2> QED BY <2>1, <2>2, <2>3
<1> QED BY <1>1, <1>2

(* A sum of one summand.                                                     *)
LEMMA SumOfOne ==
    ASSUME NEW f, NEW a, DOMAIN f = {a}, f[a] \in Int
    PROVE  SumFunction(f) = f[a]
<1> DEFINE g == [x \in DOMAIN f \ {a} |-> f[x]]
<1>0. IsFiniteSet(DOMAIN f) /\ a \in DOMAIN f /\ \A x \in DOMAIN f : f[x] \in Int
  BY FS_Singleton
<1>1. SumFunction(f) = f[a] + SumFunction(g)
  BY <1>0, SumTakesOut
<1>2. DOMAIN g = {} /\ \A x \in DOMAIN g : g[x] \in Int
  OBVIOUS
<1> HIDE DEF g
<1>3. SumFunction(g) = 0
  BY <1>2, FS_EmptySet, SumTakesOut
<1> QED BY <1>1, <1>3

(* A sum of two.                                                             *)
LEMMA SumOfTwo ==
    ASSUME NEW f, NEW a, NEW b, a # b, DOMAIN f = {a, b}, f[a] \in Int, f[b] \in Int
    PROVE  SumFunction(f) = f[a] + f[b]
<1> DEFINE g == [x \in DOMAIN f \ {a} |-> f[x]]
<1>1. IsFiniteSet({a, b})
  <2>1. {a, b} = {a} \union {b}
    OBVIOUS
  <2>2. IsFiniteSet({a})
    BY FS_Singleton
  <2>3. IsFiniteSet({a} \union {b})
    BY <2>2, FS_AddElement
  <2> QED BY <2>1, <2>3
<1>2. SumFunction(f) = f[a] + SumFunction(g)
  <2>1. IsFiniteSet(DOMAIN f) /\ a \in DOMAIN f /\ \A x \in DOMAIN f : f[x] \in Int
    BY <1>1
  <2> QED BY <2>1, SumTakesOut
<1>3. DOMAIN g = {b} /\ g[b] = f[b]
  OBVIOUS
<1> HIDE DEF g
<1>4. SumFunction(g) = f[b]
  BY <1>3, SumOfOne
<1> QED BY <1>2, <1>4

-----------------------------------------------------------------------------
(* A book replayed from fills.                                               *)

(* What an instrument is, by its label.                                      *)
IsOption(i) == i = Option(i.expiry, i.strike, i.call) /\ i.call \in BOOLEAN
IsFuture(i) == i = Future(i.expiry)

(* Rows of the trades ledger: finitely many, in whole quantities.            *)
SoundTrades(trades) ==
    /\ IsFiniteSet(trades)
    /\ \A t \in trades :
          t.id.qty \in Int /\ (IsOption(t.id.inst) \/ IsFuture(t.id.inst))

(* A book holds what its fills do not net to nothing of: portfolio.replay.   *)
LEMMA ReplayHolds ==
    ASSUME NEW trades, SoundTrades(trades), NEW inst
    PROVE  /\ Net(trades, inst) \in Int
           /\ inst \in Held(Replay(trades)) <=> Net(trades, inst) # 0
           /\ inst \in Held(Replay(trades)) =>
                 /\ Replay(trades).qty[inst] = Net(trades, inst)
                 /\ IsOption(inst) \/ IsFuture(inst)
<1> DEFINE of == {u \in trades : u.id.inst = inst}
           f == [t \in of |-> t.id.qty]
<1>1. Net(trades, inst) = SumFunction(f)
  BY DEF Net
<1>2. DOMAIN f = of /\ IsFiniteSet(of) /\ \A t \in of : f[t] \in Int
  BY FS_Subset DEF SoundTrades
<1> HIDE DEF f
<1>3. /\ Net(trades, inst) \in Int
      /\ of = {} => Net(trades, inst) = 0
  BY <1>1, <1>2, SumTakesOut
<1>4. Held(Replay(trades)) = {i \in {t.id.inst : t \in trades} : Net(trades, i) # 0}
  BY DEF Held, Replay
<1>5. of # {} <=> inst \in {t.id.inst : t \in trades}
  OBVIOUS
<1>6. inst \in Held(Replay(trades)) => Replay(trades).qty[inst] = Net(trades, inst)
  BY DEF Held, Replay
<1>7. inst \in Held(Replay(trades)) => IsOption(inst) \/ IsFuture(inst)
  BY <1>4 DEF SoundTrades
<1> QED BY <1>3, <1>4, <1>5, <1>6, <1>7

(* Fills a strategy may ask for: whole numbers, of one option or forward     *)
(* each.                                                                     *)
SoundFills(fills) ==
    /\ IsFiniteSet(fills)
    /\ \A t \in fills : t.qty \in Int /\ (IsOption(t.inst) \/ IsFuture(t.inst))
    /\ \A t, u \in fills : t.inst = u.inst => t = u

(* A set in some order: every element has one place.                         *)
LEMMA SetToSeqIsBijective ==
    ASSUME NEW S, IsFiniteSet(S)
    PROVE  /\ DOMAIN SetToSeq(S) = 1..Cardinality(S) /\ Cardinality(S) \in Nat
           /\ \A i \in DOMAIN SetToSeq(S) : SetToSeq(S)[i] \in S
           /\ \A i, j \in DOMAIN SetToSeq(S) : SetToSeq(S)[i] = SetToSeq(S)[j] => i = j
           /\ \A x \in S : \E i \in DOMAIN SetToSeq(S) : SetToSeq(S)[i] = x
<1> DEFINE n == Cardinality(S)
<1>1. n \in Nat /\ ExistsBijection(1..n, S)
  BY FS_CardinalityType
<1>2. \E f \in [1..n -> S] : IsInjective(f)
  BY <1>1 DEF ExistsBijection, Bijection, Injection, IsInjective
<1>3. SetToSeq(S) \in [1..n -> S] /\ IsInjective(SetToSeq(S))
  BY <1>2 DEF SetToSeq
<1>4. SetToSeq(S) \in Injection(1..n, S)
  BY <1>3 DEF Injection
<1>5. Cardinality(1..n) = n
  BY <1>1, FS_Interval
<1>6. SetToSeq(S) \in Surjection(1..n, S)
  BY <1>4, <1>5, FS_Injection
<1> QED BY <1>1, <1>3, <1>6 DEF Surjection, IsInjective

(* Rows and fills are one for one, whatever order they were numbered in.     *)
LEMMA RowsOfFills ==
    ASSUME NEW sid, NEW hash, NEW d, NEW base, NEW fills, SoundFills(fills)
    PROVE  LET rows == TradeRows(sid, hash, d, base, fills)
           IN  /\ SoundTrades(rows)
               /\ \A r \in rows : \E t \in fills : r.id.inst = t.inst /\ r.id.qty = t.qty
               /\ \A t \in fills : \E r \in rows : r.id.inst = t.inst /\ r.id.qty = t.qty
               /\ \A r, other \in rows : r.id.inst = other.id.inst => r = other
<1> DEFINE order == SetToSeq(fills)
           row(i) == TradeRow(sid, hash, d, base + i - 1, order[i])
           rows == {row(i) : i \in DOMAIN order}
<1>1. /\ DOMAIN order = 1..Cardinality(fills) /\ Cardinality(fills) \in Nat
      /\ \A i \in DOMAIN order : order[i] \in fills
      /\ \A x \in fills : \E i \in DOMAIN order : order[i] = x
      /\ \A i, j \in DOMAIN order : order[i] = order[j] => i = j
  BY SetToSeqIsBijective DEF SoundFills
<1>2. TradeRows(sid, hash, d, base, fills) = rows
  BY DEF TradeRows
<1> HIDE DEF order
<1>3. \A i : row(i).id.inst = order[i].inst /\ row(i).id.qty = order[i].qty
  BY DEF TradeRow
<1> HIDE DEF row
<1>4. IsFiniteSet(rows)
  <2> DEFINE f == [i \in DOMAIN order |-> row(i)]
  <2>1. f \in Surjection(DOMAIN order, rows)
    BY DEF Surjection
  <2>2. IsFiniteSet(DOMAIN order)
    BY <1>1, FS_Interval
  <2> QED BY <2>1, <2>2, FS_Surjection
<1>5. \A r \in rows : \E t \in fills : r.id.inst = t.inst /\ r.id.qty = t.qty
  BY <1>1, <1>3
<1>6. \A t \in fills : \E r \in rows : r.id.inst = t.inst /\ r.id.qty = t.qty
  BY <1>1, <1>3
<1>7. \A r, other \in rows : r.id.inst = other.id.inst => r = other
  <2> SUFFICES ASSUME NEW i \in DOMAIN order, NEW j \in DOMAIN order,
                      row(i).id.inst = row(j).id.inst
               PROVE  row(i) = row(j)
    OBVIOUS
  <2>1. order[i] = order[j]
    BY <1>1, <1>3 DEF SoundFills
  <2> QED BY <1>1, <2>1
<1>8. SoundTrades(rows)
  BY <1>4, <1>5 DEF SoundTrades, SoundFills
<1> QED BY <1>2, <1>5, <1>6, <1>7, <1>8

(* A day's fills carried out: each moves its instrument by its quantity and  *)
(* no other instrument moves.                                                *)
Moved(trades, fills, after) ==
    /\ SoundTrades(after)
    /\ \A t \in fills : Net(after, t.inst) = Net(trades, t.inst) + t.qty
    /\ \A inst : (\A t \in fills : t.inst # inst) => Net(after, inst) = Net(trades, inst)

(* That is what appending a day's rows does to the book they replay to:      *)
(* portfolio.replay.                                                         *)
THEOREM FillsMoveTheBook ==
    ASSUME NEW trades, SoundTrades(trades),
           NEW sid, NEW hash, NEW d, NEW base, NEW fills, SoundFills(fills),
           TradeRows(sid, hash, d, base, fills) \intersect trades = {}
    PROVE  Moved(trades, fills, trades \union TradeRows(sid, hash, d, base, fills))
<1> DEFINE rows == TradeRows(sid, hash, d, base, fills)
           after == trades \union rows
           of(T, inst) == {u \in T : u.id.inst = inst}
           sum(T, inst) == [t \in of(T, inst) |-> t.id.qty]
<1>1. /\ SoundTrades(rows)
      /\ \A r \in rows : \E t \in fills : r.id.inst = t.inst /\ r.id.qty = t.qty
      /\ \A t \in fills : \E r \in rows : r.id.inst = t.inst /\ r.id.qty = t.qty
      /\ \A r, other \in rows : r.id.inst = other.id.inst => r = other
  BY RowsOfFills
<1>2. rows \intersect trades = {}
  OBVIOUS
<1> HIDE DEF rows
<1>3. SoundTrades(after)
  BY <1>1, FS_Union DEF SoundTrades
<1>4. \A T, inst : Net(T, inst) = SumFunction(sum(T, inst))
  BY DEF Net
<1>5. ASSUME NEW inst, \A t \in fills : t.inst # inst
      PROVE  Net(after, inst) = Net(trades, inst)
  <2>1. of(after, inst) = of(trades, inst)
    BY <1>1, <1>5
  <2> QED BY <1>4, <2>1
<1>6. ASSUME NEW t \in fills
      PROVE  Net(after, t.inst) = Net(trades, t.inst) + t.qty
  <2>1. PICK r \in rows : r.id.inst = t.inst /\ r.id.qty = t.qty
    BY <1>1
  <2> DEFINE f == sum(after, t.inst)
  <2>2. r \in of(after, t.inst) /\ of(after, t.inst) \ {r} = of(trades, t.inst)
    BY <1>1, <1>2, <2>1
  <2>3. DOMAIN f = of(after, t.inst) /\ f[r] = t.qty
    BY <2>1, <2>2
  <2>4. IsFiniteSet(of(after, t.inst)) /\ \A u \in of(after, t.inst) : f[u] \in Int
    BY <1>3, FS_Subset DEF SoundTrades
  <2>5. [u \in DOMAIN f \ {r} |-> f[u]] = sum(trades, t.inst)
    BY <2>2
  <2>6. SumFunction(f) = f[r] + SumFunction([u \in DOMAIN f \ {r} |-> f[u]])
    <3> HIDE DEF f, of
    <3> QED BY <2>2, <2>3, <2>4, SumTakesOut
  <2>7. Net(trades, t.inst) \in Int /\ t.qty \in Int
    BY ReplayHolds DEF SoundFills
  <2> HIDE DEF f, sum
  <2> QED BY <1>4, <2>3, <2>5, <2>6, <2>7 DEF f
<1> QED BY <1>3, <1>5, <1>6 DEF rows, Moved

-----------------------------------------------------------------------------
(* The weekly strategy.                                                      *)

(* The other option of a strike.                                             *)
Twin(leg) == [leg EXCEPT !.call = ~leg.call]

(* A straddle and its hedge, or nothing.                                     *)
Whole(book) ==
    \/ Held(book) = {}
    \/ \E leg \in OpenOptions(book) :
          /\ OpenOptions(book) = {leg, Twin(leg)}
          /\ book.qty[leg] < 0 /\ book.qty[Twin(leg)] = book.qty[leg]
          /\ OpenFutures(book) \subseteq {Future(leg.expiry)}

(* What a hedged straddle is held to, once our surface has a delta for it.   *)
InsideTheBand(book, rules, marks) ==
    OpenOptions(book) # {} /\ rules.hedged
        /\ (\A i \in OpenOptions(book) : RowOf(i, marks).fitted) =>
    Abs(OptionDelta(book, marks)
        + SumFunction([f \in OpenFutures(book) |-> book.qty[f]]) - rules.delta) < rules.band

(* A venue lists each option once, with its twin, and an expiry has one      *)
(* time to run.                                                              *)
SoundMarks(marks) ==
    \A r \in marks :
        /\ IsOption(r.inst)
        /\ r.fitted => r.delta \in Int
        /\ Listed(Twin(r.inst), marks)
        /\ \A other \in marks :
              /\ other.inst = r.inst => other = r
              /\ other.inst.expiry = r.inst.expiry => other.dte = r.dte

(* A straddle has a size and its band is open.                               *)
SoundRules(rules) ==
    /\ rules.legs \in Nat \ {0}
    /\ rules.band \in Nat \ {0}
    /\ rules.delta \in Int

(* The twin of an option is the other option of its strike.                  *)
LEMMA TwinIs ==
    ASSUME NEW leg, IsOption(leg)
    PROVE  /\ IsOption(Twin(leg)) /\ Twin(Twin(leg)) = leg /\ Twin(leg) # leg
           /\ Twin(leg).expiry = leg.expiry /\ Twin(leg).strike = leg.strike
           /\ Twin(leg).call = ~leg.call /\ Twin(leg).kind = "option" /\ leg.kind = "option"
<1>1. \A i : IsOption(i) => Twin(i) = Option(i.expiry, i.strike, ~i.call)
  BY DEF Twin, IsOption, Option
<1>2. Twin(leg).call = ~leg.call /\ Twin(leg).expiry = leg.expiry
      /\ Twin(leg).strike = leg.strike /\ Twin(leg).kind = "option" /\ leg.kind = "option"
  BY <1>1 DEF Option, IsOption
<1>3. IsOption(Twin(leg)) /\ Twin(leg) # leg
  BY <1>1, <1>2 DEF IsOption
<1>4. Twin(Twin(leg)) = Option(leg.expiry, leg.strike, ~~leg.call)
  BY <1>1, <1>2, <1>3
<1>5. (~~leg.call) = leg.call
  BY DEF IsOption
<1>6. Twin(Twin(leg)) = leg
  BY <1>4, <1>5 DEF IsOption
<1> QED BY <1>2, <1>3, <1>6

(* The row of a listed instrument is its own.                                *)
LEMMA RowOfListed ==
    ASSUME NEW marks, SoundMarks(marks)
    PROVE  /\ \A i : Listed(i, marks) => RowOf(i, marks) \in marks /\ RowOf(i, marks).inst = i
           /\ \A r \in marks : Listed(r.inst, marks) /\ RowOf(r.inst, marks) = r
<1>1. \A i : Listed(i, marks) => RowOf(i, marks) \in marks /\ RowOf(i, marks).inst = i
  BY DEF Listed, RowOf
<1>2. \A r \in marks : Listed(r.inst, marks)
  BY DEF Listed
<1> QED BY <1>1, <1>2 DEF SoundMarks

(* Both legs of a straddle expire, or neither.                               *)
LEMMA TwinsExpireTogether ==
    ASSUME NEW rules, NEW book, NEW marks, SoundMarks(marks),
           NEW leg, IsOption(leg), OpenOptions(book) = {leg, Twin(leg)}
    PROVE  Expiring(rules, book, marks) \in {{}, {leg, Twin(leg)}}
<1> DEFINE dte(i) == IF Listed(i, marks) THEN RowOf(i, marks).dte ELSE -1
<1>1. \A i : IsOption(i) /\ Listed(i, marks) => Listed(Twin(i), marks)
  BY RowOfListed DEF SoundMarks
<1>2. Listed(leg, marks) <=> Listed(Twin(leg), marks)
  BY <1>1, TwinIs
<1>3. Listed(leg, marks) => RowOf(leg, marks).dte = RowOf(Twin(leg), marks).dte
  BY <1>2, RowOfListed, TwinIs DEF SoundMarks
<1>4. dte(leg) = dte(Twin(leg))
  BY <1>2, <1>3
<1>5. Expiring(rules, book, marks)
         = {i \in {leg, Twin(leg)} : dte(i) < rules.closeBelow}
  BY DEF Expiring
<1> HIDE DEF dte
<1> QED BY <1>4, <1>5

(* What nets to nothing is not held, and the options and forwards of a book  *)
(* are what it holds.                                                        *)
LEMMA BookOfNet ==
    ASSUME NEW trades, SoundTrades(trades)
    PROVE  LET book == Replay(trades)
           IN  /\ Held(book) = OpenOptions(book) \union OpenFutures(book)
               /\ \A i \in Held(book) : IsOption(i) \/ IsFuture(i)
               /\ \A i \in OpenOptions(book) : IsOption(i)
               /\ \A i \in OpenFutures(book) : IsFuture(i)
               /\ \A i : i \in Held(book) <=> Net(trades, i) # 0
               /\ \A i \in Held(book) : book.qty[i] = Net(trades, i)
               /\ \A i : Net(trades, i) \in Int
<1> DEFINE book == Replay(trades)
<1>1. /\ \A i : i \in Held(book) <=> Net(trades, i) # 0
      /\ \A i \in Held(book) : book.qty[i] = Net(trades, i)
      /\ \A i : Net(trades, i) \in Int
      /\ \A i \in Held(book) : IsOption(i) \/ IsFuture(i)
  BY ReplayHolds
<1> HIDE DEF book
<1>2. \A i : (IsOption(i) => i.kind = "option") /\ (IsFuture(i) => i.kind = "future")
  BY DEF IsOption, IsFuture, Option, Future
<1> QED BY <1>1, <1>2 DEF book, OpenOptions, OpenFutures

(* A book of nothing but two short legs alike and a forward of their expiry  *)
(* is whole.                                                                 *)
LEMMA WholeFromNet ==
    ASSUME NEW trades, SoundTrades(trades), NEW leg, IsOption(leg),
           Net(trades, leg) < 0, Net(trades, Twin(leg)) = Net(trades, leg),
           \A i : i \notin {leg, Twin(leg), Future(leg.expiry)} => Net(trades, i) = 0
    PROVE  LET book == Replay(trades)
           IN  /\ Whole(book)
               /\ OpenOptions(book) = {leg, Twin(leg)}
               /\ book.qty[leg] = Net(trades, leg) /\ book.qty[Twin(leg)] = Net(trades, leg)
               /\ OpenFutures(book) \subseteq {Future(leg.expiry)}
<1> DEFINE book == Replay(trades)
<1>1. /\ Held(book) = OpenOptions(book) \union OpenFutures(book)
      /\ \A i \in Held(book) : IsOption(i) \/ IsFuture(i)
      /\ \A i : i \in Held(book) <=> Net(trades, i) # 0
      /\ \A i \in Held(book) : book.qty[i] = Net(trades, i)
      /\ \A i : Net(trades, i) \in Int
  BY BookOfNet
<1> HIDE DEF book
<1>2. leg \in Held(book) /\ Twin(leg) \in Held(book)
  BY <1>1
<1>3. leg.kind = "option" /\ Twin(leg).kind = "option" /\ Future(leg.expiry).kind = "future"
  BY TwinIs DEF Future
<1>4. Held(book) \subseteq {leg, Twin(leg), Future(leg.expiry)}
  BY <1>1
<1>5. OpenOptions(book) = {leg, Twin(leg)} /\ OpenFutures(book) \subseteq {Future(leg.expiry)}
  BY <1>2, <1>3, <1>4 DEF OpenOptions, OpenFutures
<1>6. book.qty[leg] = Net(trades, leg) /\ book.qty[Twin(leg)] = Net(trades, leg)
  BY <1>1, <1>2
<1>7. Whole(book)
  BY <1>5, <1>6 DEF Whole
<1> QED BY <1>5, <1>6, <1>7 DEF book

(* The delta of a book depends on its open options only, and is a number.    *)
LEMMA OptionDeltaOfLegs ==
    ASSUME NEW book, NEW marks, SoundMarks(marks), NEW leg, NEW other,
           OpenOptions(book) = {leg, other}, book.qty[leg] \in Int, book.qty[other] \in Int
    PROVE  OptionDelta(book, marks) \in Int
<1> DEFINE seen == {i \in OpenOptions(book) : Listed(i, marks) /\ RowOf(i, marks).fitted}
           f == [i \in seen |-> (book.qty[i] * RowOf(i, marks).delta) \div 100]
<1>1. OptionDelta(book, marks) = SumFunction(f)
  BY DEF OptionDelta
<1>2. IsFiniteSet(seen)
  <2>1. IsFiniteSet({leg})
    BY FS_Singleton
  <2>2. IsFiniteSet({leg} \union {other})
    BY <2>1, FS_AddElement
  <2>3. seen \subseteq {leg} \union {other}
    OBVIOUS
  <2> HIDE DEF seen
  <2> QED BY <2>2, <2>3, FS_Subset
<1>3. \A i \in seen : f[i] \in Int
  <2> SUFFICES ASSUME NEW i \in seen
               PROVE  f[i] \in Int
    OBVIOUS
  <2>1. RowOf(i, marks).delta \in Int
    BY RowOfListed DEF SoundMarks
  <2>2. book.qty[i] \in Int
    OBVIOUS
  <2>3. book.qty[i] * RowOf(i, marks).delta \in Int
    BY <2>1, <2>2
  <2>4. (book.qty[i] * RowOf(i, marks).delta) \div 100 \in Int
    BY <2>3
  <2> QED BY <2>4
<1>4. DOMAIN f = seen
  OBVIOUS
<1> HIDE DEF f, seen
<1> QED BY <1>1, <1>2, <1>3, <1>4, SumTakesOut

(* So it stays where the open options do.                                    *)
LEMMA OptionDeltaUnmoved ==
    ASSUME NEW book, NEW after, NEW marks, OpenOptions(after) = OpenOptions(book),
           \A i \in OpenOptions(book) : after.qty[i] = book.qty[i]
    PROVE  OptionDelta(after, marks) = OptionDelta(book, marks)
BY DEF OptionDelta

(* The forwards of a book that may hold only one of them.                    *)
LEMMA ForwardsOfOne ==
    ASSUME NEW trades, SoundTrades(trades), NEW fwd,
           OpenFutures(Replay(trades)) \subseteq {fwd}, IsFuture(fwd)
    PROVE  SumFunction([f \in OpenFutures(Replay(trades)) |-> Replay(trades).qty[f]])
             = Net(trades, fwd)
<1> DEFINE book == Replay(trades)
           g == [f \in OpenFutures(book) |-> book.qty[f]]
<1>1. /\ fwd \in Held(book) <=> Net(trades, fwd) # 0
      /\ fwd \in Held(book) => book.qty[fwd] = Net(trades, fwd)
      /\ Net(trades, fwd) \in Int
  BY BookOfNet
<1>2. fwd \in OpenFutures(book) <=> fwd \in Held(book)
  BY DEF OpenFutures, IsFuture, Future
<1>3. CASE fwd \in Held(book)
  <2>1. DOMAIN g = {fwd} /\ g[fwd] = Net(trades, fwd)
    BY <1>1, <1>2, <1>3
  <2> HIDE DEF g
  <2>2. SumFunction(g) = Net(trades, fwd)
    BY <1>1, <2>1, SumOfOne
  <2> QED BY <2>2 DEF g
<1>4. CASE fwd \notin Held(book)
  <2>1. DOMAIN g = {} /\ Net(trades, fwd) = 0
    BY <1>1, <1>2, <1>4
  <2> HIDE DEF g
  <2>2. SumFunction(g) = 0
    BY <2>1, FS_EmptySet, SumTakesOut
  <2> QED BY <2>1, <2>2 DEF g
<1> QED BY <1>3, <1>4

(* The hedge trades the difference to what is held, or nothing inside the    *)
(* band: strategies._hedge.                                                  *)
LEMMA HedgeTradesTheDifference ==
    ASSUME NEW trades, SoundTrades(trades), NEW rules, NEW delta, NEW expiry, NEW forward
    PROVE  LET fills == Hedge(rules, Replay(trades), delta, expiry, forward)
               diff  == rules.delta - delta - Net(trades, Future(expiry))
           IN  \/ fills = {} /\ (rules.hedged => Abs(diff) < rules.band)
               \/ \E t : fills = {t} /\ t.inst = Future(expiry) /\ t.qty = diff
<1> DEFINE book == Replay(trades)
           fwd == Future(expiry)
           current == IF fwd \in Held(book) THEN book.qty[fwd] ELSE 0
           diff == rules.delta - delta - current
<1>1. current = Net(trades, fwd)
  BY BookOfNet
<1>2. Hedge(rules, book, delta, expiry, forward) =
         IF ~rules.hedged \/ Abs(diff) < rules.band
         THEN {}
         ELSE {MakeTrade(fwd, diff, forward, forward, "hedge")}
  BY DEF Hedge
<1>3. MakeTrade(fwd, diff, forward, forward, "hedge").inst = fwd
      /\ MakeTrade(fwd, diff, forward, forward, "hedge").qty = diff
  BY DEF MakeTrade
<1> HIDE DEF current, fwd
<1>4. CASE ~rules.hedged \/ Abs(diff) < rules.band
  BY <1>1, <1>2, <1>4 DEF fwd
<1>5. CASE ~(~rules.hedged \/ Abs(diff) < rules.band)
  BY <1>1, <1>2, <1>3, <1>5 DEF fwd
<1> QED BY <1>4, <1>5

(* A day's fills are few.                                                    *)
LEMMA AtMostThree ==
    ASSUME NEW a, NEW b, NEW c, NEW S \in SUBSET {a, b, c}
    PROVE  IsFiniteSet(S)
<1>1. IsFiniteSet({a})
  BY FS_Singleton
<1>2. IsFiniteSet({a} \union {b})
  BY <1>1, FS_AddElement
<1>3. IsFiniteSet(({a} \union {b}) \union {c})
  BY <1>2, FS_AddElement
<1>4. S \subseteq ({a} \union {b}) \union {c}
  OBVIOUS
<1> QED BY <1>3, <1>4, FS_Subset

(* What is closed is closed whole, so an exit leaves nothing: the two legs   *)
(* expire together and every forward goes with them.                         *)
LEMMA ExitLeavesNothing ==
    ASSUME NEW trades, SoundTrades(trades), Whole(Replay(trades)),
           NEW rules, NEW marks, SoundMarks(marks),
           Expiring(rules, Replay(trades), marks) # {}
    PROVE  LET fills == Exit(rules, Replay(trades), marks)
           IN  /\ SoundFills(fills)
               /\ \A after : Moved(trades, fills, after) => Held(Replay(after)) = {}
<1> DEFINE book == Replay(trades)
           front == FrontForward(marks)
           Leave(f) == MakeTrade(f, -book.qty[f], front, front, "close")
           fills == Exit(rules, book, marks)
<1>1. /\ Held(book) = OpenOptions(book) \union OpenFutures(book)
      /\ \A i \in OpenOptions(book) : IsOption(i)
      /\ \A i \in OpenFutures(book) : IsFuture(i)
      /\ \A i : i \in Held(book) <=> Net(trades, i) # 0
      /\ \A i \in Held(book) : book.qty[i] = Net(trades, i)
      /\ \A i : Net(trades, i) \in Int
  BY BookOfNet
<1>2. Expiring(rules, book, marks) \subseteq OpenOptions(book)
  BY DEF Expiring
<1>3. \A i : CloseLeg(i, book, marks).inst = i /\ CloseLeg(i, book, marks).qty = -book.qty[i]
  BY DEF CloseLeg, MakeTrade
<1>4. \A f : Leave(f).inst = f /\ Leave(f).qty = -book.qty[f]
  BY DEF MakeTrade
<1>5. fills = {CloseLeg(i, book, marks) : i \in Expiring(rules, book, marks)}
                 \union {Leave(f) : f \in OpenFutures(book)}
  BY DEF Exit
<1> HIDE DEF book, Leave, fills
<1>6. PICK leg \in OpenOptions(book) :
         /\ OpenOptions(book) = {leg, Twin(leg)}
         /\ OpenFutures(book) \subseteq {Future(leg.expiry)}
  BY <1>1, <1>2 DEF Whole, book
<1>7. Expiring(rules, book, marks) = OpenOptions(book)
  BY <1>1, <1>6, TwinsExpireTogether DEF book
<1>8. /\ \A t \in fills : t.inst \in Held(book) /\ t.qty = -Net(trades, t.inst)
      /\ \A i \in Held(book) : \E t \in fills : t.inst = i
  BY <1>1, <1>3, <1>4, <1>5, <1>7
<1>9. \A t, u \in fills : t.inst = u.inst => t = u
  <2>1. \A i \in OpenOptions(book) : i.kind = "option"
    BY DEF OpenOptions
  <2>2. \A i \in OpenFutures(book) : i.kind = "future"
    BY DEF OpenFutures
  <2> QED BY <1>3, <1>4, <1>5, <1>7, <2>1, <2>2
<1>10. IsFiniteSet(fills)
  <2> DEFINE a == CloseLeg(leg, book, marks)
             b == CloseLeg(Twin(leg), book, marks)
             c == Leave(Future(leg.expiry))
  <2>1. fills \in SUBSET {a, b, c}
    BY <1>5, <1>6, <1>7
  <2> QED BY <2>1, AtMostThree
<1>11. SoundFills(fills)
  BY <1>1, <1>8, <1>9, <1>10 DEF SoundFills
<1>12. ASSUME NEW after, Moved(trades, fills, after)
       PROVE  Held(Replay(after)) = {}
  <2>1. \A i : Net(after, i) = 0
    BY <1>1, <1>8, <1>12 DEF Moved
  <2>2. SoundTrades(after)
    BY <1>12 DEF Moved
  <2> QED BY <2>1, <2>2, ReplayHolds
<1> QED BY <1>11, <1>12 DEF fills, book

(* A leg sold at an entry, and the delta it brings.                          *)
Sold(rules, row, forward) ==
    MakeTrade(row.inst, -rules.legs, FillPrice(row, -rules.legs), forward, "open")

SoldDelta(rules, row) == (-rules.legs * row.delta) \div 100

SoldTogether(rules, call, put) == SumFunction([r \in {call, put} |-> SoldDelta(rules, r)])

(* What an entry sells is the call and the put of one strike, which our      *)
(* surface has a delta for, and it hedges exactly those.                     *)
LEMMA EntrySellsBothLegs ==
    ASSUME NEW rules, NEW book, NEW marks, SoundMarks(marks), Entry(rules, book, marks) # {}
    PROVE  \E call, put \in marks : \E forward :
              /\ put.inst = Twin(call.inst) /\ call.fitted /\ put.fitted
              /\ Entry(rules, book, marks)
                    = {Sold(rules, call, forward), Sold(rules, put, forward)}
                         \union Hedge(rules, book, SoldTogether(rules, call, put),
                                      call.inst.expiry, forward)
<1> DEFINE cand   == {r \in Tradeable(marks) : r.dte >= rules.lo /\ r.dte <= rules.hi}
           Far(r) == Abs(r.dte - rules.target)
           pick   == CHOOSE r \in cand : \A o \in cand :
                         \/ Far(r) < Far(o)
                         \/ Far(r) = Far(o) /\ r.dte <= o.dte
           slice  == {r \in cand : r.inst.expiry = pick.inst.expiry}
           Off(r) == Abs(r.inst.strike - pick.forward)
           near   == CHOOSE r \in slice : \A o \in slice :
                         \/ Off(r) < Off(o)
                         \/ Off(r) = Off(o) /\ r.inst.strike <= o.inst.strike
           legs   == {r \in slice : r.inst.strike = near.inst.strike}
           Open(r) == Sold(rules, r, pick.forward)
           Delta(r) == SoldDelta(rules, r)
<1>1. /\ {r.inst.call : r \in legs} = BOOLEAN
      /\ Entry(rules, book, marks)
            = {Open(r) : r \in legs}
                 \union Hedge(rules, book, SumFunction([r \in legs |-> Delta(r)]),
                              pick.inst.expiry, pick.forward)
  BY DEF Entry, Sold, SoldDelta
<1> HIDE DEF pick, near, Open, Delta
<1>2. \A r \in legs :
         /\ r \in marks /\ r.fitted /\ IsOption(r.inst)
         /\ r.inst.expiry = pick.inst.expiry /\ r.inst.strike = near.inst.strike
  BY DEF Tradeable, SoundMarks
<1> HIDE DEF legs
<1>3. PICK call \in legs : call.inst.call = TRUE
  BY <1>1
<1>4. PICK put \in legs : put.inst.call = FALSE
  BY <1>1
<1>5. put.inst = Twin(call.inst)
  <2>1. put.inst = Option(call.inst.expiry, call.inst.strike, FALSE)
    BY <1>2, <1>3, <1>4 DEF IsOption
  <2>2. IsOption(Twin(call.inst)) /\ Twin(call.inst).call = FALSE
        /\ Twin(call.inst).expiry = call.inst.expiry
        /\ Twin(call.inst).strike = call.inst.strike
    BY <1>2, <1>3, TwinIs
  <2> QED BY <2>1, <2>2 DEF IsOption
<1>6. legs = {call, put}
  <2>1. ASSUME NEW r \in legs
        PROVE  r.inst = call.inst \/ r.inst = put.inst
    <3>1. r.inst.call = TRUE \/ r.inst.call = FALSE
      BY <1>2 DEF IsOption
    <3> QED BY <1>2, <1>3, <1>4, <3>1 DEF IsOption
  <2>2. \A r \in legs : r = call \/ r = put
    BY <1>2, <2>1 DEF SoundMarks
  <2> QED BY <2>2
<1>7. Entry(rules, book, marks)
         = {Open(call), Open(put)}
              \union Hedge(rules, book, SumFunction([r \in {call, put} |-> Delta(r)]),
                           call.inst.expiry, pick.forward)
  BY <1>1, <1>2, <1>6
<1> QED BY <1>2, <1>5, <1>7 DEF Open, Delta, SoldTogether

(* An entry from nothing is a whole straddle, hedged to the band; or nothing *)
(* is entered.                                                               *)
LEMMA EntryIsWhole ==
    ASSUME NEW trades, SoundTrades(trades), Held(Replay(trades)) = {},
           NEW rules, SoundRules(rules), NEW marks, SoundMarks(marks)
    PROVE  LET fills == Entry(rules, Replay(trades), marks)
           IN  /\ SoundFills(fills)
               /\ \A after : Moved(trades, fills, after) =>
                     Whole(Replay(after)) /\ InsideTheBand(Replay(after), rules, marks)
<1> DEFINE book == Replay(trades)
           fills == Entry(rules, book, marks)
<1>1. \A i : Net(trades, i) = 0
  BY BookOfNet
<1> HIDE DEF fills, book
<1>2. CASE fills = {}
  <2>1. SoundFills(fills)
    BY <1>2, FS_EmptySet DEF SoundFills
  <2>2. ASSUME NEW after, Moved(trades, fills, after)
        PROVE  Held(Replay(after)) = {}
    <3>1. \A i : Net(after, i) = 0
      BY <1>1, <1>2, <2>2 DEF Moved
    <3>2. SoundTrades(after)
      BY <2>2 DEF Moved
    <3> QED BY <3>1, <3>2, ReplayHolds
  <2>3. \A after : Held(Replay(after)) = {} =>
           Whole(Replay(after)) /\ InsideTheBand(Replay(after), rules, marks)
    BY DEF Whole, InsideTheBand, OpenOptions
  <2> QED BY <2>1, <2>2, <2>3 DEF fills, book
<1>3. CASE fills # {}
  <2>1. Entry(rules, book, marks) # {}
    BY <1>3 DEF fills
  <2>2. PICK call \in marks, put \in marks : \E forward :
          /\ put.inst = Twin(call.inst) /\ call.fitted /\ put.fitted
          /\ Entry(rules, book, marks)
                = {Sold(rules, call, forward), Sold(rules, put, forward)}
                     \union Hedge(rules, book, SoldTogether(rules, call, put),
                                  call.inst.expiry, forward)
    BY <2>1, EntrySellsBothLegs
  <2>3. PICK forward :
          fills = {Sold(rules, call, forward), Sold(rules, put, forward)}
                     \union Hedge(rules, book, SoldTogether(rules, call, put),
                                  call.inst.expiry, forward)
    BY <2>2 DEF fills
  <2> DEFINE leg == call.inst
             fwd == Future(leg.expiry)
             Open(r) == Sold(rules, r, forward)
             Delta(r) == SoldDelta(rules, r)
             summands == [r \in {call, put} |-> Delta(r)]
             delta == SoldTogether(rules, call, put)
             hedge == Hedge(rules, book, delta, leg.expiry, forward)
             diff == rules.delta - delta
  <2>4. fills = {Open(call), Open(put)} \union hedge
    BY <2>3
  <2>5. /\ Open(call).inst = leg /\ Open(call).qty = -rules.legs
        /\ Open(put).inst = Twin(leg) /\ Open(put).qty = -rules.legs
    BY <2>2 DEF Sold, MakeTrade
  <2>6. /\ IsOption(leg) /\ IsOption(Twin(leg)) /\ Twin(leg) # leg
        /\ leg.kind = "option" /\ Twin(leg).kind = "option"
    BY TwinIs DEF SoundMarks
  <2>7. IsFuture(fwd) /\ fwd # leg /\ fwd # Twin(leg)
    BY <2>6 DEF IsFuture, Future
  <2>8. Delta(call) \in Int /\ Delta(put) \in Int
    BY <2>2 DEF SoundMarks, SoundRules, SoldDelta
  <2>9. delta \in Int /\ delta = Delta(call) + Delta(put)
    <3>1. call # put
      BY <2>2, <2>6
    <3>2. DOMAIN summands = {call, put} /\ summands[call] = Delta(call)
          /\ summands[put] = Delta(put)
      OBVIOUS
    <3>3. delta = SumFunction(summands)
      BY DEF SoldTogether
    <3> HIDE DEF summands, Delta
    <3> QED BY <2>8, <3>1, <3>2, <3>3, SumOfTwo
  <2>10. \/ hedge = {} /\ (rules.hedged => Abs(diff) < rules.band)
        \/ \E t : hedge = {t} /\ t.inst = fwd /\ t.qty = diff
    <3>1. diff - Net(trades, fwd) = diff
      BY <1>1, <2>9 DEF SoundRules
    <3> HIDE DEF delta
    <3> QED BY <3>1, HedgeTradesTheDifference DEF book
  <2>11. diff \in Int /\ rules.legs \in Nat \ {0}
    BY <2>9 DEF SoundRules
  <2> HIDE DEF leg, fwd, Open, delta, hedge, diff, Delta, summands
  <2>12. SoundFills(fills)
    <3>1. IsFiniteSet(fills)
      <4>1. PICK t : hedge \subseteq {t}
        BY <2>10
      <4>2. fills \in SUBSET {Open(call), Open(put), t}
        BY <2>4, <4>1
      <4> QED BY <4>2, AtMostThree
    <3>2. \A t \in fills : t.qty \in Int /\ (IsOption(t.inst) \/ IsFuture(t.inst))
      BY <2>4, <2>5, <2>6, <2>7, <2>10, <2>11
    <3>3. \A t, u \in fills : t.inst = u.inst => t = u
      BY <2>4, <2>5, <2>6, <2>7, <2>10
    <3> QED BY <3>1, <3>2, <3>3 DEF SoundFills
  <2>13. ASSUME NEW after, Moved(trades, fills, after)
         PROVE  Whole(Replay(after)) /\ InsideTheBand(Replay(after), rules, marks)
    <3> DEFINE then == Replay(after)
    <3>1. SoundTrades(after)
      BY <2>13 DEF Moved
    <3>2. Net(after, leg) = -rules.legs /\ Net(after, Twin(leg)) = -rules.legs
      BY <1>1, <2>4, <2>5, <2>11, <2>13 DEF Moved
    <3>3. \A i : i \notin {leg, Twin(leg), fwd} => Net(after, i) = 0
      BY <1>1, <2>4, <2>5, <2>10, <2>13 DEF Moved
    <3>4. \/ Net(after, fwd) = 0 /\ (rules.hedged => Abs(diff) < rules.band)
          \/ Net(after, fwd) = diff
      <4>1. CASE hedge = {}
        BY <1>1, <2>4, <2>5, <2>7, <2>10, <2>13, <4>1 DEF Moved
      <4>2. CASE hedge # {}
        BY <1>1, <2>4, <2>10, <2>11, <2>13, <4>2 DEF Moved
      <4> QED BY <4>1, <4>2
    <3>5. /\ Whole(then) /\ OpenOptions(then) = {leg, Twin(leg)}
          /\ then.qty[leg] = -rules.legs /\ then.qty[Twin(leg)] = -rules.legs
          /\ OpenFutures(then) \subseteq {fwd}
      <4>1. Net(after, leg) < 0
        BY <2>11, <3>2
      <4> QED BY <2>6, <3>1, <3>2, <3>3, <4>1, WholeFromNet DEF fwd
    <3>6. OptionDelta(then, marks) = delta
      <4> DEFINE seen == {i \in OpenOptions(then) : Listed(i, marks) /\ RowOf(i, marks).fitted}
                 g == [i \in seen |-> (then.qty[i] * RowOf(i, marks).delta) \div 100]
      <4>1. /\ Listed(leg, marks) /\ RowOf(leg, marks) = call
            /\ Listed(Twin(leg), marks) /\ RowOf(Twin(leg), marks) = put
        BY <2>2, RowOfListed DEF leg
      <4>2. seen = {leg, Twin(leg)}
        BY <2>2, <3>5, <4>1
      <4>3. g[leg] = Delta(call) /\ g[Twin(leg)] = Delta(put)
        <5>1. /\ g[leg] = (then.qty[leg] * call.delta) \div 100
              /\ g[Twin(leg)] = (then.qty[Twin(leg)] * put.delta) \div 100
          BY <4>1, <4>2
        <5>2. rules.legs \in Int /\ call.delta \in Int /\ put.delta \in Int
          BY <2>2, <2>11 DEF SoundMarks
        <5>3. \A n, d \in Int : (-n) * d = -(n * d)
          OBVIOUS
        <5> HIDE DEF g, seen, then
        <5> QED BY <3>5, <5>1, <5>2, <5>3 DEF Delta, SoldDelta
      <4>4. OptionDelta(then, marks) = SumFunction(g)
        BY DEF OptionDelta
      <4>5. DOMAIN g = {leg, Twin(leg)}
        BY <4>2
      <4> HIDE DEF g, then
      <4> QED BY <2>6, <2>8, <2>9, <4>3, <4>4, <4>5, SumOfTwo
    <3>7. SumFunction([f \in OpenFutures(then) |-> then.qty[f]]) = Net(after, fwd)
      BY <2>7, <3>1, <3>5, ForwardsOfOne
    <3> HIDE DEF then
    <3>8. rules.hedged => Abs(delta + Net(after, fwd) - rules.delta) < rules.band
      BY <2>9, <2>11, <3>4 DEF diff, Abs, SoundRules
    <3> QED BY <3>5, <3>6, <3>7, <3>8 DEF InsideTheBand, then
  <2> QED BY <2>12, <2>13 DEF fills, book
<1> QED BY <1>2, <1>3

(* A straddle that stays moves only the forward of its expiry, back into the *)
(* band.                                                                     *)
LEMMA RebalanceStaysWhole ==
    ASSUME NEW trades, SoundTrades(trades), Whole(Replay(trades)),
           OpenOptions(Replay(trades)) # {},
           NEW rules, SoundRules(rules), NEW marks, SoundMarks(marks)
    PROVE  LET fills == Rebalance(rules, Replay(trades), marks)
           IN  /\ SoundFills(fills)
               /\ \A after : Moved(trades, fills, after) =>
                     Whole(Replay(after)) /\ InsideTheBand(Replay(after), rules, marks)
<1> DEFINE book == Replay(trades)
           chosen == CHOOSE i \in OpenOptions(book) : TRUE
           delta == OptionDelta(book, marks)
           forward == ForwardOf(chosen.expiry, marks)
           fills == Rebalance(rules, book, marks)
<1>1. /\ Held(book) = OpenOptions(book) \union OpenFutures(book)
      /\ \A i \in OpenOptions(book) : IsOption(i)
      /\ \A i : i \in Held(book) <=> Net(trades, i) # 0
      /\ \A i \in Held(book) : book.qty[i] = Net(trades, i)
      /\ \A i : Net(trades, i) \in Int
  BY BookOfNet
<1>2. fills = Hedge(rules, book, delta, chosen.expiry, forward)
  BY DEF Rebalance
<1>3. chosen \in OpenOptions(book)
  OBVIOUS
<1>4. OpenOptions(book) # {} /\ Whole(book)
  OBVIOUS
<1> HIDE DEF book, chosen, forward, fills, delta
<1>5. PICK leg \in OpenOptions(book) :
         /\ OpenOptions(book) = {leg, Twin(leg)}
         /\ book.qty[leg] < 0 /\ book.qty[Twin(leg)] = book.qty[leg]
         /\ OpenFutures(book) \subseteq {Future(leg.expiry)}
  BY <1>1, <1>4 DEF Whole
<1> DEFINE fwd == Future(leg.expiry)
           diff == rules.delta - delta - Net(trades, fwd)
<1>6. /\ IsOption(leg) /\ Twin(leg) # leg /\ Twin(leg).expiry = leg.expiry
      /\ leg.kind = "option" /\ Twin(leg).kind = "option"
  BY <1>1, <1>5, TwinIs
<1>7. chosen.expiry = leg.expiry
  BY <1>3, <1>5, <1>6
<1>8. IsFuture(fwd) /\ fwd # leg /\ fwd # Twin(leg)
  BY <1>6 DEF IsFuture, Future
<1>9. Net(trades, leg) < 0 /\ Net(trades, Twin(leg)) = Net(trades, leg)
  BY <1>1, <1>5
<1>10. \A i : i \notin {leg, Twin(leg), fwd} => Net(trades, i) = 0
  BY <1>1, <1>5
<1>11. delta \in Int
  <2>1. book.qty[leg] \in Int /\ book.qty[Twin(leg)] \in Int
    BY <1>1, <1>5
  <2> QED BY <1>5, <2>1, OptionDeltaOfLegs DEF delta
<1>12. diff \in Int
  BY <1>1, <1>11 DEF SoundRules
<1> HIDE DEF fwd, diff
<1>13. \/ fills = {} /\ (rules.hedged => Abs(diff) < rules.band)
       \/ \E t : fills = {t} /\ t.inst = fwd /\ t.qty = diff
  BY <1>2, <1>7, HedgeTradesTheDifference DEF book, fwd, diff
<1>14. SoundFills(fills)
  <2>1. PICK t : fills \subseteq {t}
    BY <1>13
  <2>2. IsFiniteSet(fills)
    BY <2>1, AtMostThree
  <2> QED BY <1>8, <1>12, <1>13, <2>2 DEF SoundFills
<1>15. ASSUME NEW after, Moved(trades, fills, after)
       PROVE  Whole(Replay(after)) /\ InsideTheBand(Replay(after), rules, marks)
  <2> DEFINE then == Replay(after)
  <2>1. SoundTrades(after)
    BY <1>15 DEF Moved
  <2>2. \A i : i # fwd => Net(after, i) = Net(trades, i)
    BY <1>13, <1>15 DEF Moved
  <2>3. \/ Net(after, fwd) = Net(trades, fwd) /\ (rules.hedged => Abs(diff) < rules.band)
        \/ Net(after, fwd) = Net(trades, fwd) + diff
    BY <1>13, <1>15 DEF Moved
  <2>4. /\ Whole(then) /\ OpenOptions(then) = {leg, Twin(leg)}
        /\ then.qty[leg] = Net(after, leg) /\ then.qty[Twin(leg)] = Net(after, leg)
        /\ OpenFutures(then) \subseteq {fwd}
    <3>1. Net(after, leg) < 0 /\ Net(after, Twin(leg)) = Net(after, leg)
      BY <1>8, <1>9, <2>2
    <3>2. \A i : i \notin {leg, Twin(leg), fwd} => Net(after, i) = 0
      BY <1>10, <2>2
    <3> QED BY <1>6, <2>1, <3>1, <3>2, WholeFromNet DEF fwd
  <2>5. OptionDelta(then, marks) = delta
    <3>1. OpenOptions(then) = OpenOptions(book)
      BY <1>5, <2>4
    <3>2. \A i \in OpenOptions(book) : then.qty[i] = book.qty[i]
      BY <1>1, <1>5, <1>8, <2>2, <2>4
    <3> QED BY <3>1, <3>2, OptionDeltaUnmoved DEF delta
  <2>6. SumFunction([f \in OpenFutures(then) |-> then.qty[f]]) = Net(after, fwd)
    BY <1>8, <2>1, <2>4, ForwardsOfOne
  <2>7. rules.hedged => Abs(delta + Net(after, fwd) - rules.delta) < rules.band
    BY <1>1, <1>11, <2>3 DEF diff, Abs, SoundRules
  <2> HIDE DEF then
  <2> QED BY <2>4, <2>5, <2>6, <2>7 DEF InsideTheBand, then
<1> QED BY <1>14, <1>15 DEF fills, book

(* Whatever the day brings, the fills the weekly strategy asks for leave it  *)
(* a whole straddle or nothing, and what it holds hedged inside its band.    *)
THEOREM WeeklyVrpKeepsTheStraddle ==
    ASSUME NEW trades, SoundTrades(trades), Whole(Replay(trades)),
           NEW rules, SoundRules(rules), NEW marks, SoundMarks(marks)
    PROVE  LET fills == WeeklyVrp(rules, Replay(trades), marks)
           IN  /\ SoundFills(fills)
               /\ \A after : Moved(trades, fills, after) =>
                     Whole(Replay(after)) /\ InsideTheBand(Replay(after), rules, marks)
<1> DEFINE book == Replay(trades)
<1>1. CASE Expiring(rules, book, marks) # {}
  <2>1. WeeklyVrp(rules, book, marks) = Exit(rules, book, marks)
    BY <1>1 DEF WeeklyVrp, Expiring
  <2>2. \A after : Held(Replay(after)) = {} =>
           Whole(Replay(after)) /\ InsideTheBand(Replay(after), rules, marks)
    BY DEF Whole, InsideTheBand, OpenOptions
  <2> HIDE DEF book
  <2> QED BY <1>1, <2>1, <2>2, ExitLeavesNothing DEF book
<1>2. CASE Expiring(rules, book, marks) = {} /\ OpenOptions(book) = {}
  <2>1. WeeklyVrp(rules, book, marks) = Entry(rules, book, marks)
    BY <1>2 DEF WeeklyVrp
  <2>2. Held(book) = {}
    BY <1>2 DEF Whole
  <2> HIDE DEF book
  <2> QED BY <2>1, <2>2, EntryIsWhole DEF book
<1>3. CASE Expiring(rules, book, marks) = {} /\ OpenOptions(book) # {}
  <2>1. WeeklyVrp(rules, book, marks) = Rebalance(rules, book, marks)
    BY <1>3 DEF WeeklyVrp
  <2> HIDE DEF book
  <2> QED BY <1>3, <2>1, RebalanceStaysWhole DEF book
<1> QED BY <1>1, <1>2, <1>3

=============================================================================
