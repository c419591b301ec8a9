----------------------- MODULE TreasureTransferProofs -----------------------
(***************************************************************************)
(* Proofs about TreasureTransfer, for any players, maps, trades, prices    *)
(* and bounds; then about the worlds the players stand in, ArenaWorld and  *)
(* OpenWorld.                                                              *)
(***************************************************************************)
EXTENDS TreasureTransfer, FiniteSetTheorems, WellFoundedInduction, TLAPS

\* A trade whose handler stands before the credit has been debited.
DebitFirst == \A t \in Trade : pc[t] = "commitTo" => t \in debited

\* The inductive invariant.
IInv == TypeOK /\ NoOverdraft /\ CreditBacked /\ DebitFirst

Running == {"prepareFrom", "prepareTo", "commitFrom", "commitTo"}

-----------------------------------------------------------------------------
\* What a world promises: an adjustment it accepts leaves balances natural.
LEMMA AdjustStep ==
    ASSUME IInv, NEW p \in Player, NEW delta \in Int,
           bag[p] + delta >= 0, Adjust(p, delta)
    PROVE  bag' \in [Player -> Int] /\ NoOverdraft'
<1>1. bag \in [Player -> Int] /\ \A q \in Player : bag[q] \in Int /\ bag[q] >= 0
    BY DEF IInv, TypeOK, NoOverdraft
<1>2. bag' = [bag EXCEPT ![p] = bag[p] + delta]
    BY DEF Adjust
<1>3. bag' \in [Player -> Int]
    BY <1>1, <1>2
<1>4. \A q \in Player : bag'[q] >= 0
    BY <1>1, <1>2
<1> QED BY <1>3, <1>4 DEF NoOverdraft

\* What a running handler knows of its trade.
LEMMA DealOf ==
    ASSUME IInv, NEW t \in Trade, pc[t] \in Running
    PROVE  /\ trade[t] \in Deal
           /\ trade[t].from \in Player /\ trade[t].to \in Player
           /\ trade[t].amount \in Nat
<1>1. trade[t] \in Deal
    BY DEF IInv, TypeOK, Running
<1> QED BY <1>1, BoundAssumption DEF Deal

\* Where a handler may go, and what it keeps of its trade on the way.
Labels == {"idle", "done", "refused", "failed"} \cup Running

\* A move of a handler keeps every running trade on record.
LEMMA GotoStep ==
    ASSUME IInv, NEW t \in Trade, NEW label \in Labels, Goto(t, label),
           trade' \in [Trade -> Deal \cup {NoDeal}],
           \A u \in Trade \ {t} : trade'[u] = trade[u],
           label \in Running => trade'[t] \in Deal
    PROVE  /\ pc' \in [Trade -> Labels]
           /\ \A u \in Trade : pc'[u] \in Running => trade'[u] \in Deal
<1>1. pc \in [Trade -> Labels] /\ \A u \in Trade : pc[u] \in Running => trade[u] \in Deal
    BY DEF IInv, TypeOK, Labels, Running
<1>2. pc' = [pc EXCEPT ![t] = label]
    BY DEF Goto
<1> QED BY <1>1, <1>2

\* Continuing and returning are such moves.
LEMMA ContinueStep ==
    ASSUME IInv, NEW t \in Trade, NEW label \in Labels, pc[t] \in Running,
           Continue(t, label) \/ (Return(t, label) /\ label \notin Running)
    PROVE  /\ pc' \in [Trade -> Labels]
           /\ pc' = [pc EXCEPT ![t] = label]
           /\ trade' \in [Trade -> Deal \cup {NoDeal}]
           /\ \A u \in Trade : pc'[u] \in Running => trade'[u] \in Deal
<1>1. trade \in [Trade -> Deal \cup {NoDeal}] /\ trade[t] \in Deal
    BY DealOf DEF IInv, TypeOK
<1>2. trade' \in [Trade -> Deal \cup {NoDeal}] /\ Goto(t, label)
    BY <1>1 DEF Continue, Return
<1>3. \A u \in Trade \ {t} : trade'[u] = trade[u]
    BY <1>1 DEF Continue, Return
<1>4. label \in Running => trade'[t] \in Deal
    BY <1>1 DEF Continue, Return
<1>5. pc' = [pc EXCEPT ![t] = label]
    BY <1>2 DEF Goto
<1> QED BY <1>2, <1>3, <1>4, <1>5, GotoStep

-----------------------------------------------------------------------------
\* The initial states satisfy the invariant.
LEMMA InitIInv == Init => IInv
<1> SUFFICES ASSUME Init PROVE IInv
    OBVIOUS
<1>1. where \in [Player -> Map] /\ bag \in [Player -> 0..MaxBag]
    BY DEF Init
<1>2. bag \in [Player -> Int] /\ NoOverdraft
    BY <1>1, BoundAssumption DEF NoOverdraft
<1>3. TypeOK
    BY <1>1, <1>2, BoundAssumption DEF Init, TypeOK
<1>4. CreditBacked /\ DebitFirst
    BY DEF Init, CreditBacked, DebitFirst
<1> QED BY <1>2, <1>3, <1>4 DEF IInv

\* The calls of a trade that only read balances.
LEMMA PrepareInv ==
    ASSUME IInv, NEW t \in Trade, PrepareFrom(t) \/ PrepareTo(t)
    PROVE  IInv'
<1>1. UNCHANGED <<where, home, moving, bag, lost, debited, credited>>
    BY DEF PrepareFrom, PrepareTo, player, history
<1>2. PICK label \in {"prepareTo", "commitFrom", "refused"} :
         Continue(t, label) \/ (Return(t, label) /\ label \notin Running)
    BY DEF PrepareFrom, PrepareTo, Running
<1>3. pc[t] \in Running
    BY DEF PrepareFrom, PrepareTo, Running
<1>4. /\ pc' \in [Trade -> Labels] /\ pc' = [pc EXCEPT ![t] = label]
      /\ trade' \in [Trade -> Deal \cup {NoDeal}]
      /\ \A u \in Trade : pc'[u] \in Running => trade'[u] \in Deal
    BY <1>2, <1>3, ContinueStep DEF Labels, Running
<1>5. TypeOK'
    BY <1>1, <1>4 DEF IInv, TypeOK, Labels, Running
<1>6. DebitFirst'
    BY <1>1, <1>4 DEF IInv, DebitFirst, TypeOK
<1> QED BY <1>1, <1>5, <1>6 DEF IInv, NoOverdraft, CreditBacked

\* Starting a trade captures the two routes and moves nothing.
LEMMA BeginInv ==
    ASSUME IInv, NEW t \in Trade, Begin(t)
    PROVE  IInv'
<1>1. UNCHANGED <<where, home, moving, bag, lost, debited, credited>>
    BY DEF Begin, player, history
<1>2. PICK p \in Player, q \in Player, a \in 1..MaxBag :
         /\ home[p] # None /\ home[q] # None
         /\ trade' = [trade EXCEPT ![t] =
               [from |-> p, to |-> q, amount |-> a, fromMap |-> home[p], toMap |-> home[q]]]
    BY DEF Begin
<1> DEFINE d == [from |-> p, to |-> q, amount |-> a, fromMap |-> home[p], toMap |-> home[q]]
<1>3. d \in Deal
    BY <1>2 DEF Deal, IInv, TypeOK
<1> HIDE DEF d
<1>4. trade \in [Trade -> Deal \cup {NoDeal}]
    BY DEF IInv, TypeOK
<1>5. /\ trade' \in [Trade -> Deal \cup {NoDeal}] /\ trade'[t] \in Deal
      /\ \A u \in Trade \ {t} : trade'[u] = trade[u]
    BY <1>2, <1>3, <1>4 DEF d
<1>6. /\ pc' \in [Trade -> Labels]
      /\ \A u \in Trade : pc'[u] \in Running => trade'[u] \in Deal
    BY <1>5, GotoStep DEF Begin, Labels, Running
<1>7. TypeOK'
    BY <1>1, <1>5, <1>6 DEF IInv, TypeOK, Labels, Running
<1>8. DebitFirst'
    BY <1>1 DEF IInv, DebitFirst, TypeOK, Begin, Goto
<1> QED BY <1>1, <1>7, <1>8 DEF IInv, NoOverdraft, CreditBacked

\* The debit: applied before the trade may go on to the credit.
LEMMA CommitFromInv ==
    ASSUME IInv, NEW t \in Trade, CommitFrom(t)
    PROVE  IInv'
<1> DEFINE d == trade[t]
<1>0. pc[t] \in Running /\ UNCHANGED <<where, home, moving, credited>>
    BY DEF CommitFrom, Running, player
<1>1. d.from \in Player /\ d.amount \in Nat
    BY <1>0, DealOf
<1>2. PICK label \in {"commitTo", "failed"} :
         /\ Continue(t, label) \/ (Return(t, label) /\ label \notin Running)
         /\ lost' \in 0..MaxLost
         /\ label = "commitTo" => debited' = debited \cup {t}
         /\ debited' \in {debited, debited \cup {t}}
         /\ \/ UNCHANGED bag
            \/ bag[d.from] + (- d.amount) >= 0 /\ Adjust(d.from, - d.amount)
    <2>1. CASE Adjustable(d.from, d.fromMap, - d.amount)
        <3>1. bag[d.from] + (- d.amount) >= 0 /\ Adjust(d.from, - d.amount)
            BY <2>1 DEF CommitFrom, Adjustable
        <3>2. CASE Continue(t, "commitTo") /\ UNCHANGED lost
            BY <2>1, <3>1, <3>2 DEF CommitFrom, IInv, TypeOK
        <3>3. CASE Default(t) /\ lost < MaxLost /\ lost' = lost + 1
            <4>1. lost' \in 0..MaxLost
                BY <3>3, BoundAssumption DEF IInv, TypeOK
            <4> QED BY <2>1, <3>1, <3>3, <4>1 DEF CommitFrom, Default
        <3> QED BY <2>1, <3>2, <3>3 DEF CommitFrom
    <2>2. CASE ~ Adjustable(d.from, d.fromMap, - d.amount)
        BY <2>2 DEF CommitFrom, Running, IInv, TypeOK
    <2> QED BY <2>1, <2>2
<1>3. /\ pc' \in [Trade -> Labels] /\ pc' = [pc EXCEPT ![t] = label]
      /\ trade' \in [Trade -> Deal \cup {NoDeal}]
      /\ \A u \in Trade : pc'[u] \in Running => trade'[u] \in Deal
    BY <1>0, <1>2, ContinueStep DEF Labels, Running
<1>4. bag' \in [Player -> Int] /\ NoOverdraft'
    <2>1. CASE UNCHANGED bag
        BY <2>1 DEF IInv, TypeOK, NoOverdraft
    <2>2. CASE bag[d.from] + (- d.amount) >= 0 /\ Adjust(d.from, - d.amount)
        <3>1. - d.amount \in Int
            BY <1>1
        <3> HIDE DEF d
        <3> QED BY <1>1, <2>2, <3>1, AdjustStep
    <2> QED BY <1>2, <2>1, <2>2
<1>5. debited \subseteq debited' /\ debited' \subseteq Trade
    BY <1>2 DEF IInv, TypeOK
<1>6. TypeOK'
    BY <1>0, <1>2, <1>3, <1>4, <1>5 DEF IInv, TypeOK, Labels, Running
<1>7. CreditBacked'
    BY <1>0, <1>5 DEF IInv, CreditBacked
<1>8. DebitFirst'
    BY <1>2, <1>3, <1>5 DEF IInv, DebitFirst, TypeOK
<1> QED BY <1>4, <1>6, <1>7, <1>8 DEF IInv

\* The credit: only of a trade that was debited.
LEMMA CommitToInv ==
    ASSUME IInv, NEW t \in Trade, CommitTo(t)
    PROVE  IInv'
<1> DEFINE d == trade[t]
<1>0. pc[t] = "commitTo" /\ pc[t] \in Running /\ UNCHANGED <<where, home, moving, debited>>
    BY DEF CommitTo, Running, player
<1>1. d.to \in Player /\ d.amount \in Nat
    BY <1>0, DealOf
<1>2. t \in debited
    BY <1>0 DEF IInv, DebitFirst
<1>3. PICK label \in {"done", "failed"} :
         /\ Continue(t, label) \/ (Return(t, label) /\ label \notin Running)
         /\ lost' \in 0..MaxLost
         /\ credited' \in {credited, credited \cup {t}}
         /\ \/ UNCHANGED bag
            \/ bag[d.to] + d.amount >= 0 /\ Adjust(d.to, d.amount)
    <2>1. CASE Adjustable(d.to, d.toMap, d.amount)
        <3>1. bag[d.to] + d.amount >= 0 /\ Adjust(d.to, d.amount)
            BY <2>1 DEF CommitTo, Adjustable
        <3>2. CASE Return(t, "done") /\ UNCHANGED lost
            BY <2>1, <3>1, <3>2 DEF CommitTo, IInv, TypeOK, Running
        <3>3. CASE Return(t, "failed") /\ lost < MaxLost /\ lost' = lost + 1
            <4>1. lost' \in 0..MaxLost
                BY <3>3, BoundAssumption DEF IInv, TypeOK
            <4> QED BY <2>1, <3>1, <3>3, <4>1 DEF CommitTo, Running
        <3> QED BY <2>1, <3>2, <3>3 DEF CommitTo
    <2>2. CASE ~ Adjustable(d.to, d.toMap, d.amount)
        BY <2>2 DEF CommitTo, Default, IInv, TypeOK
    <2> QED BY <2>1, <2>2
<1>4. /\ pc' \in [Trade -> Labels] /\ pc' = [pc EXCEPT ![t] = label]
      /\ trade' \in [Trade -> Deal \cup {NoDeal}]
      /\ \A u \in Trade : pc'[u] \in Running => trade'[u] \in Deal
    BY <1>0, <1>3, ContinueStep DEF Labels, Running
<1>5. bag' \in [Player -> Int] /\ NoOverdraft'
    <2>1. CASE UNCHANGED bag
        BY <2>1 DEF IInv, TypeOK, NoOverdraft
    <2>2. CASE bag[d.to] + d.amount >= 0 /\ Adjust(d.to, d.amount)
        <3>1. d.amount \in Int
            BY <1>1
        <3> HIDE DEF d
        <3> QED BY <1>1, <2>2, <3>1, AdjustStep
    <2> QED BY <1>3, <2>1, <2>2
<1>6. TypeOK'
    BY <1>0, <1>3, <1>4, <1>5 DEF IInv, TypeOK, Labels, Running
<1>7. CreditBacked'
    BY <1>0, <1>2, <1>3 DEF IInv, CreditBacked
<1>8. DebitFirst'
    BY <1>0, <1>3, <1>4 DEF IInv, DebitFirst, TypeOK
<1> QED BY <1>5, <1>6, <1>7, <1>8 DEF IInv

\* Everything else that happens to a player.
LEMMA PlayerInv ==
    ASSUME IInv, NEW p \in Player,
           \/ BuyItem(p) \/ Gain(p) \/ Leave(p) \/ Arrive(p)
           \/ Reroute(p) \/ Logout(p) \/ RemoveLoggedOut(p)
    PROVE  IInv'
<1>1. UNCHANGED <<pc, trade, lost, debited, credited>>
    BY DEF BuyItem, Gain, Leave, Arrive, Reroute, Logout, RemoveLoggedOut, history
<1>2. /\ where' \in [Player -> Map \cup {None}]
      /\ home' \in [Player -> Map \cup {None}]
      /\ moving' \in [Player -> Map \cup {None}]
    BY DEF IInv, TypeOK, BuyItem, Gain, Leave, Arrive, Reroute, Logout, RemoveLoggedOut, player
<1>3. bag' \in [Player -> Int] /\ NoOverdraft'
    <2>1. bag[p] \in Int /\ bag[p] >= 0
        BY DEF IInv, TypeOK, NoOverdraft
    <2>2. CASE BuyItem(p)
        <3>1. PICK price \in Price : bag[p] >= price /\ Adjust(p, - price)
            BY <2>2 DEF BuyItem
        <3>2. price \in Nat
            BY PriceAssumption
        <3>3. - price \in Int /\ bag[p] + (- price) >= 0
            BY <2>1, <3>1, <3>2
        <3> QED BY <3>1, <3>3, AdjustStep
    <2>3. CASE Gain(p)
        <3>1. bag[p] + 1 >= 0 /\ Adjust(p, 1)
            BY <2>1, <2>3 DEF Gain
        <3> QED BY <3>1, AdjustStep
    <2>4. CASE Leave(p) \/ Arrive(p) \/ Reroute(p) \/ Logout(p) \/ RemoveLoggedOut(p)
        BY <2>4 DEF IInv, TypeOK, NoOverdraft, Leave, Arrive, Reroute, Logout, RemoveLoggedOut
    <2> QED BY <2>2, <2>3, <2>4
<1>4. TypeOK'
    BY <1>1, <1>2, <1>3 DEF IInv, TypeOK
<1> QED BY <1>1, <1>3, <1>4 DEF IInv, CreditBacked, DebitFirst

-----------------------------------------------------------------------------
\* IInv is an inductive invariant of the trades.
THEOREM Inductive == Spec => []IInv
<1>1. IInv /\ [Next]_vars => IInv'
    <2> SUFFICES ASSUME IInv, [Next]_vars PROVE IInv'
        OBVIOUS
    <2>1. CASE UNCHANGED vars
        BY <2>1 DEF vars, player, history, IInv, TypeOK, NoOverdraft, CreditBacked, DebitFirst
    <2>2. ASSUME NEW t \in Trade, Begin(t) PROVE IInv'
        BY <2>2, BeginInv
    <2>3. ASSUME NEW t \in Trade, PrepareFrom(t) \/ PrepareTo(t) PROVE IInv'
        BY <2>3, PrepareInv
    <2>4. ASSUME NEW t \in Trade, CommitFrom(t) PROVE IInv'
        BY <2>4, CommitFromInv
    <2>5. ASSUME NEW t \in Trade, CommitTo(t) PROVE IInv'
        BY <2>5, CommitToInv
    <2>6. ASSUME NEW p \in Player,
                 \/ BuyItem(p) \/ Gain(p) \/ Leave(p) \/ Arrive(p)
                 \/ Reroute(p) \/ Logout(p) \/ RemoveLoggedOut(p)
          PROVE IInv'
        BY <2>6, PlayerInv
    <2> QED BY <2>1, <2>2, <2>3, <2>4, <2>5, <2>6 DEF Next
<1> QED BY InitIInv, <1>1, PTL DEF Spec

\* Type correctness.
THEOREM TypeCorrect == Spec => []TypeOK
<1>1. IInv => TypeOK
    BY DEF IInv
<1> QED BY Inductive, <1>1, PTL

\* No interleaving of trades, purchases and switches overdraws a player.
THEOREM NeverOverdrawn == Spec => []NoOverdraft
<1>1. IInv => NoOverdraft
    BY DEF IInv
<1> QED BY Inductive, <1>1, PTL

\* No trade creates treasure: every credit was paid for.
THEOREM CreditsPaid == Spec => []CreditBacked
<1>1. IInv => CreditBacked
    BY DEF IInv
<1> QED BY Inductive, <1>1, PTL
-----------------------------------------------------------------------------
(* The books: first what a sum over a finite set is.                       *)

\* SumFunction picks a member, adds its value and goes on with the rest: g is the
\* table of the sums of f over the subsets of S, Sum its last entry.
Picked(s) == CHOOSE x \in s : TRUE
Sums(f, S, g) ==
    g = [s \in SUBSET S |-> IF s = {} THEN 0 ELSE f[Picked(s)] + g[s \ {Picked(s)}]]
Sum(f, S) == (CHOOSE g : Sums(f, S, g))[S]

\* The library's sum is that one.
LEMMA SumDef == ASSUME NEW f PROVE SumFunction(f) = Sum(f, DOMAIN f)
BY DEF SumFunction, SumFunctionOnSet, FoldFunctionOnSet, MapThenFoldSet, Sums, Picked, Sum

\* Every set of finite sets has a smallest member.
LEMMA SmallestSet ==
    ASSUME NEW S, IsFiniteSet(S), NEW T, T \subseteq SUBSET S, T # {}
    PROVE  \E s \in T : \A r \in T : r \subseteq s => r = s
<1>1. IsWellFoundedOn(StrictSubsetOrdering(S), SUBSET S)
    BY FS_StrictSubsetOrderingWellFounded, FS_FiniteSubsetsOfFinite
<1>2. PICK s \in T : \A r \in T : ~(<<r, s>> \in StrictSubsetOrdering(S))
    BY <1>1, WFMin
<1> QED BY <1>2 DEF StrictSubsetOrdering

\* A set that is not empty has a member to pick.
LEMMA PickedIn == ASSUME NEW s, s # {} PROVE Picked(s) \in s
BY DEF Picked

\* A finite set has at most one table of sums: two of them cannot differ first
\* at any subset.
LEMMA SumsUnique ==
    ASSUME NEW S, IsFiniteSet(S), NEW f, NEW g, NEW k, Sums(f, S, g), Sums(f, S, k)
    PROVE  g = k
<1> DEFINE T == {s \in SUBSET S : g[s] # k[s]}
<1>1. T = {}
    <2> SUFFICES ASSUME T # {} PROVE FALSE
        OBVIOUS
    <2>0. T \subseteq SUBSET S
        OBVIOUS
    <2>1. PICK s \in T : \A r \in T : r \subseteq s => r = s
        <3> HIDE DEF T
        <3> QED BY <2>0, SmallestSet
    <2>2. s # {}
        BY <2>1 DEF Sums
    <2> DEFINE r == s \ {Picked(s)}
    <2>3. r \in SUBSET S /\ r # s /\ r \subseteq s
        BY <2>1, <2>2, PickedIn
    <2>4. g[r] = k[r]
        BY <2>1, <2>3
    <2>5. g[s] = f[Picked(s)] + g[r] /\ k[s] = f[Picked(s)] + k[r]
        BY <2>1, <2>2 DEF Sums
    <2> QED BY <2>1, <2>4, <2>5
<1>2. \A s \in SUBSET S : g[s] = k[s]
    BY <1>1
<1>3. /\ g = [s \in SUBSET S |-> g[s]]
      /\ k = [s \in SUBSET S |-> k[s]]
    BY DEF Sums
<1> QED BY <1>2, <1>3

\* The table of a set holds that of each of its subsets.
LEMMA SumsWithin ==
    ASSUME NEW S, NEW f, NEW g, Sums(f, S, g), NEW U \in SUBSET S
    PROVE  Sums(f, U, [s \in SUBSET U |-> g[s]])
<1> DEFINE k == [s \in SUBSET U |-> g[s]]
<1>1. ASSUME NEW s \in SUBSET U
      PROVE  k[s] = IF s = {} THEN 0 ELSE f[Picked(s)] + k[s \ {Picked(s)}]
    <2>1. s \in SUBSET S /\ s \ {Picked(s)} \in SUBSET U
        OBVIOUS
    <2>2. g[s] = IF s = {} THEN 0 ELSE f[Picked(s)] + g[s \ {Picked(s)}]
        BY <2>1 DEF Sums
    <2> QED BY <2>1, <2>2
<1>2. k = [s \in SUBSET U |-> k[s]]
    OBVIOUS
<1> HIDE DEF k
<1>3. Sums(f, U, k)
    BY <1>1, <1>2 DEF Sums
<1> QED BY <1>3 DEF k

\* A finite set has a table of sums: the smallest set without one has the tables
\* of its subsets, and one entry more is a table.
LEMMA SumsExist ==
    ASSUME NEW S, IsFiniteSet(S), NEW f
    PROVE  \E g : Sums(f, S, g)
<1> DEFINE T == {s \in SUBSET S : ~\E g : Sums(f, s, g)}
<1>1. T = {}
    <2> SUFFICES ASSUME T # {} PROVE FALSE
        OBVIOUS
    <2>0. T \subseteq SUBSET S
        OBVIOUS
    <2>1. PICK s \in T : \A r \in T : r \subseteq s => r = s
        <3> HIDE DEF T
        <3> QED BY <2>0, SmallestSet
    <2>2. ASSUME NEW r \in SUBSET s, r # s
          PROVE  Sums(f, r, CHOOSE g : Sums(f, r, g))
        BY <2>1, <2>2
    <2> DEFINE k == [r \in SUBSET s |-> IF r # s THEN Sum(f, r)
                                        ELSE IF s = {} THEN 0
                                        ELSE f[Picked(s)] + Sum(f, s \ {Picked(s)})]
    <2>3. ASSUME NEW r \in SUBSET s
          PROVE  k[r] = IF r = {} THEN 0 ELSE f[Picked(r)] + k[r \ {Picked(r)}]
        <3> DEFINE q == r \ {Picked(r)}
        <3>1. CASE r = {}
            <4>1. CASE r = s
                BY <3>1, <4>1
            <4>2. CASE r # s
                <5>1. Sums(f, r, CHOOSE g : Sums(f, r, g))
                    BY <2>2, <4>2
                <5>2. Sum(f, r) = 0
                    BY <3>1, <5>1 DEF Sums, Sum
                <5> QED BY <3>1, <4>2, <5>2
            <4> QED BY <4>1, <4>2
        <3>2. CASE r # {}
            <4>1. q \in SUBSET s /\ q # s /\ q \in SUBSET r
                BY <3>2, PickedIn
            <4>2. k[q] = Sum(f, q)
                BY <4>1
            <4>3. CASE r = s
                BY <3>2, <4>2, <4>3
            <4>4. CASE r # s
                <5> DEFINE g == CHOOSE g : Sums(f, r, g)
                           u == CHOOSE u : Sums(f, q, u)
                <5>1. Sums(f, r, g) /\ Sums(f, q, u)
                    BY <2>2, <4>1, <4>4
                <5>2. Sum(f, r) = g[r] /\ Sum(f, q) = u[q]
                    BY DEF Sum
                <5> HIDE DEF g, u
                <5>3. Sums(f, q, [t \in SUBSET q |-> g[t]])
                    <6> HIDE DEF q
                    <6> QED BY <4>1, <5>1, SumsWithin
                <5>4. IsFiniteSet(q)
                    BY <4>1, <2>1, FS_Subset
                <5>5. u = [t \in SUBSET q |-> g[t]]
                    BY <5>1, <5>3, <5>4, SumsUnique
                <5>6. u[q] = g[q]
                    BY <5>5
                <5>7. g[r] = f[Picked(r)] + g[q]
                    BY <3>2, <5>1 DEF Sums
                <5> QED BY <3>2, <4>2, <4>4, <5>2, <5>6, <5>7
            <4> QED BY <4>3, <4>4
        <3> QED BY <3>1, <3>2
    <2>4. k = [r \in SUBSET s |-> k[r]]
        OBVIOUS
    <2> HIDE DEF k
    <2>5. Sums(f, s, k)
        BY <2>3, <2>4 DEF Sums
    <2> QED BY <2>1, <2>5
<1> QED BY <1>1

\* What a sum is: 0 of nothing, else the one picked first and the rest.
LEMMA SumStep ==
    ASSUME NEW S, IsFiniteSet(S), NEW f
    PROVE  Sum(f, S) = IF S = {} THEN 0 ELSE f[Picked(S)] + Sum(f, S \ {Picked(S)})
<1> DEFINE g == CHOOSE g : Sums(f, S, g)
           q == S \ {Picked(S)}
           u == CHOOSE u : Sums(f, q, u)
<1>1. IsFiniteSet(q)
    BY FS_Subset
<1>2. Sums(f, S, g) /\ Sums(f, q, u)
    BY <1>1, SumsExist
<1>3. Sum(f, S) = g[S] /\ Sum(f, q) = u[q]
    BY DEF Sum
<1> HIDE DEF g, u
<1>4. Sums(f, q, [t \in SUBSET q |-> g[t]])
    BY <1>2, SumsWithin
<1>5. u = [t \in SUBSET q |-> g[t]]
    BY <1>1, <1>2, <1>4, SumsUnique
<1>6. u[q] = g[q]
    BY <1>5
<1>7. g[S] = IF S = {} THEN 0 ELSE f[Picked(S)] + g[q]
    BY <1>2 DEF Sums
<1> QED BY <1>3, <1>6, <1>7

\* Sums of integers over finite sets are integers.
LEMMA SumType ==
    ASSUME NEW S, IsFiniteSet(S), NEW f \in [S -> Int]
    PROVE  \A s \in SUBSET S : IsFiniteSet(s) /\ Sum(f, s) \in Int
<1> DEFINE T == {s \in SUBSET S : Sum(f, s) \notin Int}
<1>1. T = {}
    <2> SUFFICES ASSUME T # {} PROVE FALSE
        OBVIOUS
    <2>0. T \subseteq SUBSET S
        OBVIOUS
    <2>1. PICK s \in T : \A r \in T : r \subseteq s => r = s
        <3> HIDE DEF T
        <3> QED BY <2>0, SmallestSet
    <2> DEFINE r == s \ {Picked(s)}
    <2>2. Sum(f, s) = IF s = {} THEN 0 ELSE f[Picked(s)] + Sum(f, r)
        BY FS_Subset, SumStep
    <2>3. s # {}
        BY <2>1, <2>2
    <2>4. Picked(s) \in s /\ r \in SUBSET S /\ r # s /\ r \subseteq s
        BY <2>3, PickedIn
    <2>5. Sum(f, r) \in Int /\ f[Picked(s)] \in Int
        BY <2>1, <2>4
    <2> QED BY <2>1, <2>2, <2>3, <2>5
<1> QED BY <1>1, FS_Subset

\* The value at any member may be added last.
LEMMA SumSplit ==
    ASSUME NEW S, IsFiniteSet(S), NEW f \in [S -> Int]
    PROVE  \A s \in SUBSET S : \A x \in s : Sum(f, s) = f[x] + Sum(f, s \ {x})
<1> DEFINE T == {s \in SUBSET S : \E x \in s : Sum(f, s) # f[x] + Sum(f, s \ {x})}
<1>1. T = {}
    <2> SUFFICES ASSUME T # {} PROVE FALSE
        OBVIOUS
    <2>0. T \subseteq SUBSET S
        OBVIOUS
    <2>1. PICK s \in T : \A r \in T : r \subseteq s => r = s
        <3> HIDE DEF T
        <3> QED BY <2>0, SmallestSet
    <2>2. PICK x \in s : Sum(f, s) # f[x] + Sum(f, s \ {x})
        BY <2>1
    <2> DEFINE p == Picked(s)
               rest == Sum(f, s \ {p, x})
    <2>3. p \in s /\ IsFiniteSet(s) /\ s \subseteq S
        BY PickedIn, SumType
    <2>4. Sum(f, s) = f[p] + Sum(f, s \ {p})
        BY <2>3, SumStep
    <2>5. p # x
        BY <2>2, <2>4
    <2>6. /\ s \ {p} \in SUBSET S /\ s \ {p} \notin T /\ x \in s \ {p}
          /\ s \ {x} \in SUBSET S /\ s \ {x} \notin T /\ p \in s \ {x}
          /\ (s \ {p}) \ {x} = s \ {p, x} /\ (s \ {x}) \ {p} = s \ {p, x}
        BY <2>1, <2>2, <2>3, <2>5
    <2>7. Sum(f, s \ {p}) = f[x] + rest /\ Sum(f, s \ {x}) = f[p] + rest
        BY <2>6
    <2>8. f[p] \in Int /\ f[x] \in Int /\ rest \in Int
        BY <2>3, SumType
    <2> HIDE DEF p, rest
    <2> QED BY <2>2, <2>4, <2>7, <2>8
<1> QED BY <1>1

\* Only the values at the members count.
LEMMA SumSame ==
    ASSUME NEW S, IsFiniteSet(S), NEW f, NEW g, \A x \in S : f[x] = g[x]
    PROVE  Sum(f, S) = Sum(g, S)
<1> DEFINE T == {s \in SUBSET S : Sum(f, s) # Sum(g, s)}
<1>1. T = {}
    <2> SUFFICES ASSUME T # {} PROVE FALSE
        OBVIOUS
    <2>0. T \subseteq SUBSET S
        OBVIOUS
    <2>1. PICK s \in T : \A r \in T : r \subseteq s => r = s
        <3> HIDE DEF T
        <3> QED BY <2>0, SmallestSet
    <2> DEFINE p == Picked(s)
               r == s \ {p}
    <2>2. IsFiniteSet(s)
        BY <2>1, FS_Subset
    <2>3. /\ Sum(f, s) = IF s = {} THEN 0 ELSE f[p] + Sum(f, r)
          /\ Sum(g, s) = IF s = {} THEN 0 ELSE g[p] + Sum(g, r)
        BY <2>2, SumStep
    <2>4. s # {}
        BY <2>1, <2>3
    <2>5. p \in s /\ r \in SUBSET S /\ r # s /\ r \subseteq s
        BY <2>1, <2>4, PickedIn
    <2>6. Sum(f, r) = Sum(g, r) /\ f[p] = g[p]
        BY <2>1, <2>5
    <2> QED BY <2>1, <2>3, <2>4, <2>6
<1> QED BY <1>1

\* A change at one place changes the sum as much.
LEMMA SumChanged ==
    ASSUME NEW S, IsFiniteSet(S), NEW f \in [S -> Int], NEW x \in S, NEW d \in Int
    PROVE  SumFunction([f EXCEPT ![x] = f[x] + d]) = SumFunction(f) + d
<1> DEFINE g == [f EXCEPT ![x] = f[x] + d]
           R == S \ {x}
<1>1. g \in [S -> Int] /\ g[x] = f[x] + d /\ \A y \in R : g[y] = f[y]
    OBVIOUS
<1>2. DOMAIN f = S /\ DOMAIN g = S
    OBVIOUS
<1> HIDE DEF g
<1>3. SumFunction(f) = Sum(f, S) /\ SumFunction(g) = Sum(g, S)
    BY <1>2, SumDef
<1>4. Sum(f, S) = f[x] + Sum(f, R) /\ Sum(g, S) = g[x] + Sum(g, R)
    BY <1>1, SumSplit
<1>5. Sum(f, R) = Sum(g, R) /\ Sum(f, R) \in Int /\ f[x] \in Int
    BY <1>1, SumType, SumSame
<1>6. SumFunction(g) = SumFunction(f) + d
    BY <1>1, <1>3, <1>4, <1>5
<1> QED BY <1>6 DEF g

\* A value more adds as much.
LEMMA SumExtended ==
    ASSUME NEW S, IsFiniteSet(S), NEW x, x \notin S,
           NEW f \in [S -> Int], NEW g \in [S \cup {x} -> Int], \A y \in S : g[y] = f[y]
    PROVE  SumFunction(g) = SumFunction(f) + g[x]
<1> DEFINE U == S \cup {x}
<1>1. IsFiniteSet(U)
    BY FS_AddElement
<1>2. DOMAIN f = S /\ DOMAIN g = U /\ U \ {x} = S /\ g[x] \in Int /\ g \in [U -> Int]
      /\ x \in U
    OBVIOUS
<1> HIDE DEF U
<1>3. SumFunction(f) = Sum(f, S) /\ SumFunction(g) = Sum(g, U)
    BY <1>2, SumDef
<1>4. Sum(g, U) = g[x] + Sum(g, S)
    BY <1>1, <1>2, SumSplit
<1>5. Sum(g, S) = Sum(f, S) /\ Sum(f, S) \in Int
    BY SumType, SumSame
<1> QED BY <1>2, <1>3, <1>4, <1>5

\* The sum of a function on a finite set is a number.
LEMMA SumInt ==
    ASSUME NEW S, IsFiniteSet(S), NEW f \in [S -> Int]
    PROVE  SumFunction(f) \in Int
BY SumDef, SumType

\* A sum is the sum of its parts.
LEMMA SumParts ==
    ASSUME NEW S, IsFiniteSet(S), NEW f \in [S -> Int], NEW U \in SUBSET S
    PROVE  SumFunction(f) = SumFunction([x \in U |-> f[x]]) + SumFunction([x \in S \ U |-> f[x]])
<1>0. IsFiniteSet(S \ U) /\ Sum(f, {}) = 0 /\ \A s \in SUBSET S : Sum(f, s) \in Int
    BY FS_Subset, FS_EmptySet, SumStep, SumType
<1>5. ASSUME NEW s \in SUBSET S, NEW x \in s PROVE Sum(f, s) = f[x] + Sum(f, s \ {x})
    BY SumSplit
<1> DEFINE T == {s \in SUBSET (S \ U) : Sum(f, U \cup s) # Sum(f, U) + Sum(f, s)}
<1>1. T = {}
    <2> SUFFICES ASSUME T # {} PROVE FALSE
        OBVIOUS
    <2>0. T \subseteq SUBSET (S \ U)
        OBVIOUS
    <2>1. PICK s \in T : \A r \in T : r \subseteq s => r = s
        <3> HIDE DEF T
        <3> QED BY <1>0, <2>0, SmallestSet
    <2>2. s # {}
        <3>1. Sum(f, U \cup {}) = Sum(f, U) + Sum(f, {})
            <4>1. U \cup {} = U /\ Sum(f, U) \in Int /\ Sum(f, {}) = 0
                BY <1>0
            <4> QED BY <4>1
        <3>2. {} \notin T
            BY <3>1
        <3> QED BY <2>1, <3>2
    <2>3. PICK x \in s : TRUE
        BY <2>2
    <2> DEFINE r == s \ {x}
    <2>4. Sum(f, U \cup r) = Sum(f, U) + Sum(f, r)
        <3>1. r \notin T
            BY <2>1
        <3> QED BY <3>1
    <2>5. Sum(f, U \cup s) = f[x] + Sum(f, U \cup r) /\ Sum(f, s) = f[x] + Sum(f, r)
        <3>1. (U \cup s) \ {x} = U \cup r /\ U \cup s \in SUBSET S /\ s \in SUBSET S
            OBVIOUS
        <3> QED BY <1>5, <3>1
    <2>6. f[x] \in Int /\ Sum(f, U) \in Int /\ Sum(f, r) \in Int
        BY <1>0
    <2> QED BY <2>1, <2>4, <2>5, <2>6
<1>2. Sum(f, S) = Sum(f, U) + Sum(f, S \ U)
    <2>1. U \cup (S \ U) = S
        OBVIOUS
    <2> QED BY <1>1, <2>1
<1>3. \A V \in SUBSET S : SumFunction([x \in V |-> f[x]]) = Sum(f, V)
    <2> TAKE V \in SUBSET S
    <2> DEFINE g == [x \in V |-> f[x]]
    <2>1. DOMAIN g = V /\ \A x \in V : g[x] = f[x]
        OBVIOUS
    <2>2. IsFiniteSet(V)
        BY FS_Subset
    <2> HIDE DEF g
    <2>3. SumFunction(g) = Sum(f, V)
        BY <2>1, <2>2, SumDef, SumSame
    <2> QED BY <2>3 DEF g
<1>4. SumFunction(f) = Sum(f, S)
    <2>1. DOMAIN f = S
        OBVIOUS
    <2> QED BY <2>1, SumDef
<1> QED BY <1>2, <1>3, <1>4

\* The sum of ones is their number, and that of zeros is zero.
LEMMA SumConstant ==
    ASSUME NEW S, IsFiniteSet(S), NEW k \in {0, 1}
    PROVE  Sum([x \in S |-> k], S) = IF k = 0 THEN 0 ELSE Cardinality(S)
<1> DEFINE f == [x \in S |-> k]
           size(s) == IF k = 0 THEN 0 ELSE Cardinality(s)
<1>0. f \in [S -> Int] /\ \A x \in S : f[x] = k
    OBVIOUS
<1> HIDE DEF f
<1>1. ASSUME NEW s \in SUBSET S, NEW x \in s
      PROVE  Sum(f, s) = k + Sum(f, s \ {x}) /\ size(s) = k + size(s \ {x})
    <2>1. Sum(f, s) = f[x] + Sum(f, s \ {x}) /\ f[x] = k
        BY <1>0, SumSplit
    <2>2. Cardinality(s \ {x}) = Cardinality(s) - 1 /\ Cardinality(s) \in Nat
        BY FS_Subset, FS_RemoveElement, FS_CardinalityType
    <2> QED BY <2>1, <2>2
<1>2. Sum(f, {}) = 0 /\ size({}) = 0
    BY FS_EmptySet, SumStep
<1> HIDE DEF size
<1> DEFINE T == {s \in SUBSET S : Sum(f, s) # size(s)}
<1>3. T = {}
    <2> SUFFICES ASSUME T # {} PROVE FALSE
        OBVIOUS
    <2>0. T \subseteq SUBSET S
        OBVIOUS
    <2>1. PICK s \in T : \A r \in T : r \subseteq s => r = s
        <3> HIDE DEF T
        <3> QED BY <2>0, SmallestSet
    <2>2. PICK x \in s : TRUE
        BY <1>2, <2>1
    <2>3. Sum(f, s \ {x}) = size(s \ {x})
        <3>1. s \ {x} \notin T
            BY <2>1
        <3> QED BY <3>1
    <2> QED BY <1>1, <2>1, <2>3
<1>4. Sum(f, S) = size(S)
    BY <1>3
<1> QED BY <1>4 DEF f, size

LEMMA SumOnes ==
    ASSUME NEW S, IsFiniteSet(S)
    PROVE  SumFunction([x \in S |-> 1]) = Cardinality(S)
<1>1. Sum([x \in S |-> 1], S) = Cardinality(S)
    <2>1. PICK k \in {0, 1} : k = 1
        OBVIOUS
    <2>2. Sum([x \in S |-> k], S) = IF k = 0 THEN 0 ELSE Cardinality(S)
        BY SumConstant
    <2> QED BY <2>1, <2>2
<1> QED BY <1>1, SumDef

LEMMA SumZeros ==
    ASSUME NEW S, IsFiniteSet(S)
    PROVE  SumFunction([x \in S |-> 0]) = 0
<1>1. Sum([x \in S |-> 0], S) = 0
    BY SumConstant
<1> QED BY <1>1, SumDef

-----------------------------------------------------------------------------
(* Then what the trades owe.                                               *)

\* The trades that were paid and not delivered, and what each of them holds.
Owing == debited \ credited
Owed == [t \in Owing |-> trade[t].amount]

\* What the balance of the books rests on: a handler is past the debit
\* (the credit) it applied, so that it applies none twice, and the record of a
\* trade that still owes its amount is kept.
Ledger ==
    /\ IsFiniteSet(debited)
    /\ \A t \in debited : pc[t] \in {"commitTo", "done", "failed"}
    /\ \A t \in credited : pc[t] \in {"done", "failed"}
    /\ \A t \in Owing : trade[t] \in Deal

Balanced == Ledger /\ Conservation

\* Both sums are numbers.
LEMMA SumTypes ==
    ASSUME IInv, Ledger
    PROVE  /\ SumFunction(bag) \in Int /\ SumFunction(Owed) \in Int
           /\ IsFiniteSet(Owing) /\ Owed \in [Owing -> Int]
<1>1. bag \in [Player -> Int]
    BY DEF IInv, TypeOK
<1>2. SumFunction(bag) \in Int
    BY <1>1, PlayerAssumption, SumInt
<1>3. IsFiniteSet(Owing)
    BY FS_Subset DEF Ledger, Owing
<1>4. \A t \in Owing : trade[t].amount \in Int
    BY BoundAssumption DEF Ledger, Deal
<1>5. Owed \in [Owing -> Int]
    BY <1>4 DEF Owed
<1> QED BY <1>2, <1>3, <1>5, SumInt

\* A world that adjusts a balance changes the total as much.
LEMMA BagStep ==
    ASSUME IInv, NEW p \in Player, NEW delta \in Int, Adjust(p, delta)
    PROVE  SumFunction(bag') = SumFunction(bag) + delta
<1>1. bag \in [Player -> Int]
    BY DEF IInv, TypeOK
<1>2. bag' = [bag EXCEPT ![p] = bag[p] + delta]
    BY DEF Adjust
<1> QED BY <1>1, <1>2, PlayerAssumption, SumChanged

\* A step that applies no debit or credit, and keeps the records of the trades
\* that owe, leaves what they owe alone.
LEMMA OwedSame ==
    ASSUME UNCHANGED <<debited, credited>>, \A t \in Owing : trade'[t] = trade[t]
    PROVE  Owing' = Owing /\ Owed' = Owed
BY DEF Owing, Owed

\* The books of the initial state balance.
LEMMA InitBalanced == Init => Balanced
<1> SUFFICES ASSUME Init PROVE Balanced
    OBVIOUS
<1>1. IInv
    BY InitIInv
<1>2. Ledger
    BY FS_EmptySet DEF Init, Ledger, Owing
<1>3. SumFunction(Owed) = 0
    <2>1. DOMAIN Owed = {}
        BY DEF Init, Owed, Owing
    <2> QED BY <2>1, SumDef, SumStep, FS_EmptySet
<1>4. SumFunction(bag) \in Int
    BY <1>1, <1>2, SumTypes
<1>5. SumFunction(bag) + SumFunction(Owed) = books
    BY <1>3, <1>4 DEF Init
<1> QED BY <1>2, <1>5 DEF Balanced, Conservation, Owed, Owing

\* Starting a trade and its prepares apply nothing.
LEMMA QuietBalanced ==
    ASSUME IInv, Balanced, NEW t \in Trade, Begin(t) \/ PrepareFrom(t) \/ PrepareTo(t)
    PROVE  Balanced'
<1>1. UNCHANGED <<bag, debited, credited, books>>
    BY DEF Begin, PrepareFrom, PrepareTo, history
<1>2. pc[t] \notin {"commitTo", "done", "failed"}
    BY DEF Begin, PrepareFrom, PrepareTo
<1>3. t \notin debited /\ t \notin credited /\ t \notin Owing
    BY <1>2 DEF Balanced, Ledger, Owing
<1>4. \A u \in Trade \ {t} : pc'[u] = pc[u] /\ trade'[u] = trade[u]
    BY DEF IInv, TypeOK, Begin, PrepareFrom, PrepareTo, Continue, Return, Goto
<1>5. debited \subseteq Trade \ {t} /\ credited \subseteq Trade \ {t} /\ Owing \subseteq Trade \ {t}
    BY <1>3 DEF IInv, TypeOK, Owing
<1>6. Owing' = Owing /\ Owed' = Owed
    BY <1>1, <1>4, <1>5, OwedSame
<1>7. Ledger'
    BY <1>1, <1>4, <1>5, <1>6 DEF Balanced, Ledger
<1> QED BY <1>1, <1>6, <1>7 DEF Balanced, Conservation, Owed, Owing

\* The debit: what leaves the payer's bag is owed from then on.
LEMMA CommitFromBalanced ==
    ASSUME IInv, Balanced, NEW t \in Trade, CommitFrom(t)
    PROVE  Balanced'
<1> DEFINE d == trade[t]
<1>0. pc[t] = "commitFrom" /\ pc[t] \in Running /\ UNCHANGED <<credited, books>>
    BY DEF CommitFrom, Running
<1>1. d \in Deal /\ d.from \in Player /\ d.amount \in Nat
    BY <1>0, DealOf
<1>2. t \notin debited /\ t \notin credited /\ t \notin Owing
    BY <1>0 DEF Balanced, Ledger, Owing
<1>3. /\ \A u \in Trade \ {t} : pc'[u] = pc[u] /\ trade'[u] = trade[u]
      /\ pc'[t] \in {"commitTo", "failed"}
    BY DEF IInv, TypeOK, CommitFrom, Default, Continue, Return, Goto
<1>4. debited \subseteq Trade \ {t} /\ credited \subseteq Trade \ {t} /\ Owing \subseteq Trade \ {t}
    BY <1>2 DEF IInv, TypeOK, Owing
<1>5. CASE Adjustable(d.from, d.fromMap, - d.amount)
    <2>1. /\ Adjust(d.from, - d.amount) /\ debited' = debited \cup {t}
          /\ trade' = trade
        BY <1>5 DEF CommitFrom, Default, Continue
    <2>2. Owing' = Owing \cup {t} /\ \A u \in Owing : u # t
        BY <1>0, <1>2, <2>1 DEF Owing
    <2>3. Ledger'
        <3>1. IsFiniteSet(debited')
            BY <2>1, FS_AddElement DEF Balanced, Ledger
        <3>2. \A u \in debited' : pc'[u] \in {"commitTo", "done", "failed"}
            BY <1>3, <1>4, <2>1 DEF Balanced, Ledger
        <3>3. \A u \in credited' : pc'[u] \in {"done", "failed"}
            BY <1>0, <1>3, <1>4 DEF Balanced, Ledger
        <3>4. \A u \in Owing' : trade'[u] \in Deal
            BY <1>1, <2>1, <2>2 DEF Balanced, Ledger
        <3> QED BY <3>1, <3>2, <3>3, <3>4 DEF Ledger
    <2>4. /\ IsFiniteSet(Owing) /\ Owed \in [Owing -> Int]
          /\ SumFunction(bag) \in Int /\ SumFunction(Owed) \in Int
        BY SumTypes DEF Balanced
    <2>5. Owed' \in [Owing \cup {t} -> Int] /\ Owed'[t] = d.amount
        BY <1>1, <2>1, <2>2, <2>4 DEF Owed
    <2>6. \A u \in Owing : Owed'[u] = Owed[u]
        BY <2>1, <2>2 DEF Owed
    <2>7. SumFunction(Owed') = SumFunction(Owed) + d.amount
        <3> DEFINE owed == Owed'
        <3>1. owed \in [Owing \cup {t} -> Int] /\ owed[t] = d.amount
            BY <2>5
        <3>2. \A u \in Owing : owed[u] = Owed[u]
            BY <2>6
        <3>3. /\ IsFiniteSet(Owing) /\ t \notin Owing
              /\ Owed \in [Owing -> Int] /\ owed \in [Owing \cup {t} -> Int]
            BY <1>2, <2>4, <3>1
        <3> HIDE DEF d, owed
        <3>4. SumFunction(owed) = SumFunction(Owed) + owed[t]
            BY <3>2, <3>3, SumExtended
        <3> QED BY <3>1, <3>4 DEF owed
    <2>8. SumFunction(bag') = SumFunction(bag) + (- d.amount)
        <3>1. - d.amount \in Int
            BY <1>1
        <3> HIDE DEF d
        <3> QED BY <1>1, <2>1, <3>1, BagStep
    <2>9. SumFunction(bag) + SumFunction(Owed) = books
        BY DEF Balanced, Conservation, Owed, Owing
    <2>10. SumFunction(bag') + SumFunction(Owed') = books'
        <3> HIDE DEF d
        <3> QED BY <1>0, <1>1, <2>4, <2>7, <2>8, <2>9
    <2> QED BY <2>3, <2>10 DEF Balanced, Conservation, Owed, Owing
<1>6. CASE ~ Adjustable(d.from, d.fromMap, - d.amount)
    <2>1. UNCHANGED <<bag, debited>>
        BY <1>6 DEF CommitFrom
    <2>2. Owing' = Owing /\ Owed' = Owed
        BY <1>0, <1>3, <1>4, <2>1, OwedSame
    <2>3. Ledger'
        BY <1>0, <1>3, <1>4, <2>1, <2>2 DEF Balanced, Ledger
    <2> QED BY <1>0, <2>1, <2>2, <2>3 DEF Balanced, Conservation, Owed, Owing
<1> QED BY <1>5, <1>6

\* The credit: what the receiver gets is no longer owed; without it, it is.
LEMMA CommitToBalanced ==
    ASSUME IInv, Balanced, NEW t \in Trade, CommitTo(t)
    PROVE  Balanced'
<1> DEFINE d == trade[t]
<1>0. pc[t] = "commitTo" /\ pc[t] \in Running /\ UNCHANGED <<debited, books>>
    BY DEF CommitTo, Running
<1>1. d \in Deal /\ d.to \in Player /\ d.amount \in Nat
    BY <1>0, DealOf
<1>2. t \in debited /\ t \notin credited /\ t \in Owing
    BY <1>0 DEF Balanced, Ledger, Owing, IInv, DebitFirst
<1>3. /\ \A u \in Trade \ {t} : pc'[u] = pc[u] /\ trade'[u] = trade[u]
      /\ pc'[t] \in {"done", "failed"}
    BY DEF IInv, TypeOK, CommitTo, Default, Continue, Return, Goto
<1>4. debited \subseteq Trade /\ credited \subseteq Trade \ {t} /\ Owing \subseteq Trade
    BY <1>2 DEF IInv, TypeOK, Owing
<1>5. CASE Adjustable(d.to, d.toMap, d.amount)
    <2>1. Adjust(d.to, d.amount) /\ credited' = credited \cup {t}
        BY <1>5 DEF CommitTo
    <2>2. Owing = Owing' \cup {t} /\ t \notin Owing'
        BY <1>0, <1>2, <2>1 DEF Owing
    <2>3. \A u \in Owing' : trade'[u] = trade[u]
        BY <1>3, <1>4, <2>2
    <2>4. Ledger'
        <3>1. IsFiniteSet(debited') /\ \A u \in debited' : pc'[u] \in {"commitTo", "done", "failed"}
            BY <1>0, <1>3, <1>4 DEF Balanced, Ledger
        <3>2. \A u \in credited' : pc'[u] \in {"done", "failed"}
            BY <1>3, <1>4, <2>1 DEF Balanced, Ledger
        <3>3. \A u \in Owing' : trade'[u] \in Deal
            BY <2>2, <2>3 DEF Balanced, Ledger
        <3> QED BY <3>1, <3>2, <3>3 DEF Ledger
    <2>5. /\ IsFiniteSet(Owing) /\ Owed \in [Owing -> Int]
          /\ SumFunction(bag) \in Int /\ SumFunction(Owed) \in Int
        BY SumTypes DEF Balanced
    <2>6. Owed[t] = d.amount
        BY <1>2 DEF Owed
    <2>7. IsFiniteSet(Owing') /\ Owed' \in [Owing' -> Int] /\ \A u \in Owing' : Owed[u] = Owed'[u]
        <3>1. IsFiniteSet(Owing')
            BY <2>2, <2>5, FS_Subset
        <3>2. \A u \in Owing' : Owed'[u] = trade[u].amount /\ Owed[u] = trade[u].amount
            BY <2>2, <2>3 DEF Owed
        <3>3. \A u \in Owing' : Owed'[u] \in Int
            BY <2>2, <2>5, <3>2
        <3>4. Owed' = [u \in Owing' |-> Owed'[u]]
            BY DEF Owed
        <3> QED BY <3>1, <3>2, <3>3, <3>4
    <2>8. SumFunction(Owed) = SumFunction(Owed') + d.amount
        <3>1. Owed \in [Owing' \cup {t} -> Int]
            BY <2>2, <2>5
        <3> HIDE DEF d
        <3> QED BY <2>2, <2>6, <2>7, <3>1, SumExtended
    <2>9. SumFunction(bag') = SumFunction(bag) + d.amount
        <3>1. d.amount \in Int
            BY <1>1
        <3> HIDE DEF d
        <3> QED BY <1>1, <2>1, <3>1, BagStep
    <2>10. SumFunction(Owed') \in Int
        BY <2>7, SumInt
    <2>11. SumFunction(bag) + SumFunction(Owed) = books
        BY DEF Balanced, Conservation, Owed, Owing
    <2>12. SumFunction(bag') + SumFunction(Owed') = books'
        <3> HIDE DEF d
        <3> QED BY <1>0, <1>1, <2>5, <2>8, <2>9, <2>10, <2>11
    <2> QED BY <2>4, <2>12 DEF Balanced, Conservation, Owed, Owing
<1>6. CASE ~ Adjustable(d.to, d.toMap, d.amount)
    <2>1. UNCHANGED <<bag, credited, trade>>
        BY <1>6 DEF CommitTo, Default, Continue
    <2>2. Owing' = Owing /\ Owed' = Owed
        BY <1>0, <2>1, OwedSame
    <2>3. Ledger'
        BY <1>0, <1>3, <1>4, <2>1, <2>2 DEF Balanced, Ledger
    <2> QED BY <1>0, <2>1, <2>2, <2>3 DEF Balanced, Conservation, Owed, Owing
<1> QED BY <1>5, <1>6

\* What else happens to a player is entered in the books at once.
LEMMA PlayerBalanced ==
    ASSUME IInv, Balanced, NEW p \in Player,
           \/ BuyItem(p) \/ Gain(p) \/ Leave(p) \/ Arrive(p)
           \/ Reroute(p) \/ Logout(p) \/ RemoveLoggedOut(p)
    PROVE  Balanced'
<1>1. UNCHANGED <<pc, trade, debited, credited>>
    BY DEF BuyItem, Gain, Leave, Arrive, Reroute, Logout, RemoveLoggedOut, history
<1>2. Owing' = Owing /\ Owed' = Owed
    BY <1>1, OwedSame
<1>3. Ledger'
    BY <1>1, <1>2 DEF Balanced, Ledger
<1>4. SumFunction(bag) \in Int /\ SumFunction(Owed) \in Int
    BY SumTypes DEF Balanced
<1>5. SumFunction(bag) + SumFunction(Owed) = books
    BY DEF Balanced, Conservation, Owed, Owing
<1>6. PICK delta \in Int : SumFunction(bag') = SumFunction(bag) + delta /\ books' = books + delta
    <2>1. CASE BuyItem(p)
        <3>1. PICK price \in Price : Adjust(p, - price) /\ books' = books - price
            BY <2>1 DEF BuyItem
        <3>2. price \in Nat /\ - price \in Int
            BY PriceAssumption
        <3>3. SumFunction(bag') = SumFunction(bag) + (- price)
            BY <3>1, <3>2, BagStep
        <3>4. books' = books + (- price)
            BY <1>4, <1>5, <3>1, <3>2
        <3> QED BY <3>2, <3>3, <3>4
    <2>2. CASE Gain(p)
        BY <2>2, BagStep DEF Gain
    <2>3. CASE Leave(p) \/ Arrive(p) \/ Reroute(p) \/ Logout(p) \/ RemoveLoggedOut(p)
        <3>1. UNCHANGED <<bag, books>>
            BY <2>3 DEF Leave, Arrive, Reroute, Logout, RemoveLoggedOut, history
        <3>2. SumFunction(bag') = SumFunction(bag) + 0 /\ books' = books + 0
            BY <1>4, <1>5, <3>1
        <3> QED BY <3>2
    <2> QED BY <2>1, <2>2, <2>3
<1>7. SumFunction(bag') + SumFunction(Owed') = books'
    BY <1>2, <1>4, <1>5, <1>6
<1> QED BY <1>3, <1>7 DEF Balanced, Conservation, Owed, Owing

\* The books balance: no interleaving of trades, purchases, rewards, map
\* switches, logouts and lost answers makes or destroys a treasure, other than
\* those a broken trade still owes.
THEOREM BooksBalance == Spec => []Conservation
<1>1. IInv /\ Balanced /\ [Next]_vars => Balanced'
    <2> SUFFICES ASSUME IInv, Balanced, [Next]_vars PROVE Balanced'
        OBVIOUS
    <2>1. CASE UNCHANGED vars
        BY <2>1 DEF vars, history, Balanced, Ledger, Owing, Conservation
    <2>2. ASSUME NEW t \in Trade, Begin(t) \/ PrepareFrom(t) \/ PrepareTo(t) PROVE Balanced'
        BY <2>2, QuietBalanced
    <2>3. ASSUME NEW t \in Trade, CommitFrom(t) PROVE Balanced'
        BY <2>3, CommitFromBalanced
    <2>4. ASSUME NEW t \in Trade, CommitTo(t) PROVE Balanced'
        BY <2>4, CommitToBalanced
    <2>5. ASSUME NEW p \in Player,
                 \/ BuyItem(p) \/ Gain(p) \/ Leave(p) \/ Arrive(p)
                 \/ Reroute(p) \/ Logout(p) \/ RemoveLoggedOut(p)
          PROVE Balanced'
        BY <2>5, PlayerBalanced
    <2> QED BY <2>1, <2>2, <2>3, <2>4, <2>5 DEF Next
<1>2. Balanced => Conservation
    BY DEF Balanced
<1> QED BY InitBalanced, Inductive, <1>1, <1>2, PTL DEF Spec

-----------------------------------------------------------------------------
(*                                                                         *)
(* The worlds of the maps (ArenaWorld): nobody overlaps, no loot is lost.  *)
(*                                                                         *)
CONSTANTS Users, Cells, InitHP, NpcHP, MaxPotions, PotionCap, PotionPrice, WeaponPrice,
          AttackRange, MinNPCs, MaxTreasures, RespawnOnLogin, MaxMint, MaxRestores
VARIABLES players, npcs, treasures, nextNPC, nextTreasure, busy, online, profile, saved, restores,
          minted, spent
Arena == INSTANCE ArenaWorld

\* The map has a cell for every player and NPC, and one more if a player that
\* left can be restored beside itself.
Room == \/ Cardinality(Users) + MinNPCs < Cells
        \/ MaxRestores = 0 /\ Cardinality(Users) + MinNPCs <= Cells

\* No two of the living in a cell, where there is room.
Living(ps) == {u \in DOMAIN ps : ps[u].alive}
Spread(ps, ns) == Room =>
    /\ \A u, v \in Living(ps) : ps[u].cell = ps[v].cell => u = v
    /\ \A i, j \in DOMAIN ns : ns[i].cell = ns[j].cell => i = j
    /\ \A u \in Living(ps), i \in DOMAIN ns : ps[u].cell # ns[i].cell

\* The tables of players, NPCs, profiles and treasures.
Body == [cell : Arena!Cell, hp : Int, potions : Int, loot : Int, alive : BOOLEAN,
         respawn : {"zero", "ahead", "past"}]
Guard == [cell : Arena!Cell, hp : Int]
Bodies(ps) == ps \in [DOMAIN ps -> Body] /\ DOMAIN ps \subseteq Users
Guards(ns) == /\ ns \in [DOMAIN ns -> Guard]
              /\ IsFiniteSet(DOMAIN ns) /\ Cardinality(DOMAIN ns) <= MinNPCs

Kept == [cell : Arena!Cell, hp : Int, potions : Int, loot : Int, alive : BOOLEAN]
\* Whoever has no profile is in the world.
Profiles == /\ profile \in [DOMAIN profile -> Kept]
            /\ Users \ DOMAIN profile \subseteq DOMAIN players \cap online
\* Only a failover leaves a player in the world that has no session.
Homes == restores \in 0..MaxRestores /\ (restores = 0 => DOMAIN players \subseteq online)
Chests(ts) == ts \in [DOMAIN ts -> [cell : Arena!Cell, value : Int]] /\ IsFiniteSet(DOMAIN ts)
\* A checkpoint is a map of the same kind.
Backup == saved # <<>> => /\ Bodies(saved.players) /\ Guards(saved.npcs) /\ Chests(saved.treasures)
                          /\ Spread(saved.players, saved.npcs)

\* The inductive invariant.
AInv == /\ Bodies(players) /\ Guards(npcs) /\ Chests(treasures) /\ Spread(players, npcs)
        /\ Profiles /\ Homes /\ Backup

\* The sets of the model are those of the library.
LEMMA SameSets ==
    ASSUME NEW S, IsFiniteSet(S)
    PROVE  Arena!IsFiniteSet(S) /\ Arena!Cardinality(S) = Cardinality(S)
    BY DEF Arena!Cardinality, Cardinality, Arena!IsFiniteSet, IsFiniteSet

\* The players and the NPCs can fill no more cells than they are.
LEMMA CellLeft ==
    ASSUME Cells \in Nat, MinNPCs \in Nat, Guards(npcs), NEW A, IsFiniteSet(A),
           NEW at \in [A -> Arena!Cell], Cardinality(A) + MinNPCs < Cells
    PROVE  \E c \in Arena!Cell : (\A u \in A : at[u] # c) /\ \A i \in DOMAIN npcs : npcs[i].cell # c
<1> DEFINE D == DOMAIN npcs
           g == [i \in D |-> npcs[i].cell]
           R == {at[u] : u \in A}
           T == {g[i] : i \in D}
<1>1. IsFiniteSet(R) /\ Cardinality(R) <= Cardinality(A)
  <2>1. at \in Surjection(A, R)
      BY DEF Surjection
  <2> QED BY <2>1, FS_Surjection
<1>2. IsFiniteSet(T) /\ Cardinality(T) <= Cardinality(D)
  <2>1. g \in Surjection(D, T)
      BY DEF Surjection
  <2>2. IsFiniteSet(D)
      BY DEF Guards
  <2> HIDE DEF g
  <2> QED BY <2>1, <2>2, FS_Surjection
<1>3. IsFiniteSet(R \cup T) /\ Cardinality(R \cup T) <= Cardinality(R) + Cardinality(T)
  <2>1. Cardinality(R \cup T) = Cardinality(R) + Cardinality(T) - Cardinality(R \cap T)
      BY <1>1, <1>2, FS_Union
  <2>2. IsFiniteSet(R \cap T)
      BY <1>1, FS_Subset
  <2>3. Cardinality(R) \in Nat /\ Cardinality(T) \in Nat /\ Cardinality(R \cap T) \in Nat
      BY <1>1, <1>2, <2>2, FS_CardinalityType
  <2> QED BY <1>1, <1>2, <2>1, <2>3, FS_Union
<1>4. Cardinality(Arena!Cell) = Cells
    BY FS_Interval DEF Arena!Cell
<1>5. ~(Arena!Cell \subseteq R \cup T)
  <2>1. Cardinality(D) <= MinNPCs /\ IsFiniteSet(D)
      BY DEF Guards
  <2>2. Cardinality(A) \in Nat /\ Cardinality(D) \in Nat /\ Cardinality(R \cup T) \in Nat
        /\ Cardinality(R) \in Nat /\ Cardinality(T) \in Nat
      BY <1>1, <1>2, <1>3, <2>1, FS_CardinalityType
  <2>3. Cardinality(R \cup T) < Cells
      BY <1>1, <1>2, <1>3, <2>1, <2>2
  <2>4. Arena!Cell \subseteq R \cup T => Cardinality(Arena!Cell) <= Cardinality(R \cup T)
      BY <1>3, FS_Subset
  <2> QED BY <1>4, <2>2, <2>3, <2>4
<1> QED BY <1>5

\* A player that enters or revives finds a free cell.
LEMMA SafeSpot ==
    ASSUME Arena!ArenaAssumption, AInv, NEW u \in Users, NEW ignore, ignore \subseteq {u},
           u \notin online \/ ignore = {u}, NEW c \in Arena!Cell,
               NEW spot \in Arena!SafePositions(c, ignore)
    PROVE  spot \in Arena!Cell /\ (Room => Arena!Walkable(spot, ignore))
<1>0. spot \in Arena!Cell
    BY DEF Arena!SafePositions, Arena!Open, Arena!Spawn, Arena!Cell, Arena!ArenaAssumption
<1> SUFFICES ASSUME Room PROVE Arena!Walkable(spot, ignore)
    BY <1>0
<1> DEFINE A == Arena!Alive \ ignore
           at == [v \in A |-> players[v].cell]
<1>1. /\ A \subseteq Users /\ IsFiniteSet(Users)
      /\ IsFiniteSet(A) /\ Cardinality(A) <= Cardinality(Users)
  <2>1. A \subseteq Users
      BY DEF AInv, Bodies, Arena!Alive, Arena!Present
  <2>2. IsFiniteSet(Users)
      BY DEF Arena!ArenaAssumption, Arena!IsFiniteSet, IsFiniteSet
  <2> QED BY <2>1, <2>2, FS_Subset
<1>2. Cardinality(A) + MinNPCs < Cells
  <2>0. /\ Cardinality(A) \in Nat /\ Cardinality(Users) \in Nat /\ MinNPCs \in Nat
        /\ Cells \in Nat /\ MaxRestores \in Nat
      BY <1>1, FS_CardinalityType DEF Arena!ArenaAssumption
  <2>1. CASE Cardinality(Users) + MinNPCs < Cells
      BY <1>1, <2>0, <2>1
  <2>2. CASE MaxRestores = 0 /\ Cardinality(Users) + MinNPCs <= Cells
    <3>1. u \notin A
        BY <2>2 DEF AInv, Homes, Arena!Alive, Arena!Present
    <3>2. Cardinality(A) # Cardinality(Users)
        BY <1>1, <3>1, FS_Subset
    <3> QED BY <1>1, <2>0, <2>2, <3>2
  <2> QED BY <2>1, <2>2 DEF Room
<1>3. at \in [A -> Arena!Cell]
    BY DEF AInv, Bodies, Body, Arena!Alive, Arena!Present
<1>4. PICK o \in Arena!Cell : (\A v \in A : at[v] # o) /\ \A i \in DOMAIN npcs : npcs[i].cell # o
  <2>1. Cells \in Nat /\ MinNPCs \in Nat /\ Guards(npcs)
      BY DEF Arena!ArenaAssumption, AInv
  <2> HIDE DEF A, at
  <2> QED BY <1>1, <1>2, <1>3, <2>1, CellLeft
<1>5. o \in Arena!Open(ignore)
    BY <1>4 DEF Arena!Open, Arena!Walkable
<1> QED BY <1>5 DEF Arena!SafePositions, Arena!Open

\* Somebody that is put into a free cell.
LEMMA SpreadWith ==
    ASSUME Spread(players, npcs), NEW u, NEW ignore \in {{}, {u}}, NEW p,
           Room => Arena!Walkable(p.cell, ignore)
    PROVE  Spread(Arena!With(players, u, p), npcs)
    BY DEF Spread, Living, Arena!With, Arena!Walkable, Arena!Alive, Arena!Present

\* Fewer of the living, each in its cell.
LEMMA SpreadFewer ==
    ASSUME NEW ps, NEW ns, NEW qs, NEW ms, Spread(ps, ns),
           Living(qs) \subseteq Living(ps), \A u \in Living(qs) : qs[u].cell = ps[u].cell,
           DOMAIN ms \subseteq DOMAIN ns, \A i \in DOMAIN ms : ms[i].cell = ns[i].cell
    PROVE  Spread(qs, ms)
    BY DEF Spread

\* One more player, or another state of one, is a table of players again.
LEMMA BodiesWith ==
    ASSUME NEW ps, Bodies(ps), NEW u \in Users, NEW p \in Body
    PROVE  Bodies(Arena!With(ps, u, p))
    BY DEF Bodies, Arena!With

\* So is the same table with one of its players changed.
LEMMA BodiesExcept ==
    ASSUME NEW ps, Bodies(ps), NEW u, NEW p, u \in DOMAIN ps => p \in Body
    PROVE  Bodies([ps EXCEPT ![u] = p])
    BY DEF Bodies

\* A new world.
LEMMA AInit == ASSUME Arena!ArenaAssumption, Arena!Init PROVE AInv
<1> USE DEF Arena!Init
<1>1. Bodies(players) /\ Living(players) = {} /\ Backup
    BY DEF Bodies, Living, Backup
<1>2. /\ npcs \in [0..(MinNPCs - 1) -> [cell : Arena!Cell, hp : {NpcHP}]]
      /\ MinNPCs \in Nat /\ NpcHP \in Nat
    BY DEF Arena!FreshNpcs, Arena!ArenaAssumption
<1>3. Guards(npcs)
  <2>1. IsFiniteSet(DOMAIN npcs) /\ Cardinality(DOMAIN npcs) <= MinNPCs
    <3>1. DOMAIN npcs = 0..(MinNPCs - 1)
        BY <1>2
    <3>2. /\ IsFiniteSet(0..(MinNPCs - 1))
          /\ Cardinality(0..(MinNPCs - 1)) = IF 0 > MinNPCs - 1 THEN 0 ELSE (MinNPCs - 1) - 0 + 1
        BY <1>2, FS_Interval
    <3> QED BY <1>2, <3>1, <3>2
  <2> QED BY <1>2, <2>1 DEF Guards, Guard
<1>4. Spread(players, npcs)
    BY <1>1 DEF Spread, Arena!Fresh
<1>5. Profiles /\ Homes
  <2>1. Arena!FreshProfile \in Kept
      BY DEF Arena!FreshProfile, Kept, Arena!ArenaAssumption, Arena!Cell, Arena!Spawn
  <2> QED BY <2>1 DEF Profiles, Homes, Arena!ArenaAssumption
<1>6. Chests(treasures)
  <2>1. treasures \in [0..(MaxTreasures \div 2 - 1) -> [cell : Arena!Cell, value : {1}]]
      BY DEF Arena!FreshChests
  <2>2. MaxTreasures \div 2 - 1 \in Int
      BY DEF Arena!ArenaAssumption
  <2>3. IsFiniteSet(0..(MaxTreasures \div 2 - 1))
      BY <2>2, FS_Interval
  <2> QED BY <2>1, <2>3 DEF Chests
<1> QED BY <1>1, <1>3, <1>4, <1>5, <1>6 DEF AInv

\* An NPC more, while there are fewer than the map shall have.
LEMMA GuardsWith ==
    ASSUME NEW ns, Guards(ns), MinNPCs \in Nat, Cardinality(DOMAIN ns) < MinNPCs, NEW k,
        NEW p \in Guard
    PROVE  Guards(Arena!With(ns, k, p))
<1> DEFINE ms == Arena!With(ns, k, p)
<1>1. DOMAIN ms = DOMAIN ns \cup {k} /\ ms \in [DOMAIN ms -> Guard]
    BY DEF Guards, Arena!With
<1>2. IsFiniteSet(DOMAIN ms) /\ Cardinality(DOMAIN ms) <= MinNPCs
  <2>1. Cardinality(DOMAIN ns) \in Nat /\ IsFiniteSet(DOMAIN ns)
      BY FS_CardinalityType DEF Guards
  <2>2. /\ IsFiniteSet(DOMAIN ns \cup {k})
        /\ Cardinality(DOMAIN ns \cup {k}) = IF k \in DOMAIN ns THEN Cardinality(DOMAIN ns)
                                             ELSE Cardinality(DOMAIN ns) + 1
      BY <2>1, FS_AddElement
  <2> QED BY <1>1, <2>1, <2>2
<1> QED BY <1>1, <1>2 DEF Guards

\* Fewer NPCs.
LEMMA GuardsFewer ==
    ASSUME NEW ns, Guards(ns), MinNPCs \in Nat, NEW S, S \subseteq DOMAIN ns
    PROVE  Guards(Arena!Restrict(ns, S))
<1>1. /\ DOMAIN Arena!Restrict(ns, S) = S
      /\ Arena!Restrict(ns, S) \in [S -> Guard]
    BY DEF Guards, Arena!Restrict
<1>2. /\ IsFiniteSet(S) /\ Cardinality(S) <= Cardinality(DOMAIN ns)
      /\ Cardinality(S) \in Nat /\ Cardinality(DOMAIN ns) \in Nat
    BY FS_Subset, FS_CardinalityType DEF Guards
<1> QED BY <1>1, <1>2 DEF Guards

\* An NPC that changes.
LEMMA GuardsExcept ==
    ASSUME NEW ns, Guards(ns), NEW i, NEW p, i \in DOMAIN ns => p \in Guard
    PROVE  Guards([ns EXCEPT ![i] = p])
    BY DEF Guards

-----------------------------------------------------------------------------
\* Whoever logs in or comes from another map gets a free cell.
LEMMA EnterKeeps ==
    ASSUME Arena!ArenaAssumption, AInv, NEW u \in Users, NEW here \in BOOLEAN, Arena!Enter(u,
        here)
    PROVE  AInv'
<1>1. /\ u \notin online /\ online' = online \cup {u}
      /\ profile' = Arena!Restrict(profile, DOMAIN profile \ {u})
      /\ UNCHANGED <<npcs, treasures, saved, restores>>
    BY DEF Arena!Enter, Arena!things, Arena!books
<1>2. u \in DOMAIN profile /\ profile[u] \in Kept
    BY <1>1 DEF AInv, Profiles
<1>3. PICK c \in Arena!SafePositions(IF here THEN profile[u].cell ELSE Arena!Spawn, {}) :
        players' = Arena!With(players, u,
          [cell |-> c, hp |-> Arena!ValueOr(profile[u].hp, InitHP),
           potions |-> Arena!ValueOr(profile[u].potions, MaxPotions), loot |-> profile[u].loot,
           alive |-> profile[u].alive,
           respawn |-> IF RespawnOnLogin /\ ~profile[u].alive THEN "ahead" ELSE "zero"])
    BY DEF Arena!Enter
<1> DEFINE p == [cell |-> c, hp |-> Arena!ValueOr(profile[u].hp, InitHP),
                potions |-> Arena!ValueOr(profile[u].potions, MaxPotions),
                    loot |-> profile[u].loot,
                alive |-> profile[u].alive,
                respawn |-> IF RespawnOnLogin /\ ~profile[u].alive THEN "ahead" ELSE "zero"]
<1>4. c \in Arena!Cell /\ (Room => Arena!Walkable(c, {}))
  <2>1. Arena!Spawn \in Arena!Cell /\ profile[u].cell \in Arena!Cell
      BY <1>2 DEF Kept, Arena!Spawn, Arena!Cell, Arena!ArenaAssumption
  <2> QED BY <1>1, <2>1, SafeSpot
<1>5. p \in Body /\ p.cell = c
  <2>1. c \in Arena!Cell
      BY <1>4
  <2>2. InitHP \in Int /\ MaxPotions \in Int
      BY DEF Arena!ArenaAssumption
  <2> QED BY <1>2, <2>1, <2>2 DEF Body, Kept, Arena!ValueOr
<1>6. players' = Arena!With(players, u, p)
    BY <1>3
<1> HIDE DEF p
<1>7. Bodies(players)' /\ Spread(players, npcs)'
    BY <1>1, <1>4, <1>5, <1>6, BodiesWith, SpreadWith DEF AInv
<1>8. Guards(npcs)' /\ Chests(treasures)' /\ Profiles' /\ Homes' /\ Backup'
    BY <1>1, <1>2, <1>6 DEF AInv, Profiles, Homes, Backup, Arena!Restrict, Arena!With, Bodies,
        Guards, Chests, Spread
<1> QED BY <1>1, <1>7, <1>8 DEF AInv

\* Whoever leaves frees its cell and keeps a profile.
LEMMA LeaveKeeps ==
    ASSUME AInv, NEW u \in Users, Arena!Leave(u)
    PROVE  AInv'
<1>0. u \in online /\ online' = online \ {u} /\ UNCHANGED <<npcs, treasures, saved, restores>>
    BY DEF Arena!Leave, Arena!things, Arena!books
<1>1. CASE u \notin DOMAIN players
  <2>1. UNCHANGED <<players, profile>>
      BY <1>1 DEF Arena!Leave, Arena!Present
  <2> QED BY <1>0, <1>1, <2>1 DEF AInv, Bodies, Guards, Chests, Spread, Living, Profiles,
        Homes, Backup
<1>2. CASE u \in DOMAIN players
  <2>1. /\ profile' = Arena!With(profile, u, Arena!ProfileOf(u))
        /\ players' = Arena!Restrict(players, DOMAIN players \ {u})
      BY <1>2 DEF Arena!Leave, Arena!Present
  <2>2. Arena!ProfileOf(u) \in Kept
      BY <1>2 DEF Arena!ProfileOf, Arena!FreshProfile, AInv, Bodies, Body, Kept
  <2>3. Bodies(players)'
      BY <2>1 DEF AInv, Bodies, Arena!Restrict
  <2>4. Spread(players, npcs)'
      BY <1>0, <2>1 DEF AInv, Spread, Living, Arena!Restrict
  <2>5. Profiles'
      BY <1>0, <2>1, <2>2 DEF AInv, Profiles, Arena!Restrict, Arena!With
  <2>6. Homes' /\ Guards(npcs)' /\ Chests(treasures)' /\ Backup'
      BY <1>0, <2>1 DEF AInv, Homes, Guards, Chests, Backup, Arena!Restrict, Bodies, Spread
  <2> QED BY <2>3, <2>4, <2>5, <2>6 DEF AInv
<1> QED BY <1>1, <1>2

\* What a player's record may become.
LEMMA BodyHit ==
    ASSUME NEW p \in Body, NEW x \in Int, NEW alive \in BOOLEAN, NEW back \in {"zero",
        "ahead", "past"}
    PROVE  [p EXCEPT !.hp = x, !.alive = alive, !.respawn = back] \in Body
    BY DEF Body

\* After a potion.
LEMMA BodyHealed ==
    ASSUME NEW p \in Body, NEW x \in Int, NEW y \in Int
    PROVE  [p EXCEPT !.potions = x, !.hp = y] \in Body
    BY DEF Body

\* After a purchase.
LEMMA BodyBuys ==
    ASSUME NEW p \in Body, NEW x \in Int, NEW y \in Int
    PROVE  [p EXCEPT !.loot = x, !.potions = y] \in Body
    BY DEF Body

\* After a move.
LEMMA BodyMoved ==
    ASSUME NEW p \in Body, NEW c \in Arena!Cell, NEW x \in Int
    PROVE  [p EXCEPT !.cell = c, !.loot = x] \in Body
    BY DEF Body

\* What happens to one player where it stands, or where there is a free cell.
LEMMA PlayerChanges ==
    ASSUME AInv, NEW u \in DOMAIN players, NEW p \in Body, players' = [players EXCEPT ![u] = p],
           \/ p.alive => players[u].alive /\ p.cell = players[u].cell
           \/ Room => Arena!Walkable(p.cell, {u}),
           Chests(treasures)', UNCHANGED <<npcs, online, profile, saved, restores>>
    PROVE  AInv'
<1>1. Bodies(players)' /\ DOMAIN players' = DOMAIN players
    BY BodiesExcept DEF AInv, Bodies
<1>2. Spread(players, npcs)'
  <2>1. CASE p.alive => players[u].alive /\ p.cell = players[u].cell
    <3>1. /\ Living(players') \subseteq Living(players)
          /\ \A v \in Living(players') : players'[v].cell = players[v].cell
        BY <2>1 DEF Living
    <3>2. Spread(players, npcs)
        BY DEF AInv
    <3>3. npcs' = npcs /\ DOMAIN npcs' \subseteq DOMAIN npcs
        OBVIOUS
    <3> QED BY <3>1, <3>2, <3>3, SpreadFewer
  <2>2. CASE Room => Arena!Walkable(p.cell, {u})
    <3>1. players' = Arena!With(players, u, p)
        BY DEF Arena!With, AInv, Bodies
    <3> QED BY <2>2, <3>1, SpreadWith DEF AInv
  <2> QED BY <2>1, <2>2
<1>3. Guards(npcs)' /\ Profiles' /\ Homes' /\ Backup'
    BY <1>1 DEF AInv, Guards, Profiles, Homes, Backup, Bodies, Chests, Spread
<1> QED BY <1>1, <1>2, <1>3 DEF AInv

\* What happens to the NPCs.
LEMMA NpcsChange ==
    ASSUME AInv, Guards(npcs)', Spread(players, npcs'), Chests(treasures)',
           UNCHANGED <<players, online, profile, saved, restores>>
    PROVE  AInv'
    BY DEF AInv, Bodies, Spread, Living, Profiles, Homes, Backup, Guards, Chests

\* What a hit makes of a player.
LEMMA HitBody ==
    ASSUME NEW p \in Body
    PROVE  Arena!Hit(p) \in Body /\ Arena!Hit(p).cell = p.cell /\ (Arena!Hit(p).alive => p.alive)
<1>1. CASE p.hp > 1
    BY <1>1 DEF Body, Arena!Hit
<1>2. CASE ~(p.hp > 1)
  <2> DEFINE q == [p EXCEPT !.hp = 0, !.alive = FALSE, !.respawn = "ahead"]
  <2>1. Arena!Hit(p) = q
      BY <1>2 DEF Arena!Hit
  <2>2. q \in Body
    <3>1. PICK no \in BOOLEAN : no = FALSE
        OBVIOUS
    <3>2. PICK zero \in Int : zero = 0
        OBVIOUS
    <3>3. PICK back \in {"zero", "ahead", "past"} : back = "ahead"
        OBVIOUS
    <3>4. [p EXCEPT !.hp = zero, !.alive = no, !.respawn = back] \in Body
        BY BodyHit
    <3> QED BY <3>1, <3>2, <3>3, <3>4
  <2>3. q.cell = p.cell /\ ~q.alive
      BY DEF Body
  <2> QED BY <2>1, <2>2, <2>3
<1> QED BY <1>1, <1>2

\* Whoever is hit stays where it was, up or down.
LEMMA HitKeeps ==
    ASSUME AInv, NEW v \in DOMAIN players, players' = [players EXCEPT ![v] = Arena!Hit(@)],
           UNCHANGED <<npcs, treasures, online, profile, saved, restores>>
    PROVE  AInv'
<1>1. players[v] \in Body /\ Chests(treasures)'
    BY DEF AInv, Bodies, Chests
<1> QED BY <1>1, HitBody, PlayerChanges

\* Whoever revives gets a free cell.
LEMMA RefreshKeeps ==
    ASSUME Arena!ArenaAssumption, AInv, NEW u \in Users, Arena!Refresh(u)
    PROVE  AInv'
<1>1. PICK c \in Arena!SafePositions(Arena!Spawn, {u}) :
        players' = [players EXCEPT ![u] = Arena!Revived(u, c)]
    BY DEF Arena!Refresh
<1>2. c \in Arena!Cell /\ (Room => Arena!Walkable(c, {u}))
  <2>1. Arena!Spawn \in Arena!Cell
      BY DEF Arena!Spawn, Arena!Cell, Arena!ArenaAssumption
  <2> QED BY <2>1, SafeSpot
<1>3. u \in DOMAIN players /\ players[u] \in Body
    BY DEF Arena!Refresh, Arena!Due, Arena!Present, AInv, Bodies
<1>4. Arena!Revived(u, c) \in Body /\ Arena!Revived(u, c).cell = c
  <2>1. c \in Arena!Cell /\ InitHP \in Int /\ MaxPotions \in Int
      BY <1>2 DEF Arena!ArenaAssumption
  <2> QED BY <1>3, <2>1 DEF Body, Arena!Revived
<1>5. UNCHANGED <<npcs, online, profile, saved, restores>> /\ Chests(treasures)'
    BY DEF Arena!Refresh, Arena!things, Arena!books, AInv, Chests
<1> QED BY <1>1, <1>2, <1>3, <1>4, <1>5, PlayerChanges

\* Players that stay where they are.
LEMMA StandKeeps ==
    ASSUME Arena!ArenaAssumption, AInv, NEW u \in Users,
           \/ Arena!Pass(u) \/ Arena!HealPlayer(u) \/ Arena!RewardPlayer(u)
           \/ \E price \in {PotionPrice, WeaponPrice}, potion \in BOOLEAN :
                Arena!BuyItem(u, price, potion)
    PROVE  AInv'
<1>1. u \in DOMAIN players /\ players[u] \in Body
    BY DEF AInv, Bodies, Arena!Pass, Arena!HealPlayer, Arena!RewardPlayer, Arena!BuyItem,
        Arena!Acts, Arena!Alive, Arena!Present
<1>2. UNCHANGED <<npcs, online, profile, saved, restores>> /\ Chests(treasures)'
    BY DEF Arena!Pass, Arena!HealPlayer, Arena!RewardPlayer, Arena!BuyItem, Arena!things,
        Arena!books, AInv, Chests
<1>3. PotionPrice \in Int /\ WeaponPrice \in Int /\ InitHP \in Int
    BY DEF Arena!ArenaAssumption
<1>4. \E p \in Body : /\ p.alive = players[u].alive /\ p.cell = players[u].cell
                     /\ players' = [players EXCEPT ![u] = p]
  <2> DEFINE q == players[u]
  <2>1. CASE Arena!Pass(u)
    <3> DEFINE p == [q EXCEPT !.respawn = "past"]
    <3>1. players' = [players EXCEPT ![u] = p]
        BY <2>1 DEF Arena!Pass
    <3>2. p \in Body
        BY <1>1, <1>3 DEF Body
    <3>3. p.alive = q.alive /\ p.cell = q.cell
        BY <1>1 DEF Body
    <3> QED BY <3>1, <3>2, <3>3
  <2>2. CASE Arena!HealPlayer(u)
    <3> DEFINE p == [q EXCEPT !.potions = @ - 1, !.hp = IF @ < InitHP THEN @ + 1 ELSE @]
    <3>1. players' = [players EXCEPT ![u] = p]
        BY <1>1, <2>2 DEF Arena!HealPlayer
    <3>2. p \in Body
      <4>1. q.potions - 1 \in Int /\ (IF q.hp < InitHP THEN q.hp + 1 ELSE q.hp) \in Int
          BY <1>1, <1>3 DEF Body
      <4> QED BY <1>1, <4>1, BodyHealed
    <3>3. p.alive = q.alive /\ p.cell = q.cell
        BY <1>1 DEF Body
    <3> QED BY <3>1, <3>2, <3>3
  <2>3. CASE Arena!RewardPlayer(u)
    <3> DEFINE p == [q EXCEPT !.loot = @ + 1]
    <3>1. players' = [players EXCEPT ![u] = p]
        BY <2>3 DEF Arena!RewardPlayer
    <3>2. p \in Body
        BY <1>1, <1>3 DEF Body
    <3>3. p.alive = q.alive /\ p.cell = q.cell
        BY <1>1 DEF Body
    <3> QED BY <3>1, <3>2, <3>3
  <2>4. ASSUME NEW price \in {PotionPrice, WeaponPrice}, NEW potion \in BOOLEAN,
        Arena!BuyItem(u, price, potion)
        PROVE  \E p \in Body : /\ p.alive = players[u].alive /\ p.cell = players[u].cell
                              /\ players' = [players EXCEPT ![u] = p]
    <3> DEFINE p == [q EXCEPT !.loot = @ - price, !.potions = IF potion THEN @ + 1 ELSE @]
    <3>1. players' = [players EXCEPT ![u] = p]
        BY <1>1, <2>4 DEF Arena!BuyItem
    <3>2. p \in Body
      <4>1. q.loot - price \in Int /\ (IF potion THEN q.potions + 1 ELSE q.potions) \in Int
          BY <1>1, <1>3 DEF Body
      <4> QED BY <1>1, <4>1, BodyBuys
    <3>3. p.alive = q.alive /\ p.cell = q.cell
        BY <1>1 DEF Body
    <3> QED BY <3>1, <3>2, <3>3
  <2> QED BY <2>1, <2>2, <2>3, <2>4
<1> QED BY <1>1, <1>2, <1>4, PlayerChanges

\* The sums of the model are those of the library.
LEMMA ArenaSum == ASSUME NEW f PROVE Arena!SumFunction(f) = SumFunction(f)
    BY DEF Arena!SumFunction, Arena!SumFunctionOnSet, Arena!FoldFunctionOnSet,
        Arena!MapThenFoldSet,
           SumFunction, SumFunctionOnSet, FoldFunctionOnSet, MapThenFoldSet

\* What a set of treasures is worth, one by one.
Worth(S) == [i \in S |-> treasures[i].value]

\* What a player picks up is a number.
LEMMA WorthType ==
    ASSUME AInv, NEW S, S \subseteq DOMAIN treasures
    PROVE  IsFiniteSet(S) /\ Worth(S) \in [S -> Int] /\ Arena!SumFunction(Worth(S)) \in Int
<1>1. IsFiniteSet(S) /\ Worth(S) \in [S -> Int]
    BY FS_Subset DEF AInv, Chests, Worth
<1> QED BY <1>1, ArenaSum, SumInt

\* Treasures that are picked up leave a table of treasures,
LEMMA ChestsFewer ==
    ASSUME AInv, NEW S, S \subseteq DOMAIN treasures
    PROVE  Chests(Arena!Restrict(treasures, S))
    BY FS_Subset DEF AInv, Chests, Arena!Restrict

\* and so does a drop.
LEMMA ChestsDrop ==
    ASSUME AInv, NEW c \in Arena!Cell, Arena!DropTreasure(c, 1)
    PROVE  Chests(treasures)'
<1>1. CASE Arena!TreasureAt(c) # {}
    BY <1>1 DEF AInv, Chests, Arena!DropTreasure, Arena!TreasureAt
<1>2. CASE Arena!TreasureAt(c) = {}
  <2>1. treasures' = Arena!With(treasures, nextTreasure, [cell |-> c, value |-> 1])
      BY <1>2 DEF Arena!DropTreasure
  <2>2. IsFiniteSet(DOMAIN treasures \cup {nextTreasure})
      BY FS_AddElement DEF AInv, Chests
  <2> QED BY <2>1, <2>2 DEF AInv, Chests, Arena!With
<1> QED BY <1>1, <1>2

\* A move goes to a free cell.
LEMMA MoveKeeps ==
    ASSUME AInv, NEW u \in Users, NEW c \in Arena!Cell, Arena!Move(u, c)
    PROVE  AInv'
<1> DEFINE found == Arena!TreasureAt(c)
           won == Arena!SumFunction(Worth(found))
           p == [players[u] EXCEPT !.cell = c, !.loot = @ + won]
<1>1. u \in DOMAIN players /\ players[u] \in Body
    BY DEF AInv, Bodies, Arena!Move, Arena!Acts, Arena!Alive, Arena!Present
<1>2. players' = [players EXCEPT ![u] = p]
  <2>1. Worth(found) = [i \in found |-> treasures[i].value]
      BY DEF Worth
  <2>2. players' = [players EXCEPT ![u].cell = c, ![u].loot = @ + won]
      BY <2>1 DEF Arena!Move
  <2> HIDE DEF won
  <2> QED BY <1>1, <2>2 DEF AInv, Bodies
<1>3. p \in Body /\ p.cell = c
  <2>1. won \in Int
      BY WorthType DEF Arena!TreasureAt
  <2> HIDE DEF won
  <2>2. p \in Body
    <3>1. players[u].loot + won \in Int
        BY <1>1, <2>1 DEF Body
    <3> QED BY <1>1, <3>1, BodyMoved
  <2>3. p.cell = c
      BY <1>1 DEF Body
  <2> QED BY <2>2, <2>3
<1>4. Arena!Walkable(p.cell, {u}) /\ UNCHANGED <<npcs, online, profile, saved, restores>>
    BY <1>3 DEF Arena!Move, Arena!books
<1>5. Chests(treasures)'
    BY ChestsFewer DEF Arena!Move
<1> HIDE DEF p
<1> QED BY <1>1, <1>2, <1>3, <1>4, <1>5, PlayerChanges

\* A fight moves nobody.
LEMMA AttackKeeps ==
    ASSUME Arena!ArenaAssumption, AInv, NEW u \in Users, Arena!Attack(u)
    PROVE  AInv'
<1>0. MinNPCs \in Nat /\ UNCHANGED <<online, profile, saved, restores>> /\ Guards(npcs)
    BY DEF Arena!ArenaAssumption, Arena!Attack, AInv
<1>1. CASE Arena!NpcsInReach(u) # {}
  <2>1. PICK i \in Arena!NpcsInReach(u) :
          /\ UNCHANGED players
          /\ \/ /\ npcs' = [npcs EXCEPT ![i].hp = @ - 1] /\ UNCHANGED treasures
             \/ /\ npcs' = Arena!Restrict(npcs, DOMAIN npcs \ {i})
                /\ Arena!DropTreasure(npcs[i].cell, 1)
      BY <1>1 DEF Arena!Attack, Arena!Weakest
  <2>2. i \in DOMAIN npcs /\ npcs[i] \in Guard
      BY <1>0 DEF Guards, Arena!NpcsInReach
  <2>3. CASE npcs' = [npcs EXCEPT ![i].hp = @ - 1] /\ UNCHANGED treasures
    <3> DEFINE p == [npcs[i] EXCEPT !.hp = @ - 1]
    <3>1. npcs' = [npcs EXCEPT ![i] = p]
        BY <2>3
    <3>2. p \in Guard /\ p.cell = npcs[i].cell
        BY <2>2 DEF Guard
    <3> HIDE DEF p
    <3>3. Guards(npcs)'
        BY <1>0, <3>1, <3>2, GuardsExcept DEF Guards
    <3>4. DOMAIN npcs' = DOMAIN npcs /\ \A j \in DOMAIN npcs' : npcs'[j].cell = npcs[j].cell
        BY <2>2, <3>1, <3>2 DEF Guards
    <3>5. Spread(players, npcs')
        BY <3>4, SpreadFewer DEF AInv
    <3>6. Chests(treasures)'
        BY <2>3 DEF AInv, Chests
    <3> QED BY <1>0, <2>1, <3>3, <3>5, <3>6, NpcsChange
  <2>4. CASE npcs' = Arena!Restrict(npcs,
        DOMAIN npcs \ {i}) /\ Arena!DropTreasure(npcs[i].cell, 1)
    <3>1. Guards(npcs)'
        BY <1>0, <2>4, GuardsFewer DEF Guards
    <3>2. DOMAIN npcs' \subseteq DOMAIN npcs /\ \A j \in DOMAIN npcs' : npcs'[j].cell = npcs[j].cell
        BY <2>4 DEF Arena!Restrict
    <3>3. Spread(players, npcs')
        BY <3>2, SpreadFewer DEF AInv
    <3>4. Chests(treasures)'
        BY <2>2, <2>4, ChestsDrop DEF Guard
    <3> QED BY <1>0, <2>1, <3>1, <3>3, <3>4, NpcsChange
  <2> QED BY <2>1, <2>3, <2>4
<1>2. CASE Arena!NpcsInReach(u) = {}
  <2>1. PICK v \in Arena!Alive : players' = [players EXCEPT ![v] = Arena!Hit(@)]
      BY <1>2 DEF Arena!Attack, Arena!Weakest
  <2>2. UNCHANGED <<npcs, treasures>>
      BY <1>2 DEF Arena!Attack
  <2> QED BY <1>0, <2>1, <2>2, HitKeeps DEF Arena!Alive, Arena!Present
<1> QED BY <1>1, <1>2

\* An NPC appears in a free cell.
LEMMA SpawnKeeps ==
    ASSUME Arena!ArenaAssumption, AInv, Arena!SpawnOrChest
    PROVE  AInv'
<1>0. /\ MinNPCs \in Nat /\ NpcHP \in Nat /\ Guards(npcs) /\ Spread(players, npcs)
      /\ UNCHANGED <<players, online, profile, saved, restores>>
    BY DEF Arena!ArenaAssumption, Arena!SpawnOrChest, AInv
<1>1. CASE UNCHANGED npcs
  <2>1. Chests(treasures)'
    <3>1. ASSUME NEW c \in Arena!Open({}), Arena!DropTreasure(c, 1) PROVE Chests(treasures)'
        BY <3>1, ChestsDrop DEF Arena!Open
    <3>2. CASE UNCHANGED treasures
        BY <3>2 DEF AInv, Chests
    <3> QED BY <3>1, <3>2 DEF Arena!SpawnOrChest
  <2>2. Guards(npcs)' /\ Spread(players, npcs')
      BY <1>0, <1>1 DEF Guards, Spread
  <2> QED BY <1>0, <2>1, <2>2, NpcsChange
<1>2. ASSUME NEW c \in Arena!Cell, Arena!SpawnNPC(c),
      Arena!Cardinality(DOMAIN npcs) < MinNPCs, UNCHANGED treasures
      PROVE  AInv'
  <2> DEFINE p == [cell |-> c, hp |-> NpcHP]
  <2>1. p \in Guard /\ p.cell = c
      BY <1>0 DEF Guard
  <2>2. npcs' = Arena!With(npcs, nextNPC, p) /\ c \in Arena!Open({})
      BY <1>2 DEF Arena!SpawnNPC
  <2> HIDE DEF p
  <2>3. Guards(npcs)'
    <3>1. Cardinality(DOMAIN npcs) < MinNPCs
        BY <1>0, <1>2, SameSets DEF Guards
    <3> QED BY <1>0, <2>1, <2>2, <3>1, GuardsWith
  <2>4. Spread(players, npcs')
      BY <1>0, <2>1, <2>2 DEF Spread, Living, Arena!With, Arena!Open, Arena!Walkable,
          Arena!Alive, Arena!Present
  <2>5. Chests(treasures)'
      BY <1>2 DEF AInv, Chests
  <2> QED BY <1>0, <2>3, <2>4, <2>5, NpcsChange
<1> QED BY <1>1, <1>2 DEF Arena!SpawnOrChest

\* An NPC hits, or walks to a free cell.
LEMMA NpcKeeps ==
    ASSUME AInv, Arena!NpcStep
    PROVE  AInv'
<1>0. /\ Guards(npcs) /\ Spread(players, npcs) /\ Chests(treasures)'
      /\ UNCHANGED <<treasures, online, profile, saved, restores>>
    BY DEF Arena!NpcStep, Arena!books, AInv, Chests
<1>1. PICK i : \/ /\ UNCHANGED npcs
                  /\ \E u \in Arena!Alive : players' = [players EXCEPT ![u] = Arena!Hit(@)]
               \/ UNCHANGED <<players, npcs>>
               \/ /\ UNCHANGED players
                  /\ \E c \in Arena!Open({}) : npcs' = [npcs EXCEPT ![i].cell = c]
    BY DEF Arena!NpcStep, Arena!Weakest
<1>2. CASE UNCHANGED npcs /\ \E u \in Arena!Alive : players' = [players EXCEPT ![u] = Arena!Hit(@)]
    BY <1>0, <1>2, HitKeeps DEF Arena!Alive, Arena!Present
<1>3. CASE UNCHANGED <<players, npcs>>
  <2>1. Guards(npcs)' /\ Spread(players, npcs')
      BY <1>0, <1>3 DEF Guards, Spread
  <2> QED BY <1>0, <1>3, <2>1, NpcsChange
<1>4. ASSUME UNCHANGED players, NEW c \in Arena!Open({}), npcs' = [npcs EXCEPT ![i].cell = c]
      PROVE  AInv'
  <2> DEFINE p == [npcs[i] EXCEPT !.cell = c]
  <2>1. npcs' = [npcs EXCEPT ![i] = p]
      BY <1>4
  <2>2. i \in DOMAIN npcs => p \in Guard /\ p.cell = c
      BY <1>0, <1>4 DEF Guards, Guard, Arena!Open
  <2> HIDE DEF p
  <2>3. Guards(npcs)'
      BY <1>0, <2>1, <2>2, GuardsExcept
  <2>4. Spread(players, npcs')
      BY <1>0, <1>4, <2>1, <2>2 DEF Spread, Living, Guards, Arena!Open, Arena!Walkable,
          Arena!Alive, Arena!Present
  <2> QED BY <1>0, <1>4, <2>3, <2>4, NpcsChange
<1> QED BY <1>1, <1>2, <1>3, <1>4

\* What is saved is as spread as the map was.
LEMMA CaptureKeeps ==
    ASSUME AInv, Arena!CaptureCheckpoint
    PROVE  AInv'
<1> DEFINE ps == [u \in DOMAIN players |-> [players[u] EXCEPT !.respawn = "zero"]]
           cp == [players |-> ps, npcs |-> npcs, treasures |-> treasures]
<1>1. saved' = cp /\ UNCHANGED <<players, npcs, treasures, online, profile, restores>>
    BY DEF Arena!CaptureCheckpoint, Arena!things, Arena!books, Arena!Present
<1>2. \A u \in DOMAIN players :
        ps[u] \in Body /\ ps[u].cell = players[u].cell /\ ps[u].alive = players[u].alive
    BY DEF AInv, Bodies, Body
<1>3. DOMAIN ps = DOMAIN players /\ ps = [u \in DOMAIN players |-> ps[u]]
    OBVIOUS
<1> HIDE DEF ps
<1>4. Bodies(ps)
    BY <1>2, <1>3 DEF AInv, Bodies
<1>5. Spread(ps, npcs)
  <2>1. Living(ps) \subseteq Living(players) /\ \A u \in Living(ps) : ps[u].cell = players[u].cell
      BY <1>2, <1>3 DEF Living
  <2> QED BY <2>1, SpreadFewer DEF AInv
<1>6. Backup'
  <2>1. cp.players = ps /\ cp.npcs = npcs /\ cp.treasures = treasures
      OBVIOUS
  <2>2. Guards(npcs) /\ Chests(treasures)
      BY DEF AInv
  <2>3. /\ Bodies(cp.players) /\ Guards(cp.npcs) /\ Chests(cp.treasures)
        /\ Spread(cp.players, cp.npcs)
      BY <1>4, <1>5, <2>1, <2>2
  <2> HIDE DEF cp
  <2> QED BY <1>1, <2>3 DEF Backup, Bodies, Guards, Chests, Spread, Living
<1>7. Bodies(players)' /\ Guards(npcs)' /\ Chests(treasures)' /\ Spread(players, npcs)'
    BY <1>1 DEF AInv, Bodies, Guards, Chests, Spread, Living
<1> QED BY <1>1, <1>6, <1>7 DEF AInv, Profiles, Homes

\* A restored map is the one that was saved.
LEMMA RestoreKeeps ==
    ASSUME Arena!ArenaAssumption, AInv, Arena!RestoreCheckpoint
    PROVE  AInv'
<1>0. /\ saved # <<>> /\ restores < MaxRestores /\ restores' = restores + 1 /\ UNCHANGED online
      /\ MaxRestores \in Nat /\ MaxPotions \in Int
      /\ saved' = saved \/ saved' = <<>>
    BY DEF Arena!RestoreCheckpoint, Arena!ArenaAssumption
<1> DEFINE qs == saved.players
           ps == [u \in DOMAIN qs |-> [qs[u] EXCEPT !.potions = Arena!ValueOr(@, MaxPotions)]]
<1>1. players' = ps /\ npcs' = saved.npcs /\ treasures' = saved.treasures
    BY DEF Arena!RestoreCheckpoint
<1>2. Bodies(qs) /\ Guards(saved.npcs) /\ Chests(saved.treasures) /\ Spread(qs, saved.npcs)
    BY <1>0 DEF AInv, Backup
<1>3. \A u \in DOMAIN qs : ps[u] \in Body /\ ps[u].cell = qs[u].cell /\ ps[u].alive = qs[u].alive
    BY <1>0, <1>2 DEF Bodies, Body, Arena!ValueOr
<1>4. DOMAIN ps = DOMAIN qs /\ ps = [u \in DOMAIN qs |-> ps[u]]
    OBVIOUS
<1> HIDE DEF ps
<1>5. Bodies(ps)
    BY <1>2, <1>3, <1>4 DEF Bodies
<1>6. Spread(ps, saved.npcs)
  <2>1. Living(ps) \subseteq Living(qs) /\ \A u \in Living(ps) : ps[u].cell = qs[u].cell
      BY <1>3, <1>4 DEF Living
  <2> QED BY <1>2, <2>1, SpreadFewer
<1>7. Profiles'
  <2> DEFINE gone == (DOMAIN players \cap online) \ DOMAIN qs
  <2>1. profile' = [u \in gone \cup DOMAIN profile |->
                      IF u \in gone THEN Arena!ProfileOf(u) ELSE profile[u]]
      BY DEF Arena!RestoreCheckpoint, Arena!Stored, Arena!Present
  <2>2. \A u \in gone : Arena!ProfileOf(u) \in Kept
      BY DEF Arena!ProfileOf, Arena!FreshProfile, AInv, Bodies, Body, Kept
  <2>3. /\ profile \in [DOMAIN profile -> Kept]
        /\ Users \ DOMAIN profile \subseteq DOMAIN players \cap online
      BY DEF AInv, Profiles
  <2>4. DOMAIN players' = DOMAIN qs
      BY <1>1, <1>4
  <2>5. profile' \in [DOMAIN profile' -> Kept] /\ DOMAIN profile' = gone \cup DOMAIN profile
      BY <2>1, <2>2, <2>3
  <2>6. Users \ DOMAIN profile' \subseteq DOMAIN players' \cap online'
      BY <1>0, <2>3, <2>4, <2>5
  <2> QED BY <2>5, <2>6 DEF Profiles
<1>8. Homes'
    BY <1>0 DEF AInv, Homes
<1>9. Backup'
    BY <1>0 DEF AInv, Backup, Bodies, Guards, Chests, Spread, Living
<1>10. Bodies(players)' /\ Guards(npcs)' /\ Chests(treasures)' /\ Spread(players, npcs)'
    BY <1>1, <1>2, <1>5, <1>6 DEF Bodies, Guards, Chests, Spread, Living
<1> QED BY <1>7, <1>8, <1>9, <1>10 DEF AInv

\* Every step of the world.
LEMMA ArenaNext ==
    ASSUME Arena!ArenaAssumption, AInv, [Arena!Next]_(Arena!vars)
    PROVE  AInv'
<1>1. ASSUME NEW u \in Users, NEW here \in BOOLEAN, Arena!Enter(u, here) PROVE AInv'
    BY <1>1, EnterKeeps
<1>2. ASSUME NEW u \in Users, Arena!Leave(u) \/ Arena!Refresh(u) \/ Arena!Pass(u)
      \/ Arena!RewardPlayer(u)
      PROVE  AInv'
    BY <1>2, LeaveKeeps, RefreshKeeps, StandKeeps
<1>3. ASSUME NEW u \in Users, Arena!Commands(u) PROVE AInv'
  <2>1. ASSUME NEW c \in Arena!Cell, Arena!Move(u, c) PROVE AInv'
      BY <2>1, MoveKeeps
  <2>2. CASE Arena!HealPlayer(u) \/ Arena!Attack(u)
      BY <2>2, StandKeeps, AttackKeeps
  <2>3. CASE Arena!BuyItem(u, PotionPrice, TRUE)
      BY <2>3, StandKeeps
  <2>4. CASE Arena!BuyItem(u, WeaponPrice, FALSE)
      BY <2>4, StandKeeps
  <2> QED BY <1>3, <2>1, <2>2, <2>3, <2>4 DEF Arena!Commands
<1>4. CASE Arena!BackgroundStep
    BY <1>4, SpawnKeeps, NpcKeeps DEF Arena!BackgroundStep, Arena!Background, Arena!SpawnStep
<1>5. CASE Arena!CaptureCheckpoint \/ Arena!RestoreCheckpoint
    BY <1>5, CaptureKeeps, RestoreKeeps
<1>6. CASE UNCHANGED Arena!vars
    BY <1>6 DEF Arena!vars, Arena!things, Arena!books, AInv, Bodies, Guards, Chests, Spread,
        Living,
       Profiles, Homes, Backup
<1> QED BY <1>1, <1>2, <1>3, <1>4, <1>5, <1>6 DEF Arena!Next

\* Nobody stands on anybody: in a map with room, whatever the order of moves,
\* logins, revivals, NPCs and failovers, findSafePositionLocked and the checks
\* of the moves give each of the living a cell of its own (world.go of Lab3).
THEOREM NobodyOverlaps ==
    ASSUME Arena!ArenaAssumption, Room
    PROVE  Arena!Spec => []Arena!NoOverlap
<1>1. AInv => Arena!NoOverlap
  <2> SUFFICES ASSUME AInv, NEW x \in Arena!Units, NEW y \in Arena!Units, x.cell = y.cell
               PROVE  x = y
      BY DEF Arena!NoOverlap
  <2>1. \A z \in {x, y} :
          \/ \E u \in Living(players) : z = [npc |-> FALSE, id |-> u, cell |-> players[u].cell]
          \/ \E i \in DOMAIN npcs : z = [npc |-> TRUE, id |-> i, cell |-> npcs[i].cell]
      BY DEF Arena!Units, Arena!Alive, Arena!Present, Living
  <2>2. Spread(players, npcs)
      BY DEF AInv
  <2>3. CASE \E u \in Living(players) : x = [npc |-> FALSE, id |-> u, cell |-> players[u].cell]
    <3>1. PICK u \in Living(players) : x = [npc |-> FALSE, id |-> u, cell |-> players[u].cell]
        BY <2>3
    <3>2. CASE \E v \in Living(players) : y = [npc |-> FALSE, id |-> v,
          cell |-> players[v].cell]
      <4>1. PICK v \in Living(players) : y = [npc |-> FALSE, id |-> v, cell |-> players[v].cell]
          BY <3>2
      <4>2. players[u].cell = players[v].cell
          BY <3>1, <4>1
      <4>3. u = v
          BY <2>2, <4>2 DEF Spread
      <4> QED BY <3>1, <4>1, <4>3
    <3>3. CASE \E i \in DOMAIN npcs : y = [npc |-> TRUE, id |-> i, cell |-> npcs[i].cell]
        BY <2>2, <3>1, <3>3 DEF Spread
    <3> QED BY <2>1, <3>2, <3>3
  <2>4. CASE \E i \in DOMAIN npcs : x = [npc |-> TRUE, id |-> i, cell |-> npcs[i].cell]
    <3>1. PICK i \in DOMAIN npcs : x = [npc |-> TRUE, id |-> i, cell |-> npcs[i].cell]
        BY <2>4
    <3>2. CASE \E v \in Living(players) : y = [npc |-> FALSE, id |-> v,
          cell |-> players[v].cell]
        BY <2>2, <3>1, <3>2 DEF Spread
    <3>3. CASE \E j \in DOMAIN npcs : y = [npc |-> TRUE, id |-> j, cell |-> npcs[j].cell]
      <4>1. PICK j \in DOMAIN npcs : y = [npc |-> TRUE, id |-> j, cell |-> npcs[j].cell]
          BY <3>3
      <4>2. npcs[i].cell = npcs[j].cell
          BY <3>1, <4>1
      <4>3. i = j
          BY <2>2, <4>2 DEF Spread
      <4> QED BY <3>1, <4>1, <4>3
    <3> QED BY <2>1, <3>2, <3>3
  <2> QED BY <2>1, <2>3, <2>4
<1>2. Arena!Init => AInv
    BY AInit
<1>3. AInv /\ [Arena!Next]_(Arena!vars) => AInv'
    BY ArenaNext
<1> QED BY <1>1, <1>2, <1>3, PTL DEF Arena!Spec

\* What is on the map, and what the players have with them or left in their
\* profiles.
Lying == Worth(DOMAIN treasures)
Carried == [u \in Users |-> Arena!Loot(u)]

\* Until a failover a player is in the world or has a profile, the next treasure
\* has a number of its own, and the books balance.
LInv == restores = 0 =>
          /\ DOMAIN profile \cap DOMAIN players = {}
          /\ nextTreasure \in Int /\ \A i \in DOMAIN treasures : i \in Int /\ i < nextTreasure
          /\ minted \in Int /\ spent \in Int
          /\ minted = spent + SumFunction(Lying) + SumFunction(Carried)

\* Both sides are numbers.
LEMMA LootTypes ==
    ASSUME Arena!ArenaAssumption, AInv
    PROVE  /\ IsFiniteSet(Users) /\ Carried \in [Users -> Int]
           /\ SumFunction(Lying) \in Int /\ SumFunction(Carried) \in Int
<1>1. Carried \in [Users -> Int]
  <2>1. ASSUME NEW u \in Users PROVE Arena!Loot(u) \in Int
    <3>1. CASE u \in DOMAIN profile
      <4>1. profile[u] \in Kept
          BY <3>1 DEF AInv, Profiles
      <4> QED BY <3>1, <4>1 DEF Arena!Loot, Kept
    <3>2. CASE u \notin DOMAIN profile
      <4>1. u \in DOMAIN players
          BY <3>2 DEF AInv, Profiles
      <4>2. players[u] \in Body
          BY <4>1 DEF AInv, Bodies
      <4> QED BY <3>2, <4>2 DEF Arena!Loot, Body
    <3> QED BY <3>1, <3>2
  <2> QED BY <2>1 DEF Carried
<1>2. IsFiniteSet(Users)
    BY DEF Arena!ArenaAssumption, Arena!IsFiniteSet, IsFiniteSet
<1>3. SumFunction(Lying) \in Int
    BY WorthType, ArenaSum DEF Lying
<1> QED BY <1>1, <1>2, <1>3, SumInt

\* What one user gains, all of them together gain.
LEMMA CarriedPlus ==
    ASSUME Arena!ArenaAssumption, AInv, LInv, NEW u \in Users, NEW d \in Int
    PROVE  SumFunction([Carried EXCEPT ![u] = Carried[u] + d]) = SumFunction(Carried) + d
<1>1. IsFiniteSet(Users) /\ Carried \in [Users -> Int]
    BY LootTypes
<1>2. ASSUME NEW f \in [Users -> Int]
      PROVE  SumFunction([f EXCEPT ![u] = f[u] + d]) = SumFunction(f) + d
  <2>1. IsFiniteSet(Users)
      BY <1>1
  <2> HIDE <1>1
  <2> QED BY <2>1, SumChanged
<1> QED BY <1>1, <1>2

\* A player gains or loses, or pays.
LEMMA CarriedChanges ==
    ASSUME Arena!ArenaAssumption, AInv, LInv, restores = 0,
           NEW u \in DOMAIN players, NEW p, NEW d \in Int, p.loot = players[u].loot + d,
           players' = [players EXCEPT ![u] = p], UNCHANGED profile
    PROVE  /\ SumFunction(Carried)' = SumFunction(Carried) + d
           /\ (DOMAIN profile \cap DOMAIN players = {})'
<1>1. u \in Users /\ u \notin DOMAIN profile
    BY DEF LInv, AInv, Bodies
<1>2. Carried' = [Carried EXCEPT ![u] = Carried[u] + d]
    BY <1>1 DEF Carried, Arena!Loot, AInv, Bodies, Profiles
<1>3. SumFunction([Carried EXCEPT ![u] = Carried[u] + d]) = SumFunction(Carried) + d
    BY <1>1, CarriedPlus
<1>4. (DOMAIN profile \cap DOMAIN players = {})'
    BY DEF LInv
<1> QED BY <1>2, <1>3, <1>4

\* A drop adds its value to the map.
LEMMA DropAdds ==
    ASSUME Arena!ArenaAssumption, AInv, LInv, restores = 0,
           NEW c \in Arena!Cell, Arena!DropTreasure(c, 1)
    PROVE  /\ SumFunction(Lying)' = SumFunction(Lying) + 1
           /\ nextTreasure' \in Int /\ \A i \in DOMAIN treasures' : i \in Int /\ i < nextTreasure'
<1>0. /\ nextTreasure \in Int /\ \A i \in DOMAIN treasures : i \in Int /\ i < nextTreasure
      /\ Chests(treasures)
      /\ IsFiniteSet(DOMAIN treasures) /\ Lying \in [DOMAIN treasures -> Int]
    BY WorthType DEF LInv, AInv, Chests, Lying
<1>1. CASE Arena!TreasureAt(c) # {}
  <2>1. PICK i \in DOMAIN treasures : treasures' = [treasures EXCEPT ![i].value = @ + 1]
      BY <1>1 DEF Arena!DropTreasure, Arena!TreasureAt
  <2>2. UNCHANGED nextTreasure
      BY <1>1 DEF Arena!DropTreasure
  <2>3. Lying' = [Lying EXCEPT ![i] = Lying[i] + 1]
      BY <1>0, <2>1 DEF Lying, Worth, Chests
  <2>4. SumFunction([Lying EXCEPT ![i] = Lying[i] + 1]) = SumFunction(Lying) + 1
    <3>1. PICK one \in Int : one = 1
        OBVIOUS
    <3>2. SumFunction([Lying EXCEPT ![i] = Lying[i] + one]) = SumFunction(Lying) + one
        BY <1>0, SumChanged
    <3> QED BY <3>1, <3>2
  <2>5. DOMAIN treasures' = DOMAIN treasures
      BY <2>1
  <2> QED BY <1>0, <2>2, <2>3, <2>4, <2>5
<1>2. CASE Arena!TreasureAt(c) = {}
  <2> DEFINE D == DOMAIN treasures
             n == nextTreasure
  <2>1. treasures' = Arena!With(treasures, n, [cell |-> c, value |-> 1]) /\ nextTreasure' = n + 1
      BY <1>2 DEF Arena!DropTreasure
  <2>2. n \notin D
      BY <1>0
  <2>3. DOMAIN treasures' = D \cup {n}
      BY <2>1 DEF Arena!With
  <2>4. \A i \in D \cup {n} : Lying'[i] = IF i = n THEN 1 ELSE Lying[i]
      BY <2>1, <2>2, <2>3 DEF Lying, Worth, Arena!With
  <2>5. Lying' \in [D \cup {n} -> Int]
    <3>1. Lying' = [i \in D \cup {n} |-> Lying'[i]]
        BY <2>3 DEF Lying, Worth
    <3> QED BY <1>0, <2>4, <3>1
  <2>6. \A i \in D : Lying'[i] = Lying[i]
      BY <2>2, <2>4
  <2> HIDE DEF D
  <2>7. SumFunction(Lying') = SumFunction(Lying) + Lying'[n]
      BY <1>0, <2>2, <2>5, <2>6, SumExtended DEF D
  <2>8. Lying'[n] = 1
      BY <2>4
  <2> QED BY <1>0, <2>1, <2>3, <2>7, <2>8 DEF D
<1> QED BY <1>1, <1>2

\* What a step does to the two sides of the balance.
LEMMA BooksMove ==
    ASSUME Arena!ArenaAssumption, AInv, LInv, restores = 0, NEW a \in Int, NEW b \in Int,
           SumFunction(Lying)' = SumFunction(Lying) + a,
           SumFunction(Carried)' = SumFunction(Carried) + b,
           minted' \in Int, spent' \in Int, minted' - spent' = minted - spent + a + b,
           (DOMAIN profile \cap DOMAIN players = {})',
           nextTreasure' \in Int, \A i \in DOMAIN treasures' : i \in Int /\ i < nextTreasure'
    PROVE  LInv'
<1>1. minted \in Int /\ spent \in Int /\ minted = spent + SumFunction(Lying) + SumFunction(Carried)
    BY DEF LInv
<1>2. SumFunction(Lying) \in Int /\ SumFunction(Carried) \in Int
    BY LootTypes
<1>3. minted' = spent' + SumFunction(Lying)' + SumFunction(Carried)'
    BY <1>1, <1>2
<1> QED BY <1>3 DEF LInv

\* Nothing on the map changes.
LEMMA MapStays ==
    ASSUME LInv, restores = 0, UNCHANGED <<treasures, nextTreasure>>
    PROVE  /\ SumFunction(Lying)' = SumFunction(Lying)
           /\ nextTreasure' \in Int /\ \A i \in DOMAIN treasures' : i \in Int /\ i < nextTreasure'
<1>1. Lying' = Lying
    BY DEF Lying, Worth
<1> QED BY <1>1 DEF LInv

\* Nothing on the map changes, and what one player gains was awarded, or what
\* it pays was spent.
LEMMA PlayerBooks ==
    ASSUME Arena!ArenaAssumption, AInv, LInv, restores = 0,
           NEW u \in DOMAIN players, NEW p, NEW d \in Int, p.loot = players[u].loot + d,
           players' = [players EXCEPT ![u] = p], UNCHANGED <<profile, treasures, nextTreasure>>,
           minted' \in Int, spent' \in Int, minted' - spent' = minted - spent + d
    PROVE  LInv'
<1>1. minted \in Int /\ spent \in Int
    BY DEF LInv
<1>2. PICK a \in Int : a = 0
    OBVIOUS
<1>3. /\ SumFunction(Lying)' = SumFunction(Lying) + a
      /\ nextTreasure' \in Int /\ \A i \in DOMAIN treasures' : i \in Int /\ i < nextTreasure'
    BY <1>2, MapStays, LootTypes
<1>4. minted' - spent' = minted - spent + a + d
    BY <1>1, <1>2
<1>5. SumFunction(Carried)' = SumFunction(Carried) + d /\ (DOMAIN profile \cap DOMAIN players = {})'
    BY CarriedChanges
<1> QED BY <1>3, <1>4, <1>5, BooksMove

\* Nobody gains or loses, and perhaps a drop that was counted.
LEMMA MapBooks ==
    ASSUME Arena!ArenaAssumption, AInv, LInv, restores = 0, Carried' = Carried,
           (DOMAIN profile \cap DOMAIN players = {})', UNCHANGED spent,
           \/ UNCHANGED <<treasures, nextTreasure, minted>>
           \/ \E c \in Arena!Cell : Arena!DropTreasure(c, 1) /\ minted' = minted + 1
    PROVE  LInv'
<1>1. minted \in Int /\ spent \in Int
    BY DEF LInv
<1>2. PICK b \in Int : b = 0
    OBVIOUS
<1>3. SumFunction(Carried)' = SumFunction(Carried) + b
    BY <1>2, LootTypes
<1>4. CASE UNCHANGED <<treasures, nextTreasure, minted>>
  <2>1. /\ SumFunction(Lying)' = SumFunction(Lying) + b
        /\ nextTreasure' \in Int /\ \A i \in DOMAIN treasures' : i \in Int /\ i < nextTreasure'
      BY <1>2, <1>4, MapStays, LootTypes
  <2>2. minted' \in Int /\ spent' \in Int /\ minted' - spent' = minted - spent + b + b
      BY <1>1, <1>2, <1>4
  <2> QED BY <1>3, <2>1, <2>2, BooksMove
<1>5. ASSUME NEW c \in Arena!Cell, Arena!DropTreasure(c, 1), minted' = minted + 1 PROVE LInv'
  <2>1. PICK a \in Int : a = 1
      OBVIOUS
  <2>2. /\ SumFunction(Lying)' = SumFunction(Lying) + a
        /\ nextTreasure' \in Int /\ \A i \in DOMAIN treasures' : i \in Int /\ i < nextTreasure'
      BY <1>5, <2>1, DropAdds
  <2>3. minted' \in Int /\ spent' \in Int /\ minted' - spent' = minted - spent + a + b
      BY <1>1, <1>2, <1>5, <2>1
  <2> QED BY <1>3, <2>2, <2>3, BooksMove
<1> QED BY <1>4, <1>5

\* The profile of whoever enters becomes its state in the world,
LEMMA EnterBooks ==
    ASSUME Arena!ArenaAssumption, AInv, LInv, restores = 0, NEW u \in Users,
           NEW here \in BOOLEAN,
           Arena!Enter(u, here)
    PROVE  LInv'
<1>1. /\ u \notin online /\ profile' = Arena!Restrict(profile, DOMAIN profile \ {u})
      /\ UNCHANGED <<treasures, nextTreasure, minted, spent>>
    BY DEF Arena!Enter, Arena!things, Arena!books
<1>2. PICK p : players' = Arena!With(players, u, p) /\ p.loot = profile[u].loot
    BY DEF Arena!Enter
<1>3. u \in DOMAIN profile /\ u \notin DOMAIN players /\ DOMAIN profile \cap DOMAIN players = {}
    BY <1>1 DEF AInv, Profiles, Homes, LInv
<1>4. Carried' = Carried
    BY <1>1, <1>2, <1>3 DEF Carried, Arena!Loot, Arena!With, Arena!Restrict, AInv, Profiles
<1>5. (DOMAIN profile \cap DOMAIN players = {})'
    BY <1>1, <1>2, <1>3 DEF Arena!With, Arena!Restrict
<1> QED BY <1>1, <1>4, <1>5, MapBooks

\* and that of whoever leaves its profile.
LEMMA LeaveBooks ==
    ASSUME Arena!ArenaAssumption, AInv, LInv, restores = 0, NEW u \in Users, Arena!Leave(u)
    PROVE  LInv'
<1>1. /\ UNCHANGED <<treasures, nextTreasure, minted, spent>>
      /\ DOMAIN profile \cap DOMAIN players = {}
    BY DEF Arena!Leave, Arena!things, Arena!books, LInv
<1>2. CASE u \notin DOMAIN players
  <2>1. UNCHANGED <<players, profile>>
      BY <1>2 DEF Arena!Leave, Arena!Present
  <2>2. Carried' = Carried
      BY <2>1 DEF Carried, Arena!Loot
  <2> QED BY <1>1, <2>1, <2>2, MapBooks
<1>3. CASE u \in DOMAIN players
  <2>1. /\ profile' = Arena!With(profile, u, Arena!ProfileOf(u))
        /\ players' = Arena!Restrict(players, DOMAIN players \ {u})
      BY <1>3 DEF Arena!Leave, Arena!Present
  <2>2. Arena!ProfileOf(u).loot = players[u].loot
      BY DEF Arena!ProfileOf, Arena!FreshProfile
  <2>3. Carried' = Carried
    <3>1. ASSUME NEW v \in Users PROVE Arena!Loot(v)' = Arena!Loot(v)
      <4>1. CASE v = u
          BY <1>1, <1>3, <2>1, <2>2, <4>1 DEF Arena!Loot, Arena!With, Arena!Restrict
      <4>2. CASE v # u
          BY <2>1, <4>2 DEF Arena!Loot, Arena!With, Arena!Restrict, AInv, Profiles
      <4> QED BY <4>1, <4>2
    <3> QED BY <3>1 DEF Carried
  <2>4. (DOMAIN profile \cap DOMAIN players = {})'
      BY <1>1, <2>1 DEF Arena!With, Arena!Restrict
  <2> QED BY <1>1, <2>3, <2>4, MapBooks
<1> QED BY <1>2, <1>3

\* A hit takes no loot.
LEMMA HitBooks ==
    ASSUME Arena!ArenaAssumption, AInv, LInv, restores = 0, NEW v \in DOMAIN players,
           players' = [players EXCEPT ![v] = Arena!Hit(@)],
           UNCHANGED <<profile, treasures, nextTreasure, minted, spent>>
    PROVE  LInv'
<1>1. players[v] \in Body /\ minted \in Int /\ spent \in Int
    BY DEF AInv, Bodies, LInv
<1>2. PICK d \in Int : d = 0
    OBVIOUS
<1>3. Arena!Hit(players[v]).loot = players[v].loot + d
    BY <1>1, <1>2 DEF Body, Arena!Hit
<1>4. minted' - spent' = minted - spent + d
    BY <1>1, <1>2
<1> QED BY <1>1, <1>3, <1>4, PlayerBooks

\* Players that stay where they are, or revive.
LEMMA StandBooks ==
    ASSUME Arena!ArenaAssumption, AInv, LInv, restores = 0, NEW u \in Users,
           \/ Arena!Refresh(u) \/ Arena!Pass(u) \/ Arena!HealPlayer(u) \/ Arena!RewardPlayer(u)
           \/ \E price \in {PotionPrice, WeaponPrice}, potion \in BOOLEAN :
                Arena!BuyItem(u, price, potion)
    PROVE  LInv'
<1> DEFINE q == players[u]
<1>1. u \in DOMAIN players /\ q \in Body
    BY DEF AInv, Bodies, Arena!Refresh, Arena!Due, Arena!Pass, Arena!HealPlayer,
        Arena!RewardPlayer,
           Arena!BuyItem, Arena!Acts, Arena!Alive, Arena!Present
<1>2. UNCHANGED <<profile, treasures, nextTreasure>>
    BY DEF Arena!Refresh, Arena!Pass, Arena!HealPlayer, Arena!RewardPlayer, Arena!BuyItem,
        Arena!things
<1>3. /\ PotionPrice \in Int /\ WeaponPrice \in Int
      /\ minted \in Int /\ spent \in Int /\ q.loot \in Int
    BY <1>1 DEF Arena!ArenaAssumption, LInv, Body
<1>4. PICK one \in Int : one = 1
    OBVIOUS
<1>5. PICK zero \in Int : zero = 0
    OBVIOUS
<1>6. CASE Arena!Refresh(u)
  <2>1. PICK c : players' = [players EXCEPT ![u] = Arena!Revived(u, c)]
      BY <1>6 DEF Arena!Refresh
  <2>2. Arena!Revived(u, c).loot = q.loot + zero
      BY <1>1, <1>3, <1>5 DEF Arena!Revived, Body
  <2>3. minted' \in Int /\ spent' \in Int /\ minted' - spent' = minted - spent + zero
      BY <1>3, <1>5, <1>6 DEF Arena!Refresh, Arena!books
  <2> QED BY <1>1, <1>2, <2>1, <2>2, <2>3, PlayerBooks
<1>7. CASE Arena!Pass(u)
  <2> DEFINE p == [q EXCEPT !.respawn = "past"]
  <2>1. players' = [players EXCEPT ![u] = p]
      BY <1>7 DEF Arena!Pass
  <2>2. p.loot = q.loot + zero
      BY <1>1, <1>3, <1>5 DEF Body
  <2>3. minted' \in Int /\ spent' \in Int /\ minted' - spent' = minted - spent + zero
      BY <1>3, <1>5, <1>7 DEF Arena!Pass, Arena!books
  <2> HIDE DEF p
  <2> QED BY <1>1, <1>2, <2>1, <2>2, <2>3, PlayerBooks
<1>8. CASE Arena!HealPlayer(u)
  <2> DEFINE p == [q EXCEPT !.potions = @ - 1, !.hp = IF @ < InitHP THEN @ + 1 ELSE @]
  <2>1. players' = [players EXCEPT ![u] = p]
      BY <1>1, <1>8 DEF Arena!HealPlayer
  <2>2. p.loot = q.loot + zero
      BY <1>1, <1>3, <1>5 DEF Body
  <2>3. minted' \in Int /\ spent' \in Int /\ minted' - spent' = minted - spent + zero
      BY <1>3, <1>5, <1>8 DEF Arena!HealPlayer, Arena!books
  <2> HIDE DEF p
  <2> QED BY <1>1, <1>2, <2>1, <2>2, <2>3, PlayerBooks
<1>9. CASE Arena!RewardPlayer(u)
  <2> DEFINE p == [q EXCEPT !.loot = @ + 1]
  <2>1. players' = [players EXCEPT ![u] = p]
      BY <1>9 DEF Arena!RewardPlayer
  <2>2. p.loot = q.loot + one
      BY <1>1, <1>3, <1>4 DEF Body
  <2>3. minted' \in Int /\ spent' \in Int /\ minted' - spent' = minted - spent + one
      BY <1>3, <1>4, <1>9 DEF Arena!RewardPlayer
  <2> HIDE DEF p
  <2> QED BY <1>1, <1>2, <2>1, <2>2, <2>3, PlayerBooks
<1>10. ASSUME NEW price \in {PotionPrice, WeaponPrice}, NEW potion \in BOOLEAN,
      Arena!BuyItem(u, price, potion)
       PROVE  LInv'
  <2> DEFINE p == [q EXCEPT !.loot = @ - price, !.potions = IF potion THEN @ + 1 ELSE @]
  <2>0. PICK d \in Int : d = -price
      BY <1>3
  <2>1. players' = [players EXCEPT ![u] = p]
      BY <1>1, <1>10 DEF Arena!BuyItem
  <2>2. p.loot = q.loot + d
      BY <1>1, <1>3, <2>0 DEF Body
  <2>3. minted' \in Int /\ spent' \in Int /\ minted' - spent' = minted - spent + d
      BY <1>3, <1>10, <2>0 DEF Arena!BuyItem
  <2> HIDE DEF p
  <2> QED BY <1>1, <1>2, <2>1, <2>2, <2>3, PlayerBooks
<1> QED BY <1>6, <1>7, <1>8, <1>9, <1>10

\* What is picked up is no longer on the map.
LEMMA MoveBooks ==
    ASSUME Arena!ArenaAssumption, AInv, LInv, restores = 0, NEW u \in Users,
        NEW c \in Arena!Cell,
           Arena!Move(u, c)
    PROVE  LInv'
<1> DEFINE D == DOMAIN treasures
           found == Arena!TreasureAt(c)
           won == Arena!SumFunction(Worth(found))
           p == [players[u] EXCEPT !.cell = c, !.loot = @ + won]
<1>0. /\ UNCHANGED <<nextTreasure, profile, minted, spent>> /\ minted \in Int /\ spent \in Int
      /\ treasures' = Arena!Restrict(treasures, D \ found) /\ found \subseteq D
      /\ nextTreasure \in Int /\ \A i \in DOMAIN treasures : i \in Int /\ i < nextTreasure
    BY DEF Arena!Move, Arena!books, LInv, Arena!TreasureAt
<1>1. u \in DOMAIN players /\ players[u] \in Body
    BY DEF AInv, Bodies, Arena!Move, Arena!Acts, Arena!Alive, Arena!Present
<1>2. players' = [players EXCEPT ![u] = p]
  <2>1. Worth(found) = [i \in found |-> treasures[i].value]
      BY DEF Worth
  <2>2. players' = [players EXCEPT ![u].cell = c, ![u].loot = @ + won]
      BY <2>1 DEF Arena!Move
  <2> HIDE DEF won
  <2> QED BY <1>1, <2>2 DEF AInv, Bodies
<1>3. won = SumFunction(Worth(found)) /\ won \in Int
    BY <1>0, WorthType, ArenaSum
<1>4. SumFunction(Lying) = won + SumFunction(Worth(D \ found))
  <2>1. IsFiniteSet(D) /\ Lying \in [D -> Int]
      BY WorthType DEF Lying
  <2>2. /\ Worth(found) = [i \in found |-> Lying[i]]
        /\ Worth(D \ found) = [i \in D \ found |-> Lying[i]]
      BY <1>0 DEF Worth, Lying
  <2>3. SumFunction(Lying) =
          SumFunction([i \in found |-> Lying[i]]) + SumFunction([i \in D \ found |-> Lying[i]])
    <3> HIDE DEF D, found
    <3> QED BY <1>0, <2>1, SumParts
  <2> QED BY <1>3, <2>2, <2>3
<1>5. SumFunction(Worth(D \ found)) \in Int
    BY <1>0, WorthType, ArenaSum
<1>6. Lying' = Worth(D \ found)
    BY <1>0 DEF Lying, Worth, Arena!Restrict
<1> HIDE DEF won
<1>7. p.loot = players[u].loot + won
    BY <1>1, <1>3 DEF Body
<1> HIDE DEF p
<1>8. /\ SumFunction(Carried)' = SumFunction(Carried) + won
      /\ (DOMAIN profile \cap DOMAIN players = {})'
    BY <1>0, <1>1, <1>2, <1>3, <1>7, CarriedChanges
<1>9. PICK a \in Int : a = -won
    BY <1>3
<1>10. SumFunction(Lying)' = SumFunction(Lying) + a
    BY <1>3, <1>4, <1>5, <1>6, <1>9
<1>11. /\ nextTreasure' \in Int /\ \A i \in DOMAIN treasures' : i \in Int /\ i < nextTreasure'
       /\ minted' \in Int /\ spent' \in Int /\ minted' - spent' = minted - spent + a + won
    BY <1>0, <1>3, <1>9 DEF Arena!Restrict
<1> QED BY <1>3, <1>8, <1>10, <1>11, BooksMove

\* A fight, or the world by itself, drops what it counts.
LEMMA FightBooks ==
    ASSUME Arena!ArenaAssumption, AInv, LInv, restores = 0,
           \/ \E u \in Users : Arena!Attack(u)
           \/ Arena!BackgroundStep
    PROVE  LInv'
<1> DEFINE struck == /\ \E v \in DOMAIN players : players' = [players EXCEPT ![v] = Arena!Hit(@)]
                     /\ UNCHANGED <<treasures, nextTreasure, minted>>
           dropped == \/ UNCHANGED <<treasures, nextTreasure, minted>>
                      \/ \E c \in Arena!Cell : Arena!DropTreasure(c, 1) /\ minted' = minted + 1
<1>1. /\ UNCHANGED <<profile, spent>> /\ DOMAIN profile \cap DOMAIN players = {}
      /\ UNCHANGED players => Carried' = Carried
    BY DEF Arena!Attack, Arena!BackgroundStep, Arena!Background, Arena!SpawnStep,
        Arena!SpawnOrChest,
           Arena!NpcStep, Arena!books, LInv, Carried, Arena!Loot
<1>2. struck \/ (UNCHANGED players /\ dropped)
  <2>1. ASSUME NEW u \in Users, Arena!Attack(u), Arena!NpcsInReach(u) # {}
        PROVE  UNCHANGED players /\ dropped
    <3>1. \A i \in Arena!NpcsInReach(u) : npcs[i].cell \in Arena!Cell
        BY DEF AInv, Guards, Guard, Arena!NpcsInReach
    <3> QED BY <2>1, <3>1 DEF Arena!Attack, Arena!Weakest
  <2>2. ASSUME NEW u \in Users, Arena!Attack(u), Arena!NpcsInReach(u) = {} PROVE struck
      BY <2>2 DEF Arena!Attack, Arena!Weakest, Arena!Alive, Arena!Present
  <2>3. CASE Arena!SpawnOrChest
      BY <2>3 DEF Arena!SpawnOrChest, Arena!Open
  <2>4. CASE Arena!NpcStep
      BY <2>4 DEF Arena!NpcStep, Arena!Weakest, Arena!Alive, Arena!Present, Arena!books
  <2> QED BY <2>1, <2>2, <2>3, <2>4 DEF Arena!BackgroundStep, Arena!Background, Arena!SpawnStep
<1>3. CASE struck
    BY <1>1, <1>3, HitBooks
<1>4. CASE UNCHANGED players /\ dropped
    BY <1>1, <1>4, MapBooks
<1> QED BY <1>2, <1>3, <1>4

\* The treasures of a new world count one each.
LEMMA LInit == ASSUME Arena!ArenaAssumption, Arena!Init PROVE LInv
<1> USE DEF Arena!Init
<1> DEFINE T == MaxTreasures \div 2
<1>1. T \in Nat /\ minted = T /\ nextTreasure = T /\ spent = 0
    BY DEF Arena!ArenaAssumption
<1> HIDE DEF T
<1>2. DOMAIN treasures = 0..(T - 1) /\ \A i \in DOMAIN treasures : treasures[i].value = 1
    BY DEF Arena!Fresh, T
<1>3. SumFunction(Lying) = T
  <2>1. Lying = [i \in 0..(T - 1) |-> 1]
      BY <1>2 DEF Lying, Worth
  <2>2. IsFiniteSet(0..(T - 1)) /\ Cardinality(0..(T - 1)) = T
      BY <1>1, FS_Interval
  <2> QED BY <2>1, <2>2, SumOnes
<1>4. SumFunction(Carried) = 0
  <2>1. Carried = [u \in Users |-> 0]
      BY DEF Carried, Arena!Loot, Arena!FreshProfile
  <2>2. IsFiniteSet(Users)
      BY DEF Arena!ArenaAssumption, Arena!IsFiniteSet, IsFiniteSet
  <2> QED BY <2>1, <2>2, SumZeros
<1> QED BY <1>1, <1>2, <1>3, <1>4 DEF LInv

\* Every step keeps the books; a failover closes them.
LEMMA LNext ==
    ASSUME Arena!ArenaAssumption, AInv, AInv', LInv, [Arena!Next]_(Arena!vars)
    PROVE  LInv'
<1>1. CASE Arena!RestoreCheckpoint
  <2>1. restores \in Int /\ restores >= 0 /\ restores' = restores + 1
      BY <1>1 DEF Arena!RestoreCheckpoint, AInv, Homes, Arena!ArenaAssumption
  <2> QED BY <2>1 DEF LInv
<1>2. CASE UNCHANGED Arena!vars
    BY <1>2 DEF Arena!vars, LInv, Lying, Worth, Carried, Arena!Loot
<1>3. ASSUME Arena!Next, ~Arena!RestoreCheckpoint PROVE UNCHANGED restores
    BY <1>3 DEF Arena!Next, Arena!Enter, Arena!Leave, Arena!Refresh, Arena!Pass, Arena!Commands,
                Arena!Move, Arena!HealPlayer, Arena!BuyItem, Arena!Attack, Arena!RewardPlayer,
                Arena!BackgroundStep, Arena!Background, Arena!SpawnStep, Arena!SpawnOrChest,
                Arena!NpcStep, Arena!CaptureCheckpoint, Arena!books
<1>4. ASSUME Arena!Next, ~Arena!RestoreCheckpoint, restores = 0 PROVE LInv'
  <2>1. ASSUME NEW u \in Users, NEW here \in BOOLEAN, Arena!Enter(u, here) PROVE LInv'
      BY <1>4, <2>1, EnterBooks
  <2>2. ASSUME NEW u \in Users, Arena!Leave(u) \/ Arena!Refresh(u) \/ Arena!Pass(u)
        \/ Arena!RewardPlayer(u)
        PROVE  LInv'
      BY <1>4, <2>2, LeaveBooks, StandBooks
  <2>3. ASSUME NEW u \in Users, Arena!Commands(u) PROVE LInv'
    <3>1. ASSUME NEW c \in Arena!Cell, Arena!Move(u, c) PROVE LInv'
        BY <1>4, <3>1, MoveBooks
    <3>2. CASE Arena!HealPlayer(u) \/ Arena!Attack(u)
        BY <1>4, <3>2, StandBooks, FightBooks
    <3>3. CASE Arena!BuyItem(u, PotionPrice, TRUE)
        BY <1>4, <3>3, StandBooks
    <3>4. CASE Arena!BuyItem(u, WeaponPrice, FALSE)
        BY <1>4, <3>4, StandBooks
    <3> QED BY <2>3, <3>1, <3>2, <3>3, <3>4 DEF Arena!Commands
  <2>4. CASE Arena!BackgroundStep
      BY <1>4, <2>4, FightBooks
  <2>5. CASE Arena!CaptureCheckpoint
      BY <1>4, <2>5 DEF Arena!CaptureCheckpoint, Arena!things, Arena!books, LInv, Lying,
          Worth, Carried, Arena!Loot
  <2> QED BY <1>4, <2>1, <2>2, <2>3, <2>4, <2>5 DEF Arena!Next
<1> QED BY <1>1, <1>2, <1>3, <1>4 DEF LInv

\* Loot is neither lost nor doubled: until a failover, what lies on the map, is
\* carried or waits in a profile, and what the shop took, is what was dropped
\* and awarded, whatever the order of deaths, logouts, drops and purchases.
THEOREM LootIsKept ==
    ASSUME Arena!ArenaAssumption
    PROVE  Arena!Spec => []Arena!LootKept
<1>1. Arena!ArenaAssumption /\ AInv /\ LInv => Arena!LootKept
  <2> SUFFICES ASSUME LInv PROVE Arena!LootKept
      OBVIOUS
  <2>1. Arena!SumFunction([i \in DOMAIN treasures |-> treasures[i].value]) = SumFunction(Lying)
      BY ArenaSum DEF Lying, Worth
  <2>2. Arena!SumFunction([u \in Users |-> Arena!Loot(u)]) = SumFunction(Carried)
      BY ArenaSum DEF Carried
  <2> QED BY <2>1, <2>2 DEF LInv, Arena!LootKept
<1>2. Arena!Init => AInv /\ LInv
    BY AInit, LInit
<1>3. AInv /\ LInv /\ [Arena!Next]_(Arena!vars) => AInv' /\ LInv'
    BY ArenaNext, LNext
<1> QED BY <1>1, <1>2, <1>3, PTL DEF Arena!Spec
-----------------------------------------------------------------------------
(*                                                                         *)
(* The open world of Lab2 (OpenWorld): whoever is knocked down rises.      *)
(*                                                                         *)
CONSTANTS Early, MapSize, AttackDmg, HealAmt, MaxCommands, Prompt
VARIABLES roamers, body, sleeping, at, more, hand, snap, closed, shown, given, panicked
Open == INSTANCE OpenWorld WITH players <- roamers

\* What a handler does.
Steps == {"join", "hello", "receive", "sending", "bye", "leave", "close", "gone"}

\* A handler is inside a broadcast only where it has one to make.
Announces == /\ more \in [Player -> SUBSET {"snapshot", "event", "left"}]
             /\ \A p \in Player : "left" \in more[p] => at[p] \in {"hello", "sending", "bye"}

\* A player that has not joined sleeps as little as one that is up.
WInv == /\ body \in [Player -> [x : Int, hp : Nat, potions : Int]]
        /\ at \in [Player -> Steps] /\ Announces
        /\ roamers \subseteq Player /\ sleeping \subseteq Player
        /\ \A p \in Player : at[p] = "join" => p \notin sleeping /\ p \notin roamers
        /\ Open!WillRespawn

\* A step that leaves the world alone.
LEMMA WorldStays ==
    ASSUME WInv, at' \in [Player -> Steps], Announces',
           \A p \in Player : at'[p] = "join" => at[p] = "join",
           UNCHANGED <<roamers, body, sleeping>>
    PROVE  WInv'
    BY DEF WInv, Open!WillRespawn

\* A step that changes one body, and with it who sleeps.
LEMMA BodyStep ==
    ASSUME WInv, NEW q \in Player, NEW b \in [x : Int, hp : Nat, potions : Int],
           body' = [body EXCEPT ![q] = b], roamers' \subseteq Player,
           \A p \in Player \ {q} : /\ p \in roamers' <=> p \in roamers
                                   /\ p \in sleeping' <=> p \in sleeping,
           sleeping' \subseteq Player, q \in roamers' => (q \in sleeping' <=> b.hp = 0),
           at' \in [Player -> Steps], Announces', at'[q] # "join",
           \A p \in Player : at'[p] = "join" => at[p] = "join"
    PROVE  WInv'
    BY DEF WInv, Open!WillRespawn

\* A command of a player that is up, and the refusal of one that is not.
LEMMA CommandWorld ==
    ASSUME Open!WorldAssumption, WInv, NEW p \in Player, Open!Command(p)
    PROVE  WInv'
<1>1. /\ at[p] = "receive" /\ UNCHANGED roamers /\ at' \in [Player -> Steps] /\ Announces'
      /\ \A q \in Player : at'[q] = "join" => at[q] = "join"
  <2>1. at[p] = "receive"
      BY DEF Open!Command, Open!MovePlayer, Open!AttackPlayer, Open!HealPlayer, Open!Refused
  <2>2. PICK next \in SUBSET {"snapshot", "event"} : Open!Answer(p, next)
    <3>1. /\ {"event"} \in SUBSET {"snapshot", "event"}
          /\ {"snapshot"} \in SUBSET {"snapshot", "event"}
          /\ {"snapshot", "event"} \in SUBSET {"snapshot", "event"}
        OBVIOUS
    <3>2. \/ Open!Answer(p, {"event"}) \/ Open!Answer(p, {"snapshot"})
          \/ Open!Answer(p, {"snapshot", "event"})
        BY DEF Open!Command, Open!MovePlayer, Open!AttackPlayer, Open!HealPlayer, Open!Refused
    <3> QED BY <3>1, <3>2
  <2>3. at \in [Player -> Steps] /\ Announces
      BY DEF WInv
  <2>4. PICK step \in {"receive", "sending"} : at' = [at EXCEPT ![p] = step]
      BY <2>2 DEF Open!Answer
  <2>5. step \in Steps /\ step # "join" /\ more' = [more EXCEPT ![p] = next] /\ UNCHANGED roamers
      BY <2>2, <2>4 DEF Open!Answer, Steps
  <2>6. at' \in [Player -> Steps] /\ \A q \in Player : at'[q] = "join" => at[q] = "join"
      BY <2>3, <2>4, <2>5
  <2>7. "left" \notin next /\ next \in SUBSET {"snapshot", "event", "left"}
      OBVIOUS
  <2>8. Announces'
    <3>1. more' \in [Player -> SUBSET {"snapshot", "event", "left"}]
        BY <2>3, <2>5, <2>7 DEF Announces
    <3>2. ASSUME NEW q \in Player, "left" \in more'[q] PROVE at'[q] \in {"hello", "sending", "bye"}
      <4>1. q # p /\ more'[q] = more[q] /\ at'[q] = at[q]
          BY <2>3, <2>4, <2>5, <2>7, <3>2 DEF Announces
      <4> QED BY <2>3, <3>2, <4>1 DEF Announces
    <3> QED BY <3>1, <3>2 DEF Announces
  <2> QED BY <2>1, <2>5, <2>6, <2>8
<1>2. ASSUME NEW x \in Open!Cell, Open!MovePlayer(p, x) PROVE WInv'
  <2> DEFINE b == [body[p] EXCEPT !.x = x]
  <2>1. body' = [body EXCEPT ![p] = b] /\ UNCHANGED sleeping /\ at'[p] # "join"
      BY <1>1, <1>2 DEF Open!MovePlayer, Open!Answer, WInv
  <2>2. b \in [x : Int, hp : Nat, potions : Int] /\ b.hp = body[p].hp
      BY <1>2 DEF WInv, Open!Cell, Open!WorldAssumption
  <2> HIDE DEF b
  <2>3. p \in roamers => (p \in sleeping <=> b.hp = 0)
      BY <2>2 DEF WInv, Open!WillRespawn
  <2>4. roamers \subseteq Player /\ sleeping \subseteq Player
      BY DEF WInv
  <2> QED BY <1>1, <2>1, <2>2, <2>3, <2>4, BodyStep
<1>3. CASE Open!AttackPlayer(p)
  <2>1. CASE UNCHANGED <<body, sleeping>>
      BY <1>1, <2>1, WorldStays
  <2>2. ASSUME NEW q \in Open!InRange(p),
               body' = [body EXCEPT ![q].hp = IF @ > AttackDmg THEN @ - AttackDmg ELSE 0],
               sleeping' = IF body[q].hp <= AttackDmg THEN sleeping \cup {q} ELSE sleeping
        PROVE  WInv'
    <3>1. q \in roamers /\ q \in Player /\ body[q].hp > 0 /\ q \notin sleeping
        BY DEF Open!InRange, Open!Alive, WInv, Open!WillRespawn
    <3> DEFINE h == IF body[q].hp > AttackDmg THEN body[q].hp - AttackDmg ELSE 0
               b == [body[q] EXCEPT !.hp = h]
    <3>2. AttackDmg \in Nat /\ body[q] \in [x : Int, hp : Nat, potions : Int]
        BY <3>1 DEF Open!WorldAssumption, WInv
    <3>3. h \in Nat /\ (h = 0 <=> body[q].hp <= AttackDmg)
        BY <3>2
    <3>4. body' = [body EXCEPT ![q] = b]
        BY <2>2, <3>1 DEF WInv
    <3> HIDE DEF h
    <3>5. b \in [x : Int, hp : Nat, potions : Int] /\ b.hp = h
        BY <3>2, <3>3
    <3> HIDE DEF b
    <3>6. q \in sleeping' <=> b.hp = 0
        BY <2>2, <3>1, <3>3, <3>5
    <3>7. /\ sleeping' \subseteq Player /\ roamers \subseteq Player
          /\ \A o \in Player \ {q} : o \in sleeping' <=> o \in sleeping
        BY <2>2, <3>1 DEF WInv
    <3>8. at'[q] # "join"
        BY <1>1, <3>1 DEF WInv
    <3> QED BY <1>1, <3>1, <3>4, <3>5, <3>6, <3>7, <3>8, BodyStep
  <2> QED BY <1>3, <2>1, <2>2 DEF Open!AttackPlayer, Open!Weakest
<1>4. CASE Open!HealPlayer(p)
  <2>1. CASE UNCHANGED body
      BY <1>1, <1>4, <2>1, WorldStays DEF Open!HealPlayer
  <2>2. CASE body[p].potions # 0
    <3> DEFINE h == IF body[p].hp + HealAmt > InitHP THEN InitHP ELSE body[p].hp + HealAmt
               k == body[p].potions - 1
               b == [body[p] EXCEPT !.potions = k, !.hp = h]
    <3>1. body[p] \in [x : Int, hp : Nat, potions : Int] /\ body[p].hp > 0 /\ p \in roamers
        BY <1>4 DEF WInv, Open!HealPlayer, Open!Alive
    <3>2. h \in Nat /\ h > 0 /\ k \in Int
        BY <3>1 DEF Open!WorldAssumption
    <3>3. body' = [body EXCEPT ![p] = b] /\ UNCHANGED sleeping
        BY <1>4, <2>2 DEF Open!HealPlayer, WInv
    <3> HIDE DEF h, k
    <3>4. b \in [x : Int, hp : Nat, potions : Int] /\ b.hp = h
        BY <3>1, <3>2
    <3> HIDE DEF b
    <3>5. p \notin sleeping
        BY <3>1 DEF WInv, Open!WillRespawn
    <3>6. /\ at'[p] # "join" /\ roamers' \subseteq Player /\ sleeping' \subseteq Player
          /\ b \in [x : Int, hp : Nat, potions : Int] /\ p \notin sleeping' /\ b.hp # 0
          /\ roamers' = roamers /\ sleeping' = sleeping
        BY <1>1, <1>4, <3>2, <3>3, <3>4, <3>5 DEF WInv
    <3> QED BY <1>1, <3>3, <3>6, BodyStep
  <2> QED BY <1>4, <2>1, <2>2 DEF Open!HealPlayer
<1>5. CASE Open!Refused(p)
    BY <1>1, <1>5, WorldStays DEF Open!Refused
<1> QED BY <1>2, <1>3, <1>4, <1>5 DEF Open!Command

\* A player joins, leaves or rises again.
LEMMA ComeAndGo ==
    ASSUME Open!WorldAssumption, WInv, NEW p \in Player, NEW x \in Open!Cell,
           Open!Join(p, x) \/ Open!RemovePlayer(p) \/ Open!respawn(p, x)
    PROVE  WInv'
<1>1. /\ Open!Newborn(x) \in [x : Int, hp : Nat, potions : Int] /\ Open!Newborn(x).hp # 0
      /\ Open!Dead \in [x : Int, hp : Nat, potions : Int] /\ Open!Dead.hp = 0
    BY DEF Open!Newborn, Open!Dead, Open!WorldAssumption, Open!Cell
<1>2. roamers \subseteq Player /\ sleeping \subseteq Player /\ at \in [Player -> Steps] /\ Announces
    BY DEF WInv
<1>3. CASE Open!Join(p, x)
  <2>1. /\ body' = [body EXCEPT ![p] = Open!Newborn(x)] /\ roamers' = roamers \cup {p}
        /\ UNCHANGED <<sleeping, more>> /\ p \notin sleeping
        /\ at[p] = "join" /\ at' = [at EXCEPT ![p] = "hello"]
      BY <1>3 DEF Open!Join, WInv
  <2>2. /\ at' \in [Player -> Steps] /\ Announces' /\ at'[p] # "join"
        /\ \A q \in Player : at'[q] = "join" => at[q] = "join"
      BY <1>2, <2>1 DEF Steps, Announces
  <2> QED BY <1>1, <1>2, <2>1, <2>2, BodyStep
<1>4. CASE Open!RemovePlayer(p)
  <2>1. /\ body' = [body EXCEPT ![p] = Open!Dead] /\ roamers' = roamers \ {p}
        /\ UNCHANGED <<sleeping, more>> /\ at[p] = "leave" /\ at' = [at EXCEPT ![p] = "close"]
      BY <1>4 DEF Open!RemovePlayer
  <2>2. /\ at' \in [Player -> Steps] /\ Announces' /\ at'[p] # "join"
        /\ \A q \in Player : at'[q] = "join" => at[q] = "join"
      BY <1>2, <2>1 DEF Steps, Announces
  <2> QED BY <1>1, <1>2, <2>1, <2>2, BodyStep
<1>5. CASE Open!respawn(p, x) /\ p \in roamers
  <2>1. /\ body' = [body EXCEPT ![p] = Open!Newborn(x)] /\ UNCHANGED <<roamers, at, more>>
        /\ sleeping' = sleeping \ {p}
      BY <1>5 DEF Open!respawn
  <2>2. at'[p] # "join" /\ Announces'
      BY <1>2, <1>5, <2>1 DEF WInv, Announces
  <2> QED BY <1>1, <1>2, <2>1, <2>2, BodyStep
<1>6. CASE Open!respawn(p, x) /\ p \notin roamers
  <2>1. UNCHANGED <<roamers, at, body, more>> /\ sleeping' = sleeping \ {p}
      BY <1>6 DEF Open!respawn
  <2> QED BY <1>6, <2>1 DEF WInv, Announces, Open!WillRespawn
<1> QED BY <1>3, <1>4, <1>5, <1>6

\* A knocked-down player that is in the world has a respawn goroutine waiting,
\* and an upright one has none that would interrupt its life (OpenWorld's
\* WillRespawn; world.go:249-264, 292-305).
THEOREM RespawnComes ==
    ASSUME Open!WorldAssumption
    PROVE  Open!Spec => []Open!WillRespawn
<1>1. Open!Init => WInv
  <2> SUFFICES ASSUME Open!Init PROVE WInv
      OBVIOUS
  <2>1. \A x \in {0} : /\ Open!Newborn(x) \in [x : Int, hp : Nat, potions : Int]
                       /\ Open!Newborn(x).hp # 0
      BY DEF Open!Newborn, Open!WorldAssumption
  <2>2. Open!Dead \in [x : Int, hp : Nat, potions : Int]
      BY DEF Open!Dead
  <2> QED BY <2>1, <2>2 DEF Open!Init, WInv, Open!WillRespawn, Open!WorldAssumption, Steps,
                            Announces
<1>2. WInv /\ [Open!Next]_(Open!vars) => WInv'
  <2> SUFFICES ASSUME WInv, [Open!Next]_(Open!vars) PROVE WInv'
      OBVIOUS
  <2>1. ASSUME NEW p \in Player, Open!Command(p) PROVE WInv'
      BY <2>1, CommandWorld
  <2>2. ASSUME NEW p \in Player, NEW x \in Open!Cell,
               Open!Join(p, x) \/ Open!respawn(p, x)
        PROVE  WInv'
      BY <2>2, ComeAndGo
  <2>3. ASSUME NEW p \in Player, Open!RemovePlayer(p) PROVE WInv'
    <3>1. 0 \in Open!Cell
        BY DEF Open!Cell, Open!WorldAssumption
    <3> QED BY <2>3, <3>1, ComeAndGo
  <2>4. ASSUME NEW p \in Player,
               Open!Broadcast(p) \/ Open!Return(p) \/ Open!Close(p) \/ Open!Hangup(p)
        PROVE  WInv'
    <3>1. /\ UNCHANGED <<roamers, body, sleeping>> /\ at' \in [Player -> Steps] /\ Announces'
          /\ \A q \in Player : at'[q] = "join" => at[q] = "join"
        BY <2>4 DEF Open!Broadcast, Open!Return, Open!Close, Open!Hangup, Open!After, WInv,
                    Steps, Announces
    <3> QED BY <3>1, WorldStays
  <2>5. CASE \/ Open!Tick \/ UNCHANGED Open!vars
             \/ \E s \in Open!Sender, c \in Player : Open!SendRaw(s, c)
    <3>1. UNCHANGED <<roamers, body, sleeping, at, more>>
        BY <2>5 DEF Open!Tick, Open!vars, Open!SendRaw
    <3> QED BY <3>1, WorldStays DEF WInv, Announces
  <2> QED BY <2>1, <2>2, <2>3, <2>4, <2>5 DEF Open!Next, Open!Handler
<1>3. WInv => Open!WillRespawn
    BY DEF WInv
<1> QED BY <1>1, <1>2, <1>3, PTL DEF Open!Spec
=============================================================================
