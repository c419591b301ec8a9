-------------------------- MODULE TreasureTransfer --------------------------
(***************************************************************************)
(* The "two-phase commit" trade of Lab4: Coordinator.TransferTreasures     *)
(* (cloud/coordinator.go) runs TransferWithParticipants (twopc/twopc.go)   *)
(* over two treasureParticipants, each a client of the map a player stands *)
(* on when the trade begins.                                               *)
(*                                                                         *)
(* Every prepare and commit is one HTTP call to a map server, atomic under *)
(* the mutex of its world; between two calls the other handlers run: other *)
(* trades, shopping, rewards, map switches and logouts.  A prepare reads   *)
(* the balance but reserves nothing, neither the treasures nor the player. *)
(* A coordinator that dies is a trade that takes no further step: there is *)
(* no fairness here and a trade keeps no record outside its handler.       *)
(*                                                                         *)
(* Balances are those of the live worlds.  What login loads after a logout *)
(* is another matter (module SessionRouting): here a logout is final.      *)
(***************************************************************************)
EXTENDS Integers, FiniteSets, Functions

CONSTANTS
    Player,     \* accounts, all online at the start
    Map,        \* maps, each served by one world
    Trade,      \* calls of TransferTreasures
    None,       \* no map
    Price,      \* prices in the shop
    MaxBag,     \* bound on the treasures a player starts with or earns up to
    MaxLost     \* bound on calls whose answer is lost after the world obeyed

ASSUME PlayerAssumption == IsFiniteSet(Player)
ASSUME MapAssumption == None \notin Map
ASSUME PriceAssumption == Price \subseteq Nat
ASSUME BoundAssumption == MaxBag \in Nat /\ MaxLost \in Nat

VARIABLES
    \* the map whose world holds the player (None while a switch carries it,
    \* and after logout), and the map the player's session names
    where, home,
    \* Player.Treasures, wherever the player's record is
    bag,
    \* the target of a SwitchMap in progress
    moving,
    \* the handlers: next call, and parties, amount and map clients captured
    pc, trade,
    \* number of answers lost so far
    lost,
    \* history: trades whose debit / credit a world applied, and the treasures
    \* there should be: those of the start, plus what was picked up or awarded,
    \* less what was spent in the shop
    debited, credited, books

player  == <<where, home, moving>>
history == <<debited, credited, books>>
vars    == <<player, bag, pc, trade, lost, history>>

Deal == [from : Player, to : Player, amount : 1..MaxBag, fromMap : Map, toMap : Map]
NoDeal == [amount |-> 0]

-----------------------------------------------------------------------------
Init ==
    /\ where \in [Player -> Map]
    /\ home = where
    /\ moving = [p \in Player |-> None]
    /\ bag \in [Player -> 0..MaxBag]
    /\ pc = [t \in Trade |-> "idle"]
    /\ trade = [t \in Trade |-> NoDeal]
    /\ lost = 0
    /\ debited = {} /\ credited = {}
    /\ books = SumFunction(bag)

-----------------------------------------------------------------------------
(* The world of one map, world.go. *)

Stands(p, m) == where[p] = m /\ m # None

\* AdjustTreasures trusting the balance that Prepare has read.
Adjustable_Unchecked(p, m, delta) == Stands(p, m)

\* AdjustTreasures succeeds: the player is on this map and can afford delta.
Adjustable(p, m, delta) == Stands(p, m) /\ bag[p] + delta >= 0

Adjust(p, delta) == bag' = [bag EXCEPT ![p] = @ + delta]

-----------------------------------------------------------------------------
(* TransferTreasures. *)

Goto(t, label) == pc' = [pc EXCEPT ![t] = label]

\* The handler goes on, or returns; only an unpaid receiver's trade stays on record.
Continue(t, label) == Goto(t, label) /\ UNCHANGED trade
Return(t, label) == Goto(t, label) /\ trade' = [trade EXCEPT ![t] = NoDeal]
Default(t) == Continue(t, "failed")

\* Trading on the map of a player without asking for a session.
Begin_NoSession(t) ==
    /\ pc[t] = "idle"
    /\ \E p, q \in Player, a \in 1..MaxBag :
          trade' = [trade EXCEPT ![t] =
             [from |-> p, to |-> q, amount |-> a, fromMap |-> home[p], toMap |-> home[q]]]
    /\ Goto(t, "prepareFrom")
    /\ UNCHANGED <<player, bag, lost, history>>

\* Validation and the two sessionMap calls, which copy the routes.
Begin(t) ==
    /\ pc[t] = "idle"
    /\ \E p, q \in Player, a \in 1..MaxBag :    \* nothing forbids p = q
          /\ home[p] # None /\ home[q] # None
          /\ trade' = [trade EXCEPT ![t] =
                [from |-> p, to |-> q, amount |-> a, fromMap |-> home[p], toMap |-> home[q]]]
    /\ Goto(t, "prepareFrom")
    /\ UNCHANGED <<player, bag, lost, history>>

\* from.Prepare: Profile of the payer, and "balance + delta < 0".
PrepareFrom(t) ==
    LET d == trade[t] IN
    /\ pc[t] = "prepareFrom"
    /\ IF Stands(d.from, d.fromMap) /\ bag[d.from] >= d.amount
       THEN Continue(t, "prepareTo") ELSE Return(t, "refused")
    /\ UNCHANGED <<player, bag, lost, history>>

\* to.Prepare; if the receiver is not found the payer's prepare is aborted.
PrepareTo(t) ==
    LET d == trade[t] IN
    /\ pc[t] = "prepareTo"
    /\ IF Stands(d.to, d.toMap)
       THEN Continue(t, "commitFrom") ELSE Return(t, "refused")
    /\ UNCHANGED <<player, bag, lost, history>>

\* The commit loop going on with the next participant after an error.
CommitFrom_Unstopped(t) ==
    LET d == trade[t] IN
    /\ pc[t] = "commitFrom"
    /\ IF Adjustable(d.from, d.fromMap, - d.amount)
       THEN Adjust(d.from, - d.amount) /\ debited' = debited \cup {t}
       ELSE UNCHANGED <<bag, debited>>
    /\ Continue(t, "commitTo")
    /\ UNCHANGED <<player, lost, credited, books>>

\* from.Commit: the world applies the debit; an error ends the trade as it is.
CommitFrom(t) ==
    LET d == trade[t] IN
    /\ pc[t] = "commitFrom"
    /\ IF Adjustable(d.from, d.fromMap, - d.amount)
       THEN /\ Adjust(d.from, - d.amount)
            /\ debited' = debited \cup {t}
            /\ \/ Continue(t, "commitTo") /\ UNCHANGED lost
               \/ Default(t) /\ lost < MaxLost /\ lost' = lost + 1
       ELSE Return(t, "failed") /\ UNCHANGED <<bag, debited, lost>>
    /\ UNCHANGED <<player, credited, books>>

\* Repeating the call whose answer was lost.
CommitTo_Retried(t) ==
    LET d == trade[t] IN
    /\ pc[t] = "commitTo"
    /\ IF Adjustable(d.to, d.toMap, d.amount)
       THEN /\ Adjust(d.to, d.amount)
            /\ credited' = credited \cup {t}
            /\ \/ Return(t, "done") /\ UNCHANGED lost
               \/ Continue(t, "commitTo") /\ lost < MaxLost /\ lost' = lost + 1
       ELSE Default(t) /\ UNCHANGED <<bag, credited, lost>>
    /\ UNCHANGED <<player, debited, books>>

\* to.Commit: the world applies the credit; an error leaves the debit alone.
CommitTo(t) ==
    LET d == trade[t] IN
    /\ pc[t] = "commitTo"
    /\ IF Adjustable(d.to, d.toMap, d.amount)
       THEN /\ Adjust(d.to, d.amount)
            /\ credited' = credited \cup {t}
            /\ \/ Return(t, "done") /\ UNCHANGED lost
               \/ Return(t, "failed") /\ lost < MaxLost /\ lost' = lost + 1
       ELSE Default(t) /\ UNCHANGED <<bag, credited, lost>>
    /\ UNCHANGED <<player, debited, books>>

-----------------------------------------------------------------------------
(* The handlers that run in between. *)

\* BuyItem: a potion or a weapon, if the player is there and can pay.
BuyItem(p) ==
    /\ where[p] # None
    /\ \E price \in Price :
          /\ bag[p] >= price
          /\ Adjust(p, - price)
          /\ books' = books - price
    /\ UNCHANGED <<player, pc, trade, lost, debited, credited>>

\* RewardPlayer, or MovePlayer onto a treasure.
Gain(p) ==
    /\ where[p] # None /\ bag[p] < MaxBag
    /\ Adjust(p, 1)
    /\ books' = books + 1
    /\ UNCHANGED <<player, pc, trade, lost, debited, credited>>

\* SwitchMap, RemovePlayer at the source ...
Leave(p) ==
    /\ moving[p] = None /\ home[p] # None /\ Stands(p, home[p])
    /\ \E m \in Map \ {home[p]} : moving' = [moving EXCEPT ![p] = m]
    /\ where' = [where EXCEPT ![p] = None]
    /\ UNCHANGED <<home, bag, pc, trade, lost, history>>

\* ... AddOrRestorePlayer at the target, with the profile Remove returned ...
Arrive(p) ==
    /\ moving[p] # None /\ where[p] = None
    /\ where' = [where EXCEPT ![p] = moving[p]]
    /\ UNCHANGED <<home, moving, bag, pc, trade, lost, history>>

\* ... and the locked block that updates the session.
Reroute(p) ==
    /\ moving[p] # None /\ where[p] = moving[p]
    /\ home' = [home EXCEPT ![p] = moving[p]]
    /\ moving' = [moving EXCEPT ![p] = None]
    /\ UNCHANGED <<where, bag, pc, trade, lost, history>>

\* Logout: the session first, then the player.
Logout(p) ==
    /\ moving[p] = None /\ home[p] # None
    /\ home' = [home EXCEPT ![p] = None]
    /\ UNCHANGED <<where, moving, bag, pc, trade, lost, history>>

RemoveLoggedOut(p) ==
    /\ home[p] = None /\ where[p] # None
    /\ where' = [where EXCEPT ![p] = None]
    /\ UNCHANGED <<home, moving, bag, pc, trade, lost, history>>

-----------------------------------------------------------------------------
Next ==
    \/ \E t \in Trade :
          \/ Begin(t)
          \/ PrepareFrom(t)
          \/ PrepareTo(t)
          \/ CommitFrom(t)
          \/ CommitTo(t)
    \/ \E p \in Player :
          \/ BuyItem(p)
          \/ Gain(p)
          \/ Leave(p)
          \/ Arrive(p)
          \/ Reroute(p)
          \/ Logout(p)
          \/ RemoveLoggedOut(p)

Spec == Init /\ [][Next]_vars

-----------------------------------------------------------------------------
(* Properties. *)

\* Types of the variables.
TypeOK ==
    /\ where \in [Player -> Map \cup {None}]
    /\ home \in [Player -> Map \cup {None}]
    /\ moving \in [Player -> Map \cup {None}]
    /\ bag \in [Player -> Int]
    /\ pc \in [Trade -> {"idle", "prepareFrom", "prepareTo", "commitFrom",
                         "commitTo", "done", "refused", "failed"}]
    /\ trade \in [Trade -> Deal \cup {NoDeal}]
    /\ \A t \in Trade : pc[t] \in {"prepareFrom", "prepareTo", "commitFrom", "commitTo"}
                            => trade[t] \in Deal
    /\ lost \in 0..MaxLost
    /\ debited \subseteq Trade /\ credited \subseteq Trade

\* No balance ever becomes negative, although Prepare reserves nothing and
\* trades of the same payer, purchases and map switches interleave with it.
NoOverdraft == \A p \in Player : bag[p] >= 0

\* Trading creates no treasure: a world credits the receiver only after a world
\* has debited the payer of the same trade.
CreditBacked == credited \subseteq debited

\* The books balance at every moment: what the players hold and what trades
\* have taken but not delivered is what they started with and earned, less
\* what they spent.  (The record of such a trade is kept.)
Conservation ==
    SumFunction(bag)
        + SumFunction([t \in debited \ credited |-> trade[t].amount])
    = books

\* twopc_support.go of Lab3 on TransferWithParticipants: "it must not happen
\* that alice is debited and bob does not receive".  Once the handler has
\* returned, both sides were applied or none.
AllOrNothing ==
    \A t \in Trade : pc[t] \in {"done", "refused", "failed"}
                         => (t \in debited <=> t \in credited)
=============================================================================
