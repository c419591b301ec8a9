-------------------------- MODULE MCSessionRouting --------------------------
(* Two instances of SessionRouting: connections that take over from one      *)
(* another, and, where `alone` holds, one connection between polls, failures *)
(* and crashes. The properties are those of the module, and the constants of *)
(* the configuration the bounds of both.                                     *)
EXTENDS SessionRouting, TLC

CONSTANTS First, Cave

VARIABLE alone

Together == INSTANCE SessionRouting WITH
              MaxSwitches <- 1, MaxPolls <- 0, MaxFailures <- 0, MaxCrashes <- 0
Alone == INSTANCE SessionRouting WITH MaxDials <- 2

\* One connection dials, and its player goes to one other map.
Quiet == /\ \A c \in Conn \ {First} : conn[c] = "closed"
         /\ expect \subseteq {Green, Cave}

EachInit == alone \in BOOLEAN /\ Init
EachNext == /\ UNCHANGED alone
            /\ IF alone THEN Alone!Next /\ Quiet' ELSE Together!Next

Symmetry == Permutations(Conn) \cup Permutations(Map \ {Green})

\* The properties of this run say nothing of what follows a disturbance.
Calm == ~ disturbed
=============================================================================
