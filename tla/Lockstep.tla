------------------------------ MODULE Lockstep ------------------------------
(* ch3/cmd/exp4 and ch3/internal/ch3game: two peers that play in lock step.  *)
(* In every frame each sends its own input, waits for the other's and        *)
(* computes the next state by itself with DeterministicUpdate; only inputs   *)
(* travel.  Either may leave at any time (the process ends, the connection   *)
(* closes).  The code plays 8 frames from 100 hit points.                    *)
EXTENDS Integers, Sequences

CONSTANTS Frames, StartHP, Keys, MaxLeaves

GameAssumption == /\ Frames \in Nat /\ StartHP \in Nat
                  /\ Keys \subseteq {"left", "right", "up", "down", "attack", "idle"}

Peer == {"host", "client"}
Other(p) == IF p = "host" THEN "client" ELSE "host"
Fighter == {"P0", "P1"}

VARIABLES state,     \* what each peer has computed
          frame,     \* the frame each peer is in
          pc,        \* "key": at the keyboard; "wait": in RecvJSON; "over"; "left"; "lost": the other has gone
          local,     \* the input each peer has read for this frame
          wire,      \* the inputs on their way to each peer
          leaves

vars == <<state, frame, pc, local, wire, leaves>>

State == [frame : 0..Frames, x : [Fighter -> 0..20], y : [Fighter -> 0..10],
          hp : [Fighter -> 0..StartHP], over : BOOLEAN]

TypeOK == /\ state \in [Peer -> State] /\ frame \in [Peer -> 1..Frames + 1]
          /\ pc \in [Peer -> {"key", "wait", "over", "left", "lost"}]
          /\ local \in [Peer -> Keys \cup {"idle"}] /\ wire \in [Peer -> Seq(Keys)]
          /\ \A p \in Peer : Len(wire[p]) <= 2
          /\ leaves \in 0..MaxLeaves

Start == [frame |-> 0, x |-> [f \in Fighter |-> IF f = "P0" THEN 1 ELSE 2],
          y |-> [f \in Fighter |-> 1], hp |-> [f \in Fighter |-> StartHP], over |-> FALSE]

Init == /\ state = [p \in Peer |-> Start] /\ frame = [p \in Peer |-> 1]
        /\ pc = [p \in Peer |-> IF Frames = 0 THEN "over" ELSE "key"]
        /\ local = [p \in Peer |-> "idle"] /\ wire = [p \in Peer |-> <<>>] /\ leaves = 0

-----------------------------------------------------------------------------

Clamp(v, low, high) == IF v < low THEN low ELSE IF v > high THEN high ELSE v
Foe(f) == IF f = "P0" THEN "P1" ELSE "P0"
Sides(mine, theirs, isHost) == [P0 |-> IF isHost THEN mine ELSE theirs,
                                P1 |-> IF isHost THEN theirs ELSE mine]

DeterministicUpdate_MineFirst(prev, mine, theirs, isHost) ==
  LET in   == Sides(mine, theirs, TRUE)
      x    == [f \in Fighter |-> Clamp(prev.x[f] + CASE in[f] = "left" -> -1 [] in[f] = "right" -> 1 [] OTHER -> 0, 0, 20)]
      hp   == [f \in Fighter |-> IF in[Foe(f)] = "attack" THEN IF prev.hp[f] > 10 THEN prev.hp[f] - 10 ELSE 0 ELSE prev.hp[f]]
  IN  [prev EXCEPT !.frame = @ + 1, !.x = x, !.hp = hp, !.over = \E f \in Fighter : hp[f] = 0]

(* Both moves first, then both blows at the new places, then the end.       *)
(* math.Sqrt(dx*dx + dy*dy) <= 1 is the comparison of the squares.          *)
Played(prev, in) ==
  LET x    == [f \in Fighter |-> Clamp(prev.x[f] + CASE in[f] = "left" -> -1 [] in[f] = "right" -> 1 [] OTHER -> 0, 0, 20)]
      y    == [f \in Fighter |-> Clamp(prev.y[f] + CASE in[f] = "up" -> -1 [] in[f] = "down" -> 1 [] OTHER -> 0, 0, 10)]
      near == (x.P0 - x.P1) * (x.P0 - x.P1) + (y.P0 - y.P1) * (y.P0 - y.P1) <= 1
      hit  == {f \in Fighter : in[Foe(f)] = "attack" /\ near}
      hp   == [f \in Fighter |-> IF f \in hit THEN Clamp(prev.hp[f] - 10, 0, StartHP) ELSE prev.hp[f]]
  IN  [frame |-> prev.frame + 1, x |-> x, y |-> y, hp |-> hp,
       over |-> prev.over \/ \E f \in Fighter : hp[f] = 0]
DeterministicUpdate(prev, mine, theirs, isHost) == Played(prev, Sides(mine, theirs, isHost))

(* parseInput and SendJSON (toMsg): a send to a peer that has gone is lost, *)
(* its error is ignored.                                                    *)
Key(p, k) == /\ pc[p] = "key"
             /\ local' = [local EXCEPT ![p] = k] /\ pc' = [pc EXCEPT ![p] = "wait"]
             /\ wire' = IF pc[Other(p)] \in {"key", "wait"}
                        THEN [wire EXCEPT ![Other(p)] = Append(@, k)] ELSE wire
             /\ UNCHANGED <<state, frame, leaves>>

(* RecvJSON, fromMsg and the update; the loop runs to the last frame or to  *)
(* the end of the game.                                                     *)
Frame_Ahead(p) == /\ pc[p] = "wait"
            /\ LET theirs == IF wire[p] = <<>> THEN "idle" ELSE Head(wire[p])
                   next == DeterministicUpdate(state[p], local[p], theirs, p = "host")
               IN  /\ state' = [state EXCEPT ![p] = next]
                   /\ pc' = [pc EXCEPT ![p] = IF next.over \/ frame[p] = Frames THEN "over" ELSE "key"]
            /\ frame' = [frame EXCEPT ![p] = @ + 1] /\ local' = [local EXCEPT ![p] = "idle"]
            /\ wire' = [wire EXCEPT ![p] = IF @ = <<>> THEN @ ELSE Tail(@)] /\ UNCHANGED leaves
Frame(p) == /\ pc[p] = "wait" /\ wire[p] # <<>>
            /\ LET next == DeterministicUpdate(state[p], local[p], Head(wire[p]), p = "host")
               IN  /\ state' = [state EXCEPT ![p] = next]
                   /\ pc' = [pc EXCEPT ![p] = IF next.over \/ frame[p] = Frames THEN "over" ELSE "key"]
            /\ frame' = [frame EXCEPT ![p] = @ + 1] /\ local' = [local EXCEPT ![p] = "idle"]
            /\ wire' = [wire EXCEPT ![p] = Tail(@)] /\ UNCHANGED leaves

(* RecvJSON fails: the other has closed the connection and what it had sent *)
(* is read.                                                                 *)
Lost_AfterTheEnd(p) == /\ pc[p] = "wait" /\ wire[p] = <<>> /\ pc[Other(p)] = "over"
                       /\ pc' = [pc EXCEPT ![p] = "lost"] /\ local' = [local EXCEPT ![p] = "idle"]
                       /\ UNCHANGED <<state, frame, wire, leaves>>
Lost(p) == /\ pc[p] = "wait" /\ wire[p] = <<>> /\ pc[Other(p)] \in {"over", "left", "lost"}
           /\ pc' = [pc EXCEPT ![p] = "lost"] /\ local' = [local EXCEPT ![p] = "idle"]
           /\ UNCHANGED <<state, frame, wire, leaves>>

(* The process is stopped; what it has not read goes with it, and the reset *)
(* this causes may also drop what the other has not read.                   *)
Leave(p) == /\ leaves < MaxLeaves /\ pc[p] \in {"key", "wait"}
            /\ leaves' = leaves + 1 /\ pc' = [pc EXCEPT ![p] = "left"]
            /\ local' = [local EXCEPT ![p] = "idle"]
            /\ \E kept \in {wire[Other(p)], <<>>} :
                 wire' = [wire EXCEPT ![p] = <<>>, ![Other(p)] = kept]
            /\ UNCHANGED <<state, frame>>

Next == \E p \in Peer : (\E k \in Keys : Key(p, k)) \/ Frame(p) \/ Lost(p) \/ Leave(p)

(* Somebody sits at each keyboard (a closed standard input reads as "idle"). *)
Spec == /\ Init /\ [][Next]_vars
        /\ \A p \in Peer : WF_vars(\E k \in Keys : Key(p, k)) /\ WF_vars(Frame(p)) /\ WF_vars(Lost(p))

-----------------------------------------------------------------------------

(* The point of lock step: two machines that exchange only inputs hold the  *)
(* same world whenever they have computed the same number of frames, and    *)
(* neither is ever more than one frame ahead of the other.                  *)
(* (DeterministicUpdate, main of both peers)                                *)
InStep == /\ state.host.frame = state.client.frame => state.host = state.client
          /\ state.host.frame - state.client.frame \in {-1, 0, 1}

(* Both peers stop: at the end of the game or because the other has gone;   *)
(* and where nobody left, they stop at the same end.                        *)
Stopped == /\ \A p \in Peer : pc[p] \in {"over", "left", "lost"}
           /\ leaves = 0 => \A p \in Peer : pc[p] = "over"
BothStop == <>Stopped
=============================================================================
