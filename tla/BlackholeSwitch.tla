-------------------------- MODULE BlackholeSwitch ---------------------------
(* The two loops of ch3/cmd/exp5_1/multi_thread_server/zombie_client: the    *)
(* key loop tells the receiving goroutine by blackholeCh, a channel of one   *)
(* place, whether to play dead.  MaxKeys bounds how often "t" is pressed.    *)
EXTENDS Naturals, Sequences

CONSTANT MaxKeys

VARIABLES ch,       \* blackholeCh
          mode,     \* the key loop's blackhole
          key,      \* the key loop: "key", "put", "drain" or "putAgain"
          dead,     \* the receiving goroutine's blackhole
          recv,     \* it: "top", "read" (in RecvJSON) or "wait" (on the channel)
          keys

vars == <<ch, mode, key, dead, recv, keys>>

TypeOK == /\ ch \in Seq(BOOLEAN) /\ Len(ch) <= 1 /\ mode \in BOOLEAN /\ dead \in BOOLEAN
          /\ key \in {"key", "put", "drain", "putAgain"} /\ recv \in {"top", "read", "wait"}
          /\ keys \in 0..MaxKeys

Init == /\ ch = <<FALSE>> /\ mode = FALSE /\ key = "key" /\ dead = FALSE /\ recv = "top" /\ keys = 0

-----------------------------------------------------------------------------

PressT == /\ key = "key" /\ keys < MaxKeys
          /\ mode' = ~mode /\ key' = "put" /\ keys' = keys + 1 /\ UNCHANGED <<ch, dead, recv>>
(* select: send if there is room, otherwise take the old value out first;   *)
(* the receiver may do so in between.                                       *)
Put == /\ key = "put"
       /\ IF ch = <<>> THEN ch' = <<mode>> /\ key' = "key" ELSE key' = "drain" /\ UNCHANGED ch
       /\ UNCHANGED <<mode, dead, recv, keys>>
Drain == /\ key = "drain" /\ ch # <<>>
         /\ ch' = <<>> /\ key' = "putAgain" /\ UNCHANGED <<mode, dead, recv, keys>>
PutAgain_Old == /\ key = "putAgain" /\ ch' = <<~mode>> /\ key' = "key" /\ UNCHANGED <<mode, dead, recv, keys>>
PutAgain == /\ key = "putAgain" /\ ch = <<>>
            /\ ch' = <<mode>> /\ key' = "key" /\ UNCHANGED <<mode, dead, recv, keys>>

(* The receiving goroutine: wait for the switch while dead; otherwise look  *)
(* at it without waiting (and read on, whatever it says), then read a frame. *)
Top == /\ recv = "top"
       /\ IF dead THEN recv' = "wait" /\ UNCHANGED <<ch, dead>>
          ELSE /\ recv' = "read"
               /\ IF ch # <<>> THEN dead' = Head(ch) /\ ch' = <<>> ELSE UNCHANGED <<ch, dead>>
       /\ UNCHANGED <<mode, key, keys>>
Wait == /\ recv = "wait" /\ ch # <<>>
        /\ dead' = Head(ch) /\ ch' = <<>> /\ recv' = "top" /\ UNCHANGED <<mode, key, keys>>
Frame == recv = "read" /\ recv' = "top" /\ UNCHANGED <<ch, mode, key, dead, keys>>

Next == PressT \/ Put \/ Drain \/ PutAgain \/ Top \/ Wait \/ Frame

Spec == /\ Init /\ [][Next]_vars
        /\ WF_vars(Put) /\ WF_vars(Drain) /\ WF_vars(PutAgain)
        /\ WF_vars(Top) /\ WF_vars(Wait) /\ WF_vars(Frame)

-----------------------------------------------------------------------------

(* With the key loop at the keyboard, the last word on the channel, or the  *)
(* receiver's own mode when the channel is empty, is the mode shown to the  *)
(* user: no toggle is lost and none is applied late.                        *)
LastWord == key = "key" => mode = (IF ch # <<>> THEN ch[1] ELSE dead)

(* "Drop the old state, so that the newest is always reachable": a key that *)
(* was pressed is dealt with, and the keyboard answers again.               *)
KeyHandled == []<>(key = "key")
=============================================================================
