----------------------------- MODULE Migration ------------------------------
(* Moving a player from Server-A to Server-B while clients send actions.   *)
(*   src/CourseCode/ch5/exp4/stop_and_copy, pre_copy, wave_based           *)
(*     serverA/main.go, serverB/main.go, client/main.go                    *)
(* A sends the chunks of its Script over one connection, each one answered *)
(* by DONE. Before the critical chunk it freezes the player, after it the  *)
(* player counts as migrated and is redirected to B.                       *)
EXTENDS Naturals, Sequences, FiniteSets

CONSTANTS Modes,      \* the programs: "stop", "pre", "wave"
          Client,     \* the clients, each with a connection and a handler
          MaxBreaks   \* bound: dials and connections that fail

MigrationAssumption == Modes \subseteq {"stop", "pre", "wave"}
                              /\ MaxBreaks \in Nat

VARIABLES mode,       \* the program
          apc, chunk, \* A: where runMigration is; the chunk it is at
          frozen, migrated,                     \* A: playerState
          link, toB, toA,  \* the connection; the chunk and the DONE on it
          ready,      \* B: the clients are served
          at,         \* the server a client is connected to
          handler,    \* where the handler of its last action is
          late,       \* history: actions A served while frozen, per client
          breaks      \* bound

avars == <<apc, chunk, frozen, migrated>>
net   == <<link, toB, toA, breaks>>
cvars == <<at, handler, late>>
vars  == <<mode, avars, net, ready, cvars>>

(* The chunks of each program, and the one that is sent while frozen.      *)
StopScript == <<"full">>
PreScript  == <<"round0_full", "dirty_round_1", "dirty_round_2", "final_dirty">>
WaveScript == <<"preload_background", "critical_state", "background_wave_2",
                "background_wave_3", "background_wave_4">>
Script == CASE mode = "stop" -> StopScript
            [] mode = "pre"  -> PreScript
            [] mode = "wave" -> WaveScript
Critical(c) == Script[c] \in {"full", "final_dirty", "critical_state"}

TypeOK == /\ mode \in Modes
          /\ apc \in {"menu", "freeze", "send", "await", "exit"}
          /\ chunk \in 1..5 /\ frozen \in BOOLEAN /\ migrated \in BOOLEAN
          /\ link \in {"none", "open", "broken"}
          /\ toB \in 0..5 /\ toA \in 0..5 /\ ready \in BOOLEAN
          /\ breaks \in 0..MaxBreaks
          /\ at \in [Client -> {"A", "B", "nowhere"}]
          /\ handler \in [Client -> {"none", "read", "checked", "online", "blocked"}]
          /\ late \in [Client -> 0..1]

Init == /\ mode \in Modes /\ apc = "menu" /\ chunk = 1
        /\ frozen = FALSE /\ migrated = FALSE
        /\ link = "none" /\ toB = 0 /\ toA = 0 /\ breaks = 0 /\ ready = FALSE
        /\ at = [c \in Client |-> "A"] /\ handler = [c \in Client |-> "none"]
        /\ late = [c \in Client |-> 0]

(* ------------------------------ Server-A ------------------------------- *)

StageFor(c) == IF Critical(c) THEN "freeze" ELSE "send"

\* Enter in the menu: dial B. A failed dial returns to the menu.
StartMigration ==
  /\ apc = "menu" /\ ~migrated
  /\ \/ /\ link' = "open" /\ toB' = 0 /\ toA' = 0 /\ chunk' = 1
        /\ apc' = StageFor(1) /\ UNCHANGED breaks
     \/ breaks < MaxBreaks /\ breaks' = breaks + 1
        /\ UNCHANGED <<apc, chunk, link, toB, toA>>
  /\ UNCHANGED <<mode, frozen, migrated, ready, cvars>>

Freeze ==
  /\ apc = "freeze" /\ frozen' = TRUE /\ apc' = "send"
  /\ UNCHANGED <<mode, chunk, migrated, net, ready, cvars>>

SendPayload ==
  /\ apc = "send" /\ link = "open" /\ toB' = chunk /\ apc' = "await"
  /\ UNCHANGED <<mode, chunk, frozen, migrated, link, toA, breaks, ready, cvars>>

\* After a chunk: the next one, or back to the menu, which ends A when the
\* player is migrated.
Advance(done) ==
  IF chunk < Len(Script)
  THEN chunk' = chunk + 1 /\ apc' = StageFor(chunk + 1)
  ELSE apc' = (IF done THEN "exit" ELSE "menu") /\ UNCHANGED chunk

MarkMigrated == migrated' = (migrated \/ Critical(chunk))

ReadDone ==
  /\ apc = "await" /\ toA = chunk /\ toA' = 0
  /\ MarkMigrated /\ Advance(migrated')
  /\ UNCHANGED <<mode, frozen, link, toB, breaks, ready, cvars>>

\* An error: stop_and_copy gives the migration up and stays frozen; the others
\* take the chunk for sent.
ChunkFails_StopIgnores ==
  /\ apc \in {"send", "await"} /\ link = "broken"
  /\ MarkMigrated /\ Advance(migrated')
  /\ UNCHANGED <<mode, frozen, net, ready, cvars>>
ChunkFails ==
  /\ apc \in {"send", "await"} /\ link = "broken"
  /\ IF mode = "stop" THEN apc' = "menu" /\ UNCHANGED <<chunk, migrated>>
                      ELSE MarkMigrated /\ Advance(migrated')
  /\ UNCHANGED <<mode, frozen, net, ready, cvars>>

Break ==
  /\ link = "open" /\ breaks < MaxBreaks /\ breaks' = breaks + 1
  /\ link' = "broken" /\ toB' = 0 /\ toA' = 0
  /\ UNCHANGED <<mode, avars, ready, cvars>>

\* The 2 s before A exits are enough for every client's next action.
Exit ==
  /\ apc = "exit" /\ link # "none" /\ \A c \in Client : at[c] # "A"
  /\ link' = "none" /\ toB' = 0 /\ toA' = 0
  /\ UNCHANGED <<mode, avars, breaks, ready, cvars>>

(* ------------------------------ Server-B ------------------------------- *)

\* handleConn: read a chunk, become ready on the critical one, answer.
ReceiveChunk_AnyChunk ==
  /\ link = "open" /\ toB # 0 /\ toB' = 0 /\ toA' = toB
  /\ ready' = TRUE
  /\ UNCHANGED <<mode, avars, link, breaks, cvars>>
ReceiveChunk ==
  /\ link = "open" /\ toB # 0 /\ toB' = 0 /\ toA' = toB
  /\ ready' = (ready \/ Critical(toB))
  /\ UNCHANGED <<mode, avars, link, breaks, cvars>>

(* ------------------- the clients and their handlers -------------------- *)

\* sendAction: the next action, once the last one is answered.
SendAction(c) ==
  /\ at[c] # "nowhere" /\ handler[c] = "none"
  /\ handler' = [handler EXCEPT ![c] = "read"]
  /\ UNCHANGED <<mode, avars, net, ready, at, late>>

\* REDIRECT: the client hangs up and dials B.
Redirect(c) ==
  /\ at' = [at EXCEPT ![c] = "B"] /\ handler' = [handler EXCEPT ![c] = "none"]

\* A's handler locks the state twice: isMigrated, then isFrozen.
CheckMigrated(c) ==
  /\ at[c] = "A" /\ handler[c] = "read"
  /\ IF migrated THEN Redirect(c)
     ELSE handler' = [handler EXCEPT ![c] = "checked"] /\ UNCHANGED at
  /\ UNCHANGED <<mode, avars, net, ready, late>>

CheckFrozen_MigratedOnly(c) ==
  /\ at[c] = "A" /\ handler[c] = "checked"
  /\ handler' = [handler EXCEPT ![c] = "online"]
  /\ UNCHANGED <<mode, avars, net, ready, at, late>>
CheckFrozen(c) ==
  /\ at[c] = "A" /\ handler[c] = "checked"
  /\ handler' = [handler EXCEPT ![c] = IF frozen THEN "blocked" ELSE "online"]
  /\ UNCHANGED <<mode, avars, net, ready, at, late>>

\* OK A: counted when the player has been frozen since the check.
ServeOnA(c) ==
  /\ at[c] = "A" /\ handler[c] = "online"
  /\ handler' = [handler EXCEPT ![c] = "none"]
  /\ late' = [late EXCEPT ![c] = IF frozen THEN @ + 1 ELSE @]
  /\ UNCHANGED <<mode, avars, net, ready, at>>

\* waitResume: the channel is closed by markMigrated.
WaitResume_Forgotten(c) ==
  /\ at[c] = "A" /\ handler[c] = "blocked" /\ migrated /\ ~frozen /\ Redirect(c)
  /\ UNCHANGED <<mode, avars, net, ready, late>>
WaitResume(c) ==
  /\ at[c] = "A" /\ handler[c] = "blocked" /\ migrated /\ Redirect(c)
  /\ UNCHANGED <<mode, avars, net, ready, late>>

\* B answers OK B or NOT_READY; the client goes on either way.
ServeOnB(c) ==
  /\ at[c] = "B" /\ handler[c] = "read"
  /\ handler' = [handler EXCEPT ![c] = "none"]
  /\ UNCHANGED <<mode, avars, net, ready, at, late>>

Handle(c) == CheckMigrated(c) \/ CheckFrozen(c) \/ ServeOnA(c)
             \/ WaitResume(c) \/ ServeOnB(c)

Next == \/ StartMigration \/ Freeze \/ SendPayload \/ ReadDone \/ ChunkFails
        \/ Break \/ Exit \/ ReceiveChunk
        \/ \E c \in Client : SendAction(c) \/ Handle(c)

Spec == Init /\ [][Next]_vars
Migrates == Freeze \/ SendPayload \/ ReadDone \/ ChunkFails \/ Exit
Fairness == /\ WF_vars(Migrates)
            /\ WF_vars(ReceiveChunk)
            /\ \A c \in Client : WF_vars(SendAction(c)) /\ WF_vars(Handle(c))
FairSpec == Spec /\ Fairness

(* ----------------------------- properties ------------------------------ *)

\* Whoever was redirected finds B ready: the confirmation of the critical
\* chunk comes before the redirect, also when a migration is repeated.
RedirectedToReady == \A c \in Client : at[c] = "B" => ready

\* The freeze is not atomic with the handlers, but each connection gets at
\* most one more action through: a handler that begins later always blocks.
AtMostOneLate == \A c \in Client :
                   /\ late[c] <= 1
                   /\ late[c] = 1 => handler[c] # "online"

\* Once frozen, every client ends at B, when the connection holds: nobody is
\* left waiting for resume.
AllMove == frozen ~> \A c \in Client : at[c] = "B"

\* "From here on a request is either blocked or redirected after the resume"
\* (stop_and_copy/serverA/main.go): A serves no action while it is frozen.
FrozenBlocks == [][frozen => late' = late]_vars
=============================================================================
