--------------------------- MODULE SessionRouting ---------------------------
(***************************************************************************)
(* One account of Lab4 between the gateway, the coordinator, the map       *)
(* servers and the store: cmd/cloud-gateway/main.go (handleClient),        *)
(* cloud/coordinator.go (the handlers, restoreSession, persistSessionState,*)
(* flushLoop), storage/redis_store.go, world.go (Add, Remove, Profile).    *)
(* Accounts share only the coordinator's mutex, so one account is enough.  *)
(*                                                                         *)
(* A connection has two goroutines, the command loop and the snapshot      *)
(* ticker; either may log the player out.  A handler is a sequence of      *)
(* steps: one per block under c.mu and one per call of a map or of Redis,  *)
(* and any handlers interleave between them.  The label of a handler is    *)
(* the step it does next.                                                  *)
(*                                                                         *)
(* The player's data (position, bag, ...) is a number that grows with each *)
(* command that changes it.                                                *)
(***************************************************************************)
EXTENDS Integers, FiniteSets

CONSTANTS
    Map,            \* maps, each served by one world
    Green,          \* the map a new account starts on
    Conn,           \* client connections for the account
    None,           \* no map, no owner
    MaxProgress,    \* bound on the commands that change the player
    MaxSwitches,    \* bound on switch commands
    MaxDials,       \* bound on connections made
    MaxPolls,       \* bound on snapshots the tickers ask for
    MaxFailures,    \* bound on failing calls
    MaxCrashes      \* bound on coordinator failovers

ASSUME MapAssumption == Green \in Map /\ None \notin Map
ASSUME ConnAssumption == None \notin Conn /\ IsFiniteSet(Conn)
ASSUME BoundAssumption ==
    {MaxProgress, MaxSwitches, MaxDials, MaxPolls, MaxFailures, MaxCrashes} \subseteq Nat

VARIABLES
    session,    \* sessions[username].MapID, None if there is no session
    copy,       \* the player's data in each world, Absent if not there
    profile,    \* the record in the store: LastMap and data
    hot,        \* MapID of the hot session in the store, None if deleted
    conn,       \* state of each connection at the gateway
    h,          \* what each goroutine is doing
    cut,        \* switches whose session object has left the sessions table
    counts,     \* progress, switches, dials, polls, failures, crashes so far
    expect,     \* history: the maps the player may expect to be shown
    strayed,    \* history: a login showed another map
    disturbed,  \* history: session operations overlapped, failed or crashed
    raced       \* history: a logout overtook a save of older data

world   == <<session, copy>>
store   == <<profile, hot>>
history == <<expect, strayed>>
vars    == <<world, store, conn, h, cut, counts, history, disturbed, raced>>

Absent == -1
Flush  == <<None, "flush">>
Cmd(c) == <<c, "cmd">>
Tick(c) == <<c, "tick">>
Proc   == {Flush} \cup {Cmd(c) : c \in Conn} \cup {Tick(c) : c \in Conn}

Record(m, d) == [map |-> m, data |-> d]
NoRecord == Record(None, Absent)

\* A goroutine: its operation, next step, the map it has routed to, the target
\* of a switch, the profile it holds and where persistSessionState returns to.
Fresh(op, label) ==
    [op |-> op, pc |-> label, map |-> None, to |-> None, rec |-> NoRecord, ret |-> "find"]
Idle == Fresh("none", "idle")

At(p, label) == h[p].pc = label
Go(p, label) == h' = [h EXCEPT ![p].pc = label]

\* The handler returns; the answer goes to the goroutine that asked.
Reply(p, answer) ==
    h' = [h EXCEPT ![p] = IF p = Flush THEN Idle ELSE Fresh(@.op, answer)]

\* A call's effect took place but its caller sees an error.
Lost == counts.failures < MaxFailures /\ counts' = [counts EXCEPT !.failures = @ + 1]

\* The handler goes on to a later part of its command.
Then(p, label) ==
    h' = [h EXCEPT ![p] = [Fresh(@.op, label) EXCEPT !.to = h[p].to]]

\* The operations that decide where the player is: login, logout, switching maps
\* and restoring a session; and the saves of a profile read from a world.
LogoutLabels  == {"leave", "take", "save2", "forget"}
SwitchLabels  == {"check", "remove", "place", "reroute"}
PlacingLabels == {"authenticate", "takeover", "add", "enrol",
                  "loadHot", "loadProfile", "probe", "readd", "adopt"}
                 \cup LogoutLabels \cup SwitchLabels
SaveLabels    == {"save", "save1"}

-----------------------------------------------------------------------------
Init ==
    /\ session = None
    /\ copy = [m \in Map |-> Absent]
    /\ profile = Record(Green, 0)
    /\ hot = None
    /\ conn = [c \in Conn |-> "closed"]
    /\ h = [p \in Proc |-> Idle]
    /\ cut = {}
    /\ counts = [progress |-> 0, switches |-> 0, dials |-> 0, polls |-> 0,
                failures |-> 0, crashes |-> 0]
    /\ expect = {Green} /\ strayed = FALSE
    /\ disturbed = FALSE /\ raced = FALSE

-----------------------------------------------------------------------------
(* The gateway: handleClient. *)

\* A client connects and asks to be logged in.
Dial(c) ==
    /\ conn[c] = "closed" /\ h[Cmd(c)] = Idle /\ h[Tick(c)] = Idle
    /\ counts.dials < MaxDials
    /\ counts' = [counts EXCEPT !.dials = @ + 1]
    /\ conn' = [conn EXCEPT ![c] = "auth"]
    /\ h' = [h EXCEPT ![Cmd(c)] = Fresh("login", "authenticate")]
    /\ UNCHANGED <<world, store, cut, history>>

\* The answer to the login: both goroutines run, or the connection is closed.
LoginAnswered(c) ==
    /\ conn[c] = "auth" /\ h[Cmd(c)].pc \in {"ok", "error"}
    /\ conn' = [conn EXCEPT ![c] = IF At(Cmd(c), "ok") THEN "open" ELSE "closed"]
    /\ h' = [h EXCEPT ![Cmd(c)] = Idle]
    /\ UNCHANGED <<world, store, cut, counts, history>>

\* The command loop has received a message.  It waits in Receive even while
\* the ticker has already stopped the connection.
Listening(c) == conn[c] \in {"open", "stopped"} /\ h[Cmd(c)] = Idle

Act(c) ==
    /\ Listening(c) /\ counts.progress < MaxProgress
    /\ h' = [h EXCEPT ![Cmd(c)] = Fresh("act", "route")]
    /\ UNCHANGED <<world, store, conn, cut, counts, history>>

Switch(c) ==
    /\ Listening(c) /\ counts.switches < MaxSwitches
    /\ counts' = [counts EXCEPT !.switches = @ + 1]
    /\ \E m \in Map :
          /\ h' = [h EXCEPT ![Cmd(c)] = [Fresh("switch", "target") EXCEPT !.to = m]]
          /\ expect' = expect \cup {m}
    /\ UNCHANGED <<world, store, conn, cut, strayed>>

\* The loop goes on, or finds the connection stopped and returns.
CommandAnswered(c) ==
    /\ conn[c] \in {"open", "stopped"} /\ h[Cmd(c)].pc \in {"ok", "error"}
    /\ conn' = [conn EXCEPT ![c] = IF @ = "stopped" THEN "closed" ELSE @]
    /\ h' = [h EXCEPT ![Cmd(c)] = Idle]
    /\ UNCHANGED <<world, store, cut, counts, history>>

\* A logout message, or an error of Receive: return, which runs stop().
HangUp(c) ==
    /\ Listening(c) /\ h[Tick(c)].op # "logout"
    /\ IF conn[c] = "open"
       THEN /\ conn' = [conn EXCEPT ![c] = "stopped"]
            /\ h' = [h EXCEPT ![Cmd(c)] = Fresh("logout", "leave")]
       ELSE /\ conn' = [conn EXCEPT ![c] = "closed"]
            /\ UNCHANGED h
    /\ UNCHANGED <<world, store, cut, counts, history>>

\* The ticker goroutine asks for a snapshot.
Poll(c) ==
    /\ conn[c] = "open" /\ h[Tick(c)] = Idle
    /\ counts.polls < MaxPolls
    /\ counts' = [counts EXCEPT !.polls = @ + 1]
    /\ h' = [h EXCEPT ![Tick(c)] = Fresh("snapshot", "find")]
    /\ UNCHANGED <<world, store, conn, cut, history>>

\* It forwards the state, or (coordinator or Send failed) runs stop(), whose
\* once.Do logs out unless the command loop has done so.
PollAnswered(c) ==
    /\ h[Tick(c)].pc \in {"ok", "error"}
    /\ \/ /\ At(Tick(c), "ok") \/ conn[c] # "open"
          /\ h' = [h EXCEPT ![Tick(c)] = Idle]
          /\ UNCHANGED conn
       \/ /\ conn[c] = "open" /\ h[Tick(c)].op = "snapshot"
          /\ conn' = [conn EXCEPT ![c] = "stopped"]
          /\ h' = [h EXCEPT ![Tick(c)] = Fresh("logout", "leave")]
    /\ UNCHANGED <<world, store, cut, counts, history>>

-----------------------------------------------------------------------------
(* Login. *)

Authenticate(p) ==
    /\ At(p, "authenticate")
    /\ h' = [h EXCEPT ![p].pc = "takeover", ![p].rec = profile]
    /\ UNCHANGED <<world, store, conn, cut, counts, history>>

\* Adding the player without looking at the sessions table.
Takeover_Blind(p) ==
    /\ At(p, "takeover")
    /\ h' = [h EXCEPT ![p].pc = "add", ![p].map = h[p].rec.map]
    /\ UNCHANGED <<world, store, conn, cut, counts, history>>

\* First locked block: an existing session is taken over as it is.
Takeover(p) ==
    /\ At(p, "takeover")
    /\ h' = IF session # None
            THEN [h EXCEPT ![p].pc = "persist", ![p].rec = NoRecord]
            ELSE [h EXCEPT ![p].pc = "add", ![p].map = h[p].rec.map]
    /\ UNCHANGED <<world, store, conn, cut, counts, history>>

\* AddOrRestorePlayer: whatever the world holds of the player is replaced.
AddOrRestore(m, rec) == copy' = [copy EXCEPT ![m] = rec.data]

Add(p) ==
    /\ At(p, "add")
    /\ AddOrRestore(h[p].map, h[p].rec)
    /\ \/ Go(p, "enrol") /\ UNCHANGED counts
       \/ Reply(p, "error") /\ Lost
    /\ UNCHANGED <<session, store, conn, cut, history>>

\* The session objects in use by switches, when the table drops theirs.
Switching == {p \in Proc : h[p].pc \in SwitchLabels}

\* Second locked block: a new session object, over any that appeared meanwhile.
Enrol(p) ==
    /\ At(p, "enrol")
    /\ session' = h[p].map
    /\ cut' = cut \cup Switching
    /\ h' = [h EXCEPT ![p].pc = "persist", ![p].map = None, ![p].rec = NoRecord]
    /\ UNCHANGED <<copy, store, conn, counts, history>>

-----------------------------------------------------------------------------
(* Logout. *)

\* The locked block: the session goes first.
Leave(p) ==
    /\ At(p, "leave")
    /\ IF session = None
       THEN Reply(p, "ok") /\ UNCHANGED <<session, cut>>
       ELSE /\ h' = [h EXCEPT ![p].pc = "take", ![p].map = session]
            /\ session' = None
            /\ cut' = cut \cup Switching
    /\ UNCHANGED <<copy, store, conn, counts, history>>

\* RemovePlayer; without the player's profile nothing is saved.
Take(p) ==
    LET m == h[p].map IN
    /\ At(p, "take")
    /\ IF copy[m] = Absent
       THEN Go(p, "forget") /\ UNCHANGED <<copy, counts>>
       ELSE /\ copy' = [copy EXCEPT ![m] = Absent]
            /\ \/ /\ h' = [h EXCEPT ![p].pc = "save2", ![p].rec = Record(m, copy[m])]
                  /\ UNCHANGED counts
               \/ Go(p, "forget") /\ Lost
    /\ UNCHANGED <<session, store, conn, cut, history>>

\* Dropping the profile that the world returned.
SaveOnLogout_Skipped(p) ==
    /\ At(p, "save2")
    /\ h' = [h EXCEPT ![p].pc = "forget", ![p].map = None, ![p].rec = NoRecord]
    /\ UNCHANGED <<world, store, conn, cut, counts, history>>

\* SaveProfile of the profile that RemovePlayer returned.
SaveOnLogout(p) ==
    /\ At(p, "save2")
    /\ profile' = h[p].rec
    /\ h' = [h EXCEPT ![p].pc = "forget", ![p].map = None, ![p].rec = NoRecord]
    /\ UNCHANGED <<world, hot, conn, cut, counts, history>>

\* DeleteHotSession
Forget(p) ==
    /\ At(p, "forget")
    /\ hot' = None
    /\ Reply(p, "ok")
    /\ UNCHANGED <<world, profile, conn, cut, counts, history>>

-----------------------------------------------------------------------------
(* Move, Attack, Heal, BuyItem: a command carried out by one map. *)

\* sessionMap
Route(p) ==
    /\ At(p, "route")
    /\ h' = IF session # None
            THEN [h EXCEPT ![p].pc = "call", ![p].map = session]
            ELSE [h EXCEPT ![p].pc = "loadHot", ![p].ret = "call"]
    /\ UNCHANGED <<world, store, conn, cut, counts, history>>

\* The world obeys, or there is nothing to do, or the player is not there.
Call(p) ==
    LET m == h[p].map IN
    /\ At(p, "call")
    /\ IF copy[m] = Absent
       THEN Reply(p, "error") /\ UNCHANGED <<copy, counts>>
       ELSE \/ /\ counts.progress < MaxProgress
               /\ copy' = [copy EXCEPT ![m] = @ + 1]
               /\ counts' = [counts EXCEPT !.progress = @ + 1]
               /\ h' = [h EXCEPT ![p].pc = "save1", ![p].rec = Record(m, copy[m] + 1)]
            \/ /\ h' = [h EXCEPT ![p].pc = "save1", ![p].rec = Record(m, copy[m])]
               /\ UNCHANGED <<copy, counts>>
    /\ UNCHANGED <<session, store, conn, cut, history>>

\* SaveProfile of the profile that the world returned; then persistSessionState
\* and SnapshotFor.
SaveAfterCall(p) ==
    /\ At(p, "save1")
    /\ profile' = h[p].rec
    /\ Then(p, "persist")
    /\ UNCHANGED <<world, hot, conn, cut, counts, history>>

-----------------------------------------------------------------------------
(* SwitchMap. *)

\* The read lock: no session is restored here; the handler keeps the object.
Target(p) ==
    /\ At(p, "target")
    /\ \/ session = None /\ Reply(p, "error")
       \/ session = h[p].to /\ Then(p, "find")
       \/ /\ session \notin {None, h[p].to}
          /\ h' = [h EXCEPT ![p].pc = "check", ![p].map = session]
    /\ cut' = cut \ {p}
    /\ UNCHANGED <<world, store, conn, counts, history>>

\* Profile: the player must be there; a player knocked down stays.
Check(p) ==
    /\ At(p, "check")
    /\ IF copy[h[p].map] = Absent
       THEN Reply(p, "error")
       ELSE Go(p, "remove") \/ Then(p, "find")
    /\ UNCHANGED <<world, store, conn, cut, counts, history>>

\* Reading the profile again instead of taking the player away.
Remove_Copy(p) ==
    LET m == h[p].map IN
    /\ At(p, "remove")
    /\ IF copy[m] = Absent
       THEN Reply(p, "error")
       ELSE h' = [h EXCEPT ![p].pc = "place", ![p].rec = Record(h[p].to, copy[m])]
    /\ UNCHANGED <<world, store, conn, cut, counts, history>>

\* RemovePlayer at the source: from here on only this handler has the player.
Remove(p) ==
    LET m == h[p].map IN
    /\ At(p, "remove")
    /\ IF copy[m] = Absent
       THEN Reply(p, "error") /\ UNCHANGED <<copy, counts>>
       ELSE /\ copy' = [copy EXCEPT ![m] = Absent]
            /\ \/ /\ h' = [h EXCEPT ![p].pc = "place", ![p].rec = Record(h[p].to, copy[m])]
                  /\ UNCHANGED counts
               \/ Reply(p, "error") /\ Lost
    /\ UNCHANGED <<session, store, conn, cut, history>>

\* AddOrRestorePlayer at the target, at its spawn point.
Place(p) ==
    /\ At(p, "place")
    /\ AddOrRestore(h[p].to, h[p].rec)
    /\ \/ Go(p, "reroute") /\ UNCHANGED counts
       \/ Reply(p, "error") /\ Lost
    /\ UNCHANGED <<session, store, conn, cut, history>>

\* The locked block that writes the session object, in the table or not.
Reroute(p) ==
    /\ At(p, "reroute")
    /\ session' = IF p \in cut THEN session ELSE h[p].to
    /\ cut' = cut \ {p}
    /\ Go(p, "save1")
    /\ UNCHANGED <<copy, store, conn, counts, history>>

-----------------------------------------------------------------------------
(* persistSessionState, at the end of every command and in flushLoop. *)

StartFlush ==
    /\ h[Flush] = Idle /\ session # None
    /\ h' = [h EXCEPT ![Flush] = [Fresh("flush", "persist") EXCEPT !.ret = "end"]]
    /\ UNCHANGED <<world, store, conn, cut, counts, history>>

\* Back to the caller: SnapshotFor, the command that needed a session, the
\* reply of a snapshot that did, or flushLoop.
Return(p) ==
    CASE h[p].ret = "end"   -> Reply(p, "ok")
      [] h[p].ret = "reply" -> Go(p, "reply")
      [] OTHER -> h' = [h EXCEPT ![p].pc = h[p].ret, ![p].rec = NoRecord, ![p].ret = "find"]

Persist(p) ==
    /\ At(p, "persist")
    /\ IF session = None
       THEN Return(p)
       ELSE h' = [h EXCEPT ![p].pc = "profile", ![p].rec = Record(session, Absent)]
    /\ UNCHANGED <<world, store, conn, cut, counts, history>>

\* Saving whatever the call returned.
ReadProfile_Unchecked(p) ==
    /\ At(p, "profile")
    /\ h' = [h EXCEPT ![p].pc = "save", ![p].rec = Record(@.map, copy[@.map])]
    /\ UNCHANGED <<world, store, conn, cut, counts, history>>

\* Profile of the player; if it is not there (any more), nothing is saved.
ReadProfile(p) ==
    LET m == h[p].rec.map IN
    /\ At(p, "profile")
    /\ IF copy[m] = Absent
       THEN Return(p)
       ELSE h' = [h EXCEPT ![p].pc = "save", ![p].rec = Record(m, copy[m])]
    /\ UNCHANGED <<world, store, conn, cut, counts, history>>

SaveProfile(p) ==
    /\ At(p, "save")
    /\ profile' = h[p].rec
    /\ Go(p, "saveHot")
    /\ UNCHANGED <<world, hot, conn, cut, counts, history>>

SaveHotSession(p) ==
    /\ At(p, "saveHot")
    /\ hot' = h[p].rec.map
    /\ Return(p)
    /\ UNCHANGED <<world, profile, conn, cut, counts, history>>

-----------------------------------------------------------------------------
(* SnapshotFor and restoreSession. *)

\* The player is shown the map m in answer to the operation of p.  What is shown
\* to somebody who connects again should be no surprise.
Show(p, m) ==
    /\ strayed' = (strayed \/ (h[p].op = "login" /\ m \notin expect))
    /\ expect' = IF m \notin expect THEN expect
                 ELSE {m} \cup ({h[q].to : q \in Proc \ {p}} \ {None})

Find(p) ==
    /\ At(p, "find")
    /\ IF session # None
       THEN Reply(p, "ok") /\ Show(p, session)
       ELSE /\ h' = [h EXCEPT ![p].pc = "loadHot", ![p].ret = "reply"]
            /\ UNCHANGED history
    /\ UNCHANGED <<world, store, conn, cut, counts>>

ShowRestored(p) ==
    /\ At(p, "reply")
    /\ Reply(p, "ok") /\ Show(p, h[p].map)
    /\ UNCHANGED <<world, store, conn, cut, counts>>

LoadHotSession(p) ==
    /\ At(p, "loadHot")
    /\ h' = [h EXCEPT ![p].pc = "loadProfile", ![p].map = hot]
    /\ UNCHANGED <<world, store, conn, cut, counts, history>>

\* The hot session decides on the map, if there is one.
LoadProfile(p) ==
    /\ At(p, "loadProfile")
    /\ h' = [h EXCEPT ![p].pc = "probe", ![p].rec = profile,
                      ![p].map = IF @ = None THEN profile.map ELSE @]
    /\ UNCHANGED <<world, store, conn, cut, counts, history>>

\* Any error of Profile, also that of a call that failed, adds the player anew.
Probe(p) ==
    /\ At(p, "probe")
    /\ Go(p, IF copy[h[p].map] = Absent THEN "readd" ELSE "adopt")
    /\ UNCHANGED <<world, store, conn, cut, counts, history>>

ReAdd(p) ==
    /\ At(p, "readd")
    /\ AddOrRestore(h[p].map, h[p].rec)
    /\ \/ Go(p, "adopt") /\ UNCHANGED counts
       \/ Reply(p, "error") /\ Lost
    /\ UNCHANGED <<session, store, conn, cut, history>>

\* The locked block: a session that appeared meanwhile wins.
Adopt(p) ==
    /\ At(p, "adopt")
    /\ session' = IF session = None THEN h[p].map ELSE session
    /\ h' = [h EXCEPT ![p].pc = IF session = None THEN "persist" ELSE h[p].ret,
                      ![p].map = session', ![p].rec = NoRecord]
    /\ UNCHANGED <<copy, store, conn, cut, counts, history>>

-----------------------------------------------------------------------------
(* Failures. *)

\* Where each handler goes on when a map or Redis does not do what it asks.
OnError(p) ==
    \/ h[p].pc \in {"authenticate", "add", "loadHot", "loadProfile", "readd", "call",
                    "check", "remove", "place", "forget"} /\ Reply(p, "error")
    \/ h[p].pc \in {"profile", "save", "saveHot"} /\ Return(p)
    \/ At(p, "probe") /\ Go(p, "readd")
    \/ At(p, "save1") /\ Then(p, "persist")
    \/ h[p].pc \in {"take", "save2"} /\ Go(p, "forget")

CallFails(p) ==
    /\ Lost
    /\ OnError(p)
    /\ cut' = cut \ {p}
    /\ UNCHANGED <<world, store, conn, history>>

\* The coordinator's pod goes and another takes over: its sessions table starts
\* empty, its handlers stop where they are, and the gateway repeats the requests
\* it has not seen answered (callCoordinator).
Restarted(g) ==
    CASE g.op = "login"    -> Fresh("login", "authenticate")
      [] g.op = "logout"   -> Fresh("logout", "leave")
      [] g.op = "act"      -> Fresh("act", "route")
      [] g.op = "switch"   -> [Fresh("switch", "target") EXCEPT !.to = g.to]
      [] g.op = "snapshot" -> Fresh("snapshot", "find")

Failover ==
    /\ counts.crashes < MaxCrashes
    /\ counts' = [counts EXCEPT !.crashes = @ + 1]
    /\ session' = None
    /\ cut' = {}
    /\ h' = [p \in Proc |-> IF p = Flush THEN Idle
                            ELSE IF h[p].pc \in {"idle", "ok", "error"} THEN h[p]
                            ELSE Restarted(h[p])]
    /\ UNCHANGED <<copy, store, conn, history>>

-----------------------------------------------------------------------------
Gateway(c) ==
    \/ Dial(c) \/ LoginAnswered(c) \/ Act(c) \/ Switch(c) \/ CommandAnswered(c)
    \/ HangUp(c) \/ Poll(c) \/ PollAnswered(c)

Handler(p) ==
    \/ Authenticate(p) \/ Takeover(p) \/ Add(p) \/ Enrol(p)
    \/ Leave(p) \/ Take(p) \/ SaveOnLogout(p) \/ Forget(p)
    \/ Route(p) \/ Call(p) \/ SaveAfterCall(p)
    \/ Target(p) \/ Check(p) \/ Remove(p) \/ Place(p) \/ Reroute(p)
    \/ Persist(p) \/ ReadProfile(p) \/ SaveProfile(p) \/ SaveHotSession(p)
    \/ Find(p) \/ ShowRestored(p) \/ LoadHotSession(p) \/ LoadProfile(p)
    \/ Probe(p) \/ ReAdd(p) \/ Adopt(p)

\* Bookkeeping of the two kinds of overlap the properties speak of.
Observe ==
    /\ disturbed' = \/ disturbed
                    \/ counts'.failures # counts.failures \/ counts'.crashes # counts.crashes
                    \/ Cardinality({p \in Proc : h'[p].pc \in PlacingLabels}) > 1
    /\ raced' = \/ raced
                \/ /\ \E p \in Proc : h'[p].pc \in LogoutLabels
                   /\ \E p \in Proc : h'[p].pc \in SaveLabels

Next ==
    /\ \/ \E c \in Conn : Gateway(c)
       \/ \E p \in Proc : Handler(p) \/ CallFails(p)
       \/ StartFlush
       \/ Failover
    /\ Observe

Spec == Init /\ [][Next]_vars

-----------------------------------------------------------------------------
(* Properties. *)

\* Types of the variables.
TypeOK ==
    /\ session \in Map \cup {None}
    /\ copy \in [Map -> {Absent} \cup 0..MaxProgress]
    /\ profile \in [map : Map, data : 0..MaxProgress]
    /\ hot \in Map \cup {None}
    /\ conn \in [Conn -> {"closed", "auth", "open", "stopped"}]
    /\ \A p \in Proc :
          /\ h[p].map \in Map \cup {None} /\ h[p].to \in Map \cup {None}
          /\ h[p].rec \in [map : Map \cup {None}, data : {Absent} \cup 0..MaxProgress]
          /\ h[p].ret \in {"find", "call", "reply", "end"}
          /\ h[p].pc \in SaveLabels \cup {"place", "save2"} =>
                 h[p].rec \in [map : Map, data : 0..MaxProgress]
    /\ cut \subseteq Proc
    /\ expect \subseteq Map

\* No operation that decides where the player is (login, logout, switch,
\* restoring a session) is under way.
Settled == \A p \in Proc : h[p].pc \notin PlacingLabels

\* As long as no two of these operations overlap and no call or coordinator
\* fails, the player is in one world at most, whatever commands, snapshots and
\* flushes run in between ...
UniqueHome ==
    ~ disturbed => \A m, n \in Map : copy[m] # Absent /\ copy[n] # Absent => m = n

\* ... and outside these operations the player is exactly in the world that the
\* session names: commands are routed to it, and no player stays in a world or
\* session after the logout.
RoutedHome ==
    ~ disturbed /\ Settled => \A m \in Map : copy[m] # Absent <=> session = m

\* Unless a logout also overtook a save of older data, no command is undone:
\* the world, or after the logout the store, has all of them.
ProgressKept ==
    ~ disturbed /\ ~ raced /\ Settled =>
        counts.progress = IF session = None THEN profile.data ELSE copy[session]

\* scoretest, deletePodAndCheckRecovery: a player that connects again is on the
\* map it was on ("after.Self.MapID == before.Self.MapID").  Stated of every
\* state shown: it is of the map shown before, or the target of a later switch.
StaysPut == ~ strayed
=============================================================================
