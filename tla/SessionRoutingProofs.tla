------------------------ MODULE SessionRoutingProofs ------------------------
(***************************************************************************)
(* Proofs about SessionRouting, for any maps, any number of connections and *)
(* any bounds: as long as no two operations that decide where the player is *)
(* overlap and nothing fails, the player is in one world at most, it is the *)
(* one its session names, and no command is undone.                        *)
(***************************************************************************)
EXTENDS SessionRouting, FiniteSetTheorems, TLAPS

-----------------------------------------------------------------------------
(* What holds whatever overlaps and fails. *)

Ops == {"none", "login", "logout", "act", "switch", "snapshot", "flush"}
Resting == {"idle", "ok", "error"}
PersistLabels == {"persist", "profile", "save", "saveHot"}
RestoreLabels == {"loadHot", "loadProfile", "probe", "readd", "adopt"}
Labels == Resting \cup PlacingLabels \cup SaveLabels \cup PersistLabels
          \cup {"route", "call", "target", "find", "reply"}

MapOrNone == Map \cup {None}

\* A record of data that are of commands carried out before the d-th was given,
\* and what the goroutine p knows in the state g.
Recorded(d) == [map : Map, data : 0..d]
Ready(p, g, d) ==
    /\ g = [op |-> g.op, pc |-> g.pc, map |-> g.map, to |-> g.to, rec |-> g.rec, ret |-> g.ret]
    /\ g.op \in Ops /\ g.pc \in Labels /\ g.map \in MapOrNone /\ g.to \in MapOrNone
    /\ g.rec \in [map : MapOrNone, data : {Absent} \cup 0..d]
    /\ g.ret \in {"find", "call", "reply", "end"}
    /\ g.pc \in {"takeover", "add", "probe", "readd", "place", "reroute", "save1",
                 "save", "save2"} => g.rec \in Recorded(d)
    /\ g.pc = "profile" => g.rec.map \in Map
    /\ g.pc \in {"add", "enrol", "take", "call", "probe", "readd", "adopt", "check",
                 "remove", "place", "reroute"} => g.map \in Map
    /\ g.pc \in PersistLabels /\ g.ret = "call" => g.map \in Map
    /\ g.pc \in {"authenticate", "takeover", "add", "enrol"} => g.ret = "find"
    /\ g.pc \in RestoreLabels => g.ret \in {"call", "reply"}
    /\ g.pc \in SwitchLabels \cup {"target"} => g.op = "switch"
    /\ g.op = "switch" /\ g.pc \notin Resting => g.to \in Map
    /\ p # Flush /\ g.pc \notin Resting => g.op \notin {"none", "flush"}

Counts == [progress : 0..MaxProgress, switches : Nat, dials : Nat, polls : Nat,
           failures : Nat, crashes : Nat]

Globals ==
    /\ counts \in Counts
    /\ session \in MapOrNone /\ hot \in MapOrNone /\ profile \in Recorded(counts.progress)
    /\ copy \in [Map -> {Absent} \cup 0..counts.progress]
    /\ conn \in [Conn -> {"closed", "auth", "open", "stopped"}]
    /\ cut \subseteq Proc /\ expect \subseteq Map

Shape == /\ Globals /\ DOMAIN h = Proc
         /\ \A p \in Proc : Ready(p, h[p], counts.progress)

-----------------------------------------------------------------------------
(* What holds until something is disturbed. *)

Placing(p) == h[p].pc \in PlacingLabels

\* The player is in the world of m and in no other.
Lives(m) == \A n \in Map : copy[n] # Absent <=> n = m

\* Where the player is while an operation of p decides on it.
Located(p) ==
    LET pc == h[p].pc IN
    /\ pc \in {"authenticate", "takeover", "leave"} => Lives(session)
    /\ pc \in {"add", "loadHot", "loadProfile", "probe", "readd", "save2", "forget"} =>
           session = None /\ Lives(None)
    /\ pc \in {"enrol", "adopt", "take"} => session = None /\ Lives(h[p].map)
    /\ pc \in {"check", "remove"} => session = h[p].map /\ Lives(session)
    /\ pc = "place" => session # None /\ Lives(None)
    /\ pc = "reroute" => session # None /\ Lives(h[p].to)
    /\ pc \in SwitchLabels => p \notin cut

OneByOne == \A p, q \in Proc : Placing(p) /\ Placing(q) => p = q

Orderly == /\ OneByOne
           /\ Settled => Lives(session)
           /\ \A p \in Proc : Located(p)

-----------------------------------------------------------------------------
(* What also holds until a logout overtakes a save. *)

NoSaves == \A p \in Proc : h[p].pc \notin SaveLabels

\* Everything the player has done is in the world of m, or stored for good.
Complete(m) == IF m = None THEN profile.data = counts.progress /\ NoSaves
                           ELSE copy[m] = counts.progress

\* ... or on its way between the two.
Carried(p) ==
    LET pc == h[p].pc IN
    /\ pc \in {"authenticate", "leave", "check", "remove"} => Complete(session)
    /\ pc \in {"loadHot", "loadProfile", "forget"} => Complete(None)
    /\ pc = "takeover" => /\ Complete(session)
                          /\ session = None => h[p].rec.data = counts.progress
    /\ pc \in {"add", "probe", "readd"} =>
           Complete(None) /\ h[p].rec.data = counts.progress
    /\ pc \in {"enrol", "adopt", "take"} => Complete(h[p].map)
    /\ pc = "reroute" => Complete(h[p].to)
    /\ pc \in {"save2", "place"} => h[p].rec.data = counts.progress
    /\ pc \in LogoutLabels => NoSaves

Undone == /\ Settled => Complete(session)
          /\ \A p \in Proc : Carried(p)

\* The inductive invariant.
IInv == /\ Shape
        /\ ~disturbed => Orderly
        /\ ~disturbed /\ ~raced => Undone

-----------------------------------------------------------------------------
(* Types. *)

\* A step of one goroutine.
Only(p) == DOMAIN h' = Proc /\ \A q \in Proc \ {p} : h'[q] = h[q]
Informs(p) == Only(p) /\ Ready(p, h'[p], counts'.progress)

\* What a goroutine knows stays true when more commands are carried out.
LEMMA ReadyLater ==
    ASSUME NEW p, NEW g, NEW d \in Nat, NEW e \in Nat, d <= e, Ready(p, g, d)
    PROVE  Ready(p, g, e)
<1>1. 0..d \subseteq 0..e
    OBVIOUS
<1>2. Recorded(d) \subseteq Recorded(e)
    BY <1>1 DEF Recorded
<1> QED BY <1>1, <1>2 DEF Ready

\* A step of one goroutine keeps the types if it keeps those of the shared state and
\* leaves the goroutine with what its next step needs.
LEMMA ShapeStep ==
    ASSUME Shape, NEW p \in Proc, Globals', counts.progress <= counts'.progress, Informs(p)
    PROVE  Shape'
<1>1. counts.progress \in Nat /\ counts'.progress \in Nat
    BY BoundAssumption DEF Shape, Globals, Counts
<1>2. ASSUME NEW q \in Proc PROVE Ready(q, h'[q], counts'.progress)
    <2>1. CASE q = p
        BY <2>1 DEF Informs
    <2>2. CASE q # p
        <3>1. h'[q] = h[q] /\ Ready(q, h[q], counts.progress)
            BY <2>2 DEF Informs, Only, Shape
        <3> QED BY <1>1, <3>1, ReadyLater
    <2> QED BY <2>1, <2>2
<1> QED BY <1>2 DEF Shape, Informs, Only

\* What p knows before a step, in terms of the counters after it.
LEMMA KnownStill ==
    ASSUME Shape, NEW p \in Proc, counts' \in Counts, counts.progress <= counts'.progress
    PROVE  Ready(p, h[p], counts'.progress) /\ counts'.progress \in Nat
<1>1. counts.progress \in Nat /\ counts'.progress \in Nat
    BY BoundAssumption DEF Shape, Globals, Counts
<1>2. Ready(p, h[p], counts.progress)
    BY DEF Shape
<1> QED BY <1>1, <1>2, ReadyLater

\* An answer leaves the goroutine with nothing.
LEMMA ReplyShape ==
    ASSUME Shape, NEW p \in Proc, NEW answer \in {"ok", "error"}, Reply(p, answer),
           counts' \in Counts
    PROVE  Informs(p) /\ h'[p].pc \in Resting /\ h'[p].rec = NoRecord
<1>1. Ready(p, h[p], counts.progress)
    BY DEF Shape
<1>2. h'[p] = (IF p = Flush THEN Idle ELSE Fresh(h[p].op, answer)) /\ Only(p)
    BY DEF Reply, Shape, Only
<1>3. Ready(p, h'[p], counts'.progress)
    BY <1>1, <1>2 DEF Ready, Idle, Fresh, Ops, Resting, Labels, MapOrNone, NoRecord, Record,
       PersistLabels, RestoreLabels, SwitchLabels
<1> QED BY <1>2, <1>3 DEF Informs, Resting, Idle, Fresh

\* A command that goes on to its last part starts it afresh.
LEMMA ThenShape ==
    ASSUME Shape, NEW p \in Proc, NEW label \in {"persist", "find"}, Then(p, label),
           h[p].pc \in {"save1", "target", "check"}, counts' \in Counts
    PROVE  Informs(p) /\ h'[p].pc = label
<1>1. Ready(p, h[p], counts.progress)
    BY DEF Shape
<1>2. h'[p] = [Fresh(h[p].op, label) EXCEPT !.to = h[p].to] /\ Only(p)
    BY DEF Then, Shape, Only
<1>3. Ready(p, h'[p], counts'.progress)
    BY <1>1, <1>2 DEF Ready, Fresh, Ops, Resting, Labels, MapOrNone, NoRecord, Record,
       PersistLabels, RestoreLabels, SwitchLabels
<1> QED BY <1>2, <1>3 DEF Informs, Fresh

\* persistSessionState returns to a caller that has what it needs.
LEMMA ReturnShape ==
    ASSUME Shape, NEW p \in Proc, Return(p), h[p].pc \in PersistLabels,
           counts' \in Counts, counts.progress <= counts'.progress
    PROVE  Informs(p) /\ h'[p].pc \in Resting \cup {"reply", "find", "call"}
<1>1. Ready(p, h[p], counts'.progress)
    BY KnownStill
<1>2. CASE h[p].ret = "end"
    BY <1>2, ReplyShape DEF Return
<1>3. CASE h[p].ret = "reply"
    <2>1. h'[p] = [h[p] EXCEPT !.pc = "reply"] /\ Only(p)
        BY <1>3 DEF Return, Go, Shape, Only
    <2> QED BY <1>1, <2>1 DEF Informs, Ready, Resting, Labels, PersistLabels, RestoreLabels, SwitchLabels
<1>4. CASE h[p].ret \notin {"end", "reply"}
    <2>1. /\ h'[p] = [h[p] EXCEPT !.pc = h[p].ret, !.rec = NoRecord, !.ret = "find"]
          /\ Only(p)
        BY <1>4 DEF Return, Shape, Only
    <2> DEFINE g == [op |-> h[p].op, pc |-> h[p].ret, map |-> h[p].map, to |-> h[p].to,
                     rec |-> NoRecord, ret |-> "find"]
    <2>2. h'[p] = g
        BY <1>1, <2>1 DEF Ready
    <2>3. h[p].ret \in {"find", "call"}
        BY <1>1, <1>4 DEF Ready
    <2>4. Ready(p, g, counts'.progress)
        BY <1>1, <2>3 DEF Ready, NoRecord, Record, MapOrNone, Resting, Labels, PersistLabels,
           RestoreLabels, SwitchLabels
    <2> QED BY <2>1, <2>2, <2>3, <2>4 DEF Informs
<1> QED BY <1>2, <1>3, <1>4

\* A goroutine that does nothing, and one that begins an operation.
LEMMA StayShape ==
    ASSUME Shape, NEW p \in Proc, h' = h, counts' \in Counts, counts.progress <= counts'.progress
    PROVE  Informs(p)
BY KnownStill DEF Informs, Only, Shape

\* A goroutine that begins an operation, or ends one.
LEMMA FreshShape ==
    ASSUME Shape, NEW p \in Proc, p # Flush, NEW op, NEW label, counts' \in Counts,
           h' = [h EXCEPT ![p] = Fresh(op, label)],
           \/ op = "none" /\ label = "idle"
           \/ /\ op \in {"login", "logout", "act", "snapshot"}
              /\ label \in {"authenticate", "leave", "route", "find"}
    PROVE  Informs(p)
<1>1. h'[p] = Fresh(op, label) /\ Only(p)
    BY DEF Shape, Only
<1>2. Ready(p, Fresh(op, label), counts'.progress)
    BY DEF Ready, Fresh, NoRecord, Record, Ops, Resting, Labels, MapOrNone, PersistLabels,
       RestoreLabels, PlacingLabels, LogoutLabels, SwitchLabels
<1> QED BY <1>1, <1>2 DEF Informs

\* The steps of the gateway keep the types.
LEMMA GatewayShape ==
    ASSUME Shape, NEW c \in Conn, Gateway(c)
    PROVE  Shape'
<1>0. /\ Cmd(c) \in Proc \ {Flush} /\ Tick(c) \in Proc \ {Flush}
      /\ Idle = Fresh("none", "idle")
    BY DEF Proc, Cmd, Tick, Flush, Idle
<1>1. /\ counts' \in Counts /\ counts'.progress = counts.progress
      /\ conn' \in [Conn -> {"closed", "auth", "open", "stopped"}] /\ expect' \subseteq Map
      /\ UNCHANGED <<session, copy, profile, hot, cut>>
    BY DEF Gateway, Dial, LoginAnswered, Act, Switch, CommandAnswered, HangUp, Poll, PollAnswered,
       Shape, Globals, Counts, world, store, history
<1>2. Globals' /\ counts.progress <= counts'.progress
    BY <1>1, BoundAssumption DEF Shape, Globals, Counts
<1>3. CASE Dial(c)
    BY <1>0, <1>1, <1>2, <1>3, FreshShape, ShapeStep DEF Dial
<1>4. CASE LoginAnswered(c) \/ CommandAnswered(c)
    BY <1>0, <1>1, <1>2, <1>4, FreshShape, ShapeStep DEF LoginAnswered, CommandAnswered
<1>5. CASE Act(c)
    BY <1>0, <1>1, <1>2, <1>5, FreshShape, ShapeStep DEF Act
<1>6. CASE Switch(c)
    <2>1. PICK m \in Map :
             h' = [h EXCEPT ![Cmd(c)] = [Fresh("switch", "target") EXCEPT !.to = m]]
        BY <1>6 DEF Switch
    <2> DEFINE g == [Fresh("switch", "target") EXCEPT !.to = m]
    <2>2. h'[Cmd(c)] = g /\ Only(Cmd(c))
        BY <1>0, <2>1 DEF Shape, Only
    <2>3. Ready(Cmd(c), g, counts'.progress)
        BY DEF Ready, Fresh, NoRecord, Record, Ops, Resting, Labels, MapOrNone, PersistLabels,
           RestoreLabels, PlacingLabels, LogoutLabels, SwitchLabels
    <2> QED BY <1>0, <1>2, <2>2, <2>3, ShapeStep DEF Informs
<1>7. CASE HangUp(c)
    BY <1>0, <1>1, <1>2, <1>7, FreshShape, StayShape, ShapeStep DEF HangUp
<1>8. CASE Poll(c)
    BY <1>0, <1>1, <1>2, <1>8, FreshShape, ShapeStep DEF Poll
<1>9. CASE PollAnswered(c)
    BY <1>0, <1>1, <1>2, <1>9, FreshShape, ShapeStep DEF PollAnswered
<1> QED BY <1>3, <1>4, <1>5, <1>6, <1>7, <1>8, <1>9 DEF Gateway

\* A step that leaves all but the goroutine's own record alone.
LEMMA QuietGlobals ==
    ASSUME Shape, UNCHANGED <<world, store, conn, cut, counts, history>>
    PROVE  Globals' /\ counts' = counts /\ counts'.progress = counts.progress
           /\ counts.progress \in Nat /\ counts.progress <= counts'.progress
<1>1. UNCHANGED <<session, copy, profile, hot, conn, cut, counts, expect>>
    BY DEF world, store, history
<1>2. counts.progress \in Nat
    BY BoundAssumption DEF Shape, Globals, Counts
<1> QED BY <1>1, <1>2 DEF Shape, Globals

\* The record of p after a step.
State(p, label, map, rec, ret) ==
    [op |-> h[p].op, pc |-> label, map |-> map, to |-> h[p].to, rec |-> rec, ret |-> ret]

\* A goroutine in the middle of an operation goes on to another step, with what
\* that step needs to know.
Onward(p, label, map, rec, ret) ==
    /\ h[p].pc \notin Resting /\ label \in Labels \ Resting /\ map \in MapOrNone
    /\ ret \in {"find", "call", "reply", "end"}
    /\ rec \in [map : MapOrNone, data : {Absent} \cup 0..counts'.progress]
    /\ label \in {"takeover", "add", "probe", "readd", "place", "reroute", "save1", "save", "save2"}
           => rec \in Recorded(counts'.progress)
    /\ label = "profile" => rec.map \in Map
    /\ label \in {"add", "enrol", "take", "call", "probe", "readd", "adopt", "check", "remove",
                  "place", "reroute"} => map \in Map
    /\ label \in PersistLabels /\ ret = "call" => map \in Map
    /\ label \in {"authenticate", "takeover", "add", "enrol"} => ret = "find"
    /\ label \in RestoreLabels => ret \in {"call", "reply"}
    /\ label \in SwitchLabels \cup {"target"} => h[p].op = "switch"

\* A step that gives the next one what it needs.
LEMMA OnwardShape ==
    ASSUME Shape, NEW p \in Proc, NEW label, NEW map, NEW rec, NEW ret,
           counts' \in Counts, counts.progress <= counts'.progress,
           Onward(p, label, map, rec, ret), Only(p), h'[p] = State(p, label, map, rec, ret)
    PROVE  Informs(p)
<1>1. Ready(p, h[p], counts'.progress)
    BY KnownStill
<1> DEFINE g == State(p, label, map, rec, ret)
<1>2. /\ g.op = h[p].op /\ g.pc = label /\ g.map = map /\ g.to = h[p].to
      /\ g.rec = rec /\ g.ret = ret
      /\ g = [op |-> g.op, pc |-> g.pc, map |-> g.map, to |-> g.to, rec |-> g.rec, ret |-> g.ret]
    BY DEF State
<1>3. h'[p] = g
    OBVIOUS
<1> HIDE DEF g
<1>4. Ready(p, g, counts'.progress)
    BY <1>1, <1>2 DEF Ready, Onward
<1> QED BY <1>3, <1>4 DEF Informs

\* Records of data that the store or a world may hold.
LEMMA Records ==
    /\ \A d \in Nat : Recorded(d) \subseteq [map : MapOrNone, data : {Absent} \cup 0..d]
    /\ \A d \in Nat : NoRecord \in [map : MapOrNone, data : {Absent} \cup 0..d]
    /\ \A d \in Nat : \A r \in Recorded(d) : r.map \in Map /\ r.data \in 0..d
    /\ \A d \in Nat : \A m \in Map, n \in 0..d : Record(m, n) \in Recorded(d)
    /\ \A d \in Nat : \A m \in Map :
          /\ Record(m, Absent) \in [map : MapOrNone, data : {Absent} \cup 0..d]
          /\ Record(m, Absent).map = m
BY DEF Recorded, MapOrNone, NoRecord, Record

\* Login, logout, commands, switches, persistSessionState and restoreSession keep
\* the types, step by step.
LEMMA LoginShape ==
    ASSUME Shape, NEW p \in Proc, Authenticate(p) \/ Takeover(p) \/ Add(p) \/ Enrol(p)
    PROVE  Shape'
<1> USE DEF At, Go, Resting, Labels, PersistLabels, RestoreLabels, PlacingLabels, LogoutLabels,
        SwitchLabels, SaveLabels
<1>0. Ready(p, h[p], counts.progress) /\ Globals
    BY DEF Shape
<1>a. /\ counts \in Counts /\ counts.progress \in Nat /\ counts.progress <= counts.progress
      /\ counts.failures \in Nat
    BY <1>0, BoundAssumption DEF Globals, Counts
<1>1. CASE Authenticate(p)
    <2>1. Only(p) /\ h'[p] = State(p, "takeover", h[p].map, profile, h[p].ret)
        BY <1>0, <1>1 DEF Authenticate, Shape, Ready, Only, State
    <2>2. Globals' /\ counts' = counts
        BY <1>1, QuietGlobals DEF Authenticate
    <2>3. Onward(p, "takeover", h[p].map, profile, h[p].ret)
        BY <1>0, <1>a, <1>1, <2>2, Records DEF Authenticate, Ready, Globals, Onward
    <2> QED BY <1>a, <2>1, <2>2, <2>3, OnwardShape, ShapeStep
<1>2. CASE Takeover(p)
    <2>2. Globals' /\ counts' = counts
        BY <1>2, QuietGlobals DEF Takeover
    <2>3. CASE session # None
        <3>1. Only(p) /\ h'[p] = State(p, "persist", h[p].map, NoRecord, h[p].ret)
            BY <1>0, <1>2, <2>3 DEF Takeover, Shape, Ready, Only, State
        <3>2. Onward(p, "persist", h[p].map, NoRecord, h[p].ret)
            BY <1>0, <1>a, <1>2, <2>2, Records DEF Takeover, Ready, Onward
        <3> QED BY <1>a, <2>2, <3>1, <3>2, OnwardShape, ShapeStep
    <2>4. CASE session = None
        <3>1. Only(p) /\ h'[p] = State(p, "add", h[p].rec.map, h[p].rec, h[p].ret)
            BY <1>0, <1>2, <2>4 DEF Takeover, Shape, Ready, Only, State
        <3>2. Onward(p, "add", h[p].rec.map, h[p].rec, h[p].ret)
            BY <1>0, <1>a, <1>2, <2>2, Records DEF Takeover, Ready, Onward, MapOrNone
        <3> QED BY <1>a, <2>2, <3>1, <3>2, OnwardShape, ShapeStep
    <2> QED BY <2>3, <2>4
<1>3. CASE Add(p)
    <2>1. h[p].rec \in Recorded(counts.progress) /\ h[p].map \in Map /\ h[p].rec.data \in 0..counts.progress
        BY <1>0, <1>a, <1>3, Records DEF Add, Ready
    <2>2. Globals' /\ counts' \in Counts /\ counts'.progress = counts.progress
        BY <1>0, <1>a, <1>3, <2>1 DEF Add, AddOrRestore, Lost, Globals, Counts, store, history
    <2>3. CASE Reply(p, "error")
        BY <1>a, <2>2, <2>3, ReplyShape, ShapeStep
    <2>4. CASE Go(p, "enrol")
        <3>1. Only(p) /\ h'[p] = State(p, "enrol", h[p].map, h[p].rec, h[p].ret)
            BY <1>0, <2>4 DEF Shape, Ready, Only, State
        <3>2. Onward(p, "enrol", h[p].map, h[p].rec, h[p].ret)
            BY <1>0, <1>a, <1>3, <2>1, <2>2, Records DEF Add, Ready, Onward, MapOrNone
        <3> QED BY <1>a, <2>2, <3>1, <3>2, OnwardShape, ShapeStep
    <2> QED BY <1>3, <2>3, <2>4 DEF Add
<1>4. CASE Enrol(p)
    <2>1. Only(p) /\ h'[p] = State(p, "persist", None, NoRecord, h[p].ret)
        BY <1>0, <1>4 DEF Enrol, Shape, Ready, Only, State
    <2>2. Globals' /\ counts' = counts
        BY <1>0, <1>4 DEF Enrol, Globals, Ready, MapOrNone, store, history, Switching
    <2>3. Onward(p, "persist", None, NoRecord, h[p].ret)
        BY <1>0, <1>a, <1>4, <2>2, Records DEF Enrol, Ready, Onward, MapOrNone
    <2> QED BY <1>a, <2>1, <2>2, <2>3, OnwardShape, ShapeStep
<1> QED BY <1>1, <1>2, <1>3, <1>4

\* ... logout: the profile that is saved is one a world has returned ...
LEMMA LogoutShape ==
    ASSUME Shape, NEW p \in Proc, Leave(p) \/ Take(p) \/ SaveOnLogout(p) \/ Forget(p)
    PROVE  Shape'
<1> USE DEF At, Go, Resting, Labels, PersistLabels, RestoreLabels, PlacingLabels, LogoutLabels,
        SwitchLabels, SaveLabels
<1>0. Ready(p, h[p], counts.progress) /\ Globals
    BY DEF Shape
<1>a. /\ counts \in Counts /\ counts.progress \in Nat /\ counts.progress <= counts.progress
      /\ counts.failures \in Nat /\ Absent \notin Nat
    BY <1>0, BoundAssumption DEF Globals, Counts, Absent
<1>1. CASE Leave(p)
    <2>0. Globals' /\ counts' = counts
        BY <1>0, <1>1 DEF Leave, Globals, MapOrNone, store, history, Switching
    <2>3. CASE session = None
        BY <1>a, <1>1, <2>0, <2>3, ReplyShape, ShapeStep DEF Leave
    <2>4. CASE session # None
        <3>1. Only(p) /\ h'[p] = State(p, "take", session, h[p].rec, h[p].ret)
            BY <1>0, <1>1, <2>4 DEF Leave, Shape, Ready, Only, State
        <3>2. Onward(p, "take", session, h[p].rec, h[p].ret)
            BY <1>0, <1>a, <1>1, <2>4, <2>0, Records DEF Leave, Ready, Onward, MapOrNone, Globals
        <3> QED BY <1>a, <2>0, <3>1, <3>2, OnwardShape, ShapeStep
    <2> QED BY <2>3, <2>4
<1>2. CASE Take(p)
    <2>0. Globals' /\ counts' \in Counts /\ counts'.progress = counts.progress
        BY <1>0, <1>a, <1>2 DEF Take, Lost, Globals, Counts, store, history
    <2>3. CASE Go(p, "forget")
        <3>1. Only(p) /\ h'[p] = State(p, "forget", h[p].map, h[p].rec, h[p].ret)
            BY <1>0, <1>2, <2>3 DEF Take, Shape, Ready, Only, State
        <3>2. Onward(p, "forget", h[p].map, h[p].rec, h[p].ret)
            BY <1>0, <1>a, <1>2, <2>3, <2>0, Records DEF Take, Ready, Onward, MapOrNone
        <3> QED BY <1>a, <2>0, <3>1, <3>2, OnwardShape, ShapeStep
    <2>4. CASE /\ copy[h[p].map] # Absent
               /\ h' = [h EXCEPT ![p].pc = "save2", ![p].rec = Record(h[p].map, copy[h[p].map])]
        <3>3. h[p].map \in Map /\ copy[h[p].map] \in 0..counts.progress
            BY <1>0, <1>2, <2>4 DEF Take, Ready, Globals
        <3>1. Only(p) /\ h'[p] = State(p, "save2", h[p].map, Record(h[p].map, copy[h[p].map]), h[p].ret)
            BY <1>0, <1>2, <2>4 DEF Take, Shape, Ready, Only, State
        <3>2. Onward(p, "save2", h[p].map, Record(h[p].map, copy[h[p].map]), h[p].ret)
            BY <1>0, <1>a, <1>2, <2>4, <2>0, Records, <3>3 DEF Take, Ready, Onward, MapOrNone
        <3> QED BY <1>a, <2>0, <3>1, <3>2, OnwardShape, ShapeStep
    <2> QED BY <1>2, <2>3, <2>4 DEF Take
<1>3. CASE SaveOnLogout(p)
    <2>0. Globals' /\ counts' = counts
        BY <1>0, <1>3 DEF SaveOnLogout, Globals, Ready, world, history
    <2>1. Only(p) /\ h'[p] = State(p, "forget", None, NoRecord, h[p].ret)
        BY <1>0, <1>3 DEF SaveOnLogout, Shape, Ready, Only, State
    <2>2. Onward(p, "forget", None, NoRecord, h[p].ret)
        BY <1>0, <1>a, <1>3, <2>0, Records DEF SaveOnLogout, Ready, Onward, MapOrNone
    <2> QED BY <1>a, <2>0, <2>1, <2>2, OnwardShape, ShapeStep
<1>4. CASE Forget(p)
    <2>0. Globals' /\ counts' = counts
        BY <1>0, <1>4 DEF Forget, Globals, MapOrNone, world, history
    <2> QED BY <1>a, <1>4, <2>0, ReplyShape, ShapeStep DEF Forget
<1> QED BY <1>1, <1>2, <1>3, <1>4

\* ... a command: the only step that adds to what may be recorded ...
LEMMA CommandShape ==
    ASSUME Shape, NEW p \in Proc, Route(p) \/ Call(p) \/ SaveAfterCall(p)
    PROVE  Shape'
<1> USE DEF At, Go, Resting, Labels, PersistLabels, RestoreLabels, PlacingLabels, LogoutLabels,
        SwitchLabels, SaveLabels
<1>0. Ready(p, h[p], counts.progress) /\ Globals
    BY DEF Shape
<1>a. /\ counts \in Counts /\ counts.progress \in Nat /\ counts.progress <= counts.progress
      /\ counts.failures \in Nat /\ Absent \notin Nat
    BY <1>0, BoundAssumption DEF Globals, Counts, Absent
<1>1. CASE Route(p)
    <2>0. Globals' /\ counts' = counts
        BY <1>1, QuietGlobals DEF Route
    <2>3. CASE session # None
        <3>1. Only(p) /\ h'[p] = State(p, "call", session, h[p].rec, h[p].ret)
            BY <1>0, <1>1, <2>3 DEF Route, Shape, Ready, Only, State
        <3>2. Onward(p, "call", session, h[p].rec, h[p].ret)
            BY <1>0, <1>a, <1>1, <2>3, <2>0, Records, <2>3 DEF Route, Ready, Onward, MapOrNone, Globals
        <3> QED BY <1>a, <2>0, <3>1, <3>2, OnwardShape, ShapeStep
    <2>4. CASE session = None
        <3>1. Only(p) /\ h'[p] = State(p, "loadHot", h[p].map, h[p].rec, "call")
            BY <1>0, <1>1, <2>4 DEF Route, Shape, Ready, Only, State
        <3>2. Onward(p, "loadHot", h[p].map, h[p].rec, "call")
            BY <1>0, <1>a, <1>1, <2>4, <2>0, Records DEF Route, Ready, Onward, MapOrNone
        <3> QED BY <1>a, <2>0, <3>1, <3>2, OnwardShape, ShapeStep
    <2> QED BY <2>3, <2>4
<1>2. CASE Call(p)
    <2> DEFINE m == h[p].map
    <2>3. m \in Map
        BY <1>0, <1>2 DEF Call, Ready
    <2>4. CASE Reply(p, "error") /\ UNCHANGED <<copy, counts>>
        <3>1. Globals'
            BY <1>0, <1>2, <2>4 DEF Call, Globals, store, history
        <3> QED BY <1>a, <2>4, <3>1, ReplyShape, ShapeStep
    <2>5. CASE /\ copy[m] # Absent /\ UNCHANGED <<copy, counts>>
               /\ h' = [h EXCEPT ![p].pc = "save1", ![p].rec = Record(m, copy[m])]
        <3>0. Globals' /\ counts' = counts
            BY <1>0, <1>2, <2>5 DEF Call, Globals, store, history
        <3>3. copy[m] \in 0..counts.progress
            BY <1>0, <2>3, <2>5 DEF Globals
        <3>1. Only(p) /\ h'[p] = State(p, "save1", h[p].map, Record(h[p].map, copy[h[p].map]), h[p].ret)
            BY <1>0, <1>2, <2>5 DEF Call, Shape, Ready, Only, State
        <3>2. Onward(p, "save1", h[p].map, Record(h[p].map, copy[h[p].map]), h[p].ret)
            BY <1>0, <1>a, <1>2, <2>5, <3>0, Records, <3>3 DEF Call, Ready, Onward, MapOrNone
        <3> QED BY <1>a, <3>0, <3>1, <3>2, OnwardShape, ShapeStep
    <2>6. CASE /\ copy[m] # Absent /\ counts.progress < MaxProgress
               /\ copy' = [copy EXCEPT ![m] = @ + 1]
               /\ counts' = [counts EXCEPT !.progress = @ + 1]
               /\ h' = [h EXCEPT ![p].pc = "save1", ![p].rec = Record(m, copy[m] + 1)]
        <3>3. copy[m] \in 0..counts.progress
            BY <1>0, <2>3, <2>6 DEF Globals
        <3>4. /\ counts'.progress = counts.progress + 1 /\ counts' \in Counts
              /\ copy[m] + 1 \in 0..counts'.progress
            BY <1>a, <2>6, <3>3, BoundAssumption DEF Counts
        <3>5. 0..counts.progress \subseteq 0..counts'.progress
            BY <1>a, <3>4
        <3>6. profile \in Recorded(counts'.progress)
            BY <1>0, <3>5 DEF Globals, Recorded
        <3>7. copy' \in [Map -> {Absent} \cup 0..counts'.progress]
            BY <1>0, <2>3, <2>6, <3>3, <3>4, <3>5 DEF Globals
        <3>8. Globals' /\ counts.progress <= counts'.progress
            BY <1>0, <1>a, <1>2, <3>4, <3>6, <3>7 DEF Call, Globals, store, history
        <3>9. Only(p) /\ h'[p] = State(p, "save1", m, Record(m, copy[m] + 1), h[p].ret)
            BY <1>0, <2>6 DEF Shape, Ready, Only, State
        <3>10. Onward(p, "save1", m, Record(m, copy[m] + 1), h[p].ret)
            <4> DEFINE r == Record(m, copy[m] + 1)
            <4>1. counts'.progress \in Nat
                BY <1>a, <3>4
            <4>2. r \in Recorded(counts'.progress)
                BY <2>3, <3>4, <4>1, Records
            <4> HIDE DEF r
            <4>3. r \in [map : MapOrNone, data : {Absent} \cup 0..counts'.progress]
                BY <4>1, <4>2, Records
            <4>4. Onward(p, "save1", m, r, h[p].ret)
                BY <1>0, <1>2, <2>3, <4>2, <4>3 DEF Call, Ready, Onward, MapOrNone
            <4> QED BY <4>4 DEF r
        <3> QED BY <3>4, <3>8, <3>9, <3>10, OnwardShape, ShapeStep
    <2> QED BY <1>2, <2>4, <2>5, <2>6 DEF Call
<1>3. CASE SaveAfterCall(p)
    <2>0. Globals' /\ counts' = counts
        BY <1>0, <1>3 DEF SaveAfterCall, Globals, Ready, world, history
    <2> QED BY <1>a, <1>3, <2>0, ThenShape, ShapeStep DEF SaveAfterCall
<1> QED BY <1>1, <1>2, <1>3

\* ... a switch: the profile goes to the target it named ...
LEMMA SwitchShape ==
    ASSUME Shape, NEW p \in Proc, Target(p) \/ Check(p) \/ Remove(p) \/ Place(p) \/ Reroute(p)
    PROVE  Shape'
<1> USE DEF At, Go, Resting, Labels, PersistLabels, RestoreLabels, PlacingLabels, LogoutLabels,
        SwitchLabels, SaveLabels
<1>0. Ready(p, h[p], counts.progress) /\ Globals
    BY DEF Shape
<1>a. /\ counts \in Counts /\ counts.progress \in Nat /\ counts.progress <= counts.progress
      /\ counts.failures \in Nat /\ Absent \notin Nat
    BY <1>0, BoundAssumption DEF Globals, Counts, Absent
<1>1. CASE Target(p)
    <2>0. Globals' /\ counts' = counts
        BY <1>0, <1>1 DEF Target, Globals, world, store, history
    <2>3. CASE Reply(p, "error") \/ Then(p, "find")
        BY <1>a, <1>1, <2>0, <2>3, ReplyShape, ThenShape, ShapeStep DEF Target
    <2>4. CASE session # None /\ h' = [h EXCEPT ![p].pc = "check", ![p].map = session]
        <3>1. Only(p) /\ h'[p] = State(p, "check", session, h[p].rec, h[p].ret)
            BY <1>0, <1>1, <2>4 DEF Target, Shape, Ready, Only, State
        <3>2. Onward(p, "check", session, h[p].rec, h[p].ret)
            BY <1>0, <1>a, <1>1, <2>4, <2>0, Records DEF Target, Ready, Onward, MapOrNone, Globals
        <3> QED BY <1>a, <2>0, <3>1, <3>2, OnwardShape, ShapeStep
    <2> QED BY <1>1, <2>3, <2>4 DEF Target
<1>2. CASE Check(p)
    <2>0. Globals' /\ counts' = counts
        BY <1>2, QuietGlobals DEF Check
    <2>3. CASE Reply(p, "error") \/ Then(p, "find")
        BY <1>a, <1>2, <2>0, <2>3, ReplyShape, ThenShape, ShapeStep DEF Check
    <2>4. CASE Go(p, "remove")
        <3>1. Only(p) /\ h'[p] = State(p, "remove", h[p].map, h[p].rec, h[p].ret)
            BY <1>0, <1>2, <2>4 DEF Check, Shape, Ready, Only, State
        <3>2. Onward(p, "remove", h[p].map, h[p].rec, h[p].ret)
            BY <1>0, <1>a, <1>2, <2>4, <2>0, Records DEF Check, Ready, Onward, MapOrNone
        <3> QED BY <1>a, <2>0, <3>1, <3>2, OnwardShape, ShapeStep
    <2> QED BY <1>2, <2>3, <2>4 DEF Check
<1>3. CASE Remove(p)
    <2> DEFINE m == h[p].map
               r == Record(h[p].to, copy[m])
    <2>0. Globals' /\ counts' \in Counts /\ counts'.progress = counts.progress
        BY <1>0, <1>a, <1>3 DEF Remove, Lost, Globals, Counts, store, history
    <2>3. CASE Reply(p, "error")
        BY <1>a, <2>0, <2>3, ReplyShape, ShapeStep
    <2>4. CASE copy[m] # Absent /\ h' = [h EXCEPT ![p].pc = "place", ![p].rec = r]
        <3>1. Only(p) /\ h'[p] = State(p, "place", m, r, h[p].ret)
            BY <1>0, <2>4 DEF Shape, Ready, Only, State
        <3>2. m \in Map /\ h[p].to \in Map
            BY <1>0, <1>3 DEF Remove, Ready
        <3>3. copy[m] \in 0..counts.progress
            BY <1>0, <2>4, <3>2 DEF Globals
        <3>4. r \in Recorded(counts'.progress)
            BY <1>a, <2>0, <3>2, <3>3, Records
        <3> HIDE DEF r
        <3>5. Onward(p, "place", m, r, h[p].ret)
            BY <1>0, <1>a, <1>3, <2>0, <3>2, <3>4, Records DEF Remove, Ready, Onward, MapOrNone
        <3> QED BY <1>a, <2>0, <3>1, <3>5, OnwardShape, ShapeStep
    <2> QED BY <1>3, <2>3, <2>4 DEF Remove
<1>4. CASE Place(p)
    <2>1. h[p].rec \in Recorded(counts.progress) /\ h[p].to \in Map
        BY <1>0, <1>4 DEF Place, Ready
    <2>2. h[p].rec.data \in 0..counts.progress
        BY <1>a, <2>1, Records
    <2>0. Globals' /\ counts' \in Counts /\ counts'.progress = counts.progress
        BY <1>0, <1>a, <1>4, <2>1, <2>2 DEF Place, AddOrRestore, Lost, Globals, Counts, store, history
    <2>3. CASE Reply(p, "error")
        BY <1>a, <2>0, <2>3, ReplyShape, ShapeStep
    <2>4. CASE Go(p, "reroute")
        <3>1. Only(p) /\ h'[p] = State(p, "reroute", h[p].map, h[p].rec, h[p].ret)
            BY <1>0, <1>4, <2>4 DEF Place, Shape, Ready, Only, State
        <3>2. Onward(p, "reroute", h[p].map, h[p].rec, h[p].ret)
            BY <1>0, <1>a, <1>4, <2>4, <2>0, Records DEF Place, Ready, Onward, MapOrNone
        <3> QED BY <1>a, <2>0, <3>1, <3>2, OnwardShape, ShapeStep
    <2> QED BY <1>4, <2>3, <2>4 DEF Place
<1>5. CASE Reroute(p)
    <2>a. h[p].to \in Map
        BY <1>0, <1>5 DEF Reroute, Ready
    <2>0. Globals' /\ counts' = counts
        BY <1>0, <1>5, <2>a DEF Reroute, Globals, MapOrNone, store, history
    <2>1. Only(p) /\ h'[p] = State(p, "save1", h[p].map, h[p].rec, h[p].ret)
        BY <1>0, <1>5 DEF Reroute, Shape, Ready, Only, State
    <2>2. Onward(p, "save1", h[p].map, h[p].rec, h[p].ret)
        BY <1>0, <1>a, <1>5, <2>0, Records DEF Reroute, Ready, Onward, MapOrNone
    <2> QED BY <1>a, <2>0, <2>1, <2>2, OnwardShape, ShapeStep
<1> QED BY <1>1, <1>2, <1>3, <1>4, <1>5

\* ... persistSessionState: only profiles that were found are saved ...
LEMMA PersistShape ==
    ASSUME Shape, NEW p \in Proc, Persist(p) \/ ReadProfile(p) \/ SaveProfile(p) \/ SaveHotSession(p)
    PROVE  Shape'
<1> USE DEF At, Go, Resting, Labels, PersistLabels, RestoreLabels, PlacingLabels, LogoutLabels,
        SwitchLabels, SaveLabels
<1>0. Ready(p, h[p], counts.progress) /\ Globals
    BY DEF Shape
<1>a. /\ counts \in Counts /\ counts.progress \in Nat /\ counts.progress <= counts.progress
      /\ counts.failures \in Nat /\ Absent \notin Nat
    BY <1>0, BoundAssumption DEF Globals, Counts, Absent
<1>1. CASE Persist(p)
    <2>0. Globals' /\ counts' = counts
        BY <1>1, QuietGlobals DEF Persist
    <2>3. CASE Return(p)
        BY <1>a, <1>1, <2>0, <2>3, ReturnShape, ShapeStep DEF Persist
    <2>4. CASE session # None /\ h' = [h EXCEPT ![p].pc = "profile", ![p].rec = Record(session, Absent)]
        <3>3. session \in Map
            BY <1>0, <2>4 DEF Globals, MapOrNone
        <3>1. Only(p) /\ h'[p] = State(p, "profile", h[p].map, Record(session, Absent), h[p].ret)
            BY <1>0, <1>1, <2>4 DEF Persist, Shape, Ready, Only, State
        <3>2. Onward(p, "profile", h[p].map, Record(session, Absent), h[p].ret)
            BY <1>0, <1>a, <1>1, <2>4, <2>0, Records, <3>3 DEF Persist, Ready, Onward, MapOrNone
        <3> QED BY <1>a, <2>0, <3>1, <3>2, OnwardShape, ShapeStep
    <2> QED BY <1>1, <2>3, <2>4 DEF Persist
<1>2. CASE ReadProfile(p)
    <2> DEFINE m == h[p].rec.map
               r == Record(m, copy[m])
    <2>0. Globals' /\ counts' = counts
        BY <1>2, QuietGlobals DEF ReadProfile
    <2>3. CASE Return(p)
        BY <1>a, <1>2, <2>0, <2>3, ReturnShape, ShapeStep DEF ReadProfile
    <2>4. CASE copy[m] # Absent /\ h' = [h EXCEPT ![p].pc = "save", ![p].rec = r]
        <3>1. Only(p) /\ h'[p] = State(p, "save", h[p].map, r, h[p].ret)
            BY <1>0, <2>4 DEF Shape, Ready, Only, State
        <3>2. m \in Map
            BY <1>0, <1>2 DEF ReadProfile, Ready
        <3>3. copy[m] \in 0..counts.progress
            BY <1>0, <2>4, <3>2 DEF Globals
        <3>4. r \in Recorded(counts'.progress)
            BY <1>a, <2>0, <3>2, <3>3, Records
        <3> HIDE DEF r
        <3>5. Onward(p, "save", h[p].map, r, h[p].ret)
            BY <1>0, <1>a, <1>2, <2>0, <3>2, <3>4, Records DEF ReadProfile, Ready, Onward, MapOrNone
        <3> QED BY <1>a, <2>0, <3>1, <3>5, OnwardShape, ShapeStep
    <2> QED BY <1>2, <2>3, <2>4 DEF ReadProfile
<1>3. CASE SaveProfile(p)
    <2>0. Globals' /\ counts' = counts
        BY <1>0, <1>3 DEF SaveProfile, Globals, Ready, world, history
    <2>1. Only(p) /\ h'[p] = State(p, "saveHot", h[p].map, h[p].rec, h[p].ret)
        BY <1>0, <1>3 DEF SaveProfile, Shape, Ready, Only, State
    <2>2. Onward(p, "saveHot", h[p].map, h[p].rec, h[p].ret)
        BY <1>0, <1>a, <1>3, <2>0, Records DEF SaveProfile, Ready, Onward, MapOrNone
    <2> QED BY <1>a, <2>0, <2>1, <2>2, OnwardShape, ShapeStep
<1>4. CASE SaveHotSession(p)
    <2>0. Globals' /\ counts' = counts
        BY <1>0, <1>4 DEF SaveHotSession, Globals, Ready, world, history
    <2> QED BY <1>a, <1>4, <2>0, ReturnShape, ShapeStep DEF SaveHotSession
<1> QED BY <1>1, <1>2, <1>3, <1>4

\* The maps a player may expect are maps.
LEMMA ShowShape ==
    ASSUME Shape, NEW p \in Proc, NEW m, Show(p, m)
    PROVE  expect' \subseteq Map
<1>1. expect \subseteq Map /\ \A q \in Proc : h[q].to \in MapOrNone
    BY DEF Shape, Globals, Ready
<1> QED BY <1>1 DEF Show, MapOrNone

\* ... and restoreSession.
LEMMA RestoreShape ==
    ASSUME Shape, NEW p \in Proc,
           \/ Find(p) \/ ShowRestored(p) \/ LoadHotSession(p) \/ LoadProfile(p)
           \/ Probe(p) \/ ReAdd(p) \/ Adopt(p)
    PROVE  Shape'
<1> USE DEF At, Go, Resting, Labels, PersistLabels, RestoreLabels, PlacingLabels, LogoutLabels,
        SwitchLabels, SaveLabels
<1>0. Ready(p, h[p], counts.progress) /\ Globals
    BY DEF Shape
<1>a. /\ counts \in Counts /\ counts.progress \in Nat /\ counts.progress <= counts.progress
      /\ counts.failures \in Nat /\ Absent \notin Nat
    BY <1>0, BoundAssumption DEF Globals, Counts, Absent
<1>1. CASE Find(p)
    <2>0. Globals' /\ counts' = counts
        <3>1. expect' \subseteq Map
            BY <1>0, <1>1, ShowShape DEF Find, Globals, history
        <3> QED BY <1>0, <1>1, <3>1 DEF Find, Globals, world, store
    <2>3. CASE session # None
        BY <1>a, <1>1, <2>0, <2>3, ReplyShape, ShapeStep DEF Find
    <2>4. CASE session = None
        <3>1. Only(p) /\ h'[p] = State(p, "loadHot", h[p].map, h[p].rec, "reply")
            BY <1>0, <1>1, <2>4 DEF Find, Shape, Ready, Only, State
        <3>2. Onward(p, "loadHot", h[p].map, h[p].rec, "reply")
            BY <1>0, <1>a, <1>1, <2>4, <2>0, Records DEF Find, Ready, Onward, MapOrNone
        <3> QED BY <1>a, <2>0, <3>1, <3>2, OnwardShape, ShapeStep
    <2> QED BY <2>3, <2>4
<1>2. CASE ShowRestored(p)
    <2>0. Globals' /\ counts' = counts
        BY <1>0, <1>2, ShowShape DEF ShowRestored, Globals, world, store
    <2> QED BY <1>a, <1>2, <2>0, ReplyShape, ShapeStep DEF ShowRestored
<1>3. CASE LoadHotSession(p)
    <2>0. Globals' /\ counts' = counts
        BY <1>3, QuietGlobals DEF LoadHotSession
    <2>1. Only(p) /\ h'[p] = State(p, "loadProfile", hot, h[p].rec, h[p].ret)
        BY <1>0, <1>3 DEF LoadHotSession, Shape, Ready, Only, State
    <2>2. Onward(p, "loadProfile", hot, h[p].rec, h[p].ret)
        BY <1>0, <1>a, <1>3, <2>0, Records DEF LoadHotSession, Ready, Onward, MapOrNone, Globals
    <2> QED BY <1>a, <2>0, <2>1, <2>2, OnwardShape, ShapeStep
<1>4. CASE LoadProfile(p)
    <2> DEFINE m == IF h[p].map = None THEN profile.map ELSE h[p].map
    <2>0. Globals' /\ counts' = counts
        BY <1>4, QuietGlobals DEF LoadProfile
    <2>1. Only(p) /\ h'[p] = State(p, "probe", m, profile, h[p].ret)
        BY <1>0, <1>4 DEF LoadProfile, Shape, Ready, Only, State
    <2>2. profile \in Recorded(counts.progress) /\ m \in Map
        BY <1>0, <1>a, <1>4, Records DEF LoadProfile, Ready, Globals, MapOrNone
    <2> HIDE DEF m
    <2>3. Onward(p, "probe", m, profile, h[p].ret)
        BY <1>0, <1>a, <1>4, <2>0, <2>2, Records DEF LoadProfile, Ready, Onward, MapOrNone
    <2> QED BY <1>a, <2>0, <2>1, <2>3, OnwardShape, ShapeStep
<1>5. CASE Probe(p)
    <2>0. Globals' /\ counts' = counts
        BY <1>5, QuietGlobals DEF Probe
    <2>3. CASE Go(p, "readd")
        <3>1. Only(p) /\ h'[p] = State(p, "readd", h[p].map, h[p].rec, h[p].ret)
            BY <1>0, <1>5, <2>3 DEF Probe, Shape, Ready, Only, State
        <3>2. Onward(p, "readd", h[p].map, h[p].rec, h[p].ret)
            BY <1>0, <1>a, <1>5, <2>3, <2>0, Records DEF Probe, Ready, Onward, MapOrNone
        <3> QED BY <1>a, <2>0, <3>1, <3>2, OnwardShape, ShapeStep
    <2>4. CASE Go(p, "adopt")
        <3>1. Only(p) /\ h'[p] = State(p, "adopt", h[p].map, h[p].rec, h[p].ret)
            BY <1>0, <1>5, <2>4 DEF Probe, Shape, Ready, Only, State
        <3>2. Onward(p, "adopt", h[p].map, h[p].rec, h[p].ret)
            BY <1>0, <1>a, <1>5, <2>4, <2>0, Records DEF Probe, Ready, Onward, MapOrNone
        <3> QED BY <1>a, <2>0, <3>1, <3>2, OnwardShape, ShapeStep
    <2> QED BY <1>5, <2>3, <2>4 DEF Probe
<1>6. CASE ReAdd(p)
    <2>1. h[p].rec \in Recorded(counts.progress) /\ h[p].map \in Map
        BY <1>0, <1>6 DEF ReAdd, Ready
    <2>2. h[p].rec.data \in 0..counts.progress
        BY <1>a, <2>1, Records
    <2>0. Globals' /\ counts' \in Counts /\ counts'.progress = counts.progress
        BY <1>0, <1>a, <1>6, <2>1, <2>2 DEF ReAdd, AddOrRestore, Lost, Globals, Counts, store, history
    <2>3. CASE Reply(p, "error")
        BY <1>a, <2>0, <2>3, ReplyShape, ShapeStep
    <2>4. CASE Go(p, "adopt")
        <3>1. Only(p) /\ h'[p] = State(p, "adopt", h[p].map, h[p].rec, h[p].ret)
            BY <1>0, <1>6, <2>4 DEF ReAdd, Shape, Ready, Only, State
        <3>2. Onward(p, "adopt", h[p].map, h[p].rec, h[p].ret)
            BY <1>0, <1>a, <1>6, <2>4, <2>0, Records DEF ReAdd, Ready, Onward, MapOrNone
        <3> QED BY <1>a, <2>0, <3>1, <3>2, OnwardShape, ShapeStep
    <2> QED BY <1>6, <2>3, <2>4 DEF ReAdd
<1>7. CASE Adopt(p)
    <2>0. Globals' /\ counts' = counts
        BY <1>0, <1>7 DEF Adopt, Globals, Ready, MapOrNone, store, history
    <2>3. CASE session = None
        <3>1. Only(p) /\ h'[p] = State(p, "persist", h[p].map, NoRecord, h[p].ret)
            BY <1>0, <1>7, <2>3 DEF Adopt, Shape, Ready, Only, State
        <3>2. Onward(p, "persist", h[p].map, NoRecord, h[p].ret)
            BY <1>0, <1>a, <1>7, <2>3, <2>0, Records DEF Adopt, Ready, Onward, MapOrNone
        <3> QED BY <1>a, <2>0, <3>1, <3>2, OnwardShape, ShapeStep
    <2>4. CASE session # None
        <3>1. Only(p) /\ h'[p] = State(p, h[p].ret, session, NoRecord, h[p].ret)
            BY <1>0, <1>7, <2>4 DEF Adopt, Shape, Ready, Only, State
        <3>2. h[p].ret \in {"call", "reply"} /\ session \in Map
            BY <1>0, <1>7, <2>4 DEF Adopt, Ready, Globals, MapOrNone
        <3>3. Onward(p, h[p].ret, session, NoRecord, h[p].ret)
            BY <1>0, <1>a, <1>7, <2>0, <3>2, Records DEF Adopt, Ready, Onward, MapOrNone
        <3> QED BY <1>a, <2>0, <3>1, <3>3, OnwardShape, ShapeStep
    <2> QED BY <2>3, <2>4
<1> QED BY <1>1, <1>2, <1>3, <1>4, <1>5, <1>6, <1>7

\* A failing call takes its handler to a step that has what it needs.
LEMMA FailureShape ==
    ASSUME Shape, NEW p \in Proc, CallFails(p)
    PROVE  Shape'
<1> USE DEF At, Go, Resting, Labels, PersistLabels, RestoreLabels, PlacingLabels, LogoutLabels,
        SwitchLabels, SaveLabels
<1>0. Ready(p, h[p], counts.progress) /\ Globals
    BY DEF Shape
<1>a. /\ counts \in Counts /\ counts.progress \in Nat /\ counts.progress <= counts.progress
      /\ counts.failures \in Nat /\ Absent \notin Nat
    BY <1>0, BoundAssumption DEF Globals, Counts, Absent
<1>1. CASE CallFails(p)
    <2>0. /\ Globals' /\ counts' \in Counts /\ counts'.progress = counts.progress
          /\ counts.progress <= counts'.progress
        BY <1>0, <1>a, <1>1 DEF CallFails, Lost, Globals, Counts, world, store, history
    <2>1. CASE Reply(p, "error")
        BY <2>0, <2>1, ReplyShape, ShapeStep
    <2>2. CASE h[p].pc \in PersistLabels /\ Return(p)
        BY <2>0, <2>2, ReturnShape, ShapeStep
    <2>3. CASE h[p].pc = "save1" /\ Then(p, "persist")
        BY <2>0, <2>3, ThenShape, ShapeStep
    <2>4. CASE h[p].pc = "probe" /\ Go(p, "readd")
        <3>1. Only(p) /\ h'[p] = State(p, "readd", h[p].map, h[p].rec, h[p].ret)
            BY <1>0, <1>1, <2>4 DEF Shape, Ready, Only, State
        <3>2. Onward(p, "readd", h[p].map, h[p].rec, h[p].ret)
            BY <1>0, <1>a, <1>1, <2>4, <2>0, Records DEF Ready, Onward, MapOrNone
        <3> QED BY <1>a, <2>0, <3>1, <3>2, OnwardShape, ShapeStep
    <2>5. CASE h[p].pc \in {"take", "save2"} /\ Go(p, "forget")
        <3>1. Only(p) /\ h'[p] = State(p, "forget", h[p].map, h[p].rec, h[p].ret)
            BY <1>0, <1>1, <2>5 DEF Shape, Ready, Only, State
        <3>2. Onward(p, "forget", h[p].map, h[p].rec, h[p].ret)
            BY <1>0, <1>a, <1>1, <2>5, <2>0, Records DEF Ready, Onward, MapOrNone
        <3> QED BY <1>a, <2>0, <3>1, <3>2, OnwardShape, ShapeStep
    <2> QED BY <1>1, <2>1, <2>2, <2>3, <2>4, <2>5 DEF CallFails, OnError
<1> QED BY <1>1

\* flushLoop begins a round.
LEMMA FlushShape ==
    ASSUME Shape, StartFlush
    PROVE  Shape'
<1> DEFINE g == [Fresh("flush", "persist") EXCEPT !.ret = "end"]
<1>1. Globals' /\ counts' = counts /\ counts.progress <= counts'.progress
    BY QuietGlobals DEF StartFlush
<1>2. Flush \in Proc /\ Only(Flush) /\ h'[Flush] = g
    BY DEF StartFlush, Shape, Only, Proc
<1>3. Ready(Flush, g, counts'.progress)
    BY DEF Ready, Fresh, NoRecord, Record, Ops, Resting, Labels, MapOrNone, PersistLabels,
       RestoreLabels, PlacingLabels, LogoutLabels, SwitchLabels
<1> QED BY <1>1, <1>2, <1>3, ShapeStep DEF Informs

\* After a failover every request starts again, with the target it names.
LEMMA FailoverShape ==
    ASSUME Shape, Failover
    PROVE  Shape'
<1>1. /\ Globals' /\ counts'.progress = counts.progress /\ counts.progress \in Nat
      /\ counts' \in Counts /\ counts.progress <= counts'.progress
    BY BoundAssumption DEF Failover, Shape, Globals, Counts, MapOrNone, store, history
<1>2. ASSUME NEW p \in Proc PROVE Ready(p, h'[p], counts'.progress)
    <2>1. Ready(p, h[p], counts'.progress)
        BY <1>1, KnownStill
    <2> USE DEF Ready, Fresh, NoRecord, Record, Ops, Resting, Labels, MapOrNone, PersistLabels,
            RestoreLabels, PlacingLabels, LogoutLabels, SwitchLabels
    <2>2. CASE p = Flush
        BY <2>2 DEF Failover, Idle
    <2>3. CASE p # Flush /\ h[p].pc \in Resting
        BY <2>1, <2>3 DEF Failover
    <2>4. CASE p # Flush /\ h[p].pc \notin Resting
        <3>1. h'[p] = Restarted(h[p])
            BY <2>4 DEF Failover
        <3>2. h[p].op \in {"login", "logout", "act", "switch", "snapshot"}
            BY <2>1, <2>4
        <3>3. CASE h[p].op = "switch"
            <4> DEFINE g == [op |-> "switch", pc |-> "target", map |-> None, to |-> h[p].to,
                             rec |-> NoRecord, ret |-> "find"]
            <4>1. h'[p] = g
                BY <3>1, <3>3 DEF Restarted
            <4>2. h[p].to \in Map
                BY <2>1, <2>4, <3>3
            <4>3. Ready(p, g, counts'.progress)
                BY <4>2
            <4> QED BY <4>1, <4>3
        <3>4. CASE h[p].op # "switch"
            BY <3>1, <3>2, <3>4 DEF Restarted
        <3> QED BY <3>3, <3>4
    <2> QED BY <2>2, <2>3, <2>4
<1> QED BY <1>1, <1>2 DEF Shape, Failover

\* The types hold at first ...
LEMMA InitShape == Init => Shape
<1> SUFFICES ASSUME Init PROVE Shape
    OBVIOUS
<1>1. Globals
    BY MapAssumption, BoundAssumption DEF Init, Globals, Counts, MapOrNone, Recorded, Record
<1>2. ASSUME NEW p \in Proc PROVE Ready(p, Idle, 0)
    BY DEF Ready, Idle, Fresh, NoRecord, Record, Ops, Resting, Labels, MapOrNone, PersistLabels,
       RestoreLabels, PlacingLabels, LogoutLabels, SwitchLabels
<1> QED BY <1>1, <1>2 DEF Init, Shape

\* ... and every step keeps them, whatever overlaps or fails.
LEMMA NextShape == Shape /\ [Next]_vars => Shape'
<1> SUFFICES ASSUME Shape, [Next]_vars PROVE Shape'
    OBVIOUS
<1>1. CASE \E c \in Conn : Gateway(c)
    BY <1>1, GatewayShape
<1>2. ASSUME NEW p \in Proc, Handler(p) PROVE Shape'
    BY <1>2, LoginShape, LogoutShape, CommandShape, SwitchShape, PersistShape, RestoreShape
       DEF Handler
<1>3. ASSUME NEW p \in Proc, CallFails(p) PROVE Shape'
    BY <1>3, FailureShape
<1>4. CASE StartFlush
    BY <1>4, FlushShape
<1>5. CASE Failover
    BY <1>5, FailoverShape
<1>6. CASE UNCHANGED vars
    <2>1. UNCHANGED <<session, copy, profile, hot, conn, h, cut, counts, expect>>
        BY <1>6 DEF vars, world, store, history
    <2> QED BY <2>1 DEF Shape, Globals, Ready
<1> QED BY <1>1, <1>2, <1>3, <1>4, <1>5, <1>6 DEF Next

-----------------------------------------------------------------------------
(* Where the player is. *)

\* What is assumed of a step, and what of one after which no logout runs
\* while older data is about to be saved; and what is shown of the step.
QuietLogout == (\E p \in Proc : h[p].pc \in LogoutLabels) => NoSaves
Undisturbed == Shape /\ Shape' /\ Orderly /\ OneByOne'
Unraced == Undone /\ QuietLogout'
Kept == Orderly' /\ (Unraced => Undone')

\* An operation that begins to decide where the player is finds nobody else
\* deciding.
LEMMA Entering ==
    ASSUME Undisturbed, NEW p \in Proc, Only(p), ~Placing(p), Placing(p)'
    PROVE  Settled /\ Lives(session) /\ (Unraced => Complete(session))
BY DEF Undisturbed, OneByOne, Only, Placing, Settled, Orderly, Unraced, Undone

\* A step of an operation that decides where the player is, or of one that
\* begins to: only its own place matters.
LEMMA Decides ==
    ASSUME Undisturbed, NEW p \in Proc, Only(p), Placing(p) \/ Placing(p)', Located(p)',
           Placing(p)' \/ Lives(session)',
           Unraced => Carried(p)' /\ (Placing(p)' \/ Complete(session)')
    PROVE  Kept
<1>1. ASSUME NEW q \in Proc, q # p PROVE ~Placing(q)'
    <2>1. h'[q] = h[q]
        BY <1>1 DEF Only
    <2> QED BY <1>1, <2>1 DEF Undisturbed, OneByOne, Orderly, Placing
<1>2. ASSUME NEW q \in Proc, q # p PROVE Located(q)' /\ (QuietLogout' => Carried(q)')
    BY <1>1, <1>2 DEF Placing, Located, Carried, PlacingLabels, LogoutLabels, SwitchLabels
<1>3. Orderly'
    <2>1. OneByOne'
        BY DEF Undisturbed
    <2>2. \A q \in Proc : Located(q)'
        BY <1>2
    <2>3. Settled' => Lives(session)'
        BY DEF Settled, Placing
    <2> QED BY <2>1, <2>2, <2>3 DEF Orderly
<1>4. ASSUME Unraced PROVE Undone'
    <2>1. \A q \in Proc : Carried(q)'
        BY <1>2, <1>4 DEF Unraced
    <2>2. Settled' => Complete(session)'
        BY <1>4 DEF Settled, Placing
    <2> QED BY <2>1, <2>2 DEF Undone
<1> QED BY <1>3, <1>4 DEF Kept

\* Any other step: it leaves the player where it is, and what is complete stays
\* complete.
LEMMA Leaves ==
    ASSUME Undisturbed, NEW p \in Proc, Only(p), ~Placing(p), ~Placing(p)',
           session' = session, cut' \subseteq cut,
           \A m \in Map : copy'[m] # Absent <=> copy[m] # Absent,
           Unraced => /\ \A m \in MapOrNone : Lives(m) /\ Complete(m) => Complete(m)'
                      /\ Lives(None) => counts'.progress = counts.progress
    PROVE  Kept
<1>0. \A m : Lives(m) => Lives(m)'
    BY DEF Lives
<1>1. ASSUME NEW q \in Proc, Placing(q)' PROVE h'[q] = h[q] /\ Placing(q) /\ q # p
    BY <1>1 DEF Only, Placing
<1>2. ASSUME NEW q \in Proc PROVE Located(q)'
    <2>1. CASE ~Placing(q)'
        BY <2>1 DEF Placing, Located, PlacingLabels, LogoutLabels, SwitchLabels
    <2>2. CASE Placing(q)'
        <3>1. Located(q)
            BY DEF Undisturbed, Orderly
        <3>2. h'[q] = h[q]
            BY <1>1, <2>2
        <3> QED BY <1>0, <3>1, <3>2 DEF Located
    <2> QED BY <2>1, <2>2
<1>3. Settled' => Settled
    BY DEF Settled, Only, Placing
<1>4. Orderly'
    BY <1>0, <1>2, <1>3 DEF Undisturbed, Orderly
<1>5. ASSUME Unraced, NEW q \in Proc PROVE Carried(q)'
    <2>1. CASE ~Placing(q)'
        BY <2>1 DEF Placing, Carried, PlacingLabels, LogoutLabels, SwitchLabels
    <2>2. CASE Placing(q)'
        <3>1. Located(q) /\ Carried(q) /\ Ready(q, h[q], counts.progress)
            BY <1>5 DEF Undisturbed, Orderly, Unraced, Undone, Shape
        <3>2. h'[q] = h[q]
            BY <1>1, <2>2
        <3>3. session \in MapOrNone /\ None \in MapOrNone /\ \A m \in Map : m \in MapOrNone
            BY DEF Undisturbed, Shape, Globals, MapOrNone
        <3>4. /\ \A m \in MapOrNone : Lives(m) /\ Complete(m) => Complete(m)'
              /\ Lives(None) => counts'.progress = counts.progress
            BY <1>5
        <3>5. h[q].pc \in LogoutLabels => NoSaves'
            BY <1>5, <3>2 DEF Unraced, QuietLogout
        <3> HIDE DEF Undisturbed
        <3> QED BY <3>1, <3>2, <3>3, <3>4, <3>5 DEF Located, Carried, Ready, Resting, PersistLabels, SwitchLabels, MapOrNone, LogoutLabels
    <2> QED BY <2>1, <2>2
<1>6. ASSUME Unraced, Settled' PROVE Complete(session)'
    <2>1. Lives(session) /\ Complete(session) /\ session \in MapOrNone
        BY <1>3, <1>6 DEF Undisturbed, Orderly, Unraced, Undone, Shape, Globals
    <2>2. Complete(session) => Complete(session)'
        <3>1. \A m \in MapOrNone : Lives(m) /\ Complete(m) => Complete(m)'
            BY <1>6
        <3> QED BY <2>1, <3>1 DEF Complete
    <2> QED BY <2>1, <2>2
<1> QED BY <1>4, <1>5, <1>6 DEF Kept, Undone

\* A step that neither moves nor saves anything, outside these operations.
LEMMA Idles ==
    ASSUME Undisturbed, NEW p \in Proc, Only(p), ~Placing(p), ~Placing(p)',
           h'[p].pc \notin SaveLabels, UNCHANGED <<session, copy, profile>>, cut' \subseteq cut,
           counts'.progress = counts.progress
    PROVE  Kept
<1>1. NoSaves => NoSaves'
    BY DEF NoSaves, Only
<1>2. \A m \in MapOrNone : Complete(m) => Complete(m)'
    BY <1>1 DEF Complete
<1> QED BY <1>2, Leaves

\* A login or a logout begins.
LEMMA Begins ==
    ASSUME Undisturbed, NEW p \in Proc, Only(p), ~Placing(p),
           h'[p].pc \in {"authenticate", "leave"}, UNCHANGED <<session, copy, profile>>,
           counts'.progress = counts.progress
    PROVE  Kept
<1>1. Placing(p)'
    BY DEF Placing, PlacingLabels, LogoutLabels
<1>2. Settled /\ Lives(session) /\ (Unraced => Complete(session))
    BY <1>1, Entering
<1>3. Located(p)'
    BY <1>2 DEF Located, Lives, SwitchLabels
<1>4. ASSUME Unraced PROVE Carried(p)'
    <2>1. NoSaves => NoSaves'
        BY <1>1 DEF NoSaves, Only, SaveLabels
    <2>2. Complete(session)'
        BY <1>2, <1>4, <2>1 DEF Complete
    <2>3. h'[p].pc \in LogoutLabels => NoSaves'
        BY <1>4 DEF Unraced, QuietLogout
    <2> QED BY <2>2, <2>3 DEF Carried
<1> QED BY <1>1, <1>3, <1>4, Decides

\* The steps of the gateway: the player stays where it is.
LEMMA GatewayKept ==
    ASSUME Undisturbed, NEW c \in Conn, Gateway(c)
    PROVE  Kept
<1>0. /\ Cmd(c) \in Proc /\ Tick(c) \in Proc
      /\ Idle.pc = "idle" /\ \A op, label : Fresh(op, label).pc = label
    BY DEF Proc, Cmd, Tick, Idle, Fresh
<1>1. DOMAIN h = Proc /\ counts \in Counts /\ UNCHANGED <<session, copy, profile, cut>>
    BY DEF Undisturbed, Shape, Globals, Gateway, Dial, LoginAnswered, Act, Switch, CommandAnswered,
       HangUp, Poll, PollAnswered, world, store
<1>2. counts'.progress = counts.progress
    BY <1>1 DEF Gateway, Dial, LoginAnswered, Act, Switch, CommandAnswered, HangUp, Poll,
       PollAnswered, Counts
<1> DEFINE Quiet(p) == Only(p) /\ ~Placing(p) /\ ~Placing(p)' /\ h'[p].pc \notin SaveLabels
           Enters(p) == Only(p) /\ ~Placing(p) /\ h'[p].pc \in {"authenticate", "leave"}
<1> USE DEF Only, Placing, PlacingLabels, LogoutLabels, SwitchLabels, SaveLabels
<1>3. CASE Dial(c)
    <2>1. Enters(Cmd(c))
        BY <1>0, <1>1, <1>3 DEF Dial
    <2> QED BY <1>0, <1>1, <1>2, <2>1, Begins
<1>4. CASE LoginAnswered(c) \/ CommandAnswered(c)
    <2>1. Quiet(Cmd(c))
        BY <1>0, <1>1, <1>4 DEF LoginAnswered, CommandAnswered
    <2> QED BY <1>0, <1>1, <1>2, <2>1, Idles
<1>5. CASE Act(c)
    <2>1. Quiet(Cmd(c))
        BY <1>0, <1>1, <1>5 DEF Act, Listening
    <2> QED BY <1>0, <1>1, <1>2, <2>1, Idles
<1>6. CASE Switch(c)
    <2>1. PICK m \in Map :
             h' = [h EXCEPT ![Cmd(c)] = [Fresh("switch", "target") EXCEPT !.to = m]]
        BY <1>6 DEF Switch
    <2>2. Quiet(Cmd(c))
        BY <1>0, <1>1, <1>6, <2>1 DEF Switch, Listening, Fresh
    <2> QED BY <1>0, <1>1, <1>2, <2>2, Idles
<1>7. CASE HangUp(c)
    <2>1. Quiet(Cmd(c)) \/ Enters(Cmd(c))
        BY <1>0, <1>1, <1>7 DEF HangUp, Listening
    <2> QED BY <1>0, <1>1, <1>2, <2>1, Idles, Begins
<1>8. CASE Poll(c)
    <2>1. Quiet(Tick(c))
        BY <1>0, <1>1, <1>8 DEF Poll
    <2> QED BY <1>0, <1>1, <1>2, <2>1, Idles
<1>9. CASE PollAnswered(c)
    <2>1. Quiet(Tick(c)) \/ Enters(Tick(c))
        BY <1>0, <1>1, <1>9 DEF PollAnswered
    <2> QED BY <1>0, <1>1, <1>2, <2>1, Idles, Begins
<1> QED BY <1>3, <1>4, <1>5, <1>6, <1>7, <1>8, <1>9 DEF Gateway

\* No call that took effect was reported as failed.
LEMMA NoLoss ==
    ASSUME Shape, counts'.failures = counts.failures
    PROVE  ~Lost
<1> DEFINE n == counts.failures
<1>1. n \in Nat /\ counts \in Counts
    BY DEF Shape, Globals, Counts
<1>2. Lost => counts'.failures = n + 1
    BY <1>1 DEF Lost, Counts
<1>3. counts'.failures = n
    OBVIOUS
<1> HIDE DEF n
<1> QED BY <1>1, <1>2, <1>3

\* Login adds the player where the store says, if no session has it.
LEMMA LoginKept ==
    ASSUME Undisturbed, ~Lost, NEW p \in Proc,
           Authenticate(p) \/ Takeover(p) \/ Add(p) \/ Enrol(p)
    PROVE  Kept
<1> USE DEF At, Go, Resting, PlacingLabels, LogoutLabels, SwitchLabels, SaveLabels
<1>0. /\ Ready(p, h[p], counts.progress) /\ Globals /\ DOMAIN h = Proc /\ ~Lost
      /\ Located(p) /\ (Unraced => Carried(p)) /\ Absent \notin Nat
    BY DEF Undisturbed, Orderly, Unraced, Undone, Shape, Absent
<1>p. Placing(p)
    BY DEF Placing, Authenticate, Takeover, Add, Enrol
<1>1. CASE Authenticate(p)
    <2>1. Only(p) /\ h'[p] = State(p, "takeover", h[p].map, profile, h[p].ret)
        BY <1>0, <1>1 DEF Authenticate, Ready, Only, State
    <2>2. UNCHANGED <<session, copy, profile, counts>>
        BY <1>1 DEF Authenticate, world, store
    <2>3. Located(p)' /\ Placing(p)'
        BY <1>0, <1>1, <2>1, <2>2 DEF Authenticate, Located, Placing, Lives, State
    <2>4. Unraced => Carried(p)'
        BY <1>0, <1>1, <2>1, <2>2 DEF Authenticate, Carried, Complete, NoSaves, Only, State
    <2> QED BY <1>p, <2>1, <2>3, <2>4, Decides
<1>2. CASE Takeover(p)
    <2>1. UNCHANGED <<session, copy, profile, counts>>
        BY <1>2 DEF Takeover, world, store
    <2>2. CASE session # None
        <3>1. Only(p) /\ h'[p] = State(p, "persist", h[p].map, NoRecord, h[p].ret)
            BY <1>0, <1>2, <2>2 DEF Takeover, Ready, Only, State
        <3>2. Located(p)' /\ Lives(session)'
            BY <1>0, <1>2, <2>1, <3>1 DEF Takeover, Located, Lives, State
        <3>3. Unraced => Carried(p)' /\ Complete(session)'
            BY <1>0, <1>2, <2>1, <2>2, <3>1 DEF Takeover, Carried, Complete, State
        <3> QED BY <1>p, <3>1, <3>2, <3>3, Decides
    <2>3. CASE session = None
        <3>1. Only(p) /\ h'[p] = State(p, "add", h[p].rec.map, h[p].rec, h[p].ret)
            BY <1>0, <1>2, <2>3 DEF Takeover, Ready, Only, State
        <3>2. Located(p)' /\ Placing(p)'
            BY <1>0, <1>2, <2>1, <2>3, <3>1 DEF Takeover, Located, Placing, Lives, State
        <3>3. Unraced => Carried(p)'
            BY <1>0, <1>2, <2>1, <2>3, <3>1 DEF Takeover, Carried, Complete, NoSaves, Only, State
        <3> QED BY <1>p, <3>1, <3>2, <3>3, Decides
    <2> QED BY <2>2, <2>3
<1>3. CASE Add(p)
    <2>1. Only(p) /\ h'[p] = State(p, "enrol", h[p].map, h[p].rec, h[p].ret)
        BY <1>0, <1>3 DEF Add, Ready, Only, State
    <2>2. /\ UNCHANGED <<session, profile, counts>> /\ h[p].map \in Map
          /\ copy' = [copy EXCEPT ![h[p].map] = h[p].rec.data] /\ h[p].rec.data # Absent
        BY <1>0, <1>3 DEF Add, AddOrRestore, store, Ready, Recorded
    <2>3. Located(p)' /\ Placing(p)'
        BY <1>0, <1>3, <2>1, <2>2, MapAssumption DEF Add, Located, Placing, Lives, Globals, State
    <2>4. Unraced => Carried(p)'
        BY <1>0, <1>3, <2>1, <2>2, MapAssumption DEF Add, Carried, Complete, Globals, State
    <2> QED BY <1>p, <2>1, <2>3, <2>4, Decides
<1>4. CASE Enrol(p)
    <2>1. Only(p) /\ h'[p] = State(p, "persist", None, NoRecord, h[p].ret)
        BY <1>0, <1>4 DEF Enrol, Ready, Only, State
    <2>2. session' = h[p].map /\ UNCHANGED <<copy, profile, counts>> /\ h[p].map \in Map
        BY <1>0, <1>4 DEF Enrol, store, Ready
    <2>3. Located(p)' /\ Lives(session)'
        BY <1>0, <1>4, <2>1, <2>2 DEF Enrol, Located, Lives, State
    <2>4. Unraced => Carried(p)' /\ Complete(session)'
        BY <1>0, <1>4, <2>1, <2>2, MapAssumption DEF Enrol, Carried, Complete, State
    <2> QED BY <1>p, <2>1, <2>3, <2>4, Decides
<1> QED BY <1>1, <1>2, <1>3, <1>4

\* Logout takes the player from its world to the store.
LEMMA LogoutKept ==
    ASSUME Undisturbed, ~Lost, NEW p \in Proc,
           Leave(p) \/ Take(p) \/ SaveOnLogout(p) \/ Forget(p)
    PROVE  Kept
<1> USE DEF At, Go, Resting, PlacingLabels, LogoutLabels, SwitchLabels, SaveLabels
<1>0. /\ Ready(p, h[p], counts.progress) /\ Globals /\ DOMAIN h = Proc /\ ~Lost
      /\ Located(p) /\ (Unraced => Carried(p)) /\ Absent \notin Nat
    BY DEF Undisturbed, Orderly, Unraced, Undone, Shape, Absent
<1>a. ASSUME Reply(p, "ok")
      PROVE  Only(p) /\ h'[p].pc \in Resting
    BY <1>a, <1>0 DEF Reply, Only, Idle, Fresh
<1>b. Unraced => ((\E q \in Proc : h'[q].pc \in LogoutLabels) => NoSaves')
    BY DEF Unraced, QuietLogout
<1>p. Placing(p)
    BY DEF Placing, Leave, Take, SaveOnLogout, Forget
<1>1. CASE Leave(p)
    <2>1. UNCHANGED <<copy, profile, counts>>
        BY <1>1 DEF Leave, store
    <2>2. CASE session = None
        <3>1. Only(p) /\ h'[p].pc \in Resting /\ session' = session
            BY <1>a, <1>1, <2>2 DEF Leave
        <3>2. Located(p)' /\ Lives(session)'
            BY <1>0, <1>1, <2>1, <3>1 DEF Leave, Located, Lives
        <3>3. Unraced => Carried(p)' /\ Complete(session)'
            BY <1>0, <1>1, <2>1, <2>2, <3>1 DEF Leave, Carried, Complete, NoSaves, Only
        <3> QED BY <1>p, <3>1, <3>2, <3>3, Decides
    <2>3. CASE session # None
        <3>1. Only(p) /\ h'[p] = State(p, "take", session, h[p].rec, h[p].ret) /\ session' = None
            BY <1>0, <1>1, <2>3 DEF Leave, Ready, Only, State
        <3>2. Located(p)' /\ Placing(p)'
            BY <1>0, <1>1, <2>1, <3>1 DEF Leave, Located, Placing, Lives, State
        <3>3. Unraced => Carried(p)'
            BY <1>0, <1>1, <1>b, <2>1, <2>3, <3>1 DEF Leave, Carried, Complete, State
        <3> QED BY <1>p, <3>1, <3>2, <3>3, Decides
    <2> QED BY <2>2, <2>3
<1>2. CASE Take(p)
    <2>1. h[p].map \in Map /\ copy[h[p].map] # Absent
        BY <1>0, <1>2 DEF Take, Ready, Located, Lives
    <2>2. /\ Only(p)
          /\ h'[p] = State(p, "save2", h[p].map, Record(h[p].map, copy[h[p].map]), h[p].ret)
        BY <1>0, <1>2, <2>1 DEF Take, Ready, Only, State
    <2>3. /\ UNCHANGED <<session, profile, counts>>
          /\ copy' = [copy EXCEPT ![h[p].map] = Absent]
        BY <1>2, <2>1 DEF Take, store
    <2>4. Located(p)' /\ Placing(p)'
        BY <1>0, <1>2, <2>1, <2>2, <2>3, MapAssumption DEF Take, Located, Placing, Lives, Globals, State
    <2>5. Unraced => Carried(p)'
        BY <1>0, <1>2, <1>b, <2>1, <2>2, <2>3, MapAssumption
           DEF Take, Carried, Complete, Record, State
    <2> QED BY <1>p, <2>2, <2>4, <2>5, Decides
<1>3. CASE SaveOnLogout(p)
    <2>1. Only(p) /\ h'[p] = State(p, "forget", None, NoRecord, h[p].ret)
        BY <1>0, <1>3 DEF SaveOnLogout, Ready, Only, State
    <2>2. profile' = h[p].rec /\ UNCHANGED <<session, copy, counts>>
        BY <1>3 DEF SaveOnLogout, world
    <2>3. Located(p)' /\ Placing(p)'
        BY <1>0, <1>3, <2>1, <2>2 DEF SaveOnLogout, Located, Placing, Lives, State
    <2>4. Unraced => Carried(p)'
        BY <1>0, <1>3, <1>b, <2>1, <2>2 DEF SaveOnLogout, Carried, Complete, State
    <2> QED BY <1>p, <2>1, <2>3, <2>4, Decides
<1>4. CASE Forget(p)
    <2>1. Only(p) /\ h'[p].pc \in Resting /\ UNCHANGED <<session, copy, profile, counts>>
        BY <1>a, <1>4 DEF Forget, world
    <2>3. Located(p)' /\ Lives(session)'
        BY <1>0, <1>4, <2>1 DEF Forget, Located, Lives
    <2>4. Unraced => Carried(p)' /\ Complete(session)'
        BY <1>0, <1>4, <2>1 DEF Forget, Located, Carried, Complete, NoSaves, Only
    <2> QED BY <1>p, <2>1, <2>3, <2>4, Decides
<1> QED BY <1>1, <1>2, <1>3, <1>4

\* A command changes the player in the one world that has it; its save is of no
\* matter unless the player is in no world.
LEMMA CommandKept ==
    ASSUME Undisturbed, NEW p \in Proc, Route(p) \/ Call(p) \/ SaveAfterCall(p)
    PROVE  Kept
<1> USE DEF At, Go, Resting, PlacingLabels, LogoutLabels, SwitchLabels, SaveLabels
<1>0. /\ Ready(p, h[p], counts.progress) /\ Globals /\ DOMAIN h = Proc /\ Absent \notin Nat
      /\ session \in MapOrNone /\ counts \in Counts /\ counts.progress \in Nat
    BY BoundAssumption DEF Undisturbed, Shape, Globals, Counts, Absent
<1>p. ~Placing(p)
    BY DEF Placing, Route, Call, SaveAfterCall
<1>1. CASE Route(p)
    <2>1. UNCHANGED <<session, copy, profile, cut, counts>>
        BY <1>1 DEF Route, world, store
    <2>2. CASE session # None
        <3>1. Only(p) /\ h'[p].pc = "call"
            BY <1>0, <1>1, <2>2 DEF Route, Ready, Only
        <3>2. ~Placing(p)' /\ h'[p].pc \notin SaveLabels
            BY <3>1 DEF Placing
        <3> QED BY <1>p, <2>1, <3>1, <3>2, Idles
    <2>3. CASE session = None
        <3>1. Only(p) /\ h'[p].pc = "loadHot"
            BY <1>0, <1>1, <2>3 DEF Route, Ready, Only
        <3>2. Placing(p)'
            BY <3>1 DEF Placing
        <3>3. Lives(session) /\ (Unraced => Complete(session))
            BY <1>p, <3>1, <3>2, Entering
        <3>4. Located(p)'
            BY <2>1, <2>3, <3>1, <3>3 DEF Located, Lives
        <3>5. Unraced => Carried(p)'
            BY <2>1, <2>3, <3>1, <3>3 DEF Carried, Complete, NoSaves, Only
        <3> QED BY <3>1, <3>2, <3>4, <3>5, Decides
    <2> QED BY <2>2, <2>3
<1>2. CASE Call(p)
    <2> DEFINE m == h[p].map
    <2>1. m \in Map /\ UNCHANGED <<session, profile, cut>>
        BY <1>0, <1>2 DEF Call, Ready, store
    <2>2. CASE Reply(p, "error") /\ UNCHANGED <<copy, counts>>
        <3>1. Only(p) /\ h'[p].pc \in Resting
            BY <1>0, <2>2 DEF Reply, Only, Idle, Fresh
        <3>2. ~Placing(p)' /\ h'[p].pc \notin SaveLabels
            BY <3>1 DEF Placing
        <3> QED BY <1>p, <2>1, <2>2, <3>1, <3>2, Idles
    <2>3. CASE copy[m] # Absent /\ Only(p) /\ h'[p].pc = "save1"
               /\ (\A k \in Map : copy'[k] # Absent <=> copy[k] # Absent)
               /\ (copy[m] = counts.progress => copy'[m] = counts'.progress)
        <3>1. ~Placing(p)'
            BY <2>3 DEF Placing
        <3>2. ASSUME NEW k \in MapOrNone, Lives(k) PROVE k = m
            BY <2>1, <2>3, <3>2 DEF Lives
        <3>3. m # None
            BY <2>1, MapAssumption
        <3>4. \A k \in MapOrNone : Lives(k) /\ Complete(k) => Complete(k)'
            BY <2>3, <3>2, <3>3 DEF Complete
        <3>5. ~Lives(None)
            BY <3>2, <3>3 DEF MapOrNone
        <3> QED BY <1>p, <2>1, <2>3, <3>1, <3>4, <3>5, Leaves
    <2>4. ASSUME copy[m] # Absent, h'[p].pc = "save1", Only(p), UNCHANGED <<copy, counts>>
          PROVE  Kept
        BY <2>3, <2>4
    <2>5. ASSUME copy[m] # Absent, h'[p].pc = "save1", Only(p),
                 copy' = [copy EXCEPT ![m] = @ + 1],
                 counts' = [counts EXCEPT !.progress = @ + 1]
          PROVE  Kept
        <3>1. copy[m] \in Nat
            BY <1>0, <2>1, <2>5 DEF Globals
        <3>2. copy[m] + 1 # Absent
            BY <3>1 DEF Absent
        <3>3. \A k \in Map : copy'[k] = IF k = m THEN copy[m] + 1 ELSE copy[k]
            BY <1>0, <2>1, <2>5 DEF Globals
        <3>4. \A k \in Map : copy'[k] # Absent <=> copy[k] # Absent
            BY <2>5, <3>2, <3>3
        <3>5. counts'.progress = counts.progress + 1
            BY <1>0, <2>5 DEF Counts
        <3>6. copy[m] = counts.progress => copy'[m] = counts'.progress
            BY <2>1, <3>3, <3>5
        <3> QED BY <2>3, <2>5, <3>4, <3>6
    <2>6. \/ Reply(p, "error") /\ UNCHANGED <<copy, counts>>
          \/ /\ copy[m] # Absent
             /\ \/ UNCHANGED <<copy, counts>>
                \/ /\ copy' = [copy EXCEPT ![m] = @ + 1]
                   /\ counts' = [counts EXCEPT !.progress = @ + 1]
             /\ Only(p) /\ h'[p].pc = "save1"
        BY <1>0, <1>2 DEF Call, Ready, Only
    <2> QED BY <2>2, <2>4, <2>5, <2>6
<1>3. CASE SaveAfterCall(p)
    <2>1. Only(p) /\ h'[p].pc = "persist" /\ UNCHANGED <<session, copy, cut, counts>>
        BY <1>0, <1>3 DEF SaveAfterCall, Then, Fresh, Only, world
    <2>2. ~Placing(p)'
        BY <2>1 DEF Placing
    <2>3. ~NoSaves
        BY <1>3 DEF SaveAfterCall, NoSaves
    <2>4. \A m \in MapOrNone : Complete(m) => Complete(m)'
        BY <2>1, <2>3 DEF Complete
    <2> QED BY <1>p, <2>1, <2>2, <2>4, Leaves
<1> QED BY <1>1, <1>2, <1>3

\* A switch takes the player from one world to another, session and all.
LEMMA SwitchKept ==
    ASSUME Undisturbed, ~Lost, NEW p \in Proc,
           Target(p) \/ Check(p) \/ Remove(p) \/ Place(p) \/ Reroute(p)
    PROVE  Kept
<1> USE DEF At, Go, Resting, PlacingLabels, LogoutLabels, SwitchLabels, SaveLabels
<1>0. /\ Ready(p, h[p], counts.progress) /\ Globals /\ DOMAIN h = Proc
      /\ Located(p) /\ (Unraced => Carried(p)) /\ Absent \notin Nat
    BY DEF Undisturbed, Orderly, Unraced, Undone, Shape, Absent
<1>a. ASSUME NEW answer \in {"ok", "error"}, Reply(p, answer)
      PROVE  Only(p) /\ h'[p].pc \in Resting
    BY <1>a, <1>0 DEF Reply, Only, Idle, Fresh
<1>b. ASSUME NEW label, Then(p, label)
      PROVE  Only(p) /\ h'[p].pc = label
    BY <1>b, <1>0 DEF Then, Only, Fresh
<1>1. CASE Target(p)
    <2>1. /\ UNCHANGED <<session, copy, profile, counts>> /\ cut' = cut \ {p} /\ ~Placing(p)
        BY <1>1 DEF Target, Placing, world, store
    <2>2. CASE Reply(p, "error") \/ Then(p, "find")
        <3>1. Only(p) /\ h'[p].pc \in Resting \cup {"find"}
            BY <1>a, <1>b, <2>2
        <3>2. ~Placing(p)' /\ h'[p].pc \notin SaveLabels
            BY <3>1 DEF Placing
        <3> QED BY <2>1, <3>1, <3>2, Idles
    <2>3. CASE session # None /\ h' = [h EXCEPT ![p].pc = "check", ![p].map = session]
        <3>1. Only(p) /\ h'[p] = State(p, "check", session, h[p].rec, h[p].ret)
            BY <1>0, <2>3 DEF Ready, Only, State
        <3>2. Placing(p)'
            BY <3>1 DEF Placing, State
        <3>3. Lives(session) /\ (Unraced => Complete(session))
            BY <2>1, <3>1, <3>2, Entering
        <3>4. Located(p)'
            BY <2>1, <3>1, <3>3 DEF Located, Lives, State
        <3>5. Unraced => Carried(p)'
            BY <2>1, <2>3, <3>1, <3>3 DEF Carried, Complete, State
        <3> QED BY <3>1, <3>2, <3>4, <3>5, Decides
    <2> QED BY <1>1, <2>2, <2>3 DEF Target
<1>2. CASE Check(p)
    <2>1. UNCHANGED <<session, copy, profile, cut, counts>> /\ Placing(p) /\ session \in Map
        BY <1>0, <1>2 DEF Check, Placing, Located, Ready, world, store
    <2>2. CASE Reply(p, "error") \/ Then(p, "find")
        <3>1. Only(p) /\ h'[p].pc \in Resting \cup {"find"}
            BY <1>a, <1>b, <2>2
        <3>2. Located(p)' /\ Lives(session)'
            BY <1>0, <1>2, <2>1, <3>1 DEF Check, Located, Lives
        <3>3. Unraced => Carried(p)' /\ Complete(session)'
            BY <1>0, <1>2, <2>1, <3>1, MapAssumption DEF Check, Carried, Complete
        <3> QED BY <2>1, <3>1, <3>2, <3>3, Decides
    <2>3. CASE Go(p, "remove")
        <3>1. Only(p) /\ h'[p] = State(p, "remove", h[p].map, h[p].rec, h[p].ret)
            BY <1>0, <2>3 DEF Ready, Only, State
        <3>2. Located(p)' /\ Placing(p)'
            BY <1>0, <1>2, <2>1, <3>1 DEF Check, Located, Placing, Lives, State
        <3>3. Unraced => Carried(p)'
            BY <1>0, <1>2, <2>1, <3>1, MapAssumption DEF Check, Carried, Complete, State
        <3> QED BY <3>1, <3>2, <3>3, Decides
    <2> QED BY <1>2, <2>2, <2>3 DEF Check
<1>3. CASE Remove(p)
    <2> DEFINE m == h[p].map
    <2>1. /\ UNCHANGED <<session, profile, cut>> /\ Placing(p)
          /\ session = m /\ m \in Map /\ copy[m] # Absent
        BY <1>0, <1>3 DEF Remove, Placing, Located, Lives, Ready, store
    <2>2. /\ Only(p) /\ h'[p] = State(p, "place", m, Record(h[p].to, copy[m]), h[p].ret)
          /\ copy' = [copy EXCEPT ![m] = Absent] /\ UNCHANGED counts
        BY <1>0, <1>3, <2>1 DEF Remove, Ready, Only, State
    <2>3. Located(p)' /\ Placing(p)'
        BY <1>0, <1>3, <2>1, <2>2, MapAssumption DEF Remove, Located, Placing, Lives, Globals, State
    <2>4. Unraced => Carried(p)'
        BY <1>0, <1>3, <2>1, <2>2, MapAssumption DEF Remove, Carried, Complete, Record, State
    <2> QED BY <2>2, <2>3, <2>4, Decides
<1>4. CASE Place(p)
    <2>1. /\ UNCHANGED <<session, profile, cut>> /\ Placing(p)
          /\ h[p].to \in Map /\ h[p].rec.data # Absent
        BY <1>0, <1>4 DEF Place, Placing, Ready, Recorded, store
    <2>2. /\ Only(p) /\ h'[p] = State(p, "reroute", h[p].map, h[p].rec, h[p].ret)
          /\ copy' = [copy EXCEPT ![h[p].to] = h[p].rec.data] /\ UNCHANGED counts
        BY <1>0, <1>4 DEF Place, AddOrRestore, Ready, Only, State
    <2>3. Located(p)' /\ Placing(p)'
        BY <1>0, <1>4, <2>1, <2>2, MapAssumption DEF Place, Located, Placing, Lives, Globals, State
    <2>4. Unraced => Carried(p)'
        BY <1>0, <1>4, <2>1, <2>2, MapAssumption DEF Place, Carried, Complete, Globals, State
    <2> QED BY <2>2, <2>3, <2>4, Decides
<1>5. CASE Reroute(p)
    <2>1. /\ Placing(p) /\ h[p].to \in Map /\ session' = h[p].to /\ UNCHANGED <<copy, profile, counts>>
        BY <1>0, <1>5 DEF Reroute, Placing, Located, Ready, store
    <2>2. Only(p) /\ h'[p] = State(p, "save1", h[p].map, h[p].rec, h[p].ret)
        BY <1>0, <1>5 DEF Reroute, Ready, Only, State
    <2>3. Located(p)' /\ Lives(session)'
        BY <1>0, <1>5, <2>1, <2>2 DEF Reroute, Located, Lives, State
    <2>4. Unraced => Carried(p)' /\ Complete(session)'
        BY <1>0, <1>5, <2>1, <2>2, MapAssumption DEF Reroute, Carried, Complete, State
    <2> QED BY <2>1, <2>2, <2>3, <2>4, Decides
<1> QED BY <1>1, <1>2, <1>3, <1>4, <1>5

\* persistSessionState reads and saves, and moves nobody.
LEMMA PersistKept ==
    ASSUME Undisturbed, NEW p \in Proc,
           Persist(p) \/ ReadProfile(p) \/ SaveProfile(p) \/ SaveHotSession(p)
    PROVE  Kept
<1> USE DEF At, Go, Resting, PlacingLabels, LogoutLabels, SwitchLabels, SaveLabels
<1>0. /\ Ready(p, h[p], counts.progress) /\ Globals /\ DOMAIN h = Proc
      /\ UNCHANGED <<session, copy, cut, counts>>
    BY DEF Undisturbed, Shape, Persist, ReadProfile, SaveProfile, SaveHotSession, world
<1>p. ~Placing(p) /\ h[p].pc \in PersistLabels /\ counts' \in Counts
    BY <1>0 DEF Placing, Globals, PersistLabels, Persist, ReadProfile, SaveProfile, SaveHotSession
<1>a. ASSUME Return(p)
      PROVE  Only(p) /\ h'[p].pc \in Resting \cup {"reply", "find", "call"}
    <2>1. counts.progress <= counts'.progress
        BY <1>0, BoundAssumption DEF Globals, Counts
    <2> QED BY <1>a, <1>p, <2>1, ReturnShape DEF Undisturbed, Informs
<1>1. CASE Persist(p)
    <2>1. Only(p) /\ h'[p].pc \in Resting \cup {"reply", "find", "call", "profile"}
        BY <1>0, <1>a, <1>1 DEF Persist, Ready, Only
    <2>2. ~Placing(p)' /\ h'[p].pc \notin SaveLabels
        BY <2>1 DEF Placing
    <2> QED BY <1>0, <1>p, <1>1, <2>1, <2>2, Idles DEF Persist, store
<1>2. CASE ReadProfile(p)
    <2> DEFINE m == h[p].rec.map
    <2>1. profile' = profile /\ m \in Map
        BY <1>0, <1>2 DEF ReadProfile, Ready, store
    <2>2. CASE Return(p)
        <3>1. Only(p) /\ ~Placing(p)' /\ h'[p].pc \notin SaveLabels
            BY <1>a, <2>2 DEF Placing
        <3> QED BY <1>0, <1>p, <2>1, <3>1, Idles
    <2>3. CASE /\ copy[m] # Absent
               /\ h' = [h EXCEPT ![p].pc = "save", ![p].rec = Record(m, copy[m])]
        <3>1. Only(p) /\ h'[p].pc = "save"
            BY <1>0, <2>3 DEF Ready, Only
        <3>2. ~Placing(p)'
            BY <3>1 DEF Placing
        <3>3. ASSUME NEW k \in MapOrNone, Lives(k) PROVE k # None
            BY <2>1, <2>3, <3>3, MapAssumption DEF Lives
        <3>4. \A k \in MapOrNone : Lives(k) /\ Complete(k) => Complete(k)'
            BY <1>0, <3>3 DEF Complete
        <3> QED BY <1>0, <1>p, <3>1, <3>2, <3>4, Leaves
    <2> QED BY <1>2, <2>2, <2>3 DEF ReadProfile
<1>3. CASE SaveProfile(p)
    <2>1. Only(p) /\ h'[p].pc = "saveHot" /\ ~NoSaves
        BY <1>0, <1>3 DEF SaveProfile, Ready, Only, NoSaves
    <2>2. ~Placing(p)'
        BY <2>1 DEF Placing
    <2>3. \A m \in MapOrNone : Complete(m) => Complete(m)'
        BY <1>0, <2>1 DEF Complete
    <2> QED BY <1>0, <1>p, <2>1, <2>2, <2>3, Leaves
<1>4. CASE SaveHotSession(p)
    <2>1. Only(p) /\ ~Placing(p)' /\ h'[p].pc \notin SaveLabels /\ profile' = profile
        BY <1>a, <1>4 DEF SaveHotSession, Placing
    <2> QED BY <1>0, <1>p, <2>1, Idles
<1> QED BY <1>1, <1>2, <1>3, <1>4

\* restoreSession adds a player that is in no world.
LEMMA RestoreKept ==
    ASSUME Undisturbed, ~Lost, NEW p \in Proc,
           \/ Find(p) \/ ShowRestored(p) \/ LoadHotSession(p) \/ LoadProfile(p)
           \/ Probe(p) \/ ReAdd(p) \/ Adopt(p)
    PROVE  Kept
<1> USE DEF At, Go, Resting, PlacingLabels, LogoutLabels, SwitchLabels, SaveLabels
<1>0. /\ Ready(p, h[p], counts.progress) /\ Globals /\ DOMAIN h = Proc
      /\ Located(p) /\ (Unraced => Carried(p)) /\ Absent \notin Nat
    BY DEF Undisturbed, Orderly, Unraced, Undone, Shape, Absent
<1>a. ASSUME Reply(p, "ok")
      PROVE  Only(p) /\ ~Placing(p)' /\ h'[p].pc \notin SaveLabels
    BY <1>a, <1>0 DEF Reply, Only, Idle, Fresh, Placing
<1>1. CASE Find(p)
    <2>1. UNCHANGED <<session, copy, profile, cut, counts>> /\ ~Placing(p)
        BY <1>1 DEF Find, Placing, world, store
    <2>2. CASE session # None
        BY <1>a, <1>1, <2>1, <2>2, Idles DEF Find
    <2>3. CASE session = None
        <3>1. Only(p) /\ h'[p].pc = "loadHot"
            BY <1>0, <1>1, <2>3 DEF Find, Ready, Only
        <3>2. Placing(p)'
            BY <3>1 DEF Placing
        <3>3. Lives(session) /\ (Unraced => Complete(session))
            BY <2>1, <3>1, <3>2, Entering
        <3>4. Located(p)'
            BY <2>1, <2>3, <3>1, <3>3 DEF Located, Lives
        <3>5. Unraced => Carried(p)'
            BY <2>1, <2>3, <3>1, <3>3 DEF Carried, Complete, NoSaves, Only
        <3> QED BY <3>1, <3>2, <3>4, <3>5, Decides
    <2> QED BY <2>2, <2>3
<1>2. CASE ShowRestored(p)
    <2>1. UNCHANGED <<session, copy, profile, cut, counts>> /\ ~Placing(p) /\ Reply(p, "ok")
        BY <1>2 DEF ShowRestored, Placing, world, store
    <2> QED BY <1>a, <2>1, Idles
<1>p. CASE ~(Find(p) \/ ShowRestored(p))
    <2>p. Placing(p)
        BY <1>p DEF Placing, LoadHotSession, LoadProfile, Probe, ReAdd, Adopt
    <2>1. CASE LoadHotSession(p)
        <3>1. Only(p) /\ h'[p] = State(p, "loadProfile", hot, h[p].rec, h[p].ret)
            BY <1>0, <2>1 DEF LoadHotSession, Ready, Only, State
        <3>2. UNCHANGED <<session, copy, profile, counts>>
            BY <2>1 DEF LoadHotSession, world, store
        <3>3. Located(p)' /\ Placing(p)'
            BY <1>0, <2>1, <3>1, <3>2 DEF LoadHotSession, Located, Placing, Lives, State
        <3>4. Unraced => Carried(p)'
            BY <1>0, <2>1, <3>1, <3>2 DEF LoadHotSession, Carried, Complete, NoSaves, Only, State
        <3> QED BY <2>p, <3>1, <3>3, <3>4, Decides
    <2>2. CASE LoadProfile(p)
        <3> DEFINE m == IF h[p].map = None THEN profile.map ELSE h[p].map
        <3>1. Only(p) /\ h'[p] = State(p, "probe", m, profile, h[p].ret)
            BY <1>0, <2>2 DEF LoadProfile, Ready, Only, State
        <3>2. UNCHANGED <<session, copy, profile, counts>>
            BY <2>2 DEF LoadProfile, world, store
        <3> HIDE DEF m
        <3>3. Located(p)' /\ Placing(p)'
            BY <1>0, <2>2, <3>1, <3>2 DEF LoadProfile, Located, Placing, Lives, State
        <3>4. Unraced => Carried(p)'
            BY <1>0, <2>2, <3>1, <3>2 DEF LoadProfile, Carried, Complete, NoSaves, Only, State
        <3> QED BY <2>p, <3>1, <3>3, <3>4, Decides
    <2>3. CASE Probe(p)
        <3>1. copy[h[p].map] = Absent
            BY <1>0, <2>3, MapAssumption DEF Probe, Ready, Located, Lives
        <3>2. Only(p) /\ h'[p] = State(p, "readd", h[p].map, h[p].rec, h[p].ret)
            BY <1>0, <2>3, <3>1 DEF Probe, Ready, Only, State
        <3>3. UNCHANGED <<session, copy, profile, counts>>
            BY <2>3 DEF Probe, world, store
        <3>4. Located(p)' /\ Placing(p)'
            BY <1>0, <2>3, <3>2, <3>3 DEF Probe, Located, Placing, Lives, State
        <3>5. Unraced => Carried(p)'
            BY <1>0, <2>3, <3>2, <3>3 DEF Probe, Carried, Complete, NoSaves, Only, State
        <3> QED BY <2>p, <3>2, <3>4, <3>5, Decides
    <2>4. CASE ReAdd(p)
        <3>1. Only(p) /\ h'[p] = State(p, "adopt", h[p].map, h[p].rec, h[p].ret)
            BY <1>0, <2>4 DEF ReAdd, Ready, Only, State
        <3>2. /\ UNCHANGED <<session, profile, counts>> /\ h[p].map \in Map
              /\ copy' = [copy EXCEPT ![h[p].map] = h[p].rec.data] /\ h[p].rec.data # Absent
            BY <1>0, <2>4 DEF ReAdd, AddOrRestore, store, Ready, Recorded
        <3>3. Located(p)' /\ Placing(p)'
            BY <1>0, <2>4, <3>1, <3>2, MapAssumption DEF ReAdd, Located, Placing, Lives, Globals, State
        <3>4. Unraced => Carried(p)'
            BY <1>0, <2>4, <3>1, <3>2, MapAssumption DEF ReAdd, Carried, Complete, Globals, State
        <3> QED BY <2>p, <3>1, <3>3, <3>4, Decides
    <2>5. CASE Adopt(p)
        <3>1. session = None /\ h[p].map \in Map /\ UNCHANGED <<copy, profile, counts>>
            BY <1>0, <2>5 DEF Adopt, Located, Ready, store
        <3>2. /\ session' = h[p].map /\ Only(p)
              /\ h'[p] = State(p, "persist", h[p].map, NoRecord, h[p].ret)
            BY <1>0, <2>5, <3>1 DEF Adopt, Ready, Only, State
        <3>3. Located(p)' /\ Lives(session)'
            BY <1>0, <2>5, <3>1, <3>2 DEF Adopt, Located, Lives, State
        <3>4. Unraced => Carried(p)' /\ Complete(session)'
            BY <1>0, <2>5, <3>1, <3>2, MapAssumption DEF Adopt, Carried, Complete, State
        <3> QED BY <2>p, <3>2, <3>3, <3>4, Decides
    <2> QED BY <1>p, <2>1, <2>2, <2>3, <2>4, <2>5
<1> QED BY <1>1, <1>2, <1>p

\* flushLoop begins a round.
LEMMA FlushKept ==
    ASSUME Undisturbed, StartFlush
    PROVE  Kept
<1>1. Flush \in Proc /\ DOMAIN h = Proc /\ UNCHANGED <<session, copy, profile, cut, counts>>
    BY DEF Undisturbed, Shape, StartFlush, Proc, world, store
<1>2. Only(Flush) /\ h[Flush].pc = "idle" /\ h'[Flush].pc = "persist"
    BY <1>1 DEF StartFlush, Only, Idle, Fresh
<1>3. ~Placing(Flush) /\ ~Placing(Flush)' /\ h'[Flush].pc \notin SaveLabels
    BY <1>2 DEF Placing, PlacingLabels, LogoutLabels, SwitchLabels, SaveLabels
<1> QED BY <1>1, <1>2, <1>3, Idles

-----------------------------------------------------------------------------
(* The invariant. *)

\* There are finitely many goroutines: two for each connection and flushLoop.
LEMMA FiniteProc == IsFiniteSet(Proc)
<1>1. IsFiniteSet({Cmd(c) : c \in Conn}) /\ IsFiniteSet({Tick(c) : c \in Conn})
    <2>1. IsFiniteSet(Conn)
        BY ConnAssumption
    <2> DEFINE f == [c \in Conn |-> Cmd(c)]
               g == [c \in Conn |-> Tick(c)]
    <2>2. f \in Surjection(Conn, {Cmd(c) : c \in Conn})
        BY DEF Surjection
    <2>3. g \in Surjection(Conn, {Tick(c) : c \in Conn})
        BY DEF Surjection
    <2> HIDE DEF f, g
    <2> QED BY <2>1, <2>2, <2>3, FS_Surjection
<1>2. IsFiniteSet({Flush})
    BY FS_Singleton
<1> QED BY <1>1, <1>2, FS_Union DEF Proc

\* What has not been disturbed or raced had not been before, and neither by this step.
LEMMA Observed ==
    ASSUME Shape, Observe, ~disturbed'
    PROVE  /\ ~disturbed /\ OneByOne'
           /\ counts'.failures = counts.failures /\ counts'.crashes = counts.crashes
           /\ ~raced' => ~raced /\ QuietLogout'
<1>1. ~disturbed /\ counts'.failures = counts.failures /\ counts'.crashes = counts.crashes
    BY Zenon DEF Observe
<1> DEFINE S == {p \in Proc : h'[p].pc \in PlacingLabels}
<1>2. ~(Cardinality(S) > 1)
    BY Zenon DEF Observe
<1>3. ASSUME NEW p \in Proc, NEW q \in Proc, Placing(p)', Placing(q)', p # q PROVE FALSE
    <2>1. {p, q} \subseteq S
        BY <1>3 DEF Placing
    <2>2. IsFiniteSet(S)
        BY FiniteProc, FS_Subset
    <2> HIDE DEF S
    <2>3. Cardinality({p, q}) <= Cardinality(S)
        BY <2>1, <2>2, FS_Subset
    <2>4. Cardinality({p}) = 1 /\ IsFiniteSet({p})
        BY FS_Singleton
    <2>5. Cardinality({p} \cup {q}) = 2
        BY <1>3, <2>4, FS_AddElement
    <2>6. {p} \cup {q} = {p, q}
        OBVIOUS
    <2>7. Cardinality(S) \in Nat
        BY <2>2, FS_CardinalityType
    <2> QED BY <1>2, <2>3, <2>5, <2>6, <2>7
<1>4. OneByOne'
    BY <1>3 DEF OneByOne
<1>5. ASSUME ~raced' PROVE ~raced /\ QuietLogout'
    BY <1>5, Zenon DEF Observe, QuietLogout, NoSaves
<1> QED BY <1>1, <1>4, <1>5

\* The invariant holds at first ...
LEMMA InitInvariant == Init => IInv
<1> SUFFICES ASSUME Init PROVE IInv
    OBVIOUS
<1>1. Shape
    BY InitShape
<1>2. \A p \in Proc : h[p].pc = "idle"
    BY DEF Init, Idle, Fresh
<1>3. Lives(session)
    BY MapAssumption DEF Init, Lives
<1>4. Complete(session)
    BY <1>2 DEF Init, Complete, NoSaves, SaveLabels, Record
<1>5. \A p \in Proc : Located(p) /\ Carried(p) /\ ~Placing(p)
    BY <1>2 DEF Located, Carried, Placing, PlacingLabels, LogoutLabels, SwitchLabels
<1> QED BY <1>1, <1>3, <1>4, <1>5 DEF IInv, Orderly, Undone, OneByOne

\* No step of a handler moves the player out of turn.
LEMMA HandlerKept ==
    ASSUME Undisturbed, ~Lost, NEW p \in Proc, Handler(p)
    PROVE  Kept
BY LoginKept, LogoutKept, CommandKept, SwitchKept, PersistKept, RestoreKept DEF Handler

\* ... and every step keeps it ...
LEMMA NextInvariant == IInv /\ [Next]_vars => IInv'
<1> SUFFICES ASSUME IInv, [Next]_vars PROVE IInv'
    OBVIOUS
<1>1. Shape /\ Shape'
    BY NextShape DEF IInv
<1>2. CASE UNCHANGED vars
    <2>1. UNCHANGED <<session, copy, profile, hot, h, cut, counts, disturbed, raced>>
        BY <1>2 DEF vars, world, store
    <2>2. (Orderly => Orderly') /\ (Undone => Undone')
        BY <2>1 DEF Orderly, OneByOne, Settled, Placing, Located, Lives, Undone, Carried, Complete, NoSaves
    <2> QED BY <1>1, <2>1, <2>2, Zenon DEF IInv
<1>3. CASE Next
    <2> SUFFICES ASSUME ~disturbed' PROVE Orderly' /\ (~raced' => Undone')
        BY <1>1, Zenon DEF IInv
    <2>1. /\ ~disturbed /\ OneByOne'
          /\ counts'.failures = counts.failures /\ counts'.crashes = counts.crashes
          /\ ~raced' => ~raced /\ QuietLogout'
        BY <1>1, <1>3, Observed DEF Next
    <2>2. Undisturbed
        BY <1>1, <2>1, Zenon DEF IInv, Undisturbed
    <2>3. ~Lost
        BY <1>1, <2>1, NoLoss
    <2>4. ~Failover
        <3>1. counts \in Counts /\ counts.crashes \in Nat
            BY <1>1 DEF Shape, Globals, Counts
        <3> DEFINE n == counts.crashes
        <3>2. Failover => counts'.crashes = n + 1
            BY <3>1 DEF Failover, Counts
        <3>3. n \in Nat /\ counts'.crashes = n
            BY <2>1, <3>1
        <3> HIDE DEF n
        <3> QED BY <3>2, <3>3
    <2>5. Kept
        <3>1. CASE \E c \in Conn : Gateway(c)
            BY <2>2, <3>1, GatewayKept
        <3>2. ASSUME NEW p \in Proc, Handler(p) PROVE Kept
            BY <2>2, <2>3, <3>2, HandlerKept
        <3>3. CASE StartFlush
            BY <2>2, <3>3, FlushKept
        <3> QED BY <1>3, <2>3, <2>4, <3>1, <3>2, <3>3 DEF Next, CallFails
    <2>6. ~raced' => Unraced
        BY <2>1, Zenon DEF IInv, Unraced
    <2> QED BY <2>5, <2>6, Zenon DEF Kept
<1> QED BY <1>2, <1>3

\* ... so it always holds.
LEMMA Invariant == Spec => []IInv
BY InitInvariant, NextInvariant, PTL DEF Spec

\* In every behaviour, with any failures and overlaps, each handler works on what
\* it has read: what is saved or added anywhere is a record of an existing map,
\* with data of some command that was carried out.
THEOREM TypeCorrect == Spec => []TypeOK
<1>1. Shape => TypeOK
    <2> SUFFICES ASSUME Shape PROVE TypeOK
        OBVIOUS
    <2>1. counts.progress \in 0..MaxProgress /\ MaxProgress \in Nat
        BY BoundAssumption DEF Shape, Globals, Counts
    <2>2. 0..counts.progress \subseteq 0..MaxProgress
        BY <2>1
    <2>3. Recorded(counts.progress) \subseteq [map : Map, data : 0..MaxProgress]
        BY <2>2 DEF Recorded
    <2>4. ASSUME NEW p \in Proc
          PROVE  /\ h[p].map \in Map \cup {None} /\ h[p].to \in Map \cup {None}
                 /\ h[p].rec \in [map : Map \cup {None}, data : {Absent} \cup 0..MaxProgress]
                 /\ h[p].ret \in {"find", "call", "reply", "end"}
                 /\ h[p].pc \in SaveLabels \cup {"place", "save2"} =>
                        h[p].rec \in [map : Map, data : 0..MaxProgress]
        <3>1. Ready(p, h[p], counts.progress)
            BY DEF Shape
        <3> QED BY <2>2, <2>3, <3>1 DEF Ready, MapOrNone, SaveLabels
    <2> QED BY <2>2, <2>3, <2>4 DEF Shape, Globals, TypeOK, MapOrNone, Recorded
<1> QED BY <1>1, Invariant, PTL DEF IInv

\* As long as no two operations that decide where the player is overlap and
\* nothing fails, the player is in one world at most, whatever commands, snapshots
\* and flushes run in between (restoreSession, SwitchMap, Login, Logout).
THEOREM OneWorld == Spec => []UniqueHome
<1>1. IInv => UniqueHome
    <2> SUFFICES ASSUME Orderly PROVE \E k : Lives(k)
        BY Zenon DEF IInv, UniqueHome, Lives
    <2>1. CASE Settled
        BY <2>1 DEF Orderly
    <2>2. ASSUME NEW p \in Proc, Placing(p) PROVE \E k : Lives(k)
        BY <2>2 DEF Orderly, Located, Placing, PlacingLabels, LogoutLabels, SwitchLabels
    <2> QED BY <2>1, <2>2 DEF Settled, Placing
<1> QED BY <1>1, Invariant, PTL

\* ... outside these operations it is in the world that its session names, and in
\* none without a session ...
THEOREM CommandsFindThePlayer == Spec => []RoutedHome
<1>1. IInv => RoutedHome
    BY Zenon DEF IInv, Orderly, Lives, RoutedHome
<1> QED BY <1>1, Invariant, PTL

\* ... and unless a logout also overtakes a save of older data, no command that
\* was carried out is undone: that world, or after the logout the store, has all.
THEOREM NothingUndone == Spec => []ProgressKept
<1>1. IInv => ProgressKept
    <2> SUFFICES ASSUME Settled, Undone PROVE counts.progress = IF session = None THEN profile.data ELSE copy[session]
        BY Zenon DEF IInv, ProgressKept
    <2> QED BY DEF Undone, Complete
<1> QED BY <1>1, Invariant, PTL
=============================================================================
