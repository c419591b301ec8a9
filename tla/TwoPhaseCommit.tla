--------------------------- MODULE TwoPhaseCommit ---------------------------
(***************************************************************************)
(* The two-phase commit engine of ch5/exp6_bonus: one plan, run by          *)
(* scenario.runCore over core.Coordinator and core.Worker.                  *)
(*                                                                          *)
(* Each worker votes in a goroutine of its own; the coordinator counts the  *)
(* votes until all are in or the deadline fires, logs its decision, may     *)
(* crash before or after that, and broadcasts.  Workers wait for the        *)
(* decision in another goroutine each, for a bounded time.                  *)
(*                                                                          *)
(* A deadline may fire at any time.  A wait for a decision gives up only    *)
(* while there is none in its channel.  Any write of a log may fail if      *)
(* DiskMayFail.                                                             *)
(***************************************************************************)
EXTENDS FiniteSets

CONSTANTS
    Worker,
    Plan,           \* the configurations a run may start with (coreSpec)
    DiskMayFail     \* whether StableLogger.Persist may return an error

Answers == {"yes", "no", "silent"}
Crashes == {"never", "beforeVote", "afterDecision"}

ASSUME PlanAssumption ==
    Plan \subseteq [answer : [Worker -> Answers], crash : Crashes, recover : BOOLEAN]
ASSUME DiskAssumption == DiskMayFail \in BOOLEAN

VARIABLES
    plan,       \* the coreSpec of this run
    pc,         \* where runCore stands
    cState,     \* Coordinator.State
    decided,    \* the last DECISION in the coordinator's log, or "none"
    allCommit,  \* runCore's local of that name
    counted,    \* workers whose vote was received
    state,      \* Worker.State
    ballot,     \* the vote goroutine: "none", "asked", or what it answered
    inbox,      \* workers whose answer is in voteCh
    ch,         \* DecisionCh, of capacity one: "none" or a decision
    waiter,     \* the goroutine in AwaitDecisionBlocking
    timer       \* workers whose AbortIfInitTimeout has yet to act

coordVars == <<plan, pc, cState, decided, allCommit, counted>>
voteVars == <<ballot, inbox>>
vars == <<coordVars, voteVars, state, ch, waiter, timer>>

PlanState == {"INIT", "WAIT", "READY", "COMMIT", "ABORT"}
Decision == {"COMMIT", "ABORT"}

Init ==
    /\ plan \in Plan
    /\ pc = "start"
    /\ cState = "INIT"
    /\ decided = "none"
    /\ allCommit = TRUE
    /\ counted = {}
    /\ state = [w \in Worker |-> "INIT"]
    /\ ballot = [w \in Worker |-> "none"]
    /\ inbox = {}
    /\ ch = [w \in Worker |-> "none"]
    /\ waiter = [w \in Worker |-> "off"]
    /\ timer = {}

-----------------------------------------------------------------------------
\* The possible results of Persist.
Persist == {TRUE} \cup (IF DiskMayFail THEN {FALSE} ELSE {})

transitionAllowed(from, to) ==
    \/ from = "INIT" /\ to \in {"WAIT", "READY", "ABORT"}
    \/ from \in {"WAIT", "READY"} /\ to \in Decision

\* Where TransitionState may leave a node, and whether it reports success: the
\* write before the move, or the one after it, may have failed.
TransitionState(from, to) ==
    IF from = to THEN {[at |-> from, ok |-> TRUE]}
    ELSE IF ~ transitionAllowed(from, to) THEN {[at |-> from, ok |-> FALSE]}
    ELSE {[at |-> to, ok |-> ok] : ok \in Persist}
         \cup {[at |-> from, ok |-> ok] : ok \in Persist \ {TRUE}}

\* BroadcastDecision: a full channel keeps what it holds.
DeliverGlobalDecision(d) ==
    ch' = [w \in Worker |-> IF ch[w] = "none" THEN d ELSE ch[w]]

\* awaitWorkersDecision: every worker gets a goroutine that waits.
AwaitAll == waiter' = [w \in Worker |-> "started"]

\* An error return of runCore. What its goroutines do goes on.
Fail == pc' = "failed"

-----------------------------------------------------------------------------
(* The coordinator. *)

\* The coordinator crashes before it asks; the workers watch their INIT timers.
CrashBeforeVote ==
    /\ pc = "start" /\ plan.crash = "beforeVote"
    /\ \/ pc' = "down" /\ timer' = Worker
       \/ DiskMayFail /\ Fail /\ UNCHANGED timer
    /\ UNCHANGED <<plan, cState, decided, allCommit, counted, voteVars, state, ch, waiter>>

\* runCore slept longer than the timers; it does not look whether they acted.
ReportCrash ==
    /\ pc = "down" /\ pc' = "done"
    /\ UNCHANGED <<plan, cState, decided, allCommit, counted, voteVars, state, ch, waiter, timer>>

\* INIT to WAIT, and one goroutine per worker to vote.
SendVoteReq ==
    /\ pc = "start" /\ plan.crash # "beforeVote"
    /\ \E r \in TransitionState(cState, "WAIT") :
          /\ cState' = r.at
          /\ IF r.ok THEN pc' = "collect" /\ ballot' = [w \in Worker |-> "asked"]
             ELSE Fail /\ UNCHANGED ballot
    /\ UNCHANGED <<plan, decided, allCommit, counted, inbox, state, ch, waiter, timer>>

\* A coordinator that counts silence as an answer.
CollectVote_SilenceCounts(w) ==
    /\ pc = "collect" /\ w \in inbox
    /\ inbox' = inbox \ {w}
    /\ counted' = IF ballot[w] # "error" THEN counted \cup {w} ELSE counted
    /\ allCommit' = (allCommit /\ ballot[w] # "no")
    /\ pc' = CASE ballot[w] = "error" -> "failed"
               [] ballot[w] # "error" /\ counted' = Worker -> "decide"
               [] OTHER -> "collect"
    /\ UNCHANGED <<plan, cState, decided, ballot, state, ch, waiter, timer>>

\* An answer is received. Silence is an answer that counts for nothing, an error
\* ends the run.
CollectVote(w) ==
    /\ pc = "collect" /\ w \in inbox
    /\ inbox' = inbox \ {w}
    /\ counted' = IF ballot[w] \in {"yes", "no"} THEN counted \cup {w} ELSE counted
    /\ allCommit' = (allCommit /\ ballot[w] # "no")
    /\ pc' = CASE ballot[w] = "error" -> "failed"
               [] ballot[w] # "error" /\ counted' = Worker -> "decide"
               [] OTHER -> "collect"
    /\ UNCHANGED <<plan, cState, decided, ballot, state, ch, waiter, timer>>

\* A deadline that forgets to clear allCommit.
Deadline_Optimistic ==
    /\ pc = "collect" /\ pc' = "decide"
    /\ UNCHANGED <<plan, cState, decided, allCommit, counted, voteVars, state, ch, waiter, timer>>

\* A deadline that is looked at only when an answer has come.
Deadline_OnAnswer ==
    /\ pc = "collect" /\ inbox # {}
    /\ pc' = "decide" /\ allCommit' = FALSE
    /\ UNCHANGED <<plan, cState, decided, counted, voteVars, state, ch, waiter, timer>>

\* phase1Timeout, whatever is still in voteCh.
Deadline ==
    /\ pc = "collect"
    /\ pc' = "decide" /\ allCommit' = FALSE
    /\ UNCHANGED <<plan, cState, decided, counted, voteVars, state, ch, waiter, timer>>

\* Logging the coordinator's state for its decision.
PersistDecision_State ==
    /\ pc = "decide"
    /\ decided' = cState
    /\ pc' = "broadcast"
    /\ UNCHANGED <<plan, cState, allCommit, counted, voteVars, state, ch, waiter, timer>>

\* The decision goes to the log, and then perhaps the coordinator goes down,
\* with the workers waiting.
PersistDecision ==
    /\ pc = "decide"
    /\ \/ /\ decided' = IF allCommit THEN "COMMIT" ELSE "ABORT"
          /\ IF plan.crash = "afterDecision"
             THEN \/ pc' = "crashed" /\ AwaitAll
                  \/ DiskMayFail /\ Fail /\ UNCHANGED waiter
             ELSE pc' = "broadcast" /\ UNCHANGED waiter
       \/ DiskMayFail /\ Fail /\ UNCHANGED <<decided, waiter>>
    /\ UNCHANGED <<plan, cState, allCommit, counted, voteVars, state, ch, timer>>

\* Broadcast d, then move the coordinator itself; an error in that ends the run
\* with the decision in the channels and nobody waiting for it.
Conclude(from, d) ==
    /\ DeliverGlobalDecision(d)
    /\ \E r \in TransitionState(from, d) :
          /\ cState' = r.at
          /\ IF r.ok THEN pc' = "await" /\ AwaitAll ELSE Fail /\ UNCHANGED waiter
    /\ UNCHANGED <<plan, decided, allCommit, counted, voteVars, state, timer>>

Broadcast ==
    /\ pc = "broadcast"
    /\ Conclude(cState, IF allCommit THEN "COMMIT" ELSE "ABORT")

\* A recovery that concludes without telling the workers.
RecoverAndReplay_Silent ==
    /\ pc = "recover"
    /\ cState' = decided /\ pc' = "await" /\ AwaitAll
    /\ UNCHANGED <<plan, decided, allCommit, counted, voteVars, state, ch, timer>>

\* RecoverAndReplay: a new coordinator starts in WAIT with the logged decision.
RecoverAndReplay ==
    /\ pc = "recover"
    /\ \/ decided # "none" /\ Conclude("WAIT", decided)
       \/ /\ DiskMayFail \/ decided = "none"
          /\ Fail
          /\ UNCHANGED <<plan, cState, decided, allCommit, counted, voteVars, state, ch, waiter, timer>>

\* All goroutines of awaitWorkersDecision are back.
AwaitDone ==
    /\ pc \in {"crashed", "await"}
    /\ \A w \in Worker : waiter[w] = "back"
    /\ pc' = IF pc = "crashed" /\ plan.recover THEN "recover" ELSE "done"
    /\ UNCHANGED <<plan, cState, decided, allCommit, counted, voteVars, state, ch, waiter, timer>>

-----------------------------------------------------------------------------
(* The workers. *)

\* OnVoteReq and the send on voteCh. A silent worker leaves its state alone.
OnVoteReq(w) ==
    /\ ballot[w] = "asked"
    /\ \/ /\ plan.answer[w] = "silent"
          /\ ballot' = [ballot EXCEPT ![w] = "silent"]
          /\ UNCHANGED state
       \/ /\ plan.answer[w] # "silent"
          /\ \E r \in TransitionState(state[w], IF plan.answer[w] = "yes" THEN "READY" ELSE "ABORT") :
                /\ state' = [state EXCEPT ![w] = r.at]
                /\ ballot' = [ballot EXCEPT ![w] = IF r.ok THEN plan.answer[w] ELSE "error"]
    /\ inbox' = inbox \cup {w}
    /\ UNCHANGED <<coordVars, ch, waiter, timer>>

\* AwaitDecisionBlocking: a worker that is not READY returns at once.
StartWaiting(w) ==
    /\ waiter[w] = "started"
    /\ waiter' = [waiter EXCEPT ![w] = IF state[w] = "READY" THEN "waits" ELSE "back"]
    /\ UNCHANGED <<coordVars, voteVars, state, ch, timer>>

\* The decision arrives. An error of the transition is ignored, and the decision
\* is gone from the channel all the same.
ReceiveDecision(w) ==
    /\ waiter[w] = "waits" /\ ch[w] # "none"
    /\ ch' = [ch EXCEPT ![w] = "none"]
    /\ \E r \in TransitionState(state[w], IF ch[w] = "COMMIT" THEN "COMMIT" ELSE "ABORT") :
          state' = [state EXCEPT ![w] = r.at]
    /\ waiter' = [waiter EXCEPT ![w] = "back"]
    /\ UNCHANGED <<coordVars, voteVars, timer>>

\* A worker that rolls back when its wait times out.
StopWaiting_RollBack(w) ==
    /\ waiter[w] = "waits" /\ ch[w] = "none"
    /\ state' = [state EXCEPT ![w] = "ABORT"]
    /\ waiter' = [waiter EXCEPT ![w] = "back"]
    /\ UNCHANGED <<coordVars, voteVars, ch, timer>>

\* It does not arrive in time.
StopWaiting(w) ==
    /\ waiter[w] = "waits" /\ ch[w] = "none"
    /\ waiter' = [waiter EXCEPT ![w] = "back"]
    /\ UNCHANGED <<coordVars, voteVars, state, ch, timer>>

\* AbortIfInitTimeout acts once.
AbortIfInitTimeout(w) ==
    /\ w \in timer
    /\ timer' = timer \ {w}
    /\ \/ /\ state[w] = "INIT"
          /\ \E r \in TransitionState(state[w], "ABORT") : state' = [state EXCEPT ![w] = r.at]
       \/ state[w] # "INIT" /\ UNCHANGED state
    /\ UNCHANGED <<coordVars, voteVars, ch, waiter>>

-----------------------------------------------------------------------------
Coordinator ==
    \/ CrashBeforeVote \/ ReportCrash
    \/ SendVoteReq \/ (\E w \in Worker : CollectVote(w)) \/ Deadline
    \/ PersistDecision \/ Broadcast \/ RecoverAndReplay \/ AwaitDone

Waiter(w) == StartWaiting(w) \/ ReceiveDecision(w) \/ StopWaiting(w)

Next == Coordinator \/ \E w \in Worker : OnVoteReq(w) \/ Waiter(w) \/ AbortIfInitTimeout(w)

Spec == Init /\ [][Next]_vars

\* The driver and the goroutines it waits for keep running. A vote may take any
\* time or forever.
FairSpec == Spec /\ WF_vars(Coordinator) /\ \A w \in Worker : WF_vars(Waiter(w))

-----------------------------------------------------------------------------
(* Properties. *)

TypeOK ==
    /\ plan \in Plan
    /\ pc \in {"start", "down", "collect", "decide", "broadcast", "crashed", "recover",
               "await", "done", "failed"}
    /\ cState \in PlanState \ {"READY"}
    /\ decided \in Decision \cup {"none"}
    /\ allCommit \in BOOLEAN
    /\ counted \subseteq Worker
    /\ state \in [Worker -> PlanState \ {"WAIT"}]
    /\ ballot \in [Worker -> Answers \cup {"none", "asked", "error"}]
    /\ inbox \subseteq Worker
    /\ ch \in [Worker -> Decision \cup {"none"}]
    /\ waiter \in [Worker -> {"off", "started", "waits", "back"}]
    /\ timer \subseteq Worker

\* All or nothing: no worker rolls back what another has committed, whatever
\* order votes, deadlines, crashes, replays and failing logs come in.
Agreement == \A v, w \in Worker : ~ (state[v] = "COMMIT" /\ state[w] = "ABORT")

\* A READY worker acts on the logged decision alone: nobody commits or rolls
\* back on their own while they wait, not even when the wait times out.
ReadyWaits ==
    [][\A w \in Worker : state[w] = "READY" /\ state'[w] # "READY" => state'[w] = decided]_vars

\* The engine implements an atomic commit whose outcome is the DECISION record
\* of the coordinator's log.
StageOf == [INIT |-> "works", READY |-> "prepared", COMMIT |-> "commit", ABORT |-> "abort"]
OutcomeOf == [none |-> "open", COMMIT |-> "commit", ABORT |-> "abort"]

AC == INSTANCE AtomicCommit WITH
          Participant <- Worker,
          outcome <- OutcomeOf[decided],
          stage <- [w \in Worker |-> StageOf[state[w]]]

\* Every step of the engine is a step of the abstract commit, or none of it.
Atomic == AC!Spec

\* A logged COMMIT reaches every worker, also through a crash before the
\* broadcast and a replay from the log.
CommitReaches == decided = "COMMIT" ~> \A w \in Worker : state[w] = "COMMIT"

\* A run ends, whoever is silent and whatever crashes: the coordinator's deadline
\* and the bounded waits see to that.
RunEnds == <>(pc \in {"done", "failed"})

\* What scenarios.go:131 says of an abort after a timeout, "all groups roll back":
\* when the run has ended with ABORT, no worker is left prepared.
AllRolledBack == pc = "done" /\ decided = "ABORT" /\ cState = "ABORT"
                     => \A w \in Worker : state[w] # "READY"
=============================================================================
