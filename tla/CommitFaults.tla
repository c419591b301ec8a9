---------------------------- MODULE CommitFaults ----------------------------
(* The five programs of ch5/exp6, each one two-phase commit with a coordi- *)
(* nator, workers in goroutines of their own and unbuffered channels:      *)
(*   src/CourseCode/ch5/exp6/normal, fault_a, fault_b, fault_c, fault_d    *)
(* `scenario` is the program; they share their workers, the broadcast and  *)
(* the table of states, and differ in who answers what, in the tally and   *)
(* in what befalls the coordinator.                                        *)
EXTENDS Naturals, Sequences, FiniteSets, SequencesExt

CONSTANTS Scenarios,   \* the programs to run
          Workers,     \* the workers, in the order the coordinator asks them
          Odd          \* the worker that refuses or is silent: database B

Worker == ToSet(Workers)

ScriptAssumption ==
  /\ Scenarios \subseteq {"normal", "fault_a", "fault_b", "fault_c", "fault_d"}
  /\ Workers \in Seq(Worker) /\ IsInjective(Workers) /\ Odd \in Worker

VARIABLES scenario,
          cpc,       \* where runCoordinator is
          next,      \* the worker to ask, mark or tell next
          coord,     \* clusterState.coord.State
          state,     \* clusterState.workers[i].State
          wpc,       \* where each worker's goroutine is
          onWay,     \* answers between a worker and votes
          votes,     \* votes[w.Name]
          told,      \* the decision a worker has received and not yet shown
          acks,      \* closed Ack channels
          decided,   \* the decision that the coordinator has taken
          log        \* coordinator.log

cvars == <<cpc, next, coord, decided, log>>
wvars == <<wpc, onWay, votes, told, acks>>
vars  == <<scenario, cvars, state, wvars>>

Done(w) == votes[w] # "none"

TypeOK == /\ scenario \in Scenarios
          /\ cpc \in {"start", "ask", "collect", "mark", "decide", "log", "down",
                      "recover", "tell", "wait", "done"}
          /\ next \in 1..Len(Workers)
          /\ coord \in {"INIT", "WAIT", "COMMIT", "ABORT", "DOWN"}
          /\ state \in [Worker -> {"INIT", "READY", "COMMIT", "ABORT"}]
          /\ wpc \in [Worker -> {"select", "vote", "show", "gone"}]
          /\ onWay \in [Worker -> {"none", "yes", "no"}]
          /\ votes \in [Worker -> {"none", "yes", "no"}]
          /\ told \in [Worker -> {"none", "COMMIT", "ABORT"}]
          /\ acks \subseteq Worker
          /\ decided \in {"open", "COMMIT", "ABORT"}
          /\ log \in {"none", "COMMIT"}

\* newClusterState and the channels that main makes.
Init == /\ scenario \in Scenarios
        /\ cpc = "start" /\ next = 1 /\ coord = "INIT" /\ decided = "open"
        /\ log = "none" /\ state = [w \in Worker |-> "INIT"]
        /\ wpc = [w \in Worker |-> "select"]
        /\ onWay = [w \in Worker |-> "none"] /\ votes = [w \in Worker |-> "none"]
        /\ told = [w \in Worker |-> "none"] /\ acks = {}

(* ---------------------- the workers of each program -------------------- *)

AllYes(w)    == "yes"
OneNo(w)     == IF w = Odd THEN "no" ELSE "yes"
OneSilent(w) == IF w = Odd THEN "silent" ELSE "yes"
Behavior(w)  == CASE scenario = "fault_a" -> OneNo(w)
                  [] scenario = "fault_b" -> OneSilent(w)
                  [] OTHER -> AllYes(w)

(* ---------------------------- the workers ------------------------------ *)

\* runWorker: show the vote in the table and answer.
Vote(w) ==
  /\ wpc[w] = "vote"
  /\ state' = [state EXCEPT ![w] = IF Behavior(w) = "no" THEN "ABORT" ELSE "READY"]
  /\ onWay' = [onWay EXCEPT ![w] = Behavior(w)]
  /\ wpc' = [wpc EXCEPT ![w] = "select"]
  /\ UNCHANGED <<scenario, cvars, votes, told, acks>>

\* runWorker: show the decision, then close the acknowledgement.
Show(w) ==
  /\ wpc[w] = "show"
  /\ state' = [state EXCEPT ![w] = told[w]]
  /\ acks' = acks \cup {w}
  /\ wpc' = [wpc EXCEPT ![w] = "select"]
  /\ UNCHANGED <<scenario, cvars, onWay, votes, told>>

\* main has closed w.Done.
Leave(w) ==
  /\ cpc = "done" /\ wpc[w] = "select"
  /\ wpc' = [wpc EXCEPT ![w] = "gone"]
  /\ UNCHANGED <<scenario, cvars, state, onWay, votes, told, acks>>

(* --------------------------- the coordinator --------------------------- *)

\* setCoord(stateWait), or the crash of fault_c before any request.
Begin ==
  /\ cpc = "start"
  /\ IF scenario = "fault_c" THEN coord' = "DOWN" /\ cpc' = "down"
                             ELSE coord' = "WAIT" /\ cpc' = "ask"
  /\ state' = [w \in Worker |-> "INIT"]
  /\ UNCHANGED <<scenario, next, decided, log, wvars>>

\* A send on an unbuffered channel needs the worker in its select. A silent
\* worker takes the request and goes back to it.
Ask ==
  /\ cpc = "ask" /\ wpc[Workers[next]] = "select"
  /\ wpc' = [wpc EXCEPT ![Workers[next]] =
               IF Behavior(Workers[next]) = "silent" THEN "select" ELSE "vote"]
  /\ IF next = Len(Workers) THEN cpc' = "collect" /\ next' = 1
                            ELSE next' = next + 1 /\ UNCHANGED cpc
  /\ UNCHANGED <<scenario, coord, decided, log, state, onWay, votes, told, acks>>

Collect(w) ==
  /\ cpc = "collect" /\ onWay[w] # "none" /\ \E v \in Worker : ~Done(v)
  /\ votes' = [votes EXCEPT ![w] = onWay[w]]
  /\ onWay' = [onWay EXCEPT ![w] = "none"]
  /\ UNCHANGED <<scenario, cvars, state, wpc, told, acks>>

EndCollect ==
  /\ cpc = "collect" /\ \A w \in Worker : Done(w)
  /\ cpc' = "mark"
  /\ UNCHANGED <<scenario, next, coord, decided, log, state, wvars>>

Timeout_Once ==
  /\ cpc = "collect" /\ scenario = "fault_b" /\ \A w \in Worker : ~Done(w)
  /\ \A w \in Worker : Behavior(w) # "silent" => onWay[w] # "none"
  /\ cpc' = "mark"
  /\ UNCHANGED <<scenario, next, coord, decided, log, state, wvars>>
\* Only fault_b waits with a timeout, anew for every vote.
Timeout ==
  /\ cpc = "collect" /\ scenario = "fault_b" /\ \E w \in Worker : ~Done(w)
  /\ cpc' = "mark"
  /\ UNCHANGED <<scenario, next, coord, decided, log, state, wvars>>

\* The coordinator writes the states itself, those of the silent included.
MarkedAs_Vote(w) == IF Done(w) THEN votes[w] ELSE "READY"
MarkedAs(w) == IF votes[w] = "no" THEN "ABORT" ELSE "READY"
Mark ==
  /\ cpc = "mark"
  /\ state' = [state EXCEPT ![Workers[next]] = MarkedAs(Workers[next])]
  /\ IF next = Len(Workers) THEN cpc' = "decide" /\ next' = 1
                            ELSE next' = next + 1 /\ UNCHANGED cpc
  /\ UNCHANGED <<scenario, coord, decided, log, wvars>>

Decide(d, step) ==
  /\ cpc = "decide" /\ decided' = d /\ coord' = d /\ cpc' = step
  /\ UNCHANGED <<scenario, next, log, state, wvars>>

HasNo == \E w \in Worker : votes[w] = "no"

DecideNormal == scenario = "normal" /\ Decide("COMMIT", "tell")
DecideA_Majority == scenario = "fault_a" /\ Decide(IF 2 * Cardinality({w \in Worker :
                      votes[w] = "no"}) > Len(Workers) THEN "ABORT" ELSE "COMMIT", "tell")
DecideA == scenario = "fault_a" /\ Decide(IF HasNo THEN "ABORT" ELSE "COMMIT", "tell")
DecideB == scenario = "fault_b" /\ Decide("ABORT", "tell")
DecideD == scenario = "fault_d" /\ Decide("COMMIT", "log")

\* fault_d: the log is written, or its error ends the coordinator.
WriteLog ==
  /\ cpc = "log"
  /\ \/ /\ log' = decided /\ coord' = "DOWN" /\ cpc' = "recover"
        /\ state' = [w \in Worker |-> "READY"]
     \/ cpc' = "done" /\ UNCHANGED <<log, coord, state>>
  /\ UNCHANGED <<scenario, next, decided, wvars>>

\* fault_d: restarted, it reads the log and says the decision again.
Recover ==
  /\ cpc = "recover"
  /\ \/ log # "none" /\ coord' = "COMMIT" /\ cpc' = "tell"
     \/ cpc' = "done" /\ UNCHANGED coord          \* ReadFile failed
  /\ UNCHANGED <<scenario, next, decided, log, state, wvars>>

\* fault_c: the workers give up after a while.
GiveUp ==
  /\ cpc = "down" /\ cpc' = "done"
  /\ state' = [w \in Worker |-> "ABORT"]
  /\ UNCHANGED <<scenario, next, coord, decided, log, wvars>>

\* broadcastDecision: one blocking send after the other, then all the acks.
Tell ==
  /\ cpc = "tell" /\ wpc[Workers[next]] = "select"
  /\ told' = [told EXCEPT ![Workers[next]] = coord]
  /\ wpc' = [wpc EXCEPT ![Workers[next]] = "show"]
  /\ IF next = Len(Workers) THEN cpc' = "wait" /\ next' = 1
                            ELSE next' = next + 1 /\ UNCHANGED cpc
  /\ UNCHANGED <<scenario, coord, decided, log, state, onWay, votes, acks>>

WaitAcks_FirstOnly ==
  /\ cpc = "wait" /\ acks # {} /\ cpc' = "done"
  /\ UNCHANGED <<scenario, next, coord, decided, log, state, wvars>>
WaitAcks ==
  /\ cpc = "wait" /\ acks = Worker /\ cpc' = "done"
  /\ UNCHANGED <<scenario, next, coord, decided, log, state, wvars>>

Coordinator == \/ Begin \/ Ask \/ EndCollect \/ Timeout \/ Mark
               \/ \E w \in Worker : Collect(w)
               \/ DecideNormal \/ DecideA \/ DecideB \/ DecideD
               \/ WriteLog \/ Recover \/ GiveUp \/ Tell \/ WaitAcks

Next == Coordinator \/ \E w \in Worker : Vote(w) \/ Show(w) \/ Leave(w)

Spec == Init /\ [][Next]_vars
Fairness == /\ WF_vars(Coordinator)
            /\ \A w \in Worker : WF_vars(Vote(w) \/ Show(w) \/ Leave(w))
FairSpec == Spec /\ Fairness

(* ----------------------------- properties ------------------------------ *)

\* The outcome of each program that its README's table names: nobody differs
\* once the coordinator has returned, not even a worker whose late vote or
\* whose own marking raced with the coordinator's. fault_d may end without the
\* log, and then everybody is still READY: blocked.
Expected ==
  cpc = "done" =>
    \E s \in CASE scenario = "normal"  -> {"COMMIT"}
               [] scenario = "fault_d" -> {"COMMIT", "READY"}
               [] OTHER -> {"ABORT"} :
      /\ \A w \in Worker : state[w] = s
      /\ s = "READY" => acks = {}

\* Every program is an atomic commit, where the table of states is the stage
\* of each worker: the coordinator, which also writes that table, never moves
\* a worker back, nor past what that worker and the decision allow. (In fault_c
\* nobody asks anything and all give up in one step: Expected covers it.)
StageOf == [INIT |-> "works", READY |-> "prepared", COMMIT |-> "commit",
            ABORT |-> "abort"]
AC == INSTANCE AtomicCommit WITH
        Participant <- Worker,
        outcome <- IF decided = "open" THEN "open" ELSE StageOf[decided],
        stage <- [w \in Worker |-> IF scenario = "fault_c" THEN "works"
                                   ELSE StageOf[state[w]]]
Atomic == AC!Spec

\* No send and no wait blocks for ever: the coordinator returns and every
\* worker's goroutine ends, the silent one included.
Ends == <>(cpc = "done" /\ \A w \in Worker : wpc[w] = "gone")
=============================================================================
