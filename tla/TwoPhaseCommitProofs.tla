------------------------ MODULE TwoPhaseCommitProofs ------------------------
(***************************************************************************)
(* Proofs about TwoPhaseCommit, for any workers, any plans, and logs that   *)
(* may fail: it implements AtomicCommit, and nobody disagrees; about        *)
(* CommitFaults, for any workers: so do its five programs; and about the    *)
(* servers of Migration, which hand a player's client over.                 *)
(***************************************************************************)
EXTENDS TwoPhaseCommit, Naturals, Sequences, TLAPS

\* What the log says of the workers, and they of the log.
LoggedCommit == decided = "COMMIT" => \A w \in Worker : state[w] \in {"READY", "COMMIT"}
CommitLogged == \A w \in Worker : state[w] = "COMMIT" => decided = "COMMIT"
ChannelLogged == \A w \in Worker : ch[w] # "none" => ch[w] = decided

\* What a vote says of the worker that gave it.
YesPrepared ==
    \A w \in Worker : ballot[w] = "yes" /\ decided # "ABORT" => state[w] \in {"READY", "COMMIT"}
NotVoted == \A w \in Worker : ballot[w] \in {"none", "asked"} => state[w] \in {"INIT", "ABORT"}
WaitsReady == \A w \in Worker : waiter[w] = "waits" => state[w] = "READY"

\* What the coordinator's place in runCore says of the votes and the log.
CountedYes == allCommit => \A w \in counted : ballot[w] = "yes"
AllCounted == pc = "decide" /\ allCommit => counted = Worker
NotAsked == pc = "start" => \A w \in Worker : ballot[w] = "none"
NotDecided == pc \in {"start", "down", "collect", "decide"} => decided = "none"
SaysLogged == pc = "broadcast" => decided = IF allCommit THEN "COMMIT" ELSE "ABORT"

WorkerInv == LoggedCommit /\ CommitLogged /\ ChannelLogged /\ YesPrepared /\ NotVoted /\ WaitsReady
CoordInv == CountedYes /\ AllCounted /\ NotAsked /\ NotDecided /\ SaysLogged

\* The inductive invariant.
IInv == TypeOK /\ WorkerInv /\ CoordInv

-----------------------------------------------------------------------------
(* What the operators of the engine do. *)

\* TransitionState leaves a node where it was, or moves it where it was asked and
\* allowed to; it succeeds only there.
LEMMA TransitionResult ==
    ASSUME NEW from, NEW to, NEW r \in TransitionState(from, to)
    PROVE  /\ r.at = from \/ (r.at = to /\ transitionAllowed(from, to))
           /\ r.ok \in BOOLEAN
           /\ r.ok => r.at = to
<1>1. CASE from = to
  <2>1. r = [at |-> from, ok |-> TRUE]
      BY <1>1 DEF TransitionState
  <2> QED BY <1>1, <2>1
<1>2. CASE from # to /\ ~ transitionAllowed(from, to)
  <2>1. r = [at |-> from, ok |-> FALSE]
      BY <1>2 DEF TransitionState
  <2> QED BY <2>1
<1>3. CASE from # to /\ transitionAllowed(from, to)
  <2>1. \/ \E ok \in Persist : r = [at |-> to, ok |-> ok]
        \/ \E ok \in Persist \ {TRUE} : r = [at |-> from, ok |-> ok]
      BY <1>3 DEF TransitionState
  <2>2. Persist \subseteq BOOLEAN
      BY DEF Persist
  <2>3. CASE \E ok \in Persist : r = [at |-> to, ok |-> ok]
      BY <1>3, <2>2, <2>3
  <2>4. CASE \E ok \in Persist \ {TRUE} : r = [at |-> from, ok |-> ok]
    <3>1. r = [at |-> from, ok |-> FALSE]
        BY <2>2, <2>4
    <3> QED BY <3>1
  <2> QED BY <2>1, <2>3, <2>4
<1> QED BY <1>1, <1>2, <1>3

\* A broadcast fills the empty channels.
LEMMA Delivered ==
    ASSUME TypeOK, NEW d \in Decision, DeliverGlobalDecision(d)
    PROVE  /\ ch' \in [Worker -> Decision \cup {"none"}]
           /\ \A w \in Worker : ch'[w] \in {ch[w], d}
BY DEF DeliverGlobalDecision, TypeOK

-----------------------------------------------------------------------------
(* The invariant. *)

LEMMA InitIInv == Init => IInv
BY PlanAssumption
   DEF Init, IInv, TypeOK, WorkerInv, LoggedCommit, CommitLogged, ChannelLogged, YesPrepared,
       NotVoted, WaitsReady, CoordInv, CountedYes, AllCounted, NotAsked, NotDecided, SaysLogged,
       PlanState, Decision, Answers

\* Steps of the coordinator that leave workers, votes and log alone.
LEMMA QuietStep ==
    ASSUME IInv, CrashBeforeVote \/ ReportCrash \/ Deadline \/ AwaitDone
    PROVE  IInv'
<1> USE DEF IInv, TypeOK, WorkerInv, LoggedCommit, CommitLogged, ChannelLogged, YesPrepared,
            NotVoted, WaitsReady, CoordInv, CountedYes, AllCounted, NotAsked, NotDecided,
            SaysLogged, voteVars
<1>1. CASE CrashBeforeVote
    BY <1>1 DEF CrashBeforeVote, Fail
<1>2. CASE ReportCrash
    BY <1>2 DEF ReportCrash
<1>3. CASE Deadline
    BY <1>3 DEF Deadline
<1>4. CASE AwaitDone
    BY <1>4 DEF AwaitDone
<1> QED BY <1>1, <1>2, <1>3, <1>4

\* The vote requests go out while nobody has voted.
LEMMA SendVoteReqStep ==
    ASSUME IInv, SendVoteReq
    PROVE  IInv'
<1>1. PICK r \in TransitionState(cState, "WAIT") :
          /\ cState' = r.at
          /\ IF r.ok THEN pc' = "collect" /\ ballot' = [w \in Worker |-> "asked"]
             ELSE Fail /\ UNCHANGED ballot
    BY DEF SendVoteReq
<1>2. /\ cState' \in PlanState \ {"READY"}
      /\ r.ok \in BOOLEAN
    BY <1>1, TransitionResult DEF IInv, TypeOK, PlanState
<1>3. pc' \in {"collect", "failed"} /\ ballot' \in [Worker -> Answers \cup {"none", "asked", "error"}]
    BY <1>1, <1>2 DEF Fail, IInv, TypeOK, Answers
<1>4. TypeOK'
    BY <1>2, <1>3 DEF SendVoteReq, IInv, TypeOK
<1>5. \A w \in Worker : ballot[w] = "none" /\ ballot'[w] \in {"none", "asked"}
    BY <1>1, <1>2 DEF SendVoteReq, Fail, IInv, CoordInv, NotAsked
<1>6. WorkerInv'
    BY <1>5 DEF SendVoteReq, IInv, WorkerInv, LoggedCommit, CommitLogged, ChannelLogged,
                YesPrepared, NotVoted, WaitsReady
<1>7. allCommit => counted = {}
    BY <1>5 DEF IInv, TypeOK, CoordInv, CountedYes
<1>8. CoordInv'
    BY <1>3, <1>7 DEF SendVoteReq, IInv, CoordInv, CountedYes, AllCounted, NotAsked, NotDecided,
                      SaysLogged
<1> QED BY <1>4, <1>6, <1>8 DEF IInv

\* allCommit stands for YES from everybody counted.
LEMMA CollectStep ==
    ASSUME IInv, NEW w \in Worker, CollectVote(w)
    PROVE  IInv'
<1>1. pc' \in {"failed", "decide", "collect"} /\ (pc' = "decide" => counted' = Worker)
    BY DEF CollectVote
<1>2. /\ counted' \subseteq counted \cup {w}
      /\ w \in counted' \ counted => ballot[w] \in {"yes", "no"}
      /\ allCommit' \in BOOLEAN
      /\ allCommit' => allCommit /\ ballot[w] # "no"
    BY DEF CollectVote, IInv, TypeOK
<1>3. TypeOK'
    BY <1>1, <1>2 DEF CollectVote, IInv, TypeOK
<1>4. WorkerInv'
    BY DEF CollectVote, IInv, WorkerInv, LoggedCommit, CommitLogged, ChannelLogged, YesPrepared,
           NotVoted, WaitsReady
<1>5. CountedYes'
    BY <1>2 DEF CollectVote, IInv, CoordInv, CountedYes
<1>6. CoordInv'
    BY <1>1, <1>5 DEF CollectVote, IInv, CoordInv, AllCounted, NotAsked, NotDecided, SaysLogged
<1> QED BY <1>3, <1>4, <1>6 DEF IInv

\* A logged COMMIT finds everybody prepared.
LEMMA PersistStep ==
    ASSUME IInv, PersistDecision
    PROVE  /\ IInv'
           /\ decided' = decided \/ (decided = "none" /\ decided' \in Decision)
           /\ decided' # decided /\ decided' = "COMMIT" => \A w \in Worker : state[w] = "READY"
<1>1. decided = "none" /\ pc = "decide"
    BY DEF PersistDecision, IInv, CoordInv, NotDecided
<1>2. decided' \in {"none", IF allCommit THEN "COMMIT" ELSE "ABORT"}
    BY <1>1 DEF PersistDecision
<1>3. decided' \in Decision \cup {"none"}
    BY <1>2 DEF Decision
<1>4. \A w \in Worker : state[w] # "COMMIT"
    BY <1>1 DEF IInv, WorkerInv, CommitLogged
<1>5. decided' = "COMMIT" => \A w \in Worker : state[w] = "READY"
    BY <1>1, <1>2, <1>4
       DEF IInv, CoordInv, CountedYes, AllCounted, WorkerInv, YesPrepared
<1>6. waiter' \in [Worker -> {"off", "started", "waits", "back"}]
      /\ \A w \in Worker : waiter'[w] \in {waiter[w], "started"}
    BY DEF PersistDecision, AwaitAll, IInv, TypeOK
<1>7. /\ pc' \in {"crashed", "failed", "broadcast"}
      /\ pc' = "broadcast" => decided' = IF allCommit THEN "COMMIT" ELSE "ABORT"
    BY DEF PersistDecision, Fail
<1>8. TypeOK'
    BY <1>3, <1>6, <1>7 DEF PersistDecision, IInv, TypeOK, voteVars
<1>9. WorkerInv'
  <2>1. LoggedCommit' /\ CommitLogged'
      BY <1>4, <1>5 DEF PersistDecision, LoggedCommit, CommitLogged
  <2>2. ChannelLogged'
      BY <1>1 DEF PersistDecision, IInv, TypeOK, WorkerInv, ChannelLogged, Decision
  <2>3. YesPrepared' /\ NotVoted'
      BY <1>1 DEF PersistDecision, IInv, WorkerInv, YesPrepared, NotVoted, voteVars
  <2>4. WaitsReady'
      BY <1>6 DEF PersistDecision, IInv, WorkerInv, WaitsReady
  <2> QED BY <2>1, <2>2, <2>3, <2>4 DEF WorkerInv
<1>10. CoordInv'
    BY <1>1, <1>7 DEF PersistDecision, IInv, CoordInv, CountedYes, AllCounted, NotAsked, NotDecided,
                      SaysLogged, voteVars
<1> QED BY <1>1, <1>3, <1>5, <1>8, <1>9, <1>10 DEF IInv

\* Broadcasts say what is logged.
LEMMA ConcludeStep ==
    ASSUME IInv, NEW from \in PlanState \ {"READY"}, NEW d \in Decision, d = decided,
           pc \in {"broadcast", "recover"}, Conclude(from, d)
    PROVE  IInv'
<1>1. PICK r \in TransitionState(from, d) :
          /\ cState' = r.at
          /\ IF r.ok THEN pc' = "await" /\ AwaitAll ELSE Fail /\ UNCHANGED waiter
    BY DEF Conclude
<1>2. cState' \in PlanState \ {"READY"} /\ r.ok \in BOOLEAN
    BY <1>1, TransitionResult DEF PlanState, Decision
<1>3. /\ pc' \in {"await", "failed"}
      /\ waiter' \in [Worker -> {"off", "started", "waits", "back"}]
      /\ \A w \in Worker : waiter'[w] \in {waiter[w], "started"}
    BY <1>1, <1>2 DEF Fail, AwaitAll, IInv, TypeOK
<1>4. /\ ch' \in [Worker -> Decision \cup {"none"}]
      /\ \A w \in Worker : ch'[w] \in {ch[w], d}
    BY Delivered DEF Conclude, IInv
<1>5. TypeOK'
    BY <1>2, <1>3, <1>4 DEF Conclude, IInv, TypeOK, voteVars
<1>6. WorkerInv'
    BY <1>3, <1>4 DEF Conclude, IInv, WorkerInv, LoggedCommit, CommitLogged, ChannelLogged,
                      YesPrepared, NotVoted, WaitsReady, voteVars
<1>7. CoordInv'
    BY <1>3 DEF Conclude, IInv, CoordInv, CountedYes, AllCounted, NotAsked, NotDecided, SaysLogged,
                voteVars
<1> QED BY <1>5, <1>6, <1>7 DEF IInv

LEMMA BroadcastStep ==
    ASSUME IInv, Broadcast
    PROVE  IInv'
<1>1. decided = IF allCommit THEN "COMMIT" ELSE "ABORT"
    BY DEF Broadcast, IInv, CoordInv, SaysLogged
<1>2. decided \in Decision
    BY <1>1 DEF Decision
<1>3. cState \in PlanState \ {"READY"}
    BY DEF IInv, TypeOK
<1> QED BY <1>1, <1>2, <1>3, ConcludeStep DEF Broadcast

LEMMA RecoverStep ==
    ASSUME IInv, RecoverAndReplay
    PROVE  IInv'
<1>1. CASE decided # "none" /\ Conclude("WAIT", decided)
  <2>1. decided \in Decision
      BY <1>1 DEF IInv, TypeOK
  <2>2. "WAIT" \in PlanState \ {"READY"}
      BY DEF PlanState
  <2> QED BY <1>1, <2>1, <2>2, ConcludeStep DEF RecoverAndReplay
<1>2. CASE /\ Fail
           /\ UNCHANGED <<plan, cState, decided, allCommit, counted, voteVars, state, ch, waiter, timer>>
    BY <1>2 DEF Fail, IInv, TypeOK, WorkerInv, LoggedCommit, CommitLogged, ChannelLogged,
                YesPrepared, NotVoted, WaitsReady, CoordInv, CountedYes, AllCounted, NotAsked,
                NotDecided, SaysLogged, voteVars
<1> QED BY <1>1, <1>2 DEF RecoverAndReplay
\* OnVoteReq leads a worker that has not voted, and READY only with a YES.
LEMMA VoteStep ==
    ASSUME IInv, NEW w \in Worker, OnVoteReq(w)
    PROVE  /\ IInv'
           /\ \/ state' = state
              \/ state[w] = "INIT" /\ \E s \in {"READY", "ABORT"} : state' = [state EXCEPT ![w] = s]
<1>1. ballot[w] = "asked" /\ state[w] \in {"INIT", "ABORT"}
    BY DEF OnVoteReq, IInv, WorkerInv, NotVoted
<1>2. plan.answer[w] \in Answers
    BY PlanAssumption DEF IInv, TypeOK
<1>3. PICK s \in {"INIT", "READY", "ABORT"}, b \in {"yes", "no", "silent", "error"} :
          /\ state' = [state EXCEPT ![w] = s]
          /\ ballot' = [ballot EXCEPT ![w] = b]
          /\ s = state[w] \/ state[w] = "INIT"
          /\ b = "yes" => s = "READY"
  <2>1. CASE plan.answer[w] = "silent"
      BY <1>1, <2>1 DEF OnVoteReq, IInv, TypeOK
  <2>2. CASE plan.answer[w] # "silent"
    <3> DEFINE to == IF plan.answer[w] = "yes" THEN "READY" ELSE "ABORT"
    <3>1. PICK r \in TransitionState(state[w], to) :
              /\ state' = [state EXCEPT ![w] = r.at]
              /\ ballot' = [ballot EXCEPT ![w] = IF r.ok THEN plan.answer[w] ELSE "error"]
        BY <2>2 DEF OnVoteReq
    <3>2. /\ r.at = state[w] \/ (r.at = to /\ transitionAllowed(state[w], to))
          /\ r.ok \in BOOLEAN
          /\ r.ok => r.at = to
        BY TransitionResult
    <3>3. r.at \in {"INIT", "READY", "ABORT"} /\ (r.at = state[w] \/ state[w] = "INIT")
        BY <1>1, <3>2 DEF transitionAllowed
    <3> QED BY <1>2, <2>2, <3>1, <3>2, <3>3 DEF Answers
  <2> QED BY <2>1, <2>2
<1>4. state' = state \/ (state[w] = "INIT" /\ s \in {"READY", "ABORT"})
    BY <1>1, <1>3 DEF IInv, TypeOK
<1>5. state[w] = "INIT" => decided # "COMMIT"
    BY DEF IInv, WorkerInv, LoggedCommit
<1>6. TypeOK'
    BY <1>3 DEF OnVoteReq, IInv, TypeOK, coordVars, PlanState, Answers
<1>7. WorkerInv'
  <2>1. LoggedCommit' /\ CommitLogged' /\ ChannelLogged'
      BY <1>1, <1>3, <1>5
         DEF OnVoteReq, coordVars, IInv, TypeOK, WorkerInv, LoggedCommit, CommitLogged, ChannelLogged
  <2>2. YesPrepared' /\ NotVoted' /\ WaitsReady'
      BY <1>1, <1>3
         DEF OnVoteReq, coordVars, IInv, TypeOK, WorkerInv, YesPrepared, NotVoted, WaitsReady
  <2> QED BY <2>1, <2>2 DEF WorkerInv
<1>8. CoordInv'
    BY <1>1, <1>3 DEF OnVoteReq, coordVars, IInv, TypeOK, CoordInv, CountedYes, AllCounted,
                      NotAsked, NotDecided, SaysLogged
<1> QED BY <1>1, <1>3, <1>4, <1>6, <1>7, <1>8 DEF IInv

\* A worker that waits either keeps its state or takes up what is logged.
LEMMA WaiterStep ==
    ASSUME IInv, NEW w \in Worker, Waiter(w)
    PROVE  /\ IInv'
           /\ \/ state' = state
              \/ /\ state[w] = "READY" /\ decided \in Decision
                 /\ state' = [state EXCEPT ![w] = decided]
<1>1. CASE StartWaiting(w) \/ StopWaiting(w)
    BY <1>1 DEF StartWaiting, StopWaiting, coordVars, voteVars, IInv, TypeOK, WorkerInv,
                LoggedCommit, CommitLogged, ChannelLogged, YesPrepared, NotVoted, WaitsReady,
                CoordInv, CountedYes, AllCounted, NotAsked, NotDecided, SaysLogged
<1>2. CASE ReceiveDecision(w)
  <2>1. /\ state[w] = "READY"
        /\ ch[w] = decided /\ decided \in Decision
      BY <1>2 DEF ReceiveDecision, IInv, TypeOK, WorkerInv, WaitsReady, ChannelLogged
  <2>2. PICK r \in TransitionState(state[w], decided) : state' = [state EXCEPT ![w] = r.at]
      BY <1>2, <2>1 DEF ReceiveDecision, Decision
  <2>3. r.at \in {"READY", decided}
      BY <2>1, TransitionResult
  <2>4. TypeOK'
      BY <1>2, <2>1, <2>2, <2>3
         DEF ReceiveDecision, coordVars, voteVars, IInv, TypeOK, Decision, PlanState
  <2>5. WorkerInv'
      BY <1>2, <2>1, <2>2, <2>3
         DEF ReceiveDecision, coordVars, voteVars, IInv, TypeOK, Decision, WorkerInv, LoggedCommit,
             CommitLogged, ChannelLogged, YesPrepared, NotVoted, WaitsReady
  <2>6. CoordInv'
      BY <1>2 DEF ReceiveDecision, coordVars, voteVars, IInv, CoordInv, CountedYes, AllCounted,
                  NotAsked, NotDecided, SaysLogged
  <2>7. r.at = "READY" => state' = state
      BY <2>1, <2>2 DEF IInv, TypeOK
  <2> QED BY <2>1, <2>2, <2>3, <2>4, <2>5, <2>6, <2>7 DEF IInv
<1> QED BY <1>1, <1>2 DEF Waiter

\* The INIT timer touches only a worker that was never asked, or is still INIT.
LEMMA TimerStep ==
    ASSUME IInv, NEW w \in Worker, AbortIfInitTimeout(w)
    PROVE  /\ IInv'
           /\ \/ state' = state
              \/ state[w] = "INIT" /\ state' = [state EXCEPT ![w] = "ABORT"]
<1>1. \/ state' = state
      \/ state[w] = "INIT" /\ state' = [state EXCEPT ![w] = "ABORT"]
  <2>1. CASE state[w] = "INIT"
    <3>1. PICK r \in TransitionState("INIT", "ABORT") : state' = [state EXCEPT ![w] = r.at]
        BY <2>1 DEF AbortIfInitTimeout
    <3>2. r.at \in {"INIT", "ABORT"}
        BY TransitionResult
    <3> QED BY <2>1, <3>1, <3>2 DEF IInv, TypeOK
  <2> QED BY <2>1 DEF AbortIfInitTimeout
<1>2. state[w] = "INIT" => decided # "COMMIT"
    BY DEF IInv, WorkerInv, LoggedCommit
<1>3. TypeOK'
    BY <1>1 DEF AbortIfInitTimeout, coordVars, voteVars, IInv, TypeOK, PlanState
<1>4. WorkerInv'
    BY <1>1, <1>2
       DEF AbortIfInitTimeout, coordVars, voteVars, IInv, TypeOK, WorkerInv, LoggedCommit,
           CommitLogged, ChannelLogged, YesPrepared, NotVoted, WaitsReady
<1>5. CoordInv'
    BY DEF AbortIfInitTimeout, coordVars, voteVars, IInv, CoordInv, CountedYes, AllCounted,
           NotAsked, NotDecided, SaysLogged
<1> QED BY <1>1, <1>3, <1>4, <1>5 DEF IInv
-----------------------------------------------------------------------------
(* Every step, and what it is for AtomicCommit. *)

\* The workers and the log, which are all that AtomicCommit sees, stay as they are.
Unseen == decided' = decided /\ state' = state

\* A coordinator step keeps the invariant and the workers; it may log a decision.
LEMMA CoordinatorStep ==
    ASSUME IInv, Coordinator
    PROVE  /\ IInv'
           /\ \/ Unseen
              \/ /\ state' = state /\ decided = "none" /\ decided' \in Decision
                 /\ decided' = "COMMIT" => \A w \in Worker : state[w] = "READY"
<1>1. CASE CrashBeforeVote \/ ReportCrash \/ Deadline \/ AwaitDone
    BY <1>1, QuietStep DEF Unseen, CrashBeforeVote, ReportCrash, Deadline, AwaitDone
<1>2. CASE SendVoteReq
    BY <1>2, SendVoteReqStep DEF Unseen, SendVoteReq
<1>3. CASE \E w \in Worker : CollectVote(w)
    BY <1>3, CollectStep DEF Unseen, CollectVote
<1>4. CASE PersistDecision
    BY <1>4, PersistStep DEF Unseen, PersistDecision
<1>5. CASE Broadcast
    BY <1>5, BroadcastStep DEF Unseen, Broadcast, Conclude
<1>6. CASE RecoverAndReplay
    BY <1>6, RecoverStep DEF Unseen, RecoverAndReplay, Conclude
<1> QED BY <1>1, <1>2, <1>3, <1>4, <1>5, <1>6 DEF Coordinator

\* A worker step keeps the invariant and the log; it may move that worker.
LEMMA WorkerStep ==
    ASSUME IInv, NEW w \in Worker, OnVoteReq(w) \/ Waiter(w) \/ AbortIfInitTimeout(w)
    PROVE  /\ IInv'
           /\ decided' = decided
           /\ \/ state' = state
              \/ state[w] = "INIT" /\ \E s \in {"READY", "ABORT"} : state' = [state EXCEPT ![w] = s]
              \/ /\ state[w] = "READY" /\ decided \in Decision
                 /\ state' = [state EXCEPT ![w] = decided]
<1>1. decided' = decided
    BY DEF OnVoteReq, Waiter, StartWaiting, ReceiveDecision, StopWaiting, AbortIfInitTimeout,
           coordVars
<1>2. CASE OnVoteReq(w)
    BY <1>1, <1>2, VoteStep
<1>3. CASE Waiter(w)
    BY <1>1, <1>3, WaiterStep
<1>4. CASE AbortIfInitTimeout(w)
    BY <1>1, <1>4, TimerStep
<1> QED BY <1>2, <1>3, <1>4

\* A step that changes nothing.
LEMMA StutterStep ==
    ASSUME IInv, UNCHANGED vars
    PROVE  IInv' /\ Unseen
BY DEF vars, coordVars, voteVars, Unseen, IInv, TypeOK, WorkerInv, LoggedCommit, CommitLogged,
       ChannelLogged, YesPrepared, NotVoted, WaitsReady, CoordInv, CountedYes, AllCounted,
       NotAsked, NotDecided, SaysLogged

THEOREM Invariance == Spec => []IInv
<1>1. IInv /\ [Next]_vars => IInv'
    BY CoordinatorStep, WorkerStep, StutterStep DEF Next
<1> QED BY InitIInv, <1>1, PTL DEF Spec

\* The variables keep their types, whatever the workers answer and the disk does.
THEOREM TypeCorrect == Spec => []TypeOK
<1>1. IInv => TypeOK
    BY DEF IInv
<1> QED BY Invariance, <1>1, PTL

\* No worker rolls back what another commits.
THEOREM Agreed == Spec => []Agreement
<1>1. IInv => Agreement
    BY DEF IInv, WorkerInv, LoggedCommit, CommitLogged, Agreement
<1> QED BY Invariance, <1>1, PTL

\* A READY worker does nothing but what was logged.
THEOREM ReadyObeys == Spec => ReadyWaits
<1>1. ASSUME IInv, [Next]_vars, NEW w \in Worker, state[w] = "READY", state'[w] # "READY"
      PROVE  state'[w] = decided
  <2>1. CASE Coordinator \/ UNCHANGED vars
      BY <1>1, <2>1, CoordinatorStep, StutterStep DEF Unseen
  <2>2. CASE \E v \in Worker : OnVoteReq(v) \/ Waiter(v) \/ AbortIfInitTimeout(v)
    <3>1. PICK v \in Worker : OnVoteReq(v) \/ Waiter(v) \/ AbortIfInitTimeout(v)
        BY <2>2
    <3>2. state \in [Worker -> PlanState \ {"WAIT"}]
        BY <1>1 DEF IInv, TypeOK
    <3> QED BY <1>1, <3>1, <3>2, WorkerStep
  <2> QED BY <1>1, <2>1, <2>2 DEF Next
<1>2. IInv /\ [Next]_vars =>
         [\A w \in Worker : state[w] = "READY" /\ state'[w] # "READY" => state'[w] = decided]_vars
    BY <1>1
<1> QED BY Invariance, <1>2, PTL DEF Spec, ReadyWaits

-----------------------------------------------------------------------------
(* Refinement. *)

\* The stages, one by one.
LEMMA StageValues ==
    /\ StageOf["INIT"] = "works" /\ StageOf["READY"] = "prepared"
    /\ StageOf["COMMIT"] = "commit" /\ StageOf["ABORT"] = "abort"
BY DEF StageOf

\* The abstract stage of a worker that moves.
LEMMA StageMoves ==
    ASSUME TypeOK, NEW w \in Worker, NEW s \in PlanState \ {"WAIT"},
           state' = [state EXCEPT ![w] = s]
    PROVE  [v \in Worker |-> StageOf[state[v]]]'
              = [[v \in Worker |-> StageOf[state[v]]] EXCEPT ![w] = StageOf[s]]
BY DEF TypeOK

LEMMA InitAtomic == Init => AC!Init
BY DEF Init, AC!Init, StageOf, OutcomeOf

LEMMA StepAtomic ==
    ASSUME IInv, [Next]_vars
    PROVE  [AC!Next]_(AC!vars)
<1> DEFINE stage == [v \in Worker |-> StageOf[state[v]]]
<1>1. TypeOK
    BY DEF IInv
<1>2. CASE Unseen
    BY <1>2 DEF Unseen, AC!vars
<1>3. CASE /\ state' = state /\ decided = "none" /\ decided' \in Decision
           /\ decided' = "COMMIT" => \A w \in Worker : state[w] = "READY"
  <2>1. \E d \in {"commit", "abort"} : AC!Decide(d)
      BY <1>3 DEF AC!Decide, OutcomeOf, StageOf, Decision
  <2> QED BY <2>1 DEF AC!Next
<1>4. ASSUME NEW w \in Worker, decided' = decided, state[w] = "INIT",
             NEW s \in {"READY", "ABORT"}, state' = [state EXCEPT ![w] = s]
      PROVE  AC!Next
  <2>1. stage' = [stage EXCEPT ![w] = StageOf[s]]
      BY <1>1, <1>4, StageMoves DEF PlanState
  <2>2. AC!Prepare(w) \/ AC!GiveUp(w)
      BY <1>4, <2>1, StageValues DEF AC!Prepare, AC!GiveUp, AC!Moves
  <2> QED BY <2>2 DEF AC!Next
<1>5. ASSUME NEW w \in Worker, decided' = decided, state[w] = "READY", decided \in Decision,
             state' = [state EXCEPT ![w] = decided]
      PROVE  AC!Next
  <2>1. stage' = [stage EXCEPT ![w] = StageOf[decided]]
      BY <1>1, <1>5, StageMoves DEF PlanState, Decision
  <2>2. StageOf[decided] = OutcomeOf[decided] /\ OutcomeOf[decided] # "open"
      BY <1>5 DEF StageOf, OutcomeOf, Decision
  <2>3. AC!Obey(w)
      BY <1>5, <2>1, <2>2, StageValues DEF AC!Obey, AC!Moves
  <2> QED BY <2>3 DEF AC!Next
<1>6. CASE Coordinator
    BY <1>2, <1>3, <1>6, CoordinatorStep
<1>7. ASSUME NEW w \in Worker, OnVoteReq(w) \/ Waiter(w) \/ AbortIfInitTimeout(w)
      PROVE  [AC!Next]_(AC!vars)
    BY <1>2, <1>4, <1>5, <1>7, WorkerStep DEF Unseen
<1>8. CASE UNCHANGED vars
    BY <1>2, <1>8, StutterStep
<1> QED BY <1>6, <1>7, <1>8 DEF Next

\* The engine implements an atomic commit: every step is one of AtomicCommit, with
\* the log for the outcome and the workers' states for the stages, or is not seen.
THEOREM Refines == Spec => Atomic
<1>1. IInv /\ [Next]_vars => [AC!Next]_(AC!vars)
    BY StepAtomic
<1> QED BY InitAtomic, Invariance, <1>1, PTL DEF Spec, Atomic, AC!Spec

-----------------------------------------------------------------------------
(* What the abstract commit promises, whoever implements it like this.     *)

\* Commits are decided, and a decided commit finds everybody prepared or done.
Backed ==
    LET outcome == OutcomeOf[decided]
        stage(w) == StageOf[state[w]] IN
    /\ \A w \in Worker : stage(w) = "commit" => outcome = "commit"
    /\ outcome = "commit" => \A w \in Worker : stage(w) \in {"prepared", "commit"}

\* All or nothing: no participant has committed what another has rolled back.
THEOREM AlwaysConsistent == Atomic => []AC!Consistent
<1>1. AC!Init => AC!TypeOK /\ Backed
    BY DEF AC!Init, AC!TypeOK, AC!Outcome, AC!Stage, Backed
<1>2. AC!TypeOK /\ Backed /\ [AC!Next]_(AC!vars) => AC!TypeOK' /\ Backed'
  <2> SUFFICES ASSUME AC!TypeOK, Backed, [AC!Next]_(AC!vars) PROVE AC!TypeOK' /\ Backed'
      OBVIOUS
  <2> USE DEF AC!TypeOK, AC!Outcome, AC!Stage, Backed
  <2>1. ASSUME NEW w \in Worker, AC!Prepare(w) PROVE AC!TypeOK' /\ Backed'
      BY <2>1 DEF AC!Prepare, AC!Moves
  <2>2. ASSUME NEW w \in Worker, AC!GiveUp(w) PROVE AC!TypeOK' /\ Backed'
      BY <2>2 DEF AC!GiveUp, AC!Moves
  <2>3. ASSUME NEW w \in Worker, AC!Obey(w) PROVE AC!TypeOK' /\ Backed'
      BY <2>3 DEF AC!Obey, AC!Moves
  <2>4. ASSUME NEW d \in {"commit", "abort"}, AC!Decide(d) PROVE AC!TypeOK' /\ Backed'
      BY <2>4 DEF AC!Decide
  <2>5. CASE UNCHANGED AC!vars
      BY <2>5 DEF AC!vars
  <2> QED BY <2>1, <2>2, <2>3, <2>4, <2>5 DEF AC!Next
<1>3. AC!TypeOK /\ Backed => AC!Consistent
    BY DEF AC!Consistent, AC!TypeOK, Backed
<1> QED BY <1>1, <1>2, <1>3, PTL DEF Atomic, AC!Spec
-----------------------------------------------------------------------------
(* The programs of ch5/exp6 (CommitFaults), in any order of any workers; the *)
(* names that the engine has too are `table`, the states of the workers as   *)
(* the coordinator's table shows them, and `ruling`, its decision.           *)
CONSTANTS Scenarios, Workers, Odd
VARIABLES scenario, cpc, next, coord, table, wpc, onWay, votes, told, acks, ruling, log

Faults == INSTANCE CommitFaults WITH state <- table, decided <- ruling

Asked == Faults!Worker
Behavior(w) == Faults!Behavior(w)

\* A worker that has answered, one that was not asked yet, one that was told; and
\* a coordinator that has decided.
Answered(w) == onWay[w] # "none" \/ votes[w] # "none"
Untouched(w) == wpc[w] = "select" /\ ~Answered(w) /\ table[w] = "INIT"
Told(w) == told[w] # "none"
Ruled == cpc \in {"log", "recover", "tell", "wait", "done"}

\* An answer is what the program's worker gives.
Honest == \A w \in Asked : {onWay[w], votes[w]} \subseteq {"none", Behavior(w)}

\* The table shows the decision of a worker that has acknowledged it, and before
\* that its answer; a silent worker is there as it started, or marked by fault_b.
Shown == \A w \in Asked :
           table[w] \in IF w \in acks THEN {ruling}
                        ELSE IF Answered(w) THEN {IF Behavior(w) = "no" THEN "ABORT" ELSE "READY"}
                        ELSE IF scenario = "fault_b" THEN {"INIT", "READY"} ELSE {"INIT"}

\* Workers are asked in their order.
InTurn == /\ cpc = "start" => \A w \in Asked : Untouched(w)
          /\ cpc = "ask" => \A i \in next..Len(Workers) : Untouched(Workers[i])

\* A request is answered before the votes are in; fault_b does not wait for that.
Pending == \A w \in Asked : wpc[w] = "vote" =>
             /\ Behavior(w) # "silent" /\ ~Answered(w)
             /\ (cpc \in {"ask", "collect"} \/ scenario = "fault_b")

\* Who does not time out has all votes.
AllIn == cpc \notin {"start", "ask", "collect"} /\ scenario # "fault_b" =>
           \A w \in Asked : votes[w] # "none"

\* After the marking nobody is as it started.
Marked == /\ cpc = "mark" => \A i \in 1..(next - 1) : table[Workers[i]] # "INIT"
          /\ (cpc = "decide" \/ Ruled) => \A w \in Asked : table[w] # "INIT"

\* Workers are told the decision, and acknowledge only what they were told.
ToldRuling == \A w \in Asked :
                /\ Told(w) => told[w] = ruling /\ cpc \in {"tell", "wait", "done"} /\ wpc[w] # "vote"
                /\ (w \in acks \/ wpc[w] = "show") => Told(w)

\* The decision of each program; and fault_d's coordinator may end without telling it.
RulingOf == IF scenario \in {"normal", "fault_d"} THEN "COMMIT" ELSE "ABORT"
Ruling == /\ ruling = IF Ruled THEN RulingOf ELSE "open"
          /\ cpc = "tell" => coord = ruling
          /\ cpc \in {"log", "recover"} => scenario = "fault_d"
          /\ log \in {"none", ruling}
          /\ cpc = "done" /\ acks # Asked =>
               scenario = "fault_d" /\ acks = {} /\ \A w \in Asked : ~Told(w)
          /\ cpc \in {"ask", "mark", "tell"} \/ next = 1

\* The inductive invariant of the programs that ask, and of fault_c.
Asks == cpc # "down" /\ Honest /\ Shown /\ InTurn /\ Pending /\ AllIn /\ Marked /\ ToldRuling /\ Ruling
Down == /\ cpc \in {"start", "down", "done"} /\ ruling = "open" /\ acks = {} /\ next = 1
        /\ \A w \in Asked : wpc[w] \in {"select", "gone"} /\ ~Answered(w) /\ ~Told(w)
        /\ cpc = "done" => \A w \in Asked : table[w] = "ABORT"
FaultsInv == Faults!TypeOK /\ (IF scenario = "fault_c" THEN Down ELSE Asks)

\* A worker is one place of the order, and a place is one worker.
LEMMA InOrder ==
    ASSUME Faults!ScriptAssumption
    PROVE  /\ Len(Workers) \in Nat \ {0} /\ DOMAIN Workers = 1..Len(Workers)
           /\ \A i \in 1..Len(Workers) : Workers[i] \in Asked
           /\ \A w \in Asked : \E i \in 1..Len(Workers) : Workers[i] = w
           /\ \A i, j \in 1..Len(Workers) : Workers[i] = Workers[j] => i = j
<1>1. DOMAIN Workers = 1..Len(Workers) /\ Len(Workers) \in Nat
   BY DEF Faults!ScriptAssumption
<1>2. Asked = {Workers[i] : i \in DOMAIN Workers}
    BY DEF Faults!Worker, Faults!ToSet, Asked
<1>3. \A i, j \in 1..Len(Workers) : Workers[i] = Workers[j] => i = j
    BY <1>1 DEF Faults!ScriptAssumption, Faults!IsInjective
<1> QED BY <1>1, <1>2, <1>3 DEF Faults!ScriptAssumption, Asked

\* What each program's workers answer.
LEMMA Behaviors ==
    ASSUME Faults!ScriptAssumption, scenario \in Scenarios
    PROVE  /\ scenario \in {"normal", "fault_a", "fault_b", "fault_c", "fault_d"}
           /\ Odd \in Asked
           /\ \A w \in Asked :
             /\ Behavior(w) \in {"yes", "no", "silent"}
             /\ scenario \in {"normal", "fault_d"} => Behavior(w) = "yes"
             /\ scenario = "fault_a" => Behavior(w) = IF w = Odd THEN "no" ELSE "yes"
             /\ scenario = "fault_b" => Behavior(w) # "no"
BY DEF Faults!ScriptAssumption, Behavior, Faults!Behavior, Faults!AllYes, Faults!OneNo,
       Faults!OneSilent, Asked

LEMMA TypeInit == ASSUME Faults!ScriptAssumption, Faults!Init PROVE Faults!TypeOK
BY InOrder DEF Faults!Init, Faults!TypeOK, Asked
LEMMA FaultsTrue == ASSUME Faults!ScriptAssumption, Faults!Init PROVE FaultsInv
<1>1. Faults!TypeOK
    BY TypeInit
<1>2. CASE scenario = "fault_c"
    BY <1>1, <1>2 DEF FaultsInv, Faults!Init, Down, Asked, Answered, Told
<1>3. CASE scenario # "fault_c"
    BY <1>1, <1>3, InOrder, Behaviors DEF FaultsInv, Faults!Init, Asks, Asked, Answered, Told,
        Honest, Shown, InTurn, Pending,
     AllIn, Marked, ToldRuling, Ruling, Untouched, Ruled
<1> QED BY <1>2, <1>3

\* The program stays the same.
LEMMA Same == ASSUME scenario' = scenario, NEW w PROVE Behavior(w)' = Behavior(w)
BY DEF Behavior, Faults!Behavior, Faults!AllYes, Faults!OneNo, Faults!OneSilent

\* The worker whose turn it is.
LEMMA InTurns == ASSUME Faults!ScriptAssumption, Faults!TypeOK
                 PROVE  \E v \in Asked : v = Workers[next]
BY InOrder DEF Faults!TypeOK

\* Types rest on the rest of the invariant: only answers are sent, only decisions told.
LEMMA Typed == ASSUME Faults!ScriptAssumption, FaultsInv, Faults!Next PROVE Faults!TypeOK'
<1> USE DEF Faults!TypeOK, Asked
<1>1. /\ Len(Workers) \in Nat \ {0} /\ (\A i \in 1..Len(Workers) : Workers[i] \in Asked)
      /\ Faults!TypeOK
    BY InOrder DEF FaultsInv
<1>2. ASSUME NEW w \in Asked, Faults!Vote(w) PROVE Faults!TypeOK'
  <2>1. Behavior(w) \in {"yes", "no"}
    BY <1>1, <1>2, Behaviors DEF Faults!Vote, FaultsInv, Down, Asks, Pending
  <2> QED BY <1>1, <1>2, <2>1 DEF Faults!Vote, Faults!cvars, Behavior
<1>3. ASSUME NEW w \in Asked, Faults!Show(w) PROVE Faults!TypeOK'
  <2>1. told[w] \in {"COMMIT", "ABORT"}
    BY <1>1, <1>3 DEF Faults!Show, FaultsInv, Down, Asks, ToldRuling, Told
  <2> QED BY <1>1, <1>3, <2>1 DEF Faults!Show, Faults!cvars
<1>4. ASSUME NEW w \in Asked, Faults!Leave(w) \/ Faults!Collect(w) PROVE Faults!TypeOK'
    BY <1>1, <1>4 DEF Faults!Leave, Faults!Collect, Faults!cvars
<1>5. CASE Faults!Begin \/ Faults!EndCollect \/ Faults!Timeout \/ Faults!GiveUp
      \/ Faults!WaitAcks
    BY <1>1, <1>5 DEF Faults!Begin, Faults!EndCollect, Faults!Timeout, Faults!GiveUp,
        Faults!WaitAcks,
                    Faults!wvars
<1>6. CASE Faults!DecideNormal \/ Faults!DecideA \/ Faults!DecideB \/ Faults!DecideD
    BY <1>1, <1>6 DEF Faults!DecideNormal, Faults!DecideA, Faults!DecideB, Faults!DecideD,
                    Faults!Decide, Faults!wvars
<1>7. CASE Faults!WriteLog
  <2>1. ruling = "COMMIT"
    BY <1>7 DEF Faults!WriteLog, FaultsInv, Down, Asks, Ruling, Ruled, RulingOf
  <2> QED BY <1>1, <1>7, <2>1 DEF Faults!WriteLog, Faults!wvars
<1>8. CASE Faults!Recover
    BY <1>1, <1>8 DEF Faults!Recover, Faults!wvars
<1>9. CASE Faults!Ask \/ Faults!Mark \/ Faults!Tell
  <2>1. PICK v \in Asked : v = Workers[next]
    BY <1>1, InTurns
  <2>2. next' \in 1..Len(Workers)
    BY <1>1, <1>9 DEF Faults!Ask, Faults!Mark, Faults!Tell
  <2>3. CASE Faults!Ask
    BY <1>1, <2>1, <2>2, <2>3 DEF Faults!Ask
  <2>4. CASE Faults!Mark
    <3>1. Faults!MarkedAs(v) \in {"READY", "ABORT"}
      BY DEF Faults!MarkedAs
    <3> QED BY <1>1, <2>1, <2>2, <2>4, <3>1 DEF Faults!Mark, Faults!wvars
  <2>5. CASE Faults!Tell
    <3>1. coord \in {"COMMIT", "ABORT"}
      BY <1>1, <2>5 DEF Faults!Tell, FaultsInv, Down, Asks, Ruling, Ruled, RulingOf
    <3> QED BY <1>1, <2>1, <2>2, <2>5, <3>1 DEF Faults!Tell
  <2> QED BY <1>9, <2>3, <2>4, <2>5
<1> QED BY <1>2, <1>3, <1>4, <1>5, <1>6, <1>7, <1>8, <1>9 DEF Faults!Next, Faults!Coordinator

\* fault_c: nobody is asked, and everybody gives up.
LEMMA DownStays == ASSUME Faults!ScriptAssumption, FaultsInv, scenario = "fault_c",
    Faults!Next PROVE Down'
<1> USE DEF Asked
<1>1. Down /\ Faults!TypeOK
    BY DEF FaultsInv
<1>2. ASSUME NEW w \in Asked, Faults!Vote(w) \/ Faults!Show(w) \/ Faults!Collect(w) PROVE FALSE
    BY <1>1, <1>2 DEF Down, Faults!Vote, Faults!Show, Faults!Collect
<1>3. ASSUME NEW w \in Asked, Faults!Leave(w) PROVE Down'
    BY <1>1, <1>3 DEF Down, Faults!Leave, Faults!cvars, Answered, Told, Faults!TypeOK
<1>4. CASE Faults!Begin \/ Faults!GiveUp
    BY <1>1, <1>4 DEF Down, Faults!Begin, Faults!GiveUp, Faults!wvars, Answered, Told
<1>5. CASE Faults!Coordinator /\ ~Faults!Begin /\ ~Faults!GiveUp
    BY <1>1, <1>2, <1>5 DEF Down, Faults!Coordinator, Faults!Ask, Faults!EndCollect,
        Faults!Timeout,
     Faults!Mark, Faults!DecideNormal, Faults!DecideA, Faults!DecideB, Faults!DecideD,
     Faults!Decide, Faults!WriteLog, Faults!Recover, Faults!Tell, Faults!WaitAcks
<1> QED BY <1>2, <1>3, <1>4, <1>5 DEF Faults!Next, Asked

\* One lemma for each kind of step of the programs that ask.
LEMMA VoteKeeps ==
    ASSUME Faults!ScriptAssumption, Faults!TypeOK, Asks, scenario # "fault_c",
        NEW w \in Asked, Faults!Vote(w)
    PROVE  Asks'
<1> USE Behaviors, InOrder DEF Asked, Faults!TypeOK, Answered, Told, Ruled, RulingOf,
      Behavior, Faults!Done
<1> USE DEF Faults!Vote, Faults!cvars
<1>0. cpc' # "down" /\ scenario' = scenario /\ scenario \in Scenarios
    BY DEF Asks
<1>s. \A u \in Asked : Behavior(u)' = Behavior(u)
    BY <1>0, Same
<1>1. Honest'
    BY <1>0, <1>s DEF Asks, Honest
<1>2. Shown'
    BY <1>0, <1>s DEF Asks, Honest, Shown, InTurn, Untouched, Pending, AllIn, ToldRuling, Ruling
<1>3. InTurn'
    BY <1>0, <1>s DEF Asks, InTurn, Untouched
<1>4. Pending'
    BY <1>0, <1>s DEF Asks, InTurn, Untouched, Pending
<1>5. AllIn'
    BY <1>0, <1>s DEF Asks, AllIn
<1>6. Marked'
    BY <1>0, <1>s DEF Asks, Shown, Marked, ToldRuling, Ruling
<1>7. ToldRuling'
    BY <1>0, <1>s DEF Asks, InTurn, Untouched, Pending, ToldRuling, Ruling
<1>8. Ruling'
    BY <1>0, <1>s DEF Asks, ToldRuling, Ruling
<1> QED BY <1>0, <1>1, <1>2, <1>3, <1>4, <1>5, <1>6, <1>7, <1>8 DEF Asks

LEMMA ShowKeeps ==
    ASSUME Faults!ScriptAssumption, Faults!TypeOK, Asks, scenario # "fault_c",
        NEW w \in Asked, Faults!Show(w)
    PROVE  Asks'
<1> USE Behaviors, InOrder DEF Asked, Faults!TypeOK, Answered, Told, Ruled, RulingOf,
      Behavior, Faults!Done
<1> USE DEF Faults!Show, Faults!cvars
<1>0. cpc' # "down" /\ scenario' = scenario /\ scenario \in Scenarios
    BY DEF Asks
<1>s. \A u \in Asked : Behavior(u)' = Behavior(u)
    BY <1>0, Same
<1>1. Honest'
    BY <1>0, <1>s DEF Asks, Honest
<1>2. Shown'
    BY <1>0, <1>s DEF Asks, Honest, Shown, InTurn, Untouched, Pending, AllIn, ToldRuling, Ruling
<1>3. InTurn'
    BY <1>0, <1>s DEF Asks, InTurn, Untouched
<1>4. Pending'
    BY <1>0, <1>s DEF Asks, InTurn, Untouched, Pending
<1>5. AllIn'
    BY <1>0, <1>s DEF Asks, AllIn
<1>6. Marked'
    BY <1>0, <1>s DEF Asks, Shown, Marked, ToldRuling, Ruling
<1>7. ToldRuling'
    BY <1>0, <1>s DEF Asks, InTurn, Untouched, Pending, ToldRuling, Ruling
<1>8. Ruling'
    BY <1>0, <1>s DEF Asks, ToldRuling, Ruling
<1> QED BY <1>0, <1>1, <1>2, <1>3, <1>4, <1>5, <1>6, <1>7, <1>8 DEF Asks

LEMMA LeaveKeeps ==
    ASSUME Faults!ScriptAssumption, Faults!TypeOK, Asks, scenario # "fault_c",
        NEW w \in Asked, Faults!Leave(w)
    PROVE  Asks'
<1> USE Behaviors, InOrder DEF Asked, Faults!TypeOK, Answered, Told, Ruled, RulingOf,
      Behavior, Faults!Done
<1> USE DEF Faults!Leave, Faults!cvars
<1>0. cpc' # "down" /\ scenario' = scenario /\ scenario \in Scenarios
    BY DEF Asks
<1>s. \A u \in Asked : Behavior(u)' = Behavior(u)
    BY <1>0, Same
<1>1. Honest'
    BY <1>0, <1>s DEF Asks, Honest
<1>2. Shown'
    BY <1>0, <1>s DEF Asks, Honest, Shown, InTurn, Untouched, Pending, AllIn, ToldRuling, Ruling
<1>3. InTurn'
    BY <1>0, <1>s DEF Asks, InTurn, Untouched
<1>4. Pending'
    BY <1>0, <1>s DEF Asks, InTurn, Untouched, Pending
<1>5. AllIn'
    BY <1>0, <1>s DEF Asks, AllIn
<1>6. Marked'
    BY <1>0, <1>s DEF Asks, Shown, Marked, ToldRuling, Ruling
<1>7. ToldRuling'
    BY <1>0, <1>s DEF Asks, InTurn, Untouched, Pending, ToldRuling, Ruling
<1>8. Ruling'
    BY <1>0, <1>s DEF Asks, ToldRuling, Ruling
<1> QED BY <1>0, <1>1, <1>2, <1>3, <1>4, <1>5, <1>6, <1>7, <1>8 DEF Asks

LEMMA CollectKeeps ==
    ASSUME Faults!ScriptAssumption, Faults!TypeOK, Asks, scenario # "fault_c",
        NEW w \in Asked, Faults!Collect(w)
    PROVE  Asks'
<1> USE Behaviors, InOrder DEF Asked, Faults!TypeOK, Answered, Told, Ruled, RulingOf,
      Behavior, Faults!Done
<1> USE DEF Faults!Collect, Faults!cvars
<1>0. cpc' # "down" /\ scenario' = scenario /\ scenario \in Scenarios
    BY DEF Asks
<1>s. \A u \in Asked : Behavior(u)' = Behavior(u)
    BY <1>0, Same
<1>1. Honest'
    BY <1>0, <1>s DEF Asks, Honest
<1>2. Shown'
    BY <1>0, <1>s DEF Asks, Honest, Shown, InTurn, Untouched, Pending, AllIn, ToldRuling, Ruling
<1>3. InTurn'
    BY <1>0, <1>s DEF Asks, InTurn, Untouched
<1>4. Pending'
    BY <1>0, <1>s DEF Asks, InTurn, Untouched, Pending
<1>5. AllIn'
    BY <1>0, <1>s DEF Asks, AllIn
<1>6. Marked'
    BY <1>0, <1>s DEF Asks, Shown, Marked, ToldRuling, Ruling
<1>7. ToldRuling'
    BY <1>0, <1>s DEF Asks, InTurn, Untouched, Pending, ToldRuling, Ruling
<1>8. Ruling'
    BY <1>0, <1>s DEF Asks, ToldRuling, Ruling
<1> QED BY <1>0, <1>1, <1>2, <1>3, <1>4, <1>5, <1>6, <1>7, <1>8 DEF Asks

LEMMA BeginKeeps ==
    ASSUME Faults!ScriptAssumption, Faults!TypeOK, Asks, scenario # "fault_c", Faults!Begin
    PROVE  Asks'
<1> USE Behaviors, InOrder DEF Asked, Faults!TypeOK, Answered, Told, Ruled, RulingOf,
      Behavior, Faults!Done
<1> USE DEF Faults!Begin, Faults!wvars
<1>0. cpc' # "down" /\ scenario' = scenario /\ scenario \in Scenarios
    BY DEF Asks
<1>s. \A u \in Asked : Behavior(u)' = Behavior(u)
    BY <1>0, Same
<1>1. Honest'
    BY <1>0, <1>s DEF Asks, Honest
<1>2. Shown'
    BY <1>0, <1>s DEF Asks, Honest, Shown, InTurn, Untouched, Pending, AllIn, ToldRuling, Ruling
<1>3. InTurn'
    BY <1>0, <1>s DEF Asks, InTurn, Untouched
<1>4. Pending'
    BY <1>0, <1>s DEF Asks, InTurn, Untouched, Pending
<1>5. AllIn'
    BY <1>0, <1>s DEF Asks, AllIn
<1>6. Marked'
    BY <1>0, <1>s DEF Asks, Shown, Marked, ToldRuling, Ruling
<1>7. ToldRuling'
    BY <1>0, <1>s DEF Asks, InTurn, Untouched, Pending, ToldRuling, Ruling
<1>8. Ruling'
    BY <1>0, <1>s DEF Asks, ToldRuling, Ruling
<1> QED BY <1>0, <1>1, <1>2, <1>3, <1>4, <1>5, <1>6, <1>7, <1>8 DEF Asks

LEMMA WriteLogKeeps ==
    ASSUME Faults!ScriptAssumption, Faults!TypeOK, Asks, scenario # "fault_c", Faults!WriteLog
    PROVE  Asks'
<1> USE Behaviors, InOrder DEF Asked, Faults!TypeOK, Answered, Told, Ruled, RulingOf,
      Behavior, Faults!Done
<1> USE DEF Faults!WriteLog, Faults!wvars
<1>0. cpc' # "down" /\ scenario' = scenario /\ scenario \in Scenarios
    BY DEF Asks
<1>s. \A u \in Asked : Behavior(u)' = Behavior(u)
    BY <1>0, Same
<1>1. Honest'
    BY <1>0, <1>s DEF Asks, Honest
<1>2. Shown'
    BY <1>0, <1>s DEF Asks, Honest, Shown, InTurn, Untouched, Pending, AllIn, ToldRuling, Ruling
<1>3. InTurn'
    BY <1>0, <1>s DEF Asks, InTurn, Untouched
<1>4. Pending'
    BY <1>0, <1>s DEF Asks, InTurn, Untouched, Pending
<1>5. AllIn'
    BY <1>0, <1>s DEF Asks, AllIn
<1>6. Marked'
    BY <1>0, <1>s DEF Asks, Shown, Marked, ToldRuling, Ruling
<1>7. ToldRuling'
    BY <1>0, <1>s DEF Asks, InTurn, Untouched, Pending, ToldRuling, Ruling
<1>8. Ruling'
    BY <1>0, <1>s DEF Asks, ToldRuling, Ruling
<1> QED BY <1>0, <1>1, <1>2, <1>3, <1>4, <1>5, <1>6, <1>7, <1>8 DEF Asks

LEMMA GoOnKeeps ==
    ASSUME Faults!ScriptAssumption, Faults!TypeOK, Asks, scenario # "fault_c",
        Faults!EndCollect \/ Faults!Timeout \/ Faults!Recover \/ Faults!WaitAcks
    PROVE  Asks'
<1> USE Behaviors, InOrder DEF Asked, Faults!TypeOK, Answered, Told, Ruled, RulingOf,
      Behavior, Faults!Done
<1> USE DEF Faults!EndCollect, Faults!Timeout, Faults!Recover, Faults!WaitAcks, Faults!wvars
<1>0. cpc' # "down" /\ scenario' = scenario /\ scenario \in Scenarios
    BY DEF Asks
<1>s. \A u \in Asked : Behavior(u)' = Behavior(u)
    BY <1>0, Same
<1>1. Honest'
    BY <1>0, <1>s DEF Asks, Honest
<1>2. Shown'
    BY <1>0, <1>s DEF Asks, Honest, Shown, InTurn, Untouched, Pending, AllIn, ToldRuling, Ruling
<1>3. InTurn'
    BY <1>0, <1>s DEF Asks, InTurn, Untouched
<1>4. Pending'
    BY <1>0, <1>s DEF Asks, InTurn, Untouched, Pending
<1>5. AllIn'
    BY <1>0, <1>s DEF Asks, AllIn
<1>6. Marked'
    BY <1>0, <1>s DEF Asks, Shown, Marked, ToldRuling, Ruling
<1>7. ToldRuling'
    BY <1>0, <1>s DEF Asks, InTurn, Untouched, Pending, ToldRuling, Ruling
<1>8. Ruling'
    BY <1>0, <1>s DEF Asks, ToldRuling, Ruling
<1> QED BY <1>0, <1>1, <1>2, <1>3, <1>4, <1>5, <1>6, <1>7, <1>8 DEF Asks

LEMMA DecideKeeps ==
    ASSUME Faults!ScriptAssumption, Faults!TypeOK, Asks, scenario # "fault_c",
        Faults!DecideNormal \/ Faults!DecideA \/ Faults!DecideB \/ Faults!DecideD
    PROVE  Asks'
<1> USE Behaviors, InOrder DEF Asked, Faults!TypeOK, Answered, Told, Ruled, RulingOf,
      Behavior, Faults!Done
<1> USE DEF Faults!DecideNormal, Faults!DecideA, Faults!DecideB, Faults!DecideD,
      Faults!Decide, Faults!HasNo, Faults!wvars
<1>0. cpc' # "down" /\ scenario' = scenario /\ scenario \in Scenarios
    BY DEF Asks
<1>s. \A u \in Asked : Behavior(u)' = Behavior(u)
    BY <1>0, Same
<1>1. Honest'
    BY <1>0, <1>s DEF Asks, Honest
<1>2. Shown'
    BY <1>0, <1>s DEF Asks, Honest, Shown, InTurn, Untouched, Pending, AllIn, ToldRuling, Ruling
<1>3. InTurn'
    BY <1>0, <1>s DEF Asks, InTurn, Untouched
<1>4. Pending'
    BY <1>0, <1>s DEF Asks, InTurn, Untouched, Pending
<1>5. AllIn'
    BY <1>0, <1>s DEF Asks, AllIn
<1>6. Marked'
    BY <1>0, <1>s DEF Asks, Shown, Marked, ToldRuling, Ruling
<1>7. ToldRuling'
    BY <1>0, <1>s DEF Asks, InTurn, Untouched, Pending, ToldRuling, Ruling
<1>8. Ruling'
    BY <1>0, <1>s DEF Asks, Honest, AllIn, ToldRuling, Ruling
<1> QED BY <1>0, <1>1, <1>2, <1>3, <1>4, <1>5, <1>6, <1>7, <1>8 DEF Asks

LEMMA AskKeeps ==
    ASSUME Faults!ScriptAssumption, Faults!TypeOK, Asks, scenario # "fault_c", Faults!Ask
    PROVE  Asks'
<1> USE Behaviors, InOrder DEF Asked, Faults!TypeOK, Answered, Told, Ruled, RulingOf,
      Behavior, Faults!Done
<1>v. PICK v \in Asked : v = Workers[next]
    BY InTurns
<1>e. /\ cpc = "ask" /\ wpc[v] = "select" /\ cpc' \in {"ask", "collect"}
      /\ cpc' = "ask" => next' = next + 1
      /\ cpc' = "collect" => next' = 1
      /\ wpc' = [wpc EXCEPT ![v] = IF Faults!Behavior(v) = "silent" THEN "select" ELSE "vote"]
      /\ UNCHANGED <<scenario, coord, ruling, log, table, onWay, votes, told, acks>>
    BY <1>v DEF Faults!Ask
<1>0. cpc' # "down" /\ scenario' = scenario /\ scenario \in Scenarios
    BY <1>v, <1>e DEF Asks
<1>s. \A u \in Asked : Behavior(u)' = Behavior(u)
    BY <1>0, Same
<1>1. Honest'
    BY <1>0, <1>s, <1>v, <1>e DEF Asks, Honest
<1>2. Shown'
    BY <1>0, <1>s, <1>v, <1>e DEF Asks, Honest, Shown, InTurn, Untouched, Pending, AllIn,
        ToldRuling, Ruling
<1>3. InTurn'
    BY <1>0, <1>s, <1>v, <1>e DEF Asks, InTurn, Untouched
<1>4. Pending'
    BY <1>0, <1>s, <1>v, <1>e DEF Asks, InTurn, Untouched, Pending
<1>5. AllIn'
    BY <1>0, <1>s, <1>v, <1>e DEF Asks, AllIn
<1>6. Marked'
    BY <1>0, <1>s, <1>v, <1>e DEF Asks, Shown, Marked, ToldRuling, Ruling
<1>7. ToldRuling'
    BY <1>0, <1>s, <1>v, <1>e DEF Asks, InTurn, Untouched, Pending, ToldRuling, Ruling
<1>8. Ruling'
    BY <1>0, <1>s, <1>v, <1>e DEF Asks, ToldRuling, Ruling
<1> QED BY <1>0, <1>1, <1>2, <1>3, <1>4, <1>5, <1>6, <1>7, <1>8 DEF Asks

LEMMA MarkKeeps ==
    ASSUME Faults!ScriptAssumption, Faults!TypeOK, Asks, scenario # "fault_c", Faults!Mark
    PROVE  Asks'
<1> USE Behaviors, InOrder DEF Asked, Faults!TypeOK, Answered, Told, Ruled, RulingOf,
      Behavior, Faults!Done
<1>v. PICK v \in Asked : v = Workers[next]
    BY InTurns
<1>e. /\ cpc = "mark" /\ cpc' \in {"mark", "decide"}
      /\ cpc' = "mark" => next' = next + 1
      /\ cpc' = "decide" => next = Len(Workers) /\ next' = 1
      /\ table' = [table EXCEPT ![v] = IF votes[v] = "no" THEN "ABORT" ELSE "READY"]
      /\ UNCHANGED <<scenario, coord, ruling, log, wpc, onWay, votes, told, acks>>
    BY <1>v DEF Faults!Mark, Faults!MarkedAs, Faults!wvars
<1>0. cpc' # "down" /\ scenario' = scenario /\ scenario \in Scenarios
    BY <1>v, <1>e DEF Asks
<1>s. \A u \in Asked : Behavior(u)' = Behavior(u)
    BY <1>0, Same
<1>1. Honest'
    BY <1>s, <1>e DEF Asks, Honest
<1>2. Shown'
  <2>1. v \notin acks
    BY <1>e DEF Asks, ToldRuling
  <2>2. votes[v] = "no" <=> Answered(v) /\ Behavior(v) = "no"
    BY <1>0, <1>e DEF Asks, Honest, AllIn
  <2>3. table'[v] = (IF votes[v] = "no" THEN "ABORT" ELSE "READY") /\ \A w \in Asked \ {v} : table'[w] = table[w]
    BY <1>e
  <2>0. Answered(v) \/ scenario = "fault_b"
    BY <1>e DEF Asks, AllIn
  <2> SUFFICES ASSUME NEW w \in Asked
               PROVE  table'[w] \in IF w \in acks THEN {ruling}
                        ELSE IF Answered(w) THEN {IF Behavior(w) = "no" THEN "ABORT" ELSE "READY"}
                        ELSE IF scenario = "fault_b" THEN {"INIT", "READY"} ELSE {"INIT"}
    BY <1>s, <1>e DEF Shown
  <2>4. CASE w = v
    BY <2>0, <2>1, <2>2, <2>3, <2>4
  <2>5. CASE w # v
    BY <2>3, <2>5 DEF Asks, Shown
  <2> QED BY <2>4, <2>5
<1>3. InTurn'
    BY <1>0, <1>s, <1>v, <1>e DEF Asks, InTurn, Untouched
<1>4. Pending'
    BY <1>s, <1>e DEF Asks, Pending
<1>5. AllIn'
    BY <1>0, <1>s, <1>v, <1>e DEF Asks, AllIn
<1>6. Marked'
  <2>1. table'[v] # "INIT" /\ \A w \in Asked \ {v} : table'[w] = table[w]
    BY <1>e
  <2>2. \A i \in 1..next : table'[Workers[i]] # "INIT"
    <3> SUFFICES ASSUME NEW i \in 1..next PROVE table'[Workers[i]] # "INIT"
      OBVIOUS
    <3>1. CASE i = next
      BY <1>v, <2>1, <3>1
    <3>2. CASE i # next
      <4>1. i \in 1..(next - 1) /\ Workers[i] \in Asked
        BY <3>2
      <4>2. table[Workers[i]] # "INIT"
        BY <1>e, <4>1 DEF Asks, Marked
      <4> QED BY <2>1, <4>1, <4>2
    <3> QED BY <3>1, <3>2
  <2>3. CASE cpc' = "mark"
    BY <1>e, <2>2, <2>3 DEF Marked
  <2>4. CASE cpc' = "decide"
    BY <1>e, <2>2, <2>4 DEF Marked
  <2> QED BY <1>e, <2>3, <2>4
<1>7. ToldRuling'
    BY <1>0, <1>s, <1>v, <1>e DEF Asks, InTurn, Untouched, Pending, ToldRuling, Ruling
<1>8. Ruling'
    BY <1>0, <1>s, <1>v, <1>e DEF Asks, ToldRuling, Ruling
<1> QED BY <1>0, <1>1, <1>2, <1>3, <1>4, <1>5, <1>6, <1>7, <1>8 DEF Asks

LEMMA TellKeeps ==
    ASSUME Faults!ScriptAssumption, Faults!TypeOK, Asks, scenario # "fault_c", Faults!Tell
    PROVE  Asks'
<1> USE Behaviors, InOrder DEF Asked, Faults!TypeOK, Answered, Told, Ruled, RulingOf,
      Behavior, Faults!Done
<1>v. PICK v \in Asked : v = Workers[next]
    BY InTurns
<1>e. /\ cpc = "tell" /\ wpc[v] = "select" /\ cpc' \in {"tell", "wait"}
      /\ cpc' = "wait" => next' = 1
      /\ told' = [told EXCEPT ![v] = coord] /\ wpc' = [wpc EXCEPT ![v] = "show"]
      /\ UNCHANGED <<scenario, coord, ruling, log, table, onWay, votes, acks>>
    BY <1>v DEF Faults!Tell
<1>0. cpc' # "down" /\ scenario' = scenario /\ scenario \in Scenarios
    BY <1>v, <1>e DEF Asks
<1>s. \A u \in Asked : Behavior(u)' = Behavior(u)
    BY <1>0, Same
<1>1. Honest'
    BY <1>0, <1>s, <1>v, <1>e DEF Asks, Honest
<1>2. Shown'
    BY <1>0, <1>s, <1>v, <1>e DEF Asks, Honest, Shown, InTurn, Untouched, Pending, AllIn,
        ToldRuling, Ruling
<1>3. InTurn'
    BY <1>0, <1>s, <1>v, <1>e DEF Asks, InTurn, Untouched
<1>4. Pending'
    BY <1>0, <1>s, <1>v, <1>e DEF Asks, InTurn, Untouched, Pending
<1>5. AllIn'
    BY <1>0, <1>s, <1>v, <1>e DEF Asks, AllIn
<1>6. Marked'
    BY <1>0, <1>s, <1>v, <1>e DEF Asks, Shown, Marked, ToldRuling, Ruling
<1>7. ToldRuling'
    BY <1>0, <1>s, <1>v, <1>e DEF Asks, InTurn, Untouched, Pending, ToldRuling, Ruling
<1>8. Ruling'
    BY <1>0, <1>s, <1>v, <1>e DEF Asks, ToldRuling, Ruling
<1> QED BY <1>0, <1>1, <1>2, <1>3, <1>4, <1>5, <1>6, <1>7, <1>8 DEF Asks

\* Each step keeps the invariant.
LEMMA NextKeeps == ASSUME Faults!ScriptAssumption, FaultsInv, Faults!Next PROVE FaultsInv'
<1>1. Faults!TypeOK' /\ scenario' = scenario
    BY Typed DEF Faults!Next, Faults!Coordinator, Faults!Vote, Faults!Show, Faults!Leave,
     Faults!Begin, Faults!Ask, Faults!EndCollect, Faults!Timeout, Faults!Mark, Faults!Collect,
     Faults!DecideNormal, Faults!DecideA, Faults!DecideB, Faults!DecideD, Faults!Decide,
     Faults!WriteLog, Faults!Recover, Faults!GiveUp, Faults!Tell, Faults!WaitAcks
<1>2. CASE scenario = "fault_c"
    BY <1>1, <1>2, DownStays DEF FaultsInv
<1>3. CASE scenario # "fault_c"
  <2>1. Asks /\ Faults!TypeOK
    BY <1>3 DEF FaultsInv
  <2>2. ~Faults!GiveUp
    BY <2>1 DEF Asks, Faults!GiveUp
  <2>3. Asks'
    BY <1>3, <2>1, <2>2, VoteKeeps, ShowKeeps, LeaveKeeps, CollectKeeps, BeginKeeps,
        WriteLogKeeps,
       GoOnKeeps, DecideKeeps, AskKeeps, MarkKeeps, TellKeeps
       DEF Faults!Next, Faults!Coordinator, Asked
  <2> QED BY <1>1, <1>3, <2>3 DEF FaultsInv
<1> QED BY <1>2, <1>3

LEMMA StillKeeps == ASSUME FaultsInv, UNCHANGED Faults!vars PROVE FaultsInv'
<1>1. /\ scenario' = scenario /\ cpc' = cpc /\ next' = next /\ coord' = coord
      /\ ruling' = ruling /\ log' = log /\ table' = table /\ wpc' = wpc /\ onWay' = onWay
      /\ votes' = votes /\ told' = told /\ acks' = acks
    BY DEF Faults!vars, Faults!cvars, Faults!wvars
<1>2. \A w : Behavior(w)' = Behavior(w)
    BY <1>1, Same
<1>3. Faults!TypeOK' <=> Faults!TypeOK
    BY <1>1 DEF Faults!TypeOK
<1>4. Down' <=> Down
    BY <1>1 DEF Down, Answered, Told
<1>5. /\ Honest' <=> Honest
      /\ Shown' <=> Shown
    BY <1>1, <1>2 DEF Honest, Shown, Answered
<1>6. /\ InTurn' <=> InTurn
      /\ Pending' <=> Pending
    BY <1>1, <1>2 DEF InTurn, Untouched, Pending, Answered
<1>7. /\ AllIn' <=> AllIn
      /\ Marked' <=> Marked
    BY <1>1 DEF AllIn, Marked, Ruled
<1>8. /\ ToldRuling' <=> ToldRuling
      /\ Ruling' <=> Ruling
    BY <1>1 DEF ToldRuling, Ruling, RulingOf, Told, Ruled
<1> QED BY <1>1, <1>3, <1>4, <1>5, <1>6, <1>7, <1>8 DEF FaultsInv, Asks

LEMMA FaultsInvariance == ASSUME Faults!ScriptAssumption PROVE Faults!Spec => []FaultsInv
<1>1. Faults!Init => FaultsInv
    BY FaultsTrue
<1>2. FaultsInv /\ [Faults!Next]_(Faults!vars) => FaultsInv'
    BY NextKeeps, StillKeeps
<1> QED BY <1>1, <1>2, PTL DEF Faults!Spec

\* Each program ends as its README says, with any workers: nobody differs once the
\* coordinator has returned, whatever votes and markings race.
THEOREM AsTheReadmeSays == ASSUME Faults!ScriptAssumption PROVE Faults!Spec => []Faults!Expected
<1>1. FaultsInv => Faults!Expected
  <2> SUFFICES ASSUME FaultsInv, cpc = "done" PROVE Faults!Expected
    BY DEF Faults!Expected
  <2> USE DEF Asked, Answered, Told, Ruled
  <2>1. CASE scenario = "fault_c"
    BY <2>1 DEF FaultsInv, Down, Faults!Expected
  <2>2. CASE scenario # "fault_c" /\ acks = Asked
    <3>1. \A w \in Asked : table[w] = ruling
      BY <2>2 DEF FaultsInv, Asks, Shown
    <3>2. ruling = RulingOf
      BY <2>2 DEF FaultsInv, Asks, Ruling
    <3> QED BY <2>2, <3>1, <3>2 DEF Faults!Expected, RulingOf
  <2>3. CASE scenario # "fault_c" /\ acks # Asked
    <3>1. scenario = "fault_d" /\ acks = {}
      BY <2>3 DEF FaultsInv, Asks, Ruling
    <3>2. \A w \in Asked : votes[w] # "none" /\ Behavior(w) = "yes"
      BY <3>1, Behaviors DEF FaultsInv, Asks, AllIn, Faults!TypeOK
    <3>3. \A w \in Asked : table[w] = "READY"
      BY <2>3, <3>1, <3>2 DEF FaultsInv, Asks, Shown
    <3> QED BY <3>1, <3>3 DEF Faults!Expected
  <2> QED BY <2>1, <2>2, <2>3
<1> QED BY <1>1, FaultsInvariance, PTL

-----------------------------------------------------------------------------
\* The stages of the table, one by one.
LEMMA TableStages ==
    /\ Faults!StageOf["INIT"] = "works" /\ Faults!StageOf["READY"] = "prepared"
    /\ Faults!StageOf["COMMIT"] = "commit" /\ Faults!StageOf["ABORT"] = "abort"
BY DEF Faults!StageOf

LEMMA FaultsInit == Faults!Init => Faults!AC!Init
BY DEF Faults!Init, Faults!AC!Init, Faults!StageOf

\* The outcome and the stages that the programs show.
ruled == IF ruling = "open" THEN "open" ELSE Faults!StageOf[ruling]
staged == [w \in Asked |-> IF scenario = "fault_c" THEN "works" ELSE Faults!StageOf[table[w]]]

\* A vote prepares or gives up, a marking prepares the silent, showing a decision
\* obeys; nothing else is seen of the abstract commit.
LEMMA FaultsStep ==
    ASSUME Faults!ScriptAssumption, FaultsInv, Faults!Next
        PROVE [Faults!AC!Next]_(Faults!AC!vars)
<1> USE DEF Asked
<1>1. Faults!TypeOK /\ scenario' = scenario
    BY DEF FaultsInv, Faults!Next, Faults!Coordinator, Faults!Vote, Faults!Show, Faults!Leave,
     Faults!Begin, Faults!Ask, Faults!EndCollect, Faults!Timeout, Faults!Mark, Faults!Collect,
     Faults!DecideNormal, Faults!DecideA, Faults!DecideB, Faults!DecideD, Faults!Decide,
     Faults!WriteLog, Faults!Recover, Faults!GiveUp, Faults!Tell, Faults!WaitAcks
<1>2. ASSUME ruling' = ruling, scenario = "fault_c" \/ table' = table
      PROVE UNCHANGED Faults!AC!vars
    BY <1>1, <1>2 DEF Faults!AC!vars
<1>3. ASSUME ruling' = ruling, scenario # "fault_c", NEW w \in Asked, NEW s \in {"READY",
      "COMMIT", "ABORT"},
             table' = [table EXCEPT ![w] = s],
             \/ table[w] = s 
             \/ table[w] = "INIT" /\ s # "COMMIT"
             \/ table[w] = "READY" /\ s = ruling
      PROVE [Faults!AC!Next]_(Faults!AC!vars)
  <2>1. staged' = [staged EXCEPT ![w] = Faults!StageOf[s]]
    BY <1>1, <1>3 DEF staged, Faults!TypeOK
  <2>2. staged[w] = Faults!StageOf[table[w]]
    BY <1>3 DEF staged
  <2>3. CASE table[w] = s
    <3>1. table' = table
      BY <1>1, <1>3, <2>3 DEF Faults!TypeOK
    <3> QED BY <1>2, <1>3, <3>1
  <2>4. CASE table[w] = "INIT" /\ s # "COMMIT"
    <3>1. Faults!AC!Prepare(w) \/ Faults!AC!GiveUp(w)
      BY <1>3, <2>1, <2>2, <2>4, TableStages DEF Faults!AC!Prepare, Faults!AC!GiveUp,
          Faults!AC!Moves, staged
    <3> QED BY <3>1 DEF Faults!AC!Next
  <2>5. CASE table[w] = "READY" /\ s = ruling
    <3>1. Faults!AC!Obey(w)
      BY <1>3, <2>1, <2>2, <2>5, TableStages DEF Faults!AC!Obey, Faults!AC!Moves, staged
    <3> QED BY <3>1 DEF Faults!AC!Next
  <2> QED BY <1>3, <2>3, <2>4, <2>5
<1>4. ASSUME NEW w \in Asked, Faults!Vote(w) PROVE [Faults!AC!Next]_(Faults!AC!vars)
  <2>1. scenario # "fault_c" /\ ruling' = ruling
    BY <1>4 DEF FaultsInv, Down, Faults!Vote, Faults!cvars
  <2>2. w \notin acks /\ ~Answered(w)
    BY <1>4, <2>1 DEF FaultsInv, Asks, Pending, ToldRuling, Faults!Vote
  <2>3. table[w] \in IF scenario = "fault_b" THEN {"INIT", "READY"} ELSE {"INIT"}
    BY <2>1, <2>2 DEF FaultsInv, Asks, Shown
  <2>4. scenario = "fault_b" => Behavior(w) # "no"
    BY <1>1, Behaviors DEF Faults!TypeOK
  <2> DEFINE s == IF Behavior(w) = "no" THEN "ABORT" ELSE "READY"
  <2>5. table' = [table EXCEPT ![w] = s]
    BY <1>4 DEF Faults!Vote, Behavior
  <2>6. s \in {"READY", "COMMIT", "ABORT"} /\ (table[w] = s \/ (table[w] = "INIT" /\ s # "COMMIT"))
    BY <2>3, <2>4
  <2> HIDE DEF s
  <2> QED BY <1>3, <2>1, <2>5, <2>6
<1>5. ASSUME NEW w \in Asked, Faults!Show(w) PROVE [Faults!AC!Next]_(Faults!AC!vars)
  <2>1. scenario # "fault_c" /\ ruling' = ruling
    BY <1>5 DEF FaultsInv, Down, Faults!Show, Faults!cvars
  <2>2. told[w] = ruling /\ cpc \in {"tell", "wait", "done"}
    BY <1>5, <2>1 DEF FaultsInv, Asks, ToldRuling, Faults!Show
  <2>3. ruling = RulingOf /\ table[w] # "INIT"
    BY <2>1, <2>2 DEF FaultsInv, Asks, Ruling, Marked, Ruled
  <2>4. table[w] \in {ruling, "READY"} \/ (table[w] = "ABORT" /\ Behavior(w) = "no")
    BY <2>1, <2>3 DEF FaultsInv, Asks, Shown
  <2>5. Behavior(w) = "no" => ruling = "ABORT"
    BY <1>1, <2>3, Behaviors DEF Faults!TypeOK, RulingOf
  <2>6. table' = [table EXCEPT ![w] = ruling]
    BY <1>5, <2>2 DEF Faults!Show
  <2> QED BY <1>3, <2>1, <2>3, <2>4, <2>5, <2>6 DEF RulingOf
<1>6. CASE Faults!Mark
  <2>1. PICK w \in Asked : w = Workers[next]
    BY <1>1, InTurns
  <2>2. scenario # "fault_c" /\ ruling' = ruling /\ cpc = "mark"
    BY <1>6 DEF FaultsInv, Down, Faults!Mark
  <2>3. w \notin acks
    BY <2>2 DEF FaultsInv, Asks, ToldRuling
  <2> DEFINE s == IF votes[w] = "no" THEN "ABORT" ELSE "READY"
  <2>4. table' = [table EXCEPT ![w] = s]
    BY <1>6, <2>1 DEF Faults!Mark, Faults!MarkedAs
  <2>5. s = "ABORT" => table[w] = "ABORT"
    BY <2>2, <2>3 DEF FaultsInv, Asks, Shown, Honest, Answered
  <2>6. s = "READY" => table[w] \in {"INIT", "READY"}
    <3>1. CASE votes[w] = "none"
      <4>1. scenario = "fault_b"
        BY <2>2, <3>1 DEF FaultsInv, Asks, AllIn
      <4>2. Behavior(w) # "no"
        BY <1>1, <4>1, Behaviors DEF Faults!TypeOK
      <4> QED BY <2>2, <2>3, <4>2 DEF FaultsInv, Asks, Shown
    <3>2. CASE votes[w] \notin {"none", "no"}
      BY <2>2, <2>3, <3>2 DEF FaultsInv, Asks, Shown, Honest, Answered
    <3> QED BY <3>1, <3>2
  <2>7. s \in {"READY", "ABORT"}
    OBVIOUS
  <2> HIDE DEF s
  <2> QED BY <1>3, <2>2, <2>4, <2>5, <2>6, <2>7
<1>7. CASE Faults!WriteLog
  <2>1. scenario = "fault_d" /\ ruling' = ruling /\ cpc = "log"
    BY <1>7 DEF FaultsInv, Down, Asks, Ruling, Faults!WriteLog
  <2>2. \A w \in Asked : w \notin acks /\ Behavior(w) = "yes" /\ Answered(w)
    BY <1>1, <2>1, Behaviors DEF FaultsInv, Asks, AllIn, ToldRuling, Answered, Faults!TypeOK
  <2>3. \A w \in Asked : table[w] = "READY"
    BY <2>1, <2>2 DEF FaultsInv, Asks, Shown
  <2>4. table' = table
    BY <1>1, <1>7, <2>3 DEF Faults!WriteLog, Faults!TypeOK
  <2> QED BY <1>2, <2>1, <2>4
<1>8. CASE Faults!Begin
  <2>1. scenario # "fault_c" => table' = table
    BY <1>1, <1>8 DEF FaultsInv, Asks, InTurn, Untouched, Faults!Begin, Faults!TypeOK
  <2> QED BY <1>2, <1>8, <2>1 DEF Faults!Begin
<1>9. CASE Faults!GiveUp
    BY <1>2, <1>9 DEF FaultsInv, Asks, Faults!GiveUp
<1>10. CASE Faults!DecideNormal \/ Faults!DecideA \/ Faults!DecideB \/ Faults!DecideD
  <2>1. /\ scenario # "fault_c" /\ table' = table /\ cpc = "decide"
        /\ cpc' \in {"log", "tell"} /\ ruling' \in {"COMMIT", "ABORT"}
    BY <1>10 DEF Faults!DecideNormal, Faults!DecideA, Faults!DecideB, Faults!DecideD,
        Faults!Decide
  <2>2. ruling = "open"
    BY <2>1 DEF FaultsInv, Asks, Ruling, Ruled
  <2>3. ASSUME ruling' = "COMMIT", NEW w \in Asked PROVE table[w] = "READY"
    <3>1. Behavior(w) # "no" /\ Answered(w) /\ w \notin acks
      <4>1. scenario # "fault_b"
        BY <1>10, <2>3 DEF Faults!DecideNormal, Faults!DecideA, Faults!DecideB,
            Faults!DecideD, Faults!Decide
      <4>2. votes[w] = Behavior(w) /\ votes[w] # "none" /\ w \notin acks
        BY <2>1, <4>1 DEF FaultsInv, Asks, AllIn, Honest, ToldRuling
      <4>3. scenario = "fault_a" => votes[w] # "no"
        BY <1>10, <2>3 DEF Faults!DecideNormal, Faults!DecideA, Faults!DecideB,
            Faults!DecideD, Faults!Decide,
           Faults!HasNo
      <4> QED BY <1>1, <2>1, <4>1, <4>2, <4>3, Behaviors DEF Faults!TypeOK, Answered
    <3> QED BY <2>1, <3>1 DEF FaultsInv, Asks, Shown
  <2>4. staged' = staged
    BY <1>1, <2>1 DEF staged
  <2>5. Faults!AC!Decide(Faults!StageOf[ruling'])
    BY <2>1, <2>2, <2>3, <2>4, TableStages DEF Faults!AC!Decide, staged
  <2>6. Faults!StageOf[ruling'] \in {"commit", "abort"}
    BY <2>1, TableStages
  <2> QED BY <2>5, <2>6 DEF Faults!AC!Next
<1>11. ASSUME NEW w \in Asked, Faults!Leave(w) \/ Faults!Collect(w)
      PROVE [Faults!AC!Next]_(Faults!AC!vars)
    BY <1>2, <1>11 DEF Faults!Leave, Faults!Collect, Faults!cvars
<1>12. CASE Faults!Ask \/ Faults!EndCollect \/ Faults!Timeout \/ Faults!Recover
      \/ Faults!Tell \/ Faults!WaitAcks
    BY <1>2, <1>12 DEF Faults!Ask, Faults!EndCollect, Faults!Timeout, Faults!Recover,
        Faults!Tell, Faults!WaitAcks
<1> QED BY <1>4, <1>5, <1>6, <1>7, <1>8, <1>9, <1>10, <1>11, <1>12 DEF Faults!Next,
      Faults!Coordinator

\* Every program of ch5/exp6 is an atomic commit.
THEOREM FaultsRefine == ASSUME Faults!ScriptAssumption PROVE Faults!Spec => Faults!Atomic
<1>1. FaultsInv /\ [Faults!Next]_(Faults!vars) => [Faults!AC!Next]_(Faults!AC!vars)
  <2> SUFFICES ASSUME FaultsInv, UNCHANGED Faults!vars PROVE UNCHANGED Faults!AC!vars
    BY FaultsStep
  <2> QED BY DEF Faults!vars, Faults!cvars, Faults!AC!vars
<1> QED BY FaultsInit, FaultsInvariance, <1>1, PTL DEF Faults!Spec, Faults!Atomic,
      Faults!AC!Spec

-----------------------------------------------------------------------------
(*                                                                         *)
(* The migration of a player (Migration).                                  *)
(*                                                                         *)
CONSTANTS Modes, Client, MaxBreaks
VARIABLES mode, apc, chunk, frozen, migrated, link, toB, toA, ready, at, handler, late, breaks
Moving == INSTANCE Migration

\* Whether chunk c of program m is the one that is sent while frozen.
Key(m, c) == (CASE m = "stop" -> Moving!StopScript [] m = "pre" -> Moving!PreScript
                [] m = "wave" -> Moving!WaveScript)[c] \in {"full", "final_dirty", "critical_state"}
Chunks(m) == CASE m = "stop" -> 1 [] m = "pre" -> 4 [] m = "wave" -> 5

\* An action that is through late is the last one of its connection.
LastOne == \A c \in Client : late[c] = 1 => frozen /\ handler[c] # "online"

\* Nobody is redirected before A has the confirmation of the critical chunk,
\* and B is ready before it gives it, where no chunk is taken for sent.
Confirmed == /\ \A c \in Client : at[c] = "B" => migrated
             /\ migrated => ready
             /\ toA # 0 /\ Key(mode, toA) => ready
Sure == (Modes = {"stop"} \/ MaxBreaks = 0) => Confirmed
Unbroken == MaxBreaks = 0 => link # "broken"

MoveInv == Moving!TypeOK /\ LastOne /\ Sure /\ Unbroken

LEMMA Scripts ==
    ASSUME Moving!MigrationAssumption, Moving!TypeOK
    PROVE  /\ mode \in {"stop", "pre", "wave"} /\ MaxBreaks \in Nat
           /\ Len(Moving!Script) = Chunks(mode) /\ Chunks(mode) \in {1, 4, 5}
           /\ \A c : Moving!Critical(c) <=> Key(mode, c)
<1>1. mode \in {"stop", "pre", "wave"} /\ MaxBreaks \in Nat
    BY DEF Moving!MigrationAssumption, Moving!TypeOK
<1>2. \A c : Moving!Critical(c) <=> Key(mode, c)
    BY DEF Moving!Critical, Key, Moving!Script
<1>3. Len(Moving!Script) = Chunks(mode)
  <2>1. CASE mode = "stop"
      BY <2>1 DEF Moving!Script, Moving!StopScript, Chunks
  <2>2. CASE mode = "pre"
      BY <2>2 DEF Moving!Script, Moving!PreScript, Chunks
  <2>3. CASE mode = "wave"
      BY <2>3 DEF Moving!Script, Moving!WaveScript, Chunks
  <2> QED BY <1>1, <2>1, <2>2, <2>3
<1>4. Chunks(mode) \in {1, 4, 5}
    BY <1>1 DEF Chunks
<1> QED BY <1>1, <1>2, <1>3, <1>4

LEMMA MoveInit ==
    ASSUME Moving!MigrationAssumption, Moving!Init
    PROVE  MoveInv
<1>1. Moving!TypeOK
  <2>1. breaks \in 0..MaxBreaks /\ chunk \in 1..5 /\ toB \in 0..5 /\ toA \in 0..5
      BY DEF Moving!MigrationAssumption, Moving!Init
  <2>2. late \in [Client -> 0..1]
      BY DEF Moving!Init
  <2> QED BY <2>1, <2>2 DEF Moving!Init, Moving!TypeOK
<1> QED BY <1>1 DEF Moving!Init, MoveInv, LastOne, Sure, Confirmed, Unbroken

\* Server-A: what it does leaves the clients alone.
LEMMA ServerAKeeps ==
    ASSUME Moving!MigrationAssumption, MoveInv,
           \/ Moving!StartMigration \/ Moving!Freeze \/ Moving!SendPayload \/ Moving!ReadDone
           \/ Moving!ChunkFails \/ Moving!Break \/ Moving!Exit
    PROVE  MoveInv'
<1>1. Moving!TypeOK /\ LastOne /\ Sure /\ Unbroken
    BY DEF MoveInv
<1>2. /\ mode \in {"stop", "pre", "wave"} /\ MaxBreaks \in Nat
      /\ Len(Moving!Script) = Chunks(mode) /\ Chunks(mode) \in {1, 4, 5}
      /\ \A c : Moving!Critical(c) <=> Key(mode, c)
    BY <1>1, Scripts
<1>3. /\ UNCHANGED <<mode, ready, at, handler, late>> /\ (frozen => frozen')
      /\ frozen' \in BOOLEAN
    BY <1>1 DEF Moving!StartMigration, Moving!Freeze, Moving!SendPayload, Moving!ReadDone,
                Moving!ChunkFails, Moving!Break, Moving!Exit, Moving!cvars, Moving!avars, Moving!net,
                Moving!TypeOK
<1>4. LastOne'
    BY <1>1, <1>3 DEF LastOne
<1>5. ASSUME NEW done, Moving!Advance(done)
      PROVE  chunk' \in 1..5 /\ apc' \in {"menu", "freeze", "send", "await", "exit"}
    BY <1>1, <1>2, <1>5 DEF Moving!Advance, Moving!StageFor, Moving!TypeOK
<1>6. CASE Moving!ReadDone
  <2>1. /\ toA = chunk /\ toA' = 0 /\ migrated' = (migrated \/ Moving!Critical(chunk))
        /\ Moving!Advance(migrated')
        /\ UNCHANGED <<frozen, link, toB, breaks>>
      BY <1>6 DEF Moving!ReadDone, Moving!MarkMigrated
  <2>2. Moving!TypeOK'
      BY <1>1, <1>3, <1>5, <2>1 DEF Moving!TypeOK
  <2>3. Confirmed => Confirmed'
      BY <1>1, <1>2, <1>3, <2>1 DEF Confirmed, Moving!TypeOK
  <2> QED BY <1>1, <1>4, <2>1, <2>2, <2>3 DEF MoveInv, Sure, Unbroken
<1>7. CASE Moving!ChunkFails
  <2>1. /\ link = "broken"
        /\ \/ mode = "stop" /\ apc' = "menu" /\ UNCHANGED <<chunk, migrated>>
           \/ /\ mode # "stop" /\ migrated' = (migrated \/ Moving!Critical(chunk))
              /\ Moving!Advance(migrated')
        /\ UNCHANGED <<frozen, link, toB, toA, breaks>>
      BY <1>7 DEF Moving!ChunkFails, Moving!MarkMigrated, Moving!net
  <2>2. Moving!TypeOK'
      BY <1>1, <1>3, <1>5, <2>1 DEF Moving!TypeOK
  <2>3. Modes = {"stop"} => mode = "stop"
      BY <1>1 DEF Moving!TypeOK
  <2>4. Sure'
      BY <1>1, <1>3, <2>1, <2>3 DEF Sure, Confirmed, Unbroken
  <2> QED BY <1>1, <1>4, <2>1, <2>2, <2>4 DEF MoveInv, Unbroken
<1>8. CASE Moving!StartMigration
  <2>1. /\ UNCHANGED <<frozen, migrated>>
        /\ \/ link' = "open" /\ toB' = 0 /\ toA' = 0 /\ chunk' = 1 /\ breaks' = breaks
              /\ apc' \in {"freeze", "send"}
           \/ breaks < MaxBreaks /\ breaks' = breaks + 1 /\ UNCHANGED <<apc, chunk, link, toB, toA>>
      BY <1>8 DEF Moving!StartMigration, Moving!StageFor
  <2>2. Moving!TypeOK'
      BY <1>1, <1>2, <1>3, <2>1 DEF Moving!TypeOK
  <2>3. Confirmed => Confirmed'
      BY <1>3, <2>1 DEF Confirmed
  <2> QED BY <1>1, <1>4, <2>1, <2>2, <2>3 DEF MoveInv, Sure, Unbroken
<1>9. CASE Moving!Freeze \/ Moving!SendPayload
  <2>1. /\ UNCHANGED <<chunk, migrated, link, toA, breaks>>
        /\ toB' \in {toB, chunk} /\ apc' \in {"send", "await"}
      BY <1>9 DEF Moving!Freeze, Moving!SendPayload, Moving!net
  <2>2. Moving!TypeOK'
      BY <1>1, <1>2, <1>3, <2>1 DEF Moving!TypeOK
  <2>3. Confirmed => Confirmed'
      BY <1>3, <2>1 DEF Confirmed
  <2> QED BY <1>1, <1>4, <2>1, <2>2, <2>3 DEF MoveInv, Sure, Unbroken
<1>10. CASE Moving!Break \/ Moving!Exit
  <2>1. /\ UNCHANGED <<apc, chunk, frozen, migrated>> /\ toB' = 0 /\ toA' = 0
        /\ \/ link' = "broken" /\ breaks < MaxBreaks /\ breaks' = breaks + 1
           \/ link' = "none" /\ breaks' = breaks
      BY <1>10 DEF Moving!Break, Moving!Exit, Moving!avars
  <2>2. Moving!TypeOK'
      BY <1>1, <1>2, <1>3, <2>1 DEF Moving!TypeOK
  <2>3. Confirmed => Confirmed'
      BY <1>3, <2>1 DEF Confirmed
  <2>4. Unbroken'
      BY <1>1, <1>2, <2>1 DEF Unbroken, Moving!TypeOK
  <2> QED BY <1>1, <1>4, <2>1, <2>2, <2>3, <2>4 DEF MoveInv, Sure
<1> QED BY <1>6, <1>7, <1>8, <1>9, <1>10

LEMMA ServerBKeeps ==
    ASSUME Moving!MigrationAssumption, MoveInv, Moving!ReceiveChunk
    PROVE  MoveInv'
<1>1. Moving!TypeOK /\ LastOne /\ Sure /\ Unbroken
    BY DEF MoveInv
<1>2. \A c : Moving!Critical(c) <=> Key(mode, c)
    BY <1>1, Scripts
<1>3. /\ toB # 0 /\ toB' = 0 /\ toA' = toB /\ ready' = (ready \/ Moving!Critical(toB))
      /\ UNCHANGED <<mode, apc, chunk, frozen, migrated, link, breaks, at, handler, late>>
    BY DEF Moving!ReceiveChunk, Moving!avars, Moving!cvars
<1>4. Moving!TypeOK'
  <2>1. ready' \in BOOLEAN
      BY <1>1, <1>3 DEF Moving!TypeOK
  <2> QED BY <1>1, <1>3, <2>1 DEF Moving!TypeOK
<1>5. Confirmed => Confirmed'
    BY <1>2, <1>3 DEF Confirmed
<1> QED BY <1>1, <1>3, <1>4, <1>5 DEF MoveInv, LastOne, Sure, Unbroken

\* The clients and their handlers.
LEMMA HandlersKeep ==
    ASSUME Moving!MigrationAssumption, MoveInv, NEW c \in Client,
           Moving!SendAction(c) \/ Moving!Handle(c)
    PROVE  MoveInv'
<1>1. Moving!TypeOK /\ LastOne /\ Sure /\ Unbroken
    BY DEF MoveInv
<1>2. UNCHANGED <<mode, apc, chunk, frozen, migrated, link, toB, toA, breaks, ready>>
    BY DEF Moving!SendAction, Moving!Handle, Moving!CheckMigrated, Moving!CheckFrozen,
           Moving!ServeOnA, Moving!WaitResume, Moving!ServeOnB, Moving!avars, Moving!net
<1>3. /\ \/ late' = late
         \/ handler[c] = "online" /\ late' = [late EXCEPT ![c] = IF frozen THEN @ + 1 ELSE @]
      /\ \/ at' = at
         \/ migrated /\ at' = [at EXCEPT ![c] = "B"]
      /\ \E h \in {"none", "read", "checked", "online", "blocked"} :
            /\ handler' = [handler EXCEPT ![c] = h]
            /\ h = "online" => ~frozen /\ late' = late
    BY DEF Moving!SendAction, Moving!Handle, Moving!CheckMigrated, Moving!CheckFrozen,
           Moving!ServeOnA, Moving!WaitResume, Moving!ServeOnB, Moving!Redirect
<1>4. handler' \in [Client -> {"none", "read", "checked", "online", "blocked"}]
      /\ at' \in [Client -> {"A", "B", "nowhere"}]
    BY <1>1, <1>3 DEF Moving!TypeOK
<1>5. late' \in [Client -> 0..1]
    BY <1>1, <1>3 DEF Moving!TypeOK, LastOne
<1>6. Moving!TypeOK'
    BY <1>1, <1>2, <1>4, <1>5 DEF Moving!TypeOK
<1>7. LastOne'
    BY <1>1, <1>2, <1>3 DEF LastOne, Moving!TypeOK
<1>8. Confirmed => Confirmed'
    BY <1>1, <1>2, <1>3 DEF Confirmed, Moving!TypeOK
<1> QED BY <1>1, <1>2, <1>6, <1>7, <1>8 DEF MoveInv, Sure, Unbroken

LEMMA MoveStep ==
    ASSUME Moving!MigrationAssumption, MoveInv, [Moving!Next]_(Moving!vars)
    PROVE  MoveInv'
<1>1. CASE UNCHANGED Moving!vars
    BY <1>1 DEF Moving!vars, Moving!avars, Moving!net, Moving!cvars, MoveInv, Moving!TypeOK, LastOne,
                Sure, Confirmed, Unbroken
<1>2. CASE Moving!Next
    BY <1>2, ServerAKeeps, ServerBKeeps, HandlersKeep DEF Moving!Next
<1> QED BY <1>1, <1>2

\* A handler that looked before the freeze may still serve one action after it,
\* and then none of its connection does, in each of the three programs, for any
\* number of clients and whatever breaks (Migration's AtMostOneLate).
THEOREM OneLateAction ==
    ASSUME Moving!MigrationAssumption
    PROVE  Moving!Spec => [](Moving!TypeOK /\ Moving!AtMostOneLate)
<1>1. ASSUME MoveInv PROVE Moving!AtMostOneLate
    BY <1>1 DEF MoveInv, LastOne, Moving!AtMostOneLate, Moving!TypeOK
<1>2. MoveInv => Moving!TypeOK /\ Moving!AtMostOneLate
    BY <1>1 DEF MoveInv
<1> QED BY MoveInit, MoveStep, <1>2, PTL DEF Moving!Spec

\* In stop_and_copy, and in all three where the connection to B holds, whoever
\* is redirected finds B ready (Migration's RedirectedToReady). The other two
\* take a chunk whose confirmation was lost for sent.
THEOREM RedirectsAreServed ==
    ASSUME Moving!MigrationAssumption, Modes = {"stop"} \/ MaxBreaks = 0
    PROVE  Moving!Spec => []Moving!RedirectedToReady
<1>1. MoveInv => Moving!RedirectedToReady
    BY DEF MoveInv, Sure, Confirmed, Moving!RedirectedToReady
<1> QED BY MoveInit, MoveStep, <1>1, PTL DEF Moving!Spec
=============================================================================
