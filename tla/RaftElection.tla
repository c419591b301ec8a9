---------------------------- MODULE RaftElection ----------------------------
(***************************************************************************)
(* Leader election of CourseCode/ch5/exp7: node.go (main loop, election,   *)
(* heartbeats), rpc.go (the two HTTP handlers), main.go (start).           *)
(*                                                                         *)
(* A node has one main-loop goroutine and any number of HTTP handler       *)
(* goroutines; n.mu serialises single blocks of them, never a whole round. *)
(* A round (election or heartbeat) calls the peers one after the other     *)
(* and processes each answer before the next call, so between two of its   *)
(* locked blocks handlers may change the node.  A call that times out is   *)
(* abandoned by the caller but its request may still be handled later.     *)
(* Election timeouts are random, so they may fire at any time.             *)
(***************************************************************************)
EXTENDS Naturals, FiniteSets

CONSTANTS
    Node,       \* the processes; every node's -peers is all the others
    None,       \* the value -1 of votedFor and leaderID, and "no call pending"
    MaxTerm,    \* bound on the terms a candidate may start
    MaxElections, \* bound on the elections started, over all nodes
    MaxCrashes  \* bound on the number of killed processes

ASSUME NodeAssumption == IsFiniteSet(Node) /\ None \notin Node
ASSUME BoundAssumption == MaxTerm \in Nat /\ MaxElections \in Nat /\ MaxCrashes \in Nat

VARIABLES
    \* fields of Node
    state, currentTerm, votedFor, leaderID,
    \* locals of run() and startElection(): what the main loop is doing, the
    \* captured term, the peers not yet called, the call it blocks on with the
    \* answer that has arrived, and the peers whose votes it has counted
    phase, term, todo, asking, reply, votes,
    \* requests on the wire or waiting in a peer's server
    inflight,
    \* whether the process runs, and how often one was killed
    up, crashes,
    \* history: votes ever granted <<voter, candidate, term>>, leaderships ever
    \* won <<leader, term>>, nodes that lost the record of a vote
    granted, elected, forgot

fields == <<state, currentTerm, votedFor, leaderID>>
round  == <<phase, term, todo, asking, reply, votes>>
hist   == <<granted, elected, forgot>>
vars   == <<fields, round, inflight, up, crashes, hist>>

Term    == 0..MaxTerm
Reply   == [term : Term, granted : BOOLEAN]
NoReply == [term |-> 0, granted |-> FALSE, none |-> TRUE]
Request == [kind : {"vote", "beat"}, term : Term, from : Node, to : Node]

\* votes > totalNodes/2, an integer division
Majority(S) == Cardinality(S) > Cardinality(Node) \div 2

-----------------------------------------------------------------------------
Init ==
    /\ state = [n \in Node |-> "Follower"]
    /\ currentTerm = [n \in Node |-> 0]
    /\ votedFor = [n \in Node |-> None]
    /\ leaderID = [n \in Node |-> None]
    /\ phase = [n \in Node |-> "idle"]
    /\ term = [n \in Node |-> 0]
    /\ todo = [n \in Node |-> {}]
    /\ asking = [n \in Node |-> None]
    /\ reply = [n \in Node |-> NoReply]
    /\ votes = [n \in Node |-> {}]
    /\ inflight = {}
    /\ up = [n \in Node |-> TRUE]
    /\ crashes = 0
    /\ granted = {} /\ elected = {} /\ forgot = {}

-----------------------------------------------------------------------------
(* The main loop: elections. *)

\* startElection, first locked block: the timeout fired on a non-leader.
StartElection(n) ==
    /\ up[n] /\ phase[n] = "idle" /\ state[n] # "Leader"
    /\ currentTerm[n] < MaxTerm
    /\ Cardinality({g \in granted : g[1] = g[2]}) < MaxElections
    /\ state' = [state EXCEPT ![n] = "Candidate"]
    /\ currentTerm' = [currentTerm EXCEPT ![n] = @ + 1]
    /\ votedFor' = [votedFor EXCEPT ![n] = n]
    /\ phase' = [phase EXCEPT ![n] = "election"]
    /\ term' = [term EXCEPT ![n] = currentTerm[n] + 1]
    /\ todo' = [todo EXCEPT ![n] = Node \ {n}]
    /\ votes' = [votes EXCEPT ![n] = {n}]
    /\ granted' = granted \cup {<<n, n, currentTerm[n] + 1>>}
    /\ UNCHANGED <<leaderID, asking, reply, inflight, up, crashes, elected, forgot>>

\* sendRequestVote or sendAppendEntries to the next peer, with the term
\* captured when the round began; a dead peer refuses the connection.
Call(n, p) ==
    /\ up[n] /\ phase[n] \in {"election", "heartbeat"}
    /\ asking[n] = None /\ p \in todo[n]
    /\ asking' = [asking EXCEPT ![n] = p]
    /\ todo' = [todo EXCEPT ![n] = @ \ {p}]
    /\ inflight' = IF up[p]
                   THEN inflight \cup
                        {[kind |-> IF phase[n] = "election" THEN "vote" ELSE "beat",
                          term |-> term[n], from |-> n, to |-> p]}
                   ELSE inflight
    /\ UNCHANGED <<fields, phase, term, reply, votes, up, crashes, hist>>

\* A client without the 100 ms timeout: only a refused connection is an error.
CallFails_NoTimeout(n) ==
    /\ up[n] /\ asking[n] # None /\ ~ up[asking[n]]
    /\ reply[n] = NoReply
    /\ asking' = [asking EXCEPT ![n] = None]
    /\ UNCHANGED <<fields, phase, term, todo, reply, votes, inflight, up, crashes, hist>>

\* err != nil: timeout or connection error; the loop goes on with the next peer.
CallFails(n) ==
    /\ up[n] /\ asking[n] # None /\ reply[n] = NoReply
    /\ asking' = [asking EXCEPT ![n] = None]
    /\ UNCHANGED <<fields, phase, term, todo, reply, votes, inflight, up, crashes, hist>>

\* Stepping past the discovered term instead of into it.
AdoptHigherTerm_Next(n, t) ==
    /\ currentTerm' = [currentTerm EXCEPT ![n] = t + 1]
    /\ state' = [state EXCEPT ![n] = "Follower"]
    /\ votedFor' = [votedFor EXCEPT ![n] = None]
    /\ leaderID' = [leaderID EXCEPT ![n] = None]
    /\ forgot' = IF currentTerm[n] >= t THEN forgot \cup {n} ELSE forgot

\* The four assignments made on discovering the higher term t.  They overwrite
\* the node's term and vote without comparing t with currentTerm again: when
\* the node has reached t (or more) by itself in the meantime, the record of
\* the vote it may have given there is lost.
AdoptHigherTerm(n, t) ==
    /\ currentTerm' = [currentTerm EXCEPT ![n] = t]
    /\ state' = [state EXCEPT ![n] = "Follower"]
    /\ votedFor' = [votedFor EXCEPT ![n] = None]
    /\ leaderID' = [leaderID EXCEPT ![n] = None]
    /\ forgot' = IF currentTerm[n] >= t THEN forgot \cup {n} ELSE forgot

\* The end of a round: back to the select of run().
EndRound(n) ==
    /\ phase' = [phase EXCEPT ![n] = "idle"]
    /\ term' = [term EXCEPT ![n] = 0]
    /\ todo' = [todo EXCEPT ![n] = {}]
    /\ votes' = [votes EXCEPT ![n] = {}]
    /\ asking' = [asking EXCEPT ![n] = None]
    /\ reply' = [reply EXCEPT ![n] = NoReply]

\* Only a candidate still in the term it campaigns for counts an answer.
StillCandidate(n) == state[n] = "Candidate" /\ currentTerm[n] = term[n]

\* startElection, the locked block that processes one answer.
VoteReply(n) ==
    /\ up[n] /\ phase[n] = "election" /\ reply[n] # NoReply
    /\ \/ /\ reply[n].term > term[n]
          /\ AdoptHigherTerm(n, reply[n].term)
          /\ EndRound(n)
       \/ /\ reply[n].term <= term[n] /\ ~ StillCandidate(n)
          /\ EndRound(n)
          /\ UNCHANGED <<fields, forgot>>
       \/ /\ reply[n].term <= term[n] /\ StillCandidate(n)
          /\ votes' = [votes EXCEPT ![n] =
                         IF reply[n].granted THEN @ \cup {asking[n]} ELSE @]
          /\ asking' = [asking EXCEPT ![n] = None]
          /\ reply' = [reply EXCEPT ![n] = NoReply]
          /\ UNCHANGED <<fields, phase, term, todo, forgot>>
    /\ UNCHANGED <<inflight, up, crashes, granted, elected>>

\* Tallying with the votes of the round but without re-reading the node.
FinishElection_NoRecheck(n) ==
    /\ up[n] /\ phase[n] = "election" /\ asking[n] = None /\ todo[n] = {}
    /\ IF Majority(votes[n])
       THEN /\ state' = [state EXCEPT ![n] = "Leader"]
            /\ leaderID' = [leaderID EXCEPT ![n] = n]
            /\ elected' = elected \cup {<<n, currentTerm[n]>>}
       ELSE UNCHANGED <<state, leaderID, elected>>
    /\ EndRound(n)
    /\ UNCHANGED <<currentTerm, votedFor, inflight, up, crashes, granted, forgot>>

\* startElection, last locked block: the tally.
FinishElection(n) ==
    /\ up[n] /\ phase[n] = "election" /\ asking[n] = None /\ todo[n] = {}
    /\ IF StillCandidate(n) /\ Majority(votes[n])
       THEN /\ state' = [state EXCEPT ![n] = "Leader"]
            /\ leaderID' = [leaderID EXCEPT ![n] = n]
            /\ elected' = elected \cup {<<n, currentTerm[n]>>}
       ELSE UNCHANGED <<state, leaderID, elected>>
    /\ EndRound(n)
    /\ UNCHANGED <<currentTerm, votedFor, inflight, up, crashes, granted, forgot>>

-----------------------------------------------------------------------------
(* The main loop: heartbeats. *)

\* The heartbeat tick of a leader captures the term and the peers.
StartHeartbeat(n) ==
    /\ up[n] /\ phase[n] = "idle" /\ state[n] = "Leader"
    /\ phase' = [phase EXCEPT ![n] = "heartbeat"]
    /\ term' = [term EXCEPT ![n] = currentTerm[n]]
    /\ todo' = [todo EXCEPT ![n] = Node \ {n}]
    /\ UNCHANGED <<fields, asking, reply, votes, inflight, up, crashes, hist>>

\* resp.Term > n.currentTerm, evaluated without the lock.
BeatReply(n) ==
    /\ up[n] /\ phase[n] = "heartbeat" /\ reply[n] # NoReply
    /\ IF reply[n].term > currentTerm[n]
       THEN /\ phase' = [phase EXCEPT ![n] = "demote"]
            /\ UNCHANGED <<asking, reply>>
       ELSE /\ asking' = [asking EXCEPT ![n] = None]
            /\ reply' = [reply EXCEPT ![n] = NoReply]
            /\ UNCHANGED phase
    /\ UNCHANGED <<fields, term, todo, votes, inflight, up, crashes, hist>>

\* The locked block that follows; handlers may have run in between.
StepDown(n) ==
    /\ up[n] /\ phase[n] = "demote"
    /\ AdoptHigherTerm(n, reply[n].term)
    /\ EndRound(n)
    /\ UNCHANGED <<inflight, up, crashes, granted, elected>>

FinishHeartbeat(n) ==
    /\ up[n] /\ phase[n] = "heartbeat" /\ asking[n] = None /\ todo[n] = {}
    /\ EndRound(n)
    /\ UNCHANGED <<fields, inflight, up, crashes, hist>>

-----------------------------------------------------------------------------
(* The HTTP handlers: one request each, atomic under n.mu. *)

\* The answer reaches the caller if it still blocks on this call.
Answer(m, r) ==
    /\ inflight' = inflight \ {m}
    /\ reply' = IF /\ asking[m.from] = m.to /\ term[m.from] = m.term
                   /\ phase[m.from] = (IF m.kind = "vote" THEN "election" ELSE "heartbeat")
                   /\ reply[m.from] = NoReply
                THEN [reply EXCEPT ![m.from] = r] ELSE reply

\* The vote check of handleRequestVote, after a higher term has been adopted.
MayGrant_Always(n, m) == m.term >= currentTerm[n]
MayGrant(n, m) ==
    \/ m.term > currentTerm[n]
    \/ m.term = currentTerm[n] /\ votedFor[n] \in {None, m.from}

HandleVote_KeepLeader(m) ==
    LET n == m.to IN
    /\ up[n] /\ m \in inflight /\ m.kind = "vote"
    /\ IF m.term > currentTerm[n]
       THEN /\ currentTerm' = [currentTerm EXCEPT ![n] = m.term]
            /\ state' = [state EXCEPT ![n] = "Follower"]
       ELSE UNCHANGED <<currentTerm, state>>
    /\ IF MayGrant(n, m)
       THEN /\ votedFor' = [votedFor EXCEPT ![n] = m.from]
            /\ granted' = granted \cup {<<n, m.from, m.term>>}
       ELSE UNCHANGED <<votedFor, granted>>
    /\ Answer(m, [term |-> IF MayGrant(n, m) THEN m.term ELSE currentTerm[n],
                  granted |-> MayGrant(n, m)])
    /\ UNCHANGED <<leaderID, phase, term, todo, asking, votes, up, crashes, elected, forgot>>

\* handleRequestVote
HandleVote(m) ==
    LET n == m.to IN
    /\ up[n] /\ m \in inflight /\ m.kind = "vote"
    /\ IF m.term > currentTerm[n]
       THEN /\ currentTerm' = [currentTerm EXCEPT ![n] = m.term]
            /\ state' = [state EXCEPT ![n] = "Follower"]
            /\ leaderID' = [leaderID EXCEPT ![n] = None]
       ELSE UNCHANGED <<currentTerm, state, leaderID>>
    /\ IF MayGrant(n, m)
       THEN /\ votedFor' = [votedFor EXCEPT ![n] = m.from]
            /\ granted' = granted \cup {<<n, m.from, m.term>>}
       ELSE UNCHANGED <<votedFor, granted>>
    /\ Answer(m, [term |-> IF MayGrant(n, m) THEN m.term ELSE currentTerm[n],
                  granted |-> MayGrant(n, m)])
    /\ UNCHANGED <<phase, term, todo, asking, votes, up, crashes, elected, forgot>>

\* handleAppendEntries
HandleBeat(m) ==
    LET n == m.to IN
    /\ up[n] /\ m \in inflight /\ m.kind = "beat"
    /\ IF m.term < currentTerm[n]
       THEN /\ Answer(m, [term |-> currentTerm[n], granted |-> FALSE])
            /\ UNCHANGED fields
       ELSE /\ currentTerm' = [currentTerm EXCEPT ![n] = m.term]
            /\ votedFor' = [votedFor EXCEPT ![n] =
                              IF m.term > currentTerm[n] THEN None ELSE @]
            /\ state' = [state EXCEPT ![n] = "Follower"]
            /\ leaderID' = [leaderID EXCEPT ![n] = m.from]
            /\ Answer(m, [term |-> m.term, granted |-> TRUE])
    /\ UNCHANGED <<phase, term, todo, asking, votes, up, crashes, hist>>

-----------------------------------------------------------------------------
(* Processes: Ctrl+C on a terminal, and starting the command again. *)

\* The process dies with its connections; requests it has sent stay on the wire.
Crash(n) ==
    /\ up[n] /\ crashes < MaxCrashes
    /\ up' = [up EXCEPT ![n] = FALSE]
    /\ crashes' = crashes + 1
    /\ inflight' = {m \in inflight : m.to # n}
    /\ EndRound(n)
    /\ UNCHANGED <<fields, hist>>

\* main(): nothing was persisted, so the node restarts in term 0 without a vote.
Restart(n) ==
    /\ ~ up[n]
    /\ up' = [up EXCEPT ![n] = TRUE]
    /\ state' = [state EXCEPT ![n] = "Follower"]
    /\ currentTerm' = [currentTerm EXCEPT ![n] = 0]
    /\ votedFor' = [votedFor EXCEPT ![n] = None]
    /\ leaderID' = [leaderID EXCEPT ![n] = None]
    /\ forgot' = forgot \cup {n}
    /\ UNCHANGED <<round, inflight, crashes, granted, elected>>

-----------------------------------------------------------------------------
\* The steps of the main loop inside a round.
RoundStep(n) ==
    \/ \E p \in Node : Call(n, p)
    \/ CallFails(n)
    \/ VoteReply(n)
    \/ FinishElection(n)
    \/ BeatReply(n)
    \/ StepDown(n)
    \/ FinishHeartbeat(n)

Next ==
    \/ \E n \in Node :
          \/ StartElection(n)
          \/ StartHeartbeat(n)
          \/ RoundStep(n)
          \/ Crash(n)
          \/ Restart(n)
    \/ \E m \in inflight : HandleVote(m) \/ HandleBeat(m)

Spec == Init /\ [][Next]_vars

\* A live process keeps running its main loop: every call returns within the
\* client timeout.  Nothing is assumed of the network, the handlers or the
\* election timer.
FairSpec == Spec /\ \A n \in Node : WF_vars(RoundStep(n))

-----------------------------------------------------------------------------
(* Properties. *)

\* Types of the variables.
TypeOK ==
    /\ state \in [Node -> {"Follower", "Candidate", "Leader"}]
    /\ currentTerm \in [Node -> Term]
    /\ votedFor \in [Node -> Node \cup {None}]
    /\ leaderID \in [Node -> Node \cup {None}]
    /\ phase \in [Node -> {"idle", "election", "heartbeat", "demote"}]
    /\ term \in [Node -> Term]
    /\ todo \in [Node -> SUBSET Node]
    /\ asking \in [Node -> Node \cup {None}]
    /\ reply \in [Node -> Reply \cup {NoReply}]
    /\ votes \in [Node -> SUBSET Node]
    /\ inflight \subseteq Request
    /\ up \in [Node -> BOOLEAN]
    /\ crashes \in 0..MaxCrashes
    /\ granted \subseteq Node \X Node \X Term
    /\ elected \subseteq Node \X Term
    /\ forgot \subseteq Node

\* A leadership won in term t stands on votes that a majority of distinct nodes
\* really granted to that node in that very term (counting in startElection
\* against handlers that change the candidate between two answers).
ElectedByMajority ==
    \A e \in elected :
        \E Q \in SUBSET Node :
            Majority(Q) /\ \A v \in Q : <<v, e[1], e[2]>> \in granted

\* At most one node ever wins a given term ...
ElectionSafety == \A d, e \in elected : d[2] = e[2] => d = e

\* ... as long as no node lost the record of its vote, by a restart without
\* stable storage or by adopting a stale higher term in startElection/run.
SafeUnlessForgotten == forgot = {} => ElectionSafety

\* rpc.go, "no vote given in this term, or given to this candidate": a node
\* never grants its vote to two candidates of one term.
OneVotePerTerm ==
    \A g, h \in granted : g[1] = h[1] /\ g[3] = h[3] => g[2] = h[2]

\* The leader a follower or leader names is one that won the node's own term
\* (leaderID against delayed heartbeats, step-downs and term changes).
LeaderIdentity ==
    \A n \in Node : state[n] # "Candidate" /\ leaderID[n] # None
                        => <<leaderID[n], currentTerm[n]>> \in elected

\* Every round of the main loop ends: neither dead nor silent peers can keep a
\* node from returning to its election and heartbeat timers.
RoundEnds == \A n \in Node : phase[n] # "idle" ~> phase[n] = "idle"
=============================================================================
