---------------------------- MODULE MCDistributed ----------------------------
(* The programs of ch5 that exchange messages, each on its own: `system`     *)
(* names the one that runs, and the others stay as they start. The election  *)
(* and the commit engine, whose safety has runs of its own, are here for     *)
(* their liveness.                                                           *)
EXTENDS Naturals

VARIABLES system,
          \* CommitFaults
          scenario, cpc, next, coord, state, wpc, onWay, votes, told, acks, decided, log,
          \* Gossip
          hasBoss, knownAt, inbox, running, sending, round, turn, from,
          \* Migration
          mode, apc, chunk, frozen, migrated, link, toB, toA, ready, at, handler, late, breaks,
          \* ConsistentHash
          hash, ring, sorted, added, before, migrate,
          \* RaftElection
          nodeState, currentTerm, votedFor, leaderID, phase, term, todo, asking, reply, ballots,
          inflight, up, crashes, granted, elected, forgot,
          \* TwoPhaseCommit
          plan, pc, cState, logged, allCommit, counted, workerState, ballot, inVotes, ch, waiter,
          timer

CONSTANT None

faults == <<scenario, cpc, next, coord, state, wpc, onWay, votes, told, acks, decided, log>>
gossip == <<hasBoss, knownAt, inbox, running, sending, round, turn, from>>
migration == <<mode, apc, chunk, frozen, migrated, link, toB, toA, ready, at, handler, late,
               breaks>>
hashing == <<hash, ring, sorted, added, before, migrate>>
election == <<nodeState, currentTerm, votedFor, leaderID, phase, term, todo, asking, reply,
              ballots, inflight, up, crashes, granted, elected, forgot>>
engine == <<plan, pc, cState, logged, allCommit, counted, workerState, ballot, inVotes, ch,
            waiter, timer>>

Faults == INSTANCE CommitFaults WITH
            Scenarios <- {"normal", "fault_a", "fault_b", "fault_c", "fault_d"},
            Workers <- <<"a", "b", "c">>, Odd <- "b"
Rumour == INSTANCE Gossip WITH N <- 4, Fanout <- 1, Rounds <- 2, Inbox <- 1
Moves == INSTANCE Migration WITH
           Modes <- {"stop", "pre", "wave"}, Client <- {"c1", "c2"}, MaxBreaks <- 0
Retries == INSTANCE Migration WITH
             Modes <- {"stop"}, Client <- {"c1", "c2"}, MaxBreaks <- 2
Virtual == INSTANCE ConsistentHash WITH
             Nodes <- 2, Replicas <- 2, Places <- 6, Physical <- FALSE
Physical == INSTANCE ConsistentHash WITH
              Nodes <- 3, Replicas <- 1, Places <- 7, Physical <- TRUE

Election == INSTANCE RaftElection WITH
              Node <- {1, 2}, MaxTerm <- 2, MaxCrashes <- 1, MaxElections <- 3,
              state <- nodeState, votes <- ballots
\* What coreSpec can express: a may be silent, b silent or refuse, c votes yes;
\* the coordinator that crashed after its decision is recovered.
Engine == INSTANCE TwoPhaseCommit WITH
            Worker <- {"a", "b", "c"}, DiskMayFail <- FALSE,
            Plan <- [answer : {f \in [{"a", "b", "c"} -> {"yes", "no", "silent"}] :
                                 f["a"] # "no" /\ f["c"] = "yes"},
                     crash : {"never", "beforeVote", "afterDecision"}, recover : {TRUE}],
            decided <- logged, state <- workerState, inbox <- inVotes

ASSUME Faults!ScriptAssumption /\ Rumour!GossipAssumption
ASSUME Moves!MigrationAssumption /\ Retries!MigrationAssumption
ASSUME Virtual!HashAssumption /\ Physical!HashAssumption

Init == /\ system \in {"faults", "gossip", "moves", "retries", "virtual", "physical", "election",
                     "engine"}
        /\ Faults!Init /\ (system # "faults" => scenario = "normal")
        /\ Rumour!Init
        /\ Moves!Init /\ (system # "moves" => mode = "stop")
        /\ CASE system = "physical" -> Physical!Init
             [] system = "virtual" -> Virtual!Init
             [] OTHER -> Virtual!Init /\ hash = [n \in 0..2 |-> <<n, n + 1>>]
        /\ Election!Init
        /\ Engine!Init
        /\ system # "engine" => plan = [answer |-> [w \in {"a", "b", "c"} |-> "yes"],
                                       crash |-> "never", recover |-> TRUE]

Next == /\ UNCHANGED system
        /\ system # "faults" => UNCHANGED faults
        /\ system # "gossip" => UNCHANGED gossip
        /\ system \notin {"moves", "retries"} => UNCHANGED migration
        /\ system \notin {"virtual", "physical"} => UNCHANGED hashing
        /\ system # "election" => UNCHANGED election
        /\ system # "engine" => UNCHANGED engine
        /\ CASE system = "faults" -> Faults!Next
             [] system = "gossip" -> Rumour!Next
             [] system = "moves" -> Moves!Next
             [] system = "retries" -> Retries!Next
             [] system = "virtual" -> Virtual!Next
             [] system = "physical" -> Physical!Next
             [] system = "election" -> Election!Next
             [] system = "engine" -> Engine!Next

all == <<system, faults, gossip, migration, hashing, election, engine>>

Spec == /\ Init /\ [][Next]_all
        /\ WF_all(system = "faults" /\ Next /\ Faults!Coordinator)
        /\ \A w \in {"a", "b", "c"} :
             WF_all(system = "faults" /\ Next /\ (Faults!Vote(w) \/ Faults!Show(w) \/ Faults!Leave(w)))
        /\ WF_all(system = "gossip" /\ Next /\ (Rumour!HandRound \/ Rumour!EndRound))
        /\ \A s \in 1..4 : WF_all(system = "gossip" /\ Next /\ Rumour!Return(s))
        /\ \A s, t \in 1..4 : WF_all(system = "gossip" /\ Next /\ Rumour!GossipTo(s, t))
        /\ WF_all(system = "moves" /\ Next /\ Moves!Migrates)
        /\ WF_all(system = "moves" /\ Next /\ Moves!ReceiveChunk)
        /\ \A c \in {"c1", "c2"} : /\ WF_all(system = "moves" /\ Next /\ Moves!SendAction(c))
                                  /\ WF_all(system = "moves" /\ Next /\ Moves!Handle(c))
        /\ \A n \in {1, 2} : WF_all(system = "election" /\ Next /\ Election!RoundStep(n))
        /\ WF_all(system = "engine" /\ Next /\ Engine!Coordinator)
        /\ \A w \in {"a", "b", "c"} : WF_all(system = "engine" /\ Next /\ Engine!Waiter(w))

\* The type invariants of the modules.
TypeOK == CASE system = "faults" -> Faults!TypeOK
            [] system = "gossip" -> Rumour!TypeOK
            [] system = "moves" -> Moves!TypeOK
            [] system = "retries" -> Retries!TypeOK
            [] system = "virtual" -> Virtual!TypeOK
            [] system = "physical" -> Physical!TypeOK
            [] system = "election" -> Election!TypeOK
            [] system = "engine" -> Engine!TypeOK

\* What each program shows its reader: CommitFaults.Expected, Gossip.NoChain and
\* Growth, Migration.AtMostOneLate and RedirectedToReady (with a connection that
\* breaks), ConsistentHash.RangesAreMoves, TwoPhaseCommit.Agreement.
Expected == CASE system = "faults" -> Faults!Expected
              [] system = "gossip" -> Rumour!NoChain /\ Rumour!Growth
              [] system = "moves" -> Moves!AtMostOneLate
              [] system = "retries" -> Retries!RedirectedToReady
              [] system = "virtual" -> Virtual!RangesAreMoves
              [] system = "physical" -> Physical!RangesAreMoves
              [] system = "engine" -> Engine!Agreement
              [] OTHER -> TRUE
\* CommitFaults.Atomic, the scripts implement the abstract commit; and
\* ConsistentHash.LocalMoves, a new node takes over and nothing else changes.
Atomic == /\ Faults!Atomic
          /\ [][/\ system = "physical" => Physical!MovesToNew
                /\ system = "virtual" => Virtual!MovesToNew]_all

\* CommitFaults.Ends, Gossip.Ends, Migration.AllMove, RaftElection.RoundEnds of
\* the i-th node, TwoPhaseCommit.RunEnds and CommitReaches: it holds again and
\* again. A freeze, a decision and an end are for ever, so that this is the same.
Again(i) == CASE system = "faults" -> cpc = "done" /\ \A w \in {"a", "b", "c"} : wpc[w] = "gone"
              [] system = "gossip" -> Rumour!Cancelled /\ running = {}
              [] system = "moves" -> frozen => \A c \in {"c1", "c2"} : at[c] = "B"
              [] system = "election" -> phase[i] = "idle"
              [] system = "engine" -> /\ pc \in {"done", "failed"}
                                      /\ logged = "COMMIT" =>
                                           \A w \in {"a", "b", "c"} : workerState[w] = "COMMIT"
              [] OTHER -> TRUE
Ends == \A i \in {1, 2} : []<>Again(i)
=============================================================================
