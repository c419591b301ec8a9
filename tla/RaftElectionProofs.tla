------------------------- MODULE RaftElectionProofs -------------------------
(***************************************************************************)
(* Proofs about RaftElection, for every set of nodes and every bound.      *)
(*                                                                         *)
(* Each safety property needs what the code keeps in local variables of a  *)
(* round: counted votes and pending answers are backed by granted votes,   *)
(* and whatever a leader sends or a heartbeat carries is backed by a won   *)
(* leadership.                                                             *)
(*                                                                         *)
(* At the end, about the rumour of Gossip, the pool of ConnectionPool and  *)
(* the layers of LayeredServer, other programs of ch4 and ch5.             *)
(***************************************************************************)
EXTENDS RaftElection, Sequences, FiniteSetTheorems, TLAPS

\* A node that kept its memory knows its latest vote: it has granted none in
\* a later term, and votedFor names the one granted in its own term.
VoteRecorded ==
    \A v, c \in Node, t \in Term :
        <<v, c, t>> \in granted /\ v \notin forgot
            => t <= currentTerm[v] /\ (t = currentTerm[v] => votedFor[v] = c)

\* Such a node grants one vote per term.
RememberedVotesUnique ==
    \A v, c, d \in Node, t \in Term :
        <<v, c, t>> \in granted /\ <<v, d, t>> \in granted /\ v \notin forgot => c = d

\* The votes a candidate has counted, and the answer it is about to count,
\* were granted in the term it campaigns for.
CountBacked ==
    \A n \in Node : phase[n] = "election" =>
        /\ \A v \in votes[n] : <<v, n, term[n]>> \in granted
        /\ asking[n] # None /\ reply[n] # NoReply /\ reply[n].granted
              => <<asking[n], n, term[n]>> \in granted

\* Leaders, heartbeat rounds and heartbeats on the wire are of terms won.
LeadershipBacked ==
    /\ \A n \in Node : state[n] = "Leader" => <<n, currentTerm[n]>> \in elected
    /\ \A n \in Node : phase[n] = "heartbeat" => <<n, term[n]>> \in elected
    /\ \A m \in inflight : m.kind = "beat" => <<m.from, m.term>> \in elected

\* A reply is pending only while the call that asked for it is, and calls are
\* made inside rounds only.
ReplyAsked ==
    \A n \in Node : /\ reply[n] # NoReply => asking[n] # None
                    /\ phase[n] = "idle" => asking[n] = None

-----------------------------------------------------------------------------
\* What the types say of a pending answer and of a request.
LEMMA Shapes ==
    ASSUME TypeOK
    PROVE  /\ \A n \in Node : reply[n].term \in Term /\ reply[n].granted \in BOOLEAN
           /\ \A m \in inflight : /\ m.term \in Term /\ m.from \in Node /\ m.to \in Node
                                  /\ m.kind \in {"vote", "beat"}
           /\ Term \subseteq Nat
<1>1. ASSUME NEW n \in Node
      PROVE  reply[n].term \in Term /\ reply[n].granted \in BOOLEAN
    <2>1. reply[n] \in Reply \cup {NoReply}
        BY DEF TypeOK
    <2>2. CASE reply[n] \in Reply
        BY <2>2 DEF Reply
    <2>3. CASE reply[n] = NoReply
        BY <2>3, BoundAssumption DEF NoReply, Term
    <2> QED
        BY <2>1, <2>2, <2>3
<1> QED
    BY <1>1, BoundAssumption DEF TypeOK, Request, Term

\* Every action keeps the variables in their types.
LEMMA TypeStep ==
    ASSUME TypeOK, ReplyAsked, [Next]_vars
    PROVE  TypeOK'
<1>0. /\ \A n \in Node : reply[n].term \in Term /\ reply[n].granted \in BOOLEAN
      /\ \A m \in inflight : m.term \in Term /\ m.from \in Node /\ m.to \in Node
      /\ 0 \in Term
    BY Shapes, BoundAssumption DEF Term
<1>1. ASSUME NEW n \in Node, StartElection(n) PROVE TypeOK'
    <2>1. currentTerm[n] + 1 \in Term
        BY <1>1, BoundAssumption DEF StartElection, TypeOK, Term
    <2> QED
        BY <1>1, <2>1 DEF StartElection, TypeOK
<1>2. ASSUME NEW n \in Node, StartHeartbeat(n) PROVE TypeOK'
    BY <1>2 DEF StartHeartbeat, TypeOK, fields, hist
<1>3. ASSUME NEW n \in Node, NEW p \in Node, Call(n, p) PROVE TypeOK'
    BY <1>3 DEF Call, TypeOK, fields, hist, Request
<1>4. ASSUME NEW n \in Node, CallFails(n) PROVE TypeOK'
    BY <1>4 DEF CallFails, TypeOK, fields, hist
<1>5. ASSUME NEW n \in Node, VoteReply(n) PROVE TypeOK'
    <2>1. asking[n] \in Node
        BY <1>5 DEF VoteReply, ReplyAsked, TypeOK
    <2>2. CASE AdoptHigherTerm(n, reply[n].term) /\ EndRound(n)
        BY <1>0, <1>5, <2>2 DEF VoteReply, AdoptHigherTerm, EndRound, TypeOK
    <2>3. CASE EndRound(n) /\ UNCHANGED <<fields, forgot>>
        BY <1>0, <1>5, <2>3 DEF VoteReply, EndRound, TypeOK, fields
    <2>4. CASE /\ votes' = [votes EXCEPT ![n] = IF reply[n].granted
                                                 THEN @ \cup {asking[n]} ELSE @]
               /\ asking' = [asking EXCEPT ![n] = None]
               /\ reply' = [reply EXCEPT ![n] = NoReply]
               /\ UNCHANGED <<fields, phase, term, todo, forgot>>
        BY <1>5, <2>1, <2>4 DEF VoteReply, TypeOK, fields
    <2> QED
        BY <1>5, <2>2, <2>3, <2>4 DEF VoteReply
<1>6. ASSUME NEW n \in Node, FinishElection(n) PROVE TypeOK'
    <2>1. <<n, currentTerm[n]>> \in Node \X Term
        BY DEF TypeOK
    <2>2. /\ state' \in [Node -> {"Follower", "Candidate", "Leader"}]
          /\ leaderID' \in [Node -> Node \cup {None}]
          /\ elected' \subseteq Node \X Term
        BY <1>6, <2>1 DEF FinishElection, TypeOK
    <2> QED
        BY <1>0, <1>6, <2>2 DEF FinishElection, EndRound, TypeOK
<1>7. ASSUME NEW n \in Node, BeatReply(n) PROVE TypeOK'
    BY <1>7 DEF BeatReply, TypeOK, fields, hist
<1>8. ASSUME NEW n \in Node, StepDown(n) PROVE TypeOK'
    BY <1>0, <1>8 DEF StepDown, AdoptHigherTerm, EndRound, TypeOK
<1>9. ASSUME NEW n \in Node, FinishHeartbeat(n) PROVE TypeOK'
    BY <1>0, <1>9 DEF FinishHeartbeat, EndRound, TypeOK, fields, hist
<1>10. ASSUME NEW m \in inflight, HandleVote(m) PROVE TypeOK'
    <2>1. [term |-> IF MayGrant(m.to, m) THEN m.term ELSE currentTerm[m.to],
           granted |-> MayGrant(m.to, m)] \in Reply
        <3>1. MayGrant(m.to, m) \in BOOLEAN
            BY DEF MayGrant
        <3> QED
            BY <1>0, <3>1 DEF Reply, TypeOK
    <2>2. reply' \in [Node -> Reply \cup {NoReply}] /\ inflight' \subseteq Request
        BY <1>0, <1>10, <2>1 DEF HandleVote, Answer, TypeOK
    <2>3. /\ currentTerm' \in [Node -> Term]
          /\ state' \in [Node -> {"Follower", "Candidate", "Leader"}]
          /\ leaderID' \in [Node -> Node \cup {None}]
        BY <1>0, <1>10 DEF HandleVote, TypeOK
    <2>4. <<m.to, m.from, m.term>> \in Node \X Node \X Term
        BY <1>0
    <2>5. votedFor' \in [Node -> Node \cup {None}] /\ granted' \subseteq Node \X Node \X Term
        BY <1>0, <1>10, <2>4 DEF HandleVote, TypeOK
    <2> QED
        BY <1>10, <2>2, <2>3, <2>5 DEF HandleVote, TypeOK
<1>11. ASSUME NEW m \in inflight, HandleBeat(m) PROVE TypeOK'
    <2>1. /\ [term |-> currentTerm[m.to], granted |-> FALSE] \in Reply
          /\ [term |-> m.term, granted |-> TRUE] \in Reply
        BY <1>0 DEF Reply, TypeOK
    <2>2. CASE m.term < currentTerm[m.to]
        <3>1. reply' \in [Node -> Reply \cup {NoReply}] /\ inflight' \subseteq Request
            BY <1>0, <1>11, <2>1, <2>2 DEF HandleBeat, Answer, TypeOK
        <3> QED
            BY <1>11, <2>2, <3>1 DEF HandleBeat, TypeOK, fields, hist
    <2>3. CASE ~ (m.term < currentTerm[m.to])
        <3>1. reply' \in [Node -> Reply \cup {NoReply}] /\ inflight' \subseteq Request
            BY <1>0, <1>11, <2>1, <2>3 DEF HandleBeat, Answer, TypeOK
        <3>2. /\ currentTerm' \in [Node -> Term]
              /\ state' \in [Node -> {"Follower", "Candidate", "Leader"}]
              /\ leaderID' \in [Node -> Node \cup {None}]
            BY <1>0, <1>11, <2>3 DEF HandleBeat, TypeOK
        <3>3. votedFor' \in [Node -> Node \cup {None}]
            <4>1. /\ votedFor \in [Node -> Node \cup {None}] /\ m.to \in Node
                  /\ votedFor' = [votedFor EXCEPT ![m.to] =
                                    IF m.term > currentTerm[m.to] THEN None ELSE @]
                BY <1>0, <1>11, <2>3 DEF HandleBeat, TypeOK
            <4> QED
                BY <4>1
        <3> QED
            BY <1>11, <3>1, <3>2, <3>3 DEF HandleBeat, TypeOK, hist
    <2> QED
        BY <2>2, <2>3
<1>12. ASSUME NEW n \in Node, Crash(n) PROVE TypeOK'
    <2>1. crashes' \in 0..MaxCrashes
        BY <1>12, BoundAssumption DEF Crash, TypeOK
    <2> QED
        BY <1>0, <1>12, <2>1 DEF Crash, EndRound, TypeOK, fields, hist
<1>13. ASSUME NEW n \in Node, Restart(n) PROVE TypeOK'
    BY <1>0, <1>13 DEF Restart, TypeOK, round
<1>14. CASE UNCHANGED vars
    BY <1>14 DEF vars, fields, round, hist, TypeOK
<1> QED
    BY <1>1, <1>2, <1>3, <1>4, <1>5, <1>6, <1>7, <1>8, <1>9, <1>10, <1>11,
       <1>12, <1>13, <1>14 DEF Next, RoundStep

\* Overwriting the term by a later one keeps the record of votes; overwriting
\* it by an earlier or equal one is what forgot marks.
LEMMA AdoptKeepsVotes ==
    ASSUME TypeOK, VoteRecorded, RememberedVotesUnique,
           NEW n \in Node, NEW t \in Term, AdoptHigherTerm(n, t),
           UNCHANGED granted
    PROVE  VoteRecorded' /\ RememberedVotesUnique'
<1>1. /\ currentTerm \in [Node -> Term] /\ votedFor \in [Node -> Node \cup {None}]
      /\ \A v \in Node : currentTerm[v] \in Nat
      /\ \A s \in Term : s \in Nat
    BY Shapes DEF TypeOK
<1>2. forgot \subseteq forgot' /\ (currentTerm[n] >= t => n \in forgot')
    BY DEF AdoptHigherTerm
<1>3. VoteRecorded'
    <2> SUFFICES ASSUME NEW v \in Node, NEW c \in Node, NEW s \in Term,
                        <<v, c, s>> \in granted, v \notin forgot'
                 PROVE  s <= currentTerm'[v] /\ (s = currentTerm'[v] => votedFor'[v] = c)
        BY DEF VoteRecorded, AdoptHigherTerm
    <2>1. s <= currentTerm[v] /\ (s = currentTerm[v] => votedFor[v] = c)
        BY <1>2 DEF VoteRecorded
    <2>2. CASE v = n
        BY <1>1, <1>2, <2>1, <2>2 DEF AdoptHigherTerm
    <2>3. CASE v # n
        BY <1>1, <2>1, <2>3 DEF AdoptHigherTerm
    <2> QED
        BY <2>2, <2>3
<1>4. RememberedVotesUnique'
    BY <1>2 DEF RememberedVotesUnique
<1> QED
    BY <1>3, <1>4

\* No step makes a node that kept its memory vote twice in a term.
LEMMA VoteStep ==
    ASSUME TypeOK, VoteRecorded, RememberedVotesUnique, [Next]_vars
    PROVE  VoteRecorded' /\ RememberedVotesUnique'
<1>0. /\ currentTerm \in [Node -> Term]
      /\ \A v \in Node : currentTerm[v] \in Nat
      /\ \A s \in Term : s \in Nat
      /\ votedFor \in [Node -> Node \cup {None}] /\ None \notin Node
      /\ \A n \in Node : reply[n].term \in Term
      /\ \A m \in inflight : m.term \in Term /\ m.from \in Node /\ m.to \in Node
    BY Shapes, NodeAssumption DEF TypeOK
<1>1. ASSUME NEW n \in Node, StartElection(n)
      PROVE  VoteRecorded' /\ RememberedVotesUnique'
    <2>0. /\ currentTerm' = [currentTerm EXCEPT ![n] = currentTerm[n] + 1]
          /\ votedFor' = [votedFor EXCEPT ![n] = n]
          /\ granted' = granted \cup {<<n, n, currentTerm[n] + 1>>}
          /\ forgot' = forgot
        BY <1>1 DEF StartElection
    <2>1. VoteRecorded'
        <3> SUFFICES ASSUME NEW v \in Node, NEW c \in Node, NEW s \in Term,
                            <<v, c, s>> \in granted', v \notin forgot
                     PROVE  s <= currentTerm'[v] /\ (s = currentTerm'[v] => votedFor'[v] = c)
            BY <2>0 DEF VoteRecorded
        <3>1. CASE <<v, c, s>> \in granted
            BY <1>0, <2>0, <3>1 DEF VoteRecorded
        <3>2. CASE <<v, c, s>> \notin granted
            BY <1>0, <2>0, <3>2
        <3> QED
            BY <3>1, <3>2
    <2>2. RememberedVotesUnique'
        <3> SUFFICES ASSUME NEW v \in Node, NEW c \in Node, NEW d \in Node, NEW s \in Term,
                            <<v, c, s>> \in granted', <<v, d, s>> \in granted', v \notin forgot
                     PROVE  c = d
            BY <2>0 DEF RememberedVotesUnique
        <3>1. CASE v = n /\ s = currentTerm[n] + 1
            <4>1. ASSUME NEW x \in Node, <<v, x, s>> \in granted PROVE FALSE
                BY <1>0, <3>1, <4>1 DEF VoteRecorded
            <4> QED
                BY <2>0, <4>1
        <3>2. CASE ~ (v = n /\ s = currentTerm[n] + 1)
            BY <2>0, <3>2 DEF RememberedVotesUnique
        <3> QED
            BY <3>1, <3>2
    <2> QED
        BY <2>1, <2>2
<1>2. ASSUME NEW n \in Node, VoteReply(n)
      PROVE  VoteRecorded' /\ RememberedVotesUnique'
    <2>1. CASE AdoptHigherTerm(n, reply[n].term)
        BY <1>0, <1>2, <2>1, AdoptKeepsVotes DEF VoteReply
    <2>2. CASE UNCHANGED <<fields, forgot>>
        BY <1>2, <2>2 DEF VoteReply, fields, VoteRecorded, RememberedVotesUnique
    <2> QED
        BY <1>2, <2>1, <2>2 DEF VoteReply, fields
<1>3. ASSUME NEW n \in Node, StepDown(n)
      PROVE  VoteRecorded' /\ RememberedVotesUnique'
    BY <1>0, <1>3, AdoptKeepsVotes DEF StepDown
<1>4. ASSUME NEW m \in inflight, HandleVote(m)
      PROVE  VoteRecorded' /\ RememberedVotesUnique'
    <2> DEFINE n == m.to
    <2>0. /\ n \in Node /\ m.from \in Node /\ m.term \in Term /\ forgot' = forgot
          /\ currentTerm' = IF m.term > currentTerm[n]
                            THEN [currentTerm EXCEPT ![n] = m.term] ELSE currentTerm
          /\ votedFor' = IF MayGrant(n, m)
                         THEN [votedFor EXCEPT ![n] = m.from] ELSE votedFor
          /\ granted' = IF MayGrant(n, m)
                        THEN granted \cup {<<n, m.from, m.term>>} ELSE granted
        BY <1>0, <1>4 DEF HandleVote
    <2>1. CASE ~ MayGrant(n, m)
        <3>1. currentTerm' = currentTerm
            BY <1>0, <2>0, <2>1 DEF MayGrant
        <3> QED
            BY <2>0, <2>1, <3>1 DEF VoteRecorded, RememberedVotesUnique
    <2>2. CASE MayGrant(n, m)
        <3>0. currentTerm'[n] = m.term /\ currentTerm[n] <= m.term /\ votedFor'[n] = m.from
            BY <1>0, <2>0, <2>2 DEF MayGrant
        <3>1. ASSUME NEW c \in Node, <<n, c, m.term>> \in granted, n \notin forgot
              PROVE  c = m.from
            BY <1>0, <2>0, <2>2, <3>0, <3>1 DEF MayGrant, VoteRecorded
        <3>2. VoteRecorded'
            <4> SUFFICES ASSUME NEW v \in Node, NEW c \in Node, NEW s \in Term,
                                <<v, c, s>> \in granted', v \notin forgot
                         PROVE  s <= currentTerm'[v] /\ (s = currentTerm'[v] => votedFor'[v] = c)
                BY <2>0 DEF VoteRecorded
            <4>1. CASE v # n
                BY <1>0, <2>0, <2>2, <4>1 DEF VoteRecorded
            <4>2. CASE v = n /\ <<v, c, s>> \in granted
                BY <1>0, <2>0, <3>0, <3>1, <4>2 DEF VoteRecorded
            <4>3. CASE v = n /\ <<v, c, s>> \notin granted
                BY <1>0, <2>0, <2>2, <3>0, <4>3
            <4> QED
                BY <4>1, <4>2, <4>3
        <3>3. RememberedVotesUnique'
            BY <2>0, <2>2, <3>1 DEF RememberedVotesUnique
        <3> QED
            BY <3>2, <3>3
    <2> QED
        BY <2>1, <2>2
<1>5. ASSUME NEW m \in inflight, HandleBeat(m)
      PROVE  VoteRecorded' /\ RememberedVotesUnique'
    <2>1. granted' = granted /\ forgot' = forgot
        BY <1>5 DEF HandleBeat, hist
    <2>2. CASE m.term < currentTerm[m.to]
        BY <1>5, <2>1, <2>2 DEF HandleBeat, fields, VoteRecorded, RememberedVotesUnique
    <2>3. CASE ~ (m.term < currentTerm[m.to])
        <3>1. /\ m.to \in Node /\ m.term \in Term
              /\ currentTerm' = [currentTerm EXCEPT ![m.to] = m.term]
              /\ votedFor' = [votedFor EXCEPT ![m.to] =
                                IF m.term > currentTerm[m.to] THEN None ELSE votedFor[m.to]]
            BY <1>0, <1>5, <2>3 DEF HandleBeat
        <3>2. VoteRecorded'
            <4> SUFFICES ASSUME NEW v \in Node, NEW c \in Node, NEW s \in Term,
                                <<v, c, s>> \in granted, v \notin forgot
                         PROVE  s <= currentTerm'[v] /\ (s = currentTerm'[v] => votedFor'[v] = c)
                BY <2>1 DEF VoteRecorded
            <4>1. s <= currentTerm[v] /\ (s = currentTerm[v] => votedFor[v] = c)
                BY DEF VoteRecorded
            <4>2. CASE v # m.to
                BY <1>0, <3>1, <4>1, <4>2
            <4>3. CASE v = m.to /\ m.term > currentTerm[v]
                BY <1>0, <3>1, <4>1, <4>3
            <4>4. CASE v = m.to /\ m.term = currentTerm[v]
                BY <1>0, <3>1, <4>1, <4>4
            <4> QED
                BY <1>0, <2>3, <3>1, <4>2, <4>3, <4>4
        <3> QED
            BY <2>1, <3>2 DEF RememberedVotesUnique
    <2> QED
        BY <2>2, <2>3
<1>6. ASSUME NEW n \in Node, Restart(n)
      PROVE  VoteRecorded' /\ RememberedVotesUnique'
    <2>1. /\ granted' = granted /\ forgot' = forgot \cup {n}
          /\ currentTerm' = [currentTerm EXCEPT ![n] = 0]
          /\ votedFor' = [votedFor EXCEPT ![n] = None]
        BY <1>6 DEF Restart
    <2> QED
        BY <1>0, <2>1 DEF VoteRecorded, RememberedVotesUnique
<1>7. CASE UNCHANGED <<granted, forgot, currentTerm, votedFor>>
    BY <1>7 DEF VoteRecorded, RememberedVotesUnique
<1>8. ASSUME NEW n \in Node, StartHeartbeat(n) \/ CallFails(n) \/ (\E p \in Node : Call(n, p))
                 \/ FinishElection(n) \/ BeatReply(n) \/ FinishHeartbeat(n) \/ Crash(n)
      PROVE  UNCHANGED <<granted, forgot, currentTerm, votedFor>>
    BY <1>8 DEF StartHeartbeat, CallFails, Call, FinishElection, BeatReply, FinishHeartbeat,
                Crash, fields, hist
<1> QED
    BY <1>1, <1>2, <1>3, <1>4, <1>5, <1>6, <1>7, <1>8
    DEF Next, RoundStep, vars, fields, hist

\* Granted votes are never withdrawn and won leaderships never forgotten.
LEMMA HistoryGrows ==
    ASSUME [Next]_vars
    PROVE  granted \subseteq granted' /\ elected \subseteq elected'
BY DEF Next, RoundStep, vars, hist, StartElection, StartHeartbeat, Call, CallFails, VoteReply,
       FinishElection, BeatReply, StepDown, FinishHeartbeat, HandleVote, HandleBeat,
       Crash, Restart

\* An answer is pending only while the node blocks on the call.
LEMMA ReplyStep ==
    ASSUME TypeOK, ReplyAsked, [Next]_vars
    PROVE  ReplyAsked'
<1>0. phase \in [Node -> {"idle", "election", "heartbeat", "demote"}]
      /\ asking \in [Node -> Node \cup {None}] /\ reply \in [Node -> Reply \cup {NoReply}]
      /\ None \notin Node
      /\ \A m \in inflight : m.from \in Node /\ m.to \in Node
    BY Shapes, NodeAssumption DEF TypeOK
<1>1. ASSUME NEW n \in Node, EndRound(n) PROVE ReplyAsked'
    BY <1>0, <1>1 DEF EndRound, ReplyAsked
<1>2. ASSUME NEW n \in Node, asking' = [asking EXCEPT ![n] = None],
             reply' = [reply EXCEPT ![n] = NoReply], UNCHANGED phase
      PROVE  ReplyAsked'
    BY <1>0, <1>2 DEF ReplyAsked
<1>3. ASSUME NEW m \in inflight, NEW r, Answer(m, r), UNCHANGED <<asking, phase>> PROVE ReplyAsked'
    BY <1>0, <1>3 DEF Answer, ReplyAsked
<1>4. ASSUME NEW n \in Node, NEW p \in Node, Call(n, p) PROVE ReplyAsked'
    BY <1>0, <1>4 DEF Call, ReplyAsked
<1>5. ASSUME NEW n \in Node, CallFails(n) PROVE ReplyAsked'
    BY <1>0, <1>5 DEF CallFails, ReplyAsked
<1>6. ASSUME NEW n \in Node, VoteReply(n) PROVE ReplyAsked'
    BY <1>1, <1>2, <1>6 DEF VoteReply
<1>7. ASSUME NEW n \in Node, BeatReply(n) PROVE ReplyAsked'
    <2>1. CASE reply[n].term > currentTerm[n]
        BY <1>0, <1>7, <2>1 DEF BeatReply, ReplyAsked
    <2>2. CASE ~ (reply[n].term > currentTerm[n])
        BY <1>2, <1>7, <2>2 DEF BeatReply
    <2> QED
        BY <2>1, <2>2
<1>8. ASSUME NEW n \in Node, FinishElection(n) \/ StepDown(n) \/ FinishHeartbeat(n) \/ Crash(n)
      PROVE  ReplyAsked'
    BY <1>1, <1>8 DEF FinishElection, StepDown, FinishHeartbeat, Crash
<1>9. ASSUME NEW m \in inflight, HandleVote(m) PROVE ReplyAsked'
    BY <1>3, <1>9 DEF HandleVote
<1>10. ASSUME NEW m \in inflight, HandleBeat(m) PROVE ReplyAsked'
    BY <1>3, <1>10 DEF HandleBeat
<1>11. ASSUME UNCHANGED round PROVE ReplyAsked'
    BY <1>11 DEF ReplyAsked, round
<1>12. ASSUME NEW n \in Node, StartElection(n) \/ StartHeartbeat(n) PROVE ReplyAsked'
    BY <1>0, <1>12 DEF StartElection, StartHeartbeat, ReplyAsked
<1>13. ASSUME NEW n \in Node, Restart(n) PROVE ReplyAsked'
    BY <1>11, <1>13 DEF Restart
<1> QED
    BY <1>4, <1>5, <1>6, <1>7, <1>8, <1>9, <1>10, <1>11, <1>12, <1>13
    DEF Next, RoundStep, vars

\* What a candidate counts stays backed by granted votes.
LEMMA CountStep ==
    ASSUME TypeOK, ReplyAsked, CountBacked, [Next]_vars
    PROVE  CountBacked'
<1>0. /\ phase \in [Node -> {"idle", "election", "heartbeat", "demote"}]
      /\ asking \in [Node -> Node \cup {None}]
      /\ reply \in [Node -> Reply \cup {NoReply}]
      /\ term \in [Node -> Term] /\ votes \in [Node -> SUBSET Node]
      /\ granted \subseteq granted' /\ None \notin Node
      /\ \A m \in inflight : m.from \in Node /\ m.to \in Node /\ m.term \in Term
    BY Shapes, HistoryGrows, NodeAssumption DEF TypeOK
<1>1. ASSUME NEW n \in Node, EndRound(n) PROVE CountBacked'
    BY <1>0, <1>1 DEF EndRound, CountBacked
<1>2. ASSUME UNCHANGED round PROVE CountBacked'
    BY <1>0, <1>2 DEF round, CountBacked
<1>3. ASSUME NEW n \in Node, StartElection(n) PROVE CountBacked'
    <2>1. /\ phase' = [phase EXCEPT ![n] = "election"]
          /\ term' = [term EXCEPT ![n] = currentTerm[n] + 1]
          /\ votes' = [votes EXCEPT ![n] = {n}]
          /\ <<n, n, currentTerm[n] + 1>> \in granted'
          /\ UNCHANGED <<asking, reply>> /\ phase[n] = "idle"
        BY <1>3 DEF StartElection
    <2> QED
        BY <1>0, <2>1 DEF CountBacked, ReplyAsked
<1>4. ASSUME NEW n \in Node, NEW p \in Node, Call(n, p) PROVE CountBacked'
    <2>1. reply[n] = NoReply
        BY <1>0, <1>4 DEF Call, ReplyAsked
    <2> QED
        BY <1>0, <1>4, <2>1 DEF Call, CountBacked
<1>5. ASSUME NEW n \in Node, CallFails(n) PROVE CountBacked'
    BY <1>0, <1>5 DEF CallFails, CountBacked
<1>6. ASSUME NEW n \in Node, VoteReply(n) PROVE CountBacked'
    <2>1. CASE EndRound(n)
        BY <1>1, <2>1
    <2>2. CASE ~ EndRound(n)
        <3>1. /\ phase[n] = "election" /\ asking[n] \in Node
              /\ reply[n].granted => <<asking[n], n, term[n]>> \in granted
            BY <1>0, <1>6 DEF VoteReply, ReplyAsked, CountBacked
        <3>2. /\ votes' = [votes EXCEPT ![n] =
                             IF reply[n].granted THEN @ \cup {asking[n]} ELSE @]
              /\ asking' = [asking EXCEPT ![n] = None]
              /\ reply' = [reply EXCEPT ![n] = NoReply]
              /\ UNCHANGED <<phase, term>>
            BY <1>6, <2>2 DEF VoteReply
        <3> QED
            BY <1>0, <3>1, <3>2 DEF CountBacked
    <2> QED
        BY <2>1, <2>2
<1>7. ASSUME NEW n \in Node, FinishElection(n) \/ StepDown(n) \/ FinishHeartbeat(n) \/ Crash(n)
      PROVE  CountBacked'
    BY <1>1, <1>7 DEF FinishElection, StepDown, FinishHeartbeat, Crash
<1>8. ASSUME NEW n \in Node, StartHeartbeat(n) \/ BeatReply(n) PROVE CountBacked'
    BY <1>0, <1>8 DEF StartHeartbeat, BeatReply, CountBacked
<1>9. ASSUME NEW m \in inflight, HandleVote(m) PROVE CountBacked'
    <2> DEFINE r == [term |-> IF MayGrant(m.to, m) THEN m.term ELSE currentTerm[m.to],
                     granted |-> MayGrant(m.to, m)]
    <2>1. /\ Answer(m, r) /\ UNCHANGED <<phase, term, asking, votes>> /\ m.kind = "vote"
          /\ r.granted => <<m.to, m.from, m.term>> \in granted'
        BY <1>9 DEF HandleVote
    <2>2. ASSUME NEW n \in Node, phase[n] = "election", reply'[n] # NoReply, reply'[n].granted,
                 asking[n] # None
          PROVE  <<asking[n], n, term[n]>> \in granted'
        <3>1. CASE reply'[n] = reply[n]
            BY <1>0, <2>2, <3>1 DEF CountBacked
        <3>2. CASE reply'[n] # reply[n]
            <4>1. n = m.from /\ asking[n] = m.to /\ term[n] = m.term /\ reply'[n] = r
                BY <1>0, <2>1, <3>2 DEF Answer
            <4> QED
                BY <2>1, <2>2, <4>1
        <3> QED
            BY <3>1, <3>2
    <2> QED
        BY <1>0, <2>1, <2>2 DEF CountBacked
<1>10. ASSUME NEW m \in inflight, HandleBeat(m) PROVE CountBacked'
    <2>1. \A n \in Node : phase[n] = "election" => reply'[n] = reply[n]
        BY <1>0, <1>10 DEF HandleBeat, Answer
    <2> QED
        BY <1>0, <1>10, <2>1 DEF HandleBeat, CountBacked
<1>11. ASSUME NEW n \in Node, Restart(n) PROVE CountBacked'
    BY <1>2, <1>11 DEF Restart
<1> QED
    BY <1>2, <1>3, <1>4, <1>5, <1>6, <1>7, <1>8, <1>9, <1>10, <1>11 DEF Next, RoundStep, vars

\* Leaders, their rounds, their heartbeats and the leader a node names all stay
\* backed by leaderships that were won.
LEMMA LeaderStep ==
    ASSUME TypeOK, LeadershipBacked, LeaderIdentity, [Next]_vars
    PROVE  LeadershipBacked' /\ LeaderIdentity'
<1>0. /\ phase \in [Node -> {"idle", "election", "heartbeat", "demote"}]
      /\ state \in [Node -> {"Follower", "Candidate", "Leader"}]
      /\ currentTerm \in [Node -> Term] /\ term \in [Node -> Term]
      /\ leaderID \in [Node -> Node \cup {None}]
      /\ \A n \in Node : currentTerm[n] \in Nat
      /\ elected \subseteq elected' /\ None \notin Node
      /\ \A m \in inflight : m.from \in Node /\ m.to \in Node /\ m.term \in Nat
    BY Shapes, HistoryGrows, NodeAssumption DEF TypeOK
<1>1. ASSUME NEW n \in Node, StartElection(n) PROVE LeadershipBacked' /\ LeaderIdentity'
    BY <1>0, <1>1 DEF StartElection, LeadershipBacked, LeaderIdentity
<1>2. ASSUME NEW n \in Node, StartHeartbeat(n) PROVE LeadershipBacked' /\ LeaderIdentity'
    BY <1>0, <1>2 DEF StartHeartbeat, LeadershipBacked, LeaderIdentity, fields, hist
<1>3. ASSUME NEW n \in Node, NEW p \in Node, Call(n, p)
      PROVE  LeadershipBacked' /\ LeaderIdentity'
    <2> DEFINE q == [kind |-> IF phase[n] = "election" THEN "vote" ELSE "beat",
                     term |-> term[n], from |-> n, to |-> p]
    <2>1. /\ UNCHANGED <<fields, phase, term, hist>> /\ inflight' \subseteq inflight \cup {q}
          /\ phase[n] # "election" => phase[n] = "heartbeat"
        BY <1>3 DEF Call
    <2>2. q.kind = "beat" => <<q.from, q.term>> \in elected
        BY <2>1 DEF LeadershipBacked
    <2> QED
        BY <1>0, <2>1, <2>2 DEF LeadershipBacked, LeaderIdentity, fields, hist
<1>4. ASSUME NEW n \in Node, AdoptHigherTerm(n, reply[n].term), EndRound(n), UNCHANGED inflight
      PROVE  LeadershipBacked' /\ LeaderIdentity'
    BY <1>0, <1>4 DEF AdoptHigherTerm, EndRound, LeadershipBacked, LeaderIdentity
<1>5. ASSUME NEW n \in Node, EndRound(n), UNCHANGED fields, inflight' \subseteq inflight
      PROVE  LeadershipBacked' /\ LeaderIdentity'
    BY <1>0, <1>5 DEF EndRound, fields, LeadershipBacked, LeaderIdentity
<1>6. ASSUME UNCHANGED <<fields, phase, term, inflight>>
      PROVE  LeadershipBacked' /\ LeaderIdentity'
    BY <1>0, <1>6 DEF fields, LeadershipBacked, LeaderIdentity
<1>7. ASSUME NEW n \in Node, VoteReply(n) PROVE LeadershipBacked' /\ LeaderIdentity'
    BY <1>4, <1>5, <1>6, <1>7 DEF VoteReply
<1>8. ASSUME NEW n \in Node, FinishElection(n) PROVE LeadershipBacked' /\ LeaderIdentity'
    <2>1. CASE StillCandidate(n) /\ Majority(votes[n])
        BY <1>0, <1>8, <2>1 DEF FinishElection, EndRound, LeadershipBacked, LeaderIdentity
    <2>2. CASE ~ (StillCandidate(n) /\ Majority(votes[n]))
        BY <1>5, <1>8, <2>2 DEF FinishElection, fields
    <2> QED
        BY <2>1, <2>2
<1>9. ASSUME NEW n \in Node, BeatReply(n) PROVE LeadershipBacked' /\ LeaderIdentity'
    BY <1>0, <1>9 DEF BeatReply, fields, LeadershipBacked, LeaderIdentity
<1>10. ASSUME NEW n \in Node, FinishHeartbeat(n) \/ Crash(n)
       PROVE  LeadershipBacked' /\ LeaderIdentity'
    BY <1>5, <1>10 DEF FinishHeartbeat, Crash
<1>11. ASSUME NEW m \in inflight, HandleVote(m) PROVE LeadershipBacked' /\ LeaderIdentity'
    <2>1. inflight' \subseteq inflight /\ UNCHANGED <<phase, term>>
        BY <1>11 DEF HandleVote, Answer
    <2>2. CASE m.term > currentTerm[m.to]
        <3>1. /\ currentTerm' = [currentTerm EXCEPT ![m.to] = m.term]
              /\ state' = [state EXCEPT ![m.to] = "Follower"]
              /\ leaderID' = [leaderID EXCEPT ![m.to] = None]
            BY <1>11, <2>2 DEF HandleVote
        <3> QED
            BY <1>0, <2>1, <3>1 DEF LeadershipBacked, LeaderIdentity
    <2>3. CASE ~ (m.term > currentTerm[m.to])
        BY <1>0, <1>11, <2>1, <2>3 DEF HandleVote, LeadershipBacked, LeaderIdentity
    <2> QED
        BY <2>2, <2>3
<1>12. ASSUME NEW m \in inflight, HandleBeat(m) PROVE LeadershipBacked' /\ LeaderIdentity'
    <2>1. inflight' \subseteq inflight /\ UNCHANGED <<phase, term>>
        BY <1>12 DEF HandleBeat, Answer
    <2>2. CASE m.term < currentTerm[m.to]
        BY <1>0, <1>12, <2>1, <2>2 DEF HandleBeat, fields, LeadershipBacked, LeaderIdentity
    <2>3. CASE ~ (m.term < currentTerm[m.to])
        <3>1. /\ currentTerm' = [currentTerm EXCEPT ![m.to] = m.term]
              /\ state' = [state EXCEPT ![m.to] = "Follower"]
              /\ leaderID' = [leaderID EXCEPT ![m.to] = m.from]
              /\ <<m.from, m.term>> \in elected
            BY <1>12, <2>3 DEF HandleBeat, LeadershipBacked
        <3> QED
            BY <1>0, <2>1, <3>1 DEF LeadershipBacked, LeaderIdentity
    <2> QED
        BY <2>2, <2>3
<1>13. ASSUME NEW n \in Node, Restart(n) PROVE LeadershipBacked' /\ LeaderIdentity'
    BY <1>0, <1>13 DEF Restart, round, LeadershipBacked, LeaderIdentity
<1> QED
    BY <1>1, <1>2, <1>3, <1>4, <1>6, <1>7, <1>8, <1>9, <1>10, <1>11, <1>12, <1>13
    DEF Next, RoundStep, StepDown, CallFails, vars, round

\* Every new leadership has a majority of granted votes behind it.
LEMMA MajorityStep ==
    ASSUME TypeOK, CountBacked, ElectedByMajority, [Next]_vars
    PROVE  ElectedByMajority'
<1> DEFINE Won(e, G) == \E Q \in SUBSET Node : Majority(Q) /\ \A v \in Q : <<v, e[1], e[2]>> \in G
<1>1. \A e \in elected : Won(e, granted')
    BY HistoryGrows DEF ElectedByMajority
<1>2. ASSUME NEW n \in Node, FinishElection(n) PROVE ElectedByMajority'
    <2>1. CASE StillCandidate(n) /\ Majority(votes[n])
        <3>1. votes[n] \in SUBSET Node /\ \A v \in votes[n] : <<v, n, currentTerm[n]>> \in granted'
            BY <1>2, <2>1 DEF FinishElection, StillCandidate, CountBacked, TypeOK
        <3>2. Won(<<n, currentTerm[n]>>, granted')
            BY <2>1, <3>1
        <3>3. elected' = elected \cup {<<n, currentTerm[n]>>}
            BY <1>2, <2>1 DEF FinishElection
        <3> QED
            BY <1>1, <3>2, <3>3 DEF ElectedByMajority
    <2>2. CASE ~ (StillCandidate(n) /\ Majority(votes[n]))
        BY <1>1, <1>2, <2>2 DEF FinishElection, ElectedByMajority
    <2> QED
        BY <2>1, <2>2
<1>3. CASE UNCHANGED elected
    BY <1>1, <1>3 DEF ElectedByMajority
<1>4. ASSUME NEW n \in Node, FinishElection(n) => FALSE
      PROVE  \/ StartElection(n) \/ StartHeartbeat(n) \/ RoundStep(n) \/ Crash(n) \/ Restart(n)
             => UNCHANGED elected
    BY <1>4 DEF RoundStep, hist, StartElection, StartHeartbeat, Call, CallFails, VoteReply,
                BeatReply, StepDown, FinishHeartbeat, Crash, Restart
<1>5. ASSUME NEW m \in inflight, HandleVote(m) \/ HandleBeat(m) PROVE UNCHANGED elected
    BY <1>5 DEF HandleVote, HandleBeat, hist
<1> QED
    BY <1>2, <1>3, <1>4, <1>5 DEF Next, vars, hist

-----------------------------------------------------------------------------
\* The inductive invariant.
IInv ==
    /\ TypeOK /\ ReplyAsked
    /\ VoteRecorded /\ RememberedVotesUnique
    /\ CountBacked /\ ElectedByMajority
    /\ LeadershipBacked /\ LeaderIdentity

\* The initial states satisfy the invariant.
LEMMA InitIInv == Init => IInv
<1> SUFFICES ASSUME Init PROVE IInv
    OBVIOUS
<1>1. TypeOK
    BY BoundAssumption DEF Init, TypeOK, Term
<1> QED
    BY <1>1 DEF Init, IInv, ReplyAsked, VoteRecorded, RememberedVotesUnique, CountBacked,
                ElectedByMajority, LeadershipBacked, LeaderIdentity

\* IInv holds in every reachable state.
THEOREM Inductive == Spec => []IInv
<1>1. IInv /\ [Next]_vars => IInv'
    BY TypeStep, ReplyStep, VoteStep, CountStep, MajorityStep, LeaderStep DEF IInv
<1> QED
    BY InitIInv, <1>1, PTL DEF Spec

\* Every variable of an exp7 node keeps its type.
THEOREM TypeCorrect == Spec => []TypeOK
BY Inductive, PTL DEF IInv

\* A won leadership always stands on a majority of votes granted to that node
\* in that term, however handlers interleave with startElection.
THEOREM MajorityBacked == Spec => []ElectedByMajority
BY Inductive, PTL DEF IInv

\* The leader a node that is not campaigning names has won that node's term.
THEOREM LeaderIdentified == Spec => []LeaderIdentity
BY Inductive, PTL DEF IInv

\* Two majorities share a node.
LEMMA MajoritiesMeet ==
    ASSUME NEW P \in SUBSET Node, NEW Q \in SUBSET Node, Majority(P), Majority(Q)
    PROVE  P \cap Q # {}
<1>1. Cardinality(Node) \in Nat /\ Cardinality(P) \in Nat /\ Cardinality(Q) \in Nat
    BY NodeAssumption, FS_Subset, FS_CardinalityType
<1>2. Cardinality(P) + Cardinality(Q) > Cardinality(Node)
    BY <1>1 DEF Majority
<1> QED
    BY <1>2, NodeAssumption, FS_MajoritiesIntersect

\* Votes are lost only in the two ways forgot records (a restart, or a stale
\* higher term written over the node's own): without them no term of the
\* cluster has two winners, for any number of nodes, terms and crashes.
THEOREM SafeElections == Spec => []SafeUnlessForgotten
<1>1. IInv => SafeUnlessForgotten
    <2> SUFFICES ASSUME IInv, forgot = {}, NEW d \in elected, NEW e \in elected, d[2] = e[2]
                 PROVE  d = e
        BY DEF SafeUnlessForgotten, ElectionSafety
    <2>0. d \in Node \X Term /\ e \in Node \X Term
        BY DEF IInv, TypeOK
    <2>1. PICK P \in SUBSET Node : Majority(P) /\ \A v \in P : <<v, d[1], d[2]>> \in granted
        BY DEF IInv, ElectedByMajority
    <2>2. PICK Q \in SUBSET Node : Majority(Q) /\ \A v \in Q : <<v, e[1], e[2]>> \in granted
        BY DEF IInv, ElectedByMajority
    <2>3. PICK v \in Node : v \in P /\ v \in Q
        BY <2>1, <2>2, MajoritiesMeet
    <2>4. d[1] = e[1]
        BY <2>0, <2>1, <2>2, <2>3 DEF IInv, RememberedVotesUnique
    <2> QED
        BY <2>0, <2>4
<1> QED
    BY <1>1, Inductive, PTL

-----------------------------------------------------------------------------
(*                                                                         *)
(* The rumour that spreads among servers (Gossip).                         *)
(*                                                                         *)
CONSTANTS N, Fanout, Rounds, Inbox
VARIABLES hasBoss, knownAt, inbox, running, sending, lap, turn, from
Rumour == INSTANCE Gossip WITH round <- lap

\* Who sends knew of the boss before the round it sends in, and so did the
\* source of every event that still lies in an inbox, whenever it is read.
Event == [source : Rumour!Server, round : Int]
Knew(s, r) == hasBoss[s] /\ knownAt[s] < r
Senders == \A s \in Rumour!Server : sending[s] # {} => Knew(s, Rumour!SendRound(s))
Events  == \A s \in Rumour!Server : \A i \in 1..Len(inbox[s]) :
             Knew(inbox[s][i].source, inbox[s][i].round)
Told    == \A s \in Rumour!Server \ {1} : hasBoss[s] => Knew(from[s], knownAt[s])

GInv == /\ hasBoss \in [Rumour!Server -> BOOLEAN] /\ knownAt \in [Rumour!Server -> Int]
        /\ inbox \in [Rumour!Server -> Seq(Event)]
        /\ sending \in [Rumour!Server -> SUBSET Rumour!Server]
        /\ lap \in Int /\ turn \in 0..(N + 1) /\ from \in [Rumour!Server -> Rumour!Server]
        /\ hasBoss[1] /\ Senders /\ Events /\ Told

\* The first event makes a server know; the others knew before it.
LEMMA ReceiveKeeps ==
    ASSUME Rumour!GossipAssumption, GInv, NEW s \in Rumour!Server, Rumour!Receive(s)
    PROVE  GInv'
<1> DEFINE e == Head(inbox[s])
<1>1. /\ e \in Event /\ Knew(e.source, e.round)
      /\ \A i \in 1..Len(Tail(inbox[s])) : /\ Tail(inbox[s])[i] = inbox[s][i + 1]
                                            /\ i + 1 \in 1..Len(inbox[s])
      /\ Tail(inbox[s]) \in Seq(Event)
  <2>1. inbox[s] \in Seq(Event) /\ inbox[s] # <<>>
      BY DEF GInv, Rumour!Receive
  <2>2. 1 \in 1..Len(inbox[s]) /\ e = inbox[s][1]
      BY <2>1
  <2> HIDE DEF e
  <2> QED BY <2>1, <2>2 DEF GInv, Events
<1>2. /\ inbox' = [inbox EXCEPT ![s] = Tail(inbox[s])] /\ UNCHANGED <<sending, lap, turn>>
      /\ Rumour!Discover(s, e)
    BY DEF Rumour!Receive
<1> HIDE DEF e
<1>3. /\ e.source \in Rumour!Server /\ e.round \in Int
    BY <1>1 DEF Event
<1>4. /\ hasBoss' \in [Rumour!Server -> BOOLEAN] /\ knownAt' \in [Rumour!Server -> Int]
      /\ from' \in [Rumour!Server -> Rumour!Server]
    BY <1>2, <1>3 DEF Rumour!Discover, GInv
<1>5. \A q \in Rumour!Server : hasBoss[q] => hasBoss'[q] /\ knownAt'[q] = knownAt[q]
    BY <1>2 DEF Rumour!Discover, GInv
<1>6. \A q \in Rumour!Server, r \in Int : Knew(q, r) => Knew(q, r)'
    BY <1>5 DEF Knew
<1>7. inbox' \in [Rumour!Server -> Seq(Event)]
    BY <1>1, <1>2 DEF GInv
<1>8. Events'
  <2> SUFFICES ASSUME NEW q \in Rumour!Server, NEW i \in 1..Len(inbox'[q])
               PROVE  Knew(inbox[q][i].source, inbox[q][i].round)'
      BY DEF Events
  <2>1. PICK j \in 1..Len(inbox[q]) : inbox'[q][i] = inbox[q][j]
      BY <1>1, <1>2 DEF GInv
  <2>2. inbox[q][j] \in Event
      BY DEF GInv
  <2>3. inbox[q][j].source \in Rumour!Server /\ inbox[q][j].round \in Int
      BY <2>2 DEF Event
  <2>4. Knew(inbox[q][j].source, inbox[q][j].round)
      BY DEF GInv, Events
  <2> QED BY <1>5, <2>1, <2>3, <2>4 DEF Knew
<1>9. Senders'
    BY <1>2, <1>5 DEF GInv, Senders, Knew, Rumour!SendRound, Rumour!Cancelled
<1>10. Told'
  <2> SUFFICES ASSUME NEW q \in Rumour!Server \ {1}, hasBoss'[q] PROVE Knew(from[q], knownAt[q])'
      BY DEF Told
  <2>1. CASE hasBoss[q]
    <3>1. from'[q] = from[q] /\ knownAt'[q] = knownAt[q]
        BY <1>2, <2>1 DEF Rumour!Discover, GInv
    <3> QED BY <1>5, <2>1, <3>1 DEF GInv, Told, Knew
  <2>2. CASE ~hasBoss[q]
    <3>1. q = s /\ from'[q] = e.source /\ knownAt'[q] = e.round
        BY <1>2, <2>2 DEF Rumour!Discover, GInv
    <3> QED BY <1>1, <1>3, <1>5, <3>1 DEF Knew
  <2> QED BY <2>1, <2>2
<1>11. hasBoss'[1]
  <2>1. 1 \in Rumour!Server
      BY DEF Rumour!Server, Rumour!GossipAssumption
  <2> QED BY <1>5, <2>1 DEF GInv
<1> QED BY <1>2, <1>4, <1>7, <1>8, <1>9, <1>10, <1>11 DEF GInv

\* An event carries the round in which its sender was told to send.
LEMMA GossipKeeps ==
    ASSUME Rumour!GossipAssumption, GInv, NEW s \in Rumour!Server, NEW t \in Rumour!Server,
           Rumour!GossipTo(s, t)
    PROVE  GInv'
<1> DEFINE e == [source |-> s, round |-> Rumour!SendRound(s)]
<1>1. UNCHANGED <<hasBoss, knownAt, lap, turn, from>>
    BY DEF Rumour!GossipTo
<1>2. e \in Event /\ Knew(e.source, e.round)
  <2>1. Rumour!SendRound(s) \in Int
      BY DEF Rumour!SendRound, GInv
  <2>2. Knew(s, Rumour!SendRound(s))
      BY DEF GInv, Senders, Rumour!GossipTo
  <2> QED BY <2>1, <2>2 DEF Event
<1>3. /\ sending' \in [Rumour!Server -> SUBSET Rumour!Server]
      /\ \A q \in Rumour!Server : sending'[q] # {} => sending[q] # {}
    BY DEF Rumour!GossipTo, GInv
<1>4. Senders'
    BY <1>1, <1>3 DEF GInv, Senders, Knew, Rumour!SendRound, Rumour!Cancelled
<1>5. inbox' = [inbox EXCEPT ![t] = IF Len(inbox[t]) < Inbox THEN Append(inbox[t], e) ELSE inbox[t]]
    BY DEF Rumour!GossipTo
<1> HIDE DEF e
<1>6. inbox' \in [Rumour!Server -> Seq(Event)]
    BY <1>2, <1>5 DEF GInv
<1>7. Events'
  <2> SUFFICES ASSUME NEW q \in Rumour!Server, NEW i \in 1..Len(inbox'[q])
               PROVE  Knew(inbox[q][i].source, inbox[q][i].round)'
      BY DEF Events
  <2>1. inbox[q] \in Seq(Event)
      BY DEF GInv
  <2>2. inbox'[q][i] = e \/ (i \in 1..Len(inbox[q]) /\ inbox'[q][i] = inbox[q][i])
    <3>1. CASE inbox'[q] = inbox[q]
        BY <3>1
    <3>2. CASE inbox'[q] = Append(inbox[q], e)
        BY <1>2, <2>1, <3>2
    <3> QED BY <1>5, <3>1, <3>2 DEF GInv
  <2> QED BY <1>1, <1>2, <2>2 DEF GInv, Events, Knew
<1> QED BY <1>1, <1>3, <1>4, <1>6, <1>7 DEF GInv, Told, Knew

\* main hands out a round, or begins the next one; a server returns.
LEMMA RoundKeeps ==
    ASSUME Rumour!GossipAssumption, GInv,
           \/ Rumour!HandRound \/ Rumour!EndRound \/ UNCHANGED Rumour!vars
           \/ \E s \in Rumour!Server : Rumour!Return(s)
    PROVE  GInv'
<1>1. UNCHANGED <<hasBoss, knownAt, from, inbox>>
    BY DEF Rumour!HandRound, Rumour!EndRound, Rumour!Return, Rumour!vars
<1>2. Events' /\ Told'
    BY <1>1 DEF GInv, Events, Told, Knew
<1>3. CASE Rumour!HandRound
  <2>1. /\ turn \in Rumour!Server /\ sending[turn] = {} /\ turn' = turn + 1 /\ UNCHANGED lap
      BY <1>3 DEF Rumour!HandRound, Rumour!Selects
  <2>2. sending' \in [Rumour!Server -> SUBSET Rumour!Server]
    <3>1. ASSUME NEW targets \in Rumour!Picks(turn) PROVE targets \in SUBSET Rumour!Server
        BY <3>1 DEF Rumour!Picks, Rumour!kSubset
    <3>2. \/ sending' = sending
          \/ \E targets \in Rumour!Picks(turn) : sending' = [sending EXCEPT ![turn] = targets]
        BY <1>3 DEF Rumour!HandRound
    <3> QED BY <2>1, <3>1, <3>2 DEF GInv
  <2>3. \A s \in Rumour!Server : s # turn => sending'[s] = sending[s]
      BY <1>3, <2>1 DEF Rumour!HandRound, GInv
  <2>4. sending'[turn] # {} => Knew(turn, lap)
      BY <1>3, <2>1 DEF Rumour!HandRound, GInv, Rumour!MayGossip, Knew
  <2>5. Senders'
    <3>1. turn \in Int /\ turn # 0 /\ turn' # 0
        BY <2>1 DEF Rumour!Server, Rumour!GossipAssumption
    <3>2. \A s \in Rumour!Server : s # turn => Rumour!SendRound(s)' = Rumour!SendRound(s)
        BY <2>1, <3>1 DEF Rumour!SendRound, Rumour!Cancelled, Rumour!Server
    <3>3. ASSUME NEW s \in Rumour!Server, s = turn PROVE Rumour!SendRound(s)' = lap
        BY <2>1, <3>1, <3>3 DEF Rumour!SendRound, Rumour!Cancelled, Rumour!Server
    <3> QED BY <1>1, <2>3, <2>4, <3>2, <3>3 DEF GInv, Senders, Knew
  <2>6. turn' \in 0..(N + 1)
      BY <2>1 DEF Rumour!Server, Rumour!GossipAssumption
  <2> QED BY <1>1, <1>2, <2>1, <2>2, <2>5, <2>6 DEF GInv
<1>4. CASE Rumour!EndRound
  <2>1. /\ turn = N + 1 /\ UNCHANGED sending
        /\ \/ turn' = 0 /\ lap' = lap
           \/ turn' = 1 /\ lap' = lap + 1
      BY <1>4 DEF Rumour!EndRound
  <2>2. \A s \in Rumour!Server : Rumour!SendRound(s)' = Rumour!SendRound(s)
    <3>1. N \in Int /\ N > 0 /\ lap \in Int
        BY DEF Rumour!GossipAssumption, GInv
    <3>2. ASSUME NEW s \in Rumour!Server PROVE Rumour!SendRound(s)' = Rumour!SendRound(s)
      <4>1. s \in Int /\ 1 <= s /\ s <= N
          BY <3>1 DEF Rumour!Server
      <4>2. Rumour!SendRound(s) = lap
          BY <2>1, <3>1, <4>1 DEF Rumour!SendRound
      <4>3. Rumour!SendRound(s)' = lap
          BY <2>1, <3>1, <4>1 DEF Rumour!SendRound, Rumour!Cancelled
      <4> QED BY <4>2, <4>3
    <3> QED BY <3>2
  <2>3. Senders'
      BY <1>1, <2>1, <2>2 DEF GInv, Senders, Knew
  <2> QED BY <1>1, <1>2, <2>1, <2>3 DEF GInv, Rumour!GossipAssumption
<1>5. CASE UNCHANGED Rumour!vars \/ \E s \in Rumour!Server : Rumour!Return(s)
  <2>1. UNCHANGED <<sending, lap, turn>>
      BY <1>5 DEF Rumour!vars, Rumour!Return
  <2>2. Senders'
      BY <1>1, <2>1 DEF GInv, Senders, Knew, Rumour!SendRound, Rumour!Cancelled
  <2> QED BY <1>1, <1>2, <2>1, <2>2 DEF GInv
<1> QED BY <1>3, <1>4, <1>5

\* However long an event lies in an inbox, whoever told a server of the boss
\* knew it from an earlier round than the one the server counts itself in:
\* nothing travels two hops in one round (Gossip's NoChain; main.go, where
\* nobody waits for the messages of a round to be read).
THEOREM NoTwoHops ==
    ASSUME Rumour!GossipAssumption
    PROVE  Rumour!Spec => []Rumour!NoChain
<1>1. Rumour!Init => GInv
  <2> SUFFICES ASSUME Rumour!Init PROVE GInv
      OBVIOUS
  <2>1. 1 \in Rumour!Server /\ 0 \in 0..(N + 1) /\ 1 \in 0..(N + 1)
      BY DEF Rumour!Server, Rumour!GossipAssumption
  <2>2. \A s \in Rumour!Server : inbox[s] = <<>> /\ Len(inbox[s]) = 0
      BY DEF Rumour!Init
  <2>3. Events
      BY <2>2 DEF Events
  <2>4. Senders /\ Told
      BY DEF Rumour!Init, Senders, Told
  <2>5. inbox \in [Rumour!Server -> Seq(Event)]
      BY DEF Rumour!Init
  <2>6. knownAt \in [Rumour!Server -> Int]
      BY DEF Rumour!Init
  <2>7. hasBoss \in [Rumour!Server -> BOOLEAN] /\ hasBoss[1]
      BY <2>1, Zenon DEF Rumour!Init
  <2> QED BY <2>1, <2>3, <2>4, <2>5, <2>6, <2>7 DEF Rumour!Init, GInv
<1>2. GInv /\ [Rumour!Next]_(Rumour!vars) => GInv'
    BY ReceiveKeeps, GossipKeeps, RoundKeeps DEF Rumour!Next
<1>3. GInv => Rumour!NoChain
    BY DEF GInv, Told, Knew, Rumour!NoChain, Rumour!Known
<1> QED BY <1>1, <1>2, <1>3, PTL DEF Rumour!Spec

-----------------------------------------------------------------------------
(*                                                                         *)
(* The pool that bounds what it opens (ConnectionPool).                    *)
(*                                                                         *)
CONSTANTS Worker, Requests, MaxOpen, MaxIdle, Expires, Fails
VARIABLES pc, jobs, openConn, idle, closed
Pool == INSTANCE ConnectionPool

Used   == Pool!Holding \cup Pool!Counted
Places == Used \cup {"ready", "get", "claim", "block", "waiting", "done"}
Live   == {w \in Worker : pc[w] \in Used}

\* The count is right until the pool is closed, by when nobody works any more.
PInv == /\ pc \in [Worker -> Places] /\ jobs \in 0..Requests /\ closed \in BOOLEAN
        /\ idle \in 0..MaxIdle /\ openConn \in 0..MaxOpen
        /\ closed => \A w \in Worker : pc[w] = "done"
        /\ closed \/ openConn = Cardinality(Live) + idle

\* As many connections are live as workers at most.
LEMMA LiveFinite ==
    ASSUME Pool!PoolAssumption
    PROVE  IsFiniteSet(Live) /\ Cardinality(Live) \in Nat
<1>1. IsFiniteSet(Worker)
    BY DEF Pool!PoolAssumption, Pool!IsFiniteSet, IsFiniteSet
<1>2. Live \in SUBSET Worker
    BY DEF Live
<1> QED BY <1>1, <1>2, FS_Subset, FS_CardinalityType

\* The connection that a worker gets or parts with comes or goes.
One(place) == IF place \in Used THEN 1 ELSE 0
Balances(place, w) == openConn' + idle + One(pc[w]) = openConn + idle' + One(place)

\* The worker that a step moves takes a connection with it, or leaves one.
LEMMA OneMoves ==
    ASSUME Pool!PoolAssumption, PInv, NEW w \in Worker, NEW place \in Places, pc[w] # "done",
           pc' = [pc EXCEPT ![w] = place], UNCHANGED closed, jobs' \in 0..Requests,
           openConn' \in Int, openConn' <= MaxOpen, idle' \in 0..MaxIdle, Balances(place, w)
    PROVE  PInv'
<1>1. /\ pc' \in [Worker -> Places] /\ closed = FALSE /\ openConn = Cardinality(Live) + idle
      /\ idle \in Int /\ openConn \in Int /\ MaxIdle \in Int /\ MaxOpen \in Int
      /\ idle' \in Int /\ idle' >= 0
    BY DEF PInv, Pool!PoolAssumption
<1>2. IsFiniteSet(Live) /\ Cardinality(Live) \in Nat
    BY LiveFinite
<1>3. w \in Live <=> pc[w] \in Used
    BY DEF Live
<1>4. Live' = IF place \in Used THEN Live \cup {w} ELSE Live \ {w}
    BY DEF Live, PInv
<1>5. Cardinality(Live') + One(pc[w]) = Cardinality(Live) + One(place) /\ Cardinality(Live') \in Nat
  <2>1. CASE place \in Used
    <3>1. /\ IsFiniteSet(Live')
          /\ Cardinality(Live') = IF w \in Live THEN Cardinality(Live) ELSE Cardinality(Live) + 1
        BY <1>2, <1>4, <2>1, FS_AddElement
    <3> QED BY <1>2, <1>3, <2>1, <3>1 DEF One
  <2>2. CASE place \notin Used
    <3>1. /\ IsFiniteSet(Live') /\ Cardinality(Live') \in Nat
          /\ Cardinality(Live') = IF w \in Live THEN Cardinality(Live) - 1 ELSE Cardinality(Live)
        BY <1>2, <1>4, <2>2, FS_RemoveElement, FS_CardinalityType
    <3> QED BY <1>2, <1>3, <2>2, <3>1 DEF One
  <2> QED BY <2>1, <2>2
<1>6. openConn' = Cardinality(Live') + idle' /\ openConn' \in 0..MaxOpen
  <2>1. One(pc[w]) \in Int /\ One(place) \in Int /\ openConn' \in Int
      BY <1>1 DEF One
  <2>2. openConn' + idle + One(pc[w]) = openConn + idle' + One(place)
      BY DEF Balances
  <2> QED BY <1>1, <1>2, <1>5, <2>1, <2>2
<1> QED BY <1>1, <1>6 DEF PInv

\* A connection that is put back may go to a sleeper at once.
LEMMA HandOver ==
    ASSUME Pool!PoolAssumption, PInv, NEW w \in Worker, NEW s \in Worker,
           pc[w] = "put", pc[s] = "waiting", pc' = [pc EXCEPT ![w] = "ready", ![s] = "handed"],
           UNCHANGED <<jobs, openConn, idle, closed>>
    PROVE  PInv'
<1>1. IsFiniteSet(Live) /\ Cardinality(Live) \in Nat
    BY LiveFinite
<1>2. /\ Live' = (Live \ {w}) \cup {s} /\ w \in Live /\ s \notin Live /\ s # w
      /\ pc' \in [Worker -> Places]
    BY DEF PInv, Live, Used, Places, Pool!Holding, Pool!Counted
<1>3. Cardinality(Live') = Cardinality(Live)
  <2>1. IsFiniteSet(Live \ {w}) /\ Cardinality(Live \ {w}) = Cardinality(Live) - 1
      BY <1>1, <1>2, FS_RemoveElement
  <2>2. Cardinality((Live \ {w}) \cup {s}) = Cardinality(Live \ {w}) + 1
      BY <1>2, <2>1, FS_AddElement
  <2> QED BY <1>1, <1>2, <2>1, <2>2
<1>4. closed = FALSE
    BY DEF PInv
<1> QED BY <1>2, <1>3, <1>4 DEF PInv

\* Every step of a worker.
LEMMA WorkCounts ==
    ASSUME Pool!PoolAssumption, PInv, NEW w \in Worker, Pool!Work(w)
    PROVE  PInv'
<1> USE DEF Used, Places, Pool!Holding, Pool!Counted, Pool!Goto
<1>1. /\ jobs \in 0..Requests /\ idle \in 0..MaxIdle /\ openConn \in 0..MaxOpen /\ Requests \in Nat
      /\ MaxIdle \in Nat /\ MaxOpen \in Nat
      /\ UNCHANGED closed
    BY DEF PInv, Pool!PoolAssumption, Pool!Work, Pool!Job, Pool!Get, Pool!Claim, Pool!Dial,
           Pool!Block,
           Pool!Wake, Pool!Request, Pool!Put, Pool!Close, Pool!Uncount
<1>2. CASE Pool!Job(w) \/ Pool!Wake(w) \/ Pool!Request(w) \/ Pool!Close(w)
  <2>1. PICK place \in Places : /\ pc' = [pc EXCEPT ![w] = place] /\ pc[w] # "done"
                                /\ place \in Used <=> pc[w] \in Used
                                /\ UNCHANGED <<openConn, idle>> /\ jobs' \in 0..Requests
      BY <1>1, <1>2 DEF Pool!Job, Pool!Wake, Pool!Use, Pool!Request, Pool!Close
  <2>2. /\ idle' \in 0..MaxIdle /\ openConn' \in Int /\ openConn' <= MaxOpen
        /\ Balances(place, w)
      BY <1>1, <2>1 DEF Balances, One
  <2>3. pc[w] # "done"
      BY <2>1
  <2> HIDE DEF Used, Places
  <2> QED BY <1>1, <2>1, <2>2, <2>3, OneMoves
<1>3. CASE Pool!Get(w) \/ Pool!Block(w)
  <2>1. PICK place \in Places : /\ pc' = [pc EXCEPT ![w] = place] /\ pc[w] \notin Used \cup {"done"}
                                /\ \/ place \in Used /\ idle' = idle - 1 /\ idle > 0
                                   \/ place \notin Used /\ UNCHANGED idle
                                /\ UNCHANGED <<openConn, jobs>>
      BY <1>1, <1>3 DEF Pool!Get, Pool!Block, Pool!Use
  <2>2. /\ idle' \in 0..MaxIdle /\ openConn' \in Int /\ openConn' <= MaxOpen
        /\ Balances(place, w)
      BY <1>1, <2>1 DEF Balances, One
  <2>3. pc[w] # "done" /\ jobs' \in 0..Requests
      BY <1>1, <2>1
  <2> HIDE DEF Used, Places
  <2> QED BY <1>1, <2>1, <2>2, <2>3, OneMoves
<1>4. CASE Pool!Claim(w)
  <2>1. PICK place \in Places : /\ pc' = [pc EXCEPT ![w] = place] /\ pc[w] \notin Used \cup {"done"}
                                /\ \/ /\ place \in Used /\ openConn < MaxOpen
                                      /\ openConn' = openConn + 1
                                   \/ place \notin Used /\ UNCHANGED openConn
                                /\ UNCHANGED <<idle, jobs>>
      BY <1>1, <1>4 DEF Pool!Claim
  <2>2. /\ idle' \in 0..MaxIdle /\ openConn' \in Int /\ openConn' <= MaxOpen
        /\ Balances(place, w)
      BY <1>1, <2>1 DEF Balances, One
  <2>3. pc[w] # "done" /\ jobs' \in 0..Requests
      BY <1>1, <2>1
  <2> HIDE DEF Used, Places
  <2> QED BY <1>1, <2>1, <2>2, <2>3, OneMoves
<1>5. CASE Pool!Dial(w) \/ Pool!Uncount(w)
  <2>1. PICK place \in Places : /\ pc' = [pc EXCEPT ![w] = place] /\ pc[w] \in Used
                                /\ \/ place \in Used /\ openConn' = openConn
                                   \/ place \notin Used /\ openConn' = openConn - 1
                                /\ UNCHANGED <<idle, jobs>>
      BY <1>1, <1>5 DEF Pool!Dial, Pool!Uncount
  <2>2. /\ idle' \in 0..MaxIdle /\ openConn' \in Int /\ openConn' <= MaxOpen
        /\ Balances(place, w)
      BY <1>1, <2>1 DEF Balances, One
  <2>3. pc[w] # "done" /\ jobs' \in 0..Requests
      BY <1>1, <2>1
  <2> HIDE DEF Used, Places
  <2> QED BY <1>1, <2>1, <2>2, <2>3, OneMoves
<1>6. CASE Pool!Put(w)
  <2>1. CASE \E s \in Pool!At({"waiting"}) : pc' = [pc EXCEPT ![w] = "ready", ![s] = "handed"]
             /\ UNCHANGED idle
      BY <1>1, <1>6, <2>1, HandOver DEF Pool!Put, Pool!At
  <2>2. CASE \E place \in Places : /\ pc' = [pc EXCEPT ![w] = place]
                                   /\ \/ place \in Used /\ UNCHANGED idle
                                      \/ place \notin Used /\ idle' = idle + 1 /\ idle < MaxIdle
    <3>1. PICK place \in Places : /\ pc' = [pc EXCEPT ![w] = place]
                                  /\ \/ place \in Used /\ UNCHANGED idle
                                     \/ place \notin Used /\ idle' = idle + 1 /\ idle < MaxIdle
        BY <2>2
    <3>2. pc[w] \in Used /\ UNCHANGED <<openConn, jobs>>
        BY <1>6 DEF Pool!Put
    <3>3. /\ idle' \in 0..MaxIdle /\ openConn' \in Int /\ openConn' <= MaxOpen
          /\ Balances(place, w)
        BY <1>1, <3>1, <3>2 DEF Balances, One
    <3>4. pc[w] # "done" /\ jobs' \in 0..Requests
        BY <1>1, <3>2
    <3> HIDE DEF Used, Places
    <3> QED BY <1>1, <3>1, <3>3, <3>4, OneMoves
  <2> QED BY <1>6, <2>1, <2>2 DEF Pool!Put
<1> QED BY <1>2, <1>3, <1>4, <1>5, <1>6 DEF Pool!Work

\* The pool is opened empty,
LEMMA PoolInit ==
    ASSUME Pool!PoolAssumption, Pool!Init
    PROVE  PInv
<1>1. Live = {}
    BY DEF Pool!Init, Live, Used, Pool!Holding, Pool!Counted
<1>2. Cardinality(Live) = 0
    BY <1>1, FS_EmptySet
<1>3. pc \in [Worker -> Places] /\ openConn = 0 /\ idle = 0 /\ jobs = Requests /\ closed = FALSE
    BY DEF Pool!Init, Places
<1>4. MaxIdle \in Nat /\ MaxOpen \in Nat /\ Requests \in Nat
    BY DEF Pool!PoolAssumption
<1>5. jobs \in 0..Requests /\ idle \in 0..MaxIdle /\ openConn \in 0..MaxOpen
    BY <1>3, <1>4
<1>6. openConn = Cardinality(Live) + idle
    BY <1>2, <1>3
<1>7. closed \in BOOLEAN /\ ~closed
    BY <1>3
<1> QED BY <1>3, <1>5, <1>6, <1>7 DEF PInv

\* and closed when everybody is done.
LEMMA PoolStep ==
    ASSUME Pool!PoolAssumption, PInv, [Pool!Next]_(Pool!vars)
    PROVE  PInv'
<1>1. CASE UNCHANGED Pool!vars
    BY <1>1 DEF Pool!vars, PInv, Live
<1>2. CASE Pool!ClosePool
    BY <1>2 DEF Pool!ClosePool, Pool!At, PInv, Pool!PoolAssumption
<1> QED BY <1>1, <1>2, WorkCounts DEF Pool!Next

\* The count of the pool is exactly its sockets and the dials under way, and it
\* stays within maxOpenConns, whatever expires or fails (ConnectionPool's
\* Accounted; closeConn, dialNew, get, put).
THEOREM PoolCounts ==
    ASSUME Pool!PoolAssumption
    PROVE  Pool!Spec => [](Pool!TypeOK /\ Pool!Accounted)
<1>1. PInv => Pool!TypeOK /\ Pool!Accounted
  <2> SUFFICES ASSUME PInv PROVE Pool!TypeOK /\ Pool!Accounted
      OBVIOUS
  <2> DEFINE H == Pool!At(Pool!Holding)
             C == Pool!At(Pool!Counted)
  <2>1. Live = H \cup C /\ H \cap C = {} /\ H \in SUBSET Live /\ C \in SUBSET Live
      BY DEF Live, Used, Pool!At, Pool!Holding, Pool!Counted
  <2> HIDE DEF H, C
  <2>2. IsFiniteSet(Live) /\ IsFiniteSet(H) /\ IsFiniteSet(C)
      BY <2>1, LiveFinite, FS_Subset
  <2>3. Cardinality(Live) = Cardinality(H) + Cardinality(C) - 0
      BY <2>1, <2>2, FS_Union, FS_EmptySet
  <2>4. Cardinality(H) \in Nat /\ Cardinality(C) \in Nat
      BY <2>2, FS_CardinalityType
  <2>5. Pool!Cardinality(H) = Cardinality(H) /\ Pool!Cardinality(C) = Cardinality(C)
      BY <2>2 DEF Pool!Cardinality, Cardinality
  <2>6. closed \/ openConn = Pool!Cardinality(H) + idle + Pool!Cardinality(C)
      BY <2>3, <2>4, <2>5 DEF PInv
  <2> QED BY <2>6 DEF H, C, Pool!Accounted, Pool!TypeOK, PInv, Places, Used
<1> QED BY <1>1, PoolInit, PoolStep, PTL DEF Pool!Spec

\* Without lifetimes and failures a connection is only closed beside one that
\* is kept, so that once one has been opened there is one for whoever waits.
InUse == {"dial", "request", "put", "handed"}
Kept  == idle > 0 \/ \E w \in Worker : pc[w] \in InUse
Asks  == openConn > 0 \/ \E w \in Worker : pc[w] \in {"block", "waiting"}
KInv  == /\ PInv
         /\ ~closed /\ Asks => Kept
         /\ \A w \in Worker : pc[w] = "waiting" => idle = 0

\* Every step of a worker leaves one.
LEMMA WorkKeeps ==
    ASSUME Pool!PoolAssumption, ~Expires, ~Fails, KInv, NEW w \in Worker, Pool!Work(w)
    PROVE  KInv'
<1>1. /\ PInv' /\ pc \in [Worker -> Places] /\ idle \in 0..MaxIdle /\ openConn \in 0..MaxOpen
      /\ MaxIdle \in Nat \ {0} /\ MaxOpen \in Nat \ {0}
    BY WorkCounts DEF KInv, PInv, Pool!PoolAssumption
<1>2. closed = FALSE /\ closed' = FALSE
    BY DEF KInv, PInv, Pool!Work, Pool!Job, Pool!Get, Pool!Claim, Pool!Dial, Pool!Block,
           Pool!Wake, Pool!Request, Pool!Put, Pool!Close, Pool!Uncount
<1> USE DEF Pool!Goto, InUse
<1>3. CASE Pool!Job(w) \/ Pool!Close(w) \/ Pool!Uncount(w)
    BY <1>1, <1>2, <1>3 DEF KInv, Kept, Asks, Pool!Job, Pool!Close, Pool!Uncount
<1>4. CASE Pool!Get(w) \/ Pool!Block(w)
    BY <1>1, <1>2, <1>4 DEF KInv, Kept, Asks, Pool!Get, Pool!Block, Pool!Use
<1>5. CASE Pool!Claim(w)
    BY <1>1, <1>2, <1>5 DEF KInv, Kept, Asks, Pool!Claim
<1>6. CASE Pool!Dial(w) \/ Pool!Wake(w) \/ Pool!Request(w)
    BY <1>1, <1>2, <1>6 DEF KInv, Kept, Asks, Pool!Dial, Pool!Wake, Pool!Request, Pool!Use
<1>7. CASE Pool!Put(w)
    BY <1>1, <1>2, <1>7 DEF KInv, Kept, Asks, Pool!Put, Pool!At
<1> QED BY <1>3, <1>4, <1>5, <1>6, <1>7 DEF Pool!Work

\* Where no connection expires or fails, nobody sleeps on the idle channel
\* without a connection that can still be handed over (ConnectionPool's Woken;
\* get, put).
THEOREM PoolWakes ==
    ASSUME Pool!PoolAssumption, ~Expires, ~Fails
    PROVE  Pool!Spec => []Pool!Woken
<1>1. Pool!Init => KInv
  <2> SUFFICES ASSUME Pool!Init PROVE KInv
      OBVIOUS
  <2>1. ~Asks /\ \A w \in Worker : pc[w] # "waiting"
      BY DEF Pool!Init, Asks
  <2> QED BY <2>1, PoolInit DEF KInv
<1>2. KInv /\ [Pool!Next]_(Pool!vars) => KInv'
  <2> SUFFICES ASSUME KInv, [Pool!Next]_(Pool!vars) PROVE KInv'
      OBVIOUS
  <2>0. PInv'
      BY PoolStep DEF KInv
  <2>1. CASE UNCHANGED Pool!vars
      BY <2>0, <2>1 DEF Pool!vars, KInv, Kept, Asks
  <2>2. CASE Pool!ClosePool
      BY <2>0, <2>2 DEF Pool!ClosePool, KInv, Pool!At
  <2> QED BY <2>1, <2>2, WorkKeeps DEF Pool!Next
<1>3. KInv => Pool!Woken
  <2> SUFFICES ASSUME KInv, NEW s \in Worker, pc[s] = "waiting" PROVE idle = 0 /\ openConn > 0
      BY DEF Pool!Woken, Pool!At
  <2>1. idle = 0 /\ ~closed
      BY DEF KInv, PInv
  <2>2. PICK w \in Worker : pc[w] \in InUse
      BY <2>1 DEF KInv, Kept, Asks
  <2>3. Live # {}
      BY <2>2 DEF Live, Used, InUse, Pool!Holding, Pool!Counted
  <2>4. Cardinality(Live) # 0 /\ Cardinality(Live) \in Nat
      BY <2>3, LiveFinite, FS_EmptySet
  <2> QED BY <2>1, <2>4 DEF KInv, PInv
<1> QED BY <1>1, <1>2, <1>3, PTL DEF Pool!Spec

-----------------------------------------------------------------------------
(*                                                                         *)
(* The layered game servers of ch5/exp1 and ch5/exp2 (LayeredServer).      *)
(*                                                                         *)
CONSTANTS Client, User, Own(_), Map, Sharded, MapSize, MaxCommands, MaxLate, MaxFails,
          MaxRestarts
VARIABLES who, map, ui, request, orphans, shown, sent, store, late, fails, restarts
Layers == INSTANCE LayeredServer

\* What the Storage of its user holds of the player at client c.
Place(c) == store[Layers!Index(who[c])][<<who[c], map[c]>>]
Undisturbed == late = 0 /\ restarts = 0 /\ Layers!OwnUsers

\* A command that is underway is its client's own, and a position that was
\* loaded or saved for it is still the one the Storage holds.
Underway(c) == /\ ui[c] # "wait" => request[c] = Layers!Idle
               /\ ui[c] = "wait" =>
                    /\ request[c] \in Layers!Requests
                    /\ request[c].user = who[c] /\ request[c].map = map[c]
                    /\ (Undisturbed /\ request[c].stage \in {"loaded", "ok"}) =>
                         request[c].pos = Place(c)
InView(c)   == (Undisturbed /\ ui[c] # "wait" /\ shown[c] # None) => shown[c] = Place(c)
LayerInv == /\ Layers!TypeOK /\ DOMAIN request = Client /\ (late = 0 => orphans = {})
            /\ \A c \in Client : who[c] \in Own(c) /\ Underway(c) /\ InView(c)

LEMMA Storing ==
    ASSUME Layers!LayeredAssumption, LayerInv
    PROVE  /\ \A u \in User : Layers!Index(u) \in Layers!Storages
           /\ \A s \in Layers!Storages, u \in User, m \in Map :
                 store[s][<<u, m>>] \in 0..MapSize
           /\ \A r \in Layers!Requests : /\ Layers!Clamp(r.pos + r.step) \in 0..MapSize
                                         /\ Layers!Clamp(r.pos + r.step) - r.pos \in {-1, 0, 1}
<1>1. \A u \in User : Layers!Index(u) \in Layers!Storages
  <2>1. \A n \in Nat : n % 2 \in {0, 1}
      OBVIOUS
  <2> QED BY <2>1 DEF Layers!LayeredAssumption, Layers!Index, Layers!Storages
<1>2. ASSUME NEW s \in Layers!Storages, NEW u \in User, NEW m \in Map
      PROVE  store[s][<<u, m>>] \in 0..MapSize
    BY DEF LayerInv, Layers!TypeOK
<1>3. ASSUME NEW r \in Layers!Requests
      PROVE  /\ Layers!Clamp(r.pos + r.step) \in 0..MapSize
             /\ Layers!Clamp(r.pos + r.step) - r.pos \in {-1, 0, 1}
  <2>1. r.pos \in 0..MapSize /\ r.step \in {-1, 0, 1} /\ MapSize \in Nat
      BY DEF Layers!Requests, Layers!LayeredAssumption
  <2>2. r.step = -1 \/ r.step = 0 \/ r.step = 1
      BY <2>1
  <2> QED BY <2>1, <2>2 DEF Layers!Clamp
<1> QED BY <1>1, <1>2, <1>3

\* A request on its way to the Games and back, when nothing is stored.
LEMMA Advance ==
    ASSUME Layers!LayeredAssumption, LayerInv, NEW c \in Client, ui[c] = "wait",
           NEW r \in Layers!Requests, r.user = who[c], r.map = map[c],
           request' = [request EXCEPT ![c] = r],
           (Undisturbed /\ r.stage \in {"loaded", "ok"}) => r.pos = Place(c),
           who' = who, map' = map, sent' = sent, ui' = ui, orphans' = orphans, shown' = shown,
           store' = store, late' = late, restarts' = restarts, fails' \in 0..MaxFails
    PROVE  LayerInv'
<1>1. /\ request'[c] = r /\ DOMAIN request' = Client
      /\ \A b \in Client \ {c} : request'[b] = request[b]
    BY DEF LayerInv
<1>2. Layers!TypeOK'
    BY <1>1 DEF LayerInv, Layers!TypeOK
<1>3. ASSUME NEW b \in Client PROVE (who[b] \in Own(b) /\ Underway(b) /\ InView(b))'
  <2>1. who[b] \in Own(b) /\ Underway(b) /\ InView(b)
      BY DEF LayerInv
  <2>2. CASE b = c
      BY <1>1, <2>1, <2>2 DEF Underway, InView, Undisturbed, Place
  <2>3. CASE b # c
      BY <1>1, <2>1, <2>3 DEF Underway, InView, Undisturbed, Place
  <2> QED BY <2>2, <2>3
<1> QED BY <1>1, <1>2, <1>3 DEF LayerInv

LEMMA SendKeeps ==
    ASSUME Layers!LayeredAssumption, LayerInv, NEW c \in Client, NEW d \in {-1, 0, 1},
           ui[c] # "wait", Layers!Send(c, d),
           UNCHANGED <<who, map, orphans, shown, store, fails, late, restarts>>
    PROVE  LayerInv'
<1> DEFINE r == [user |-> who[c], map |-> map[c], step |-> d, pos |-> 0, stage |-> "gateway"]
<1>1. who[c] \in User /\ map[c] \in Map /\ 0 \in 0..MapSize
    BY DEF LayerInv, Layers!TypeOK, Layers!LayeredAssumption
<1>2. /\ r \in Layers!Requests /\ r.user = who[c] /\ r.map = map[c] /\ r.stage = "gateway"
    BY <1>1 DEF Layers!Requests
<1>3. request' = [request EXCEPT ![c] = r] /\ ui' = [ui EXCEPT ![c] = "wait"]
      /\ sent' = [sent EXCEPT ![c] = sent[c] + 1] /\ sent[c] < MaxCommands
    BY DEF Layers!Send
<1> HIDE DEF r
<1>4. /\ request'[c] = r /\ ui'[c] = "wait" /\ DOMAIN request' = Client
      /\ \A b \in Client \ {c} : request'[b] = request[b] /\ ui'[b] = ui[b]
    BY <1>3 DEF LayerInv, Layers!TypeOK
<1>5. sent' \in [Client -> 0..MaxCommands] /\ ui' \in [Client -> {"show", "ask", "wait"}]
  <2>1. sent[c] + 1 \in 0..MaxCommands
    <3>1. sent[c] \in 0..MaxCommands /\ MaxCommands \in Nat
        BY DEF LayerInv, Layers!TypeOK, Layers!LayeredAssumption
    <3> QED BY <1>3, <3>1
  <2> QED BY <1>3, <2>1 DEF LayerInv, Layers!TypeOK
<1>6. Layers!TypeOK'
    BY <1>2, <1>4, <1>5 DEF LayerInv, Layers!TypeOK
<1>7. ASSUME NEW b \in Client PROVE (who[b] \in Own(b) /\ Underway(b) /\ InView(b))'
  <2>1. who[b] \in Own(b) /\ Underway(b) /\ InView(b)
      BY DEF LayerInv
  <2>2. CASE b = c
      BY <1>2, <1>4, <2>1, <2>2 DEF Underway, InView, Undisturbed, Place
  <2>3. CASE b # c
      BY <1>4, <2>1, <2>3 DEF Underway, InView, Undisturbed, Place
  <2> QED BY <2>2, <2>3
<1> QED BY <1>4, <1>6, <1>7 DEF LayerInv

LEMMA SwitchKeeps ==
    ASSUME Layers!LayeredAssumption, LayerInv, NEW c \in Client, NEW u \in Own(c), NEW m \in Map,
           Layers!Switch(c, u, m)
    PROVE  LayerInv'
<1>1. u \in User
    BY DEF Layers!LayeredAssumption
<1>2. /\ who' = [who EXCEPT ![c] = u] /\ map' = [map EXCEPT ![c] = m] /\ ui[c] = "ask"
      /\ ui' = [ui EXCEPT ![c] = "show"] /\ shown' = [shown EXCEPT ![c] = None]
      /\ UNCHANGED <<request, orphans, sent, store, fails, late, restarts>>
    BY DEF Layers!Switch, Layers!faults
<1>3. /\ who'[c] = u /\ map'[c] = m /\ ui'[c] = "show" /\ shown'[c] = None
      /\ \A b \in Client \ {c} : /\ who'[b] = who[b] /\ map'[b] = map[b] /\ ui'[b] = ui[b]
                                 /\ shown'[b] = shown[b]
    BY <1>2 DEF LayerInv, Layers!TypeOK
<1>4. Layers!TypeOK'
    BY <1>1, <1>2 DEF LayerInv, Layers!TypeOK
<1>5. ASSUME NEW b \in Client PROVE (who[b] \in Own(b) /\ Underway(b) /\ InView(b))'
  <2>1. who[b] \in Own(b) /\ Underway(b) /\ InView(b)
      BY DEF LayerInv
  <2>2. CASE b = c
      BY <1>2, <1>3, <2>1, <2>2 DEF Underway, InView, Undisturbed, Place
  <2>3. CASE b # c
      BY <1>2, <1>3, <2>1, <2>3 DEF Underway, InView, Undisturbed, Place
  <2> QED BY <2>2, <2>3
<1> QED BY <1>2, <1>4, <1>5 DEF LayerInv

LEMMA OneFailure ==
    ASSUME Layers!LayeredAssumption, LayerInv, Layers!Fail \/ fails' = fails
    PROVE  fails' \in 0..MaxFails
<1>1. fails \in 0..MaxFails /\ MaxFails \in Nat
    BY DEF LayerInv, Layers!TypeOK, Layers!LayeredAssumption
<1> QED BY <1>1 DEF Layers!Fail

\* Every request that is not Idle belongs to a client that waits for it.
LEMMA Waiting ==
    ASSUME LayerInv, NEW c \in Client, request[c].stage \notin {"ok", "err"}
    PROVE  /\ ui[c] = "wait" /\ request[c] \in Layers!Requests
           /\ request[c].user = who[c] /\ request[c].map = map[c]
           /\ who[c] \in User /\ map[c] \in Map
<1>1. Underway(c) /\ who[c] \in User /\ map[c] \in Map
    BY DEF LayerInv, Layers!TypeOK
<1>2. Layers!Idle.stage = "ok"
    BY DEF Layers!Idle
<1> QED BY <1>1, <1>2 DEF Underway

LEMMA ForwardKeeps ==
    ASSUME Layers!LayeredAssumption, LayerInv, NEW c \in Client, Layers!Forward(c)
    PROVE  LayerInv'
<1>1. request[c].stage = "gateway"
    BY DEF Layers!Forward
<1>2. /\ ui[c] = "wait" /\ request[c] \in Layers!Requests
      /\ request[c].user = who[c] /\ request[c].map = map[c]
    BY <1>1, Waiting
<1>3. PICK s \in {"game", "err"} : request' = [request EXCEPT ![c].stage = s]
    BY DEF Layers!Forward
<1> DEFINE r == [request[c] EXCEPT !.stage = s]
<1>4. r \in Layers!Requests /\ r.user = who[c] /\ r.map = map[c] /\ r.stage \notin {"loaded", "ok"}
    BY <1>2 DEF Layers!Requests
<1>5. request' = [request EXCEPT ![c] = r]
    BY <1>3
<1>6. fails' \in 0..MaxFails
    BY OneFailure DEF Layers!Forward
<1> HIDE DEF r
<1>7. UNCHANGED <<who, map, sent, ui, orphans, shown, store, late, restarts>>
    BY DEF Layers!Forward, Layers!player, Layers!faults
<1> QED BY <1>2, <1>4, <1>5, <1>6, <1>7, Advance

LEMMA LoadKeeps ==
    ASSUME Layers!LayeredAssumption, LayerInv, NEW c \in Client, Layers!Load(c)
    PROVE  LayerInv'
<1>1. request[c].stage = "game"
    BY DEF Layers!Load
<1>2. /\ ui[c] = "wait" /\ request[c] \in Layers!Requests
      /\ request[c].user = who[c] /\ request[c].map = map[c] /\ who[c] \in User /\ map[c] \in Map
    BY <1>1, Waiting
<1>3. Place(c) \in 0..MapSize /\ Layers!LoadInto(request[c]).pos = Place(c)
  <2>1. Place(c) \in 0..MapSize
      BY <1>2, Storing DEF Place
  <2>2. Layers!LoadInto(request[c]).pos = Place(c)
      BY <1>2 DEF Layers!LoadInto, Layers!StorageFor, Place, Layers!Requests
  <2> QED BY <2>1, <2>2
<1>4. PICK r \in {Layers!LoadInto(request[c]), [request[c] EXCEPT !.stage = "err"]} :
        request' = [request EXCEPT ![c] = r]
    BY DEF Layers!Load
<1>5. r \in Layers!Requests /\ r.user = who[c] /\ r.map = map[c]
  <2>1. CASE r = [request[c] EXCEPT !.stage = "err"]
      BY <1>2, <2>1 DEF Layers!Requests
  <2>2. CASE r = Layers!LoadInto(request[c])
    <3>1. r.pos \in 0..MapSize
        BY <1>3, <2>2
    <3>2. \E p, s : r = [request[c] EXCEPT !.pos = p, !.stage = s] /\ s \in {"ok", "loaded"}
        BY <2>2 DEF Layers!LoadInto
    <3> QED BY <1>2, <3>1, <3>2 DEF Layers!Requests
  <2> QED BY <2>1, <2>2
<1>6. r.stage \in {"loaded", "ok"} => r.pos = Place(c)
  <2>1. [request[c] EXCEPT !.stage = "err"].stage = "err"
      BY <1>2 DEF Layers!Requests
  <2> QED BY <1>3, <2>1
<1>7. fails' \in 0..MaxFails
    BY OneFailure DEF Layers!Load
<1>8. UNCHANGED <<who, map, sent, ui, orphans, shown, store, late, restarts>>
    BY DEF Layers!Load, Layers!player, Layers!faults
<1> QED BY <1>2, <1>4, <1>5, <1>6, <1>7, <1>8, Advance

\* A write changes the position of one user on one map.
LEMMA Written ==
    ASSUME Layers!LayeredAssumption, LayerInv, NEW r \in Layers!Requests
    PROVE  /\ Layers!SaveFrom(r) \in [Layers!Storages -> [User \X Map -> 0..MapSize]]
           /\ Layers!SaveFrom(r)[Layers!Index(r.user)][<<r.user, r.map>>]
                = Layers!Clamp(r.pos + r.step)
           /\ \A s \in Layers!Storages, k \in User \X Map :
                 Layers!SaveFrom(r)[s][k] # store[s][k] =>
                   s = Layers!Index(r.user) /\ k = <<r.user, r.map>>
<1> DEFINE i == Layers!Index(r.user)
           j == <<r.user, r.map>>
           v == Layers!Clamp(r.pos + r.step)
<1>1. i \in Layers!Storages /\ r.user \in User /\ r.map \in Map /\ v \in 0..MapSize
    BY Storing DEF Layers!Requests
<1>2. j \in User \X Map
    BY <1>1
<1>3. Layers!SaveFrom(r) = [store EXCEPT ![i] = [store[i] EXCEPT ![j] = v]]
    BY DEF Layers!SaveFrom, Layers!StorageFor
<1>4. store \in [Layers!Storages -> [User \X Map -> 0..MapSize]]
    BY DEF LayerInv, Layers!TypeOK
<1> HIDE DEF i, j, v
<1>5. [store[i] EXCEPT ![j] = v] \in [User \X Map -> 0..MapSize]
    BY <1>1, <1>4
<1>6. Layers!SaveFrom(r) \in [Layers!Storages -> [User \X Map -> 0..MapSize]]
    BY <1>3, <1>4, <1>5
<1>7. Layers!SaveFrom(r)[i][j] = v
    BY <1>1, <1>2, <1>3, <1>4
<1>8. ASSUME NEW s \in Layers!Storages, NEW k \in User \X Map, s # i \/ k # j
      PROVE  Layers!SaveFrom(r)[s][k] = store[s][k]
    BY <1>1, <1>2, <1>3, <1>4, <1>8
<1> QED BY <1>6, <1>7, <1>8 DEF i, j, v

LEMMA SaveKeeps ==
    ASSUME Layers!LayeredAssumption, LayerInv, NEW c \in Client, Layers!Save(c)
    PROVE  LayerInv'
<1> DEFINE r == request[c]
           v == Layers!Clamp(r.pos + r.step)
<1>1. r.stage = "loaded"
    BY DEF Layers!Save
<1>2. /\ ui[c] = "wait" /\ r \in Layers!Requests
      /\ r.user = who[c] /\ r.map = map[c] /\ who[c] \in User /\ map[c] \in Map
    BY <1>1, Waiting
<1>3. v \in 0..MapSize
    BY <1>2, Storing
<1>4. UNCHANGED <<who, map, sent, ui, orphans, shown, late, restarts>> /\ fails' \in 0..MaxFails
    BY OneFailure DEF Layers!Save, Layers!player, Layers!faults
<1>5. PICK w \in {[r EXCEPT !.pos = v, !.stage = "ok"], [r EXCEPT !.stage = "err"]} :
        /\ request' = [request EXCEPT ![c] = w]
        /\ store' = store \/ store' = Layers!SaveFrom(r)
        /\ store' = Layers!SaveFrom(r) \/ w = [r EXCEPT !.stage = "err"]
  <2>1. CASE /\ store' = Layers!SaveFrom(r)
             /\ request' = [request EXCEPT ![c].pos = v, ![c].stage = "ok"]
    <3>1. request' = [request EXCEPT ![c] = [r EXCEPT !.pos = v, !.stage = "ok"]]
        BY <2>1 DEF LayerInv
    <3> QED BY <2>1, <3>1
  <2>2. CASE /\ store' = store \/ store' = Layers!SaveFrom(r)
             /\ request' = [request EXCEPT ![c].stage = "err"]
      BY <2>2
  <2> QED BY <2>1, <2>2 DEF Layers!Save
<1>6. w \in Layers!Requests /\ w.user = who[c] /\ w.map = map[c] /\ w.stage \in {"ok", "err"}
    BY <1>2, <1>3, <1>5 DEF Layers!Requests
<1>7. w.stage = "ok" => w.pos = v /\ store' = Layers!SaveFrom(r)
    BY <1>2, <1>5 DEF Layers!Requests
<1>8. CASE w.stage = "err" /\ store' = store
    BY <1>2, <1>4, <1>5, <1>6, <1>8, Advance
<1>9. CASE store' = Layers!SaveFrom(r)
  <2>1. /\ request'[c] = w /\ DOMAIN request' = Client
        /\ \A b \in Client \ {c} : request'[b] = request[b]
      BY <1>5 DEF LayerInv
  <2>2. /\ store' \in [Layers!Storages -> [User \X Map -> 0..MapSize]]
        /\ store'[Layers!Index(who[c])][<<who[c], map[c]>>] = v
        /\ \A s \in Layers!Storages, k \in User \X Map :
              store'[s][k] # store[s][k] =>
                s = Layers!Index(who[c]) /\ k = <<who[c], map[c]>>
    <3>1. /\ Layers!SaveFrom(r) \in [Layers!Storages -> [User \X Map -> 0..MapSize]]
          /\ Layers!SaveFrom(r)[Layers!Index(r.user)][<<r.user, r.map>>] = v
          /\ \A s \in Layers!Storages, k \in User \X Map :
                Layers!SaveFrom(r)[s][k] # store[s][k] =>
                  s = Layers!Index(r.user) /\ k = <<r.user, r.map>>
        BY <1>2, Written
    <3> QED BY <1>2, <1>9, <3>1
  <2>3. Layers!TypeOK'
      BY <1>4, <1>6, <2>1, <2>2 DEF LayerInv, Layers!TypeOK
  <2>4. Place(c)' = v
      BY <1>4, <2>2 DEF Place
  <2>5. ASSUME NEW b \in Client, b # c, Layers!OwnUsers PROVE Place(b)' = Place(b)
    <3>1. who[b] \in User /\ map[b] \in Map /\ who[b] # who[c]
        BY <2>5 DEF LayerInv, Layers!TypeOK, Layers!OwnUsers
    <3>2. Layers!Index(who[b]) \in Layers!Storages /\ <<who[b], map[b]>> \in User \X Map
        BY <3>1, Storing
    <3>3. <<who[b], map[b]>> # <<who[c], map[c]>>
        BY <3>1
    <3> QED BY <1>4, <2>2, <3>2, <3>3 DEF Place
  <2>6. ASSUME NEW b \in Client PROVE (who[b] \in Own(b) /\ Underway(b) /\ InView(b))'
    <3>1. who[b] \in Own(b) /\ Underway(b) /\ InView(b)
        BY DEF LayerInv
    <3>2. CASE b = c
        BY <1>2, <1>4, <1>6, <1>7, <2>1, <2>4, <3>1, <3>2 DEF Underway, InView
    <3>3. CASE b # c
      <4>1. Undisturbed' => Undisturbed /\ Place(b)' = Place(b)
          BY <1>4, <2>5, <3>3 DEF Undisturbed
      <4> QED BY <1>4, <2>1, <3>1, <3>3, <4>1 DEF Underway, InView
    <3> QED BY <3>2, <3>3
  <2> QED BY <1>4, <2>1, <2>3, <2>6 DEF LayerInv
<1> QED BY <1>5, <1>6, <1>7, <1>8, <1>9

LEMMA GiveUpKeeps ==
    ASSUME Layers!LayeredAssumption, LayerInv, NEW c \in Client, Layers!GiveUp(c)
    PROVE  LayerInv'
<1> DEFINE r == [request[c] EXCEPT !.stage = "err"]
<1>1. request[c].stage \notin {"ok", "err"}
    BY DEF Layers!GiveUp
<1>2. /\ ui[c] = "wait" /\ request[c] \in Layers!Requests
      /\ request[c].user = who[c] /\ request[c].map = map[c]
    BY <1>1, Waiting
<1>3. r \in Layers!Requests /\ r.user = who[c] /\ r.map = map[c]
    BY <1>2 DEF Layers!Requests
<1>4. /\ request' = [request EXCEPT ![c] = r] /\ late' = late + 1 /\ late < MaxLate
      /\ orphans' = orphans \cup {[on |-> c, of |-> request[c]]}
      /\ UNCHANGED <<who, map, sent, ui, shown, store, fails, restarts>>
    BY DEF Layers!GiveUp, Layers!player
<1> HIDE DEF r
<1>5. /\ request'[c] = r /\ DOMAIN request' = Client
      /\ \A b \in Client \ {c} : request'[b] = request[b]
    BY <1>4 DEF LayerInv
<1>6. late' \in 0..MaxLate /\ late' # 0
  <2>1. late \in 0..MaxLate /\ MaxLate \in Nat
      BY DEF LayerInv, Layers!TypeOK, Layers!LayeredAssumption
  <2> QED BY <1>4, <2>1
<1>7. Layers!TypeOK'
  <2>1. [on |-> c, of |-> request[c]] \in [on : Client, of : Layers!Requests]
      BY <1>2
  <2>2. orphans' \subseteq [on : Client, of : Layers!Requests]
      BY <1>4, <2>1 DEF LayerInv, Layers!TypeOK
  <2> QED BY <1>3, <1>4, <1>5, <1>6, <2>2 DEF LayerInv, Layers!TypeOK
<1>8. ASSUME NEW b \in Client PROVE (who[b] \in Own(b) /\ Underway(b) /\ InView(b))'
  <2>1. who[b] \in Own(b) /\ Underway(b) /\ ~Undisturbed'
      BY <1>6 DEF LayerInv, Undisturbed
  <2> QED BY <1>2, <1>3, <1>4, <1>5, <2>1 DEF Underway, InView
<1> QED BY <1>5, <1>6, <1>7, <1>8 DEF LayerInv

LEMMA AnswerKeeps ==
    ASSUME Layers!LayeredAssumption, LayerInv, NEW c \in Client, Layers!Answer(c)
    PROVE  LayerInv'
<1>1. Underway(c) /\ ui[c] = "wait" /\ request[c].stage \in {"ok", "err"}
    BY DEF LayerInv, Layers!Answer
<1>2. PICK p \in {request[c].pos, None}, l \in {"show", "ask"} :
        /\ shown' = [shown EXCEPT ![c] = p] /\ ui' = [ui EXCEPT ![c] = l]
        /\ p # None => request[c].stage = "ok" /\ p = request[c].pos
    BY DEF Layers!Answer
<1>3. /\ request' = [request EXCEPT ![c] = Layers!Idle]
      /\ UNCHANGED <<who, map, sent, orphans, store, fails, late, restarts>>
    BY DEF Layers!Answer, Layers!player, Layers!faults
<1>4. p \in (0..MapSize) \cup {None}
    BY <1>1, <1>2 DEF Underway, Layers!Requests
<1>5. /\ request'[c] = Layers!Idle /\ DOMAIN request' = Client /\ shown'[c] = p /\ ui'[c] = l
      /\ \A b \in Client \ {c} : /\ request'[b] = request[b] /\ shown'[b] = shown[b]
                                 /\ ui'[b] = ui[b]
    BY <1>2, <1>3 DEF LayerInv, Layers!TypeOK
<1>6. Layers!TypeOK'
  <2>1. /\ shown' \in [Client -> (0..MapSize) \cup {None}]
        /\ ui' \in [Client -> {"show", "ask", "wait"}]
      BY <1>2, <1>4 DEF LayerInv, Layers!TypeOK
  <2> QED BY <1>3, <1>5, <2>1 DEF LayerInv, Layers!TypeOK
<1>7. ASSUME NEW b \in Client PROVE (who[b] \in Own(b) /\ Underway(b) /\ InView(b))'
  <2>1. who[b] \in Own(b) /\ Underway(b) /\ InView(b)
      BY DEF LayerInv
  <2>2. CASE b = c
      BY <1>1, <1>2, <1>3, <1>5, <2>1, <2>2 DEF Underway, InView, Undisturbed, Place
  <2>3. CASE b # c
      BY <1>3, <1>5, <2>1, <2>3 DEF Underway, InView, Undisturbed, Place
  <2> QED BY <2>2, <2>3
<1> QED BY <1>3, <1>5, <1>6, <1>7 DEF LayerInv

\* A command whose caller has given up: there was a late one.
LEMMA OrphanKeeps ==
    ASSUME Layers!LayeredAssumption, LayerInv, NEW o \in orphans, Layers!Orphan(o)
    PROVE  LayerInv' /\ late # 0
<1>1. /\ o \in [on : Client, of : Layers!Requests] /\ late # 0
      /\ UNCHANGED <<who, map, sent, ui, request, shown, fails, late, restarts>>
    BY DEF LayerInv, Layers!TypeOK, Layers!Orphan, Layers!player, Layers!faults
<1>2. store' \in [Layers!Storages -> [User \X Map -> 0..MapSize]]
  <2>1. o.of \in Layers!Requests
      BY <1>1
  <2> QED BY <2>1, Written DEF Layers!Orphan, LayerInv, Layers!TypeOK
<1>3. orphans' \subseteq [on : Client, of : Layers!Requests]
  <2>1. o.of.user \in User /\ o.of.map \in Map
      BY <1>1 DEF Layers!Requests
  <2>2. store[Layers!StorageFor(o.of)][<<o.of.user, o.of.map>>] \in 0..MapSize
      BY <2>1, Storing DEF Layers!StorageFor
  <2>3. Layers!LoadInto(o.of) \in Layers!Requests
    <3>1. Layers!LoadInto(o.of) =
            [o.of EXCEPT !.pos = store[Layers!StorageFor(o.of)][<<o.of.user, o.of.map>>],
                         !.stage = IF o.of.step = 0 THEN "ok" ELSE "loaded"]
        BY DEF Layers!LoadInto
    <3>2. o.of \in Layers!Requests
        BY <1>1
    <3> QED BY <2>2, <3>1, <3>2 DEF Layers!Requests
  <2>4. [o EXCEPT !.of = Layers!LoadInto(o.of)] \in [on : Client, of : Layers!Requests]
      BY <1>1, <2>3
  <2>5. orphans \subseteq [on : Client, of : Layers!Requests]
      BY DEF LayerInv, Layers!TypeOK
  <2> QED BY <2>4, <2>5 DEF Layers!Orphan
<1>4. Layers!TypeOK'
    BY <1>1, <1>2, <1>3 DEF LayerInv, Layers!TypeOK
<1>5. ASSUME NEW b \in Client PROVE (who[b] \in Own(b) /\ Underway(b) /\ InView(b))'
  <2>1. who[b] \in Own(b) /\ Underway(b) /\ ~Undisturbed'
      BY <1>1 DEF LayerInv, Undisturbed
  <2> QED BY <1>1, <2>1 DEF Underway, InView
<1> QED BY <1>1, <1>4, <1>5 DEF LayerInv

LEMMA RestartKeeps ==
    ASSUME Layers!LayeredAssumption, LayerInv, NEW s \in Layers!Storages, Layers!Restart(s)
    PROVE  LayerInv' /\ restarts' # 0
<1>1. /\ restarts' = restarts + 1 /\ restarts < MaxRestarts
      /\ store' = [store EXCEPT ![s] = [k \in User \X Map |-> 0]]
      /\ UNCHANGED <<who, map, sent, ui, request, orphans, shown, fails, late>>
    BY DEF Layers!Restart, Layers!player
<1>2. restarts' \in 0..MaxRestarts /\ restarts' # 0
  <2>1. restarts \in 0..MaxRestarts /\ MaxRestarts \in Nat
      BY DEF LayerInv, Layers!TypeOK, Layers!LayeredAssumption
  <2> QED BY <1>1, <2>1
<1>3. store' \in [Layers!Storages -> [User \X Map -> 0..MapSize]]
  <2>1. [k \in User \X Map |-> 0] \in [User \X Map -> 0..MapSize]
      BY DEF Layers!LayeredAssumption
  <2> QED BY <1>1, <2>1 DEF LayerInv, Layers!TypeOK
<1>4. Layers!TypeOK'
    BY <1>1, <1>2, <1>3 DEF LayerInv, Layers!TypeOK
<1>5. ASSUME NEW b \in Client PROVE (who[b] \in Own(b) /\ Underway(b) /\ InView(b))'
  <2>1. who[b] \in Own(b) /\ Underway(b) /\ ~Undisturbed'
      BY <1>2 DEF LayerInv, Undisturbed
  <2> QED BY <1>1, <2>1 DEF Underway, InView
<1> QED BY <1>1, <1>2, <1>4, <1>5 DEF LayerInv

LEMMA LayerInit ==
    ASSUME Layers!LayeredAssumption, Layers!Init
    PROVE  LayerInv
<1>1. [s \in Layers!Storages |-> [k \in User \X Map |-> 0]]
        \in [Layers!Storages -> [User \X Map -> 0..MapSize]]
    BY DEF Layers!LayeredAssumption
<1>2. Layers!TypeOK
    BY <1>1 DEF Layers!Init, Layers!TypeOK, Layers!LayeredAssumption
<1> QED BY <1>2 DEF LayerInv, Underway, InView, Layers!Init

LEMMA LayerStep ==
    ASSUME Layers!LayeredAssumption, LayerInv, [Layers!Next]_(Layers!vars)
    PROVE  LayerInv'
<1>1. ASSUME NEW c \in Client, Layers!Serve(c) PROVE LayerInv'
    BY <1>1, ForwardKeeps, LoadKeeps, SaveKeeps, GiveUpKeeps, AnswerKeeps DEF Layers!Serve
<1>2. ASSUME NEW c \in Client, Layers!Play(c) PROVE LayerInv'
  <2>1. CASE Layers!Show(c) \/ Layers!ShowState(c)
      BY <2>1, SendKeeps DEF Layers!Show, Layers!ShowState, Layers!faults
  <2>2. ASSUME NEW d \in {-1, 1}, Layers!MoveCommand(c, d) PROVE LayerInv'
      BY <2>2, SendKeeps DEF Layers!MoveCommand, Layers!faults
  <2> QED BY <1>2, <2>1, <2>2, SwitchKeeps DEF Layers!Play
<1>3. CASE UNCHANGED Layers!vars
    BY <1>3 DEF Layers!vars, LayerInv, Layers!TypeOK, Underway, InView, Undisturbed, Place
<1> QED BY <1>1, <1>2, <1>3, OrphanKeeps, RestartKeeps DEF Layers!Next

\* A player who was shown a position was shown the one its Storage holds,
\* whatever others do on the same Games and Storages, for any number of
\* clients, users and maps, while no user has two clients, no caller has given
\* up on a command and no Storage has restarted (LayeredServer's Kept; the
\* clients', the Games' and the Storages' handlers).
THEOREM PositionsAreKept ==
    ASSUME Layers!LayeredAssumption
    PROVE  Layers!Spec => [](Layers!TypeOK /\ Layers!Kept)
<1>1. ASSUME LayerInv PROVE Layers!TypeOK /\ Layers!Kept
    BY <1>1 DEF LayerInv, InView, Undisturbed, Place, Layers!Kept
<1> QED BY LayerInit, LayerStep, <1>1, PTL DEF Layers!Spec

\* No command moves a player by more than a step, and none is computed from a
\* position that has changed since it was read (LayeredServer's OneStep; the
\* read and the write of the Games' /move and /process).
THEOREM OneStepEach ==
    ASSUME Layers!LayeredAssumption
    PROVE  Layers!Spec => Layers!OneStep
<1>1. ASSUME LayerInv, [Layers!Next]_(Layers!vars) PROVE Layers!Steps
  <2> SUFFICES ASSUME late = 0, restarts' = 0, Layers!OwnUsers,
                      NEW s \in Layers!Storages, NEW k \in User \X Map
               PROVE  store'[s][k] - store[s][k] \in {-1, 0, 1}
      BY DEF Layers!Steps
  <2>1. store[s][k] \in Int
      BY <1>1 DEF LayerInv, Layers!TypeOK
  <2>2. CASE store' = store
      BY <2>1, <2>2
  <2>3. ASSUME NEW c \in Client, Layers!Save(c) PROVE store'[s][k] - store[s][k] \in {-1, 0, 1}
    <3> DEFINE r == request[c]
    <3>1. r.stage = "loaded" /\ restarts' = restarts
        BY <2>3 DEF Layers!Save, Layers!faults
    <3>2. ui[c] = "wait" /\ r \in Layers!Requests /\ r.user = who[c] /\ r.map = map[c]
        BY <1>1, <3>1, Waiting
    <3>3. r.pos = store[Layers!Index(r.user)][<<r.user, r.map>>]
      <4>1. Underway(c) /\ Undisturbed
          BY <1>1, <3>1 DEF LayerInv, Undisturbed
      <4> QED BY <3>1, <3>2, <4>1 DEF Underway, Place
    <3>4. CASE store' = Layers!SaveFrom(r) /\ store'[s][k] # store[s][k]
      <4>1. /\ store'[s][k] = Layers!Clamp(r.pos + r.step) /\ store[s][k] = r.pos
          BY <1>1, <3>2, <3>3, <3>4, Written
      <4> QED BY <1>1, <3>2, <4>1, Storing
    <3>5. CASE store'[s][k] = store[s][k]
        BY <2>1, <3>5
    <3> QED BY <2>2, <2>3, <3>4, <3>5 DEF Layers!Save
  <2>4. CASE \E c \in Client : Layers!Serve(c) \/ Layers!Play(c)
      BY <2>2, <2>3, <2>4 DEF Layers!Serve, Layers!Play, Layers!Forward, Layers!Load,
         Layers!GiveUp, Layers!Answer, Layers!Show, Layers!ShowState,
         Layers!MoveCommand, Layers!Switch
  <2> QED BY <1>1, <2>2, <2>4, OrphanKeeps, RestartKeeps DEF Layers!Next, Layers!vars
<1> QED BY LayerInit, LayerStep, <1>1, PTL DEF Layers!Spec, Layers!OneStep
=============================================================================
