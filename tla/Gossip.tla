------------------------------- MODULE Gossip -------------------------------
(* The spreading of "the boss has appeared" among the servers of           *)
(*   src/CourseCode/ch5/exp5/main.go                                       *)
(* Every server is a goroutine with an inbox of bounded length; main hands *)
(* out the rounds, one server after the other, and does not wait for the   *)
(* messages of a round to be read.                                         *)
EXTENDS Naturals, Sequences, FiniteSets, FiniteSetsExt

CONSTANTS N,        \* serverCount; main hands out rounds to 1..N in order
          Fanout,   \* fanout
          Rounds,   \* rounds
          Inbox     \* capacity of an inbox: 16 in the code

Server == 1..N

GossipAssumption == /\ N \in Nat \ {0} /\ Rounds \in Nat \ {0}
                           /\ Fanout \in 1..(N - 1) /\ Inbox \in Nat \ {0}

VARIABLES hasBoss, knownAt,  \* fields of Server; knownAt 0 for the injection
          inbox,             \* inbox: BossEvent
          running,           \* the goroutines that have not returned
          sending,           \* targets picked and not yet sent to
          round,             \* main: round of its loop, and of each sender
          turn,              \* main: the server whose roundCh is next
          from               \* history: who told a server first

vars == <<hasBoss, knownAt, inbox, running, sending, round, turn, from>>

Cancelled == turn = 0

TypeOK == /\ hasBoss \in [Server -> BOOLEAN] /\ knownAt \in [Server -> 0..Rounds]
          /\ \A s \in Server : /\ Len(inbox[s]) <= Inbox
                               /\ \A i \in DOMAIN inbox[s] :
                                    inbox[s][i] \in [source : Server, round : 1..Rounds]
          /\ running \subseteq Server /\ sending \in [Server -> SUBSET Server]
          /\ round \in 1..Rounds /\ turn \in 0..(N + 1)
          /\ from \in [Server -> Server]

\* main up to the first round: server 1 has discovered the boss by itself.
Init == /\ hasBoss = [s \in Server |-> s = 1] /\ knownAt = [s \in Server |-> 0]
        /\ inbox = [s \in Server |-> <<>>] /\ running = Server
        /\ sending = [s \in Server |-> {}]
        /\ round = 1 /\ turn = 1 /\ from = [s \in Server |-> s]

\* run's select: the goroutine is not inside gossip.
Selects(s) == s \in running /\ sending[s] = {}

\* discover: only the first event counts.
Discover_Late(s, e) ==
  /\ hasBoss' = [hasBoss EXCEPT ![s] = TRUE]
  /\ knownAt' = [knownAt EXCEPT ![s] = e.round]
  /\ from' = [from EXCEPT ![s] = e.source]
Discover(s, e) ==
  IF hasBoss[s] THEN UNCHANGED <<hasBoss, knownAt, from>>
  ELSE /\ hasBoss' = [hasBoss EXCEPT ![s] = TRUE]
       /\ knownAt' = [knownAt EXCEPT ![s] = e.round]
       /\ from' = [from EXCEPT ![s] = e.source]

Receive(s) ==
  /\ Selects(s) /\ inbox[s] # <<>>
  /\ Discover(s, Head(inbox[s]))
  /\ inbox' = [inbox EXCEPT ![s] = Tail(@)]
  /\ UNCHANGED <<running, sending, round, turn>>

\* gossip: different targets, none of them the server itself.
Picks_OneMore(s) == kSubset(Fanout + 1, Server \ {s})
Picks(s) == kSubset(Fanout, Server \ {s})

\* A server that discovered the boss in this round waits for the next one.
MayGossip_SameRound(s) == hasBoss[s] /\ knownAt[s] <= round
MayGossip(s) == hasBoss[s] /\ knownAt[s] < round

\* main sends the round on an unbuffered channel; the server takes it.
HandRound ==
  /\ turn \in Server /\ Selects(turn)
  /\ turn' = turn + 1
  /\ IF MayGossip(turn)
     THEN \E targets \in Picks(turn) :
            sending' = [sending EXCEPT ![turn] = targets]
     ELSE UNCHANGED sending
  /\ UNCHANGED <<hasBoss, knownAt, inbox, running, round, from>>

\* main may be a round ahead of a server that is still sending.
SendRound(s) == IF Cancelled \/ s < turn THEN round ELSE round - 1

\* gossipTo: a full inbox is skipped.
GossipTo_Blocks(s, t) ==
  /\ s \in running /\ t \in sending[s] /\ Len(inbox[t]) < Inbox
  /\ sending' = [sending EXCEPT ![s] = @ \ {t}]
  /\ inbox' = [inbox EXCEPT ![t] = Append(@, [source |-> s, round |-> SendRound(s)])]
  /\ UNCHANGED <<hasBoss, knownAt, running, round, turn, from>>
GossipTo_Unbounded(s, t) ==
  /\ s \in running /\ t \in sending[s]
  /\ sending' = [sending EXCEPT ![s] = @ \ {t}]
  /\ inbox' = [inbox EXCEPT ![t] = Append(@, [source |-> s, round |-> SendRound(s)])]
  /\ UNCHANGED <<hasBoss, knownAt, running, round, turn, from>>
GossipTo(s, t) ==
  /\ s \in running /\ t \in sending[s]
  /\ sending' = [sending EXCEPT ![s] = @ \ {t}]
  /\ inbox' = [inbox EXCEPT ![t] = IF Len(@) < Inbox
                 THEN Append(@, [source |-> s, round |-> SendRound(s)]) ELSE @]
  /\ UNCHANGED <<hasBoss, knownAt, running, round, turn, from>>

\* The summary: stop when everybody knows, or after the last round; 0 is
\* cancel(). Nothing waits for the servers that are still sending.
EndRound ==
  /\ turn = N + 1
  /\ IF (\A s \in Server : hasBoss[s]) \/ round = Rounds
     THEN turn' = 0 /\ UNCHANGED round
     ELSE turn' = 1 /\ round' = round + 1
  /\ UNCHANGED <<hasBoss, knownAt, inbox, running, sending, from>>

\* ctx.Done(): chosen at some time, whatever the inbox still holds.
Return(s) ==
  /\ Cancelled /\ Selects(s)
  /\ running' = running \ {s}
  /\ UNCHANGED <<hasBoss, knownAt, inbox, sending, round, turn, from>>

Next == \/ HandRound \/ EndRound
        \/ \E s \in Server : Receive(s) \/ Return(s)
        \/ \E s, t \in Server : GossipTo(s, t)

Spec == Init /\ [][Next]_vars
Fairness == /\ WF_vars(HandRound \/ EndRound)
            /\ \A s \in Server : WF_vars(Return(s))
            /\ \A s, t \in Server : WF_vars(GossipTo(s, t))
FairSpec == Spec /\ Fairness

(* ----------------------------- properties ------------------------------ *)

Known(r) == {s \in Server : hasBoss[s] /\ knownAt[s] <= r}

\* The rounds mean what they say although an event may be read in a later
\* round, or in its own before the receiver was handed that round: whoever
\* told a server knew the boss from an earlier round than the one it names.
NoChain == \A s \in Known(Rounds) \ {1} :
             hasBoss[from[s]] /\ knownAt[from[s]] < knownAt[s]

\* In one round every server that knows tells at most Fanout others: at most
\* (Fanout + 1)^r know the boss from the first r rounds, which is why the
\* spreading needs a number of rounds logarithmic in N.
Growth == \A r \in 0..Rounds : Cardinality(Known(r)) <= (Fanout + 1)^r

\* A slow server, or a full inbox, stops nobody: main and all servers return.
Ends == <>(Cancelled /\ running = {})
=============================================================================
