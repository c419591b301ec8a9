--------------------------- MODULE ConnectionPool ---------------------------
(* ch4/cmd/exp5/connection_pool_demo: workers share a pool that bounds the   *)
(* connections opened and the connections kept idle, and that closes a       *)
(* connection past its lifetime when it is borrowed or given back.           *)
(* Connections are interchangeable: a lifetime only shows when it is looked  *)
(* at, so every look may find it over (a connection found over is closed).   *)
EXTENDS Integers, FiniteSets

CONSTANTS
  Worker,   \* the goroutines, -concurrency of them
  Requests, \* -requests
  MaxOpen, MaxIdle,
  Expires,  \* connMaxLifetime > 0
  Fails     \* a dial or a request may fail

PoolAssumption == /\ IsFiniteSet(Worker) /\ Worker # {}
                  /\ Requests \in Nat \ {0} /\ MaxOpen \in Nat \ {0} /\ MaxIdle \in 1..MaxOpen
                  /\ Expires \in BOOLEAN /\ Fails \in BOOLEAN

VARIABLES
  pc,       \* where each worker is
  jobs,     \* requests not taken from the jobs channel
  openConn, \* the pool's count of connections
  idle,     \* connections in the channel of that name
  closed    \* pool.close() has run
vars == <<pc, jobs, openConn, idle, closed>>

Holding == {"request", "put", "handed", "evict", "discard"}   \* the worker has a live connection
Counted == {"dial", "evicted", "discarded"}                   \* no socket yet, or none any more
At(P)   == {w \in Worker : pc[w] \in P}
Goto(w, l) == pc' = [pc EXCEPT ![w] = l]

TypeOK == /\ pc \in [Worker -> Holding \cup Counted
                      \cup {"ready", "get", "claim", "block", "waiting", "done"}]
          /\ jobs \in 0..Requests /\ openConn \in 0..MaxOpen /\ idle \in 0..MaxIdle
          /\ closed \in BOOLEAN

\* initConnectionPool and the workers of runConnectionPool.
Init == /\ pc = [w \in Worker |-> "ready"] /\ jobs = Requests
        /\ openConn = 0 /\ idle = 0 /\ closed = FALSE

\* `for requestID := range jobs`: the next request, or the end.
Job(w) == /\ pc[w] = "ready"
          /\ IF jobs > 0 THEN Goto(w, "get") /\ jobs' = jobs - 1
                         ELSE Goto(w, "done") /\ UNCHANGED jobs
          /\ UNCHANGED <<openConn, idle, closed>>

\* The borrowed connection is used, or its lifetime is over and it goes.
Use(w) == \/ Goto(w, "request")
          \/ Expires /\ Goto(w, "evict")

\* get: an idle connection without waiting, else try to count one more.
Get(w) == /\ pc[w] = "get"
          /\ IF idle > 0 THEN Use(w) /\ idle' = idle - 1
                         ELSE Goto(w, "claim") /\ UNCHANGED idle
          /\ UNCHANGED <<jobs, openConn, closed>>

\* Under mu: claim a place below maxOpenConns, or go and wait on the channel.
Claim_AtMost(w) == /\ pc[w] = "claim"
                   /\ IF openConn <= MaxOpen THEN Goto(w, "dial") /\ openConn' = openConn + 1
                                             ELSE Goto(w, "block") /\ UNCHANGED openConn
                   /\ UNCHANGED <<jobs, idle, closed>>
Claim(w) == /\ pc[w] = "claim"
            /\ IF openConn < MaxOpen THEN Goto(w, "dial") /\ openConn' = openConn + 1
                                     ELSE Goto(w, "block") /\ UNCHANGED openConn
            /\ UNCHANGED <<jobs, idle, closed>>

\* dialNew: the place is given back when the dial fails, and the job is lost.
Dial_Leaks(w) == /\ pc[w] = "dial"
                 /\ (Goto(w, "request") \/ (Fails /\ Goto(w, "ready")))
                 /\ UNCHANGED <<jobs, openConn, idle, closed>>
Dial(w) == /\ pc[w] = "dial"
           /\ \/ Goto(w, "request") /\ UNCHANGED openConn
              \/ Fails /\ Goto(w, "ready") /\ openConn' = openConn - 1
           /\ UNCHANGED <<jobs, idle, closed>>

\* `pc := <-p.idle`: takes what has been put back meanwhile, or sleeps.
Block(w) == /\ pc[w] = "block"
            /\ IF idle > 0 THEN Use(w) /\ idle' = idle - 1
                           ELSE Goto(w, "waiting") /\ UNCHANGED idle
            /\ UNCHANGED <<jobs, openConn, closed>>

\* The sleeper a connection was handed to goes on behind the receive.
Wake(w) == /\ pc[w] = "handed" /\ Use(w)
           /\ UNCHANGED <<jobs, openConn, idle, closed>>

\* requestOnce answers, or the connection is discarded.
Request(w) == /\ pc[w] = "request"
              /\ (Goto(w, "put") \/ (Fails /\ Goto(w, "discard")))
              /\ UNCHANGED <<jobs, openConn, idle, closed>>

\* put: expired connections go; a goroutine asleep in the receive gets the
\* connection at once; else it is kept unless the channel is full.
Put_KeepsAll(w) ==
  /\ pc[w] = "put"
  /\ \/ Expires /\ Goto(w, "discard") /\ UNCHANGED idle
     \/ \E s \in At({"waiting"}) : /\ pc' = [pc EXCEPT ![w] = "ready", ![s] = "handed"]
                                   /\ UNCHANGED idle
     \/ At({"waiting"}) = {} /\ Goto(w, "ready") /\ idle' = idle + 1
  /\ UNCHANGED <<jobs, openConn, closed>>
Put(w) ==
  /\ pc[w] = "put"
  /\ \/ Expires /\ Goto(w, "discard") /\ UNCHANGED idle
     \/ \E s \in At({"waiting"}) : /\ pc' = [pc EXCEPT ![w] = "ready", ![s] = "handed"]
                                   /\ UNCHANGED idle
     \/ At({"waiting"}) = {} /\ idle < MaxIdle /\ Goto(w, "ready") /\ idle' = idle + 1
     \/ At({"waiting"}) = {} /\ idle = MaxIdle /\ Goto(w, "discard") /\ UNCHANGED idle
  /\ UNCHANGED <<jobs, openConn, closed>>

\* closeConn: the socket first, the count after it under mu; a borrower tries
\* again, everybody else is through with the request.
Close(w) == /\ \/ pc[w] = "evict" /\ Goto(w, "evicted")
               \/ pc[w] = "discard" /\ Goto(w, "discarded")
            /\ UNCHANGED <<jobs, openConn, idle, closed>>
Uncount_Evicted(w) ==
  /\ \/ pc[w] = "evicted" /\ Goto(w, "get") /\ UNCHANGED openConn
     \/ pc[w] = "discarded" /\ Goto(w, "ready") /\ openConn' = openConn - 1
  /\ UNCHANGED <<jobs, idle, closed>>
Uncount(w) == /\ \/ pc[w] = "evicted" /\ Goto(w, "get")
                 \/ pc[w] = "discarded" /\ Goto(w, "ready")
              /\ openConn' = openConn - 1
              /\ UNCHANGED <<jobs, idle, closed>>

\* pool.close() after wg.Wait(): the idle connections are closed.
ClosePool == /\ ~closed /\ At({"done"}) = Worker
             /\ closed' = TRUE /\ idle' = 0
             /\ UNCHANGED <<pc, jobs, openConn>>

Work(w) == \/ Job(w) \/ Get(w) \/ Claim(w) \/ Dial(w) \/ Block(w) \/ Wake(w)
           \/ Request(w) \/ Put(w) \/ Close(w) \/ Uncount(w)
Next == ClosePool \/ \E w \in Worker : Work(w)
Spec == /\ Init /\ [][Next]_vars
        /\ WF_vars(ClosePool) /\ \A w \in Worker : WF_vars(Work(w))

\* The pool's count is exactly the sockets and the dials under way (none is
\* forgotten by closeConn, a failed dial or a request that failed), and the
\* sockets never exceed maxOpenConns (README.md:448, "最多同时打开多少条连接").
Accounted == LET sockets == Cardinality(At(Holding)) + idle IN
             closed \/ openConn = sockets + Cardinality(At(Counted))

\* Nobody sleeps on the idle channel when there is no connection left that
\* could be handed over.
Woken == At({"waiting"}) # {} => idle = 0 /\ openConn > 0

\* Every request gets its turn and the scenario reports.
Ends == <>closed
=============================================================================
