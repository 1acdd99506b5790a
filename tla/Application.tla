------------------------------ MODULE Application ------------------------------
(* The process: main (src/cmd/samanager/main.go) and Application (src/src/app), *)
(* from the connections it opens to the ones it closes, with the API server,   *)
(* the polling worker and its two goroutines as users of the database and of   *)
(* the client pools.                                                           *)
(*                                                                             *)
(* Time counts from the signal in units of five seconds. The workers answer    *)
(* the cancellation, and whoever waits on a timer answers it, before the next  *)
(* unit begins; requests, queries and calls take any time.                     *)
EXTENDS ClientPool, HttpServer, Integers

CONSTANTS
    Poller, Executor,   \* the goroutines of the scheduler
    Environments        \* values of ENVIRONMENT: "dev" or "prod"

ASSUME ApplicationAssumption ==
    /\ Workers = {Poller, Executor} /\ Poller # Executor
    /\ Workers \cap Requests = {}
    /\ Environments \subseteq {"dev", "prod"}

VARIABLES
    stage,     \* main
    outcome,   \* how main's wait for the workers ended
    elapsed,   \* units since the signal
    pprof,     \* runPprofServer
    db, redis, \* the connections
    todo,      \* todo[w]: what is left of the poll or execution of w
    refused    \* history: whose use met a connection already closed, and which

waitVars    == <<outcome, elapsed>>
connVars    == <<db, redis>>
mainVars    == <<stage, waitVars, connVars>>
clientVars  == <<poolVars, callerVars>>
workVars    == <<at, todo, refused, clientVars>>
apiVars     == <<serverVars, requestVars>>
userVars    == <<pprof, workVars, apiVars>>
vars        == <<mainVars, userVars>>

PprofDrain == 1   \* 5 seconds
HttpDrain  == 2   \* 10 seconds
MainWait   == 3   \* 15 seconds

Alive     == stage \notin {"exited", "died"}
Cancelled == stage \in {"wait", "closeDatabase", "closeConnections", "closed"}

--------------------------------------------------------------------------------
(* Start: NewApplication, then the goroutines, then the signal handler. An     *)
(* error ends main, a failing migration ends the process.                      *)

At(w, s) == Alive /\ at[w] = s

UsersInit ==
    /\ pprof = "off"
    /\ at = [w \in Workers |-> "off"] /\ todo = [w \in Workers |-> <<>>]
    /\ refused = {}
    /\ PoolInit /\ ServerInit

\* With the process its goroutines, its requests and its clients are gone.
ProcessGone ==
    /\ pprof' = "off"
    /\ at' = [w \in Workers |-> "off"] /\ todo' = [w \in Workers |-> <<>>]
    /\ refused' = {}
    /\ PoolGone /\ ServerGone

Boot(from, to) == stage = from /\ stage' \in {to, "exited"}

ConnectRedis ==
    /\ Boot("redis", "database")
    /\ redis' = IF stage' = "database" THEN "open" ELSE redis
    /\ UNCHANGED <<waitVars, db, userVars>>

ConnectDatabase ==
    /\ Boot("database", "migration")
    /\ db' = IF stage' = "migration" THEN "open" ELSE db
    /\ UNCHANGED <<waitVars, redis, userVars>>

MigrationUp ==
    /\ stage = "migration" /\ stage' \in {"services", "died"}
    /\ UNCHANGED <<waitVars, connVars, userVars>>

\* The services and the scheduler; main then starts its goroutines, and the
\* scheduler's first poll begins at once.
StartWorkers ==
    /\ Boot("services", "started")
    /\ IF stage' = "started"
       THEN /\ pprof' \in {IF e = "dev" THEN "serving" ELSE "done" : e \in Environments}
            /\ at' = [w \in Workers |-> IF w = Poller THEN "firstPoll" ELSE "sleep"]
            /\ StartServing
       ELSE UNCHANGED <<pprof, at, apiVars>>
    /\ UNCHANGED <<waitVars, connVars, todo, refused, clientVars>>

NotifySignals ==
    /\ stage = "started" /\ stage' = "up"
    /\ UNCHANGED <<waitVars, connVars, userVars>>

\* A signal before that kills the process; the port may be taken.
Die ==
    /\ \/ stage \in {"redis", "database", "migration", "services", "started"}
       \/ server = "serving" /\ stage = "up"
    /\ stage' = "died"
    /\ ProcessGone
    /\ UNCHANGED <<waitVars, connVars>>

--------------------------------------------------------------------------------
(* The scheduler's goroutines as users of connections.                         *)

\* A poll checks receipts if there are pending records, reads and writes rows, and
\* with active rows reads the contracts and writes the rows it completes. An
\* execution takes both clients first.
Polls ==
    {<<"bundler", "db", "eth", "db">>, <<"db", "eth", "db">>}
Work(w) == IF w = Poller THEN Polls ELSE {<<"bundler", "eth">>}

\* A tick may be taken although the context is done; a job is not dequeued then.
StartWork(w) ==
    /\ \/ At(w, "firstPoll")
       \/ At(w, "sleep") /\ (w = Executor => ~Cancelled)
    /\ todo' \in {[todo EXCEPT ![w] = work] : work \in Work(w)}
    /\ GoTo(w, "next")
    /\ UNCHANGED <<mainVars, pprof, refused, clientVars, apiVars>>

EndWork(w) ==
    /\ At(w, "next") /\ todo[w] = <<>>
    /\ GoTo(w, "sleep")
    /\ UNCHANGED <<mainVars, pprof, todo, refused, clientVars, apiVars>>

UsePool(w) ==
    /\ \/ /\ At(w, "next") /\ todo[w] # <<>> /\ Head(todo[w]) # "db"
          /\ \E c \in Chains : Lookup(w, <<c, Head(todo[w])>>)
       \/ Alive /\ GetClient(w)
    /\ UNCHANGED <<mainVars, pprof, todo, refused, apiVars>>

\* Without receipts the poll goes on; any other failure ends it.
AfterError(w) ==
    IF w = Poller /\ Head(todo[w]) = "bundler" THEN Tail(todo[w]) ELSE <<>>

Met(w, thing, closed) ==
    refused' = IF closed THEN refused \cup {<<w, thing>>} ELSE refused

Resume(w, rest) == todo' = [todo EXCEPT ![w] = rest] /\ GoTo(w, "next")

\* Every call has the scheduler's context, except the poller's contract calls.
Call(w) ==
    /\ At(w, "call")
    /\ \/ client[w] # NoClient /\ Resume(w, Tail(todo[w]))
       \/ Resume(w, AfterError(w))
    /\ Met(w, "client", client[w] \notin open \cup {NoClient}) /\ Release(w)
    /\ UNCHANGED <<mainVars, pprof, apiVars>>

\* Queries are given no context. Without active rows a poll ends like after an error.
UseRows(w) ==
    /\ At(w, "next") /\ todo[w] # <<>> /\ Head(todo[w]) = "db"
    /\ \/ db = "open" /\ Resume(w, Tail(todo[w]))
       \/ Resume(w, AfterError(w))
    /\ Met(w, "db", db = "closed")
    /\ UNCHANGED <<mainVars, pprof, clientVars, apiVars>>

GoroutineEnds(w) ==
    /\ At(w, "sleep") /\ Cancelled
    /\ GoTo(w, "ended")
    /\ UNCHANGED <<mainVars, pprof, todo, refused, clientVars, apiVars>>

WorkerStep(w) ==
    \/ StartWork(w) \/ EndWork(w) \/ UsePool(w)
    \/ Call(w) \/ UseRows(w) \/ GoroutineEnds(w)

--------------------------------------------------------------------------------
(* Requests.                                                                   *)

\* A query in flight outlives the closing of the database, a later one is refused.
AnswerFromRows(r) == Answer(r) /\ Met(r, "db", db = "closed")

ServeRequest(r) ==
    /\ Alive
    /\ \/ /\ Arrive(r) \/ WriteContext(r) \/ AttachLogger(r) \/ Answer(r)
          /\ UNCHANGED refused
       \/ AnswerFromRows(r)
    /\ UNCHANGED <<mainVars, pprof, at, todo, clientVars>>

--------------------------------------------------------------------------------
(* Shutdown.                                                                   *)

\* main receives the signal and cancels the root context.
Signal ==
    /\ stage = "up" /\ stage' = "wait"
    /\ UNCHANGED <<waitVars, connVars, userVars>>

\* The workers see that the context is done.
StopServing ==
    /\ Cancelled /\ BeginDrain
    /\ UNCHANGED <<mainVars, pprof, workVars>>

StopPprof ==
    /\ Cancelled
    /\ pprof = "serving" /\ pprof' = "draining"
    /\ UNCHANGED <<mainVars, workVars, apiVars>>

\* RunPollingWorker: Scheduler.Stop cancels and waits for both goroutines.
Wrong_StopOnly == Cancelled
SchedulerStopped == \A w \in Workers : at[w] = "ended"

\* The API server stops with its last request or at its deadline.
Wrong_DrainDue == elapsed >= 4
DrainDue == elapsed >= HttpDrain
DrainServer ==
    /\ Cancelled
    /\ \/ Idle /\ EndDrain("clean")
       \/ DrainDue /\ EndDrain("deadline")
    /\ UNCHANGED <<mainVars, pprof, workVars>>

\* So does the debug server; a profile may be running for longer.
DrainPprof ==
    /\ Cancelled
    /\ pprof = "draining" /\ pprof' = "done"
    /\ UNCHANGED <<mainVars, workVars, apiVars>>

AllWorkersDone ==
    SchedulerStopped /\ server = "stopped" /\ pprof = "done"

\* select of wg.Wait and time.After.
Wrong_WaitEnds(how) == how = "graceful" /\ AllWorkersDone
WaitEnds(how) ==
    \/ how = "graceful" /\ AllWorkersDone
    \/ how = "timeout" /\ elapsed = MainWait
StopWaiting ==
    /\ stage = "wait" /\ stage' = "closeDatabase"
    /\ outcome' \in {how \in {"graceful", "timeout"} : WaitEnds(how)}
    /\ UNCHANGED <<elapsed, connVars, userVars>>

\* app.Shutdown. Nobody can tell when Redis is closed: its users have a context
\* that is done by then.
CloseDatabase ==
    /\ stage = "closeDatabase" /\ stage' = "closeConnections"
    /\ db' = "closed"
    /\ UNCHANGED <<waitVars, redis, userVars>>

CloseConnections ==
    /\ stage = "closeConnections" /\ stage' = "closed"
    /\ redis' = "closed"
    /\ ClosePools
    /\ UNCHANGED <<waitVars, db, pprof, todo, refused, apiVars>>

Exit ==
    /\ stage = "closed" /\ stage' = "exited"
    /\ ProcessGone
    /\ UNCHANGED <<waitVars, connVars>>

Shutdown ==
    \/ StopServing \/ StopPprof \/ DrainServer \/ DrainPprof
    \/ StopWaiting \/ CloseDatabase \/ CloseConnections \/ Exit

\* What happens before the next five seconds have passed.
Due ==
    \/ server = "serving" \/ pprof = "serving"
    \/ pprof = "draining" /\ elapsed >= PprofDrain
    \/ server = "draining" /\ (Idle \/ DrainDue)
    \/ \E how \in {"graceful", "timeout"} : WaitEnds(how)

Tick ==
    /\ stage = "wait" /\ elapsed < MainWait /\ ~Due
    /\ elapsed' = elapsed + 1
    /\ UNCHANGED <<stage, outcome, connVars, userVars>>

--------------------------------------------------------------------------------
Init ==
    /\ stage = "redis" /\ outcome = "none" /\ elapsed = 0
    /\ db = "none" /\ redis = "none"
    /\ UsersInit

Boots ==
    \/ ConnectRedis \/ ConnectDatabase \/ MigrationUp \/ StartWorkers
    \/ NotifySignals \/ Die

Next ==
    \/ Boots \/ Signal \/ Shutdown \/ Tick
    \/ \E w \in Workers : WorkerStep(w)
    \/ \E r \in Requests : ServeRequest(r)

Spec == Init /\ [][Next]_vars

\* Main and its workers are scheduled and time passes; strong fairness is for the
\* pools' lock, which a writer that waits for it gets, and every other of these steps
\* stays enabled until it is taken. Dialling ends. Nothing is assumed of the
\* goroutines and the requests: a query or a contract call may take for ever.
Fairness ==
    /\ SF_vars(Shutdown \/ Tick)
    /\ WF_vars(\E w \in Workers : at[w] = "dial" /\ UsePool(w))

FairSpec == Spec /\ Fairness

--------------------------------------------------------------------------------
(* Properties.                                                                 *)

\* The variables are well typed, and a goroutine dials exactly while it holds the
\* write lock of the pools.
TypeOK ==
    /\ PoolTypeOK /\ ServerTypeOK
    /\ stage \in {"redis", "database", "migration", "services", "started", "up", "wait",
                  "closeDatabase", "closeConnections", "closed", "exited", "died"}
    /\ outcome \in {"none", "graceful", "timeout"} /\ elapsed \in 0 .. MainWait
    /\ pprof \in {"off", "serving", "draining", "done"}
    /\ {db, redis} \subseteq {"none", "open", "closed"}
    /\ at \in [Workers -> {"off", "firstPoll", "sleep", "next", "lock", "dial",
                           "call", "ended"}]
    /\ todo \in [Workers -> Seq(Kinds \cup {"db"})]
    /\ refused \subseteq (Workers \cup Requests) \X {"db", "client"}
    /\ \A w \in Workers : at[w] = "dial" <=> mu = w

\* No user loses a connection it may still need: a handler meets the closed
\* database only if it outlived the drain of the server, a goroutine of the
\* scheduler a closed database or client only if main gave up waiting (main.go:146).
ConnectionsOutliveUsers ==
    \A use \in refused :
        IF use[1] \in Requests THEN drained = "deadline" ELSE outcome = "timeout"

\* After a graceful shutdown nothing is left open, however late the last client
\* was dialled; only workers that main gave up on can create pools after Close.
GracefulLeavesNothingOpen ==
    stage = "closed" /\ outcome = "graceful" =>
        db = "closed" /\ redis = "closed" /\ open = {}

\* Main gives up on the scheduler only: the API server and the debug
\* server stop in time whatever their requests do (app.go:205, main.go:177).
OnlySchedulerTimesOut ==
    Alive /\ outcome = "timeout" => server = "stopped" /\ pprof = "done"

\* A signal ends the process, though a poll may hang in a contract call or a query
\* that no cancellation reaches (blockchain.go:335).
SignalEndsProcess == (stage = "wait") ~> ~Alive

--------------------------------------------------------------------------------
(* The inductive invariant behind the safety properties.                       *)

\* A goroutine that waits for a client knows for which key and for what work.
AskInv ==
    \A w \in Workers :
        /\ at[w] \in {"lock", "dial"} => want[w] \in Keys
        /\ at[w] \in {"lock", "dial", "call"} => todo[w] # <<>>

\* The pools and the open clients are in bijection, and who dials has missed.
PoolInv ==
    /\ \A k \in Keys : pool[k] # NoClient => pool[k] \in open
    /\ \A k, l \in Keys : pool[k] = pool[l] /\ pool[k] # NoClient => k = l
    /\ \A c \in open : \E k \in Keys : pool[k] = c
    /\ \A w \in Workers : at[w] = "dial" => pool[want[w]] = NoClient

\* A request carries its own logger from its arrival, and a clean drain leaves none.
ServerInv ==
    /\ \A r \in Requests :
         req[r] \in Handling => fields[r] # <<>> /\ fields[r][Len(fields[r])] = r
    /\ drained = "no" <=> server # "stopped"
    /\ drained = "clean" => Idle

Booting == {"redis", "database", "migration", "services"}
Running == {"started", "up", "wait"}
Closing == {"closeDatabase", "closeConnections", "closed"}

\* What main has done by each stage, and what the others have done by then.
StageInv ==
    /\ stage \in Booting => server = "off" /\ \A w \in Workers : at[w] = "off"
    /\ stage \in Booting \cup {"started", "up"} => elapsed = 0
    /\ stage \in Booting \cup Running => outcome = "none"
    /\ stage \in Running \cup Closing => server # "off" /\ pprof # "off"
    /\ stage \in Closing =>
         /\ outcome \in {"graceful", "timeout"} /\ server = "stopped" /\ pprof = "done"
         /\ outcome = "graceful" => SchedulerStopped
    /\ Alive => (db = "closed" <=> stage \in {"closeConnections", "closed"})
    /\ stage = "closed" => redis = "closed" /\ (outcome = "graceful" => open = {})

\* Units pass only when what is due in them has happened.
TimeInv ==
    stage = "wait" =>
        /\ elapsed >= 1 => server # "serving" /\ pprof # "serving"
        /\ elapsed > PprofDrain => pprof = "done"
        /\ elapsed > HttpDrain => server = "stopped"

\* Who holds a client that is closed is one main gave up on.
HeldClientsInv ==
    \A w \in Workers :
        at[w] = "call" /\ client[w] \notin open \cup {NoClient} => outcome = "timeout"

AppInv ==
    /\ TypeOK /\ AskInv /\ PoolInv /\ ServerInv /\ StageInv /\ TimeInv
    /\ HeldClientsInv /\ ConnectionsOutliveUsers
================================================================================
