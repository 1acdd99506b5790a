--------------------------- MODULE ApplicationProofs ---------------------------
(* Machine-checked proofs of the safety properties of the process, for any     *)
(* number of chains, clients and requests: the pools, the API server, main,    *)
(* and last the users of the connections main closes.                          *)
EXTENDS Application, FiniteSetTheorems, TLAPS

\* What the assumptions say of the constants.
LEMMA ConstantFacts ==
    /\ Nobody \notin Workers /\ NoKey \notin Keys /\ NoClient \notin Clients
    /\ Poller \in Workers /\ Executor \in Workers
    /\ Workers \cap Requests = {}
BY PoolAssumption, ApplicationAssumption DEF Clients, NoClient

--------------------------------------------------------------------------------
(* The API server.                                                             *)

\* Only its own steps, its start and the end of the process touch the server.
LEMMA ServerFrame ==
    ASSUME [Next]_vars
    PROVE  \/ UNCHANGED apiVars
           \/ stage = "services" /\ StartServing
           \/ ServerGone
           \/ BeginDrain
           \/ \E how \in {"clean", "deadline"} : EndDrain(how) /\ (how = "clean" => Idle)
           \/ \E r \in Requests : ServeRequest(r)
<1> USE DEF mainVars, waitVars, connVars, userVars, workVars
<1>1. CASE Boots \/ Signal \/ Tick \/ UNCHANGED vars
  BY <1>1 DEF Boots, ConnectRedis, ConnectDatabase, MigrationUp, StartWorkers, Boot,
              NotifySignals, Die, ProcessGone, Signal, Tick, vars
<1>2. CASE Shutdown
  BY <1>2 DEF Shutdown, StopServing, StopPprof, DrainServer, DrainPprof, StopWaiting,
              CloseDatabase, CloseConnections, Exit, ProcessGone
<1>3. ASSUME NEW w \in Workers, WorkerStep(w) PROVE UNCHANGED apiVars
  BY <1>3 DEF WorkerStep, StartWork, EndWork, UsePool, Call, UseRows, GoroutineEnds
<1> QED BY <1>1, <1>2, <1>3 DEF Next

\* A request takes one of four steps.
LEMMA RequestStep ==
    ASSUME NEW r \in Requests, ServeRequest(r)
    PROVE  Arrive(r) \/ WriteContext(r) \/ AttachLogger(r) \/ Answer(r)
BY DEF ServeRequest, AnswerFromRows

\* Every step keeps the requests' own loggers, and a clean drain leaves no request.
LEMMA ServerNext ==
    ASSUME ServerTypeOK, ServerInv, stage \in Booting => server = "off", [Next]_vars
    PROVE  ServerTypeOK' /\ ServerInv'
<1> USE DEF ServerTypeOK, ServerInv, Handling, Idle, serverVars, requestVars
<1>1. CASE UNCHANGED apiVars
  BY <1>1 DEF apiVars
<1>2. CASE stage = "services" /\ StartServing
  BY <1>2 DEF StartServing, Booting
<1>3. CASE ServerGone
  BY <1>3 DEF ServerGone
<1>4. CASE BeginDrain
  BY <1>4 DEF BeginDrain
<1>5. ASSUME NEW how \in {"clean", "deadline"}, EndDrain(how), how = "clean" => Idle
      PROVE  ServerTypeOK' /\ ServerInv'
  BY <1>5 DEF EndDrain
<1>6. ASSUME NEW r \in Requests, ServeRequest(r)
      PROVE  ServerTypeOK' /\ ServerInv'
  <2>1. CASE Arrive(r)
    <3> DEFINE own == Append(captured, r)
    <3>1. /\ fields' = [fields EXCEPT ![r] = own]
          /\ req' = [req EXCEPT ![r] = "write"]
          /\ UNCHANGED <<server, drained, captured>> /\ server = "serving"
      BY <2>1 DEF Arrive, Move
    <3>2. /\ own \in Seq(Requests)
          /\ Len(own) = Len(captured) + 1 /\ Len(captured) \in Nat
          /\ own[Len(captured) + 1] = r
      OBVIOUS
    <3> HIDE DEF own
    <3>3. own # <<>> /\ own[Len(own)] = r
      BY <3>2
    <3> QED BY <3>1, <3>2, <3>3
  <2>2. CASE WriteContext(r)
    BY <2>2 DEF WriteContext, Move
  <2>3. CASE AttachLogger(r)
    BY <2>3 DEF AttachLogger, RequestLogger, Move
  <2>4. CASE Answer(r)
    BY <2>4 DEF Answer, Move
  <2> QED BY <1>6, RequestStep, <2>1, <2>2, <2>3, <2>4
<1> QED BY ServerFrame, <1>1, <1>2, <1>3, <1>4, <1>5, <1>6

--------------------------------------------------------------------------------
(* The pools and the goroutines that use them.                                 *)

WorkTypeOK ==
    /\ PoolTypeOK
    /\ at \in [Workers -> {"off", "firstPoll", "sleep", "next", "lock", "dial",
                           "call", "ended"}]
    /\ todo \in [Workers -> Seq(Kinds \cup {"db"})]
    /\ \A w \in Workers : at[w] = "dial" <=> mu = w

\* Only the goroutines, their start, main's Close and the end of the process touch
\* the pools.
LEMMA WorkFrame ==
    ASSUME [Next]_vars
    PROVE  \/ UNCHANGED <<at, todo, clientVars>>
           \/ StartWorkers \/ Die \/ CloseConnections \/ Exit
           \/ \E w \in Workers : WorkerStep(w)
<1> USE DEF mainVars, waitVars, connVars, userVars, workVars
<1>1. CASE Boots \/ Signal \/ Tick \/ UNCHANGED vars
  BY <1>1 DEF Boots, ConnectRedis, ConnectDatabase, MigrationUp, NotifySignals, Signal, Tick, vars
<1>2. CASE Shutdown
  BY <1>2 DEF Shutdown, StopServing, StopPprof, DrainServer, DrainPprof, StopWaiting,
              CloseDatabase
<1>3. ASSUME NEW r \in Requests, ServeRequest(r) PROVE UNCHANGED <<at, todo, clientVars>>
  BY <1>3 DEF ServeRequest
<1> QED BY <1>1, <1>2, <1>3 DEF Next

\* What a goroutine does to the pools: it looks a client up, gets it under the
\* lock or dials it, gives it back, or does something else.
LEMMA WorkerKinds ==
    ASSUME WorkTypeOK, AskInv, NEW w \in Workers, WorkerStep(w)
    PROVE  \/ \E k \in Keys : Lookup(w, k) /\ at[w] = "next" /\ todo[w] # <<>> /\ UNCHANGED todo
           \/ LockAndCheck(w) /\ UNCHANGED todo
           \/ Dial(w) /\ UNCHANGED todo
           \/ /\ Release(w) /\ at[w] = "call"
              /\ \E rest \in Seq(Kinds \cup {"db"}) : Resume(w, rest)
           \/ /\ UNCHANGED clientVars /\ at[w] \in {"firstPoll", "sleep", "next"}
              /\ \E s \in {"next", "sleep", "ended"} : GoTo(w, s)
              /\ todo' \in [Workers -> Seq(Kinds \cup {"db"})]
              /\ \A v \in Workers : v # w => todo'[v] = todo[v]
<1> USE DEF WorkTypeOK
<1>1. \A v \in Workers : todo[v] # <<>> =>
        /\ Head(todo[v]) \in Kinds \cup {"db"} /\ Tail(todo[v]) \in Seq(Kinds \cup {"db"})
  OBVIOUS
<1>2. <<>> \in Seq(Kinds \cup {"db"})
  OBVIOUS
<1>3. CASE StartWork(w)
  <2>1. \A work \in Work(w) : work \in Seq(Kinds \cup {"db"})
    <3>1. /\ <<"bundler", "db", "eth", "db">> \in Seq(Kinds \cup {"db"})
          /\ <<"db", "eth", "db">> \in Seq(Kinds \cup {"db"})
          /\ <<"bundler", "eth">> \in Seq(Kinds \cup {"db"})
      BY DEF Kinds
    <3> QED BY <3>1 DEF Work, Polls
  <2> QED BY <1>3, <2>1 DEF StartWork, At
<1>4. CASE EndWork(w) \/ GoroutineEnds(w)
  BY <1>4 DEF EndWork, GoroutineEnds, At
<1>5. CASE UsePool(w)
  <2>1. CASE At(w, "next") /\ todo[w] # <<>> /\ Head(todo[w]) # "db"
               /\ \E c \in Chains : Lookup(w, <<c, Head(todo[w])>>)
    <3>1. Head(todo[w]) \in Kinds
      BY <1>1, <2>1
    <3> QED BY <1>5, <2>1, <3>1 DEF UsePool, At, Keys
  <2>2. CASE GetClient(w)
    BY <1>5, <2>2 DEF UsePool, GetClient
  <2> QED BY <1>5, <2>1, <2>2 DEF UsePool
<1>6. CASE Call(w)
  <2>1. todo[w] # <<>> /\ at[w] = "call" /\ Release(w)
    BY <1>6 DEF Call, At, AskInv
  <2>2. Resume(w, Tail(todo[w])) \/ Resume(w, AfterError(w))
    BY <1>6 DEF Call
  <2> QED BY <1>1, <1>2, <2>1, <2>2 DEF AfterError
<1>7. CASE UseRows(w)
  <2>1. todo[w] # <<>> /\ at[w] = "next" /\ UNCHANGED clientVars
    BY <1>7 DEF UseRows, At
  <2>2. Resume(w, Tail(todo[w])) \/ Resume(w, AfterError(w))
    BY <1>7 DEF UseRows
  <2>3. \E rest \in Seq(Kinds \cup {"db"}) : Resume(w, rest)
    BY <1>1, <1>2, <2>1, <2>2 DEF AfterError
  <2> QED BY <2>1, <2>3 DEF Resume
<1> QED BY <1>3, <1>4, <1>5, <1>6, <1>7 DEF WorkerStep

WorkInv == WorkTypeOK /\ AskInv /\ PoolInv

\* The double check under the write lock: a dialled client is new, and pooled under
\* the one key that had none.
LEMMA DialPools ==
    ASSUME WorkInv, NEW w \in Workers, Dial(w), UNCHANGED todo
    PROVE  WorkInv'
<1> USE DEF WorkInv, WorkTypeOK, PoolTypeOK, AskInv, PoolInv
<1>1. /\ mu = w /\ mu' = Nobody /\ want[w] \in Keys /\ pool[want[w]] = NoClient
      /\ UNCHANGED want /\ todo[w] # <<>>
  BY DEF Dial
<1>2. CASE Given(w, NoClient) /\ UNCHANGED <<pool, open>>
  BY <1>1, <1>2, ConstantFacts DEF Given, GoTo
<1>3. ASSUME NEW c \in NewClient, open' = open \cup {c},
             pool' = [pool EXCEPT ![want[w]] = c], Given(w, c)
      PROVE  WorkInv'
  <2>1. c \in Clients /\ c \notin open /\ c # NoClient
    BY ConstantFacts DEF NewClient
  <2>2. WorkTypeOK' /\ AskInv'
    BY <1>1, <1>3, <2>1, ConstantFacts DEF Given, GoTo
  <2>3. PoolInv'
    BY <1>1, <1>3, <2>1, ConstantFacts DEF Given, GoTo
  <2> QED BY <2>2, <2>3
<1> QED BY <1>2, <1>3 DEF Dial

\* Every step keeps the pools and the open clients in bijection.
LEMMA WorkNext ==
    ASSUME WorkInv, stage \in Booting => \A w \in Workers : at[w] = "off", [Next]_vars
    PROVE  WorkInv'
<1> USE ConstantFacts DEF WorkInv, WorkTypeOK, PoolTypeOK, AskInv, PoolInv, clientVars, poolVars, callerVars
<1>1. CASE UNCHANGED <<at, todo, clientVars>>
  BY <1>1
<1>2. CASE StartWorkers
  <2>1. UNCHANGED <<todo, clientVars>> /\ \A w \in Workers : at[w] = "off"
    BY <1>2 DEF StartWorkers, Boot, Booting
  <2>2. at' = at \/ at' = [w \in Workers |-> IF w = Poller THEN "firstPoll" ELSE "sleep"]
    BY <1>2 DEF StartWorkers
  <2>3. CASE at' = at
    BY <2>1, <2>3
  <2>4. CASE at' = [w \in Workers |-> IF w = Poller THEN "firstPoll" ELSE "sleep"]
    <3>1. \A w \in Workers : at[w] # "dial" /\ mu # w /\ at'[w] \in {"firstPoll", "sleep"}
      BY <2>1, <2>4
    <3>2. at' \in [Workers -> {"off", "firstPoll", "sleep", "next", "lock", "dial",
                               "call", "ended"}]
      BY <2>4
    <3> QED BY <2>1, <3>1, <3>2
  <2> QED BY <2>2, <2>3, <2>4
<1>3. CASE Die \/ Exit
  <2>1. \A w \in Workers : todo'[w] = <<>> /\ at'[w] = "off"
    BY <1>3 DEF Die, Exit, ProcessGone
  <2>2. todo' \in [Workers -> Seq(Kinds \cup {"db"})]
    <3>1. todo' = [w \in Workers |-> <<>>]
      BY <1>3 DEF Die, Exit, ProcessGone
    <3>2. <<>> \in Seq(Kinds \cup {"db"})
      OBVIOUS
    <3> QED BY <3>1, <3>2
  <2>3. at' = [w \in Workers |-> "off"] /\ PoolGone
    BY <1>3 DEF Die, Exit, ProcessGone
  <2> QED BY <2>1, <2>2, <2>3 DEF PoolGone
<1>4. CASE CloseConnections
  BY <1>4 DEF CloseConnections, ClosePools
<1>5. ASSUME NEW w \in Workers, WorkerStep(w) PROVE WorkInv'
  <2>1. ASSUME NEW k \in Keys, Lookup(w, k), at[w] = "next", todo[w] # <<>>, UNCHANGED todo
        PROVE  WorkInv'
    <3>1. CASE pool[k] # NoClient
      <4>1. /\ want' = [want EXCEPT ![w] = k] /\ client' = [client EXCEPT ![w] = pool[k]]
            /\ at' = [at EXCEPT ![w] = "call"] /\ UNCHANGED <<pool, open, mu, todo>>
        BY <2>1, <3>1 DEF Lookup, Given, GoTo
      <4>2. WorkTypeOK'
        BY <2>1, <4>1
      <4>3. AskInv' /\ PoolInv'
        BY <2>1, <4>1
      <4> QED BY <4>2, <4>3
    <3>2. CASE pool[k] = NoClient
      BY <2>1, <3>2 DEF Lookup, GoTo
    <3> QED BY <3>1, <3>2
  <2>2. CASE LockAndCheck(w) /\ UNCHANGED todo
    <3>1. CASE Given(w, pool[want[w]]) /\ UNCHANGED mu /\ pool[want[w]] # NoClient
      BY <2>2, <3>1 DEF LockAndCheck, Given, GoTo
    <3>2. CASE mu' = w /\ GoTo(w, "dial") /\ UNCHANGED client /\ pool[want[w]] = NoClient
      BY <2>2, <3>2 DEF LockAndCheck, GoTo
    <3> QED BY <2>2, <3>1, <3>2 DEF LockAndCheck
  <2>3. CASE Dial(w) /\ UNCHANGED todo
    BY <2>3, DialPools
  <2>4. ASSUME Release(w), at[w] = "call", NEW rest \in Seq(Kinds \cup {"db"}), Resume(w, rest)
        PROVE  WorkInv'
    BY <2>4 DEF Release, Resume, GoTo
  <2>5. CASE /\ UNCHANGED clientVars /\ at[w] \in {"firstPoll", "sleep", "next"}
             /\ \E s \in {"next", "sleep", "ended"} : GoTo(w, s)
             /\ todo' \in [Workers -> Seq(Kinds \cup {"db"})]
             /\ \A v \in Workers : v # w => todo'[v] = todo[v]
    <3>1. PICK s \in {"next", "sleep", "ended"} : at' = [at EXCEPT ![w] = s]
      BY <2>5 DEF GoTo
    <3> QED BY <2>5, <3>1
  <2> QED BY <1>5, <2>1, <2>2, <2>3, <2>4, <2>5, WorkerKinds
<1> QED BY WorkFrame, <1>1, <1>2, <1>3, <1>4, <1>5

\* Bijection of pools and open clients, in the words of the property.
LEMMA PoolsHaveNoOrphans == PoolInv /\ PoolTypeOK => NoOrphanClient
<1> SUFFICES ASSUME PoolInv, PoolTypeOK, NEW c \in open
             PROVE  Cardinality({k \in Keys : pool[k] = c}) = 1
  BY DEF NoOrphanClient
<1>1. PICK k \in Keys : pool[k] = c
  BY DEF PoolInv
<1>2. {l \in Keys : pool[l] = c} = {k}
  BY <1>1, ConstantFacts DEF PoolInv, PoolTypeOK
<1> QED BY <1>2, FS_Singleton

--------------------------------------------------------------------------------
(* Main.                                                                       *)

MainTypeOK ==
    /\ stage \in {"redis", "database", "migration", "services", "started", "up", "wait",
                  "closeDatabase", "closeConnections", "closed", "exited", "died"}
    /\ outcome \in {"none", "graceful", "timeout"} /\ elapsed \in 0 .. MainWait
    /\ pprof \in {"off", "serving", "draining", "done"}
    /\ {db, redis} \subseteq {"none", "open", "closed"}

MainInv == MainTypeOK /\ StageInv /\ TimeInv

\* Goroutines that have ended take no step, and requests never touch the pools.
LEMMA UserStep ==
    ASSUME WorkInv,
           \/ \E w \in Workers : WorkerStep(w)
           \/ \E r \in Requests : ServeRequest(r)
    PROVE  /\ UNCHANGED <<mainVars, pprof, serverVars>>
           /\ SchedulerStopped => UNCHANGED <<at, clientVars>>
           /\ (\A w \in Workers : at[w] = "off") => UNCHANGED at
<1>1. ASSUME NEW r \in Requests, ServeRequest(r)
      PROVE  UNCHANGED <<mainVars, pprof, serverVars, at, clientVars>>
  BY <1>1, RequestStep DEF ServeRequest, Arrive, WriteContext, AttachLogger, Answer
<1>2. ASSUME NEW w \in Workers, WorkerStep(w)
      PROVE  /\ UNCHANGED <<mainVars, pprof, serverVars>>
             /\ at[w] \notin {"off", "ended"}
  <2>1. UNCHANGED <<mainVars, pprof, serverVars>>
    BY <1>2 DEF WorkerStep, StartWork, EndWork, UsePool, Call, UseRows, GoroutineEnds, apiVars
  <2>2. at[w] \notin {"off", "ended"}
    BY <1>2 DEF WorkerStep, StartWork, EndWork, UsePool, Call, UseRows, GoroutineEnds, At,
                GetClient, LockAndCheck, Dial
  <2> QED BY <2>1, <2>2
<1> QED BY <1>1, <1>2 DEF SchedulerStopped

\* Every step of main, of the workers it waits for and of the clock.
LEMMA MainNext ==
    ASSUME MainInv, WorkInv, ServerTypeOK, [Next]_vars
    PROVE  MainInv'
<1> USE DEF MainInv, MainTypeOK, StageInv, TimeInv, Booting, Running, Closing, Alive,
            SchedulerStopped, waitVars, connVars, mainVars, workVars, clientVars, userVars, apiVars,
            poolVars, serverVars, PprofDrain, HttpDrain, MainWait
<1>1. CASE ConnectRedis \/ ConnectDatabase \/ MigrationUp \/ NotifySignals
  BY <1>1 DEF ConnectRedis, ConnectDatabase, MigrationUp, NotifySignals, Boot
<1>2. CASE StartWorkers
  BY <1>2 DEF StartWorkers, Boot, StartServing
<1>3. CASE Die \/ Exit
  BY <1>3 DEF Die, Exit, ProcessGone, ServerGone
<1>4. CASE Signal
  BY <1>4 DEF Signal
<1>5. CASE StopServing \/ StopPprof \/ DrainPprof
  BY <1>5 DEF StopServing, BeginDrain, StopPprof, DrainPprof, Cancelled
<1>6. CASE DrainServer
  BY <1>6 DEF DrainServer, EndDrain
<1>7. CASE StopWaiting
  BY <1>7 DEF StopWaiting, WaitEnds, AllWorkersDone
<1>8. CASE CloseDatabase
  BY <1>8 DEF CloseDatabase
<1>9. CASE CloseConnections
  <2>1. ASSUME NEW c \in open' PROVE FALSE
    <3>1. c \in open /\ \A k \in Keys : c # pool[k]
      BY <1>9, <2>1 DEF CloseConnections, ClosePools
    <3>2. PICK k \in Keys : pool[k] = c
      BY <3>1 DEF WorkInv, PoolInv
    <3> QED BY <3>1, <3>2
  <2>2. open' = {}
    BY <2>1
  <2>3. UNCHANGED at
    BY <1>9 DEF CloseConnections, ClosePools
  <2> QED BY <1>9, <2>2, <2>3 DEF CloseConnections
<1>10. CASE Tick
  <2>1. /\ stage = "wait" /\ stage' = "wait" /\ elapsed \in 0 .. 2 /\ elapsed' = elapsed + 1
        /\ UNCHANGED <<outcome, connVars, userVars>>
    BY <1>10 DEF Tick
  <2>2. /\ server # "serving" /\ pprof # "serving"
        /\ ~(pprof = "draining" /\ elapsed >= 1)
        /\ ~(server = "draining" /\ elapsed >= 2)
    BY <1>10 DEF Tick, Due, DrainDue
  <2>3. TimeInv'
    <3>1. /\ elapsed >= 1 => pprof = "done"
          /\ elapsed >= 2 => server = "stopped"
      BY <2>1, <2>2 DEF ServerTypeOK
    <3> QED BY <2>1, <2>2, <3>1
  <2>4. StageInv' /\ MainTypeOK'
    BY <2>1
  <2> QED BY <2>3, <2>4
<1>11. CASE \/ \E w \in Workers : WorkerStep(w)
            \/ \E r \in Requests : ServeRequest(r)
  BY <1>11, UserStep
<1>12. CASE UNCHANGED vars
  BY <1>12 DEF vars
<1> QED
  BY <1>1, <1>2, <1>3, <1>4, <1>5, <1>6, <1>7, <1>8, <1>9, <1>10, <1>11, <1>12
     DEF Next, Boots, Shutdown

--------------------------------------------------------------------------------
(* The users of the connections main closes.                                   *)

RefusedTypeOK == refused \subseteq (Workers \cup Requests) \X {"db", "client"}

UsersInv == RefusedTypeOK /\ HeldClientsInv /\ ConnectionsOutliveUsers

\* The inductive invariant by component.
LEMMA AppInvParts ==
    AppInv <=> WorkInv /\ ServerTypeOK /\ ServerInv /\ MainInv /\ UsersInv
BY DEF AppInv, TypeOK, WorkInv, WorkTypeOK, MainInv, MainTypeOK, UsersInv, RefusedTypeOK

\* The history grows only where a goroutine meets a closed client or database and
\* where a request meets the closed database; the end of the process empties it.
LEMMA RefusedStep ==
    ASSUME [Next]_vars
    PROVE  \/ UNCHANGED refused
           \/ refused' = {}
           \/ \E w \in Workers :
                /\ at[w] = "call" /\ client[w] \notin open \cup {NoClient}
                /\ refused' = refused \cup {<<w, "client">>}
                /\ UNCHANGED <<mainVars, serverVars>>
           \/ \E w \in Workers :
                /\ Alive /\ at[w] = "next" /\ db = "closed"
                /\ refused' = refused \cup {<<w, "db">>}
                /\ UNCHANGED <<mainVars, serverVars>>
           \/ \E r \in Requests :
                /\ Alive /\ req[r] = "handler" /\ db = "closed"
                /\ refused' = refused \cup {<<r, "db">>}
                /\ UNCHANGED <<mainVars, serverVars>>
<1>1. CASE Boots \/ Signal \/ Tick \/ UNCHANGED vars
  BY <1>1 DEF Boots, ConnectRedis, ConnectDatabase, MigrationUp, StartWorkers,
              NotifySignals, Die, ProcessGone, Signal, Tick, vars, userVars, workVars
<1>2. CASE Shutdown
  BY <1>2 DEF Shutdown, StopServing, StopPprof, DrainServer, DrainPprof, StopWaiting,
              CloseDatabase, CloseConnections, Exit, ProcessGone, userVars, workVars
<1>3. ASSUME NEW w \in Workers, WorkerStep(w)
      PROVE  \/ UNCHANGED refused
             \/ /\ at[w] = "call" /\ client[w] \notin open \cup {NoClient}
                /\ refused' = refused \cup {<<w, "client">>}
                /\ UNCHANGED <<mainVars, serverVars>>
             \/ /\ Alive /\ at[w] = "next" /\ db = "closed"
                /\ refused' = refused \cup {<<w, "db">>}
                /\ UNCHANGED <<mainVars, serverVars>>
  <2>1. CASE Call(w)
    BY <2>1 DEF Call, At, Met, apiVars
  <2>2. CASE UseRows(w)
    BY <2>2 DEF UseRows, At, Met, apiVars
  <2> QED BY <1>3, <2>1, <2>2
             DEF WorkerStep, StartWork, EndWork, UsePool, GoroutineEnds
<1>4. ASSUME NEW r \in Requests, ServeRequest(r)
      PROVE  \/ UNCHANGED refused
             \/ /\ Alive /\ req[r] = "handler" /\ db = "closed"
                /\ refused' = refused \cup {<<r, "db">>}
                /\ UNCHANGED <<mainVars, serverVars>>
  BY <1>4 DEF ServeRequest, AnswerFromRows, Answer, Met
<1> QED BY <1>1, <1>2, <1>3, <1>4 DEF Next

\* How the waits ended is decided once, unless the process ends.
LEMMA EndsStay ==
    ASSUME MainInv, ServerInv, [Next]_vars
    PROVE  \/ refused' = {} /\ \A w \in Workers : at'[w] = "off"
           \/ /\ outcome = "timeout" => outcome' = "timeout"
              /\ drained = "deadline" => drained' = "deadline"
<1>1. CASE Die \/ Exit
  BY <1>1 DEF Die, Exit, ProcessGone
<1>2. CASE StopWaiting
  BY <1>2 DEF StopWaiting, MainInv, StageInv, Running, userVars, apiVars, serverVars
<1>3. CASE DrainServer
  BY <1>3 DEF DrainServer, EndDrain, ServerInv, mainVars, waitVars
<1>4. CASE \/ ConnectRedis \/ ConnectDatabase \/ MigrationUp \/ StartWorkers
           \/ NotifySignals \/ Signal \/ Tick \/ UNCHANGED vars
  BY <1>4 DEF ConnectRedis, ConnectDatabase, MigrationUp, StartWorkers, NotifySignals, Signal,
              Tick, vars, StartServing, mainVars, waitVars, userVars, apiVars, serverVars
<1>5. CASE StopServing \/ StopPprof \/ DrainPprof \/ CloseDatabase \/ CloseConnections
  BY <1>5 DEF StopServing, BeginDrain, StopPprof, DrainPprof, CloseDatabase, CloseConnections,
              mainVars, waitVars, userVars, apiVars, serverVars
<1>6. ASSUME NEW w \in Workers, WorkerStep(w) PROVE UNCHANGED <<outcome, drained>>
  BY <1>6 DEF WorkerStep, StartWork, EndWork, UsePool, Call, UseRows, GoroutineEnds,
              mainVars, waitVars, apiVars, serverVars
<1>7. ASSUME NEW r \in Requests, ServeRequest(r) PROVE UNCHANGED <<outcome, drained>>
  BY <1>7, RequestStep DEF ServeRequest, Arrive, WriteContext, AttachLogger, Answer,
              mainVars, waitVars, serverVars
<1> QED BY <1>1, <1>2, <1>3, <1>4, <1>5, <1>6, <1>7 DEF Next, Boots, Shutdown

\* Whoever has met a closed connection, main had given up on it.
LEMMA OutliveNext ==
    ASSUME AppInv, [Next]_vars
    PROVE  RefusedTypeOK' /\ ConnectionsOutliveUsers'
<1> USE ConstantFacts, AppInvParts DEF UsersInv, RefusedTypeOK, ConnectionsOutliveUsers
<1>1. CASE refused' = {}
  BY <1>1
<1>2. CASE UNCHANGED refused
  BY <1>1, <1>2, EndsStay
<1>3. ASSUME Alive, db = "closed"
      PROVE  /\ server = "stopped" /\ outcome \in {"graceful", "timeout"}
             /\ outcome = "graceful" => SchedulerStopped
  BY <1>3 DEF MainInv, StageInv, Closing
<1>4. ASSUME NEW w \in Workers, at[w] = "call", client[w] \notin open \cup {NoClient},
             refused' = refused \cup {<<w, "client">>}, UNCHANGED <<mainVars, serverVars>>
      PROVE  RefusedTypeOK' /\ ConnectionsOutliveUsers'
  <2>1. outcome = "timeout" /\ UNCHANGED <<outcome, drained>>
    BY <1>4 DEF HeldClientsInv, mainVars, waitVars, serverVars
  <2> QED BY <1>4, <2>1
<1>5. ASSUME NEW w \in Workers, Alive, at[w] = "next", db = "closed",
             refused' = refused \cup {<<w, "db">>}, UNCHANGED <<mainVars, serverVars>>
      PROVE  RefusedTypeOK' /\ ConnectionsOutliveUsers'
  <2>1. outcome = "timeout" /\ UNCHANGED <<outcome, drained>>
    BY <1>3, <1>5 DEF SchedulerStopped, mainVars, waitVars, serverVars
  <2> QED BY <1>5, <2>1
<1>6. ASSUME NEW r \in Requests, Alive, req[r] = "handler", db = "closed",
             refused' = refused \cup {<<r, "db">>}, UNCHANGED <<mainVars, serverVars>>
      PROVE  RefusedTypeOK' /\ ConnectionsOutliveUsers'
  <2>1. drained = "deadline" /\ UNCHANGED <<outcome, drained>>
    BY <1>3, <1>6 DEF ServerInv, ServerTypeOK, Idle, Handling, mainVars, waitVars, serverVars
  <2> QED BY <1>6, <2>1
<1> QED BY RefusedStep, <1>1, <1>2, <1>4, <1>5, <1>6

\* A client that a goroutine holds is closed under it only by main's Close, and after a
\* graceful wait no goroutine is left to hold one.
LEMMA HeldClientsNext ==
    ASSUME AppInv, [Next]_vars
    PROVE  HeldClientsInv'
<1> USE ConstantFacts, AppInvParts DEF UsersInv, WorkInv, WorkTypeOK, PoolTypeOK, HeldClientsInv,
                        clientVars, poolVars, callerVars
<1>1. CASE UNCHANGED <<at, todo, clientVars>>
  BY <1>1, EndsStay
<1>2. CASE StartWorkers
  <2>1. \A w \in Workers : at'[w] # "call"
    BY <1>2 DEF StartWorkers, Boot, Booting, MainInv, StageInv
  <2> QED BY <2>1
<1>3. CASE Die \/ Exit
  BY <1>3 DEF Die, Exit, ProcessGone
<1>4. CASE CloseConnections
  BY <1>4 DEF CloseConnections, ClosePools, MainInv, StageInv, Closing, SchedulerStopped, waitVars
<1>5. ASSUME NEW w \in Workers, WorkerStep(w) PROVE HeldClientsInv'
  <2>1. UNCHANGED outcome
    BY <1>5, UserStep DEF mainVars, waitVars
  <2>2. ASSUME NEW k \in Keys, Lookup(w, k) PROVE HeldClientsInv'
    BY <2>1, <2>2 DEF Lookup, Given, GoTo, PoolInv
  <2>3. CASE LockAndCheck(w)
    BY <2>1, <2>3 DEF LockAndCheck, Given, GoTo, PoolInv, AskInv
  <2>4. CASE Dial(w)
    BY <2>1, <2>4 DEF Dial, Given, GoTo
  <2>5. ASSUME Release(w), NEW rest, Resume(w, rest) PROVE HeldClientsInv'
    BY <2>1, <2>5 DEF Release, Resume, GoTo
  <2>6. ASSUME UNCHANGED clientVars, NEW s \in {"next", "sleep", "ended"}, GoTo(w, s)
        PROVE  HeldClientsInv'
    BY <2>1, <2>6 DEF GoTo
  <2> QED BY <1>5, <2>2, <2>3, <2>4, <2>5, <2>6, WorkerKinds
<1> QED BY WorkFrame, <1>1, <1>2, <1>3, <1>4, <1>5

--------------------------------------------------------------------------------
(* The theorems.                                                               *)

\* The inductive invariant holds in every reachable state.
LEMMA AppAlways == Spec => []AppInv
<1>1. Init => AppInv
  <2> SUFFICES ASSUME Init PROVE AppInv
    OBVIOUS
  <2> USE ConstantFacts DEF Init, UsersInit, PoolInit, ServerInit
  <2>1. WorkInv
    <3>1. <<>> \in Seq(Kinds \cup {"db"})
      OBVIOUS
    <3> QED BY <3>1 DEF WorkInv, WorkTypeOK, PoolTypeOK, AskInv, PoolInv
  <2>2. ServerTypeOK /\ ServerInv
    BY DEF ServerTypeOK, ServerInv, Handling, Idle
  <2>3. MainInv
    BY DEF MainInv, MainTypeOK, StageInv, TimeInv, Booting, Running, Closing, MainWait
  <2>4. UsersInv
    BY DEF UsersInv, RefusedTypeOK, HeldClientsInv, ConnectionsOutliveUsers
  <2> QED BY <2>1, <2>2, <2>3, <2>4, AppInvParts
<1>2. AppInv /\ [Next]_vars => AppInv'
  <2> SUFFICES ASSUME AppInv, [Next]_vars PROVE AppInv'
    OBVIOUS
  <2>1. ServerTypeOK' /\ ServerInv'
    BY ServerNext, AppInvParts DEF MainInv, StageInv
  <2>2. WorkInv'
    BY WorkNext, AppInvParts DEF MainInv, StageInv
  <2>3. MainInv'
    BY MainNext, AppInvParts
  <2>4. UsersInv'
    BY OutliveNext, HeldClientsNext DEF UsersInv
  <2> QED
    BY <2>1, <2>2, <2>3, <2>4
       DEF AppInv, TypeOK, WorkInv, WorkTypeOK, MainInv, MainTypeOK, UsersInv, RefusedTypeOK
<1> QED BY <1>1, <1>2, PTL DEF Spec

\* The process is well typed; a goroutine dials exactly while it holds the write
\* lock of the pools.
THEOREM TypeCorrect == Spec => []TypeOK
<1>1. AppInv => TypeOK
  BY DEF AppInv
<1> QED BY <1>1, AppAlways, PTL

\* Whatever the interleaving of lookups, dials and Close, every open client can be
\* reached through the pool, under one key.
THEOREM NoOrphanClientHolds == Spec => []NoOrphanClient
<1>1. AppInv => NoOrphanClient
  BY PoolsHaveNoOrphans DEF AppInv, TypeOK
<1> QED BY <1>1, AppAlways, PTL

\* However many requests race on the captured context, a request that runs its
\* handler logs its own path last.
THEOREM OwnLoggerOnTopHolds == Spec => []OwnLoggerOnTop
<1>1. AppInv => OwnLoggerOnTop
  BY DEF AppInv, ServerInv, OwnLoggerOnTop, Handling
<1> QED BY <1>1, AppAlways, PTL

\* A handler meets the closed database only after the drain's deadline, a goroutine
\* of the scheduler a closed connection only after main gave up waiting.
THEOREM ConnectionsOutliveUsersHolds == Spec => []ConnectionsOutliveUsers
<1>1. AppInv => ConnectionsOutliveUsers
  BY DEF AppInv
<1> QED BY <1>1, AppAlways, PTL

\* A graceful shutdown leaves no connection and no client open.
THEOREM GracefulLeavesNothingOpenHolds == Spec => []GracefulLeavesNothingOpen
<1>1. AppInv => GracefulLeavesNothingOpen
  BY DEF AppInv, StageInv, GracefulLeavesNothingOpen, Alive
<1> QED BY <1>1, AppAlways, PTL

\* When main gives up, the API server and the debug server have stopped.
THEOREM OnlySchedulerTimesOutHolds == Spec => []OnlySchedulerTimesOut
<1>1. AppInv => OnlySchedulerTimesOut
  BY DEF AppInv, TypeOK, StageInv, OnlySchedulerTimesOut, Alive, Booting, Running, Closing
<1> QED BY <1>1, AppAlways, PTL
================================================================================
