------------------------------ MODULE HttpServer -------------------------------
(* The API server: RunHTTPServer and registerRoutes (src/src/app/app.go), the  *)
(* middlewares (src/src/handler/middleware.go) and the handlers as users of    *)
(* the database. Every request is a goroutine of its own.                      *)
EXTENDS Naturals, Sequences

CONSTANTS NumRequests  \* requests of the instance, numbered as they arrive

ASSUME RequestsAssumption == NumRequests \in Nat

Requests == 1 .. NumRequests

VARIABLES
    server,    \* RunHTTPServer
    drained,   \* how its Shutdown ended
    req,       \* req[r]: how far request r is
    captured,  \* the logger in the context LoggerMiddleware's closure captured
    fields     \* fields[r]: the logger of request r; a logger is the sequence
               \* of the requests whose fields its lines carry

serverVars  == <<server, drained>>
requestVars == <<req, captured, fields>>

Handling == {"write", "attach", "handler"}

ServerInit ==
    /\ server = "off" /\ drained = "no"
    /\ req = [r \in Requests |-> "none"]
    /\ captured = <<>>
    /\ fields = [r \in Requests |-> <<>>]

ServerGone ==
    /\ server' = "off" /\ drained' = "no"
    /\ req' = [r \in Requests |-> "none"]
    /\ captured' = <<>>
    /\ fields' = [r \in Requests |-> <<>>]

Move(r, s) == req' = [req EXCEPT ![r] = s]

\* LoggerMiddleware reads the captured context, assigns it and reads it again;
\* concurrent requests interleave between these.
Arrive(r) ==
    /\ server = "serving" /\ req[r] = "none"
    /\ \A q \in 1 .. r - 1 : req[q] # "none"
    /\ fields' = [fields EXCEPT ![r] = Append(captured, r)]
    /\ Move(r, "write")
    /\ UNCHANGED <<serverVars, captured>>

WriteContext(r) ==
    /\ req[r] = "write"
    /\ captured' = fields[r]
    /\ Move(r, "attach")
    /\ UNCHANGED <<serverVars, fields>>

\* zlog.WithContext(ctx) puts the request's own logger over that of ctx.
Wrong_CapturedLogger(r) == captured
RequestLogger(r) == fields[r]

AttachLogger(r) ==
    /\ req[r] = "attach"
    /\ fields' = [fields EXCEPT ![r] = RequestLogger(r)]
    /\ Move(r, "handler")
    /\ UNCHANGED <<serverVars, captured>>

\* A missing or wrong secret ends the request, an invalid one does in its handler,
\* the others with a query's result or error. The health check needs neither.
Answer(r) ==
    /\ req[r] = "handler"
    /\ Move(r, "answered")
    /\ fields' = [fields EXCEPT ![r] = <<>>]
    /\ UNCHANGED <<serverVars, captured>>

Idle == \A r \in Requests : req[r] \notin Handling

StartServing == server' = "serving" /\ UNCHANGED <<drained, requestVars>>

\* server.Shutdown accepts no more requests and waits for those there are.
BeginDrain ==
    /\ server = "serving"
    /\ server' = "draining"
    /\ UNCHANGED <<drained, requestVars>>

EndDrain(how) ==
    /\ server = "draining"
    /\ server' = "stopped" /\ drained' = how
    /\ UNCHANGED requestVars

ServerTypeOK ==
    /\ server \in {"off", "serving", "draining", "stopped"}
    /\ drained \in {"no", "clean", "deadline"}
    /\ req \in [Requests -> {"none", "answered"} \cup Handling]
    /\ captured \in Seq(Requests)
    /\ fields \in [Requests -> Seq(Requests)]

\* However requests race on the captured context, a request that runs its handler
\* logs its own path last, so that the lines it writes are told apart from those
\* of the requests its logger has inherited fields from (middleware.go:18).
OwnLoggerOnTop ==
    \A r \in Requests :
        req[r] = "handler" =>
            /\ fields[r] # <<>> /\ fields[r][Len(fields[r])] = r
================================================================================
