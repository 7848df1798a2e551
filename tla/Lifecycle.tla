----------------------------- MODULE Lifecycle -----------------------------
(***************************************************************************)
(* Start, service and shutdown of the process: run in main.go, App.Close,  *)
(* the two servers, the janitor and the goroutines of an SSE stream.       *)
(*                                                                         *)
(* A request is plain (it queries the database once) or a stream (SSE: a   *)
(* producer and a writer joined by a channel).  The connections of the hub *)
(* are hijacked, so the servers do not wait for them; they are in Hub.     *)
(* A closed Redis is a Redis that is down, as Tokens and RateLimit have it.*)
(*                                                                         *)
(* gin keeps its contexts in a pool: once ServeHTTP has returned, another  *)
(* request may get the context, and c.Request is then that request for     *)
(* goroutines that still hold c.                                           *)
(***************************************************************************)
EXTENDS Integers

CONSTANTS Requests,
          StreamCap,   \* capacity of the channel of an SSE stream
          HasTimeout   \* the timeout middleware is installed

ASSUME StreamAssumption == StreamCap \in Nat \ {0} /\ HasTimeout \in BOOLEAN

VARIABLES main,       \* where run is
          signalled,  \* SIGINT or SIGTERM was received
          late,       \* the deadline of Shutdown has passed
          server,     \* both servers
          errors,     \* messages in errCh
          db,
          cancelled,  \* Runners.Stop has cancelled the janitor
          janitor,
          req         \* the requests: connection, handler, and stream

vars == <<main, signalled, late, server, errors, db, cancelled, janitor, req>>
serverVars == <<server, errors>>
taskVars == <<db, cancelled, janitor>>

Servers == {"http", "https"}
\* ended: the request's context is done.  queue is the length of the stream's channel,
\* which its producer closes when it ends.  owner is c.Request, where c is the
\* gin.Context the request was given; watched is the one the producer's select reads.
\* conn is the server whose connection waits for the answer.
NoRequest(r) == [kind |-> "plain", conn |-> "none", handler |-> "none", ended |-> FALSE,
                 queue |-> 0, producer |-> "none", owner |-> r, watched |-> r]

MainLabels == {"init", "serving", "stopTasks", "closeStores", "shutHTTP",
               "drainHTTP", "shutHTTPS", "drainHTTPS", "exited", "failed"}

\* The process is gone, and all its goroutines with it.
Over == main \in {"exited", "failed"}

Init ==
    /\ main = "init" /\ signalled = FALSE /\ late = FALSE
    /\ server = [s \in Servers |-> "off"] /\ errors = 0
    /\ db = "closed" /\ cancelled = FALSE /\ janitor = "off"
    /\ req = [r \in Requests |-> NoRequest(r)]

Main(from, to) == main = from /\ main' = to

-----------------------------------------------------------------------------
(* run. *)

\* The stores are opened, and NewApp starts the janitor, unless its interval is 0.
InitApp == db' = "open" /\ janitor' \in {"waiting", "off"}

\* HTTP always, HTTPS when it is configured.
StartServers ==
    \E tls \in BOOLEAN :
       server' = [s \in Servers |-> IF s = "http" \/ tls THEN "starting" ELSE "off"]

Start ==
    /\ Main("init", "serving") /\ InitApp /\ StartServers
    /\ UNCHANGED <<signalled, late, errors, cancelled, req>>

\* A store or the secret is missing, or a certificate is not configured.
StartFails ==
    /\ Main("init", "failed")
    /\ UNCHANGED <<signalled, late, serverVars, taskVars, req>>

\* The select: a signal, or an error of a server.  The latter returns without
\* App.Close, and the cleanup wire generated does nothing.
Select ==
    /\ \/ signalled /\ Main("serving", "stopTasks") /\ UNCHANGED errors
       \/ errors > 0 /\ Main("serving", "failed") /\ errors' = errors - 1
    /\ UNCHANGED <<signalled, late, server, taskVars, req>>

\* App.Close stops the tasks and then closes the stores.  Closing hubStop is the
\* Stop of Hub, and clearing the limiter the Clear of RateLimit; neither waits.
StopTasks ==
    /\ Main("stopTasks", "closeStores")
    /\ cancelled' = TRUE
    /\ UNCHANGED <<signalled, late, serverVars, db, janitor, req>>

\* The database, Redis and the logger.  Queries under way run to their end, and no
\* other can start.
CloseStores ==
    /\ Main("closeStores", "shutHTTP")
    /\ db' = "closed"
    /\ UNCHANGED <<signalled, late, serverVars, cancelled, janitor, req>>

Shut(s, from, to) ==
    /\ Main(from, to)
    /\ server' = [server EXCEPT ![s] = "closed"]
    /\ UNCHANGED <<signalled, late, errors, taskVars, req>>

ActiveOn(s) == {r \in Requests : req[r].conn = s}

\* Variant: Shutdown is given a context without a deadline.
DrainUnlimited(s, from, to) ==
    /\ Main(from, to) /\ ActiveOn(s) = {}
    /\ UNCHANGED <<signalled, late, serverVars, taskVars, req>>
\* Shutdown returns when every connection is idle, or at its deadline.
Drain(s, from, to) ==
    /\ Main(from, to) /\ (ActiveOn(s) = {} \/ late)
    /\ UNCHANGED <<signalled, late, serverVars, taskVars, req>>

\* Variant: only the HTTP server is shut down.
AfterHTTPAlways == "exited"
AfterHTTP == IF server["https"] = "off" THEN "exited" ELSE "shutHTTPS"

\* Shutdown closes the listener and waits: HTTP first, then HTTPS.
Shutdown ==
    \/ Shut("http", "shutHTTP", "drainHTTP") \/ Drain("http", "drainHTTP", AfterHTTP)
    \/ Shut("https", "shutHTTPS", "drainHTTPS") \/ Drain("https", "drainHTTPS", "exited")

\* Thirty seconds after the signal was seen; before the first drain nothing asks.
DeadlinePasses ==
    /\ main \in {"drainHTTP", "shutHTTPS", "drainHTTPS"}
    /\ ~late /\ late' = TRUE
    /\ UNCHANGED <<main, signalled, serverVars, taskVars, req>>

-----------------------------------------------------------------------------
(* The servers and their requests. *)

\* Variant: a server that fails tries again.
ListenRetries(s) ==
    /\ ~Over /\ server[s] = "starting"
    /\ \/ server' = [server EXCEPT ![s] = "open"] /\ UNCHANGED errors
       \/ UNCHANGED server /\ errors' = errors + 1
    /\ UNCHANGED <<main, signalled, late, taskVars, req>>
\* ListenAndServe: it serves or fails; after Shutdown it does neither.
Listen(s) ==
    /\ ~Over /\ server[s] = "starting"
    /\ \/ server' = [server EXCEPT ![s] = "open"] /\ UNCHANGED errors
       \/ server' = [server EXCEPT ![s] = "failed"] /\ errors' = errors + 1
    /\ UNCHANGED <<main, signalled, late, taskVars, req>>

Update(r, new) ==
    req' = [req EXCEPT ![r] = new]
        /\ UNCHANGED <<main, signalled, late, serverVars, taskVars>>

\* A request arrives and gets a new gin.Context, or one whose request was served.
Accept(r, s, kind) ==
    /\ ~Over /\ server[s] = "open" /\ req[r].conn = "none"
    /\ \E c \in {r} \cup {q \in Requests : req[q].conn = "done" /\ req[q].owner = q} :
          req' = [q \in Requests |->
                    IF q = r
                    THEN [NoRequest(r) EXCEPT !.kind = kind, !.conn = s,
                            !.handler = IF kind = "plain" THEN "running" ELSE "streaming",
                            !.producer = IF kind = "plain" THEN "none" ELSE "running"]
                    ELSE [req[q] EXCEPT !.owner = IF @ = c THEN r ELSE @]]
    /\ UNCHANGED <<main, signalled, late, serverVars, taskVars>>

\* The handler returns: its answer is sent, unless the timeout sent one, and net/http
\* ends the request's context.
Returned(r) == [req[r] EXCEPT !.handler = "done", !.conn = "done", !.ended = TRUE]

\* A query starts, or fails at once because the database was closed.
Query(r) ==
    /\ ~Over /\ req[r].handler = "running"
    /\ \/ db = "open" /\ Update(r, [req[r] EXCEPT !.handler = "query"])
       \/ db = "closed" /\ Update(r, Returned(r))

QueryEnds(r) == ~Over /\ req[r].handler = "query" /\ Update(r, Returned(r))

\* The timeout middleware answers 504; the handler goes on behind it.
TimesOut(r) ==
    /\ ~Over /\ HasTimeout /\ req[r].conn \in Servers
    /\ Update(r, [req[r] EXCEPT !.conn = "done", !.ended = TRUE])

PeerGone(r) ==
    /\ ~Over /\ req[r].conn \in Servers /\ ~req[r].ended
    /\ Update(r, [req[r] EXCEPT !.ended = TRUE])

\* The ticker: an event, dropped when the channel is full; then c.Request is read again.
Produce(r) ==
    /\ ~Over /\ req[r].producer = "running"
    /\ Update(r, [req[r] EXCEPT !.queue = IF @ < StreamCap THEN @ + 1 ELSE @,
                                !.watched = req[r].owner])

\* Variant: the producer watches its ticker only.
ProducerEndsNever(r) == FALSE /\ UNCHANGED vars
\* The producer sees the context end and closes the channel.
ProducerEnds(r) ==
    /\ ~Over /\ req[r].producer = "running" /\ req[req[r].watched].ended
    /\ Update(r, [req[r] EXCEPT !.producer = "done", !.watched = r])

\* realtime.SSE: an event is written, an error of the write ignored.
Write(r) ==
    /\ ~Over /\ req[r].handler = "streaming" /\ req[r].queue > 0
    /\ Update(r, [req[r] EXCEPT !.queue = @ - 1])

WriterEnds(r) ==
    /\ ~Over /\ req[r].handler = "streaming"
    /\ req[r].ended \/ (req[r].producer = "done" /\ req[r].queue = 0)
    /\ Update(r, Returned(r))

-----------------------------------------------------------------------------
(* The janitor, and the signal. *)

Janitor(from, to) ==
    /\ ~Over /\ janitor = from /\ janitor' = to
    /\ UNCHANGED <<main, signalled, late, serverVars, db, cancelled, req>>

\* The select may take the ticker's case although the context is done.
JanitorTicks == Janitor("waiting", "cleaning")

\* CleanupExpired: its query runs, or fails because the database was closed or the
\* context is done.  Either way the loop goes on.
Cleanup == Janitor("cleaning", "waiting")

JanitorEnds == cancelled /\ Janitor("waiting", "done")

\* NotifyContext runs before InitApp and keeps a signal that comes early.
Signal ==
    /\ ~Over /\ ~signalled /\ signalled' = TRUE
    /\ UNCHANGED <<main, late, serverVars, taskVars, req>>

Quiet == Over /\ UNCHANGED vars

MainStep == Start \/ StartFails \/ Select \/ StopTasks \/ CloseStores \/ Shutdown
HandlerStep(r) == Query(r) \/ QueryEnds(r)

Next ==
    \/ MainStep \/ DeadlinePasses \/ Signal \/ Quiet
    \/ \E s \in Servers : Listen(s)
    \/ \E r \in Requests :
          \/ \E s \in Servers, kind \in {"plain", "stream"} : Accept(r, s, kind)
          \/ HandlerStep(r) \/ TimesOut(r) \/ PeerGone(r)
          \/ Produce(r) \/ ProducerEnds(r) \/ Write(r) \/ WriterEnds(r)
    \/ JanitorTicks \/ Cleanup \/ JanitorEnds

Spec == Init /\ [][Next]_vars

\* Goroutines that can run do, the clock reaches a deadline, and a select whose case
\* is ready again and again takes it some time.  Nobody has to send a signal or a
\* request, or to leave, and no query has to end.
FairSpec ==
    /\ Spec
    /\ WF_vars(MainStep) /\ WF_vars(DeadlinePasses)
    /\ \A r \in Requests :
          SF_vars(ProducerEnds(r)) /\ WF_vars(WriterEnds(r))

-----------------------------------------------------------------------------
(* Properties. *)

RequestStates == [kind : {"plain", "stream"},
                  conn : Servers \cup {"none", "done"},
                  handler : {"none", "running", "query", "streaming", "done"},
                  ended : BOOLEAN, queue : 0..StreamCap,
                  producer : {"none", "running", "done"},
                  owner : Requests, watched : Requests]

\* Every variable has its type, and errCh never holds more than its two messages.
TypeOK ==
    /\ main \in MainLabels /\ signalled \in BOOLEAN /\ late \in BOOLEAN
    /\ server \in [Servers -> {"off", "starting", "open", "failed", "closed"}]
    /\ errors \in 0..2 /\ db \in {"open", "closed"} /\ cancelled \in BOOLEAN
    /\ janitor \in {"off", "waiting", "cleaning", "done"}
    /\ req \in [Requests -> RequestStates]

\* A clean-up meets a closed database only when it was told to stop before
\* (App.Close: tasks first, stores last).
JanitorSpared == janitor = "cleaning" /\ db = "closed" => cancelled

\* When the process ends after a signal and before the deadline of Shutdown, no
\* client of either server is left without an answer.
AnsweredBeforeExit ==
    main = "exited" /\ ~late => \A r \in Requests : req[r].conn \notin Servers

\* After a signal, or when a server cannot listen, the process ends, whatever
\* streams are open and whatever clients do.
ProcessEnds == (signalled \/ errors > 0) ~> Over

\* Once the context of a stream is done, its producer and its writer end, unless
\* another request that is not done has got its gin.Context (handler.sse).
StreamEnds ==
    \A r \in Requests :
        (req[r].kind = "stream" /\ req[r].ended) ~>
            (Over \/ (req[r].producer = "done" /\ req[r].handler = "done")
                  \/ ~req[req[r].owner].ended)

\* App.Close closes the database last, "so that the work in progress can drain": as
\* long as a request is being served, it finds the database open.
DrainWindow ==
    \A r \in Requests :
        req[r].conn \in Servers /\ req[r].handler = "running" => db = "open"
=============================================================================
