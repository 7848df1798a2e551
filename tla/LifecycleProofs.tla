-------------------------- MODULE LifecycleProofs --------------------------
(***************************************************************************)
(* What Lifecycle promises for any number of requests: types, that the     *)
(* janitor is told to stop before the database is closed, and that the two *)
(* shutdowns leave nobody waiting unless the deadline passed.              *)
(***************************************************************************)
EXTENDS Lifecycle, TLAPS

\* A server that has not reported an error, and may.
Silent(s) == IF server[s] \in {"off", "starting"} THEN 1 ELSE 0

\* Each server puts one message in errCh at most.
TypeInv == TypeOK /\ errors + Silent("http") + Silent("https") <= 2

\* The janitor is off, or its database is open, or it was told to stop.
Order ==
    /\ main = "init" => janitor = "off"
    /\ main \in {"serving", "stopTasks"} => db = "open"
    /\ main = "closeStores" => cancelled
    /\ db = "closed" /\ janitor # "off" => cancelled

\* A server serves what it accepted when it was open; a drain that was not cut off
\* left nobody on it, and nobody came since.
Drained ==
    /\ \A r \in Requests, s \in Servers : req[r].conn = s => server[s] \in {"open", "closed"}
    /\ main = "init" => \A s \in Servers : server[s] = "off"
    /\ main \in {"drainHTTP", "shutHTTPS", "drainHTTPS", "exited"} => server["http"] = "closed"
    /\ main = "drainHTTPS" => server["https"] = "closed"
    /\ main = "exited" => server["https"] \in {"off", "closed"}
    /\ ~late /\ main \in {"shutHTTPS", "drainHTTPS", "exited"} =>
          \A r \in Requests : req[r].conn # "http"
    /\ ~late /\ main = "exited" => \A r \in Requests : req[r].conn # "https"

RequestStep(r) ==
    \/ \E s \in Servers, kind \in {"plain", "stream"} : Accept(r, s, kind)
    \/ HandlerStep(r) \/ TimesOut(r) \/ PeerGone(r)
    \/ Produce(r) \/ ProducerEnds(r) \/ Write(r) \/ WriterEnds(r)

JanitorStep == JanitorTicks \/ Cleanup \/ JanitorEnds

-----------------------------------------------------------------------------
(* The steps of a request. *)

\* What a step of a request may do: it keeps the types, and puts no request on a server
\* that is not open.
RequestKept ==
    /\ req' \in [Requests -> RequestStates]
    /\ \A q \in Requests, s \in Servers :
          req'[q].conn = s => req[q].conn = s \/ server[s] = "open"
    /\ UNCHANGED <<main, signalled, late, server, errors, db, cancelled, janitor>>

Fits(r, new) == new \in RequestStates /\ (new.conn = req[r].conn \/ new.conn = "done")

\* Update with a record that fits is such a step.
LEMMA UpdateKeeps ==
    ASSUME NEW r \in Requests, NEW new, Fits(r, new), Update(r, new), TypeInv
    PROVE  RequestKept
<1>1. req \in [Requests -> RequestStates]
  BY DEF TypeInv, TypeOK
<1>2. /\ req' \in [Requests -> RequestStates] /\ req'[r] = new
      /\ \A q \in Requests \ {r} : req'[q] = req[q]
      /\ UNCHANGED <<main, signalled, late, server, errors, db, cancelled, janitor>>
  BY <1>1 DEF Update, Fits, serverVars, taskVars
<1> QED BY <1>2 DEF RequestKept, Fits, Servers

\* Every step of a request is.
LEMMA RequestKeeps ==
    ASSUME NEW r \in Requests, RequestStep(r), TypeInv
    PROVE  RequestKept
<1> USE StreamAssumption
<1>1. req \in [Requests -> RequestStates]
  BY DEF TypeInv, TypeOK
<1>2. req[r] \in RequestStates
  BY <1>1
<1>3. CASE \E s \in Servers, kind \in {"plain", "stream"} : Accept(r, s, kind)
  <2> PICK s \in Servers, kind \in {"plain", "stream"} : Accept(r, s, kind)
    BY <1>3
  <2>1. NoRequest(r) \in RequestStates
    BY DEF NoRequest, RequestStates
  <2>2. PICK c \in Requests :
            req' = [q \in Requests |->
                      IF q = r
                      THEN [NoRequest(r) EXCEPT !.kind = kind, !.conn = s,
                              !.handler = IF kind = "plain" THEN "running" ELSE "streaming",
                              !.producer = IF kind = "plain" THEN "none" ELSE "running"]
                      ELSE [req[q] EXCEPT !.owner = IF @ = c THEN r ELSE @]]
    BY DEF Accept
  <2>3. /\ req'[r] \in RequestStates /\ req'[r].conn = s
    BY <2>1, <2>2 DEF RequestStates
  <2>4. ASSUME NEW q \in Requests \ {r}
        PROVE  req'[q] \in RequestStates /\ req'[q].conn = req[q].conn
    BY <2>2, <1>1 DEF RequestStates
  <2>5. req' \in [Requests -> RequestStates]
    BY <2>2, <2>3, <2>4
  <2> QED BY <2>3, <2>4, <2>5 DEF RequestKept, Accept, serverVars, taskVars
<1>4. Fits(r, Returned(r))
  BY <1>2 DEF Fits, Returned, RequestStates
<1>5. CASE HandlerStep(r)
  <2>1. Fits(r, [req[r] EXCEPT !.handler = "query"])
    BY <1>2 DEF Fits, RequestStates
  <2> QED BY UpdateKeeps, <1>4, <1>5, <2>1 DEF HandlerStep, Query, QueryEnds
<1>6. CASE TimesOut(r)
  <2>1. Fits(r, [req[r] EXCEPT !.conn = "done", !.ended = TRUE])
    BY <1>2 DEF Fits, RequestStates
  <2> QED BY UpdateKeeps, <1>6, <2>1 DEF TimesOut
<1>7. CASE PeerGone(r)
  <2>1. Fits(r, [req[r] EXCEPT !.ended = TRUE])
    BY <1>2 DEF Fits, RequestStates
  <2> QED BY UpdateKeeps, <1>7, <2>1 DEF PeerGone
<1>8. CASE Produce(r)
  <2>1. /\ req[r].queue \in 0..StreamCap /\ req[r].owner \in Requests
        /\ (IF req[r].queue < StreamCap THEN req[r].queue + 1 ELSE req[r].queue) \in 0..StreamCap
    BY <1>2 DEF RequestStates
  <2>2. Fits(r, [req[r] EXCEPT !.queue = IF @ < StreamCap THEN @ + 1 ELSE @,
                             !.watched = req[r].owner])
    BY <1>2, <2>1 DEF Fits, RequestStates
  <2> QED BY UpdateKeeps, <1>8, <2>2 DEF Produce
<1>9. CASE ProducerEnds(r)
  <2>1. Fits(r, [req[r] EXCEPT !.producer = "done", !.watched = r])
    BY <1>2 DEF Fits, RequestStates
  <2> QED BY UpdateKeeps, <1>9, <2>1 DEF ProducerEnds
<1>10. CASE Write(r)
  <2>1. Fits(r, [req[r] EXCEPT !.queue = @ - 1])
    BY <1>2, <1>10 DEF Fits, RequestStates, Write
  <2> QED BY UpdateKeeps, <1>10, <2>1 DEF Write
<1>11. CASE WriterEnds(r)
  BY UpdateKeeps, <1>4, <1>11 DEF WriterEnds
<1> QED BY <1>3, <1>5, <1>6, <1>7, <1>8, <1>9, <1>10, <1>11 DEF RequestStep

-----------------------------------------------------------------------------
(* The invariants. *)

LifecycleInv == TypeInv /\ Order /\ Drained

LEMMA InitInv == Init => LifecycleInv
<1> SUFFICES ASSUME Init PROVE LifecycleInv
  OBVIOUS
<1>1. \A r \in Requests : NoRequest(r) \in RequestStates /\ NoRequest(r).conn = "none"
  BY StreamAssumption DEF NoRequest, RequestStates
<1>2. req \in [Requests -> RequestStates] /\ \A r \in Requests : req[r].conn = "none"
  BY <1>1 DEF Init
<1>3. TypeInv
  <2>1. server \in [Servers -> {"off"}] /\ server["http"] = "off" /\ server["https"] = "off"
    BY DEF Init, Servers
  <2>2. errors + Silent("http") + Silent("https") <= 2
    <3>1. Silent("http") = 1 /\ Silent("https") = 1 /\ errors = 0
      BY <2>1 DEF Silent, Init
    <3> QED BY <3>1
  <2>3. server \in [Servers -> {"off", "starting", "open", "failed", "closed"}]
    BY <2>1
  <2>4. TypeOK
    <3>1. main \in MainLabels /\ errors \in 0..2
      BY DEF Init, MainLabels
    <3>2. /\ signalled \in BOOLEAN /\ late \in BOOLEAN /\ cancelled \in BOOLEAN
          /\ db \in {"open", "closed"} /\ janitor \in {"off", "waiting", "cleaning", "done"}
      BY Zenon DEF Init
    <3> QED BY <1>2, <2>3, <3>1, <3>2 DEF TypeOK
  <2> QED BY <2>2, <2>4 DEF TypeInv
<1>4. Order /\ Drained
  BY <1>2 DEF Init, Order, Drained, Servers
<1> QED BY <1>3, <1>4 DEF LifecycleInv

\* The steps of run.
LEMMA MainKeeps == LifecycleInv /\ MainStep => LifecycleInv'
<1> SUFFICES ASSUME LifecycleInv, MainStep PROVE LifecycleInv'
  OBVIOUS
<1> USE DEF LifecycleInv, MainLabels, Main, Servers, serverVars, taskVars
<1>1. TypeInv'
  <2> USE DEF TypeInv, TypeOK, Silent
  <2>1. CASE Start
    <3>1. /\ server["http"] = "off" /\ server["https"] = "off"
          /\ server' \in [Servers -> {"off", "starting"}]
      BY <2>1 DEF Start, StartServers, Drained
    <3>2. Silent("http")' = Silent("http") /\ Silent("https")' = Silent("https")
      BY <3>1
    <3> QED BY <2>1, <3>1, <3>2 DEF Start, InitApp, StartServers
  <2>2. CASE StartFails BY <2>2 DEF StartFails
  <2>3. CASE Select BY <2>3 DEF Select
  <2>4. CASE StopTasks BY <2>4 DEF StopTasks
  <2>5. CASE CloseStores BY <2>5 DEF CloseStores
  <2>6. CASE Shutdown BY <2>6 DEF Shutdown, Shut, Drain, AfterHTTP
  <2> QED BY <2>1, <2>2, <2>3, <2>4, <2>5, <2>6 DEF MainStep
<1>2. Order'
  <2> USE DEF Order, TypeInv, TypeOK
  <2>1. CASE Start BY <2>1 DEF Start, InitApp, StartServers
  <2>2. CASE StartFails BY <2>2 DEF StartFails
  <2>3. CASE Select BY <2>3 DEF Select
  <2>4. CASE StopTasks BY <2>4 DEF StopTasks
  <2>5. CASE CloseStores BY <2>5 DEF CloseStores
  <2>6. CASE Shutdown BY <2>6 DEF Shutdown, Shut, Drain, AfterHTTP
  <2> QED BY <2>1, <2>2, <2>3, <2>4, <2>5, <2>6 DEF MainStep
<1>3. Drained'
  <2> USE DEF Drained, TypeInv, TypeOK
  <2>1. CASE Start BY <2>1 DEF Start, InitApp, StartServers
  <2>2. CASE StartFails BY <2>2 DEF StartFails
  <2>3. CASE Select BY <2>3 DEF Select
  <2>4. CASE StopTasks BY <2>4 DEF StopTasks
  <2>5. CASE CloseStores BY <2>5 DEF CloseStores
  <2>6. CASE Shutdown BY <2>6 DEF Shutdown, Shut, Drain, AfterHTTP, ActiveOn
  <2> QED BY <2>1, <2>2, <2>3, <2>4, <2>5, <2>6 DEF MainStep
<1> QED BY <1>1, <1>2, <1>3

\* The steps of the other goroutines and of the environment.
LEMMA OthersKeep ==
    LifecycleInv /\ (DeadlinePasses \/ Signal \/ (\E s \in Servers : Listen(s)) \/ JanitorStep)
        => LifecycleInv'
<1> USE DEF LifecycleInv, TypeInv, TypeOK, Order, Drained, MainLabels, Servers, serverVars,
            taskVars, Silent
<1>1. ASSUME LifecycleInv, DeadlinePasses PROVE LifecycleInv'
  BY <1>1 DEF DeadlinePasses
<1>2. ASSUME LifecycleInv, Signal PROVE LifecycleInv'
  BY <1>2 DEF Signal
<1>3. ASSUME LifecycleInv, NEW s \in Servers, Listen(s) PROVE LifecycleInv'
  <2>1. CASE s = "http" BY <1>3, <2>1 DEF Listen, Over
  <2>2. CASE s = "https" BY <1>3, <2>2 DEF Listen, Over
  <2> QED BY <2>1, <2>2
<1>4. ASSUME LifecycleInv, JanitorStep PROVE LifecycleInv'
  BY <1>4 DEF JanitorStep, JanitorTicks, Cleanup, JanitorEnds, Janitor
<1> QED BY <1>1, <1>2, <1>3, <1>4

\* The steps of the requests: what RequestKept says of the connections is enough.
LEMMA RequestsKeep ==
    ASSUME LifecycleInv, NEW r \in Requests, RequestStep(r)
    PROVE  LifecycleInv'
<1>1. RequestKept
  BY RequestKeeps DEF LifecycleInv
<1>2. TypeInv'
  BY <1>1 DEF LifecycleInv, TypeInv, TypeOK, RequestKept, Silent
<1>3. Order'
  BY <1>1 DEF LifecycleInv, Order, RequestKept
<1>4. Drained'
  BY <1>1 DEF LifecycleInv, Drained, RequestKept, Servers
<1> QED BY <1>2, <1>3, <1>4 DEF LifecycleInv

LEMMA Invariant == Spec => []LifecycleInv
<1>1. LifecycleInv /\ UNCHANGED vars => LifecycleInv'
  BY DEF LifecycleInv, TypeInv, TypeOK, Order, Drained, Silent, vars
<1>2. LifecycleInv /\ [Next]_vars => LifecycleInv'
  BY <1>1, MainKeeps, OthersKeep, RequestsKeep
     DEF Next, RequestStep, JanitorStep, Quiet
<1> QED BY InitInv, <1>2, PTL DEF Spec

\* Every variable keeps its type and errCh never blocks its sender: two messages at most.
THEOREM LifecycleTyped == Spec => []TypeOK
<1>1. LifecycleInv => TypeOK
  BY DEF LifecycleInv, TypeInv
<1> QED BY Invariant, <1>1, PTL

\* App.Close has cancelled the janitor before a clean-up can meet a closed database.
THEOREM JanitorSparedAlways == Spec => []JanitorSpared
<1>1. LifecycleInv => JanitorSpared
  BY DEF LifecycleInv, Order, JanitorSpared
<1> QED BY Invariant, <1>1, PTL

\* run returns in time only when no connection of either server waits for its answer,
\* although it drains one server after the other.
THEOREM Answered == Spec => []AnsweredBeforeExit
<1>1. LifecycleInv => AnsweredBeforeExit
  BY DEF LifecycleInv, Drained, AnsweredBeforeExit, Servers
<1> QED BY Invariant, <1>1, PTL
=============================================================================
