------------------------------- MODULE Chain -------------------------------
(***************************************************************************)
(* The way of a request through the middlewares that NewApp registers, and *)
(* through its handler up to the call of the service and back.             *)
(*                                                                         *)
(* What a limiter, Parse, IsRevoked or a service decides is any of its     *)
(* outcomes: RateLimit, Tokens, LoginLock and Users have the rest, and Hub *)
(* and Lifecycle the routes that stream.                                   *)
(*                                                                         *)
(* gin runs the handlers of a chain one after the other, as long as its    *)
(* index was not moved to the end by Abort.  gin-contrib/timeout runs what *)
(* is left of the chain in a goroutine of its own, which answers into a    *)
(* buffer.  That goroutine may outlive its request, and gin may then give  *)
(* the context it works on to another request.                             *)
(***************************************************************************)
EXTENDS Integers, Sequences

CONSTANT Requests

VARIABLES conf,  \* the configuration
          req,   \* the requests
          ctx    \* the gin.Context of each, named by the request it was made for

vars == <<conf, req, ctx>>

Routes == {"none", "preflight", "healthz", "login", "mobile", "refresh", "logout",
           "info", "users"}

\* main is where the goroutine of the server is, run where the one is that runs the
\* chain, index the handler it has got to.  out are the answers of the chain, wire the
\* ones the client got, log the lines that were logged.  mixed tells that another
\* goroutine holds the context too.  The rest is history: calls counts the calls of the
\* service, cut is where the deadline found the chain, late tells that the service was
\* called after that.
NoRequest == [route |-> "none", main |-> "off", run |-> "off", index |-> 0,
              aborted |-> FALSE, user |-> FALSE, mixed |-> FALSE, out |-> <<>>,
              wire |-> <<>>, log |-> <<>>, calls |-> 0, cut |-> "none", late |-> FALSE]

Init ==
    /\ conf \in [release : BOOLEAN, deadline : BOOLEAN]
    /\ req = [r \in Requests |-> NoRequest] /\ ctx = [r \in Requests |-> r]

-----------------------------------------------------------------------------
(* The chains.  The request id, HSTS and the access log decide nothing. *)

Limited == {"healthz", "login"}
Guarded == {"logout", "info", "users"}

\* Variant: a timeout is installed when there is none.
ChainSwapped(route) ==
    <<"cors", "limit">> \o (IF conf.deadline THEN <<>> ELSE <<"timeout">>) \o <<"handle">>
Chain(route) ==
    <<"cors", "limit">>
    \o (IF conf.deadline THEN <<"timeout">> ELSE <<>>)
    \o (IF route \in Limited THEN <<"limit">> ELSE <<>>)
    \o (IF route \in Guarded THEN <<"jwt", "csrf">> ELSE <<>>)
    \o <<"handle">>
Last(r) == Len(Chain(req[r].route))

Update(r, new) == ~req[r].mixed /\ req' = [req EXCEPT ![r] = new] /\ UNCHANGED <<conf, ctx>>

\* The requests whose goroutine is at work on the context c.
Holders(c) ==
    {q \in Requests : ctx[q] = c /\ req[q].run \in {"next", "handler", "service"}}

\* A request gets a new context, or one whose request was served.  If a goroutine still
\* holds that one, it may run handlers of the new request, answer it, or keep it from
\* running its own: such a request is followed no further.  And no other handler of
\* the request it was started for is run.
Arrive(r, route) ==
    /\ req[r].main = "off"
    /\ \E c \in {r} \cup {ctx[q] : q \in {q \in Requests : req[q].main # "off"}} :
          /\ \A q \in Requests \ {r} : ctx[q] = c => req[q].main = "done"
          /\ ctx' = [ctx EXCEPT ![r] = c]
          /\ req' = [q \in Requests |->
                       IF q = r
                       THEN [NoRequest EXCEPT !.route = route, !.main = "chain",
                                              !.run = "next", !.mixed = Holders(c) # {}]
                       ELSE IF q \in Holders(c) THEN [req[q] EXCEPT !.aborted = TRUE]
                       ELSE req[q]]
    /\ UNCHANGED conf

\* Variant: the end of the chain is missed.
StartNextAlways(r) ==
    /\ req[r].run = "next"
    /\ Update(r, [req[r] EXCEPT !.index = @ + 1, !.run = "handler"])
\* The next handler of the chain is run, or there is none.
StartNext(r) ==
    /\ req[r].run = "next"
    /\ IF ~req[r].aborted /\ req[r].index < Last(r)
       THEN Update(r, [req[r] EXCEPT !.index = @ + 1, !.run = "handler"])
       ELSE Update(r, [req[r] EXCEPT !.run = "returned"])

-----------------------------------------------------------------------------
(* The handlers. *)

Running(r, name) == req[r].run = "handler" /\ Chain(req[r].route)[req[r].index] = name

Pass(r) == Update(r, [req[r] EXCEPT !.run = "next"])

\* WriteErr and WriteOK write an answer, and leave it to the caller to end the chain.
Answered(r, answer) == [req[r] EXCEPT !.run = "next", !.out = Append(@, answer)]
Answer(r, answer) == Update(r, Answered(r, answer))

\* Variant: the chain goes on.
RefuseOnly(r, answer) == Answer(r, answer)
Refuse(r, answer) == Update(r, [Answered(r, answer) EXCEPT !.aborted = TRUE])

CORS(r) ==
    /\ Running(r, "cors")
    /\ \/ req[r].route = "preflight" /\ Refuse(r, "preflight")
       \/ req[r].route # "preflight" /\ Pass(r)

\* A limiter whose Redis fails lets the request pass.
RateLimiter(r) == Running(r, "limit") /\ (Pass(r) \/ Refuse(r, "limited"))

\* The server's goroutine waits from now on, and another one runs the chain.
Timeout(r) ==
    /\ Running(r, "timeout")
    /\ Update(r, [req[r] EXCEPT !.main = "select", !.run = "next"])

\* Without a token the request passes; a token that does not parse, is none for access
\* or is revoked is refused.  Of the handlers here info alone reads whom it is for.
JWT(r) ==
    /\ Running(r, "jwt")
    /\ \/ Pass(r)
       \/ Refuse(r, "badToken")
       \/ Update(r, [req[r] EXCEPT !.run = "next", !.user = (req[r].route = "info")])

\* Variant: the answer is written, and the request passes.
CSRFPasses(r) == Running(r, "csrf") /\ (Pass(r) \/ Answer(r, "csrf"))
\* Methods that change nothing, and logout, pass.
CSRF(r) ==
    /\ Running(r, "csrf")
    /\ Pass(r) \/ (req[r].route = "users" /\ Refuse(r, "csrf"))

At(r, route) == Running(r, "handle") /\ req[r].route = route

Serve(r) == Update(r, [req[r] EXCEPT !.run = "service", !.calls = @ + 1,
                                     !.late = req[r].main = "done"])

\* Bind: a form that breaks a rule ends the request.
Bind(r) == Answer(r, "invalid")

NoRoute(r) == At(r, "none") /\ Answer(r, "notFound")
Health(r) == At(r, "healthz") /\ Answer(r, "ok")
Login(r) == At(r, "login") /\ (Bind(r) \/ Serve(r))
LoginByMobile(r) == At(r, "mobile") /\ (Bind(r) \/ Answer(r, "unimplemented"))
Refresh(r) == At(r, "refresh") /\ (Bind(r) \/ Serve(r))
\* A form that breaks a rule counts as none.
Logout(r) == At(r, "logout") /\ Serve(r)

Info(r) ==
    /\ At(r, "info")
    /\ \/ req[r].user /\ Serve(r)
       \/ ~req[r].user /\ Answer(r, "unauthorized")

\* The other routes of the users ask for no token; a listing has no form.
Users(r) == At(r, "users") /\ (Bind(r) \/ Serve(r))

\* The service returns, and the handler answers; or it panics.
ServiceReturns(r) ==
    /\ req[r].run = "service"
    /\ Answer(r, "ok") \/ Answer(r, "failed") \/ Update(r, [req[r] EXCEPT !.run = "panicked"])

-----------------------------------------------------------------------------
(* How a request ends. *)

Serving(r) == req[r].main \in {"chain", "select"}

\* The client gets the answers in out, and the access log its line.
Finish(r) ==
    /\ Serving(r) /\ req[r].run = "returned"
    /\ Update(r, [req[r] EXCEPT !.main = "done", !.wire = req[r].out, !.log = <<"http">>])

\* A panic ends the access log without a line.  In debug mode the timeout answers by
\* itself; otherwise it panics again, and Recovery logs and answers.
Recover(r) ==
    /\ Serving(r) /\ req[r].run = "panicked"
    /\ LET caught == req[r].main = "select" /\ ~conf.release
       IN  Update(r, [req[r] EXCEPT !.main = "done", !.wire = <<"panic">>,
                                    !.log = <<IF caught THEN "http" ELSE "panic">>])

\* Where the deadline finds the chain.
Place(r) ==
    IF req[r].run = "handler"
    THEN IF req[r].index = Last(r) THEN "handle" ELSE "middleware"
    ELSE req[r].run

\* The deadline passes.  From now on what the other goroutine answers is dropped, and
\* a panic of its is lost.  Abort and the step to the next handler both write the
\* index, without a lock, and either write may be the last.
TimesOut(r) ==
    /\ req[r].main = "select"
    /\ \E aborted \in {TRUE, req[r].run # "next"} :
          Update(r, [req[r] EXCEPT !.main = "done", !.wire = <<"timeout">>,
                                   !.log = <<"http">>, !.cut = Place(r),
                                   !.aborted = @ \/ aborted])

\* A request that shared its context: its answer is sent, and its goroutine ends.
MixedEnds(r) ==
    /\ req[r].mixed /\ req[r].run = "next"
    /\ req' = [req EXCEPT ![r].main = "done",
                          ![r].run = IF req[r].main = "chain" THEN "next" ELSE "returned"]
    /\ UNCHANGED <<conf, ctx>>

Quiet == (\A r \in Requests : req[r].main = "done") /\ UNCHANGED vars

Middleware(r) == CORS(r) \/ RateLimiter(r) \/ Timeout(r) \/ JWT(r) \/ CSRF(r)
Handler(r) ==
    \/ NoRoute(r) \/ Health(r) \/ Login(r) \/ LoginByMobile(r) \/ Refresh(r) \/ Logout(r)
    \/ Info(r) \/ Users(r) \/ ServiceReturns(r)
End(r) == Finish(r) \/ Recover(r) \/ TimesOut(r)

Next ==
    \/ \E r \in Requests :
          \/ \E route \in Routes : Arrive(r, route)
          \/ StartNext(r) \/ Middleware(r) \/ Handler(r) \/ End(r) \/ MixedEnds(r)
    \/ Quiet

Spec == Init /\ [][Next]_vars

\* The server's goroutine goes on, the clock reaches the deadline, and a limiter gives
\* up a Redis that does not answer.  No service has to return.
ServerStep(r) ==
    \/ req[r].main = "chain" /\ (StartNext(r) \/ Middleware(r))
    \/ End(r)
FairSpec == Spec /\ \A r \in Requests : WF_vars(ServerStep(r))

-----------------------------------------------------------------------------
(* Properties. *)

\* The answers of the chain and of handlers that call no service.
Refusals == {"preflight", "limited", "badToken", "csrf", "notFound", "unauthorized",
             "invalid", "unimplemented"}
Answers == Refusals \cup {"ok", "failed", "panic", "timeout"}
RequestStates ==
    [route : Routes, main : {"off", "chain", "select", "done"},
     run : {"off", "next", "handler", "service", "returned", "panicked"}, index : Nat,
     aborted : BOOLEAN, user : BOOLEAN, mixed : BOOLEAN, out : Seq(Answers),
     wire : Seq(Answers), log : Seq({"http", "panic"}), calls : Nat,
     cut : {"none", "next", "middleware", "handle", "service", "returned", "panicked"},
     late : BOOLEAN]

\* Every variable has its type, and no index is past the end of its chain.
TypeOK ==
    /\ conf \in [release : BOOLEAN, deadline : BOOLEAN]
    /\ req \in [Requests -> RequestStates] /\ ctx \in [Requests -> Requests]
    /\ \A r \in Requests : req[r].index \in 0..Last(r)

Followed == {r \in Requests : ~req[r].mixed}

\* A request is answered once and leaves one line in the log, whatever the middlewares,
\* the handler, a panic and the deadline do at the same time (WriteErr does not
\* end the chain, and the chain may go on after the deadline).  It holds for requests
\* whose context no goroutine of an earlier one still works on.
AnsweredOnce ==
    \A r \in Followed :
        /\ Len(req[r].wire) <= 1
        /\ req[r].main = "done" => Len(req[r].wire) = 1 /\ Len(req[r].log) = 1

\* A request has the effect its answer tells of: a refused one has not reached a
\* service; no service is called twice; and after a 504 only one whose handler was
\* running, or whose goroutine was just passing from one handler to the next.
EffectsEarned ==
    \A r \in Followed :
        /\ req[r].calls <= 1
        /\ req[r].wire # <<>> /\ req[r].wire[1] \in Refusals => req[r].calls = 0
        /\ req[r].late => req[r].cut \in {"handle", "next"}

\* Where there is a deadline, every request is answered, even if its service never
\* returns (Timeout).
AnsweredInTime ==
    \A r \in Requests :
        (conf.deadline /\ Serving(r) /\ ~req[r].mixed) ~> req[r].main = "done"
=============================================================================
