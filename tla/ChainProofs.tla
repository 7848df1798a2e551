---------------------------- MODULE ChainProofs ----------------------------
(***************************************************************************)
(* Proofs about Chain, for any number of requests: every request is        *)
(* answered once, and has no effect that its answer does not tell of.      *)
(***************************************************************************)
EXTENDS Chain, SequenceTheorems, TLAPS

\* What holds of a request x that is followed, whose chain has last handlers.

\* The client and the log get one entry each, at the end; a refusal is the answer of a
\* chain that has come to its end without calling the service.
Closed(x) ==
    /\ x.main # "done" => x.wire = <<>> /\ x.log = <<>> /\ ~x.late /\ x.cut = "none"
    /\ x.main = "done" => Len(x.wire) = 1 /\ Len(x.log) = 1
    /\ x.wire # <<>> =>
          \/ x.wire[1] \in {"panic", "timeout"}
          \/ x.run = "returned" /\ (x.wire[1] \in Refusals => x.calls = 0)

\* Whoever answers ends the chain, because it aborts or because it is the last.
Chaining(x, last) ==
    /\ x.main = "off" <=> x.run = "off"
    /\ x.calls \in {0, 1} /\ Len(x.out) \in {0, 1}
    /\ x.out # <<>> /\ x.out[1] \in Refusals => x.calls = 0
    /\ x.run = "next" =>
          \/ x.out = <<>> /\ x.calls = 0
          \/ x.out # <<>> /\ (x.aborted \/ x.index = last)
    /\ x.run = "handler" => x.out = <<>> /\ x.calls = 0 /\ x.index >= 1
    /\ x.run = "service" => x.out = <<>> /\ x.calls = 1 /\ x.index = last

\* Before the deadline only an answer ends the chain.
Unspoiled(x, last) ==
    x.main \in {"chain", "select"} =>
        /\ x.run = "next" /\ x.out = <<>> => ~x.aborted /\ x.index < last
        /\ x.run = "handler" => ~x.aborted
        /\ x.run = "returned" => x.out # <<>>

\* The timeout is behind the goroutine that runs the rest of the chain, and whether
\* that one may still come to the service depends on where the deadline found it.
Cut(x, last) ==
    /\ x.main \in {"select", "done"} /\ x.run = "next" => x.index >= 3
    /\ x.main \in {"select", "done"} /\ x.run = "handler" => x.index > 3
    /\ x.main = "done" /\ x.run = "handler" =>
          x.cut \in {"next", "handle"} \/ (x.cut = "middleware" /\ x.index < last /\ x.aborted)
    /\ x.main = "done" /\ x.run = "service" => x.cut \in {"next", "handle", "service"}
    /\ x.main = "done" /\ x.run = "next" =>
          \/ x.cut \in {"next", "handle"}
          \/ x.cut = "middleware" /\ x.aborted
          \/ x.cut = "service" /\ x.index = last
    /\ x.late => x.cut \in {"next", "handle"}

Good(x, last) == Closed(x) /\ Chaining(x, last) /\ Unspoiled(x, last) /\ Cut(x, last)

\* The inductive invariant.
ChainInv == TypeOK /\ \A r \in Followed : Good(req[r], Last(r))

-----------------------------------------------------------------------------
(* The chains. *)

Confs == [release : BOOLEAN, deadline : BOOLEAN]
\* The handler comes last, and the timeout third, where there is one.
Shape(chain) ==
    /\ Len(chain) \in 3..6 /\ (conf.deadline => Len(chain) > 3)
    /\ \A i \in 1..Len(chain) : chain[i] = "handle" <=> i = Len(chain)
    /\ \A i \in 1..Len(chain) : chain[i] = "timeout" <=> conf.deadline /\ i = 3

\* The chains there are, of a route that has a limiter of its own, a token or neither.
LEMMA Shapes ==
  ASSUME NEW s, NEW d \in BOOLEAN,
         \/ d /\ s = <<"cors", "limit">> \o <<"timeout">> \o <<"limit">> \o <<>> \o <<"handle">>
         \/ d /\ s = <<"cors", "limit">> \o <<"timeout">> \o <<>> \o <<"jwt", "csrf">> \o <<"handle">>
         \/ d /\ s = <<"cors", "limit">> \o <<"timeout">> \o <<>> \o <<>> \o <<"handle">>
         \/ ~d /\ s = <<"cors", "limit">> \o <<>> \o <<"limit">> \o <<>> \o <<"handle">>
         \/ ~d /\ s = <<"cors", "limit">> \o <<>> \o <<>> \o <<"jwt", "csrf">> \o <<"handle">>
         \/ ~d /\ s = <<"cors", "limit">> \o <<>> \o <<>> \o <<>> \o <<"handle">>
  PROVE  /\ Len(s) \in 3..6 /\ (d => Len(s) > 3)
         /\ \A i \in 1..Len(s) : (s[i] = "handle" <=> i = Len(s)) /\ (s[i] = "timeout" <=> d /\ i = 3)
<1>1. CASE d /\ s = <<"cors", "limit">> \o <<"timeout">> \o <<"limit">> \o <<>> \o <<"handle">>
  BY <1>1
<1>2. CASE d /\ s = <<"cors", "limit">> \o <<"timeout">> \o <<>> \o <<"jwt", "csrf">> \o <<"handle">>
  BY <1>2
<1>3. CASE d /\ s = <<"cors", "limit">> \o <<"timeout">> \o <<>> \o <<>> \o <<"handle">>
  BY <1>3
<1>4. CASE ~d /\ s = <<"cors", "limit">> \o <<>> \o <<"limit">> \o <<>> \o <<"handle">>
  BY <1>4
<1>5. CASE ~d /\ s = <<"cors", "limit">> \o <<>> \o <<>> \o <<"jwt", "csrf">> \o <<"handle">>
  BY <1>5
<1>6. CASE ~d /\ s = <<"cors", "limit">> \o <<>> \o <<>> \o <<>> \o <<"handle">>
  BY <1>6
<1> QED BY <1>1, <1>2, <1>3, <1>4, <1>5, <1>6

\* Every chain that is installed has that shape.
LEMMA ChainShape ==
  ASSUME conf \in Confs, NEW route
  PROVE  Shape(Chain(route))
<1>1. PICK s : s = Chain(route)
  OBVIOUS
<1>2. PICK d \in BOOLEAN : d = conf.deadline
  BY DEF Confs
<1>3. \/ d /\ s = <<"cors", "limit">> \o <<"timeout">> \o <<"limit">> \o <<>> \o <<"handle">>
      \/ d /\ s = <<"cors", "limit">> \o <<"timeout">> \o <<>> \o <<"jwt", "csrf">> \o <<"handle">>
      \/ d /\ s = <<"cors", "limit">> \o <<"timeout">> \o <<>> \o <<>> \o <<"handle">>
      \/ ~d /\ s = <<"cors", "limit">> \o <<>> \o <<"limit">> \o <<>> \o <<"handle">>
      \/ ~d /\ s = <<"cors", "limit">> \o <<>> \o <<>> \o <<"jwt", "csrf">> \o <<"handle">>
      \/ ~d /\ s = <<"cors", "limit">> \o <<>> \o <<>> \o <<>> \o <<"handle">>
  <2>1. \/ d /\ (IF conf.deadline THEN <<"timeout">> ELSE <<>>) = <<"timeout">>
        \/ ~d /\ (IF conf.deadline THEN <<"timeout">> ELSE <<>>) = <<>>
    BY <1>2
  <2>2. CASE route \in Limited
    <3>1. route \notin Guarded
      BY <2>2 DEF Limited, Guarded
    <3>2. /\ (IF route \in Limited THEN <<"limit">> ELSE <<>>) = <<"limit">>
          /\ (IF route \in Guarded THEN <<"jwt", "csrf">> ELSE <<>>) = <<>>
      BY <2>2, <3>1
    <3> QED BY <1>1, <2>1, <3>2, Zenon DEF Chain
  <2>3. CASE route \notin Limited /\ route \in Guarded
    <3>2. /\ (IF route \in Limited THEN <<"limit">> ELSE <<>>) = <<>>
          /\ (IF route \in Guarded THEN <<"jwt", "csrf">> ELSE <<>>) = <<"jwt", "csrf">>
      BY <2>3
    <3> QED BY <1>1, <2>1, <3>2, Zenon DEF Chain
  <2>4. CASE route \notin Limited /\ route \notin Guarded
    <3>2. /\ (IF route \in Limited THEN <<"limit">> ELSE <<>>) = <<>>
          /\ (IF route \in Guarded THEN <<"jwt", "csrf">> ELSE <<>>) = <<>>
      BY <2>4
    <3> QED BY <1>1, <2>1, <3>2, Zenon DEF Chain
  <2> QED BY <2>2, <2>3, <2>4
<1> QED BY <1>1, <1>2, <1>3, Shapes DEF Shape

LEMMA LastShape ==
  ASSUME TypeOK, NEW r \in Requests
  PROVE  /\ Last(r) \in 3..6 /\ Shape(Chain(req[r].route))
         /\ \A i \in 1..Last(r) : \A name : Chain(req[r].route)[i] = name =>
               /\ name = "handle" <=> i = Last(r)
               /\ name = "timeout" => i = 3
<1>1. Shape(Chain(req[r].route))
  BY ChainShape DEF TypeOK, Confs
<1> QED BY <1>1 DEF Shape, Last

-----------------------------------------------------------------------------
(* What the steps do to a request. *)

\* A step that turns a request into a good one keeps the invariant.
LEMMA Kept ==
  ASSUME ChainInv, NEW r \in Requests, NEW new \in RequestStates, Update(r, new),
         new.route = req[r].route, new.index \in 0..Last(r), Good(new, Last(r))
  PROVE  ChainInv'
<1> DEFINE x == req[r]
<1>1. conf' = conf /\ ctx' = ctx /\ req' = [req EXCEPT ![r] = new]
  BY DEF Update
<1>2. req \in [Requests -> RequestStates]
  BY DEF ChainInv, TypeOK
<1>3. req' \in [Requests -> RequestStates]
  BY <1>1, <1>2
<1>4. \A q \in Requests : Last(q)' = Last(q)
  <2> SUFFICES ASSUME NEW q \in Requests PROVE Last(q)' = Last(q)
    OBVIOUS
  <2>1. req'[q].route = req[q].route
    BY <1>1, <1>2
  <2> QED BY <2>1, <1>1 DEF Last, Chain
<1>5. TypeOK'
  <2>1. conf' \in [release : BOOLEAN, deadline : BOOLEAN] /\ ctx' \in [Requests -> Requests]
    BY <1>1 DEF ChainInv, TypeOK
  <2>2. ASSUME NEW q \in Requests PROVE req'[q].index \in 0..Last(q)'
    BY <1>1, <1>2, <1>4 DEF ChainInv, TypeOK
  <2> QED BY <2>1, <2>2, <1>3 DEF TypeOK
<1>6. ASSUME NEW q \in Requests, ~req'[q].mixed PROVE Good(req'[q], Last(q)')
  <2>1. CASE q = r
    BY <2>1, <1>1, <1>2, <1>4
  <2>2. CASE q # r
    <3>1. req'[q] = req[q]
      BY <2>2, <1>1, <1>2
    <3>2. q \in Followed
      BY <3>1, <1>6 DEF Followed
    <3> QED BY <3>1, <3>2, <1>4 DEF ChainInv
  <2> QED BY <2>1, <2>2
<1> QED BY <1>5, <1>6 DEF ChainInv, Followed

\* One answer to a request that has none.
LEMMA FirstAnswer ==
  ASSUME NEW out \in Seq(Answers), NEW answer \in Answers, out = <<>>
  PROVE  /\ Append(out, answer) \in Seq(Answers) /\ Len(Append(out, answer)) = 1
         /\ Append(out, answer)[1] = answer /\ Append(out, answer) # <<>>
OBVIOUS

\* What the invariant says of a request that is followed.
LEMMA Held ==
  ASSUME ChainInv, NEW r \in Requests, ~req[r].mixed
  PROVE  /\ req[r] \in RequestStates /\ Last(r) \in 3..6 /\ req[r].index \in 0..Last(r)
         /\ Good(req[r], Last(r))
BY LastShape DEF ChainInv, Followed, TypeOK

LEMMA StartNextKeeps == ASSUME ChainInv, NEW r \in Requests, StartNext(r) PROVE ChainInv'
<1>1. PICK x \in RequestStates : x = req[r] /\ ~x.mixed /\ x.run = "next"
  BY DEF StartNext, Update, ChainInv, TypeOK
<1>2. PICK last \in 3..6 : last = Last(r) /\ x.index \in 0..last /\ Good(x, last)
  BY <1>1, Held
<1>3. CASE ~x.aborted /\ x.index < last
  <2>0. PICK i \in Nat : i \in 1..last /\ i = x.index + 1
    BY <1>2, <1>3
  <2>1. PICK new : new = [x EXCEPT !.index = i, !.run = "handler"]
    OBVIOUS
  <2>2. Update(r, new)
    BY <1>1, <1>2, <1>3, <2>0, <2>1 DEF StartNext
  <2>3. new \in RequestStates /\ new.route = x.route /\ new.index \in 0..last
    <3>1. new \in RequestStates
      BY <2>1 DEF RequestStates
    <3>2. new.route = x.route /\ new.index = i
      BY <2>1 DEF RequestStates
    <3> QED BY <2>0, <3>1, <3>2
  <2>4. Good(new, last)
    BY <2>0, <2>1, <1>1, <1>2, <1>3 DEF Good, Closed, Chaining, Unspoiled, Cut, RequestStates
  <2> QED BY <2>2, <2>3, <2>4, <1>1, <1>2, Kept
<1>4. CASE ~(~x.aborted /\ x.index < last)
  <2>1. PICK new : new = [x EXCEPT !.run = "returned"]
    OBVIOUS
  <2>2. Update(r, new)
    BY <1>1, <1>2, <1>4, <2>1 DEF StartNext
  <2>3. new \in RequestStates /\ new.route = x.route /\ new.index \in 0..last
    BY <2>1, <1>2 DEF RequestStates
  <2>4. Good(new, last)
    BY <2>1, <1>1, <1>2, <1>4 DEF Good, Closed, Chaining, Unspoiled, Cut, RequestStates
  <2> QED BY <2>2, <2>3, <2>4, <1>1, <1>2, Kept
<1> QED BY <1>3, <1>4

\* The ways a handler ends.
LEMMA PassKeeps ==
  ASSUME ChainInv, NEW r \in Requests, req[r].run = "handler", req[r].index # Last(r),
         NEW user \in BOOLEAN, Update(r, [req[r] EXCEPT !.run = "next", !.user = user])
  PROVE  ChainInv'
<1>1. PICK x \in RequestStates : x = req[r] /\ ~x.mixed /\ x.run = "handler"
  BY DEF Update, ChainInv, TypeOK
<1>2. PICK last \in 3..6 : last = Last(r) /\ x.index \in 0..last /\ Good(x, last)
  BY <1>1, Held
<1>3. PICK new : new = [x EXCEPT !.run = "next", !.user = user]
  OBVIOUS
<1>4. new \in RequestStates /\ new.route = x.route /\ new.index \in 0..last
  BY <1>3, <1>2 DEF RequestStates
<1>5. Good(new, last)
  BY <1>1, <1>2, <1>3 DEF Good, Closed, Chaining, Unspoiled, Cut, RequestStates
<1> QED BY <1>1, <1>2, <1>3, <1>4, <1>5, Kept

LEMMA AnswerKeeps ==
  ASSUME ChainInv, NEW r \in Requests, NEW answer \in Answers, Answer(r, answer),
         req[r].index = Last(r), req[r].run \in {"handler", "service"},
         answer \in Refusals => req[r].run = "handler"
  PROVE  ChainInv'
<1>1. PICK x \in RequestStates : x = req[r] /\ ~x.mixed
  BY DEF Answer, Update, ChainInv, TypeOK
<1>2. PICK last \in 3..6 : last = Last(r) /\ x.index = last /\ Good(x, last)
  BY <1>1, Held
<1>3. PICK out \in Seq(Answers) : /\ out = Append(x.out, answer)
                                  /\ Len(out) = 1 /\ out[1] = answer /\ out # <<>>
  <2>1. x.out \in Seq(Answers) /\ x.out = <<>>
    BY <1>1, <1>2 DEF Good, Chaining, RequestStates
  <2> QED BY <2>1, FirstAnswer
<1>4. PICK new : new = [x EXCEPT !.run = "next", !.out = out]
  OBVIOUS
<1>5. Update(r, new)
  BY <1>1, <1>3, <1>4 DEF Answer, Answered
<1>6. new \in RequestStates /\ new.route = x.route /\ new.index = last
  BY <1>4, <1>2 DEF RequestStates
<1>7. Good(new, last)
  <2>1. CASE x.run = "handler"
    BY <2>1, <1>1, <1>2, <1>3, <1>4 DEF Good, Closed, Chaining, Unspoiled, Cut, RequestStates
  <2>2. CASE x.run = "service"
    <3>1. Closed(new)
      BY <2>2, <1>2, <1>4 DEF Good, Closed, RequestStates
    <3>2. Chaining(new, last)
      BY <2>2, <1>1, <1>2, <1>3, <1>4 DEF Good, Chaining, RequestStates
    <3>3. Unspoiled(new, last)
      BY <1>3, <1>4 DEF Unspoiled, RequestStates
    <3>4. Cut(new, last)
      BY <2>2, <1>2, <1>4 DEF Good, Cut, RequestStates
    <3> QED BY <3>1, <3>2, <3>3, <3>4 DEF Good
  <2> QED BY <2>1, <2>2, <1>1
<1> QED BY <1>1, <1>2, <1>5, <1>6, <1>7, Kept

LEMMA RefuseKeeps ==
  ASSUME ChainInv, NEW r \in Requests, NEW answer \in Refusals, Refuse(r, answer),
         req[r].run = "handler"
  PROVE  ChainInv'
<1>1. PICK x \in RequestStates : x = req[r] /\ ~x.mixed /\ x.run = "handler"
  BY DEF Refuse, Update, ChainInv, TypeOK
<1>2. PICK last \in 3..6 : last = Last(r) /\ x.index \in 0..last /\ Good(x, last)
  BY <1>1, Held
<1>3. PICK out \in Seq(Answers) : /\ out = Append(x.out, answer)
                                  /\ Len(out) = 1 /\ out[1] = answer /\ out # <<>>
  <2>1. x.out \in Seq(Answers) /\ x.out = <<>> /\ answer \in Answers
    BY <1>1, <1>2 DEF Good, Chaining, RequestStates, Answers
  <2> QED BY <2>1, FirstAnswer
<1>4. PICK new : new = [x EXCEPT !.run = "next", !.out = out, !.aborted = TRUE]
  OBVIOUS
<1>5. Update(r, new)
  <2>1. [Answered(r, answer) EXCEPT !.aborted = TRUE] = new
    BY <1>1, <1>3, <1>4 DEF Answered, RequestStates
  <2> QED BY <2>1 DEF Refuse
<1>6. new \in RequestStates /\ new.route = x.route /\ new.index \in 0..last
  BY <1>4, <1>2 DEF RequestStates
<1>7. Good(new, last)
  BY <1>1, <1>2, <1>3, <1>4 DEF Good, Closed, Chaining, Unspoiled, Cut, RequestStates
<1> QED BY <1>1, <1>2, <1>5, <1>6, <1>7, Kept

LEMMA ServeKeeps ==
  ASSUME ChainInv, NEW r \in Requests, Serve(r), req[r].run = "handler",
         req[r].index = Last(r)
  PROVE  ChainInv'
<1>1. PICK x \in RequestStates : x = req[r] /\ ~x.mixed /\ x.run = "handler"
  BY DEF Serve, Update, ChainInv, TypeOK
<1>2. PICK last \in 3..6 : last = Last(r) /\ x.index = last /\ Good(x, last)
  BY <1>1, Held
<1>0. PICK late \in BOOLEAN : late = (x.main = "done")
  OBVIOUS
<1>3. PICK new : new = [x EXCEPT !.run = "service", !.calls = 1, !.late = late]
  OBVIOUS
<1>4. Update(r, new)
  <2>1. x.calls + 1 = 1
    BY <1>1, <1>2 DEF Good, Chaining
  <2> QED BY <1>0, <1>1, <1>3, <2>1 DEF Serve
<1>5. new \in RequestStates /\ new.route = x.route /\ new.index = last
  BY <1>3, <1>2 DEF RequestStates
<1>6. Good(new, last)
  BY <1>0, <1>1, <1>2, <1>3 DEF Good, Closed, Chaining, Unspoiled, Cut, RequestStates
<1> QED BY <1>1, <1>2, <1>4, <1>5, <1>6, Kept

LEMMA MiddlewareKeeps == ASSUME ChainInv, NEW r \in Requests, Middleware(r) PROVE ChainInv'
<1>1. /\ \A i \in 1..Last(r) : \A name : Chain(req[r].route)[i] = name =>
               /\ name = "handle" <=> i = Last(r)
               /\ name = "timeout" => i = 3
      /\ req[r] \in RequestStates
  BY LastShape DEF ChainInv, TypeOK
<1>2. PICK name : Running(r, name) /\ name \in {"cors", "limit", "timeout", "jwt", "csrf"}
  BY DEF Middleware, CORS, RateLimiter, Timeout, JWT, CSRF
<1>3. ~req[r].mixed
  BY DEF Middleware, CORS, RateLimiter, Timeout, JWT, CSRF, Pass, Refuse, Update
<1>4. req[r].run = "handler" /\ req[r].index \in 1..Last(r)
  BY <1>2, <1>3, Held DEF Running, Good, Chaining
<1>5. req[r].index # Last(r)
  BY <1>1, <1>2, <1>4 DEF Running
<1>6. ASSUME Pass(r) PROVE ChainInv'
  <2>1. [req[r] EXCEPT !.run = "next"] = [req[r] EXCEPT !.run = "next", !.user = req[r].user]
    BY <1>1 DEF RequestStates
  <2>2. req[r].user \in BOOLEAN
    BY <1>1 DEF RequestStates
  <2> QED BY <2>1, <2>2, <1>4, <1>5, <1>6, PassKeeps DEF Pass
<1>7. CASE CORS(r)
  BY <1>7, <1>4, <1>6, RefuseKeeps DEF CORS, Refusals
<1>8. CASE RateLimiter(r)
  BY <1>8, <1>4, <1>6, RefuseKeeps DEF RateLimiter, Refusals
<1>9. CASE JWT(r)
  <2>1. PICK user \in BOOLEAN : user = (req[r].route = "info")
    OBVIOUS
  <2>2. CASE Update(r, [req[r] EXCEPT !.run = "next", !.user = user])
    BY <2>2, <1>4, <1>5, PassKeeps
  <2>3. CASE Pass(r) \/ Refuse(r, "badToken")
    BY <2>3, <1>4, <1>6, RefuseKeeps DEF Refusals
  <2> QED BY <1>9, <2>1, <2>2, <2>3 DEF JWT
<1>10. CASE CSRF(r)
  BY <1>10, <1>4, <1>6, RefuseKeeps DEF CSRF, Refusals
<1>11. CASE Timeout(r)
  <2>1. PICK x \in RequestStates : x = req[r] /\ x.run = "handler"
    BY <1>1, <1>4
  <2>2. PICK last \in 3..6 : last = Last(r) /\ Good(x, last)
    BY <2>1, <1>3, Held
  <2>3. x.index = 3 /\ 3 < last
    BY <1>11, <2>1, <2>2, <1>1, <1>4, <1>5 DEF Timeout, Running
  <2>4. PICK new : new = [x EXCEPT !.main = "select", !.run = "next"]
    OBVIOUS
  <2>5. Update(r, new)
    BY <1>11, <2>1, <2>4 DEF Timeout
  <2>6. new \in RequestStates /\ new.route = x.route /\ new.index = 3
    BY <2>3, <2>4 DEF RequestStates
  <2>7. Good(new, last)
    BY <2>1, <2>2, <2>3, <2>4 DEF Good, Closed, Chaining, Unspoiled, Cut, RequestStates
  <2> QED BY <2>1, <2>2, <2>5, <2>6, <2>7, Kept
<1> QED BY <1>7, <1>8, <1>9, <1>10, <1>11 DEF Middleware

LEMMA HandlerKeeps == ASSUME ChainInv, NEW r \in Requests, Handler(r) PROVE ChainInv'
<1>1. ~req[r].mixed
  BY DEF Handler, NoRoute, Health, Login, LoginByMobile, Refresh, Logout, Info, Users,
         ServiceReturns, Bind, Serve, Answer, Update
<1>2. CASE ServiceReturns(r)
  <2>1. PICK x \in RequestStates : x = req[r] /\ x.run = "service"
    BY <1>2 DEF ServiceReturns, ChainInv, TypeOK
  <2>2. PICK last \in 3..6 : last = Last(r) /\ x.index = last /\ Good(x, last)
    BY <2>1, <1>1, Held DEF Good, Chaining
  <2>3. CASE Answer(r, "ok") \/ Answer(r, "failed")
    BY <2>1, <2>2, <2>3, AnswerKeeps DEF Answers, Refusals
  <2>4. CASE Update(r, [req[r] EXCEPT !.run = "panicked"])
    <3>1. PICK new : new = [x EXCEPT !.run = "panicked"]
      OBVIOUS
    <3>2. new \in RequestStates /\ new.route = x.route /\ new.index = last
      BY <2>2, <3>1 DEF RequestStates
    <3>3. Good(new, last)
      BY <2>1, <2>2, <3>1 DEF Good, Closed, Chaining, Unspoiled, Cut, RequestStates
    <3>4. Update(r, new)
      BY <2>1, <2>4, <3>1
    <3> QED BY <2>1, <2>2, <3>2, <3>3, <3>4, Kept
  <2> QED BY <1>2, <2>3, <2>4 DEF ServiceReturns
<1>3. CASE Running(r, "handle")
  <2>1. req[r].run = "handler" /\ req[r].index \in 1..Last(r)
    BY <1>1, <1>3, Held DEF Running, Good, Chaining
  <2>2. req[r].index = Last(r)
    BY <1>3, <2>1, LastShape DEF Running, ChainInv
  <2>3. ASSUME NEW answer \in Refusals \cup {"ok"}, Answer(r, answer) PROVE ChainInv'
    BY <2>1, <2>2, <2>3, AnswerKeeps DEF Answers
  <2>4. ASSUME Serve(r) PROVE ChainInv'
    BY <2>1, <2>2, <2>4, ServeKeeps
  <2>5. Serve(r) \/ \E answer \in Refusals \cup {"ok"} : Answer(r, answer)
    <3>1. ~ServiceReturns(r)
      BY <2>1 DEF ServiceReturns
    <3> QED BY <3>1 DEF Handler, NoRoute, Health, Login, LoginByMobile, Refresh, Logout,
                        Info, Users, Bind, Refusals
  <2> QED BY <2>3, <2>4, <2>5
<1> QED BY <1>2, <1>3 DEF Handler, NoRoute, Health, Login, LoginByMobile, Refresh, Logout,
                          Info, Users, At

LEMMA OneLine ==
  ASSUME NEW line \in {"http", "panic"}
  PROVE  <<line>> \in Seq({"http", "panic"}) /\ Len(<<line>>) = 1
OBVIOUS

LEMMA OneAnswer ==
  ASSUME NEW answer \in Answers
  PROVE  <<answer>> \in Seq(Answers) /\ Len(<<answer>>) = 1 /\ <<answer>>[1] = answer
OBVIOUS

LEMMA EndKeeps == ASSUME ChainInv, NEW r \in Requests, End(r) PROVE ChainInv'
<1>1. PICK x \in RequestStates : x = req[r] /\ ~x.mixed
  BY DEF End, Finish, Recover, TimesOut, Update, ChainInv, TypeOK
<1>2. PICK last \in 3..6 : last = Last(r) /\ x.index \in 0..last /\ Good(x, last)
  BY <1>1, Held
<1>4. CASE Finish(r)
  <2>1. x.main \in {"chain", "select"} /\ x.run = "returned"
    BY <1>1, <1>4 DEF Finish, Serving
  <2>2. Len(x.out) = 1 /\ x.out # <<>> /\ x.out \in Seq(Answers)
    BY <1>2, <2>1 DEF Good, Chaining, Unspoiled, RequestStates
  <2>3. PICK log \in Seq({"http", "panic"}) : log = <<"http">> /\ Len(log) = 1
    BY OneLine
  <2>4. PICK new : new = [x EXCEPT !.main = "done", !.wire = x.out, !.log = log]
    OBVIOUS
  <2>5. Update(r, new)
    BY <1>1, <1>4, <2>3, <2>4 DEF Finish
  <2>6. new \in RequestStates /\ new.route = x.route /\ new.index \in 0..last
    BY <1>2, <2>2, <2>4 DEF RequestStates
  <2>7. Good(new, last)
    BY <1>1, <1>2, <2>1, <2>2, <2>3, <2>4
    DEF Good, Closed, Chaining, Unspoiled, Cut, RequestStates
  <2> QED BY <1>1, <1>2, <2>5, <2>6, <2>7, Kept
<1>5. CASE Recover(r)
  <2>1. x.main \in {"chain", "select"} /\ x.run = "panicked"
    BY <1>1, <1>5 DEF Recover, Serving
  <2>2. PICK wire \in Seq(Answers) : wire = <<"panic">> /\ Len(wire) = 1 /\ wire[1] = "panic"
    BY OneAnswer DEF Answers
  <2>3. PICK line \in {"http", "panic"} :
            line = IF req[r].main = "select" /\ ~conf.release THEN "http" ELSE "panic"
    OBVIOUS
  <2>4. PICK log \in Seq({"http", "panic"}) : log = <<line>> /\ Len(log) = 1
    BY OneLine
  <2>5. PICK new : new = [x EXCEPT !.main = "done", !.wire = wire, !.log = log]
    OBVIOUS
  <2>6. Update(r, new)
    BY <1>1, <1>5, <2>2, <2>3, <2>4, <2>5 DEF Recover
  <2>7. new \in RequestStates /\ new.route = x.route /\ new.index \in 0..last
    BY <1>2, <2>5 DEF RequestStates
  <2>8. Good(new, last)
    BY <1>1, <1>2, <2>1, <2>2, <2>4, <2>5
    DEF Good, Closed, Chaining, Unspoiled, Cut, RequestStates
  <2> QED BY <1>1, <1>2, <2>6, <2>7, <2>8, Kept
<1>6. CASE TimesOut(r)
  <2>1. x.main = "select"
    BY <1>1, <1>6 DEF TimesOut
  <2>2. PICK wire \in Seq(Answers) : wire = <<"timeout">> /\ Len(wire) = 1 /\ wire[1] = "timeout"
    BY OneAnswer DEF Answers
  <2>3. PICK log \in Seq({"http", "panic"}) : log = <<"http">> /\ Len(log) = 1
    BY OneLine
  <2>4. PICK cut : cut = Place(r)
    OBVIOUS
  <2>5. /\ x.run = "handler" /\ x.index = last => cut = "handle"
        /\ x.run = "handler" /\ x.index # last => cut = "middleware"
        /\ x.run # "handler" => cut = x.run
    BY <1>1, <1>2, <2>4 DEF Place
  <2>6. PICK aborted \in {TRUE, x.run # "next"} :
            Update(r, [x EXCEPT !.main = "done", !.wire = wire, !.log = log, !.cut = cut,
                                !.aborted = @ \/ aborted])
    BY <1>1, <1>6, <2>2, <2>3, <2>4 DEF TimesOut
  <2>7. PICK ab \in BOOLEAN : ab = (x.aborted \/ aborted)
    OBVIOUS
  <2>8. x.run = "handler" => ab
    BY <2>6, <2>7
  <2>9. PICK new : new = [x EXCEPT !.main = "done", !.wire = wire, !.log = log,
                                   !.cut = cut, !.aborted = ab]
    OBVIOUS
  <2>10. Update(r, new)
    BY <2>6, <2>7, <2>9
  <2>11. cut \in {"next", "middleware", "handle", "service", "returned", "panicked"}
    BY <1>1, <1>2, <2>1, <2>5 DEF Good, Chaining, RequestStates
  <2>12. new \in RequestStates /\ new.route = x.route /\ new.index \in 0..last
    BY <1>2, <2>9, <2>11 DEF RequestStates
  <2>13. Good(new, last)
    <3>1. Closed(new)
      BY <2>2, <2>3, <2>9 DEF Closed, RequestStates
    <3>2. Chaining(new, last)
      BY <1>2, <2>1, <2>7, <2>9 DEF Good, Chaining, RequestStates
    <3>3. Unspoiled(new, last)
      BY <2>9 DEF Unspoiled, RequestStates
    <3>4. Cut(new, last)
      BY <1>2, <2>1, <2>5, <2>7, <2>8, <2>9 DEF Good, Closed, Chaining, Cut, RequestStates
    <3> QED BY <3>1, <3>2, <3>3, <3>4 DEF Good
  <2> QED BY <1>1, <1>2, <2>10, <2>12, <2>13, Kept
<1> QED BY <1>4, <1>5, <1>6 DEF End

\* Who holds the context of an earlier request has been answered.
LEMMA ArriveKeeps ==
  ASSUME ChainInv, NEW r \in Requests, NEW route \in Routes, Arrive(r, route)
  PROVE  ChainInv'
<1>1. conf' = conf /\ ctx \in [Requests -> Requests]
  BY DEF Arrive, ChainInv, TypeOK
<1>2. req \in [Requests -> RequestStates]
  BY DEF ChainInv, TypeOK
<1>3. PICK c : /\ c \in {r} \cup {ctx[q] : q \in {q \in Requests : req[q].main # "off"}}
               /\ \A q \in Requests \ {r} : ctx[q] = c => req[q].main = "done"
               /\ ctx' = [ctx EXCEPT ![r] = c]
               /\ req' = [q \in Requests |->
                            IF q = r
                            THEN [NoRequest EXCEPT !.route = route, !.main = "chain",
                                           !.run = "next", !.mixed = Holders(c) # {}]
                            ELSE IF q \in Holders(c) THEN [req[q] EXCEPT !.aborted = TRUE]
                            ELSE req[q]]
  BY DEF Arrive
<1>4. c \in Requests /\ ctx' \in [Requests -> Requests]
  BY <1>1, <1>3
<1>5. PICK mixed \in BOOLEAN : mixed = (Holders(c) # {})
  OBVIOUS
<1>6. PICK new : new = [NoRequest EXCEPT !.route = route, !.main = "chain",
                                         !.run = "next", !.mixed = mixed]
  OBVIOUS
<1>7. new \in RequestStates /\ new.index = 0
  <2>1. <<>> \in Seq(Answers) /\ <<>> \in Seq({"http", "panic"})
    OBVIOUS
  <2> QED BY <1>6, <2>1 DEF NoRequest, RequestStates
<1>8. ASSUME NEW q \in Requests
      PROVE  /\ req'[q] \in RequestStates /\ req'[q].index \in 0..Last(q)'
             /\ ~req'[q].mixed => Good(req'[q], Last(q)')
  <2>1. CASE q = r
    <3>1. req'[q] = new
      BY <2>1, <1>3, <1>5, <1>6
    <3>2. Shape(Chain(new.route))
      BY ChainShape DEF ChainInv, TypeOK, Confs
    <3>3. PICK last \in 3..6 : last = Len(Chain(new.route))
      BY <3>2 DEF Shape
    <3>4. Last(q)' = last
      BY <3>1, <3>3, <1>1 DEF Last, Chain
    <3>5. Good(new, last)
      BY <1>6 DEF NoRequest, Good, Closed, Chaining, Unspoiled, Cut
    <3> QED BY <3>1, <3>4, <3>5, <1>7
  <2>2. CASE q # r /\ q \in Holders(c)
    <3>1. PICK x \in RequestStates : x = req[q]
      BY <1>2
    <3>2. x.main = "done"
      BY <2>2, <1>3, <3>1 DEF Holders
    <3>3. PICK y : y = [x EXCEPT !.aborted = TRUE] /\ y = req'[q]
      BY <2>2, <1>3, <3>1
    <3>4. y \in RequestStates /\ y.route = x.route /\ y.index = x.index /\ y.mixed = x.mixed
      BY <3>3 DEF RequestStates
    <3>5. PICK last : last = Last(q) /\ last = Last(q)'
      BY <3>1, <3>3, <3>4, <1>1 DEF Last, Chain
    <3>6. x.index \in 0..last
      BY <3>1, <3>5 DEF ChainInv, TypeOK
    <3>7. ASSUME ~y.mixed PROVE Good(y, last)
      <4>1. Good(x, last)
        BY <3>1, <3>4, <3>5, <3>7 DEF ChainInv, Followed
      <4> QED BY <4>1, <3>2, <3>3 DEF Good, Closed, Chaining, Unspoiled, Cut, RequestStates
    <3> QED BY <3>3, <3>4, <3>5, <3>6, <3>7
  <2>3. CASE q # r /\ q \notin Holders(c)
    <3>1. req'[q] = req[q]
      BY <2>3, <1>3
    <3>2. Last(q)' = Last(q)
      BY <3>1, <1>1 DEF Last, Chain
    <3>3. ~req[q].mixed => Good(req[q], Last(q))
      BY DEF ChainInv, Followed
    <3> QED BY <3>1, <3>2, <3>3, <1>2 DEF ChainInv, TypeOK
  <2> QED BY <2>1, <2>2, <2>3
<1>9. req' \in [Requests -> RequestStates]
  BY <1>3, <1>8
<1>10. conf' \in [release : BOOLEAN, deadline : BOOLEAN]
  BY <1>1 DEF ChainInv, TypeOK
<1> QED BY <1>4, <1>8, <1>9, <1>10 DEF ChainInv, TypeOK, Followed

LEMMA MixedEndsKeeps == ASSUME ChainInv, NEW r \in Requests, MixedEnds(r) PROVE ChainInv'
<1>1. req \in [Requests -> RequestStates] /\ conf' = conf /\ ctx' = ctx
  BY DEF ChainInv, TypeOK, MixedEnds
<1>2. PICK x \in RequestStates : x = req[r] /\ x.mixed
  BY <1>1 DEF MixedEnds
<1>3. PICK run \in {"next", "returned"} :
          run = IF req[r].main = "chain" THEN "next" ELSE "returned"
  OBVIOUS
<1>4. PICK new : new = [x EXCEPT !.main = "done", !.run = run]
  OBVIOUS
<1>5. /\ new \in RequestStates /\ new.mixed /\ new.route = x.route
      /\ new.index = x.index
  BY <1>2, <1>4 DEF RequestStates
<1>6. req' = [req EXCEPT ![r] = new]
  BY <1>1, <1>2, <1>3, <1>4 DEF MixedEnds
<1>7. ASSUME NEW q \in Requests
      PROVE  /\ Last(q)' = Last(q) /\ req'[q].index = req[q].index
             /\ req'[q].mixed = req[q].mixed /\ (~req'[q].mixed => req'[q] = req[q])
  <2>1. req'[q].route = req[q].route
    BY <1>1, <1>2, <1>5, <1>6
  <2>2. Last(q)' = Last(q)
    BY <2>1, <1>1 DEF Last, Chain
  <2> QED BY <2>2, <1>1, <1>2, <1>5, <1>6
<1>8. TypeOK'
  <2>1. req' \in [Requests -> RequestStates]
    BY <1>1, <1>5, <1>6
  <2> QED BY <2>1, <1>1, <1>7 DEF ChainInv, TypeOK
<1> QED BY <1>7, <1>8 DEF ChainInv, Followed

-----------------------------------------------------------------------------
(* The theorems. *)

LEMMA Initially == Init => ChainInv
<1> SUFFICES ASSUME Init PROVE ChainInv
  OBVIOUS
<1>1. NoRequest \in RequestStates /\ NoRequest.index = 0
  <2>1. <<>> \in Seq(Answers) /\ <<>> \in Seq({"http", "panic"})
    OBVIOUS
  <2> QED BY <2>1 DEF NoRequest, RequestStates, Routes
<1>2. ASSUME NEW r \in Requests
      PROVE  req[r] = NoRequest /\ Last(r) \in 3..6
  BY ChainShape DEF Init, Last, Shape, Confs
<1>3. TypeOK
  BY <1>1, <1>2 DEF Init, TypeOK
<1>4. ASSUME NEW r \in Requests PROVE Good(req[r], Last(r))
  BY <1>2 DEF NoRequest, Good, Closed, Chaining, Unspoiled, Cut
<1> QED BY <1>3, <1>4 DEF ChainInv, Followed

LEMMA Inductive == ChainInv /\ [Next]_vars => ChainInv'
<1> SUFFICES ASSUME ChainInv, [Next]_vars PROVE ChainInv'
  OBVIOUS
<1>1. CASE UNCHANGED vars
  <2>1. \A r \in Requests : Last(r)' = Last(r)
    BY <1>1 DEF vars, Last, Chain
  <2> QED BY <1>1, <2>1 DEF vars, ChainInv, TypeOK, Followed
<1>2. ASSUME NEW r \in Requests, NEW route \in Routes, Arrive(r, route) PROVE ChainInv'
  BY <1>2, ArriveKeeps
<1>3. ASSUME NEW r \in Requests,
             StartNext(r) \/ Middleware(r) \/ Handler(r) \/ End(r) \/ MixedEnds(r)
      PROVE  ChainInv'
  BY <1>3, StartNextKeeps, MiddlewareKeeps, HandlerKeeps, EndKeeps, MixedEndsKeeps
<1> QED BY <1>1, <1>2, <1>3 DEF Next, Quiet

LEMMA ChainInvariant == Spec => []ChainInv
  BY Initially, Inductive, PTL DEF Spec

\* Every variable has its type, and no index is past the end of its chain.
THEOREM ChainTyped == Spec => []TypeOK
<1>1. ChainInv => TypeOK
  BY DEF ChainInv
<1> QED BY <1>1, ChainInvariant, PTL

\* Whatever the middlewares, the handler, a panic and the deadline do, and however many
\* requests there are, a request is answered and logged once.
THEOREM OneAnswerEach == Spec => []AnsweredOnce
<1>1. ASSUME ChainInv PROVE AnsweredOnce
  <2> SUFFICES ASSUME NEW r \in Followed
               PROVE  /\ Len(req[r].wire) <= 1
                      /\ req[r].main = "done" => Len(req[r].wire) = 1 /\ Len(req[r].log) = 1
    BY DEF AnsweredOnce
  <2>1. Good(req[r], Last(r))
    BY <1>1 DEF ChainInv
  <2>2. CASE req[r].main = "done"
    <3>1. Len(req[r].wire) = 1 /\ Len(req[r].log) = 1
      BY <2>1, <2>2 DEF Good, Closed
    <3> QED BY <2>2, <3>1
  <2>3. CASE req[r].main # "done"
    <3>1. req[r].wire = <<>>
      BY <2>1, <2>3 DEF Good, Closed
    <3>2. Len(req[r].wire) = 0
      BY <3>1
    <3> QED BY <2>3, <3>2
  <2> QED BY <2>2, <2>3
<1> QED BY <1>1, ChainInvariant, PTL

\* A refused request has not reached its service, no service is called twice, and a
\* service that is called after the 504 was on its way when the deadline passed.
THEOREM NoUnearnedEffect == Spec => []EffectsEarned
<1>1. ASSUME ChainInv PROVE EffectsEarned
  <2> SUFFICES ASSUME NEW r \in Followed
               PROVE  /\ req[r].calls <= 1
                      /\ req[r].wire # <<>> /\ req[r].wire[1] \in Refusals => req[r].calls = 0
                      /\ req[r].late => req[r].cut \in {"handle", "next"}
    BY DEF EffectsEarned
  <2>1. Good(req[r], Last(r))
    BY <1>1 DEF ChainInv
  <2> QED BY <2>1 DEF Good, Closed, Chaining, Cut, Refusals
<1> QED BY <1>1, ChainInvariant, PTL

=============================================================================
