------------------------------- MODULE Users -------------------------------
(***************************************************************************)
(* The accounts: UserService, its repository and handlers, the look-up of  *)
(* a login, and the program seed-admin, over a primary and replicas.       *)
(*                                                                         *)
(* history holds every state the table has had on the primary; a replica   *)
(* shows one of them.  A statement is one step.  Passwords, addresses and  *)
(* dates are left out: no statement depends on them.  The chain of         *)
(* middlewares and the validation of forms are in Chain, so that a request *)
(* is one that reached its handler's call of the service.                  *)
(***************************************************************************)
EXTENDS Integers, Sequences, FiniteSets

CONSTANTS Procs,         \* request goroutines, and runs of seed-admin
          Replicas,      \* the read nodes there may be
          Admins,        \* login names given to seed-admin and to logins
          Nicks,         \* the names a rename may ask for and get
          DefaultSize, MaxSize,  \* 20 and 200, of List
          Sizes,         \* the page_size of a listing
          MaxRequests,   \* bound: requests received
          MaxFaults      \* bound: statements that fail

\* HTTP registrations have this login name.
Blank == ""

ASSUME UsersAssumption ==
    /\ Blank \notin Admins /\ Sizes \subseteq Int
    /\ DefaultSize \in Nat \ {0} /\ MaxSize \in Nat
    /\ MaxRequests \in Nat /\ MaxFaults \in Nat

VARIABLES history,  \* the states of the table users on the primary
          shows,    \* for each configured read node, the index of its state
          pc, req,  \* where each request is, and its local variables
          welcomed, \* history: users whose creation was reported
          used      \* how much of each bound is spent

vars == <<history, shows, pc, req, welcomed, used>>

Primary == history[Len(history)]

\* since is the oldest state a read node showed when the request arrived, ver the one
\* a registration or a listing saw last, from the one a listing saw first; failed
\* tells that a statement failed.  page, seen and twice are a client's walk through the pages of a listing.
Request(call, name, id, size) ==
    [call |-> call, name |-> name, id |-> id, nick |-> "", size |-> size,
     since |-> 1, from |-> 1, ver |-> 1, found |-> 0, failed |-> FALSE,
     page |-> 1, seen |-> {}, twice |-> FALSE, answer |-> "none"]
IdleReq == Request("read", Blank, 0, 1)

Init ==
    /\ history = << <<>> >>
    /\ \E nodes \in SUBSET Replicas : shows = [r \in nodes |-> 1]
    /\ pc = [p \in Procs |-> "idle"] /\ req = [p \in Procs |-> IdleReq]
    /\ welcomed = {} /\ used = [requests |-> 0, faults |-> 0]

-----------------------------------------------------------------------------
(* The table, and the statements of the repository. *)

\* Reads go to any read node, or to the primary if none is configured.
Sources == IF DOMAIN shows = {} THEN {Len(history)} ELSE {shows[r] : r \in DOMAIN shows}
Oldest == CHOOSE v \in Sources : \A w \in Sources : v <= w

\* Variant: the rows that were deleted are seen too.
LiveAll(t) == DOMAIN t
\* A deleted row stays, with deleted_at set, and no query of gorm's sees it.
Live(t) == {i \in DOMAIN t : ~t[i].gone}
Gone(t) == {i \in DOMAIN t : t[i].gone}

Named(t, name) == {i \in Live(t) : t[i].name = name}
FindByUsername(t, name) == IF Named(t, name) = {} THEN 0
                           ELSE CHOOSE i \in Named(t, name) : TRUE
FindByID(t, id) == IF id \in Live(t) THEN id ELSE 0

\* Variant: the index leaves out deleted users.
TakenLive(t, name) == \E i \in DOMAIN t : t[i].name = name /\ ~t[i].gone
\* The unique index on username: deleted users are in it.
Taken(t, name) == \E i \in DOMAIN t : t[i].name = name

UserColumns == {"id", "username", "email", "nickname", "password", "avatar",
                "created_at", "updated_at", "deleted_at"}
\* The columns Save writes, and the ones seed-admin writes: each names one that
\* is not in the table, and MySQL refuses the statement.
SavedColumns == {"username", "email", "nick_name", "password", "updated_at"}
SeedColumns == {"password", "email", "name", "updated_at"}
Accepted(columns) == columns \subseteq UserColumns

Write(t) == history' = Append(history, t)
Create(name, nick) == Write(Append(Primary, [name |-> name, nick |-> nick, gone |-> FALSE]))

\* Updates: a deleted row, or none, is no error.
Updated(id, nick) ==
    IF id \in Live(Primary) THEN [Primary EXCEPT ![id].nick = nick] ELSE Primary

\* Variant: the row is removed for good, if it is the last one.
DeletedHard(id) == IF id = Len(Primary) THEN SubSeq(Primary, 1, id - 1) ELSE Primary
\* Delete sets deleted_at.
Deleted(id) == [i \in DOMAIN Primary |->
                  IF i = id THEN [Primary[i] EXCEPT !.gone = TRUE] ELSE Primary[i]]

-----------------------------------------------------------------------------
(* Requests. *)

Go(p, from, to, r) ==
    pc[p] = from /\ pc' = [pc EXCEPT ![p] = to] /\ req' = [req EXCEPT ![p] = r]

Answer(p, from, r, answer) == Go(p, from, "answered", [r EXCEPT !.answer = answer])

Arrive(p, to, r) ==
    /\ used.requests < MaxRequests
    /\ used' = [used EXCEPT !.requests = @ + 1]
    /\ Go(p, "idle", to, [r EXCEPT !.since = Oldest])
    /\ UNCHANGED <<history, shows, welcomed>>

\* The handler gives the service an email, a name and a password, and no username.
StartRegister(p) == Arrive(p, "lookup", Request("register", Blank, 0, 1))

StartSeed(p) ==
    \E name \in Admins : Arrive(p, "lookup", Request("seed", name, 0, 1))

\* A login passes its form with five characters at least; the rest is in LoginLock.
StartLogin(p) ==
    \E name \in Admins : Arrive(p, "lookup", Request("login", name, 0, 1))

\* info takes the id from the token, the others from the path: a text that is no
\* number, and a number of nobody, count as 0.
StartByID(p) ==
    \E id \in 0..Len(Primary) :
       \/ Arrive(p, "find", Request("read", Blank, id, 1))
       \/ Arrive(p, "remove", Request("delete", Blank, id, 1))
       \/ Arrive(p, "find", Request("rename", Blank, id, 1))

\* A client that asks for page after page until one is empty.
StartList(p) ==
    \E size \in Sizes : Arrive(p, "page", Request("list", Blank, 0, size))

\* A read finds user id, or none (0); of a registration the state v it saw is kept.
Found(p, id) == [req[p] EXCEPT !.found = id]
Saw(p, v, id) == [Found(p, id) EXCEPT !.ver = v]

\* Variant: the name is not looked up.
LookUpNone(p) ==
    /\ req[p].call = "register" /\ Go(p, "lookup", "insert", Saw(p, Len(history), 0))
    /\ UNCHANGED <<history, shows, welcomed, used>>
\* Register, and the look-up of Login: a user of that name, on a read node.
LookUp(p) ==
    \E v \in Sources :
       LET id == FindByUsername(history[v], req[p].name)
       IN  /\ \/ /\ req[p].call = "register" /\ id # 0
                 /\ Answer(p, "lookup", Saw(p, v, id), "exists")
              \/ /\ req[p].call = "register" /\ id = 0
                 /\ Go(p, "lookup", "insert", Saw(p, v, id))
              \/ /\ req[p].call = "login"
                 /\ Answer(p, "lookup", Found(p, id), IF id = 0 THEN "notFound" ELSE "ok")
           /\ UNCHANGED <<history, shows, welcomed, used>>

\* seed-admin looks the name up on the primary.
LookUpAdmin(p) ==
    LET id == FindByUsername(Primary, req[p].name)
    IN  /\ req[p].call = "seed"
        /\ Go(p, "lookup", IF id = 0 THEN "insert" ELSE "update", Found(p, id))
        /\ UNCHANGED <<history, shows, welcomed, used>>

\* GetByID, and the first half of UpdateName, which then trims the name it was given
\* and refuses an empty one or one of more than 64 bytes.
Find(p) ==
    \E v \in Sources :
       LET id == FindByID(history[v], req[p].id)
       IN  /\ \/ id = 0 /\ Answer(p, "find", Found(p, 0), "notFound")
              \/ /\ id # 0 /\ req[p].call = "read"
                 /\ Answer(p, "find", Found(p, id), "ok")
              \/ /\ id # 0 /\ req[p].call = "rename"
                 /\ Answer(p, "find", Found(p, id), "invalid")
              \/ /\ id # 0 /\ req[p].call = "rename"
                 /\ \E nick \in Nicks :
                       Go(p, "find", "update", [Found(p, id) EXCEPT !.nick = nick])
           /\ UNCHANGED <<history, shows, welcomed, used>>

\* Save of a new user, and the last statement of a seed: the primary accepts the row
\* unless its login name is taken.
Insert(p) ==
    /\ \/ /\ ~Taken(Primary, req[p].name) /\ Create(req[p].name, "first")
          /\ Answer(p, "insert", req[p], "ok")
          /\ welcomed' = welcomed \cup {Len(Primary) + 1}
       \/ /\ Taken(Primary, req[p].name) /\ Answer(p, "insert", req[p], "database")
          /\ UNCHANGED <<history, welcomed>>
    /\ UNCHANGED <<shows, used>>

\* Save of an old user, and the update of a seed.
Update(p) ==
    LET columns == IF req[p].call = "seed" THEN SeedColumns ELSE SavedColumns
    IN  /\ \/ /\ Accepted(columns) /\ Write(Updated(req[p].found, req[p].nick))
              /\ Answer(p, "update", req[p], "ok")
           \/ /\ ~Accepted(columns) /\ UNCHANGED history
              /\ Answer(p, "update", req[p], "database")
        /\ UNCHANGED <<shows, welcomed, used>>

\* Delete answers ok whether or not there is such a user.
Remove(p) ==
    /\ Answer(p, "remove", req[p], "ok")
    /\ \/ req[p].id \in Live(Primary) /\ Write(Deleted(req[p].id))
       \/ req[p].id \notin Live(Primary) /\ UNCHANGED history
    /\ UNCHANGED <<shows, welcomed, used>>

Limit(size) == IF size < 1 \/ size > MaxSize THEN DefaultSize ELSE size
\* Variant: pages are counted from zero.
OffsetZero(page, size) == page * Limit(size)
Offset(page, size) == (page - 1) * Limit(size)

\* The rows of a page: id DESC, with OFFSET and LIMIT.
Before(t, i) == Cardinality({j \in Live(t) : j > i})
Page(t, page, size) ==
    {i \in Live(t) : Before(t, i) \in Offset(page, size)..(Offset(page, size) + Limit(size) - 1)}

\* List: it counts the rows, which only the answer shows, and reads a page.
List(p) ==
    \E v \in Sources :
       LET r == req[p]
           ids == Page(history[v], r.page, r.size)
           read == [r EXCEPT !.ver = v, !.from = IF r.page = 1 THEN v ELSE @,
                             !.page = IF ids = {} THEN @ ELSE @ + 1,
                             !.seen = @ \cup ids, !.twice = @ \/ ids \cap r.seen # {}]
       IN  /\ \/ ids = {} /\ Answer(p, "page", read, "ok")
              \/ ids # {} /\ Go(p, "page", "page", read)
           /\ UNCHANGED <<history, shows, welcomed, used>>

Done(p) ==
    /\ Go(p, "answered", "idle", IdleReq)
    /\ UNCHANGED <<history, shows, welcomed, used>>

-----------------------------------------------------------------------------
(* What happens around the requests. *)

\* A statement fails.  Register ignores the error of its look-up and goes on; every
\* other step ends its request, and one that writes a row or a deletion may have written.
Fault(p) ==
    LET r == [req[p] EXCEPT !.failed = TRUE]
    IN  /\ used.faults < MaxFaults /\ used' = [used EXCEPT !.faults = @ + 1]
        /\ \/ /\ r.call = "register" /\ Go(p, "lookup", "insert", r)
              /\ UNCHANGED history
           \/ /\ r.call # "register" /\ Answer(p, "lookup", r, "database")
              /\ UNCHANGED history
           \/ /\ \E from \in {"find", "update", "page"} : Answer(p, from, r, "database")
              /\ UNCHANGED history
           \/ /\ Answer(p, "insert", r, "database")
              /\ \/ UNCHANGED history
                 \/ ~Taken(Primary, r.name) /\ Create(r.name, "first")
           \/ /\ Answer(p, "remove", r, "database")
              /\ \/ UNCHANGED history
                 \/ r.id \in Live(Primary) /\ Write(Deleted(r.id))
        /\ UNCHANGED <<shows, welcomed>>

\* A read node applies the next change.
Replicate(r) ==
    /\ shows[r] < Len(history) /\ shows' = [shows EXCEPT ![r] = @ + 1]
    /\ UNCHANGED <<history, pc, req, welcomed, used>>

Quiet == (\A p \in Procs : pc[p] = "idle") /\ UNCHANGED vars

Start(p) == StartRegister(p) \/ StartSeed(p) \/ StartLogin(p) \/ StartByID(p) \/ StartList(p)
Step(p) == LookUp(p) \/ LookUpAdmin(p) \/ Find(p) \/ Insert(p) \/ Update(p) \/ Remove(p)
           \/ List(p) \/ Done(p)

Next ==
    \/ \E p \in Procs : Start(p) \/ Step(p) \/ Fault(p)
    \/ \E r \in DOMAIN shows : Replicate(r)
    \/ Quiet

Spec == Init /\ [][Next]_vars

-----------------------------------------------------------------------------
(* Properties. *)

Rows == [name : Admins \cup {Blank}, nick : Nicks \cup {"first"}, gone : BOOLEAN]
Answers == {"none", "ok", "exists", "notFound", "invalid", "database"}
Requests == [call : {"register", "seed", "login", "read", "rename", "delete", "list"},
             name : Admins \cup {Blank}, id : Nat, nick : Nicks \cup {""}, size : Int,
             since : DOMAIN history, from : DOMAIN history, ver : DOMAIN history,
             found : Nat, failed : BOOLEAN, page : Nat \ {0}, seen : SUBSET DOMAIN Primary,
             twice : BOOLEAN, answer : Answers]

\* Every variable has its type; what a request or a read node has seen of the table
\* is a state the table had, and the user it found has a row.
TypeOK ==
    /\ history \in Seq(Seq(Rows)) /\ history # <<>>
    /\ shows \in [DOMAIN shows -> DOMAIN history] /\ DOMAIN shows \subseteq Replicas
    /\ pc \in [Procs -> {"idle", "lookup", "find", "insert", "update", "remove", "page",
                         "answered"}]
    /\ req \in [Procs -> Requests]
    /\ \A p \in Procs : req[p].found \in 0..Len(Primary)
    /\ welcomed \subseteq DOMAIN Primary /\ used \in [requests : Nat, faults : Nat]

Answered(p, call, answers) ==
    pc[p] = "answered" /\ req[p].call = call /\ req[p].answer \in answers

\* No two creations of one login name are reported as done, whether they run side by
\* side, see a read node that lags, or come after a deletion (Register).
OneWelcome ==
    \A i, j \in welcomed : Primary[i].name = Primary[j].name => i = j

\* A request that arrives when every read node shows a user as deleted does not find
\* that user: no answer shows it, and no login gets a token for it.
DeletedStaysOut ==
    \A p \in Procs : req[p].found \notin Gone(history[req[p].since])

\* A registration is refused with an error of the database only if a statement
\* failed, or the name belongs to a user its look-up could not see: one that was
\* deleted, or that was stored after the state the look-up read.
RefusalsEarned ==
    \A p \in Procs : Answered(p, "register", {"database"}) =>
        \/ req[p].failed
        \/ \E i \in DOMAIN Primary :
              /\ Primary[i].name = req[p].name
              /\ i \notin Live(history[req[p].ver])

\* A client that asks for page after page of the list sees every user that was there
\* at the first page, unless one was deleted meanwhile, and none twice, unless one
\* was added meanwhile.  It needs one place to read from: among read nodes that lag
\* differently, the table may go back between two pages.
PagesComplete ==
    \A p \in Procs : Answered(p, "list", {"ok"}) /\ Cardinality(DOMAIN shows) <= 1 =>
        LET first == history[req[p].from]
            last == history[req[p].ver]
        IN  /\ Gone(first) = Gone(last) => Live(first) \subseteq req[p].seen
            /\ DOMAIN first = DOMAIN last => ~req[p].twice

\* A statement that updates a user who was found, and did not fail, is refused.
UpdateRefused(p, call) ==
    Answered(p, call, {"database"}) /\ req[p].found # 0 /\ ~req[p].failed

\* A second seed updates the administrator (upsertAdmin), and a rename the user
\* (UpdateName): at least, the database does not refuse both.
UpdatesAccepted ==
    ~\E p, q \in Procs : UpdateRefused(p, "seed") /\ UpdateRefused(q, "rename")

NamesOf(ids) == {Primary[i].name : i \in ids}
Promise == INSTANCE Directory
    WITH Names <- Admins \cup {Blank}, given <- NamesOf(DOMAIN Primary),
         members <- NamesOf(Live(Primary)), welcomed <- NamesOf(welcomed)

\* The accounts keep the promise of Directory: no name is given a second time, side by
\* side, by a stale look-up or after a deletion, and no user is reported as created but
\* by the statement that creates it.
KeepsPromise == Promise!Spec
=============================================================================
