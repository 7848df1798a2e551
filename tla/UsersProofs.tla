---------------------------- MODULE UsersProofs ----------------------------
(***************************************************************************)
(* What Users promises for any number of requests, read nodes and names:   *)
(* types, one user per login name, that a deletion seen by every read node *)
(* is final, that a refusal by the database has a cause, that a walk       *)
(* through the pages is complete when one node answers, and that the       *)
(* accounts implement Directory.                                           *)
(***************************************************************************)
EXTENDS Users, WellFoundedInduction, FiniteSetTheorems, SequenceTheorems, TLAPS

-----------------------------------------------------------------------------
(* Minima. *)

\* A set of numbers that is not empty has a least one.
LEMMA LeastNat ==
    ASSUME NEW T \in SUBSET Nat, T # {}
    PROVE  \E v \in T : \A w \in T : v <= w
<1> DEFINE Less == {ss \in Nat \X Nat : ss[1] < ss[2]}
<1>1. IsWellFoundedOn(Less, Nat)
  BY NatLessThanWellFounded, Zenon DEF OpToRel
<1>2. PICK x \in T : \A y \in T : ~ (<<y, x>> \in Less)
  <2> HIDE DEF Less
  <2> QED BY <1>1, WFMin, Zenon
<1>3. \A y \in T : x \in Nat /\ y \in Nat /\ ~ (y < x)
  BY <1>2
<1> QED BY <1>3

\* The oldest of the states that are shown is one of them, and none is older.
LEMMA OldestIsLeast ==
    ASSUME TypeOK
    PROVE  Sources \in SUBSET DOMAIN history /\ Oldest \in Sources
           /\ \A v \in Sources : Oldest <= v
<1>1. Len(history) \in Nat /\ Len(history) # 0 /\ DOMAIN history = 1..Len(history)
  BY DEF TypeOK
<1>2. Sources \in SUBSET DOMAIN history /\ Sources # {}
  <2>1. CASE DOMAIN shows = {}
    BY <1>1, <2>1 DEF Sources
  <2>2. CASE DOMAIN shows # {}
    <3>1. Sources = {shows[r] : r \in DOMAIN shows}
      BY <2>2 DEF Sources
    <3>2. \A r \in DOMAIN shows : shows[r] \in DOMAIN history
      BY DEF TypeOK
    <3> QED BY <2>2, <3>1, <3>2
  <2> QED BY <2>1, <2>2
<1>3. Sources \in SUBSET Nat
  BY <1>1, <1>2
<1>4. \E v \in Sources : \A w \in Sources : v <= w
  BY <1>2, <1>3, LeastNat
<1> QED BY <1>2, <1>4 DEF Oldest

-----------------------------------------------------------------------------
(* The inductive invariant. *)

\* What a table keeps of an older one: its rows with their names, and what was deleted.
Kept(old, new) ==
    /\ Len(old) <= Len(new)
    /\ \A i \in DOMAIN old : new[i].name = old[i].name /\ (old[i].gone => new[i].gone)

Grows == \A v, w \in DOMAIN history : v <= w => Kept(history[v], history[w])

UniqueNames == \A i, j \in DOMAIN Primary : Primary[i].name = Primary[j].name => i = j

\* What is known of request r when it is at label l: it arrived before all that can be
\* read now; who it found was there when it arrived, or came later; a registration
\* that is about to insert saw no user of its name, and none updates a user.
RequestOK(l, r) ==
    /\ \A v \in Sources : r.since <= v
    /\ r.found \notin Gone(history[r.since])
    /\ l = "insert" /\ r.call = "register" /\ ~r.failed =>
          Named(history[r.ver], r.name) = {}
    /\ l = "update" => r.call # "register"
    /\ l = "answered" /\ r.call = "register" /\ r.answer = "database" =>
          \/ r.failed
          \/ \E i \in DOMAIN Primary :
                Primary[i].name = r.name /\ i \notin Live(history[r.ver])

Inv ==
    /\ TypeOK /\ Grows /\ UniqueNames
    /\ \A p \in Procs : RequestOK(pc[p], req[p])

-----------------------------------------------------------------------------
(* What a step may do to the table and the read nodes. *)

Names == Admins \cup {Blank}

TableStep ==
    \/ UNCHANGED history
    \/ \E name \in Names : ~Taken(Primary, name) /\ Create(name, "first")
    \/ \E id \in Live(Primary) : Write(Deleted(id))

NodeStep ==
    \/ UNCHANGED shows
    \/ \E r \in DOMAIN shows :
          shows[r] < Len(history) /\ shows' = [shows EXCEPT ![r] = @ + 1]

\* The sequence of states grows by one, which keeps what the last one had.
LEMMA TableTyped ==
    ASSUME TypeOK, TableStep
    PROVE  /\ history' \in Seq(Seq(Rows)) /\ history' # <<>>
           /\ DOMAIN history \subseteq DOMAIN history'
           /\ \A v \in DOMAIN history : history'[v] = history[v]
           /\ \A v \in DOMAIN history' \ DOMAIN history : history'[v] = Primary'
           /\ Kept(Primary, Primary') /\ DOMAIN Primary \subseteq DOMAIN Primary'
           /\ Len(history) <= Len(history')
<1>1. history \in Seq(Seq(Rows)) /\ Len(history) \in Nat \ {0} /\ Primary \in Seq(Rows)
      /\ DOMAIN history = 1..Len(history) /\ DOMAIN Primary = 1..Len(Primary)
      /\ Len(Primary) \in Nat
  BY DEF TypeOK, Primary
<1>2. CASE UNCHANGED history
  BY <1>1, <1>2 DEF Primary, Kept
<1>3. CASE \E t \in Seq(Rows) : Write(t) /\ Kept(Primary, t)
  <2> PICK t \in Seq(Rows) : Write(t) /\ Kept(Primary, t)
    BY <1>3
  <2>1. history' = Append(history, t)
    BY DEF Write
  <2>2. /\ history' \in Seq(Seq(Rows)) /\ Len(history') = Len(history) + 1
        /\ DOMAIN history' = 1..(Len(history) + 1)
        /\ history'[Len(history) + 1] = t
        /\ \A v \in DOMAIN history : history'[v] = history[v]
    BY <1>1, <2>1
  <2>3. Primary' = t
    BY <2>2 DEF Primary
  <2>4. DOMAIN t = 1..Len(t) /\ Len(t) \in Nat
    OBVIOUS
  <2>5. DOMAIN Primary \subseteq DOMAIN t
    BY <1>1, <2>4 DEF Kept
  <2> QED BY <1>1, <2>2, <2>3, <2>5
<1>4. CASE \E name \in Names : ~Taken(Primary, name) /\ Create(name, "first")
  <2> PICK name \in Names : Create(name, "first")
    BY <1>4
  <2> DEFINE row == [name |-> name, nick |-> "first", gone |-> FALSE]
  <2>1. row \in Rows
    BY DEF Rows, Names
  <2> HIDE DEF row
  <2>2. Append(Primary, row) \in Seq(Rows) /\ Kept(Primary, Append(Primary, row))
    BY <1>1, <2>1 DEF Kept
  <2>3. Write(Append(Primary, row))
    BY DEF Create, row
  <2> QED BY <1>3, <2>2, <2>3
<1>5. CASE \E id \in Live(Primary) : Write(Deleted(id))
  <2> PICK id \in Live(Primary) : Write(Deleted(id))
    BY <1>5
  <2>1. \A i \in DOMAIN Primary : Primary[i] \in Rows
    BY <1>1
  <2>2. \A i \in DOMAIN Primary : Deleted(id)[i] \in Rows
    BY <2>1 DEF Deleted, Rows
  <2>3. DOMAIN Deleted(id) = DOMAIN Primary
    BY DEF Deleted
  <2>4. Deleted(id) \in [1..Len(Primary) -> Rows]
    BY <1>1, <2>2, <2>3 DEF Deleted
  <2>5. Deleted(id) \in Seq(Rows)
    BY <1>1, <2>4
  <2>6. Len(Deleted(id)) = Len(Primary)
    BY <1>1, <2>3, <2>5
  <2>7. \A i \in DOMAIN Primary : Deleted(id)[i].name = Primary[i].name
                               /\ (Primary[i].gone => Deleted(id)[i].gone)
    BY <2>1 DEF Deleted, Rows
  <2>8. Kept(Primary, Deleted(id))
    BY <1>1, <2>6, <2>7 DEF Kept
  <2> QED BY <1>3, <2>5, <2>8
<1> QED BY <1>2, <1>4, <1>5 DEF TableStep

\* Rows of the sequence of states are rows.
LEMMA TablesTyped ==
    ASSUME TypeOK
    PROVE  /\ DOMAIN history = 1..Len(history) /\ Len(history) \in Nat \ {0}
           /\ \A v \in DOMAIN history :
                 /\ history[v] \in Seq(Rows) /\ DOMAIN history[v] = 1..Len(history[v])
                 /\ Len(history[v]) \in Nat
                 /\ \A i \in DOMAIN history[v] : history[v][i] \in Rows
           /\ Len(history) \in DOMAIN history
BY DEF TypeOK

\* The states of the table go on growing.
LEMMA GrowsOn ==
    ASSUME TypeOK, Grows, TableStep
    PROVE  Grows'
<1>1. history' \in Seq(Seq(Rows)) /\ DOMAIN history \subseteq DOMAIN history'
      /\ (\A v \in DOMAIN history : history'[v] = history[v])
      /\ (\A v \in DOMAIN history' \ DOMAIN history : history'[v] = Primary')
      /\ Kept(Primary, Primary')
  BY TableTyped
<1>2. \A v \in DOMAIN history : Kept(history[v], Primary')
  <2> TAKE v \in DOMAIN history
  <2>1. Kept(history[v], Primary)
    BY TablesTyped DEF Grows, Primary
  <2>2. DOMAIN history[v] = 1..Len(history[v]) /\ Len(history[v]) \in Nat
        /\ DOMAIN Primary = 1..Len(Primary) /\ Len(Primary) \in Nat
        /\ Len(Primary') \in Nat
    BY <1>1, TablesTyped, TableTyped DEF Primary
  <2> QED BY <1>1, <2>1, <2>2 DEF Kept
<1>3. Kept(Primary', Primary')
  <2>1. Primary' \in Seq(Rows)
    BY <1>1, TableTyped DEF Primary
  <2> QED BY <2>1 DEF Kept
<1>4. SUFFICES ASSUME NEW v \in DOMAIN history', NEW w \in DOMAIN history', v <= w
               PROVE  Kept(history'[v], history'[w])
  BY DEF Grows
<1>5. CASE w \in DOMAIN history
  <2>1. v \in DOMAIN history
    BY <1>1, <1>4, <1>5, TablesTyped
  <2> QED BY <1>1, <1>4, <1>5, <2>1 DEF Grows
<1>6. CASE w \notin DOMAIN history
  BY <1>1, <1>2, <1>3, <1>6
<1> QED BY <1>5, <1>6

\* A name goes on having one row.
LEMMA UniqueOn ==
    ASSUME TypeOK, UniqueNames, TableStep
    PROVE  UniqueNames'
<1> DEFINE n == Len(Primary)
<1>1. Primary \in Seq(Rows) /\ DOMAIN Primary = 1..n /\ n \in Nat
  BY TablesTyped DEF Primary
<1>2. Kept(Primary, Primary')
  BY TableTyped
<1>3. CASE UNCHANGED history
  BY <1>3 DEF UniqueNames, Primary
<1>4. CASE \E name \in Names : ~Taken(Primary, name) /\ Create(name, "first")
  <2> PICK name \in Names : ~Taken(Primary, name) /\ Create(name, "first")
    BY <1>4
  <2> DEFINE row == [name |-> name, nick |-> "first", gone |-> FALSE]
  <2>1. row \in Rows /\ row.name = name
    BY DEF Rows, Names
  <2> HIDE DEF row
  <2>2. history' = Append(history, Append(Primary, row))
    BY DEF Create, Write, row
  <2>3. Primary' = Append(Primary, row)
    BY <1>1, <2>1, <2>2, TablesTyped DEF Primary, TypeOK
  <2>4. DOMAIN Primary' = 1..(n + 1) /\ Primary'[n + 1] = row
        /\ \A i \in 1..n : Primary'[i] = Primary[i]
    BY <1>1, <2>1, <2>3
  <2>5. \A i \in 1..n : Primary[i].name # name
    BY <1>1 DEF Taken
  <2>6. \A i, j \in 1..(n + 1) : Primary'[i].name = Primary'[j].name => i = j
    <3> TAKE i, j \in 1..(n + 1)
    <3>1. i \in 1..n \/ i = n + 1
      BY <1>1
    <3>2. j \in 1..n \/ j = n + 1
      BY <1>1
    <3> QED BY <1>1, <2>1, <2>4, <2>5, <3>1, <3>2 DEF UniqueNames
  <2> QED BY <2>4, <2>6 DEF UniqueNames
<1>5. CASE \E id \in Live(Primary) : Write(Deleted(id))
  <2> PICK id \in Live(Primary) : Write(Deleted(id))
    BY <1>5
  <2>1. Primary' = Deleted(id)
    BY TablesTyped DEF Primary, Write, TypeOK
  <2>2. DOMAIN Primary' = DOMAIN Primary
    BY <2>1 DEF Deleted
  <2>3. \A i \in DOMAIN Primary : Primary'[i].name = Primary[i].name
    BY <1>2 DEF Kept
  <2> QED BY <2>2, <2>3 DEF UniqueNames
<1> QED BY <1>3, <1>4, <1>5 DEF TableStep

\* What can be read only gets newer, and is a state the table had.
LEMMA SourcesOn ==
    ASSUME TypeOK, TableStep, NodeStep
    PROVE  /\ shows' \in [DOMAIN shows' -> DOMAIN history'] /\ DOMAIN shows' \subseteq Replicas
           /\ \A v \in Sources' : \E w \in Sources : w <= v
<1>1. /\ DOMAIN history = 1..Len(history) /\ Len(history) \in Nat
      /\ DOMAIN history \subseteq DOMAIN history' /\ Len(history) <= Len(history')
  BY TablesTyped, TableTyped
<1>2. DOMAIN shows' = DOMAIN shows
      /\ \A r \in DOMAIN shows : shows[r] \in DOMAIN history
                                /\ shows'[r] \in DOMAIN history /\ shows[r] <= shows'[r]
  <2>1. \A r \in DOMAIN shows : shows[r] \in 1..Len(history)
    BY <1>1 DEF TypeOK
  <2>2. CASE UNCHANGED shows
    BY <1>1, <2>1, <2>2
  <2>3. CASE \E r \in DOMAIN shows :
                shows[r] < Len(history) /\ shows' = [shows EXCEPT ![r] = @ + 1]
    BY <1>1, <2>1, <2>3
  <2> QED BY <2>2, <2>3 DEF NodeStep
<1>3. shows' = [r \in DOMAIN shows |-> shows'[r]]
  BY DEF NodeStep, TypeOK
<1>4. \A v \in Sources' : \E w \in Sources : w <= v
  <2>1. CASE DOMAIN shows = {}
    BY <1>1, <1>2, <2>1 DEF Sources
  <2>2. CASE DOMAIN shows # {}
    BY <1>2, <2>2 DEF Sources
  <2> QED BY <2>1, <2>2
<1> QED BY <1>1, <1>2, <1>3, <1>4 DEF TypeOK

-----------------------------------------------------------------------------
(* What a step may do to the requests. *)

Labels == {"idle", "lookup", "find", "insert", "update", "remove", "page", "answered"}

\* A request stays one when the table grows.
LEMMA RequestsGrow ==
    ASSUME TypeOK, TableStep
    PROVE  Requests \subseteq Requests' /\ 0..Len(Primary) \subseteq 0..Len(Primary')
<1>1. DOMAIN history \subseteq DOMAIN history' /\ DOMAIN Primary \subseteq DOMAIN Primary'
      /\ Len(Primary) <= Len(Primary') /\ Primary' \in Seq(Rows) /\ Primary \in Seq(Rows)
  BY TableTyped, TablesTyped DEF Kept, Primary
<1>2. SUBSET DOMAIN Primary \subseteq SUBSET DOMAIN Primary'
  BY <1>1
<1>3. Requests \subseteq Requests'
  BY <1>1, <1>2, Zenon DEF Requests
<1> QED BY <1>1, <1>3

\* What is known of a request that does nothing stays true.
LEMMA RequestKept ==
    ASSUME Inv, TableStep, NodeStep, NEW l, NEW r \in Requests, RequestOK(l, r)
    PROVE  RequestOK(l, r)'
<1>1. r.since \in DOMAIN history /\ r.ver \in DOMAIN history /\ r.since \in Nat
  <2>1. r.since \in DOMAIN history /\ r.ver \in DOMAIN history
    BY DEF Requests
  <2> QED BY <2>1, TablesTyped DEF Inv
<1>2. history'[r.since] = history[r.since] /\ history'[r.ver] = history[r.ver]
  BY <1>1, TableTyped DEF Inv
<1>3. \A v \in Sources' : r.since <= v
  <2> TAKE v \in Sources'
  <2>1. PICK w \in Sources : w <= v
    BY SourcesOn DEF Inv
  <2>2. w \in Nat /\ r.since <= w
    BY OldestIsLeast, TablesTyped DEF Inv, RequestOK
  <2>3. v \in Nat
    BY SourcesOn, TableTyped DEF Inv, Sources
  <2> QED BY <1>1, <2>1, <2>2, <2>3
<1>4. r.found \notin Gone(history'[r.since])
  BY <1>2 DEF RequestOK
<1>5. \A i \in DOMAIN Primary : i \in DOMAIN Primary' /\ Primary'[i].name = Primary[i].name
  BY TableTyped DEF Inv, Kept
<1> QED BY <1>2, <1>3, <1>4, <1>5 DEF RequestOK

\* A request that fits its new label may take it.
Fits(l, r) == r \in Requests /\ r.found \in 0..Len(Primary) /\ RequestOK(l, r)

Counters == [requests : Nat, faults : Nat]

LEMMA Moves ==
    ASSUME Inv, TableStep, NodeStep, NEW p \in Procs, NEW l \in Labels, NEW r, Fits(l, r),
           pc' = [pc EXCEPT ![p] = l], req' = [req EXCEPT ![p] = r],
           welcomed' \subseteq DOMAIN Primary', used' \in Counters
    PROVE  Inv'
<1>1. history' \in Seq(Seq(Rows)) /\ history' # <<>>
  BY TableTyped DEF Inv
<1>2. shows' \in [DOMAIN shows' -> DOMAIN history'] /\ DOMAIN shows' \subseteq Replicas
  BY SourcesOn DEF Inv
<1>3. pc' \in [Procs -> Labels]
  BY DEF Inv, TypeOK, Labels
<1>4. Requests \subseteq Requests' /\ 0..Len(Primary) \subseteq 0..Len(Primary')
  BY RequestsGrow DEF Inv
<1>5. req \in [Procs -> Requests] /\ \A q \in Procs : req[q].found \in 0..Len(Primary)
  BY DEF Inv, TypeOK
<1>6. req' \in [Procs -> Requests']
  BY <1>4, <1>5 DEF Fits
<1>7. \A q \in Procs : req'[q].found \in 0..Len(Primary')
  BY <1>4, <1>5 DEF Fits
<1>8. TypeOK'
  BY <1>1, <1>2, <1>3, <1>6, <1>7 DEF TypeOK, Labels, Counters
<1>9. Grows' /\ UniqueNames'
  BY GrowsOn, UniqueOn DEF Inv
<1>10. ASSUME NEW q \in Procs
       PROVE  RequestOK(pc[q], req[q])'
  <2>1. CASE q = p
    <3>1. pc'[q] = l /\ req'[q] = r
      BY <2>1, <1>5 DEF Inv, TypeOK
    <3>2. RequestOK(l, r)'
      BY RequestKept DEF Fits
    <3> QED BY <3>1, <3>2 DEF RequestOK
  <2>2. CASE q # p
    <3>1. PICK m : m = pc[q]
      OBVIOUS
    <3>2. PICK s \in Requests : s = req[q]
      BY <1>5
    <3>3. pc'[q] = m /\ req'[q] = s
      BY <2>2, <1>5, <3>1, <3>2 DEF Inv, TypeOK
    <3>4. RequestOK(m, s)'
      BY <3>1, <3>2, RequestKept DEF Inv
    <3> QED BY <3>3, <3>4 DEF RequestOK
  <2> QED BY <2>1, <2>2
<1> QED BY <1>8, <1>9, <1>10 DEF Inv

\* The same for a step that leaves the table alone.
LEMMA ReqMoves ==
    ASSUME Inv, NEW p \in Procs, NEW l \in Labels, NEW r, Fits(l, r),
           pc' = [pc EXCEPT ![p] = l], req' = [req EXCEPT ![p] = r],
           UNCHANGED <<history, shows, welcomed>>, used' \in Counters
    PROVE  Inv'
<1>1. TableStep /\ NodeStep
  BY DEF TableStep, NodeStep
<1>2. welcomed' \subseteq DOMAIN Primary'
  BY DEF Inv, TypeOK, Primary
<1> QED BY <1>1, <1>2, Moves

\* What Inv says of one request.
LEMMA OneRequest ==
    ASSUME Inv, NEW p \in Procs
    PROVE  /\ req[p] \in Requests /\ req[p].found \in 0..Len(Primary)
           /\ RequestOK(pc[p], req[p]) /\ used \in Counters
           /\ welcomed \subseteq DOMAIN Primary
BY DEF Inv, TypeOK, Counters

-----------------------------------------------------------------------------
(* The steps keep the invariant. *)

\* A request that arrives.
LEMMA ArriveKeeps ==
    ASSUME Inv, NEW p \in Procs, NEW l \in Labels \ {"insert", "update", "answered"}, NEW r \in Requests,
           r.found = 0, Arrive(p, l, r)
    PROVE  Inv'
<1>1. Oldest \in DOMAIN history /\ \A v \in Sources : Oldest <= v
  BY OldestIsLeast DEF Inv
<1>2. PICK s : s = [r EXCEPT !.since = Oldest]
  OBVIOUS
<1>3. s \in Requests /\ s.found = 0 /\ s.since = Oldest
  BY <1>1, <1>2 DEF Requests
<1>4. 0 \notin Gone(history[Oldest])
  BY <1>1, TablesTyped DEF Gone, Inv
<1>5. RequestOK(l, s)
  BY <1>1, <1>3, <1>4 DEF RequestOK
<1>6. Fits(l, s)
  BY <1>3, <1>5, OneRequest DEF Fits
<1>7. used' \in Counters
  BY OneRequest DEF Arrive, Counters
<1> QED BY <1>2, <1>6, <1>7, ReqMoves DEF Arrive, Go

Calls == {"register", "seed", "login", "read", "rename", "delete", "list"}

LEMMA RequestTyped ==
    ASSUME Inv, NEW call \in Calls, NEW name \in Names, NEW id \in Nat, NEW size \in Int
    PROVE  Request(call, name, id, size) \in Requests /\ Request(call, name, id, size).found = 0
<1>1. 1 \in DOMAIN history
  BY TablesTyped DEF Inv
<1> QED BY <1>1 DEF Requests, Request, Answers, Calls, Names

LEMMA ArrivesNew ==
    ASSUME Inv, NEW p \in Procs, NEW l \in Labels \ {"insert", "update", "answered"},
           NEW call \in Calls, NEW name \in Names, NEW id \in Nat, NEW size \in Int,
           Arrive(p, l, Request(call, name, id, size))
    PROVE  Inv'
<1>1. PICK r : r = Request(call, name, id, size)
  OBVIOUS
<1> QED BY <1>1, RequestTyped, ArriveKeeps

LEMMA StartKeeps ==
    ASSUME Inv, NEW p \in Procs, Start(p)
    PROVE  Inv'
<1>1. {"lookup", "find", "remove", "page"} \subseteq Labels \ {"insert", "update", "answered"}
      /\ Blank \in Names /\ Admins \subseteq Names /\ Sizes \subseteq Int /\ 1 \in Int /\ 0 \in Nat
      /\ {"register", "seed", "login", "read", "rename", "delete", "list"} = Calls
  BY UsersAssumption DEF Labels, Names, Calls
<1>2. CASE StartRegister(p)
  BY <1>1, <1>2, ArrivesNew DEF StartRegister
<1>3. CASE StartSeed(p)
  BY <1>1, <1>3, ArrivesNew DEF StartSeed
<1>4. CASE StartLogin(p)
  BY <1>1, <1>4, ArrivesNew DEF StartLogin
<1>5. CASE StartByID(p)
  <2>1. 0..Len(Primary) \subseteq Nat
    BY TablesTyped DEF Inv, Primary
  <2>2. PICK id \in 0..Len(Primary) :
           \/ Arrive(p, "find", Request("read", Blank, id, 1))
           \/ Arrive(p, "remove", Request("delete", Blank, id, 1))
           \/ Arrive(p, "find", Request("rename", Blank, id, 1))
    BY <1>5 DEF StartByID
  <2> QED BY <1>1, <2>1, <2>2, ArrivesNew
<1>6. CASE StartList(p)
  BY <1>1, <1>6, ArrivesNew DEF StartList
<1> QED BY <1>2, <1>3, <1>4, <1>5, <1>6 DEF Start

\* Who is found in a state that can be read was not deleted in the one that was read
\* when the request arrived.
LEMMA FoundFits ==
    ASSUME Inv, NEW p \in Procs, NEW v \in Sources \cup {Len(history)},
           NEW id \in Live(history[v]) \cup {0}
    PROVE  /\ v \in DOMAIN history /\ id \in 0..Len(Primary)
           /\ id \notin Gone(history[req[p].since])
<1>1. req[p].since \in DOMAIN history
  BY OneRequest DEF Requests
<1>2. v \in DOMAIN history /\ req[p].since <= v
  <2>1. Sources \subseteq DOMAIN history /\ Oldest \in Sources
    BY OldestIsLeast DEF Inv
  <2>2. req[p].since <= Oldest /\ (v \in Sources => req[p].since <= v)
    BY <2>1, OneRequest DEF RequestOK
  <2> QED BY <1>1, <2>1, <2>2, TablesTyped DEF Inv
<1>3. Kept(history[req[p].since], history[v]) /\ Kept(history[v], Primary)
  BY <1>1, <1>2, TablesTyped DEF Inv, Grows, Primary
<1>4. DOMAIN history[v] = 1..Len(history[v]) /\ Len(history[v]) \in Nat
      /\ DOMAIN history[req[p].since] = 1..Len(history[req[p].since]) /\ Len(Primary) \in Nat
  BY <1>1, <1>2, TablesTyped DEF Inv, Primary
<1>5. CASE id = 0
  BY <1>2, <1>4, <1>5 DEF Gone
<1>6. CASE id \in Live(history[v])
  BY <1>2, <1>3, <1>4, <1>6 DEF Live, Gone, Kept
<1> QED BY <1>2, <1>5, <1>6

\* The look-ups find such users.
LEMMA LookedUp ==
    ASSUME NEW t, NEW name, NEW id
    PROVE  /\ FindByUsername(t, name) \in Live(t) \cup {0}
           /\ FindByID(t, id) \in Live(t) \cup {0}
<1>1. Named(t, name) # {} => FindByUsername(t, name) \in Named(t, name)
  BY DEF FindByUsername
<1> QED BY <1>1 DEF Named, FindByUsername, FindByID

\* A request that only moves on, with locals that fit its new label.
LEMMA GoKeeps ==
    ASSUME Inv, NEW p \in Procs, NEW from, NEW l \in Labels, NEW r, Fits(l, r),
           Go(p, from, l, r), UNCHANGED <<history, shows, welcomed>>, used' \in Counters
    PROVE  Inv'
BY ReqMoves DEF Go

\* Answers other than a refusal by the database.
LEMMA AnswerFits ==
    ASSUME Inv, NEW r \in Requests, NEW answer \in Answers, r.found \in 0..Len(Primary),
           \A v \in Sources : r.since <= v, r.found \notin Gone(history[r.since]),
           \/ answer # "database" \/ r.call # "register" \/ r.failed
           \/ \E i \in DOMAIN Primary :
                 Primary[i].name = r.name /\ i \notin Live(history[r.ver])
    PROVE  Fits("answered", [r EXCEPT !.answer = answer])
<1>1. PICK s : s = [r EXCEPT !.answer = answer]
  OBVIOUS
<1>2. s \in Requests
  BY <1>1 DEF Requests
<1>3. /\ s.found = r.found /\ s.since = r.since /\ s.call = r.call /\ s.name = r.name
      /\ s.ver = r.ver /\ s.failed = r.failed /\ s.answer = answer
  BY <1>1 DEF Requests
<1>4. RequestOK("answered", s)
  BY <1>3 DEF RequestOK
<1> QED BY <1>1, <1>2, <1>3, <1>4 DEF Fits

\* What a read leaves behind.
LEMMA SawFits ==
    ASSUME Inv, NEW p \in Procs, NEW v \in Sources \cup {Len(history)},
           NEW id \in Live(history[v]) \cup {0},
           NEW s \in {Found(p, id), Saw(p, v, id)}
    PROVE  /\ s \in Requests /\ s.found = id /\ s.found \in 0..Len(Primary)
           /\ s.call = req[p].call /\ s.name = req[p].name /\ s.failed = req[p].failed
           /\ (s = Saw(p, v, id) => s.ver = v)
           /\ \A w \in Sources : s.since <= w
           /\ s.found \notin Gone(history[s.since])
<1>1. v \in DOMAIN history /\ id \in 0..Len(Primary) /\ id \notin Gone(history[req[p].since])
  BY FoundFits
<1>2. id \in Nat
  BY <1>1, TablesTyped DEF Inv, Primary
<1>3. /\ s \in Requests /\ s.found = id /\ s.since = req[p].since
      /\ s.call = req[p].call /\ s.name = req[p].name /\ s.failed = req[p].failed
      /\ (s = Saw(p, v, id) => s.ver = v)
  <2>1. req[p] \in Requests
    BY OneRequest
  <2>2. CASE s = Found(p, id)
    BY <1>1, <1>2, <2>1, <2>2 DEF Found, Saw, Requests
  <2>3. CASE s = Saw(p, v, id)
    BY <1>1, <1>2, <2>1, <2>3 DEF Found, Saw, Requests
  <2> QED BY <2>2, <2>3
<1> QED BY <1>1, <1>3, OneRequest DEF RequestOK

LEMMA LookUpKeeps ==
    ASSUME Inv, NEW p \in Procs, LookUp(p)
    PROVE  Inv'
<1>1. PICK v \in Sources :
         LET id == FindByUsername(history[v], req[p].name)
         IN  /\ \/ /\ req[p].call = "register" /\ id # 0
                   /\ Answer(p, "lookup", Saw(p, v, id), "exists")
                \/ /\ req[p].call = "register" /\ id = 0
                   /\ Go(p, "lookup", "insert", Saw(p, v, id))
                \/ /\ req[p].call = "login"
                   /\ Answer(p, "lookup", Found(p, id), IF id = 0 THEN "notFound" ELSE "ok")
             /\ UNCHANGED <<history, shows, welcomed, used>>
  BY DEF LookUp
<1>2. PICK id : id = FindByUsername(history[v], req[p].name)
  OBVIOUS
<1>3. id \in Live(history[v]) \cup {0}
  BY <1>2, LookedUp
<1>4. used' \in Counters
  BY <1>1, OneRequest
<1>5. "answered" \in Labels /\ "insert" \in Labels
  BY DEF Labels
<1>6. ASSUME NEW s \in {Found(p, id), Saw(p, v, id)}, NEW answer \in Answers \ {"database"},
             Answer(p, "lookup", s, answer)
      PROVE  Inv'
  <2>1. Fits("answered", [s EXCEPT !.answer = answer])
    BY <1>3, SawFits, AnswerFits
  <2>2. PICK r : r = [s EXCEPT !.answer = answer]
    OBVIOUS
  <2> QED BY <1>1, <1>4, <1>5, <1>6, <2>1, <2>2, GoKeeps DEF Answer
<1>7. ASSUME id = 0, req[p].call = "register", Go(p, "lookup", "insert", Saw(p, v, id))
      PROVE  Inv'
  <2>1. Named(history[v], req[p].name) = {}
    <3>1. 0 \notin Live(history[v])
      BY <1>3, FoundFits, TablesTyped DEF Live, Inv
    <3>2. Named(history[v], req[p].name) # {} =>
             FindByUsername(history[v], req[p].name) \in Named(history[v], req[p].name)
      BY DEF FindByUsername
    <3> QED BY <1>2, <1>7, <3>1, <3>2 DEF Named
  <2>2. PICK s : s = Saw(p, v, id)
    OBVIOUS
  <2>3. Fits("insert", s)
    <3>1. s \in {Found(p, id), Saw(p, v, id)}
      BY <2>2
    <3> QED BY <1>3, <2>1, <2>2, <3>1, SawFits DEF Fits, RequestOK
  <2> QED BY <1>1, <1>4, <1>5, <1>7, <2>2, <2>3, GoKeeps
<1> QED BY <1>1, <1>2, <1>6, <1>7 DEF Answers

LEMMA LookUpAdminKeeps ==
    ASSUME Inv, NEW p \in Procs, LookUpAdmin(p)
    PROVE  Inv'
<1>1. PICK id : id = FindByUsername(Primary, req[p].name)
  OBVIOUS
<1>2. id \in Live(history[Len(history)]) \cup {0}
  BY <1>1, LookedUp DEF Primary
<1>3. PICK s : s = Found(p, id)
  OBVIOUS
<1>4. PICK l \in {"insert", "update"} : Go(p, "lookup", l, s)
  BY <1>1, <1>3 DEF LookUpAdmin
<1>5. s \in {Found(p, id), Saw(p, Len(history), id)}
  BY <1>3
<1>6. s \in Requests /\ s.found \in 0..Len(Primary) /\ s.call = req[p].call
      /\ (\A w \in Sources : s.since <= w) /\ s.found \notin Gone(history[s.since])
  BY <1>2, <1>5, SawFits
<1>7. Fits(l, s)
  BY <1>4, <1>6 DEF Fits, RequestOK, LookUpAdmin
<1>8. used' \in Counters /\ l \in Labels
  BY <1>4, OneRequest DEF LookUpAdmin, Labels
<1> QED BY <1>4, <1>7, <1>8, GoKeeps DEF LookUpAdmin

LEMMA FindKeeps ==
    ASSUME Inv, NEW p \in Procs, Find(p)
    PROVE  Inv'
<1>1. PICK v \in Sources :
         LET id == FindByID(history[v], req[p].id)
         IN  /\ \/ id = 0 /\ Answer(p, "find", Found(p, 0), "notFound")
                \/ /\ id # 0 /\ req[p].call = "read"
                   /\ Answer(p, "find", Found(p, id), "ok")
                \/ /\ id # 0 /\ req[p].call = "rename"
                   /\ Answer(p, "find", Found(p, id), "invalid")
                \/ /\ id # 0 /\ req[p].call = "rename"
                   /\ \E nick \in Nicks :
                         Go(p, "find", "update", [Found(p, id) EXCEPT !.nick = nick])
             /\ UNCHANGED <<history, shows, welcomed, used>>
  BY DEF Find
<1>2. PICK id : id = FindByID(history[v], req[p].id)
  OBVIOUS
<1>3. id \in Live(history[v]) \cup {0}
  BY <1>2, LookedUp
<1>4. PICK s : s = Found(p, id)
  OBVIOUS
<1>5. /\ s \in Requests /\ s.found \in 0..Len(Primary) /\ s.call = req[p].call
      /\ (\A w \in Sources : s.since <= w) /\ s.found \notin Gone(history[s.since])
  BY <1>3, <1>4, SawFits
<1>6. used' \in Counters /\ {"answered", "update"} \subseteq Labels
  BY <1>1, OneRequest DEF Labels
<1>7. ASSUME NEW answer \in Answers \ {"database"}, Answer(p, "find", s, answer)
      PROVE  Inv'
  <2>1. PICK r : r = [s EXCEPT !.answer = answer]
    OBVIOUS
  <2>2. Fits("answered", r)
    BY <1>5, <2>1, AnswerFits
  <2> QED BY <1>1, <1>6, <1>7, <2>1, <2>2, GoKeeps DEF Answer
<1>8. ASSUME NEW nick \in Nicks, req[p].call = "rename",
             Go(p, "find", "update", [s EXCEPT !.nick = nick])
      PROVE  Inv'
  <2>1. PICK r : r = [s EXCEPT !.nick = nick]
    OBVIOUS
  <2>2. r \in Requests /\ r.found = s.found /\ r.since = s.since /\ r.call = "rename"
    BY <1>5, <1>8, <2>1 DEF Requests
  <2>3. Fits("update", r)
    BY <1>5, <2>2 DEF Fits, RequestOK
  <2> QED BY <1>1, <1>6, <1>8, <2>1, <2>3, GoKeeps
<1> QED BY <1>1, <1>2, <1>4, <1>7, <1>8 DEF Answers

\* An answer to a request whose locals stay what they are.
LEMMA PlainAnswerFits ==
    ASSUME Inv, NEW p \in Procs, NEW answer \in Answers,
           \/ answer # "database" \/ req[p].call # "register" \/ req[p].failed
           \/ \E i \in DOMAIN Primary :
                 Primary[i].name = req[p].name /\ i \notin Live(history[req[p].ver])
    PROVE  Fits("answered", [req[p] EXCEPT !.answer = answer])
<1>1. PICK r : r = req[p]
  OBVIOUS
<1> QED BY <1>1, OneRequest, AnswerFits DEF RequestOK

\* A name that is taken and was not seen belongs to a user that could not be seen.
LEMMA RefusalHasCause ==
    ASSUME Inv, NEW p \in Procs, pc[p] = "insert", req[p].call = "register", ~req[p].failed,
           Taken(Primary, req[p].name)
    PROVE  \E i \in DOMAIN Primary :
              Primary[i].name = req[p].name /\ i \notin Live(history[req[p].ver])
<1>1. PICK i \in DOMAIN Primary : Primary[i].name = req[p].name
  BY DEF Taken
<1>2. Named(history[req[p].ver], req[p].name) = {}
  BY OneRequest DEF RequestOK
<1>3. Kept(history[req[p].ver], Primary)
  <2>1. req[p].ver \in DOMAIN history
    BY OneRequest DEF Requests
  <2> QED BY <2>1, TablesTyped DEF Inv, Grows, Primary
<1>4. i \in Live(history[req[p].ver]) => history[req[p].ver][i].name = req[p].name
  BY <1>1, <1>3 DEF Kept, Live
<1> QED BY <1>1, <1>2, <1>4 DEF Named

LEMMA InsertKeeps ==
    ASSUME Inv, NEW p \in Procs, Insert(p)
    PROVE  Inv'
<1>1. used' \in Counters /\ "answered" \in Labels /\ req[p].name \in Names
      /\ {"ok", "database"} \subseteq Answers
  BY OneRequest DEF Insert, Labels, Requests, Names, Answers
<1>2. NodeStep
  BY DEF Insert, NodeStep
<1>3. CASE /\ ~Taken(Primary, req[p].name) /\ Create(req[p].name, "first")
           /\ Answer(p, "insert", req[p], "ok")
           /\ welcomed' = welcomed \cup {Len(Primary) + 1}
  <2>1. TableStep
    BY <1>1, <1>3 DEF TableStep
  <2>2. welcomed' \subseteq DOMAIN Primary'
    <3>1. welcomed \subseteq DOMAIN Primary'
      BY <2>1, OneRequest, TableTyped DEF Inv
    <3>2. Len(Primary) + 1 \in DOMAIN Primary'
      <4>1. PICK row : row = [name |-> req[p].name, nick |-> "first", gone |-> FALSE]
        OBVIOUS
      <4>2. row \in Rows
        BY <1>1, <4>1 DEF Rows, Names
      <4>3. Primary' = Append(Primary, row) /\ Primary \in Seq(Rows)
        BY <1>3, <4>1, <4>2, TablesTyped DEF Create, Write, Primary, Inv, TypeOK
      <4> QED BY <4>2, <4>3
    <3> QED BY <1>3, <3>1, <3>2
  <2>3. PICK r : r = [req[p] EXCEPT !.answer = "ok"]
    OBVIOUS
  <2>4. Fits("answered", r)
    BY <1>1, <2>3, PlainAnswerFits
  <2> QED BY <1>1, <1>2, <1>3, <2>1, <2>2, <2>3, <2>4, Moves DEF Answer, Go
<1>4. CASE /\ Taken(Primary, req[p].name) /\ Answer(p, "insert", req[p], "database")
           /\ UNCHANGED <<history, welcomed>>
  <2>1. PICK r : r = [req[p] EXCEPT !.answer = "database"]
    OBVIOUS
  <2>2. pc[p] = "insert"
    BY <1>4 DEF Answer, Go
  <2>3. Fits("answered", r)
    BY <1>1, <1>4, <2>1, <2>2, PlainAnswerFits, RefusalHasCause
  <2> QED BY <1>1, <1>4, <2>1, <2>3, GoKeeps DEF Answer, Insert
<1> QED BY <1>3, <1>4 DEF Insert

\* MySQL refuses both updates.
LEMMA NotAccepted == ~Accepted(SavedColumns) /\ ~Accepted(SeedColumns)
<1>1. "nick_name" \in SavedColumns /\ "nick_name" \notin UserColumns
  BY DEF SavedColumns, UserColumns
<1>2. "name" \in SeedColumns /\ "name" \notin UserColumns
  BY DEF SeedColumns, UserColumns
<1> QED BY <1>1, <1>2 DEF Accepted

LEMMA UpdateKeeps ==
    ASSUME Inv, NEW p \in Procs, Update(p)
    PROVE  Inv' /\ UNCHANGED history
<1>1. Answer(p, "update", req[p], "database") /\ UNCHANGED <<history, shows, welcomed, used>>
  BY NotAccepted DEF Update
<1>2. pc[p] = "update" /\ used' \in Counters /\ "answered" \in Labels /\ "database" \in Answers
  BY <1>1, OneRequest DEF Answer, Go, Labels, Answers
<1>3. req[p].call # "register"
  BY <1>2, OneRequest DEF RequestOK
<1>4. PICK r : r = [req[p] EXCEPT !.answer = "database"]
  OBVIOUS
<1>5. Fits("answered", r)
  BY <1>2, <1>3, <1>4, PlainAnswerFits
<1> QED BY <1>1, <1>2, <1>4, <1>5, GoKeeps DEF Answer

LEMMA RemoveKeeps ==
    ASSUME Inv, NEW p \in Procs, Remove(p)
    PROVE  Inv' /\ TableStep
<1>1. Answer(p, "remove", req[p], "ok") /\ UNCHANGED <<shows, welcomed, used>>
  BY DEF Remove
<1>2. TableStep /\ NodeStep
  BY DEF Remove, TableStep, NodeStep
<1>3. welcomed' \subseteq DOMAIN Primary'
  BY <1>1, <1>2, OneRequest, TableTyped DEF Inv
<1>4. used' \in Counters /\ "answered" \in Labels /\ "ok" \in Answers
  BY <1>1, OneRequest DEF Labels, Answers
<1>5. PICK r : r = [req[p] EXCEPT !.answer = "ok"]
  OBVIOUS
<1>6. Fits("answered", r)
  BY <1>4, <1>5, PlainAnswerFits
<1> QED BY <1>1, <1>2, <1>3, <1>4, <1>5, <1>6, Moves DEF Answer, Go

\* A page is made of users of the state it is read from, who all have rows.
LEMMA PageTyped ==
    ASSUME Inv, NEW v \in DOMAIN history, NEW page, NEW size
    PROVE  Page(history[v], page, size) \subseteq DOMAIN Primary
<1>1. Kept(history[v], Primary)
  BY TablesTyped DEF Inv, Grows, Primary
<1>2. DOMAIN history[v] = 1..Len(history[v]) /\ Len(history[v]) \in Nat
      /\ DOMAIN Primary = 1..Len(Primary) /\ Len(Primary) \in Nat
  BY TablesTyped DEF Inv, Primary
<1> QED BY <1>1, <1>2 DEF Kept, Page, Live

LEMMA ListKeeps ==
    ASSUME Inv, NEW p \in Procs, List(p)
    PROVE  Inv'
<1>1. PICK v \in Sources :
       LET r == req[p]
           ids == Page(history[v], r.page, r.size)
           read == [r EXCEPT !.ver = v, !.from = IF r.page = 1 THEN v ELSE @,
                             !.page = IF ids = {} THEN @ ELSE @ + 1,
                             !.seen = @ \cup ids, !.twice = @ \/ ids \cap r.seen # {}]
       IN  /\ \/ ids = {} /\ Answer(p, "page", read, "ok")
              \/ ids # {} /\ Go(p, "page", "page", read)
           /\ UNCHANGED <<history, shows, welcomed, used>>
  BY DEF List
<1>2. PICK r : r = req[p]
  OBVIOUS
<1>3. PICK ids : ids = Page(history[v], r.page, r.size)
  OBVIOUS
<1>4. PICK from : from = IF r.page = 1 THEN v ELSE r.from
  OBVIOUS
<1>5. PICK page : page = IF ids = {} THEN r.page ELSE r.page + 1
  OBVIOUS
<1>6. PICK twice : twice = (r.twice \/ ids \cap r.seen # {})
  OBVIOUS
<1>7. PICK read : read = [r EXCEPT !.ver = v, !.from = from, !.page = page,
                                   !.seen = @ \cup ids, !.twice = twice]
  OBVIOUS
<1>8. /\ \/ ids = {} /\ Answer(p, "page", read, "ok")
         \/ ids # {} /\ Go(p, "page", "page", read)
      /\ UNCHANGED <<history, shows, welcomed, used>>
  BY <1>1, <1>2, <1>3, <1>4, <1>5, <1>6, <1>7
<1>9. v \in DOMAIN history
  BY OldestIsLeast DEF Inv
<1>10. r \in Requests /\ r.page \in Nat \ {0} /\ r.from \in DOMAIN history /\ r.twice \in BOOLEAN
       /\ r.seen \subseteq DOMAIN Primary
  BY <1>2, OneRequest DEF Requests
<1>11. ids \subseteq DOMAIN Primary
  BY <1>3, <1>9, PageTyped
<1>12. from \in DOMAIN history /\ page \in Nat \ {0} /\ twice \in BOOLEAN
       /\ r.seen \cup ids \subseteq DOMAIN Primary
  BY <1>4, <1>5, <1>6, <1>9, <1>10, <1>11
<1>13. read \in Requests
  BY <1>7, <1>9, <1>10, <1>12 DEF Requests
<1>14. read.found = r.found /\ read.since = r.since /\ read.call = r.call
  BY <1>7, <1>10 DEF Requests
<1>15. used' \in Counters /\ {"answered", "page"} \subseteq Labels /\ "ok" \in Answers
  BY <1>8, OneRequest DEF Labels, Answers
<1>16. /\ read.found \in 0..Len(Primary) /\ \A w \in Sources : read.since <= w
       /\ read.found \notin Gone(history[read.since])
  BY <1>2, <1>14, OneRequest DEF RequestOK
<1>17. CASE Go(p, "page", "page", read)
  <2>1. Fits("page", read)
    BY <1>13, <1>16 DEF Fits, RequestOK
  <2> QED BY <1>8, <1>15, <1>17, <2>1, GoKeeps
<1>18. CASE Answer(p, "page", read, "ok")
  <2>1. PICK s : s = [read EXCEPT !.answer = "ok"]
    OBVIOUS
  <2>2. Fits("answered", s)
    BY <1>13, <1>15, <1>16, <2>1, AnswerFits
  <2> QED BY <1>8, <1>15, <1>18, <2>1, <2>2, GoKeeps DEF Answer
<1> QED BY <1>8, <1>17, <1>18

LEMMA DoneKeeps ==
    ASSUME Inv, NEW p \in Procs, Done(p)
    PROVE  Inv'
<1>1. PICK r : r = IdleReq
  OBVIOUS
<1>2. r \in Requests /\ r.found = 0 /\ r.since = 1 /\ r.call = "read"
  <2>1. "read" \in Calls /\ Blank \in Names /\ 0 \in Nat /\ 1 \in Int
    BY DEF Calls, Names
  <2>2. Request("read", Blank, 0, 1) \in Requests
    BY <2>1, RequestTyped
  <2>3. r.found = 0 /\ r.since = 1 /\ r.call = "read"
    BY <1>1 DEF IdleReq, Request
  <2> QED BY <1>1, <2>2, <2>3 DEF IdleReq
<1>3. Sources \subseteq Nat \ {0} /\ 0 \notin Gone(history[1]) /\ 0 \in 0..Len(Primary)
  BY OldestIsLeast, TablesTyped DEF Inv, Gone, Primary
<1>4. Fits("idle", r)
  BY <1>2, <1>3 DEF Fits, RequestOK
<1>5. used' \in Counters /\ "idle" \in Labels
  BY OneRequest DEF Done, Labels
<1> QED BY <1>1, <1>4, <1>5, GoKeeps DEF Done

\* What a step that fails leaves of the request, and of the table.
LEMMA FaultKeeps ==
    ASSUME Inv, NEW p \in Procs, Fault(p)
    PROVE  Inv' /\ TableStep
<1>1. PICK r : r = [req[p] EXCEPT !.failed = TRUE]
  OBVIOUS
<1>2. /\ r \in Requests /\ r.failed /\ r.call = req[p].call /\ r.found = req[p].found
      /\ r.since = req[p].since /\ r.name = req[p].name /\ r.id = req[p].id
  BY <1>1, OneRequest DEF Requests
<1>3. /\ r.found \in 0..Len(Primary) /\ (\A w \in Sources : r.since <= w)
      /\ r.found \notin Gone(history[r.since])
  BY <1>2, OneRequest DEF RequestOK
<1>4. used' \in Counters /\ {"answered", "insert"} \subseteq Labels /\ "database" \in Answers
  BY OneRequest DEF Fault, Labels, Counters, Answers
<1>5. TableStep
  <2>1. r.name \in Names
    BY <1>2 DEF Requests, Names
  <2> QED BY <1>1, <2>1 DEF Fault, TableStep
<1>6. NodeStep /\ UNCHANGED <<shows, welcomed>>
  BY DEF Fault, NodeStep
<1>7. welcomed' \subseteq DOMAIN Primary'
  BY <1>5, <1>6, OneRequest, TableTyped DEF Inv
<1>8. CASE Go(p, "lookup", "insert", r)
  <2>1. Fits("insert", r)
    BY <1>2, <1>3 DEF Fits, RequestOK
  <2> QED BY <1>4, <1>5, <1>6, <1>7, <1>8, <2>1, Moves DEF Go
<1>9. CASE \E from \in Labels : Answer(p, from, r, "database")
  <2>1. PICK s : s = [r EXCEPT !.answer = "database"]
    OBVIOUS
  <2>2. Fits("answered", s)
    BY <1>2, <1>3, <1>4, <2>1, AnswerFits
  <2> QED BY <1>4, <1>5, <1>6, <1>7, <1>9, <2>1, <2>2, Moves DEF Answer, Go
<1>10. Go(p, "lookup", "insert", r) \/ \E from \in Labels : Answer(p, from, r, "database")
  BY <1>1 DEF Fault, Labels
<1> QED BY <1>5, <1>8, <1>9, <1>10

LEMMA ReplicateKeeps ==
    ASSUME Inv, NEW r \in DOMAIN shows, Replicate(r)
    PROVE  Inv'
<1>1. TableStep /\ NodeStep /\ UNCHANGED <<history, pc, req, welcomed, used>>
  BY DEF Replicate, TableStep, NodeStep
<1>2. TypeOK'
  BY <1>1, SourcesOn DEF Inv, TypeOK, Requests, Primary
<1>3. Grows' /\ UniqueNames'
  BY <1>1 DEF Inv, Grows, UniqueNames, Primary
<1>4. ASSUME NEW q \in Procs
      PROVE  RequestOK(pc[q], req[q])'
  <2>1. PICK m : m = pc[q]
    OBVIOUS
  <2>2. PICK s \in Requests : s = req[q]
    BY OneRequest
  <2>3. RequestOK(m, s)'
    BY <1>1, <2>1, <2>2, RequestKept DEF Inv
  <2> QED BY <1>1, <2>1, <2>2, <2>3 DEF RequestOK
<1> QED BY <1>2, <1>3, <1>4 DEF Inv

\* A step that changes nothing.
LEMMA StutterKeeps ==
    ASSUME Inv, UNCHANGED vars
    PROVE  Inv'
<1>1. UNCHANGED <<history, shows, pc, req, welcomed, used>>
  BY DEF vars
<1>2. UNCHANGED <<Primary, Sources, Requests>>
  BY <1>1 DEF Primary, Sources, Requests
<1> QED BY <1>1, <1>2 DEF Inv, TypeOK, Grows, UniqueNames, RequestOK

LEMMA InvNext ==
    ASSUME Inv, [Next]_vars
    PROVE  Inv' /\ TableStep
<1>1. ASSUME NEW p \in Procs, Start(p) \/ Step(p) \/ Fault(p)
      PROVE  Inv' /\ TableStep
  <2>1. CASE Start(p)
    BY <2>1, StartKeeps DEF Start, StartRegister, StartSeed, StartLogin, StartByID, StartList,
                            Arrive, TableStep
  <2>2. CASE LookUp(p) \/ LookUpAdmin(p) \/ Find(p) \/ List(p) \/ Done(p)
    BY <2>2, LookUpKeeps, LookUpAdminKeeps, FindKeeps, ListKeeps, DoneKeeps
       DEF LookUp, LookUpAdmin, Find, List, Done, TableStep
  <2>3. CASE Insert(p)
    <3>1. req[p].name \in Names
      BY OneRequest DEF Requests, Names
    <3> QED BY <2>3, <3>1, InsertKeeps DEF Insert, TableStep
  <2>4. CASE Update(p)
    BY <2>4, UpdateKeeps DEF TableStep
  <2>5. CASE Remove(p)
    BY <2>5, RemoveKeeps
  <2>6. CASE Fault(p)
    BY <2>6, FaultKeeps
  <2> QED BY <1>1, <2>1, <2>2, <2>3, <2>4, <2>5, <2>6 DEF Step
<1>2. ASSUME NEW r \in DOMAIN shows, Replicate(r)
      PROVE  Inv' /\ TableStep
  BY <1>2, ReplicateKeeps DEF Replicate, TableStep
<1>3. CASE UNCHANGED vars
  BY <1>3, StutterKeeps DEF vars, TableStep
<1> QED BY <1>1, <1>2, <1>3 DEF Next, Quiet

LEMMA InvInit == Init => Inv
<1> SUFFICES ASSUME Init
             PROVE  Inv
  OBVIOUS
<1>1. history = << <<>> >> /\ Len(history) = 1 /\ Primary = <<>> /\ DOMAIN history = {1}
  BY DEF Init, Primary
<1>2. history \in Seq(Seq(Rows)) /\ history # <<>> /\ Len(Primary) = 0 /\ DOMAIN Primary = {}
  BY <1>1
<1>3. PICK nodes \in SUBSET Replicas : shows = [r \in nodes |-> 1]
  BY DEF Init
<1>4. Sources = {1}
  BY <1>1, <1>3 DEF Sources
<1>5. IdleReq \in Requests
  BY <1>1 DEF IdleReq, Request, Requests, Answers
<1>6. TypeOK
  <2>1. shows \in [DOMAIN shows -> DOMAIN history] /\ DOMAIN shows \subseteq Replicas
    BY <1>1, <1>3
  <2>2. \A p \in Procs : req[p].found \in 0..Len(Primary)
    <3>1. IdleReq.found = 0
      BY DEF IdleReq, Request
    <3> QED BY <1>2, <3>1 DEF Init
  <2>3. req \in [Procs -> Requests]
    BY <1>5 DEF Init
  <2>4. welcomed \subseteq DOMAIN Primary /\ used \in [requests : Nat, faults : Nat]
    BY DEF Init
  <2> QED BY <1>2, <2>1, <2>2, <2>3, <2>4 DEF TypeOK, Init
<1>7. Grows /\ UniqueNames
  BY <1>1, <1>2 DEF Grows, UniqueNames, Kept
<1>8. RequestOK("idle", IdleReq)
  BY <1>1, <1>4 DEF RequestOK, IdleReq, Request, Gone
<1> QED BY <1>6, <1>7, <1>8 DEF Inv, Init

-----------------------------------------------------------------------------
(* The accounts implement Directory. *)

\* The statement that creates a user is the only one to report a creation.
LEMMA WelcomeStep ==
    ASSUME Inv, [Next]_vars
    PROVE  \/ UNCHANGED welcomed
           \/ \E name \in Names : /\ ~Taken(Primary, name) /\ Create(name, "first")
                                  /\ welcomed' = welcomed \cup {Len(Primary) + 1}
<1>1. ASSUME NEW p \in Procs, Insert(p)
      PROVE  \/ UNCHANGED welcomed
             \/ \E name \in Names : /\ ~Taken(Primary, name) /\ Create(name, "first")
                                    /\ welcomed' = welcomed \cup {Len(Primary) + 1}
  <2>1. req[p].name \in Names
    BY OneRequest DEF Requests, Names
  <2> QED BY <1>1, <2>1 DEF Insert
<1>2. ASSUME NEW p \in Procs, Start(p) \/ LookUp(p) \/ LookUpAdmin(p) \/ Find(p)
      PROVE  UNCHANGED welcomed
  BY <1>2 DEF Start, StartRegister, StartSeed, StartLogin, StartByID, StartList, Arrive,
              LookUp, LookUpAdmin, Find
<1>3. ASSUME NEW p \in Procs, Update(p) \/ Remove(p) \/ List(p) \/ Done(p) \/ Fault(p)
      PROVE  UNCHANGED welcomed
  BY <1>3 DEF Update, Remove, List, Done, Fault
<1> QED BY <1>1, <1>2, <1>3 DEF Next, Step, Replicate, Quiet, vars

\* A row that is added gives its name, which nobody had.
LEMMA JoinKept ==
    ASSUME TypeOK, NEW name \in Names, ~Taken(Primary, name), Create(name, "first"),
           \/ UNCHANGED welcomed
           \/ welcomed' = welcomed \cup {Len(Primary) + 1}
    PROVE  Promise!Join(name)
<1>0. PICK n : n = Len(Primary)
  OBVIOUS
<1>1. Primary \in Seq(Rows) /\ DOMAIN Primary = 1..n /\ n \in Nat
  BY <1>0, TablesTyped DEF Primary
<1>2. PICK row : row = [name |-> name, nick |-> "first", gone |-> FALSE]
  OBVIOUS
<1>3. row \in Rows /\ row.name = name /\ ~row.gone
  BY <1>2 DEF Rows, Names
<1>4. Primary' = Append(Primary, row)
  BY <1>1, <1>2, <1>3, TablesTyped DEF Primary, TypeOK, Create, Write
<1>5. /\ DOMAIN Primary' = (DOMAIN Primary) \cup {n + 1} /\ Primary'[n + 1] = row
      /\ n + 1 \notin DOMAIN Primary /\ \A i \in DOMAIN Primary : Primary'[i] = Primary[i]
  BY <1>1, <1>3, <1>4
<1>6. Live(Primary') = Live(Primary) \cup {n + 1}
  BY <1>3, <1>5 DEF Live
<1>7. \A ids \in SUBSET DOMAIN Primary :
         /\ NamesOf(ids)' = NamesOf(ids)
         /\ NamesOf(ids \cup {n + 1})' = NamesOf(ids) \cup {name}
  <2> TAKE ids \in SUBSET DOMAIN Primary
  <2>1. NamesOf(ids)' = NamesOf(ids)
    BY <1>5 DEF NamesOf
  <2>2. NamesOf(ids \cup {n + 1})' = NamesOf(ids)' \cup {name}
    BY <1>3, <1>5 DEF NamesOf
  <2> QED BY <2>1, <2>2
<1>8. Live(Primary) \subseteq DOMAIN Primary /\ welcomed \subseteq DOMAIN Primary
  BY DEF Live, TypeOK
<1>9. name \notin NamesOf(DOMAIN Primary)
  BY DEF NamesOf, Taken
<1>10. NamesOf(DOMAIN Primary)' = NamesOf(DOMAIN Primary) \cup {name}
  <2>1. PICK ids \in SUBSET DOMAIN Primary : ids = DOMAIN Primary
    OBVIOUS
  <2>2. NamesOf(DOMAIN Primary)' = NamesOf(ids \cup {n + 1})'
    BY <1>5, <2>1 DEF NamesOf
  <2> QED BY <1>7, <2>1, <2>2
<1>11. NamesOf(Live(Primary))' = NamesOf(Live(Primary)) \cup {name}
  <2>1. PICK ids \in SUBSET DOMAIN Primary : ids = Live(Primary)
    BY <1>8
  <2>2. NamesOf(Live(Primary))' = NamesOf(ids \cup {n + 1})'
    BY <1>6, <2>1 DEF NamesOf
  <2> QED BY <1>7, <2>1, <2>2
<1>12. NamesOf(welcomed)' \in {NamesOf(welcomed), NamesOf(welcomed) \cup {name}}
  <2>1. PICK ids \in SUBSET DOMAIN Primary : ids = welcomed
    BY <1>8
  <2>2. welcomed' = ids \/ welcomed' = ids \cup {n + 1}
    BY <1>0, <2>1
  <2>3. NamesOf(welcomed)' = NamesOf(ids)' \/ NamesOf(welcomed)' = NamesOf(ids \cup {n + 1})'
    BY <2>2 DEF NamesOf
  <2> QED BY <1>7, <2>1, <2>3
<1> QED BY <1>9, <1>10, <1>11, <1>12 DEF Promise!Join

\* A row that is marked deleted takes its name from the members.
LEMMA LeaveKept ==
    ASSUME TypeOK, UniqueNames, NEW id \in Live(Primary), Write(Deleted(id)),
           UNCHANGED welcomed
    PROVE  Promise!Leave(Primary[id].name)
<1>1. Primary' = Deleted(id)
  BY TablesTyped DEF Primary, Write, TypeOK
<1>2. DOMAIN Primary' = DOMAIN Primary /\ id \in DOMAIN Primary
  BY <1>1 DEF Deleted, Live
<1>3. \A i \in DOMAIN Primary : Primary[i] \in Rows
  BY TablesTyped DEF Primary
<1>4. \A i \in DOMAIN Primary : /\ Primary'[i].name = Primary[i].name
                               /\ Primary'[i].gone = (i = id \/ Primary[i].gone)
  BY <1>1, <1>3 DEF Deleted, Rows
<1>5. Live(Primary') = Live(Primary) \ {id}
  BY <1>2, <1>4 DEF Live
<1>6. \A ids \in SUBSET DOMAIN Primary : NamesOf(ids)' = NamesOf(ids)
  BY <1>2, <1>4 DEF NamesOf
<1>7. welcomed \subseteq DOMAIN Primary /\ Live(Primary) \subseteq DOMAIN Primary
  BY DEF TypeOK, Live
<1>8. NamesOf(DOMAIN Primary)' = NamesOf(DOMAIN Primary)
      /\ NamesOf(welcomed)' = NamesOf(welcomed)
  BY <1>2, <1>6, <1>7 DEF NamesOf
<1>9. NamesOf(Live(Primary) \ {id}) = NamesOf(Live(Primary)) \ {Primary[id].name}
  BY <1>2, <1>7 DEF NamesOf, UniqueNames
<1>10. NamesOf(Live(Primary))' = NamesOf(Live(Primary)) \ {Primary[id].name}
  BY <1>5, <1>6, <1>7, <1>9 DEF NamesOf
<1>11. Primary[id].name \in NamesOf(Live(Primary))
  BY DEF NamesOf
<1> QED BY <1>8, <1>10, <1>11 DEF Promise!Leave

\* A step of the accounts is one of Directory, or changes nothing there.
LEMMA PromiseStep ==
    ASSUME Inv, [Next]_vars
    PROVE  [Promise!Next]_(Promise!vars)
<1>1. TableStep /\ TypeOK /\ UniqueNames
  BY InvNext DEF Inv
<1>2. CASE UNCHANGED history /\ UNCHANGED welcomed
  BY <1>2 DEF Promise!vars, NamesOf, Primary, Live
<1>3. CASE \E name \in Names : /\ ~Taken(Primary, name) /\ Create(name, "first")
                               /\ welcomed' \in {welcomed, welcomed \cup {Len(Primary) + 1}}
  BY <1>1, <1>3, JoinKept DEF Promise!Next, Names
<1>4. CASE UNCHANGED welcomed /\ \E id \in Live(Primary) : Write(Deleted(id))
  <2>1. PICK id \in Live(Primary) : Write(Deleted(id))
    BY <1>4
  <2>2. Promise!Leave(Primary[id].name)
    BY <1>1, <1>4, <2>1, LeaveKept
  <2>3. Primary[id].name \in Names
    BY <1>1, TablesTyped DEF Primary, Live, Rows, Names
  <2> QED BY <2>2, <2>3 DEF Promise!Next, Names
<1> QED BY <1>1, <1>2, <1>3, <1>4, WelcomeStep DEF TableStep

-----------------------------------------------------------------------------
(* Walks through the pages of a listing. *)

LEMMA BeforeFinite ==
    ASSUME NEW t \in Seq(Rows), NEW i
    PROVE  /\ IsFiniteSet(Live(t)) /\ Live(t) \subseteq Nat
           /\ IsFiniteSet({j \in Live(t) : j > i}) /\ Before(t, i) \in Nat
<1>1. Live(t) \subseteq 1..Len(t) /\ Len(t) \in Nat
  BY DEF Live
<1>2. IsFiniteSet(Live(t))
  <2>1. IsFiniteSet(1..Len(t))
    BY <1>1, FS_Interval
  <2> QED BY <1>1, <2>1, FS_Subset
<1>3. IsFiniteSet({j \in Live(t) : j > i})
  BY <1>2, FS_Subset
<1> QED BY <1>1, <1>2, <1>3, FS_CardinalityType DEF Before

\* Users that come, and none that go, move a user back in the listing.
LEMMA BeforeGrows ==
    ASSUME NEW t \in Seq(Rows), NEW u \in Seq(Rows), Live(t) \subseteq Live(u), NEW i
    PROVE  Before(t, i) <= Before(u, i)
<1>1. {j \in Live(t) : j > i} \subseteq {j \in Live(u) : j > i}
  OBVIOUS
<1> QED BY <1>1, BeforeFinite, FS_Subset DEF Before

\* The listing has a user at every position before that of a user.
LEMMA NoGap ==
    ASSUME NEW t \in Seq(Rows), NEW i \in Live(t), NEW m \in Nat, m <= Before(t, i)
    PROVE  \E k \in Live(t) : Before(t, k) = m
<1> DEFINE S == Live(t)
           f == [k \in S |-> Before(t, k)]
<1>1. IsFiniteSet(S) /\ S \subseteq Nat
  BY BeforeFinite
<1> PICK n \in Nat : n = Cardinality(S)
  BY <1>1, FS_CardinalityType
<1>2. ASSUME NEW k \in S PROVE Before(t, k) \in 0..(n - 1)
  <2>1. {j \in S : j > k} \subseteq S \ {k}
    BY <1>1
  <2>2. IsFiniteSet(S \ {k}) /\ Cardinality(S \ {k}) = n - 1
    BY <1>1, FS_RemoveElement
  <2>3. Before(t, k) <= n - 1
    BY <2>1, <2>2, FS_Subset DEF Before
  <2>4. Before(t, k) \in Nat
    BY BeforeFinite
  <2> QED BY <2>3, <2>4
<1>3. ASSUME NEW j \in S, NEW k \in S, j < k PROVE Before(t, j) # Before(t, k)
  <2> DEFINE J == {x \in S : x > j}
             K == {x \in S : x > k}
  <2>1. K \subseteq J /\ k \in J /\ k \notin K
    BY <1>1, <1>3
  <2>2. IsFiniteSet(J) /\ Before(t, j) = Cardinality(J) /\ Before(t, k) = Cardinality(K)
    BY BeforeFinite DEF Before
  <2> HIDE DEF J, K
  <2> QED BY <2>1, <2>2, FS_Subset
<1>4. f \in Injection(S, 0..(n - 1))
  <2>1. f \in [S -> 0..(n - 1)]
    BY <1>2
  <2>2. ASSUME NEW j \in S, NEW k \in S, f[j] = f[k] PROVE j = k
    <3>1. Before(t, j) = Before(t, k)
      BY <2>2
    <3> QED BY <1>1, <1>3, <3>1
  <2> HIDE DEF f
  <2> QED BY <2>1, <2>2 DEF Injection, IsInjective
<1>5. IsFiniteSet(0..(n - 1)) /\ Cardinality(0..(n - 1)) = n
  <2>1. n - 1 \in Int /\ 0 \in Int
    OBVIOUS
  <2>2. /\ IsFiniteSet(0..(n - 1))
        /\ Cardinality(0..(n - 1)) = IF 0 > n - 1 THEN 0 ELSE n - 1 - 0 + 1
    BY <2>1, FS_Interval
  <2> QED BY <2>2
<1>6. f \in Surjection(S, 0..(n - 1))
  <2> HIDE DEF f, S
  <2> QED BY <1>4, <1>5, FS_Injection
<1>7. m \in 0..(n - 1)
  BY <1>1, <1>2
<1>8. \E k \in S : f[k] = m
  BY <1>6, <1>7 DEF Surjection
<1> QED BY <1>8

\* Pages follow one another.
LEMMA Offsets ==
    ASSUME NEW page \in Nat \ {0}, NEW size \in Int
    PROVE  /\ Limit(size) \in Nat \ {0} /\ Offset(page, size) \in Nat
           /\ Offset(page + 1, size) = Offset(page, size) + Limit(size)
           /\ Offset(1, size) = 0
<1>1. Limit(size) \in Nat \ {0}
  BY UsersAssumption DEF Limit
<1>2. PICK k \in Nat \ {0} : k = Limit(size)
  BY <1>1
<1>3. (page - 1) * k \in Nat /\ (page + 1 - 1) * k = (page - 1) * k + k /\ (1 - 1) * k = 0
  OBVIOUS
<1> QED BY <1>2, <1>3 DEF Offset

\* What a walk has seen of the table last, when it read first: of the users there were
\* at first, those that are not seen are on the pages to come; those that are seen are
\* on the pages before.
Ahead(first, last, seen, off) ==
    Gone(first) = Gone(last) => \A i \in Live(first) : i \in seen \/ Before(last, i) >= off
Behind(first, last, seen, off) ==
    DOMAIN first = DOMAIN last => \A i \in seen : Before(last, i) < off

\* The request of a walk at label l.
Walking(l, r) ==
    /\ l \in {"insert", "update", "remove"} => r.call # "list"
    /\ l = "page" => r.from <= r.ver /\ \A v \in Sources : r.ver <= v
    /\ l = "page" /\ r.page = 1 => r.seen = {} /\ ~r.twice
    /\ l = "page" /\ r.page # 1 =>
          LET first == history[r.from]
              last == history[r.ver]
              off == Offset(r.page, r.size)
          IN  /\ Ahead(first, last, r.seen, off) /\ Behind(first, last, r.seen, off)
              /\ DOMAIN first = DOMAIN last => ~r.twice
    /\ l = "answered" /\ r.call = "list" /\ r.answer = "ok" =>
          LET first == history[r.from]
              last == history[r.ver]
          IN  /\ Gone(first) = Gone(last) => Live(first) \subseteq r.seen
              /\ DOMAIN first = DOMAIN last => ~r.twice

WalkInv == Inv /\ (Cardinality(DOMAIN shows) <= 1 => \A p \in Procs : Walking(pc[p], req[p]))

\* A table that kept another one and has no more deletions has all its users; one that has
\* no more rows has no other users.
LEMMA KeptLive ==
    ASSUME NEW t \in Seq(Rows), NEW u \in Seq(Rows), Kept(t, u)
    PROVE  /\ DOMAIN t \subseteq DOMAIN u /\ Gone(t) \subseteq Gone(u)
           /\ Gone(t) = Gone(u) => Live(t) \subseteq Live(u)
           /\ DOMAIN t = DOMAIN u => Live(u) \subseteq Live(t)
BY DEF Kept, Gone, Live

\* ids are the users of the listing from position off to next.
Listed(t, ids, off, next) ==
    \A i : i \in ids <=> i \in Live(t) /\ Before(t, i) >= off /\ Before(t, i) < next

\* Reading one more page, at the state t of the table.
LEMMA PageRead ==
    ASSUME NEW first \in Seq(Rows), NEW t \in Seq(Rows), Kept(first, t), NEW seen, NEW ids,
           NEW all, \A i : i \in all <=> i \in seen \/ i \in ids,
           NEW off \in Nat, NEW next \in Nat, next > off,
           Listed(t, ids, off, next),
           Ahead(first, t, seen, off), Behind(first, t, seen, off)
    PROVE  /\ Ahead(first, t, all, next) /\ Behind(first, t, all, next)
           /\ DOMAIN first = DOMAIN t => \A i \in ids : i \notin seen
           /\ (\A i : i \notin ids) /\ Gone(first) = Gone(t) => Live(first) \subseteq all
<1>1. \A i : Before(t, i) \in Nat
  BY BeforeFinite
<1>3. Gone(first) = Gone(t) => Live(first) \subseteq Live(t)
  BY KeptLive
<1>4. Ahead(first, t, all, next)
  BY <1>1, <1>3 DEF Ahead, Listed
<1>5. Behind(first, t, all, next)
  BY <1>1 DEF Behind, Listed
<1>6. DOMAIN first = DOMAIN t => \A i \in ids : i \notin seen
  BY <1>1 DEF Behind, Listed
<1>7. ASSUME \A i : i \notin ids, Gone(first) = Gone(t), NEW i \in Live(first) PROVE i \in all
  <2>1. i \in Live(t) /\ (i \in seen \/ Before(t, i) >= off)
    BY <1>3, <1>7 DEF Ahead, Listed
  <2>2. ASSUME Before(t, i) >= off PROVE FALSE
    <3>1. PICK k \in Live(t) : Before(t, k) = off
      BY <2>1, <2>2, NoGap
    <3>2. k \in ids
      BY <3>1 DEF Listed
    <3> QED BY <1>7, <3>2
  <2> QED BY <2>1, <2>2
<1> QED BY <1>4, <1>5, <1>6, <1>7

\* The table moves on to t between two pages.
LEMMA TableMovesOn ==
    ASSUME NEW first \in Seq(Rows), NEW last \in Seq(Rows), NEW t \in Seq(Rows),
           Kept(first, last), Kept(last, t), NEW seen, NEW off \in Nat,
           Ahead(first, last, seen, off), Behind(first, last, seen, off)
    PROVE  /\ Ahead(first, t, seen, off) /\ Behind(first, t, seen, off)
           /\ DOMAIN first = DOMAIN t => DOMAIN first = DOMAIN last
<1>1. /\ Gone(first) \subseteq Gone(last) /\ Gone(last) \subseteq Gone(t)
      /\ DOMAIN first \subseteq DOMAIN last /\ DOMAIN last \subseteq DOMAIN t
  BY KeptLive
<1>2. \A i : Before(t, i) \in Nat /\ Before(last, i) \in Nat
  BY BeforeFinite
<1>3. ASSUME Gone(first) = Gone(t), NEW i \in Live(first), i \notin seen
      PROVE  Before(t, i) >= off
  <2>1. Gone(first) = Gone(last) /\ Gone(last) = Gone(t)
    BY <1>1, <1>3
  <2>2. Before(last, i) >= off
    BY <1>3, <2>1 DEF Ahead
  <2>3. Before(last, i) <= Before(t, i)
    BY <2>1, KeptLive, BeforeGrows
  <2> QED BY <1>2, <2>2, <2>3
<1>4. ASSUME DOMAIN first = DOMAIN t, NEW i \in seen
      PROVE  Before(t, i) < off
  <2>1. DOMAIN first = DOMAIN last /\ DOMAIN last = DOMAIN t
    BY <1>1, <1>4
  <2>2. Before(last, i) < off
    BY <1>4, <2>1 DEF Behind
  <2>3. Before(t, i) <= Before(last, i)
    BY <2>1, KeptLive, BeforeGrows
  <2> QED BY <1>2, <2>2, <2>3
<1>5. DOMAIN first = DOMAIN t => DOMAIN first = DOMAIN last
  BY <1>1
<1> QED BY <1>3, <1>4, <1>5 DEF Ahead, Behind


-----------------------------------------------------------------------------

LEMMA NodesStay ==
    ASSUME TypeOK, [Next]_vars
    PROVE  NodeStep /\ DOMAIN shows' = DOMAIN shows
<1>1. NodeStep
  BY DEF Next, Quiet, vars, NodeStep, Start, StartRegister, StartSeed, StartLogin, StartByID,
         StartList, Arrive, Step, LookUp, LookUpAdmin, Find, Insert, Update, Remove, List, Done,
         Fault, Replicate
<1> QED BY <1>1 DEF NodeStep, TypeOK

\* With one place to read from, what was read last is not newer than what can be read.
LEMMA OneSource ==
    ASSUME TypeOK, IsFiniteSet(Replicas), Cardinality(DOMAIN shows) <= 1
    PROVE  \E v \in DOMAIN history : Sources = {v}
<1>1. IsFiniteSet(DOMAIN shows)
  BY FS_Subset DEF TypeOK
<1>2. Cardinality(DOMAIN shows) \in Nat
  BY <1>1, FS_CardinalityType
<1>3. CASE DOMAIN shows = {}
  BY <1>3, TablesTyped DEF Sources
<1>4. CASE DOMAIN shows # {}
  <2>1. Cardinality(DOMAIN shows) = 1
    <3>1. Cardinality(DOMAIN shows) # 0
      BY <1>1, <1>4, FS_EmptySet
    <3> QED BY <1>2, <3>1
  <2>2. PICK r : DOMAIN shows = {r}
    BY <1>1, <2>1, FS_Singleton
  <2>3. Sources = {shows[r]} /\ shows[r] \in DOMAIN history
    BY <2>2 DEF Sources, TypeOK
  <2> QED BY <2>3
<1> QED BY <1>3, <1>4

\* What is known of a walk stays true when others step.
LEMMA WalkKept ==
    ASSUME Inv, TableStep, NodeStep, NEW l, NEW r \in Requests, Walking(l, r)
    PROVE  Walking(l, r)'
<1>1. r.from \in DOMAIN history /\ r.ver \in DOMAIN history /\ r.ver \in Nat
  <2>1. r.from \in DOMAIN history /\ r.ver \in DOMAIN history
    BY DEF Requests
  <2> QED BY <2>1, TablesTyped DEF Inv
<1>2. history'[r.from] = history[r.from] /\ history'[r.ver] = history[r.ver]
  BY <1>1, TableTyped DEF Inv
<1>3. ASSUME \A v \in Sources : r.ver <= v, NEW v \in Sources' PROVE r.ver <= v
  <2>1. PICK w \in Sources : w <= v
    BY SourcesOn DEF Inv
  <2>2. w \in Nat /\ r.ver <= w
    BY <1>3, OldestIsLeast, TablesTyped DEF Inv
  <2>3. v \in Nat
    BY SourcesOn, TableTyped DEF Inv, Sources
  <2> QED BY <1>1, <2>1, <2>2, <2>3
<1> QED BY <1>2, <1>3 DEF Walking

\* A request that is not on a walk, at its new label.
OffWalk(l, r) ==
    /\ l # "page" /\ (l \in {"insert", "update", "remove"} => r.call # "list")
    /\ l = "answered" => r.call # "list" \/ r.answer # "ok"

LEMMA OffWalkWalking == \A l, r : OffWalk(l, r) => Walking(l, r)
BY DEF OffWalk, Walking

LEMMA WalkArrives ==
    ASSUME Inv, NEW p \in Procs, Start(p)
    PROVE  Walking(pc[p], req[p])'
<1>1. pc \in [Procs -> Labels] /\ req \in [Procs -> Requests] /\ UNCHANGED <<history, shows>>
  BY DEF Inv, TypeOK, Labels, Start, StartRegister, StartSeed, StartLogin, StartByID, StartList,
         Arrive
<1>2. ASSUME NEW l, NEW r, Arrive(p, l, r)
      PROVE  pc'[p] = l /\ req'[p] = [r EXCEPT !.since = Oldest]
  BY <1>1, <1>2 DEF Arrive, Go
<1>3. ASSUME NEW l, NEW call, NEW name, NEW id, NEW size,
             Arrive(p, l, Request(call, name, id, size))
      PROVE  /\ pc'[p] = l /\ req'[p].call = call /\ req'[p].from = 1 /\ req'[p].ver = 1
             /\ req'[p].page = 1 /\ req'[p].seen = {} /\ req'[p].twice = FALSE
             /\ req'[p].answer = "none"
  <2>1. pc'[p] = l /\ req'[p] = [Request(call, name, id, size) EXCEPT !.since = Oldest]
    BY <1>2, <1>3
  <2> QED BY <2>1 DEF Request
<1>4. CASE \E size : Arrive(p, "page", Request("list", Blank, 0, size))
  <2>1. /\ pc'[p] = "page" /\ req'[p].from = 1 /\ req'[p].ver = 1 /\ req'[p].page = 1
        /\ req'[p].seen = {} /\ req'[p].twice = FALSE
    BY <1>3, <1>4
  <2>2. Sources' = Sources /\ \A v \in Sources : 1 <= v
    BY <1>1, OldestIsLeast, TablesTyped DEF Inv, Sources
  <2> QED BY <2>1, <2>2 DEF Walking
<1>5. CASE \E l \in {"lookup", "find", "remove"},
              call \in Calls \ {"list"} : \E name, id : Arrive(p, l, Request(call, name, id, 1))
  <2>1. pc'[p] \in {"lookup", "find", "remove"} /\ req'[p].call # "list"
    BY <1>3, <1>5
  <2>2. OffWalk(pc[p], req[p])'
    BY <2>1 DEF OffWalk
  <2> QED BY <2>2 DEF OffWalk, Walking
<1> QED BY <1>4, <1>5 DEF Calls, Start, StartRegister, StartSeed, StartLogin, StartByID, StartList

\* The other steps that are no reading of a page.
LEMMA WalkLeft ==
    ASSUME Inv, NEW p \in Procs, Walking(pc[p], req[p]), Step(p) \/ Fault(p), ~List(p)
    PROVE  Walking(pc[p], req[p])'
<1>1. pc \in [Procs -> Labels] /\ req \in [Procs -> Requests]
  BY DEF Inv, TypeOK, Labels
<1>2. PICK r \in Requests : r = req[p]
  BY <1>1
<1>3. ASSUME NEW from, NEW to, NEW s, Go(p, from, to, s)
      PROVE  pc[p] = from /\ pc'[p] = to /\ req'[p] = s
  BY <1>1, <1>3 DEF Go
\* The records a step makes of r.
<1>4. ASSUME NEW s, \/ s = r \/ \E id : s = [r EXCEPT !.found = id]
                    \/ \E id, v : s = [[r EXCEPT !.found = id] EXCEPT !.ver = v]
                    \/ \E id, nick : s = [[r EXCEPT !.found = id] EXCEPT !.nick = nick]
                    \/ s = [r EXCEPT !.failed = TRUE]
      PROVE  /\ s.call = r.call
             /\ \A answer : /\ [s EXCEPT !.answer = answer].call = r.call
                            /\ [s EXCEPT !.answer = answer].answer = answer
  BY <1>4 DEF Requests
<1>5. ASSUME NEW from, NEW s, NEW answer, Answer(p, from, s, answer),
             \/ s = r \/ \E id : s = [r EXCEPT !.found = id]
             \/ \E id, v : s = [[r EXCEPT !.found = id] EXCEPT !.ver = v]
             \/ s = [r EXCEPT !.failed = TRUE],
             r.call # "list" \/ answer # "ok"
      PROVE  OffWalk(pc'[p], req'[p])
  <2>1. pc'[p] = "answered" /\ req'[p] = [s EXCEPT !.answer = answer]
    BY <1>3, <1>5 DEF Answer
  <2>2. req'[p].call = r.call /\ req'[p].answer = answer
    <3>1. /\ [s EXCEPT !.answer = answer].call = r.call
          /\ [s EXCEPT !.answer = answer].answer = answer
      BY <1>4, <1>5, Zenon
    <3> QED BY <2>1, <3>1
  <2> QED BY <1>5, <2>1, <2>2 DEF OffWalk
<1>6. ASSUME NEW from, NEW to \in {"insert", "update"}, NEW s, Go(p, from, to, s),
             \/ \E id : s = [r EXCEPT !.found = id]
             \/ \E id, v : s = [[r EXCEPT !.found = id] EXCEPT !.ver = v]
             \/ \E id, nick : s = [[r EXCEPT !.found = id] EXCEPT !.nick = nick]
             \/ s = [r EXCEPT !.failed = TRUE],
             r.call # "list"
      PROVE  OffWalk(pc'[p], req'[p])
  <2>1. pc'[p] = to /\ req'[p] = s
    BY <1>3, <1>6
  <2>2. s.call = r.call
    BY <1>4, <1>6
  <2> QED BY <1>6, <2>1, <2>2 DEF OffWalk
<1>7. pc[p] \in {"insert", "update", "remove"} => r.call # "list"
  BY <1>2 DEF Walking
<1>8. OffWalk(pc'[p], req'[p])
  <2>1. CASE LookUp(p) \/ LookUpAdmin(p)
    BY <1>2, <1>5, <1>6, <2>1 DEF LookUp, LookUpAdmin, Found, Saw
  <2>2. CASE Find(p)
    BY <1>2, <1>5, <1>6, <2>2 DEF Find, Found
  <2>3. CASE Insert(p) \/ Update(p) \/ Remove(p)
    <3>1. \E from \in {"insert", "update", "remove"} : \E answer : Answer(p, from, r, answer)
      BY <1>2, <2>3 DEF Insert, Update, Remove
    <3> QED BY <1>3, <1>5, <1>7, <3>1 DEF Answer
  <2>4. CASE Done(p)
    <3>1. pc'[p] = "idle"
      BY <1>3, <2>4 DEF Done
    <3> QED BY <3>1 DEF OffWalk
  <2>5. CASE Fault(p)
    <3>1. \/ Go(p, "lookup", "insert", [r EXCEPT !.failed = TRUE]) /\ r.call # "list"
          \/ \E from : Answer(p, from, [r EXCEPT !.failed = TRUE], "database")
      <4>1. [r EXCEPT !.failed = TRUE].call = r.call
        BY <1>4
      <4> QED BY <1>2, <2>5, <4>1 DEF Fault
    <3> QED BY <1>5, <1>6, <3>1
  <2> QED BY <2>1, <2>2, <2>3, <2>4, <2>5 DEF Step
<1> QED BY <1>8 DEF OffWalk, Walking

LEMMA WalkGoesOn ==
    ASSUME Inv, NEW p \in Procs, Walking(pc[p], req[p]), List(p), \E v : Sources = {v}
    PROVE  Walking(pc[p], req[p])'
<1>1. pc \in [Procs -> Labels] /\ req \in [Procs -> Requests]
  BY DEF Inv, TypeOK, Labels
<1>2. PICK r \in Requests : r = req[p]
  BY <1>1
<1>3. PICK v \in DOMAIN history : Sources = {v} /\ v \in Nat
  BY OldestIsLeast, TablesTyped DEF Inv
<1>4. PICK t \in Seq(Rows) : t = history[v]
  BY TablesTyped DEF Inv
<1>5. PICK ids : ids = Page(t, r.page, r.size)
  OBVIOUS
<1>6. PICK from, page, seen, twice :
         /\ from = IF r.page = 1 THEN v ELSE r.from
         /\ page = IF ids = {} THEN r.page ELSE r.page + 1
         /\ seen = r.seen \cup ids
         /\ twice = (r.twice \/ ids \cap r.seen # {})
  OBVIOUS
<1>7. PICK read : read = [r EXCEPT !.ver = v, !.from = from, !.page = page, !.seen = seen,
                                   !.twice = twice]
  OBVIOUS
<1>8. /\ \/ ids = {} /\ Answer(p, "page", read, "ok")
         \/ ids # {} /\ Go(p, "page", "page", read)
      /\ UNCHANGED <<history, shows>>
  BY <1>2, <1>3, <1>4, <1>5, <1>6, <1>7 DEF List
<1>9. /\ read.ver = v /\ read.from = from /\ read.page = page /\ read.seen = seen
      /\ read.twice = twice /\ read.size = r.size
  BY <1>7 DEF Requests
<1>10. /\ r.from \in DOMAIN history /\ r.ver \in DOMAIN history /\ r.page \in Nat \ {0}
      /\ r.size \in Int /\ r.twice \in BOOLEAN /\ r.from \in Nat /\ r.ver \in Nat
  <2>1. /\ r.from \in DOMAIN history /\ r.ver \in DOMAIN history /\ r.page \in Nat \ {0}
        /\ r.size \in Int /\ r.twice \in BOOLEAN
    BY DEF Requests
  <2> QED BY <2>1, TablesTyped DEF Inv
<1>11. pc[p] = "page" /\ r.from <= r.ver /\ r.ver <= v
  <2>1. pc[p] = "page"
    BY <1>8 DEF Answer, Go
  <2> QED BY <1>2, <1>3, <2>1 DEF Walking
<1>12. from \in DOMAIN history /\ from <= v /\ from \in Nat
  BY <1>3, <1>6, <1>10, <1>11
<1>13. PICK first \in Seq(Rows) : first = history[from] /\ Kept(first, t)
  BY <1>3, <1>4, <1>12, TablesTyped DEF Inv, Grows
<1>14. PICK off \in Nat, next \in Nat :
          /\ off = Offset(r.page, r.size) /\ (r.page = 1 => off = 0)
          /\ next = Offset(r.page + 1, r.size) /\ next > off
          /\ Listed(t, ids, off, next)
  <2>1. /\ Limit(r.size) \in Nat \ {0} /\ Offset(r.page, r.size) \in Nat
        /\ Offset(r.page + 1, r.size) = Offset(r.page, r.size) + Limit(r.size)
        /\ r.page = 1 => Offset(r.page, r.size) = 0
    BY <1>10, Offsets
  <2>2. PICK off \in Nat, lim \in Nat \ {0} : off = Offset(r.page, r.size) /\ lim = Limit(r.size)
    BY <2>1
  <2>3. \A i : Before(t, i) \in off..(off + lim - 1) <=>
                  Before(t, i) >= off /\ Before(t, i) < off + lim
    <3>1. \A i : Before(t, i) \in Nat
      BY BeforeFinite
    <3> QED BY <3>1
  <2>4. Listed(t, ids, off, off + lim)
    BY <1>4, <1>5, <2>2, <2>3 DEF Page, Listed
  <2> QED BY <2>1, <2>2, <2>4
<1>15. /\ Ahead(first, t, r.seen, off) /\ Behind(first, t, r.seen, off)
       /\ DOMAIN first = DOMAIN t => ~r.twice
  <2>1. CASE r.page = 1
    <3>1. r.seen = {} /\ ~r.twice /\ off = 0
      BY <1>2, <1>11, <1>14, <2>1 DEF Walking
    <3>2. \A i : Before(t, i) \in Nat
      BY BeforeFinite
    <3> QED BY <3>1, <3>2 DEF Ahead, Behind
  <2>2. CASE r.page # 1
    <3>1. PICK last \in Seq(Rows) : last = history[r.ver] /\ from = r.from
      BY <1>6, <1>10, <2>2, TablesTyped DEF Inv
    <3>2. Kept(first, last) /\ Kept(last, t)
      BY <1>3, <1>4, <1>10, <1>11, <1>13, <3>1 DEF Inv, Grows
    <3>3. /\ Ahead(first, last, r.seen, off) /\ Behind(first, last, r.seen, off)
          /\ DOMAIN first = DOMAIN last => ~r.twice
      BY <1>2, <1>11, <1>13, <1>14, <2>2, <3>1 DEF Walking
    <3> QED BY <3>2, <3>3, TableMovesOn
  <2> QED BY <2>1, <2>2
<1>16. /\ Ahead(first, t, seen, next) /\ Behind(first, t, seen, next)
       /\ DOMAIN first = DOMAIN t => ~twice
       /\ ids = {} /\ Gone(first) = Gone(t) => Live(first) \subseteq seen
  <2>1. PICK old : old = r.seen
    OBVIOUS
  <2>2. \A i : i \in seen <=> i \in old \/ i \in ids
    BY <1>6, <2>1
  <2>3. Ahead(first, t, old, off) /\ Behind(first, t, old, off) /\ Kept(first, t)
    BY <1>13, <1>15, <2>1
  <2>4. /\ Ahead(first, t, seen, next) /\ Behind(first, t, seen, next)
        /\ DOMAIN first = DOMAIN t => \A i \in ids : i \notin old
        /\ (\A i : i \notin ids) /\ Gone(first) = Gone(t) => Live(first) \subseteq seen
    <3>1. next > off /\ Listed(t, ids, off, next)
      BY <1>14
    <3> QED BY <2>2, <2>3, <3>1, PageRead
  <2> QED BY <1>6, <1>15, <2>1, <2>4
<1>17. history' = history /\ Sources' = Sources
  BY <1>8 DEF Sources
<1>18. CASE ids = {} /\ Answer(p, "page", read, "ok")
  <2>1. pc'[p] = "answered" /\ req'[p] = [read EXCEPT !.answer = "ok"]
    BY <1>1, <1>18 DEF Answer, Go
  <2>2. /\ req'[p].ver = v /\ req'[p].from = from /\ req'[p].seen = seen /\ req'[p].twice = twice
    BY <1>7, <2>1 DEF Requests
  <2> QED BY <1>4, <1>13, <1>16, <1>17, <1>18, <2>1, <2>2 DEF Walking
<1>19. CASE ids # {} /\ Go(p, "page", "page", read)
  <2>1. pc'[p] = "page" /\ req'[p] = read
    BY <1>1, <1>19 DEF Go
  <2>2. page = r.page + 1 /\ page # 1
    BY <1>6, <1>10, <1>19
  <2> QED BY <1>3, <1>4, <1>9, <1>12, <1>13, <1>14, <1>16, <1>17, <2>1, <2>2 DEF Walking
<1> QED BY <1>8, <1>18, <1>19

LEMMA WalkNext ==
    ASSUME IsFiniteSet(Replicas), WalkInv, [Next]_vars
    PROVE  WalkInv'
<1>1. Inv' /\ TableStep /\ NodeStep /\ DOMAIN shows' = DOMAIN shows
  BY InvNext, NodesStay DEF WalkInv, Inv
<1>2. SUFFICES ASSUME Cardinality(DOMAIN shows) <= 1, NEW q \in Procs
               PROVE  Walking(pc[q], req[q])'
  BY <1>1 DEF WalkInv
<1>3. Inv /\ \A p \in Procs : Walking(pc[p], req[p])
  BY <1>2 DEF WalkInv
<1>4. CASE pc'[q] = pc[q] /\ req'[q] = req[q]
  <2>1. PICK l : l = pc[q]
    OBVIOUS
  <2>3. PICK r \in Requests : r = req[q]
    BY <1>3, OneRequest
  <2>2. Walking(l, r)'
    BY <1>1, <1>3, <2>1, <2>3, WalkKept
  <2> QED BY <1>4, <2>1, <2>2, <2>3 DEF Walking
<1>5. CASE Start(q) \/ Step(q) \/ Fault(q)
  BY <1>2, <1>3, <1>5, OneSource, WalkArrives, WalkLeft, WalkGoesOn DEF Inv
<1>6. ASSUME NEW p \in Procs, p # q, Start(p) \/ Step(p) \/ Fault(p)
      PROVE  pc'[q] = pc[q] /\ req'[q] = req[q]
  <2>1. \E l, r : pc' = [pc EXCEPT ![p] = l] /\ req' = [req EXCEPT ![p] = r]
    BY <1>6 DEF Start, StartRegister, StartSeed, StartLogin, StartByID, StartList, Arrive, Step,
         LookUp, LookUpAdmin, Find, Insert, Update, Remove, List, Done, Fault, Answer, Go
  <2> QED BY <1>3, <1>6, <2>1 DEF Inv, TypeOK
<1>7. ASSUME ~\E p \in Procs : Start(p) \/ Step(p) \/ Fault(p)
      PROVE  pc'[q] = pc[q] /\ req'[q] = req[q]
  BY <1>7 DEF Next, Quiet, vars, Replicate
<1> QED BY <1>4, <1>5, <1>6, <1>7

LEMMA WalkInit == Init => WalkInv
<1> SUFFICES ASSUME Init PROVE \A p \in Procs : Walking(pc[p], req[p])
  BY InvInit DEF WalkInv
<1> QED BY DEF Init, Walking

-----------------------------------------------------------------------------
(* Theorems. *)

\* Tables only grow, names in them are unique, and a request remembers only what some
\* table showed (the inductive invariant of this module).
THEOREM InvAlways == Spec => []Inv
BY InvInit, InvNext, PTL DEF Spec

\* The variables keep their types, for any number of requests and read nodes: what is
\* read is a state the table had, and who was found has a row (TypeOK).
THEOREM UsersTyped == Spec => []TypeOK
<1>1. Inv => TypeOK
  BY DEF Inv
<1> QED BY <1>1, InvAlways, PTL

\* Of two registrations of one name, one is told that it succeeded, however they
\* interleave, whatever read nodes lag and whoever was deleted (OneWelcome).
THEOREM OneWelcomeEach == Spec => []OneWelcome
<1>1. Inv => OneWelcome
  BY DEF Inv, TypeOK, UniqueNames, OneWelcome
<1> QED BY <1>1, InvAlways, PTL

\* Once every read node shows that a user was deleted, no later request finds that user
\* (DeletedStaysOut).
THEOREM DeletionIsFinal == Spec => []DeletedStaysOut
<1>1. Inv => DeletedStaysOut
  BY DEF Inv, RequestOK, DeletedStaysOut
<1> QED BY <1>1, InvAlways, PTL

\* A registration the database refuses has a cause (RefusalsEarned).
THEOREM RefusalsHaveCause == Spec => []RefusalsEarned
<1>1. Inv => RefusalsEarned
  BY DEF Inv, RequestOK, RefusalsEarned, Answered
<1> QED BY <1>1, InvAlways, PTL

\* A client that reads from one place and asks for page after page sees every user there
\* was at the first page, unless one was deleted meanwhile, and none twice, unless one was
\* added meanwhile, for any number of users, requests and sizes of a page (PagesComplete).
THEOREM WalksComplete ==
    ASSUME IsFiniteSet(Replicas)
    PROVE  Spec => []PagesComplete
<1>1. WalkInv => PagesComplete
  BY DEF WalkInv, Walking, PagesComplete, Answered
<1>2. WalkInv /\ [Next]_vars => WalkInv'
  BY WalkNext
<1> QED BY <1>1, <1>2, WalkInit, PTL DEF Spec

\* The accounts implement Directory, for any number of requests, read nodes and names:
\* no name is given twice, nobody is told of a name that was not given in that step, and
\* a name that was left is not given again (KeepsPromise).
THEOREM PromiseKept == Spec => KeepsPromise
<1>1. Init => Promise!Init
  BY DEF Init, Promise!Init, NamesOf, Primary, Live
<1>2. Inv /\ [Next]_vars => [Promise!Next]_(Promise!vars)
  BY PromiseStep
<1> QED BY <1>1, <1>2, InvAlways, PTL DEF Spec, KeepsPromise, Promise!Spec
=============================================================================
