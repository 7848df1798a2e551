--------------------------- MODULE StartupProofs ---------------------------
(***************************************************************************)
(* Proofs about Startup, for any number of processes, starts, edits and    *)
(* faults: what a process knows of its configuration and of the secret.    *)
(***************************************************************************)
EXTENDS Startup, SequenceTheorems, TLAPS

\* The snapshot x.cfg has, for each key that the file gives, the value of the
\* environment or else that of the file.
Follows(x) == \A k \in Keys : file.says[k] # Absent => x.cfg[k] = Overridden(k, file.says[k])

\* A process that has opened the database.
Connected(x) == x.pc \in {"resolve", "read", "truncate", "write", "enforcer", "serving"}

\* What holds of a process x.  The copy of the configuration that run works with either
\* came from the file or has no host, and one without a host gets no further than Open.
Sound(x) ==
    /\ x.pc \in {"off", "load"} =>
          ~x.watched /\ ~x.callback /\ x.cfg = Fresh /\ x.start = Fresh
    /\ ~x.watched => x.events = <<>>
    /\ x.start["host"] # "" => x.start["mode"] = Mode
    /\ Connected(x) => x.start["host"] # ""
    /\ x.pc = "read" \/ x.source = "file" => x.start["mode"] # "release"
    /\ x.source = "file" => Connected(x) /\ x.key # 0
    /\ x.pc \in {"truncate", "write"} => x.source = "file"
    /\ x.pc \notin {"off", "load"} /\ ~x.missed /\ x.events = <<>> /\ Readable => Follows(x)

Holds(x) == x.source = "file" /\ x.pc \in {"enforcer", "serving"}
Replaces(x) == x.pc \in {"truncate", "write"}

\* While one process replaces the secret there is none, so that no process can hold it.
SecretInv ==
    ~raced =>
        /\ \A p \in Procs : Replaces(proc[p]) =>
              secretFile = 0 /\ \A q \in Procs : Replaces(proc[q]) => q = p
        /\ \A p \in Procs : Holds(proc[p]) => secretFile = proc[p].key

\* The inductive invariant.
StartInv == TypeOK /\ (\A p \in Procs : Sound(proc[p])) /\ SecretInv

-----------------------------------------------------------------------------
(* Configurations. *)

LEMMA Says ==
  ASSUME TypeOK
  PROVE  /\ file.says \in [Keys -> Values]
         /\ \/ file.says["host"] = Absent
            \/ file.says["mode"] = deployment /\ file.says["host"] = "db"
<1>1. Bare \in [Keys -> Values] /\ Bare["host"] = Absent
  BY DEF Bare, Keys, Values, Absent
<1>2. ASSUME NEW secret \in {"", "long"}
      PROVE  /\ Full(deployment, secret) \in [Keys -> Values]
             /\ Full(deployment, secret)["mode"] = deployment
             /\ Full(deployment, secret)["host"] = "db"
  <2>1. PICK mode \in {"debug", "release"} : mode = deployment
    BY DEF TypeOK
  <2>2. PICK f : f = [mode |-> mode, secret |-> secret, host |-> "db"]
    OBVIOUS
  <2>3. f["mode"] = mode /\ f["secret"] = secret /\ f["host"] = "db"
    BY <2>2
  <2>4. f \in [Keys -> Values]
    <3>1. f \in [mode : {mode}, secret : {secret}, host : {"db"}]
      BY <2>2
    <3>2. DOMAIN f = Keys /\ f = [k \in DOMAIN f |-> f[k]]
      BY <2>2 DEF Keys
    <3>3. \A k \in Keys : f[k] \in Values
      BY <2>1, <2>3 DEF Keys, Values, Absent
    <3> QED BY <3>2, <3>3
  <2> QED BY <2>1, <2>2, <2>3, <2>4 DEF Full
<1>3. file.says = Bare \/ \E secret \in {"", "long"} : file.says = Full(deployment, secret)
  <2>1. file \in Files(deployment)
    BY DEF TypeOK
  <2>2. \/ \E state \in {"missing", "broken", "good"} : file = File(state, Bare)
        \/ \E secret \in {"", "long"} : file = File("good", Full(deployment, secret))
    BY <2>1 DEF Files
  <2>3. \A state, says : File(state, says).says = says
    BY DEF File
  <2> QED BY <2>2, <2>3
<1> QED BY <1>1, <1>2, <1>3

\* What the environment puts in the place of a value is a value.
LEMMA OverriddenType ==
  ASSUME environ \in Environs, NEW k \in Keys, NEW given \in Values
  PROVE  Overridden(k, given) \in Values
<1>1. environ[k] \in Values
  <2>1. PICK mode \in EnvModes, secret \in {Absent, "short"}, host \in {Absent, "db2"} :
            environ = [mode |-> mode, secret |-> secret, host |-> host]
    BY DEF Environs
  <2>2. mode \in Values /\ secret \in Values /\ host \in Values
    BY StartupAssumption DEF Values, Absent
  <2> QED BY <2>1, <2>2 DEF Keys
<1> QED BY <1>1 DEF Overridden

LEMMA DecodeType ==
  ASSUME environ \in Environs,
         NEW snapshot \in [Keys -> Values], NEW settings \in [Keys -> Values]
  PROVE  /\ Decode(snapshot, settings) \in [Keys -> Values]
         /\ \A k \in Keys : settings[k] # Absent =>
               Decode(snapshot, settings)[k] = Overridden(k, settings[k])
         /\ settings["host"] = Absent => Decode(snapshot, settings)["host"] = snapshot["host"]
<1>1. DOMAIN Defaults = {"mode"} /\ Defaults["mode"] \in Values
  BY DEF Defaults, Values
<1>2. \A k \in Keys : /\ Overridden(k, settings[k]) \in Values
                     /\ Overridden(k, Defaults["mode"]) \in Values
  BY <1>1, OverriddenType
<1> QED BY <1>1, <1>2 DEF Decode, Keys

LEMMA FreshType ==
  ASSUME environ \in Environs
  PROVE  Fresh \in [Keys -> Values] /\ Fresh["host"] = ""
<1>1. Bare \in [Keys -> Values] /\ Bare["host"] = Absent
  BY DEF Bare, Keys, Values, Absent
<1>2. PICK none \in [Keys -> Values] : none = [k \in Keys |-> ""]
  BY DEF Values
<1>3. none["host"] = ""
  BY <1>2 DEF Keys
<1> QED BY <1>1, <1>2, <1>3, DecodeType DEF Fresh

LEMMA OffType ==
  ASSUME environ \in Environs
  PROVE  Off \in [pc : Labels, settings : [Keys -> Values], cfg : [Keys -> Values],
                  start : [Keys -> Values], watched : BOOLEAN, callback : BOOLEAN,
                  events : Seq({"write", "remove"}), missed : BOOLEAN, tries : {0},
                  source : {"none", "env", "config", "file"}, key : {0}]
<1>1. Bare \in [Keys -> Values]
  BY DEF Bare, Keys, Values, Absent
<1>2. <<>> \in Seq({"write", "remove"})
  OBVIOUS
<1> QED BY <1>1, <1>2, FreshType DEF Off, Labels

\* The defaults and the mode depend on the environment and the deployment alone.
LEMMA SameEnviron ==
  ASSUME environ' = environ, deployment' = deployment
  PROVE  Fresh' = Fresh /\ Mode' = Mode
BY DEF Fresh, Decode, Overridden, Mode

LEMMA SameSound ==
  ASSUME NEW x, Sound(x), environ' = environ, deployment' = deployment, file' = file
  PROVE  Sound(x)'
<1>1. Fresh' = Fresh /\ Mode' = Mode /\ (Connected(x)' <=> Connected(x))
  BY SameEnviron DEF Connected
<1>2. (Follows(x)' <=> Follows(x)) /\ (Readable' <=> Readable)
  BY DEF Follows, Overridden, Readable
<1> QED BY <1>1, <1>2 DEF Sound

LEMMA SameSounds ==
  ASSUME \A p \in Procs : Sound(proc[p]), UNCHANGED <<fileVars, proc>>
  PROVE  \A p \in Procs : Sound(proc[p])'
<1> SUFFICES ASSUME NEW p \in Procs PROVE Sound(proc[p])'
  OBVIOUS
<1>1. PICK x : x = proc[p]
  OBVIOUS
<1>2. Sound(x)'
  BY <1>1, SameSound DEF fileVars
<1> QED BY <1>1, <1>2 DEF Sound, Connected, Follows, Readable, Overridden, Mode

-----------------------------------------------------------------------------
(* What the steps do to a process. *)

\* A step that leaves the files alone, turns its process into a sound one, and neither
\* begins to replace the secret nor takes hold of it.
LEMMA Kept ==
  ASSUME StartInv, NEW p \in Procs, NEW new \in Processes, Set(p, new),
         UNCHANGED <<fileVars, secretVars>>, dbUp' \in BOOLEAN,
         used' \in [starts : Nat, edits : Nat, faults : Nat],
         Sound(new), Replaces(new) => Replaces(proc[p]),
         Holds(new) => Holds(proc[p]) /\ new.key = proc[p].key
  PROVE  StartInv'
<1>1. /\ proc \in [Procs -> Processes] /\ proc' = [proc EXCEPT ![p] = new]
      /\ deployment' = deployment /\ environ' = environ /\ file' = file
      /\ secretFile' = secretFile
      /\ made' = made /\ raced' = raced
  BY DEF StartInv, TypeOK, Set, fileVars, secretVars
<1>2. Processes' = Processes
  BY <1>1 DEF Processes
<1>3. proc' \in [Procs -> Processes]
  BY <1>1
<1>4. TypeOK'
  BY <1>1, <1>2, <1>3 DEF StartInv, TypeOK
<1>5. ASSUME NEW q \in Procs PROVE Sound(proc[q])'
  <2>1. PICK y : y = proc'[q]
    OBVIOUS
  <2>2. Sound(y)
    BY <1>1, <2>1 DEF StartInv
  <2>3. Sound(y)'
    BY <2>2, <1>1, SameSound
  <2> QED BY <2>1, <2>3 DEF Sound, Connected, Follows, Readable, Overridden, Mode
<1>6. SecretInv'
  <2> SUFFICES ASSUME ~raced
               PROVE  /\ \A q \in Procs : Replaces(proc'[q]) =>
                            secretFile = 0 /\ \A r \in Procs : Replaces(proc'[r]) => r = q
                      /\ \A q \in Procs : Holds(proc'[q]) => secretFile = proc'[q].key
    BY <1>1 DEF SecretInv, Replaces, Holds
  <2>1. \A q \in Procs : /\ Replaces(proc'[q]) => Replaces(proc[q])
                         /\ Holds(proc'[q]) => Holds(proc[q]) /\ proc'[q].key = proc[q].key
    BY <1>1
  <2> QED BY <2>1 DEF StartInv, SecretInv
<1> QED BY <1>4, <1>5, <1>6 DEF StartInv

\* What the invariant says of one process.
LEMMA Held ==
  ASSUME StartInv, NEW p \in Procs
  PROVE  /\ proc[p] \in Processes /\ Sound(proc[p]) /\ dbUp \in BOOLEAN
         /\ used \in [starts : Nat, edits : Nat, faults : Nat]
BY DEF StartInv, TypeOK

LEMMA OffSound ==
  ASSUME TypeOK
  PROVE  Off \in Processes /\ Sound(Off) /\ ~Replaces(Off) /\ ~Holds(Off)
<1>1. 0 \in 0..made /\ 0 \in 0..(MaxTries - 1)
  BY StartupAssumption DEF TypeOK
<1>2. Off \in Processes
  BY <1>1, OffType DEF Processes, TypeOK
<1>3. Sound(Off)
  BY FreshType DEF Off, Sound, Connected, TypeOK
<1>4. ~Replaces(Off) /\ ~Holds(Off)
  BY DEF Off, Replaces, Holds
<1> QED BY <1>2, <1>3, <1>4

\* A process that ends leaves nothing behind.
LEMMA EndKeeps ==
  ASSUME StartInv, NEW p \in Procs, Set(p, Off), UNCHANGED <<fileVars, secretVars>>,
         dbUp' \in BOOLEAN, used' \in [starts : Nat, edits : Nat, faults : Nat]
  PROVE  StartInv'
BY OffSound, Kept DEF StartInv

LEMMA BootKeeps == ASSUME StartInv, NEW p \in Procs, Boot(p) PROVE StartInv'
<1>1. PICK new : new = [Off EXCEPT !.pc = "load"]
  OBVIOUS
<1>2. new \in Processes /\ Sound(new) /\ ~Replaces(new) /\ ~Holds(new)
  BY <1>1, OffSound, FreshType
  DEF StartInv, Off, Sound, Connected, Replaces, Holds, Processes, Labels
<1>3. used' \in [starts : Nat, edits : Nat, faults : Nat] /\ dbUp' \in BOOLEAN
  BY Held DEF Boot
<1>4. Set(p, new) /\ UNCHANGED <<fileVars, secretVars>>
  BY <1>1 DEF Boot, Go
<1> QED BY <1>2, <1>3, <1>4, Kept

LEMMA LoadKeeps == ASSUME StartInv, NEW p \in Procs, Load(p) PROVE StartInv'
<1>1. PICK x \in Processes : x = proc[p] /\ Sound(x) /\ x.pc = "load"
  BY Held DEF Load, Go, At
<1>2. used' \in [starts : Nat, edits : Nat, faults : Nat] /\ dbUp' \in BOOLEAN
  BY Held DEF Load
<1>3. UNCHANGED <<fileVars, secretVars>>
  BY DEF Load
<1>4. CASE Readable /\ Go(p, "load", [proc[p] EXCEPT !.settings = file.says,
                              !.cfg = Decode(proc[p].cfg, file.says),
                              !.start = Decode(proc[p].cfg, file.says)], "watch")
  <2>1. PICK cfg : cfg = Decode(Fresh, file.says)
    OBVIOUS
  <2>2. file.says \in [Keys -> Values] /\ Fresh \in [Keys -> Values] /\ Fresh["host"] = ""
    BY Says, FreshType DEF StartInv, TypeOK
  <2>3. /\ cfg \in [Keys -> Values]
        /\ \A k \in Keys : file.says[k] # Absent => cfg[k] = Overridden(k, file.says[k])
        /\ file.says["host"] = Absent => cfg["host"] = ""
    BY <2>1, <2>2, DecodeType DEF StartInv, TypeOK
  <2>4. cfg["host"] # "" => cfg["mode"] = Mode
    <3>1. CASE file.says["host"] = Absent
      BY <3>1, <2>3
    <3>2. CASE file.says["host"] # Absent
      <4>1. file.says["mode"] = deployment /\ deployment # Absent
        BY <3>2, Says DEF StartInv, TypeOK, Absent
      <4> QED BY <4>1, <2>3 DEF Keys, Mode
    <3> QED BY <3>1, <3>2
  <2>5. PICK says : says = file.says
    OBVIOUS
  <2>6. PICK new : new = [x EXCEPT !.settings = says, !.cfg = cfg, !.start = cfg, !.pc = "watch"]
    OBVIOUS
  <2>7. x.cfg = Fresh /\ ~x.watched /\ ~x.callback /\ x.source # "file" /\ x.events = <<>>
    BY <1>1 DEF Sound, Connected
  <2>8. [[proc[p] EXCEPT !.settings = file.says, !.cfg = Decode(proc[p].cfg, file.says),
                         !.start = Decode(proc[p].cfg, file.says)] EXCEPT !.pc = "watch"] = new
    BY <1>1, <2>1, <2>5, <2>6, <2>7 DEF Processes
  <2>9. Set(p, new)
    BY <1>4, <2>8 DEF Go
  <2>10. new \in Processes
    BY <2>2, <2>3, <2>5, <2>6 DEF Processes, Labels
  <2>11. Sound(new)
    BY <2>3, <2>4, <2>5, <2>6, <2>7 DEF Sound, Connected, Follows, Processes
  <2> QED BY <1>2, <1>3, <2>6, <2>7, <2>9, <2>10, <2>11, Kept DEF Replaces, Holds, Processes
<1>5. CASE ~Readable /\ Go(p, "load", proc[p], "watch")
  <2>1. PICK new : new = [x EXCEPT !.pc = "watch"]
    OBVIOUS
  <2>2. Set(p, new)
    BY <1>1, <1>5, <2>1 DEF Go
  <2>3. new \in Processes
    BY <2>1 DEF Processes, Labels
  <2>4. Sound(new) /\ ~Replaces(new) /\ ~Holds(new)
    BY <1>1, <1>5, <2>1 DEF Sound, Connected, Processes, Replaces, Holds
  <2> QED BY <1>2, <1>3, <2>2, <2>3, <2>4, Kept
<1> QED BY <1>4, <1>5 DEF Load

LEMMA WatchKeeps == ASSUME StartInv, NEW p \in Procs, Watch(p) PROVE StartInv'
<1>1. PICK x \in Processes : x = proc[p] /\ Sound(x) /\ x.pc \in {"watch", "callback"}
  BY Held DEF Watch, Go, At
<1>2. used' \in [starts : Nat, edits : Nat, faults : Nat] /\ dbUp' \in BOOLEAN
  BY Held DEF Watch
<1>3. PICK new : \/ new = [x EXCEPT !.watched = TRUE, !.pc = "callback"] /\ Set(p, new)
                 \/ new = [x EXCEPT !.callback = TRUE, !.pc = "open"] /\ Set(p, new)
  BY <1>1 DEF Watch, Go
<1>4. new \in Processes
  BY <1>3 DEF Processes, Labels
<1>5. Sound(new) /\ ~Replaces(new) /\ ~Holds(new)
  <2>1. CASE new = [x EXCEPT !.watched = TRUE, !.pc = "callback"]
    BY <1>1, <2>1 DEF Sound, Connected, Follows, Processes, Replaces, Holds
  <2>2. CASE new = [x EXCEPT !.callback = TRUE, !.pc = "open"]
    BY <1>1, <2>2 DEF Sound, Connected, Follows, Processes, Replaces, Holds
  <2> QED BY <1>3, <2>1, <2>2
<1> QED BY <1>2, <1>3, <1>4, <1>5, Kept DEF Watch

LEMMA OpenKeeps == ASSUME StartInv, NEW p \in Procs, Open(p) PROVE StartInv'
<1>1. PICK x \in Processes : x = proc[p] /\ Sound(x)
  BY Held
<1>2. used' \in [starts : Nat, edits : Nat, faults : Nat] /\ dbUp' \in BOOLEAN
  BY Held DEF Open
<1>3. UNCHANGED <<fileVars, secretVars>>
  BY DEF Open
<1>4. CASE Die(p, "open")
  BY <1>2, <1>3, <1>4, EndKeeps DEF Die
<1>5. CASE ~NoDSN(p) /\ dbUp /\ Go(p, "open", [proc[p] EXCEPT !.tries = 0], "resolve")
  <2>0. PICK tries \in 0..(MaxTries - 1) : tries = 0
    BY StartupAssumption
  <2>1. PICK new : new = [x EXCEPT !.tries = tries, !.pc = "resolve"]
    OBVIOUS
  <2>2. Set(p, new) /\ x.pc = "open" /\ x.start["host"] # ""
    BY <1>1, <1>5, <2>0, <2>1 DEF Go, At, NoDSN
  <2>3. new \in Processes
    BY <2>1 DEF Processes, Labels
  <2>4. Sound(new) /\ ~Replaces(new) /\ ~Holds(new)
    BY <1>1, <2>1, <2>2 DEF Sound, Connected, Follows, Processes, Replaces, Holds
  <2> QED BY <1>2, <1>3, <2>2, <2>3, <2>4, Kept
<1>6. CASE /\ proc[p].tries + 1 < MaxTries
           /\ Go(p, "open", [proc[p] EXCEPT !.tries = @ + 1], "open")
  <2>1. PICK tries \in 0..(MaxTries - 1) : tries = x.tries + 1
    BY <1>1, <1>6, StartupAssumption DEF Processes
  <2>2. PICK new : new = [x EXCEPT !.tries = tries, !.pc = "open"]
    OBVIOUS
  <2>3. Set(p, new) /\ x.pc = "open"
    BY <1>1, <1>6, <2>1, <2>2 DEF Go, At
  <2>4. new \in Processes
    BY <2>2 DEF Processes, Labels
  <2>5. Sound(new) /\ ~Replaces(new) /\ ~Holds(new)
    BY <1>1, <2>2, <2>3 DEF Sound, Connected, Follows, Processes, Replaces, Holds
  <2> QED BY <1>2, <1>3, <2>3, <2>4, <2>5, Kept
<1> QED BY <1>4, <1>5, <1>6 DEF Open

\* A secret is generated only by a process whose copy does not say release.
LEMMA ResolveKeeps == ASSUME StartInv, NEW p \in Procs, Resolve(p) PROVE StartInv'
<1>1. PICK x \in Processes : x = proc[p] /\ Sound(x)
  BY Held
<1>2. /\ used' \in [starts : Nat, edits : Nat, faults : Nat] /\ dbUp' \in BOOLEAN
      /\ UNCHANGED <<fileVars, secretVars>>
  BY Held DEF Resolve
<1>3. CASE Die(p, "resolve")
  BY <1>2, <1>3, EndKeeps DEF Die
<1>4. ASSUME NEW source \in {"env", "config"},
             Go(p, "resolve", [proc[p] EXCEPT !.source = source], "enforcer")
      PROVE  StartInv'
  <2>1. PICK new : new = [x EXCEPT !.source = source, !.pc = "enforcer"]
    OBVIOUS
  <2>2. Set(p, new) /\ x.pc = "resolve"
    BY <1>1, <1>4, <2>1 DEF Go, At
  <2>3. new \in Processes
    BY <2>1 DEF Processes, Labels
  <2>4. Sound(new) /\ ~Replaces(new) /\ ~Holds(new)
    BY <1>1, <2>1, <2>2 DEF Sound, Connected, Follows, Processes, Replaces, Holds
  <2> QED BY <1>2, <2>2, <2>3, <2>4, Kept
<1>5. CASE IsDev(p) /\ Go(p, "resolve", proc[p], "read")
  <2>1. PICK new : new = [x EXCEPT !.pc = "read"]
    OBVIOUS
  <2>2. Set(p, new) /\ x.pc = "resolve" /\ x.start["mode"] # "release"
    BY <1>1, <1>5, <2>1 DEF Go, At, IsDev
  <2>3. new \in Processes
    BY <2>1 DEF Processes, Labels
  <2>4. Sound(new) /\ ~Replaces(new) /\ ~Holds(new)
    BY <1>1, <2>1, <2>2 DEF Sound, Connected, Follows, Processes, Replaces, Holds
  <2> QED BY <1>2, <2>2, <2>3, <2>4, Kept
<1> QED BY <1>3, <1>4, <1>5 DEF Resolve

LEMMA ServeKeeps == ASSUME StartInv, NEW p \in Procs, Serve(p) PROVE StartInv'
<1>1. PICK x \in Processes : x = proc[p] /\ Sound(x) /\ x.pc = "enforcer"
  BY Held DEF Serve, Go, At
<1>2. used' \in [starts : Nat, edits : Nat, faults : Nat] /\ dbUp' \in BOOLEAN
  BY Held DEF Serve
<1>3. PICK new : new = [x EXCEPT !.pc = "serving"]
  OBVIOUS
<1>4. Set(p, new)
  BY <1>1, <1>3 DEF Serve, Go
<1>5. new \in Processes
  BY <1>3 DEF Processes, Labels
<1>6. Sound(new) /\ ~Replaces(new) /\ (Holds(new) => Holds(x) /\ new.key = x.key)
  BY <1>1, <1>3 DEF Sound, Connected, Follows, Processes, Replaces, Holds
<1> QED BY <1>1, <1>2, <1>4, <1>5, <1>6, Kept DEF Serve

LEMMA ReloadKeeps == ASSUME StartInv, NEW p \in Procs, Reload(p) PROVE StartInv'
<1>1. PICK x \in Processes : x = proc[p] /\ Sound(x) /\ x.events # <<>>
  BY Held DEF Reload
<1>2. /\ used' \in [starts : Nat, edits : Nat, faults : Nat] /\ dbUp' \in BOOLEAN
      /\ UNCHANGED <<fileVars, secretVars>>
  BY Held DEF Reload
<1>3. PICK tail \in Seq({"write", "remove"}) : tail = Tail(x.events)
  <2>1. x.events \in Seq({"write", "remove"})
    BY DEF Processes
  <2>2. Tail(x.events) \in Seq({"write", "remove"})
    BY <1>1, <2>1
  <2> QED BY <2>2
<1>4. x.watched /\ x.pc \notin {"off", "load"}
  BY <1>1 DEF Sound, Processes
<1>5. PICK settings \in [Keys -> Values] :
          settings = IF Readable THEN file.says ELSE x.settings
  BY Says DEF StartInv, Processes
<1>6. CASE Set(p, [Reloaded(p) EXCEPT !.events = Tail(@)])
  <2>1. CASE x.callback
    <3>1. PICK cfg : cfg = Decode(x.cfg, settings)
      OBVIOUS
    <3>2. /\ cfg \in [Keys -> Values]
          /\ \A k \in Keys : settings[k] # Absent => cfg[k] = Overridden(k, settings[k])
      <4>1. environ \in Environs /\ x.cfg \in [Keys -> Values]
        BY DEF Processes, StartInv, TypeOK
      <4> QED BY <3>1, <4>1, DecodeType
    <3>3. PICK new : new = [x EXCEPT !.settings = settings, !.cfg = cfg, !.missed = FALSE,
                                     !.events = tail]
      OBVIOUS
    <3>4. Set(p, new)
      BY <1>1, <1>3, <1>5, <1>6, <2>1, <3>1, <3>3 DEF Reloaded, Processes
    <3>5. new \in Processes
      BY <3>2, <3>3 DEF Processes
    <3>6. Sound(new)
      BY <1>1, <1>4, <1>5, <3>2, <3>3 DEF Sound, Connected, Follows, Processes
    <3>7. /\ Replaces(new) => Replaces(x)
          /\ Holds(new) => Holds(x) /\ new.key = x.key
      BY <3>3 DEF Replaces, Holds, Processes
    <3> QED BY <1>1, <1>2, <3>4, <3>5, <3>6, <3>7, Kept
  <2>2. CASE ~x.callback
    <3>1. PICK new : new = [x EXCEPT !.settings = settings, !.missed = TRUE, !.events = tail]
      OBVIOUS
    <3>2. Set(p, new)
      BY <1>1, <1>3, <1>5, <1>6, <2>2, <3>1 DEF Reloaded, Processes
    <3>3. new \in Processes
      BY <3>1 DEF Processes
    <3>4. Sound(new)
      BY <1>1, <1>4, <3>1 DEF Sound, Connected, Processes
    <3>5. /\ Replaces(new) => Replaces(x)
          /\ Holds(new) => Holds(x) /\ new.key = x.key
      BY <3>1 DEF Replaces, Holds, Processes
    <3> QED BY <1>1, <1>2, <3>2, <3>3, <3>4, <3>5, Kept
  <2> QED BY <2>1, <2>2
<1>7. CASE Set(p, [proc[p] EXCEPT !.events = <<>>, !.watched = FALSE, !.missed = TRUE])
  <2>0. <<>> \in Seq({"write", "remove"})
    OBVIOUS
  <2>1. PICK none \in Seq({"write", "remove"}) : none = <<>>
    BY <2>0
  <2>2. PICK new : new = [x EXCEPT !.events = none, !.watched = FALSE, !.missed = TRUE]
    OBVIOUS
  <2>3. Set(p, new)
    BY <1>1, <1>7, <2>1, <2>2
  <2>4. new \in Processes
    BY <2>2 DEF Processes
  <2>5. Sound(new)
    BY <1>1, <1>4, <2>1, <2>2 DEF Sound, Connected, Processes
  <2>6. /\ Replaces(new) => Replaces(x)
        /\ Holds(new) => Holds(x) /\ new.key = x.key
    BY <2>2 DEF Replaces, Holds, Processes
  <2> QED BY <1>1, <1>2, <2>3, <2>4, <2>5, <2>6, Kept
<1> QED BY <1>6, <1>7 DEF Reload

\* Soundness depends on the configuration file alone.
LEMMA SameFiles ==
  ASSUME StartInv, NEW p \in Procs, NEW new, Sound(new), UNCHANGED <<fileVars, dbUp, used>>,
         proc' = [proc EXCEPT ![p] = new], new \in Processes', made' \in Nat, made <= made',
         secretFile' \in 0..made', raced' \in BOOLEAN
  PROVE  TypeOK' /\ \A q \in Procs : Sound(proc[q])'
<1>1. proc \in [Procs -> Processes] /\ deployment' = deployment /\ file' = file
      /\ environ' = environ
  BY DEF StartInv, TypeOK, fileVars
<1>2. proc' \in [Procs -> Processes']
  <2>1. 0..made \subseteq 0..made'
    BY DEF StartInv, TypeOK
  <2>2. Processes \subseteq Processes'
    BY <2>1 DEF Processes
  <2> QED BY <1>1, <2>2
<1>3. TypeOK'
  BY <1>1, <1>2 DEF StartInv, TypeOK, Files
<1>4. ASSUME NEW q \in Procs PROVE Sound(proc[q])'
  <2>1. PICK y : y = proc'[q]
    OBVIOUS
  <2>2. Sound(y)
    BY <1>1, <2>1 DEF StartInv
  <2>3. Sound(y)'
    BY <2>2, <1>1, SameSound
  <2> QED BY <2>1, <2>3 DEF Sound, Connected, Follows, Readable, Overridden, Mode
<1> QED BY <1>3, <1>4

\* A secret that is read is the one in the file; one that is generated is the first to
\* be generated since the file had none.
LEMMA ReadSecretKeeps == ASSUME StartInv, NEW p \in Procs, ReadSecret(p) PROVE StartInv'
<1>1. PICK x \in Processes : x = proc[p] /\ Sound(x) /\ x.pc = "read"
  BY Held DEF ReadSecret, Go, At
<1>2. /\ proc \in [Procs -> Processes] /\ made \in Nat /\ secretFile \in 0..made
      /\ raced \in BOOLEAN
  BY DEF StartInv, TypeOK
<1>3. CASE /\ secretFile # 0 /\ UNCHANGED secretVars
           /\ Go(p, "read", [proc[p] EXCEPT !.source = "file", !.key = secretFile], "enforcer")
  <2>0. UNCHANGED <<fileVars, secretFile, made, raced, dbUp, used>> /\ Processes' = Processes
    BY <1>3 DEF ReadSecret, secretVars, Processes
  <2>1. PICK new : new = [x EXCEPT !.source = "file", !.key = secretFile, !.pc = "enforcer"]
    OBVIOUS
  <2>2. proc' = [proc EXCEPT ![p] = new]
    BY <1>1, <1>3, <2>1 DEF Go, Set
  <2>3. new \in Processes /\ Sound(new) /\ ~Replaces(new) /\ new.key = secretFile
    <3>1. new \in Processes
      BY <1>2, <2>1 DEF Processes, Labels
    <3> QED BY <3>1, <1>1, <1>3, <2>1 DEF Sound, Connected, Follows, Processes, Replaces
  <2>4. TypeOK' /\ \A q \in Procs : Sound(proc[q])'
    <3>1. made' \in Nat /\ made <= made' /\ secretFile' \in 0..made' /\ raced' \in BOOLEAN
      BY <1>2, <2>0
    <3> QED BY <2>0, <2>2, <2>3, <3>1, SameFiles
  <2>5. SecretInv'
    <3> SUFFICES ASSUME ~raced
                 PROVE  /\ \A q \in Procs : Replaces(proc'[q]) =>
                              secretFile = 0 /\ \A r \in Procs : Replaces(proc'[r]) => r = q
                        /\ \A q \in Procs : Holds(proc'[q]) => secretFile = proc'[q].key
      BY <1>3 DEF SecretInv, Replaces, Holds, secretVars
    <3>1. \A q \in Procs \ {p} : proc'[q] = proc[q]
      BY <1>2, <2>2
    <3>2. proc'[p] = new
      BY <1>2, <2>2
    <3> QED BY <1>3, <2>3, <3>1, <3>2 DEF StartInv, SecretInv
  <2> QED BY <2>4, <2>5 DEF StartInv
<1>4. CASE /\ secretFile = 0 /\ made' = made + 1 /\ UNCHANGED secretFile
           /\ raced' = (raced \/ Replacing # {})
           /\ Go(p, "read", [proc[p] EXCEPT !.source = "file", !.key = made + 1], "truncate")
  <2>1. PICK new : new = [x EXCEPT !.source = "file", !.key = made + 1, !.pc = "truncate"]
    OBVIOUS
  <2>2. proc' = [proc EXCEPT ![p] = new]
    BY <1>1, <1>4, <2>1 DEF Go, Set
  <2>3. /\ new.pc = "truncate" /\ new.source = "file" /\ new.key = made + 1
        /\ new.start = x.start /\ new.cfg = x.cfg /\ new.watched = x.watched
        /\ new.callback = x.callback /\ new.events = x.events /\ new.missed = x.missed
    BY <2>1 DEF Processes
  <2>4. new \in Processes'
    <3>1. made + 1 \in 0..made' /\ 0..made \subseteq 0..made'
      BY <1>2, <1>4
    <3>2. Processes \subseteq Processes'
      BY <3>1 DEF Processes
    <3>3. "truncate" \in Labels
      BY DEF Labels
    <3> QED BY <2>1, <3>1, <3>2, <3>3 DEF Processes
  <2>5. Sound(new) /\ ~Holds(new)
    <3>1. new.key # 0
      BY <1>2, <2>3
    <3> QED BY <1>1, <2>3, <3>1 DEF Sound, Connected, Follows, Holds
  <2>6. TypeOK' /\ \A q \in Procs : Sound(proc[q])'
    <3>1. UNCHANGED <<fileVars, dbUp, used>>
      BY DEF ReadSecret
    <3>2. made' \in Nat /\ made <= made' /\ secretFile' \in 0..made' /\ raced' \in BOOLEAN
      BY <1>2, <1>4
    <3> QED BY <2>2, <2>4, <2>5, <3>1, <3>2, SameFiles
  <2>7. SecretInv'
    <3> SUFFICES ASSUME ~raced, Replacing = {}
                 PROVE  /\ \A q \in Procs : Replaces(proc'[q]) =>
                              secretFile = 0 /\ \A r \in Procs : Replaces(proc'[r]) => r = q
                        /\ \A q \in Procs : Holds(proc'[q]) => secretFile = proc'[q].key
      BY <1>4 DEF SecretInv, Replaces, Holds
    <3>1. \A q \in Procs \ {p} : proc'[q] = proc[q] /\ ~Replaces(proc[q])
      BY <1>2, <2>2 DEF Replacing, Replaces
    <3>2. proc'[p] = new
      BY <1>2, <2>2
    <3> QED BY <1>4, <2>5, <3>1, <3>2 DEF StartInv, SecretInv
  <2> QED BY <2>6, <2>7 DEF StartInv
<1> QED BY <1>3, <1>4 DEF ReadSecret

\* The secret is in the file before its process goes on.
LEMMA WriteSecretKeeps == ASSUME StartInv, NEW p \in Procs, WriteSecret(p) PROVE StartInv'
<1>1. PICK x \in Processes : x = proc[p] /\ Sound(x) /\ x.pc \in {"truncate", "write"}
  BY Held DEF WriteSecret, Go, At
<1>2. /\ proc \in [Procs -> Processes] /\ made \in Nat /\ secretFile \in 0..made
      /\ raced \in BOOLEAN
  BY DEF StartInv, TypeOK
<1>3. made' = made /\ raced' = raced /\ UNCHANGED <<fileVars, dbUp, used>>
  BY DEF WriteSecret
<1>4. ASSUME ~raced
      PROVE  \A q \in Procs \ {p} : ~Replaces(proc[q]) /\ ~Holds(proc[q])
  <2>1. secretFile = 0 /\ \A q \in Procs : Replaces(proc[q]) => q = p
    BY <1>1, <1>4 DEF StartInv, SecretInv, Replaces
  <2>2. \A q \in Procs : Holds(proc[q]) => secretFile = proc[q].key /\ proc[q].key # 0
    BY <1>4 DEF StartInv, SecretInv, Sound, Holds
  <2> QED BY <2>1, <2>2
<1>5. CASE Go(p, "truncate", proc[p], "write") /\ secretFile' = 0
  <2>1. PICK new : new = [x EXCEPT !.pc = "write"]
    OBVIOUS
  <2>2. proc' = [proc EXCEPT ![p] = new]
    BY <1>1, <1>5, <2>1 DEF Go, Set
  <2>3. new \in Processes
    BY <2>1 DEF Processes, Labels
  <2>4. Sound(new) /\ ~Holds(new)
    BY <1>1, <2>1 DEF Sound, Connected, Follows, Processes, Holds
  <2>5. TypeOK' /\ \A q \in Procs : Sound(proc[q])'
    <3>1. Processes' = Processes
      BY <1>3 DEF Processes
    <3>2. made' \in Nat /\ made <= made' /\ secretFile' \in 0..made' /\ raced' \in BOOLEAN
      BY <1>2, <1>3, <1>5
    <3> QED BY <1>3, <2>2, <2>3, <2>4, <3>1, <3>2, SameFiles
  <2>6. SecretInv'
    <3> SUFFICES ASSUME ~raced
                 PROVE  /\ \A q \in Procs : Replaces(proc'[q]) =>
                              secretFile' = 0 /\ \A r \in Procs : Replaces(proc'[r]) => r = q
                        /\ \A q \in Procs : ~Holds(proc'[q])
      BY <1>3 DEF SecretInv, Replaces, Holds
    <3>1. \A q \in Procs \ {p} : proc'[q] = proc[q]
      BY <1>2, <2>2
    <3>2. proc'[p] = new
      BY <1>2, <2>2
    <3> QED BY <1>4, <1>5, <2>4, <3>1, <3>2
  <2> QED BY <2>5, <2>6 DEF StartInv
<1>6. CASE Go(p, "write", proc[p], "enforcer") /\ secretFile' = proc[p].key
  <2>1. PICK new : new = [x EXCEPT !.pc = "enforcer"]
    OBVIOUS
  <2>2. proc' = [proc EXCEPT ![p] = new]
    BY <1>1, <1>6, <2>1 DEF Go, Set
  <2>3. new \in Processes
    BY <2>1 DEF Processes, Labels
  <2>4. Sound(new) /\ ~Replaces(new) /\ new.key = x.key /\ x.key \in 0..made
    BY <1>1, <2>1 DEF Sound, Connected, Follows, Processes, Replaces
  <2>5. TypeOK' /\ \A q \in Procs : Sound(proc[q])'
    <3>1. Processes' = Processes
      BY <1>3 DEF Processes
    <3>2. made' \in Nat /\ made <= made' /\ secretFile' \in 0..made' /\ raced' \in BOOLEAN
      BY <1>1, <1>2, <1>3, <1>6, <2>4
    <3> QED BY <1>3, <2>2, <2>3, <2>4, <3>1, <3>2, SameFiles
  <2>6. SecretInv'
    <3> SUFFICES ASSUME ~raced
                 PROVE  /\ \A q \in Procs : ~Replaces(proc'[q])
                        /\ \A q \in Procs : Holds(proc'[q]) => secretFile' = proc'[q].key
      BY <1>3 DEF SecretInv, Replaces, Holds
    <3>1. \A q \in Procs \ {p} : proc'[q] = proc[q]
      BY <1>2, <2>2
    <3>2. proc'[p] = new
      BY <1>2, <2>2
    <3> QED BY <1>1, <1>4, <1>6, <2>4, <3>1, <3>2
  <2> QED BY <2>5, <2>6 DEF StartInv
<1> QED BY <1>5, <1>6 DEF WriteSecret

\* Whoever changes the configuration file is seen by the watcher, or noted as missed.
LEMMA EditKeeps == ASSUME StartInv, Edit PROVE StartInv'
<1>1. proc \in [Procs -> Processes] /\ UNCHANGED <<deployment, environ, secretVars, dbUp>>
  BY DEF StartInv, TypeOK, Edit
<1>2. PICK event \in {"write", "remove"} :
          proc' = [p \in Procs |->
                     IF proc[p].watched
                     THEN [proc[p] EXCEPT !.events = Append(@, event)]
                     ELSE [proc[p] EXCEPT !.missed = Started(p)]]
  BY DEF Edit
<1>3. file' \in Files(deployment)' /\ used' \in [starts : Nat, edits : Nat, faults : Nat]
  <2>1. file' \in Files(deployment) /\ used' \in [starts : Nat, edits : Nat, faults : Nat]
    BY DEF Edit, StartInv, TypeOK
  <2>2. Files(deployment)' = Files(deployment)
    BY <1>1 DEF Files
  <2> QED BY <2>1, <2>2
<1>4. ASSUME NEW p \in Procs
      PROVE  /\ proc'[p] \in Processes /\ Sound(proc[p])'
             /\ proc'[p].pc = proc[p].pc /\ proc'[p].source = proc[p].source
             /\ proc'[p].key = proc[p].key
  <2>1. PICK x \in Processes : x = proc[p] /\ Sound(x)
    BY Held
  <2>2. CASE x.watched
    <3>1. PICK events \in Seq({"write", "remove"}) :
              events = Append(x.events, event) /\ events # <<>>
      <4>1. x.events \in Seq({"write", "remove"})
        BY DEF Processes
      <4>2. /\ Append(x.events, event) \in Seq({"write", "remove"})
            /\ Append(x.events, event) # <<>>
        BY <4>1, AppendProperties
      <4> QED BY <4>2
    <3>2. PICK new : new = [x EXCEPT !.events = events] /\ new = proc'[p]
      BY <1>2, <2>1, <2>2, <3>1
    <3>3. new \in Processes
      BY <3>2 DEF Processes
    <3>4. Sound(new)'
      <4>1. /\ new.pc = x.pc /\ new.source = x.source /\ new.key = x.key
            /\ new.start = x.start /\ new.cfg = x.cfg /\ new.watched = x.watched
            /\ new.callback = x.callback /\ new.events = events /\ new.missed = x.missed
        BY <3>2 DEF Processes
      <4> QED BY <4>1, <1>1, <2>1, <2>2, <3>1, SameEnviron DEF Sound, Connected
    <3>5. new.pc = x.pc /\ new.source = x.source /\ new.key = x.key
      BY <3>2 DEF Processes
    <3> QED BY <2>1, <3>2, <3>3, <3>4, <3>5 DEF Sound, Connected, Follows, Readable, Overridden, Mode
  <2>3. CASE ~x.watched
    <3>1. PICK missed \in BOOLEAN : missed = Started(p)
      BY DEF Started
    <3>2. PICK new : new = [x EXCEPT !.missed = missed] /\ new = proc'[p]
      BY <1>2, <2>1, <2>3, <3>1
    <3>3. new \in Processes
      BY <3>2 DEF Processes
    <3>4. Sound(new)'
      <4>1. /\ new.pc = x.pc /\ new.source = x.source /\ new.key = x.key
            /\ new.start = x.start /\ new.cfg = x.cfg /\ new.watched = x.watched
            /\ new.callback = x.callback /\ new.events = x.events
            /\ new.missed = (x.pc \notin {"off", "load"})
        BY <2>1, <3>1, <3>2 DEF Processes, Started
      <4> QED BY <4>1, <1>1, <2>1, <2>3, SameEnviron DEF Sound, Connected
    <3>5. new.pc = x.pc /\ new.source = x.source /\ new.key = x.key
      BY <3>2 DEF Processes
    <3> QED BY <2>1, <3>2, <3>3, <3>4, <3>5 DEF Sound, Connected, Follows, Readable, Overridden, Mode
  <2> QED BY <2>2, <2>3
<1>5. proc' \in [Procs -> Processes] /\ Processes' = Processes
  BY <1>1, <1>2, <1>4 DEF Processes, secretVars
<1>6. TypeOK'
  BY <1>1, <1>3, <1>5 DEF StartInv, TypeOK, secretVars
<1>7. SecretInv'
  BY <1>1, <1>4 DEF StartInv, SecretInv, Replaces, Holds, secretVars
<1> QED BY <1>4, <1>6, <1>7 DEF StartInv, Sound, Connected, Follows, Readable

-----------------------------------------------------------------------------
(* The theorems. *)

LEMMA Initially == Init => StartInv
<1> SUFFICES ASSUME Init PROVE StartInv
  OBVIOUS
<1>1. made = 0 /\ secretFile = 0 /\ proc = [p \in Procs |-> Off]
  BY DEF Init
<1>2. Off \in Processes
  <2>1. 0 \in 0..made /\ 0 \in 0..(MaxTries - 1)
    BY <1>1, StartupAssumption
  <2> QED BY <2>1, OffType DEF Processes, Init
<1>3. TypeOK
  <2>1. /\ deployment \in {"debug", "release"} /\ environ \in Environs
        /\ file \in Files(deployment) /\ dbUp \in BOOLEAN
    BY DEF Init
  <2>2. proc \in [Procs -> Processes]
    BY <1>1, <1>2, Zenon
  <2>4. made \in Nat /\ secretFile \in 0..made
    BY <1>1
  <2>5. raced \in BOOLEAN
    BY Zenon DEF Init
  <2>3. used \in [starts : Nat, edits : Nat, faults : Nat]
    BY DEF Init
  <2> QED BY <2>1, <2>2, <2>3, <2>4, <2>5 DEF TypeOK
<1> QED BY <1>1, <1>3, OffSound DEF StartInv, SecretInv

LEMMA Inductive == StartInv /\ [Next]_vars => StartInv'
<1> SUFFICES ASSUME StartInv, [Next]_vars PROVE StartInv'
  OBVIOUS
<1>1. CASE UNCHANGED vars
  <2>1. TypeOK'
    BY <1>1 DEF vars, StartInv, TypeOK, Files, Processes
  <2>2. \A p \in Procs : Sound(proc[p])'
    BY <1>1, SameSounds DEF vars, fileVars, StartInv
  <2>3. SecretInv'
    BY <1>1 DEF vars, StartInv, SecretInv, Replaces, Holds
  <2> QED BY <2>1, <2>2, <2>3 DEF StartInv
<1>2. ASSUME NEW p \in Procs, StartStep(p) PROVE StartInv'
  BY <1>2, LoadKeeps, WatchKeeps, OpenKeeps, ResolveKeeps, ReadSecretKeeps,
     WriteSecretKeeps, ServeKeeps DEF StartStep
<1>3. ASSUME NEW p \in Procs, Fail(p) \/ Stop(p) PROVE StartInv'
  <2>1. used' \in [starts : Nat, edits : Nat, faults : Nat] /\ dbUp' \in BOOLEAN
    BY <1>3, Held DEF Fail, Stop
  <2>2. Set(p, Off) /\ UNCHANGED <<fileVars, secretVars>>
    BY <1>3 DEF Fail, Stop, Die
  <2> QED BY <2>1, <2>2, EndKeeps
<1>4. CASE SwitchDB
  <2>1. UNCHANGED <<fileVars, secretVars, proc>> /\ dbUp' \in BOOLEAN
        /\ used' \in [starts : Nat, edits : Nat, faults : Nat]
    BY <1>4 DEF SwitchDB, StartInv, TypeOK
  <2>2. TypeOK'
    BY <2>1 DEF fileVars, secretVars, StartInv, TypeOK, Files, Processes
  <2>3. \A p \in Procs : Sound(proc[p])'
    BY <2>1, SameSounds DEF StartInv
  <2>4. SecretInv'
    BY <2>1 DEF secretVars, StartInv, SecretInv, Replaces, Holds
  <2> QED BY <2>2, <2>3, <2>4 DEF StartInv
<1>5. ASSUME NEW p \in Procs, Boot(p) \/ Reload(p) PROVE StartInv'
  BY <1>5, BootKeeps, ReloadKeeps
<1>6. CASE Edit
  BY <1>6, EditKeeps
<1> QED BY <1>1, <1>2, <1>3, <1>4, <1>5, <1>6 DEF Next, Quiet

LEMMA StartInvariant == Spec => []StartInv
  BY Initially, Inductive, PTL DEF Spec

\* Every variable has its type: no secret is used that was not generated, and
\* openWithRetry makes no more attempts than it may.
THEOREM StartupTyped == Spec => []TypeOK
<1>1. StartInv => TypeOK
  BY DEF StartInv
<1> QED BY <1>1, StartInvariant, PTL

\* Unless two processes replaced the secret at a time, whoever works with the generated
\* secret finds it in the file, wherever processes were killed.
THEOREM SecretIsStored == Spec => []SecretStored
<1>1. StartInv => SecretStored
  BY DEF StartInv, SecretInv, Holds, SecretStored
<1> QED BY <1>1, StartInvariant, PTL

\* Where the environment, or else the configuration file, says release, no process
\* works with a generated secret: one that fell back to the defaults has no host for
\* its database, whatever the environment says, and gets no further.
THEOREM NoGeneratedRelease == Spec => []ReleaseNeverGenerates
<1>1. ASSUME StartInv PROVE ReleaseNeverGenerates
  <2> SUFFICES ASSUME Mode = "release", NEW p \in Procs, proc[p].source = "file"
               PROVE  FALSE
    BY DEF ReleaseNeverGenerates
  <2>1. Sound(proc[p])
    BY <1>1 DEF StartInv
  <2> QED BY <2>1 DEF Sound
<1> QED BY <1>1, StartInvariant, PTL

\* When the watcher has handled every event and missed none, the snapshot has, for each
\* key that the file gives, the value of the environment or else that of the file.
THEOREM SnapshotFollows == Spec => []SnapshotCurrent
<1>1. ASSUME StartInv PROVE SnapshotCurrent
  <2> SUFFICES ASSUME NEW p \in Procs, proc[p].callback, proc[p].events = <<>>,
                      ~proc[p].missed, Readable
               PROVE  Follows(proc[p])
    BY DEF SnapshotCurrent, Follows
  <2>1. Sound(proc[p])
    BY <1>1 DEF StartInv
  <2> QED BY <2>1 DEF Sound
<1> QED BY <1>1, StartInvariant, PTL

=============================================================================
