------------------------------ MODULE Startup ------------------------------
(***************************************************************************)
(* What a process does before it serves: config.Manager, database.Open and *)
(* auth.New, as run in main.go and wire.InitApp call them; and the reload  *)
(* of the configuration afterwards.                                        *)
(*                                                                         *)
(* Several processes may run in one directory, so that they share the      *)
(* configuration file and the file of the generated secret.  A process may *)
(* be killed at any step.  Three keys stand for all: "mode" has a default, *)
(* "secret" has none and may be left out, "host" has none and is required. *)
(* A ROCWAY_ variable of the environment goes before the file and before   *)
(* the default, for the keys that one of them names.                       *)
(***************************************************************************)
EXTENDS Integers, Sequences

CONSTANTS Procs,
          EnvModes,   \* what ROCWAY_SERVER_MODE may be
          MaxTries,   \* the attempts of openWithRetry
          MaxStarts,  \* bound: processes started
          MaxEdits,   \* bound: changes of the configuration file
          MaxFaults   \* bound: kills, and steps that fail

ASSUME StartupAssumption ==
    /\ EnvModes \subseteq {"absent", "debug", "release"}
    /\ MaxTries \in Nat \ {0}
    /\ MaxStarts \in Nat /\ MaxEdits \in Nat /\ MaxFaults \in Nat

VARIABLES deployment,  \* the mode the configuration file gives whenever it gives one
          environ,     \* the ROCWAY_ variables the processes are started with
          file,        \* the configuration file
          secretFile,  \* the generated secret in configs/.jwt_secret, 0 if there is none
          made,        \* secrets generated so far
          dbUp,
          proc,        \* the processes
          raced,       \* history: two processes were replacing the secret at a time
          used         \* how much of each bound is spent

vars == <<deployment, environ, file, secretFile, made, dbUp, proc, raced, used>>
secretVars == <<secretFile, made, raced>>
fileVars == <<deployment, environ, file>>

-----------------------------------------------------------------------------
(* config. *)

Keys == {"mode", "secret", "host"}
Absent == "absent"
\* What the YAML file says of each key; Bare is an empty file.
Bare == [k \in Keys |-> Absent]
Full(mode, secret) == [mode |-> mode, secret |-> secret, host |-> "db"]

File(state, says) == [state |-> state, says |-> says]

\* The states of the file; somebody who writes it may have emptied it first.
Files(mode) == {File("missing", Bare), File("broken", Bare), File("good", Bare)}
    \cup {File("good", Full(mode, secret)) : secret \in {"", "long"}}
Readable == file.state = "good"

\* The environments; secret and host are set together.
Environs == {[mode |-> mode, secret |-> Absent, host |-> Absent] : mode \in EnvModes}
       \cup {[mode |-> mode, secret |-> "short", host |-> "db2"] : mode \in EnvModes}

\* Variant: the database has a default host.
DefaultsHost == [mode |-> "debug", host |-> "db"]
\* setDefaults.
Defaults == [mode |-> "debug"]

\* The value of a key for viper: that of the environment (AutomaticEnv), if not the
\* one given.
Overridden(k, given) == IF environ[k] # Absent THEN environ[k] ELSE given

\* Unmarshal of viper's settings into the snapshot there is: a key that neither the
\* file nor the defaults name keeps the value it had, whatever the environment says.
Decode(snapshot, settings) ==
    [k \in Keys |-> IF settings[k] # Absent THEN Overridden(k, settings[k])
                    ELSE IF k \in DOMAIN Defaults THEN Overridden(k, Defaults[k])
                    ELSE snapshot[k]]

\* config.New.
Fresh == Decode([k \in Keys |-> ""], Bare)

-----------------------------------------------------------------------------
(* The processes. *)

\* settings is what viper has read, cfg the Manager's snapshot, start the copy run
\* works with; watched and callback tell how far Watch has got, events are those of
\* the file that the watcher has not handled.  missed is a history variable: the file
\* changed when nobody was told.  source is where the secret of auth.Auth comes from,
\* key the secret if that is the file.  A process that failed is off again.
Off == [pc |-> "off", settings |-> Bare, cfg |-> Fresh, start |-> Fresh, watched |-> FALSE,
        callback |-> FALSE, events |-> <<>>, missed |-> FALSE, tries |-> 0,
        source |-> "none", key |-> 0]

Init ==
    /\ deployment \in {"debug", "release"} /\ environ \in Environs
    /\ file \in Files(deployment)
    /\ secretFile = 0 /\ made = 0 /\ raced = FALSE
    /\ dbUp \in BOOLEAN
    /\ proc = [p \in Procs |-> Off]
    /\ used = [starts |-> 0, edits |-> 0, faults |-> 0]

Set(p, new) == proc' = [proc EXCEPT ![p] = new]
At(p, label) == proc[p].pc = label
Go(p, from, new, to) == At(p, from) /\ Set(p, [new EXCEPT !.pc = to])
Die(p, from) == At(p, from) /\ Set(p, Off)

Boot(p) ==
    /\ used.starts < MaxStarts /\ used' = [used EXCEPT !.starts = @ + 1]
    /\ Go(p, "off", Off, "load")
    /\ UNCHANGED <<fileVars, secretVars, dbUp>>

\* Load, and Current; a file that cannot be read leaves the defaults.
Load(p) ==
    /\ \/ /\ Readable
          /\ LET cfg == Decode(proc[p].cfg, file.says)
             IN  Go(p, "load", [proc[p] EXCEPT !.settings = file.says, !.cfg = cfg,
                                               !.start = cfg], "watch")
       \/ ~Readable /\ Go(p, "load", proc[p], "watch")
    /\ UNCHANGED <<fileVars, secretVars, dbUp, used>>

\* WatchConfig starts the watcher; the callback is set after that.
Watch(p) ==
    /\ \/ Go(p, "watch", [proc[p] EXCEPT !.watched = TRUE], "callback")
       \/ Go(p, "callback", [proc[p] EXCEPT !.callback = TRUE], "open")
    /\ UNCHANGED <<fileVars, secretVars, dbUp, used>>

\* DSN panics without a host.
NoDSN(p) == proc[p].start.host = ""

\* Variant: one attempt more.
OpenOnceMore(p) ==
    /\ ~NoDSN(p) /\ ~dbUp
    /\ Go(p, "open", [proc[p] EXCEPT !.tries = @ + 1],
          IF proc[p].tries < MaxTries THEN "open" ELSE "off")
    /\ UNCHANGED <<fileVars, secretVars, dbUp, used>>
\* Variant: there is no last attempt.
OpenForever(p) ==
    /\ \/ NoDSN(p) /\ Die(p, "open")
       \/ /\ ~NoDSN(p)
          /\ \/ dbUp /\ Go(p, "open", [proc[p] EXCEPT !.tries = 0], "resolve")
             \/ ~dbUp /\ Go(p, "open", proc[p], "open")
    /\ UNCHANGED <<fileVars, secretVars, dbUp, used>>
\* openWithRetry.  The read nodes have one attempt each, and the cache, whose New
\* returns no error, none.
Open(p) ==
    /\ \/ NoDSN(p) /\ Die(p, "open")
       \/ /\ ~NoDSN(p)
          /\ \/ dbUp /\ Go(p, "open", [proc[p] EXCEPT !.tries = 0], "resolve")
             \/ /\ ~dbUp /\ proc[p].tries + 1 < MaxTries
                /\ Go(p, "open", [proc[p] EXCEPT !.tries = @ + 1], "open")
             \/ ~dbUp /\ proc[p].tries + 1 = MaxTries /\ Die(p, "open")
    /\ UNCHANGED <<fileVars, secretVars, dbUp, used>>

IsDev(p) == proc[p].start.mode # "release"

\* resolveSecret, and New's check of the length: jwt is JWT_SECRET, which goes before
\* the configuration.
Resolve(p) ==
    \E jwt \in {"", "short", "long"} :
       LET explicit == IF jwt # "" THEN jwt ELSE proc[p].start.secret
           source == IF jwt # "" THEN "env" ELSE "config"
       IN  /\ \/ /\ explicit = "long"
                 /\ Go(p, "resolve", [proc[p] EXCEPT !.source = source], "enforcer")
              \/ explicit = "short" /\ Die(p, "resolve")
              \/ explicit = "" /\ IsDev(p) /\ Go(p, "resolve", proc[p], "read")
              \/ explicit = "" /\ ~IsDev(p) /\ Die(p, "resolve")
           /\ UNCHANGED <<fileVars, secretVars, dbUp, used>>

\* Replacing the secret takes a process from here to the end of its write.
Replacing == {p \in Procs : proc[p].pc \in {"truncate", "write"}}

\* Variant: the secret that is there is not used.
ReadSecretIgnored(p) ==
    /\ Go(p, "read", [proc[p] EXCEPT !.source = "file", !.key = made + 1], "truncate")
    /\ made' = made + 1 /\ raced' = (raced \/ Replacing # {})
    /\ UNCHANGED <<fileVars, secretFile, dbUp, used>>
\* loadOrGenerateDevSecret reads the file; a missing or a short one is replaced.
ReadSecret(p) ==
    /\ \/ /\ secretFile # 0
          /\ Go(p, "read", [proc[p] EXCEPT !.source = "file", !.key = secretFile], "enforcer")
          /\ UNCHANGED secretVars
       \/ /\ secretFile = 0
          /\ Go(p, "read", [proc[p] EXCEPT !.source = "file", !.key = made + 1], "truncate")
          /\ made' = made + 1 /\ raced' = (raced \/ Replacing # {}) /\ UNCHANGED secretFile
    /\ UNCHANGED <<fileVars, dbUp, used>>

\* WriteFile opens the file, which empties it, and then writes.
WriteSecret(p) ==
    /\ \/ Go(p, "truncate", proc[p], "write") /\ secretFile' = 0
       \/ Go(p, "write", proc[p], "enforcer") /\ secretFile' = proc[p].key
    /\ UNCHANGED <<fileVars, made, dbUp, raced, used>>

\* NewEnforcer reads its files, and NewApp and the servers follow (Lifecycle).
Serve(p) == Go(p, "enforcer", proc[p], "serving") /\ UNCHANGED <<fileVars, secretVars, dbUp, used>>

\* Variant: the snapshot is decoded before the file is read.
ReloadedEarly(p) == [proc[p] EXCEPT !.cfg = Decode(@, proc[p].settings),
                                    !.settings = IF Readable THEN file.says ELSE @,
                                    !.missed = FALSE]
\* The watcher reads the file, or keeps what it has, and calls the callback if it is set.
Reloaded(p) ==
    LET settings == IF Readable THEN file.says ELSE proc[p].settings
    IN  IF proc[p].callback
        THEN [proc[p] EXCEPT !.settings = settings, !.cfg = Decode(@, settings), !.missed = FALSE]
        ELSE [proc[p] EXCEPT !.settings = settings, !.missed = TRUE]

\* The watcher handles an event; after the removal of the file it ends.
Reload(p) ==
    /\ proc[p].events # <<>>
    /\ \/ /\ Head(proc[p].events) = "write"
          /\ Set(p, [Reloaded(p) EXCEPT !.events = Tail(@)])
       \/ /\ Head(proc[p].events) = "remove"
          /\ Set(p, [proc[p] EXCEPT !.events = <<>>, !.watched = FALSE, !.missed = TRUE])
    /\ UNCHANGED <<fileVars, secretVars, dbUp, used>>

-----------------------------------------------------------------------------
(* What happens around the processes. *)

Started(p) == proc[p].pc \notin {"off", "load"}

\* Somebody changes the configuration file.
Edit ==
    /\ used.edits < MaxEdits /\ used' = [used EXCEPT !.edits = @ + 1]
    /\ file' \in Files(deployment) \ {file}
    /\ LET event == IF file'.state = "missing" THEN "remove" ELSE "write"
       IN  proc' = [p \in Procs |->
                      IF proc[p].watched THEN [proc[p] EXCEPT !.events = Append(@, event)]
                      ELSE [proc[p] EXCEPT !.missed = Started(p)]]
    /\ UNCHANGED <<deployment, environ, secretVars, dbUp>>

SwitchDB ==
    /\ used.faults < MaxFaults /\ used' = [used EXCEPT !.faults = @ + 1]
    /\ dbUp' = ~dbUp
    /\ UNCHANGED <<fileVars, secretVars, proc>>

\* A process is killed, or one of its steps on files fails: MkdirAll, WriteFile, which
\* leaves an empty file behind, or the policy of the enforcer.
Fail(p) ==
    /\ used.faults < MaxFaults /\ used' = [used EXCEPT !.faults = @ + 1]
    /\ ~At(p, "off") /\ Set(p, Off)
    /\ UNCHANGED <<fileVars, secretVars, dbUp>>

\* A process ends, and may be started again.
Stop(p) ==
    /\ Die(p, "serving")
    /\ UNCHANGED <<fileVars, secretVars, dbUp, used>>

Quiet == (\A p \in Procs : At(p, "off")) /\ UNCHANGED vars

StartStep(p) ==
    Load(p) \/ Watch(p) \/ Open(p) \/ Resolve(p) \/ ReadSecret(p) \/ WriteSecret(p) \/ Serve(p)

Next ==
    \/ \E p \in Procs : Boot(p) \/ StartStep(p) \/ Reload(p) \/ Fail(p) \/ Stop(p)
    \/ Edit \/ SwitchDB \/ Quiet

Spec == Init /\ [][Next]_vars

\* A process that was started takes its steps; the database need not come back.
FairSpec == Spec /\ \A p \in Procs : WF_vars(StartStep(p))

-----------------------------------------------------------------------------
(* Properties. *)

Values == {Absent, "", "debug", "release", "short", "long", "db", "db2"}
Labels == {"off", "load", "watch", "callback", "open", "resolve", "read", "truncate",
           "write", "enforcer", "serving"}
Processes == [pc : Labels, settings : [Keys -> Values], cfg : [Keys -> Values],
              start : [Keys -> Values], watched : BOOLEAN, callback : BOOLEAN,
              events : Seq({"write", "remove"}), missed : BOOLEAN, tries : 0..(MaxTries - 1),
              source : {"none", "env", "config", "file"},
              key : 0..made]

\* Every variable has its type: no secret is used that was not generated, and the
\* attempts to open the database are never more than openWithRetry allows.
TypeOK ==
    /\ deployment \in {"debug", "release"} /\ environ \in Environs
    /\ file \in Files(deployment)
    /\ made \in Nat /\ secretFile \in 0..made /\ dbUp \in BOOLEAN /\ raced \in BOOLEAN
    /\ proc \in [Procs -> Processes]
    /\ used \in [starts : Nat, edits : Nat, faults : Nat]

\* As long as no two processes replaced the secret at a time, a process that works
\* with the generated secret finds it in the file, so that the tokens it signs outlive
\* its restart ("保证重启后 token 不失效", loadOrGenerateDevSecret), whoever was
\* killed in between.
SecretStored ==
    ~raced => \A p \in Procs :
        proc[p].source = "file" /\ proc[p].pc \in {"enforcer", "serving"} =>
            secretFile = proc[p].key

\* The mode a deployment is meant to run in.
Mode == Overridden("mode", deployment)

\* Where the environment, or else the configuration file, says release, no process ever
\* works with a generated secret, even one that starts while the file is missing, empty
\* or broken and thus falls back to the defaults, whose mode is debug (run,
\* resolveSecret).
ReleaseNeverGenerates ==
    Mode = "release" => \A p \in Procs : proc[p].source # "file"

\* When the watcher has handled every event and the callback was set before the
\* first, the snapshot has, for each key that the file gives, the value of the
\* environment or else that of the file (Watch, New).
SnapshotCurrent ==
    \A p \in Procs :
        proc[p].callback /\ proc[p].events = <<>> /\ ~proc[p].missed /\ Readable =>
            \A k \in Keys :
                file.says[k] # Absent => proc[p].cfg[k] = Overridden(k, file.says[k])

\* A start ends: the process serves, or it fails, also while the database stays
\* away (openWithRetry).
StartsEnd ==
    \A p \in Procs : At(p, "load") ~> (At(p, "serving") \/ At(p, "off"))
=============================================================================
