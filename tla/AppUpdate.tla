----------------------------- MODULE AppUpdate -----------------------------
(***************************************************************************)
(* The updates of the program itself: state/app_update.rs and its routes.   *)
(* A watchdog and clients ask the npm registry for the latest version; a   *)
(* client has it installed by a job, and has the launcher restart the      *)
(* server.  Every call is a future that its client can drop by hanging up. *)
(***************************************************************************)
EXTENDS Naturals, Sequences, SequencesExt, FiniteSets

CONSTANTS
    Clients,      \* requests to /api/app-update, one call each
    Asks,         \* what each may be: check, force, install or restart
    Metadata,     \* what the environment and the places around the program say
    Published,    \* the versions the registry will name, in order
    Launcher,     \* whether a launcher takes restarts
    Faults        \* a subset of FaultNames

Watchdog == "watchdog"
Callers == Clients \cup {Watchdog}
FaultNames == {"registry", "install", "launcher", "hangup"}
Modes == {"source", "npx", "npm", "pnpm", "bun", "unknown"}
AutoModes == {"npm", "pnpm", "bun"}
Unknown == <<0, 0>>         \* no version, or one that cannot be parsed
Retries == 2                \* APP_UPDATE_NPM_RETRY_DELAYS_SECS

UpdateAssumption ==
    /\ Asks \in [Clients -> SUBSET {"check", "force", "install", "restart"}]
    /\ Watchdog \notin Clients /\ Faults \subseteq FaultNames /\ Launcher \in BOOLEAN
    /\ \A v \in {Published[i] : i \in DOMAIN Published} : v \in Nat \X Nat

VARIABLES
    upd,          \* AppUpdateRuntime: the status, what is installed, two flags
    call,         \* how far each call is
    job,          \* the install command each call has spawned
    fresh,        \* the last check is younger than APP_UPDATE_CHECK_TTL_SECS
    registry,     \* how many versions are published
    disk,         \* the version that is installed on the machine
    running       \* the version the server is
vars == <<upd, call, job, fresh, registry, disk, running>>

-----------------------------------------------------------------------------
\* What the program is: the environment, then the candidates in their order.
\* A candidate is a place around the program that may be its package: the first
\* that says something counts.
First(said, blank, otherwise) ==
    LET known == SelectSeq(said, LAMBDA x : x # blank) IN IF known = <<>> THEN otherwise ELSE known[1]

Versions == [i \in DOMAIN Metadata.places |-> Metadata.places[i].version]
PlaceModes == [i \in DOMAIN Metadata.places |-> Metadata.places[i].mode]
Config ==
    LET said == Metadata.env IN
    [version |-> First(<<said.version>> \o Versions, Unknown, Metadata.binary),
     mode |-> First(<<said.mode>> \o PlaceModes, "unknown", "unknown"),
     named |-> said.named \/ Metadata.named \/ \E i \in DOMAIN Versions : Versions[i] # Unknown]

Enabled == Config.named /\ Config.version # Unknown /\ Config.mode # "source"
CanAutoUpdate == Config.mode \in AutoModes

\* A version is its number and the number of its prerelease, 0 for none.  Of
\* two that cannot be compared the other one is newer.
Older(v, w) ==
    IF v[1] = 0 \/ w[1] = 0 THEN v # w
    ELSE \/ v[1] < w[1]
         \/ v[1] = w[1] /\ v[2] # 0 /\ (w[2] = 0 \/ v[2] < w[2])

Latest == Published[registry]
NewRuntime(version) ==
    [latest |-> Unknown, available |-> FALSE, status |-> "Idle", restartRequired |-> FALSE,
     restarting |-> FALSE, installed |-> version, checking |-> FALSE, updating |-> FALSE]
NoCall == [op |-> "none", at |-> "new", latest |-> Unknown, got |-> Unknown]
NoJob == [at |-> "none", target |-> Unknown, tries |-> 0]

Init ==
    /\ disk = Config.version /\ running = Config.version
    /\ upd = NewRuntime(Config.version)
    /\ call = [c \in Callers |-> IF c = Watchdog THEN [NoCall EXCEPT !.op = "force", !.at = "check"]
                                 ELSE NoCall]
    /\ job = [c \in Callers |-> NoJob]
    /\ fresh = FALSE /\ registry = 1

At(c, at) == call' = [call EXCEPT ![c].at = at]
Leave(c) == At(c, IF c = Watchdog THEN "sleep" ELSE "done")

-----------------------------------------------------------------------------
(* refresh_app_update *)
Request(c, op) ==
    /\ call[c].at = "new" /\ op \in Asks[c]
    /\ call' = [call EXCEPT ![c] = [NoCall EXCEPT !.op = op, !.at = IF op = "restart" THEN "look" ELSE "check"]]
    /\ UNCHANGED <<upd, job, fresh, registry, disk, running>>

\* Another check every 30 minutes, when the one before is no longer fresh.
Wake ==
    /\ call[Watchdog].at = "sleep" /\ ~fresh
    /\ call' = [call EXCEPT ![Watchdog] = [NoCall EXCEPT !.op = "check", !.at = "check"]]
    /\ UNCHANGED <<upd, job, fresh, registry, disk, running>>

\* What the caller does with the status it was answered.
Answered(c, status) ==
    IF call[c].op = "install"
    THEN call' = [call EXCEPT ![c].at = "invoke", ![c].latest = status.latest]
    ELSE Leave(c)

Skips(c) == ~Enabled \/ upd.updating \/ upd.checking \/ (call[c].op = "check" /\ fresh)
Skip(c) ==
    /\ call[c].at = "check" /\ Skips(c)
    /\ Answered(c, upd)
    /\ UNCHANGED <<upd, job, fresh, registry, disk, running>>
Begin(c) ==
    /\ call[c].at = "check" /\ ~Skips(c)
    /\ upd' = [upd EXCEPT !.checking = TRUE]
    /\ At(c, "fetch")
    /\ UNCHANGED <<job, fresh, registry, disk, running>>

\* The answer of the registry, Unknown for an error.
Fetch(c) ==
    /\ call[c].at = "fetch"
    /\ \E got \in {Latest} \cup (IF "registry" \in Faults THEN {Unknown} ELSE {}) :
           call' = [call EXCEPT ![c].at = "apply", ![c].got = got]
    /\ UNCHANGED <<upd, job, fresh, registry, disk, running>>

Checked(status, got) ==
    [status EXCEPT !.checking = FALSE, !.latest = got,
                   !.available = got # Unknown /\ Older(status.installed, got)]
Apply(c) ==
    /\ call[c].at = "apply"
    /\ upd' = Checked(upd, call[c].got)
    /\ fresh' = TRUE
    /\ Answered(c, upd')
    /\ UNCHANGED <<job, registry, disk, running>>

-----------------------------------------------------------------------------
(* trigger_app_update *)
Refused(c) == call[c].latest = Unknown \/ ~CanAutoUpdate \/ ~Enabled
NeverBusy == FALSE
Busy == upd.updating
Invoked(status) ==
    [status EXCEPT !.updating = TRUE, !.status = "Running",
                   !.restartRequired = FALSE, !.restarting = FALSE]
Invoke(c) ==
    /\ call[c].at = "invoke"
    /\ IF Refused(c) \/ Busy \/ ~upd.available THEN Leave(c) /\ UNCHANGED upd
       ELSE upd' = Invoked(upd) /\ At(c, "spawn")
    /\ UNCHANGED <<job, fresh, registry, disk, running>>

\* The status is published before the job is spawned.
SpawnJob(c) ==
    /\ call[c].at = "spawn"
    /\ job' = [job EXCEPT ![c] = [at |-> "run", target |-> call[c].latest, tries |-> 0]]
    /\ Leave(c)
    /\ UNCHANGED <<upd, fresh, registry, disk, running>>

\* The package manager installs, fails in a way that npm is asked again for, or
\* fails for good.
Run(c) ==
    /\ job[c].at = "run"
    /\ \/ /\ disk' = job[c].target
          /\ job' = [job EXCEPT ![c].at = "installed"]
       \/ /\ "install" \in Faults /\ UNCHANGED disk
          /\ job' = [job EXCEPT ![c] = IF Config.mode = "npm" /\ @.tries < Retries
                                       THEN [@ EXCEPT !.tries = @ + 1] ELSE [@ EXCEPT !.at = "failed"]]
       \/ /\ "install" \in Faults /\ UNCHANGED disk
          /\ job' = [job EXCEPT ![c].at = "failed"]
    /\ UNCHANGED <<upd, call, fresh, registry, running>>

Installed(status, target) ==
    [status EXCEPT !.updating = FALSE, !.status = "Completed", !.installed = target,
                   !.latest = target, !.available = FALSE,
                   !.restartRequired = TRUE, !.restarting = FALSE]
NotInstalled(status) ==
    [status EXCEPT !.updating = FALSE, !.status = "Failed", !.restarting = FALSE]
JobEnds(c) ==
    /\ job[c].at \in {"installed", "failed"}
    /\ upd' = IF job[c].at = "installed" THEN Installed(upd, job[c].target) ELSE NotInstalled(upd)
    /\ fresh' = (fresh \/ job[c].at = "installed")
    /\ job' = [job EXCEPT ![c] = NoJob]
    /\ UNCHANGED <<call, registry, disk, running>>

-----------------------------------------------------------------------------
(* trigger_app_restart *)
Look(c) ==
    /\ call[c].at = "look"
    /\ IF Launcher /\ upd.restartRequired THEN At(c, "mark") ELSE Leave(c)
    /\ UNCHANGED <<upd, job, fresh, registry, disk, running>>
Mark(c) ==
    /\ call[c].at = "mark"
    /\ upd' = [upd EXCEPT !.restarting = TRUE]
    /\ At(c, "post")
    /\ UNCHANGED <<job, fresh, registry, disk, running>>
Unmarked(status) == [status EXCEPT !.restarting = FALSE]
PostFails(c) ==
    /\ call[c].at = "post" /\ "launcher" \in Faults
    /\ upd' = Unmarked(upd)
    /\ Leave(c)
    /\ UNCHANGED <<job, fresh, registry, disk, running>>
\* The launcher starts the server again, which is then what is on the machine.
\* The command of a job is a process of its own, which runs on.
PostRestarts(c) ==
    /\ call[c].at = "post"
    /\ running' = disk
    /\ upd' = NewRuntime(disk)
    /\ call' = [d \in Callers |-> IF d = Watchdog THEN [NoCall EXCEPT !.op = "force", !.at = "check"]
                                  ELSE IF call[d].at = "new" THEN call[d] ELSE [NoCall EXCEPT !.at = "done"]]
    /\ job' = [d \in Callers |-> IF job[d].at \in {"run", "left"} THEN [job[d] EXCEPT !.at = "left"] ELSE NoJob]
    /\ fresh' = FALSE
    /\ UNCHANGED <<registry, disk>>

LeftEnds(c) ==
    /\ job[c].at = "left"
    /\ disk' \in {job[c].target, disk}
    /\ job' = [job EXCEPT ![c] = NoJob]
    /\ UNCHANGED <<upd, call, fresh, registry, running>>

-----------------------------------------------------------------------------
\* The client goes away: its call is dropped where it waits, with what it has
\* marked.
Hangup(c) ==
    /\ c \in Clients /\ "hangup" \in Faults
    /\ call[c].at \notin {"new", "done", "lost"}
    /\ At(c, IF call[c].at = "spawn" THEN "lost" ELSE "done")
    /\ UNCHANGED <<upd, job, fresh, registry, disk, running>>

Publish ==
    /\ registry < Len(Published)
    /\ registry' = registry + 1
    /\ UNCHANGED <<upd, call, job, fresh, disk, running>>
Age ==
    /\ fresh
    /\ fresh' = FALSE
    /\ UNCHANGED <<upd, call, job, registry, disk, running>>

CallStep(c) ==
    \/ Skip(c) \/ Begin(c) \/ Fetch(c) \/ Apply(c) \/ Invoke(c) \/ SpawnJob(c)
    \/ Look(c) \/ Mark(c) \/ PostFails(c) \/ PostRestarts(c)
Next ==
    \/ \E c \in Clients : \E op \in Asks[c] : Request(c, op)
    \/ \E c \in Callers : CallStep(c) \/ Run(c) \/ JobEnds(c) \/ LeftEnds(c) \/ Hangup(c)
    \/ Wake \/ Publish \/ Age

Spec == Init /\ [][Next]_vars

\* The tasks run, and time passes.
FairSpec ==
    /\ Spec /\ WF_vars(Wake) /\ WF_vars(Age)
    /\ \A c \in Callers : WF_vars(CallStep(c)) /\ WF_vars(JobEnds(c)) /\ WF_vars(Run(c))
    /\ SF_vars(Fetch(Watchdog) /\ call'[Watchdog].got # Unknown)

-----------------------------------------------------------------------------
TypeOK ==
    /\ upd.status \in {"Idle", "Running", "Completed", "Failed"}
    /\ {upd.available, upd.restartRequired, upd.restarting, upd.checking, upd.updating, fresh} \subseteq BOOLEAN
    /\ \A c \in Callers : call[c].at \in {"new", "check", "fetch", "apply", "invoke", "spawn",
                                          "look", "mark", "post", "sleep", "done", "lost"}
    /\ \A c \in Callers : job[c].at \in {"none", "run", "installed", "failed", "left"} /\ job[c].tries <= Retries

Working == {"run", "installed", "failed"}
\* One install command at most runs, the status says so while it does, and one
\* check at most waits for the registry (update_in_flight, check_in_flight).  A
\* client that hangs up before its job is spawned leaves the status as it is.
Spawning == {c \in Callers : call[c].at \in {"spawn", "lost"}}
OneAtATime ==
    /\ Cardinality({c \in Callers : job[c].at \in Working} \cup Spawning) <= 1
    /\ upd.updating <=> Spawning # {} \/ \E c \in Callers : job[c].at \in Working
    /\ Cardinality({c \in Callers : call[c].at \in {"fetch", "apply"}}) <= 1

\* As long as the registry names newer and newer versions, what is being installed
\* is newer than what was, unless another check has named another version since the
\* call was answered: its client may get the older one.
InstallsNewer ==
    \A c \in Callers : job[c].at = "run" /\ job[c].target = upd.latest => Older(upd.installed, upd.latest)

\* What is offered is newer than what is installed, however checks, jobs and
\* newer versions interleave (compare_target is read when the answer is applied).
OfferIsNewer ==
    upd.available => upd.latest # Unknown /\ Older(upd.installed, upd.latest)

\* While nothing is being installed and no restart came during an install, what the server takes for installed is what
\* is on the machine, across failed jobs, retries and restarts.
InstalledIsKnown ==
    (\A c \in Callers : job[c].at = "none") => upd.installed = disk

\* A restart that is asked for changes the version that runs.  It does not hold:
\* a call that was answered "nothing newer" goes on to install that version
\* when another check finds a newer one before it looks.
RestartChanges == upd.restartRequired => disk # running

\* The watchdog goes on finding the latest version, whatever checks failed, as
\* long as nobody hangs up: a call that is dropped in its check leaves
\* check_in_flight set, and nothing is checked until the server restarts.
NewsArrives == Enabled => []<>(upd.latest = Latest)
=============================================================================
