------------------------------ MODULE ConfigStore ------------------------------
(***************************************************************************)
(* The configuration of a workspace: the copy in memory (AppState.config), *)
(* conductor.yaml (conductor-core/src/config.rs) and the mirrors that      *)
(* support.rs writes into the directories of projects.  Requests change    *)
(* it: preferences and access (routes/config.rs, state/mod.rs),            *)
(* repositories (routes/repositories.rs), new workspaces                   *)
(* (routes/workspaces.rs) and links to a GitHub project                    *)
(* (routes/github.rs).  Each changes memory under the lock and then        *)
(* writes a copy of it that it took under another.                         *)
(*                                                                         *)
(* A preference, an access setting or a field of a project is one value.   *)
(***************************************************************************)
EXTENDS FiniteSets, Functions, TLC

CONSTANTS
    Asked,        \* clients: what each of them asks for, a record of Ask
    Given,        \* the configuration the server starts with
    Blank,        \* the preferences and the access of a file that says nothing
    Places,       \* directories: [dir, git, board |-> BOOLEAN, yaml |-> "none" or "user"]
    Faults,       \* of "clone", "save", "torn", "sync", "link", "crash"
    Overlapping   \* whether requests overlap

Clients == DOMAIN Asked
Paths == DOMAIN Places
None == "none"
ConfigAssumption ==
    /\ Faults \subseteq {"clone", "save", "torn", "sync", "link", "crash"} /\ Overlapping \in BOOLEAN
    /\ \A c \in Clients : Asked[c].op \in {"prefs", "access", "repo", "delete", "git", "local", "link"}

VARIABLES
    config,       \* memory: [prefs, access, projects]
    file,         \* conductor.yaml
    places,       \* directories
    mirror,       \* directories: what the mirror there was made from, a set of at most one
    boards,       \* projects with a board in the workspace
    at,           \* clients: where
    copy,         \* clients: the configuration they read, at most one in a set
    told          \* clients: "ok", "refused", "error" or None

vars == <<config, file, places, mirror, boards, at, copy, told>>
Quiet == {"new", "done"}

Init ==
    /\ config = Given /\ file = Given /\ places = Places
    /\ mirror = [p \in Paths |-> {}] /\ boards = {}
    /\ at = [c \in Clients |-> "new"] /\ copy = [c \in Clients |-> {}]
    /\ told = [c \in Clients |-> None]

Its(c) == CHOOSE x \in copy[c] : TRUE
Turn(c, op) ==
    /\ at[c] = "new" /\ Asked[c].op = op
    /\ Overlapping \/ \A o \in Clients \ {c} : at[o] \in Quiet
Go(c, where) == at' = [at EXCEPT ![c] = where] /\ UNCHANGED told
Tell(c, what) == at' = [at EXCEPT ![c] = "done"] /\ told' = [told EXCEPT ![c] = what]

-----------------------------------------------------------------------------
\* Preferences and access: read, merged with what the body names, stored.
\* A model access that is not one of the allowed ones is left as it is.
Allowed(f, x) == f = "modelAccess" => x \in {"pro", "max", "api"}
Merge(now, body) ==
    [f \in DOMAIN now |-> IF f \in DOMAIN body /\ Allowed(f, body[f]) THEN body[f] ELSE now[f]]

Read(c) ==
    /\ Turn(c, "prefs") \/ Turn(c, "access")
    /\ Go(c, "merge") /\ copy' = [copy EXCEPT ![c] = {config}]
    /\ UNCHANGED <<config, file, places, mirror, boards>>

\* The projects that named the old agent follow the preference from now on.
Released(projects, old, new) ==
    [i \in DOMAIN projects |->
        IF new # old /\ projects[i].agent = old THEN [projects[i] EXCEPT !.agent = None] ELSE projects[i]]
WholeCopy(c) ==
    /\ at[c] = "merge" /\ Asked[c].op = "prefs" /\ Go(c, "save")
    /\ LET next == Merge(Its(c).prefs, Asked[c].body) IN
       config' = [Its(c) EXCEPT
           !.prefs = next, !.projects = Released(Its(c).projects, Its(c).prefs.agent, next.agent)]
    /\ UNCHANGED <<file, places, mirror, boards, copy>>
SetPrefs(c) ==
    /\ at[c] = "merge" /\ Asked[c].op = "prefs" /\ Go(c, "save")
    /\ LET next == Merge(Its(c).prefs, Asked[c].body) IN
       config' = [config EXCEPT
           !.prefs = next,
           !.projects = Released(config.projects, config.prefs.agent, next.agent)]
    /\ UNCHANGED <<file, places, mirror, boards, copy>>
SetAccess(c) ==
    /\ at[c] = "merge" /\ Asked[c].op = "access" /\ Go(c, "save")
    /\ config' = [config EXCEPT !.access = Merge(Its(c).access, Asked[c].body)]
    /\ UNCHANGED <<file, places, mirror, boards, copy>>

-----------------------------------------------------------------------------
\* Repositories.  The port is parsed after the fields before it were assigned
\* and the project entered: a bad one leaves them in memory.
Fresh == [agent |-> None, path |-> None, port |-> None, runtime |-> "direct", link |-> None]
Entry(i) == IF i \in DOMAIN config.projects THEN config.projects[i] ELSE Fresh
Put(i, project) == [config EXCEPT !.projects = (i :> project) @@ config.projects]
SaveRepository(c) ==
    /\ Turn(c, "repo")
    /\ LET a == Asked[c]
           p == [Entry(a.id) EXCEPT !.agent = a.agent, !.path = a.path] IN
       IF a.path = None
       THEN Tell(c, "refused") /\ UNCHANGED config
       ELSE IF a.port = "bad"
       THEN Tell(c, "refused") /\ config' = Put(a.id, p)
       ELSE Go(c, "save") /\ config' = Put(a.id, [p EXCEPT !.port = a.port])
    /\ UNCHANGED <<file, places, mirror, boards, copy>>

DeleteRepository(c) ==
    /\ Turn(c, "delete")
    /\ LET i == Asked[c].id IN
       IF i \notin DOMAIN config.projects
       THEN Tell(c, "refused") /\ UNCHANGED config
       ELSE /\ Go(c, "save")
            /\ config' = [config EXCEPT !.projects = Restrict(@, DOMAIN @ \ {i})]
    /\ UNCHANGED <<file, places, mirror, boards, copy>>

\* A link is looked up at GitHub before the project is looked for.
AskGitHub(c) ==
    /\ Turn(c, "link")
    /\ IF "link" \in Faults THEN Go(c, "linked") \/ Tell(c, "refused") ELSE Go(c, "linked")
    /\ UNCHANGED <<config, file, places, mirror, boards, copy>>
StoreLink(c) ==
    /\ at[c] = "linked"
    /\ LET i == Asked[c].id IN
       IF i \in DOMAIN config.projects
       THEN Go(c, "save") /\ config' = Put(i, [config.projects[i] EXCEPT !.link = Asked[c].link])
       ELSE Tell(c, "refused") /\ UNCHANGED config
    /\ UNCHANGED <<file, places, mirror, boards, copy>>

-----------------------------------------------------------------------------
\* Where a repository may be cloned from, and the branches git is given.
Internal(host) == host \in {"", "localhost", "loopback", "private", "link-local", "internal"}
ValidUrl(url) == url.scheme \in {"https", "ssh", "git@"} /\ ~Internal(url.host)
ValidBranch(branch) == branch \notin {"-flag", "a..b"}
Valid(a) == ValidBranch(a.branch) /\ (a.op = "git" => ValidUrl(a.url))

\* A workspace.  The name is looked up before a repository is cloned into its
\* directory, and for a directory that is there, after it became a repository.
CloneOf(c) ==
    /\ Turn(c, "git")
    /\ LET a == Asked[c] IN
       IF a.id \in DOMAIN config.projects \/ (~Valid(a) /\ ~places[a.path].git)
       THEN Tell(c, "refused")
       ELSE Go(c, IF places[a.path].git THEN "persist" ELSE "clone")
    /\ UNCHANGED <<config, file, places, mirror, boards, copy>>

\* git refuses to clone into a directory that holds something.
CloneEnds(c) ==
    /\ at[c] = "clone"
    /\ LET p == Asked[c].path IN
       \/ /\ places[p].yaml = "none" /\ ~places[p].board /\ ~places[p].git
          /\ Go(c, "persist")
          /\ places' = [places EXCEPT ![p].dir = TRUE, ![p].git = TRUE]
       \/ /\ "clone" \in Faults \/ places[p].yaml # "none" \/ places[p].board \/ places[p].git
          /\ Tell(c, "refused") /\ UNCHANGED places
    /\ UNCHANGED <<config, file, mirror, boards, copy>>

OpenLocal(c) ==
    /\ Turn(c, "local")
    /\ LET p == Asked[c].path
           init == Asked[c].init /\ ~places[p].git IN
       IF ~places[p].dir /\ ~init
       THEN Tell(c, "error") /\ UNCHANGED places
       ELSE IF init /\ ~Valid(Asked[c])
       THEN Tell(c, "refused") /\ UNCHANGED places
       ELSE /\ \/ Go(c, "opened")
               \/ init /\ "clone" \in Faults /\ Tell(c, "refused")
            /\ places' = IF init THEN [places EXCEPT ![p].dir = TRUE, ![p].git = TRUE] ELSE places
    /\ UNCHANGED <<config, file, mirror, boards, copy>>
Opened(c) ==
    /\ at[c] = "opened"
    /\ IF Asked[c].id \in DOMAIN config.projects THEN Tell(c, "refused") ELSE Go(c, "persist")
    /\ UNCHANGED <<config, file, places, mirror, boards, copy>>

\* persist_workspace; it looks for the name no more.
Persist(c) ==
    /\ at[c] = "persist" /\ Go(c, "save")
    /\ LET a == Asked[c] IN
       /\ boards' = boards \cup {a.id}
       /\ config' = Put(a.id, [Entry(a.id) EXCEPT !.agent = a.agent, !.path = a.path, !.runtime = "ttyd"])
    /\ UNCHANGED <<file, places, mirror, copy>>

-----------------------------------------------------------------------------
\* save_config: a copy is taken, then the file is written, then the mirrors
\* of all projects are: nothing holds the lock by then.
TakeCopy(c) ==
    /\ at[c] = "save" /\ Go(c, "write") /\ copy' = [copy EXCEPT ![c] = {config}]
    /\ UNCHANGED <<config, file, places, mirror, boards>>

\* std::fs::write empties the file and fills it: meanwhile there is a beginning of
\* it, with some of the projects; the preferences and the access come after them.
Beginnings(x) ==
    {[prefs |-> Blank.prefs, access |-> Blank.access, projects |-> Restrict(x.projects, S)] :
        S \in SUBSET DOMAIN x.projects}
Tear(c) ==
    /\ at[c] = "write" /\ "torn" \in Faults /\ Go(c, "torn")
    /\ file' \in Beginnings(Its(c))
    /\ UNCHANGED <<config, places, mirror, boards, copy>>
WriteFile(c) ==
    /\ at[c] \in {"write", "torn"}
    /\ \/ Go(c, "mirrors") /\ file' = Its(c)
       \/ "save" \in Faults /\ Tell(c, "error") /\ UNCHANGED file
    /\ UNCHANGED <<config, places, mirror, boards, copy>>

\* build_expected_project_yaml
Expected(x, i) ==
    [id |-> i, prefs |-> x.prefs, access |-> x.access,
     project |-> [x.projects[i] EXCEPT
         !.agent = IF @ = None THEN "claude-code" ELSE @,
         !.runtime = "direct"]]
\* A conductor.yaml that was not generated is left alone.
Mirrored(x, p, i) ==
    IF places[p].dir /\ places[p].yaml = "none" THEN [mirror EXCEPT ![p] = {Expected(x, i)}] ELSE mirror
\* The projects are walked in order: of those that share a directory the last
\* one's mirror stays.
LastAt(x, p) == {i \in DOMAIN x.projects : x.projects[i].path = p}
MirrorsOf(x) ==
    {m \in [Paths -> UNION {{{Expected(x, i)} : i \in DOMAIN x.projects}, {mirror[p] : p \in Paths}}] :
        \A p \in Paths :
            IF LastAt(x, p) # {} /\ places[p].dir /\ places[p].yaml = "none"
            THEN \E i \in LastAt(x, p) : m[p] = {Expected(x, i)}
            ELSE m[p] = mirror[p]}
WriteMirrors(c) ==
    /\ at[c] = "mirrors"
    /\ \/ /\ mirror' \in MirrorsOf(Its(c))
          /\ IF Asked[c].op \in {"git", "local"} THEN Go(c, "scaffold") ELSE Tell(c, "ok")
       \/ "sync" \in Faults /\ Tell(c, "error") /\ UNCHANGED mirror
    /\ UNCHANGED <<config, file, places, boards, copy>>

\* The board of the project, its mirror, and what editors are offered.
Scaffold(c) ==
    /\ at[c] = "scaffold"
    /\ LET a == Asked[c] IN
       /\ places' = [places EXCEPT ![a.path].board = TRUE]
       /\ IF a.id \notin DOMAIN config.projects
          THEN Tell(c, "error") /\ UNCHANGED mirror
          ELSE \/ /\ Tell(c, "ok")
                  /\ mirror' = Mirrored(config, config.projects[a.id].path, a.id)
               \/ /\ "sync" \in Faults /\ Tell(c, "error") /\ UNCHANGED mirror
    /\ UNCHANGED <<config, file, boards, copy>>

-----------------------------------------------------------------------------
\* The server dies and starts again from its file, if that can be parsed.
Loaded(x) ==
    [x EXCEPT !.projects = [i \in DOMAIN x.projects |-> [x.projects[i] EXCEPT !.runtime = "direct"]]]
Restart ==
    /\ "crash" \in Faults /\ \E c \in Clients : at[c] \notin Quiet
    /\ config' = Loaded(file)
    /\ mirror' \in MirrorsOf(Loaded(file))
    /\ at' = [c \in Clients |-> IF at[c] \in Quiet THEN at[c] ELSE "done"]
    /\ copy' = [c \in Clients |-> {}]
    /\ UNCHANGED <<file, places, boards, told>>

Requests ==
    \E c \in Clients :
        \/ Read(c) \/ SetPrefs(c) \/ SetAccess(c) \/ SaveRepository(c) \/ DeleteRepository(c)
        \/ AskGitHub(c) \/ StoreLink(c) \/ CloneOf(c) \/ CloneEnds(c) \/ OpenLocal(c) \/ Opened(c)
        \/ Persist(c) \/ TakeCopy(c) \/ Tear(c) \/ WriteFile(c) \/ WriteMirrors(c) \/ Scaffold(c)
Next == Requests \/ Restart
Spec == Init /\ [][Next]_vars

-----------------------------------------------------------------------------
TypeOK ==
    /\ DOMAIN config.prefs = DOMAIN Given.prefs /\ DOMAIN config.access = DOMAIN Given.access
    /\ \A i \in DOMAIN config.projects : DOMAIN config.projects[i] = DOMAIN Fresh
    /\ \A p \in Paths : Cardinality(mirror[p]) <= 1
    /\ \A c \in Clients : told[c] \in {None, "ok", "refused", "error"} /\ Cardinality(copy[c]) <= 1
    /\ \A c \in Clients : told[c] # None => at[c] = "done"

\* What a client changed stays until somebody changes the same section:
\* whatever overlaps, preferences do not undo access settings or a project,
\* nor the other way around.
Touches(c) == IF Asked[c].op \in {"prefs", "access"} THEN Asked[c].op ELSE "projects"
KeepsSections ==
    \A c \in Clients : at[c] # at'[c] /\ at'[c] # "done" =>
        /\ config'.access # config.access => Touches(c) = "access"
        /\ config'.prefs # config.prefs => Touches(c) = "prefs"
        /\ DOMAIN config.projects # DOMAIN config'.projects => Touches(c) = "projects"
        /\ \A i \in DOMAIN config.projects \cap DOMAIN config'.projects :
               config'.projects[i].path # config.projects[i].path => Touches(c) = "projects"
SectionsKept == [][KeepsSections]_vars

\* Requests that do not overlap: a client that is told "ok" has its change on
\* disk, and the mirrors of projects that are there say what the file says.
SavesFirst ==
    ~Overlapping => \A c \in Clients : told[c] # "ok" /\ told'[c] = "ok" =>
        /\ file' = config'
        /\ \A p \in Paths : LastAt(file', p) # {} /\ places[p].dir /\ places[p].yaml = "none" =>
               \E i \in LastAt(file', p) : mirror'[p] = {Expected(file', i)}
OkIsSaved == [][SavesFirst]_vars

\* What was added stays: a project whose client was told "ok" is in memory until
\* somebody deletes it, and, when requests do not overlap, on disk, so that a restart
\* finds it; unless a later request was cut off, or failed, in its write of the file.
Adds(c) == Asked[c].op \in {"git", "local", "repo"}
Deletes(d, i) == Asked[d].op = "delete" /\ Asked[d].id = i
Cut == "torn" \in Faults /\ \E d \in Clients :
    at[d] = "torn" \/ told[d] = "error" \/ (at[d] = "done" /\ told[d] = None)
AddedStays ==
    \A c \in Clients :
        told[c] = "ok" /\ Adds(c) /\ ~(\E d \in Clients : at[d] # "new" /\ Deletes(d, Asked[c].id)) /\ ~Cut
        => /\ Asked[c].id \in DOMAIN config.projects
           /\ ~Overlapping => Asked[c].id \in DOMAIN file.projects

\* What was deleted stays so until somebody adds it: a link, or preferences, that were
\* under way do not bring it back.
DeletedStays ==
    \A d \in Clients :
        /\ told[d] = "ok" /\ Asked[d].op = "delete"
        /\ ~\E c \in Clients : at[c] # "new" /\ Adds(c) /\ Asked[c].id = Asked[d].id
        => /\ Asked[d].id \notin DOMAIN config.projects
           /\ ~Overlapping => Asked[d].id \notin DOMAIN file.projects

\* A workspace that was created is a project with boards in a repository or
\* directory that exists, whoever asked for what meanwhile.
CreatedIsWhole ==
    \A c \in Clients : told[c] = "ok" /\ Asked[c].op \in {"git", "local"} =>
        /\ Asked[c].id \in boards /\ places[Asked[c].path].dir /\ places[Asked[c].path].board
        /\ Asked[c].op = "git" => places[Asked[c].path].git

\* Two clients never create the same workspace, when requests do not overlap.
CreatedOnce ==
    ~Overlapping => \A c, d \in Clients :
        /\ c # d /\ Asked[c].op \in {"git", "local"} /\ Asked[d].op \in {"git", "local"}
        /\ told[c] = "ok" /\ told[d] = "ok" /\ Asked[c].id = Asked[d].id
        => \E x \in Clients : Asked[x].op = "delete"

\* What a request that is refused asked for is not in memory. It does not
\* hold: a bad port is found after the project was entered.
RefusedLeavesNothing ==
    [][\A c \in Clients : told[c] # "refused" /\ told'[c] = "refused" => config' = config]_vars
=============================================================================
