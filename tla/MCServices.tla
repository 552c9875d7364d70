----------------------------- MODULE MCServices -----------------------------
(* The smaller services of the server, the bridge client and the relay for   *)
(* TLC: updates of the program, the client of a bridge, turns of an OpenClaw *)
(* agent, the configuration, the access of a team, the catalogs of models    *)
(* and the rate limits. One run explores them side by side: `part` says      *)
(* which of them a behaviour is of, with which constants. The limits are     *)
(* those of RelayLimits itself, so that the run checks what                  *)
(* RelayLimitsProofs proves.                                                 *)
EXTENDS RelayLimits, Sequences, TLC
CONSTANT Parts
VARIABLES
    part,
    \* AppUpdate
    upd, call, job, fresh, registry, disk, running,
    \* BridgeClient
    token, file, client, net, inbox, sent, loop, active, control, stream, senders,
    writer, tasks, byId, byTask, got, poll, screen, lines, proxies, left,
    \* OpenClawTurn
    identity, paired, pending, turn, kill, run, wire, out,
    \* ConfigStore
    config, configFile, places, mirror, boards, at, copy, told,
    \* AccessIdentity
    published, cache, ages, accessAt, keys, accessIdentity, live,
    \* ModelCatalogs
    kind, source, catalog, listed

\* What the environment and the places around the program say of its version.
At(v, m) == [version |-> v, mode |-> m, named |-> FALSE]
UpdateMetadata ==
    [env |-> At(<<0, 0>>, "unknown"), named |-> TRUE, binary |-> <<0, 0>>,
     places |-> <<At(<<0, 0>>, "unknown"), At(<<1, 0>>, "unknown"), At(<<2, 0>>, "npm")>>]
Installing == ("c1" :> {"install"}) @@ ("c2" :> {"restart"}) @@ ("c3" :> {"install"})
Asking == ("c1" :> {"check", "force", "install", "restart"}) @@ ("c2" :> {"check", "force", "install", "restart"})

E(c, p, s) == [card |-> c, project |-> p, session |-> s]

\* A configuration, the directories around it and requests that change it.
Entry(a) == [agent |-> a, path |-> "p1", port |-> "none", runtime |-> "direct", link |-> "none"]
GivenConfig ==
    [prefs |-> [agent |-> "codex", ide |-> "vscode", modelAccess |-> "pro"],
     access |-> [requireAuth |-> "no", defaultRole |-> "admin"],
     projects |-> ("a" :> Entry("codex"))]
Directory(d, g, y) == [dir |-> d, git |-> g, board |-> FALSE, yaml |-> y]
Directories ==
    [p1 |-> Directory(TRUE, TRUE, "none"), p2 |-> Directory(FALSE, FALSE, "none"),
     p3 |-> Directory(TRUE, FALSE, "user")]
Prefs(b) == [op |-> "prefs", body |-> b]
BlankConfig ==
    [prefs |-> [agent |-> "none", ide |-> "vscode", modelAccess |-> "pro"],
     access |-> [requireAuth |-> "no", defaultRole |-> "viewer"]]
Repo(i, p, port) == [op |-> "repo", id |-> i, agent |-> "codex", path |-> p, port |-> port]
Workspace(op, p) ==
    [op |-> op, id |-> "b", agent |-> "none", path |-> p, branch |-> "main",
     url |-> [scheme |-> "https", host |-> "example.org"], init |-> op = "local"]
Changes ==
    [c1 |-> Prefs([agent |-> "gemini", modelAccess |-> "bad"]),
     c2 |-> [op |-> "access", body |-> [requireAuth |-> "yes"]], c3 |-> Repo("b", "p3", "9"),
     c4 |-> [op |-> "delete", id |-> "a"]]
Creations ==
    [c1 |-> Workspace("git", "p2"), c2 |-> Workspace("local", "p3"), c4 |-> [op |-> "delete", id |-> "a"]]
OneByOne ==
    [c1 |-> Workspace("git", "p2"), c2 |-> Workspace("local", "p3"),
     c4 |-> Repo("c", "p2", "bad"), c5 |-> Repo("a", "p1", "8"), c6 |-> [op |-> "delete", id |-> "b"]]
Tearing ==
    [c1 |-> Repo("b", "p2", "9"), c2 |-> [op |-> "delete", id |-> "a"], c3 |-> Prefs([agent |-> "gemini"])]
Linking ==
    [c1 |-> Prefs([agent |-> "gemini"]), c3 |-> [op |-> "link", id |-> "a", link |-> "L"],
     c4 |-> [op |-> "delete", id |-> "a"]]

\* A team behind Cloudflare Access, whose keys are rotated twice.
Key(i, t) == [kid |-> i, kty |-> t]
Token(k, e) ==
    [kid |-> k, alg |-> "RSA", iss |-> "team", aud |-> {"app"}, when |-> "now", email |-> e, sub |-> "none"]
NoToken == [kid |-> "none", alg |-> "none"]
NoProxy == [secret |-> "none"]
Headers(p, t, e) == [proxy |-> p, token |-> t, email |-> e]
EmailDomains == ("u@d" :> "d") @@ ("v@d" :> "d") @@ ("w@x" :> "x") @@ ("v@y" :> "y")
KeyRotations ==
    <<{Key("k1", "RSA"), Key("e", "EC")}, {Key("k1", "RSA"), Key("k2", "RSA")}, {Key("k2", "RSA")}>>
Viewer == [authenticated |-> TRUE, role |-> "viewer", email |-> "u@d", why |-> "none"]
Requests ==
    [c1 |-> Headers(NoProxy, Token("k1", "u@d"), "none"), c2 |-> Headers(NoProxy, Token("k2", "v@d"), "v@d"),
     c4 |-> Headers([secret |-> "s", identity |-> Viewer], NoToken, "none")]
Nobodies == [emails |-> {}, domains |-> {}]
TeamAccess ==
    [enabled |-> TRUE, provider |-> "cloudflare", team |-> "team", audience |-> "app",
     requireAuth |-> TRUE, defaultRole |-> "",
     roles |-> [admin |-> [emails |-> {}, domains |-> {"x"}], operator |-> Nobodies,
                viewer |-> [emails |-> {"u@d"}, domains |-> {}]]]
Environment == [secret |-> "s", emails |-> {}, domains |-> {}, admins |-> {"u@d"}]

\* What the installations of the agents may say.
ClaudeFiles == [help : {<<>>, <<"low">>}, model : {"none", "opus", "claude-sonnet-4-5", "x"},
        available : {<<>>, <<"sonnet", "claude-opus-4-1">>},
   stats : {<<>>, <<<<"claude-sonnet-4-5">>, <<"other", "claude-opus-4-6">>>>}, effort : {"none",
        "high"}, thinking : {"none", "on"}]
CodexModel == [id : {"a", "b"}, listed : {TRUE}, priority : {1, 2}, api : BOOLEAN, levels
        : {<<"none">>, <<>>, <<"low">>}, level : {"none", "low"}]
Installed == [k \in {"claude-code", "ccr", "codex", "gemini", "amp", "cursor-cli", "droid", "pi",
        "opencode", "github-copilot", "letta"} |->
  CASE k = "claude-code" -> ClaudeFiles
    [] k = "ccr" -> [version : BOOLEAN, claude : BOOLEAN, its : {[help |-> <<>>,
        model |-> "opus", available |-> <<>>, stats |-> <<>>, effort |-> "none",
            thinking |-> "none"]}]
    [] k = "codex" -> [cache : {<<>>} \cup {<<x>> : x \in CodexModel} \cup {<<x, y>>
        : x \in {z \in CodexModel : z.id = "a" /\ z.api /\ z.level = "low"}, y \in CodexModel},
            model : {"none", "b"}]
    [] k = "gemini" -> [files : {<<>>, <<<<"g", "h">>, <<"g">>>>}]
    [] k = "amp" -> [tries : {<<<<>>, <<"fast", "smart", "fast">>>>, <<<<"rush">>>>, <<>>}]
    [] k = "cursor-cli" -> [tries : {<<>>} \cup {<<<<[id |-> "Available models",
        mark |-> "none"], [id |-> "m", mark |-> x], [id |-> "n", mark |-> y]>>>> : x,
            y \in {"none", "current", "default"}}, config : {"none", "m", "z"}]
    [] k = "droid" -> [tries : {<<>>} \cup {<<<<[id |-> "m", mark |-> x, label |-> "M"],
        [id |-> "n", mark |-> y, label |-> "N"]>>>> : x, y \in {"none", "default"}}, details
            : {[M |-> [levels |-> <<"low">>, level |-> "low"]]}]
    [] k = "pi" -> [tries : {<<>>} \cup {<<<<[id |-> "header", thinking |-> FALSE], [id |-> x,
        thinking |-> TRUE], [id |-> "openai/gpt-5.4", thinking |-> FALSE]>>>> : x \in {"short",
            "a/b", "openai/gpt-5.5"}}]
    [] k = "opencode" -> [tries : {<<>>} \cup {<<<<[id |-> x, variants |-> {"max"}],
        [id |-> "o/p", variants |-> {}]>>>> : x \in {"broken", "q/r"}}
            \cup {<<<<[id |-> "broken", variants |-> {}]>>>>}, help : BOOLEAN]
    [] k = "github-copilot" -> [help : BOOLEAN, choices : {<<>>, <<"auto", "gpt-5">>}, config
        : {"none", "gpt-5", "auto", "o3"}, lines : {<<>>, <<[model |-> "o3", effort |-> "none"],
            [model |-> "none", effort |-> "low"]>>}, efforts : {<<>>, <<"low", "high">>}]
    [] OTHER -> {[x |-> 1]}]

Installs == INSTANCE AppUpdate WITH
    Clients <- DOMAIN Installing, Asks <- Installing, Metadata <- UpdateMetadata,
    Published <- <<<<1, 0>>, <<2, 1>>, <<2, 0>>>>, Launcher <- TRUE, Faults <- {}
Updates == INSTANCE AppUpdate WITH
    Clients <- DOMAIN Asking, Asks <- Asking, Metadata <- UpdateMetadata,
    Published <- <<<<1, 0>>, <<2, 0>>, <<1, 0>>>>, Launcher <- TRUE,
    Faults <- {"registry", "install", "launcher", "hangup"}
Streams == INSTANCE BridgeClient WITH
    Ids <- {"a"}, Tasks <- 1..2, Proxies <- {}, Kinds <- {"stream", "cancel"},
    Sessions <- {}, Messages <- 3, MaxConns <- 2, MaxChunks <- 1, MaxLines <- 0,
    ControlCap <- 1, StreamCap <- 1, MaxBackoff <- 0, Faults <- {"backend", "drop"}
Files == INSTANCE BridgeClient WITH
    Ids <- {}, Tasks <- 1..0, Proxies <- {}, Kinds <- {"request", "input", "browse"},
    Sessions <- {"s"}, Messages <- 2, MaxConns <- 2, MaxChunks <- 0, MaxLines <- 1,
    ControlCap <- 1, StreamCap <- 1, MaxBackoff <- 1,
    Faults <- {"dial", "drop", "disconnect", "repair"}
Screen == INSTANCE BridgeClient WITH
    Ids <- {}, Tasks <- 1..0, Proxies <- {}, Kinds <- {"request"}, Sessions <- {"s"},
    Messages <- 2, MaxConns <- 2, MaxChunks <- 0, MaxLines <- 2, ControlCap <- 2,
    StreamCap <- 1, MaxBackoff <- 0, Faults <- {"drop"}
Breaks == INSTANCE BridgeClient WITH
    Ids <- {"a"}, Tasks <- 1..2, Proxies <- {"p"},
    Kinds <- {"ping", "preview", "stream", "proxy"}, Sessions <- {}, Messages <- 2,
    MaxConns <- 2, MaxChunks <- 1, MaxLines <- 0, ControlCap <- 1, StreamCap <- 1,
    MaxBackoff <- 1, Faults <- {"dial", "drop", "large", "file"}
Agent == INSTANCE OpenClawTurn WITH
    Turns <- 1..1, KeyOf <- <<1>>, EnvOf <- <<E("c", "p", "s")>>, Secret <- TRUE,
    Deadline <- TRUE, MaxFrames <- 2, Overlapping <- FALSE, Paired <- TRUE,
    Faults <- {"dial", "drop", "reject", "read", "save", "torn", "chatty", "pair"}
Agents == INSTANCE OpenClawTurn WITH
    Turns <- 1..2, KeyOf <- <<1, 2>>, EnvOf <- <<E("", "p", "s"), E("c", "p", "s")>>,
    Secret <- TRUE, Deadline <- FALSE, MaxFrames <- 0, Overlapping <- FALSE, Paired <- FALSE,
    Faults <- {"pair", "save", "reject", "drop"}
Config == INSTANCE ConfigStore WITH
    Asked <- Changes, Given <- GivenConfig, Blank <- BlankConfig, Places <- Directories, Faults <- {},
    Overlapping <- TRUE, file <- configFile
Creates == INSTANCE ConfigStore WITH
    Asked <- Creations, Given <- GivenConfig, Blank <- BlankConfig, Places <- Directories,
    Faults <- {"clone", "sync"}, Overlapping <- TRUE, file <- configFile
Serial == INSTANCE ConfigStore WITH
    Asked <- OneByOne, Given <- GivenConfig, Blank <- BlankConfig, Places <- Directories,
    Faults <- {"save", "crash"}, Overlapping <- FALSE, file <- configFile
Torn == INSTANCE ConfigStore WITH
    Asked <- Tearing, Given <- GivenConfig, Blank <- BlankConfig, Places <- Directories,
    Faults <- {"save", "torn", "crash"}, Overlapping <- FALSE, file <- configFile
Links == INSTANCE ConfigStore WITH
    Asked <- Linking, Given <- GivenConfig, Blank <- BlankConfig, Places <- Directories, Faults <- {"link"},
    Overlapping <- TRUE, file <- configFile
Roles == INSTANCE AccessIdentity WITH
    Asked <- Requests, DomainOf <- EmailDomains, Access <- TeamAccess,
    Env <- Environment, Rotations <- KeyRotations, MaxAges <- 1, Faults <- {"fetch"},
    at <- accessAt, identity <- accessIdentity
Catalogs == INSTANCE ModelCatalogs WITH
    Sources <- Installed, Executors <- <<"codex", "custom">>,
    KnownAgents <- <<"claude-code", "codex">>

\* Two callers and two users for a table of three buckets; a caller and a user, or
\* two callers, have room.
MCKeys == {"c1", "c2", "u1", "u2", "all"}
MCBurstOf == [k \in MCKeys |-> IF k = "all" THEN 4 ELSE 2]
MCRefillOf == [k \in MCKeys |-> IF k = "all" THEN 2 ELSE 1]

\* What each component assumes of its constants holds of every part.
ASSUME PartsAssumption ==
    /\ Installs!UpdateAssumption /\ Updates!UpdateAssumption /\ Streams!ClientAssumption
    /\ Files!ClientAssumption /\ Screen!ClientAssumption /\ Breaks!ClientAssumption
    /\ Agent!TurnAssumption /\ Agents!TurnAssumption /\ Config!ConfigAssumption
    /\ Creates!ConfigAssumption /\ Serial!ConfigAssumption /\ Torn!ConfigAssumption /\ Links!ConfigAssumption
    /\ Roles!AccessAssumption /\ Catalogs!CatalogAssumption
    /\ KeysAssumption /\ BoundsAssumption /\ RatesAssumption

\* The variables of a component whose part it is not are idle; the table of
\* buckets stays empty.
AppUpdateVars == <<upd, call, job, fresh, registry, disk, running>>
NoAppUpdate ==
    /\ upd = 0 /\ call = 0 /\ job = 0 /\ fresh = 0 /\ registry = 0 /\ disk = 0 /\ running = 0
BridgeClientVars == <<token, file, client, net, inbox, sent, loop, active, control,
                      stream, senders, writer, tasks, byId, byTask, got, poll, screen,
                      lines, proxies, left>>
NoBridgeClient ==
    /\ token = 0 /\ file = 0 /\ client = 0 /\ net = 0 /\ inbox = 0 /\ sent = 0 /\ loop = 0
    /\ active = 0 /\ control = 0 /\ stream = 0 /\ senders = 0 /\ writer = 0 /\ tasks = 0
    /\ byId = 0 /\ byTask = 0 /\ got = 0 /\ poll = 0 /\ screen = 0 /\ lines = 0 /\ proxies = 0
    /\ left = 0
OpenClawTurnVars == <<identity, paired, pending, turn, kill, run, wire, out>>
NoOpenClawTurn ==
    /\ identity = 0 /\ paired = 0 /\ pending = 0 /\ turn = 0 /\ kill = 0 /\ run = 0 /\ wire = 0
    /\ out = 0
ConfigStoreVars == <<config, configFile, places, mirror, boards, at, copy, told>>
NoConfigStore ==
    /\ config = 0 /\ configFile = 0 /\ places = 0 /\ mirror = 0 /\ boards = 0 /\ at = 0
    /\ copy = 0 /\ told = 0
AccessIdentityVars == <<published, cache, ages, accessAt, keys, accessIdentity, live>>
NoAccessIdentity ==
    /\ published = 0 /\ cache = 0 /\ ages = 0 /\ accessAt = 0 /\ keys = 0 /\ accessIdentity = 0
    /\ live = 0
ModelCatalogsVars == <<kind, source, catalog, listed>>
NoModelCatalogs ==
    /\ kind = 0 /\ source = 0 /\ catalog = 0 /\ listed = 0

PartsInit ==
    /\ part \in Parts
    /\ CASE part = "installs" -> Installs!Init
         [] part = "updates" -> Updates!Init
         [] OTHER -> NoAppUpdate
    /\ CASE part = "streams" -> Streams!Init
         [] part = "files" -> Files!Init
         [] part = "screen" -> Screen!Init
         [] part = "breaks" -> Breaks!Init
         [] OTHER -> NoBridgeClient
    /\ CASE part = "agent" -> Agent!Init
         [] part = "agents" -> Agents!Init
         [] OTHER -> NoOpenClawTurn
    /\ CASE part = "config" -> Config!Init
         [] part = "creates" -> Creates!Init
         [] part = "serial" -> Serial!Init
         [] part = "torn" -> Torn!Init
         [] part = "links" -> Links!Init
         [] OTHER -> NoConfigStore
    /\ IF part = "access" THEN Roles!Init ELSE NoAccessIdentity
    /\ IF part = "catalogs" THEN Catalogs!Init ELSE NoModelCatalogs
    /\ Init
PartsNext ==
    /\ UNCHANGED part
    /\ CASE part = "installs" -> Installs!Next
         [] part = "updates" -> Updates!Next
         [] OTHER -> UNCHANGED AppUpdateVars
    /\ CASE part = "streams" -> Streams!Next
         [] part = "files" -> Files!Next
         [] part = "screen" -> Screen!Next
         [] part = "breaks" -> Breaks!Next
         [] OTHER -> UNCHANGED BridgeClientVars
    /\ CASE part = "agent" -> Agent!Next
         [] part = "agents" -> Agents!Next
         [] OTHER -> UNCHANGED OpenClawTurnVars
    /\ CASE part = "config" -> Config!Next
         [] part = "creates" -> Creates!Next
         [] part = "serial" -> Serial!Next
         [] part = "torn" -> Torn!Next
         [] part = "links" -> Links!Next
         [] OTHER -> UNCHANGED ConfigStoreVars
    /\ IF part = "access" THEN Roles!Next ELSE UNCHANGED AccessIdentityVars
    /\ IF part = "catalogs" THEN Catalogs!Next ELSE UNCHANGED ModelCatalogsVars
    /\ IF part = "rates" THEN Next ELSE UNCHANGED vars
partsVars == <<part, AppUpdateVars, BridgeClientVars, OpenClawTurnVars, ConfigStoreVars,
          AccessIdentityVars, ModelCatalogsVars, vars>>
PartsSpec == PartsInit /\ [][PartsNext]_partsVars

-----------------------------------------------------------------------------
\* A program is never offered what is older than it, and given it only by a call
\* that read a version which another check has replaced since; one job of all
\* callers is under way at a time, and while the flag says so there is one, or the
\* call that was to start it was dropped; what it says is installed is.
UpdatesAreWhole ==
    /\ part = "installs" => Installs!OneAtATime /\ Installs!InstallsNewer
    /\ part = "updates" => Updates!TypeOK /\ Updates!OneAtATime /\ Updates!OfferIsNewer /\ Updates!InstalledIsKnown

\* The streams of a bridge arrive in order and end whole or are cut, no task
\* outlives its connection while the state file can be written, the file says
\* what is, and the browser shows the last screen.
BridgeIsWhole ==
    /\ part = "streams" => /\ Streams!TypeOK /\ Streams!RunningIsRegistered /\ Streams!StreamsWellFormed
                           /\ Streams!EndedWhole /\ Streams!NothingLeft
    /\ part = "files" => Files!NothingLeft /\ Files!StatusIsTrue
    /\ part = "screen" => Screen!ScreenIsLast
    /\ part = "breaks" => Breaks!RunningIsRegistered /\ Breaks!StreamsWellFormed

\* A turn that ends leaves no run at the gateway, unless it lost it; what it puts
\* out is what the gateway sent of its own run, in order, and all of it when it
\* is completed; one device is approved, however turns are refused or fail.
AgentTurnIsWhole ==
    /\ part = "agent" => Agent!TypeOK /\ Agent!NoRunLeft /\ Agent!OwnTextInOrder
    /\ part = "agents" => Agents!NoRunLeft /\ Agents!OneDevice

\* A workspace is created once and whole, a project that was added stays until it
\* is deleted, on disk too if nobody else was writing or was cut off in it, and
\* one that was deleted does not come back; a role is given to whom it is bound, by a key that was published; the
\* catalog of an agent offers its models once.
SettingsAreWhole ==
    /\ part = "config" => Config!TypeOK /\ Config!AddedStays /\ Config!DeletedStays
    /\ part = "creates" => Creates!AddedStays /\ Creates!CreatedIsWhole
    /\ part = "links" => Links!DeletedStays
    /\ part = "serial" => Serial!CreatedOnce /\ Serial!AddedStays /\ Serial!DeletedStays
    /\ part = "torn" => Torn!AddedStays
    /\ part = "access" => Roles!TypeOK /\ Roles!KeyIsFound /\ Roles!RoleIsEarned
    /\ part = "catalogs" => /\ Catalogs!TypeOK /\ Catalogs!CatalogFits /\ Catalogs!OfferedOnce
                            /\ Catalogs!InstalledIsListed

\* A request changes its own section of the configuration and no other, what
\* was acknowledged of requests one after the other is on disk, and a device
\* stays the one that was paired while its file can be read.
SettingsStay ==
    [][/\ part = "config" => Config!KeepsSections
       /\ part = "serial" => Serial!SavesFirst
       /\ part = "torn" => Torn!SavesFirst
       /\ part = "agents" => Agents!KeepsIdentity]_partsVars
=============================================================================
