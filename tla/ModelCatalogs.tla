----------------------------- MODULE ModelCatalogs -----------------------------
(***************************************************************************)
(* GET /api/agents (conductor-server/src/routes/agents.rs): which agents   *)
(* there are, and for each the models and reasoning efforts that its       *)
(* installation offers, put together from its command line, its settings,  *)
(* its caches and the files of earlier sessions, any of which may be       *)
(* missing, stale or in an older format.                                   *)
(*                                                                         *)
(* A source is what those hold for one agent, parsed into the fields the   *)
(* code looks at; labels and descriptions are left out.  A catalog gives   *)
(* for each access level the models in order, the default model, the       *)
(* efforts and the default effort, and the last two by model as well.      *)
(***************************************************************************)
EXTENDS Integers, Functions, SequencesExt

CONSTANTS
    Sources,     \* agents: the sources they may have
    Executors,   \* the executors that were discovered, in their order
    KnownAgents  \* KNOWN_AGENTS

Kinds == DOMAIN Sources
None == "none"
CatalogAssumption == \A k \in Kinds : Sources[k] # {}

VARIABLES
    kind, source,  \* the agent and what its installation holds
    catalog,       \* its catalog: at most one in a set
    listed         \* the agents of the answer
vars == <<kind, source, catalog, listed>>

\* Each once, in order of the first.
Distinct(s) == FoldLeft(LAMBDA r, x : IF Contains(r, x) THEN r ELSE Append(r, x), <<>>, s)
First(s) == IF s = <<>> THEN None ELSE Head(s)
OrElse(x, y) == IF x # None THEN x ELSE y
\* Rows by id: the first of each, and the last one among some.
Firsts(rows) == {i \in DOMAIN rows : \A j \in 1..(i - 1) : rows[j].id # rows[i].id}
Latest(rows, among, m) ==
    rows[CHOOSE i \in among : rows[i].id = m /\ \A j \in among : rows[j].id = m => j <= i]
Ids(rows) == [i \in DOMAIN rows |-> rows[i].id]
IdsAt(rows, among) == {rows[i].id : i \in among}
\* preferred_choice
Preferred(s, wanted) == First(SelectSeq(wanted, LAMBDA x : Contains(s, x)))
\* A command is tried under its names, each for a while: the first that says
\* something counts.
Output(tries) == LET said == SelectSeq(tries, LAMBDA o : o # <<>>) IN IF said = <<>> THEN <<>> ELSE Head(said)

Only(access, x) == [a \in access |-> x]
Catalog(models, default, efforts, effort) ==
    [models |-> models, default |-> default, efforts |-> efforts, effort |-> effort,
     effortsBy |-> <<>>, effortBy |-> <<>>]
\* default_access_catalog
Flat(models, default, efforts, effort) ==
    Catalog(Only({"default"}, models), Only({"default"}, OrElse(default, First(models))),
            Only({"default"}, efforts), Only({"default"}, effort))
ByModel(c, efforts, effort) == [c EXCEPT !.effortsBy = efforts, !.effortBy = effort]

-----------------------------------------------------------------------------
\* Claude Code: source [help, model, available, stats, effort, thinking].
Canonical(m) ==
    CASE m = "sonnet" -> "claude-sonnet-4-6" [] m = "opus" -> "claude-opus-4-6"
      [] m = "haiku" -> "claude-haiku-4-5" [] OTHER -> m
Canonicals(s) == [i \in DOMAIN s |-> Canonical(s[i])]
IsOpus(m) == m \in {"opus", "claude-opus-4-6", "claude-opus-4-1"}
AccessOf(m) == IF IsOpus(m) THEN {"max", "api"} ELSE {"pro", "max", "api"}
\* The latest day first; what is not Claude's is passed over.
StatsModels(stats) == Distinct(SelectSeq(FlattenSeq(Reverse(stats)), LAMBDA m : m # "other"))
SettingModels(s) == Distinct(Canonicals((IF s.model = None THEN <<>> ELSE <<s.model>>) \o s.available))
Supplemented(discovered, configured) ==
    LET known == Distinct(Canonicals(discovered \o configured)) IN
    Distinct((IF known = <<>> THEN <<"claude-sonnet-4-6">> ELSE known) \o <<"claude-haiku-4-5">>)
\* The configured model, or the first of the family it names.
Configured(m, models, family, members) ==
    IF Contains(models, m) THEN m
    ELSE IF m = family THEN First(SelectSeq(models, LAMBDA x : x \in members)) ELSE None
Efforts(help) == IF help = <<>> THEN <<"low", "medium", "high">> ELSE help
DefaultEffort(s, efforts) ==
    LET thinking == CASE s.thinking = "on" -> "high" [] s.thinking = "off" -> "medium" [] OTHER -> None
        first == Preferred(efforts, <<s.effort, thinking, "medium">>) IN
    OrElse(first, OrElse(First(efforts), "medium"))
Opuses == {"claude-opus-4-6", "claude-opus-4-1"}
Sonnets == {"claude-sonnet-4-6", "claude-sonnet-4-5"}
ClaudeCatalog(s) ==
    LET all == Supplemented(StatsModels(s.stats), SettingModels(s))
        configured == IF s.model = None THEN None ELSE Canonical(s.model)
        for == [a \in {"pro", "max", "api"} |-> SelectSeq(all, LAMBDA m : a \in AccessOf(m))]
        default(a) ==
            OrElse(IF a = "max" THEN Configured(configured, for[a], "opus", Opuses)
                   ELSE Configured(configured, for[a], "sonnet", Sonnets),
                   OrElse(IF a = "max" THEN First(SelectSeq(for[a], IsOpus)) ELSE None, First(for[a])))
        efforts == Efforts(s.help) IN
    {Catalog(for, [a \in DOMAIN for |-> default(a)], Only(DOMAIN for, efforts),
             Only(DOMAIN for, DefaultEffort(s, efforts)))}

\* Claude Code Router: the models of Claude for all levels are one list.
CcrCatalog(s) ==
    IF ~s.version \/ ~s.claude THEN {}
    ELSE {LET models == Distinct(c.models["pro"] \o c.models["max"] \o c.models["api"]) IN
          Flat(models, First(models), c.efforts["pro"], c.effort["pro"]) : c \in ClaudeCatalog(s.its)}

-----------------------------------------------------------------------------
\* Codex: source [cache: models [id, listed, priority, api, levels, level], model].
\* Listed models by priority, equal ones as the cache has them.
Before(cache, i, j) ==
    cache[i].priority < cache[j].priority \/ (cache[i].priority = cache[j].priority /\ i < j)
ByPriority(cache) ==
    LET shown == {i \in DOMAIN cache : cache[i].listed} IN
    [n \in 1..Cardinality(shown) |->
        cache[CHOOSE i \in shown : Cardinality({j \in shown : Before(cache, j, i)}) = n - 1]]
CodexCatalog(s) ==
    LET entries == SelectSeq(ByPriority(s.cache), LAMBDA e : e.id # "")
        for == [a \in {"chatgpt", "api"} |->
                   Ids(SelectSeq(entries, LAMBDA e : a = "chatgpt" \/ e.api))]
        default == [a \in DOMAIN for |-> IF Contains(for[a], s.model) THEN s.model ELSE First(for[a])]
        levelled == {i \in DOMAIN entries : entries[i].levels \notin {<<"none">>, <<>>}}
        named == {i \in DOMAIN entries : entries[i].levels # <<"none">> /\ entries[i].level # None}
        level == [m \in IdsAt(entries, named) |-> Latest(entries, named, m).level] IN
    IF ByPriority(s.cache) = <<>> THEN {}
    ELSE {ByModel(Catalog(for, default, Only({"chatgpt", "api"}, <<>>),
                          [a \in DOMAIN for |-> IF default[a] \in DOMAIN level THEN level[default[a]] ELSE None]),
                  [m \in IdsAt(entries, levelled) |-> Latest(entries, levelled, m).levels],
                  level)}

-----------------------------------------------------------------------------
\* Gemini and Qwen: the models named in files of theirs, newest file first.
FoundModels(files) == Distinct(FlattenSeq(files))
Scanned(s) ==
    LET found == FoundModels(s.files) IN
    IF found = <<>> THEN {}
    ELSE {Catalog(Only({"oauth", "api"}, found), Only({"oauth", "api"}, Head(found)),
                  Only({"oauth", "api"}, <<>>), Only({"oauth", "api"}, None))}

QwenCatalog(s) == Scanned(s)

\* Amp: the modes its help names.
AmpCatalog(s) ==
    LET modes == Distinct(Output(s.tries)) IN
    IF modes = <<>> THEN {} ELSE {Flat(modes, Preferred(modes, <<"smart">>), <<>>, None)}

\* Cursor: rows [id, mark] and the model of its configuration.
CursorRows(rows) == SelectSeq(rows, LAMBDA r : r.id # "Available models")
Marked(rows, mark) ==
    LET m == {i \in Firsts(rows) : rows[i].mark = mark} IN
    IF m = {} THEN None ELSE rows[CHOOSE i \in m : \A j \in m : j <= i].id
CursorCatalog(s) ==
    LET rows == CursorRows(Output(s.tries))
        own == Distinct(Ids(rows))
        models == Distinct(own \o (IF s.config = None THEN <<>> ELSE <<s.config>>))
        marked == OrElse(Marked(rows, "current"), OrElse(Marked(rows, "default"), First(own))) IN
    {Flat(models, OrElse(marked, s.config), <<>>, None)}

\* Droid: rows [id, mark, label] and the details [levels, level] by label.
DroidDetails(s, label) == IF label \in DOMAIN s.details THEN {s.details[label]} ELSE {}
DroidCatalog(s) ==
    LET rows == Output(s.tries)
        ids == Ids(rows)
        marks == {i \in DOMAIN rows : rows[i].mark = "default"}
        default == IF marks = {} THEN First(ids) ELSE ids[CHOOSE i \in marks : \A j \in marks : j <= i]
        known == {i \in DOMAIN rows : DroidDetails(s, rows[i].label) # {}}
        details(m) == s.details[Latest(rows, known, m).label] IN
    IF rows = <<>> THEN {}
    ELSE {ByModel(Flat(ids, default, <<>>, None),
                  [m \in IdsAt(rows, known) |-> details(m).levels],
                  [m \in IdsAt(rows, known) |-> details(m).level])}

\* Pi: rows [id, thinking]; what is not a row of the table is passed over.
PiRows(lines) == SelectSeq(lines, LAMBDA l : l.id \notin {"header", "short"})
PiCatalog(s) ==
    LET rows == PiRows(Output(s.tries))
        ids == Distinct(Ids(rows))
        thinking == {rows[i].id : i \in {j \in Firsts(rows) : rows[j].thinking}} IN
    IF Output(s.tries) = <<>> THEN {}
    ELSE {ByModel(Flat(ids, Preferred(ids, <<"openai/gpt-5.5", "openai/gpt-5.4">>), <<>>, None),
                  Only(thinking, <<"low", "medium", "high", "xhigh">>), Only(thinking, "high"))}

\* OpenCode: rows [id, variants]; a block that is no JSON object is passed over.
OpenCodeRows(lines) == SelectSeq(lines, LAMBDA l : l.id # "broken")
VariantIds(variants) ==
    SelectSeq(<<"minimal", "low", "medium", "high", "max", "xhigh", "off", "none">>, LAMBDA v : v \in variants)
OpenCodeCatalog(s) ==
    LET rows == OpenCodeRows(Output(s.tries))
        ids == Ids(rows)
        varied == {i \in DOMAIN rows : VariantIds(rows[i].variants) # <<>>}
        of(m) == VariantIds(Latest(rows, varied, m).variants) IN
    IF Output(s.tries) = <<>> \/ (rows = <<>> /\ ~s.help) THEN {}
    ELSE {ByModel(Flat(ids, First(ids), <<>>, None),
                  [m \in IdsAt(rows, varied) |-> of(m)],
                  [m \in IdsAt(rows, varied) |-> OrElse(Preferred(of(m), <<"medium", "high">>), First(of(m)))])}

\* Copilot: the choices of its help, its configuration, its last sessions.
CopilotModel(m) == m \notin {"auto", "text", None}
Observed(values) == First(SelectSeq(values, LAMBDA x : x # None))
CopilotCatalog(s) ==
    LET seen == [i \in DOMAIN s.lines |-> s.lines[i].model]
        ids == Distinct(SelectSeq(s.choices \o <<s.config>> \o seen, CopilotModel))
        models == IF ids = <<>> THEN <<"gpt-5.2">> ELSE ids
        effort == Observed([i \in DOMAIN s.lines |-> s.lines[i].effort])
        default == IF Contains(models, s.config) THEN s.config ELSE First(models) IN
    IF ~s.help THEN {}
    ELSE {Flat(models, default, s.efforts, IF Contains(s.efforts, effort) THEN effort ELSE None)}

-----------------------------------------------------------------------------
\* build_runtime_model_catalog_for_name
CatalogOf(k, s) ==
    CASE k = "claude-code" -> ClaudeCatalog(s) [] k = "ccr" -> CcrCatalog(s)
      [] k = "codex" -> CodexCatalog(s) [] k = "gemini" -> Scanned(s) [] k = "qwen-code" -> QwenCatalog(s)
      [] k = "amp" -> AmpCatalog(s) [] k = "cursor-cli" -> CursorCatalog(s)
      [] k = "droid" -> DroidCatalog(s) [] k = "pi" -> PiCatalog(s)
      [] k = "opencode" -> OpenCodeCatalog(s) [] k = "github-copilot" -> CopilotCatalog(s)
      [] OTHER -> {}

\* Known agents first, installed or not, then the executors that are not known.
Agents(executors) == KnownAgents \o SelectSeq(executors, LAMBDA e : ~Contains(KnownAgents, e))

Init ==
    /\ kind \in Kinds /\ source \in Sources[kind]
    /\ catalog = {} /\ listed = <<>>
List ==
    /\ listed = <<>> /\ listed' = Agents(Executors)
    /\ catalog' = CatalogOf(kind, source)
    /\ UNCHANGED <<kind, source>>
\* The installation changes, and the list is asked for again.
Change ==
    /\ listed # <<>> /\ listed' = <<>> /\ catalog' = {}
    /\ source' \in Sources[kind] /\ UNCHANGED kind
Next == List \/ Change
Spec == Init /\ [][Next]_vars

-----------------------------------------------------------------------------
TypeOK ==
    /\ kind \in Kinds /\ source \in Sources[kind]
    /\ \A c \in catalog : DOMAIN c.default = DOMAIN c.models /\ DOMAIN c.effort = DOMAIN c.models

\* Whatever an installation holds, a form can be filled in from its catalog:
\* the default model of an access level is one of the models of the level, and
\* there is one when there are models; a default effort is one of the efforts.
\* Codex's own cache is taken at its word for efforts.
CatalogFits ==
    \A c \in catalog :
        /\ \A a \in DOMAIN c.models :
            /\ c.models[a] # <<>> => Contains(c.models[a], c.default[a])
            /\ c.models[a] = <<>> => c.default[a] = None
            /\ kind # "codex" /\ c.effort[a] # None => Contains(c.efforts[a], c.effort[a])
        /\ DOMAIN c.effortsBy \cup DOMAIN c.effortBy \subseteq UNION {ToSet(c.models[a]) : a \in DOMAIN c.models}
        /\ kind \in {"pi", "opencode"} =>
            \A m \in DOMAIN c.effortBy : m \in DOMAIN c.effortsBy /\ Contains(c.effortsBy[m], c.effortBy[m])

\* What a level does not include is not offered for it, and no model twice
\* where the code says it looks.
OfferedOnce ==
    \A c \in catalog : \A a \in DOMAIN c.models :
        /\ kind = "claude-code" => \A m \in ToSet(c.models[a]) : a \in AccessOf(m)
        /\ kind \notin {"codex", "droid", "opencode"} => Len(c.models[a]) = Cardinality(ToSet(c.models[a]))

\* An agent that is installed is in the list whatever its name.
InstalledIsListed == listed # <<>> => \A e \in ToSet(Executors) : Contains(listed, e)
=============================================================================
