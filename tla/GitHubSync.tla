------------------------------- MODULE GitHubSync -------------------------------
(***************************************************************************)
(* A board that is linked with a GitHub Project (routes/github.rs): pulls  *)
(* and pushes that a user asks for, pulls that a webhook starts, people    *)
(* who change either side and the link meanwhile.  A push talks to GitHub  *)
(* once or twice for each card and writes the board when it is through.    *)
(*                                                                         *)
(* Cards and items are records; their titles and bodies are a number that  *)
(* an edit changes.  The order of cards is left open.  One workspace.      *)
(***************************************************************************)
EXTENDS Integers, Sequences, FiniteSets, FiniteSetsExt

CONSTANTS
    Pushes, Pulls, \* POST /api/github/projects/sync
    Hooks,         \* handlers of POST /api/github/webhook
    Board,         \* the cards at first
    Project,       \* the items of the GitHub Project at first
    Options,       \* the options of its status field, in order
    EditRoles,     \* columns people move cards to
    Changes,       \* what people do on GitHub
    Payloads,      \* what a delivery says: <<event, repository, owner, project>>
    Page,          \* items a snapshot stops at, 200
    MaxItems, MaxCards, Edits, Remote, Links, \* items, cards, changes here, there and of the link
    Faults,        \* of "gh", "answer", "read", "write"
    Overlapping    \* whether syncs overlap

SyncAssumption ==
    /\ {Page, MaxItems, MaxCards, Edits, Remote, Links} \subseteq Nat
    /\ Overlapping \in BOOLEAN /\ Faults \subseteq {"gh", "answer", "read", "write"}

VARIABLES
    board, cards,  \* the cards of the file; cards ever made
    items, ids,    \* the items of the GitHub Project; items ever made
    link,          \* project.github_project: whether it is set, the status field it names
    field,         \* the status field GitHub has
    events,        \* deliveries that GitHub still has to make
    edits, remote, links,
    at,            \* syncs: where
    told,          \* syncs: "ok", "error" or "skipped"
    snap,          \* syncs: the items they fetched, and those they made since
    copy,          \* syncs: the board they parsed or will write
    left,          \* pushes: cards to do
    cur            \* pushes: the card and the item they set the status of;
                   \* before that, syncs: the status field they fetched

side == <<edits, remote, links>>
locals == <<snap, copy, left, cur>>
vars == <<board, cards, items, ids, link, field, events, side, at, told, locals>>
Syncs == Pushes \cup Pulls \cup Hooks
Quiet == {"new", "done"}

-----------------------------------------------------------------------------
\* normalize_role
NormalizeRole(name) ==
    CASE name \in {"ready", "dispatching", "merge", "cancelled", "blocked"} -> name
      [] name = "in progress" -> "inProgress" [] name \in {"needs input", "waiting"} -> "needsInput"
      [] name \in {"in review", "review"} -> "review" [] name = "ready to merge" -> "merge"
      [] name \in {"done", "complete", "completed"} -> "done" [] name \in {"canceled", "archived"} -> "cancelled"
      [] name \in {"error", "failed"} -> "errored" [] OTHER -> "intake"

\* role_status_aliases
Aliases(role) ==
    CASE role = "intake" -> {"todo", "to do", "backlog", "planned", "triage"}
      [] role = "ready" -> {"ready", "todo", "to do", "planned"}
      [] role \in {"dispatching", "inProgress"} -> {"in progress", "active", "doing"}
      [] role = "needsInput" -> {"needs input", "blocked", "waiting", "on hold"}
      [] role = "blocked" -> {"blocked", "on hold", "waiting"} [] role = "errored" -> {"blocked", "on hold", "todo"}
      [] role = "review" -> {"in review", "review", "qa"} [] role = "merge" -> {"merge", "ready to merge", "review", "done"}
      [] role = "done" -> {"done", "complete", "completed", "shipped"}
      [] role = "cancelled" -> {"cancelled", "canceled", "archived", "wont do", "won't do"} [] OTHER -> {}

\* resolve_status_option: the first option that fits.
Fits(name, role) == name \in Aliases(role) \/ NormalizeRole(name) = role
Option(role) ==
    LET fit == {k \in DOMAIN Options : Fits(Options[k], role)}
    IN IF fit = {} THEN "none" ELSE Options[Min(fit)]

\* github_item_to_role
RoleOf(i) ==
    CASE i.archived -> "cancelled"
      [] ~i.archived /\ i.status # "none" -> NormalizeRole(i.status)
      [] ~i.archived /\ i.status = "none" /\ i.closed -> "done"
      [] ~i.archived /\ i.status = "none" /\ ~i.closed -> IF i.kind = "PullRequest" THEN "review" ELSE "intake"

Item(n, c, kind, issue, text) ==
    [id |-> n, card |-> c, kind |-> kind, issue |-> issue, text |-> text,
     status |-> "none", closed |-> FALSE, archived |-> FALSE]

-----------------------------------------------------------------------------
Init ==
    /\ board = Board /\ cards = Cardinality(Board)
    /\ items = Project /\ ids = Cardinality(Project)
    /\ link = [on |-> TRUE, field |-> 0] /\ field = 0
    /\ events = {} /\ edits = 0 /\ remote = 0 /\ links = 0
    /\ at = [s \in Syncs |-> "new"] /\ told = [s \in Syncs |-> "none"]
    /\ snap = [s \in Syncs |-> {}] /\ copy = snap /\ left = snap
    /\ cur = [s \in Syncs |-> <<0, 0>>]

Go(s, where) == at' = [at EXCEPT ![s] = where]
End(s, answer) ==
    /\ at' = [at EXCEPT ![s] = IF s \in Hooks THEN "new" ELSE "done"]
    /\ told' = [told EXCEPT ![s] = answer]
    /\ snap' = [snap EXCEPT ![s] = {}] /\ copy' = [copy EXCEPT ![s] = {}]
    /\ left' = [left EXCEPT ![s] = {}] /\ cur' = [cur EXCEPT ![s] = <<0, 0>>]
Turn == Overlapping \/ \A s \in Syncs : at[s] \in Quiet

\* matched_projects_for_webhook, for this workspace.
Matches(p) ==
    \/ p.repo = "ours" \/ p.project = "ours"
    \/ p.owner = "ours" /\ p.project = "none"
\* is_sync_relevant_github_event
Relevant(p) == p.event \in {"projects_v2_item", "projects_v2", "issues", "issue_comment", "pull_request"}

\* sync_github_project
Start(s) ==
    /\ s \in Pushes \cup Pulls /\ at[s] = "new" /\ Turn /\ Go(s, "fetch")
    /\ UNCHANGED <<board, cards, items, ids, link, field, events, side, told, locals>>

\* receive_github_webhook
Deliver(s) ==
    /\ s \in Hooks /\ at[s] = "new" /\ Turn
    /\ \E p \in events :
       /\ events' = events \ {p}
       /\ IF Relevant(p) /\ Matches(p) THEN Go(s, "fetch") /\ UNCHANGED <<told, locals>> ELSE End(s, "skipped")
    /\ UNCHANGED <<board, cards, items, ids, link, field, side>>

\* resolve_project_board_context, fetch_github_project_snapshot and
\* persist_github_project_link, which stores the link the sync began with.
Snapshot == {i \in items : Cardinality({j \in items : j.id < i.id}) < Page}
NewLink(l) == [l EXCEPT !.field = field]
Fetch(s) ==
    /\ at[s] = "fetch"
    /\ \/ link.on /\ snap' = [snap EXCEPT ![s] = Snapshot] /\ Go(s, IF link # NewLink(link) THEN "persist" ELSE "parse")
          /\ cur' = [cur EXCEPT ![s] = IF link # NewLink(link) THEN <<field, 0>> ELSE @]
          /\ UNCHANGED <<told, copy, left>>
       \/ (~link.on \/ "gh" \in Faults) /\ End(s, "error")
    /\ UNCHANGED <<board, cards, items, ids, link, field, events, side>>

Persist(s) ==
    /\ at[s] = "persist" /\ link' = [on |-> TRUE, field |-> cur[s][1]]
    /\ \/ Go(s, "parse") /\ cur' = [cur EXCEPT ![s] = <<0, 0>>] /\ UNCHANGED <<told, snap, copy, left>>
       \/ "write" \in Faults /\ End(s, "error")
    /\ UNCHANGED <<board, cards, items, ids, field, events, side>>

-----------------------------------------------------------------------------
\* The item a card is matched with: by the id of the item, else by the number
\* of the issue; of several items with a number the last.
Match(c, known) ==
    LET byId == {i \in known : c.item # 0 /\ i.id = c.item}
        byIssue == {i \in known : c.issue # 0 /\ i.issue = c.issue}
    IN CASE byId # {} -> byId
         [] byId = {} /\ byIssue # {} -> {i \in byIssue : \A j \in byIssue : j.id <= i.id}
         [] OTHER -> {}

\* merge_task_with_project_item
Merge(c, i) == [c EXCEPT !.item = i.id, !.issue = i.issue, !.role = RoleOf(i), !.text = i.text]
\* The cards of items that no card was matched with.
Added(known) ==
    {[card |-> cards + Cardinality({j \in known : j.id <= i.id}), item |-> i.id, issue |-> i.issue,
      role |-> RoleOf(i), text |-> i.text] : i \in known}

\* pull_github_project_into_board: takes is the first card of each item.
Pulled(b, known, takes) ==
    (b \ {takes[i] : i \in DOMAIN takes}) \cup {Merge(takes[i], i) : i \in DOMAIN takes}
        \cup Added(known \ DOMAIN takes)
Claimed(b, known) == UNION {Match(c, known) : c \in b}
\* parse_board: a file that cannot be read is taken for an empty one.
Read == {board} \cup {{} : f \in Faults \cap {"read"}}
PullBoard(s) ==
    /\ s \in Pulls \cup Hooks /\ at[s] = "parse"
    /\ \E b \in Read : \E takes \in [Claimed(b, snap[s]) -> b] :
       /\ \A i \in DOMAIN takes : Match(takes[i], snap[s]) = {i}
       /\ copy' = [copy EXCEPT ![s] = Pulled(b, snap[s], takes)]
       /\ Max({c.card : c \in copy'[s]} \cup {0}) <= MaxCards
       /\ cards' = Max({c.card : c \in copy'[s]} \cup {cards})
    /\ Go(s, "write")
    /\ UNCHANGED <<board, items, ids, link, field, events, side, told, snap, left, cur>>

\* write_parsed_board
Write(s) ==
    /\ at[s] = "write"
    /\ \/ board' = copy[s] /\ End(s, "ok")
       \/ "write" \in Faults /\ End(s, "error") /\ UNCHANGED board
    /\ UNCHANGED <<cards, items, ids, link, field, events, side>>

-----------------------------------------------------------------------------
\* push_board_into_github_project
PushBoard(s) ==
    /\ s \in Pushes /\ at[s] = "parse"
    /\ \E b \in Read : /\ Go(s, IF b = {} THEN "write" ELSE "tasks")
                      /\ copy' = [copy EXCEPT ![s] = b] /\ left' = [left EXCEPT ![s] = b]
    /\ UNCHANGED <<board, cards, items, ids, link, field, events, side, told, snap, cur>>

\* Mutant: the card of an item that was created does not name it.
NotNamed(c, i) == IF c.item = 0 /\ c.issue = 0 THEN c ELSE [c EXCEPT !.item = i.id]
Named(c, i) == [c EXCEPT !.item = i.id]
Raise == events' = events \cup {p \in Payloads : p.event = "projects_v2_item"}

\* A call of GitHub that reaches it, that does not, and one whose answer is lost.
Calls(s, item, its, now) ==
    \/ /\ copy' = [copy EXCEPT ![s] = (@ \ {item}) \cup {Named(item, now)}]
       /\ snap' = [snap EXCEPT ![s] = {j \in @ : j.id # now.id} \cup {now}]
       /\ left' = [left EXCEPT ![s] = @ \ {item}] /\ cur' = [cur EXCEPT ![s] = <<item.card, now.id>>]
       /\ items' = its /\ ids' = Max({i.id : i \in its} \cup {ids})
       /\ (IF its = items THEN UNCHANGED events ELSE Raise) /\ Go(s, "status") /\ UNCHANGED told
    \/ /\ "gh" \in Faults /\ End(s, "error") /\ UNCHANGED <<items, ids, events>>
    \/ /\ "answer" \in Faults /\ its # items /\ End(s, "error")
       /\ items' = its /\ ids' = Max({i.id : i \in its} \cup {ids}) /\ Raise

Retitled(i, c) == {IF j.id = i.id THEN [j EXCEPT !.text = c.text] ELSE j : j \in items}
Sync(s, c) ==
    LET found == Match(c, snap[s])
        draft == Item(ids + 1, c.card, "DraftIssue", 0, c.text)
        issue == Item(ids + 1, c.card, "Issue", c.issue, c.text)
        there == {i \in items : c.issue # 0 /\ i.issue = c.issue}
    IN \/ \E i \in found :                              \* update_project_draft_issue
             IF i.kind # "DraftIssue" THEN Calls(s, c, items, i)
             ELSE IF \E j \in items : j.id = i.id THEN Calls(s, c, Retitled(i, c), i)
             ELSE End(s, "error") /\ UNCHANGED <<items, ids, events>>
       \/ /\ found = {} /\ c.issue # 0 /\ there # {}    \* GitHub adds an issue once
          /\ \E i \in there : Calls(s, c, items, [issue EXCEPT !.id = i.id])
       \/ /\ found = {} /\ c.issue # 0 /\ there = {} /\ ids < MaxItems   \* add_project_item_by_content
          /\ Calls(s, c, items \cup {issue}, issue)
       \/ /\ found = {} /\ c.issue = 0 /\ ids < MaxItems   \* add_project_draft_issue
          /\ Calls(s, c, items \cup {draft}, draft)

PushCard(s) ==
    /\ at[s] = "tasks" /\ (\E c \in left[s] : Sync(s, c))
    /\ UNCHANGED <<board, cards, link, field, side>>

\* update_project_status
PushStatus(s) ==
    LET i == cur[s][2]
        role == (CHOOSE c \in copy[s] : c.card = cur[s][1]).role
        next == IF left[s] = {} THEN "write" ELSE "tasks"
    IN /\ at[s] = "status"
       /\ IF Option(role) = "none" THEN Go(s, next) /\ UNCHANGED <<items, events, told, locals>>
          ELSE \/ /\ \E j \in items : j.id = i
                  /\ items' = {IF j.id = i THEN [j EXCEPT !.status = Option(role)] ELSE j : j \in items}
                  /\ Raise /\ Go(s, next) /\ UNCHANGED <<told, locals>>
               \/ /\ "gh" \in Faults \/ ~\E j \in items : j.id = i
                  /\ End(s, "error") /\ UNCHANGED <<items, events>>
       /\ UNCHANGED <<board, cards, ids, link, field, side>>

-----------------------------------------------------------------------------
\* Other writers of the board: a card is moved and renamed, a card is added.
Edit ==
    /\ edits < Edits /\ edits' = edits + 1 /\ Turn
    /\ \/ \E c \in board, r \in EditRoles :
             board' = (board \ {c}) \cup {[c EXCEPT !.role = r, !.text = edits']} /\ UNCHANGED cards
       \/ \E r \in EditRoles :
             /\ cards < MaxCards /\ cards' = cards + 1
             /\ board' = board \cup {[card |-> cards', item |-> 0, issue |-> 0, role |-> r, text |-> edits']}
    /\ UNCHANGED <<items, ids, link, field, events, remote, links, at, told, locals>>

\* People on GitHub.
Change ==
    /\ remote < Remote /\ remote' = remote + 1 /\ events' = events \cup Payloads
    /\ \/ "status" \in Changes /\ \E i \in items, k \in DOMAIN Options :
             items' = (items \ {i}) \cup {[i EXCEPT !.status = Options[k]]} /\ UNCHANGED <<ids, field>>
       \/ "close" \in Changes /\ \E i \in items :
             items' = (items \ {i}) \cup {[i EXCEPT !.closed = TRUE]} /\ UNCHANGED <<ids, field>>
       \/ "archive" \in Changes /\ \E i \in items :
             items' = (items \ {i}) \cup {[i EXCEPT !.archived = TRUE]} /\ UNCHANGED <<ids, field>>
       \/ "remove" \in Changes /\ \E i \in items : items' = items \ {i} /\ UNCHANGED <<ids, field>>
       \/ "add" \in Changes /\ ids < MaxItems /\ ids' = ids + 1
          /\ items' = items \cup {Item(ids', 0, "PullRequest", 0, 0)} /\ UNCHANGED field
       \/ "field" \in Changes /\ field' = field + 1 /\ UNCHANGED <<items, ids>>
    /\ UNCHANGED <<board, cards, link, edits, links, at, told, locals>>

\* update_github_project_link
Relink ==
    /\ links < Links /\ links' = links + 1 /\ Turn
    /\ \E on \in BOOLEAN : link' = [on |-> on, field |-> field]
    /\ UNCHANGED <<board, cards, items, ids, field, events, edits, remote, at, told, locals>>

SyncStep(s) ==
    \/ Fetch(s) \/ Persist(s) \/ PullBoard(s) \/ Write(s) \/ PushBoard(s) \/ PushCard(s) \/ PushStatus(s)
Next == (\E s \in Syncs : Start(s) \/ Deliver(s) \/ SyncStep(s)) \/ Edit \/ Change \/ Relink
Spec == Init /\ [][Next]_vars

\* A request runs on, and GitHub makes its deliveries.
FairSpec == Spec /\ \A s \in Syncs : WF_vars(SyncStep(s)) /\ WF_vars(Deliver(s))

-----------------------------------------------------------------------------
CardSet == [card : 1..MaxCards, item : 0..MaxItems, issue : Nat, role : STRING, text : Nat]
ItemSet == [id : 1..MaxItems, card : 0..MaxCards, kind : {"DraftIssue", "Issue", "PullRequest"}, issue : Nat,
            text : Nat, status : STRING, closed : BOOLEAN, archived : BOOLEAN]

\* The variables have their types, and no two items or cards share a number.
TypeOK ==
    /\ board \subseteq CardSet /\ items \subseteq ItemSet /\ cards <= MaxCards /\ ids <= MaxItems
    /\ \A c, d \in board : c.card = d.card => c = d
    /\ \A i, j \in items : i.id = j.id => i = j
    /\ link \in [on : BOOLEAN, field : Nat] /\ events \subseteq Payloads
    /\ \A s \in Syncs :
       /\ at[s] \in {"new", "fetch", "persist", "parse", "tasks", "status", "write", "done"}
       /\ told[s] \in {"none", "ok", "error", "skipped"}
       /\ snap[s] \subseteq ItemSet /\ copy[s] \subseteq CardSet /\ left[s] \subseteq CardSet

\* A push that comes to its end has an item for each card it read, whichever
\* calls of others failed or came in between.
PushNamesAll == \A s \in Pushes : at[s] = "write" => \A c \in copy[s] : c.item \in 1..ids

\* Pushed and pulled however often, a card has one item, and at most one more for
\* each push that failed: what it made no line names, and the next push makes again
\* (push_board_into_github_project writes the board when it is through).
Failed == {s \in Pushes : told[s] = "error"}
OneItem == \A i \in items : i.card # 0 =>
    Cardinality({j \in items : j.card = i.card}) <= 1 + Cardinality(Failed)

\* A sync drops no card (pull_github_project_into_board keeps those it has no item
\* for), or, when it could not read the file, all of them.
Unread == "read" \in Faults /\ \A c \in board, d \in board' : d.card # c.card
CardsKept == Unread \/ \A c \in board : \E d \in board' : d.card = c.card
KeepsCards == [][CardsKept]_board

\* A pull leaves each item with one card, in the column its status stands for,
\* unless two cards had the item already.
Shown == \A s \in Syncs \ Pushes :
    at[s] = "write" /\ told'[s] = "ok" /\ at'[s] # "write" /\ (\A c, d \in board : c.item = d.item /\ c.item # 0 => c = d)
        => \A i \in snap[s] : \E c \in board' : c.item = i.id /\ c.role = RoleOf(i)
              /\ \A d \in board' : d.item = i.id => d = c
Shows == [][Shown]_vars

\* Once nobody changes the project any more, webhooks bring the board up to it.
HooksShow == <>[](\A i \in items : \E c \in board : c.item = i.id /\ c.role = RoleOf(i))

\* A card that is ready is not put back into the inbox but by a user
\* (README.md:192 has cards go from the inbox to ready and on).
Onward == [][edits' = edits /\ remote = 0 =>
    \A c \in board, d \in board' : c.card = d.card /\ c.role = "ready" => d.role # "intake"]_vars
=============================================================================
