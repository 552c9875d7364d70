------------------------------- MODULE BoardTasks -------------------------------
(***************************************************************************)
(* The Markdown board of a project and everybody who writes it: the board  *)
(* automation (conductor-server/src/runtime.rs), launches of a linked task *)
(* (routes/sessions.rs), dispatcher tasks (dispatcher_task_lifecycle.rs)   *)
(* and people with an editor.  Each reads the file, works on its copy      *)
(* (routes/boards.rs) and writes the whole file back; nothing locks it.    *)
(*                                                                         *)
(* A line is a card with the id, the reference, the column and the attempt *)
(* it names; the order of lines, their other fields and headings are left  *)
(* out.  Intake and ready are one column, both are dispatched.             *)
(***************************************************************************)
EXTENDS Naturals, FiniteSets, FiniteSetsExt

CONSTANTS
    Launches,     \* POST /api/sessions for a linked task
    Creates,      \* create_dispatcher_task
    Updates,      \* update_dispatcher_task
    Handoffs,     \* handoff_dispatcher_task
    MaxCards,     \* lines ever written
    Passes,       \* passes of the automation; 0: they are not counted
    Room,         \* MAX_PROJECT_AUTODISPATCH_SESSIONS
    Edits,        \* changes made with an editor
    Faults,       \* of "read", "context", "enqueue", "write", "torn", "dropped"
    Overlapping   \* whether requests and passes overlap

BoardAssumption ==
    /\ {MaxCards, Passes, Room, Edits} \subseteq Nat /\ Overlapping \in BOOLEAN
    /\ Faults \subseteq {"read", "context", "enqueue", "write", "torn", "dropped"}

VARIABLES
    board,        \* the lines of the file
    cards,        \* lines ever written
    changed,      \* a BoardChanged event waits
    edits,        \* changes made with an editor
    at,           \* writers: where
    copy,         \* writers: the board they parsed
    task,         \* writers: the id they look for, or what they create
    out,          \* writers: the file they write
    told,         \* requests: "ok", "error" or None
    pass,         \* the automation: pass, tasks left, room, tasks dispatched
    sessions      \* sessions started for cards

vars == <<board, cards, changed, edits, at, copy, task, out, told, pass, sessions>>
None == "none"
NoId == <<>>
Auto == "auto"
Requests == Launches \cup Creates \cup Updates \cup Handoffs
Writers == Requests \cup {Auto}
Quiet == {"new", "done"}
NoPass == [n |-> 0, left |-> {}, room |-> 0, done |-> {}]
Card(c, id, ref, role) == [card |-> c, id |-> id, ref |-> ref, role |-> role, attempt |-> 0, text |-> 0]

Init ==
    /\ board = {} /\ cards = 0 /\ changed = FALSE /\ edits = 0
    /\ at = [w \in Writers |-> "new"] /\ copy = [w \in Writers |-> {}] /\ out = copy
    /\ task = [w \in Writers |-> None] /\ told = [r \in Requests |-> None]
    /\ pass = NoPass /\ sessions = {}

Go(w, where) == at' = [at EXCEPT ![w] = where]
Turn(w) == at[w] = "new" /\ (Overlapping \/ \A o \in Writers \ {w} : at[o] \in Quiet)

\* A file that cannot be read is taken for an empty one.
Read == {board} \cup {{} : f \in Faults \cap {"read"}}
\* parse_board: a line without an id gets a new one from every parse.
Parse(b, w, k) == {IF c.id = NoId THEN [c EXCEPT !.id = <<w, k, c.card>>] ELSE c : c \in b}
\* next_human_task_ref
NextRef(b) == Max({c.ref : c \in b} \cup {0}) + 1
Ready(b) == {c \in b : c.role = "ready"}
Find(b, id) == {c \in b : c.id = id}

-----------------------------------------------------------------------------
\* Writing a file: std::fs::write empties it first.
Tear(w) ==
    /\ "torn" \in Faults /\ at[w] = "write" /\ Go(w, "torn")
    /\ board' = {} /\ changed' = TRUE
    /\ UNCHANGED <<cards, edits, copy, task, out, told, pass, sessions>>

Write(w) ==
    /\ at[w] \in {"write", "torn"}
    /\ Go(w, IF w = Auto THEN "new" ELSE "done")
    /\ told' = IF w = Auto THEN told ELSE [told EXCEPT ![w] = "ok"]
    /\ board' = out[w] /\ changed' = TRUE
    /\ UNCHANGED <<cards, edits, copy, task, out, pass, sessions>>

FailWrite(w) ==
    /\ "write" \in Faults /\ at[w] \in {"write", "torn"}
    /\ Go(w, IF w = Auto THEN "new" ELSE "done")
    /\ told' = IF w = Auto THEN told ELSE [told EXCEPT ![w] = "error"]
    /\ UNCHANGED <<board, cards, changed, edits, copy, task, out, pass, sessions>>

-----------------------------------------------------------------------------
\* The automation: process_board_change, for an event or the retry tick.
\* Mutant: no retry tick.
OnEvent == changed
Due == TRUE
PassRead ==
    /\ Turn(Auto) /\ Due /\ (Passes = 0 \/ pass.n < Passes)
    /\ changed' = FALSE
    /\ \E b \in Read : copy' = [copy EXCEPT ![Auto] = Parse(b, Auto, pass.n)]
    /\ pass' = [NoPass EXCEPT !.n = IF Passes = 0 THEN 0 ELSE pass.n + 1, !.left = Ready(copy'[Auto])]
    /\ IF Ready(copy'[Auto]) = {} THEN UNCHANGED at ELSE Go(Auto, "count")
    /\ UNCHANGED <<board, cards, edits, task, out, told, sessions>>

\* active_session_counts: a queued session does not count.
Active == {s \in sessions : s.status = "Working"}
PassCount ==
    /\ at[Auto] = "count"
    /\ IF Cardinality(Active) >= Room THEN Go(Auto, "new") /\ UNCHANGED pass
       ELSE Go(Auto, "spawn") /\ pass' = [pass EXCEPT !.room = Room - Cardinality(Active)]
    /\ UNCHANGED <<board, cards, changed, edits, copy, task, out, told, sessions>>

NewSession(c, by) == [card |-> c, by |-> by, n |-> Cardinality(sessions) + 1, status |-> "Queued"]
PassSpawn ==
    /\ at[Auto] = "spawn" /\ pass.left # {} /\ pass.room > 0
    /\ \E c \in pass.left :
       \/ /\ sessions' = sessions \cup {NewSession(c.card, Auto)}
          /\ pass' = [pass EXCEPT !.left = @ \ {c}, !.room = @ - 1,
                                  !.done = @ \cup {<<c.id, Cardinality(sessions) + 1>>}]
          /\ UNCHANGED at
       \/ /\ "enqueue" \in Faults                      \* the task stays ready
          /\ pass' = [pass EXCEPT !.left = @ \ {c}] /\ UNCHANGED <<at, sessions>>
       \/ /\ "context" \in Faults                      \* compile_task_context(..)?
          /\ Go(Auto, "new") /\ UNCHANGED <<pass, sessions>>
    /\ UNCHANGED <<board, cards, changed, edits, copy, task, out, told>>

\* update_task_dispatch_state
Dispatched(c, n) == [c EXCEPT !.role = "dispatching", !.attempt = n]
Line(c) == LET d == {e \in pass.done : e[1] = c.id}
           IN {IF d = {} THEN c ELSE Dispatched(c, (CHOOSE e \in d : TRUE)[2])}
PassWrite ==
    /\ at[Auto] = "spawn" /\ (pass.left = {} \/ pass.room = 0)
    /\ Go(Auto, IF pass.done = {} THEN "new" ELSE "write")
    /\ out' = [out EXCEPT ![Auto] = UNION {Line(c) : c \in copy[Auto]}]
    /\ UNCHANGED <<board, cards, changed, edits, copy, task, told, pass, sessions>>

\* What becomes of a session; SessionLifecycle is about this.
SessionStarts == \E s \in sessions : s.status = "Queued"
    /\ sessions' = (sessions \ {s}) \cup {[s EXCEPT !.status = "Working"]}
    /\ UNCHANGED <<board, cards, changed, edits, at, copy, task, out, told, pass>>
SessionEnds == \E s \in sessions : s.status = "Working"
    /\ sessions' = (sessions \ {s}) \cup {[s EXCEPT !.status = "ended"]}
    /\ UNCHANGED <<board, cards, changed, edits, at, copy, task, out, told, pass>>

-----------------------------------------------------------------------------
\* Requests
\* resolve_board_task_record finds a line by its reference.
Resolve(r) ==
    /\ r \in Launches \cup Updates \cup Handoffs /\ Turn(r)
    /\ \E c \in Parse(board, r, 1) : c.ref # 0
          /\ task' = [task EXCEPT ![r] = c.id] /\ copy' = [copy EXCEPT ![r] = {c}]
    /\ Go(r, IF r \in Launches THEN "launch" ELSE "parse")
    /\ UNCHANGED <<board, cards, changed, edits, out, told, pass, sessions>>

Launch(r) ==
    /\ at[r] = "launch" /\ Go(r, "parse")
    /\ \E c \in copy[r] : sessions' = sessions \cup {NewSession(c.card, r)}
    /\ UNCHANGED <<board, cards, changed, edits, copy, task, out, told, pass>>

\* update_board_task_attempt_ref, mutate_existing_dispatcher_task: the id is looked
\* for in another parse.
Missing(r) == IF r \in Launches THEN "ok" ELSE "error"
ParseAgain(r) ==
    /\ at[r] = "parse"
    /\ \E b \in Read : copy' = [copy EXCEPT ![r] = Parse(b, r, 2)]
    /\ IF Find(copy'[r], task[r]) = {} THEN Go(r, "done") /\ told' = [told EXCEPT ![r] = Missing(r)]
       ELSE Go(r, "change") /\ UNCHANGED told
    /\ UNCHANGED <<board, cards, changed, edits, task, out, pass, sessions>>

\* Mutant: a launch forgets what was written in the card.
Forgotten(r, c) == IF r \in Launches THEN [c EXCEPT !.role = "dispatching", !.text = 0] ELSE [c EXCEPT !.text = @ + 1]
Changed(r, c) ==
    IF r \in Launches THEN Dispatched(c, (CHOOSE s \in sessions : s.by = r).n)
    ELSE IF r \in Handoffs THEN [c EXCEPT !.role = "ready", !.text = @ + 1] ELSE [c EXCEPT !.text = @ + 1]
Replaced(r) == (copy[r] \ Find(copy[r], task[r])) \cup {Changed(r, c) : c \in Find(copy[r], task[r])}
Change(r) ==
    /\ at[r] = "change" /\ Go(r, "write")
    /\ out' = [out EXCEPT ![r] = Replaced(r)]
    /\ UNCHANGED <<board, cards, changed, edits, copy, task, told, pass, sessions>>

\* create_dispatcher_task: the reference comes from one reading of the file, the
\* line goes into another.
\* Mutant: references are not looked at.
FirstRef(b) == 1
Ref(b) == NextRef(b)
CreateParse(r) ==
    /\ r \in Creates /\ Turn(r) /\ cards < MaxCards
    /\ cards' = cards + 1
    /\ \E b \in Read : task' = [task EXCEPT ![r] = Card(cards', <<r, 0, cards'>>, Ref(b), "ready")]
    /\ Go(r, "insert")
    /\ UNCHANGED <<board, changed, edits, copy, out, told, pass, sessions>>

Insert(r) ==
    /\ at[r] = "insert" /\ Go(r, "write")
    /\ \E b \in Read :
          copy' = [copy EXCEPT ![r] = b] /\ out' = [out EXCEPT ![r] = b \cup {task[r]}]
    /\ UNCHANGED <<board, cards, changed, edits, task, told, pass, sessions>>

-----------------------------------------------------------------------------
\* People write lines, with or without a reference, and move cards on.
Edit ==
    /\ edits < Edits /\ edits' = edits + 1
    /\ Overlapping \/ \A w \in Writers : at[w] \in Quiet
    /\ \/ /\ cards < MaxCards /\ cards' = cards + 1
          /\ \E ref \in {0, NextRef(board)} : board' = board \cup {Card(cards', NoId, ref, "ready")}
       \/ \E c \in board : board' = (board \ {c}) \cup {[c EXCEPT !.role = "review"]} /\ UNCHANGED cards
    /\ changed' = TRUE
    /\ UNCHANGED <<at, copy, task, out, told, pass, sessions>>

\* The channel of the watcher is full.
DropEvent ==
    /\ "dropped" \in Faults /\ changed /\ changed' = FALSE
    /\ UNCHANGED <<board, cards, edits, at, copy, task, out, told, pass, sessions>>

Request(r) == Resolve(r) \/ Launch(r) \/ ParseAgain(r) \/ Change(r) \/ CreateParse(r) \/ Insert(r)
Pass == PassRead \/ PassCount \/ PassSpawn \/ PassWrite
Next ==
    \/ Pass \/ SessionStarts \/ SessionEnds \/ Edit \/ DropEvent
    \/ \E r \in Requests : Request(r)
    \/ \E w \in Writers : Tear(w) \/ Write(w) \/ FailWrite(w)

Spec == Init /\ [][Next]_vars

\* The automation is a task with a timer, sessions start and end, and what fails
\* does not fail for ever.
FairSpec ==
    /\ Spec
    /\ WF_vars(Pass) /\ WF_vars(SessionStarts) /\ WF_vars(SessionEnds)
    /\ SF_vars(PassSpawn /\ sessions' # sessions) /\ SF_vars(Write(Auto))

-----------------------------------------------------------------------------
\* Every variable has its type.
TypeOK ==
    /\ cards <= MaxCards /\ edits <= Edits /\ pass.n <= Passes /\ changed \in BOOLEAN
    /\ \A w \in Writers : at[w] \in Quiet \cup {"count", "spawn", "launch", "parse", "change", "insert", "write", "torn"}
    /\ \A c \in board : c.card \in 1..cards /\ c.role \in {"ready", "dispatching", "review"}

\* No line is written twice, whoever overwrites whom.
OneLine == \A c, d \in board : c.card = d.card \/ (c.id = d.id /\ c.id # NoId) => c = d

\* A line that is on the board stays on it: nobody removes cards.
LosesNothing == \A c \in board : \E d \in board' : d.card = c.card
NothingLost == [][LosesNothing]_vars

\* Whoever overwrites whom, a file that was written has each line its writer had
\* read, with each update that was in it then.
LosesOnlyUnread ==
    \A w \in Writers : at[w] \in {"write", "torn"} /\ at'[w] \in Quiet /\ board' # board =>
        \A c \in copy[w] : \E d \in board' : d.card = c.card /\ d.text >= c.text

\* A reference names one card.
OneRef == \A c, d \in board : c.ref = d.ref /\ c.ref # 0 => c = d

\* A pass starts no session for a card that has one, whether a pass or a launch
\* started it; except of a launch whose line had no id: it never finds it again
\* (update_board_task_attempt_ref returns Ok) and the line stays ready.
WasNameless(s) == s.by \in Launches /\ task[s.by][1] = s.by
DispatchedOnce ==
    \A s, t \in sessions : s.card = t.card /\ s.n < t.n /\ t.by = Auto => WasNameless(s)

\* The automation leaves no more than its share of sessions at work.
WithinShare == Cardinality({s \in sessions : s.by = Auto /\ s.status = "Working"}) <= Room

\* An update that was acknowledged stays on the board.
UpdateKept ==
    \A c \in board, d \in board' : c.card = d.card => d.text >= c.text
UpdateStays == [][UpdateKept]_vars

\* A task that is on the board can be updated by its reference.
FoundByRef ==
    \A r \in Updates \cup Handoffs : told[r] = "error" /\ ~Overlapping /\ "write" \notin Faults
        => \A c \in copy[r] : c.ref = 0

\* A ready card is dispatched or moved, however events are dropped.
ReadyIsDispatched ==
    \A c \in 1..MaxCards :
        (\E x \in board : x.card = c /\ x.role = "ready") ~> (~\E x \in board : x.card = c /\ x.role = "ready")
=============================================================================
