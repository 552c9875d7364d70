--------------------------- MODULE DispatcherBindings ---------------------------
(***************************************************************************)
(* The registry of external threads and the dispatcher threads they are    *)
(* bound to (conductor-server/src/state/dispatcher_bindings.rs): a list per *)
(* project, newest first, in memory and in a file.  An upsert looks for a   *)
(* binding, checks or creates the dispatcher thread, changes the list and   *)
(* writes a snapshot of it, each under locks of its own.                    *)
(*                                                                         *)
(* One project and one provider; threads are not scoped to bridges.        *)
(***************************************************************************)
EXTENDS Naturals, Sequences, FiniteSets, SequencesExt, FiniteSetsExt

CONSTANTS
    Upserts,       \* upsert requests
    Deletes,       \* deletions of a dispatcher thread
    Externals,     \* external threads
    MaxThreads,    \* dispatcher threads ever created
    MaxBindings,   \* MAX_PROJECT_BINDINGS
    Faults,        \* of "fail" (a file is not written), "crash"
    Overlapping    \* whether requests overlap

BindingsAssumption ==
    /\ MaxThreads \in Nat /\ MaxBindings \in Nat \ {0} /\ Overlapping \in BOOLEAN
    /\ Faults \subseteq {"fail", "crash"}

VARIABLES
    mem,       \* dispatcher_bindings of the project
    disk,      \* dispatcher-bindings.json
    alive,     \* dispatcher threads
    made,      \* dispatcher threads created so far
    clock,     \* Utc::now(), and the source of ids
    at,        \* requests: where
    input,     \* upserts: external thread, dispatcher thread or None, what to create
    found,     \* upserts: the binding that was found, or None
    chosen,    \* requests: the dispatcher thread they bind or delete, or None
    snap,      \* requests: the snapshot they write
    acked      \* bindings that were acknowledged

vars == <<mem, disk, alive, made, clock, at, input, found, chosen, snap, acked>>
None == 0
Requests == Upserts \cup Deletes
Threads == 1..MaxThreads
Inputs == [ext : Externals, disp : Threads \cup {None}, create : {"no", "reuse", "new"}]
NoBinding == [id |-> None, ext |-> None, disp |-> None, at |-> 0]

Init ==
    /\ mem = <<>> /\ disk = <<>> /\ alive = {} /\ made = 0 /\ clock = 0 /\ acked = {}
    /\ at = [r \in Requests |-> "new"]
    /\ input \in [Upserts -> {[ext |-> CHOOSE e \in Externals : TRUE, disp |-> None, create |-> "no"]}]
    /\ found = [r \in Upserts |-> NoBinding]
    /\ chosen = [r \in Requests |-> None] /\ snap = [r \in Requests |-> <<>>]

Go(r, where) == at' = [at EXCEPT ![r] = where]
Turn(r) == Overlapping \/ \A o \in Requests \ {r} : at[o] \in {"new", "done"}

\* binding_matches_lookup
Matches(b, i) == b.ext = i.ext /\ (i.disp # None => b.disp = i.disp)
NewestFirst(s) == SortSeq(s, LAMBDA b, c : b.at > c.at)
\* list_dispatcher_bindings sorts a copy.
Lookup(i) ==
    LET hits == SelectSeq(NewestFirst(mem), LAMBDA b : Matches(b, i))
    IN IF hits = <<>> THEN NoBinding ELSE hits[1]

ReadBinding(r) ==
    /\ at[r] = "new" /\ Turn(r)
    /\ \E i \in Inputs :
          /\ i.disp <= made
          /\ input' = [input EXCEPT ![r] = i] /\ found' = [found EXCEPT ![r] = Lookup(i)]
          /\ chosen' = [chosen EXCEPT ![r] = IF i.disp # None THEN i.disp ELSE Lookup(i).disp]
    /\ Go(r, "check")
    /\ UNCHANGED <<mem, disk, alive, made, clock, snap, acked>>

\* A dispatcher thread that is named must exist; then one is created when asked for:
\* create_project_dispatcher_thread takes the latest one unless a new one is forced.
CheckThread(r) ==
    /\ at[r] = "check"
    /\ IF chosen[r] # None /\ chosen[r] \notin alive THEN Go(r, "done")
       ELSE Go(r, IF input[r].create = "no" THEN "change" ELSE "create")
    /\ UNCHANGED <<mem, disk, alive, made, clock, input, found, chosen, snap, acked>>

CreateThread(r) ==
    /\ at[r] = "create" /\ Go(r, "change")
    /\ IF input[r].create = "reuse" /\ alive # {}
       THEN /\ \E d \in alive : (\A o \in alive : o <= d) /\ chosen' = [chosen EXCEPT ![r] = d]
            /\ UNCHANGED <<alive, made>>
       ELSE /\ made < MaxThreads /\ made' = made + 1 /\ alive' = alive \cup {made'}
            /\ chosen' = [chosen EXCEPT ![r] = made']
    /\ UNCHANGED <<mem, disk, clock, input, found, snap, acked>>

\* find_matching_binding_index looks at the list as it is, not at a sorted copy.
Index(i) == {k \in DOMAIN mem : Matches(mem[k], i) /\ \A j \in 1..(k - 1) : ~Matches(mem[j], i)}
Binding(r) ==
    [id |-> IF found[r] # NoBinding THEN found[r].id ELSE clock + 1,
     ext |-> input[r].ext, disp |-> chosen[r], at |-> clock + 1]
Placed(r) ==
    IF Index(input[r]) = {} THEN <<Binding(r)>> \o mem
    ELSE [mem EXCEPT ![CHOOSE k \in Index(input[r]) : TRUE] = Binding(r)]
Kept(s) == SubSeq(NewestFirst(s), 1, Min({Len(s), MaxBindings}))

ChangeList(r) ==
    /\ at[r] = "change" /\ Go(r, "write")
    /\ clock' = clock + 1
    /\ mem' = Kept(Placed(r))
    /\ found' = [found EXCEPT ![r] = Binding(r)]
    /\ snap' = [snap EXCEPT ![r] = mem']
    /\ UNCHANGED <<disk, alive, made, input, chosen, acked>>

Written(r) == snap[r]
\* persist_dispatcher_bindings_snapshot: no lock is held.
WriteFile(r) ==
    /\ at[r] = "write" /\ Go(r, "done")
    /\ \/ disk' = Written(r) /\ acked' = acked \cup (IF r \in Upserts THEN {found[r]} ELSE {})
       \/ "fail" \in Faults /\ UNCHANGED <<disk, acked>>
    /\ UNCHANGED <<mem, alive, made, clock, input, found, chosen, snap>>

\* delete_dispatcher_thread, and the task it leaves to clear the bindings.
DeleteThread(r) ==
    /\ at[r] = "new" /\ Turn(r)
    /\ \E d \in alive : alive' = alive \ {d} /\ chosen' = [chosen EXCEPT ![r] = d]
    /\ Go(r, "clear")
    /\ UNCHANGED <<mem, disk, made, clock, input, found, snap, acked>>

Bound(d) == {k \in DOMAIN mem : mem[k].disp = d}
\* clear_dispatcher_binding_thread: the list keeps its order.
ClearBindings(r) ==
    /\ at[r] = "clear"
    /\ IF Bound(chosen[r]) = {} THEN Go(r, "done") /\ UNCHANGED <<mem, clock, snap>>
       ELSE /\ clock' = clock + 1 /\ Go(r, "write")
            /\ mem' = [k \in DOMAIN mem |-> IF k \in Bound(chosen[r])
                          THEN [mem[k] EXCEPT !.disp = None, !.at = clock'] ELSE mem[k]]
            /\ snap' = [snap EXCEPT ![r] = mem']
    /\ UNCHANGED <<disk, alive, made, input, found, chosen, acked>>

\* The server stops and reads the file again; dispatcher threads are kept on disk.
Crash ==
    /\ "crash" \in Faults /\ \E r \in Requests : at[r] = "new"
    /\ mem' = disk
    /\ at' = [r \in Requests |-> IF at[r] = "new" THEN "new" ELSE "done"]
    /\ UNCHANGED <<disk, alive, made, clock, input, found, chosen, snap, acked>>

Next ==
    \/ \E r \in Upserts : ReadBinding(r) \/ CheckThread(r) \/ CreateThread(r) \/ ChangeList(r)
    \/ \E r \in Deletes : DeleteThread(r) \/ ClearBindings(r)
    \/ \E r \in Requests : WriteFile(r)
    \/ Crash

Spec == Init /\ [][Next]_vars

-----------------------------------------------------------------------------
BindingOK(b) == b.id \in 1..clock /\ b.ext \in Externals /\ b.disp \in 0..made /\ b.at \in 1..clock
\* Every variable has its type; the lists are bounded.
TypeOK ==
    /\ \A s \in {mem, disk} \cup Range(snap) : Len(s) <= MaxBindings /\ \A k \in DOMAIN s : BindingOK(s[k])
    /\ alive \subseteq 1..made /\ made <= MaxThreads
    /\ \A r \in Requests : at[r] \in {"new", "check", "create", "change", "write", "clear", "done"}

\* A binding is replaced under its own id: no two bindings of a project share one.
UniqueIds == \A j, k \in DOMAIN mem : mem[j].id = mem[k].id => j = k

\* A full list loses its oldest binding, never one that was used after it.
OldestEvicted ==
    [][\A r \in Upserts, k \in DOMAIN mem :
          at[r] = "change" /\ at'[r] = "write" /\ k \notin Index(input[r])
          /\ mem[k].id \notin {mem'[j].id : j \in DOMAIN mem'}
             => \A j \in DOMAIN mem' : mem'[j].at > mem[k].at]_vars

\* The bindings of a deleted thread are cleared once the deletion is through.
ClearedAfterDelete ==
    \A r \in Deletes : at[r] \in {"write", "done"} /\ chosen[r] # None
        => \A k \in DOMAIN mem : mem[k].disp # chosen[r]

\* What a client was told is on disk when nobody changes it: requests that come one
\* after the other leave the file as the last one that was acknowledged wants it.
AckedOnDisk ==
    \A b \in acked :
        (\A k \in DOMAIN mem : mem[k].id = b.id => mem[k] = b) /\ b \in Range(mem) /\ (\A r \in Requests : at[r] \in {"new", "done"})
           => b \in Range(disk)
=============================================================================
