--------------------------- MODULE SimpleRculist ---------------------------
(***************************************************************************)
(* lab8/rculist/simple_rculist.c: a list of numbered elements that readers *)
(* walk under RCU while an updater replaces one element by a copy whose    *)
(* data is one higher, waits for a grace period and frees the original.    *)
(* Grace periods are those of SimpleRcu.                                   *)
(***************************************************************************)
EXTENDS Integers, Sequences, FiniteSets

CONSTANTS
    Readers, Updaters,  \* processes that issue IOCTL_READ(ALL), IOCTL_UPDATE
    NIds,               \* elements 1..NIds are made by the init function (5 in the code)
    AskedIds,           \* ids the applications pass
    MaxUpdates          \* bound on the number of updates

VARIABLES
    next, prev,  \* the pointers of the list: 0 is its head, which a walk ends at
    node,        \* per node: id and data
    live,        \* nodes allocated and not freed
    fresh,       \* the next node: a node is never reused
    lock,        \* the updater that holds my_lock
    proc,        \* per process: pc, id asked for, node it is at, elements seen
    holdouts,    \* processors the grace period in progress waits for
    loaded

listVars == <<next, prev, node, live, fresh, lock, proc, holdouts, loaded>>

Head0 == 0
Poison == -1                        \* LIST_POISON2
NoProc == "nobody"
Procs == Readers \cup Updaters
All == 0                            \* IOCTL_READALL asks for no id
Nodes == 1..NIds + MaxUpdates

ListInit ==
    /\ next = [n \in Nodes \cup {Head0} |-> IF n < NIds THEN n + 1 ELSE Head0]
    /\ prev = [n \in Nodes \cup {Head0} |-> IF n = Head0 THEN NIds ELSE n - 1]
    /\ node = [n \in Nodes |-> [id |-> IF n <= NIds THEN n ELSE 0, data |-> 0]]
    /\ live = 1..NIds /\ fresh = NIds + 1
    /\ lock = NoProc
    /\ proc = [p \in Procs |-> [pc |-> "out", id |-> All, at |-> Head0, seen |-> <<>>]]
    /\ holdouts = {}
    /\ loaded = TRUE

MoveTo(p, pc) == proc' = [proc EXCEPT ![p].pc = pc]

(***************************************************************************)
(* IOCTL_READ and IOCTL_READALL                                            *)
(***************************************************************************)
InReadSection(p) == proc[p].pc \in {"begin", "walk"}
ReadCall(r, id) ==
    /\ loaded /\ proc[r].pc = "out"
    /\ proc' = [proc EXCEPT ![r] = [pc |-> "begin", id |-> id, at |-> Head0, seen |-> <<>>]]
    /\ UNCHANGED <<next, prev, node, live, fresh, lock, holdouts, loaded>>

\* One round of list_for_each_entry_rcu: load the next pointer, look at the node.
Visit(r) ==
    LET n == next[proc[r].at]
    IN  /\ InReadSection(r) /\ n # Head0
        /\ proc' = [proc EXCEPT
             ![r].pc = IF node[n].id = proc[r].id THEN "out" ELSE "walk",
             ![r].at = n,
             ![r].seen = Append(@, node[n])]
        /\ UNCHANGED <<next, prev, node, live, fresh, lock, holdouts, loaded>>

\* The walk is back at the head: an id asked for was not found.
EndOfList(r) ==
    /\ InReadSection(r) /\ next[proc[r].at] = Head0
    /\ MoveTo(r, "out")
    /\ UNCHANGED <<next, prev, node, live, fresh, lock, holdouts, loaded>>

(***************************************************************************)
(* IOCTL_UPDATE                                                            *)
(***************************************************************************)
Spinning(p) == proc[p].pc = "spin"

\* Bound: a call is made only while the nodes left are enough for it and for the
\* calls that have yet to replace, so that no call stops at the bound on its way.
YetToReplace == {v \in Updaters : proc[v].pc \in {"spin", "search"}}
UpdateCall(u, id) ==
    /\ loaded /\ proc[u].pc = "out"
    /\ fresh + Cardinality(YetToReplace) \in Nodes
    /\ proc' = [proc EXCEPT ![u] = [pc |-> "spin", id |-> id, at |-> Head0, seen |-> <<>>]]
    /\ UNCHANGED <<next, prev, node, live, fresh, lock, holdouts, loaded>>

UpdateLock(u) ==
    /\ Spinning(u) /\ lock = NoProc
    /\ lock' = u
    /\ MoveTo(u, "search")
    /\ UNCHANGED <<next, prev, node, live, fresh, holdouts, loaded>>

\* The next node of the search, which follows the list to the id that is asked for.
Candidate(u) == next[proc[u].at]
Search(u) ==
    /\ proc[u].pc = "search" /\ Candidate(u) # Head0
    /\ node[Candidate(u)].id # proc[u].id
    /\ proc' = [proc EXCEPT ![u].at = Candidate(u)]
    /\ UNCHANGED <<next, prev, node, live, fresh, lock, holdouts, loaded>>

NotFound(u) ==
    /\ proc[u].pc = "search" /\ Candidate(u) = Head0
    /\ lock' = NoProc
    /\ MoveTo(u, "out")
    /\ UNCHANGED <<next, prev, node, live, fresh, holdouts, loaded>>

\* list_replace_rcu: the copy points on before anything points to it; the
\* original keeps its next pointer for the readers that are at it.
CopyStale(old) == node[old]                 \* mutant: new->data++ dropped
Copy(old) == [node[old] EXCEPT !.data = @ + 1]
Replace(u) ==
    LET old == Candidate(u)
    IN  /\ proc[u].pc = "search" /\ old # Head0
        /\ node[old].id = proc[u].id /\ fresh \in Nodes
        /\ node' = [node EXCEPT ![fresh] = Copy(old)]
        /\ next' = [next EXCEPT ![fresh] = next[old], ![prev[old]] = fresh]
        /\ prev' = [prev EXCEPT ![fresh] = prev[old], ![next[old]] = fresh, ![old] = Poison]
        /\ proc' = [proc EXCEPT ![u].pc = "sync", ![u].at = old]
        /\ live' = live \cup {fresh} /\ fresh' = fresh + 1
        /\ UNCHANGED <<lock, holdouts, loaded>>

WaitedFor(u) == Procs \ {u}
Synchronize(u) ==
    /\ proc[u].pc = "sync"
    /\ holdouts' = WaitedFor(u)
    /\ MoveTo(u, "grace")
    /\ UNCHANGED <<next, prev, node, live, fresh, lock, loaded>>

Quiescent(p) ==
    /\ p \in holdouts /\ ~InReadSection(p) /\ ~Spinning(p)
    /\ holdouts' = holdouts \ {p}
    /\ UNCHANGED <<next, prev, node, live, fresh, lock, proc, loaded>>

Free(u) ==
    /\ proc[u].pc = "grace" /\ holdouts = {}
    /\ live' = live \ {proc[u].at}
    /\ lock' = NoProc
    /\ MoveTo(u, "out")
    /\ UNCHANGED <<next, prev, node, fresh, holdouts, loaded>>

\* simple_rcu_exit, with no call in progress, deletes and frees node after node.
Unload ==
    /\ loaded /\ \A p \in Procs : proc[p].pc = "out"
    /\ loaded' = FALSE
    /\ UNCHANGED <<next, prev, node, live, fresh, lock, proc, holdouts>>

DeleteFirst ==
    LET n == next[Head0]
    IN  /\ ~loaded /\ n # Head0
        /\ next' = [next EXCEPT ![prev[n]] = next[n]]
        /\ prev' = [prev EXCEPT ![next[n]] = prev[n], ![n] = Poison]
        /\ live' = live \ {n}
        /\ UNCHANGED <<node, fresh, lock, proc, holdouts, loaded>>

ReaderStep(r) == Visit(r) \/ EndOfList(r)
UpdaterStep(u) ==
    UpdateLock(u) \/ Search(u) \/ NotFound(u) \/ Replace(u) \/ Synchronize(u) \/ Free(u)

ListNext ==
    \/ \E r \in Readers : (\E id \in AskedIds \cup {All} : ReadCall(r, id)) \/ ReaderStep(r)
    \/ \E u \in Updaters : (\E id \in AskedIds : UpdateCall(u, id)) \/ UpdaterStep(u)
    \/ \E p \in Procs : Quiescent(p)
    \/ Unload \/ DeleteFirst

ListSpec == ListInit /\ [][ListNext]_listVars

(***************************************************************************)
(* Properties                                                              *)
(***************************************************************************)
\* The node a reader or the search of an updater stands on is not freed under it,
\* and no pointer of an allocated node or of the head leads to a freed one: nor is
\* any node that they can still walk to.
ListNoUseAfterFree ==
    /\ \A p \in Procs : InReadSection(p) \/ proc[p].pc = "search" =>
         proc[p].at \in live \cup {Head0}
    /\ \A n \in live \cup {Head0} : next[n] \in live \cup {Head0}

\* Whatever is replaced during its walk, a reader meets the elements in order,
\* each once and none left out, and an id of the list is always found.
WalkComplete ==
    \A r \in Readers :
        LET seen == proc[r].seen
        IN  /\ \A j \in DOMAIN seen : seen[j].id = j
            /\ proc[r].pc = "out" /\ seen # <<>> =>
                 IF proc[r].id \in 1..NIds THEN Len(seen) = proc[r].id ELSE Len(seen) = NIds

\* The list is l: the elements in their order, linked both ways.
IsList(l) ==
    /\ next[Head0] = l[1] /\ prev[l[1]] = Head0 /\ next[l[NIds]] = Head0
    /\ \A j \in 1..NIds-1 : next[l[j]] = l[j + 1] /\ prev[l[j + 1]] = l[j]
    /\ \A j \in 1..NIds : node[l[j]].id = j

\* Nothing but the list and the replaced original of an update in progress is
\* allocated, and no update is lost: the data of an element counts its copies.
\* Once the exit function has emptied the list nothing is allocated.
Originals == {proc[u].at : u \in {v \in Updaters : proc[v].pc \in {"sync", "grace"}}}
Copies(j) == {n \in NIds+1..fresh-1 : node[n].id = j}
ListComplete ==
    /\ loaded => \E l \in [1..NIds -> live] :
         /\ IsList(l)
         /\ \A j \in 1..NIds : node[l[j]].data = Cardinality(Copies(j))
         /\ live = {l[j] : j \in 1..NIds} \cup Originals
    /\ ~loaded /\ next[Head0] = Head0 => live = {}
=============================================================================
