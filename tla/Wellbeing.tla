----------------------------- MODULE Wellbeing -----------------------------
(***************************************************************************)
(* The wellbeing read path and the exclusion registry of one application.  *)
(* A request scans the accepted observations page by page, computes from   *)
(* what it has seen, and stores a snapshot in a transaction of its own;    *)
(* a comparison is two such requests in a row.  Observations keep being    *)
(* accepted, in the order of their positions, as Epistemic has it.  Every  *)
(* process keeps the exclusions it has loaded once in a cache of its own,  *)
(* which its threads share: each reads the table and then, holding no lock *)
(* since, overwrites the cache.                                            *)
(*                                                                         *)
(* V2 selects with the same code; its formula is left out.  Histories,     *)
(* explanations, baselines and feedback only read or add rows of their own.*)
(***************************************************************************)
EXTENDS LifeSelection, Sequences

CONSTANTS
    Process,      \* processes of the service
    Thread, Home, \* their threads, each serving one request at a time, and where each belongs
    Catalogue,    \* bound: the observations that may be accepted, with position 0
    Bootstrap,    \* ids excluded by the code itself
    PageSize,
    Width,        \* window_days
    MaxRequests,  \* bound: requests of all processes
    Excludable,   \* bound: the ids somebody may exclude
    MaxExclusions, \* bound: exclusions begun
    MaxRestarts   \* bound: restarts of a process

ASSUME PageAssumption == PageSize \in Nat \ {0} /\ Width \in Nat \ {0}
ASSUME HomeAssumption == Home \in [Thread -> Process]
ASSUME CatalogueAssumption ==
    /\ Catalogue \subseteq {r \in Row : r.at = 0}
    /\ \A x, y \in Catalogue : x.id = y.id => x = y

VARIABLES
    store,     \* accepted_observations of the application
    table,     \* observation_exclusions: the ids committed
    formulas,  \* wellbeing_formula_versions
    snapshots, \* wellbeing_score_snapshots, by what they say
    cache,     \* of each process: _db_cache
    pc, local, \* of each thread: control and what the request has at hand
    alone,     \* history: the threads in the registry whose way no other of their process has crossed
    born,      \* history: what was committed when each process started
    requests, exclusions, restarts \* begun so far

wellbeingVars == <<store, table, formulas, snapshots, cache, pc, local, alone, born, requests, exclusions, restarts>>

bounded == <<born, requests, exclusions, restarts>>

Formula == {"V1", "V2"}
\* A cache is not loaded, loaded, or empty because its load has failed.
Unloaded == [state |-> "unloaded", ids |-> {}]
Failed == [state |-> "failed", ids |-> {}]
Loaded(ids) == [state |-> "loaded", ids |-> ids]
Cache == [state : {"unloaded", "loaded", "failed"}, ids : SUBSET Excludable]

\* to do: the formulas still to be computed; since: the rows there were when the scan began;
\* loaded: what has been read of the table; next: where the thread goes on with it.
NoRequest == [todo |-> <<>>, after |-> 0, seen |-> {}, since |-> {}, missing |-> {},
              excluded |-> {}, target |-> None, loaded |-> Unloaded, next |-> "idle"]

Todo == {<<"V1">>, <<"V1", "V2">>, <<"V2">>}
Control == {"idle", "scan", "compute", "store", "exclude", "load", "refresh", "overwrite", "excluding"}
View == [todo : Todo \cup {<<>>}, after : Nat, seen : SUBSET Row, since : SUBSET Row,
         missing : SUBSET Formula, excluded : SUBSET (Bootstrap \cup Excludable),
         target : Excludable \cup {None}, loaded : Cache, next : {"idle", "compute", "exclude", "excluding"}]

NoResult == [happiness |-> Absent]

WellbeingInit ==
    /\ store = {} /\ table = {} /\ formulas = {} /\ snapshots = {}
    /\ cache = [p \in Process |-> Unloaded]
    /\ pc = [t \in Thread |-> "idle"]
    /\ local = [t \in Thread |-> NoRequest]
    /\ alone = {} /\ born = [p \in Process |-> {}]
    /\ requests = 0 /\ exclusions = 0 /\ restarts = 0

Goto(t, at) == pc' = [pc EXCEPT ![t] = at]

-----------------------------------------------------------------------------
\* The write path accepts an observation.
Accept(x) ==
    /\ \A r \in store : r.id # x.id
    /\ store' = store \cup {[x EXCEPT !.at = Cardinality(store) + 1]}
    /\ UNCHANGED <<table, formulas, snapshots, cache, pc, local, alone, bounded>>

\* get_current of V1, or compare_shadow of both; of V2 alone is its second half.
Request(t, todo) ==
    /\ pc[t] = "idle" /\ requests < MaxRequests
    /\ requests' = requests + 1
    /\ local' = [local EXCEPT ![t] = [NoRequest EXCEPT !.todo = todo, !.since = store]]
    /\ Goto(t, "scan")
    /\ UNCHANGED <<store, table, formulas, snapshots, cache, alone, born, exclusions, restarts>>

\* list_observations after the last position seen, in order, at most PageSize of them.
PageOf(t) ==
    {r \in store : /\ r.at > local[t].after
                   /\ Cardinality({x \in store : x.at > local[t].after /\ x.at <= r.at}) <= PageSize}

\* Mutant: the first page is the cohort.
ScanFirstPage(t) ==
    /\ pc[t] = "scan"
    /\ local' = [local EXCEPT ![t].seen = PageOf(t)]
    /\ Goto(t, "compute")
    /\ UNCHANGED <<store, table, formulas, snapshots, cache, alone, bounded>>

\* scan_all_life_observations: a page that is not full is the last.
ScanPage(t) ==
    LET page == PageOf(t) IN
    /\ pc[t] = "scan"
    /\ local' = [local EXCEPT ![t].seen = local[t].seen \cup page,
                              ![t].after = IF page = {} THEN local[t].after ELSE Max({r.at : r \in page})]
    /\ Goto(t, IF Cardinality(page) < PageSize THEN "compute" ELSE "scan")
    /\ UNCHANGED <<store, table, formulas, snapshots, cache, alone, bounded>>

\* list_exclusions finds the cache loaded, or as the load it waited for has left it, for
\* extract_checkin_days and extract_day_records; _ensure_formula_rows then reads which rows
\* there are.  What others do in between touches only one of the two.
Compute(t) ==
    /\ pc[t] = "compute" /\ cache[Home[t]].state # "unloaded"
    /\ local' = [local EXCEPT ![t].excluded = Bootstrap \cup cache[Home[t]].ids,
                              ![t].missing = Formula \ formulas, ![t].since = {}, ![t].after = 0]
    /\ Goto(t, "store")
    /\ UNCHANGED <<store, table, formulas, snapshots, cache, alone, bounded>>

\* What a snapshot of V1 says.
ResultV1(view) ==
    LET rows == Effective(view.seen, view.excluded) IN
    Wellbeing(Newest(rows), Report(rows), Width)

\* One commit of the formula rows and the snapshot; a formula row that is there by now
\* refuses all of it, and the request fails.
StoreSnapshot(t) ==
    LET view == local[t]
        f == view.todo[1]
        conflict == view.missing \cap formulas # {}
        more == ~conflict /\ Len(view.todo) > 1 IN
    /\ pc[t] = "store"
    /\ formulas' = IF conflict THEN formulas ELSE formulas \cup view.missing
    /\ snapshots' = IF conflict THEN snapshots
                    ELSE snapshots \cup {[formula |-> f, result |-> IF f = "V1" THEN ResultV1(view) ELSE NoResult]}
    /\ local' = [local EXCEPT ![t] = IF more THEN [NoRequest EXCEPT !.todo = Tail(view.todo), !.since = store]
                                     ELSE NoRequest]
    /\ Goto(t, IF more THEN "scan" ELSE "idle")
    /\ UNCHANGED <<store, table, cache, alone, bounded>>

-----------------------------------------------------------------------------
\* Other threads of the same process, and those between a read of the table and the end of
\* what they do with it.
Mates(t) == {u \in Thread \ {t} : Home[u] = Home[t]}
InRegistry == {u \in Thread : pc[u] \in {"overwrite", "excluding"}}

\* The table is read; what has been read is put into the cache later.
ReadTable(t, c, next) ==
    /\ local' = [local EXCEPT ![t].loaded = c, ![t].next = next]
    /\ Goto(t, "overwrite")
    /\ alone' = (alone \ (Mates(t) \cup {t})) \cup (IF Mates(t) \cap InRegistry = {} THEN {t} ELSE {})
    /\ UNCHANGED <<store, table, formulas, snapshots, cache, bounded>>

\* list_exclusions finds that nothing has been loaded yet.
MissCache(t) ==
    /\ pc[t] \in {"compute", "exclude"} /\ cache[Home[t]].state = "unloaded"
    /\ local' = [local EXCEPT ![t].next = pc[t]]
    /\ Goto(t, "load")
    /\ UNCHANGED <<store, table, formulas, snapshots, cache, alone, bounded>>

\* refresh_db_exclusion_cache over a connection of its own; a failure counts as no rows.
LoadRegistry(t) == pc[t] = "load" /\ \E c \in {Loaded(table), Failed} : ReadTable(t, c, local[t].next)

\* Mutant: the refresh reads what is committed.
VisibleCommitted(id) == table

\* What a session reads of the table once it has flushed a row of its own.
Visible(id) == table \cup {id}

\* refresh_db_exclusion_cache in the session that has flushed; if it fails so does the transaction.
RefreshRegistry(t) ==
    /\ pc[t] = "refresh"
    /\ ReadTable(t, Loaded(Visible(local[t].target)), "excluding") \/ ReadTable(t, Failed, "idle")

\* The cache is overwritten, whatever has become of it since the read.
OverwriteCache(t) ==
    /\ pc[t] = "overwrite"
    /\ cache' = [cache EXCEPT ![Home[t]] = local[t].loaded]
    /\ local' = [local EXCEPT ![t] = IF local[t].next = "idle" THEN NoRequest
                                     ELSE [local[t] EXCEPT !.loaded = Unloaded, !.next = "idle"]]
    /\ Goto(t, local[t].next)
    /\ alone' = IF local[t].next = "excluding" THEN alone ELSE alone \ {t}
    /\ UNCHANGED <<store, table, formulas, snapshots, bounded>>

\* append_exclusion in a session begins, and asks what is excluded already.
AppendExclusion(t, id) ==
    /\ pc[t] = "idle" /\ exclusions < MaxExclusions
    /\ exclusions' = exclusions + 1
    /\ local' = [local EXCEPT ![t].target = id]
    /\ Goto(t, "exclude")
    /\ UNCHANGED <<store, table, formulas, snapshots, cache, alone, born, requests, restarts>>

Flushed(u) ==
    \/ pc[u] \in {"refresh", "excluding"}
    \/ pc[u] = "overwrite" /\ local[u].next \in {"excluding", "idle"}

\* An exclusion that is known is not appended, and one that another process has committed is
\* refused by the table; for one that is flushed elsewhere the flush waits.
FlushExclusion(t) ==
    LET id == local[t].target
        refused == id \in Bootstrap \cup cache[Home[t]].ids \cup table IN
    /\ pc[t] = "exclude" /\ cache[Home[t]].state # "unloaded"
    /\ refused \/ \A u \in Thread : Flushed(u) => local[u].target # id
    /\ local' = IF refused THEN [local EXCEPT ![t] = NoRequest] ELSE local
    /\ Goto(t, IF refused THEN "idle" ELSE "refresh")
    /\ UNCHANGED <<store, table, formulas, snapshots, cache, alone, bounded>>

\* The caller commits or rolls back; the cache stays as it is.
EndExclusion(t) ==
    /\ pc[t] = "excluding"
    /\ table' \in {table, table \cup {local[t].target}}
    /\ local' = [local EXCEPT ![t] = NoRequest]
    /\ Goto(t, "idle")
    /\ alone' = alone \ {t}
    /\ UNCHANGED <<store, formulas, snapshots, cache, bounded>>

\* A process dies, with all its threads, and starts anew.
Restart(p) ==
    LET Dead == {t \in Thread : Home[t] = p} IN
    /\ cache[p] # Unloaded /\ restarts < MaxRestarts
    /\ restarts' = restarts + 1
    /\ cache' = [cache EXCEPT ![p] = Unloaded]
    /\ local' = [t \in Thread |-> IF t \in Dead THEN NoRequest ELSE local[t]]
    /\ pc' = [t \in Thread |-> IF t \in Dead THEN "idle" ELSE pc[t]]
    /\ alone' = alone \ Dead
    /\ born' = [born EXCEPT ![p] = table]
    /\ UNCHANGED <<store, table, formulas, snapshots, requests, exclusions>>

WellbeingNext ==
    \/ \E x \in Catalogue : Accept(x)
    \/ \E t \in Thread :
           \/ \E todo \in {<<"V1">>, <<"V1", "V2">>} : Request(t, todo)
           \/ ScanPage(t) \/ Compute(t) \/ StoreSnapshot(t)
           \/ MissCache(t) \/ LoadRegistry(t) \/ RefreshRegistry(t) \/ OverwriteCache(t)
           \/ \E id \in Excludable : AppendExclusion(t, id)
           \/ FlushExclusion(t) \/ EndExclusion(t)
    \/ \E p \in Process : Restart(p)

WellbeingSpec == WellbeingInit /\ [][WellbeingNext]_wellbeingVars

-----------------------------------------------------------------------------
\* Every variable has its type, and the formula row of a stored snapshot exists.
WellbeingTypeOK ==
    /\ store \subseteq Row /\ \A r \in store : [r EXCEPT !.at = 0] \in Catalogue
    /\ {r.at : r \in store} = 1..Cardinality(store)
    /\ table \subseteq Excludable
    /\ formulas \subseteq Formula /\ {s.formula : s \in snapshots} \subseteq formulas
    /\ cache \in [Process -> Cache]
    /\ pc \in [Thread -> Control]
    /\ local \in [Thread -> View] /\ alone \subseteq Thread
    /\ born \in [Process -> SUBSET Excludable]
    /\ requests \in Nat /\ exclusions \in Nat /\ restarts \in Nat

\* A scan that is over has seen the observations up to some position, and all there were
\* when it began: a page is never the whole cohort (observation_scan).
ScanIsPrefix ==
    \A t \in Thread : pc[t] = "compute" =>
        /\ local[t].since \subseteq local[t].seen
        /\ \A r \in local[t].seen, x \in store : x.at <= r.at => x \in local[t].seen

\* The rows that stand for the days of a person.
Days(rows) == Newest(Effective(rows, Bootstrap))

\* An accepted check-in takes the place of what its day said before, if it may feed the
\* scores at all; one that may not (a test, someone else's) changes no day (extract_checkin_days).
EditsSupersede ==
    [][\A r \in store' \ store :
          Days(store') = IF r \in DayRows(Effective(store', Bootstrap))
                         THEN {x \in Days(store) : x.day # r.day} \cup {r} ELSE Days(store)]_wellbeingVars

\* Evidence of an experiment, once eligible, is never replaced by what the same source says
\* later, and a contradiction is never forgotten (select_eligible_checkins).
EvidenceIsKept ==
    [][/\ Eligible(store) \subseteq Eligible(store')
       /\ CriticalFailure(store) => CriticalFailure(store')]_wellbeingVars

\* A process knows what one of its threads has excluded as soon as that is committed, unless
\* another of them was in the registry meanwhile; and whatever they do to the cache, once it
\* is loaded it knows what had been committed before the process started (append_exclusion,
\* refresh_db_exclusion_cache).
ExclusionsStay ==
    [][/\ \A t \in alone : pc[t] = "excluding" /\ pc'[t] = "idle" => table' \ table \subseteq cache'[Home[t]].ids
       /\ \A p \in Process : cache'[p].state = "loaded" => born'[p] \subseteq cache'[p].ids]_wellbeingVars

\* The same of every thread: two threads of a process lose what one of them has excluded.
ExclusionsStayAlways ==
    [][\A t \in Thread : pc[t] = "excluding" /\ pc'[t] = "idle" =>
          table' \ table \subseteq cache'[Home[t]].ids]_wellbeingVars

\* "only the newest selected observation feeds V1 features for that day": what a request is
\* about to store is what the newest rows alone come to (wellbeing_v1.py:174-176).
OnlyNewestCounts ==
    \A t \in Thread : pc[t] = "store" /\ local[t].todo[1] = "V1" =>
        LET days == Newest(Effective(local[t].seen, local[t].excluded)) IN
        ResultV1(local[t]) = Wellbeing(days, Report(days), Width)

=============================================================================
