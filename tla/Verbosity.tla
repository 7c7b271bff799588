----------------------------- MODULE Verbosity -----------------------------
(***************************************************************************)
(* Verbose logging (src/pkg/util/alog): alog.V(level) decides whether a    *)
(* call site logs, from -v, from the -vmodule level of its file and from   *)
(* the cache vmap of levels by call site.  Both settings may change while  *)
(* the process runs (logs.GlogSetter).  V reads verbosity and filterLength *)
(* with atomic loads outside the lock, so the stores of setVState show one *)
(* by one.                                                                 *)
(*                                                                         *)
(* The list of patterns of -vmodule is its meaning: the level of the first *)
(* pattern that matches a file, 0 where none does.  A site is its file.    *)
(***************************************************************************)
EXTENDS Integers, FiniteSets

CONSTANTS Sites,     \* call sites of V
          Loggers,   \* goroutines that call V
          Setters,   \* goroutines that change a setting
          MaxLevel,  \* largest level
          MaxSets    \* bound: changes of a run

Nobody == "nobody"

ASSUME VerbosityAssumption == MaxLevel \in Nat /\ MaxSets \in Nat /\ Nobody \notin Setters

VARIABLES
    verbosity,      \* logging.verbosity
    filterLength,   \* logging.filterLength > 0
    filter,         \* logging.vmodule.filter, as a level for every site
    vmap,           \* logging.vmap: cached levels, NotCached
    mu,             \* the holder of logging.mu, Nobody
    spc, next,      \* setters: where they are, [v, filter, setFilter]
    vpc, asked,     \* loggers: where they are, [site, level]
    answer,         \* what V returned
    setting, before,\* the setting last asked for, numbered, and the one it replaces
    seen,           \* logger |-> settings in force during its call
    sets            \* changes so far

vVars == <<verbosity, filterLength, filter, vmap, mu, spc, next, vpc, asked,
           answer, setting, before, seen, sets>>

Levels == 0 .. MaxLevel
NotCached == -1
Off == [s \in Sites |-> 0]
Unset == [v |-> 0, filter |-> Off, no |-> 0]
InForce == {setting, before}

VInit ==
    /\ verbosity = 0 /\ filterLength = FALSE /\ filter = Off
    /\ vmap = [s \in Sites |-> NotCached]
    /\ mu = Nobody
    /\ spc = [t \in Setters |-> "idle"]
    /\ next = [t \in Setters |-> [v |-> 0, filter |-> Off, setFilter |-> FALSE]]
    /\ vpc = [g \in Loggers |-> "idle"]
    /\ asked \in [Loggers -> {[site |-> CHOOSE s \in Sites : TRUE, level |-> 0]}]
    /\ answer = [g \in Loggers |-> FALSE]
    /\ setting = Unset /\ before = Unset
    /\ seen = [g \in Loggers |-> {}]
    /\ sets = 0

-----------------------------------------------------------------------------
(* Setters.  mu is held from the first step to the last.                   *)

\* The values setVState is called with: Level.Set keeps the filter,
\* moduleSpec.Set the verbosity.
LevelSet(v) == [v |-> v, filter |-> filter, setFilter |-> FALSE]
ModuleSet(f) == [v |-> verbosity, filter |-> f, setFilter |-> TRUE]

\* The lock is taken; from here on the new setting counts as well as the old.
StartSet(t, n) ==
    /\ spc[t] = "idle" /\ mu = Nobody /\ sets < MaxSets
    /\ mu' = t
    /\ next' = [next EXCEPT ![t] = n]
    /\ spc' = [spc EXCEPT ![t] = "level off"]
    /\ setting' = [v |-> n.v, filter |-> n.filter, no |-> sets + 1]
    /\ seen' = [g \in Loggers |-> IF vpc[g] \in {"verbosity", "filter", "vmap"}
                                  THEN seen[g] \cup {setting'} ELSE seen[g]]
    /\ sets' = sets + 1
    /\ UNCHANGED <<verbosity, filterLength, filter, vmap, vpc, asked, answer, before>>

LevelOff(t) ==
    /\ spc[t] = "level off"
    /\ verbosity' = 0
    /\ spc' = [spc EXCEPT ![t] = "filter off"]
    /\ UNCHANGED <<filterLength, filter, vmap, mu, next, vpc, asked, answer, setting,
                   before, seen, sets>>

FilterOff(t) ==
    /\ spc[t] = "filter off"
    /\ filterLength' = FALSE
    /\ spc' = [spc EXCEPT ![t] = "filter"]
    /\ UNCHANGED <<verbosity, filter, vmap, mu, next, vpc, asked, answer, setting,
                   before, seen, sets>>

\* The cache outlives the filters it was computed from.
SetFilterSlip(t) ==
    /\ spc[t] = "filter"
    /\ filter' = IF next[t].setFilter THEN next[t].filter ELSE filter
    /\ spc' = [spc EXCEPT ![t] = "filter on"]
    /\ UNCHANGED <<verbosity, filterLength, vmap, mu, next, vpc, asked, answer, setting,
                   before, seen, sets>>

\* New filters wipe the cache.
SetFilter(t) ==
    /\ spc[t] = "filter"
    /\ IF next[t].setFilter
       THEN filter' = next[t].filter /\ vmap' = [s \in Sites |-> NotCached]
       ELSE UNCHANGED <<filter, vmap>>
    /\ spc' = [spc EXCEPT ![t] = "filter on"]
    /\ UNCHANGED <<verbosity, filterLength, mu, next, vpc, asked, answer, setting,
                   before, seen, sets>>

FilterOn(t) ==
    /\ spc[t] = "filter on"
    /\ filterLength' = (next[t].filter # Off)
    /\ spc' = [spc EXCEPT ![t] = "level on"]
    /\ UNCHANGED <<verbosity, filter, vmap, mu, next, vpc, asked, answer, setting,
                   before, seen, sets>>

LevelOn(t) ==
    /\ spc[t] = "level on"
    /\ verbosity' = next[t].v
    /\ spc' = [spc EXCEPT ![t] = "idle"]
    /\ mu' = Nobody
    /\ before' = setting
    /\ UNCHANGED <<filterLength, filter, vmap, next, vpc, asked, answer, setting, seen, sets>>

setVState(t) == LevelOff(t) \/ FilterOff(t) \/ SetFilter(t) \/ FilterOn(t) \/ LevelOn(t)

-----------------------------------------------------------------------------
(* V. *)

CallV(g, s, l) ==
    /\ vpc[g] \in {"idle", "done"}
    /\ vpc' = [vpc EXCEPT ![g] = "verbosity"]
    /\ asked' = [asked EXCEPT ![g] = [site |-> s, level |-> l]]
    /\ seen' = [seen EXCEPT ![g] = InForce]
    /\ UNCHANGED <<verbosity, filterLength, filter, vmap, mu, spc, next, answer,
                   setting, before, sets>>

Return(g, a) ==
    /\ vpc' = [vpc EXCEPT ![g] = "done"]
    /\ answer' = [answer EXCEPT ![g] = a]

Goto(g, l) == vpc' = [vpc EXCEPT ![g] = l] /\ UNCHANGED answer

\* The first atomic load.
ReadVerbosity(g) ==
    /\ vpc[g] = "verbosity"
    /\ IF verbosity >= asked[g].level THEN Return(g, TRUE) ELSE Goto(g, "filter")
    /\ UNCHANGED <<verbosity, filterLength, filter, vmap, mu, spc, next, asked, setting,
                   before, seen, sets>>

\* The second one.
ReadFilterLength(g) ==
    /\ vpc[g] = "filter"
    /\ IF filterLength THEN Goto(g, "vmap") ELSE Return(g, FALSE)
    /\ UNCHANGED <<verbosity, filterLength, filter, vmap, mu, spc, next, asked, setting,
                   before, seen, sets>>

\* Under mu: the cached level, or setV computes and caches it.
ReadVmap(g) ==
    /\ vpc[g] = "vmap" /\ mu = Nobody
    /\ LET s == asked[g].site
           v == IF vmap[s] = NotCached THEN filter[s] ELSE vmap[s]
       IN /\ vmap' = [vmap EXCEPT ![s] = v]
          /\ Return(g, v >= asked[g].level)
    /\ UNCHANGED <<verbosity, filterLength, filter, mu, spc, next, asked, setting,
                   before, seen, sets>>

VNext ==
    \/ \E t \in Setters :
         \/ \E v \in Levels : StartSet(t, LevelSet(v))
         \/ \E f \in [Sites -> Levels] : StartSet(t, ModuleSet(f))
         \/ setVState(t)
    \/ \E g \in Loggers :
         \/ \E s \in Sites, l \in Levels : CallV(g, s, l)
         \/ ReadVerbosity(g) \/ ReadFilterLength(g) \/ ReadVmap(g)

VSpec == VInit /\ [][VNext]_vVars

-----------------------------------------------------------------------------
(* Property. *)

Enabled(c, a) == c.v >= a.level \/ c.filter[a.site] >= a.level

\* An answer of V is right for a setting of -v and -vmodule that was in force
\* during the call: TRUE only if one of them enables the site at that level, and
\* FALSE with a single setting only if it does not.  While a setting changes a
\* call may be answered FALSE (alog.go, "turn verbosity off so V will not fire
\* while we are in transition").
VAnswers ==
    \A g \in Loggers : vpc[g] = "done" =>
        IF answer[g] THEN \E c \in seen[g] : Enabled(c, asked[g])
        ELSE Cardinality(seen[g]) = 1 => \A c \in seen[g] : ~Enabled(c, asked[g])
=============================================================================
