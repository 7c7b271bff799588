--------------------------- MODULE Support_proofs ---------------------------
(***************************************************************************)
(* Proofs about the parts MCSupport checks in one run, verbose logging,    *)
(* authentication and the log, and about the syncer of the agent, each for *)
(* any number of goroutines, sites, managers, routes, messages, apps and   *)
(* connections.                                                            *)
(***************************************************************************)
EXTENDS Verbosity, Auth, Log, Syncer, FunctionTheorems, FiniteSetTheorems,
        SequenceTheorems, WellFoundedInduction, TLAPS

-----------------------------------------------------------------------------
(* Verbose logging.                                                        *)

Filters == [Sites -> Levels]
Settings == [v : Levels, filter : Filters, no : Nat]
NextSet == [v : Levels, filter : Filters, setFilter : BOOLEAN]
SetSteps == {"idle", "level off", "filter off", "filter", "filter on", "level on"}
Calling == {"verbosity", "filter", "vmap"}

VType ==
    /\ verbosity \in Levels /\ filterLength \in BOOLEAN
    /\ filter \in Filters
    /\ vmap \in [Sites -> Levels \cup {NotCached}]
    /\ mu \in Setters \cup {Nobody}
    /\ spc \in [Setters -> SetSteps]
    /\ next \in [Setters -> NextSet]
    /\ vpc \in [Loggers -> {"idle", "done"} \cup Calling]
    /\ answer \in [Loggers -> BOOLEAN]
    /\ setting \in Settings /\ before \in Settings
    /\ seen \in [Loggers -> SUBSET Settings]
    /\ sets \in Nat
    /\ DOMAIN asked = Loggers

\* The cache holds what the filters say.
CacheOK == \A s \in Sites : vmap[s] \in {NotCached, filter[s]}

\* Where the setter that holds mu is tells what the variables V reads hold.
SetterOK ==
    /\ setting.no =< sets /\ before.no =< sets
    /\ \A t \in Setters : spc[t] = "idle" <=> mu # t
    /\ mu = Nobody => /\ before = setting /\ verbosity = setting.v
                      /\ filter = setting.filter /\ filterLength = (filter # Off)
    /\ \A t \in Setters : mu = t =>
          /\ setting.no # before.no
          /\ next[t].v = setting.v /\ next[t].filter = setting.filter
          /\ ~next[t].setFilter => setting.filter = before.filter
          /\ verbosity = IF spc[t] = "level off" THEN before.v ELSE 0
          /\ filter = IF spc[t] \in {"filter on", "level on"}
                      THEN setting.filter ELSE before.filter
          /\ spc[t] = "level on" => filterLength = (setting.filter # Off)

\* What a call of V has found out so far.
CallOK(g) ==
    /\ vpc[g] \in Calling => InForce \subseteq seen[g]
    /\ vpc[g] # "idle" => /\ asked[g].site \in Sites /\ asked[g].level \in Levels
                          /\ IsFiniteSet(seen[g])
                          /\ \A c \in seen[g] : c.no =< sets
    /\ vpc[g] \in {"filter", "vmap"} =>
          \A c : seen[g] = {c} => c.v < asked[g].level
    /\ vpc[g] = "done" =>
          IF answer[g] THEN \E c \in seen[g] : Enabled(c, asked[g])
          ELSE \A c : seen[g] = {c} => ~Enabled(c, asked[g])

VInv == VType /\ CacheOK /\ SetterOK /\ \A g \in Loggers : CallOK(g)

\* Some setting in force has the level and filters V reads, if it reads any.
LEMMA ReadInForce ==
    ASSUME VInv
    PROVE  /\ verbosity = 0 \/ \E c \in InForce : verbosity = c.v
           /\ \E c \in InForce : filter = c.filter
           /\ InForce # {} /\ InForce \subseteq Settings
  <1>1. mu = Nobody \/ mu \in Setters
    BY DEF VInv, VType
  <1> QED BY <1>1 DEF VInv, VType, SetterOK, InForce

\* A call that saw one setting runs while no setter holds mu.
LEMMA SingleQuiet ==
    ASSUME VInv, NEW g \in Loggers, NEW c, seen[g] = {c}, vpc[g] \in Calling
    PROVE  /\ c = setting /\ verbosity = c.v /\ filter = c.filter
           /\ filterLength = (filter # Off)
  <1>1. before = c /\ setting = c
    BY DEF VInv, CallOK, InForce
  <1>2. mu = Nobody
    BY <1>1 DEF VInv, VType, SetterOK
  <1> QED BY <1>1, <1>2 DEF VInv, SetterOK

\* Zero is a level, and levels are natural numbers.
LEMMA LevelFacts == 0 \in Levels /\ Levels \subseteq Nat /\ Off \in Filters
  BY VerbosityAssumption DEF Levels, Off, Filters

\* What was numbered so far keeps its number below the next one.
LEMMA Numbered ==
    ASSUME NEW k \in Nat, NEW n \in Nat, k =< n
    PROVE  k =< n + 1 /\ k # n + 1 /\ n + 1 =< n + 1 /\ n + 1 \in Nat
  OBVIOUS

\* A setter takes mu, and calls in progress see the new setting.
LEMMA StartSetPreserves ==
    ASSUME VInv, NEW t \in Setters, NEW n \in NextSet, StartSet(t, n),
           ~n.setFilter => n.filter = filter
    PROVE  VInv'
  <1>1. PICK new : new = [v |-> n.v, filter |-> n.filter, no |-> sets + 1]
    OBVIOUS
  <1>2. /\ new.v = n.v /\ new.filter = n.filter /\ new.no = sets + 1 /\ new \in Settings
    BY <1>1 DEF VInv, VType, NextSet, Settings
  <1>3. /\ setting' = new /\ mu = Nobody /\ mu' = t /\ sets' = sets + 1
        /\ next' = [next EXCEPT ![t] = n]
        /\ spc' = [spc EXCEPT ![t] = "level off"]
        /\ seen' = [g \in Loggers |-> IF vpc[g] \in Calling THEN seen[g] \cup {new} ELSE seen[g]]
        /\ UNCHANGED <<verbosity, filterLength, filter, vmap, vpc, asked, answer, before>>
    BY <1>1 DEF StartSet, Calling
  <1>4. VType'
    <2>1. next' \in [Setters -> NextSet] /\ spc' \in [Setters -> SetSteps]
      BY <1>3 DEF VInv, VType, SetSteps
    <2>2. seen' \in [Loggers -> SUBSET Settings]
      BY <1>2, <1>3 DEF VInv, VType
    <2>3. sets' \in Nat
      <3>1. sets \in Nat
        BY DEF VInv, VType
      <3>2. sets' = sets + 1
        BY DEF StartSet
      <3> QED BY <3>1, <3>2
    <2> QED BY <1>2, <1>3, <2>1, <2>2, <2>3 DEF VInv, VType
  <1>5. CacheOK'
    BY <1>3 DEF VInv, CacheOK
  <1>6. SetterOK'
    <2>1. /\ before = setting /\ verbosity = setting.v /\ filter = setting.filter
          /\ setting.no =< sets /\ setting.no \in Nat /\ sets \in Nat
      BY <1>3 DEF VInv, VType, SetterOK, Settings
    <2>2. /\ setting'.no =< sets' /\ before'.no =< sets' /\ setting'.no # before'.no
      <3>1. setting'.no = sets + 1 /\ before'.no = setting.no /\ sets' = sets + 1
        BY <1>2, <1>3, <2>1
      <3> QED BY <2>1, <3>1, Numbered
    <2>3. \A x \in Setters : spc'[x] = "idle" <=> mu' # x
      BY <1>3, VerbosityAssumption DEF VInv, VType, SetterOK
    <2>4. next'[t] = n /\ spc'[t] = "level off"
      BY <1>3 DEF VInv, VType
    <2>5. mu' # Nobody
      BY <1>3, VerbosityAssumption
    <2> QED BY <1>2, <1>3, <2>1, <2>2, <2>3, <2>4, <2>5 DEF SetterOK
  <1>7. ASSUME NEW g \in Loggers PROVE CallOK(g)'
    <2>1. CallOK(g) /\ sets \in Nat /\ seen[g] \in SUBSET Settings
      BY DEF VInv, VType
    <2>2. CASE vpc[g] \in Calling
      <3>1. seen'[g] = seen[g] \cup {new}
        BY <1>3, <2>2
      <3>2. InForce' \subseteq seen'[g] /\ before \in seen[g]
        BY <1>3, <2>1, <2>2, <3>1 DEF CallOK, InForce
      <3>3. before.no =< sets /\ before.no \in Nat
        BY DEF VInv, SetterOK, VType, Settings
      <3>4. before # new
        BY <1>2, <2>1, <3>3
      <3>5. \A c : seen'[g] # {c}
        BY <3>1, <3>2, <3>4
      <3>6. IsFiniteSet(seen'[g])
        <4>1. IsFiniteSet(seen[g])
          BY <2>1, <2>2 DEF CallOK, Calling
        <4> QED BY <3>1, <4>1, FS_AddElement
      <3>7. \A c \in seen'[g] : c.no =< sets'
        <4>1. \A c \in seen[g] : c.no =< sets /\ c.no \in Nat
          BY <2>1, <2>2 DEF CallOK, Calling, Settings
        <4>2. \A c \in seen[g] : c.no =< sets + 1
          BY <2>1, <4>1, Numbered
        <4>3. new.no =< sets + 1
          BY <1>2, <2>1
        <4> QED BY <1>3, <3>1, <4>2, <4>3
      <3> QED BY <1>3, <2>1, <2>2, <3>2, <3>5, <3>6, <3>7 DEF CallOK, Calling
    <2>3. CASE vpc[g] \notin Calling
      <3>1. seen'[g] = seen[g]
        BY <1>3, <2>3
      <3>2. vpc[g] # "idle" => \A c \in seen'[g] : c.no =< sets'
        <4>1. vpc[g] # "idle" => \A c \in seen[g] : c.no =< sets /\ c.no \in Nat
          BY <2>1 DEF CallOK, Settings
        <4>2. vpc[g] # "idle" => \A c \in seen[g] : c.no =< sets + 1
          BY <2>1, <4>1, Numbered
        <4> QED BY <1>3, <3>1, <4>2
      <3> QED BY <1>3, <2>1, <2>3, <3>1, <3>2 DEF CallOK, Calling
    <2> QED BY <2>2, <2>3
  <1> QED BY <1>4, <1>5, <1>6, <1>7 DEF VInv

\* The stores of setVState, one by one.
LEMMA SetVStatePreserves ==
    ASSUME VInv, NEW t \in Setters, setVState(t)
    PROVE  VInv'
  <1>1. /\ mu = t /\ spc[t] # "idle" /\ \A x \in Setters : x # t => spc[x] = "idle"
    BY DEF VInv, SetterOK, setVState, LevelOff, FilterOff, SetFilter, FilterOn, LevelOn
  <1>2. UNCHANGED <<next, vpc, asked, answer, setting, seen, sets>>
    BY DEF setVState, LevelOff, FilterOff, SetFilter, FilterOn, LevelOn
  <1>3. next[t] \in NextSet
    BY DEF VInv, VType
  <1>4. PICK l \in SetSteps : spc' = [spc EXCEPT ![t] = l]
    BY DEF setVState, LevelOff, FilterOff, SetFilter, FilterOn, LevelOn, SetSteps
  <1>5. spc' \in [Setters -> SetSteps] /\ spc'[t] = l /\ \A x \in Setters : x # t => spc'[x] = "idle"
    BY <1>1, <1>4 DEF VInv, VType
  <1>6. /\ setting.no # before.no
        /\ next[t].v = setting.v /\ next[t].filter = setting.filter
        /\ ~next[t].setFilter => setting.filter = before.filter
        /\ verbosity = IF spc[t] = "level off" THEN before.v ELSE 0
        /\ filter = IF spc[t] \in {"filter on", "level on"}
                    THEN setting.filter ELSE before.filter
        /\ spc[t] = "level on" => filterLength = (setting.filter # Off)
        /\ setting.no =< sets /\ before.no =< sets
    BY <1>1 DEF VInv, SetterOK
  <1>7. ASSUME NEW g \in Loggers, InForce' \subseteq InForce PROVE CallOK(g)'
    BY <1>2, <1>7 DEF VInv, CallOK
  <1>8. CASE ~LevelOn(t)
    <2>1. UNCHANGED <<mu, before>> /\ l # "idle"
      BY <1>4, <1>5, <1>8 DEF setVState, LevelOff, FilterOff, SetFilter, FilterOn
    <2>2. /\ verbosity' \in Levels /\ filterLength' \in BOOLEAN /\ filter' \in Filters
          /\ vmap' \in [Sites -> Levels \cup {NotCached}]
      BY <1>3, <1>8, LevelFacts
         DEF VInv, VType, NextSet, setVState, LevelOff, FilterOff, SetFilter, FilterOn
    <2>3. VType'
      BY <1>2, <1>5, <2>1, <2>2 DEF VInv, VType
    <2>4. CacheOK'
      BY <1>8 DEF VInv, CacheOK, setVState, LevelOff, FilterOff, SetFilter, FilterOn
    <2>5. SetterOK'
      <3>1. \A x \in Setters : spc'[x] = "idle" <=> mu' # x
        BY <1>1, <1>5, <2>1
      <3>2. mu' = t /\ mu' # Nobody
        BY <1>1, <2>1, VerbosityAssumption
      <3>3. /\ verbosity' = IF l = "level off" THEN before.v ELSE 0
            /\ filter' = IF l \in {"filter on", "level on"}
                         THEN setting.filter ELSE before.filter
            /\ l = "level on" => filterLength' = (setting.filter # Off)
        <4>0. \A x : spc' = [spc EXCEPT ![t] = x] => l = x
          BY <1>5 DEF VInv, VType
        <4>1. CASE LevelOff(t)
          BY <1>6, <4>0, <4>1 DEF LevelOff
        <4>2. CASE FilterOff(t)
          BY <1>6, <4>0, <4>2 DEF FilterOff
        <4>3. CASE SetFilter(t)
          BY <1>6, <4>0, <4>3 DEF SetFilter
        <4>4. CASE FilterOn(t)
          BY <1>6, <4>0, <4>4 DEF FilterOn
        <4> QED BY <1>8, <4>1, <4>2, <4>3, <4>4 DEF setVState
      <3> QED BY <1>2, <1>5, <1>6, <2>1, <3>1, <3>2, <3>3 DEF SetterOK
    <2>6. InForce' = InForce
      BY <1>2, <2>1 DEF InForce
    <2> QED BY <1>7, <2>3, <2>4, <2>5, <2>6 DEF VInv
  <1>9. CASE LevelOn(t)
    <2>1. /\ verbosity' = next[t].v /\ mu' = Nobody /\ before' = setting /\ spc[t] = "level on"
          /\ UNCHANGED <<filterLength, filter, vmap>> /\ l = "idle"
      BY <1>5, <1>9 DEF LevelOn, VInv, VType
    <2>2. VType'
      BY <1>2, <1>3, <1>5, <2>1 DEF VInv, VType, NextSet
    <2>3. CacheOK'
      BY <2>1 DEF VInv, CacheOK
    <2>4. SetterOK'
      <3>1. \A x \in Setters : mu' # x /\ spc'[x] = "idle"
        BY <1>5, <2>1, VerbosityAssumption
      <3> QED BY <1>2, <1>6, <2>1, <3>1 DEF SetterOK
    <2>5. InForce' \subseteq InForce
      BY <1>2, <2>1 DEF InForce
    <2> QED BY <1>7, <2>2, <2>3, <2>4, <2>5 DEF VInv
  <1> QED BY <1>8, <1>9

\* A step of one logger leaves the setters and the other calls alone.
LEMMA LoggerPreserves ==
    ASSUME VInv, NEW g \in Loggers, VType', CacheOK', CallOK(g)',
           UNCHANGED <<verbosity, filterLength, filter, mu, spc, next, setting, before, sets>>,
           \A x \in Loggers \ {g} : /\ vpc'[x] = vpc[x] /\ asked'[x] = asked[x]
                                    /\ answer'[x] = answer[x] /\ seen'[x] = seen[x]
    PROVE  VInv'
  <1>1. SetterOK'
    BY DEF VInv, SetterOK
  <1>2. ASSUME NEW x \in Loggers \ {g} PROVE CallOK(x)'
    BY DEF VInv, CallOK, InForce
  <1> QED BY <1>1, <1>2 DEF VInv

\* A call begins with the settings in force.
LEMMA CallVPreserves ==
    ASSUME VInv, NEW g \in Loggers, NEW s \in Sites, NEW l \in Levels, CallV(g, s, l)
    PROVE  VInv'
  <1>1. /\ vpc' = [vpc EXCEPT ![g] = "verbosity"]
        /\ asked' = [asked EXCEPT ![g] = [site |-> s, level |-> l]]
        /\ seen' = [seen EXCEPT ![g] = InForce]
        /\ UNCHANGED <<verbosity, filterLength, filter, vmap, mu, spc, next, answer,
                       setting, before, sets>>
    BY DEF CallV
  <1>2. InForce \in SUBSET Settings
    BY DEF VInv, VType, InForce
  <1>3. VType'
    BY <1>1, <1>2 DEF VInv, VType, Calling
  <1>4. /\ vpc'[g] = "verbosity" /\ asked'[g].site = s /\ asked'[g].level = l
        /\ seen'[g] = {setting, before}
    BY <1>1 DEF VInv, VType, InForce
  <1>5. IsFiniteSet(seen'[g])
    <2>1. IsFiniteSet({before}) /\ {setting, before} = {before} \cup {setting}
      BY FS_Singleton
    <2>2. IsFiniteSet({before} \cup {setting})
      BY <2>1, FS_AddElement
    <2> QED BY <1>4, <2>1, <2>2
  <1>6. CallOK(g)'
    BY <1>1, <1>4, <1>5 DEF VInv, SetterOK, CallOK, InForce
  <1>7. CacheOK'
    BY <1>1 DEF VInv, CacheOK
  <1>8. \A x \in Loggers \ {g} : /\ vpc'[x] = vpc[x] /\ asked'[x] = asked[x]
                                 /\ answer'[x] = answer[x] /\ seen'[x] = seen[x]
    BY <1>1 DEF VInv, VType
  <1> QED BY <1>1, <1>3, <1>6, <1>7, <1>8, LoggerPreserves

\* What a step of V leaves to be shown: the answer it gives or the place it goes to.
LEMMA VPreserves ==
    ASSUME VInv, NEW g \in Loggers, NEW to \in {"filter", "vmap", "done"}, NEW a \in BOOLEAN,
           vpc[g] \in Calling,
           vpc' = [vpc EXCEPT ![g] = to], answer' = [answer EXCEPT ![g] = a],
           UNCHANGED <<verbosity, filterLength, filter, mu, spc, next, asked, setting,
                       before, seen, sets>>,
           vmap' \in [Sites -> Levels \cup {NotCached}], CacheOK',
           to # "done" => \A c : seen[g] = {c} => c.v < asked[g].level,
           to = "done" /\ a => \E c \in seen[g] : Enabled(c, asked[g]),
           to = "done" /\ ~a => \A c : seen[g] = {c} => ~Enabled(c, asked[g])
    PROVE  VInv'
  <1>1. VType'
    BY DEF VInv, VType, Calling
  <1>2. vpc'[g] = to /\ answer'[g] = a
    BY DEF VInv, VType
  <1>3. CallOK(g)
    BY DEF VInv
  <1>4. CallOK(g)'
    BY <1>2, <1>3 DEF CallOK, Calling, InForce
  <1>5. \A x \in Loggers \ {g} : /\ vpc'[x] = vpc[x] /\ asked'[x] = asked[x]
                                 /\ answer'[x] = answer[x] /\ seen'[x] = seen[x]
    BY DEF VInv, VType
  <1> QED BY <1>1, <1>4, <1>5, LoggerPreserves

\* In force during the call, and asked for.
LEMMA CallFacts ==
    ASSUME VInv, NEW g \in Loggers, vpc[g] \in Calling
    PROVE  /\ InForce \subseteq seen[g] /\ seen[g] \subseteq Settings
           /\ asked[g].site \in Sites /\ asked[g].level \in Levels
           /\ answer[g] \in BOOLEAN /\ answer = [answer EXCEPT ![g] = answer[g]]
  BY DEF VInv, VType, CallOK, Calling

\* The first load answers TRUE for a setting in force.
LEMMA ReadVerbosityPreserves ==
    ASSUME VInv, NEW g \in Loggers, ReadVerbosity(g)
    PROVE  VInv'
  <1>1. /\ vpc[g] \in Calling
        /\ UNCHANGED <<verbosity, filterLength, filter, vmap, mu, spc, next, asked, setting,
                       before, seen, sets>>
    BY DEF ReadVerbosity, Calling
  <1>2. vmap' \in [Sites -> Levels \cup {NotCached}] /\ CacheOK'
    BY <1>1 DEF VInv, VType, CacheOK
  <1>3. asked[g].level \in Nat /\ verbosity \in Nat /\ \A c \in seen[g] : c.v \in Nat
    BY <1>1, CallFacts, LevelFacts DEF VInv, VType, Settings
  <1>4. CASE verbosity >= asked[g].level
    <2>1. vpc' = [vpc EXCEPT ![g] = "done"] /\ answer' = [answer EXCEPT ![g] = TRUE]
      BY <1>4 DEF ReadVerbosity, Return
    <2>2. PICK c \in InForce : verbosity = 0 \/ verbosity = c.v
      BY ReadInForce
    <2>3. c \in seen[g] /\ c.v \in Nat
      BY <1>1, <1>3, CallFacts
    <2>4. c.v >= asked[g].level
      BY <1>3, <1>4, <2>2, <2>3
    <2>5. \E d \in seen[g] : Enabled(d, asked[g])
      BY <2>3, <2>4 DEF Enabled
    <2> QED BY <1>1, <1>2, <2>1, <2>5, VPreserves
  <1>5. CASE ~(verbosity >= asked[g].level)
    <2>1. vpc' = [vpc EXCEPT ![g] = "filter"] /\ answer' = [answer EXCEPT ![g] = answer[g]]
      BY <1>1, <1>5, CallFacts DEF ReadVerbosity, Goto
    <2>2. ASSUME NEW c, seen[g] = {c} PROVE c.v < asked[g].level
      <3>1. verbosity = c.v
        BY <1>1, <2>2, SingleQuiet
      <3> QED BY <1>3, <1>5, <3>1
    <2> QED BY <1>1, <1>2, <2>1, <2>2, CallFacts, VPreserves
  <1> QED BY <1>4, <1>5

\* The second load answers FALSE when no filter is set.
LEMMA ReadFilterLengthPreserves ==
    ASSUME VInv, NEW g \in Loggers, ReadFilterLength(g)
    PROVE  VInv'
  <1>1. /\ vpc[g] \in Calling /\ vpc[g] = "filter"
        /\ UNCHANGED <<verbosity, filterLength, filter, vmap, mu, spc, next, asked, setting,
                       before, seen, sets>>
    BY DEF ReadFilterLength, Calling
  <1>2. vmap' \in [Sites -> Levels \cup {NotCached}] /\ CacheOK'
    BY <1>1 DEF VInv, VType, CacheOK
  <1>3. \A c : seen[g] = {c} => c.v < asked[g].level
    BY <1>1 DEF VInv, CallOK
  <1>4. CASE filterLength
    <2>1. vpc' = [vpc EXCEPT ![g] = "vmap"] /\ answer' = [answer EXCEPT ![g] = answer[g]]
      BY <1>1, <1>4, CallFacts DEF ReadFilterLength, Goto
    <2> QED BY <1>1, <1>2, <1>3, <2>1, CallFacts, VPreserves
  <1>5. CASE ~filterLength
    <2>1. vpc' = [vpc EXCEPT ![g] = "done"] /\ answer' = [answer EXCEPT ![g] = FALSE]
      BY <1>5 DEF ReadFilterLength, Return
    <2>2. ASSUME NEW c, seen[g] = {c} PROVE ~Enabled(c, asked[g])
      <3>1. c.filter = Off
        BY <1>1, <1>5, <2>2, SingleQuiet
      <3>2. c.filter[asked[g].site] = 0
        BY <1>1, <3>1, CallFacts DEF Off
      <3>3. c.v \in Nat /\ asked[g].level \in Nat
        BY <1>1, <2>2, CallFacts, LevelFacts DEF Settings
      <3>4. c.v < asked[g].level
        BY <1>3, <2>2
      <3> QED BY <3>2, <3>3, <3>4 DEF Enabled
    <2> QED BY <1>1, <1>2, <2>1, <2>2, VPreserves
  <1> QED BY <1>4, <1>5

\* Under mu: the level of the file, cached or computed, is the one of a setting in force.
LEMMA ReadVmapPreserves ==
    ASSUME VInv, NEW g \in Loggers, ReadVmap(g)
    PROVE  VInv'
  <1>1. /\ vpc[g] \in Calling /\ vpc[g] = "vmap"
        /\ UNCHANGED <<verbosity, filterLength, filter, mu, spc, next, asked, setting,
                       before, seen, sets>>
    BY DEF ReadVmap, Calling
  <1>2. PICK s \in Sites : s = asked[g].site
    BY <1>1, CallFacts
  <1>3. filter[s] \in Levels /\ vmap[s] \in {NotCached, filter[s]}
    BY DEF VInv, VType, CacheOK, Filters
  <1>4. /\ vmap' = [vmap EXCEPT ![s] = filter[s]]
        /\ Return(g, filter[s] >= asked[g].level)
    BY <1>2, <1>3 DEF ReadVmap, Return
  <1>5. vmap' \in [Sites -> Levels \cup {NotCached}] /\ CacheOK'
    BY <1>1, <1>3, <1>4 DEF VInv, VType, CacheOK
  <1>6. asked[g].level \in Nat /\ filter[s] \in Nat
    BY <1>1, <1>3, CallFacts, LevelFacts
  <1>7. CASE filter[s] >= asked[g].level
    <2>1. vpc' = [vpc EXCEPT ![g] = "done"] /\ answer' = [answer EXCEPT ![g] = TRUE]
      BY <1>4, <1>7 DEF Return
    <2>2. PICK c \in InForce : filter = c.filter
      BY ReadInForce
    <2>3. c \in seen[g] /\ Enabled(c, asked[g])
      BY <1>1, <1>2, <1>7, <2>2, CallFacts DEF Enabled
    <2> QED BY <1>1, <1>5, <2>1, <2>3, VPreserves
  <1>8. CASE ~(filter[s] >= asked[g].level)
    <2>1. vpc' = [vpc EXCEPT ![g] = "done"] /\ answer' = [answer EXCEPT ![g] = FALSE]
      <3>1. (filter[s] >= asked[g].level) = FALSE
        BY <1>6, <1>8
      <3> QED BY <1>4, <3>1 DEF Return
    <2>2. ASSUME NEW c, seen[g] = {c} PROVE ~Enabled(c, asked[g])
      <3>1. filter = c.filter
        BY <1>1, <2>2, SingleQuiet
      <3>2. c.v < asked[g].level /\ c.v \in Nat
        <4>1. CallOK(g) /\ c \in Settings
          BY <1>1, <2>2, CallFacts DEF VInv
        <4> QED BY <1>1, <2>2, <4>1, LevelFacts DEF CallOK, Settings
      <3>3. ~(c.v >= asked[g].level)
        BY <1>6, <3>2
      <3> QED BY <1>2, <1>8, <3>1, <3>3 DEF Enabled
    <2> QED BY <1>1, <1>5, <2>1, <2>2, VPreserves
  <1> QED BY <1>7, <1>8

\* Before the first setting.
LEMMA VInitInv ==
    ASSUME VInit
    PROVE  VInv
  <1>1. Unset \in Settings /\ Unset.v = 0 /\ Unset.filter = Off /\ Unset.no = 0
    BY LevelFacts DEF Unset, Settings
  <1>2. spc \in [Setters -> SetSteps] /\ next \in [Setters -> NextSet]
    BY LevelFacts DEF VInit, SetSteps, NextSet
  <1>3. VType
    BY <1>1, <1>2, LevelFacts DEF VInit, VType
  <1>4. SetterOK
    <2>1. /\ setting = Unset /\ before = Unset /\ sets = 0 /\ mu = Nobody /\ verbosity = 0
          /\ filter = Off /\ ~filterLength /\ filterLength \in BOOLEAN
          /\ \A t \in Setters : spc[t] = "idle" /\ mu # t
      BY VerbosityAssumption DEF VInit
    <2>2. filterLength = (filter # Off)
      BY <2>1
    <2> QED BY <1>1, <2>1, <2>2 DEF SetterOK
  <1>5. CacheOK /\ \A g \in Loggers : CallOK(g)
    BY DEF VInit, CacheOK, CallOK, Calling
  <1> QED BY <1>3, <1>4, <1>5 DEF VInv

\* The invariant of verbose logging, kept by every load and store.
THEOREM VerbosityInvariant == VSpec => []VInv
  <1>1. VInit => VInv
    BY VInitInv
  <1>2. VInv /\ [VNext]_vVars => VInv'
    <2> SUFFICES ASSUME VInv, [VNext]_vVars PROVE VInv'
      OBVIOUS
    <2>1. ASSUME NEW t \in Setters, NEW v \in Levels, StartSet(t, LevelSet(v)) PROVE VInv'
      <3>1. LevelSet(v) \in NextSet /\ LevelSet(v).filter = filter
        BY DEF LevelSet, NextSet, VInv, VType
      <3> QED BY <2>1, <3>1, StartSetPreserves
    <2>2. ASSUME NEW t \in Setters, NEW f \in [Sites -> Levels], StartSet(t, ModuleSet(f))
          PROVE  VInv'
      <3>1. ModuleSet(f) \in NextSet /\ ModuleSet(f).setFilter
        BY DEF ModuleSet, NextSet, VInv, VType, Filters
      <3> QED BY <2>2, <3>1, StartSetPreserves
    <2>3. CASE UNCHANGED vVars
      BY <2>3 DEF vVars, VInv, VType, CacheOK, SetterOK, CallOK, InForce
    <2> QED BY <2>1, <2>2, <2>3, SetVStatePreserves, CallVPreserves, ReadVerbosityPreserves,
               ReadFilterLengthPreserves, ReadVmapPreserves DEF VNext
  <1> QED BY <1>1, <1>2, PTL DEF VSpec

\* alog.V answers for a setting of -v and -vmodule that was in force during the call, however
\* its loads interleave with the stores of any number of setters (alog.go, V, setVState).
THEOREM VAnswersHolds == VSpec => []VAnswers
  <1>1. VInv => VAnswers
    <2> SUFFICES ASSUME VInv, NEW g \in Loggers, vpc[g] = "done"
                 PROVE  IF answer[g] THEN \E c \in seen[g] : Enabled(c, asked[g])
                        ELSE Cardinality(seen[g]) = 1 =>
                               \A c \in seen[g] : ~Enabled(c, asked[g])
      BY DEF VAnswers
    <2>1. CallOK(g)
      BY DEF VInv
    <2>2. ASSUME ~answer[g], Cardinality(seen[g]) = 1, NEW c \in seen[g]
          PROVE  ~Enabled(c, asked[g])
      <3>1. PICK d : seen[g] = {d}
        BY <2>1, <2>2, FS_Singleton DEF CallOK
      <3> QED BY <2>1, <2>2, <3>1 DEF CallOK
    <2> QED BY <2>1, <2>2 DEF CallOK
  <1> QED BY <1>1, VerbosityInvariant, PTL
-----------------------------------------------------------------------------
(* Authentication.                                                         *)

\* The role with this id has a resource for every route of role n.
Served(id, n) ==
    \A r \in RoutesOf(n) : \E res \in resources :
        /\ res.name = buildResources(r) /\ res.data = AnyData
        /\ <<id, res.id>> \in relations

\* The same, once the resources ids are related to the role.
Covered(id, n, ids) ==
    \A r \in RoutesOf(n) : \E res \in resources :
        /\ res.name = buildResources(r) /\ res.data = AnyData
        /\ <<id, res.id>> \in relations \/ res.id \in ids

\* What an upload has fetched is still there: rows are never removed.
RowsOK ==
    /\ IsFiniteSet(resources) /\ \A res \in resources : res.id \in Nat
    /\ got \in [Managers -> [roles : SUBSET roles, relations : SUBSET relations,
                             resources : SUBSET resources]]

UploadType ==
    /\ upc \in [Managers -> {"down", "resources", "roles", "upload", "relate"}]
    /\ left \in [Managers -> SUBSET RoleNames]
    /\ DOMAIN roleIDs = Managers /\ DOMAIN role = Managers /\ DOMAIN resIds = Managers

\* The roles an upload is done with are served.
UploadOK(m) ==
    /\ upc[m] \in {"resources", "roles"} => \A n \in RoleNames \ left[m] : RoutesOf(n) = {}
    /\ upc[m] \in {"upload", "relate"} => \A n \in RoleNames \ left[m] : Served(roleIDs[m][n], n)
    /\ upc[m] = "relate" =>
          role[m] \in left[m] /\ Covered(roleIDs[m][role[m]], role[m], resIds[m])

AuthInv ==
    /\ RowsOK /\ UploadType
    /\ \A m \in Managers : UploadOK(m)
    /\ \A f \in filled : Served(f.id, f.name)

\* The first of some rows is one of them.
LEMMA FirstIn ==
    ASSUME NEW rows, rows # {}, \A r \in rows : r.id \in Nat
    PROVE  First(rows) \in rows
  <1> DEFINE R == {ss \in Nat \X Nat : ss[1] < ss[2]}
  <1>1. IsWellFoundedOn(R, Nat)
    BY NatLessThanWellFounded DEF OpToRel
  <1> HIDE DEF R
  <1>2. PICK S \in SUBSET Nat : S = {r.id : r \in rows}
    OBVIOUS
  <1>3. S # {}
    BY <1>2
  <1>4. PICK x \in S : \A y \in S : ~(<<y, x>> \in R)
    BY <1>1, <1>3, WFMin
  <1>5. ASSUME NEW y \in S PROVE x =< y
    <2>1. y < x => <<y, x>> \in R
      BY DEF R
    <2> QED BY <1>4, <2>1
  <1>6. \E r \in rows : \A q \in rows : r.id =< q.id
    BY <1>2, <1>5
  <1> QED BY <1>6 DEF First

\* The names of finitely many routes are numbered, and make finitely many rows.
LEMMA NewResourcesRows ==
    ASSUME NEW rs \in SUBSET Routes, IsFiniteSet(resources)
    PROVE  /\ IsFiniteSet(NewResources(rs))
           /\ \A row \in NewResources(rs) : row.id \in Nat
           /\ \A r \in rs : \E row \in NewResources(rs) :
                row.name = buildResources(r) /\ row.data = AnyData
  <1> DEFINE names == {buildResources(r) : r \in rs}
             number == CHOOSE f \in [names -> 1 .. Cardinality(names)] :
                         \A a, b \in names : a # b => f[a] # f[b]
  <1>1. NewResources(rs) = {[id |-> Cardinality(resources) + number[n], name |-> n,
                             data |-> AnyData] : n \in names}
    BY DEF NewResources
  <1>2. IsFiniteSet(names)
    <2>1. IsFiniteSet(rs)
      BY AuthAssumption, FS_Subset
    <2>2. [r \in rs |-> buildResources(r)] \in Surjection(rs, names)
      BY DEF Surjection
    <2> QED BY <2>1, <2>2, FS_Surjection
  <1>3. \E f \in [names -> 1 .. Cardinality(names)] : \A a, b \in names : a # b => f[a] # f[b]
    <2>1. ExistsBijection(names, 1 .. Cardinality(names))
      BY <1>2, FS_CardinalityType, Fun_ExistsBijSymmetric
    <2> HIDE DEF names
    <2>2. PICK f \in [names -> 1 .. Cardinality(names)] : \A a, b \in names : f[a] = f[b] => a = b
      BY <2>1 DEF ExistsBijection, Bijection, Injection, IsInjective
    <2> QED BY <2>2
  <1>4. number \in [names -> 1 .. Cardinality(names)]
    BY <1>3
  <1>5. \A r \in rs : buildResources(r) \in names
    OBVIOUS
  <1> HIDE DEF names, number
  <1>6. \A n \in names : Cardinality(resources) + number[n] \in Nat
    <2>1. Cardinality(resources) \in Nat /\ Cardinality(names) \in Nat
      BY <1>2, FS_CardinalityType
    <2>2. \A n \in names : number[n] \in 1 .. Cardinality(names)
      BY <1>4
    <2>3. \A n \in names : number[n] \in Nat
      BY <2>1, <2>2
    <2> QED BY <2>1, <2>3
  <1>7. IsFiniteSet(NewResources(rs))
    <2>1. PICK row : row = [n \in names |-> [id |-> Cardinality(resources) + number[n],
                                             name |-> n, data |-> AnyData]]
      OBVIOUS
    <2>2. row \in Surjection(names, NewResources(rs))
      BY <1>1, <2>1 DEF Surjection
    <2> QED BY <1>2, <2>2, FS_Surjection
  <1>8. \A row \in NewResources(rs) : row.id \in Nat
    BY <1>1, <1>6
  <1>9. ASSUME NEW r \in rs
        PROVE  \E row \in NewResources(rs) : row.name = buildResources(r) /\ row.data = AnyData
    <2>1. PICK n \in names : n = buildResources(r)
      BY <1>5
    <2>2. PICK row : row = [id |-> Cardinality(resources) + number[n], name |-> n,
                            data |-> AnyData]
      OBVIOUS
    <2>3. row \in NewResources(rs)
      BY <1>1, <2>2
    <2>4. row.name = n /\ row.data = AnyData
      BY <2>2
    <2> QED BY <2>1, <2>3, <2>4
  <1> QED BY <1>7, <1>8, <1>9

\* Nothing that was served or covered stops to be when rows are added.
LEMMA ServedStays ==
    ASSUME resources \subseteq resources', relations \subseteq relations'
    PROVE  /\ \A id, n : Served(id, n) => Served(id, n)'
           /\ \A id, n, ids : Covered(id, n, ids) => Covered(id, n, ids)'
  BY DEF Served, Covered, RoutesOf, buildResources, addResource

\* A step of one manager or of the administrator leaves the uploads of the others alone.
LEMMA OthersStay ==
    ASSUME AuthInv, NEW m, RowsOK', UploadType',
           resources \subseteq resources', relations \subseteq relations',
           \A x \in Managers \ {m} : /\ upc'[x] = upc[x] /\ left'[x] = left[x]
                                     /\ roleIDs'[x] = roleIDs[x] /\ role'[x] = role[x]
                                     /\ resIds'[x] = resIds[x],
           m \in Managers => UploadOK(m)',
           \A f \in filled' \ filled : Served(f.id, f.name)'
    PROVE  AuthInv'
  <1>1. ASSUME NEW x \in Managers \ {m} PROVE UploadOK(x)'
    <2>1. UploadOK(x)
      BY DEF AuthInv
    <2>2. RoutesOf(0)' = RoutesOf(0) /\ \A n : RoutesOf(n)' = RoutesOf(n)
      BY DEF RoutesOf, addResource
    <2> QED BY <2>1, <2>2, ServedStays DEF UploadOK
  <1>2. \A f \in filled' : Served(f.id, f.name)'
    BY ServedStays DEF AuthInv
  <1> QED BY <1>1, <1>2 DEF AuthInv

\* An upload that returns leaves nothing open.
LEMMA ReturnedOK ==
    ASSUME AuthInv, NEW m \in Managers, Returned(m),
           resources \subseteq resources', relations \subseteq relations',
           roles \subseteq roles', IsFiniteSet(resources'), \A res \in resources' : res.id \in Nat
    PROVE  /\ RowsOK' /\ UploadType' /\ UploadOK(m)'
           /\ \A x \in Managers \ {m} : /\ upc'[x] = upc[x] /\ left'[x] = left[x]
                                        /\ roleIDs'[x] = roleIDs[x] /\ role'[x] = role[x]
                                        /\ resIds'[x] = resIds[x]
  <1>1. Nothing0 \in [roles : SUBSET roles', relations : SUBSET relations',
                      resources : SUBSET resources']
    BY DEF Nothing0
  <1>2. \A x \in Managers : got[x] \in [roles : SUBSET roles', relations : SUBSET relations',
                                        resources : SUBSET resources']
    BY DEF AuthInv, RowsOK
  <1>3. RowsOK'
    BY <1>1, <1>2 DEF AuthInv, RowsOK, Returned
  <1>4. UploadType'
    BY DEF AuthInv, UploadType, Returned
  <1>5. upc'[m] = "down"
    BY DEF AuthInv, UploadType, Returned
  <1>6. UploadOK(m)'
    BY <1>5 DEF UploadOK
  <1> QED BY <1>3, <1>4, <1>6 DEF AuthInv, UploadType, Returned

\* A failed call keeps the invariant whatever rows it left behind.
LEMMA FailsPreserves ==
    ASSUME AuthInv, NEW m \in Managers, Fails(m), UNCHANGED filled,
           resources \subseteq resources', relations \subseteq relations',
           roles \subseteq roles', IsFiniteSet(resources'), \A res \in resources' : res.id \in Nat
    PROVE  AuthInv'
  <1>1. Returned(m)
    BY DEF Fails
  <1> QED BY <1>1, ReturnedOK, OthersStay

\* A manager starts, or reads the resources.
LEMMA FetchPreserves ==
    ASSUME AuthInv, NEW m \in Managers, GetAllRole(m) \/ GetAllResources(m)
    PROVE  AuthInv'
  <1>1. UNCHANGED <<roles, resources, relations, filled>>
    BY DEF GetAllRole, GetAllResources, serviceVars
  <1>2. IsFiniteSet(resources') /\ \A res \in resources' : res.id \in Nat
    BY <1>1 DEF AuthInv, RowsOK
  <1>3. CASE Fails(m)
    BY <1>1, <1>2, <1>3, FailsPreserves
  <1>4. PICK G : G = [roles : SUBSET roles, relations : SUBSET relations,
                      resources : SUBSET resources]
    OBVIOUS
  <1>5. got \in [Managers -> G]
    BY <1>4 DEF AuthInv, RowsOK
  <1>6. CASE GetAllRole(m) /\ ~Fails(m)
    <2>1. /\ got' = [got EXCEPT ![m] = AllRoles]
          /\ left' = [left EXCEPT ![m] = {n \in RoleNames : RoutesOf(n) # {}}]
          /\ upc' = [upc EXCEPT ![m] = "resources"]
          /\ UNCHANGED <<roleIDs, role, resIds>>
      BY <1>6 DEF GetAllRole, At
    <2>2. AllRoles \in G
      BY <1>4 DEF AllRoles
    <2>3. RowsOK'
      BY <1>1, <1>2, <1>4, <1>5, <2>1, <2>2 DEF RowsOK
    <2>4. UploadType'
      BY <2>1 DEF AuthInv, UploadType
    <2>5. upc'[m] = "resources" /\ left'[m] = {n \in RoleNames : RoutesOf(n) # {}}
      BY <2>1 DEF AuthInv, UploadType
    <2>6. UploadOK(m)'
      BY <2>5 DEF UploadOK, RoutesOf, addResource
    <2> QED BY <1>1, <2>1, <2>3, <2>4, <2>6, OthersStay DEF AuthInv, UploadType
  <1>7. CASE GetAllResources(m) /\ ~Fails(m)
    <2>1. /\ upc[m] = "resources"
          /\ got' = [got EXCEPT ![m].resources = resources]
          /\ upc' = [upc EXCEPT ![m] = "roles"]
          /\ UNCHANGED <<roleIDs, left, role, resIds>>
      BY <1>7 DEF GetAllResources, At
    <2>2. [got[m] EXCEPT !.resources = resources] \in G
      BY <1>4, <1>5
    <2>3. got' = [got EXCEPT ![m] = [got[m] EXCEPT !.resources = resources]]
      BY <1>5, <2>1
    <2>4. RowsOK'
      BY <1>1, <1>2, <1>4, <1>5, <2>2, <2>3 DEF RowsOK
    <2>5. UploadType'
      BY <2>1 DEF AuthInv, UploadType
    <2>6. upc'[m] = "roles" /\ left'[m] = left[m] /\ UploadOK(m)
      BY <2>1 DEF AuthInv, UploadType
    <2>7. UploadOK(m)'
      BY <2>1, <2>6 DEF UploadOK, RoutesOf, addResource
    <2> QED BY <1>1, <2>1, <2>4, <2>5, <2>7, OthersStay DEF AuthInv, UploadType
  <1> QED BY <1>3, <1>6, <1>7

\* The next role gets its id.
LEMMA AddRolePreserves ==
    ASSUME AuthInv, NEW m \in Managers, AddRole(m)
    PROVE  AuthInv'
  <1>1. UNCHANGED <<resources, relations, filled>> /\ upc[m] = "roles"
    BY DEF AddRole
  <1>2. IsFiniteSet(resources') /\ \A res \in resources' : res.id \in Nat
    BY <1>1 DEF AuthInv, RowsOK
  <1>3. roles \subseteq roles'
    BY DEF AddRole
  <1>4. CASE Fails(m)
    BY <1>1, <1>2, <1>3, <1>4, FailsPreserves
  <1>5. CASE ~Fails(m)
    <2>1. PICK l \in {"upload", "roles"} :
            /\ \E n, id : roleIDs' = [roleIDs EXCEPT ![m][n] = id]
            /\ upc' = [upc EXCEPT ![m] = l]
            /\ UNCHANGED <<got, left, role, resIds>>
      <3>1. PICK i, id :
              /\ i \in DOMAIN roleNames
              /\ roleIDs' = [roleIDs EXCEPT ![m][roleNames[i]] = id]
              /\ At(m, IF i = Len(roleNames) THEN "upload" ELSE "roles")
              /\ UNCHANGED <<got, left, role, resIds>>
        BY <1>5, Zenon DEF AddRole
      <3>2. PICK l \in {"upload", "roles"} :
              l = IF i = Len(roleNames) THEN "upload" ELSE "roles"
        OBVIOUS
      <3> QED BY <3>1, <3>2 DEF At
    <2>2. RowsOK'
      BY <1>1, <1>2, <1>3, <2>1 DEF AuthInv, RowsOK
    <2>3. UploadType'
      BY <2>1 DEF AuthInv, UploadType
    <2>4. upc'[m] = l /\ left'[m] = left[m] /\ UploadOK(m)
      BY <2>1 DEF AuthInv, UploadType
    <2>5. \A k \in RoleNames \ left[m] : RoutesOf(k) = {}
      BY <1>1, <2>4 DEF UploadOK
    <2>6. \A k \in RoleNames \ left[m] : \A i : Served(i, k)'
      BY <2>5 DEF Served, RoutesOf, addResource
    <2>7. UploadOK(m)'
      BY <2>4, <2>5, <2>6 DEF UploadOK, RoutesOf, addResource
    <2> QED BY <1>1, <2>1, <2>2, <2>3, <2>7, OthersStay DEF AuthInv, UploadType
  <1> QED BY <1>4, <1>5

\* A role's routes all have a resource, related or to be related.
LEMMA RoleCovered ==
    ASSUME AuthInv, NEW m \in Managers, NEW n, NEW rows, rows = NewResources(Missing(m, n)),
           NEW r \in RoutesOf(n)
    PROVE  \E res \in resources \cup rows :
              /\ res.name = buildResources(r) /\ res.data = AnyData
              /\ \/ <<roleIDs[m][n], res.id>> \in relations
                 \/ res.id \in Unrelated(m, n) \cup {row.id : row \in rows}
  <1>1. Missing(m, n) \in SUBSET Routes
    BY DEF Missing, RoutesOf
  <1>2. CASE r \in Missing(m, n)
    <2>1. PICK row \in rows : row.name = buildResources(r) /\ row.data = AnyData
      BY <1>1, <1>2, NewResourcesRows DEF AuthInv, RowsOK
    <2> QED BY <2>1
  <1>3. CASE r \notin Missing(m, n)
    <2>1. PICK known : known = containsResource(got[m].resources, buildResources(r), AnyData)
      OBVIOUS
    <2>2. known # {}
      BY <1>3, <2>1 DEF Missing
    <2>3. known \subseteq resources
      BY <2>1 DEF AuthInv, RowsOK, containsResource
    <2>4. PICK res \in known : res = First(known)
      BY <2>2, <2>3, FirstIn DEF AuthInv, RowsOK
    <2>5. res.name = buildResources(r) /\ res.data = AnyData
      BY <2>1 DEF containsResource
    <2>6. res.id \in {First(containsResource(got[m].resources, buildResources(q), AnyData)).id :
                        q \in RoutesOf(n) \ Missing(m, n)}
      BY <1>3, <2>1, <2>4
    <2>7. res.id \in Unrelated(m, n) \/ <<roleIDs[m][n], res.id>> \in got[m].relations
      BY <2>6 DEF Unrelated, containsRoleResRel
    <2>8. got[m].relations \subseteq relations
      BY DEF AuthInv, RowsOK
    <2> QED BY <2>3, <2>5, <2>7, <2>8
  <1> QED BY <1>2, <1>3

\* The resources of a role are added.
LEMMA AddResourcePreserves ==
    ASSUME AuthInv, NEW m \in Managers, AddResource(m)
    PROVE  AuthInv'
  <1>1. UNCHANGED <<roles, relations, filled>> /\ upc[m] = "upload"
    BY DEF AddResource
  <1>2. PICK n, rows :
          /\ n \in left[m]
          /\ rows = NewResources(Missing(m, n))
          /\ \/ /\ resources' = resources \cup rows
                /\ role' = [role EXCEPT ![m] = n]
                /\ resIds' = [resIds EXCEPT ![m] = Unrelated(m, n) \cup {r.id : r \in rows}]
                /\ upc' = [upc EXCEPT ![m] = "relate"]
                /\ UNCHANGED <<got, roleIDs, left>>
             \/ /\ resources' \in {resources, resources \cup rows}
                /\ Fails(m)
    BY DEF AddResource, At
  <1>3. /\ resources \subseteq resources' /\ IsFiniteSet(resources')
        /\ \A res \in resources' : res.id \in Nat
    <2>1. IsFiniteSet(resources) /\ \A res \in resources : res.id \in Nat
      BY DEF AuthInv, RowsOK
    <2>2. Missing(m, n) \in SUBSET Routes
      BY DEF Missing, RoutesOf
    <2>3. IsFiniteSet(rows) /\ \A res \in rows : res.id \in Nat
      BY <1>2, <2>1, <2>2, NewResourcesRows
    <2>4. IsFiniteSet(resources \cup rows)
      BY <2>1, <2>3, FS_Union
    <2>5. resources' = resources \/ resources' = resources \cup rows
      BY <1>2
    <2> QED BY <2>1, <2>3, <2>4, <2>5
  <1>4. CASE Fails(m)
    BY <1>1, <1>3, <1>4, FailsPreserves
  <1>5. CASE ~Fails(m)
    <2>1. PICK ids : ids = Unrelated(m, n) \cup {r.id : r \in rows}
      OBVIOUS
    <2>2. /\ resources' = resources \cup rows
          /\ role' = [role EXCEPT ![m] = n] /\ resIds' = [resIds EXCEPT ![m] = ids]
          /\ upc' = [upc EXCEPT ![m] = "relate"]
          /\ UNCHANGED <<got, roleIDs, left>>
      BY <1>2, <1>5, <2>1
    <2>3. RowsOK'
      BY <1>1, <1>3, <2>2 DEF AuthInv, RowsOK
    <2>4. UploadType'
      BY <2>2 DEF AuthInv, UploadType
    <2>5. upc'[m] = "relate" /\ role'[m] = n /\ resIds'[m] = ids /\ UploadOK(m)
      BY <2>2 DEF AuthInv, UploadType
    <2>6. PICK id : id = roleIDs[m][n]
      OBVIOUS
    <2>7. \A r \in RoutesOf(n) : \E res \in resources' :
              /\ res.name = buildResources(r) /\ res.data = AnyData
              /\ <<id, res.id>> \in relations \/ res.id \in ids
      <3>1. rows = NewResources(Missing(m, n)) /\ resources' = resources \cup rows
        BY <1>2, <2>2
      <3>2. ASSUME NEW r \in RoutesOf(n)
            PROVE  \E res \in resources \cup rows :
                      /\ res.name = buildResources(r) /\ res.data = AnyData
                      /\ <<roleIDs[m][n], res.id>> \in relations
                         \/ res.id \in Unrelated(m, n) \cup {row.id : row \in rows}
        BY <3>1, RoleCovered
      <3> QED BY <2>1, <2>6, <3>1, <3>2
    <2>8. Covered(id, n, ids)'
      BY <1>1, <2>7 DEF Covered, RoutesOf, addResource, buildResources
    <2>9. \A k \in RoleNames \ left[m] : Served(roleIDs[m][k], k)
      BY <1>1, <2>5 DEF UploadOK
    <2>10. \A k \in RoleNames \ left'[m] : Served(roleIDs[m][k], k)'
      <3>1. \A i, k : Served(i, k) => Served(i, k)'
        BY <1>1, <1>3, ServedStays
      <3>2. \A k : roleIDs'[m][k] = roleIDs[m][k]
        BY <2>2
      <3> QED BY <2>2, <2>9, <3>1, <3>2
    <2>11. UploadOK(m)'
      BY <1>2, <2>2, <2>5, <2>6, <2>8, <2>10 DEF UploadOK
    <2> QED BY <1>1, <1>3, <2>2, <2>3, <2>4, <2>11, OthersStay DEF AuthInv, UploadType
  <1> QED BY <1>4, <1>5

\* The relations of a role are made; it is served from then on.
LEMMA RelatePreserves ==
    ASSUME AuthInv, NEW m \in Managers, AddRoleResourceRelations(m)
    PROVE  AuthInv'
  <1>1. UNCHANGED <<roles, resources>> /\ upc[m] = "relate"
    BY DEF AddRoleResourceRelations
  <1>2. PICK n, id, ids : n = role[m] /\ id = roleIDs[m][n] /\ ids = resIds[m]
    OBVIOUS
  <1>3. PICK pairs : pairs = {id} \X ids
    OBVIOUS
  <1>4. \/ /\ relations' = relations \cup pairs
           /\ left' = [left EXCEPT ![m] = left[m] \ {n}]
           /\ upc' = [upc EXCEPT ![m] = "upload"]
           /\ UNCHANGED <<got, roleIDs, role, resIds, filled>>
        \/ /\ relations' = relations \cup pairs /\ left[m] = {n}
           /\ Returned(m)
           /\ filled' = filled \cup {[name |-> k, id |-> roleIDs[m][k]] : k \in RoleNames}
        \/ /\ relations' \in {relations, relations \cup pairs}
           /\ Fails(m) /\ UNCHANGED filled
    BY <1>2, <1>3 DEF AddRoleResourceRelations, At, Related
  <1>5. /\ relations \subseteq relations' /\ IsFiniteSet(resources')
        /\ \A res \in resources' : res.id \in Nat
    BY <1>1, <1>4 DEF AuthInv, RowsOK
  <1>6. UploadOK(m) /\ n \in left[m] /\ Covered(id, n, ids)
    BY <1>1, <1>2 DEF AuthInv, UploadOK
  <1>7. \A k \in RoleNames \ left[m] : Served(roleIDs[m][k], k)
    BY <1>1, <1>6 DEF UploadOK
  <1>8. \A i, k : Served(i, k) => Served(i, k)'
    BY <1>1, <1>5, ServedStays
  <1>9. ASSUME relations' = relations \cup pairs PROVE Served(id, n)'
    <2>1. \A x \in ids : <<id, x>> \in pairs
      BY <1>3
    <2> QED BY <1>1, <1>6, <1>9, <2>1
            DEF Covered, Served, RoutesOf, addResource, buildResources
  <1>10. CASE Fails(m) /\ UNCHANGED filled
    BY <1>1, <1>5, <1>10, FailsPreserves
  <1>11. CASE /\ relations' = relations \cup pairs
              /\ left' = [left EXCEPT ![m] = left[m] \ {n}]
              /\ upc' = [upc EXCEPT ![m] = "upload"]
              /\ UNCHANGED <<got, roleIDs, role, resIds, filled>>
    <2>1. RowsOK'
      BY <1>1, <1>5, <1>11 DEF AuthInv, RowsOK
    <2>2. UploadType'
      BY <1>11 DEF AuthInv, UploadType
    <2>3. upc'[m] = "upload" /\ left'[m] = left[m] \ {n} /\ roleIDs'[m] = roleIDs[m]
      BY <1>11 DEF AuthInv, UploadType
    <2>4. \A k \in RoleNames \ left'[m] : k = n \/ k \in RoleNames \ left[m]
      BY <2>3
    <2>5. ASSUME NEW k \in RoleNames \ left'[m] PROVE Served(roleIDs[m][k], k)'
      <3>1. PICK i : i = roleIDs[m][k]
        OBVIOUS
      <3>2. Served(i, k)'
        BY <1>2, <1>7, <1>8, <1>9, <1>11, <2>4, <3>1
      <3> QED BY <2>3, <3>1, <3>2
    <2>6. UploadOK(m)'
      BY <2>3, <2>5 DEF UploadOK
    <2> QED BY <1>1, <1>5, <1>11, <2>1, <2>2, <2>6, OthersStay DEF AuthInv, UploadType
  <1>12. CASE /\ relations' = relations \cup pairs /\ left[m] = {n}
              /\ Returned(m)
              /\ filled' = filled \cup {[name |-> k, id |-> roleIDs[m][k]] : k \in RoleNames}
    <2>1. ASSUME NEW f \in filled' \ filled PROVE Served(f.id, f.name)'
      <3>1. PICK k \in RoleNames : f.name = k /\ f.id = roleIDs[m][k]
        BY <1>12, <2>1
      <3>2. PICK i : i = roleIDs[m][k]
        OBVIOUS
      <3>3. Served(i, k)'
        BY <1>2, <1>7, <1>8, <1>9, <1>12, <3>2
      <3> QED BY <3>1, <3>2, <3>3
    <2> QED BY <1>1, <1>5, <1>12, <2>1, ReturnedOK, OthersStay
  <1> QED BY <1>4, <1>10, <1>11, <1>12

\* A step outside the uploads may only add relations.
LEMMA UploadsStay ==
    ASSUME AuthInv, relations \subseteq relations',
           UNCHANGED <<roles, resources, upc, got, roleIDs, left, role, resIds, filled>>
    PROVE  AuthInv'
  <1>1. RowsOK'
    BY DEF AuthInv, RowsOK
  <1>2. UploadType'
    BY DEF AuthInv, UploadType
  <1>3. ASSUME NEW x \in Managers PROVE UploadOK(x)'
    <2>1. UploadOK(x)
      BY DEF AuthInv
    <2>2. \A n : RoutesOf(n)' = RoutesOf(n)
      BY DEF RoutesOf, addResource
    <2> QED BY <2>1, <2>2, ServedStays DEF UploadOK
  <1>4. \A f \in filled' : Served(f.id, f.name)'
    BY ServedStays DEF AuthInv
  <1> QED BY <1>1, <1>2, <1>3, <1>4 DEF AuthInv

\* Nothing is uploaded at first.
LEMMA AuthInitInv ==
    ASSUME AuthInit
    PROVE  AuthInv
  <1>1. IsFiniteSet(resources) /\ \A res \in resources : res.id \in Nat
    <2>1. resources = {} \/ resources \in AdminResources
      BY DEF AuthInit
    <2>2. CASE resources = {}
      BY <2>2, FS_EmptySet
    <2>3. CASE resources \in AdminResources
      <3>1. PICK name, d : resources = {[id |-> 1, name |-> name, data |-> d]}
        BY <2>3 DEF AdminResources
      <3>2. \A res \in resources : res.id = 1
        BY <3>1
      <3>3. IsFiniteSet(resources)
        BY <3>1, FS_Singleton
      <3> QED BY <3>2, <3>3
    <2> QED BY <2>1, <2>2, <2>3
  <1>2. Nothing0 \in [roles : SUBSET roles, relations : SUBSET relations,
                      resources : SUBSET resources]
    BY DEF Nothing0
  <1>3. RowsOK
    BY <1>1, <1>2 DEF AuthInit, RowsOK
  <1>4. UploadType
    BY DEF AuthInit, UploadType
  <1>5. filled = {} /\ \A m \in Managers : UploadOK(m)
    BY DEF AuthInit, UploadOK
  <1> QED BY <1>3, <1>4, <1>5 DEF AuthInv

\* The invariant of uploads, kept by every call of the auth service and by every failure.
THEOREM AuthInvariant == AuthSpec => []AuthInv
  <1>1. AuthInit => AuthInv
    BY AuthInitInv
  <1>2. AuthInv /\ [AuthNext]_authVars => AuthInv'
    <2> SUFFICES ASSUME AuthInv, [AuthNext]_authVars PROVE AuthInv'
      OBVIOUS
    <2>1. CASE UNCHANGED authVars
      BY <2>1, UploadsStay DEF authVars, serviceVars, uploadVars
    <2>2. ASSUME NEW r \in roles, NEW res \in resources, Relate(r, res) PROVE AuthInv'
      BY <2>2, UploadsStay DEF Relate, uploadVars
    <2> QED BY <2>1, <2>2, FetchPreserves, AddRolePreserves, AddResourcePreserves,
               RelatePreserves DEF AuthNext
  <1> QED BY <1>1, <1>2, PTL DEF AuthSpec

\* A user of a role that a finished upload has filled is served every route of that role, for any
\* number of managers, uploads and failures (auth_manager.go, UploadAuthRolesAndResources,
\* AuthFilter).
THEOREM RoleServedHolds == AuthSpec => []RoleServed
  <1>1. AuthInv => RoleServed
    <2> SUFFICES ASSUME AuthInv, NEW f \in filled, NEW other \in roles, NEW p \in Params,
                        NEW r \in RoutesOf(f.name), NEW t \in Tokens, Authorized(t, TRUE),
                        \A res \in Decisive({f.id, other.id}, parseReqResource(r), p) :
                           ~(res.data # AnyData)
                 PROVE  AuthFilter({f.id, other.id}, r, p, t, TRUE) = {TRUE}
      BY ZenonT(40) DEF RoleServed
    <2>1. PICK res \in resources :
            /\ res.name = buildResources(r) /\ res.data = AnyData
            /\ <<f.id, res.id>> \in relations
      BY DEF AuthInv, Served
    <2>2. PICK D : D = Decisive({f.id, other.id}, parseReqResource(r), p)
      OBVIOUS
    <2>3. res \in D
      BY <2>1, <2>2, AuthAssumption
         DEF Decisive, GetUserResources, parseReqResource, buildResources
    <2>4. {q.data = AnyData : q \in D} = {TRUE}
      BY <2>2, <2>3
    <2> QED BY <2>2, <2>3, <2>4 DEF AuthFilter, Authenticated
  <1> QED BY <1>1, AuthInvariant, PTL

-----------------------------------------------------------------------------
(* The log.                                                                *)

Msgs == [id : Nat, sev : Severity]
OpenFiles == [name : FileNames, held : SUBSET Msgs, nbytes : Nat \ {0}]
FileStates == [file : [Severity -> OpenFiles \cup {NoFile}], disk : [FileNames -> SUBSET Msgs]]

\* The message is in a file on disk; it is there or in the buffer of the current file.
Durable(st, m, s) == \E t \in 0 .. MaxClock : m \in st.disk[<<s, t>>]
Kept(st, m, s) == Durable(st, m, s) \/ (st.file[s] # NoFile /\ m \in st.file[s].held)

\* A severity has its own files, made in the past, and none newer than the current one.
FilesOK(st) ==
    /\ st \in FileStates
    /\ \A s \in Severity : st.file[s] # NoFile =>
          st.file[s].name[1] = s /\ st.file[s].name[2] =< second
    /\ \A s \in Severity, t \in 0 .. MaxClock : st.disk[<<s, t>>] # {} =>
          st.file[s] # NoFile /\ t =< st.file[s].name[2]

\* Where there is a file there is one of every lower severity.
Below(st) == \A s \in Severity : \A t \in 0 .. s : st.file[s] # NoFile => st.file[t] # NoFile

\* The file takes k units, or its replacement gets another name.
Room(st, s, k) ==
    st.file[s] # NoFile => st.file[s].nbytes + k < MaxSize \/ st.file[s].name[2] # second

\* No two callers share a buffer, and none uses one of the free list.
BuffersOK ==
    /\ lbuf \in [Callers -> Buffers \cup {0}] /\ text \in [Buffers -> Msgs]
    /\ lmsg \in [Callers -> Msgs] /\ freeList \in Seq(Buffers)
    /\ lpc \in [Callers -> {"idle", "output", "fatal", "flushed"}]
    /\ \A g \in Callers : lpc[g] = "idle" <=> lbuf[g] = 0
    /\ \A g, h \in Callers : g # h /\ lbuf[g] = lbuf[h] => lbuf[g] = 0
    /\ \A i \in 1 .. Len(freeList) : \A g \in Callers : freeList[i] # lbuf[g]
    /\ \A i, j \in 1 .. Len(freeList) : i # j => freeList[i] # freeList[j]
    /\ \A g \in Callers : lpc[g] = "output" => text[lbuf[g]] = lmsg[g]

\* The message is where the command line says.
Reached(m) ==
    /\ flags.toStderr => m \in stderr
    /\ ~flags.toStderr /\ ~flags.logFile => \A s \in 0 .. m.sev : Kept(Now, m, s)

\* After a flush what was due is on disk.
DueOK ==
    /\ \A g \in Callers : lpc[g] = "flushed" /\ ~flags.toStderr /\ ~flags.logFile =>
          \A m \in due : \A s \in 0 .. m.sev : Durable(Now, m, s)
    /\ code \in {1, 255} => \E g \in Callers : lpc[g] = "flushed"

LogInv ==
    /\ flags \in Flags /\ second \in 0 .. MaxClock /\ count \in Nat
    /\ logged \subseteq Msgs /\ due \subseteq Msgs
    /\ ~flags.logFile => FilesOK(Now) /\ Below(Now)
    /\ BuffersOK /\ DueOK
    /\ \A m \in logged \cup due : Reached(m)

\* What was kept stays kept, and what was on disk stays there.
Grows(st, st2) ==
    \A m, s : s \in Severity => /\ Kept(st, m, s) => Kept(st2, m, s)
                                /\ Durable(st, m, s) => Durable(st2, m, s)

\* Severities are the numbers from 0 to 3.
LEMMA Severities == Severity = 0 .. 3 /\ Severity \subseteq Nat
  BY DEF Severity, infoLog, fatalLog

\* A file that was made has a header.
LEMMA OpenIsFile == NoFile \notin OpenFiles /\ \A f \in OpenFiles : f # NoFile
  <1>1. NoFile.nbytes = 0
    BY DEF NoFile
  <1>2. \A f \in OpenFiles : f.nbytes # 0
    BY DEF OpenFiles
  <1> QED BY <1>1, <1>2

\* The files of one severity change: the current one becomes f, and one on disk holds X.
Changed(st, st2, t, d, f, X) ==
    /\ t \in Severity /\ d \in 0 .. MaxClock /\ f \in OpenFiles
    /\ f.name[1] = t /\ f.name[2] =< second
    /\ st2.file[t] = f /\ \A s \in Severity \ {t} : st2.file[s] = st.file[s]
    /\ \A s \in Severity, u \in 0 .. MaxClock :
          st2.disk[<<s, u>>] = IF s = t /\ u = d THEN X ELSE st.disk[<<s, u>>]
    /\ st.file[t] # NoFile => st.file[t].name[2] =< f.name[2]
    /\ X # {} => d =< f.name[2]
    /\ st.disk[<<t, d>>] \subseteq X
    /\ st.file[t] # NoFile => st.file[t].held \subseteq f.held \cup X

\* Such a change loses nothing.
LEMMA ChangeStep ==
    ASSUME NEW st, NEW st2, FilesOK(st), st2 \in FileStates, NEW t, NEW d, NEW f, NEW X,
           Changed(st, st2, t, d, f, X)
    PROVE  /\ FilesOK(st2) /\ Grows(st, st2)
           /\ \A m \in f.held : Kept(st2, m, t)
           /\ \A m \in X : Durable(st2, m, t)
  <1> USE DEF Changed
  <1>1. f # NoFile
    BY OpenIsFile
  <1>2. \A m \in X : Durable(st2, m, t)
    BY DEF Durable
  <1>3. \A m \in f.held : Kept(st2, m, t)
    BY <1>1 DEF Kept
  <1>4. Grows(st, st2)
    <2>1. ASSUME NEW m, NEW s \in Severity, Durable(st, m, s) PROVE Durable(st2, m, s)
      <3>1. PICK u \in 0 .. MaxClock : m \in st.disk[<<s, u>>]
        BY <2>1 DEF Durable
      <3>2. m \in st2.disk[<<s, u>>]
        BY <3>1
      <3> QED BY <3>2 DEF Durable
    <2>2. ASSUME NEW m, NEW s \in Severity, Kept(st, m, s) PROVE Kept(st2, m, s)
      <3>1. CASE Durable(st, m, s)
        BY <2>1, <3>1 DEF Kept
      <3>2. CASE ~Durable(st, m, s) /\ s # t
        BY <2>2, <3>2 DEF Kept
      <3>3. CASE ~Durable(st, m, s) /\ s = t
        <4>1. m \in f.held \cup X
          BY <2>2, <3>3 DEF Kept
        <4> QED BY <1>2, <1>3, <3>3, <4>1 DEF Kept
      <3> QED BY <3>1, <3>2, <3>3
    <2> QED BY <2>1, <2>2 DEF Grows
  <1>5. FilesOK(st2)
    <2>1. \A s \in Severity : st2.file[s] # NoFile =>
            st2.file[s].name[1] = s /\ st2.file[s].name[2] =< second
      BY DEF FilesOK
    <2>2. ASSUME NEW s \in Severity, NEW u \in 0 .. MaxClock, st2.disk[<<s, u>>] # {}
          PROVE  st2.file[s] # NoFile /\ u =< st2.file[s].name[2]
      <3>1. CASE s # t
        BY <2>2, <3>1 DEF FilesOK
      <3>2. CASE s = t /\ u = d
        BY <1>1, <2>2, <3>2
      <3>3. CASE s = t /\ u # d
        <4>1. st.disk[<<t, u>>] # {}
          BY <2>2, <3>3
        <4>2. st.file[t] # NoFile /\ u =< st.file[t].name[2] /\ st.file[t].name[2] =< f.name[2]
          BY <4>1 DEF FilesOK
        <4>3. st.file[t] \in OpenFiles
          BY <4>2 DEF FilesOK, FileStates
        <4>4. st.file[t].name[2] \in 0 .. MaxClock /\ f.name[2] \in 0 .. MaxClock
          BY <4>3 DEF OpenFiles, FileNames
        <4>5. u =< f.name[2]
          BY <4>2, <4>4
        <4> QED BY <1>1, <3>3, <4>5
      <3> QED BY <3>1, <3>2, <3>3
    <2> QED BY <2>1, <2>2 DEF FilesOK
  <1> QED BY <1>2, <1>3, <1>4, <1>5

\* A flush of one file: what its buffer held is on disk.
LEMMA FlushedStep ==
    ASSUME NEW st, FilesOK(st), NEW t \in Severity, NEW st2, st2 = Flushed(st, t)
    PROVE  /\ FilesOK(st2) /\ Grows(st, st2)
           /\ \A s \in Severity \ {t} : st2.file[s] = st.file[s]
           /\ st.file[t] = NoFile => st2.file[t] = NoFile
           /\ st.file[t] # NoFile => /\ st2.file[t] # NoFile /\ st2.file[t].held = {}
                                     /\ st2.file[t].name = st.file[t].name
           /\ \A m : Kept(st, m, t) => Durable(st2, m, t)
  <1>1. CASE st.file[t] = NoFile
    BY <1>1 DEF Flushed, Grows, Kept
  <1>2. CASE st.file[t] # NoFile
    <2>1. st.file[t] \in OpenFiles /\ st \in FileStates
      BY <1>2 DEF FilesOK, FileStates
    <2>2. PICK d \in 0 .. MaxClock : st.file[t].name = <<t, d>> /\ d =< second
      BY <1>2, <2>1 DEF FilesOK, OpenFiles, FileNames
    <2>3. PICK f : f = [st.file[t] EXCEPT !.held = {}]
      OBVIOUS
    <2>4. f \in OpenFiles /\ f.held = {} /\ f.name = <<t, d>>
      BY <2>1, <2>2, <2>3 DEF OpenFiles
    <2>5. PICK X : X = st.disk[<<t, d>>] \cup st.file[t].held
      OBVIOUS
    <2>6. /\ st2.file = [st.file EXCEPT ![t] = f]
          /\ st2.disk = [st.disk EXCEPT ![<<t, d>>] = X]
          /\ st2 = [file |-> st2.file, disk |-> st2.disk]
      BY <1>2, <2>1, <2>2, <2>3, <2>5 DEF Flushed, FileStates
    <2>7. st2 \in FileStates
      <3>1. <<t, d>> \in FileNames
        BY DEF FileNames
      <3>2. X \in SUBSET Msgs
        BY <2>1, <2>5, <3>1 DEF FileStates, OpenFiles
      <3>3. st2.file \in [Severity -> OpenFiles \cup {NoFile}]
        BY <2>1, <2>4, <2>6 DEF FileStates
      <3>4. st2.disk \in [FileNames -> SUBSET Msgs]
        BY <2>1, <2>6, <3>1, <3>2 DEF FileStates
      <3> QED BY <2>6, <3>3, <3>4 DEF FileStates
    <2>8. st2.file[t] = f /\ \A s \in Severity \ {t} : st2.file[s] = st.file[s]
      BY <2>1, <2>6 DEF FileStates
    <2>9. \A s \in Severity, u \in 0 .. MaxClock :
            st2.disk[<<s, u>>] = IF s = t /\ u = d THEN X ELSE st.disk[<<s, u>>]
      BY <2>1, <2>6 DEF FileStates, FileNames
    <2>10. d =< d
      OBVIOUS
    <2>11. /\ FilesOK(st2) /\ Grows(st, st2) /\ \A m \in X : Durable(st2, m, t)
      <3>1. Changed(st, st2, t, d, f, X)
        BY <2>2, <2>4, <2>5, <2>8, <2>9, <2>10 DEF Changed
      <3> QED BY <2>7, <3>1, ChangeStep
    <2>12. \A m : Kept(st, m, t) => Durable(st2, m, t)
      BY <2>5, <2>11 DEF Kept, Grows
    <2> QED BY <1>2, <2>2, <2>4, <2>8, <2>11, <2>12, OpenIsFile
  <1> QED BY <1>1, <1>2

\* A file that is made at startup, and one that replaces another.
Made(st, t) == rotateFile(st, t, TRUE)
Replaced(st, t) == rotateFile(st, t, FALSE)

\* A file may be made, or replaced by one of another name.
MayRotate(st, t) ==
    /\ FilesOK(st) /\ t \in Severity
    /\ ~flags.logFile /\ second \in 0 .. MaxClock
    /\ st.file[t] # NoFile => st.file[t].name[2] # second

\* A file is replaced, or made: the buffer of the old one is flushed, and the name of the new
\* one was not used before.
LEMMA RotateStep ==
    ASSUME NEW st, NEW t, MayRotate(st, t),
           NEW st2, \/ st2 = Made(st, t)
                    \/ st2 = Replaced(st, t)
    PROVE  /\ FilesOK(st2) /\ Grows(st, st2)
           /\ \A s \in Severity \ {t} : st2.file[s] = st.file[s]
           /\ st2.file[t] # NoFile /\ st2.file[t].nbytes = 1
  <1>0. /\ FilesOK(st) /\ t \in Severity /\ ~flags.logFile /\ second \in 0 .. MaxClock
        /\ st.file[t] # NoFile => st.file[t].name[2] # second
    BY DEF MayRotate
  <1> USE <1>0
  <1>1. PICK st1 : st1 = Flushed(st, t)
    OBVIOUS
  <1>2. /\ FilesOK(st1) /\ Grows(st, st1)
        /\ \A s \in Severity \ {t} : st1.file[s] = st.file[s]
        /\ st.file[t] = NoFile => st1.file[t] = NoFile
        /\ st.file[t] # NoFile => /\ st1.file[t] # NoFile /\ st1.file[t].held = {}
                                  /\ st1.file[t].name = st.file[t].name
    BY <1>1, FlushedStep
  <1>3. st1 \in FileStates /\ st \in FileStates
    BY <1>2 DEF FilesOK
  <1>4. PICK f : f = [name |-> <<t, second>>, held |-> {}, nbytes |-> 1]
    OBVIOUS
  <1>5. f \in OpenFiles /\ f.name = <<t, second>> /\ f.held = {} /\ f.nbytes = 1
    BY <1>4 DEF OpenFiles, FileNames
  <1>6. logName(t) = <<t, second>> /\ <<t, second>> \in FileNames
    BY DEF logName, FileNames
  <1>7. st1.file[t] # NoFile => st1.file[t].name[2] =< second /\ st1.file[t].name[2] # second
    BY <1>2 DEF FilesOK
  <1>8. st1.disk[<<t, second>>] = {}
    <2>1. st1.disk[<<t, second>>] # {} => st1.file[t] # NoFile /\ second =< st1.file[t].name[2]
      BY <1>2 DEF FilesOK
    <2>2. st1.file[t] # NoFile => st1.file[t].name[2] \in 0 .. MaxClock
      BY <1>3 DEF FileStates, OpenFiles, FileNames
    <2> QED BY <1>7, <2>1, <2>2
  <1>9. /\ st2.file = [st.file EXCEPT ![t] = f]
        /\ st2.disk = st1.disk \/ st2.disk = [st1.disk EXCEPT ![<<t, second>>] = {}]
        /\ st2 = [file |-> st2.file, disk |-> st2.disk]
    <2>1. CASE st2 = Made(st, t)
      BY <1>1, <1>4, <1>6, <2>1 DEF Made, Replaced, rotateFile, create
    <2>2. CASE st2 = Replaced(st, t)
      BY <1>1, <1>4, <1>6, <2>2 DEF Made, Replaced, rotateFile, create
    <2> QED BY <2>1, <2>2
  <1>10. st2 \in FileStates
    <2>1. st2.file \in [Severity -> OpenFiles \cup {NoFile}]
      BY <1>3, <1>5, <1>9 DEF FileStates
    <2>2. st2.disk \in [FileNames -> SUBSET Msgs]
      BY <1>3, <1>6, <1>9 DEF FileStates
    <2> QED BY <1>9, <2>1, <2>2 DEF FileStates
  <1>11. st2.file[t] = f /\ \A s \in Severity \ {t} : st2.file[s] = st.file[s]
    BY <1>3, <1>9 DEF FileStates
  <1>12. \A s \in Severity, u \in 0 .. MaxClock :
            st2.disk[<<s, u>>] = IF s = t /\ u = second THEN {} ELSE st1.disk[<<s, u>>]
    BY <1>3, <1>8, <1>9 DEF FileStates, FileNames
  <1>13. second =< second
    OBVIOUS
  <1>14. st1.file[t] # NoFile => st1.file[t].held \subseteq f.held \cup {}
    BY <1>2
  <1>15. \A s \in Severity \ {t} : st2.file[s] = st1.file[s]
    BY <1>2, <1>11
  <1>16. FilesOK(st2) /\ Grows(st1, st2)
    <2>1. PICK d \in 0 .. MaxClock : d = second
      OBVIOUS
    <2>2. PICK X : X = {}
      OBVIOUS
    <2>3. /\ f.name[1] = t /\ f.name[2] =< second
          /\ X # {} => d =< f.name[2]
          /\ st1.file[t] # NoFile => st1.file[t].name[2] =< f.name[2]
      BY <1>5, <1>7, <1>13, <2>2
    <2>4. \A s \in Severity, u \in 0 .. MaxClock :
            st2.disk[<<s, u>>] = IF s = t /\ u = d THEN X ELSE st1.disk[<<s, u>>]
      BY <1>12, <2>1, <2>2
    <2>5. st1.disk[<<t, d>>] \subseteq X
      BY <1>8, <2>1, <2>2
    <2>6. st1.file[t] # NoFile => st1.file[t].held \subseteq f.held \cup X
      BY <1>14, <2>2
    <2>7. Changed(st1, st2, t, d, f, X)
      BY <1>5, <1>11, <1>15, <2>3, <2>4, <2>5, <2>6 DEF Changed
    <2> QED BY <1>2, <1>10, <2>7, ChangeStep
  <1> QED BY <1>2, <1>5, <1>11, <1>16, OpenIsFile DEF Grows

\* A message is written to a file that has room for it or may be replaced.
LEMMA WriteStep ==
    ASSUME NEW st, FilesOK(st), NEW t \in Severity, ~flags.logFile, second \in 0 .. MaxClock,
           NEW m \in Msgs, st.file[t] # NoFile, Room(st, t, 1), NEW st2, st2 = Write(st, t, m)
    PROVE  /\ FilesOK(st2) /\ Grows(st, st2) /\ Kept(st2, m, t)
           /\ \A s \in Severity \ {t} : st2.file[s] = st.file[s]
           /\ st2.file[t] # NoFile
           /\ Room(st, t, 2) => Room(st2, t, 1)
  <1>1. PICK r : r = IF st.file[t].nbytes + 1 >= MaxSize THEN Replaced(st, t) ELSE st
    OBVIOUS
  <1>2. /\ FilesOK(r) /\ Grows(st, r) /\ r.file[t] # NoFile
        /\ \A s \in Severity \ {t} : r.file[s] = st.file[s]
        /\ r = st \/ r.file[t].nbytes = 1
    <2>1. CASE st.file[t].nbytes + 1 >= MaxSize
      <3>1. st.file[t].nbytes \in Nat
        BY DEF FilesOK, FileStates, OpenFiles
      <3>2. st.file[t].name[2] # second
        BY <2>1, <3>1, LogAssumption DEF Room
      <3>3. r = Replaced(st, t)
        BY <1>1, <2>1
      <3>4. /\ FilesOK(r) /\ Grows(st, r) /\ r.file[t] # NoFile /\ r.file[t].nbytes = 1
            /\ \A s \in Severity \ {t} : r.file[s] = st.file[s]
        <4>1. st.file[t] # NoFile => st.file[t].name[2] # second
          BY <3>2
        <4>2. r = Made(st, t) \/ r = Replaced(st, t)
          BY <3>3
        <4>3. MayRotate(st, t)
          BY <4>1 DEF MayRotate
        <4> QED BY <4>2, <4>3, RotateStep
      <3> QED BY <3>4
    <2>2. CASE ~(st.file[t].nbytes + 1 >= MaxSize)
      BY <1>1, <2>2 DEF Grows
    <2> QED BY <2>1, <2>2
  <1>3. r \in FileStates /\ r.file[t] \in OpenFiles
    BY <1>2 DEF FilesOK, FileStates
  <1>4. PICK f : f = [name |-> r.file[t].name, held |-> r.file[t].held \cup {m},
                      nbytes |-> r.file[t].nbytes + 1]
    OBVIOUS
  <1>5. /\ f \in OpenFiles /\ f.name = r.file[t].name /\ f.held = r.file[t].held \cup {m}
        /\ f.nbytes = r.file[t].nbytes + 1
    <2>1. /\ r.file[t].name \in FileNames /\ r.file[t].held \in SUBSET Msgs
          /\ r.file[t].nbytes \in Nat
      BY <1>3 DEF OpenFiles
    <2>2. r.file[t].nbytes + 1 \in Nat \ {0}
      BY <2>1
    <2> QED BY <1>4, <2>1, <2>2 DEF OpenFiles
  <1>6. st2 = [file |-> [r.file EXCEPT ![t] = f], disk |-> r.disk]
    BY <1>1, <1>4 DEF Write, Replaced
  <1>7. /\ st2.file[t] = f /\ st2.disk = r.disk /\ st2 \in FileStates
        /\ \A s \in Severity \ {t} : st2.file[s] = r.file[s]
    BY <1>3, <1>5, <1>6 DEF FileStates
  <1>8. PICK X : X = r.disk[<<t, second>>]
    OBVIOUS
  <1>9. \A s \in Severity, u \in 0 .. MaxClock :
          st2.disk[<<s, u>>] = IF s = t /\ u = second THEN X ELSE r.disk[<<s, u>>]
    BY <1>7, <1>8
  <1>10. /\ f.name[1] = t /\ f.name[2] =< second
         /\ X # {} => second =< f.name[2]
         /\ r.file[t].name[2] =< f.name[2]
    <2>1. f.name[2] \in 0 .. MaxClock
      BY <1>5 DEF OpenFiles, FileNames
    <2>2. f.name[1] = t /\ f.name[2] =< second
      BY <1>2, <1>5 DEF FilesOK
    <2>3. X # {} => second =< f.name[2]
      BY <1>2, <1>5, <1>8 DEF FilesOK
    <2> QED BY <1>5, <2>1, <2>2, <2>3
  <1>11. r.disk[<<t, second>>] \subseteq X /\ r.file[t].held \subseteq f.held \cup X
    BY <1>5, <1>8
  <1>12. FilesOK(st2) /\ Grows(r, st2) /\ \A x \in f.held : Kept(st2, x, t)
    <2>1. PICK d \in 0 .. MaxClock : d = second
      OBVIOUS
    <2>2. \A s \in Severity, u \in 0 .. MaxClock :
            st2.disk[<<s, u>>] = IF s = t /\ u = d THEN X ELSE r.disk[<<s, u>>]
      BY <1>9, <2>1
    <2>3. /\ r.disk[<<t, d>>] \subseteq X
          /\ X # {} => d =< f.name[2]
      BY <1>10, <1>11, <2>1
    <2>4. Changed(r, st2, t, d, f, X)
      BY <1>5, <1>7, <1>10, <1>11, <2>2, <2>3 DEF Changed
    <2> QED BY <1>2, <1>7, <2>4, ChangeStep
  <1>13. Room(st, t, 2) => Room(st2, t, 1)
    <2>1. r.file[t].nbytes \in Nat /\ f # NoFile
      BY <1>3, <1>5, OpenIsFile DEF OpenFiles
    <2>2. CASE r = st
      BY <1>5, <1>7, <2>1, <2>2, LogAssumption DEF Room
    <2>3. CASE r.file[t].nbytes = 1
      BY <1>5, <1>7, <2>1, <2>3, LogAssumption DEF Room
    <2> QED BY <1>2, <2>2, <2>3
  <1> QED BY <1>2, <1>5, <1>7, <1>12, <1>13, OpenIsFile DEF Grows

\* Progress of a loop from fatalLog down, which is done with severities k and above.
FlushedTo(st, a, k) ==
    /\ FilesOK(a) /\ Grows(st, a)
    /\ \A s \in Severity : s < k => a.file[s] = st.file[s]
    /\ \A s \in Severity : a.file[s] = NoFile <=> st.file[s] = NoFile
    /\ \A s \in Severity : s >= k => \A m : Kept(st, m, s) => Durable(a, m, s)

\* One turn of flushAll.
LEMMA FlushedTurn ==
    ASSUME NEW st, NEW a, NEW k \in Severity, FlushedTo(st, a, k + 1)
    PROVE  FlushedTo(st, Flushed(a, k), k)
  <1>1. PICK b : b = Flushed(a, k)
    OBVIOUS
  <1>2. /\ FilesOK(b) /\ Grows(a, b)
        /\ \A s \in Severity \ {k} : b.file[s] = a.file[s]
        /\ b.file[k] = NoFile <=> a.file[k] = NoFile
        /\ \A m : Kept(a, m, k) => Durable(b, m, k)
    BY <1>1, FlushedStep DEF FlushedTo
  <1>3. \A s \in Severity : s < k => s < k + 1 /\ s # k
    BY Severities
  <1>4. \A s \in Severity : s >= k => s = k \/ s >= k + 1
    BY Severities
  <1>5. \A s \in Severity : s < k => b.file[s] = st.file[s]
    BY <1>2, <1>3 DEF FlushedTo
  <1>6. \A s \in Severity : b.file[s] = NoFile <=> st.file[s] = NoFile
    BY <1>2 DEF FlushedTo
  <1>7. ASSUME NEW s \in Severity, s >= k, NEW m, Kept(st, m, s) PROVE Durable(b, m, s)
    <2>1. Kept(a, m, s)
      BY <1>7 DEF FlushedTo, Grows
    <2>2. CASE s = k
      BY <1>2, <2>1, <2>2
    <2>3. CASE s >= k + 1
      BY <1>2, <1>7, <2>3 DEF FlushedTo, Grows
    <2> QED BY <1>4, <1>7, <2>2, <2>3
  <1>8. Grows(st, b)
    BY <1>2 DEF FlushedTo, Grows
  <1> QED BY <1>1, <1>2, <1>5, <1>6, <1>7, <1>8 DEF FlushedTo

\* flushAll writes everything that is held.
LEMMA FlushAllStep ==
    ASSUME NEW st, FilesOK(st)
    PROVE  FlushedTo(st, flushAll(st), 0)
  <1>1. FlushedTo(st, st, 3 + 1)
    BY Severities DEF FlushedTo, Grows
  <1>2. PICK a : a = Flushed(st, 3)
    OBVIOUS
  <1>3. PICK b : b = Flushed(a, 2)
    OBVIOUS
  <1>4. PICK c : c = Flushed(b, 1)
    OBVIOUS
  <1>5. 3 = 2 + 1 /\ 2 = 1 + 1 /\ 1 = 0 + 1 /\ 3 \in Severity /\ 2 \in Severity /\ 1 \in Severity
        /\ 0 \in Severity
    BY Severities
  <1>6. FlushedTo(st, a, 2 + 1)
    BY <1>1, <1>2, <1>5, FlushedTurn
  <1>7. FlushedTo(st, b, 1 + 1)
    BY <1>3, <1>5, <1>6, FlushedTurn
  <1>8. FlushedTo(st, c, 0 + 1)
    BY <1>4, <1>5, <1>7, FlushedTurn
  <1>9. flushAll(st) = Flushed(c, 0)
    BY <1>2, <1>3, <1>4 DEF flushAll, Down
  <1> QED BY <1>5, <1>8, <1>9, FlushedTurn

\* The files createFiles makes.
ToMake(st, s) == {t \in 0 .. s : \A u \in t .. s : st.file[u] = NoFile}

\* Progress of createFiles.
MadeTo(st, s, a, k) ==
    /\ FilesOK(a) /\ Grows(st, a)
    /\ \A u \in Severity : u < k => a.file[u] = st.file[u]
    /\ \A u \in Severity : st.file[u] # NoFile => a.file[u] # NoFile
    /\ \A u \in Severity : u >= k /\ u \in ToMake(st, s) => a.file[u] # NoFile
    /\ \A u \in Severity : u \notin ToMake(st, s) => a.file[u] = st.file[u]
    /\ \A u \in Severity : Room(st, u, 2) => Room(a, u, 2)

\* One turn of createFiles.
LEMMA MadeTurn ==
    ASSUME NEW st, NEW s \in Severity, NEW a, NEW k \in Severity, MadeTo(st, s, a, k + 1),
           ~flags.logFile, second \in 0 .. MaxClock, NEW b,
           b = IF k \in ToMake(st, s) THEN Made(a, k) ELSE a
    PROVE  MadeTo(st, s, b, k)
  <1>1. \A u \in Severity : u < k => u < k + 1 /\ u # k
    BY Severities
  <1>2. \A u \in Severity : u >= k => u = k \/ u >= k + 1
    BY Severities
  <1>3. CASE k \notin ToMake(st, s)
    BY <1>1, <1>2, <1>3 DEF MadeTo
  <1>4. CASE k \in ToMake(st, s)
    <2>1. st.file[k] = NoFile
      BY <1>4, Severities DEF ToMake
    <2>2. a.file[k] = NoFile
      <3>1. k < k + 1
        BY Severities
      <3> QED BY <2>1, <3>1 DEF MadeTo
    <2>3. b = Made(a, k)
      BY <1>4
    <2>4. /\ FilesOK(b) /\ Grows(a, b)
          /\ \A u \in Severity \ {k} : b.file[u] = a.file[u]
          /\ b.file[k] # NoFile /\ b.file[k].nbytes = 1
      <3>1. FilesOK(a) /\ ~(a.file[k] # NoFile)
        BY <2>2 DEF MadeTo
      <3>2. MayRotate(a, k)
        BY <3>1 DEF MayRotate
      <3> QED BY <2>3, <3>2, RotateStep
    <2>5. Room(b, k, 2)
      <3>1. 1 + 2 < MaxSize
        BY LogAssumption
      <3> QED BY <2>4, <3>1 DEF Room
    <2>6. ASSUME NEW u \in Severity, Room(st, u, 2) PROVE Room(b, u, 2)
      <3>1. CASE u = k
        BY <2>5, <3>1
      <3>2. CASE u # k
        <4>1. b.file[u] = a.file[u] /\ Room(a, u, 2)
          BY <2>4, <2>6, <3>2 DEF MadeTo
        <4> QED BY <4>1 DEF Room
      <3> QED BY <3>1, <3>2
    <2>7. Grows(st, b)
      BY <2>4 DEF MadeTo, Grows
    <2> QED BY <1>1, <1>2, <1>4, <2>4, <2>6, <2>7 DEF MadeTo
  <1> QED BY <1>3, <1>4

\* createFiles makes what is missing from s down, and loses nothing.
LEMMA CreateFilesStep ==
    ASSUME NEW st, NEW s \in Severity, FilesOK(st), Below(st),
           ~flags.logFile, second \in 0 .. MaxClock, NEW z, z = createFiles(st, s)
    PROVE  /\ FilesOK(z) /\ Grows(st, z) /\ Below(z)
           /\ \A u \in 0 .. s : z.file[u] # NoFile
           /\ \A u \in Severity : Room(st, u, 2) => Room(z, u, 2)
  <1>1. MadeTo(st, s, st, 3 + 1)
    BY Severities DEF MadeTo, Grows
  <1>2. PICK a : a = IF 3 \in ToMake(st, s) THEN Made(st, 3) ELSE st
    OBVIOUS
  <1>3. PICK b : b = IF 2 \in ToMake(st, s) THEN Made(a, 2) ELSE a
    OBVIOUS
  <1>4. PICK c : c = IF 1 \in ToMake(st, s) THEN Made(b, 1) ELSE b
    OBVIOUS
  <1>5. z = IF 0 \in ToMake(st, s) THEN Made(c, 0) ELSE c
    BY <1>2, <1>3, <1>4, Zenon DEF createFiles, Down, ToMake, Made
  <1>6. 3 = 2 + 1 /\ 2 = 1 + 1 /\ 1 = 0 + 1 /\ 3 \in Severity /\ 2 \in Severity /\ 1 \in Severity
        /\ 0 \in Severity
    BY Severities
  <1>7. MadeTo(st, s, a, 2 + 1)
    BY <1>1, <1>2, <1>6, MadeTurn
  <1>8. MadeTo(st, s, b, 1 + 1)
    BY <1>3, <1>6, <1>7, MadeTurn
  <1>9. MadeTo(st, s, c, 0 + 1)
    BY <1>4, <1>6, <1>8, MadeTurn
  <1>10. MadeTo(st, s, z, 0)
    BY <1>5, <1>6, <1>9, MadeTurn
  <1>11. ASSUME NEW u \in 0 .. s PROVE z.file[u] # NoFile
    <2>1. u \in Severity /\ u >= 0
      BY Severities
    <2>2. CASE u \in ToMake(st, s)
      BY <1>10, <2>1, <2>2 DEF MadeTo
    <2>3. CASE u \notin ToMake(st, s)
      <3>1. PICK v \in u .. s : st.file[v] # NoFile
        BY <2>3 DEF ToMake
      <3>2. v \in Severity /\ u \in 0 .. v
        BY <2>1, Severities
      <3>3. st.file[u] # NoFile
        BY <3>1, <3>2 DEF Below
      <3> QED BY <1>10, <2>1, <3>3 DEF MadeTo
    <2> QED BY <2>2, <2>3
  <1>12. Below(z)
    <2> SUFFICES ASSUME NEW v \in Severity, NEW u \in 0 .. v, z.file[v] # NoFile
                 PROVE  z.file[u] # NoFile
      BY DEF Below
    <2>1. u \in Severity
      BY Severities
    <2>2. CASE v =< s
      <3>1. u \in 0 .. s
        BY <2>1, <2>2, Severities
      <3> QED BY <1>11, <3>1
    <2>3. CASE ~(v =< s)
      <3>1. v \notin ToMake(st, s)
        BY <2>3, Severities DEF ToMake
      <3>2. st.file[v] # NoFile
        BY <1>10, <3>1 DEF MadeTo
      <3>3. st.file[u] # NoFile
        BY <3>2 DEF Below
      <3> QED BY <1>10, <2>1, <3>3 DEF MadeTo
    <2> QED BY <2>2, <2>3
  <1> QED BY <1>10, <1>11, <1>12 DEF MadeTo

\* Progress of a loop that writes m to the files of severity s and below, or to all there are.
WrittenTo(st, a, m, s, k) ==
    /\ FilesOK(a) /\ Grows(st, a)
    /\ \A u \in Severity : u < k => a.file[u] = st.file[u]
    /\ \A u \in Severity : a.file[u] = NoFile <=> st.file[u] = NoFile
    /\ \A u \in Severity : u >= k /\ u =< s /\ st.file[u] # NoFile => Kept(a, m, u)
    /\ \A u \in Severity : Room(st, u, 2) => Room(a, u, 1)

\* One turn of such a loop.
LEMMA WrittenTurn ==
    ASSUME NEW st, NEW m \in Msgs, NEW s \in Severity, NEW a, NEW k \in Severity,
           WrittenTo(st, a, m, s, k + 1), Room(st, k, 1),
           ~flags.logFile, second \in 0 .. MaxClock, NEW b,
           b = IF k =< s /\ a.file[k] # NoFile THEN Write(a, k, m) ELSE a
    PROVE  WrittenTo(st, b, m, s, k)
  <1>1. \A u \in Severity : u < k => u < k + 1 /\ u # k
    BY Severities
  <1>2. \A u \in Severity : u >= k => u = k \/ u >= k + 1
    BY Severities
  <1>3. k < k + 1
    BY Severities
  <1>4. a.file[k] = st.file[k]
    BY <1>3 DEF WrittenTo
  <1>5. CASE ~(k =< s /\ a.file[k] # NoFile)
    BY <1>1, <1>2, <1>4, <1>5 DEF WrittenTo
  <1>6. CASE k =< s /\ a.file[k] # NoFile
    <2>1. b = Write(a, k, m) /\ Room(a, k, 1) /\ (Room(st, k, 2) => Room(a, k, 2))
      BY <1>4, <1>6 DEF Room
    <2>2. /\ FilesOK(b) /\ Grows(a, b) /\ Kept(b, m, k)
          /\ \A u \in Severity \ {k} : b.file[u] = a.file[u]
          /\ b.file[k] # NoFile
          /\ Room(a, k, 2) => Room(b, k, 1)
      BY <1>6, <2>1, WriteStep DEF WrittenTo
    <2>3. Grows(st, b)
      BY <2>2 DEF WrittenTo, Grows
    <2>4. ASSUME NEW u \in Severity, Room(st, u, 2) PROVE Room(b, u, 1)
      <3>1. CASE u = k
        BY <2>1, <2>2, <2>4, <3>1
      <3>2. CASE u # k
        BY <2>2, <2>4, <3>2 DEF WrittenTo, Room
      <3> QED BY <3>1, <3>2
    <2>5. \A u \in Severity : b.file[u] = NoFile <=> st.file[u] = NoFile
      BY <1>4, <1>6, <2>2 DEF WrittenTo
    <2>6. ASSUME NEW u \in Severity, u >= k, u =< s, st.file[u] # NoFile PROVE Kept(b, m, u)
      <3>1. CASE u = k
        BY <2>2, <3>1
      <3>2. CASE u >= k + 1
        BY <2>2, <2>6, <3>2 DEF WrittenTo, Grows
      <3> QED BY <1>2, <2>6, <3>1, <3>2
    <2>7. \A u \in Severity : u < k => b.file[u] = st.file[u]
      BY <1>1, <2>2 DEF WrittenTo
    <2> QED BY <2>2, <2>3, <2>4, <2>5, <2>6, <2>7 DEF WrittenTo
  <1> QED BY <1>5, <1>6

\* The whole loop.
LEMMA WrittenLoop ==
    ASSUME NEW st, FilesOK(st), NEW m \in Msgs, NEW s \in Severity,
           \A u \in Severity : Room(st, u, 1), ~flags.logFile, second \in 0 .. MaxClock,
           NEW a, a = (IF 3 =< s /\ st.file[3] # NoFile THEN Write(st, 3, m) ELSE st),
           NEW b, b = (IF 2 =< s /\ a.file[2] # NoFile THEN Write(a, 2, m) ELSE a),
           NEW c, c = (IF 1 =< s /\ b.file[1] # NoFile THEN Write(b, 1, m) ELSE b),
           NEW z, z = (IF 0 =< s /\ c.file[0] # NoFile THEN Write(c, 0, m) ELSE c)
    PROVE  WrittenTo(st, z, m, s, 0)
  <1>1. WrittenTo(st, st, m, s, 3 + 1)
    <2>1. ASSUME NEW u \in Severity PROVE Room(st, u, 1)
      OBVIOUS
    <2>2. \A u \in Severity : ~(u >= 3 + 1)
      BY Severities
    <2> QED BY <2>1, <2>2 DEF WrittenTo, Grows
  <1>2. 3 = 2 + 1 /\ 2 = 1 + 1 /\ 1 = 0 + 1 /\ 3 \in Severity /\ 2 \in Severity /\ 1 \in Severity
        /\ 0 \in Severity
    BY Severities
  <1>3. WrittenTo(st, a, m, s, 2 + 1)
    BY <1>1, <1>2, WrittenTurn
  <1>4. WrittenTo(st, b, m, s, 1 + 1)
    BY <1>2, <1>3, WrittenTurn
  <1>5. WrittenTo(st, c, m, s, 0 + 1)
    BY <1>2, <1>4, WrittenTurn
  <1> QED BY <1>2, <1>5, WrittenTurn

\* Room for two units is room for one.
LEMMA RoomLess ==
    ASSUME NEW st, FilesOK(st), NEW u \in Severity, Room(st, u, 2)
    PROVE  Room(st, u, 1)
  <1>1. st.file[u] # NoFile => st.file[u].nbytes \in Nat
    BY DEF FilesOK, FileStates, OpenFiles
  <1> QED BY <1>1, LogAssumption DEF Room

\* The loop of output, when all the files it writes to are there.
LEMMA WriteAllLoop ==
    ASSUME NEW st, FilesOK(st), NEW m \in Msgs, NEW s \in Severity,
           \A u \in Severity : Room(st, u, 1), ~flags.logFile, second \in 0 .. MaxClock,
           \A u \in {0, 1, 2, 3} : u \in Severity /\ (u =< s => st.file[u] # NoFile),
           NEW a, a = (IF 3 =< s THEN Write(st, 3, m) ELSE st),
           NEW b, b = (IF 2 =< s THEN Write(a, 2, m) ELSE a),
           NEW c, c = (IF 1 =< s THEN Write(b, 1, m) ELSE b),
           NEW z, z = (IF 0 =< s THEN Write(c, 0, m) ELSE c)
    PROVE  WrittenTo(st, z, m, s, 0)
  <1>1. WrittenTo(st, st, m, s, 3 + 1)
    <2>1. ASSUME NEW u \in Severity PROVE Room(st, u, 1)
      OBVIOUS
    <2>2. \A u \in Severity : ~(u >= 3 + 1)
      BY Severities
    <2> QED BY <2>1, <2>2 DEF WrittenTo, Grows
  <1>2. 3 = 2 + 1 /\ 2 = 1 + 1 /\ 1 = 0 + 1 /\ 3 \in Severity /\ 2 \in Severity /\ 1 \in Severity
        /\ 0 \in Severity
    BY Severities
  <1>3. WrittenTo(st, a, m, s, 2 + 1)
    <2>1. a = IF 3 =< s /\ st.file[3] # NoFile THEN Write(st, 3, m) ELSE st
      OBVIOUS
    <2> QED BY <1>1, <1>2, <2>1, WrittenTurn
  <1>4. WrittenTo(st, b, m, s, 1 + 1)
    <2>1. 2 =< s => a.file[2] # NoFile
      BY <1>2, <1>3 DEF WrittenTo
    <2>2. b = IF 2 =< s /\ a.file[2] # NoFile THEN Write(a, 2, m) ELSE a
      BY <2>1
    <2> QED BY <1>2, <1>3, <2>2, WrittenTurn
  <1>5. WrittenTo(st, c, m, s, 0 + 1)
    <2>1. 1 =< s => b.file[1] # NoFile
      BY <1>2, <1>4 DEF WrittenTo
    <2>2. c = IF 1 =< s /\ b.file[1] # NoFile THEN Write(b, 1, m) ELSE b
      BY <2>1
    <2> QED BY <1>2, <1>4, <2>2, WrittenTurn
  <1>6. z = IF 0 =< s /\ c.file[0] # NoFile THEN Write(c, 0, m) ELSE c
    <2>1. 0 =< s => c.file[0] # NoFile
      BY <1>2, <1>5 DEF WrittenTo
    <2> QED BY <2>1
  <1> QED BY <1>2, <1>5, <1>6, WrittenTurn

\* What output writes for a message is kept in the files of its severity and of all lower ones.
LEMMA WrittenStep ==
    ASSUME LogInv, NEW g \in Callers, lpc[g] = "output", SlowEnough, ~flags.logFile,
           NEW z, z = Written(g)
    PROVE  /\ FilesOK(z) /\ Below(z) /\ Grows(Now, z)
           /\ ~flags.toStderr => \A u \in 0 .. lmsg[g].sev : Kept(z, lmsg[g], u)
  <1>1. /\ second \in 0 .. MaxClock /\ FilesOK(Now) /\ Below(Now) /\ BuffersOK
    BY DEF LogInv
  <1>2. PICK m \in Msgs : m = lmsg[g] /\ m = text[lbuf[g]]
    BY <1>1 DEF BuffersOK
  <1>3. PICK s \in Severity : s = m.sev
    BY DEF Msgs
  <1>4. \A u \in Severity : Room(Now, u, 2)
    BY DEF SlowEnough, Room, Now
  <1>5. PICK n : n = createFiles(Now, s)
    OBVIOUS
  <1>6. /\ FilesOK(n) /\ Grows(Now, n) /\ Below(n)
        /\ \A u \in 0 .. s : n.file[u] # NoFile
        /\ \A u \in Severity : Room(n, u, 2)
    BY <1>1, <1>4, <1>5, CreateFilesStep
  <1>7. PICK w : w = IF flags.toStderr THEN Now ELSE WriteAll(Now, s, m)
    OBVIOUS
  <1>8. /\ FilesOK(w) /\ Below(w) /\ Grows(Now, w)
        /\ ~flags.toStderr => \A u \in 0 .. s : Kept(w, m, u)
        /\ \A u \in Severity : Room(w, u, 1)
    <2>1. CASE flags.toStderr
      <3>1. w = Now /\ Grows(Now, w)
        BY <1>7, <2>1 DEF Grows
      <3>2. \A u \in Severity : Room(w, u, 1)
        BY <1>1, <1>4, <3>1, RoomLess
      <3> QED BY <1>1, <2>1, <3>1, <3>2
    <2>2. CASE ~flags.toStderr
      <3>1. PICK a : a = IF 3 =< s THEN Write(n, 3, m) ELSE n
        OBVIOUS
      <3>2. PICK b : b = IF 2 =< s THEN Write(a, 2, m) ELSE a
        OBVIOUS
      <3>3. PICK c : c = IF 1 =< s THEN Write(b, 1, m) ELSE b
        OBVIOUS
      <3>4. w = IF 0 =< s THEN Write(c, 0, m) ELSE c
        BY <1>5, <1>7, <2>2, <3>1, <3>2, <3>3, Zenon DEF WriteAll, Down
      <3>5. WrittenTo(n, w, m, s, 0)
        <4>1. \A u \in Severity : Room(n, u, 1)
          BY <1>6, RoomLess
        <4>2. \A u \in {0, 1, 2, 3} : u \in Severity /\ (u =< s => n.file[u] # NoFile)
          BY <1>6, Severities
        <4> QED BY <1>1, <1>6, <3>1, <3>2, <3>3, <3>4, <4>1, <4>2, WriteAllLoop
      <3>6. \A u \in 0 .. s : u \in Severity /\ u >= 0 /\ u =< s
        BY Severities
      <3>7. \A u \in 0 .. s : Kept(w, m, u)
        BY <1>6, <3>5, <3>6 DEF WrittenTo
      <3>8. Below(w)
        <4>1. \A u \in Severity : \A v \in 0 .. u : v \in Severity
          BY Severities
        <4> QED BY <1>6, <3>5, <4>1 DEF WrittenTo, Below
      <3>9. Grows(Now, w)
        BY <1>6, <3>5 DEF WrittenTo, Grows
      <3> QED BY <1>6, <3>5, <3>7, <3>8, <3>9 DEF WrittenTo
    <2> QED BY <2>1, <2>2
  <1>9. z = IF s = fatalLog /\ ~noStacks THEN WriteTrace(w) ELSE w
    BY <1>2, <1>3, <1>7 DEF Written
  <1>10. CASE s = fatalLog /\ ~noStacks
    <2>1. PICK a : a = IF w.file[3] = NoFile THEN w ELSE Write(w, 3, Nothing)
      OBVIOUS
    <2>2. PICK b : b = IF a.file[2] = NoFile THEN a ELSE Write(a, 2, Nothing)
      OBVIOUS
    <2>3. PICK c : c = IF b.file[1] = NoFile THEN b ELSE Write(b, 1, Nothing)
      OBVIOUS
    <2>4. z = IF c.file[0] = NoFile THEN c ELSE Write(c, 0, Nothing)
      BY <1>9, <1>10, <2>1, <2>2, <2>3, Zenon DEF WriteTrace, Down
    <2>5. PICK x \in Msgs : x = Nothing
      <3>1. infoLog \in Severity
        BY Severities DEF infoLog
      <3> QED BY <3>1 DEF Nothing, Msgs
    <2>6. WrittenTo(w, z, x, 3, 0)
      <3>1. 3 \in Severity /\ 3 =< 3 /\ 2 =< 3 /\ 1 =< 3 /\ 0 =< 3
        BY Severities
      <3>2. /\ a = IF 3 =< 3 /\ w.file[3] # NoFile THEN Write(w, 3, x) ELSE w
            /\ b = IF 2 =< 3 /\ a.file[2] # NoFile THEN Write(a, 2, x) ELSE a
            /\ c = IF 1 =< 3 /\ b.file[1] # NoFile THEN Write(b, 1, x) ELSE b
            /\ z = IF 0 =< 3 /\ c.file[0] # NoFile THEN Write(c, 0, x) ELSE c
        BY <2>1, <2>2, <2>3, <2>4, <2>5, <3>1
      <3> QED BY <1>1, <1>8, <3>1, <3>2, WrittenLoop
    <2>7. \A u \in 0 .. s : u \in Severity
      BY Severities
    <2>8. Below(z)
      <3>1. \A u \in Severity : \A v \in 0 .. u : v \in Severity
        BY Severities
      <3> QED BY <1>8, <2>6, <3>1 DEF WrittenTo, Below
    <2> QED BY <1>2, <1>3, <1>8, <2>6, <2>7, <2>8 DEF WrittenTo, Grows
  <1>11. CASE ~(s = fatalLog /\ ~noStacks)
    BY <1>2, <1>3, <1>8, <1>9, <1>11
  <1> QED BY <1>10, <1>11

\* Zero is no buffer.
LEMMA BufferFacts == 0 \notin Buffers /\ Buffers \subseteq Nat
  BY LogAssumption, FS_CardinalityType DEF Buffers

\* What Keep keeps.
LEMMA KeepNow ==
    ASSUME NEW z, Keep(z), FilesOK(z)
    PROVE  Now' = z
  <1>1. z \in FileStates
    BY DEF FilesOK
  <1> QED BY <1>1 DEF Keep, Now, FileStates

\* Messages stay where they are.
LEMMA ReachedStays ==
    ASSUME LogInv, UNCHANGED flags, stderr \subseteq stderr',
           ~flags.logFile => Grows(Now, Now')
    PROVE  \A m \in logged \cup due : Reached(m)'
  <1> SUFFICES ASSUME NEW m \in logged \cup due PROVE Reached(m)'
    OBVIOUS
  <1>1. Reached(m) /\ m \in Msgs
    BY DEF LogInv
  <1>2. \A s \in 0 .. m.sev : s \in Severity
    BY <1>1, Severities DEF Msgs
  <1>3. ~flags.logFile => \A s \in 0 .. m.sev : Kept(Now, m, s) => Kept(Now', m, s)
    BY <1>2 DEF Grows
  <1> QED BY <1>1, <1>3 DEF Reached

\* What was on disk when the process ends stays there.
LEMMA DueStays ==
    ASSUME LogInv, UNCHANGED <<flags, due>>, ~flags.logFile => Grows(Now, Now'),
           \A g \in Callers : lpc'[g] = "flushed" <=> lpc[g] = "flushed",
           code' = code \/ code' \notin {1, 255}
    PROVE  DueOK'
  <1>1. DueOK /\ due \subseteq Msgs
    BY DEF LogInv
  <1>2. ASSUME NEW g \in Callers, lpc'[g] = "flushed", ~flags.toStderr, ~flags.logFile,
               NEW m \in due, NEW s \in 0 .. m.sev
        PROVE  Durable(Now', m, s)
    <2>1. s \in Severity
      BY <1>1, Severities DEF Msgs
    <2>2. Durable(Now, m, s)
      BY <1>1, <1>2 DEF DueOK
    <2> QED BY <1>2, <2>1, <2>2 DEF Grows
  <1>3. code' \in {1, 255} => \E g \in Callers : lpc'[g] = "flushed"
    BY <1>1 DEF DueOK
  <1> QED BY <1>2, <1>3 DEF DueOK

\* A caller takes a buffer that nobody else uses.
LEMMA TakeBuffer ==
    ASSUME BuffersOK, NEW g \in Callers, lpc[g] = "idle", NEW b \in Buffers, getBuffer(b),
           NEW m \in Msgs, lbuf' = [lbuf EXCEPT ![g] = b], text' = [text EXCEPT ![b] = m],
           lmsg' = [lmsg EXCEPT ![g] = m], lpc' = [lpc EXCEPT ![g] = "output"]
    PROVE  BuffersOK'
  <1>1. \A h \in Callers : b # lbuf[h]
    <2>1. CASE freeList = <<>>
      BY <2>1 DEF getBuffer, Unused, Range, BuffersOK
    <2>2. CASE freeList # <<>>
      <3>1. b = freeList[1] /\ 1 \in 1 .. Len(freeList)
        BY <2>2 DEF getBuffer, BuffersOK
      <3> QED BY <3>1 DEF BuffersOK
    <2> QED BY <2>1, <2>2
  <1>2. /\ freeList' \in Seq(Buffers)
        /\ \A i \in 1 .. Len(freeList') : freeList'[i] # b /\ \A h \in Callers : freeList'[i] # lbuf[h]
        /\ \A i, j \in 1 .. Len(freeList') : i # j => freeList'[i] # freeList'[j]
    <2>1. CASE freeList = <<>>
      BY <2>1 DEF getBuffer, BuffersOK
    <2>2. CASE freeList # <<>>
      <3>1. b = freeList[1] /\ freeList' = Tail(freeList) /\ freeList \in Seq(Buffers)
        BY <2>2 DEF getBuffer, BuffersOK
      <3>2. /\ freeList' \in Seq(Buffers)
            /\ \A i \in 1 .. Len(freeList') : /\ i + 1 \in 1 .. Len(freeList) /\ i + 1 # 1
                                              /\ freeList'[i] = freeList[i + 1]
        BY <2>2, <3>1
      <3>3. 1 \in 1 .. Len(freeList)
        BY <2>2, <3>1
      <3>4. \A i \in 1 .. Len(freeList') : freeList'[i] # b
        BY <3>1, <3>2, <3>3 DEF BuffersOK
      <3>5. \A i \in 1 .. Len(freeList') : \A h \in Callers : freeList'[i] # lbuf[h]
        BY <3>2 DEF BuffersOK
      <3>6. \A i, j \in 1 .. Len(freeList') : i # j => freeList'[i] # freeList'[j]
        <4>1. \A i, j \in 1 .. Len(freeList') : i # j => i + 1 # j + 1
          OBVIOUS
        <4> QED BY <3>2, <4>1 DEF BuffersOK
      <3> QED BY <3>2, <3>4, <3>5, <3>6
    <2> QED BY <2>1, <2>2
  <1>3. b # 0
    BY BufferFacts
  <1>4. /\ lbuf' \in [Callers -> Buffers \cup {0}] /\ text' \in [Buffers -> Msgs]
        /\ lmsg' \in [Callers -> Msgs]
        /\ lpc' \in [Callers -> {"idle", "output", "fatal", "flushed"}]
    BY DEF BuffersOK
  <1>5. /\ lbuf'[g] = b /\ text'[b] = m /\ lmsg'[g] = m /\ lpc'[g] = "output"
        /\ \A h \in Callers \ {g} : lbuf'[h] = lbuf[h] /\ lmsg'[h] = lmsg[h] /\ lpc'[h] = lpc[h]
        /\ \A h \in Callers : lbuf[h] \in Buffers => text'[lbuf[h]] = text[lbuf[h]]
    BY <1>1 DEF BuffersOK
  <1>6. \A h \in Callers : lpc'[h] = "idle" <=> lbuf'[h] = 0
    BY <1>3, <1>5 DEF BuffersOK
  <1>7. \A h, k \in Callers : h # k /\ lbuf'[h] = lbuf'[k] => lbuf'[h] = 0
    BY <1>1, <1>5 DEF BuffersOK
  <1>8. \A i \in 1 .. Len(freeList') : \A h \in Callers : freeList'[i] # lbuf'[h]
    BY <1>2, <1>5
  <1>9. ASSUME NEW h \in Callers, lpc'[h] = "output" PROVE text'[lbuf'[h]] = lmsg'[h]
    <2>1. CASE h = g
      BY <1>5, <2>1
    <2>2. CASE h # g
      <3>1. lbuf[h] \in Buffers /\ text[lbuf[h]] = lmsg[h]
        BY <1>5, <1>9, <2>2 DEF BuffersOK
      <3> QED BY <1>5, <2>2, <3>1
    <2> QED BY <2>1, <2>2
  <1> QED BY <1>2, <1>4, <1>6, <1>7, <1>8, <1>9 DEF BuffersOK

\* A caller is done with its buffer, which goes to the free list or is dropped.
LEMMA LeaveBuffer ==
    ASSUME BuffersOK, NEW g \in Callers, lpc[g] = "output",
           freeList' = freeList \/ freeList' = <<lbuf[g]>> \o freeList,
           lbuf' = [lbuf EXCEPT ![g] = 0], lpc' = [lpc EXCEPT ![g] = "idle"],
           UNCHANGED <<text, lmsg>>
    PROVE  BuffersOK'
  <1>1. PICK b \in Buffers : b = lbuf[g]
    BY DEF BuffersOK
  <1>2. /\ lbuf'[g] = 0 /\ lpc'[g] = "idle"
        /\ \A h \in Callers \ {g} : lbuf'[h] = lbuf[h] /\ lpc'[h] = lpc[h]
        /\ lbuf' \in [Callers -> Buffers \cup {0}]
        /\ lpc' \in [Callers -> {"idle", "output", "fatal", "flushed"}]
    BY DEF BuffersOK
  <1>3. b # 0 /\ \A h \in Callers \ {g} : b # lbuf[h]
    BY <1>1, BufferFacts DEF BuffersOK
  <1>4. \A h \in Callers : b # lbuf'[h]
    BY <1>2, <1>3
  <1>5. /\ freeList \in Seq(Buffers)
        /\ \A i \in 1 .. Len(freeList) : freeList[i] # b /\ freeList[i] \in Buffers
        /\ \A i \in 1 .. Len(freeList) : \A h \in Callers : freeList[i] # lbuf'[h]
    <2>1. freeList \in Seq(Buffers) /\ \A i \in 1 .. Len(freeList) : freeList[i] \in Buffers
      BY DEF BuffersOK
    <2> QED BY <1>1, <1>2, <2>1, BufferFacts DEF BuffersOK
  <1>6. /\ freeList' \in Seq(Buffers)
        /\ \A i \in 1 .. Len(freeList') : \A h \in Callers : freeList'[i] # lbuf'[h]
        /\ \A i, j \in 1 .. Len(freeList') : i # j => freeList'[i] # freeList'[j]
    <2>1. CASE freeList' = freeList
      BY <1>5, <2>1 DEF BuffersOK
    <2>2. CASE freeList' = <<b>> \o freeList
      <3>1. freeList' \in Seq(Buffers) /\ Len(freeList') = Len(freeList) + 1 /\ Len(freeList) \in Nat
        BY <1>5, <2>2
      <3>2. \A i \in 1 .. Len(freeList') :
              freeList'[i] = IF i = 1 THEN b ELSE freeList[i - 1]
        <4>1. PICK one : one = <<b>>
          OBVIOUS
        <4>2. one \in Seq(Buffers) /\ Len(one) = 1 /\ one[1] = b
          BY <4>1
        <4>3. ASSUME NEW i \in 1 .. Len(freeList')
              PROVE  freeList'[i] = IF i =< Len(one) THEN one[i] ELSE freeList[i - Len(one)]
          BY <1>5, <2>2, <3>1, <4>1, <4>2
        <4>4. \A i \in 1 .. Len(freeList') : i =< 1 <=> i = 1
          BY <3>1
        <4> QED BY <4>2, <4>3, <4>4
      <3>3. \A i \in 1 .. Len(freeList') : i # 1 => i - 1 \in 1 .. Len(freeList)
        BY <3>1
      <3>4. \A i \in 1 .. Len(freeList') : \A h \in Callers : freeList'[i] # lbuf'[h]
        <4> SUFFICES ASSUME NEW i \in 1 .. Len(freeList'), NEW h \in Callers
                     PROVE  freeList'[i] # lbuf'[h]
          OBVIOUS
        <4>1. CASE i = 1
          BY <1>4, <3>2, <4>1
        <4>2. CASE i # 1
          <5>1. i - 1 \in 1 .. Len(freeList) /\ freeList'[i] = freeList[i - 1]
            BY <3>2, <3>3, <4>2
          <5> QED BY <1>5, <5>1
        <4> QED BY <4>1, <4>2
      <3>5. ASSUME NEW i \in 1 .. Len(freeList'), NEW j \in 1 .. Len(freeList'), i # j
            PROVE  freeList'[i] # freeList'[j]
        <4>1. CASE i = 1
          <5>1. j - 1 \in 1 .. Len(freeList) /\ freeList'[j] = freeList[j - 1] /\ freeList'[i] = b
            BY <3>2, <3>3, <3>5, <4>1
          <5> QED BY <1>5, <5>1
        <4>2. CASE j = 1
          <5>1. i - 1 \in 1 .. Len(freeList) /\ freeList'[i] = freeList[i - 1] /\ freeList'[j] = b
            BY <3>2, <3>3, <3>5, <4>2
          <5> QED BY <1>5, <5>1
        <4>3. CASE i # 1 /\ j # 1
          <5>1. i - 1 # j - 1
            BY <3>5
          <5>2. i - 1 \in 1 .. Len(freeList) /\ j - 1 \in 1 .. Len(freeList)
            BY <3>3, <4>3
          <5>3. freeList'[i] = freeList[i - 1] /\ freeList'[j] = freeList[j - 1]
            BY <3>2, <4>3
          <5>4. \A k, l \in 1 .. Len(freeList) : k # l => freeList[k] # freeList[l]
            BY Zenon DEF BuffersOK
          <5> QED BY <5>1, <5>2, <5>3, <5>4, Zenon
        <4> QED BY <4>1, <4>2, <4>3
      <3> QED BY <3>1, <3>4, <3>5
    <2> QED BY <1>1, <2>1, <2>2
  <1>7. \A h \in Callers : lpc'[h] = "idle" <=> lbuf'[h] = 0
    BY <1>2 DEF BuffersOK
  <1>8. \A h, k \in Callers : h # k /\ lbuf'[h] = lbuf'[k] => lbuf'[h] = 0
    BY <1>2 DEF BuffersOK
  <1>9. \A h \in Callers : lpc'[h] = "output" => text'[lbuf'[h]] = lmsg'[h]
    BY <1>2 DEF BuffersOK
  <1> QED BY <1>2, <1>6, <1>7, <1>8, <1>9 DEF BuffersOK

\* A caller that keeps its buffer goes on.
LEMMA KeepBuffer ==
    ASSUME BuffersOK, NEW g \in Callers, lpc[g] # "idle", NEW l \in {"fatal", "flushed"},
           lpc' = [lpc EXCEPT ![g] = l], UNCHANGED <<lbuf, freeList, text, lmsg>>
    PROVE  BuffersOK'
  <1>1. /\ lpc' \in [Callers -> {"idle", "output", "fatal", "flushed"}]
        /\ lpc'[g] = l /\ \A h \in Callers \ {g} : lpc'[h] = lpc[h]
    BY DEF BuffersOK
  <1> QED BY <1>1 DEF BuffersOK

\* A message is formatted.
LEMMA PrintPreserves ==
    ASSUME LogInv, NEW g \in Callers, NEW s \in Severity, NEW exits, printDepth(g, s, exits)
    PROVE  LogInv'
  <1>1. /\ lpc[g] = "idle" /\ lpc' = [lpc EXCEPT ![g] = "output"] /\ count' = count + 1
        /\ lmsg' = [lmsg EXCEPT ![g] = header(s)]
        /\ UNCHANGED <<flags, file, disk, stderr, logged, second, due, code>>
    BY DEF printDepth
  <1>2. count \in Nat /\ count + 1 \in Nat
    BY DEF LogInv
  <1>3. header(s) \in Msgs
    BY <1>2 DEF header, Msgs
  <1>4. PICK b \in Buffers : /\ getBuffer(b) /\ lbuf' = [lbuf EXCEPT ![g] = b]
                             /\ text' = [text EXCEPT ![b] = header(s)]
    BY DEF printDepth
  <1>5. BuffersOK'
    <2>1. BuffersOK
      BY DEF LogInv
    <2>2. PICK m \in Msgs : m = header(s)
      BY <1>3
    <2> QED BY <1>1, <1>4, <2>1, <2>2, TakeBuffer
  <1>6. Now' = Now /\ Grows(Now, Now')
    BY <1>1 DEF Now, Grows
  <1>7. \A h \in Callers : lpc'[h] = "flushed" <=> lpc[h] = "flushed"
    BY <1>1 DEF LogInv, BuffersOK
  <1>8. DueOK'
    BY <1>1, <1>6, <1>7, DueStays
  <1>9. \A m \in logged \cup due : Reached(m)'
    BY <1>1, <1>6, ReachedStays
  <1>10. ~flags'.logFile => FilesOK(Now)' /\ Below(Now)'
    BY <1>1, <1>6 DEF LogInv, FilesOK, Below
  <1> QED BY <1>1, <1>2, <1>5, <1>8, <1>9, <1>10 DEF LogInv

\* A message is written.
LEMMA OutputPreserves ==
    ASSUME LogInv, NEW g \in Callers, NEW big \in BOOLEAN, Output(g, big)
    PROVE  LogInv'
  <1>1. /\ lpc[g] = "output" /\ SlowEnough /\ Keep(Written(g))
        /\ UNCHANGED <<flags, text, lmsg, count, second, code>>
    BY DEF Output
  <1>2. BuffersOK /\ logged \subseteq Msgs /\ due \subseteq Msgs
    BY DEF LogInv
  <1>3. PICK m \in Msgs : m = lmsg[g] /\ m = text[lbuf[g]]
    BY <1>1, <1>2 DEF BuffersOK
  <1>4. /\ stderr \subseteq stderr'
        /\ flags.toStderr => m \in stderr'
    BY <1>3 DEF Output, ToStderr
  <1>5. ~flags.logFile => /\ FilesOK(Now') /\ Below(Now') /\ Grows(Now, Now')
                          /\ ~flags.toStderr => \A u \in 0 .. m.sev : Kept(Now', m, u)
    <2> SUFFICES ASSUME ~flags.logFile
                 PROVE  /\ FilesOK(Now') /\ Below(Now') /\ Grows(Now, Now')
                        /\ ~flags.toStderr => \A u \in 0 .. m.sev : Kept(Now', m, u)
      OBVIOUS
    <2>1. PICK z : z = Written(g)
      OBVIOUS
    <2>2. /\ FilesOK(z) /\ Below(z) /\ Grows(Now, z)
          /\ ~flags.toStderr => \A u \in 0 .. m.sev : Kept(z, m, u)
      BY <1>1, <1>3, <2>1, WrittenStep
    <2>3. Now' = z
      BY <1>1, <2>1, <2>2, KeepNow
    <2> QED BY <2>2, <2>3
  <1>6. ~flags'.logFile => FilesOK(Now)' /\ Below(Now)'
    BY <1>1, <1>5 DEF FilesOK, Below
  <1>7. \A x \in logged \cup due : Reached(x)'
    BY <1>1, <1>4, <1>5, ReachedStays
  <1>8. Reached(m)'
    BY <1>1, <1>4, <1>5 DEF Reached
  <1>9. CASE lmsg[g].sev = fatalLog
    <2>1. /\ lpc' = [lpc EXCEPT ![g] = "fatal"] /\ UNCHANGED <<freeList, lbuf, logged>>
          /\ due' = IF \E h \in Callers : lpc[h] \in {"fatal", "flushed"}
                    THEN due ELSE logged \cup {m}
      BY <1>3, <1>9 DEF Output
    <2>2. BuffersOK'
      BY <1>1, <1>2, <2>1, KeepBuffer
    <2>3. \A h \in Callers : lpc'[h] = "flushed" <=> lpc[h] = "flushed"
      BY <1>1, <1>2, <2>1 DEF BuffersOK
    <2>4. DueOK'
      <3>1. CASE due' = due
        BY <1>1, <1>5, <2>3, <3>1, DueStays
      <3>2. CASE due' # due
        <4>1. \A h \in Callers : lpc'[h] # "flushed"
          BY <2>1, <2>3, <3>2
        <4>2. code' \notin {1, 255}
          BY <1>1, <2>3, <4>1 DEF LogInv, DueOK
        <4> QED BY <4>1, <4>2 DEF DueOK
      <3> QED BY <3>1, <3>2
    <2>5. due' \subseteq Msgs /\ logged' \subseteq Msgs
      BY <1>2, <2>1
    <2>6. \A x \in logged' \cup due' : Reached(x)'
      BY <1>7, <1>8, <2>1
    <2> QED BY <1>1, <1>6, <2>2, <2>4, <2>5, <2>6 DEF LogInv
  <1>10. CASE lmsg[g].sev # fatalLog
    <2>1. /\ lpc' = [lpc EXCEPT ![g] = "idle"] /\ lbuf' = [lbuf EXCEPT ![g] = 0]
          /\ logged' = logged \cup {m} /\ UNCHANGED due
          /\ freeList' = freeList \/ freeList' = <<lbuf[g]>> \o freeList
      BY <1>3, <1>10 DEF Output, putBuffer
    <2>2. BuffersOK'
      BY <1>1, <1>2, <2>1, LeaveBuffer
    <2>3. \A h \in Callers : lpc'[h] = "flushed" <=> lpc[h] = "flushed"
      BY <1>1, <1>2, <2>1 DEF BuffersOK
    <2>4. DueOK'
      BY <1>1, <1>5, <2>1, <2>3, DueStays
    <2>5. \A x \in logged' \cup due' : Reached(x)'
      BY <1>7, <1>8, <2>1
    <2> QED BY <1>1, <1>2, <1>6, <2>1, <2>2, <2>4, <2>5 DEF LogInv
  <1> QED BY <1>9, <1>10

\* A flush of all files keeps everything, and leaves it on disk.
LEMMA FlushPreserves ==
    ASSUME LogInv, Keep(flushAll(Now)) \/ UNCHANGED <<file, disk>>, UNCHANGED second
    PROVE  ~flags.logFile => /\ FilesOK(Now)' /\ Below(Now)' /\ Grows(Now, Now')
                             /\ \/ UNCHANGED <<file, disk>>
                                \/ \A s \in Severity : \A m : Kept(Now, m, s) => Durable(Now', m, s)
  <1> SUFFICES ASSUME ~flags.logFile
               PROVE  /\ FilesOK(Now)' /\ Below(Now)' /\ Grows(Now, Now')
                      /\ \/ UNCHANGED <<file, disk>>
                         \/ \A s \in Severity : \A m : Kept(Now, m, s) => Durable(Now', m, s)
    OBVIOUS
  <1>1. FilesOK(Now) /\ Below(Now)
    BY DEF LogInv
  <1>2. CASE UNCHANGED <<file, disk>>
    <2>1. Now' = Now
      BY <1>2 DEF Now
    <2> QED BY <1>1, <1>2, <2>1 DEF FilesOK, Below, Grows
  <1>3. CASE Keep(flushAll(Now))
    <2>1. PICK z : z = flushAll(Now)
      OBVIOUS
    <2>2. FlushedTo(Now, z, 0)
      BY <1>1, <2>1, FlushAllStep
    <2>3. FilesOK(z) /\ Grows(Now, z)
      BY <2>2 DEF FlushedTo
    <2>4. Now' = z
      BY <1>3, <2>1, <2>3, KeepNow
    <2>5. Below(z)
      <3>1. \A s \in Severity : \A t \in 0 .. s : t \in Severity
        BY Severities
      <3> QED BY <1>1, <2>2, <3>1 DEF FlushedTo, Below
    <2>6. \A s \in Severity : \A m : Kept(Now, m, s) => Durable(z, m, s)
      <3>1. \A s \in Severity : s >= 0
        BY Severities
      <3> QED BY <2>2, <3>1 DEF FlushedTo
    <2> QED BY <2>3, <2>4, <2>5, <2>6 DEF FilesOK, Below
  <1> QED BY <1>2, <1>3

\* A file cannot be made or written.
LEMMA OutputFailsPreserves ==
    ASSUME LogInv, NEW g \in Callers, NEW makes \in BOOLEAN, OutputFails(g, makes)
    PROVE  LogInv'
  <1>1. /\ lpc[g] = "output" /\ stderr \subseteq stderr'
        /\ UNCHANGED <<flags, freeList, text, lmsg, count, logged, second, due>>
        /\ code' = code \/ code' = 2
    BY DEF OutputFails
  <1>2. Keep(flushAll(Now)) \/ UNCHANGED <<file, disk>>
    BY DEF OutputFails, Keep, Now
  <1>3. ~flags.logFile => FilesOK(Now)' /\ Below(Now)' /\ Grows(Now, Now')
    BY <1>1, <1>2, FlushPreserves
  <1>4. BuffersOK
    BY DEF LogInv
  <1>5. /\ BuffersOK'
        /\ \A h \in Callers : lpc'[h] = "flushed" <=> lpc[h] = "flushed"
    <2>1. CASE lpc' = [lpc EXCEPT ![g] = "idle"] /\ lbuf' = [lbuf EXCEPT ![g] = 0]
      <3>1. BuffersOK'
        BY <1>1, <1>4, <2>1, LeaveBuffer
      <3> QED BY <1>1, <1>4, <2>1, <3>1 DEF BuffersOK
    <2>2. CASE UNCHANGED <<lpc, lbuf>>
      BY <1>1, <1>4, <2>2 DEF BuffersOK
    <2> QED BY <2>1, <2>2 DEF OutputFails
  <1>6. DueOK'
    BY <1>1, <1>3, <1>5, DueStays
  <1>7. \A m \in logged \cup due : Reached(m)'
    BY <1>1, <1>3, ReachedStays
  <1> QED BY <1>1, <1>3, <1>5, <1>6, <1>7 DEF LogInv

\* The flush of a fatal message.
LEMMA TimeoutFlushPreserves ==
    ASSUME LogInv, NEW g \in Callers, timeoutFlush(g)
    PROVE  LogInv'
  <1>1. /\ lpc[g] = "fatal" /\ code = Running /\ Keep(flushAll(Now))
        /\ lpc' = [lpc EXCEPT ![g] = "flushed"]
        /\ UNCHANGED <<flags, stderr, freeList, text, lbuf, lmsg, count, logged, second, due, code>>
    BY DEF timeoutFlush
  <1>2. BuffersOK /\ due \subseteq Msgs
    BY DEF LogInv
  <1>3. BuffersOK'
    BY <1>1, <1>2, KeepBuffer
  <1>4. ~flags.logFile => /\ FilesOK(Now)' /\ Below(Now)' /\ Grows(Now, Now')
                          /\ \A s \in Severity : \A m : Kept(Now, m, s) => Durable(Now', m, s)
    <2> SUFFICES ASSUME ~flags.logFile
                 PROVE  /\ FilesOK(Now)' /\ Below(Now)' /\ Grows(Now, Now')
                        /\ \A s \in Severity : \A m : Kept(Now, m, s) => Durable(Now', m, s)
      OBVIOUS
    <2>1. PICK z : z = flushAll(Now)
      OBVIOUS
    <2>2. FlushedTo(Now, z, 0)
      BY <2>1, FlushAllStep DEF LogInv
    <2>3. Now' = z
      BY <1>1, <2>1, <2>2, KeepNow DEF FlushedTo
    <2>4. \A s \in Severity : s >= 0
      BY Severities
    <2>5. FilesOK(Now)' /\ Below(Now)' /\ Grows(Now, Now')
      BY <1>1, FlushPreserves
    <2> QED BY <2>2, <2>3, <2>4, <2>5 DEF FlushedTo
  <1>5. \A m \in logged \cup due : Reached(m)'
    BY <1>1, <1>4, ReachedStays
  <1>6. DueOK'
    <2>1. ASSUME ~flags.toStderr, ~flags.logFile, NEW m \in due, NEW s \in 0 .. m.sev
          PROVE  Durable(Now', m, s)
      <3>1. s \in Severity
        BY <1>2, Severities DEF Msgs
      <3>2. Kept(Now, m, s)
        BY <2>1 DEF LogInv, Reached
      <3> QED BY <1>4, <2>1, <3>1, <3>2
    <2>2. code' \notin {1, 255}
      BY <1>1 DEF Running
    <2> QED BY <1>1, <2>1, <2>2 DEF DueOK
  <1> QED BY <1>1, <1>2, <1>3, <1>4, <1>5, <1>6 DEF LogInv

\* The daemon's flush, the end of the process, and time: no caller moves.
LEMMA OthersPreserve ==
    ASSUME LogInv,
           FlushDaemon \/ Tick \/ UNCHANGED logVars
             \/ \E g \in Callers : FlushTimesOut(g) \/ OsExit(g)
    PROVE  LogInv'
  <1>1. UNCHANGED <<flags, stderr, freeList, text, lpc, lbuf, lmsg, count, logged, due>>
    BY DEF FlushDaemon, Tick, FlushTimesOut, OsExit, logVars
  <1>2. BuffersOK'
    BY <1>1 DEF LogInv, BuffersOK
  <1>3. /\ second' \in 0 .. MaxClock
        /\ ~flags.logFile => FilesOK(Now)' /\ Below(Now)' /\ Grows(Now, Now')
    <2>1. second \in 0 .. MaxClock
      BY DEF LogInv
    <2>2. CASE second' = second
      <3>1. Keep(flushAll(Now)) \/ UNCHANGED <<file, disk>>
        BY DEF FlushDaemon, Tick, FlushTimesOut, OsExit, logVars
      <3> QED BY <2>1, <2>2, <3>1, FlushPreserves
    <2>3. CASE Tick
      <3>1. Now' = Now /\ second' = second + 1 /\ second < MaxClock
        BY <2>3 DEF Tick, Now
      <3>2. second' \in 0 .. MaxClock
        BY <2>1, <3>1, LogAssumption
      <3>3. ASSUME FilesOK(Now) PROVE FilesOK(Now)'
        <4>1. \A s \in Severity : Now.file[s] # NoFile => Now.file[s].name[2] \in 0 .. MaxClock
          BY <3>3 DEF FilesOK, FileStates, OpenFiles, FileNames
        <4>2. \A n \in 0 .. MaxClock : n =< second => n =< second'
          BY <2>1, <3>1
        <4>3. \A s \in Severity : Now.file[s] # NoFile => Now.file[s].name[2] =< second'
          BY <3>3, <4>1, <4>2 DEF FilesOK
        <4> QED BY <3>1, <3>3, <4>3 DEF FilesOK
      <3> QED BY <3>1, <3>2, <3>3 DEF LogInv, Below, Grows
    <2> QED BY <2>2, <2>3 DEF FlushDaemon, FlushTimesOut, OsExit, logVars
  <1>4. \A m \in logged \cup due : Reached(m)'
    BY <1>1, <1>3, ReachedStays
  <1>5. DueOK'
    <2>1. CASE \E g \in Callers : OsExit(g)
      <3>1. \E g \in Callers : lpc'[g] = "flushed"
        BY <1>1, <2>1 DEF OsExit
      <3>2. UNCHANGED <<file, disk>>
        BY <2>1 DEF OsExit
      <3> QED BY <1>1, <3>1, <3>2 DEF LogInv, DueOK, Durable, Now
    <2>2. CASE ~\E g \in Callers : OsExit(g)
      <3>1. code' = code \/ code' = TimedOut
        BY <2>2 DEF FlushDaemon, Tick, FlushTimesOut, logVars
      <3>2. code' = code \/ code' \notin {1, 255}
        BY <3>1 DEF TimedOut
      <3> QED BY <1>1, <1>3, <3>2, DueStays
    <2> QED BY <2>1, <2>2
  <1> QED BY <1>1, <1>2, <1>3, <1>4, <1>5 DEF LogInv

\* At startup there is no file and no message.
LEMMA LogInitInv ==
    ASSUME LogInit
    PROVE  LogInv
  <1>1. 0 \in 0 .. MaxClock /\ Running \notin {1, 255}
    BY LogAssumption DEF Running
  <1>2. Nothing \in Msgs
    <2>1. infoLog \in Severity
      BY Severities DEF infoLog
    <2> QED BY <2>1 DEF Nothing, Msgs
  <1>3. BuffersOK
    BY <1>2 DEF LogInit, BuffersOK
  <1>4. Now \in FileStates /\ \A s \in Severity : Now.file[s] = NoFile
    BY DEF LogInit, Now, FileStates
  <1>5. \A s \in Severity, t \in 0 .. MaxClock : Now.disk[<<s, t>>] = {}
    BY DEF LogInit, Now, FileNames
  <1>6. FilesOK(Now) /\ Below(Now)
    BY <1>4, <1>5 DEF FilesOK, Below
  <1>7. DueOK
    BY <1>1 DEF LogInit, DueOK
  <1> QED BY <1>1, <1>3, <1>6, <1>7 DEF LogInit, LogInv

\* The invariant of the log, kept by every section under mu.
THEOREM LogInvariant == LogSpec => []LogInv
  <1>1. LogInit => LogInv
    BY LogInitInv
  <1>2. LogInv /\ [LogNext]_logVars => LogInv'
    <2> SUFFICES ASSUME LogInv, [LogNext]_logVars PROVE LogInv'
      OBVIOUS
    <2>1. ASSUME NEW g \in Callers, NEW c \in Calls, printDepth(g, c[1], c[2]) PROVE LogInv'
      <3>1. c[1] \in Severity
        <4>1. CASE c \in Severity \X {FALSE}
          BY <4>1
        <4>2. CASE c = <<fatalLog, TRUE>>
          BY <4>2, Severities DEF fatalLog
        <4> QED BY <4>1, <4>2 DEF Calls
      <3> QED BY <2>1, <3>1, PrintPreserves
    <2> QED BY <2>1, OutputPreserves, OutputFailsPreserves, TimeoutFlushPreserves, OthersPreserve
            DEF LogNext
  <1> QED BY <1>1, <1>2, PTL DEF LogSpec

\* While the process runs no message is lost, for any number of callers and messages and any
\* size of files (alog.go, output, rotateFile, getBuffer, putBuffer).
THEOREM NothingLostHolds == LogSpec => []NothingLost
  <1>1. LogInv => NothingLost
    <2> SUFFICES ASSUME LogInv, NEW m \in logged, ~flags.logFile, ~flags.toStderr,
                        NEW s \in 0 .. m.sev
                 PROVE  Held(m, s) \/ OnDisk(m, s)
      BY DEF NothingLost, LogInv, Reached
    <2>1. Kept(Now, m, s)
      BY DEF LogInv, Reached
    <2> QED BY <2>1 DEF Kept, Durable, Now, Held, OnDisk
  <1> QED BY <1>1, LogInvariant, PTL

\* A process that a fatal message ends after its flush leaves that message and all output
\* before it on disk (alog.go, output, timeoutFlush, flushAll).
THEOREM FatalDurableHolds == LogSpec => []FatalDurable
  <1>1. LogInv => FatalDurable
    <2> SUFFICES ASSUME LogInv, code \in {1, 255}, ~flags.logFile, NEW m \in due
                 PROVE  IF flags.toStderr THEN m \in stderr
                        ELSE \A s \in 0 .. m.sev : OnDisk(m, s)
      BY DEF FatalDurable
    <2>1. flags.toStderr => m \in stderr
      BY DEF LogInv, Reached
    <2>2. ASSUME ~flags.toStderr, NEW s \in 0 .. m.sev PROVE OnDisk(m, s)
      <3>1. Durable(Now, m, s)
        BY <2>2 DEF LogInv, DueOK
      <3> QED BY <3>1 DEF Durable, Now, OnDisk
    <2> QED BY <2>1, <2>2
  <1> QED BY <1>1, LogInvariant, PTL

-----------------------------------------------------------------------------
(* The syncer of the agent.                                                *)

\* NotifyUpdate goes through the slice of an app.
Walking == notify.pc \in {"each", "add"}

\* The position it comes to next.
NextPos == IF notify.pc = "add" THEN notify.i + 1 ELSE notify.i

\* While the slice it took shares the array of the app's slice, the two agree.
ViewOK ==
    /\ ~Walking => ~notify.shared
    /\ Walking => notify.app \in Apps /\ notify.i # 0
    /\ notify.pc # "add" => notify.con = None
    /\ notify.pc = "add" => notify.con \in Conns
    /\ notify.shared => \A k \in 1 .. Len(notify.view) :
          k <= Len(apps[notify.app]) => notify.view[k] = apps[notify.app][k]

\* A connection is at a position that NotifyUpdate will come to, not in the part
\* of the array that the slice has given up.
Ahead(c) ==
    /\ Walking
    /\ \E k \in 1 .. Len(notify.view) :
          /\ NextPos <= k /\ notify.view[k] = c
          /\ notify.shared => k <= Len(apps[notify.app])

\* Every connection NotifyUpdate has to go through is tried, or still ahead of it.
ListedOK ==
    /\ notify.pc = "none" => listed = {}
    /\ \A c \in listed : <<c, updates>> \in tried \/ Ahead(c)

\* A pair that is neither told nor given up has a task, or one is about to be made.
HasPending(p) ==
    \/ \E i \in 1 .. Len(queue) : queue[i].conn = p[1] /\ queue[i].update = p[2]
    \/ \E w \in Workers : /\ hands[w] # None
                          /\ hands[w].conn = p[1] /\ hands[w].update = p[2]
    \/ notify.pc = "add" /\ notify.con = p[1] /\ p[2] = updates

\* Tried pairs are of updates so far, and each one that is unsettled has a task.
TriedOK ==
    /\ notify.pc # "none" => updates # 0
    /\ \A p \in tried : p[2] <= updates
    /\ \A p \in tried \ settled : HasPending(p)

\* The inductive invariant.
SyncInv == TypeOK /\ ViewOK /\ ListedOK /\ TriedOK

-----------------------------------------------------------------------------
\* append(s[:i-1], s[i:]...), with which CancelApp takes a connection out of the slice of
\* its app and a task out of the queue: the element at i is gone, those behind move up.
LEMMA WithoutProperties ==
    ASSUME NEW S, NEW s \in Seq(S), NEW i \in 1 .. Len(s)
    PROVE  /\ Without(s, i) \in Seq(S)
           /\ Len(Without(s, i)) = Len(s) - 1
           /\ \A k \in 1 .. Len(s) - 1 :
                 Without(s, i)[k] = IF k < i THEN s[k] ELSE s[k + 1]
  <1> DEFINE a == SubSeq(s, 1, i - 1)
             b == SubSeq(s, i + 1, Len(s))
  <1>1. /\ Len(s) \in Nat /\ i \in Int
        /\ \A k \in 1 .. i - 1 : s[k] \in S
        /\ \A k \in i + 1 .. Len(s) : s[k] \in S
    OBVIOUS
  <1>2. /\ a \in Seq(S) /\ Len(a) = i - 1
        /\ \A k \in 1 .. i - 1 : a[k] = s[k]
    <2>1. /\ SubSeq(s, 1, i - 1) \in Seq(S)
          /\ Len(SubSeq(s, 1, i - 1)) = IF 1 <= i - 1 THEN i - 1 - 1 + 1 ELSE 0
          /\ \A k \in 1 .. i - 1 - 1 + 1 : SubSeq(s, 1, i - 1)[k] = s[1 + k - 1]
      BY <1>1, SubSeqProperties
    <2> QED BY <1>1, <2>1
  <1>3. /\ b \in Seq(S) /\ Len(b) = Len(s) - i
        /\ \A k \in 1 .. Len(s) - i : b[k] = s[i + k]
    <2>1. /\ SubSeq(s, i + 1, Len(s)) \in Seq(S)
          /\ Len(SubSeq(s, i + 1, Len(s))) =
                IF i + 1 <= Len(s) THEN Len(s) - (i + 1) + 1 ELSE 0
          /\ \A k \in 1 .. Len(s) - (i + 1) + 1 : SubSeq(s, i + 1, Len(s))[k] = s[i + 1 + k - 1]
      BY <1>1, SubSeqProperties
    <2> QED BY <1>1, <2>1
  <1> HIDE DEF a, b
  <1>4. /\ a \o b \in Seq(S) /\ Len(a \o b) = Len(a) + Len(b)
        /\ \A k \in 1 .. Len(a) + Len(b) :
              (a \o b)[k] = IF k <= Len(a) THEN a[k] ELSE b[k - Len(a)]
    BY <1>2, <1>3, ConcatProperties
  <1>5. Without(s, i) = a \o b
    BY DEF Without, a, b
  <1>6. Len(a) + Len(b) = Len(s) - 1
    BY <1>1, <1>2, <1>3
  <1>7. ASSUME NEW k \in 1 .. Len(s) - 1
        PROVE  (a \o b)[k] = IF k < i THEN s[k] ELSE s[k + 1]
    <2>1. CASE k < i
      BY <1>1, <1>2, <1>4, <1>6, <2>1
    <2>2. CASE ~(k < i)
      <3>1. (a \o b)[k] = b[k - (i - 1)]
        BY <1>1, <1>2, <1>4, <1>6, <2>2
      <3>2. k - (i - 1) \in 1 .. Len(s) - i /\ i + (k - (i - 1)) = k + 1
        BY <1>1, <2>2
      <3>3. b[k - (i - 1)] = s[i + (k - (i - 1))]
        BY <1>3, <3>2
      <3> QED BY <2>2, <3>1, <3>2, <3>3
    <2> QED BY <2>1, <2>2
  <1> QED BY <1>4, <1>5, <1>6, <1>7

\* A set of numbers that is not empty has a least element.
LEMMA LeastNumber ==
    ASSUME NEW T \in SUBSET Nat, T # {}
    PROVE  \E x \in T : \A y \in T : x <= y
  <1> DEFINE R == {ss \in Nat \X Nat : ss[1] < ss[2]}
  <1>1. IsWellFoundedOn(R, Nat)
    BY NatLessThanWellFounded DEF OpToRel
  <1> HIDE DEF R
  <1>2. PICK x \in T : \A y \in T : ~(<<y, x>> \in R)
    BY <1>1, WFMin
  <1>3. ASSUME NEW y \in T PROVE x <= y
    <2>1. y < x => <<y, x>> \in R
      BY DEF R
    <2> QED BY <1>2, <2>1
  <1> QED BY <1>3

\* The position CancelApp finds in the slice of an app is one of the connection.
LEMMA IndexOfProperties ==
    ASSUME NEW s \in Seq(Conns), NEW c, IndexOf(s, c) # 0
    PROVE  IndexOf(s, c) \in 1 .. Len(s) /\ s[IndexOf(s, c)] = c
  <1> DEFINE P(i) == s[i] = c /\ \A j \in 1 .. i - 1 : s[j] # c
  <1>1. PICK i \in 1 .. Len(s) : s[i] = c
    BY DEF IndexOf
  <1>2. \E m \in 1 .. Len(s) : P(m)
    <2>1. PICK T : T = {m \in 1 .. Len(s) : s[m] = c}
      OBVIOUS
    <2>2. T \in SUBSET Nat /\ T # {}
      BY <1>1, <2>1
    <2>3. PICK m \in T : \A y \in T : m <= y
      BY <2>2, LeastNumber
    <2>4. ASSUME NEW j \in 1 .. m - 1 PROVE s[j] # c
      BY <2>1, <2>3
    <2> QED BY <2>1, <2>3, <2>4
  <1>3. IndexOf(s, c) = CHOOSE m \in 1 .. Len(s) : P(m)
    BY <1>1 DEF IndexOf
  <1> HIDE DEF P
  <1>4. IndexOf(s, c) \in 1 .. Len(s) /\ P(IndexOf(s, c))
    BY <1>2, <1>3
  <1> QED BY <1>4 DEF P

\* The task CancelTask removes from the queue is one of the connection.
LEMMA FirstTaskProperties ==
    ASSUME queue \in Seq(Tasks), NEW c, HasTask(c)
    PROVE  FirstTask(c) \in 1 .. Len(queue) /\ queue[FirstTask(c)].conn = c
  <1> DEFINE P(i) == queue[i].conn = c /\ \A j \in 1 .. i - 1 : queue[j].conn # c
  <1>1. PICK i \in 1 .. Len(queue) : queue[i].conn = c
    BY DEF HasTask
  <1>2. \E m \in 1 .. Len(queue) : P(m)
    <2>1. PICK T : T = {m \in 1 .. Len(queue) : queue[m].conn = c}
      OBVIOUS
    <2>2. T \in SUBSET Nat /\ T # {}
      BY <1>1, <2>1
    <2>3. PICK m \in T : \A y \in T : m <= y
      BY <2>2, LeastNumber
    <2>4. ASSUME NEW j \in 1 .. m - 1 PROVE queue[j].conn # c
      BY <2>1, <2>3
    <2> QED BY <2>1, <2>3, <2>4
  <1>3. FirstTask(c) = CHOOSE m \in 1 .. Len(queue) : P(m)
    BY DEF FirstTask
  <1> HIDE DEF P
  <1>4. FirstTask(c) \in 1 .. Len(queue) /\ P(FirstTask(c))
    BY <1>2, <1>3
  <1> QED BY <1>4 DEF P

-----------------------------------------------------------------------------
\* The states of NotifyUpdate, as TypeOK has them.
Notifies == [pc : {"none", "apps", "each", "add"}, todo : SUBSET Apps,
             app : Apps \cup {None}, view : Seq(Conns), i : Nat, shared : BOOLEAN,
             con : Conns \cup {None}]

\* The limits of the retries and the bounds are numbers.
LEMMA Bounds ==
    MaxFailed \in Nat /\ MaxDelta \in Nat /\ MaxUpdates \in Nat /\ MaxConnects \in Nat
  BY SyncerAssumption

\* Init establishes the invariant.
LEMMA SyncInit == Init => SyncInv
  <1> SUFFICES ASSUME Init PROVE SyncInv
    OBVIOUS
  <1>1. notify = Idle /\ Idle \in Notifies
    BY DEF Init, Idle, Notifies
  <1>2. TypeOK
    <2>1. 0 \in 0 .. MaxConnects /\ 0 \in 0 .. MaxUpdates
      BY Bounds
    <2>2. apps \in [Apps -> Seq(Conns)] /\ queue \in Seq(Tasks)
      BY DEF Init
    <2> QED BY <1>1, <2>1, <2>2 DEF Init, TypeOK, Notifies
  <1>3. ViewOK /\ ListedOK /\ TriedOK
    BY DEF Init, Idle, ViewOK, ListedOK, TriedOK, Walking
  <1> QED BY <1>2, <1>3 DEF SyncInv

\* A step that keeps the slices, NotifyUpdate, the tasks and the ghosts keeps the
\* invariant, whatever it does to connections and listeners.
LEMMA SyncFrame ==
    ASSUME SyncInv, TypeOK', UNCHANGED <<apps, queue, hands, notify, updates, tried, listed>>,
           settled \subseteq settled'
    PROVE  SyncInv'
  <1>1. ViewOK'
    BY DEF SyncInv, ViewOK, Walking
  <1>2. ListedOK'
    BY DEF SyncInv, ListedOK, Ahead, Walking, NextPos
  <1>3. TriedOK'
    BY DEF SyncInv, TriedOK, HasPending, Walking
  <1> QED BY <1>1, <1>2, <1>3 DEF SyncInv

\* Connect, Disconnect, RegisterFiles and RegisterFileToApp.
LEMMA SyncConnect ==
    ASSUME SyncInv, NEW c \in Conns,
           Connect(c) \/ Disconnect(c) \/ RegisterFiles(c) \/ RegisterFileToApp(c)
    PROVE  SyncInv'
  <1>1. TypeOK
    BY DEF SyncInv
  <1>2. AppOf(c) \in Apps
    BY DEF Apps
  <1>3. UNCHANGED <<apps, queue, hands, notify, updates, tried, listed, settled>>
    BY DEF Connect, Disconnect, RegisterFiles, RegisterFileToApp, taskVars, ghosts
  <1>4. /\ connected' \in SUBSET Conns /\ connects' \in 0 .. MaxConnects
        /\ onReady' \in [Conns -> {"none", "apps", "files"}]
        /\ onNotReady' \in [Conns -> {"none", "apps", "queue"}]
        /\ conn2App' \in SUBSET Conns /\ regFile' \in SUBSET Apps
        /\ panicked' \in BOOLEAN
    <2>1. CASE Connect(c)
      <3>1. connects' \in 0 .. MaxConnects
        BY <1>1, <2>1, Bounds DEF TypeOK, Connect
      <3> QED BY <1>1, <2>1, <3>1 DEF TypeOK, Connect
    <2>2. CASE Disconnect(c)
      BY <1>1, <2>2 DEF TypeOK, Disconnect
    <2>3. CASE RegisterFiles(c)
      BY <1>1, <1>2, <2>3 DEF TypeOK, RegisterFiles
    <2>4. CASE RegisterFileToApp(c)
      <3>1. panicked' \in BOOLEAN
        BY <1>1, <2>4, Zenon DEF TypeOK, RegisterFileToApp
      <3>2. regFile' \in SUBSET Apps
        BY <1>1, <1>2, <2>4 DEF TypeOK, RegisterFileToApp
      <3> QED BY <1>1, <2>4, <3>1, <3>2 DEF TypeOK, RegisterFileToApp
    <2> QED BY <2>1, <2>2, <2>3, <2>4
  <1>5. TypeOK'
    BY <1>1, <1>3, <1>4 DEF TypeOK
  <1> QED BY <1>3, <1>5, SyncFrame

\* RegisterApp appends to the slice of the app, possibly in the array NotifyUpdate goes
\* through: what it writes there lies behind the positions of the listed connections.
LEMMA SyncRegister ==
    ASSUME SyncInv, NEW c \in Conns, RegisterApp(c)
    PROVE  SyncInv'
  <1> DEFINE a == AppOf(c)
             n == Len(apps[a])
  <1>1. TypeOK /\ ViewOK /\ ListedOK /\ TriedOK
    BY DEF SyncInv
  <1>2. a \in Apps /\ apps[a] \in Seq(Conns) /\ n \in Nat
    BY <1>1 DEF Apps, TypeOK
  <1>3. /\ notify \in Notifies /\ notify.view \in Seq(Conns) /\ notify.i \in Nat
        /\ Len(notify.view) \in Nat
    BY <1>1 DEF TypeOK, Notifies
  <1>4. /\ Append(apps[a], c) \in Seq(Conns) /\ Len(Append(apps[a], c)) = n + 1
        /\ \A k \in 1 .. n : Append(apps[a], c)[k] = apps[a][k]
        /\ Append(apps[a], c)[n + 1] = c
    BY <1>2, AppendProperties
  <1>5. /\ apps' = [apps EXCEPT ![a] = Append(apps[a], c)]
        /\ UNCHANGED <<queue, hands, updates, tried, settled, listed>>
    BY DEF RegisterApp, taskVars, ghosts
  <1>6. /\ notify' \in Notifies /\ Len(notify'.view) = Len(notify.view)
        /\ notify'.pc = notify.pc /\ notify'.i = notify.i /\ notify'.app = notify.app
        /\ notify'.con = notify.con /\ notify'.todo = notify.todo
        /\ notify'.shared => notify.shared
        /\ \A k \in 1 .. Len(notify.view) :
              notify'.view[k] = IF notify.app = a /\ notify.shared /\ k = n + 1
                                THEN c ELSE notify.view[k]
    <2>1. CASE notify.app = a /\ notify.shared /\ n < Len(notify.view)
      <3>1. notify' = [notify EXCEPT !.view[n + 1] = c]
        BY <2>1 DEF RegisterApp
      <3>2. PICK v : v = [notify.view EXCEPT ![n + 1] = c]
        OBVIOUS
      <3>3. /\ v \in Seq(Conns) /\ Len(v) = Len(notify.view)
            /\ \A k \in 1 .. Len(notify.view) :
                  v[k] = IF k = n + 1 THEN c ELSE notify.view[k]
        BY <1>2, <1>3, <2>1, <3>2, ExceptSeq
      <3>4. notify' = [notify EXCEPT !.view = v]
        BY <1>3, <3>1, <3>2 DEF Notifies
      <3> HIDE DEF n
      <3> QED BY <1>3, <2>1, <3>3, <3>4 DEF Notifies
    <2>2. CASE notify.app = a /\ notify.shared /\ ~(n < Len(notify.view))
      <3>1. PICK s \in BOOLEAN : notify' = [notify EXCEPT !.shared = s]
        BY <2>2 DEF RegisterApp
      <3> QED BY <1>2, <1>3, <2>2, <3>1 DEF Notifies
    <2>3. CASE ~(notify.app = a /\ notify.shared)
      BY <1>3, <2>3 DEF RegisterApp
    <2> QED BY <2>1, <2>2, <2>3
  <1> HIDE DEF a, n
  <1>7. TypeOK'
    <2>1. /\ onReady' \in [Conns -> {"none", "apps", "files"}]
          /\ conn2App' \in SUBSET Conns
          /\ UNCHANGED <<connected, connects, onNotReady, regFile, panicked>>
      BY <1>1 DEF TypeOK, RegisterApp
    <2>2. apps' \in [Apps -> Seq(Conns)]
      BY <1>1, <1>2, <1>4, <1>5 DEF TypeOK
    <2> QED BY <1>1, <1>5, <1>6, <2>1, <2>2 DEF TypeOK, Notifies
  <1>8. ViewOK'
    <2>1. ASSUME notify'.shared, NEW k \in 1 .. Len(notify'.view),
                 k <= Len(apps'[notify'.app])
          PROVE  notify'.view[k] = apps'[notify'.app][k]
      <3>1. notify.app \in Apps /\ notify.shared
        BY <1>1, <1>6, <2>1 DEF ViewOK
      <3>2. CASE notify.app = a
        BY <1>1, <1>2, <1>3, <1>4, <1>5, <1>6, <2>1, <3>1, <3>2 DEF ViewOK, TypeOK, n
      <3>3. CASE notify.app # a
        BY <1>1, <1>2, <1>5, <1>6, <2>1, <3>1, <3>3 DEF ViewOK, TypeOK
      <3> QED BY <3>2, <3>3
    <2> QED BY <1>1, <1>6, <2>1 DEF ViewOK, Walking
  <1>9. ListedOK'
    <2>1. ASSUME NEW d \in listed, Ahead(d) PROVE Ahead(d)'
      <3>1. PICK k \in 1 .. Len(notify.view) :
              /\ NextPos <= k /\ notify.view[k] = d
              /\ notify.shared => k <= Len(apps[notify.app])
        BY <2>1 DEF Ahead
      <3>2. NextPos' = NextPos /\ Walking' /\ notify.app \in Apps
        BY <1>1, <1>6, <2>1 DEF NextPos, Ahead, Walking, ViewOK
      <3>3. notify'.view[k] = d
        BY <1>2, <1>6, <3>1 DEF n
      <3>4. notify'.shared => k <= Len(apps'[notify'.app])
        BY <1>1, <1>2, <1>4, <1>5, <1>6, <3>1, <3>2 DEF TypeOK, n
      <3> QED BY <1>6, <3>1, <3>2, <3>3, <3>4 DEF Ahead
    <2> QED BY <1>1, <1>5, <1>6, <2>1 DEF ListedOK
  <1>10. TriedOK'
    BY <1>1, <1>5, <1>6 DEF TriedOK, HasPending, Walking
  <1> QED BY <1>7, <1>8, <1>9, <1>10 DEF SyncInv

\* CancelApp when it takes the connection out of the array NotifyUpdate goes through.
LEMMA SyncCancelShared ==
    ASSUME SyncInv, NEW c \in Conns, CancelApp(c), c \in conn2App,
           notify.app = AppOf(c), notify.shared, IndexOf(apps[AppOf(c)], c) # 0
    PROVE  SyncInv'
  <1> DEFINE a == AppOf(c)
             s == apps[a]
             i == IndexOf(s, c)
             v == [k \in DOMAIN notify.view |->
                     IF k \in i .. Len(s) - 1 THEN s[k + 1] ELSE notify.view[k]]
  <1>1. TypeOK /\ ViewOK /\ ListedOK /\ TriedOK
    BY DEF SyncInv
  <1>2. a \in Apps /\ s \in Seq(Conns) /\ Len(s) \in Nat
    BY <1>1 DEF Apps, TypeOK
  <1>3. /\ notify \in Notifies /\ notify.view \in Seq(Conns) /\ notify.i \in Nat
        /\ Len(notify.view) \in Nat /\ DOMAIN notify.view = 1 .. Len(notify.view)
    BY <1>1 DEF TypeOK, Notifies
  <1>4. i \in 1 .. Len(s) /\ s[i] = c
    BY <1>2, IndexOfProperties
  <1>5. /\ Without(s, i) \in Seq(Conns) /\ Len(Without(s, i)) = Len(s) - 1
        /\ \A k \in 1 .. Len(s) - 1 : Without(s, i)[k] = IF k < i THEN s[k] ELSE s[k + 1]
    <2> HIDE DEF v, s, i, a
    <2> QED BY <1>2, <1>4, WithoutProperties
  <1>6. /\ v \in Seq(Conns) /\ Len(v) = Len(notify.view)
        /\ \A k \in 1 .. Len(notify.view) :
              v[k] = IF k \in i .. Len(s) - 1 THEN s[k + 1] ELSE notify.view[k]
    <2>1. ASSUME NEW k \in 1 .. Len(notify.view)
          PROVE  (IF k \in i .. Len(s) - 1 THEN s[k + 1] ELSE notify.view[k]) \in Conns
      <3>1. CASE k \in i .. Len(s) - 1
        <4>1. k + 1 \in 1 .. Len(s)
          BY <1>2, <1>4, <3>1
        <4> QED BY <1>2, <3>1, <4>1
      <3>2. CASE k \notin i .. Len(s) - 1
        BY <1>3, <3>2
      <3> QED BY <3>1, <3>2
    <2> HIDE DEF s, i
    <2> QED BY <1>3, <2>1
  <1>7. /\ apps' = [apps EXCEPT ![a] = Without(s, i)]
        /\ notify' = [notify EXCEPT !.view = v]
        /\ listed' = listed \ ({c} \cup Skipped(i))
        /\ UNCHANGED <<queue, hands, updates, tried, settled>>
    BY <1>3 DEF CancelApp, taskVars
  <1> HIDE DEF v, s, i, a
  <1>8. /\ notify' \in Notifies /\ notify'.view = v
        /\ notify'.pc = notify.pc /\ notify'.i = notify.i /\ notify'.app = a
        /\ notify'.con = notify.con /\ notify'.shared
    BY <1>3, <1>6, <1>7 DEF Notifies, a
  <1>9. apps'[a] = Without(s, i)
    BY <1>1, <1>2, <1>7 DEF TypeOK
  <1>10. TypeOK'
    <2>1. /\ onNotReady' \in [Conns -> {"none", "apps", "queue"}]
          /\ conn2App' \in SUBSET Conns
          /\ UNCHANGED <<connected, connects, onReady, regFile, panicked>>
      BY <1>1 DEF TypeOK, CancelApp
    <2>2. apps' \in [Apps -> Seq(Conns)] /\ listed' \in SUBSET Conns
      BY <1>1, <1>2, <1>5, <1>7 DEF TypeOK
    <2> QED BY <1>1, <1>7, <1>8, <2>1, <2>2 DEF TypeOK, Notifies
  <1>11. \A k \in 1 .. Len(notify.view) : k <= Len(s) => notify.view[k] = s[k]
    BY <1>1 DEF ViewOK, s, a
  <1>12. Walking /\ Walking' /\ NextPos' = NextPos
    BY <1>1, <1>8 DEF ViewOK, Walking, NextPos
  <1>13. ViewOK'
    <2>1. ASSUME NEW k \in 1 .. Len(v), k <= Len(Without(s, i))
          PROVE  v[k] = Without(s, i)[k]
      <3>1. k \in 1 .. Len(s) - 1 /\ k \in 1 .. Len(notify.view)
        BY <1>2, <1>3, <1>5, <1>6, <2>1
      <3>2. CASE k < i
        BY <1>2, <1>4, <1>5, <1>6, <1>11, <3>1, <3>2
      <3>3. CASE ~(k < i)
        BY <1>2, <1>4, <1>5, <1>6, <3>1, <3>3
      <3> QED BY <3>2, <3>3
    <2> QED BY <1>1, <1>2, <1>8, <1>9, <1>12, <2>1 DEF ViewOK
  <1>14. ListedOK'
    <2>1. ASSUME NEW d \in listed', Ahead(d) PROVE Ahead(d)'
      <3>1. PICK k \in 1 .. Len(notify.view) :
              NextPos <= k /\ notify.view[k] = d /\ k <= Len(s)
        BY <2>1 DEF Ahead, s, a
      <3>2. d # c /\ d \notin Skipped(i) /\ s[k] = d
        BY <1>7, <1>11, <2>1, <3>1
      <3>3. k # i /\ NextPos \in Nat
        BY <1>3, <1>4, <3>2 DEF NextPos
      <3>4. CASE k < i
        <4>1. k \in 1 .. Len(v) /\ v[k] = d /\ k <= Len(Without(s, i))
          BY <1>2, <1>3, <1>4, <1>5, <1>6, <3>1, <3>4
        <4> QED BY <1>8, <1>9, <1>12, <3>1, <4>1 DEF Ahead
      <3>5. CASE k > i
        <4>1. k - 1 \in 1 .. Len(v) /\ k - 1 \in i .. Len(s) - 1 /\ (k - 1) + 1 = k
          BY <1>2, <1>3, <1>4, <1>6, <3>1, <3>5
        <4>2. v[k - 1] = d /\ k - 1 <= Len(Without(s, i))
          BY <1>2, <1>5, <1>6, <3>2, <4>1
        <4>3. NextPos # k
          <5>1. SUFFICES ASSUME NextPos = k PROVE FALSE
            OBVIOUS
          <5>2. Skipped(i) = {notify.view[k]}
            BY <1>3, <3>1, <3>5, <5>1 DEF Skipped, NextPos
          <5> QED BY <3>1, <3>2, <5>2
        <4>4. NextPos <= k - 1
          BY <1>3, <3>1, <3>3, <4>3
        <4> QED BY <1>8, <1>9, <1>12, <4>1, <4>2, <4>4 DEF Ahead
      <3> QED BY <1>4, <3>1, <3>3, <3>4, <3>5
    <2> QED BY <1>1, <1>7, <1>8, <1>12, <2>1 DEF ListedOK, Walking
  <1>15. TriedOK'
    BY <1>1, <1>7, <1>8 DEF TriedOK, HasPending, Walking
  <1> QED BY <1>10, <1>13, <1>14, <1>15 DEF SyncInv

\* CancelApp, also of a connection that is not registered or of an app that
\* NotifyUpdate is not at.
LEMMA SyncCancel ==
    ASSUME SyncInv, NEW c \in Conns, CancelApp(c)
    PROVE  SyncInv'
  <1> DEFINE a == AppOf(c)
             i == IndexOf(apps[a], c)
  <1>1. TypeOK /\ ViewOK /\ ListedOK /\ TriedOK
    BY DEF SyncInv
  <1>2. a \in Apps /\ apps[a] \in Seq(Conns)
    BY <1>1 DEF Apps, TypeOK
  <1>3. CASE c \in conn2App /\ notify.app = a /\ notify.shared /\ i # 0
    BY <1>3, SyncCancelShared
  <1>4. CASE ~(c \in conn2App /\ notify.app = a /\ notify.shared /\ i # 0)
    <2>1. /\ UNCHANGED <<notify, listed, queue, hands, updates, tried, settled>>
          /\ apps' = apps \/ /\ c \in conn2App
                             /\ apps' = [apps EXCEPT ![a] = IF i = 0 THEN apps[a] ELSE Without(apps[a], i)]
      BY <1>4 DEF CancelApp, taskVars
    <2>2. i # 0 => Without(apps[a], i) \in Seq(Conns)
      BY <1>2, IndexOfProperties, WithoutProperties
    <2>3. apps' \in [Apps -> Seq(Conns)]
      BY <1>1, <1>2, <2>1, <2>2 DEF TypeOK
    <2>4. /\ onNotReady' \in [Conns -> {"none", "apps", "queue"}]
          /\ conn2App' \in SUBSET Conns
          /\ UNCHANGED <<connected, connects, onReady, regFile, panicked>>
      BY <1>1 DEF TypeOK, CancelApp
    <2>5. TypeOK'
      BY <1>1, <2>1, <2>3, <2>4 DEF TypeOK
    <2>6. notify.shared => apps'[notify.app] = apps[notify.app]
      <3>1. notify.shared => notify.app \in Apps
        BY <1>1 DEF ViewOK
      <3> QED BY <1>1, <1>2, <1>4, <2>1, <3>1 DEF TypeOK
    <2> HIDE DEF a, i
    <2>7. ViewOK'
      BY <1>1, <2>1, <2>6 DEF ViewOK, Walking
    <2>8. ListedOK'
      BY <1>1, <2>1, <2>6 DEF ListedOK, Ahead, Walking, NextPos
    <2>9. TriedOK'
      BY <1>1, <2>1 DEF TriedOK, HasPending, Walking
    <2> QED BY <2>5, <2>7, <2>8, <2>9 DEF SyncInv
  <1> QED BY <1>3, <1>4

\* A step of the queue and the workers alone keeps what is said of NotifyUpdate: what
\* it has to show is that every tried pair that is unsettled still has a task.
LEMMA SyncTasks ==
    ASSUME SyncInv, UNCHANGED <<apps, notify, updates, tried, listed>>, settled \subseteq settled',
           settled' \in SUBSET Pairs, queue' \in Seq(Tasks), hands' \in [Workers -> Tasks \cup {None}],
           onNotReady' \in [Conns -> {"none", "apps", "queue"}],
           UNCHANGED <<connected, connects, onReady, conn2App, regFile, panicked>>,
           \A p \in tried \ settled' : HasPending(p)'
    PROVE  SyncInv'
  <1>1. TypeOK'
    BY DEF SyncInv, TypeOK
  <1>2. ViewOK'
    BY DEF SyncInv, ViewOK, Walking
  <1>3. ListedOK'
    BY DEF SyncInv, ListedOK, Ahead, Walking, NextPos
  <1>4. TriedOK'
    BY DEF SyncInv, TriedOK, Walking
  <1> QED BY <1>1, <1>2, <1>3, <1>4 DEF SyncInv

\* CancelTask removes one task of a connection, and settles all its pairs.
LEMMA SyncCancelTask ==
    ASSUME SyncInv, NEW c \in Conns, CancelTask(c)
    PROVE  SyncInv'
  <1>1. TypeOK /\ TriedOK /\ updates \in 0 .. MaxUpdates /\ queue \in Seq(Tasks)
    BY DEF SyncInv, TypeOK
  <1>2. /\ UNCHANGED <<apps, notify, updates, tried, listed, hands>>
        /\ UNCHANGED <<connected, connects, onReady, conn2App, regFile, panicked>>
        /\ settled' = settled \cup {<<c, u>> : u \in 1 .. updates}
        /\ onNotReady' \in [Conns -> {"none", "apps", "queue"}]
    BY <1>1 DEF CancelTask, TypeOK
  <1>3. settled' \in SUBSET Pairs /\ settled \subseteq settled'
    <2>1. {<<c, u>> : u \in 1 .. updates} \subseteq Pairs
      BY <1>1, Bounds DEF Pairs
    <2> QED BY <1>1, <1>2, <2>1 DEF TypeOK
  <1>4. /\ queue' \in Seq(Tasks)
        /\ \A k \in 1 .. Len(queue) : queue[k].conn # c =>
              \E m \in 1 .. Len(queue') : queue'[m] = queue[k]
    <2>1. CASE ~HasTask(c)
      BY <1>1, <2>1 DEF CancelTask
    <2>2. CASE HasTask(c)
      <3>1. PICK i : i = FirstTask(c)
        OBVIOUS
      <3>2. i \in 1 .. Len(queue) /\ queue[i].conn = c
        BY <1>1, <2>2, <3>1, FirstTaskProperties
      <3>3. queue' = Without(queue, i)
        BY <2>2, <3>1 DEF CancelTask
      <3>4. /\ queue' \in Seq(Tasks) /\ Len(queue') = Len(queue) - 1
            /\ \A k \in 1 .. Len(queue) - 1 :
                  queue'[k] = IF k < i THEN queue[k] ELSE queue[k + 1]
        BY <1>1, <3>2, <3>3, WithoutProperties
      <3>5. ASSUME NEW k \in 1 .. Len(queue), queue[k].conn # c
            PROVE  \E m \in 1 .. Len(queue') : queue'[m] = queue[k]
        <4>1. k # i /\ Len(queue) \in Nat
          BY <1>1, <3>2, <3>5
        <4>2. CASE k < i
          BY <3>2, <3>4, <4>1, <4>2
        <4>3. CASE k > i
          <5>1. k - 1 \in 1 .. Len(queue) - 1 /\ ~(k - 1 < i) /\ (k - 1) + 1 = k
            BY <3>2, <4>1, <4>3
          <5>2. queue'[k - 1] = queue[k]
            BY <3>4, <5>1
          <5> QED BY <3>4, <5>1, <5>2
        <4> QED BY <3>2, <4>1, <4>2, <4>3
      <3> QED BY <3>4, <3>5
    <2> QED BY <2>1, <2>2
  <1>5. ASSUME NEW p \in tried \ settled' PROVE HasPending(p)'
    <2>1. p \in Pairs /\ p[2] <= updates /\ HasPending(p)
      BY <1>1, <1>2, <1>5 DEF TypeOK, TriedOK
    <2>2. p = <<p[1], p[2]>> /\ p[2] \in 1 .. MaxUpdates
      BY <2>1 DEF Pairs
    <2>3. p[1] # c
      <3>1. SUFFICES ASSUME p[1] = c PROVE FALSE
        OBVIOUS
      <3>2. p[2] \in 1 .. updates
        BY <1>1, <2>1, <2>2, Bounds
      <3>3. p \in {<<c, u>> : u \in 1 .. updates}
        BY <2>2, <3>1, <3>2
      <3> QED BY <1>2, <1>5, <3>3
    <2>4. ASSUME NEW k \in 1 .. Len(queue), queue[k].conn = p[1], queue[k].update = p[2]
          PROVE  \E m \in 1 .. Len(queue') : queue'[m].conn = p[1] /\ queue'[m].update = p[2]
      <3>1. PICK m \in 1 .. Len(queue') : queue'[m] = queue[k]
        BY <1>4, <2>3, <2>4
      <3> QED BY <2>4, <3>1
    <2> QED BY <1>2, <2>1, <2>4 DEF HasPending
  <1> QED BY <1>2, <1>3, <1>4, <1>5, SyncTasks, <1>1 DEF TypeOK

\* Pop moves a task from the head of the queue to the hands of a worker.
LEMMA SyncPop ==
    ASSUME SyncInv, NEW w \in Workers, Pop(w)
    PROVE  SyncInv'
  <1>1. TypeOK /\ TriedOK /\ queue \in Seq(Tasks) /\ queue # <<>>
    BY DEF SyncInv, TypeOK, Pop
  <1>2. /\ Head(queue) \in Tasks /\ Tail(queue) \in Seq(Tasks) /\ Len(Tail(queue)) = Len(queue) - 1
        /\ \A k \in 1 .. Len(Tail(queue)) : Tail(queue)[k] = queue[k + 1]
        /\ Head(queue) = queue[1] /\ Len(queue) \in Nat
    BY <1>1, HeadTailProperties
  <1>3. /\ queue' = Tail(queue) /\ hands' = [hands EXCEPT ![w] = Head(queue)] /\ hands[w] = None
        /\ UNCHANGED <<apps, notify, updates, tried, listed, settled, onNotReady>>
        /\ UNCHANGED <<connected, connects, onReady, conn2App, regFile, panicked>>
    BY DEF Pop, connVars, ghosts
  <1>4. hands' \in [Workers -> Tasks \cup {None}] /\ Head(queue) # None
    BY <1>1, <1>2, <1>3, SyncerAssumption DEF TypeOK
  <1>5. ASSUME NEW p \in tried \ settled' PROVE HasPending(p)'
    <2>1. HasPending(p)
      BY <1>1, <1>3, <1>5 DEF TriedOK
    <2>2. ASSUME NEW k \in 1 .. Len(queue), queue[k].conn = p[1], queue[k].update = p[2]
          PROVE  HasPending(p)'
      <3>1. CASE k = 1
        <4>1. hands'[w] = queue[k] /\ hands'[w] # None
          BY <1>1, <1>2, <1>3, <1>4, <3>1 DEF TypeOK
        <4> QED BY <2>2, <4>1 DEF HasPending
      <3>2. CASE k # 1
        <4>1. k - 1 \in 1 .. Len(Tail(queue)) /\ (k - 1) + 1 = k
          BY <1>2, <3>2
        <4>2. queue'[k - 1] = queue[k]
          BY <1>2, <1>3, <4>1
        <4> QED BY <1>3, <2>2, <4>1, <4>2 DEF HasPending
      <3> QED BY <3>1, <3>2
    <2>3. ASSUME NEW x \in Workers, hands[x] # None, hands[x].conn = p[1], hands[x].update = p[2]
          PROVE  HasPending(p)'
      <3>1. x # w /\ hands'[x] = hands[x]
        BY <1>1, <1>3, <2>3 DEF TypeOK
      <3> QED BY <2>3, <3>1 DEF HasPending
    <2> QED BY <1>3, <2>1, <2>2, <2>3 DEF HasPending
  <1> QED BY <1>1, <1>2, <1>3, <1>4, <1>5, SyncTasks DEF TypeOK

\* The task of a worker goes back to the queue, as t.
LEMMA SyncBack ==
    ASSUME SyncInv, NEW w \in Workers, NEW t \in Tasks, hands[w] # None,
           t.conn = hands[w].conn, t.update = hands[w].update,
           queue' = Append(queue, t), hands' = [hands EXCEPT ![w] = None],
           UNCHANGED <<connVars, notify, updates, panicked, tried, settled, listed>>
    PROVE  SyncInv'
  <1>1. TypeOK /\ TriedOK /\ queue \in Seq(Tasks)
    BY DEF SyncInv, TypeOK
  <1>2. /\ Append(queue, t) \in Seq(Tasks) /\ Len(Append(queue, t)) = Len(queue) + 1
        /\ \A k \in 1 .. Len(queue) : Append(queue, t)[k] = queue[k]
        /\ Append(queue, t)[Len(queue) + 1] = t
        /\ Len(queue) \in Nat
    BY <1>1, AppendProperties
  <1>3. hands' \in [Workers -> Tasks \cup {None}]
    BY <1>1 DEF TypeOK
  <1>4. ASSUME NEW p \in tried \ settled' PROVE HasPending(p)'
    <2>1. HasPending(p)
      BY <1>1, <1>4 DEF TriedOK
    <2>2. ASSUME NEW k \in 1 .. Len(queue), queue[k].conn = p[1], queue[k].update = p[2]
          PROVE  HasPending(p)'
      <3>1. k \in 1 .. Len(queue') /\ queue'[k] = queue[k]
        BY <1>2
      <3> QED BY <2>2, <3>1 DEF HasPending
    <2>3. ASSUME NEW x \in Workers, hands[x] # None, hands[x].conn = p[1], hands[x].update = p[2]
          PROVE  HasPending(p)'
      <3>1. CASE x = w
        <4>1. Len(queue) + 1 \in 1 .. Len(queue') /\ queue'[Len(queue) + 1] = t
          BY <1>2
        <4> QED BY <2>3, <3>1, <4>1 DEF HasPending
      <3>2. CASE x # w
        <4>1. hands'[x] = hands[x]
          BY <1>1, <3>2 DEF TypeOK
        <4> QED BY <2>3, <4>1 DEF HasPending
      <3> QED BY <3>1, <3>2
    <2> QED BY <2>1, <2>2, <2>3 DEF HasPending
  <1> QED BY <1>1, <1>2, <1>3, <1>4, SyncTasks DEF TypeOK, connVars

\* The task of a worker is done with.
LEMMA SyncSettle ==
    ASSUME SyncInv, NEW w \in Workers, hands[w] # None,
           settled' = settled \cup {<<hands[w].conn, hands[w].update>>},
           queue' = queue, hands' = [hands EXCEPT ![w] = None],
           UNCHANGED <<connVars, notify, updates, panicked, tried, listed>>
    PROVE  SyncInv'
  <1>1. TypeOK /\ TriedOK /\ hands[w] \in Tasks
    BY DEF SyncInv, TypeOK
  <1>2. hands' \in [Workers -> Tasks \cup {None}] /\ settled' \in SUBSET Pairs
    BY <1>1 DEF TypeOK, Tasks, Pairs
  <1>3. ASSUME NEW p \in tried \ settled' PROVE HasPending(p)'
    <2>1. HasPending(p) /\ p = <<p[1], p[2]>>
      BY <1>1, <1>3 DEF TriedOK, TypeOK, Pairs
    <2>2. ASSUME NEW x \in Workers, hands[x] # None, hands[x].conn = p[1], hands[x].update = p[2]
          PROVE  x # w /\ hands'[x] = hands[x]
      BY <1>1, <1>3, <2>1, <2>2 DEF TypeOK
    <2> QED BY <2>1, <2>2 DEF HasPending
  <1> QED BY <1>1, <1>2, <1>3, SyncTasks DEF TypeOK, connVars

\* A worker pops a task, puts back one that is not due, or tries one.
LEMMA SyncWorker ==
    ASSUME SyncInv, NEW w \in Workers, Worker(w)
    PROVE  SyncInv'
  <1>1. TypeOK /\ (hands[w] # None => hands[w] \in Tasks)
    BY DEF SyncInv, TypeOK
  <1>2. CASE Pop(w)
    BY <1>2, SyncPop
  <1>3. CASE NotDue(w)
    BY <1>1, <1>3, SyncBack DEF NotDue, ghosts
  <1>4. CASE DoNotify(w)
    <2>1. /\ hands[w] \in Tasks /\ hands' = [hands EXCEPT ![w] = None] /\ hands[w] # None
          /\ UNCHANGED <<connVars, notify, updates, panicked, tried, listed>>
      BY <1>1, <1>4 DEF DoNotify
    <2>2. CASE Told(hands[w].conn, hands[w].update) /\ UNCHANGED queue
      BY <2>1, <2>2, SyncSettle DEF Told
    <2>3. CASE Retry(hands[w])
      <3>1. CASE hands[w].failed > MaxFailed
        BY <2>1, <2>3, <3>1, SyncSettle DEF Retry
      <3>2. CASE ~(hands[w].failed > MaxFailed)
        <4>1. PICK t : t = Task(hands[w].conn, hands[w].update, hands[w].failed + 1,
                          IF hands[w].failed > MaxDelta THEN MaxDelta ELSE hands[w].failed)
          OBVIOUS
        <4>2. t \in Tasks /\ t.conn = hands[w].conn /\ t.update = hands[w].update
          BY <2>1, <4>1, Bounds DEF Tasks, Task
        <4>3. queue' = Append(queue, t) /\ UNCHANGED settled
          BY <2>3, <3>2, <4>1 DEF Retry
        <4> QED BY <2>1, <4>2, <4>3, SyncBack
      <3> QED BY <3>1, <3>2
    <2> QED BY <1>4, <2>2, <2>3 DEF DoNotify
  <1> QED BY <1>2, <1>3, <1>4 DEF Worker

\* Time makes tasks due and changes nothing else of them.
LEMMA SyncElapse ==
    ASSUME SyncInv, Elapse
    PROVE  SyncInv'
  <1> DEFINE Less(t) == [t EXCEPT !.wait = IF @ > 0 THEN @ - 1 ELSE 0]
  <1>1. TypeOK /\ TriedOK /\ queue \in Seq(Tasks) /\ Len(queue) \in Nat
    BY DEF SyncInv, TypeOK
  <1>2. ASSUME NEW t \in Tasks
        PROVE  Less(t) \in Tasks /\ Less(t).conn = t.conn /\ Less(t).update = t.update
    BY DEF Tasks
  <1>3. /\ queue' = [i \in DOMAIN queue |-> Less(queue[i])]
        /\ hands' = [x \in Workers |-> IF hands[x] = None THEN None ELSE Less(hands[x])]
        /\ UNCHANGED <<apps, notify, updates, tried, listed, settled, onNotReady>>
        /\ UNCHANGED <<connected, connects, onReady, conn2App, regFile, panicked>>
    BY DEF Elapse, connVars, ghosts
  <1> HIDE DEF Less
  <1>4. /\ queue' \in Seq(Tasks) /\ Len(queue') = Len(queue)
        /\ \A k \in 1 .. Len(queue) : queue'[k] = Less(queue[k])
    <2>1. DOMAIN queue = 1 .. Len(queue) /\ \A k \in 1 .. Len(queue) : Less(queue[k]) \in Tasks
      BY <1>1, <1>2
    <2> QED BY <1>1, <1>3, <2>1
  <1>5. hands' \in [Workers -> Tasks \cup {None}]
    BY <1>1, <1>2, <1>3 DEF TypeOK
  <1>6. ASSUME NEW p \in tried \ settled' PROVE HasPending(p)'
    <2>1. HasPending(p)
      BY <1>1, <1>3, <1>6 DEF TriedOK
    <2>2. ASSUME NEW k \in 1 .. Len(queue), queue[k].conn = p[1], queue[k].update = p[2]
          PROVE  HasPending(p)'
      <3>1. queue[k] \in Tasks
        BY <1>1
      <3>2. queue'[k].conn = p[1] /\ queue'[k].update = p[2] /\ k \in 1 .. Len(queue')
        BY <1>2, <1>4, <2>2, <3>1
      <3> QED BY <3>2 DEF HasPending
    <2>3. ASSUME NEW x \in Workers, hands[x] # None, hands[x].conn = p[1], hands[x].update = p[2]
          PROVE  HasPending(p)'
      <3>1. hands[x] \in Tasks /\ hands'[x] = Less(hands[x])
        BY <1>1, <1>3, <2>3 DEF TypeOK
      <3>2. hands'[x] # None /\ hands'[x].conn = p[1] /\ hands'[x].update = p[2]
        BY <1>2, <2>3, <3>1, SyncerAssumption
      <3> QED BY <3>2 DEF HasPending
    <2> QED BY <1>3, <2>1, <2>2, <2>3 DEF HasPending
  <1> QED BY <1>1, <1>3, <1>4, <1>5, <1>6, SyncTasks DEF TypeOK

\* NotifyUpdate begins with a new update, of which nothing is tried or listed yet.
LEMMA SyncUpdate ==
    ASSUME SyncInv, NotifyUpdate
    PROVE  SyncInv'
  <1>1. TypeOK /\ ViewOK /\ ListedOK /\ TriedOK
    BY DEF SyncInv
  <1>2. /\ notify.pc = "none" /\ updates < MaxUpdates /\ updates' = updates + 1
        /\ notify' = [Idle EXCEPT !.pc = "apps", !.todo = regFile]
        /\ UNCHANGED <<connVars, queue, hands, panicked, tried, settled, listed>>
    BY DEF NotifyUpdate, taskVars, ghosts
  <1>3. /\ notify' \in Notifies /\ notify'.pc = "apps" /\ notify'.con = None
        /\ notify'.shared = FALSE
    <2>1. notify' = [pc |-> "apps", todo |-> regFile, app |-> None, view |-> <<>>, i |-> 0,
                     shared |-> FALSE, con |-> None]
      BY <1>2 DEF Idle
    <2>2. regFile \in SUBSET Apps /\ <<>> \in Seq(Conns)
      BY <1>1 DEF TypeOK
    <2> QED BY <2>1, <2>2 DEF Notifies
  <1>4. updates \in Nat /\ updates' \in 0 .. MaxUpdates
    BY <1>1, <1>2, Bounds DEF TypeOK
  <1>5. TypeOK'
    BY <1>1, <1>2, <1>3, <1>4 DEF TypeOK, Notifies, connVars
  <1>6. ViewOK' /\ ListedOK'
    BY <1>1, <1>2, <1>3 DEF ViewOK, ListedOK, Walking
  <1>7. TriedOK'
    <2>1. \A p \in tried : p[2] <= updates'
      BY <1>1, <1>2, <1>4 DEF TriedOK, TypeOK, Pairs
    <2>2. ASSUME NEW p \in tried \ settled PROVE HasPending(p)'
      BY <1>1, <1>2, <2>2 DEF TriedOK, HasPending
    <2>3. updates' # 0
      BY <1>2, <1>4
    <2> QED BY <1>2, <2>1, <2>2, <2>3 DEF TriedOK
  <1> QED BY <1>5, <1>6, <1>7 DEF SyncInv

\* NextApp takes the slice of an app: all its connections are ahead.
LEMMA SyncNextApp ==
    ASSUME SyncInv, NextApp
    PROVE  SyncInv'
  <1>1. TypeOK /\ ViewOK /\ ListedOK /\ TriedOK /\ notify.pc = "apps"
    BY DEF SyncInv, NextApp
  <1>2. UNCHANGED <<connVars, queue, hands, updates, panicked, tried, settled>>
    BY DEF NextApp, taskVars
  <1>3. ASSUME NEW p \in tried \ settled PROVE HasPending(p)'
    BY <1>1, <1>2, <1>3 DEF TriedOK, HasPending
  <1>4. CASE notify.todo = {}
    <2>1. notify' = Idle /\ listed' = {}
      BY <1>4 DEF NextApp
    <2>2. Idle \in Notifies /\ Idle.pc = "none" /\ Idle.shared = FALSE /\ Idle.con = None
      BY DEF Idle, Notifies
    <2>3. TypeOK'
      BY <1>1, <1>2, <2>1, <2>2 DEF TypeOK, Notifies, connVars
    <2> QED BY <1>1, <1>2, <1>3, <2>1, <2>2, <2>3
            DEF SyncInv, ViewOK, ListedOK, TriedOK, Walking
  <1>5. CASE notify.todo # {}
    <2>1. PICK a \in notify.todo :
            /\ listed' = {apps[a][i] : i \in 1 .. Len(apps[a])}
            /\ notify' = [pc |-> "each", todo |-> notify.todo \ {a}, app |-> a,
                          view |-> apps[a], i |-> 1, shared |-> TRUE, con |-> None]
      BY <1>5 DEF NextApp
    <2>2. a \in Apps /\ apps[a] \in Seq(Conns)
      BY <1>1 DEF TypeOK
    <2>3. /\ notify' \in Notifies /\ notify'.pc = "each" /\ notify'.app = a /\ notify'.con = None
          /\ notify'.view = apps[a] /\ notify'.i = 1 /\ notify'.shared
      BY <1>1, <2>1, <2>2 DEF Notifies, TypeOK
    <2>4. listed' \in SUBSET Conns
      BY <2>1, <2>2
    <2>5. TypeOK'
      BY <1>1, <1>2, <2>3, <2>4 DEF TypeOK, Notifies, connVars
    <2>6. apps' = apps
      BY <1>2 DEF connVars
    <2>7. ViewOK'
      BY <2>2, <2>3, <2>6 DEF ViewOK, Walking
    <2>8. ASSUME NEW c \in listed' PROVE Ahead(c)'
      <3>1. PICK k \in 1 .. Len(apps[a]) : c = apps[a][k]
        BY <2>1
      <3>2. NextPos' = 1 /\ Walking' /\ 1 <= k /\ k <= Len(apps[a])
        BY <2>2, <2>3 DEF NextPos, Walking
      <3> QED BY <2>3, <2>6, <3>1, <3>2 DEF Ahead
    <2>9. ListedOK'
      BY <2>3, <2>8 DEF ListedOK
    <2>10. updates # 0
      BY <1>1 DEF TriedOK
    <2>11. TriedOK'
      BY <1>1, <1>2, <1>3, <2>10 DEF TriedOK
    <2> QED BY <2>5, <2>7, <2>9, <2>11 DEF SyncInv
  <1> QED BY <1>4, <1>5

\* NotifyEach tries the connection at the next position, which is the only one it passes.
LEMMA SyncEach ==
    ASSUME SyncInv, NotifyEach
    PROVE  SyncInv'
  <1>1. TypeOK /\ ViewOK /\ ListedOK /\ TriedOK /\ notify.pc = "each"
    BY DEF SyncInv, NotifyEach
  <1>2. UNCHANGED <<connVars, queue, hands, updates, panicked, listed>>
    BY DEF NotifyEach, taskVars
  <1>3. /\ notify \in Notifies /\ notify.view \in Seq(Conns) /\ notify.i \in Nat \ {0}
        /\ Len(notify.view) \in Nat /\ NextPos = notify.i /\ notify.con = None
    BY <1>1 DEF TypeOK, Notifies, ViewOK, Walking, NextPos
  <1>4. CASE notify.i > Len(notify.view)
    <2>1. /\ notify' = [notify EXCEPT !.pc = "apps", !.app = None, !.shared = FALSE]
          /\ UNCHANGED <<tried, settled>>
      BY <1>4 DEF NotifyEach
    <2>2. /\ notify' \in Notifies /\ notify'.pc = "apps" /\ notify'.shared = FALSE
          /\ notify'.con = None
      BY <1>3, <2>1 DEF Notifies
    <2>3. \A c \in listed : <<c, updates>> \in tried
      BY <1>1, <1>3, <1>4 DEF ListedOK, Ahead
    <2>4. TypeOK'
      BY <1>1, <1>2, <2>1, <2>2 DEF TypeOK, Notifies, connVars
    <2>5. \A p \in tried \ settled : HasPending(p)'
      BY <1>1, <1>2 DEF TriedOK, HasPending
    <2>6. ViewOK' /\ ListedOK'
      BY <1>2, <2>1, <2>2, <2>3 DEF ViewOK, ListedOK, Walking
    <2>7. TriedOK'
      BY <1>1, <1>2, <2>1, <2>2, <2>5 DEF TriedOK, Walking
    <2> QED BY <2>4, <2>6, <2>7 DEF SyncInv
  <1>5. CASE ~(notify.i > Len(notify.view))
    <2>1. PICK c : c = notify.view[notify.i]
      OBVIOUS
    <2>2. c \in Conns /\ updates \in 1 .. MaxUpdates /\ <<c, updates>> \in Pairs
      BY <1>1, <1>3, <1>5, <2>1, Bounds DEF TypeOK, TriedOK, Walking, Pairs
    <2>3. /\ tried' = tried \cup {<<c, updates>>}
          /\ \/ /\ settled' = settled \cup {<<c, updates>>}
                /\ notify' = [notify EXCEPT !.i = notify.i + 1]
             \/ notify' = [notify EXCEPT !.pc = "add", !.con = c] /\ settled' = settled
      BY <1>5, <2>1 DEF NotifyEach, Told
    <2>4. /\ notify' \in Notifies /\ notify'.view = notify.view /\ notify'.app = notify.app
          /\ notify'.shared = notify.shared /\ notify'.i \in {notify.i, notify.i + 1}
          /\ notify'.pc \in {"each", "add"} /\ NextPos' = notify.i + 1
          /\ notify'.pc = "each" => notify'.con = None /\ <<c, updates>> \in settled'
          /\ notify'.pc = "add" => notify'.con = c
          /\ settled \subseteq settled' /\ settled' \subseteq settled \cup {<<c, updates>>}
      <3>1. CASE /\ settled' = settled \cup {<<c, updates>>}
                 /\ notify' = [notify EXCEPT !.i = notify.i + 1]
        BY <1>1, <1>3, <3>1 DEF Notifies, NextPos
      <3>2. CASE notify' = [notify EXCEPT !.pc = "add", !.con = c] /\ settled' = settled
        BY <1>1, <1>3, <2>2, <3>2 DEF Notifies, NextPos
      <3> QED BY <2>3, <3>1, <3>2
    <2>5. TypeOK'
      BY <1>1, <1>2, <2>2, <2>3, <2>4 DEF TypeOK, Notifies, connVars
    <2>6. apps' = apps
      BY <1>2 DEF connVars
    <2>7. ViewOK'
      BY <1>1, <1>3, <2>2, <2>4, <2>6 DEF ViewOK, Walking
    <2>8. ASSUME NEW d \in listed PROVE <<d, updates>> \in tried' \/ Ahead(d)'
      <3>1. CASE d = c \/ <<d, updates>> \in tried
        BY <2>3, <3>1
      <3>2. CASE d # c /\ Ahead(d)
        <4>1. PICK k \in 1 .. Len(notify.view) :
                /\ notify.i <= k /\ notify.view[k] = d
                /\ notify.shared => k <= Len(apps[notify.app])
          BY <1>3, <3>2 DEF Ahead
        <4>2. notify.i + 1 <= k
          BY <1>3, <2>1, <3>2, <4>1
        <4> QED BY <2>4, <2>6, <4>1, <4>2 DEF Ahead, Walking
      <3> QED BY <1>1, <3>1, <3>2 DEF ListedOK
    <2>9. ListedOK'
      BY <1>2, <2>4, <2>8 DEF ListedOK
    <2>10. ASSUME NEW p \in tried' \ settled' PROVE HasPending(p)'
      <3>1. CASE p = <<c, updates>>
        BY <1>2, <2>4, <2>10, <3>1 DEF HasPending
      <3>2. CASE p # <<c, updates>>
        <4>1. p \in tried \ settled
          BY <2>3, <2>4, <2>10, <3>2
        <4> QED BY <1>1, <1>2, <4>1 DEF TriedOK, HasPending
      <3> QED BY <3>1, <3>2
    <2>11. \A p \in tried' : p[2] <= updates
      BY <1>1, <2>2, <2>3 DEF TriedOK
    <2>12. TriedOK'
      BY <1>2, <2>2, <2>10, <2>11 DEF TriedOK
    <2> QED BY <2>5, <2>7, <2>9, <2>12 DEF SyncInv
  <1> QED BY <1>4, <1>5

\* AddTask gives the connection that could not be told its task.
LEMMA SyncAdd ==
    ASSUME SyncInv, AddTask
    PROVE  SyncInv'
  <1>1. TypeOK /\ ViewOK /\ ListedOK /\ TriedOK /\ notify.pc = "add"
    BY DEF SyncInv, AddTask
  <1>2. PICK t : t = Task(notify.con, updates, 1, 0)
    OBVIOUS
  <1>3. /\ queue' = Append(queue, t)
        /\ notify' = [notify EXCEPT !.pc = "each", !.i = notify.i + 1, !.con = None]
        /\ UNCHANGED <<connVars, hands, updates, panicked, tried, settled, listed>>
    BY <1>2 DEF AddTask, ghosts
  <1>4. /\ t \in Tasks /\ t.conn = notify.con /\ t.update = updates
    BY <1>1, <1>2, Bounds DEF Task, Tasks, TypeOK, ViewOK, TriedOK, Walking
  <1>5. /\ Append(queue, t) \in Seq(Tasks) /\ Len(Append(queue, t)) = Len(queue) + 1
        /\ \A k \in 1 .. Len(queue) : Append(queue, t)[k] = queue[k]
        /\ Append(queue, t)[Len(queue) + 1] = t
        /\ Len(queue) \in Nat
    BY <1>1, <1>4, AppendProperties DEF TypeOK
  <1>6. notify \in Notifies /\ notify.i \in Nat \ {0}
    BY <1>1 DEF TypeOK, Notifies, ViewOK, Walking
  <1>7. /\ notify' \in Notifies /\ notify'.view = notify.view /\ notify'.app = notify.app
        /\ notify'.shared = notify.shared /\ notify'.i = notify.i + 1
        /\ notify'.pc = "each" /\ notify'.con = None /\ NextPos' = NextPos
    <2>1. /\ notify' \in Notifies /\ notify'.view = notify.view /\ notify'.app = notify.app
          /\ notify'.shared = notify.shared /\ notify'.i = notify.i + 1
          /\ notify'.pc = "each" /\ notify'.con = None
      <3>1. /\ notify'.view = notify.view /\ notify'.app = notify.app
            /\ notify'.shared = notify.shared /\ notify'.i = notify.i + 1
            /\ notify'.pc = "each" /\ notify'.con = None /\ notify'.todo = notify.todo
        BY <1>3, <1>6, Zenon DEF Notifies
      <3>2. PICK n \in Nat : n = notify.i + 1
        BY <1>6
      <3>3. notify' = [notify EXCEPT !.pc = "each", !.i = n, !.con = None]
        BY <1>3, <3>2
      <3>4. [notify EXCEPT !.pc = "each", !.i = n, !.con = None] \in Notifies
        BY <1>6, Zenon DEF Notifies
      <3> QED BY <3>1, <3>3, <3>4
    <2> QED BY <1>1, <2>1 DEF NextPos
  <1>8. TypeOK'
    BY <1>1, <1>3, <1>5, <1>7 DEF TypeOK, Notifies, connVars
  <1>9. apps' = apps
    BY <1>3 DEF connVars
  <1>10. ViewOK'
    BY <1>1, <1>6, <1>7, <1>9 DEF ViewOK, Walking
  <1>11. ListedOK'
    BY <1>1, <1>3, <1>7, <1>9 DEF ListedOK, Ahead, Walking
  <1>12. ASSUME NEW p \in tried \ settled PROVE HasPending(p)'
    <2>1. HasPending(p)
      BY <1>1, <1>12 DEF TriedOK
    <2>2. CASE \E k \in 1 .. Len(queue) : queue[k].conn = p[1] /\ queue[k].update = p[2]
      <3>1. PICK k \in 1 .. Len(queue) : queue[k].conn = p[1] /\ queue[k].update = p[2]
        BY <2>2
      <3>2. k \in 1 .. Len(queue') /\ queue'[k] = queue[k]
        BY <1>3, <1>5
      <3> QED BY <3>1, <3>2 DEF HasPending
    <2>3. CASE notify.con = p[1] /\ p[2] = updates
      <3>1. Len(queue) + 1 \in 1 .. Len(queue') /\ queue'[Len(queue) + 1] = t
        BY <1>3, <1>5
      <3> QED BY <1>4, <2>3, <3>1 DEF HasPending
    <2> QED BY <1>3, <2>1, <2>2, <2>3 DEF HasPending
  <1>13. TriedOK'
    BY <1>1, <1>3, <1>12 DEF TriedOK, Walking
  <1> QED BY <1>8, <1>10, <1>11, <1>13 DEF SyncInv

\* NotifyUpdate, the retry queue, the workers and the listeners of connections keep the
\* invariant, for any number of apps, connections, workers, updates and failures.
THEOREM SyncInvariant == Spec => []SyncInv
  <1>1. SyncInv /\ [Next]_vars => SyncInv'
    <2> SUFFICES ASSUME SyncInv, [Next]_vars PROVE SyncInv'
      OBVIOUS
    <2>1. CASE UNCHANGED vars
      <3>1. UNCHANGED <<connVars, taskVars, notify, updates, panicked, ghosts>>
        BY <2>1 DEF vars
      <3>2. TypeOK'
        BY <3>1 DEF SyncInv, TypeOK, connVars, taskVars, ghosts
      <3> QED BY <3>1, <3>2, SyncFrame DEF connVars, taskVars, ghosts
    <2>2. CASE Next
      <3>1. ASSUME NEW c \in Conns,
                   Connect(c) \/ Disconnect(c) \/ Listeners(c) \/ RegisterFileToApp(c)
            PROVE  SyncInv'
        BY <3>1, SyncConnect, SyncRegister, SyncCancel, SyncCancelTask DEF Listeners
      <3>2. CASE NotifyUpdate \/ Notifier
        BY <3>2, SyncUpdate, SyncNextApp, SyncEach, SyncAdd DEF Notifier
      <3> QED BY <2>2, <3>1, <3>2, SyncWorker, SyncElapse DEF Next
    <2> QED BY <2>1, <2>2
  <1> QED BY <1>1, SyncInit, PTL DEF Spec

\* NoneSkipped: a connection of an app that was there when NotifyUpdate came to the app,
\* and still is, has been tried when it leaves the app, unless the end of another one
\* moved the array under it.
THEOREM NoneSkippedHolds == Spec => []NoneSkipped
  <1>1. SyncInv => NoneSkipped
    BY DEF SyncInv, ListedOK, Ahead, Walking, NoneSkipped
  <1> QED BY <1>1, SyncInvariant, PTL

\* NoneForgotten: a connection that NotifyUpdate has tried is told, given up, cancelled,
\* or still has a task in the queue or the hands of a worker.
THEOREM NoneForgottenHolds == Spec => []NoneForgotten
  <1>1. ASSUME SyncInv, NEW p \in tried \ settled
        PROVE  \/ \E t \in Pending : t.conn = p[1] /\ t.update = p[2]
               \/ notify.con = p[1] /\ p[2] = updates
    <2>1. TypeOK /\ HasPending(p)
      BY <1>1 DEF SyncInv, TriedOK
    <2>2. ASSUME NEW i \in 1 .. Len(queue) PROVE queue[i] \in Pending
      BY <2>1, <2>2, SyncerAssumption DEF TypeOK, Pending
    <2>3. ASSUME NEW w \in Workers, hands[w] # None PROVE hands[w] \in Pending
      BY <2>3 DEF Pending
    <2> QED BY <2>1, <2>2, <2>3 DEF HasPending
  <1>2. SyncInv => NoneForgotten
    BY <1>1 DEF NoneForgotten
  <1> QED BY <1>2, SyncInvariant, PTL
=============================================================================
