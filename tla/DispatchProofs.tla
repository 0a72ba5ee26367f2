--------------------------- MODULE DispatchProofs ---------------------------
(***************************************************************************)
(* Theorems about the way of an event from a log call to the sinks: which  *)
(* appenders a name's event goes to (LoggerRouting, for every set of       *)
(* names, levels and configurations), and what the asynchronous appender   *)
(* makes of it (AsyncPipeline, for any callers, Closes, strategies, queue  *)
(* and batch sizes, and whatever the delegates refuse).                    *)
(***************************************************************************)
EXTENDS LoggerRouting, AsyncPipeline, CountingLemmas, SequenceTheorems

-----------------------------------------------------------------------------
(* LoggerRouting: the plan of a name.                                      *)

LEMMA DotsFinite ==
    \A n \in Names : IsFiniteSet(Dots(n)) /\ Cardinality(Dots(n)) \in Nat
<1> SUFFICES ASSUME NEW n \in Names
             PROVE  IsFiniteSet(Dots(n)) /\ Cardinality(Dots(n)) \in Nat
    OBVIOUS
<1>1. IsFiniteSet(1..Len(n))
    BY FS_Interval, RoutingAssumption
<1>2. Dots(n) \in SUBSET (1..Len(n))
    BY DEF Dots
<1>3. IsFiniteSet(Dots(n))
    BY <1>1, <1>2, FS_Subset
<1> QED
    BY <1>3, FS_CardinalityType

(* Of two rules that match a name the longer one has the larger sort key,  *)
(* so that the sorted list of loggers has longer prefixes first.           *)
LEMMA LongerIsMoreSpecific ==
    ASSUME NEW n \in Names, NEW r \in Names, NEW s \in Names,
           Matches(n, r), Matches(n, s), Len(r) < Len(s)
    PROVE  Specificity(r) < Specificity(s)
<1>1. /\ r \in Seq(STRING) /\ s \in Seq(STRING) /\ n \in Seq(STRING)
      /\ Len(r) \in Nat /\ Len(s) \in Nat /\ Len(n) \in Nat
    BY RoutingAssumption
<1>2. HasPrefix(n, r) /\ HasPrefix(n, s)
    BY <1>1 DEF Matches, HasPrefix
<1>3. \A i \in 1..Len(r) : r[i] = s[i]
    BY <1>1, <1>2 DEF HasPrefix
<1>4. Dots(r) \subseteq Dots(s)
    BY <1>1, <1>3 DEF Dots
<1>5. IsFiniteSet(Dots(s))
    BY DotsFinite
<1>6. /\ Cardinality(Dots(r)) <= Cardinality(Dots(s))
      /\ Cardinality(Dots(r)) \in Nat /\ Cardinality(Dots(s)) \in Nat
    BY <1>4, <1>5, DotsFinite, FS_Subset
<1> QED
    BY <1>1, <1>6 DEF Specificity

LEMMA SpecificityType == \A n \in Names : Specificity(n) \in Nat
<1> SUFFICES ASSUME NEW n \in Names PROVE Specificity(n) \in Nat
    OBVIOUS
<1>1. Len(n) \in Nat
    BY RoutingAssumption
<1> QED
    BY <1>1, DotsFinite DEF Specificity

(* Two rules of one length that match a name are the same.                 *)
LEMMA EqualLengthsAreEqual ==
    ASSUME NEW n \in Names, NEW r \in Names, NEW s \in Names,
           Matches(n, r), Matches(n, s), Len(r) = Len(s)
    PROVE  r = s
<1>1. /\ r \in Seq(STRING) /\ s \in Seq(STRING) /\ n \in Seq(STRING)
      /\ Len(r) \in Nat /\ Len(s) \in Nat /\ Len(n) \in Nat
    BY RoutingAssumption
<1>2. HasPrefix(n, r) /\ HasPrefix(n, s)
    BY <1>1 DEF Matches, HasPrefix
<1>3. \A i \in 1..Len(r) : r[i] = s[i]
    BY <1>1, <1>2 DEF HasPrefix
<1> QED
    BY <1>1, <1>3

(* Of two rules that match a name the shorter one matches the longer.      *)
LEMMA ShorterMatchesLonger ==
    ASSUME NEW n \in Names, NEW r \in Names, NEW s \in Names,
           Matches(n, r), Matches(n, s), Len(r) <= Len(s)
    PROVE  Matches(s, r)
<1>1. /\ r \in Seq(STRING) /\ s \in Seq(STRING) /\ n \in Seq(STRING)
      /\ Len(r) \in Nat /\ Len(s) \in Nat /\ Len(n) \in Nat
    BY RoutingAssumption
<1>2. HasPrefix(n, r) /\ HasPrefix(n, s) /\ Len(s) <= Len(n)
    BY <1>1 DEF Matches, HasPrefix
<1>3. CASE Len(r) = Len(s)
    BY <1>3, EqualLengthsAreEqual DEF Matches
<1>4. CASE Len(r) < Len(s)
  <2>1. HasPrefix(s, r)
      BY <1>1, <1>2, <1>4 DEF HasPrefix
  <2>2. n[Len(r) + 1] = Dot
      BY <1>1, <1>2, <1>4 DEF Matches
  <2>3. s[Len(r) + 1] = Dot
      BY <1>1, <1>2, <1>4, <2>2 DEF HasPrefix
  <2> QED
      BY <1>4, <2>1, <2>3 DEF Matches
<1> QED
    BY <1>1, <1>3, <1>4

LEMMA MatchesIsTransitive ==
    ASSUME NEW n \in Names, NEW s \in Names, NEW r \in Names,
           Matches(n, s), Matches(s, r)
    PROVE  Matches(n, r)
<1>1. /\ r \in Seq(STRING) /\ s \in Seq(STRING) /\ n \in Seq(STRING)
      /\ Len(r) \in Nat /\ Len(s) \in Nat /\ Len(n) \in Nat
    BY RoutingAssumption
<1>2. CASE n = s \/ s = r
    BY <1>2
<1>3. CASE n # s /\ s # r
  <2>1. /\ Len(r) < Len(s) /\ Len(s) < Len(n)
        /\ HasPrefix(n, s) /\ HasPrefix(s, r) /\ s[Len(r) + 1] = Dot
      BY <1>3 DEF Matches
  <2>2. HasPrefix(n, r)
      BY <1>1, <2>1 DEF HasPrefix
  <2>3. n[Len(r) + 1] = Dot
      BY <1>1, <2>1 DEF HasPrefix
  <2> QED
      BY <1>1, <2>1, <2>2, <2>3 DEF Matches
<1> QED
    BY <1>2, <1>3

-----------------------------------------------------------------------------
(* Loggers of a runtime: their names are names and each is there once.     *)
Distinct(loggers) ==
    \A l, k \in loggers : l.name \in Names /\ (l.name = k.name => l = k)

(* The head of the sorted list of the loggers that match a name is the one *)
(* with the longest prefix.                                                *)
LEMMA FirstIsLongest ==
    ASSUME NEW n \in Names, NEW loggers, loggers # {}, Distinct(loggers),
           \A l \in loggers : Matches(n, l.name)
    PROVE  /\ First(loggers) \in loggers
           /\ \A l \in loggers : Len(l.name) <= Len(First(loggers).name)
<1>1. \A m \in Names : Len(m) \in Nat
    BY RoutingAssumption
<1>2. \A l \in loggers : l.name \in Names /\ Len(l.name) <= Len(n)
    BY <1>1 DEF Distinct, Matches
<1> DEFINE S == {Len(n) - Len(l.name) : l \in loggers}
<1>3. S \in SUBSET Nat /\ S # {}
    BY <1>1, <1>2
<1>4. PICK x \in S : \A y \in S : x <= y
    BY <1>3, LeastNatural
<1>5. PICK longest \in loggers : x = Len(n) - Len(longest.name)
    BY <1>4
<1>6. \A l \in loggers : Len(l.name) <= Len(longest.name)
  <2> TAKE l \in loggers
  <2>1. Len(n) - Len(longest.name) <= Len(n) - Len(l.name)
      BY <1>4, <1>5
  <2> QED
      BY <1>1, <1>2, <2>1
<1>7. \A l \in loggers : Specificity(l.name) <= Specificity(longest.name)
  <2> TAKE l \in loggers
  <2>1. /\ l.name \in Names /\ longest.name \in Names
        /\ Matches(n, l.name) /\ Matches(n, longest.name)
        /\ Len(l.name) \in Nat /\ Len(longest.name) \in Nat
      BY <1>1, <1>2
  <2>2. CASE Len(l.name) = Len(longest.name)
    <3>1. l.name = longest.name
        BY <2>1, <2>2, EqualLengthsAreEqual
    <3> QED
        BY <2>1, <3>1, SpecificityType
  <2>3. CASE Len(l.name) < Len(longest.name)
    <3>1. Specificity(l.name) < Specificity(longest.name)
        BY <2>1, <2>3, LongerIsMoreSpecific
    <3> QED
        BY <2>1, <3>1, SpecificityType
  <2> QED
      BY <1>6, <2>1, <2>2, <2>3
<1>8. /\ First(loggers) \in loggers
      /\ \A l \in loggers : Specificity(l.name) <= Specificity(First(loggers).name)
    BY <1>7 DEF First
<1>9. \A l \in loggers : Len(l.name) <= Len(First(loggers).name)
  <2> TAKE l \in loggers
  <2> DEFINE f == First(loggers)
  <2>1. /\ l.name \in Names /\ f.name \in Names
        /\ Matches(n, l.name) /\ Matches(n, f.name)
        /\ Len(l.name) \in Nat /\ Len(f.name) \in Nat
        /\ Specificity(l.name) \in Nat /\ Specificity(f.name) \in Nat
      BY <1>1, <1>2, <1>8, SpecificityType
  <2>2. Specificity(l.name) <= Specificity(f.name)
      BY <1>8
  <2> HIDE DEF f
  <2>3. ~(Len(f.name) < Len(l.name))
    <3> SUFFICES ASSUME Len(f.name) < Len(l.name) PROVE FALSE
        OBVIOUS
    <3>1. Specificity(f.name) < Specificity(l.name)
        BY <2>1, LongerIsMoreSpecific
    <3> QED
        BY <2>1, <2>2, <3>1
  <2>4. Len(l.name) <= Len(f.name)
      BY <2>1, <2>3
  <2> QED
      BY <2>4 DEF f
<1> QED
    BY <1>8, <1>9

Explicit(loggers, name) == {l \in Matching(loggers, name) : l.configured # Inherit}

LEMMA WithLevelsIsDistinct ==
    ASSUME NEW rootLevel, NEW loggers, Distinct(loggers)
    PROVE  Distinct(WithLevels(rootLevel, loggers))
BY DEF Distinct, WithLevels

LEMMA WithLevelsKeepsNames ==
    ASSUME NEW rootLevel, NEW loggers
    PROVE  /\ \A l \in loggers : \E m \in WithLevels(rootLevel, loggers) :
                 m.name = l.name /\ m.configured = l.configured
           /\ \A m \in WithLevels(rootLevel, loggers) : \E l \in loggers :
                 /\ m.name = l.name /\ m.configured = l.configured
                 /\ m.route.level = EffectiveLevel(rootLevel, l.name, loggers)
                 /\ m.route.appenders = l.route.appenders
                 /\ m.route.filters = l.route.filters
<1> DEFINE leveled(l) == [name |-> l.name, configured |-> l.configured,
                          route |-> [level |-> EffectiveLevel(rootLevel, l.name, loggers),
                                     appenders |-> l.route.appenders,
                                     filters |-> l.route.filters]]
<1>1. \A l \in loggers : leveled(l) \in WithLevels(rootLevel, loggers)
    BY DEF WithLevels
<1>2. \A l \in loggers : leveled(l).name = l.name /\ leveled(l).configured = l.configured
    OBVIOUS
<1>3. \A m \in WithLevels(rootLevel, loggers) : \E l \in loggers : m = leveled(l)
    BY DEF WithLevels
<1>4. \A l \in loggers : /\ leveled(l).route.level = EffectiveLevel(rootLevel, l.name, loggers)
                         /\ leveled(l).route.appenders = l.route.appenders
                         /\ leveled(l).route.filters = l.route.filters
    OBVIOUS
<1> HIDE DEF leveled
<1> QED
    BY <1>1, <1>2, <1>3, <1>4

(* Matching what a logger's own name is matched to is matching what a name *)
(* is, when that logger is the longest that matches it.                    *)
LEMMA SameMatches ==
    ASSUME NEW name \in Names, NEW loggers, Distinct(loggers), NEW f \in Names,
           Matches(name, f),
           \A l \in loggers : Matches(name, l.name) => Len(l.name) <= Len(f)
    PROVE  Matching(loggers, f) = Matching(loggers, name)
<1>1. \A l \in loggers : l.name \in Names
    BY DEF Distinct
<1>2. ASSUME NEW l \in loggers, Matches(name, l.name) PROVE Matches(f, l.name)
    BY <1>1, <1>2, ShorterMatchesLonger
<1>3. ASSUME NEW l \in loggers, Matches(f, l.name) PROVE Matches(name, l.name)
    BY <1>1, <1>3, MatchesIsTransitive
<1> QED
    BY <1>2, <1>3 DEF Matching

-----------------------------------------------------------------------------
(* The level of a plan is that of the longest matching logger that has one *)
(* of its own, else root's.                                                *)
LEMMA LevelOfPlan ==
    ASSUME NEW name \in Names, NEW rootLevel, NEW loggers, Distinct(loggers), NEW config,
           config.root.level = rootLevel,
           config.loggers = WithLevels(rootLevel, loggers)
    PROVE  LET level == PlanFor(config, name).level
               explicit == Explicit(loggers, name)
           IN  /\ explicit = {} => level = rootLevel
               /\ \A l \in explicit :
                     (\A k \in explicit : Len(k.name) <= Len(l.name)) => level = l.configured
<1> DEFINE leveled == WithLevels(rootLevel, loggers)
           matching == Matching(leveled, name)
           explicit == Explicit(loggers, name)
<1>1. Distinct(leveled)
    BY WithLevelsIsDistinct
<1>2. CASE matching = {}
  <2>1. PlanFor(config, name).level = rootLevel
      BY <1>2 DEF PlanFor
  <2>2. \A l \in loggers : ~Matches(name, l.name)
      BY <1>2, WithLevelsKeepsNames DEF Matching
  <2>3. explicit = {}
      BY <2>2 DEF Explicit, Matching
  <2> QED
      BY <2>1, <2>3
<1>3. CASE matching # {}
  <2> DEFINE f == First(matching)
  <2>1. Distinct(matching) /\ \A l \in matching : Matches(name, l.name)
      BY <1>1 DEF Distinct, Matching
  <2>2. f \in matching /\ \A l \in matching : Len(l.name) <= Len(f.name)
      BY <1>3, <2>1, FirstIsLongest
  <2>3. PlanFor(config, name) = f.route
      BY <1>3 DEF PlanFor
  <2> HIDE DEF f
  <2>4. f.name \in Names /\ Matches(name, f.name)
      BY <2>1, <2>2 DEF Distinct
  <2>5. PICK l \in loggers : /\ f.name = l.name
                             /\ f.route.level = EffectiveLevel(rootLevel, l.name, loggers)
      BY <2>2, WithLevelsKeepsNames DEF Matching
  <2>6. \A k \in loggers : Matches(name, k.name) => Len(k.name) <= Len(f.name)
    <3> SUFFICES ASSUME NEW k \in loggers, Matches(name, k.name)
                 PROVE  Len(k.name) <= Len(f.name)
        OBVIOUS
    <3>1. PICK m \in leveled : m.name = k.name
        BY WithLevelsKeepsNames
    <3>2. m \in matching
        BY <3>1 DEF Matching
    <3> QED
        BY <2>2, <3>1, <3>2
  <2>7. Explicit(loggers, f.name) = explicit
      BY <2>4, <2>6, SameMatches DEF Explicit
  <2>8. PlanFor(config, name).level =
            IF explicit = {} THEN rootLevel ELSE First(explicit).configured
      BY <2>3, <2>5, <2>7 DEF EffectiveLevel, Explicit
  <2>9. ASSUME NEW k \in explicit, \A j \in explicit : Len(j.name) <= Len(k.name)
        PROVE  First(explicit) = k
    <3>1. /\ Distinct(explicit) /\ explicit # {}
          /\ \A j \in explicit : Matches(name, j.name)
        BY <2>9 DEF Distinct, Explicit, Matching
    <3>2. /\ First(explicit) \in explicit
          /\ \A j \in explicit : Len(j.name) <= Len(First(explicit).name)
        BY <3>1, FirstIsLongest
    <3>3. /\ k.name \in Names /\ First(explicit).name \in Names
          /\ Matches(name, k.name) /\ Matches(name, First(explicit).name)
        BY <3>1, <3>2 DEF Distinct
    <3>4. Len(k.name) \in Nat /\ Len(First(explicit).name) \in Nat
        BY <3>3, RoutingAssumption
    <3>5. Len(k.name) = Len(First(explicit).name)
        BY <2>9, <3>2, <3>4
    <3>6. k.name = First(explicit).name
        BY <3>3, <3>5, EqualLengthsAreEqual
    <3> QED
        BY <3>1, <3>2, <3>6 DEF Distinct
  <2> HIDE DEF explicit
  <2>10. \A k \in explicit : (\A j \in explicit : Len(j.name) <= Len(k.name))
                                  => PlanFor(config, name).level = k.configured
      BY <2>8, <2>9
  <2> QED
      BY <2>8, <2>10 DEF explicit
<1> QED
    BY <1>2, <1>3

(* The loggers of a runtime before their levels are derived.               *)
Configured(o) == {LoggerOf(o, r) : r \in o.rules}

Loggers(o, ls) == IF ls = NoLevels THEN Configured(o)
                  ELSE Kept(Build(o), ls) \cup Added(Build(o), ls)

LevelMap == [Names \cup {ROOT} -> Levels \cup {Inherit}]

LEMMA ConfiguredIsDistinct ==
    ASSUME NEW o \in Configs
    PROVE  Distinct(Configured(o)) /\ Distinct(Build(o).loggers)
<1>1. /\ \A r, s \in o.rules : r.name = s.name => r = s
      /\ \A r \in o.rules : r.name \in Names
    BY RoutingAssumption DEF Options, Rule
<1>2. Distinct(Configured(o))
  <2>1. \A r \in o.rules : LoggerOf(o, r).name = r.name
      BY DEF LoggerOf
  <2>2. \A l \in Configured(o) : \E r \in o.rules : l = LoggerOf(o, r)
      BY DEF Configured
  <2> QED
      BY <1>1, <2>1, <2>2 DEF Distinct
<1> QED
    BY <1>2, WithLevelsIsDistinct DEF Build, Configured

LEMMA LoggersAreDistinct ==
    ASSUME NEW o \in Configs, NEW ls \in LevelMap
    PROVE  Distinct(Loggers(o, ls))
<1>1. Distinct(Configured(o)) /\ Distinct(Build(o).loggers)
    BY ConfiguredIsDistinct
<1>2. Distinct(Kept(Build(o), ls))
    BY <1>1 DEF Distinct, Kept
<1>3. Distinct(Added(Build(o), ls))
    BY DEF Distinct, Added
<1>4. \A l \in Kept(Build(o), ls), k \in Added(Build(o), ls) : l.name # k.name
    BY DEF Kept, Added
<1> QED
    BY <1>1, <1>2, <1>3, <1>4 DEF Distinct, Loggers

LEMMA CurrentLoggers ==
    ASSUME NEW o \in Configs, NEW ls \in LevelMap
    PROVE  LET rootLevel == LevelOr(ls[ROOT], o.level) IN
           /\ Overridden(Build(o), ls).root.level = rootLevel
           /\ Overridden(Build(o), ls).loggers = WithLevels(rootLevel, Loggers(o, ls))
<1>1. CASE ls = NoLevels
    BY <1>1 DEF Overridden, Build, Loggers, Configured, LevelOr, NoLevels
<1>2. CASE ls # NoLevels
    BY <1>2 DEF Overridden, Build, Loggers
<1> QED
    BY <1>1, <1>2

LEMMA BuiltLoggers ==
    ASSUME NEW o \in Configs
    PROVE  /\ \A r \in o.rules : \E b \in Build(o).loggers :
                 b.name = r.name /\ b.configured = r.level
           /\ \A b \in Build(o).loggers : \E r \in o.rules :
                 b.name = r.name /\ b.configured = r.level
<1>1. /\ \A r \in o.rules : LoggerOf(o, r) \in Configured(o)
      /\ \A l \in Configured(o) : \E r \in o.rules : l = LoggerOf(o, r)
    BY DEF Configured
<1>2. \A r \in o.rules : LoggerOf(o, r).name = r.name /\ LoggerOf(o, r).configured = r.level
    BY DEF LoggerOf
<1>3. Build(o).loggers = WithLevels(o.level, Configured(o))
    BY DEF Build, Configured
<1> QED
    BY <1>1, <1>2, <1>3, WithLevelsKeepsNames

LEMMA KeptLoggers ==
    ASSUME NEW b, NEW ls
    PROVE  /\ \A l \in Kept(b, ls) : \E k \in b.loggers :
                 /\ l.name = k.name /\ l.route = k.route
                 /\ l.configured = LevelOr(ls[k.name], k.configured)
           /\ \A k \in b.loggers : \E l \in Kept(b, ls) :
                 l.name = k.name /\ l.route = k.route
<1> DEFINE kept(k) == [name |-> k.name, configured |-> LevelOr(ls[k.name], k.configured),
                       route |-> k.route]
<1>1. /\ \A k \in b.loggers : kept(k) \in Kept(b, ls)
      /\ \A l \in Kept(b, ls) : \E k \in b.loggers : l = kept(k)
    BY DEF Kept
<1>2. \A k \in b.loggers : /\ kept(k).name = k.name /\ kept(k).route = k.route
                           /\ kept(k).configured = LevelOr(ls[k.name], k.configured)
    OBVIOUS
<1> HIDE DEF kept
<1> QED
    BY <1>1, <1>2

LEMMA AddedLoggers ==
    ASSUME NEW b, NEW ls
    PROVE  /\ \A l \in Added(b, ls) :
                 /\ l.name \in Names /\ \A k \in b.loggers : k.name # l.name
                 /\ ls[l.name] # Inherit /\ l.configured = ls[l.name]
                 /\ l.route = PlanFor(b, l.name)
           /\ \A n \in Names :
                 (ls[n] # Inherit /\ \A k \in b.loggers : k.name # n) =>
                     \E l \in Added(b, ls) : l.name = n
<1> DEFINE added(n) == [name |-> n, configured |-> ls[n], route |-> PlanFor(b, n)]
           fresh == {n \in Names : ls[n] # Inherit /\ \A k \in b.loggers : k.name # n}
<1>1. /\ \A n \in fresh : added(n) \in Added(b, ls)
      /\ \A l \in Added(b, ls) : \E n \in fresh : l = added(n)
    BY DEF Added
<1>2. \A n \in fresh : /\ added(n).name = n /\ added(n).configured = ls[n]
                       /\ added(n).route = PlanFor(b, n)
    OBVIOUS
<1>3. \A n \in fresh : n \in Names /\ ls[n] # Inherit /\ \A k \in b.loggers : k.name # n
    OBVIOUS
<1>4. \A n \in Names : (ls[n] # Inherit /\ \A k \in b.loggers : k.name # n) => n \in fresh
    OBVIOUS
<1> HIDE DEF added, fresh
<1> QED
    BY <1>1, <1>2, <1>3, <1>4

(* A logger of the runtime has the level that the configuration and the    *)
(* levels set at run time say, and one with a level is there.              *)
LEMMA ExplicitLoggers ==
    ASSUME configured \in Configs, levels \in LevelMap, NEW n \in Names
    PROVE  /\ \A l \in Loggers(configured, levels) :
                 l.name = n => l.configured = ExplicitLevel(n)
           /\ ExplicitLevel(n) # Inherit =>
                 \E l \in Loggers(configured, levels) : l.name = n
<1> DEFINE o == configured
           B == Build(o).loggers
<1>1. \A r, s \in o.rules : r.name = s.name => r = s
    BY RoutingAssumption
<1>2. \A r \in o.rules : r.name = n /\ levels[n] = Inherit => ExplicitLevel(n) = r.level
    BY <1>1 DEF ExplicitLevel
<1>3. ExplicitLevel(n) # Inherit => levels[n] # Inherit \/ \E r \in o.rules : r.name = n
    BY DEF ExplicitLevel
<1>4. levels[n] # Inherit => ExplicitLevel(n) = levels[n]
    BY DEF ExplicitLevel
<1>5. CASE levels = NoLevels
  <2>1. levels[n] = Inherit
      BY <1>5 DEF NoLevels
  <2>2. \A r \in o.rules : /\ LoggerOf(o, r) \in Loggers(o, levels)
                           /\ LoggerOf(o, r).name = r.name
                           /\ LoggerOf(o, r).configured = r.level
      BY <1>5 DEF Loggers, Configured, LoggerOf
  <2>3. \A l \in Loggers(o, levels) : \E r \in o.rules : l = LoggerOf(o, r)
      BY <1>5 DEF Loggers, Configured
  <2> QED
      BY <1>2, <1>3, <2>1, <2>2, <2>3
<1>6. CASE levels # NoLevels
  <2>1. Loggers(o, levels) = Kept(Build(o), levels) \cup Added(Build(o), levels)
      BY <1>6 DEF Loggers
  <2>2. /\ \A l \in Kept(Build(o), levels) : \E b \in B :
              l.name = b.name /\ l.configured = LevelOr(levels[b.name], b.configured)
        /\ \A b \in B : \E l \in Kept(Build(o), levels) : l.name = b.name
      BY KeptLoggers
  <2>3. /\ \A l \in Added(Build(o), levels) :
              levels[l.name] # Inherit /\ l.configured = levels[l.name]
        /\ (levels[n] # Inherit /\ \A b \in B : b.name # n) =>
              \E l \in Added(Build(o), levels) : l.name = n
      BY AddedLoggers
  <2>4. ASSUME NEW l \in Loggers(o, levels), l.name = n PROVE l.configured = ExplicitLevel(n)
    <3>1. CASE l \in Added(Build(o), levels)
        BY <1>4, <2>3, <2>4, <3>1
    <3>2. CASE l \in Kept(Build(o), levels)
      <4>1. PICK b \in B : l.name = b.name
                           /\ l.configured = LevelOr(levels[b.name], b.configured)
          BY <2>2, <3>2
      <4>2. PICK r \in o.rules : b.name = r.name /\ b.configured = r.level
          BY <4>1, BuiltLoggers
      <4> QED
          BY <1>2, <1>4, <2>4, <4>1, <4>2 DEF LevelOr
    <3> QED
        BY <2>1, <2>4, <3>1, <3>2
  <2>5. ASSUME ExplicitLevel(n) # Inherit
        PROVE  \E l \in Loggers(o, levels) : l.name = n
    <3>1. CASE \E b \in B : b.name = n
        BY <2>1, <2>2, <3>1
    <3>2. CASE \A b \in B : b.name # n
      <4>1. levels[n] # Inherit
          BY <1>3, <2>5, <3>2, BuiltLoggers
      <4> QED
          BY <2>1, <2>3, <3>2, <4>1
    <3> QED
        BY <3>1, <3>2
  <2> QED
      BY <2>4, <2>5
<1> QED
    BY <1>5, <1>6

-----------------------------------------------------------------------------
(* The runtime in use is the one the configuration and the levels yield.   *)
RoutingInvariant ==
    /\ configured \in Configs
    /\ levels \in LevelMap
    /\ base = Build(configured)
    /\ current = Overridden(base, levels)
    /\ open \in BOOLEAN
    /\ call.name \in Names \cup {ROOT}

(* Every configuration, SetLevel, reset, reload and call keeps the runtime *)
(* derived from the configuration and the levels set, and from no earlier  *)
(* runtime.                                                                *)
THEOREM RoutingInvariantHolds == RoutingSpec => []RoutingInvariant
<1>1. RoutingInit => RoutingInvariant
    BY DEF RoutingInit, RoutingInvariant, NoLevels, LevelMap, Overridden, NoCall
<1>2. RoutingInvariant /\ [RoutingNext]_routingVars => RoutingInvariant'
  <2> SUFFICES ASSUME RoutingInvariant, [RoutingNext]_routingVars PROVE RoutingInvariant'
      OBVIOUS
  <2> USE DEF RoutingInvariant
  <2>1. ASSUME NEW n \in Names \cup {ROOT}, NEW l \in Levels \cup {Inherit}, SetLevel(n, l)
        PROVE  RoutingInvariant'
    <3>1. levels' \in LevelMap
        BY <2>1 DEF SetLevel, LevelMap
    <3> QED
        BY <2>1, <3>1 DEF SetLevel
  <2>2. ASSUME NEW o \in Configs, Replace(o) PROVE RoutingInvariant'
      BY <2>2 DEF Replace
  <2>3. CASE Close
      BY <2>3 DEF Close
  <2>4. ASSUME NEW n \in Names, NEW l \in Levels, NEW bare \in BOOLEAN,
               NEW verdict \in [Filters -> {"neutral", "accept", "deny"}],
               Log(n, l, verdict, bare)
        PROVE  RoutingInvariant'
    <3>1. call'.name = n
        BY <2>4 DEF Log
    <3> QED
        BY <2>4, <3>1 DEF Log
  <2>5. CASE Return
      BY <2>5 DEF Return, NoCall
  <2>6. CASE UNCHANGED routingVars
      BY <2>6 DEF routingVars
  <2> QED
      BY <2>1, <2>2, <2>3, <2>4, <2>5, <2>6 DEF RoutingNext
<1> QED
    BY <1>1, <1>2, PTL DEF RoutingSpec

(* The state has the types the module gives it.                            *)
THEOREM TypeCorrect == RoutingSpec => []TypeOK
<1>1. RoutingInvariant => TypeOK
    BY DEF RoutingInvariant, TypeOK, LevelMap
<1> QED
    BY <1>1, RoutingInvariantHolds, PTL

LEMMA NearestLevel ==
    ASSUME RoutingInvariant, NEW name \in Names
    PROVE  LET level == PlanFor(current, name).level IN
           /\ \A n \in Names : IsNearest(n, Leveled(name)) => level = ExplicitLevel(n)
           /\ Leveled(name) = {} => level = LevelOr(levels[ROOT], configured.level)
<1> DEFINE loggers == Loggers(configured, levels)
           rootLevel == LevelOr(levels[ROOT], configured.level)
           explicit == Explicit(loggers, name)
           level == PlanFor(current, name).level
<1>1. configured \in Configs /\ levels \in LevelMap
    BY DEF RoutingInvariant
<1>2. Distinct(loggers)
    BY <1>1, LoggersAreDistinct
<1>3. current.root.level = rootLevel /\ current.loggers = WithLevels(rootLevel, loggers)
    BY <1>1, CurrentLoggers DEF RoutingInvariant
<1>4. /\ explicit = {} => level = rootLevel
      /\ \A l \in explicit :
            (\A k \in explicit : Len(k.name) <= Len(l.name)) => level = l.configured
    BY <1>2, <1>3, LevelOfPlan
<1>5. \A l \in loggers : l.name \in Names /\ l.configured = ExplicitLevel(l.name)
    BY <1>1, <1>2, ExplicitLoggers DEF Distinct
<1>6. \A n \in Names : ExplicitLevel(n) # Inherit => \E l \in loggers : l.name = n
    BY <1>1, ExplicitLoggers
<1> HIDE DEF loggers, rootLevel, level
<1>7. \A l \in explicit : /\ l.name \in Leveled(name)
                          /\ l.configured = ExplicitLevel(l.name)
    BY <1>5 DEF Explicit, Matching, Leveled
<1>8. \A n \in Leveled(name) : \E l \in explicit : l.name = n
    BY <1>5, <1>6 DEF Explicit, Matching, Leveled
<1> HIDE DEF explicit
<1>9. Leveled(name) = {} => level = rootLevel
    BY <1>4, <1>7
<1>10. ASSUME NEW n \in Names, IsNearest(n, Leveled(name)) PROVE level = ExplicitLevel(n)
  <2>1. PICK l \in explicit : l.name = n
      BY <1>8, <1>10 DEF IsNearest
  <2>2. \A k \in explicit : Len(k.name) <= Len(l.name)
      BY <1>7, <1>10, <2>1 DEF IsNearest
  <2> QED
      BY <1>4, <1>7, <2>1, <2>2
<1> QED
    BY <1>9, <1>10 DEF level, rootLevel

(* For every configuration and every history of levels and reloads, the    *)
(* level in force for a name is that of its nearest prefix with a level.   *)
THEOREM NearestPrefixWins == RoutingSpec => []PlanIsNearest
<1>1. RoutingInvariant => PlanIsNearest
    BY NearestLevel DEF PlanIsNearest
<1> QED
    BY <1>1, RoutingInvariantHolds, PTL

-----------------------------------------------------------------------------
SameOutputs(now, was) == now.appenders = was.appenders /\ now.filters = was.filters

(* Two names that the same loggers match have one plan.                    *)
LEMMA SamePlan ==
    ASSUME NEW config, NEW n, NEW m, Matching(config.loggers, n) = Matching(config.loggers, m)
    PROVE  PlanFor(config, n) = PlanFor(config, m)
BY DEF PlanFor

LEMMA OutputsOfPlan ==
    ASSUME NEW o \in Configs, NEW ls \in LevelMap, NEW name \in Names
    PROVE  SameOutputs(PlanFor(Overridden(Build(o), ls), name), PlanFor(Build(o), name))
<1> DEFINE b == Build(o)
           now == Overridden(b, ls)
<1>1. CASE ls = NoLevels
    BY <1>1 DEF Overridden, SameOutputs
<1>2. CASE ls # NoLevels
  <2> DEFINE rootLevel == LevelOr(ls[ROOT], b.root.level)
             all == Kept(b, ls) \cup Added(b, ls)
             leveled == WithLevels(rootLevel, all)
             before == Matching(b.loggers, name)
             after == Matching(leveled, name)
  <2>1. /\ now.loggers = leveled
        /\ SameOutputs(now.root, b.root)
      BY <1>2 DEF Overridden, SameOutputs
  <2>2. Distinct(b.loggers) /\ Distinct(all)
      BY <1>2, ConfiguredIsDistinct, LoggersAreDistinct DEF Loggers
  <2>3. Distinct(leveled)
      BY <2>2, WithLevelsIsDistinct
  <2>4. \A k \in b.loggers : \E l \in leveled : l.name = k.name
    <3> SUFFICES ASSUME NEW k \in b.loggers PROVE \E l \in leveled : l.name = k.name
        OBVIOUS
    <3>1. PICK l \in all : l.name = k.name
        BY KeptLoggers
    <3> QED
        BY <3>1, WithLevelsKeepsNames
  <2>5. \A m \in leveled : \E l \in all : m.name = l.name /\ SameOutputs(m.route, l.route)
      BY WithLevelsKeepsNames DEF SameOutputs
  <2>6. CASE after = {}
    <3>1. before = {}
        BY <2>4, <2>6 DEF Matching
    <3>2. PlanFor(now, name) = now.root /\ PlanFor(b, name) = b.root
        BY <2>1, <2>6, <3>1 DEF PlanFor
    <3> QED
        BY <2>1, <3>2
  <2>7. CASE after # {}
    <3> DEFINE f == First(after)
    <3>1. Distinct(after) /\ \A l \in after : Matches(name, l.name)
        BY <2>3 DEF Distinct, Matching
    <3>2. f \in after /\ \A l \in after : Len(l.name) <= Len(f.name)
        BY <2>7, <3>1, FirstIsLongest
    <3>3. PlanFor(now, name) = f.route
        BY <2>1, <2>7 DEF PlanFor
    <3> HIDE DEF f
    <3>4. f \in leveled /\ f.name \in Names /\ Matches(name, f.name)
        BY <3>1, <3>2 DEF Distinct, Matching
    <3>5. PICK l \in all : f.name = l.name /\ SameOutputs(f.route, l.route)
        BY <2>5, <3>4
    <3>6. \A k \in b.loggers : Matches(name, k.name) => Len(k.name) <= Len(f.name)
      <4> SUFFICES ASSUME NEW k \in b.loggers, Matches(name, k.name)
                   PROVE  Len(k.name) <= Len(f.name)
          OBVIOUS
      <4>1. PICK m \in leveled : m.name = k.name
          BY <2>4
      <4>2. m \in after
          BY <4>1 DEF Matching
      <4> QED
          BY <3>2, <4>1, <4>2
    <3>7. Matching(b.loggers, f.name) = before
        BY <2>2, <3>4, <3>6, SameMatches
    <3>8. PlanFor(b, f.name) = PlanFor(b, name)
        BY <3>7, SamePlan
    <3>9. CASE l \in Added(b, ls)
      <4>1. l.route = PlanFor(b, l.name)
          BY <3>9, AddedLoggers
      <4> QED
          BY <3>3, <3>5, <3>8, <4>1 DEF SameOutputs
    <3>10. CASE l \in Kept(b, ls)
      <4>1. PICK k \in b.loggers : l.name = k.name /\ l.route = k.route
          BY <3>10, KeptLoggers
      <4>2. k \in before
          BY <3>4, <3>5, <4>1 DEF Matching
      <4>3. Distinct(before) /\ \A j \in before : Matches(name, j.name)
          BY <2>2 DEF Distinct, Matching
      <4>4. /\ First(before) \in before
            /\ Len(k.name) <= Len(First(before).name)
          BY <4>2, <4>3, FirstIsLongest
      <4>5. Len(First(before).name) <= Len(k.name)
          BY <3>5, <3>6, <4>1, <4>3, <4>4 DEF Matching
      <4>6. /\ k.name \in Names /\ First(before).name \in Names
            /\ Matches(name, k.name) /\ Matches(name, First(before).name)
          BY <4>2, <4>3, <4>4 DEF Distinct
      <4>7. Len(k.name) \in Nat /\ Len(First(before).name) \in Nat
          BY <4>6, RoutingAssumption
      <4>8. k.name = First(before).name
          BY <4>4, <4>5, <4>6, <4>7, EqualLengthsAreEqual
      <4>9. k = First(before)
          BY <4>2, <4>3, <4>4, <4>8 DEF Distinct
      <4>10. PlanFor(b, name) = k.route
          BY <4>2, <4>9 DEF PlanFor
      <4> QED
          BY <3>3, <3>5, <4>1, <4>10
    <3> QED
        BY <3>5, <3>9, <3>10
  <2> QED
      BY <2>6, <2>7
<1> QED
    BY <1>1, <1>2

(* Levels set at run time change no name's appenders or filters, for every *)
(* configuration and every history.                                        *)
THEOREM LevelsChangeNoOutputs == RoutingSpec => []OutputsKept
<1>1. RoutingInvariant => OutputsKept
    BY OutputsOfPlan DEF RoutingInvariant, OutputsKept, SameOutputs
<1> QED
    BY <1>1, RoutingInvariantHolds, PTL
-----------------------------------------------------------------------------
Verdicts == [Filters -> {"neutral", "accept", "deny"}]

(* The call that is recorded ran on the runtime of now.                    *)
CallIsCurrent ==
    call = NoCall \/
        \E name \in Names, level \in Levels, verdict \in Verdicts, bare \in BOOLEAN :
            call = [name |-> name, level |-> level, verdict |-> verdict,
                    wrote |-> Writes(current, name, level, verdict, bare)]

LEMMA CallIsCurrentHolds == RoutingSpec => []CallIsCurrent
<1>1. RoutingInit => CallIsCurrent
    BY DEF RoutingInit, CallIsCurrent
<1>2. CallIsCurrent /\ [RoutingNext]_routingVars => CallIsCurrent'
  <2> SUFFICES ASSUME CallIsCurrent, [RoutingNext]_routingVars PROVE CallIsCurrent'
      OBVIOUS
  <2>1. ASSUME NEW n \in Names \cup {ROOT}, NEW l \in Levels \cup {Inherit}, SetLevel(n, l)
        PROVE  CallIsCurrent'
      BY <2>1 DEF SetLevel, CallIsCurrent
  <2>2. ASSUME NEW o \in Configs, Replace(o) PROVE CallIsCurrent'
      BY <2>2 DEF Replace, CallIsCurrent
  <2>3. CASE Close
      BY <2>3 DEF Close, CallIsCurrent
  <2>4. ASSUME NEW n \in Names, NEW l \in Levels, NEW bare \in BOOLEAN,
               NEW verdict \in Verdicts, Log(n, l, verdict, bare)
        PROVE  CallIsCurrent'
      BY <2>4, Zenon DEF Log, CallIsCurrent
  <2>5. CASE Return
      BY <2>5 DEF Return, CallIsCurrent, NoCall
  <2>6. CASE UNCHANGED routingVars
      BY <2>6 DEF routingVars, CallIsCurrent
  <2> QED
      BY <2>1, <2>2, <2>3, <2>4, <2>5, <2>6 DEF RoutingNext, Verdicts
<1> QED
    BY <1>1, <1>2, PTL DEF RoutingSpec

-----------------------------------------------------------------------------
(* What the plan of a name lets pass.                                      *)
RouteIsOpen(config, route, level, verdict) ==
    LET accepted == Verdict(config.global, verdict)
    IN  /\ accepted # "deny"
        /\ accepted = "accept" \/ level >= route.level
        /\ Verdict(route.filters, verdict) # "deny"

LetsPass(control, level, verdict) ==
    level >= control.min /\ Verdict(control.filters, verdict) # "deny"

(* The positions of a list that lead to an appender and let the event      *)
(* pass, and the references that do.                                       *)
PassingPositions(refs, a, level, verdict) ==
    {i \in DOMAIN refs : refs[i].to = a /\ LetsPass(refs[i], level, verdict)}
PassingReferences(references, level, verdict) ==
    {r \in references : LetsPass(r.control, level, verdict)}

LEMMA NoFilters == \A verdict : Verdict(<<>>, verdict) = "neutral"
BY DEF Verdict

(* Both paths write to the references of the plan that let the event pass. *)
LEMMA WritesWhatPasses ==
    ASSUME NEW config, NEW name, NEW level \in Int, NEW verdict, NEW bare,
           PlanFor(config, name).level \in Int
    PROVE  LET route == PlanFor(config, name)
               isOpen == RouteIsOpen(config, route, level, verdict)
               wrote == Writes(config, name, level, verdict, bare)
           IN  /\ \A i : i \in DOMAIN wrote <=>
                      /\ i \in DOMAIN route.appenders
                      /\ isOpen /\ LetsPass(route.appenders[i], level, verdict)
               /\ \A i \in DOMAIN wrote : wrote[i] = route.appenders[i]
<1> DEFINE route == PlanFor(config, name)
           refs == route.appenders
           accepted == Verdict(config.global, verdict)
           wrote == Writes(config, name, level, verdict, bare)
           fast == Wanted(refs, level)
           passing == {i \in DOMAIN refs : LetsPass(refs[i], level, verdict)}
           denied == accepted = "deny" \/ (accepted # "accept" /\ level < route.level)
           quick == config.global = <<>> /\ CanDispatchFast(route, bare) /\ DOMAIN fast # {}
<1>1. /\ DOMAIN fast = {i \in DOMAIN refs : level >= refs[i].min}
      /\ \A i \in DOMAIN fast : fast[i] = refs[i]
    BY DEF Wanted, At
<1>2. CASE denied
  <2>1. wrote = At(fast, {})
      BY <1>2 DEF Writes
  <2>2. DOMAIN wrote = {}
      BY <2>1 DEF At
  <2>3. ~RouteIsOpen(config, route, level, verdict)
      BY <1>2 DEF RouteIsOpen
  <2> QED
      BY <2>2, <2>3
<1>3. CASE ~denied /\ quick
  <2>1. wrote = fast
      BY <1>3 DEF Writes
  <2>2. route.filters = <<>> /\ \A i \in DOMAIN refs : refs[i].filters = <<>>
      BY <1>3 DEF CanDispatchFast
  <2>3. RouteIsOpen(config, route, level, verdict)
      BY <1>3, <2>2, NoFilters DEF RouteIsOpen
  <2>4. passing = DOMAIN fast
      BY <1>1, <2>2, NoFilters DEF LetsPass
  <2> QED
      BY <1>1, <2>1, <2>3, <2>4
<1>4. CASE ~denied /\ ~quick
  <2>1. wrote = WriteRoute(route, level, verdict)
      BY <1>4 DEF Writes
  <2>2. CASE Verdict(route.filters, verdict) = "deny"
    <3>1. wrote = At(fast, {})
        BY <2>1, <2>2 DEF WriteRoute
    <3>2. DOMAIN wrote = {}
        BY <3>1 DEF At
    <3>3. ~RouteIsOpen(config, route, level, verdict)
        BY <2>2 DEF RouteIsOpen
    <3> QED
        BY <3>2, <3>3
  <2>3. CASE Verdict(route.filters, verdict) # "deny"
    <3> DEFINE these == {i \in DOMAIN fast : Verdict(fast[i].filters, verdict) # "deny"}
    <3>1. wrote = At(fast, these)
        BY <2>1, <2>3 DEF WriteRoute
    <3>2. these = passing
        BY <1>1 DEF LetsPass
    <3>3. DOMAIN wrote = passing /\ \A i \in passing : wrote[i] = fast[i]
        BY <3>1, <3>2 DEF At
    <3>4. RouteIsOpen(config, route, level, verdict)
        BY <1>4, <2>3 DEF RouteIsOpen
    <3> QED
        BY <1>1, <3>2, <3>3, <3>4
  <2> QED
      BY <2>2, <2>3
<1> QED
    BY <1>2, <1>3, <1>4

(* The level of every plan is a severity.                                  *)
LEMMA PlanLevelIsALevel ==
    ASSUME RoutingInvariant, NEW name \in Names
    PROVE  PlanFor(current, name).level \in Int
<1>1. \A m \in Names : Len(m) \in Nat
    BY RoutingAssumption
<1>0. /\ levels \in LevelMap /\ configured \in Options
      /\ \A l \in Levels \cup {Inherit} : l \in Int
    BY RoutingAssumption DEF RoutingInvariant, Inherit
<1>2. configured.level \in Int /\ \A r \in configured.rules : r.level \in Int
    BY <1>0 DEF Options, Rule
<1>3. ASSUME NEW n \in Names PROVE ExplicitLevel(n) \in Int
  <2>1. levels[n] \in Int
      BY <1>0 DEF LevelMap
  <2>2. (\E r \in configured.rules : r.name = n) =>
            (CHOOSE r \in configured.rules : r.name = n) \in configured.rules
      OBVIOUS
  <2> QED
      BY <1>2, <2>1, <2>2 DEF ExplicitLevel, Inherit
<1>4. CASE Leveled(name) = {}
  <2>1. levels[ROOT] \in Int
      BY <1>0 DEF LevelMap
  <2> QED
      BY <1>2, <1>4, <2>1, NearestLevel DEF LevelOr
<1>5. CASE Leveled(name) # {}
  <2> DEFINE S == {Len(name) - Len(m) : m \in Leveled(name)}
  <2>1. \A m \in Leveled(name) : m \in Names /\ Len(m) <= Len(name)
      BY <1>1 DEF Leveled, Matches
  <2>2. S \in SUBSET Nat /\ S # {}
      BY <1>1, <1>5, <2>1
  <2>3. PICK x \in S : \A y \in S : x <= y
      BY <2>2, LeastNatural
  <2>4. PICK n \in Leveled(name) : x = Len(name) - Len(n)
      BY <2>3
  <2>5. \A m \in Leveled(name) : Len(name) - Len(n) <= Len(name) - Len(m)
      BY <2>3, <2>4
  <2>6. \A m \in Leveled(name) : Len(m) <= Len(n)
      BY <1>1, <2>1, <2>5
  <2>7. n \in Names /\ IsNearest(n, Leveled(name))
      BY <2>1, <2>6 DEF IsNearest
  <2> QED
      BY <1>3, <2>7, NearestLevel
<1> QED
    BY <1>4, <1>5

(* The outputs of a name are root's, or those of its one nearest rule.     *)
LEMMA OutputsOfName ==
    ASSUME NEW o \in Configs, NEW name \in Names
    PROVE  LET matching == {r \in o.rules : Matches(name, r.name)}
               nearest == {r \in matching : \A s \in matching : Len(s.name) <= Len(r.name)}
               route == PlanFor(Build(o), name)
           IN  /\ nearest = {} => route.appenders = o.refs /\ route.filters = o.filters
               /\ nearest # {} => \E r \in o.rules :
                     /\ nearest = {r}
                     /\ SameOutputs(route, LoggerOf(o, r).route)
<1> DEFINE rules == {r \in o.rules : Matches(name, r.name)}
           nearest == {r \in rules : \A s \in rules : Len(s.name) <= Len(r.name)}
           route == PlanFor(Build(o), name)
           matching == Matching(Build(o).loggers, name)
<1>1. /\ \A r, s \in o.rules : r.name = s.name => r = s
      /\ \A r \in o.rules : r.name \in Names
    BY RoutingAssumption DEF Options, Rule
<1>2. Distinct(Build(o).loggers)
    BY ConfiguredIsDistinct
<1>3. ASSUME NEW b \in Build(o).loggers
      PROVE  \E r \in o.rules : b.name = r.name /\ SameOutputs(b.route, LoggerOf(o, r).route)
  <2>1. PICK l \in Configured(o) : /\ b.name = l.name
                                   /\ b.route.appenders = l.route.appenders
                                   /\ b.route.filters = l.route.filters
      BY WithLevelsKeepsNames DEF Build, Configured
  <2>2. PICK r \in o.rules : l = LoggerOf(o, r)
      BY <2>1 DEF Configured
  <2>3. LoggerOf(o, r).name = r.name
      BY DEF LoggerOf
  <2> QED
      BY <2>1, <2>2, <2>3 DEF SameOutputs
<1>4. CASE matching = {}
  <2>1. rules = {}
      BY <1>4, BuiltLoggers DEF Matching
  <2>2. route = Build(o).root
      BY <1>4 DEF PlanFor
  <2> QED
      BY <2>1, <2>2 DEF Build
<1>5. CASE matching # {}
  <2>1. Distinct(matching) /\ \A l \in matching : Matches(name, l.name)
      BY <1>2 DEF Distinct, Matching
  <2>2. /\ First(matching) \in matching
        /\ \A l \in matching : Len(l.name) <= Len(First(matching).name)
      BY <1>5, <2>1, FirstIsLongest
  <2>3. First(matching) \in Build(o).loggers /\ Matches(name, First(matching).name)
      BY <2>2 DEF Matching
  <2>4. PICK r \in o.rules : /\ First(matching).name = r.name
                             /\ SameOutputs(First(matching).route, LoggerOf(o, r).route)
      BY <1>3, <2>3
  <2>5. route = First(matching).route
      BY <1>5 DEF PlanFor
  <2>6. ASSUME NEW s \in rules PROVE Len(s.name) <= Len(r.name)
    <3>1. PICK b \in Build(o).loggers : b.name = s.name
        BY BuiltLoggers
    <3>2. b \in matching
        BY <3>1 DEF Matching
    <3> QED
        BY <2>2, <2>4, <3>1, <3>2
  <2>7. r \in nearest
      BY <2>3, <2>4, <2>6
  <2>8. ASSUME NEW s \in nearest PROVE s = r
    <3>1. Len(s.name) = Len(r.name)
      <4>1. Len(s.name) \in Nat /\ Len(r.name) \in Nat
          BY <1>1, RoutingAssumption
      <4> QED
          BY <2>7, <4>1
    <3> QED
        BY <1>1, <2>7, <3>1, EqualLengthsAreEqual
  <2>9. nearest = {r}
      BY <2>7, <2>8
  <2> QED
      BY <2>4, <2>5, <2>9
<1> QED
    BY <1>4, <1>5

-----------------------------------------------------------------------------
(* The first reference of a list to an appender.                           *)
LEMMA FirstReferenceIs ==
    ASSUME NEW C, NEW refs \in Seq(C), NEW a
    PROVE  LET all == ReferencesTo(refs, a) IN
           \/ /\ all = {} /\ FirstReference(all) = {}
              /\ \A i \in DOMAIN refs : refs[i].to # a
           \/ \E m \in DOMAIN refs :
                 /\ refs[m].to = a /\ \A k \in 1..(m - 1) : refs[k].to # a
                 /\ all # {}
                 /\ FirstReference(all) = {[at |-> m, control |-> refs[m]]}
<1> DEFINE all == ReferencesTo(refs, a)
           here == {k \in DOMAIN refs : refs[k].to = a}
           at(i) == [at |-> i, control |-> refs[i]]
<1>1. /\ \A i \in here : at(i) \in all
      /\ \A r \in all : \E i \in here : r = at(i)
    BY DEF ReferencesTo
<1>2. CASE here = {}
    BY <1>1, <1>2 DEF FirstReference
<1>3. CASE here # {}
  <2>1. here \in SUBSET Nat
      OBVIOUS
  <2>2. PICK m \in here : \A k \in here : m <= k
      BY <1>3, <2>1, LeastNatural
  <2>3. m \in DOMAIN refs /\ refs[m].to = a
      BY <2>2
  <2>4. \A k \in 1..(m - 1) : refs[k].to # a
      BY <2>2, <2>3
  <2>5. at(m) \in FirstReference(all)
      BY <1>1, <2>2 DEF FirstReference
  <2>6. ASSUME NEW r \in FirstReference(all) PROVE r = at(m)
    <3>1. PICK i \in here : r = at(i)
        BY <1>1 DEF FirstReference
    <3>2. i <= m
        BY <1>1, <2>2, <3>1 DEF FirstReference
    <3>3. i = m
        BY <2>1, <2>2, <3>2
    <3> QED
        BY <3>1, <3>3
  <2>7. FirstReference(all) = {at(m)}
      BY <2>5, <2>6
  <2>8. all # {}
      BY <1>1, <2>2
  <2> QED
      BY <2>3, <2>4, <2>7, <2>8
<1> QED
    BY <1>2, <1>3

(* Joined to root's, the references of a logger lead to an appender once:  *)
(* by the first of its own, or by the first of root's if it has none.      *)
LEMMA JoinedReference ==
    ASSUME NEW C, NEW own \in Seq(C), NEW roots \in Seq(C), NEW a
    PROVE  LET merged == JoinUnique(own, roots)
               there == {i \in DOMAIN merged : merged[i].to = a}
               first == IF ReferencesTo(own, a) # {} THEN FirstReference(ReferencesTo(own, a))
                        ELSE FirstReference(ReferencesTo(roots, a))
           IN  \/ there = {} /\ first = {}
               \/ \E i, r : there = {i} /\ first = {r} /\ merged[i] = r.control
<1> DEFINE merged == JoinUnique(own, roots)
           both == own \o roots
           there == {i \in DOMAIN merged : merged[i].to = a}
           n == Len(own)
           first == IF ReferencesTo(own, a) # {} THEN FirstReference(ReferencesTo(own, a))
                    ELSE FirstReference(ReferencesTo(roots, a))
<1>1. /\ n \in Nat /\ Len(roots) \in Nat
      /\ DOMAIN own = 1..n /\ DOMAIN roots = 1..Len(roots) /\ DOMAIN both = 1..(n + Len(roots))
      /\ \A i \in 1..n : both[i] = own[i]
      /\ \A i \in 1..Len(roots) : both[n + i] = roots[i]
    OBVIOUS
<1>2. /\ DOMAIN merged = {i \in DOMAIN both : \A k \in 1..(i - 1) : both[k].to # both[i].to}
      /\ \A i \in DOMAIN merged : merged[i] = both[i]
    BY DEF JoinUnique, At
<1> HIDE DEF merged, both, n
<1>3. ASSUME NEW m \in DOMAIN both, both[m].to = a, \A k \in 1..(m - 1) : both[k].to # a
      PROVE  there = {m} /\ merged[m] = both[m]
  <2>1. m \in there
      BY <1>2, <1>3
  <2>2. ASSUME NEW i \in there PROVE i = m
    <3>1. i \in DOMAIN both /\ both[i].to = a /\ \A k \in 1..(i - 1) : both[k].to # a
        BY <1>2
    <3>2. ~(i < m) /\ ~(m < i)
        BY <1>1, <1>3, <3>1
    <3> QED
        BY <1>1, <3>1, <3>2
  <2> QED
      BY <1>2, <2>1, <2>2
<1>4. CASE ReferencesTo(own, a) # {}
  <2>1. PICK m \in DOMAIN own : /\ own[m].to = a /\ \A k \in 1..(m - 1) : own[k].to # a
                               /\ FirstReference(ReferencesTo(own, a)) =
                                      {[at |-> m, control |-> own[m]]}
      BY <1>4, FirstReferenceIs
  <2>2. m \in DOMAIN both /\ both[m] = own[m] /\ \A k \in 1..(m - 1) : both[k] = own[k]
      BY <1>1, <2>1
  <2>3. there = {m} /\ merged[m] = own[m]
      BY <1>3, <2>1, <2>2
  <2> DEFINE r == [at |-> m, control |-> own[m]]
  <2>4. first = {r} /\ merged[m] = r.control
      BY <1>4, <2>1, <2>3
  <2> QED
      BY <2>3, <2>4 DEF merged
<1>5. CASE ReferencesTo(own, a) = {}
  <2>0. \A i \in DOMAIN own : own[i].to # a
      BY <1>5, FirstReferenceIs
  <2>1. \A i \in 1..n : both[i].to # a
      BY <1>1, <2>0
  <2>2. CASE ReferencesTo(roots, a) = {}
    <3>1. \A i \in DOMAIN roots : roots[i].to # a
        BY <2>2, FirstReferenceIs
    <3>2. ASSUME NEW i \in 1..(n + Len(roots)) PROVE both[i].to # a
      <4>1. CASE i <= n
          BY <1>1, <2>1, <4>1
      <4>2. CASE i > n
        <5>1. i - n \in 1..Len(roots) /\ n + (i - n) = i
            BY <1>1, <4>2
        <5> QED
            BY <1>1, <3>1, <5>1
      <4> QED
          BY <1>1, <4>1, <4>2
    <3>3. there = {}
        BY <1>1, <1>2, <3>2
    <3>4. FirstReference(ReferencesTo(roots, a)) = {}
        BY <2>2 DEF FirstReference
    <3> QED
        BY <1>5, <3>3, <3>4 DEF merged
  <2>3. CASE ReferencesTo(roots, a) # {}
    <3>1. PICK m \in DOMAIN roots : /\ roots[m].to = a /\ \A k \in 1..(m - 1) : roots[k].to # a
                                   /\ FirstReference(ReferencesTo(roots, a)) =
                                          {[at |-> m, control |-> roots[m]]}
        BY <2>3, FirstReferenceIs
    <3>2. n + m \in DOMAIN both /\ both[n + m] = roots[m]
        BY <1>1, <3>1
    <3>3. ASSUME NEW k \in 1..(n + m - 1) PROVE both[k].to # a
      <4>1. CASE k <= n
          BY <1>1, <2>1, <4>1
      <4>2. CASE k > n
        <5>1. k - n \in 1..(m - 1) /\ k - n \in 1..Len(roots) /\ n + (k - n) = k
            BY <1>1, <3>1, <4>2
        <5> QED
            BY <1>1, <3>1, <5>1
      <4> QED
          BY <1>1, <3>1, <4>1, <4>2
    <3>4. there = {n + m} /\ merged[n + m] = roots[m]
      <4> DEFINE p == n + m
      <4>1. p \in DOMAIN both /\ both[p].to = a
          BY <3>1, <3>2
      <4>3. \A k \in 1..(p - 1) : both[k].to # a
          BY <1>1, <3>1, <3>3
      <4> HIDE DEF p
      <4>2. there = {p} /\ merged[p] = both[p]
          BY <1>3, <4>1, <4>3
      <4> QED
          BY <3>2, <4>2 DEF p
    <3> DEFINE r == [at |-> m, control |-> roots[m]]
    <3>5. first = {r} /\ merged[n + m] = r.control
        BY <1>5, <3>1, <3>4
    <3> QED
        BY <3>4, <3>5 DEF merged
  <2> QED
      BY <2>2, <2>3
<1> QED
    BY <1>4, <1>5

(* As many positions of a list lead to an appender as there are references *)
(* of the list to it, of those that let the event pass.                    *)
LEMMA ReferencesCounted ==
    ASSUME NEW C, NEW refs \in Seq(C), NEW a, NEW level, NEW verdict
    PROVE  Cardinality(PassingPositions(refs, a, level, verdict)) =
               Cardinality(PassingReferences(ReferencesTo(refs, a), level, verdict))
<1> DEFINE there == {i \in DOMAIN refs : refs[i].to = a /\ LetsPass(refs[i], level, verdict)}
           by == {r \in ReferencesTo(refs, a) : LetsPass(r.control, level, verdict)}
           at(i) == [at |-> i, control |-> refs[i]]
           f == [i \in there |-> at(i)]
<1>1. /\ \A i \in there : at(i) \in by
      /\ \A r \in by : \E i \in there : r = at(i)
  <2>1. \A r : r \in ReferencesTo(refs, a) <=>
                 \E i \in DOMAIN refs : refs[i].to = a /\ r = at(i)
      BY DEF ReferencesTo
  <2>2. \A i : at(i).control = refs[i]
      OBVIOUS
  <2> QED
      BY <2>1, <2>2
<1>2. f \in Bijection(there, by)
  <2>1. f \in [there -> by]
      BY <1>1
  <2>2. \A i, j \in there : at(i) = at(j) => i = j
      OBVIOUS
  <2> QED
      BY <1>1, <2>1, <2>2 DEF Bijection, Injection, Surjection, IsInjective
<1>3. ExistsBijection(there, by)
    BY <1>2 DEF ExistsBijection
<1>4. IsFiniteSet(there)
  <2>1. DOMAIN refs = 1..Len(refs) /\ Len(refs) \in Nat
      OBVIOUS
  <2>2. there \in SUBSET (1..Len(refs)) /\ IsFiniteSet(1..Len(refs))
      BY <2>1, FS_Interval
  <2> QED
      BY <2>2, FS_Subset
<1>5. IsFiniteSet(by) /\ Cardinality(there) = Cardinality(by)
    BY <1>3, <1>4, FS_Bijection
<1> QED
    BY <1>5 DEF PassingPositions, PassingReferences

(* Of one position and its reference both count, or neither does.          *)
LEMMA BothOrNeither ==
    ASSUME NEW first, NEW merged, NEW a, NEW level, NEW verdict,
           LET there == {i \in DOMAIN merged : merged[i].to = a} IN
           \/ there = {} /\ first = {}
           \/ \E i, r : there = {i} /\ first = {r} /\ merged[i] = r.control
    PROVE  Cardinality(PassingPositions(merged, a, level, verdict)) =
               Cardinality(PassingReferences(first, level, verdict))
<1> DEFINE there == {i \in DOMAIN merged : merged[i].to = a}
           left == PassingPositions(merged, a, level, verdict)
           right == PassingReferences(first, level, verdict)
<1>0. left = {i \in there : LetsPass(merged[i], level, verdict)}
    BY DEF PassingPositions
<1> HIDE DEF there
<1>1. CASE there = {} /\ first = {}
  <2>1. left = {} /\ right = {}
      BY <1>0, <1>1 DEF PassingReferences
  <2> QED
      BY <2>1
<1>2. ASSUME NEW i, NEW r, there = {i}, first = {r}, merged[i] = r.control
      PROVE  Cardinality(left) = Cardinality(right)
  <2>1. CASE LetsPass(r.control, level, verdict)
    <3>1. left = {i} /\ right = {r}
        BY <1>0, <1>2, <2>1 DEF PassingReferences
    <3> QED
        BY <3>1, FS_Singleton
  <2>2. CASE ~LetsPass(r.control, level, verdict)
    <3>1. left = {} /\ right = {}
        BY <1>0, <1>2, <2>2 DEF PassingReferences
    <3> QED
        BY <3>1
  <2> QED
      BY <2>1, <2>2
<1> QED
    BY <1>1, <1>2 DEF there

(* The positions of a plan that lead to an appender are as many as the     *)
(* references the configuration has for the name.                          *)
LEMMA PlanFollowsReferences ==
    ASSUME RoutingInvariant, NEW name \in Names, NEW a, NEW level, NEW verdict
    PROVE  LET route == PlanFor(current, name) IN
           /\ Cardinality(PassingPositions(route.appenders, a, level, verdict)) =
                  Cardinality(PassingReferences(References(name, a), level, verdict))
           /\ route.filters = Chain(name)
<1> DEFINE o == configured
           nearest == NearestRules(name)
           built == PlanFor(Build(o), name)
           route == PlanFor(current, name)
           refs == route.appenders
           counted == PassingPositions(refs, a, level, verdict)
<1>1. /\ o \in Configs /\ o \in Options
      /\ route.appenders = built.appenders /\ route.filters = built.filters
    BY RoutingAssumption, OutputsOfPlan DEF RoutingInvariant, SameOutputs
<1>2. /\ o.refs \in Seq(Control)
      /\ \A r \in o.rules : r.refs \in Seq(Control)
    BY <1>1 DEF Options, Rule
<1>4. CASE nearest = {}
  <2>1. built.appenders = o.refs /\ built.filters = o.filters
      BY <1>1, <1>4, OutputsOfName DEF NearestRules
  <2>2. References(name, a) = ReferencesTo(o.refs, a) /\ Chain(name) = o.filters
      BY <1>4 DEF References, Chain
  <2> QED
      BY <1>1, <1>2, <2>1, <2>2, ReferencesCounted
<1>5. CASE nearest # {}
  <2>1. PICK r \in o.rules : nearest = {r} /\ SameOutputs(built, LoggerOf(o, r).route)
      BY <1>1, <1>5, OutputsOfName DEF NearestRules
  <2>2. References(name, a) = ReferencesOf(r, a)
      BY <2>1 DEF References
  <2>3. (CHOOSE s \in nearest : TRUE) = r
      BY <2>1
  <2>4. Chain(name) = IF r.additive THEN r.filters \o o.filters ELSE r.filters
      BY <1>5, <2>3 DEF Chain
  <2>5. /\ refs = IF r.additive THEN JoinUnique(r.refs, o.refs) ELSE r.refs
        /\ route.filters = IF r.additive THEN r.filters \o o.filters ELSE r.filters
      BY <1>1, <2>1 DEF SameOutputs, LoggerOf
  <2>6. CASE ~r.additive
    <3>1. ReferencesOf(r, a) = ReferencesTo(r.refs, a)
        BY <2>6 DEF ReferencesOf
    <3>2. refs = r.refs
        BY <2>5, <2>6
    <3>3. Cardinality(counted) = Cardinality(PassingReferences(ReferencesTo(r.refs, a), level, verdict))
        BY <1>2, <3>2, ReferencesCounted
    <3> QED
        BY <2>2, <2>4, <2>5, <3>1, <3>3
  <2>7. CASE r.additive
    <3> DEFINE first == IF ReferencesTo(r.refs, a) # {} THEN FirstReference(ReferencesTo(r.refs, a))
                        ELSE FirstReference(ReferencesTo(o.refs, a))
    <3>1. ReferencesOf(r, a) = first
        BY <2>7 DEF ReferencesOf
    <3>2. refs = JoinUnique(r.refs, o.refs)
        BY <2>5, <2>7
    <3>3. LET there == {i \in DOMAIN refs : refs[i].to = a} IN
          \/ there = {} /\ first = {}
          \/ \E i, x : there = {i} /\ first = {x} /\ refs[i] = x.control
        BY <1>2, <3>2, JoinedReference
    <3>4. Cardinality(counted) = Cardinality(PassingReferences(first, level, verdict))
      <4> HIDE DEF first, refs
      <4> QED
          BY <3>3, BothOrNeither
    <3> QED
        BY <2>2, <2>4, <2>5, <3>1, <3>4
  <2> QED
      BY <2>6, <2>7
<1> QED
    BY <1>4, <1>5

(* By the fast path or the other, a call writes an event to every appender *)
(* once for every reference that lets it pass, and to no other             *)
(* (Handler.logAttrs, DispatchAttrsFast, AppendResult).                    *)
THEOREM WritesFollowReferences == RoutingSpec => []DeliveredOnce
<1>1. ASSUME RoutingInvariant, CallIsCurrent PROVE DeliveredOnce
  <2> SUFFICES ASSUME call # NoCall, NEW a \in Appenders
               PROVE  Cardinality({i \in DOMAIN call.wrote : call.wrote[i].to = a}) =
                          Cardinality({r \in References(call.name, a) :
                              /\ Passes
                              /\ call.level >= r.control.min
                              /\ Verdict(r.control.filters, call.verdict) # "deny"})
      BY DEF DeliveredOnce
  <2>1. PICK name \in Names, level \in Levels, verdict \in Verdicts, bare \in BOOLEAN :
            call = [name |-> name, level |-> level, verdict |-> verdict,
                    wrote |-> Writes(current, name, level, verdict, bare)]
      BY <1>1 DEF CallIsCurrent
  <2> DEFINE route == PlanFor(current, name)
             refs == route.appenders
             isOpen == RouteIsOpen(current, route, level, verdict)
             wrote == Writes(current, name, level, verdict, bare)
             counted == PassingPositions(refs, a, level, verdict)
             passing == PassingReferences(References(name, a), level, verdict)
             written == {i \in DOMAIN wrote : wrote[i].to = a}
             meant == {r \in References(name, a) : Passes /\ LetsPass(r.control, level, verdict)}
  <2>2. call.name = name /\ call.level = level /\ call.verdict = verdict /\ call.wrote = wrote
      BY <2>1
  <2>3. route.level \in Int /\ level \in Int
      BY <1>1, PlanLevelIsALevel, RoutingAssumption
  <2>4. /\ \A i : i \in DOMAIN wrote <=>
               i \in DOMAIN refs /\ isOpen /\ LetsPass(refs[i], level, verdict)
        /\ \A i \in DOMAIN wrote : wrote[i] = refs[i]
      BY <2>3, WritesWhatPasses
  <2>5. Cardinality(counted) = Cardinality(passing) /\ route.filters = Chain(name)
      BY <1>1, PlanFollowsReferences
  <2>6. current.global = configured.global
      BY <1>1 DEF RoutingInvariant, Overridden, Build
  <2>7. Passes <=> isOpen
      BY <2>2, <2>5, <2>6 DEF Passes, RouteIsOpen
  <2>8. Cardinality(written) = Cardinality(meant)
    <3> HIDE DEF wrote, refs, isOpen
    <3>1. CASE isOpen
      <4>1. written = counted
          BY <2>4, <3>1 DEF PassingPositions
      <4>2. meant = passing
          BY <2>7, <3>1 DEF PassingReferences
      <4> QED
          BY <2>5, <4>1, <4>2
    <3>2. CASE ~isOpen
      <4>1. written = {} /\ meant = {}
          BY <2>4, <2>7, <3>2
      <4> QED
          BY <4>1
    <3> QED
        BY <3>1, <3>2
  <2> QED
      BY <2>2, <2>8 DEF LetsPass
<1> QED
    BY <1>1, RoutingInvariantHolds, CallIsCurrentHolds, PTL

-----------------------------------------------------------------------------
(* AsyncPipeline: the queue, its worker and Close.                         *)

In(e, list) == \E i \in DOMAIN list : list[i] = e

Waiting(e) == \E i \in DOMAIN queue : queue[i].event = e

Somewhere(e) == In(e, handed) \/ In(e, batch) \/ Waiting(e)

Publishing(e) == pc[e[1]] = "publish" /\ e = Event(e[1])

Stopping == {"drain", "drain-flush", "final-flush", "stopped"}

Elements == [event : Events, ready : BOOLEAN]

PipelineTypes ==
    /\ strategy \in {"block", "drop", "drop-debug", "sync-fallback"}
    /\ queue \in Seq(Elements)
    /\ pc \in [Callers -> {"idle", "begin", "check", "try", "publish", "blocked", "retry", "sync"}]
    /\ calls \in [Callers -> 0..MaxPerCaller]
    /\ \A p \in Callers : pc[p] # "idle" => Event(p) \in Events
    /\ outcome \in [Events -> {"none", "accepted", "synced", "dropped", "closed", "cancelled"}]
    /\ worker \in {"pop", "parked", "flush"} \cup Stopping
    /\ batch \in Seq(Events)
    /\ joined \in BOOLEAN /\ done \in BOOLEAN /\ closed \in BOOLEAN /\ sinkClosed \in BOOLEAN
    /\ closer \in [Closers -> {"idle", "producers", "workers", "drained", "returned"}]
    /\ handed \in Seq(Events)
    /\ misfed \subseteq Events
    /\ dropped \in Nat /\ failed \in Nat

(* An event is in one place, once.                                         *)
Once ==
    /\ \A i, j \in DOMAIN handed : handed[i] = handed[j] => i = j
    /\ \A i, j \in DOMAIN batch : batch[i] = batch[j] => i = j
    /\ \A i, j \in DOMAIN queue : queue[i].event = queue[j].event => i = j
    /\ \A e \in Events : /\ ~(In(e, handed) /\ In(e, batch))
                         /\ ~(In(e, handed) /\ Waiting(e))
                         /\ ~(In(e, batch) /\ Waiting(e))

(* What an Append has answered, and what it has done so far.               *)
Answers ==
    \A e \in Events :
        /\ Somewhere(e) => outcome[e] \in {"accepted", "synced"} \/ Publishing(e)
        /\ outcome[e] = "accepted" => Somewhere(e)
        /\ outcome[e] = "synced" => In(e, handed)
        /\ e[2] > calls[e[1]] => outcome[e] = "none"
        /\ e = Event(e[1]) /\ pc[e[1]] # "idle" => outcome[e] = "none"
        /\ outcome[e] = "dropped" =>
              strategy = "drop" \/ (strategy = "drop-debug" /\ e \in DebugEvents)

(* An element that was claimed and not published is its caller's.          *)
Claims ==
    /\ \A p \in Callers : pc[p] = "publish" =>
          \E i \in DOMAIN queue : queue[i].event = Event(p) /\ ~queue[i].ready
    /\ \A i \in DOMAIN queue : ~queue[i].ready => Publishing(queue[i].event)

(* The order of a Close: callers, worker, sinks.                           *)
Order ==
    /\ \A c \in Closers : /\ closer[c] \in {"producers", "workers", "drained"} => closed
                          /\ closer[c] \in {"workers", "drained"} => done
                          /\ closer[c] = "drained" => worker = "stopped"
    /\ done => closed /\ \A p \in Callers : ~InFlight(p)
    /\ worker \in Stopping => done
    /\ worker \in {"final-flush", "stopped"} => queue = <<>>
    /\ worker \in {"pop", "parked", "stopped"} => batch = <<>>
    /\ sinkClosed => worker = "stopped"

Counts ==
    /\ IsFiniteSet({e \in Events : outcome[e] = "dropped"})
    /\ dropped = Cardinality({e \in Events : outcome[e] = "dropped"})
    /\ IsFiniteSet(misfed) /\ \A e \in misfed : In(e, handed)
    /\ failed + (IF joined THEN 1 ELSE 0) <= Cardinality(misfed)
    /\ misfed # {} => failed > 0 \/ joined
    /\ joined => Flushing

(* Without sync-fallback the events of one caller are in the order of its  *)
(* calls, through sinks, batch and queue.                                  *)
Earlier(e, f) == e[1] = f[1] => e[2] < f[2]

InOrder ==
    strategy # "sync-fallback" =>
        /\ \A p \in Callers : pc[p] # "sync"
        /\ \A i, j \in DOMAIN handed : i < j => Earlier(handed[i], handed[j])
        /\ \A i, j \in DOMAIN batch : i < j => Earlier(batch[i], batch[j])
        /\ \A i, j \in DOMAIN queue : i < j => Earlier(queue[i].event, queue[j].event)
        /\ \A i \in DOMAIN handed, j \in DOMAIN batch : Earlier(handed[i], batch[j])
        /\ \A i \in DOMAIN handed, j \in DOMAIN queue : Earlier(handed[i], queue[j].event)
        /\ \A i \in DOMAIN batch, j \in DOMAIN queue : Earlier(batch[i], queue[j].event)

PipelineInvariant ==
    PipelineTypes /\ Once /\ Answers /\ Claims /\ Order /\ Counts /\ InOrder

-----------------------------------------------------------------------------
LEMMA AppendFacts ==
    ASSUME NEW S, NEW q \in Seq(S), NEW e \in S
    PROVE  /\ Append(q, e) \in Seq(S) /\ DOMAIN Append(q, e) = 1..Len(q) + 1
           /\ DOMAIN q = 1..Len(q) /\ Len(q) \in Nat
           /\ \A i \in DOMAIN q : Append(q, e)[i] = q[i]
           /\ Append(q, e)[Len(q) + 1] = e
BY AppendProperties

LEMMA TailFacts ==
    ASSUME NEW S, NEW q \in Seq(S), q # <<>>
    PROVE  /\ Head(q) \in S /\ Head(q) = q[1] /\ Tail(q) \in Seq(S)
           /\ DOMAIN q = 1..Len(q) /\ Len(q) \in Nat /\ Len(q) >= 1
           /\ DOMAIN Tail(q) = 1..Len(q) - 1
           /\ \A i \in DOMAIN Tail(q) : Tail(q)[i] = q[i + 1]
<1>1. Len(q) \in Nat /\ Len(q) # 0
    BY EmptySeq
<1> QED
    BY <1>1, HeadTailProperties

(* What PopBatch moves: the first n elements of the queue, all published.  *)
LEMMA PopFacts ==
    ASSUME PipelineTypes, NEW limit \in Int, PopBatch(limit)
    PROVE  \E n \in 1..Len(queue) :
               /\ \A i \in 1..n : queue[i].ready
               /\ batch' \in Seq(Events) /\ DOMAIN batch' = 1..Len(batch) + n
               /\ batch' # <<>>
               /\ \A i \in 1..Len(batch) : batch'[i] = batch[i]
               /\ \A i \in 1..n : batch'[Len(batch) + i] = queue[i].event
               /\ queue' \in Seq(Elements)
               /\ DOMAIN queue' = 1..Len(queue) - n
               /\ \A i \in 1..Len(queue) - n : queue'[i] = queue[i + n]
<1>1. PICK n \in 1..limit : /\ Published(n)
                           /\ batch' = batch \o [i \in 1..n |-> queue[i].event]
                           /\ queue' = SubSeq(queue, n + 1, Len(queue))
    BY DEF PopBatch
<1>2. /\ queue \in Seq(Elements) /\ batch \in Seq(Events)
      /\ Len(queue) \in Nat /\ Len(batch) \in Nat
    BY DEF PipelineTypes
<1>3. n \in 1..Len(queue) /\ \A i \in 1..n : queue[i].ready
    BY <1>1, <1>2 DEF Published
<1> DEFINE part == [i \in 1..n |-> queue[i].event]
<1>8. \A i \in 1..Len(queue) : queue[i] \in Elements
    BY <1>2, ElementOfSeq
<1>4. part \in Seq(Events) /\ Len(part) = n
  <2>1. \A i \in 1..n : queue[i].event \in Events
    BY <1>2, <1>3, <1>8 DEF Elements
  <2> QED
    BY <1>2, <1>3, <2>1
<1>5. /\ batch' \in Seq(Events) /\ Len(batch') = Len(batch) + n
      /\ \A i \in 1..Len(batch) : batch'[i] = batch[i]
      /\ \A i \in 1..n : batch'[Len(batch) + i] = queue[i].event
  <2>1. /\ batch \o part \in Seq(Events) /\ Len(batch \o part) = Len(batch) + n
        /\ \A i \in 1..Len(batch) + n :
              (batch \o part)[i] = IF i <= Len(batch) THEN batch[i] ELSE part[i - Len(batch)]
    BY <1>2, <1>4, ConcatProperties
  <2>2. \A i \in 1..n : (batch \o part)[Len(batch) + i] = part[i]
    BY <1>2, <1>3, <2>1
  <2> QED
    BY <1>1, <1>2, <1>3, <2>1, <2>2
<1>6. /\ queue' \in Seq(Elements)
      /\ Len(queue') = Len(queue) - n
      /\ \A i \in 1..Len(queue) - n : queue'[i] = queue[i + n]
  <2>1. n + 1 \in Int /\ Len(queue) \in Int /\ Len(queue) - (n + 1) + 1 = Len(queue) - n
    BY <1>2, <1>3
  <2>2. \A i \in n + 1..Len(queue) : queue[i] \in Elements
    BY <1>2, <1>3, <1>8
  <2>3. /\ SubSeq(queue, n + 1, Len(queue)) \in Seq(Elements)
        /\ Len(SubSeq(queue, n + 1, Len(queue)))
              = IF n + 1 <= Len(queue) THEN Len(queue) - (n + 1) + 1 ELSE 0
        /\ \A i \in 1..Len(queue) - (n + 1) + 1 :
              SubSeq(queue, n + 1, Len(queue))[i] = queue[n + 1 + i - 1]
    BY <2>1, <2>2, SubSeqProperties
  <2>4. \A i \in 1..Len(queue) - n : n + 1 + i - 1 = i + n
    BY <1>2, <1>3
  <2>5. Len(queue') = Len(queue) - n
    BY <1>1, <1>2, <1>3, <2>1, <2>3
  <2>6. \A i \in 1..Len(queue) - n : queue'[i] = queue[i + n]
    BY <1>1, <2>1, <2>3, <2>4
  <2> QED
    BY <1>1, <2>3, <2>5, <2>6
<1>7. batch' # <<>> /\ DOMAIN batch' = 1..Len(batch) + n /\ DOMAIN queue' = 1..Len(queue) - n
    BY <1>2, <1>3, <1>5, <1>6
<1> QED
    BY <1>3, <1>5, <1>6, <1>7

LEMMA TypeInit == Init => PipelineTypes
<1> SUFFICES ASSUME Init PROVE PipelineTypes
    OBVIOUS
<1>1. /\ strategy \in {"block", "drop", "drop-debug", "sync-fallback"}
      /\ queue \in Seq(Elements)
      /\ batch \in Seq(Events) /\ handed \in Seq(Events)
    BY PipelineAssumption DEF Init
<1>2. calls \in [Callers -> 0..MaxPerCaller]
    BY PipelineAssumption DEF Init
<1> QED
    BY <1>1, <1>2 DEF Init, PipelineTypes, Stopping

(* Publish changes the mark of its own element.                            *)
LEMMA PublishFacts ==
    ASSUME PipelineTypes, NEW p \in Callers, Publish(p)
    PROVE  /\ queue' \in Seq(Elements) /\ DOMAIN queue' = DOMAIN queue
           /\ \A i \in DOMAIN queue :
                 /\ queue'[i].event = queue[i].event
                 /\ queue'[i].ready = (queue[i].event = Event(p) \/ queue[i].ready)
<1>1. queue \in Seq(Elements) /\ DOMAIN queue = 1..Len(queue) /\ Len(queue) \in Nat
    BY DEF PipelineTypes
<1>2. \A i \in DOMAIN queue : queue[i] \in Elements
    BY <1>1, ElementOfSeq
<1> DEFINE Marked(i) == IF queue[i].event = Event(p) THEN [queue[i] EXCEPT !.ready = TRUE]
                                                     ELSE queue[i]
<1>3. \A i \in DOMAIN queue : /\ Marked(i) \in Elements
                             /\ Marked(i).event = queue[i].event
                             /\ Marked(i).ready = (queue[i].event = Event(p) \/ queue[i].ready)
    BY <1>2 DEF Elements
<1>4. queue' = [i \in 1..Len(queue) |-> Marked(i)]
    BY <1>1 DEF Publish
<1> HIDE DEF Marked
<1>5. queue' \in Seq(Elements)
    BY <1>1, <1>3, <1>4
<1> QED
    BY <1>1, <1>3, <1>4, <1>5

States == {"idle", "begin", "check", "try", "publish", "blocked", "retry", "sync"}

(* A step of an Append that is on its way.                                 *)
LEMMA CallerTypes ==
    ASSUME PipelineTypes, NEW p \in Callers, pc[p] # "idle", UNCHANGED calls
    PROVE  /\ \A s \in States : Goto(p, s) =>
                 /\ pc' \in [Callers -> States]
                 /\ \A q \in Callers : pc'[q] # "idle" => Event(q)' \in Events
           /\ \A r \in {"accepted", "synced", "dropped", "closed", "cancelled"} : Answer(p, r) =>
                 /\ pc' \in [Callers -> States]
                 /\ outcome' \in [Events -> {"none", "accepted", "synced", "dropped", "closed", "cancelled"}]
                 /\ \A q \in Callers : pc'[q] # "idle" => Event(q)' \in Events
<1>1. Event(p) \in Events /\ \A q \in Callers : Event(q)' = Event(q)
    BY DEF PipelineTypes, Event
<1>2. ASSUME NEW s \in States, Goto(p, s)
      PROVE  /\ pc' \in [Callers -> States]
             /\ \A q \in Callers : pc'[q] # "idle" => Event(q)' \in Events
    BY <1>1, <1>2 DEF PipelineTypes, Goto, States
<1>3. ASSUME NEW r \in {"accepted", "synced", "dropped", "closed", "cancelled"}, Answer(p, r)
      PROVE  /\ pc' \in [Callers -> States]
             /\ outcome' \in [Events -> {"none", "accepted", "synced", "dropped", "closed", "cancelled"}]
             /\ \A q \in Callers : pc'[q] # "idle" => Event(q)' \in Events
  <2>1. pc' = [pc EXCEPT ![p] = "idle"] /\ outcome' = [outcome EXCEPT ![Event(p)] = r]
    BY <1>3 DEF Answer, Goto
  <2>2. pc' \in [Callers -> States] /\ \A q \in Callers : q # p => pc'[q] = pc[q]
    BY <2>1 DEF PipelineTypes, States
  <2>3. pc'[p] = "idle"
    BY <2>1 DEF PipelineTypes
  <2>4. outcome' \in [Events -> {"none", "accepted", "synced", "dropped", "closed", "cancelled"}]
    BY <1>1, <2>1 DEF PipelineTypes
  <2>5. \A q \in Callers : pc[q] # "idle" => Event(q)' \in Events
    BY <1>1 DEF PipelineTypes
  <2> QED
    BY <2>2, <2>3, <2>4, <2>5
<1> QED
    BY <1>2, <1>3

LEMMA TypeStep == PipelineTypes /\ [Next]_vars => PipelineTypes'
<1> SUFFICES ASSUME PipelineTypes, [Next]_vars PROVE PipelineTypes'
    OBVIOUS
<1> USE DEF callerVars, workerVars, closeVars, sinkVars, counters
<1>1. /\ queue \in Seq(Elements) /\ Len(queue) \in Nat
      /\ batch \in Seq(Events) /\ Len(batch) \in Nat /\ handed \in Seq(Events)
      /\ BatchSize \in Int
    BY PipelineAssumption DEF PipelineTypes
<1>2. ASSUME NEW p \in Callers, Call(p) PROVE PipelineTypes'
  <2>1. calls' \in [Callers -> 0..MaxPerCaller] /\ calls'[p] \in 1..MaxPerCaller
    BY <1>2, PipelineAssumption DEF Call, PipelineTypes
  <2>2. \A q \in Callers : q # p => calls'[q] = calls[q] /\ pc'[q] = pc[q]
    BY <1>2 DEF Call, Goto, PipelineTypes
  <2>3. \A q \in Callers : pc'[q] # "idle" => Event(q)' \in Events
    <3> TAKE q \in Callers
    <3>1. CASE q = p
      BY <2>1, <3>1 DEF Event, Events
    <3>2. CASE q # p
      BY <2>2, <3>2 DEF Event, PipelineTypes
    <3> QED
      BY <3>1, <3>2
  <2> QED
    BY <1>2, <2>1, <2>3 DEF Call, Goto, PipelineTypes
<1>3. ASSUME NEW p \in Callers,
             \/ Begin(p) \/ Refuse(p) \/ CheckClosing(p) \/ MeetFull(p) \/ BlockAgain(p)
             \/ Unblock(p) \/ Interrupt(p) \/ Cancel(p)
      PROVE  PipelineTypes'
  <2>1. pc[p] # "idle" /\ UNCHANGED calls
    BY <1>3 DEF Begin, Refuse, CheckClosing, MeetFull, BlockAgain, Unblock, Interrupt, Cancel
  <2>2. \/ \E s \in States : Goto(p, s) /\ UNCHANGED outcome
        \/ \E r \in {"closed", "cancelled"} : Answer(p, r)
    BY <1>3 DEF Begin, Refuse, CheckClosing, MeetFull, BlockAgain, Unblock, Interrupt, Cancel, States
  <2>3. UNCHANGED <<strategy, queue, workerVars, closeVars, sinkVars, counters>>
    BY <1>3 DEF Begin, Refuse, CheckClosing, MeetFull, BlockAgain, Unblock, Interrupt, Cancel
  <2> QED
    BY <2>1, <2>2, <2>3, CallerTypes DEF PipelineTypes, States
<1>4. ASSUME NEW p \in Callers, TryPublish(p) PROVE PipelineTypes'
  <2>1. pc[p] # "idle" /\ UNCHANGED calls /\ Goto(p, "publish")
    BY <1>4 DEF TryPublish
  <2>2. [event |-> Event(p), ready |-> FALSE] \in Elements
    BY <2>1 DEF PipelineTypes, Elements
  <2>3. queue' \in Seq(Elements)
    BY <1>1, <1>4, <2>2, AppendFacts DEF TryPublish
  <2> QED
    BY <1>4, <2>1, <2>3, CallerTypes DEF TryPublish, PipelineTypes, States
<1>5. ASSUME NEW p \in Callers, Publish(p) PROVE PipelineTypes'
  <2>1. pc[p] # "idle" /\ UNCHANGED calls /\ Answer(p, "accepted")
    BY <1>5 DEF Publish
  <2> QED
    BY <1>5, <2>1, PublishFacts, CallerTypes DEF Publish, PipelineTypes, States
<1>6. ASSUME NEW p \in Callers, Drop(p) PROVE PipelineTypes'
  <2>1. pc[p] # "idle" /\ UNCHANGED calls /\ Answer(p, "dropped") /\ dropped' \in Nat
    BY <1>6 DEF Drop, PipelineTypes
  <2> QED
    BY <1>6, <2>1, CallerTypes DEF Drop, PipelineTypes, States
<1>7. ASSUME NEW p \in Callers, WriteSync(p) PROVE PipelineTypes'
  <2>1. pc[p] # "idle" /\ UNCHANGED calls /\ Answer(p, "synced") /\ Event(p) \in Events
    BY <1>7 DEF WriteSync, PipelineTypes
  <2>2. handed' \in Seq(Events)
    BY <1>1, <1>7, <2>1, AppendFacts DEF WriteSync, Hand
  <2> QED
    BY <1>7, <2>1, <2>2, CallerTypes DEF WriteSync, PipelineTypes, States
<1>8. UNCHANGED callerVars => \A p \in Callers : pc'[p] # "idle" => Event(p)' \in Events
    BY DEF PipelineTypes, Event
<1>9. CASE WorkerPop
  <2>1. batch' \in Seq(Events) /\ queue' \in Seq(Elements)
    BY <1>1, <1>9, PopFacts DEF WorkerPop
  <2> QED
    BY <1>8, <1>9, <2>1 DEF WorkerPop, WorkerGoto, PipelineTypes
<1>10. CASE WorkerDrain
  <2>1. batch' \in Seq(Events) /\ queue' \in Seq(Elements)
    BY <1>1, <1>10, PopFacts DEF WorkerDrain
  <2> QED
    BY <1>8, <1>10, <2>1 DEF WorkerDrain, WorkerGoto, PipelineTypes, Stopping
<1>11. CASE WorkerPark \/ WorkerWake \/ WorkerDone \/ WorkerDrained
    BY <1>8, <1>11 DEF WorkerPark, WorkerWake, WorkerDone, WorkerDrained, WorkerGoto, PipelineTypes,
                       Stopping
<1>12. CASE WorkerHand
  <2>1. Head(batch) \in Events /\ batch' \in Seq(Events)
    BY <1>1, <1>12, TailFacts DEF WorkerHand
  <2>2. handed' \in Seq(Events)
    BY <1>1, <1>12, <2>1, AppendFacts DEF WorkerHand, Hand
  <2>3. misfed' \subseteq Events /\ joined' \in BOOLEAN
    BY <1>12, <2>1 DEF WorkerHand, PipelineTypes
  <2> QED
    BY <1>8, <1>12, <2>1, <2>2, <2>3 DEF WorkerHand, PipelineTypes
<1>13. CASE WorkerFlushed
  <2>1. worker' \in {"pop", "drain", "stopped"} /\ failed' \in Nat
    BY <1>13 DEF WorkerFlushed, WorkerGoto, Flushing, PipelineTypes
  <2> QED
    BY <1>8, <1>13, <2>1 DEF WorkerFlushed, PipelineTypes, Stopping
<1>14. ASSUME NEW c \in Closers, CloseBegin(c) \/ CloseAgain(c) \/ CloseRuns(c) PROVE PipelineTypes'
    BY <1>8, <1>14, PipelineAssumption
       DEF CloseBegin, CloseAgain, CloseRuns, CloseProducers, CloseWorkers, CloserGoto, PipelineTypes
<1>15. CASE UNCHANGED vars
    BY <1>8, <1>15 DEF vars, PipelineTypes
<1> QED
    BY <1>2, <1>3, <1>4, <1>5, <1>6, <1>7, <1>9, <1>10, <1>11, <1>12, <1>13, <1>14, <1>15
       DEF Next, AppendRuns, WorkerRuns, Finished

-----------------------------------------------------------------------------
LEMMA EventFacts ==
    \A e \in Events : e[1] \in Callers /\ e[2] \in Nat /\ e = <<e[1], e[2]>>
BY PipelineAssumption DEF Events

(* Where every event stays, Once holds on, and so does the order.          *)
LEMMA ListFrame ==
    ASSUME UNCHANGED <<handed, batch>>, DOMAIN queue' = DOMAIN queue,
           \A i \in DOMAIN queue : queue'[i].event = queue[i].event
    PROVE  /\ \A e : Somewhere(e)' <=> Somewhere(e)
           /\ \A e : In(e, handed)' <=> In(e, handed)
           /\ Once => Once'
           /\ InOrder /\ UNCHANGED strategy
              /\ (\A p \in Callers : pc'[p] = "sync" => pc[p] = "sync" \/ strategy = "sync-fallback")
              => InOrder'
<1>1. /\ \A e : In(e, handed)' <=> In(e, handed)
      /\ \A e : In(e, batch)' <=> In(e, batch)
      /\ \A e : Waiting(e)' <=> Waiting(e)
    BY DEF In, Waiting
<1>2. \A e : Somewhere(e)' <=> Somewhere(e)
    BY <1>1 DEF Somewhere
<1>3. ASSUME Once PROVE Once'
    BY <1>1, <1>3 DEF Once
<1>4. ASSUME InOrder, UNCHANGED strategy,
             \A p \in Callers : pc'[p] = "sync" => pc[p] = "sync" \/ strategy = "sync-fallback"
      PROVE  InOrder'
  <2> SUFFICES ASSUME strategy # "sync-fallback" PROVE InOrder'
    BY <1>4 DEF InOrder
  <2>1. \A p \in Callers : pc'[p] # "sync"
    BY <1>4 DEF InOrder
  <2> QED
    BY <2>1, <1>4 DEF InOrder
<1> QED
    BY <1>1, <1>2, <1>3, <1>4

(* A step of an Append that touches neither queue nor sinks.               *)
LEMMA LocalStep ==
    ASSUME PipelineTypes, Answers, Claims, NEW p \in Callers,
           UNCHANGED <<strategy, queue, handed, batch>>,
           \/ Call(p)
           \/ /\ pc[p] # "idle" /\ UNCHANGED <<calls, outcome>>
              /\ \E s \in States : s # "publish" /\ Goto(p, s)
           \/ /\ pc[p] # "idle" /\ UNCHANGED calls
              /\ \E r \in {"closed", "cancelled"} : Answer(p, r)
           \/ /\ pc[p] # "idle" /\ UNCHANGED calls
              /\ Answer(p, "dropped") /\ Droppable(p),
           pc[p] # "publish"
    PROVE  Answers' /\ Claims'
<1>1. /\ \A e : Somewhere(e)' <=> Somewhere(e)
      /\ \A e : In(e, handed)' <=> In(e, handed)
    BY ListFrame
<1>2. /\ \A q \in Callers \ {p} : pc'[q] = pc[q] /\ calls'[q] = calls[q]
      /\ pc'[p] # "publish"
      /\ calls'[p] = calls[p] \/ (pc[p] = "idle" /\ calls'[p] = calls[p] + 1)
    BY DEF PipelineTypes, Call, Goto, Answer
<1>3. \A e \in Events : Publishing(e)' <=> Publishing(e)
    BY <1>2, EventFacts DEF Publishing, Event
<1>4. ASSUME NEW e \in Events
      PROVE  /\ Somewhere(e)' => outcome'[e] \in {"accepted", "synced"} \/ Publishing(e)'
             /\ outcome'[e] = "accepted" => Somewhere(e)'
             /\ outcome'[e] = "synced" => In(e, handed)'
             /\ e[2] > calls'[e[1]] => outcome'[e] = "none"
             /\ (e = Event(e[1]))' /\ pc'[e[1]] # "idle" => outcome'[e] = "none"
             /\ outcome'[e] = "dropped" =>
                   strategy' = "drop" \/ (strategy' = "drop-debug" /\ e \in DebugEvents)
  <2>1. /\ Somewhere(e) => outcome[e] \in {"accepted", "synced"} \/ Publishing(e)
        /\ outcome[e] = "accepted" => Somewhere(e)
        /\ outcome[e] = "synced" => In(e, handed)
        /\ e[2] > calls[e[1]] => outcome[e] = "none"
        /\ e = Event(e[1]) /\ pc[e[1]] # "idle" => outcome[e] = "none"
        /\ outcome[e] = "dropped" =>
              strategy = "drop" \/ (strategy = "drop-debug" /\ e \in DebugEvents)
        /\ e[1] \in Callers /\ e[2] \in Nat /\ e = <<e[1], e[2]>>
        /\ calls[e[1]] \in Nat
    BY EventFacts, PipelineAssumption DEF Answers, PipelineTypes
  <2>2. CASE Call(p)
    <3>1. UNCHANGED outcome /\ pc[p] = "idle" /\ calls' = [calls EXCEPT ![p] = calls[p] + 1]
      BY <2>2 DEF Call
    <3>2. calls'[e[1]] >= calls[e[1]] /\ (e[1] = p => calls'[e[1]] = calls[e[1]] + 1)
      BY <1>2, <2>1, <3>1 DEF PipelineTypes
    <3>3. (e = Event(e[1]))' /\ pc'[e[1]] # "idle" => outcome'[e] = "none"
      <4>1. CASE e[1] = p
        BY <2>1, <3>1, <3>2, <4>1 DEF Event
      <4>2. CASE e[1] # p
        BY <1>2, <2>1, <3>1, <4>2 DEF Event
      <4> QED
        BY <4>1, <4>2
    <3> QED
      BY <1>1, <1>3, <2>1, <3>1, <3>2, <3>3
  <2>3. CASE pc[p] # "idle" /\ UNCHANGED <<calls, outcome>>
    <3>1. pc'[e[1]] # "idle" => pc[e[1]] # "idle"
      BY <1>2, <2>1, <2>3
    <3> QED
      BY <1>1, <1>3, <2>1, <2>3, <3>1 DEF Event
  <2>4. ASSUME NEW r \in {"closed", "cancelled", "dropped"}, pc[p] # "idle", UNCHANGED calls,
               Answer(p, r), r = "dropped" => Droppable(p)
        PROVE  /\ Somewhere(e)' => outcome'[e] \in {"accepted", "synced"} \/ Publishing(e)'
               /\ outcome'[e] = "accepted" => Somewhere(e)'
               /\ outcome'[e] = "synced" => In(e, handed)'
               /\ e[2] > calls'[e[1]] => outcome'[e] = "none"
               /\ (e = Event(e[1]))' /\ pc'[e[1]] # "idle" => outcome'[e] = "none"
               /\ outcome'[e] = "dropped" =>
                     strategy' = "drop" \/ (strategy' = "drop-debug" /\ e \in DebugEvents)
    <3>1. CASE e = Event(p)
      <4>1. outcome'[e] = r /\ pc'[p] = "idle" /\ e[1] = p /\ e[2] = calls[p]
        BY <2>4, <3>1 DEF Answer, Goto, PipelineTypes, Event
      <4>2. ~Somewhere(e)
        BY <2>1, <2>4, <3>1, <4>1 DEF Publishing
      <4>3. r = "dropped" => strategy = "drop" \/ (strategy = "drop-debug" /\ e \in DebugEvents)
        BY <2>4, <3>1 DEF Droppable
      <4> QED
        BY <1>1, <2>1, <2>4, <4>1, <4>2, <4>3
    <3>2. CASE e # Event(p)
      <4>1. outcome'[e] = outcome[e] /\ (pc'[e[1]] # "idle" => pc[e[1]] # "idle")
        BY <1>2, <2>1, <2>4, <3>2 DEF Answer, Goto, PipelineTypes
      <4> QED
        BY <1>1, <1>3, <2>1, <2>4, <4>1 DEF Event
    <3> QED
      BY <3>1, <3>2
  <2> QED
    BY <2>2, <2>3, <2>4
<1>5. Answers'
    BY <1>4 DEF Answers
<1>6. Claims'
  <2>1. \A q \in Callers : pc'[q] = "publish" => pc[q] = "publish" /\ Event(q)' = Event(q)
    BY <1>2 DEF Event
  <2>2. \A i \in DOMAIN queue : queue[i] \in Elements
    BY ElementOfSeq DEF PipelineTypes
  <2>3. \A i \in DOMAIN queue : queue[i].event \in Events
    BY <2>2 DEF Elements
  <2>4. \A i \in DOMAIN queue : ~queue[i].ready => Publishing(queue[i].event)'
    BY <1>3, <2>3 DEF Claims
  <2> QED
    BY <2>1, <2>4 DEF Claims, Publishing, Event
<1> QED
    BY <1>5, <1>6

(* A caller that has not put its event anywhere puts it last in the queue. *)
LEMMA TryPublishStep ==
    ASSUME PipelineInvariant, NEW p \in Callers, TryPublish(p)
    PROVE  (Once /\ Answers /\ Claims /\ InOrder)'
<1> DEFINE fresh == Event(p)
<1>1. /\ pc[p] \in {"try", "retry"} /\ pc' = [pc EXCEPT ![p] = "publish"]
      /\ UNCHANGED <<strategy, calls, outcome, batch, handed>>
      /\ queue' = Append(queue, [event |-> fresh, ready |-> FALSE])
    BY DEF TryPublish, Goto, workerVars, sinkVars
<1>2. /\ fresh \in Events /\ fresh[1] = p /\ fresh[2] = calls[p] /\ outcome[fresh] = "none"
      /\ calls[p] \in Nat
    BY <1>1, PipelineAssumption DEF PipelineInvariant, PipelineTypes, Answers, Event
<1>3. ~Somewhere(fresh)
    BY <1>1, <1>2 DEF PipelineInvariant, Answers, Publishing
<1>4. /\ queue \in Seq(Elements) /\ batch \in Seq(Events) /\ handed \in Seq(Events)
      /\ Len(queue) \in Nat /\ DOMAIN queue = 1..Len(queue)
      /\ [event |-> fresh, ready |-> FALSE] \in Elements
    BY <1>2 DEF PipelineInvariant, PipelineTypes, Elements
<1>5. /\ \A i \in DOMAIN queue : queue[i] \in Elements
      /\ \A i \in DOMAIN batch : batch[i] \in Events
      /\ \A i \in DOMAIN handed : handed[i] \in Events
    BY <1>4, ElementOfSeq
<1>6. /\ DOMAIN queue' = 1..Len(queue) + 1
      /\ \A i \in DOMAIN queue : queue'[i] = queue[i]
      /\ queue'[Len(queue) + 1].event = fresh /\ ~queue'[Len(queue) + 1].ready
    BY <1>1, <1>4, AppendFacts
<1> HIDE DEF fresh
<1>7. \A e : Waiting(e)' <=> Waiting(e) \/ e = fresh
  <2>1. \A i : i \in DOMAIN queue' <=> i \in DOMAIN queue \/ i = Len(queue) + 1
    BY <1>4, <1>6
  <2>2. \A e : Waiting(e)' <=> \E i \in DOMAIN queue' : queue'[i].event = e
    BY DEF Waiting
  <2> QED
    BY <1>6, <2>1, <2>2 DEF Waiting
<1>8. \A e : (In(e, handed)' <=> In(e, handed)) /\ (In(e, batch)' <=> In(e, batch))
    BY <1>1 DEF In
<1>9. \A e : Somewhere(e)' <=> Somewhere(e) \/ e = fresh
    BY <1>7, <1>8 DEF Somewhere
<1>10. \A i \in DOMAIN queue : queue[i].event # fresh
    BY <1>3 DEF Somewhere, Waiting
<1>11. Once'
  <2>1. \A i, j \in DOMAIN queue' : queue'[i].event = queue'[j].event => i = j
    <3> TAKE i, j \in DOMAIN queue'
    <3>1. i \in DOMAIN queue \/ i = Len(queue) + 1
      BY <1>4, <1>6
    <3>2. j \in DOMAIN queue \/ j = Len(queue) + 1
      BY <1>4, <1>6
    <3> QED
      BY <3>1, <3>2, <1>6, <1>10 DEF PipelineInvariant, Once
  <2>2. \A e \in Events : /\ ~(In(e, handed)' /\ In(e, batch)')
                           /\ ~(In(e, handed)' /\ Waiting(e)')
                           /\ ~(In(e, batch)' /\ Waiting(e)')
    BY <1>3, <1>7, <1>8 DEF PipelineInvariant, Once, Somewhere
  <2> QED
    BY <1>1, <2>1, <2>2 DEF PipelineInvariant, Once
<1>12. /\ pc'[p] = "publish" /\ \A q \in Callers \ {p} : pc'[q] = pc[q]
       /\ \A q \in Callers : Event(q)' = Event(q)
    BY <1>1 DEF PipelineInvariant, PipelineTypes, Event
<1>13. \A e \in Events : Publishing(e)' <=> Publishing(e) \/ e = fresh
    BY <1>1, <1>2, <1>12, EventFacts DEF Publishing, fresh
<1>14. Answers'
  <2>1. \A e \in Events : pc'[e[1]] # "idle" => pc[e[1]] # "idle"
    BY <1>1, <1>12, EventFacts
  <2> QED
    BY <1>1, <1>2, <1>8, <1>9, <1>12, <1>13, <2>1, EventFacts DEF PipelineInvariant, Answers
<1>15. Claims'
  <2>1. ASSUME NEW q \in Callers, pc'[q] = "publish"
        PROVE  \E i \in DOMAIN queue' : queue'[i].event = Event(q)' /\ ~queue'[i].ready
    <3>1. CASE q = p
      <4>1. Event(q)' = Event(q) /\ Event(p) = fresh
        BY <1>12 DEF fresh
      <4>2. Len(queue) + 1 \in DOMAIN queue'
        BY <1>4, <1>6
      <4> QED
        BY <1>6, <3>1, <4>1, <4>2
    <3>2. CASE q # p
      <4>1. pc[q] = "publish"
        BY <2>1, <3>2, <1>12
      <4>2. PICK i \in DOMAIN queue : queue[i].event = Event(q) /\ ~queue[i].ready
        BY <4>1 DEF PipelineInvariant, Claims
      <4> QED
        BY <4>2, <1>4, <1>6, <1>12
    <3> QED
      BY <3>1, <3>2
  <2>2. ASSUME NEW i \in DOMAIN queue', ~queue'[i].ready
        PROVE  Publishing(queue'[i].event) \/ queue'[i].event = fresh
    BY <2>2, <1>4, <1>6 DEF PipelineInvariant, Claims
  <2>3. \A i \in DOMAIN queue' : queue'[i].event \in Events
    BY <1>2, <1>4, <1>5, <1>6 DEF Elements
  <2>4. ASSUME NEW i \in DOMAIN queue', ~queue'[i].ready
        PROVE  /\ pc'[queue'[i].event[1]] = "publish"
               /\ queue'[i].event = <<queue'[i].event[1], calls'[queue'[i].event[1]]>>
    <3> PICK e \in Events : e = queue'[i].event
      BY <2>3
    <3>1. Publishing(e) \/ e = fresh
      BY <2>2, <2>4
    <3>2. pc'[e[1]] = "publish" /\ e = <<e[1], calls'[e[1]]>>
      BY <3>1, <1>13 DEF Publishing, Event
    <3> QED
      BY <3>2
  <2> QED
    BY <2>1, <2>4 DEF Claims, Publishing, Event
<1>16. InOrder'
  <2> SUFFICES ASSUME strategy # "sync-fallback" PROVE InOrder'
    BY <1>1 DEF InOrder
  <2>1. \A e \in Events : Somewhere(e) => Earlier(e, fresh)
    <3> SUFFICES ASSUME NEW e \in Events, Somewhere(e), e[1] = p PROVE e[2] < fresh[2]
      BY <1>2 DEF Earlier
    <3>1. e # fresh /\ e[2] \in Nat /\ e = <<e[1], e[2]>> /\ fresh = <<fresh[1], fresh[2]>>
      BY <1>2, <1>3, EventFacts
    <3>2. e[2] # fresh[2]
      BY <1>2, <3>1
    <3>3. outcome[e] # "none"
      BY <1>1, <3>1 DEF PipelineInvariant, Answers, Publishing
    <3>4. e[2] <= calls[p]
      BY <1>2, <3>1, <3>3 DEF PipelineInvariant, Answers
    <3> QED
      BY <1>2, <3>1, <3>2, <3>4
  <2>2. /\ \A i \in DOMAIN queue : Earlier(queue[i].event, fresh)
        /\ \A i \in DOMAIN batch : Earlier(batch[i], fresh)
        /\ \A i \in DOMAIN handed : Earlier(handed[i], fresh)
    BY <2>1, <1>5 DEF Somewhere, Waiting, In, Elements
  <2>3. \A i, j \in DOMAIN queue' : i < j => Earlier(queue'[i].event, queue'[j].event)
    <3> SUFFICES ASSUME NEW i \in DOMAIN queue', NEW j \in DOMAIN queue', i < j
                 PROVE  Earlier(queue'[i].event, queue'[j].event)
      OBVIOUS
    <3>1. i \in DOMAIN queue /\ (j \in DOMAIN queue \/ j = Len(queue) + 1)
      BY <1>4, <1>6
    <3> QED
      BY <3>1, <2>2, <1>6 DEF PipelineInvariant, InOrder
  <2>4. \A j \in DOMAIN queue' : j \in DOMAIN queue \/ j = Len(queue) + 1
    BY <1>4, <1>6
  <2>5. /\ \A i \in DOMAIN handed, j \in DOMAIN queue' : Earlier(handed[i], queue'[j].event)
        /\ \A i \in DOMAIN batch, j \in DOMAIN queue' : Earlier(batch[i], queue'[j].event)
    BY <2>2, <2>4, <1>6 DEF PipelineInvariant, InOrder
  <2>6. \A q \in Callers : pc'[q] # "sync"
    BY <1>12 DEF PipelineInvariant, InOrder
  <2> QED
    BY <2>3, <2>5, <2>6, <1>1 DEF PipelineInvariant, InOrder
<1> QED
    BY <1>11, <1>14, <1>15, <1>16

(* The answer of an Append that has put its event somewhere.               *)
LEMMA AnswerStep ==
    ASSUME PipelineInvariant, NEW p \in Callers, NEW r \in {"accepted", "synced"},
           pc[p] # "idle", Answer(p, r), UNCHANGED <<strategy, calls>>,
           \A e \in Events : Somewhere(e)' <=> Somewhere(e) \/ e = Event(p),
           \A e \in Events : In(e, handed) => In(e, handed)',
           r = "synced" => In(Event(p), handed)'
    PROVE  /\ Answers'
           /\ \A e \in Events : Publishing(e)' <=> Publishing(e) /\ e # Event(p)
<1>1. /\ pc' = [pc EXCEPT ![p] = "idle"] /\ outcome' = [outcome EXCEPT ![Event(p)] = r]
      /\ \A q \in Callers : Event(q)' = Event(q)
      /\ Event(p) \in Events /\ Event(p)[1] = p /\ Event(p)[2] = calls[p] /\ calls[p] \in Nat
    BY PipelineAssumption DEF Answer, Goto, PipelineInvariant, PipelineTypes, Event
<1>2. /\ pc'[p] = "idle" /\ \A q \in Callers \ {p} : pc'[q] = pc[q]
      /\ outcome'[Event(p)] = r
      /\ \A e \in Events : e # Event(p) => outcome'[e] = outcome[e]
    BY <1>1 DEF PipelineInvariant, PipelineTypes
<1>3. \A e \in Events : Publishing(e)' <=> Publishing(e) /\ e # Event(p)
    BY <1>1, <1>2, EventFacts DEF Publishing
<1>4. Answers'
  <2> SUFFICES ASSUME NEW e \in Events
               PROVE  /\ Somewhere(e)' => outcome'[e] \in {"accepted", "synced"} \/ Publishing(e)'
                      /\ outcome'[e] = "accepted" => Somewhere(e)'
                      /\ outcome'[e] = "synced" => In(e, handed)'
                      /\ e[2] > calls'[e[1]] => outcome'[e] = "none"
                      /\ (e = Event(e[1]))' /\ pc'[e[1]] # "idle" => outcome'[e] = "none"
                      /\ outcome'[e] = "dropped" =>
                            strategy' = "drop" \/ (strategy' = "drop-debug" /\ e \in DebugEvents)
    BY DEF Answers
  <2>1. CASE e = Event(p)
    BY <1>1, <1>2, <2>1
  <2>2. CASE e # Event(p)
    <3>1. pc'[e[1]] # "idle" => pc[e[1]] # "idle"
      BY <1>1, <1>2, EventFacts
    <3> QED
      BY <1>1, <1>2, <1>3, <2>2, <3>1, EventFacts DEF PipelineInvariant, Answers
  <2> QED
    BY <2>1, <2>2
<1> QED
    BY <1>3, <1>4

LEMMA PublishStep ==
    ASSUME PipelineInvariant, NEW p \in Callers, Publish(p)
    PROVE  (Once /\ Answers /\ Claims /\ InOrder)'
<1>1. /\ pc[p] = "publish" /\ Answer(p, "accepted")
      /\ UNCHANGED <<strategy, calls, batch, handed>>
    BY DEF Publish, workerVars, sinkVars
<1>2. /\ DOMAIN queue' = DOMAIN queue
      /\ \A i \in DOMAIN queue :
            /\ queue'[i].event = queue[i].event
            /\ queue'[i].ready = (queue[i].event = Event(p) \/ queue[i].ready)
    BY PublishFacts DEF PipelineInvariant
<1>3. /\ \A e : Somewhere(e)' <=> Somewhere(e)
      /\ \A e : In(e, handed)' <=> In(e, handed)
      /\ Once'
    BY <1>1, <1>2, ListFrame DEF PipelineInvariant
<1>4. \A q \in Callers : pc'[q] # "idle" => pc'[q] = pc[q] /\ q # p
    BY <1>1 DEF Answer, Goto, PipelineInvariant, PipelineTypes
<1>5. InOrder'
    BY <1>1, <1>2, <1>4, ListFrame DEF PipelineInvariant
<1>6. PICK k \in DOMAIN queue : queue[k].event = Event(p) /\ ~queue[k].ready
    BY <1>1 DEF PipelineInvariant, Claims
<1>7. Somewhere(Event(p))
    BY <1>6 DEF Somewhere, Waiting
<1>8. /\ Answers'
      /\ \A e \in Events : Publishing(e)' <=> Publishing(e) /\ e # Event(p)
    BY <1>1, <1>3, <1>7, AnswerStep
<1>9. Claims'
  <2>1. ASSUME NEW q \in Callers, pc'[q] = "publish"
        PROVE  \E i \in DOMAIN queue' : queue'[i].event = Event(q)' /\ ~queue'[i].ready
    <3>1. pc[q] = "publish" /\ q # p /\ Event(q)' = Event(q) /\ Event(q) # Event(p)
      BY <2>1, <1>1, <1>4 DEF Event
    <3>2. PICK i \in DOMAIN queue : queue[i].event = Event(q) /\ ~queue[i].ready
      BY <3>1 DEF PipelineInvariant, Claims
    <3> QED
      BY <3>1, <3>2, <1>2
  <2>2. ASSUME NEW i \in DOMAIN queue', ~queue'[i].ready
        PROVE  /\ pc'[queue'[i].event[1]] = "publish"
               /\ queue'[i].event = <<queue'[i].event[1], calls'[queue'[i].event[1]]>>
    <3>1. queue[i] \in Elements
      BY <1>2, ElementOfSeq DEF PipelineInvariant, PipelineTypes
    <3>2. PICK e \in Events : e = queue[i].event /\ e = queue'[i].event
      BY <3>1, <1>2 DEF Elements
    <3>3. Publishing(e) /\ e # Event(p)
      BY <2>2, <3>1, <3>2, <1>2 DEF PipelineInvariant, Claims, Elements
    <3>4. pc'[e[1]] = "publish" /\ e = <<e[1], calls'[e[1]]>>
      BY <3>3, <1>8 DEF Publishing, Event
    <3> QED
      BY <3>2, <3>4
  <2> QED
    BY <2>1, <2>2 DEF Claims, Publishing, Event
<1> QED
    BY <1>3, <1>5, <1>8, <1>9

LEMMA WriteSyncStep ==
    ASSUME PipelineInvariant, NEW p \in Callers, WriteSync(p)
    PROVE  (Once /\ Answers /\ Claims /\ InOrder)'
<1>1. /\ pc[p] = "sync" /\ Answer(p, "synced") /\ handed' = Append(handed, Event(p))
      /\ UNCHANGED <<strategy, calls, batch, queue>>
    BY DEF WriteSync, Hand, workerVars
<1>2. /\ Event(p) \in Events /\ Event(p)[1] = p /\ outcome[Event(p)] = "none"
      /\ \A q \in Callers : Event(q)' = Event(q)
    BY <1>1 DEF PipelineInvariant, PipelineTypes, Answers, Event
<1>3. ~Somewhere(Event(p))
    BY <1>1, <1>2 DEF PipelineInvariant, Answers, Publishing
<1>4. /\ handed \in Seq(Events) /\ DOMAIN handed = 1..Len(handed) /\ Len(handed) \in Nat
      /\ DOMAIN handed' = 1..Len(handed) + 1
      /\ \A i \in DOMAIN handed : handed'[i] = handed[i]
      /\ handed'[Len(handed) + 1] = Event(p)
    BY <1>1, <1>2, AppendFacts DEF PipelineInvariant, PipelineTypes
<1>5. /\ \A e : In(e, handed)' <=> In(e, handed) \/ e = Event(p)
      /\ \A e : In(e, batch)' <=> In(e, batch)
      /\ \A e : Waiting(e)' <=> Waiting(e)
    BY <1>1, <1>4 DEF In, Waiting
<1>6. \A e : Somewhere(e)' <=> Somewhere(e) \/ e = Event(p)
    BY <1>5 DEF Somewhere
<1>7. Once'
  <2>1. \A i, j \in DOMAIN handed' : handed'[i] = handed'[j] => i = j
    <3> TAKE i, j \in DOMAIN handed'
    <3>1. i \in DOMAIN handed \/ i = Len(handed) + 1
      BY <1>4
    <3>2. j \in DOMAIN handed \/ j = Len(handed) + 1
      BY <1>4
    <3> QED
      BY <3>1, <3>2, <1>3, <1>4 DEF PipelineInvariant, Once, Somewhere, In
  <2>2. \A e \in Events : /\ ~(In(e, handed)' /\ In(e, batch)')
                           /\ ~(In(e, handed)' /\ Waiting(e)')
                           /\ ~(In(e, batch)' /\ Waiting(e)')
    BY <1>3, <1>5 DEF PipelineInvariant, Once, Somewhere
  <2> QED
    BY <1>1, <2>1, <2>2 DEF PipelineInvariant, Once
<1>8. /\ Answers'
      /\ \A e \in Events : Publishing(e)' <=> Publishing(e) /\ e # Event(p)
    BY <1>1, <1>2, <1>5, <1>6, AnswerStep
<1>9. Claims'
  <2>1. \A q \in Callers : pc'[q] = "publish" => pc[q] = "publish"
    BY <1>1 DEF Answer, Goto, PipelineInvariant, PipelineTypes
  <2>2. ASSUME NEW i \in DOMAIN queue, ~queue[i].ready PROVE Publishing(queue[i].event)'
    <3>1. queue[i] \in Elements
      BY ElementOfSeq DEF PipelineInvariant, PipelineTypes
    <3>2. PICK e \in Events : e = queue[i].event
      BY <3>1 DEF Elements
    <3>3. Publishing(e) /\ e # Event(p)
      BY <2>2, <3>2, <1>1 DEF PipelineInvariant, Claims, Publishing, Event
    <3>4. pc'[e[1]] = "publish" /\ e = <<e[1], calls'[e[1]]>>
      BY <3>3, <1>8 DEF Publishing, Event
    <3> QED
      BY <1>1, <3>2, <3>4 DEF Publishing, Event
  <2> QED
    BY <1>1, <1>2, <2>1, <2>2 DEF PipelineInvariant, Claims
<1>10. InOrder'
    BY <1>1 DEF PipelineInvariant, InOrder
<1> QED
    BY <1>7, <1>8, <1>9, <1>10

(* Where Append is not concerned, Answers holds on.                        *)
LEMMA AnswersFrame ==
    ASSUME Answers, UNCHANGED <<strategy, pc, calls, outcome>>,
           \A e \in Events : Somewhere(e)' <=> Somewhere(e),
           \A e \in Events : In(e, handed) => In(e, handed)'
    PROVE  Answers' /\ \A e \in Events : Publishing(e)' <=> Publishing(e)
BY DEF Answers, Publishing, Event

(* The worker moves the head of the queue behind its batch.                *)
LEMMA PopStep ==
    ASSUME PipelineInvariant, NEW limit \in Int, PopBatch(limit),
           UNCHANGED <<strategy, pc, calls, outcome, handed>>
    PROVE  (Once /\ Answers /\ Claims /\ InOrder)'
<1>1. /\ queue \in Seq(Elements) /\ Len(queue) \in Nat /\ DOMAIN queue = 1..Len(queue)
      /\ batch \in Seq(Events) /\ Len(batch) \in Nat /\ DOMAIN batch = 1..Len(batch)
    BY DEF PipelineInvariant, PipelineTypes
<1>2. PICK n \in 1..Len(queue) :
         /\ \A i \in 1..n : queue[i].ready
         /\ DOMAIN batch' = 1..Len(batch) + n
         /\ \A i \in 1..Len(batch) : batch'[i] = batch[i]
         /\ \A i \in 1..n : batch'[Len(batch) + i] = queue[i].event
         /\ DOMAIN queue' = 1..Len(queue) - n
         /\ \A i \in 1..Len(queue) - n : queue'[i] = queue[i + n]
    BY PopFacts DEF PipelineInvariant
<1>3. \A i \in DOMAIN batch' :
         \/ i \in DOMAIN batch /\ batch'[i] = batch[i]
         \/ \E k \in DOMAIN queue : /\ k <= n /\ i = Len(batch) + k
                                    /\ batch'[i] = queue[k].event
  <2> SUFFICES ASSUME NEW i \in DOMAIN batch', i \notin DOMAIN batch
               PROVE  \E k \in DOMAIN queue : /\ k <= n /\ i = Len(batch) + k
                                              /\ batch'[i] = queue[k].event
    BY <1>1, <1>2
  <2>1. i - Len(batch) \in 1..n /\ i = Len(batch) + (i - Len(batch))
    BY <1>1, <1>2
  <2> QED
    BY <1>1, <1>2, <2>1
<1>4. \A i \in DOMAIN queue' : i + n \in DOMAIN queue /\ i + n > n /\ queue'[i] = queue[i + n]
    BY <1>1, <1>2
<1>5. \A k \in DOMAIN queue : k > n => k - n \in DOMAIN queue' /\ queue'[k - n] = queue[k]
  <2>1. \A k \in DOMAIN queue : k > n => k - n \in 1..Len(queue) - n /\ k - n + n = k
    BY <1>1, <1>2
  <2> QED
    BY <1>2, <2>1
<1>6. /\ \A e : In(e, handed)' <=> In(e, handed)
      /\ \A e : In(e, batch)' => In(e, batch) \/ \E k \in DOMAIN queue : k <= n /\ queue[k].event = e
      /\ \A e : Waiting(e)' => \E k \in DOMAIN queue : k > n /\ queue[k].event = e
      /\ \A e : In(e, batch) => In(e, batch)'
      /\ \A e : Waiting(e) => In(e, batch)' \/ Waiting(e)'
  <2>1. \A e : In(e, batch)' => In(e, batch) \/ \E k \in DOMAIN queue : k <= n /\ queue[k].event = e
    BY <1>3 DEF In
  <2>2. \A e : Waiting(e)' => \E k \in DOMAIN queue : k > n /\ queue[k].event = e
    BY <1>4 DEF Waiting
  <2>3. \A e : In(e, batch) => In(e, batch)'
    BY <1>1, <1>2 DEF In
  <2>4. ASSUME NEW k \in DOMAIN queue
        PROVE  In(queue[k].event, batch') \/ \E i \in DOMAIN queue' : queue'[i].event = queue[k].event
    <3>1. CASE k <= n
      <4>0. k \in 1..n
        BY <3>1, <1>1, <1>2
      <4>1. Len(batch) + k \in DOMAIN batch'
        BY <4>0, <1>1, <1>2
      <4>2. batch'[Len(batch) + k] = queue[k].event
        BY <4>0, <1>2
      <4> QED
        BY <4>1, <4>2 DEF In
    <3>2. CASE k > n
      BY <3>2, <1>5
    <3> QED
      BY <3>1, <3>2, <1>1, <1>2
  <2> QED
    BY <2>1, <2>2, <2>3, <2>4 DEF In, Waiting
<1>7. \A e : Somewhere(e)' <=> Somewhere(e)
    BY <1>6 DEF Somewhere, Waiting
<1>8. Once'
  <2>1. \A i, j \in DOMAIN batch' : batch'[i] = batch'[j] => i = j
    <3> SUFFICES ASSUME NEW i \in DOMAIN batch', NEW j \in DOMAIN batch', batch'[i] = batch'[j]
                 PROVE  i = j
      OBVIOUS
    <3>1. ASSUME NEW x \in DOMAIN batch, NEW k \in DOMAIN queue PROVE batch[x] # queue[k].event
      <4>1. batch[x] \in Events
        BY <1>1, ElementOfSeq
      <4> QED
        BY <4>1 DEF PipelineInvariant, Once, In, Waiting
    <3>2. CASE i \in DOMAIN batch /\ j \in DOMAIN batch
      BY <3>2, <1>1, <1>2 DEF PipelineInvariant, Once
    <3>3. CASE i \in DOMAIN batch /\ j \notin DOMAIN batch
      <4>1. PICK k \in DOMAIN queue : batch'[j] = queue[k].event
        BY <1>3, <3>3
      <4>2. batch'[i] = batch[i]
        BY <1>1, <1>2, <3>3
      <4> QED
        BY <3>1, <3>3, <4>1, <4>2
    <3>4. CASE i \notin DOMAIN batch /\ j \in DOMAIN batch
      <4>1. PICK k \in DOMAIN queue : batch'[i] = queue[k].event
        BY <1>3, <3>4
      <4>2. batch'[j] = batch[j]
        BY <1>1, <1>2, <3>4
      <4> QED
        BY <3>1, <3>4, <4>1, <4>2
    <3>5. CASE i \notin DOMAIN batch /\ j \notin DOMAIN batch
      <4>1. PICK k \in DOMAIN queue : i = Len(batch) + k /\ batch'[i] = queue[k].event
        BY <1>3, <3>5
      <4>2. PICK m \in DOMAIN queue : j = Len(batch) + m /\ batch'[j] = queue[m].event
        BY <1>3, <3>5
      <4>3. k = m
        BY <4>1, <4>2 DEF PipelineInvariant, Once
      <4> QED
        BY <4>1, <4>2, <4>3
    <3> QED
      BY <3>2, <3>3, <3>4, <3>5
  <2>2. \A i, j \in DOMAIN queue' : queue'[i].event = queue'[j].event => i = j
    <3> SUFFICES ASSUME NEW i \in DOMAIN queue', NEW j \in DOMAIN queue',
                        queue'[i].event = queue'[j].event
                 PROVE  i = j
      OBVIOUS
    <3>1. i + n = j + n
      BY <1>4 DEF PipelineInvariant, Once
    <3> QED
      BY <1>1, <1>2, <3>1
  <2>3. \A e \in Events : /\ ~(In(e, handed)' /\ In(e, batch)')
                           /\ ~(In(e, handed)' /\ Waiting(e)')
    BY <1>6 DEF PipelineInvariant, Once, Waiting
  <2>4. \A e \in Events : ~(In(e, batch)' /\ Waiting(e)')
    <3> SUFFICES ASSUME NEW e \in Events, In(e, batch)', Waiting(e)' PROVE FALSE
      OBVIOUS
    <3>1. PICK k \in DOMAIN queue : k > n /\ queue[k].event = e
      BY <1>6
    <3>2. ~In(e, batch)
      BY <3>1 DEF PipelineInvariant, Once, Waiting
    <3>3. PICK m \in DOMAIN queue : m <= n /\ queue[m].event = e
      BY <1>6, <3>2
    <3>4. k = m
      BY <3>1, <3>3 DEF PipelineInvariant, Once
    <3> QED
      BY <1>1, <1>2, <3>1, <3>3, <3>4
  <2> QED
    BY <2>1, <2>2, <2>3, <2>4 DEF PipelineInvariant, Once
<1>9. Answers' /\ \A e \in Events : Publishing(e)' <=> Publishing(e)
    BY <1>6, <1>7, AnswersFrame DEF PipelineInvariant
<1>10. Claims'
  <2>1. ASSUME NEW q \in Callers, pc'[q] = "publish"
        PROVE  \E i \in DOMAIN queue' : queue'[i].event = Event(q)' /\ ~queue'[i].ready
    <3>1. PICK k \in DOMAIN queue : queue[k].event = Event(q) /\ ~queue[k].ready
      BY <2>1 DEF PipelineInvariant, Claims
    <3>2. k > n
      BY <3>1, <1>1, <1>2
    <3> QED
      BY <3>1, <3>2, <1>5 DEF Event
  <2>2. ASSUME NEW i \in DOMAIN queue', ~queue'[i].ready
        PROVE  /\ pc'[queue'[i].event[1]] = "publish"
               /\ queue'[i].event = <<queue'[i].event[1], calls'[queue'[i].event[1]]>>
    BY <2>2, <1>4 DEF PipelineInvariant, Claims, Publishing, Event
  <2> QED
    BY <2>1, <2>2 DEF Claims, Publishing, Event
<1>11. InOrder'
  <2> SUFFICES ASSUME strategy # "sync-fallback" PROVE InOrder'
    BY DEF InOrder
  <2>1. \A i, j \in DOMAIN batch' : i < j => Earlier(batch'[i], batch'[j])
    <3> SUFFICES ASSUME NEW i \in DOMAIN batch', NEW j \in DOMAIN batch', i < j
                 PROVE  Earlier(batch'[i], batch'[j])
      OBVIOUS
    <3>1. CASE j \in DOMAIN batch
      <4>1. i \in DOMAIN batch
        BY <1>1, <1>2, <3>1
      <4> QED
        BY <1>1, <1>2, <3>1, <4>1 DEF PipelineInvariant, InOrder
    <3>2. CASE j \notin DOMAIN batch
      <4>1. PICK k \in DOMAIN queue : k <= n /\ j = Len(batch) + k /\ batch'[j] = queue[k].event
        BY <1>3, <3>2
      <4>2. CASE i \in DOMAIN batch
        BY <1>1, <1>2, <4>1, <4>2 DEF PipelineInvariant, InOrder
      <4>3. CASE i \notin DOMAIN batch
        <5>1. PICK m \in DOMAIN queue : m <= n /\ i = Len(batch) + m /\ batch'[i] = queue[m].event
          BY <1>3, <4>3
        <5>2. m < k
          BY <1>1, <4>1, <5>1
        <5> QED
          BY <4>1, <5>1, <5>2 DEF PipelineInvariant, InOrder
      <4> QED
        BY <4>2, <4>3
    <3> QED
      BY <3>1, <3>2
  <2>2. \A i, j \in DOMAIN queue' : i < j => Earlier(queue'[i].event, queue'[j].event)
    <3> SUFFICES ASSUME NEW i \in DOMAIN queue', NEW j \in DOMAIN queue', i < j
                 PROVE  Earlier(queue'[i].event, queue'[j].event)
      OBVIOUS
    <3>1. i + n < j + n
      BY <1>1, <1>2
    <3> QED
      BY <3>1, <1>4 DEF PipelineInvariant, InOrder
  <2>3. \A i \in DOMAIN handed, j \in DOMAIN batch' : Earlier(handed[i], batch'[j])
    BY <1>3 DEF PipelineInvariant, InOrder
  <2>4. \A i \in DOMAIN handed, j \in DOMAIN queue' : Earlier(handed[i], queue'[j].event)
    BY <1>4 DEF PipelineInvariant, InOrder
  <2>5. \A i \in DOMAIN batch', j \in DOMAIN queue' : Earlier(batch'[i], queue'[j].event)
    <3> SUFFICES ASSUME NEW i \in DOMAIN batch', NEW j \in DOMAIN queue'
                 PROVE  Earlier(batch'[i], queue'[j].event)
      OBVIOUS
    <3>1. CASE i \in DOMAIN batch
      BY <1>1, <1>2, <1>4, <3>1 DEF PipelineInvariant, InOrder
    <3>2. CASE i \notin DOMAIN batch
      <4>1. PICK m \in DOMAIN queue : m <= n /\ batch'[i] = queue[m].event
        BY <1>3, <3>2
      <4>2. m < j + n
        BY <1>1, <1>2, <4>1
      <4> QED
        BY <1>4, <4>1, <4>2 DEF PipelineInvariant, InOrder
    <3> QED
      BY <3>1, <3>2
  <2> QED
    BY <2>1, <2>2, <2>3, <2>4, <2>5 DEF PipelineInvariant, InOrder
<1> QED
    BY <1>8, <1>9, <1>10, <1>11

(* The worker hands over the head of its batch.                            *)
LEMMA HandStep ==
    ASSUME PipelineInvariant, WorkerHand
    PROVE  (Once /\ Answers /\ Claims /\ InOrder)'
<1> DEFINE first == Head(batch)
<1>1. /\ batch # <<>> /\ handed' = Append(handed, first) /\ batch' = Tail(batch)
      /\ UNCHANGED <<strategy, queue, pc, calls, outcome>>
    BY DEF WorkerHand, Hand, callerVars
<1>2. /\ batch \in Seq(Events) /\ handed \in Seq(Events)
    BY DEF PipelineInvariant, PipelineTypes
<1>3. /\ first \in Events /\ first = batch[1]
      /\ DOMAIN batch = 1..Len(batch) /\ Len(batch) \in Nat /\ Len(batch) >= 1
      /\ DOMAIN batch' = 1..Len(batch) - 1
      /\ \A i \in DOMAIN batch' : batch'[i] = batch[i + 1]
    BY <1>1, <1>2, TailFacts
<1>4. /\ DOMAIN handed = 1..Len(handed) /\ Len(handed) \in Nat
      /\ DOMAIN handed' = 1..Len(handed) + 1
      /\ \A i \in DOMAIN handed : handed'[i] = handed[i]
      /\ handed'[Len(handed) + 1] = first
    BY <1>1, <1>2, <1>3, AppendFacts
<1> HIDE DEF first
<1>5. /\ \A i \in DOMAIN batch' : i + 1 \in DOMAIN batch /\ i + 1 > 1 /\ batch'[i] = batch[i + 1]
      /\ \A k \in DOMAIN batch : k # 1 => k - 1 \in DOMAIN batch' /\ k - 1 + 1 = k
      /\ 1 \in DOMAIN batch
      /\ \A i \in DOMAIN handed' : i \in DOMAIN handed \/ i = Len(handed) + 1
    BY <1>3, <1>4
<1>6. \A i \in DOMAIN batch : batch[i] = first => i = 1
    BY <1>3, <1>5 DEF PipelineInvariant, Once
<1>7. /\ \A e : In(e, handed)' <=> In(e, handed) \/ e = first
      /\ \A e : In(e, batch)' <=> In(e, batch) /\ e # first
      /\ \A e : Waiting(e)' <=> Waiting(e)
  <2>1. \A e : In(e, handed)' <=> In(e, handed) \/ e = first
    BY <1>4, <1>5 DEF In
  <2>2. ASSUME NEW e, In(e, batch)' PROVE In(e, batch) /\ e # first
    <3>1. PICK i \in DOMAIN batch' : batch'[i] = e
      BY <2>2 DEF In
    <3> QED
      BY <3>1, <1>3, <1>5, <1>6 DEF In
  <2>3. ASSUME NEW e, In(e, batch), e # first PROVE In(e, batch)'
    <3>1. PICK k \in DOMAIN batch : batch[k] = e
      BY <2>3 DEF In
    <3>2. k - 1 \in DOMAIN batch' /\ batch'[k - 1] = e
      BY <2>3, <3>1, <1>3, <1>5
    <3> QED
      BY <3>2 DEF In
  <2> QED
    BY <2>1, <2>2, <2>3, <1>1 DEF Waiting
<1>8. In(first, batch)
    BY <1>3, <1>5 DEF In
<1>9. \A e : Somewhere(e)' <=> Somewhere(e)
    BY <1>7, <1>8 DEF Somewhere
<1>10. Once'
  <2>1. \A i, j \in DOMAIN batch' : batch'[i] = batch'[j] => i = j
    <3> SUFFICES ASSUME NEW i \in DOMAIN batch', NEW j \in DOMAIN batch', batch'[i] = batch'[j]
                 PROVE  i = j
      OBVIOUS
    <3>1. i + 1 = j + 1
      BY <1>5 DEF PipelineInvariant, Once
    <3> QED
      BY <1>3, <3>1
  <2>2. \A i, j \in DOMAIN handed' : handed'[i] = handed'[j] => i = j
    <3>1. \A i \in DOMAIN handed : handed[i] # first
      BY <1>3, <1>8 DEF PipelineInvariant, Once, In
    <3> QED
      BY <3>1, <1>4, <1>5 DEF PipelineInvariant, Once
  <2>3. \A e \in Events : /\ ~(In(e, handed)' /\ In(e, batch)')
                           /\ ~(In(e, handed)' /\ Waiting(e)')
                           /\ ~(In(e, batch)' /\ Waiting(e)')
    BY <1>7, <1>8 DEF PipelineInvariant, Once
  <2> QED
    BY <1>1, <2>1, <2>2, <2>3 DEF PipelineInvariant, Once
<1>11. Answers' /\ \A e \in Events : Publishing(e)' <=> Publishing(e)
    BY <1>1, <1>7, <1>9, AnswersFrame DEF PipelineInvariant
<1>12. Claims'
    BY <1>1 DEF PipelineInvariant, Claims, Publishing, Event
<1>13. InOrder'
  <2> SUFFICES ASSUME strategy # "sync-fallback" PROVE InOrder'
    BY <1>1 DEF InOrder
  <2>1. \A i, j \in DOMAIN batch' : i < j => Earlier(batch'[i], batch'[j])
    <3> SUFFICES ASSUME NEW i \in DOMAIN batch', NEW j \in DOMAIN batch', i < j
                 PROVE  Earlier(batch'[i], batch'[j])
      OBVIOUS
    <3>1. i + 1 < j + 1
      BY <1>3
    <3> QED
      BY <3>1, <1>5 DEF PipelineInvariant, InOrder
  <2>2. \A i \in DOMAIN batch' : Earlier(first, batch'[i])
    BY <1>3, <1>5 DEF PipelineInvariant, InOrder
  <2>3. \A i, j \in DOMAIN handed' : i < j => Earlier(handed'[i], handed'[j])
    <3> SUFFICES ASSUME NEW i \in DOMAIN handed', NEW j \in DOMAIN handed', i < j
                 PROVE  Earlier(handed'[i], handed'[j])
      OBVIOUS
    <3>1. i \in DOMAIN handed
      BY <1>4
    <3>2. CASE j \in DOMAIN handed
      BY <1>4, <3>1, <3>2 DEF PipelineInvariant, InOrder
    <3>3. CASE j = Len(handed) + 1
      BY <1>3, <1>4, <1>5, <3>1, <3>3 DEF PipelineInvariant, InOrder
    <3> QED
      BY <1>5, <3>2, <3>3
  <2>4. /\ \A i \in DOMAIN handed', j \in DOMAIN batch' : Earlier(handed'[i], batch'[j])
        /\ \A i \in DOMAIN handed', j \in DOMAIN queue' : Earlier(handed'[i], queue'[j].event)
        /\ \A i \in DOMAIN batch', j \in DOMAIN queue' : Earlier(batch'[i], queue'[j].event)
    BY <1>1, <1>3, <1>4, <1>5, <2>2 DEF PipelineInvariant, InOrder
  <2> QED
    BY <2>1, <2>3, <2>4, <1>1 DEF PipelineInvariant, InOrder
<1> QED
    BY <1>10, <1>11, <1>12, <1>13

-----------------------------------------------------------------------------
LEMMA OrderStep ==
    ASSUME PipelineInvariant, [Next]_vars
    PROVE  Order'
<1> USE DEF callerVars, workerVars, closeVars, sinkVars, counters
<1>1. ASSUME NEW p \in Callers, Call(p) \/ AppendRuns(p) \/ Cancel(p) PROVE Order'
  <2>1. UNCHANGED <<worker, batch, done, closed, closer, sinkClosed>>
    BY <1>1 DEF Call, AppendRuns, Cancel, Begin, Refuse, CheckClosing, TryPublish, Publish, MeetFull,
                Drop, BlockAgain, Unblock, Interrupt, WriteSync
  <2>2. UNCHANGED queue \/ InFlight(p)
    BY <1>1 DEF Call, AppendRuns, Cancel, Begin, Refuse, CheckClosing, TryPublish, Publish, MeetFull,
                Drop, BlockAgain, Unblock, Interrupt, WriteSync, InFlight
  <2>3. \A q \in Callers : InFlight(q)' => InFlight(q) \/ ~closed
    <3>1. pc' = [pc EXCEPT ![p] = pc'[p]]
      BY <1>1 DEF Call, AppendRuns, Cancel, Begin, Refuse, CheckClosing, TryPublish, Publish, MeetFull,
                  Drop, BlockAgain, Unblock, Interrupt, WriteSync, Answer, Goto, PipelineInvariant,
                  PipelineTypes
    <3>2. pc'[p] \in {"idle", "begin"} \/ pc[p] \notin {"idle", "begin"} \/ ~closed
      BY <1>1 DEF Call, AppendRuns, Cancel, Begin, Refuse, CheckClosing, TryPublish, Publish, MeetFull,
                  Drop, BlockAgain, Unblock, Interrupt, WriteSync, Answer, Goto, PipelineInvariant,
                  PipelineTypes
    <3> QED
      BY <3>1, <3>2 DEF InFlight, PipelineInvariant, PipelineTypes
  <2>4. done => UNCHANGED queue
    BY <2>2 DEF PipelineInvariant, Order
  <2> QED
    BY <2>1, <2>3, <2>4 DEF PipelineInvariant, Order, Stopping
<1>2. UNCHANGED callerVars => \A p \in Callers : InFlight(p)' <=> InFlight(p)
    BY DEF InFlight
<1>3. CASE WorkerPop \/ WorkerPark \/ WorkerWake \/ WorkerDone \/ WorkerHand \/ WorkerDrain
    BY <1>2, <1>3 DEF WorkerPop, WorkerPark, WorkerWake, WorkerDone, WorkerHand, WorkerDrain,
                      WorkerGoto, Flushing, PipelineInvariant, Order, Stopping
<1>4. CASE WorkerFlushed
    BY <1>2, <1>4 DEF WorkerFlushed, WorkerGoto, Flushing, PipelineInvariant, Order, Stopping
<1>5. CASE WorkerDrained
  <2>1. done /\ \A p \in Callers : ~InFlight(p)
    BY <1>5 DEF WorkerDrained, PipelineInvariant, Order, Stopping
  <2>2. queue \in Seq(Elements) /\ Len(queue) \in Nat /\ DOMAIN queue = 1..Len(queue)
    BY DEF PipelineInvariant, PipelineTypes
  <2>3. \A i \in DOMAIN queue : queue[i].ready
    <3> SUFFICES ASSUME NEW i \in DOMAIN queue, ~queue[i].ready PROVE FALSE
      OBVIOUS
    <3>1. Publishing(queue[i].event) /\ queue[i] \in Elements
      BY <2>2, ElementOfSeq DEF PipelineInvariant, Claims
    <3>2. queue[i].event[1] \in Callers
      BY <3>1, EventFacts DEF Elements
    <3> QED
      BY <2>1, <3>1, <3>2 DEF Publishing, InFlight
  <2>4. Len(queue) = 0
    BY <1>5, <2>2, <2>3 DEF WorkerDrained, Published
  <2>5. queue = <<>>
    BY <2>2, <2>4, EmptySeq
  <2> QED
    BY <1>2, <1>5, <2>5 DEF WorkerDrained, WorkerGoto, PipelineInvariant, Order, Stopping
<1>6. ASSUME NEW c \in Closers, CloseBegin(c) \/ CloseAgain(c) \/ CloseRuns(c) PROVE Order'
  <2>1. UNCHANGED <<queue, callerVars, workerVars>>
    BY <1>6 DEF CloseBegin, CloseAgain, CloseRuns, CloseProducers, CloseWorkers
  <2>2. CASE CloseBegin(c) \/ CloseAgain(c)
    BY <1>2, <2>1, <2>2 DEF CloseBegin, CloseAgain, CloserGoto, PipelineInvariant, PipelineTypes, Order
  <2>3. CASE CloseProducers(c)
    BY <1>2, <2>1, <2>3 DEF CloseProducers, CloserGoto, PipelineInvariant, PipelineTypes, Order
  <2>4. CASE CloseWorkers(c)
    BY <1>2, <2>1, <2>4 DEF CloseWorkers, CloserGoto, PipelineInvariant, PipelineTypes, Order
  <2> QED
    BY <1>6, <2>2, <2>3, <2>4 DEF CloseRuns
<1>7. CASE UNCHANGED vars
    BY <1>2, <1>7 DEF vars, PipelineInvariant, Order
<1> QED
    BY <1>1, <1>3, <1>4, <1>5, <1>6, <1>7 DEF Next, WorkerRuns, Finished

LEMMA CountsStep ==
    ASSUME PipelineInvariant, [Next]_vars
    PROVE  Counts'
<1> USE DEF callerVars, workerVars, closeVars, sinkVars, counters
<1> DEFINE Dropped == {e \in Events : outcome[e] = "dropped"}
<1>1. /\ IsFiniteSet(Dropped) /\ dropped = Cardinality(Dropped) /\ IsFiniteSet(misfed)
      /\ \A e \in misfed : In(e, handed)
      /\ failed + (IF joined THEN 1 ELSE 0) <= Cardinality(misfed)
      /\ misfed # {} => failed > 0 \/ joined
      /\ joined => Flushing
    BY DEF PipelineInvariant, Counts
<1>2. ASSUME UNCHANGED <<misfed, failed, joined, worker>>,
             \A e \in Events : In(e, handed) => In(e, handed)',
             IsFiniteSet(Dropped)' /\ (dropped = Cardinality(Dropped))'
      PROVE  Counts'
  <2>1. \A e \in misfed' : In(e, handed)'
    BY <1>1, <1>2 DEF PipelineInvariant, PipelineTypes
  <2> QED
    BY <1>1, <1>2, <2>1 DEF Counts, Flushing
<1>3. ASSUME UNCHANGED dropped, \A e \in Events : outcome'[e] = "dropped" <=> outcome[e] = "dropped"
      PROVE  IsFiniteSet(Dropped)' /\ (dropped = Cardinality(Dropped))'
  <2>1. {e \in Events : outcome'[e] = "dropped"} = Dropped
    BY <1>3
  <2> QED
    BY <1>1, <1>3, <2>1
<1>4. UNCHANGED handed => \A e : In(e, handed) => In(e, handed)'
    BY DEF In
<1>5. ASSUME NEW p \in Callers, NEW r \in {"accepted", "synced", "closed", "cancelled"},
             pc[p] # "idle", Answer(p, r)
      PROVE  \A e \in Events : outcome'[e] = "dropped" <=> outcome[e] = "dropped"
  <2>1. Event(p) \in Events /\ outcome[Event(p)] = "none"
    BY <1>5 DEF PipelineInvariant, PipelineTypes, Answers, Event
  <2> QED
    BY <1>5, <2>1 DEF Answer, PipelineInvariant, PipelineTypes
<1>6. ASSUME NEW p \in Callers,
             \/ Call(p) \/ Begin(p) \/ Refuse(p) \/ CheckClosing(p) \/ TryPublish(p) \/ Publish(p)
             \/ MeetFull(p) \/ BlockAgain(p) \/ Unblock(p) \/ Interrupt(p) \/ Cancel(p)
      PROVE  Counts'
  <2>1. UNCHANGED <<misfed, failed, joined, worker, handed, dropped>>
    BY <1>6 DEF Call, Begin, Refuse, CheckClosing, TryPublish, Publish, MeetFull, BlockAgain, Unblock,
                Interrupt, Cancel
  <2>2. \/ UNCHANGED outcome
        \/ pc[p] # "idle" /\ \E r \in {"accepted", "closed", "cancelled"} : Answer(p, r)
    BY <1>6 DEF Call, Begin, Refuse, CheckClosing, TryPublish, Publish, MeetFull, BlockAgain, Unblock,
                Interrupt, Cancel
  <2>3. \A e \in Events : outcome'[e] = "dropped" <=> outcome[e] = "dropped"
    BY <1>5, <2>2
  <2> QED
    BY <1>2, <1>3, <1>4, <2>1, <2>3
<1>7. ASSUME NEW p \in Callers, Drop(p) PROVE Counts'
  <2>1. Event(p) \in Events /\ outcome[Event(p)] = "none"
    BY <1>7 DEF Drop, PipelineInvariant, PipelineTypes, Answers, Event
  <2>2. {e \in Events : outcome'[e] = "dropped"} = Dropped \cup {Event(p)}
    BY <1>7, <2>1 DEF Drop, Answer, PipelineInvariant, PipelineTypes
  <2>3. Event(p) \notin Dropped
    BY <2>1
  <2>4. IsFiniteSet(Dropped \cup {Event(p)}) /\ Cardinality(Dropped \cup {Event(p)}) = dropped + 1
    BY <1>1, <2>3, FS_AddElement
  <2>5. IsFiniteSet(Dropped)' /\ (dropped = Cardinality(Dropped))'
    BY <1>7, <2>2, <2>4 DEF Drop
  <2>6. UNCHANGED <<misfed, failed, joined, worker, handed>>
    BY <1>7 DEF Drop
  <2> HIDE DEF Dropped
  <2> QED
    BY <1>2, <1>4, <2>5, <2>6
<1>8. ASSUME NEW p \in Callers, WriteSync(p) PROVE Counts'
  <2>1. UNCHANGED <<misfed, failed, joined, worker, dropped>> /\ pc[p] # "idle" /\ Answer(p, "synced")
        /\ handed' = Append(handed, Event(p)) /\ Event(p) \in Events /\ handed \in Seq(Events)
    BY <1>8 DEF WriteSync, Hand, PipelineInvariant, PipelineTypes
  <2>2. \A e \in Events : In(e, handed) => In(e, handed)'
    BY <2>1, AppendFacts DEF In
  <2> QED
    BY <1>2, <1>3, <1>5, <2>1, <2>2
<1>9. CASE WorkerPop \/ WorkerPark \/ WorkerWake \/ WorkerDone \/ WorkerDrain \/ WorkerDrained
  <2>1. UNCHANGED <<misfed, failed, joined, handed, outcome, dropped>> /\ ~Flushing
    BY <1>9 DEF WorkerPop, WorkerPark, WorkerWake, WorkerDone, WorkerDrain, WorkerDrained, Flushing
  <2>2. \A e \in misfed' : In(e, handed)'
    BY <1>1, <1>4, <2>1
  <2> QED
    BY <1>1, <1>3, <2>1, <2>2 DEF Counts
<1>10. CASE WorkerHand
  <2>0. Head(batch) \in Events
    BY <1>10, TailFacts DEF WorkerHand, PipelineInvariant, PipelineTypes
  <2> PICK first \in Events : first = Head(batch)
    BY <2>0
  <2>1. /\ first = Head(batch) /\ handed \in Seq(Events) /\ handed' = Append(handed, first)
        /\ first = batch[1] /\ 1 \in DOMAIN batch
    BY <1>10, TailFacts DEF WorkerHand, Hand, PipelineInvariant, PipelineTypes
  <2>2. /\ \A e : In(e, handed) => In(e, handed)'
        /\ In(first, handed)' /\ ~In(first, handed)
    <3>1. ~In(first, handed)
      BY <2>1 DEF PipelineInvariant, Once, In
    <3>2. /\ \A e : In(e, handed) => In(e, handed)'
          /\ In(first, handed)'
      <4>1. /\ DOMAIN handed' = 1..Len(handed) + 1 /\ Len(handed) \in Nat
            /\ DOMAIN handed = 1..Len(handed)
            /\ \A i \in DOMAIN handed : handed'[i] = handed[i]
            /\ handed'[Len(handed) + 1] = first
        BY <2>1, AppendFacts
      <4> QED
        BY <4>1 DEF In
    <3> QED
      BY <3>1, <3>2
  <2>3. UNCHANGED <<outcome, dropped, failed, worker>> /\ Flushing
    BY <1>10 DEF WorkerHand
  <2>4. CASE sinkClosed \/ first \in FailingEvents
    <3>1. misfed' = misfed \cup {first} /\ joined'
      BY <1>10, <2>4 DEF WorkerHand
    <3>2. first \notin misfed
      BY <1>1, <2>2
    <3>3. IsFiniteSet(misfed') /\ Cardinality(misfed') = Cardinality(misfed) + 1
      BY <1>1, <3>1, <3>2, FS_AddElement
    <3>4. Cardinality(misfed) \in Nat /\ failed \in Nat
      BY <1>1, FS_CardinalityType DEF PipelineInvariant, PipelineTypes
    <3>5. failed' + 1 <= Cardinality(misfed')
      BY <1>1, <2>3, <3>3, <3>4
    <3>6. \A e \in misfed' : In(e, handed)'
      BY <1>1, <2>2, <3>1
    <3>7. IsFiniteSet(Dropped)' /\ (dropped = Cardinality(Dropped))'
      BY <1>3, <2>3
    <3> QED
      BY <2>3, <3>1, <3>3, <3>5, <3>6, <3>7 DEF Counts, Flushing
  <2>5. CASE ~(sinkClosed \/ first \in FailingEvents)
    <3>1. UNCHANGED <<misfed, joined>>
      BY <1>10, <2>5 DEF WorkerHand
    <3> QED
      BY <1>2, <1>3, <2>2, <2>3, <3>1
  <2> QED
    BY <2>4, <2>5
<1>11. CASE WorkerFlushed
  <2>1. /\ UNCHANGED <<outcome, dropped, misfed, handed>> /\ joined' = FALSE
        /\ failed' = IF joined THEN failed + 1 ELSE failed
    BY <1>11 DEF WorkerFlushed
  <2>2. Cardinality(misfed) \in Nat /\ failed \in Nat /\ joined \in BOOLEAN
    BY <1>1, FS_CardinalityType DEF PipelineInvariant, PipelineTypes
  <2>3. \A e \in misfed' : In(e, handed)'
    BY <1>1, <1>4, <2>1
  <2>4. failed' <= Cardinality(misfed) /\ (misfed # {} => failed' > 0)
    BY <1>1, <2>1, <2>2
  <2>5. failed' + 0 = failed'
    BY <2>1, <2>2
  <2> QED
    BY <1>1, <1>3, <2>1, <2>3, <2>4, <2>5 DEF Counts
<1>12. ASSUME UNCHANGED <<outcome, dropped, misfed, failed, joined, worker, handed>> PROVE Counts'
    BY <1>2, <1>3, <1>4, <1>12
<1>13. ASSUME NEW c \in Closers, CloseBegin(c) \/ CloseAgain(c) \/ CloseRuns(c) PROVE Counts'
    BY <1>12, <1>13 DEF CloseBegin, CloseAgain, CloseRuns, CloseProducers, CloseWorkers
<1>14. CASE UNCHANGED vars
    BY <1>12, <1>14 DEF vars
<1> QED
    BY <1>6, <1>7, <1>8, <1>9, <1>10, <1>11, <1>13, <1>14 DEF Next, AppendRuns, WorkerRuns, Finished

-----------------------------------------------------------------------------
LEMMA PipelineInit == Init => PipelineInvariant
<1> SUFFICES ASSUME Init PROVE PipelineInvariant
    OBVIOUS
<1>1. /\ queue = <<>> /\ batch = <<>> /\ handed = <<>> /\ worker = "pop"
      /\ ~done /\ ~closed /\ ~sinkClosed /\ ~joined
      /\ pc = [p \in Callers |-> "idle"] /\ outcome = [e \in Events |-> "none"]
      /\ closer = [c \in Closers |-> "idle"] /\ dropped = 0 /\ failed = 0 /\ misfed = {}
    BY DEF Init
<1>2. \A e : ~In(e, handed) /\ ~In(e, batch) /\ ~Waiting(e) /\ ~Somewhere(e)
    BY <1>1 DEF In, Waiting, Somewhere
<1>3. Once /\ InOrder /\ Claims
    BY <1>1, <1>2 DEF Once, InOrder, Claims
<1>4. Answers
    BY <1>1, <1>2, EventFacts DEF Answers
<1>5. Order
    BY <1>1 DEF Order, InFlight, Stopping
<1>6. Counts
  <2>1. {e \in Events : outcome[e] = "dropped"} = {} /\ misfed = {}
    BY <1>1
  <2>2. IsFiniteSet({}) /\ Cardinality({}) = 0
    BY FS_EmptySet
  <2>3. dropped = 0 /\ ~joined /\ failed + 0 <= 0
    BY <1>1
  <2> QED
    BY <2>1, <2>2, <2>3 DEF Counts
<1> QED
    BY <1>3, <1>4, <1>5, <1>6, TypeInit DEF PipelineInvariant

(* The steps that move no event and answer no Append.                      *)
LEMMA StillStep ==
    ASSUME PipelineInvariant, UNCHANGED <<strategy, queue, pc, calls, outcome, batch, handed>>
    PROVE  (Once /\ Answers /\ Claims /\ InOrder)'
<1>1. Once' /\ InOrder'
    BY ListFrame DEF PipelineInvariant
<1>2. Answers'
    BY ListFrame, AnswersFrame DEF PipelineInvariant
<1>3. Claims'
    BY DEF PipelineInvariant, Claims, Publishing, Event
<1> QED
    BY <1>1, <1>2, <1>3

LEMMA PipelineStep == PipelineInvariant /\ [Next]_vars => PipelineInvariant'
<1> SUFFICES ASSUME PipelineInvariant, [Next]_vars PROVE PipelineInvariant'
    OBVIOUS
<1> USE DEF callerVars, workerVars, closeVars, sinkVars, counters
<1>1. PipelineTypes' /\ Order' /\ Counts'
    BY TypeStep, OrderStep, CountsStep DEF PipelineInvariant
<1>2. ASSUME NEW p \in Callers,
             \/ Call(p) \/ Begin(p) \/ Refuse(p) \/ CheckClosing(p) \/ MeetFull(p) \/ Drop(p)
             \/ BlockAgain(p) \/ Unblock(p) \/ Interrupt(p) \/ Cancel(p)
      PROVE  (Once /\ Answers /\ Claims /\ InOrder)'
  <2>1. UNCHANGED <<strategy, queue, handed, batch>>
    BY <1>2 DEF Call, Begin, Refuse, CheckClosing, MeetFull, Drop, BlockAgain, Unblock, Interrupt, Cancel
  <2>2. pc[p] # "publish"
    BY <1>2 DEF Call, Begin, Refuse, CheckClosing, MeetFull, Drop, BlockAgain, Unblock, Interrupt, Cancel
  <2>3. \/ Call(p)
        \/ /\ pc[p] # "idle" /\ UNCHANGED <<calls, outcome>>
           /\ \E s \in States : s # "publish" /\ Goto(p, s)
        \/ /\ pc[p] # "idle" /\ UNCHANGED calls
           /\ \E r \in {"closed", "cancelled"} : Answer(p, r)
        \/ /\ pc[p] # "idle" /\ UNCHANGED calls
           /\ Answer(p, "dropped") /\ Droppable(p)
    BY <1>2 DEF Begin, Refuse, CheckClosing, MeetFull, Drop, BlockAgain, Unblock, Interrupt, Cancel, States
  <2>4. Answers' /\ Claims'
    BY <2>1, <2>2, <2>3, LocalStep DEF PipelineInvariant
  <2>5. \A q \in Callers : pc'[q] = "sync" => pc[q] = "sync" \/ strategy = "sync-fallback"
    BY <1>2 DEF Call, Begin, Refuse, CheckClosing, MeetFull, Drop, BlockAgain, Unblock, Interrupt, Cancel,
                Goto, Answer, PipelineInvariant, PipelineTypes
  <2>6. Once' /\ InOrder'
    BY <2>1, <2>5, ListFrame DEF PipelineInvariant
  <2> QED
    BY <2>4, <2>6
<1>3. ASSUME NEW p \in Callers, Call(p) \/ AppendRuns(p) \/ Cancel(p)
      PROVE  (Once /\ Answers /\ Claims /\ InOrder)'
    BY <1>2, <1>3, TryPublishStep, PublishStep, WriteSyncStep DEF AppendRuns
<1>4. ASSUME WorkerPop PROVE (Once /\ Answers /\ Claims /\ InOrder)'
    BY <1>4, PopStep, PipelineAssumption DEF WorkerPop
<1>5. ASSUME WorkerDrain PROVE (Once /\ Answers /\ Claims /\ InOrder)'
  <2>1. BatchSize - Len(batch) \in Int
    BY PipelineAssumption DEF PipelineInvariant, PipelineTypes
  <2> QED
    BY <1>5, <2>1, PopStep DEF WorkerDrain
<1>6. ASSUME WorkerPark \/ WorkerWake \/ WorkerDone \/ WorkerFlushed \/ WorkerDrained PROVE (Once /\ Answers /\ Claims /\ InOrder)'
  <2>1. UNCHANGED <<strategy, queue, pc, calls, outcome, batch, handed>>
    BY <1>6 DEF WorkerPark, WorkerWake, WorkerDone, WorkerFlushed, WorkerDrained
  <2> QED
    BY <2>1, StillStep
<1>7. ASSUME NEW c \in Closers, CloseBegin(c) \/ CloseAgain(c) \/ CloseRuns(c)
      PROVE  (Once /\ Answers /\ Claims /\ InOrder)'
  <2>1. UNCHANGED <<strategy, queue, pc, calls, outcome, batch, handed>>
    BY <1>7 DEF CloseBegin, CloseAgain, CloseRuns, CloseProducers, CloseWorkers
  <2> QED
    BY <2>1, StillStep
<1>8. ASSUME UNCHANGED vars PROVE (Once /\ Answers /\ Claims /\ InOrder)'
    BY <1>8, StillStep DEF vars
<1>9. (Once /\ Answers /\ Claims /\ InOrder)'
    BY <1>3, <1>4, <1>5, <1>6, <1>7, <1>8, HandStep DEF Next, WorkerRuns, Finished
<1> QED
    BY <1>1, <1>9 DEF PipelineInvariant

(* In every reachable state an event is in the sinks, in the worker's      *)
(* batch or in the queue, once, as its Append answered; what was claimed   *)
(* and not published belongs to a caller in the middle of a publication;   *)
(* Close has stopped callers, worker and sinks in that order.              *)
THEOREM PipelineInvariantHolds == Spec => []PipelineInvariant
<1>1. Init => PipelineInvariant
    BY PipelineInit
<1>2. PipelineInvariant /\ [Next]_vars => PipelineInvariant'
    BY PipelineStep
<1> QED
    BY <1>1, <1>2, PTL DEF Spec

(* How often the sinks saw an event is once or never.                      *)
LEMMA TimesFacts ==
    ASSUME PipelineInvariant, NEW e
    PROVE  TimesHanded(e) = IF In(e, handed) THEN 1 ELSE 0
<1>1. CASE In(e, handed)
  <2>1. PICK i \in DOMAIN handed : handed[i] = e
    BY <1>1 DEF In
  <2>2. {j \in DOMAIN handed : handed[j] = e} = {i}
    BY <2>1 DEF PipelineInvariant, Once
  <2> QED
    BY <1>1, <2>2, FS_Singleton DEF TimesHanded
<1>2. CASE ~In(e, handed)
  <2>1. {j \in DOMAIN handed : handed[j] = e} = {}
    BY <1>2 DEF In
  <2> QED
    BY <1>2, <2>1, FS_EmptySet DEF TimesHanded
<1> QED
    BY <1>1, <1>2

(* Close drains: past the wait for the worker every event whose Append     *)
(* said nil without dropping it was handed over exactly once, for any      *)
(* strategy, queue and batch size and number of callers.                   *)
THEOREM CloseDrainsHolds == Spec => []CloseDrains
<1>1. PipelineInvariant => CloseDrains
  <2> SUFFICES ASSUME PipelineInvariant, NEW c \in Closers, closer[c] = "drained",
                      NEW e \in Events, outcome[e] \in {"accepted", "synced"}
               PROVE  TimesHanded(e) = 1
    BY DEF CloseDrains
  <2>1. queue = <<>> /\ batch = <<>>
    BY DEF PipelineInvariant, Order
  <2>2. ~In(e, batch) /\ ~Waiting(e)
    BY <2>1 DEF In, Waiting
  <2>3. In(e, handed)
    BY <2>2 DEF PipelineInvariant, Answers, Somewhere
  <2> QED
    BY <2>3, TimesFacts
<1> QED
    BY <1>1, PipelineInvariantHolds, PTL

(* The sinks see no event twice and none that Append refused, dropped or   *)
(* gave up, only what may be dropped is, and the counters tell both.       *)
THEOREM EveryEventAccountedHolds == Spec => []EveryEventAccounted
<1>1. PipelineInvariant => EveryEventAccounted
  <2> SUFFICES ASSUME PipelineInvariant PROVE EveryEventAccounted
    OBVIOUS
  <2>1. ASSUME NEW e \in Events
        PROVE  /\ TimesHanded(e) <= 1
               /\ outcome[e] \in {"dropped", "closed", "cancelled"} => TimesHanded(e) = 0
               /\ outcome[e] = "dropped" =>
                     strategy = "drop" \/ (strategy = "drop-debug" /\ e \in DebugEvents)
    <3>1. TimesHanded(e) = IF In(e, handed) THEN 1 ELSE 0
      BY TimesFacts
    <3>2. outcome[e] \in {"dropped", "closed", "cancelled"} => ~In(e, handed)
      <4> SUFFICES ASSUME outcome[e] \in {"dropped", "closed", "cancelled"}, In(e, handed)
                   PROVE  FALSE
        OBVIOUS
      <4>1. Publishing(e)
        BY DEF PipelineInvariant, Answers, Somewhere
      <4>2. outcome[e] = "none"
        BY <4>1 DEF PipelineInvariant, Answers, Publishing
      <4> QED
        BY <4>2
    <3> QED
      BY <3>1, <3>2 DEF PipelineInvariant, Answers
  <2>2. /\ dropped = Cardinality({e \in Events : outcome[e] = "dropped"})
        /\ failed <= Cardinality(misfed)
        /\ ~Flushing /\ misfed # {} => failed > 0
    <3>1. Cardinality(misfed) \in Nat /\ failed \in Nat
      BY FS_CardinalityType DEF PipelineInvariant, PipelineTypes, Counts
    <3>2. failed + (IF joined THEN 1 ELSE 0) <= Cardinality(misfed)
      BY DEF PipelineInvariant, Counts
    <3>3. failed <= Cardinality(misfed)
      BY <3>1, <3>2
    <3> QED
      BY <3>3 DEF PipelineInvariant, Counts
  <2> QED
    BY <2>1, <2>2 DEF EveryEventAccounted
<1> QED
    BY <1>1, PipelineInvariantHolds, PTL

(* Without sync-fallback the sinks see the events of one caller in the     *)
(* order of its calls.                                                     *)
THEOREM CallerOrderHolds == Spec => []CallerOrder
<1>1. PipelineInvariant => CallerOrder
    BY DEF PipelineInvariant, InOrder, Earlier, CallerOrder
<1> QED
    BY <1>1, PipelineInvariantHolds, PTL

(* Nothing is written to the sinks once Close has closed them.             *)
THEOREM NoWriteAfterCloseHolds == Spec => NoWriteAfterClose
<1>1. PipelineInvariant /\ [Next]_vars => [sinkClosed => UNCHANGED handed]_vars
  <2> SUFFICES ASSUME PipelineInvariant, [Next]_vars, sinkClosed PROVE UNCHANGED handed
    BY DEF vars, sinkVars
  <2> USE DEF callerVars, workerVars, closeVars, sinkVars, counters
  <2>1. worker = "stopped" /\ \A p \in Callers : ~InFlight(p)
    BY DEF PipelineInvariant, Order, Stopping
  <2>2. ASSUME NEW p \in Callers, Call(p) \/ AppendRuns(p) \/ Cancel(p) PROVE UNCHANGED handed
    BY <2>1, <2>2 DEF Call, AppendRuns, Cancel, Begin, Refuse, CheckClosing, TryPublish, Publish,
                      MeetFull, Drop, BlockAgain, Unblock, Interrupt, WriteSync, InFlight
  <2>3. ~WorkerHand
    BY <2>1 DEF WorkerHand, Flushing
  <2>4. WorkerRuns => UNCHANGED handed
    BY <2>3 DEF WorkerRuns, WorkerPop, WorkerPark, WorkerWake, WorkerDone, WorkerFlushed, WorkerDrain,
                WorkerDrained
  <2>5. ASSUME NEW c \in Closers, CloseBegin(c) \/ CloseAgain(c) \/ CloseRuns(c) PROVE UNCHANGED handed
    BY <2>5 DEF CloseBegin, CloseAgain, CloseRuns, CloseProducers, CloseWorkers
  <2> QED
    BY <2>2, <2>4, <2>5 DEF Next, Finished, vars
<1> QED
    BY <1>1, PipelineInvariantHolds, PTL DEF Spec, NoWriteAfterClose

=============================================================================
