--------------------------- MODULE LoggerRouting ---------------------------
(***************************************************************************)
(* internal/router and the synchronous half of Handler: which loggers a    *)
(* configuration and the levels set at run time yield, which one a logger  *)
(* name is matched to, and which appenders an event is written to.         *)
(*                                                                         *)
(* A name is a sequence of characters, since the rules compare prefixes up *)
(* to a dot, dots and lengths.  The sorted list of loggers, searched from  *)
(* its head, is a set from which the one with the largest sort key is      *)
(* taken.  A call runs on one snapshot; interleavings of calls with        *)
(* SetLevel, Replace and Close are in HandlerLifecycle.                    *)
(***************************************************************************)
EXTENDS Integers, Sequences, FiniteSets

CONSTANTS
    Names,          \* logger names
    Levels,         \* severities
    Appenders,
    JSONAppenders,  \* those with AppendAttrs
    Filters,
    Configs,        \* the Options a caller may give
    MaxOverrides    \* bound: levels set at a time

Inherit == -1       \* no level of its own
ROOT == <<>>        \* normalizeLevelName's ROOT, a name no logger has
Dot == "."

Control == [to : Appenders, min : Levels \cup {Inherit}, filters : Seq(Filters)]
Rule == [name : Names, level : Levels \cup {Inherit}, refs : Seq(Control),
         filters : Seq(Filters), additive : BOOLEAN]
Options == [level : Levels, refs : Seq(Control), filters : Seq(Filters),
            global : Seq(Filters), rules : SUBSET Rule]

ASSUME RoutingAssumption ==
    /\ Names \subseteq Seq(STRING) /\ ROOT \notin Names
    /\ Levels \subseteq Nat
    /\ JSONAppenders \subseteq Appenders
    /\ Configs \subseteq Options
    /\ \A c \in Configs : \A r, s \in c.rules : r.name = s.name => r = s
    /\ MaxOverrides \in Nat

VARIABLES
    configured,     \* the Options installed last
    base,           \* Router.base: the runtime built from them
    open,           \* base is not nil
    levels,         \* Router.levels; Inherit where none is set
    current,        \* Router.current
    call            \* the log call that ran last, with what it wrote

routingVars == <<configured, base, open, levels, current, call>>

NoCall == [name |-> ROOT, level |-> Inherit, verdict |-> [f \in Filters |-> "neutral"],
           wrote |-> <<>>]
NoLevels == [n \in Names \cup {ROOT} |-> Inherit]

-----------------------------------------------------------------------------
HasPrefix(name, prefix) ==
    /\ Len(prefix) <= Len(name)
    /\ \A i \in 1..Len(prefix) : name[i] = prefix[i]

(* loggerMatches.                                                          *)
Matches(name, rule) ==
    \/ name = rule
    \/ /\ Len(rule) < Len(name)
       /\ HasPrefix(name, rule)
       /\ name[Len(rule) + 1] = Dot

Dots(name) == {i \in 1..Len(name) : name[i] = Dot}

(* loggerSpecificity, the sort key.                                        *)
Specificity(name) == Cardinality(Dots(name)) * 1024 + Len(name)

(* The one that comes first in the sorted list.                            *)
First(loggers) ==
    CHOOSE l \in loggers : \A k \in loggers : Specificity(k.name) <= Specificity(l.name)

Matching(loggers, name) == {l \in loggers : Matches(name, l.name)}

(* effectiveLoggerLevel.                                                   *)
EffectiveLevel(rootLevel, name, loggers) ==
    LET explicit == {l \in Matching(loggers, name) : l.configured # Inherit}
    IN  IF explicit = {} THEN rootLevel ELSE First(explicit).configured

WithLevels(rootLevel, loggers) ==
    {[name |-> l.name, configured |-> l.configured,
      route |-> [level |-> EffectiveLevel(rootLevel, l.name, loggers),
                 appenders |-> l.route.appenders,
                 filters |-> l.route.filters]] : l \in loggers}

(* routePlanFromConfig.                                                    *)
PlanFor(config, name) ==
    LET matching == Matching(config.loggers, name)
    IN  IF matching = {} THEN config.root ELSE First(matching).route

-----------------------------------------------------------------------------
(* A list of references with some left out: those at these positions.      *)
At(refs, positions) == [i \in positions |-> refs[i]]

(* Mutant: root's references are added whatever the logger refers to.      *)
JoinAll(own, roots) == own \o roots

(* appendUniqueAppenderControls: of the references to one appender, the    *)
(* logger's own before root's, the first.                                  *)
JoinUnique(own, roots) ==
    LET both == own \o roots
    IN  At(both, {i \in DOMAIN both : \A k \in 1..(i - 1) : both[k].to # both[i].to})

(* appendLoggerRuntime.                                                    *)
LoggerOf(o, rule) ==
    [name |-> rule.name, configured |-> rule.level,
     route |-> [level |-> IF rule.level = Inherit THEN o.level ELSE rule.level,
                appenders |-> IF rule.additive THEN JoinUnique(rule.refs, o.refs)
                              ELSE rule.refs,
                filters |-> IF rule.additive THEN rule.filters \o o.filters
                            ELSE rule.filters]]

(* buildRuntimeConfig.                                                     *)
Build(o) == [root |-> [level |-> o.level, appenders |-> o.refs, filters |-> o.filters],
             global |-> o.global,
             loggers |-> WithLevels(o.level, {LoggerOf(o, r) : r \in o.rules})]

LevelOr(own, otherwise) == IF own = Inherit THEN otherwise ELSE own

Kept(b, ls) ==
    {[name |-> l.name, configured |-> LevelOr(ls[l.name], l.configured),
      route |-> l.route] : l \in b.loggers}

(* Mutant: an added logger takes root's route.                             *)
AddedAtRoot(b, ls) ==
    {[name |-> n, configured |-> ls[n], route |-> b.root] :
        n \in {m \in Names : ls[m] # Inherit /\ \A l \in b.loggers : l.name # m}}

Added(b, ls) ==
    {[name |-> n, configured |-> ls[n], route |-> PlanFor(b, n)] :
        n \in {m \in Names : ls[m] # Inherit /\ \A l \in b.loggers : l.name # m}}

(* applyLevelOverrides: configured loggers get the level, the others are   *)
(* added with the route of the logger their name is matched to.            *)
Overridden(b, ls) ==
    LET rootLevel == LevelOr(ls[ROOT], b.root.level)
    IN  IF ls = NoLevels THEN b
        ELSE [root |-> [level |-> rootLevel, appenders |-> b.root.appenders,
                        filters |-> b.root.filters],
              global |-> b.global,
              loggers |-> WithLevels(rootLevel, Kept(b, ls) \cup Added(b, ls))]

-----------------------------------------------------------------------------
(* Apply: the first filter that is not neutral decides.                    *)
Verdict(filters, verdict) ==
    LET deciding == {i \in DOMAIN filters : verdict[filters[i]] # "neutral"}
    IN  IF deciding = {} THEN "neutral"
        ELSE verdict[filters[CHOOSE i \in deciding : \A k \in deciding : i <= k]]

Wanted(refs, level) == At(refs, {i \in DOMAIN refs : level >= refs[i].min})

(* AppendResult for each appender of the route.                            *)
WriteRoute(route, level, verdict) ==
    LET wanted == Wanted(route.appenders, level)
    IN  IF Verdict(route.filters, verdict) = "deny" THEN At(wanted, {})
        ELSE At(wanted, {i \in DOMAIN wanted : Verdict(wanted[i].filters, verdict) # "deny"})

(* canDispatchAttrsFast; bare: no caller, groups, attributes, context.     *)
CanDispatchFast(route, bare) ==
    /\ bare
    /\ route.filters = <<>> /\ DOMAIN route.appenders # {}
    /\ \A i \in DOMAIN route.appenders :
          route.appenders[i].filters = <<>> /\ route.appenders[i].to \in JSONAppenders

(* logAttrs: the fast path when it handles the event, that is, when it     *)
(* wrote; else the event goes through filters and the route.               *)
Writes(config, name, level, verdict, bare) ==
    LET route == PlanFor(config, name)
        fast == Wanted(route.appenders, level)
        accepted == Verdict(config.global, verdict)
    IN  IF accepted = "deny" \/ (accepted # "accept" /\ level < route.level) THEN At(fast, {})
        ELSE IF config.global = <<>> /\ CanDispatchFast(route, bare) /\ DOMAIN fast # {}
        THEN fast ELSE WriteRoute(route, level, verdict)

-----------------------------------------------------------------------------
RoutingInit ==
    /\ configured \in Configs
    /\ base = Build(configured)
    /\ open = TRUE
    /\ levels = NoLevels
    /\ current = base
    /\ call = NoCall

(* Mutant: the override is put on what is current.                         *)
SetLevelOnCurrent(name, level) ==
    /\ call = NoCall /\ open
    /\ levels' = [levels EXCEPT ![name] = level]
    /\ Cardinality({n \in DOMAIN levels' : levels'[n] # Inherit}) <= MaxOverrides
    /\ current' = Overridden(current, levels')
    /\ UNCHANGED <<configured, base, open, call>>

(* SetLevel; Inherit stands for a nil level.                               *)
SetLevel(name, level) ==
    /\ call = NoCall /\ open
    /\ levels' = [levels EXCEPT ![name] = level]
    /\ Cardinality({n \in DOMAIN levels' : levels'[n] # Inherit}) <= MaxOverrides
    /\ current' = Overridden(base, levels')
    /\ UNCHANGED <<configured, base, open, call>>

Replace(o) ==
    /\ call = NoCall /\ open
    /\ configured' = o
    /\ base' = Build(o)
    /\ current' = Overridden(Build(o), levels)
    /\ UNCHANGED <<open, levels, call>>

(* Close keeps the snapshot.                                               *)
Close == /\ call = NoCall /\ open
         /\ open' = FALSE
         /\ UNCHANGED <<configured, base, levels, current, call>>

(* LogAttrs, Handle: verdict is what each filter says of the event.        *)
Log(name, level, verdict, bare) ==
    /\ call = NoCall
    /\ call' = [name |-> name, level |-> level, verdict |-> verdict,
                wrote |-> Writes(current, name, level, verdict, bare)]
    /\ UNCHANGED <<configured, base, open, levels, current>>

Return == /\ call # NoCall
          /\ call' = NoCall
          /\ UNCHANGED <<configured, base, open, levels, current>>

RoutingNext ==
    \/ \E name \in Names \cup {ROOT}, level \in Levels \cup {Inherit} :
          SetLevel(name, level)
    \/ \E o \in Configs : Replace(o)
    \/ Close
    \/ \E name \in Names, level \in Levels, bare \in BOOLEAN,
          verdict \in [Filters -> {"neutral", "accept", "deny"}] :
          Log(name, level, verdict, bare)
    \/ Return

RoutingSpec == RoutingInit /\ [][RoutingNext]_routingVars

-----------------------------------------------------------------------------
TypeOK == /\ configured \in Configs
          /\ open \in BOOLEAN
          /\ levels \in [Names \cup {ROOT} -> Levels \cup {Inherit}]
          /\ call.name \in Names \cup {ROOT}

(* What the configuration says: the level of the longest prefix that has   *)
(* one, a level set at run time before a configured one, else root's.      *)
ExplicitLevel(n) ==
    IF levels[n] # Inherit THEN levels[n]
    ELSE IF \E r \in configured.rules : r.name = n
    THEN (CHOOSE r \in configured.rules : r.name = n).level ELSE Inherit

Leveled(name) == {n \in Names : Matches(name, n) /\ ExplicitLevel(n) # Inherit}

IsNearest(n, prefixes) == n \in prefixes /\ \A m \in prefixes : Len(m) <= Len(n)

(* The level in force for a name is that of its nearest prefix with one,   *)
(* after any sequence of SetLevel, resets and reloads.                     *)
PlanIsNearest ==
    \A name \in Names :
        LET level == PlanFor(current, name).level IN
        /\ \A n \in Names : IsNearest(n, Leveled(name)) => level = ExplicitLevel(n)
        /\ Leveled(name) = {} => level = LevelOr(levels[ROOT], configured.level)

(* Levels change no routing: a name keeps the appenders and filters of its *)
(* nearest configured logger, whatever levels were set in between.         *)
OutputsKept ==
    \A name \in Names :
        LET now == PlanFor(current, name)
            was == PlanFor(Build(configured), name)
        IN  now.appenders = was.appenders /\ now.filters = was.filters

NearestRules(name) ==
    LET matching == {r \in configured.rules : Matches(name, r.name)}
    IN  {r \in matching : \A s \in matching : Len(s.name) <= Len(r.name)}

(* The references an event of this name reaches the appender by.  An       *)
(* additive logger has one at most: the first of its own, before root's.   *)
ReferencesTo(refs, appender) ==
    {[at |-> i, control |-> refs[i]] : i \in {k \in DOMAIN refs : refs[k].to = appender}}

FirstReference(references) == {x \in references : \A y \in references : x.at <= y.at}

ReferencesOf(r, appender) ==
    LET own == ReferencesTo(r.refs, appender)
    IN  IF ~r.additive THEN own
        ELSE IF own # {} THEN FirstReference(own)
        ELSE FirstReference(ReferencesTo(configured.refs, appender))

References(name, appender) ==
    IF NearestRules(name) = {} THEN ReferencesTo(configured.refs, appender)
    ELSE UNION {ReferencesOf(r, appender) : r \in NearestRules(name)}

Chain(name) ==
    IF NearestRules(name) = {} THEN configured.filters
    ELSE LET r == CHOOSE s \in NearestRules(name) : TRUE
         IN  IF r.additive THEN r.filters \o configured.filters ELSE r.filters

Passes == LET accepted == Verdict(configured.global, call.verdict) IN
          /\ accepted # "deny"
          /\ accepted = "accept" \/ call.level >= PlanFor(current, call.name).level
          /\ Verdict(Chain(call.name), call.verdict) # "deny"

(* By the fast path or the other, a call writes an event to every          *)
(* appender once for every reference that lets it pass, and to no other.   *)
DeliveredOnce ==
    call # NoCall =>
        \A a \in Appenders :
            Cardinality({i \in DOMAIN call.wrote : call.wrote[i].to = a}) =
                Cardinality({r \in References(call.name, a) :
                    /\ Passes
                    /\ call.level >= r.control.min
                    /\ Verdict(r.control.filters, call.verdict) # "deny"})
=============================================================================
