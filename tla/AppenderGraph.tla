--------------------------- MODULE AppenderGraph ---------------------------
(***************************************************************************)
(* Appenders that write through other appenders: async, failover, routing  *)
(* and rewrite (internal/delegating, internal/asyncappender), each behind  *)
(* an optional filter (router.FilteredAppender).  internal/configfile      *)
(* builds the graph from named specifications in dependency order; code    *)
(* builds it by hand and hands only its top to the handler.                *)
(*                                                                         *)
(* An event is told apart by its routing key only.  The queue of an async  *)
(* appender is unbounded here (AsyncPipeline has the bounded one).         *)
(***************************************************************************)
EXTENDS Integers, Sequences, FiniteSets, SequencesExt, FiniteSetsExt

CONSTANTS
    Names,        \* appender names: numbers, in the order of SortedKeys
    Unknown,      \* a name no specification has
    Keys,         \* values of the routing attribute
    RewrittenKey, \* the value every rewrite appender gives the attribute
    Events,
    KeyOf,        \* event -> its key
    Graphs,       \* the specifications to consider: [name -> spec]
    CodeGraphs,   \* those built by code: [spec, top]
    Titles        \* name -> what Name() answers, of a graph built by code

(* A spec is [kind, refs, deny, closes]: deny is the key its filter denies *)
(* (or no key at all), closes is WithCloseChildren.  A reference is        *)
(* [to, deny, control]: with control it has a level or filters of its own. *)

VARIABLES
    spec,      \* name -> specification
    source,    \* "config" or "code"
    title,     \* name -> Name()
    fault,     \* [at, how]: the step of the build that fails
    broken,    \* sinks whose destination answers every write with an error
    phase,     \* concrete, composite, options, ready, closing, closed
    failed,    \* the build answered an error
    pass,      \* names this pass over the specifications still visits
    remaining, \* composites this pass left waiting
    progress,  \* this pass built one
    list,      \* appenders, in the order built
    closes,    \* name -> Close calls that reached it
    toClose,   \* Close calls of CloseAppenders still to come
    queue,     \* async appender -> [event, key] accepted and not handed on
    written,   \* <<sink, event>> -> copies written
    taken      \* event -> [answer, by]: what Append answered, which appender

buildVars == <<phase, failed, pass, remaining, progress, list>>
inputVars == <<spec, source, title, fault, broken>>
flowVars  == <<queue, written, taken>>
graphVars == <<inputVars, buildVars, closes, toClose, flowVars>>

Composites == {"async", "failover", "routing", "rewrite"}
IsComposite(n) == spec[n].kind \in Composites
IsAsync(n) == spec[n].kind = "async"

ASSUME GraphAssumption == /\ Names \subseteq Int /\ IsFiniteSet(Names)
                          /\ Unknown \notin Names
                          /\ RewrittenKey \in Keys /\ KeyOf \in [Events -> Keys]

(* References come in a list; configuration has no option that makes an    *)
(* appender close its delegates.                                           *)
ASSUME SpecAssumption ==
    /\ \A g \in Graphs \cup {c.spec : c \in CodeGraphs}, n \in Names :
         /\ g[n].kind \in Composites \cup {"sink"}
         /\ DOMAIN g[n].refs \subseteq Nat /\ IsFiniteSet(DOMAIN g[n].refs)
    /\ \A g \in Graphs, n \in Names : g[n].closes = FALSE

(* Code has made an appender before it makes the one that refers to it, so *)
(* every set of appenders has one that refers to none of them.  Nothing    *)
(* keeps two of them from having one title: the constructors' defaults are *)
(* the same for each of a kind.                                            *)
ASSUME CodeAssumption ==
    \A c \in CodeGraphs :
      /\ c.top \in Names
      /\ \A n \in Names : \A i \in DOMAIN c.spec[n].refs : c.spec[n].refs[i].to \in Names
      /\ \A S \in (SUBSET Names) \ {{}} : \E n \in S :
            \A i \in DOMAIN c.spec[n].refs : c.spec[n].refs[i].to \notin S

(* The elements of s at these places, in their order.                      *)
Sublist(s, places) ==
    LET order == CHOOSE o \in [1..Cardinality(places) -> places] :
                   \A i, j \in DOMAIN o : i < j => o[i] < o[j]
    IN  [k \in DOMAIN order |-> s[order[k]]]

(* appenderRefs.strings: a reference with controls of its own is left to   *)
(* controls, which only async appenders read.                              *)
PlainRefs(refs) == Sublist(refs, {i \in DOMAIN refs : ~refs[i].control})
ControlRefs(refs) == Sublist(refs, {i \in DOMAIN refs : refs[i].control})
Delegates(n) ==
    IF IsComposite(n) THEN PlainRefs(spec[n].refs)
                             \o (IF IsAsync(n) THEN ControlRefs(spec[n].refs) ELSE <<>>)
                      ELSE <<>>
Children(n) == {r.to : r \in ToSet(Delegates(n))}

(* How many references each kind asks for.                                 *)
EnoughRefs(n) == LET count == Len(Delegates(n))
                 IN  CASE spec[n].kind = "async"    -> count >= 1
                       [] spec[n].kind = "failover" -> count >= 2
                       [] spec[n].kind = "rewrite"  -> count = 1
                       [] spec[n].kind = "routing"  -> TRUE
                       [] OTHER                     -> TRUE

-----------------------------------------------------------------------------
(* Where an event with key k, given to appender n, ends: ok says Append    *)
(* answers no error, at is the sink that writes it or the async appender   *)
(* that queues it (none when a filter or a route drops it).  shut are the  *)
(* appenders that are closed.                                              *)
Dropped(k) == [ok |-> TRUE, at |-> Unknown, key |-> k]
Refused(k) == [ok |-> FALSE, at |-> Unknown, key |-> k]

FailoverAppend(landings, k) ==
    LET good == {i \in DOMAIN landings : landings[i].ok}
    IN  IF good = {} THEN Refused(k) ELSE landings[Min(good)]

(* The first reference is the route of the first key, the second one the   *)
(* default; further ones are routes of keys that no event has.             *)
RoutingAppend(landings, k) ==
    LET route == IF k = Min(Keys) THEN 1 ELSE 2
    IN  IF route \in DOMAIN landings THEN landings[route] ELSE Dropped(k)

(* The policy of a rewrite appender: additions come after what is kept, so *)
(* the key they set is the one the event has.                              *)
Rewrite(k) == RewrittenKey
RewriteAppend(landings) == landings[1]

Landing(shut) ==
    LET land[n \in Names] ==
          LET through(key) == [i \in DOMAIN Delegates(n) |-> land[Delegates(n)[i].to][key]]
          IN  [k \in Keys |->
                CASE spec[n].deny = k          -> Dropped(k)
                  [] spec[n].deny # k /\ spec[n].kind = "sink" ->
                       IF n \in shut \cup broken THEN Refused(k)
                       ELSE [ok |-> TRUE, at |-> n, key |-> k]
                  [] spec[n].deny # k /\ spec[n].kind = "async" ->
                       IF n \in shut THEN Refused(k) ELSE [ok |-> TRUE, at |-> n, key |-> k]
                  [] spec[n].deny # k /\ spec[n].kind = "failover" -> FailoverAppend(through(k), k)
                  [] spec[n].deny # k /\ spec[n].kind = "routing" -> RoutingAppend(through(k), k)
                  [] spec[n].deny # k /\ spec[n].kind = "rewrite" -> RewriteAppend(through(Rewrite(k)))]
    IN  land

Shut == {n \in Names : closes[n] > 0}

-----------------------------------------------------------------------------
NothingYet == /\ closes = [n \in Names |-> 0]
              /\ toClose = <<>>
              /\ queue = [n \in Names |-> <<>>]
              /\ written = [s \in Names \X Events |-> 0]
              /\ taken = [e \in Events |-> [answer |-> "none", by |-> Unknown]]
              /\ failed = FALSE
              /\ remaining = <<>>
              /\ progress = FALSE

NoFault == [at |-> Unknown, how |-> "none"]
Faults == {NoFault, [at |-> Unknown, how |-> "options"]}
             \cup [at : Names, how : {"factory", "filter"}]

(* Every name once, in their order.                                        *)
SortedKeys == {s \in [1..Cardinality(Names) -> Names] :
                 /\ \A i, j \in DOMAIN s : i < j => s[i] < s[j]
                 /\ ToSet(s) = Names}

InitConfig == /\ source = "config"
              /\ spec \in Graphs
              /\ title = [n \in Names |-> n]
              /\ fault \in Faults
              /\ broken \in {b \in SUBSET {n \in Names : ~IsComposite(n)} :
                               Cardinality(b) <= 1 /\ (fault # NoFault => b = {})}
              /\ phase = "concrete"
              /\ pass \in SortedKeys
              /\ list = <<>>

InitCode == /\ source = "code"
            /\ \E g \in CodeGraphs : spec = g.spec /\ list = <<g.top>>
            /\ title \in Titles
            /\ fault = NoFault
            /\ broken = {}
            /\ phase = "ready"
            /\ pass = <<>>

GraphInit == NothingYet /\ (InitConfig \/ InitCode)

CloseOrderAsBuilt(appenders) == appenders

(* CloseAppenders: the async appenders first, each list in build order;    *)
(* what is closed as async is not closed again.                            *)
CloseOrder(appenders) ==
    LET async == {i \in DOMAIN appenders : IsAsync(appenders[i])}
    IN  Sublist(appenders, async) \o Sublist(appenders, (DOMAIN appenders) \ async)

BeginClose == /\ phase' = "closing"
              /\ toClose' = CloseOrder(list)

FailBuild == failed' = TRUE /\ BeginClose

CloseUnlistedNever(n) == UNCHANGED closes

(* wrapAppenderFilters failed: the appender just made is in no list.       *)
CloseUnlisted(n) == closes' = [closes EXCEPT ![n] = @ + 1]

(* The factory makes the appender (NewRoutingAppender wants a route or a   *)
(* default), then its filters are resolved and wrapped around it.          *)
FactoryMakes(n) ==
    /\ fault # [at |-> n, how |-> "factory"]
    /\ spec[n].kind = "routing" => Delegates(n) # <<>>
Wrapped(n) == fault # [at |-> n, how |-> "filter"]

-----------------------------------------------------------------------------
(* buildAppenders, first loop: the appenders that refer to no other.       *)
BuildConcrete ==
    /\ phase = "concrete"
    /\ pass # <<>>
    /\ ~IsComposite(Head(pass))
    /\ fault.at # Head(pass)
    /\ list' = Append(list, Head(pass))
    /\ pass' = Tail(pass)
    /\ UNCHANGED <<inputVars, phase, failed, remaining, progress, closes, toClose, flowVars>>

DeferComposite ==
    /\ phase = "concrete"
    /\ pass # <<>>
    /\ IsComposite(Head(pass))
    /\ remaining' = Append(remaining, Head(pass))
    /\ pass' = Tail(pass)
    /\ UNCHANGED <<inputVars, phase, failed, progress, list, closes, toClose, flowVars>>

(* No such layout or type, or the factory or the filters answer an error.  *)
FailConcrete ==
    /\ phase = "concrete"
    /\ pass # <<>>
    /\ ~IsComposite(Head(pass))
    /\ fault.at = Head(pass)
    /\ IF FactoryMakes(Head(pass)) THEN CloseUnlisted(Head(pass)) ELSE UNCHANGED closes
    /\ FailBuild
    /\ UNCHANGED <<inputVars, pass, remaining, progress, list, flowVars>>

Missing(n) == {i \in DOMAIN Delegates(n) : Delegates(n)[i].to \notin ToSet(list)}

ResolutionsInOrder(n) ==
    {IF EnoughRefs(n) /\ Missing(n) = {} THEN "built" ELSE "error"}

(* resolveCompositeAppenderRefs: the first reference not built yet decides.*)
(* resolveRoutingRoutes takes the routes in the order of a Go map, any of  *)
(* them may be the first, and then the default.                            *)
Deciding(n) ==
    IF spec[n].kind = "routing" /\ Missing(n) \ {2} # {} THEN Missing(n) \ {2}
    ELSE {i \in Missing(n) : \A j \in Missing(n) : i <= j}

Resolutions(n) ==
    IF ~EnoughRefs(n) THEN {"error"}
    ELSE IF Missing(n) = {} THEN {"built"}
    ELSE {IF Delegates(n)[i].to \in Names THEN "waiting" ELSE "error" : i \in Deciding(n)}

(* buildAppenders, second loop: buildCompositeAppender on the next name.   *)
BuildComposite ==
    /\ phase = "composite"
    /\ pass # <<>>
    /\ "built" \in Resolutions(Head(pass))
    /\ FactoryMakes(Head(pass)) /\ Wrapped(Head(pass))
    /\ list' = Append(list, Head(pass))
    /\ progress' = TRUE
    /\ pass' = Tail(pass)
    /\ UNCHANGED <<inputVars, phase, failed, remaining, closes, toClose, flowVars>>

WaitForRefs ==
    /\ phase = "composite"
    /\ pass # <<>>
    /\ "waiting" \in Resolutions(Head(pass))
    /\ remaining' = Append(remaining, Head(pass))
    /\ pass' = Tail(pass)
    /\ UNCHANGED <<inputVars, phase, failed, progress, list, closes, toClose, flowVars>>

FailComposite ==
    /\ phase = "composite"
    /\ pass # <<>>
    /\ \/ "error" \in Resolutions(Head(pass))
       \/ "built" \in Resolutions(Head(pass)) /\ ~(FactoryMakes(Head(pass)) /\ Wrapped(Head(pass)))
    /\ IF "built" \in Resolutions(Head(pass)) /\ FactoryMakes(Head(pass))
         THEN CloseUnlisted(Head(pass))
         ELSE UNCHANGED closes
    /\ FailBuild
    /\ UNCHANGED <<inputVars, pass, remaining, progress, list, flowVars>>

NextPass ==
    /\ phase \in {"concrete", "composite"}
    /\ pass = <<>>
    /\ remaining # <<>>
    /\ phase = "concrete" \/ progress
    /\ phase' = "composite"
    /\ pass' = remaining
    /\ remaining' = <<>>
    /\ progress' = FALSE
    /\ UNCHANGED <<inputVars, failed, list, closes, toClose, flowVars>>

FailUnresolved ==
    /\ phase = "composite"
    /\ pass = <<>>
    /\ remaining # <<>>
    /\ ~progress
    /\ FailBuild
    /\ UNCHANGED <<inputVars, pass, remaining, progress, list, closes, flowVars>>

(* options(): the filters, levels and references of the loggers come after *)
(* the appenders; an error there closes every appender.                    *)
FinishOptions ==
    /\ phase \in {"concrete", "composite"}
    /\ pass = <<>>
    /\ remaining = <<>>
    /\ IF fault.how = "options"
         THEN FailBuild
         ELSE phase' = "ready" /\ UNCHANGED <<failed, toClose>>
    /\ UNCHANGED <<inputVars, pass, remaining, progress, list, closes, flowVars>>

-----------------------------------------------------------------------------
Deliver(e, landing) ==
    IF landing.ok /\ landing.at # Unknown
      THEN IF IsAsync(landing.at)
             THEN /\ queue' = [queue EXCEPT ![landing.at] =
                                  Append(@, [event |-> e, key |-> landing.key])]
                  /\ UNCHANGED written
             ELSE /\ written' = [written EXCEPT ![<<landing.at, e>>] = @ + 1]
                  /\ UNCHANGED queue
      ELSE UNCHANGED <<queue, written>>

(* A logger that refers to n logs e.                                       *)
Log(e, n) ==
    /\ phase = "ready"
    /\ taken[e].answer = "none"
    /\ n \in ToSet(list)
    /\ LET landing == Landing(Shut)[n][KeyOf[e]]
       IN  /\ taken' = [taken EXCEPT ![e] =
                            [answer |-> IF landing.ok THEN "ok" ELSE "error", by |-> n]]
           /\ Deliver(e, landing)
    /\ UNCHANGED <<inputVars, buildVars, closes, toClose>>

(* The worker of async appender a: appendSync hands the event to every     *)
(* delegate in turn, whatever the others answer.                           *)
HandOn(a) ==
    /\ queue[a] # <<>>
    /\ LET item     == Head(queue[a])
           passing  == {i \in DOMAIN Delegates(a) : Delegates(a)[i].deny # item.key}
           landings == [i \in passing |-> Landing(Shut)[Delegates(a)[i].to][item.key]]
           landed(b) == {i \in passing : landings[i].ok /\ landings[i].at = b}
           arrivals == [i \in passing |-> [event |-> item.event, key |-> landings[i].key]]
       IN  /\ queue' = [b \in Names |->
                          IF b = a THEN Tail(queue[a])
                          ELSE IF IsAsync(b) THEN queue[b] \o Sublist(arrivals, landed(b))
                          ELSE queue[b]]
           /\ written' = [s \in Names \X Events |->
                            IF s[2] = item.event /\ ~IsAsync(s[1])
                              THEN written[s] + Cardinality(landed(s[1])) ELSE written[s]]
    /\ UNCHANGED <<inputVars, buildVars, closes, toClose, taken>>

-----------------------------------------------------------------------------
(* closeUniqueAppenders: of the delegates with one title only the first,   *)
(* where a routing appender puts its default before the routes.  The       *)
(* routes are a map, so which of two with one title comes first is open in *)
(* the code; here it is the lower one.                                     *)
ClosePlace(n, i) == IF spec[n].kind = "routing" /\ i = 2 THEN 0 ELSE i
UniqueDelegates(n) ==
    {i \in DOMAIN Delegates(n) :
       \A j \in DOMAIN Delegates(n) :
          ClosePlace(n, j) < ClosePlace(n, i) =>
              title[Delegates(n)[j].to] # title[Delegates(n)[i].to]}

(* WithFailoverCloseChildren and its like.  Code closes the delegates of   *)
(* failover and rewrite by default, those of routing on demand;            *)
(* configuration never does.                                               *)
ClosesDelegates(n) == spec[n].closes

(* The Close calls one Close of n makes, its own included.                 *)
CloseCalls ==
    LET calls[n \in Names] ==
          [m \in Names |->
             (IF m = n THEN 1 ELSE 0)
               + (IF ClosesDelegates(n)
                    THEN SumFunction([i \in UniqueDelegates(n) |-> calls[Delegates(n)[i].to][m]])
                    ELSE 0)]
    IN  calls

StartClose == /\ phase = "ready"
              /\ BeginClose
              /\ UNCHANGED <<inputVars, failed, pass, remaining, progress, list, closes,
                             flowVars>>

(* Close of an async appender returns once its worker has drained.         *)
Drained == \A n \in Names : n \in Shut => queue[n] = <<>>

CloseNext ==
    /\ phase = "closing"
    /\ toClose # <<>>
    /\ Drained
    /\ closes' = [m \in Names |-> closes[m] + CloseCalls[Head(toClose)][m]]
    /\ toClose' = Tail(toClose)
    /\ UNCHANGED <<inputVars, buildVars, flowVars>>

EndClose == /\ phase = "closing"
            /\ toClose = <<>>
            /\ Drained
            /\ phase' = "closed"
            /\ UNCHANGED <<inputVars, failed, pass, remaining, progress, list, closes,
                           toClose, flowVars>>

BuildStep ==
    \/ BuildConcrete \/ DeferComposite \/ FailConcrete
    \/ BuildComposite \/ WaitForRefs \/ FailComposite
    \/ NextPass \/ FailUnresolved \/ FinishOptions

GraphNext ==
    \/ BuildStep
    \/ \E e \in Events, n \in Names : Log(e, n)
    \/ \E a \in Names : HandOn(a)
    \/ StartClose
    \/ CloseNext
    \/ EndClose

GraphSpec == GraphInit /\ [][GraphNext]_graphVars

-----------------------------------------------------------------------------
(* Nothing cyclic: every set of names has one that refers to none of them. *)
WellFounded == \A S \in (SUBSET Names) \ {{}} : \E n \in S : Children(n) \cap S = {}

Buildable == /\ fault = NoFault
             /\ WellFounded
             /\ \A n \in Names : /\ EnoughRefs(n)
                                 /\ Children(n) \subseteq Names
                                 /\ spec[n].kind = "routing" => Delegates(n) # <<>>

Position(n) == CHOOSE i \in DOMAIN list : list[i] = n

(* A configuration is built exactly when its references are known, enough  *)
(* and free of cycles, whatever the order of the names; every appender     *)
(* stands in the list after those it refers to (config_appender_methods.go *)
(* buildAppenders, its passes over what still waits).                      *)
BuildsWhatItCan ==
    source = "config" =>
      /\ phase = "ready" => Buildable /\ ToSet(list) = Names
      /\ failed => ~Buildable
      /\ \A n \in ToSet(list) : \A m \in Children(n) :
            m \in ToSet(list) /\ Position(m) < Position(n)

(* The appenders that close their delegates and have n among them; those   *)
(* of them that have no other delegate with its title.                     *)
Owners(n) == {p \in Names : spec[p].closes /\ n \in Children(p)}
SoleOwners(n) == {p \in Owners(n) : \A m \in Children(p) : title[m] = title[n] => m = n}

(* What the build opened: the list, and the appender whose filters failed. *)
Opened == ToSet(list) \cup
            {n \in Names : /\ failed /\ pass # <<>> /\ n = Head(pass)
                           /\ FactoryMakes(n)
                           /\ IsComposite(n) => "built" \in Resolutions(n)}

(* When all is closed nothing stays open.  What a configuration opened is  *)
(* closed exactly once, also after a build that failed half-way, and not   *)
(* again for what is async (config_appender_methods.go closeAppenderList,  *)
(* router/lifecycle.go close).  In a graph made by code each Close of an   *)
(* appender that owns a delegate closes it once, however often it names    *)
(* it, so a delegate of two owners is closed once by each of them          *)
(* (delegating.go closeUniqueAppenders).  One exception: of an owner's     *)
(* delegates with one title - two of one kind left with their default name *)
(* - only one is sure of a Close; the others may stay open.                *)
NothingStaysOpen ==
    phase = "closed" =>
      \A n \in Names :
        IF source = "config" THEN closes[n] = IF n \in Opened THEN 1 ELSE 0
        ELSE LET asked == IF n = list[1] THEN 1 ELSE 0
             IN  /\ asked + SumFunctionOnSet(closes, SoleOwners(n)) <= closes[n]
                 /\ closes[n] <= asked + SumFunctionOnSet(closes, Owners(n))
                 /\ \A p \in Owners(n) : \E m \in Children(p) :
                       title[m] = title[n] /\ closes[p] <= closes[m]

(* What an appender accepts is written: to the sinks that filters, routes, *)
(* rewrites and failovers choose for it, once for each path there is,      *)
(* whatever worker carries it and whenever Close comes (appendSync of      *)
(* asyncappender/worker.go, close of router/lifecycle.go: async appenders  *)
(* before what they write to).  Only an async appender that writes to      *)
(* another async appender is outside this promise: the inner one, first in *)
(* the list, is closed first and refuses what the outer one still drains.  *)
Expected ==
    LET copies[n \in Names] ==
          [k \in Keys |-> [s \in Names |->
             LET landing == Landing({})[n][k]
                 heirs   == {i \in DOMAIN Delegates(landing.at) :
                               Delegates(landing.at)[i].deny # landing.key}
             IN  IF ~landing.ok \/ landing.at = Unknown THEN 0
                 ELSE IF ~IsAsync(landing.at) THEN IF landing.at = s THEN 1 ELSE 0
                 ELSE SumFunction([i \in heirs |->
                        copies[Delegates(landing.at)[i].to][landing.key][s]])]]
    IN  copies

AsyncFeedsAsync ==
    \E a \in Names : /\ IsAsync(a)
                     /\ \E m \in Children(a), k \in Keys :
                          LET at == Landing({})[m][k].at IN at # Unknown /\ IsAsync(at)

AcceptedIsWritten ==
    phase = "closed" /\ source = "config" /\ ~failed =>
      \A e \in Events, s \in Names :
        /\ taken[e].answer = "ok" /\ ~AsyncFeedsAsync =>
              written[<<s, e>>] = Expected[taken[e].by][KeyOf[e]][s]
        /\ taken[e].answer # "ok" => written[<<s, e>>] = 0
=============================================================================
