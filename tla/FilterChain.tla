---------------------------- MODULE FilterChain ----------------------------
(***************************************************************************)
(* Filters (internal/filter) as a configuration builds them                *)
(* (internal/plugin/filter.go), and callers that run one chain of them at  *)
(* the same time.  A burst filter keeps a token bucket between events, the *)
(* same one in every chain and composite that names it; the others decide  *)
(* from the event alone.                                                   *)
(*                                                                         *)
(* Levels, times of day and tokens are numbers, and Garbled stands for a   *)
(* text that is none.  A pattern, or a text to look for, is the set of the *)
(* texts that match it.  A script filter is made by a program, not from a  *)
(* section, so its decisions are never refused.                            *)
(***************************************************************************)
EXTENDS Integers, Sequences, FiniteSets, TLC, SequencesExt

CONSTANTS
    Callers,      \* goroutines that run the chain
    Configs,      \* functions from filter name to its section; "chain" is the outermost
    Arrivals,     \* [level, attrs, raised, message, logger, markers, stack, thrown, script, time]
    Unset,        \* a number that is not given; the time of an event that has none
    Garbled,      \* what a text that is not a level, a time, a zone or a rate parses to
    Warn, Error,  \* the levels of that name; INFO is 0
    Day,          \* times of day are 0 .. Day - 1
    Unit,         \* rates are in tokens for Unit steps of the clock
    MaxTime,      \* bound: steps of the clock
    MaxEvents     \* bound: events filtered

(* What a configuration says, as far as filters are built from it.  Filters *)
(* it does not have, and circles of them, buildFilters refuses (ConfigLoad).*)
ASSUME FilterAssumption ==
    /\ Unit \in Nat \ {0} /\ Day \in Nat \ {0}
    /\ Unset \in Int /\ Garbled \in Int \ ({Unset, Warn, Error} \cup 0..(Day - 1))
    /\ \A e \in Arrivals : e.time \in Int
    /\ \A configs \in Configs :
         /\ IsFiniteSet(DOMAIN configs)
         /\ "chain" \in DOMAIN configs /\ configs["chain"].kind = "composite"
         /\ \A n \in DOMAIN configs :
              /\ {"kind", "onMatch", "onMismatch", "level", "rate", "burst", "start", "end", "zone",
                   "filters"} \subseteq DOMAIN configs[n]
              /\ configs[n].rate \in Int /\ configs[n].burst \in Int /\ configs[n].zone \in Int
              /\ {configs[n].start, configs[n].end} \subseteq {Unset, Garbled} \cup 0..(Day - 1)
              /\ configs[n].filters \in Seq(DOMAIN configs)
         /\ \E depth \in [DOMAIN configs -> 0..Cardinality(DOMAIN configs)] :
              \A n \in DOMAIN configs : \A m \in ToSet(configs[n].filters) : depth[m] < depth[n]

VARIABLES
    filters,   \* name -> the filter built, or nothing when the configuration is refused
    now,       \* the monotonic clock
    bucket,    \* name -> [tokens, last], tokens in units
    caller,    \* caller -> [event, frames, verdict]: the chains it is in, innermost first
    trace,     \* caller -> the filters that decided on its event, how, and for which moment
    decided,   \* name -> what a burst filter said of limited events: [at, passed]
    filtered   \* events filtered so far

filterVars == <<filters, now, bucket, caller, trace, decided, filtered>>

OrNumber(value, default) == IF value = Unset THEN default ELSE value
OrText(value, default) == IF value = "" THEN default ELSE value
Maps == {"map", "threadContextMap", "structuredData"}

-----------------------------------------------------------------------------
(* Building: the section with its defaults, unless a constructor refuses.  *)
ParseDefault(level) == OrNumber(level, 0)
FilterOptions(c) ==
    [c EXCEPT !.onMatch = OrText(@, "neutral"), !.onMismatch = OrText(@, "deny")]
MapFilterOptions(c) ==
    [c EXCEPT !.values = IF c.key = "" THEN @ ELSE (c.key :> c.value) @@ @]
BuildBurst(c) ==
    LET rate == OrNumber(c.rate, 10 * Unit)
        tenfold == (rate * 10) \div Unit
    IN  [c EXCEPT !.level = OrNumber(@, Warn), !.rate = rate,
                  !.burst = IF @ \notin {Unset, 0} THEN @ ELSE IF tenfold > 0 THEN tenfold ELSE 1]
BuildDynamicThreshold(c) == [c EXCEPT !.level = OrNumber(@, Error)]
BuildTime(c) == [c EXCEPT !.start = OrNumber(@, 0), !.end = OrNumber(@, Day - 1)]

BuildSection(c) ==
    CASE c.kind \in Maps             -> MapFilterOptions(FilterOptions(c))
      [] c.kind = "burst"            -> BuildBurst(FilterOptions(c))
      [] c.kind = "dynamicThreshold" -> BuildDynamicThreshold(FilterOptions(c))
      [] c.kind = "time"             -> BuildTime(FilterOptions(c))
      [] c.kind \in {"threshold", "level"} -> [FilterOptions(c) EXCEPT !.level = ParseDefault(@)]
      [] OTHER                       -> FilterOptions(c)

(* Deny and composite read no decision.  A regular expression that does    *)
(* not compile is Malformed, which is a fine text for the other kinds.     *)
Malformed == {"("}
Patterned == {"regex", "stringMatch", "marker", "threadContextStack", "throwable"}

RefusedDecision(f) ==
    /\ f.kind \notin {"deny", "composite", "script"}
    /\ ~({f.onMatch, f.onMismatch} \subseteq {"neutral", "accept", "deny"})

RefusedNumber(f) ==
    \/ f.kind \in {"threshold", "level", "dynamicThreshold", "burst"} /\ f.level = Garbled
    \/ f.kind = "dynamicThreshold" /\ \E v \in DOMAIN f.thresholds : f.thresholds[v] = Garbled
    \/ f.kind = "levelRange" /\ ({f.low, f.high} \cap {Unset, Garbled} # {} \/ f.low > f.high)
    \/ f.kind = "time" /\ Garbled \in {f.start, f.end, f.zone}
    \/ f.kind = "burst" /\ (f.rate = Garbled \/ f.rate <= 0 \/ f.burst <= 0)

RefusedText(f) ==
    \/ f.kind \in Maps /\ (f.values = <<>> \/ "" \in DOMAIN f.values \/ f.operator \notin {"", "and", "or"})
    \/ f.kind \in Patterned /\ f.pattern = {}
    \/ f.kind \in {"regex", "throwable"} /\ f.pattern = Malformed
    \/ f.kind = "regex" /\ (f.field \notin {"", "message", "logger", "attr"} \/ (f.field = "attr" /\ f.key = ""))
    \/ f.kind \in {"attr", "dynamicThreshold"} /\ f.key = ""
    \/ f.kind = "dynamicThreshold" /\ "" \in DOMAIN f.thresholds
    \/ f.kind = "composite" /\ f.filters = <<>>

RefusedSection(c) ==
    LET f == BuildSection(c) IN RefusedDecision(f) \/ RefusedNumber(f) \/ RefusedText(f)

-----------------------------------------------------------------------------
(* Matching.  Of two attributes with one key the later one counts.         *)
Has(e, key) == \E i \in DOMAIN e.attrs : e.attrs[i][1] = key
Attr(e, key) == Last(SelectSeq(e.attrs, LAMBDA a : a[1] = key))[2]
Holds(e, key, value) == Has(e, key) /\ Attr(e, key) = value

MapMatches(f, e) ==
    IF f.operator = "or" THEN \E k \in DOMAIN f.values : Holds(e, k, f.values[k])
                         ELSE \A k \in DOMAIN f.values : Holds(e, k, f.values[k])

RegexMatches(f, e) ==
    CASE f.field = "attr"   -> Has(e, f.key) /\ Attr(e, f.key) \in f.pattern
      [] f.field = "logger" -> e.logger \in f.pattern
      [] OTHER              -> e.message \in f.pattern

(* The text of the error an event carries: its own, else that of the last  *)
(* attribute which names one and whose value is an error (e.raised has the *)
(* positions of such values), else whatever "error", or "err", says.       *)
ErrorKeys == {"throwable", "error", "err"}
Raised(e) == {i \in DOMAIN e.attrs : i \in e.raised /\ e.attrs[i][1] \in ErrorKeys}
ErrorString(e) ==
    IF e.thrown # "" THEN e.thrown
    ELSE IF Raised(e) # {} THEN e.attrs[Max(Raised(e))][2]
    ELSE IF Has(e, "error") THEN Attr(e, "error")
    ELSE IF Has(e, "err") THEN Attr(e, "err") ELSE ""

Threshold(f, e) == IF Has(e, f.key) /\ Attr(e, f.key) \in DOMAIN f.thresholds
                     THEN f.thresholds[Attr(e, f.key)] ELSE f.level

(* An event without a time is dated when the filter decides.  An interval  *)
(* whose start is after its end goes through midnight.                     *)
Moment(e, at) == OrNumber(e.time, at)
TimeOfDay(f, moment) == (moment + f.zone) % Day
WithoutMidnight(f, t) == t >= f.start /\ t <= f.end
InInterval(f, t) ==
    IF f.start <= f.end THEN t >= f.start /\ t <= f.end ELSE t >= f.start \/ t <= f.end

Matches(f, e) ==
    CASE f.kind = "threshold"          -> e.level >= f.level
      [] f.kind = "level"              -> e.level = f.level
      [] f.kind = "levelRange"         -> e.level \in f.low..f.high
      [] f.kind = "dynamicThreshold"   -> e.level >= Threshold(f, e)
      [] f.kind = "attr"               -> Holds(e, f.key, f.value)
      [] f.kind \in Maps               -> MapMatches(f, e)
      [] f.kind = "regex"              -> RegexMatches(f, e)
      [] f.kind = "stringMatch"        -> e.message \in f.pattern
      [] f.kind = "throwable"          -> ErrorString(e) \in f.pattern
      [] f.kind = "marker"             -> e.markers \cap f.pattern # {}
      [] f.kind = "noMarker"           -> e.markers = {}
      [] f.kind = "threadContextStack" -> \E i \in DOMAIN e.stack : e.stack[i] \in f.pattern
      [] f.kind = "time"               -> InInterval(f, TimeOfDay(f, Moment(e, now)))

(* The bucket of a burst filter, read and written under its mutex.         *)
Least(x, y) == IF x < y THEN x ELSE y
RefillUnclamped(f, b) == b.tokens + (now - b.last) * f.rate
Refill(f, b) == Least(b.tokens + (now - b.last) * f.rate, f.burst * Unit)
Limited(f, e) == e.level <= f.level
Passes(f, b) == Refill(f, b) >= Unit

DecideScript(f, e) == CASE e.script = "error" -> f.onError
                        [] e.script = "true"  -> f.onMatch
                        [] OTHER              -> f.onMismatch

Decide(f, e, b) ==
    CASE f.kind = "deny"   -> "deny"
      [] f.kind = "script" -> DecideScript(f, e)
      [] f.kind = "burst" /\ ~Limited(f, e) -> "neutral"
      [] f.kind = "burst" /\ Limited(f, e)  -> IF Passes(f, b) THEN f.onMatch ELSE f.onMismatch
      [] OTHER -> IF Matches(f, e) THEN f.onMatch ELSE f.onMismatch

-----------------------------------------------------------------------------
FilterInit ==
    \E configs \in Configs :
        /\ filters = IF \E n \in DOMAIN configs : RefusedSection(configs[n]) THEN <<>>
                     ELSE [n \in DOMAIN configs |-> BuildSection(configs[n])]
        /\ now = 0
        /\ bucket = [n \in {m \in DOMAIN filters : filters[m].kind = "burst"} |->
                       [tokens |-> filters[n].burst * Unit, last |-> 0]]
        /\ caller = [c \in Callers |-> [event |-> CHOOSE e \in Arrivals : TRUE, frames |-> <<>>,
                                        verdict |-> "neutral"]]
        /\ trace = [c \in Callers |-> <<>>]
        /\ decided = [n \in DOMAIN bucket |-> <<>>]
        /\ filtered = 0

Tick ==
    /\ now < MaxTime
    /\ now' = now + 1
    /\ UNCHANGED <<filters, bucket, caller, trace, decided, filtered>>

(* Apply of the outermost chain begins.                                    *)
ApplyChain(c, e) ==
    /\ filters # <<>> /\ caller[c].frames = <<>> /\ filtered < MaxEvents
    /\ caller' = [caller EXCEPT ![c] = [event |-> e, frames |-> <<filters["chain"].filters>>,
                                        verdict |-> "neutral"]]
    /\ trace' = [trace EXCEPT ![c] = <<>>]
    /\ filtered' = filtered + 1
    /\ UNCHANGED <<filters, now, bucket, decided>>

(* A chain that runs out answers neutral, and the one around it goes on.   *)
ChainEnds(c) ==
    /\ caller[c].frames # <<>> /\ Head(caller[c].frames) = <<>>
    /\ caller' = [caller EXCEPT ![c].frames = Tail(@)]
    /\ UNCHANGED <<filters, now, bucket, trace, decided, filtered>>

Rest(frames) == <<Tail(Head(frames))>> \o Tail(frames)

EnterComposite(c) ==
    LET frames == caller[c].frames IN
    /\ frames # <<>> /\ Head(frames) # <<>>
    /\ LET f == filters[Head(Head(frames))] IN
         /\ f.kind = "composite"
         /\ caller' = [caller EXCEPT ![c].frames = <<f.filters>> \o Rest(frames)]
    /\ UNCHANGED <<filters, now, bucket, trace, decided, filtered>>

(* One filter decides; what is not neutral ends every chain around it.     *)
EndsOnDeny(verdict) == verdict = "deny"
Ends(verdict) == verdict # "neutral"
After(frames, verdict) == IF Ends(verdict) THEN <<>> ELSE Rest(frames)

DecideNext(c) ==
    LET frames == caller[c].frames
        e == caller[c].event
    IN  /\ frames # <<>> /\ Head(frames) # <<>>
        /\ LET n == Head(Head(frames))
               f == filters[n]
               b == IF n \in DOMAIN bucket THEN bucket[n] ELSE <<>>
               verdict == Decide(f, e, b)
           IN  /\ f.kind # "composite"
               /\ caller' = [caller EXCEPT ![c] = [event |-> e, frames |-> After(frames, verdict), verdict |-> verdict]]
               /\ trace' = [trace EXCEPT ![c] = Append(@, <<n, verdict, Moment(e, now)>>)]
               /\ IF n \in DOMAIN bucket /\ Limited(f, e)
                    THEN /\ bucket' = [bucket EXCEPT ![n] =
                                [tokens |-> IF Passes(f, b) THEN Refill(f, b) - Unit ELSE Refill(f, b), last |-> now]]
                         /\ decided' = [decided EXCEPT ![n] = Append(@, [at |-> now, passed |-> Passes(f, b)])]
                    ELSE UNCHANGED <<bucket, decided>>
        /\ UNCHANGED <<filters, now, filtered>>

FilterNext ==
    \/ Tick
    \/ \E c \in Callers, e \in Arrivals : ApplyChain(c, e)
    \/ \E c \in Callers : ChainEnds(c) \/ EnterComposite(c) \/ DecideNext(c)

FilterSpec == FilterInit /\ [][FilterNext]_filterVars

-----------------------------------------------------------------------------
(* docs/filters.md, Token bucket: of the limited events that reach a burst *)
(* filter, whichever chains and callers bring them, one passes exactly     *)
(* when no stretch of time up to it has already passed all that maxBurst   *)
(* and rate allow for that stretch (internal/filter/burst.go:45).          *)
Used(n, i, j) == Cardinality({k \in i..(j - 1) : decided[n][k].passed}) * Unit
BucketIsExact ==
    \A n \in DOMAIN decided : \A j \in DOMAIN decided[n] :
        decided[n][j].passed <=>
            \A i \in 1..j : Used(n, i, j) + Unit <=
                filters[n].burst * Unit + filters[n].rate * (decided[n][j].at - decided[n][i].at)

(* docs/filters.md:29: the first DENY or ACCEPT terminates the chain, the  *)
(* one of a composite the chain it is in too.  What a caller is answered   *)
(* is what the composites written out in place would have answered, each   *)
(* filter asked once and in order, while other callers are in the same     *)
(* chain; and a time filter matches what comes, walking forward from its   *)
(* start, no later than its end, an event without a time being dated when  *)
(* the filter was asked.                                                   *)
Flat ==
    LET flat[n \in DOMAIN filters] ==
          FlattenSeq([i \in DOMAIN filters[n].filters |->
                        LET m == filters[n].filters[i]
                        IN  IF filters[m].kind = "composite" THEN flat[m] ELSE <<m>>])
    IN  flat["chain"]

MeantByTime(f, moment) == (TimeOfDay(f, moment) - f.start) % Day <= (f.end - f.start) % Day

VerdictIsMeant ==
    filters # <<>> => \A c \in Callers :
        LET t == trace[c]
            flat == Flat
        IN  /\ Len(t) <= Len(flat) /\ \A i \in DOMAIN t : t[i][1] = flat[i]
            /\ \A i \in 1..(Len(t) - 1) : t[i][2] = "neutral"
            /\ \A i \in DOMAIN t : filters[t[i][1]].kind = "time" =>
                 LET f == filters[t[i][1]] IN
                 t[i][2] = IF MeantByTime(f, t[i][3]) THEN f.onMatch ELSE f.onMismatch
            /\ caller[c].frames = <<>> /\ t # <<>> =>
                 /\ caller[c].verdict = Last(t)[2]
                 /\ Last(t)[2] = "neutral" => Len(t) = Len(flat)

=============================================================================
