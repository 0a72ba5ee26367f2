--------------------------- MODULE RollingHelpers ---------------------------
(***************************************************************************)
(* internal/rolling, what the rolling file appender asks: when is the next *)
(* rollover by time (schedule.go, cron.go), and which files does a delete  *)
(* action remove (delete.go).                                              *)
(*                                                                         *)
(* Time is counted in ticks, two to a second, from the zero time; an event *)
(* may be older than one written before it.  The calendar is scaled down:  *)
(* of a cron expression there are the seconds and the weekdays, the other  *)
(* fields are like the seconds.  File names are numbers, in their order.   *)
(***************************************************************************)
EXTENDS Integers, Sequences, FiniteSets, SequencesExt

CONSTANTS
    Policies,     \* [interval, modulate, zone, cron] to consider
    Minute,       \* seconds in a minute
    DayLength,    \* seconds in a day
    Week,         \* days in a week, and the second number of Sunday
    Horizon,      \* maxCronSearchSeconds
    MaxTick,      \* bound: the time of events
    Listing,      \* file -> [depth, matches]: what is under basePath
    Sweeps,       \* delete actions: [maxDepth, maxAge, maxCount, maxSize]
    MaxSize,      \* bound: the size of a file
    MaxSweeps,    \* bound: delete actions that run
    MaxTouches    \* bound: writes between delete actions

Never == -1
Instants == 0..MaxTick
Names0 == DOMAIN Listing

ASSUME HelpersAssumption ==
    /\ Minute \in Nat \ {0} /\ DayLength \in Nat \ {0} /\ Week \in Nat \ {0}
    /\ Horizon \in Nat /\ MaxTick \in Nat /\ MaxSize \in Nat
    /\ MaxSweeps \in Nat /\ MaxTouches \in Nat
    /\ \A p \in Policies : p.interval \in Nat /\ p.modulate \in BOOLEAN /\ p.zone \in Int
    /\ DOMAIN Listing \subseteq Nat /\ IsFiniteSet(DOMAIN Listing)
    /\ Sweeps \subseteq [maxDepth : Nat, maxAge : Nat, maxCount : Nat, maxSize : Nat]

VARIABLES
    policy,        \* the interval and the cron expression in force
    opened,        \* the time by which the file was opened
    nextRollover, nextCron,
    lastEvent,     \* the time of the last event in the file
    present,       \* the files there are
    mtime, size,   \* of each file
    wall,          \* the clock of a delete action
    touches,
    sweeps,        \* history: delete actions that ran
    stuck          \* history: files the last one could not remove

scheduleVars == <<policy, opened, nextRollover, nextCron, lastEvent>>
sweepVars    == <<present, mtime, size, wall, touches, sweeps, stuck>>
helperVars   == <<scheduleVars, sweepVars>>

-----------------------------------------------------------------------------
(* parseCronField: "*" and "?", a range, or one value, which with a step   *)
(* goes on to the end.                                                     *)
PartValues(part, last) ==
    LET end == CASE part.form = "all" -> last
                 [] part.form = "range" -> part.to
                 [] part.form = "one" -> IF part.step > 1 THEN last ELSE part.from
    IN  {v \in part.from..end : (v - part.from) % part.step = 0}

Field(parts, last) == UNION {PartValues(part, last) : part \in parts}

(* CronSchedule.matches; Sunday is 0 and 7.                                *)
Fires(cron, second) ==
    LET weekday == (second \div DayLength) % Week
        allowed == Field(cron.weekdays, Week)
    IN  /\ second % Minute \in Field(cron.seconds, Minute - 1)
        /\ weekday \in allowed \/ (weekday = 0 /\ Week \in allowed)

(* Mutant: the second of the event is searched too.                        *)
NextCronHere(cron, now) ==
    LET found == {s \in (now \div 2)..(now \div 2 + Horizon) : Fires(cron, s)}
    IN  IF found = {} THEN Never ELSE 2 * Min(found)

(* The first match after the second now is in; none within the horizon is  *)
(* no rollover.                                                            *)
NextCron(cron, now) ==
    LET found == {s \in (now \div 2 + 1)..(now \div 2 + Horizon) : Fires(cron, s)}
    IN  IF found = {} THEN Never ELSE 2 * Min(found)

(* NextRolloverAfter: a day begins at midnight of the zone, every other    *)
(* interval at a multiple of itself, unless it is not modulated.           *)
NextInterval(p, now) ==
    CASE p.interval = 0 -> Never
      [] p.interval # 0 /\ ~p.modulate -> now + p.interval
      [] p.interval = 2 * DayLength /\ p.modulate ->
            ((now + p.zone) \div p.interval + 1) * p.interval - p.zone
      [] OTHER -> (now \div p.interval + 1) * p.interval

OpenAt(now) ==
    /\ opened' = now
    /\ nextRollover' = NextInterval(policy, now)
    /\ nextCron' = IF policy.cron.seconds = {} THEN Never ELSE NextCron(policy.cron, now)

(* Mutant: an event at the boundary itself still goes to the old file.     *)
DueAfter(now) == \/ nextRollover # Never /\ now > nextRollover
                 \/ nextCron # Never /\ now > nextCron

(* shouldRollover, by time.                                                *)
Due(now) == \/ nextRollover # Never /\ now >= nextRollover
            \/ nextCron # Never /\ now >= nextCron

(* Append: a file that is full is rolled over too.                         *)
Arrive(now, full) == /\ IF Due(now) \/ full THEN OpenAt(now)
                        ELSE UNCHANGED <<opened, nextRollover, nextCron>>
                     /\ lastEvent' = now
                     /\ UNCHANGED <<policy, sweepVars>>

-----------------------------------------------------------------------------
(* DeleteArchivesByAction: files that match, not below maxDepth; 0 is 1.   *)
Candidates(action) ==
    {f \in present : /\ Listing[f].matches
                     /\ Listing[f].depth <= (IF action.maxDepth = 0 THEN 1 ELSE action.maxDepth)}

Older(action, f) == action.maxAge > 0 /\ mtime[f] < wall - action.maxAge

(* Mutant: by name alone.                                                  *)
LaterByName(f, g) == f > g

Later(f, g) == mtime[f] > mtime[g] \/ (mtime[f] = mtime[g] /\ f > g)

(* The candidates from the latest to the earliest.                         *)
InLine(found) == CHOOSE line \in [1..Cardinality(found) -> found] :
                   \A i, j \in DOMAIN line : i < j => Later(line[i], line[j])

(* deleteArchiveCandidates: what is too old, and what the limits reach,    *)
(* counted from the latest and over the old ones too.                      *)
Condemned(action) ==
    LET found  == Candidates(action)
        line   == InLine(found)
        sum[i \in 0..Len(line)] == IF i = 0 THEN 0 ELSE sum[i - 1] + size[line[i]]
    IN  {f \in found : Older(action, f)}
        \cup {line[i] : i \in {k \in DOMAIN line : action.maxCount > 0 /\ k > action.maxCount}}
        \cup {line[i] : i \in {k \in DOMAIN line : action.maxSize > 0 /\ sum[k] > action.maxSize}}

(* A file that cannot be removed stays, the others go.                     *)
Sweep(action) ==
    \E locked \in SUBSET Condemned(action) :
        /\ Cardinality(locked) <= 1
        /\ present' = present \ (Condemned(action) \ locked)
        /\ stuck' = locked
        /\ sweeps' = Append(sweeps, action)
        /\ UNCHANGED <<scheduleVars, mtime, size, wall, touches>>

(* Others write files, new and old ones, and time passes.                  *)
Touch(f) == /\ touches < MaxTouches
            /\ touches' = touches + 1
            /\ wall' \in wall..(wall + 1)
            /\ present' = present \cup {f}
            /\ mtime' = [mtime EXCEPT ![f] = wall']
            /\ size' = [size EXCEPT ![f] = IF f \in present THEN (@ + 1) % (MaxSize + 1) ELSE 1]
            /\ UNCHANGED <<scheduleVars, sweeps, stuck>>

ScheduleIdle == /\ policy = [interval |-> 0, modulate |-> FALSE, zone |-> 0,
                             cron |-> [seconds |-> {}, weekdays |-> {}]]
                /\ opened = 0 /\ nextRollover = Never /\ nextCron = Never /\ lastEvent = 0

SweepIdle == /\ present = {} /\ mtime = [f \in Names0 |-> 0] /\ size = [f \in Names0 |-> 0]
             /\ wall = 0 /\ touches = 0 /\ sweeps = <<>> /\ stuck = {}

ScheduleInit == /\ policy \in Policies
                /\ opened \in Instants
                /\ nextRollover = NextInterval(policy, opened)
                /\ nextCron = IF policy.cron.seconds = {} THEN Never
                              ELSE NextCron(policy.cron, opened)
                /\ lastEvent = opened

SweepInit == /\ present = Names0
             /\ mtime \in [Names0 -> 0..1] /\ size \in [Names0 -> 0..MaxSize]
             /\ \A f \in Names0 : ~Listing[f].matches => mtime[f] = 0 /\ size[f] = 0
             /\ wall = 2 /\ touches = 0 /\ sweeps = <<>> /\ stuck = {}

HelperInit == (ScheduleInit /\ SweepIdle) \/ (SweepInit /\ ScheduleIdle)

HelperNext == \/ policy \in Policies /\ \E now \in Instants, full \in BOOLEAN : Arrive(now, full)
              \/ present # {} /\ Len(sweeps) < MaxSweeps /\ \E action \in Sweeps : Sweep(action)
              \/ present # {} /\ \E f \in Names0 : Touch(f)

HelperSpec == HelperInit /\ [][HelperNext]_helperVars

-----------------------------------------------------------------------------
(* When a policy asks for a new file.                                      *)
Boundary(b) ==
    \/ /\ policy.interval > 0 /\ policy.modulate
       /\ (b + (IF policy.interval = 2 * DayLength THEN policy.zone ELSE 0)) % policy.interval = 0
    \/ policy.interval > 0 /\ ~policy.modulate /\ b = opened + policy.interval
    \/ policy.cron.seconds # {} /\ b % 2 = 0 /\ Fires(policy.cron, b \div 2)

(* No event is written to a file that was opened before a boundary the     *)
(* event is not before: not at the boundary itself, not for an event that  *)
(* comes long after it or behind a later one, not across a day, the end of *)
(* a week or a zone (schedule.go, cron.go Next, rollover.go).              *)
BoundaryRolls ==
    \A b \in (opened + 1)..lastEvent : ~Boundary(b)

(* A delete action leaves the latest of what it matches, as many as its    *)
(* limits allow, and removes nothing else: whatever the order of times,    *)
(* sizes and names, equal times, and a file that cannot be removed         *)
(* (delete.go deleteArchiveCandidates).                                    *)
SweepIsMeant ==
    [][Len(sweeps') > Len(sweeps) =>
        LET action == Last(sweeps')
            found  == Candidates(action)
            gone   == present \ present'
            left   == found \ (gone \cup stuck')
            Total(S) == SumFunctionOnSet(size, S)
            UpTo(f) == {g \in found : g = f \/ Later(g, f)}
        IN  /\ gone \subseteq found
            /\ \A f \in gone, g \in left : mtime[g] >= mtime[f]
            /\ action.maxAge > 0 => \A f \in left : mtime[f] >= wall - action.maxAge
            /\ action.maxCount > 0 => Cardinality(left) <= action.maxCount
            /\ action.maxSize > 0 => Total(left) <= action.maxSize
            /\ \A f \in gone : \/ Older(action, f)
                               \/ action.maxCount \in 1..(Cardinality(UpTo(f)) - 1)
                               \/ action.maxSize \in 1..(Total(UpTo(f)) - 1)]_helperVars
=============================================================================
