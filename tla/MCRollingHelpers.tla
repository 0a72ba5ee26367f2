--------------------------- MODULE MCRollingHelpers ---------------------------
(***************************************************************************)
(* Policies, files and delete actions for RollingHelpers.                  *)
(***************************************************************************)
EXTENDS RollingHelpers

NoCron == [seconds |-> {}, weekdays |-> {}]
All == [form |-> "all", from |-> 0, to |-> 0, step |-> 1]
One(v, s) == [form |-> "one", from |-> v, to |-> v, step |-> s]
Span(v, w) == [form |-> "range", from |-> v, to |-> w, step |-> 1]

Every(ticks, aligned, offset) ==
    [interval |-> ticks, modulate |-> aligned, zone |-> offset, cron |-> NoCron]
Cron(secs, days) ==
    [interval |-> 0, modulate |-> TRUE, zone |-> 0, cron |-> [seconds |-> secs, weekdays |-> days]]

(* Minutes of 3 seconds, days of 6, weeks of 2: a week is 24 ticks.        *)
MCPolicies ==
    {Every(3, TRUE, 0), Every(5, FALSE, 0), Every(12, TRUE, 0), Every(12, TRUE, 4),
     Cron({One(0, 1)}, {All}),
     Cron({One(1, 2)}, {One(2, 1)}),
     Cron({Span(1, 2)}, {One(1, 1)}),
     [Every(8, TRUE, 0) EXCEPT !.cron = [seconds |-> {One(2, 1)}, weekdays |-> {One(1, 2)}]]}

Action(depth, age, count, bytes) ==
    [maxDepth |-> depth, maxAge |-> age, maxCount |-> count, maxSize |-> bytes]

MCSweeps == {Action(0, 0, 0, 0), Action(0, 1, 0, 0), Action(0, 0, 1, 0), Action(2, 0, 2, 0),
             Action(1, 0, 0, 2), Action(2, 1, 2, 2)}

MCListing == <<[depth |-> 1, matches |-> TRUE], [depth |-> 1, matches |-> TRUE],
               [depth |-> 2, matches |-> TRUE], [depth |-> 1, matches |-> FALSE]>>
=============================================================================
