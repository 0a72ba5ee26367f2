-------------------------- MODULE MCAppenderGraph --------------------------
(***************************************************************************)
(* Every graph of three appenders with one or two sinks over a small set   *)
(* of reference lists, every single fault of the build, one broken sink,   *)
(* two events of different keys; and hand-built graphs with delegates that *)
(* are shared, named twice, or called the same.                            *)
(***************************************************************************)
EXTENDS AppenderGraph

MCNames == 1..3
MCKeyOf == [e \in {"e1", "e2"} |-> IF e = "e1" THEN 1 ELSE 2]

To(n) == [to |-> n, deny |-> 0, control |-> FALSE]
Guarded(n, k) == [to |-> n, deny |-> k, control |-> TRUE]

RefLists == {<<>>, <<To(0)>>, <<To(1)>>, <<To(2)>>, <<To(3)>>,
             <<To(1), To(2)>>, <<To(3), To(1)>>, <<To(3), To(3)>>,
             <<Guarded(3, 1), To(2)>>}

Sink(deny) == [kind |-> "sink", refs |-> <<>>, deny |-> deny, closes |-> FALSE]
Composed(kind, refs, deny) == [kind |-> kind, refs |-> refs, deny |-> deny,
                               closes |-> FALSE]

Routings == {l \in RefLists : \A i \in DOMAIN l : ~l[i].control}
               \cup {<<To(2), To(1), To(0)>>, <<To(2), To(1), To(3)>>}
ComposedSpecs == [kind : Composites \ {"routing"}, refs : RefLists, deny : {0}, closes : {FALSE}]
                   \cup [kind : {"routing"}, refs : Routings, deny : {0}, closes : {FALSE}]
                   \cup {Composed("async", <<To(3)>>, 1), Composed("failover", <<To(3), To(2)>>, 2)}

OneSink == UNION {{[n \in MCNames |-> IF n = sink THEN Sink(0)
                                       ELSE IF n = Min(MCNames \ {sink}) THEN c ELSE d]
                     : c \in ComposedSpecs, d \in ComposedSpecs} : sink \in MCNames}
TwoSinks == UNION {{[n \in MCNames |-> IF n = c THEN x ELSE Sink(IF n = 2 THEN k ELSE 0)]
                      : x \in ComposedSpecs, k \in {0, 1}} : c \in MCNames}
MCGraphs == OneSink \cup TwoSinks

Owner(kind, refs, c) == [kind |-> kind, refs |-> refs, deny |-> 0, closes |-> c]
MCCodeGraphs ==
    {[top |-> 3,
      spec |-> (1 :> Sink(0)) @@ (2 :> Owner(kind, refs, c2)) @@ (3 :> Owner(top, tops, c3))]
       : kind \in {"failover", "routing"}, refs \in {<<To(1), To(1)>>},
         top \in {"failover", "routing"}, tops \in {<<To(2), To(1)>>, <<To(2), To(2)>>},
         c2 \in BOOLEAN, c3 \in BOOLEAN}
      \cup
    {[top |-> 3, spec |-> (1 :> Sink(0)) @@ (2 :> Sink(0)) @@ (3 :> Owner(top, <<To(1), To(2)>>, c))]
       : top \in {"failover", "routing"}, c \in BOOLEAN}
      \cup
    {[top |-> 3, spec |-> (1 :> Sink(0)) @@ (2 :> Sink(0)) @@ (3 :> Owner("rewrite", <<To(1)>>, c))]
       : c \in BOOLEAN}

MCTitles == {[n \in MCNames |-> n], [n \in MCNames |-> IF n = 3 THEN 3 ELSE 1]}
=============================================================================
