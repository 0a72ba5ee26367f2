-------------------------- MODULE MCLoggerRouting --------------------------
(***************************************************************************)
(* Instances of LoggerRouting for TLC: a name is a prefix of another with  *)
(* and without the dot, an appender is referred to by root and by a logger,*)
(* with a level, a filter, or not at all.                                  *)
(***************************************************************************)
EXTENDS LoggerRouting

A == <<"a">>
AB == <<"a", "b">>
ADotB == <<"a", ".", "b">>
ADotBDotA == <<"a", ".", "b", ".", "a">>
MCNames == {A, AB, ADotB, ADotBDotA}

To(a, min, filters) == [to |-> a, min |-> min, filters |-> filters]

RuleOf(name, level, refs, filters, additive) ==
    [name |-> name, level |-> level, refs |-> refs, filters |-> filters,
     additive |-> additive]

OuterRules == {RuleOf(A, level, <<To("file", 2, <<>>)>>, <<>>, additive) :
                  level \in {1, Inherit}, additive \in BOOLEAN}

InnerRules == {RuleOf(ADotBDotA, 2, <<>>, <<>>, TRUE),
               RuleOf(ADotBDotA, 2, <<To("console", Inherit, <<"f">>)>>, <<"f">>, TRUE)}

RootRefs == {<<To("file", Inherit, <<>>)>>,
             <<To("file", Inherit, <<>>), To("console", 1, <<>>)>>}

MCConfigs ==
    {[level |-> 1, refs |-> refs, filters |-> <<>>, global |-> global,
      rules |-> {outer, inner}] :
        refs \in RootRefs, global \in {<<>>, <<"g">>}, outer \in OuterRules,
        inner \in InnerRules}
    \cup {[level |-> 2, refs |-> refs, filters |-> <<"f">>, global |-> <<>>, rules |-> {}] :
        refs \in RootRefs \cup {<<To("file", Inherit, <<>>), To("file", 2, <<>>)>>}}
=============================================================================
