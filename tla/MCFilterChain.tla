---- MODULE MCFilterChain ----
(* Two callers, two events each at most, over chains of every filter. *)
EXTENDS FilterChain

Blank == [kind |-> "deny", onMatch |-> "", onMismatch |-> "", onError |-> "deny", level |-> Unset, low |-> Unset,
    high |-> Unset, key |-> "", value |-> "", values |-> <<>>, operator |-> "and", pattern |-> {}, field |-> "message",
    start |-> Unset, end |-> Unset, zone |-> 0, rate |-> Unset, burst |-> Unset, thresholds |-> <<>>, filters |-> <<>>]
K(kind) == [Blank EXCEPT !.kind = kind]
Ways(f) == {f, [f EXCEPT !.onMatch = "accept", !.onMismatch = "neutral"],
            [f EXCEPT !.onMatch = "deny", !.onMismatch = "neutral"]}

Simple == Ways([K("threshold") EXCEPT !.level = 4]) \cup Ways(K("level"))
    \cup Ways([K("levelRange") EXCEPT !.low = 0, !.high = 4])
    \cup Ways([K("dynamicThreshold") EXCEPT !.key = "k", !.thresholds = "v" :> 0])
    \cup Ways([K("attr") EXCEPT !.key = "k", !.value = "v"])
    \cup Ways([K("map") EXCEPT !.key = "k", !.value = "v", !.values = "error" :> "x"])
    \cup Ways([K("structuredData") EXCEPT !.operator = "or", !.values = ("k" :> "v") @@ ("error" :> "x")])
    \cup Ways([K("regex") EXCEPT !.pattern = {"m"}]) \cup Ways([K("regex") EXCEPT !.pattern = {"v"}, !.field = "attr", !.key = "k"])
    \cup Ways([K("regex") EXCEPT !.pattern = {"l"}, !.field = "logger"])
    \cup Ways([K("stringMatch") EXCEPT !.pattern = {"m"}]) \cup Ways([K("throwable") EXCEPT !.pattern = {"x"}])
    \cup Ways([K("marker") EXCEPT !.pattern = {"AUDIT"}]) \cup Ways(K("noMarker")) \cup {[K("deny") EXCEPT !.onMatch = "drop"]} \cup Ways(K("script"))
    \cup Ways([K("threadContextStack") EXCEPT !.pattern = {"s"}])
Times == {[w EXCEPT !.start = s, !.end = e, !.zone = z] :
            w \in Ways(K("time")), s, e \in {Unset, 0, 1, 3}, z \in {0, 2}}
Wrong == {K("levelRange"), [K("levelRange") EXCEPT !.low = 4, !.high = 0], K("map"), K("regex"), K("attr"), K("composite"),
    [K("burst") EXCEPT !.rate = 0], [K("burst") EXCEPT !.burst = -1], [K("threshold") EXCEPT !.onMatch = "drop"],
    [K("regex") EXCEPT !.pattern = {"m"}, !.field = "attr"], [K("regex") EXCEPT !.pattern = {"m"}, !.field = "thread"],
    [K("regex") EXCEPT !.pattern = Malformed], [K("throwable") EXCEPT !.pattern = Malformed], K("dynamicThreshold"),
    [K("dynamicThreshold") EXCEPT !.key = "k", !.thresholds = "v" :> Garbled], K("marker"),
    [K("map") EXCEPT !.key = "k", !.operator = "xor"], [K("map") EXCEPT !.values = "" :> "x"],
    [K("level") EXCEPT !.level = Garbled], [K("burst") EXCEPT !.rate = Garbled],
    [K("time") EXCEPT !.end = Garbled], [K("time") EXCEPT !.zone = Garbled]}
Bursts == {[w EXCEPT !.rate = r, !.burst = b, !.level = l] :
             w \in {K("burst"), [K("burst") EXCEPT !.onMatch = "accept", !.onMismatch = "neutral"]},
             r \in {1, 2, 3}, b \in {1, 2}, l \in {0, Unset}}

C(chain) == [K("composite") EXCEPT !.filters = chain]
Single == {("chain" :> C(<<"p">>)) @@ ("p" :> p) :
             p \in Simple \cup Times \cup Wrong \cup {K("burst"), [K("burst") EXCEPT !.burst = 0]}}
(* A composite before another filter, and a burst filter met twice. *)
Nested == {("chain" :> C(<<"in", "p">>)) @@ ("in" :> C(<<"q">>)) @@ ("p" :> p) @@ ("q" :> q) :
             p, q \in Ways(K("level")) \cup {K("deny")}}
Twice == {("chain" :> C(<<"in", "b">>)) @@ ("in" :> C(<<"q", "b">>)) @@ ("b" :> b) @@ ("q" :> q) :
            b \in {f \in Bursts : f.onMatch = "" /\ f.level = 0 /\ f.rate = 1},
            q \in Ways([K("threshold") EXCEPT !.level = 4])}
Alone == {("chain" :> C(<<"b">>)) @@ ("b" :> b) : b \in Bursts}
MCConfigs == Single \cup Nested \cup Twice \cup Alone

MCEvents == {
    [level |-> 0, attrs |-> <<<<"k", "w">>, <<"k", "v">>>>, raised |-> {}, message |-> "m", logger |-> "l", markers |-> {"AUDIT", "LOG"},
     stack |-> <<"r", "s">>, thrown |-> "", script |-> "true", time |-> 3],
    [level |-> 4, attrs |-> <<<<"err", "x">>, <<"error", "y">>>>, raised |-> {1}, message |-> "n", logger |-> "o",
     markers |-> {}, stack |-> <<>>, thrown |-> "", script |-> "error", time |-> Unset]}
====
