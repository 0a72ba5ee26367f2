---- MODULE MCConfigLoad ----
(* Files of up to three entries drawn from groups that can meet. *)
EXTENDS ConfigLoad, FiniteSetsExt

Var(ns, name) == [Word(name) EXCEPT !.tag = "var", !.ns = ns]
Else(ns, name, w) == [Word(name) EXCEPT !.tag = "else", !.ns = ns, !.fallback = w]
Piece(tag, w) == [Word(w) EXCEPT !.tag = tag]
E(form, on, name, part, text) ==
    [wrap |-> "", form |-> form, on |-> on, name |-> name, part |-> part, text |-> text]
F(on, name, part, text) == E("field", on, name, part, text)
W(w) == <<Word(w)>>

Texts == {F("", "interval", "camel", <<Word("x"), Var("prop", "P")>>), F("", "interval", "kebab", W("y")),
          F("b", "file", "camel", <<Piece("escape", ""), Else("", "P", "z")>>),
          F("", "interval", "camel", <<Piece("open", ""), Word("x")>>),
          F("", "interval", "camel", <<Piece("escape", ""), Piece("escaped", "x")>>),
          F("a", "file", "camel", <<Else("none", "P", "z")>>),
          E("property", "", "P", "", <<Var("env", "HOME")>>), E("property", "", "P", "", <<Var("env", "NONE")>>),
          E("property", "", "Q", "", <<Var("", "P")>>), E("unknown", "", "", "", W("x"))}
Levels == {E("level", "", "AUDIT", "camel", W("5")), E("level", "", "AUDIT", "kebab", W("7")),
           E("level", "", "INFO", "camel", W("5")), E("level", "", "NOTE", "camel", W("x")),
           F("root", "level", "camel", W("AUDIT")), E("ref", "root", "a", "level", W("AUDIT")),
           E("level", "", "NOTE", "camel", W("5"))}
Refs == {E("list", "root", "", "", <<Word("a"), Word("b")>>), E("ref", "root", "a", "level", W("INFO")),
         E("ref", "root", "a", "ref", W("b")), E("ref", "root", "b", "level", <<Var("prop", "P")>>),
         E("ref", "root", "b", "ref", <<Var("env", "HOME")>>), E("list", "l", "", "", W("b")),
         E("property", "", "P", "", W("INFO"))}
Asyncs == {F("async", "queue", "camel", W("5")), F("async", "queue", "third", W("7")),
           F("async", "queue", "camel", W("x")), F("async", "wait", "kebab", W("x")),
           F("a", "overflow", "camel", W("block")), E("list", "root", "", "", W("a"))}
Filters == {E("filter", "F", "", "", W("G")), E("filter", "F", "", "", <<Word("G"), Word("H"), Word("G")>>),
            E("filter", "G", "", "", <<>>), E("filter", "G", "", "", W("F")), E("filter", "H", "", "", W("G")),
            E("pair", "F", "kv1", "key", W("k")), E("pair", "F", "kv1", "value", W("v")),
            E("pair", "G", "kv2", "key", W("k"))}
Named2 == {F("a", "file", "camel", W("f")), F("b", "file", "camel", W("g")), F("b", "file", "kebab", W("h")),
           E("alias", "a", "", "", W("c")), E("alias", "b", "", "", W("d"))}
Rolling == {F("r", "size", "policy", <<Var("prop", "P")>>), F("r", "size", "camel", W("x")), F("r", "size", "kebab", W("y")),
            F("r", "max", "camel", W("x")), F("r", "max", "camel", W("5")), E("property", "", "P", "", <<>>)}

Files(formats, entries) ==
    {[format |-> f, entries |-> SetToSeq(S)] : f \in formats, S \in {X \in SUBSET entries : Cardinality(X) <= 3}}
In(w, e) == [e EXCEPT !.wrap = w]
Wraps == {[format |-> f, entries |-> SetToSeq({In(v, F("", "interval", "camel", W("x"))), In(w, F("root", "level", "camel", W("INFO")))})] :
             f \in {"yaml", "json"}, v, w \in {"", "configuration", "goark"}}
AllFormats == {"yaml", "xml", "properties"}
MCDocuments == UNION {Files(AllFormats, G) : G \in {Levels, Refs, Asyncs, Filters, Named2, Rolling}}
    \cup Files(AllFormats \cup {"json", "toml"}, Texts) \cup Wraps
    \cup {[format |-> "properties", entries |-> SetToSeq(Named2)]}
MCReloads == {[format |-> "yaml", entries |-> <<e>>] : e \in Levels \cup Filters}
MCEnvironment == [v \in {"HOME"} |-> W("h")]
MCBuiltIn == [l \in {"INFO"} |-> "0"]
MCKind == [f \in {"interval", "file", "level", "queue", "wait", "overflow", "size", "max"} |->
             CASE f = "level" -> "level" [] f = "interval" -> "early" [] f = "queue" -> "number" [] f = "size" -> "rolling" [] f = "max" -> "lenient"
               [] f = "overflow" -> "raw" [] OTHER -> "text"]
====
