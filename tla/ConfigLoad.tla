----------------------------- MODULE ConfigLoad -----------------------------
(***************************************************************************)
(* Loading a configuration file (internal/configfile): a document in one   *)
(* of five formats becomes a fileConfig, whose texts are resolved against  *)
(* the lookups, whose custom levels join the registry of the process, and  *)
(* whose filters are built.  AppenderGraph builds the appenders.           *)
(*                                                                         *)
(* A document is a sequence of entries.  An entry says one thing of one    *)
(* object: [wrap, form, on, name, part, text].  Names are told apart and   *)
(* nothing more; a text is a sequence of pieces, see Resolve.              *)
(***************************************************************************)
EXTENDS Naturals, Sequences, FiniteSets, TLC, SequencesExt

CONSTANTS
    Documents,    \* the files there are: [format, entries]
    Reloads,      \* those a second load may read
    MaxLoads,     \* bound: loads of the process
    Environment,  \* variables of the process: name -> text
    Numerals,     \* the words that are numbers
    BuiltIn,      \* level name -> numeral
    Kind          \* field name -> its type, one of
                  \*   text, level, rolling: a string, a level, a string of the rolling section
                  \*   early: a string of the top level that is resolved before the properties
                  \*   raw: the overflow strategy of an appender, never resolved
                  \*   number, lenient: a number; XML drops a lenient one that does not parse

(* What the files are made of.  An object has the name of an alias in a    *)
(* properties file only, and the async section has none; wrappers are for  *)
(* the structured formats; a reference, and what a list or a filter names, *)
(* is one word.                                                            *)
Pieces == [tag : {"word", "escape", "escaped", "var", "else", "open"},
           ns : STRING, name : STRING, fallback : STRING]
Word(w) == [tag |-> "word", ns |-> "", name |-> w, fallback |-> ""]
Forms == {"field", "level", "property", "pair", "list", "ref", "filter", "alias", "unknown"}
Sayings == [wrap : STRING, form : Forms, on : STRING, name : STRING, part : STRING, text : Seq(Pieces)]
WellSaid(e) ==
    /\ e.form = "field" =>
         /\ e.name \in DOMAIN Kind
         /\ e.part \in IF Kind[e.name] = "rolling" THEN {"policy", "camel", "kebab"}
                                                 ELSE {"camel", "kebab", "third"}
    /\ e.form \in {"level", "property"} => e.on = ""
    /\ e.form = "level" => e.part \in {"camel", "kebab"}
    /\ e.form = "pair" => e.part \in {"key", "value"}
    /\ e.form = "ref" => e.name # "" /\ e.part \in {"ref", "level"}
    /\ e.form \in {"list", "filter"} => e.name = ""
    /\ e.form = "filter" => \A i \in DOMAIN e.text : e.text[i] = Word(e.text[i].name)
    /\ e.form = "alias" => e.text # <<>> /\ e.on # "" /\ "async" \notin {e.on, e.text[1].name}
ASSUME LoadAssumption ==
    /\ \A f \in DOMAIN Kind : Kind[f] \in {"text", "early", "level", "rolling", "raw", "number", "lenient"}
    /\ \A d \in Documents \cup Reloads :
      /\ d.format \in {"yaml", "json", "toml", "xml", "properties"}
      /\ d.entries \in Seq(Sayings) /\ \A e \in ToSet(d.entries) : WellSaid(e)
      /\ d.format \in {"xml", "properties"} => Cardinality({e.wrap : e \in ToSet(d.entries)}) <= 1

VARIABLES
    document,   \* the file being loaded
    loadStage,  \* idle, decode, finalize, resolve, levels, filters, loaded, failed, unopened
    todo,       \* entries the loop over a Go map still visits, in any order
    config,     \* [cells, refs, filters]: the fileConfig
    registry,   \* level name -> numeral, for the whole process
    before,     \* the registry when this load began
    made,       \* filter -> times a factory made it
    visiting,   \* filters being built, innermost last: [name, next]
    loads       \* loads begun

loadVars == <<document, loadStage, todo, config, registry, before, made, visiting, loads>>

Entries == ToSet(document.entries)
Structured == document.format \in {"yaml", "json", "toml"}
Properties == document.format = "properties"
Set(f, x, y) == [z \in DOMAIN f \cup {x} |-> IF z = x THEN y ELSE f[z]]

-----------------------------------------------------------------------------
(* Texts.  A piece is a word, the escape $$, an escape before a brace (its *)
(* name is what it leaves), ${ns:name}, the same with a fallback, or ${    *)
(* left open.  ns is empty in the shorthand ${name}.                       *)
IsExpression(p) == p.tag \notin {"word", "escape"}

Answers(p, spaces) ==
    LET asked == IF p.ns = "" THEN {"prop", "property"} ELSE {p.ns}
    IN  {spaces[n][p.name] : n \in {m \in asked \cap DOMAIN spaces : p.name \in DOMAIN spaces[m]}}

Unanswered(p, spaces) ==
    \/ p.tag = "open"
    \/ p.tag = "var" /\ Answers(p, spaces) = {}
    \/ p.tag = "else" /\ p.ns # "" /\ p.ns \notin DOMAIN spaces

Expand(p, spaces) ==
    CASE p.tag = "word"    -> <<p>>
      [] p.tag = "escape"  -> <<Word("$")>>
      [] p.tag = "escaped" -> <<Word(p.name)>>
      [] OTHER             -> IF Answers(p, spaces) = {} THEN <<Word(p.fallback)>>
                              ELSE CHOOSE t \in Answers(p, spaces) : TRUE

(* One pass from left to right: what a lookup answers is not read again,   *)
(* and a text without ${ stays as it is, escapes included.                 *)
Expanded(text, spaces) == FlattenSeq([i \in DOMAIN text |-> Expand(text[i], spaces)])
Resolvable(text, spaces) == \A i \in DOMAIN text : ~Unanswered(text[i], spaces)
Resolve(text, spaces) ==
    IF \E i \in DOMAIN text : IsExpression(text[i]) THEN Expanded(text, spaces) ELSE text

(* Register: namespaces the resolver has before the file adds its own.     *)
GivenSpaces == [ns \in {"env"} |-> Environment]

(* resolveProperties: the texts of the properties see the given spaces     *)
(* only, then prop and property answer from them.                          *)
WithProperties(props) ==
    [ns \in {"prop", "property"} |-> [p \in DOMAIN props |-> Resolve(props[p], GivenSpaces)]]
      @@ GivenSpaces

IsNumeral(text) == Len(text) = 1 /\ text[1].tag = "word" /\ text[1].name \in Numerals
IsLevel(text, levels) ==
    \/ text = <<>>
    \/ Len(text) = 1 /\ text[1].tag = "word" /\ text[1].name \in DOMAIN levels \cup Numerals
IsStrategy(text) == \A i \in DOMAIN text : text[i].tag = "word"

-----------------------------------------------------------------------------
(* Decoding.  CollectAliases: appender.ID.name renames the object.         *)
Named(o) == LET names == {e \in Entries : e.form = "alias" /\ e.on = o}
            IN  IF Properties /\ names # {} THEN (CHOOSE e \in names : TRUE).text[1].name ELSE o

(* Structured formats keep each spelling in a field of its own; properties *)
(* and XML write one field, but for the three names of the async section.  *)
Spelling(e) == IF Structured \/ e.on = "async" THEN e.part ELSE "camel"

Cell(e) == CASE e.form = "field"    -> <<"field", Named(e.on), e.name, Spelling(e)>>
             [] e.form = "level"    -> <<"level", "", e.name, Spelling(e)>>
             [] e.form = "property" -> <<"property", "", e.name, "camel">>
             [] e.form = "pair"     -> <<"pair", e.on, e.name, e.part>>

(* findPropertyAppenderRef: a reference from a list is adopted by the      *)
(* first structured one of the same name.                                  *)
NewRef(id) == [id |-> id, ref |-> IF Properties THEN <<Word(id)>> ELSE <<>>, level |-> <<>>]
RefOfNever(refs, id) == [at |-> Len(refs) + 1, old |-> NewRef(id)]
RefOf(refs, id) ==
    LET own == {i \in DOMAIN refs : \/ refs[i].id = id
                                    \/ Properties /\ refs[i].id = "" /\ refs[i].ref = <<Word(id)>>}
    IN  IF own = {} THEN [at |-> Len(refs) + 1, old |-> NewRef(id)]
        ELSE LET i == CHOOSE i \in own : \A j \in own : i <= j IN [at |-> i, old |-> refs[i]]

WithRef(refs, e) ==
    LET r == RefOf(refs, e.name)
        new == [r.old EXCEPT !.id = e.name, ![e.part] = e.text]
    IN  IF r.at > Len(refs) THEN Append(refs, new) ELSE [refs EXCEPT ![r.at] = new]

RefsOf(c, o) == IF o \in DOMAIN c.refs THEN c.refs[o] ELSE <<>>
ListRefs(text) == [i \in DOMAIN text |-> [id |-> "", ref |-> <<text[i]>>, level |-> <<>>]]

(* What one entry does to the fileConfig.                                  *)
Apply(c, e) ==
    CASE e.form \in {"field", "level", "property", "pair"} ->
           [c EXCEPT !.cells = Set(@, Cell(e), e.text)]
      [] e.form = "list" ->
           [c EXCEPT !.refs = Set(@, Named(e.on),
              (IF Properties THEN <<>> ELSE RefsOf(c, Named(e.on))) \o ListRefs(e.text))]
      [] e.form = "ref" ->
           [c EXCEPT !.refs = Set(@, Named(e.on), WithRef(RefsOf(c, Named(e.on)), e))]
      [] e.form = "filter" ->
           [c EXCEPT !.filters = Set(@, e.on, [i \in DOMAIN e.text |-> e.text[i].name])]
      [] OTHER -> c

IsTyped(e) == e.form = "field" /\ Kind[e.name] \in {"number", "lenient"}
Mistyped(e) == IsTyped(e) /\ ~IsNumeral(e.text)

NoConfig == [cells |-> <<>>, refs |-> <<>>, filters |-> <<>>]

Fail == /\ loadStage' = "failed"
        /\ todo' = {}
        /\ visiting' = <<>>
        /\ UNCHANGED <<document, config, registry, before, made, loads>>

(* loadConfigFile up to the decoder: the context, the extension and the    *)
(* file may each end the load.                                             *)
Open(d) ==
    /\ loadStage \in {"idle", "loaded", "failed", "unopened"}
    /\ loads < MaxLoads
    /\ loads' = loads + 1
    /\ document' = d
    /\ before' = registry
    /\ config' = NoConfig
    /\ made' = <<>>
    /\ visiting' = <<>>
    /\ \/ /\ loadStage' = "decode"
          /\ todo' = IF d.format = "properties"
                     THEN {i \in DOMAIN d.entries :  \* Read: of two equal keys the last counts
                             \A j \in (i + 1)..Len(d.entries) :
                               [d.entries[i] EXCEPT !.text = <<>>] # [d.entries[j] EXCEPT !.text = <<>>]}
                     ELSE {}
       \/ loadStage' = "unopened" /\ todo' = {}
    /\ UNCHANGED registry

(* YAML, and JSON and TOML through it: unknown fields, a key given twice   *)
(* and a value of the wrong type end the load.                             *)
Key(e) == [e EXCEPT !.text = <<>>]
IsModelled(e) == e.form \notin {"unknown", "alias"}
WellFormed ==
    /\ \A e \in Entries : IsModelled(e) /\ ~Mistyped(e)
    /\ \A i, j \in DOMAIN document.entries :
         i # j => Key(document.entries[i]) # Key(document.entries[j])

(* XML: elements and attributes it does not know are skipped, a later      *)
(* element of the same name takes the place of an earlier one.             *)
XmlAttribute(e) ==
    /\ e.form \notin {"unknown", "alias"}
    /\ e.form = "level" => e.part = "camel"
    /\ e.form = "field" => e.part = IF Kind[e.name] = "rolling" THEN "policy" ELSE "camel"
XmlDropped(e) == e.form = "field" /\ Kind[e.name] = "lenient" /\ ~IsNumeral(e.text)
XmlKnows(e) == XmlAttribute(e) /\ ~XmlDropped(e)
XmlMistyped(e) == e.form = "field" /\ Kind[e.name] = "number" /\ ~IsNumeral(e.text)
ApplyKnown(c, e) == IF Structured \/ XmlKnows(e) THEN Apply(c, e) ELSE c

Decoded ==
    /\ config' = FoldLeft(ApplyKnown, NoConfig, document.entries)
    /\ loadStage' = "finalize"
    /\ UNCHANGED <<document, todo, registry, before, made, visiting, loads>>

DecodeStructured ==
    /\ loadStage = "decode" /\ Structured
    /\ IF WellFormed THEN Decoded ELSE Fail

DecodeXML ==
    /\ loadStage = "decode" /\ document.format = "xml"
    /\ IF \E e \in Entries : XmlKnows(e) /\ XmlMistyped(e) THEN Fail ELSE Decoded

(* One turn of the loop over the keys of a properties file, which are in a *)
(* map: the turns come in any order.                                       *)
ApplyProperty(i) ==
    /\ loadStage = "decode" /\ Properties
    /\ i \in todo
    /\ LET e == document.entries[i]
       IN  IF Mistyped(e) THEN Fail
           ELSE /\ config' = Apply(config, e)
                /\ todo' = todo \ {i}
                /\ UNCHANGED <<document, loadStage, registry, before, made, visiting, loads>>

(* applyFilterKeyValuePairs, once the loop is done: a filter.ID.kvN needs  *)
(* its key and its value, and makes a filter of its own if there is none.  *)
PairCells(c) == {x \in DOMAIN c.cells : x[1] = "pair"}
ApplyPairs ==
    /\ loadStage = "decode" /\ Properties /\ todo = {}
    /\ IF \E x \in PairCells(config), part \in {"key", "value"} :
            [x EXCEPT ![4] = part] \notin DOMAIN config.cells
         THEN Fail
         ELSE /\ loadStage' = "finalize"
              /\ UNCHANGED <<document, todo, config, registry, before, made, visiting, loads>>

(* effective: the top level or one wrapper.                                *)
Finalize ==
    /\ loadStage = "finalize"
    /\ IF Cardinality({e.wrap : e \in Entries}) > 1 THEN Fail
       ELSE /\ loadStage' = "resolve"
            /\ UNCHANGED <<document, todo, config, registry, before, made, visiting, loads>>

-----------------------------------------------------------------------------
(* resolveLookups.  Numbers and booleans are no texts; the overflow        *)
(* strategy of an appender is one that is left alone ("raw").  The status  *)
(* and the monitor interval come first ("early"), then the properties,     *)
(* then all that may use them.                                             *)
EarlyText(f) == Kind[f] = "early"
AppenderText(f) == Kind[f] \in {"text", "level"}
RollingText(f) == Kind[f] = "rolling"
CellResolved(x) == x[1] = "field" => EarlyText(x[3]) \/ AppenderText(x[3]) \/ RollingText(x[3])
PropertyTexts(c) ==
    [p \in {x[3] : x \in {y \in DOMAIN c.cells : y[1] = "property"}} |->
       c.cells[<<"property", "", p, "camel">>]]
BeforeProperties(f, n) == f = "property" \/ (f = "field" /\ EarlyText(n))
SpacesFor(c, x) == IF BeforeProperties(x[1], x[3]) THEN GivenSpaces ELSE WithProperties(PropertyTexts(c))

ResolveCells(c) ==
    [x \in DOMAIN c.cells |->
       IF CellResolved(x) THEN Resolve(c.cells[x], SpacesFor(c, x)) ELSE c.cells[x]]
ResolveRefs(c) ==
    LET spaces == WithProperties(PropertyTexts(c))
    IN  [o \in DOMAIN c.refs |-> [i \in DOMAIN c.refs[o] |->
           [c.refs[o][i] EXCEPT !.ref = Resolve(@, spaces), !.level = Resolve(@, spaces)]]]
(* resolveKeyValuePairLookups: a pair needs a key in every format.         *)
AllResolvable(c) ==
    /\ \A x \in PairCells(c) : [x EXCEPT ![4] = "key"] \in DOMAIN c.cells
    /\ \A x \in DOMAIN c.cells : CellResolved(x) => Resolvable(c.cells[x], SpacesFor(c, x))
    /\ \A o \in DOMAIN c.refs : \A i \in DOMAIN c.refs[o] :
         \A t \in {c.refs[o][i].ref, c.refs[o][i].level} :
           Resolvable(t, WithProperties(PropertyTexts(c)))

(* registerCustomLevels: the two spellings merged, kebab over camel.       *)
LevelText(c, n) == LET kebab == <<"level", "", n, "kebab">>
                   IN  IF kebab \in DOMAIN c.cells THEN c.cells[kebab] ELSE c.cells[<<"level", "", n, "camel">>]
LevelNames(c) == {x[3] : x \in {y \in DOMAIN c.cells : y[1] = "level"}}

ResolveLookups ==
    /\ loadStage = "resolve"
    /\ IF ~AllResolvable(config) THEN Fail
       ELSE /\ config' = [config EXCEPT !.cells = ResolveCells(config), !.refs = ResolveRefs(config)]
            /\ todo' = LevelNames(config)
            /\ loadStage' = IF config = NoConfig THEN "loaded" ELSE "levels"
            /\ UNCHANGED <<document, registry, before, made, visiting, loads>>

(* Registry.Register: a name keeps its number for good.                    *)
ConflictsWithBuiltIn(n, number) == n \in DOMAIN BuiltIn /\ registry[n] # number
Conflicts(n, number) == n \in DOMAIN registry /\ registry[n] # number

RegisterLevel(n) ==
    /\ loadStage = "levels"
    /\ n \in todo
    /\ LET text == LevelText(config, n)
       IN  IF ~IsNumeral(text) \/ Conflicts(n, text[1].name) THEN Fail
           ELSE /\ registry' = Set(registry, n, text[1].name)
                /\ todo' = todo \ {n}
                /\ UNCHANGED <<document, loadStage, config, before, made, visiting, loads>>

(* validateAsyncLoggerConfig: only one of the three async sections.        *)
AsyncSections(c) == {x[4] : x \in {y \in DOMAIN c.cells : y[1] = "field" /\ y[2] = "async"}}
ValidateAsync ==
    /\ loadStage = "levels" /\ todo = {}
    /\ IF Cardinality(AsyncSections(config)) > 1 THEN Fail
       ELSE /\ loadStage' = "filters"
            /\ todo' = DOMAIN config.filters \cup {x[2] : x \in PairCells(config)}
            /\ UNCHANGED <<document, config, registry, before, made, visiting, loads>>

-----------------------------------------------------------------------------
(* buildFilters: the names in sorted order (which is not told apart), each *)
(* after the filters it refers to.                                         *)
InProgress == {visiting[i].name : i \in DOMAIN visiting}
Made(f) == f \in DOMAIN made

BuildFilter(f, waiting) ==
    \/ /\ Made(f)
       /\ visiting' = waiting
       /\ UNCHANGED loadStage
    \/ /\ ~Made(f)
       /\ f \in DOMAIN config.filters \ InProgress
       /\ visiting' = Append(waiting, [name |-> f, next |-> 1])
       /\ UNCHANGED loadStage
    \/ /\ ~Made(f)
       /\ f \notin DOMAIN config.filters \ InProgress  \* not configured, of no type, or cyclic
       /\ visiting' = <<>>
       /\ loadStage' = "failed"

NextFilter(f) ==
    /\ loadStage = "filters" /\ visiting = <<>>
    /\ f \in todo
    /\ todo' = todo \ {f}
    /\ BuildFilter(f, visiting)
    /\ UNCHANGED <<document, config, registry, before, made, loads>>

NestedFilter ==
    /\ loadStage = "filters" /\ visiting # <<>>
    /\ LET top == Last(visiting)
           refs == config.filters[top.name]
       IN  /\ top.next <= Len(refs)
           /\ BuildFilter(refs[top.next], [visiting EXCEPT ![Len(visiting)].next = @ + 1])
    /\ UNCHANGED <<document, todo, config, registry, before, made, loads>>

MakeFilter ==
    /\ loadStage = "filters" /\ visiting # <<>>
    /\ LET f == Last(visiting).name
       IN  /\ Last(visiting).next > Len(config.filters[f])
           /\ made' = Set(made, f, IF Made(f) THEN made[f] + 1 ELSE 1)
    /\ visiting' = Front(visiting)
    /\ UNCHANGED <<document, loadStage, todo, config, registry, before, loads>>

(* Of the spellings of a field the first that is not blank counts; in the  *)
(* rolling section the policies come before the older fields.              *)
RollingSpellings == <<"policy", "camel", "kebab">>
Spellings(f) == IF RollingText(f) THEN RollingSpellings ELSE <<"camel", "kebab", "third">>
FieldOf(c, o, f) ==
    LET Spelled(i) == <<"field", o, f, Spellings(f)[i]>>
        given == {i \in DOMAIN Spellings(f) : Spelled(i) \in DOMAIN c.cells /\ c.cells[Spelled(i)] # <<>>}
    IN  IF given = {} THEN <<>> ELSE c.cells[Spelled(Min(given))]
FieldNames(c) == {<<x[2], x[3]>> : x \in {y \in DOMAIN c.cells : y[1] = "field"}}

(* The rest of options: a text of any level or strategy must be one.       *)
BadField(c, o, f) ==
    \/ Kind[f] = "level" /\ ~IsLevel(FieldOf(c, o, f), registry)
    \/ Kind[f] = "raw" /\ ~IsStrategy(FieldOf(c, o, f))
BadRef(c) == \E o \in DOMAIN c.refs : \E i \in DOMAIN c.refs[o] : ~IsLevel(c.refs[o][i].level, registry)

Finish ==
    /\ loadStage = "filters" /\ visiting = <<>> /\ todo = {}
    /\ loadStage' = IF BadRef(config) \/ \E n \in FieldNames(config) : BadField(config, n[1], n[2])
                    THEN "failed" ELSE "loaded"
    /\ UNCHANGED <<document, todo, config, registry, before, made, visiting, loads>>

-----------------------------------------------------------------------------
LoadInit ==
    /\ document = [format |-> "yaml", entries |-> <<>>]
    /\ loadStage = "idle"
    /\ todo = {}
    /\ config = NoConfig
    /\ registry = BuiltIn
    /\ before = BuiltIn
    /\ made = <<>>
    /\ visiting = <<>>
    /\ loads = 0

LoadNext ==
    \/ \E d \in (IF loads = 0 THEN Documents ELSE Reloads) : Open(d)
    \/ DecodeStructured \/ DecodeXML \/ ApplyPairs \/ Finalize \/ ResolveLookups
    \/ \E i \in DOMAIN document.entries : ApplyProperty(i)
    \/ ValidateAsync \/ NestedFilter \/ MakeFilter \/ Finish
    \/ loadStage = "levels" /\ \E n \in todo : RegisterLevel(n)
    \/ loadStage = "filters" /\ \E f \in todo : NextFilter(f)

LoadSpec == LoadInit /\ [][LoadNext]_loadVars

-----------------------------------------------------------------------------
(* What a document means, read without any order and as the docs have it:  *)
(* the facts it states.  An escape is a dollar sign in every text          *)
(* (docs/configuration.md:74) and an integer that does not parse is said,  *)
(* in XML too (docs/configuration.md:129).  The status, the monitor        *)
(* interval and the properties themselves know no property.                *)
Said == {e \in Entries : /\ e.form \notin {"unknown", "alias"}
                         /\ document.format = "xml" => XmlAttribute(e)}
SaidProperties == [p \in {e.name : e \in {x \in Said : x.form = "property"}} |->
                     (CHOOSE e \in Said : e.form = "property" /\ e.name = p).text]
MeantSpaces ==
    [ns \in {"prop", "property"} |->
       [p \in DOMAIN SaidProperties |-> Expanded(SaidProperties[p], GivenSpaces)]] @@ GivenSpaces
SpacesOf(e) == IF BeforeProperties(e.form, e.name) THEN GivenSpaces ELSE MeantSpaces
IsText(e) == ~IsTyped(e)
Meant(e) == IF IsText(e) THEN Expanded(e.text, SpacesOf(e)) ELSE e.text

RefParts(e) == {x \in Said : x.form = "ref" /\ Named(x.on) = Named(e.on) /\ x.name = e.name}
PartOf(e, part, default) ==
    IF \E x \in RefParts(e) : x.part = part
      THEN Meant(CHOOSE x \in RefParts(e) : x.part = part) ELSE default

FactsOf(e) ==
    CASE e.form \in {"field", "level", "property"} ->
           IF e.form = "field" /\ Meant(e) = <<>> THEN {}
           ELSE {<<e.form, Named(e.on), e.name, Meant(e)>>}
      [] e.form = "pair"   -> {<<e.form, e.on, <<e.name, e.part>>, Meant(e)>>}
      [] e.form = "list"   -> {<<"ref", Named(e.on), <<>>, Meant([e EXCEPT !.text = <<t>>])>> : t \in ToSet(e.text)}
      [] e.form = "ref"    -> {<<"ref", Named(e.on), PartOf(e, "level", <<>>), PartOf(e, "ref", NewRef(e.name).ref)>>}
      [] e.form = "filter" -> {<<"filter", e.on, "", e.text>>}

Meaning == UNION {FactsOf(e) : e \in Said}

ConfigFacts ==
    {<<"field", n[1], n[2], FieldOf(config, n[1], n[2])>> :
        n \in {m \in FieldNames(config) : FieldOf(config, m[1], m[2]) # <<>>}}
    \cup {<<"level", "", n, LevelText(config, n)>> : n \in LevelNames(config)}
    \cup {<<"property", "", p, PropertyTexts(config)[p]>> : p \in DOMAIN PropertyTexts(config)}
    \cup {<<"pair", x[2], <<x[3], x[4]>>, config.cells[x]>> : x \in PairCells(config)}
    \cup (UNION {{<<"ref", o, r.level, r.ref>> : r \in ToSet(config.refs[o])} : o \in DOMAIN config.refs})
    \cup {<<"filter", f, "", [i \in DOMAIN config.filters[f] |-> Word(config.filters[f][i])]>> : f \in DOMAIN config.filters}

(* Nothing is named twice.  Two spellings of a field, or a list of         *)
(* references beside structured ones, leave it to the order of a Go map    *)
(* which one counts.                                                       *)
Target(e) == <<e.form, Named(e.on), e.name, IF e.form \in {"ref", "pair"} THEN e.part ELSE "">>
NamedOnce ==
    LET said == {i \in DOMAIN document.entries : document.entries[i] \in Said}
        E(i) == document.entries[i]
    IN  \A i, j \in said : i # j =>
          /\ Target(E(i)) # Target(E(j))
          /\ {E(i).form, E(j).form} = {"list", "ref"} => Named(E(i).on) # Named(E(j).on)

(* Where the code does otherwise than the docs say: an escape stays as it  *)
(* is in a text without any ${ (lookup.go:69), the strategy of an appender *)
(* is not resolved, and XML drops some integers that do not parse.         *)
EscapesRead(text) ==
    (\E i \in DOMAIN text : text[i].tag = "escape") => \E i \in DOMAIN text : IsExpression(text[i])
AsInDocs(e) ==
    /\ EscapesRead(e.text)
    /\ e.form = "list" => \A i \in DOMAIN e.text : EscapesRead(<<e.text[i]>>)
    /\ e.form = "field" /\ Kind[e.name] = "raw" => IsStrategy(e.text)
    /\ document.format = "xml" => ~XmlDropped(e)
Plain == NamedOnce /\ \A e \in Said : AsInDocs(e)

(* What docs/configuration.md ("Validation") and the strict formats ask of *)
(* a document, and that its levels do not contradict the process.          *)
SaidLevels == {e \in Said : e.form = "level"}
SaidFilters == [f \in {e.on : e \in {x \in Said : x.form = "filter"}} |->
                  {t.name : t \in ToSet((CHOOSE e \in Said : e.form = "filter" /\ e.on = f).text)}]
KnownLevel(text) == \/ IsLevel(text, before)
                    \/ Len(text) = 1 /\ text[1].tag = "word" /\ \E e \in SaidLevels : e.name = text[1].name
NoCycle(graph) == \A S \in SUBSET DOMAIN graph : S # {} => \E f \in S : graph[f] \cap S = {}

Meaningful ==
    /\ Structured => WellFormed /\ Cardinality({e.wrap : e \in Entries}) <= 1
    /\ \A e \in Said : ~Mistyped(e) /\ (IsText(e) => Resolvable(e.text, SpacesOf(e)))
    /\ \A e \in Said : e.form = "pair" =>
         /\ e.on \in DOMAIN SaidFilters
         /\ \A part \in {"key"} \cup (IF Properties THEN {"value"} ELSE {}) :
              \E x \in Said : x.form = "pair" /\ x.on = e.on /\ x.name = e.name /\ x.part = part
    /\ \A e \in SaidLevels :
         /\ IsNumeral(Meant(e))
         /\ e.name \in DOMAIN before => before[e.name] = Meant(e)[1].name
    /\ Cardinality({e.part : e \in {x \in Said : x.form = "field" /\ x.on = "async"}}) <= 1
    /\ \A f \in DOMAIN SaidFilters : SaidFilters[f] \subseteq DOMAIN SaidFilters
    /\ NoCycle(SaidFilters)
    /\ \A e \in Said : /\ e.form = "field" /\ Kind[e.name] = "level" => KnownLevel(Meant(e))
                       /\ e.form = "ref" => KnownLevel(PartOf(e, "level", <<>>))

-----------------------------------------------------------------------------
(* What a loaded configuration says of its filters holds no circle, and    *)
(* each is made once, after those it refers to.                            *)
RefersTo(f) == {config.filters[f][i] : i \in 1..Len(config.filters[f])}
FiltersMadeOnce ==
    /\ \A f \in DOMAIN made : made[f] = 1 /\ RefersTo(f) \subseteq DOMAIN made
    /\ NoCycle([f \in DOMAIN made |-> RefersTo(f)])
    /\ loadStage = "loaded" => DOMAIN made = DOMAIN config.filters

(* A file that names nothing twice, and has none of the three things above *)
(* in which the code departs from the docs, loads exactly when it is       *)
(* meaningful, in every format and in every order the loops over Go maps   *)
(* take, and the fileConfig then states the facts of the file and no       *)
(* other.  It has every filter it configures, and however many references  *)
(* lead to one, one filter stands behind its name (a burst filter counts   *)
(* the events of all of them).                                             *)
OutcomeIsMeant ==
    /\ loadStage = "loaded" /\ Plain => Meaningful /\ ConfigFacts = Meaning
    /\ loadStage = "failed" /\ Plain => ~Meaningful
    /\ FiltersMadeOnce

(* A level name never changes its number, whatever loads fail half-way     *)
(* through the registration and whatever the next file says.               *)
LevelsAreKept ==
    [][\A n \in DOMAIN registry : n \in DOMAIN registry' /\ registry'[n] = registry[n]]_loadVars
=============================================================================
