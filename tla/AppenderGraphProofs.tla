------------------------ MODULE AppenderGraphProofs ------------------------
(***************************************************************************)
(* Theorems about AppenderGraph, for any set of names, any graphs of       *)
(* appenders and any loggers over them, with or without a failing step:    *)
(* the build, Close, and where an event lands.                             *)
(***************************************************************************)
EXTENDS AppenderGraph, CountingLemmas, SequenceTheorems

-----------------------------------------------------------------------------
(* The build of a configuration's appenders.                              *)

LEMMA TakeHead ==
    ASSUME NEW S, NEW s \in Seq(S), s # <<>>
    PROVE  /\ Head(s) \in S /\ Tail(s) \in Seq(S)
           /\ ToSet(s) = {Head(s)} \cup ToSet(Tail(s))
           /\ IsInjective(s) => IsInjective(Tail(s)) /\ Head(s) \notin ToSet(Tail(s))
<1>1. Len(s) \in Nat /\ Len(s) # 0 /\ DOMAIN s = 1..Len(s)
  OBVIOUS
<1>2. /\ Head(s) = s[1] /\ Head(s) \in S /\ Tail(s) \in Seq(S)
      /\ DOMAIN Tail(s) = 1..(Len(s) - 1)
      /\ \A i \in 1..(Len(s) - 1) : Tail(s)[i] = s[i + 1]
  BY <1>1
<1>3. ToSet(s) = {Head(s)} \cup ToSet(Tail(s))
  <2>1. ASSUME NEW i \in DOMAIN s PROVE s[i] \in {Head(s)} \cup ToSet(Tail(s))
    <3>1. CASE i = 1
      BY <1>2, <3>1
    <3>2. CASE i # 1
      <4>1. i - 1 \in 1..(Len(s) - 1) /\ (i - 1) + 1 = i
        BY <1>1, <3>2
      <4> QED
        BY <1>2, <4>1 DEF ToSet
    <3> QED
      BY <3>1, <3>2
  <2>2. ASSUME NEW i \in 1..(Len(s) - 1) PROVE Tail(s)[i] \in ToSet(s)
    <3>1. i + 1 \in DOMAIN s
      BY <1>1
    <3> QED
      BY <1>2, <3>1 DEF ToSet
  <2> QED
    BY <1>1, <1>2, <2>1, <2>2 DEF ToSet
<1>4. ASSUME IsInjective(s) PROVE IsInjective(Tail(s)) /\ Head(s) \notin ToSet(Tail(s))
  <2>1. ASSUME NEW i \in 1..(Len(s) - 1), NEW j \in 1..(Len(s) - 1), Tail(s)[i] = Tail(s)[j]
        PROVE  i = j
    <3>1. i + 1 \in DOMAIN s /\ j + 1 \in DOMAIN s /\ s[i + 1] = s[j + 1]
      BY <1>1, <1>2, <2>1
    <3>2. i + 1 = j + 1
      BY <1>4, <3>1 DEF IsInjective
    <3> QED
      BY <3>2
  <2>2. ASSUME NEW i \in 1..(Len(s) - 1) PROVE Tail(s)[i] # Head(s)
    <3>1. i + 1 \in DOMAIN s /\ 1 \in DOMAIN s /\ i + 1 # 1
      BY <1>1
    <3> QED
      BY <1>2, <1>4, <3>1 DEF IsInjective
  <2> QED
    BY <1>2, <2>1, <2>2 DEF IsInjective, ToSet
<1> QED
  BY <1>2, <1>3, <1>4

LEMMA AddLast ==
    ASSUME NEW S, NEW s \in Seq(S), NEW x \in S
    PROVE  /\ Append(s, x) \in Seq(S)
           /\ ToSet(Append(s, x)) = ToSet(s) \cup {x}
           /\ IsInjective(s) /\ x \notin ToSet(s) => IsInjective(Append(s, x))
<1>1. /\ Len(s) \in Nat /\ DOMAIN s = 1..Len(s)
      /\ Append(s, x) \in Seq(S) /\ DOMAIN Append(s, x) = 1..(Len(s) + 1)
      /\ \A i \in 1..Len(s) : Append(s, x)[i] = s[i]
      /\ Append(s, x)[Len(s) + 1] = x
  OBVIOUS
<1>2. 1..(Len(s) + 1) = 1..Len(s) \cup {Len(s) + 1} /\ Len(s) + 1 \notin 1..Len(s)
  BY <1>1
<1>3. ToSet(Append(s, x)) = ToSet(s) \cup {x}
  BY <1>1, <1>2 DEF ToSet
<1>4. ASSUME IsInjective(s), x \notin ToSet(s) PROVE IsInjective(Append(s, x))
  BY <1>1, <1>2, <1>4 DEF IsInjective, ToSet
<1> QED
  BY <1>1, <1>3, <1>4

-----------------------------------------------------------------------------
(* What a built appender n had: no fault of its own, enough references.    *)
Sound(n) == /\ fault.at # n
            /\ EnoughRefs(n)
            /\ spec[n].kind = "routing" => Delegates(n) # <<>>

(* Each name of the configuration is in one place: built, to be visited    *)
(* in this pass, or left for the next one.                                 *)
Sorted == /\ pass \in Seq(Names) /\ IsInjective(pass)
          /\ remaining \in Seq(Names) /\ IsInjective(remaining)
          /\ ToSet(list) \cap ToSet(pass) = {}
          /\ ToSet(list) \cap ToSet(remaining) = {}
          /\ ToSet(pass) \cap ToSet(remaining) = {}
          /\ ToSet(list) \cup ToSet(pass) \cup ToSet(remaining) = Names

ListInv == /\ list \in Seq(Names) /\ IsInjective(list)
           /\ \A i \in DOMAIN list :
                /\ Sound(list[i])
                /\ \A m \in Children(list[i]) : \E j \in 1..(i - 1) : list[j] = m

(* A pass that has built nothing left in remaining what still waits.       *)
Stuck == \A n \in ToSet(remaining) : "waiting" \in Resolutions(n)

BuildInv ==
    /\ fault \in Faults
    /\ ListInv
    /\ phase \in {"concrete", "composite"} => Sorted
    /\ phase = "composite" /\ ~progress => Stuck
    /\ phase = "ready" => ToSet(list) = Names /\ fault = NoFault
    /\ failed => ~Buildable

(* Everything a step reads of the specifications stays as it is.           *)
LEMMA InputsStay ==
    ASSUME inputVars' = inputVars
    PROVE  /\ \A n : /\ Delegates(n)' = Delegates(n) /\ Children(n)' = Children(n)
                     /\ EnoughRefs(n)' = EnoughRefs(n) /\ Sound(n)' = Sound(n)
           /\ Buildable' = Buildable
<1>1. spec' = spec /\ fault' = fault
  BY DEF inputVars
<1>2. \A n : Delegates(n)' = Delegates(n)
  BY <1>1 DEF Delegates, IsComposite, IsAsync
<1>3. \A n : Children(n)' = Children(n)
  BY <1>2 DEF Children
<1>4. \A n : EnoughRefs(n)' = EnoughRefs(n)
  BY <1>1, <1>2 DEF EnoughRefs
<1>5. \A n : Sound(n)' = Sound(n)
  BY <1>1, <1>2, <1>4 DEF Sound
<1>6. Buildable' = Buildable
  BY <1>1, <1>2, <1>3, <1>4 DEF Buildable, WellFounded
<1> QED
  BY <1>2, <1>3, <1>4, <1>5, <1>6

(* The list grows by an appender whose delegates are all in it.            *)
LEMMA ListGrows ==
    ASSUME ListInv, NEW n \in Names, n \notin ToSet(list), Sound(n),
           Children(n) \subseteq ToSet(list), list' = Append(list, n),
           inputVars' = inputVars
    PROVE  ListInv' /\ ToSet(list)' = ToSet(list) \cup {n}
<1>1. /\ list \in Seq(Names) /\ Len(list) \in Nat /\ DOMAIN list = 1..Len(list)
      /\ DOMAIN list' = 1..(Len(list) + 1)
      /\ \A i \in 1..Len(list) : list'[i] = list[i]
      /\ list'[Len(list) + 1] = n
  BY DEF ListInv
<1>2. /\ list' \in Seq(Names) /\ IsInjective(list)' /\ ToSet(list)' = ToSet(list) \cup {n}
  BY AddLast DEF ListInv
<1>3. ASSUME NEW i \in DOMAIN list'
      PROVE  /\ Sound(list'[i])
             /\ \A m \in Children(list'[i]) : \E j \in 1..(i - 1) : list'[j] = m
  <2>1. CASE i = Len(list) + 1
    <3>1. ASSUME NEW m \in Children(n) PROVE \E j \in 1..(i - 1) : list'[j] = m
      BY <1>1, <2>1, <3>1 DEF ToSet
    <3> QED
      BY <1>1, <2>1, <3>1
  <2>2. CASE i # Len(list) + 1
    <3>1. i \in 1..Len(list) /\ \A j \in 1..(i - 1) : j \in 1..Len(list)
      BY <1>1, <2>2
    <3>2. list'[i] = list[i] /\ \A j \in 1..(i - 1) : list'[j] = list[j]
      BY <1>1, <3>1
    <3> QED
      BY <1>1, <3>1, <3>2 DEF ListInv
  <2> QED
    BY <2>1, <2>2
<1>4. spec' = spec /\ fault' = fault
  BY DEF inputVars
<1>5. ASSUME NEW i \in DOMAIN list'
      PROVE  Sound(list[i])' /\ (\A m \in Children(list[i]) : \E j \in 1..(i - 1) : list[j] = m)'
  BY <1>3, <1>4, <1>5
  DEF Sound, EnoughRefs, Children, Delegates, IsComposite, IsAsync
<1> QED
  BY <1>2, <1>5 DEF ListInv

(* A list of every name has no cycle: of the members of a set, the first   *)
(* in the list refers to none of them.                                     *)
LEMMA FullListIsBuildable ==
    ASSUME ListInv, ToSet(list) = Names, fault = NoFault
    PROVE  Buildable
<1>1. ASSUME NEW S \in (SUBSET Names) \ {{}} PROVE \E n \in S : Children(n) \cap S = {}
  <2> DEFINE Places == {i \in DOMAIN list : list[i] \in S}
  <2>1. Places \in SUBSET Nat /\ Places # {}
    <3>1. list \in Seq(Names) /\ DOMAIN list \subseteq Nat
      BY DEF ListInv
    <3> QED
      BY <3>1 DEF ToSet
  <2>2. PICK i \in Places : \A j \in Places : i <= j
    BY <2>1, LeastNatural
  <2>3. ASSUME NEW m \in Children(list[i]) PROVE m \notin S
    <3>1. PICK j \in 1..(i - 1) : list[j] = m
      BY <2>2 DEF ListInv
    <3>2. j \in DOMAIN list /\ j < i
      <4>1. list \in Seq(Names) /\ i \in DOMAIN list
        BY <2>2 DEF ListInv
      <4> QED
        BY <3>1, <4>1
    <3>3. j \notin Places
      <4>1. i \in Nat /\ j \in Nat
        BY <2>1, <2>2, <3>1
      <4> QED
        BY <2>2, <3>2, <4>1
    <3> QED
      BY <3>1, <3>2, <3>3
  <2> QED
    BY <2>2, <2>3
<1>2. ASSUME NEW n \in Names
      PROVE  /\ EnoughRefs(n) /\ Children(n) \subseteq Names
             /\ spec[n].kind = "routing" => Delegates(n) # <<>>
  <2>1. PICK i \in DOMAIN list : list[i] = n
    BY DEF ToSet
  <2>2. Sound(n) /\ \A m \in Children(n) : \E j \in 1..(i - 1) : list[j] = m
    BY <2>1 DEF ListInv
  <2>3. ASSUME NEW m \in Children(n) PROVE m \in Names
    <3>1. PICK j \in 1..(i - 1) : list[j] = m
      BY <2>2
    <3>2. j \in DOMAIN list
      <4>1. list \in Seq(Names)
        BY DEF ListInv
      <4> QED
        BY <2>1, <3>1, <4>1
    <3> QED
      BY <3>1, <3>2 DEF ListInv
  <2> QED
    BY <2>2, <2>3 DEF Sound
<1> QED
  BY <1>1, <1>2 DEF Buildable, WellFounded

(* An answer other than waiting settles it.                                *)
LEMMA ErrorIsFinal ==
    ASSUME NEW n \in Names, "error" \in Resolutions(n)
    PROVE  ~Buildable
BY DEF Resolutions, Deciding, Missing, Buildable, Children, ToSet

LEMMA BuiltIsSound ==
    ASSUME NEW n \in Names, fault \in Faults, "built" \in Resolutions(n),
           FactoryMakes(n), Wrapped(n)
    PROVE  Sound(n) /\ Children(n) \subseteq ToSet(list)
<1>1. EnoughRefs(n) /\ \A i \in DOMAIN Delegates(n) : Delegates(n)[i].to \in ToSet(list)
  BY DEF Resolutions, Missing
<1>2. Children(n) \subseteq ToSet(list)
  BY <1>1 DEF Children, ToSet
<1>3. fault.at # n
  BY GraphAssumption DEF Faults, NoFault, FactoryMakes, Wrapped
<1> QED
  BY <1>1, <1>2, <1>3 DEF Sound, FactoryMakes

(* What waits refers to something that is not built; when nothing else is  *)
(* left, that is a cycle or a name that is not there.                      *)
LEMMA StuckIsCyclic ==
    ASSUME Stuck, NEW S \in SUBSET Names, S = ToSet(remaining), S # {},
           ToSet(list) \cup S = Names
    PROVE  ~Buildable
<1>1. ASSUME NEW n \in S, Children(n) \subseteq Names PROVE Children(n) \cap S # {}
  <2>1. PICK i \in DOMAIN Delegates(n) : Delegates(n)[i].to \notin ToSet(list)
    BY DEF Stuck, Resolutions, Deciding, Missing
  <2>2. Delegates(n)[i].to \in Children(n)
    BY <2>1 DEF Children, ToSet
  <2> QED
    BY <1>1, <2>1, <2>2
<1> QED
  BY <1>1 DEF Buildable, WellFounded

(* A step that builds nothing.                                             *)
LEMMA ListStays ==
    ASSUME inputVars' = inputVars, list' = list
    PROVE  /\ ListInv => ListInv'
           /\ ToSet(list)' = ToSet(list)
           /\ \A n : Resolutions(n)' = Resolutions(n)
<1>1. spec' = spec /\ fault' = fault
  BY DEF inputVars
<1>2. ASSUME ListInv PROVE ListInv'
  <2>1. ASSUME NEW i \in DOMAIN list'
        PROVE  /\ Sound(list[i])'
               /\ (\A m \in Children(list[i]) : \E j \in 1..(i - 1) : list[j] = m)'
    <3>1. i \in DOMAIN list /\ list'[i] = list[i]
      OBVIOUS
    <3>2. Sound(list[i]) /\ \A m \in Children(list[i]) : \E j \in 1..(i - 1) : list[j] = m
      BY <1>2, <3>1 DEF ListInv
    <3> QED
      BY <1>1, <3>1, <3>2
      DEF Sound, EnoughRefs, Children, Delegates, IsComposite, IsAsync
  <2> QED
    BY <1>2, <2>1 DEF ListInv
<1>3. \A n : Delegates(n)' = Delegates(n) /\ EnoughRefs(n)' = EnoughRefs(n)
  BY InputsStay
<1>4. \A n : Resolutions(n)' = Resolutions(n)
  BY <1>1, <1>3 DEF Resolutions, Deciding, Missing
<1> QED
  BY <1>2, <1>4

LEMMA BuildInit == GraphInit /\ source = "config" => BuildInv
<1> SUFFICES ASSUME GraphInit, source = "config" PROVE BuildInv
  OBVIOUS
<1>1. /\ fault \in Faults /\ phase = "concrete" /\ pass \in SortedKeys /\ list = <<>>
      /\ remaining = <<>> /\ failed = FALSE
  BY DEF GraphInit, InitConfig, InitCode, NothingYet
<1>2. pass \in Seq(Names) /\ IsInjective(pass) /\ ToSet(pass) = Names
  <2>1. Cardinality(Names) \in Nat
    BY GraphAssumption, FS_CardinalityType
  <2>2. /\ pass \in [1..Cardinality(Names) -> Names] /\ ToSet(pass) = Names
        /\ \A i, j \in DOMAIN pass : i < j => pass[i] < pass[j]
    BY <1>1 DEF SortedKeys
  <2>3. ASSUME NEW i \in DOMAIN pass, NEW j \in DOMAIN pass, pass[i] = pass[j] PROVE i = j
    <3>1. i \in Nat /\ j \in Nat /\ pass[i] \in Int
      <4>1. i \in 1..Cardinality(Names) /\ j \in 1..Cardinality(Names) /\ pass[i] \in Names
        BY <2>2
      <4>2. i \in Nat /\ j \in Nat
        BY <2>1, <4>1
      <4>3. pass[i] \in Int
        BY <4>1, GraphAssumption
      <4> QED
        BY <4>2, <4>3
    <3>2. ~(i < j) /\ ~(j < i)
      BY <2>2, <2>3, <3>1
    <3> QED
      BY <3>1, <3>2
  <2>4. pass \in Seq(Names)
    BY <2>1, <2>2
  <2> QED
    BY <2>2, <2>3, <2>4 DEF IsInjective
<1>3. ToSet(<<>>) = {} /\ IsInjective(<<>>) /\ <<>> \in Seq(Names)
  BY DEF ToSet, IsInjective
<1> QED
  BY <1>1, <1>2, <1>3 DEF BuildInv, ListInv, Sorted

LEMMA BuildStepKeeps == BuildInv /\ source = "config" /\ [GraphNext]_graphVars => BuildInv'
<1> SUFFICES ASSUME BuildInv, [GraphNext]_graphVars PROVE BuildInv'
  OBVIOUS
<1>0. inputVars' = inputVars
  BY DEF GraphNext, graphVars, BuildStep, BuildConcrete, DeferComposite, FailConcrete,
         BuildComposite, WaitForRefs, FailComposite, NextPass, FailUnresolved, FinishOptions,
         Log, HandOn, StartClose, CloseNext, EndClose
<1>1. fault' \in Faults /\ Buildable' = Buildable
  BY <1>0, InputsStay DEF BuildInv, inputVars, Faults, NoFault
<1>2. ToSet(<<>>) = {} /\ IsInjective(<<>>) /\ <<>> \in Seq(Names)
  BY DEF ToSet, IsInjective
<1> DEFINE n == Head(pass)
<1>3. ASSUME phase \in {"concrete", "composite"}, pass # <<>>
      PROVE  /\ n \in Names /\ Tail(pass) \in Seq(Names)
             /\ ToSet(pass) = {n} \cup ToSet(Tail(pass))
             /\ IsInjective(Tail(pass)) /\ n \notin ToSet(Tail(pass))
             /\ n \notin ToSet(list) /\ n \notin ToSet(remaining)
  BY <1>3, TakeHead DEF BuildInv, Sorted
<1>4. ASSUME phase \in {"concrete", "composite"}, pass # <<>>, Sound(n),
             Children(n) \subseteq ToSet(list), list' = Append(list, n),
             pass' = Tail(pass), remaining' = remaining, phase' = phase, failed' = failed,
             phase = "composite" => progress'
      PROVE  BuildInv'
  <2>1. ListInv' /\ ToSet(list)' = ToSet(list) \cup {n}
    BY <1>0, <1>3, <1>4, ListGrows DEF BuildInv
  <2>2. Sorted'
    BY <1>3, <1>4, <2>1 DEF BuildInv, Sorted
  <2> QED
    BY <1>1, <1>4, <2>1, <2>2 DEF BuildInv
<1>5. ASSUME phase \in {"concrete", "composite"}, pass # <<>>, list' = list,
             pass' = Tail(pass), remaining' = Append(remaining, n), phase' = phase,
             failed' = failed, progress' = progress,
             phase = "composite" => "waiting" \in Resolutions(n)
      PROVE  BuildInv'
  <2>1. /\ remaining' \in Seq(Names) /\ IsInjective(remaining')
        /\ ToSet(remaining') = ToSet(remaining) \cup {n}
    BY <1>3, <1>5, AddLast DEF BuildInv, Sorted
  <2>2. /\ ListInv' /\ ToSet(list)' = ToSet(list)
        /\ \A m : Resolutions(m)' = Resolutions(m)
    BY <1>0, <1>5, ListStays DEF BuildInv
  <2>3. Sorted'
    BY <1>3, <1>5, <2>1, <2>2 DEF BuildInv, Sorted
  <2>4. phase = "composite" /\ ~progress => Stuck'
    BY <1>5, <2>1, <2>2 DEF BuildInv, Stuck
  <2> QED
    BY <1>1, <1>5, <2>2, <2>3, <2>4 DEF BuildInv
<1>6. ASSUME list' = list, phase' \in {"closing", "closed"}, failed' => failed \/ ~Buildable
      PROVE  BuildInv'
  BY <1>0, <1>1, <1>6, ListStays DEF BuildInv
<1>7. ASSUME UNCHANGED buildVars
      PROVE  BuildInv'
  <2>1. ListInv' /\ ToSet(list)' = ToSet(list) /\ \A m : Resolutions(m)' = Resolutions(m)
    BY <1>0, <1>7, ListStays DEF BuildInv, buildVars
  <2>2. Stuck => Stuck'
    BY <1>7, <2>1 DEF Stuck, buildVars
  <2>3. fault' = fault
    BY <1>0 DEF inputVars
  <2> QED
    BY <1>1, <1>7, <2>1, <2>2, <2>3 DEF BuildInv, Sorted, buildVars
<1>8. CASE BuildConcrete
  <2>1. Children(n) = {} /\ EnoughRefs(n) /\ Sound(n)
    BY <1>8 DEF BuildConcrete, Sound, EnoughRefs, Children, ToSet, Delegates, IsComposite,
                Composites
  <2> QED
    BY <1>4, <1>8, <2>1 DEF BuildConcrete
<1>9. CASE DeferComposite
  BY <1>5, <1>9 DEF DeferComposite
<1>10. CASE FailConcrete
  <2>1. fault # NoFault
    BY <1>3, <1>10, GraphAssumption DEF FailConcrete, NoFault
  <2> QED
    BY <1>6, <1>10, <2>1 DEF FailConcrete, FailBuild, BeginClose, Buildable
<1>11. CASE BuildComposite
  <2>1. Sound(n) /\ Children(n) \subseteq ToSet(list)
    BY <1>3, <1>11, BuiltIsSound DEF BuildComposite, BuildInv
  <2> QED
    BY <1>4, <1>11, <2>1 DEF BuildComposite
<1>12. CASE WaitForRefs
  BY <1>5, <1>12 DEF WaitForRefs
<1>13. CASE FailComposite
  <2>1. n \in Names
    BY <1>3, <1>13 DEF FailComposite
  <2>2. ASSUME "built" \in Resolutions(n), ~(FactoryMakes(n) /\ Wrapped(n)) PROVE ~Buildable
    <3>1. CASE spec[n].kind = "routing" /\ Delegates(n) = <<>>
      BY <2>1, <3>1 DEF Buildable
    <3>2. CASE fault.at = n
      BY <2>1, <3>2, GraphAssumption DEF NoFault, Buildable
    <3> QED
      BY <2>2, <3>1, <3>2 DEF FactoryMakes, Wrapped
  <2>3. ~Buildable
    BY <1>13, <2>1, <2>2, ErrorIsFinal DEF FailComposite
  <2> QED
    BY <1>6, <1>13, <2>3 DEF FailComposite, FailBuild, BeginClose
<1>14. CASE NextPass
  <2>1. ListInv' /\ ToSet(list)' = ToSet(list)
    BY <1>0, <1>14, ListStays DEF NextPass, BuildInv
  <2>2. Sorted'
    BY <1>2, <1>14, <2>1 DEF NextPass, BuildInv, Sorted
  <2>3. Stuck'
    BY <1>2, <1>14 DEF NextPass, Stuck
  <2> QED
    BY <1>1, <1>14, <2>1, <2>2, <2>3 DEF NextPass, BuildInv
<1>15. CASE FailUnresolved
  <2>1. /\ Stuck /\ ToSet(remaining) \subseteq Names
        /\ ToSet(list) \cup ToSet(remaining) = Names
    BY <1>2, <1>15 DEF FailUnresolved, BuildInv, Sorted
  <2>2. ToSet(remaining) # {}
    BY <1>15, TakeHead DEF FailUnresolved, BuildInv, Sorted
  <2>3. ~Buildable
    BY <2>1, <2>2, StuckIsCyclic
  <2> QED
    BY <1>6, <1>15, <2>3 DEF FailUnresolved, FailBuild, BeginClose
<1>16. CASE FinishOptions
  <2>1. ToSet(list) = Names
    BY <1>2, <1>16 DEF FinishOptions, BuildInv, Sorted
  <2>2. CASE fault.how = "options"
    <3>1. fault # NoFault
      BY <2>2 DEF NoFault
    <3> QED
      BY <1>6, <1>16, <2>2, <3>1 DEF FinishOptions, FailBuild, BeginClose, Buildable
  <2>3. CASE fault.how # "options"
    <3>1. fault.at \notin Names
      BY <2>1 DEF BuildInv, ListInv, Sound, ToSet
    <3>2. fault = NoFault /\ fault' = NoFault
      BY <1>0, <2>3, <3>1 DEF BuildInv, Faults, NoFault, inputVars
    <3>3. ListInv' /\ ToSet(list)' = Names
      BY <1>0, <1>16, <2>1, ListStays DEF FinishOptions, BuildInv
    <3> QED
      BY <1>1, <1>16, <2>3, <3>2, <3>3 DEF FinishOptions, BuildInv
  <2> QED
    BY <2>2, <2>3
<1>17. CASE StartClose
  BY <1>6, <1>17 DEF StartClose, BeginClose
<1>18. CASE EndClose
  BY <1>6, <1>18 DEF EndClose
<1>19. ASSUME \/ \E e \in Events, m \in Names : Log(e, m)
              \/ \E a \in Names : HandOn(a)
              \/ CloseNext
              \/ UNCHANGED graphVars
       PROVE  UNCHANGED buildVars
  BY <1>19 DEF Log, HandOn, CloseNext, graphVars
<1> QED
  BY <1>7, <1>8, <1>9, <1>10, <1>11, <1>12, <1>13, <1>14, <1>15, <1>16, <1>17, <1>18, <1>19
  DEF GraphNext, BuildStep

(* For every finite set of names, every graph of references and every      *)
(* single fault: a configuration is built exactly when it can be, and each *)
(* appender stands after those it refers to (config_appender_methods.go    *)
(* buildAppenders).                                                        *)
THEOREM ConfigurationsAreBuilt == GraphSpec => []BuildsWhatItCan
<1> DEFINE ConfigBuilt == source = "config" => BuildInv
<1>1. GraphInit => ConfigBuilt
  BY BuildInit
<1>2. ConfigBuilt /\ [GraphNext]_graphVars => ConfigBuilt'
  <2>1. [GraphNext]_graphVars => source' = source
    BY DEF GraphNext, graphVars, inputVars, BuildStep, BuildConcrete, DeferComposite,
           FailConcrete, BuildComposite, WaitForRefs, FailComposite, NextPass, FailUnresolved,
           FinishOptions, Log, HandOn, StartClose, CloseNext, EndClose
  <2> QED
    BY <2>1, BuildStepKeeps
<1>3. ConfigBuilt => BuildsWhatItCan
  <2> SUFFICES ASSUME BuildInv PROVE BuildsWhatItCan
    BY DEF BuildsWhatItCan
  <2>1. phase = "ready" => Buildable /\ ToSet(list) = Names
    BY FullListIsBuildable DEF BuildInv
  <2>2. ASSUME NEW n \in ToSet(list), NEW m \in Children(n)
        PROVE  m \in ToSet(list) /\ Position(m) < Position(n)
    <3>1. PICK i \in DOMAIN list : list[i] = n
      BY <2>2 DEF ToSet
    <3>2. PICK j \in 1..(i - 1) : list[j] = m
      BY <2>2, <3>1 DEF BuildInv, ListInv
    <3>3. j \in DOMAIN list /\ i \in Nat /\ j \in Nat /\ j < i
      <4>1. list \in Seq(Names)
        BY DEF BuildInv, ListInv
      <4> QED
        BY <3>1, <3>2, <4>1
    <3>4. Position(n) = i /\ Position(m) = j
      BY <3>1, <3>2, <3>3 DEF BuildInv, ListInv, IsInjective, Position
    <3> QED
      BY <3>2, <3>3, <3>4 DEF ToSet
  <2> QED
    BY <2>1, <2>2 DEF BuildInv, BuildsWhatItCan
<1> QED
  BY <1>1, <1>2, <1>3, PTL DEF GraphSpec
-----------------------------------------------------------------------------
(* The elements of a sequence at some places.                              *)

(* Some numbers have a greatest.                                           *)
LEMMA GreatestNumber ==
    ASSUME NEW S \in SUBSET Nat, IsFiniteSet(S), S # {}
    PROVE  \E m \in S : \A x \in S : x <= m
<1> DEFINE bad == {s \in SUBSET S : s # {} /\ ~\E m \in s : \A x \in s : x <= m}
<1> SUFFICES ASSUME bad # {} PROVE FALSE
  OBVIOUS
<1>1. PICK s \in bad : \A x \in s : s \ {x} \notin bad
  BY SmallestSet
<1>2. PICK y \in s : TRUE
  BY <1>1
<1>3. CASE s \ {y} = {}
  <2>1. \A x \in s : x <= y
    BY <1>1, <1>2, <1>3
  <2> QED
    BY <1>1, <1>2, <2>1
<1>4. CASE s \ {y} # {}
  <2>1. PICK m \in s \ {y} : \A x \in s \ {y} : x <= m
    BY <1>1, <1>2, <1>4
  <2>2. m \in Nat /\ y \in Nat /\ s \subseteq Nat
    BY <1>1, <1>2, <2>1
  <2>3. CASE y <= m
    BY <1>1, <1>2, <2>1, <2>3
  <2>4. CASE ~(y <= m)
    <3>1. \A x \in s : x <= y
      BY <1>2, <2>1, <2>2, <2>4
    <3> QED
      BY <1>1, <1>2, <3>1
  <2> QED
    BY <2>3, <2>4
<1> QED
  BY <1>3, <1>4

Increasing(order, places) ==
    /\ order \in [1..Cardinality(places) -> places]
    /\ \A i, j \in DOMAIN order : i < j => order[i] < order[j]

(* The places of a list have an order.                                     *)
LEMMA OrderThereIs ==
    ASSUME NEW places \in SUBSET Nat, IsFiniteSet(places)
    PROVE  \E order : Increasing(order, places)
<1> DEFINE bad == {s \in SUBSET places : ~\E order : Increasing(order, s)}
<1> SUFFICES ASSUME bad # {} PROVE FALSE
  OBVIOUS
<1>1. PICK s \in bad : \A x \in s : s \ {x} \notin bad
  BY SmallestSet
<1>2. s # {}
  <2>1. Cardinality({}) = 0
    BY FS_EmptySet
  <2>2. Increasing([i \in 1..0 |-> i], {})
    BY <2>1 DEF Increasing
  <2> QED
    BY <1>1, <2>2
<1>3. IsFiniteSet(s)
  BY <1>1, FS_Subset
<1>4. PICK m \in s : \A x \in s : x <= m
  BY <1>1, <1>2, <1>3, GreatestNumber
<1>5. PICK order : Increasing(order, s \ {m})
  BY <1>1, <1>4
<1> DEFINE n == Cardinality(s)
           longer == [i \in 1..n |-> IF i = n THEN m ELSE order[i]]
<1>6. n \in Nat /\ Cardinality(s \ {m}) = n - 1
  BY <1>3, <1>4, FS_CardinalityType, FS_RemoveElement
<1> HIDE DEF n
<1>7. order \in [1..(n - 1) -> s \ {m}] /\ \A i, j \in 1..(n - 1) : i < j => order[i] < order[j]
  BY <1>5, <1>6 DEF Increasing
<1>8. longer \in [1..n -> s]
  BY <1>4, <1>6, <1>7
<1>9. \A i, j \in 1..n : i < j => longer[i] < longer[j]
  <2> TAKE i \in 1..n, j \in 1..n
  <2> HAVE i < j
  <2>1. i \in 1..(n - 1) /\ longer[i] = order[i] /\ order[i] \in s \ {m}
    BY <1>6, <1>7
  <2>2. CASE j = n
    <3>1. order[i] <= m /\ order[i] # m /\ order[i] \in Nat /\ m \in Nat
      BY <1>1, <1>4, <2>1
    <3> QED
      BY <2>1, <2>2, <3>1
  <2>3. CASE j # n
    <3>1. j \in 1..(n - 1) /\ longer[j] = order[j]
      BY <1>6, <2>3
    <3> QED
      BY <1>7, <2>1, <3>1
  <2> QED
    BY <2>2, <2>3
<1>10. Increasing(longer, s)
  <2> HIDE DEF longer
  <2> QED
    BY <1>8, <1>9 DEF Increasing, n
<1> QED
  BY <1>1, <1>10

(* order enumerates the places, sub is what s has there.                   *)
Enumerates(order, sub, s, places) ==
    /\ Cardinality(places) \in Nat
    /\ order \in [1..Cardinality(places) -> places]
    /\ \A i, j \in 1..Cardinality(places) : order[i] = order[j] => i = j
    /\ \A p \in places : \E i \in 1..Cardinality(places) : order[i] = p
    /\ sub = [i \in 1..Cardinality(places) |-> s[order[i]]]

(* A sublist has each of its places once.                                  *)
LEMMA SublistFacts ==
    ASSUME NEW s, NEW places \in SUBSET Nat, IsFiniteSet(places)
    PROVE  \E order : Enumerates(order, Sublist(s, places), s, places)
<1> DEFINE order == CHOOSE o \in [1..Cardinality(places) -> places] :
                      \A i, j \in DOMAIN o : i < j => o[i] < o[j]
           n == Cardinality(places)
<1>1. /\ order \in [1..n -> places]
      /\ \A i, j \in 1..n : i < j => order[i] < order[j]
  <2>1. PICK o : Increasing(o, places)
    BY OrderThereIs
  <2> QED
    BY <2>1 DEF Increasing
<1>2. Sublist(s, places) = [i \in 1..n |-> s[order[i]]]
  <2>1. Sublist(s, places) = [k \in DOMAIN order |-> s[order[k]]]
    BY DEF Sublist
  <2> HIDE DEF order, n
  <2> QED
    BY <1>1, <2>1
<1>3. n \in Nat
  BY FS_CardinalityType
<1> HIDE DEF order, n
<1>4. \A i, j \in 1..n : order[i] = order[j] => i = j
  <2> TAKE i \in 1..n, j \in 1..n
  <2> HAVE order[i] = order[j]
  <2>1. order[i] \in Nat
    BY <1>1
  <2>2. ~(i < j) /\ ~(j < i)
    BY <1>1, <2>1
  <2> QED
    BY <1>3, <2>2
<1>5. \A p \in places : \E i \in 1..n : order[i] = p
  <2>1. order \in Injection(1..n, places)
    BY <1>1, <1>4 DEF Injection, IsInjective
  <2>2. Cardinality(1..n) = n
    BY <1>3, FS_Interval
  <2>3. order \in Surjection(1..n, places)
    <3>1. IsFiniteSet(1..n)
      BY <1>3, FS_Interval
    <3> QED
      BY <2>1, <2>2, <3>1, FS_Injection DEF n
  <2> QED
    BY <2>3 DEF Surjection
<1> QED
  <2>1. Enumerates(order, Sublist(s, places), s, places)
    BY <1>1, <1>2, <1>3, <1>4, <1>5 DEF Enumerates, n
  <2> QED
    BY <2>1

(* Below the members of N there is no endless descent.                     *)
NoDescent(N, below) ==
    /\ below \in [N -> SUBSET N]
    /\ \A S \in (SUBSET N) \ {{}} : \E n \in S : below[n] \cap S = {}

(* step takes the value at a member from the values below it.              *)
FromBelow(N, below, V, step) ==
    /\ step \in [N \X [N -> V] -> V]
    /\ \A n \in N : \A f, g \in [N -> V] :
          (\A m \in below[n] : f[m] = g[m]) => step[<<n, f>>] = step[<<n, g>>]

Defined(N, V, step) == \E f \in [N -> V] : \A n \in N : f[n] = step[<<n, f>>]

(* Values taken from the values below define a function.                   *)
LEMMA DescentDefines ==
    ASSUME NEW N, IsFiniteSet(N), NEW below, NoDescent(N, below),
           NEW V, V # {}, NEW step, FromBelow(N, below, V, step)
    PROVE  Defined(N, V, step)
<1>1. below \in [N -> SUBSET N] /\ \A S \in (SUBSET N) \ {{}} : \E n \in S : below[n] \cap S = {}
  BY DEF NoDescent
<1>2. step \in [N \X [N -> V] -> V]
  BY DEF FromBelow
<1> DEFINE Done(D) == \E f \in [N -> V] : \A n \in N \ D : f[n] = step[<<n, f>>]
           Loose(D) == \A n \in N \ D : below[n] \cap D = {}
           left == {D \in SUBSET N : Done(D) /\ Loose(D)}
<1>3. left # {}
  <2>1. PICK v \in V : TRUE
    OBVIOUS
  <2>2. [n \in N |-> v] \in [N -> V]
    OBVIOUS
  <2> QED
    BY <2>2
<1>4. PICK D \in left : \A x \in D : D \ {x} \notin left
  <2>1. left \in SUBSET SUBSET N
    OBVIOUS
  <2> HIDE DEF left
  <2> QED
    BY <1>3, <2>1, SmallestSet
<1>5. D = {}
  <2> SUFFICES ASSUME D # {} PROVE FALSE
    OBVIOUS
  <2>1. D \in (SUBSET N) \ {{}}
    BY <1>4
  <2>2. PICK n \in D : below[n] \cap D = {}
    BY <1>1, <2>1
  <2>3. PICK f \in [N -> V] : \A k \in N \ D : f[k] = step[<<k, f>>]
    BY <1>4
  <2> DEFINE g == [f EXCEPT ![n] = step[<<n, f>>]]
  <2>4. n \in N /\ step[<<n, f>>] \in V
    BY <1>4, <1>2, <2>2
  <2>5. g \in [N -> V] /\ g[n] = step[<<n, f>>] /\ \A k \in N \ {n} : g[k] = f[k]
    BY <2>4
  <2> HIDE DEF g
  <2>6. ASSUME NEW k \in N \ (D \ {n}) PROVE g[k] = step[<<k, g>>] /\ below[k] \cap (D \ {n}) = {}
    <3>1. below[k] \cap (D \ {n}) = {} /\ n \notin below[k]
      BY <1>4, <2>2
    <3>2. \A m \in below[k] : f[m] = g[m]
      <4> TAKE m \in below[k]
      <4>1. m \in N \ {n}
        BY <1>1, <2>6, <3>1
      <4> QED
        BY <2>5, <4>1
    <3>3. step[<<k, f>>] = step[<<k, g>>]
      <4>1. k \in N /\ f \in [N -> V] /\ g \in [N -> V]
        BY <2>3, <2>5
      <4>2. \A a, b \in [N -> V] :
              (\A m \in below[k] : a[m] = b[m]) => step[<<k, a>>] = step[<<k, b>>]
        BY <4>1, Zenon DEF FromBelow
      <4> QED
        BY <3>2, <4>1, <4>2, Zenon
    <3> QED
      BY <2>2, <2>3, <2>5, <3>1, <3>3
  <2>7. D \ {n} \in left
    BY <1>4, <2>5, <2>6
  <2> QED
    BY <1>4, <2>2, <2>7
<1> QED
  BY <1>4, <1>5 DEF Defined

-----------------------------------------------------------------------------
(* Closing.                                                                *)

SpecShape == \A n \in Names : /\ spec[n].kind \in Composites \cup {"sink"}
                              /\ DOMAIN spec[n].refs \subseteq Nat
                              /\ IsFiniteSet(DOMAIN spec[n].refs)

(* The delegates of an appender are a list of its references.              *)
LEMMA DelegatesAreAList ==
    ASSUME SpecShape, NEW n \in Names
    PROVE  /\ Len(Delegates(n)) \in Nat /\ DOMAIN Delegates(n) = 1..Len(Delegates(n))
           /\ IsFiniteSet(DOMAIN Delegates(n))
           /\ \A i \in DOMAIN Delegates(n) : \E j \in DOMAIN spec[n].refs : Delegates(n)[i] = spec[n].refs[j]
           /\ Children(n) = {Delegates(n)[i].to : i \in DOMAIN Delegates(n)}
<1> DEFINE refs == spec[n].refs
           Refs == {refs[j] : j \in DOMAIN refs}
<1>1. DOMAIN refs \in SUBSET Nat /\ IsFiniteSet(DOMAIN refs)
  BY DEF SpecShape
<1> HIDE DEF refs
<1>2. ASSUME NEW places \in SUBSET DOMAIN refs PROVE Sublist(refs, places) \in Seq(Refs)
  <2>1. places \in SUBSET Nat /\ IsFiniteSet(places)
    BY <1>1, FS_Subset
  <2>2. PICK order : Enumerates(order, Sublist(refs, places), refs, places)
    BY <2>1, SublistFacts
  <2>3. Cardinality(places) \in Nat /\ Sublist(refs, places) \in [1..Cardinality(places) -> Refs]
    BY <2>2 DEF Enumerates
  <2> QED
    BY <2>3, FunctionIsSequence
<1>3. PlainRefs(refs) \in Seq(Refs) /\ ControlRefs(refs) \in Seq(Refs)
  <2>1. /\ {i \in DOMAIN refs : ~refs[i].control} \in SUBSET DOMAIN refs
        /\ {i \in DOMAIN refs : refs[i].control} \in SUBSET DOMAIN refs
    OBVIOUS
  <2> QED
    BY <1>2, <2>1 DEF PlainRefs, ControlRefs
<1>4. Delegates(n) \in Seq(Refs)
  <2> HIDE DEF Refs
  <2>1. <<>> \in Seq(Refs) /\ PlainRefs(refs) \o <<>> \in Seq(Refs)
        /\ PlainRefs(refs) \o ControlRefs(refs) \in Seq(Refs)
    BY <1>3
  <2> QED
    BY <2>1 DEF Delegates, refs
<1>5. Len(Delegates(n)) \in Nat /\ DOMAIN Delegates(n) = 1..Len(Delegates(n))
      /\ \A i \in DOMAIN Delegates(n) : Delegates(n)[i] \in Refs
  <2> HIDE DEF Refs
  <2> QED
    BY <1>4
<1>6. IsFiniteSet(DOMAIN Delegates(n))
  <2>1. IsFiniteSet(1..Len(Delegates(n)))
    BY <1>5, FS_Interval
  <2> QED
    BY <1>5, <2>1
<1>7. Children(n) = {Delegates(n)[i].to : i \in DOMAIN Delegates(n)}
  BY DEF Children, ToSet
<1> QED
  BY <1>5, <1>6, <1>7 DEF refs

(* CloseAppenders asks each appender of the list once.                     *)
LEMMA CloseOrderFacts ==
    ASSUME list \in Seq(Names), IsInjective(list)
    PROVE  /\ CloseOrder(list) \in Seq(Names)
           /\ IsInjective(CloseOrder(list))
           /\ ToSet(CloseOrder(list)) = ToSet(list)
           /\ \A i, j \in DOMAIN CloseOrder(list) :
                 i < j /\ IsAsync(CloseOrder(list)[j]) => IsAsync(CloseOrder(list)[i])
<1> DEFINE A == {i \in DOMAIN list : IsAsync(list[i])}
           B == (DOMAIN list) \ A
           a == Sublist(list, A)
           b == Sublist(list, B)
           p == Cardinality(A)
           q == Cardinality(B)
<1>1. CloseOrder(list) = a \o b
  BY DEF CloseOrder
<1>2. /\ A \in SUBSET Nat /\ B \in SUBSET Nat /\ IsFiniteSet(A) /\ IsFiniteSet(B)
      /\ A \cap B = {} /\ A \cup B = DOMAIN list
      /\ \A i \in DOMAIN list : list[i] \in Names
  <2>1. Len(list) \in Nat /\ DOMAIN list = 1..Len(list) /\ \A i \in DOMAIN list : list[i] \in Names
    OBVIOUS
  <2>2. IsFiniteSet(DOMAIN list)
    BY <2>1, FS_Interval
  <2>3. A \in SUBSET DOMAIN list /\ B \in SUBSET DOMAIN list
    OBVIOUS
  <2>4. IsFiniteSet(A) /\ IsFiniteSet(B)
    BY <2>2, <2>3, FS_Subset
  <2> QED
    BY <2>1, <2>3, <2>4
<1> HIDE DEF A, B
<1>3. PICK o : Enumerates(o, a, list, A)
  BY <1>2, SublistFacts
<1>4. PICK u : Enumerates(u, b, list, B)
  BY <1>2, SublistFacts
<1>5. /\ p \in Nat /\ o \in [1..p -> A]
      /\ \A i, j \in 1..p : o[i] = o[j] => i = j
      /\ \A x \in A : \E i \in 1..p : o[i] = x
      /\ a = [i \in 1..p |-> list[o[i]]]
  BY <1>3 DEF Enumerates
<1>6. /\ q \in Nat /\ u \in [1..q -> B]
      /\ \A i, j \in 1..q : u[i] = u[j] => i = j
      /\ \A x \in B : \E i \in 1..q : u[i] = x
      /\ b = [i \in 1..q |-> list[u[i]]]
  BY <1>4 DEF Enumerates
<1> HIDE DEF a, b, p, q
<1>7. /\ a \in Seq(Names) /\ Len(a) = p /\ DOMAIN a = 1..p
      /\ b \in Seq(Names) /\ Len(b) = q /\ DOMAIN b = 1..q
  <2>1. a \in [1..p -> Names] /\ b \in [1..q -> Names]
    BY <1>2, <1>5, <1>6
  <2> QED
    BY <1>5, <1>6, <2>1, FunctionIsSequence
<1> DEFINE s == a \o b
           at == [i \in 1..(p + q) |-> IF i <= p THEN o[i] ELSE u[i - p]]
<1>8. s \in Seq(Names) /\ DOMAIN s = 1..(p + q) /\ Len(s) = p + q
  BY <1>5, <1>6, <1>7
<1>9. ASSUME NEW i \in 1..(p + q)
      PROVE  /\ s[i] = list[at[i]] /\ at[i] \in DOMAIN list
             /\ i <= p => at[i] = o[i] /\ i \in 1..p /\ at[i] \in A
             /\ ~(i <= p) => at[i] = u[i - p] /\ i - p \in 1..q /\ at[i] \in B
  <2>1. CASE i <= p
    <3>1. i \in 1..p /\ s[i] = a[i]
      BY <1>5, <1>6, <1>7, <2>1
    <3> QED
      BY <1>2, <1>5, <2>1, <3>1
  <2>2. CASE ~(i <= p)
    <3>1. i - p \in 1..q /\ s[i] = b[i - p]
      BY <1>5, <1>6, <1>7, <2>2
    <3> QED
      BY <1>2, <1>6, <2>2, <3>1
  <2> QED
    BY <2>1, <2>2
<1> HIDE DEF s, at
<1>10. \A i, j \in 1..(p + q) : s[i] = s[j] => i = j
  <2> TAKE i \in 1..(p + q), j \in 1..(p + q)
  <2> HAVE s[i] = s[j]
  <2>1. at[i] = at[j]
    BY <1>9 DEF IsInjective
  <2>2. (i <= p) <=> (j <= p)
    BY <1>2, <1>9, <2>1
  <2> QED
    BY <1>5, <1>6, <1>9, <2>1, <2>2
<1>11. ASSUME NEW x \in DOMAIN list PROVE \E i \in 1..(p + q) : s[i] = list[x]
  <2>1. CASE x \in A
    <3>1. PICK i \in 1..p : o[i] = x
      BY <1>5, <2>1
    <3>2. i \in 1..(p + q) /\ i <= p
      BY <1>5, <1>6
    <3> QED
      BY <1>9, <3>1, <3>2
  <2>2. CASE x \in B
    <3>1. PICK i \in 1..q : u[i] = x
      BY <1>6, <2>2
    <3>2. p + i \in 1..(p + q) /\ ~(p + i <= p) /\ (p + i) - p = i
      BY <1>5, <1>6
    <3> QED
      BY <1>9, <3>1, <3>2
  <2> QED
    BY <1>2, <2>1, <2>2
<1>12. s = CloseOrder(list)
  BY <1>1 DEF s
<1>13. IsInjective(s) /\ ToSet(s) = ToSet(list)
  <2>1. IsInjective(s)
    BY <1>8, <1>10 DEF IsInjective
  <2>2. ToSet(s) = {s[i] : i \in 1..(p + q)} /\ ToSet(list) = {list[i] : i \in DOMAIN list}
    BY <1>8 DEF ToSet
  <2>3. ToSet(s) \subseteq ToSet(list)
    BY <1>9, <2>2
  <2>4. ToSet(list) \subseteq ToSet(s)
    BY <1>11, <2>2
  <2> QED
    BY <2>1, <2>3, <2>4
<1>14. \A i, j \in DOMAIN s : i < j /\ IsAsync(s[j]) => IsAsync(s[i])
  <2> TAKE i \in DOMAIN s, j \in DOMAIN s
  <2> HAVE i < j /\ IsAsync(s[j])
  <2>1. i \in 1..(p + q) /\ j \in 1..(p + q)
    BY <1>8
  <2>2. at[j] \in A
    BY <1>9, <2>1 DEF A
  <2>3. j <= p
    BY <1>2, <1>9, <2>1, <2>2
  <2>4. at[i] \in A
    BY <1>5, <1>6, <1>9, <2>1, <2>3
  <2> QED
    BY <1>9, <2>1, <2>4 DEF A
<1> QED
  BY <1>8, <1>12, <1>13, <1>14

-----------------------------------------------------------------------------
(* What a graph built by code keeps to.                                    *)
CodeShape == /\ SpecShape
             /\ \A n \in Names : Children(n) \subseteq Names
             /\ WellFounded

(* Of the delegates with one title the first is there, and no other.       *)
LEMMA UniqueDelegatesAreChildren ==
    ASSUME CodeShape, NEW n \in Names
    PROVE  /\ IsFiniteSet(UniqueDelegates(n))
           /\ UniqueDelegates(n) \subseteq DOMAIN Delegates(n)
           /\ \A i \in UniqueDelegates(n) : Delegates(n)[i].to \in Names /\ Delegates(n)[i].to \in Children(n)
           /\ \A i, j \in UniqueDelegates(n) :
                 title[Delegates(n)[i].to] = title[Delegates(n)[j].to] => i = j
           /\ \A m \in Children(n) : \E i \in UniqueDelegates(n) : title[Delegates(n)[i].to] = title[m]
<1> DEFINE dels == Delegates(n)
<1>1. /\ Len(dels) \in Nat /\ DOMAIN dels = 1..Len(dels) /\ IsFiniteSet(DOMAIN dels)
      /\ Children(n) = {dels[i].to : i \in DOMAIN dels}
  BY DelegatesAreAList DEF CodeShape
<1>2. \A i \in DOMAIN dels : dels[i].to \in Names /\ dels[i].to \in Children(n)
  BY <1>1 DEF CodeShape
<1> DEFINE place(i) == ClosePlace(n, i)
<1>3. /\ UniqueDelegates(n) = {i \in DOMAIN dels : \A j \in DOMAIN dels :
                                 place(j) < place(i) => title[dels[j].to] # title[dels[i].to]}
      /\ \A i \in DOMAIN dels : place(i) \in Nat
      /\ \A i, j \in DOMAIN dels : place(i) = place(j) => i = j
  BY <1>1 DEF UniqueDelegates, ClosePlace
<1> HIDE DEF dels, place
<1>4. IsFiniteSet(UniqueDelegates(n)) /\ UniqueDelegates(n) \subseteq DOMAIN dels
  <2>1. UniqueDelegates(n) \in SUBSET DOMAIN dels
    BY <1>3
  <2> QED
    BY <1>1, <2>1, FS_Subset
<1>5. ASSUME NEW i \in UniqueDelegates(n), NEW j \in UniqueDelegates(n),
             title[dels[i].to] = title[dels[j].to]
      PROVE  i = j
  <2>1. i \in DOMAIN dels /\ j \in DOMAIN dels
    BY <1>4
  <2>2. ~(place(i) < place(j)) /\ ~(place(j) < place(i))
    BY <1>3, <1>5, <2>1
  <2>3. place(i) = place(j)
    BY <1>3, <2>1, <2>2
  <2> QED
    BY <1>3, <2>1, <2>3
<1>6. ASSUME NEW m \in Children(n) PROVE \E i \in UniqueDelegates(n) : title[dels[i].to] = title[m]
  <2> DEFINE T == {i \in DOMAIN dels : title[dels[i].to] = title[m]}
             P == {place(i) : i \in T}
  <2>1. P \in SUBSET Nat /\ P # {}
    BY <1>1, <1>3
  <2>2. PICK k \in P : \A l \in P : k <= l
    <3> HIDE DEF P
    <3> QED
      BY <2>1, LeastNatural
  <2>3. PICK i \in T : k = place(i)
    BY <2>2
  <2>4. ASSUME NEW j \in DOMAIN dels, place(j) < place(i) PROVE title[dels[j].to] # title[dels[i].to]
    <3>1. SUFFICES ASSUME title[dels[j].to] = title[dels[i].to] PROVE FALSE
      OBVIOUS
    <3>2. place(j) \in P
      BY <2>3, <3>1
    <3>3. place(i) <= place(j) /\ place(i) \in Nat /\ place(j) \in Nat
      BY <1>3, <2>2, <2>3, <3>2
    <3> QED
      BY <2>4, <3>3
  <2>5. i \in DOMAIN dels /\ title[dels[i].to] = title[m]
    BY <2>3
  <2> HIDE DEF T, P
  <2>6. i \in UniqueDelegates(n)
    BY <1>3, <2>4, <2>5
  <2> QED
    BY <2>5, <2>6
<1> QED
  BY <1>2, <1>4, <1>5, <1>6 DEF dels

(* The Close calls of one Close of n, from those of its delegates.         *)
CallsOf(each, n) ==
    [m \in Names |->
       (IF m = n THEN 1 ELSE 0)
         + (IF ClosesDelegates(n)
              THEN SumFunction([i \in UniqueDelegates(n) |-> each[Delegates(n)[i].to][m]])
              ELSE 0)]

LEMMA CallsOfFacts ==
    ASSUME CodeShape, NEW n \in Names
    PROVE  /\ \A f \in [Names -> [Names -> Nat]] : CallsOf(f, n) \in [Names -> Nat]
           /\ \A f, g : (\A m \in Children(n) : f[m] = g[m]) => CallsOf(f, n) = CallsOf(g, n)
<1> DEFINE U == UniqueDelegates(n)
           C(i) == Delegates(n)[i].to
<1>1. IsFiniteSet(U) /\ \A i \in U : C(i) \in Names /\ C(i) \in Children(n)
  BY UniqueDelegatesAreChildren
<1> HIDE DEF U, C
<1>2. \A f : CallsOf(f, n) = [m \in Names |->
                 (IF m = n THEN 1 ELSE 0)
                   + (IF ClosesDelegates(n) THEN SumFunctionOnSet([i \in U |-> f[C(i)][m]], U) ELSE 0)]
  BY DEF CallsOf, SumFunction, U, C
<1>3. ASSUME NEW f \in [Names -> [Names -> Nat]] PROVE CallsOf(f, n) \in [Names -> Nat]
  <2>1. ASSUME NEW m \in Names PROVE SumFunctionOnSet([i \in U |-> f[C(i)][m]], U) \in Nat
    <3> DEFINE g == [i \in U |-> f[C(i)][m]]
    <3>1. \A i \in U : g[i] \in Nat
      BY <1>1, <1>3
    <3>2. U \in SUBSET U
      OBVIOUS
    <3> HIDE DEF g
    <3>3. SumFunctionOnSet(g, U) \in Nat
      BY <1>1, <3>1, <3>2, SumFacts
    <3> QED
      BY <3>3 DEF g
  <2> DEFINE h == [m \in Names |-> SumFunctionOnSet([i \in U |-> f[C(i)][m]], U)]
  <2>2. \A m \in Names : h[m] \in Nat
    BY <2>1
  <2>3. CallsOf(f, n) = [m \in Names |-> (IF m = n THEN 1 ELSE 0) + (IF ClosesDelegates(n) THEN h[m] ELSE 0)]
    BY <1>2
  <2> HIDE DEF h
  <2> QED
    BY <2>2, <2>3
<1>4. ASSUME NEW f, NEW g, \A m \in Children(n) : f[m] = g[m]
      PROVE  CallsOf(f, n) = CallsOf(g, n)
  <2> DEFINE Hand(c) == [m \in Names |-> SumFunctionOnSet([i \in U |-> c[C(i)][m]], U)]
  <2>1. \A m \in Names : [i \in U |-> f[C(i)][m]] = [i \in U |-> g[C(i)][m]]
    BY <1>1, <1>4
  <2>2. Hand(f) = Hand(g)
    BY <2>1
  <2>3. \A c : CallsOf(c, n) = [m \in Names |-> (IF m = n THEN 1 ELSE 0)
                                                + (IF ClosesDelegates(n) THEN Hand(c)[m] ELSE 0)]
    BY <1>2
  <2> HIDE DEF Hand
  <2> QED
    BY <2>2, <2>3
<1> QED
  BY <1>3, <1>4

LEMMA CloseCallsAre ==
    ASSUME CodeShape
    PROVE  /\ CloseCalls \in [Names -> [Names -> Nat]]
           /\ \A n \in Names : CloseCalls[n] = CallsOf(CloseCalls, n)
<1> DEFINE V == [Names -> Nat]
           step == [a \in Names \X [Names -> V] |-> CallsOf(a[2], a[1])]
           below == [n \in Names |-> Children(n)]
<1>1. below \in [Names -> SUBSET Names] /\ IsFiniteSet(Names)
  BY GraphAssumption DEF CodeShape
<1>2. \A S \in (SUBSET Names) \ {{}} : \E n \in S : below[n] \cap S = {}
  BY DEF CodeShape, WellFounded
<1>3. step \in [Names \X [Names -> V] -> V]
  BY CallsOfFacts
<1>4. \A n \in Names : \A f \in [Names -> V] : step[<<n, f>>] = CallsOf(f, n)
  OBVIOUS
<1>5. V # {}
  <2>1. [n \in Names |-> 0] \in V
    OBVIOUS
  <2> QED
    BY <2>1
<1>6. ASSUME NEW n \in Names, NEW f \in [Names -> V], NEW g \in [Names -> V],
             \A m \in below[n] : f[m] = g[m]
      PROVE  step[<<n, f>>] = step[<<n, g>>]
  <2>1. \A m \in Children(n) : f[m] = g[m]
    BY <1>6
  <2>2. CallsOf(f, n) = CallsOf(g, n)
    BY <2>1, CallsOfFacts
  <2> HIDE DEF step
  <2> QED
    BY <1>4, <2>2
<1> HIDE DEF V, step, below
<1>7. \E f \in [Names -> V] : \A n \in Names : f[n] = step[<<n, f>>]
  <2>1. \A n \in Names : \A f, g \in [Names -> V] :
           (\A m \in below[n] : f[m] = g[m]) => step[<<n, f>>] = step[<<n, g>>]
    BY <1>6
  <2>2. NoDescent(Names, below)
    BY <1>1, <1>2 DEF NoDescent
  <2>3. FromBelow(Names, below, V, step)
    BY <1>3, <2>1 DEF FromBelow
  <2>4. Defined(Names, V, step)
    BY <1>1, <1>5, <2>2, <2>3, DescentDefines
  <2> QED
    BY <2>4 DEF Defined
<1>8. PICK f \in [Names -> V] : \A n \in Names : f[n] = step[<<n, f>>]
  BY <1>7
<1>9. f = [n \in Names |-> CallsOf(f, n)]
  BY <1>4, <1>8
<1>10. CloseCalls = [n \in Names |-> CallsOf(CloseCalls, n)]
  BY <1>9 DEF CloseCalls, CallsOf
<1>11. CloseCalls = f
  <2> DEFINE bad == {n \in Names : CloseCalls[n] # f[n]}
  <2>1. bad = {}
    <3> SUFFICES ASSUME bad # {} PROVE FALSE
      OBVIOUS
    <3>1. bad \in (SUBSET Names) \ {{}}
      OBVIOUS
    <3>2. PICK n \in bad : below[n] \cap bad = {}
      <4> HIDE DEF bad
      <4> QED
        BY <1>2, <3>1
    <3>3. \A m \in Children(n) : CloseCalls[m] = f[m]
      BY <3>2 DEF below, CodeShape
    <3>4. CallsOf(CloseCalls, n) = CallsOf(f, n)
      BY <3>3, CallsOfFacts
    <3> QED
      BY <1>9, <1>10, <3>2, <3>4
  <2> QED
    BY <1>9, <1>10, <2>1
<1> QED
  BY <1>8, <1>10, <1>11 DEF V

(* The appenders whose Close closes n.                                     *)
Closers(n) == {p \in Names : /\ spec[p].closes
                             /\ \E i \in UniqueDelegates(p) : Delegates(p)[i].to = n}

(* Close reaches n once, when it is called itself, and once more for each  *)
(* Close of an appender that closes n.                                     *)
LEMMA ClosedOncePerOwner ==
    ASSUME CodeShape, NEW n \in Names
    PROVE  \A x \in Names :
              CloseCalls[x][n] = (IF n = x THEN 1 ELSE 0) + SumFunctionOnSet(CloseCalls[x], Closers(n))
<1> DEFINE W == Closers(n)
           Mark(b) == IF b THEN 1 ELSE 0
           Right(x) == CloseCalls[x][n] = Mark(n = x) + SumFunctionOnSet(CloseCalls[x], W)
           bad == {x \in Names : ~Right(x)}
<1>1. W \in SUBSET Names /\ IsFiniteSet(W)
  <2>1. W \in SUBSET Names
    BY DEF Closers
  <2> QED
    BY <2>1, GraphAssumption, FS_Subset
<1>2. \A p \in Names : p \in W <=> /\ spec[p].closes
                                /\ \E i \in UniqueDelegates(p) : Delegates(p)[i].to = n
  BY DEF Closers
<1> HIDE DEF W
<1> SUFFICES ASSUME bad # {} PROVE FALSE
  BY DEF W
<1>3. PICK x \in bad : Children(x) \cap bad = {}
  <2>1. bad \in (SUBSET Names) \ {{}}
    OBVIOUS
  <2> HIDE DEF bad
  <2> QED
    BY <2>1 DEF CodeShape, WellFounded
<1>4. x \in Names /\ ~Right(x)
  BY <1>3
<1> DEFINE U == UniqueDelegates(x)
           C(i) == Delegates(x)[i].to
           K(i) == CloseCalls[C(i)]
           sent == [m \in Names |-> SumFunctionOnSet([i \in U |-> K(i)[m]], U)]
<1>5. /\ IsFiniteSet(U) /\ \A i \in U : C(i) \in Names /\ C(i) \in Children(x)
      /\ \A i, j \in U : C(i) = C(j) => i = j
  BY <1>4, UniqueDelegatesAreChildren
<1>6. /\ CloseCalls \in [Names -> [Names -> Nat]]
      /\ \A m \in Names : CloseCalls[x][m] = Mark(m = x) + (IF ClosesDelegates(x) THEN sent[m] ELSE 0)
  <2>1. CloseCalls \in [Names -> [Names -> Nat]] /\ CloseCalls[x] = CallsOf(CloseCalls, x)
    BY <1>4, CloseCallsAre
  <2>2. CallsOf(CloseCalls, x) = [m \in Names |-> Mark(m = x) + (IF ClosesDelegates(x) THEN sent[m] ELSE 0)]
    BY DEF CallsOf, SumFunction
  <2> HIDE DEF sent, Mark
  <2> QED
    BY <2>1, <2>2
<1>7. \A i \in U : K(i) \in [Names -> Nat] /\ K(i)[n] = Mark(n = C(i)) + SumFunctionOnSet(K(i), W)
  <2> TAKE i \in U
  <2>1. C(i) \in Names /\ C(i) \notin bad
    BY <1>3, <1>5
  <2> HIDE DEF U, C
  <2> QED
    BY <1>6, <2>1
<1>8. SumFunctionOnSet(CloseCalls[x], W) \in Nat /\ Mark(n = x) \in Nat
  <2>1. \A p \in W : CloseCalls[x][p] \in Nat
    BY <1>1, <1>4, <1>6
  <2>2. W \in SUBSET W
    OBVIOUS
  <2> DEFINE f == CloseCalls[x]
  <2> HIDE DEF f
  <2>3. SumFunctionOnSet(f, W) \in Nat
    BY <1>1, <2>1, <2>2, SumFacts DEF f
  <2> QED
    BY <2>3 DEF f
<1>9. SumFunctionOnSet([p \in W |-> Mark(p = x)], W) = Mark(x \in W)
  BY <1>1, SumOfMark
<1>10. CASE ~ClosesDelegates(x)
  <2>1. x \notin W /\ CloseCalls[x][n] = Mark(n = x)
    BY <1>2, <1>4, <1>6, <1>10 DEF ClosesDelegates
  <2>2. SumFunctionOnSet(CloseCalls[x], W) = 0
    <3>1. \A p \in W : CloseCalls[x][p] = 0
      <4> TAKE p \in W
      <4>1. p \in Names /\ p # x
        BY <1>1, <2>1
      <4> QED
        BY <1>6, <1>10, <4>1
    <3> QED
      BY <1>1, <3>1, SumOfNothing
  <2> QED
    BY <1>4, <2>1, <2>2
<1>11. CASE ClosesDelegates(x)
  <2> DEFINE met == [i \in U |-> Mark(n = C(i))]
             owned == [i \in U |-> SumFunctionOnSet(K(i), W)]
             given == [i \in U |-> K(i)[n]]
             h == [a \in U \X W |-> K(a[1])[a[2]]]
  <2>1. \A i \in U : met[i] \in Nat /\ owned[i] \in Nat /\ given[i] = met[i] + owned[i]
    <3> TAKE i \in U
    <3>1. SumFunctionOnSet(K(i), W) \in Nat
      <4> DEFINE f == K(i)
      <4>1. f \in [Names -> Nat]
        BY <1>7
      <4>2. W \in SUBSET W
        OBVIOUS
      <4> HIDE DEF f
      <4>3. \A p \in W : f[p] \in Nat
        BY <1>1, <4>1
      <4>4. SumFunctionOnSet(f, W) \in Nat
        BY <1>1, <4>2, <4>3, SumFacts
      <4> QED
        BY <4>4 DEF f
    <3> HIDE DEF U, C, W, K
    <3> QED
      BY <1>7, <3>1
  <2>2. sent[n] = SumFunctionOnSet(met, U) + SumFunctionOnSet(owned, U)
    <3>1. sent[n] = SumFunctionOnSet(given, U)
      OBVIOUS
    <3> HIDE DEF sent, met, owned, given, U
    <3>2. SumFunctionOnSet(given, U) = SumFunctionOnSet(met, U) + SumFunctionOnSet(owned, U)
      BY <1>5, <2>1, SumOfSums
    <3> QED
      BY <3>1, <3>2
  <2> DEFINE first == \E i \in U : C(i) = n
  <2>3. SumFunctionOnSet(met, U) = Mark(first)
    <3>1. CASE first
      <4>1. PICK y \in U : C(y) = n
        BY <3>1
      <4> DEFINE one == [i \in U |-> Mark(i = y)]
      <4>2. \A i \in U : met[i] = one[i] /\ one[i] \in Nat
        <5> TAKE i \in U
        <5>1. n = C(i) <=> i = y
          BY <1>5, <4>1
        <5> HIDE DEF U, C
        <5> QED
          BY <5>1
      <4>3. SumFunctionOnSet(one, U) = Mark(y \in U)
        BY <1>5, SumOfMark
      <4> HIDE DEF met, one, U
      <4>4. SumFunctionOnSet(met, U) = SumFunctionOnSet(one, U)
        BY <1>5, <4>2, SumOfEquals
      <4> QED
        BY <3>1, <4>3, <4>4
    <3>2. CASE ~first
      <4>1. \A i \in U : met[i] = 0
        BY <3>2
      <4> HIDE DEF met, U
      <4>2. SumFunctionOnSet(met, U) = 0
        BY <1>5, <4>1, SumOfNothing
      <4> QED
        BY <3>2, <4>2
    <3> QED
      BY <3>1, <3>2
  <2> HIDE DEF first
  <2>4. SumFunctionOnSet(CloseCalls[x], W) = Mark(x \in W) + SumFunctionOnSet([p \in W |-> sent[p]], W)
    <3> DEFINE all == CloseCalls[x]
               self == [p \in W |-> Mark(p = x)]
               rest == [p \in W |-> sent[p]]
    <3>1. \A p \in W : self[p] \in Nat /\ rest[p] \in Nat /\ all[p] = self[p] + rest[p]
      <4> TAKE p \in W
      <4>1. p \in Names
        BY <1>1
      <4>2. sent[p] \in Nat
        <5> DEFINE g == [i \in U |-> K(i)[p]]
        <5>1. \A i \in U : g[i] \in Nat
          BY <1>7, <4>1
        <5>2. U \in SUBSET U /\ sent[p] = SumFunctionOnSet(g, U)
          BY <4>1
        <5> HIDE DEF g, U, sent
        <5>3. SumFunctionOnSet(g, U) \in Nat
          BY <1>5, <5>1, <5>2, SumFacts
        <5> QED
          BY <5>2, <5>3
      <4>3. CloseCalls[x][p] = Mark(p = x) + sent[p]
        BY <1>6, <1>11, <4>1
      <4> HIDE DEF sent
      <4> QED
        BY <4>2, <4>3
    <3> HIDE DEF all, self, rest
    <3>2. SumFunctionOnSet(all, W) = SumFunctionOnSet(self, W) + SumFunctionOnSet(rest, W)
      BY <1>1, <3>1, SumOfSums
    <3> QED
      BY <1>9, <3>2 DEF all, self, rest
  <2>5. SumFunctionOnSet(owned, U) = SumFunctionOnSet([p \in W |-> sent[p]], W)
    <3> DEFINE rows == [i \in U |-> SumFunctionOnSet([p \in W |-> h[<<i, p>>]], W)]
               cols == [p \in W |-> SumFunctionOnSet([i \in U |-> h[<<i, p>>]], U)]
    <3>1. \A i \in U, p \in W : h[<<i, p>>] = K(i)[p] /\ K(i)[p] \in Nat
      BY <1>1, <1>7
    <3>2. SumFunctionOnSet(rows, U) = SumFunctionOnSet(cols, W)
      <4>1. \A i \in U, p \in W : h[<<i, p>>] \in Nat
        BY <3>1
      <4>2. IsFiniteSet(U) /\ IsFiniteSet(W)
        BY <1>1, <1>5
      <4> HIDE DEF h, U
      <4> QED
        BY <4>1, <4>2, SumOfRows
    <3>3. \A i \in U : owned[i] = rows[i] /\ rows[i] \in Nat
      <4> TAKE i \in U
      <4> DEFINE f == K(i)
                 g == [p \in W |-> h[<<i, p>>]]
      <4>1. \A p \in W : f[p] = g[p] /\ g[p] \in Nat
        BY <3>1
      <4>2. owned[i] = SumFunctionOnSet(f, W) /\ rows[i] = SumFunctionOnSet(g, W) /\ owned[i] \in Nat
        <5>1. owned[i] \in Nat
          BY <2>1
        <5>2. owned[i] = SumFunctionOnSet(f, W) /\ rows[i] = SumFunctionOnSet(g, W)
          OBVIOUS
        <5> QED
          BY <5>1, <5>2
      <4> HIDE DEF f, g, owned, rows
      <4>3. SumFunctionOnSet(f, W) = SumFunctionOnSet(g, W)
        BY <1>1, <4>1, SumOfEquals
      <4> QED
        BY <4>2, <4>3
    <3>4. cols = [p \in W |-> sent[p]]
      <4>1. \A p \in W : [i \in U |-> h[<<i, p>>]] = [i \in U |-> K(i)[p]] /\ p \in Names
        BY <1>1, <3>1
      <4>2. \A p \in W : sent[p] = SumFunctionOnSet([i \in U |-> K(i)[p]], U)
        BY <4>1
      <4>3. \A p \in W : cols[p] = sent[p]
        <5> HIDE DEF h, sent
        <5> QED
          BY <4>1, <4>2
      <4> HIDE DEF sent
      <4> QED
        BY <4>3
    <3> HIDE DEF owned, rows, U
    <3>5. SumFunctionOnSet(owned, U) = SumFunctionOnSet(rows, U)
      BY <1>5, <3>3, SumOfEquals
    <3> QED
      BY <3>2, <3>4, <3>5
  <2>6. x \in W <=> first
    BY <1>2, <1>4, <1>11 DEF ClosesDelegates, first
  <2>7. CloseCalls[x][n] = Mark(n = x) + sent[n]
    BY <1>6, <1>11
  <2> HIDE DEF met, owned, sent
  <2>8. CloseCalls[x][n] = Mark(n = x) + (Mark(first) + SumFunctionOnSet(owned, U))
    BY <2>2, <2>3, <2>7
  <2>9. SumFunctionOnSet(CloseCalls[x], W) = Mark(first) + SumFunctionOnSet(owned, U)
    BY <2>4, <2>5, <2>6
  <2> QED
    BY <1>4, <2>8, <2>9
<1> QED
  BY <1>10, <1>11

(* A configuration: what is not asked to close any more is closed, what    *)
(* was opened exactly once.                                                *)
ConfigCloseInv ==
    /\ BuildInv
    /\ spec \in Graphs
    /\ closes \in [Names -> Nat]
    /\ phase \in {"concrete", "composite", "ready"} =>
          ~failed /\ \A n \in Names : closes[n] = 0
    /\ phase \in {"closing", "closed"} =>
          /\ toClose \in Seq(Names) /\ IsInjective(toClose)
          /\ ToSet(toClose) \subseteq Opened
          /\ \A n \in Names : closes[n] = IF n \in Opened /\ n \notin ToSet(toClose) THEN 1 ELSE 0
    /\ phase = "closed" => toClose = <<>>

(* Each appender is closed as often as those that close it, the top once   *)
(* more.                                                                   *)
OncePerOwner ==
    \A n \in Names : closes[n] = (IF n = list[1] THEN 1 ELSE 0) + SumFunctionOnSet(closes, Closers(n))

(* A graph built by code: its top is asked once.                           *)
CodeCloseInv ==
    /\ \E c \in CodeGraphs : spec = c.spec /\ list = <<c.top>> /\ c.top \in Names
    /\ phase \in {"ready", "closing", "closed"}
    /\ phase = "ready" => \A n \in Names : closes[n] = 0
    /\ phase = "closing" => \/ toClose = list /\ \A n \in Names : closes[n] = 0
                            \/ toClose = <<>> /\ OncePerOwner
    /\ phase = "closed" => OncePerOwner
    /\ closes \in [Names -> Nat]

CloseInv == /\ source \in {"config", "code"}
            /\ source = "config" => ConfigCloseInv
            /\ source = "code" => CodeCloseInv

(* Without WithCloseChildren a Close is one Close.                         *)
LEMMA ConfigCloseCalls ==
    ASSUME \A n \in Names : spec[n].closes = FALSE
    PROVE  CloseCalls = [n \in Names |-> [m \in Names |-> IF m = n THEN 1 ELSE 0]]
<1> DEFINE f == [n \in Names |-> [m \in Names |-> IF m = n THEN 1 ELSE 0]]
<1>1. \A n \in Names : ~ClosesDelegates(n)
  BY DEF ClosesDelegates
<1>2. ASSUME NEW c, NEW n \in Names PROVE CallsOf(c, n) = f[n]
  BY <1>1 DEF CallsOf
<1>3. f = [n \in Names |-> CallsOf(f, n)]
  <2>1. \A n \in Names : f[n] = CallsOf(f, n)
    BY <1>2
  <2>2. f = [n \in Names |-> f[n]]
    OBVIOUS
  <2> HIDE DEF f
  <2> QED
    BY <2>1, <2>2
<1>4. CloseCalls = [n \in Names |-> CallsOf(CloseCalls, n)]
  BY <1>3 DEF CloseCalls, CallsOf
<1> QED
  BY <1>2, <1>4

LEMMA ShapeOfCode ==
    ASSUME CodeCloseInv
    PROVE  CodeShape /\ list[1] \in Names /\ list = <<list[1]>>
<1>1. PICK c \in CodeGraphs : spec = c.spec /\ list = <<c.top>> /\ c.top \in Names
  BY DEF CodeCloseInv
<1>2. SpecShape
  BY <1>1, SpecAssumption DEF SpecShape
<1>3. ASSUME NEW n \in Names, NEW m \in Children(n)
      PROVE  \E j \in DOMAIN spec[n].refs : m = spec[n].refs[j].to
  <2>1. PICK i \in DOMAIN Delegates(n) : m = Delegates(n)[i].to
    BY <1>2, <1>3, DelegatesAreAList
  <2>2. PICK j \in DOMAIN spec[n].refs : Delegates(n)[i] = spec[n].refs[j]
    BY <1>2, DelegatesAreAList
  <2> QED
    BY <2>1, <2>2
<1>4. \A n \in Names : Children(n) \subseteq Names
  BY <1>1, <1>3, CodeAssumption
<1>5. ASSUME NEW S \in (SUBSET Names) \ {{}} PROVE \E n \in S : Children(n) \cap S = {}
  <2>1. PICK n \in S : \A i \in DOMAIN spec[n].refs : spec[n].refs[i].to \notin S
    BY <1>1, CodeAssumption
  <2> QED
    BY <1>3, <2>1
<1>6. list = <<list[1]>> /\ list[1] \in Names
  BY <1>1
<1> QED
  BY <1>2, <1>4, <1>5, <1>6 DEF CodeShape, WellFounded

(* The one appender of a list of one.                                      *)
LEMMA CloseOrderOfOne ==
    ASSUME NEW top \in Names, list = <<top>>
    PROVE  CloseOrder(list) = list
<1>1. list \in Seq(Names) /\ IsInjective(list) /\ ToSet(list) = {top}
  BY DEF IsInjective, ToSet
<1>2. /\ CloseOrder(list) \in Seq(Names) /\ IsInjective(CloseOrder(list))
      /\ ToSet(CloseOrder(list)) = {top}
  BY <1>1, CloseOrderFacts
<1> DEFINE s == CloseOrder(list)
<1> HIDE DEF s
<1>3. s \in Seq(Names) /\ Len(s) \in Nat /\ DOMAIN s = 1..Len(s)
  BY <1>2 DEF s
<1>4. \A i \in DOMAIN s : s[i] = top
  BY <1>2 DEF s, ToSet
<1>5. DOMAIN s # {}
  BY <1>2 DEF s, ToSet
<1>6. Len(s) = 1
  <2>1. Len(s) # 0
    BY <1>3, <1>5
  <2>2. ASSUME Len(s) > 1 PROVE FALSE
    <3>1. 1 \in DOMAIN s /\ 2 \in DOMAIN s /\ s[1] = s[2]
      BY <1>3, <1>4, <2>2
    <3> QED
      BY <1>2, <3>1 DEF s, IsInjective
  <2> QED
    BY <1>3, <2>1, <2>2
<1>7. s = <<top>>
  BY <1>3, <1>4, <1>6
<1> QED
  BY <1>7 DEF s

LEMMA ReadsStay ==
    ASSUME inputVars' = inputVars, list' = list
    PROVE  /\ \A n : /\ FactoryMakes(n)' = FactoryMakes(n) /\ Resolutions(n)' = Resolutions(n)
                     /\ IsComposite(n)' = IsComposite(n) /\ Closers(n)' = Closers(n)
           /\ CloseOrder(list)' = CloseOrder(list)
           /\ ToSet(list)' = ToSet(list)
<1>1. spec' = spec /\ fault' = fault /\ title' = title
  BY DEF inputVars
<1>2. \A n : Delegates(n)' = Delegates(n) /\ Children(n)' = Children(n)
  BY InputsStay
<1>3. \A n : FactoryMakes(n)' = FactoryMakes(n)
  BY <1>1, <1>2 DEF FactoryMakes
<1>4. \A n : Resolutions(n)' = Resolutions(n)
  BY ListStays
<1>5. \A n : IsComposite(n)' = IsComposite(n)
  BY <1>1 DEF IsComposite
<1>6. \A n : Closers(n)' = Closers(n)
  <2>1. \A n : UniqueDelegates(n)' = UniqueDelegates(n)
    BY <1>1, <1>2 DEF UniqueDelegates, ClosePlace
  <2> QED
    BY <1>1, <1>2, <2>1 DEF Closers
<1>7. CloseOrder(list)' = CloseOrder(list)
  BY <1>1 DEF CloseOrder, IsAsync
<1> QED
  BY <1>3, <1>4, <1>5, <1>6, <1>7

LEMMA OpenedStays ==
    ASSUME inputVars' = inputVars, list' = list, failed' = failed, pass' = pass
    PROVE  Opened' = Opened
BY ReadsStay DEF Opened

(* The build ends, in an error or not, and closing begins.                 *)
LEMMA ClosingBegins ==
    ASSUME ConfigCloseInv, BuildInv', BeginClose, inputVars' = inputVars, list' = list,
           closes' \in [Names -> Nat],
           \A n \in Names : closes'[n] = IF n \in Opened' /\ n \notin ToSet(list) THEN 1 ELSE 0
    PROVE  ConfigCloseInv'
<1>1. list \in Seq(Names) /\ IsInjective(list)
  BY DEF ConfigCloseInv, BuildInv, ListInv
<1>2. toClose' \in Seq(Names) /\ IsInjective(toClose)' /\ ToSet(toClose)' = ToSet(list)
  <2>1. toClose' = CloseOrder(list)
    BY DEF BeginClose
  <2>2. CloseOrder(list) \in Seq(Names) /\ IsInjective(CloseOrder(list)) /\ ToSet(CloseOrder(list)) = ToSet(list)
    BY <1>1, CloseOrderFacts
  <2> QED
    BY <2>1, <2>2
<1>3. ToSet(list) \subseteq Opened'
  BY ReadsStay DEF Opened
<1>4. spec' \in Graphs
  BY DEF ConfigCloseInv, inputVars
<1>5. phase' = "closing"
  BY DEF BeginClose
<1> QED
  BY <1>2, <1>3, <1>4, <1>5 DEF ConfigCloseInv

LEMMA ConfigStepKeeps ==
    ASSUME ConfigCloseInv, source = "config", [GraphNext]_graphVars
    PROVE  ConfigCloseInv'
<1>1. BuildInv' /\ inputVars' = inputVars
  <2>1. BuildInv'
    BY BuildStepKeeps DEF ConfigCloseInv
  <2>2. inputVars' = inputVars
    BY DEF GraphNext, graphVars, BuildStep, BuildConcrete, DeferComposite, FailConcrete,
           BuildComposite, WaitForRefs, FailComposite, NextPass, FailUnresolved, FinishOptions,
           Log, HandOn, StartClose, CloseNext, EndClose
  <2> QED
    BY <2>1, <2>2
<1>2. spec' \in Graphs /\ closes \in [Names -> Nat]
  BY <1>1 DEF ConfigCloseInv, inputVars
<1>3. ASSUME phase \in {"concrete", "composite", "ready"}, phase' \in {"concrete", "composite", "ready"},
             failed' = failed, closes' = closes
      PROVE  ConfigCloseInv'
  BY <1>1, <1>2, <1>3 DEF ConfigCloseInv
<1>4. ASSUME buildVars' = buildVars, closes' = closes, toClose' = toClose
      PROVE  ConfigCloseInv'
  <2>1. /\ list' = list /\ failed' = failed /\ pass' = pass /\ phase' = phase
    BY <1>4 DEF buildVars
  <2>2. Opened' = Opened
    BY <1>1, <2>1, OpenedStays
  <2>3. IsInjective(toClose)' = IsInjective(toClose) /\ ToSet(toClose)' = ToSet(toClose)
    BY <1>4
  <2> QED
    BY <1>1, <1>2, <1>4, <2>1, <2>2, <2>3 DEF ConfigCloseInv
<1>5. CASE BuildConcrete
  BY <1>3, <1>5 DEF BuildConcrete
<1>6. CASE DeferComposite
  BY <1>3, <1>6 DEF DeferComposite
<1>7. CASE BuildComposite
  BY <1>3, <1>7 DEF BuildComposite
<1>8. CASE WaitForRefs
  BY <1>3, <1>8 DEF WaitForRefs
<1>9. CASE NextPass
  BY <1>3, <1>9 DEF NextPass
<1> DEFINE n == Head(pass)
<1>10. ASSUME phase \in {"concrete", "composite"}, pass # <<>>,
              FailBuild, list' = list, pass' = pass,
              IF FactoryMakes(n) /\ (IsComposite(n) => "built" \in Resolutions(n))
                THEN CloseUnlisted(n) ELSE UNCHANGED closes
       PROVE  ConfigCloseInv'
  <2>1. n \in Names /\ n \notin ToSet(list) /\ \A k \in Names : closes[k] = 0
    <3>1. Sorted
      BY <1>10 DEF ConfigCloseInv, BuildInv
    <3>2. n \in Names /\ n \in ToSet(pass)
      BY <1>10, <3>1, TakeHead DEF Sorted
    <3> QED
      BY <1>10, <3>1, <3>2 DEF Sorted, ConfigCloseInv
  <2>2. Opened' = ToSet(list) \cup {k \in Names : k = n /\ FactoryMakes(n) /\ (IsComposite(n) => "built" \in Resolutions(n))}
    <3>1. failed' /\ pass' # <<>> /\ Head(pass') = n /\ ToSet(list)' = ToSet(list)
      BY <1>10 DEF FailBuild
    <3>2. /\ FactoryMakes(n)' = FactoryMakes(n) /\ Resolutions(n)' = Resolutions(n)
          /\ IsComposite(n)' = IsComposite(n)
      BY <1>1, <1>10, ReadsStay
    <3>3. \A k : /\ FactoryMakes(k)' = FactoryMakes(k) /\ Resolutions(k)' = Resolutions(k)
                 /\ IsComposite(k)' = IsComposite(k)
      BY <1>1, <1>10, ReadsStay
    <3> QED
      BY <3>1, <3>3 DEF Opened
  <2>3. /\ closes' \in [Names -> Nat]
        /\ \A k \in Names : closes'[k] = IF k \in Opened' /\ k \notin ToSet(list) THEN 1 ELSE 0
    BY <1>2, <1>10, <2>1, <2>2 DEF CloseUnlisted
  <2> QED
    BY <1>1, <1>10, <2>3, ClosingBegins DEF FailBuild
<1>11. CASE FailConcrete
  <2>1. IF FactoryMakes(n) /\ (IsComposite(n) => "built" \in Resolutions(n))
          THEN CloseUnlisted(n) ELSE UNCHANGED closes
    BY <1>11 DEF FailConcrete
  <2>2. /\ phase \in {"concrete", "composite"} /\ pass # <<>> /\ FailBuild
        /\ list' = list /\ pass' = pass
    BY <1>11 DEF FailConcrete
  <2> QED
    BY <1>10, <2>1, <2>2
<1>12. CASE FailComposite
  <2>1. ~IsComposite(n) => "built" \in Resolutions(n)
    <3>1. ASSUME ~IsComposite(n) PROVE Delegates(n) = <<>> /\ EnoughRefs(n)
      BY <3>1 DEF Delegates, EnoughRefs, IsComposite, Composites
    <3> QED
      BY <3>1 DEF Resolutions, Missing
  <2>2. IF FactoryMakes(n) /\ (IsComposite(n) => "built" \in Resolutions(n))
          THEN CloseUnlisted(n) ELSE UNCHANGED closes
    BY <1>12, <2>1 DEF FailComposite
  <2>3. /\ phase \in {"concrete", "composite"} /\ pass # <<>> /\ FailBuild
        /\ list' = list /\ pass' = pass
    BY <1>12 DEF FailComposite
  <2> QED
    BY <1>10, <2>2, <2>3
<1>13. ASSUME phase \in {"concrete", "composite", "ready"}, pass = <<>> \/ ~failed', BeginClose,
              UNCHANGED <<list, pass, closes>>
       PROVE  ConfigCloseInv'
  <2>1. Opened' = ToSet(list)
    BY <1>13 DEF Opened
  <2>2. /\ closes' \in [Names -> Nat]
        /\ \A k \in Names : closes'[k] = IF k \in Opened' /\ k \notin ToSet(list) THEN 1 ELSE 0
    BY <1>2, <1>13, <2>1 DEF ConfigCloseInv
  <2> QED
    BY <1>1, <1>13, <2>2, ClosingBegins
<1>14. CASE FailUnresolved
  BY <1>13, <1>14 DEF FailUnresolved, FailBuild
<1>15. CASE FinishOptions
  <2>1. CASE fault.how = "options"
    BY <1>13, <1>15, <2>1 DEF FinishOptions, FailBuild
  <2>2. CASE fault.how # "options"
    BY <1>3, <1>15, <2>2 DEF FinishOptions
  <2> QED
    BY <2>1, <2>2
<1>16. CASE StartClose
  <2>1. ~failed'
    BY <1>16 DEF StartClose, ConfigCloseInv
  <2> QED
    BY <1>13, <1>16, <2>1 DEF StartClose
<1>17. CASE CloseNext
  <2> DEFINE top == Head(toClose)
  <2>1. /\ toClose \in Seq(Names) /\ IsInjective(toClose) /\ toClose # <<>>
        /\ ToSet(toClose) \subseteq Opened /\ phase' = "closing" /\ toClose' = Tail(toClose)
        /\ \A k \in Names : closes[k] = IF k \in Opened /\ k \notin ToSet(toClose) THEN 1 ELSE 0
    BY <1>17 DEF CloseNext, ConfigCloseInv, buildVars
  <2>2. /\ top \in Names /\ toClose' \in Seq(Names) /\ IsInjective(toClose)'
        /\ ToSet(toClose) = {top} \cup ToSet(toClose)' /\ top \notin ToSet(toClose)'
    BY <2>1, TakeHead
  <2>3. \A k \in Names : spec[k].closes = FALSE
    BY SpecAssumption DEF ConfigCloseInv
  <2>4. \A k \in Names : CloseCalls[top][k] = IF k = top THEN 1 ELSE 0
    <3>1. CloseCalls = [x \in Names |-> [m \in Names |-> IF m = x THEN 1 ELSE 0]]
      BY <2>3, ConfigCloseCalls
    <3> HIDE DEF top
    <3> QED
      BY <2>2, <3>1
  <2>5. closes' = [k \in Names |-> closes[k] + CloseCalls[top][k]]
    BY <1>17 DEF CloseNext
  <2>6. Opened' = Opened
    BY <1>1, <1>17, OpenedStays DEF CloseNext, buildVars
  <2>7. closes' \in [Names -> Nat]
    <3> HIDE DEF top
    <3> QED
      BY <1>2, <2>4, <2>5
  <2>8. \A k \in Names : closes'[k] = IF k \in Opened' /\ k \notin ToSet(toClose)' THEN 1 ELSE 0
    <3> TAKE k \in Names
    <3>1. closes'[k] = closes[k] + (IF k = top THEN 1 ELSE 0)
      BY <2>4, <2>5
    <3>2. CASE k = top
      BY <2>1, <2>2, <2>6, <3>1, <3>2
    <3>3. CASE k # top
      <4>1. closes'[k] = closes[k]
        BY <1>2, <3>1, <3>3
      <4> QED
        BY <2>1, <2>2, <2>6, <3>3, <4>1
    <3> QED
      BY <3>2, <3>3
  <2> QED
    BY <1>1, <1>2, <2>1, <2>2, <2>6, <2>7, <2>8 DEF ConfigCloseInv
<1>18. CASE EndClose
  <2>1. Opened' = Opened
    BY <1>1, <1>18, OpenedStays DEF EndClose
  <2>2. ToSet(toClose)' = ToSet(toClose) /\ IsInjective(toClose)' = IsInjective(toClose)
    BY <1>18 DEF EndClose
  <2> QED
    BY <1>1, <1>2, <1>18, <2>1, <2>2 DEF EndClose, ConfigCloseInv
<1>19. ASSUME NEW e \in Events, NEW m \in Names, Log(e, m) PROVE ConfigCloseInv'
  BY <1>4, <1>19 DEF Log
<1>20. ASSUME NEW a \in Names, HandOn(a) PROVE ConfigCloseInv'
  BY <1>4, <1>20 DEF HandOn
<1>21. CASE UNCHANGED graphVars
  BY <1>4, <1>21 DEF graphVars
<1> QED
  BY <1>5, <1>6, <1>7, <1>8, <1>9, <1>11, <1>12, <1>14, <1>15, <1>16, <1>17, <1>18, <1>19,
     <1>20, <1>21 DEF GraphNext, BuildStep

LEMMA CodeStepKeeps ==
    ASSUME CodeCloseInv, source = "code", [GraphNext]_graphVars
    PROVE  CodeCloseInv'
<1>1. inputVars' = inputVars /\ list' = list
  <2>1. phase \notin {"concrete", "composite"}
    BY DEF CodeCloseInv
  <2> QED
    BY <2>1 DEF GraphNext, graphVars, buildVars, BuildStep, BuildConcrete, DeferComposite,
                FailConcrete, BuildComposite, WaitForRefs, FailComposite, NextPass, FailUnresolved,
                FinishOptions, Log, HandOn, StartClose, CloseNext, EndClose
<1>2. \A n \in Names : Closers(n)' = Closers(n)
  BY <1>1, ReadsStay
<1>3. \E c \in CodeGraphs : spec' = c.spec /\ list' = <<c.top>> /\ c.top \in Names
  BY <1>1 DEF CodeCloseInv, inputVars
<1>4. ASSUME phase' = phase, closes' = closes, toClose' = toClose PROVE CodeCloseInv'
  <2>1. OncePerOwner => OncePerOwner'
    BY <1>1, <1>2, <1>4 DEF OncePerOwner
  <2> QED
    BY <1>1, <1>3, <1>4, <2>1 DEF CodeCloseInv
<1>5. CASE BuildStep
  BY <1>5 DEF BuildStep, BuildConcrete, DeferComposite, FailConcrete, BuildComposite, WaitForRefs,
              FailComposite, NextPass, FailUnresolved, FinishOptions, CodeCloseInv
<1>6. CASE StartClose
  <2>1. toClose' = list
    BY <1>6, ShapeOfCode, CloseOrderOfOne DEF StartClose, BeginClose
  <2> QED
    BY <1>1, <1>3, <1>6, <2>1 DEF StartClose, BeginClose, CodeCloseInv
<1>7. CASE CloseNext
  <2> DEFINE top == list[1]
  <2>1. CodeShape /\ top \in Names /\ list = <<top>>
    BY ShapeOfCode
  <2>2. toClose = list /\ \A n \in Names : closes[n] = 0
    BY <1>7 DEF CloseNext, CodeCloseInv
  <2>3. Head(toClose) = top /\ Tail(toClose) = <<>>
    <3>1. toClose = <<top>>
      BY <2>1, <2>2
    <3> HIDE DEF top
    <3> QED
      BY <3>1
  <2>4. CloseCalls[top] \in [Names -> Nat]
    BY <2>1, CloseCallsAre
  <2>5. closes' = [m \in Names |-> closes[m] + CloseCalls[top][m]] /\ toClose' = <<>>
        /\ phase' = "closing"
    BY <1>7, <2>3 DEF CloseNext, buildVars
  <2> HIDE DEF top
  <2>6. closes' = CloseCalls[top]
    <3>1. \A m \in Names : closes[m] + CloseCalls[top][m] = CloseCalls[top][m]
      BY <2>2, <2>4
    <3> QED
      BY <2>4, <2>5, <3>1
  <2>7. \A n \in Names : CloseCalls[top][n] =
                            (IF n = top THEN 1 ELSE 0) + SumFunctionOnSet(CloseCalls[top], Closers(n))
    BY <2>1, ClosedOncePerOwner
  <2>8. OncePerOwner'
    <3>1. \A n \in Names : closes'[n] = (IF n = top THEN 1 ELSE 0) + SumFunctionOnSet(closes', Closers(n)')
      BY <1>2, <2>6, <2>7
    <3>2. top = list'[1]
      BY <1>1 DEF top
    <3> QED
      BY <3>1, <3>2 DEF OncePerOwner
  <2> QED
    BY <1>3, <2>4, <2>5, <2>6, <2>8 DEF CodeCloseInv
<1>8. CASE EndClose
  <2>1. OncePerOwner /\ phase' = "closed" /\ closes' = closes
    <3>1. list # <<>>
      BY ShapeOfCode
    <3> QED
      BY <1>8, <3>1 DEF EndClose, CodeCloseInv
  <2>2. OncePerOwner'
    BY <1>1, <1>2, <2>1 DEF OncePerOwner
  <2> QED
    BY <1>3, <2>1, <2>2 DEF CodeCloseInv
<1>9. ASSUME NEW e \in Events, NEW m \in Names, Log(e, m) PROVE CodeCloseInv'
  BY <1>4, <1>9 DEF Log, buildVars
<1>10. ASSUME NEW a \in Names, HandOn(a) PROVE CodeCloseInv'
  BY <1>4, <1>10 DEF HandOn, buildVars
<1>11. CASE UNCHANGED graphVars
  BY <1>4, <1>11 DEF graphVars, buildVars
<1> QED
  BY <1>5, <1>6, <1>7, <1>8, <1>9, <1>10, <1>11 DEF GraphNext

(* From the exact count: the closers of n are owners of n, and every sole  *)
(* owner is one; of an owner's delegates with one title one is closed.     *)
LEMMA CountIsBetween ==
    ASSUME CodeShape, closes \in [Names -> Nat], OncePerOwner, NEW n \in Names
    PROVE  /\ (IF n = list[1] THEN 1 ELSE 0) + SumFunctionOnSet(closes, SoleOwners(n)) <= closes[n]
           /\ closes[n] <= (IF n = list[1] THEN 1 ELSE 0) + SumFunctionOnSet(closes, Owners(n))
           /\ \A p \in Owners(n) : \E m \in Children(p) :
                 title[m] = title[n] /\ closes[p] <= closes[m]
<1> DEFINE sum(S) == SumFunctionOnSet(closes, S)
           asked(m) == IF m = list[1] THEN 1 ELSE 0
<1>1. /\ Owners(n) \in SUBSET Names /\ SoleOwners(n) \in SUBSET Names
      /\ \A m \in Names : Closers(m) \in SUBSET Names
  BY DEF Owners, SoleOwners, Closers
<1>2. \A S \in SUBSET Names : IsFiniteSet(S)
  BY GraphAssumption, FS_Subset
<1>3. \A m \in Names : closes[m] = asked(m) + sum(Closers(m))
  BY DEF OncePerOwner
<1>4. \A S \in SUBSET Names : \A T \in SUBSET S : sum(T) \in Nat /\ sum(T) <= sum(S)
  <2> TAKE S \in SUBSET Names
  <2>1. IsFiniteSet(S) /\ \A x \in S : closes[x] \in Nat
    BY <1>2
  <2> QED
    BY <2>1, SumFacts
<1>5. Closers(n) \subseteq Owners(n)
  BY UniqueDelegatesAreChildren DEF Closers, Owners
<1>6. ASSUME NEW p \in SoleOwners(n) PROVE p \in Closers(n)
  <2>1. /\ p \in Names /\ spec[p].closes /\ n \in Children(p)
        /\ \A m \in Children(p) : title[m] = title[n] => m = n
    BY <1>6 DEF SoleOwners, Owners
  <2>2. PICK i \in UniqueDelegates(p) : title[Delegates(p)[i].to] = title[n]
    BY <2>1, UniqueDelegatesAreChildren
  <2>3. Delegates(p)[i].to = n
    BY <2>1, <2>2, UniqueDelegatesAreChildren
  <2> QED
    BY <2>1, <2>2, <2>3 DEF Closers
<1>7. ASSUME NEW p \in Owners(n)
      PROVE  \E m \in Children(p) : title[m] = title[n] /\ closes[p] <= closes[m]
  <2>1. p \in Names /\ spec[p].closes /\ n \in Children(p)
    BY <1>7 DEF Owners
  <2>2. PICK i \in UniqueDelegates(p) : title[Delegates(p)[i].to] = title[n]
    BY <2>1, UniqueDelegatesAreChildren
  <2> DEFINE m == Delegates(p)[i].to
  <2>3. m \in Names /\ m \in Children(p) /\ p \in Closers(m)
    BY <2>1, <2>2, UniqueDelegatesAreChildren DEF Closers
  <2> HIDE DEF m
  <2>4. {p} \in SUBSET Closers(m) /\ Closers(m) \in SUBSET Names
    BY <1>1, <2>3
  <2>5. sum({p}) <= sum(Closers(m)) /\ sum({p}) \in Nat /\ sum(Closers(m)) \in Nat
    BY <1>4, <2>4
  <2>6. sum({p}) = closes[p]
    <3>1. IsFiniteSet({p}) /\ {p} \in SUBSET {p} /\ \A x \in {p} : closes[x] \in Nat
      BY <2>1, FS_Singleton
    <3>2. sum({p}) = closes[p] + sum({p} \ {p}) /\ sum({}) = 0
      BY <3>1, SumFacts
    <3>3. {p} \ {p} = {}
      OBVIOUS
    <3> HIDE DEF sum
    <3> QED
      BY <2>1, <3>2, <3>3
  <2> HIDE DEF sum
  <2>7. closes[p] <= closes[m]
    BY <1>3, <2>1, <2>3, <2>5, <2>6
  <2> QED
    BY <2>2, <2>3, <2>7 DEF m
<1> HIDE DEF sum
<1>8. asked(n) + sum(SoleOwners(n)) <= closes[n] /\ closes[n] <= asked(n) + sum(Owners(n))
  BY <1>1, <1>3, <1>4, <1>5, <1>6
<1> QED
  BY <1>7, <1>8 DEF sum

(* When all is closed nothing stays open: what a configuration opened is   *)
(* closed once, also after a build that fails half-way; a delegate in a    *)
(* graph made by code once for each Close of an owner of it, except that   *)
(* of the delegates with one title one owner closes only one               *)
(* (closeAppenderList of internal/configfile, close of router/lifecycle.go,*)
(* closeUniqueAppenders).                                                  *)
THEOREM ClosedOnce == GraphSpec => []NothingStaysOpen
<1>1. GraphInit => CloseInv
  <2> SUFFICES ASSUME GraphInit PROVE CloseInv
    OBVIOUS
  <2>1. closes = [n \in Names |-> 0] /\ failed = FALSE
    BY DEF GraphInit, NothingYet
  <2>2. CASE InitConfig
    <3>1. source = "config" /\ spec \in Graphs /\ phase = "concrete"
      BY <2>2 DEF InitConfig
    <3>2. BuildInv
      BY <3>1, BuildInit
    <3> QED
      BY <2>1, <3>1, <3>2 DEF CloseInv, ConfigCloseInv
  <2>3. CASE InitCode
    <3>1. source = "code" /\ phase = "ready"
      BY <2>3 DEF InitCode
    <3>2. \E c \in CodeGraphs : spec = c.spec /\ list = <<c.top>> /\ c.top \in Names
      BY <2>3, CodeAssumption DEF InitCode
    <3> QED
      BY <2>1, <3>1, <3>2 DEF CloseInv, CodeCloseInv
  <2> QED
    BY <2>2, <2>3 DEF GraphInit
<1>2. CloseInv /\ [GraphNext]_graphVars => CloseInv'
  <2> SUFFICES ASSUME CloseInv, [GraphNext]_graphVars PROVE CloseInv'
    OBVIOUS
  <2>1. source' = source
    BY DEF GraphNext, graphVars, inputVars, BuildStep, BuildConcrete, DeferComposite,
           FailConcrete, BuildComposite, WaitForRefs, FailComposite, NextPass, FailUnresolved,
           FinishOptions, Log, HandOn, StartClose, CloseNext, EndClose
  <2>2. source = "config" => ConfigCloseInv'
    BY ConfigStepKeeps DEF CloseInv
  <2>3. source = "code" => CodeCloseInv'
    BY CodeStepKeeps DEF CloseInv
  <2> QED
    BY <2>1, <2>2, <2>3 DEF CloseInv
<1>3. CloseInv => NothingStaysOpen
  <2>1. ASSUME CloseInv, phase = "closed", source = "config", NEW n \in Names
        PROVE  closes[n] = IF n \in Opened THEN 1 ELSE 0
    <3>1. /\ toClose = <<>>
          /\ closes[n] = IF n \in Opened /\ n \notin ToSet(toClose) THEN 1 ELSE 0
      BY <2>1 DEF CloseInv, ConfigCloseInv
    <3>2. n \notin ToSet(toClose)
      BY <3>1 DEF ToSet
    <3> QED
      BY <3>1, <3>2
  <2>2. ASSUME CloseInv, phase = "closed", source # "config"
        PROVE  CodeShape /\ closes \in [Names -> Nat] /\ OncePerOwner
    BY <2>2, ShapeOfCode DEF CloseInv, CodeCloseInv
  <2> SUFFICES ASSUME CloseInv, phase = "closed" PROVE NothingStaysOpen
    BY DEF NothingStaysOpen
  <2>3. CASE source = "config"
    <3>1. \A n \in Names : closes[n] = IF n \in Opened THEN 1 ELSE 0
      BY <2>1, <2>3
    <3> QED
      BY <2>3, <3>1 DEF NothingStaysOpen
  <2>4. CASE source # "config"
    <3>1. CodeShape /\ closes \in [Names -> Nat] /\ OncePerOwner
      BY <2>2, <2>4
    <3>2. ASSUME NEW n \in Names
          PROVE  /\ (IF n = list[1] THEN 1 ELSE 0) + SumFunctionOnSet(closes, SoleOwners(n)) <= closes[n]
                 /\ closes[n] <= (IF n = list[1] THEN 1 ELSE 0) + SumFunctionOnSet(closes, Owners(n))
                 /\ \A p \in Owners(n) : \E m \in Children(p) :
                       title[m] = title[n] /\ closes[p] <= closes[m]
      BY <3>1, CountIsBetween
    <3> QED
      BY <2>4, <3>2 DEF NothingStaysOpen
  <2> QED
    BY <2>3, <2>4
<1> QED
  BY <1>1, <1>2, <1>3, PTL DEF GraphSpec

-----------------------------------------------------------------------------
(* Where an event lands.                                                   *)

(* A configuration that is built.                                          *)
Grown == SpecShape /\ ListInv /\ ToSet(list) = Names

(* Each appender's delegates are there, and before it in the list.         *)
Earlier == [n \in Names |-> {m \in Names : Position(m) < Position(n)}]

LEMMA GrownFacts ==
    ASSUME Grown
    PROVE  /\ NoDescent(Names, Earlier)
           /\ \A n \in Names : /\ Children(n) \subseteq Earlier[n]
                               /\ EnoughRefs(n)
                               /\ DOMAIN Delegates(n) \subseteq Nat
                               /\ IsFiniteSet(DOMAIN Delegates(n))
                               /\ \A i \in DOMAIN Delegates(n) : Delegates(n)[i].to \in Children(n)
           /\ \A n \in Names : Position(n) \in Nat
<1>1. list \in Seq(Names) /\ IsInjective(list) /\ ToSet(list) = Names
      /\ Len(list) \in Nat /\ DOMAIN list = 1..Len(list)
  BY DEF Grown, ListInv
<1>2. ASSUME NEW n \in Names PROVE Position(n) \in DOMAIN list /\ list[Position(n)] = n
  <2>1. \E i \in DOMAIN list : list[i] = n
    BY <1>1 DEF ToSet
  <2> QED
    BY <2>1 DEF Position
<1>3. ASSUME NEW n \in Names
      PROVE  /\ Children(n) \subseteq Earlier[n] /\ EnoughRefs(n)
             /\ DOMAIN Delegates(n) \subseteq Nat
             /\ IsFiniteSet(DOMAIN Delegates(n))
             /\ \A i \in DOMAIN Delegates(n) : Delegates(n)[i].to \in Children(n)
  <2>1. Sound(n) /\ \A m \in Children(n) : \E j \in 1..(Position(n) - 1) : list[j] = m
    BY <1>2, <1>3 DEF Grown, ListInv
  <2>2. ASSUME NEW m \in Children(n) PROVE m \in Earlier[n]
    <3>1. PICK j \in 1..(Position(n) - 1) : list[j] = m
      BY <2>1
    <3>2. j \in DOMAIN list /\ j < Position(n)
      <4>1. Position(n) \in 1..Len(list)
        BY <1>1, <1>2
      <4> QED
        BY <1>1, <4>1
    <3>3. m \in Names
      BY <1>1, <3>1, <3>2
    <3>4. Position(m) = j
      BY <1>1, <1>2, <3>1, <3>2, <3>3 DEF IsInjective
    <3> QED
      BY <3>2, <3>3, <3>4 DEF Earlier
  <2>3. /\ Len(Delegates(n)) \in Nat /\ DOMAIN Delegates(n) = 1..Len(Delegates(n))
        /\ IsFiniteSet(DOMAIN Delegates(n))
        /\ Children(n) = {Delegates(n)[i].to : i \in DOMAIN Delegates(n)}
    BY DelegatesAreAList DEF Grown
  <2> QED
    BY <2>1, <2>2, <2>3 DEF Sound
<1>4. \A n \in Names : Position(n) \in Nat
  BY <1>1, <1>2
<1>5. NoDescent(Names, Earlier)
  <2>1. Earlier \in [Names -> SUBSET Names]
    BY DEF Earlier
  <2>2. ASSUME NEW S \in (SUBSET Names) \ {{}} PROVE \E n \in S : Earlier[n] \cap S = {}
    <3> DEFINE places == {Position(n) : n \in S}
    <3>1. places \in SUBSET Nat /\ places # {}
      BY <1>4
    <3>2. PICK p \in places : \A q \in places : p <= q
      <4> HIDE DEF places
      <4> QED
        BY <3>1, LeastNatural
    <3>3. PICK n \in S : Position(n) = p
      BY <3>2
    <3>4. ASSUME NEW m \in Earlier[n] PROVE m \notin S
      <4>1. m \in Names /\ Position(m) < p
        BY <3>3, <3>4 DEF Earlier
      <4>2. p \in Nat /\ Position(m) \in Nat
        BY <1>4, <3>3, <4>1
      <4> QED
        BY <3>2, <4>1, <4>2
    <3> QED
      BY <3>3, <3>4
  <2> QED
    BY <2>1, <2>2 DEF NoDescent
<1> QED
  BY <1>3, <1>4, <1>5

Landings == [ok : BOOLEAN, at : Names \cup {Unknown}, key : Keys]
LandingRows == [Keys -> Landings]

(* What the delegates of n answer for a key, and n from their answers.     *)
Through(f, n, key) == [i \in DOMAIN Delegates(n) |-> f[Delegates(n)[i].to][key]]
LandAt(shut, f, n, k) ==
    CASE spec[n].deny = k          -> Dropped(k)
      [] spec[n].deny # k /\ spec[n].kind = "sink" ->
           IF n \in shut \cup broken THEN Refused(k)
           ELSE [ok |-> TRUE, at |-> n, key |-> k]
      [] spec[n].deny # k /\ spec[n].kind = "async" ->
           IF n \in shut THEN Refused(k) ELSE [ok |-> TRUE, at |-> n, key |-> k]
      [] spec[n].deny # k /\ spec[n].kind = "failover" -> FailoverAppend(Through(f, n, k), k)
      [] spec[n].deny # k /\ spec[n].kind = "routing" -> RoutingAppend(Through(f, n, k), k)
      [] spec[n].deny # k /\ spec[n].kind = "rewrite" -> RewriteAppend(Through(f, n, Rewrite(k)))
LandOf(shut, f, n) == [k \in Keys |-> LandAt(shut, f, n, k)]

Kinds == Composites \cup {"sink"}

LEMMA LandByKind ==
    ASSUME NEW shut, NEW f, NEW n, NEW k
    PROVE  /\ spec[n].deny = k => LandAt(shut, f, n, k) = Dropped(k)
           /\ spec[n].deny # k =>
                /\ spec[n].kind = "sink" =>
                      LandAt(shut, f, n, k) = IF n \in shut \cup broken THEN Refused(k)
                                              ELSE [ok |-> TRUE, at |-> n, key |-> k]
                /\ spec[n].kind = "async" =>
                      LandAt(shut, f, n, k) = IF n \in shut THEN Refused(k)
                                              ELSE [ok |-> TRUE, at |-> n, key |-> k]
                /\ spec[n].kind = "failover" =>
                      LandAt(shut, f, n, k) = FailoverAppend(Through(f, n, k), k)
                /\ spec[n].kind = "routing" =>
                      LandAt(shut, f, n, k) = RoutingAppend(Through(f, n, k), k)
                /\ spec[n].kind = "rewrite" =>
                      LandAt(shut, f, n, k) = RewriteAppend(Through(f, n, Rewrite(k)))
BY DEF LandAt

(* Failover takes the first that accepts.                                  *)
LEMMA FailoverTakes ==
    ASSUME NEW D \in SUBSET Nat, NEW landings, DOMAIN landings = D, NEW k
    PROVE  \/ /\ \A i \in D : ~landings[i].ok
              /\ FailoverAppend(landings, k) = Refused(k)
           \/ \E i \in D : /\ landings[i].ok
                           /\ \A j \in D : landings[j].ok => i <= j
                           /\ FailoverAppend(landings, k) = landings[i]
<1> DEFINE good == {i \in D : landings[i].ok}
<1>1. FailoverAppend(landings, k) = IF good = {} THEN Refused(k) ELSE landings[Min(good)]
  BY DEF FailoverAppend
<1>2. CASE good = {}
  BY <1>1, <1>2
<1>3. CASE good # {}
  <2>1. good \in SUBSET Nat
    OBVIOUS
  <2>2. Min(good) \in good /\ \A j \in good : Min(good) <= j
    <3> HIDE DEF good
    <3> QED
      BY <1>3, <2>1, MinIsLeast
  <2> QED
    BY <1>1, <1>3, <2>2
<1> QED
  BY <1>2, <1>3

(* An answer depends on the delegates' answers, and is one.                *)
LEMMA LandOfFacts ==
    ASSUME Grown, NEW shut, NEW n \in Names
    PROVE  /\ \A f : (\A m \in Children(n) : f[m] \in LandingRows) => LandOf(shut, f, n) \in LandingRows
           /\ \A f, g : (\A m \in Children(n) : f[m] = g[m]) => LandOf(shut, f, n) = LandOf(shut, g, n)
<1>1. /\ DOMAIN Delegates(n) \in SUBSET Nat /\ EnoughRefs(n)
      /\ \A i \in DOMAIN Delegates(n) : Delegates(n)[i].to \in Children(n)
      /\ spec[n].kind \in Kinds
  BY GrownFacts DEF Grown, SpecShape, Kinds
<1>2. ASSUME NEW f, \A m \in Children(n) : f[m] \in LandingRows, NEW k \in Keys
      PROVE  LandAt(shut, f, n, k) \in Landings
  <2>1. ASSUME NEW key \in Keys
        PROVE  /\ DOMAIN Through(f, n, key) = DOMAIN Delegates(n)
               /\ \A i \in DOMAIN Delegates(n) : Through(f, n, key)[i] \in Landings
    <3>1. \A i \in DOMAIN Delegates(n) : f[Delegates(n)[i].to][key] \in Landings
      BY <1>1, <1>2 DEF LandingRows
    <3> QED
      BY <3>1 DEF Through
  <2>2. /\ Dropped(k) \in Landings /\ Refused(k) \in Landings
        /\ [ok |-> TRUE, at |-> n, key |-> k] \in Landings
    BY DEF Dropped, Refused, Landings
  <2>3. CASE spec[n].deny = k
    BY <2>2, <2>3, LandByKind
  <2>4. CASE spec[n].deny # k /\ spec[n].kind = "sink"
    <3>1. LandAt(shut, f, n, k) = IF n \in shut \cup broken THEN Refused(k) ELSE [ok |-> TRUE, at |-> n, key |-> k]
      BY <2>4, LandByKind
    <3> QED
      BY <2>2, <3>1
  <2>5. CASE spec[n].deny # k /\ spec[n].kind = "async"
    <3>1. LandAt(shut, f, n, k) = IF n \in shut THEN Refused(k) ELSE [ok |-> TRUE, at |-> n, key |-> k]
      BY <2>5, LandByKind
    <3> QED
      BY <2>2, <3>1
  <2>6. CASE spec[n].deny # k /\ spec[n].kind = "failover"
    <3>1. FailoverAppend(Through(f, n, k), k) \in Landings
      BY <1>1, <2>1, <2>2, FailoverTakes
    <3> QED
      BY <2>6, <3>1, LandByKind
  <2>7. CASE spec[n].deny # k /\ spec[n].kind = "routing"
    <3>1. RoutingAppend(Through(f, n, k), k) \in Landings
      BY <2>1, <2>2 DEF RoutingAppend
    <3> QED
      BY <2>7, <3>1, LandByKind
  <2>8. CASE spec[n].deny # k /\ spec[n].kind = "rewrite"
    <3>1. 1 \in DOMAIN Delegates(n)
      <4>1. Len(Delegates(n)) = 1
        BY <1>1, <2>8 DEF EnoughRefs
      <4>2. DOMAIN Delegates(n) = 1..Len(Delegates(n))
        BY DelegatesAreAList DEF Grown
      <4> QED
        BY <4>1, <4>2
    <3>2. RewriteAppend(Through(f, n, Rewrite(k))) \in Landings
      BY <2>1, <3>1, GraphAssumption DEF RewriteAppend, Rewrite
    <3> QED
      BY <2>8, <3>2, LandByKind
  <2> QED
    BY <1>1, <2>3, <2>4, <2>5, <2>6, <2>7, <2>8 DEF Kinds, Composites
<1>3. ASSUME NEW f, NEW g, \A m \in Children(n) : f[m] = g[m]
      PROVE  LandOf(shut, f, n) = LandOf(shut, g, n)
  <2>1. \A key : Through(f, n, key) = Through(g, n, key)
    BY <1>1, <1>3 DEF Through
  <2>2. \A k \in Keys : LandAt(shut, f, n, k) = LandAt(shut, g, n, k)
    BY <2>1 DEF LandAt
  <2> QED
    BY <2>2 DEF LandOf
<1> QED
  BY <1>2, <1>3 DEF LandOf, LandingRows

LEMMA LandingIs ==
    ASSUME Grown, NEW shut
    PROVE  /\ \A n \in Names : Landing(shut)[n] \in LandingRows
           /\ \A n \in Names : \A k \in Keys :
                 /\ Landing(shut)[n][k] \in Landings
                 /\ Landing(shut)[n][k] = LandAt(shut, Landing(shut), n, k)
           /\ \A g : g = [n \in Names |-> LandOf(shut, g, n)] => g = Landing(shut)
           /\ Landing(shut) = [n \in Names |-> LandOf(shut, Landing(shut), n)]
<1> DEFINE step == [a \in Names \X [Names -> LandingRows] |-> LandOf(shut, a[2], a[1])]
           land == Landing(shut)
<1>1. /\ NoDescent(Names, Earlier) /\ IsFiniteSet(Names)
      /\ \A n \in Names : Children(n) \subseteq Earlier[n] /\ Earlier[n] \subseteq Names
  BY GrownFacts, GraphAssumption DEF Earlier
<1>2. LandingRows # {}
  <2>1. [k \in Keys |-> Dropped(k)] \in LandingRows
    BY DEF LandingRows, Landings, Dropped
  <2> QED
    BY <2>1
<1>3. \A n \in Names : \A f \in [Names -> LandingRows] : step[<<n, f>>] = LandOf(shut, f, n)
  OBVIOUS
<1>4. step \in [Names \X [Names -> LandingRows] -> LandingRows]
  <2>1. ASSUME NEW a \in Names \X [Names -> LandingRows] PROVE LandOf(shut, a[2], a[1]) \in LandingRows
    <3>1. a[1] \in Names /\ \A m \in Children(a[1]) : a[2][m] \in LandingRows
      BY <1>1
    <3> QED
      BY <3>1, LandOfFacts
  <2> QED
    BY <2>1
<1>5. FromBelow(Names, Earlier, LandingRows, step)
  <2>1. ASSUME NEW n \in Names, NEW f \in [Names -> LandingRows], NEW g \in [Names -> LandingRows],
               \A m \in Earlier[n] : f[m] = g[m]
        PROVE  step[<<n, f>>] = step[<<n, g>>]
    <3>1. \A m \in Children(n) : f[m] = g[m]
      BY <1>1, <2>1
    <3>2. LandOf(shut, f, n) = LandOf(shut, g, n)
      BY <3>1, LandOfFacts
    <3> HIDE DEF step
    <3> QED
      BY <1>3, <3>2
  <2>2. \A n \in Names : \A f, g \in [Names -> LandingRows] :
           (\A m \in Earlier[n] : f[m] = g[m]) => step[<<n, f>>] = step[<<n, g>>]
    BY <2>1
  <2> HIDE DEF step
  <2> QED
    BY <1>4, <2>2 DEF FromBelow
<1> HIDE DEF step
<1>6. Defined(Names, LandingRows, step)
  BY <1>1, <1>2, <1>5, DescentDefines
<1>7. PICK f \in [Names -> LandingRows] : \A n \in Names : f[n] = step[<<n, f>>]
  BY <1>6 DEF Defined
<1>8. f = [n \in Names |-> LandOf(shut, f, n)]
  BY <1>3, <1>7
<1>9. land = [n \in Names |-> LandOf(shut, land, n)]
  BY <1>8 DEF Landing, LandOf, LandAt, Through
<1>10. ASSUME NEW g, g = [n \in Names |-> LandOf(shut, g, n)] PROVE g = f
  <2> DEFINE bad == {n \in Names : g[n] # f[n]}
  <2>1. bad = {}
    <3> SUFFICES ASSUME bad # {} PROVE FALSE
      OBVIOUS
    <3>1. bad \in (SUBSET Names) \ {{}}
      OBVIOUS
    <3>2. PICK n \in bad : Earlier[n] \cap bad = {}
      <4> HIDE DEF bad
      <4> QED
        BY <1>1, <3>1 DEF NoDescent
    <3>3. \A m \in Children(n) : g[m] = f[m]
      BY <1>1, <3>2
    <3>4. LandOf(shut, g, n) = LandOf(shut, f, n)
      BY <3>2, <3>3, LandOfFacts
    <3> QED
      BY <1>8, <1>10, <3>2, <3>4
  <2> QED
    BY <1>8, <1>10, <2>1
<1> HIDE DEF land
<1>11. land = f
  BY <1>9, <1>10
<1>12. \A n \in Names : \A k \in Keys : land[n] \in LandingRows /\ land[n][k] \in Landings /\ land[n][k] = LandAt(shut, land, n, k)
  <2>1. \A n \in Names : land[n] \in LandingRows
    BY <1>7, <1>11
  <2>2. \A n \in Names : land[n] = LandOf(shut, land, n)
    BY <1>9
  <2> QED
    BY <2>1, <2>2 DEF LandingRows, LandOf
<1>13. \A n \in Names : land[n] \in LandingRows
  BY <1>7, <1>11
<1> QED
  BY <1>9, <1>10, <1>11, <1>12, <1>13 DEF land

(* Where an event lands is not after what it was given to.                 *)
LEMMA LandsEarlier ==
    ASSUME Grown, NEW shut
    PROVE  \A n \in Names : \A k \in Keys :
              Landing(shut)[n][k].at \in Names => Position(Landing(shut)[n][k].at) <= Position(n)
<1> DEFINE land == Landing(shut)
           Right(n) == \A k \in Keys : land[n][k].at \in Names => Position(land[n][k].at) <= Position(n)
           bad == {n \in Names : ~Right(n)}
<1> SUFFICES ASSUME bad # {} PROVE FALSE
  OBVIOUS
<1>1. PICK n \in bad : Earlier[n] \cap bad = {}
  <2>1. bad \in (SUBSET Names) \ {{}}
    OBVIOUS
  <2> HIDE DEF bad
  <2> QED
    BY <2>1, GrownFacts DEF NoDescent
<1>2. PICK k \in Keys : land[n][k].at \in Names /\ ~(Position(land[n][k].at) <= Position(n))
  BY <1>1
<1>3. /\ n \in Names /\ Children(n) \subseteq Earlier[n] /\ DOMAIN Delegates(n) \in SUBSET Nat
      /\ \A i \in DOMAIN Delegates(n) : Delegates(n)[i].to \in Children(n)
      /\ \A m \in Names : Position(m) \in Nat
      /\ spec[n].kind \in Kinds /\ EnoughRefs(n)
  BY <1>1, GrownFacts DEF Grown, SpecShape, Kinds
<1>4. ASSUME NEW m \in Children(n) PROVE m \in Names /\ Right(m) /\ Position(m) < Position(n)
  <2>1. m \in Earlier[n] /\ m \notin bad
    BY <1>1, <1>3
  <2> QED
    BY <2>1 DEF Earlier
<1> HIDE DEF bad, land
<1>5. ASSUME NEW key \in Keys, NEW i \in DOMAIN Delegates(n)
      PROVE  LET at == Through(land, n, key)[i].at IN at \in Names => Position(at) <= Position(n)
  <2>1. Delegates(n)[i].to \in Children(n) /\ Through(land, n, key)[i] = land[Delegates(n)[i].to][key]
    BY <1>3 DEF Through
  <2> DEFINE m == Delegates(n)[i].to
  <2>2. Right(m) /\ Position(m) < Position(n) /\ Position(m) \in Nat
    BY <1>3, <1>4, <2>1
  <2> HIDE DEF m
  <2>3. Through(land, n, key)[i] = land[m][key]
    BY <2>1 DEF m
  <2> QED
    BY <1>3, <2>2, <2>3
<1>6. land[n][k] = LandAt(shut, land, n, k) /\ Unknown \notin Names
  BY <1>3, LandingIs, GraphAssumption DEF land
<1>7. CASE \/ spec[n].deny = k
           \/ spec[n].kind = "sink"
           \/ spec[n].kind = "async"
  <2>1. land[n][k].at \in {Unknown, n}
    BY <1>6, <1>7, LandByKind DEF Dropped, Refused
  <2> QED
    BY <1>2, <1>3, <1>6, <2>1
<1>8. CASE spec[n].deny # k /\ spec[n].kind = "failover"
  <2>1. land[n][k] = FailoverAppend(Through(land, n, k), k)
    BY <1>6, <1>8, LandByKind
  <2>2. DOMAIN Through(land, n, k) = DOMAIN Delegates(n)
    BY DEF Through
  <2>3. \/ land[n][k] = Refused(k)
        \/ \E i \in DOMAIN Delegates(n) : land[n][k] = Through(land, n, k)[i]
    BY <1>3, <2>1, <2>2, FailoverTakes
  <2> QED
    BY <1>2, <1>5, <1>6, <2>3 DEF Refused
<1>9. CASE spec[n].deny # k /\ spec[n].kind = "routing"
  <2>1. land[n][k] = RoutingAppend(Through(land, n, k), k)
    BY <1>6, <1>9, LandByKind
  <2>2. DOMAIN Through(land, n, k) = DOMAIN Delegates(n)
    BY DEF Through
  <2>3. \/ land[n][k] = Dropped(k)
        \/ \E i \in DOMAIN Delegates(n) : land[n][k] = Through(land, n, k)[i]
    BY <2>1, <2>2 DEF RoutingAppend
  <2> QED
    BY <1>2, <1>5, <1>6, <2>3 DEF Dropped
<1>10. CASE spec[n].deny # k /\ spec[n].kind = "rewrite"
  <2>1. land[n][k] = Through(land, n, Rewrite(k))[1] /\ Rewrite(k) \in Keys
    BY <1>6, <1>10, LandByKind, GraphAssumption DEF RewriteAppend, Rewrite
  <2>2. 1 \in DOMAIN Delegates(n)
    <3>1. Len(Delegates(n)) = 1
      BY <1>3, <1>10 DEF EnoughRefs
    <3>2. DOMAIN Delegates(n) = 1..Len(Delegates(n))
      BY <1>3, DelegatesAreAList DEF Grown
    <3> QED
      BY <3>1, <3>2
  <2> QED
    BY <1>2, <1>5, <2>1, <2>2
<1> QED
  BY <1>3, <1>7, <1>8, <1>9, <1>10 DEF Kinds, Composites

(* Same(m, k): while only async appenders are closed, what is given to m   *)
(* lands where it landed before, unless that one is closed now.            *)
Same(shut, m, k) ==
    \/ Landing(shut)[m][k] = Landing({})[m][k]
    \/ Landing({})[m][k].ok /\ Landing({})[m][k].at \in shut \cap Names

LEMMA LandsAsBefore ==
    ASSUME Grown, NEW shut, \A n \in Names \cap shut : IsAsync(n)
    PROVE  \A n \in Names : \A k \in Keys : Same(shut, n, k)
<1> DEFINE one == Landing(shut)
           two == Landing({})
           bad == {n \in Names : ~\A k \in Keys : Same(shut, n, k)}
<1> SUFFICES ASSUME bad # {} PROVE FALSE
  OBVIOUS
<1>1. PICK n \in bad : Earlier[n] \cap bad = {}
  <2>1. bad \in (SUBSET Names) \ {{}}
    OBVIOUS
  <2> HIDE DEF bad
  <2> QED
    BY <2>1, GrownFacts DEF NoDescent
<1>2. PICK k \in Keys : ~Same(shut, n, k)
  BY <1>1
<1>3. /\ n \in Names /\ Children(n) \subseteq Earlier[n] /\ DOMAIN Delegates(n) \in SUBSET Nat
      /\ \A i \in DOMAIN Delegates(n) : Delegates(n)[i].to \in Children(n)
      /\ spec[n].kind \in Kinds /\ EnoughRefs(n)
  BY <1>1, GrownFacts DEF Grown, SpecShape, Kinds
<1>4. ASSUME NEW m \in Children(n) PROVE \A key \in Keys : Same(shut, m, key)
  <2>1. m \in Earlier[n] /\ m \notin bad
    BY <1>1, <1>3
  <2> QED
    BY <2>1 DEF Earlier
<1> HIDE DEF bad, one, two
<1>5. /\ one[n][k] = LandAt(shut, one, n, k) /\ two[n][k] = LandAt({}, two, n, k)
  BY <1>3, LandingIs DEF one, two
<1>6. one[n][k] # two[n][k] /\ ~(two[n][k].ok /\ two[n][k].at \in shut \cap Names)
  BY <1>2 DEF Same, one, two
<1> DEFINE D == DOMAIN Delegates(n)
           now1(key) == Through(one, n, key)
           was(key) == Through(two, n, key)
<1>7. ASSUME NEW key \in Keys
      PROVE  /\ DOMAIN now1(key) = D /\ DOMAIN was(key) = D
             /\ \A i \in D : \/ now1(key)[i] = was(key)[i]
                             \/ was(key)[i].ok /\ was(key)[i].at \in shut \cap Names
  <2>1. DOMAIN now1(key) = D /\ DOMAIN was(key) = D
    BY DEF Through
  <2>2. ASSUME NEW i \in D
        PROVE  \/ now1(key)[i] = was(key)[i]
               \/ was(key)[i].ok /\ was(key)[i].at \in shut \cap Names
    <3>1. now1(key)[i] = one[Delegates(n)[i].to][key] /\ was(key)[i] = two[Delegates(n)[i].to][key]
      BY DEF Through
    <3>2. Same(shut, Delegates(n)[i].to, key)
      BY <1>3, <1>4
    <3> QED
      BY <3>1, <3>2 DEF Same, one, two
  <2> QED
    BY <2>1, <2>2
<1> HIDE DEF D, now1, was
<1>8. CASE spec[n].deny = k
  BY <1>5, <1>6, <1>8, LandByKind
<1>9. CASE spec[n].deny # k /\ spec[n].kind = "sink"
  <2>1. n \notin shut
    BY <1>3, <1>9 DEF IsAsync
  <2>2. LandAt(shut, one, n, k) = IF n \in shut \cup broken THEN Refused(k) ELSE [ok |-> TRUE, at |-> n, key |-> k]
    BY <1>9, LandByKind
  <2>3. LandAt({}, two, n, k) = IF n \in {} \cup broken THEN Refused(k) ELSE [ok |-> TRUE, at |-> n, key |-> k]
    BY <1>9, LandByKind
  <2> QED
    BY <1>5, <1>6, <2>1, <2>2, <2>3
<1>10. CASE spec[n].deny # k /\ spec[n].kind = "async"
  <2>1. LandAt(shut, one, n, k) = IF n \in shut THEN Refused(k) ELSE [ok |-> TRUE, at |-> n, key |-> k]
    BY <1>10, LandByKind
  <2>2. LandAt({}, two, n, k) = [ok |-> TRUE, at |-> n, key |-> k]
    BY <1>10, LandByKind
  <2> QED
    BY <1>3, <1>5, <1>6, <2>1, <2>2
<1>11. CASE spec[n].deny # k /\ spec[n].kind = "failover"
  <2>1. one[n][k] = FailoverAppend(now1(k), k) /\ two[n][k] = FailoverAppend(was(k), k)
    BY <1>5, <1>11, LandByKind DEF now1, was
  <2>2. D \in SUBSET Nat
    BY <1>3 DEF D
  <2>3. \/ (\A i \in D : ~was(k)[i].ok) /\ two[n][k] = Refused(k)
        \/ \E i \in D : /\ was(k)[i].ok /\ two[n][k] = was(k)[i]
                        /\ \A j \in D : was(k)[j].ok => i <= j
    BY <1>7, <2>1, <2>2, FailoverTakes
  <2>4. \/ (\A i \in D : ~now1(k)[i].ok) /\ one[n][k] = Refused(k)
        \/ \E i \in D : /\ now1(k)[i].ok /\ one[n][k] = now1(k)[i]
                        /\ \A j \in D : now1(k)[j].ok => i <= j
    BY <1>7, <2>1, <2>2, FailoverTakes
  <2>5. CASE (\A i \in D : ~was(k)[i].ok) /\ two[n][k] = Refused(k)
    <3>1. \A i \in D : ~now1(k)[i].ok
      BY <1>7, <2>5
    <3> QED
      BY <1>6, <2>4, <2>5, <3>1
  <2>6. CASE \E i \in D : /\ was(k)[i].ok /\ two[n][k] = was(k)[i]
                          /\ \A j \in D : was(k)[j].ok => i <= j
    <3>1. PICK i \in D : /\ was(k)[i].ok /\ two[n][k] = was(k)[i]
                         /\ \A j \in D : was(k)[j].ok => i <= j
      BY <2>6
    <3>2. now1(k)[i] = was(k)[i]
      BY <1>6, <1>7, <3>1
    <3>3. \A j \in D : now1(k)[j].ok => was(k)[j].ok
      BY <1>7
    <3>4. PICK j \in D : /\ now1(k)[j].ok /\ one[n][k] = now1(k)[j]
                         /\ \A x \in D : now1(k)[x].ok => j <= x
      BY <2>4, <3>1, <3>2
    <3>5. i <= j /\ j <= i /\ i \in Nat /\ j \in Nat
      BY <2>2, <3>1, <3>2, <3>3, <3>4
    <3>6. i = j
      BY <3>5
    <3> QED
      BY <1>6, <3>1, <3>2, <3>4, <3>6
  <2> QED
    BY <2>3, <2>5, <2>6
<1>12. CASE spec[n].deny # k /\ spec[n].kind = "routing"
  <2>1. one[n][k] = RoutingAppend(now1(k), k) /\ two[n][k] = RoutingAppend(was(k), k)
    BY <1>5, <1>12, LandByKind DEF now1, was
  <2> DEFINE route == IF k = Min(Keys) THEN 1 ELSE 2
  <2>2. /\ one[n][k] = IF route \in D THEN now1(k)[route] ELSE Dropped(k)
        /\ two[n][k] = IF route \in D THEN was(k)[route] ELSE Dropped(k)
    BY <1>7, <2>1 DEF RoutingAppend
  <2> HIDE DEF route
  <2> QED
    BY <1>6, <1>7, <2>2
<1>13. CASE spec[n].deny # k /\ spec[n].kind = "rewrite"
  <2>1. /\ one[n][k] = now1(Rewrite(k))[1] /\ two[n][k] = was(Rewrite(k))[1] /\ Rewrite(k) \in Keys
    BY <1>5, <1>13, LandByKind, GraphAssumption DEF now1, was, RewriteAppend, Rewrite
  <2>2. 1 \in D
    <3>1. Len(Delegates(n)) = 1
      BY <1>3, <1>13 DEF EnoughRefs
    <3>2. DOMAIN Delegates(n) = 1..Len(Delegates(n))
      BY <1>3, DelegatesAreAList DEF Grown
    <3> QED
      BY <3>1, <3>2 DEF D
  <2> QED
    BY <1>6, <1>7, <2>1, <2>2
<1> QED
  BY <1>3, <1>8, <1>9, <1>10, <1>11, <1>12, <1>13 DEF Kinds, Composites

(* The sum of ones is how many they are.                                   *)
LEMMA SumOfOnes ==
    ASSUME NEW S, IsFiniteSet(S), NEW T \in SUBSET S
    PROVE  SumFunctionOnSet([x \in S |-> IF x \in T THEN 1 ELSE 0], S) = Cardinality(T)
<1> DEFINE ones(t) == [x \in S |-> IF x \in t THEN 1 ELSE 0]
           bad == {t \in SUBSET S : SumFunctionOnSet(ones(t), S) # Cardinality(t)}
<1> SUFFICES ASSUME bad # {} PROVE FALSE
  OBVIOUS
<1>1. PICK t \in bad : \A x \in t : t \ {x} \notin bad
  BY SmallestSet
<1>2. t \in SUBSET S /\ IsFiniteSet(t)
  BY <1>1, FS_Subset
<1>3. t # {}
  <2>1. \A x \in S : ones({})[x] = 0
    OBVIOUS
  <2> DEFINE none == ones({})
  <2> HIDE DEF none
  <2>2. SumFunctionOnSet(none, S) = 0
    BY <2>1, SumOfNothing DEF none
  <2> QED
    BY <1>1, <2>2, FS_EmptySet DEF none
<1>4. PICK y \in t : TRUE
  BY <1>3
<1>5. SumFunctionOnSet(ones(t \ {y}), S) = Cardinality(t \ {y})
  BY <1>1, <1>2, <1>4
<1>6. Cardinality(t) \in Nat /\ Cardinality(t \ {y}) = Cardinality(t) - 1
  BY <1>2, <1>4, FS_CardinalityType, FS_RemoveElement
<1> DEFINE h == ones(t)
           f == ones(t \ {y})
           g == [x \in S |-> IF x = y THEN 1 ELSE 0]
<1>7. \A x \in S : f[x] \in Nat /\ g[x] \in Nat /\ h[x] = f[x] + g[x]
  BY <1>4
<1>8. SumFunctionOnSet(g, S) = 1
  <2>1. SumFunctionOnSet(g, S) = IF y \in S THEN 1 ELSE 0
    BY SumOfMark
  <2> HIDE DEF g
  <2> QED
    BY <1>2, <1>4, <2>1
<1>9. SumFunctionOnSet(h, S) = SumFunctionOnSet(f, S) + SumFunctionOnSet(g, S)
  <2> HIDE DEF h, f, g
  <2> QED
    BY <1>7, SumOfSums
<1>10. SumFunctionOnSet(h, S) = Cardinality(t)
  <2>1. SumFunctionOnSet(f, S) = Cardinality(t \ {y})
    BY <1>5
  <2> HIDE DEF h, f, g
  <2> QED
    BY <1>6, <1>8, <1>9, <2>1
<1> QED
  BY <1>1, <1>10

-----------------------------------------------------------------------------
(* How many copies of an event come to a sink.                             *)

Heirs(a, key) == {i \in DOMAIN Delegates(a) : Delegates(a)[i].deny # key}

CopiesAt(f, n, k, s) ==
    LET landing == Landing({})[n][k]
        heirs   == {i \in DOMAIN Delegates(landing.at) :
                      Delegates(landing.at)[i].deny # landing.key}
    IN  IF ~landing.ok \/ landing.at = Unknown THEN 0
        ELSE IF ~IsAsync(landing.at) THEN IF landing.at = s THEN 1 ELSE 0
        ELSE SumFunction([i \in heirs |-> f[Delegates(landing.at)[i].to][landing.key][s]])
CopiesOf(f, n) == [k \in Keys |-> [s \in Names |-> CopiesAt(f, n, k, s)]]

CopyCounts == [Keys -> [Names -> Nat]]

LEMMA CopiesOfFacts ==
    ASSUME Grown, NEW n \in Names
    PROVE  /\ \A f \in [Names -> CopyCounts] : CopiesOf(f, n) \in CopyCounts
           /\ \A f, g : (\A m \in Earlier[n] : f[m] = g[m]) => CopiesOf(f, n) = CopiesOf(g, n)
<1>1. ASSUME NEW k \in Keys
      PROVE  LET L == Landing({})[n][k] IN
                /\ L.key \in Keys
                /\ L.at # Unknown => /\ IsFiniteSet(Heirs(L.at, L.key))
                                     /\ \A i \in Heirs(L.at, L.key) : Delegates(L.at)[i].to \in Earlier[n]
  <2> DEFINE L == Landing({})[n][k]
  <2>1. L \in Landings
    BY LandingIs
  <2>2. L.at \in Names => Position(L.at) <= Position(n)
    BY LandsEarlier
  <2> HIDE DEF L
  <2>3. L.key \in Keys /\ L.at \in Names \cup {Unknown}
    BY <2>1 DEF Landings
  <2>4. ASSUME L.at # Unknown
        PROVE  /\ IsFiniteSet(Heirs(L.at, L.key))
               /\ \A i \in Heirs(L.at, L.key) : Delegates(L.at)[i].to \in Earlier[n]
    <3>1. /\ L.at \in Names /\ IsFiniteSet(DOMAIN Delegates(L.at))
          /\ \A i \in DOMAIN Delegates(L.at) : Delegates(L.at)[i].to \in Earlier[L.at]
      BY <2>3, <2>4, GrownFacts
    <3>2. Earlier[L.at] \subseteq Earlier[n]
      <4>1. \A m \in Names : Position(m) \in Nat
        BY GrownFacts
      <4> QED
        BY <2>2, <3>1, <4>1 DEF Earlier
    <3>3. Heirs(L.at, L.key) \in SUBSET DOMAIN Delegates(L.at)
      BY DEF Heirs
    <3>4. IsFiniteSet(Heirs(L.at, L.key))
      BY <3>1, <3>3, FS_Subset
    <3> QED
      BY <3>1, <3>2, <3>3, <3>4
  <2> QED
    BY <2>3, <2>4 DEF L
<1>2. ASSUME NEW f, NEW k \in Keys, NEW s \in Names
      PROVE  LET L == Landing({})[n][k] IN
             CopiesAt(f, n, k, s) =
               IF ~L.ok \/ L.at = Unknown THEN 0
               ELSE IF ~IsAsync(L.at) THEN IF L.at = s THEN 1 ELSE 0
               ELSE SumFunctionOnSet([i \in Heirs(L.at, L.key) |-> f[Delegates(L.at)[i].to][L.key][s]],
                                     Heirs(L.at, L.key))
  BY DEF CopiesAt, SumFunction, Heirs
<1>3. ASSUME NEW f \in [Names -> CopyCounts], NEW k \in Keys, NEW s \in Names
      PROVE  CopiesAt(f, n, k, s) \in Nat
  <2> DEFINE L == Landing({})[n][k]
             H == Heirs(L.at, L.key)
             g == [i \in H |-> f[Delegates(L.at)[i].to][L.key][s]]
  <2>1. CopiesAt(f, n, k, s) = IF ~L.ok \/ L.at = Unknown THEN 0
                               ELSE IF ~IsAsync(L.at) THEN IF L.at = s THEN 1 ELSE 0
                               ELSE SumFunctionOnSet(g, H)
    BY <1>2
  <2>2. /\ L.key \in Keys
        /\ L.at # Unknown => IsFiniteSet(H) /\ \A i \in H : Delegates(L.at)[i].to \in Names
    BY <1>1 DEF Earlier
  <2> HIDE DEF L, H
  <2>3. L.at # Unknown => \A i \in H : g[i] \in Nat
    BY <1>3, <2>2 DEF CopyCounts
  <2> HIDE DEF g
  <2>4. L.at # Unknown => SumFunctionOnSet(g, H) \in Nat
    <3>1. H \in SUBSET H
      OBVIOUS
    <3> QED
      BY <2>2, <2>3, <3>1, SumFacts
  <2> QED
    BY <2>1, <2>4
<1>4. ASSUME NEW f, NEW g, \A m \in Earlier[n] : f[m] = g[m], NEW k \in Keys, NEW s \in Names
      PROVE  CopiesAt(f, n, k, s) = CopiesAt(g, n, k, s)
  <2> DEFINE L == Landing({})[n][k]
             H == Heirs(L.at, L.key)
             given(c) == [i \in H |-> c[Delegates(L.at)[i].to][L.key][s]]
  <2>1. \A c : CopiesAt(c, n, k, s) = IF ~L.ok \/ L.at = Unknown THEN 0
                                      ELSE IF ~IsAsync(L.at) THEN IF L.at = s THEN 1 ELSE 0
                                      ELSE SumFunctionOnSet(given(c), H)
    BY <1>2
  <2>2. L.at # Unknown => \A i \in H : Delegates(L.at)[i].to \in Earlier[n]
    BY <1>1
  <2> HIDE DEF L, H
  <2>3. L.at # Unknown => given(f) = given(g)
    BY <1>4, <2>2
  <2> HIDE DEF given
  <2> QED
    BY <2>1, <2>3
<1>5. ASSUME NEW f, NEW g, \A m \in Earlier[n] : f[m] = g[m]
      PROVE  CopiesOf(f, n) = CopiesOf(g, n)
  BY <1>4, <1>5 DEF CopiesOf
<1> QED
  BY <1>3, <1>5 DEF CopiesOf, CopyCounts

LEMMA ExpectedIs ==
    ASSUME Grown
    PROVE  \A n \in Names : \A k \in Keys, s \in Names :
              Expected[n][k][s] = CopiesAt(Expected, n, k, s)
<1> DEFINE step == [a \in Names \X [Names -> CopyCounts] |-> CopiesOf(a[2], a[1])]
<1>1. NoDescent(Names, Earlier) /\ IsFiniteSet(Names)
  BY GrownFacts, GraphAssumption
<1>2. CopyCounts # {}
  <2>1. [k \in Keys |-> [s \in Names |-> 0]] \in CopyCounts
    BY DEF CopyCounts
  <2> QED
    BY <2>1
<1>3. \A n \in Names : \A f \in [Names -> CopyCounts] : step[<<n, f>>] = CopiesOf(f, n)
  OBVIOUS
<1>4. step \in [Names \X [Names -> CopyCounts] -> CopyCounts]
  BY CopiesOfFacts
<1>5. FromBelow(Names, Earlier, CopyCounts, step)
  <2>1. ASSUME NEW n \in Names, NEW f \in [Names -> CopyCounts], NEW g \in [Names -> CopyCounts],
               \A m \in Earlier[n] : f[m] = g[m]
        PROVE  step[<<n, f>>] = step[<<n, g>>]
    <3>1. CopiesOf(f, n) = CopiesOf(g, n)
      BY <2>1, CopiesOfFacts
    <3> HIDE DEF step
    <3> QED
      BY <1>3, <3>1
  <2>2. \A n \in Names : \A f, g \in [Names -> CopyCounts] :
           (\A m \in Earlier[n] : f[m] = g[m]) => step[<<n, f>>] = step[<<n, g>>]
    BY <2>1
  <2> HIDE DEF step
  <2> QED
    BY <1>4, <2>2 DEF FromBelow
<1> HIDE DEF step
<1>6. Defined(Names, CopyCounts, step)
  BY <1>1, <1>2, <1>5, DescentDefines
<1>7. PICK f \in [Names -> CopyCounts] : \A n \in Names : f[n] = step[<<n, f>>]
  BY <1>6 DEF Defined
<1>8. f = [n \in Names |-> CopiesOf(f, n)]
  BY <1>3, <1>7
<1>9. Expected = [n \in Names |-> CopiesOf(Expected, n)]
  BY <1>8 DEF Expected, CopiesOf, CopiesAt
<1> DEFINE E == Expected
<1> HIDE DEF E
<1>10. \A n \in Names : E[n] = CopiesOf(E, n)
  BY <1>9 DEF E
<1>11. \A n \in Names : \A k \in Keys, s \in Names : E[n][k][s] = CopiesAt(E, n, k, s)
  <2> TAKE n \in Names
  <2>1. \A k \in Keys, s \in Names : CopiesOf(E, n)[k][s] = CopiesAt(E, n, k, s)
    BY DEF CopiesOf
  <2> QED
    BY <1>10, <2>1
<1> QED
  BY <1>11 DEF E

(* The delegates of async appender a that bring an event with this key to  *)
(* s, and the copies of an event that landed as L.                         *)
Arriving(a, key, s) ==
    {i \in Heirs(a, key) : LET L == Landing({})[Delegates(a)[i].to][key] IN L.ok /\ L.at = s}
Copies(L, s) ==
    IF ~L.ok \/ L.at = Unknown THEN 0
    ELSE IF ~IsAsync(L.at) THEN IF L.at = s THEN 1 ELSE 0
    ELSE Cardinality(Arriving(L.at, L.key, s))

(* What an async appender hands on lands in a sink.                        *)
LEMMA HandedOnLands ==
    ASSUME Grown, ~AsyncFeedsAsync, NEW a \in Names, IsAsync(a), NEW i \in DOMAIN Delegates(a),
           NEW key \in Keys
    PROVE  LET L == Landing({})[Delegates(a)[i].to][key]
           IN  /\ L \in Landings
               /\ L.at # Unknown => L.at \in Names /\ ~IsAsync(L.at)
<1> DEFINE m == Delegates(a)[i].to
           L == Landing({})[m][key]
<1>1. m \in Children(a) /\ m \in Names
  BY GrownFacts DEF Earlier
<1>2. L \in Landings
  BY <1>1, LandingIs
<1>3. ~(L.at # Unknown /\ IsAsync(L.at))
  BY <1>1 DEF AsyncFeedsAsync
<1> HIDE DEF L
<1>4. L.at \in Names \cup {Unknown}
  BY <1>2 DEF Landings
<1> QED
  BY <1>2, <1>3, <1>4 DEF L

LEMMA ExpectedCopies ==
    ASSUME Grown, ~AsyncFeedsAsync
    PROVE  \A n \in Names : \A k \in Keys, s \in Names :
              Expected[n][k][s] = Copies(Landing({})[n][k], s)
<1> DEFINE E == Expected
<1>1. \A n \in Names : \A k \in Keys, s \in Names : E[n][k][s] = CopiesAt(E, n, k, s)
  BY ExpectedIs
<1> HIDE DEF E
<1>2. ASSUME NEW n \in Names, NEW k \in Keys, NEW s \in Names
      PROVE  E[n][k][s] = Copies(Landing({})[n][k], s)
  <2> DEFINE L == Landing({})[n][k]
             H == Heirs(L.at, L.key)
             g == [i \in H |-> E[Delegates(L.at)[i].to][L.key][s]]
  <2>1. E[n][k][s] = IF ~L.ok \/ L.at = Unknown THEN 0
                     ELSE IF ~IsAsync(L.at) THEN IF L.at = s THEN 1 ELSE 0
                     ELSE SumFunctionOnSet(g, H)
    BY <1>1 DEF CopiesAt, SumFunction, Heirs
  <2>2. L \in Landings
    BY LandingIs
  <2> HIDE DEF L
  <2>3. L.key \in Keys /\ L.at \in Names \cup {Unknown}
    BY <2>2 DEF Landings
  <2>4. ASSUME L.at # Unknown, IsAsync(L.at) PROVE SumFunctionOnSet(g, H) = Cardinality(Arriving(L.at, L.key, s))
    <3> DEFINE T == Arriving(L.at, L.key, s)
               ones == [i \in H |-> IF i \in T THEN 1 ELSE 0]
               a == L.at
               key == L.key
    <3>1. a \in Names /\ IsAsync(a) /\ key \in Keys
      BY <2>3, <2>4
    <3> HIDE DEF a, key
    <3>2. H \in SUBSET DOMAIN Delegates(a) /\ IsFiniteSet(H) /\ T \in SUBSET H
      <4>1. H \in SUBSET DOMAIN Delegates(a)
        BY DEF Heirs, a
      <4>2. IsFiniteSet(DOMAIN Delegates(a))
        BY <3>1, GrownFacts
      <4>3. IsFiniteSet(H)
        BY <4>1, <4>2, FS_Subset
      <4> QED
        BY <4>1, <4>3 DEF Arriving
    <3>3. ASSUME NEW i \in H PROVE g[i] = ones[i]
      <4> DEFINE m == Delegates(a)[i].to
                 M == Landing({})[m][key]
      <4>1. m \in Names /\ i \in DOMAIN Delegates(a)
        BY <3>1, <3>2, GrownFacts DEF Earlier
      <4>2. M \in Landings /\ (M.at # Unknown => M.at \in Names /\ ~IsAsync(M.at))
        BY <3>1, <4>1, HandedOnLands
      <4>3. E[m][key][s] = IF M.ok /\ M.at = s THEN 1 ELSE 0
        <5>1. E[m][key][s] = CopiesAt(E, m, key, s)
          BY <1>1, <3>1, <4>1
        <5>2. M.at # Unknown => CopiesAt(E, m, key, s) = IF ~M.ok THEN 0 ELSE IF M.at = s THEN 1 ELSE 0
          BY <4>2 DEF CopiesAt
        <5>3. M.at = Unknown => CopiesAt(E, m, key, s) = 0
          BY DEF CopiesAt
        <5>4. s # Unknown
          BY GraphAssumption
        <5> HIDE DEF M, m
        <5> QED
          BY <5>1, <5>2, <5>3, <5>4
      <4>4. i \in T <=> M.ok /\ M.at = s
        BY <3>3 DEF Arriving, a, key
      <4>5. g[i] = E[m][key][s]
        BY <3>3 DEF a, key
      <4> HIDE DEF M, m, g, T, H
      <4>6. ones[i] = IF i \in T THEN 1 ELSE 0
        BY <3>3
      <4> QED
        BY <4>3, <4>4, <4>5, <4>6
    <3>4. \A i \in H : ones[i] \in Nat
      OBVIOUS
    <3>5. SumFunctionOnSet(ones, H) = Cardinality(T)
      BY <3>2, SumOfOnes
    <3> HIDE DEF g, ones, H, T
    <3>6. SumFunctionOnSet(g, H) = SumFunctionOnSet(ones, H)
      BY <3>2, <3>3, <3>4, SumOfEquals
    <3> QED
      BY <3>5, <3>6 DEF T
  <2> HIDE DEF g, H
  <2>5. E[n][k][s] = Copies(L, s)
    BY <2>1, <2>4 DEF Copies
  <2> QED
    BY <2>5 DEF L
<1> QED
  BY <1>2 DEF E

-----------------------------------------------------------------------------
(* Where events land stays while the graph does.                           *)
OnlyLanding == \A g : g = [n \in Names |-> LandOf({}, g, n)] => g = Landing({})

LEMMA LandUnique == Grown => OnlyLanding
BY LandingIs DEF OnlyLanding

LEMMA LandFixed ==
    Grown => Landing({}) = [n \in Names |-> LandOf({}, Landing({}), n)]
BY LandingIs

LEMMA LandStays ==
    ASSUME Grown, inputVars' = inputVars, list' = list
    PROVE  /\ Grown' /\ Landing({})' = Landing({})
           /\ AsyncFeedsAsync' = AsyncFeedsAsync
           /\ \A L, s : Copies(L, s)' = Copies(L, s)
           /\ \A n : IsAsync(n)' = IsAsync(n)
<1>1. spec' = spec /\ broken' = broken
  BY DEF inputVars
<1>2. \A n : /\ Delegates(n)' = Delegates(n) /\ Children(n)' = Children(n)
             /\ IsAsync(n)' = IsAsync(n)
  BY <1>1, InputsStay DEF IsAsync
<1>3. Grown'
  <2>1. SpecShape'
    BY <1>1 DEF Grown, SpecShape
  <2>2. ListInv' /\ ToSet(list)' = Names
    BY ListStays DEF Grown
  <2> QED
    BY <2>1, <2>2 DEF Grown
<1>4. PICK g : g = Landing({})
  OBVIOUS
<1>5. g = [n \in Names |-> LandOf({}, g, n)]
  BY <1>4, LandFixed
<1>6. \A n \in Names : LandOf({}, g, n)' = LandOf({}, g, n)
  <2> TAKE n \in Names
  <2>1. \A key : Through(g, n, key)' = Through(g, n, key)
    BY <1>2 DEF Through
  <2>2. \A k \in Keys : LandAt({}, g, n, k)' = LandAt({}, g, n, k)
    BY <1>1, <2>1 DEF LandAt
  <2> QED
    BY <2>2 DEF LandOf
<1>7. g = Landing({})'
  <2>1. Grown' => OnlyLanding'
    BY LandUnique, PTL
  <2>2. g = [n \in Names |-> LandOf({}, g, n)']
    BY <1>5, <1>6
  <2> QED
    BY <1>3, <2>1, <2>2 DEF OnlyLanding
<1>8. Landing({})' = Landing({})
  BY <1>4, <1>7
<1>9. AsyncFeedsAsync' = AsyncFeedsAsync
  BY <1>2, <1>8 DEF AsyncFeedsAsync
<1>10. \A a, key : Heirs(a, key)' = Heirs(a, key)
  BY <1>2 DEF Heirs
<1>11. \A a, key, s : Arriving(a, key, s)' = Arriving(a, key, s)
  BY <1>2, <1>8, <1>10 DEF Arriving
<1>12. \A L, s : Copies(L, s)' = Copies(L, s)
  BY <1>2, <1>11 DEF Copies
<1> QED
  BY <1>2, <1>3, <1>8, <1>9, <1>12

-----------------------------------------------------------------------------
(* What is accepted is under way until it is written.                      *)
Item == [event : Events, key : Keys]

FlowTypes ==
    /\ queue \in [Names -> Seq(Item)]
    /\ written \in [Names \X Events -> Nat]
    /\ taken \in [Events -> [answer : {"none", "ok", "error"}, by : Names \cup {Unknown}]]
    /\ \A b \in Names : ~IsAsync(b) => queue[b] = <<>>

Silent == /\ queue = [n \in Names |-> <<>>]
          /\ written = [s \in Names \X Events |-> 0]
          /\ \A e \in Events : taken[e].answer = "none"

AnsweredInv ==
    /\ \A b \in Names : \A i \in DOMAIN queue[b] : taken[queue[b][i].event].answer = "ok"
    /\ \A e \in Events : taken[e].answer # "ok" => \A s \in Names : written[<<s, e>>] = 0
    /\ \A e \in Events : taken[e].answer = "ok" => taken[e].by \in Names

LandedAt(e) == Landing({})[taken[e].by][KeyOf[e]]
Carried(e) == \E b \in Names : \E i \in DOMAIN queue[b] : queue[b][i].event = e

(* An event stands in the queue of the async appender it landed in, once,  *)
(* and nothing of it is written; or it is in no queue and all of it is.    *)
CarriedInv ==
    /\ \A b \in Names : \A i, j \in DOMAIN queue[b] :
          queue[b][i].event = queue[b][j].event => i = j
    /\ \A e \in Events, b \in Names : \A i \in DOMAIN queue[b] : queue[b][i].event = e =>
          /\ LandedAt(e).ok /\ LandedAt(e).at = b /\ LandedAt(e).key = queue[b][i].key
          /\ \A s \in Names : written[<<s, e>>] = 0
    /\ \A e \in Events : taken[e].answer = "ok" /\ ~Carried(e) =>
          \A s \in Names : written[<<s, e>>] = Copies(LandedAt(e), s)

TakenType == taken \in [Events -> [answer : {"none", "ok", "error"}, by : Names \cup {Unknown}]]

LEMMA SilenceKeeps == Silent /\ TakenType => FlowTypes /\ AnsweredInv /\ CarriedInv
<1> SUFFICES ASSUME Silent, TakenType PROVE FlowTypes /\ AnsweredInv /\ CarriedInv
  OBVIOUS
<1>1. \A b \in Names : queue[b] = <<>> /\ DOMAIN queue[b] = {}
  BY DEF Silent
<1>2. FlowTypes
  BY DEF FlowTypes, Silent, TakenType
<1>3. AnsweredInv
  BY <1>1 DEF AnsweredInv, Silent
<1>4. CarriedInv
  BY <1>1 DEF CarriedInv, Silent
<1> QED
  BY <1>2, <1>3, <1>4

LEMMA StillnessKeeps ==
    ASSUME Grown, inputVars' = inputVars, list' = list, flowVars' = flowVars
    PROVE  /\ FlowTypes => FlowTypes'
           /\ AnsweredInv => AnsweredInv'
           /\ CarriedInv => CarriedInv'
<1>1. queue' = queue /\ written' = written /\ taken' = taken
  BY DEF flowVars
<1>2. /\ Landing({})' = Landing({})
      /\ \A L, s : Copies(L, s)' = Copies(L, s)
      /\ \A n : IsAsync(n)' = IsAsync(n)
  BY LandStays
<1>3. \A e : LandedAt(e)' = LandedAt(e) /\ Carried(e)' = Carried(e)
  BY <1>1, <1>2 DEF LandedAt, Carried
<1>4. FlowTypes => FlowTypes'
  BY <1>1, <1>2 DEF FlowTypes
<1>5. AnsweredInv => AnsweredInv'
  BY <1>1 DEF AnsweredInv
<1>6. CarriedInv => CarriedInv'
  <2>1. \A e \in Events, s \in Names : Copies(LandedAt(e), s)' = Copies(LandedAt(e), s)
    <3> TAKE e \in Events, s \in Names
    <3>1. PICK L : L = LandedAt(e)
      OBVIOUS
    <3>2. L = LandedAt(e)'
      BY <1>3, <3>1
    <3>3. Copies(L, s)' = Copies(L, s)
      BY <1>2
    <3> QED
      BY <3>1, <3>2, <3>3 DEF Copies, Arriving
  <2> QED
    BY <1>1, <1>3, <2>1 DEF CarriedInv
<1> QED
  BY <1>4, <1>5, <1>6

(* A logger hands an event to an appender.                                 *)
LEMMA LogKeeps ==
    ASSUME Grown, FlowTypes, AnsweredInv, Shut = {}, NEW e \in Events, NEW n \in Names, Log(e, n)
    PROVE  FlowTypes' /\ AnsweredInv' /\ (CarriedInv => CarriedInv')
<1> DEFINE k == KeyOf[e]
           L == Landing({})[n][k]
           spot == L.at
           item == [event |-> e, key |-> L.key]
<1>1. inputVars' = inputVars /\ list' = list
  BY DEF Log, buildVars
<1>2. /\ Grown' /\ Landing({})' = Landing({}) /\ \A M, s : Copies(M, s)' = Copies(M, s)
      /\ \A m : IsAsync(m)' = IsAsync(m)
  BY <1>1, LandStays
<1>3. k \in Keys /\ L \in Landings
  <2>1. k \in Keys
    BY GraphAssumption
  <2> QED
    BY <2>1, LandingIs
<1>4. /\ taken[e].answer = "none"
      /\ taken' = [taken EXCEPT ![e] = [answer |-> IF L.ok THEN "ok" ELSE "error", by |-> n]]
      /\ Deliver(e, L)
  BY DEF Log
<1> HIDE DEF L, k
<1>5. L.ok \in BOOLEAN /\ spot \in Names \cup {Unknown} /\ L.key \in Keys /\ item \in Item
  BY <1>3 DEF Landings, Item
<1>6. \/ /\ ~(L.ok /\ spot # Unknown)
         /\ queue' = queue /\ written' = written
      \/ /\ L.ok /\ spot \in Names /\ IsAsync(spot)
         /\ queue' = [queue EXCEPT ![spot] = Append(@, item)] /\ written' = written
      \/ /\ L.ok /\ spot \in Names /\ ~IsAsync(spot)
         /\ queue' = queue /\ written' = [written EXCEPT ![<<spot, e>>] = @ + 1]
  BY <1>4, <1>5 DEF Deliver
<1>7. ASSUME NEW x \in Events
      PROVE  taken'[x] = IF x = e THEN [answer |-> IF L.ok THEN "ok" ELSE "error", by |-> n] ELSE taken[x]
  BY <1>4 DEF FlowTypes
<1>8. ASSUME NEW b \in Names
      PROVE  /\ queue[b] \in Seq(Item) /\ Len(queue[b]) \in Nat /\ DOMAIN queue[b] = 1..Len(queue[b])
             /\ \A i \in DOMAIN queue[b] : queue[b][i] \in Item /\ queue[b][i].event \in Events /\ queue[b][i].event # e
  <2>1. queue[b] \in Seq(Item)
    BY DEF FlowTypes
  <2>2. Len(queue[b]) \in Nat /\ DOMAIN queue[b] = 1..Len(queue[b]) /\ \A i \in DOMAIN queue[b] : queue[b][i] \in Item
    BY <2>1
  <2> QED
    BY <1>4, <2>1, <2>2 DEF Item, AnsweredInv
<1>9. ASSUME NEW b \in Names
      PROVE  \/ queue'[b] = queue[b]
             \/ /\ b = spot /\ L.ok /\ IsAsync(b)
                /\ queue'[b] \in Seq(Item)
                /\ DOMAIN queue'[b] = 1..(Len(queue[b]) + 1)
                /\ \A i \in DOMAIN queue[b] : queue'[b][i] = queue[b][i]
                /\ queue'[b][Len(queue[b]) + 1] = item
  <2>1. CASE queue' = queue
    BY <2>1
  <2>2. CASE L.ok /\ spot \in Names /\ IsAsync(spot) /\ queue' = [queue EXCEPT ![spot] = Append(@, item)]
    <3>1. CASE b # spot
      BY <2>2, <3>1 DEF FlowTypes
    <3>2. CASE b = spot
      <4>1. queue'[b] = Append(queue[b], item)
        BY <2>2, <3>2 DEF FlowTypes
      <4> QED
        BY <1>5, <1>8, <2>2, <3>2, <4>1
    <3> QED
      BY <3>1, <3>2
  <2> QED
    BY <1>6, <2>1, <2>2
<1>10. ASSUME NEW s \in Names, NEW x \in Events
       PROVE  /\ written'[<<s, x>>] \in Nat
              /\ ~(x = e /\ s = spot /\ L.ok /\ ~IsAsync(spot)) => written'[<<s, x>>] = written[<<s, x>>]
              /\ x = e /\ s = spot /\ L.ok /\ ~IsAsync(spot) => written'[<<s, x>>] = written[<<s, x>>] + 1
  <2>1. written[<<s, x>>] \in Nat
    BY DEF FlowTypes
  <2>2. CASE written' = written /\ ~(L.ok /\ spot \in Names /\ ~IsAsync(spot))
    BY <2>1, <2>2
  <2>3. CASE L.ok /\ spot \in Names /\ ~IsAsync(spot) /\ written' = [written EXCEPT ![<<spot, e>>] = @ + 1]
    <3>1. CASE <<s, x>> = <<spot, e>>
      BY <2>1, <2>3, <3>1 DEF FlowTypes
    <3>2. CASE <<s, x>> # <<spot, e>>
      BY <2>1, <2>3, <3>2 DEF FlowTypes
    <3> QED
      BY <3>1, <3>2
  <2>4. Unknown \notin Names
    BY GraphAssumption
  <2> QED
    BY <1>6, <2>2, <2>3, <2>4
<1>11. FlowTypes'
  <2>1. queue' \in [Names -> Seq(Item)]
    <3>1. \A b \in Names : queue'[b] \in Seq(Item)
      BY <1>8, <1>9
    <3>2. queue' = [b \in Names |-> queue'[b]]
      BY <1>6 DEF FlowTypes
    <3> QED
      BY <3>1, <3>2
  <2>2. written' \in [Names \X Events -> Nat]
    <3>1. \A a \in Names \X Events : written'[a] \in Nat
      <4> TAKE a \in Names \X Events
      <4>1. a = <<a[1], a[2]>> /\ a[1] \in Names /\ a[2] \in Events
        OBVIOUS
      <4> QED
        BY <1>10, <4>1
    <3>2. written' = [a \in Names \X Events |-> written'[a]]
      BY <1>6 DEF FlowTypes
    <3> QED
      BY <3>1, <3>2
  <2>3. taken' \in [Events -> [answer : {"none", "ok", "error"}, by : Names \cup {Unknown}]]
    BY <1>4 DEF FlowTypes
  <2>4. \A b \in Names : ~IsAsync(b) => queue'[b] = <<>>
    BY <1>9 DEF FlowTypes
  <2> QED
    BY <1>2, <2>1, <2>2, <2>3, <2>4 DEF FlowTypes
<1>12. ASSUME NEW b \in Names, NEW i \in DOMAIN queue'[b]
       PROVE  \/ i \in DOMAIN queue[b] /\ queue'[b][i] = queue[b][i] /\ queue'[b][i].event \in Events \ {e}
              \/ i = Len(queue[b]) + 1 /\ queue'[b][i] = item /\ b = spot /\ L.ok /\ IsAsync(b)
  <2>1. CASE queue'[b] = queue[b]
    BY <1>8, <2>1
  <2>2. CASE queue'[b] # queue[b]
    <3>1. i \in DOMAIN queue[b] \/ i = Len(queue[b]) + 1
      BY <1>8, <1>9, <2>2
    <3> QED
      BY <1>8, <1>9, <2>2, <3>1
  <2> QED
    BY <2>1, <2>2
<1>13. AnsweredInv'
  <2>1. ASSUME NEW b \in Names, NEW i \in DOMAIN queue'[b] PROVE taken'[queue'[b][i].event].answer = "ok"
    BY <1>7, <1>12 DEF AnsweredInv
  <2>2. ASSUME NEW x \in Events, taken'[x].answer # "ok", NEW s \in Names PROVE written'[<<s, x>>] = 0
    <3>1. taken[x].answer # "ok" /\ (x = e => ~L.ok)
      BY <1>4, <1>7, <2>2
    <3> QED
      BY <1>10, <3>1 DEF AnsweredInv
  <2>3. ASSUME NEW x \in Events, taken'[x].answer = "ok" PROVE taken'[x].by \in Names
    BY <1>7, <2>3 DEF AnsweredInv
  <2> QED
    BY <2>1, <2>2, <2>3 DEF AnsweredInv
<1>14. ASSUME CarriedInv PROVE CarriedInv'
  <2>1. ASSUME NEW x \in Events PROVE LandedAt(x)' = IF x = e THEN L ELSE LandedAt(x)
    BY <1>2, <1>7 DEF LandedAt, L, k
  <2>2. ASSUME NEW b \in Names, NEW i \in DOMAIN queue'[b], NEW j \in DOMAIN queue'[b],
               queue'[b][i].event = queue'[b][j].event
        PROVE  i = j
    BY <1>12, <1>14, <2>2 DEF CarriedInv
  <2>3. ASSUME NEW x \in Events, NEW b \in Names, NEW i \in DOMAIN queue'[b], queue'[b][i].event = x
        PROVE  /\ LandedAt(x)'.ok /\ LandedAt(x)'.at = b /\ LandedAt(x)'.key = queue'[b][i].key
               /\ \A s \in Names : written'[<<s, x>>] = 0
    <3>0. PICK M : M = LandedAt(x)'
      OBVIOUS
    <3>1. CASE i \in DOMAIN queue[b] /\ queue'[b][i] = queue[b][i] /\ queue'[b][i].event \in Events \ {e}
      <4>1. x # e /\ queue[b][i].event = x /\ M = LandedAt(x)
        BY <2>1, <2>3, <3>0, <3>1
      <4>2. /\ M.ok /\ M.at = b /\ M.key = queue[b][i].key
            /\ \A s \in Names : written[<<s, x>>] = 0
        BY <1>14, <3>1, <4>1 DEF CarriedInv
      <4>3. \A s \in Names : written'[<<s, x>>] = 0
        BY <1>10, <4>1, <4>2
      <4> QED
        BY <3>0, <3>1, <4>2, <4>3
    <3>2. CASE queue'[b][i] = item /\ b = spot /\ L.ok /\ IsAsync(b)
      <4>1. \A s \in Names : written[<<s, e>>] = 0
        BY <1>4 DEF AnsweredInv
      <4>2. x = e /\ M = L /\ queue'[b][i].key = L.key
        BY <2>1, <2>3, <3>0, <3>2
      <4>3. \A s \in Names : written'[<<s, x>>] = 0
        BY <1>10, <3>2, <4>1, <4>2
      <4> QED
        BY <3>0, <3>2, <4>2, <4>3
    <3> QED
      BY <1>12, <3>1, <3>2
  <2>4. ASSUME NEW x \in Events, taken'[x].answer = "ok", ~Carried(x)', NEW s \in Names
        PROVE  written'[<<s, x>>] = Copies(LandedAt(x), s)'
    <3>1. PICK M : M = LandedAt(x)'
      OBVIOUS
    <3>2. Copies(LandedAt(x), s)' = Copies(M, s)
      <4>1. Copies(M, s)' = Copies(M, s)
        BY <1>2
      <4> QED
        BY <3>1, <4>1 DEF Copies, Arriving
    <3>3. CASE x # e
      <4>1. M = LandedAt(x) /\ taken[x].answer = "ok"
        BY <1>7, <2>1, <2>4, <3>1, <3>3
      <4>2. ~Carried(x)
        <5> SUFFICES ASSUME NEW b \in Names, NEW i \in DOMAIN queue[b], queue[b][i].event = x
                     PROVE  FALSE
          BY DEF Carried
        <5>1. i \in DOMAIN queue'[b] /\ queue'[b][i] = queue[b][i]
          BY <1>8, <1>9
        <5> QED
          BY <2>4, <5>1 DEF Carried
      <4> QED
        BY <1>10, <1>14, <3>2, <3>3, <4>1, <4>2 DEF CarriedInv
    <3>4. CASE x = e
      <4>1. M = L /\ L.ok
        BY <1>7, <2>1, <2>4, <3>1, <3>4
      <4>2. ~(spot \in Names /\ IsAsync(spot))
        <5> SUFFICES ASSUME spot \in Names, IsAsync(spot) PROVE FALSE
          OBVIOUS
        <5>1. queue' = [queue EXCEPT ![spot] = Append(@, item)]
          BY <1>6, <4>1, GraphAssumption
        <5>2. queue'[spot] = Append(queue[spot], item)
          BY <5>1 DEF FlowTypes
        <5>3. Len(queue[spot]) + 1 \in DOMAIN queue'[spot] /\ queue'[spot][Len(queue[spot]) + 1] = item
          BY <1>8, <5>2
        <5> QED
          BY <2>4, <3>4, <5>3 DEF Carried
      <4>3. written[<<s, e>>] = 0 /\ s # Unknown
        BY <1>4, GraphAssumption DEF AnsweredInv
      <4>4. Copies(L, s) = IF spot = Unknown THEN 0 ELSE IF spot = s THEN 1 ELSE 0
        BY <1>5, <4>1, <4>2 DEF Copies
      <4>5. written'[<<s, e>>] = IF spot = s THEN 1 ELSE 0
        BY <1>10, <4>1, <4>2, <4>3
      <4> QED
        BY <3>2, <3>4, <4>1, <4>3, <4>4, <4>5
    <3> QED
      BY <3>3, <3>4
  <2> QED
    BY <2>2, <2>3, <2>4 DEF CarriedInv
<1> QED
  BY <1>11, <1>13, <1>14

(* The delegates of async appender a that bring an event with this key to  *)
(* b now.                                                                  *)
Sent(a, key, b) ==
    {i \in Heirs(a, key) : LET L == Landing(Shut)[Delegates(a)[i].to][key] IN L.ok /\ L.at = b}

(* What happens when async appender a hands x on.                          *)
HandedOn(a, x) ==
    /\ x \in Item /\ IsAsync(a)
    /\ queue[a] \in Seq(Item) /\ queue[a] # <<>> /\ queue'[a] = Tail(queue[a])
    /\ \A b \in Names \ {a} :
          \E more \in Seq(Item) :
             /\ queue'[b] = queue[b] \o more
             /\ \A j \in DOMAIN more : more[j].event = x.event
             /\ ~IsAsync(b) \/ Sent(a, x.key, b) = {} => more = <<>>
    /\ queue' = [b \in Names |-> queue'[b]]
    /\ written' = [s \in Names \X Events |->
                     IF s[2] = x.event /\ ~IsAsync(s[1])
                       THEN written[s] + Cardinality(Sent(a, x.key, s[1])) ELSE written[s]]
    /\ inputVars' = inputVars /\ list' = list /\ taken' = taken
    /\ \A b : IsFiniteSet(Sent(a, x.key, b))

(* What the worker of an async appender does with the event it takes.      *)
LEMMA HandOnIs ==
    ASSUME Grown, FlowTypes, NEW a \in Names, HandOn(a), NEW x, x = Head(queue[a])
    PROVE  HandedOn(a, x)
<1> DEFINE key == x.key
           passing == Heirs(a, key)
           landings == [i \in passing |-> Landing(Shut)[Delegates(a)[i].to][key]]
           arrivals == [i \in passing |-> [event |-> x.event, key |-> landings[i].key]]
<1>1. queue[a] \in Seq(Item) /\ queue[a] # <<>> /\ x \in Item /\ IsAsync(a)
  <2>1. queue[a] # <<>> /\ queue[a] \in Seq(Item)
    BY DEF HandOn, FlowTypes
  <2>2. IsAsync(a)
    BY <2>1 DEF FlowTypes
  <2> QED
    BY <2>1, <2>2
<1>2. x.event \in Events /\ key \in Keys
  BY <1>1 DEF Item
<1> DEFINE landed(b) == {i \in passing : landings[i].ok /\ landings[i].at = b}
<1>3. \A b : Sent(a, key, b) = landed(b)
  BY DEF Sent
<1>4. /\ queue' = [b \in Names |->
                     IF b = a THEN Tail(queue[a])
                     ELSE IF IsAsync(b) THEN queue[b] \o Sublist(arrivals, Sent(a, key, b))
                     ELSE queue[b]]
      /\ written' = [s \in Names \X Events |->
                       IF s[2] = x.event /\ ~IsAsync(s[1])
                         THEN written[s] + Cardinality(Sent(a, key, s[1])) ELSE written[s]]
  <2>1. /\ queue' = [b \in Names |->
                     IF b = a THEN Tail(queue[a])
                     ELSE IF IsAsync(b) THEN queue[b] \o Sublist(arrivals, landed(b))
                     ELSE queue[b]]
        /\ written' = [s \in Names \X Events |->
                       IF s[2] = x.event /\ ~IsAsync(s[1])
                         THEN written[s] + Cardinality(landed(s[1])) ELSE written[s]]
    BY Zenon DEF HandOn, Heirs
  <2> HIDE DEF landed, arrivals
  <2> QED
    BY <1>3, <2>1
<1>5. passing \in SUBSET Nat /\ IsFiniteSet(passing)
      /\ \A i \in passing : Delegates(a)[i].to \in Names
  <2>1. DOMAIN Delegates(a) \subseteq Nat /\ IsFiniteSet(DOMAIN Delegates(a))
        /\ \A i \in DOMAIN Delegates(a) : Delegates(a)[i].to \in Names
    BY GrownFacts DEF Earlier
  <2>2. passing \in SUBSET DOMAIN Delegates(a)
    BY DEF Heirs
  <2> HIDE DEF passing
  <2> QED
    BY <2>1, <2>2, FS_Subset
<1>6. \A b : Sent(a, key, b) \in SUBSET passing /\ IsFiniteSet(Sent(a, key, b))
  <2> TAKE b
  <2>1. Sent(a, key, b) \in SUBSET passing
    BY DEF Sent
  <2> HIDE DEF passing
  <2> QED
    BY <1>5, <2>1, FS_Subset
<1>7. \A i \in passing : arrivals[i] \in Item /\ arrivals[i].event = x.event
  <2> TAKE i \in passing
  <2>1. Landing(Shut)[Delegates(a)[i].to][key] \in Landings
    BY <1>2, <1>5, LandingIs
  <2> QED
    BY <1>2, <2>1 DEF Landings, Item
<1> HIDE DEF arrivals, passing
<1>8. ASSUME NEW b \in Names \ {a}
      PROVE  \E more \in Seq(Item) :
                    /\ queue'[b] = queue[b] \o more
                    /\ \A j \in DOMAIN more : more[j].event = x.event
                    /\ ~IsAsync(b) \/ Sent(a, key, b) = {} => more = <<>>
  <2>0. queue[b] \in Seq(Item)
    BY DEF FlowTypes
  <2>1. CASE ~IsAsync(b)
    <3>1. queue'[b] = queue[b]
      BY <1>4, <2>1
    <3>2. queue[b] = queue[b] \o <<>> /\ <<>> \in Seq(Item) /\ DOMAIN <<>> = {}
      BY <2>0
    <3> QED
      BY <3>1, <3>2
  <2>2. CASE IsAsync(b)
    <3> DEFINE T == Sent(a, key, b)
               more == Sublist(arrivals, T)
               n == Cardinality(T)
    <3>1. queue'[b] = queue[b] \o more
      BY <1>4, <2>2
    <3>2. T \in SUBSET Nat /\ IsFiniteSet(T) /\ T \in SUBSET passing
      BY <1>5, <1>6
    <3> HIDE DEF T
    <3>3. PICK order : Enumerates(order, more, arrivals, T)
      BY <3>2, SublistFacts
    <3>4. n \in Nat /\ order \in [1..n -> T] /\ more = [i \in 1..n |-> arrivals[order[i]]]
      BY <3>3 DEF Enumerates
    <3> HIDE DEF more, n
    <3>5. \A i \in 1..n : more[i] \in Item /\ more[i].event = x.event
      BY <1>7, <3>2, <3>4
    <3>6. more \in [1..n -> Item]
      BY <3>4, <3>5
    <3>7. more \in Seq(Item) /\ Len(more) = n /\ DOMAIN more = 1..n
      BY <3>4, <3>6, FunctionIsSequence
    <3>8. T = {} => more = <<>>
      <4>1. T = {} => n = 0
        BY FS_EmptySet DEF n
      <4> QED
        BY <3>7, <4>1
    <3>9. IsAsync(b) /\ (Sent(a, key, b) = {} => more = <<>>)
      BY <2>2, <3>8 DEF T
    <3> QED
      BY <3>1, <3>5, <3>7, <3>9
  <2> QED
    BY <2>1, <2>2
<1>9. queue'[a] = Tail(queue[a]) /\ queue' = [b \in Names |-> queue'[b]]
  BY <1>4
<1>10. inputVars' = inputVars /\ list' = list /\ taken' = taken
  BY DEF HandOn, buildVars
<1> QED
  BY <1>1, <1>4, <1>6, <1>8, <1>9, <1>10 DEF HandedOn

LEMMA SentArrives ==
    ASSUME Grown, \A n \in Shut \cap Names : IsAsync(n), ~AsyncFeedsAsync,
           NEW a \in Names, IsAsync(a), NEW key \in Keys
    PROVE  \A b \in Names : /\ Sent(a, key, b) = Arriving(a, key, b)
                            /\ IsAsync(b) => Sent(a, key, b) = {}
<1> TAKE b \in Names
<1>1. b # Unknown
  BY GraphAssumption
<1>2. ASSUME NEW i \in Heirs(a, key)
      PROVE  LET L == Landing({})[Delegates(a)[i].to][key]
             IN  /\ Landing(Shut)[Delegates(a)[i].to][key] = L
                 /\ L.at = b => ~IsAsync(b)
  <2> DEFINE m == Delegates(a)[i].to
             L == Landing({})[m][key]
  <2>1. i \in DOMAIN Delegates(a)
    BY DEF Heirs
  <2>2. m \in Names
    BY <2>1, GrownFacts DEF Earlier
  <2>3. L.at # Unknown => L.at \in Names /\ ~IsAsync(L.at)
    BY <2>1, HandedOnLands
  <2>4. Same(Shut, m, key)
    <3>1. \A n \in Names \cap Shut : IsAsync(n)
      OBVIOUS
    <3> QED
      BY <2>2, <3>1, LandsAsBefore
  <2>5. Landing(Shut)[m][key] = L
    BY <2>3, <2>4, GraphAssumption DEF Same
  <2> HIDE DEF L
  <2>6. L.at = b => ~IsAsync(b)
    BY <1>1, <2>3
  <2> QED
    BY <2>5, <2>6 DEF L
<1> QED
  BY <1>2 DEF Sent, Arriving

(* A worker hands an event on, all that is closed being async.             *)
LEMMA HandOnKeeps ==
    ASSUME Grown, FlowTypes, AnsweredInv, \A n \in Shut \cap Names : IsAsync(n),
           NEW a \in Names, HandOn(a)
    PROVE  FlowTypes' /\ AnsweredInv' /\ (~AsyncFeedsAsync /\ CarriedInv => CarriedInv')
<1>0. PICK x : x = Head(queue[a])
  OBVIOUS
<1> DEFINE e == x.event
           key == x.key
<1>1. /\ x \in Item /\ IsAsync(a)
      /\ queue[a] \in Seq(Item) /\ queue[a] # <<>> /\ queue'[a] = Tail(queue[a])
      /\ \A b \in Names \ {a} :
            \E more \in Seq(Item) :
               /\ queue'[b] = queue[b] \o more
               /\ \A j \in DOMAIN more : more[j].event = e
               /\ ~IsAsync(b) \/ Sent(a, key, b) = {} => more = <<>>
      /\ queue' = [b \in Names |-> queue'[b]]
      /\ written' = [s \in Names \X Events |->
                       IF s[2] = e /\ ~IsAsync(s[1])
                         THEN written[s] + Cardinality(Sent(a, key, s[1])) ELSE written[s]]
      /\ inputVars' = inputVars /\ list' = list /\ taken' = taken
      /\ \A b : IsFiniteSet(Sent(a, key, b))
  <2>1. HandedOn(a, x)
    BY <1>0, HandOnIs
  <2> QED
    BY <2>1 DEF HandedOn
<1>2. e \in Events /\ key \in Keys
  BY <1>1 DEF Item
<1>3. /\ Grown' /\ Landing({})' = Landing({}) /\ \A M, s : Copies(M, s)' = Copies(M, s)
      /\ \A m : IsAsync(m)' = IsAsync(m)
  BY <1>1, LandStays
<1>4. ASSUME NEW b \in Names
      PROVE  /\ queue[b] \in Seq(Item) /\ Len(queue[b]) \in Nat /\ DOMAIN queue[b] = 1..Len(queue[b])
             /\ \A i \in DOMAIN queue[b] : queue[b][i] \in Item /\ queue[b][i].event \in Events
  <2>1. queue[b] \in Seq(Item)
    BY DEF FlowTypes
  <2>2. Len(queue[b]) \in Nat /\ DOMAIN queue[b] = 1..Len(queue[b]) /\ \A i \in DOMAIN queue[b] : queue[b][i] \in Item
    BY <2>1
  <2> QED
    BY <2>1, <2>2 DEF Item
<1>5. /\ Len(queue[a]) \in Nat \ {0} /\ 1 \in DOMAIN queue[a] /\ queue[a][1] = x
      /\ queue'[a] \in Seq(Item)
      /\ DOMAIN queue'[a] = 1..(Len(queue[a]) - 1)
      /\ \A i \in DOMAIN queue'[a] : i + 1 \in DOMAIN queue[a] /\ queue'[a][i] = queue[a][i + 1]
  BY <1>0, <1>1, <1>4
<1>6. ASSUME NEW b \in Names, b # a
      PROVE  /\ queue'[b] \in Seq(Item)
             /\ \A i \in DOMAIN queue'[b] : \/ i \in DOMAIN queue[b] /\ queue'[b][i] = queue[b][i]
                                            \/ queue'[b][i].event = e
             /\ ~IsAsync(b) \/ Sent(a, key, b) = {} => queue'[b] = queue[b]
  <2>1. PICK more \in Seq(Item) :
               /\ queue'[b] = queue[b] \o more
               /\ \A j \in DOMAIN more : more[j].event = e
               /\ ~IsAsync(b) \/ Sent(a, key, b) = {} => more = <<>>
    BY <1>1, <1>6
  <2>2. queue'[b] \in Seq(Item)
    BY <1>4, <2>1
  <2>3. ASSUME NEW i \in DOMAIN queue'[b], i \notin DOMAIN queue[b] PROVE queue'[b][i].event = e
    <3>1. i \in 1..(Len(queue[b]) + Len(more)) /\ i \in Int /\ Len(queue[b]) \in Nat /\ Len(more) \in Nat
      BY <1>4, <2>1, <2>3
    <3>2. i > Len(queue[b])
      BY <1>4, <2>3, <3>1
    <3>3. queue'[b][i] = more[i - Len(queue[b])]
      BY <1>4, <2>1, <3>1, <3>2
    <3>4. i - Len(queue[b]) \in DOMAIN more
      BY <2>1, <3>1, <3>2
    <3> QED
      BY <2>1, <3>3, <3>4
  <2>4. \A i \in DOMAIN queue[b] : queue'[b][i] = queue[b][i]
    BY <1>4, <2>1
  <2>5. more = <<>> => queue'[b] = queue[b]
    BY <1>4, <2>1
  <2> QED
    BY <2>1, <2>2, <2>3, <2>4, <2>5
<1>7. ASSUME NEW b \in Names, NEW s \in Events
      PROVE  /\ written[<<b, s>>] \in Nat /\ Cardinality(Sent(a, key, b)) \in Nat
             /\ s = e /\ ~IsAsync(b) => written'[<<b, s>>] = written[<<b, s>>] + Cardinality(Sent(a, key, b))
             /\ ~(s = e /\ ~IsAsync(b)) => written'[<<b, s>>] = written[<<b, s>>]
  <2>1. written[<<b, s>>] \in Nat
    BY DEF FlowTypes
  <2>2. Cardinality(Sent(a, key, b)) \in Nat
    BY <1>1, FS_CardinalityType
  <2> QED
    BY <1>1, <2>1, <2>2
<1>8. FlowTypes'
  <2>1. queue' \in [Names -> Seq(Item)]
    <3>1. \A b \in Names : queue'[b] \in Seq(Item)
      BY <1>5, <1>6
    <3> QED
      BY <1>1, <3>1
  <2>2. written' \in [Names \X Events -> Nat]
    <3>1. \A p \in Names \X Events : written'[p] \in Nat
      <4> TAKE p \in Names \X Events
      <4>1. p = <<p[1], p[2]>> /\ p[1] \in Names /\ p[2] \in Events
        OBVIOUS
      <4>2. PICK b \in Names, s \in Events : p = <<b, s>>
        BY <4>1
      <4>3. written'[<<b, s>>] \in Nat
        BY <1>7
      <4> QED
        BY <4>2, <4>3
    <3>2. written' = [p \in Names \X Events |-> written'[p]]
      BY <1>1
    <3> QED
      BY <3>1, <3>2
  <2>3. taken' \in [Events -> [answer : {"none", "ok", "error"}, by : Names \cup {Unknown}]]
    BY <1>1 DEF FlowTypes
  <2>4. \A b \in Names : ~IsAsync(b) => queue'[b] = <<>>
    BY <1>1, <1>6 DEF FlowTypes
  <2> QED
    BY <1>3, <2>1, <2>2, <2>3, <2>4 DEF FlowTypes
<1>9. taken[e].answer = "ok"
  BY <1>5 DEF AnsweredInv
<1>10. AnsweredInv'
  <2>0. \A b \in Names : \A j \in DOMAIN queue[b] : taken[queue[b][j].event].answer = "ok"
    BY DEF AnsweredInv
  <2>1. ASSUME NEW b \in Names, NEW i \in DOMAIN queue'[b] PROVE taken[queue'[b][i].event].answer = "ok"
    <3>1. CASE b = a
      <4>1. i + 1 \in DOMAIN queue[b] /\ queue'[b][i] = queue[b][i + 1]
        BY <1>5, <2>1, <3>1, Zenon
      <4> QED
        BY <2>0, <4>1, Zenon
    <3>2. CASE b # a
      <4>1. \/ i \in DOMAIN queue[b] /\ queue'[b][i] = queue[b][i]
            \/ queue'[b][i].event = e
        BY <1>6, <2>1, <3>2, Zenon
      <4> QED
        BY <1>9, <2>0, <4>1, Zenon
    <3> QED
      BY <3>1, <3>2
  <2>2. ASSUME NEW y \in Events, taken[y].answer # "ok", NEW s \in Names PROVE written'[<<s, y>>] = 0
    <3>1. written[<<s, y>>] = 0 /\ y # e
      BY <1>9, <2>2 DEF AnsweredInv
    <3> QED
      BY <1>7, <3>1
  <2>3. \A y \in Events : taken[y].answer = "ok" => taken[y].by \in Names
    BY DEF AnsweredInv
  <2> QED
    BY <1>1, <2>1, <2>2, <2>3 DEF AnsweredInv
<1>11. ASSUME ~AsyncFeedsAsync, CarriedInv PROVE CarriedInv'
  <2>1. \A b \in Names : /\ Sent(a, key, b) = Arriving(a, key, b)
                         /\ IsAsync(b) => Sent(a, key, b) = {}
    BY <1>1, <1>2, <1>11, SentArrives
  <2>2. \A b \in Names : b # a => queue'[b] = queue[b]
    BY <1>6, <2>1
  <2>3. \A y : LandedAt(y)' = LandedAt(y)
    BY <1>1, <1>3 DEF LandedAt
  <2>4. LandedAt(e).ok /\ LandedAt(e).at = a /\ LandedAt(e).key = key
        /\ \A s \in Names : written[<<s, e>>] = 0
    BY <1>2, <1>5, <1>11 DEF CarriedInv
  <2>5. ASSUME NEW b \in Names, NEW i \in DOMAIN queue'[b]
        PROVE  \E j \in DOMAIN queue[b] : queue[b][j] = queue'[b][i] /\ (b = a => j = i + 1)
    BY <1>5, <2>2
  <2>6. ASSUME NEW b \in Names, NEW i \in DOMAIN queue'[b], NEW j \in DOMAIN queue'[b],
               queue'[b][i].event = queue'[b][j].event
        PROVE  i = j
    <3>1. CASE b = a
      <4>1. i + 1 = j + 1
        <5>1. i + 1 \in DOMAIN queue[a] /\ j + 1 \in DOMAIN queue[a]
              /\ queue[a][i + 1].event = queue[a][j + 1].event
          BY <1>5, <2>6, <3>1
        <5> QED
          BY <1>11, <5>1 DEF CarriedInv
      <4>2. i \in Int /\ j \in Int
        BY <1>5, <2>6, <3>1
      <4> QED
        BY <4>1, <4>2
    <3>2. CASE b # a
      BY <1>11, <2>2, <2>6, <3>2 DEF CarriedInv
    <3> QED
      BY <3>1, <3>2
  <2>7. ASSUME NEW y \in Events, NEW b \in Names, NEW i \in DOMAIN queue'[b], queue'[b][i].event = y
        PROVE  /\ LandedAt(y).ok /\ LandedAt(y).at = b /\ LandedAt(y).key = queue'[b][i].key
               /\ \A s \in Names : written'[<<s, y>>] = 0
    <3>1. PICK j \in DOMAIN queue[b] : queue[b][j] = queue'[b][i] /\ (b = a => j = i + 1)
      BY <2>5
    <3>2. /\ LandedAt(y).ok /\ LandedAt(y).at = b /\ LandedAt(y).key = queue[b][j].key
          /\ \A s \in Names : written[<<s, y>>] = 0
      BY <1>11, <2>7, <3>1 DEF CarriedInv
    <3>3. y # e
      <4>1. CASE b = a
        <5>1. i \in Nat \ {0} /\ j = i + 1
          BY <1>5, <2>7, <3>1, <4>1
        <5>2. j # 1
          BY <5>1
        <5> QED
          BY <1>5, <1>11, <2>7, <3>1, <4>1, <5>2 DEF CarriedInv
      <4>2. CASE b # a
        BY <2>4, <3>2, <4>2
      <4> QED
        BY <4>1, <4>2
    <3>4. \A s \in Names : written'[<<s, y>>] = 0
      BY <1>7, <3>2, <3>3
    <3> QED
      BY <3>1, <3>2, <3>4
  <2>8. ASSUME NEW y \in Events, taken[y].answer = "ok", ~Carried(y)', NEW s \in Names
        PROVE  written'[<<s, y>>] = Copies(LandedAt(y), s)
    <3>1. CASE y = e
      <4>1. LandedAt(y).at # Unknown /\ IsAsync(LandedAt(y).at) /\ LandedAt(y).ok
        BY <1>1, <2>4, <3>1, GraphAssumption
      <4>2. Copies(LandedAt(y), s) = Cardinality(Sent(a, key, s))
        BY <2>1, <2>4, <3>1, <4>1 DEF Copies
      <4>3. written[<<s, y>>] = 0
        BY <2>4, <3>1
      <4>4. CASE IsAsync(s)
        <5>1. Cardinality(Sent(a, key, s)) = 0
          BY <2>1, <4>4, FS_EmptySet
        <5> QED
          BY <1>7, <4>2, <4>3, <4>4, <5>1
      <4>5. CASE ~IsAsync(s)
        BY <1>7, <3>1, <4>2, <4>3, <4>5
      <4> QED
        BY <4>4, <4>5
    <3>2. CASE y # e
      <4>1. ~Carried(y)
        <5> SUFFICES ASSUME NEW b \in Names, NEW j \in DOMAIN queue[b], queue[b][j].event = y
                     PROVE  FALSE
          BY DEF Carried
        <5>1. CASE b # a
          BY <2>2, <2>8, <5>1 DEF Carried
        <5>2. CASE b = a
          <6>1. j # 1 /\ j \in 1..Len(queue[a]) /\ Len(queue[a]) \in Nat
            BY <1>4, <1>5, <3>2, <5>2
          <6>2. j - 1 \in DOMAIN queue'[a] /\ (j - 1) + 1 = j
            BY <1>5, <6>1
          <6>3. queue'[a][j - 1].event = y
            BY <1>5, <5>2, <6>2
          <6> QED
            BY <2>8, <6>2, <6>3 DEF Carried
        <5> QED
          BY <5>1, <5>2
      <4>2. written[<<s, y>>] = Copies(LandedAt(y), s)
        BY <1>11, <2>8, <4>1 DEF CarriedInv
      <4> QED
        BY <1>7, <3>2, <4>2
    <3> QED
      BY <3>1, <3>2
  <2>9. \A y, s : Copies(LandedAt(y), s)' = Copies(LandedAt(y), s)
    <3> TAKE y, s
    <3>1. PICK M : M = LandedAt(y)
      OBVIOUS
    <3>2. M = LandedAt(y)'
      BY <2>3, <3>1
    <3>3. Copies(M, s)' = Copies(M, s)
      BY <1>3
    <3> QED
      BY <3>1, <3>2, <3>3 DEF Copies, Arriving
  <2> QED
    <3>1. \A b \in Names : \A i, j \in DOMAIN queue'[b] :
              queue'[b][i].event = queue'[b][j].event => i = j
      BY <2>6
    <3>2. \A y \in Events, b \in Names : \A i \in DOMAIN queue'[b] : queue'[b][i].event = y =>
              /\ LandedAt(y)'.ok /\ LandedAt(y)'.at = b /\ LandedAt(y)'.key = queue'[b][i].key
              /\ \A s \in Names : written'[<<s, y>>] = 0
      BY <2>3, <2>7
    <3>3. \A y \in Events : taken'[y].answer = "ok" /\ ~Carried(y)' =>
              \A s \in Names : written'[<<s, y>>] = Copies(LandedAt(y), s)'
      <4> SUFFICES ASSUME NEW y \in Events, taken'[y].answer = "ok", ~Carried(y)', NEW s \in Names
                   PROVE  written'[<<s, y>>] = Copies(LandedAt(y), s)'
        OBVIOUS
      <4>1. taken[y].answer = "ok"
        BY <1>1
      <4>2. written'[<<s, y>>] = Copies(LandedAt(y), s)
        BY <2>8, <4>1
      <4>3. Copies(LandedAt(y), s)' = Copies(LandedAt(y), s)
        BY <2>9
      <4> QED
        BY <4>2, <4>3
    <3> QED
      BY <3>1, <3>2, <3>3 DEF CarriedInv
<1> QED
  BY <1>8, <1>10, <1>11

NothingQueued == \A n \in Names : queue[n] = <<>>

(* The async appenders are closed first, and drained before another is.    *)
AsyncFirst ==
    /\ \A i, j \in DOMAIN toClose : i < j /\ IsAsync(toClose[j]) => IsAsync(toClose[i])
    /\ (\E n \in Names : n \notin ToSet(toClose) /\ ~IsAsync(n)) =>
          NothingQueued /\ \A m \in ToSet(toClose) : ~IsAsync(m)

Flows == FlowTypes /\ AnsweredInv /\ (~AsyncFeedsAsync => CarriedInv)

FlowInv ==
    /\ phase \in {"concrete", "composite", "ready", "closing", "closed"}
    /\ TakenType
    /\ phase \in {"concrete", "composite"} \/ failed => Silent
    /\ phase \in {"ready", "closing", "closed"} /\ ~failed => ToSet(list) = Names /\ Flows
    /\ phase = "closing" /\ ~failed => AsyncFirst
    /\ phase = "closed" => NothingQueued

(* A configuration in use is a built one, and what is closed of it is what *)
(* CloseAppenders has come to.                                             *)
LEMMA InUse ==
    ASSUME ConfigCloseInv, FlowInv, phase \in {"ready", "closing", "closed"}, ~failed
    PROVE  /\ Grown
           /\ phase = "ready" => Shut = {}
           /\ phase \in {"closing", "closed"} =>
                 toClose \in Seq(Names) /\ IsInjective(toClose) /\ Shut = Names \ ToSet(toClose)
<1>1. Grown
  <2>1. SpecShape
    BY SpecAssumption DEF ConfigCloseInv, SpecShape
  <2> QED
    BY <2>1 DEF Grown, ConfigCloseInv, BuildInv, FlowInv
<1>2. CASE phase = "ready"
  BY <1>1, <1>2 DEF ConfigCloseInv, Shut
<1>3. CASE phase \in {"closing", "closed"}
  <2>1. Names \subseteq Opened
    BY <1>1 DEF Opened, Grown
  <2>2. \A n \in Names : closes[n] = IF n \notin ToSet(toClose) THEN 1 ELSE 0
    BY <1>3, <2>1 DEF ConfigCloseInv
  <2>3. Shut = Names \ ToSet(toClose)
    BY <2>2 DEF Shut
  <2> QED
    BY <1>1, <1>3, <2>3 DEF ConfigCloseInv
<1> QED
  BY <1>1, <1>2, <1>3

LEMMA FlowsKept ==
    ASSUME Grown, Flows, inputVars' = inputVars, list' = list, flowVars' = flowVars
    PROVE  Flows' /\ Grown' /\ (NothingQueued => NothingQueued') /\ \A n : IsAsync(n)' = IsAsync(n)
<1>1. AsyncFeedsAsync' = AsyncFeedsAsync /\ Grown' /\ \A n : IsAsync(n)' = IsAsync(n)
  BY LandStays
<1>2. NothingQueued => NothingQueued'
  BY DEF flowVars, NothingQueued
<1> QED
  BY <1>1, <1>2, StillnessKeeps DEF Flows

LEMMA FlowStepKeeps ==
    ASSUME ConfigCloseInv, FlowInv, source = "config", [GraphNext]_graphVars
    PROVE  FlowInv'
<1>1. inputVars' = inputVars /\ spec' = spec
  BY DEF GraphNext, graphVars, inputVars, BuildStep, BuildConcrete, DeferComposite, FailConcrete,
         BuildComposite, WaitForRefs, FailComposite, NextPass, FailUnresolved, FinishOptions,
         Log, HandOn, StartClose, CloseNext, EndClose
<1>2. ASSUME Silent, flowVars' = flowVars
      PROVE  Silent' /\ TakenType' /\ NothingQueued' /\ FlowTypes' /\ AnsweredInv' /\ CarriedInv'
  <2>1. Silent' /\ TakenType' /\ NothingQueued'
    BY <1>2 DEF Silent, flowVars, TakenType, FlowInv, NothingQueued
  <2>2. Silent' /\ TakenType' => (FlowTypes /\ AnsweredInv /\ CarriedInv)'
    BY SilenceKeeps, PTL
  <2> QED
    BY <2>1, <2>2
<1>3. ASSUME phase \in {"concrete", "composite"}, flowVars' = flowVars,
             \/ phase' \in {"concrete", "composite"}
             \/ failed' /\ phase' = "closing"
             \/ phase' = "ready" /\ ToSet(list)' = Names
      PROVE  FlowInv'
  <2>1. Silent
    BY <1>3 DEF FlowInv
  <2> QED
    BY <1>2, <1>3, <2>1 DEF FlowInv, Flows
<1>4. BuildInv'
  BY BuildStepKeeps DEF ConfigCloseInv
<1>5. CASE BuildStep
  <2>1. phase \in {"concrete", "composite"} /\ flowVars' = flowVars
    BY <1>5 DEF BuildStep, BuildConcrete, DeferComposite, FailConcrete,
         BuildComposite, WaitForRefs, FailComposite, NextPass, FailUnresolved, FinishOptions
  <2>2. \/ phase' \in {"concrete", "composite"}
        \/ failed' /\ phase' = "closing"
        \/ phase' = "ready"
    BY <1>5, <2>1 DEF BuildStep, BuildConcrete, DeferComposite, FailConcrete,
         BuildComposite, WaitForRefs, FailComposite, NextPass, FailUnresolved, FinishOptions,
         FailBuild, BeginClose
  <2>3. phase' = "ready" => ToSet(list)' = Names
    BY <1>4 DEF BuildInv
  <2> QED
    BY <1>3, <2>1, <2>2, <2>3
<1>6. ASSUME failed, failed' = failed, flowVars' = flowVars,
             phase' \in {"closing", "closed"}
      PROVE  FlowInv'
  <2>1. Silent
    BY <1>6 DEF FlowInv
  <2> QED
    BY <1>2, <1>6, <2>1 DEF FlowInv
<1>7. failed => phase \in {"closing", "closed"}
  BY DEF ConfigCloseInv, FlowInv
<1>8. CASE \E e \in Events, n \in Names : Log(e, n)
  <2>1. PICK e \in Events, n \in Names : Log(e, n)
    BY <1>8
  <2>2. phase = "ready" /\ ~failed
    BY <1>7, <2>1 DEF Log
  <2>3. Grown /\ Shut = {} /\ Flows
    BY <2>2, InUse DEF FlowInv
  <2>4. phase' = phase /\ failed' = failed /\ list' = list
    BY <2>1 DEF Log, buildVars
  <2>5. AsyncFeedsAsync' = AsyncFeedsAsync
    BY <1>1, <2>3, <2>4, LandStays
  <2>6. FlowTypes' /\ AnsweredInv' /\ (CarriedInv => CarriedInv')
    BY <2>1, <2>3, LogKeeps DEF Flows
  <2>7. Flows'
    BY <2>3, <2>5, <2>6 DEF Flows
  <2>8. TakenType'
    BY <2>6 DEF FlowTypes, TakenType
  <2>9. ToSet(list)' = Names
    BY <2>3, <2>4 DEF Grown
  <2> QED
    BY <2>2, <2>4, <2>7, <2>8, <2>9 DEF FlowInv
<1>9. CASE \E a \in Names : HandOn(a)
  <2>1. PICK a \in Names : HandOn(a)
    BY <1>9
  <2>2. queue[a] # <<>>
    BY <2>1 DEF HandOn
  <2>3. ~NothingQueued /\ ~Silent
    BY <2>2 DEF NothingQueued, Silent
  <2>4. phase \in {"ready", "closing"} /\ ~failed
    BY <2>3 DEF FlowInv
  <2>5. Grown /\ Flows
    BY <2>4, InUse DEF FlowInv
  <2>6. /\ phase' = phase /\ failed' = failed /\ list' = list /\ toClose' = toClose
        /\ taken' = taken
    BY <2>1 DEF HandOn, buildVars
  <2>7. \A n \in Shut \cap Names : IsAsync(n)
    <3>1. CASE phase = "ready"
      BY <2>4, <3>1, InUse
    <3>2. CASE phase = "closing"
      <4>1. Shut = Names \ ToSet(toClose)
        BY <2>4, <3>2, InUse
      <4> QED
        BY <2>3, <2>4, <3>2, <4>1 DEF FlowInv, AsyncFirst
    <3> QED
      BY <2>4, <3>1, <3>2
  <2>8. FlowTypes' /\ AnsweredInv' /\ (~AsyncFeedsAsync /\ CarriedInv => CarriedInv')
    BY <2>1, <2>5, <2>7, HandOnKeeps DEF Flows
  <2>9. AsyncFeedsAsync' = AsyncFeedsAsync /\ \A n : IsAsync(n)' = IsAsync(n)
    BY <1>1, <2>5, <2>6, LandStays
  <2>10. Flows'
    BY <2>5, <2>8, <2>9 DEF Flows
  <2>11. phase = "closing" => AsyncFirst'
    <3> SUFFICES ASSUME phase = "closing" PROVE AsyncFirst'
      OBVIOUS
    <3>1. AsyncFirst
      BY <2>4 DEF FlowInv
    <3>2. ~\E n \in Names : n \notin ToSet(toClose) /\ ~IsAsync(n)
      BY <2>3, <3>1 DEF AsyncFirst
    <3>3. ToSet(toClose)' = ToSet(toClose)
      BY <2>6
    <3> QED
      BY <2>6, <2>9, <3>1, <3>2, <3>3 DEF AsyncFirst
  <2>12. TakenType'
    BY <2>6 DEF FlowInv, TakenType
  <2>13. ToSet(list)' = Names
    BY <2>5, <2>6 DEF Grown
  <2> QED
    BY <2>4, <2>6, <2>10, <2>11, <2>12, <2>13 DEF FlowInv
<1>10. CASE StartClose
  <2>1. /\ phase = "ready" /\ ~failed /\ phase' = "closing" /\ failed' = failed /\ list' = list
        /\ toClose' = CloseOrder(list) /\ flowVars' = flowVars
    BY <1>7, <1>10 DEF StartClose, BeginClose
  <2>2. Grown /\ Flows
    BY <2>1, InUse DEF FlowInv
  <2>3. Flows' /\ \A n : IsAsync(n)' = IsAsync(n)
    BY <1>1, <2>1, <2>2, FlowsKept
  <2>4. list \in Seq(Names) /\ IsInjective(list) /\ ToSet(list) = Names
    BY <2>2 DEF Grown, ListInv
  <2>5. /\ ToSet(CloseOrder(list)) = ToSet(list)
        /\ \A i, j \in DOMAIN CloseOrder(list) :
              i < j /\ IsAsync(CloseOrder(list)[j]) => IsAsync(CloseOrder(list)[i])
    BY <2>4, CloseOrderFacts
  <2>6. AsyncFirst'
    <3> DEFINE order == CloseOrder(list)
    <3>1. /\ toClose' = order /\ ToSet(order) = Names
          /\ \A i, j \in DOMAIN order : i < j /\ IsAsync(order[j]) => IsAsync(order[i])
      BY <2>1, <2>4, <2>5
    <3> HIDE DEF order
    <3>2. ToSet(toClose)' = Names
      BY <3>1
    <3> QED
      BY <2>3, <3>1, <3>2 DEF AsyncFirst
  <2>7. TakenType'
    BY <2>1 DEF flowVars, FlowInv, TakenType
  <2> QED
    BY <2>1, <2>3, <2>4, <2>6, <2>7 DEF FlowInv
<1>11. CASE CloseNext
  <2>1. /\ phase = "closing" /\ toClose # <<>> /\ Drained /\ toClose' = Tail(toClose)
        /\ phase' = phase /\ failed' = failed /\ list' = list /\ flowVars' = flowVars
    BY <1>11 DEF CloseNext, buildVars
  <2>2. CASE failed
    BY <1>6, <2>1, <2>2
  <2>3. CASE ~failed
    <3>1. Grown /\ Flows /\ AsyncFirst /\ toClose \in Seq(Names) /\ IsInjective(toClose)
          /\ Shut = Names \ ToSet(toClose)
      BY <2>1, <2>3, InUse DEF FlowInv
    <3>2. Flows' /\ (NothingQueued => NothingQueued') /\ \A n : IsAsync(n)' = IsAsync(n)
      BY <1>1, <2>1, <3>1, FlowsKept
    <3> DEFINE h == Head(toClose)
    <3>3. /\ h \in Names /\ h \in ToSet(toClose)
          /\ ToSet(Tail(toClose)) = ToSet(toClose) \ {h}
          /\ DOMAIN Tail(toClose) = 1..(Len(toClose) - 1) /\ Len(toClose) \in Nat
          /\ \A i \in DOMAIN Tail(toClose) : i + 1 \in DOMAIN toClose /\ Tail(toClose)[i] = toClose[i + 1]
      <4>1. /\ Len(toClose) \in Nat \ {0} /\ DOMAIN toClose = 1..Len(toClose)
            /\ h = toClose[1] /\ 1 \in DOMAIN toClose
            /\ DOMAIN Tail(toClose) = 1..(Len(toClose) - 1)
            /\ \A i \in DOMAIN Tail(toClose) : i + 1 \in DOMAIN toClose /\ Tail(toClose)[i] = toClose[i + 1]
        BY <2>1, <3>1
      <4>2. h \in Names /\ h \in ToSet(toClose)
        BY <3>1, <4>1 DEF ToSet
      <4>3. ASSUME NEW m \in ToSet(Tail(toClose)) PROVE m \in ToSet(toClose) \ {h}
        <5>1. PICK i \in DOMAIN Tail(toClose) : Tail(toClose)[i] = m
          BY <4>3 DEF ToSet
        <5>2. toClose[i + 1] = m /\ i + 1 \in DOMAIN toClose /\ i + 1 # 1
          BY <4>1, <5>1
        <5> QED
          BY <3>1, <4>1, <5>2 DEF IsInjective, ToSet
      <4>4. ASSUME NEW m \in ToSet(toClose) \ {h} PROVE m \in ToSet(Tail(toClose))
        <5>1. PICK j \in DOMAIN toClose : toClose[j] = m
          BY <4>4 DEF ToSet
        <5>2. j # 1
          BY <4>1, <4>4, <5>1
        <5>3. j - 1 \in DOMAIN Tail(toClose) /\ (j - 1) + 1 = j
          BY <4>1, <5>1, <5>2
        <5>4. Tail(toClose)[j - 1] = m
          BY <4>1, <5>1, <5>3
        <5> QED
          BY <5>3, <5>4 DEF ToSet
      <4> QED
        BY <4>1, <4>2, <4>3, <4>4
    <3>4. ASSUME NEW i \in DOMAIN Tail(toClose), NEW j \in DOMAIN Tail(toClose), i < j,
                 IsAsync(Tail(toClose)[j])
          PROVE  IsAsync(Tail(toClose)[i])
      <4>1. i + 1 < j + 1
        BY <3>3, <3>4
      <4> QED
        BY <3>1, <3>3, <3>4, <4>1 DEF AsyncFirst
    <3>5. ASSUME NEW n \in Names, n \notin ToSet(toClose) \ {h}, ~IsAsync(n)
          PROVE  NothingQueued /\ \A m \in ToSet(toClose) \ {h} : ~IsAsync(m)
      <4>1. CASE n \notin ToSet(toClose)
        BY <3>1, <3>5, <4>1 DEF AsyncFirst
      <4>2. CASE n = h
        <5>1. ASSUME NEW m \in ToSet(toClose) PROVE ~IsAsync(m)
          <6>1. PICK j \in DOMAIN toClose : toClose[j] = m
            BY <5>1 DEF ToSet
          <6>2. j = 1 \/ j > 1
            BY <3>1
          <6>3. 1 \in DOMAIN toClose /\ toClose[1] = h
            BY <2>1, <3>1
          <6>4. ~IsAsync(toClose[1])
            BY <3>5, <4>2, <6>3
          <6>5. j > 1 => ~IsAsync(toClose[j])
            BY <3>1, <6>1, <6>3, <6>4 DEF AsyncFirst
          <6> QED
            BY <6>1, <6>2, <6>4, <6>5
        <5>2. ASSUME NEW m \in Names PROVE queue[m] = <<>>
          <6>1. CASE IsAsync(m)
            BY <2>1, <3>1, <5>1, <6>1 DEF Drained
          <6>2. CASE ~IsAsync(m)
            BY <3>1, <6>2 DEF Flows, FlowTypes
          <6> QED
            BY <6>1, <6>2
        <5> QED
          BY <5>1, <5>2 DEF NothingQueued
      <4> QED
        BY <3>5, <4>1, <4>2
    <3>6. AsyncFirst'
      <4>1. ToSet(toClose)' = ToSet(toClose) \ {h}
        BY <2>1, <3>3
      <4> HIDE DEF h
      <4>2. (\E n \in Names : n \notin ToSet(toClose)' /\ ~IsAsync(n)') =>
              NothingQueued' /\ \A m \in ToSet(toClose)' : ~IsAsync(m)'
        BY <3>2, <3>5, <4>1
      <4>3. \A i, j \in DOMAIN toClose' : i < j /\ IsAsync(toClose'[j]) => IsAsync(toClose'[i])
        BY <2>1, <3>4
      <4>4. \A i, j \in DOMAIN toClose' : i < j /\ IsAsync(toClose[j])' => IsAsync(toClose[i])'
        BY <1>1, <4>3 DEF IsAsync
      <4> QED
        BY <4>2, <4>4 DEF AsyncFirst
    <3>7. TakenType'
      BY <2>1 DEF flowVars, FlowInv, TakenType
    <3>8. ToSet(list)' = Names
      BY <2>1, <3>1 DEF Grown
    <3> QED
      BY <2>1, <2>3, <3>2, <3>6, <3>7, <3>8 DEF FlowInv
  <2> QED
    BY <2>2, <2>3
<1>12. CASE EndClose
  <2>1. /\ phase = "closing" /\ toClose = <<>> /\ Drained
        /\ phase' = "closed" /\ failed' = failed /\ list' = list /\ flowVars' = flowVars
    BY <1>12 DEF EndClose
  <2>2. CASE failed
    BY <1>6, <2>1, <2>2
  <2>3. CASE ~failed
    <3>1. Grown /\ Flows /\ Shut = Names \ ToSet(toClose)
      BY <2>1, <2>3, InUse DEF FlowInv
    <3>2. Flows' /\ (NothingQueued => NothingQueued')
      BY <1>1, <2>1, <3>1, FlowsKept
    <3>3. ToSet(toClose) = {}
      BY <2>1 DEF ToSet
    <3>4. NothingQueued
      BY <2>1, <3>1, <3>3 DEF Drained, NothingQueued
    <3>5. TakenType'
      BY <2>1 DEF flowVars, FlowInv, TakenType
    <3>6. ToSet(list)' = Names
      BY <2>1, <3>1 DEF Grown
    <3> QED
      BY <2>1, <2>3, <3>2, <3>4, <3>5, <3>6 DEF FlowInv
  <2> QED
    BY <2>2, <2>3
<1>13. CASE UNCHANGED graphVars
  <2>1. /\ phase' = phase /\ failed' = failed /\ list' = list /\ toClose' = toClose
        /\ flowVars' = flowVars
    BY <1>13 DEF graphVars, buildVars
  <2>2. CASE phase \in {"concrete", "composite"}
    BY <1>3, <2>1, <2>2
  <2>3. CASE failed
    BY <1>6, <1>7, <2>1, <2>3
  <2>4. CASE phase \in {"ready", "closing", "closed"} /\ ~failed
    <3>1. Grown /\ Flows
      BY <2>4, InUse DEF FlowInv
    <3>2. Flows' /\ (NothingQueued => NothingQueued') /\ \A n : IsAsync(n)' = IsAsync(n)
      BY <1>1, <2>1, <3>1, FlowsKept
    <3>3. AsyncFirst => AsyncFirst'
      <4>1. ToSet(toClose)' = ToSet(toClose)
        BY <2>1
      <4>2. NothingQueued' = NothingQueued
        BY <2>1 DEF NothingQueued, flowVars
      <4> QED
        BY <2>1, <3>2, <4>1, <4>2 DEF AsyncFirst
    <3>4. TakenType'
      BY <2>1 DEF flowVars, FlowInv, TakenType
    <3>5. ToSet(list)' = Names
      BY <2>1, <3>1 DEF Grown
    <3> QED
      BY <2>1, <2>4, <3>2, <3>3, <3>4, <3>5 DEF FlowInv
  <2> QED
    BY <2>2, <2>3, <2>4 DEF FlowInv
<1> QED
  BY <1>5, <1>8, <1>9, <1>10, <1>11, <1>12, <1>13 DEF GraphNext

LEMMA FlowHolds == FlowInv /\ ConfigCloseInv /\ source = "config" => AcceptedIsWritten
<1> SUFFICES ASSUME FlowInv, ConfigCloseInv, source = "config", phase = "closed", ~failed,
                    NEW e \in Events, NEW s \in Names
             PROVE  /\ taken[e].answer = "ok" /\ ~AsyncFeedsAsync =>
                          written[<<s, e>>] = Expected[taken[e].by][KeyOf[e]][s]
                    /\ taken[e].answer # "ok" => written[<<s, e>>] = 0
  BY DEF AcceptedIsWritten
<1>1. Grown /\ FlowTypes /\ AnsweredInv /\ (~AsyncFeedsAsync => CarriedInv) /\ NothingQueued
  BY InUse DEF FlowInv, Flows
<1>2. ~Carried(e)
  BY <1>1 DEF Carried, NothingQueued
<1>3. ASSUME taken[e].answer = "ok", ~AsyncFeedsAsync
      PROVE  written[<<s, e>>] = Expected[taken[e].by][KeyOf[e]][s]
  <2>1. taken[e].by \in Names /\ KeyOf[e] \in Keys
    BY <1>1, <1>3, GraphAssumption DEF AnsweredInv
  <2>2. Expected[taken[e].by][KeyOf[e]][s] = Copies(LandedAt(e), s)
    BY <1>1, <1>3, <2>1, ExpectedCopies DEF LandedAt
  <2> QED
    BY <1>1, <1>2, <1>3, <2>2 DEF CarriedInv
<1> QED
  BY <1>1, <1>3 DEF AnsweredInv

(* What an appender accepts is written, to the sinks its filters, routes,  *)
(* rewrites and failovers choose, once for each path, whatever worker      *)
(* carries it and whenever Close comes (appendSync of asyncappender, close *)
(* of router/lifecycle.go: async appenders before what they write to).     *)
THEOREM AcceptedIsWrittenHolds == GraphSpec => []AcceptedIsWritten
<1> DEFINE Inv == source = "config" => ConfigCloseInv /\ FlowInv
<1>1. GraphInit => Inv
  <2> SUFFICES ASSUME GraphInit, source = "config" PROVE ConfigCloseInv /\ FlowInv
    OBVIOUS
  <2>1. NothingYet /\ InitConfig
    BY DEF GraphInit, InitCode
  <2>2. ConfigCloseInv
    <3>1. closes = [n \in Names |-> 0] /\ failed = FALSE
      BY <2>1 DEF NothingYet
    <3>2. source = "config" /\ spec \in Graphs /\ phase = "concrete"
      BY <2>1 DEF InitConfig
    <3> QED
      BY <3>1, <3>2, BuildInit DEF ConfigCloseInv
  <2>3. TakenType /\ Silent
    BY <2>1 DEF NothingYet, TakenType, Silent
  <2>4. phase = "concrete"
    BY <2>1 DEF InitConfig
  <2> QED
    BY <2>2, <2>3, <2>4 DEF FlowInv
<1>2. Inv /\ [GraphNext]_graphVars => Inv'
  <2> SUFFICES ASSUME Inv, [GraphNext]_graphVars, source' = "config" PROVE ConfigCloseInv' /\ FlowInv'
    OBVIOUS
  <2>1. source' = source
    BY DEF GraphNext, graphVars, inputVars, BuildStep, BuildConcrete, DeferComposite,
           FailConcrete, BuildComposite, WaitForRefs, FailComposite, NextPass, FailUnresolved,
           FinishOptions, Log, HandOn, StartClose, CloseNext, EndClose
  <2> QED
    BY <2>1, ConfigStepKeeps, FlowStepKeeps
<1>3. Inv => AcceptedIsWritten
  <2>1. source # "config" => AcceptedIsWritten
    BY DEF AcceptedIsWritten
  <2> QED
    BY <2>1, FlowHolds
<1> QED
  BY <1>1, <1>2, <1>3, PTL DEF GraphSpec

=============================================================================
