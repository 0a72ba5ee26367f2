---------------------------- MODULE PartsProofs ----------------------------
(***************************************************************************)
(* Theorems about the reload of a configuration, and about four parts that *)
(* MCParts checks: the load of a configuration file, the filters, and the  *)
(* schedules and delete actions.  Those about the graph of appenders are   *)
(* in AppenderGraphProofs, those about sinks in SinkProofs.                *)
(***************************************************************************)
EXTENDS ConfigReload, ConfigLoad, FilterChain, RollingHelpers,
        CountingLemmas, SequenceTheorems, FiniteSetTheorems

-----------------------------------------------------------------------------
(* ConfigReload: which runtimes are open, and who answers for them.        *)

(* Who still answers for a runtime that is open: the router, a reload that *)
(* is about to install it, or one that is about to close it.               *)
Accounted ==
    \A r \in open : \/ r = active /\ ~down
                    \/ \E t \in Threads : at[t] = "swap" /\ mine[t] = r
                    \/ \E t \in Threads : at[t] = "retire" /\ old[t] = r

(* What a reload is about to install is open and nobody else's.            *)
Installing ==
    \A t \in Threads : at[t] = "swap" =>
        /\ mine[t] \in open
        /\ mine[t] # active
        /\ \A u \in Threads : /\ at[u] = "retire" => mine[t] \notin {old[u], mine[u]}
                              /\ at[u] = "swap" /\ u # t => mine[t] # mine[u]

(* What a reload is about to close is no longer used.                      *)
Retiring == \A t \in Threads : at[t] = "retire" => old[t] # active

(* A cancelled monitor has stopped, unless the Close that cancelled it     *)
(* still waits; the router is closed when a Close has returned.            *)
Closing ==
    /\ \A c \in Closers : closer[c] # "idle" => cancelled
    /\ \A c \in Closers : closer[c] = "returned" => down
    /\ cancelled => at[Watcher] = "stopped" \/ \E c \in Closers : closer[c] = "wait"

ReloadInvariant ==
    TypeOK /\ ActiveIsOpen /\ Accounted /\ Installing /\ Retiring /\ Closing

-----------------------------------------------------------------------------
LEMMA TypeInit == Init => TypeOK
<1> SUFFICES ASSUME Init PROVE TypeOK
    OBVIOUS
<1>1. loaded \in Seq(1..MaxVersion) /\ Len(loaded) = 1
    BY ReloadAssumption DEF Init
<1>2. /\ file \in 1..MaxVersion /\ last \in 0..MaxVersion
      /\ calls \in 0..MaxCalls /\ failures \in 0..MaxFailures
    BY ReloadAssumption DEF Init, None
<1>6. down \in BOOLEAN /\ cancelled \in BOOLEAN
    BY DEF Init
<1>3. /\ Len(loaded) \in Runtimes /\ open \subseteq 1..Len(loaded)
      /\ active \in 1..Len(loaded)
    BY <1>1, ReloadAssumption DEF Init, Runtimes
<1>4. mine \in [Threads -> 0..Len(loaded)] /\ old \in [Threads -> 0..Len(loaded)]
    BY <1>1 DEF Init, None
<1>5. /\ at \in [Threads -> Stages]
      /\ closer \in [Closers -> {"idle", "wait", "handler", "returned"}]
    BY DEF Init, Stages
<1> QED
    BY <1>1, <1>2, <1>3, <1>4, <1>5, <1>6 DEF TypeOK

(* A runtime that a reload installs is one that was built.                 *)
LEMMA TypeStep == TypeOK /\ Installing /\ [Next]_vars => TypeOK'
<1> SUFFICES ASSUME TypeOK, Installing, [Next]_vars PROVE TypeOK'
    OBVIOUS
<1> USE ReloadAssumption DEF Goto, CloserGoto
<1>1. CASE Edit
    BY <1>1 DEF Edit, runtimeVars, threadVars, bounds, TypeOK
<1>2. CASE StartMonitor
  <2>1. last' \in 0..MaxVersion
    BY <1>2 DEF StartMonitor, TypeOK
  <2> QED
    BY <1>2, <2>1 DEF StartMonitor, fileVars, runtimeVars, bounds, TypeOK, Stages
<1>3. CASE Poll
    BY <1>3 DEF Poll, fileVars, runtimeVars, bounds, TypeOK, Stages
<1>4. CASE StopMonitor
    BY <1>4 DEF StopMonitor, fileVars, runtimeVars, bounds, TypeOK, Stages
<1>5. CASE Sign
  <2>1. last' \in 0..MaxVersion
    BY <1>5 DEF Sign, TypeOK
  <2> QED
    BY <1>5, <2>1 DEF Sign, fileVars, runtimeVars, bounds, TypeOK, Stages
<1>6. CASE CallReload
  <2>1. calls' \in 0..MaxCalls
    BY <1>6 DEF CallReload, TypeOK
  <2> QED
    BY <1>6, <2>1 DEF CallReload, fileVars, runtimeVars, TypeOK, Stages
<1>7. ASSUME NEW t \in Threads, Load(t) PROVE TypeOK'
  <2>1. /\ loaded' \in Seq(1..MaxVersion) /\ Len(loaded') = Len(loaded) + 1
        /\ Len(loaded') \in Runtimes
    BY <1>7 DEF Load, TypeOK, Runtimes
  <2>2. Len(loaded) \in Nat
    BY DEF TypeOK
  <2>3. active' \in 1..Len(loaded')
    BY <1>7, <2>1, <2>2 DEF Load, TypeOK
  <2>6. open' \subseteq 1..Len(loaded')
    <3> SUFFICES ASSUME NEW r \in open' PROVE r \in 1..Len(loaded')
      OBVIOUS
    <3>1. r \in 1..Len(loaded) \/ r = Len(loaded')
      BY <1>7 DEF Load, TypeOK
    <3> QED
      BY <2>1, <2>2, <3>1
  <2>4. mine' \in [Threads -> 0..Len(loaded')] /\ old' \in [Threads -> 0..Len(loaded')]
    BY <1>7, <2>1, <2>2 DEF Load, TypeOK
  <2>5. at' \in [Threads -> Stages]
    BY <1>7 DEF Load, TypeOK, Stages
  <2> QED
    BY <1>7, <2>1, <2>3, <2>4, <2>5, <2>6 DEF Load, fileVars, bounds, TypeOK
<1>8. ASSUME NEW t \in Threads, LoadFails(t) PROVE TypeOK'
  <2>1. failures' \in 0..MaxFailures
    BY <1>8 DEF LoadFails, TypeOK
  <2>2. at' \in [Threads -> Stages]
    BY <1>8 DEF LoadFails, TypeOK, Stages
  <2> QED
    BY <1>8, <2>1, <2>2 DEF LoadFails, fileVars, runtimeVars, TypeOK
<1>9. ASSUME NEW t \in Threads, SwapRefused(t) PROVE TypeOK'
    BY <1>9 DEF SwapRefused, fileVars, TypeOK, Stages
<1>10. ASSUME NEW t \in Threads, Swap(t) PROVE TypeOK'
  <2>1. active' \in 1..Len(loaded)
    BY <1>10 DEF Swap, Installing, TypeOK
  <2>2. old' \in [Threads -> 0..Len(loaded)] /\ at' \in [Threads -> Stages]
    BY <1>10 DEF Swap, TypeOK, Stages
  <2> QED
    BY <1>10, <2>1, <2>2 DEF Swap, fileVars, bounds, TypeOK
<1>11. ASSUME NEW t \in Threads, Retire(t) PROVE TypeOK'
    BY <1>11 DEF Retire, fileVars, bounds, TypeOK, Stages
<1>12. ASSUME NEW t \in Threads, RetireFails(t) PROVE TypeOK'
  <2>1. failures' \in 0..MaxFailures
    BY <1>12 DEF RetireFails, TypeOK
  <2> QED
    BY <1>12, <2>1 DEF RetireFails, fileVars, TypeOK, Stages
<1>13. ASSUME NEW c \in Closers, CloseBegin(c) \/ CloseRuns(c) PROVE TypeOK'
    BY <1>13 DEF CloseBegin, CloseRuns, CloseWaited, CloseHandler, fileVars, runtimeVars,
                 threadVars, bounds, TypeOK
<1>14. CASE UNCHANGED vars
    BY <1>14 DEF vars, fileVars, runtimeVars, threadVars, bounds, TypeOK
<1> QED
    BY <1>1, <1>2, <1>3, <1>4, <1>5, <1>6, <1>7, <1>8, <1>9, <1>10, <1>11, <1>12, <1>13,
       <1>14 DEF Next, WatcherRuns, ReloadRuns, Quiescent, Threads

-----------------------------------------------------------------------------
(* A runtime that is built has a number no thread has seen.                *)
LEMMA LoadStep ==
    ASSUME ReloadInvariant, NEW t \in Threads, Load(t)
    PROVE  (ActiveIsOpen /\ Accounted /\ Installing /\ Retiring /\ Closing)'
<1> DEFINE fresh == Len(loaded) + 1
<1>1. /\ fresh \in Nat /\ fresh \notin open /\ fresh # active
      /\ \A u \in Threads : fresh \notin {mine[u], old[u]}
    BY DEF ReloadInvariant, TypeOK
<1>2. /\ open' = open \cup {fresh} /\ mine' = [mine EXCEPT ![t] = fresh]
      /\ at' = [at EXCEPT ![t] = "swap"] /\ at[t] = "load"
      /\ UNCHANGED <<active, down, cancelled, old, closer, rejected>>
    BY DEF Load, Goto, ReloadInvariant, TypeOK, bounds
<1>3. /\ mine'[t] = fresh /\ at'[t] = "swap"
      /\ \A u \in Threads \ {t} : mine'[u] = mine[u] /\ at'[u] = at[u]
    BY <1>2 DEF ReloadInvariant, TypeOK
<1> HIDE DEF fresh
<1>4. ActiveIsOpen'
    BY <1>2 DEF ReloadInvariant, ActiveIsOpen
<1>5. Accounted'
  <2> SUFFICES ASSUME NEW r \in open'
               PROVE  \/ r = active' /\ ~down'
                      \/ \E u \in Threads : at'[u] = "swap" /\ mine'[u] = r
                      \/ \E u \in Threads : at'[u] = "retire" /\ old'[u] = r
    BY DEF Accounted
  <2>1. CASE r = fresh
    BY <2>1, <1>3
  <2>2. CASE r # fresh
    <3>1. \/ r = active /\ ~down
          \/ \E u \in Threads : at[u] = "swap" /\ mine[u] = r
          \/ \E u \in Threads : at[u] = "retire" /\ old[u] = r
      BY <2>2, <1>2 DEF ReloadInvariant, Accounted
    <3> QED
      BY <3>1, <1>2, <1>3
  <2> QED
    BY <2>1, <2>2
<1>6. Installing'
    BY <1>1, <1>2, <1>3 DEF ReloadInvariant, Installing
<1>7. Retiring'
    BY <1>2, <1>3 DEF ReloadInvariant, Retiring
<1>8. Closing'
    BY <1>2, <1>3 DEF ReloadInvariant, Closing, Threads, Watcher
<1> QED
    BY <1>4, <1>5, <1>6, <1>7, <1>8

(* Only a router that is open swaps; the runtime it used before is closed  *)
(* next, and nobody is about to install it.                                *)
LEMMA SwapStep ==
    ASSUME ReloadInvariant, NEW t \in Threads, Swap(t)
    PROVE  (ActiveIsOpen /\ Accounted /\ Installing /\ Retiring /\ Closing)'
<1>1. /\ old' = [old EXCEPT ![t] = active] /\ active' = mine[t]
      /\ at' = [at EXCEPT ![t] = "retire"] /\ at[t] = "swap" /\ ~down
      /\ UNCHANGED <<open, down, cancelled, mine, closer, rejected>>
    BY DEF Swap, Goto, bounds
<1>2. /\ old'[t] = active /\ at'[t] = "retire"
      /\ \A u \in Threads \ {t} : old'[u] = old[u] /\ at'[u] = at[u]
    BY <1>1 DEF ReloadInvariant, TypeOK
<1>3. /\ mine[t] \in open /\ mine[t] # active
      /\ \A u \in Threads : /\ at[u] = "retire" => mine[t] \notin {old[u], mine[u]}
                            /\ at[u] = "swap" /\ u # t => mine[t] # mine[u]
    BY <1>1 DEF ReloadInvariant, Installing
<1>4. ActiveIsOpen'
    BY <1>1, <1>3 DEF ActiveIsOpen
<1>5. Accounted'
    BY <1>1, <1>2 DEF ReloadInvariant, Accounted
<1>6. Installing'
    BY <1>1, <1>2, <1>3 DEF ReloadInvariant, Installing
<1>7. Retiring'
  <2> SUFFICES ASSUME NEW u \in Threads, at'[u] = "retire" PROVE old'[u] # active'
    BY DEF Retiring
  <2>1. CASE u = t
    BY <1>1, <1>2, <1>3, <2>1
  <2>2. CASE u # t
    <3>1. at[u] = "retire" /\ old'[u] = old[u]
      BY <1>2, <2>2
    <3>2. mine[t] \notin {old[u], mine[u]}
      BY <1>1, <3>1 DEF ReloadInvariant, Installing
    <3> QED
      BY <1>1, <3>1, <3>2
  <2> QED
    BY <2>1, <2>2
<1>8. Closing'
    BY <1>1, <1>2 DEF ReloadInvariant, Closing, Threads, Watcher
<1> QED
    BY <1>4, <1>5, <1>6, <1>7, <1>8

(* What is closed at the end of a reload is the old runtime, which nobody  *)
(* uses, and after an error also the one this reload installed.            *)
LEMMA RetireStep ==
    ASSUME ReloadInvariant, NEW t \in Threads, Retire(t) \/ RetireFails(t)
    PROVE  (ActiveIsOpen /\ Accounted /\ Installing /\ Retiring /\ Closing)'
<1>1. /\ at[t] = "retire" /\ at'[t] \in {"sign", "idle"}
      /\ \A u \in Threads \ {t} : at'[u] = at[u]
      /\ UNCHANGED <<active, down, cancelled, old, mine, closer>>
    BY DEF Retire, RetireFails, Goto, bounds, ReloadInvariant, TypeOK
<1>2. \/ open' = open \ {old[t]} /\ rejected' = rejected
      \/ open' = open \ {old[t], mine[t]} /\ rejected' = rejected \cup {mine[t]}
    BY DEF Retire, RetireFails, bounds
<1>3. old[t] # active
    BY <1>1 DEF ReloadInvariant, Retiring
<1>4. ActiveIsOpen'
    BY <1>1, <1>2, <1>3 DEF ReloadInvariant, ActiveIsOpen
<1>5. Accounted'
    BY <1>1, <1>2 DEF ReloadInvariant, Accounted
<1>6. Installing'
    BY <1>1, <1>2 DEF ReloadInvariant, Installing
<1>7. Retiring'
    BY <1>1 DEF ReloadInvariant, Retiring
<1>8. Closing'
    BY <1>1 DEF ReloadInvariant, Closing, Threads, Watcher
<1> QED
    BY <1>4, <1>5, <1>6, <1>7, <1>8

LEMMA SwapRefusedStep ==
    ASSUME ReloadInvariant, NEW t \in Threads, SwapRefused(t)
    PROVE  (ActiveIsOpen /\ Accounted /\ Installing /\ Retiring /\ Closing)'
<1>1. /\ at[t] = "swap" /\ at'[t] = "idle" /\ down /\ open' = open \ {mine[t]}
      /\ \A u \in Threads \ {t} : at'[u] = at[u]
      /\ UNCHANGED <<active, down, cancelled, old, mine, closer>>
    BY DEF SwapRefused, Goto, ReloadInvariant, TypeOK
<1>2. ActiveIsOpen'
    BY <1>1 DEF ActiveIsOpen
<1>3. Accounted'
    BY <1>1 DEF ReloadInvariant, Accounted
<1>4. Installing'
    BY <1>1 DEF ReloadInvariant, Installing
<1>5. Retiring'
    BY <1>1 DEF ReloadInvariant, Retiring
<1>6. Closing'
    BY <1>1 DEF ReloadInvariant, Closing, Threads, Watcher
<1> QED
    BY <1>2, <1>3, <1>4, <1>5, <1>6

(* The steps of a Close: the monitor has stopped before the one that       *)
(* cancelled it goes on to the handler.                                    *)
LEMMA CloseStep ==
    ASSUME ReloadInvariant, NEW c \in Closers, CloseBegin(c) \/ CloseRuns(c)
    PROVE  (ActiveIsOpen /\ Accounted /\ Installing /\ Retiring /\ Closing)'
<1>1. /\ UNCHANGED <<active, at, mine, old, rejected>>
      /\ \A d \in Closers \ {c} : closer'[d] = closer[d]
      /\ cancelled => cancelled' /\ (down => down')
    BY DEF CloseBegin, CloseRuns, CloseWaited, CloseHandler, CloserGoto, threadVars, bounds,
           runtimeVars, ReloadInvariant, TypeOK
<1>2. \/ UNCHANGED <<open, down>>
      \/ down' /\ open' = (IF down THEN open ELSE open \ {active})
    BY DEF CloseBegin, CloseRuns, CloseWaited, CloseHandler, runtimeVars
<1>3. ActiveIsOpen'
    BY <1>1, <1>2 DEF ReloadInvariant, ActiveIsOpen
<1>4. Accounted'
    BY <1>1, <1>2 DEF ReloadInvariant, Accounted
<1>5. Installing'
    BY <1>1, <1>2 DEF ReloadInvariant, Installing
<1>6. Retiring'
    BY <1>1 DEF ReloadInvariant, Retiring
<1>7. Closing'
  <2>1. CASE CloseBegin(c)
    BY <2>1 DEF CloseBegin, CloserGoto, threadVars, runtimeVars, ReloadInvariant, Closing, TypeOK
  <2>2. CASE CloseWaited(c)
    BY <2>2 DEF CloseWaited, CloserGoto, threadVars, runtimeVars, ReloadInvariant, Closing, TypeOK
  <2>3. CASE CloseHandler(c)
    BY <2>3 DEF CloseHandler, CloserGoto, threadVars, ReloadInvariant, Closing, TypeOK
  <2> QED
    BY <2>1, <2>2, <2>3 DEF CloseRuns
<1> QED
    BY <1>3, <1>4, <1>5, <1>6, <1>7

LEMMA InvInit == Init => ReloadInvariant
<1> SUFFICES ASSUME Init PROVE ReloadInvariant
    OBVIOUS
<1>1. ActiveIsOpen /\ Accounted
    BY DEF Init, ActiveIsOpen, Accounted
<1>2. Installing /\ Retiring /\ Closing
    BY DEF Init, Installing, Retiring, Closing
<1> QED
    BY <1>1, <1>2, TypeInit DEF ReloadInvariant

LEMMA InvStep == ReloadInvariant /\ [Next]_vars => ReloadInvariant'
<1> SUFFICES ASSUME ReloadInvariant, [Next]_vars PROVE ReloadInvariant'
    OBVIOUS
<1>1. TypeOK'
    BY TypeStep DEF ReloadInvariant
<1>2. ASSUME NEW t \in Threads, ReloadRuns(t)
      PROVE  (ActiveIsOpen /\ Accounted /\ Installing /\ Retiring /\ Closing)'
  <2>1. CASE LoadFails(t)
    <3>1. /\ at[t] = "load" /\ at'[t] = "idle"
          /\ \A u \in Threads \ {t} : at'[u] = at[u]
          /\ UNCHANGED <<open, active, down, cancelled, old, mine, closer, rejected>>
      BY <2>1 DEF LoadFails, Goto, runtimeVars, ReloadInvariant, TypeOK
    <3>2. ActiveIsOpen' /\ Accounted'
      BY <3>1 DEF ReloadInvariant, ActiveIsOpen, Accounted
    <3>3. Installing' /\ Retiring'
      BY <3>1 DEF ReloadInvariant, Installing, Retiring
    <3>4. Closing'
      BY <3>1 DEF ReloadInvariant, Closing, Threads, Watcher
    <3> QED
      BY <3>2, <3>3, <3>4
  <2> QED
    BY <1>2, <2>1, LoadStep, SwapStep, SwapRefusedStep, RetireStep DEF ReloadRuns
<1>3. ASSUME StartMonitor \/ Poll \/ StopMonitor \/ Sign \/ CallReload
      PROVE  (ActiveIsOpen /\ Accounted /\ Installing /\ Retiring /\ Closing)'
  <2>1. PICK t \in Threads, where \in {"idle", "load", "stopped"} :
           /\ at' = [at EXCEPT ![t] = where]
           /\ at[t] \in {"start", "idle", "sign"}
           /\ where = "stopped" => t = Watcher
    BY <1>3 DEF StartMonitor, Poll, StopMonitor, Sign, CallReload, Goto, Threads, Watcher, User
  <2>2. UNCHANGED <<open, active, down, cancelled, old, mine, closer, rejected>>
    BY <1>3 DEF StartMonitor, Poll, StopMonitor, Sign, CallReload, runtimeVars, bounds
  <2>3. /\ at'[t] \in {"idle", "load", "stopped"}
        /\ \A u \in Threads \ {t} : at'[u] = at[u]
    BY <2>1 DEF ReloadInvariant, TypeOK
  <2>4. ActiveIsOpen'
    BY <2>2 DEF ReloadInvariant, ActiveIsOpen
  <2>5. Accounted'
    BY <2>1, <2>2, <2>3 DEF ReloadInvariant, Accounted
  <2>6. Installing' /\ Retiring'
    BY <2>1, <2>2, <2>3 DEF ReloadInvariant, Installing, Retiring
  <2>7. at[Watcher] = "stopped" => at'[Watcher] = "stopped"
    BY <2>1, <2>3 DEF Threads
  <2>8. Closing'
    BY <2>2, <2>7 DEF ReloadInvariant, Closing
  <2> QED
    BY <2>4, <2>5, <2>6, <2>8
<1>4. ASSUME NEW c \in Closers, CloseBegin(c) \/ CloseRuns(c)
      PROVE  (ActiveIsOpen /\ Accounted /\ Installing /\ Retiring /\ Closing)'
    BY <1>4, CloseStep
<1>5. ASSUME Edit \/ UNCHANGED vars
      PROVE  (ActiveIsOpen /\ Accounted /\ Installing /\ Retiring /\ Closing)'
  <2>1. UNCHANGED <<open, active, down, cancelled, at, old, mine, closer, rejected>>
    BY <1>5 DEF Edit, vars, runtimeVars, threadVars, bounds
  <2>2. ActiveIsOpen' /\ Accounted'
    BY <2>1 DEF ReloadInvariant, ActiveIsOpen, Accounted
  <2>3. Installing' /\ Retiring'
    BY <2>1 DEF ReloadInvariant, Installing, Retiring
  <2>4. Closing'
    BY <2>1 DEF ReloadInvariant, Closing
  <2> QED
    BY <2>2, <2>3, <2>4
<1>6. (ActiveIsOpen /\ Accounted /\ Installing /\ Retiring /\ Closing)'
    BY <1>2, <1>3, <1>4, <1>5 DEF Next, WatcherRuns, Quiescent, Threads
<1> QED
    BY <1>1, <1>6 DEF ReloadInvariant

(* The inductive invariant: every open runtime is in use, about to be      *)
(* installed by one reload, or about to be closed by one.                  *)
THEOREM ReloadInvariantHolds == Spec => []ReloadInvariant
    BY InvInit, InvStep, PTL DEF Spec

(* The runtime in use is open (handler_runtime.go Reload, config_reloader  *)
(* .go ReloadIfChanged), whatever reloads, failures and Closes overlap.    *)
THEOREM ActiveStaysOpen == Spec => []ActiveIsOpen
<1>1. ReloadInvariant => ActiveIsOpen
    BY DEF ReloadInvariant
<1> QED
    BY <1>1, ReloadInvariantHolds, PTL

(* No reload leaves a runtime open that nobody will close.                 *)
THEOREM NoRuntimeLeaks == Spec => []NothingLeaks
<1>1. ReloadInvariant => NothingLeaks
    BY DEF ReloadInvariant, Accounted, NothingLeaks, Reloading
<1> QED
    BY <1>1, ReloadInvariantHolds, PTL

(* When every Close has returned the monitor has stopped, and with no      *)
(* reload of a caller on its way nothing is open.                          *)
THEOREM CloseIsFinal == Spec => []ClosedForGood
<1>1. ReloadInvariant => ClosedForGood
    BY DEF ReloadInvariant, Accounted, Closing, ClosedForGood, Threads, Watcher, User
<1> QED
    BY <1>1, ReloadInvariantHolds, PTL

-----------------------------------------------------------------------------
(* ConfigLoad: only RegisterLevel writes the registry.                     *)

(* A level name never changes its number: Register refuses a name that is  *)
(* there with another one, and no other step of a load, failing or not,    *)
(* writes the registry (levels registry of internal/configfile).           *)
THEOREM LevelsAreKeptHolds == LoadSpec => LevelsAreKept
<1> DEFINE Still == \A n \in DOMAIN registry : n \in DOMAIN registry' /\ registry'[n] = registry[n]
<1>1. ASSUME [LoadNext]_loadVars PROVE Still
  <2>1. ASSUME NEW n \in todo, RegisterLevel(n) PROVE Still
    <3>1. CASE registry' = registry
      BY <3>1
    <3>2. CASE registry' # registry
      BY <2>1, <3>2 DEF RegisterLevel, Conflicts, Fail, Set
    <3> QED
      BY <3>1, <3>2
  <2>2. CASE \E n \in todo : RegisterLevel(n)
    BY <2>1, <2>2
  <2>3. ASSUME registry' = registry PROVE Still
    BY <2>3
  <2> QED
    BY <1>1, <2>2, <2>3
    DEF LoadNext, loadVars, Open, DecodeStructured, DecodeXML, Decoded, ApplyPairs, Finalize,
        ResolveLookups, ApplyProperty, ValidateAsync, NestedFilter, MakeFilter, Finish,
        NextFilter, Fail
<1> QED
  BY <1>1, PTL DEF LoadSpec, LevelsAreKept

-----------------------------------------------------------------------------
(* RollingHelpers: the next rollover by time.                              *)

(* The multiple of i after t, which NextInterval returns, is the first.    *)
LEMMA NextMultiple ==
    ASSUME NEW i \in Nat \ {0}, NEW t \in Int
    PROVE  /\ (t \div i + 1) * i \in Int
           /\ t < (t \div i + 1) * i
           /\ \A b \in Int : t < b /\ b < (t \div i + 1) * i => b % i # 0
<1> DEFINE q == t \div i
<1>1. q \in Int /\ t = i * q + (t % i) /\ t % i \in 0..(i - 1)
  OBVIOUS
<1>2. (q + 1) * i = i * q + i /\ i * q \in Int
  BY <1>1
<1>3. ASSUME NEW b \in Int, t < b, b < i * q + i PROVE b % i # 0
  <2> DEFINE k == b \div i
  <2>1. k \in Int /\ b = i * k + (b % i)
    OBVIOUS
  <2>2. SUFFICES ASSUME b = i * k PROVE FALSE
    BY <2>1
  <2>3. i * q < i * k /\ i * k < i * (q + 1)
    BY <1>1, <1>2, <1>3, <2>1, <2>2
  <2>4. CASE k <= q
    <3>1. i * k <= i * q
      BY <1>1, <2>1, <2>4
    <3> QED
      BY <2>3, <3>1, <1>1, <2>1
  <2>5. CASE k >= q + 1
    <3>1. i * k >= i * (q + 1)
      BY <1>1, <2>1, <2>5
    <3> QED
      BY <2>3, <3>1, <1>1, <2>1
  <2> QED
    BY <1>1, <2>1, <2>4, <2>5
<1>4. t < i * q + i
  BY <1>1, <1>2
<1> HIDE DEF q
<1>5. /\ (q + 1) * i \in Int /\ t < (q + 1) * i
      /\ \A b \in Int : t < b /\ b < (q + 1) * i => b % i # 0
  BY <1>2, <1>3, <1>4
<1> QED
  BY <1>5 DEF q

(* NextCron is the first match after the second now is in, if there is one *)
(* within the horizon.                                                     *)
LEMMA NextCronIsFirst ==
    ASSUME NEW cron, NEW from \in Nat, NEW s \in Nat,
           from \div 2 < s, s <= from \div 2 + Horizon, Fires(cron, s)
    PROVE  NextCron(cron, from) \in Nat /\ NextCron(cron, from) <= 2 * s
<1> DEFINE found == {x \in (from \div 2 + 1)..(from \div 2 + Horizon) : Fires(cron, x)}
<1>1. found \in SUBSET Nat /\ s \in found
  BY HelpersAssumption
<1>3. Min(found) \in found /\ \A x \in found : Min(found) <= x
  <2> HIDE DEF found
  <2> QED
    BY <1>1, MinIsLeast
<1> HIDE DEF found
<1>4. Min(found) \in Nat /\ Min(found) <= s
  BY <1>1, <1>3
<1>5. NextCron(cron, from) = 2 * Min(found)
  BY <1>1 DEF NextCron, found
<1> QED
  BY <1>4, <1>5

(* The file was opened for the rollovers that come next, and none of them  *)
(* is due at the time of the last event.                                   *)
IdlePolicy == [interval |-> 0, modulate |-> FALSE, zone |-> 0,
               cron |-> [seconds |-> {}, weekdays |-> {}]]

ScheduleInv ==
    /\ policy \in Policies \cup {IdlePolicy}
    /\ opened \in Instants /\ lastEvent \in Instants
    /\ nextRollover = NextInterval(policy, opened)
    /\ nextCron = IF policy.cron.seconds = {} THEN Never ELSE NextCron(policy.cron, opened)
    /\ opened < lastEvent => ~Due(lastEvent)

LEMMA ScheduleStep ==
    ASSUME ScheduleInv, [HelperNext]_helperVars
    PROVE  ScheduleInv'
<1>1. ASSUME NEW instant \in Instants, NEW full \in BOOLEAN, Arrive(instant, full) PROVE ScheduleInv'
  <2>1. CASE Due(instant) \/ full
    BY <1>1, <2>1, HelpersAssumption DEF Arrive, OpenAt, ScheduleInv, Instants
  <2>2. CASE ~(Due(instant) \/ full)
    BY <1>1, <2>2 DEF Arrive, ScheduleInv, Due
  <2> QED
    BY <2>1, <2>2
<1>2. ASSUME UNCHANGED scheduleVars PROVE ScheduleInv'
  BY <1>2 DEF scheduleVars, ScheduleInv, Due
<1> QED
  BY <1>1, <1>2 DEF HelperNext, Sweep, Touch, helperVars

(* No event is in a file that was opened before a boundary it is not       *)
(* before.  What is assumed of the constants: times end within the seconds *)
(* a cron search scans (five years, cron.go:10); later than that a cron    *)
(* expression that seldom matches has no next rollover.                    *)
THEOREM BoundaryRollsHolds ==
    ASSUME MaxTick \div 2 <= Horizon
    PROVE  HelperSpec => []BoundaryRolls
<1>1. HelperInit => ScheduleInv
  BY HelpersAssumption
  DEF HelperInit, ScheduleInit, ScheduleIdle, IdlePolicy, ScheduleInv, Instants, NextInterval
<1>2. ASSUME ScheduleInv PROVE BoundaryRolls
  <2> SUFFICES ASSUME NEW b \in (opened + 1)..lastEvent, Boundary(b) PROVE FALSE
    BY DEF BoundaryRolls
  <2> DEFINE i == policy.interval
  <2>0. /\ opened \in Nat /\ b \in Nat /\ lastEvent \in Nat /\ lastEvent <= MaxTick
        /\ opened < b /\ b <= lastEvent /\ ~Due(lastEvent)
        /\ i \in Nat /\ policy.modulate \in BOOLEAN /\ policy.zone \in Int
    <3>1. /\ opened \in Nat /\ b \in Nat /\ lastEvent \in Nat /\ lastEvent <= MaxTick
          /\ opened < b /\ b <= lastEvent
      BY <1>2, HelpersAssumption DEF ScheduleInv, Instants
    <3>2. ~Due(lastEvent)
      BY <1>2, <3>1 DEF ScheduleInv
    <3>3. i \in Nat /\ policy.modulate \in BOOLEAN /\ policy.zone \in Int
      <4>1. policy \in Policies \/ policy = IdlePolicy
        BY <1>2 DEF ScheduleInv
      <4>2. CASE policy \in Policies
        BY <4>2, HelpersAssumption
      <4>3. CASE policy = IdlePolicy
        BY <4>3 DEF IdlePolicy
      <4> QED
        BY <4>1, <4>2, <4>3
    <3> QED
      BY <3>1, <3>2, <3>3
  <2>1. CASE i > 0 /\ policy.modulate /\ i = 2 * DayLength /\ (b + policy.zone) % i = 0
    <3> DEFINE t == opened + policy.zone
               multiple == (t \div i + 1) * i
    <3>1. t \in Int /\ b + policy.zone \in Int /\ t < b + policy.zone /\ i \in Nat \ {0}
      BY <2>0, <2>1
    <3>2. multiple \in Int /\ t < multiple /\ ~(b + policy.zone < multiple)
      BY <2>1, <3>1, NextMultiple
    <3>3. nextRollover = multiple - policy.zone
      BY <1>2, <2>0, <2>1, HelpersAssumption DEF ScheduleInv, NextInterval
    <3> HIDE DEF multiple
    <3> QED
      BY <2>0, <3>2, <3>3 DEF Due, Never
  <2>2. CASE i > 0 /\ policy.modulate /\ i # 2 * DayLength /\ b % i = 0
    <3> DEFINE multiple == (opened \div i + 1) * i
    <3>1. opened \in Int /\ b \in Int /\ opened < b /\ i \in Nat \ {0}
      BY <2>0, <2>2
    <3>2. multiple \in Int /\ opened < multiple /\ ~(b < multiple)
      BY <2>2, <3>1, NextMultiple
    <3>3. nextRollover = multiple
      BY <1>2, <2>0, <2>2 DEF ScheduleInv, NextInterval
    <3> HIDE DEF multiple
    <3> QED
      BY <2>0, <3>2, <3>3 DEF Due, Never
  <2>3. CASE i > 0 /\ ~policy.modulate /\ b = opened + i
    BY <1>2, <2>0, <2>3 DEF ScheduleInv, NextInterval, Due, Never
  <2>4. CASE policy.cron.seconds # {} /\ b % 2 = 0 /\ Fires(policy.cron, b \div 2)
    <3>1. b \div 2 \in Nat /\ opened \div 2 < b \div 2 /\ b = 2 * (b \div 2)
      BY <2>0, <2>4
    <3>2. b \div 2 <= opened \div 2 + Horizon
      BY <2>0, HelpersAssumption
    <3>3. nextCron \in Nat /\ nextCron <= b
      BY <1>2, <2>0, <2>4, <3>1, <3>2, NextCronIsFirst DEF ScheduleInv
    <3> QED
      BY <2>0, <3>3 DEF Due, Never
  <2> QED
    BY <2>0, <2>1, <2>2, <2>3, <2>4 DEF Boundary
<1> QED
  BY <1>1, <1>2, ScheduleStep, PTL DEF HelperSpec

-----------------------------------------------------------------------------
(* FilterChain: the token bucket.                                          *)

(* What a burst filter that has decided s still has: never more than any   *)
(* stretch of time up to now has left of its allowance, and as much as one *)
(* of them has.                                                            *)
Decisions == [at : Int, passed : BOOLEAN]
PassedIn(s, i, j) == {k \in i..(j - 1) : s[k].passed}
UsedIn(s, i, j) == Cardinality(PassedIn(s, i, j)) * Unit
Left(s, full, rate, updated, i) == full + rate * (updated - s[i].at) - UsedIn(s, i, Len(s) + 1)

Ledger(s, full, rate, tokens, updated) ==
    /\ s = <<>> => tokens = full
    /\ \A i \in DOMAIN s : tokens <= Left(s, full, rate, updated, i)
    /\ s # <<>> => \E i \in DOMAIN s : tokens = Left(s, full, rate, updated, i)

Exact(s, full, rate) ==
    \A j \in DOMAIN s :
        s[j].passed <=> \A i \in 1..j : UsedIn(s, i, j) + Unit <= full + rate * (s[j].at - s[i].at)

(* What is used up to a decision does not depend on it or on later ones,   *)
(* and one more decision that passes uses one token more.                  *)
LEMMA UsedFacts ==
    ASSUME NEW s \in Seq(Decisions), NEW d \in Decisions
    PROVE  /\ \A i \in Nat, j \in Nat : i >= 1 /\ j <= Len(s) + 1 =>
                UsedIn(Append(s, d), i, j) = UsedIn(s, i, j)
           /\ \A i \in Nat, j \in Nat : UsedIn(s, i, j) \in Int
           /\ \A i \in Nat : UsedIn(s, i, i) = 0
           /\ \A i \in 1..(Len(s) + 1) :
                UsedIn(Append(s, d), i, Len(s) + 2) =
                    UsedIn(s, i, Len(s) + 1) + (IF d.passed THEN Unit ELSE 0)
<1> DEFINE t == Append(s, d)
           L == Len(s)
<1>1. L \in Nat /\ \A k \in 1..L : t[k] = s[k]
  OBVIOUS
<1>2. t[L + 1] = d
  OBVIOUS
<1>3. ASSUME NEW i \in Nat, NEW j \in Nat PROVE IsFiniteSet(PassedIn(s, i, j))
  <2>1. IsFiniteSet(i..(j - 1))
    BY FS_Interval
  <2> QED
    BY <2>1, FS_Subset DEF PassedIn
<1>4. ASSUME NEW i \in Nat, NEW j \in Nat PROVE Cardinality(PassedIn(s, i, j)) \in Nat
  BY <1>3, FS_CardinalityType
<1>5. ASSUME NEW i \in Nat PROVE PassedIn(s, i, i) = {}
  BY DEF PassedIn
<1>6. ASSUME NEW i \in Nat, NEW j \in Nat, i >= 1, j <= L + 1
      PROVE  PassedIn(t, i, j) = PassedIn(s, i, j)
  BY <1>1, <1>6 DEF PassedIn
<1>7. ASSUME NEW i \in 1..(L + 1)
      PROVE  /\ d.passed => PassedIn(t, i, L + 2) = PassedIn(s, i, L + 1) \cup {L + 1}
             /\ ~d.passed => PassedIn(t, i, L + 2) = PassedIn(s, i, L + 1)
  BY <1>1, <1>2 DEF PassedIn
<1>8. ASSUME NEW i \in 1..(L + 1)
      PROVE  Cardinality(PassedIn(t, i, L + 2)) =
                 Cardinality(PassedIn(s, i, L + 1)) + (IF d.passed THEN 1 ELSE 0)
  <2>1. L + 1 \notin PassedIn(s, i, L + 1)
    BY <1>1 DEF PassedIn
  <2>0. i \in Nat /\ L + 1 \in Nat
    BY <1>1
  <2>2. IsFiniteSet(PassedIn(s, i, L + 1)) /\ Cardinality(PassedIn(s, i, L + 1)) \in Nat
    BY <2>0, <1>3, <1>4
  <2>3. CASE d.passed
    BY <1>7, <2>1, <2>2, <2>3, FS_AddElement
  <2>4. CASE ~d.passed
    BY <1>7, <2>2, <2>4
  <2> QED
    BY <2>3, <2>4
<1>9. \A i \in Nat, j \in Nat : UsedIn(s, i, j) \in Int
  <2>1. \A c \in Nat : c * Unit \in Int
    BY FilterAssumption
  <2> QED
    BY <1>4, <2>1, Zenon DEF UsedIn
<1>10. ASSUME NEW i \in Nat PROVE UsedIn(s, i, i) = 0
  <2>1. Cardinality(PassedIn(s, i, i)) = 0
    BY <1>5, FS_EmptySet
  <2> QED
    BY <2>1, FilterAssumption DEF UsedIn
<1>11. \A i \in Nat, j \in Nat : i >= 1 /\ j <= Len(s) + 1 =>
           UsedIn(Append(s, d), i, j) = UsedIn(s, i, j)
  BY <1>6 DEF UsedIn
<1>12. ASSUME NEW i \in 1..(L + 1)
       PROVE  UsedIn(t, i, L + 2) = UsedIn(s, i, L + 1) + (IF d.passed THEN Unit ELSE 0)
  <2> DEFINE c == Cardinality(PassedIn(s, i, L + 1))
  <2>1. c \in Nat /\ Unit \in Nat
    BY <1>1, <1>4, FilterAssumption
  <2>2. UsedIn(s, i, L + 1) = c * Unit
    BY DEF UsedIn
  <2>3. UsedIn(t, i, L + 2) = (c + (IF d.passed THEN 1 ELSE 0)) * Unit
    <3>2. UsedIn(t, i, L + 2) = Cardinality(PassedIn(t, i, L + 2)) * Unit
      BY DEF UsedIn
    <3> QED
      BY <1>8, <3>2
  <2> HIDE DEF c
  <2> QED
    BY <2>1, <2>2, <2>3
<1> QED
  BY <1>9, <1>10, <1>11, <1>12

LEMMA GainInParts ==
    ASSUME NEW r \in Int, NEW x \in Int, NEW y \in Int, NEW z \in Int
    PROVE  /\ r * (x - z) = r * (y - z) + (x - y) * r
           /\ r * (x - z) \in Int /\ r * (y - z) \in Int /\ (x - y) * r \in Int
OBVIOUS

(* One decision: a bucket with exact books decides exactly, and its books  *)
(* stay exact.                                                             *)
LEMMA DecisionIsExact ==
    ASSUME NEW s \in Seq(Decisions), NEW full \in Int, NEW rate \in Nat, NEW tokens \in Int,
           NEW updated \in Int, NEW time \in Int, updated <= time,
           Ledger(s, full, rate, tokens, updated), Exact(s, full, rate),
           NEW refill, refill = Least(tokens + (time - updated) * rate, full),
           NEW d \in Decisions, d.at = time, d.passed <=> refill >= Unit
    PROVE  /\ refill \in Int
           /\ Ledger(Append(s, d), full, rate, IF d.passed THEN refill - Unit ELSE refill, time)
           /\ Exact(Append(s, d), full, rate)
<1> DEFINE t == Append(s, d)
           L == Len(s)
           gain == (time - updated) * rate
           left(i) == full + rate * (time - t[i].at) - UsedIn(s, i, L + 1)
<1>0. /\ L \in Nat /\ Len(s) = L /\ Len(t) = L + 1 /\ DOMAIN s = 1..L /\ DOMAIN t = 1..(L + 1)
      /\ \A k \in 1..L : t[k] = s[k] /\ s[k] \in Decisions /\ s[k].at \in Int
      /\ t[L + 1] = d /\ (s = <<>> <=> L = 0)
  <2>1. /\ L \in Nat /\ Len(s) = L /\ Len(t) = L + 1 /\ DOMAIN s = 1..L /\ DOMAIN t = 1..(L + 1)
        /\ \A k \in 1..L : t[k] = s[k] /\ s[k] \in Decisions
        /\ t[L + 1] = d
    OBVIOUS
  <2>2. s = <<>> <=> L = 0
    OBVIOUS
  <2>3. \A x \in Decisions : x.at \in Int
    BY DEF Decisions
  <2> QED
    BY <2>1, <2>2, <2>3
<1>10. /\ \A i \in Nat, j \in Nat : UsedIn(s, i, j) \in Int
       /\ \A i \in Nat : UsedIn(s, i, i) = 0
       /\ \A i \in 1..(L + 1) :
            UsedIn(t, i, L + 2) = UsedIn(s, i, L + 1) + (IF d.passed THEN Unit ELSE 0)
  BY UsedFacts
<1>11. \A i \in Nat, j \in Nat : i >= 1 /\ j <= L + 1 => UsedIn(t, i, j) = UsedIn(s, i, j)
  BY UsedFacts
<1> HIDE DEF t, L
<1>1. gain \in Nat /\ Unit \in Nat
  BY FilterAssumption
<1>2. refill \in Int /\ refill <= full /\ refill <= tokens + gain
      /\ (refill = full \/ refill = tokens + gain)
  BY <1>1 DEF Least
<1>3. ASSUME NEW i \in 1..L
      PROVE  /\ left(i) \in Int /\ Left(s, full, rate, updated, i) \in Int
             /\ left(i) = Left(s, full, rate, updated, i) + gain
  <2>0. i \in Nat /\ L + 1 \in Nat
    BY <1>0
  <2>1. s[i].at \in Int /\ UsedIn(s, i, L + 1) \in Int /\ t[i].at = s[i].at
    BY <1>0, <1>10, <2>0
  <2>2. /\ rate * (time - s[i].at) = rate * (updated - s[i].at) + gain
        /\ rate * (time - s[i].at) \in Int /\ rate * (updated - s[i].at) \in Int
    <3> DEFINE a == s[i].at
    <3>1. rate \in Int /\ time \in Int /\ updated \in Int
      OBVIOUS
    <3>2. a \in Int
      BY <2>1
    <3> HIDE DEF a
    <3>3. /\ rate * (time - a) = rate * (updated - a) + gain
          /\ rate * (time - a) \in Int /\ rate * (updated - a) \in Int
      BY <3>1, <3>2, GainInParts
    <3> QED
      BY <3>3 DEF a
  <2>3. left(i) = full + rate * (time - s[i].at) - UsedIn(s, i, L + 1)
    BY <2>1
  <2>4. Left(s, full, rate, updated, i) = full + rate * (updated - s[i].at) - UsedIn(s, i, L + 1)
    BY <1>0 DEF Left
  <2> DEFINE p == rate * (time - s[i].at)
             q == rate * (updated - s[i].at)
             u == UsedIn(s, i, L + 1)
  <2>5. p = q + gain /\ p \in Int /\ q \in Int /\ u \in Int
    BY <2>1, <2>2
  <2> HIDE DEF gain, left, p, q, u
  <2>6. /\ full + p - u \in Int /\ full + q - u \in Int
        /\ full + p - u = full + q - u + gain
    BY <1>1, <2>5
  <2> QED
    BY <2>3, <2>4, <2>6 DEF p, q, u
<1>4. left(L + 1) = full
  <2>1. UsedIn(s, L + 1, L + 1) = 0 /\ t[L + 1].at = time
    BY <1>0, <1>10
  <2>2. rate * (time - time) = 0
    OBVIOUS
  <2> QED
    BY <2>1, <2>2
<1> HIDE DEF gain
<1>5. \A i \in 1..(L + 1) : left(i) \in Int /\ refill <= left(i)
  <2>1. ASSUME NEW i \in 1..L PROVE left(i) \in Int /\ refill <= left(i)
    <3>1. tokens <= Left(s, full, rate, updated, i)
      BY <1>0 DEF Ledger
    <3> HIDE DEF left
    <3> QED
      BY <1>1, <1>2, <1>3, <3>1
  <2> HIDE DEF left
  <2> QED
    BY <1>0, <1>2, <1>4, <2>1
<1>6. \E i \in 1..(L + 1) : refill = left(i)
  <2>1. CASE refill = full
    <3> HIDE DEF left
    <3> QED
      BY <1>0, <1>4, <2>1
  <2>2. CASE refill = tokens + gain /\ s # <<>>
    <3>1. PICK i \in 1..L : tokens = Left(s, full, rate, updated, i)
      BY <1>0, <2>2 DEF Ledger
    <3> HIDE DEF left
    <3> QED
      BY <1>0, <1>3, <2>2, <3>1
  <2>3. CASE refill = tokens + gain /\ s = <<>>
    <3>1. tokens = full
      BY <2>3 DEF Ledger
    <3> HIDE DEF left
    <3> QED
      BY <1>0, <1>1, <1>2, <1>4, <2>3, <3>1
  <2> QED
    BY <1>2, <2>1, <2>2, <2>3
<1>7. ASSUME NEW i \in 1..(L + 1)
      PROVE  UsedIn(t, i, L + 1) = UsedIn(s, i, L + 1) /\ UsedIn(s, i, L + 1) \in Int
  <2>1. i \in Nat /\ L + 1 \in Nat /\ i >= 1 /\ L + 1 <= L + 1
    BY <1>0
  <2>2. UsedIn(t, i, L + 1) = UsedIn(s, i, L + 1)
    BY <1>11, <2>1
  <2> QED
    BY <1>10, <2>1, <2>2
<1>8. Exact(t, full, rate)
  <2>1. ASSUME NEW j \in 1..L
        PROVE  t[j].passed <=> \A i \in 1..j : UsedIn(t, i, j) + Unit <= full + rate * (t[j].at - t[i].at)
    <3>1. \A i \in 1..j : UsedIn(t, i, j) = UsedIn(s, i, j) /\ t[i] = s[i]
      BY <1>0, <1>11
    <3> QED
      BY <1>0, <3>1 DEF Exact
  <2>2. d.passed <=> \A i \in 1..(L + 1) :
            UsedIn(t, i, L + 1) + Unit <= full + rate * (t[L + 1].at - t[i].at)
    <3>0. \A x \in Int : rate * (time - x) \in Int
      BY GainInParts
    <3>4. t[L + 1].at = time /\ \A i \in 1..(L + 1) : t[i].at \in Int
      BY <1>0
    <3>1. \A i \in 1..(L + 1) : rate * (t[L + 1].at - t[i].at) \in Int /\ t[L + 1].at = time
      <4> HIDE DEF t
      <4> QED
        BY <3>0, <3>4, Zenon
    <3>2. ASSUME NEW i \in 1..(L + 1)
          PROVE  left(i) >= Unit <=> UsedIn(t, i, L + 1) + Unit <= full + rate * (t[L + 1].at - t[i].at)
      <4> DEFINE p == rate * (time - t[i].at)
                 u == UsedIn(s, i, L + 1)
      <4>1. left(i) = full + p - u
        OBVIOUS
      <4>2. p = rate * (t[L + 1].at - t[i].at) /\ p \in Int
        BY <3>1
      <4>3. UsedIn(t, i, L + 1) = u /\ u \in Int
        BY <1>7
      <4> HIDE DEF left, p, u
      <4>4. \A a, b \in Int : full + a - b >= Unit <=> b + Unit <= full + a
        BY <1>1
      <4> QED
        BY <4>1, <4>2, <4>3, <4>4
    <3>3. refill >= Unit <=> \A i \in 1..(L + 1) : left(i) >= Unit
      <4> HIDE DEF left
      <4> QED
        BY <1>1, <1>2, <1>5, <1>6
    <3> HIDE DEF left
    <3> QED
      BY <3>2, <3>3
  <2> DEFINE right(j) ==
               t[j].passed <=> \A i \in 1..j : UsedIn(t, i, j) + Unit <= full + rate * (t[j].at - t[i].at)
  <2>3. right(L + 1)
    BY <1>0, <2>2
  <2>4. \A j \in 1..L : right(j)
    BY <2>1
  <2>5. Exact(t, full, rate) <=> \A j \in DOMAIN t : right(j)
    BY DEF Exact
  <2> HIDE DEF right
  <2>6. \A j \in 1..(L + 1) : j \in 1..L \/ j = L + 1
    BY <1>0
  <2> QED
    BY <1>0, <2>3, <2>4, <2>5, <2>6
<1>9. ASSUME NEW i \in 1..(L + 1)
      PROVE  Left(t, full, rate, time, i) = left(i) - (IF d.passed THEN Unit ELSE 0)
  <2>1. UsedIn(t, i, Len(t) + 1) = UsedIn(s, i, L + 1) + (IF d.passed THEN Unit ELSE 0)
    BY <1>0, <1>10
  <2>2. Left(t, full, rate, time, i) = full + rate * (time - t[i].at) - UsedIn(t, i, Len(t) + 1)
    BY DEF Left
  <2> DEFINE p == rate * (time - t[i].at)
             u == UsedIn(s, i, L + 1)
  <2>6. \A y \in Int : rate * (time - y) \in Int
    BY GainInParts
  <2>7. t[i].at \in Int
    BY <1>0
  <2>3. p \in Int /\ u \in Int
    <3> HIDE DEF t
    <3> QED
      BY <1>7, <2>6, <2>7, Zenon
  <2>4. left(i) = full + p - u
    OBVIOUS
  <2>5. Left(t, full, rate, time, i) = full + p - (u + (IF d.passed THEN Unit ELSE 0))
    BY <2>1, <2>2
  <2> HIDE DEF left, p, u
  <2> QED
    BY <1>1, <2>3, <2>4, <2>5
<1> HIDE DEF left
<1>12. Ledger(t, full, rate, IF d.passed THEN refill - Unit ELSE refill, time)
  <2>1. t # <<>> /\ DOMAIN t = 1..(L + 1)
    BY <1>0
  <2> DEFINE cost == IF d.passed THEN Unit ELSE 0
             rest == IF d.passed THEN refill - Unit ELSE refill
  <2>2. cost \in Int /\ rest = refill - cost
    BY <1>1, <1>2
  <2>3. \A i \in 1..(L + 1) : Left(t, full, rate, time, i) = left(i) - cost
    BY <1>9
  <2> HIDE DEF cost, rest
  <2>4. \A i \in 1..(L + 1) : rest <= Left(t, full, rate, time, i)
    BY <1>2, <1>5, <2>2, <2>3
  <2>5. \E i \in 1..(L + 1) : rest = Left(t, full, rate, time, i)
    BY <1>6, <2>2, <2>3
  <2>6. Ledger(t, full, rate, rest, time)
    BY <2>1, <2>4, <2>5 DEF Ledger
  <2> QED
    BY <2>6 DEF rest
<1> QED
  BY <1>2, <1>8, <1>12 DEF t

LEMMA FiltersStay == [FilterNext]_filterVars => filters' = filters /\ (now' = now \/ now' = now + 1)
<1> SUFFICES ASSUME [FilterNext]_filterVars PROVE filters' = filters /\ (now' = now \/ now' = now + 1)
  OBVIOUS
<1>1. CASE Tick \/ UNCHANGED filterVars
  BY <1>1 DEF Tick, filterVars
<1>2. ASSUME NEW c \in Callers, NEW e \in Arrivals, ApplyChain(c, e) PROVE UNCHANGED <<filters, now>>
  BY <1>2, Zenon DEF ApplyChain
<1>3. ASSUME NEW c \in Callers, ChainEnds(c) \/ EnterComposite(c) PROVE UNCHANGED <<filters, now>>
  BY <1>3, Zenon DEF ChainEnds, EnterComposite
<1>4. ASSUME NEW c \in Callers, DecideNext(c) PROVE UNCHANGED <<filters, now>>
  BY <1>4, Zenon DEF DecideNext
<1> QED
  BY <1>1, <1>2, <1>3, <1>4 DEF FilterNext

(* Every burst filter has a section that was not refused and exact books.  *)
BucketInv ==
    /\ now \in Nat
    /\ DOMAIN bucket = DOMAIN decided
    /\ \A n \in DOMAIN decided :
         /\ filters[n].rate \in Nat /\ filters[n].burst \in Int
         /\ decided[n] \in Seq(Decisions)
         /\ bucket[n].tokens \in Int /\ bucket[n].last \in 0..now
         /\ Ledger(decided[n], filters[n].burst * Unit, filters[n].rate, bucket[n].tokens, bucket[n].last)
         /\ Exact(decided[n], filters[n].burst * Unit, filters[n].rate)

(* The constructor of a burst filter gives it a rate and a burst, and      *)
(* refuses those that are not positive.                                    *)
LEMMA BurstIsPositive ==
    ASSUME NEW configs \in Configs, NEW n \in DOMAIN configs, ~RefusedSection(configs[n]),
           BuildSection(configs[n]).kind = "burst"
    PROVE  BuildSection(configs[n]).rate \in Nat /\ BuildSection(configs[n]).burst \in Int
<1> DEFINE c == configs[n]
           o == FilterOptions(c)
<1>1. /\ {"kind", "onMatch", "onMismatch", "level", "rate", "burst"} \subseteq DOMAIN c
      /\ c.rate \in Int /\ c.burst \in Int
  BY FilterAssumption
<1>2. /\ DOMAIN o = DOMAIN c /\ o.kind = c.kind /\ o.rate = c.rate /\ o.burst = c.burst
  BY <1>1 DEF FilterOptions
<1> HIDE DEF o
<1>3. BuildBurst(o).rate \in Int /\ BuildBurst(o).burst \in Int
  <2>1. Unset \in Int /\ Unit \in Nat \ {0}
    BY FilterAssumption
  <2> QED
    BY <1>1, <1>2, <2>1 DEF BuildBurst, OrNumber
<1>4. c.kind = "burst"
  BY <1>1, <1>2 DEF BuildSection, MapFilterOptions, BuildBurst, BuildDynamicThreshold, BuildTime, Maps, o
<1>5. BuildSection(c) = BuildBurst(o)
  BY <1>4 DEF BuildSection, Maps, o
<1> QED
  <2>1. BuildBurst(o).kind = "burst" /\ ~RefusedNumber(BuildBurst(o))
    BY <1>4, <1>5 DEF RefusedSection
  <2> QED
    BY <1>3, <1>5, <2>1 DEF RefusedNumber

LEMMA BucketInit == FilterInit => BucketInv
<1> SUFFICES ASSUME FilterInit PROVE BucketInv
  OBVIOUS
<1>1. now = 0 /\ DOMAIN bucket = DOMAIN decided
  BY DEF FilterInit
<1>2. ASSUME NEW n \in DOMAIN decided
      PROVE  /\ filters[n].rate \in Nat /\ filters[n].burst \in Int
             /\ decided[n] = <<>> /\ bucket[n].tokens = filters[n].burst * Unit /\ bucket[n].last = 0
  <2>1. PICK configs \in Configs :
          filters = IF \E m \in DOMAIN configs : RefusedSection(configs[m]) THEN <<>>
                    ELSE [m \in DOMAIN configs |-> BuildSection(configs[m])]
    BY DEF FilterInit
  <2>2. n \in DOMAIN filters /\ filters[n].kind = "burst" /\ decided[n] = <<>>
        /\ bucket[n].tokens = filters[n].burst * Unit /\ bucket[n].last = 0
    BY DEF FilterInit
  <2>3. n \in DOMAIN configs /\ ~RefusedSection(configs[n]) /\ filters[n] = BuildSection(configs[n])
    BY <2>1, <2>2
  <2> QED
    BY <2>2, <2>3, BurstIsPositive
<1>3. ASSUME NEW n \in DOMAIN decided
      PROVE  /\ Ledger(decided[n], filters[n].burst * Unit, filters[n].rate, bucket[n].tokens, bucket[n].last)
             /\ Exact(decided[n], filters[n].burst * Unit, filters[n].rate)
  BY <1>2 DEF Ledger, Exact
<1>4. <<>> \in Seq(Decisions)
  OBVIOUS
<1>5. ASSUME NEW n \in DOMAIN decided
      PROVE  decided[n] \in Seq(Decisions) /\ bucket[n].tokens \in Int /\ bucket[n].last \in 0..now
  <2>1. filters[n].burst * Unit \in Int
    BY <1>2, FilterAssumption
  <2>2. 0 \in 0..now
    BY <1>1
  <2>3. decided[n] \in Seq(Decisions)
    BY <1>2, <1>4, Zenon
  <2> QED
    BY <1>2, <2>1, <2>2, <2>3
<1> QED
  BY <1>1, <1>2, <1>3, <1>5 DEF BucketInv

(* Only DecideNext touches a bucket, and only with a decision.             *)
LEMMA BucketStep ==
    ASSUME BucketInv, [FilterNext]_filterVars
    PROVE  BucketInv'
<1>1. ASSUME UNCHANGED <<filters, bucket, decided>>, now' = now \/ now' = now + 1 PROVE BucketInv'
  BY <1>1 DEF BucketInv
<1>2. ASSUME NEW c \in Callers, DecideNext(c) PROVE BucketInv'
  <2> DEFINE n == Head(Head(caller[c].frames))
             f == filters[n]
             e == caller[c].event
             b == bucket[n]
             d == [at |-> now, passed |-> Passes(f, b)]
  <2>0. UNCHANGED <<filters, now>>
    BY <1>2 DEF DecideNext
  <2>1. CASE ~(n \in DOMAIN bucket /\ Limited(f, e))
    BY <1>1, <1>2, <2>1 DEF DecideNext
  <2>2. CASE n \in DOMAIN bucket /\ Limited(f, e)
    <3>1. /\ bucket' = [bucket EXCEPT ![n] =
                [tokens |-> IF Passes(f, b) THEN Refill(f, b) - Unit ELSE Refill(f, b), last |-> now]]
          /\ decided' = [decided EXCEPT ![n] = Append(@, d)]
      BY <1>2, <2>2, Zenon DEF DecideNext
    <3> HIDE DEF d, f, b, n
    <3>2. /\ n \in DOMAIN decided /\ now \in Nat /\ DOMAIN bucket = DOMAIN decided
          /\ f.rate \in Nat /\ f.burst \in Int /\ decided[n] \in Seq(Decisions)
          /\ b.tokens \in Int /\ b.last \in 0..now
          /\ Ledger(decided[n], f.burst * Unit, f.rate, b.tokens, b.last)
          /\ Exact(decided[n], f.burst * Unit, f.rate)
      BY <2>2 DEF BucketInv, f, b
    <3>3. d \in Decisions /\ d.at = now /\ (d.passed <=> Refill(f, b) >= Unit)
      <4>1. Passes(f, b) \in BOOLEAN /\ (Passes(f, b) <=> Refill(f, b) >= Unit)
        BY DEF Passes
      <4> QED
        BY <3>2, <4>1 DEF Decisions, d
    <3>4. Refill(f, b) = Least(b.tokens + (now - b.last) * f.rate, f.burst * Unit)
      BY DEF Refill
    <3>5. f.burst * Unit \in Int /\ Unit \in Int /\ b.last \in Int /\ b.last <= now /\ now \in Int
      BY <3>2, FilterAssumption
    <3>6. /\ Refill(f, b) \in Int
          /\ Ledger(Append(decided[n], d), f.burst * Unit, f.rate,
                    IF d.passed THEN Refill(f, b) - Unit ELSE Refill(f, b), now)
          /\ Exact(Append(decided[n], d), f.burst * Unit, f.rate)
      BY <3>2, <3>3, <3>4, <3>5, DecisionIsExact
    <3>7. /\ DOMAIN bucket' = DOMAIN bucket /\ DOMAIN decided' = DOMAIN decided
          /\ decided'[n] = Append(decided[n], d)
          /\ bucket'[n].tokens = IF d.passed THEN Refill(f, b) - Unit ELSE Refill(f, b)
          /\ bucket'[n].last = now
          /\ \A m \in DOMAIN decided : m # n => decided'[m] = decided[m] /\ bucket'[m] = bucket[m]
      BY <2>2, <3>1, <3>2 DEF d
    <3>8. ASSUME NEW m \in DOMAIN decided
          PROVE  /\ filters[m].rate \in Nat /\ filters[m].burst \in Int
                 /\ decided'[m] \in Seq(Decisions)
                 /\ bucket'[m].tokens \in Int /\ bucket'[m].last \in 0..now
                 /\ Ledger(decided'[m], filters[m].burst * Unit, filters[m].rate,
                           bucket'[m].tokens, bucket'[m].last)
                 /\ Exact(decided'[m], filters[m].burst * Unit, filters[m].rate)
      <4>1. CASE m = n
        <5>1. Append(decided[n], d) \in Seq(Decisions)
          BY <3>2, <3>3
        <5>2. bucket'[n].tokens \in Int
          BY <3>5, <3>6, <3>7
        <5>3. filters[m] = f /\ decided'[m] = Append(decided[n], d) /\ bucket'[m] = bucket'[n]
          BY <3>7, <4>1 DEF f
        <5>4. n \in DOMAIN decided /\ now \in 0..now
          BY <3>2
        <5> QED
          BY <3>2, <3>6, <3>7, <5>1, <5>2, <5>3, <5>4
      <4>2. CASE m # n
        BY <3>7, <4>2 DEF BucketInv
      <4> QED
        BY <4>1, <4>2
    <3> QED
      BY <2>0, <3>2, <3>7, <3>8 DEF BucketInv
  <2> QED
    BY <2>1, <2>2
<1>3. CASE Tick \/ UNCHANGED filterVars
  <2>1. UNCHANGED <<filters, bucket, decided>> /\ (now' = now \/ now' = now + 1)
    BY <1>3, Zenon DEF Tick, filterVars
  <2> QED
    BY <1>1, <2>1
<1>4. ASSUME NEW c \in Callers, NEW e \in Arrivals, ApplyChain(c, e) PROVE BucketInv'
  <2>1. UNCHANGED <<filters, bucket, decided, now>>
    BY <1>4, Zenon DEF ApplyChain
  <2> QED
    BY <1>1, <2>1
<1>5. ASSUME NEW c \in Callers, ChainEnds(c) \/ EnterComposite(c) PROVE BucketInv'
  <2>1. UNCHANGED <<filters, bucket, decided, now>>
    BY <1>5, Zenon DEF ChainEnds, EnterComposite
  <2> QED
    BY <1>1, <2>1
<1> QED
  BY <1>2, <1>3, <1>4, <1>5 DEF FilterNext

(* Of the limited events that reach a burst filter, whichever callers and  *)
(* chains bring them, one passes exactly when every stretch of time up to  *)
(* it leaves a token for it: for every rate, burst and sequence of times   *)
(* (internal/filter/burst.go).                                             *)
THEOREM BucketsAreExact == FilterSpec => []BucketIsExact
<1>1. BucketInv => BucketIsExact
  BY DEF BucketInv, BucketIsExact, Exact, Used, UsedIn, PassedIn
<1> QED
  BY <1>1, BucketInit, BucketStep, PTL DEF FilterSpec

-----------------------------------------------------------------------------
(* FilterChain: what a caller is answered.  The chains a caller is in have *)
(* the end of the one flat chain in hand; what it has asked is its         *)
(* beginning.                                                              *)

(* Concatenation of lists over S is associative.                           *)
Associates(S) == \A a, b, c \in Seq(S) : (a \o b) \o c = a \o (b \o c)

LEMMA ConcatsAssociate == \A S : Associates(S)
BY ConcatAssociative DEF Associates

(* The first list in front of the others.                                  *)
LEMMA FlattenCons ==
    ASSUME NEW S, NEW seqs \in Seq(Seq(S)), seqs # <<>>
    PROVE  /\ Tail(seqs) \in Seq(Seq(S))
           /\ FlattenSeq(seqs) = Head(seqs) \o FlattenSeq(Tail(seqs))
<1> DEFINE n == Len(seqs)
           tl == Tail(seqs)
<1>1. /\ n \in Nat /\ n # 0 /\ tl \in Seq(Seq(S)) /\ Len(tl) = n - 1
      /\ \A i \in 1..(n - 1) : i \in 1..Len(tl) /\ tl[i] = seqs[i + 1]
      /\ seqs[1] \in Seq(S) /\ Head(seqs) = seqs[1]
      /\ \A i \in 1..n : seqs[i] \in Seq(S)
  <2>1. n \in Nat /\ n # 0 /\ n = Len(seqs) /\ DOMAIN seqs = 1..n
    OBVIOUS
  <2>2. tl \in Seq(Seq(S)) /\ Len(tl) = n - 1 /\ \A i \in 1..(n - 1) : tl[i] = seqs[i + 1]
    OBVIOUS
  <2> QED
    BY <2>1, <2>2
<1> HIDE DEF n, tl
<1>2. PICK f \in [1..n -> Seq(S)] : Flattening(seqs, f, n)
  <2>1. n \in 0..Len(seqs)
    BY <1>1 DEF n
  <2> QED
    BY <2>1, FlattenThereIs
<1>3. \A i \in 1..n : f[i] = IF i = 1 THEN seqs[i] ELSE f[i - 1] \o seqs[i]
  <2> DEFINE o == [i \in 1..n |-> IF i = 1 THEN seqs[i] ELSE f[i - 1] \o seqs[i]]
  <2>1. f = o
    BY <1>2, Zenon DEF Flattening
  <2>2. \A i \in 1..n : o[i] = IF i = 1 THEN seqs[i] ELSE f[i - 1] \o seqs[i]
    BY Zenon
  <2> HIDE DEF o
  <2> QED
    BY <2>1, <2>2
<1>4. FlattenSeq(seqs) = f[n]
  <2>1. Len(seqs) # 0 /\ Flattening(seqs, f, Len(seqs))
    BY <1>1, <1>2 DEF n
  <2> QED
    BY <2>1, FlattenIs DEF n
<1>5. CASE n = 1
  <2>1. Len(tl) = 0 /\ tl = <<>>
    BY <1>1, <1>5
  <2>2. FlattenSeq(tl) = <<>>
    BY <2>1 DEF FlattenSeq
  <2>3. f[1] = seqs[1] /\ seqs[1] \o <<>> = seqs[1]
    BY <1>1, <1>3, <1>5
  <2> QED
    BY <1>1, <1>4, <1>5, <2>2, <2>3 DEF tl
<1>6. CASE n # 1
  <2> DEFINE m == Len(tl)
  <2>0. m = n - 1 /\ m \in Nat /\ m # 0 /\ m \in 0..Len(tl) /\ m \in 1..m /\ n \in 1..n
    BY <1>1, <1>6
  <2> HIDE DEF m
  <2>1. PICK g \in [1..m -> Seq(S)] : Flattening(tl, g, m)
    BY <1>1, <2>0, FlattenThereIs
  <2>2. \A i \in 1..m : g[i] = IF i = 1 THEN tl[i] ELSE g[i - 1] \o tl[i]
    <3> DEFINE o == [i \in 1..m |-> IF i = 1 THEN tl[i] ELSE g[i - 1] \o tl[i]]
    <3>1. g = o
      BY <2>1, Zenon DEF Flattening
    <3>2. \A i \in 1..m : o[i] = IF i = 1 THEN tl[i] ELSE g[i - 1] \o tl[i]
      BY Zenon
    <3> HIDE DEF o
    <3> QED
      BY <3>1, <3>2
  <2>3. FlattenSeq(tl) = g[m]
    <3>1. Len(tl) # 0 /\ Flattening(tl, g, Len(tl))
      BY <2>0, <2>1 DEF m
    <3> QED
      BY <1>1, <3>1, FlattenIs DEF m
  <2> DEFINE wrong == {i \in 1..m : f[i + 1] # seqs[1] \o g[i]}
  <2>4. wrong = {}
    <3> SUFFICES ASSUME wrong # {} PROVE FALSE
      OBVIOUS
    <3>1. wrong \in SUBSET Nat
      BY <2>0
    <3>2. PICK i \in wrong : \A j \in wrong : i <= j
      BY <3>1, LeastNatural
    <3>3. i \in 1..m /\ f[i + 1] # seqs[1] \o g[i]
      OBVIOUS
    <3>4. i + 1 \in 1..n /\ i + 1 # 1 /\ (i + 1) - 1 = i /\ i \in 1..n /\ i \in 1..(n - 1)
      BY <1>1, <2>0, <3>3
    <3>5. f[i + 1] = f[i] \o seqs[i + 1] /\ tl[i] = seqs[i + 1]
      BY <1>1, <1>3, <3>4
    <3>6. CASE i = 1
      <4>1. f[1] = seqs[1] /\ g[1] = tl[1]
        BY <1>3, <2>2, <3>3, <3>4, <3>6
      <4> QED
        BY <3>3, <3>5, <3>6, <4>1
    <3>7. CASE i # 1
      <4>1. i - 1 \in 1..m /\ ~(i <= i - 1) /\ (i - 1) + 1 = i
        BY <2>0, <3>3, <3>7
      <4>2. f[i] = seqs[1] \o g[i - 1]
        BY <3>2, <4>1
      <4>3. g[i] = g[i - 1] \o tl[i] /\ g[i - 1] \in Seq(S) /\ tl[i] \in Seq(S)
        BY <1>1, <2>2, <3>3, <3>4, <3>5, <3>7, <4>1
      <4> HIDE DEF wrong
      <4>4. (seqs[1] \o g[i - 1]) \o tl[i] = seqs[1] \o (g[i - 1] \o tl[i])
        <5>1. PICK x, y, z : x = seqs[1] /\ y = g[i - 1] /\ z = tl[i]
          OBVIOUS
        <5>2. x \in Seq(S) /\ y \in Seq(S) /\ z \in Seq(S)
          BY <1>1, <4>3, <5>1
        <5>3. (x \o y) \o z = x \o (y \o z)
          <6>1. Associates(S)
            BY ConcatsAssociate, Zenon
          <6> QED
            BY <5>2, <6>1 DEF Associates
        <5> QED
          BY <5>1, <5>3
      <4> QED
        BY <3>3, <3>5, <4>2, <4>3, <4>4
    <3> QED
      BY <3>6, <3>7
  <2>5. f[m + 1] = seqs[1] \o g[m]
    BY <2>0, <2>4
  <2>6. m + 1 = n
    BY <1>1, <2>0
  <2> QED
    BY <1>1, <1>4, <2>3, <2>5, <2>6 DEF tl
<1> QED
  BY <1>5, <1>6

-----------------------------------------------------------------------------
(* FilterChain: what a chain answers.                                      *)

(* A filter with its composites written out, and a list of filters.        *)
InOne(f, m) == IF filters[m].kind = "composite" THEN f[m] ELSE <<m>>
InPlace(f, l) == FlattenSeq([i \in DOMAIN l |-> InOne(f, l[i])])

(* What the chains a caller is in have still to ask, innermost first.      *)
Remaining(f, frames) == FlattenSeq([i \in DOMAIN frames |-> InPlace(f, frames[i])])

Names == DOMAIN filters

LEMMA InPlaceType ==
    ASSUME NEW f, NEW l \in Seq(Names), \A i \in DOMAIN l : InOne(f, l[i]) \in Seq(Names)
    PROVE  /\ [i \in DOMAIN l |-> InOne(f, l[i])] \in Seq(Seq(Names))
           /\ InPlace(f, l) \in Seq(Names)
<1> DEFINE parts == [i \in DOMAIN l |-> InOne(f, l[i])]
<1>1. PICK n \in Nat : DOMAIN l = 1..n
  OBVIOUS
<1>2. parts \in [1..n -> Seq(Names)]
  BY <1>1
<1> HIDE DEF parts
<1>3. parts \in Seq(Seq(Names))
  BY <1>2, FunctionIsSequence
<1>4. FlattenSeq(parts) \in Seq(Names)
  BY <1>3, FlattenSeqs
<1> QED
  BY <1>3, <1>4 DEF InPlace, parts

LEMMA InPlaceSame ==
    ASSUME NEW f, NEW g, NEW l, \A i \in DOMAIN l : InOne(f, l[i]) = InOne(g, l[i])
    PROVE  InPlace(f, l) = InPlace(g, l)
<1>1. [i \in DOMAIN l |-> InOne(f, l[i])] = [i \in DOMAIN l |-> InOne(g, l[i])]
  OBVIOUS
<1> QED
  BY <1>1, Zenon DEF InPlace

LEMMA InPlaceNone == \A f : InPlace(f, <<>>) = <<>>
<1> TAKE f
<1>1. [i \in DOMAIN <<>> |-> InOne(f, <<>>[i])] = <<>>
  OBVIOUS
<1>2. FlattenSeq(<<>>) = <<>>
  BY DEF FlattenSeq
<1> QED
  BY <1>1, <1>2 DEF InPlace

LEMMA InPlaceCons ==
    ASSUME NEW f, NEW l \in Seq(Names), l # <<>>,
           \A i \in DOMAIN l : InOne(f, l[i]) \in Seq(Names)
    PROVE  InPlace(f, l) = InOne(f, Head(l)) \o InPlace(f, Tail(l))
<1> DEFINE parts == [i \in DOMAIN l |-> InOne(f, l[i])]
           rest == [i \in DOMAIN Tail(l) |-> InOne(f, Tail(l)[i])]
<1>1. parts \in Seq(Seq(Names))
  BY InPlaceType
<1>2. PICK n \in Nat : DOMAIN l = 1..n /\ n = Len(l)
  OBVIOUS
<1>3. n # 0 /\ DOMAIN Tail(l) = 1..(n - 1) /\ \A i \in 1..(n - 1) : Tail(l)[i] = l[i + 1]
  BY <1>2
<1>4. parts # <<>> /\ Head(parts) = InOne(f, Head(l))
  BY <1>2, <1>3
<1>5. Tail(parts) = rest
  <2>1. DOMAIN parts = 1..n /\ Len(parts) = n
    BY <1>1, <1>2
  <2>2. /\ DOMAIN Tail(parts) = 1..(n - 1) /\ DOMAIN rest = 1..(n - 1)
        /\ \A i \in 1..(n - 1) : i + 1 \in 1..n /\ Tail(parts)[i] = parts[i + 1]
    BY <1>1, <1>2, <1>3, <1>4, <2>1
  <2>3. \A i \in 1..(n - 1) : Tail(parts)[i] = rest[i]
    BY <1>2, <1>3, <2>2
  <2>4. Tail(parts) = [i \in 1..(n - 1) |-> Tail(parts)[i]] /\ rest = [i \in 1..(n - 1) |-> rest[i]]
    BY <1>1, <1>3, <1>4, <2>1, <2>2
  <2> QED
    BY <2>3, <2>4
<1> HIDE DEF parts, rest
<1>6. FlattenSeq(parts) = Head(parts) \o FlattenSeq(Tail(parts))
  BY <1>1, <1>4, FlattenCons
<1> QED
  BY <1>4, <1>5, <1>6 DEF InPlace, parts, rest

LEMMA RemainingNone == \A f : Remaining(f, <<>>) = <<>>
<1> TAKE f
<1>1. [i \in DOMAIN <<>> |-> InPlace(f, <<>>[i])] = <<>>
  OBVIOUS
<1>2. FlattenSeq(<<>>) = <<>>
  BY DEF FlattenSeq
<1> QED
  BY <1>1, <1>2 DEF Remaining

LEMMA RemainingCons ==
    ASSUME NEW f, NEW frames \in Seq(Seq(Names)), frames # <<>>,
           \A m \in Names : InOne(f, m) \in Seq(Names)
    PROVE  /\ Remaining(f, frames) = InPlace(f, Head(frames)) \o Remaining(f, Tail(frames))
           /\ Remaining(f, Tail(frames)) \in Seq(Names)
           /\ InPlace(f, Head(frames)) \in Seq(Names)
<1> DEFINE parts == [i \in DOMAIN frames |-> InPlace(f, frames[i])]
           rest == [i \in DOMAIN Tail(frames) |-> InPlace(f, Tail(frames)[i])]
<1>1. PICK n \in Nat : DOMAIN frames = 1..n /\ n = Len(frames)
  OBVIOUS
<1>2. \A l \in Seq(Names) : InPlace(f, l) \in Seq(Names)
  <2> TAKE l \in Seq(Names)
  <2>1. \A i \in DOMAIN l : InOne(f, l[i]) \in Seq(Names)
    OBVIOUS
  <2> QED
    BY <2>1, InPlaceType
<1>3. parts \in Seq(Seq(Names))
  <2>1. \A i \in 1..n : frames[i] \in Seq(Names)
    BY <1>1
  <2>2. parts \in [1..n -> Seq(Names)]
    BY <1>1, <1>2, <2>1
  <2> HIDE DEF parts
  <2> QED
    BY <2>2, FunctionIsSequence
<1>4. /\ n # 0 /\ DOMAIN Tail(frames) = 1..(n - 1)
      /\ \A i \in 1..(n - 1) : Tail(frames)[i] = frames[i + 1]
  BY <1>1
<1>5. parts # <<>> /\ Head(parts) = InPlace(f, Head(frames)) /\ Head(frames) \in Seq(Names)
  BY <1>1, <1>4
<1>6. Tail(parts) = rest
  <2>1. DOMAIN parts = 1..n /\ Len(parts) = n
    BY <1>1, <1>3
  <2>2. /\ DOMAIN Tail(parts) = 1..(n - 1) /\ DOMAIN rest = 1..(n - 1)
        /\ \A i \in 1..(n - 1) : i + 1 \in 1..n /\ Tail(parts)[i] = parts[i + 1]
    BY <1>1, <1>3, <1>4, <1>5, <2>1
  <2>3. \A i \in 1..(n - 1) : Tail(parts)[i] = rest[i]
    BY <1>1, <1>4, <2>2
  <2>4. Tail(parts) = [i \in 1..(n - 1) |-> Tail(parts)[i]] /\ rest = [i \in 1..(n - 1) |-> rest[i]]
    BY <1>3, <1>4, <1>5, <2>1, <2>2
  <2> QED
    BY <2>3, <2>4
<1> HIDE DEF parts, rest
<1>7. /\ FlattenSeq(parts) = Head(parts) \o FlattenSeq(Tail(parts))
      /\ Tail(parts) \in Seq(Seq(Names))
  BY <1>3, <1>5, FlattenCons
<1>8. FlattenSeq(Tail(parts)) \in Seq(Names)
  BY <1>7, FlattenSeqs
<1> QED
  BY <1>2, <1>5, <1>6, <1>7, <1>8 DEF Remaining, parts, rest

(* The filters a configuration that is not refused has.                    *)
Nested(depth) ==
    /\ depth \in [Names -> 0..Cardinality(Names)]
    /\ \A n \in Names : \A m \in ToSet(filters[n].filters) : depth[m] < depth[n]

FiltersBuilt ==
    /\ IsFiniteSet(Names)
    /\ "chain" \in Names /\ filters["chain"].kind = "composite"
    /\ \A n \in Names :
         /\ filters[n].filters \in Seq(Names)
         /\ filters[n].kind = "time" => /\ {filters[n].start, filters[n].end} \subseteq 0..(Day - 1)
                                        /\ filters[n].zone \in Int
    /\ \E depth : Nested(depth)

(* What the recursion of Flat asks of a function, and of its shallow part. *)
Solves(f) == f = [n \in Names |-> InPlace(f, filters[n].filters)]
SolvesBelow(f, depth, k) ==
    \A n \in Names : depth[n] < k => f[n] = InPlace(f, filters[n].filters)

LEMMA FlatThereIs ==
    ASSUME FiltersBuilt
    PROVE  \E f \in [Names -> Seq(Names)] : Solves(f)
<1>1. PICK depth : Nested(depth)
  BY DEF FiltersBuilt
<1>2. PICK top \in Nat : \A n \in Names : depth[n] \in 0..top
  <2>1. Cardinality(Names) \in Nat
    BY FS_CardinalityType DEF FiltersBuilt
  <2> QED
    BY <1>1, <2>1 DEF Nested
<1>3. \A n \in Names : \A i \in DOMAIN filters[n].filters :
        LET m == filters[n].filters[i] IN m \in Names /\ depth[m] < depth[n]
  <2> TAKE n \in Names
  <2>1. filters[n].filters \in Seq(Names)
    BY DEF FiltersBuilt
  <2> TAKE i \in DOMAIN filters[n].filters
  <2>2. filters[n].filters[i] \in ToSet(filters[n].filters)
    BY DEF ToSet
  <2> QED
    BY <1>1, <2>1, <2>2 DEF Nested
<1> DEFINE bad == {k \in Nat : ~\E f \in [Names -> Seq(Names)] : SolvesBelow(f, depth, k)}
<1>4. bad = {}
  <2> SUFFICES ASSUME bad # {} PROVE FALSE
    OBVIOUS
  <2>1. PICK k \in bad : \A j \in bad : k <= j
    BY LeastNatural
  <2>2. k \in Nat /\ ~\E f \in [Names -> Seq(Names)] : SolvesBelow(f, depth, k)
    OBVIOUS
  <2>3. CASE k = 0
    <3> DEFINE f == [n \in Names |-> <<>>]
    <3>1. f \in [Names -> Seq(Names)]
      OBVIOUS
    <3>2. SolvesBelow(f, depth, k)
      BY <1>2, <2>3 DEF SolvesBelow
    <3> QED
      BY <2>2, <3>1, <3>2
  <2>4. CASE k # 0
    <3>1. k - 1 \in Nat /\ ~(k <= k - 1)
      BY <2>2, <2>4
    <3>2. PICK f \in [Names -> Seq(Names)] : SolvesBelow(f, depth, k - 1)
      BY <2>1, <3>1
    <3> DEFINE g == [n \in Names |-> IF depth[n] = k - 1 THEN InPlace(f, filters[n].filters) ELSE f[n]]
    <3>3. \A m \in Names : InOne(f, m) \in Seq(Names)
      BY DEF InOne
    <3>4. ASSUME NEW n \in Names
          PROVE  filters[n].filters \in Seq(Names) /\ InPlace(f, filters[n].filters) \in Seq(Names)
      <4>1. filters[n].filters \in Seq(Names)
        BY DEF FiltersBuilt
      <4>2. \A i \in DOMAIN filters[n].filters : InOne(f, filters[n].filters[i]) \in Seq(Names)
        BY <1>3, <3>3
      <4> QED
        BY <4>1, <4>2, InPlaceType
    <3>5. g \in [Names -> Seq(Names)]
      BY <3>4
    <3>6. ASSUME NEW n \in Names, depth[n] < k
          PROVE  g[n] = InPlace(g, filters[n].filters)
      <4>1. depth[n] \in Nat /\ \A m \in Names : depth[m] \in Nat
        BY <1>2
      <4>2. ASSUME NEW i \in DOMAIN filters[n].filters
            PROVE  InOne(f, filters[n].filters[i]) = InOne(g, filters[n].filters[i])
        <5> DEFINE m == filters[n].filters[i]
        <5>1. m \in Names /\ depth[m] < depth[n]
          BY <1>3
        <5>2. depth[m] # k - 1
          BY <2>2, <3>6, <4>1, <5>1
        <5>3. g[m] = f[m]
          BY <5>1, <5>2
        <5> HIDE DEF m, g
        <5>4. InOne(f, m) = InOne(g, m)
          BY <5>3 DEF InOne
        <5> QED
          BY <5>4 DEF m
      <4>3. InPlace(f, filters[n].filters) = InPlace(g, filters[n].filters)
        <5> HIDE DEF g
        <5> QED
          BY <4>2, InPlaceSame
      <4>4. g[n] = InPlace(f, filters[n].filters)
        <5>1. CASE depth[n] = k - 1
          BY <5>1
        <5>2. CASE depth[n] # k - 1
          <6>1. depth[n] < k - 1
            BY <2>2, <3>6, <4>1, <5>2
          <6>2. f[n] = InPlace(f, filters[n].filters)
            BY <3>2, <6>1 DEF SolvesBelow
          <6> QED
            BY <5>2, <6>2
        <5> QED
          BY <5>1, <5>2
      <4> QED
        BY <4>3, <4>4
    <3>7. SolvesBelow(g, depth, k)
      <4> HIDE DEF g
      <4> QED
        BY <3>6 DEF SolvesBelow
    <3> QED
      BY <2>2, <3>5, <3>7
  <2> QED
    BY <2>3, <2>4
<1>5. PICK f \in [Names -> Seq(Names)] : SolvesBelow(f, depth, top + 1)
  <2>1. PICK k \in Nat : k = top + 1
    BY <1>2
  <2>2. k \notin bad
    BY <1>4
  <2> QED
    BY <2>1, <2>2
<1>6. \A n \in Names : f[n] = InPlace(f, filters[n].filters)
  BY <1>2, <1>5 DEF SolvesBelow
<1>7. f = [n \in Names |-> f[n]]
  OBVIOUS
<1>8. f = [n \in Names |-> InPlace(f, filters[n].filters)]
  BY <1>6, <1>7
<1> QED
  BY <1>8 DEF Solves

(* The chain written out, as a solution of the recursion says.             *)
LEMMA FlatIs ==
    ASSUME FiltersBuilt
    PROVE  \E f : /\ Flat = f["chain"]
                  /\ \A n \in Names : f[n] \in Seq(Names) /\ f[n] = InPlace(f, filters[n].filters)
                  /\ \A m \in Names : InOne(f, m) \in Seq(Names)
<1> DEFINE body(f) == [n \in Names |->
                         FlattenSeq([i \in DOMAIN filters[n].filters |->
                            LET m == filters[n].filters[i]
                            IN  IF filters[m].kind = "composite" THEN f[m] ELSE <<m>>])]
           flat == CHOOSE f : f = body(f)
<1>1. \A f : body(f) = [n \in Names |-> InPlace(f, filters[n].filters)]
  BY Zenon DEF InPlace, InOne
<1>2. PICK g \in [Names -> Seq(Names)] : Solves(g)
  BY FlatThereIs
<1>3. g = body(g)
  BY <1>1, <1>2, Zenon DEF Solves
<1>4. flat = body(flat)
  BY <1>3, Zenon
<1>5. Flat = flat["chain"]
  BY Zenon DEF Flat, Names
<1> HIDE DEF flat
<1>6. flat = [n \in Names |-> InPlace(flat, filters[n].filters)]
  BY <1>1, <1>4, Zenon
<1> HIDE DEF body
<1>7. \A n \in Names : flat[n] = InPlace(flat, filters[n].filters)
  <2> DEFINE o == [n \in Names |-> InPlace(flat, filters[n].filters)]
  <2>1. \A n \in Names : o[n] = InPlace(flat, filters[n].filters)
    BY Zenon
  <2> HIDE DEF o
  <2>2. flat = o
    BY <1>6 DEF o
  <2> QED
    BY <2>1, <2>2
<1>8. PICK depth : Nested(depth)
  BY DEF FiltersBuilt
<1>9. \A n \in Names : depth[n] \in Nat
  <2>1. Cardinality(Names) \in Nat
    BY FS_CardinalityType DEF FiltersBuilt
  <2> QED
    BY <1>8, <2>1 DEF Nested
<1> DEFINE bad == {depth[n] : n \in {m \in Names : flat[m] \notin Seq(Names)}}
<1>10. bad = {}
  <2> SUFFICES ASSUME bad # {} PROVE FALSE
    OBVIOUS
  <2>1. bad \in SUBSET Nat
    BY <1>9
  <2>2. PICK k \in bad : \A j \in bad : k <= j
    BY <2>1, LeastNatural
  <2>3. PICK n \in Names : depth[n] = k /\ flat[n] \notin Seq(Names)
    OBVIOUS
  <2>4. filters[n].filters \in Seq(Names)
    BY DEF FiltersBuilt
  <2>5. ASSUME NEW i \in DOMAIN filters[n].filters PROVE InOne(flat, filters[n].filters[i]) \in Seq(Names)
    <3>1. PICK m : m = filters[n].filters[i]
      OBVIOUS
    <3>2. m \in ToSet(filters[n].filters) /\ m \in Names
      BY <2>4, <3>1 DEF ToSet
    <3>3. depth[m] < depth[n] /\ depth[m] \in Nat /\ depth[n] \in Nat
      BY <1>8, <1>9, <3>2 DEF Nested
    <3>4. flat[m] \in Seq(Names)
      <4>1. ~(k <= depth[m])
        BY <2>3, <3>3
      <4>2. depth[m] \notin bad
        BY <2>2, <4>1
      <4> QED
        BY <3>2, <4>2
    <3>5. <<m>> \in Seq(Names)
      BY <3>2
    <3> QED
      BY <3>1, <3>4, <3>5 DEF InOne
  <2>6. InPlace(flat, filters[n].filters) \in Seq(Names)
    BY <2>4, <2>5, InPlaceType
  <2> QED
    BY <1>7, <2>3, <2>6
<1>11. \A n \in Names : flat[n] \in Seq(Names)
  BY <1>10
<1>12. \A m \in Names : InOne(flat, m) \in Seq(Names)
  BY <1>11 DEF InOne
<1> QED
  BY <1>5, <1>7, <1>11, <1>12

(* Walking from s to t around a clock of d hours.                          *)
LEMMA AroundTheClock ==
    ASSUME NEW d \in Nat \ {0}, NEW s \in 0..(d - 1), NEW t \in 0..(d - 1)
    PROVE  (t - s) % d = IF s <= t THEN t - s ELSE t - s + d
<1> DEFINE x == t - s
           k == x \div d
           r == x % d
<1>1. k \in Int /\ x = d * k + r /\ r \in 0..(d - 1) /\ x \in Int
  OBVIOUS
<1>2. x >= -(d - 1) /\ x <= d - 1
  OBVIOUS
<1> HIDE DEF x, k, r
<1>3. k >= -1
  <2> SUFFICES ASSUME k <= -2 PROVE FALSE
    BY <1>1
  <2>1. d * k <= d * (-2)
    BY <1>1
  <2> QED
    BY <1>1, <1>2, <2>1
<1>4. k <= 0
  <2> SUFFICES ASSUME k >= 1 PROVE FALSE
    BY <1>1
  <2>1. d * k >= d * 1
    BY <1>1
  <2> QED
    BY <1>1, <1>2, <2>1
<1>5. CASE k = 0
  <2>1. d * k = 0
    BY <1>5
  <2>2. x = r /\ s <= t
    BY <1>1, <2>1 DEF x
  <2> QED
    BY <2>2 DEF x, r
<1>6. CASE k = -1
  <2>1. d * k = -d
    BY <1>6
  <2>2. r = x + d /\ ~(s <= t)
    BY <1>1, <2>1 DEF x
  <2> QED
    BY <2>2 DEF x, r
<1> QED
  BY <1>1, <1>3, <1>4, <1>5, <1>6

(* Where an interval goes through midnight, or ends where it starts.       *)
LEMMA IntervalIsMeant ==
    ASSUME NEW f, NEW moment \in Int, f.start \in 0..(Day - 1), f.end \in 0..(Day - 1), f.zone \in Int
    PROVE  MeantByTime(f, moment) <=> InInterval(f, TimeOfDay(f, moment))
<1> DEFINE t == TimeOfDay(f, moment)
           s == f.start
           z == f.end
<1>1. Day \in Nat \ {0} /\ t \in 0..(Day - 1)
  BY FilterAssumption DEF TimeOfDay
<1>2. s \in 0..(Day - 1) /\ z \in 0..(Day - 1)
  OBVIOUS
<1> HIDE DEF s, z, t
<1>3. /\ (t - s) % Day = IF s <= t THEN t - s ELSE t - s + Day
      /\ (z - s) % Day = IF s <= z THEN z - s ELSE z - s + Day
  BY <1>1, <1>2, AroundTheClock
<1>4. (t - s) % Day <= (z - s) % Day <=>
        IF s <= z THEN t >= s /\ t <= z ELSE t >= s \/ t <= z
  BY <1>1, <1>2, <1>3
<1> QED
  BY <1>4 DEF MeantByTime, InInterval, s, z, t

(* A constructor changes neither the kind nor the list of a section, and   *)
(* gives a time filter a start and an end.                                 *)
LEMMA BuiltAsSaid ==
    ASSUME NEW configs \in Configs, NEW n \in DOMAIN configs, ~RefusedSection(configs[n])
    PROVE  /\ BuildSection(configs[n]).kind = configs[n].kind
           /\ BuildSection(configs[n]).filters = configs[n].filters
           /\ BuildSection(configs[n]).zone = configs[n].zone
           /\ configs[n].kind = "time" =>
                {BuildSection(configs[n]).start, BuildSection(configs[n]).end} \subseteq 0..(Day - 1)
<1> DEFINE c == configs[n]
           o == FilterOptions(c)
<1>1. /\ {"kind", "onMatch", "onMismatch", "level", "rate", "burst", "start", "end", "zone",
          "filters"} \subseteq DOMAIN c
      /\ {c.start, c.end} \subseteq {Unset, Garbled} \cup 0..(Day - 1)
      /\ Day \in Nat \ {0}
      /\ Unset # Garbled /\ Garbled \notin 0..(Day - 1) /\ 0 \in 0..(Day - 1) /\ Day - 1 \in 0..(Day - 1)
      /\ ~RefusedSection(c)
  BY FilterAssumption
<1> HIDE DEF c
<1>2. /\ DOMAIN o = DOMAIN c /\ o.kind = c.kind /\ o.zone = c.zone /\ o.filters = c.filters
      /\ o.start = c.start /\ o.end = c.end
  BY <1>1 DEF FilterOptions
<1> HIDE DEF o
<1>3. /\ BuildSection(c).kind = c.kind
      /\ BuildSection(c).filters = c.filters
      /\ BuildSection(c).zone = c.zone
  BY <1>1, <1>2 DEF BuildSection, MapFilterOptions, BuildBurst, BuildDynamicThreshold, BuildTime, Maps, o
<1>4. c.kind = "time" => BuildSection(c) = BuildTime(o)
  BY DEF BuildSection, Maps, o
<1>5. ASSUME c.kind = "time" PROVE {BuildTime(o).start, BuildTime(o).end} \subseteq 0..(Day - 1)
  <2>0. BuildTime(o).kind = "time" /\ ~RefusedNumber(BuildTime(o))
    BY <1>1, <1>3, <1>4, <1>5 DEF RefusedSection
  <2>1. BuildTime(o).start = OrNumber(o.start, 0) /\ BuildTime(o).end = OrNumber(o.end, Day - 1)
    BY <1>1, <1>2 DEF BuildTime
  <2>2. BuildTime(o).start # Garbled /\ BuildTime(o).end # Garbled
    BY <2>0 DEF RefusedNumber
  <2>3. OrNumber(o.start, 0) \in 0..(Day - 1) /\ OrNumber(o.end, Day - 1) \in 0..(Day - 1)
    BY <1>1, <1>2, <2>1, <2>2 DEF OrNumber
  <2> QED
    BY <2>1, <2>3
<1> QED
  BY <1>3, <1>4, <1>5 DEF c

(* f is the solution that Flat is made from.                               *)
Spells(f) ==
    /\ Flat = f["chain"]
    /\ \A n \in Names : f[n] \in Seq(Names) /\ f[n] = InPlace(f, filters[n].filters)
    /\ \A m \in Names : InOne(f, m) \in Seq(Names)

(* What a filter may answer.                                               *)
Verdicts ==
    {"deny", "neutral"} \cup {filters[n].onMatch : n \in Names}
      \cup {filters[n].onMismatch : n \in Names} \cup {filters[n].onError : n \in Names}

Replies == Names \X Verdicts \X Int

Asked(t) == [i \in DOMAIN t |-> t[i][1]]

TimesAsMeant(t) ==
    \A i \in DOMAIN t : filters[t[i][1]].kind = "time" =>
      LET f == filters[t[i][1]] IN
      t[i][2] = IF MeantByTime(f, t[i][3]) THEN f.onMatch ELSE f.onMismatch

(* What a caller has asked is neutral but for the last; and inside the     *)
(* chains it has asked the beginning of what is written out, of which it   *)
(* has the rest in hand.                                                   *)
Walks(f, state, t) ==
    /\ DOMAIN state = {"event", "frames", "verdict"}
    /\ state.frames \in Seq(Seq(Names)) /\ t \in Seq(Replies)
    /\ state.frames # <<>> \/ t # <<>> => state.event \in Arrivals
    /\ TimesAsMeant(t)
    /\ \A i \in 1..(Len(t) - 1) : t[i][2] = "neutral"
    /\ t # <<>> => state.verdict = t[Len(t)][2]
    /\ state.frames # <<>> =>
         /\ Asked(t) \o Remaining(f, state.frames) = Flat
         /\ t # <<>> => t[Len(t)][2] = "neutral"
    /\ state.frames = <<>> /\ t # <<>> =>
         /\ Len(t) <= Len(Flat) /\ \A i \in DOMAIN t : t[i][1] = Flat[i]
         /\ t[Len(t)][2] = "neutral" => Len(t) = Len(Flat)

ChainInv ==
    /\ FiltersBuilt
    /\ DOMAIN caller = Callers /\ DOMAIN trace = Callers
    /\ \A f : Spells(f) => \A c \in Callers : Walks(f, caller[c], trace[c])

LEMMA ChainInit == FilterInit /\ filters # <<>> => ChainInv
<1> SUFFICES ASSUME FilterInit, filters # <<>> PROVE ChainInv
  OBVIOUS
<1>1. PICK configs \in Configs :
        /\ filters = [n \in DOMAIN configs |-> BuildSection(configs[n])]
        /\ \A n \in DOMAIN configs : ~RefusedSection(configs[n])
        /\ caller = [c \in Callers |-> [event |-> CHOOSE e \in Arrivals : TRUE, frames |-> <<>>,
                                        verdict |-> "neutral"]]
        /\ trace = [c \in Callers |-> <<>>]
  BY DEF FilterInit
<1>2. Names = DOMAIN configs /\ \A n \in Names : filters[n] = BuildSection(configs[n])
  BY <1>1 DEF Names
<1>3. ASSUME NEW n \in Names
      PROVE  /\ filters[n].kind = configs[n].kind
             /\ filters[n].filters = configs[n].filters
             /\ filters[n].filters \in Seq(Names)
             /\ filters[n].kind = "time" => /\ {filters[n].start, filters[n].end} \subseteq 0..(Day - 1)
                                            /\ filters[n].zone \in Int
  <2>1. /\ filters[n] = BuildSection(configs[n]) /\ n \in DOMAIN configs
        /\ ~RefusedSection(configs[n])
        /\ configs[n].filters \in Seq(Names) /\ configs[n].zone \in Int
    BY <1>1, <1>2, FilterAssumption
  <2> QED
    BY <2>1, BuiltAsSaid
<1>4. /\ IsFiniteSet(Names) /\ "chain" \in Names /\ filters["chain"].kind = "composite"
  BY <1>2, <1>3, FilterAssumption
<1>5. \E depth : Nested(depth)
  <2>1. PICK depth \in [DOMAIN configs -> 0..Cardinality(DOMAIN configs)] :
          \A n \in DOMAIN configs : \A m \in ToSet(configs[n].filters) : depth[m] < depth[n]
    BY FilterAssumption
  <2>2. Nested(depth)
    BY <1>2, <1>3, <2>1 DEF Nested
  <2> QED
    BY <2>2
<1>6. FiltersBuilt
  BY <1>3, <1>4, <1>5 DEF FiltersBuilt
<1>7. ASSUME NEW f, NEW c \in Callers PROVE Walks(f, caller[c], trace[c])
  <2>1. trace[c] = <<>> /\ caller[c].frames = <<>> /\ DOMAIN caller[c] = {"event", "frames", "verdict"}
    BY <1>1
  <2>2. <<>> \in Seq(Seq(Names)) /\ <<>> \in Seq(Replies) /\ DOMAIN <<>> = {} /\ Len(<<>>) = 0
    OBVIOUS
  <2>3. TimesAsMeant(<<>>)
    BY <2>2 DEF TimesAsMeant
  <2> QED
    BY <2>1, <2>2, <2>3 DEF Walks
<1> QED
  BY <1>1, <1>6, <1>7 DEF ChainInv

(* The invariant says what is meant.                                       *)
LEMMA WalkIsMeant ==
    ASSUME FiltersBuilt, NEW f, Spells(f), NEW c \in Callers, Walks(f, caller[c], trace[c])
    PROVE  LET t == trace[c]
               flat == Flat
           IN  /\ Len(t) <= Len(flat) /\ \A i \in DOMAIN t : t[i][1] = flat[i]
               /\ \A i \in 1..(Len(t) - 1) : t[i][2] = "neutral"
               /\ \A i \in DOMAIN t : filters[t[i][1]].kind = "time" =>
                    LET g == filters[t[i][1]] IN
                    t[i][2] = IF MeantByTime(g, t[i][3]) THEN g.onMatch ELSE g.onMismatch
               /\ caller[c].frames = <<>> /\ t # <<>> =>
                    /\ caller[c].verdict = Last(t)[2]
                    /\ Last(t)[2] = "neutral" => Len(t) = Len(flat)
<1> DEFINE t == trace[c]
           frames == caller[c].frames
<1>1. Flat \in Seq(Names)
  BY DEF Spells, FiltersBuilt
<1>2. t \in Seq(Replies) /\ frames \in Seq(Seq(Names))
  BY DEF Walks
<1>3. Asked(t) \in Seq(Names) /\ Len(Asked(t)) = Len(t) /\ DOMAIN Asked(t) = DOMAIN t
      /\ \A i \in DOMAIN t : Asked(t)[i] = t[i][1]
  <2>1. PICK n \in Nat : n = Len(t) /\ DOMAIN t = 1..n
    BY <1>2
  <2>2. Asked(t) = [i \in 1..n |-> t[i][1]] /\ \A i \in 1..n : t[i][1] \in Names
    <3>1. \A i \in 1..n : t[i] \in Replies
      BY <1>2, <2>1
    <3> QED
      BY <2>1, <3>1 DEF Asked, Replies
  <2>3. Asked(t) \in [1..n -> Names]
    BY <2>2
  <2> QED
    BY <2>1, <2>2, <2>3, FunctionIsSequence
<1>4. Len(t) <= Len(Flat) /\ \A i \in DOMAIN t : t[i][1] = Flat[i]
  <2>1. CASE frames # <<>>
    <3>1. Asked(t) \o Remaining(f, frames) = Flat
      BY <2>1 DEF Walks
    <3>2. Remaining(f, frames) \in Seq(Names)
      <4>1. /\ Remaining(f, frames) = InPlace(f, Head(frames)) \o Remaining(f, Tail(frames))
            /\ Remaining(f, Tail(frames)) \in Seq(Names)
            /\ InPlace(f, Head(frames)) \in Seq(Names)
        BY <1>2, <2>1, RemainingCons DEF Spells
      <4> QED
        BY <4>1
    <3>3. PICK a, r : a = Asked(t) /\ r = Remaining(f, frames)
      OBVIOUS
    <3>4. /\ a \in Seq(Names) /\ r \in Seq(Names) /\ Flat = a \o r
          /\ Len(a) = Len(t) /\ \A i \in DOMAIN t : a[i] = t[i][1]
      BY <1>3, <3>1, <3>2, <3>3
    <3> HIDE DEF t
    <3>5. a \in Seq(Names) /\ r \in Seq(Names)
      BY <3>4
    <3>6. /\ Len(a \o r) = Len(a) + Len(r) /\ Len(a) \in Nat /\ Len(r) \in Nat
          /\ \A i \in 1..Len(a) : (a \o r)[i] = a[i]
      BY <3>5
    <3>7. /\ Len(Flat) = Len(a) + Len(r) /\ Len(a) \in Nat /\ Len(r) \in Nat
          /\ \A i \in 1..Len(a) : Flat[i] = a[i]
      BY <3>4, <3>6, Zenon
    <3>8. DOMAIN t = 1..Len(t)
      BY <1>2
    <3> QED
      BY <3>4, <3>7, <3>8
  <2>2. CASE frames = <<>> /\ t # <<>>
    BY <2>2 DEF Walks
  <2>3. CASE t = <<>>
    <3>1. Len(t) = 0 /\ DOMAIN t = {} /\ Len(Flat) \in Nat
      BY <1>1, <2>3
    <3> QED
      BY <3>1
  <2> QED
    BY <2>1, <2>2, <2>3
<1>5. Last(t) = t[Len(t)]
  BY DEF Last
<1>6. TimesAsMeant(t)
  BY DEF Walks
<1>7. \A i \in DOMAIN t : filters[t[i][1]].kind = "time" =>
         LET g == filters[t[i][1]] IN
         t[i][2] = IF MeantByTime(g, t[i][3]) THEN g.onMatch ELSE g.onMismatch
  BY <1>6, Zenon DEF TimesAsMeant
<1> HIDE DEF t
<1>8. /\ \A i \in 1..(Len(t) - 1) : t[i][2] = "neutral"
      /\ caller[c].frames = <<>> /\ t # <<>> =>
           /\ caller[c].verdict = Last(t)[2]
           /\ Last(t)[2] = "neutral" => Len(t) = Len(Flat)
  BY <1>5 DEF Walks, t
<1> QED
  BY <1>4, <1>7, <1>8 DEF t

(* Nothing changes the filters, nor what is said of them.                  *)
LEMMA SameFilters ==
    ASSUME filters' = filters, NEW f
    PROVE  /\ Names' = Names /\ Verdicts' = Verdicts /\ Flat' = Flat
           /\ FiltersBuilt' <=> FiltersBuilt
           /\ \A l : InPlace(f, l)' = InPlace(f, l)
           /\ \A l : Remaining(f, l)' = Remaining(f, l)
           /\ \A m : InOne(f, m)' = InOne(f, m)
           /\ \A t : TimesAsMeant(t)' <=> TimesAsMeant(t)
<1>1. Flat' = Flat
  BY ZenonT(60) DEF Flat
<1>2. Names' = Names /\ Verdicts' = Verdicts
  BY DEF Names, Verdicts
<1>3. FiltersBuilt' <=> FiltersBuilt
  <2>1. \A depth : Nested(depth)' <=> Nested(depth)
    BY <1>2 DEF Nested
  <2> QED
    BY <1>2, <2>1 DEF FiltersBuilt
<1>4. \A l : InPlace(f, l)' = InPlace(f, l)
  BY Zenon DEF InPlace, InOne
<1>5. \A l : Remaining(f, l)' = Remaining(f, l)
  BY DEF Remaining, InPlace, InOne
<1>6. \A m : InOne(f, m)' = InOne(f, m)
  BY DEF InOne
<1>7. \A t : TimesAsMeant(t)' <=> TimesAsMeant(t)
  BY DEF TimesAsMeant, MeantByTime, TimeOfDay
<1> QED
  BY <1>1, <1>2, <1>3, <1>4, <1>5, <1>6, <1>7

LEMMA SpellsStays ==
    ASSUME filters' = filters, NEW f
    PROVE  Spells(f)' <=> Spells(f)
<1>1. /\ Names' = Names /\ Flat' = Flat
      /\ \A l : InPlace(f, l)' = InPlace(f, l)
      /\ \A m : InOne(f, m)' = InOne(f, m)
  BY SameFilters
<1> QED
  BY <1>1 DEF Spells

LEMMA WalksStays ==
    ASSUME filters' = filters, NEW f
    PROVE  \A x, t : Walks(f, x, t)' <=> Walks(f, x, t)
<1> TAKE x, t
<1>1. /\ Names' = Names /\ Verdicts' = Verdicts /\ Flat' = Flat
      /\ Remaining(f, x.frames)' = Remaining(f, x.frames)
      /\ TimesAsMeant(t)' <=> TimesAsMeant(t)
  BY SameFilters
<1> QED
  BY <1>1, Zenon DEF Walks, Asked, Replies

(* A turn of one caller.                                                   *)
LEMMA ChainTurn ==
    ASSUME ChainInv, filters' = filters, NEW c \in Callers, NEW x, NEW t,
           caller' = [caller EXCEPT ![c] = x],
           (trace' = trace /\ t = trace[c]) \/ trace' = [trace EXCEPT ![c] = t],
           \A f : Spells(f) /\ Walks(f, caller[c], trace[c]) => Walks(f, x, t)
    PROVE  ChainInv'
<1>1. FiltersBuilt'
  BY SameFilters DEF ChainInv
<1>2. DOMAIN caller' = Callers /\ DOMAIN trace' = Callers
      /\ caller'[c] = x /\ trace'[c] = t
      /\ \A d \in Callers : d # c => caller'[d] = caller[d] /\ trace'[d] = trace[d]
  BY DEF ChainInv
<1>3. ASSUME NEW f, Spells(f)' , NEW d \in Callers
      PROVE  Walks(f, caller[d], trace[d])'
  <2>1. Spells(f)
    BY <1>3, SpellsStays
  <2>2. PICK y, u : y = caller'[d] /\ u = trace'[d]
    OBVIOUS
  <2>3. Walks(f, y, u)
    <3>1. CASE d = c
      <4>1. Walks(f, caller[c], trace[c])
        BY <2>1 DEF ChainInv
      <4> QED
        BY <1>2, <2>1, <2>2, <3>1, <4>1
    <3>2. CASE d # c
      <4>1. Walks(f, caller[d], trace[d])
        BY <2>1 DEF ChainInv
      <4> QED
        BY <1>2, <2>2, <3>2, <4>1
    <3> QED
      BY <3>1, <3>2
  <2>4. Walks(f, y, u)'
    BY <2>3, WalksStays
  <2> QED
    BY <2>2, <2>4, Zenon
<1> QED
  BY <1>1, <1>2, <1>3 DEF ChainInv

LEMMA InFront ==
    ASSUME NEW S, NEW k \in S, NEW rest \in Seq(S)
    PROVE  LET l == <<k>> \o rest IN
           l \in Seq(S) /\ l # <<>> /\ Head(l) = k /\ Tail(l) = rest
<1>1. PICK l : l = <<k>> \o rest
  OBVIOUS
<1>2. /\ l \in Seq(S) /\ Len(l) = Len(rest) + 1 /\ l[1] = k
      /\ \A i \in 1..Len(rest) : l[i + 1] = rest[i]
  BY <1>1
<1>3. l # <<>> /\ Head(l) = k
  BY <1>2
<1>4. Tail(l) = rest
  <2>1. PICK t : t = Tail(l)
    OBVIOUS
  <2>2. t \in Seq(S) /\ Len(t) = Len(rest) /\ \A i \in 1..Len(t) : t[i] = l[i + 1]
    BY <1>2, <1>3, <2>1
  <2>3. \A i \in 1..Len(t) : t[i] = rest[i]
    BY <1>2, <2>2
  <2> QED
    BY <2>1, <2>2, <2>3, SeqEqual
<1> QED
  BY <1>1, <1>2, <1>3, <1>4

(* What a list of lists has left when one is entered, asked or done.       *)
LEMMA FrameFacts ==
    ASSUME NEW f, Spells(f), FiltersBuilt, NEW frames \in Seq(Seq(Names)), frames # <<>>
    PROVE  /\ Head(frames) \in Seq(Names) /\ Tail(frames) \in Seq(Seq(Names))
           /\ Head(frames) = <<>> => Remaining(f, frames) = Remaining(f, Tail(frames))
           /\ Head(frames) # <<>> =>
                LET m == Head(Head(frames)) IN
                /\ m \in Names /\ Rest(frames) \in Seq(Seq(Names)) /\ Rest(frames) # <<>>
                /\ Remaining(f, Rest(frames)) \in Seq(Names)
                /\ Remaining(f, frames) = InOne(f, m) \o Remaining(f, Rest(frames))
                /\ filters[m].kind = "composite" =>
                     /\ filters[m].filters \in Seq(Names)
                     /\ <<filters[m].filters>> \o Rest(frames) \in Seq(Seq(Names))
                     /\ Remaining(f, <<filters[m].filters>> \o Rest(frames)) = Remaining(f, frames)
<1> DEFINE hd == Head(frames)
           tl == Tail(frames)
<1>0. \A m \in Names : InOne(f, m) \in Seq(Names)
  BY DEF Spells
<1>1. hd \in Seq(Names) /\ tl \in Seq(Seq(Names))
  OBVIOUS
<1>2. /\ Remaining(f, frames) = InPlace(f, hd) \o Remaining(f, tl)
      /\ Remaining(f, tl) \in Seq(Names)
      /\ InPlace(f, hd) \in Seq(Names)
  BY <1>0, RemainingCons
<1>3. ASSUME hd = <<>> PROVE Remaining(f, frames) = Remaining(f, tl)
  <2>1. InPlace(f, hd) = <<>>
    BY <1>3, InPlaceNone, Zenon
  <2>2. PICK r : r = Remaining(f, tl) /\ r \in Seq(Names)
    BY <1>2
  <2>3. <<>> \o r = r
    BY <2>2
  <2> QED
    BY <1>2, <2>1, <2>2, <2>3
<1>4. ASSUME hd # <<>>
      PROVE  LET m == Head(hd) IN
                /\ m \in Names /\ Rest(frames) \in Seq(Seq(Names)) /\ Rest(frames) # <<>>
                /\ Remaining(f, Rest(frames)) \in Seq(Names)
                /\ Remaining(f, frames) = InOne(f, m) \o Remaining(f, Rest(frames))
                /\ filters[m].kind = "composite" =>
                     /\ filters[m].filters \in Seq(Names)
                     /\ <<filters[m].filters>> \o Rest(frames) \in Seq(Seq(Names))
                     /\ Remaining(f, <<filters[m].filters>> \o Rest(frames)) = Remaining(f, frames)
  <2>1. PICK m, l, rest : m = Head(hd) /\ l = Tail(hd) /\ rest = <<l>> \o tl
    OBVIOUS
  <2>2. m \in Names /\ l \in Seq(Names) /\ rest = Rest(frames)
    <3>1. rest = Rest(frames)
      BY <2>1, Zenon DEF Rest
    <3> HIDE DEF hd
    <3>2. m \in Names /\ l \in Seq(Names)
      BY <1>1, <1>4, <2>1
    <3> QED
      BY <3>1, <3>2
  <2>3. rest \in Seq(Seq(Names)) /\ rest # <<>> /\ Head(rest) = l /\ Tail(rest) = tl
    <3>1. PICK S : S = Seq(Names)
      OBVIOUS
    <3> HIDE DEF tl
    <3>2. l \in S /\ tl \in Seq(S)
      BY <1>1, <2>2, <3>1
    <3>3. LET r == <<l>> \o tl IN r \in Seq(S) /\ r # <<>> /\ Head(r) = l /\ Tail(r) = tl
      BY <3>2, InFront
    <3> QED
      BY <2>1, <3>1, <3>3, Zenon
  <2>4. /\ Remaining(f, rest) = InPlace(f, l) \o Remaining(f, tl)
        /\ InPlace(f, l) \in Seq(Names)
    <3>1. /\ Remaining(f, rest) = InPlace(f, Head(rest)) \o Remaining(f, Tail(rest))
          /\ InPlace(f, Head(rest)) \in Seq(Names)
      BY <1>0, <2>3, RemainingCons
    <3> QED
      BY <2>3, <3>1
  <2>5. InPlace(f, hd) = InOne(f, m) \o InPlace(f, l)
    <3>1. \A i \in DOMAIN hd : InOne(f, hd[i]) \in Seq(Names)
      BY <1>0, <1>1
    <3> HIDE DEF hd
    <3> QED
      BY <1>1, <1>4, <2>1, <3>1, InPlaceCons
  <2>6. Remaining(f, rest) \in Seq(Names) /\ Remaining(f, frames) = InOne(f, m) \o Remaining(f, rest)
    <3>1. PICK x, y, z : x = InOne(f, m) /\ y = InPlace(f, l) /\ z = Remaining(f, tl)
      OBVIOUS
    <3>2. x \in Seq(Names) /\ y \in Seq(Names) /\ z \in Seq(Names)
      BY <1>0, <1>2, <2>2, <2>4, <3>1
    <3>3. (x \o y) \o z = x \o (y \o z) /\ y \o z \in Seq(Names)
      <4>1. Associates(Names)
        BY ConcatsAssociate, Zenon
      <4>2. (x \o y) \o z = x \o (y \o z)
        BY <3>2, <4>1, Zenon DEF Associates
      <4>3. y \o z \in Seq(Names)
        BY <3>2
      <4> QED
        BY <4>2, <4>3
    <3> QED
      BY <1>2, <2>4, <2>5, <3>1, <3>3
  <2>7. ASSUME filters[m].kind = "composite"
        PROVE  /\ filters[m].filters \in Seq(Names)
               /\ <<filters[m].filters>> \o rest \in Seq(Seq(Names))
               /\ Remaining(f, <<filters[m].filters>> \o rest) = Remaining(f, frames)
    <3>1. PICK k, more : k = filters[m].filters /\ more = <<k>> \o rest
      OBVIOUS
    <3>2. k \in Seq(Names)
      BY <2>2, <3>1 DEF FiltersBuilt
    <3>3. more \in Seq(Seq(Names)) /\ more # <<>> /\ Head(more) = k /\ Tail(more) = rest
      <4>1. PICK S : S = Seq(Names)
        OBVIOUS
      <4>2. k \in S /\ rest \in Seq(S)
        BY <2>3, <3>2, <4>1
      <4>3. LET l1 == <<k>> \o rest IN l1 \in Seq(S) /\ l1 # <<>> /\ Head(l1) = k /\ Tail(l1) = rest
        BY <4>2, InFront
      <4> QED
        BY <3>1, <4>1, <4>3, Zenon
    <3>4. Remaining(f, more) = InPlace(f, Head(more)) \o Remaining(f, Tail(more))
      BY <1>0, <3>3, RemainingCons
    <3>5. InPlace(f, k) = InOne(f, m)
      BY <2>2, <2>7, <3>1 DEF Spells, InOne
    <3> QED
      BY <2>6, <3>1, <3>2, <3>3, <3>4, <3>5
  <2> QED
    BY <2>1, <2>2, <2>3, <2>6, <2>7
<1> QED
  BY <1>1, <1>3, <1>4

LEMMA DecideFacts ==
    ASSUME FiltersBuilt, NEW m \in Names, NEW e \in Arrivals, NEW b, now \in Int
    PROVE  LET g == filters[m]
               v == Decide(g, e, b)
           IN  /\ v \in Verdicts
               /\ g.kind = "time" => v = IF MeantByTime(g, Moment(e, now)) THEN g.onMatch ELSE g.onMismatch
<1> DEFINE g == filters[m]
           v == Decide(g, e, b)
<1>1. {"deny", "neutral", g.onMatch, g.onMismatch, g.onError} \subseteq Verdicts
  BY DEF Verdicts
<1>2. PICK h : h = g
  OBVIOUS
<1>3. Decide(h, e, b) \in {"deny", "neutral", h.onMatch, h.onMismatch, h.onError}
  <2>1. DecideScript(h, e) \in {h.onMatch, h.onMismatch, h.onError}
    BY DEF DecideScript
  <2> QED
    BY <2>1 DEF Decide
<1>4. ASSUME h.kind = "time"
      PROVE  Decide(h, e, b) = IF MeantByTime(h, Moment(e, now)) THEN h.onMatch ELSE h.onMismatch
  <2>1. Decide(h, e, b) = IF Matches(h, e) THEN h.onMatch ELSE h.onMismatch
    BY <1>4 DEF Decide
  <2>2. Matches(h, e) <=> InInterval(h, TimeOfDay(h, Moment(e, now)))
    BY <1>4 DEF Matches, Maps
  <2>3. {h.start, h.end} \subseteq 0..(Day - 1) /\ h.zone \in Int
    BY <1>2, <1>4 DEF FiltersBuilt
  <2>4. Moment(e, now) \in Int
    BY FilterAssumption DEF Moment, OrNumber
  <2>5. MeantByTime(h, Moment(e, now)) <=> InInterval(h, TimeOfDay(h, Moment(e, now)))
    BY <2>3, <2>4, IntervalIsMeant
  <2> QED
    BY <2>1, <2>2, <2>5
<1> QED
  BY <1>1, <1>2, <1>3, <1>4

(* One more answer.                                                        *)
LEMMA AskedIs ==
    ASSUME NEW t \in Seq(Replies)
    PROVE  /\ Asked(t) \in Seq(Names) /\ Len(Asked(t)) = Len(t)
           /\ \A i \in DOMAIN t : Asked(t)[i] = t[i][1]
<1>1. PICK n \in Nat : n = Len(t) /\ DOMAIN t = 1..n
  OBVIOUS
<1>2. \A i \in 1..n : t[i] \in Replies
  BY <1>1
<1>3. Asked(t) = [i \in 1..n |-> t[i][1]] /\ \A i \in 1..n : t[i][1] \in Names
  BY <1>1, <1>2 DEF Asked, Replies
<1>4. Asked(t) \in [1..n -> Names]
  BY <1>3
<1> QED
  BY <1>1, <1>3, <1>4, FunctionIsSequence

LEMMA AskedMore ==
    ASSUME NEW t \in Seq(Replies), NEW m \in Names, NEW v \in Verdicts, NEW moment \in Int
    PROVE  /\ Asked(t) \in Seq(Names) /\ Len(Asked(t)) = Len(t)
           /\ Asked(Append(t, <<m, v, moment>>)) = Asked(t) \o <<m>>
           /\ Append(t, <<m, v, moment>>) \in Seq(Replies)
<1>1. PICK n \in Nat : n = Len(t) /\ DOMAIN t = 1..n
  OBVIOUS
<1>2. \A i \in 1..n : t[i][1] \in Names
  BY <1>1 DEF Replies
<1> DEFINE a == Asked(t)
           u == Append(t, <<m, v, moment>>)
<1>3. a = [i \in 1..n |-> t[i][1]]
  BY <1>1 DEF Asked
<1>4. a \in [1..n -> Names]
  BY <1>2, <1>3
<1>5. a \in Seq(Names) /\ Len(a) = n /\ DOMAIN a = 1..n
  <2> HIDE DEF a
  <2> QED
    BY <1>4, FunctionIsSequence
<1>6. /\ u \in Seq(Replies) /\ DOMAIN u = 1..(n + 1)
      /\ \A i \in 1..n : u[i] = t[i]
      /\ u[n + 1] = <<m, v, moment>>
  <2>1. <<m, v, moment>> \in Replies
    BY DEF Replies
  <2> QED
    BY <1>1, <2>1
<1>7. \A i \in 1..n : a[i] = t[i][1]
  BY <1>3
<1> HIDE DEF a, u
<1>8. /\ a \o <<m>> \in Seq(Names) /\ DOMAIN (a \o <<m>>) = 1..(n + 1)
      /\ \A i \in 1..n : (a \o <<m>>)[i] = a[i]
      /\ (a \o <<m>>)[n + 1] = m
  BY <1>5
<1>9. Asked(u) = [i \in 1..(n + 1) |-> u[i][1]]
  BY <1>6 DEF Asked
<1>10. \A i \in 1..(n + 1) : u[i][1] = (a \o <<m>>)[i]
  <2> TAKE i \in 1..(n + 1)
  <2>1. CASE i = n + 1
    BY <1>6, <1>8, <2>1
  <2>2. CASE i # n + 1
    <3>1. i \in 1..n
      BY <2>2
    <3> QED
      BY <1>6, <1>7, <1>8, <3>1
  <2> QED
    BY <2>1, <2>2
<1>11. a \o <<m>> = [i \in 1..(n + 1) |-> (a \o <<m>>)[i]]
  BY <1>8
<1>12. Asked(u) = a \o <<m>>
  <2> DEFINE z == a \o <<m>>
  <2> HIDE DEF z
  <2>1. Asked(u) = [i \in 1..(n + 1) |-> z[i]]
    BY <1>9, <1>10 DEF z
  <2> QED
    BY <1>11, <2>1 DEF z
<1> QED
  BY <1>1, <1>5, <1>6, <1>12 DEF a, u

LEMMA ChainBegins ==
    ASSUME ChainInv, NEW f, Spells(f), NEW e \in Arrivals
    PROVE  Walks(f, [event |-> e, frames |-> <<filters["chain"].filters>>, verdict |-> "neutral"], <<>>)
<1> DEFINE x == [event |-> e, frames |-> <<filters["chain"].filters>>, verdict |-> "neutral"]
<1>1. PICK k : k = filters["chain"].filters
  OBVIOUS
<1>2. k \in Seq(Names) /\ "chain" \in Names
  BY <1>1 DEF ChainInv, FiltersBuilt
<1>3. /\ <<k>> \in Seq(Seq(Names)) /\ <<k>> # <<>> /\ Head(<<k>>) = k /\ Tail(<<k>>) = <<>>
  BY <1>2
<1>4. Remaining(f, <<k>>) = InPlace(f, k) \o Remaining(f, <<>>) /\ InPlace(f, k) \in Seq(Names)
  <2>1. /\ Remaining(f, <<k>>) = InPlace(f, Head(<<k>>)) \o Remaining(f, Tail(<<k>>))
        /\ InPlace(f, Head(<<k>>)) \in Seq(Names)
    BY <1>3, RemainingCons DEF Spells
  <2> QED
    BY <1>3, <2>1
<1>5. Remaining(f, <<>>) = <<>>
  BY RemainingNone, Zenon
<1>6. InPlace(f, k) = Flat
  BY <1>1, <1>2 DEF Spells
<1>7. PICK r : r = InPlace(f, k)
  OBVIOUS
<1>8. r \in Seq(Names) /\ r \o <<>> = r /\ <<>> \o r = r
  <2>1. r \in Seq(Names)
    BY <1>4, <1>7
  <2> QED
    BY <2>1
<1>9. <<>> \o Remaining(f, <<k>>) = Flat
  BY <1>4, <1>5, <1>6, <1>7, <1>8
<1>10. /\ x.event = e /\ x.frames = <<k>> /\ DOMAIN x = {"event", "frames", "verdict"}
       /\ <<>> \in Seq(Replies) /\ DOMAIN <<>> = {} /\ Len(<<>>) = 0
  BY <1>1
<1>11. Asked(<<>>) = <<>> /\ TimesAsMeant(<<>>)
  BY <1>10 DEF Asked, TimesAsMeant
<1> HIDE DEF x
<1>12. Walks(f, x, <<>>)
  <2>1. PICK t : t = <<>>
    OBVIOUS
  <2>2. /\ DOMAIN x = {"event", "frames", "verdict"} /\ x.frames \in Seq(Seq(Names)) /\ x.frames # <<>>
        /\ t \in Seq(Replies) /\ x.event \in Arrivals
    BY <1>3, <1>10, <2>1
  <2>3. TimesAsMeant(t)
    BY <1>10, <1>11, <2>1
  <2>4. \A i \in 1..(Len(t) - 1) : t[i][2] = "neutral"
    <3>1. 1..(Len(t) - 1) = {}
      BY <1>10, <2>1
    <3> QED
      BY <3>1
  <2>5. Asked(t) \o Remaining(f, x.frames) = Flat
    BY <1>9, <1>10, <1>11, <2>1
  <2>6. Walks(f, x, t)
    BY <2>1, <2>2, <2>3, <2>4, <2>5 DEF Walks
  <2> QED
    BY <2>1, <2>6
<1> QED
  BY <1>12 DEF x

(* A caller that goes into a composite, or out of one, has as much left.   *)
LEMMA ChainMoves ==
    ASSUME NEW f, Spells(f), FiltersBuilt, NEW x, NEW t, Walks(f, x, t), x.frames # <<>>,
           NEW y, DOMAIN y = {"event", "frames", "verdict"}, y.event = x.event,
           y.verdict = x.verdict, y.frames \in Seq(Seq(Names)),
           Remaining(f, y.frames) = Remaining(f, x.frames)
    PROVE  Walks(f, y, t)
<1>1. CASE y.frames # <<>>
  BY <1>1 DEF Walks
<1>2. CASE y.frames = <<>>
  <2>1. Remaining(f, y.frames) = <<>>
    BY <1>2, RemainingNone, Zenon
  <2>2. t \in Seq(Replies) /\ Asked(t) \o Remaining(f, x.frames) = Flat
    BY DEF Walks
  <2>3. /\ Asked(t) \in Seq(Names) /\ Len(Asked(t)) = Len(t)
        /\ \A i \in DOMAIN t : Asked(t)[i] = t[i][1]
    BY <2>2, AskedIs
  <2>4. Asked(t) = Flat
    <3>1. PICK a : a = Asked(t)
      OBVIOUS
    <3>2. a \in Seq(Names)
      BY <2>3, <3>1
    <3>3. a \o <<>> = a
      BY <3>2
    <3> QED
      BY <2>1, <2>2, <3>1, <3>3
  <2>5. Len(t) = Len(Flat) /\ Len(t) \in Nat /\ \A i \in DOMAIN t : t[i][1] = Flat[i]
    BY <2>2, <2>3, <2>4
  <2> QED
    BY <1>2, <2>5 DEF Walks
<1> QED
  BY <1>1, <1>2

LEMMA ChainWaits ==
    ASSUME ChainInv, filters' = filters, caller' = caller, trace' = trace
    PROVE  ChainInv'
<1>1. FiltersBuilt'
  BY SameFilters DEF ChainInv
<1>2. ASSUME NEW f, Spells(f)', NEW d \in Callers PROVE Walks(f, caller[d], trace[d])'
  <2>1. Spells(f)
    BY <1>2, SpellsStays
  <2>2. PICK y, u : y = caller'[d] /\ u = trace'[d]
    OBVIOUS
  <2>3. Walks(f, y, u)
    BY <2>1, <2>2 DEF ChainInv
  <2>4. Walks(f, y, u)'
    BY <2>3, WalksStays
  <2> QED
    BY <2>2, <2>4, Zenon
<1> QED
  BY <1>1, <1>2 DEF ChainInv

LEMMA ApplyChainStep ==
    ASSUME ChainInv, NEW c \in Callers, NEW e \in Arrivals, ApplyChain(c, e)
    PROVE  ChainInv'
<1>1. PICK x, t :
        /\ x = [event |-> e, frames |-> <<filters["chain"].filters>>, verdict |-> "neutral"]
        /\ t = <<>>
  OBVIOUS
<1>2. filters' = filters /\ caller' = [caller EXCEPT ![c] = x] /\ trace' = [trace EXCEPT ![c] = t]
  BY <1>1 DEF ApplyChain
<1>3. \A f : Spells(f) => Walks(f, x, t)
  BY <1>1, ChainBegins
<1> QED
  BY <1>2, <1>3, ChainTurn

(* Moving between chains is all ChainEnds and EnterComposite do.           *)
LEMMA MovesStep ==
    ASSUME ChainInv, NEW c \in Callers, NEW frames,
           caller[c].frames # <<>>, filters' = filters, trace' = trace,
           caller' = [caller EXCEPT ![c].frames = frames],
           \A f : Spells(f) /\ Walks(f, caller[c], trace[c]) =>
                    /\ frames \in Seq(Seq(Names))
                    /\ Remaining(f, frames) = Remaining(f, caller[c].frames)
    PROVE  ChainInv'
<1>1. PICK x, t : x = [caller[c] EXCEPT !.frames = frames] /\ t = trace[c]
  OBVIOUS
<1>2. caller' = [caller EXCEPT ![c] = x]
  BY <1>1 DEF ChainInv
<1>3. ASSUME NEW f, Spells(f), Walks(f, caller[c], trace[c]) PROVE Walks(f, x, t)
  <2>1. DOMAIN caller[c] = {"event", "frames", "verdict"}
    BY <1>3 DEF Walks
  <2>2. /\ DOMAIN x = {"event", "frames", "verdict"} /\ x.event = caller[c].event
        /\ x.verdict = caller[c].verdict /\ x.frames = frames
    BY <1>1, <2>1
  <2>3. FiltersBuilt /\ Walks(f, caller[c], t)
    BY <1>1, <1>3 DEF ChainInv
  <2>4. frames \in Seq(Seq(Names)) /\ Remaining(f, x.frames) = Remaining(f, caller[c].frames)
    BY <1>3, <2>2
  <2> QED
    BY <1>3, <2>2, <2>3, <2>4, ChainMoves
<1> QED
  BY <1>1, <1>2, <1>3, ChainTurn

LEMMA ChainEndsStep ==
    ASSUME ChainInv, NEW c \in Callers, ChainEnds(c)
    PROVE  ChainInv'
<1>1. PICK held, frames : held = caller[c].frames /\ frames = Tail(held)
  OBVIOUS
<1>2. /\ held # <<>> /\ Head(held) = <<>> /\ filters' = filters /\ trace' = trace
      /\ caller' = [caller EXCEPT ![c].frames = frames]
  BY <1>1 DEF ChainEnds
<1>3. ASSUME NEW f, Spells(f), Walks(f, caller[c], trace[c])
      PROVE  frames \in Seq(Seq(Names)) /\ Remaining(f, frames) = Remaining(f, held)
  <2>1. held \in Seq(Seq(Names)) /\ FiltersBuilt
    BY <1>1, <1>3 DEF Walks, ChainInv
  <2> QED
    BY <1>1, <1>2, <1>3, <2>1, FrameFacts
<1> QED
  BY <1>1, <1>2, <1>3, MovesStep

LEMMA EnterCompositeStep ==
    ASSUME ChainInv, NEW c \in Callers, EnterComposite(c)
    PROVE  ChainInv'
<1>1. PICK held, m, frames :
        /\ held = caller[c].frames /\ m = Head(Head(held))
        /\ frames = <<filters[m].filters>> \o Rest(held)
  OBVIOUS
<1>2. /\ held # <<>> /\ Head(held) # <<>> /\ filters' = filters /\ trace' = trace
      /\ filters[m].kind = "composite"
      /\ caller' = [caller EXCEPT ![c].frames = frames]
  BY <1>1 DEF EnterComposite
<1>3. ASSUME NEW f, Spells(f), Walks(f, caller[c], trace[c])
      PROVE  frames \in Seq(Seq(Names)) /\ Remaining(f, frames) = Remaining(f, held)
  <2>1. held \in Seq(Seq(Names)) /\ FiltersBuilt
    BY <1>1, <1>3 DEF Walks, ChainInv
  <2> QED
    BY <1>1, <1>2, <1>3, <2>1, FrameFacts
<1> QED
  BY <1>1, <1>2, <1>3, MovesStep

(* A filter asked, its answer told, and what is left without it.           *)
LEMMA WalksOn ==
    ASSUME FiltersBuilt, NEW f, Spells(f), NEW x, NEW t, Walks(f, x, t),
           x.frames # <<>>, Head(x.frames) # <<>>,
           NEW m, m = Head(Head(x.frames)), filters[m].kind # "composite",
           now \in Int, NEW b, NEW v, v = Decide(filters[m], x.event, b),
           NEW moment, moment = Moment(x.event, now)
    PROVE  Walks(f, [event |-> x.event, frames |-> After(x.frames, v), verdict |-> v],
                 Append(t, <<m, v, moment>>))
<1>1. PICK frames, rest, y, u :
        /\ frames = x.frames /\ rest = Rest(frames) /\ u = Append(t, <<m, v, moment>>)
        /\ y = [event |-> x.event, frames |-> After(frames, v), verdict |-> v]
  OBVIOUS
<1>2. /\ frames \in Seq(Seq(Names)) /\ frames # <<>> /\ Head(frames) # <<>>
      /\ m = Head(Head(frames)) /\ t \in Seq(Replies)
      /\ x.event \in Arrivals /\ TimesAsMeant(t)
      /\ Asked(t) \o Remaining(f, frames) = Flat
      /\ \A i \in 1..(Len(t) - 1) : t[i][2] = "neutral"
      /\ t # <<>> => t[Len(t)][2] = "neutral"
  BY <1>1 DEF Walks
<1>3. /\ m \in Names /\ rest \in Seq(Seq(Names)) /\ rest # <<>>
      /\ Remaining(f, rest) \in Seq(Names)
      /\ Remaining(f, frames) = InOne(f, m) \o Remaining(f, rest)
  <2>1. LET k == Head(Head(frames)) IN
        /\ k \in Names /\ Rest(frames) \in Seq(Seq(Names)) /\ Rest(frames) # <<>>
        /\ Remaining(f, Rest(frames)) \in Seq(Names)
        /\ Remaining(f, frames) = InOne(f, k) \o Remaining(f, Rest(frames))
    BY <1>2, FrameFacts
  <2> QED
    BY <1>1, <1>2, <2>1
<1>4. InOne(f, m) = <<m>>
  BY DEF InOne
<1>0. moment \in Int
  BY <1>2, FilterAssumption DEF Moment, OrNumber
<1>5. /\ v \in Verdicts /\ moment \in Int
      /\ filters[m].kind = "time" =>
           v = IF MeantByTime(filters[m], moment) THEN filters[m].onMatch ELSE filters[m].onMismatch
  BY <1>0, <1>2, <1>3, DecideFacts
<1>6. Asked(u) = Asked(t) \o <<m>> /\ Asked(t) \in Seq(Names) /\ u \in Seq(Replies)
  BY <1>1, <1>2, <1>3, <1>5, AskedMore
<1>7. /\ Asked(u) \in Seq(Names) /\ Len(Asked(u)) = Len(u)
      /\ \A i \in DOMAIN u : Asked(u)[i] = u[i][1]
  BY <1>6, AskedIs
<1>8. Asked(u) \o Remaining(f, rest) = Flat
  <2>1. PICK a, o, r : a = Asked(t) /\ o = <<m>> /\ r = Remaining(f, rest)
    OBVIOUS
  <2>2. a \in Seq(Names) /\ o \in Seq(Names) /\ r \in Seq(Names)
    BY <1>3, <1>6, <2>1
  <2>3. (a \o o) \o r = a \o (o \o r)
    <3>1. Associates(Names)
      BY ConcatsAssociate, Zenon
    <3> QED
      BY <2>2, <3>1 DEF Associates
  <2>4. a \o (o \o r) = Flat /\ Asked(u) = a \o o
    BY <1>2, <1>3, <1>4, <1>6, <2>1
  <2> QED
    BY <2>1, <2>3, <2>4
<1>9. /\ Len(u) <= Len(Flat) /\ \A i \in DOMAIN u : u[i][1] = Flat[i]
  <2>1. PICK a, r : a = Asked(u) /\ r = Remaining(f, rest)
    OBVIOUS
  <2>2. a \in Seq(Names) /\ r \in Seq(Names) /\ a \o r = Flat
    BY <1>3, <1>7, <1>8, <2>1
  <2>3. /\ Len(a \o r) = Len(a) + Len(r) /\ Len(a) \in Nat /\ Len(r) \in Nat
        /\ \A i \in 1..Len(a) : (a \o r)[i] = a[i]
    BY <2>2
  <2>4. DOMAIN u = 1..Len(u) /\ Len(u) = Len(a) /\ \A i \in DOMAIN u : a[i] = u[i][1]
    BY <1>6, <1>7, <2>1
  <2> QED
    BY <2>2, <2>3, <2>4
<1>10. PICK n \in Nat : n = Len(t) /\ DOMAIN t = 1..n
  BY <1>2
<1>11. /\ DOMAIN u = 1..(n + 1) /\ Len(u) = n + 1 /\ u[n + 1] = <<m, v, moment>> /\ u # <<>>
       /\ \A i \in 1..n : u[i] = t[i]
  <2>1. PICK S, w : S = Replies /\ w = <<m, v, moment>>
    OBVIOUS
  <2>2. w \in S /\ t \in Seq(S) /\ u = Append(t, w)
    BY <1>1, <1>2, <1>3, <1>5, <2>1 DEF Replies
  <2>3. /\ DOMAIN u = 1..(n + 1) /\ Len(u) = n + 1 /\ u[n + 1] = w /\ u # <<>>
        /\ \A i \in 1..n : u[i] = t[i]
    BY <1>10, <2>2
  <2> QED
    BY <2>1, <2>3
<1>12. \A i \in 1..(Len(u) - 1) : u[i][2] = "neutral"
  <2> TAKE i \in 1..(Len(u) - 1)
  <2>1. i \in 1..n /\ u[i] = t[i] /\ Len(t) = n
    BY <1>10, <1>11
  <2>2. CASE i = n
    <3>1. t # <<>>
      BY <1>10, <2>1
    <3> QED
      BY <1>2, <2>1, <2>2, <3>1
  <2>3. CASE i # n
    <3>1. i \in 1..(Len(t) - 1)
      BY <2>1, <2>3
    <3> QED
      BY <1>2, <2>1, <3>1
  <2> QED
    BY <2>2, <2>3
<1>13. TimesAsMeant(u)
  <2>1. ASSUME NEW i \in DOMAIN u, filters[u[i][1]].kind = "time"
        PROVE  u[i][2] = IF MeantByTime(filters[u[i][1]], u[i][3])
                           THEN filters[u[i][1]].onMatch ELSE filters[u[i][1]].onMismatch
    <3>1. CASE i = n + 1
      <4>1. u[i][1] = m /\ u[i][2] = v /\ u[i][3] = moment
        BY <1>11, <3>1
      <4> QED
        BY <1>5, <2>1, <4>1
    <3>2. CASE i # n + 1
      <4>1. i \in DOMAIN t /\ u[i] = t[i]
        BY <1>10, <1>11, <2>1, <3>2
      <4> QED
        BY <1>2, <2>1, <4>1 DEF TimesAsMeant
    <3> QED
      BY <3>1, <3>2
  <2> QED
    BY <2>1, Zenon DEF TimesAsMeant
<1>14. /\ DOMAIN y = {"event", "frames", "verdict"} /\ y.event = x.event /\ y.verdict = v
       /\ y.frames = After(frames, v)
  BY <1>1
<1>15. u[Len(u)][2] = v
  BY <1>11
<1>16. Walks(f, y, u)
  <2>1. CASE v = "neutral"
    <3>1. y.frames = rest
      BY <1>1, <1>14, <2>1 DEF After, Ends
    <3> QED
      BY <1>2, <1>3, <1>6, <1>8, <1>12, <1>13, <1>14, <1>15, <2>1, <3>1 DEF Walks
  <2>2. CASE v # "neutral"
    <3>1. y.frames = <<>> /\ y.frames \in Seq(Seq(Names))
      BY <1>14, <2>2 DEF After, Ends
    <3> QED
      BY <1>2, <1>6, <1>9, <1>12, <1>13, <1>14, <1>15, <2>2, <3>1 DEF Walks
  <2> QED
    BY <2>1, <2>2
<1> QED
  BY <1>1, <1>16

LEMMA DecideNextStep ==
    ASSUME ChainInv, now \in Int, NEW c \in Callers, DecideNext(c)
    PROVE  ChainInv'
<1>1. PICK m, b, v, moment, held, e :
        /\ held = caller[c].frames /\ e = caller[c].event
        /\ m = Head(Head(held))
        /\ b = IF m \in DOMAIN bucket THEN bucket[m] ELSE <<>>
        /\ v = Decide(filters[m], e, b) /\ moment = Moment(e, now)
  OBVIOUS
<1>2. PICK x : x = [event |-> e, frames |-> After(held, v), verdict |-> v]
  OBVIOUS
<1>3. PICK t : t = Append(trace[c], <<m, v, moment>>)
  OBVIOUS
<1>4. /\ held # <<>> /\ Head(held) # <<>>
      /\ filters[m].kind # "composite" /\ filters' = filters
      /\ caller' = [caller EXCEPT ![c] = x] /\ trace' = [trace EXCEPT ![c] = t]
  BY <1>1, <1>2, <1>3, Zenon DEF DecideNext
<1>5. ASSUME NEW f, Spells(f), Walks(f, caller[c], trace[c]) PROVE Walks(f, x, t)
  <2>1. FiltersBuilt
    BY DEF ChainInv
  <2>2. PICK y, u : y = caller[c] /\ u = trace[c]
    OBVIOUS
  <2>3. y.frames = held /\ y.event = e /\ Walks(f, y, u)
    BY <1>1, <1>5, <2>2
  <2>4. Walks(f, [event |-> y.event, frames |-> After(y.frames, v), verdict |-> v],
              Append(u, <<m, v, moment>>))
    BY <1>1, <1>4, <1>5, <2>1, <2>3, WalksOn
  <2> QED
    BY <1>2, <1>3, <2>2, <2>3, <2>4
<1> QED
  BY <1>4, <1>5, ChainTurn

LEMMA ChainStep == ChainInv /\ now \in Int /\ [FilterNext]_filterVars => ChainInv'
<1> SUFFICES ASSUME ChainInv, now \in Int, [FilterNext]_filterVars PROVE ChainInv'
  OBVIOUS
<1>1. CASE Tick \/ UNCHANGED filterVars
  <2>1. filters' = filters /\ caller' = caller /\ trace' = trace
    BY <1>1 DEF Tick, filterVars
  <2> QED
    BY <2>1, ChainWaits
<1>2. ASSUME NEW c \in Callers, NEW e \in Arrivals, ApplyChain(c, e) PROVE ChainInv'
  BY <1>2, ApplyChainStep
<1>3. ASSUME NEW c \in Callers, ChainEnds(c) PROVE ChainInv'
  BY <1>3, ChainEndsStep
<1>4. ASSUME NEW c \in Callers, EnterComposite(c) PROVE ChainInv'
  BY <1>4, EnterCompositeStep
<1>5. ASSUME NEW c \in Callers, DecideNext(c) PROVE ChainInv'
  BY <1>5, DecideNextStep
<1> QED
  BY <1>1, <1>2, <1>3, <1>4, <1>5 DEF FilterNext

LEMMA ChainMeans == ChainInv => VerdictIsMeant
<1> SUFFICES ASSUME ChainInv PROVE VerdictIsMeant
  OBVIOUS
<1>1. FiltersBuilt
  BY DEF ChainInv
<1>2. PICK f : Spells(f)
  BY <1>1, FlatIs DEF Spells
<1>3. ASSUME NEW c \in Callers
      PROVE  LET t == trace[c]
                 flat == Flat
             IN  /\ Len(t) <= Len(flat) /\ \A i \in DOMAIN t : t[i][1] = flat[i]
                 /\ \A i \in 1..(Len(t) - 1) : t[i][2] = "neutral"
                 /\ \A i \in DOMAIN t : filters[t[i][1]].kind = "time" =>
                      LET g == filters[t[i][1]] IN
                      t[i][2] = IF MeantByTime(g, t[i][3]) THEN g.onMatch ELSE g.onMismatch
                 /\ caller[c].frames = <<>> /\ t # <<>> =>
                      /\ caller[c].verdict = Last(t)[2]
                      /\ Last(t)[2] = "neutral" => Len(t) = Len(flat)
  <2>1. Walks(f, caller[c], trace[c])
    BY <1>2 DEF ChainInv
  <2> QED
    BY <1>1, <1>2, <2>1, WalkIsMeant
<1> QED
  BY <1>3, Zenon DEF VerdictIsMeant

(* docs/filters.md:29, for every configuration of filters without a        *)
(* circle, however composites nest, and any number of callers in one chain:*)
(* a caller is answered what the composites written out in place would     *)
(* have answered, and a time filter matches what comes between its start   *)
(* and its end, around midnight, or now where an event has no time         *)
(* (internal/filter/filter.go:138, log4j.go:40, time.go:59).               *)
THEOREM VerdictsAreMeant == FilterSpec => []VerdictIsMeant
<1> DEFINE Inv == now \in Int /\ (filters # <<>> => ChainInv)
<1>1. FilterInit => Inv
  <2>1. FilterInit => now = 0
    BY Zenon DEF FilterInit
  <2> QED
    BY <2>1, ChainInit
<1>2. Inv /\ [FilterNext]_filterVars => Inv'
  <2> SUFFICES ASSUME Inv, [FilterNext]_filterVars PROVE Inv'
    OBVIOUS
  <2>1. now' \in Int
    BY FiltersStay
  <2>2. ASSUME filters' # <<>> PROVE ChainInv'
    BY <2>2, FiltersStay, ChainStep
  <2> QED
    BY <2>1, <2>2
<1>3. Inv => VerdictIsMeant
  BY ChainMeans DEF VerdictIsMeant
<1> HIDE DEF Inv
<1> QED
  BY <1>1, <1>2, <1>3, PTL DEF FilterSpec

-----------------------------------------------------------------------------
(* RollingHelpers: delete actions.                                         *)

SweepInv ==
    /\ present \subseteq Names0
    /\ mtime \in [Names0 -> Int] /\ size \in [Names0 -> Nat]
    /\ wall \in Int
    /\ sweeps \in Seq(Sweeps)

(* Later puts any two files in an order.                                   *)
LEMMA LaterIsAnOrder ==
    ASSUME SweepInv, NEW f \in Names0, NEW g \in Names0
    PROVE  /\ ~Later(f, f)
           /\ f # g => Later(f, g) \/ Later(g, f)
           /\ \A h \in Names0 : Later(f, g) /\ Later(g, h) => Later(f, h)
<1>1. \A x \in Names0 : x \in Int /\ mtime[x] \in Int
  BY HelpersAssumption DEF SweepInv, Names0
<1> QED
  BY <1>1 DEF Later

(* Of some files one is the earliest.                                      *)
LEMMA EarliestThereIs ==
    ASSUME SweepInv, NEW found \in SUBSET Names0, found # {}
    PROVE  \E f \in found : \A g \in found \ {f} : Later(g, f)
<1> DEFINE bad == {s \in SUBSET found : s # {} /\ ~\E f \in s : \A g \in s \ {f} : Later(g, f)}
<1> SUFFICES ASSUME bad # {} PROVE FALSE
  OBVIOUS
<1>1. IsFiniteSet(found)
  BY HelpersAssumption, FS_Subset DEF Names0
<1>2. PICK s \in bad : \A x \in s : s \ {x} \notin bad
  BY <1>1, SmallestSet
<1>3. PICK x \in s : TRUE
  BY <1>2
<1>4. CASE s \ {x} = {}
  BY <1>2, <1>3, <1>4
<1>5. CASE s \ {x} # {}
  <2>1. PICK f \in s \ {x} : \A g \in (s \ {x}) \ {f} : Later(g, f)
    BY <1>2, <1>3, <1>5
  <2>2. s \subseteq Names0
    BY <1>2
  <2>3. CASE Later(x, f)
    BY <1>2, <2>1, <2>3
  <2>4. CASE ~Later(x, f)
    <3>1. Later(f, x)
      BY <1>3, <2>1, <2>2, <2>4, LaterIsAnOrder
    <3>2. \A g \in s \ {x} : Later(g, x)
      BY <1>3, <2>1, <2>2, <3>1, LaterIsAnOrder
    <3> QED
      BY <1>2, <1>3, <3>2
  <2> QED
    BY <2>3, <2>4
<1> QED
  BY <1>4, <1>5

FromTheLatest(line, found) ==
    /\ line \in [1..Cardinality(found) -> found]
    /\ \A i, j \in DOMAIN line : i < j => Later(line[i], line[j])

(* The candidates can be sorted.                                           *)
LEMMA LineThereIs ==
    ASSUME SweepInv, NEW found \in SUBSET Names0
    PROVE  \E line : FromTheLatest(line, found)
<1> DEFINE bad == {s \in SUBSET found : ~\E line : FromTheLatest(line, s)}
<1> SUFFICES ASSUME bad # {} PROVE FALSE
  OBVIOUS
<1>1. IsFiniteSet(found)
  BY HelpersAssumption, FS_Subset DEF Names0
<1>2. PICK s \in bad : \A x \in s : s \ {x} \notin bad
  BY <1>1, SmallestSet
<1>3. s # {}
  <2>1. Cardinality({}) = 0
    BY FS_EmptySet
  <2>2. FromTheLatest([i \in 1..0 |-> i], {})
    BY <2>1 DEF FromTheLatest
  <2> QED
    BY <1>2, <2>2
<1>4. PICK f \in s : \A g \in s \ {f} : Later(g, f)
  BY <1>2, <1>3, EarliestThereIs
<1>5. PICK line : FromTheLatest(line, s \ {f})
  BY <1>2, <1>4
<1> DEFINE n == Cardinality(s)
           longer == [i \in 1..n |-> IF i = n THEN f ELSE line[i]]
<1>6. IsFiniteSet(s) /\ n \in Nat /\ Cardinality(s \ {f}) = n - 1
  <2>1. IsFiniteSet(s)
    BY <1>1, <1>2, FS_Subset
  <2> QED
    BY <2>1, <1>4, FS_CardinalityType, FS_RemoveElement
<1> HIDE DEF n
<1>7. line \in [1..(n - 1) -> s \ {f}] /\ \A i, j \in 1..(n - 1) : i < j => Later(line[i], line[j])
  BY <1>5, <1>6 DEF FromTheLatest
<1>8. longer \in [1..n -> s]
  BY <1>4, <1>6, <1>7
<1>9. \A i, j \in 1..n : i < j => Later(longer[i], longer[j])
  <2> TAKE i \in 1..n, j \in 1..n
  <2> HAVE i < j
  <2>1. i \in 1..(n - 1) /\ longer[i] = line[i] /\ line[i] \in s \ {f}
    BY <1>6, <1>7
  <2>2. CASE j = n
    BY <1>4, <2>1, <2>2
  <2>3. CASE j # n
    <3>1. j \in 1..(n - 1) /\ longer[j] = line[j]
      BY <1>6, <2>3
    <3> QED
      BY <1>7, <2>1, <3>1
  <2> QED
    BY <2>2, <2>3
<1>10. FromTheLatest(longer, s)
  <2> HIDE DEF longer
  <2> QED
    BY <1>8, <1>9 DEF FromTheLatest, n
<1> QED
  BY <1>2, <1>10

(* They stand in the line once each.                                       *)
LEMMA LineFacts ==
    ASSUME SweepInv, NEW found \in SUBSET Names0
    PROVE  /\ IsFiniteSet(found) /\ Cardinality(found) \in Nat
           /\ InLine(found) \in [1..Cardinality(found) -> found]
           /\ \A i, j \in 1..Cardinality(found) :
                 /\ i < j => Later(InLine(found)[i], InLine(found)[j])
                 /\ InLine(found)[i] = InLine(found)[j] => i = j
           /\ \A f \in found : \E i \in 1..Cardinality(found) : InLine(found)[i] = f
<1> DEFINE line == InLine(found)
           n == Cardinality(found)
<1>1. IsFiniteSet(found) /\ n \in Nat
  BY HelpersAssumption, FS_Subset, FS_CardinalityType DEF Names0
<1>2. FromTheLatest(line, found)
  BY LineThereIs DEF InLine, FromTheLatest
<1> HIDE DEF line, n
<1>3. line \in [1..n -> found] /\ \A i, j \in 1..n : i < j => Later(line[i], line[j])
  BY <1>2 DEF FromTheLatest, n
<1>4. \A i, j \in 1..n : line[i] = line[j] => i = j
  <2> TAKE i \in 1..n, j \in 1..n
  <2> HAVE line[i] = line[j]
  <2>1. ~Later(line[i], line[i])
    BY <1>3, LaterIsAnOrder
  <2>2. ~(i < j) /\ ~(j < i)
    BY <1>3, <2>1
  <2> QED
    BY <1>1, <2>2
<1>5. \A f \in found : \E i \in 1..n : line[i] = f
  <2>1. line \in Injection(1..n, found)
    BY <1>3, <1>4 DEF Injection, IsInjective
  <2>2. Cardinality(1..n) = n
    BY <1>1, FS_Interval
  <2>3. line \in Surjection(1..n, found)
    BY <1>1, <2>1, <2>2, FS_Injection DEF n
  <2> QED
    BY <2>3 DEF Surjection
<1> QED
  BY <1>1, <1>3, <1>4, <1>5 DEF line, n

Foremost(line, k) == {line[i] : i \in 1..k}

(* The sizes of some files together.                                       *)
LEMMA SizeSums ==
    ASSUME SweepInv, NEW found \in SUBSET Names0
    PROVE  /\ SumFunctionOnSet(size, {}) = 0
           /\ \A S \in SUBSET found : SumFunctionOnSet(size, S) \in Nat
           /\ \A S \in SUBSET found : \A x \in S : SumFunctionOnSet(size, S) = size[x] + SumFunctionOnSet(size, S \ {x})
           /\ \A S \in SUBSET found : \A T \in SUBSET S : SumFunctionOnSet(size, T) <= SumFunctionOnSet(size, S)
<1>1. ASSUME NEW S \in SUBSET found PROVE IsFiniteSet(S) /\ \A x \in S : size[x] \in Nat
  BY HelpersAssumption, FS_Subset DEF Names0, SweepInv
<1>2. ASSUME NEW S \in SUBSET found
      PROVE  /\ SumFunctionOnSet(size, {}) = 0
             /\ \A T \in SUBSET S : SumFunctionOnSet(size, T) \in Nat /\ SumFunctionOnSet(size, T) <= SumFunctionOnSet(size, S)
             /\ \A T \in SUBSET S : \A x \in T : SumFunctionOnSet(size, T) = size[x] + SumFunctionOnSet(size, T \ {x})
  <2>1. IsFiniteSet(S) /\ \A x \in S : size[x] \in Nat
    BY <1>1
  <2> QED
    BY <2>1, SumFacts
<1>3. found \in SUBSET found /\ \A S \in SUBSET found : S \in SUBSET S
  OBVIOUS
<1> QED
  BY <1>2, <1>3

(* The first k in line are k files.                                        *)
LEMMA ForemostFacts ==
    ASSUME SweepInv, NEW found \in SUBSET Names0
    PROVE  \A k \in 0..Cardinality(found) :
              /\ Foremost(InLine(found), k) \in SUBSET found
              /\ IsFiniteSet(Foremost(InLine(found), k))
              /\ Cardinality(Foremost(InLine(found), k)) = k
              /\ k > 0 => /\ InLine(found)[k] \in found \ Foremost(InLine(found), k - 1)
                          /\ Foremost(InLine(found), k) =
                                Foremost(InLine(found), k - 1) \cup {InLine(found)[k]}
<1> DEFINE line == InLine(found)
           n == Cardinality(found)
           Right(k) == IsFiniteSet(Foremost(line, k)) /\ Cardinality(Foremost(line, k)) = k
           bad == {k \in 0..n : ~Right(k)}
<1>1. /\ n \in Nat /\ line \in [1..n -> found]
      /\ \A i, j \in 1..n : line[i] = line[j] => i = j
  BY LineFacts
<1> HIDE DEF line, n
<1>2. ASSUME NEW k \in 1..n
      PROVE  /\ Foremost(line, k) = Foremost(line, k - 1) \cup {line[k]}
             /\ line[k] \in found \ Foremost(line, k - 1)
  BY <1>1 DEF Foremost
<1>3. bad = {}
  <2> SUFFICES ASSUME bad # {} PROVE FALSE
    OBVIOUS
  <2>1. PICK k \in bad : \A m \in bad : k <= m
    <3>1. bad \in SUBSET Nat
      BY <1>1
    <3> HIDE DEF bad
    <3> QED
      BY <3>1, LeastNatural
  <2>2. k # 0
    <3>1. Foremost(line, 0) = {}
      BY DEF Foremost
    <3> QED
      BY <2>1, <3>1, FS_EmptySet
  <2>3. k \in 1..n /\ k - 1 \in 0..n /\ ~(k <= k - 1)
    BY <1>1, <2>1, <2>2
  <2>4. Right(k - 1)
    BY <2>1, <2>3
  <2>5. IsFiniteSet(Foremost(line, k)) /\ Cardinality(Foremost(line, k)) = k - 1 + 1
    <3> DEFINE T == Foremost(line, k - 1)
               x == line[k]
    <3>1. IsFiniteSet(T) /\ Cardinality(T) = k - 1 /\ x \notin T
      BY <1>2, <2>3, <2>4
    <3>2. Foremost(line, k) = T \cup {x}
      BY <1>2, <2>3
    <3> HIDE DEF T, x
    <3>3. IsFiniteSet(T \cup {x}) /\ Cardinality(T \cup {x}) = k - 1 + 1
      BY <3>1, FS_AddElement
    <3> QED
      BY <3>2, <3>3
  <2> QED
    BY <2>1, <2>3, <2>5
<1>4. \A k \in 0..n : Foremost(line, k) \in SUBSET found
  BY <1>1 DEF Foremost
<1>5. \A k \in 0..n : k > 0 => k \in 1..n
  BY <1>1
<1> QED
  BY <1>2, <1>3, <1>4, <1>5 DEF line, n

(* One file more in line, and its size more.                               *)
LEMMA RunningSum ==
    ASSUME SweepInv, NEW found \in SUBSET Names0
    PROVE  \A k \in 1..Cardinality(found) :
              SumFunctionOnSet(size, Foremost(InLine(found), k)) =
                SumFunctionOnSet(size, Foremost(InLine(found), k - 1)) + size[InLine(found)[k]]
<1> SUFFICES ASSUME NEW k \in 1..Cardinality(found)
             PROVE  SumFunctionOnSet(size, Foremost(InLine(found), k)) =
                      SumFunctionOnSet(size, Foremost(InLine(found), k - 1)) + size[InLine(found)[k]]
  OBVIOUS
<1> DEFINE those == Foremost(InLine(found), k)
           earlier == Foremost(InLine(found), k - 1)
           f == InLine(found)[k]
<1>1. k \in 0..Cardinality(found) /\ k - 1 \in 0..Cardinality(found) /\ k > 0
  BY LineFacts
<1>2. those \in SUBSET found /\ earlier \in SUBSET found /\ f \in found \ earlier /\ those = earlier \cup {f}
  BY <1>1, ForemostFacts
<1> HIDE DEF those, earlier, f
<1>3. those \ {f} = earlier /\ f \in those /\ size[f] \in Nat
  BY <1>2 DEF SweepInv
<1>4. SumFunctionOnSet(size, those) = size[f] + SumFunctionOnSet(size, those \ {f}) /\ SumFunctionOnSet(size, earlier) \in Nat
  BY <1>2, <1>3, SizeSums
<1>5. SumFunctionOnSet(size, those) = SumFunctionOnSet(size, earlier) + size[f]
  <2>1. SumFunctionOnSet(size, those \ {f}) = SumFunctionOnSet(size, earlier)
    BY <1>3
  <2> DEFINE total == SumFunctionOnSet(size, earlier)
             bytes == size[f]
  <2>2. SumFunctionOnSet(size, those) = bytes + total /\ total \in Nat /\ bytes \in Nat
    BY <1>3, <1>4, <2>1
  <2> HIDE DEF total, bytes
  <2>3. SumFunctionOnSet(size, those) = total + bytes
    BY <2>2
  <2> QED
    BY <2>3 DEF total, bytes
<1> QED
  BY <1>5 DEF those, earlier, f

(* The running total along the line is the size of the first k.            *)
LEMMA RunningTotal ==
    ASSUME SweepInv, NEW found \in SUBSET Names0, NEW sum,
           sum = [i \in 0..Cardinality(found) |->
                    IF i = 0 THEN 0 ELSE sum[i - 1] + size[InLine(found)[i]]]
    PROVE  \A k \in 0..Cardinality(found) : sum[k] = SumFunctionOnSet(size, Foremost(InLine(found), k))
<1> DEFINE line == InLine(found)
           n == Cardinality(found)
           bad == {k \in 0..n : sum[k] # SumFunctionOnSet(size, Foremost(line, k))}
<1> SUFFICES ASSUME bad # {} PROVE FALSE
  OBVIOUS
<1>1. n \in Nat
  BY LineFacts
<1>2. \A k \in 1..n : SumFunctionOnSet(size, Foremost(line, k)) =
                          SumFunctionOnSet(size, Foremost(line, k - 1)) + size[line[k]]
  BY RunningSum
<1>3. SumFunctionOnSet(size, Foremost(line, 0)) = 0
  <2>1. Foremost(line, 0) = {}
    BY DEF Foremost
  <2> QED
    BY <2>1, SizeSums
<1>4. sum = [i \in 0..n |-> IF i = 0 THEN 0 ELSE sum[i - 1] + size[line[i]]]
  OBVIOUS
<1> HIDE DEF line, n
<1>5. PICK k \in bad : \A m \in bad : k <= m
  <2>1. bad \in SUBSET Nat
    BY <1>1
  <2> HIDE DEF bad
  <2> QED
    BY <2>1, LeastNatural
<1>6. k # 0
  BY <1>1, <1>3, <1>4, <1>5
<1>7. k \in 1..n /\ k - 1 \in 0..n /\ ~(k <= k - 1)
  BY <1>1, <1>5, <1>6
<1>8. sum[k - 1] = SumFunctionOnSet(size, Foremost(line, k - 1))
  BY <1>5, <1>7
<1>9. sum[k] = sum[k - 1] + size[line[k]]
  <2>1. k \in 0..n /\ k # 0
    BY <1>1, <1>7
  <2> HIDE DEF bad
  <2> QED
    BY <1>4, <2>1
<1> QED
  BY <1>2, <1>5, <1>7, <1>8, <1>9

(* What is before a file in line is what is as late or later.              *)
LEMMA ForemostAreLater ==
    ASSUME SweepInv, NEW found \in SUBSET Names0, NEW k \in 1..Cardinality(found)
    PROVE  Foremost(InLine(found), k) =
               {g \in found : g = InLine(found)[k] \/ Later(g, InLine(found)[k])}
<1> DEFINE line == InLine(found)
           n == Cardinality(found)
<1>1. /\ n \in Nat /\ line \in [1..n -> found]
      /\ \A i, j \in 1..n : i < j => Later(line[i], line[j])
      /\ \A f \in found : \E i \in 1..n : line[i] = f
  BY LineFacts
<1>2. k \in 1..n
  OBVIOUS
<1> HIDE DEF line, n
<1>3. ASSUME NEW i \in 1..k PROVE line[i] \in found /\ (line[i] = line[k] \/ Later(line[i], line[k]))
  <2>1. i \in 1..n
    BY <1>1, <1>2
  <2>2. i = k \/ i < k
    BY <1>2
  <2> QED
    BY <1>1, <1>2, <2>1, <2>2
<1>4. ASSUME NEW g \in found, g = line[k] \/ Later(g, line[k]) PROVE \E i \in 1..k : g = line[i]
  <2>1. PICK i \in 1..n : line[i] = g
    BY <1>1
  <2>2. CASE i <= k
    BY <1>2, <2>1, <2>2
  <2>3. CASE i > k
    <3>1. Later(line[k], g)
      BY <1>1, <1>2, <2>1, <2>3
    <3>2. g \in Names0 /\ line[k] \in Names0
      BY <1>1, <1>2
    <3> QED
      BY <1>4, <3>1, <3>2, LaterIsAnOrder, <1>2
  <2> QED
    BY <1>1, <1>2, <2>1, <2>2, <2>3
<1> QED
  BY <1>3, <1>4 DEF Foremost, line

(* What a delete action condemns.                                          *)
Beyond(action, line, k) ==
    \/ action.maxCount > 0 /\ k > action.maxCount
    \/ action.maxSize > 0 /\ SumFunctionOnSet(size, Foremost(line, k)) > action.maxSize

LEMMA CondemnedAre ==
    ASSUME SweepInv, NEW action \in Sweeps
    PROVE  Condemned(action) =
             {f \in Candidates(action) :
                \/ Older(action, f)
                \/ \E k \in 1..Cardinality(Candidates(action)) :
                      f = InLine(Candidates(action))[k] /\ Beyond(action, InLine(Candidates(action)), k)}
<1> DEFINE found == Candidates(action)
           line == InLine(found)
           n == Cardinality(found)
           Def(f) == [i \in 0..Len(line) |-> IF i = 0 THEN 0 ELSE f[i - 1] + size[line[i]]]
           sum == CHOOSE f : f = Def(f)
           total == [k \in 0..Len(line) |-> SumFunctionOnSet(size, Foremost(line, k))]
<1>1. found \in SUBSET Names0
  BY DEF Candidates, SweepInv
<1>2. Condemned(action) =
        {f \in found : Older(action, f)}
          \cup {line[i] : i \in {k \in DOMAIN line : action.maxCount > 0 /\ k > action.maxCount}}
          \cup {line[i] : i \in {k \in DOMAIN line : action.maxSize > 0 /\ sum[k] > action.maxSize}}
  BY Zenon DEF Condemned
<1>3. n \in Nat /\ line \in [1..n -> found]
  BY <1>1, LineFacts
<1>4. Len(line) = n /\ DOMAIN line = 1..n
  <2> HIDE DEF line, n, found
  <2> QED
    BY <1>3, FunctionIsSequence
<1>5. sum = Def(sum)
  <2>1. total = Def(total)
    <3>1. SumFunctionOnSet(size, Foremost(line, 0)) = 0
      <4>1. Foremost(line, 0) = {}
        BY DEF Foremost
      <4> QED
        BY <1>1, <4>1, SizeSums
    <3>2. \A k \in 1..n : SumFunctionOnSet(size, Foremost(line, k)) =
                              SumFunctionOnSet(size, Foremost(line, k - 1)) + size[line[k]]
      BY <1>1, RunningSum
    <3> HIDE DEF line, n
    <3>3. \A k \in 0..n : total[k] = IF k = 0 THEN 0 ELSE total[k - 1] + size[line[k]]
      BY <1>3, <1>4, <3>1, <3>2
    <3> QED
      BY <1>3, <1>4, <3>3
  <2> HIDE DEF Def, total
  <2> QED
    BY <2>1
<1> HIDE DEF sum
<1>6. \A k \in 0..n : sum[k] = SumFunctionOnSet(size, Foremost(line, k))
  BY <1>1, <1>4, <1>5, RunningTotal
<1> HIDE DEF line, n, found
<1>7. \A k \in 1..n : sum[k] = SumFunctionOnSet(size, Foremost(line, k))
  BY <1>3, <1>6
<1>8. Condemned(action) =
        {f \in found : Older(action, f) \/ \E k \in 1..n : f = line[k] /\ Beyond(action, line, k)}
  BY <1>2, <1>3, <1>4, <1>7 DEF Beyond
<1> QED
  BY <1>8 DEF line, n, found

(* What a delete action leaves and what it takes, however it is locked out *)
(* of some of the files.                                                   *)
SweptAsMeant(action, gone, left) ==
    LET found  == Candidates(action)
        Total(S) == SumFunctionOnSet(size, S)
        UpTo(f) == {g \in found : g = f \/ Later(g, f)}
    IN  /\ gone \subseteq found
        /\ \A f \in gone, g \in left : mtime[g] >= mtime[f]
        /\ action.maxAge > 0 => \A f \in left : mtime[f] >= wall - action.maxAge
        /\ action.maxCount > 0 => Cardinality(left) <= action.maxCount
        /\ action.maxSize > 0 => Total(left) <= action.maxSize
        /\ \A f \in gone : \/ Older(action, f)
                           \/ action.maxCount \in 1..(Cardinality(UpTo(f)) - 1)
                           \/ action.maxSize \in 1..(Total(UpTo(f)) - 1)

(* The line settles what stays: its first files, as many as are allowed.   *)
LEMMA CondemnedAreMeant ==
    ASSUME SweepInv, NEW action \in Sweeps, NEW gone \in SUBSET Condemned(action)
    PROVE  SweptAsMeant(action, gone, Candidates(action) \ Condemned(action))
<1> DEFINE found == Candidates(action)
           line == InLine(found)
           n == Cardinality(found)
           left == found \ Condemned(action)
           UpTo(f) == {g \in found : g = f \/ Later(g, f)}
<1>1. /\ found \in SUBSET Names0
      /\ action.maxAge \in Nat /\ action.maxCount \in Nat /\ action.maxSize \in Nat
  BY HelpersAssumption DEF Candidates, SweepInv
<1>2. /\ n \in Nat /\ line \in [1..n -> found] /\ IsFiniteSet(found)
      /\ \A i, j \in 1..n : i < j => Later(line[i], line[j])
      /\ \A f \in found : \E i \in 1..n : line[i] = f
  BY <1>1, LineFacts
<1>3. /\ \A S \in SUBSET found : SumFunctionOnSet(size, S) \in Nat
      /\ \A S \in SUBSET found : \A T \in SUBSET S : SumFunctionOnSet(size, T) <= SumFunctionOnSet(size, S)
      /\ SumFunctionOnSet(size, {}) = 0
  BY <1>1, SizeSums
<1>4. \A k \in 1..n : Foremost(line, k) = UpTo(line[k])
  BY <1>1, ForemostAreLater
<1>5. \A k \in 1..n : /\ IsFiniteSet(Foremost(line, k)) /\ Cardinality(Foremost(line, k)) = k
                      /\ Foremost(line, k) \in SUBSET found
  <2>1. \A k \in 1..n : k \in 0..n
    OBVIOUS
  <2> QED
    BY <1>1, <2>1, ForemostFacts
<1>6. Condemned(action) =
        {f \in found : Older(action, f) \/ \E k \in 1..n : f = line[k] /\ Beyond(action, line, k)}
  BY CondemnedAre
<1> HIDE DEF line, n, found, left, UpTo
<1>7. \A k \in 1..n, m \in 1..n : k < m /\ Beyond(action, line, k) => Beyond(action, line, m)
  <2> TAKE k \in 1..n, m \in 1..n
  <2> HAVE k < m /\ Beyond(action, line, k)
  <2>1. Foremost(line, k) \in SUBSET Foremost(line, m)
    BY <1>2 DEF Foremost
  <2>2. /\ SumFunctionOnSet(size, Foremost(line, k)) <= SumFunctionOnSet(size, Foremost(line, m))
        /\ SumFunctionOnSet(size, Foremost(line, k)) \in Nat /\ SumFunctionOnSet(size, Foremost(line, m)) \in Nat
    BY <1>3, <1>5, <2>1
  <2> QED
    BY <1>1, <1>2, <2>2 DEF Beyond
<1>8. ASSUME NEW f \in left
      PROVE  /\ f \in found /\ f \in Names0 /\ ~Older(action, f)
             /\ \E k \in 1..n : f = line[k] /\ ~Beyond(action, line, k)
  BY <1>1, <1>2, <1>6 DEF left, found
<1>9. ASSUME NEW f \in gone PROVE f \in found /\ f \in Condemned(action)
  BY <1>6
<1>10. ASSUME NEW f \in gone, NEW g \in left PROVE mtime[g] >= mtime[f]
  <2>1. /\ f \in Names0 /\ g \in Names0 /\ ~Older(action, g)
        /\ mtime[f] \in Int /\ mtime[g] \in Int /\ wall \in Int
    BY <1>1, <1>8, <1>9 DEF SweepInv
  <2>2. PICK j \in 1..n : g = line[j] /\ ~Beyond(action, line, j)
    BY <1>8
  <2>3. CASE Older(action, f)
    BY <1>1, <2>1, <2>3 DEF Older
  <2>4. CASE ~Older(action, f)
    <3>1. PICK k \in 1..n : f = line[k] /\ Beyond(action, line, k)
      BY <1>6, <1>9, <2>4
    <3>2. ~(k < j) /\ k # j
      BY <1>7, <2>2, <3>1
    <3>3. Later(g, f)
      BY <1>2, <2>2, <3>1, <3>2
    <3> QED
      BY <2>1, <3>3 DEF Later
  <2> QED
    BY <2>3, <2>4
<1>11. ASSUME action.maxAge > 0, NEW f \in left PROVE mtime[f] >= wall - action.maxAge
  <2>1. ~Older(action, f) /\ mtime[f] \in Int /\ wall \in Int
    BY <1>8 DEF SweepInv
  <2> QED
    BY <1>1, <1>11, <2>1 DEF Older
<1>12. ASSUME left # {} PROVE \E k \in 1..n : left \subseteq Foremost(line, k) /\ ~Beyond(action, line, k)
  <2> DEFINE behind == {m \in Nat : \E k \in 1..n : m = n - k /\ line[k] \in left /\ ~Beyond(action, line, k)}
  <2>1. behind \in SUBSET Nat /\ behind # {}
    <3>1. PICK g \in left : TRUE
      BY <1>12
    <3>2. PICK k \in 1..n : g = line[k] /\ ~Beyond(action, line, k)
      BY <1>8
    <3>3. n - k \in Nat
      BY <1>2
    <3>4. n - k \in behind
      BY <3>1, <3>2, <3>3
    <3> QED
      BY <3>4
  <2>2. PICK m \in behind : \A x \in behind : m <= x
    BY <2>1, LeastNatural
  <2>3. PICK k \in 1..n : m = n - k /\ line[k] \in left /\ ~Beyond(action, line, k)
    BY <2>2
  <2>4. ASSUME NEW g \in left PROVE g \in Foremost(line, k)
    <3>1. PICK j \in 1..n : g = line[j] /\ ~Beyond(action, line, j)
      BY <1>8
    <3>2. n - j \in behind
      <4>1. n - j \in Nat
        BY <1>2
      <4> QED
        BY <3>1, <4>1
    <3>3. n - k <= n - j
      BY <2>2, <2>3, <3>2
    <3>4. j \in 1..k
      BY <1>2, <3>3
    <3> QED
      BY <3>1, <3>4 DEF Foremost
  <2> QED
    BY <2>3, <2>4
<1>13. /\ action.maxCount > 0 => Cardinality(left) <= action.maxCount
       /\ action.maxSize > 0 => SumFunctionOnSet(size, left) <= action.maxSize
  <2>1. CASE left = {}
    <3>1. Cardinality(left) = 0 /\ SumFunctionOnSet(size, left) = 0
      BY <1>3, <2>1, FS_EmptySet
    <3> QED
      BY <1>1, <3>1
  <2>2. CASE left # {}
    <3>1. PICK k \in 1..n : left \subseteq Foremost(line, k) /\ ~Beyond(action, line, k)
      BY <1>12, <2>2
    <3>2. Cardinality(left) <= k /\ Cardinality(left) \in Nat
      <4>1. IsFiniteSet(Foremost(line, k)) /\ Cardinality(Foremost(line, k)) = k
        BY <1>5
      <4>2. left \in SUBSET Foremost(line, k)
        BY <3>1
      <4>3. IsFiniteSet(left) /\ Cardinality(left) <= k
        BY <4>1, <4>2, FS_Subset
      <4> QED
        BY <4>3, FS_CardinalityType
    <3>3. SumFunctionOnSet(size, left) <= SumFunctionOnSet(size, Foremost(line, k))
      BY <1>3, <1>5, <3>1
    <3>4. SumFunctionOnSet(size, left) \in Nat /\ SumFunctionOnSet(size, Foremost(line, k)) \in Nat
      <4>1. left \in SUBSET found
        BY <1>8
      <4> QED
        BY <1>3, <1>5, <4>1
    <3> QED
      BY <1>1, <1>2, <3>1, <3>2, <3>3, <3>4 DEF Beyond
  <2> QED
    BY <2>1, <2>2
<1>14. ASSUME NEW f \in gone
       PROVE  \/ Older(action, f)
              \/ action.maxCount \in 1..(Cardinality(UpTo(f)) - 1)
              \/ action.maxSize \in 1..(SumFunctionOnSet(size, UpTo(f)) - 1)
  <2> SUFFICES ASSUME ~Older(action, f)
               PROVE  \/ action.maxCount \in 1..(Cardinality(UpTo(f)) - 1)
                      \/ action.maxSize \in 1..(SumFunctionOnSet(size, UpTo(f)) - 1)
    OBVIOUS
  <2>1. PICK k \in 1..n : f = line[k] /\ Beyond(action, line, k)
    BY <1>6, <1>9
  <2>2. UpTo(f) = Foremost(line, k) /\ Cardinality(UpTo(f)) = k /\ SumFunctionOnSet(size, UpTo(f)) \in Nat
    BY <1>3, <1>4, <1>5, <2>1
  <2>3. k \in Int
    BY <1>2
  <2> QED
    BY <1>1, <2>1, <2>2, <2>3 DEF Beyond
<1> QED
  BY <1>9, <1>10, <1>11, <1>13, <1>14 DEF SweptAsMeant, found, left, UpTo

(* Every state a delete action can find.                                   *)
LEMMA SweepBegins == HelperInit => SweepInv
<1>1. ASSUME SweepIdle PROVE SweepInv
  BY <1>1, HelpersAssumption DEF SweepIdle, SweepInv, Names0
<1>2. ASSUME SweepInit PROVE SweepInv
  <2>1. 0..1 \subseteq Int /\ 0..MaxSize \subseteq Nat
    BY HelpersAssumption
  <2> QED
    BY <1>2, <2>1 DEF SweepInit, SweepInv, Names0
<1> QED
  BY <1>1, <1>2 DEF HelperInit

LEMMA SweepStep ==
    ASSUME SweepInv, [HelperNext]_helperVars
    PROVE  SweepInv'
<1>1. ASSUME NEW action \in Sweeps, Sweep(action) PROVE SweepInv'
  <2>1. present' \subseteq Names0 /\ UNCHANGED <<mtime, size, wall>>
    BY <1>1 DEF Sweep, SweepInv
  <2>2. sweeps' \in Seq(Sweeps)
    BY <1>1 DEF Sweep, SweepInv
  <2> QED
    BY <2>1, <2>2 DEF SweepInv
<1>2. ASSUME NEW f \in Names0, Touch(f) PROVE SweepInv'
  <2>1. wall' \in Int /\ present' \subseteq Names0 /\ sweeps' = sweeps
    BY <1>2 DEF Touch, SweepInv
  <2>2. mtime' \in [Names0 -> Int]
    BY <1>2, <2>1 DEF Touch, SweepInv
  <2>3. size' \in [Names0 -> Nat]
    <3>1. (size[f] + 1) % (MaxSize + 1) \in Nat
      BY HelpersAssumption DEF SweepInv
    <3> QED
      BY <1>2, <3>1 DEF Touch, SweepInv
  <2> QED
    BY <2>1, <2>2, <2>3 DEF SweepInv
<1>3. ASSUME UNCHANGED sweepVars PROVE SweepInv'
  BY <1>3 DEF sweepVars, SweepInv
<1> QED
  BY <1>1, <1>2, <1>3 DEF HelperNext, Arrive, helperVars

(* Whatever files there are, and whatever limits, ages, sizes and equal    *)
(* times: a delete action takes what is too old and what its limits reach, *)
(* counted from the latest, and nothing else, and what it cannot remove    *)
(* keeps no other file (delete.go deleteArchiveCandidates).                *)
THEOREM SweepsAreMeant == HelperSpec => SweepIsMeant
<1> DEFINE Action == Last(sweeps')
           Gone == present \ present'
           Promise == Len(sweeps') > Len(sweeps) =>
                        SweptAsMeant(Action, Gone, Candidates(Action) \ (Gone \cup stuck'))
<1>1. ASSUME SweepInv, [HelperNext]_helperVars PROVE Promise
  <2>1. ASSUME NEW action \in Sweeps, Sweep(action) PROVE Promise
    <3>1. Action = action
      BY <1>1, <2>1 DEF Sweep, SweepInv, Last
    <3>2. PICK locked \in SUBSET Condemned(action) :
             /\ present' = present \ (Condemned(action) \ locked)
             /\ stuck' = locked
      BY <2>1 DEF Sweep
    <3>3. Condemned(action) \subseteq Candidates(action) /\ Candidates(action) \subseteq present
      BY <1>1, CondemnedAre DEF Candidates
    <3>4. Gone \in SUBSET Condemned(action) /\ Gone \cup stuck' = Condemned(action)
      BY <3>2, <3>3
    <3>5. SweptAsMeant(action, Gone, Candidates(action) \ Condemned(action))
      BY <1>1, <3>4, CondemnedAreMeant
    <3> QED
      BY <3>1, <3>4, <3>5
  <2>2. ASSUME sweeps' = sweeps PROVE Promise
    <3>1. Len(sweeps) \in Nat
      BY <1>1 DEF SweepInv
    <3> QED
      BY <2>2, <3>1
  <2> QED
    BY <1>1, <2>1, <2>2 DEF HelperNext, Arrive, Touch, sweepVars, helperVars
<1>2. Promise => (Len(sweeps') > Len(sweeps) =>
        LET action == Last(sweeps')
            found  == Candidates(action)
            gone   == present \ present'
            left   == found \ (gone \cup stuck')
            Total(S) == SumFunctionOnSet(size, S)
            UpTo(f) == {g \in found : g = f \/ Later(g, f)}
        IN  /\ gone \subseteq found
            /\ \A f \in gone, g \in left : mtime[g] >= mtime[f]
            /\ action.maxAge > 0 => \A f \in left : mtime[f] >= wall - action.maxAge
            /\ action.maxCount > 0 => Cardinality(left) <= action.maxCount
            /\ action.maxSize > 0 => Total(left) <= action.maxSize
            /\ \A f \in gone : \/ Older(action, f)
                               \/ action.maxCount \in 1..(Cardinality(UpTo(f)) - 1)
                               \/ action.maxSize \in 1..(Total(UpTo(f)) - 1))
  BY Zenon DEF SweptAsMeant
<1> QED
  BY <1>1, <1>2, SweepBegins, SweepStep, PTL DEF HelperSpec, SweepIsMeant

(* The fold over the entries of a document, written out.                   *)
Folds(seq, g) ==
    /\ g[0] = NoConfig
    /\ \A i \in 1..Len(seq) : g[i] = ApplyKnown(g[i - 1], seq[i])

FoldStep(seq, h, s) == IF s = {} THEN NoConfig ELSE ApplyKnown(h[s \ {Max(s)}], seq[Max(s)])
FoldsSets(seq, h, k) == \A s \in SUBSET (1..k) : h[s] = FoldStep(seq, h, s)

LEMMA GreatestIs ==
    ASSUME NEW k \in Nat, NEW s \in SUBSET (1..k), s # {}
    PROVE  /\ Max(s) \in s /\ \A j \in s : j <= Max(s)
           /\ k \in s => Max(s) = k
<1> DEFINE T == {k - j : j \in s}
<1>1. T \in SUBSET Nat /\ T # {}
  OBVIOUS
<1>2. PICK m \in T : \A j \in T : m <= j
  BY <1>1, LeastNatural
<1>3. PICK i \in s : m = k - i
  OBVIOUS
<1>4. \A j \in s : j \in 1..k
  OBVIOUS
<1>5. \A y \in s : i >= y
  <2> TAKE y \in s
  <2>1. k - y \in T
    OBVIOUS
  <2>2. m <= k - y
    BY <1>2, <2>1
  <2> HIDE DEF T
  <2>3. i \in 1..k /\ y \in 1..k
    BY <1>4
  <2> QED
    BY <1>3, <2>2, <2>3
<1> HIDE DEF T
<1>6. \E x \in s : \A y \in s : x >= y
  BY <1>5
<1>7. Max(s) \in s /\ \A y \in s : Max(s) >= y
  BY <1>6, Zenon DEF Max
<1>8. PICK x : x = Max(s)
  OBVIOUS
<1>9. x \in s /\ x \in 1..k /\ \A y \in s : x >= y /\ y \in 1..k
  BY <1>4, <1>7, <1>8
<1>10. \A y \in s : y <= x
  BY <1>9
<1>11. k \in s => x = k
  BY <1>9
<1> QED
  BY <1>8, <1>9, <1>10, <1>11, Zenon

LEMMA FoldThereIs ==
    ASSUME NEW seq, NEW n \in Nat
    PROVE  \E h : FoldsSets(seq, h, n) /\ h = [s \in SUBSET (1..n) |-> FoldStep(seq, h, s)]
<1> DEFINE P(k) == \E h : FoldsSets(seq, h, k)
           bad == {k \in Nat : ~P(k)}
<1>1. bad = {}
  <2> SUFFICES ASSUME bad # {} PROVE FALSE
    OBVIOUS
  <2>1. PICK k \in bad : \A j \in bad : k <= j
    BY LeastNatural
  <2>2. CASE k = 0
    <3> DEFINE h == [s \in {{}} |-> NoConfig]
    <3>1. FoldsSets(seq, h, 0)
      <4>1. \A s \in SUBSET (1..0) : s = {}
        OBVIOUS
      <4>2. h[{}] = NoConfig
        OBVIOUS
      <4> HIDE DEF h
      <4> QED
        BY <4>1, <4>2 DEF FoldsSets, FoldStep
    <3> QED
      BY <2>2, <3>1
  <2>3. CASE k # 0
    <3>1. k - 1 \in Nat /\ k \in Nat /\ P(k - 1)
      BY <2>1, <2>3
    <3>2. PICK h : FoldsSets(seq, h, k - 1)
      BY <3>1
    <3> DEFINE g == [s \in SUBSET (1..k) |-> IF k \in s THEN ApplyKnown(h[s \ {k}], seq[k]) ELSE h[s]]
    <3>3. ASSUME NEW s \in SUBSET (1..(k - 1)) PROVE g[s] = h[s]
      <4>1. s \in SUBSET (1..k) /\ k \notin s
        BY <3>1
      <4> QED
        BY <4>1
    <3>4. ASSUME NEW s \in SUBSET (1..k) PROVE g[s] = FoldStep(seq, g, s)
      <4>1. CASE k \in s
        <5>1. s # {} /\ Max(s) = k
          BY <3>1, <4>1, GreatestIs
        <5>2. s \ {k} \in SUBSET (1..(k - 1))
          BY <3>1
        <5>3. g[s] = ApplyKnown(h[s \ {k}], seq[k]) /\ g[s \ {k}] = h[s \ {k}]
          BY <3>3, <4>1, <5>2
        <5> HIDE DEF g
        <5> QED
          BY <5>1, <5>3 DEF FoldStep
      <4>2. CASE k \notin s
        <5>1. s \in SUBSET (1..(k - 1))
          BY <3>1, <4>2
        <5>2. g[s] = h[s] /\ h[s] = FoldStep(seq, h, s)
          BY <3>2, <3>3, <5>1 DEF FoldsSets
        <5>3. g[s \ {Max(s)}] = h[s \ {Max(s)}]
          <6>1. s \ {Max(s)} \in SUBSET (1..(k - 1))
            BY <5>1
          <6> QED
            BY <3>3, <6>1
        <5> HIDE DEF g
        <5> QED
          BY <5>2, <5>3 DEF FoldStep
      <4> QED
        BY <4>1, <4>2
    <3>5. FoldsSets(seq, g, k)
      <4> HIDE DEF g
      <4> QED
        BY <3>4 DEF FoldsSets
    <3> QED
      BY <3>5
  <2> QED
    BY <2>2, <2>3
<1>2. PICK h : FoldsSets(seq, h, n)
  BY <1>1
<1> DEFINE g == [s \in SUBSET (1..n) |-> FoldStep(seq, h, s)]
<1>3. \A s \in SUBSET (1..n) : g[s] = h[s]
  BY <1>2 DEF FoldsSets
<1>4. \A s \in SUBSET (1..n) : FoldStep(seq, h, s) = FoldStep(seq, g, s)
  <2> TAKE s \in SUBSET (1..n)
  <2>1. g[s \ {Max(s)}] = h[s \ {Max(s)}]
    BY <1>3
  <2> HIDE DEF g
  <2> QED
    BY <2>1 DEF FoldStep
<1> DEFINE o == [s \in SUBSET (1..n) |-> FoldStep(seq, g, s)]
<1>5. g = o
  <2>1. \A s \in SUBSET (1..n) : g[s] = o[s]
    <3> TAKE s \in SUBSET (1..n)
    <3>1. g[s] = FoldStep(seq, h, s)
      OBVIOUS
    <3>2. o[s] = FoldStep(seq, g, s)
      BY Zenon
    <3> QED
      BY <1>4, <3>1, <3>2
  <2> QED
    BY <2>1
<1>6. FoldsSets(seq, g, n)
  <2>1. \A s \in SUBSET (1..n) : g[s] = FoldStep(seq, g, s)
    BY <1>4
  <2> HIDE DEF g
  <2> QED
    BY <2>1 DEF FoldsSets
<1> QED
  BY <1>5, <1>6, Zenon

LEMMA FoldIs ==
    ASSUME NEW S, NEW seq \in Seq(S)
    PROVE  \E g : Folds(seq, g) /\ g[Len(seq)] = FoldLeft(ApplyKnown, NoConfig, seq)
<1> DEFINE n == Len(seq)
           D == DOMAIN seq
           iter[s \in SUBSET D] == IF s = {} THEN NoConfig
                                   ELSE LET x == Max(s) IN ApplyKnown(iter[s \ {x}], seq[x])
           body(h) == [s \in SUBSET D |-> IF s = {} THEN NoConfig
                                   ELSE LET x == Max(s) IN ApplyKnown(h[s \ {x}], seq[x])]
<1>1. n \in Nat /\ D = 1..n
  OBVIOUS
<1>2. PICK h : FoldsSets(seq, h, n) /\ h = [s \in SUBSET (1..n) |-> FoldStep(seq, h, s)]
  BY <1>1, FoldThereIs
<1>3. h = body(h)
  BY <1>1, <1>2, Zenon DEF FoldStep
<1>4. iter = body(iter)
  BY <1>3, Zenon
<1>5. FoldLeft(ApplyKnown, NoConfig, seq) = iter[D]
  BY Zenon DEF FoldLeft, MapThenFoldSet
<1> HIDE DEF iter, D, n
<1>6. \A s \in SUBSET (1..n) : iter[s] = FoldStep(seq, iter, s)
  <2> TAKE s \in SUBSET (1..n)
  <2>1. s \in SUBSET D
    BY <1>1
  <2>2. body(iter)[s] = IF s = {} THEN NoConfig
                        ELSE LET x == Max(s) IN ApplyKnown(iter[s \ {x}], seq[x])
    BY <2>1, Zenon
  <2> QED
    BY <1>4, <2>2, Zenon DEF FoldStep
<1> DEFINE g == [i \in 0..n |-> iter[1..i]]
<1>7. g[0] = NoConfig
  <2>1. 1..0 = {} /\ {} \in SUBSET (1..n) /\ 0 \in 0..n
    BY <1>1
  <2>2. iter[{}] = NoConfig
    BY <1>6, <2>1 DEF FoldStep
  <2> QED
    BY <2>1, <2>2
<1>8. ASSUME NEW i \in 1..n PROVE g[i] = ApplyKnown(g[i - 1], seq[i])
  <2>1. i \in 0..n /\ i - 1 \in 0..n /\ 1..i \in SUBSET (1..n) /\ 1..i # {} /\ i \in 1..i /\ i \in Nat
    BY <1>1
  <2>2. Max(1..i) = i
    BY <2>1, GreatestIs
  <2>3. (1..i) \ {i} = 1..(i - 1)
    BY <2>1
  <2>4. iter[1..i] = ApplyKnown(iter[1..(i - 1)], seq[i])
    BY <1>6, <2>1, <2>2, <2>3 DEF FoldStep
  <2> QED
    BY <2>1, <2>4
<1>9. g[n] = iter[D]
  <2>1. n \in 0..n
    BY <1>1
  <2> QED
    BY <1>1, <2>1
<1> HIDE DEF g
<1>10. Folds(seq, g)
  BY <1>7, <1>8 DEF Folds, n
<1> QED
  BY <1>5, <1>9, <1>10 DEF n

CellForms == {"field", "level", "property", "pair"}
IsConfig(c) == DOMAIN c = {"cells", "refs", "filters"}
IsList(s) == \E S : s \in Seq(S)
NamesIn(text) == [i \in DOMAIN text |-> text[i].name]
ListRef(t) == [id |-> "", ref |-> <<t>>, level |-> <<>>]

(* What a document says once, and a list of references or references with  *)
(* fields of their own.                                                    *)
SaidOnce ==
    /\ Entries \subseteq Sayings /\ \A e \in Entries : WellSaid(e)
    /\ \A e, x \in Said : Target(e) = Target(x) => e = x
    /\ \A e, x \in Said : e.form = "list" /\ x.form = "ref" => Named(e.on) # Named(x.on)

(* A fileConfig that has been told the entries of A and nothing more.      *)
CellsTold(c, A) ==
    /\ DOMAIN c.cells = {Cell(e) : e \in {x \in A : x.form \in CellForms}}
    /\ \A e \in A : e.form \in CellForms => c.cells[Cell(e)] = e.text
FiltersTold(c, A) ==
    /\ DOMAIN c.filters = {e.on : e \in {x \in A : x.form = "filter"}}
    /\ \A e \in A : e.form = "filter" => c.filters[e.on] = NamesIn(e.text)

PartsTold(A, o, id, part) ==
    {x \in A : x.form = "ref" /\ Named(x.on) = o /\ x.name = id /\ x.part = part}
TextOfOne(P, default) == IF P = {} THEN default ELSE (CHOOSE x \in P : TRUE).text
PartTold(A, o, id, part) == TextOfOne(PartsTold(A, o, id, part), NewRef(id)[part])
RefTold(A, o, id) ==
    [id |-> id, ref |-> PartTold(A, o, id, "ref"), level |-> PartTold(A, o, id, "level")]
RefsOfTold(rs, A, o) ==
    /\ IsList(rs)
    /\ \A i \in DOMAIN rs : rs[i] = RefTold(A, o, rs[i].id)
    /\ \A i, j \in DOMAIN rs : rs[i].id = rs[j].id => i = j
    /\ {rs[i].id : i \in DOMAIN rs} = {x.name : x \in {y \in A : y.form = "ref" /\ Named(y.on) = o}}
ListTold(rs, e) ==
    /\ IsList(rs)
    /\ ToSet(rs) = {ListRef(t) : t \in ToSet(e.text)}
RefsTold(c, A) ==
    /\ DOMAIN c.refs = {Named(e.on) : e \in {x \in A : x.form \in {"list", "ref"}}}
    /\ \A e \in A : e.form = "list" => ListTold(c.refs[Named(e.on)], e)
    /\ \A e \in A : e.form = "ref" => RefsOfTold(c.refs[Named(e.on)], A, Named(e.on))

Told(c, A) == IsConfig(c) /\ CellsTold(c, A) /\ FiltersTold(c, A) /\ RefsTold(c, A)

LEMMA SetFacts ==
    \A f, x, y : /\ DOMAIN Set(f, x, y) = DOMAIN f \cup {x}
                 /\ Set(f, x, y)[x] = y
                 /\ \A z \in DOMAIN f : z # x => Set(f, x, y)[z] = f[z]
BY DEF Set

LEMMA ApplyForms ==
    ASSUME NEW c, IsConfig(c), NEW e
    PROVE  /\ IsConfig(Apply(c, e))
           /\ e.form \in CellForms =>
                /\ Apply(c, e).cells = Set(c.cells, Cell(e), e.text)
                /\ Apply(c, e).refs = c.refs /\ Apply(c, e).filters = c.filters
           /\ e.form = "list" =>
                /\ Apply(c, e).refs = Set(c.refs, Named(e.on),
                      (IF Properties THEN <<>> ELSE RefsOf(c, Named(e.on))) \o ListRefs(e.text))
                /\ Apply(c, e).cells = c.cells /\ Apply(c, e).filters = c.filters
           /\ e.form = "ref" =>
                /\ Apply(c, e).refs = Set(c.refs, Named(e.on), WithRef(RefsOf(c, Named(e.on)), e))
                /\ Apply(c, e).cells = c.cells /\ Apply(c, e).filters = c.filters
           /\ e.form = "filter" =>
                /\ Apply(c, e).filters = Set(c.filters, e.on, NamesIn(e.text))
                /\ Apply(c, e).cells = c.cells /\ Apply(c, e).refs = c.refs
           /\ e.form \in {"alias", "unknown"} => Apply(c, e) = c
<1> DEFINE F1 == e.form \in CellForms
<1>1. CASE e.form \in CellForms
  <2>1. Apply(c, e) = [c EXCEPT !.cells = Set(c.cells, Cell(e), e.text)]
    BY <1>1 DEF Apply, CellForms
  <2> QED
    BY <1>1, <2>1 DEF IsConfig, CellForms
<1>2. CASE e.form = "list"
  <2>1. Apply(c, e) = [c EXCEPT !.refs = Set(c.refs, Named(e.on),
                         (IF Properties THEN <<>> ELSE RefsOf(c, Named(e.on))) \o ListRefs(e.text))]
    BY <1>2 DEF Apply
  <2> QED
    BY <1>2, <2>1 DEF IsConfig, CellForms
<1>3. CASE e.form = "ref"
  <2>1. Apply(c, e) = [c EXCEPT !.refs = Set(c.refs, Named(e.on), WithRef(RefsOf(c, Named(e.on)), e))]
    BY <1>3 DEF Apply
  <2> QED
    BY <1>3, <2>1 DEF IsConfig, CellForms
<1>4. CASE e.form = "filter"
  <2>1. Apply(c, e) = [c EXCEPT !.filters = Set(c.filters, e.on, NamesIn(e.text))]
    BY <1>4 DEF Apply, NamesIn
  <2> QED
    BY <1>4, <2>1 DEF IsConfig, CellForms
<1>5. CASE e.form \notin CellForms \cup {"list", "ref", "filter"}
  <2>1. Apply(c, e) = c
    BY <1>5 DEF Apply, CellForms
  <2> QED
    BY <1>5, <2>1 DEF CellForms
<1> QED
  BY <1>1, <1>2, <1>3, <1>4, <1>5

LEMMA CellParts ==
    ASSUME NEW e, e.form \in CellForms
    PROVE  /\ Cell(e)[1] = e.form /\ Cell(e)[3] = e.name
           /\ e.form = "field" => Cell(e)[2] = Named(e.on) /\ Cell(e)[4] = Spelling(e)
           /\ e.form = "level" => Cell(e)[2] = "" /\ Cell(e)[4] = Spelling(e)
           /\ e.form = "property" => Cell(e)[2] = "" /\ Cell(e)[4] = "camel"
           /\ e.form = "pair" => Cell(e)[2] = e.on /\ Cell(e)[4] = e.part
BY DEF Cell, CellForms

LEMMA CellIsOwn ==
    ASSUME SaidOnce, NEW e \in Said, NEW x \in Said, e.form \in CellForms, x.form \in CellForms,
           Cell(e) = Cell(x)
    PROVE  e = x
<1>1. e.form = x.form /\ e.name = x.name
  BY CellParts
<1>2. WellSaid(e) /\ WellSaid(x)
  BY DEF SaidOnce, Said
<1>3. Target(e) = Target(x)
  <2>1. CASE e.form = "field"
    BY <1>1, <2>1, CellParts DEF Target
  <2>2. CASE e.form \in {"level", "property"}
    BY <1>1, <1>2, <2>2 DEF Target, WellSaid
  <2>3. CASE e.form = "pair"
    <3>1. e.on = x.on /\ e.part = x.part
      BY <1>1, <2>3, CellParts
    <3> QED
      BY <1>1, <2>3, <3>1 DEF Target
  <2> QED
    BY <2>1, <2>2, <2>3 DEF CellForms
<1> QED
  BY <1>3 DEF SaidOnce

LEMMA CellsGrow ==
    ASSUME SaidOnce, NEW c, NEW A \in SUBSET Said, NEW e \in Said, e.form \in CellForms, Told(c, A)
    PROVE  Told(Apply(c, e), A \cup {e})
<1> DEFINE d == Apply(c, e)
           B == A \cup {e}
<1>1. IsConfig(d) /\ d.cells = Set(c.cells, Cell(e), e.text) /\ d.refs = c.refs /\ d.filters = c.filters
  BY ApplyForms DEF Told
<1>2. /\ {x \in B : x.form = "filter"} = {x \in A : x.form = "filter"}
      /\ {x \in B : x.form \in {"list", "ref"}} = {x \in A : x.form \in {"list", "ref"}}
      /\ {x \in B : x.form \in CellForms} = {x \in A : x.form \in CellForms} \cup {e}
      /\ \A o, id, part : PartsTold(B, o, id, part) = PartsTold(A, o, id, part)
      /\ \A o : {y \in B : y.form = "ref" /\ Named(y.on) = o} = {y \in A : y.form = "ref" /\ Named(y.on) = o}
  BY DEF CellForms, PartsTold
<1> HIDE DEF d, B
<1>3. CellsTold(d, B)
  <2>1. DOMAIN d.cells = DOMAIN c.cells \cup {Cell(e)}
    BY <1>1, SMT DEF Set
  <2>2. DOMAIN d.cells = {Cell(x) : x \in {y \in B : y.form \in CellForms}}
    BY <1>2, <2>1 DEF Told, CellsTold
  <2>3. ASSUME NEW x \in B, x.form \in CellForms PROVE d.cells[Cell(x)] = x.text
    <3>1. CASE x = e
      BY <1>1, <3>1, SMT DEF Set
    <3>2. CASE x # e
      <4>1. x \in A /\ Cell(x) # Cell(e)
        BY <2>3, <3>2, CellIsOwn DEF B
      <4>2. Cell(x) \in DOMAIN c.cells /\ c.cells[Cell(x)] = x.text
        BY <2>3, <4>1 DEF Told, CellsTold
      <4> QED
        BY <1>1, <4>1, <4>2, SMT DEF Set
    <3> QED
      BY <3>1, <3>2
  <2> QED
    BY <2>2, <2>3 DEF CellsTold
<1>4. \A x \in B : x.form \in {"filter", "list", "ref"} => x \in A
  BY <1>2 DEF B, CellForms
<1>5. FiltersTold(d, B)
  BY <1>1, <1>2, <1>4 DEF Told, FiltersTold
<1>6. RefsTold(d, B)
  <2>1. \A o, id : RefTold(B, o, id) = RefTold(A, o, id)
    BY <1>2 DEF RefTold, PartTold
  <2>2. \A rs, o : RefsOfTold(rs, A, o) => RefsOfTold(rs, B, o)
    BY <1>2, <2>1 DEF RefsOfTold
  <2> QED
    BY <1>1, <1>2, <1>4, <2>2 DEF Told, RefsTold
<1> QED
  BY <1>1, <1>3, <1>5, <1>6 DEF Told, d, B

LEMMA FiltersGrow ==
    ASSUME SaidOnce, NEW c, NEW A \in SUBSET Said, NEW e \in Said, e.form = "filter", Told(c, A)
    PROVE  Told(Apply(c, e), A \cup {e})
<1> DEFINE d == Apply(c, e)
           B == A \cup {e}
<1>1. IsConfig(d) /\ d.filters = Set(c.filters, e.on, NamesIn(e.text)) /\ d.refs = c.refs /\ d.cells = c.cells
  BY ApplyForms DEF Told
<1>2. /\ {x \in B : x.form \in CellForms} = {x \in A : x.form \in CellForms}
      /\ {x \in B : x.form \in {"list", "ref"}} = {x \in A : x.form \in {"list", "ref"}}
      /\ {x \in B : x.form = "filter"} = {x \in A : x.form = "filter"} \cup {e}
      /\ \A o, id, part : PartsTold(B, o, id, part) = PartsTold(A, o, id, part)
      /\ \A o : {y \in B : y.form = "ref" /\ Named(y.on) = o} = {y \in A : y.form = "ref" /\ Named(y.on) = o}
  BY DEF CellForms, PartsTold
<1> HIDE DEF d, B
<1>3. FiltersTold(d, B)
  <2>1. DOMAIN d.filters = DOMAIN c.filters \cup {e.on}
    BY <1>1, SMT DEF Set
  <2>2. DOMAIN d.filters = {x.on : x \in {y \in B : y.form = "filter"}}
    BY <1>2, <2>1 DEF Told, FiltersTold
  <2>3. ASSUME NEW x \in B, x.form = "filter" PROVE d.filters[x.on] = NamesIn(x.text)
    <3>1. CASE x = e
      BY <1>1, <3>1, SMT DEF Set
    <3>2. CASE x # e
      <4>1. x \in A /\ x.on # e.on
        <5>1. x \in A /\ x.name = "" /\ e.name = ""
          BY <2>3, <3>2 DEF B, SaidOnce, Said, WellSaid
        <5>2. x.on = e.on => Target(x) = Target(e)
          BY <2>3, <5>1 DEF Target
        <5> QED
          BY <3>2, <5>1, <5>2 DEF SaidOnce
      <4>2. x.on \in DOMAIN c.filters /\ c.filters[x.on] = NamesIn(x.text)
        BY <2>3, <4>1 DEF Told, FiltersTold
      <4> QED
        BY <1>1, <4>1, <4>2, SMT DEF Set
    <3> QED
      BY <3>1, <3>2
  <2> QED
    BY <2>2, <2>3 DEF FiltersTold
<1>4. \A x \in B : x.form \in CellForms \cup {"list", "ref"} => x \in A
  BY <1>2 DEF B, CellForms
<1>5. CellsTold(d, B)
  BY <1>1, <1>2, <1>4 DEF Told, CellsTold
<1>6. RefsTold(d, B)
  <2>1. \A o, id : RefTold(B, o, id) = RefTold(A, o, id)
    BY <1>2 DEF RefTold, PartTold
  <2>2. \A rs, o : RefsOfTold(rs, A, o) => RefsOfTold(rs, B, o)
    BY <1>2, <2>1 DEF RefsOfTold
  <2> QED
    BY <1>1, <1>2, <1>4, <2>2 DEF Told, RefsTold
<1> QED
  BY <1>1, <1>3, <1>5, <1>6 DEF Told, d, B

LEMMA ListRefsAre ==
    ASSUME NEW text \in Seq(Pieces)
    PROVE  /\ IsList(ListRefs(text))
           /\ ToSet(ListRefs(text)) = {ListRef(t) : t \in ToSet(text)}
<1> DEFINE l == ListRefs(text)
<1>1. PICK n \in Nat : n = Len(text) /\ DOMAIN text = 1..n
  OBVIOUS
<1>2. l = [i \in 1..n |-> ListRef(text[i])]
  BY <1>1, Zenon DEF ListRefs, ListRef
<1>3. \A i \in 1..n : text[i] \in Pieces
  BY <1>1
<1> DEFINE S == {ListRef(t) : t \in Pieces}
<1>5. l \in [1..n -> S]
  BY <1>2, <1>3
<1>6. l \in Seq(S) /\ DOMAIN l = 1..n
  <2> HIDE DEF l, S
  <2> QED
    BY <1>5, FunctionIsSequence
<1>7. \A i \in 1..n : l[i] = ListRef(text[i])
  BY <1>2
<1> HIDE DEF l
<1>8. {l[i] : i \in 1..n} = {ListRef(text[i]) : i \in 1..n}
  BY <1>7
<1>9. {ListRef(text[i]) : i \in 1..n} = {ListRef(t) : t \in ToSet(text)}
  BY <1>1 DEF ToSet
<1>10. ToSet(l) = {ListRef(t) : t \in ToSet(text)}
  BY <1>6, <1>8, <1>9 DEF ToSet
<1> QED
  BY <1>6, <1>10, Zenon DEF l, IsList

LEMMA InBoth ==
    ASSUME NEW a, NEW b, IsList(a), IsList(b)
    PROVE  /\ IsList(a \o b)
           /\ ToSet(a \o b) = ToSet(a) \cup ToSet(b)
<1>1. PICK c : c = a \o b
  OBVIOUS
<1> DEFINE S == ToSet(a) \cup ToSet(b)
<1>0. a \in Seq(S) /\ b \in Seq(S)
  <2>1. ASSUME NEW s, IsList(s), ToSet(s) \subseteq S PROVE s \in Seq(S)
    <3>1. PICK T : s \in Seq(T)
      BY <2>1 DEF IsList
    <3>2. PICK n \in Nat : DOMAIN s = 1..n /\ s \in [1..n -> T]
      BY <3>1
    <3>3. \A i \in 1..n : s[i] \in S
      BY <2>1, <3>2 DEF ToSet
    <3> HIDE DEF S
    <3>4. s \in [1..n -> S]
      BY <3>2, <3>3
    <3> QED
      BY <3>4, FunctionIsSequence
  <2>2. ToSet(a) \subseteq S /\ ToSet(b) \subseteq S
    OBVIOUS
  <2> HIDE DEF S
  <2> QED
    BY <2>1, <2>2
<1> HIDE DEF S
<1>2. PICK m \in Nat, n \in Nat : m = Len(a) /\ n = Len(b)
  BY <1>0
<1>3. /\ c \in Seq(S) /\ DOMAIN c = 1..(m + n) /\ DOMAIN a = 1..m /\ DOMAIN b = 1..n
      /\ \A i \in 1..m : c[i] = a[i]
      /\ \A i \in 1..n : c[m + i] = b[i]
  BY <1>0, <1>1, <1>2
<1>4. \A i \in 1..(m + n) : c[i] \in {a[j] : j \in 1..m} \cup {b[j] : j \in 1..n}
  <2> TAKE i \in 1..(m + n)
  <2>1. CASE i \in 1..m
    BY <1>3, <2>1
  <2>2. CASE i \notin 1..m
    <3>1. i - m \in 1..n /\ i = m + (i - m)
      BY <2>2
    <3>2. c[i] = b[i - m]
      BY <1>3, <3>1
    <3> QED
      BY <3>1, <3>2
  <2> QED
    BY <2>1, <2>2
<1>5. \A i \in 1..m : a[i] \in {c[j] : j \in 1..(m + n)}
  <2> TAKE i \in 1..m
  <2>1. i \in 1..(m + n) /\ c[i] = a[i]
    BY <1>3
  <2> QED
    BY <2>1
<1>6. \A i \in 1..n : b[i] \in {c[j] : j \in 1..(m + n)}
  <2> TAKE i \in 1..n
  <2>1. m + i \in 1..(m + n) /\ c[m + i] = b[i]
    BY <1>3
  <2> QED
    BY <2>1
<1>7. {c[j] : j \in 1..(m + n)} = {a[j] : j \in 1..m} \cup {b[j] : j \in 1..n}
  BY <1>4, <1>5, <1>6
<1>8. ToSet(c) = ToSet(a) \cup ToSet(b)
  BY <1>3, <1>7 DEF ToSet
<1> QED
  BY <1>1, <1>3, <1>8, Zenon DEF IsList

LEMMA ListGrows ==
    ASSUME SaidOnce, NEW c, NEW A \in SUBSET Said, NEW e \in Said, e.form = "list", Told(c, A)
    PROVE  Told(Apply(c, e), A \cup {e})
<1> DEFINE d == Apply(c, e)
           B == A \cup {e}
           o == Named(e.on)
           rs == (IF Properties THEN <<>> ELSE RefsOf(c, o)) \o ListRefs(e.text)
<1>1. IsConfig(d) /\ d.refs = Set(c.refs, o, rs) /\ d.filters = c.filters /\ d.cells = c.cells
  BY ApplyForms DEF Told
<1>2. /\ {x \in B : x.form \in CellForms} = {x \in A : x.form \in CellForms}
      /\ {x \in B : x.form = "filter"} = {x \in A : x.form = "filter"}
      /\ {x \in B : x.form \in {"list", "ref"}} = {x \in A : x.form \in {"list", "ref"}} \cup {e}
      /\ \A p, id, part : PartsTold(B, p, id, part) = PartsTold(A, p, id, part)
      /\ \A p : {y \in B : y.form = "ref" /\ Named(y.on) = p} = {y \in A : y.form = "ref" /\ Named(y.on) = p}
  BY DEF CellForms, PartsTold
<1>3. \A x \in Said : x.form = "list" /\ Named(x.on) = o => x = e
  <2> TAKE x \in Said
  <2> HAVE x.form = "list" /\ Named(x.on) = o
  <2>1. x.name = "" /\ e.name = ""
    BY DEF SaidOnce, Said, WellSaid
  <2>2. Target(x) = Target(e)
    BY <2>1 DEF Target
  <2> QED
    BY <2>2 DEF SaidOnce
<1>4. \A x \in Said : x.form = "ref" => Named(x.on) # o
  BY DEF SaidOnce
<1>5. e.text \in Seq(Pieces)
  BY DEF SaidOnce, Said, Sayings
<1>6. ListTold(rs, e)
  <2> DEFINE had == IF Properties THEN <<>> ELSE RefsOf(c, o)
             new == ListRefs(e.text)
             L == {ListRef(t) : t \in ToSet(e.text)}
  <2>1. IsList(new) /\ ToSet(new) = L
    BY <1>5, ListRefsAre
  <2>2. IsList(had) /\ ToSet(had) \subseteq L
    <3>1. CASE Properties \/ o \notin DOMAIN c.refs
      <4>1. had = <<>>
        BY <3>1 DEF RefsOf
      <4> HIDE DEF had
      <4>2. ToSet(<<>>) = {}
        BY DEF ToSet
      <4>3. IsList(<<>>)
        <5>1. <<>> \in Seq({})
          OBVIOUS
        <5> QED
          BY <5>1, Zenon DEF IsList
      <4> QED
        BY <4>1, <4>2, <4>3
    <3>2. CASE ~Properties /\ o \in DOMAIN c.refs
      <4>1. PICK x \in A : x.form \in {"list", "ref"} /\ Named(x.on) = o
        BY <3>2 DEF Told, RefsTold
      <4>2. x = e /\ e \in A
        BY <1>3, <1>4, <4>1
      <4>3. ListTold(c.refs[o], e)
        BY <4>2 DEF Told, RefsTold
      <4>4. had = c.refs[o]
        BY <3>2 DEF RefsOf
      <4> HIDE DEF had, o
      <4> QED
        BY <4>3, <4>4 DEF ListTold
    <3> QED
      BY <3>1, <3>2
  <2>3. rs = had \o new
    OBVIOUS
  <2> HIDE DEF had, new, rs
  <2>4. IsList(rs) /\ ToSet(rs) = ToSet(had) \cup ToSet(new)
    <3>1. IsList(had) /\ IsList(new)
      BY <2>1, <2>2
    <3>2. /\ IsList(had \o new)
          /\ ToSet(had \o new) = ToSet(had) \cup ToSet(new)
      BY <3>1, InBoth
    <3> QED
      BY <2>3, <3>2, Zenon
  <2>5. ToSet(rs) = L
    BY <2>1, <2>2, <2>4
  <2> QED
    BY <2>4, <2>5, Zenon DEF ListTold
<1> HIDE DEF d, B, rs
<1>7. \A x \in B : x.form \in CellForms \cup {"filter", "ref"} => x \in A
  BY <1>2 DEF B, CellForms
<1>8. CellsTold(d, B) /\ FiltersTold(d, B)
  BY <1>1, <1>2, <1>7 DEF Told, CellsTold, FiltersTold
<1>9. RefsTold(d, B)
  <2>1. \A p, id : RefTold(B, p, id) = RefTold(A, p, id)
    BY <1>2 DEF RefTold, PartTold
  <2>2. \A s, p : RefsOfTold(s, A, p) => RefsOfTold(s, B, p)
    BY <1>2, <2>1 DEF RefsOfTold
  <2>3. DOMAIN d.refs = {Named(x.on) : x \in {y \in B : y.form \in {"list", "ref"}}}
    <3>1. DOMAIN d.refs = DOMAIN c.refs \cup {o}
      BY <1>1, SMT DEF Set
    <3> QED
      BY <1>2, <3>1 DEF Told, RefsTold
  <2>4. d.refs[o] = rs
    BY <1>1, SMT DEF Set
  <2>5. ASSUME NEW x \in B, x.form \in {"list", "ref"}, x # e
        PROVE  x \in A /\ d.refs[Named(x.on)] = c.refs[Named(x.on)]
    <3>1. x \in A /\ Named(x.on) # o
      BY <1>3, <1>4, <2>5 DEF B
    <3>2. Named(x.on) \in DOMAIN c.refs
      BY <2>5, <3>1 DEF Told, RefsTold
    <3> HIDE DEF o
    <3> QED
      BY <1>1, <3>1, <3>2, SMT DEF Set
  <2>6. ASSUME NEW x \in B, x.form = "list" PROVE ListTold(d.refs[Named(x.on)], x)
    <3>1. CASE x = e
      BY <1>6, <2>4, <3>1
    <3>2. CASE x # e
      BY <2>5, <2>6, <3>2 DEF Told, RefsTold
    <3> QED
      BY <3>1, <3>2
  <2>7. ASSUME NEW x \in B, x.form = "ref" PROVE RefsOfTold(d.refs[Named(x.on)], B, Named(x.on))
    <3>1. x # e
      BY <2>7
    <3> QED
      BY <2>2, <2>5, <2>7, <3>1 DEF Told, RefsTold
  <2> QED
    BY <2>3, <2>6, <2>7 DEF RefsTold
<1> QED
  BY <1>1, <1>8, <1>9 DEF Told, d, B

OtherPartsStay(A, B, o, e) ==
    \A id, part : id # e.name \/ part # e.part => PartTold(B, o, id, part) = PartTold(A, o, id, part)

LEMMA PartsGrow ==
    ASSUME SaidOnce, NEW A \in SUBSET Said, NEW e \in Said, e.form = "ref", NEW o, o = Named(e.on)
    PROVE  /\ PartTold(A \cup {e}, o, e.name, e.part) = e.text
           /\ OtherPartsStay(A, A \cup {e}, o, e)
<1>1. PartsTold(A \cup {e}, o, e.name, e.part) = {e}
  <2>1. ASSUME NEW x \in A \cup {e}, x.form = "ref", Named(x.on) = o, x.name = e.name, x.part = e.part
        PROVE  x = e
    <3>1. Target(x) = Target(e)
      BY <2>1 DEF Target
    <3> QED
      BY <2>1, <3>1 DEF SaidOnce
  <2> QED
    BY <2>1 DEF PartsTold
<1>2. TextOfOne({e}, NewRef(e.name)[e.part]) = e.text
  BY DEF TextOfOne
<1>3. ASSUME NEW id, NEW part, id # e.name \/ part # e.part
      PROVE  PartsTold(A \cup {e}, o, id, part) = PartsTold(A, o, id, part)
  BY <1>3 DEF PartsTold
<1> QED
  BY <1>1, <1>2, <1>3 DEF PartTold, OtherPartsStay

LEMMA WithRefIs ==
    ASSUME SaidOnce, NEW A \in SUBSET Said, NEW e \in Said, e.form = "ref", NEW o, o = Named(e.on),
           NEW had, RefsOfTold(had, A, o)
    PROVE  RefsOfTold(WithRef(had, e), A \cup {e}, o)
<1> DEFINE B == A \cup {e}
           id == e.name
           own == {i \in DOMAIN had : had[i].id = id}
           old_ == RefOf(had, id).old
           new == [old_ EXCEPT !.id = id, ![e.part] = e.text]
<1>1. WellSaid(e) /\ id # "" /\ e.part \in {"ref", "level"}
  BY DEF SaidOnce, Said, WellSaid
<1>2. \A i \in DOMAIN had : had[i].id # ""
  <2>1. \A x \in A : x.form = "ref" => x.name # ""
    BY DEF SaidOnce, Said, WellSaid
  <2>2. {had[i].id : i \in DOMAIN had} = {x.name : x \in {y \in A : y.form = "ref" /\ Named(y.on) = o}}
    BY DEF RefsOfTold
  <2> TAKE i \in DOMAIN had
  <2>3. had[i].id \in {x.name : x \in {y \in A : y.form = "ref" /\ Named(y.on) = o}}
    BY <2>2
  <2> QED
    BY <2>1, <2>3
<1>3. PICK S, n : had \in Seq(S) /\ n \in Nat /\ n = Len(had) /\ DOMAIN had = 1..n
  <2>1. PICK S : had \in Seq(S)
    BY DEF RefsOfTold, IsList
  <2>2. Len(had) \in Nat /\ DOMAIN had = 1..Len(had)
    BY <2>1
  <2> QED
    BY <2>1, <2>2
<1>4. RefOf(had, id) = IF own = {} THEN [at |-> Len(had) + 1, old |-> NewRef(id)]
                       ELSE LET i == CHOOSE i \in own : \A j \in own : i <= j IN [at |-> i, old |-> had[i]]
  <2>1. own = {i \in DOMAIN had : \/ had[i].id = id
                                  \/ Properties /\ had[i].id = "" /\ had[i].ref = <<Word(id)>>}
    BY <1>2
  <2> HIDE DEF own
  <2> QED
    BY <2>1, Zenon DEF RefOf
<1>5. \A i, j \in own : i = j
  BY DEF RefsOfTold
<1>6. \A k, p : k # id \/ p # e.part => PartTold(B, o, k, p) = PartTold(A, o, k, p)
  <2>1. OtherPartsStay(A, A \cup {e}, o, e)
    BY PartsGrow
  <2> QED
    BY <2>1, Zenon DEF OtherPartsStay
<1>7. PartTold(B, o, id, e.part) = e.text
  <2>1. PartTold(A \cup {e}, o, e.name, e.part) = e.text
    BY PartsGrow, Zenon
  <2> QED
    BY <2>1 DEF B
<1> HIDE DEF B
<1>8. \A k : k # id => RefTold(B, o, k) = RefTold(A, o, k)
  BY <1>6 DEF RefTold
<1>9. [RefTold(A, o, id) EXCEPT !.id = id, ![e.part] = e.text] = RefTold(B, o, id)
  <2>1. CASE e.part = "ref"
    <3>1. PartTold(B, o, id, "level") = PartTold(A, o, id, "level")
      BY <1>6, <2>1
    <3>2. PICK a, b, t : a = PartTold(A, o, id, "ref") /\ b = PartTold(A, o, id, "level") /\ t = e.text
      OBVIOUS
    <3>3. /\ RefTold(A, o, id) = [id |-> id, ref |-> a, level |-> b]
          /\ RefTold(B, o, id) = [id |-> id, ref |-> t, level |-> b]
      BY <1>7, <2>1, <3>1, <3>2 DEF RefTold
    <3>4. \A R, p : [R EXCEPT !.id = id, ![p] = t] = [[R EXCEPT !.id = id] EXCEPT ![p] = t]
      OBVIOUS
    <3>5. [[id |-> id, ref |-> a, level |-> b] EXCEPT !.id = id] = [id |-> id, ref |-> a, level |-> b]
      OBVIOUS
    <3>6. [[id |-> id, ref |-> a, level |-> b] EXCEPT !["ref"] = t] = [id |-> id, ref |-> t, level |-> b]
      OBVIOUS
    <3>7. PICK R : R = RefTold(A, o, id)
      OBVIOUS
    <3>8. [R EXCEPT !.id = id, ![e.part] = e.text] = [[R EXCEPT !.id = id] EXCEPT !["ref"] = t]
      BY <2>1, <3>2, <3>4
    <3>9. [[R EXCEPT !.id = id] EXCEPT !["ref"] = t] = RefTold(B, o, id)
      BY <3>3, <3>5, <3>6, <3>7
    <3> QED
      BY <3>7, <3>8, <3>9
  <2>2. CASE e.part = "level"
    <3>1. PartTold(B, o, id, "ref") = PartTold(A, o, id, "ref")
      BY <1>6, <2>2
    <3>2. PICK a, b, t : a = PartTold(A, o, id, "ref") /\ b = PartTold(A, o, id, "level") /\ t = e.text
      OBVIOUS
    <3>3. /\ RefTold(A, o, id) = [id |-> id, ref |-> a, level |-> b]
          /\ RefTold(B, o, id) = [id |-> id, ref |-> a, level |-> t]
      BY <1>7, <2>2, <3>1, <3>2 DEF RefTold
    <3>4. \A R, p : [R EXCEPT !.id = id, ![p] = t] = [[R EXCEPT !.id = id] EXCEPT ![p] = t]
      OBVIOUS
    <3>5. [[id |-> id, ref |-> a, level |-> b] EXCEPT !.id = id] = [id |-> id, ref |-> a, level |-> b]
      OBVIOUS
    <3>6. [[id |-> id, ref |-> a, level |-> b] EXCEPT !["level"] = t] = [id |-> id, ref |-> a, level |-> t]
      OBVIOUS
    <3>7. PICK R : R = RefTold(A, o, id)
      OBVIOUS
    <3>8. [R EXCEPT !.id = id, ![e.part] = e.text] = [[R EXCEPT !.id = id] EXCEPT !["level"] = t]
      BY <2>2, <3>2, <3>4
    <3>9. [[R EXCEPT !.id = id] EXCEPT !["level"] = t] = RefTold(B, o, id)
      BY <3>3, <3>5, <3>6, <3>7
    <3> QED
      BY <3>7, <3>8, <3>9
  <2> QED
    BY <1>1, <2>1, <2>2
<1>10. {x.name : x \in {y \in B : y.form = "ref" /\ Named(y.on) = o}}
         = {x.name : x \in {y \in A : y.form = "ref" /\ Named(y.on) = o}} \cup {id}
  BY DEF B
<1>11. WithRef(had, e) = IF RefOf(had, id).at > Len(had) THEN Append(had, new)
                         ELSE [had EXCEPT ![RefOf(had, id).at] = new]
  BY Zenon DEF WithRef
<1>12. CASE own = {}
  <2>1. old_ = NewRef(id) /\ RefOf(had, id).at = n + 1
    BY <1>3, <1>4, <1>12
  <2>2. NewRef(id) = RefTold(A, o, id)
    <3>1. \A i \in DOMAIN had : had[i].id # id
      BY <1>12
    <3>2. \A x \in A : x.form = "ref" /\ Named(x.on) = o => x.name # id
      BY <3>1 DEF RefsOfTold
    <3>3. PartsTold(A, o, id, "ref") = {} /\ PartsTold(A, o, id, "level") = {}
      BY <3>2 DEF PartsTold
    <3>4. /\ PartTold(A, o, id, "ref") = NewRef(id)["ref"]
          /\ PartTold(A, o, id, "level") = NewRef(id)["level"]
      BY <3>3 DEF PartTold, TextOfOne
    <3> QED
      BY <3>4 DEF RefTold, NewRef
  <2>3. new = RefTold(B, o, id)
    BY <1>9, <2>1, <2>2
  <2> HIDE DEF new, own
  <2>4. PICK rs, m : rs = WithRef(had, e) /\ m = RefTold(B, o, id)
    OBVIOUS
  <2>5. rs = Append(had, m)
    BY <1>3, <1>11, <2>1, <2>3, <2>4
  <2>6. /\ rs \in Seq(S \cup {m}) /\ DOMAIN rs = 1..(n + 1) /\ rs[n + 1] = m
        /\ \A i \in 1..n : rs[i] = had[i]
    <3>1. had \in Seq(S \cup {m})
      BY <1>3
    <3> QED
      BY <1>3, <2>5, <3>1
  <2>7. m.id = id /\ n \in Nat
    BY <1>3, <2>4 DEF RefTold
  <2>8. \A i \in 1..n : had[i].id # id
    BY <1>3, <1>12 DEF own
  <2>9. \A i \in DOMAIN rs : rs[i] = RefTold(B, o, rs[i].id)
    <3> TAKE i \in DOMAIN rs
    <3>1. CASE i = n + 1
      BY <2>4, <2>6, <2>7, <3>1
    <3>2. CASE i # n + 1
      <4>1. i \in 1..n /\ rs[i] = had[i] /\ had[i].id # id
        BY <2>6, <2>7, <2>8, <3>2
      <4>2. had[i] = RefTold(A, o, had[i].id)
        BY <1>3, <4>1 DEF RefsOfTold
      <4> QED
        BY <1>8, <4>1, <4>2
    <3> QED
      BY <3>1, <3>2
  <2>10. \A i, j \in DOMAIN rs : rs[i].id = rs[j].id => i = j
    <3>1. \A i, j \in 1..n : had[i].id = had[j].id => i = j
      BY <1>3 DEF RefsOfTold
    <3> QED
      BY <2>6, <2>7, <2>8, <3>1
  <2>11. {rs[i].id : i \in DOMAIN rs} = {had[i].id : i \in DOMAIN had} \cup {id}
    <3>1. DOMAIN rs = (DOMAIN had) \cup {n + 1}
      BY <1>3, <2>6
    <3> QED
      BY <1>3, <2>6, <2>7, <3>1
  <2>12. IsList(rs)
    BY <2>6, Zenon DEF IsList
  <2>13. {rs[i].id : i \in DOMAIN rs} = {x.name : x \in {y \in B : y.form = "ref" /\ Named(y.on) = o}}
    BY <1>10, <2>11 DEF RefsOfTold
  <2>14. RefsOfTold(rs, B, o)
    BY <2>9, <2>10, <2>12, <2>13, Zenon DEF RefsOfTold
  <2> QED
    BY <2>4, <2>14 DEF B
<1>13. CASE own # {}
  <2>1. PICK k \in own : own = {k}
    BY <1>5, <1>13
  <2>2. k \in 1..n /\ had[k].id = id
    BY <1>3, <2>1
  <2>3. (CHOOSE i \in own : \A j \in own : i <= j) = k
    <3>1. \A j \in own : k <= j
      BY <2>1, <2>2
    <3>2. \E i \in own : \A j \in own : i <= j
      BY <3>1
    <3>3. (CHOOSE i \in own : \A j \in own : i <= j) \in own
      BY <3>2
    <3> QED
      BY <2>1, <3>3
  <2>4. RefOf(had, id) = [at |-> k, old |-> had[k]]
    BY <1>4, <1>13, <2>3
  <2>5. old_ = RefTold(A, o, id) /\ RefOf(had, id).at = k
    BY <1>3, <2>2, <2>4 DEF RefsOfTold
  <2>6. new = RefTold(B, o, id)
    BY <1>9, <2>5
  <2> HIDE DEF new, own, old_
  <2>7. PICK rs, m : rs = WithRef(had, e) /\ m = RefTold(B, o, id)
    OBVIOUS
  <2>8. rs = [had EXCEPT ![k] = m]
    <3>1. ~(k > Len(had))
      BY <1>3, <2>2
    <3> QED
      BY <1>11, <2>5, <2>6, <2>7, <3>1
  <2>9. /\ rs \in Seq(S \cup {m}) /\ DOMAIN rs = 1..n /\ rs[k] = m
        /\ \A i \in 1..n : i # k => rs[i] = had[i]
    <3>1. had \in Seq(S \cup {m}) /\ k \in 1..Len(had)
      BY <1>3, <2>2
    <3> QED
      BY <1>3, <2>2, <2>8, <3>1
  <2>10. m.id = id
    BY <2>7 DEF RefTold
  <2>11. \A i, j \in 1..n : had[i].id = had[j].id => i = j
    BY <1>3 DEF RefsOfTold
  <2>12. \A i \in 1..n : rs[i].id = had[i].id
    BY <2>2, <2>9, <2>10
  <2>13. \A i \in DOMAIN rs : rs[i] = RefTold(B, o, rs[i].id)
    <3> TAKE i \in DOMAIN rs
    <3>1. CASE i = k
      BY <2>7, <2>9, <2>10, <3>1
    <3>2. CASE i # k
      <4>1. i \in 1..n /\ rs[i] = had[i] /\ had[i].id # id
        BY <2>2, <2>9, <2>11, <3>2
      <4>2. had[i] = RefTold(A, o, had[i].id)
        BY <1>3, <4>1 DEF RefsOfTold
      <4> QED
        BY <1>8, <4>1, <4>2
    <3> QED
      BY <3>1, <3>2
  <2>14. \A i, j \in DOMAIN rs : rs[i].id = rs[j].id => i = j
    BY <2>9, <2>11, <2>12
  <2>15. {rs[i].id : i \in DOMAIN rs} = {had[i].id : i \in DOMAIN had} \cup {id}
    BY <1>3, <2>2, <2>9, <2>12
  <2>16. IsList(rs)
    BY <2>9, Zenon DEF IsList
  <2>17. {rs[i].id : i \in DOMAIN rs} = {x.name : x \in {y \in B : y.form = "ref" /\ Named(y.on) = o}}
    BY <1>10, <2>15 DEF RefsOfTold
  <2>18. RefsOfTold(rs, B, o)
    BY <2>13, <2>14, <2>16, <2>17, Zenon DEF RefsOfTold
  <2> QED
    BY <2>7, <2>18 DEF B
<1> QED
  BY <1>12, <1>13

LEMMA RefGrows ==
    ASSUME SaidOnce, NEW c, NEW A \in SUBSET Said, NEW e \in Said, e.form = "ref", Told(c, A)
    PROVE  Told(Apply(c, e), A \cup {e})
<1> DEFINE d == Apply(c, e)
           B == A \cup {e}
           o == Named(e.on)
           rs == WithRef(RefsOf(c, o), e)
<1>1. IsConfig(d) /\ d.refs = Set(c.refs, o, rs) /\ d.filters = c.filters /\ d.cells = c.cells
  BY ApplyForms DEF Told
<1>2. /\ {x \in B : x.form \in CellForms} = {x \in A : x.form \in CellForms}
      /\ {x \in B : x.form = "filter"} = {x \in A : x.form = "filter"}
      /\ {x \in B : x.form \in {"list", "ref"}} = {x \in A : x.form \in {"list", "ref"}} \cup {e}
      /\ \A p, id, part : p # o => PartsTold(B, p, id, part) = PartsTold(A, p, id, part)
      /\ \A p : p # o => {y \in B : y.form = "ref" /\ Named(y.on) = p} = {y \in A : y.form = "ref" /\ Named(y.on) = p}
  BY DEF CellForms, PartsTold
<1>3. \A x \in Said : x.form = "list" => Named(x.on) # o
  BY DEF SaidOnce
<1>4. RefsOfTold(RefsOf(c, o), A, o)
  <2>1. CASE o \in DOMAIN c.refs
    <3>1. PICK x \in A : x.form \in {"list", "ref"} /\ Named(x.on) = o
      BY <2>1 DEF Told, RefsTold
    <3>2. x.form = "ref"
      BY <1>3, <3>1
    <3> QED
      BY <2>1, <3>1, <3>2 DEF Told, RefsTold, RefsOf
  <2>2. CASE o \notin DOMAIN c.refs
    <3>1. RefsOf(c, o) = <<>>
      BY <2>2 DEF RefsOf
    <3>2. {y \in A : y.form = "ref" /\ Named(y.on) = o} = {}
      BY <2>2 DEF Told, RefsTold
    <3>3. IsList(<<>>)
      <4>1. <<>> \in Seq({})
        OBVIOUS
      <4> QED
        BY <4>1, Zenon DEF IsList
    <3>4. DOMAIN <<>> = {}
      OBVIOUS
    <3>5. RefsOfTold(<<>>, A, o)
      <4>1. {x.name : x \in {y \in A : y.form = "ref" /\ Named(y.on) = o}} = {}
        BY <3>2
      <4>2. PICK r : r = <<>>
        OBVIOUS
      <4>3. DOMAIN r = {} /\ IsList(r)
        BY <3>3, <3>4, <4>2
      <4>4. {r[i].id : i \in DOMAIN r} = {}
        BY <4>3
      <4>5. RefsOfTold(r, A, o)
        BY <4>1, <4>3, <4>4 DEF RefsOfTold
      <4> QED
        BY <4>2, <4>5
    <3> QED
      BY <3>1, <3>5
  <2> QED
    BY <2>1, <2>2
<1>5. RefsOfTold(rs, B, o)
  BY <1>4, WithRefIs
<1> HIDE DEF d, B, rs, o
<1>6. \A x \in B : x.form \in CellForms \cup {"filter", "list"} => x \in A
  BY DEF B, CellForms
<1>7. CellsTold(d, B) /\ FiltersTold(d, B)
  BY <1>1, <1>2, <1>6 DEF Told, CellsTold, FiltersTold
<1>8. RefsTold(d, B)
  <2>1. \A p, id : p # o => RefTold(B, p, id) = RefTold(A, p, id)
    BY <1>2 DEF RefTold, PartTold
  <2>2. \A s, p : p # o /\ RefsOfTold(s, A, p) => RefsOfTold(s, B, p)
    BY <1>2, <2>1 DEF RefsOfTold
  <2>3. DOMAIN d.refs = {Named(x.on) : x \in {y \in B : y.form \in {"list", "ref"}}}
    <3>1. DOMAIN d.refs = DOMAIN c.refs \cup {o}
      BY <1>1, SMT DEF Set
    <3> QED
      BY <1>2, <3>1 DEF Told, RefsTold, o
  <2>4. d.refs[o] = rs
    BY <1>1, SMT DEF Set
  <2>5. ASSUME NEW x \in A, x.form \in {"list", "ref"}, Named(x.on) # o
        PROVE  d.refs[Named(x.on)] = c.refs[Named(x.on)]
    <3>1. Named(x.on) \in DOMAIN c.refs
      BY <2>5 DEF Told, RefsTold
    <3> QED
      BY <1>1, <2>5, <3>1, SMT DEF Set
  <2>6. ASSUME NEW x \in B, x.form = "list" PROVE ListTold(d.refs[Named(x.on)], x)
    <3>1. x \in A /\ Named(x.on) # o
      BY <1>3, <1>6, <2>6
    <3> QED
      BY <2>5, <2>6, <3>1 DEF Told, RefsTold
  <2>7. ASSUME NEW x \in B, x.form = "ref" PROVE RefsOfTold(d.refs[Named(x.on)], B, Named(x.on))
    <3>1. CASE Named(x.on) = o
      BY <1>5, <2>4, <3>1
    <3>2. CASE Named(x.on) # o
      <4>1. x \in A
        BY <3>2 DEF B, o
      <4> QED
        BY <2>2, <2>5, <2>7, <3>2, <4>1 DEF Told, RefsTold
    <3> QED
      BY <3>1, <3>2
  <2> QED
    BY <2>3, <2>6, <2>7 DEF RefsTold
<1> QED
  BY <1>1, <1>7, <1>8 DEF Told, d, B

LEMMA ApplyTold ==
    ASSUME SaidOnce, NEW c, NEW A \in SUBSET Said, NEW e \in Said, Told(c, A)
    PROVE  Told(Apply(c, e), A \cup {e})
<1>1. e.form \in CellForms \cup {"filter", "list", "ref"}
  BY DEF SaidOnce, Said, Sayings, Forms, CellForms
<1> QED
  BY <1>1, CellsGrow, FiltersGrow, ListGrows, RefGrows

LEMMA ToldNothing == Told(NoConfig, {})
<1>1. IsConfig(NoConfig)
  BY DEF NoConfig, IsConfig
<1>2. PICK r : r = <<>>
  OBVIOUS
<1>3. DOMAIN r = {}
  BY <1>2
<1>4. NoConfig.cells = r /\ NoConfig.refs = r /\ NoConfig.filters = r
  BY <1>2 DEF NoConfig
<1> QED
  BY <1>1, <1>3, <1>4 DEF Told, CellsTold, FiltersTold, RefsTold

-----------------------------------------------------------------------------
(* ConfigLoad: what decoding makes of a document.                          *)
DocumentIsWell ==
    /\ document.format \in {"yaml", "json", "toml", "xml", "properties"}
    /\ document.entries \in Seq(Sayings) /\ \A e \in Entries : WellSaid(e)
    /\ document.format \in {"xml", "properties"} => Cardinality({e.wrap : e \in Entries}) <= 1

LEMMA EntriesAre ==
    ASSUME DocumentIsWell
    PROVE  /\ Entries \subseteq Sayings /\ Len(document.entries) \in Nat
           /\ DOMAIN document.entries = 1..Len(document.entries)
           /\ \A i \in 1..Len(document.entries) : document.entries[i] \in Entries
           /\ \A e \in Entries : \E i \in 1..Len(document.entries) : document.entries[i] = e
BY DEF DocumentIsWell, Entries, ToSet

LEMMA NamedOnceIs ==
    ASSUME DocumentIsWell, NamedOnce
    PROVE  /\ SaidOnce
           /\ \A i, j \in 1..Len(document.entries) :
                document.entries[i] = document.entries[j] /\ document.entries[i] \in Said => i = j
<1> DEFINE E(i) == document.entries[i]
           D == 1..Len(document.entries)
<1>1. /\ \A i, j \in D : E(i) \in Said /\ E(j) \in Said /\ i # j => Target(E(i)) # Target(E(j))
      /\ \A i, j \in D : E(i) \in Said /\ E(j) \in Said /\ i # j /\ {E(i).form, E(j).form} = {"list", "ref"} =>
           Named(E(i).on) # Named(E(j).on)
  BY EntriesAre DEF NamedOnce
<1>2. \A e \in Said : \E i \in D : E(i) = e
  BY EntriesAre DEF Said
<1> HIDE DEF D
<1>3. ASSUME NEW e \in Said, NEW x \in Said, e # x
      PROVE  /\ Target(e) # Target(x)
             /\ e.form = "list" /\ x.form = "ref" => Named(e.on) # Named(x.on)
  <2>1. PICK i \in D : E(i) = e
    BY <1>2
  <2>2. PICK j \in D : E(j) = x
    BY <1>2
  <2> QED
    BY <1>1, <1>3, <2>1, <2>2
<1>4. SaidOnce
  <2>1. \A e, x \in Said : Target(e) = Target(x) => e = x
    BY <1>3
  <2>2. \A e, x \in Said : e.form = "list" /\ x.form = "ref" => Named(e.on) # Named(x.on)
    BY <1>3
  <2>3. Entries \subseteq Sayings /\ \A e \in Entries : WellSaid(e)
    BY EntriesAre DEF DocumentIsWell
  <2> QED
    BY <2>1, <2>2, <2>3 DEF SaidOnce
<1>5. \A i, j \in D : E(i) = E(j) /\ E(i) \in Said => i = j
  BY <1>1
<1> QED
  BY <1>4, <1>5 DEF D

(* YAML, JSON, TOML and XML: one entry after the other.                    *)
AllAtOnce == (Structured /\ WellFormed) \/ document.format = "xml"

NoneDropped == document.format = "xml" => \A e \in Said : ~XmlDropped(e)

LEMMA AllKnown ==
    ASSUME AllAtOnce, NoneDropped, NEW e \in Entries, NEW c
    PROVE  /\ e \in Said => ApplyKnown(c, e) = Apply(c, e)
           /\ e \notin Said => ApplyKnown(c, e) = c
<1>1. CASE Structured /\ WellFormed
  <2>1. e \in Said
    BY <1>1 DEF WellFormed, IsModelled, Said, Structured
  <2> QED
    BY <1>1, <2>1 DEF ApplyKnown
<1>2. CASE document.format = "xml"
  <2>1. e \in Said <=> XmlKnows(e)
    BY <1>2 DEF Said, XmlKnows, XmlAttribute, NoneDropped
  <2>2. ~Structured
    BY <1>2 DEF Structured
  <2> QED
    BY <2>1, <2>2 DEF ApplyKnown
<1> QED
  BY <1>1, <1>2 DEF AllAtOnce

UpTo(i) == {e \in Said : \E j \in 1..i : document.entries[j] = e}

LEMMA FoldTold ==
    ASSUME DocumentIsWell, NamedOnce, AllAtOnce, NoneDropped
    PROVE  Told(FoldLeft(ApplyKnown, NoConfig, document.entries), Said)
<1> DEFINE n == Len(document.entries)
           E(i) == document.entries[i]
<1>1. SaidOnce
  BY NamedOnceIs
<1>2. n \in Nat /\ \A i \in 1..n : E(i) \in Entries
  BY EntriesAre
<1>3. PICK g : Folds(document.entries, g) /\ g[n] = FoldLeft(ApplyKnown, NoConfig, document.entries)
  <2>1. document.entries \in Seq(Sayings)
    BY DEF DocumentIsWell
  <2> QED
    BY <2>1, FoldIs, Zenon
<1>4. g[0] = NoConfig /\ \A i \in 1..n : g[i] = ApplyKnown(g[i - 1], E(i))
  BY <1>3 DEF Folds
<1> DEFINE bad == {i \in 0..n : ~Told(g[i], UpTo(i))}
<1>5. bad = {}
  <2> SUFFICES ASSUME bad # {} PROVE FALSE
    OBVIOUS
  <2>1. bad \in SUBSET Nat
    BY <1>2
  <2>2. PICK i \in bad : \A j \in bad : i <= j
    BY <2>1, LeastNatural
  <2>3. i \in 0..n /\ ~Told(g[i], UpTo(i))
    OBVIOUS
  <2>4. CASE i = 0
    <3>1. UpTo(0) = {}
      BY DEF UpTo
    <3> QED
      BY <1>4, <2>3, <2>4, <3>1, ToldNothing
  <2>5. CASE i # 0
    <3>1. i \in 1..n /\ i - 1 \in 0..n /\ ~(i <= i - 1)
      BY <1>2, <2>3, <2>5
    <3>2. Told(g[i - 1], UpTo(i - 1))
      BY <2>2, <3>1
    <3>3. E(i) \in Entries /\ g[i] = ApplyKnown(g[i - 1], E(i))
      BY <1>2, <1>4, <3>1
    <3>4. \A j \in 1..i : j \in 1..(i - 1) \/ j = i
      BY <1>2, <3>1
    <3>5. \A j \in 1..(i - 1) : j \in 1..i
      BY <1>2, <3>1
    <3>6. i \in 1..i
      BY <1>2, <3>1
    <3>7. CASE E(i) \in Said
      <4>1. g[i] = Apply(g[i - 1], E(i))
        BY <3>3, <3>7, AllKnown
      <4>2. UpTo(i) = UpTo(i - 1) \cup {E(i)}
        BY <3>4, <3>5, <3>6, <3>7 DEF UpTo
      <4>3. UpTo(i - 1) \in SUBSET Said
        BY DEF UpTo
      <4>4. Told(g[i], UpTo(i))
        BY <1>1, <3>2, <3>7, <4>1, <4>2, <4>3, ApplyTold
      <4> QED
        BY <2>3, <4>4
    <3>8. CASE E(i) \notin Said
      <4>1. g[i] = g[i - 1]
        BY <3>3, <3>8, AllKnown
      <4>2. UpTo(i) = UpTo(i - 1)
        BY <3>4, <3>5, <3>8 DEF UpTo
      <4> QED
        BY <2>3, <3>2, <4>1, <4>2
    <3> QED
      BY <3>7, <3>8
  <2> QED
    BY <2>4, <2>5
<1>6. n \in 0..n
  BY <1>2
<1>7. Told(g[n], UpTo(n))
  BY <1>5, <1>6
<1>8. UpTo(n) = Said
  <2>1. \A e \in Said : \E j \in 1..n : E(j) = e
    BY EntriesAre DEF Said
  <2> QED
    BY <2>1 DEF UpTo
<1> QED
  BY <1>3, <1>7, <1>8

(* A properties file: one entry at a time, in any order.                   *)
Applied == {e \in Said : \A i \in todo : document.entries[i] # e}

LEMMA PropertyTold ==
    ASSUME DocumentIsWell, NamedOnce, todo \subseteq DOMAIN document.entries, NEW i \in todo,
           Properties, Told(config, Applied), NEW d, d = Apply(config, document.entries[i]),
           NEW B, B = {e \in Said : \A j \in todo \ {i} : document.entries[j] # e}
    PROVE  Told(d, B)
<1> DEFINE e == document.entries[i]
<1>1. e \in Entries /\ i \in 1..Len(document.entries)
  BY EntriesAre
<1>2. CASE e \in Said
  <2>1. \A j \in todo \ {i} : document.entries[j] # e
    BY <1>1, <1>2, EntriesAre, NamedOnceIs
  <2>2. B = Applied \cup {e}
    BY <1>2, <2>1 DEF Applied
  <2>3. Applied \in SUBSET Said
    BY DEF Applied
  <2> QED
    BY <1>2, <2>2, <2>3, ApplyTold, NamedOnceIs
<1>3. CASE e \notin Said
  <2>1. e.form \in {"unknown", "alias"}
    BY <1>1, <1>3 DEF Said, Properties
  <2>2. IsConfig(config)
    BY DEF Told
  <2>3. d = config
    BY <2>1, <2>2, ApplyForms
  <2>4. B = Applied
    BY <1>3 DEF Applied
  <2> QED
    BY <2>3, <2>4
<1> QED
  BY <1>2, <1>3

LEMMA NothingApplied ==
    ASSUME DocumentIsWell, NamedOnce, Properties, todo = {i \in DOMAIN document.entries :
             \A j \in (i + 1)..Len(document.entries) :
               [document.entries[i] EXCEPT !.text = <<>>] # [document.entries[j] EXCEPT !.text = <<>>]}
    PROVE  Applied = {}
<1> DEFINE E(i) == document.entries[i]
           n == Len(document.entries)
<1>1. ASSUME NEW e \in Said PROVE \E i \in todo : E(i) = e
  <2>1. PICK i \in 1..n : E(i) = e
    BY EntriesAre DEF Said
  <2>2. ASSUME NEW j \in (i + 1)..n, [E(i) EXCEPT !.text = <<>>] = [E(j) EXCEPT !.text = <<>>]
        PROVE  FALSE
    <3>1. n \in Nat /\ j \in 1..n /\ j # i
      BY EntriesAre
    <3>2. E(i) \in Sayings /\ E(j) \in Sayings
      BY <3>1, EntriesAre
    <3>3. E(i).form = E(j).form /\ E(i).on = E(j).on /\ E(i).name = E(j).name /\ E(i).part = E(j).part
      BY <2>2, <3>2 DEF Sayings
    <3>4. E(j) \in Said
      BY <2>1, <3>1, <3>3, EntriesAre DEF Said, Properties
    <3>5. Target(E(i)) = Target(E(j))
      BY <3>3 DEF Target
    <3>6. E(i) = E(j)
      BY <2>1, <3>4, <3>5, NamedOnceIs DEF SaidOnce
    <3> QED
      BY <2>1, <3>1, <3>6, NamedOnceIs
  <2> QED
    BY <2>1, <2>2, EntriesAre
<1> QED
  BY <1>1 DEF Applied

(* What a filter refers to is a list, whatever the file says.              *)
FiltersAreLists(c) == IsConfig(c) /\ \A f \in DOMAIN c.filters : IsList(c.filters[f])

LEMMA ApplyLists ==
    ASSUME NEW c, FiltersAreLists(c), NEW e \in Sayings
    PROVE  FiltersAreLists(Apply(c, e))
<1>1. IsConfig(c) /\ IsConfig(Apply(c, e))
  BY ApplyForms DEF FiltersAreLists
<1>2. CASE e.form = "filter"
  <2>1. Apply(c, e).filters = Set(c.filters, e.on, NamesIn(e.text))
    BY <1>1, <1>2, ApplyForms
  <2>2. IsList(NamesIn(e.text))
    <3>1. e.text \in Seq(Pieces)
      BY DEF Sayings
    <3>2. PICK S : S = {e.text[i].name : i \in DOMAIN e.text}
      OBVIOUS
    <3>3. NamesIn(e.text) \in Seq(S)
      <4>1. PICK k \in Nat : DOMAIN e.text = 1..k
        BY <3>1
      <4>2. NamesIn(e.text) \in [1..k -> S]
        BY <3>2, <4>1 DEF NamesIn
      <4> QED
        BY <4>1, <4>2
    <3> QED
      BY <3>3, Zenon DEF IsList
  <2>3. PICK l, g : l = NamesIn(e.text) /\ g = Set(c.filters, e.on, l)
    OBVIOUS
  <2>4. \A f \in DOMAIN g : IsList(g[f])
    BY <2>2, <2>3, SMT DEF Set, FiltersAreLists
  <2> QED
    BY <1>1, <2>1, <2>3, <2>4 DEF FiltersAreLists
<1>3. CASE e.form # "filter"
  <2>1. e.form \in CellForms \cup {"list", "ref", "alias", "unknown"}
    BY <1>3 DEF Sayings, Forms, CellForms
  <2>2. Apply(c, e).filters = c.filters
    BY <1>1, <2>1, ApplyForms
  <2> QED
    BY <1>1, <2>2 DEF FiltersAreLists
<1> QED
  BY <1>2, <1>3

LEMMA NothingLists == FiltersAreLists(NoConfig)
<1>1. Told(NoConfig, {})
  BY ToldNothing
<1>2. DOMAIN NoConfig.filters = {}
  BY <1>1 DEF Told, FiltersTold
<1> QED
  BY <1>1, <1>2 DEF FiltersAreLists, Told

LEMMA FoldLists ==
    ASSUME DocumentIsWell
    PROVE  FiltersAreLists(FoldLeft(ApplyKnown, NoConfig, document.entries))
<1> DEFINE n == Len(document.entries)
           E(i) == document.entries[i]
<1>2. n \in Nat /\ \A i \in 1..n : E(i) \in Sayings
  BY EntriesAre
<1>3. PICK g : Folds(document.entries, g) /\ g[n] = FoldLeft(ApplyKnown, NoConfig, document.entries)
  <2>1. document.entries \in Seq(Sayings)
    BY DEF DocumentIsWell
  <2> QED
    BY <2>1, FoldIs, Zenon
<1>4. g[0] = NoConfig /\ \A i \in 1..n : g[i] = ApplyKnown(g[i - 1], E(i))
  BY <1>3 DEF Folds
<1> DEFINE bad == {i \in 0..n : ~FiltersAreLists(g[i])}
<1>5. bad = {}
  <2> SUFFICES ASSUME bad # {} PROVE FALSE
    OBVIOUS
  <2>1. bad \in SUBSET Nat
    BY <1>2
  <2>2. PICK i \in bad : \A j \in bad : i <= j
    BY <2>1, LeastNatural
  <2>3. i \in 0..n /\ ~FiltersAreLists(g[i])
    OBVIOUS
  <2>4. CASE i = 0
    BY <1>4, <2>3, <2>4, NothingLists
  <2>5. CASE i # 0
    <3>1. i \in 1..n /\ i - 1 \in 0..n /\ ~(i <= i - 1)
      BY <1>2, <2>3, <2>5
    <3>2. FiltersAreLists(g[i - 1])
      BY <2>2, <3>1
    <3>3. g[i] = Apply(g[i - 1], E(i)) \/ g[i] = g[i - 1]
      BY <1>4, <3>1 DEF ApplyKnown
    <3>4. E(i) \in Sayings
      BY <1>2, <3>1
    <3>5. FiltersAreLists(Apply(g[i - 1], E(i)))
      BY <3>2, <3>4, ApplyLists
    <3> QED
      BY <2>3, <3>2, <3>3, <3>5
  <2> QED
    BY <2>4, <2>5
<1>6. n \in 0..n
  BY <1>2
<1> QED
  BY <1>3, <1>5, <1>6

-----------------------------------------------------------------------------
(* ConfigLoad: while one file is loaded, what is said of it stays.         *)
LEMMA SaidStays ==
    ASSUME document' = document
    PROVE  /\ Entries' = Entries /\ Said' = Said /\ Structured' = Structured
           /\ Properties' = Properties /\ WellFormed' = WellFormed
           /\ \A o : Named(o)' = Named(o)
           /\ \A e : Cell(e)' = Cell(e)
<1>1. Entries' = Entries
  BY DEF Entries
<1>2. Structured' = Structured /\ Properties' = Properties
  BY DEF Structured, Properties
<1>3. Said' = Said
  BY <1>1 DEF Said, XmlAttribute
<1>4. WellFormed' = WellFormed
  BY <1>1 DEF WellFormed
<1>5. \A o : Named(o)' = Named(o)
  BY <1>1, <1>2 DEF Named
<1>6. \A e : Cell(e)' = Cell(e)
  BY <1>2, <1>5 DEF Cell, Spelling
<1> QED
  BY <1>1, <1>2, <1>3, <1>4, <1>5, <1>6

LEMMA MeaningStays ==
    ASSUME document' = document
    PROVE  /\ SaidProperties' = SaidProperties /\ SaidFilters' = SaidFilters
           /\ SaidLevels' = SaidLevels
           /\ \A e : SpacesOf(e)' = SpacesOf(e) /\ Meant(e)' = Meant(e)
           /\ \A e, part, default : PartOf(e, part, default)' = PartOf(e, part, default)
           /\ \A e : FactsOf(e)' = FactsOf(e)
           /\ Meaning' = Meaning
<1>0. Said' = Said /\ Properties' = Properties /\ \A o : Named(o)' = Named(o)
  BY SaidStays
<1>1. SaidProperties' = SaidProperties
  BY <1>0 DEF SaidProperties
<1>2. SaidFilters' = SaidFilters
  BY <1>0 DEF SaidFilters
<1>3. SaidLevels' = SaidLevels
  BY <1>0 DEF SaidLevels
<1>4. \A e : SpacesOf(e)' = SpacesOf(e)
  <2>1. GivenSpaces' = GivenSpaces
    BY DEF GivenSpaces
  <2>2. MeantSpaces' = MeantSpaces
    BY <1>1, <2>1 DEF MeantSpaces
  <2> QED
    BY <2>1, <2>2 DEF SpacesOf
<1>5. \A e : Meant(e)' = Meant(e)
  BY <1>4 DEF Meant
<1>6. \A e : RefParts(e)' = RefParts(e)
  BY <1>0 DEF RefParts
<1>7. \A e, part, default : PartOf(e, part, default)' = PartOf(e, part, default)
  <2> TAKE e, part, default
  <2> QED
    BY <1>5, <1>6 DEF PartOf
<1>8. \A id : NewRef(id)' = NewRef(id)
  BY <1>0 DEF NewRef
<1>9. \A e : FactsOf(e)' = FactsOf(e)
  <2> TAKE e
  <2> QED
    BY <1>0, <1>5, <1>7, <1>8 DEF FactsOf
<1>10. Meaning' = Meaning
  BY <1>0, <1>9 DEF Meaning
<1> QED
  BY <1>1, <1>2, <1>3, <1>4, <1>5, <1>7, <1>9, <1>10

LEMMA OutcomeStays ==
    ASSUME document' = document, before' = before
    PROVE  /\ (Plain' <=> Plain) /\ (NamedOnce' <=> NamedOnce) /\ (Meaningful' <=> Meaningful)
           /\ (DocumentIsWell' <=> DocumentIsWell)
<1>0. /\ Said' = Said /\ Properties' = Properties /\ \A o : Named(o)' = Named(o)
      /\ Entries' = Entries /\ Structured' = Structured /\ WellFormed' = WellFormed
  BY SaidStays
<1>1. (NamedOnce' <=> NamedOnce)
  <2>1. \A e : Target(e)' = Target(e)
    BY <1>0 DEF Target
  <2> DEFINE E(i) == document.entries[i]
             said == {i \in DOMAIN document.entries : E(i) \in Said}
             Once(i, j) == /\ Target(E(i)) # Target(E(j))
                           /\ {E(i).form, E(j).form} = {"list", "ref"} => Named(E(i).on) # Named(E(j).on)
  <2>2. said' = said
    BY <1>0
  <2>3. NamedOnce <=> \A i, j \in said : i # j => Once(i, j)
    BY DEF NamedOnce
  <2>4. NamedOnce' <=> \A i, j \in said' : i # j => Once(i, j)'
    BY DEF NamedOnce
  <2>5. \A i, j : Once(i, j)' = Once(i, j)
    BY <1>0, <2>1
  <2> HIDE DEF said, Once
  <2> QED
    BY <2>2, <2>3, <2>4, <2>5
<1>2. (Plain' <=> Plain)
  BY <1>0, <1>1 DEF Plain, AsInDocs
<1>3. (DocumentIsWell' <=> DocumentIsWell)
  BY <1>0 DEF DocumentIsWell
<1>4. (Meaningful' <=> Meaningful)
  BY <1>0, MeaningStays DEF Meaningful, KnownLevel
<1> QED
  BY <1>1, <1>2, <1>3, <1>4

-----------------------------------------------------------------------------
(* ConfigLoad: what resolving makes of a fileConfig.                       *)
LEMMA WordsStay ==
    ASSUME NEW text, \A i \in DOMAIN text : text[i].tag = "word", NEW sp
    PROVE  Resolve(text, sp) = text /\ Resolvable(text, sp)
<1>1. \A i \in DOMAIN text : ~IsExpression(text[i])
  BY DEF IsExpression
<1>2. \A i \in DOMAIN text : ~Unanswered(text[i], sp)
  BY DEF Unanswered
<1> QED
  BY <1>1, <1>2 DEF Resolve, Resolvable

LEMMA NothingStays == \A sp : Resolve(<<>>, sp) = <<>> /\ Resolvable(<<>>, sp)
<1>1. \A i \in DOMAIN <<>> : FALSE
  OBVIOUS
<1>2. PICK t : t = <<>>
  OBVIOUS
<1>3. \A i \in DOMAIN t : t[i].tag = "word"
  BY <1>1, <1>2
<1> QED
  BY <1>2, <1>3, WordsStay

LEMMA WordStays == \A w, sp : Resolve(<<Word(w)>>, sp) = <<Word(w)>> /\ Resolvable(<<Word(w)>>, sp)
<1> TAKE w, sp
<1>1. PICK t : t = <<Word(w)>>
  OBVIOUS
<1>2. \A i \in DOMAIN t : t[i].tag = "word"
  <2>1. DOMAIN t = {1} /\ t[1] = Word(w)
    BY <1>1
  <2>2. Word(w).tag = "word"
    BY DEF Word
  <2> QED
    BY <2>1, <2>2
<1> QED
  BY <1>1, <1>2, WordsStay

(* The texts of a list, one by one.                                        *)
LEMMA OneByOne ==
    ASSUME NEW text, NEW sp
    PROVE  Resolvable(text, sp) <=> \A i \in DOMAIN text : Resolvable(<<text[i]>>, sp)
<1>1. ASSUME NEW t PROVE Resolvable(<<t>>, sp) <=> ~Unanswered(t, sp)
  <2>1. PICK u : u = <<t>>
    OBVIOUS
  <2>2. DOMAIN u = {1} /\ u[1] = t
    BY <2>1
  <2> QED
    BY <2>1, <2>2 DEF Resolvable
<1> QED
  BY <1>1 DEF Resolvable

Raw(e) == e.form = "field" /\ Kind[e.name] = "raw"

(* A text of words stands for itself, however it is read.                  *)
LEMMA OneEach ==
    ASSUME NEW S, NEW text \in Seq(S)
    PROVE  FlattenSeq([i \in DOMAIN text |-> <<text[i]>>]) = text
<1> DEFINE n == Len(text)
           seqs == [i \in DOMAIN text |-> <<text[i]>>]
           f == [i \in 1..n |-> SubSeq(text, 1, i)]
<1>1. n \in Nat /\ DOMAIN text = 1..n /\ \A i \in 1..n : text[i] \in S
  OBVIOUS
<1>2. seqs \in Seq(Seq(S)) /\ Len(seqs) = n /\ DOMAIN seqs = 1..n
  <2>1. seqs \in [1..n -> Seq(S)]
    BY <1>1
  <2> QED
    BY <1>1, <2>1
<1>3. CASE n = 0
  <2>1. text = <<>> /\ seqs = <<>>
    BY <1>1, <1>2, <1>3
  <2>2. FlattenSeq(<<>>) = <<>>
    BY DEF FlattenSeq
  <2> HIDE DEF seqs
  <2> QED
    BY <2>1, <2>2 DEF seqs
<1>4. CASE n # 0
  <2>1. \A i \in 1..n : f[i] = IF i = 1 THEN seqs[i] ELSE f[i - 1] \o seqs[i]
    <3> TAKE i \in 1..n
    <3>1. seqs[i] = <<text[i]>> /\ f[i] = SubSeq(text, 1, i)
      BY <1>1
    <3>2. CASE i = 1
      <4>1. PICK u : u = SubSeq(text, 1, 1)
        OBVIOUS
      <4>2. u \in Seq(S) /\ Len(u) = 1 /\ u[1] = text[1]
        BY <1>1, <3>2, <4>1
      <4>3. u = <<text[1]>>
        BY <4>2
      <4> HIDE DEF f, seqs
      <4> QED
        BY <3>1, <3>2, <4>1, <4>3
    <3>3. CASE i # 1
      <4>1. i - 1 \in 1..n /\ f[i - 1] = SubSeq(text, 1, i - 1)
        BY <1>1, <3>3
      <4>2. SubSeq(text, 1, i) = SubSeq(text, 1, i - 1) \o <<text[i]>>
        BY <1>1, <3>3, <4>1
      <4> HIDE DEF f, seqs
      <4> QED
        BY <3>1, <3>3, <4>1, <4>2
    <3> QED
      BY <3>2, <3>3
  <2>2. f = [i \in 1..n |-> f[i]] /\ n \in 1..n /\ f[n] = SubSeq(text, 1, n)
    BY <1>1, <1>4
  <2>3. SubSeq(text, 1, n) = text
    BY <1>1
  <2> HIDE DEF f, seqs
  <2>4. Flattening(seqs, f, n)
    BY <2>1, <2>2 DEF Flattening
  <2>5. FlattenSeq(seqs) = text
    BY <1>2, <1>4, <2>2, <2>3, <2>4, FlattenIs
  <2> QED
    BY <2>5 DEF seqs
<1> QED
  BY <1>3, <1>4

LEMMA WordsAreMeant ==
    ASSUME NEW text \in Seq(Pieces), \A i \in DOMAIN text : text[i].tag = "word", NEW sp
    PROVE  Expanded(text, sp) = text
<1>1. \A i \in DOMAIN text : Expand(text[i], sp) = <<text[i]>>
  BY DEF Expand
<1>2. [i \in DOMAIN text |-> Expand(text[i], sp)] = [i \in DOMAIN text |-> <<text[i]>>]
  BY <1>1
<1>3. FlattenSeq([i \in DOMAIN text |-> <<text[i]>>]) = text
  BY OneEach
<1> QED
  BY <1>2, <1>3 DEF Expanded

(* A text is meant as the code reads it, if the code reads its escapes.    *)
LEMMA EscapesAreMeant ==
    ASSUME NEW text \in Seq(Pieces), EscapesRead(text), NEW sp
    PROVE  Expanded(text, sp) = Resolve(text, sp)
<1>1. CASE \E i \in DOMAIN text : IsExpression(text[i])
  BY <1>1 DEF Resolve
<1>2. CASE ~\E i \in DOMAIN text : IsExpression(text[i])
  <2>1. \A i \in DOMAIN text : text[i].tag = "word"
    BY <1>2 DEF EscapesRead, IsExpression
  <2>2. Resolve(text, sp) = text
    BY <2>1, WordsStay
  <2> QED
    BY <2>1, <2>2, WordsAreMeant
<1> QED
  BY <1>1, <1>2

(* A document in which the code departs nowhere from the docs.             *)
ReadAsInDocs ==
    /\ \A e \in Said : Raw(e) => IsStrategy(e.text)
    /\ \A e \in Said : IsText(e) => Meant(e) = Resolve(e.text, SpacesOf(e))
    /\ \A e \in Said : e.form = "list" =>
         \A t \in ToSet(e.text) : Meant([e EXCEPT !.text = <<t>>]) = Resolve(<<t>>, SpacesOf(e))
    /\ MeantSpaces = WithProperties(SaidProperties)

LEMMA AsInDocsIs ==
    ASSUME SaidOnce, \A e \in Said : AsInDocs(e)
    PROVE  ReadAsInDocs /\ NoneDropped
<1>1. \A e \in Said : e.text \in Seq(Pieces) /\ EscapesRead(e.text)
  BY DEF SaidOnce, Said, Sayings, AsInDocs
<1>2. \A e \in Said : Raw(e) => IsStrategy(e.text)
  BY DEF AsInDocs, Raw
<1>3. \A e \in Said : \A sp : Expanded(e.text, sp) = Resolve(e.text, sp)
  BY <1>1, EscapesAreMeant
<1>4. \A e \in Said : IsText(e) => Meant(e) = Resolve(e.text, SpacesOf(e))
  BY <1>3 DEF Meant
<1>5. ASSUME NEW e \in Said, e.form = "list", NEW t \in ToSet(e.text)
      PROVE  Meant([e EXCEPT !.text = <<t>>]) = Resolve(<<t>>, SpacesOf(e))
  <2>1. PICK i \in DOMAIN e.text : t = e.text[i]
    BY DEF ToSet
  <2>2. t \in Pieces
    BY <1>1, <2>1
  <2>3. EscapesRead(<<t>>)
    BY <1>5, <2>1 DEF AsInDocs
  <2>4. PICK x, u : x = [e EXCEPT !.text = <<t>>] /\ u = <<t>>
    OBVIOUS
  <2>5. DOMAIN e = {"wrap", "form", "on", "name", "part", "text"}
    BY DEF SaidOnce, Said, Sayings
  <2>6. x.form = "list" /\ x.text = u /\ x.name = e.name
    BY <1>5, <2>4, <2>5
  <2>7. SpacesOf(x) = SpacesOf(e) /\ IsText(x)
    BY <1>5, <2>6 DEF SpacesOf, BeforeProperties, IsText, IsTyped
  <2>8. u \in Seq(Pieces)
    BY <2>2, <2>4
  <2>9. Expanded(u, SpacesOf(e)) = Resolve(u, SpacesOf(e))
    BY <2>3, <2>4, <2>8, EscapesAreMeant
  <2>10. Meant(x) = Resolve(u, SpacesOf(e))
    BY <2>6, <2>7, <2>9 DEF Meant
  <2> QED
    BY <2>4, <2>10
<1>6. MeantSpaces = WithProperties(SaidProperties)
  <2> DEFINE A == [p \in DOMAIN SaidProperties |-> Expanded(SaidProperties[p], GivenSpaces)]
             B == [p \in DOMAIN SaidProperties |-> Resolve(SaidProperties[p], GivenSpaces)]
  <2>1. ASSUME NEW p \in DOMAIN SaidProperties
        PROVE  Expanded(SaidProperties[p], GivenSpaces) = Resolve(SaidProperties[p], GivenSpaces)
    <3>1. PICK e : e = CHOOSE x \in Said : x.form = "property" /\ x.name = p
      OBVIOUS
    <3>2. p \in {x.name : x \in {y \in Said : y.form = "property"}}
      BY DEF SaidProperties
    <3>3. \E x \in Said : x.form = "property" /\ x.name = p
      BY <3>2
    <3>4. e \in Said
      BY <3>1, <3>3
    <3>5. SaidProperties[p] = e.text
      BY <3>1, <3>2 DEF SaidProperties
    <3> QED
      BY <1>3, <3>4, <3>5
  <2>2. A = B
    BY <2>1
  <2>3. MeantSpaces = [ns \in {"prop", "property"} |-> A] @@ GivenSpaces
    BY Zenon DEF MeantSpaces
  <2>4. WithProperties(SaidProperties) = [ns \in {"prop", "property"} |-> B] @@ GivenSpaces
    BY Zenon DEF WithProperties
  <2> HIDE DEF A, B
  <2> QED
    BY <2>2, <2>3, <2>4
<1>7. NoneDropped
  BY DEF NoneDropped, AsInDocs
<1> HIDE DEF Meant
<1> QED
  BY <1>2, <1>4, <1>5, <1>6, <1>7 DEF ReadAsInDocs

LEMMA TextCell ==
    ASSUME SaidOnce, NEW e \in Said, e.form \in CellForms
    PROVE  CellResolved(Cell(e)) <=> IsText(e) /\ ~Raw(e)
<1>1. Cell(e)[1] = e.form /\ Cell(e)[3] = e.name
  BY CellParts
<1>2. e.form = "field" => e.name \in DOMAIN Kind
  BY DEF SaidOnce, Said, WellSaid
<1>3. e.form = "field" => Kind[e.name] \in {"text", "early", "level", "rolling", "raw", "number", "lenient"}
  BY <1>2, LoadAssumption
<1> QED
  BY <1>1, <1>3 DEF CellResolved, EarlyText, AppenderText, RollingText, IsText, IsTyped, Raw

LEMMA PropertiesAre ==
    ASSUME SaidOnce, NEW c, CellsTold(c, Said)
    PROVE  PropertyTexts(c) = SaidProperties
<1> DEFINE P == {e.name : e \in {x \in Said : x.form = "property"}}
           Q == {x[3] : x \in {y \in DOMAIN c.cells : y[1] = "property"}}
           C(p) == c.cells[<<"property", "", p, "camel">>]
           T(p) == (CHOOSE e \in Said : e.form = "property" /\ e.name = p).text
<1>1. \A e \in Said : e.form = "property" =>
        /\ Cell(e) = <<"property", "", e.name, "camel">>
        /\ Cell(e) \in DOMAIN c.cells /\ c.cells[Cell(e)] = e.text
        /\ Cell(e)[1] = "property" /\ Cell(e)[3] = e.name
  BY DEF Cell, CellsTold, CellForms
<1>2. \A y \in DOMAIN c.cells : y[1] = "property" => \E e \in Said : e.form = "property" /\ y = Cell(e)
  BY CellParts DEF CellsTold
<1>3. P = Q
  <2>1. ASSUME NEW p \in P PROVE p \in Q
    <3>1. PICK e \in Said : e.form = "property" /\ e.name = p
      OBVIOUS
    <3> QED
      BY <1>1, <3>1
  <2>2. ASSUME NEW p \in Q PROVE p \in P
    <3>1. PICK y \in DOMAIN c.cells : y[1] = "property" /\ y[3] = p
      OBVIOUS
    <3>2. PICK e \in Said : e.form = "property" /\ y = Cell(e)
      BY <1>2, <3>1
    <3>3. e.name = p
      BY <1>1, <3>1, <3>2
    <3> QED
      BY <3>2, <3>3
  <2> QED
    BY <2>1, <2>2
<1>4. ASSUME NEW p \in P PROVE C(p) = T(p)
  <2>1. PICK e \in Said : e.form = "property" /\ e.name = p
    OBVIOUS
  <2>2. \A x \in Said : x.form = "property" /\ x.name = p => x = e
    <3> SUFFICES ASSUME NEW x \in Said, x.form = "property", x.name = p PROVE x = e
      OBVIOUS
    <3>1. Cell(x) = Cell(e)
      BY <1>1, <2>1
    <3> QED
      BY <2>1, <3>1, CellIsOwn DEF CellForms
  <2>3. (CHOOSE x \in Said : x.form = "property" /\ x.name = p) = e
    BY <2>1, <2>2, Zenon
  <2> QED
    BY <1>1, <2>1, <2>3
<1>5. PropertyTexts(c) = [p \in Q |-> C(p)]
  BY Zenon DEF PropertyTexts
<1>6. SaidProperties = [p \in P |-> T(p)]
  BY Zenon DEF SaidProperties
<1> HIDE DEF P, Q, C, T
<1> QED
  BY <1>3, <1>4, <1>5, <1>6

LEMMA SpacesAre ==
    ASSUME SaidOnce, ReadAsInDocs, NEW c, CellsTold(c, Said)
    PROVE  /\ \A e \in Said : e.form \in CellForms => SpacesFor(c, Cell(e)) = SpacesOf(e)
           /\ \A e \in Said : e.form \in {"list", "ref"} => WithProperties(PropertyTexts(c)) = SpacesOf(e)
<1>1. WithProperties(PropertyTexts(c)) = MeantSpaces
  BY PropertiesAre DEF ReadAsInDocs
<1>2. \A e \in Said : e.form \in CellForms => Cell(e)[1] = e.form /\ Cell(e)[3] = e.name
  BY CellParts
<1>3. \A e \in Said : e.form \in {"list", "ref"} => ~BeforeProperties(e.form, e.name)
  BY DEF BeforeProperties
<1> QED
  BY <1>1, <1>2, <1>3 DEF SpacesFor, SpacesOf

(* The texts of cells, resolved.                                           *)
CellsMeant(c) ==
    /\ DOMAIN c.cells = {Cell(e) : e \in {x \in Said : x.form \in CellForms}}
    /\ \A e \in Said : e.form \in CellForms => c.cells[Cell(e)] = Meant(e)
CellTexts ==
    \A e \in Said : e.form \in CellForms /\ IsText(e) => Resolvable(e.text, SpacesOf(e))

LEMMA CellsResolve ==
    ASSUME SaidOnce, ReadAsInDocs, NEW c, CellsTold(c, Said), NEW d, d.cells = ResolveCells(c)
    PROVE  /\ CellsMeant(d)
           /\ CellTexts <=> \A x \in DOMAIN c.cells :
                               CellResolved(x) => Resolvable(c.cells[x], SpacesFor(c, x))
<1>1. \A e \in Said : e.form \in CellForms =>
         /\ Cell(e) \in DOMAIN c.cells /\ c.cells[Cell(e)] = e.text
         /\ SpacesFor(c, Cell(e)) = SpacesOf(e)
         /\ CellResolved(Cell(e)) <=> IsText(e) /\ ~Raw(e)
  BY SpacesAre, TextCell DEF CellsTold
<1>2. \A x \in DOMAIN c.cells : \E e \in Said : e.form \in CellForms /\ x = Cell(e)
  BY DEF CellsTold
<1>3. \A e \in Said : Raw(e) => Resolve(e.text, SpacesOf(e)) = e.text /\ Resolvable(e.text, SpacesOf(e))
  BY WordsStay DEF ReadAsInDocs, IsStrategy
<1>4. DOMAIN d.cells = DOMAIN c.cells
  BY DEF ResolveCells
<1>5. \A x \in DOMAIN c.cells : d.cells[x] = IF CellResolved(x) THEN Resolve(c.cells[x], SpacesFor(c, x))
                                            ELSE c.cells[x]
  BY DEF ResolveCells
<1>6. \A e \in Said : e.form \in CellForms => d.cells[Cell(e)] = Meant(e)
  <2>1. \A e \in Said : Meant(e) = IF IsText(e) THEN Resolve(e.text, SpacesOf(e)) ELSE e.text
    BY DEF ReadAsInDocs, Meant
  <2> QED
    BY <1>1, <1>3, <1>5, <2>1
<1>7. CellsMeant(d)
  BY <1>4, <1>6 DEF CellsMeant, CellsTold
<1>8. CellTexts <=> \A x \in DOMAIN c.cells : CellResolved(x) => Resolvable(c.cells[x], SpacesFor(c, x))
  BY <1>1, <1>2, <1>3 DEF CellTexts
<1> QED
  BY <1>7, <1>8

(* A reference's parts, which are said once each or not at all.            *)
LEMMA PartMeant ==
    ASSUME SaidOnce, ReadAsInDocs, NEW e \in Said, e.form = "ref", NEW part \in {"ref", "level"}
    PROVE  LET t == PartTold(Said, Named(e.on), e.name, part)
               sp == SpacesOf(e)
           IN  /\ Resolve(t, sp) = PartOf(e, part, NewRef(e.name)[part])
               /\ Resolvable(t, sp) <=>
                    \A x \in RefParts(e) : x.part = part => Resolvable(x.text, SpacesOf(x))
<1> DEFINE P == PartsTold(Said, Named(e.on), e.name, part)
           t == PartTold(Said, Named(e.on), e.name, part)
           sp == SpacesOf(e)
           default == NewRef(e.name)[part]
<1>1. P = {x \in RefParts(e) : x.part = part}
  BY DEF PartsTold, RefParts
<1>2. \A x \in RefParts(e) : x \in Said /\ x.form = "ref" /\ SpacesOf(x) = sp /\ IsText(x)
                             /\ Named(x.on) = Named(e.on) /\ x.name = e.name
  BY DEF RefParts, SpacesOf, BeforeProperties, IsText, IsTyped
<1>3. t = TextOfOne(P, default)
  BY DEF PartTold
<1>4. CASE P = {}
  <2>1. t = default
    BY <1>3, <1>4 DEF TextOfOne
  <2>2. PartOf(e, part, default) = default
    BY <1>1, <1>4 DEF PartOf
  <2>3. default \in {<<>>, <<Word(e.name)>>}
    BY DEF NewRef
  <2>4. Resolve(default, sp) = default /\ Resolvable(default, sp)
    BY <2>3, NothingStays, WordStays
  <2> QED
    BY <1>1, <1>4, <2>1, <2>2, <2>4
<1>5. CASE P # {}
  <2>1. PICK x \in P : TRUE
    BY <1>5
  <2>2. \A y \in P : y = x
    <3> TAKE y \in P
    <3>1. Target(x) = Target(y)
      BY <1>1, <1>2, <2>1 DEF Target
    <3> QED
      BY <1>1, <1>2, <2>1, <3>1 DEF SaidOnce
  <2>3. (CHOOSE y \in P : TRUE) = x
    BY <2>1, <2>2
  <2>4. t = x.text
    BY <1>3, <1>5, <2>3 DEF TextOfOne
  <2>5. (CHOOSE y \in RefParts(e) : y.part = part) = x
    <3>1. x \in RefParts(e) /\ x.part = part /\ \A y \in RefParts(e) : y.part = part => y = x
      BY <1>1, <2>1, <2>2
    <3> QED
      BY <3>1, Zenon
  <2>6. PartOf(e, part, default) = Meant(x)
    BY <1>1, <2>1, <2>5 DEF PartOf
  <2>7. Meant(x) = Resolve(x.text, sp)
    BY <1>1, <1>2, <2>1 DEF ReadAsInDocs
  <2> QED
    BY <1>1, <1>2, <2>1, <2>2, <2>4, <2>6, <2>7
<1> QED
  BY <1>4, <1>5

RefFact(o, r) == <<"ref", o, r.level, r.ref>>
FactsAt(c, o) == {RefFact(o, c.refs[o][i]) : i \in DOMAIN c.refs[o]}
ReferTo(o) == {e \in Said : e.form \in {"list", "ref"} /\ Named(e.on) = o}

RefsMeant(c) ==
    /\ DOMAIN c.refs = {Named(e.on) : e \in {x \in Said : x.form \in {"list", "ref"}}}
    /\ \A o \in DOMAIN c.refs : FactsAt(c, o) = UNION {FactsOf(e) : e \in ReferTo(o)}

RefResolved(r, sp) == [r EXCEPT !.ref = Resolve(@, sp), !.level = Resolve(@, sp)]

LEMMA RefParted ==
    ASSUME NEW id, NEW ref, NEW level, NEW sp, NEW r, r = [id |-> id, ref |-> ref, level |-> level]
    PROVE  RefResolved(r, sp).ref = Resolve(ref, sp) /\ RefResolved(r, sp).level = Resolve(level, sp)
<1>1. DOMAIN r = {"id", "ref", "level"} /\ r.ref = ref /\ r.level = level
  OBVIOUS
<1> QED
  BY <1>1 DEF RefResolved

(* A list of names.                                                        *)
LEMMA ListMeant ==
    ASSUME SaidOnce, ReadAsInDocs, NEW e \in Said, e.form = "list", NEW rs, ListTold(rs, e), NEW o, o = Named(e.on),
           NEW sp, sp = SpacesOf(e)
    PROVE  /\ {RefFact(o, RefResolved(rs[i], sp)) : i \in DOMAIN rs} = FactsOf(e)
           /\ Resolvable(e.text, sp) <=>
                \A i \in DOMAIN rs : Resolvable(rs[i].ref, sp) /\ Resolvable(rs[i].level, sp)
<1>1. /\ \A i \in DOMAIN rs : \E t \in ToSet(e.text) : rs[i] = ListRef(t)
      /\ \A t \in ToSet(e.text) : \E i \in DOMAIN rs : rs[i] = ListRef(t)
  BY DEF ListTold, ToSet
<1> DEFINE M(t) == <<"ref", o, <<>>, Resolve(<<t>>, sp)>>
<1>2. \A t : RefFact(o, RefResolved(ListRef(t), sp)) = M(t)
  <2> TAKE t
  <2>1. RefResolved(ListRef(t), sp).ref = Resolve(<<t>>, sp) /\ RefResolved(ListRef(t), sp).level = Resolve(<<>>, sp)
    <3>1. PICK r, a, b, c : r = ListRef(t) /\ a = <<t>> /\ b = <<>> /\ c = ""
      OBVIOUS
    <3>2. r = [id |-> c, ref |-> a, level |-> b]
      BY <3>1 DEF ListRef
    <3>3. RefResolved(r, sp).ref = Resolve(a, sp) /\ RefResolved(r, sp).level = Resolve(b, sp)
      BY <3>2, RefParted
    <3> QED
      BY <3>1, <3>3
  <2> QED
    BY <2>1, NothingStays DEF RefFact
<1>3. FactsOf(e) = {M(t) : t \in ToSet(e.text)}
  <2>1. \A t \in ToSet(e.text) : Meant([e EXCEPT !.text = <<t>>]) = Resolve(<<t>>, sp)
    BY DEF ReadAsInDocs
  <2>2. FactsOf(e) = {<<"ref", Named(e.on), <<>>, Meant([e EXCEPT !.text = <<t>>])>> : t \in ToSet(e.text)}
    BY DEF FactsOf
  <2> QED
    BY <2>1, <2>2
<1>4. {RefFact(o, RefResolved(rs[i], sp)) : i \in DOMAIN rs} = FactsOf(e)
  <2> HIDE DEF M
  <2> QED
    BY <1>1, <1>2, <1>3
<1>5. \A t : ListRef(t).ref = <<t>> /\ ListRef(t).level = <<>>
  BY DEF ListRef
<1>6. Resolvable(e.text, sp) <=> \A t \in ToSet(e.text) : Resolvable(<<t>>, sp)
  BY OneByOne DEF ToSet
<1>7. Resolvable(e.text, sp) <=>
        \A i \in DOMAIN rs : Resolvable(rs[i].ref, sp) /\ Resolvable(rs[i].level, sp)
  BY <1>1, <1>5, <1>6, NothingStays
<1> QED
  BY <1>4, <1>7

(* References with fields of their own.                                    *)
LEMMA FieldsMeant ==
    ASSUME SaidOnce, ReadAsInDocs, NEW o, NEW had \in Said, had.form = "ref", Named(had.on) = o,
           NEW rs, RefsOfTold(rs, Said, o), NEW sp, sp = SpacesOf(had)
    PROVE  /\ {RefFact(o, RefResolved(rs[i], sp)) : i \in DOMAIN rs}
                = UNION {FactsOf(e) : e \in {x \in Said : x.form = "ref" /\ Named(x.on) = o}}
           /\ (\A e \in Said : e.form = "ref" /\ Named(e.on) = o => Resolvable(e.text, sp)) <=>
                \A i \in DOMAIN rs : Resolvable(rs[i].ref, sp) /\ Resolvable(rs[i].level, sp)
<1> DEFINE R == {x \in Said : x.form = "ref" /\ Named(x.on) = o}
           M(e) == <<"ref", o, PartOf(e, "level", <<>>), PartOf(e, "ref", NewRef(e.name).ref)>>
<1>1. /\ \A i \in DOMAIN rs : \E e \in R : rs[i].id = e.name
      /\ \A e \in R : \E i \in DOMAIN rs : rs[i].id = e.name
      /\ \A i \in DOMAIN rs : rs[i] = RefTold(Said, o, rs[i].id)
  <2>1. {rs[i].id : i \in DOMAIN rs} = {x.name : x \in R}
    BY DEF RefsOfTold
  <2>2. \A i \in DOMAIN rs : rs[i] = RefTold(Said, o, rs[i].id)
    BY DEF RefsOfTold
  <2>3. ASSUME NEW i \in DOMAIN rs PROVE \E e \in R : rs[i].id = e.name
    <3>1. rs[i].id \in {x.name : x \in R}
      BY <2>1
    <3> QED
      BY <3>1
  <2>4. ASSUME NEW e \in R PROVE \E i \in DOMAIN rs : rs[i].id = e.name
    <3>1. e.name \in {rs[i].id : i \in DOMAIN rs}
      BY <2>1
    <3> QED
      BY <3>1
  <2> QED
    BY <2>2, <2>3, <2>4
<1>2. \A e \in R : e.form = "ref" /\ Named(e.on) = o /\ SpacesOf(e) = sp /\ FactsOf(e) = {M(e)}
  BY DEF SpacesOf, BeforeProperties, FactsOf
<1>3. ASSUME NEW e \in R, NEW i \in DOMAIN rs, rs[i].id = e.name
      PROVE  /\ RefFact(o, RefResolved(rs[i], sp)) = M(e)
             /\ Resolvable(rs[i].ref, sp) /\ Resolvable(rs[i].level, sp) <=>
                  \A x \in RefParts(e) : Resolvable(x.text, SpacesOf(x))
  <2>1. rs[i] = RefTold(Said, Named(e.on), e.name)
    BY <1>1, <1>2, <1>3
  <2>2. PICK a, b : a = PartTold(Said, Named(e.on), e.name, "ref")
                 /\ b = PartTold(Said, Named(e.on), e.name, "level")
    OBVIOUS
  <2>3. rs[i] = [id |-> e.name, ref |-> a, level |-> b]
    BY <2>1, <2>2 DEF RefTold
  <2>4. /\ Resolve(a, sp) = PartOf(e, "ref", NewRef(e.name)["ref"])
        /\ Resolvable(a, sp) <=> \A x \in RefParts(e) : x.part = "ref" => Resolvable(x.text, SpacesOf(x))
    BY <1>2, <2>2, PartMeant
  <2>5. /\ Resolve(b, sp) = PartOf(e, "level", NewRef(e.name)["level"])
        /\ Resolvable(b, sp) <=> \A x \in RefParts(e) : x.part = "level" => Resolvable(x.text, SpacesOf(x))
    BY <1>2, <2>2, PartMeant
  <2>6. NewRef(e.name)["level"] = <<>>
    BY DEF NewRef
  <2>7. RefResolved(rs[i], sp).ref = Resolve(a, sp) /\ RefResolved(rs[i], sp).level = Resolve(b, sp)
    BY <2>3, RefParted
  <2>8. RefFact(o, RefResolved(rs[i], sp)) = M(e)
    BY <2>4, <2>5, <2>6, <2>7 DEF RefFact
  <2>9. \A x \in RefParts(e) : x.part \in {"ref", "level"}
    BY DEF RefParts, SaidOnce, Said, WellSaid
  <2>10. rs[i].ref = a /\ rs[i].level = b
    BY <2>3
  <2> QED
    BY <2>4, <2>5, <2>8, <2>9, <2>10
<1>4. {RefFact(o, RefResolved(rs[i], sp)) : i \in DOMAIN rs} = UNION {FactsOf(e) : e \in R}
  <2>1. ASSUME NEW i \in DOMAIN rs PROVE RefFact(o, RefResolved(rs[i], sp)) \in UNION {FactsOf(e) : e \in R}
    <3>1. PICK e \in R : rs[i].id = e.name
      BY <1>1
    <3>2. RefFact(o, RefResolved(rs[i], sp)) \in FactsOf(e)
      BY <1>2, <1>3, <3>1
    <3> QED
      BY <3>2
  <2>2. ASSUME NEW e \in R, NEW f \in FactsOf(e)
        PROVE  \E i \in DOMAIN rs : f = RefFact(o, RefResolved(rs[i], sp))
    <3>1. PICK i \in DOMAIN rs : rs[i].id = e.name
      BY <1>1
    <3> QED
      BY <1>2, <1>3, <3>1
  <2> QED
    BY <2>1, <2>2
<1>5. \A e \in R : e \in RefParts(e) /\ \A x \in RefParts(e) : x \in R /\ SpacesOf(x) = sp
  BY <1>2 DEF RefParts
<1>6. (\A e \in R : Resolvable(e.text, sp)) <=>
                \A i \in DOMAIN rs : Resolvable(rs[i].ref, sp) /\ Resolvable(rs[i].level, sp)
  <2>1. ASSUME \A e \in R : Resolvable(e.text, sp), NEW i \in DOMAIN rs
        PROVE  Resolvable(rs[i].ref, sp) /\ Resolvable(rs[i].level, sp)
    <3>1. PICK e \in R : rs[i].id = e.name
      BY <1>1
    <3> QED
      BY <1>3, <1>5, <2>1, <3>1
  <2>2. ASSUME \A i \in DOMAIN rs : Resolvable(rs[i].ref, sp) /\ Resolvable(rs[i].level, sp), NEW e \in R
        PROVE  Resolvable(e.text, sp)
    <3>1. PICK i \in DOMAIN rs : rs[i].id = e.name
      BY <1>1
    <3> QED
      BY <1>3, <1>5, <2>2, <3>1
  <2> QED
    BY <2>1, <2>2
<1> QED
  BY <1>4, <1>6

RefTexts == \A e \in Said : e.form \in {"list", "ref"} => Resolvable(e.text, SpacesOf(e))

LEMMA RefsResolve ==
    ASSUME SaidOnce, ReadAsInDocs, NEW c, CellsTold(c, Said), RefsTold(c, Said), NEW d, d.refs = ResolveRefs(c)
    PROVE  /\ RefsMeant(d)
           /\ RefTexts <=> \A o \in DOMAIN c.refs : \A i \in DOMAIN c.refs[o] :
                             \A t \in {c.refs[o][i].ref, c.refs[o][i].level} :
                               Resolvable(t, WithProperties(PropertyTexts(c)))
<1>1. PICK sp : sp = WithProperties(PropertyTexts(c))
  OBVIOUS
<1>2. \A e \in Said : e.form \in {"list", "ref"} => SpacesOf(e) = sp
  BY <1>1, SpacesAre
<1>3. /\ DOMAIN d.refs = DOMAIN c.refs
      /\ \A o \in DOMAIN c.refs : d.refs[o] = [i \in DOMAIN c.refs[o] |-> RefResolved(c.refs[o][i], sp)]
  BY <1>1, Zenon DEF ResolveRefs, RefResolved
<1>4. \A o \in DOMAIN c.refs : FactsAt(d, o) = {RefFact(o, RefResolved(c.refs[o][i], sp)) : i \in DOMAIN c.refs[o]}
  <2> TAKE o \in DOMAIN c.refs
  <2>1. d.refs[o] = [i \in DOMAIN c.refs[o] |-> RefResolved(c.refs[o][i], sp)]
    BY <1>3
  <2>2. \A i \in DOMAIN c.refs[o] : d.refs[o][i] = RefResolved(c.refs[o][i], sp)
    BY <2>1
  <2>3. DOMAIN d.refs[o] = DOMAIN c.refs[o]
    BY <2>1
  <2> QED
    BY <2>2, <2>3 DEF FactsAt
<1> DEFINE Fine(o) == \A i \in DOMAIN c.refs[o] : Resolvable(c.refs[o][i].ref, sp) /\ Resolvable(c.refs[o][i].level, sp)
<1>5. ASSUME NEW o \in DOMAIN c.refs
      PROVE  /\ FactsAt(d, o) = UNION {FactsOf(e) : e \in ReferTo(o)}
             /\ Fine(o) <=> \A e \in ReferTo(o) : Resolvable(e.text, sp)
  <2>1. PICK e \in Said : e.form \in {"list", "ref"} /\ Named(e.on) = o
    BY DEF RefsTold
  <2>2. SpacesOf(e) = sp
    BY <1>2, <2>1
  <2>3. CASE e.form = "list"
    <3>1. \A x \in ReferTo(o) : x = e
      <4> TAKE x \in ReferTo(o)
      <4>1. x \in Said /\ Named(x.on) = o /\ x.form \in {"list", "ref"}
        BY DEF ReferTo
      <4>2. x.form = "list"
        BY <2>1, <2>3, <4>1 DEF SaidOnce
      <4>3. e.name = "" /\ x.name = ""
        BY <2>3, <4>1, <4>2 DEF SaidOnce, Said, WellSaid
      <4>4. Target(x) = Target(e)
        BY <2>1, <2>3, <4>1, <4>2, <4>3 DEF Target
      <4> QED
        BY <4>1, <4>4 DEF SaidOnce
    <3>2. ReferTo(o) = {e}
      BY <2>1, <3>1 DEF ReferTo
    <3>3. UNION {FactsOf(x) : x \in ReferTo(o)} = FactsOf(e)
      BY <3>2
    <3>4. ListTold(c.refs[o], e)
      BY <2>1, <2>3 DEF RefsTold
    <3>5. /\ {RefFact(o, RefResolved(c.refs[o][i], sp)) : i \in DOMAIN c.refs[o]} = FactsOf(e)
          /\ Resolvable(e.text, sp) <=> Fine(o)
      BY <2>1, <2>2, <2>3, <3>4, ListMeant
    <3> QED
      BY <1>4, <3>2, <3>3, <3>5
  <2>4. CASE e.form = "ref"
    <3>1. \A x \in ReferTo(o) : x.form = "ref"
      BY <2>1, <2>4 DEF SaidOnce, ReferTo
    <3>2. ReferTo(o) = {x \in Said : x.form = "ref" /\ Named(x.on) = o}
      BY <3>1 DEF ReferTo
    <3>3. RefsOfTold(c.refs[o], Said, o)
      BY <2>1, <2>4 DEF RefsTold
    <3>4. PICK R : R = {x \in Said : x.form = "ref" /\ Named(x.on) = o}
      OBVIOUS
    <3>5. /\ {RefFact(o, RefResolved(c.refs[o][i], sp)) : i \in DOMAIN c.refs[o]} = UNION {FactsOf(x) : x \in R}
          /\ (\A x \in R : Resolvable(x.text, sp)) <=> Fine(o)
      <4>1. PICK rs : rs = c.refs[o]
        OBVIOUS
      <4>2. RefsOfTold(rs, Said, o)
        BY <3>3, <4>1
      <4>3. /\ {RefFact(o, RefResolved(rs[i], sp)) : i \in DOMAIN rs}
                  = UNION {FactsOf(x) : x \in {y \in Said : y.form = "ref" /\ Named(y.on) = o}}
            /\ (\A x \in Said : x.form = "ref" /\ Named(x.on) = o => Resolvable(x.text, sp)) <=>
                 \A i \in DOMAIN rs : Resolvable(rs[i].ref, sp) /\ Resolvable(rs[i].level, sp)
        BY <2>1, <2>2, <2>4, <4>2, FieldsMeant
      <4> QED
        BY <3>4, <4>1, <4>3
    <3> QED
      BY <1>4, <3>2, <3>4, <3>5
  <2> QED
    BY <2>1, <2>3, <2>4
<1>6. RefsMeant(d)
  BY <1>3, <1>5 DEF RefsMeant, RefsTold
<1>7. RefTexts <=> \A o \in DOMAIN c.refs : Fine(o)
  <2>1. \A e \in Said : e.form \in {"list", "ref"} => /\ Named(e.on) \in DOMAIN c.refs
                                                     /\ e \in ReferTo(Named(e.on))
                                                     /\ SpacesOf(e) = sp
    BY <1>2 DEF RefsTold, ReferTo
  <2>2. \A o : \A e \in ReferTo(o) : e \in Said /\ e.form \in {"list", "ref"}
    BY DEF ReferTo
  <2> HIDE DEF Fine
  <2> QED
    BY <1>5, <2>1, <2>2 DEF RefTexts
<1> QED
  BY <1>1, <1>6, <1>7

PairsHave(part) ==
    \A e \in Said : e.form = "pair" =>
      \E x \in Said : x.form = "pair" /\ x.on = e.on /\ x.name = e.name /\ x.part = part

LEMMA PairsAre ==
    ASSUME SaidOnce, NEW c, CellsTold(c, Said), NEW part
    PROVE  (\A x \in PairCells(c) : [x EXCEPT ![4] = part] \in DOMAIN c.cells) <=> PairsHave(part)
<1>1. \A e \in Said : e.form = "pair" => /\ Cell(e) = <<"pair", e.on, e.name, e.part>>
                                        /\ Cell(e) \in PairCells(c)
  <2> SUFFICES ASSUME NEW e \in Said, e.form = "pair"
               PROVE  /\ Cell(e) = <<"pair", e.on, e.name, e.part>>
                      /\ Cell(e) \in PairCells(c)
    OBVIOUS
  <2>1. Cell(e) = <<"pair", e.on, e.name, e.part>>
    BY DEF Cell
  <2>2. Cell(e) \in DOMAIN c.cells
    BY DEF CellsTold, CellForms
  <2> QED
    BY <2>1, <2>2 DEF PairCells
<1>2. \A x \in PairCells(c) : \E e \in Said : e.form = "pair" /\ x = Cell(e)
  <2> TAKE x \in PairCells(c)
  <2>1. x \in DOMAIN c.cells /\ x[1] = "pair"
    BY DEF PairCells
  <2>2. PICK e \in Said : e.form \in CellForms /\ x = Cell(e)
    BY <2>1 DEF CellsTold
  <2>3. e.form = "pair"
    BY <2>1, <2>2, CellParts
  <2> QED
    BY <2>2, <2>3
<1>3. \A a, b, p, q : [<<"pair", a, b, p>> EXCEPT ![4] = q] = <<"pair", a, b, q>>
  OBVIOUS
<1>4. ASSUME NEW e \in Said, e.form = "pair"
      PROVE  [Cell(e) EXCEPT ![4] = part] \in DOMAIN c.cells <=>
               \E x \in Said : x.form = "pair" /\ x.on = e.on /\ x.name = e.name /\ x.part = part
  <2>1. [Cell(e) EXCEPT ![4] = part] = <<"pair", e.on, e.name, part>>
    BY <1>1, <1>3, <1>4
  <2>2. PICK y : y = <<"pair", e.on, e.name, part>>
    OBVIOUS
  <2>3. y[1] = "pair" /\ y[2] = e.on /\ y[3] = e.name /\ y[4] = part
    BY <2>2
  <2>4. ASSUME y \in DOMAIN c.cells
        PROVE  \E x \in Said : x.form = "pair" /\ x.on = e.on /\ x.name = e.name /\ x.part = part
    <3>1. PICK x \in Said : x.form \in CellForms /\ y = Cell(x)
      BY <2>4 DEF CellsTold
    <3>2. x.form = "pair"
      BY <2>3, <3>1, CellParts
    <3>3. x.on = e.on /\ x.name = e.name /\ x.part = part
      BY <2>3, <3>1, <3>2, CellParts
    <3> QED
      BY <3>2, <3>3
  <2>5. ASSUME NEW x \in Said, x.form = "pair", x.on = e.on, x.name = e.name, x.part = part
        PROVE  y \in DOMAIN c.cells
    <3>1. Cell(x) = y
      BY <1>1, <2>2, <2>5
    <3>2. Cell(x) \in DOMAIN c.cells
      BY <2>5 DEF CellsTold, CellForms
    <3> QED
      BY <3>1, <3>2
  <2> QED
    BY <2>1, <2>2, <2>4, <2>5
<1>5. ASSUME \A x \in PairCells(c) : [x EXCEPT ![4] = part] \in DOMAIN c.cells PROVE PairsHave(part)
  <2> SUFFICES ASSUME NEW e \in Said, e.form = "pair"
               PROVE  \E x \in Said : x.form = "pair" /\ x.on = e.on /\ x.name = e.name /\ x.part = part
    BY DEF PairsHave
  <2>1. [Cell(e) EXCEPT ![4] = part] \in DOMAIN c.cells
    BY <1>1, <1>5
  <2> QED
    BY <1>4, <2>1
<1>6. ASSUME PairsHave(part), NEW x \in PairCells(c) PROVE [x EXCEPT ![4] = part] \in DOMAIN c.cells
  <2>1. PICK e \in Said : e.form = "pair" /\ x = Cell(e)
    BY <1>2
  <2> QED
    BY <1>4, <1>6, <2>1 DEF PairsHave
<1> QED
  BY <1>5, <1>6

Texts == \A e \in Said : IsText(e) => Resolvable(e.text, SpacesOf(e))

LEMMA TextsAre ==
    ASSUME SaidOnce
    PROVE  Texts <=> CellTexts /\ RefTexts
<1>1. \A e \in Said : e.form \in CellForms \cup {"list", "ref", "filter"}
  BY DEF SaidOnce, Said, Sayings, Forms, CellForms
<1>2. \A e \in Said : e.form = "filter" => Resolvable(e.text, SpacesOf(e))
  <2> SUFFICES ASSUME NEW e \in Said, e.form = "filter" PROVE Resolvable(e.text, SpacesOf(e))
    OBVIOUS
  <2>1. \A i \in DOMAIN e.text : e.text[i] = Word(e.text[i].name)
    BY DEF SaidOnce, Said, WellSaid
  <2>2. \A w : Word(w).tag = "word"
    BY DEF Word
  <2>3. \A i \in DOMAIN e.text : e.text[i].tag = "word"
    BY <2>1, <2>2, Zenon
  <2> QED
    BY <2>3, WordsStay
<1>3. \A e \in Said : e.form \in {"list", "ref"} => IsText(e) /\ e.form \notin CellForms
  BY DEF IsText, IsTyped, CellForms
<1> QED
  BY <1>1, <1>2, <1>3 DEF Texts, CellTexts, RefTexts

(* A fileConfig as resolveLookups leaves it.                               *)
MeantBy(c) == IsConfig(c) /\ CellsMeant(c) /\ FiltersTold(c, Said) /\ RefsMeant(c)

LEMMA ResolvedIsMeant ==
    ASSUME SaidOnce, ReadAsInDocs, NEW c, Told(c, Said)
    PROVE  /\ MeantBy([c EXCEPT !.cells = ResolveCells(c), !.refs = ResolveRefs(c)])
           /\ AllResolvable(c) <=> Texts /\ PairsHave("key")
<1>1. PICK d : d = [c EXCEPT !.cells = ResolveCells(c), !.refs = ResolveRefs(c)]
  OBVIOUS
<1>2. IsConfig(c) /\ CellsTold(c, Said) /\ FiltersTold(c, Said) /\ RefsTold(c, Said)
  BY DEF Told
<1>3. IsConfig(d) /\ d.cells = ResolveCells(c) /\ d.refs = ResolveRefs(c) /\ d.filters = c.filters
  BY <1>1, <1>2 DEF IsConfig
<1>4. CellsMeant(d) /\ RefsMeant(d)
  BY <1>2, <1>3, CellsResolve, RefsResolve
<1>5. FiltersTold(d, Said)
  BY <1>2, <1>3 DEF FiltersTold
<1>6. AllResolvable(c) <=> PairsHave("key") /\ CellTexts /\ RefTexts
  <2>1. CellTexts <=> \A x \in DOMAIN c.cells : CellResolved(x) => Resolvable(c.cells[x], SpacesFor(c, x))
    <3>1. \E e : e.cells = ResolveCells(c)
      BY <1>3
    <3> QED
      BY <1>2, <3>1, CellsResolve
  <2>2. RefTexts <=> \A o \in DOMAIN c.refs : \A i \in DOMAIN c.refs[o] :
                             \A t \in {c.refs[o][i].ref, c.refs[o][i].level} :
                               Resolvable(t, WithProperties(PropertyTexts(c)))
    BY <1>2, <1>3, RefsResolve
  <2>3. PairsHave("key") <=> \A x \in PairCells(c) : [x EXCEPT ![4] = "key"] \in DOMAIN c.cells
    BY <1>2, PairsAre
  <2> QED
    BY <2>1, <2>2, <2>3 DEF AllResolvable
<1> QED
  BY <1>1, <1>3, <1>4, <1>5, <1>6, TextsAre DEF MeantBy

(* The cells of a form.                                                    *)
LEMMA CellsOfForm ==
    ASSUME NEW c, CellsMeant(c)
    PROVE  /\ \A e \in Said : e.form \in CellForms =>
                Cell(e) \in DOMAIN c.cells /\ Cell(e)[1] = e.form /\ c.cells[Cell(e)] = Meant(e)
           /\ \A y \in DOMAIN c.cells : y[1] \in CellForms /\
                \E e \in Said : e.form = y[1] /\ e.form \in CellForms /\ y = Cell(e)
<1>1. \A e \in Said : e.form \in CellForms =>
        Cell(e) \in DOMAIN c.cells /\ Cell(e)[1] = e.form /\ c.cells[Cell(e)] = Meant(e)
  BY CellParts DEF CellsMeant
<1>2. \A y \in DOMAIN c.cells : \E e \in Said : e.form \in CellForms /\ y = Cell(e)
  BY DEF CellsMeant
<1> QED
  BY <1>1, <1>2

LEMMA FieldIs ==
    ASSUME SaidOnce, NEW c, CellsMeant(c), NEW e \in Said, e.form = "field"
    PROVE  FieldOf(c, Named(e.on), e.name) = Meant(e)
<1> DEFINE o == Named(e.on)
           f == e.name
           Spelled(i) == <<"field", o, f, Spellings(f)[i]>>
           given == {i \in DOMAIN Spellings(f) : Spelled(i) \in DOMAIN c.cells /\ c.cells[Spelled(i)] # <<>>}
<1>1. FieldOf(c, o, f) = IF given = {} THEN <<>> ELSE c.cells[Spelled(Min(given))]
  BY Zenon DEF FieldOf
<1>2. Cell(e) = <<"field", o, f, Spelling(e)>> /\ Cell(e) \in DOMAIN c.cells /\ c.cells[Cell(e)] = Meant(e)
  BY CellsOfForm DEF Cell, CellForms
<1>3. PICK k \in 1..3 : DOMAIN Spellings(f) = 1..3 /\ Spellings(f)[k] = Spelling(e)
  <2>1. f \in DOMAIN Kind /\ e.part \in IF Kind[f] = "rolling" THEN {"policy", "camel", "kebab"}
                                        ELSE {"camel", "kebab", "third"}
    BY DEF SaidOnce, Said, WellSaid
  <2>2. RollingText(f) <=> Kind[f] = "rolling"
    BY DEF RollingText
  <2>3. Spelling(e) \in {e.part, "camel"}
    BY DEF Spelling
  <2>4. CASE RollingText(f)
    <3>1. PICK s : s = Spellings(f)
      OBVIOUS
    <3>2. DOMAIN s = 1..3 /\ s[1] = "policy" /\ s[2] = "camel" /\ s[3] = "kebab"
      BY <2>4, <3>1 DEF Spellings, RollingSpellings
    <3>3. Spelling(e) \in {"policy", "camel", "kebab"}
      BY <2>1, <2>2, <2>3, <2>4
    <3>4. 1 \in 1..3 /\ 2 \in 1..3 /\ 3 \in 1..3
      OBVIOUS
    <3> QED
      BY <3>1, <3>2, <3>3, <3>4
  <2>5. CASE ~RollingText(f)
    <3>1. PICK s : s = Spellings(f)
      OBVIOUS
    <3>2. DOMAIN s = 1..3 /\ s[1] = "camel" /\ s[2] = "kebab" /\ s[3] = "third"
      BY <2>5, <3>1 DEF Spellings
    <3>3. Spelling(e) \in {"third", "camel", "kebab"}
      BY <2>1, <2>2, <2>3, <2>5
    <3>4. 1 \in 1..3 /\ 2 \in 1..3 /\ 3 \in 1..3
      OBVIOUS
    <3> QED
      BY <3>1, <3>2, <3>3, <3>4
  <2> QED
    BY <2>4, <2>5
<1>4. \A i, j \in 1..3 : Spellings(f)[i] = Spellings(f)[j] => i = j
  <2>1. PICK s : s = Spellings(f)
    OBVIOUS
  <2>2. \/ s[1] = "policy" /\ s[2] = "camel" /\ s[3] = "kebab"
        \/ s[1] = "camel" /\ s[2] = "kebab" /\ s[3] = "third"
    BY <2>1 DEF Spellings, RollingSpellings
  <2>3. \A i \in 1..3 : i = 1 \/ i = 2 \/ i = 3
    OBVIOUS
  <2> QED
    BY <2>1, <2>2, <2>3
<1>5. Spelled(k) = Cell(e)
  BY <1>2, <1>3
<1>6. ASSUME NEW i \in 1..3, Spelled(i) \in DOMAIN c.cells PROVE i = k
  <2>1. PICK y : y = Spelled(i)
    OBVIOUS
  <2>2. y[1] = "field" /\ y[2] = o /\ y[3] = f /\ y[4] = Spellings(f)[i]
    BY <2>1
  <2>3. PICK x \in Said : x.form = "field" /\ x.form \in CellForms /\ y = Cell(x)
    BY <1>6, <2>1, <2>2, CellsOfForm
  <2>4. Named(x.on) = o /\ x.name = f /\ Spelling(x) = Spellings(f)[i]
    BY <2>2, <2>3, CellParts
  <2>5. Target(x) = Target(e)
    BY <2>3, <2>4 DEF Target
  <2>6. x = e
    BY <2>5 DEF SaidOnce
  <2> QED
    BY <1>3, <1>4, <2>4, <2>6
<1>7. CASE Meant(e) = <<>>
  <2>1. given = {}
    BY <1>2, <1>3, <1>5, <1>6, <1>7
  <2> QED
    BY <1>1, <1>7, <2>1
<1>8. CASE Meant(e) # <<>>
  <2>1. given = {k}
    BY <1>2, <1>3, <1>5, <1>6, <1>8
  <2>2. Min({k}) = k
    BY DEF Min
  <2> QED
    BY <1>1, <1>2, <1>5, <2>1, <2>2
<1> QED
  BY <1>7, <1>8

LEMMA FieldsAre ==
    ASSUME NEW c, CellsMeant(c)
    PROVE  /\ \A e \in Said : e.form = "field" => <<Named(e.on), e.name>> \in FieldNames(c)
           /\ \A n \in FieldNames(c) : \E e \in Said : e.form = "field" /\ n[1] = Named(e.on) /\ n[2] = e.name
                                                      /\ n = <<Named(e.on), e.name>>
<1>1. ASSUME NEW e \in Said, e.form = "field" PROVE <<Named(e.on), e.name>> \in FieldNames(c)
  <2>1. Cell(e) \in DOMAIN c.cells /\ Cell(e)[1] = "field" /\ Cell(e)[2] = Named(e.on) /\ Cell(e)[3] = e.name
    <3>1. e.form \in CellForms
      BY <1>1 DEF CellForms
    <3> QED
      BY <1>1, <3>1, CellsOfForm, CellParts
  <2> QED
    BY <2>1 DEF FieldNames
<1>2. ASSUME NEW n \in FieldNames(c)
      PROVE  \E e \in Said : e.form = "field" /\ n[1] = Named(e.on) /\ n[2] = e.name /\ n = <<Named(e.on), e.name>>
  <2>1. PICK y \in DOMAIN c.cells : y[1] = "field" /\ n = <<y[2], y[3]>>
    BY DEF FieldNames
  <2>2. PICK e \in Said : e.form = "field" /\ y = Cell(e)
    BY <2>1, CellsOfForm
  <2>3. y[2] = Named(e.on) /\ y[3] = e.name
    <3>1. e.form \in CellForms
      BY <2>2 DEF CellForms
    <3> QED
      BY <2>2, <3>1, CellParts
  <2> QED
    BY <2>1, <2>2, <2>3
<1> QED
  BY <1>1, <1>2

LEMMA LevelsAre ==
    ASSUME SaidOnce, NEW c, CellsMeant(c)
    PROVE  /\ LevelNames(c) = {e.name : e \in SaidLevels}
           /\ \A e \in SaidLevels : LevelText(c, e.name) = Meant(e)
<1>1. ASSUME NEW e \in SaidLevels
      PROVE  /\ e \in Said /\ e.form = "level"
             /\ Cell(e) = <<"level", "", e.name, Spelling(e)>> /\ Spelling(e) \in {"camel", "kebab"}
             /\ Cell(e) \in DOMAIN c.cells /\ Cell(e)[1] = "level" /\ Cell(e)[3] = e.name
             /\ c.cells[Cell(e)] = Meant(e)
  <2>1. e \in Said /\ e.form = "level"
    BY DEF SaidLevels
  <2>2. e.part \in {"camel", "kebab"}
    BY <2>1 DEF SaidOnce, Said, WellSaid
  <2>3. Spelling(e) \in {"camel", "kebab"}
    BY <2>2 DEF Spelling
  <2>4. Cell(e) = <<"level", "", e.name, Spelling(e)>>
    BY <2>1 DEF Cell
  <2>5. e.form \in CellForms
    BY <2>1 DEF CellForms
  <2> QED
    BY <2>1, <2>3, <2>4, <2>5, CellsOfForm, CellParts
<1>2. ASSUME NEW y \in DOMAIN c.cells, y[1] = "level" PROVE \E e \in SaidLevels : y = Cell(e)
  BY <1>2, CellsOfForm DEF SaidLevels
<1>3. LevelNames(c) = {e.name : e \in SaidLevels}
  <2>1. ASSUME NEW n \in LevelNames(c) PROVE n \in {e.name : e \in SaidLevels}
    <3>1. PICK y \in DOMAIN c.cells : y[1] = "level" /\ y[3] = n
      BY DEF LevelNames
    <3>2. PICK e \in SaidLevels : y = Cell(e)
      BY <1>2, <3>1
    <3> QED
      BY <1>1, <3>1, <3>2
  <2>2. ASSUME NEW e \in SaidLevels PROVE e.name \in LevelNames(c)
    BY <1>1 DEF LevelNames
  <2> QED
    BY <2>1, <2>2
<1>4. ASSUME NEW e \in SaidLevels PROVE LevelText(c, e.name) = Meant(e)
  <2> DEFINE kebab == <<"level", "", e.name, "kebab">>
             camel == <<"level", "", e.name, "camel">>
  <2>1. LevelText(c, e.name) = IF kebab \in DOMAIN c.cells THEN c.cells[kebab] ELSE c.cells[camel]
    BY Zenon DEF LevelText
  <2>2. CASE Spelling(e) = "kebab"
    BY <1>1, <2>1, <2>2
  <2>3. CASE Spelling(e) = "camel"
    <3>1. kebab \notin DOMAIN c.cells
      <4> SUFFICES ASSUME kebab \in DOMAIN c.cells PROVE FALSE
        OBVIOUS
      <4>1. PICK y : y = kebab
        OBVIOUS
      <4>2. y[1] = "level" /\ y[3] = e.name /\ y[4] = "kebab"
        BY <4>1
      <4>3. PICK x \in SaidLevels : y = Cell(x)
        BY <1>2, <4>1, <4>2
      <4>4. x.name = e.name /\ x \in Said /\ x.form = "level" /\ e \in Said /\ e.form = "level"
        BY <1>1, <4>2, <4>3
      <4>5. x.on = "" /\ e.on = ""
        BY <4>4 DEF SaidOnce, Said, WellSaid
      <4>6. Target(x) = Target(e)
        BY <4>4, <4>5 DEF Target
      <4>7. x = e
        BY <4>4, <4>6 DEF SaidOnce
      <4>8. y[4] = Spelling(e)
        <5>1. e.form \in CellForms
          BY <4>4 DEF CellForms
        <5> QED
          BY <4>3, <4>4, <4>7, <5>1, CellParts
      <4> QED
        BY <2>3, <4>2, <4>8
    <3> QED
      BY <1>1, <2>1, <2>3, <3>1
  <2> QED
    BY <1>1, <2>2, <2>3
<1> QED
  BY <1>3, <1>4

(* What the entries of some forms state.                                   *)
Stated(forms) == UNION {FactsOf(e) : e \in {x \in Said : x.form \in forms}}

LEMMA FieldFacts ==
    ASSUME SaidOnce, CellsMeant(config)
    PROVE  {<<"field", n[1], n[2], FieldOf(config, n[1], n[2])>> :
              n \in {m \in FieldNames(config) : FieldOf(config, m[1], m[2]) # <<>>}} = Stated({"field"})
<1> DEFINE P(n) == <<"field", n[1], n[2], FieldOf(config, n[1], n[2])>>
           N == {m \in FieldNames(config) : FieldOf(config, m[1], m[2]) # <<>>}
<1>1. \A e \in Said : e.form = "field" =>
        FactsOf(e) = IF Meant(e) = <<>> THEN {} ELSE {<<"field", Named(e.on), e.name, Meant(e)>>}
  BY DEF FactsOf
<1>2. ASSUME NEW n \in N PROVE P(n) \in Stated({"field"})
  <2>1. PICK e \in Said : e.form = "field" /\ n[1] = Named(e.on) /\ n[2] = e.name
    BY FieldsAre
  <2>2. FieldOf(config, n[1], n[2]) = Meant(e)
    BY <2>1, FieldIs
  <2>3. P(n) \in FactsOf(e)
    BY <1>1, <2>1, <2>2
  <2> QED
    BY <2>1, <2>3 DEF Stated
<1>3. ASSUME NEW e \in Said, e.form = "field", NEW g \in FactsOf(e) PROVE \E n \in N : g = P(n)
  <2>1. Meant(e) # <<>> /\ g = <<"field", Named(e.on), e.name, Meant(e)>>
    BY <1>1, <1>3
  <2>2. PICK n : n = <<Named(e.on), e.name>>
    OBVIOUS
  <2>3. n \in FieldNames(config) /\ n[1] = Named(e.on) /\ n[2] = e.name
    BY <1>3, <2>2, FieldsAre
  <2>4. FieldOf(config, n[1], n[2]) = Meant(e)
    BY <1>3, <2>3, FieldIs
  <2>5. n \in N /\ P(n) = g
    BY <2>1, <2>3, <2>4
  <2> QED
    BY <2>5
<1> HIDE DEF P, N
<1>4. {P(n) : n \in N} = Stated({"field"})
  BY <1>2, <1>3 DEF Stated
<1> QED
  BY <1>4 DEF P, N

(* Nothing is renamed that has no name, nor is the async section.          *)
LEMMA OwnName ==
    ASSUME SaidOnce
    PROVE  /\ Named("") = ""
           /\ \A e \in Said : Named(e.on) = "async" <=> e.on = "async"
<1>1. \A x \in Entries : x.form = "alias" => x.on # "" /\ x.on # "async" /\ x.text[1].name # "async"
  BY DEF SaidOnce, WellSaid
<1>2. \A o : LET names == {e \in Entries : e.form = "alias" /\ e.on = o}
             IN  \/ Named(o) = o
                 \/ names # {} /\ Named(o) = (CHOOSE e \in names : TRUE).text[1].name
  BY DEF Named
<1>3. \A o : Named(o) = o \/ \E x \in Entries : x.form = "alias" /\ x.on = o /\ Named(o) = x.text[1].name
  <2> TAKE o
  <2> DEFINE names == {e \in Entries : e.form = "alias" /\ e.on = o}
  <2>1. CASE names # {} /\ Named(o) = (CHOOSE e \in names : TRUE).text[1].name
    <3>1. PICK x : x = CHOOSE e \in names : TRUE
      OBVIOUS
    <3>2. x \in names
      BY <2>1, <3>1
    <3> QED
      BY <2>1, <3>1, <3>2
  <2> QED
    BY <1>2, <2>1
<1>4. Named("") = ""
  BY <1>1, <1>3
<1>5. ASSUME NEW o PROVE Named(o) = "async" <=> o = "async"
  <2>1. CASE Named(o) = o
    BY <2>1
  <2>2. CASE Named(o) # o
    <3>1. PICK x \in Entries : x.form = "alias" /\ x.on = o /\ Named(o) = x.text[1].name
      BY <1>3, <2>2
    <3>2. x.on # "async" /\ x.text[1].name # "async"
      BY <1>1, <3>1
    <3> QED
      BY <3>1, <3>2
  <2> QED
    BY <2>1, <2>2
<1> QED
  BY <1>4, <1>5

LEMMA LevelFacts ==
    ASSUME SaidOnce, CellsMeant(config)
    PROVE  {<<"level", "", n, LevelText(config, n)>> : n \in LevelNames(config)} = Stated({"level"})
<1> DEFINE P(n) == <<"level", "", n, LevelText(config, n)>>
<1>1. \A e \in SaidLevels : e \in Said /\ FactsOf(e) = {P(e.name)}
  <2> TAKE e \in SaidLevels
  <2>1. e \in Said /\ e.form = "level"
    BY DEF SaidLevels
  <2>2. Named(e.on) = ""
    BY <2>1, OwnName DEF SaidOnce, Said, WellSaid
  <2>3. LevelText(config, e.name) = Meant(e)
    BY LevelsAre
  <2> QED
    BY <2>1, <2>2, <2>3 DEF FactsOf
<1>2. \A e \in Said : e.form = "level" => e \in SaidLevels
  BY DEF SaidLevels
<1>3. LevelNames(config) = {e.name : e \in SaidLevels}
  BY LevelsAre
<1>4. \A e \in SaidLevels : e.form = "level"
  BY DEF SaidLevels
<1> HIDE DEF P
<1>5. {P(n) : n \in LevelNames(config)} = Stated({"level"})
  <2>1. ASSUME NEW n \in LevelNames(config) PROVE P(n) \in Stated({"level"})
    <3>1. PICK e \in SaidLevels : n = e.name
      BY <1>3
    <3> QED
      BY <1>1, <1>4, <3>1 DEF Stated
  <2>2. ASSUME NEW e \in Said, e.form = "level", NEW g \in FactsOf(e)
        PROVE  \E n \in LevelNames(config) : g = P(n)
    BY <1>1, <1>2, <1>3, <2>2
  <2> QED
    BY <2>1, <2>2 DEF Stated
<1> QED
  BY <1>5 DEF P

LEMMA PropertyFacts ==
    ASSUME SaidOnce, CellsMeant(config)
    PROVE  {<<"property", "", p, PropertyTexts(config)[p]>> : p \in DOMAIN PropertyTexts(config)}
              = Stated({"property"})
<1> DEFINE P(p) == <<"property", "", p, PropertyTexts(config)[p]>>
           Q == {x[3] : x \in {y \in DOMAIN config.cells : y[1] = "property"}}
<1>1. PropertyTexts(config) = [p \in Q |-> config.cells[<<"property", "", p, "camel">>]]
  BY Zenon DEF PropertyTexts
<1>2. ASSUME NEW e \in Said, e.form = "property"
      PROVE  e.name \in DOMAIN PropertyTexts(config) /\ FactsOf(e) = {P(e.name)}
  <2>1. Cell(e) = <<"property", "", e.name, "camel">>
    BY <1>2 DEF Cell
  <2>2. Cell(e) \in DOMAIN config.cells /\ config.cells[Cell(e)] = Meant(e)
    BY <1>2, CellsOfForm DEF CellForms
  <2>0. e.form \in CellForms
    BY <1>2 DEF CellForms
  <2>3. Cell(e)[1] = "property" /\ Cell(e)[3] = e.name
    BY <1>2, <2>0, CellParts
  <2>4. e.name \in Q
    BY <2>2, <2>3
  <2>5. PropertyTexts(config)[e.name] = Meant(e) /\ DOMAIN PropertyTexts(config) = Q
    BY <1>1, <2>1, <2>2, <2>4
  <2>6. Named(e.on) = ""
    BY <1>2, OwnName DEF SaidOnce, Said, WellSaid
  <2>7. FactsOf(e) = {<<"property", "", e.name, Meant(e)>>}
    BY <1>2, <2>6 DEF FactsOf
  <2> QED
    BY <2>4, <2>5, <2>7
<1>3. ASSUME NEW p \in DOMAIN PropertyTexts(config) PROVE \E e \in Said : e.form = "property" /\ e.name = p
  <2>1. p \in Q
    BY <1>1
  <2>2. PICK y \in DOMAIN config.cells : y[1] = "property" /\ y[3] = p
    BY <2>1
  <2>3. PICK e \in Said : e.form = "property" /\ e.form \in CellForms /\ y = Cell(e)
    BY <2>2, CellsOfForm
  <2> QED
    BY <2>2, <2>3, CellParts
<1> HIDE DEF P
<1>4. {P(p) : p \in DOMAIN PropertyTexts(config)} = Stated({"property"})
  <2>1. ASSUME NEW p \in DOMAIN PropertyTexts(config) PROVE P(p) \in Stated({"property"})
    <3>1. PICK e \in Said : e.form = "property" /\ e.name = p
      BY <1>3
    <3> QED
      BY <1>2, <3>1 DEF Stated
  <2>2. ASSUME NEW e \in Said, e.form = "property", NEW g \in FactsOf(e)
        PROVE  \E p \in DOMAIN PropertyTexts(config) : g = P(p)
    BY <1>2, <2>2
  <2> QED
    BY <2>1, <2>2 DEF Stated
<1> QED
  BY <1>4 DEF P

LEMMA PairFacts ==
    ASSUME SaidOnce, CellsMeant(config)
    PROVE  {<<"pair", x[2], <<x[3], x[4]>>, config.cells[x]>> : x \in PairCells(config)} = Stated({"pair"})
<1> DEFINE P(x) == <<"pair", x[2], <<x[3], x[4]>>, config.cells[x]>>
<1>1. ASSUME NEW e \in Said, e.form = "pair"
      PROVE  Cell(e) \in PairCells(config) /\ FactsOf(e) = {P(Cell(e))}
  <2>1. e.form \in CellForms
    BY <1>1 DEF CellForms
  <2>2. Cell(e) \in DOMAIN config.cells /\ Cell(e)[1] = "pair" /\ config.cells[Cell(e)] = Meant(e)
    BY <1>1, <2>1, CellsOfForm
  <2>3. Cell(e)[2] = e.on /\ Cell(e)[3] = e.name /\ Cell(e)[4] = e.part
    BY <1>1, <2>1, CellParts
  <2>4. FactsOf(e) = {<<"pair", e.on, <<e.name, e.part>>, Meant(e)>>}
    BY <1>1 DEF FactsOf
  <2> QED
    BY <2>2, <2>3, <2>4 DEF PairCells
<1>2. ASSUME NEW x \in PairCells(config) PROVE \E e \in Said : e.form = "pair" /\ x = Cell(e)
  BY CellsOfForm DEF PairCells
<1> HIDE DEF P
<1>3. {P(x) : x \in PairCells(config)} = Stated({"pair"})
  <2>1. ASSUME NEW x \in PairCells(config) PROVE P(x) \in Stated({"pair"})
    <3>1. PICK e \in Said : e.form = "pair" /\ x = Cell(e)
      BY <1>2
    <3> QED
      BY <1>1, <3>1 DEF Stated
  <2>2. ASSUME NEW e \in Said, e.form = "pair", NEW g \in FactsOf(e)
        PROVE  \E x \in PairCells(config) : g = P(x)
    BY <1>1, <2>2
  <2> QED
    BY <2>1, <2>2 DEF Stated
<1> QED
  BY <1>3 DEF P

LEMMA FilterFacts ==
    ASSUME SaidOnce, FiltersTold(config, Said)
    PROVE  {<<"filter", f, "", [i \in DOMAIN config.filters[f] |-> Word(config.filters[f][i])]>> :
              f \in DOMAIN config.filters} = Stated({"filter"})
<1> DEFINE T(f) == [i \in DOMAIN config.filters[f] |-> Word(config.filters[f][i])]
           P(f) == <<"filter", f, "", T(f)>>
<1>1. ASSUME NEW e \in Said, e.form = "filter"
      PROVE  e.on \in DOMAIN config.filters /\ FactsOf(e) = {P(e.on)}
  <2>1. e.on \in DOMAIN config.filters /\ config.filters[e.on] = NamesIn(e.text)
    BY <1>1 DEF FiltersTold
  <2>2. \A i \in DOMAIN e.text : e.text[i] = Word(e.text[i].name)
    BY <1>1 DEF SaidOnce, Said, WellSaid
  <2>3. e.text \in Seq(Pieces)
    BY DEF SaidOnce, Said, Sayings
  <2>4. PICK t, l : t = e.text /\ l = config.filters[e.on]
    OBVIOUS
  <2>5. DOMAIN l = DOMAIN t /\ \A i \in DOMAIN t : l[i] = t[i].name
    BY <2>1, <2>4 DEF NamesIn
  <2>6. T(e.on) = t
    <3>1. T(e.on) = [i \in DOMAIN t |-> Word(l[i])]
      BY <2>4, <2>5
    <3>2. \A i \in DOMAIN t : Word(l[i]) = t[i]
      BY <2>2, <2>4, <2>5, Zenon
    <3>3. t = [i \in DOMAIN t |-> t[i]]
      BY <2>3, <2>4
    <3> QED
      BY <3>1, <3>2, <3>3
  <2>7. FactsOf(e) = {<<"filter", e.on, "", e.text>>}
    BY <1>1 DEF FactsOf
  <2> HIDE DEF T
  <2> QED
    BY <2>1, <2>4, <2>6, <2>7
<1>2. \A f \in DOMAIN config.filters : \E e \in Said : e.form = "filter" /\ e.on = f
  BY DEF FiltersTold
<1> HIDE DEF P
<1>3. {P(f) : f \in DOMAIN config.filters} = Stated({"filter"})
  <2>1. ASSUME NEW f \in DOMAIN config.filters PROVE P(f) \in Stated({"filter"})
    <3>1. PICK e \in Said : e.form = "filter" /\ e.on = f
      BY <1>2
    <3> QED
      BY <1>1, <3>1 DEF Stated
  <2>2. ASSUME NEW e \in Said, e.form = "filter", NEW g \in FactsOf(e)
        PROVE  \E f \in DOMAIN config.filters : g = P(f)
    BY <1>1, <2>2
  <2> QED
    BY <2>1, <2>2 DEF Stated
<1> QED
  BY <1>3 DEF P

LEMMA RefFacts ==
    ASSUME SaidOnce, RefsMeant(config)
    PROVE  UNION {{<<"ref", o, r.level, r.ref>> : r \in ToSet(config.refs[o])} : o \in DOMAIN config.refs}
              = Stated({"list", "ref"})
<1>1. \A o : {<<"ref", o, r.level, r.ref>> : r \in ToSet(config.refs[o])} = FactsAt(config, o)
  BY DEF FactsAt, RefFact, ToSet
<1>2. \A o \in DOMAIN config.refs : FactsAt(config, o) = UNION {FactsOf(e) : e \in ReferTo(o)}
  BY DEF RefsMeant
<1>3. \A o : \A e \in ReferTo(o) : e \in Said /\ e.form \in {"list", "ref"}
  BY DEF ReferTo
<1>4. \A e \in Said : e.form \in {"list", "ref"} => /\ Named(e.on) \in DOMAIN config.refs
                                                   /\ e \in ReferTo(Named(e.on))
  BY DEF RefsMeant, ReferTo
<1>5. UNION {FactsAt(config, o) : o \in DOMAIN config.refs} = Stated({"list", "ref"})
  <2>1. ASSUME NEW o \in DOMAIN config.refs, NEW g \in FactsAt(config, o) PROVE g \in Stated({"list", "ref"})
    BY <1>2, <1>3 DEF Stated
  <2>2. ASSUME NEW e \in Said, e.form \in {"list", "ref"}, NEW g \in FactsOf(e)
        PROVE  \E o \in DOMAIN config.refs : g \in FactsAt(config, o)
    BY <1>2, <1>4, <2>2
  <2> QED
    BY <2>1, <2>2 DEF Stated
<1> QED
  BY <1>1, <1>5

LEMMA FactsAreMeant ==
    ASSUME SaidOnce, MeantBy(config)
    PROVE  ConfigFacts = Meaning
<1>1. CellsMeant(config) /\ RefsMeant(config) /\ FiltersTold(config, Said)
  BY DEF MeantBy
<1> DEFINE A == {<<"field", n[1], n[2], FieldOf(config, n[1], n[2])>> :
                   n \in {m \in FieldNames(config) : FieldOf(config, m[1], m[2]) # <<>>}}
           B == {<<"level", "", n, LevelText(config, n)>> : n \in LevelNames(config)}
           C == {<<"property", "", p, PropertyTexts(config)[p]>> : p \in DOMAIN PropertyTexts(config)}
           D == {<<"pair", x[2], <<x[3], x[4]>>, config.cells[x]>> : x \in PairCells(config)}
           R == UNION {{<<"ref", o, r.level, r.ref>> : r \in ToSet(config.refs[o])} : o \in DOMAIN config.refs}
           F == {<<"filter", f, "", [i \in DOMAIN config.filters[f] |-> Word(config.filters[f][i])]>> :
                   f \in DOMAIN config.filters}
<1>2. ConfigFacts = A \cup B \cup C \cup D \cup R \cup F
  BY Zenon DEF ConfigFacts
<1>5. A = Stated({"field"}) /\ B = Stated({"level"}) /\ C = Stated({"property"})
  BY <1>1, FieldFacts, LevelFacts, PropertyFacts, Zenon
<1>6. D = Stated({"pair"}) /\ R = Stated({"list", "ref"}) /\ F = Stated({"filter"})
  BY <1>1, PairFacts, RefFacts, FilterFacts, Zenon
<1> HIDE DEF A, B, C, D, R, F
<1>3. \A e \in Said : e.form \in {"field", "level", "property", "pair", "list", "ref", "filter"}
  BY DEF SaidOnce, Said, Sayings, Forms
<1>4. Meaning = Stated({"field"}) \cup Stated({"level"}) \cup Stated({"property"}) \cup Stated({"pair"})
                      \cup Stated({"list", "ref"}) \cup Stated({"filter"})
  BY <1>3 DEF Meaning, Stated
<1> QED
  BY <1>2, <1>4, <1>5, <1>6

(* The parts of Meaningful.                                                *)
Wrappers == {e.wrap : e \in Entries}
Shaped == Structured => WellFormed /\ Cardinality(Wrappers) <= 1
WellTyped == \A e \in Said : ~Mistyped(e)
PairsWhole == PairsHave("key") /\ (Properties => PairsHave("value"))
PairsNamed == \A e \in Said : e.form = "pair" => e.on \in DOMAIN SaidFilters
LevelsNumbered ==
    \A e \in SaidLevels :
      /\ IsNumeral(Meant(e))
      /\ e.name \in DOMAIN before => before[e.name] = Meant(e)[1].name
Sections == {e.part : e \in {x \in Said : x.form = "field" /\ x.on = "async"}}
FiltersNamed == \A f \in DOMAIN SaidFilters : SaidFilters[f] \subseteq DOMAIN SaidFilters
FieldsKnown == \A e \in Said : e.form = "field" /\ Kind[e.name] = "level" => KnownLevel(Meant(e))
RefsKnown == \A e \in Said : e.form = "ref" => KnownLevel(PartOf(e, "level", <<>>))

LEMMA MeaningfulIs ==
    Meaningful <=> /\ Shaped /\ WellTyped /\ Texts /\ PairsWhole /\ PairsNamed /\ LevelsNumbered
                   /\ Cardinality(Sections) <= 1 /\ FiltersNamed /\ NoCycle(SaidFilters)
                   /\ FieldsKnown /\ RefsKnown
<1> DEFINE pairs == \A e \in Said : e.form = "pair" =>
              /\ e.on \in DOMAIN SaidFilters
              /\ \A part \in {"key"} \cup (IF Properties THEN {"value"} ELSE {}) :
                   \E x \in Said : x.form = "pair" /\ x.on = e.on /\ x.name = e.name /\ x.part = part
           typed == \A e \in Said : ~Mistyped(e) /\ (IsText(e) => Resolvable(e.text, SpacesOf(e)))
           known == \A e \in Said : /\ e.form = "field" /\ Kind[e.name] = "level" => KnownLevel(Meant(e))
                                    /\ e.form = "ref" => KnownLevel(PartOf(e, "level", <<>>))
<1>1. pairs <=> PairsWhole /\ PairsNamed
  <2> DEFINE has(e, part) == \E x \in Said : x.form = "pair" /\ x.on = e.on /\ x.name = e.name /\ x.part = part
  <2>1. PairsHave("key") <=> \A e \in Said : e.form = "pair" => has(e, "key")
    BY Zenon DEF PairsHave
  <2>2. PairsHave("value") <=> \A e \in Said : e.form = "pair" => has(e, "value")
    BY Zenon DEF PairsHave
  <2>3. pairs <=> \A e \in Said : e.form = "pair" =>
             /\ e.on \in DOMAIN SaidFilters
             /\ \A part \in {"key"} \cup (IF Properties THEN {"value"} ELSE {}) : has(e, part)
    BY Zenon
  <2> HIDE DEF has, pairs
  <2> QED
    BY <2>1, <2>2, <2>3 DEF PairsWhole, PairsNamed
<1>2. typed <=> WellTyped /\ Texts
  BY Zenon DEF WellTyped, Texts
<1>3. known <=> FieldsKnown /\ RefsKnown
  BY Zenon DEF FieldsKnown, RefsKnown
<1>4. Meaningful <=> /\ Shaped /\ typed /\ pairs /\ LevelsNumbered /\ Cardinality(Sections) <= 1
                     /\ FiltersNamed /\ NoCycle(SaidFilters) /\ known
  BY Zenon DEF Meaningful, Shaped, Wrappers, LevelsNumbered, Sections, FiltersNamed
<1> HIDE DEF pairs, typed, known
<1> QED
  BY <1>1, <1>2, <1>3, <1>4

LEMMA CountsAreNumbers ==
    ASSUME DocumentIsWell
    PROVE  Cardinality(Wrappers) \in Nat /\ Cardinality(Sections) \in Nat
<1>1. IsFiniteSet(Entries)
  <2>1. Entries = {document.entries[i] : i \in 1..Len(document.entries)} /\ Len(document.entries) \in Nat
    BY EntriesAre
  <2>2. IsFiniteSet(1..Len(document.entries))
    BY <2>1, FS_Interval
  <2> QED
    BY <2>1, <2>2, ImageIsFinite
<1>2. IsFiniteSet(Wrappers)
  <2>1. PICK to : to = [e \in Entries |-> e.wrap]
    OBVIOUS
  <2>2. Wrappers = {to[e] : e \in Entries}
    BY <2>1 DEF Wrappers
  <2> QED
    BY <1>1, <2>2, ImageIsFinite
<1>3. IsFiniteSet({x \in Said : x.form = "field" /\ x.on = "async"})
  BY <1>1, FS_Subset DEF Said
<1>4. IsFiniteSet(Sections)
  <2> DEFINE S == {x \in Said : x.form = "field" /\ x.on = "async"}
  <2>1. PICK to : to = [e \in S |-> e.part]
    OBVIOUS
  <2>2. Sections = {to[e] : e \in S}
    BY <2>1 DEF Sections
  <2> QED
    BY <1>3, <2>2, ImageIsFinite
<1> QED
  BY <1>2, <1>4, FS_CardinalityType

LEMMA SectionsAre ==
    ASSUME SaidOnce, CellsMeant(config)
    PROVE  AsyncSections(config) = Sections
<1> DEFINE Q == {y \in DOMAIN config.cells : y[1] = "field" /\ y[2] = "async"}
           R == {x \in Said : x.form = "field" /\ x.on = "async"}
<1>1. ASSUME NEW e \in R PROVE Cell(e) \in Q /\ Cell(e)[4] = e.part
  <2>1. e \in Said /\ e.form = "field" /\ e.on = "async" /\ e.form \in CellForms
    BY DEF CellForms
  <2>2. Named(e.on) = "async"
    BY <2>1, OwnName
  <2>3. Spelling(e) = e.part
    BY <2>1 DEF Spelling
  <2> QED
    BY <2>1, <2>2, <2>3, CellParts, CellsOfForm
<1>2. ASSUME NEW y \in Q PROVE \E e \in R : y = Cell(e)
  <2>1. PICK e \in Said : e.form = y[1] /\ e.form \in CellForms /\ y = Cell(e)
    BY CellsOfForm
  <2>2. e.form = "field" /\ Named(e.on) = "async"
    BY <2>1, CellParts
  <2>3. e.on = "async"
    BY <2>2, OwnName
  <2> QED
    BY <2>1, <2>2, <2>3
<1> HIDE DEF Q, R
<1>3. {y[4] : y \in Q} = {e.part : e \in R}
  <2>1. ASSUME NEW y \in Q PROVE \E e \in R : y[4] = e.part
    BY <1>1, <1>2
  <2>2. ASSUME NEW e \in R PROVE \E y \in Q : e.part = y[4]
    BY <1>1
  <2> QED
    BY <2>1, <2>2
<1> QED
  BY <1>3, Zenon DEF AsyncSections, Sections, Q, R

LEMMA FiltersAre ==
    ASSUME SaidOnce, FiltersTold(config, Said)
    PROVE  /\ DOMAIN SaidFilters = DOMAIN config.filters
           /\ \A f \in DOMAIN config.filters : SaidFilters[f] = RefersTo(f)
<1> DEFINE D == {e.on : e \in {x \in Said : x.form = "filter"}}
           One(f) == CHOOSE e \in Said : e.form = "filter" /\ e.on = f
<1>1. DOMAIN config.filters = D
  BY DEF FiltersTold
<1>2. SaidFilters = [f \in D |-> {t.name : t \in ToSet(One(f).text)}]
  BY Zenon DEF SaidFilters
<1>3. ASSUME NEW f \in D PROVE {t.name : t \in ToSet(One(f).text)} = RefersTo(f)
  <2>1. PICK e : e = One(f)
    OBVIOUS
  <2>2. e \in Said /\ e.form = "filter" /\ e.on = f
    BY <2>1
  <2>3. e.text \in Seq(Pieces)
    BY <2>2 DEF SaidOnce, Said, Sayings
  <2>4. PICK t, l : t = e.text /\ l = config.filters[f]
    OBVIOUS
  <2>5. l = [i \in DOMAIN t |-> t[i].name]
    BY <2>2, <2>4 DEF FiltersTold, NamesIn
  <2>6. Len(t) \in Nat /\ DOMAIN t = 1..Len(t)
    BY <2>3, <2>4
  <2>7. Len(l) = Len(t)
    BY <2>5, <2>6
  <2>8. RefersTo(f) = {l[i] : i \in 1..Len(t)}
    BY <2>4, <2>7 DEF RefersTo
  <2>9. ToSet(t) = {t[i] : i \in 1..Len(t)}
    BY <2>6 DEF ToSet
  <2>10. {x.name : x \in ToSet(t)} = {l[i] : i \in 1..Len(t)}
    BY <2>5, <2>6, <2>9
  <2> QED
    BY <2>1, <2>4, <2>8, <2>10
<1> HIDE DEF One, D
<1> QED
  BY <1>1, <1>2, <1>3

(* Once the levels of a document are registered.                           *)
RegistryHas == DOMAIN registry = DOMAIN before \cup {e.name : e \in SaidLevels}

LEMMA LevelsKnown ==
    ASSUME RegistryHas, NEW text
    PROVE  IsLevel(text, registry) <=> KnownLevel(text)
BY DEF RegistryHas, IsLevel, KnownLevel

LEMMA RefsAreKnown ==
    ASSUME RegistryHas, RefsMeant(config)
    PROVE  BadRef(config) <=> ~RefsKnown
<1>1. \A o \in DOMAIN config.refs : FactsAt(config, o) = UNION {FactsOf(e) : e \in ReferTo(o)}
  BY DEF RefsMeant
<1>2. \A e \in Said : e.form = "ref" =>
        FactsOf(e) = {<<"ref", Named(e.on), PartOf(e, "level", <<>>), PartOf(e, "ref", NewRef(e.name).ref)>>}
  BY DEF FactsOf
<1>3. \A e \in Said : e.form = "list" => \A g \in FactsOf(e) : g[3] = <<>>
  <2> SUFFICES ASSUME NEW e \in Said, e.form = "list", NEW g \in FactsOf(e) PROVE g[3] = <<>>
    OBVIOUS
  <2>1. FactsOf(e) = {<<"ref", Named(e.on), <<>>, Meant([e EXCEPT !.text = <<t>>])>> : t \in ToSet(e.text)}
    BY DEF FactsOf
  <2>2. PICK a, b : g = <<"ref", a, <<>>, b>>
    BY <2>1, Zenon
  <2> QED
    BY <2>2
<1>4. ASSUME NEW o \in DOMAIN config.refs, NEW i \in DOMAIN config.refs[o], RefsKnown
      PROVE  KnownLevel(config.refs[o][i].level)
  <2>1. RefFact(o, config.refs[o][i]) \in FactsAt(config, o)
    BY DEF FactsAt
  <2>2. PICK e \in ReferTo(o) : RefFact(o, config.refs[o][i]) \in FactsOf(e)
    BY <1>1, <2>1
  <2>3. PICK g : g = RefFact(o, config.refs[o][i])
    OBVIOUS
  <2>4. g[3] = config.refs[o][i].level
    BY <2>3 DEF RefFact
  <2>5. e \in Said /\ e.form \in {"list", "ref"}
    BY DEF ReferTo
  <2>6. CASE e.form = "list"
    <3>1. config.refs[o][i].level = <<>>
      BY <1>3, <2>2, <2>3, <2>4, <2>5, <2>6
    <3> QED
      BY <3>1 DEF KnownLevel, IsLevel
  <2>7. CASE e.form = "ref"
    <3>1. g[3] = PartOf(e, "level", <<>>)
      BY <1>2, <2>2, <2>3, <2>5, <2>7
    <3> QED
      BY <1>4, <2>4, <2>5, <2>7, <3>1, Zenon DEF RefsKnown
  <2> QED
    BY <2>5, <2>6, <2>7
<1>5. ASSUME NEW e \in Said, e.form = "ref"
      PROVE  \E o \in DOMAIN config.refs : \E i \in DOMAIN config.refs[o] :
               config.refs[o][i].level = PartOf(e, "level", <<>>)
  <2>1. PICK o : o = Named(e.on)
    OBVIOUS
  <2>2. o \in DOMAIN config.refs /\ e \in ReferTo(o)
    BY <1>5, <2>1 DEF RefsMeant, ReferTo
  <2>3. PICK g \in FactsOf(e) : g[3] = PartOf(e, "level", <<>>)
    <3>1. PICK g : g = <<"ref", Named(e.on), PartOf(e, "level", <<>>), PartOf(e, "ref", NewRef(e.name).ref)>>
      OBVIOUS
    <3>2. g \in FactsOf(e) /\ g[3] = PartOf(e, "level", <<>>)
      BY <1>2, <1>5, <3>1
    <3> QED
      BY <3>2
  <2>4. g \in FactsAt(config, o)
    BY <1>1, <2>2, <2>3
  <2>5. PICK i \in DOMAIN config.refs[o] : g = RefFact(o, config.refs[o][i])
    BY <2>4 DEF FactsAt
  <2>6. g[3] = config.refs[o][i].level
    BY <2>5 DEF RefFact
  <2> QED
    BY <2>2, <2>3, <2>6
<1> QED
  BY <1>4, <1>5, LevelsKnown DEF BadRef, RefsKnown

LEMMA FieldsAreKnown ==
    ASSUME SaidOnce, ReadAsInDocs, RegistryHas, CellsMeant(config)
    PROVE  (\E n \in FieldNames(config) : BadField(config, n[1], n[2])) <=> ~FieldsKnown
<1>1. ASSUME NEW e \in Said, e.form = "field"
      PROVE  BadField(config, Named(e.on), e.name) <=> Kind[e.name] = "level" /\ ~KnownLevel(Meant(e))
  <2>1. FieldOf(config, Named(e.on), e.name) = Meant(e)
    BY <1>1, FieldIs
  <2>2. Kind[e.name] = "raw" => IsStrategy(Meant(e))
    <3> SUFFICES ASSUME Kind[e.name] = "raw" PROVE IsStrategy(Meant(e))
      OBVIOUS
    <3>1. IsStrategy(e.text) /\ IsText(e)
      BY <1>1 DEF ReadAsInDocs, Raw, IsText, IsTyped
    <3>2. Resolve(e.text, SpacesOf(e)) = e.text
      BY <3>1, WordsStay DEF IsStrategy
    <3> QED
      BY <3>1, <3>2 DEF ReadAsInDocs
  <2> QED
    BY <2>1, <2>2, LevelsKnown DEF BadField
<1>2. \A n \in FieldNames(config) : \E e \in Said : e.form = "field" /\ n[1] = Named(e.on) /\ n[2] = e.name
  BY FieldsAre
<1>3. \A e \in Said : e.form = "field" =>
        \E n \in FieldNames(config) : n[1] = Named(e.on) /\ n[2] = e.name
  <2> SUFFICES ASSUME NEW e \in Said, e.form = "field"
               PROVE  \E n \in FieldNames(config) : n[1] = Named(e.on) /\ n[2] = e.name
    OBVIOUS
  <2>1. <<Named(e.on), e.name>> \in FieldNames(config)
    BY FieldsAre
  <2> QED
    BY <2>1
<1> QED
  BY <1>1, <1>2, <1>3 DEF FieldsKnown

(* ConfigLoad: the filters, whatever the file says.                        *)
Refs(fs, f) == {fs[f][i] : i \in 1..Len(fs[f])}
Names1(path) == {path[i].name : i \in DOMAIN path}
AreLists(fs) == \A f \in DOMAIN fs : IsList(fs[f])

(* Each filter made is made once, after those it refers to.                *)
MadeIs(m, fs) ==
    /\ DOMAIN m \subseteq DOMAIN fs
    /\ \A f \in DOMAIN m : m[f] = 1 /\ Refs(fs, f) \subseteq DOMAIN m
    /\ NoCycle([f \in DOMAIN m |-> Refs(fs, f)])

Hops(D) == [name : D, next : Nat \ {0}]

LEMMA HopIs ==
    ASSUME NEW D
    PROVE  /\ \A v \in Hops(D) : v.name \in D /\ v.next \in Nat \ {0}
           /\ \A f \in D : [name |-> f, next |-> 1] \in Hops(D)
           /\ \A v \in Hops(D) : [v EXCEPT !.next = @ + 1] \in Hops(D)
           /\ \A path \in Seq(Hops(D)) : \A i \in DOMAIN path : path[i] \in Hops(D)
<1>1. \A v \in Hops(D) : v.name \in D /\ v.next \in Nat \ {0}
  BY DEF Hops
<1>2. \A f \in D : [name |-> f, next |-> 1] \in Hops(D)
  BY DEF Hops
<1>3. \A v \in Hops(D) : [v EXCEPT !.next = @ + 1] \in Hops(D)
  BY DEF Hops
<1>4. ASSUME NEW path \in Seq(Hops(D)), NEW i \in DOMAIN path PROVE path[i] \in Hops(D)
  BY ElementOfSeq
<1> QED
  BY <1>1, <1>2, <1>3, <1>4

(* Each filter of the path is unmade and waits for the next one; what it   *)
(* went past is made or is that one.                                       *)
Waits(f, x, path, i, m, fs) ==
    /\ f \notin DOMAIN m
    /\ x <= Len(fs[f]) + 1
    /\ \A j \in 1..Len(fs[f]) : j < x =>
         fs[f][j] \in DOMAIN m \/ (i + 1 \in DOMAIN path /\ path[i + 1].name = fs[f][j])
    /\ i + 1 \in DOMAIN path => path[i + 1].name \in Refs(fs, f)
OnPath(path, i, m, fs) == Waits(path[i].name, path[i].next, path, i, m, fs)
PathIs(path, m, fs) ==
    /\ path \in Seq(Hops(DOMAIN fs))
    /\ \A i \in DOMAIN path : OnPath(path, i, m, fs)
    /\ \A i, j \in DOMAIN path : path[i].name = path[j].name => i = j

LEMMA NothingMade ==
    ASSUME NEW fs, NEW m
    PROVE  MadeIs(<<>>, fs) /\ PathIs(<<>>, m, fs)
<1>1. DOMAIN <<>> = {} /\ Len(<<>>) = 0
  OBVIOUS
<1>2. MadeIs(<<>>, fs)
  BY <1>1 DEF MadeIs, NoCycle
<1>3. <<>> \in Seq(Hops(DOMAIN fs))
  OBVIOUS
<1> QED
  BY <1>1, <1>2, <1>3 DEF PathIs

LEMMA FirstPushed ==
    ASSUME NEW fs, AreLists(fs), NEW m, NEW f \in DOMAIN fs, f \notin DOMAIN m
    PROVE  PathIs(Append(<<>>, [name |-> f, next |-> 1]), m, fs)
<1>1. PICK p : p = Append(<<>>, [name |-> f, next |-> 1])
  OBVIOUS
<1>0. [name |-> f, next |-> 1] \in Hops(DOMAIN fs)
  BY HopIs
<1>2. /\ p \in Seq(Hops(DOMAIN fs))
      /\ DOMAIN p = {1} /\ p[1].name = f /\ p[1].next = 1
  BY <1>0, <1>1
<1>3. Len(fs[f]) \in Nat
  BY DEF AreLists, IsList
<1>4. OnPath(p, 1, m, fs)
  BY <1>2, <1>3 DEF OnPath, Waits
<1> QED
  BY <1>1, <1>2, <1>4 DEF PathIs

(* The last of the path goes on.                                           *)
Onward(path) == [path EXCEPT ![Len(path)].next = @ + 1]

LEMMA OnwardIs ==
    ASSUME NEW D, NEW path \in Seq(Hops(D)), path # <<>>, NEW w, w = Onward(path)
    PROVE  /\ w \in Seq(Hops(D)) /\ Len(w) = Len(path) /\ DOMAIN w = DOMAIN path
           /\ \A i \in DOMAIN path : w[i].name = path[i].name
           /\ \A i \in DOMAIN path : i # Len(path) => w[i] = path[i]
           /\ w[Len(path)].next = path[Len(path)].next + 1
           /\ Last(path) = path[Len(path)] /\ Len(path) \in DOMAIN path
<1>1. PICK k : k = Len(path)
  OBVIOUS
<1>2. k \in Nat /\ k # 0 /\ k \in DOMAIN path /\ DOMAIN path = 1..k
  BY <1>1
<1>3. PICK v : v = [path[k] EXCEPT !.next = @ + 1]
  OBVIOUS
<1>4. path[k] \in Hops(D)
  BY <1>2, HopIs
<1>5. v.name = path[k].name /\ v.next = path[k].next + 1 /\ v \in Hops(D)
  BY <1>3, <1>4, HopIs DEF Hops
<1>6. w = [path EXCEPT ![k] = v]
  BY <1>1, <1>3 DEF Onward
<1>7. w \in Seq(Hops(D)) /\ Len(w) = k /\ DOMAIN w = DOMAIN path
  BY <1>1, <1>2, <1>5, <1>6
<1>8. w[k] = v /\ \A i \in DOMAIN path : i # k => w[i] = path[i]
  BY <1>2, <1>6
<1>9. Last(path) = path[k]
  BY <1>1 DEF Last
<1> QED
  BY <1>1, <1>2, <1>5, <1>7, <1>8, <1>9

LEMMA GoesOn ==
    ASSUME NEW fs, AreLists(fs), NEW m, NEW path, PathIs(path, m, fs), path # <<>>,
           NEW top, top = Last(path), top.next <= Len(fs[top.name]), fs[top.name][top.next] \in DOMAIN m
    PROVE  PathIs(Onward(path), m, fs)
<1>1. PICK w : w = Onward(path)
  OBVIOUS
<1>2. PICK k : k = Len(path)
  OBVIOUS
<1>3. /\ path \in Seq(Hops(DOMAIN fs))
      /\ \A i \in DOMAIN path : OnPath(path, i, m, fs)
      /\ \A i, j \in DOMAIN path : path[i].name = path[j].name => i = j
  BY DEF PathIs
<1>4. /\ w \in Seq(Hops(DOMAIN fs)) /\ DOMAIN w = DOMAIN path
      /\ \A i \in DOMAIN path : w[i].name = path[i].name
      /\ \A i \in DOMAIN path : i # k => w[i] = path[i]
      /\ w[k].next = path[k].next + 1 /\ top = path[k] /\ k \in DOMAIN path
  <2>1. path \in Seq(Hops(DOMAIN fs)) /\ path # <<>> /\ top = Last(path)
    BY <1>3
  <2> QED
    BY <1>1, <1>2, <2>1, OnwardIs
<1>5. DOMAIN path = 1..k /\ k \in Nat
  BY <1>2, <1>3
<1>6. ASSUME NEW i \in DOMAIN path PROVE OnPath(w, i, m, fs)
  <2>1. OnPath(path, i, m, fs)
    BY <1>3
  <2>2. path[i].name \in DOMAIN fs /\ path[i].next \in Nat
    BY <1>3, HopIs
  <2>3. Len(fs[path[i].name]) \in Nat
    BY <2>2 DEF AreLists, IsList
  <2>4. CASE i # k
    <3>1. w[i] = path[i] /\ i + 1 \in DOMAIN path /\ w[i + 1].name = path[i + 1].name
      BY <1>4, <1>5, <2>4
    <3> QED
      BY <1>4, <2>1, <3>1 DEF OnPath, Waits
  <2>5. CASE i = k
    <3>1. i + 1 \notin DOMAIN path
      BY <1>5, <2>5
    <3>2. w[i].name = path[i].name /\ w[i].next = path[i].next + 1 /\ top = path[i]
      BY <1>4, <2>5
    <3>3. PICK g, x, l : g = path[i].name /\ x = path[i].next /\ l = Len(fs[g])
      OBVIOUS
    <3>4. /\ g \notin DOMAIN m /\ x <= l
          /\ \A j \in 1..l : j < x => fs[g][j] \in DOMAIN m
          /\ x \in Nat /\ l \in Nat
      BY <2>1, <2>2, <2>3, <3>1, <3>2, <3>3 DEF OnPath, Waits
    <3>5. w[i].name = g /\ w[i].next = x + 1 /\ i + 1 \notin DOMAIN w /\ fs[g][x] \in DOMAIN m
      BY <1>4, <3>1, <3>2, <3>3
    <3>6. \A j \in 1..l : j < x + 1 => fs[g][j] \in DOMAIN m
      BY <3>4, <3>5
    <3>7. x + 1 <= l + 1
      BY <3>4
    <3>8. Waits(g, x + 1, w, i, m, fs)
      <4>1. l = Len(fs[g]) /\ g \notin DOMAIN m /\ i + 1 \notin DOMAIN w
        BY <3>3, <3>4, <3>5
      <4> QED
        BY <3>6, <3>7, <4>1, Zenon DEF Waits
    <3> QED
      BY <3>8, <3>5 DEF OnPath
  <2> QED
    BY <2>4, <2>5
<1> QED
  BY <1>1, <1>3, <1>4, <1>6 DEF PathIs

LEMMA GoesDeeper ==
    ASSUME NEW fs, AreLists(fs), NEW m, NEW path, PathIs(path, m, fs), path # <<>>,
           NEW top, top = Last(path), top.next <= Len(fs[top.name]), NEW f, f = fs[top.name][top.next],
           f \in DOMAIN fs, f \notin DOMAIN m, f \notin Names1(path)
    PROVE  PathIs(Append(Onward(path), [name |-> f, next |-> 1]), m, fs)
<1>1. PICK v, w : v = Onward(path) /\ w = Append(v, [name |-> f, next |-> 1])
  OBVIOUS
<1>2. PICK k : k = Len(path)
  OBVIOUS
<1>3. /\ path \in Seq(Hops(DOMAIN fs))
      /\ \A i \in DOMAIN path : OnPath(path, i, m, fs)
      /\ \A i, j \in DOMAIN path : path[i].name = path[j].name => i = j
  BY DEF PathIs
<1>4. /\ v \in Seq(Hops(DOMAIN fs)) /\ Len(v) = k
      /\ \A i \in DOMAIN path : v[i].name = path[i].name
      /\ \A i \in DOMAIN path : i # k => v[i] = path[i]
      /\ v[k].next = path[k].next + 1 /\ top = path[k] /\ k \in DOMAIN path
  <2>1. path \in Seq(Hops(DOMAIN fs)) /\ path # <<>> /\ top = Last(path)
    BY <1>3
  <2> QED
    BY <1>1, <1>2, <2>1, OnwardIs
<1>5. DOMAIN path = 1..k /\ k \in Nat
  BY <1>2, <1>3
<1>6. /\ w \in Seq(Hops(DOMAIN fs)) /\ DOMAIN w = 1..(k + 1)
      /\ \A i \in 1..k : w[i] = v[i]
      /\ w[k + 1].name = f /\ w[k + 1].next = 1
  <2>1. [name |-> f, next |-> 1] \in Hops(DOMAIN fs)
    BY HopIs
  <2> QED
    BY <1>1, <1>4, <1>5, <2>1
<1>7. \A i \in 1..k : w[i].name = path[i].name /\ (i # k => w[i] = path[i])
  BY <1>4, <1>5, <1>6
<1>8. w[k].next = path[k].next + 1 /\ path[k].next \in Nat \ {0} /\ path[k].name \in DOMAIN fs
  <2>1. path[k] \in Hops(DOMAIN fs)
    BY <1>3, <1>4, HopIs
  <2>2. w[k] = v[k]
    BY <1>4, <1>5, <1>6
  <2> QED
    BY <1>4, <2>1, <2>2, HopIs
<1>9. ASSUME NEW i \in 1..(k + 1) PROVE OnPath(w, i, m, fs)
  <2>1. CASE i < k
    <3>1. OnPath(path, i, m, fs)
      BY <1>3, <1>5, <2>1
    <3>2. i + 1 \in DOMAIN path /\ i + 1 \in DOMAIN w /\ w[i] = path[i] /\ w[i + 1].name = path[i + 1].name
      BY <1>5, <1>6, <1>7, <2>1
    <3> QED
      BY <3>1, <3>2 DEF OnPath, Waits
  <2>2. CASE i = k
    <3>1. OnPath(path, k, m, fs)
      BY <1>3, <1>4
    <3>2. k + 1 \notin DOMAIN path /\ k + 1 \in DOMAIN w /\ w[k].name = path[k].name
      BY <1>4, <1>5, <1>6, <1>7
    <3>3. Len(fs[path[k].name]) \in Nat
      BY <1>8 DEF AreLists, IsList
    <3>4. f \in Refs(fs, path[k].name) /\ path[k].next <= Len(fs[path[k].name])
      BY <1>4, <1>8, <3>3 DEF Refs
    <3>5. \A j \in 1..Len(fs[path[k].name]) : j < path[k].next + 1 => j < path[k].next \/ j = path[k].next
      BY <1>8, <3>3
    <3>6. PICK g, x, l : g = path[k].name /\ x = path[k].next /\ l = Len(fs[g])
      OBVIOUS
    <3>7. /\ g \notin DOMAIN m /\ x <= l
          /\ \A j \in 1..l : j < x => fs[g][j] \in DOMAIN m
          /\ x \in Nat /\ l \in Nat
      BY <1>8, <3>1, <3>2, <3>3, <3>4, <3>6 DEF OnPath, Waits
    <3>8. /\ w[k].name = g /\ w[k].next = x + 1 /\ w[k + 1].name = f /\ fs[g][x] = f
          /\ f \in Refs(fs, g)
      BY <1>4, <1>6, <1>8, <3>2, <3>4, <3>6
    <3>9. \A j \in 1..l : j < x + 1 => fs[g][j] \in DOMAIN m \/ fs[g][j] = f
      BY <3>5, <3>6, <3>7, <3>8
    <3>10. x + 1 <= l + 1
      BY <3>7
    <3>11. Waits(g, x + 1, w, k, m, fs)
      <4>1. l = Len(fs[g]) /\ g \notin DOMAIN m /\ k + 1 \in DOMAIN w /\ w[k + 1].name = f
        BY <3>2, <3>6, <3>7, <3>8
      <4>2. f \in Refs(fs, g)
        BY <3>8
      <4> QED
        BY <3>9, <3>10, <4>1, <4>2, Zenon DEF Waits
    <3> QED
      BY <2>2, <3>8, <3>11 DEF OnPath
  <2>3. CASE i = k + 1
    <3>1. Len(fs[f]) \in Nat
      BY DEF AreLists, IsList
    <3> QED
      BY <1>5, <1>6, <2>3, <3>1 DEF OnPath, Waits
  <2> QED
    BY <1>5, <2>1, <2>2, <2>3
<1>10. ASSUME NEW i \in 1..(k + 1), NEW j \in 1..(k + 1), w[i].name = w[j].name PROVE i = j
  <2>1. \A l \in 1..k : path[l].name # f
    BY <1>5 DEF Names1
  <2>2. CASE i \in 1..k /\ j \in 1..k
    BY <1>3, <1>5, <1>7, <1>10, <2>2
  <2>3. CASE i = k + 1 \/ j = k + 1
    <3>1. \A l \in 1..k : w[l].name # f
      BY <1>7, <2>1
    <3> QED
      BY <1>5, <1>6, <1>10, <2>3, <3>1
  <2> QED
    BY <1>5, <2>2, <2>3
<1>11. PathIs(w, m, fs)
  <2>1. w \in Seq(Hops(DOMAIN fs)) /\ DOMAIN w = 1..(k + 1)
    BY <1>6
  <2>2. \A i \in DOMAIN w : OnPath(w, i, m, fs)
    BY <1>9, <2>1
  <2>3. \A i, j \in DOMAIN w : w[i].name = w[j].name => i = j
    BY <1>10, <2>1
  <2> QED
    BY <2>1, <2>2, <2>3, Zenon DEF PathIs
<1> QED
  BY <1>1, <1>11

LEMMA FrontIs ==
    ASSUME NEW S, NEW path \in Seq(S), path # <<>>
    PROVE  /\ Front(path) \in Seq(S) /\ Len(path) \in Nat \ {0} /\ DOMAIN path = 1..Len(path)
           /\ DOMAIN Front(path) = 1..(Len(path) - 1)
           /\ \A i \in 1..(Len(path) - 1) : Front(path)[i] = path[i]
           /\ Last(path) = path[Len(path)]
BY DEF Front, Last

LEMMA MadeMore ==
    ASSUME NEW fs, NEW m, MadeIs(m, fs), NEW f \in DOMAIN fs, f \notin DOMAIN m,
           Refs(fs, f) \subseteq DOMAIN m, NEW n, DOMAIN n = DOMAIN m \cup {f},
           n[f] = 1, \A g \in DOMAIN m : n[g] = m[g]
    PROVE  MadeIs(n, fs)
<1>1. \A g \in DOMAIN n : n[g] = 1 /\ Refs(fs, g) \subseteq DOMAIN n
  BY DEF MadeIs
<1>2. ASSUME NEW S \in SUBSET DOMAIN n, S # {} PROVE \E g \in S : Refs(fs, g) \cap S = {}
  <2>1. CASE S \cap DOMAIN m = {}
    <3>1. S = {f}
      BY <1>2, <2>1
    <3> QED
      BY <3>1
  <2>2. CASE S \cap DOMAIN m # {}
    <3>1. PICK T : T = S \cap DOMAIN m
      OBVIOUS
    <3>2. T \in SUBSET DOMAIN m /\ T # {}
      BY <2>2, <3>1
    <3>3. PICK G : G = [g \in DOMAIN m |-> Refs(fs, g)]
      OBVIOUS
    <3>4. \A g \in DOMAIN m : G[g] = Refs(fs, g)
      BY <3>3
    <3>5. DOMAIN G = DOMAIN m /\ NoCycle(G)
      BY <3>3 DEF MadeIs
    <3>6. PICK g \in T : G[g] \cap T = {}
      BY <3>2, <3>5 DEF NoCycle
    <3>7. g \in S /\ g \in DOMAIN m /\ Refs(fs, g) \cap T = {}
      BY <3>1, <3>4, <3>6
    <3>8. Refs(fs, g) \subseteq DOMAIN m
      BY <3>7 DEF MadeIs
    <3>9. Refs(fs, g) \cap S = {}
      BY <3>1, <3>7, <3>8
    <3> QED
      BY <3>7, <3>9
  <2> QED
    BY <2>1, <2>2
<1>3. NoCycle([g \in DOMAIN n |-> Refs(fs, g)])
  <2>1. PICK G : G = [g \in DOMAIN n |-> Refs(fs, g)]
    OBVIOUS
  <2>2. DOMAIN G = DOMAIN n /\ \A g \in DOMAIN n : G[g] = Refs(fs, g)
    BY <2>1
  <2>3. \A S \in SUBSET DOMAIN G : S # {} => \E g \in S : G[g] \cap S = {}
    BY <1>2, <2>2
  <2> QED
    BY <2>1, <2>3 DEF NoCycle
<1>4. DOMAIN n \subseteq DOMAIN fs
  BY DEF MadeIs
<1> QED
  BY <1>1, <1>3, <1>4 DEF MadeIs

(* The last of the path is made.                                           *)
LEMMA MadeLast ==
    ASSUME NEW fs, AreLists(fs), NEW m, MadeIs(m, fs), NEW path, PathIs(path, m, fs), path # <<>>,
           NEW f, f = Last(path).name, ~(Last(path).next <= Len(fs[f]))
    PROVE  /\ MadeIs(Set(m, f, 1), fs) /\ PathIs(Front(path), Set(m, f, 1), fs)
           /\ DOMAIN Set(m, f, 1) = DOMAIN m \cup {f}
           /\ Names1(path) = Names1(Front(path)) \cup {f}
<1>0. PICK n : n = Set(m, f, 1)
  OBVIOUS
<1>1. PICK k, v : k = Len(path) /\ v = Front(path)
  OBVIOUS
<1>2. /\ path \in Seq(Hops(DOMAIN fs))
      /\ \A i \in DOMAIN path : OnPath(path, i, m, fs)
      /\ \A i, j \in DOMAIN path : path[i].name = path[j].name => i = j
  BY DEF PathIs
<1>3. /\ v \in Seq(Hops(DOMAIN fs)) /\ k \in Nat \ {0} /\ DOMAIN path = 1..k
      /\ DOMAIN v = 1..(k - 1) /\ \A i \in 1..(k - 1) : v[i] = path[i]
      /\ Last(path) = path[k]
  BY <1>1, <1>2, FrontIs
<1>4. path[k].name = f /\ path[k].next \in Nat /\ f \in DOMAIN fs /\ ~(path[k].next <= Len(fs[f]))
  <2>1. path[k] \in Hops(DOMAIN fs)
    BY <1>2, <1>3, HopIs
  <2> QED
    BY <1>3, <2>1, HopIs
<1>5. Len(fs[f]) \in Nat
  BY <1>4 DEF AreLists, IsList
<1>6. f \notin DOMAIN m /\ Refs(fs, f) \subseteq DOMAIN m
  <2>1. OnPath(path, k, m, fs) /\ k + 1 \notin DOMAIN path
    BY <1>2, <1>3
  <2>2. f \notin DOMAIN m /\ \A j \in 1..Len(fs[f]) : j < path[k].next => fs[f][j] \in DOMAIN m
    BY <1>4, <2>1 DEF OnPath, Waits
  <2> QED
    BY <1>4, <1>5, <2>2 DEF Refs
<1>7. DOMAIN n = DOMAIN m \cup {f} /\ n[f] = 1 /\ \A g \in DOMAIN m : n[g] = m[g]
  <2>1. n = [z \in DOMAIN m \cup {f} |-> IF z = f THEN 1 ELSE m[z]]
    BY <1>0 DEF Set
  <2> QED
    BY <1>6, <2>1
<1>8. MadeIs(n, fs)
  BY <1>4, <1>6, <1>7, MadeMore
<1>9. ASSUME NEW i \in 1..(k - 1) PROVE OnPath(v, i, n, fs)
  <2>1. OnPath(path, i, m, fs) /\ i \in DOMAIN path /\ i + 1 \in DOMAIN path /\ i # k
    BY <1>2, <1>3
  <2>2. PICK g, x : g = path[i].name /\ x = path[i].next
    OBVIOUS
  <2>3. v[i].name = g /\ v[i].next = x /\ g # f
    BY <1>2, <1>3, <1>4, <2>1, <2>2
  <2>4. /\ g \notin DOMAIN m /\ x <= Len(fs[g]) + 1
        /\ \A j \in 1..Len(fs[g]) : j < x => fs[g][j] \in DOMAIN m \/ path[i + 1].name = fs[g][j]
        /\ path[i + 1].name \in Refs(fs, g)
    BY <2>1, <2>2 DEF OnPath, Waits
  <2>5. CASE i + 1 = k
    <3>1. i + 1 \notin DOMAIN v /\ path[i + 1].name = f
      BY <1>3, <1>4, <2>5
    <3>2. g \notin DOMAIN n /\ \A j \in 1..Len(fs[g]) : j < x => fs[g][j] \in DOMAIN n
      BY <1>7, <2>3, <2>4, <3>1
    <3>3. Waits(g, x, v, i, n, fs)
      BY <2>4, <3>1, <3>2 DEF Waits
    <3> QED
      BY <2>3, <3>3 DEF OnPath
  <2>6. CASE i + 1 # k
    <3>1. i + 1 \in DOMAIN v /\ v[i + 1] = path[i + 1]
      BY <1>3, <2>6
    <3>2. g \notin DOMAIN n /\ DOMAIN m \subseteq DOMAIN n
      BY <1>7, <2>3, <2>4
    <3>3. Waits(g, x, v, i, n, fs)
      BY <2>4, <3>1, <3>2 DEF Waits
    <3> QED
      BY <2>3, <3>3 DEF OnPath
  <2> QED
    BY <2>5, <2>6
<1>10. \A i, j \in DOMAIN v : v[i].name = v[j].name => i = j
  BY <1>2, <1>3
<1>11. PathIs(v, n, fs)
  BY <1>3, <1>9, <1>10 DEF PathIs
<1>12. Names1(path) = Names1(v) \cup {f}
  <2>1. DOMAIN path = DOMAIN v \cup {k}
    BY <1>3
  <2> QED
    BY <1>3, <1>4, <2>1 DEF Names1
<1> QED
  BY <1>0, <1>1, <1>7, <1>8, <1>11, <1>12

(* A filter refers back to one in progress: the path from that one on is   *)
(* a circle.                                                               *)
LEMMA CircleIs ==
    ASSUME NEW fs, AreLists(fs), NEW m, NEW path, PathIs(path, m, fs), path # <<>>,
           NEW top, top = Last(path), top.next <= Len(fs[top.name]),
           fs[top.name][top.next] \in Names1(path)
    PROVE  \E S \in SUBSET DOMAIN fs : S # {} /\ \A f \in S : Refs(fs, f) \cap S # {}
<1>1. PICK k : k = Len(path)
  OBVIOUS
<1>2. /\ path \in Seq(Hops(DOMAIN fs))
      /\ \A i \in DOMAIN path : OnPath(path, i, m, fs)
  BY DEF PathIs
<1>3. k \in Nat \ {0} /\ DOMAIN path = 1..k /\ top = path[k]
  BY <1>1, <1>2, FrontIs
<1>4. PICK i \in 1..k : path[i].name = fs[top.name][top.next]
  BY <1>3 DEF Names1
<1>5. PICK S : S = {path[j].name : j \in i..k}
  OBVIOUS
<1>6. \A j \in 1..k : path[j].name \in DOMAIN fs /\ path[j].next \in Nat \ {0}
  BY <1>2, <1>3, HopIs
<1>7. S \in SUBSET DOMAIN fs
  BY <1>3, <1>5, <1>6
<1>8. \A j \in i..k : path[j].name \in S
  BY <1>5
<1>9. ASSUME NEW j \in i..k PROVE Refs(fs, path[j].name) \cap S # {}
  <2>1. CASE j = k
    <3>1. Len(fs[top.name]) \in Nat
      BY <1>3, <1>6 DEF AreLists, IsList
    <3>2. top.next \in 1..Len(fs[top.name])
      BY <1>3, <1>6, <3>1
    <3>3. path[i].name \in Refs(fs, top.name)
      BY <1>4, <3>2 DEF Refs
    <3>4. path[i].name \in S
      BY <1>8
    <3> QED
      BY <1>3, <2>1, <3>3, <3>4
  <2>2. CASE j # k
    <3>1. j \in DOMAIN path /\ j + 1 \in DOMAIN path /\ j + 1 \in i..k
      BY <1>3, <2>2
    <3>2. path[j + 1].name \in Refs(fs, path[j].name)
      BY <1>2, <3>1 DEF OnPath, Waits
    <3> QED
      BY <1>8, <3>1, <3>2
  <2> QED
    BY <2>1, <2>2
<1>10. S # {} /\ \A f \in S : Refs(fs, f) \cap S # {}
  <2>1. path[i].name \in S
    BY <1>3, <1>8
  <2>2. ASSUME NEW f \in S PROVE Refs(fs, f) \cap S # {}
    <3>1. PICK j \in i..k : f = path[j].name
      BY <1>5
    <3> QED
      BY <1>9, <3>1
  <2> QED
    BY <2>1, <2>2
<1> QED
  BY <1>7, <1>10

Wanted == DOMAIN config.filters \cup {x[2] : x \in PairCells(config)}

(* What building the filters keeps, for every file.                        *)
FiltersInv ==
    /\ DocumentIsWell
    /\ FiltersAreLists(config)
    /\ loadStage # "filters" => visiting = <<>>
    /\ loadStage \notin {"filters", "loaded", "failed"} => made = <<>>
    /\ MadeIs(made, config.filters)
    /\ PathIs(visiting, made, config.filters)
    /\ loadStage = "filters" => /\ todo \subseteq Wanted
                                /\ Wanted \subseteq DOMAIN made \cup todo \cup Names1(visiting)
    /\ loadStage = "loaded" => DOMAIN made = DOMAIN config.filters

LEMMA MadeOnceIs ==
    ASSUME FiltersInv
    PROVE  FiltersMadeOnce
<1>1. \A f : RefersTo(f) = Refs(config.filters, f)
  BY Zenon DEF RefersTo, Refs
<1>2. [f \in DOMAIN made |-> RefersTo(f)] = [f \in DOMAIN made |-> Refs(config.filters, f)]
  BY <1>1
<1>3. MadeIs(made, config.filters) /\ (loadStage = "loaded" => DOMAIN made = DOMAIN config.filters)
  BY DEF FiltersInv
<1>4. \A f \in DOMAIN made : made[f] = 1 /\ RefersTo(f) \subseteq DOMAIN made
  BY <1>1, <1>3 DEF MadeIs
<1>5. NoCycle([f \in DOMAIN made |-> RefersTo(f)])
  BY <1>2, <1>3 DEF MadeIs
<1> QED
  BY <1>3, <1>4, <1>5 DEF FiltersMadeOnce

LEMMA FiltersInitially ==
    LoadInit => FiltersInv
<1> SUFFICES ASSUME LoadInit PROVE FiltersInv
  OBVIOUS
<1>1. document.entries = <<>> /\ document.format = "yaml"
  BY DEF LoadInit
<1>2. ToSet(<<>>) = {}
  BY DEF ToSet
<1>3. DocumentIsWell
  BY <1>1, <1>2 DEF DocumentIsWell, Entries
<1>4. FiltersAreLists(config)
  BY NothingLists DEF LoadInit
<1>5. MadeIs(made, config.filters) /\ PathIs(visiting, made, config.filters)
  BY NothingMade DEF LoadInit
<1> QED
  BY <1>3, <1>4, <1>5 DEF FiltersInv, LoadInit

(* Before the filters nothing is made.                                     *)
LEMMA NotYetFilters ==
    ASSUME DocumentIsWell', FiltersAreLists(config'), made' = <<>>, visiting' = <<>>,
           loadStage' # "filters", loadStage' = "loaded" => config' = NoConfig
    PROVE  FiltersInv'
<1>1. MadeIs(made', config'.filters) /\ PathIs(visiting', made', config'.filters)
  BY NothingMade
<1>2. loadStage' = "loaded" => DOMAIN made' = DOMAIN config'.filters
  BY DEF NoConfig
<1> QED
  BY <1>1, <1>2 DEF FiltersInv

LEMMA FailedFilters ==
    ASSUME FiltersInv, document' = document, config' = config, made' = made, visiting' = <<>>,
           loadStage' = "failed"
    PROVE  FiltersInv'
<1>1. DocumentIsWell'
  BY DEF FiltersInv, DocumentIsWell, Entries
<1>2. FiltersAreLists(config') /\ MadeIs(made', config'.filters)
  BY DEF FiltersInv
<1>3. PathIs(visiting', made', config'.filters)
  BY NothingMade
<1> QED
  BY <1>1, <1>2, <1>3 DEF FiltersInv

LEMMA DocumentStays ==
    ASSUME DocumentIsWell, document' = document
    PROVE  DocumentIsWell'
BY DEF DocumentIsWell, Entries

LEMMA FiltersBefore ==
    ASSUME FiltersInv, LoadNext, loadStage \notin {"filters"}
    PROVE  FiltersInv'
<1>1. DocumentIsWell /\ FiltersAreLists(config) /\ visiting = <<>>
  BY DEF FiltersInv
<1>2. loadStage \notin {"loaded", "failed"} => made = <<>>
  BY DEF FiltersInv
<1>3. Fail => FiltersInv'
  BY FailedFilters DEF Fail
<1>4. ASSUME NEW d \in Documents \cup Reloads, Open(d) PROVE FiltersInv'
  <2>1. document' = d /\ config' = NoConfig /\ made' = <<>> /\ visiting' = <<>>
    BY <1>4 DEF Open
  <2>2. loadStage' \in {"decode", "unopened"}
    BY <1>4 DEF Open
  <2>3. DocumentIsWell'
    BY <2>1, LoadAssumption DEF DocumentIsWell, Entries
  <2> QED
    BY <2>1, <2>2, <2>3, NothingLists, NotYetFilters
<1>5. ASSUME loadStage = "decode", Decoded PROVE FiltersInv'
  <2>1. DocumentIsWell'
    BY <1>1, <1>5, DocumentStays DEF Decoded
  <2>2. FiltersAreLists(config')
    BY <1>1, <1>5, FoldLists DEF Decoded
  <2> QED
    BY <1>1, <1>2, <1>5, <2>1, <2>2, NotYetFilters DEF Decoded
<1>6. CASE DecodeStructured \/ DecodeXML
  BY <1>3, <1>5, <1>6 DEF DecodeStructured, DecodeXML
<1>7. ASSUME document' = document, config' = config, made' = made, visiting' = visiting,
             loadStage \notin {"loaded", "failed"}, loadStage' \notin {"loaded", "filters"}
      PROVE  FiltersInv'
  BY <1>1, <1>2, <1>7, DocumentStays, NotYetFilters
<1>8. CASE ApplyPairs \/ Finalize
  BY <1>3, <1>7, <1>8 DEF ApplyPairs, Finalize
<1>9. ASSUME NEW i \in DOMAIN document.entries, ApplyProperty(i) PROVE FiltersInv'
  <2>1. CASE Mistyped(document.entries[i])
    BY <1>3, <1>9, <2>1 DEF ApplyProperty
  <2>2. CASE ~Mistyped(document.entries[i])
    <3>1. config' = Apply(config, document.entries[i])
      BY <1>9, <2>2 DEF ApplyProperty
    <3>2. document.entries[i] \in Sayings
      BY <1>1, EntriesAre
    <3>3. FiltersAreLists(config')
      BY <1>1, <3>1, <3>2, ApplyLists
    <3>4. /\ document' = document /\ made' = made /\ visiting' = visiting
          /\ loadStage = "decode" /\ loadStage' = loadStage
      BY <1>9, <2>2 DEF ApplyProperty
    <3>5. DocumentIsWell'
      BY <1>1, <3>4, DocumentStays
    <3> QED
      BY <1>1, <1>2, <3>3, <3>4, <3>5, NotYetFilters
  <2> QED
    BY <2>1, <2>2
<1>10. CASE ResolveLookups
  <2>1. CASE ~AllResolvable(config)
    BY <1>3, <1>10, <2>1 DEF ResolveLookups
  <2>2. CASE AllResolvable(config)
    <3>1. /\ config' = [config EXCEPT !.cells = ResolveCells(config), !.refs = ResolveRefs(config)]
          /\ document' = document /\ made' = made /\ visiting' = visiting /\ loadStage = "resolve"
          /\ loadStage' = IF config = NoConfig THEN "loaded" ELSE "levels"
      BY <1>10, <2>2 DEF ResolveLookups
    <3>2. DOMAIN config = {"cells", "refs", "filters"}
      BY <1>1 DEF FiltersAreLists, IsConfig
    <3>3. config'.filters = config.filters /\ DOMAIN config' = DOMAIN config
      <4>1. PICK a, b, c : a = ResolveCells(config) /\ b = ResolveRefs(config) /\ c = [config EXCEPT !.cells = a]
        OBVIOUS
      <4>2. config' = [c EXCEPT !.refs = b]
        BY <3>1, <4>1
      <4> QED
        BY <3>2, <4>1, <4>2
    <3>4. FiltersAreLists(config')
      BY <1>1, <3>2, <3>3 DEF FiltersAreLists, IsConfig
    <3>5. DocumentIsWell' /\ made' = <<>> /\ visiting' = <<>>
      BY <1>1, <1>2, <3>1, DocumentStays
    <3>6. MadeIs(made', config'.filters) /\ PathIs(visiting', made', config'.filters)
      BY <3>5, NothingMade
    <3>7. loadStage' = "loaded" => DOMAIN made' = DOMAIN config'.filters
      BY <3>1, <3>3, <3>5 DEF NoConfig
    <3>8. loadStage' # "filters"
      BY <3>1
    <3> QED
      BY <3>4, <3>5, <3>6, <3>7, <3>8 DEF FiltersInv
  <2> QED
    BY <2>1, <2>2
<1>11. CASE ValidateAsync
  <2>1. CASE Cardinality(AsyncSections(config)) > 1
    BY <1>3, <1>11, <2>1 DEF ValidateAsync
  <2>2. CASE ~(Cardinality(AsyncSections(config)) > 1)
    <3>1. /\ loadStage' = "filters" /\ loadStage = "levels" /\ todo' = Wanted
          /\ document' = document /\ config' = config /\ made' = made /\ visiting' = visiting
      BY <1>11, <2>2 DEF ValidateAsync, Wanted
    <3>2. Wanted' = Wanted
      BY <3>1 DEF Wanted, PairCells
    <3>3. DocumentIsWell' /\ FiltersAreLists(config')
      BY <1>1, <3>1, DocumentStays
    <3>4. MadeIs(made', config'.filters) /\ PathIs(visiting', made', config'.filters)
      BY <3>1 DEF FiltersInv
    <3> QED
      BY <3>1, <3>2, <3>3, <3>4 DEF FiltersInv
  <2> QED
    BY <2>1, <2>2
<1>12. CASE loadStage = "levels" /\ \E n \in todo : RegisterLevel(n)
  BY <1>3, <1>7, <1>12 DEF RegisterLevel
<1>13. ~NestedFilter /\ ~MakeFilter /\ ~Finish
  BY DEF NestedFilter, MakeFilter, Finish
<1>14. \A d : d \in (IF loads = 0 THEN Documents ELSE Reloads) => d \in Documents \cup Reloads
  OBVIOUS
<1> QED
  BY <1>4, <1>6, <1>8, <1>9, <1>10, <1>11, <1>12, <1>13, <1>14, Zenon DEF LoadNext

LEMMA FiltersDuring ==
    ASSUME FiltersInv, loadStage = "filters", LoadNext
    PROVE  FiltersInv'
<1>1. /\ DocumentIsWell /\ FiltersAreLists(config) /\ MadeIs(made, config.filters)
      /\ PathIs(visiting, made, config.filters) /\ todo \subseteq Wanted
      /\ Wanted \subseteq DOMAIN made \cup todo \cup Names1(visiting)
  BY DEF FiltersInv
<1>2. PICK fs : fs = config.filters
  OBVIOUS
<1>3. AreLists(fs) /\ InProgress = Names1(visiting)
  BY <1>1, <1>2 DEF AreLists, FiltersAreLists, InProgress, Names1
<1>4. ASSUME document' = document, config' = config
      PROVE  DocumentIsWell' /\ FiltersAreLists(config') /\ Wanted' = Wanted /\ config'.filters = fs
  <2>1. Wanted' = Wanted
    BY <1>4 DEF Wanted, PairCells
  <2> QED
    BY <1>1, <1>2, <1>4, <2>1, DocumentStays
<1>5. ASSUME document' = document, config' = config, made' = made, loadStage' = "failed", visiting' = <<>>
      PROVE  FiltersInv'
  BY <1>5, FailedFilters
<1>6. ASSUME NEW f \in todo, NextFilter(f) PROVE FiltersInv'
  <2>1. /\ document' = document /\ config' = config /\ made' = made /\ todo' = todo \ {f}
        /\ visiting = <<>> /\ BuildFilter(f, visiting)
    BY <1>6 DEF NextFilter
  <2>2. Names1(visiting) = {}
    BY <2>1 DEF Names1
  <2>3. CASE f \in DOMAIN made /\ visiting' = visiting /\ loadStage' = loadStage
    <3>1. MadeIs(made', fs) /\ PathIs(visiting', made', fs)
      BY <1>1, <1>2, <2>1, <2>3
    <3>2. todo' \subseteq Wanted /\ Wanted \subseteq DOMAIN made' \cup todo' \cup Names1(visiting')
      BY <1>1, <2>1, <2>2, <2>3
    <3> QED
      BY <1>4, <2>1, <2>3, <3>1, <3>2 DEF FiltersInv
  <2>4. CASE /\ f \notin DOMAIN made /\ f \in DOMAIN config.filters /\ loadStage' = loadStage
             /\ visiting' = Append(visiting, [name |-> f, next |-> 1])
    <3>1. PathIs(visiting', made', fs) /\ MadeIs(made', fs)
      BY <1>1, <1>2, <1>3, <2>1, <2>4, FirstPushed
    <3>2. Names1(visiting') = {f}
      <4>1. PICK p : p = Append(<<>>, [name |-> f, next |-> 1])
        OBVIOUS
      <4>2. DOMAIN p = {1} /\ p[1].name = f
        BY <4>1
      <4> QED
        BY <2>1, <2>4, <4>1, <4>2 DEF Names1
    <3>3. todo' \subseteq Wanted /\ Wanted \subseteq DOMAIN made' \cup todo' \cup Names1(visiting')
      BY <1>1, <2>1, <2>2, <3>2
    <3> QED
      BY <1>4, <2>1, <2>4, <3>1, <3>3 DEF FiltersInv
  <2>5. CASE visiting' = <<>> /\ loadStage' = "failed"
    BY <1>5, <2>1, <2>5
  <2> QED
    BY <2>1, <2>3, <2>4, <2>5 DEF BuildFilter, Made
<1>7. CASE NestedFilter
  <2>1. PICK top, f : top = Last(visiting) /\ f = fs[top.name][top.next]
    OBVIOUS
  <2>2. /\ document' = document /\ config' = config /\ made' = made /\ todo' = todo
        /\ visiting # <<>> /\ top.next <= Len(fs[top.name]) /\ BuildFilter(f, Onward(visiting))
    BY <1>2, <1>7, <2>1 DEF NestedFilter, Onward
  <2>3. visiting \in Seq(Hops(DOMAIN fs))
    BY <1>1, <1>2 DEF PathIs
  <2>4. PICK w : w = Onward(visiting)
    OBVIOUS
  <2>5. /\ w \in Seq(Hops(DOMAIN fs)) /\ DOMAIN w = DOMAIN visiting
        /\ \A i \in DOMAIN visiting : w[i].name = visiting[i].name
    BY <2>2, <2>3, <2>4, OnwardIs
  <2>6. Names1(w) = Names1(visiting)
    BY <2>5 DEF Names1
  <2>7. CASE f \in DOMAIN made /\ visiting' = w /\ loadStage' = loadStage
    <3>1. PathIs(visiting', made', fs) /\ MadeIs(made', fs)
      BY <1>1, <1>2, <1>3, <2>1, <2>2, <2>4, <2>7, GoesOn
    <3>2. todo' \subseteq Wanted /\ Wanted \subseteq DOMAIN made' \cup todo' \cup Names1(visiting')
      BY <1>1, <2>2, <2>6, <2>7
    <3> QED
      BY <1>4, <2>2, <2>7, <3>1, <3>2 DEF FiltersInv
  <2>8. CASE /\ f \notin DOMAIN made /\ f \in DOMAIN fs \ Names1(visiting) /\ loadStage' = loadStage
             /\ visiting' = Append(w, [name |-> f, next |-> 1])
    <3>1. PathIs(visiting', made', fs) /\ MadeIs(made', fs)
      BY <1>1, <1>2, <1>3, <2>1, <2>2, <2>4, <2>8, GoesDeeper
    <3>2. Names1(visiting) \subseteq Names1(visiting')
      <4>1. PICK h, p : h = [name |-> f, next |-> 1] /\ p = Append(w, h)
        OBVIOUS
      <4>2. DOMAIN w \subseteq DOMAIN p /\ \A i \in DOMAIN w : p[i] = w[i]
        BY <2>5, <4>1
      <4> QED
        BY <2>6, <2>8, <4>1, <4>2 DEF Names1
    <3>3. todo' \subseteq Wanted /\ Wanted \subseteq DOMAIN made' \cup todo' \cup Names1(visiting')
      BY <1>1, <2>2, <3>2
    <3> QED
      BY <1>4, <2>2, <2>8, <3>1, <3>3 DEF FiltersInv
  <2>9. CASE visiting' = <<>> /\ loadStage' = "failed"
    BY <1>5, <2>2, <2>9
  <2> QED
    BY <1>2, <1>3, <2>2, <2>4, <2>7, <2>8, <2>9 DEF BuildFilter, Made
<1>8. CASE MakeFilter
  <2>1. PICK f : f = Last(visiting).name
    OBVIOUS
  <2>2. /\ document' = document /\ config' = config /\ todo' = todo /\ loadStage' = loadStage
        /\ visiting # <<>> /\ Last(visiting).next > Len(fs[f]) /\ visiting' = Front(visiting)
        /\ made' = Set(made, f, IF f \in DOMAIN made THEN made[f] + 1 ELSE 1)
    BY <1>2, <1>8, <2>1 DEF MakeFilter, Made
  <2>3. f \notin DOMAIN made
    <3>1. PICK k : k = Len(visiting)
      OBVIOUS
    <3>2. visiting \in Seq(Hops(DOMAIN fs))
      BY <1>1, <1>2 DEF PathIs
    <3>3. k \in DOMAIN visiting /\ Last(visiting) = visiting[k]
      BY <2>2, <3>1, <3>2, FrontIs
    <3>4. OnPath(visiting, k, made, fs)
      BY <1>1, <1>2, <3>3 DEF PathIs
    <3> QED
      BY <2>1, <3>3, <3>4 DEF OnPath, Waits
  <2>4. made' = Set(made, f, 1)
    BY <2>2, <2>3
  <2>5. /\ MadeIs(made', fs) /\ PathIs(visiting', made', fs)
        /\ DOMAIN made' = DOMAIN made \cup {f}
        /\ Names1(visiting) = Names1(visiting') \cup {f}
    <3>1. PICK n : n = Set(made, f, 1)
      OBVIOUS
    <3>2. MadeIs(made, fs) /\ PathIs(visiting, made, fs)
      BY <1>1, <1>2
    <3>3. /\ MadeIs(n, fs) /\ PathIs(Front(visiting), n, fs)
          /\ DOMAIN n = DOMAIN made \cup {f}
          /\ Names1(visiting) = Names1(Front(visiting)) \cup {f}
      <4>1. AreLists(fs) /\ visiting # <<>> /\ f = Last(visiting).name /\ ~(Last(visiting).next <= Len(fs[f]))
        <5>1. PICK k : k = Len(visiting)
          OBVIOUS
        <5>2. visiting \in Seq(Hops(DOMAIN fs))
          BY <1>1, <1>2 DEF PathIs
        <5>3. k \in DOMAIN visiting /\ Last(visiting) = visiting[k]
          BY <2>2, <5>1, <5>2, FrontIs
        <5>4. Last(visiting).next \in Nat /\ f \in DOMAIN fs
          BY <2>1, <5>2, <5>3, HopIs
        <5>5. Len(fs[f]) \in Nat
          BY <1>3, <5>4 DEF AreLists, IsList
        <5> QED
          BY <1>3, <2>1, <2>2, <5>4, <5>5
      <4>2. MadeIs(Set(made, f, 1), fs)
        BY <3>2, <4>1, MadeLast
      <4>3. PathIs(Front(visiting), Set(made, f, 1), fs)
        BY <3>2, <4>1, MadeLast
      <4>4. DOMAIN Set(made, f, 1) = DOMAIN made \cup {f}
        BY SetFacts
      <4>5. Names1(visiting) = Names1(Front(visiting)) \cup {f}
        <5>1. PICK k, v : k = Len(visiting) /\ v = Front(visiting)
          OBVIOUS
        <5>2. visiting \in Seq(Hops(DOMAIN fs))
          BY <1>1, <1>2 DEF PathIs
        <5>3. /\ k \in Nat \ {0} /\ DOMAIN visiting = 1..k
              /\ DOMAIN v = 1..(k - 1) /\ \A i \in 1..(k - 1) : v[i] = visiting[i]
              /\ visiting[k].name = f
          BY <2>2, <4>1, <5>1, <5>2, FrontIs
        <5>4. DOMAIN visiting = DOMAIN v \cup {k}
          BY <5>3
        <5> QED
          BY <5>1, <5>3, <5>4 DEF Names1
      <4> QED
        BY <3>1, <4>2, <4>3, <4>4, <4>5
    <3> QED
      BY <2>2, <2>4, <3>1, <3>3
  <2>6. todo' \subseteq Wanted /\ Wanted \subseteq DOMAIN made' \cup todo' \cup Names1(visiting')
    BY <1>1, <2>2, <2>5
  <2> QED
    BY <1>4, <2>2, <2>5, <2>6 DEF FiltersInv
<1>9. CASE Finish
  <2>1. /\ document' = document /\ config' = config /\ made' = made /\ visiting' = visiting
        /\ visiting = <<>> /\ todo = {} /\ loadStage' \in {"failed", "loaded"}
    BY <1>9 DEF Finish
  <2>2. DOMAIN made = DOMAIN fs
    <3>1. Names1(visiting) = {}
      BY <2>1 DEF Names1
    <3>2. DOMAIN fs \subseteq Wanted
      BY <1>2 DEF Wanted
    <3>3. DOMAIN made \subseteq DOMAIN fs
      BY <1>1, <1>2 DEF MadeIs
    <3> QED
      BY <1>1, <2>1, <3>1, <3>2, <3>3
  <2>3. MadeIs(made', fs) /\ PathIs(visiting', made', fs)
    BY <1>1, <1>2, <2>1
  <2> QED
    BY <1>4, <2>1, <2>2, <2>3 DEF FiltersInv
<1>10. /\ ~DecodeStructured /\ ~DecodeXML /\ ~ApplyPairs /\ ~Finalize /\ ~ResolveLookups /\ ~ValidateAsync
       /\ \A i : ~ApplyProperty(i)
       /\ \A d : ~Open(d)
       /\ ~(loadStage = "levels")
  BY DEF DecodeStructured, DecodeXML, ApplyPairs, Finalize, ResolveLookups, ValidateAsync,
         ApplyProperty, Open
<1> QED
  BY <1>6, <1>7, <1>8, <1>9, <1>10, Zenon DEF LoadNext

LEMMA FiltersKept ==
    FiltersInv /\ [LoadNext]_loadVars => FiltersInv'
<1> SUFFICES ASSUME FiltersInv, [LoadNext]_loadVars PROVE FiltersInv'
  OBVIOUS
<1>1. CASE UNCHANGED loadVars
  <2>1. /\ document' = document /\ config' = config /\ made' = made /\ visiting' = visiting
        /\ loadStage' = loadStage /\ todo' = todo
    BY <1>1 DEF loadVars
  <2>2. DocumentIsWell' /\ Wanted' = Wanted
    <3>1. Wanted' = Wanted
      BY <2>1 DEF Wanted, PairCells
    <3>2. DocumentIsWell
      BY DEF FiltersInv
    <3> QED
      BY <2>1, <3>1, <3>2, DocumentStays
  <2> QED
    BY <2>1, <2>2 DEF FiltersInv
<1> QED
  BY <1>1, FiltersBefore, FiltersDuring

(* What decoding makes sure of.                                            *)
Decodes == /\ WellTyped /\ (Structured => WellFormed)
           /\ Properties => PairsHave("key") /\ PairsHave("value")

LEMMA ToldNext ==
    ASSUME document' = document, NEW c, NEW A
    PROVE  Told(c, A)' <=> Told(c, A)
<1>1. Properties' = Properties /\ (\A o : Named(o)' = Named(o)) /\ (\A e : Cell(e)' = Cell(e))
  BY SaidStays
<1>2. CellsTold(c, A)' <=> CellsTold(c, A)
  BY <1>1 DEF CellsTold
<1>3. FiltersTold(c, A)' <=> FiltersTold(c, A)
  BY DEF FiltersTold
<1>4. ASSUME NEW o, NEW id, NEW part PROVE PartTold(A, o, id, part)' = PartTold(A, o, id, part)
  <2>1. PartsTold(A, o, id, part)' = PartsTold(A, o, id, part)
    BY <1>1 DEF PartsTold
  <2>2. NewRef(id)' = NewRef(id)
    BY <1>1 DEF NewRef
  <2> QED
    BY <2>1, <2>2 DEF PartTold
<1>5. \A o, id : RefTold(A, o, id)' = RefTold(A, o, id)
  BY <1>4 DEF RefTold
<1>6. ASSUME NEW rs, NEW o PROVE RefsOfTold(rs, A, o)' <=> RefsOfTold(rs, A, o)
  <2>1. PICK P : P = {x.name : x \in {y \in A : y.form = "ref" /\ Named(y.on) = o}}
    OBVIOUS
  <2>2. P = {x.name : x \in {y \in A : y.form = "ref" /\ Named(y.on)' = o}}
    BY <1>1, <2>1
  <2>3. RefsOfTold(rs, A, o) <=>
             /\ IsList(rs)
             /\ \A i \in DOMAIN rs : rs[i] = RefTold(A, o, rs[i].id)
             /\ \A i, j \in DOMAIN rs : rs[i].id = rs[j].id => i = j
             /\ {rs[i].id : i \in DOMAIN rs} = P
    BY <2>1 DEF RefsOfTold
  <2>4. RefsOfTold(rs, A, o)' <=>
             /\ IsList(rs)
             /\ \A i \in DOMAIN rs : rs[i] = RefTold(A, o, rs[i].id)'
             /\ \A i, j \in DOMAIN rs : rs[i].id = rs[j].id => i = j
             /\ {rs[i].id : i \in DOMAIN rs} = P
    BY <2>2 DEF RefsOfTold
  <2> QED
    BY <1>5, <2>3, <2>4
<1>7. RefsTold(c, A)' <=> RefsTold(c, A)
  BY <1>1, <1>6 DEF RefsTold
<1> QED
  BY <1>2, <1>3, <1>7 DEF Told

LEMMA MeantNext ==
    ASSUME document' = document, NEW c
    PROVE  MeantBy(c)' <=> MeantBy(c)
<1>1. Said' = Said /\ (\A o : Named(o)' = Named(o)) /\ (\A e : Cell(e)' = Cell(e))
  BY SaidStays
<1>2. (\A e : Meant(e)' = Meant(e)) /\ (\A e : FactsOf(e)' = FactsOf(e))
  BY MeaningStays
<1>3. CellsMeant(c)' <=> CellsMeant(c)
  BY <1>1, <1>2 DEF CellsMeant
<1>4. FiltersTold(c, Said)' <=> FiltersTold(c, Said)
  BY <1>1 DEF FiltersTold
<1>5. \A o : ReferTo(o)' = ReferTo(o)
  BY <1>1 DEF ReferTo
<1>6. RefsMeant(c)' <=> RefsMeant(c)
  BY <1>1, <1>2, <1>5 DEF RefsMeant
<1> QED
  BY <1>3, <1>4, <1>6 DEF MeantBy

LEMMA PartsNext ==
    ASSUME document' = document
    PROVE  /\ (WellTyped' <=> WellTyped) /\ (Shaped' <=> Shaped) /\ (Texts' <=> Texts)
           /\ (PairsWhole' <=> PairsWhole) /\ (Decodes' <=> Decodes) /\ Sections' = Sections
<1>1. Said' = Said /\ Entries' = Entries /\ Structured' = Structured /\ Properties' = Properties
      /\ WellFormed' = WellFormed
  BY SaidStays
<1>2. \A e : SpacesOf(e)' = SpacesOf(e)
  BY MeaningStays
<1>3. WellTyped' <=> WellTyped
  BY <1>1 DEF WellTyped
<1>4. Shaped' <=> Shaped
  BY <1>1 DEF Shaped, Wrappers
<1>5. Texts' <=> Texts
  BY <1>1, <1>2 DEF Texts
<1>6. ASSUME NEW part PROVE PairsHave(part)' <=> PairsHave(part)
  BY <1>1 DEF PairsHave
<1>7. (PairsHave("key")' <=> PairsHave("key")) /\ (PairsHave("value")' <=> PairsHave("value"))
  BY <1>6
<1>8. PairsWhole' <=> PairsWhole
  BY <1>1, <1>7 DEF PairsWhole
<1>9. Decodes' <=> Decodes
  BY <1>1, <1>3, <1>7 DEF Decodes
<1>10. Sections' = Sections
  BY <1>1 DEF Sections
<1> QED
  BY <1>3, <1>4, <1>5, <1>8, <1>9, <1>10

(* What resolving makes sure of.                                           *)
Resolved == MeantBy(config) /\ Shaped /\ WellTyped /\ Texts /\ PairsWhole

(* The levels of the file join the registry one by one.                    *)
RegisteredOnly ==
    LET names == LevelNames(config)
    IN  /\ todo \subseteq names
        /\ DOMAIN registry = DOMAIN before \cup (names \ todo)
        /\ \A n \in DOMAIN before : registry[n] = before[n]
        /\ \A n \in names \ todo : /\ IsNumeral(LevelText(config, n))
                                   /\ registry[n] = LevelText(config, n)[1].name

(* A properties file of which nothing is applied yet, or some of it is.    *)
Unread ==
    /\ config = NoConfig
    /\ todo = {i \in DOMAIN document.entries :
                 \A j \in (i + 1)..Len(document.entries) :
                   [document.entries[i] EXCEPT !.text = <<>>] # [document.entries[j] EXCEPT !.text = <<>>]}
PartlyRead ==
    /\ todo \subseteq DOMAIN document.entries
    /\ Told(config, Applied) /\ \A e \in Applied : ~Mistyped(e)

OutcomeInv ==
    Plain =>
      /\ loadStage \in {"decode", "finalize", "resolve"} => registry = before
      /\ loadStage = "decode" /\ Properties => Unread \/ PartlyRead
      /\ loadStage \in {"finalize", "resolve"} => Told(config, Said) /\ Decodes
      /\ loadStage = "resolve" => Shaped
      /\ loadStage \in {"levels", "filters"} => Resolved
      /\ loadStage = "levels" => RegisteredOnly
      /\ loadStage = "filters" => RegistryHas /\ LevelsNumbered /\ Cardinality(Sections) <= 1
      /\ loadStage = "loaded" => Meaningful /\ MeantBy(config)
      /\ loadStage = "failed" => ~Meaningful

LEMMA OutcomeIs ==
    ASSUME FiltersInv, OutcomeInv
    PROVE  OutcomeIsMeant
<1>1. ASSUME loadStage = "loaded", Plain PROVE Meaningful /\ ConfigFacts = Meaning
  <2>1. SaidOnce
    BY <1>1, NamedOnceIs DEF FiltersInv, Plain
  <2>2. Meaningful /\ MeantBy(config)
    BY <1>1 DEF OutcomeInv
  <2> QED
    BY <2>1, <2>2, FactsAreMeant
<1>2. ASSUME loadStage = "failed", Plain PROVE ~Meaningful
  BY <1>2 DEF OutcomeInv
<1> QED
  BY <1>1, <1>2, MadeOnceIs DEF OutcomeIsMeant

LEMMA OutcomeInitially ==
    LoadInit => OutcomeInv
BY DEF LoadInit, OutcomeInv

LEMMA PlainIs ==
    ASSUME FiltersInv, Plain
    PROVE  DocumentIsWell /\ NamedOnce /\ SaidOnce /\ ReadAsInDocs /\ NoneDropped
<1>1. DocumentIsWell /\ NamedOnce
  BY DEF FiltersInv, Plain
<1>2. SaidOnce
  BY <1>1, NamedOnceIs
<1>3. ReadAsInDocs /\ NoneDropped
  BY <1>2, AsInDocsIs DEF Plain
<1> QED
  BY <1>1, <1>2, <1>3

LEMMA OutcomeFails ==
    ASSUME document' = document, before' = before, loadStage' = "failed", Plain => ~Meaningful
    PROVE  OutcomeInv'
BY OutcomeStays DEF OutcomeInv

LEMMA UnreadIsRead ==
    ASSUME FiltersInv, Plain, Properties, Unread \/ PartlyRead
    PROVE  PartlyRead
<1> SUFFICES ASSUME Unread PROVE PartlyRead
  OBVIOUS
<1>1. DocumentIsWell /\ NamedOnce
  BY PlainIs
<1>2. Applied = {}
  BY <1>1, NothingApplied DEF Unread
<1>3. Told(config, {})
  BY ToldNothing DEF Unread
<1>4. todo \subseteq DOMAIN document.entries
  BY DEF Unread
<1> QED
  BY <1>2, <1>3, <1>4 DEF PartlyRead

LEMMA OutcomeOpened ==
    ASSUME NEW d, Open(d)
    PROVE  OutcomeInv'
<1>1. /\ loadStage' \in {"decode", "unopened"} /\ registry' = before' /\ document' = d /\ config' = NoConfig
  BY DEF Open
<1>2. loadStage' = "decode" /\ Properties' =>
        todo' = {i \in DOMAIN d.entries :
                   \A j \in (i + 1)..Len(d.entries) :
                     [d.entries[i] EXCEPT !.text = <<>>] # [d.entries[j] EXCEPT !.text = <<>>]}
  BY DEF Open, Properties
<1>3. loadStage' = "decode" /\ Properties' => Unread'
  BY <1>1, <1>2 DEF Unread
<1> QED
  BY <1>1, <1>3 DEF OutcomeInv

LEMMA OutcomeDecoded ==
    ASSUME FiltersInv, OutcomeInv, DecodeStructured \/ DecodeXML
    PROVE  OutcomeInv'
<1>1. /\ document' = document /\ before' = before /\ loadStage = "decode" /\ registry' = registry
  BY DEF DecodeStructured, DecodeXML, Decoded, Fail
<1>2. CASE Plain /\ loadStage' = "failed"
  <2>1. CASE DecodeStructured
    <3>1. Structured /\ ~WellFormed
      BY <1>2, <2>1 DEF DecodeStructured, Decoded
    <3> QED
      BY <1>1, <1>2, <3>1, MeaningfulIs, OutcomeFails DEF Shaped
  <2>2. CASE DecodeXML
    <3>1. PICK e \in Entries : XmlKnows(e) /\ XmlMistyped(e)
      BY <1>2, <2>2 DEF DecodeXML, Decoded
    <3>2. e \in Said
      BY <3>1 DEF Said, XmlKnows, XmlAttribute
    <3>3. Mistyped(e)
      BY <3>1 DEF XmlMistyped, Mistyped, IsTyped
    <3> QED
      BY <1>1, <1>2, <3>2, <3>3, MeaningfulIs, OutcomeFails DEF WellTyped
  <2> QED
    BY <2>1, <2>2
<1>3. CASE Plain /\ loadStage' # "failed"
  <2>1. /\ config' = FoldLeft(ApplyKnown, NoConfig, document.entries) /\ loadStage' = "finalize"
        /\ AllAtOnce
        /\ (Structured /\ WellFormed) \/
           (document.format = "xml" /\ ~\E e \in Entries : XmlKnows(e) /\ XmlMistyped(e))
    BY <1>3 DEF DecodeStructured, DecodeXML, Decoded, Fail, AllAtOnce
  <2>2. Told(FoldLeft(ApplyKnown, NoConfig, document.entries), Said)
    BY <1>3, <2>1, PlainIs, FoldTold
  <2>3. Decodes
    <3>1. CASE Structured /\ WellFormed
      BY <3>1 DEF Decodes, WellTyped, WellFormed, Said, Structured, Properties
    <3>2. CASE document.format = "xml" /\ ~\E e \in Entries : XmlKnows(e) /\ XmlMistyped(e)
      <4>1. ~Structured /\ ~Properties
        BY <3>2 DEF Structured, Properties
      <4>2. \A e \in Said : ~Mistyped(e)
        BY <1>3, <3>2, PlainIs DEF NoneDropped, Said, Mistyped, IsTyped, XmlKnows, XmlDropped, XmlMistyped
      <4> QED
        BY <4>1, <4>2 DEF Decodes, WellTyped
    <3> QED
      BY <2>1, <3>1, <3>2
  <2>4. PICK c, A : c = config' /\ A = Said
    OBVIOUS
  <2>5. Told(c, A)' /\ Said' = A
    BY <1>1, <2>1, <2>2, <2>4, ToldNext, SaidStays
  <2>6. Told(config, Said)'
    BY <2>4, <2>5
  <2>7. Decodes' /\ registry' = before'
    BY <1>1, <1>3, <2>3, PartsNext DEF OutcomeInv
  <2> QED
    BY <2>1, <2>6, <2>7 DEF OutcomeInv
<1>4. CASE ~Plain
  BY <1>1, <1>4, OutcomeStays DEF OutcomeInv
<1> QED
  BY <1>2, <1>3, <1>4

LEMMA OutcomeApplied ==
    ASSUME FiltersInv, OutcomeInv, NEW i \in DOMAIN document.entries, ApplyProperty(i)
    PROVE  OutcomeInv'
<1>1. /\ document' = document /\ before' = before /\ loadStage = "decode" /\ registry' = registry
      /\ Properties /\ i \in todo
  BY DEF ApplyProperty, Fail
<1>2. PICK e : e = document.entries[i]
  OBVIOUS
<1>3. CASE Plain /\ Mistyped(e)
  <2>1. e \in Said
    <3>1. e \in Entries
      BY <1>2, <1>3, PlainIs, EntriesAre
    <3> QED
      BY <1>1, <1>3, <3>1 DEF Said, Mistyped, IsTyped, Properties
  <2>2. loadStage' = "failed"
    BY <1>2, <1>3 DEF ApplyProperty, Fail
  <2> QED
    BY <1>1, <1>3, <2>1, <2>2, MeaningfulIs, OutcomeFails DEF WellTyped
<1>4. CASE Plain /\ ~Mistyped(e)
  <2>1. config' = Apply(config, e) /\ todo' = todo \ {i} /\ loadStage' = "decode"
    BY <1>1, <1>2, <1>4 DEF ApplyProperty
  <2>2. PartlyRead
    BY <1>1, <1>4, UnreadIsRead DEF OutcomeInv
  <2>3. PICK d, B : d = Apply(config, e) /\ B = {x \in Said : \A j \in todo \ {i} : document.entries[j] # x}
    OBVIOUS
  <2>4. Told(d, B)
    BY <1>1, <1>2, <1>4, <2>2, <2>3, PlainIs, PropertyTold DEF PartlyRead
  <2>5. Applied' = B
    <3>1. Said' = Said
      BY <1>1, SaidStays
    <3> QED
      BY <1>1, <2>1, <2>3, <3>1 DEF Applied
  <2>6. Told(config, Applied)'
    <3>1. Told(d, B)'
      BY <1>1, <2>4, ToldNext
    <3> QED
      BY <2>1, <2>3, <2>5, <3>1
  <2>7. \A x \in B : ~Mistyped(x)
    BY <1>2, <1>4, <2>2, <2>3 DEF PartlyRead, Applied
  <2>8. (\A x \in Applied : ~Mistyped(x))'
    BY <2>5, <2>7
  <2>9. PartlyRead'
    BY <1>1, <2>1, <2>2, <2>6, <2>8 DEF PartlyRead
  <2> QED
    BY <1>1, <1>4, <2>1, <2>9 DEF OutcomeInv
<1>5. CASE ~Plain
  BY <1>1, <1>5, OutcomeStays DEF OutcomeInv
<1> QED
  BY <1>3, <1>4, <1>5

LEMMA OutcomePaired ==
    ASSUME FiltersInv, OutcomeInv, ApplyPairs
    PROVE  OutcomeInv'
<1>1. /\ document' = document /\ before' = before /\ loadStage = "decode" /\ registry' = registry
      /\ Properties /\ todo = {} /\ config' = config
  BY DEF ApplyPairs, Fail
<1>2. CASE ~Plain
  BY <1>1, <1>2, OutcomeStays DEF OutcomeInv
<1>3. CASE Plain
  <2>1. PartlyRead
    BY <1>1, <1>3, UnreadIsRead DEF OutcomeInv
  <2>2. Applied = Said
    BY <1>1 DEF Applied
  <2>3. Told(config, Said) /\ \A e \in Said : ~Mistyped(e)
    BY <2>1, <2>2 DEF PartlyRead
  <2>4. SaidOnce /\ CellsTold(config, Said)
    BY <1>3, <2>3, PlainIs DEF Told
  <2>5. /\ (\A x \in PairCells(config) : [x EXCEPT ![4] = "key"] \in DOMAIN config.cells) <=> PairsHave("key")
        /\ (\A x \in PairCells(config) : [x EXCEPT ![4] = "value"] \in DOMAIN config.cells) <=> PairsHave("value")
    BY <2>4, PairsAre
  <2>6. (\E x \in PairCells(config), part \in {"key", "value"} :
            [x EXCEPT ![4] = part] \notin DOMAIN config.cells) <=> ~(PairsHave("key") /\ PairsHave("value"))
    BY <2>5
  <2>7. CASE ~(PairsHave("key") /\ PairsHave("value"))
    <3>1. loadStage' = "failed" /\ ~PairsWhole
      BY <1>1, <2>6, <2>7 DEF ApplyPairs, Fail, PairsWhole
    <3> QED
      BY <1>1, <3>1, MeaningfulIs, OutcomeFails
  <2>8. CASE PairsHave("key") /\ PairsHave("value")
    <3>1. loadStage' = "finalize"
      BY <2>6, <2>8 DEF ApplyPairs
    <3>2. Decodes
      BY <1>1, <2>3, <2>8 DEF Decodes, WellTyped, Structured, Properties
    <3>3. Told(config, Said)'
      <4>1. PICK c, A : c = config /\ A = Said
        OBVIOUS
      <4>2. Told(c, A)' /\ Said' = A
        BY <1>1, <2>3, <4>1, ToldNext, SaidStays
      <4> QED
        BY <1>1, <4>1, <4>2
    <3>4. Decodes'
      BY <1>1, <3>2, PartsNext
    <3> QED
      BY <1>1, <1>3, <3>1, <3>3, <3>4 DEF OutcomeInv
  <2> QED
    BY <2>7, <2>8
<1> QED
  BY <1>2, <1>3

LEMMA OutcomeFinalized ==
    ASSUME FiltersInv, OutcomeInv, Finalize
    PROVE  OutcomeInv'
<1>1. /\ document' = document /\ before' = before /\ loadStage = "finalize" /\ registry' = registry
      /\ config' = config
  BY DEF Finalize, Fail
<1>2. CASE ~Plain
  BY <1>1, <1>2, OutcomeStays DEF OutcomeInv
<1>3. CASE Plain
  <2>1. Told(config, Said) /\ Decodes
    BY <1>1, <1>3 DEF OutcomeInv
  <2>2. Cardinality(Wrappers) \in Nat /\ DocumentIsWell
    BY <1>3, PlainIs, CountsAreNumbers
  <2>3. CASE Cardinality(Wrappers) > 1
    <3>1. loadStage' = "failed"
      BY <2>3 DEF Finalize, Fail, Wrappers
    <3>2. Structured
      BY <2>2, <2>3 DEF DocumentIsWell, Structured, Wrappers
    <3>3. ~Shaped
      BY <2>2, <2>3, <3>2 DEF Shaped
    <3> QED
      BY <1>1, <3>1, <3>3, MeaningfulIs, OutcomeFails
  <2>4. CASE ~(Cardinality(Wrappers) > 1)
    <3>1. loadStage' = "resolve"
      BY <2>4 DEF Finalize, Wrappers
    <3>2. Shaped
      BY <2>1, <2>2, <2>4 DEF Shaped, Decodes
    <3>3. Told(config, Said)'
      <4>1. PICK c, A : c = config /\ A = Said
        OBVIOUS
      <4>2. Told(c, A)' /\ Said' = A
        BY <1>1, <2>1, <4>1, ToldNext, SaidStays
      <4> QED
        BY <1>1, <4>1, <4>2
    <3>4. Decodes' /\ Shaped'
      BY <1>1, <2>1, <3>2, PartsNext
    <3> QED
      BY <1>1, <1>3, <3>1, <3>3, <3>4 DEF OutcomeInv
  <2> QED
    BY <2>3, <2>4
<1> QED
  BY <1>2, <1>3

(* An empty fileConfig was told nothing, and nothing is meaningful.        *)
LEMMA NothingSaid ==
    ASSUME SaidOnce, Told(NoConfig, Said)
    PROVE  Said = {}
<1> SUFFICES ASSUME NEW e \in Said PROVE FALSE
  OBVIOUS
<1>1. e.form \in CellForms \cup {"filter", "list", "ref"}
  BY DEF SaidOnce, Said, Sayings, Forms, CellForms
<1>2. /\ DOMAIN NoConfig.cells = {} /\ DOMAIN NoConfig.refs = {} /\ DOMAIN NoConfig.filters = {}
  BY DEF NoConfig
<1>3. CASE e.form \in CellForms
  BY <1>2, <1>3 DEF Told, CellsTold
<1>4. CASE e.form = "filter"
  BY <1>2, <1>4 DEF Told, FiltersTold
<1>5. CASE e.form \in {"list", "ref"}
  BY <1>2, <1>5 DEF Told, RefsTold
<1> QED
  BY <1>1, <1>3, <1>4, <1>5

LEMMA NothingMeansMuch ==
    ASSUME Said = {}, Shaped, WellTyped, Texts, PairsWhole
    PROVE  Meaningful
<1>1. PairsNamed /\ FieldsKnown /\ RefsKnown
  BY DEF PairsNamed, FieldsKnown, RefsKnown
<1>2. LevelsNumbered
  BY DEF LevelsNumbered, SaidLevels
<1>3. Cardinality(Sections) <= 1
  <2>1. Sections = {}
    BY DEF Sections
  <2> QED
    BY <2>1, FS_EmptySet
<1>4. DOMAIN SaidFilters = {}
  <2>1. {e.on : e \in {x \in Said : x.form = "filter"}} = {}
    OBVIOUS
  <2> QED
    BY <2>1 DEF SaidFilters
<1>5. FiltersNamed /\ NoCycle(SaidFilters)
  BY <1>4 DEF FiltersNamed, NoCycle
<1> QED
  BY <1>1, <1>2, <1>3, <1>5, MeaningfulIs

LEMMA OutcomeResolved ==
    ASSUME FiltersInv, OutcomeInv, ResolveLookups
    PROVE  OutcomeInv'
<1>1. document' = document /\ before' = before /\ loadStage = "resolve" /\ registry' = registry
  BY DEF ResolveLookups, Fail
<1>2. CASE ~Plain
  BY <1>1, <1>2, OutcomeStays DEF OutcomeInv
<1>3. CASE Plain
  <2>1. Told(config, Said) /\ Decodes /\ Shaped /\ SaidOnce /\ ReadAsInDocs /\ registry = before
    BY <1>1, <1>3, PlainIs DEF OutcomeInv
  <2>2. PICK d : d = [config EXCEPT !.cells = ResolveCells(config), !.refs = ResolveRefs(config)]
    OBVIOUS
  <2>3. MeantBy(d) /\ (AllResolvable(config) <=> Texts /\ PairsHave("key"))
    BY <2>1, <2>2, ResolvedIsMeant
  <2>4. CASE ~AllResolvable(config)
    <3>1. loadStage' = "failed"
      BY <2>4 DEF ResolveLookups, Fail
    <3>2. ~Texts \/ ~PairsWhole
      BY <2>3, <2>4 DEF PairsWhole
    <3> QED
      BY <1>1, <3>1, <3>2, MeaningfulIs, OutcomeFails
  <2>5. CASE AllResolvable(config)
    <3>1. /\ config' = d /\ todo' = LevelNames(config)
          /\ loadStage' = IF config = NoConfig THEN "loaded" ELSE "levels"
      BY <2>2, <2>5 DEF ResolveLookups
    <3>2. Shaped /\ WellTyped /\ Texts /\ PairsWhole
      BY <2>1, <2>3, <2>5 DEF Decodes, PairsWhole
    <3>3. MeantBy(config)'
      <4>1. MeantBy(d)'
        BY <1>1, <2>3, MeantNext
      <4> QED
        BY <3>1, <4>1
    <3>4. Resolved'
      BY <1>1, <3>2, <3>3, PartsNext DEF Resolved
    <3>5. CASE config = NoConfig
      <4>1. Said = {}
        BY <2>1, <3>5, NothingSaid
      <4>2. Meaningful'
        BY <1>1, <3>2, <4>1, NothingMeansMuch, OutcomeStays
      <4> QED
        BY <3>1, <3>3, <3>5, <4>2 DEF OutcomeInv
    <3>6. CASE config # NoConfig
      <4>1. DOMAIN d.cells = DOMAIN config.cells
        <5>1. PICK a, b, c : a = ResolveCells(config) /\ b = ResolveRefs(config) /\ c = [config EXCEPT !.cells = a]
          OBVIOUS
        <5>2. d = [c EXCEPT !.refs = b]
          BY <2>2, <5>1
        <5>3. DOMAIN config = {"cells", "refs", "filters"}
          BY <2>1 DEF Told, IsConfig
        <5>4. d.cells = a
          BY <5>1, <5>2, <5>3
        <5>5. DOMAIN a = DOMAIN config.cells
          BY <5>1 DEF ResolveCells
        <5> QED
          BY <5>4, <5>5
      <4>2. LevelNames(d) = LevelNames(config)
        BY <4>1 DEF LevelNames
      <4>3. RegisteredOnly'
        <5>1. LevelNames(d)' = LevelNames(d)
          BY DEF LevelNames
        <5>2. LevelNames(config)' = todo'
          BY <3>1, <4>2, <5>1
        <5>3. LevelNames(config)' \ todo' = {}
          BY <5>2
        <5>4. registry' = before'
          BY <1>1, <2>1
        <5> QED
          BY <5>2, <5>3, <5>4 DEF RegisteredOnly
      <4> QED
        BY <1>1, <3>1, <3>4, <3>6, <4>3 DEF OutcomeInv
    <3> QED
      BY <3>5, <3>6
  <2> QED
    BY <2>4, <2>5
<1> QED
  BY <1>2, <1>3

LEMMA ResolvedNext ==
    ASSUME document' = document, config' = config, Resolved
    PROVE  Resolved'
<1>1. PICK c : c = config
  OBVIOUS
<1>2. MeantBy(c)'
  BY <1>1, MeantNext DEF Resolved
<1>3. MeantBy(config)'
  BY <1>1, <1>2
<1> QED
  BY <1>3, PartsNext DEF Resolved

LEMMA OutcomeRegistered ==
    ASSUME FiltersInv, OutcomeInv, loadStage = "levels", NEW n \in todo, RegisterLevel(n)
    PROVE  OutcomeInv'
<1>1. document' = document /\ before' = before /\ config' = config
  BY DEF RegisterLevel, Fail
<1>2. CASE ~Plain
  BY <1>1, <1>2, OutcomeStays DEF OutcomeInv
<1>3. CASE Plain
  <2>1. Resolved /\ RegisteredOnly /\ SaidOnce
    BY <1>3, PlainIs DEF OutcomeInv
  <2>2. PICK names : names = LevelNames(config)
    OBVIOUS
  <2>3. /\ todo \subseteq names /\ n \in names
        /\ DOMAIN registry = DOMAIN before \cup (names \ todo)
        /\ \A m \in DOMAIN before : registry[m] = before[m]
        /\ \A m \in names \ todo : /\ IsNumeral(LevelText(config, m))
                                   /\ registry[m] = LevelText(config, m)[1].name
    BY <2>1, <2>2 DEF RegisteredOnly
  <2>4. PICK e \in SaidLevels : e.name = n /\ LevelText(config, n) = Meant(e)
    BY <2>1, <2>2, <2>3, LevelsAre DEF Resolved, MeantBy
  <2>5. PICK text : text = LevelText(config, n)
    OBVIOUS
  <2>6. CASE ~IsNumeral(text) \/ Conflicts(n, text[1].name)
    <3>1. loadStage' = "failed"
      BY <2>5, <2>6 DEF RegisterLevel, Fail
    <3>2. ~LevelsNumbered
      <4>1. CASE ~IsNumeral(text)
        BY <2>4, <2>5, <4>1 DEF LevelsNumbered
      <4>2. CASE n \in DOMAIN registry /\ registry[n] # text[1].name
        <5>1. n \in DOMAIN before /\ before[n] # text[1].name
          BY <2>3, <4>2
        <5> QED
          BY <2>4, <2>5, <5>1 DEF LevelsNumbered
      <4> QED
        BY <2>6, <4>1, <4>2 DEF Conflicts
    <3> QED
      BY <1>1, <3>1, <3>2, MeaningfulIs, OutcomeFails
  <2>7. CASE IsNumeral(text) /\ ~Conflicts(n, text[1].name)
    <3>1. registry' = Set(registry, n, text[1].name) /\ todo' = todo \ {n} /\ loadStage' = "levels"
      BY <2>5, <2>7 DEF RegisterLevel
    <3>2. n \in DOMAIN registry => registry[n] = text[1].name
      BY <2>7 DEF Conflicts
    <3>3. /\ DOMAIN registry' = DOMAIN registry \cup {n} /\ registry'[n] = text[1].name
          /\ \A m \in DOMAIN registry : m # n => registry'[m] = registry[m]
      <4>1. PICK y : y = text[1].name
        OBVIOUS
      <4>2. registry' = [z \in DOMAIN registry \cup {n} |-> IF z = n THEN y ELSE registry[z]]
        BY <3>1, <4>1 DEF Set
      <4> QED
        BY <4>1, <4>2
    <3>4. \A m \in DOMAIN registry : registry'[m] = registry[m]
      BY <3>2, <3>3
    <3>5. DOMAIN registry' = DOMAIN before \cup (names \ todo')
      BY <2>3, <3>1, <3>3
    <3>6. \A m \in DOMAIN before : registry'[m] = before[m]
      BY <2>3, <3>4
    <3>7. ASSUME NEW m \in names \ todo'
          PROVE  IsNumeral(LevelText(config, m)) /\ registry'[m] = LevelText(config, m)[1].name
      <4>1. CASE m = n
        BY <2>5, <2>7, <3>3, <4>1
      <4>2. CASE m # n
        BY <2>3, <3>1, <3>4, <4>2
      <4> QED
        BY <4>1, <4>2
    <3>8. LevelNames(config)' = names /\ \A m : LevelText(config, m)' = LevelText(config, m)
      BY <1>1, <2>2 DEF LevelNames, LevelText
    <3>9. RegisteredOnly'
      BY <1>1, <2>3, <3>1, <3>5, <3>6, <3>7, <3>8 DEF RegisteredOnly
    <3>10. Resolved'
      BY <1>1, <2>1, ResolvedNext
    <3> QED
      BY <3>1, <3>9, <3>10 DEF OutcomeInv
  <2> QED
    BY <2>6, <2>7
<1> QED
  BY <1>2, <1>3

LEMMA OutcomeValidated ==
    ASSUME FiltersInv, OutcomeInv, ValidateAsync
    PROVE  OutcomeInv'
<1>1. /\ document' = document /\ before' = before /\ config' = config /\ registry' = registry
      /\ loadStage = "levels" /\ todo = {}
  BY DEF ValidateAsync, Fail
<1>2. CASE ~Plain
  BY <1>1, <1>2, OutcomeStays DEF OutcomeInv
<1>3. CASE Plain
  <2>1. Resolved /\ RegisteredOnly /\ SaidOnce /\ Cardinality(Sections) \in Nat
    BY <1>1, <1>3, PlainIs, CountsAreNumbers DEF OutcomeInv
  <2>2. CellsMeant(config)
    BY <2>1 DEF Resolved, MeantBy
  <2>3. AsyncSections(config) = Sections
    BY <2>1, <2>2, SectionsAre
  <2>4. CASE Cardinality(Sections) > 1
    <3>1. loadStage' = "failed"
      BY <2>3, <2>4 DEF ValidateAsync, Fail
    <3>2. ~(Cardinality(Sections) <= 1)
      BY <2>1, <2>4
    <3> QED
      BY <1>1, <3>1, <3>2, MeaningfulIs, OutcomeFails
  <2>5. CASE ~(Cardinality(Sections) > 1)
    <3>1. loadStage' = "filters" /\ Cardinality(Sections) <= 1
      BY <2>1, <2>3, <2>5 DEF ValidateAsync
    <3>2. LevelNames(config) = {e.name : e \in SaidLevels} /\ \A e \in SaidLevels : LevelText(config, e.name) = Meant(e)
      BY <2>1, <2>2, LevelsAre
    <3>3. RegistryHas
      BY <1>1, <2>1, <3>2 DEF RegisteredOnly, RegistryHas
    <3>4. LevelsNumbered
      <4> SUFFICES ASSUME NEW e \in SaidLevels
                   PROVE  /\ IsNumeral(Meant(e))
                          /\ e.name \in DOMAIN before => before[e.name] = Meant(e)[1].name
        BY DEF LevelsNumbered
      <4>1. e.name \in LevelNames(config) \ todo /\ LevelText(config, e.name) = Meant(e)
        BY <1>1, <3>2
      <4>2. IsNumeral(Meant(e)) /\ registry[e.name] = Meant(e)[1].name
        BY <2>1, <4>1 DEF RegisteredOnly
      <4>3. e.name \in DOMAIN before => registry[e.name] = before[e.name]
        BY <2>1 DEF RegisteredOnly
      <4> QED
        BY <4>2, <4>3
    <3>5. Resolved'
      BY <1>1, <2>1, ResolvedNext
    <3>6. (\A e : Meant(e)' = Meant(e)) /\ SaidLevels' = SaidLevels /\ Sections' = Sections
      BY <1>1, MeaningStays, PartsNext
    <3>7. RegistryHas' /\ LevelsNumbered' /\ (Cardinality(Sections) <= 1)'
      BY <1>1, <3>1, <3>3, <3>4, <3>6 DEF RegistryHas, LevelsNumbered
    <3> QED
      BY <3>1, <3>5, <3>7 DEF OutcomeInv
  <2> QED
    BY <2>4, <2>5
<1> QED
  BY <1>2, <1>3

(* What the filters of a document say, once it is resolved.                *)
LEMMA FilterGraph ==
    ASSUME SaidOnce, Resolved
    PROVE  /\ DOMAIN SaidFilters = DOMAIN config.filters
           /\ \A f \in DOMAIN config.filters : SaidFilters[f] = Refs(config.filters, f)
           /\ {x[2] : x \in PairCells(config)} = {e.on : e \in {x \in Said : x.form = "pair"}}
<1>1. FiltersTold(config, Said) /\ CellsMeant(config)
  BY DEF Resolved, MeantBy
<1>2. \A f : RefersTo(f) = Refs(config.filters, f)
  BY Zenon DEF RefersTo, Refs
<1>3. /\ DOMAIN SaidFilters = DOMAIN config.filters
      /\ \A f \in DOMAIN config.filters : SaidFilters[f] = RefersTo(f)
  BY <1>1, FiltersAre
<1>4. ASSUME NEW e \in Said, e.form = "pair" PROVE Cell(e) \in PairCells(config) /\ Cell(e)[2] = e.on
  <2>1. e.form \in CellForms
    BY <1>4 DEF CellForms
  <2>2. Cell(e) \in DOMAIN config.cells /\ Cell(e)[1] = "pair"
    BY <1>1, <1>4, <2>1, CellsOfForm
  <2> QED
    BY <1>4, <2>1, <2>2, CellParts DEF PairCells
<1>5. ASSUME NEW x \in PairCells(config) PROVE \E e \in Said : e.form = "pair" /\ x[2] = e.on
  <2>1. x \in DOMAIN config.cells /\ x[1] = "pair"
    BY DEF PairCells
  <2>2. PICK e \in Said : e.form = "pair" /\ e.form \in CellForms /\ x = Cell(e)
    BY <1>1, <2>1, CellsOfForm
  <2> QED
    BY <2>2, CellParts
<1> QED
  BY <1>2, <1>3, <1>4, <1>5

LEMMA FiltersGoOn ==
    ASSUME document' = document, before' = before, config' = config, registry' = registry,
           loadStage = "filters", loadStage' = loadStage, OutcomeInv
    PROVE  OutcomeInv'
<1>1. CASE ~Plain
  BY <1>1, OutcomeStays DEF OutcomeInv
<1>2. CASE Plain
  <2>1. Resolved /\ RegistryHas /\ LevelsNumbered /\ Cardinality(Sections) <= 1
    BY <1>2 DEF OutcomeInv
  <2>2. Resolved'
    BY <2>1, ResolvedNext
  <2>3. (\A e : Meant(e)' = Meant(e)) /\ SaidLevels' = SaidLevels /\ Sections' = Sections
    BY MeaningStays, PartsNext
  <2>4. RegistryHas' /\ LevelsNumbered' /\ (Cardinality(Sections) <= 1)'
    BY <2>1, <2>3 DEF RegistryHas, LevelsNumbered
  <2> QED
    BY <2>2, <2>4 DEF OutcomeInv
<1> QED
  BY <1>1, <1>2

(* A filter that cannot be built: no such filter, or a circle.             *)
LEMMA UnnamedFilter ==
    ASSUME SaidOnce, Resolved, NEW f, f \notin DOMAIN config.filters,
           f \in Wanted \/ \E g \in DOMAIN config.filters : f \in Refs(config.filters, g)
    PROVE  ~Meaningful
<1>1. CASE f \in Wanted
  <2>1. f \in {x[2] : x \in PairCells(config)}
    BY <1>1 DEF Wanted
  <2>2. PICK e \in Said : e.form = "pair" /\ f = e.on
    BY <2>1, FilterGraph
  <2>3. ~PairsNamed
    BY <2>2, FilterGraph DEF PairsNamed
  <2> QED
    BY <2>3, MeaningfulIs
<1>2. CASE \E g \in DOMAIN config.filters : f \in Refs(config.filters, g)
  <2>1. ~FiltersNamed
    BY <1>2, FilterGraph DEF FiltersNamed
  <2> QED
    BY <2>1, MeaningfulIs
<1> QED
  BY <1>1, <1>2

LEMMA CircleOfFilters ==
    ASSUME SaidOnce, Resolved, NEW S \in SUBSET DOMAIN config.filters, S # {},
           \A f \in S : Refs(config.filters, f) \cap S # {}
    PROVE  ~Meaningful
<1>1. S \in SUBSET DOMAIN SaidFilters /\ \A f \in S : SaidFilters[f] \cap S # {}
  BY FilterGraph
<1>2. ~NoCycle(SaidFilters)
  BY <1>1 DEF NoCycle
<1> QED
  BY <1>2, MeaningfulIs

LEMMA OutcomeOfFirst ==
    ASSUME FiltersInv, OutcomeInv, loadStage = "filters", NEW f \in todo, NextFilter(f)
    PROVE  OutcomeInv'
<1>1. /\ document' = document /\ before' = before /\ config' = config /\ registry' = registry
      /\ visiting = <<>> /\ BuildFilter(f, visiting)
  BY DEF NextFilter
<1>2. CASE loadStage' = loadStage
  BY <1>1, <1>2, FiltersGoOn
<1>3. CASE loadStage' = "failed" /\ f \notin DOMAIN config.filters \ InProgress
  <2>1. InProgress = {}
    BY <1>1 DEF InProgress
  <2>2. f \notin DOMAIN config.filters /\ f \in Wanted
    BY <1>3, <2>1 DEF FiltersInv
  <2>3. Plain => ~Meaningful
    BY <2>2, PlainIs, UnnamedFilter DEF OutcomeInv
  <2> QED
    BY <1>1, <1>3, <2>3, OutcomeFails
<1> QED
  BY <1>1, <1>2, <1>3 DEF BuildFilter

LEMMA OutcomeOfNested ==
    ASSUME FiltersInv, OutcomeInv, NestedFilter
    PROVE  OutcomeInv'
<1>1. PICK top, fs, f : top = Last(visiting) /\ fs = config.filters /\ f = fs[top.name][top.next]
  OBVIOUS
<1>2. /\ document' = document /\ before' = before /\ config' = config /\ registry' = registry
      /\ loadStage = "filters" /\ visiting # <<>> /\ top.next <= Len(fs[top.name])
      /\ BuildFilter(f, [visiting EXCEPT ![Len(visiting)].next = @ + 1])
  BY <1>1 DEF NestedFilter
<1>3. CASE loadStage' = loadStage
  BY <1>2, <1>3, FiltersGoOn
<1>4. CASE loadStage' = "failed" /\ f \notin DOMAIN config.filters \ InProgress
  <2>1. AreLists(fs) /\ PathIs(visiting, made, fs) /\ InProgress = Names1(visiting)
    BY <1>1 DEF FiltersInv, AreLists, FiltersAreLists, InProgress, Names1
  <2>2. CASE f \in Names1(visiting)
    <3>1. \E S \in SUBSET DOMAIN fs : S # {} /\ \A g \in S : Refs(fs, g) \cap S # {}
      BY <1>1, <1>2, <2>1, <2>2, CircleIs
    <3>2. Plain => ~Meaningful
      BY <1>1, <1>2, <3>1, PlainIs, CircleOfFilters DEF OutcomeInv
    <3> QED
      BY <1>2, <1>4, <3>2, OutcomeFails
  <2>3. CASE f \notin DOMAIN fs
    <3>1. visiting \in Seq(Hops(DOMAIN fs)) /\ Len(visiting) \in DOMAIN visiting
          /\ Last(visiting) = visiting[Len(visiting)]
      <4>1. visiting \in Seq(Hops(DOMAIN fs))
        BY <2>1 DEF PathIs
      <4>2. /\ Len(visiting) \in Nat \ {0} /\ DOMAIN visiting = 1..Len(visiting)
            /\ Last(visiting) = visiting[Len(visiting)]
        BY <1>2, <4>1, FrontIs
      <4> QED
        BY <4>1, <4>2
    <3>2. top.name \in DOMAIN fs /\ top.next \in Nat \ {0}
      BY <1>1, <3>1, HopIs
    <3>3. Len(fs[top.name]) \in Nat
      BY <2>1, <3>2 DEF AreLists, IsList
    <3>4. f \in Refs(fs, top.name)
      BY <1>1, <1>2, <3>2, <3>3 DEF Refs
    <3>5. Plain => ~Meaningful
      BY <1>1, <1>2, <2>3, <3>2, <3>4, PlainIs, UnnamedFilter DEF OutcomeInv
    <3> QED
      BY <1>2, <1>4, <3>5, OutcomeFails
  <2> QED
    BY <1>1, <1>4, <2>1, <2>2, <2>3
<1> QED
  BY <1>2, <1>3, <1>4 DEF BuildFilter

LEMMA OutcomeFinished ==
    ASSUME FiltersInv, OutcomeInv, Finish
    PROVE  OutcomeInv'
<1>1. /\ document' = document /\ before' = before /\ config' = config /\ registry' = registry
      /\ made' = made /\ visiting' = visiting
      /\ loadStage = "filters" /\ visiting = <<>> /\ todo = {}
      /\ loadStage' = IF BadRef(config) \/ \E n \in FieldNames(config) : BadField(config, n[1], n[2])
                      THEN "failed" ELSE "loaded"
  BY DEF Finish
<1>2. CASE ~Plain
  BY <1>1, <1>2, OutcomeStays DEF OutcomeInv
<1>3. CASE Plain
  <2>1. /\ SaidOnce /\ ReadAsInDocs /\ Resolved /\ RegistryHas /\ LevelsNumbered
        /\ Cardinality(Sections) <= 1
    BY <1>1, <1>3, PlainIs DEF OutcomeInv
  <2>2. /\ BadRef(config) <=> ~RefsKnown
        /\ (\E n \in FieldNames(config) : BadField(config, n[1], n[2])) <=> ~FieldsKnown
    BY <2>1, RefsAreKnown, FieldsAreKnown DEF Resolved, MeantBy
  <2>3. CASE ~RefsKnown \/ ~FieldsKnown
    BY <1>1, <2>2, <2>3, MeaningfulIs, OutcomeFails
  <2>4. CASE RefsKnown /\ FieldsKnown
    <3>1. loadStage' = "loaded"
      BY <1>1, <2>2, <2>4
    <3>2. PICK fs : fs = config.filters
      OBVIOUS
    <3>3. MadeIs(made, fs) /\ Wanted \subseteq DOMAIN made
      <4>1. Names1(visiting) = {}
        BY <1>1 DEF Names1
      <4> QED
        BY <1>1, <3>2, <4>1 DEF FiltersInv
    <3>4. DOMAIN made = DOMAIN fs /\ Wanted = DOMAIN fs
      BY <3>2, <3>3 DEF MadeIs, Wanted
    <3>5. /\ DOMAIN SaidFilters = DOMAIN fs
          /\ \A f \in DOMAIN fs : SaidFilters[f] = Refs(fs, f)
          /\ {x[2] : x \in PairCells(config)} = {e.on : e \in {x \in Said : x.form = "pair"}}
      BY <2>1, <3>2, FilterGraph
    <3>6. PairsNamed
      BY <3>2, <3>4, <3>5 DEF PairsNamed, Wanted
    <3>7. FiltersNamed
      BY <3>3, <3>4, <3>5 DEF FiltersNamed, MadeIs
    <3>8. NoCycle(SaidFilters)
      <4>1. PICK G : G = [f \in DOMAIN made |-> Refs(fs, f)]
        OBVIOUS
      <4>2. NoCycle(G) /\ DOMAIN G = DOMAIN SaidFilters /\ \A f \in DOMAIN G : G[f] = SaidFilters[f]
        BY <3>3, <3>4, <3>5, <4>1 DEF MadeIs
      <4> QED
        BY <4>2 DEF NoCycle
    <3>9. Meaningful /\ MeantBy(config)
      BY <2>1, <2>4, <3>6, <3>7, <3>8, MeaningfulIs DEF Resolved
    <3>10. MeantBy(config)'
      <4>1. PICK c : c = config
        OBVIOUS
      <4>2. MeantBy(c)'
        BY <1>1, <3>9, <4>1, MeantNext
      <4> QED
        BY <1>1, <4>1, <4>2
    <3>11. Meaningful'
      BY <1>1, <3>9, OutcomeStays
    <3> QED
      BY <3>1, <3>10, <3>11 DEF OutcomeInv
  <2> QED
    BY <2>3, <2>4
<1> QED
  BY <1>2, <1>3

LEMMA OutcomeKept ==
    FiltersInv /\ OutcomeInv /\ [LoadNext]_loadVars => OutcomeInv'
<1> SUFFICES ASSUME FiltersInv, OutcomeInv, [LoadNext]_loadVars PROVE OutcomeInv'
  OBVIOUS
<1>1. CASE UNCHANGED loadVars
  <2>1. /\ document' = document /\ config' = config /\ registry' = registry /\ before' = before
        /\ loadStage' = loadStage /\ todo' = todo
    BY <1>1 DEF loadVars
  <2>2. (Plain' <=> Plain) /\ (Meaningful' <=> Meaningful)
    BY <2>1, OutcomeStays
  <2>3. PICK c, A, B : c = config /\ A = Said /\ B = Applied
    OBVIOUS
  <2>4. /\ Said' = A /\ Applied' = B /\ (Properties' <=> Properties)
    <3>1. Said' = Said /\ Properties' = Properties
      BY <2>1, SaidStays
    <3> QED
      BY <2>1, <2>3, <3>1 DEF Applied
  <2>5. /\ (Told(c, A)' <=> Told(c, A)) /\ (Told(c, B)' <=> Told(c, B))
        /\ (MeantBy(c)' <=> MeantBy(c))
    BY <2>1, ToldNext, MeantNext
  <2>6. /\ (Told(config, Said)' <=> Told(config, Said)) /\ (Told(config, Applied)' <=> Told(config, Applied))
        /\ (MeantBy(config)' <=> MeantBy(config))
    BY <2>1, <2>3, <2>4, <2>5
  <2>7. (Unread' <=> Unread) /\ (PartlyRead' <=> PartlyRead)
    <3>1. (\A e \in Applied : ~Mistyped(e))' <=> \A e \in Applied : ~Mistyped(e)
      BY <2>3, <2>4
    <3>2. Unread' <=> Unread
      BY <2>1 DEF Unread
    <3> QED
      BY <2>1, <2>6, <3>1, <3>2 DEF PartlyRead
  <2>8. (Shaped' <=> Shaped) /\ (Decodes' <=> Decodes) /\ Sections' = Sections
    BY <2>1, PartsNext
  <2>9. Resolved => Resolved'
    BY <2>1, ResolvedNext
  <2>10. RegisteredOnly' <=> RegisteredOnly
    BY <2>1 DEF RegisteredOnly, LevelNames, LevelText
  <2>11. (RegistryHas' <=> RegistryHas) /\ (LevelsNumbered' <=> LevelsNumbered)
    <3>1. (\A e : Meant(e)' = Meant(e)) /\ SaidLevels' = SaidLevels
      BY <2>1, MeaningStays
    <3> QED
      BY <2>1, <3>1 DEF RegistryHas, LevelsNumbered
  <2> QED
    BY <2>1, <2>2, <2>4, <2>6, <2>7, <2>8, <2>9, <2>10, <2>11 DEF OutcomeInv
<1>2. CASE LoadNext
  <2>1. \A d : Open(d) => OutcomeInv'
    BY OutcomeOpened
  <2>2. DecodeStructured \/ DecodeXML => OutcomeInv'
    BY OutcomeDecoded
  <2>3. ApplyPairs => OutcomeInv'
    BY OutcomePaired
  <2>4. Finalize => OutcomeInv'
    BY OutcomeFinalized
  <2>5. ResolveLookups => OutcomeInv'
    BY OutcomeResolved
  <2>6. \A i \in DOMAIN document.entries : ApplyProperty(i) => OutcomeInv'
    BY OutcomeApplied
  <2>7. ValidateAsync => OutcomeInv'
    BY OutcomeValidated
  <2>8. NestedFilter => OutcomeInv'
    BY OutcomeOfNested
  <2>9. MakeFilter => OutcomeInv'
    <3> SUFFICES ASSUME MakeFilter PROVE OutcomeInv'
      OBVIOUS
    <3>1. /\ document' = document /\ before' = before /\ config' = config /\ registry' = registry
          /\ loadStage = "filters" /\ loadStage' = loadStage
      BY DEF MakeFilter
    <3> QED
      BY <3>1, FiltersGoOn
  <2>10. Finish => OutcomeInv'
    BY OutcomeFinished
  <2>11. loadStage = "levels" => \A n \in todo : RegisterLevel(n) => OutcomeInv'
    BY OutcomeRegistered
  <2>12. loadStage = "filters" => \A f \in todo : NextFilter(f) => OutcomeInv'
    BY OutcomeOfFirst
  <2> QED
    BY <1>2, <2>1, <2>2, <2>3, <2>4, <2>5, <2>6, <2>7, <2>8, <2>9, <2>10, <2>11, <2>12, Zenon DEF LoadNext
<1> QED
  BY <1>1, <1>2

(* Whatever the documents say, in every format, and after however many     *)
(* loads: a load of a document that names nothing twice ends in the        *)
(* configuration the document means when it means one, and fails when it   *)
(* refers to what is not there or to itself or gives a value its field     *)
(* does not take; and any load makes each filter once, after those the     *)
(* filter refers to (config_file.go, config_filter_build.go).              *)
THEOREM OutcomesAreMeant == LoadSpec => []OutcomeIsMeant
<1>1. LoadInit => FiltersInv /\ OutcomeInv
  BY FiltersInitially, OutcomeInitially
<1>2. FiltersInv /\ OutcomeInv /\ [LoadNext]_loadVars => (FiltersInv /\ OutcomeInv)'
  BY FiltersKept, OutcomeKept
<1>3. FiltersInv /\ OutcomeInv => OutcomeIsMeant
  BY OutcomeIs
<1> QED
  BY <1>1, <1>2, <1>3, PTL DEF LoadSpec

=============================================================================
