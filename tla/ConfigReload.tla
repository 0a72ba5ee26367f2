---------------------------- MODULE ConfigReload ----------------------------
(***************************************************************************)
(* ConfigReloader and the monitor of LoggerContext: a goroutine polls the  *)
(* configuration file and reloads the handler when its signature changes,  *)
(* while somebody edits the file, somebody else calls ReloadConfigured and *)
(* somebody closes the context.                                            *)
(*                                                                         *)
(* Every load builds a new set of appenders, a runtime.  The handler swaps *)
(* runtimes and closes the old one, as HandlerLifecycle shows in detail;   *)
(* here the swap is one step and the closing of the old runtime another.   *)
(* The signature of a file (path, mod time, size, digest) is its version.  *)
(***************************************************************************)
EXTENDS Integers, Sequences, FiniteSets

CONSTANTS
    MaxVersion,     \* bound: versions of the file
    BadVersions,    \* versions that do not load
    MaxFailures,    \* bound: other loads that fail, and runtimes that report
                    \* an error when they are retired
    MaxCalls,       \* bound: ReloadConfigured calls
    MaxRuntimes,    \* bound: runtimes built
    Closers         \* goroutines that call LoggerContext.Close

ASSUME ReloadAssumption ==
    /\ MaxVersion \in Nat \ {0}
    /\ BadVersions \subseteq 2..MaxVersion
    /\ MaxFailures \in Nat /\ MaxCalls \in Nat /\ MaxRuntimes \in Nat \ {0}

(* The monitor and the caller of ReloadConfigured.                         *)
Watcher == "watcher"
User == "user"
Threads == {Watcher, User}

VARIABLES
    file,       \* the version on disk
    loaded,     \* runtime -> the version it was built from
    open,       \* runtimes whose appenders are open
    active,     \* the runtime the router uses
    down,       \* the router is closed
    last,       \* ConfigReloader.last
    cancelled,  \* watchCtx is cancelled
    at,         \* thread -> where its reload is
    mine,       \* thread -> the runtime it is installing
    old,        \* thread -> the runtime it retires
    closer,     \* closer -> where its Close call is
    calls,      \* ReloadConfigured calls begun
    failures,   \* loads and retirements that failed
    rejected,   \* history: runtimes whose reload returned an error
    during      \* history: versions written while a reload was on its way

fileVars    == <<file, during>>
runtimeVars == <<loaded, open, active, down>>
threadVars  == <<at, mine, old>>
bounds      == <<calls, failures, rejected>>
vars == <<fileVars, runtimeVars, last, cancelled, threadVars, closer, bounds>>

Runtimes == 1..MaxRuntimes
None == 0

-----------------------------------------------------------------------------
(* NewConfiguredLoggerContext has loaded the first version and built the   *)
(* handler; startConfigMonitor is about to take the signature.             *)
Init == /\ file = 1
        /\ loaded = <<1>>
        /\ open = {1}
        /\ active = 1
        /\ down = FALSE
        /\ last = None
        /\ cancelled = FALSE
        /\ at = [t \in Threads |-> IF t = Watcher THEN "start" ELSE "idle"]
        /\ mine = [t \in Threads |-> None]
        /\ old = [t \in Threads |-> None]
        /\ closer = [c \in Closers |-> "idle"]
        /\ calls = 0
        /\ failures = 0
        /\ rejected = {}
        /\ during = {}

Goto(t, where) == at' = [at EXCEPT ![t] = where]

Edit == /\ file < MaxVersion
        /\ file' = file + 1
        /\ during' = IF \A t \in Threads : at[t] \in {"idle", "stopped"}
                     THEN during ELSE during \cup {file'}
        /\ UNCHANGED <<runtimeVars, last, cancelled, threadVars, closer,
                       bounds>>

-----------------------------------------------------------------------------
(* The monitor records the signature before its first tick, and its        *)
(* goroutine starts.                                                       *)
StartMonitor == /\ at[Watcher] = "start"
                /\ last' = file
                /\ Goto(Watcher, "idle")
                /\ UNCHANGED <<fileVars, runtimeVars, cancelled, mine, old,
                               closer, bounds>>

(* Mutant: the signature is remembered before the reload has succeeded.    *)
PollRemember == /\ at[Watcher] = "idle"
                /\ last # file
                /\ last' = file
                /\ Goto(Watcher, "load")
                /\ UNCHANGED <<fileVars, runtimeVars, cancelled, mine, old,
                               closer, bounds>>

(* A tick: ReloadIfChanged compares signatures; unchanged ends the tick.   *)
(* The select may take a tick although the context is cancelled.           *)
Poll == /\ at[Watcher] = "idle"
        /\ last # file
        /\ Goto(Watcher, "load")
        /\ UNCHANGED <<fileVars, runtimeVars, last, cancelled, mine, old,
                       closer, bounds>>

(* ctx.Done: the goroutine ends and closes watchDone.                      *)
StopMonitor == /\ at[Watcher] = "idle"
               /\ cancelled
               /\ Goto(Watcher, "stopped")
               /\ UNCHANGED <<fileVars, runtimeVars, last, cancelled, mine,
                              old, closer, bounds>>

CallReload == /\ at[User] = "idle"
              /\ at[Watcher] # "start"
              /\ calls < MaxCalls
              /\ calls' = calls + 1
              /\ Goto(User, "load")
              /\ UNCHANGED <<fileVars, runtimeVars, last, cancelled, mine,
                             old, closer, failures, rejected>>

-----------------------------------------------------------------------------
(* LoadOptions: the context, the file, its appenders.                      *)
LoadFails(t) == /\ at[t] = "load"
                /\ \/ t = Watcher /\ cancelled /\ UNCHANGED failures
                   \/ file \in BadVersions /\ UNCHANGED failures
                   \/ failures < MaxFailures /\ failures' = failures + 1
                /\ Goto(t, "idle")
                /\ UNCHANGED <<fileVars, runtimeVars, last, cancelled, mine,
                               old, closer, calls, rejected>>

Load(t) == /\ at[t] = "load"
           /\ t = Watcher => ~cancelled
           /\ file \notin BadVersions
           /\ Len(loaded) < MaxRuntimes
           /\ loaded' = Append(loaded, file)
           /\ open' = open \cup {Len(loaded')}
           /\ mine' = [mine EXCEPT ![t] = Len(loaded')]
           /\ Goto(t, "swap")
           /\ UNCHANGED <<fileVars, active, down, last, cancelled, old,
                          closer, bounds>>

(* Mutant: a closed router keeps what it refused open.                     *)
SwapRefusedLeak(t) == /\ at[t] = "swap"
                      /\ down
                      /\ Goto(t, "idle")
                      /\ UNCHANGED <<fileVars, runtimeVars, last, cancelled,
                                     mine, old, closer, bounds>>

(* Handler.Reload on a closed router closes the new runtime and fails; its *)
(* caller closes the appenders once more.                                  *)
SwapRefused(t) == /\ at[t] = "swap"
                  /\ down
                  /\ rejected' = rejected \cup {mine[t]}
                  /\ open' = open \ {mine[t]}
                  /\ Goto(t, "idle")
                  /\ UNCHANGED <<fileVars, loaded, active, down, last,
                                 cancelled, mine, old, closer, calls,
                                 failures>>

Swap(t) == /\ at[t] = "swap"
           /\ ~down
           /\ old' = [old EXCEPT ![t] = active]
           /\ active' = mine[t]
           /\ Goto(t, "retire")
           /\ UNCHANGED <<fileVars, loaded, open, down, last, cancelled,
                          mine, closer, bounds>>

(* Mutant: the runtime that is closed is the one that is now active.       *)
RetireActive(t) == /\ at[t] = "retire"
                   /\ open' = open \ {active}
                   /\ Goto(t, IF t = Watcher THEN "sign" ELSE "idle")
                   /\ UNCHANGED <<fileVars, loaded, active, down, last,
                                  cancelled, mine, old, closer, bounds>>

(* The old runtime closes without an error.  ReloadConfigured is done, the *)
(* reloader takes the signature of the file.                               *)
Retire(t) == /\ at[t] = "retire"
             /\ open' = open \ {old[t]}
             /\ Goto(t, IF t = Watcher THEN "sign" ELSE "idle")
             /\ UNCHANGED <<fileVars, loaded, active, down, last, cancelled,
                            mine, old, closer, bounds>>

(* The old runtime reports an error: Handler.Reload returns it, and its    *)
(* caller closes the appenders of the new runtime.                         *)
RetireFails(t) == /\ at[t] = "retire"
                  /\ failures < MaxFailures
                  /\ failures' = failures + 1
                  /\ rejected' = rejected \cup {mine[t]}
                  /\ open' = open \ {old[t], mine[t]}
                  /\ Goto(t, "idle")
                  /\ UNCHANGED <<fileVars, loaded, active, down, last,
                                 cancelled, mine, old, closer, calls>>

(* currentSignature reads the file again, after the load.                  *)
Sign == /\ at[Watcher] = "sign"
        /\ last' = file
        /\ Goto(Watcher, "idle")
        /\ UNCHANGED <<fileVars, runtimeVars, cancelled, mine, old, closer,
                       bounds>>

-----------------------------------------------------------------------------
CloserGoto(c, where) == closer' = [closer EXCEPT ![c] = where]

(* stopConfigMonitor: the first Close cancels the monitor and waits for    *)
(* it, a second one finds nothing to cancel.                               *)
CloseBegin(c) == /\ closer[c] = "idle"
                 /\ at[Watcher] # "start"
                 /\ cancelled' = TRUE
                 /\ CloserGoto(c, IF cancelled THEN "handler" ELSE "wait")
                 /\ UNCHANGED <<fileVars, runtimeVars, last, threadVars,
                                bounds>>

(* Mutant: Close cancels the monitor without waiting for it.               *)
CloseNoWait(c) == /\ closer[c] = "wait"
                  /\ CloserGoto(c, "handler")
                  /\ UNCHANGED <<fileVars, runtimeVars, last, cancelled,
                                 threadVars, bounds>>

CloseWaited(c) == /\ closer[c] = "wait"
                  /\ at[Watcher] = "stopped"
                  /\ CloserGoto(c, "handler")
                  /\ UNCHANGED <<fileVars, runtimeVars, last, cancelled,
                                 threadVars, bounds>>

(* Handler.Close closes the active runtime, once.                          *)
CloseHandler(c) == /\ closer[c] = "handler"
                   /\ down' = TRUE
                   /\ open' = IF down THEN open ELSE open \ {active}
                   /\ CloserGoto(c, "returned")
                   /\ UNCHANGED <<fileVars, loaded, active, last, cancelled,
                                  threadVars, bounds>>

-----------------------------------------------------------------------------
(* Nothing changed since the last tick, or all is closed, or MaxRuntimes   *)
(* have been built.                                                        *)
Quiescent == /\ \A t \in Threads : at[t] \in {"idle", "load", "stopped"}
             /\ UNCHANGED vars

ReloadRuns(t) == \/ Load(t) \/ LoadFails(t) \/ SwapRefused(t) \/ Swap(t) \/ Retire(t)
                 \/ RetireFails(t)

WatcherRuns == StartMonitor \/ Poll \/ StopMonitor \/ Sign \/ ReloadRuns(Watcher)

CloseRuns(c) == CloseWaited(c) \/ CloseHandler(c)

Next == \/ Edit
        \/ WatcherRuns
        \/ CallReload \/ ReloadRuns(User)
        \/ \E c \in Closers : CloseBegin(c) \/ CloseRuns(c)
        \/ Quiescent

(* The ticker ticks and started calls run on.  Of the two ready arms of    *)
(* its select the monitor does not ignore one for ever.                    *)
Fairness == /\ WF_vars(WatcherRuns)
            /\ SF_vars(StopMonitor)
            /\ WF_vars(ReloadRuns(User))
            /\ \A c \in Closers : WF_vars(CloseRuns(c))

Spec == Init /\ [][Next]_vars
FairSpec == Spec /\ Fairness

-----------------------------------------------------------------------------
Stages == {"start", "idle", "load", "swap", "retire", "sign", "stopped"}

TypeOK ==
    /\ file \in 1..MaxVersion
    /\ loaded \in Seq(1..MaxVersion) /\ Len(loaded) \in Runtimes
    /\ open \subseteq 1..Len(loaded)
    /\ active \in 1..Len(loaded)
    /\ last \in 0..MaxVersion
    /\ down \in BOOLEAN /\ cancelled \in BOOLEAN
    /\ at \in [Threads -> Stages]
    /\ mine \in [Threads -> 0..Len(loaded)] /\ old \in [Threads -> 0..Len(loaded)]
    /\ closer \in [Closers -> {"idle", "wait", "handler", "returned"}]
    /\ calls \in 0..MaxCalls /\ failures \in 0..MaxFailures

Reloading(t) == at[t] \in {"swap", "retire"}

(* Whatever reloads, failed loads and Closes overlap, the appenders of the *)
(* runtime in use are open until the context closes it, unless its reload  *)
(* was reported as failed (see FailedReloadKeepsRuntime).                  *)
ActiveIsOpen == ~down /\ active \notin rejected => active \in open

(* No runtime leaks: when no reload is half way, only the one in use is    *)
(* open, and after the Close of the handler none is.                       *)
NothingLeaks ==
    (\A t \in Threads : ~Reloading(t)) => open \subseteq IF down THEN {} ELSE {active}

(* When every Close has returned the monitor is gone, and so is whatever   *)
(* it was installing, wherever in its reload the Close met it.             *)
ClosedForGood ==
    (\E c \in Closers : closer[c] = "returned")
    /\ (\A c \in Closers : closer[c] \in {"idle", "returned"}) =>
        /\ at[Watcher] = "stopped"
        /\ at[User] = "idle" => open = {}

(* What the documentation says of a reload that fails: the old runtime     *)
(* remains active.                                                         *)
FailedReloadKeepsRuntime == active \notin rejected

(* The monitor catches up: from some point on the runtime in use was built *)
(* from what the file holds, or the file does not load, or the context is  *)
(* being closed.                                                           *)
UpToDate == loaded[active] = file \/ file \in BadVersions \/ cancelled
MonitorCatchesUp == <>[]UpToDate

(* It does unless the file was written while a reload was on its way, also *)
(* after loads that failed and explicit reloads in between; and Close      *)
(* returns, also when the monitor is in the middle of a reload.            *)
MonitorAnswers ==
    /\ <>[](UpToDate \/ file \in during)
    /\ []<>(\A c \in Closers : closer[c] \in {"idle", "returned"})
=============================================================================
