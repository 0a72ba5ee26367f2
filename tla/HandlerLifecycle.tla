-------------------------- MODULE HandlerLifecycle --------------------------
(***************************************************************************)
(* Handler and internal/router.Router: goroutines log while others reload  *)
(* the configuration, override a level and close the handler.              *)
(*                                                                         *)
(* The router publishes one immutable snapshot, current.  A log call reads *)
(* it once and then appends to the appenders it found there, without a     *)
(* lock; with the asynchronous logger the call only queues the event and   *)
(* the worker reads the snapshot again.  Reload swaps the snapshot and     *)
(* closes the appenders of the old one; Close closes the current ones.     *)
(*                                                                         *)
(* A configuration has two appenders: an asynchronous one, the target of   *)
(* the route, and the plain one it delegates to.  Both queues are those of *)
(* AsyncPipeline with room for every event.                                *)
(***************************************************************************)
EXTENDS Integers, Sequences, FiniteSets

CONSTANTS
    Loggers,      \* goroutines that log, one event each
    Closers,      \* goroutines that call Handler.Close
    Reloaders,    \* goroutines that call Handler.Reload once
    First,        \* the configuration the handler is built with
    NoConfig,     \* the router's nil base
    AsyncModes,   \* whether Options.Async is enabled: a set of Booleans
    MaxSets       \* bound: SetLevel calls

(* A reload builds its own configuration: it is named after its caller.    *)
Configs == {First} \cup Reloaders

(* The events are at level 0; a route at level 1 does not let them pass.   *)
Levels == {0, 1}
NoLevel == 2

ASSUME HandlerAssumption ==
    /\ First \notin Reloaders /\ Closers \cap Reloaders = {}
    /\ NoConfig \notin Configs
    /\ AsyncModes \subseteq BOOLEAN
    /\ MaxSets \in Nat

VARIABLES
    async,       \* h.async is there
    base,        \* Router.base; NoConfig once the router is closed
    override,    \* Router.levels for the logger in question
    sets,        \* SetLevel calls made
    current,     \* Router.current: [config, level]
    pc,          \* logger -> where its Handle call is
    plan,        \* logger -> the snapshot it read
    queue,       \* the asynchronous logger's queue
    closing,     \* the asynchronous logger is closed to callers
    worker,      \* its worker: "take", "append" or "stopped"
    workPlan,    \* the event and the snapshot the worker holds
    inner,       \* config -> events queued in its asynchronous appender
    asyncOpen,   \* config -> its asynchronous appender accepts events
    plainOpen,   \* config -> its plain appender is open
    actor,       \* closer or reloader -> [at, config] where its call is
    accepted,    \* history: events the asynchronous logger took
    written,     \* history: events a plain appender wrote
    filtered,    \* history: events below the level
    refused,     \* history: events an asynchronous appender refused
    lost         \* history: queued events a closed plain appender refused

routerVars == <<async, base, override, sets, current>>
logVars    == <<pc, plan>>
pipeVars   == <<queue, closing, worker, workPlan>>
sinkVars   == <<inner, asyncOpen, plainOpen>>
history    == <<accepted, written, filtered, refused, lost>>
vars == <<routerVars, logVars, pipeVars, sinkVars, actor, history>>

Actors == Closers \cup Reloaders

(* The level configured in a file: a reload may make the logger quiet.     *)
Configured(config) == IF config = First THEN 0 ELSE 1

(* applyLevelOverrides for one logger.                                     *)
Apply(config, level) ==
    [config |-> config, level |-> IF level = NoLevel THEN Configured(config) ELSE level]

-----------------------------------------------------------------------------
Init == /\ async \in AsyncModes
        /\ base = First
        /\ override = NoLevel
        /\ sets = 0
        /\ current = Apply(First, NoLevel)
        /\ pc = [l \in Loggers |-> "idle"]
        /\ plan = [l \in Loggers |-> current]
        /\ queue = <<>>
        /\ closing = FALSE
        /\ worker = IF async THEN "take" ELSE "stopped"
        /\ workPlan = current
        /\ inner = [c \in Configs |-> <<>>]
        /\ asyncOpen = [c \in Configs |-> TRUE]
        /\ plainOpen = [c \in Configs |-> TRUE]
        /\ actor = [x \in Actors |-> [at |-> "idle", config |-> NoConfig]]
        /\ accepted = {} /\ written = {} /\ filtered = {} /\ refused = {} /\ lost = {}

-----------------------------------------------------------------------------
(* dispatchRoute: append to the route's appender, whatever has become of   *)
(* its configuration since the snapshot was read.                          *)
DispatchRoute(event, config) ==
    IF asyncOpen[config]
    THEN /\ inner' = [inner EXCEPT ![config] = Append(@, event)]
         /\ UNCHANGED refused
    ELSE /\ refused' = refused \cup {event}
         /\ UNCHANGED inner

(* Handle reads the plan and compares the level.                           *)
Handle(l) == /\ pc[l] = "idle"
             /\ plan' = [plan EXCEPT ![l] = current]
             /\ \/ /\ current.level > 0
                   /\ pc' = [pc EXCEPT ![l] = "done"]
                   /\ filtered' = filtered \cup {l}
                \/ /\ current.level <= 0
                   /\ pc' = [pc EXCEPT ![l] = IF async THEN "enqueue" ELSE "append"]
                   /\ UNCHANGED filtered
             /\ UNCHANGED <<routerVars, pipeVars, sinkVars, actor, accepted, written,
                            refused, lost>>

(* Without the asynchronous logger the caller writes.                      *)
HandleSync(l) == /\ pc[l] = "append"
                 /\ DispatchRoute(l, plan[l].config)
                 /\ pc' = [pc EXCEPT ![l] = "done"]
                 /\ UNCHANGED <<routerVars, plan, pipeVars, asyncOpen, plainOpen, actor,
                                accepted, written, filtered, lost>>

HandleAsync(l) == /\ pc[l] = "enqueue"
                  /\ pc' = [pc EXCEPT ![l] = "done"]
                  /\ IF closing
                     THEN UNCHANGED <<queue, accepted>>
                     ELSE /\ queue' = Append(queue, l)
                          /\ accepted' = accepted \cup {l}
                  /\ UNCHANGED <<routerVars, plan, closing, worker, workPlan, sinkVars,
                                 actor, written, filtered, refused, lost>>

(* Handler.dispatch, called by the worker: it reads the plan anew.         *)
WorkerTake == /\ worker = "take"
              /\ queue # <<>>
              /\ workPlan' = current
              /\ IF current.level > 0
                 THEN /\ queue' = Tail(queue)
                      /\ filtered' = filtered \cup {Head(queue)}
                      /\ UNCHANGED worker
                 ELSE /\ worker' = "append"
                      /\ UNCHANGED <<queue, filtered>>
              /\ UNCHANGED <<routerVars, logVars, closing, sinkVars, actor, accepted,
                             written, refused, lost>>

WorkerAppend == /\ worker = "append"
                /\ DispatchRoute(Head(queue), workPlan.config)
                /\ queue' = Tail(queue)
                /\ worker' = "take"
                /\ UNCHANGED <<routerVars, logVars, closing, workPlan, asyncOpen,
                               plainOpen, actor, accepted, written, filtered, lost>>

WorkerStop == /\ worker = "take"
              /\ closing /\ queue = <<>>
              /\ worker' = "stopped"
              /\ UNCHANGED <<routerVars, logVars, queue, closing, workPlan, sinkVars,
                             actor, history>>

(* Mutant: the worker of an asynchronous appender stops when it is closed. *)
DeliverWhileOpen(c) ==
    /\ inner[c] # <<>> /\ asyncOpen[c]
    /\ inner' = [inner EXCEPT ![c] = Tail(@)]
    /\ IF plainOpen[c]
       THEN written' = written \cup {Head(inner[c])} /\ UNCHANGED lost
       ELSE lost' = lost \cup {Head(inner[c])} /\ UNCHANGED written
    /\ UNCHANGED <<routerVars, logVars, pipeVars, asyncOpen, plainOpen, actor,
                   accepted, filtered, refused>>

(* The worker of a configuration's asynchronous appender.                  *)
Deliver(c) == /\ inner[c] # <<>>
              /\ inner' = [inner EXCEPT ![c] = Tail(@)]
              /\ IF plainOpen[c]
                 THEN written' = written \cup {Head(inner[c])} /\ UNCHANGED lost
                 ELSE lost' = lost \cup {Head(inner[c])} /\ UNCHANGED written
              /\ UNCHANGED <<routerVars, logVars, pipeVars, asyncOpen, plainOpen, actor,
                             accepted, filtered, refused>>

-----------------------------------------------------------------------------
Step(x, at, config) == actor' = [actor EXCEPT ![x] = [at |-> at, config |-> config]]

At(x, at) == actor[x].at = at

(* Handler.Close: the asynchronous logger first.  A second call finds it   *)
(* closed and goes on at once.                                             *)
CloseAsync(x) == /\ At(x, "idle")
                 /\ closing' = async
                 /\ Step(x, IF async /\ ~closing THEN "drain" ELSE "router", NoConfig)
                 /\ UNCHANGED <<routerVars, logVars, queue, worker, workPlan, sinkVars,
                                history>>

(* Mutant: Close does not wait for the worker.                             *)
CloseUndrained(x) == /\ At(x, "drain")
                     /\ Step(x, "router", NoConfig)
                     /\ UNCHANGED <<routerVars, logVars, pipeVars, sinkVars, history>>

CloseDrained(x) == /\ At(x, "drain")
                   /\ worker = "stopped"
                   /\ Step(x, "router", NoConfig)
                   /\ UNCHANGED <<routerVars, logVars, pipeVars, sinkVars, history>>

(* Router.Close, under the mutex.                                          *)
RouterClose(x) ==
    /\ At(x, "router")
    /\ IF base = NoConfig
       THEN Step(x, "returned", NoConfig) /\ UNCHANGED base
       ELSE base' = NoConfig /\ Step(x, "close", current.config)
    /\ UNCHANGED <<async, override, sets, current, logVars, pipeVars, sinkVars, history>>

(* Handler.Reload: the checks of the asynchronous logger's shape, then the *)
(* new configuration is built.                                             *)
ReloadRejected(x) == /\ At(x, "idle")
                     /\ Step(x, "returned", NoConfig)
                     /\ UNCHANGED <<routerVars, logVars, pipeVars, sinkVars, history>>

ReloadBuild(x) == /\ At(x, "idle")
                  /\ Step(x, "replace", x)
                  /\ UNCHANGED <<routerVars, logVars, pipeVars, sinkVars, history>>

(* Mutant: the old configuration's appenders are shut before the swap.     *)
ReplaceLate(x) ==
    /\ At(x, "replace")
    /\ IF base = NoConfig
       THEN Step(x, "close", x) /\ UNCHANGED <<base, current, asyncOpen>>
       ELSE IF asyncOpen[current.config]
       THEN /\ asyncOpen' = [asyncOpen EXCEPT ![current.config] = FALSE]
            /\ UNCHANGED <<base, current, actor>>
       ELSE /\ base' = x
            /\ current' = Apply(x, override)
            /\ Step(x, "close", current.config)
            /\ UNCHANGED asyncOpen
    /\ UNCHANGED <<async, override, sets, logVars, pipeVars, inner, plainOpen, history>>

(* Mutant: a closed router forgets the configuration that was built.       *)
ReplaceAbandon(x) ==
    /\ At(x, "replace")
    /\ IF base = NoConfig
       THEN Step(x, "returned", x) /\ UNCHANGED <<base, current>>
       ELSE /\ base' = x
            /\ current' = Apply(x, override)
            /\ Step(x, "close", current.config)
    /\ UNCHANGED <<async, override, sets, logVars, pipeVars, sinkVars, history>>

(* Router.Replace under the mutex: a closed router closes what was built,  *)
(* an open one swaps and closes what was there.                            *)
Replace(x) ==
    /\ At(x, "replace")
    /\ IF base = NoConfig
       THEN Step(x, "close", x) /\ UNCHANGED <<base, current>>
       ELSE /\ base' = x
            /\ current' = Apply(x, override)
            /\ Step(x, "close", current.config)
    /\ UNCHANGED <<async, override, sets, logVars, pipeVars, sinkVars, history>>

(* Router.SetLevel, under the mutex: a level, or back to the file's.       *)
SetLevel == /\ sets < MaxSets /\ sets' = sets + 1
            /\ base # NoConfig
            /\ \E level \in Levels \cup {NoLevel} :
                  /\ override' = level
                  /\ current' = Apply(base, level)
            /\ UNCHANGED <<async, base, logVars, pipeVars, sinkVars, actor, history>>

-----------------------------------------------------------------------------
(* runtimeConfig.close: the asynchronous appender closes first.            *)
CloseAppenders(x) ==
    /\ At(x, "close")
    /\ LET c == actor[x].config IN
          /\ asyncOpen' = [asyncOpen EXCEPT ![c] = FALSE]
          /\ Step(x, IF asyncOpen[c] THEN "drain-appender" ELSE "plain", c)
    /\ UNCHANGED <<routerVars, logVars, pipeVars, inner, plainOpen, history>>

AppenderDrained(x) ==
    /\ At(x, "drain-appender")
    /\ inner[actor[x].config] = <<>>
    /\ Step(x, "plain", actor[x].config)
    /\ UNCHANGED <<routerVars, logVars, pipeVars, sinkVars, history>>

ClosePlain(x) ==
    /\ At(x, "plain")
    /\ plainOpen' = [plainOpen EXCEPT ![actor[x].config] = FALSE]
    /\ Step(x, "returned", actor[x].config)
    /\ UNCHANGED <<routerVars, logVars, pipeVars, inner, asyncOpen, history>>

-----------------------------------------------------------------------------
Idle(x) == actor[x].at \in {"idle", "returned"}

Finished == /\ \A l \in Loggers : pc[l] = "done"
            /\ \A x \in Actors : At(x, "returned")
            /\ queue = <<>> /\ \A c \in Configs : inner[c] = <<>>
            /\ UNCHANGED vars

LogRuns(l) == HandleSync(l) \/ HandleAsync(l)

PipeRuns == WorkerTake \/ WorkerAppend \/ WorkerStop

CloseRuns(x) == CloseDrained(x) \/ RouterClose(x)

ConfigCloseRuns(x) == CloseAppenders(x) \/ AppenderDrained(x) \/ ClosePlain(x)

Next == \/ \E l \in Loggers : Handle(l) \/ LogRuns(l)
        \/ PipeRuns
        \/ \E c \in Configs : Deliver(c)
        \/ \E x \in Closers : CloseAsync(x) \/ CloseRuns(x)
        \/ \E x \in Reloaders : ReloadRejected(x) \/ ReloadBuild(x) \/ Replace(x)
        \/ \E x \in Actors : ConfigCloseRuns(x)
        \/ SetLevel
        \/ Finished

(* Goroutines in the middle of a call run on, and so do the workers.       *)
Fairness == /\ \A l \in Loggers : WF_vars(LogRuns(l))
            /\ WF_vars(PipeRuns)
            /\ \A c \in Configs : WF_vars(Deliver(c))
            /\ \A x \in Closers : WF_vars(CloseRuns(x))
            /\ \A x \in Reloaders : WF_vars(Replace(x))
            /\ \A x \in Actors : WF_vars(ConfigCloseRuns(x))

Spec == Init /\ [][Next]_vars
FairSpec == Spec /\ Fairness

-----------------------------------------------------------------------------
Snapshots == [config : Configs, level : Levels]

TypeOK ==
    /\ async \in BOOLEAN
    /\ base \in Configs \cup {NoConfig}
    /\ override \in Levels \cup {NoLevel} /\ sets \in 0..MaxSets
    /\ current \in Snapshots
    /\ pc \in [Loggers -> {"idle", "enqueue", "append", "done"}]
    /\ plan \in [Loggers -> Snapshots]
    /\ queue \in Seq(Loggers)
    /\ closing \in BOOLEAN
    /\ worker \in {"take", "append", "stopped"} /\ workPlan \in Snapshots
    /\ inner \in [Configs -> Seq(Loggers)]
    /\ asyncOpen \in [Configs -> BOOLEAN] /\ plainOpen \in [Configs -> BOOLEAN]
    /\ actor \in [Actors -> [at : {"idle", "drain", "router", "replace", "close",
                                   "drain-appender", "plain", "returned"},
                             config : Configs \cup {NoConfig}]]
    /\ \A h \in {accepted, written, filtered, refused, lost} : h \subseteq Loggers

(* While the router is open the appenders of the snapshot that new log     *)
(* calls read are open: Reload closes appenders only after they have been  *)
(* swapped out, however Reloads, SetLevels and Closes overlap.             *)
CurrentStaysOpen ==
    base # NoConfig => asyncOpen[current.config] /\ plainOpen[current.config]

(* When the handler has been closed and the reloads that overlapped have   *)
(* returned, nothing that was built is still open, whether a Reload came   *)
(* before, during or after the Close.                                      *)
NothingStaysOpen ==
    ((\E x \in Closers : At(x, "returned")) /\ \A x \in Actors : Idle(x)) =>
        \A c \in {First} \cup {x \in Reloaders : actor[x].config # NoConfig} :
            ~asyncOpen[c] /\ ~plainOpen[c]

(* When no call is left running after Close, each event the asynchronous   *)
(* logger accepted was written or filtered by level, or met a closed       *)
(* appender because a Reload had retired the snapshot the worker held; and *)
(* what an asynchronous appender accepted always reaches the plain one it  *)
(* delegates to before that is closed.                                     *)
CloseDrains ==
    /\ lost = {}
    /\ ((\E x \in Closers : At(x, "returned")) /\ \A x \in Actors : Idle(x)) =>
        /\ \A l \in accepted : l \in written \cup filtered \cup refused
        /\ (accepted \cap refused # {}) => \E x \in Reloaders : actor[x].config # NoConfig

(* What the documentation says of Handler.Close: it drains the work that   *)
(* was accepted and flushes it before it returns.                          *)
CloseReturnsDrained ==
    (\E x \in Closers : At(x, "returned")) =>
        \A l \in accepted : l \in written \cup filtered

(* Close and Reload return: again and again no call is on its way (each    *)
(* actor makes one).                                                       *)
CallsReturn == []<>(\A x \in Actors : Idle(x))
=============================================================================
