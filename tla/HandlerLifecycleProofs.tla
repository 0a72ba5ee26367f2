----------------------- MODULE HandlerLifecycleProofs -----------------------
(***************************************************************************)
(* Theorems about HandlerLifecycle, for any number of logging goroutines,  *)
(* Closes, Reloads and SetLevels, with and without the asynchronous logger.*)
(***************************************************************************)
EXTENDS HandlerLifecycle, TLAPS

ClosingStages == {"close", "drain-appender", "plain"}

(* Who closes the appenders of a configuration.                            *)
Closes(x, c) == actor[x].at \in ClosingStages /\ actor[x].config = c

(* A reloader's configuration that the router has not seen.                *)
Fresh(x) == \/ actor[x].at \in {"idle", "replace"}
            \/ actor[x].at = "returned" /\ actor[x].config = NoConfig

(* The router uses the configuration its snapshot was derived from.        *)
RouterInv == base # NoConfig => current.config = base

(* Everything of a configuration is there.                                 *)
Intact(c) == asyncOpen[c] /\ plainOpen[c]

Gone(c) == ~asyncOpen[c] /\ ~plainOpen[c] /\ inner[c] = <<>>

(* What the router uses is intact, and so is what a Reload has built;      *)
(* neither is being closed.                                                *)
InUse == base # NoConfig => Intact(base) /\ \A x \in Actors : ~Closes(x, base)

FreshInv == \A r \in Reloaders : Fresh(r) =>
                /\ r # base /\ Intact(r) /\ inner[r] = <<>>
                /\ r # current.config /\ r # workPlan.config
                /\ \A l \in Loggers : plan[l].config # r
                /\ \A x \in Actors : ~Closes(x, r)

(* Where a call of Close or Reload is; nobody else closes what it closes.  *)
CallOk(x) ==
    /\ actor[x].at = "idle" => actor[x].config = NoConfig
    /\ actor[x].at = "replace" => x \in Reloaders /\ actor[x].config = x
    /\ actor[x].at \in {"drain", "router"} => x \in Closers
    /\ x \in Closers /\ actor[x].at \in ClosingStages \cup {"returned"} => base = NoConfig

CloseOk(x) ==
    actor[x].at \in ClosingStages =>
        /\ actor[x].config \in Configs
        /\ \A y \in Actors \ {x} : actor[y].at \in ClosingStages => actor[y].config # actor[x].config
        /\ plainOpen[actor[x].config]
        /\ (actor[x].at = "close") = asyncOpen[actor[x].config]
        /\ actor[x].at = "plain" => inner[actor[x].config] = <<>>

ActorInv == \A x \in Actors : CallOk(x) /\ CloseOk(x)

(* A configuration is in use, new, being closed, or gone.                  *)
StatusInv == \A c \in Configs : \/ c = base
                                \/ c \in Reloaders /\ Fresh(c)
                                \/ \E x \in Actors : Closes(x, c)
                                \/ Gone(c)

(* The worker appends the event at the head of the queue.                  *)
WorkerInv == worker = "append" => queue # <<>>

HandlerInvariant ==
    TypeOK /\ WorkerInv /\ RouterInv /\ InUse /\ FreshInv /\ ActorInv /\ StatusInv /\ lost = {}

-----------------------------------------------------------------------------
LEMMA ApplyType ==
    ASSUME NEW config \in Configs, NEW level \in Levels \cup {NoLevel}
    PROVE  Apply(config, level) \in Snapshots /\ Apply(config, level).config = config
BY DEF Apply, Snapshots, Levels, NoLevel, Configured

LEMMA TypeInit == Init => TypeOK /\ WorkerInv
<1> SUFFICES ASSUME Init PROVE TypeOK /\ WorkerInv
    OBVIOUS
<1>1. First \in Configs /\ NoLevel \in Levels \cup {NoLevel}
    BY DEF Configs
<1>2. current \in Snapshots
    BY <1>1, ApplyType DEF Init
<1>3. /\ async \in BOOLEAN /\ base \in Configs \cup {NoConfig}
      /\ override \in Levels \cup {NoLevel} /\ sets \in 0..MaxSets
    BY <1>1, HandlerAssumption DEF Init
<1>4. /\ pc \in [Loggers -> {"idle", "enqueue", "append", "done"}]
      /\ plan \in [Loggers -> Snapshots]
      /\ queue \in Seq(Loggers) /\ workPlan \in Snapshots
    BY <1>2 DEF Init
<1>8. closing \in BOOLEAN /\ worker \in {"take", "stopped"}
    BY DEF Init
<1>5. /\ inner \in [Configs -> Seq(Loggers)]
      /\ asyncOpen \in [Configs -> BOOLEAN] /\ plainOpen \in [Configs -> BOOLEAN]
    BY DEF Init
<1>6. actor \in [Actors -> [at : {"idle", "drain", "router", "replace", "close",
                                 "drain-appender", "plain", "returned"},
                           config : Configs \cup {NoConfig}]]
    BY DEF Init
<1>7. \A h \in {accepted, written, filtered, refused, lost} : h \subseteq Loggers
    BY DEF Init
<1> QED
    BY <1>2, <1>3, <1>4, <1>5, <1>6, <1>7, <1>8 DEF TypeOK, WorkerInv

LEMMA StepType ==
    ASSUME TypeOK, NEW x \in Actors, NEW config \in Configs \cup {NoConfig},
           NEW stage \in {"idle", "drain", "router", "replace", "close", "drain-appender",
                          "plain", "returned"},
           Step(x, stage, config)
    PROVE  /\ actor' \in [Actors -> [at : {"idle", "drain", "router", "replace", "close",
                                           "drain-appender", "plain", "returned"},
                                     config : Configs \cup {NoConfig}]]
           /\ actor'[x].at = stage /\ actor'[x].config = config
           /\ \A y \in Actors \ {x} : actor'[y] = actor[y]
BY DEF TypeOK, Step

LEMMA DispatchType ==
    ASSUME TypeOK, NEW event \in Loggers, NEW config \in Configs, DispatchRoute(event, config)
    PROVE  inner' \in [Configs -> Seq(Loggers)] /\ refused' \subseteq Loggers
<1>1. inner[config] \in Seq(Loggers)
    BY DEF TypeOK
<1>2. Append(inner[config], event) \in Seq(Loggers)
    BY <1>1
<1> QED
    BY <1>2 DEF DispatchRoute, TypeOK

LEMMA TypeStep == TypeOK /\ WorkerInv /\ RouterInv /\ [Next]_vars => TypeOK' /\ WorkerInv'
<1> SUFFICES ASSUME TypeOK, WorkerInv, RouterInv, [Next]_vars PROVE TypeOK' /\ WorkerInv'
    OBVIOUS
<1> USE HandlerAssumption DEF routerVars, logVars, pipeVars, sinkVars, history
<1>1. ASSUME NEW l \in Loggers, Handle(l) PROVE TypeOK' /\ WorkerInv'
    BY <1>1 DEF Handle, TypeOK, WorkerInv
<1>2. ASSUME NEW l \in Loggers, HandleSync(l) PROVE TypeOK' /\ WorkerInv'
  <2>1. plan[l].config \in Configs /\ DispatchRoute(l, plan[l].config)
    BY <1>2 DEF HandleSync, TypeOK, Snapshots
  <2>2. inner' \in [Configs -> Seq(Loggers)] /\ refused' \subseteq Loggers
    BY <2>1, DispatchType
  <2> QED
    BY <1>2, <2>2 DEF HandleSync, TypeOK, WorkerInv
<1>3. ASSUME NEW l \in Loggers, HandleAsync(l) PROVE TypeOK' /\ WorkerInv'
  <2>1. queue' \in Seq(Loggers) /\ (queue # <<>> => queue' # <<>>)
    <3>2. queue \in Seq(Loggers)
      BY DEF TypeOK
    <3>3. Append(queue, l) \in Seq(Loggers) /\ Len(Append(queue, l)) = Len(queue) + 1
      BY <3>2
    <3>4. Len(queue) \in Nat /\ Len(<<>>) = 0
      BY <3>2
    <3>1. Append(queue, l) \in Seq(Loggers) /\ Append(queue, l) # <<>>
      BY <3>3, <3>4
    <3> QED
      BY <1>3, <3>1 DEF HandleAsync, TypeOK
  <2> QED
    BY <1>3, <2>1 DEF HandleAsync, TypeOK, WorkerInv
<1>4. CASE WorkerTake
  <2>1. Head(queue) \in Loggers /\ Tail(queue) \in Seq(Loggers)
    BY <1>4 DEF WorkerTake, TypeOK
  <2> QED
    BY <1>4, <2>1 DEF WorkerTake, TypeOK, WorkerInv
<1>5. CASE WorkerAppend
  <2>1. Head(queue) \in Loggers /\ Tail(queue) \in Seq(Loggers)
    BY <1>5 DEF WorkerAppend, TypeOK, WorkerInv
  <2>2. inner' \in [Configs -> Seq(Loggers)] /\ refused' \subseteq Loggers
    BY <1>5, <2>1, DispatchType DEF WorkerAppend, TypeOK, Snapshots
  <2> QED
    BY <1>5, <2>1, <2>2 DEF WorkerAppend, TypeOK, WorkerInv
<1>6. CASE WorkerStop
    BY <1>6 DEF WorkerStop, TypeOK, WorkerInv
<1>7. ASSUME NEW c \in Configs, Deliver(c) PROVE TypeOK' /\ WorkerInv'
  <2>1. Head(inner[c]) \in Loggers /\ Tail(inner[c]) \in Seq(Loggers)
    BY <1>7 DEF Deliver, TypeOK
  <2>2. /\ inner' \in [Configs -> Seq(Loggers)]
        /\ written' \subseteq Loggers /\ lost' \subseteq Loggers
    BY <1>7, <2>1 DEF Deliver, TypeOK
  <2> QED
    BY <1>7, <2>2 DEF Deliver, TypeOK, WorkerInv
<1>8. ASSUME NEW x \in Closers, CloseAsync(x) \/ CloseRuns(x) PROVE TypeOK' /\ WorkerInv'
  <2>1. x \in Actors
    BY DEF Actors
  <2>2. PICK stage \in {"drain", "router", "returned", "close"},
             config \in Configs \cup {NoConfig} : Step(x, stage, config)
    BY <1>8 DEF CloseAsync, CloseRuns, CloseDrained, RouterClose, TypeOK, Snapshots
  <2>3. base' \in Configs \cup {NoConfig} /\ closing' \in BOOLEAN
    BY <1>8 DEF CloseAsync, CloseRuns, CloseDrained, RouterClose, TypeOK
  <2> QED
    BY <1>8, <2>1, <2>2, <2>3, StepType
       DEF CloseAsync, CloseRuns, CloseDrained, RouterClose, TypeOK, WorkerInv
<1>9. ASSUME NEW x \in Reloaders, ReloadRejected(x) \/ ReloadBuild(x) PROVE TypeOK' /\ WorkerInv'
  <2>1. x \in Actors /\ x \in Configs
    BY DEF Actors, Configs
  <2> QED
    BY <1>9, <2>1, StepType DEF ReloadRejected, ReloadBuild, TypeOK, WorkerInv
<1>10. ASSUME NEW x \in Reloaders, Replace(x) PROVE TypeOK' /\ WorkerInv'
  <2>1. x \in Actors /\ x \in Configs
    BY DEF Actors, Configs
  <2>2. PICK config \in Configs \cup {NoConfig} : Step(x, "close", config)
    BY <1>10, <2>1 DEF Replace, TypeOK, Snapshots
  <2>3. base' \in Configs \cup {NoConfig} /\ current' \in Snapshots
    BY <1>10, <2>1, ApplyType DEF Replace, TypeOK
  <2> QED
    BY <1>10, <2>1, <2>2, <2>3, StepType DEF Replace, TypeOK, WorkerInv
<1>11. ASSUME NEW x \in Actors, ConfigCloseRuns(x) PROVE TypeOK' /\ WorkerInv'
  <2>1. PICK stage \in {"drain-appender", "plain", "returned"} : Step(x, stage, actor[x].config)
    BY <1>11 DEF ConfigCloseRuns, CloseAppenders, AppenderDrained, ClosePlain
  <2>2. actor[x].config \in Configs \cup {NoConfig}
    BY DEF TypeOK
  <2>3. asyncOpen' \in [Configs -> BOOLEAN] /\ plainOpen' \in [Configs -> BOOLEAN]
    BY <1>11 DEF ConfigCloseRuns, CloseAppenders, AppenderDrained, ClosePlain, TypeOK
  <2> QED
    BY <1>11, <2>1, <2>2, <2>3, StepType
       DEF ConfigCloseRuns, CloseAppenders, AppenderDrained, ClosePlain, TypeOK, WorkerInv
<1>12. CASE SetLevel
  <2>1. override' \in Levels \cup {NoLevel} /\ current' \in Snapshots /\ sets' \in 0..MaxSets
    BY <1>12, ApplyType DEF SetLevel, TypeOK
  <2> QED
    BY <1>12, <2>1 DEF SetLevel, TypeOK, WorkerInv
<1>13. CASE UNCHANGED vars
    BY <1>13 DEF vars, TypeOK, WorkerInv
<1> QED
    BY <1>1, <1>2, <1>3, <1>4, <1>5, <1>6, <1>7, <1>8, <1>9, <1>10, <1>11, <1>12, <1>13
       DEF Next, LogRuns, PipeRuns, Finished

-----------------------------------------------------------------------------
(* Steps that append events or deliver them: a queue that was empty fills  *)
(* only where a plan leads, and only while its appender accepts.           *)
LEMMA FlowStep ==
    ASSUME HandlerInvariant, TypeOK',
           UNCHANGED <<actor, base, current, asyncOpen, plainOpen>>,
           \A l \in Loggers : plan'[l].config \in {plan[l].config, current.config},
           workPlan'.config \in {workPlan.config, current.config},
           \A c \in Configs : inner'[c] # <<>> =>
               \/ inner[c] # <<>>
               \/ /\ asyncOpen[c]
                  /\ c = workPlan.config \/ \E l \in Loggers : c = plan[l].config
    PROVE  (RouterInv /\ InUse /\ FreshInv /\ ActorInv /\ StatusInv)'
<1>1. RouterInv' /\ InUse'
    BY DEF HandlerInvariant, RouterInv, InUse, Intact, Closes
<1>2. FreshInv'
  <2> SUFFICES ASSUME NEW r \in Reloaders, Fresh(r)'
               PROVE  /\ r # base' /\ Intact(r)' /\ inner'[r] = <<>>
                      /\ r # current'.config /\ r # workPlan'.config
                      /\ \A l \in Loggers : plan'[l].config # r
                      /\ \A x \in Actors : ~Closes(x, r)'
    BY DEF FreshInv
  <2>1. /\ r # base /\ Intact(r) /\ inner[r] = <<>>
        /\ r # current.config /\ r # workPlan.config
        /\ \A l \in Loggers : plan[l].config # r
        /\ \A x \in Actors : ~Closes(x, r)
    BY DEF HandlerInvariant, FreshInv, Fresh
  <2>2. r \in Configs
    BY DEF Configs
  <2>3. inner'[r] = <<>>
    BY <2>1, <2>2
  <2> QED
    BY <2>1, <2>3 DEF Intact, Closes
<1>3. ActorInv'
  <2> SUFFICES ASSUME NEW x \in Actors PROVE CallOk(x)' /\ CloseOk(x)'
    BY DEF ActorInv
  <2>1. CallOk(x) /\ CloseOk(x)
    BY DEF HandlerInvariant, ActorInv
  <2>2. CallOk(x)'
    BY <2>1 DEF CallOk
  <2>3. actor[x].at = "plain" =>
            /\ ~asyncOpen[actor[x].config] /\ inner[actor[x].config] = <<>>
            /\ actor[x].config \in Configs
    BY <2>1 DEF CloseOk, ClosingStages
  <2>4. CloseOk(x)'
    BY <2>1, <2>3 DEF CloseOk
  <2> QED
    BY <2>2, <2>4
<1>4. StatusInv'
  <2> SUFFICES ASSUME NEW c \in Configs
               PROVE  \/ c = base'
                      \/ c \in Reloaders /\ Fresh(c)'
                      \/ (\E x \in Actors : Closes(x, c)') \/ Gone(c)'
    BY DEF StatusInv
  <2>1. CASE Gone(c)
    BY <2>1 DEF Gone
  <2>2. CASE ~Gone(c)
    <3>1. c = base \/ (c \in Reloaders /\ Fresh(c)) \/ \E x \in Actors : Closes(x, c)
      BY <2>2 DEF HandlerInvariant, StatusInv
    <3>2. Fresh(c) => Fresh(c)'
      BY DEF Fresh
    <3>3. \A x \in Actors : Closes(x, c) => Closes(x, c)'
      BY DEF Closes
    <3> QED
      BY <3>1, <3>2, <3>3
  <2> QED
    BY <2>1, <2>2
<1> QED
    BY <1>1, <1>2, <1>3, <1>4

(* A call of Close or Reload that only moves on, and closes nothing next.  *)
LEMMA CallStep ==
    ASSUME HandlerInvariant, NEW x \in Actors,
           UNCHANGED <<base, current, plan, workPlan, asyncOpen, plainOpen, inner>>,
           \A y \in Actors \ {x} : actor'[y] = actor[y],
           actor[x].at \notin ClosingStages, actor'[x].at \notin ClosingStages,
           x \in Reloaders => Fresh(x) /\ Fresh(x)',
           actor'[x].at = "replace" => x \in Reloaders /\ actor'[x].config = x,
           actor'[x].at # "idle",
           actor'[x].at \in {"drain", "router"} => x \in Closers,
           x \in Closers /\ actor'[x].at = "returned" => base = NoConfig
    PROVE  (RouterInv /\ InUse /\ FreshInv /\ ActorInv /\ StatusInv)'
<1>1. \A y \in Actors : \A c \in Configs : Closes(y, c)' <=> Closes(y, c)
    BY DEF Closes
<1>2. \A r \in Reloaders : Fresh(r)' <=> Fresh(r)
    BY DEF Fresh, Actors
<1>3. RouterInv' /\ InUse'
    BY <1>1 DEF HandlerInvariant, RouterInv, InUse, Intact, TypeOK
<1>4. FreshInv'
    BY <1>1, <1>2 DEF HandlerInvariant, FreshInv, Intact, Configs
<1>5. ActorInv'
    BY DEF HandlerInvariant, ActorInv, CallOk, CloseOk
<1>6. StatusInv'
    BY <1>1, <1>2 DEF HandlerInvariant, StatusInv, Gone
<1> QED
    BY <1>3, <1>4, <1>5, <1>6

(* RouterClose and Replace hand what the router used, or what it refused,  *)
(* to the goroutine that closes it.                                        *)
LEMMA RouterCloseStep ==
    ASSUME HandlerInvariant, NEW x \in Closers, RouterClose(x), base # NoConfig
    PROVE  (RouterInv /\ InUse /\ FreshInv /\ ActorInv /\ StatusInv)'
<1>1. /\ x \in Actors /\ x \notin Reloaders /\ NoConfig \notin Configs
      /\ actor[x].at = "router" /\ base \in Configs /\ current.config = base
      /\ UNCHANGED <<current, plan, workPlan, asyncOpen, plainOpen, inner>>
      /\ base' = NoConfig
    BY HandlerAssumption
       DEF RouterClose, At, Actors, HandlerInvariant, RouterInv, TypeOK, logVars, pipeVars, sinkVars
<1>2. /\ actor'[x].at = "close" /\ actor'[x].config = base
      /\ \A y \in Actors \ {x} : actor'[y] = actor[y]
    BY <1>1 DEF RouterClose, Step, HandlerInvariant, TypeOK
<1>3. Intact(base) /\ \A y \in Actors : ~Closes(y, base)
    BY <1>1 DEF HandlerInvariant, InUse
<1>4. \A y \in Actors \ {x} : \A c \in Configs : Closes(y, c)' <=> Closes(y, c)
    BY <1>2 DEF Closes
<1>5. \A c \in Configs : Closes(x, c)' <=> c = base
    BY <1>2 DEF Closes, ClosingStages
<1>6. \A r \in Reloaders : Fresh(r)' <=> Fresh(r)
    BY <1>1, <1>2 DEF Fresh, Actors
<1>7. RouterInv' /\ InUse'
    BY <1>1 DEF RouterInv, InUse
<1>8. FreshInv'
    BY <1>1, <1>4, <1>5, <1>6 DEF HandlerInvariant, FreshInv, Intact, Configs
<1>9. ActorInv'
  <2> SUFFICES ASSUME NEW y \in Actors PROVE CallOk(y)' /\ CloseOk(y)'
    BY DEF ActorInv
  <2>1. CASE y = x
    <3>1. \A z \in Actors \ {x} : actor'[z].at \in ClosingStages => actor'[z].config # base
      BY <1>2, <1>3 DEF Closes
    <3> QED
      BY <2>1, <3>1, <1>1, <1>2, <1>3 DEF CallOk, CloseOk, Intact, ClosingStages
  <2>2. CASE y # x
    <3>1. actor'[y] = actor[y] /\ CallOk(y) /\ CloseOk(y)
      BY <2>2, <1>2 DEF HandlerInvariant, ActorInv
    <3>2. CallOk(y)'
      BY <3>1, <1>1 DEF CallOk
    <3>3. actor[y].at \in ClosingStages => actor[y].config # base
      BY <1>3 DEF Closes
    <3>4. CloseOk(y)'
      BY <3>1, <3>3, <1>1, <1>2 DEF CloseOk
    <3> QED
      BY <3>2, <3>4
  <2> QED
    BY <2>1, <2>2
<1>10. StatusInv'
  <2> SUFFICES ASSUME NEW c \in Configs
               PROVE  \/ c = base'
                      \/ c \in Reloaders /\ Fresh(c)'
                      \/ (\E y \in Actors : Closes(y, c)') \/ Gone(c)'
    BY DEF StatusInv
  <2>1. CASE c = base
    BY <2>1, <1>1, <1>5
  <2>2. CASE c # base
    <3>1. (c \in Reloaders /\ Fresh(c)) \/ (\E y \in Actors : Closes(y, c)) \/ Gone(c)
      BY <2>2 DEF HandlerInvariant, StatusInv
    <3>2. ~Closes(x, c) /\ (Gone(c)' <=> Gone(c))
      BY <1>1 DEF Closes, ClosingStages, Gone
    <3> QED
      BY <3>1, <3>2, <1>4, <1>6
  <2> QED
    BY <2>1, <2>2
<1> QED
    BY <1>7, <1>8, <1>9, <1>10

(* Replace: the router was open, so that what was built takes the place of *)
(* what it used, or closed, so that what was built is closed.              *)
LEMMA ReplaceStep ==
    ASSUME HandlerInvariant, NEW x \in Reloaders, Replace(x)
    PROVE  (RouterInv /\ InUse /\ FreshInv /\ ActorInv /\ StatusInv)'
<1> DEFINE retired == IF base = NoConfig THEN x ELSE base
<1>1. /\ x \in Actors /\ x \in Configs /\ x \notin Closers /\ NoConfig \notin Configs
      /\ actor[x].at = "replace" /\ Fresh(x)
      /\ UNCHANGED <<plan, workPlan, asyncOpen, plainOpen, inner>>
    BY HandlerAssumption DEF Replace, At, Actors, Configs, Fresh, logVars, pipeVars, sinkVars
<1>2. /\ x # base /\ Intact(x) /\ inner[x] = <<>> /\ x # workPlan.config
      /\ \A l \in Loggers : plan[l].config # x
      /\ \A y \in Actors : ~Closes(y, x)
    BY <1>1 DEF HandlerInvariant, FreshInv
<1>3. /\ base = NoConfig => base' = base /\ current' = current
      /\ base # NoConfig => base' = x /\ current'.config = x /\ current.config = base
      /\ base \in Configs \cup {NoConfig}
    BY <1>1 DEF Replace, Apply, HandlerInvariant, RouterInv, TypeOK
<1>4. Step(x, "close", retired)
    BY <1>3 DEF Replace
<1>5. /\ retired \in Configs /\ retired # base' /\ Intact(retired)
      /\ retired = x \/ retired = base
      /\ \A y \in Actors : ~Closes(y, retired)
    BY <1>1, <1>2, <1>3 DEF HandlerInvariant, InUse
<1> HIDE DEF retired
<1>6. /\ actor'[x].at = "close" /\ actor'[x].config = retired
      /\ \A y \in Actors \ {x} : actor'[y] = actor[y]
    BY <1>1, <1>4 DEF Step, HandlerInvariant, TypeOK
<1>7. \A y \in Actors \ {x} : \A c \in Configs : Closes(y, c)' <=> Closes(y, c)
    BY <1>6 DEF Closes
<1>8. \A c \in Configs : Closes(x, c)' <=> c = retired
    BY <1>6 DEF Closes, ClosingStages
<1>9. ~Fresh(x)' /\ \A r \in Reloaders \ {x} : Fresh(r)' <=> Fresh(r)
    BY <1>6 DEF Fresh, Actors
<1>10. RouterInv'
    BY <1>3 DEF RouterInv, HandlerInvariant
<1>11. InUse'
  <2>1. base' # NoConfig => base' = x /\ retired # x
    BY <1>3, <1>5
  <2> QED
    BY <2>1, <1>1, <1>2, <1>7, <1>8 DEF InUse, Intact
<1>12. FreshInv'
  <2> SUFFICES ASSUME NEW r \in Reloaders, Fresh(r)'
               PROVE  /\ r # base' /\ Intact(r)' /\ inner'[r] = <<>>
                      /\ r # current'.config /\ r # workPlan'.config
                      /\ \A l \in Loggers : plan'[l].config # r
                      /\ \A y \in Actors : ~Closes(y, r)'
    BY DEF FreshInv
  <2>1. r # x /\ Fresh(r) /\ r \in Configs
    BY <1>9 DEF Configs
  <2>2. /\ r # base /\ Intact(r) /\ inner[r] = <<>>
        /\ r # current.config /\ r # workPlan.config
        /\ \A l \in Loggers : plan[l].config # r
        /\ \A y \in Actors : ~Closes(y, r)
    BY <2>1 DEF HandlerInvariant, FreshInv
  <2>3. r # base' /\ r # current'.config /\ r # retired
    BY <2>1, <2>2, <1>3, <1>5
  <2> QED
    BY <2>1, <2>2, <2>3, <1>1, <1>7, <1>8 DEF Intact
<1>13. ActorInv'
  <2> SUFFICES ASSUME NEW y \in Actors PROVE CallOk(y)' /\ CloseOk(y)'
    BY DEF ActorInv
  <2>1. CASE y = x
    <3>1. \A z \in Actors \ {x} : actor'[z].at \in ClosingStages => actor'[z].config # retired
      BY <1>5, <1>6 DEF Closes
    <3> QED
      BY <2>1, <3>1, <1>1, <1>5, <1>6 DEF CallOk, CloseOk, Intact, ClosingStages
  <2>2. CASE y # x
    <3>1. actor'[y] = actor[y] /\ CallOk(y) /\ CloseOk(y)
      BY <2>2, <1>6 DEF HandlerInvariant, ActorInv
    <3>2. base = NoConfig => base' = NoConfig
      BY <1>3
    <3>3. CallOk(y)'
      BY <3>1, <3>2 DEF CallOk
    <3>4. actor[y].at \in ClosingStages => actor[y].config # retired
      BY <1>5 DEF Closes
    <3>5. CloseOk(y)'
      BY <3>1, <3>4, <1>1, <1>6 DEF CloseOk
    <3> QED
      BY <3>3, <3>5
  <2> QED
    BY <2>1, <2>2
<1>14. StatusInv'
  <2> SUFFICES ASSUME NEW c \in Configs
               PROVE  \/ c = base'
                      \/ c \in Reloaders /\ Fresh(c)'
                      \/ (\E y \in Actors : Closes(y, c)') \/ Gone(c)'
    BY DEF StatusInv
  <2>1. CASE c \in {x, base}
    BY <2>1, <1>1, <1>3, <1>8 DEF retired
  <2>2. CASE c \notin {x, base}
    <3>1. (c \in Reloaders /\ Fresh(c)) \/ (\E y \in Actors : Closes(y, c)) \/ Gone(c)
      BY <2>2 DEF HandlerInvariant, StatusInv
    <3>2. ~Closes(x, c) /\ (Gone(c)' <=> Gone(c))
      BY <1>1 DEF Closes, ClosingStages, Gone
    <3> QED
      BY <2>2, <3>1, <3>2, <1>7, <1>9
  <2> QED
    BY <2>1, <2>2
<1> QED
    BY <1>10, <1>11, <1>12, <1>13, <1>14

(* Closing the appenders of a configuration that is no longer used.        *)
LEMMA ConfigCloseStep ==
    ASSUME HandlerInvariant, NEW x \in Actors, ConfigCloseRuns(x)
    PROVE  (RouterInv /\ InUse /\ FreshInv /\ ActorInv /\ StatusInv)'
<1> DEFINE c == actor[x].config
<1>1. /\ actor[x].at \in ClosingStages /\ Closes(x, c) /\ c \in Configs
      /\ UNCHANGED <<base, current, plan, workPlan, inner>>
    BY DEF ConfigCloseRuns, CloseAppenders, AppenderDrained, ClosePlain, At, Closes,
           ClosingStages, HandlerInvariant, ActorInv, CloseOk, routerVars, logVars, pipeVars, sinkVars
<1>2. /\ \A y \in Actors \ {x} : ~Closes(y, c)
      /\ plainOpen[c] /\ (actor[x].at = "close") = asyncOpen[c]
      /\ actor[x].at = "plain" => inner[c] = <<>>
      /\ x \in Closers => base = NoConfig
    BY <1>1 DEF HandlerInvariant, ActorInv, CloseOk, CallOk, Closes
<1>3. c # base
    BY <1>1, HandlerAssumption DEF HandlerInvariant, InUse
<1>4. \A r \in Reloaders : Fresh(r) => c # r
    BY <1>1 DEF HandlerInvariant, FreshInv
<1> HIDE DEF c
<1>5. \A d \in Configs \ {c} : asyncOpen'[d] = asyncOpen[d] /\ plainOpen'[d] = plainOpen[d]
    BY DEF ConfigCloseRuns, CloseAppenders, AppenderDrained, ClosePlain, HandlerInvariant, TypeOK,
           sinkVars, c
<1>6. /\ actor'[x].config = c /\ \A y \in Actors \ {x} : actor'[y] = actor[y]
      /\ asyncOpen'[c] = FALSE
      /\ \/ actor'[x].at = "drain-appender" /\ plainOpen'[c]
         \/ actor'[x].at = "plain" /\ plainOpen'[c] /\ inner[c] = <<>>
         \/ actor'[x].at = "returned" /\ ~plainOpen'[c] /\ inner[c] = <<>>
  <2>1. CASE CloseAppenders(x)
    BY <2>1, <1>1, <1>2 DEF CloseAppenders, At, Step, HandlerInvariant, TypeOK, c
  <2>2. CASE AppenderDrained(x)
    BY <2>2, <1>1, <1>2 DEF AppenderDrained, At, Step, HandlerInvariant, TypeOK, sinkVars, c
  <2>3. CASE ClosePlain(x)
    BY <2>3, <1>1, <1>2 DEF ClosePlain, At, Step, HandlerInvariant, TypeOK, c
  <2> QED
    BY <2>1, <2>2, <2>3 DEF ConfigCloseRuns
<1>7. \A y \in Actors \ {x} : \A d \in Configs : Closes(y, d)' <=> Closes(y, d)
    BY <1>6 DEF Closes
<1>8. \A d \in Configs : Closes(x, d)' => d = c
    BY <1>6 DEF Closes
<1>9. \A r \in Reloaders : Fresh(r)' <=> Fresh(r)
    BY <1>1, <1>6, HandlerAssumption DEF Fresh, Actors, ClosingStages, Configs
<1>10. RouterInv'
    BY <1>1 DEF HandlerInvariant, RouterInv
<1>11. InUse'
  <2>1. base # NoConfig => base \in Configs /\ Intact(base) /\ \A y \in Actors : ~Closes(y, base)
    BY DEF HandlerInvariant, InUse, TypeOK
  <2> QED
    BY <2>1, <1>1, <1>3, <1>5, <1>7, <1>8 DEF InUse, Intact
<1>12. FreshInv'
    BY <1>1, <1>4, <1>5, <1>7, <1>8, <1>9 DEF HandlerInvariant, FreshInv, Intact, Configs
<1>13. ActorInv'
  <2> SUFFICES ASSUME NEW y \in Actors PROVE CallOk(y)' /\ CloseOk(y)'
    BY DEF ActorInv
  <2>1. CASE y = x
    <3>1. \A z \in Actors \ {x} : actor'[z].at \in ClosingStages => actor'[z].config # c
      BY <1>2, <1>6 DEF Closes
    <3>2. CallOk(x)'
      BY <1>1, <1>2, <1>6 DEF CallOk
    <3>3. CloseOk(x)'
      BY <3>1, <1>1, <1>6 DEF CloseOk, ClosingStages
    <3> QED
      BY <2>1, <3>2, <3>3
  <2>2. CASE y # x
    <3>1. actor'[y] = actor[y] /\ CallOk(y) /\ CloseOk(y)
      BY <2>2, <1>6 DEF HandlerInvariant, ActorInv
    <3>2. CallOk(y)'
      BY <3>1, <1>1 DEF CallOk
    <3>3. actor[y].at \in ClosingStages => actor[y].config \in Configs \ {c}
      BY <2>2, <3>1, <1>2 DEF Closes, CloseOk
    <3>4. CloseOk(y)'
      BY <3>1, <3>3, <1>1, <1>5, <1>6 DEF CloseOk
    <3> QED
      BY <3>2, <3>4
  <2> QED
    BY <2>1, <2>2
<1>14. StatusInv'
  <2> SUFFICES ASSUME NEW d \in Configs
               PROVE  \/ d = base'
                      \/ d \in Reloaders /\ Fresh(d)'
                      \/ (\E y \in Actors : Closes(y, d)') \/ Gone(d)'
    BY DEF StatusInv
  <2>1. CASE d = c
    BY <2>1, <1>1, <1>6 DEF Closes, ClosingStages, Gone
  <2>2. CASE d # c
    <3>1. d = base \/ (d \in Reloaders /\ Fresh(d)) \/ (\E y \in Actors : Closes(y, d)) \/ Gone(d)
      BY DEF HandlerInvariant, StatusInv
    <3>2. ~Closes(x, d) /\ (Gone(d) => Gone(d)')
      BY <2>2, <1>1, <1>5 DEF Closes, Gone, c
    <3> QED
      BY <3>1, <3>2, <1>1, <1>7, <1>9
  <2> QED
    BY <2>1, <2>2
<1> QED
    BY <1>10, <1>11, <1>12, <1>13, <1>14

LEMMA SetLevelStep ==
    ASSUME HandlerInvariant, SetLevel
    PROVE  (RouterInv /\ InUse /\ FreshInv /\ ActorInv /\ StatusInv)'
<1>1. /\ UNCHANGED <<base, plan, workPlan, asyncOpen, plainOpen, inner, actor>>
      /\ base # NoConfig /\ current'.config = base
    BY DEF SetLevel, Apply, logVars, pipeVars, sinkVars
<1>2. \A x \in Actors : \A c \in Configs : Closes(x, c)' <=> Closes(x, c)
    BY <1>1 DEF Closes
<1>3. \A r \in Reloaders : Fresh(r)' <=> Fresh(r)
    BY <1>1 DEF Fresh
<1>4. RouterInv' /\ InUse'
    BY <1>1, <1>2 DEF HandlerInvariant, RouterInv, InUse, Intact, TypeOK
<1>5. FreshInv'
    BY <1>1, <1>2, <1>3 DEF HandlerInvariant, FreshInv, Intact, Configs
<1>6. ActorInv'
    BY <1>1 DEF HandlerInvariant, ActorInv, CallOk, CloseOk
<1>7. StatusInv'
    BY <1>1, <1>2, <1>3 DEF HandlerInvariant, StatusInv, Gone
<1> QED
    BY <1>4, <1>5, <1>6, <1>7

(* What an asynchronous appender has queued finds its plain one open.      *)
LEMMA DeliverStep ==
    ASSUME HandlerInvariant, NEW c \in Configs, Deliver(c) PROVE lost' = {}
<1>1. inner[c] # <<>>
    BY DEF Deliver
<1>2. plainOpen[c]
  <2>1. CASE c = base
    BY <2>1, HandlerAssumption DEF HandlerInvariant, InUse, Intact
  <2>2. CASE c \in Reloaders /\ Fresh(c)
    BY <2>2 DEF HandlerInvariant, FreshInv, Intact
  <2>3. CASE \E x \in Actors : Closes(x, c)
    BY <2>3 DEF HandlerInvariant, ActorInv, CloseOk, Closes
  <2> QED
    BY <1>1, <2>1, <2>2, <2>3 DEF HandlerInvariant, StatusInv, Gone
<1> QED
    BY <1>2 DEF Deliver, HandlerInvariant

LEMMA InvInit == Init => HandlerInvariant
<1> SUFFICES ASSUME Init PROVE HandlerInvariant
    OBVIOUS
<1>1. First \in Configs /\ current.config = First /\ First \notin Reloaders
    BY HandlerAssumption DEF Init, Apply, Configs
<1>2. \A x \in Actors : actor[x].at = "idle" /\ actor[x].config = NoConfig
    BY DEF Init
<1>3. \A c \in Configs : Intact(c) /\ inner[c] = <<>>
    BY DEF Init, Intact
<1>4. \A x \in Actors : \A c \in Configs : ~Closes(x, c)
    BY <1>2 DEF Closes, ClosingStages
<1>5. RouterInv /\ InUse
    BY <1>1, <1>3, <1>4 DEF Init, RouterInv, InUse
<1>6. FreshInv
    BY <1>1, <1>3, <1>4 DEF Init, FreshInv, Configs
<1>7. ActorInv
    BY <1>2 DEF ActorInv, CallOk, CloseOk, ClosingStages
<1>8. StatusInv
    BY <1>2 DEF StatusInv, Configs, Fresh, Init, Actors
<1>9. lost = {}
    BY DEF Init
<1> QED
    BY <1>5, <1>6, <1>7, <1>8, <1>9, TypeInit DEF HandlerInvariant

LEMMA InvStep == HandlerInvariant /\ [Next]_vars => HandlerInvariant'
<1> SUFFICES ASSUME HandlerInvariant, [Next]_vars PROVE HandlerInvariant'
    OBVIOUS
<1> USE DEF routerVars, logVars, pipeVars, sinkVars, history
<1>1. TypeOK' /\ WorkerInv'
    BY TypeStep DEF HandlerInvariant
<1>2. TypeOK /\ lost = {} /\ NoConfig \notin Configs
    BY HandlerAssumption DEF HandlerInvariant
<1>3. ASSUME NEW l \in Loggers, Handle(l) \/ LogRuns(l)
      PROVE  (RouterInv /\ InUse /\ FreshInv /\ ActorInv /\ StatusInv)' /\ lost' = {}
  <2>1. /\ UNCHANGED <<actor, base, current, asyncOpen, plainOpen, workPlan, lost>>
        /\ \A m \in Loggers : plan'[m].config \in {plan[m].config, current.config}
    BY <1>3, <1>2 DEF Handle, LogRuns, HandleSync, HandleAsync, TypeOK
  <2>2. \A c \in Configs : inner'[c] # <<>> =>
            inner[c] # <<>> \/ (asyncOpen[c] /\ c = plan[l].config)
    BY <1>3, <1>2 DEF Handle, LogRuns, HandleSync, HandleAsync, DispatchRoute, TypeOK
  <2> QED
    BY <1>1, <1>2, <2>1, <2>2, FlowStep
<1>4. ASSUME PipeRuns
      PROVE  (RouterInv /\ InUse /\ FreshInv /\ ActorInv /\ StatusInv)' /\ lost' = {}
  <2>1. /\ UNCHANGED <<actor, base, current, asyncOpen, plainOpen, plan, lost>>
        /\ workPlan'.config \in {workPlan.config, current.config}
    BY <1>4 DEF PipeRuns, WorkerTake, WorkerAppend, WorkerStop
  <2>2. \A c \in Configs : inner'[c] # <<>> =>
            inner[c] # <<>> \/ (asyncOpen[c] /\ c = workPlan.config)
    BY <1>4, <1>2 DEF PipeRuns, WorkerTake, WorkerAppend, WorkerStop, DispatchRoute, TypeOK
  <2> QED
    BY <1>1, <1>2, <2>1, <2>2, FlowStep
<1>5. ASSUME NEW c \in Configs, Deliver(c)
      PROVE  (RouterInv /\ InUse /\ FreshInv /\ ActorInv /\ StatusInv)' /\ lost' = {}
  <2>1. UNCHANGED <<actor, base, current, asyncOpen, plainOpen, plan, workPlan>>
    BY <1>5 DEF Deliver
  <2>2. \A d \in Configs : inner'[d] # <<>> => inner[d] # <<>>
    BY <1>5, <1>2 DEF Deliver, TypeOK
  <2> QED
    BY <1>1, <1>5, <2>1, <2>2, FlowStep, DeliverStep
<1>6. ASSUME NEW x \in Closers, CloseAsync(x) \/ CloseRuns(x)
      PROVE  (RouterInv /\ InUse /\ FreshInv /\ ActorInv /\ StatusInv)' /\ lost' = {}
  <2>1. lost' = {}
    BY <1>6, <1>2 DEF CloseAsync, CloseRuns, CloseDrained, RouterClose
  <2>2. CASE RouterClose(x) /\ base # NoConfig
    BY <2>1, <2>2, RouterCloseStep
  <2>3. CASE CloseAsync(x) \/ CloseDrained(x) \/ (RouterClose(x) /\ base = NoConfig)
    <3>1. x \in Actors /\ x \notin Reloaders
      BY HandlerAssumption DEF Actors
    <3>2. /\ UNCHANGED <<base, current, plan, workPlan, asyncOpen, plainOpen, inner>>
          /\ actor[x].at \in {"idle", "drain", "router"}
      BY <2>3 DEF CloseAsync, CloseDrained, RouterClose, At
    <3>3. /\ actor'[x].at \in {"drain", "router", "returned"}
          /\ actor'[x].at = "returned" => base = NoConfig
          /\ \A y \in Actors \ {x} : actor'[y] = actor[y]
      BY <2>3, <3>1, <1>2 DEF CloseAsync, CloseDrained, RouterClose, Step, TypeOK
    <3> QED
      BY <2>1, <3>1, <3>2, <3>3, CallStep DEF ClosingStages
  <2> QED
    BY <1>6, <2>2, <2>3 DEF CloseRuns
<1>7. ASSUME NEW x \in Reloaders, ReloadRejected(x) \/ ReloadBuild(x) \/ Replace(x)
      PROVE  (RouterInv /\ InUse /\ FreshInv /\ ActorInv /\ StatusInv)' /\ lost' = {}
  <2>1. lost' = {}
    BY <1>7, <1>2 DEF ReloadRejected, ReloadBuild, Replace
  <2>2. CASE ReloadRejected(x) \/ ReloadBuild(x)
    <3>1. x \in Actors /\ x \notin Closers
      BY HandlerAssumption DEF Actors
    <3>2. /\ UNCHANGED <<base, current, plan, workPlan, asyncOpen, plainOpen, inner>>
          /\ actor[x].at = "idle"
      BY <2>2 DEF ReloadRejected, ReloadBuild, At
    <3>3. /\ \/ actor'[x].at = "returned" /\ actor'[x].config = NoConfig
             \/ actor'[x].at = "replace" /\ actor'[x].config = x
          /\ \A y \in Actors \ {x} : actor'[y] = actor[y]
      BY <2>2, <3>1, <1>2 DEF ReloadRejected, ReloadBuild, Step, TypeOK
    <3> QED
      BY <2>1, <3>1, <3>2, <3>3, CallStep DEF ClosingStages, Fresh
  <2> QED
    BY <1>7, <2>1, <2>2, ReplaceStep
<1>8. ASSUME NEW x \in Actors, ConfigCloseRuns(x)
      PROVE  (RouterInv /\ InUse /\ FreshInv /\ ActorInv /\ StatusInv)' /\ lost' = {}
    BY <1>2, <1>8, ConfigCloseStep DEF ConfigCloseRuns, CloseAppenders, AppenderDrained, ClosePlain
<1>9. ASSUME SetLevel
      PROVE  (RouterInv /\ InUse /\ FreshInv /\ ActorInv /\ StatusInv)' /\ lost' = {}
    BY <1>2, <1>9, SetLevelStep DEF SetLevel
<1>10. ASSUME UNCHANGED vars
       PROVE  (RouterInv /\ InUse /\ FreshInv /\ ActorInv /\ StatusInv)' /\ lost' = {}
  <2>1. UNCHANGED <<actor, base, current, asyncOpen, plainOpen, plan, workPlan, inner, lost>>
    BY <1>10 DEF vars
  <2> QED
    BY <1>1, <1>2, <2>1, FlowStep
<1>11. (RouterInv /\ InUse /\ FreshInv /\ ActorInv /\ StatusInv)' /\ lost' = {}
    BY <1>3, <1>4, <1>5, <1>6, <1>7, <1>8, <1>9, <1>10 DEF Next, Finished
<1> QED
    BY <1>1, <1>11 DEF HandlerInvariant

(* The inductive invariant: a configuration is the one in use, one a       *)
(* Reload has built, one that a single goroutine closes, or closed; its    *)
(* plain appender closes after what its asynchronous one had queued.       *)
THEOREM HandlerInvariantHolds == Spec => []HandlerInvariant
    BY InvInit, InvStep, PTL DEF Spec

(* The appenders that new log calls find are open while the router is      *)
(* (router/runtime.go Replace, SetLevel, Close), for any number of Reloads *)
(* and Closes.                                                             *)
THEOREM SnapshotInUseIsOpen == Spec => []CurrentStaysOpen
<1>1. HandlerInvariant => CurrentStaysOpen
    BY DEF HandlerInvariant, RouterInv, InUse, Intact, CurrentStaysOpen
<1> QED
    BY <1>1, HandlerInvariantHolds, PTL

(* After a Close has returned and no call is left running, nothing that    *)
(* was built is open.                                                      *)
THEOREM CloseLeavesNothingOpen == Spec => []NothingStaysOpen
<1>1. ASSUME HandlerInvariant, \E x \in Closers : At(x, "returned"), \A x \in Actors : Idle(x),
             NEW c \in {First} \cup {x \in Reloaders : actor[x].config # NoConfig}
      PROVE  ~asyncOpen[c] /\ ~plainOpen[c]
  <2>1. base = NoConfig /\ c \in Configs /\ c # NoConfig
    BY <1>1, HandlerAssumption DEF HandlerInvariant, ActorInv, CallOk, Actors, At, Configs
  <2>2. \A x \in Actors : ~Closes(x, c)
    BY <1>1 DEF Idle, Closes, ClosingStages
  <2>3. ~(c \in Reloaders /\ Fresh(c))
    BY <1>1, HandlerAssumption DEF Idle, Fresh, HandlerInvariant, ActorInv, CallOk, Actors
  <2> QED
    BY <1>1, <2>1, <2>2, <2>3 DEF HandlerInvariant, StatusInv, Gone
<1>2. HandlerInvariant => NothingStaysOpen
    BY <1>1 DEF NothingStaysOpen
<1> QED
    BY <1>2, HandlerInvariantHolds, PTL

-----------------------------------------------------------------------------
In(event, list) == \E i \in DOMAIN list : list[i] = event

(* Where an accepted event may be.                                         *)
Somewhere(l) == \/ l \in written \cup filtered \cup refused
                \/ In(l, queue)
                \/ \E c \in Configs : In(l, inner[c])

(* A closed asynchronous logger has been drained, or is being drained by   *)
(* the call that closed it.                                                *)
DrainInv ==
    /\ \A l \in Loggers : (pc[l] = "enqueue" => async) /\ (pc[l] = "append" => ~async)
    /\ ~async => worker = "stopped" /\ accepted = {}
    /\ worker = "stopped" => queue = <<>> /\ (async => closing)
    /\ closing => async /\ (worker = "stopped" \/ \E x \in Closers : actor[x].at = "drain")
    /\ async => \A x \in Closers : actor[x].at # "idle" => closing

AccountInv == HandlerInvariant /\ DrainInv /\ \A l \in accepted : Somewhere(l)

LEMMA QueueFacts ==
    ASSUME NEW S, NEW q \in Seq(S), NEW e \in S
    PROVE  /\ \A l : In(l, q) => In(l, Append(q, e))
           /\ In(e, Append(q, e))
           /\ q # <<>> => \A l : In(l, q) => l = Head(q) \/ In(l, Tail(q))
           /\ \A l : ~In(l, <<>>)
<1>1. \A l : In(l, q) => In(l, Append(q, e))
    BY DEF In
<1>2. In(e, Append(q, e))
  <2>1. Append(q, e)[Len(q) + 1] = e /\ Len(q) + 1 \in DOMAIN Append(q, e)
    OBVIOUS
  <2> QED
    BY <2>1 DEF In
<1>3. ASSUME q # <<>>, NEW l, In(l, q) PROVE l = Head(q) \/ In(l, Tail(q))
  <2>1. PICK i \in 1..Len(q) : q[i] = l
    BY <1>3 DEF In
  <2>2. CASE i = 1
    BY <2>1, <2>2
  <2>3. CASE i # 1
    <3>1. i - 1 \in DOMAIN Tail(q) /\ Tail(q)[i - 1] = l
      BY <2>1, <2>3
    <3> QED
      BY <3>1 DEF In
  <2> QED
    BY <2>2, <2>3
<1>4. \A l : ~In(l, <<>>)
    BY DEF In
<1> QED
    BY <1>1, <1>2, <1>3, <1>4

LEMMA AccountInit == Init => AccountInv
<1> SUFFICES ASSUME Init PROVE AccountInv
    OBVIOUS
<1>1. DrainInv
    BY HandlerAssumption DEF Init, DrainInv, Actors
<1>2. \A l \in accepted : Somewhere(l)
    BY DEF Init
<1> QED
    BY <1>1, <1>2, InvInit DEF AccountInv

(* No step forgets an event that was accepted.                             *)
LEMMA EventsStep ==
    ASSUME AccountInv, [Next]_vars, HandlerInvariant', NEW l \in accepted'
    PROVE  Somewhere(l)'
<1> USE DEF routerVars, logVars, pipeVars, sinkVars, history
<1>1. /\ queue \in Seq(Loggers) /\ inner \in [Configs -> Seq(Loggers)] /\ lost' = {}
      /\ \A c \in Configs : inner[c] \in Seq(Loggers)
      /\ l \in accepted => Somewhere(l)
    BY DEF AccountInv, HandlerInvariant, TypeOK
<1>2. ASSUME NEW event \in Loggers, NEW config \in Configs, DispatchRoute(event, config)
      PROVE  /\ \A c \in Configs : In(l, inner[c]) => In(l, inner'[c])
             /\ refused \subseteq refused'
             /\ l = event => l \in refused' \/ In(l, inner'[config])
  <2>1. /\ In(event, Append(inner[config], event))
        /\ In(l, inner[config]) => In(l, Append(inner[config], event))
    BY <1>1, QueueFacts
  <2> QED
    BY <1>1, <1>2, <2>1 DEF DispatchRoute
<1>3. ASSUME NEW x \in Loggers, Handle(x) PROVE Somewhere(l)'
    BY <1>1, <1>3 DEF Handle, Somewhere, In
<1>4. ASSUME NEW x \in Loggers, HandleSync(x) PROVE Somewhere(l)'
  <2>1. plan[x].config \in Configs /\ DispatchRoute(x, plan[x].config)
    BY <1>4 DEF HandleSync, AccountInv, HandlerInvariant, TypeOK, Snapshots
  <2>2. UNCHANGED <<queue, accepted, written, filtered>>
    BY <1>4 DEF HandleSync
  <2>3. /\ \A c \in Configs : In(l, inner[c]) => In(l, inner'[c])
        /\ refused \subseteq refused'
    BY <1>2, <2>1
  <2>4. In(l, queue)' <=> In(l, queue)
    BY <2>2 DEF In
  <2>5. Somewhere(l)
    BY <1>1, <2>2
  <2> QED
    BY <2>2, <2>3, <2>4, <2>5 DEF Somewhere, In
<1>5. ASSUME NEW x \in Loggers, HandleAsync(x) PROVE Somewhere(l)'
  <2>1. In(x, Append(queue, x)) /\ (In(l, queue) => In(l, Append(queue, x)))
    BY <1>1, QueueFacts
  <2>2. UNCHANGED <<inner, written, filtered, refused>>
    BY <1>5 DEF HandleAsync
  <2>3. CASE l = x /\ ~closing
    BY <1>5, <2>1, <2>3 DEF HandleAsync, Somewhere, In
  <2>4. CASE l # x \/ closing
    <3>1. Somewhere(l)
      BY <1>1, <1>5, <2>4 DEF HandleAsync
    <3>2. In(l, queue) => In(l, queue')
      BY <1>5, <2>1 DEF HandleAsync
    <3> QED
      BY <2>2, <3>1, <3>2 DEF Somewhere, In
  <2> QED
    BY <2>3, <2>4
<1>6. CASE WorkerTake
  <2>1. In(l, queue) => l = Head(queue) \/ In(l, Tail(queue))
    BY <1>1, <1>6, QueueFacts DEF WorkerTake
  <2>2. Somewhere(l) /\ UNCHANGED <<inner, written, refused>> /\ filtered \subseteq filtered'
    BY <1>1, <1>6 DEF WorkerTake
  <2>3. In(l, queue) => l \in filtered' \/ In(l, queue')
    BY <1>6, <2>1 DEF WorkerTake
  <2> QED
    BY <2>2, <2>3 DEF Somewhere, In
<1>7. CASE WorkerAppend
  <2>1. queue # <<>> /\ Head(queue) \in Loggers /\ workPlan.config \in Configs
    BY <1>1, <1>7 DEF WorkerAppend, AccountInv, HandlerInvariant, WorkerInv, TypeOK, Snapshots
  <2>2. DispatchRoute(Head(queue), workPlan.config) /\ queue' = Tail(queue)
    BY <1>7 DEF WorkerAppend
  <2>3. /\ \A c \in Configs : In(l, inner[c]) => In(l, inner'[c])
        /\ refused \subseteq refused'
        /\ l = Head(queue) => l \in refused' \/ In(l, inner'[workPlan.config])
    BY <1>2, <2>1, <2>2
  <2>4. In(l, queue) => l = Head(queue) \/ In(l, queue')
    BY <1>1, <2>1, <2>2, QueueFacts
  <2>5. Somewhere(l) /\ UNCHANGED <<written, filtered>>
    BY <1>1, <1>7 DEF WorkerAppend
  <2> QED
    BY <2>1, <2>3, <2>4, <2>5 DEF Somewhere, In
<1>8. ASSUME NEW d \in Configs, Deliver(d) PROVE Somewhere(l)'
  <2>1. inner[d] # <<>> /\ Head(inner[d]) \in Loggers
    BY <1>1, <1>8 DEF Deliver
  <2>2. In(l, inner[d]) => l = Head(inner[d]) \/ In(l, Tail(inner[d]))
    BY <1>1, <2>1, QueueFacts
  <2>3. plainOpen[d]
    BY <1>1, <1>8, <2>1 DEF Deliver
  <2>4. written' = written \cup {Head(inner[d])} /\ inner' = [inner EXCEPT ![d] = Tail(@)]
    BY <1>8, <2>3 DEF Deliver
  <2>5. \A c \in Configs : In(l, inner[c]) => l \in written' \/ In(l, inner'[c])
    BY <1>1, <2>2, <2>4
  <2>6. Somewhere(l) /\ UNCHANGED <<queue, filtered, refused>> /\ written \subseteq written'
    BY <1>1, <1>8, <2>4 DEF Deliver
  <2> QED
    BY <2>5, <2>6 DEF Somewhere, In
<1>9. CASE UNCHANGED <<queue, inner, history>>
    BY <1>1, <1>9 DEF Somewhere, In
<1>10. ASSUME NEW x \in Actors,
              \/ CloseAsync(x) \/ CloseRuns(x) \/ ConfigCloseRuns(x)
              \/ ReloadRejected(x) \/ ReloadBuild(x) \/ Replace(x)
       PROVE  Somewhere(l)'
  <2>1. UNCHANGED <<queue, inner, history>>
    BY <1>10 DEF CloseAsync, CloseRuns, CloseDrained, RouterClose, ReloadRejected, ReloadBuild,
                 Replace, ConfigCloseRuns, CloseAppenders, AppenderDrained, ClosePlain
  <2> QED
    BY <1>9, <2>1
<1>11. ASSUME SetLevel \/ UNCHANGED vars PROVE Somewhere(l)'
  <2>1. UNCHANGED <<queue, inner, history>>
    BY <1>11 DEF SetLevel, vars
  <2> QED
    BY <1>9, <2>1
<1>12. \/ \E x \in Loggers : Handle(x) \/ HandleSync(x) \/ HandleAsync(x)
       \/ WorkerTake \/ WorkerAppend \/ SetLevel \/ UNCHANGED vars
       \/ WorkerStop
       \/ \E c \in Configs : Deliver(c)
       \/ \E x \in Actors : \/ CloseAsync(x) \/ CloseRuns(x) \/ ConfigCloseRuns(x)
                              \/ ReloadRejected(x) \/ ReloadBuild(x) \/ Replace(x)
    BY DEF Next, LogRuns, PipeRuns, Finished, Actors
<1>13. CASE WorkerStop
    BY <1>9, <1>13 DEF WorkerStop
<1> QED
    BY <1>3, <1>4, <1>5, <1>6, <1>7, <1>8, <1>10, <1>11, <1>12, <1>13

LEMMA DrainStep == AccountInv /\ [Next]_vars => DrainInv'
<1> SUFFICES ASSUME AccountInv, [Next]_vars PROVE DrainInv'
    OBVIOUS
<1> USE DEF routerVars, logVars, pipeVars, sinkVars, history
<1>1. DrainInv /\ TypeOK /\ WorkerInv
    BY DEF AccountInv, HandlerInvariant
<1>2. ASSUME NEW l \in Loggers, Handle(l) \/ LogRuns(l) PROVE DrainInv'
  <2>1. /\ UNCHANGED <<async, closing, worker, actor>>
        /\ \A m \in Loggers \ {l} : pc'[m] = pc[m]
        /\ pc'[l] = "done" \/ pc'[l] = IF async THEN "enqueue" ELSE "append"
    BY <1>1, <1>2 DEF Handle, LogRuns, HandleSync, HandleAsync, TypeOK
  <2>2. (async /\ ~closing) \/ UNCHANGED <<queue, accepted>>
    BY <1>1, <1>2 DEF Handle, LogRuns, HandleSync, HandleAsync, DrainInv
  <2> QED
    BY <1>1, <2>1, <2>2 DEF DrainInv
<1>3. CASE PipeRuns
  <2>1. UNCHANGED <<async, closing, actor, pc, accepted>> /\ worker # "stopped"
    BY <1>3 DEF PipeRuns, WorkerTake, WorkerAppend, WorkerStop
  <2>2. worker' = "stopped" => queue' = <<>> /\ closing
    BY <1>3 DEF PipeRuns, WorkerTake, WorkerAppend, WorkerStop
  <2> QED
    BY <1>1, <2>1, <2>2 DEF DrainInv
<1>4. ASSUME NEW x \in Actors,
             \/ ConfigCloseRuns(x) \/ CloseRuns(x)
             \/ x \in Reloaders /\ (ReloadRejected(x) \/ ReloadBuild(x) \/ Replace(x))
      PROVE  DrainInv'
  <2>1. UNCHANGED <<async, closing, worker, queue, pc, accepted>>
    BY <1>4 DEF CloseRuns, CloseDrained, RouterClose, ReloadRejected, ReloadBuild,
                Replace, ConfigCloseRuns, CloseAppenders, AppenderDrained, ClosePlain
  <2>2. /\ \A y \in Actors \ {x} : actor'[y] = actor[y]
        /\ x \in Closers => actor[x].at # "idle"
        /\ x \in Closers /\ actor[x].at = "drain" => worker = "stopped"
    BY <1>1, <1>4, HandlerAssumption
       DEF CloseRuns, CloseDrained, RouterClose, ReloadRejected, ReloadBuild, Replace, Step, At,
           ConfigCloseRuns, CloseAppenders, AppenderDrained, ClosePlain, TypeOK
  <2> QED
    BY <1>1, <2>1, <2>2 DEF DrainInv, Actors
<1>5. ASSUME NEW x \in Closers, CloseAsync(x) PROVE DrainInv'
  <2>1. /\ UNCHANGED <<async, worker, queue, pc, accepted>> /\ closing' = async
        /\ actor[x].at = "idle" /\ x \in Actors
        /\ \A y \in Actors \ {x} : actor'[y] = actor[y]
        /\ actor'[x].at = IF async /\ ~closing THEN "drain" ELSE "router"
    BY <1>1, <1>5 DEF CloseAsync, At, Step, TypeOK, Actors
  <2> QED
    BY <1>1, <2>1 DEF DrainInv, Actors
<1>6. CASE SetLevel \/ UNCHANGED vars \/ \E c \in Configs : Deliver(c)
  <2>1. UNCHANGED <<async, closing, worker, queue, pc, accepted, actor>>
    BY <1>6 DEF SetLevel, vars, Deliver
  <2> QED
    BY <1>1, <2>1 DEF DrainInv
<1> QED
    BY <1>2, <1>3, <1>4, <1>5, <1>6 DEF Next, Finished, Actors

(* Every event the asynchronous logger took is in a queue, written,        *)
(* filtered or refused, in every behaviour of any number of Closes.        *)
THEOREM AcceptedIsSomewhere == Spec => []AccountInv
<1>1. AccountInv /\ [Next]_vars => AccountInv'
  <2> SUFFICES ASSUME AccountInv, [Next]_vars PROVE AccountInv'
    OBVIOUS
  <2>1. HandlerInvariant'
    BY InvStep DEF AccountInv
  <2> QED
    BY <2>1, DrainStep, EventsStep DEF AccountInv
<1> QED
    BY <1>1, AccountInit, PTL DEF Spec

-----------------------------------------------------------------------------
OneCloser == \A x, y \in Closers : x = y

(* What is closed was closed by one of the calls, and an event meets a     *)
(* closed appender only after a Reload has built a configuration.          *)
RefusedInv ==
    /\ \A c \in Configs : ~asyncOpen[c] =>
          \E x \in Actors : /\ actor[x].config = c
                            /\ actor[x].at \in {"drain-appender", "plain", "returned"}
    /\ \A x \in Closers : actor[x].at \notin {"idle", "drain"} => worker = "stopped"
    /\ async /\ refused # {} => \E x \in Reloaders : actor[x].config # NoConfig

LEMMA RefusedStep ==
    ASSUME OneCloser, AccountInv, RefusedInv, [Next]_vars, HandlerInvariant' PROVE RefusedInv'
<1> USE DEF routerVars, logVars, pipeVars, sinkVars, history
<1>1. /\ DrainInv /\ TypeOK /\ HandlerInvariant /\ NoConfig \notin Configs
      /\ \A r \in Reloaders : r \in Configs /\ r \notin Closers
    BY HandlerAssumption DEF AccountInv, HandlerInvariant, Configs
<1>2. ASSUME NEW l \in Loggers, Handle(l) \/ LogRuns(l) PROVE RefusedInv'
  <2>1. UNCHANGED <<async, asyncOpen, actor, worker>> /\ (async => refused' = refused)
    BY <1>1, <1>2 DEF Handle, LogRuns, HandleSync, HandleAsync, DrainInv
  <2> QED
    BY <2>1 DEF RefusedInv
<1>3. CASE WorkerAppend
  <2>1. /\ UNCHANGED <<async, asyncOpen, actor>> /\ worker = "append" /\ worker' = "take"
        /\ asyncOpen[workPlan.config] => refused' = refused
        /\ workPlan.config \in Configs
    BY <1>1, <1>3 DEF WorkerAppend, DispatchRoute, TypeOK, Snapshots
  <2>2. \A x \in Closers : actor[x].at \in {"idle", "drain"}
    BY <2>1 DEF RefusedInv
  <2>3. ~asyncOpen[workPlan.config] => \E x \in Reloaders : actor[x].config # NoConfig
    BY <1>1, <2>1, <2>2 DEF RefusedInv, Actors
  <2> QED
    BY <2>1, <2>2, <2>3 DEF RefusedInv
<1>4. CASE WorkerTake \/ WorkerStop \/ SetLevel \/ UNCHANGED vars \/ \E c \in Configs : Deliver(c)
  <2>1. UNCHANGED <<async, asyncOpen, actor, refused>> /\ (worker = "stopped" => worker' = worker)
    BY <1>4 DEF WorkerTake, WorkerStop, SetLevel, vars, Deliver
  <2> QED
    BY <2>1 DEF RefusedInv
<1>5. ASSUME NEW x \in Closers, CloseAsync(x) \/ CloseRuns(x) PROVE RefusedInv'
  <2>1. /\ UNCHANGED <<async, asyncOpen, worker, refused>>
        /\ actor[x].at \in {"idle", "drain", "router"}
        /\ \A y \in Actors \ {x} : actor'[y] = actor[y]
    BY <1>1, <1>5 DEF CloseAsync, CloseRuns, CloseDrained, RouterClose, At, Step, TypeOK
  <2>2. actor'[x].at \notin {"idle", "drain"} => worker = "stopped"
    <3>1. x \in Actors
      BY DEF Actors
    <3>2. CASE CloseAsync(x)
      <4>1. actor[x].at = "idle" /\ actor'[x].at = IF async /\ ~closing THEN "drain" ELSE "router"
        BY <1>1, <3>1, <3>2 DEF CloseAsync, At, Step, TypeOK
      <4>2. closing => worker = "stopped"
        BY <1>1, <4>1 DEF DrainInv, OneCloser
      <4> QED
        BY <1>1, <4>1, <4>2 DEF DrainInv
    <3>3. CASE CloseRuns(x)
      BY <3>3 DEF CloseRuns, CloseDrained, RouterClose, At, RefusedInv
    <3> QED
      BY <1>5, <3>2, <3>3
  <2> QED
    BY <1>1, <2>1, <2>2 DEF RefusedInv, Actors, OneCloser
<1>6. ASSUME NEW x \in Reloaders, ReloadRejected(x) \/ ReloadBuild(x) \/ Replace(x) PROVE RefusedInv'
  <2>1. /\ UNCHANGED <<async, asyncOpen, worker, refused>> /\ x \in Actors
        /\ actor[x].at \in {"idle", "replace"}
        /\ \A y \in Actors \ {x} : actor'[y] = actor[y]
    BY <1>1, <1>6 DEF ReloadRejected, ReloadBuild, Replace, At, Step, TypeOK, Actors
  <2>2. actor[x].config # NoConfig => actor'[x].config # NoConfig
    <3>1. actor[x].at = "idle" => actor[x].config = NoConfig
      BY <1>1, <2>1 DEF HandlerInvariant, ActorInv, CallOk
    <3>2. Replace(x) => actor'[x].config # NoConfig
      BY <1>1, <2>1 DEF Replace, Step, TypeOK, Snapshots
    <3> QED
      BY <1>6, <3>1, <3>2 DEF ReloadRejected, ReloadBuild, At
  <2> QED
    BY <1>1, <2>1, <2>2 DEF RefusedInv, Actors
<1>7. ASSUME NEW x \in Actors, ConfigCloseRuns(x) PROVE RefusedInv'
  <2>1. /\ UNCHANGED <<async, worker, refused>>
        /\ actor[x].at \in ClosingStages
        /\ actor'[x].at \in {"drain-appender", "plain", "returned"}
        /\ actor'[x].config = actor[x].config
        /\ \A y \in Actors \ {x} : actor'[y] = actor[y]
    BY <1>1, <1>7 DEF ConfigCloseRuns, CloseAppenders, AppenderDrained, ClosePlain, At, Step, TypeOK,
                     ClosingStages
  <2>2. \A c \in Configs : c # actor[x].config => asyncOpen'[c] = asyncOpen[c]
    BY <1>1, <1>7 DEF ConfigCloseRuns, CloseAppenders, AppenderDrained, ClosePlain, TypeOK
  <2> QED
    BY <2>1, <2>2 DEF RefusedInv, ClosingStages, Actors
<1> QED
    BY <1>2, <1>3, <1>4, <1>5, <1>6, <1>7 DEF Next, PipeRuns, Finished

(* With one Close, when it and the Reloads have returned each accepted     *)
(* event was written or filtered, or met the appenders of a configuration  *)
(* a Reload had retired (asynclogger/logger.go Close, handler_part1.go     *)
(* Close); a second Close breaks that, see CloseReturnsDrained.            *)
THEOREM OneCloseDrains == ASSUME OneCloser PROVE Spec => []CloseDrains
<1>1. Init => RefusedInv
    BY HandlerAssumption DEF Init, RefusedInv, Actors
<1>2. AccountInv /\ AccountInv' /\ RefusedInv /\ [Next]_vars => RefusedInv'
    BY RefusedStep, OneCloser DEF AccountInv
<1>3. ASSUME AccountInv, RefusedInv PROVE CloseDrains
  <2>1. lost = {}
    BY <1>3 DEF AccountInv, HandlerInvariant
  <2>2. ASSUME NEW k \in Closers, At(k, "returned"), \A x \in Actors : Idle(x), NEW l \in accepted
        PROVE  l \in written \cup filtered \cup refused
    <3>1. worker = "stopped" /\ queue = <<>>
      BY <1>3, <2>2 DEF RefusedInv, AccountInv, DrainInv, At
    <3>2. base = NoConfig
      BY <1>3, <2>2 DEF AccountInv, HandlerInvariant, ActorInv, CallOk, Actors, At
    <3>3. \A c \in Configs : inner[c] = <<>>
      <4> TAKE c \in Configs
      <4>1. c # base /\ \A x \in Actors : ~Closes(x, c)
        BY <2>2, <3>2, HandlerAssumption DEF Idle, Closes, ClosingStages
      <4> QED
        BY <1>3, <4>1 DEF AccountInv, HandlerInvariant, StatusInv, FreshInv, Gone
    <3> QED
      BY <1>3, <2>2, <3>1, <3>3 DEF AccountInv, Somewhere, In
  <2>3. accepted \cap refused # {} => \E x \in Reloaders : actor[x].config # NoConfig
    BY <1>3 DEF RefusedInv, AccountInv, DrainInv
  <2> QED
    BY <2>1, <2>2, <2>3 DEF CloseDrains
<1> QED
    BY <1>1, <1>2, <1>3, AcceptedIsSomewhere, PTL DEF Spec
=============================================================================
