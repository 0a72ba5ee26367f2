--------------------------- MODULE AsyncPipeline ---------------------------
(***************************************************************************)
(* internal/asyncappender.Appender and internal/asynclogger.Logger: the    *)
(* same machine twice.  Callers of Append put events in a ring under an    *)
(* overflow strategy, one worker goroutine hands them to the sinks in      *)
(* batches, and Close stops the callers, then the worker, then the sinks.  *)
(*                                                                         *)
(* The ring is the bounded FIFO that DisruptorRing implements, with the    *)
(* gap between claiming a sequence and publishing it kept: ready says that *)
(* the claimed element is published.                                       *)
(***************************************************************************)
EXTENDS Integers, Sequences, FiniteSets

CONSTANTS
    Callers,         \* goroutines that call Append
    Closers,         \* goroutines that call Close
    Strategies,      \* overflow strategies to consider
    Capacity,        \* queue size
    BatchSize,       \* batch size, at most Capacity
    MaxPerCaller,    \* bound: Append calls of one caller
    DebugEvents,     \* events at level debug or lower
    CloseAppenders,  \* WithCloseAppenders: Close also closes the delegates
    FailingEvents    \* events the delegates return an error for

Events == Callers \X (1..MaxPerCaller)

ASSUME PipelineAssumption ==
    /\ Capacity \in Nat \ {0}
    /\ BatchSize \in 1..Capacity
    /\ MaxPerCaller \in Nat
    /\ Strategies \subseteq {"block", "drop", "drop-debug", "sync-fallback"}
    /\ DebugEvents \subseteq Events
    /\ FailingEvents \subseteq Events
    /\ CloseAppenders \in BOOLEAN

VARIABLES
    strategy,    \* the configured overflow strategy
    queue,       \* claimed elements: [event, ready]
    pc,          \* caller -> where its Append call is
    calls,       \* caller -> Append calls begun
    outcome,     \* event -> what Append answered
    worker,      \* where run() is
    batch,       \* the elements of the batch not handed over yet
    joined,      \* flushBatch: an element of this batch failed
    done,        \* the done channel is closed
    closed,      \* closed, and the closing channel is closed
    closer,      \* closer -> where its Close call is
    sinkClosed,  \* closeDelegates has run
    handed,      \* history: events handed to the sinks, in order
    misfed,      \* history: events of the worker a sink refused
    dropped,     \* the dropped counter
    failed       \* the failed counter

callerVars == <<pc, calls, outcome>>
workerVars == <<worker, batch, joined>>
closeVars  == <<done, closed, closer>>
sinkVars   == <<sinkClosed, handed, misfed>>
counters   == <<dropped, failed>>
vars == <<strategy, queue, callerVars, workerVars, closeVars, sinkVars, counters>>

Event(p) == <<p, calls[p]>>

(* producers.Wait waits for the callers that passed beginAppend.           *)
InFlight(p) == pc[p] \in {"check", "try", "publish", "blocked", "retry", "sync"}

-----------------------------------------------------------------------------
Init == /\ strategy \in Strategies
        /\ queue = <<>>
        /\ pc = [p \in Callers |-> "idle"]
        /\ calls = [p \in Callers |-> 0]
        /\ outcome = [e \in Events |-> "none"]
        /\ worker = "pop"
        /\ batch = <<>>
        /\ joined = FALSE
        /\ done = FALSE
        /\ closed = FALSE
        /\ closer = [c \in Closers |-> "idle"]
        /\ sinkClosed = FALSE
        /\ handed = <<>>
        /\ misfed = {}
        /\ dropped = 0
        /\ failed = 0

Goto(p, state) == pc' = [pc EXCEPT ![p] = state]

Answer(p, result) == /\ Goto(p, "idle")
                     /\ outcome' = [outcome EXCEPT ![Event(p)] = result]

(* appendSync: every delegate gets the event, the errors are joined.  One  *)
(* step per event; a closed delegate refuses.                              *)
Hand(event) == handed' = Append(handed, event)

-----------------------------------------------------------------------------
(* Append.  A context that is already done is refused before anything.     *)
Call(p) == /\ pc[p] = "idle"
           /\ calls[p] < MaxPerCaller
           /\ calls' = [calls EXCEPT ![p] = calls[p] + 1]
           /\ Goto(p, "begin")
           /\ UNCHANGED <<strategy, queue, outcome, workerVars, closeVars, sinkVars, counters>>

(* beginAppend, under the read lock.                                       *)
Begin(p) == /\ pc[p] = "begin"
            /\ ~closed
            /\ Goto(p, IF strategy = "block" THEN "try" ELSE "check")
            /\ UNCHANGED <<strategy, queue, calls, outcome, workerVars, closeVars,
                           sinkVars, counters>>

Refuse(p) == /\ pc[p] = "begin"
             /\ closed
             /\ Answer(p, "closed")
             /\ UNCHANGED <<strategy, queue, calls, workerVars, closeVars, sinkVars,
                            counters>>

(* The select on closing of the strategies that do not block.              *)
CheckClosing(p) == /\ pc[p] = "check"
                   /\ IF closed THEN Answer(p, "closed")
                                ELSE Goto(p, "try") /\ UNCHANGED outcome
                   /\ UNCHANGED <<strategy, queue, calls, workerVars, closeVars,
                                  sinkVars, counters>>

(* TryPublish: the claim, then the publication.                            *)
TryPublish(p) == /\ pc[p] \in {"try", "retry"}
                 /\ Len(queue) < Capacity
                 /\ queue' = Append(queue, [event |-> Event(p), ready |-> FALSE])
                 /\ Goto(p, "publish")
                 /\ UNCHANGED <<strategy, calls, outcome, workerVars, closeVars,
                                sinkVars, counters>>

Publish(p) == /\ pc[p] = "publish"
              /\ queue' = [i \in DOMAIN queue |->
                              IF queue[i].event = Event(p)
                              THEN [queue[i] EXCEPT !.ready = TRUE] ELSE queue[i]]
              /\ Answer(p, "accepted")
              /\ UNCHANGED <<strategy, calls, workerVars, closeVars, sinkVars, counters>>

(* The queue is full: each strategy answers in its own way.  A caller that *)
(* is in enqueueBlocking ("retry", or strategy block) waits.               *)
(* Mutant: drop-debug drops at every level.                                *)
DropAnything(p) == strategy \in {"drop", "drop-debug"}

Droppable(p) == \/ strategy = "drop"
                \/ strategy = "drop-debug" /\ Event(p) \in DebugEvents

(* Mutant: what drop-debug must keep is written around the queue.          *)
MeetFullAroundQueue(p) ==
    /\ pc[p] = "try"
    /\ Len(queue) = Capacity
    /\ ~Droppable(p)
    /\ Goto(p, IF strategy = "block" THEN "blocked" ELSE "sync")
    /\ UNCHANGED <<strategy, queue, calls, outcome, workerVars, closeVars,
                   sinkVars, counters>>

MeetFull(p) == /\ pc[p] = "try"
               /\ Len(queue) = Capacity
               /\ ~Droppable(p)
               /\ Goto(p, IF strategy = "sync-fallback" THEN "sync"
                          ELSE IF strategy = "block" THEN "blocked" ELSE "retry")
               /\ UNCHANGED <<strategy, queue, calls, outcome, workerVars, closeVars,
                              sinkVars, counters>>

Drop(p) == /\ pc[p] = "try"
           /\ Len(queue) = Capacity
           /\ Droppable(p)
           /\ dropped' = dropped + 1
           /\ Answer(p, "dropped")
           /\ UNCHANGED <<strategy, queue, calls, workerVars, closeVars, sinkVars, failed>>

BlockAgain(p) == /\ pc[p] = "retry"
                 /\ Len(queue) = Capacity
                 /\ Goto(p, "blocked")
                 /\ UNCHANGED <<strategy, queue, calls, outcome, workerVars, closeVars,
                                sinkVars, counters>>

(* Mutant: freed slots do not wake the blocked caller, Close does.         *)
UnblockWhenClosed(p) == /\ pc[p] = "blocked"
                        /\ Len(queue) < Capacity
                        /\ closed
                        /\ Goto(p, "retry")
                        /\ UNCHANGED <<strategy, queue, calls, outcome, workerVars,
                                       closeVars, sinkVars, counters>>

(* WaitWritable: room, closing, or the caller's context.                   *)
Unblock(p) == /\ pc[p] = "blocked"
              /\ Len(queue) < Capacity
              /\ Goto(p, "retry")
              /\ UNCHANGED <<strategy, queue, calls, outcome, workerVars, closeVars,
                             sinkVars, counters>>

Interrupt(p) == /\ pc[p] = "blocked"
                /\ closed
                /\ Answer(p, "closed")
                /\ UNCHANGED <<strategy, queue, calls, workerVars, closeVars, sinkVars,
                               counters>>

Cancel(p) == /\ pc[p] \in {"begin", "blocked"}
             /\ Answer(p, "cancelled")
             /\ UNCHANGED <<strategy, queue, calls, workerVars, closeVars, sinkVars,
                            counters>>

(* sync-fallback: the caller writes the event itself, past the queue.      *)
WriteSync(p) == /\ pc[p] = "sync"
                /\ Hand(Event(p))
                /\ Answer(p, "synced")
                /\ UNCHANGED <<strategy, queue, calls, workerVars, closeVars,
                               sinkClosed, misfed, counters>>

-----------------------------------------------------------------------------
(* The worker.  PopBatch takes from the published prefix; it may miss an   *)
(* element published while it was scanning.                                *)
Published(n) == n <= Len(queue) /\ \A i \in 1..n : queue[i].ready

(* Mutant: the gating sequence stays one behind.                           *)
PopBatchOffByOne(limit) ==
    \E n \in 1..limit :
        /\ Published(n)
        /\ batch' = batch \o [i \in 1..n |-> queue[i].event]
        /\ queue' = SubSeq(queue, n, Len(queue))

PopBatch(limit) ==
    \E n \in 1..limit :
        /\ Published(n)
        /\ batch' = batch \o [i \in 1..n |-> queue[i].event]
        /\ queue' = SubSeq(queue, n + 1, Len(queue))

WorkerGoto(state) == worker' = state

WorkerPop == /\ worker = "pop"
             /\ PopBatch(BatchSize)
             /\ WorkerGoto("flush")
             /\ UNCHANGED <<strategy, callerVars, joined, closeVars, sinkVars, counters>>

(* Nothing to pop and nothing readable.                                    *)
WorkerPark == /\ worker = "pop"
              /\ ~Published(1)
              /\ WorkerGoto("parked")
              /\ UNCHANGED <<strategy, queue, callerVars, batch, joined, closeVars,
                             sinkVars, counters>>

(* Mutant: publications do not wake the worker, Close does.                *)
WorkerWakeWhenClosed == /\ worker = "parked"
                        /\ Published(1)
                        /\ closed
                        /\ WorkerGoto("pop")
                        /\ UNCHANGED <<strategy, queue, callerVars, batch, joined,
                                       closeVars, sinkVars, counters>>

(* The select of WaitReadable may take either arm when both are there.     *)
WorkerWake == /\ worker = "parked"
              /\ Published(1)
              /\ WorkerGoto("pop")
              /\ UNCHANGED <<strategy, queue, callerVars, batch, joined, closeVars,
                             sinkVars, counters>>

WorkerDone == /\ worker = "parked"
              /\ done
              /\ WorkerGoto("drain")
              /\ UNCHANGED <<strategy, queue, callerVars, batch, joined, closeVars,
                             sinkVars, counters>>

(* flushBatch: one event; a failure is reported and remembered.            *)
Flushing == worker \in {"flush", "drain-flush", "final-flush"}

WorkerHand == /\ Flushing
              /\ batch # <<>>
              /\ Hand(Head(batch))
              /\ batch' = Tail(batch)
              /\ IF sinkClosed \/ Head(batch) \in FailingEvents
                 THEN misfed' = misfed \cup {Head(batch)} /\ joined' = TRUE
                 ELSE UNCHANGED <<misfed, joined>>
              /\ UNCHANGED <<strategy, queue, callerVars, worker, closeVars, sinkClosed,
                             counters>>

WorkerFlushed == /\ Flushing
                 /\ batch = <<>>
                 /\ failed' = IF joined THEN failed + 1 ELSE failed
                 /\ joined' = FALSE
                 /\ WorkerGoto(CASE worker = "flush" -> "pop"
                                 [] worker = "drain-flush" -> "drain"
                                 [] worker = "final-flush" -> "stopped")
                 /\ UNCHANGED <<strategy, queue, callerVars, batch, closeVars, sinkVars,
                                dropped>>

(* drain: pop until nothing is published, flushing every full batch; what  *)
(* is left in the batch is flushed at the end.                             *)
WorkerDrain == /\ worker = "drain"
               /\ PopBatch(BatchSize - Len(batch))
               /\ WorkerGoto(IF Len(batch') >= BatchSize THEN "drain-flush" ELSE "drain")
               /\ UNCHANGED <<strategy, callerVars, joined, closeVars, sinkVars, counters>>

(* Mutant: run returns without flushing what drain left in the batch.      *)
WorkerDrainedUnflushed == /\ worker = "drain"
                          /\ ~Published(1)
                          /\ WorkerGoto("stopped")
                          /\ UNCHANGED <<strategy, queue, callerVars, batch, joined,
                                         closeVars, sinkVars, counters>>

WorkerDrained == /\ worker = "drain"
                 /\ ~Published(1)
                 /\ WorkerGoto("final-flush")
                 /\ UNCHANGED <<strategy, queue, callerVars, batch, joined, closeVars,
                                sinkVars, counters>>

-----------------------------------------------------------------------------
(* Close.                                                                  *)
CloserGoto(c, state) == closer' = [closer EXCEPT ![c] = state]

CloseBegin(c) == /\ closer[c] = "idle"
                 /\ ~closed
                 /\ closed' = TRUE
                 /\ CloserGoto(c, "producers")
                 /\ UNCHANGED <<strategy, queue, callerVars, workerVars, done, sinkVars,
                                counters>>

(* The second Close call returns nil at once.                              *)
CloseAgain(c) == /\ closer[c] = "idle"
                 /\ closed
                 /\ CloserGoto(c, "returned")
                 /\ UNCHANGED <<strategy, queue, callerVars, workerVars, done, closed,
                                sinkVars, counters>>

(* Mutant: Close does not wait for the producers.                          *)
CloseAtOnce(c) == /\ closer[c] = "producers"
                  /\ done' = TRUE
                  /\ CloserGoto(c, "workers")
                  /\ UNCHANGED <<strategy, queue, callerVars, workerVars, closed,
                                 sinkVars, counters>>

CloseProducers(c) == /\ closer[c] = "producers"
                     /\ \A p \in Callers : ~InFlight(p)
                     /\ done' = TRUE
                     /\ CloserGoto(c, "workers")
                     /\ UNCHANGED <<strategy, queue, callerVars, workerVars, closed,
                                    sinkVars, counters>>

CloseWorkers(c) == /\ closer[c] = "workers"
                   /\ worker = "stopped"
                   /\ sinkClosed' = CloseAppenders
                   /\ CloserGoto(c, "drained")
                   /\ UNCHANGED <<strategy, queue, callerVars, workerVars, done, closed,
                                  handed, misfed, counters>>

-----------------------------------------------------------------------------
(* All calls made and answered; the worker stopped or waiting for more.    *)
Finished == /\ \A p \in Callers : pc[p] = "idle" /\ calls[p] = MaxPerCaller
            /\ \A c \in Closers : closer[c] \in {"returned", "drained"}
            /\ worker \in {"stopped", "parked"}
            /\ (closed => worker = "stopped") /\ queue = <<>>
            /\ UNCHANGED vars

AppendRuns(p) == \/ Begin(p) \/ Refuse(p) \/ CheckClosing(p) \/ TryPublish(p)
                 \/ Publish(p) \/ MeetFull(p) \/ Drop(p) \/ BlockAgain(p)
                 \/ Unblock(p) \/ Interrupt(p) \/ WriteSync(p)

WorkerRuns == \/ WorkerPop \/ WorkerPark \/ WorkerWake \/ WorkerDone
              \/ WorkerHand \/ WorkerFlushed \/ WorkerDrain \/ WorkerDrained

CloseRuns(c) == CloseProducers(c) \/ CloseWorkers(c)

Next == \/ \E p \in Callers : Call(p) \/ AppendRuns(p) \/ Cancel(p)
        \/ WorkerRuns
        \/ \E c \in Closers : CloseBegin(c) \/ CloseAgain(c) \/ CloseRuns(c)
        \/ Finished

(* Runnable goroutines run, and a sink call returns.  Whether anybody      *)
(* calls Append or Close, or cancels a context, is not promised.  That a   *)
(* caller waiting for room is woken when there is room is what             *)
(* DisruptorRing shows.                                                    *)
Fairness == /\ \A p \in Callers : WF_vars(AppendRuns(p))
            /\ WF_vars(WorkerRuns)
            /\ \A c \in Closers : WF_vars(CloseRuns(c))

Spec == Init /\ [][Next]_vars
FairSpec == Spec /\ Fairness

-----------------------------------------------------------------------------
TimesHanded(e) == Cardinality({i \in DOMAIN handed : handed[i] = e})

(* Close drains: once the Close call that does the work is past the        *)
(* worker, each event whose Append said nil without dropping it was handed *)
(* to the sinks exactly once, whatever was queued, blocked or in a half    *)
(* filled batch when Close began.                                          *)
CloseDrains ==
    (\E c \in Closers : closer[c] = "drained") =>
        \A e \in Events : outcome[e] \in {"accepted", "synced"} => TimesHanded(e) = 1

(* Every event is accounted for.  The sinks see no event twice, and none   *)
(* that Append refused, dropped or gave up, although the caller had already*)
(* tried the ring one or two times.  Dropped counts every event that an    *)
(* Append answered nil for and that the sinks will never see, of the       *)
(* levels and strategies that may drop only; Failed, which counts batches, *)
(* is not 0 once an event failed and the worker is done with its batch,    *)
(* and is not more than the events that failed.                            *)
EveryEventAccounted ==
    /\ \A e \in Events :
          /\ TimesHanded(e) <= 1
          /\ outcome[e] \in {"dropped", "closed", "cancelled"} => TimesHanded(e) = 0
          /\ outcome[e] = "dropped" =>
               \/ strategy = "drop"
               \/ strategy = "drop-debug" /\ e \in DebugEvents
    /\ dropped = Cardinality({e \in Events : outcome[e] = "dropped"})
    /\ failed <= Cardinality(misfed)
    /\ ~Flushing /\ misfed # {} => failed > 0

(* While the queue is the only way to the sinks they see the events of one *)
(* caller in the order it logged them, also across a drop-debug event that *)
(* had to block.                                                           *)
CallerOrder ==
    strategy # "sync-fallback" =>
        \A i, j \in DOMAIN handed :
            i < j /\ handed[i][1] = handed[j][1] => handed[i][2] < handed[j][2]

(* A delegate is closed only after its last event: neither the worker nor  *)
(* a caller on the sync-fallback path writes to a closed delegate.         *)
NoWriteAfterClose == [][sinkClosed => UNCHANGED handed]_vars

(* The calls of a behaviour are finitely many, so that "again and again"   *)
(* below says that each of them ends.                                      *)

(* Close returns, also when callers are blocked on the full queue, and     *)
(* Append answers: a blocked caller gets room, or is told about Close.     *)
CallsReturn ==
    /\ []<>(\A c \in Closers : closer[c] \notin {"producers", "workers"})
    /\ []<>(\A p \in Callers : pc[p] = "idle")

(* An accepted event reaches the sinks even if nobody ever calls Close.    *)
AcceptedIsHanded ==
    []<>(\A e \in Events : outcome[e] = "accepted" => TimesHanded(e) > 0)
=============================================================================
