--------------------------- MODULE RingConsumers ---------------------------
(***************************************************************************)
(* Who waits on the ring: BatchEventProcessor (Run, Halt and its drain)    *)
(* and SequenceBarrier (WaitFor, Alert, ClearAlert), over the steps of     *)
(* DisruptorRing.  One goroutine consumes, either as a processor or as a   *)
(* loop of WaitFor and PopBatch; the wait strategy either parks or polls.  *)
(***************************************************************************)
EXTENDS DisruptorRing

CONSTANTS
    MaxAlerts,  \* bound: calls of Alert
    MaxOffered  \* bound: elements offered in all where the consumer is
                \* halted or waits at a barrier (one more where it polls)

VARIABLES
    client,      \* "processor" or "barrier": how the consumer waits
    polling,     \* the strategy looks again by itself
    halted,      \* the halted channel is closed
    mode,        \* "running", "draining"; "returned" from Run or WaitFor;
                 \* "failed": Run returned its context's error
    alerted,     \* SequenceBarrier.alerted
    generation,  \* number of the barrier's alert channel
    held,        \* the channel WaitFor took
    at,          \* where WaitFor is
    mark         \* history: last sequence published without a gap at Halt

processorVars == <<halted, mode, mark>>
alertVars     == <<alerted, generation>>
waitVars      == <<held, at>>
choiceVars    == <<client, polling>>
consumersVars == <<vars, choiceVars, processorVars, alertVars, waitVars>>

ConsumersInit == /\ Init
                 /\ client \in {"processor", "barrier"}
                 /\ polling \in BOOLEAN
                 /\ client = "barrier" => ~polling
                 /\ halted = FALSE /\ mode = "running" /\ mark = -1
                 /\ alerted = FALSE /\ generation = 0
                 /\ held = -1 /\ at = "check"

Processor == client = "processor"
Barrier == client = "barrier"

Offered == {item \in Items : item[2] <= sent[item[1]]}
Few(items) ==
    /\ Barrier \/ halted => Cardinality(items) <= MaxOffered
    /\ polling => Cardinality(items) <= MaxOffered + 1

-----------------------------------------------------------------------------
(* Run: PopBatchEvents until it finds nothing, then wait.                  *)
RunPops == /\ mode \in {"running", "draining"}
           /\ Pop
           /\ UNCHANGED <<choiceVars, processorVars, alertVars, waitVars>>

RunWaits == /\ Processor /\ mode = "running"
            /\ AwaitReadable
            /\ UNCHANGED <<choiceVars, processorVars, alertVars, waitVars>>

(* Mutant: Run returns when it is interrupted.                             *)
RunInterruptedNoDrain == /\ Processor /\ mode = "running"
                         /\ halted /\ cpc = "parked"
                         /\ mode' = "returned"
                         /\ UNCHANGED <<vars, choiceVars, halted, mark, alertVars, waitVars>>

(* The wait returns ErrInterrupted, also beside a token: select chooses.   *)
RunInterrupted == /\ Processor /\ mode = "running"
                  /\ halted /\ cpc = "parked"
                  /\ PopUnready
                  /\ mode' = "draining"
                  /\ UNCHANGED <<choiceVars, halted, mark, alertVars, waitVars>>

(* The wait returns the context's error, which may come at any time, also  *)
(* when halted is closed: select chooses.  Run passes it on, and does not  *)
(* drain.                                                                  *)
RunCancelled == /\ Processor /\ mode = "running"
                /\ cpc = "parked"
                /\ mode' = "failed"
                /\ UNCHANGED <<vars, choiceVars, halted, mark, alertVars, waitVars>>

(* drain ends with the first PopBatchEvents that finds nothing.            *)
RunReturns == /\ Processor /\ mode = "draining"
              /\ cpc = "ready"
              /\ mode' = "returned"
              /\ UNCHANGED <<vars, choiceVars, halted, mark, alertVars, waitVars>>

(* Run may be called again, with another context; halted stays closed.     *)
RunAgain == /\ Processor /\ mode \in {"returned", "failed"}
            /\ PopUnready
            /\ mode' = "running"
            /\ UNCHANGED <<choiceVars, halted, mark, alertVars, waitVars>>

(* HighestPublished: the scan from a sequence to the first gap, or cursor. *)
HighestPublished(lower) ==
    CHOOSE s \in (lower - 1)..cursor :
        /\ \A i \in lower..s : Available(i)
        /\ s = cursor \/ ~Available(s + 1)

Halt == /\ Processor /\ ~halted
        /\ Cardinality(Offered) <= MaxOffered
        /\ halted' = TRUE
        /\ mark' = HighestPublished(Oldest)
        /\ UNCHANGED <<vars, choiceVars, mode, alertVars, waitVars>>

-----------------------------------------------------------------------------
(* WaitFor(gating + 1): alerted?  published?  take the alert channel; then *)
(* the strategy's loop, whose ready function asks both again.  That        *)
(* HighestPublished reaches a sequence is that the sequence is available.  *)
WaitChecks == /\ Barrier /\ mode = "running" /\ cpc = "ready" /\ at = "check"
              /\ mode' = IF alerted THEN "returned" ELSE mode
              /\ at' = IF alerted THEN at ELSE "look"
              /\ UNCHANGED <<vars, choiceVars, halted, mark, alertVars, held>>

WaitLooks == /\ Barrier /\ mode = "running" /\ cpc = "ready" /\ at = "look"
             /\ IF Available(gating + 1)
                THEN PopUnready /\ at' = "check"
                ELSE UNCHANGED vars /\ at' = "hold"
             /\ UNCHANGED <<choiceVars, processorVars, alertVars, held>>

WaitHolds == /\ Barrier /\ mode = "running" /\ cpc = "ready" /\ at = "hold"
             /\ held' = generation
             /\ at' = "wait"
             /\ UNCHANGED <<vars, choiceVars, processorVars, alertVars>>

WaitReady == /\ Barrier /\ mode = "running" /\ cpc = "ready" /\ at = "wait"
             /\ IF alerted \/ Available(gating + 1)
                THEN UNCHANGED vars /\ at' = "check"
                ELSE HasReadable /\ UNCHANGED at
             /\ UNCHANGED <<choiceVars, processorVars, alertVars, held>>

WaitToken == /\ Barrier /\ mode = "running" /\ at = "wait"
             /\ WakeReader
             /\ UNCHANGED <<choiceVars, processorVars, alertVars, waitVars>>

(* Alert closed the channel, ClearAlert left it for a new one: WaitFor     *)
(* returns, with ErrAlerted or, when the alert was cleared, ErrInterrupted.*)
ChannelClosed(g) == g < generation \/ (g = generation /\ alerted)

WaitInterrupted == /\ Barrier /\ mode = "running" /\ at = "wait" /\ cpc = "parked"
                   /\ ChannelClosed(held)
                   /\ mode' = "returned"
                   /\ UNCHANGED <<vars, choiceVars, halted, mark, alertVars, waitVars>>

(* Or its context ends, at any time.                                       *)
WaitCancelled == /\ Barrier /\ mode = "running" /\ at = "wait" /\ cpc = "parked"
                 /\ mode' = "returned"
                 /\ UNCHANGED <<vars, choiceVars, halted, mark, alertVars, waitVars>>

(* The caller calls PopBatch or WaitFor again.                             *)
WaitAgain == /\ Barrier /\ mode = "returned"
             /\ mode' = "running"
             /\ at' = "check"
             /\ PopUnready
             /\ UNCHANGED <<choiceVars, halted, mark, alertVars, held>>

Alert == /\ Barrier /\ ~alerted /\ generation < MaxAlerts
         /\ alerted' = TRUE
         /\ UNCHANGED <<vars, choiceVars, processorVars, generation, waitVars>>

(* Mutant: the flag is cleared and the channel kept.                       *)
ClearFlagOnly == /\ alerted
                 /\ alerted' = FALSE
                 /\ UNCHANGED <<vars, choiceVars, processorVars, generation, waitVars>>

ClearAlert == /\ alerted
              /\ alerted' = FALSE
              /\ generation' = generation + 1
              /\ UNCHANGED <<vars, choiceVars, processorVars, waitVars>>

-----------------------------------------------------------------------------
ProducerSteps(p) == /\ ProducerRuns(p)
                    /\ UNCHANGED <<choiceVars, processorVars, alertVars, waitVars>>

CallerSteps(p) == /\ CallerChooses(p)
                  /\ Few(Offered')
                  /\ UNCHANGED <<choiceVars, processorVars, alertVars, waitVars>>

Polls == /\ polling /\ mode = "running"
         /\ Poll
         /\ UNCHANGED <<choiceVars, processorVars, alertVars, waitVars>>

Runs == RunPops \/ RunWaits \/ RunInterrupted \/ RunReturns

Waits == WaitChecks \/ WaitLooks \/ WaitHolds \/ WaitReady \/ WaitToken \/ WaitInterrupted

Settled == /\ Quiescent
           /\ UNCHANGED <<choiceVars, processorVars, alertVars, waitVars>>

ConsumersNext == \/ \E p \in Producers : ProducerSteps(p) \/ CallerSteps(p)
                 \/ Runs \/ RunCancelled \/ RunAgain \/ Halt
                 \/ Waits \/ WaitCancelled \/ WaitAgain \/ Alert \/ ClearAlert
                 \/ Polls \/ Settled

(* The Go scheduler runs every runnable goroutine.  Nothing obliges a      *)
(* caller to bring an element, to be cancelled, to halt or to alert; one   *)
(* that was told "full" does decide what to do next, and one whose Run or  *)
(* WaitFor has returned calls again only if it likes.  A select between a  *)
(* timer and the interrupt does not choose the timer for ever.             *)
Decides(p) == /\ GiveUp(p) \/ WaitWritable(p)
              /\ UNCHANGED <<choiceVars, processorVars, alertVars, waitVars>>

ConsumersSpec == /\ ConsumersInit /\ [][ConsumersNext]_consumersVars
                 /\ \A p \in Producers : /\ WF_consumersVars(ProducerSteps(p))
                                         /\ WF_consumersVars(Decides(p))
                 /\ WF_consumersVars(Runs \/ Waits)
                 /\ SF_consumersVars(RunInterrupted)

-----------------------------------------------------------------------------
(* The loop of TryPublish and WaitWritable ends while somebody consumes:   *)
(* with one token for a whole batch of freed slots every producer gets its *)
(* turn, parked or polling.  Halt makes Run return, and an Alert ends the  *)
(* wait of a WaitFor that holds its channel, also when ClearAlert follows  *)
(* before it wakes.                                                        *)
Over == mode \in {"returned", "failed"}

WaitsEnd ==
    /\ []<>(Over \/ \A p \in Producers : pc[p] = "idle")
    /\ Processor /\ halted ~> Over
    /\ at = "wait" /\ ChannelClosed(held) ~> mode = "returned" \/ at = "check"

(* Halt: "Run drains the queue before it returns".  A Run that returns     *)
(* without an error after Halt has handled at least what had been          *)
(* published when Halt was called, up to the first element claimed and not *)
(* yet published, although the wait may be interrupted with a token in the *)
(* channel, and although an earlier Run left all of that behind: the one   *)
(* exception to the comment is a Run whose context ends, which returns the *)
(* context's error and drains nothing, before Halt or after it; what it    *)
(* leaves is owed by the next Run.                                         *)
HaltDrains == Processor /\ mode = "returned" => Len(delivered) > mark
=============================================================================
