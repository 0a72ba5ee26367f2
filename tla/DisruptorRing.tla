--------------------------- MODULE DisruptorRing ---------------------------
(***************************************************************************)
(* internal/disruptor: RingBuffer and its wait strategies, one action per  *)
(* atomic operation.  Many producers call TryPublish and WaitWritable, one *)
(* consumer calls PopBatch and WaitReadable; readable and writable are the *)
(* two channels of capacity one through which signalOnce wakes a sleeper.  *)
(*                                                                         *)
(* order and delivered are history: the items in order of their claimed    *)
(* sequence, and the items PopBatch has copied out of the slots.           *)
(***************************************************************************)
EXTENDS Integers, Sequences, FiniteSets

CONSTANTS
    Producers,       \* goroutines that publish
    Capacity,        \* slots of the ring (NormalizeCapacity: a power of two)
    BatchSize,       \* the largest "max" a PopBatch call is given
    MaxPerProducer,  \* bound: elements one producer tries to publish
    NoItem,          \* the zero value of a slot
    Parking          \* TRUE: blockingWaitStrategy without timeout, a waiter
                     \* sleeps until a token or an interrupt arrives; FALSE:
                     \* the sleeping, yielding, spinning and timed strategies,
                     \* which may look at the condition again by themselves

ASSUME CapacityAssumption == Capacity \in Nat \ {0}
ASSUME BatchAssumption    == BatchSize \in Nat \ {0}
ASSUME BoundAssumption    == MaxPerProducer \in Nat
ASSUME ParkingAssumption  == Parking \in BOOLEAN

Items == Producers \X (1..MaxPerProducer)

ASSUME NoItemAssumption == NoItem \notin Items

Slots == 0..(Capacity - 1)

(* next & mask                                                             *)
SlotOf(sequence) == sequence % Capacity

VARIABLES
    cursor,     \* last claimed sequence
    gating,     \* last sequence the consumer gave back
    published,  \* slot -> sequence whose element it holds (or next - capacity)
    value,      \* slot -> element
    readable,   \* a token is in the readable channel
    writable,   \* a token is in the writable channel
    pc,         \* producer -> where it is
    seen,       \* producer -> cursor it loaded; the claimed sequence after CAS
    sent,       \* producer -> number of the element it is publishing
    cpc,        \* where the consumer is
    next,       \* PopBatch: sequence it looks at
    room,       \* PopBatch: elements the batch still has room for
    order,      \* history: items by claimed sequence
    delivered   \* history: items copied into a batch

ringVars     == <<cursor, gating, published, value>>
channelVars  == <<readable, writable>>
producerVars == <<pc, seen, sent>>
consumerVars == <<cpc, next, room>>
vars == <<ringVars, channelVars, producerVars, consumerVars, order, delivered>>

ProducerStates == {"idle", "load", "gate", "cas", "write", "publish", "signal",
                   "full", "wcursor", "wgating", "parked"}
ConsumerStates == {"start", "scan", "read", "release", "commit", "signal",
                   "ready", "parked"}

Item(p) == <<p, sent[p]>>

-----------------------------------------------------------------------------
(* NewRingBuffer: slot i says it holds i - capacity, which nobody waits for. *)
Init == /\ cursor = -1
        /\ gating = -1
        /\ published = [i \in Slots |-> i - Capacity]
        /\ value = [i \in Slots |-> NoItem]
        /\ readable = FALSE
        /\ writable = FALSE
        /\ pc = [p \in Producers |-> "idle"]
        /\ seen = [p \in Producers |-> -1]
        /\ sent = [p \in Producers |-> 0]
        /\ cpc = "start"
        /\ next = 0
        /\ room = BatchSize
        /\ order = <<>>
        /\ delivered = <<>>

Goto(p, state) == pc' = [pc EXCEPT ![p] = state]

-----------------------------------------------------------------------------
(* TryPublish.  A caller brings its next element.                          *)
Offer(p) == /\ pc[p] = "idle"
            /\ sent[p] < MaxPerProducer
            /\ sent' = [sent EXCEPT ![p] = sent[p] + 1]
            /\ Goto(p, "load")
            /\ UNCHANGED <<ringVars, channelVars, seen, consumerVars, order, delivered>>

LoadCursor(p) == /\ pc[p] = "load"
                 /\ seen' = [seen EXCEPT ![p] = cursor]
                 /\ Goto(p, "gate")
                 /\ UNCHANGED <<ringVars, channelVars, sent, consumerVars, order, delivered>>

(* Mutants: the ring one slot too large, and one too small.                *)
WouldWrapLate(sequence) == sequence - Capacity > gating + 1
WouldWrapEarly(sequence) == sequence - Capacity >= gating

(* The gating sequence is loaded after the cursor: both may have moved.    *)
WouldWrap(sequence) == sequence - Capacity > gating

CheckGating(p) == /\ pc[p] = "gate"
                  /\ Goto(p, IF WouldWrap(seen[p] + 1) THEN "full" ELSE "cas")
                  /\ UNCHANGED <<ringVars, channelVars, seen, sent, consumerVars,
                                 order, delivered>>

(* Mutant: the cursor is stored, not compared and swapped.                 *)
ClaimBlindly(p) == /\ pc[p] = "cas"
                   /\ cursor' = seen[p] + 1
                   /\ seen' = [seen EXCEPT ![p] = seen[p] + 1]
                   /\ order' = Append(order, Item(p))
                   /\ Goto(p, "write")
                   /\ UNCHANGED <<gating, published, value, channelVars, sent,
                                  consumerVars, delivered>>

Claim(p) == /\ pc[p] = "cas"
            /\ cursor = seen[p]
            /\ cursor' = seen[p] + 1
            /\ seen' = [seen EXCEPT ![p] = seen[p] + 1]
            /\ order' = Append(order, Item(p))
            /\ Goto(p, "write")
            /\ UNCHANGED <<gating, published, value, channelVars, sent,
                           consumerVars, delivered>>

ClaimLost(p) == /\ pc[p] = "cas"
                /\ cursor # seen[p]
                /\ Goto(p, "load")
                /\ UNCHANGED <<ringVars, channelVars, seen, sent, consumerVars,
                               order, delivered>>

WriteValue(p) == /\ pc[p] = "write"
                 /\ value' = [value EXCEPT ![SlotOf(seen[p])] = Item(p)]
                 /\ Goto(p, "publish")
                 /\ UNCHANGED <<cursor, gating, published, channelVars, seen, sent,
                                consumerVars, order, delivered>>

Publish(p) == /\ pc[p] = "publish"
              /\ published' = [published EXCEPT ![SlotOf(seen[p])] = seen[p]]
              /\ Goto(p, "signal")
              /\ UNCHANGED <<cursor, gating, value, channelVars, seen, sent,
                             consumerVars, order, delivered>>

(* Mutant: publish without waking the consumer.                            *)
PublishSilently(p) == /\ pc[p] = "signal"
                      /\ Goto(p, "idle")
                      /\ UNCHANGED <<ringVars, channelVars, seen, sent, consumerVars,
                                     order, delivered>>

(* signalOnce: the send is dropped when the channel already holds a token. *)
SignalReadable(p) == /\ pc[p] = "signal"
                     /\ readable' = TRUE
                     /\ Goto(p, "idle")
                     /\ UNCHANGED <<ringVars, writable, seen, sent, consumerVars,
                                    order, delivered>>

-----------------------------------------------------------------------------
(* TryPublish said false: the caller gives the element up, or waits.       *)
GiveUp(p) == /\ pc[p] = "full"
             /\ Goto(p, "idle")
             /\ UNCHANGED <<ringVars, channelVars, seen, sent, consumerVars,
                            order, delivered>>

WaitWritable(p) == /\ pc[p] = "full"
                   /\ Goto(p, "wcursor")
                   /\ UNCHANGED <<ringVars, channelVars, seen, sent, consumerVars,
                                  order, delivered>>

(* HasCapacity, the ready function of the wait, in its two loads.          *)
HasCapacityLoad(p) == /\ pc[p] = "wcursor"
                      /\ seen' = [seen EXCEPT ![p] = cursor]
                      /\ Goto(p, "wgating")
                      /\ UNCHANGED <<ringVars, channelVars, sent, consumerVars,
                                     order, delivered>>

HasCapacityCheck(p) == /\ pc[p] = "wgating"
                       /\ Goto(p, IF WouldWrap(seen[p] + 1) THEN "parked" ELSE "load")
                       /\ UNCHANGED <<ringVars, channelVars, seen, sent, consumerVars,
                                      order, delivered>>

(* The arms of the select: a token, the interrupt channel or the context,  *)
(* and for the strategies that do not park, another look.                  *)
WakeWriter(p) == /\ pc[p] = "parked"
                 /\ writable
                 /\ writable' = FALSE
                 /\ Goto(p, "wcursor")
                 /\ UNCHANGED <<ringVars, readable, seen, sent, consumerVars,
                                order, delivered>>

InterruptWriter(p) == /\ pc[p] = "parked"
                      /\ Goto(p, "idle")
                      /\ UNCHANGED <<ringVars, channelVars, seen, sent, consumerVars,
                                     order, delivered>>

PollWriter(p) == /\ ~Parking
                 /\ pc[p] = "parked"
                 /\ Goto(p, "wcursor")
                 /\ UNCHANGED <<ringVars, channelVars, seen, sent, consumerVars,
                                order, delivered>>

-----------------------------------------------------------------------------
(* PopBatch.  limit is max - len(batch): the caller may bring a batch that *)
(* is partly filled.                                                       *)
PopStart(limit) == /\ cpc = "start"
                   /\ next' = gating + 1
                   /\ room' = limit
                   /\ cpc' = "scan"
                   /\ UNCHANGED <<ringVars, channelVars, producerVars, order, delivered>>

(* Mutant: a claimed sequence is taken for a published one.                *)
ClaimedIsAvailable(sequence) == sequence <= cursor

Available(sequence) == published[SlotOf(sequence)] = sequence

PopScan == /\ cpc = "scan"
           /\ cpc' = IF room > 0 /\ Available(next) THEN "read"
                     ELSE IF next = gating + 1 THEN "ready" ELSE "commit"
           /\ UNCHANGED <<ringVars, channelVars, producerVars, next, room,
                          order, delivered>>

PopRead == /\ cpc = "read"
           /\ delivered' = Append(delivered, value[SlotOf(next)])
           /\ value' = [value EXCEPT ![SlotOf(next)] = NoItem]
           /\ cpc' = "release"
           /\ UNCHANGED <<cursor, gating, published, channelVars, producerVars,
                          next, room, order>>

PopRelease == /\ cpc = "release"
              /\ published' = [published EXCEPT ![SlotOf(next)] = next - Capacity]
              /\ next' = next + 1
              /\ room' = room - 1
              /\ cpc' = "scan"
              /\ UNCHANGED <<cursor, gating, value, channelVars, producerVars,
                             order, delivered>>

(* Mutant: the last slot of a batch is not given back.                     *)
PopCommitShort == /\ cpc = "commit"
                  /\ gating' = next - 2
                  /\ cpc' = "signal"
                  /\ UNCHANGED <<cursor, published, value, channelVars, producerVars,
                                 next, room, order, delivered>>

PopCommit == /\ cpc = "commit"
             /\ gating' = next - 1
             /\ cpc' = "signal"
             /\ UNCHANGED <<cursor, published, value, channelVars, producerVars,
                            next, room, order, delivered>>

(* Mutant: batches are given back without waking a producer.               *)
CommitSilently == /\ cpc = "signal"
                  /\ cpc' = "start"
                  /\ UNCHANGED <<ringVars, channelVars, producerVars, next, room,
                                 order, delivered>>

SignalWritable == /\ cpc = "signal"
                  /\ writable' = TRUE
                  /\ cpc' = "start"
                  /\ UNCHANGED <<ringVars, readable, producerVars, next, room,
                                 order, delivered>>

(* WaitReadable with HasReadable; the consumer loads its own gating.       *)
HasReadable == /\ cpc = "ready"
               /\ cpc' = IF Available(gating + 1) THEN "start" ELSE "parked"
               /\ UNCHANGED <<ringVars, channelVars, producerVars, next, room,
                              order, delivered>>

WakeReader == /\ cpc = "parked"
              /\ readable
              /\ readable' = FALSE
              /\ cpc' = "ready"
              /\ UNCHANGED <<ringVars, writable, producerVars, next, room,
                             order, delivered>>

PollReader == /\ ~Parking
              /\ cpc = "parked"
              /\ cpc' = "ready"
              /\ UNCHANGED <<ringVars, channelVars, producerVars, next, room,
                             order, delivered>>

(* The wait was interrupted, or the caller drains and does not wait: it    *)
(* goes on to PopBatch.                                                    *)
PopUnready == /\ cpc \in {"ready", "parked"}
              /\ cpc' = "start"
              /\ UNCHANGED <<ringVars, channelVars, producerVars, next, room,
                             order, delivered>>

-----------------------------------------------------------------------------
(* Everybody has published all it wanted and the consumer sleeps.          *)
Quiescent == /\ \A p \in Producers : pc[p] = "idle" /\ sent[p] = MaxPerProducer
             /\ cpc = "parked"
             /\ ~readable
             /\ UNCHANGED vars

(* Steps of TryPublish and of the wait that the producer takes by itself.  *)
ProducerRuns(p) ==
    \/ LoadCursor(p) \/ CheckGating(p) \/ Claim(p) \/ ClaimLost(p)
    \/ WriteValue(p) \/ Publish(p) \/ SignalReadable(p)
    \/ HasCapacityLoad(p) \/ HasCapacityCheck(p) \/ WakeWriter(p)

(* Choices of the caller and of its context.                               *)
CallerChooses(p) == Offer(p) \/ GiveUp(p) \/ WaitWritable(p) \/ InterruptWriter(p)

Pop == \/ \E limit \in 1..BatchSize : PopStart(limit)
       \/ PopScan \/ PopRead \/ PopRelease \/ PopCommit \/ SignalWritable

AwaitReadable == HasReadable \/ WakeReader

Poll == PollReader \/ \E p \in Producers : PollWriter(p)

Next == \/ \E p \in Producers : ProducerRuns(p) \/ CallerChooses(p)
        \/ Pop \/ AwaitReadable \/ PopUnready \/ Poll
        \/ Quiescent

Spec == Init /\ [][Next]_vars

-----------------------------------------------------------------------------
TypeOK == /\ cursor \in Int /\ gating \in Int
          /\ published \in [Slots -> Int]
          /\ value \in [Slots -> Items \cup {NoItem}]
          /\ readable \in BOOLEAN /\ writable \in BOOLEAN
          /\ pc \in [Producers -> ProducerStates]
          /\ seen \in [Producers -> Int]
          /\ sent \in [Producers -> 0..MaxPerProducer]
          /\ cpc \in ConsumerStates
          /\ next \in Int /\ room \in Int
          /\ order \in Seq(Items)
          /\ delivered \in Seq(Items)

(* What PopBatch copies out of the slots is, element by element, what the  *)
(* producers claimed, in claim order: nothing lost, repeated, torn or      *)
(* zeroed although a slot is reused every Capacity sequences.              *)
DeliveredInOrder ==
    /\ Len(delivered) <= Len(order)
    /\ \A i \in 1..Len(delivered) : delivered[i] = order[i]

(* slot.value is a plain field.  Two goroutines are never both about to    *)
(* touch the one of the same slot.                                         *)
Touches(p, slot) == pc[p] = "write" /\ SlotOf(seen[p]) = slot
ConsumerTouches(slot) == cpc = "read" /\ SlotOf(next) = slot
NoDataRace ==
    \A slot \in Slots, p \in Producers : Touches(p, slot) =>
        /\ ~ConsumerTouches(slot)
        /\ \A q \in Producers \ {p} : ~Touches(q, slot)

(* RemainingCapacity never has to clamp: the cursor is at most Capacity    *)
(* ahead of the gating sequence although TryPublish loads the two apart.   *)
NeverOverrun == gating <= cursor /\ cursor - gating <= Capacity

(* A sleeping consumer is never left behind: when the element it waits for *)
(* is there, a token is in the channel or a producer is about to send one, *)
(* also when a producer that claimed earlier publishes later.              *)
ReaderNotStranded ==
    cpc = "parked" /\ Available(gating + 1) =>
        readable \/ \E p \in Producers : pc[p] = "signal"

(* PopBatch frees many slots and sends one token.  A producer that sleeps  *)
(* beside a free slot is still safe: an element is in the ring, whose      *)
(* consumption sends a token, or one is on its way, or another producer is *)
(* awake and will publish (or park after its own look at the ring).        *)
Awake(p) == pc[p] \in {"load", "gate", "cas", "wcursor", "wgating"}
WriterNotStranded ==
    (\E p \in Producers : pc[p] = "parked") =>
        \/ cursor > gating
        \/ writable \/ cpc = "signal"
        \/ \E p \in Producers : Awake(p)

(* Neither a producer nor the consumer sleeps through the token meant for  *)
(* it (signalOnce drops a second one).                                     *)
NobodyStranded == ReaderNotStranded /\ WriterNotStranded

(* TryPublish says "full" only at a moment at which the ring is full:      *)
(* overflow policies never drop beside a free slot because the cursor was  *)
(* loaded before the gating sequence.                                      *)
FullIsTrue ==
    [][\A p \in Producers : pc[p] = "gate" /\ pc'[p] = "full" =>
          cursor - gating >= Capacity]_vars

(* Why the above hold.  Oldest is the first sequence whose slot PopBatch   *)
(* has not given back.  In the window of Capacity sequences from Oldest,   *)
(* which are in different slots, an unclaimed sequence finds its slot      *)
(* marked by an older one; a claimed one belongs to the one producer that  *)
(* is writing it, or is published with its element.                        *)
Oldest == IF cpc \in {"scan", "read", "release", "commit"} THEN next ELSE gating + 1

Pending(p) == pc[p] \in {"write", "publish"}

SequencesInv ==
    /\ -1 <= gating /\ gating < Oldest /\ Oldest <= cursor + 1
    /\ cursor <= gating + Capacity
    /\ cpc \in {"read", "release"} => next <= cursor /\ Available(next)

ClaimsInv ==
    /\ \A p \in Producers :
          /\ pc[p] = "cas" => seen[p] - Capacity < gating
          /\ Pending(p) => /\ Oldest <= seen[p] /\ seen[p] <= cursor
                          /\ published[SlotOf(seen[p])] < seen[p]
                          /\ order[seen[p] + 1] = Item(p)
          /\ pc[p] = "publish" => value[SlotOf(seen[p])] = Item(p)
          /\ pc[p] # "idle" => sent[p] > 0
    /\ \A p, q \in Producers :
          Pending(p) /\ Pending(q) /\ seen[p] = seen[q] => p = q

WindowInv ==
    /\ \A s \in (cursor + 1)..(Oldest + Capacity - 1) :
          published[SlotOf(s)] < s
    /\ \A s \in Oldest..cursor :
          Available(s) /\ ~(cpc = "release" /\ s = next) =>
              value[SlotOf(s)] = order[s + 1]

HistoryInv ==
    /\ Len(order) = cursor + 1
    /\ Len(delivered) = IF cpc = "release" THEN Oldest + 1 ELSE Oldest
    /\ DeliveredInOrder

RingInvariant == SequencesInv /\ ClaimsInv /\ WindowInv /\ HistoryInv

(* The ring implements the bounded FIFO.                                   *)
Fifo == INSTANCE BoundedFifo WITH accepted <- order, taken <- delivered
ImplementsFifo == Fifo!FifoSpec
=============================================================================
