------------------------ MODULE RingConsumersProofs ------------------------
(***************************************************************************)
(* What is proved of the ring holds of its consumers: processor and        *)
(* barrier take no step the ring's own specification forbids.              *)
(***************************************************************************)
EXTENDS RingConsumers, CountingLemmas

-----------------------------------------------------------------------------
(* The ring, as DisruptorRing specifies it by itself.                      *)

(* Two sequences less than a lap apart share a slot only when equal.       *)
LEMMA SlotInjective ==
    \A s, t \in Int : SlotOf(s) = SlotOf(t) /\ s - t < Capacity /\ t - s < Capacity
                         => s = t
<1> SUFFICES ASSUME NEW s \in Int, NEW t \in Int,
                    SlotOf(s) = SlotOf(t), s - t < Capacity, t - s < Capacity
             PROVE  s = t
    OBVIOUS
<1> DEFINE a == s \div Capacity
           b == t \div Capacity
<1>1. /\ a \in Int /\ b \in Int
      /\ s = Capacity * a + (s % Capacity)
      /\ t = Capacity * b + (t % Capacity)
    BY CapacityAssumption
<1>2. s - t = Capacity * (a - b)
    BY <1>1, CapacityAssumption DEF SlotOf
<1>3. a = b
  <2> HIDE DEF a, b
  <2>1. CASE a > b
    <3>1. a - b \in Nat \ {0}
        BY <1>1, <2>1
    <3>2. Capacity * (a - b) >= Capacity
        BY <3>1, CapacityAssumption
    <3> QED
        BY <1>2, <3>2, CapacityAssumption
  <2>2. CASE b > a
    <3>1. b - a \in Nat \ {0}
        BY <1>1, <2>2
    <3>2. Capacity * (b - a) >= Capacity
        BY <3>1, CapacityAssumption
    <3>3. t - s = Capacity * (b - a)
        BY <1>1, <1>2, CapacityAssumption
    <3> QED
        BY <3>2, <3>3, CapacityAssumption
  <2> QED
      BY <1>1, <2>1, <2>2
<1> QED
    BY <1>2, <1>3, CapacityAssumption

LEMMA ProductBound ==
    \A c \in Nat, k \in Int : /\ k >= 2 => c * k >= 2 * c
                            /\ k <= 0 => c * k <= 0
<1> SUFFICES ASSUME NEW c \in Nat, NEW k \in Int
             PROVE  (k >= 2 => c * k >= 2 * c) /\ (k <= 0 => c * k <= 0)
    OBVIOUS
<1>1. ASSUME k >= 2 PROVE c * k >= 2 * c
  <2>1. c * k = 2 * c + c * (k - 2) /\ k - 2 \in Nat
      BY <1>1
  <2>2. c * (k - 2) \in Nat
      BY <2>1
  <2> QED
      BY <2>1, <2>2
<1>2. ASSUME k <= 0 PROVE c * k <= 0
  <2>1. c * k = -(c * (0 - k)) /\ 0 - k \in Nat
      BY <1>2
  <2>2. c * (0 - k) \in Nat
      BY <2>1
  <2> QED
      BY <2>1, <2>2
<1> QED
    BY <1>1, <1>2

(* One lap later the same slot is used again.                              *)
LEMMA SlotNextLap == \A s \in Int : SlotOf(s + Capacity) = SlotOf(s)
<1> SUFFICES ASSUME NEW s \in Int PROVE SlotOf(s + Capacity) = SlotOf(s)
    OBVIOUS
<1> DEFINE t == s + Capacity
           a == t \div Capacity
           b == s \div Capacity
           d == SlotOf(t) - SlotOf(s)
<1>1. /\ a \in Int /\ b \in Int /\ t \in Int
      /\ t = Capacity * a + (t % Capacity) /\ t % Capacity \in 0..(Capacity - 1)
      /\ s = Capacity * b + (s % Capacity) /\ s % Capacity \in 0..(Capacity - 1)
    BY CapacityAssumption
<1>2. /\ Capacity = Capacity * (a - b) + d
      /\ d \in Int /\ -Capacity < d /\ d < Capacity
    BY <1>1, CapacityAssumption DEF SlotOf
<1>3. a - b = 1
  <2> DEFINE m == Capacity * (a - b)
  <2>1. \A x, y, c \in Int : c = x + y /\ -c < y /\ y < c => 0 < x /\ x < 2 * c
      OBVIOUS
  <2>2. m \in Int /\ 0 < m /\ m < 2 * Capacity
      BY <1>1, <1>2, <2>1, CapacityAssumption
  <2>3. a - b \in Int /\ (a - b >= 2 => m >= 2 * Capacity) /\ (a - b <= 0 => m <= 0)
      BY <1>1, ProductBound, CapacityAssumption
  <2> HIDE DEF m, a, b
  <2> QED
      BY <2>2, <2>3, CapacityAssumption
<1>4. d = 0
    BY <1>2, <1>3, CapacityAssumption
<1> QED
    BY <1>1, <1>4, CapacityAssumption DEF SlotOf

(* Every sequence the ring uses has a slot.                                *)
LEMMA SlotInRange == \A s \in Int : SlotOf(s) \in Slots
BY CapacityAssumption DEF SlotOf, Slots

-----------------------------------------------------------------------------
(* Type correctness.  What PopBatch reads is an element only because of    *)
(* the ring invariant, so the two are one induction.                       *)
LEMMA TypeInit == Init => TypeOK
<1> SUFFICES ASSUME Init PROVE TypeOK
    OBVIOUS
<1>1. published \in [Slots -> Int]
    BY CapacityAssumption DEF Init, Slots
<1>2. order \in Seq(Items) /\ delivered \in Seq(Items)
    BY DEF Init
<1>3. sent \in [Producers -> 0..MaxPerProducer]
    BY BoundAssumption DEF Init
<1>4. pc \in [Producers -> ProducerStates] /\ cpc \in ConsumerStates
    BY DEF Init, ProducerStates, ConsumerStates
<1>5. value \in [Slots -> Items \cup {NoItem}] /\ seen \in [Producers -> Int]
    BY DEF Init
<1>6. cursor \in Int /\ gating \in Int /\ next \in Int /\ room \in Int
    BY BatchAssumption DEF Init
<1>7. readable \in BOOLEAN /\ writable \in BOOLEAN
    BY DEF Init
<1> QED
    BY <1>1, <1>2, <1>3, <1>4, <1>5, <1>6, <1>7 DEF TypeOK

LEMMA InvInit == Init => RingInvariant
<1> SUFFICES ASSUME Init PROVE RingInvariant
    OBVIOUS
<1>1. Oldest = 0
    BY DEF Init, Oldest
<1>2. SequencesInv /\ ClaimsInv /\ HistoryInv
    BY <1>1, CapacityAssumption
       DEF Init, SequencesInv, ClaimsInv, HistoryInv, DeliveredInOrder, Pending
<1>3. WindowInv
  <2>1. ASSUME NEW s \in 0..(Capacity - 1) PROVE published[SlotOf(s)] < s
      BY CapacityAssumption DEF Init, SlotOf, Slots
  <2>2. cursor = -1 /\ (cursor + 1)..(Oldest + Capacity - 1) = 0..(Capacity - 1)
      BY <1>1, CapacityAssumption DEF Init
  <2>3. Oldest..cursor = {}
      BY <1>1, <2>2
  <2> QED
      BY <2>1, <2>2, <2>3 DEF WindowInv
<1> QED
    BY <1>2, <1>3 DEF RingInvariant

LEMMA TypeStep == TypeOK /\ RingInvariant /\ [Next]_vars => TypeOK'
<1> SUFFICES ASSUME TypeOK, RingInvariant, [Next]_vars
             PROVE  TypeOK'
    OBVIOUS
<1> USE CapacityAssumption, BatchAssumption, BoundAssumption
        DEF TypeOK, ringVars, channelVars, producerVars, consumerVars,
            ProducerStates, ConsumerStates
<1>1. ASSUME NEW p \in Producers, Offer(p) PROVE TypeOK'
    BY <1>1 DEF Offer, Goto
<1>2. ASSUME NEW p \in Producers, LoadCursor(p) PROVE TypeOK'
    BY <1>2 DEF LoadCursor, Goto
<1>3. ASSUME NEW p \in Producers, CheckGating(p) PROVE TypeOK'
    BY <1>3 DEF CheckGating, Goto
<1>4. ASSUME NEW p \in Producers, Claim(p) PROVE TypeOK'
  <2>1. Item(p) \in Items
    <3>1. pc[p] # "idle"
        BY <1>4 DEF Claim
    <3>2. sent[p] > 0
        BY <3>1 DEF RingInvariant, ClaimsInv
    <3>3. sent[p] \in 1..MaxPerProducer
        BY <3>2
    <3> QED
        BY <3>3 DEF Item, Items
  <2>2. order' \in Seq(Items)
      BY <1>4, <2>1 DEF Claim
  <2> QED
      BY <1>4, <2>2 DEF Claim, Goto
<1>5. ASSUME NEW p \in Producers, ClaimLost(p) PROVE TypeOK'
    BY <1>5 DEF ClaimLost, Goto
<1>6. ASSUME NEW p \in Producers, WriteValue(p) PROVE TypeOK'
  <2>1. Item(p) \in Items
    <3>1. pc[p] # "idle"
        BY <1>6 DEF WriteValue
    <3>2. sent[p] > 0
        BY <3>1 DEF RingInvariant, ClaimsInv
    <3>3. sent[p] \in 1..MaxPerProducer
        BY <3>2
    <3> QED
        BY <3>3 DEF Item, Items
  <2>2. value' \in [Slots -> Items \cup {NoItem}]
      BY <1>6, <2>1 DEF WriteValue
  <2> QED
      BY <1>6, <2>2 DEF WriteValue, Goto
<1>7. ASSUME NEW p \in Producers, Publish(p) PROVE TypeOK'
  <2>1. published' \in [Slots -> Int]
      BY <1>7 DEF Publish
  <2> QED
      BY <1>7, <2>1 DEF Publish, Goto
<1>8. ASSUME NEW p \in Producers, SignalReadable(p) PROVE TypeOK'
    BY <1>8 DEF SignalReadable, Goto
<1>9. ASSUME NEW p \in Producers, HasCapacityLoad(p) PROVE TypeOK'
    BY <1>9 DEF HasCapacityLoad, Goto
<1>10. ASSUME NEW p \in Producers, HasCapacityCheck(p) PROVE TypeOK'
    BY <1>10 DEF HasCapacityCheck, Goto
<1>11. ASSUME NEW p \in Producers, WakeWriter(p) PROVE TypeOK'
    BY <1>11 DEF WakeWriter, Goto
<1>12. ASSUME NEW p \in Producers, PollWriter(p) PROVE TypeOK'
    BY <1>12 DEF PollWriter, Goto
<1>13. ASSUME NEW p \in Producers, GiveUp(p) PROVE TypeOK'
    BY <1>13 DEF GiveUp, Goto
<1>14. ASSUME NEW p \in Producers, WaitWritable(p) PROVE TypeOK'
    BY <1>14 DEF WaitWritable, Goto
<1>15. ASSUME NEW p \in Producers, InterruptWriter(p) PROVE TypeOK'
    BY <1>15 DEF InterruptWriter, Goto
<1>16. ASSUME NEW limit \in 1..BatchSize, PopStart(limit) PROVE TypeOK'
    BY <1>16 DEF PopStart
<1>17. ASSUME PopScan PROVE TypeOK'
    BY <1>17 DEF PopScan
<1>18. ASSUME PopRead PROVE TypeOK'
  <2>1. /\ Oldest = next /\ next <= cursor /\ Available(next)
        /\ Len(order) = cursor + 1 /\ next \in Nat
      BY <1>18 DEF PopRead, RingInvariant, SequencesInv, HistoryInv, Oldest
  <2>2. value[SlotOf(next)] = order[next + 1]
    <3>1. next \in Oldest..cursor /\ Available(next) /\ cpc = "read"
      <4>1. cursor \in Int
        OBVIOUS
      <4> HIDE DEF TypeOK
      <4> QED
        BY <1>18, <2>1, <4>1 DEF PopRead
    <3> HIDE DEF TypeOK
    <3> QED
      BY <3>1 DEF RingInvariant, WindowInv
  <2>3. order[next + 1] \in Items
    <3>1. order \in Seq(Items) /\ cursor \in Int
      OBVIOUS
    <3> HIDE DEF TypeOK
    <3> QED
      BY <2>1, <3>1
  <2>4. value' \in [Slots -> Items \cup {NoItem}]
      BY <1>18 DEF PopRead
  <2>5. delivered' \in Seq(Items)
      BY <1>18, <2>2, <2>3 DEF PopRead
  <2> QED
      BY <1>18, <2>4, <2>5 DEF PopRead
<1>19. ASSUME PopRelease PROVE TypeOK'
  <2>1. next - Capacity \in Int
      OBVIOUS
  <2>2. published' = [published EXCEPT ![SlotOf(next)] = next - Capacity]
      BY <1>19 DEF PopRelease
  <2>3. published' \in [Slots -> Int]
      BY <2>1, <2>2
  <2> QED
      BY <1>19, <2>3 DEF PopRelease
<1>20. ASSUME PopCommit PROVE TypeOK'
    BY <1>20 DEF PopCommit
<1>21. ASSUME SignalWritable PROVE TypeOK'
    BY <1>21 DEF SignalWritable
<1>22. ASSUME HasReadable PROVE TypeOK'
    BY <1>22 DEF HasReadable
<1>23. ASSUME WakeReader PROVE TypeOK'
    BY <1>23 DEF WakeReader
<1>24. ASSUME PollReader PROVE TypeOK'
    BY <1>24 DEF PollReader
<1>25. ASSUME UNCHANGED vars PROVE TypeOK'
    BY <1>25 DEF vars
<1>26. ASSUME PopUnready PROVE TypeOK'
    BY <1>26 DEF PopUnready
<1> QED
    BY <1>1, <1>2, <1>3, <1>4, <1>5, <1>6, <1>7, <1>8, <1>9, <1>10, <1>11, <1>12, <1>13, <1>14, <1>15, <1>16, <1>17, <1>18, <1>19, <1>20, <1>21, <1>22, <1>23, <1>24, <1>25, <1>26
       DEF Next, ProducerRuns, CallerChooses, Pop, AwaitReadable, Poll, Quiescent

-----------------------------------------------------------------------------
(* A producer step outside the protected part of TryPublish (between the   *)
(* claim and the publication) leaves the ring invariant alone.             *)
LEMMA ProducerFrame ==
    ASSUME RingInvariant,
           UNCHANGED <<ringVars, consumerVars, order, delivered>>,
           NEW p \in Producers,
           \A q \in Producers \ {p} :
               pc'[q] = pc[q] /\ seen'[q] = seen[q] /\ sent'[q] = sent[q],
           pc'[p] \notin {"write", "publish"},
           pc'[p] = "cas" => seen'[p] - Capacity < gating,
           pc'[p] # "idle" => sent'[p] > 0
    PROVE  RingInvariant'
<1> USE DEF ringVars, consumerVars
<1>1. Oldest' = Oldest
    BY DEF Oldest
<1>2. SequencesInv'
    BY <1>1 DEF RingInvariant, SequencesInv, Available
<1>3. ClaimsInv'
    BY <1>1 DEF RingInvariant, ClaimsInv, Pending, Item
<1>4. WindowInv'
    BY <1>1 DEF RingInvariant, WindowInv, Available
<1>5. HistoryInv'
    BY <1>1 DEF RingInvariant, HistoryInv, DeliveredInOrder
<1> QED
    BY <1>2, <1>3, <1>4, <1>5 DEF RingInvariant

(* So does a consumer step that touches no slot and keeps its place.       *)
LEMMA ConsumerFrame ==
    ASSUME RingInvariant,
           UNCHANGED <<ringVars, producerVars, order, delivered>>,
           Oldest' = Oldest,
           cpc # "release", cpc' # "release",
           cpc' = "read" => next' <= cursor /\ published[SlotOf(next')] = next'
    PROVE  RingInvariant'
<1> USE DEF producerVars, ringVars
<1>2. SequencesInv'
    BY DEF RingInvariant, SequencesInv, Available
<1>3. ClaimsInv'
    BY DEF RingInvariant, ClaimsInv, Pending, Item
<1>4. WindowInv'
    BY DEF RingInvariant, WindowInv, Available
<1>5. HistoryInv'
    BY DEF RingInvariant, HistoryInv, DeliveredInOrder
<1> QED
    BY <1>2, <1>3, <1>4, <1>5 DEF RingInvariant

(* The sequences of the window, seen from a state of the induction.        *)
LEMMA WindowFacts ==
    ASSUME TypeOK, RingInvariant
    PROVE  /\ Oldest \in Nat /\ Capacity \in Nat /\ cursor \in Int /\ gating \in Int
           /\ -1 <= gating /\ gating < Oldest /\ Oldest <= cursor + 1
           /\ cursor <= gating + Capacity
           /\ \A s, t \in Oldest..(Oldest + Capacity - 1) :
                  SlotOf(s) = SlotOf(t) => s = t
<1>1. Oldest \in Int /\ Capacity \in Nat /\ cursor \in Int /\ gating \in Int
    BY CapacityAssumption DEF TypeOK, Oldest
<1>2. /\ -1 <= gating /\ gating < Oldest /\ Oldest <= cursor + 1
      /\ cursor <= gating + Capacity
    BY DEF RingInvariant, SequencesInv
<1>3. ASSUME NEW s \in Oldest..(Oldest + Capacity - 1),
             NEW t \in Oldest..(Oldest + Capacity - 1), SlotOf(s) = SlotOf(t)
      PROVE  s = t
  <2>1. s \in Int /\ t \in Int /\ s - t < Capacity /\ t - s < Capacity
      BY <1>1
  <2> QED
      BY <1>3, <2>1, SlotInjective
<1> QED
    BY <1>1, <1>2, <1>3

-----------------------------------------------------------------------------
(* The steps that touch the ring, one lemma each.                          *)
LEMMA ClaimStep ==
    ASSUME TypeOK, RingInvariant, NEW p \in Producers, Claim(p)
    PROVE  RingInvariant'
<1> DEFINE c == cursor + 1
<1>1. /\ pc[p] = "cas" /\ seen[p] = cursor /\ cursor' = c
      /\ seen' = [seen EXCEPT ![p] = c]
      /\ order' = Append(order, Item(p))
      /\ pc' = [pc EXCEPT ![p] = "write"]
      /\ UNCHANGED <<gating, published, value, sent, cpc, next, room, delivered>>
    BY DEF Claim, Goto, consumerVars
<1>2. Oldest' = Oldest /\ Item(p)' = Item(p)
    BY <1>1 DEF Oldest, Item
<1>3. /\ c \in Int /\ c <= gating + Capacity
      /\ c \in (cursor + 1)..(Oldest + Capacity - 1)
  <2>1. cursor - Capacity < gating
      BY <1>1 DEF RingInvariant, ClaimsInv
  <2> QED
      BY <2>1, WindowFacts
<1>4. published[SlotOf(c)] < c
    BY <1>3 DEF RingInvariant, WindowInv
<1>5. published[SlotOf(c)] \in Int
    BY <1>3, SlotInRange DEF TypeOK
<1>6. /\ order \in Seq(Items) /\ Len(order) = c
      /\ Len(order') = c + 1 /\ order'[c + 1] = Item(p)
      /\ \A i \in 1..c : order'[i] = order[i]
    BY <1>1, <1>3 DEF TypeOK, RingInvariant, HistoryInv
<1>7. SequencesInv'
    BY <1>1, <1>2, <1>3, WindowFacts DEF RingInvariant, SequencesInv, Available, TypeOK
<1>8. ClaimsInv'
  <2>1. ASSUME NEW q \in Producers, q # p, Pending(q)
        PROVE  /\ Oldest <= seen[q] /\ seen[q] <= cursor /\ seen[q] # c
               /\ order'[seen[q] + 1] = order[seen[q] + 1]
               /\ seen[q] <= cursor'
    <3>1. Oldest <= seen[q] /\ seen[q] <= cursor /\ seen[q] \in Int
        BY <2>1 DEF RingInvariant, ClaimsInv, TypeOK
    <3>2. seen[q] + 1 \in 1..c
        BY <3>1, <1>3, WindowFacts
    <3>3. order'[seen[q] + 1] = order[seen[q] + 1]
        BY <1>6, <3>2
    <3>4. seen[q] # c /\ seen[q] <= c
        BY <3>1, WindowFacts
    <3> QED
        BY <1>1, <3>1, <3>3, <3>4
  <2>2. ASSUME NEW q \in Producers
        PROVE  /\ pc'[q] = "cas" => seen'[q] - Capacity < gating
               /\ Pending(q)' => /\ Oldest <= seen'[q] /\ seen'[q] <= cursor'
                                /\ published[SlotOf(seen'[q])] < seen'[q]
                                /\ order'[seen'[q] + 1] = Item(q)
               /\ pc'[q] = "publish" => value[SlotOf(seen'[q])] = Item(q)
               /\ pc'[q] # "idle" => sent[q] > 0
    <3>1. CASE q = p
        BY <1>1, <1>3, <1>4, <1>6, <3>1, WindowFacts DEF TypeOK, RingInvariant, ClaimsInv
    <3>2. CASE q # p
      <4>1. pc'[q] = pc[q] /\ seen'[q] = seen[q]
          BY <1>1, <3>2 DEF TypeOK
      <4> QED
          BY <3>2, <4>1, <2>1 DEF RingInvariant, ClaimsInv, Pending
    <3> QED
        BY <3>1, <3>2
  <2>3. ASSUME NEW q \in Producers, NEW r \in Producers,
               Pending(q)', Pending(r)', seen'[q] = seen'[r]
        PROVE  q = r
    <3>1. \A x \in Producers \ {p} :
              Pending(x)' => Pending(x) /\ seen'[x] = seen[x]
        BY <1>1 DEF TypeOK, Pending
    <3>2. seen'[p] = c
        BY <1>1 DEF TypeOK
    <3> QED
        BY <2>1, <2>3, <3>1, <3>2 DEF RingInvariant, ClaimsInv
  <2>4. \A q \in Producers : Item(q)' = Item(q)
      BY <1>1 DEF Item
  <2> QED
      BY <1>1, <1>2, <2>2, <2>3, <2>4 DEF ClaimsInv
<1>9. WindowInv'
  <2>1. ASSUME NEW s \in (c + 1)..(Oldest + Capacity - 1)
        PROVE  published[SlotOf(s)] < s
      BY <1>3, WindowFacts DEF RingInvariant, WindowInv
  <2>2. ASSUME NEW s \in Oldest..c, Available(s), ~(cpc = "release" /\ s = next)
        PROVE  value[SlotOf(s)] = order'[s + 1]
    <3>1. s # c
        BY <2>2, <1>3, <1>4, <1>5 DEF Available
    <3>2. s \in Oldest..cursor /\ s + 1 \in 1..c
        BY <3>1, <1>3, WindowFacts
    <3> QED
        BY <2>2, <3>2, <1>6 DEF RingInvariant, WindowInv
  <2> QED
      BY <1>1, <1>2, <2>1, <2>2 DEF WindowInv, Available
<1>10. HistoryInv'
  <2>1. Len(delivered) \in Nat /\ Len(delivered) <= Len(order)
      BY DEF RingInvariant, HistoryInv, DeliveredInOrder, TypeOK
  <2>2. \A i \in 1..Len(delivered) : delivered[i] = order'[i]
      BY <1>6, <2>1 DEF RingInvariant, HistoryInv, DeliveredInOrder
  <2>3. Len(delivered) <= Len(order')
      BY <1>6, <1>3, <2>1
  <2> QED
      BY <1>1, <1>2, <1>6, <2>2, <2>3 DEF RingInvariant, HistoryInv, DeliveredInOrder
<1> QED
    BY <1>7, <1>8, <1>9, <1>10 DEF RingInvariant

LEMMA WriteValueStep ==
    ASSUME TypeOK, RingInvariant, NEW p \in Producers, WriteValue(p)
    PROVE  RingInvariant'
<1>1. /\ pc[p] = "write" /\ pc' = [pc EXCEPT ![p] = "publish"]
      /\ value' = [value EXCEPT ![SlotOf(seen[p])] = Item(p)]
      /\ UNCHANGED <<cursor, gating, published, seen, sent, cpc, next, room,
                     order, delivered>>
    BY DEF WriteValue, Goto, consumerVars
<1>2. Oldest' = Oldest /\ \A q \in Producers : Item(q)' = Item(q)
    BY <1>1 DEF Oldest, Item
<1>3. /\ seen[p] \in Oldest..cursor /\ published[SlotOf(seen[p])] < seen[p]
      /\ SlotOf(seen[p]) \in Slots
  <2>1. Pending(p)
      BY <1>1 DEF Pending
  <2> QED
      BY <2>1, WindowFacts, SlotInRange DEF RingInvariant, ClaimsInv, TypeOK
<1>4. value'[SlotOf(seen[p])] = Item(p)
    BY <1>1, <1>3 DEF TypeOK
<1>5. ASSUME NEW s \in Oldest..cursor, s # seen[p]
      PROVE  value'[SlotOf(s)] = value[SlotOf(s)]
  <2>1. SlotOf(s) # SlotOf(seen[p])
      BY <1>3, <1>5, WindowFacts
  <2> QED
      BY <1>1, <2>1, SlotInRange DEF TypeOK
<1>6. SequencesInv'
    BY <1>1, <1>2 DEF RingInvariant, SequencesInv, Available
<1>7. ClaimsInv'
  <2>1. \A q \in Producers : Pending(q)' <=> Pending(q)
      BY <1>1 DEF Pending, TypeOK
  <2>2. ASSUME NEW q \in Producers, pc'[q] = "publish"
        PROVE  value'[SlotOf(seen[q])] = Item(q)
    <3>1. CASE q = p
        BY <1>4, <3>1
    <3>2. CASE q # p
      <4>1. pc[q] = "publish" /\ Pending(q) /\ Pending(p)
          BY <1>1, <2>2, <3>2 DEF TypeOK, Pending
      <4>2. seen[q] \in Oldest..cursor /\ seen[q] # seen[p]
          BY <3>2, <4>1, WindowFacts DEF RingInvariant, ClaimsInv, TypeOK
      <4> QED
          BY <1>5, <4>1, <4>2 DEF RingInvariant, ClaimsInv
    <3> QED
        BY <3>1, <3>2
  <2>3. \A q \in Producers : pc'[q] = "cas" => pc[q] = "cas"
      BY <1>1 DEF TypeOK
  <2>4. \A q \in Producers : pc'[q] # "idle" => pc[q] # "idle"
      BY <1>1 DEF TypeOK
  <2> QED
      BY <1>1, <1>2, <2>1, <2>2, <2>3, <2>4 DEF RingInvariant, ClaimsInv
<1>8. WindowInv'
  <2>1. ASSUME NEW s \in Oldest..cursor, Available(s), ~(cpc = "release" /\ s = next)
        PROVE  value'[SlotOf(s)] = order[s + 1]
    <3>1. s # seen[p]
        BY <1>3, <2>1, SlotInRange DEF Available, TypeOK
    <3> QED
        BY <1>5, <2>1, <3>1 DEF RingInvariant, WindowInv
  <2> QED
      BY <1>1, <1>2, <2>1 DEF RingInvariant, WindowInv, Available
<1>9. HistoryInv'
    BY <1>1, <1>2 DEF RingInvariant, HistoryInv, DeliveredInOrder
<1> QED
    BY <1>6, <1>7, <1>8, <1>9 DEF RingInvariant

LEMMA PublishStep ==
    ASSUME TypeOK, RingInvariant, NEW p \in Producers, Publish(p)
    PROVE  RingInvariant'
<1>1. /\ pc[p] = "publish" /\ pc' = [pc EXCEPT ![p] = "signal"]
      /\ published' = [published EXCEPT ![SlotOf(seen[p])] = seen[p]]
      /\ UNCHANGED <<cursor, gating, value, seen, sent, cpc, next, room,
                     order, delivered>>
    BY DEF Publish, Goto, consumerVars
<1>2. Oldest' = Oldest /\ \A q \in Producers : Item(q)' = Item(q)
    BY <1>1 DEF Oldest, Item
<1>3. /\ Pending(p) /\ seen[p] \in Oldest..cursor
      /\ published[SlotOf(seen[p])] < seen[p]
      /\ SlotOf(seen[p]) \in Slots
      /\ value[SlotOf(seen[p])] = order[seen[p] + 1]
  <2>1. Pending(p)
      BY <1>1 DEF Pending
  <2>2. /\ Oldest <= seen[p] /\ seen[p] <= cursor
        /\ published[SlotOf(seen[p])] < seen[p]
        /\ order[seen[p] + 1] = Item(p)
        /\ value[SlotOf(seen[p])] = Item(p)
      BY <1>1, <2>1 DEF RingInvariant, ClaimsInv
  <2>3. seen[p] \in Int
      BY DEF TypeOK
  <2> QED
      BY <2>1, <2>2, <2>3, WindowFacts, SlotInRange
<1>4. published'[SlotOf(seen[p])] = seen[p]
    BY <1>1, <1>3 DEF TypeOK
<1>5. ASSUME NEW s \in Oldest..(Oldest + Capacity - 1), s # seen[p]
      PROVE  published'[SlotOf(s)] = published[SlotOf(s)]
  <2>1. SlotOf(s) # SlotOf(seen[p])
      BY <1>3, <1>5, WindowFacts
  <2> QED
      BY <1>1, <2>1, SlotInRange DEF TypeOK
<1>6. Oldest..cursor \subseteq Oldest..(Oldest + Capacity - 1)
    BY WindowFacts
<1>7. SequencesInv'
  <2>1. ASSUME cpc \in {"read", "release"} PROVE published'[SlotOf(next)] = next
    <3>1. Oldest = next /\ next \in Oldest..cursor /\ published[SlotOf(next)] = next
        BY <2>1, WindowFacts DEF Oldest, RingInvariant, SequencesInv, Available
    <3> QED
        BY <1>4, <1>5, <1>6, <3>1
  <2> QED
      BY <1>1, <1>2, <2>1 DEF RingInvariant, SequencesInv, Available
<1>8. ClaimsInv'
  <2>1. ASSUME NEW q \in Producers, Pending(q)'
        PROVE  q # p /\ Pending(q) /\ published'[SlotOf(seen[q])] < seen[q]
    <3>1. q # p /\ Pending(q)
        BY <1>1, <2>1 DEF TypeOK, Pending
    <3>2. seen[q] \in Oldest..cursor /\ seen[q] # seen[p]
        BY <1>3, <3>1, WindowFacts DEF RingInvariant, ClaimsInv, TypeOK
    <3>3. published'[SlotOf(seen[q])] = published[SlotOf(seen[q])]
        BY <1>5, <1>6, <3>2
    <3> QED
        BY <3>1, <3>3 DEF RingInvariant, ClaimsInv
  <2>2. \A q \in Producers :
            /\ pc'[q] = "cas" => pc[q] = "cas"
            /\ pc'[q] # "idle" => pc[q] # "idle"
            /\ pc'[q] = "publish" => pc[q] = "publish"
      BY <1>1 DEF TypeOK
  <2>3. \A q \in Producers : pc'[q] = "cas" => seen[q] - Capacity < gating
      BY <2>2 DEF RingInvariant, ClaimsInv
  <2>4. \A q \in Producers : pc'[q] # "idle" => sent[q] > 0
      BY <2>2 DEF RingInvariant, ClaimsInv
  <2>5. \A q \in Producers : pc'[q] = "publish" => value[SlotOf(seen[q])] = Item(q)
      BY <2>2 DEF RingInvariant, ClaimsInv
  <2>6. \A q \in Producers : Pending(q)' =>
            /\ Oldest <= seen[q] /\ seen[q] <= cursor
            /\ published'[SlotOf(seen[q])] < seen[q]
            /\ order[seen[q] + 1] = Item(q)
      BY <2>1 DEF RingInvariant, ClaimsInv
  <2>7. \A q, r \in Producers :
            Pending(q)' /\ Pending(r)' /\ seen[q] = seen[r] => q = r
      BY <2>1 DEF RingInvariant, ClaimsInv
  <2> QED
      BY <1>1, <1>2, <2>3, <2>4, <2>5, <2>6, <2>7 DEF ClaimsInv
<1>9. WindowInv'
  <2>1. ASSUME NEW s \in (cursor + 1)..(Oldest + Capacity - 1)
        PROVE  published'[SlotOf(s)] < s
    <3>1. s # seen[p] /\ s \in Oldest..(Oldest + Capacity - 1)
        BY <1>3, WindowFacts
    <3> QED
        BY <1>5, <3>1 DEF RingInvariant, WindowInv
  <2>2. ASSUME NEW s \in Oldest..cursor, published'[SlotOf(s)] = s,
               ~(cpc = "release" /\ s = next)
        PROVE  value[SlotOf(s)] = order[s + 1]
    <3>1. CASE s = seen[p]
        BY <1>3, <3>1
    <3>2. CASE s # seen[p]
      <4>1. Available(s)
          BY <1>5, <1>6, <2>2, <3>2 DEF Available
      <4> QED
          BY <2>2, <4>1 DEF RingInvariant, WindowInv
    <3> QED
        BY <3>1, <3>2
  <2> QED
      BY <1>1, <1>2, <2>1, <2>2 DEF WindowInv, Available
<1>10. HistoryInv'
    BY <1>1, <1>2 DEF RingInvariant, HistoryInv, DeliveredInOrder
<1> QED
    BY <1>7, <1>8, <1>9, <1>10 DEF RingInvariant

LEMMA PopReadStep ==
    ASSUME TypeOK, RingInvariant, PopRead
    PROVE  RingInvariant'
<1>1. /\ cpc = "read" /\ cpc' = "release"
      /\ delivered' = Append(delivered, value[SlotOf(next)])
      /\ value' = [value EXCEPT ![SlotOf(next)] = NoItem]
      /\ UNCHANGED <<cursor, gating, published, pc, seen, sent, next, room, order>>
    BY DEF PopRead, producerVars
<1>2. Oldest = next /\ Oldest' = Oldest /\ \A q \in Producers : Item(q)' = Item(q)
    BY <1>1 DEF Oldest, Item
<1>3. /\ next \in Oldest..cursor /\ published[SlotOf(next)] = next
      /\ next \in Nat /\ Len(order) = cursor + 1
    BY <1>1, <1>2, WindowFacts DEF RingInvariant, SequencesInv, Available, HistoryInv
<1>4. value[SlotOf(next)] = order[next + 1]
    BY <1>1, <1>3 DEF RingInvariant, WindowInv, Available
<1>5. ASSUME NEW s \in Oldest..(Oldest + Capacity - 1), s # next
      PROVE  value'[SlotOf(s)] = value[SlotOf(s)]
  <2>1. next \in Oldest..(Oldest + Capacity - 1)
      BY <1>3, WindowFacts
  <2>2. SlotOf(s) # SlotOf(next)
      BY <1>5, <2>1, WindowFacts
  <2> QED
      BY <1>1, <2>2, SlotInRange DEF TypeOK
<1>6. Oldest..cursor \subseteq Oldest..(Oldest + Capacity - 1)
    BY WindowFacts
<1>7. SequencesInv'
    BY <1>1, <1>2, <1>3 DEF RingInvariant, SequencesInv, Available
<1>8. ClaimsInv'
  <2>1. ASSUME NEW q \in Producers, pc[q] = "publish"
        PROVE  value'[SlotOf(seen[q])] = Item(q)
    <3>1. /\ seen[q] \in Oldest..cursor /\ published[SlotOf(seen[q])] < seen[q]
          /\ value[SlotOf(seen[q])] = Item(q)
        BY <2>1, WindowFacts DEF RingInvariant, ClaimsInv, Pending, TypeOK
    <3>2. seen[q] # next
        BY <1>3, <3>1
    <3> QED
        BY <1>5, <1>6, <3>1, <3>2
  <2> QED
      BY <1>1, <1>2, <2>1 DEF RingInvariant, ClaimsInv, Pending
<1>9. WindowInv'
  <2>1. ASSUME NEW s \in Oldest..cursor, Available(s), s # next
        PROVE  value'[SlotOf(s)] = order[s + 1]
      BY <1>1, <1>5, <1>6, <2>1 DEF RingInvariant, WindowInv
  <2> QED
      BY <1>1, <1>2, <2>1 DEF RingInvariant, WindowInv, Available
<1>10. HistoryInv'
  <2>1. /\ Len(delivered) = next /\ Len(delivered') = next + 1
        /\ delivered'[next + 1] = order[next + 1]
        /\ \A i \in 1..next : delivered'[i] = delivered[i]
      BY <1>1, <1>2, <1>3, <1>4 DEF RingInvariant, HistoryInv, TypeOK
  <2>2. \A i \in 1..(next + 1) : delivered'[i] = order[i]
      BY <1>3, <2>1 DEF RingInvariant, HistoryInv, DeliveredInOrder
  <2>3. next + 1 <= Len(order)
      BY <1>3, WindowFacts
  <2> QED
      BY <1>1, <1>2, <1>3, <2>1, <2>2, <2>3 DEF HistoryInv, DeliveredInOrder
<1> QED
    BY <1>7, <1>8, <1>9, <1>10 DEF RingInvariant

LEMMA PopReleaseStep ==
    ASSUME TypeOK, RingInvariant, PopRelease
    PROVE  RingInvariant'
<1>1. /\ cpc = "release" /\ cpc' = "scan" /\ next' = next + 1
      /\ published' = [published EXCEPT ![SlotOf(next)] = next - Capacity]
      /\ UNCHANGED <<cursor, gating, value, pc, seen, sent, order, delivered>>
    BY DEF PopRelease, producerVars
<1>2. Oldest = next /\ Oldest' = next + 1 /\ \A q \in Producers : Item(q)' = Item(q)
    BY <1>1 DEF Oldest, Item
<1>3. next \in Oldest..cursor /\ published[SlotOf(next)] = next /\ next \in Nat
    BY <1>1, <1>2, WindowFacts DEF RingInvariant, SequencesInv, Available
<1>4. ASSUME NEW s \in Oldest..(Oldest + Capacity - 1), s # next
      PROVE  published'[SlotOf(s)] = published[SlotOf(s)]
  <2>1. next \in Oldest..(Oldest + Capacity - 1)
      BY <1>3, WindowFacts
  <2>2. SlotOf(s) # SlotOf(next)
      BY <1>4, <2>1, WindowFacts
  <2> QED
      BY <1>1, <2>2, SlotInRange DEF TypeOK
<1>5. /\ SlotOf(next + Capacity) = SlotOf(next)
      /\ published'[SlotOf(next)] = next - Capacity
  <2>1. SlotOf(next + Capacity) = SlotOf(next)
      BY <1>3, SlotNextLap
  <2>2. SlotOf(next) \in Slots
      BY <1>3, SlotInRange
  <2> QED
      BY <1>1, <2>1, <2>2 DEF TypeOK
<1>6. Oldest..cursor \subseteq Oldest..(Oldest + Capacity - 1)
    BY WindowFacts
<1>7. SequencesInv'
  <2>1. gating < next + 1 /\ next + 1 <= cursor + 1
      BY <1>2, <1>3, WindowFacts
  <2> QED
      BY <1>1, <1>2, <2>1 DEF RingInvariant, SequencesInv
<1>8. ClaimsInv'
  <2>1. ASSUME NEW q \in Producers, Pending(q)
        PROVE  next + 1 <= seen[q] /\ published'[SlotOf(seen[q])] < seen[q]
    <3>1. seen[q] \in Oldest..cursor /\ published[SlotOf(seen[q])] < seen[q]
        BY <2>1, WindowFacts DEF RingInvariant, ClaimsInv, TypeOK
    <3>2. seen[q] # next
        BY <1>3, <3>1
    <3>3. published'[SlotOf(seen[q])] = published[SlotOf(seen[q])]
        BY <1>4, <1>6, <3>1, <3>2
    <3> QED
        BY <1>2, <1>3, <3>1, <3>2, <3>3
  <2> QED
      BY <1>1, <1>2, <2>1 DEF RingInvariant, ClaimsInv, Pending
<1>9. WindowInv'
  <2>1. ASSUME NEW s \in (cursor + 1)..(next + 1 + Capacity - 1)
        PROVE  published'[SlotOf(s)] < s
    <3>1. CASE s = next + Capacity
        BY <1>3, <1>5, <3>1, CapacityAssumption
    <3>2. CASE s # next + Capacity
      <4>1. s \in (cursor + 1)..(Oldest + Capacity - 1)
          BY <1>2, <1>3, <3>2, WindowFacts
      <4>2. s \in Oldest..(Oldest + Capacity - 1) /\ s # next
          BY <1>2, <1>3, <4>1, WindowFacts
      <4> QED
          BY <1>4, <4>1, <4>2 DEF RingInvariant, WindowInv
    <3> QED
        BY <3>1, <3>2
  <2>2. ASSUME NEW s \in (next + 1)..cursor, published'[SlotOf(s)] = s
        PROVE  value[SlotOf(s)] = order[s + 1]
    <3>1. s \in Oldest..cursor /\ s # next
        BY <1>2, <1>3
    <3> QED
        BY <1>4, <1>6, <2>2, <3>1 DEF RingInvariant, WindowInv, Available
  <2> QED
      BY <1>1, <1>2, <2>1, <2>2 DEF WindowInv, Available
<1>10. HistoryInv'
    BY <1>1, <1>2 DEF RingInvariant, HistoryInv, DeliveredInOrder
<1> QED
    BY <1>7, <1>8, <1>9, <1>10 DEF RingInvariant

LEMMA PopCommitStep ==
    ASSUME TypeOK, RingInvariant, PopCommit
    PROVE  RingInvariant'
<1>1. /\ cpc = "commit" /\ cpc' = "signal" /\ gating' = next - 1
      /\ UNCHANGED <<cursor, published, value, pc, seen, sent, next, order, delivered>>
    BY DEF PopCommit, producerVars
<1>2. Oldest = next /\ Oldest' = Oldest /\ \A q \in Producers : Item(q)' = Item(q)
  <2>1. Oldest' = (next - 1) + 1 /\ Oldest = next
      BY <1>1 DEF Oldest
  <2> QED
      BY <1>1, <2>1 DEF Item, TypeOK
<1>3. /\ next \in Nat /\ gating <= next - 1 /\ next <= cursor + 1
      /\ cursor <= (next - 1) + Capacity /\ next - 1 < next /\ -1 <= next - 1
    BY <1>2, WindowFacts
<1>4. SequencesInv'
    BY <1>1, <1>2, <1>3 DEF SequencesInv
<1>5. ClaimsInv'
  <2>1. ASSUME NEW q \in Producers, pc[q] = "cas"
        PROVE  seen[q] - Capacity < next - 1
    <3>1. seen[q] - Capacity < gating /\ seen[q] - Capacity \in Int
        BY <2>1, CapacityAssumption DEF RingInvariant, ClaimsInv, TypeOK
    <3> QED
        BY <1>3, <3>1, WindowFacts
  <2> QED
      BY <1>1, <1>2, <2>1 DEF RingInvariant, ClaimsInv, Pending
<1>6. WindowInv'
    BY <1>1, <1>2 DEF RingInvariant, WindowInv, Available
<1>7. HistoryInv'
    BY <1>1, <1>2 DEF RingInvariant, HistoryInv, DeliveredInOrder
<1> QED
    BY <1>4, <1>5, <1>6, <1>7 DEF RingInvariant

LEMMA InvStep == TypeOK /\ RingInvariant /\ [Next]_vars => RingInvariant'
<1> SUFFICES ASSUME TypeOK, RingInvariant, [Next]_vars
             PROVE  RingInvariant'
    OBVIOUS
<1>1. ASSUME NEW p \in Producers, Offer(p) PROVE RingInvariant'
  <2>1. sent'[p] > 0
      BY <1>1 DEF Offer, TypeOK
  <2> QED
      BY <1>1, <2>1, ProducerFrame DEF Offer, Goto, TypeOK
<1>2. ASSUME NEW p \in Producers, LoadCursor(p) PROVE RingInvariant'
  <2>1. pc[p] # "idle" /\ sent[p] > 0
      BY <1>2 DEF LoadCursor, RingInvariant, ClaimsInv
  <2> QED
      BY <1>2, <2>1, ProducerFrame DEF LoadCursor, Goto, TypeOK
<1>3. ASSUME NEW p \in Producers, CheckGating(p) PROVE RingInvariant'
  <2>1. pc[p] # "idle" /\ sent[p] > 0
      BY <1>3 DEF CheckGating, RingInvariant, ClaimsInv
  <2>2. pc'[p] = "cas" => seen[p] - Capacity < gating
      BY <1>3, CapacityAssumption DEF CheckGating, Goto, TypeOK, WouldWrap
  <2>3. pc'[p] \in {"full", "cas"}
      BY <1>3 DEF CheckGating, Goto, TypeOK
  <2>4. UNCHANGED <<seen, sent>>
      BY <1>3 DEF CheckGating
  <2> QED
      BY <1>3, <2>1, <2>2, <2>3, <2>4, ProducerFrame DEF CheckGating, Goto, TypeOK
<1>4. ASSUME NEW p \in Producers, ClaimLost(p) PROVE RingInvariant'
  <2>1. pc[p] # "idle" /\ sent[p] > 0
      BY <1>4 DEF ClaimLost, RingInvariant, ClaimsInv
  <2> QED
      BY <1>4, <2>1, ProducerFrame DEF ClaimLost, Goto, TypeOK
<1>5. ASSUME NEW p \in Producers, SignalReadable(p) PROVE RingInvariant'
  <2>1. pc[p] # "idle" /\ sent[p] > 0
      BY <1>5 DEF SignalReadable, RingInvariant, ClaimsInv
  <2> QED
      BY <1>5, <2>1, ProducerFrame DEF SignalReadable, Goto, TypeOK
<1>6. ASSUME NEW p \in Producers, HasCapacityLoad(p) PROVE RingInvariant'
  <2>1. pc[p] # "idle" /\ sent[p] > 0
      BY <1>6 DEF HasCapacityLoad, RingInvariant, ClaimsInv
  <2> QED
      BY <1>6, <2>1, ProducerFrame DEF HasCapacityLoad, Goto, TypeOK
<1>7. ASSUME NEW p \in Producers, HasCapacityCheck(p) PROVE RingInvariant'
  <2>1. pc[p] # "idle" /\ sent[p] > 0
      BY <1>7 DEF HasCapacityCheck, RingInvariant, ClaimsInv
  <2> QED
      BY <1>7, <2>1, ProducerFrame DEF HasCapacityCheck, Goto, TypeOK
<1>8. ASSUME NEW p \in Producers, WakeWriter(p) PROVE RingInvariant'
  <2>1. pc[p] # "idle" /\ sent[p] > 0
      BY <1>8 DEF WakeWriter, RingInvariant, ClaimsInv
  <2> QED
      BY <1>8, <2>1, ProducerFrame DEF WakeWriter, Goto, TypeOK
<1>9. ASSUME NEW p \in Producers, PollWriter(p) PROVE RingInvariant'
  <2>1. pc[p] # "idle" /\ sent[p] > 0
      BY <1>9 DEF PollWriter, RingInvariant, ClaimsInv
  <2> QED
      BY <1>9, <2>1, ProducerFrame DEF PollWriter, Goto, TypeOK
<1>10. ASSUME NEW p \in Producers, GiveUp(p) PROVE RingInvariant'
  <2>1. pc[p] # "idle" /\ sent[p] > 0
      BY <1>10 DEF GiveUp, RingInvariant, ClaimsInv
  <2> QED
      BY <1>10, <2>1, ProducerFrame DEF GiveUp, Goto, TypeOK
<1>11. ASSUME NEW p \in Producers, WaitWritable(p) PROVE RingInvariant'
  <2>1. pc[p] # "idle" /\ sent[p] > 0
      BY <1>11 DEF WaitWritable, RingInvariant, ClaimsInv
  <2> QED
      BY <1>11, <2>1, ProducerFrame DEF WaitWritable, Goto, TypeOK
<1>12. ASSUME NEW p \in Producers, InterruptWriter(p) PROVE RingInvariant'
  <2>1. pc[p] # "idle" /\ sent[p] > 0
      BY <1>12 DEF InterruptWriter, RingInvariant, ClaimsInv
  <2> QED
      BY <1>12, <2>1, ProducerFrame DEF InterruptWriter, Goto, TypeOK
<1>13. ASSUME NEW p \in Producers, Claim(p) \/ WriteValue(p) \/ Publish(p)
      PROVE  RingInvariant'
    BY <1>13, ClaimStep, WriteValueStep, PublishStep
<1>14. ASSUME NEW limit \in 1..BatchSize, PopStart(limit) PROVE RingInvariant'
    BY <1>14, ConsumerFrame DEF PopStart, Oldest
<1>15. ASSUME PopScan PROVE RingInvariant'
  <2>1. Oldest = next /\ cpc = "scan" /\ next' = next /\ gating' = gating
      BY <1>15 DEF PopScan, Oldest, ringVars
  <2>2. cpc' \in {"read", "ready", "commit"} /\ (cpc' = "ready" => next = gating + 1)
      BY <1>15 DEF PopScan
  <2>3. Oldest' = Oldest
      BY <2>1, <2>2 DEF Oldest
  <2>4. ASSUME cpc' = "read" PROVE next' <= cursor /\ published[SlotOf(next')] = next'
    <3>1. published[SlotOf(next)] = next
        BY <1>15, <2>4 DEF PopScan, Available
    <3>2. next \notin (cursor + 1)..(Oldest + Capacity - 1)
        BY <2>1, <3>1, WindowFacts DEF RingInvariant, WindowInv
    <3> QED
        BY <2>1, <3>1, <3>2, WindowFacts, CapacityAssumption
  <2> QED
      BY <1>15, <2>1, <2>2, <2>3, <2>4, ConsumerFrame DEF PopScan
<1>16. ASSUME PopRead \/ PopRelease \/ PopCommit PROVE RingInvariant'
    BY <1>16, PopReadStep, PopReleaseStep, PopCommitStep
<1>17. ASSUME SignalWritable PROVE RingInvariant'
    BY <1>17, ConsumerFrame DEF SignalWritable, Oldest, ringVars
<1>18. ASSUME HasReadable PROVE RingInvariant'
    BY <1>18, ConsumerFrame DEF HasReadable, Oldest, ringVars
<1>19. ASSUME WakeReader PROVE RingInvariant'
    BY <1>19, ConsumerFrame DEF WakeReader, Oldest, ringVars
<1>20. ASSUME PollReader PROVE RingInvariant'
    BY <1>20, ConsumerFrame DEF PollReader, Oldest, ringVars
<1>21. ASSUME UNCHANGED vars PROVE RingInvariant'
  <2>1. UNCHANGED <<ringVars, producerVars, consumerVars, order, delivered>>
      BY <1>21 DEF vars
  <2>2. Oldest' = Oldest
      BY <2>1 DEF Oldest, ringVars, consumerVars
  <2> QED
      BY <2>1, <2>2 DEF RingInvariant, SequencesInv, ClaimsInv, WindowInv, HistoryInv,
         DeliveredInOrder, Available, Pending, Item, ringVars, producerVars, consumerVars
<1>22. ASSUME PopUnready PROVE RingInvariant'
    BY <1>22, ConsumerFrame DEF PopUnready, Oldest, ringVars
<1> QED
    BY <1>1, <1>2, <1>3, <1>4, <1>5, <1>6, <1>7, <1>8, <1>9, <1>10, <1>11, <1>12, <1>13, <1>14, <1>15, <1>16, <1>17, <1>18, <1>19, <1>20, <1>21, <1>22
       DEF Next, ProducerRuns, CallerChooses, Pop, AwaitReadable, Poll, Quiescent

-----------------------------------------------------------------------------
(* The induction.                                                          *)
THEOREM RingInvariantHolds == Spec => [](TypeOK /\ RingInvariant)
<1>1. Init => TypeOK /\ RingInvariant
    BY TypeInit, InvInit
<1>2. (TypeOK /\ RingInvariant) /\ [Next]_vars => (TypeOK /\ RingInvariant)'
    BY TypeStep, InvStep
<1> QED
    BY <1>1, <1>2, PTL DEF Spec

(* Types of the ring, whatever the number of producers and laps.           *)
THEOREM TypeCorrect == Spec => []TypeOK
BY RingInvariantHolds, PTL

(* PopBatch hands over exactly what TryPublish claimed, in claim order.    *)
THEOREM DeliveryInOrder == Spec => []DeliveredInOrder
<1>1. RingInvariant => DeliveredInOrder
    BY DEF RingInvariant, HistoryInv
<1> QED
    BY <1>1, RingInvariantHolds, PTL

(* The ring never holds more than Capacity claimed elements.               *)
THEOREM RingNeverOverrun == Spec => []NeverOverrun
<1>1. TypeOK /\ RingInvariant => NeverOverrun
  <2> SUFFICES ASSUME TypeOK, RingInvariant PROVE NeverOverrun
      OBVIOUS
  <2> QED
      BY WindowFacts DEF NeverOverrun
<1> QED
    BY <1>1, RingInvariantHolds, PTL

(* No two goroutines touch the plain value field of one slot together.     *)
THEOREM NoRaceOnSlots == Spec => []NoDataRace
<1>1. TypeOK /\ RingInvariant => NoDataRace
  <2> SUFFICES ASSUME TypeOK, RingInvariant, NEW slot \in Slots,
                      NEW p \in Producers, Touches(p, slot)
               PROVE  /\ ~ConsumerTouches(slot)
                      /\ \A q \in Producers \ {p} : ~Touches(q, slot)
      BY DEF NoDataRace
  <2>1. \A q \in Producers : Touches(q, slot) =>
            /\ seen[q] \in Oldest..(Oldest + Capacity - 1) /\ Pending(q)
            /\ SlotOf(seen[q]) = slot /\ published[SlotOf(seen[q])] < seen[q]
    <3> SUFFICES ASSUME NEW q \in Producers, Touches(q, slot)
                 PROVE  /\ seen[q] \in Oldest..(Oldest + Capacity - 1) /\ Pending(q)
                        /\ SlotOf(seen[q]) = slot
                        /\ published[SlotOf(seen[q])] < seen[q]
        OBVIOUS
    <3>1. Pending(q) /\ SlotOf(seen[q]) = slot
        BY DEF Touches, Pending
    <3>2. /\ Oldest <= seen[q] /\ seen[q] <= cursor
          /\ published[SlotOf(seen[q])] < seen[q]
        BY <3>1 DEF RingInvariant, ClaimsInv
    <3>3. seen[q] \in Int
        BY DEF TypeOK
    <3> QED
        BY <3>1, <3>2, <3>3, WindowFacts
  <2>2. ASSUME ConsumerTouches(slot) PROVE FALSE
    <3>1. /\ next \in Oldest..(Oldest + Capacity - 1)
          /\ SlotOf(next) = slot /\ published[SlotOf(next)] = next
        BY <2>2, WindowFacts DEF ConsumerTouches, Oldest, RingInvariant, SequencesInv,
           Available
    <3> QED
        BY <2>1, <3>1, WindowFacts
  <2>3. ASSUME NEW q \in Producers \ {p}, Touches(q, slot) PROVE FALSE
    <3>1. seen[p] = seen[q]
        BY <2>1, <2>3, WindowFacts
    <3> QED
        BY <2>1, <2>3, <3>1 DEF RingInvariant, ClaimsInv
  <2> QED
      BY <2>2, <2>3
<1> QED
    BY <1>1, RingInvariantHolds, PTL

(* TryPublish answers "full" only when the ring is full at that instant.   *)
(* The cursor it loaded is never ahead of the cursor now.                  *)
CursorMonotone == \A p \in Producers : pc[p] \in {"gate", "wgating"} => seen[p] <= cursor

LEMMA CursorMonotoneHolds == Spec => []CursorMonotone
<1>1. Init => CursorMonotone
    BY DEF Init, CursorMonotone
<1>2. TypeOK /\ CursorMonotone /\ [Next]_vars => CursorMonotone'
  <2> SUFFICES ASSUME TypeOK, CursorMonotone, [Next]_vars PROVE CursorMonotone'
      OBVIOUS
  <2>1. ASSUME NEW p \in Producers, LoadCursor(p) \/ HasCapacityLoad(p)
        PROVE  CursorMonotone'
    <3>1. cursor' = cursor /\ seen' = [seen EXCEPT ![p] = cursor] /\ cursor \in Int
        BY <2>1 DEF LoadCursor, HasCapacityLoad, ringVars, TypeOK
    <3>2. \A q \in Producers \ {p} : pc'[q] = pc[q] /\ seen'[q] = seen[q]
        BY <2>1, <3>1 DEF LoadCursor, HasCapacityLoad, Goto, TypeOK
    <3>3. seen'[p] <= cursor'
        BY <3>1 DEF TypeOK
    <3> QED
        BY <3>1, <3>2, <3>3 DEF CursorMonotone
  <2>2. ASSUME NEW p \in Producers, Claim(p) PROVE CursorMonotone'
      BY <2>2 DEF Claim, Goto, CursorMonotone, TypeOK
  <2>3. ASSUME NEW p \in Producers,
               \/ Offer(p) \/ CheckGating(p) \/ ClaimLost(p) \/ WriteValue(p)
               \/ Publish(p) \/ SignalReadable(p) \/ HasCapacityCheck(p)
               \/ WakeWriter(p) \/ PollWriter(p) \/ GiveUp(p) \/ WaitWritable(p)
               \/ InterruptWriter(p)
        PROVE  CursorMonotone'
    <3>1. /\ UNCHANGED <<cursor, seen>>
          /\ \A q \in Producers : pc'[q] \in {"gate", "wgating"} => pc'[q] = pc[q]
        BY <2>3 DEF Offer, CheckGating, ClaimLost, WriteValue, Publish, SignalReadable,
           HasCapacityCheck, WakeWriter, PollWriter, GiveUp, WaitWritable,
           InterruptWriter, Goto, TypeOK, ringVars
    <3> QED
        BY <3>1 DEF CursorMonotone
  <2>4. ASSUME Pop \/ AwaitReadable \/ PopUnready \/ PollReader \/ UNCHANGED vars
        PROVE  CursorMonotone'
      BY <2>4 DEF Pop, PopUnready, AwaitReadable, PopStart, PopScan, PopRead, PopRelease, PopCommit,
         SignalWritable, HasReadable, WakeReader, PollReader, CursorMonotone, vars,
         ringVars, producerVars
  <2> QED
      BY <2>1, <2>2, <2>3, <2>4 DEF Next, ProducerRuns, CallerChooses, Poll, Quiescent
<1> QED
    BY <1>1, <1>2, TypeCorrect, PTL DEF Spec

(* The overflow policies never see a false "full".                         *)
THEOREM FullMeansFull == Spec => FullIsTrue
<1>1. TypeOK /\ CursorMonotone /\ [Next]_vars =>
          [\A p \in Producers : pc[p] = "gate" /\ pc'[p] = "full" =>
               cursor - gating >= Capacity]_vars
  <2> SUFFICES ASSUME TypeOK, CursorMonotone, Next, NEW p \in Producers,
                      pc[p] = "gate", pc'[p] = "full"
               PROVE  cursor - gating >= Capacity
      OBVIOUS
  <2>1. CheckGating(p)
    <3>1. ASSUME NEW q \in Producers, q # p,
                 ProducerRuns(q) \/ CallerChooses(q) \/ PollWriter(q)
          PROVE  pc'[p] = pc[p]
        BY <3>1 DEF ProducerRuns, CallerChooses, LoadCursor, CheckGating, Claim,
           ClaimLost, WriteValue, Publish, SignalReadable, HasCapacityLoad,
           HasCapacityCheck, WakeWriter, PollWriter, Offer, GiveUp, WaitWritable,
           InterruptWriter, Goto, TypeOK
    <3>2. ASSUME Pop \/ AwaitReadable \/ PopUnready \/ PollReader \/ Quiescent
          PROVE  pc' = pc
        BY <3>2 DEF Pop, AwaitReadable, PopUnready, Quiescent, PopStart, PopScan, PopRead,
           PopRelease, PopCommit, SignalWritable, HasReadable, WakeReader, PollReader,
           producerVars, vars
    <3>3. ASSUME ProducerRuns(p) \/ CallerChooses(p) \/ PollWriter(p) PROVE CheckGating(p)
        BY <3>3 DEF ProducerRuns, CallerChooses, LoadCursor, Claim, ClaimLost,
           WriteValue, Publish, SignalReadable, HasCapacityLoad, HasCapacityCheck,
           WakeWriter, PollWriter, Offer, GiveUp, WaitWritable, InterruptWriter
    <3> QED
        BY <3>1, <3>2, <3>3 DEF Next, Poll
  <2>2. seen[p] <= cursor /\ seen[p] \in Int /\ cursor \in Int /\ gating \in Int
      BY DEF CursorMonotone, TypeOK
  <2>3. WouldWrap(seen[p] + 1)
      BY <2>1 DEF CheckGating, Goto, TypeOK
  <2> QED
      BY <2>2, <2>3, CapacityAssumption DEF WouldWrap
<1> QED
    BY <1>1, TypeCorrect, CursorMonotoneHolds, PTL DEF Spec, FullIsTrue

-----------------------------------------------------------------------------
(* The consumer: what it waits for is published by a step that leaves the  *)
(* publisher about to send a token, and only the consumer takes tokens out *)
(* of the readable channel.                                                *)
LEMMA ReaderStep == TypeOK /\ ReaderNotStranded /\ [Next]_vars => ReaderNotStranded'
<1> SUFFICES ASSUME TypeOK, ReaderNotStranded, [Next]_vars, cpc' = "parked",
                    Available(gating + 1)'
             PROVE  readable' \/ \E p \in Producers : pc'[p] = "signal"
    BY DEF ReaderNotStranded
<1>1. ASSUME NEW p \in Producers, Publish(p)
      PROVE  \E q \in Producers : pc'[q] = "signal"
    BY <1>1 DEF Publish, Goto, TypeOK
<1>2. ASSUME NEW p \in Producers, SignalReadable(p) PROVE readable'
    BY <1>2 DEF SignalReadable
<1>3. ASSUME NEW p \in Producers,
             \/ Offer(p) \/ LoadCursor(p) \/ CheckGating(p) \/ Claim(p) \/ ClaimLost(p)
             \/ WriteValue(p) \/ HasCapacityLoad(p) \/ HasCapacityCheck(p)
             \/ WakeWriter(p) \/ PollWriter(p) \/ GiveUp(p) \/ WaitWritable(p)
             \/ InterruptWriter(p)
      PROVE  readable' \/ \E q \in Producers : pc'[q] = "signal"
  <2>1. UNCHANGED <<published, gating, cpc, readable>>
      BY <1>3 DEF Offer, LoadCursor, CheckGating, Claim, ClaimLost, WriteValue,
         HasCapacityLoad, HasCapacityCheck, WakeWriter, PollWriter, GiveUp,
         WaitWritable, InterruptWriter, ringVars, channelVars, consumerVars
  <2>2. readable \/ \E q \in Producers : pc[q] = "signal"
      BY <2>1 DEF ReaderNotStranded, Available
  <2>3. \A q \in Producers : pc[q] = "signal" => pc'[q] = "signal"
      BY <1>3 DEF Offer, LoadCursor, CheckGating, Claim, ClaimLost, WriteValue,
         HasCapacityLoad, HasCapacityCheck, WakeWriter, PollWriter, GiveUp,
         WaitWritable, InterruptWriter, Goto, TypeOK
  <2> QED
      BY <2>1, <2>2, <2>3
<1>4. ASSUME HasReadable PROVE FALSE
    BY <1>4 DEF HasReadable, Available, ringVars
<1>5. ASSUME Pop \/ WakeReader \/ PollReader \/ PopUnready PROVE FALSE
    BY <1>5 DEF Pop, PopStart, PopScan, PopRead, PopRelease, PopCommit,
       SignalWritable, WakeReader, PollReader, PopUnready
<1>6. ASSUME UNCHANGED vars
      PROVE  readable' \/ \E p \in Producers : pc'[p] = "signal"
    BY <1>6 DEF vars, ReaderNotStranded, Available, ringVars, channelVars,
       producerVars, consumerVars
<1> QED
    BY <1>1, <1>2, <1>3, <1>4, <1>5, <1>6
       DEF Next, ProducerRuns, CallerChooses, AwaitReadable, Poll, Quiescent

(* A producer that sleeps or gives up found the ring full when the cursor  *)
(* was no further than now, so an element is in the ring; one that wins    *)
(* the CAS puts one there; and PopCommit, which alone empties the ring,    *)
(* leaves the consumer about to send a token.                              *)
WriterSafe == \/ cursor > gating
              \/ writable \/ cpc = "signal"
              \/ \E p \in Producers : Awake(p)

LEMMA FullHoldsElements ==
    ASSUME TypeOK, CursorMonotone, NEW p \in Producers, pc[p] \in {"gate", "wgating"},
           WouldWrap(seen[p] + 1)
    PROVE  cursor > gating
BY CapacityAssumption DEF TypeOK, CursorMonotone, WouldWrap

LEMMA WriterStep ==
    TypeOK /\ RingInvariant /\ CursorMonotone /\ WriterNotStranded /\ [Next]_vars
        => WriterNotStranded'
<1> SUFFICES ASSUME TypeOK, RingInvariant, CursorMonotone, WriterNotStranded,
                    [Next]_vars, \E p \in Producers : pc'[p] = "parked"
             PROVE  WriterSafe'
    BY DEF WriterNotStranded, WriterSafe, Awake
<1> USE DEF Goto
<1>1. ASSUME NEW p \in Producers, CheckGating(p) \/ HasCapacityCheck(p)
      PROVE  WriterSafe'
  <2>1. UNCHANGED <<cursor, gating>> /\ pc[p] \in {"gate", "wgating"}
      BY <1>1 DEF CheckGating, HasCapacityCheck, ringVars
  <2>2. CASE WouldWrap(seen[p] + 1)
      BY <2>1, <2>2, FullHoldsElements DEF WriterSafe
  <2>3. CASE ~WouldWrap(seen[p] + 1)
    <3>1. pc'[p] \in {"cas", "load"}
        BY <1>1, <2>3 DEF CheckGating, HasCapacityCheck, TypeOK
    <3> QED
        BY <3>1 DEF WriterSafe, Awake
  <2> QED
      BY <2>2, <2>3
<1>2. ASSUME NEW p \in Producers, Claim(p) PROVE WriterSafe'
    BY <1>2, WindowFacts DEF Claim, WriterSafe
<1>3. ASSUME NEW p \in Producers,
             \/ Offer(p) \/ LoadCursor(p) \/ ClaimLost(p) \/ WaitWritable(p)
             \/ HasCapacityLoad(p) \/ WakeWriter(p) \/ PollWriter(p)
      PROVE  WriterSafe'
  <2>1. Awake(p)'
      BY <1>3 DEF Offer, LoadCursor, ClaimLost, WaitWritable, HasCapacityLoad,
         WakeWriter, PollWriter, Awake, TypeOK
  <2> QED
      BY <2>1 DEF WriterSafe
<1>4. ASSUME NEW p \in Producers,
             WriteValue(p) \/ Publish(p) \/ SignalReadable(p) \/ GiveUp(p) \/ InterruptWriter(p)
      PROVE  WriterSafe'
  <2>1. UNCHANGED <<cursor, gating, writable, cpc>>
      BY <1>4 DEF WriteValue, Publish, SignalReadable, GiveUp, InterruptWriter,
         ringVars, channelVars, consumerVars
  <2>2. \A q \in Producers : (pc'[q] = "parked" => pc[q] = "parked") /\ (Awake(q) => Awake(q)')
      BY <1>4 DEF WriteValue, Publish, SignalReadable, GiveUp, InterruptWriter,
         Awake, TypeOK
  <2> QED
      BY <2>1, <2>2 DEF WriterNotStranded, WriterSafe
<1>5. ASSUME PopCommit \/ SignalWritable PROVE WriterSafe'
    BY <1>5 DEF PopCommit, SignalWritable, WriterSafe
<1>6. ASSUME \/ \E limit \in 1..BatchSize : PopStart(limit)
             \/ PopScan \/ PopRead \/ PopRelease \/ AwaitReadable \/ PopUnready
             \/ PollReader \/ UNCHANGED vars
      PROVE  WriterSafe'
  <2>1. UNCHANGED <<cursor, gating, writable, pc>> /\ (cpc = "signal" => cpc' = "signal")
      BY <1>6 DEF PopStart, PopScan, PopRead, PopRelease, AwaitReadable, HasReadable,
         WakeReader, PopUnready, PollReader, vars, ringVars, channelVars,
         producerVars, consumerVars
  <2> QED
      BY <2>1 DEF WriterNotStranded, WriterSafe, Awake
<1> QED
    BY <1>1, <1>2, <1>3, <1>4, <1>5, <1>6
       DEF Next, ProducerRuns, CallerChooses, Pop, Poll, Quiescent

(* signalOnce may drop a token, and one token stands for a whole batch of  *)
(* freed slots; still neither side sleeps through what it waits for.       *)
THEOREM NobodyIsStranded == Spec => []NobodyStranded
<1>1. Init => NobodyStranded
    BY DEF Init, NobodyStranded, ReaderNotStranded, WriterNotStranded
<1>2. TypeOK /\ RingInvariant /\ CursorMonotone /\ NobodyStranded /\ [Next]_vars
          => NobodyStranded'
    BY ReaderStep, WriterStep DEF NobodyStranded
<1> QED
    BY <1>1, <1>2, RingInvariantHolds, CursorMonotoneHolds, PTL DEF Spec

(* The lock-free ring implements the bounded FIFO: a successful CAS enters *)
(* an element, copying it out of its slot takes the oldest one, and every  *)
(* other step is invisible.                                                *)
THEOREM RingImplementsFifo == Spec => ImplementsFifo
<1> DEFINE Mapped == Fifo!FifoNext \/ UNCHANGED <<order, delivered>>
<1>1. Init => Fifo!FifoInit
    BY DEF Init, Fifo!FifoInit
<1>2. TypeOK /\ RingInvariant /\ [Next]_vars => Mapped
  <2> SUFFICES ASSUME TypeOK, RingInvariant, [Next]_vars PROVE Mapped
      OBVIOUS
  <2>1. /\ Len(order) = cursor + 1 /\ Len(order) \in Nat /\ Len(delivered) \in Nat
        /\ Len(delivered) >= Oldest
      BY WindowFacts DEF RingInvariant, HistoryInv, TypeOK
  <2>2. ASSUME NEW p \in Producers, Claim(p) PROVE Mapped
    <3>1. /\ cursor = seen[p] /\ cursor - Capacity < gating /\ pc[p] # "idle"
          /\ order' = Append(order, Item(p)) /\ delivered' = delivered
        BY <2>2 DEF Claim, RingInvariant, ClaimsInv
    <3>2. Len(order) - Len(delivered) < Capacity
        BY <2>1, <3>1, WindowFacts
    <3>3. sent[p] \in 1..MaxPerProducer
        BY <3>1, BoundAssumption DEF RingInvariant, ClaimsInv, TypeOK
    <3>4. Item(p) \in Items
        BY <3>3 DEF Item, Items
    <3>5. Fifo!Put(Item(p))
        BY <3>1, <3>2 DEF Fifo!Put
    <3> QED
        BY <3>4, <3>5 DEF Fifo!FifoNext
  <2>3. ASSUME PopRead PROVE Mapped
    <3>1. /\ Oldest = next /\ Len(delivered) = next /\ next <= cursor
          /\ next \in Oldest..cursor /\ Available(next)
          /\ delivered' = Append(delivered, value[SlotOf(next)]) /\ order' = order
        BY <2>3, WindowFacts DEF PopRead, Oldest, RingInvariant, HistoryInv, SequencesInv
    <3>2. value[SlotOf(next)] = order[next + 1]
        BY <2>3, <3>1 DEF PopRead, RingInvariant, WindowInv
    <3>3. Len(delivered) < Len(order)
        BY <2>1, <3>1, WindowFacts
    <3>4. Fifo!Take
        BY <3>1, <3>2, <3>3 DEF Fifo!Take
    <3> QED
        BY <3>4 DEF Fifo!FifoNext
  <2>4. ASSUME NEW p \in Producers,
               \/ Offer(p) \/ LoadCursor(p) \/ CheckGating(p) \/ ClaimLost(p)
               \/ WriteValue(p) \/ Publish(p) \/ SignalReadable(p)
               \/ HasCapacityLoad(p) \/ HasCapacityCheck(p) \/ WakeWriter(p)
               \/ PollWriter(p) \/ GiveUp(p) \/ WaitWritable(p) \/ InterruptWriter(p)
        PROVE  Mapped
      BY <2>4 DEF Offer, LoadCursor, CheckGating, ClaimLost, WriteValue, Publish,
         SignalReadable, HasCapacityLoad, HasCapacityCheck, WakeWriter, PollWriter,
         GiveUp, WaitWritable, InterruptWriter
  <2>5. ASSUME \/ \E limit \in 1..BatchSize : PopStart(limit)
               \/ PopScan \/ PopRelease \/ PopCommit \/ SignalWritable
               \/ AwaitReadable \/ PopUnready \/ PollReader \/ Quiescent
               \/ UNCHANGED vars
        PROVE  Mapped
      BY <2>5 DEF PopStart, PopScan, PopRelease, PopCommit, SignalWritable,
         AwaitReadable, HasReadable, WakeReader, PollReader, PopUnready, Quiescent, vars
  <2> QED
      BY <2>2, <2>3, <2>4, <2>5 DEF Next, ProducerRuns, CallerChooses, Pop, Poll
<1>3. TypeOK /\ RingInvariant /\ [Next]_vars => [Fifo!FifoNext]_(Fifo!fifoVars)
    BY <1>2 DEF Fifo!fifoVars
<1> QED
    BY <1>1, <1>3, RingInvariantHolds, PTL DEF Spec, ImplementsFifo, Fifo!FifoSpec

-----------------------------------------------------------------------------
(* Its consumers.                                                          *)

(* A step of a consumer or of a caller is a step of the ring or leaves the *)
(* ring as it is.                                                          *)
LEMMA StepIsRingStep == [ConsumersNext]_consumersVars => [Next]_vars
<1> SUFFICES ASSUME [ConsumersNext]_consumersVars PROVE [Next]_vars
    OBVIOUS
<1>1. ASSUME NEW p \in Producers, ProducerSteps(p) \/ CallerSteps(p)
      PROVE  [Next]_vars
    BY <1>1 DEF ProducerSteps, CallerSteps, Next
<1>2. ASSUME Runs PROVE [Next]_vars
    BY <1>2 DEF Runs, RunPops, RunWaits, RunInterrupted, RunReturns, Next
<1>3. ASSUME RunCancelled \/ RunAgain \/ Halt PROVE [Next]_vars
    BY <1>3 DEF RunCancelled, RunAgain, Halt, Next
<1>4. ASSUME Waits PROVE [Next]_vars
    BY <1>4 DEF Waits, WaitChecks, WaitLooks, WaitHolds, WaitReady, WaitToken,
       WaitInterrupted, AwaitReadable, Next
<1>5. ASSUME WaitCancelled \/ WaitAgain \/ Alert \/ ClearAlert PROVE [Next]_vars
    BY <1>5 DEF WaitCancelled, WaitAgain, Alert, ClearAlert, Next
<1>6. ASSUME Polls \/ Settled PROVE [Next]_vars
    BY <1>6 DEF Polls, Settled, Next
<1>7. ASSUME UNCHANGED consumersVars PROVE [Next]_vars
    BY <1>7 DEF consumersVars
<1> QED
    BY <1>1, <1>2, <1>3, <1>4, <1>5, <1>6, <1>7 DEF ConsumersNext

(* Processor and barrier implement the protocol of the ring.               *)
THEOREM ConsumersUseRing == ConsumersSpec => Spec
<1>1. ConsumersInit => Init
    BY DEF ConsumersInit
<1> QED
    BY <1>1, StepIsRingStep, PTL DEF ConsumersSpec, Spec

(* So the invariant of the ring holds, whichever way the consumer waits,   *)
(* halts, is alerted and starts again.                                     *)
THEOREM ConsumersKeepRingInvariant == ConsumersSpec => []RingInvariant
BY ConsumersUseRing, RingInvariantHolds, PTL

(* And no two goroutines ever touch one slot's element together.           *)
THEOREM ConsumersDoNotRace == ConsumersSpec => []NoDataRace
BY ConsumersUseRing, NoRaceOnSlots, PTL

(* And the elements come out of the slots in the order they were claimed.  *)
THEOREM ConsumersImplementFifo == ConsumersSpec => ImplementsFifo
BY ConsumersUseRing, RingImplementsFifo, PTL

-----------------------------------------------------------------------------
(* Halt.  The library gives the well-foundedness of <; a set of naturals   *)
(* that has an element has a least one.                                    *)
(* The scan for the highest published sequence ends before the first gap   *)
(* or at the cursor, and all it passed is published.                       *)
LEMMA HighestPublishedFacts ==
    ASSUME TypeOK, RingInvariant
    PROVE  /\ HighestPublished(Oldest) \in Int /\ HighestPublished(Oldest) <= cursor
           /\ \A i \in Oldest..HighestPublished(Oldest) : Available(i)
<1> DEFINE Gaps == {s \in Oldest..cursor : ~Available(s)}
           Ends(s) == /\ \A i \in Oldest..s : Available(i)
                      /\ s = cursor \/ ~Available(s + 1)
<1>1. Oldest \in Nat /\ cursor \in Int /\ Oldest <= cursor + 1
    BY WindowFacts
<1>2. \E s \in (Oldest - 1)..cursor : Ends(s)
  <2>1. CASE Gaps = {}
    <3>1. cursor \in (Oldest - 1)..cursor
        BY <1>1
    <3> QED
        BY <2>1, <3>1
  <2>2. CASE Gaps # {}
    <3>1. Gaps \in SUBSET Nat
        BY <1>1
    <3>2. PICK g \in Gaps : \A h \in Gaps : g <= h
        BY <2>2, <3>1, LeastNatural
    <3>3. /\ g \in Nat /\ Oldest <= g /\ g <= cursor /\ ~Available(g)
          /\ g - 1 \in (Oldest - 1)..cursor /\ (g - 1) + 1 = g
        BY <1>1, <3>1
    <3>4. ASSUME NEW i \in Oldest..(g - 1) PROVE Available(i)
      <4>1. i \in Oldest..cursor /\ ~(g <= i)
          BY <1>1, <3>3
      <4> QED
          BY <3>2, <4>1
    <3> QED
        BY <3>3, <3>4
  <2> QED
      BY <2>1, <2>2
<1>3. /\ HighestPublished(Oldest) \in (Oldest - 1)..cursor
      /\ Ends(HighestPublished(Oldest))
    BY <1>2 DEF HighestPublished
<1> QED
    BY <1>1, <1>3

(* What Run owes after Halt: everything up to the mark that is not yet     *)
(* handled is published, a drain that finds nothing is past the mark, and  *)
(* so is a Run that has returned.  room: a PopBatch that has copied        *)
(* nothing out still has room, so it ends for want of an element.          *)
Promised == mark <= cursor /\ \A s \in Oldest..mark : Available(s)

DrainInv ==
    /\ mark \in Int
    /\ cpc = "scan" /\ next = gating + 1 => room > 0
    /\ Processor =>
          /\ mode \in {"draining", "returned"} => halted
          /\ halted => Promised
          /\ mode = "draining" /\ cpc = "ready" => mark < Oldest
          /\ mode = "returned" => mark < Oldest

(* Every other action of a producer leaves the marks of the slots, and the *)
(* consumer's place among them, alone.                                     *)
QuietStep(p) ==
    \/ Offer(p) \/ LoadCursor(p) \/ CheckGating(p) \/ Claim(p) \/ ClaimLost(p)
    \/ WriteValue(p) \/ SignalReadable(p) \/ HasCapacityLoad(p) \/ HasCapacityCheck(p)
    \/ WakeWriter(p) \/ PollWriter(p) \/ GiveUp(p) \/ WaitWritable(p)
    \/ InterruptWriter(p)

(* What was promised stays promised until it is handled: a slot is marked  *)
(* for a later lap only behind Oldest.                                     *)
LEMMA PromiseStep ==
    ASSUME TypeOK, RingInvariant, [Next]_vars, mark \in Int, mark' = mark, Promised
    PROVE  Promised'
<1>1. /\ Oldest \in Nat /\ Capacity \in Nat /\ cursor \in Int /\ gating \in Int
      /\ gating < Oldest /\ Oldest <= cursor + 1 /\ cursor <= gating + Capacity
      /\ mark <= cursor
    BY WindowFacts DEF Promised
<1>2. ASSUME NEW p \in Producers, QuietStep(p) PROVE Promised'
  <2>1. /\ UNCHANGED <<gating, published, cpc, next>>
        /\ cursor' = cursor \/ (Claim(p) /\ cursor' = cursor + 1)
      BY <1>1, <1>2 DEF QuietStep, Offer, LoadCursor, CheckGating, Claim, ClaimLost,
         WriteValue, SignalReadable, HasCapacityLoad, HasCapacityCheck, WakeWriter,
         PollWriter, GiveUp, WaitWritable, InterruptWriter, ringVars, consumerVars
  <2>2. Oldest' = Oldest /\ \A s : Available(s)' = Available(s)
      BY <2>1 DEF Oldest, Available
  <2> QED
      BY <1>1, <2>1, <2>2 DEF Promised
<1>3. ASSUME NEW p \in Producers, Publish(p) PROVE Promised'
  <2>1. /\ UNCHANGED <<gating, cursor, cpc, next>>
        /\ published' = [published EXCEPT ![SlotOf(seen[p])] = seen[p]]
        /\ seen[p] \in Int
      BY <1>3 DEF Publish, consumerVars, TypeOK
  <2>2. Oldest' = Oldest /\ Oldest <= seen[p] /\ seen[p] <= cursor
      BY <1>3, <2>1 DEF Oldest, Publish, RingInvariant, ClaimsInv, Pending
  <2>3. ASSUME NEW s \in Oldest..mark PROVE published'[SlotOf(s)] = s
    <3>1. s \in Int /\ published[SlotOf(s)] = s /\ SlotOf(s) \in Slots
        BY <1>1, SlotInRange DEF Promised, Available
    <3>2. SlotOf(s) = SlotOf(seen[p]) => s = seen[p]
        BY <1>1, <2>1, <2>2, <3>1, SlotInjective
    <3> QED
        BY <2>1, <3>1, <3>2, SlotInRange DEF TypeOK
  <2> QED
      BY <1>1, <2>1, <2>2, <2>3 DEF Promised, Available
<1>4. ASSUME PopRelease PROVE Promised'
  <2>1. /\ UNCHANGED <<gating, cursor>> /\ next' = next + 1 /\ Oldest = next
        /\ Oldest' = next + 1
        /\ published' = [published EXCEPT ![SlotOf(next)] = next - Capacity]
      BY <1>4 DEF PopRelease, Oldest
  <2>2. ASSUME NEW s \in (next + 1)..mark PROVE published'[SlotOf(s)] = s
    <3>1. /\ s \in Int /\ s \in Oldest..mark /\ next \in Int /\ next # s
          /\ s - next < Capacity /\ next - s < Capacity
        BY <1>1, <2>1
    <3>2. published[SlotOf(s)] = s /\ SlotOf(s) \in Slots
        BY <3>1, SlotInRange DEF Promised, Available
    <3>3. SlotOf(s) # SlotOf(next)
        BY <3>1, SlotInjective
    <3> QED
        BY <2>1, <3>2, <3>3 DEF TypeOK
  <2> QED
      BY <1>1, <2>1, <2>2 DEF Promised, Available
<1>5. ASSUME \/ \E limit \in 1..BatchSize : PopStart(limit)
             \/ PopScan \/ PopRead \/ PopCommit \/ SignalWritable
             \/ AwaitReadable \/ PopUnready \/ PollReader \/ UNCHANGED vars
      PROVE  Promised'
  <2>1. UNCHANGED <<cursor, published>> /\ Oldest' = Oldest
      BY <1>1, <1>5 DEF PopStart, PopScan, PopRead, PopCommit, SignalWritable,
         AwaitReadable, HasReadable, WakeReader, PopUnready, PollReader, vars,
         ringVars, consumerVars, Oldest, TypeOK
  <2> QED
      BY <2>1 DEF Promised, Available
<1> QED
    BY <1>2, <1>3, <1>4, <1>5
       DEF Next, ProducerRuns, CallerChooses, Pop, Poll, Quiescent, QuietStep

(* PopBatch looks at ever later sequences, and one that has copied nothing *)
(* out has the room it was given.                                          *)
LEMMA ProgressStep ==
    ASSUME TypeOK, RingInvariant, [Next]_vars
    PROVE  /\ Oldest' >= Oldest
           /\ (cpc = "scan" /\ next = gating + 1 => room > 0)
                  => (cpc' = "scan" /\ next' = gating' + 1 => room' > 0)
<1>1. Oldest \in Nat /\ gating \in Int /\ gating < Oldest /\ next \in Int
    BY WindowFacts DEF TypeOK
<1>2. ASSUME PopRelease
      PROVE  Oldest' >= Oldest /\ next' # gating' + 1
  <2>1. gating' = gating /\ next' = next + 1 /\ Oldest = next /\ Oldest' = next + 1
      BY <1>2 DEF PopRelease, Oldest
  <2> QED
      BY <1>1, <2>1
<1>3. ASSUME NEW limit \in 1..BatchSize, PopStart(limit)
      PROVE  Oldest' >= Oldest /\ room' > 0
    BY <1>1, <1>3, BatchAssumption DEF PopStart, Oldest, ringVars
<1>4. ASSUME PopScan \/ PopRead \/ PopCommit \/ SignalWritable
             \/ AwaitReadable \/ PopUnready \/ PollReader
      PROVE  Oldest' >= Oldest /\ cpc' # "scan"
    BY <1>1, <1>4 DEF PopScan, PopRead, PopCommit, SignalWritable, AwaitReadable,
       HasReadable, WakeReader, PopUnready, PollReader, ringVars, Oldest
<1>5. ASSUME \/ \E p \in Producers : QuietStep(p) \/ Publish(p)
             \/ UNCHANGED vars
      PROVE  Oldest' >= Oldest /\ UNCHANGED <<gating, cpc, next, room>>
    BY <1>1, <1>5 DEF QuietStep, Publish, Offer, LoadCursor, CheckGating, Claim,
       ClaimLost, WriteValue, SignalReadable, HasCapacityLoad, HasCapacityCheck,
       WakeWriter, PollWriter, GiveUp, WaitWritable, InterruptWriter, ringVars,
       consumerVars, vars, Oldest
<1> QED
    BY <1>2, <1>3, <1>4, <1>5
       DEF Next, ProducerRuns, CallerChooses, Pop, Poll, Quiescent, QuietStep

(* Steps that leave the life of Run as it is.                              *)
LifeKept == UNCHANGED <<client, halted, mode, mark>>

LEMMA LifeKeptStep ==
    ASSUME TypeOK, RingInvariant, DrainInv, [Next]_vars, LifeKept,
           mode = "draining" /\ cpc # "ready" => cpc' # "ready" \/ PopScan
    PROVE  DrainInv'
<1>1. /\ Oldest' >= Oldest /\ mark \in Int /\ mark' = mark
      /\ cpc' = "scan" /\ next' = gating' + 1 => room' > 0
    BY ProgressStep DEF DrainInv, LifeKept
<1>2. Oldest \in Int /\ Oldest' \in Int
    BY TypeStep, InvStep, WindowFacts DEF Oldest, TypeOK
<1>3. ASSUME Processor
      PROVE  /\ Processor /\ (mode \in {"draining", "returned"} => halted)
             /\ (halted => Promised)
    BY <1>3 DEF DrainInv
<1>4. ASSUME Processor, halted PROVE Promised'
    BY <1>1, <1>3, <1>4, PromiseStep
<1>5. ASSUME Processor, mode = "draining", cpc' = "ready" PROVE mark < Oldest'
  <2>1. CASE cpc = "ready"
      BY <1>1, <1>2, <1>5, <2>1 DEF DrainInv
  <2>2. CASE cpc # "ready"
    <3>1. PopScan /\ next = gating + 1 /\ cpc = "scan" /\ ~(room > 0 /\ Available(next))
        BY <1>5, <2>2 DEF PopScan
    <3>2. room > 0 /\ Oldest = next /\ Oldest' = next
        BY <3>1, <1>5 DEF DrainInv, Oldest, PopScan, ringVars
    <3>3. ~(mark >= Oldest)
        BY <1>1, <1>2, <1>3, <1>5, <3>1, <3>2 DEF Promised
    <3> QED
        BY <1>1, <1>2, <3>2, <3>3
  <2> QED
      BY <2>1, <2>2
<1>6. ASSUME Processor, mode = "returned" PROVE mark < Oldest'
    BY <1>1, <1>2, <1>6 DEF DrainInv
<1> QED
    BY <1>1, <1>3, <1>4, <1>5, <1>6 DEF DrainInv, LifeKept, Processor

LEMMA DrainStep ==
    TypeOK /\ RingInvariant /\ DrainInv /\ [ConsumersNext]_consumersVars => DrainInv'
<1> SUFFICES ASSUME TypeOK, RingInvariant, DrainInv, [ConsumersNext]_consumersVars
             PROVE  DrainInv'
    OBVIOUS
<1>0. [Next]_vars
    BY StepIsRingStep
<1>1. ASSUME NEW p \in Producers, ProducerSteps(p) \/ CallerSteps(p) PROVE DrainInv'
  <2>1. LifeKept /\ cpc' = cpc
      BY <1>1 DEF ProducerSteps, CallerSteps, ProducerRuns, CallerChooses, LifeKept,
         choiceVars, processorVars, Offer, LoadCursor, CheckGating, Claim, ClaimLost,
         WriteValue, Publish, SignalReadable, HasCapacityLoad, HasCapacityCheck,
         WakeWriter, GiveUp, WaitWritable, InterruptWriter, consumerVars
  <2> QED
      BY <1>0, <2>1, LifeKeptStep
<1>2. ASSUME RunPops PROVE DrainInv'
  <2>1. LifeKept /\ (cpc' # "ready" \/ PopScan)
      BY <1>2 DEF RunPops, LifeKept, choiceVars, processorVars, Pop, PopStart, PopRead,
         PopRelease, PopCommit, SignalWritable
  <2> QED
      BY <1>0, <2>1, LifeKeptStep
<1>3. ASSUME RunWaits \/ Polls \/ Settled \/ Alert \/ ClearAlert \/ UNCHANGED consumersVars
      PROVE  DrainInv'
  <2>1. LifeKept /\ (mode = "running" \/ cpc' = cpc)
      BY <1>3 DEF RunWaits, Polls, Settled, Quiescent, Alert, ClearAlert, consumersVars,
         vars, consumerVars, LifeKept, choiceVars, processorVars
  <2> QED
      BY <1>0, <2>1, LifeKeptStep
<1>4. ASSUME Waits \/ WaitCancelled \/ WaitAgain PROVE DrainInv'
  <2>1. Barrier /\ client' = client /\ mark' = mark
        /\ (cpc' = "scan" /\ next' = gating' + 1 => room' > 0)
    <3>1. Barrier /\ client' = client /\ mark' = mark
        BY <1>4 DEF Waits, WaitAgain, WaitChecks, WaitLooks, WaitHolds, WaitReady,
           WaitToken, WaitInterrupted, WaitCancelled, choiceVars, processorVars
    <3> QED
        BY <1>0, <3>1, ProgressStep DEF DrainInv
  <2> QED
      BY <2>1 DEF DrainInv, Barrier, Processor
<1>5. ASSUME RunInterrupted \/ RunCancelled \/ RunAgain \/ RunReturns PROVE DrainInv'
  <2>1. /\ UNCHANGED <<cursor, gating, published, next, room, client, halted, mark>>
        /\ Oldest' = Oldest /\ Processor
        /\ cpc' # "scan"
      BY <1>5 DEF RunInterrupted, RunCancelled, RunAgain, RunReturns, PopUnready, vars,
         choiceVars, ringVars, consumerVars, Oldest
  <2>2. \/ mode' = "draining" /\ cpc' = "start" /\ halted
        \/ mode' \in {"running", "failed"}
        \/ mode' = "returned" /\ mode = "draining" /\ cpc = "ready"
      BY <1>5 DEF RunInterrupted, RunCancelled, RunAgain, RunReturns, PopUnready
  <2>3. halted => Promised
      BY <2>1 DEF DrainInv
  <2> QED
      BY <2>1, <2>2, <2>3 DEF DrainInv, Promised, Available, Processor
<1>6. ASSUME Halt PROVE DrainInv'
  <2>1. /\ UNCHANGED <<cursor, gating, published, cpc, next, room, client, mode>>
        /\ mark' = HighestPublished(Oldest) /\ halted' = TRUE /\ ~halted /\ Processor
      BY <1>6 DEF Halt, vars, ringVars, consumerVars, choiceVars
  <2>2. Oldest' = Oldest /\ mode \notin {"draining", "returned"}
      BY <2>1 DEF Oldest, DrainInv
  <2>3. mark' \in Int /\ Promised'
      BY <2>1, <2>2, HighestPublishedFacts DEF Promised, Available
  <2> QED
      BY <2>1, <2>2, <2>3 DEF DrainInv, Processor
<1> QED
    BY <1>1, <1>2, <1>3, <1>4, <1>5, <1>6 DEF ConsumersNext, Runs

(* When Run returns without an error after Halt, it has handled everything *)
(* that was published at the call of Halt, whatever token was in the       *)
(* channel, however often Run is called again, and also when the context   *)
(* of an earlier Run ended and left the elements where they were.          *)
THEOREM HaltDrainsHolds == ConsumersSpec => []HaltDrains
<1>1. ConsumersInit => DrainInv
    BY BatchAssumption DEF ConsumersInit, Init, DrainInv, Processor
<1>2. TypeOK /\ RingInvariant /\ DrainInv => HaltDrains
  <2> SUFFICES ASSUME TypeOK, RingInvariant, DrainInv, Processor, mode = "returned"
               PROVE  Len(delivered) > mark
      BY DEF HaltDrains
  <2>1. mark \in Int /\ mark < Oldest /\ Oldest \in Int
      BY WindowFacts DEF DrainInv
  <2>2. Len(delivered) \in {Oldest, Oldest + 1}
      BY DEF RingInvariant, HistoryInv
  <2> QED
      BY <2>1, <2>2
<1>3. ConsumersSpec => [](TypeOK /\ RingInvariant)
    BY ConsumersUseRing, RingInvariantHolds, PTL
<1> QED
    BY <1>1, <1>2, <1>3, DrainStep, PTL DEF ConsumersSpec

(* A processor or a producer beside it never sleeps through its token.     *)
THEOREM ConsumersStrandNobody == ConsumersSpec => []NobodyStranded
BY ConsumersUseRing, NobodyIsStranded, PTL
=============================================================================
