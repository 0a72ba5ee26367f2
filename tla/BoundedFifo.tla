---------------------------- MODULE BoundedFifo ----------------------------
(***************************************************************************)
(* What the disruptor ring promises its users: a FIFO of at most Capacity  *)
(* elements.  accepted is everything that ever entered, in order of        *)
(* entry; taken is everything that was handed to the consumer.  The queue  *)
(* itself is the part of accepted that is not yet in taken.                *)
(***************************************************************************)
EXTENDS Integers, Sequences

CONSTANTS Capacity, \* elements the queue can hold
          Items     \* elements that may be offered

VARIABLES accepted, taken

fifoVars == <<accepted, taken>>

FifoTypeOK == /\ accepted \in Seq(Items)
              /\ taken \in Seq(Items)

FifoInit == /\ accepted = <<>>
            /\ taken = <<>>

(* An element enters while there is room.                                  *)
Put(item) == /\ Len(accepted) - Len(taken) < Capacity
             /\ accepted' = Append(accepted, item)
             /\ UNCHANGED taken

(* The consumer gets the oldest element it has not had.                    *)
Take == /\ Len(taken) < Len(accepted)
        /\ taken' = Append(taken, accepted[Len(taken) + 1])
        /\ UNCHANGED accepted

FifoNext == Take \/ \E item \in Items : Put(item)

FifoSpec == FifoInit /\ [][FifoNext]_fifoVars
=============================================================================
