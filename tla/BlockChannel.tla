---------------------------- MODULE BlockChannel ----------------------------
(***************************************************************************)
(* What src/core/dsp/ringbuffer.h promises to the two threads it connects: *)
(* a first-in first-out channel of blocks for one producer and one         *)
(* consumer that holds at most Capacity blocks, opened by Start and closed *)
(* by Stop.  A closed channel promises nothing about blocks: whatever was  *)
(* queued is forgotten.  RingBuffer.tla is shown to implement this, and    *)
(* RadioPipeline.tla is built on two instances of it.                      *)
(***************************************************************************)
EXTENDS Naturals, Sequences

CONSTANTS Block,     (* the blocks that can be queued *)
          Capacity   (* how many fit *)

VARIABLES open,      (* between Start and Stop *)
          queue      (* blocks written and not yet released by the reader *)

chVars == <<open, queue>>

ChTypeOK == /\ open \in BOOLEAN
            /\ queue \in Seq(Block)

ChInit == open = FALSE /\ queue = <<>>

CanPut == open => Len(queue) < Capacity
CanGet == open => queue # <<>>

(* The producer publishes block b; a closed channel swallows it. *)
Put(b) == /\ CanPut
          /\ queue' = IF open THEN Append(queue, b) ELSE queue
          /\ UNCHANGED open

(* The consumer releases the oldest block. *)
Get == /\ CanGet
       /\ queue' = IF open THEN Tail(queue) ELSE queue
       /\ UNCHANGED open

Open == ~open /\ open' = TRUE /\ queue' = <<>>

Close == open /\ open' = FALSE /\ queue' = <<>>

ChNext == (\E b \in Block : Put(b)) \/ Get \/ Open \/ Close

ChSpec == ChInit /\ [][ChNext]_chVars

=============================================================================
