----------------------------- MODULE PacketFifo -----------------------------
(***************************************************************************)
(* What the rings of the Hesai SDK promise to the threads that share them:   *)
(* a first-in first-out queue with room for Capacity packets.              *)
(***************************************************************************)
EXTENDS Integers, Sequences

CONSTANTS Packets, Capacity

VARIABLES queue,
          out       \* the packet taken last

FifoInit == queue = <<>> /\ out \in Packets

Put  == /\ Len(queue) < Capacity
        /\ \E p \in Packets : queue' = Append(queue, p)
        /\ UNCHANGED out

Take == /\ queue # <<>>
        /\ out' = Head(queue)
        /\ queue' = Tail(queue)

Clear == queue' = <<>> /\ UNCHANGED out

FifoSpec == FifoInit /\ [][Put \/ Take \/ Clear]_<<queue, out>>
=============================================================================
