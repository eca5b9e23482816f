----------------------------- MODULE PacketRing -----------------------------
(***************************************************************************)
(* The ring through which the threads of the Hesai SDK hand packets on      *)
(* (blocking_ring.cc over ring.cc): an array with a first index and a size, *)
(* one mutex, and one condition variable for those who wait for room and    *)
(* those who wait for a packet.  Receive threads push and wait without a    *)
(* limit; Run() pops and gives up after 100 ms.                            *)
(*                                                                         *)
(* Everything between taking and giving back the mutex is one step.        *)
(***************************************************************************)
EXTENDS Integers, Sequences, FiniteSets

CONSTANTS Packets,     \* what is handed on
          Producers,   \* threads that call emplace_back or push_back
          Consumers,   \* threads that call try_pop_front
          Capacity     \* N

ASSUME RingAssumption == /\ Capacity \in Nat \ {0}
                         /\ Producers \cap Consumers = {}

VARIABLES
  slots,     \* _ring
  begin,     \* _begin
  size,      \* _size
  at,        \* where each thread is
  taken      \* the packet that try_pop_front returned last

vars == <<slots, begin, size, at, taken>>

Threads == Producers \cup Consumers
Places  == {"idle", "lock", "wait"}
Indices == 0..(Capacity - 1)

TypeOK == /\ slots \in [Indices -> Packets]
          /\ begin \in Indices
          /\ size \in 0..Capacity
          /\ at \in [Threads -> Places]
          /\ taken \in Packets

Init == /\ slots \in [Indices -> Packets]
        /\ begin = 0
        /\ size = 0
        /\ at = [t \in Threads |-> "idle"]
        /\ taken \in Packets
-----------------------------------------------------------------------------
NotFull  == size < Capacity
NotEmpty == size # 0

\* A thread calls a function of the ring.
Call(t) == /\ at[t] = "idle"
           /\ at' = [at EXCEPT ![t] = "lock"]
           /\ UNCHANGED <<slots, begin, size, taken>>

\* The condition does not hold: the thread waits, and the mutex is free again.
Wait(t) == /\ at[t] = "lock"
           /\ IF t \in Producers THEN ~NotFull ELSE ~NotEmpty
           /\ at' = [at EXCEPT ![t] = "wait"]
           /\ UNCHANGED <<slots, begin, size, taken>>

\* notify_one and return: one waiting thread, of either kind, will look again.
ReturnSilently(t) == at' = [at EXCEPT ![t] = "idle"]     \* mutant
NotifyAndReturn(t) ==
  LET waiting == {u \in Threads \ {t} : at[u] = "wait"}
  IN \/ /\ waiting = {}
        /\ at' = [at EXCEPT ![t] = "idle"]
     \/ \E u \in waiting : at' = [at EXCEPT ![t] = "idle", ![u] = "lock"]

\* Where the next packet goes.
BackAtSize == size % Capacity     \* mutant
Back == (begin + size) % Capacity

Push(p, x) ==
  /\ at[p] = "lock" /\ NotFull
  /\ slots' = [slots EXCEPT ![Back] = x]
  /\ size' = size + 1
  /\ NotifyAndReturn(p)
  /\ UNCHANGED <<begin, taken>>

\* peek_front and eff_pop_front.
PopFront == /\ taken' = slots[begin]
            /\ begin' = (begin + 1) % Capacity
            /\ size' = size - 1
            /\ UNCHANGED slots

TryPop(c) == /\ at[c] = "lock" /\ NotEmpty
             /\ PopFront
             /\ NotifyAndReturn(c)

\* 100 ms have passed: the condition is tested a last time, and another thread is
\* notified also when nothing was popped.
Timeout(c) ==
  /\ at[c] = "wait"
  /\ \/ NotEmpty /\ PopFront
     \/ ~NotEmpty /\ UNCHANGED <<slots, begin, size, taken>>
  /\ NotifyAndReturn(c)

\* A condition variable may wake a thread for no reason.
SpuriousWake(t) == /\ at[t] = "wait"
                   /\ at' = [at EXCEPT ![t] = "lock"]
                   /\ UNCHANGED <<slots, begin, size, taken>>

\* eff_clear notifies nobody.  Run() calls it on the ring of decoded packets, of which
\* it is the only producer: no producer is waiting then.
EffClear == /\ \A p \in Producers : at[p] = "idle"
            /\ size' = 0
            /\ begin' = 0
            /\ UNCHANGED <<slots, at, taken>>

ProducerStep(p) == Wait(p) \/ \E x \in Packets : Push(p, x)
ConsumerStep(c) == Call(c) \/ Wait(c) \/ TryPop(c) \/ Timeout(c)

Next == \/ EffClear
        \/ \E p \in Producers : Call(p) \/ ProducerStep(p)
        \/ \E c \in Consumers : ConsumerStep(c)
        \/ \E t \in Threads : SpuriousWake(t)

Spec == Init /\ [][Next]_vars

\* A thread gets the mutex in the end, the consumer calls again and again, and its
\* timeout expires.  Nobody has to push or to wake for no reason.
LiveSpec == /\ Spec
            /\ \A p \in Producers : WF_vars(ProducerStep(p))
            /\ \A c \in Consumers : WF_vars(ConsumerStep(c))
-----------------------------------------------------------------------------
(***************************************************************************)
(* Properties                                                              *)
(***************************************************************************)
\* The ring is a bounded queue: packets leave in the order in which they came, none is
\* overwritten and none comes out twice.
Contents == [i \in 1..size |-> slots[(begin + i - 1) % Capacity]]

Fifo == INSTANCE PacketFifo WITH queue <- Contents, out <- taken
FifoSpec == Fifo!FifoSpec

\* No wake-up is lost for good: a thread does not stay waiting while the ring has what
\* it waits for, although a push may notify another producer instead of the consumer.
CouldGo(t) == at[t] = "wait" /\ (IF t \in Producers THEN NotFull ELSE NotEmpty)
WaitersWake == \A t \in Threads : CouldGo(t) ~> ~CouldGo(t)
=============================================================================
