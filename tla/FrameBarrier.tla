---------------------------- MODULE FrameBarrier ----------------------------
(***************************************************************************)
(* What the point cloud pipeline of the Hesai SDK promises to the user of   *)
(* the frame callback, without threads or queues: the packets of a frame    *)
(* are accepted one by one, each is converted to points exactly once, in    *)
(* any order, and the frame is delivered only when every accepted packet    *)
(* has been converted.  FramePipeline implements this specification.        *)
(***************************************************************************)
EXTENDS Integers

CONSTANT MaxPackets      \* packets a frame buffer has room for, a positive number

VARIABLES phase,         \* "fill", "drain" (the frame is closed), "deliver", "stopped"
          size,          \* packets accepted in the current frame
          converted      \* the slots whose points have been computed

bvars == <<phase, size, converted>>

Phases == {"fill", "drain", "deliver", "stopped"}

BarrierTypeOK == /\ phase \in Phases
                 /\ size \in 0..MaxPackets
                 /\ converted \subseteq 0..(size - 1)

Init == /\ phase = "fill"
        /\ size = 0
        /\ converted = {}

\* A packet is accepted into the next slot of the frame being filled.
Accept == /\ phase = "fill"
          /\ size < MaxPackets
          /\ size' = size + 1
          /\ UNCHANGED <<phase, converted>>

\* A slot is converted, while the frame fills or after it was closed.
Convert == /\ phase \in {"fill", "drain", "stopped"}
           /\ \E i \in (0..(size - 1)) \ converted : converted' = converted \cup {i}
           /\ UNCHANGED <<phase, size>>

Close == /\ phase = "fill"
         /\ phase' = "drain"
         /\ UNCHANGED <<size, converted>>

\* Delivery waits for every accepted slot.
Deliver == /\ phase = "drain"
           /\ converted = 0..(size - 1)
           /\ phase' = "deliver"
           /\ UNCHANGED <<size, converted>>

\* The next frame starts empty.
NewFrame == /\ phase = "deliver"
            /\ phase' = "fill"
            /\ size' = 0
            /\ converted' = {}

\* The process thread ends between two frames' packets.
Finish == /\ phase = "fill"
          /\ phase' = "stopped"
          /\ UNCHANGED <<size, converted>>

Next == Accept \/ Convert \/ Close \/ Deliver \/ NewFrame \/ Finish

Spec == Init /\ [][Next]_bvars
=============================================================================
