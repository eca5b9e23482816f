----------------------------- MODULE ReceivePath -----------------------------
(***************************************************************************)
(* The way of the packets into the library, part by part: the ring between   *)
(* two threads (PacketRing), the sources that fill it (Reception), and the    *)
(* recorder that gets a copy (PcapSaver).  The parts meet only in the ring,   *)
(* which Reception takes from PacketFifo, so each is looked at by itself;     *)
(* the others stay as they begin.                                            *)
(***************************************************************************)
EXTENDS PacketRing, Reception

CONSTANTS CacheRoom, BufferRoom, MaxPackets, MaxCalls    \* see PcapSaver
VARIABLES
  part,    \* which part is looked at
  recording, user, calls, dumper, count, made, cache, dumping, writer, buffer, file, recorded,
  owed, remade                                           \* see PcapSaver

Saver == INSTANCE PcapSaver WITH receiver <- dumper, opened <- recorded, Receivers <- Producers
saverVars == <<recording, user, calls, dumper, count, made, cache, dumping, writer, buffer, file,
               recorded, owed, remade>>
pathVars == <<part, vars, receptionVars, saverVars>>

RingRests      == Init /\ taken = (CHOOSE x \in Packets : TRUE) /\ slots = [i \in Indices |-> taken]
ReceptionRests == StartsWith(CHOOSE s \in Setups : TRUE)

PathInit == \/ part = "ring" /\ Init /\ ReceptionRests /\ Saver!SaverInit
            \/ part = "source" /\ RingRests /\ ReceptionInit /\ Saver!SaverInit
            \/ part = "recorder" /\ RingRests /\ ReceptionRests /\ Saver!SaverInit

OfRing(A)     == part = "ring" /\ A /\ UNCHANGED <<part, receptionVars, saverVars>>
OfSource(A)   == part = "source" /\ A /\ UNCHANGED <<part, vars, saverVars>>
OfRecorder(A) == part = "recorder" /\ A /\ UNCHANGED <<part, vars, receptionVars>>

PathNext == OfRing(Next) \/ OfSource(ReceptionNext) \/ OfRecorder(Saver!SaverNext)

\* The fairness of LiveSpec for the ring.  The recorder's threads run on, and the calls of its
\* user return once they can; nobody has to call or to receive.
PathSpec ==
  /\ PathInit /\ [][PathNext]_pathVars
  /\ \A p \in Producers : WF_pathVars(OfRing(ProducerStep(p)))
  /\ \A c \in Consumers : WF_pathVars(OfRing(ConsumerStep(c)))
  /\ WF_pathVars(OfRecorder(Saver!WriterTakes))
  /\ WF_pathVars(OfRecorder(Saver!WriterEnds))
  /\ WF_pathVars(OfRecorder(Saver!StartReturns \/ Saver!StartFails \/ Saver!StopReturns))
  /\ \A r \in Producers : WF_pathVars(OfRecorder(Saver!Dumps(r)))

\* What is dumped while a recording is on is in its file, with the exception that stands at the
\* property.
RecordingComplete == Saver!RecordingComplete

\* Recording does not stop the reception, with the exception that stands at the property.
ReceptionGoesOn == Saver!ReceptionGoesOn
=============================================================================
