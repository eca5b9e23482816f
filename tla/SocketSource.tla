----------------------------- MODULE SocketSource -----------------------------
(***************************************************************************)
(* Points from a UDP socket (socket_source.cc): a datagram is read at once,  *)
(* and only after a read in vain does Receive wait in select().             *)
(***************************************************************************)
EXTENDS Received

CONSTANT SocketRoom  \* datagrams that the socket holds

VARIABLES
  script,     \* the kinds of the packets that the lidar sends: "points", "fault" or "gps"
  sent,       \* how many it has sent
  wire,       \* the datagrams that wait in the socket
  selecting,  \* is_select_
  got,        \* what Receive returned
  arrived     \* history: the packets that came as far as the socket

\* The lidar sends; the network or a full socket loses datagrams.
Sends == /\ sent < Len(script)
         /\ sent' = sent + 1
         /\ \/ UNCHANGED <<wire, arrived>>
            \/ /\ Len(wire) < SocketRoom
               /\ wire' = Append(wire, Result(script[sent + 1], Intact(sent + 1, 1)))
               /\ arrived' = arrived \cup {sent + 1}
         /\ UNCHANGED <<script, selecting, got>>

RecvFrom == /\ wire # <<>>
            /\ got' = Head(wire) /\ wire' = Tail(wire)

\* A read in vain only notes that the next call is to wait.
ReadsInVain == wire = <<>> /\ got' = Nothing /\ UNCHANGED wire

\* select() comes back with a datagram, after its time, or with an error.
Selects == \/ RecvFrom /\ selecting' = FALSE
           \/ wire = <<>> /\ got' = Silence /\ UNCHANGED <<wire, selecting>>
           \/ got' = Nothing /\ UNCHANGED <<wire, selecting>>

Receive == /\ \/ selecting /\ Selects
              \/ ~selecting /\ RecvFrom /\ UNCHANGED selecting
              \/ ~selecting /\ ReadsInVain /\ selecting' = TRUE
           /\ UNCHANGED <<script, sent, arrived>>
=============================================================================
