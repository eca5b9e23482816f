------------------------------- MODULE PtcLink -------------------------------
(***************************************************************************)
(* The command connection to the lidar (ptc_client.cc, tcp_client.cc) and   *)
(* its users in Lidar::Init and Lidar::InitSetPtc (lidar.h).                *)
(*                                                                         *)
(* A thread of the client, the opener, connects.  Other threads query: one   *)
(* at a time, behind a mutex, a query empties the socket, sends a command    *)
(* and looks for the header and the body of an answer in the byte stream.   *)
(* Answers may be late, refused or missing, and TCP delivers them in pieces. *)
(*                                                                         *)
(* A header is three tokens, its two identifiers and the fields, and a body  *)
(* is one; cutting a stream between bytes is cutting it between tokens.      *)
(***************************************************************************)
EXTENDS Integers, Sequences

CONSTANTS
  Programs,    \* what the threads ask of the client, see ProgramAssumption
  GivesUp,     \* ptc_connect_timeout is not negative
  MaxUnanswered \* bound on the requests the lidar leaves unanswered

Threads == {"loader", "setter", "caller"}   \* InitThread, InitSetPtc, a command line tool
Operations == [cmd : STRING,
               packages : Nat \ {0},  \* more than one for an upgrade
               long : BOOLEAN,        \* waits longer for an answer
               restores : BOOLEAN,    \* sets the timeouts back after a failure
               data : BOOLEAN]        \* an answer has a body
\* Answers to a command have a body always or never.  Upgrades and downloads come from a
\* tool with one thread.
IsProgram(p) ==
  /\ DOMAIN p \subseteq Threads
  /\ \A th \in DOMAIN p : p[th] \in Seq(Operations)
  /\ \A x, y \in DOMAIN p : \A i \in DOMAIN p[x] : \A j \in DOMAIN p[y] :
       p[x][i].cmd = p[y][j].cmd => p[x][i].data = p[y][j].data
  /\ \A th \in DOMAIN p : \A i \in DOMAIN p[th] : p[th][i].long => DOMAIN p = {th}

ASSUME ProgramAssumption ==
  /\ \A p \in Programs : IsProgram(p)
  /\ GivesUp \in BOOLEAN /\ MaxUnanswered \in Nat

VARIABLES
  prog,       \* the program
  opener,     \* where TryOpen is
  initOpen,   \* InitOpen: cleared by the destructor
  initRunning,\* init_running of Lidar
  ip,         \* lidar_ip_ is known
  connected,  \* m_bLidarConnected
  lastTimeout,\* last_recv_timeout_ms_
  sockTimeout,\* SO_RCVTIMEO of the socket
  mutex,      \* the thread that holds _mutex, or None
  t,          \* per thread: where it is, its operation and package, and the answer so far
  asked,      \* requests on their way to the lidar
  wire,       \* its answers on their way
  stream,     \* what has arrived
  closed,     \* the lidar has closed the connection
  unanswered, \* requests it has left unanswered
  accepted,   \* history: requests it has answered without an error
  givenUp,    \* history: requests that have failed here
  early,      \* history: a query has begun before the opener had set the timeouts
  kept        \* history: a failed operation has not set the timeouts back

lidarVars == <<asked, wire, stream, closed, unanswered, accepted>>
openVars == <<opener, initOpen, initRunning, ip, connected>>
timeoutVars == <<lastTimeout, sockTimeout>>
history == <<givenUp, early, kept>>
vars == <<prog, openVars, timeoutVars, mutex, t, lidarVars, history>>

None == "none"
NoRequest == <<None, 0, 0>>
Never == "never"               \* a thread that no wait may end
HeaderSize == 3

Init ==
  /\ prog \in Programs
  /\ opener = "ip" /\ initOpen = TRUE /\ initRunning = TRUE /\ ip \in BOOLEAN /\ connected = FALSE
  \* The constructor sets neither timeout; a socket without one waits for ever, as with 0.
  /\ lastTimeout \in {"zero", "unset"} /\ sockTimeout = "zero"
  /\ mutex = None
  /\ t = [th \in DOMAIN prog |->
            [pc |-> IF th = "loader" THEN "probe" ELSE "wait", op |-> 1, package |-> 1,
             saved |-> None, left |-> 0, head |-> <<>>, ok |-> FALSE,
             from |-> NoRequest, body |-> NoRequest]]
  /\ asked = <<>> /\ wire = <<>> /\ stream = <<>> /\ closed = FALSE /\ unanswered = 0
  /\ accepted = {} /\ givenUp = {} /\ early = FALSE /\ kept = FALSE

\* A lidar on the serial line has no such client.
NoClient ==
  /\ prog = <<>> /\ t = <<>>
  /\ opener = "done" /\ initOpen = FALSE /\ initRunning = FALSE /\ ip = FALSE /\ connected = FALSE
  /\ lastTimeout = "unset" /\ sockTimeout = "zero" /\ mutex = None
  /\ asked = <<>> /\ wire = <<>> /\ stream = <<>> /\ closed = FALSE /\ unanswered = 0
  /\ accepted = {} /\ givenUp = {} /\ early = FALSE /\ kept = FALSE
-----------------------------------------------------------------------------
(***************************************************************************)
(* TryOpen                                                                 *)
(***************************************************************************)
SetSocketTimeout(value) == lastTimeout' = value /\ sockTimeout' = value

HasIp == /\ opener = "ip" /\ initOpen /\ ip
         /\ opener' = "connect"
         /\ UNCHANGED <<initOpen, initRunning, ip, connected, timeoutVars>>

Connects == /\ opener = "connect" /\ initOpen
            /\ connected' = TRUE /\ opener' = "opened"
            /\ UNCHANGED <<initOpen, initRunning, ip, timeoutVars>>

\* The loops that wait for an address and for a connection end with the client, or after
\* ptc_connect_timeout.
AbandonsDeaf ==              \* mutant: the loops do not look at InitOpen
  /\ opener \in {"ip", "connect"} /\ GivesUp
  /\ opener' = "done"
  /\ UNCHANGED <<initOpen, initRunning, ip, connected, timeoutVars>>
Abandons == /\ opener \in {"ip", "connect"} /\ (~initOpen \/ GivesUp)
            /\ opener' = "done"
            /\ UNCHANGED <<initOpen, initRunning, ip, connected, timeoutVars>>

SetsTimeouts == /\ opener = "opened"
                /\ IF initOpen THEN SetSocketTimeout("configured") ELSE UNCHANGED timeoutVars
                /\ opener' = "done"
                /\ UNCHANGED <<initOpen, initRunning, ip, connected>>

OpenerLeaves == Abandons \/ SetsTimeouts
OpenerStep == /\ HasIp \/ Connects \/ OpenerLeaves
              /\ UNCHANGED <<prog, mutex, t, lidarVars, history>>

\* ~PtcClient, when nobody uses the client any more; it joins the opener.
Destroys == /\ initOpen /\ \A th \in DOMAIN t : t[th].pc = "end"
            /\ initOpen' = FALSE
            /\ UNCHANGED <<prog, opener, initRunning, ip, connected, timeoutVars, mutex, t, lidarVars,
                           history>>

\* ~Lidar, or the end of a failed initialisation.
StopsInit == /\ initRunning /\ initRunning' = FALSE
             /\ UNCHANGED <<prog, opener, initOpen, ip, connected, timeoutVars, mutex, t, lidarVars,
                            history>>
-----------------------------------------------------------------------------
(***************************************************************************)
(* Around the queries                                                      *)
(***************************************************************************)
Op(th) == prog[th][t[th].op]
Request(th) == <<th, t[th].op, t[th].package>>
Goes(th, pc) == t' = [t EXCEPT ![th].pc = pc]

\* InitThread: the first packet gives the lidar's address.
Probes(th) == /\ t[th].pc = "probe"
              /\ ip' = TRUE
              /\ Goes(th, "wait")
              /\ UNCHANGED <<opener, initOpen, initRunning, connected, timeoutVars, mutex, lidarVars,
                             history>>

\* The loader goes on without a connection when the time is over; InitSetPtc ends with the
\* initialisation, whether or not it has set anything; the tools wait for ever.
Waits(th) ==
  /\ t[th].pc = "wait"
  /\ \/ /\ connected /\ (th = "setter" => initRunning)
        /\ Goes(th, "ready")
     \/ /\ th = "loader" /\ (GivesUp \/ ~initRunning)
        /\ Goes(th, "ready")
     \/ /\ th = "setter" /\ ~initRunning
        /\ Goes(th, "end")
  /\ UNCHANGED <<openVars, timeoutVars, mutex, lidarVars, history>>

\* The next operation; an upgrade or a download asks for more patience first.
Begins(th) ==
  /\ t[th].pc = "ready" /\ t[th].op <= Len(prog[th])
  /\ IF Op(th).long /\ opener \in {"connect", "opened", "done"} THEN SetSocketTimeout("long")
     ELSE UNCHANGED timeoutVars
  /\ Goes(th, "open")
  /\ UNCHANGED <<openVars, mutex, lidarVars, history>>

\* The end of InitThread stops InitSetPtc.
Ends(th) == /\ t[th].pc = "ready" /\ t[th].op > Len(prog[th])
            /\ initRunning' = (initRunning /\ th # "loader")
            /\ Goes(th, "end")
            /\ UNCHANGED <<opener, initOpen, ip, connected, timeoutVars, mutex, lidarVars, history>>

\* A query has returned: the next package, or the end of the operation.
RetriesFailed(th) ==          \* mutant: a failed package does not end the upgrade
  LET next == t[th].package < Op(th).packages IN
  /\ t[th].pc = "returned"
  /\ t' = [t EXCEPT ![th].pc = IF next THEN "open" ELSE "ready",
                    ![th].package = IF next THEN @ + 1 ELSE 1,
                    ![th].op = IF next THEN @ ELSE @ + 1]
  /\ IF Op(th).long /\ ~next THEN SetSocketTimeout("configured") ELSE UNCHANGED timeoutVars
  /\ UNCHANGED <<openVars, mutex, lidarVars, history>>

\* After a failure UpgradeLidar(dataIn) does not set the timeouts back.
Continues(th) ==
  LET next == t[th].ok /\ t[th].package < Op(th).packages
      restores == Op(th).long /\ ~next /\ (t[th].ok \/ Op(th).restores)
  IN
  /\ t[th].pc = "returned"
  /\ t' = [t EXCEPT ![th].pc = IF next THEN "open" ELSE "ready",
                    ![th].package = IF next THEN @ + 1 ELSE 1,
                    ![th].op = IF next THEN @ ELSE @ + 1]
  /\ IF restores THEN SetSocketTimeout("configured") ELSE UNCHANGED timeoutVars
  /\ kept' = (kept \/ (Op(th).long /\ ~next /\ ~restores))
  /\ UNCHANGED <<openVars, mutex, lidarVars, givenUp, early>>
-----------------------------------------------------------------------------
(***************************************************************************)
(* QueryCommand                                                            *)
(***************************************************************************)
\* IsOpen is asked before the mutex is taken.
Opens(th) ==
  /\ t[th].pc = "open"
  /\ IF connected THEN Goes(th, "lock") /\ UNCHANGED givenUp
     ELSE /\ t' = [t EXCEPT ![th].pc = "returned", ![th].ok = FALSE]
          /\ givenUp' = givenUp \cup {Request(th)}
  /\ UNCHANGED <<openVars, timeoutVars, mutex, lidarVars, early, kept>>

Locks(th) ==
  /\ t[th].pc = "lock" /\ mutex = None
  /\ mutex' = th
  /\ sockTimeout' = "flush"
  /\ early' = (early \/ opener = "opened")
  /\ Goes(th, "flush")
  /\ UNCHANGED <<openVars, lastTimeout, lidarVars, givenUp, kept>>

\* TcpFlushIn: what is there is thrown away until nothing comes for a while; then the last
\* timeouts are set again.
Flushes(th) ==
  /\ t[th].pc = "flush"
  /\ IF stream # <<>> THEN stream' = <<>> /\ UNCHANGED t
     ELSE t' = [t EXCEPT ![th].pc = "restore", ![th].saved = lastTimeout] /\ UNCHANGED stream
  /\ UNCHANGED <<openVars, timeoutVars, mutex, asked, wire, closed, unanswered, accepted, history>>

RestoresNothing(th) ==        \* mutant: the flush leaves its timeout behind
  /\ t[th].pc = "restore"
  /\ Goes(th, "send")
  /\ UNCHANGED <<openVars, timeoutVars, mutex, lidarVars, history>>
Restores(th) == /\ t[th].pc = "restore"
                /\ SetSocketTimeout(t[th].saved)
                /\ Goes(th, "send")
                /\ UNCHANGED <<openVars, mutex, lidarVars, history>>

Returns(th, ok, from, body) ==
  /\ t' = [t EXCEPT ![th].pc = "returned", ![th].ok = ok, ![th].from = from, ![th].body = body]
  /\ mutex' = None
  /\ givenUp' = IF ok THEN givenUp ELSE givenUp \cup {Request(th)}

\* A connection that the lidar has closed may still take the command.
Sends(th) ==
  /\ t[th].pc = "send"
  /\ \/ /\ asked' = IF closed THEN asked ELSE Append(asked, [cmd |-> Op(th).cmd, req |-> Request(th)])
        /\ t' = [t EXCEPT ![th].pc = "head", ![th].left = HeaderSize, ![th].head = <<>>]
        /\ UNCHANGED <<mutex, givenUp>>
     \/ /\ closed
        /\ Returns(th, FALSE, NoRequest, NoRequest)
        /\ UNCHANGED asked
  /\ UNCHANGED <<openVars, timeoutVars, wire, stream, closed, unanswered, accepted, early, kept>>

\* The place of the first pair of identifiers in what one recv() has returned.
Identifier(chunk) ==
  LET hits == {i \in 1..(Len(chunk) - 1) : chunk[i].t = "id0" /\ chunk[i + 1].t = "id1"}
  IN IF hits = {} THEN 0 ELSE CHOOSE i \in hits : \A j \in hits : i <= j

FitsLengthOnly(h, cmd) == h.t = "fields" /\ h.ok      \* mutant
\* The header is a valid answer to the command.
Fits(h, cmd) == h.t = "fields" /\ h.ok /\ h.cmd = cmd

\* recv() returns no more than what is missing of the header.  A piece without both
\* identifiers is dropped as long as none were found.
ReceivesHead(th) ==
  LET n     == IF Len(stream) < t[th].left THEN Len(stream) ELSE t[th].left
      chunk == SubSeq(stream, 1, n)
      at    == IF t[th].head # <<>> THEN 1 ELSE Identifier(chunk)
      head  == IF at = 0 THEN <<>> ELSE t[th].head \o SubSeq(chunk, at, n)
      h     == head[HeaderSize]
  IN
  /\ t[th].pc = "head" /\ stream # <<>>
  /\ stream' = SubSeq(stream, n + 1, Len(stream))
  /\ IF Len(head) < HeaderSize
     THEN /\ t' = [t EXCEPT ![th].head = head, ![th].left = HeaderSize - Len(head)]
          /\ UNCHANGED <<mutex, givenUp>>
     ELSE IF ~Fits(h, Op(th).cmd) THEN Returns(th, FALSE, NoRequest, NoRequest)
     ELSE IF ~h.data THEN Returns(th, TRUE, h.req, NoRequest)
     ELSE /\ t' = [t EXCEPT ![th].pc = "body", ![th].from = h.req]
          /\ UNCHANGED <<mutex, givenUp>>
  /\ UNCHANGED <<openVars, timeoutVars, asked, wire, closed, unanswered, accepted, early, kept>>

ReceivesBody(th) ==
  /\ t[th].pc = "body" /\ stream # <<>>
  /\ stream' = Tail(stream)
  /\ Returns(th, TRUE, t[th].from, Head(stream).req)
  /\ UNCHANGED <<openVars, timeoutVars, asked, wire, closed, unanswered, accepted, early, kept>>

\* recv() gives up, at once when the connection is closed.
TimesOutOnError(th) ==        \* mutant: an end of the stream is not taken for a failure
  /\ t[th].pc \in {"head", "body"} /\ stream = <<>>
  /\ sockTimeout # "zero" /\ ~closed
  /\ Returns(th, FALSE, NoRequest, NoRequest)
  /\ UNCHANGED <<openVars, timeoutVars, lidarVars, early, kept>>
TimesOut(th) ==
  /\ t[th].pc \in {"head", "body"} /\ stream = <<>>
  /\ sockTimeout # "zero" \/ closed
  /\ Returns(th, FALSE, NoRequest, NoRequest)
  /\ UNCHANGED <<openVars, timeoutVars, lidarVars, early, kept>>

ThreadStep(th) ==
  /\ \/ Probes(th) \/ Waits(th) \/ Begins(th) \/ Ends(th) \/ Continues(th)
     \/ Opens(th) \/ Locks(th) \/ Flushes(th) \/ Restores(th) \/ Sends(th)
     \/ ReceivesHead(th) \/ ReceivesBody(th) \/ TimesOut(th)
  /\ UNCHANGED prog
-----------------------------------------------------------------------------
(***************************************************************************)
(* The lidar and the network                                               *)
(***************************************************************************)
\* Every operation with this command has a body in its answer, or none has.
HasData(cmd) == \E th \in DOMAIN prog : \E i \in DOMAIN prog[th] :
                  prog[th][i].cmd = cmd /\ prog[th][i].data

Answer(r, ok) ==
  LET data == ok /\ HasData(r.cmd) IN
  <<[t |-> "id0"], [t |-> "id1"],
    [t |-> "fields", cmd |-> r.cmd, ok |-> ok, req |-> r.req, data |-> data]>>
  \o IF data THEN <<[t |-> "body", req |-> r.req]>> ELSE <<>>

Answers == /\ asked # <<>> /\ ~closed
           /\ \E ok \in BOOLEAN :
                /\ wire' = wire \o Answer(Head(asked), ok)
                /\ accepted' = IF ok THEN accepted \cup {Head(asked).req} ELSE accepted
           /\ asked' = Tail(asked)
           /\ UNCHANGED <<stream, closed, unanswered>>

Ignores == /\ asked # <<>> /\ unanswered < MaxUnanswered
           /\ asked' = Tail(asked) /\ unanswered' = unanswered + 1
           /\ UNCHANGED <<wire, stream, closed, accepted>>

Arrives == /\ wire # <<>>
           /\ stream' = Append(stream, Head(wire)) /\ wire' = Tail(wire)
           /\ UNCHANGED <<asked, closed, unanswered, accepted>>

Closes == /\ connected /\ ~closed
          /\ closed' = TRUE /\ asked' = <<>> /\ wire' = <<>>
          /\ UNCHANGED <<stream, unanswered, accepted>>

LidarStep == /\ Answers \/ Ignores \/ Arrives \/ Closes
             /\ UNCHANGED <<prog, openVars, timeoutVars, mutex, t, history>>

Next == OpenerStep \/ Destroys \/ StopsInit \/ LidarStep \/ \E th \in DOMAIN t : ThreadStep(th)

\* Threads run and timeouts end waits; the lidar need not connect or answer.
Fairness == /\ WF_vars(OpenerLeaves /\ UNCHANGED <<prog, mutex, t, lidarVars, history>>)
            /\ WF_vars(Destroys)
            /\ \A th \in Threads : WF_vars(th \in DOMAIN t /\ ThreadStep(th))
Spec == Init /\ [][Next]_vars /\ Fairness
-----------------------------------------------------------------------------
(***************************************************************************)
(* Properties                                                              *)
(***************************************************************************)
\* An answer that a query returns is one the lidar has given to this very request, header
\* and body; it belongs to another with the same command only if a request with it was given
\* up: the late answer is taken by the next query, and each answer after it by the one after.
\* No answer is patched together from two.
AnswerIsOwn ==
  \A th \in DOMAIN t : t[th].pc = "returned" /\ t[th].ok =>
    LET from == t[th].from IN
    /\ from \in accepted
    /\ t[th].body \in {from, NoRequest} /\ (t[th].body = NoRequest <=> ~Op(th).data)
    /\ \/ from = Request(th)
       \/ /\ prog[from[1]][from[2]].cmd = Op(th).cmd
          /\ \E r \in givenUp : prog[r[1]][r[2]].cmd = Op(th).cmd

\* An upgrade whose last package succeeds has had every package accepted by the lidar, if
\* no other operation with the command has left late answers behind.
UpgradeComplete ==
  \A th \in DOMAIN t :
    t[th].pc = "returned" /\ t[th].ok /\ t[th].package = Op(th).packages =>
      \/ \A k \in 1..Op(th).packages : <<th, t[th].op, k>> \in accepted
      \/ \E r \in givenUp : <<r[1], r[2]>> # <<th, t[th].op>> /\ prog[r[1]][r[2]].cmd = Op(th).cmd

\* When nobody queries, the socket has the configured timeouts, whatever flushes and long
\* operations have set in between.  Two ways lead out: a query that begins before the
\* opener has set them puts back what was never set, and UpgradeLidar(dataIn) returns from
\* a failure without setting them back.
TimeoutsRestored ==
  /\ opener = "done" /\ connected /\ initOpen /\ ~early /\ ~kept
  /\ \A th \in DOMAIN t : t[th].pc \in {"probe", "wait", "ready", "end"}
  => sockTimeout = "configured" /\ lastTimeout = "configured"

\* Every query returns, however little the lidar answers, and so do the threads behind
\* it, unless a socket timeout that was never set makes it wait for ever.
QueryReturns ==
  \A th \in Threads :
    (th \in DOMAIN t /\ t[th].pc = "lock") ~> (early \/ th \notin DOMAIN t \/ t[th].pc = "returned")

\* The destructor's join returns: TryOpen ends wherever it is.
OpenerJoins == ~initOpen ~> opener = "done"
=============================================================================
