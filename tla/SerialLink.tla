------------------------------ MODULE SerialLink ------------------------------
(***************************************************************************)
(* The commands over the serial line (serial_client.cc), with the            *)
(* acknowledgements that ReceivedThread takes from the stream                *)
(* (serial_source.cc).  A client either asks for a few things, as InitThread *)
(* does for the correction, or upgrades the lidar's firmware.                *)
(*                                                                         *)
(* An acknowledgement does not name the request or the package it answers,   *)
(* and may be lost or late.  The line has one speed for point clouds and one *)
(* for an upgrade; what is sent at the wrong speed is among what is lost.    *)
(***************************************************************************)
EXTENDS Integers, Sequences

CONSTANTS
  QueryLists, \* what a client may ask for: sequences of [sub, type], the kind and which one
  Packages    \* packages of 1024 bytes in an upgrade

VARIABLES
  job,        \* what the client does: an upgrade, a list of queries, or nothing
  c,          \* where it is, its result and what it knows
  port,       \* receiveStype of the open port, or "closed"
  acks,       \* cmdAckRecvBuf
  orders,     \* requests on their way to the lidar
  air,        \* its acknowledgements on their way
  inPbl,      \* the lidar runs its boot loader
  written     \* the packages in the lidar's memory

vars == <<job, c, port, acks, orders, air, inPbl, written>>

Nothing == [sub |-> "nothing", type |-> 0]
Jobs == [kind : {"upgrade app", "upgrade pbl"}, list : {<<>>}]
          \cup [kind : {"queries"}, list : QueryLists]
Upgrading == job.kind \in {"upgrade app", "upgrade pbl"}

Client(pc) ==
  [pc |-> pc, ret |-> "zero",
   i |-> 1,                \* the query, or the package
   rest |-> Packages = 1,  \* the package goes on to the end of the file
   taken |-> Nothing,      \* the request whose answer a query has returned
   skipped |-> {},         \* history: the announcements the upgrade went on without
   unaccepted |-> {},      \* history: what was taken for a package's answer, with the code zero
   refusals |-> {},        \* history: the codes of refusals that were read
   failed |-> {}]          \* history: the kinds of queries that have failed

Init == /\ job \in Jobs
        /\ c = Client("start")
        /\ port = IF Upgrading THEN "closed" ELSE "cloud"
        /\ inPbl \in {FALSE, Upgrading}
        /\ acks = <<>> /\ orders = <<>> /\ air = <<>> /\ written = {}

\* Without a serial port there is nothing to do.
NoPort == /\ job = [kind |-> "none", list |-> <<>>] /\ c = Client("end") /\ port = "closed" /\ inPbl = FALSE
          /\ acks = <<>> /\ orders = <<>> /\ air = <<>> /\ written = {}
-----------------------------------------------------------------------------
(***************************************************************************)
(* Requests and their acknowledgements                                     *)
(***************************************************************************)
\* QueryCommand, OtaQueryCommand: the ring is emptied before a request is sent.
Asks(request, client) == /\ acks' = <<>>
                         /\ orders' = Append(orders, request)
                         /\ c' = client

\* The upgrade closes the port behind it.
Ends(client, ret) == /\ c' = [client EXCEPT !.pc = "end", !.ret = ret]
                     /\ port' = IF Upgrading THEN "closed" ELSE port

\* Receive() waits for an acknowledgement until the time is over.
Silence == acks = <<>>
First == Head(acks)

\* An announcement, of the version or of readiness, that a step does not take may come later.
Missing(status) == IF ~Silence /\ First.status = status THEN {} ELSE {status}

\* SerialStreamDecode fails on an acknowledgement of the other kind, whose checksum lies in
\* the other byte order.  Of a command's the kind of the request is compared, but not which
\* one of this kind it was.
DecodesAny(a, sub) == a.kind = IF sub = "package" THEN "ota" ELSE "cmd"          \* mutant
Decodes(a, sub) == IF sub = "package" THEN a.kind = "ota" ELSE a.kind = "cmd" /\ a.to.sub = sub
-----------------------------------------------------------------------------
(***************************************************************************)
(* GetCorrectionInfo, GetSnInfo, GetLidarVersion, GetLidarFaultState: a      *)
(* change of mode, the query, and the change back.  What becomes of the      *)
(* changes is not looked at.                                               *)
(***************************************************************************)
Mode == [sub |-> "mode", type |-> 0]

ChangesMode == /\ c.pc = "start" /\ ~Upgrading
               /\ Asks(Mode, [c EXCEPT !.pc = "mode"])
               /\ UNCHANGED port

Queries == /\ c.pc = "mode" /\ ~Upgrading
           /\ Asks(job.list[c.i], [c EXCEPT !.pc = "query"])
           /\ UNCHANGED port

ChangesBack ==
  LET sub  == job.list[c.i].sub
      good == ~Silence /\ Decodes(First, sub) /\ First.code = "zero"
  IN
  /\ c.pc = "query"
  /\ Asks(Mode, [c EXCEPT !.pc = "back", !.taken = IF good THEN First.to ELSE Nothing,
                          !.failed = IF good THEN @ ELSE @ \cup {sub}])
  /\ UNCHANGED port

Returns == /\ c.pc = "back"
           /\ IF c.i < Len(job.list) THEN c' = [c EXCEPT !.pc = "start", !.i = @ + 1] /\ UNCHANGED port
              ELSE Ends(c, "zero")
           /\ UNCHANGED <<acks, orders>>
-----------------------------------------------------------------------------
(***************************************************************************)
(* UpgradeLidar                                                            *)
(***************************************************************************)
Starts == /\ c.pc = "start" /\ Upgrading
          /\ port' = "command"
          /\ Asks([sub |-> "pbl", type |-> 0], [c EXCEPT !.pc = "pbl"])

\* GetPblVersionIdInPbl takes what comes first.  A long answer comes from the boot loader,
\* which cannot replace itself.
Locates ==
  LET pbl == ~Silence /\ First.long IN
  /\ c.pc = "pbl"
  /\ IF pbl /\ job.kind = "upgrade pbl" THEN Ends(c, "in pbl")
     ELSE /\ c' = [c EXCEPT !.pc = IF pbl THEN "ota" ELSE "app", !.skipped = @ \cup Missing("version")]
          /\ port' = IF pbl THEN "command" ELSE "cloud"
  /\ acks' = <<>>
  /\ UNCHANGED orders

\* The port is closed and opened between the steps.  That may fail, and then the upgrade or
\* its next request does.
FailsToOpen == /\ c.pc \in {"start", "app", "ready", "ota"} /\ Upgrading
               /\ Ends(c, "error")
               /\ UNCHANGED <<acks, orders>>

EntersUpgrade == /\ c.pc = "app"
                 /\ Asks(Mode, [c EXCEPT !.pc = "mode"])
                 /\ UNCHANGED port

\* ChangeMode(0x04): without an answer the upgrade goes on.
Requests ==
  /\ c.pc = "mode" /\ Upgrading
  /\ IF Silence \/ (Decodes(First, "mode") /\ First.code = "zero")
     THEN Asks([sub |-> "large", type |-> 0], [c EXCEPT !.pc = "large"]) /\ UNCHANGED port
     ELSE Ends(c, "error") /\ UNCHANGED <<acks, orders>>

\* RequestUpgradeLargePackage returns minus the lidar's code, and minus three stands for a
\* timeout, after which the upgrade goes on.
MeansTimeoutAlways(code) == code # "zero"          \* mutant
MeansTimeout(code) == code = "three"
Requested ==
  LET own  == Decodes(First, "large")
      goes == [c EXCEPT !.pc = "ota", !.skipped = @ \cup {"ready"}]
  IN
  /\ c.pc = "large"
  /\ IF Silence THEN c' = goes /\ UNCHANGED port
     ELSE IF own /\ First.code = "zero" THEN c' = [c EXCEPT !.pc = "ready"] /\ port' = "command"
     ELSE IF own /\ MeansTimeout(First.code)
     THEN c' = [goes EXCEPT !.refusals = @ \cup {First.code}] /\ UNCHANGED port
     ELSE Ends(c, "error")
  /\ acks' = <<>>
  /\ UNCHANGED orders

\* The lidar says when it is ready for the packages.
Readies ==
  /\ c.pc = "ready"
  /\ IF Silence \/ (Decodes(First, "package") /\ First.status = "ready")
     THEN c' = [c EXCEPT !.pc = "ota", !.skipped = @ \cup Missing("ready")] /\ UNCHANGED port
     ELSE Ends(c, "error")
  /\ acks' = <<>>
  /\ UNCHANGED orders

\* OtaQueryCommand: the last package goes to the end of the file.
Sends == /\ c.pc = "ota"
         /\ Asks([sub |-> "package", type |-> c.i, last |-> IF c.rest THEN Packages ELSE c.i],
                 [c EXCEPT !.pc = "package"])
         /\ UNCHANGED port

\* An acknowledgement of the lidar's upgrade that does not accept a package ends the loop,
\* whether it refuses the package or is a late one of an earlier step, and the result is its
\* code; when that is zero, the rest of the file follows as the last package, or the upgrade
\* succeeds.
AcceptedAlways(a) == TRUE                          \* mutant
Accepted(a) == a.status = "accepted"
Continues ==
  LET ok   == Accepted(First)
      seen == [c EXCEPT !.unaccepted = IF ok THEN @ ELSE @ \cup {First.status}]
  IN
  /\ c.pc = "package"
  /\ IF Silence \/ ~Decodes(First, "package") \/ (~ok /\ First.code # "zero") THEN Ends(c, "error")
     ELSE IF c.rest THEN Ends(seen, "zero")
     ELSE /\ c' = [seen EXCEPT !.pc = "ota", !.i = IF ok THEN @ + 1 ELSE @,
                               !.rest = ~ok \/ c.i + 1 = Packages]
          /\ UNCHANGED port
  /\ acks' = IF Silence THEN acks ELSE Tail(acks)
  /\ UNCHANGED orders

ClientStep == /\ \/ ChangesMode \/ Queries \/ ChangesBack \/ Returns
                 \/ Starts \/ Locates \/ FailsToOpen \/ EntersUpgrade \/ Requests \/ Requested
                 \/ Readies \/ Sends \/ Continues
              /\ UNCHANGED <<job, air, inPbl, written>>
-----------------------------------------------------------------------------
(***************************************************************************)
(* The lidar, and ReceivedThread                                           *)
(***************************************************************************)
Ack(request, kind, status, code) ==
  [kind |-> kind, to |-> request, status |-> status, code |-> code,
   long |-> request.sub = "pbl" /\ inPbl]

\* A package longer than 1024 bytes may be written in part.
Answers ==
  LET r == Head(orders) IN
  /\ orders # <<>> /\ orders' = Tail(orders)
  /\ CASE r.sub = "pbl" -> /\ air' = Append(air, Ack(r, "ota", "version", "zero"))
                           /\ UNCHANGED <<inPbl, written>>
       [] r.sub = "large" ->
            \/ /\ air' = air \o <<Ack(r, "cmd", "none", "zero"), Ack(r, "ota", "ready", "zero")>>
               /\ inPbl' = TRUE /\ UNCHANGED written
            \/ \E code \in {"three", "other"} : /\ air' = Append(air, Ack(r, "cmd", "none", code))
                                                /\ UNCHANGED <<inPbl, written>>
       [] r.sub = "package" ->
            \/ /\ air' = Append(air, Ack(r, "ota", "accepted", "zero"))
               /\ written' \in {written \cup {r.type}, written \cup (r.type .. r.last)}
               /\ UNCHANGED inPbl
            \/ \E code \in {"zero", "other"} : /\ air' = Append(air, Ack(r, "ota", "refused", code))
                                               /\ UNCHANGED <<inPbl, written>>
       [] OTHER -> \E code \in {"zero", "other"} : /\ air' = Append(air, Ack(r, "cmd", "none", code))
                                                   /\ UNCHANGED <<inPbl, written>>
  /\ UNCHANGED acks

Ignores == /\ orders # <<>> /\ orders' = Tail(orders)
           /\ UNCHANGED <<acks, air, inPbl, written>>

\* What comes while the port is closed is lost, and anything may be.
Receives == /\ air # <<>> /\ air' = Tail(air)
            /\ \/ port # "closed" /\ acks' = Append(acks, Head(air))
               \/ UNCHANGED acks
            /\ UNCHANGED <<orders, inPbl, written>>

Next == \/ ClientStep
        \/ (Answers \/ Ignores \/ Receives) /\ UNCHANGED <<job, c, port>>
Spec == Init /\ [][Next]_vars
-----------------------------------------------------------------------------
(***************************************************************************)
(* Properties                                                              *)
(***************************************************************************)
\* UpgradeLidar reports success only if the packages before the one it came to are in the
\* lidar, and all of them are, but for two cases in which an acknowledgement with the code
\* zero, which does not accept a package, was taken for a package's answer: the lidar refused
\* the package with this code, or the acknowledgement is the version or the readiness of an
\* earlier step, which the upgrade had gone on without.  One that its own step took cannot
\* come again, and while neither has happened no earlier package's can be taken.
UpgradeWritten ==
  c.pc = "end" /\ Upgrading /\ c.ret = "zero" =>
    /\ 1..(c.i - 1) \subseteq written
    /\ \/ written = 1..Packages
       \/ \E status \in c.unaccepted : status = "refused" \/ status \in c.skipped

\* After a refusal of the request to send packages that was read, none is sent, except for
\* the code that is mistaken for a timeout.
RefusalHeeded == c.pc \in {"ota", "package"} => c.refusals \subseteq {"three"}

\* A query returns the answer to this very query, or to an earlier one of the same kind
\* that has failed.
AnswerIsOwn ==
  c.pc = "back" /\ c.taken # Nothing =>
    \/ c.taken = job.list[c.i]
    \/ c.taken.sub = job.list[c.i].sub /\ c.taken.sub \in c.failed
=============================================================================
