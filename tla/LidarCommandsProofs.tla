------------------------- MODULE LidarCommandsProofs -------------------------
(***************************************************************************)
(* Proofs about LidarCommands for every set of programs, every list of       *)
(* queries and every number of packages and unanswered requests: timeouts    *)
(* are put back, an answer belongs to its query, and an upgrade that reports  *)
(* success is complete.                                                    *)
(***************************************************************************)
EXTENDS LidarCommands, WellFoundedInduction, SequenceTheorems, TLAPS

(***************************************************************************)
(* The client on the network: types, and the mutex                          *)
(***************************************************************************)
Requests == Threads \X Nat \X Nat
RequestsOrNone == Requests \cup {NoRequest}
Identifiers == [t : {"id0", "id1"}]
Fields == [t : {"fields"}, cmd : STRING, ok : BOOLEAN, req : Requests, data : BOOLEAN]
Bodies == [t : {"body"}, req : Requests]
Tokens == Identifiers \cup Fields \cup Bodies
Commands == [cmd : STRING, req : Requests]
Values == {"zero", "unset", "configured", "long", "flush", None}
Places == {"probe", "wait", "ready", "open", "lock", "flush", "restore", "send", "head", "body",
           "returned", "end"}
Busy == {"open", "lock", "flush", "restore", "send", "head", "body", "returned"}
Holding == {"flush", "restore", "send", "head", "body"}
\* What a query may take for the body of its answer.
Contents == {x.req : x \in Tokens} \cup {NoRequest}
ThreadStates ==
  [pc : Places, op : Nat \ {0}, package : Nat \ {0}, saved : Values, left : Nat,
   head : Seq(Tokens), ok : BOOLEAN, from : RequestsOrNone, body : Contents]

ThreadTypes == t \in [DOMAIN prog -> ThreadStates]
PipeTypes == asked \in Seq(Commands) /\ wire \in Seq(Tokens) /\ stream \in Seq(Tokens)

\* What the other invariants need to know of the variables: an operation that is under way
\* is one of the program's, only the holder of the mutex is between its lock and its return,
\* and what a header still lacks is counted.
LinkInv ==
  /\ prog \in Programs \cup {<<>>}
  /\ ThreadTypes
  /\ PipeTypes
  /\ opener \in {"ip", "connect", "opened", "done"}
  /\ lastTimeout \in Values
  /\ accepted \subseteq Requests /\ givenUp \subseteq Requests
  /\ \A th \in DOMAIN t : /\ t[th].pc \in Busy => t[th].op \in 1..Len(prog[th])
                          /\ t[th].pc \in Holding => mutex = th
                          /\ t[th].pc = "head" => t[th].left >= 1 /\ t[th].left + Len(t[th].head) = HeaderSize

LEMMA KnownProgram == ASSUME prog \in Programs \cup {<<>>} PROVE IsProgram(prog)
<1>1. DOMAIN <<>> = {}
  OBVIOUS
<1>2. IsProgram(<<>>)
  BY <1>1 DEF IsProgram
<1> QED
  BY <1>2, ProgramAssumption

\* The operation that a busy thread is at.
LEMMA BusyOperation ==
  ASSUME LinkInv, NEW th \in DOMAIN t, t[th].op \in 1..Len(prog[th])
  PROVE  /\ Op(th) \in Operations
         /\ th \in DOMAIN prog /\ t[th].op \in DOMAIN prog[th]
<1>1. th \in DOMAIN prog /\ prog[th] \in Seq(Operations)
  BY KnownProgram DEF LinkInv, ThreadTypes, IsProgram
<1> QED
  BY <1>1, ElementOfSeq DEF Op

LEMMA OwnRequest ==
  ASSUME LinkInv, NEW th \in DOMAIN t
  PROVE  Request(th) \in Requests /\ t[th] \in ThreadStates
<1>1. th \in Threads /\ t[th] \in ThreadStates
  BY KnownProgram DEF LinkInv, ThreadTypes, IsProgram
<1> QED
  BY <1>1 DEF Request, Requests, ThreadStates

LEMMA InitLink == Init \/ NoClient => LinkInv
<1>1. ASSUME Init PROVE LinkInv
  <2>1. prog \in Programs
    BY <1>1 DEF Init
  <2>2. <<>> \in Seq(Tokens) /\ <<>> \in Seq(Commands)
    OBVIOUS
  <2>3. NoRequest \in RequestsOrNone /\ NoRequest \in Contents /\ None \in Values
    BY DEF RequestsOrNone, Contents, Values
  <2>4. t = [th \in DOMAIN prog |-> t[th]] /\ \A th \in DOMAIN prog : t[th] \in ThreadStates
    BY <1>1, <2>2, <2>3 DEF Init, ThreadStates, Places
  <2>5. ThreadTypes
    BY <2>4 DEF ThreadTypes
  <2>6. \A th \in DOMAIN t : t[th].pc \in {"probe", "wait"}
    BY <1>1 DEF Init
  <2> QED
    BY <1>1, <2>1, <2>2, <2>5, <2>6 DEF Init, LinkInv, PipeTypes, Values, Busy, Holding
<1>2. ASSUME NoClient PROVE LinkInv
  <2>1. prog = <<>> /\ t = <<>> /\ DOMAIN prog = {} /\ DOMAIN t = {}
    BY <1>2 DEF NoClient
  <2>2. ThreadTypes
    BY <2>1 DEF ThreadTypes
  <2>3. <<>> \in Seq(Tokens) /\ <<>> \in Seq(Commands)
    OBVIOUS
  <2> QED
    BY <1>2, <2>1, <2>2, <2>3 DEF NoClient, LinkInv, PipeTypes, Values
<1> QED
  BY <1>1, <1>2

\* One thread goes from one place to another; the others keep theirs.
ThreadFacts(th, r, holder) ==
  /\ r \in ThreadStates
  /\ r.pc \in Busy => r.op \in 1..Len(prog[th])
  /\ r.pc \in Holding => holder = th
  /\ r.pc = "head" => r.left >= 1 /\ r.left + Len(r.head) = HeaderSize
  /\ holder # mutex => mutex \in {None, th}

ThreadPart ==
  /\ ThreadTypes
  /\ \A th \in DOMAIN t : /\ t[th].pc \in Busy => t[th].op \in 1..Len(prog[th])
                          /\ t[th].pc \in Holding => mutex = th
                          /\ t[th].pc = "head" => t[th].left >= 1 /\ t[th].left + Len(t[th].head) = HeaderSize

LEMMA ThreadMoves ==
  ASSUME LinkInv, prog' = prog, NEW th \in DOMAIN t, NEW r, t' = [t EXCEPT ![th] = r],
         ThreadFacts(th, r, mutex')
  PROVE  ThreadPart'
<1>1. DOMAIN t = DOMAIN prog /\ DOMAIN t \subseteq Threads /\ t \in [DOMAIN prog -> ThreadStates]
  BY KnownProgram DEF LinkInv, ThreadTypes, IsProgram
<1>2. ThreadTypes'
  BY <1>1 DEF ThreadTypes, ThreadFacts
<1>3. DOMAIN t' = DOMAIN t /\ t'[th] = r /\ \A y \in DOMAIN t : y # th => t'[y] = t[y]
  BY <1>1
<1>4. \A y \in DOMAIN t : y # th /\ t[y].pc \in Holding => mutex' = y
  <2> SUFFICES ASSUME NEW y \in DOMAIN t, y # th, t[y].pc \in Holding PROVE mutex' = y
    OBVIOUS
  <2>1. mutex = y /\ y # None
    BY <1>1 DEF LinkInv, Threads, None
  <2> QED
    BY <2>1 DEF ThreadFacts
<1>5. ASSUME NEW y \in DOMAIN t
      PROVE /\ t'[y].pc \in Busy => t'[y].op \in 1..Len(prog[y])
            /\ t'[y].pc \in Holding => mutex' = y
            /\ t'[y].pc = "head" => t'[y].left >= 1 /\ t'[y].left + Len(t'[y].head) = HeaderSize
  <2>1. CASE y = th
    BY <2>1, <1>3 DEF ThreadFacts
  <2>2. CASE y # th
    BY <2>2, <1>3, <1>4 DEF LinkInv
  <2> QED
    BY <2>1, <2>2
<1> QED
  BY <1>2, <1>3, <1>5 DEF ThreadPart

\* What LinkInv says beside the threads.
OtherPart ==
  /\ prog \in Programs \cup {<<>>}
  /\ PipeTypes
  /\ opener \in {"ip", "connect", "opened", "done"}
  /\ lastTimeout \in Values
  /\ accepted \subseteq Requests /\ givenUp \subseteq Requests

LEMMA LinkParts == LinkInv <=> OtherPart /\ ThreadPart
  BY DEF LinkInv, OtherPart, ThreadPart

LEMMA LinkPartsNext == OtherPart' /\ ThreadPart' => LinkInv'
  BY DEF LinkInv, OtherPart, ThreadPart

\* Around a query nothing is said to the lidar.
LEMMA AroundQuery ==
  ASSUME LinkInv, NEW th \in DOMAIN t, prog' = prog,
         Probes(th) \/ Waits(th) \/ Begins(th) \/ Ends(th) \/ Continues(th)
  PROVE  LinkInv'
<1>1. t[th] \in ThreadStates /\ t[th].op \in Nat \ {0} /\ t[th].package \in Nat \ {0}
  BY OwnRequest DEF ThreadStates
<1>2. t \in [DOMAIN prog -> ThreadStates]
  BY DEF LinkInv, ThreadTypes
<1>3. OtherPart'
  <2>1. lastTimeout' \in Values
    BY DEF LinkInv, Probes, Waits, Begins, Ends, Continues, SetSocketTimeout, timeoutVars, Values
  <2>2. UNCHANGED <<lidarVars, givenUp, opener>>
    BY DEF Probes, Waits, Begins, Ends, Continues, history, openVars
  <2> QED
    BY <2>1, <2>2 DEF OtherPart, LinkInv, lidarVars, PipeTypes
<1>4. mutex' = mutex
  BY DEF Probes, Waits, Begins, Ends, Continues
<1> DEFINE To(pc) == [t[th] EXCEPT !.pc = pc]
<1>5. ASSUME NEW pc \in Places \ (Busy \cup Holding \cup {"head"}), Goes(th, pc) PROVE LinkInv'
  <2>1. ThreadFacts(th, To(pc), mutex')
    BY <1>1, <1>4, <1>5 DEF ThreadFacts, ThreadStates
  <2>2. t' = [t EXCEPT ![th] = To(pc)]
    BY <1>5 DEF Goes
  <2> QED
    BY <2>1, <2>2, <1>3, ThreadMoves, LinkPartsNext
<1>6. CASE Probes(th)
  BY <1>6, <1>5 DEF Probes, Places, Busy, Holding
<1>7. CASE Waits(th)
  BY <1>7, <1>5 DEF Waits, Places, Busy, Holding
<1>8. CASE Begins(th)
  <2>1. t[th].op \in 1..Len(prog[th])
    <3>1. Len(prog[th]) \in Nat
      BY <1>2, KnownProgram DEF LinkInv, IsProgram
    <3> QED
      BY <3>1, <1>8, <1>1 DEF Begins
  <2>2. ThreadFacts(th, To("open"), mutex')
    BY <1>1, <1>4, <2>1 DEF ThreadFacts, ThreadStates, Places, Holding
  <2>3. t' = [t EXCEPT ![th] = To("open")]
    BY <1>8 DEF Begins, Goes
  <2> QED
    BY <2>2, <2>3, <1>3, ThreadMoves, LinkPartsNext
<1>9. CASE Ends(th)
  BY <1>9, <1>5 DEF Ends, Places, Busy, Holding
<1>10. CASE Continues(th)
  <2> DEFINE next == t[th].ok /\ t[th].package < Op(th).packages
             place == IF next THEN "open" ELSE "ready"
             package == IF next THEN t[th].package + 1 ELSE 1
             op == IF next THEN t[th].op ELSE t[th].op + 1
             r == [t[th] EXCEPT !.pc = place, !.package = package, !.op = op]
  <2>1. t' = [t EXCEPT ![th] = r]
    BY <1>10 DEF Continues
  <2>2. r \in ThreadStates
    <3>1. place \in Places /\ package \in Nat \ {0} /\ op \in Nat \ {0}
      BY <1>1 DEF Places
    <3> HIDE DEF place, package, op
    <3> QED
      BY <3>1, <1>1 DEF ThreadStates
  <2>3. r.pc \in Busy => r.op \in 1..Len(prog[th])
    BY <1>10, <1>1 DEF LinkInv, Continues, Busy, ThreadStates
  <2>4. r.pc \notin Holding /\ r.pc # "head"
    BY <1>1 DEF Holding, ThreadStates
  <2>5. ThreadFacts(th, r, mutex')
    BY <2>2, <2>3, <2>4, <1>4 DEF ThreadFacts
  <2> QED
    BY <2>1, <2>5, <1>3, ThreadMoves, LinkPartsNext
<1> QED
  BY <1>6, <1>7, <1>8, <1>9, <1>10

\* The piece that recv() returns, where the header begins in it, and the header with it.
PieceSize(s, left) == IF Len(s) < left THEN Len(s) ELSE left
Piece(s, left) == SubSeq(s, 1, PieceSize(s, left))
Begin(s, left, h) == IF h # <<>> THEN 1 ELSE Identifier(Piece(s, left))
WithPiece(s, left, h) ==
  IF Begin(s, left, h) = 0 THEN <<>>
  ELSE h \o SubSeq(Piece(s, left), Begin(s, left, h), PieceSize(s, left))

\* A set of natural numbers has a least one.
LEMMA LeastElement ==
  ASSUME NEW T \in SUBSET Nat, T # {}
  PROVE  \E x \in T : \A y \in T : x <= y
<1> DEFINE R == OpToRel(<, Nat)
<1>1. IsWellFoundedOn(R, Nat)
  BY NatLessThanWellFounded
<1> HIDE DEF R
<1>2. PICK x \in T : \A y \in T : ~(<<y, x>> \in R)
  BY <1>1, WFMin
<1>3. ASSUME NEW y \in T PROVE x <= y
  <2>1. <<y, x>> \in R <=> y < x
    BY DEF R, OpToRel
  <2>2. ~(y < x) /\ x \in Nat /\ y \in Nat
    BY <1>2, <2>1
  <2> QED
    BY <2>2
<1> QED
  BY <1>3
\* The identifiers of a piece lie in it.
LEMMA IdentifierInPiece ==
  ASSUME NEW s \in Seq(Tokens)
  PROVE  Identifier(s) \in 0..Len(s) /\ (Identifier(s) = 0 \/ Identifier(s) < Len(s))
<1> DEFINE hits == {i \in 1..(Len(s) - 1) : s[i].t = "id0" /\ s[i + 1].t = "id1"}
           least == CHOOSE i \in hits : \A j \in hits : i <= j
<1>1. CASE hits = {}
  BY <1>1 DEF Identifier
<1>2. CASE hits # {}
  <2>1. \E i \in hits : \A j \in hits : i <= j
    <3>1. hits \in SUBSET Nat
      OBVIOUS
    <3> HIDE DEF hits
    <3> QED
      BY <3>1, <1>2, LeastElement
  <2>2. least \in hits
    BY <2>1
  <2>3. Identifier(s) = least
    BY <1>2 DEF Identifier
  <2> QED
    BY <2>2, <2>3, SMTT(30)
<1> QED
  BY <1>1, <1>2

\* A header is complete when its last token is the last of the piece.
LEMMA HeaderGrows ==
  ASSUME NEW s \in Seq(Tokens), s # <<>>, NEW left \in Nat, left >= 1,
         NEW h \in Seq(Tokens), left + Len(h) = HeaderSize
  PROVE  LET n == PieceSize(s, left)
             head == WithPiece(s, left, h) IN
         /\ n \in 1..Len(s)
         /\ head \in Seq(Tokens) /\ Len(head) <= HeaderSize
         /\ Len(head) = HeaderSize => head[HeaderSize] = s[n]
<1> DEFINE n == PieceSize(s, left)
           p == Piece(s, left)
           at == Begin(s, left, h)
<1>1. Len(s) \in Nat /\ Len(s) # 0 /\ Len(h) \in Nat
  OBVIOUS
<1>2. n \in 1..Len(s) /\ n <= left
  BY <1>1 DEF PieceSize
<1>3. \A i \in 1..n : s[i] \in Tokens
  BY <1>2, ElementOfSeq
<1> HIDE DEF n
<1>4. p \in Seq(Tokens) /\ Len(p) = n /\ \A i \in 1..n : p[i] = s[i]
  <2>1. p = SubSeq(s, 1, n)
    BY DEF n, Piece
  <2> HIDE DEF p
  <2>2. n \in Int /\ 1 <= n
    BY <1>2
  <2> QED
    BY <2>1, <2>2, <1>3, SubSeqProperties
<1>5. at \in 0..n
  BY <1>2, <1>4, IdentifierInPiece DEF Begin
<1>6. WithPiece(s, left, h) = IF at = 0 THEN <<>> ELSE h \o SubSeq(p, at, n)
  BY DEF WithPiece, n
<1> HIDE DEF p, at
<1>7. CASE at = 0
  BY <1>2, <1>6, <1>7 DEF HeaderSize, n
<1>8. CASE at # 0
  <2> DEFINE q == SubSeq(p, at, n)
  <2>1. at \in 1..n /\ n - at + 1 \in 1..n
    BY <1>2, <1>5, <1>8
  <2>2. \A i \in at..n : p[i] \in Tokens
    BY <1>4, <2>1, ElementOfSeq
  <2>3. q \in Seq(Tokens) /\ Len(q) = n - at + 1 /\ \A i \in 1..(n - at + 1) : q[i] = p[at + i - 1]
    <3>1. at \in Int /\ n \in Int /\ at <= n
      BY <2>1, <1>2
    <3> QED
      BY <3>1, <2>2, SubSeqProperties
  <2> HIDE DEF q
  <2>4. /\ h \o q \in Seq(Tokens) /\ Len(h \o q) = Len(h) + Len(q)
        /\ \A i \in 1..Len(h) + Len(q) : (h \o q)[i] = IF i <= Len(h) THEN h[i] ELSE q[i - Len(h)]
    BY <2>3, ConcatProperties
  <2>5. Len(h \o q) <= HeaderSize
    BY <1>1, <1>2, <2>1, <2>3, <2>4 DEF HeaderSize
  <2>6. ASSUME Len(h \o q) = HeaderSize PROVE (h \o q)[HeaderSize] = s[n]
    <3>1. at = 1 /\ n = left /\ Len(q) = n
      BY <1>1, <1>2, <2>1, <2>3, <2>4, <2>6 DEF HeaderSize
    <3>2. (h \o q)[HeaderSize] = q[n]
      BY <1>1, <1>2, <2>4, <2>6, <3>1 DEF HeaderSize
    <3>3. q[n] = p[n] /\ p[n] = s[n]
      BY <3>1, <2>1, <2>3, <1>2, <1>4
    <3> QED
      BY <3>2, <3>3
  <2>7. WithPiece(s, left, h) = h \o q
    BY <1>6, <1>8 DEF q
  <2> QED
    BY <1>2, <2>4, <2>5, <2>6, <2>7 DEF n
<1> QED
  BY <1>7, <1>8

\* What is still to be received after n tokens.
LEMMA Rest ==
  ASSUME NEW S, NEW s \in Seq(S), NEW n \in 0..Len(s)
  PROVE  LET rest == SubSeq(s, n + 1, Len(s)) IN
         /\ rest \in Seq(S) /\ Len(rest) = Len(s) - n
         /\ \A i \in 1..Len(rest) : i + n \in 1..Len(s) /\ rest[i] = s[i + n]
<1> DEFINE rest == SubSeq(s, n + 1, Len(s))
<1>1. Len(s) \in Nat /\ n + 1 \in Int /\ n \in Nat /\ n <= Len(s)
  OBVIOUS
<1>2. \A i \in (n + 1)..Len(s) : s[i] \in S
  BY <1>1, ElementOfSeq
<1>3. /\ rest \in Seq(S)
      /\ Len(rest) = IF n + 1 <= Len(s) THEN Len(s) - (n + 1) + 1 ELSE 0
      /\ \A i \in 1..(Len(s) - (n + 1) + 1) : rest[i] = s[n + 1 + i - 1]
  BY <1>1, <1>2, SubSeqProperties
<1> HIDE DEF rest
<1>4. Len(rest) = Len(s) - n
  BY <1>1, <1>3
<1>5. ASSUME NEW i \in 1..Len(rest) PROVE i + n \in 1..Len(s) /\ rest[i] = s[i + n]
  <2>1. i \in 1..(Len(s) - (n + 1) + 1) /\ n + 1 + i - 1 = i + n
    BY <1>1, <1>4
  <2> QED
    BY <1>1, <1>3, <2>1
<1> QED
  BY <1>3, <1>4, <1>5 DEF rest

\* A query takes its steps; those that end it make it return.
LEMMA QueryLink ==
  ASSUME LinkInv, NEW th \in DOMAIN t, prog' = prog,
         \/ Opens(th) \/ Locks(th) \/ Flushes(th) \/ Restores(th) \/ Sends(th)
         \/ ReceivesHead(th) \/ ReceivesBody(th) \/ TimesOut(th)
  PROVE  LinkInv'
<1>1. /\ t[th] \in ThreadStates /\ Request(th) \in Requests
      /\ th \in DOMAIN prog /\ t \in [DOMAIN prog -> ThreadStates] /\ th # None
  BY OwnRequest, KnownProgram DEF LinkInv, ThreadTypes, IsProgram, Threads, None
<1>2. t[th].pc \in Busy => t[th].op \in 1..Len(prog[th])
  BY DEF LinkInv
<1>3. ASSUME NEW r, t' = [t EXCEPT ![th] = r], ThreadFacts(th, r, mutex'), OtherPart' PROVE LinkInv'
  BY <1>3, ThreadMoves, LinkPartsNext
<1>4. givenUp \cup {Request(th)} \subseteq Requests
  BY <1>1 DEF LinkInv
<1>5. ASSUME UNCHANGED <<opener, lidarVars>>, lastTimeout' \in Values,
             givenUp' \in {givenUp, givenUp \cup {Request(th)}}
      PROVE  OtherPart'
  BY <1>4, <1>5 DEF OtherPart, LinkInv, lidarVars, PipeTypes
<1>6. NoRequest \in RequestsOrNone /\ NoRequest \in Contents /\ Requests \subseteq RequestsOrNone
  BY DEF RequestsOrNone, Contents
\* Returning.
<1>7. ASSUME NEW ok \in BOOLEAN, NEW from \in RequestsOrNone, NEW body \in Contents,
             Returns(th, ok, from, body), t[th].pc \in Holding, OtherPart'
      PROVE  LinkInv'
  <2> DEFINE r == [t[th] EXCEPT !.pc = "returned", !.ok = ok, !.from = from, !.body = body]
  <2>1. t' = [t EXCEPT ![th] = r] /\ mutex' = None
    BY <1>7 DEF Returns
  <2>2. r \in ThreadStates /\ r.pc = "returned" /\ r.op = t[th].op
    BY <1>1, <1>7 DEF ThreadStates, Places
  <2>3. t[th].op \in 1..Len(prog[th]) /\ mutex = th
    BY <1>2, <1>7 DEF LinkInv, Holding, Busy
  <2>4. ThreadFacts(th, r, mutex')
    BY <2>1, <2>2, <2>3 DEF ThreadFacts, Holding
  <2> QED
    BY <2>1, <2>4, <1>3, <1>7
<1>8. ASSUME NEW ok \in BOOLEAN, NEW from, NEW body, Returns(th, ok, from, body)
      PROVE  givenUp' \in {givenUp, givenUp \cup {Request(th)}}
  BY <1>8 DEF Returns
<1>9. CASE Opens(th)
  <2>1. OtherPart'
    BY <1>9, <1>5 DEF Opens, LinkInv, timeoutVars, openVars
  <2>2. mutex' = mutex /\ t[th].op \in 1..Len(prog[th])
    BY <1>9, <1>2 DEF Opens, Busy
  <2>3. CASE connected
    <3> DEFINE r == [t[th] EXCEPT !.pc = "lock"]
    <3>1. t' = [t EXCEPT ![th] = r]
      BY <1>9, <2>3 DEF Opens, Goes
    <3>2. ThreadFacts(th, r, mutex')
      BY <1>1, <2>2 DEF ThreadFacts, ThreadStates, Places, Holding
    <3> QED
      BY <3>1, <3>2, <2>1, <1>3
  <2>4. CASE ~connected
    <3> DEFINE r == [t[th] EXCEPT !.pc = "returned", !.ok = FALSE]
    <3>1. t' = [t EXCEPT ![th] = r]
      BY <1>9, <2>4 DEF Opens
    <3>2. ThreadFacts(th, r, mutex')
      BY <1>1, <2>2 DEF ThreadFacts, ThreadStates, Places, Holding
    <3> QED
      BY <3>1, <3>2, <2>1, <1>3
  <2> QED
    BY <2>3, <2>4
<1>10. CASE Locks(th)
  <2>1. OtherPart'
    BY <1>10, <1>5 DEF Locks, LinkInv, openVars
  <2> DEFINE r == [t[th] EXCEPT !.pc = "flush"]
  <2>2. t' = [t EXCEPT ![th] = r]
    BY <1>10 DEF Locks, Goes
  <2>3. mutex' = th /\ mutex = None /\ t[th].op \in 1..Len(prog[th])
    BY <1>10, <1>2 DEF Locks, Busy
  <2>4. ThreadFacts(th, r, mutex')
    BY <1>1, <2>3 DEF ThreadFacts, ThreadStates, Places
  <2> QED
    BY <2>1, <2>2, <2>4, <1>3
<1>11. CASE Flushes(th)
  <2>1. mutex' = mutex /\ mutex = th /\ t[th].op \in 1..Len(prog[th])
    BY <1>11, <1>2 DEF Flushes, Busy, LinkInv, Holding
  <2>2. CASE stream # <<>>
    <3>1. OtherPart'
      BY <1>11, <2>2 DEF Flushes, OtherPart, LinkInv, PipeTypes, openVars, timeoutVars, history
    <3>2. ThreadFacts(th, t[th], mutex')
      BY <1>1, <1>11, <2>1 DEF ThreadFacts, Flushes
    <3>3. t' = [t EXCEPT ![th] = t[th]]
      BY <1>1, <1>11, <2>2 DEF Flushes
    <3> QED
      BY <3>1, <3>2, <3>3, <1>3
  <2>3. CASE stream = <<>>
    <3>1. OtherPart'
      BY <1>11, <2>3 DEF Flushes, OtherPart, LinkInv, PipeTypes, openVars, timeoutVars, history
    <3> DEFINE r == [t[th] EXCEPT !.pc = "restore", !.saved = lastTimeout]
    <3>2. r \in ThreadStates /\ r.pc = "restore" /\ r.op = t[th].op
      BY <1>1 DEF LinkInv, ThreadStates, Places
    <3>3. ThreadFacts(th, r, mutex')
      BY <3>2, <2>1 DEF ThreadFacts
    <3>4. t' = [t EXCEPT ![th] = r]
      BY <1>11, <2>3 DEF Flushes
    <3> QED
      BY <3>1, <3>3, <3>4, <1>3
  <2> QED
    BY <2>2, <2>3
<1>12. CASE Restores(th)
  <2>1. OtherPart'
    BY <1>12, <1>1, <1>5 DEF Restores, SetSocketTimeout, openVars, history, ThreadStates
  <2> DEFINE r == [t[th] EXCEPT !.pc = "send"]
  <2>2. t' = [t EXCEPT ![th] = r]
    BY <1>12 DEF Restores, Goes
  <2>3. mutex' = mutex /\ mutex = th /\ t[th].op \in 1..Len(prog[th])
    BY <1>12, <1>2 DEF Restores, Busy, LinkInv, Holding
  <2>4. ThreadFacts(th, r, mutex')
    BY <1>1, <2>3 DEF ThreadFacts, ThreadStates, Places
  <2> QED
    BY <2>1, <2>2, <2>4, <1>3
<1>13. CASE Sends(th)
  <2>1. mutex = th /\ t[th].op \in 1..Len(prog[th]) /\ t[th].pc \in Holding
    BY <1>13, <1>2 DEF Sends, Busy, LinkInv, Holding
  <2>2. Op(th).cmd \in STRING
    BY <2>1, BusyOperation DEF Operations
  <2>3. CASE /\ asked' = IF closed THEN asked
                         ELSE Append(asked, [cmd |-> Op(th).cmd, req |-> Request(th)])
             /\ t' = [t EXCEPT ![th].pc = "head", ![th].left = HeaderSize, ![th].head = <<>>]
             /\ UNCHANGED <<mutex, givenUp>>
    <3>1. asked' \in Seq(Commands)
      <4>1. [cmd |-> Op(th).cmd, req |-> Request(th)] \in Commands
        BY <2>2, <1>1 DEF Commands
      <4>2. asked \in Seq(Commands)
        BY DEF LinkInv, PipeTypes
      <4> QED
        BY <4>1, <4>2, <2>3, AppendProperties
    <3>2. OtherPart'
      BY <1>13, <2>3, <3>1 DEF Sends, OtherPart, LinkInv, PipeTypes, openVars, timeoutVars
    <3> DEFINE r == [t[th] EXCEPT !.pc = "head", !.left = HeaderSize, !.head = <<>>]
    <3>3. t' = [t EXCEPT ![th] = r]
      BY <2>3
    <3>4. r \in ThreadStates
      <4>1. <<>> \in Seq(Tokens)
        OBVIOUS
      <4> QED
        BY <4>1, <1>1 DEF ThreadStates, Places, HeaderSize
    <3>5. r.pc = "head" /\ r.op = t[th].op /\ r.left = HeaderSize /\ Len(r.head) = 0
      BY <1>1 DEF ThreadStates
    <3>6. ThreadFacts(th, r, mutex')
      BY <2>1, <2>3, <3>4, <3>5 DEF ThreadFacts, HeaderSize
    <3> QED
      BY <3>2, <3>3, <3>6, <1>3
  <2>4. CASE Returns(th, FALSE, NoRequest, NoRequest) /\ UNCHANGED asked
    <3>1. OtherPart'
      BY <1>13, <2>4, <1>5, <1>8 DEF Sends, LinkInv, lidarVars, openVars, timeoutVars
    <3> QED
      BY <3>1, <2>1, <2>4, <1>6, <1>7
  <2> QED
    BY <1>13, <2>3, <2>4 DEF Sends
<1>14. CASE ReceivesHead(th)
  <2> DEFINE n == PieceSize(stream, t[th].left)
             head == WithPiece(stream, t[th].left, t[th].head)
             h == head[HeaderSize]
  <2>1. mutex = th /\ t[th].op \in 1..Len(prog[th]) /\ t[th].pc \in Holding
    BY <1>14, <1>2 DEF ReceivesHead, Busy, LinkInv, Holding
  <2>2. /\ stream \in Seq(Tokens) /\ stream # <<>> /\ t[th].left \in Nat /\ t[th].left >= 1
        /\ t[th].head \in Seq(Tokens) /\ t[th].left + Len(t[th].head) = HeaderSize
    BY <1>1, <1>14 DEF ReceivesHead, LinkInv, PipeTypes, ThreadStates
  <2>3. /\ n \in 1..Len(stream) /\ head \in Seq(Tokens) /\ Len(head) <= HeaderSize
        /\ Len(head) = HeaderSize => h = stream[n]
    BY <2>2, HeaderGrows
  <2>4. /\ stream' = SubSeq(stream, n + 1, Len(stream))
        /\ IF Len(head) < HeaderSize
           THEN /\ t' = [t EXCEPT ![th].head = head, ![th].left = HeaderSize - Len(head)]
                /\ UNCHANGED <<mutex, givenUp>>
           ELSE IF ~Fits(h, Op(th).cmd) THEN Returns(th, FALSE, NoRequest, NoRequest)
           ELSE IF ~h.data THEN Returns(th, TRUE, h.req, NoRequest)
           ELSE /\ t' = [t EXCEPT ![th].pc = "body", ![th].from = h.req]
                /\ UNCHANGED <<mutex, givenUp>>
    BY <1>14 DEF ReceivesHead, PieceSize, WithPiece, Begin, Piece
  <2> HIDE DEF n, head
  <2>5. stream' \in Seq(Tokens)
    BY <2>2, <2>3, <2>4, Rest
  <2>6. givenUp' \subseteq Requests
    BY <2>4, <1>4 DEF Returns, LinkInv
  <2>7. OtherPart'
    BY <1>14, <2>5, <2>6 DEF ReceivesHead, OtherPart, LinkInv, PipeTypes, openVars, timeoutVars
  <2>8. CASE Len(head) < HeaderSize
    <3> DEFINE r == [t[th] EXCEPT !.head = head, !.left = HeaderSize - Len(head)]
    <3>1. t' = [t EXCEPT ![th] = r] /\ mutex' = mutex
      BY <2>4, <2>8
    <3>2. Len(head) \in Nat /\ HeaderSize - Len(head) \in Nat /\ HeaderSize - Len(head) >= 1
      BY <2>3, <2>8 DEF HeaderSize
    <3>3. r \in ThreadStates
      BY <1>1, <2>3, <3>2 DEF ThreadStates
    <3>4. r.op = t[th].op /\ r.pc = t[th].pc /\ r.head = head /\ r.left = HeaderSize - Len(head)
      BY <1>1 DEF ThreadStates
    <3>5. ThreadFacts(th, r, mutex')
      BY <2>1, <3>1, <3>2, <3>3, <3>4 DEF ThreadFacts, HeaderSize
    <3> QED
      BY <3>1, <3>5, <2>7, <1>3
  <2>9. CASE ~(Len(head) < HeaderSize)
    <3>1. Len(head) = HeaderSize
      <4>1. Len(head) \in Nat /\ Len(head) <= HeaderSize
        BY <2>3
      <4>2. HeaderSize \in Nat
        BY DEF HeaderSize
      <4> QED
        BY <4>1, <4>2, <2>9
    <3>2. h \in Tokens
      BY <2>2, <2>3, <3>1, ElementOfSeq
    <3>3. CASE ~Fits(h, Op(th).cmd)
      BY <3>3, <2>1, <2>4, <2>7, <2>9, <1>6, <1>7
    <3>4. CASE Fits(h, Op(th).cmd)
      <4>1. h.req \in RequestsOrNone
        BY <3>2, <3>4, <1>6 DEF Fits, Tokens, Identifiers, Fields, Bodies
      <4>2. CASE ~h.data
        BY <4>1, <4>2, <3>4, <2>1, <2>4, <2>7, <2>9, <1>6, <1>7
      <4>3. CASE h.data
        <5> DEFINE r == [t[th] EXCEPT !.pc = "body", !.from = h.req]
        <5>1. t' = [t EXCEPT ![th] = r] /\ mutex' = mutex
          BY <2>4, <2>9, <3>4, <4>3
        <5>2. r \in ThreadStates /\ r.pc = "body" /\ r.op = t[th].op
          BY <1>1, <4>1 DEF ThreadStates, Places
        <5>3. ThreadFacts(th, r, mutex')
          BY <2>1, <5>1, <5>2 DEF ThreadFacts
        <5> QED
          BY <5>1, <5>3, <2>7, <1>3
      <4> QED
        BY <4>2, <4>3
    <3> QED
      BY <3>3, <3>4
  <2> QED
    BY <2>8, <2>9
<1>15. CASE ReceivesBody(th)
  <2>1. t[th].pc \in Holding /\ stream # <<>> /\ stream \in Seq(Tokens)
    BY <1>15 DEF ReceivesBody, Holding, LinkInv, PipeTypes
  <2>2. stream' \in Seq(Tokens) /\ Head(stream) \in Tokens
    BY <1>15, <2>1, HeadTailProperties DEF ReceivesBody
  <2>3. givenUp' \subseteq Requests
    BY <1>15, <1>4 DEF ReceivesBody, Returns, LinkInv
  <2>4. OtherPart'
    BY <1>15, <2>2, <2>3 DEF ReceivesBody, OtherPart, LinkInv, PipeTypes, openVars, timeoutVars
  <2>5. Returns(th, TRUE, t[th].from, Head(stream).req) /\ t[th].from \in RequestsOrNone
    BY <1>15, <1>1 DEF ReceivesBody, ThreadStates
  <2>6. Head(stream).req \in Contents
    BY <2>2 DEF Contents
  <2> QED
    BY <2>1, <2>4, <2>5, <2>6, <1>7
<1>16. CASE TimesOut(th)
  <2>1. OtherPart'
    BY <1>16, <1>5, <1>8 DEF TimesOut, LinkInv, openVars, timeoutVars
  <2> QED
    BY <1>16, <2>1, <1>6, <1>7 DEF TimesOut, Holding
<1> QED
  BY <1>9, <1>10, <1>11, <1>12, <1>13, <1>14, <1>15, <1>16

\* The tokens of an answer.
FieldsOf(r, ok) ==
  [t |-> "fields", cmd |-> r.cmd, ok |-> ok, req |-> r.req, data |-> ok /\ HasData(r.cmd)]
BodyOf(q) == [t |-> "body", req |-> q]
LEMMA AnswerShape ==
  ASSUME NEW r \in Commands, NEW ok \in BOOLEAN
  PROVE  LET a == Answer(r, ok)
             data == ok /\ HasData(r.cmd) IN
         /\ a \in Seq(Tokens)
         /\ Len(a) = IF data THEN 4 ELSE 3
         /\ a[1].t = "id0" /\ a[2].t = "id1" /\ a[3] = FieldsOf(r, ok)
         /\ data => a[4] = BodyOf(r.req)
         /\ FieldsOf(r, ok) \in Fields
<1> DEFINE x == [t |-> "id0"]
           y == [t |-> "id1"]
           f == FieldsOf(r, ok)
           b == BodyOf(r.req)
           data == ok /\ HasData(r.cmd)
<1>1. data \in BOOLEAN
  BY DEF HasData
<1>2. x \in Identifiers /\ x.t = "id0" /\ y \in Identifiers /\ y.t = "id1"
  BY DEF Identifiers
<1>3. f \in Fields /\ b \in Bodies
  BY <1>1 DEF Fields, Bodies, FieldsOf, BodyOf, Commands
<1>4. Answer(r, ok) = <<x, y, f>> \o IF data THEN <<b>> ELSE <<>>
  BY DEF Answer, FieldsOf, BodyOf
<1>5. x \in Tokens /\ y \in Tokens /\ f \in Tokens /\ b \in Tokens
  BY <1>2, <1>3 DEF Tokens
<1> HIDE DEF x, y, f, b, data
<1> DEFINE head == <<x, y, f>>
           tail == <<b>>
           a == Answer(r, ok)
<1>6. head \in Seq(Tokens) /\ Len(head) = 3 /\ head[1] = x /\ head[2] = y /\ head[3] = f
  BY <1>5
<1>7. tail \in Seq(Tokens) /\ Len(tail) = 1 /\ tail[1] = b
  BY <1>5
<1> HIDE DEF head, tail, a
<1>8. CASE data
  <2>1. a = head \o tail
    BY <1>4, <1>8 DEF head, tail, a
  <2>2. /\ head \o tail \in Seq(Tokens) /\ Len(head \o tail) = Len(head) + Len(tail)
        /\ \A i \in 1..Len(head) + Len(tail) :
             (head \o tail)[i] = IF i <= Len(head) THEN head[i] ELSE tail[i - Len(head)]
    BY <1>6, <1>7, ConcatProperties
  <2>3. a \in Seq(Tokens) /\ Len(a) = 4 /\ \A i \in 1..4 : a[i] = IF i <= 3 THEN head[i] ELSE tail[i - 3]
    BY <2>1, <2>2, <1>6, <1>7
  <2>4. a[1] = x /\ a[2] = y /\ a[3] = f /\ a[4] = b
    BY <2>3, <1>6, <1>7
  <2> QED
    BY <2>3, <2>4, <1>2, <1>3, <1>8 DEF data, f, b, a
<1>9. CASE ~data
  <2>1. a = head
    BY <1>4, <1>5, <1>6, <1>9, ConcatEmptySeq DEF head, a
  <2> QED
    BY <2>1, <1>2, <1>3, <1>6, <1>9 DEF data, f, b, a
<1> QED
  BY <1>8, <1>9

LEMMA LinkStep == LinkInv /\ [Next]_vars => LinkInv'
<1> SUFFICES ASSUME LinkInv, [Next]_vars PROVE LinkInv'
  OBVIOUS
<1>t. ASSUME UNCHANGED <<prog, mutex, t>>, OtherPart' PROVE LinkInv'
  BY <1>t, LinkParts, LinkPartsNext DEF ThreadPart, ThreadTypes
<1>1. CASE OpenerStep
  <2>1. OtherPart'
    BY <1>1 DEF OpenerStep, OpenerLeaves, HasIp, Connects, Abandons, SetsTimeouts, SetSocketTimeout,
        OtherPart, LinkInv, PipeTypes, lidarVars, history, timeoutVars, Values
  <2> QED
    BY <1>1, <1>t, <2>1 DEF OpenerStep
<1>2. CASE Destroys
  BY <1>2, <1>t DEF Destroys, OtherPart, LinkInv, PipeTypes, lidarVars, history, timeoutVars
<1>3. CASE StopsInit
  BY <1>3, <1>t DEF StopsInit, OtherPart, LinkInv, PipeTypes, lidarVars, history, timeoutVars
<1>4. CASE LidarStep
  <2>1. UNCHANGED <<prog, openVars, timeoutVars, mutex, t, history>>
    BY <1>4 DEF LidarStep
  <2>2. asked \in Seq(Commands) /\ wire \in Seq(Tokens) /\ stream \in Seq(Tokens)
    BY DEF LinkInv, PipeTypes
  <2>3. PipeTypes' /\ accepted' \subseteq Requests
    <3>1. CASE Answers
      <4>1. Head(asked) \in Commands /\ Tail(asked) \in Seq(Commands)
        BY <2>2, <3>1, HeadTailProperties DEF Answers
      <4>2. PICK ok \in BOOLEAN :
              /\ wire' = wire \o Answer(Head(asked), ok)
              /\ accepted' = IF ok THEN accepted \cup {Head(asked).req} ELSE accepted
        BY <3>1 DEF Answers
      <4>3. Answer(Head(asked), ok) \in Seq(Tokens)
        BY <4>1, AnswerShape
      <4>4. wire' \in Seq(Tokens)
        BY <2>2, <4>2, <4>3, ConcatProperties
      <4>5. accepted' \subseteq Requests
        BY <4>1, <4>2 DEF LinkInv, Commands
      <4> QED
        BY <2>2, <3>1, <4>1, <4>4, <4>5 DEF Answers, PipeTypes
    <3>2. CASE Ignores
      BY <2>2, <3>2, HeadTailProperties DEF Ignores, PipeTypes, LinkInv
    <3>3. CASE Arrives
      <4>1. Head(wire) \in Tokens /\ Tail(wire) \in Seq(Tokens)
        BY <2>2, <3>3, HeadTailProperties DEF Arrives
      <4>2. stream' \in Seq(Tokens)
        BY <2>2, <3>3, <4>1, AppendProperties DEF Arrives
      <4> QED
        BY <2>2, <3>3, <4>1, <4>2 DEF Arrives, PipeTypes, LinkInv
    <3>4. CASE Closes
      BY <2>2, <3>4 DEF Closes, PipeTypes, LinkInv
    <3> QED
      BY <1>4, <3>1, <3>2, <3>3, <3>4 DEF LidarStep
  <2>4. OtherPart'
    BY <2>1, <2>3 DEF OtherPart, LinkInv, openVars, timeoutVars, history
  <2> QED
    BY <1>t, <2>1, <2>4
<1>5. ASSUME NEW th \in DOMAIN t, ThreadStep(th) PROVE LinkInv'
  BY <1>5, AroundQuery, QueryLink DEF ThreadStep
<1>6. CASE UNCHANGED vars
  BY <1>6, <1>t DEF vars, openVars, timeoutVars, lidarVars, history, OtherPart, LinkInv, PipeTypes
<1> QED
  BY <1>1, <1>2, <1>3, <1>4, <1>5, <1>6 DEF Next

-----------------------------------------------------------------------------
(***************************************************************************)
(* Timeouts                                                                *)
(***************************************************************************)
LongBusy(th) == t[th].pc \in Busy /\ Op(th).long
Flushing == {"flush", "restore"}

\* A query uses the socket only after it is connected, and unless it was early after the
\* opener has left; what a flush has saved is still the last timeout when it is put back,
\* because an operation that changes it is alone.  From then on the socket has the last
\* timeout but for a flush, and that is the configured one but for a long operation.
TimeoutInv ==
  /\ connected => opener \in {"opened", "done"}
  /\ \A th \in DOMAIN t : t[th].pc \in {"lock"} \cup Holding => connected
  /\ ~early /\ opener # "done" => \A th \in DOMAIN t : t[th].pc \notin Holding
  /\ ~early => \A th \in DOMAIN t : t[th].pc = "restore" => t[th].saved = lastTimeout
  /\ initOpen /\ ~early /\ opener = "done" /\ connected =>
       /\ (\A th \in DOMAIN t : t[th].pc \notin Flushing) => sockTimeout = lastTimeout
       /\ ~kept /\ (\A th \in DOMAIN t : ~LongBusy(th)) => lastTimeout = "configured"

LEMMA InitTimeout == Init \/ NoClient => TimeoutInv
  BY DEF Init, NoClient, TimeoutInv, Holding

\* A step of a thread that touches neither the timeouts nor the connection.
LEMMA QuietTimeout ==
  ASSUME LinkInv, TimeoutInv, NEW th \in DOMAIN t, NEW r, t' = [t EXCEPT ![th] = r],
         UNCHANGED <<prog, opener, initOpen, connected, timeoutVars, early>>, kept => kept',
         r.pc \in {"lock"} \cup Holding => connected,
         r.pc \in Holding => t[th].pc \in Holding,
         r.pc = "restore" => r.saved = lastTimeout,
         t[th].pc \in Flushing => r.pc \in Flushing,
         LongBusy(th) => kept' \/ (r.pc \in Busy /\ prog[th][r.op].long)
  PROVE  TimeoutInv'
<1>1. DOMAIN t' = DOMAIN t /\ t'[th] = r /\ \A y \in DOMAIN t : y # th => t'[y] = t[y]
  BY DEF LinkInv, ThreadTypes
<1>2. \A y \in DOMAIN t : LongBusy(y) => kept' \/ LongBusy(y)'
  BY <1>1 DEF LongBusy, Op
<1>3. \A y \in DOMAIN t : t[y].pc \in Flushing => t'[y].pc \in Flushing
  BY <1>1
<1>4. \A y \in DOMAIN t : t'[y].pc \in {"lock"} \cup Holding => connected
  BY <1>1 DEF TimeoutInv
<1>5. \A y \in DOMAIN t : t'[y].pc \in Holding => t[y].pc \in Holding
  BY <1>1
<1>6. ~early => \A y \in DOMAIN t : t'[y].pc = "restore" => t'[y].saved = lastTimeout
  BY <1>1 DEF TimeoutInv
<1> QED
  BY <1>1, <1>2, <1>3, <1>4, <1>5, <1>6 DEF TimeoutInv, timeoutVars

\* A thread with a long operation is alone.
LEMMA LongAlone ==
  ASSUME LinkInv, NEW th \in DOMAIN t, t[th].op \in 1..Len(prog[th]), Op(th).long
  PROVE  DOMAIN t = {th}
  BY BusyOperation, KnownProgram DEF LinkInv, ThreadTypes, IsProgram, Op

LEMMA TimeoutStep == LinkInv /\ TimeoutInv /\ [Next]_vars => TimeoutInv'
<1> SUFFICES ASSUME LinkInv, TimeoutInv, [Next]_vars PROVE TimeoutInv'
  OBVIOUS
<1>u. ASSUME UNCHANGED <<prog, t, opener, initOpen, connected, timeoutVars, early, kept>>
      PROVE  TimeoutInv'
  BY <1>u DEF TimeoutInv, LongBusy, Op, timeoutVars
<1>1. CASE OpenerStep
  <2> USE <1>1 DEF OpenerStep, TimeoutInv, LongBusy, Op, timeoutVars, history
  <2>1. CASE HasIp
    BY <2>1 DEF HasIp
  <2>2. CASE Connects
    <3>1. \A th \in DOMAIN t : t[th].pc \notin Holding
      BY <2>2 DEF Connects
    <3> QED
      BY <2>2, <3>1 DEF Connects, Holding
  <2>3. CASE Abandons
    BY <2>3 DEF Abandons
  <2>4. CASE SetsTimeouts
    <3>1. ~early => \A th \in DOMAIN t : t[th].pc \notin Holding
      BY <2>4 DEF SetsTimeouts
    <3> QED
      BY <2>4, <3>1 DEF SetsTimeouts, SetSocketTimeout, Holding
  <2> QED
    BY <2>1, <2>2, <2>3, <2>4 DEF OpenerLeaves
<1>2. CASE Destroys
  BY <1>2 DEF Destroys, TimeoutInv, LongBusy, Op, timeoutVars, history
<1>3. CASE StopsInit
  BY <1>3, <1>u DEF StopsInit, history
<1>4. CASE LidarStep
  BY <1>4, <1>u DEF LidarStep, history, openVars
<1>5. ASSUME NEW th \in DOMAIN t, ThreadStep(th) PROVE TimeoutInv'
  <2>1. prog' = prog /\ t[th] \in ThreadStates /\ t \in [DOMAIN prog -> ThreadStates]
    BY <1>5, OwnRequest DEF ThreadStep, LinkInv, ThreadTypes
  <2>2. t[th].pc \in Busy => t[th].op \in 1..Len(prog[th])
    BY DEF LinkInv
  <2> USE DEF ThreadStates
  <2>3. CASE Probes(th)
    <3> DEFINE r == [t[th] EXCEPT !.pc = "wait"]
    <3>1. t' = [t EXCEPT ![th] = r]
      BY <2>3 DEF Probes, Goes
    <3> QED
      BY <2>1, <2>3, <3>1, QuietTimeout DEF Probes, history, Holding, Flushing, Busy, LongBusy
  <2>4. CASE Waits(th)
    <3>1. PICK pc \in {"ready", "end"} : Goes(th, pc)
      BY <2>4 DEF Waits
    <3> DEFINE r == [t[th] EXCEPT !.pc = pc]
    <3>2. t' = [t EXCEPT ![th] = r]
      BY <3>1 DEF Goes
    <3> QED
      BY <2>1, <2>4, <3>2, QuietTimeout
         DEF Waits, openVars, history, Holding, Flushing, Busy, LongBusy
  <2>5. CASE Begins(th)
    <3> DEFINE r == [t[th] EXCEPT !.pc = "open"]
    <3>1. t' = [t EXCEPT ![th] = r]
      BY <2>5 DEF Begins, Goes
    <3>2. CASE UNCHANGED timeoutVars
      BY <2>1, <2>5, <3>1, <3>2, QuietTimeout
         DEF Begins, openVars, history, Holding, Flushing, Busy, LongBusy
    <3>3. CASE Op(th).long /\ SetSocketTimeout("long")
      <4>1. t[th].op \in 1..Len(prog[th])
        <5>1. Len(prog[th]) \in Nat
          BY <2>1, KnownProgram DEF LinkInv, IsProgram
        <5> QED
          BY <5>1, <2>1, <2>5 DEF Begins
      <4>2. DOMAIN t = {th} /\ DOMAIN t' = {th}
        BY <3>1, <3>3, <4>1, LongAlone
      <4>3. t'[th].pc = "open" /\ LongBusy(th)'
        BY <2>1, <3>1, <3>3 DEF LongBusy, Op, Busy
      <4> QED
        BY <2>5, <3>3, <4>2, <4>3
           DEF Begins, SetSocketTimeout, TimeoutInv, openVars, history, Holding
    <3> QED
      BY <2>5, <3>2, <3>3 DEF Begins
  <2>6. CASE Ends(th)
    <3> DEFINE r == [t[th] EXCEPT !.pc = "end"]
    <3>1. t' = [t EXCEPT ![th] = r]
      BY <2>6 DEF Ends, Goes
    <3> QED
      BY <2>1, <2>6, <3>1, QuietTimeout DEF Ends, history, Holding, Flushing, Busy, LongBusy
  <2>7. CASE Continues(th)
    <3> DEFINE next == t[th].ok /\ t[th].package < Op(th).packages
               restores == Op(th).long /\ ~next /\ (t[th].ok \/ Op(th).restores)
               place == IF next THEN "open" ELSE "ready"
               package == IF next THEN t[th].package + 1 ELSE 1
               op == IF next THEN t[th].op ELSE t[th].op + 1
               r == [t[th] EXCEPT !.pc = place, !.package = package, !.op = op]
    <3>1. t' = [t EXCEPT ![th] = r] /\ t[th].pc = "returned"
      BY <2>7 DEF Continues
    <3>2. r.pc = place /\ r.op = op /\ place \notin Holding \cup Flushing \cup {"lock", "restore"}
      BY <2>1 DEF Holding, Flushing
    <3>3. kept' = (kept \/ (Op(th).long /\ ~next /\ ~restores))
      BY <2>7 DEF Continues
    <3>4. UNCHANGED <<prog, opener, initOpen, connected, early>>
      BY <2>7, <2>1 DEF Continues, openVars
    <3>5. IF restores THEN SetSocketTimeout("configured") ELSE UNCHANGED timeoutVars
      BY <2>7 DEF Continues
    <3>6. CASE restores
      <4>1. DOMAIN t = {th} /\ DOMAIN t' = {th}
        BY <2>2, <3>1, <3>6, LongAlone DEF Busy
      <4>2. t'[th] = r
        BY <2>1, <3>1
      <4> HIDE DEF r, place
      <4> QED
        BY <3>2, <3>4, <3>5, <3>6, <4>1, <4>2 DEF SetSocketTimeout, TimeoutInv, Flushing
    <3>7. CASE ~restores
      <4>1. LongBusy(th) => kept' \/ (r.pc \in Busy /\ prog[th][r.op].long)
        BY <3>2, <3>3, <3>7 DEF LongBusy, Op, Busy
      <4>2. kept => kept'
        BY <3>3
      <4>3. t[th].pc \notin Flushing
        BY <3>1 DEF Flushing
      <4> HIDE DEF r, place, restores, next
      <4> QED
        BY <3>1, <3>2, <3>4, <3>5, <3>7, <4>1, <4>2, <4>3, QuietTimeout
    <3> QED
      BY <3>6, <3>7
  <2>8. CASE Opens(th)
    <3>1. \E r : /\ t' = [t EXCEPT ![th] = r] /\ r.op = t[th].op
                 /\ r.pc \in {"lock", "returned"} /\ (r.pc = "lock" => connected)
      <4>1. CASE connected
        <5> DEFINE r == [t[th] EXCEPT !.pc = "lock"]
        <5>1. t' = [t EXCEPT ![th] = r] /\ r.op = t[th].op /\ r.pc = "lock"
          BY <2>1, <2>8, <4>1 DEF Opens, Goes
        <5> QED
          BY <5>1, <4>1
      <4>2. CASE ~connected
        <5> DEFINE r == [t[th] EXCEPT !.pc = "returned", !.ok = FALSE]
        <5>1. t' = [t EXCEPT ![th] = r] /\ r.op = t[th].op /\ r.pc = "returned"
          BY <2>1, <2>8, <4>2 DEF Opens
        <5> QED
          BY <5>1
      <4> QED
        BY <4>1, <4>2
    <3> QED
      BY <2>1, <2>8, <3>1, QuietTimeout DEF Opens, openVars, Holding, Flushing, Busy, LongBusy, Op
  <2>9. CASE Locks(th)
    <3> DEFINE r == [t[th] EXCEPT !.pc = "flush"]
    <3>1. t' = [t EXCEPT ![th] = r] /\ r.pc = "flush" /\ r.op = t[th].op
      BY <2>1, <2>9 DEF Locks, Goes
    <3>2. connected /\ opener \in {"opened", "done"}
      BY <2>9 DEF Locks, TimeoutInv
    <3>3. DOMAIN t' = DOMAIN t /\ t'[th].pc = "flush" /\ \A y \in DOMAIN t : y # th => t'[y] = t[y]
      BY <2>1, <3>1
    <3>4. early' = (early \/ opener = "opened") /\ UNCHANGED <<openVars, lastTimeout, kept>>
      BY <2>9 DEF Locks
    <3>5. ~early' => ~early /\ opener = "done"
      BY <3>2, <3>4
    <3>6. \A y \in DOMAIN t : LongBusy(y) => LongBusy(y)'
      BY <2>1, <3>1 DEF LongBusy, Op, Busy
    <3> QED
      BY <3>2, <3>3, <3>4, <3>5, <3>6 DEF TimeoutInv, openVars, Flushing
  <2>10. CASE Flushes(th)
    <3>1. \E r : /\ t' = [t EXCEPT ![th] = r] /\ r.op = t[th].op
                 /\ r.pc \in {"flush", "restore"} /\ (r.pc = "restore" => r.saved = lastTimeout)
      <4>1. CASE stream # <<>>
        <5>1. t' = [t EXCEPT ![th] = t[th]]
          BY <2>1, <2>10, <4>1 DEF Flushes
        <5> QED
          BY <5>1, <2>10 DEF Flushes
      <4>2. CASE stream = <<>>
        <5> DEFINE r == [t[th] EXCEPT !.pc = "restore", !.saved = lastTimeout]
        <5>1. t' = [t EXCEPT ![th] = r] /\ r.op = t[th].op /\ r.pc = "restore" /\ r.saved = lastTimeout
          BY <2>1, <2>10, <4>2 DEF Flushes
        <5> QED
          BY <5>1
      <4> QED
        BY <4>1, <4>2
    <3>2. connected
      BY <2>10 DEF Flushes, TimeoutInv, Holding
    <3> QED
      BY <2>1, <2>10, <3>1, <3>2, QuietTimeout
         DEF Flushes, openVars, history, Holding, Flushing, Busy, LongBusy, Op
  <2>11. CASE Restores(th)
    <3> DEFINE r == [t[th] EXCEPT !.pc = "send"]
    <3>1. t' = [t EXCEPT ![th] = r] /\ r.pc = "send" /\ r.op = t[th].op
      BY <2>1, <2>11 DEF Restores, Goes
    <3>2. connected /\ (~early => opener = "done" /\ t[th].saved = lastTimeout)
      BY <2>11 DEF Restores, TimeoutInv, Holding
    <3>3. DOMAIN t' = DOMAIN t /\ t'[th].pc = "send" /\ \A y \in DOMAIN t : y # th => t'[y] = t[y]
      BY <2>1, <3>1
    <3>4. UNCHANGED <<openVars, history>> /\ SetSocketTimeout(t[th].saved)
      BY <2>11 DEF Restores
    <3>5. ~early => lastTimeout' = lastTimeout /\ sockTimeout' = lastTimeout
      BY <3>2, <3>4 DEF SetSocketTimeout
    <3>6. \A y \in DOMAIN t : LongBusy(y) => LongBusy(y)'
      BY <2>1, <3>1 DEF LongBusy, Op, Busy
    <3> QED
      BY <3>2, <3>3, <3>4, <3>5, <3>6 DEF TimeoutInv, openVars, history, Flushing
  <2>12. ASSUME UNCHANGED <<openVars, timeoutVars, early, kept>>, t[th].pc \in Holding \ Flushing,
                \E r : /\ t' = [t EXCEPT ![th] = r] /\ r.op = t[th].op
                       /\ r.pc \in {"head", "body", "returned"}
         PROVE  TimeoutInv'
    <3>1. connected
      BY <2>12 DEF TimeoutInv
    <3> QED
      BY <2>1, <2>12, <3>1, QuietTimeout DEF openVars, Holding, Flushing, Busy, LongBusy, Op
  <2>13. ASSUME NEW ok, NEW from, NEW body, Returns(th, ok, from, body)
         PROVE  \E r : /\ t' = [t EXCEPT ![th] = r] /\ r.op = t[th].op
                       /\ r.pc \in {"head", "body", "returned"}
    <3> DEFINE r == [t[th] EXCEPT !.pc = "returned", !.ok = ok, !.from = from, !.body = body]
    <3>1. t' = [t EXCEPT ![th] = r] /\ r.op = t[th].op /\ r.pc = "returned"
      BY <2>1, <2>13 DEF Returns
    <3> QED
      BY <3>1
  <2>14. CASE Sends(th)
    <3>1. CASE t' = [t EXCEPT ![th].pc = "head", ![th].left = HeaderSize, ![th].head = <<>>]
      <4> DEFINE r == [t[th] EXCEPT !.pc = "head", !.left = HeaderSize, !.head = <<>>]
      <4>1. t' = [t EXCEPT ![th] = r] /\ r.op = t[th].op /\ r.pc = "head"
        BY <2>1, <3>1
      <4> QED
        BY <4>1, <2>12, <2>14 DEF Sends, Holding, Flushing
    <3>2. CASE Returns(th, FALSE, NoRequest, NoRequest)
      BY <3>2, <2>12, <2>13, <2>14 DEF Sends, Holding, Flushing
    <3> QED
      BY <2>14, <3>1, <3>2 DEF Sends
  <2>15. CASE ReceivesHead(th)
    <3>1. \/ \E ok, from, body : Returns(th, ok, from, body)
          \/ \E head, left : t' = [t EXCEPT ![th].head = head, ![th].left = left]
          \/ \E from : t' = [t EXCEPT ![th].pc = "body", ![th].from = from]
      BY <2>15 DEF ReceivesHead
    <3>2. t[th].pc = "head"
      BY <2>15 DEF ReceivesHead
    <3>3. ASSUME NEW head, NEW left, t' = [t EXCEPT ![th].head = head, ![th].left = left]
          PROVE  \E r : t' = [t EXCEPT ![th] = r] /\ r.op = t[th].op /\ r.pc = "head"
      <4> DEFINE r == [t[th] EXCEPT !.head = head, !.left = left]
      <4>1. t' = [t EXCEPT ![th] = r] /\ r.op = t[th].op /\ r.pc = "head"
        BY <2>1, <3>2, <3>3
      <4> QED
        BY <4>1
    <3>4. ASSUME NEW from, t' = [t EXCEPT ![th].pc = "body", ![th].from = from]
          PROVE  \E r : t' = [t EXCEPT ![th] = r] /\ r.op = t[th].op /\ r.pc = "body"
      <4> DEFINE r == [t[th] EXCEPT !.pc = "body", !.from = from]
      <4>1. t' = [t EXCEPT ![th] = r] /\ r.op = t[th].op /\ r.pc = "body"
        BY <2>1, <3>4
      <4> QED
        BY <4>1
    <3> QED
      BY <3>1, <3>2, <3>3, <3>4, <2>12, <2>13, <2>15 DEF ReceivesHead, Holding, Flushing
  <2>16. CASE ReceivesBody(th)
    BY <2>16, <2>12, <2>13 DEF ReceivesBody, Holding, Flushing
  <2>17. CASE TimesOut(th)
    BY <2>17, <2>12, <2>13 DEF TimesOut, Holding, Flushing
  <2> QED
    BY <1>5, <2>3, <2>4, <2>5, <2>6, <2>7, <2>8, <2>9, <2>10, <2>11, <2>14, <2>15, <2>16, <2>17
       DEF ThreadStep
<1>6. CASE UNCHANGED vars
  BY <1>6, <1>u DEF vars, openVars, history
<1> QED
  BY <1>1, <1>2, <1>3, <1>4, <1>5, <1>6 DEF Next

-----------------------------------------------------------------------------
(***************************************************************************)
(* Answers                                                                 *)
(***************************************************************************)
\* What is on its way back.
Pipe == stream \o wire
CmdOf(p, r) == p[r[1]][r[2]].cmd
DataOf(p, cmd) == \E th \in DOMAIN p : \E i \in DOMAIN p[th] : p[th][i].cmd = cmd /\ p[th][i].data
Excuse(p, given, cmd) == \E g \in given : CmdOf(p, g) = cmd

\* Each header in the pipe answers the command of its request, its body follows it unless
\* the connection was closed in between, and no request is asked or answered twice.
IsHeader(pipe, i) == i \in 1..Len(pipe) /\ pipe[i].t = "fields"
HeaderFits(p, pipe, over, acc, i) ==
  /\ pipe[i].cmd = CmdOf(p, pipe[i].req)
  /\ pipe[i].ok => pipe[i].req \in acc
  /\ pipe[i].data <=> pipe[i].ok /\ DataOf(p, pipe[i].cmd)
  /\ pipe[i].data => IF i = Len(pipe) THEN over ELSE pipe[i + 1] = BodyOf(pipe[i].req)
WellFormed(p, pipe, ask, over, acc) ==
  /\ \A i \in 1..Len(pipe) : IsHeader(pipe, i) => HeaderFits(p, pipe, over, acc, i)
  /\ \A i \in 1..Len(ask) : ask[i].cmd = CmdOf(p, ask[i].req)
  /\ \A i, j \in 1..Len(pipe) :
       IsHeader(pipe, i) /\ IsHeader(pipe, j) /\ pipe[i].req = pipe[j].req => i = j
  /\ \A i, j \in 1..Len(ask) : ask[i].req = ask[j].req => i = j
  /\ \A i \in 1..Len(pipe) : \A j \in 1..Len(ask) : IsHeader(pipe, i) => pipe[i].req # ask[j].req

\* A request whose answer may still come.
IsOut(r, pipe, ask) ==
  \/ \E i \in 1..Len(pipe) : IsHeader(pipe, i) /\ pipe[i].req = r
  \/ \E i \in 1..Len(ask) : ask[i].req = r

\* It was given up, or one with its command was, unless its query still waits for it.
OutOK(r) ==
  LET s == t[r[1]] IN
  /\ r[1] \in DOMAIN t /\ r[2] \in 1..Len(prog[r[1]])
  /\ \/ r[2] < s.op
     \/ r[2] = s.op /\ r[3] < s.package
     \/ r = Request(r[1]) /\ s.pc \in {"head", "body", "returned"}
  /\ \/ Excuse(prog, givenUp, CmdOf(prog, r))
     \/ r = Request(r[1]) /\ s.pc \in {"head", "body"}

\* A request was given up by an operation that is over, or has just failed.
GivenOK(g) ==
  LET s == t[g[1]] IN
  /\ g[1] \in DOMAIN t /\ g[2] \in 1..Len(prog[g[1]])
  /\ g[2] < s.op \/ (g[2] = s.op /\ s.pc = "returned" /\ ~s.ok)

\* The request whose header a query has taken.
TakenOK(th) ==
  LET from == t[th].from IN
  /\ from \in accepted
  /\ CmdOf(prog, from) = Op(th).cmd
  /\ from = Request(th) \/ Excuse(prog, givenUp, Op(th).cmd)

\* A query that waits for a body gets the one of this header, and nothing but this header
\* has answered its request.
BodyOK(th) ==
  t[th].pc = "body" =>
    /\ TakenOK(th)
    /\ Op(th).data
    /\ t[th].from = Request(th) => ~IsOut(Request(th), Pipe, asked)
    /\ IF Len(Pipe) = 0 THEN closed ELSE Pipe[1] = BodyOf(t[th].from)

OwnOK(th) ==
  t[th].pc = "returned" /\ t[th].ok =>
    /\ TakenOK(th)
    /\ t[th].body \in {t[th].from, NoRequest} /\ (t[th].body = NoRequest <=> ~Op(th).data)

\* The packages before the one that is under way.
PackageDone(th, k) ==
  \/ <<th, t[th].op, k>> \in accepted
  \/ \E g \in givenUp : <<g[1], g[2]>> # <<th, t[th].op>> /\ CmdOf(prog, g) = Op(th).cmd
PackageOK(th) ==
  /\ t[th].pc \notin Busy => t[th].package = 1
  /\ t[th].pc \in Busy => \A k \in 1..(t[th].package - 1) : PackageDone(th, k)

AnswerInv ==
  /\ WellFormed(prog, Pipe, asked, closed, accepted)
  /\ \A r \in Requests : IsOut(r, Pipe, asked) => OutOK(r)
  /\ \A g \in givenUp : GivenOK(g)
  /\ \A th \in DOMAIN t : BodyOK(th) /\ OwnOK(th) /\ PackageOK(th)

\* Pieces of the pipe: q is what is left of the pipe after n tokens.
Shorter(q, pipe, n) ==
  /\ n \in 0..Len(pipe) /\ Len(q) = Len(pipe) - n
  /\ \A i \in 1..Len(q) : q[i] = pipe[i + n]

LEMMA Moved ==
  ASSUME NEW pipe \in Seq(Tokens), NEW q \in Seq(Tokens), NEW n, Shorter(q, pipe, n), NEW i \in 1..Len(q)
  PROVE  i + n \in 1..Len(pipe) /\ q[i] = pipe[i + n] /\ (i = Len(q) <=> i + n = Len(pipe))
         /\ (i # Len(q) => i + 1 \in 1..Len(q) /\ q[i + 1] = pipe[(i + n) + 1])
<1>1. Len(pipe) \in Nat /\ Len(q) \in Nat /\ n \in 0..Len(pipe) /\ Len(q) = Len(pipe) - n
  BY DEF Shorter
<1>2. i + n \in 1..Len(pipe) /\ (i = Len(q) <=> i + n = Len(pipe))
  BY <1>1
<1>3. ASSUME i # Len(q) PROVE i + 1 \in 1..Len(q) /\ q[i + 1] = pipe[(i + n) + 1]
  <2>1. i + 1 \in 1..Len(q) /\ (i + 1) + n = (i + n) + 1
    BY <1>1, <1>3
  <2> QED
    BY <2>1 DEF Shorter
<1> QED
  BY <1>2, <1>3 DEF Shorter

LEMMA WellDrop ==
  ASSUME NEW p, NEW pipe \in Seq(Tokens), NEW q \in Seq(Tokens), NEW ask, NEW over, NEW acc, NEW n,
         Shorter(q, pipe, n), WellFormed(p, pipe, ask, over, acc)
  PROVE  /\ WellFormed(p, q, ask, over, acc)
         /\ \A r : IsOut(r, q, ask) => IsOut(r, pipe, ask)
         /\ n >= 1 /\ IsHeader(pipe, n) => ~IsOut(pipe[n].req, q, ask)
<1>1. ASSUME NEW i \in 1..Len(q)
      PROVE  i + n \in 1..Len(pipe) /\ q[i] = pipe[i + n] /\ (IsHeader(q, i) <=> IsHeader(pipe, i + n))
  BY Moved DEF IsHeader
<1>2. ASSUME NEW i \in 1..Len(q), IsHeader(q, i) PROVE HeaderFits(p, q, over, acc, i)
  <2>1. HeaderFits(p, pipe, over, acc, i + n)
    BY <1>1, <1>2 DEF WellFormed
  <2>2. q[i] = pipe[i + n] /\ (i = Len(q) <=> i + n = Len(pipe)) /\ (i # Len(q) => q[i + 1] = pipe[(i + n) + 1])
    BY Moved
  <2> QED
    BY <2>1, <2>2 DEF HeaderFits
<1>n. n \in Nat
  BY DEF Shorter
<1>3. ASSUME NEW i \in 1..Len(q), NEW j \in 1..Len(q), IsHeader(q, i), IsHeader(q, j), q[i].req = q[j].req
      PROVE  i = j
  <2>1. i + n = j + n
    BY <1>1, <1>3 DEF WellFormed
  <2> QED
    BY <2>1, <1>n
<1>4. \A i \in 1..Len(q) : \A j \in 1..Len(ask) : IsHeader(q, i) => q[i].req # ask[j].req
  BY <1>1 DEF WellFormed
<1>5. WellFormed(p, q, ask, over, acc)
  BY <1>2, <1>3, <1>4 DEF WellFormed
<1>6. ASSUME NEW r, IsOut(r, q, ask) PROVE IsOut(r, pipe, ask)
  BY <1>1, <1>6 DEF IsOut
<1>7. ASSUME n >= 1, IsHeader(pipe, n), IsOut(pipe[n].req, q, ask) PROVE FALSE
  <2>1. n \in 1..Len(pipe)
    BY <1>7 DEF IsHeader
  <2>2. CASE \E j \in 1..Len(ask) : ask[j].req = pipe[n].req
    BY <1>7, <2>1, <2>2 DEF WellFormed
  <2>3. CASE \E i \in 1..Len(q) : IsHeader(q, i) /\ q[i].req = pipe[n].req
    <3>1. PICK i \in 1..Len(q) : IsHeader(q, i) /\ q[i].req = pipe[n].req
      BY <2>3
    <3>2. i + n = n
      BY <1>1, <1>7, <2>1, <3>1 DEF WellFormed
    <3> QED
      BY <3>2, <1>n
  <2> QED
    BY <1>7, <2>2, <2>3 DEF IsOut
<1> QED
  BY <1>5, <1>6, <1>7

\* The connection is closed: what has not arrived is lost.
LEMMA WellCut ==
  ASSUME NEW p, NEW pipe \in Seq(Tokens), NEW q \in Seq(Tokens), NEW ask, NEW over, NEW acc,
         Len(q) <= Len(pipe), \A i \in 1..Len(q) : q[i] = pipe[i], WellFormed(p, pipe, ask, over, acc)
  PROVE  /\ WellFormed(p, q, <<>>, TRUE, acc)
         /\ \A r : IsOut(r, q, <<>>) => IsOut(r, pipe, ask)
<1>1. ASSUME NEW i \in 1..Len(q)
      PROVE  i \in 1..Len(pipe) /\ q[i] = pipe[i] /\ (IsHeader(q, i) <=> IsHeader(pipe, i))
             /\ (i # Len(q) => i # Len(pipe) /\ q[i + 1] = pipe[i + 1])
  BY DEF IsHeader
<1>2. ASSUME NEW i \in 1..Len(q), IsHeader(q, i) PROVE HeaderFits(p, q, TRUE, acc, i)
  <2>1. HeaderFits(p, pipe, over, acc, i)
    BY <1>1, <1>2 DEF WellFormed
  <2> QED
    BY <2>1, <1>1 DEF HeaderFits
<1>3. \A i, j \in 1..Len(q) : IsHeader(q, i) /\ IsHeader(q, j) /\ q[i].req = q[j].req => i = j
  BY <1>1 DEF WellFormed
<1>4. Len(<<>>) = 0 /\ 1..0 = {}
  OBVIOUS
<1>5. WellFormed(p, q, <<>>, TRUE, acc)
  BY <1>2, <1>3, <1>4 DEF WellFormed
<1>6. ASSUME NEW r, IsOut(r, q, <<>>) PROVE IsOut(r, pipe, ask)
  BY <1>1, <1>4, <1>6 DEF IsOut
<1> QED
  BY <1>5, <1>6

\* A request is lost.
LEMMA WellIgnore ==
  ASSUME NEW p, NEW pipe, NEW ask \in Seq(Commands), ask # <<>>, NEW over, NEW acc,
         WellFormed(p, pipe, ask, over, acc)
  PROVE  /\ WellFormed(p, pipe, Tail(ask), over, acc)
         /\ \A r : IsOut(r, pipe, Tail(ask)) => IsOut(r, pipe, ask)
<1> DEFINE rest == Tail(ask)
<1>1. Len(rest) = Len(ask) - 1 /\ Len(ask) \in Nat /\ \A i \in 1..Len(rest) : rest[i] = ask[i + 1]
  BY HeadTailProperties
<1> HIDE DEF rest
<1>2. \A i \in 1..Len(rest) : i + 1 \in 1..Len(ask) /\ rest[i] = ask[i + 1]
  BY <1>1
<1>3. \A i, j \in 1..Len(rest) : rest[i].req = rest[j].req => i = j
  <2> SUFFICES ASSUME NEW i \in 1..Len(rest), NEW j \in 1..Len(rest), rest[i].req = rest[j].req
               PROVE  i = j
    OBVIOUS
  <2>1. i + 1 = j + 1
    BY <1>2 DEF WellFormed
  <2> QED
    BY <2>1
<1>4. WellFormed(p, pipe, rest, over, acc)
  <2>1. \A i \in 1..Len(rest) : rest[i].cmd = CmdOf(p, rest[i].req)
    BY <1>2 DEF WellFormed
  <2>2. \A i \in 1..Len(pipe) : \A j \in 1..Len(rest) : IsHeader(pipe, i) => pipe[i].req # rest[j].req
    BY <1>2 DEF WellFormed
  <2> QED
    BY <1>3, <2>1, <2>2 DEF WellFormed
<1>5. ASSUME NEW r, IsOut(r, pipe, rest) PROVE IsOut(r, pipe, ask)
  BY <1>2, <1>5 DEF IsOut
<1> QED
  BY <1>4, <1>5 DEF rest

\* A request that was not sent before is sent.
LEMMA WellSend ==
  ASSUME NEW p, NEW pipe, NEW ask \in Seq(Commands), NEW over, NEW acc, NEW command \in Commands,
         command.cmd = CmdOf(p, command.req), ~IsOut(command.req, pipe, ask), WellFormed(p, pipe, ask, over, acc)
  PROVE  /\ WellFormed(p, pipe, Append(ask, command), over, acc)
         /\ \A r : IsOut(r, pipe, Append(ask, command)) => IsOut(r, pipe, ask) \/ r = command.req
<1> DEFINE more == Append(ask, command)
<1>1. /\ Len(more) = Len(ask) + 1 /\ Len(ask) \in Nat
      /\ \A i \in 1..Len(ask) : more[i] = ask[i]
      /\ more[Len(ask) + 1] = command
  BY AppendProperties
<1> HIDE DEF more
<1>2. \A i \in 1..Len(more) : (i \in 1..Len(ask) /\ more[i] = ask[i]) \/ (i = Len(more) /\ more[i] = command)
  BY <1>1
<1>3. \A i \in 1..Len(ask) : ask[i].req # command.req
  BY DEF IsOut
<1>4. \A i \in 1..Len(pipe) : IsHeader(pipe, i) => pipe[i].req # command.req
  BY DEF IsOut
<1>5. \A i, j \in 1..Len(more) : more[i].req = more[j].req => i = j
  <2> SUFFICES ASSUME NEW i \in 1..Len(more), NEW j \in 1..Len(more), more[i].req = more[j].req
               PROVE  i = j
    OBVIOUS
  <2> QED
    BY <1>2, <1>3 DEF WellFormed
<1>6. WellFormed(p, pipe, more, over, acc)
  BY <1>2, <1>4, <1>5 DEF WellFormed
<1>7. ASSUME NEW r, IsOut(r, pipe, more) PROVE IsOut(r, pipe, ask) \/ r = command.req
  BY <1>2, <1>7 DEF IsOut
<1> QED
  BY <1>6, <1>7 DEF more

\* The lidar answers the request that it has first.
LEMMA WellAnswer ==
  ASSUME NEW pipe \in Seq(Tokens), NEW q \in Seq(Tokens), NEW ask \in Seq(Commands), ask # <<>>,
         NEW acc, NEW ok \in BOOLEAN, WellFormed(prog, pipe, ask, FALSE, acc),
         Len(q) = Len(pipe) + Len(Answer(Head(ask), ok)),
         \A i \in 1..Len(q) :
           q[i] = IF i <= Len(pipe) THEN pipe[i] ELSE Answer(Head(ask), ok)[i - Len(pipe)]
  PROVE  /\ WellFormed(prog, q, Tail(ask), FALSE,
                       IF ok THEN acc \cup {Head(ask).req} ELSE acc)
         /\ \A r : IsOut(r, q, Tail(ask)) => IsOut(r, pipe, ask)
<1> DEFINE command == Head(ask)
           rest == Tail(ask)
           a == Answer(command, ok)
           new == IF ok THEN acc \cup {command.req} ELSE acc
           data == ok /\ HasData(command.cmd)
           n == Len(pipe)
<1>1. /\ Len(rest) = Len(ask) - 1 /\ Len(ask) \in Nat /\ 1 \in 1..Len(ask)
      /\ \A i \in 1..Len(rest) : rest[i] = ask[i + 1]
      /\ command \in Commands /\ command = ask[1]
  BY HeadTailProperties
<1>2. /\ Len(a) = IF data THEN 4 ELSE 3
      /\ a[1].t = "id0" /\ a[2].t = "id1" /\ a[3] = FieldsOf(command, ok)
      /\ data => a[4] = BodyOf(command.req)
  BY <1>1, AnswerShape
<1>3. n \in Nat /\ Len(q) = n + Len(a)
  OBVIOUS
<1>4. \A i \in 1..Len(q) : q[i] = IF i <= n THEN pipe[i] ELSE a[i - n]
  OBVIOUS
<1>5. HasData(command.cmd) <=> DataOf(prog, command.cmd)
  BY DEF HasData, DataOf
<1>6. command.cmd = CmdOf(prog, command.req) /\ \A i \in 1..n : IsHeader(pipe, i) => pipe[i].req # command.req
  BY <1>1 DEF WellFormed
<1>7. \A i \in 1..Len(rest) : i + 1 \in 1..Len(ask) /\ rest[i] = ask[i + 1]
  BY <1>1
<1>8. \A i \in 1..Len(rest) : rest[i].req # command.req
  <2> SUFFICES ASSUME NEW i \in 1..Len(rest), rest[i].req = command.req PROVE FALSE
    OBVIOUS
  <2>1. i + 1 = 1
    BY <1>1, <1>7 DEF WellFormed
  <2> QED
    BY <2>1
<1> HIDE DEF command, rest, a, new, data, n
<1>9. ASSUME NEW i \in 1..Len(q), IsHeader(q, i)
      PROVE  \/ i \in 1..n /\ IsHeader(pipe, i) /\ q[i] = pipe[i]
             \/ i = n + 3 /\ q[i] = FieldsOf(command, ok)
  <2>1. CASE i <= n
    BY <2>1, <1>3, <1>4, <1>9 DEF IsHeader, n
  <2>2. CASE ~(i <= n)
    <3>1. i - n \in 1..Len(a) /\ q[i] = a[i - n] /\ q[i].t = "fields"
      BY <2>2, <1>2, <1>3, <1>4, <1>9 DEF IsHeader
    <3>2. i - n \in {1, 2, 3, 4} /\ (i - n = 4 => data)
      BY <3>1, <1>2
    <3>3. i - n # 1 /\ i - n # 2
      BY <3>1, <1>2
    <3>4. i - n # 4
      BY <3>1, <3>2, <1>2 DEF BodyOf
    <3>5. i - n = 3
      BY <3>2, <3>3, <3>4
    <3> QED
      BY <3>1, <3>5, <1>2, <1>3
  <2> QED
    BY <2>1, <2>2
<1>10. ASSUME NEW i \in 1..Len(q), IsHeader(q, i) PROVE HeaderFits(prog, q, FALSE, new, i)
  <2>1. CASE i \in 1..n /\ IsHeader(pipe, i) /\ q[i] = pipe[i]
    <3>1. HeaderFits(prog, pipe, FALSE, acc, i)
      BY <2>1 DEF WellFormed, n
    <3>2. CASE i = n
      <4>1. ~pipe[i].data
        BY <3>1, <3>2 DEF HeaderFits, n
      <4> QED
        BY <2>1, <3>1, <4>1 DEF HeaderFits, new
    <3>3. CASE i # n
      <4>1. i + 1 \in 1..Len(q) /\ i + 1 <= n /\ i # Len(q)
        BY <2>1, <3>3, <1>2, <1>3, SMTT(30)
      <4>2. q[i + 1] = pipe[i + 1]
        BY <4>1, <1>4
      <4> QED
        BY <2>1, <3>1, <3>3, <4>1, <4>2 DEF HeaderFits, new, n
    <3> QED
      BY <3>2, <3>3
  <2>2. CASE i = n + 3 /\ q[i] = FieldsOf(command, ok)
    <3>1. ASSUME data PROVE i # Len(q) /\ q[i + 1] = BodyOf(command.req)
      <4>1. i + 1 \in 1..Len(q) /\ ~(i + 1 <= n) /\ (i + 1) - n = 4 /\ i # Len(q)
        BY <2>2, <3>1, <1>2, <1>3
      <4> QED
        BY <4>1, <1>2, <1>4, <3>1
    <3> DEFINE f == FieldsOf(command, ok)
    <3>2. f.cmd = command.cmd /\ f.ok = ok /\ f.req = command.req /\ (f.data <=> data)
      BY DEF FieldsOf, data
    <3> HIDE DEF f
    <3>3. data <=> ok /\ DataOf(prog, command.cmd)
      BY <1>5 DEF data
    <3>4. ok => command.req \in new
      BY DEF new
    <3>5. q[i] = f
      BY <2>2 DEF f
    <3> QED
      BY <3>1, <3>2, <3>3, <3>4, <3>5, <1>6 DEF HeaderFits
  <2> QED
    BY <1>9, <1>10, <2>1, <2>2
<1>11. FieldsOf(command, ok).req = command.req
  BY DEF FieldsOf
<1>12. \A i, j \in 1..Len(q) : IsHeader(q, i) /\ IsHeader(q, j) /\ q[i].req = q[j].req => i = j
  <2> SUFFICES ASSUME NEW i \in 1..Len(q), NEW j \in 1..Len(q), IsHeader(q, i), IsHeader(q, j),
                      q[i].req = q[j].req
               PROVE  i = j
    OBVIOUS
  <2>1. \A x, y \in 1..n : IsHeader(pipe, x) /\ IsHeader(pipe, y) /\ pipe[x].req = pipe[y].req => x = y
    BY DEF WellFormed, n
  <2> QED
    BY <1>6, <1>9, <1>11, <2>1
<1>13. \A i \in 1..Len(q) : \A j \in 1..Len(rest) : IsHeader(q, i) => q[i].req # rest[j].req
  <2>1. \A x \in 1..n : \A y \in 1..Len(ask) : IsHeader(pipe, x) => pipe[x].req # ask[y].req
    BY DEF WellFormed, n
  <2> QED
    BY <1>7, <1>8, <1>9, <1>11, <2>1
<1>14. \A i \in 1..Len(rest) : rest[i].cmd = CmdOf(prog, rest[i].req)
  BY <1>7 DEF WellFormed
<1>15. \A i, j \in 1..Len(rest) : rest[i].req = rest[j].req => i = j
  <2> SUFFICES ASSUME NEW i \in 1..Len(rest), NEW j \in 1..Len(rest), rest[i].req = rest[j].req
               PROVE  i = j
    OBVIOUS
  <2>1. i + 1 \in 1..Len(ask) /\ j + 1 \in 1..Len(ask) /\ ask[i + 1].req = ask[j + 1].req
    BY <1>7
  <2>2. \A x, y \in 1..Len(ask) : ask[x].req = ask[y].req => x = y
    BY DEF WellFormed
  <2>3. i + 1 = j + 1
    BY <2>1, <2>2
  <2> QED
    BY <2>3
<1>16. WellFormed(prog, q, rest, FALSE, new)
  BY <1>10, <1>12, <1>13, <1>14, <1>15 DEF WellFormed
<1>17. ASSUME NEW r, IsOut(r, q, rest) PROVE IsOut(r, pipe, ask)
  <2>1. CASE \E i \in 1..Len(q) : IsHeader(q, i) /\ q[i].req = r
    BY <2>1, <1>1, <1>9, <1>11 DEF IsOut, n
  <2>2. CASE \E i \in 1..Len(rest) : rest[i].req = r
    BY <2>2, <1>7 DEF IsOut
  <2> QED
    BY <1>17, <2>1, <2>2 DEF IsOut
<1> QED
  BY <1>16, <1>17 DEF rest, new, command

\* What is taken from the stream is taken from the pipe.
LEMMA DropPipe ==
  ASSUME NEW s \in Seq(Tokens), NEW w \in Seq(Tokens), NEW rest \in Seq(Tokens), NEW n,
         Shorter(rest, s, n)
  PROVE  Shorter(rest \o w, s \o w, n)
<1> DEFINE p == s \o w
           q == rest \o w
<1>1. /\ Len(p) = Len(s) + Len(w)
      /\ \A i \in 1..Len(s) + Len(w) : p[i] = IF i <= Len(s) THEN s[i] ELSE w[i - Len(s)]
  BY ConcatProperties
<1>2. /\ Len(q) = Len(rest) + Len(w)
      /\ \A i \in 1..Len(rest) + Len(w) : q[i] = IF i <= Len(rest) THEN rest[i] ELSE w[i - Len(rest)]
  BY ConcatProperties
<1>3. /\ n \in 0..Len(s) /\ Len(rest) = Len(s) - n /\ Len(s) \in Nat /\ Len(w) \in Nat
      /\ \A i \in 1..Len(rest) : rest[i] = s[i + n]
  BY DEF Shorter
<1> HIDE DEF p, q
<1>4. ASSUME NEW i \in 1..Len(q) PROVE q[i] = p[i + n]
  <2>1. i + n \in 1..Len(s) + Len(w) /\ i \in 1..Len(rest) + Len(w)
    BY <1>2, <1>3
  <2>2. CASE i <= Len(rest)
    <3>1. i \in 1..Len(rest) /\ i + n <= Len(s)
      BY <2>2, <1>3
    <3> QED
      BY <2>1, <3>1, <1>1, <1>2, <1>3
  <2>3. CASE ~(i <= Len(rest))
    <3>1. ~(i + n <= Len(s)) /\ i - Len(rest) = (i + n) - Len(s)
      BY <2>1, <2>3, <1>3
    <3> QED
      BY <2>1, <2>3, <3>1, <1>1, <1>2
  <2> QED
    BY <2>2, <2>3
<1>5. n \in 0..Len(p) /\ Len(q) = Len(p) - n
  BY <1>1, <1>2, <1>3
<1> QED
  BY <1>4, <1>5 DEF Shorter, p, q

\* What arrives stays in the pipe.
LEMMA ArrivePipe ==
  ASSUME NEW s \in Seq(Tokens), NEW w \in Seq(Tokens), w # <<>>
  PROVE  Shorter(Append(s, Head(w)) \o Tail(w), s \o w, 0)
<1> DEFINE p == s \o w
           s2 == Append(s, Head(w))
           w2 == Tail(w)
           q == s2 \o w2
<1>1. /\ Len(p) = Len(s) + Len(w)
      /\ \A i \in 1..Len(s) + Len(w) : p[i] = IF i <= Len(s) THEN s[i] ELSE w[i - Len(s)]
  BY ConcatProperties
<1>2. /\ Head(w) \in Tokens /\ Head(w) = w[1]
      /\ w2 \in Seq(Tokens) /\ Len(w2) = Len(w) - 1 /\ \A i \in 1..Len(w2) : w2[i] = w[i + 1]
  BY HeadTailProperties
<1>3. /\ s2 \in Seq(Tokens) /\ Len(s2) = Len(s) + 1 /\ \A i \in 1..Len(s) : s2[i] = s[i]
      /\ s2[Len(s) + 1] = w[1]
  BY <1>2, AppendProperties
<1>4. Len(s) \in Nat /\ Len(w) \in Nat /\ Len(w) # 0
  OBVIOUS
<1> HIDE DEF p, s2, w2
<1>5. /\ Len(q) = Len(s2) + Len(w2)
      /\ \A i \in 1..Len(s2) + Len(w2) : q[i] = IF i <= Len(s2) THEN s2[i] ELSE w2[i - Len(s2)]
  BY <1>2, <1>3, ConcatProperties
<1> HIDE DEF q
<1>6. ASSUME NEW i \in 1..Len(q) PROVE q[i] = p[i + 0]
  <2>1. i \in 1..Len(s) + Len(w) /\ i \in 1..Len(s2) + Len(w2) /\ i + 0 = i
    BY <1>2, <1>3, <1>4, <1>5
  <2>2. CASE i <= Len(s)
    BY <2>1, <2>2, <1>1, <1>3, <1>4, <1>5
  <2>3. CASE i = Len(s) + 1
    BY <2>1, <2>3, <1>1, <1>3, <1>4, <1>5
  <2>4. CASE i > Len(s) + 1
    <3>1. i - Len(s2) \in 1..Len(w2) /\ (i - Len(s2)) + 1 = i - Len(s)
      BY <2>1, <2>4, <1>2, <1>3, <1>4
    <3>2. q[i] = w2[i - Len(s2)] /\ p[i] = w[i - Len(s)]
      BY <2>1, <2>4, <1>1, <1>3, <1>4, <1>5
    <3> QED
      BY <2>1, <3>1, <3>2, <1>2
  <2> QED
    BY <2>1, <2>2, <2>3, <2>4, <1>4
<1>7. 0 \in 0..Len(p) /\ Len(q) = Len(p) - 0
  BY <1>1, <1>2, <1>3, <1>4, <1>5
<1> QED
  BY <1>6, <1>7 DEF Shorter, p, q, s2, w2

LEMMA Regroup ==
  ASSUME NEW s \in Seq(Tokens), NEW w \in Seq(Tokens), NEW a \in Seq(Tokens)
  PROVE  (s \o w) \o a = s \o (w \o a)
  BY ConcatAssociative

\* The lidar and the network answer requests and lose them, and mix nothing up.
LEMMA LidarAnswer ==
  ASSUME LinkInv, LinkInv', AnswerInv, LidarStep
  PROVE  AnswerInv'
<1>1. UNCHANGED <<prog, t, givenUp>>
  BY DEF LidarStep, history
<1>2. /\ asked \in Seq(Commands) /\ wire \in Seq(Tokens) /\ stream \in Seq(Tokens)
      /\ asked' \in Seq(Commands) /\ wire' \in Seq(Tokens) /\ stream' \in Seq(Tokens)
  BY DEF LinkInv, PipeTypes
<1>3. WellFormed(prog, Pipe, asked, closed, accepted)
  BY DEF AnswerInv
<1>4. /\ Pipe \in Seq(Tokens) /\ Len(Pipe) \in Nat /\ Pipe' \in Seq(Tokens)
      /\ Len(Pipe) = Len(stream) + Len(wire) /\ Len(stream) \in Nat /\ Len(wire) \in Nat
      /\ \A i \in 1..Len(stream) + Len(wire) :
           Pipe[i] = IF i <= Len(stream) THEN stream[i] ELSE wire[i - Len(stream)]
  BY <1>2, ConcatProperties DEF Pipe
<1> DEFINE First == \/ Len(Pipe') = 0 /\ closed'
                    \/ Len(Pipe') # 0 /\ Pipe'[1] = Pipe[1]
<1>5. /\ WellFormed(prog, Pipe', asked', closed', accepted')
      /\ \A r : IsOut(r, Pipe', asked') => IsOut(r, Pipe, asked)
      /\ accepted \subseteq accepted'
      /\ (Len(Pipe) # 0 => First) /\ (Len(Pipe) = 0 /\ closed => Len(Pipe') = 0 /\ closed')
  <2>1. CASE Answers
    <3> DEFINE command == Head(asked)
    <3>1. PICK ok \in BOOLEAN :
            /\ wire' = wire \o Answer(command, ok)
            /\ accepted' = IF ok THEN accepted \cup {command.req} ELSE accepted
      BY <2>1 DEF Answers
    <3>2. asked # <<>> /\ closed = FALSE /\ asked' = Tail(asked) /\ stream' = stream /\ closed' = closed
      BY <2>1, <1>2 DEF Answers
    <3> DEFINE a == Answer(command, ok)
               w == wire \o a
               p == stream \o wire
               q == stream \o w
    <3>3. a \in Seq(Tokens) /\ Len(a) \in Nat /\ Len(a) # 0
      <4>1. command \in Commands
        BY <1>2, <3>2, HeadTailProperties
      <4> HIDE DEF command
      <4>2. Len(a) = IF ok /\ HasData(command.cmd) THEN 4 ELSE 3
        BY <4>1, AnswerShape
      <4>3. a \in Seq(Tokens)
        BY <4>1, AnswerShape
      <4> QED
        BY <4>2, <4>3
    <3> HIDE DEF a, command
    <3>4. q = p \o a
      <4>1. (stream \o wire) \o a = stream \o (wire \o a)
        BY <1>2, <3>3, Regroup
      <4> QED
        BY <4>1
    <3>5. Pipe = p /\ Pipe' = q
      BY <3>1, <3>2 DEF Pipe, a
    <3>6. /\ p \o a \in Seq(Tokens)
          /\ Len(p \o a) = Len(p) + Len(a)
          /\ \A i \in 1..Len(p) + Len(a) : (p \o a)[i] = IF i <= Len(p) THEN p[i] ELSE a[i - Len(p)]
      BY <1>4, <3>3, <3>5, ConcatProperties
    <3> HIDE DEF p, q
    <3>7. q \in Seq(Tokens) /\ Len(q) = Len(p) + Len(a)
          /\ \A i \in 1..Len(q) : q[i] = IF i <= Len(p) THEN p[i] ELSE a[i - Len(p)]
      BY <3>4, <3>6
    <3>8. p \in Seq(Tokens) /\ WellFormed(prog, p, asked, FALSE, accepted)
      BY <1>3, <1>4, <3>2, <3>5
    <3>9. /\ WellFormed(prog, q, Tail(asked), FALSE, IF ok THEN accepted \cup {command.req} ELSE accepted)
          /\ \A r : IsOut(r, q, Tail(asked)) => IsOut(r, p, asked)
      BY <1>2, <3>2, <3>7, <3>8, WellAnswer DEF a, command
    <3>10. Len(p) \in Nat /\ (Len(p) # 0 => Len(q) # 0 /\ q[1] = p[1])
      BY <3>3, <3>7, <3>8
    <3> QED
      BY <3>1, <3>2, <3>5, <3>9, <3>10
  <2>2. CASE Ignores
    <3>1. asked # <<>> /\ asked' = Tail(asked) /\ UNCHANGED <<stream, wire, closed, accepted>>
      BY <2>2 DEF Ignores
    <3>2. Pipe' = Pipe
      BY <3>1 DEF Pipe
    <3> QED
      BY <1>2, <1>3, <3>1, <3>2, WellIgnore
  <2>3. CASE Arrives
    <3>1. /\ wire # <<>> /\ stream' = Append(stream, Head(wire)) /\ wire' = Tail(wire)
          /\ UNCHANGED <<asked, closed, accepted>>
      BY <2>3 DEF Arrives
    <3>2. Shorter(Pipe', Pipe, 0)
      BY <1>2, <3>1, ArrivePipe DEF Pipe
    <3>3. /\ WellFormed(prog, Pipe', asked, closed, accepted)
          /\ \A r : IsOut(r, Pipe', asked) => IsOut(r, Pipe, asked)
      BY <1>3, <1>4, <3>2, WellDrop
    <3>4. Len(Pipe') = Len(Pipe) /\ (Len(Pipe) # 0 => Pipe'[1] = Pipe[1])
      BY <1>4, <3>2 DEF Shorter
    <3> QED
      BY <3>1, <3>3, <3>4
  <2>4. CASE Closes
    <3>1. closed' = TRUE /\ asked' = <<>> /\ wire' = <<>> /\ UNCHANGED <<stream, accepted>>
      BY <2>4 DEF Closes
    <3>2. Pipe' = stream
      BY <1>2, <3>1, ConcatEmptySeq DEF Pipe
    <3>3. Len(stream) <= Len(Pipe) /\ \A i \in 1..Len(stream) : stream[i] = Pipe[i]
      BY <1>4
    <3>4. /\ WellFormed(prog, stream, <<>>, TRUE, accepted)
          /\ \A r : IsOut(r, stream, <<>>) => IsOut(r, Pipe, asked)
      BY <1>2, <1>3, <1>4, <3>3, WellCut
    <3>5. WellFormed(prog, Pipe', asked', closed', accepted')
      BY <3>1, <3>2, <3>4
    <3>6. \A r : IsOut(r, Pipe', asked') => IsOut(r, Pipe, asked)
      BY <3>1, <3>2, <3>4
    <3>7. Len(Pipe') = Len(stream) /\ (Len(stream) # 0 => 1 \in 1..Len(stream) /\ Pipe'[1] = stream[1])
      BY <1>4, <3>2
    <3>8. Len(Pipe) # 0 => First
      BY <1>4, <3>1, <3>3, <3>7
    <3>9. Len(Pipe) = 0 => Len(Pipe') = 0
      BY <1>4, <3>7
    <3>10. closed' = TRUE /\ accepted \subseteq accepted'
      BY <3>1
    <3> HIDE DEF First
    <3> QED
      BY <3>5, <3>6, <3>8, <3>9, <3>10
  <2> QED
    BY <2>1, <2>2, <2>3, <2>4 DEF LidarStep
<1>6. \A r \in Requests : IsOut(r, Pipe', asked') => OutOK(r)'
  BY <1>1, <1>5 DEF AnswerInv, OutOK, Request
<1>7. \A g \in givenUp' : GivenOK(g)'
  BY <1>1 DEF AnswerInv, GivenOK
<1>8. ASSUME NEW th \in DOMAIN t PROVE BodyOK(th)' /\ OwnOK(th)' /\ PackageOK(th)'
  <2>1. BodyOK(th) /\ OwnOK(th) /\ PackageOK(th)
    BY DEF AnswerInv
  <2>2. TakenOK(th) => TakenOK(th)'
    BY <1>1, <1>5 DEF TakenOK, Op, Request
  <2>3. BodyOK(th)'
    BY <1>1, <1>4, <1>5, <2>1, <2>2 DEF BodyOK, Op, Request
  <2>4. OwnOK(th)'
    BY <1>1, <2>1, <2>2 DEF OwnOK, Op
  <2>5. PackageOK(th)'
    BY <1>1, <1>5, <2>1 DEF PackageOK, PackageDone, Op
  <2> QED
    BY <2>3, <2>4, <2>5
<1> QED
  BY <1>1, <1>5, <1>6, <1>7, <1>8 DEF AnswerInv

\* A step of one thread: what the others know stays true.
LEMMA OneMoves ==
  ASSUME LinkInv, AnswerInv, prog' = prog, accepted' = accepted, closed' = closed,
         NEW th \in DOMAIN t, NEW r, t' = [t EXCEPT ![th] = r],
         givenUp' \in {givenUp, givenUp \cup {Request(th)}},
         (Pipe' = Pipe /\ asked' = asked) \/ t[th].pc \in Holding,
         WellFormed(prog, Pipe', asked', closed, accepted),
         \A q \in Requests : IsOut(q, Pipe', asked') /\ q[1] # th => IsOut(q, Pipe, asked),
         \A q \in Requests : IsOut(q, Pipe', asked') /\ q[1] = th => OutOK(q)',
         \A g \in givenUp' : g[1] = th => GivenOK(g)',
         BodyOK(th)', OwnOK(th)', PackageOK(th)'
  PROVE  AnswerInv'
<1>1. DOMAIN t' = DOMAIN t /\ \A y \in DOMAIN t : y # th => t'[y] = t[y]
  BY DEF LinkInv, ThreadTypes
<1>2. givenUp \subseteq givenUp' /\ \A g \in givenUp' : g \in givenUp \/ g[1] = th
  BY DEF Request
<1>3. \A cmd : Excuse(prog, givenUp, cmd) => Excuse(prog, givenUp', cmd)
  BY <1>2 DEF Excuse
<1>4. ASSUME NEW q \in Requests, IsOut(q, Pipe', asked') PROVE OutOK(q)'
  <2>1. CASE q[1] = th
    BY <1>4, <2>1
  <2>2. CASE q[1] # th
    <3>1. OutOK(q)
      BY <1>4, <2>2 DEF AnswerInv
    <3> QED
      BY <1>1, <1>3, <2>2, <3>1 DEF OutOK, Request
  <2> QED
    BY <2>1, <2>2
<1>5. ASSUME NEW g \in givenUp' PROVE GivenOK(g)'
  <2>1. CASE g[1] = th
    BY <2>1
  <2>2. CASE g[1] # th
    <3>1. GivenOK(g)
      BY <1>2, <2>2 DEF AnswerInv
    <3> QED
      BY <1>1, <2>2, <3>1 DEF GivenOK
  <2> QED
    BY <2>1, <2>2
<1>6. ASSUME NEW y \in DOMAIN t, y # th PROVE BodyOK(y)' /\ OwnOK(y)' /\ PackageOK(y)'
  <2>1. BodyOK(y) /\ OwnOK(y) /\ PackageOK(y) /\ t'[y] = t[y]
    BY <1>1, <1>6 DEF AnswerInv
  <2>2. TakenOK(y) => TakenOK(y)'
    BY <1>3, <2>1 DEF TakenOK, Op, Request
  <2>3. BodyOK(y)'
    <3>1. CASE t[th].pc \in Holding
      <4>1. t[y].pc \notin Holding
        BY <1>6, <3>1 DEF LinkInv
      <4> QED
        BY <2>1, <4>1 DEF BodyOK, Holding
    <3>2. CASE Pipe' = Pipe /\ asked' = asked
      BY <2>1, <2>2, <3>2 DEF BodyOK, Op, Request
    <3> QED
      BY <3>1, <3>2
  <2>4. OwnOK(y)'
    BY <2>1, <2>2 DEF OwnOK, Op
  <2>5. PackageOK(y)'
    BY <1>2, <2>1 DEF PackageOK, PackageDone, Op
  <2> QED
    BY <2>3, <2>4, <2>5
<1> QED
  BY <1>1, <1>4, <1>5, <1>6 DEF AnswerInv

\* A step that takes no answer: around a query, up to its sending, or its failure.  What is
\* thrown away of the pipe is never looked at.
LEMMA TakesNothing ==
  ASSUME LinkInv, LinkInv', AnswerInv, prog' = prog, accepted' = accepted, closed' = closed, asked' = asked,
         NEW th \in DOMAIN t, NEW r, t' = [t EXCEPT ![th] = r], r.op = t[th].op, r.package = t[th].package,
         NEW n, Shorter(Pipe', Pipe, n), Pipe' = Pipe \/ t[th].pc \in Holding,
         r.pc \notin {"head", "body"}, t[th].pc # "returned",
         \/ /\ t[th].pc \notin {"head", "body"} /\ givenUp' = givenUp /\ r.pc # "returned"
            /\ t[th].pc \in Busy \/ r.pc \notin Busy \/ t[th].package = 1
            /\ t[th].pc \notin Busy \/ r.pc \in Busy
         \/ /\ t[th].pc \in Busy /\ r.pc = "returned" /\ ~r.ok
            /\ givenUp' = givenUp \cup {Request(th)}
  PROVE  AnswerInv'
<1>1. t'[th] = r /\ th \in Threads /\ DOMAIN t' = DOMAIN t /\ Request(th)' = Request(th) /\ Op(th)' = Op(th)
  BY KnownProgram DEF LinkInv, ThreadTypes, IsProgram, Request, Op
<1>2. Pipe \in Seq(Tokens) /\ Pipe' \in Seq(Tokens)
  BY ConcatProperties DEF LinkInv, PipeTypes, Pipe
<1>3. /\ WellFormed(prog, Pipe', asked', closed, accepted)
      /\ \A q : IsOut(q, Pipe', asked') => IsOut(q, Pipe, asked)
  <2>1. WellFormed(prog, Pipe, asked, closed, accepted)
    BY DEF AnswerInv
  <2> QED
    BY <1>2, <2>1, WellDrop
<1>4. givenUp \subseteq givenUp' /\ givenUp' \in {givenUp, givenUp \cup {Request(th)}}
  OBVIOUS
<1>5. \A cmd : Excuse(prog, givenUp, cmd) => Excuse(prog, givenUp', cmd)
  BY <1>4 DEF Excuse
<1>6. ASSUME NEW q \in Requests, IsOut(q, Pipe', asked'), q[1] = th PROVE OutOK(q)'
  <2>1. OutOK(q)
    BY <1>3, <1>6 DEF AnswerInv
  <2>2. \/ q[2] < r.op \/ (q[2] = r.op /\ q[3] < r.package)
        \/ q = Request(th) /\ r.pc = "returned"
    BY <1>6, <2>1 DEF OutOK
  <2>3. Excuse(prog, givenUp', CmdOf(prog, q))
    <3>1. CASE q = Request(th) /\ t[th].pc \in {"head", "body"}
      BY <3>1 DEF Excuse
    <3>2. CASE ~(q = Request(th) /\ t[th].pc \in {"head", "body"})
      BY <1>5, <1>6, <2>1, <3>2 DEF OutOK
    <3> QED
      BY <3>1, <3>2
  <2>4. q[1] \in DOMAIN t' /\ q[2] \in 1..Len(prog'[q[1]])
    BY <1>1, <2>1 DEF OutOK
  <2>5. q[2] < t'[q[1]].op \/ (q[2] = t'[q[1]].op /\ q[3] < t'[q[1]].package)
        \/ (q = Request(q[1])' /\ t'[q[1]].pc \in {"head", "body", "returned"})
    BY <1>1, <1>6, <2>2
  <2> QED
    BY <2>3, <2>4, <2>5 DEF OutOK
<1>7. ASSUME NEW g \in givenUp', g[1] = th PROVE GivenOK(g)'
  <2>1. CASE g \in givenUp
    <3>1. GivenOK(g)
      BY <2>1 DEF AnswerInv
    <3>2. g[2] < t[th].op
      BY <1>7, <3>1 DEF GivenOK
    <3> QED
      BY <1>1, <1>7, <3>1, <3>2 DEF GivenOK
  <2>2. CASE g \notin givenUp
    <3>1. g = Request(th) /\ r.pc = "returned" /\ ~r.ok /\ t[th].pc \in Busy
      BY <2>2
    <3>2. g[2] = t[th].op /\ t[th].op \in 1..Len(prog[th])
      BY <3>1 DEF Request, LinkInv
    <3> QED
      BY <1>1, <1>7, <3>1, <3>2 DEF GivenOK
  <2> QED
    BY <2>1, <2>2
<1>8. BodyOK(th)' /\ OwnOK(th)'
  BY <1>1 DEF BodyOK, OwnOK
<1>9. PackageOK(th)'
  <2>1. PackageOK(th)
    BY DEF AnswerInv
  <2>2. CASE r.pc \notin Busy
    <3>1. t[th].pc \notin Busy
      BY <2>2 DEF Busy
    <3> QED
      BY <1>1, <2>1, <2>2, <3>1 DEF PackageOK
  <2>3. CASE r.pc \in Busy /\ t[th].pc \in Busy
    BY <1>1, <1>4, <2>1, <2>3 DEF PackageOK, PackageDone
  <2>4. CASE r.pc \in Busy /\ t[th].pc \notin Busy
    <3>1. t'[th].package = 1 /\ t'[th].pc \in Busy
      BY <1>1, <2>1, <2>4 DEF PackageOK
    <3>2. 1..(1 - 1) = {}
      OBVIOUS
    <3> QED
      BY <3>1, <3>2 DEF PackageOK
  <2> QED
    BY <2>2, <2>3, <2>4
<1>10. (Pipe' = Pipe /\ asked' = asked) \/ t[th].pc \in Holding
  OBVIOUS
<1>11. \A q \in Requests : IsOut(q, Pipe', asked') /\ q[1] # th => IsOut(q, Pipe, asked)
  BY <1>3
<1> QED
  BY <1>3, <1>4, <1>6, <1>7, <1>8, <1>9, <1>10, <1>11, OneMoves

\* When a query has succeeded, its package is done too, or the answer was a late one of an
\* operation that is over.
LEMMA LastPackage ==
  ASSUME LinkInv, AnswerInv, NEW th \in DOMAIN t, t[th].pc = "returned", t[th].ok
  PROVE  \A k \in 1..t[th].package : PackageDone(th, k)
<1>1. OwnOK(th) /\ PackageOK(th) /\ t[th].package \in Nat \ {0}
  BY OwnRequest DEF AnswerInv, ThreadStates
<1>2. TakenOK(th)
  BY <1>1 DEF OwnOK
<1>3. PackageDone(th, t[th].package)
  <2>1. CASE t[th].from = Request(th)
    BY <1>2, <2>1 DEF TakenOK, PackageDone, Request
  <2>2. CASE Excuse(prog, givenUp, Op(th).cmd)
    <3>1. PICK g \in givenUp : CmdOf(prog, g) = Op(th).cmd
      BY <2>2 DEF Excuse
    <3>2. GivenOK(g)
      BY DEF AnswerInv
    <3>3. ~(g[1] = th /\ g[2] = t[th].op)
      <4> SUFFICES ASSUME g[1] = th, g[2] = t[th].op PROVE FALSE
        OBVIOUS
      <4>1. t[th].op < t[th].op
        BY <3>2 DEF GivenOK
      <4>2. t[th].op \in Nat
        BY OwnRequest DEF ThreadStates
      <4> QED
        BY <4>1, <4>2
    <3> QED
      BY <3>1, <3>3 DEF PackageDone
  <2> QED
    BY <1>2, <2>1, <2>2 DEF TakenOK
<1>4. \A k \in 1..(t[th].package - 1) : PackageDone(th, k)
  BY <1>1 DEF PackageOK, Busy
<1> QED
  <2> SUFFICES ASSUME NEW k \in 1..t[th].package PROVE PackageDone(th, k)
    OBVIOUS
  <2>1. k = t[th].package \/ k \in 1..(t[th].package - 1)
    BY <1>1
  <2> QED
    BY <2>1, <1>3, <1>4

\* The next package, or the next operation.
LEMMA ContinuesAnswer ==
  ASSUME LinkInv, LinkInv', AnswerInv, prog' = prog, NEW th \in DOMAIN t, Continues(th)
  PROVE  AnswerInv'
<1> DEFINE next == t[th].ok /\ t[th].package < Op(th).packages
           place == IF next THEN "open" ELSE "ready"
           package == IF next THEN t[th].package + 1 ELSE 1
           op == IF next THEN t[th].op ELSE t[th].op + 1
           r == [t[th] EXCEPT !.pc = place, !.package = package, !.op = op]
<1>1. /\ t' = [t EXCEPT ![th] = r] /\ t[th].pc = "returned"
      /\ UNCHANGED <<lidarVars, givenUp>>
  BY DEF Continues
<1>2. /\ t[th] \in ThreadStates /\ t[th].op \in Nat /\ t[th].package \in Nat /\ th \in Threads
      /\ t \in [DOMAIN prog -> ThreadStates]
  BY OwnRequest, KnownProgram DEF ThreadStates, LinkInv, ThreadTypes, IsProgram
<1>3. /\ t'[th].pc = place /\ t'[th].op = op /\ t'[th].package = package /\ DOMAIN t' = DOMAIN t
      /\ place \notin {"head", "body", "returned"}
  BY <1>1, <1>2 DEF ThreadStates
<1>4. Pipe' = Pipe /\ asked' = asked /\ accepted' = accepted /\ closed' = closed /\ givenUp' = givenUp
  BY <1>1 DEF lidarVars, Pipe
<1>5. op >= t[th].op /\ (op = t[th].op => next /\ package = t[th].package + 1)
  BY <1>2
<1>6. ASSUME NEW q \in Requests, IsOut(q, Pipe', asked'), q[1] = th PROVE OutOK(q)'
  <2>1. OutOK(q)
    BY <1>4, <1>6 DEF AnswerInv
  <2>2. Excuse(prog, givenUp, CmdOf(prog, q)) /\ q[2] \in 1..Len(prog[th]) /\ q[2] \in Nat /\ q[3] \in Nat
    BY <1>1, <1>6, <2>1 DEF OutOK, Requests
  <2>3. q[2] < t[th].op \/ (q[2] = t[th].op /\ q[3] <= t[th].package)
    <3>1. CASE q = Request(th)
      BY <1>2, <3>1 DEF Request
    <3>2. CASE q # Request(th)
      BY <1>2, <1>6, <2>1, <2>2, <3>2 DEF OutOK
    <3> QED
      BY <3>1, <3>2
  <2>4. q[2] < op \/ (q[2] = op /\ q[3] < package)
    BY <1>2, <1>5, <2>2, <2>3
  <2> QED
    BY <1>3, <1>4, <1>6, <2>2, <2>4 DEF OutOK
<1>7. ASSUME NEW g \in givenUp', g[1] = th PROVE GivenOK(g)'
  <2>1. GivenOK(g) /\ g \in Requests
    BY <1>4 DEF AnswerInv, LinkInv
  <2>2. g[2] < op
    BY <1>2, <1>5, <1>7, <2>1 DEF GivenOK, Requests
  <2> QED
    BY <1>3, <1>7, <2>1, <2>2 DEF GivenOK
<1>8. BodyOK(th)' /\ OwnOK(th)'
  BY <1>3 DEF BodyOK, OwnOK
<1>9. PackageOK(th)'
  <2>1. CASE next
    <3>1. \A k \in 1..t[th].package : PackageDone(th, k)
      BY <1>1, <2>1, LastPackage
    <3>2. \A k \in 1..t[th].package : PackageDone(th, k)'
      BY <1>3, <1>4, <2>1, <3>1 DEF PackageDone, Op
    <3>3. t'[th].package - 1 = t[th].package /\ t'[th].pc \in Busy
      BY <1>2, <1>3, <2>1 DEF Busy
    <3> QED
      BY <3>2, <3>3 DEF PackageOK
  <2>2. CASE ~next
    BY <1>3, <2>2 DEF PackageOK, Busy
  <2> QED
    BY <2>1, <2>2
<1>10. WellFormed(prog, Pipe', asked', closed, accepted)
  BY <1>4 DEF AnswerInv
<1> HIDE DEF r
<1> QED
  BY <1>1, <1>4, <1>6, <1>7, <1>8, <1>9, <1>10, OneMoves

\* The command goes to the lidar; no answer to it is on its way.
LEMMA SendsAnswer ==
  ASSUME LinkInv, LinkInv', AnswerInv, prog' = prog, NEW th \in DOMAIN t, t[th].pc = "send",
         asked' = IF closed THEN asked ELSE Append(asked, [cmd |-> Op(th).cmd, req |-> Request(th)]),
         t' = [t EXCEPT ![th].pc = "head", ![th].left = HeaderSize, ![th].head = <<>>],
         UNCHANGED <<givenUp, wire, stream, closed, accepted>>
  PROVE  AnswerInv'
<1> DEFINE command == [cmd |-> Op(th).cmd, req |-> Request(th)]
           r == [t[th] EXCEPT !.pc = "head", !.left = HeaderSize, !.head = <<>>]
<1>1. /\ t[th] \in ThreadStates /\ t[th].op \in Nat /\ t[th].package \in Nat /\ th \in Threads
      /\ t \in [DOMAIN prog -> ThreadStates] /\ Request(th) \in Requests
  BY OwnRequest, KnownProgram DEF ThreadStates, LinkInv, ThreadTypes, IsProgram
<1>2. t[th].op \in 1..Len(prog[th])
  BY DEF LinkInv, Busy
<1>3. t' = [t EXCEPT ![th] = r]
  OBVIOUS
<1>4. /\ t'[th].pc = "head" /\ t'[th].op = t[th].op /\ t'[th].package = t[th].package
      /\ DOMAIN t' = DOMAIN t
  BY <1>1 DEF ThreadStates
<1>5. Pipe' = Pipe
  BY DEF Pipe
<1>6. command \in Commands /\ command.cmd = CmdOf(prog, command.req) /\ command.req = Request(th)
  <2>1. Op(th).cmd \in STRING
    BY <1>2, BusyOperation DEF Operations
  <2> QED
    BY <1>1, <2>1 DEF Commands, CmdOf, Request, Op
<1> HIDE DEF command, r
<1>7. ~IsOut(Request(th), Pipe, asked)
  <2> SUFFICES ASSUME IsOut(Request(th), Pipe, asked) PROVE FALSE
    OBVIOUS
  <2>1. OutOK(Request(th))
    BY <1>1 DEF AnswerInv
  <2>2. t[th].op < t[th].op \/ t[th].package < t[th].package
    BY <2>1 DEF OutOK, Request
  <2> QED
    BY <1>1, <2>2
<1>8. /\ WellFormed(prog, Pipe', asked', closed, accepted)
      /\ \A q : IsOut(q, Pipe', asked') => IsOut(q, Pipe, asked) \/ q = Request(th)
  <2>1. WellFormed(prog, Pipe, asked, closed, accepted) /\ asked \in Seq(Commands)
    BY DEF AnswerInv, LinkInv, PipeTypes
  <2>2. CASE closed
    BY <1>5, <2>1, <2>2
  <2>3. CASE ~closed
    <3>1. asked' = Append(asked, command)
      BY <2>3 DEF command
    <3>2. /\ WellFormed(prog, Pipe, Append(asked, command), closed, accepted)
          /\ \A q : IsOut(q, Pipe, Append(asked, command)) => IsOut(q, Pipe, asked) \/ q = command.req
      BY <1>6, <1>7, <2>1, WellSend
    <3> QED
      BY <1>5, <1>6, <3>1, <3>2
  <2> QED
    BY <2>2, <2>3
<1>9. ASSUME NEW q \in Requests, IsOut(q, Pipe', asked'), q[1] = th PROVE OutOK(q)'
  <2>1. CASE q = Request(th)
    <3>1. Request(th)' = Request(th) /\ q[2] = t[th].op
      BY <1>4, <2>1 DEF Request
    <3> QED
      BY <1>2, <1>4, <1>9, <2>1, <3>1 DEF OutOK
  <2>2. CASE q # Request(th)
    <3>1. OutOK(q)
      BY <1>8, <1>9, <2>2 DEF AnswerInv
    <3> QED
      BY <1>4, <1>9, <2>2, <3>1 DEF OutOK
  <2> QED
    BY <2>1, <2>2
<1>10. ASSUME NEW g \in givenUp', g[1] = th PROVE GivenOK(g)'
  <2>1. GivenOK(g)
    BY DEF AnswerInv
  <2>2. g[2] < t[th].op
    BY <1>10, <2>1 DEF GivenOK
  <2> QED
    BY <1>4, <1>10, <2>1, <2>2 DEF GivenOK
<1>11. BodyOK(th)' /\ OwnOK(th)'
  BY <1>4 DEF BodyOK, OwnOK
<1>12. PackageOK(th)'
  <2>1. PackageOK(th)
    BY DEF AnswerInv
  <2> QED
    BY <1>4, <2>1 DEF PackageOK, PackageDone, Op, Busy
<1>13. \A q \in Requests : IsOut(q, Pipe', asked') /\ q[1] # th => IsOut(q, Pipe, asked)
  BY <1>8 DEF Request
<1>14. t[th].pc \in Holding
  BY DEF Holding
<1> QED
  BY <1>3, <1>8, <1>9, <1>10, <1>11, <1>12, <1>13, <1>14, OneMoves

\* More of the header is looked for.
LEMMA LooksOn ==
  ASSUME LinkInv, LinkInv', AnswerInv, prog' = prog, NEW th \in DOMAIN t, t[th].pc = "head",
         NEW head, NEW left, t' = [t EXCEPT ![th].head = head, ![th].left = left],
         NEW n, Shorter(Pipe', Pipe, n), UNCHANGED <<asked, closed, accepted, givenUp>>
  PROVE  AnswerInv'
<1> DEFINE r == [t[th] EXCEPT !.head = head, !.left = left]
<1>1. /\ t[th] \in ThreadStates /\ t \in [DOMAIN prog -> ThreadStates]
      /\ Pipe \in Seq(Tokens) /\ Pipe' \in Seq(Tokens)
  BY OwnRequest, ConcatProperties DEF LinkInv, ThreadTypes, PipeTypes, Pipe
<1>2. t' = [t EXCEPT ![th] = r]
  OBVIOUS
<1>3. /\ t'[th].pc = "head" /\ t'[th].op = t[th].op /\ t'[th].package = t[th].package
      /\ DOMAIN t' = DOMAIN t
  BY <1>1 DEF ThreadStates
<1> HIDE DEF r
<1>4. /\ WellFormed(prog, Pipe', asked', closed, accepted)
      /\ \A q : IsOut(q, Pipe', asked') => IsOut(q, Pipe, asked)
  <2>1. WellFormed(prog, Pipe, asked, closed, accepted)
    BY DEF AnswerInv
  <2> QED
    BY <1>1, <2>1, WellDrop
<1>5. ASSUME NEW q \in Requests, IsOut(q, Pipe', asked'), q[1] = th PROVE OutOK(q)'
  <2>1. OutOK(q)
    BY <1>4, <1>5 DEF AnswerInv
  <2>2. Request(th)' = Request(th)
    BY <1>3 DEF Request
  <2> QED
    BY <1>3, <1>5, <2>1, <2>2 DEF OutOK
<1>6. ASSUME NEW g \in givenUp', g[1] = th PROVE GivenOK(g)'
  <2>1. GivenOK(g)
    BY DEF AnswerInv
  <2> QED
    BY <1>3, <1>6, <2>1 DEF GivenOK
<1>7. BodyOK(th)' /\ OwnOK(th)'
  BY <1>3 DEF BodyOK, OwnOK
<1>8. PackageOK(th)'
  <2>1. PackageOK(th)
    BY DEF AnswerInv
  <2> QED
    BY <1>3, <2>1 DEF PackageOK, PackageDone, Op, Busy
<1>9. t[th].pc \in Holding
  BY DEF Holding
<1>10. \A q \in Requests : IsOut(q, Pipe', asked') /\ q[1] # th => IsOut(q, Pipe, asked)
  BY <1>4
<1> QED
  BY <1>2, <1>4, <1>5, <1>6, <1>7, <1>8, <1>9, <1>10, OneMoves

\* A header or a body ends a query with success, or a header leads on to its body.
LEMMA TakesAnswer ==
  ASSUME LinkInv, LinkInv', AnswerInv, prog' = prog, NEW th \in DOMAIN t, t[th].pc \in {"head", "body"},
         NEW r, t' = [t EXCEPT ![th] = r], r.op = t[th].op, r.package = t[th].package,
         r.pc = "body" \/ (r.pc = "returned" /\ r.ok),
         NEW n, Shorter(Pipe', Pipe, n), UNCHANGED <<asked, closed, accepted, givenUp>>,
         TakenOK(th)', BodyOK(th)', OwnOK(th)',
         r.from = Request(th) => ~IsOut(Request(th), Pipe', asked)
  PROVE  AnswerInv'
<1>1. /\ t[th] \in ThreadStates /\ t \in [DOMAIN prog -> ThreadStates]
      /\ Pipe \in Seq(Tokens) /\ Pipe' \in Seq(Tokens) /\ Request(th) \in Requests
  BY OwnRequest, ConcatProperties DEF LinkInv, ThreadTypes, PipeTypes, Pipe
<1>2. /\ t'[th] = r /\ DOMAIN t' = DOMAIN t /\ Request(th)' = Request(th) /\ Op(th)' = Op(th)
  BY <1>1 DEF Request, Op
<1>3. /\ WellFormed(prog, Pipe', asked', closed, accepted)
      /\ \A q : IsOut(q, Pipe', asked') => IsOut(q, Pipe, asked)
  <2>1. WellFormed(prog, Pipe, asked, closed, accepted)
    BY DEF AnswerInv
  <2> QED
    BY <1>1, <2>1, WellDrop
<1>4. ASSUME NEW q \in Requests, IsOut(q, Pipe', asked'), q[1] = th PROVE OutOK(q)'
  <2>1. OutOK(q)
    BY <1>3, <1>4 DEF AnswerInv
  <2>2. Excuse(prog, givenUp, CmdOf(prog, q))
    <3>1. CASE q = Request(th)
      <4>1. r.from # Request(th)
        BY <1>4, <3>1
      <4>2. Excuse(prog, givenUp, Op(th).cmd)
        BY <1>2, <4>1 DEF TakenOK
      <4>3. Op(th).cmd = CmdOf(prog, q)
        BY <3>1 DEF Op, CmdOf, Request
      <4> QED
        BY <4>2, <4>3
    <3>2. CASE q # Request(th)
      BY <1>4, <2>1, <3>2 DEF OutOK
    <3> QED
      BY <3>1, <3>2
  <2> QED
    BY <1>2, <1>4, <2>1, <2>2 DEF OutOK
<1>5. ASSUME NEW g \in givenUp', g[1] = th PROVE GivenOK(g)'
  <2>1. GivenOK(g)
    BY DEF AnswerInv
  <2> QED
    BY <1>2, <1>5, <2>1 DEF GivenOK
<1>6. PackageOK(th)'
  <2>1. PackageOK(th)
    BY DEF AnswerInv
  <2> QED
    BY <1>2, <2>1 DEF PackageOK, PackageDone, Busy
<1>7. t[th].pc \in Holding
  BY DEF Holding
<1>8. \A q \in Requests : IsOut(q, Pipe', asked') /\ q[1] # th => IsOut(q, Pipe, asked)
  BY <1>3
<1> QED
  BY <1>3, <1>4, <1>5, <1>6, <1>7, <1>8, OneMoves

\* Whether an answer has a body is said alike by all operations with the command.
LEMMA DataIsOwn ==
  ASSUME LinkInv, NEW th \in DOMAIN t, t[th].op \in 1..Len(prog[th])
  PROVE  DataOf(prog, Op(th).cmd) <=> Op(th).data
<1>1. /\ th \in DOMAIN prog /\ t[th].op \in DOMAIN prog[th]
      /\ Op(th) = prog[th][t[th].op]
  BY BusyOperation DEF Op
<1>2. \A x, y \in DOMAIN prog : \A i \in DOMAIN prog[x] : \A j \in DOMAIN prog[y] :
        prog[x][i].cmd = prog[y][j].cmd => prog[x][i].data = prog[y][j].data
  BY KnownProgram DEF LinkInv, IsProgram
<1>3. ASSUME Op(th).data PROVE DataOf(prog, Op(th).cmd)
  BY <1>1, <1>3 DEF DataOf
<1>4. ASSUME DataOf(prog, Op(th).cmd) PROVE Op(th).data
  <2>1. PICK x \in DOMAIN prog : \E i \in DOMAIN prog[x] :
               prog[x][i].cmd = Op(th).cmd /\ prog[x][i].data
    BY <1>4 DEF DataOf
  <2>2. PICK i \in DOMAIN prog[x] : prog[x][i].cmd = Op(th).cmd /\ prog[x][i].data
    BY <2>1
  <2>3. prog[x][i].data = prog[th][t[th].op].data
    <3>1. \A j \in DOMAIN prog[th] : prog[x][i].cmd = prog[th][j].cmd => prog[x][i].data = prog[th][j].data
      BY <1>1, <1>2
    <3>2. prog[x][i].cmd = prog[th][t[th].op].cmd
      BY <1>1, <2>2
    <3> QED
      BY <1>1, <3>1, <3>2
  <2> QED
    BY <1>1, <2>2, <2>3
<1> QED
  BY <1>3, <1>4

LEMMA Unmoved == ASSUME NEW p \in Seq(Tokens) PROVE Shorter(p, p, 0)
<1>1. Len(p) \in Nat /\ 0 \in 0..Len(p) /\ Len(p) = Len(p) - 0 /\ \A i \in 1..Len(p) : i + 0 = i
  OBVIOUS
<1> QED
  BY <1>1 DEF Shorter

LEMMA FirstOfPipe ==
  ASSUME LinkInv
  PROVE  /\ Pipe \in Seq(Tokens) /\ Len(Pipe) \in Nat /\ Len(stream) <= Len(Pipe)
         /\ \A i \in 1..Len(stream) : Pipe[i] = stream[i]
<1>1. /\ stream \in Seq(Tokens) /\ wire \in Seq(Tokens) /\ Len(stream) \in Nat /\ Len(wire) \in Nat
  BY DEF LinkInv, PipeTypes
<1>2. /\ Pipe \in Seq(Tokens) /\ Len(Pipe) = Len(stream) + Len(wire)
      /\ \A i \in 1..Len(stream) + Len(wire) :
           Pipe[i] = IF i <= Len(stream) THEN stream[i] ELSE wire[i - Len(stream)]
  BY <1>1, ConcatProperties DEF Pipe
<1> QED
  BY <1>1, <1>2

\* The header that a query accepts is an answer to its command.
LEMMA HeaderTaken ==
  ASSUME LinkInv, AnswerInv, NEW th \in DOMAIN t, t[th].pc = "head",
         NEW n \in 1..Len(stream), Fits(stream[n], Op(th).cmd)
  PROVE  LET h == stream[n] IN
         /\ IsHeader(Pipe, n) /\ h = Pipe[n] /\ h \in Fields
         /\ h.req \in accepted /\ CmdOf(prog, h.req) = Op(th).cmd
         /\ h.req = Request(th) \/ Excuse(prog, givenUp, Op(th).cmd)
         /\ h.data <=> Op(th).data
         /\ h.data => IF n = Len(Pipe) THEN closed ELSE Pipe[n + 1] = BodyOf(h.req)
<1> DEFINE h == stream[n]
<1>1. h = Pipe[n] /\ n \in 1..Len(Pipe) /\ h \in Tokens
  <2>1. Len(stream) \in Nat /\ stream \in Seq(Tokens)
    BY DEF LinkInv, PipeTypes
  <2> QED
    BY <2>1, FirstOfPipe, ElementOfSeq
<1>2. h.t = "fields" /\ h.ok /\ h.cmd = Op(th).cmd
  BY DEF Fits
<1> HIDE DEF h
<1>3. IsHeader(Pipe, n) /\ h \in Fields
  BY <1>1, <1>2 DEF IsHeader, Tokens, Identifiers, Fields, Bodies
<1>4. HeaderFits(prog, Pipe, closed, accepted, n)
  BY <1>1, <1>3 DEF AnswerInv, WellFormed
<1>5. h.req \in accepted /\ CmdOf(prog, h.req) = Op(th).cmd
  BY <1>1, <1>2, <1>4 DEF HeaderFits
<1>6. h.data <=> Op(th).data
  <2>1. t[th].op \in 1..Len(prog[th])
    BY DEF LinkInv, Busy
  <2>2. h.data <=> DataOf(prog, h.cmd)
    BY <1>1, <1>2, <1>4 DEF HeaderFits
  <2> QED
    BY <1>2, <2>1, <2>2, DataIsOwn
<1>7. h.req = Request(th) \/ Excuse(prog, givenUp, Op(th).cmd)
  <2>1. IsOut(h.req, Pipe, asked) /\ h.req \in Requests
    BY <1>1, <1>3 DEF IsOut, Fields
  <2>2. OutOK(h.req)
    BY <2>1 DEF AnswerInv
  <2>3. CASE Excuse(prog, givenUp, CmdOf(prog, h.req))
    BY <1>5, <2>3
  <2>4. CASE h.req = Request(h.req[1]) /\ t[h.req[1]].pc \in {"head", "body"}
    <3>1. h.req[1] \in DOMAIN t /\ h.req[1] = mutex /\ th = mutex
      BY <2>2, <2>4 DEF OutOK, LinkInv, Holding
    <3> QED
      BY <2>4, <3>1
  <2> QED
    BY <2>2, <2>3, <2>4 DEF OutOK
<1>8. h.data => IF n = Len(Pipe) THEN closed ELSE Pipe[n + 1] = BodyOf(h.req)
  BY <1>1, <1>4 DEF HeaderFits
<1> QED
  BY <1>1, <1>3, <1>5, <1>6, <1>7, <1>8 DEF h

LEMMA QueryAnswer ==
  ASSUME LinkInv, LinkInv', AnswerInv, prog' = prog, NEW th \in DOMAIN t,
         \/ Opens(th) \/ Locks(th) \/ Flushes(th) \/ Restores(th) \/ Sends(th)
         \/ ReceivesHead(th) \/ ReceivesBody(th) \/ TimesOut(th)
  PROVE  AnswerInv'
<1>1. /\ t[th] \in ThreadStates /\ t \in [DOMAIN prog -> ThreadStates]
      /\ Request(th) \in Requests
  BY OwnRequest DEF LinkInv, ThreadTypes
<1>2. Pipe \in Seq(Tokens) /\ Shorter(Pipe, Pipe, 0)
  BY FirstOfPipe, Unmoved
<1> USE DEF ThreadStates
\* A step that leaves the pipe and takes nothing.
<1>3. ASSUME NEW r, t' = [t EXCEPT ![th] = r], r.op = t[th].op, r.package = t[th].package,
             r.pc \in Busy \ {"head", "body", "returned"},
             t[th].pc \in Busy \ {"head", "body", "returned"},
             UNCHANGED <<lidarVars, givenUp>>
      PROVE  AnswerInv'
  <2>1. Pipe' = Pipe /\ accepted' = accepted /\ closed' = closed /\ asked' = asked /\ givenUp' = givenUp
    BY <1>3 DEF lidarVars, Pipe
  <2>2. Shorter(Pipe', Pipe, 0)
    BY <1>2, <2>1
  <2> QED
    BY <1>3, <2>1, <2>2, TakesNothing
\* A query fails, whatever it has taken from the stream.
<1>4. ASSUME NEW r, t' = [t EXCEPT ![th] = r], r.op = t[th].op, r.package = t[th].package,
             r.pc = "returned", ~r.ok, t[th].pc \in Busy \ {"returned"},
             givenUp' = givenUp \cup {Request(th)},
             UNCHANGED <<asked, closed, accepted>>,
             NEW n, Shorter(Pipe', Pipe, n), Pipe' = Pipe \/ t[th].pc \in Holding
      PROVE  AnswerInv'
  BY <1>4, TakesNothing
<1>5. ASSUME Returns(th, FALSE, NoRequest, NoRequest), t[th].pc \in Holding,
             UNCHANGED <<asked, closed, accepted>>, NEW n, Shorter(Pipe', Pipe, n)
      PROVE  AnswerInv'
  <2> DEFINE r == [t[th] EXCEPT !.pc = "returned", !.ok = FALSE, !.from = NoRequest, !.body = NoRequest]
  <2>1. t' = [t EXCEPT ![th] = r] /\ givenUp' = givenUp \cup {Request(th)}
    BY <1>5 DEF Returns
  <2>2. r.op = t[th].op /\ r.package = t[th].package /\ r.pc = "returned" /\ ~r.ok
    BY <1>1
  <2>3. t[th].pc \in Busy \ {"returned"}
    BY <1>5 DEF Holding, Busy
  <2> HIDE DEF r
  <2> QED
    BY <1>4, <1>5, <2>1, <2>2, <2>3
<1>6. CASE Opens(th)
  <2>1. UNCHANGED lidarVars /\ t[th].pc = "open"
    BY <1>6 DEF Opens
  <2>2. CASE connected
    <3> DEFINE r == [t[th] EXCEPT !.pc = "lock"]
    <3>1. t' = [t EXCEPT ![th] = r] /\ givenUp' = givenUp
      BY <1>6, <2>2 DEF Opens, Goes
    <3>2. r.op = t[th].op /\ r.package = t[th].package /\ r.pc = "lock"
      BY <1>1
    <3> HIDE DEF r
    <3> QED
      BY <1>3, <2>1, <3>1, <3>2 DEF Busy
  <2>3. CASE ~connected
    <3> DEFINE r == [t[th] EXCEPT !.pc = "returned", !.ok = FALSE]
    <3>1. t' = [t EXCEPT ![th] = r] /\ givenUp' = givenUp \cup {Request(th)}
      BY <1>6, <2>3 DEF Opens
    <3>2. r.op = t[th].op /\ r.package = t[th].package /\ r.pc = "returned" /\ ~r.ok
      BY <1>1
    <3>3. Pipe' = Pipe /\ UNCHANGED <<asked, closed, accepted>>
      BY <2>1 DEF lidarVars, Pipe
    <3>4. Shorter(Pipe', Pipe, 0)
      BY <1>2, <3>3
    <3> HIDE DEF r
    <3> QED
      BY <1>4, <2>1, <3>1, <3>2, <3>3, <3>4 DEF Busy
  <2> QED
    BY <2>2, <2>3
<1>7. CASE Locks(th)
  <2> DEFINE r == [t[th] EXCEPT !.pc = "flush"]
  <2>1. t' = [t EXCEPT ![th] = r] /\ UNCHANGED <<lidarVars, givenUp>> /\ t[th].pc = "lock"
    BY <1>7 DEF Locks, Goes
  <2>2. r.op = t[th].op /\ r.package = t[th].package /\ r.pc = "flush"
    BY <1>1
  <2> HIDE DEF r
  <2> QED
    BY <1>3, <2>1, <2>2 DEF Busy
<1>8. CASE Flushes(th)
  <2>1. t[th].pc = "flush" /\ UNCHANGED <<asked, wire, closed, accepted, history>>
    BY <1>8 DEF Flushes
  <2>2. CASE stream # <<>>
    <3>1. stream' = <<>> /\ t' = [t EXCEPT ![th] = t[th]]
      BY <1>1, <1>8, <2>2 DEF Flushes
    <3>2. stream \in Seq(Tokens) /\ wire \in Seq(Tokens) /\ <<>> \in Seq(Tokens) /\ Len(stream) \in Nat
      BY DEF LinkInv, PipeTypes
    <3>3. Shorter(<<>>, stream, Len(stream))
      BY <3>2 DEF Shorter
    <3>4. Shorter(Pipe', Pipe, Len(stream))
      BY <2>1, <3>1, <3>2, <3>3, DropPipe DEF Pipe
    <3>5. t[th].pc \in Holding /\ givenUp' = givenUp
      BY <2>1 DEF Holding, history
    <3> QED
      BY <2>1, <3>1, <3>4, <3>5, TakesNothing DEF Busy
  <2>3. CASE stream = <<>>
    <3> DEFINE r == [t[th] EXCEPT !.pc = "restore", !.saved = lastTimeout]
    <3>1. t' = [t EXCEPT ![th] = r] /\ UNCHANGED <<lidarVars, givenUp>>
      BY <1>8, <2>1, <2>3 DEF Flushes, history, lidarVars
    <3>2. r.op = t[th].op /\ r.package = t[th].package /\ r.pc = "restore"
      BY <1>1
    <3> HIDE DEF r
    <3> QED
      BY <1>3, <2>1, <3>1, <3>2 DEF Busy
  <2> QED
    BY <2>2, <2>3
<1>9. CASE Restores(th)
  <2> DEFINE r == [t[th] EXCEPT !.pc = "send"]
  <2>1. t' = [t EXCEPT ![th] = r] /\ UNCHANGED <<lidarVars, givenUp>> /\ t[th].pc = "restore"
    BY <1>9 DEF Restores, Goes, history
  <2>2. r.op = t[th].op /\ r.package = t[th].package /\ r.pc = "send"
    BY <1>1
  <2> HIDE DEF r
  <2> QED
    BY <1>3, <2>1, <2>2 DEF Busy
<1>10. CASE Sends(th)
  <2>1. t[th].pc = "send" /\ t[th].pc \in Holding /\ UNCHANGED <<wire, stream, closed, accepted>>
    BY <1>10 DEF Sends, Holding
  <2>2. CASE /\ asked' = IF closed THEN asked ELSE Append(asked, [cmd |-> Op(th).cmd, req |-> Request(th)])
             /\ t' = [t EXCEPT ![th].pc = "head", ![th].left = HeaderSize, ![th].head = <<>>]
             /\ UNCHANGED <<mutex, givenUp>>
    BY <2>1, <2>2, SendsAnswer
  <2>3. CASE Returns(th, FALSE, NoRequest, NoRequest) /\ UNCHANGED asked
    <3>1. Shorter(Pipe', Pipe, 0)
      BY <1>2, <2>1 DEF Pipe
    <3> QED
      BY <1>5, <2>1, <2>3, <3>1
  <2> QED
    BY <1>10, <2>2, <2>3 DEF Sends
<1>11. CASE ReceivesHead(th)
  <2> DEFINE n == PieceSize(stream, t[th].left)
             head == WithPiece(stream, t[th].left, t[th].head)
             h == head[HeaderSize]
  <2>1. t[th].pc = "head" /\ t[th].pc \in Holding /\ UNCHANGED <<asked, wire, closed, accepted>>
    BY <1>11 DEF ReceivesHead, Holding
  <2>2. /\ stream \in Seq(Tokens) /\ wire \in Seq(Tokens) /\ stream # <<>> /\ Len(stream) \in Nat
        /\ t[th].left \in Nat /\ t[th].left >= 1
        /\ t[th].head \in Seq(Tokens) /\ t[th].left + Len(t[th].head) = HeaderSize
    <3>1. stream \in Seq(Tokens) /\ wire \in Seq(Tokens)
      BY DEF LinkInv, PipeTypes
    <3>2. t[th].left >= 1 /\ t[th].left + Len(t[th].head) = HeaderSize
      BY <2>1 DEF LinkInv
    <3>3. t[th].left \in Nat /\ t[th].head \in Seq(Tokens)
      BY <1>1
    <3>4. stream # <<>>
      BY <1>11 DEF ReceivesHead
    <3>5. Len(stream) \in Nat
      BY <3>1
    <3> QED
      BY <3>1, <3>2, <3>3, <3>4, <3>5
  <2>3. /\ n \in 1..Len(stream) /\ head \in Seq(Tokens) /\ Len(head) <= HeaderSize
        /\ Len(head) = HeaderSize => h = stream[n]
    BY <2>2, HeaderGrows
  <2>4. /\ stream' = SubSeq(stream, n + 1, Len(stream))
        /\ IF Len(head) < HeaderSize
           THEN /\ t' = [t EXCEPT ![th].head = head, ![th].left = HeaderSize - Len(head)]
                /\ UNCHANGED <<mutex, givenUp>>
           ELSE IF ~Fits(h, Op(th).cmd) THEN Returns(th, FALSE, NoRequest, NoRequest)
           ELSE IF ~h.data THEN Returns(th, TRUE, h.req, NoRequest)
           ELSE /\ t' = [t EXCEPT ![th].pc = "body", ![th].from = h.req]
                /\ UNCHANGED <<mutex, givenUp>>
    BY <1>11 DEF ReceivesHead, PieceSize, WithPiece, Begin, Piece
  <2> HIDE DEF n, head
  <2>5. Shorter(stream', stream, n)
    BY <2>2, <2>3, <2>4, Rest, SMTT(30) DEF Shorter
  <2>6. stream' \in Seq(Tokens)
    BY DEF LinkInv, PipeTypes
  <2>7. Shorter(Pipe', Pipe, n) /\ n \in Nat /\ n >= 1
    <3>1. Shorter(stream' \o wire, stream \o wire, n)
      BY <2>2, <2>5, <2>6, DropPipe
    <3> QED
      BY <2>1, <2>3, <3>1 DEF Pipe
  <2>8. CASE Len(head) < HeaderSize
    <3>1. t' = [t EXCEPT ![th].head = head, ![th].left = HeaderSize - Len(head)] /\ givenUp' = givenUp
      BY <2>4, <2>8
    <3> QED
      BY <2>1, <2>7, <3>1, LooksOn
  <2>9. CASE ~(Len(head) < HeaderSize)
    <3>1. h = stream[n]
      <4>1. Len(head) \in Nat /\ Len(head) <= HeaderSize /\ HeaderSize \in Nat
        BY <2>3 DEF HeaderSize
      <4> QED
        BY <2>3, <2>9, <4>1
    <3>2. CASE ~Fits(h, Op(th).cmd)
      <4>1. Returns(th, FALSE, NoRequest, NoRequest)
        BY <2>4, <2>9, <3>2
      <4> QED
        BY <1>5, <2>1, <2>7, <4>1
    <3>3. CASE Fits(h, Op(th).cmd)
      <4> HIDE DEF h
      <4>1. /\ IsHeader(Pipe, n) /\ h = Pipe[n] /\ h \in Fields
            /\ h.req \in accepted /\ CmdOf(prog, h.req) = Op(th).cmd
            /\ h.req = Request(th) \/ Excuse(prog, givenUp, Op(th).cmd)
            /\ h.data <=> Op(th).data
            /\ h.data => IF n = Len(Pipe) THEN closed ELSE Pipe[n + 1] = BodyOf(h.req)
        BY <2>1, <2>3, <3>1, <3>3, HeaderTaken
      <4>2. ~IsOut(h.req, Pipe', asked)
        <5>1. WellFormed(prog, Pipe, asked, closed, accepted) /\ Pipe' \in Seq(Tokens)
          BY FirstOfPipe, <2>2, <2>6, <2>1, ConcatProperties DEF AnswerInv, Pipe
        <5> QED
          BY <1>2, <2>7, <4>1, <5>1, WellDrop
      <4>3. h.req \in Requests /\ h.req # NoRequest
        BY <4>1 DEF Fields, Requests, Threads, NoRequest, None
      <4>4. CASE ~h.data
        <5> DEFINE r == [t[th] EXCEPT !.pc = "returned", !.ok = TRUE, !.from = h.req, !.body = NoRequest]
        <5>1. Returns(th, TRUE, h.req, NoRequest)
          BY <2>4, <2>9, <3>3, <4>4 DEF h
        <5>2. t' = [t EXCEPT ![th] = r] /\ givenUp' = givenUp
          BY <5>1 DEF Returns
        <5>3. /\ r.op = t[th].op /\ r.package = t[th].package /\ r.pc = "returned" /\ r.ok = TRUE
              /\ r.from = h.req /\ r.body = NoRequest
          BY <1>1
        <5> HIDE DEF r
        <5>4. t'[th] = r /\ Op(th)' = Op(th) /\ Request(th)' = Request(th)
          BY <1>1, <5>2, <5>3 DEF Op, Request
        <5>5. TakenOK(th)'
          BY <2>1, <4>1, <5>2, <5>3, <5>4 DEF TakenOK
        <5>6. BodyOK(th)' /\ OwnOK(th)'
          BY <4>1, <4>3, <4>4, <5>3, <5>4, <5>5 DEF BodyOK, OwnOK
        <5> QED
          BY <2>1, <2>7, <4>2, <5>2, <5>3, <5>5, <5>6, TakesAnswer
      <4>5. CASE h.data
        <5> DEFINE r == [t[th] EXCEPT !.pc = "body", !.from = h.req]
        <5>1. t' = [t EXCEPT ![th] = r] /\ givenUp' = givenUp
          BY <2>4, <2>9, <3>3, <4>5 DEF h
        <5>2. r.op = t[th].op /\ r.package = t[th].package /\ r.pc = "body" /\ r.from = h.req
          BY <1>1
        <5> HIDE DEF r
        <5>3. t'[th] = r /\ Op(th)' = Op(th) /\ Request(th)' = Request(th)
          BY <1>1, <5>1, <5>2 DEF Op, Request
        <5>4. TakenOK(th)'
          BY <2>1, <4>1, <5>1, <5>2, <5>3 DEF TakenOK
        <5>5. IF Len(Pipe') = 0 THEN closed ELSE Pipe'[1] = BodyOf(h.req)
          <6>1. Len(Pipe') = Len(Pipe) - n /\ Len(Pipe) \in Nat /\ n \in 0..Len(Pipe)
            BY <1>2, <2>7 DEF Shorter
          <6>2. CASE n = Len(Pipe)
            BY <4>1, <4>5, <6>1, <6>2
          <6>3. CASE n # Len(Pipe)
            <7>1. 1 \in 1..Len(Pipe') /\ Len(Pipe') # 0 /\ 1 + n = n + 1
              BY <2>7, <6>1, <6>3
            <7>2. Pipe'[1] = Pipe[1 + n]
              BY <2>7, <7>1 DEF Shorter
            <7> QED
              BY <4>1, <4>5, <6>3, <7>1, <7>2
          <6> QED
            BY <6>2, <6>3
        <5>6. BodyOK(th)' /\ OwnOK(th)'
          BY <2>1, <4>1, <4>2, <4>5, <5>2, <5>3, <5>4, <5>5 DEF BodyOK, OwnOK
        <5> QED
          BY <2>1, <2>7, <4>2, <5>1, <5>2, <5>4, <5>6, TakesAnswer
      <4> QED
        BY <4>4, <4>5
    <3> QED
      BY <3>2, <3>3
  <2> QED
    BY <2>8, <2>9
<1>12. CASE ReceivesBody(th)
  <2> DEFINE from == t[th].from
             b == Head(stream)
             r == [t[th] EXCEPT !.pc = "returned", !.ok = TRUE, !.from = from, !.body = b.req]
  <2>1. /\ t[th].pc = "body" /\ stream # <<>> /\ stream' = Tail(stream)
        /\ Returns(th, TRUE, from, b.req) /\ UNCHANGED <<asked, wire, closed, accepted>>
    BY <1>12 DEF ReceivesBody
  <2>2. /\ stream \in Seq(Tokens) /\ wire \in Seq(Tokens) /\ stream' \in Seq(Tokens)
        /\ Len(stream) \in Nat /\ Len(stream) # 0
    BY <2>1 DEF LinkInv, PipeTypes
  <2>3. /\ Len(stream') = Len(stream) - 1 /\ b = stream[1]
        /\ \A i \in 1..Len(stream') : stream'[i] = stream[i + 1]
    BY <2>1, <2>2, HeadTailProperties
  <2>4. Shorter(stream', stream, 1)
    BY <2>2, <2>3 DEF Shorter
  <2>5. Shorter(Pipe', Pipe, 1)
    <3>1. Shorter(stream' \o wire, stream \o wire, 1)
      BY <2>2, <2>4, DropPipe
    <3> QED
      BY <2>1, <3>1 DEF Pipe
  <2>6. t' = [t EXCEPT ![th] = r] /\ givenUp' = givenUp
    BY <2>1 DEF Returns
  <2>7. BodyOK(th)
    BY DEF AnswerInv
  <2>8. /\ TakenOK(th) /\ Op(th).data
        /\ from = Request(th) => ~IsOut(Request(th), Pipe, asked)
        /\ IF Len(Pipe) = 0 THEN closed ELSE Pipe[1] = BodyOf(from)
    BY <2>1, <2>7 DEF BodyOK
  <2>9. b.req = from
    <3>1. Len(Pipe) # 0 /\ Pipe[1] = stream[1]
      BY <2>2, FirstOfPipe
    <3> QED
      BY <2>3, <2>8, <3>1 DEF BodyOf
  <2>10. /\ r.op = t[th].op /\ r.package = t[th].package /\ r.pc = "returned" /\ r.ok = TRUE
         /\ r.from = from /\ r.body = from
    BY <1>1, <2>9
  <2>11. from # NoRequest
    <3>1. from \in Requests
      BY <2>8 DEF TakenOK, LinkInv
    <3> QED
      BY <3>1 DEF Requests, Threads, NoRequest, None
  <2> HIDE DEF r, b
  <2>12. t'[th] = r /\ Op(th)' = Op(th) /\ Request(th)' = Request(th)
    BY <1>1, <2>6, <2>10 DEF Op, Request
  <2>13. TakenOK(th)'
    BY <2>1, <2>6, <2>8, <2>10, <2>12 DEF TakenOK
  <2>14. BodyOK(th)' /\ OwnOK(th)'
    BY <2>8, <2>10, <2>11, <2>12, <2>13 DEF BodyOK, OwnOK
  <2>15. from = Request(th) => ~IsOut(Request(th), Pipe', asked)
    <3>1. WellFormed(prog, Pipe, asked, closed, accepted) /\ Pipe' \in Seq(Tokens)
      BY <2>1, <2>2, ConcatProperties DEF AnswerInv, Pipe
    <3>2. \A q : IsOut(q, Pipe', asked) => IsOut(q, Pipe, asked)
      BY <1>2, <2>5, <3>1, WellDrop
    <3> QED
      BY <2>8, <3>2
  <2> QED
    BY <2>1, <2>5, <2>6, <2>10, <2>13, <2>14, <2>15, TakesAnswer
<1>13. CASE TimesOut(th)
  <2>1. t[th].pc \in Holding /\ UNCHANGED lidarVars /\ Returns(th, FALSE, NoRequest, NoRequest)
    BY <1>13 DEF TimesOut, Holding
  <2>2. Shorter(Pipe', Pipe, 0)
    BY <1>2, <2>1 DEF Pipe, lidarVars
  <2> QED
    BY <1>5, <2>1, <2>2 DEF lidarVars
<1> QED
  BY <1>6, <1>7, <1>8, <1>9, <1>10, <1>11, <1>12, <1>13

LEMMA AroundAnswer ==
  ASSUME LinkInv, LinkInv', AnswerInv, prog' = prog, NEW th \in DOMAIN t,
         Probes(th) \/ Waits(th) \/ Begins(th) \/ Ends(th) \/ Continues(th)
  PROVE  AnswerInv'
<1>1. t[th] \in ThreadStates /\ PackageOK(th)
  BY OwnRequest DEF AnswerInv
<1>2. Shorter(Pipe, Pipe, 0)
  BY FirstOfPipe, Unmoved
<1>3. ASSUME NEW pc \in {"wait", "ready", "open", "end"}, Goes(th, pc),
             t[th].pc \in {"probe", "wait", "ready"}, UNCHANGED <<lidarVars, givenUp>>
      PROVE  AnswerInv'
  <2> DEFINE r == [t[th] EXCEPT !.pc = pc]
  <2>1. t' = [t EXCEPT ![th] = r]
    BY <1>3 DEF Goes
  <2>2. r.op = t[th].op /\ r.package = t[th].package /\ r.pc = pc
    BY <1>1 DEF ThreadStates
  <2> HIDE DEF r
  <2>3. Pipe' = Pipe /\ accepted' = accepted /\ closed' = closed /\ asked' = asked /\ givenUp' = givenUp
    BY <1>3 DEF lidarVars, Pipe
  <2>4. Shorter(Pipe', Pipe, 0)
    BY <1>2, <2>3
  <2>5. t[th].package = 1 /\ t[th].pc \notin Busy
    BY <1>1, <1>3 DEF PackageOK, Busy
  <2> QED
    BY <1>3, <2>1, <2>2, <2>3, <2>4, <2>5, TakesNothing
<1>4. CASE Probes(th)
  BY <1>4, <1>3 DEF Probes, history
<1>5. CASE Waits(th)
  BY <1>5, <1>3 DEF Waits, history
<1>6. CASE Begins(th)
  BY <1>6, <1>3 DEF Begins, history
<1>7. CASE Ends(th)
  BY <1>7, <1>3 DEF Ends, history
<1>8. CASE Continues(th)
  BY <1>8, ContinuesAnswer
<1> QED
  BY <1>4, <1>5, <1>6, <1>7, <1>8

LEMMA InitAnswer == (Init \/ NoClient) /\ LinkInv => AnswerInv
<1> SUFFICES ASSUME Init \/ NoClient, LinkInv PROVE AnswerInv
  OBVIOUS
<1>1. asked = <<>> /\ wire = <<>> /\ stream = <<>> /\ givenUp = {}
  BY DEF Init, NoClient
<1>2. Pipe = <<>> /\ Len(<<>>) = 0 /\ 1..0 = {}
  BY <1>1 DEF Pipe
<1>3. WellFormed(prog, Pipe, asked, closed, accepted)
  BY <1>1, <1>2 DEF WellFormed
<1>4. \A r : ~IsOut(r, Pipe, asked)
  BY <1>1, <1>2 DEF IsOut
<1>5. ASSUME NEW th \in DOMAIN t PROVE t[th].pc \in {"probe", "wait"} /\ t[th].package = 1
  <2>1. CASE Init
    BY <2>1 DEF Init
  <2>2. CASE NoClient
    <3>1. DOMAIN t = {}
      BY <2>2 DEF NoClient
    <3> QED
      BY <3>1
  <2> QED
    BY <2>1, <2>2
<1>6. \A th \in DOMAIN t : BodyOK(th) /\ OwnOK(th) /\ PackageOK(th)
  BY <1>5 DEF BodyOK, OwnOK, PackageOK, Busy
<1> QED
  BY <1>1, <1>3, <1>4, <1>6 DEF AnswerInv

LEMMA AnswerStep == LinkInv /\ LinkInv' /\ AnswerInv /\ [Next]_vars => AnswerInv'
<1> SUFFICES ASSUME LinkInv, LinkInv', AnswerInv, [Next]_vars PROVE AnswerInv'
  OBVIOUS
<1>u. ASSUME UNCHANGED <<prog, t, lidarVars, givenUp>> PROVE AnswerInv'
  BY <1>u DEF AnswerInv, lidarVars, Pipe, OutOK, GivenOK, BodyOK, OwnOK, PackageOK, PackageDone, TakenOK,
              Op, Request
<1>1. CASE OpenerStep
  BY <1>1, <1>u DEF OpenerStep, history
<1>2. CASE Destroys
  BY <1>2, <1>u DEF Destroys, history
<1>3. CASE StopsInit
  BY <1>3, <1>u DEF StopsInit, history
<1>4. CASE LidarStep
  BY <1>4, LidarAnswer
<1>5. ASSUME NEW th \in DOMAIN t, ThreadStep(th) PROVE AnswerInv'
  BY <1>5, AroundAnswer, QueryAnswer DEF ThreadStep
<1>6. CASE UNCHANGED vars
  BY <1>6, <1>u DEF vars, history
<1> QED
  BY <1>1, <1>2, <1>3, <1>4, <1>5, <1>6 DEF Next

\* The invariants give the properties of the client on the network.
LEMMA NetworkProperties ==
  LinkInv /\ TimeoutInv /\ AnswerInv => TimeoutsRestored /\ AnswerIsOwn /\ UpgradeComplete
<1> SUFFICES ASSUME LinkInv, TimeoutInv, AnswerInv PROVE TimeoutsRestored /\ AnswerIsOwn /\ UpgradeComplete
  OBVIOUS
<1>1. TimeoutsRestored
  <2> SUFFICES ASSUME opener = "done", connected, initOpen, ~early, ~kept,
                      \A th \in DOMAIN t : t[th].pc \in {"probe", "wait", "ready", "end"}
               PROVE  sockTimeout = "configured" /\ lastTimeout = "configured"
    BY DEF TimeoutsRestored
  <2>1. \A th \in DOMAIN t : t[th].pc \notin Flushing /\ ~LongBusy(th)
    BY DEF Flushing, LongBusy, Busy
  <2> QED
    BY <2>1 DEF TimeoutInv
<1>2. AnswerIsOwn
  BY DEF AnswerInv, OwnOK, TakenOK, AnswerIsOwn, CmdOf, Excuse
<1>3. UpgradeComplete
  <2> SUFFICES ASSUME NEW th \in DOMAIN t, t[th].pc = "returned", t[th].ok,
                      t[th].package = Op(th).packages
               PROVE  \/ \A k \in 1..Op(th).packages : <<th, t[th].op, k>> \in accepted
                      \/ \E r \in givenUp : <<r[1], r[2]>> # <<th, t[th].op>>
                                            /\ prog[r[1]][r[2]].cmd = Op(th).cmd
    BY DEF UpgradeComplete
  <2>1. \A k \in 1..Op(th).packages : PackageDone(th, k)
    BY LastPackage
  <2> QED
    BY <2>1 DEF PackageDone, CmdOf
<1> QED
  BY <1>1, <1>2, <1>3
-----------------------------------------------------------------------------
(***************************************************************************)
(* The serial line                                                         *)
(***************************************************************************)
Kinds == {"correction", "sn", "version", "fault"}
Orders == [sub : Kinds \cup {"mode", "pbl", "large", "nothing"}, type : Nat]
            \cup [sub : {"package"}, type : Nat, last : Nat]
Codes == {"zero", "three", "other"}
Statuses == {"version", "none", "ready", "accepted", "refused"}
Acks == [kind : {"ota", "cmd"}, to : Orders, status : Statuses, code : Codes, long : BOOLEAN]
Steps == {"start", "mode", "query", "back", "pbl", "app", "large", "ready", "ota", "package", "end"}
Clients == [pc : Steps, ret : {"zero", "error", "in pbl"}, i : Nat, rest : BOOLEAN, taken : Orders,
            skipped : SUBSET Statuses, unaccepted : SUBSET Statuses,
            refusals : SUBSET Codes, failed : SUBSET Kinds]
NoJob == [kind |-> "none", list |-> <<>>]

SerialTypes ==
  /\ job \in Serial!Jobs \cup {NoJob}
  /\ c \in Clients
  /\ acks \in Seq(Acks) /\ air \in Seq(Acks) /\ orders \in Seq(Orders)
  /\ inPbl \in BOOLEAN

\* A request is on its way to the lidar, or its acknowledgement is on its way back or there.
Within(r, a, w, o) ==
  \/ \E i \in 1..Len(a) : a[i].to = r
  \/ \E i \in 1..Len(w) : w[i].to = r
  \/ \E i \in 1..Len(o) : o[i] = r
NoneWithin(S, a, w, o) == \A r \in S : ~Within(r, a, w, o)
OneWithin(S, a, w, o) ==
  /\ \A i, j \in 1..Len(a) : a[i].to \in S /\ a[j].to \in S => i = j
  /\ \A i, j \in 1..Len(w) : w[i].to \in S /\ w[j].to \in S => i = j
  /\ \A i, j \in 1..Len(o) : o[i] \in S /\ o[j] \in S => i = j
  /\ \A i \in 1..Len(a) : \A j \in 1..Len(w) : ~(a[i].to \in S /\ w[j].to \in S)
  /\ \A i \in 1..Len(a) : \A j \in 1..Len(o) : ~(a[i].to \in S /\ o[j] \in S)
  /\ \A i \in 1..Len(w) : \A j \in 1..Len(o) : ~(w[i].to \in S /\ o[j] \in S)

\* Queries that have not failed: no kind of theirs has.
Live(failed) == {r \in Orders : r.sub # "mode" /\ r.sub \notin failed}

\* Only the query that is under way is among these, and only once.
QueriesInv ==
  /\ job.list \in QueryLists /\ c.i \in 1..Len(job.list)
  /\ c.pc \in {"start", "mode", "query", "back", "end"}
  /\ \A k \in 1..Len(orders) : orders[k].sub \in Kinds \cup {"mode"}
  /\ OneWithin(Live(c.failed), acks, air, orders)
  /\ \A r \in Live(c.failed) : Within(r, acks, air, orders) => c.pc = "query" /\ r = job.list[c.i]
  /\ Serial!AnswerIsOwn

PackageOrders == {r \in Orders : r.sub = "package"}
\* What is acknowledged as accepted is written.
Confirmed(a) == \A k \in 1..Len(a) :
                  a[k].status = "accepted" => a[k].to.sub = "package" /\ a[k].to.type \in written

\* The packages before the one that is under way are written.  As long as each has been
\* accepted, no other package's acknowledgement can come.
UpgradeInv ==
  /\ c.pc \notin {"query", "back"}
  /\ c.i \in 1..Packages /\ (~c.rest => c.i < Packages)
  /\ written \subseteq 1..Packages
  /\ \A k \in 1..Len(orders) : orders[k].sub = "package" =>
       orders[k].type \in 1..Packages /\ orders[k].last \in orders[k].type..Packages
  /\ Confirmed(acks) /\ Confirmed(air)
  /\ 1..(c.i - 1) \subseteq written
  /\ ~c.rest => c.unaccepted = {}
  /\ c.unaccepted = {} =>
       /\ c.rest => c.i = Packages
       /\ c.pc # "end" =>
            /\ OneWithin(PackageOrders, acks, air, orders)
            /\ \A r \in PackageOrders :
                 Within(r, acks, air, orders) => c.pc = "package" /\ r.type = c.i
       /\ c.pc = "end" /\ c.ret = "zero" => written = 1..Packages

SerialInv ==
  /\ SerialTypes
  /\ job.kind = "none" => c.pc = "end"
  /\ job.kind = "queries" => QueriesInv
  /\ Serial!Upgrading => UpgradeInv
  /\ c.refusals \subseteq {"three"}

-----------------------------------------------------------------------------
(***************************************************************************)
(* What is within the line, when one step moves it                          *)
(***************************************************************************)
LEMMA NoneIsOne ==
  ASSUME NEW S, NEW a, NEW w, NEW o, NoneWithin(S, a, w, o) PROVE OneWithin(S, a, w, o)
BY DEF NoneWithin, OneWithin, Within

LEMMA FewerIsOne ==
  ASSUME NEW S, NEW U, S \subseteq U, NEW a, NEW w, NEW o, OneWithin(U, a, w, o)
  PROVE  OneWithin(S, a, w, o)
BY DEF OneWithin

\* A request is lost, or the lidar ignores it.
LEMMA OrderLost ==
  ASSUME NEW S, NEW a \in Seq(Acks), NEW w \in Seq(Acks), NEW o \in Seq(Orders), o # <<>>
  PROVE  /\ Tail(o) \in Seq(Orders)
         /\ OneWithin(S, a, w, o) => OneWithin(S, a, w, Tail(o))
         /\ \A r \in Orders : Within(r, a, w, Tail(o)) => Within(r, a, w, o)
<1> DEFINE u == Tail(o)
<1>1. u \in Seq(Orders) /\ Len(u) = Len(o) - 1 /\ \A i \in 1..Len(u) : u[i] = o[i + 1] /\ i + 1 \in 1..Len(o)
  OBVIOUS
<1> HIDE DEF u
<1>2. Len(o) \in Nat /\ Len(a) \in Nat /\ Len(w) \in Nat
  OBVIOUS
<1>3. ASSUME OneWithin(S, a, w, o) PROVE OneWithin(S, a, w, u)
  <2>1. \A i, j \in 1..Len(u) : u[i] \in S /\ u[j] \in S => i = j
    <3> SUFFICES ASSUME NEW i \in 1..Len(u), NEW j \in 1..Len(u), u[i] \in S, u[j] \in S PROVE i = j
      OBVIOUS
    <3>1. i + 1 = j + 1
      BY <1>1, <1>3 DEF OneWithin
    <3> QED
      BY <3>1, <1>1, <1>2
  <2>2. \A j \in 1..Len(u) : u[j] \in S => \E i \in 1..Len(o) : o[i] \in S /\ u[j] = o[i]
    BY <1>1
  <2> QED
    BY <2>1, <2>2, <1>3 DEF OneWithin
<1>4. ASSUME NEW r \in Orders, Within(r, a, w, u) PROVE Within(r, a, w, o)
  BY <1>1, <1>2, <1>4 DEF Within
<1> QED
  BY <1>1, <1>3, <1>4 DEF u

\* The lidar answers a request.
LEMMA OrderAnswered ==
  ASSUME NEW S, NEW a \in Seq(Acks), NEW w \in Seq(Acks), NEW o \in Seq(Orders), o # <<>>,
         NEW k \in Acks, k.to = Head(o)
  PROVE  /\ Append(w, k) \in Seq(Acks)
         /\ OneWithin(S, a, w, o) => OneWithin(S, a, Append(w, k), Tail(o))
         /\ \A r \in Orders : Within(r, a, Append(w, k), Tail(o)) => Within(r, a, w, o)
<1> DEFINE u == Tail(o)
           v == Append(w, k)
<1>1. u \in Seq(Orders) /\ Len(u) = Len(o) - 1 /\ \A i \in 1..Len(u) : u[i] = o[i + 1] /\ i + 1 \in 1..Len(o)
  OBVIOUS
<1>2. /\ v \in Seq(Acks) /\ Len(v) = Len(w) + 1
      /\ \A i \in 1..Len(v) : (i \in 1..Len(w) /\ v[i] = w[i]) \/ (i = Len(v) /\ v[i] = k)
  OBVIOUS
<1> HIDE DEF u, v
<1>3. Len(o) \in Nat /\ Len(a) \in Nat /\ Len(w) \in Nat /\ 1 \in 1..Len(o) /\ k.to = o[1]
  OBVIOUS
<1>4. ASSUME OneWithin(S, a, w, o) PROVE OneWithin(S, a, v, u)
  <2>1. \A i, j \in 1..Len(v) : v[i].to \in S /\ v[j].to \in S => i = j
    BY <1>2, <1>3, <1>4, SMTT(30) DEF OneWithin
  <2>2. \A i, j \in 1..Len(u) : u[i] \in S /\ u[j] \in S => i = j
    <3> SUFFICES ASSUME NEW i \in 1..Len(u), NEW j \in 1..Len(u), u[i] \in S, u[j] \in S PROVE i = j
      OBVIOUS
    <3>1. i + 1 = j + 1
      BY <1>1, <1>4 DEF OneWithin
    <3> QED
      BY <3>1, <1>1, <1>3
  <2>3. \A i \in 1..Len(a) : \A j \in 1..Len(v) : ~(a[i].to \in S /\ v[j].to \in S)
    BY <1>2, <1>3, <1>4 DEF OneWithin
  <2>4. \A i \in 1..Len(a) : \A j \in 1..Len(u) : ~(a[i].to \in S /\ u[j] \in S)
    BY <1>1, <1>4 DEF OneWithin
  <2>5. \A i \in 1..Len(v) : \A j \in 1..Len(u) : ~(v[i].to \in S /\ u[j] \in S)
    <3> SUFFICES ASSUME NEW i \in 1..Len(v), NEW j \in 1..Len(u), v[i].to \in S, u[j] \in S PROVE FALSE
      OBVIOUS
    <3>1. o[j + 1] \in S /\ j + 1 \in 1..Len(o) /\ j + 1 # 1
      BY <1>1, <1>3
    <3> QED
      BY <3>1, <1>2, <1>3, <1>4 DEF OneWithin
  <2> QED
    BY <2>1, <2>2, <2>3, <2>4, <2>5, <1>4 DEF OneWithin
<1>5. ASSUME NEW r \in Orders, Within(r, a, v, u) PROVE Within(r, a, w, o)
  BY <1>1, <1>2, <1>3, <1>5 DEF Within
<1> QED
  BY <1>2, <1>4, <1>5 DEF u, v

\* A request that is not among the ones in question is answered twice.
LEMMA OrderAnsweredTwice ==
  ASSUME NEW S, NEW a \in Seq(Acks), NEW w \in Seq(Acks), NEW o \in Seq(Orders), o # <<>>, Head(o) \notin S,
         NEW k \in Acks, k.to = Head(o), NEW l \in Acks, l.to = Head(o)
  PROVE  /\ w \o <<k, l>> \in Seq(Acks)
         /\ OneWithin(S, a, w, o) => OneWithin(S, a, w \o <<k, l>>, Tail(o))
         /\ \A r \in Orders : Within(r, a, w \o <<k, l>>, Tail(o)) => Within(r, a, w, o)
<1> DEFINE u == Tail(o)
           v == w \o <<k, l>>
<1>1. u \in Seq(Orders) /\ Len(u) = Len(o) - 1 /\ \A i \in 1..Len(u) : u[i] = o[i + 1] /\ i + 1 \in 1..Len(o)
  OBVIOUS
<1>2. /\ v \in Seq(Acks) /\ Len(v) = Len(w) + 2
      /\ \A i \in 1..Len(v) : (i \in 1..Len(w) /\ v[i] = w[i]) \/ v[i] \in {k, l}
  OBVIOUS
<1> HIDE DEF u, v
<1>3. Len(o) \in Nat /\ Len(a) \in Nat /\ Len(w) \in Nat /\ 1 \in 1..Len(o) /\ k.to = o[1] /\ l.to = o[1]
      /\ o[1] \notin S
  OBVIOUS
<1>4. ASSUME OneWithin(S, a, w, o) PROVE OneWithin(S, a, v, u)
  <2>1. OneWithin(S, a, w, u)
    BY <1>4, OrderLost DEF u
  <2>2. \A i \in 1..Len(v) : v[i].to \in S => i \in 1..Len(w) /\ v[i] = w[i]
    BY <1>2, <1>3
  <2> QED
    BY <2>1, <2>2 DEF OneWithin
<1>5. ASSUME NEW r \in Orders, Within(r, a, v, u) PROVE Within(r, a, w, o)
  BY <1>1, <1>2, <1>3, <1>5 DEF Within
<1> QED
  BY <1>2, <1>4, <1>5 DEF u, v

\* An acknowledgement reaches the buffer, or it is lost.
LEMMA AckArrives ==
  ASSUME NEW S, NEW a \in Seq(Acks), NEW w \in Seq(Acks), NEW o \in Seq(Orders), w # <<>>
  PROVE  \A b \in {a, Append(a, Head(w))} :
           /\ Tail(w) \in Seq(Acks) /\ b \in Seq(Acks)
           /\ OneWithin(S, a, w, o) => OneWithin(S, b, Tail(w), o)
           /\ \A r \in Orders : Within(r, b, Tail(w), o) => Within(r, a, w, o)
<1> TAKE b \in {a, Append(a, Head(w))}
<1> DEFINE u == Tail(w)
<1>1. u \in Seq(Acks) /\ Len(u) = Len(w) - 1 /\ \A i \in 1..Len(u) : u[i] = w[i + 1] /\ i + 1 \in 1..Len(w)
  OBVIOUS
<1>2. /\ b \in Seq(Acks)
      /\ \A i \in 1..Len(b) : (i \in 1..Len(a) /\ b[i] = a[i]) \/ (i = Len(a) + 1 /\ b[i] = w[1])
  <2>1. Head(w) = w[1] /\ w[1] \in Acks
    OBVIOUS
  <2>2. CASE b = a
    BY <2>2
  <2>3. CASE b = Append(a, Head(w))
    BY <2>1, <2>3
  <2> QED
    BY <2>2, <2>3
<1> HIDE DEF u
<1>3. Len(o) \in Nat /\ Len(a) \in Nat /\ Len(w) \in Nat /\ 1 \in 1..Len(w)
  OBVIOUS
<1>4. ASSUME OneWithin(S, a, w, o) PROVE OneWithin(S, b, u, o)
  <2>1. \A i, j \in 1..Len(b) : b[i].to \in S /\ b[j].to \in S => i = j
    BY <1>2, <1>3, <1>4 DEF OneWithin
  <2>2. \A i, j \in 1..Len(u) : u[i].to \in S /\ u[j].to \in S => i = j
    <3> SUFFICES ASSUME NEW i \in 1..Len(u), NEW j \in 1..Len(u), u[i].to \in S, u[j].to \in S PROVE i = j
      OBVIOUS
    <3>1. i + 1 = j + 1
      BY <1>1, <1>4 DEF OneWithin
    <3> QED
      BY <3>1, <1>1, <1>3
  <2>3. \A i \in 1..Len(b) : \A j \in 1..Len(u) : ~(b[i].to \in S /\ u[j].to \in S)
    <3> SUFFICES ASSUME NEW i \in 1..Len(b), NEW j \in 1..Len(u), b[i].to \in S, u[j].to \in S PROVE FALSE
      OBVIOUS
    <3>1. w[j + 1].to \in S /\ j + 1 \in 1..Len(w) /\ j + 1 # 1
      BY <1>1, <1>3
    <3> QED
      BY <3>1, <1>2, <1>3, <1>4 DEF OneWithin
  <2>4. \A i \in 1..Len(b) : \A j \in 1..Len(o) : ~(b[i].to \in S /\ o[j] \in S)
    BY <1>2, <1>3, <1>4 DEF OneWithin
  <2>5. \A i \in 1..Len(u) : \A j \in 1..Len(o) : ~(u[i].to \in S /\ o[j] \in S)
    BY <1>1, <1>4 DEF OneWithin
  <2> QED
    BY <2>1, <2>2, <2>3, <2>4, <2>5, <1>4 DEF OneWithin
<1>5. ASSUME NEW r \in Orders, Within(r, b, u, o) PROVE Within(r, a, w, o)
  BY <1>1, <1>2, <1>3, <1>5 DEF Within
<1> QED
  BY <1>1, <1>2, <1>4, <1>5 DEF u

\* The buffer is emptied.
LEMMA AcksDropped ==
  ASSUME NEW S, NEW a \in Seq(Acks), NEW w \in Seq(Acks), NEW o \in Seq(Orders)
  PROVE  /\ OneWithin(S, a, w, o) => OneWithin(S, <<>>, w, o)
         /\ \A r \in Orders : Within(r, <<>>, w, o) => Within(r, a, w, o)
<1> DEFINE e == <<>>
<1>1. 1..Len(e) = {}
  OBVIOUS
<1> HIDE DEF e
<1>2. OneWithin(S, a, w, o) => OneWithin(S, e, w, o)
  BY <1>1 DEF OneWithin
<1>3. \A r \in Orders : Within(r, e, w, o) => Within(r, a, w, o)
  BY <1>1 DEF Within
<1> QED
  BY <1>2, <1>3 DEF e

\* The client takes the first acknowledgement: if it is one of those in question, no other is left.
LEMMA FirstTaken ==
  ASSUME NEW S, NEW a \in Seq(Acks), NEW w \in Seq(Acks), NEW o \in Seq(Orders), a # <<>>
  PROVE  /\ Tail(a) \in Seq(Acks)
         /\ OneWithin(S, a, w, o) => OneWithin(S, Tail(a), w, o)
         /\ OneWithin(S, a, w, o) /\ Head(a).to \in S =>
              NoneWithin(S, Tail(a), w, o) /\ NoneWithin(S, <<>>, w, o)
         /\ \A r \in Orders : Within(r, Tail(a), w, o) => Within(r, a, w, o)
         /\ Within(Head(a).to, a, w, o)
<1> DEFINE u == Tail(a)
           e == <<>>
<1>1. u \in Seq(Acks) /\ Len(u) = Len(a) - 1 /\ \A i \in 1..Len(u) : u[i] = a[i + 1] /\ i + 1 \in 1..Len(a)
  OBVIOUS
<1>2. 1..Len(e) = {}
  OBVIOUS
<1> HIDE DEF u, e
<1>3. Len(o) \in Nat /\ Len(a) \in Nat /\ Len(w) \in Nat /\ 1 \in 1..Len(a) /\ Head(a) = a[1]
  OBVIOUS
<1>4. ASSUME OneWithin(S, a, w, o) PROVE OneWithin(S, u, w, o)
  <2>1. \A i, j \in 1..Len(u) : u[i].to \in S /\ u[j].to \in S => i = j
    <3> SUFFICES ASSUME NEW i \in 1..Len(u), NEW j \in 1..Len(u), u[i].to \in S, u[j].to \in S PROVE i = j
      OBVIOUS
    <3>1. i + 1 = j + 1
      BY <1>1, <1>4 DEF OneWithin
    <3> QED
      BY <3>1, <1>1, <1>3
  <2>2. \A j \in 1..Len(u) : u[j].to \in S => \E i \in 1..Len(a) : a[i].to \in S /\ u[j] = a[i]
    BY <1>1
  <2> QED
    BY <2>1, <2>2, <1>4 DEF OneWithin
<1>5. ASSUME OneWithin(S, a, w, o), Head(a).to \in S PROVE NoneWithin(S, u, w, o) /\ NoneWithin(S, e, w, o)
  <2>1. ASSUME NEW i \in 1..Len(u) PROVE u[i].to \notin S
    <3>1. u[i] = a[i + 1] /\ i + 1 \in 1..Len(a) /\ i + 1 # 1
      BY <1>1, <1>3
    <3> QED
      BY <3>1, <1>3, <1>5 DEF OneWithin
  <2>2. ASSUME NEW i \in 1..Len(w) PROVE w[i].to \notin S
    BY <1>3, <1>5 DEF OneWithin
  <2>3. ASSUME NEW i \in 1..Len(o) PROVE o[i] \notin S
    BY <1>3, <1>5 DEF OneWithin
  <2> QED
    BY <2>1, <2>2, <2>3, <1>2 DEF NoneWithin, Within
<1>6. \A r \in Orders : Within(r, u, w, o) => Within(r, a, w, o)
  BY <1>1, <1>3 DEF Within
<1>7. Within(Head(a).to, a, w, o)
  BY <1>3 DEF Within
<1> QED
  BY <1>1, <1>4, <1>5, <1>6, <1>7 DEF u, e

LEMMA WithinAsked ==
  ASSUME NEW w, NEW o \in Seq(Orders), NEW r \in Orders
  PROVE  \A x \in Orders : Within(x, <<>>, w, Append(o, r)) => Within(x, <<>>, w, o) \/ x = r
<1>1. \A i \in 1..Len(Append(o, r)) :
        (i \in 1..Len(o) /\ Append(o, r)[i] = o[i]) \/ Append(o, r)[i] = r
  OBVIOUS
<1> QED
  BY <1>1 DEF Within

\* The client empties the buffer and asks.
LEMMA RequestAsked ==
  ASSUME NEW S, NEW a \in Seq(Acks), NEW w \in Seq(Acks), NEW o \in Seq(Orders), NEW r \in Orders
  PROVE  /\ Append(o, r) \in Seq(Orders)
         /\ NoneWithin(S, <<>>, w, o) => OneWithin(S, <<>>, w, Append(o, r))
         /\ OneWithin(S, a, w, o) /\ r \notin S => OneWithin(S, <<>>, w, Append(o, r))
<1> DEFINE u == Append(o, r)
           e == <<>>
<1>1. /\ u \in Seq(Orders)
      /\ \A i \in 1..Len(u) : (i \in 1..Len(o) /\ u[i] = o[i]) \/ (i = Len(o) + 1 /\ u[i] = r)
  OBVIOUS
<1>2. 1..Len(e) = {}
  OBVIOUS
<1> HIDE DEF u, e
<1>3. Len(o) \in Nat /\ Len(a) \in Nat /\ Len(w) \in Nat
  OBVIOUS
<1>4. ASSUME NoneWithin(S, e, w, o) PROVE OneWithin(S, e, w, u)
  <2>1. \A i \in 1..Len(w) : w[i].to \notin S
    BY <1>4 DEF NoneWithin, Within
  <2>2. \A i \in 1..Len(o) : o[i] \notin S
    BY <1>4 DEF NoneWithin, Within
  <2> QED
    BY <2>1, <2>2, <1>1, <1>2, <1>3 DEF OneWithin
<1>5. ASSUME OneWithin(S, a, w, o), r \notin S PROVE OneWithin(S, e, w, u)
  <2>1. \A i \in 1..Len(u) : u[i] \in S => i \in 1..Len(o) /\ u[i] = o[i]
    BY <1>1, <1>5
  <2> QED
    BY <2>1, <1>2, <1>5 DEF OneWithin
<1> QED
  BY <1>1, <1>4, <1>5 DEF u, e

-----------------------------------------------------------------------------
(***************************************************************************)
(* The serial line keeps its invariant                                      *)
(***************************************************************************)
LEMMA JobKinds ==
  /\ job.kind = "none" \/ job.kind = "queries" => ~Serial!Upgrading
  /\ job \in Serial!Jobs \cup {NoJob} => job.kind \in {"none", "queries"} \/ Serial!Upgrading
  /\ job \in Serial!Jobs \cup {NoJob} /\ job.kind = "queries" => job.list \in QueryLists
  /\ job \in Serial!Jobs => job.kind # "none"
<1>1. job.kind = "none" \/ job.kind = "queries" => ~Serial!Upgrading
  BY DEF Serial!Upgrading
<1>2. ASSUME job \in [kind : {"upgrade app", "upgrade pbl"}, list : {<<>>}]
      PROVE  Serial!Upgrading /\ job.kind # "none" /\ job.kind # "queries"
  BY <1>2 DEF Serial!Upgrading
<1>3. ASSUME job \in [kind : {"queries"}, list : QueryLists]
      PROVE  job.kind = "queries" /\ job.list \in QueryLists
  BY <1>3
<1>4. job = NoJob => job.kind = "none"
  BY DEF NoJob
<1> QED
  BY <1>1, <1>2, <1>3, <1>4 DEF Serial!Jobs

LEMMA QueryAt ==
  ASSUME NEW l \in QueryLists, NEW i \in 1..Len(l)
  PROVE  l[i] \in Orders /\ l[i].sub \in Kinds /\ Len(l) \in Nat
<1>1. l \in Seq([sub : Kinds, type : Nat])
  BY SerialAssumption DEF Kinds
<1>2. l[i] \in [sub : Kinds, type : Nat]
  BY <1>1, ElementOfSeq
<1>3. l[i] \in Orders /\ l[i].sub \in Kinds
  BY <1>2 DEF Orders
<1>4. Len(l) \in Nat
  BY <1>1
<1> QED
  BY <1>3, <1>4

\* A query list is not empty.
LEMMA QueryListStarts == ASSUME NEW l \in QueryLists PROVE 1 \in 1..Len(l)
BY SerialAssumption

LEMMA InitSerial == Serial!Init \/ Serial!NoPort => SerialInv
<1> USE SerialAssumption
<1>0. /\ <<>> \in Seq(Acks) /\ <<>> \in Seq(Orders) /\ Len(<<>>) = 0 /\ 1..0 = {}
  OBVIOUS
<1>1. \A pc \in {"start", "end"} : Serial!Client(pc) \in Clients
  <2>1. Serial!Nothing \in Orders
    BY DEF Serial!Nothing, Orders
  <2>2. (Packages = 1) \in BOOLEAN
    OBVIOUS
  <2>3. {} \subseteq Codes /\ {} \subseteq Kinds /\ {} \subseteq Statuses /\ 1 \in Nat
    OBVIOUS
  <2> QED
    BY <2>1, <2>2, <2>3 DEF Serial!Client, Clients, Steps
<1>2. ASSUME Serial!NoPort PROVE SerialInv
  <2>1. SerialTypes
    BY <1>0, <1>1, <1>2 DEF Serial!NoPort, SerialTypes, NoJob
  <2>2. job.kind = "none" /\ c.pc = "end" /\ c.refusals = {}
    BY <1>2 DEF Serial!NoPort, Serial!Client
  <2> QED
    BY <2>1, <2>2, JobKinds DEF SerialInv
<1>3. ASSUME Serial!Init PROVE SerialInv
  <2>1. SerialTypes
    <3>1. inPbl \in BOOLEAN
      <4>1. inPbl = FALSE \/ inPbl = Serial!Upgrading
        BY <1>3 DEF Serial!Init
      <4>2. Serial!Upgrading \in BOOLEAN
        BY DEF Serial!Upgrading
      <4> QED
        BY <4>1, <4>2
    <3> QED
      BY <1>0, <1>1, <1>3, <3>1 DEF Serial!Init, SerialTypes
  <2>2. /\ c.pc = "start" /\ c.refusals = {} /\ c.failed = {} /\ c.i = 1 /\ c.taken = Serial!Nothing
        /\ c.rest = (Packages = 1) /\ c.unaccepted = {}
    BY <1>3 DEF Serial!Init, Serial!Client
  <2>3. acks = <<>> /\ orders = <<>> /\ air = <<>> /\ written = {} /\ job \in Serial!Jobs
    BY <1>3 DEF Serial!Init
  <2>4. Len(acks) = 0 /\ Len(orders) = 0 /\ Len(air) = 0
    BY <2>3
  <2>5. \A S : OneWithin(S, acks, air, orders)
    BY <2>4, <1>0 DEF OneWithin
  <2>6. \A r \in Orders : ~Within(r, acks, air, orders)
    BY <2>4, <1>0 DEF Within
  <2>7. ASSUME job.kind = "queries" PROVE QueriesInv
    <3>1. job.list \in QueryLists
      BY <2>3, <2>7, JobKinds
    <3>2. c.i \in 1..Len(job.list)
      BY <2>2, <3>1, QueryListStarts
    <3>3. Serial!AnswerIsOwn
      BY <2>2 DEF Serial!AnswerIsOwn
    <3> QED
      BY <3>1, <3>2, <3>3, <2>2, <2>4, <1>0, <2>5, <2>6 DEF QueriesInv, Live
  <2>8. UpgradeInv
    <3>1. Confirmed(acks) /\ Confirmed(air)
      BY <2>4, <1>0 DEF Confirmed
    <3>2. 1..(c.i - 1) \subseteq written
      BY <2>2, <2>3
    <3>3. \A r \in PackageOrders : ~Within(r, acks, air, orders)
      BY <2>6 DEF PackageOrders
    <3>4. 1 \in 1..Packages /\ (Packages # 1 => 1 < Packages)
      OBVIOUS
    <3>5. written \subseteq 1..Packages
      BY <2>3
    <3> QED
      BY <3>1, <3>2, <3>3, <3>4, <3>5, <2>2, <2>4, <1>0, <2>5 DEF UpgradeInv
  <2>9. job.kind # "none"
    BY <2>3, JobKinds
  <2> QED
    BY <2>1, <2>2, <2>7, <2>8, <2>9 DEF SerialInv
<1> QED
  BY <1>2, <1>3

\* Of what the client asks for, the buffer it empties and the fields of its record.
LEMMA AsksTypes ==
  ASSUME SerialTypes, NEW r \in Orders, NEW x \in Clients, Serial!Asks(r, x),
         UNCHANGED <<job, air, inPbl, written>>
  PROVE  SerialTypes'
<1>1. /\ acks' = <<>> /\ orders' = Append(orders, r) /\ c' = x /\ UNCHANGED <<job, air, inPbl, written>>
  BY DEF Serial!Asks
<1>2. <<>> \in Seq(Acks) /\ Append(orders, r) \in Seq(Orders)
  BY DEF SerialTypes
<1> QED
  BY <1>1, <1>2 DEF SerialTypes


\* A client that asks for a few things asks again: nothing of a query that has not failed is
\* left, and what it asks for is a change of mode or the query that it goes on to.
LEMMA AskedAgain ==
  ASSUME SerialTypes, job.kind = "queries", QueriesInv, c.refusals \subseteq {"three"},
         NEW r \in Orders, NEW x \in Clients, Serial!Asks(r, x), UNCHANGED <<job, air, inPbl, written>>,
         x.i = c.i, x.pc \in {"mode", "query", "back"}, x.refusals = c.refusals,
         NoneWithin(Live(x.failed), <<>>, air, orders),
         \/ r = Serial!Mode
         \/ x.pc = "query" /\ r = job.list[c.i],
         Serial!AnswerIsOwn'
  PROVE  SerialInv'
<1> DEFINE S == Live(x.failed)
<1>1. /\ acks' = <<>> /\ orders' = Append(orders, r) /\ c' = x /\ UNCHANGED <<job, air, inPbl, written>>
  BY DEF Serial!Asks
<1>2. /\ acks \in Seq(Acks) /\ air \in Seq(Acks) /\ orders \in Seq(Orders)
  BY DEF SerialTypes
<1>3. SerialTypes'
  BY AsksTypes
<1>4. job.list \in QueryLists /\ c.i \in 1..Len(job.list)
  BY DEF QueriesInv
<1>5. r.sub \in Kinds \cup {"mode"}
  BY <1>4, QueryAt DEF Serial!Mode
<1>6. \A k \in 1..Len(orders') : orders'[k].sub \in Kinds \cup {"mode"}
  <2>1. \A k \in 1..Len(Append(orders, r)) :
          (k \in 1..Len(orders) /\ Append(orders, r)[k] = orders[k]) \/ Append(orders, r)[k] = r
    BY <1>2
  <2> QED
    BY <2>1, <1>1, <1>5 DEF QueriesInv
<1>7. OneWithin(S, <<>>, air, Append(orders, r))
  <2> HIDE DEF S
  <2>1. NoneWithin(S, <<>>, air, orders)
    BY DEF S
  <2> QED
    BY <2>1, <1>2, RequestAsked
<1>8. ASSUME NEW y \in S, Within(y, <<>>, air, Append(orders, r)) PROVE x.pc = "query" /\ y = job.list[c.i]
  <2>1. y \in Orders /\ y.sub # "mode"
    BY DEF Live
  <2>2. Within(y, <<>>, air, orders) \/ y = r
    <3>1. \A z \in Orders : Within(z, <<>>, air, Append(orders, r)) => Within(z, <<>>, air, orders) \/ z = r
      BY <1>2, WithinAsked
    <3> HIDE DEF S
    <3> QED
      BY <1>8, <2>1, <3>1
  <2>3. ~Within(y, <<>>, air, orders)
    BY DEF NoneWithin
  <2> QED
    BY <2>1, <2>2, <2>3 DEF Serial!Mode
<1>9. QueriesInv'
  <2>1. OneWithin(Live(c.failed), acks, air, orders)'
    BY <1>1, <1>7
  <2>2. (\A y \in Live(c.failed) : Within(y, acks, air, orders) => c.pc = "query" /\ y = job.list[c.i])'
    BY <1>1, <1>8
  <2> QED
    BY <1>1, <1>4, <1>6, <2>1, <2>2 DEF QueriesInv
<1>10. (job.kind = "queries" /\ ~Serial!Upgrading /\ c.refusals \subseteq {"three"})'
  BY <1>1, JobKinds DEF Serial!Upgrading
<1> QED
  BY <1>3, <1>9, <1>10 DEF SerialInv

\* Before the query is asked nothing of one that has not failed is in the line.
LEMMA NothingLive ==
  ASSUME SerialTypes, QueriesInv, c.pc # "query"
  PROVE  NoneWithin(Live(c.failed), <<>>, air, orders)
<1> DEFINE S == Live(c.failed)
<1>1. \A r \in S : r \in Orders /\ ~Within(r, acks, air, orders)
  BY DEF QueriesInv, Live
<1> HIDE DEF S
<1>2. \A r \in S : ~Within(r, <<>>, air, orders)
  BY <1>1, AcksDropped DEF SerialTypes
<1> QED
  BY <1>2 DEF NoneWithin, S

LEMMA AsksMode == Serial!Mode \in Orders
BY DEF Serial!Mode, Orders

\* A client that still has to do something and does not upgrade asks for a few things.
LEMMA AsksQueries ==
  ASSUME SerialInv, ~Serial!Upgrading, c.pc # "end"
  PROVE  /\ job.kind = "queries" /\ QueriesInv /\ SerialTypes /\ c.refusals \subseteq {"three"} /\ c \in Clients
         /\ job.list \in QueryLists /\ c.i \in 1..Len(job.list)
<1>1. SerialTypes /\ job.kind = "queries" /\ c.refusals \subseteq {"three"}
  BY JobKinds DEF SerialInv, SerialTypes
<1> QED
  BY <1>1 DEF SerialInv, QueriesInv, SerialTypes

LEMMA ModeChanged ==
  ASSUME SerialInv, Serial!ChangesMode, UNCHANGED <<job, air, inPbl, written>>
  PROVE  SerialInv'
<1>1. c.pc = "start" /\ ~Serial!Upgrading
  BY DEF Serial!ChangesMode
<1>2. /\ job.kind = "queries" /\ QueriesInv /\ SerialTypes /\ c.refusals \subseteq {"three"} /\ c \in Clients
  BY <1>1, AsksQueries
<1> DEFINE x == [c EXCEPT !.pc = "mode"]
<1>3. Serial!Asks(Serial!Mode, x)
  BY DEF Serial!ChangesMode
<1>4. x \in Clients /\ x.i = c.i /\ x.pc = "mode" /\ x.refusals = c.refusals /\ x.failed = c.failed
  BY <1>2 DEF Clients, Steps
<1>5. NoneWithin(Live(x.failed), <<>>, air, orders)
  BY <1>1, <1>2, <1>4, NothingLive
<1>6. c' = x
  BY <1>3 DEF Serial!Asks
<1> HIDE DEF x
<1>7. Serial!AnswerIsOwn'
  BY <1>4, <1>6 DEF Serial!AnswerIsOwn
<1> QED
  BY <1>2, <1>3, <1>4, <1>5, <1>7, AsksMode, AskedAgain

LEMMA QueryAsked ==
  ASSUME SerialInv, Serial!Queries, UNCHANGED <<job, air, inPbl, written>>
  PROVE  SerialInv'
<1>1. c.pc = "mode" /\ ~Serial!Upgrading
  BY DEF Serial!Queries
<1>2. /\ job.kind = "queries" /\ QueriesInv /\ SerialTypes /\ c.refusals \subseteq {"three"} /\ c \in Clients
      /\ job.list \in QueryLists /\ c.i \in 1..Len(job.list)
  BY <1>1, AsksQueries
<1> DEFINE x == [c EXCEPT !.pc = "query"]
           r == job.list[c.i]
<1>3. Serial!Asks(r, x)
  BY DEF Serial!Queries
<1>4. x \in Clients /\ x.i = c.i /\ x.pc = "query" /\ x.refusals = c.refusals /\ x.failed = c.failed
  BY <1>2 DEF Clients, Steps
<1>5. NoneWithin(Live(x.failed), <<>>, air, orders)
  BY <1>1, <1>2, <1>4, NothingLive
<1>6. c' = x
  BY <1>3 DEF Serial!Asks
<1>7. r \in Orders
  BY <1>2, QueryAt
<1>8. r = job.list[c.i]
  OBVIOUS
<1> HIDE DEF x, r
<1>9. Serial!AnswerIsOwn'
  BY <1>4, <1>6 DEF Serial!AnswerIsOwn
<1> QED
  BY <1>2, <1>3, <1>4, <1>5, <1>7, <1>8, <1>9, AskedAgain

\* A good answer is to a query of its kind: to this one, after which nothing of it is left,
\* or to one of a kind that has failed.  Without a good answer the query has failed.
LEMMA ModeChangedBack ==
  ASSUME SerialInv, Serial!ChangesBack, UNCHANGED <<job, air, inPbl, written>>
  PROVE  SerialInv'
<1> DEFINE r == job.list[c.i]
           good == ~Serial!Silence /\ Serial!Decodes(Serial!First, r.sub) /\ Serial!First.code = "zero"
           x == [c EXCEPT !.pc = "back", !.taken = IF good THEN Serial!First.to ELSE Serial!Nothing,
                          !.failed = IF good THEN @ ELSE @ \cup {r.sub}]
<1>1. c.pc = "query" /\ Serial!Asks(Serial!Mode, x)
  BY DEF Serial!ChangesBack
<1>2. ~Serial!Upgrading
  <2>1. Serial!Upgrading => c.pc \notin {"query"}
    BY DEF SerialInv, UpgradeInv
  <2> QED
    BY <1>1, <2>1
<1>3. /\ job.kind = "queries" /\ QueriesInv /\ SerialTypes /\ c.refusals \subseteq {"three"} /\ c \in Clients
      /\ job.list \in QueryLists /\ c.i \in 1..Len(job.list)
  BY <1>1, <1>2, AsksQueries
<1>4. r \in Orders /\ r.sub \in Kinds
  BY <1>3, QueryAt
<1>5. acks \in Seq(Acks) /\ air \in Seq(Acks) /\ orders \in Seq(Orders)
  BY <1>3 DEF SerialTypes
<1>6. ASSUME good
      PROVE  /\ acks # <<>> /\ Head(acks) \in Acks /\ Head(acks).to \in Orders
             /\ Head(acks).to.sub = r.sub /\ Serial!First = Head(acks)
  <2>1. acks # <<>>
    BY <1>6 DEF Serial!Silence
  <2>2. Head(acks) \in Acks
    BY <1>5, <2>1
  <2>3. r.sub # "package"
    BY <1>4 DEF Kinds
  <2>4. Head(acks).to.sub = r.sub
    <3> HIDE DEF r
    <3> QED
      BY <1>6, <2>3 DEF Serial!Decodes, Serial!First, r
  <2> QED
    BY <2>1, <2>2, <2>4 DEF Acks, Serial!First
<1> DEFINE taken == IF good THEN Serial!First.to ELSE Serial!Nothing
           failed == IF good THEN c.failed ELSE c.failed \cup {r.sub}
<1>7. taken \in Orders
  BY <1>6 DEF Serial!Nothing, Orders
<1>8. failed \subseteq Kinds /\ c.failed \subseteq failed
  BY <1>3, <1>4 DEF Clients
<1>9. x = [c EXCEPT !.pc = "back", !.taken = taken, !.failed = failed]
  OBVIOUS
<1>10. good => taken = Head(acks).to /\ failed = c.failed
  BY <1>6
<1>11. ~good => taken = Serial!Nothing /\ failed = c.failed \cup {r.sub}
  OBVIOUS
<1>12. r = job.list[c.i]
  OBVIOUS
<1> HIDE DEF r, good, taken, failed, x
<1>13. /\ x \in Clients /\ x.i = c.i /\ x.pc = "back" /\ x.refusals = c.refusals
       /\ x.failed = failed /\ x.taken = taken
  BY <1>3, <1>7, <1>8, <1>9 DEF Clients, Steps
\* What is live is this query, if its kind has not failed.
<1>14. \A y \in Live(c.failed) : y \in Orders /\ (Within(y, acks, air, orders) => y = r)
  BY <1>3, <1>12 DEF QueriesInv, Live
<1>15. NoneWithin(Live(failed), <<>>, air, orders)
  <2>1. CASE r.sub \in failed
    <3>1. ASSUME NEW y \in Live(failed) PROVE ~Within(y, <<>>, air, orders)
      <4>1. y \in Live(c.failed) /\ y.sub \notin failed
        BY <1>8 DEF Live
      <4>2. Within(y, <<>>, air, orders) => Within(y, acks, air, orders)
        BY <4>1, <1>5, <1>14, AcksDropped
      <4> QED
        BY <4>1, <4>2, <1>14, <2>1
    <3> QED
      BY <3>1 DEF NoneWithin
  <2>2. CASE r.sub \notin failed
    <3>1. good /\ failed = c.failed
      BY <2>2, <1>10, <1>11
    <3>2. Head(acks).to \in Live(failed)
      <4>1. r.sub # "mode"
        BY <1>4 DEF Kinds
      <4> QED
        BY <4>1, <3>1, <1>6, <2>2 DEF Live
    <3> DEFINE S == Live(failed)
    <3>3. OneWithin(S, acks, air, orders) /\ Head(acks).to \in S
      BY <1>3, <3>1, <3>2 DEF QueriesInv
    <3> HIDE DEF S
    <3>4. NoneWithin(S, <<>>, air, orders)
      BY <3>1, <3>3, <1>5, <1>6, FirstTaken
    <3> QED
      BY <3>4 DEF S
  <2> QED
    BY <2>1, <2>2
<1>16. c' = x
  BY <1>1 DEF Serial!Asks
<1>17. Serial!AnswerIsOwn'
  <2>1. ASSUME taken # Serial!Nothing PROVE taken = r \/ (taken.sub = r.sub /\ taken.sub \in failed)
    <3>1. good /\ taken = Head(acks).to /\ failed = c.failed /\ taken.sub = r.sub /\ taken \in Orders
      BY <2>1, <1>6, <1>10, <1>11
    <3>2. CASE taken.sub \in failed
      BY <3>1, <3>2
    <3>3. CASE taken.sub \notin failed
      <4>1. taken \in Live(c.failed)
        BY <3>1, <3>3, <1>4 DEF Live, Kinds
      <4>2. Within(taken, acks, air, orders)
        BY <3>1, <1>5, <1>6, FirstTaken
      <4> QED
        BY <4>1, <4>2, <1>14
    <3> QED
      BY <3>2, <3>3
  <2>2. job'.list[c'.i] = r
    BY <1>12, <1>13, <1>16
  <2> QED
    BY <2>1, <2>2, <1>13, <1>16 DEF Serial!AnswerIsOwn
<1>18. NoneWithin(Live(x.failed), <<>>, air, orders)
  BY <1>13, <1>15
<1> QED
  BY <1>1, <1>3, <1>13, <1>17, <1>18, AsksMode, AskedAgain

LEMMA QueryReturned ==
  ASSUME SerialInv, Serial!Returns, UNCHANGED <<job, air, inPbl, written>>
  PROVE  SerialInv'
<1>1. c.pc = "back" /\ UNCHANGED <<acks, orders>>
  BY DEF Serial!Returns
<1>2. ~Serial!Upgrading
  <2>1. Serial!Upgrading => c.pc \notin {"back"}
    BY DEF SerialInv, UpgradeInv
  <2> QED
    BY <1>1, <2>1
<1>3. /\ job.kind = "queries" /\ QueriesInv /\ SerialTypes /\ c.refusals \subseteq {"three"} /\ c \in Clients
      /\ job.list \in QueryLists /\ c.i \in 1..Len(job.list)
  BY <1>1, <1>2, AsksQueries
<1>4. Len(job.list) \in Nat
  BY <1>3, QueryAt
<1>5. /\ c' \in Clients /\ c'.pc \in {"start", "end"} /\ c'.i \in 1..Len(job.list)
      /\ c'.failed = c.failed /\ c'.refusals = c.refusals
  <2>1. CASE c.i < Len(job.list)
    <3> DEFINE n == c.i + 1
    <3>1. n \in Nat /\ n \in 1..Len(job.list)
      BY <2>1, <1>3, <1>4
    <3>2. c' = [c EXCEPT !.pc = "start", !.i = n]
      BY <2>1 DEF Serial!Returns
    <3> HIDE DEF n
    <3> QED
      BY <3>1, <3>2, <1>3 DEF Clients, Steps
  <2>2. CASE ~(c.i < Len(job.list))
    <3>1. c' = [c EXCEPT !.pc = "end", !.ret = "zero"]
      BY <2>2 DEF Serial!Returns, Serial!Ends
    <3> QED
      BY <3>1, <1>3 DEF Clients, Steps
  <2> QED
    BY <2>1, <2>2
<1>6. SerialTypes'
  BY <1>1, <1>3, <1>5 DEF SerialTypes
<1>7. \A r \in Live(c.failed) : ~Within(r, acks, air, orders)
  BY <1>1, <1>3 DEF QueriesInv
<1>8. QueriesInv'
  <2>1. Serial!AnswerIsOwn'
    BY <1>5 DEF Serial!AnswerIsOwn
  <2>2. c'.pc \in {"start", "mode", "query", "back", "end"}
    BY <1>5
  <2> QED
    BY <1>1, <1>3, <1>5, <1>7, <2>1, <2>2 DEF QueriesInv
<1>9. ~Serial!Upgrading' /\ job'.kind = "queries" /\ c'.refusals \subseteq {"three"}
  BY <1>2, <1>3, <1>5 DEF Serial!Upgrading
<1> QED
  BY <1>6, <1>8, <1>9 DEF SerialInv

\* A step of an upgrade that neither sends nor finishes a package.
LEMMA UpgradeGoesOn ==
  ASSUME SerialInv, Serial!Upgrading, c.pc \notin {"package", "end"}, NEW x \in Clients, c' = x,
         UNCHANGED <<job, air, inPbl, written>>,
         \/ acks' \in {acks, <<>>} /\ orders' = orders
         \/ \E r \in Orders \ PackageOrders : acks' = <<>> /\ orders' = Append(orders, r),
         x.i = c.i, x.rest = c.rest, x.unaccepted = c.unaccepted, x.refusals \subseteq {"three"},
         x.pc \notin {"package", "query", "back"}, x.pc = "end" => x.ret # "zero"
  PROVE  SerialInv'
<1>1. SerialTypes /\ UpgradeInv
  BY DEF SerialInv
<1>2. acks \in Seq(Acks) /\ air \in Seq(Acks) /\ orders \in Seq(Orders)
  BY <1>1 DEF SerialTypes
<1>3. <<>> \in Seq(Acks) /\ 1..Len(<<>>) = {}
  OBVIOUS
<1>4. SerialTypes' /\ Confirmed(acks)'
  <2>1. acks' \in {acks, <<>>} /\ orders' \in Seq(Orders)
    <3>1. \A r \in Orders : Append(orders, r) \in Seq(Orders)
      BY <1>2
    <3> QED
      BY <1>2, <3>1
  <2>2. SerialTypes'
    BY <2>1, <1>1, <1>3 DEF SerialTypes
  <2>3. Confirmed(acks)'
    BY <2>1, <1>1, <1>3 DEF UpgradeInv, Confirmed
  <2> QED
    BY <2>2, <2>3
<1>5. \A k \in 1..Len(orders') : orders'[k].sub = "package" => \E j \in 1..Len(orders) : orders'[k] = orders[j]
  <2>1. ASSUME NEW r \in Orders \ PackageOrders, orders' = Append(orders, r)
        PROVE  \A k \in 1..Len(orders') : (k \in 1..Len(orders) /\ orders'[k] = orders[k]) \/ orders'[k] = r
    BY <2>1, <1>2
  <2> QED
    BY <2>1 DEF PackageOrders
<1>6. ASSUME c.unaccepted = {}
      PROVE  OneWithin(PackageOrders, acks', air, orders') /\ \A y \in PackageOrders : ~Within(y, acks', air, orders')
  <2>1. \A y \in PackageOrders : y \in Orders /\ ~Within(y, acks, air, orders)
    BY <1>1, <1>6 DEF UpgradeInv, PackageOrders
  <2> DEFINE S == PackageOrders
  <2>2. \A y \in S : y \in Orders /\ ~Within(y, <<>>, air, orders) /\ ~Within(y, acks, air, orders)
    BY <2>1, <1>2, AcksDropped
  <2>3. ASSUME NEW r \in Orders \ S, acks' = <<>>, orders' = Append(orders, r), NEW y \in S
        PROVE  ~Within(y, acks', air, orders')
    <3>1. \A z \in Orders : Within(z, <<>>, air, Append(orders, r)) => Within(z, <<>>, air, orders) \/ z = r
      BY <1>2, WithinAsked
    <3> HIDE DEF S
    <3> QED
      BY <3>1, <2>2, <2>3
  <2>4. \A y \in PackageOrders : ~Within(y, acks', air, orders')
    BY <2>2, <2>3
  <2>5. NoneWithin(PackageOrders, acks', air, orders')
    BY <2>4 DEF NoneWithin
  <2> QED
    BY <2>4, <2>5, NoneIsOne
<1>7. UpgradeInv'
  <2>1. (\A k \in 1..Len(orders) : orders[k].sub = "package" =>
           orders[k].type \in 1..Packages /\ orders[k].last \in orders[k].type..Packages)'
    BY <1>1, <1>5 DEF UpgradeInv
  <2>2. (c.unaccepted = {} => OneWithin(PackageOrders, acks, air, orders)
                             /\ \A y \in PackageOrders : ~Within(y, acks, air, orders))'
    BY <1>6
  <2>3. Confirmed(air)'
    BY <1>1 DEF UpgradeInv, Confirmed
  <2> QED
    BY <1>1, <1>4, <2>1, <2>2, <2>3 DEF UpgradeInv
<1>8. Serial!Upgrading' /\ job'.kind \notin {"none", "queries"} /\ c'.refusals \subseteq {"three"}
  BY JobKinds DEF Serial!Upgrading
<1> QED
  BY <1>4, <1>7, <1>8 DEF SerialInv

LEMMA UpgradeSteps ==
  ASSUME SerialInv, UNCHANGED <<job, air, inPbl, written>>,
         \/ Serial!Starts \/ Serial!Locates \/ Serial!FailsToOpen \/ Serial!EntersUpgrade
         \/ Serial!Requests \/ Serial!Requested \/ Serial!Readies
  PROVE  SerialInv'
<1>1. SerialTypes /\ c \in Clients /\ c.refusals \subseteq {"three"}
  BY DEF SerialInv, SerialTypes
<1>2. ASSUME c.pc \in {"start", "mode", "pbl", "app", "large", "ready", "ota"},
             c.pc \in {"start", "mode"} => Serial!Upgrading
      PROVE  Serial!Upgrading
  <2>1. c.pc \in {"pbl", "app", "large", "ready", "ota"} => job.kind \notin {"none", "queries"}
    BY DEF SerialInv, QueriesInv
  <2> QED
    BY <2>1, <1>1, <1>2, JobKinds DEF SerialTypes
<1>3. \A s \in {"pbl", "large", "mode"} : [sub |-> s, type |-> 0] \in Orders \ PackageOrders
  BY DEF Orders, PackageOrders
<1>4. Serial!Mode \in Orders \ PackageOrders
  BY <1>3 DEF Serial!Mode
<1> DEFINE Same(x) == /\ x \in Clients /\ x.i = c.i /\ x.rest = c.rest /\ x.unaccepted = c.unaccepted
                      /\ x.refusals \subseteq {"three"} /\ x.pc \notin {"package", "query", "back"}
                      /\ x.pc = "end" => x.ret # "zero"
           Free == \/ acks' \in {acks, <<>>} /\ orders' = orders
                   \/ \E r \in Orders \ PackageOrders : acks' = <<>> /\ orders' = Append(orders, r)
<1>5. \A pc \in {"pbl", "ota", "app", "mode", "large", "ready"} : Same([c EXCEPT !.pc = pc])
  BY <1>1 DEF Clients, Steps
<1>6. \A ret \in {"error", "in pbl"} : Same([c EXCEPT !.pc = "end", !.ret = ret])
  BY <1>1 DEF Clients, Steps
<1>7. /\ \A status \in Statuses, pc \in {"ota", "app"} :
           Same([c EXCEPT !.pc = pc, !.skipped = @ \cup Serial!Missing(status)])
      /\ Same([c EXCEPT !.pc = "ota", !.skipped = @ \cup {"ready"}])
      /\ Same([c EXCEPT !.pc = "ota", !.skipped = @ \cup {"ready"}, !.refusals = @ \cup {"three"}])
  <2>1. \A status \in Statuses : Serial!Missing(status) \in SUBSET Statuses
    BY DEF Serial!Missing
  <2>2. {"ready"} \in SUBSET Statuses
    BY DEF Statuses
  <2>3. \A X \in SUBSET Statuses, pc \in {"ota", "app"} : Same([c EXCEPT !.pc = pc, !.skipped = @ \cup X])
    BY <1>1 DEF Clients, Steps
  <2>4. \A X \in SUBSET Statuses :
          Same([c EXCEPT !.pc = "ota", !.skipped = @ \cup X, !.refusals = @ \cup {"three"}])
    BY <1>1 DEF Clients, Steps, Codes
  <2> HIDE DEF Same
  <2> QED
    BY <2>1, <2>2, <2>3, <2>4
<1>8. ASSUME Serial!Upgrading, c.pc \notin {"package", "end"}, Same(c'), Free PROVE SerialInv'
  BY <1>8, UpgradeGoesOn
<1> HIDE DEF Same, Free
<1>9. orders' = orders /\ acks' \in {acks, <<>>} => Free
  BY DEF Free
<1>10. ASSUME NEW r \in Orders \ PackageOrders, NEW x, Serial!Asks(r, x) PROVE Free /\ c' = x
  <2>1. acks' = <<>> /\ orders' = Append(orders, r) /\ c' = x
    BY <1>10 DEF Serial!Asks
  <2> QED
    BY <2>1 DEF Free
<1>11. ASSUME NEW ret \in {"error", "in pbl"}, Serial!Ends(c, ret) PROVE Same(c')
  BY <1>6, <1>11 DEF Serial!Ends
<1>12. CASE Serial!Starts
  <2>1. Free /\ c' = [c EXCEPT !.pc = "pbl"] /\ c.pc = "start" /\ Serial!Upgrading
    BY <1>12, <1>3, <1>10 DEF Serial!Starts
  <2> QED
    BY <2>1, <1>5, <1>8
<1>13. CASE Serial!Locates
  <2>1. c.pc = "pbl" /\ Free
    BY <1>13, <1>9 DEF Serial!Locates
  <2>2. Same(c')
    <3>1. \/ Serial!Ends(c, "in pbl")
          \/ \E pc \in {"ota", "app"} : c' = [c EXCEPT !.pc = pc, !.skipped = @ \cup Serial!Missing("version")]
      BY <1>13 DEF Serial!Locates
    <3> QED
      BY <3>1, <1>7, <1>11 DEF Statuses
  <2> QED
    BY <2>1, <2>2, <1>2, <1>8
<1>14. CASE Serial!FailsToOpen
  <2>1. c.pc \in {"start", "app", "ready", "ota"} /\ Serial!Upgrading /\ Free /\ Same(c')
    BY <1>14, <1>9, <1>11 DEF Serial!FailsToOpen
  <2> QED
    BY <2>1, <1>8
<1>15. CASE Serial!EntersUpgrade
  <2>1. Free /\ c' = [c EXCEPT !.pc = "mode"] /\ c.pc = "app"
    BY <1>15, <1>4, <1>10 DEF Serial!EntersUpgrade
  <2> QED
    BY <2>1, <1>2, <1>5, <1>8
<1>16. CASE Serial!Requests
  <2>1. c.pc = "mode" /\ Serial!Upgrading
    BY <1>16 DEF Serial!Requests
  <2>2. CASE Serial!Asks([sub |-> "large", type |-> 0], [c EXCEPT !.pc = "large"])
    <3>1. Free /\ c' = [c EXCEPT !.pc = "large"]
      BY <2>2, <1>3, <1>10
    <3> QED
      BY <3>1, <2>1, <1>5, <1>8
  <2>3. CASE Serial!Ends(c, "error") /\ UNCHANGED <<acks, orders>>
    BY <2>3, <2>1, <1>8, <1>9, <1>11
  <2> QED
    BY <2>2, <2>3, <1>16 DEF Serial!Requests
<1>17. CASE Serial!Requested
  <2>1. c.pc = "large" /\ Free
    BY <1>17, <1>9 DEF Serial!Requested
  <2>2. Same(c')
    <3>1. \/ c' = [c EXCEPT !.pc = "ota", !.skipped = @ \cup {"ready"}]
          \/ c' = [c EXCEPT !.pc = "ready"]
          \/ c' = [c EXCEPT !.pc = "ota", !.skipped = @ \cup {"ready"}, !.refusals = @ \cup {"three"}]
          \/ Serial!Ends(c, "error")
      BY <1>17 DEF Serial!Requested, Serial!MeansTimeout
    <3> QED
      BY <3>1, <1>5, <1>7, <1>11
  <2> QED
    BY <2>1, <2>2, <1>2, <1>8
<1>18. CASE Serial!Readies
  <2>1. c.pc = "ready" /\ Free
    BY <1>18, <1>9 DEF Serial!Readies
  <2>2. Same(c')
    <3>1. \/ Serial!Ends(c, "error")
          \/ c' = [c EXCEPT !.pc = "ota", !.skipped = @ \cup Serial!Missing("ready")]
      BY <1>18 DEF Serial!Readies
    <3> QED
      BY <3>1, <1>7, <1>11 DEF Statuses
  <2> QED
    BY <2>1, <2>2, <1>2, <1>8
<1> QED
  BY <1>12, <1>13, <1>14, <1>15, <1>16, <1>17, <1>18

\* A package is sent: nothing of an earlier one is left, if all have been accepted.
LEMMA PackageSent ==
  ASSUME SerialInv, Serial!Sends, UNCHANGED <<job, air, inPbl, written>>
  PROVE  SerialInv'
<1> DEFINE last == IF c.rest THEN Packages ELSE c.i
           r == [sub |-> "package", type |-> c.i, last |-> last]
           x == [c EXCEPT !.pc = "package"]
<1>1. c.pc = "ota" /\ Serial!Asks(r, x)
  BY DEF Serial!Sends
<1>2. SerialTypes /\ c \in Clients /\ c.refusals \subseteq {"three"}
  BY DEF SerialInv, SerialTypes
<1>3. Serial!Upgrading /\ UpgradeInv
  <2>1. job.kind \notin {"none", "queries"}
    BY <1>1 DEF SerialInv, QueriesInv
  <2> QED
    BY <2>1, <1>2, JobKinds DEF SerialInv, SerialTypes
<1>4. acks \in Seq(Acks) /\ air \in Seq(Acks) /\ orders \in Seq(Orders)
  BY <1>2 DEF SerialTypes
<1>5. c.i \in 1..Packages /\ last \in c.i..Packages
  BY <1>3, SerialAssumption DEF UpgradeInv
<1>6. r \in PackageOrders /\ r \in Orders /\ r.sub = "package" /\ r.type = c.i /\ r.last = last
  <2>1. c.i \in Nat /\ last \in Nat
    BY <1>5, SerialAssumption
  <2> HIDE DEF last
  <2> QED
    BY <2>1 DEF Orders, PackageOrders
<1> HIDE DEF last, r
<1>7. x \in Clients /\ x.i = c.i /\ x.rest = c.rest /\ x.unaccepted = c.unaccepted /\ x.refusals = c.refusals
      /\ x.pc = "package"
  BY <1>2 DEF Clients, Steps
<1> HIDE DEF x
<1>8. acks' = <<>> /\ orders' = Append(orders, r) /\ c' = x
  BY <1>1 DEF Serial!Asks
<1>9. SerialTypes'
  BY <1>1, <1>2, <1>6, <1>7, AsksTypes
<1>10. ASSUME c.unaccepted = {}
       PROVE  /\ OneWithin(PackageOrders, <<>>, air, Append(orders, r))
              /\ \A y \in PackageOrders : Within(y, <<>>, air, Append(orders, r)) => y = r
  <2>1. \A y \in PackageOrders : y \in Orders /\ ~Within(y, acks, air, orders)
    BY <1>1, <1>3, <1>10 DEF UpgradeInv, PackageOrders
  <2> DEFINE S == PackageOrders
  <2>2. \A y \in S : y \in Orders
    BY <2>1
  <2>3. \A y \in S : ~Within(y, acks, air, orders)
    BY <2>1
  <2> HIDE DEF S
  <2>4. \A y \in S : ~Within(y, <<>>, air, orders)
    BY <2>2, <2>3, <1>4, AcksDropped
  <2>5. NoneWithin(S, <<>>, air, orders)
    BY <2>4 DEF NoneWithin
  <2>6. OneWithin(S, <<>>, air, Append(orders, r))
    BY <2>5, <1>4, <1>6, RequestAsked
  <2>7. \A y \in Orders : Within(y, <<>>, air, Append(orders, r)) => Within(y, <<>>, air, orders) \/ y = r
    BY <1>4, <1>6, WithinAsked
  <2> QED
    BY <2>2, <2>4, <2>6, <2>7 DEF S
<1>11. UpgradeInv'
  <2>1. (\A k \in 1..Len(orders) : orders[k].sub = "package" =>
           orders[k].type \in 1..Packages /\ orders[k].last \in orders[k].type..Packages)'
    <3>1. \A k \in 1..Len(Append(orders, r)) :
            (k \in 1..Len(orders) /\ Append(orders, r)[k] = orders[k]) \/ Append(orders, r)[k] = r
      BY <1>4
    <3> QED
      BY <3>1, <1>3, <1>5, <1>6, <1>8 DEF UpgradeInv
  <2>2. Confirmed(acks)' /\ Confirmed(air)'
    <3>1. 1..Len(<<>>) = {}
      OBVIOUS
    <3> QED
      BY <3>1, <1>3, <1>8 DEF UpgradeInv, Confirmed
  <2>3. ASSUME c'.unaccepted = {}
        PROVE  /\ OneWithin(PackageOrders, acks', air', orders')
               /\ \A y \in PackageOrders :
                    Within(y, acks', air', orders') => c'.pc = "package" /\ y.type = c'.i
    <3>1. c.unaccepted = {} /\ air' = air /\ c'.pc = "package" /\ c'.i = r.type
      BY <2>3, <1>6, <1>7, <1>8
    <3> QED
      BY <3>1, <1>8, <1>10
  <2>4. (c.unaccepted = {} => OneWithin(PackageOrders, acks, air, orders)
                             /\ \A y \in PackageOrders :
                                  Within(y, acks, air, orders) => c.pc = "package" /\ y.type = c.i)'
    BY <2>3
  <2> QED
    BY <1>3, <1>7, <1>8, <2>1, <2>2, <2>4 DEF UpgradeInv
<1>12. Serial!Upgrading' /\ job'.kind \notin {"none", "queries"} /\ c'.refusals \subseteq {"three"}
  BY <1>2, <1>3, <1>7, <1>8, JobKinds DEF Serial!Upgrading
<1> QED
  BY <1>9, <1>11, <1>12 DEF SerialInv

\* A package is accepted only if it is the one that was sent, so that it is written, as long
\* as all have been accepted.
LEMMA PackageFinished ==
  ASSUME SerialInv, Serial!Continues, UNCHANGED <<job, air, inPbl, written>>
  PROVE  SerialInv'
<1> DEFINE ok == Serial!Accepted(Serial!First)
           fails == \/ Serial!Silence \/ ~Serial!Decodes(Serial!First, "package")
                    \/ (~ok /\ Serial!First.code # "zero")
           un == IF ok THEN c.unaccepted ELSE c.unaccepted \cup {Serial!First.status}
           seen == [c EXCEPT !.unaccepted = IF ok THEN @ ELSE @ \cup {Serial!First.status}]
<1>1. c.pc = "package" /\ orders' = orders /\ acks' = IF Serial!Silence THEN acks ELSE Tail(acks)
  BY DEF Serial!Continues
<1>2. SerialTypes /\ c \in Clients /\ c.refusals \subseteq {"three"}
  BY DEF SerialInv, SerialTypes
<1>3. Serial!Upgrading /\ UpgradeInv
  <2>1. job.kind \notin {"none", "queries"}
    BY <1>1 DEF SerialInv, QueriesInv
  <2> QED
    BY <2>1, <1>2, JobKinds DEF SerialInv, SerialTypes
<1>4. acks \in Seq(Acks) /\ air \in Seq(Acks) /\ orders \in Seq(Orders)
  BY <1>2 DEF SerialTypes
<1>5. /\ acks' \in Seq(Acks)
      /\ \A y \in Orders : Within(y, acks', air, orders) => Within(y, acks, air, orders)
      /\ OneWithin(PackageOrders, acks, air, orders) => OneWithin(PackageOrders, acks', air, orders)
      /\ Confirmed(acks')
  <2>1. CASE acks = <<>>
    BY <2>1, <1>1, <1>3, <1>4 DEF Serial!Silence, UpgradeInv
  <2>2. CASE acks # <<>>
    <3>1. acks' = Tail(acks)
      BY <2>2, <1>1 DEF Serial!Silence
    <3>2. \A k \in 1..Len(Tail(acks)) : Tail(acks)[k] = acks[k + 1] /\ k + 1 \in 1..Len(acks)
      BY <1>4, <2>2
    <3>3. Confirmed(Tail(acks))
      BY <3>2, <1>3 DEF UpgradeInv, Confirmed
    <3> DEFINE S == PackageOrders
    <3>4. /\ Tail(acks) \in Seq(Acks)
          /\ \A y \in Orders : Within(y, Tail(acks), air, orders) => Within(y, acks, air, orders)
          /\ OneWithin(S, acks, air, orders) => OneWithin(S, Tail(acks), air, orders)
      <4> HIDE DEF S
      <4> QED
        BY <1>4, <2>2, FirstTaken
    <3> QED
      BY <3>1, <3>3, <3>4
  <2> QED
    BY <2>1, <2>2
\* What is accepted is the package that is under way, if all have been accepted.
<1>6. ASSUME ~fails, ok, c.unaccepted = {}
      PROVE  c.i \in written /\ \A y \in PackageOrders : ~Within(y, acks', air, orders)
  <2>1. acks # <<>> /\ acks' = Tail(acks)
    BY <1>1, <1>6 DEF Serial!Silence
  <2>2. Head(acks) = acks[1] /\ 1 \in 1..Len(acks) /\ acks[1] \in Acks
    BY <1>4, <2>1
  <2>3. acks[1].to \in PackageOrders /\ acks[1].to.type \in written
    BY <2>2, <1>3, <1>6 DEF UpgradeInv, Confirmed, PackageOrders, Acks, Serial!Accepted, Serial!First
  <2> DEFINE S == PackageOrders
  <2>4. OneWithin(S, acks, air, orders) /\ Head(acks).to \in S
    BY <2>2, <2>3, <1>1, <1>3, <1>6 DEF UpgradeInv
  <2>5. NoneWithin(S, Tail(acks), air, orders) /\ Within(Head(acks).to, acks, air, orders)
    <3> HIDE DEF S
    <3> QED
      BY <2>1, <2>4, <1>4, FirstTaken
  <2>6. acks[1].to.type = c.i
    BY <2>2, <2>3, <2>5, <1>1, <1>3, <1>6 DEF UpgradeInv
  <2> QED
    BY <2>1, <2>3, <2>5, <2>6 DEF NoneWithin
<1>7. /\ seen = [c EXCEPT !.unaccepted = un]
      /\ ~fails => un \in SUBSET Statuses
      /\ un = {} <=> ok /\ c.unaccepted = {}
  <2>1. ~fails => Serial!First.status \in Statuses
    <3>1. acks # <<>> => Head(acks) \in Acks
      BY <1>4
    <3> QED
      BY <3>1 DEF Acks, Serial!First, Serial!Silence
  <2>2. c.unaccepted \in SUBSET Statuses
    BY <1>2 DEF Clients
  <2> QED
    BY <2>1, <2>2
<1>8. c.i \in Nat /\ c.rest \in BOOLEAN
  BY <1>2 DEF Clients
<1>9. Serial!Upgrading' /\ job'.kind \notin {"none", "queries"} /\ UNCHANGED <<job, air, inPbl, written>>
  BY <1>3, JobKinds DEF Serial!Upgrading
\* It is enough to look at what becomes of the client.
<1>10. ASSUME c' \in Clients, c'.pc \in {"ota", "end"}, c'.refusals = c.refusals,
              c'.i \in 1..Packages, ~c'.rest => c'.i < Packages /\ c'.unaccepted = {},
              1..(c'.i - 1) \subseteq written,
              c'.unaccepted = {} =>
                /\ c'.rest => c'.i = Packages
                /\ c'.pc # "end" => c.unaccepted = {} /\ \A y \in PackageOrders : ~Within(y, acks', air, orders)
                /\ c'.pc = "end" /\ c'.ret = "zero" => written = 1..Packages
       PROVE  SerialInv'
  <2>1. SerialTypes'
    BY <1>1, <1>2, <1>5, <1>9, <1>10 DEF SerialTypes
  <2>2. Confirmed(acks)' /\ Confirmed(air)'
    BY <1>3, <1>5, <1>9 DEF UpgradeInv, Confirmed
  <2>3. c.unaccepted = {} => OneWithin(PackageOrders, acks', air', orders')
    BY <1>1, <1>3, <1>5, <1>9 DEF UpgradeInv
  <2>4. ASSUME c'.unaccepted = {}, c'.pc # "end"
        PROVE  /\ OneWithin(PackageOrders, acks', air', orders')
               /\ \A y \in PackageOrders : ~Within(y, acks', air', orders')
    BY <2>3, <2>4, <1>1, <1>9, <1>10
  <2>5. (c.unaccepted = {} => (c.pc # "end" =>
           /\ OneWithin(PackageOrders, acks, air, orders)
           /\ \A y \in PackageOrders : Within(y, acks, air, orders) => c.pc = "package" /\ y.type = c.i))'
    BY <2>4
  <2>6. (\A k \in 1..Len(orders) : orders[k].sub = "package" =>
           orders[k].type \in 1..Packages /\ orders[k].last \in orders[k].type..Packages)'
    BY <1>1, <1>3 DEF UpgradeInv
  <2>7. UpgradeInv'
    BY <1>3, <1>9, <1>10, <2>2, <2>5, <2>6 DEF UpgradeInv
  <2> QED
    BY <2>1, <2>7, <1>2, <1>9, <1>10 DEF SerialInv
<1>11. CASE fails
  <2>1. c' = [c EXCEPT !.pc = "end", !.ret = "error"]
    BY <1>11 DEF Serial!Continues, Serial!Ends
  <2>2. c' \in Clients
    BY <2>1, <1>2 DEF Clients, Steps
  <2>3. c'.pc = "end" /\ c'.ret = "error" /\ c'.i = c.i /\ c'.rest = c.rest /\ c'.unaccepted = c.unaccepted
        /\ c'.refusals = c.refusals
    BY <2>1, <1>2 DEF Clients
  <2> QED
    BY <2>2, <2>3, <1>3, <1>10 DEF UpgradeInv
<1>12. CASE ~fails /\ c.rest
  <2>1. c' = [seen EXCEPT !.pc = "end", !.ret = "zero"]
    BY <1>12 DEF Serial!Continues, Serial!Ends
  <2> HIDE DEF un, seen, ok, fails
  <2>2. c' \in Clients
    BY <2>1, <1>2, <1>7, <1>12 DEF Clients, Steps
  <2>3. c'.pc = "end" /\ c'.ret = "zero" /\ c'.i = c.i /\ c'.rest = c.rest /\ c'.unaccepted = un
        /\ c'.refusals = c.refusals
    BY <2>1, <1>2, <1>7 DEF Clients
  <2>4. ASSUME un = {}
        PROVE  c.i = Packages /\ written = 1..Packages
    <3>1. ok /\ c.unaccepted = {}
      BY <2>4, <1>7
    <3>2. c.i \in written
      BY <3>1, <1>6, <1>12
    <3>3. c.i = Packages /\ 1..(c.i - 1) \subseteq written /\ written \subseteq 1..Packages
      BY <3>1, <1>3, <1>12 DEF UpgradeInv
    <3>4. 1..Packages = 1..(Packages - 1) \cup {Packages}
      BY SerialAssumption
    <3> QED
      BY <3>2, <3>3, <3>4
  <2>5. c.i \in 1..Packages /\ 1..(c.i - 1) \subseteq written
    BY <1>3 DEF UpgradeInv
  <2> QED
    BY <2>2, <2>3, <2>4, <2>5, <1>10, <1>12
<1>13. CASE ~fails /\ ~c.rest
  <2> DEFINE n == IF ok THEN c.i + 1 ELSE c.i
             m == ~ok \/ c.i + 1 = Packages
  <2>1. c' = [seen EXCEPT !.pc = "ota", !.i = n, !.rest = m]
    BY <1>7, <1>8, <1>13 DEF Serial!Continues
  <2>2. n \in Nat /\ m \in BOOLEAN
    BY <1>8
  <2>3. c.i \in 1..Packages /\ c.i < Packages /\ 1..(c.i - 1) \subseteq written /\ c.unaccepted = {}
    BY <1>3, <1>13 DEF UpgradeInv
  <2>4. /\ n \in 1..Packages
        /\ ~m => n < Packages
        /\ ok /\ m => n = Packages
        /\ ~m => ok
    BY <2>3, <1>8, SerialAssumption
  <2>5. n = IF ok THEN c.i + 1 ELSE c.i
    OBVIOUS
  <2> HIDE DEF un, seen, ok, fails, n, m
  <2>6. c' \in Clients
    BY <2>1, <2>2, <1>2, <1>7, <1>13 DEF Clients, Steps
  <2>7. c'.pc = "ota" /\ c'.i = n /\ c'.rest = m /\ c'.unaccepted = un /\ c'.refusals = c.refusals
    BY <2>1, <1>2, <1>7 DEF Clients
  <2>8. ok => c.i \in written /\ \A y \in PackageOrders : ~Within(y, acks', air, orders)
    BY <2>3, <1>6, <1>13
  <2>9. 1..(n - 1) \subseteq written
    <3>1. ok => 1..(n - 1) = 1..(c.i - 1) \cup {c.i}
      BY <2>3, <2>5, <1>8
    <3> QED
      BY <3>1, <2>3, <2>5, <2>8
  <2>10. un = {} <=> ok
    BY <2>3, <1>7
  <2> QED
    BY <2>3, <2>4, <2>6, <2>7, <2>8, <2>9, <2>10, <1>10
<1> QED
  BY <1>11, <1>12, <1>13

-----------------------------------------------------------------------------
(***************************************************************************)
(* The lidar and ReceivedThread                                             *)
(***************************************************************************)
\* What the lidar makes of a request is in the line in its place, and it has written no
\* package that it has not accepted.
LEMMA LineMoves ==
  ASSUME SerialInv, UNCHANGED <<job, c>>, SerialTypes',
         written \subseteq written', Serial!Upgrading => written' \subseteq 1..Packages,
         \A k \in 1..Len(orders') : \E j \in 1..Len(orders) : orders'[k] = orders[j],
         Serial!Upgrading => Confirmed(acks)' /\ Confirmed(air)',
         \A r \in Orders : Within(r, acks', air', orders') => Within(r, acks, air, orders),
         job.kind = "queries" /\ OneWithin(Live(c.failed), acks, air, orders) =>
           OneWithin(Live(c.failed), acks', air', orders'),
         Serial!Upgrading /\ OneWithin(PackageOrders, acks, air, orders) =>
           OneWithin(PackageOrders, acks', air', orders')
  PROVE  SerialInv'
<1>1. ASSUME job.kind = "queries" PROVE QueriesInv'
  <2>1. QueriesInv
    BY <1>1 DEF SerialInv
  <2>2. (\A r \in Live(c.failed) : Within(r, acks, air, orders) => c.pc = "query" /\ r = job.list[c.i])'
    BY <2>1 DEF QueriesInv, Live
  <2>3. OneWithin(Live(c.failed), acks, air, orders)'
    BY <2>1, <1>1 DEF QueriesInv
  <2>4. (\A k \in 1..Len(orders) : orders[k].sub \in Kinds \cup {"mode"})'
    BY <2>1 DEF QueriesInv
  <2>5. Serial!AnswerIsOwn'
    BY <2>1 DEF QueriesInv, Serial!AnswerIsOwn
  <2> QED
    BY <2>1, <2>2, <2>3, <2>4, <2>5 DEF QueriesInv
<1>2. ASSUME Serial!Upgrading PROVE UpgradeInv'
  <2>1. UpgradeInv
    BY <1>2 DEF SerialInv
  <2>2. (\A k \in 1..Len(orders) : orders[k].sub = "package" =>
           orders[k].type \in 1..Packages /\ orders[k].last \in orders[k].type..Packages)'
    BY <2>1 DEF UpgradeInv
  <2>3. ASSUME c.unaccepted = {}, c.pc # "end"
        PROVE  /\ OneWithin(PackageOrders, acks', air', orders')
               /\ \A r \in PackageOrders : Within(r, acks', air', orders') => c.pc = "package" /\ r.type = c.i
    BY <2>1, <2>3, <1>2 DEF UpgradeInv, PackageOrders
  <2>4. (c.unaccepted = {} => (c.pc # "end" =>
           /\ OneWithin(PackageOrders, acks, air, orders)
           /\ \A r \in PackageOrders : Within(r, acks, air, orders) => c.pc = "package" /\ r.type = c.i))'
    BY <2>3
  <2>5. (/\ 1..(c.i - 1) \subseteq written
         /\ ~c.rest => c.unaccepted = {}
         /\ c.unaccepted = {} =>
              /\ c.rest => c.i = Packages
              /\ c.pc = "end" /\ c.ret = "zero" => written = 1..Packages)'
    BY <2>1, <1>2 DEF UpgradeInv
  <2>6. Confirmed(acks)' /\ Confirmed(air)'
    BY <1>2 DEF Confirmed
  <2> QED
    BY <2>1, <2>2, <2>4, <2>5, <2>6, <1>2 DEF UpgradeInv
<1>3. Serial!Upgrading' => Serial!Upgrading
  BY DEF Serial!Upgrading
<1> QED
  BY <1>1, <1>2, <1>3 DEF SerialInv

LEMMA RequestIgnored ==
  ASSUME SerialInv, Serial!Ignores, UNCHANGED <<job, c, port>>
  PROVE  SerialInv'
<1>1. SerialTypes /\ acks \in Seq(Acks) /\ air \in Seq(Acks) /\ orders \in Seq(Orders)
  BY DEF SerialInv, SerialTypes
<1>2. orders # <<>> /\ orders' = Tail(orders) /\ UNCHANGED <<acks, air, inPbl, written, job, c>>
  BY DEF Serial!Ignores
<1>3. SerialTypes'
  BY <1>1, <1>2 DEF SerialTypes
<1>4. \A k \in 1..Len(orders') : \E j \in 1..Len(orders) : orders'[k] = orders[j]
  <2>1. \A k \in 1..Len(Tail(orders)) : Tail(orders)[k] = orders[k + 1] /\ k + 1 \in 1..Len(orders)
    BY <1>1, <1>2
  <2> QED
    BY <2>1, <1>2
<1>5. \A S : OneWithin(S, acks, air, orders) => OneWithin(S, acks, air, Tail(orders))
  BY <1>1, <1>2, OrderLost
<1>6. \A r \in Orders : Within(r, acks, air, Tail(orders)) => Within(r, acks, air, orders)
  BY <1>1, <1>2, OrderLost
<1>7. Serial!Upgrading => UpgradeInv
  BY DEF SerialInv
<1>8. Serial!Upgrading => written' \subseteq 1..Packages /\ Confirmed(acks)' /\ Confirmed(air)'
  BY <1>2, <1>7 DEF UpgradeInv, Confirmed
<1> QED
  BY <1>2, <1>3, <1>4, <1>5, <1>6, <1>8, LineMoves

LEMMA AckReceived ==
  ASSUME SerialInv, Serial!Receives, UNCHANGED <<job, c, port>>
  PROVE  SerialInv'
<1>1. SerialTypes /\ acks \in Seq(Acks) /\ air \in Seq(Acks) /\ orders \in Seq(Orders)
  BY DEF SerialInv, SerialTypes
<1>2. /\ air # <<>> /\ air' = Tail(air) /\ acks' \in {acks, Append(acks, Head(air))}
      /\ UNCHANGED <<orders, inPbl, written, job, c>>
  BY DEF Serial!Receives
<1>3. /\ Tail(air) \in Seq(Acks) /\ acks' \in Seq(Acks)
      /\ \A S : OneWithin(S, acks, air, orders) => OneWithin(S, acks', Tail(air), orders)
      /\ \A r \in Orders : Within(r, acks', Tail(air), orders) => Within(r, acks, air, orders)
  <2>1. acks' \in {acks, Append(acks, Head(air))} /\ air # <<>>
    BY <1>2
  <2>2. ASSUME NEW S
        PROVE  \A b \in {acks, Append(acks, Head(air))} :
                 /\ Tail(air) \in Seq(Acks) /\ b \in Seq(Acks)
                 /\ OneWithin(S, acks, air, orders) => OneWithin(S, b, Tail(air), orders)
                 /\ \A r \in Orders : Within(r, b, Tail(air), orders) => Within(r, acks, air, orders)
    BY <2>1, <1>1, AckArrives, ZenonT(30)
  <2> QED
    BY <2>1, <2>2
<1>4. SerialTypes'
  BY <1>1, <1>2, <1>3 DEF SerialTypes
<1>5. ASSUME Serial!Upgrading PROVE written' \subseteq 1..Packages /\ Confirmed(acks)' /\ Confirmed(air)'
  <2>1. UpgradeInv
    BY <1>5 DEF SerialInv
  <2>2. \A k \in 1..Len(Tail(air)) : Tail(air)[k] = air[k + 1] /\ k + 1 \in 1..Len(air)
    BY <1>1, <1>2
  <2>3. Confirmed(Tail(air))
    BY <2>1, <2>2 DEF UpgradeInv, Confirmed
  <2>4. Head(air) = air[1] /\ 1 \in 1..Len(air)
    BY <1>1, <1>2
  <2>5. \A k \in 1..Len(Append(acks, Head(air))) :
          \/ k \in 1..Len(acks) /\ Append(acks, Head(air))[k] = acks[k]
          \/ Append(acks, Head(air))[k] = air[1]
    BY <1>1, <2>4
  <2>6. Confirmed(Append(acks, Head(air)))
    BY <2>1, <2>4, <2>5 DEF UpgradeInv, Confirmed
  <2>7. Confirmed(acks)' /\ Confirmed(air)'
    BY <2>1, <2>3, <2>6, <1>2 DEF UpgradeInv, Confirmed
  <2> QED
    BY <2>1, <2>7, <1>2 DEF UpgradeInv
<1>6. \A k \in 1..Len(orders') : \E j \in 1..Len(orders) : orders'[k] = orders[j]
  BY <1>2
<1> QED
  BY <1>2, <1>3, <1>4, <1>5, <1>6, LineMoves

LEMMA AnsweredOnce ==
  ASSUME SerialInv, UNCHANGED <<job, c, port, acks>>, orders # <<>>, orders' = Tail(orders),
         NEW k \in Acks, k.to = Head(orders), air' = Append(air, k), inPbl' \in BOOLEAN,
         written \subseteq written', Serial!Upgrading => written' \subseteq 1..Packages,
         Serial!Upgrading /\ k.status = "accepted" => k.to.sub = "package" /\ k.to.type \in written'
  PROVE  SerialInv'
<1>1. SerialTypes /\ acks \in Seq(Acks) /\ air \in Seq(Acks) /\ orders \in Seq(Orders)
  BY DEF SerialInv, SerialTypes
<1>2. Tail(orders) \in Seq(Orders) /\ Append(air, k) \in Seq(Acks)
  BY <1>1
<1>3. SerialTypes'
  BY <1>1, <1>2 DEF SerialTypes
<1>4. \A S : OneWithin(S, acks, air, orders) => OneWithin(S, acks, Append(air, k), Tail(orders))
  BY <1>1, OrderAnswered
<1>5. \A r \in Orders : Within(r, acks, Append(air, k), Tail(orders)) => Within(r, acks, air, orders)
  BY <1>1, OrderAnswered
<1>6. \A i \in 1..Len(orders') : \E j \in 1..Len(orders) : orders'[i] = orders[j]
  <2>1. \A i \in 1..Len(Tail(orders)) : Tail(orders)[i] = orders[i + 1] /\ i + 1 \in 1..Len(orders)
    BY <1>1
  <2> QED
    BY <2>1
<1>7. ASSUME Serial!Upgrading PROVE Confirmed(acks)' /\ Confirmed(air)'
  <2>1. UpgradeInv
    BY <1>7 DEF SerialInv
  <2>2. \A i \in 1..Len(Append(air, k)) :
          (i \in 1..Len(air) /\ Append(air, k)[i] = air[i]) \/ Append(air, k)[i] = k
    BY <1>1
  <2> QED
    BY <2>1, <2>2, <1>7 DEF UpgradeInv, Confirmed
<1> QED
  BY <1>3, <1>4, <1>5, <1>6, <1>7, LineMoves

LEMMA AnsweredTwice ==
  ASSUME SerialInv, UNCHANGED <<job, c, port, acks, written>>, orders # <<>>, orders' = Tail(orders),
         Head(orders).sub = "large",
         NEW k \in Acks, NEW l \in Acks, k.to = Head(orders), l.to = Head(orders),
         air' = air \o <<k, l>>, inPbl' \in BOOLEAN, k.status # "accepted", l.status # "accepted"
  PROVE  SerialInv'
<1>1. SerialTypes /\ acks \in Seq(Acks) /\ air \in Seq(Acks) /\ orders \in Seq(Orders)
  BY DEF SerialInv, SerialTypes
<1>2. Tail(orders) \in Seq(Orders) /\ air \o <<k, l>> \in Seq(Acks)
  BY <1>1
<1>3. SerialTypes'
  BY <1>1, <1>2 DEF SerialTypes
<1>4. Head(orders) \notin PackageOrders /\ job.kind # "queries"
  <2>1. Head(orders) = orders[1] /\ 1 \in 1..Len(orders)
    BY <1>1
  <2>2. job.kind = "queries" => Head(orders).sub \in Kinds \cup {"mode"}
    BY <2>1 DEF SerialInv, QueriesInv
  <2> QED
    BY <2>2 DEF PackageOrders, Kinds
<1>5. OneWithin(PackageOrders, acks, air, orders) => OneWithin(PackageOrders, acks, air \o <<k, l>>, Tail(orders))
  <2> DEFINE S == PackageOrders
  <2>1. Head(orders) \notin S
    BY <1>4
  <2> HIDE DEF S
  <2>2. OneWithin(S, acks, air, orders) => OneWithin(S, acks, air \o <<k, l>>, Tail(orders))
    BY <2>1, <1>1, OrderAnsweredTwice
  <2> QED
    BY <2>2 DEF S
<1>6. \A r \in Orders : Within(r, acks, air \o <<k, l>>, Tail(orders)) => Within(r, acks, air, orders)
  <2>1. Head(orders) \notin {}
    OBVIOUS
  <2> QED
    BY <2>1, <1>1, <1>4, OrderAnsweredTwice
<1>7. \A i \in 1..Len(orders') : \E j \in 1..Len(orders) : orders'[i] = orders[j]
  <2>1. \A i \in 1..Len(Tail(orders)) : Tail(orders)[i] = orders[i + 1] /\ i + 1 \in 1..Len(orders)
    BY <1>1
  <2> QED
    BY <2>1
<1>8. ASSUME Serial!Upgrading PROVE Confirmed(acks)' /\ Confirmed(air)' /\ written' \subseteq 1..Packages
  <2>1. UpgradeInv
    BY <1>8 DEF SerialInv
  <2>2. \A i \in 1..Len(air \o <<k, l>>) :
          (i \in 1..Len(air) /\ (air \o <<k, l>>)[i] = air[i]) \/ (air \o <<k, l>>)[i] \in {k, l}
    BY <1>1
  <2> QED
    BY <2>1, <2>2 DEF UpgradeInv, Confirmed
<1> QED
  BY <1>3, <1>4, <1>5, <1>6, <1>7, <1>8, LineMoves

LEMMA LidarAnswers ==
  ASSUME SerialInv, Serial!Answers, UNCHANGED <<job, c, port>>
  PROVE  SerialInv'
<1> DEFINE r == Head(orders)
<1>1. SerialTypes /\ orders \in Seq(Orders) /\ inPbl \in BOOLEAN
  BY DEF SerialInv, SerialTypes
<1>2. orders # <<>> /\ orders' = Tail(orders) /\ acks' = acks
  BY DEF Serial!Answers
<1>3. r \in Orders /\ r = orders[1] /\ 1 \in 1..Len(orders)
  BY <1>1, <1>2
<1> HIDE DEF r
<1>4. ASSUME NEW kind \in {"ota", "cmd"}, NEW status \in Statuses,
             NEW code \in Codes
      PROVE  /\ Serial!Ack(r, kind, status, code) \in Acks
             /\ Serial!Ack(r, kind, status, code).to = r
             /\ Serial!Ack(r, kind, status, code).status = status
  <2>1. (r.sub = "pbl" /\ inPbl) \in BOOLEAN
    BY <1>1
  <2> QED
    BY <2>1, <1>3 DEF Serial!Ack, Acks
<1>5. Serial!Upgrading => written \subseteq 1..Packages
  BY DEF SerialInv, UpgradeInv
\* One acknowledgement that confirms nothing.
<1>6. ASSUME NEW kind \in {"ota", "cmd"}, NEW status \in {"version", "none", "ready", "refused"},
             NEW code \in Codes, air' = Append(air, Serial!Ack(r, kind, status, code)),
             UNCHANGED <<inPbl, written>>
      PROVE  SerialInv'
  <2> DEFINE k == Serial!Ack(r, kind, status, code)
  <2>1. k \in Acks /\ k.to = Head(orders) /\ k.status # "accepted"
    BY <1>4 DEF r, Statuses
  <2>2. air' = Append(air, k)
    BY <1>6
  <2> HIDE DEF k
  <2> QED
    BY <2>1, <2>2, <1>1, <1>2, <1>5, <1>6, AnsweredOnce
<1>7. CASE r.sub = "pbl"
  <2>1. air' = Append(air, Serial!Ack(r, "ota", "version", "zero")) /\ UNCHANGED <<inPbl, written>>
    BY <1>7 DEF Serial!Answers, r
  <2> QED
    BY <2>1, <1>6 DEF Codes
<1>8. CASE r.sub = "large"
  <2> DEFINE k == Serial!Ack(r, "cmd", "none", "zero")
             l == Serial!Ack(r, "ota", "ready", "zero")
  <2>1. \/ air' = air \o <<k, l>> /\ inPbl' = TRUE /\ UNCHANGED written
        \/ \E code \in {"three", "other"} : /\ air' = Append(air, Serial!Ack(r, "cmd", "none", code))
                                            /\ UNCHANGED <<inPbl, written>>
    BY <1>8 DEF Serial!Answers, r
  <2>2. /\ k \in Acks /\ k.to = Head(orders) /\ k.status # "accepted"
        /\ l \in Acks /\ l.to = Head(orders) /\ l.status # "accepted"
    BY <1>4 DEF r, Codes, Statuses
  <2> HIDE DEF k, l
  <2>3. Head(orders).sub = "large"
    BY <1>8 DEF r
  <2> QED
    BY <2>1, <2>2, <2>3, <1>2, <1>6, AnsweredTwice DEF Codes
<1>9. CASE r.sub = "package"
  <2> DEFINE k == Serial!Ack(r, "ota", "accepted", "zero")
  <2>1. \/ /\ air' = Append(air, k)
           /\ written' \in {written \cup {r.type}, written \cup (r.type .. r.last)}
           /\ UNCHANGED inPbl
        \/ \E code \in {"zero", "other"} : /\ air' = Append(air, Serial!Ack(r, "ota", "refused", code))
                                           /\ UNCHANGED <<inPbl, written>>
    BY <1>9 DEF Serial!Answers, r
  <2>2. k \in Acks /\ k.to = Head(orders) /\ k.to = r
    BY <1>4 DEF r, Codes, Statuses
  <2> HIDE DEF k
  <2>3. ASSUME air' = Append(air, k), UNCHANGED inPbl,
               written' \in {written \cup {r.type}, written \cup (r.type .. r.last)}
        PROVE  SerialInv'
    <3>1. ASSUME Serial!Upgrading PROVE r.type \in 1..Packages /\ r.last \in r.type..Packages
      BY <3>1, <1>3, <1>9 DEF SerialInv, UpgradeInv
    <3>2. r.type \in Nat /\ r.last \in Nat
      BY <1>3, <1>9 DEF Orders, Kinds
    <3>3. written \subseteq written'
      BY <2>3
    <3>4. Serial!Upgrading => written' \subseteq 1..Packages
      BY <2>3, <3>1, <3>2, <1>5, SerialAssumption
    <3>5. Serial!Upgrading => r.type \in written'
      BY <2>3, <3>1, <3>2, SerialAssumption
    <3> QED
      BY <2>2, <2>3, <3>3, <3>4, <3>5, <1>1, <1>2, <1>9, AnsweredOnce
  <2> QED
    BY <2>1, <2>3, <1>6 DEF Codes
<1>10. CASE r.sub \notin {"pbl", "large", "package"}
  <2>1. PICK code \in {"zero", "other"} : /\ air' = Append(air, Serial!Ack(r, "cmd", "none", code))
                                          /\ UNCHANGED <<inPbl, written>>
    BY <1>10 DEF Serial!Answers, r
  <2> QED
    BY <2>1, <1>6 DEF Codes
<1> QED
  BY <1>7, <1>8, <1>9, <1>10

LEMMA SerialStep == SerialInv /\ [Serial!Next]_serialVars => SerialInv'
<1> SUFFICES ASSUME SerialInv, [Serial!Next]_serialVars PROVE SerialInv'
  OBVIOUS
<1>1. CASE Serial!ClientStep
  BY <1>1, ModeChanged, QueryAsked, ModeChangedBack, QueryReturned, UpgradeSteps, PackageSent, PackageFinished
     DEF Serial!ClientStep
<1>2. CASE (Serial!Answers \/ Serial!Ignores \/ Serial!Receives) /\ UNCHANGED <<job, c, port>>
  BY <1>2, LidarAnswers, RequestIgnored, AckReceived
<1>3. CASE UNCHANGED serialVars
  BY <1>3 DEF serialVars, SerialInv, SerialTypes, QueriesInv, UpgradeInv, Serial!AnswerIsOwn, Serial!Upgrading,
              Confirmed, Live
<1> QED
  BY <1>1, <1>2, <1>3 DEF Serial!Next

-----------------------------------------------------------------------------
(***************************************************************************)
(* The announcements of the boot loader's version and of readiness: one that *)
(* its own step has taken does not come again.                              *)
(***************************************************************************)
\* The request that makes the lidar announce something.
Cause(s) == IF s = "version" THEN "pbl" ELSE "large"

\* The announcement is not in the line, and no request for it.
Gone(s, a, w, o) ==
  /\ \A i \in 1..Len(a) : a[i].status # s
  /\ \A i \in 1..Len(w) : w[i].status # s
  /\ \A i \in 1..Len(o) : o[i].sub # Cause(s)

\* If it is in the line, it comes after everything else, and so there is only one.
ComesLast(s, a, w, o) ==
  /\ \A i \in 1..Len(a) : a[i].status = s => i = Len(a) /\ Len(w) = 0 /\ Len(o) = 0
  /\ \A i \in 1..Len(w) : w[i].status = s => i = Len(w) /\ Len(o) = 0
  /\ \A i \in 1..Len(o) : o[i].sub = Cause(s) => i = Len(o)

\* What the lidar says about an upgrade is one of its announcements or is about a package.
Spoken(a) == \A k \in 1..Len(a) : a[k].kind = "ota" => a[k].status # "none"

Announcements == {"version", "ready"}
VersionInv ==
  /\ c.pc = "start" => Gone("version", acks, air, orders)
  /\ c.pc = "pbl" => ComesLast("version", acks, air, orders)
  /\ c.pc \notin {"start", "pbl", "end"} /\ "version" \notin c.skipped => Gone("version", acks, air, orders)
ReadyInv ==
  /\ c.pc \in {"start", "pbl", "app", "mode"} => Gone("ready", acks, air, orders)
  /\ c.pc \in {"large", "ready"} => ComesLast("ready", acks, air, orders)
  /\ c.pc \in {"ota", "package"} /\ "ready" \notin c.skipped => Gone("ready", acks, air, orders)
AnnounceInv ==
  Serial!Upgrading => /\ Spoken(acks) /\ Spoken(air)
                      /\ VersionInv /\ ReadyInv
                      /\ c.unaccepted \subseteq {"refused"} \cup c.skipped

LEMMA GoneComesLast ==
  ASSUME NEW s, NEW a, NEW w, NEW o, Gone(s, a, w, o) PROVE ComesLast(s, a, w, o)
BY DEF Gone, ComesLast

LEMMA AnnouncementIgnored ==
  ASSUME NEW s, NEW a \in Seq(Acks), NEW w \in Seq(Acks), NEW o \in Seq(Orders), o # <<>>
  PROVE  /\ Gone(s, a, w, o) => Gone(s, a, w, Tail(o))
         /\ ComesLast(s, a, w, o) => ComesLast(s, a, w, Tail(o))
<1> DEFINE u == Tail(o)
<1>1. Len(u) = Len(o) - 1 /\ \A i \in 1..Len(u) : u[i] = o[i + 1] /\ i + 1 \in 1..Len(o)
  OBVIOUS
<1>2. Len(o) \in Nat /\ Len(o) > 0
  OBVIOUS
<1> HIDE DEF u
<1>3. Gone(s, a, w, o) => Gone(s, a, w, u)
  BY <1>1 DEF Gone
<1>4. ASSUME ComesLast(s, a, w, o) PROVE ComesLast(s, a, w, u)
  <2>1. ASSUME NEW i \in 1..Len(u), u[i].sub = Cause(s) PROVE i = Len(u)
    <3>1. i + 1 = Len(o)
      BY <1>1, <1>4, <2>1 DEF ComesLast
    <3> QED
      BY <3>1, <1>1, <1>2
  <2> QED
    BY <2>1, <1>2, <1>4 DEF ComesLast
<1> QED
  BY <1>3, <1>4 DEF u

\* The lidar answers once or twice; only the last that it says may be the announcement, and
\* only if the request is the one for it.
LEMMA AnnouncementMade ==
  ASSUME NEW s, NEW a \in Seq(Acks), NEW w \in Seq(Acks), NEW o \in Seq(Orders), o # <<>>,
         NEW v \in Seq(Acks), Len(v) > Len(w),
         \A i \in 1..Len(v) : \/ i \in 1..Len(w) /\ v[i] = w[i]
                              \/ i > Len(w) /\ (v[i].status = s => i = Len(v) /\ Head(o).sub = Cause(s))
  PROVE  /\ Gone(s, a, w, o) => Gone(s, a, v, Tail(o))
         /\ ComesLast(s, a, w, o) => ComesLast(s, a, v, Tail(o))
<1> DEFINE u == Tail(o)
<1>1. Len(u) = Len(o) - 1 /\ \A i \in 1..Len(u) : u[i] = o[i + 1] /\ i + 1 \in 1..Len(o)
  OBVIOUS
<1>2. Len(o) \in Nat /\ Len(o) > 0 /\ 1 \in 1..Len(o) /\ Head(o) = o[1] /\ Len(w) \in Nat /\ Len(v) \in Nat
  OBVIOUS
<1> HIDE DEF u
<1>3. ASSUME Gone(s, a, w, o) PROVE Gone(s, a, v, u)
  <2>1. \A i \in 1..Len(v) : v[i].status # s
    BY <1>2, <1>3 DEF Gone
  <2> QED
    BY <2>1, <1>1, <1>3 DEF Gone
<1>4. ASSUME ComesLast(s, a, w, o) PROVE ComesLast(s, a, v, u)
  <2>1. ASSUME NEW i \in 1..Len(u), u[i].sub = Cause(s) PROVE i = Len(u)
    <3>1. i + 1 = Len(o)
      BY <1>1, <1>4, <2>1 DEF ComesLast
    <3> QED
      BY <3>1, <1>1, <1>2
  <2>2. ASSUME NEW i \in 1..Len(v), v[i].status = s PROVE i = Len(v) /\ Len(u) = 0
    <3>1. i \notin 1..Len(w) \/ v[i] # w[i]
      BY <1>2, <1>4, <2>2 DEF ComesLast
    <3>2. i = Len(v) /\ Head(o).sub = Cause(s)
      BY <3>1, <2>2
    <3>3. 1 = Len(o)
      BY <3>2, <1>2, <1>4 DEF ComesLast
    <3> QED
      BY <3>2, <3>3, <1>1
  <2>3. \A i \in 1..Len(a) : a[i].status # s
    BY <1>2, <1>4 DEF ComesLast
  <2> QED
    BY <2>1, <2>2, <2>3 DEF ComesLast
<1> QED
  BY <1>3, <1>4 DEF u

LEMMA AnnouncementArrives ==
  ASSUME NEW s, NEW a \in Seq(Acks), NEW w \in Seq(Acks), NEW o \in Seq(Orders), w # <<>>,
         NEW b \in {a, Append(a, Head(w))}
  PROVE  /\ Gone(s, a, w, o) => Gone(s, b, Tail(w), o)
         /\ ComesLast(s, a, w, o) => ComesLast(s, b, Tail(w), o)
<1> DEFINE u == Tail(w)
<1>1. Len(u) = Len(w) - 1 /\ \A i \in 1..Len(u) : u[i] = w[i + 1] /\ i + 1 \in 1..Len(w)
  OBVIOUS
<1>2. Len(w) \in Nat /\ Len(w) > 0 /\ 1 \in 1..Len(w) /\ Head(w) = w[1] /\ Len(a) \in Nat
  OBVIOUS
<1>3. \A i \in 1..Len(b) : (i \in 1..Len(a) /\ b[i] = a[i]) \/ (i = Len(b) /\ b[i] = w[1])
  <2>1. CASE b = a
    BY <2>1
  <2>2. CASE b = Append(a, Head(w))
    BY <2>2, <1>2
  <2> QED
    BY <2>1, <2>2
<1> HIDE DEF u
<1>4. Gone(s, a, w, o) => Gone(s, b, u, o)
  BY <1>1, <1>2, <1>3 DEF Gone
<1>5. ASSUME ComesLast(s, a, w, o) PROVE ComesLast(s, b, u, o)
  <2>1. ASSUME NEW i \in 1..Len(u), u[i].status = s PROVE i = Len(u) /\ Len(o) = 0
    <3>1. i + 1 = Len(w) /\ Len(o) = 0
      BY <1>1, <1>5, <2>1 DEF ComesLast
    <3> QED
      BY <3>1, <1>1, <1>2
  <2>2. ASSUME NEW i \in 1..Len(b), b[i].status = s PROVE i = Len(b) /\ Len(u) = 0 /\ Len(o) = 0
    <3>1. i = Len(b) /\ w[1].status = s
      BY <1>2, <1>3, <1>5, <2>2 DEF ComesLast
    <3>2. 1 = Len(w) /\ Len(o) = 0
      BY <3>1, <1>2, <1>5 DEF ComesLast
    <3> QED
      BY <3>1, <3>2, <1>1
  <2> QED
    BY <2>1, <2>2, <1>5 DEF ComesLast
<1> QED
  BY <1>4, <1>5 DEF u

\* The client empties the buffer: the announcement still comes last, or it was the first in
\* the buffer and is gone.
LEMMA AnnouncementWaits ==
  ASSUME NEW s, NEW a, NEW w, NEW o PROVE ComesLast(s, a, w, o) => ComesLast(s, <<>>, w, o)
<1> DEFINE e == <<>>
<1>1. 1..Len(e) = {}
  OBVIOUS
<1> HIDE DEF e
<1>2. ComesLast(s, a, w, o) => ComesLast(s, e, w, o)
  BY <1>1 DEF ComesLast
<1> QED
  BY <1>2 DEF e

LEMMA AnnouncementTaken ==
  ASSUME NEW s, NEW a \in Seq(Acks), NEW w, NEW o, a # <<>>, Head(a).status = s, ComesLast(s, a, w, o)
  PROVE  Gone(s, <<>>, w, o)
<1>1. Head(a) = a[1] /\ 1 \in 1..Len(a)
  OBVIOUS
<1>2. Len(w) = 0 /\ Len(o) = 0
  BY <1>1 DEF ComesLast
<1> DEFINE e == <<>>
<1>3. 1..Len(e) = {}
  OBVIOUS
<1> HIDE DEF e
<1>4. Gone(s, e, w, o)
  BY <1>2, <1>3 DEF Gone
<1> QED
  BY <1>4 DEF e

\* A request is sent.
LEMMA AnnouncementAsked ==
  ASSUME NEW s, NEW a \in Seq(Acks), NEW w, NEW o \in Seq(Orders), NEW r \in Orders, Gone(s, a, w, o)
  PROVE  /\ r.sub # Cause(s) => Gone(s, <<>>, w, Append(o, r))
         /\ ComesLast(s, <<>>, w, Append(o, r))
<1> DEFINE u == Append(o, r)
           e == <<>>
<1>1. \A i \in 1..Len(u) : (i \in 1..Len(o) /\ u[i] = o[i]) \/ (i = Len(u) /\ u[i] = r)
  OBVIOUS
<1>2. 1..Len(e) = {}
  OBVIOUS
<1> HIDE DEF u, e
<1>3. r.sub # Cause(s) => Gone(s, e, w, u)
  BY <1>1, <1>2 DEF Gone
<1>4. ComesLast(s, e, w, u)
  BY <1>1, <1>2 DEF Gone, ComesLast
<1> QED
  BY <1>3, <1>4 DEF u, e

LEMMA InitAnnounce == Serial!Init \/ Serial!NoPort => AnnounceInv
<1>1. CASE Serial!Init
  <2>1. c.pc = "start" /\ c.unaccepted = {} /\ acks = <<>> /\ air = <<>> /\ orders = <<>>
    BY <1>1 DEF Serial!Init, Serial!Client
  <2>2. 1..Len(acks) = {} /\ 1..Len(air) = {} /\ 1..Len(orders) = {}
    BY <2>1
  <2> QED
    BY <2>1, <2>2 DEF AnnounceInv, VersionInv, ReadyInv, Spoken, Gone
<1>2. CASE Serial!NoPort
  <2>1. job.kind = "none"
    BY <1>2 DEF Serial!NoPort
  <2> QED
    BY <2>1, JobKinds DEF AnnounceInv
<1> QED
  BY <1>1, <1>2

\* The line moves on its own.
LEMMA AnnounceLineMoves ==
  ASSUME SerialTypes, Serial!Upgrading, AnnounceInv, UNCHANGED <<job, c>>,
         Spoken(acks)', Spoken(air)',
         \A s \in Announcements :
           /\ Gone(s, acks, air, orders) => Gone(s, acks', air', orders')
           /\ ComesLast(s, acks, air, orders) => ComesLast(s, acks', air', orders')
  PROVE  AnnounceInv'
<1>1. VersionInv' /\ ReadyInv'
  BY DEF AnnounceInv, VersionInv, ReadyInv, Announcements
<1> QED
  BY <1>1 DEF AnnounceInv

LEMMA AnnounceLine ==
  ASSUME SerialTypes, Serial!Upgrading, AnnounceInv, Serial!Answers \/ Serial!Ignores \/ Serial!Receives,
         UNCHANGED <<job, c, port>>
  PROVE  AnnounceInv'
<1>1. acks \in Seq(Acks) /\ air \in Seq(Acks) /\ orders \in Seq(Orders) /\ inPbl \in BOOLEAN
  BY DEF SerialTypes
<1>2. Spoken(acks) /\ Spoken(air)
  BY DEF AnnounceInv
<1>3. CASE Serial!Ignores
  <2>1. orders # <<>> /\ orders' = Tail(orders) /\ acks' = acks /\ air' = air
    BY <1>3 DEF Serial!Ignores
  <2>2. \A s \in Announcements :
          /\ Gone(s, acks, air, orders) => Gone(s, acks, air, Tail(orders))
          /\ ComesLast(s, acks, air, orders) => ComesLast(s, acks, air, Tail(orders))
    BY <2>1, <1>1, AnnouncementIgnored
  <2>3. Spoken(acks)' /\ Spoken(air)'
    BY <2>1, <1>2 DEF Spoken
  <2> QED
    BY <2>1, <2>2, <2>3, AnnounceLineMoves
<1>4. CASE Serial!Receives
  <2>1. /\ air # <<>> /\ air' = Tail(air) /\ acks' \in {acks, Append(acks, Head(air))} /\ orders' = orders
    BY <1>4 DEF Serial!Receives
  <2>2. \A s \in Announcements :
          /\ Gone(s, acks, air, orders) => Gone(s, acks', Tail(air), orders)
          /\ ComesLast(s, acks, air, orders) => ComesLast(s, acks', Tail(air), orders)
    BY <2>1, <1>1, AnnouncementArrives
  <2>3. Spoken(Tail(air)) /\ Spoken(acks')
    <3>1. \A k \in 1..Len(Tail(air)) : Tail(air)[k] = air[k + 1] /\ k + 1 \in 1..Len(air)
      BY <1>1, <2>1
    <3>2. Head(air) = air[1] /\ 1 \in 1..Len(air)
      BY <1>1, <2>1
    <3>3. \A k \in 1..Len(Append(acks, Head(air))) :
            \/ k \in 1..Len(acks) /\ Append(acks, Head(air))[k] = acks[k]
            \/ Append(acks, Head(air))[k] = air[1]
      BY <1>1, <3>2
    <3>4. Spoken(Tail(air)) /\ Spoken(Append(acks, Head(air)))
      BY <3>1, <3>2, <3>3, <1>2 DEF Spoken
    <3> QED
      BY <3>4, <2>1, <1>2
  <2>4. Spoken(acks)' /\ Spoken(air)'
    BY <2>1, <2>3 DEF Spoken
  <2> QED
    BY <2>1, <2>2, <2>4, AnnounceLineMoves
<1>5. CASE Serial!Answers
  <2> DEFINE r == Head(orders)
  <2>1. orders # <<>> /\ orders' = Tail(orders) /\ acks' = acks
    BY <1>5 DEF Serial!Answers
  <2>2. r \in Orders
    BY <1>1, <2>1
  <2>3. ASSUME NEW kind \in {"ota", "cmd"}, NEW status \in Statuses, NEW code \in Codes
        PROVE  /\ Serial!Ack(r, kind, status, code) \in Acks
               /\ Serial!Ack(r, kind, status, code).status = status
               /\ Serial!Ack(r, kind, status, code).kind = kind
    <3>1. (r.sub = "pbl" /\ inPbl) \in BOOLEAN
      BY <1>1
    <3> HIDE DEF r
    <3> QED
      BY <3>1, <2>2 DEF Serial!Ack, Acks
\* One answer, or two of which the first is to the command.
  <2>4. ASSUME NEW k \in Acks, air' = Append(air, k), k.kind = "ota" => k.status # "none",
               \A s \in Announcements : k.status = s => r.sub = Cause(s)
        PROVE  AnnounceInv'
    <3> DEFINE v == Append(air, k)
    <3>1. /\ v \in Seq(Acks) /\ Len(v) = Len(air) + 1 /\ Len(air) \in Nat
          /\ \A i \in 1..Len(v) : (i \in 1..Len(air) /\ v[i] = air[i]) \/ (i = Len(v) /\ v[i] = k)
      BY <1>1
    <3>2. air' = v
      BY <2>4
    <3> HIDE DEF v
    <3>3. \A s \in Announcements : \A i \in 1..Len(v) :
            \/ i \in 1..Len(air) /\ v[i] = air[i]
            \/ i > Len(air) /\ (v[i].status = s => i = Len(v) /\ Head(orders).sub = Cause(s))
      BY <3>1, <2>4
    <3>4. ASSUME NEW s \in Announcements
          PROVE  /\ Gone(s, acks, air, orders) => Gone(s, acks, v, Tail(orders))
                 /\ ComesLast(s, acks, air, orders) => ComesLast(s, acks, v, Tail(orders))
      <4>1. Len(v) > Len(air)
        BY <3>1
      <4> QED
        BY <4>1, <3>1, <3>3, <2>1, <1>1, AnnouncementMade
    <3>5. Spoken(acks)' /\ Spoken(air)'
      BY <3>1, <3>2, <2>1, <2>4, <1>2 DEF Spoken
    <3> QED
      BY <3>2, <3>4, <3>5, <2>1, AnnounceLineMoves
  <2>5. ASSUME NEW k \in Acks, NEW l \in Acks, air' = air \o <<k, l>>, k.kind = "cmd", k.status = "none",
               l.status = "ready", r.sub = "large"
        PROVE  AnnounceInv'
    <3> DEFINE v == air \o <<k, l>>
    <3>1. /\ v \in Seq(Acks) /\ Len(v) = Len(air) + 2 /\ Len(air) \in Nat
          /\ \A i \in 1..Len(v) : \/ i \in 1..Len(air) /\ v[i] = air[i]
                                  \/ i = Len(air) + 1 /\ v[i] = k
                                  \/ i = Len(v) /\ v[i] = l
      BY <1>1
    <3>2. air' = v
      BY <2>5
    <3> HIDE DEF v
    <3>3. \A s \in Announcements : \A i \in 1..Len(v) :
            \/ i \in 1..Len(air) /\ v[i] = air[i]
            \/ i > Len(air) /\ (v[i].status = s => i = Len(v) /\ Head(orders).sub = Cause(s))
      BY <3>1, <2>5 DEF Announcements, Cause
    <3>4. ASSUME NEW s \in Announcements
          PROVE  /\ Gone(s, acks, air, orders) => Gone(s, acks, v, Tail(orders))
                 /\ ComesLast(s, acks, air, orders) => ComesLast(s, acks, v, Tail(orders))
      <4>1. Len(v) > Len(air)
        BY <3>1
      <4> QED
        BY <4>1, <3>1, <3>3, <2>1, <1>1, AnnouncementMade
    <3>5. Spoken(acks)' /\ Spoken(air)'
      BY <3>1, <3>2, <2>1, <2>5, <1>2 DEF Spoken
    <3> QED
      BY <3>2, <3>4, <3>5, <2>1, AnnounceLineMoves
\* What the lidar says.
  <2>6. ASSUME NEW kind \in {"ota", "cmd"}, NEW status \in Statuses, NEW code \in Codes,
               air' = Append(air, Serial!Ack(r, kind, status, code)), kind = "ota" => status # "none",
               \A s \in Announcements : status = s => r.sub = Cause(s)
        PROVE  AnnounceInv'
    <3> DEFINE k == Serial!Ack(r, kind, status, code)
    <3>1. k \in Acks /\ k.status = status /\ k.kind = kind /\ air' = Append(air, k)
      BY <2>3, <2>6
    <3> HIDE DEF k, r
    <3> QED
      BY <3>1, <2>4, <2>6
  <2>7. CASE r.sub = "pbl"
    <3>1. air' = Append(air, Serial!Ack(r, "ota", "version", "zero"))
      BY <1>5, <2>7 DEF Serial!Answers
    <3> HIDE DEF r
    <3> QED
      BY <3>1, <2>6, <2>7 DEF Codes, Statuses, Announcements, Cause
  <2>8. CASE r.sub = "large"
    <3> DEFINE k == Serial!Ack(r, "cmd", "none", "zero")
               l == Serial!Ack(r, "ota", "ready", "zero")
    <3>1. \/ air' = air \o <<k, l>>
          \/ \E code \in {"three", "other"} : air' = Append(air, Serial!Ack(r, "cmd", "none", code))
      BY <1>5, <2>8 DEF Serial!Answers
    <3>2. /\ k \in Acks /\ k.kind = "cmd" /\ k.status = "none"
          /\ l \in Acks /\ l.status = "ready"
      BY <2>3 DEF Codes, Statuses
    <3> HIDE DEF k, l, r
    <3>3. ASSUME air' = air \o <<k, l>> PROVE AnnounceInv'
      BY <3>2, <3>3, <2>5, <2>8
    <3>4. ASSUME NEW code \in {"three", "other"}, air' = Append(air, Serial!Ack(r, "cmd", "none", code))
          PROVE  AnnounceInv'
      BY <3>4, <2>6 DEF Codes, Statuses, Announcements
    <3> QED
      BY <3>1, <3>3, <3>4
  <2>9. CASE r.sub = "package"
    <3>1. \/ air' = Append(air, Serial!Ack(r, "ota", "accepted", "zero"))
          \/ \E code \in {"zero", "other"} : air' = Append(air, Serial!Ack(r, "ota", "refused", code))
      BY <1>5, <2>9 DEF Serial!Answers
    <3> HIDE DEF r
    <3> QED
      BY <3>1, <2>6 DEF Codes, Statuses, Announcements
  <2>10. CASE r.sub \notin {"pbl", "large", "package"}
    <3>1. \E code \in {"zero", "other"} : air' = Append(air, Serial!Ack(r, "cmd", "none", code))
      BY <1>5, <2>10 DEF Serial!Answers
    <3> HIDE DEF r
    <3> QED
      BY <3>1, <2>6 DEF Codes, Statuses, Announcements
  <2> QED
    BY <2>7, <2>8, <2>9, <2>10
<1> QED
  BY <1>3, <1>4, <1>5

\* A step of the upgrade: an announcement that is asked for comes last until its own step has
\* taken it, after which it is gone, or has gone on without it.
LEMMA AnnounceClient ==
  ASSUME SerialInv, Serial!Upgrading, AnnounceInv, Serial!ClientStep
  PROVE  AnnounceInv'
<1>1. acks \in Seq(Acks) /\ air \in Seq(Acks) /\ orders \in Seq(Orders) /\ c \in Clients
  BY DEF SerialInv, SerialTypes
<1>2. /\ Spoken(acks) /\ Spoken(air) /\ VersionInv /\ ReadyInv
      /\ c.unaccepted \subseteq {"refused"} \cup c.skipped
  BY DEF AnnounceInv
<1>3. UNCHANGED <<job, air>> /\ Serial!Upgrading'
  BY DEF Serial!ClientStep, Serial!Upgrading
<1>4. c.pc \notin {"query", "back"}
  BY DEF SerialInv, UpgradeInv
<1> DEFINE Said == c'.unaccepted \subseteq {"refused"} \cup c'.skipped
\* What becomes of the announcements when something is asked, and when the buffer shrinks.
<1>5. ASSUME NEW r \in Orders, NEW x, Serial!Asks(r, x)
      PROVE  /\ c' = x /\ Spoken(acks)'
             /\ \A s \in Announcements : Gone(s, acks, air, orders) =>
                  /\ r.sub # Cause(s) => Gone(s, acks', air', orders')
                  /\ ComesLast(s, acks', air', orders')
  <2>1. c' = x /\ acks' = <<>> /\ orders' = Append(orders, r)
    BY <1>5 DEF Serial!Asks
  <2>2. 1..Len(<<>>) = {}
    OBVIOUS
  <2>3. Spoken(acks)'
    BY <2>1, <2>2 DEF Spoken
  <2>4. ASSUME NEW s \in Announcements, Gone(s, acks, air, orders)
        PROVE  /\ r.sub # Cause(s) => Gone(s, acks', air', orders')
               /\ ComesLast(s, acks', air', orders')
    BY <2>1, <2>4, <1>1, <1>3, AnnouncementAsked
  <2> QED
    BY <2>1, <2>3, <2>4
<1>6. ASSUME orders' = orders, acks' \in {acks, <<>>} \/ (acks # <<>> /\ acks' = Tail(acks))
      PROVE  /\ Spoken(acks)'
             /\ \A s \in Announcements : Gone(s, acks, air, orders) => Gone(s, acks', air', orders')
  <2>1. \A i \in 1..Len(acks') : \E j \in 1..Len(acks) : acks'[i] = acks[j]
    <3>1. CASE acks' = acks
      BY <3>1
    <3>2. CASE acks' = <<>>
      BY <3>2
    <3>3. CASE acks # <<>> /\ acks' = Tail(acks)
      <4>1. \A i \in 1..Len(Tail(acks)) : Tail(acks)[i] = acks[i + 1] /\ i + 1 \in 1..Len(acks)
        BY <1>1, <3>3
      <4> QED
        BY <4>1, <3>3
    <3> QED
      BY <1>6, <3>1, <3>2, <3>3
  <2>2. Spoken(acks)'
    BY <2>1, <1>2 DEF Spoken
  <2>3. ASSUME NEW s \in Announcements, Gone(s, acks, air, orders) PROVE Gone(s, acks', air', orders')
    BY <2>1, <2>3, <1>3, <1>6 DEF Gone
  <2> QED
    BY <2>2, <2>3
<1>7. "version" \in Announcements /\ "ready" \in Announcements /\ Cause("version") = "pbl" /\ Cause("ready") = "large"
  BY DEF Announcements, Cause
<1>8. Spoken(air)'
  BY <1>2, <1>3 DEF Spoken
<1>9. ASSUME c'.pc = "end", Spoken(acks)', Said PROVE AnnounceInv'
  <2>1. VersionInv' /\ ReadyInv'
    BY <1>9 DEF VersionInv, ReadyInv
  <2> QED
    BY <2>1, <1>8, <1>9 DEF AnnounceInv
<1>10. ASSUME NEW ret, Serial!Ends(c, ret) PROVE c'.pc = "end" /\ Said
  BY <1>1, <1>2, <1>10 DEF Serial!Ends, Clients
\* It is enough that both stay in their order.
<1>11. ASSUME Spoken(acks)', Said, VersionInv', ReadyInv' PROVE AnnounceInv'
  BY <1>8, <1>11 DEF AnnounceInv
<1>12. Serial!Mode \in Orders /\ Serial!Mode.sub = "mode"
  BY AsksMode DEF Serial!Mode
<1>13. \A sub \in {"pbl", "large"} : [sub |-> sub, type |-> 0] \in Orders
  BY DEF Orders
<1>14. CASE Serial!Starts
  <2> DEFINE r == [sub |-> "pbl", type |-> 0]
             x == [c EXCEPT !.pc = "pbl"]
  <2>1. c.pc = "start" /\ Serial!Asks(r, x) /\ r \in Orders /\ r.sub = "pbl"
    BY <1>13, <1>14 DEF Serial!Starts
  <2>2. x.pc = "pbl" /\ x.skipped = c.skipped /\ x.unaccepted = c.unaccepted
    BY <1>1 DEF Clients
  <2> HIDE DEF r, x
  <2>3. Gone("version", acks, air, orders) /\ Gone("ready", acks, air, orders)
    BY <2>1, <1>2 DEF VersionInv, ReadyInv
  <2>4. c' = x /\ Spoken(acks)' /\ ComesLast("version", acks', air', orders') /\ Gone("ready", acks', air', orders')
    BY <2>1, <2>3, <1>5, <1>7
  <2> QED
    BY <2>2, <2>4, <1>2, <1>11 DEF VersionInv, ReadyInv
<1>15. CASE Serial!Locates
  <2>1. c.pc = "pbl" /\ acks' = <<>> /\ orders' = orders
    BY <1>15 DEF Serial!Locates
  <2>2. Spoken(acks)' /\ Gone("ready", acks', air', orders')
    <3>1. Gone("ready", acks, air, orders)
      BY <2>1, <1>2 DEF ReadyInv
    <3> QED
      BY <3>1, <2>1, <1>6, <1>7
  <2>3. CASE Serial!Ends(c, "in pbl")
    BY <2>2, <2>3, <1>9, <1>10
  <2>4. CASE \E pc \in {"ota", "app"} : c' = [c EXCEPT !.pc = pc, !.skipped = @ \cup Serial!Missing("version")]
    <3>1. /\ c'.pc \in {"ota", "app"} /\ c'.unaccepted = c.unaccepted
          /\ c'.skipped = c.skipped \cup Serial!Missing("version")
      BY <2>4, <1>1 DEF Clients
    <3>2. ASSUME "version" \notin c'.skipped PROVE Gone("version", acks', air', orders')
      <4>1. acks # <<>> /\ Head(acks).status = "version"
        BY <3>1, <3>2 DEF Serial!Missing, Serial!Silence, Serial!First
      <4>2. ComesLast("version", acks, air, orders)
        BY <2>1, <1>2 DEF VersionInv
      <4>3. Gone("version", <<>>, air, orders)
        BY <4>1, <4>2, <1>1, AnnouncementTaken
      <4> QED
        BY <4>3, <2>1, <1>3
    <3>3. VersionInv' /\ ReadyInv'
      BY <3>1, <3>2, <2>2 DEF VersionInv, ReadyInv
    <3> QED
      BY <3>1, <3>3, <2>2, <1>2, <1>11
  <2> QED
    BY <1>15, <2>3, <2>4 DEF Serial!Locates
<1>16. CASE Serial!FailsToOpen
  <2>1. Serial!Ends(c, "error") /\ acks' = acks /\ orders' = orders
    BY <1>16 DEF Serial!FailsToOpen
  <2> QED
    BY <2>1, <1>6, <1>9, <1>10
<1>17. CASE Serial!EntersUpgrade
  <2> DEFINE x == [c EXCEPT !.pc = "mode"]
  <2>1. c.pc = "app" /\ Serial!Asks(Serial!Mode, x)
    BY <1>17 DEF Serial!EntersUpgrade
  <2>2. x.pc = "mode" /\ x.skipped = c.skipped /\ x.unaccepted = c.unaccepted
    BY <1>1 DEF Clients
  <2> HIDE DEF x
  <2>3. ("version" \notin c.skipped => Gone("version", acks, air, orders)) /\ Gone("ready", acks, air, orders)
    BY <2>1, <1>2 DEF VersionInv, ReadyInv
  <2>4. /\ c' = x /\ Spoken(acks)' /\ Gone("ready", acks', air', orders')
        /\ "version" \notin c.skipped => Gone("version", acks', air', orders')
    BY <2>1, <2>3, <1>5, <1>7, <1>12
  <2> QED
    BY <2>2, <2>4, <1>2, <1>11 DEF VersionInv, ReadyInv
<1>18. CASE Serial!Requests
  <2> DEFINE r == [sub |-> "large", type |-> 0]
             x == [c EXCEPT !.pc = "large"]
  <2>1. c.pc = "mode"
    BY <1>18 DEF Serial!Requests
  <2>2. CASE Serial!Ends(c, "error") /\ UNCHANGED <<acks, orders>>
    BY <2>2, <1>6, <1>9, <1>10
  <2>3. CASE Serial!Asks(r, x)
    <3>1. r \in Orders /\ r.sub = "large"
      BY <1>13
    <3>2. x.pc = "large" /\ x.skipped = c.skipped /\ x.unaccepted = c.unaccepted
      BY <1>1 DEF Clients
    <3>3. Serial!Asks(r, x)
      BY <2>3
    <3> HIDE DEF r, x
    <3>4. ("version" \notin c.skipped => Gone("version", acks, air, orders)) /\ Gone("ready", acks, air, orders)
      BY <2>1, <1>2 DEF VersionInv, ReadyInv
    <3>5. /\ c' = x /\ Spoken(acks)' /\ ComesLast("ready", acks', air', orders')
          /\ "version" \notin c.skipped => Gone("version", acks', air', orders')
      BY <3>1, <3>3, <3>4, <1>5, <1>7
    <3> QED
      BY <3>2, <3>5, <1>2, <1>11 DEF VersionInv, ReadyInv
  <2> QED
    BY <1>18, <2>2, <2>3 DEF Serial!Requests
<1>19. CASE Serial!Requested
  <2>1. c.pc = "large" /\ acks' = <<>> /\ orders' = orders
    BY <1>19 DEF Serial!Requested
  <2>2. /\ Spoken(acks)' /\ ComesLast("ready", acks', air', orders')
        /\ "version" \notin c.skipped => Gone("version", acks', air', orders')
    <3>1. ComesLast("ready", acks, air, orders) /\ ("version" \notin c.skipped => Gone("version", acks, air, orders))
      BY <2>1, <1>2 DEF VersionInv, ReadyInv
    <3>2. ComesLast("ready", <<>>, air, orders)
      BY <3>1, AnnouncementWaits
    <3> QED
      BY <3>1, <3>2, <2>1, <1>3, <1>6, <1>7
  <2>3. \/ Serial!Ends(c, "error")
        \/ c' = [c EXCEPT !.pc = "ready"]
        \/ c' = [c EXCEPT !.pc = "ota", !.skipped = @ \cup {"ready"}]
        \/ c' = [c EXCEPT !.pc = "ota", !.skipped = @ \cup {"ready"}, !.refusals = @ \cup {Serial!First.code}]
    BY <1>19 DEF Serial!Requested
  <2>4. CASE Serial!Ends(c, "error")
    BY <2>2, <2>4, <1>9, <1>10
  <2>5. CASE ~Serial!Ends(c, "error")
    <3>1. /\ c'.unaccepted = c.unaccepted
          /\ \/ c'.pc = "ready" /\ c'.skipped = c.skipped
             \/ c'.pc = "ota" /\ c'.skipped = c.skipped \cup {"ready"}
      BY <2>3, <2>5, <1>1 DEF Clients
    <3>2. VersionInv' /\ ReadyInv'
      BY <3>1, <2>2 DEF VersionInv, ReadyInv
    <3> QED
      BY <3>1, <3>2, <2>2, <1>2, <1>11
  <2> QED
    BY <2>4, <2>5
<1>20. CASE Serial!Readies
  <2>1. c.pc = "ready" /\ acks' = <<>> /\ orders' = orders
    BY <1>20 DEF Serial!Readies
  <2>2. Spoken(acks)' /\ ("version" \notin c.skipped => Gone("version", acks', air', orders'))
    <3>1. "version" \notin c.skipped => Gone("version", acks, air, orders)
      BY <2>1, <1>2 DEF VersionInv
    <3> QED
      BY <3>1, <2>1, <1>6, <1>7
  <2>3. CASE Serial!Ends(c, "error")
    BY <2>2, <2>3, <1>9, <1>10
  <2>4. CASE c' = [c EXCEPT !.pc = "ota", !.skipped = @ \cup Serial!Missing("ready")]
    <3>1. c'.pc = "ota" /\ c'.unaccepted = c.unaccepted /\ c'.skipped = c.skipped \cup Serial!Missing("ready")
      BY <2>4, <1>1 DEF Clients
    <3>2. ASSUME "ready" \notin c'.skipped PROVE Gone("ready", acks', air', orders')
      <4>1. acks # <<>> /\ Head(acks).status = "ready"
        BY <3>1, <3>2 DEF Serial!Missing, Serial!Silence, Serial!First
      <4>2. ComesLast("ready", acks, air, orders)
        BY <2>1, <1>2 DEF ReadyInv
      <4>3. Gone("ready", <<>>, air, orders)
        BY <4>1, <4>2, <1>1, AnnouncementTaken
      <4> QED
        BY <4>3, <2>1, <1>3
    <3>3. VersionInv' /\ ReadyInv'
      BY <3>1, <3>2, <2>2 DEF VersionInv, ReadyInv
    <3> QED
      BY <3>1, <3>3, <2>2, <1>2, <1>11
  <2> QED
    BY <1>20, <2>3, <2>4 DEF Serial!Readies
<1>21. CASE Serial!Sends
  <2> DEFINE last == IF c.rest THEN Packages ELSE c.i
             r == [sub |-> "package", type |-> c.i, last |-> last]
             x == [c EXCEPT !.pc = "package"]
  <2>1. c.pc = "ota" /\ Serial!Asks(r, x)
    BY <1>21 DEF Serial!Sends
  <2>2. r \in Orders /\ r.sub = "package"
    <3>1. c.i \in Nat /\ last \in Nat
      BY <1>1, SerialAssumption DEF Clients
    <3> HIDE DEF last
    <3> QED
      BY <3>1 DEF Orders
  <2>3. x.pc = "package" /\ x.skipped = c.skipped /\ x.unaccepted = c.unaccepted
    BY <1>1 DEF Clients
  <2> HIDE DEF last, r, x
  <2>4. /\ "version" \notin c.skipped => Gone("version", acks, air, orders)
        /\ "ready" \notin c.skipped => Gone("ready", acks, air, orders)
    BY <2>1, <1>2 DEF VersionInv, ReadyInv
  <2>5. /\ c' = x /\ Spoken(acks)'
        /\ "version" \notin c.skipped => Gone("version", acks', air', orders')
        /\ "ready" \notin c.skipped => Gone("ready", acks', air', orders')
    BY <2>1, <2>2, <2>4, <1>5, <1>7
  <2> QED
    BY <2>3, <2>5, <1>2, <1>11 DEF VersionInv, ReadyInv
<1>22. CASE Serial!Continues
  <2>1. /\ c.pc = "package" /\ orders' = orders
        /\ acks' \in {acks, <<>>} \/ (acks # <<>> /\ acks' = Tail(acks))
    BY <1>22 DEF Serial!Continues, Serial!Silence
  <2>2. /\ "version" \notin c.skipped => Gone("version", acks, air, orders)
        /\ "ready" \notin c.skipped => Gone("ready", acks, air, orders)
    BY <2>1, <1>2 DEF VersionInv, ReadyInv
  <2>3. /\ Spoken(acks)'
        /\ "version" \notin c.skipped => Gone("version", acks', air', orders')
        /\ "ready" \notin c.skipped => Gone("ready", acks', air', orders')
    BY <2>1, <2>2, <1>6, <1>7
  <2> DEFINE un == IF Serial!Accepted(Serial!First) THEN c.unaccepted
                   ELSE c.unaccepted \cup {Serial!First.status}
  <2>4. CASE Serial!Ends(c, "error")
    BY <2>3, <2>4, <1>9, <1>10
  <2>5. CASE ~Serial!Ends(c, "error")
    <3>1. ~Serial!Silence /\ Serial!Decodes(Serial!First, "package")
      BY <1>22, <2>5 DEF Serial!Continues
    <3>2. acks # <<>> /\ Serial!First = acks[1] /\ 1 \in 1..Len(acks) /\ acks[1] \in Acks
      BY <3>1, <1>1 DEF Serial!Silence, Serial!First
    <3>3. Serial!First.status \in Statuses \ {"none"}
      BY <3>1, <3>2, <1>2 DEF Serial!Decodes, Spoken, Acks
    <3>4. Serial!First.status \in {"accepted", "refused"} \cup c.skipped
      BY <3>2, <3>3, <2>2 DEF Gone, Statuses
    <3>5. un \subseteq {"refused"} \cup c.skipped
      BY <3>4, <1>2 DEF Serial!Accepted
    <3>6. \E pc \in {"ota", "end"} : c'.pc = pc /\ c'.skipped = c.skipped /\ c'.unaccepted = un
      BY <1>1, <1>22, <2>5 DEF Serial!Continues, Serial!Ends, Clients
    <3> HIDE DEF un
    <3>7. VersionInv' /\ ReadyInv'
      BY <3>6, <2>3 DEF VersionInv, ReadyInv
    <3> QED
      BY <3>5, <3>6, <3>7, <2>3, <1>11
  <2> QED
    BY <2>4, <2>5
<1>23. ~Serial!ChangesMode /\ ~Serial!Queries /\ ~Serial!ChangesBack /\ ~Serial!Returns
  BY <1>4 DEF Serial!ChangesMode, Serial!Queries, Serial!ChangesBack, Serial!Returns
<1> QED
  BY <1>14, <1>15, <1>16, <1>17, <1>18, <1>19, <1>20, <1>21, <1>22, <1>23 DEF Serial!ClientStep

LEMMA AnnounceStep == SerialInv /\ AnnounceInv /\ [Serial!Next]_serialVars => AnnounceInv'
<1> SUFFICES ASSUME SerialInv, AnnounceInv, [Serial!Next]_serialVars PROVE AnnounceInv'
  OBVIOUS
<1>1. CASE ~Serial!Upgrading
  <2>1. job' = job
    BY DEF Serial!Next, Serial!ClientStep, serialVars
  <2> QED
    BY <1>1, <2>1 DEF AnnounceInv, Serial!Upgrading
<1>2. CASE Serial!Upgrading /\ Serial!ClientStep
  BY <1>2, AnnounceClient
<1>3. CASE Serial!Upgrading /\ (Serial!Answers \/ Serial!Ignores \/ Serial!Receives) /\ UNCHANGED <<job, c, port>>
  BY <1>3, AnnounceLine DEF SerialInv
<1>4. CASE UNCHANGED serialVars
  BY <1>4 DEF serialVars, AnnounceInv, VersionInv, ReadyInv, Spoken, Gone, ComesLast, Serial!Upgrading
<1> QED
  BY <1>1, <1>2, <1>3, <1>4 DEF Serial!Next

\* The invariants give the properties of the client on the serial line.
LEMMA SerialProperties ==
  SerialInv /\ AnnounceInv => Serial!AnswerIsOwn /\ Serial!UpgradeWritten /\ Serial!RefusalHeeded
<1> SUFFICES ASSUME SerialInv, AnnounceInv PROVE Serial!AnswerIsOwn /\ Serial!UpgradeWritten /\ Serial!RefusalHeeded
  OBVIOUS
<1>1. Serial!AnswerIsOwn
  <2>1. c.pc = "back" => job.kind \notin {"none"} /\ ~Serial!Upgrading
    BY DEF SerialInv, UpgradeInv
  <2>2. job.kind = "queries" => Serial!AnswerIsOwn
    BY DEF SerialInv, QueriesInv
  <2>3. c.pc = "back" => job.kind = "queries"
    BY <2>1, JobKinds DEF SerialInv, SerialTypes
  <2> QED
    BY <2>2, <2>3 DEF Serial!AnswerIsOwn
<1>2. Serial!UpgradeWritten
  <2> SUFFICES ASSUME c.pc = "end", Serial!Upgrading, c.ret = "zero"
               PROVE  /\ 1..(c.i - 1) \subseteq written
                      /\ \/ written = 1..Packages
                         \/ \E status \in c.unaccepted : status = "refused" \/ status \in c.skipped
    BY DEF Serial!UpgradeWritten
  <2>1. 1..(c.i - 1) \subseteq written /\ (c.unaccepted = {} => written = 1..Packages)
    BY DEF SerialInv, UpgradeInv
  <2>2. c.unaccepted \subseteq {"refused"} \cup c.skipped
    BY DEF AnnounceInv
  <2> QED
    BY <2>1, <2>2
<1>3. Serial!RefusalHeeded
  BY DEF SerialInv, Serial!RefusalHeeded
<1> QED
  BY <1>1, <1>2, <1>3

-----------------------------------------------------------------------------
(***************************************************************************)
(* The theorems                                                             *)
(***************************************************************************)
CommandsInv == LinkInv /\ TimeoutInv /\ AnswerInv /\ SerialInv /\ AnnounceInv

LEMMA CommandsInvHolds == CommandSpec => []CommandsInv
<1>1. CommandInit => CommandsInv
  BY InitLink, InitTimeout, InitAnswer, InitSerial, InitAnnounce DEF CommandInit, CommandsInv
<1>2. CommandsInv /\ [CommandNext]_commandVars => CommandsInv'
  <2> SUFFICES ASSUME CommandsInv, [CommandNext]_commandVars PROVE CommandsInv'
    OBVIOUS
  <2>1. [Next]_vars /\ [Serial!Next]_serialVars
    BY DEF CommandNext, commandVars
  <2>2. LinkInv'
    BY <2>1, LinkStep DEF CommandsInv
  <2>3. TimeoutInv'
    BY <2>1, <2>2, TimeoutStep DEF CommandsInv
  <2>4. AnswerInv'
    BY <2>1, <2>2, AnswerStep DEF CommandsInv
  <2>5. SerialInv'
    BY <2>1, SerialStep DEF CommandsInv
  <2>6. AnnounceInv'
    BY <2>1, AnnounceStep DEF CommandsInv
  <2> QED
    BY <2>2, <2>3, <2>4, <2>5, <2>6 DEF CommandsInv
<1> QED
  BY <1>1, <1>2, PTL DEF CommandSpec

\* When TryOpen is done and no query is under way, the socket's timeout and the one that is
\* remembered are the configured one, unless a timeout was read before the connection was
\* opened or an early query kept its own (PtcLink.TimeoutsRestored): on every path of
\* QueryCommand, for every program of the threads.
THEOREM TimeoutsComeBack == CommandSpec => []TimeoutsRestored
<1>1. CommandsInv => TimeoutsRestored
  BY NetworkProperties DEF CommandsInv
<1> QED
  BY <1>1, CommandsInvHolds, PTL

\* A query returns its own answer, whatever is cut, lost or late: on the network unless a
\* request with its command was given up, on the serial line unless its kind has failed.
THEOREM AnswersBelong == CommandSpec => []AnswersAreOwn
<1>1. CommandsInv => AnswersAreOwn
  BY NetworkProperties, SerialProperties DEF CommandsInv, AnswersAreOwn
<1> QED
  BY <1>1, CommandsInvHolds, PTL

\* An upgrade that reports success has every package in the lidar, and after a refusal no
\* package is sent, for every number of packages and with the exceptions that stand at the
\* three properties.  Over the serial line a late acknowledgement of an earlier step can be
\* taken for a package's, and leave packages unwritten, only if the upgrade had gone on
\* without it; the packages before are in the lidar all the same.
THEOREM UpgradesAreComplete == CommandSpec => []UpgradesComplete
<1>1. CommandsInv => UpgradesComplete
  BY NetworkProperties, SerialProperties DEF CommandsInv, UpgradesComplete
<1> QED
  BY <1>1, CommandsInvHolds, PTL
=============================================================================
