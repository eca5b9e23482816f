---------------------------- MODULE LidarCommands ----------------------------
(***************************************************************************)
(* The commands to the lidar: Lidar::Init makes a PtcClient for a lidar on   *)
(* the network and a SerialClient for one on the serial line.                *)
(***************************************************************************)
EXTENDS PtcLink

CONSTANTS QueryLists, Packages                               \* see SerialLink
ASSUME SerialAssumption ==
  /\ QueryLists \subseteq Seq([sub : {"correction", "sn", "version", "fault"}, type : Nat]) \ {<<>>}
  /\ Packages \in Nat \ {0}

VARIABLES job, c, port, acks, orders, air, inPbl, written    \* see SerialLink

Serial == INSTANCE SerialLink
serialVars == <<job, c, port, acks, orders, air, inPbl, written>>
commandVars == <<vars, serialVars>>

CommandInit == \/ Init /\ Serial!NoPort
               \/ NoClient /\ Serial!Init
CommandNext == \/ Next /\ UNCHANGED serialVars
               \/ Serial!Next /\ UNCHANGED vars
CommandSpec == CommandInit /\ [][CommandNext]_commandVars /\ Fairness

\* Whatever is lost or late, an answer is that of the query that returns it, on the network
\* and on the serial line, but for late answers to a failed query of the same kind.
AnswersAreOwn == AnswerIsOwn /\ Serial!AnswerIsOwn

\* An upgrade that reports success has every package in the lidar, and after a refusal it
\* sends none; the exceptions stand at the three properties.
UpgradesComplete == UpgradeComplete /\ Serial!UpgradeWritten /\ Serial!RefusalHeeded

\* No call hangs: every query returns, with the excuse that stands at QueryReturns, and the
\* destructor returns from its join with TryOpen.
CallsReturn == QueryReturns /\ OpenerJoins
=============================================================================
