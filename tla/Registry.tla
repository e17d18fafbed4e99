------------------------------ MODULE Registry ------------------------------
(***************************************************************************)
(* A node and the bootstrap directory (p2p.cpp, bootstrapHeartbeatLoop):   *)
(* it probes its own listen port through the directory, registers, reports *)
(* its chain and posts its status, each over one HTTP call that may fail.  *)
(* The directory is external: it keeps one row for the node id, answers    *)
(* 409 to a register of an id it has, 403 to a report of one it has not,   *)
(* and an old one answers 400 to fields it does not know.                  *)
(***************************************************************************)
EXTENDS Naturals

CONSTANTS
    MaxLost,    \* bound: HTTP calls that fail
    MaxChanges  \* bound: restarts, rows forgotten and ports opened or closed

ASSUME RegAssumption == MaxLost \in Nat /\ MaxChanges \in Nat

VARIABLES
    portOpen,           \* the directory can reach the listen port
    oldDirectory,       \* the directory does not know "inbound"
    row,                \* the directory's row of this node
    probeReachable,     \* probeReachable_
    stage,              \* what the heartbeat thread does next
    lostCalls, changes

regVars == <<portOpen, oldDirectory, row, probeReachable, stage, lostCalls, changes>>

NoRow == [listed |-> FALSE, inbound |-> "unset"]
Inbound(b) == IF b THEN "yes" ELSE "no"

RegTypeOK ==
    /\ portOpen \in BOOLEAN /\ oldDirectory \in BOOLEAN
    /\ row \in [listed : BOOLEAN, inbound : {"yes", "no", "unset"}]
    /\ probeReachable \in BOOLEAN
    /\ stage \in {"start", "register", "status", "up"}
    /\ lostCalls \in 0..MaxLost /\ changes \in 0..MaxChanges

RegInit ==
    /\ portOpen \in BOOLEAN /\ oldDirectory \in BOOLEAN
    /\ row = NoRow
    /\ probeReachable = FALSE
    /\ stage = "start"
    /\ lostCalls = 0 /\ changes = 0
-----------------------------------------------------------------------------
(* bootstrapHttp *)

\* The call is answered, or it fails before or after the directory acted on it.
Answered == UNCHANGED lostCalls
Lost == lostCalls < MaxLost /\ lostCalls' = lostCalls + 1

\* What register and status say of the port; 400 is answered by a second call
\* without the field.
Posted == [listed |-> TRUE,
           inbound |-> IF oldDirectory THEN "unset" ELSE Inbound(probeReachable)]
-----------------------------------------------------------------------------
\* The first probe precedes registration, a later one is followed by a status.
AfterProbe == IF stage = "start" THEN "register" ELSE "status"

\* probeAdvertisedP2P, at the start and every hour: a call that fails counts
\* as a port that cannot be reached.
ProbeAdvertisedP2P ==
    /\ stage \in {"start", "up"}
    /\ \/ Answered /\ probeReachable' = portOpen
       \/ Lost /\ probeReachable' = FALSE
    /\ stage' = AfterProbe
    /\ UNCHANGED <<portOpen, oldDirectory, row, changes>>

\* registerBootstrapNode; after 409 the status is posted instead.
RegisterBootstrapNode ==
    /\ stage = "register"
    /\ \/ /\ Answered
          /\ row' = IF row.listed THEN row ELSE Posted
          /\ stage' = IF row.listed THEN "status" ELSE "up"
       \/ /\ Lost
          /\ row' \in {row, IF row.listed THEN row ELSE Posted}
          /\ stage' = "up"
    /\ UNCHANGED <<portOpen, oldDirectory, probeReachable, changes>>

\* postBootstrapStatus, after a probe, after 409 and every five minutes.
PostBootstrapStatus ==
    /\ stage \in {"status", "up"}
    /\ \/ Answered /\ row' = IF row.listed THEN Posted ELSE row
       \/ Lost /\ row' \in {row, IF row.listed THEN Posted ELSE row}
    /\ stage' = "up"
    /\ UNCHANGED <<portOpen, oldDirectory, probeReachable, changes>>

FaultyAfterReport == "up"

\* 403: not registered; register once more.
AfterReport == IF row.listed THEN "up" ELSE "register"

\* reportBootstrapChain, every 30 seconds.
ReportBootstrapChain ==
    /\ stage = "up"
    /\ \/ Answered /\ stage' = AfterReport
       \/ Lost /\ stage' = "up"
    /\ UNCHANGED <<portOpen, oldDirectory, row, probeReachable, changes>>

\* The directory forgets the row, the port opens or closes, the node restarts
\* (its id is kept in node_id: loadBootstrapNodeId).
Disturb ==
    /\ changes < MaxChanges
    /\ changes' = changes + 1
    /\ \/ row' = NoRow /\ UNCHANGED <<portOpen, probeReachable, stage>>
       \/ portOpen' = ~portOpen /\ UNCHANGED <<row, probeReachable, stage>>
       \/ stage' = "start" /\ probeReachable' = FALSE /\ UNCHANGED <<row, portOpen>>
    /\ UNCHANGED <<oldDirectory, lostCalls>>
-----------------------------------------------------------------------------
Heartbeats ==
    ProbeAdvertisedP2P \/ RegisterBootstrapNode \/ PostBootstrapStatus \/ ReportBootstrapChain

RegNext == Heartbeats \/ Disturb

RegSpec == RegInit /\ [][RegNext]_regVars

\* One thread runs all calls by the clock, so each has its turn again and again.
RegFairness ==
    /\ WF_regVars(Heartbeats)
    /\ SF_regVars(ProbeAdvertisedP2P)
    /\ SF_regVars(PostBootstrapStatus)
    /\ SF_regVars(ReportBootstrapChain)

RegFairSpec == RegSpec /\ RegFairness
-----------------------------------------------------------------------------
(* Properties *)

\* However calls fail, rows are forgotten and the port changes, once these are
\* over the directory lists the node and says of its port what is true
\* (probeAdvertisedP2P with postBootstrapStatus, reportBootstrapChain with
\* registerBootstrapNode).  An old directory says nothing of the port.
DirectorySettles ==
    <>[](row.listed /\ (~oldDirectory => row.inbound = Inbound(portOpen)))
=============================================================================
