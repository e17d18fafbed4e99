----------------------------- MODULE MCNetwork ------------------------------
(***************************************************************************)
(* The loops that keep a node in touch: peers, dialing, the directory,     *)
(* releases, and the threads that run and stop it all.  As in MCNode the   *)
(* part that moves moves alone, under the fairness its module states.      *)
(***************************************************************************)
EXTENDS MCPeerSync, MCDialing, Registry, ReleaseUpdate, Lifecycle

VARIABLE moves   \* the part that moves

Loops == {"peers", "dialing", "registry", "release", "life"}

networkVars == <<moves, peerVars, dialVars, regVars, releaseVars, lifeVars>>

NetworkInit ==
    /\ moves \in Loops
    /\ PeerInit /\ DialInit /\ RegInit /\ ReleaseInit /\ LifeInit
    /\ tip[p] = g /\ tip[q] = b3 => a2 \in store[q]   \* a2 or b4 is left to mine
    /\ moves # "peers" => tip[p] = g /\ tip[q] = b4 /\ a2 \notin store[q]
    /\ moves # "registry" => portOpen /\ oldDirectory
    /\ moves # "release" => unit /\ record = 1
    /\ moves # "life" => httpOn

Still(loop, variables) == moves = loop \/ UNCHANGED variables

NetworkNext ==
    /\ UNCHANGED moves
    /\ \/ moves = "peers" /\ PeerNext
       \/ moves = "dialing" /\ DialNext
       \/ moves = "registry" /\ RegNext
       \/ moves = "release" /\ ReleaseNext
       \/ moves = "life" /\ LifeNext
    /\ Still("peers", peerVars) /\ Still("dialing", dialVars)
    /\ Still("registry", regVars) /\ Still("release", releaseVars)
    /\ Still("life", lifeVars)

\* The fairness of each module, for the part that moves.
NetworkFairness ==
    /\ \A n \in Nodes :
         /\ WF_peerVars(moves = "peers" /\ MessageLoop(n))
         /\ WF_peerVars(moves = "peers" /\ Heartbeat(n))
    /\ \A l \in Links :
         /\ WF_peerVars(moves = "peers" /\ Dial(l[1], l[2]))
         /\ WF_peerVars(moves = "peers" /\ Accept(l[2], l[1]))
    /\ WF_dialVars(moves = "dialing" /\ ConnStep)
    /\ WF_dialVars(moves = "dialing" /\ BeatStep)
    /\ WF_dialVars(moves = "dialing" /\ MsgStep)
    /\ SF_dialVars(moves = "dialing" /\ RefreshBootstrapHints)
    /\ WF_regVars(moves = "registry" /\ Heartbeats)
    /\ SF_regVars(moves = "registry" /\ ProbeAdvertisedP2P)
    /\ SF_regVars(moves = "registry" /\ PostBootstrapStatus)
    /\ SF_regVars(moves = "registry" /\ ReportBootstrapChain)
    /\ WF_releaseVars(moves = "release" /\ Update)
    /\ WF_releaseVars(moves = "release" /\ Script /\ script.step # "none")
    /\ WF_releaseVars(moves = "release" /\ ServiceStart)
    /\ WF_lifeVars(moves = "life" /\ MainStep)
    /\ WF_lifeVars(moves = "life" /\ (WsCreates \/ WsLeaves))
    /\ WF_lifeVars(moves = "life" /\ (HttpBinds \/ HttpAccepts \/ HttpAnswers))
    /\ \A t \in P2PThreads : WF_lifeVars(moves = "life" /\ P2PTurn(t))

NetworkSpec == NetworkInit /\ [][NetworkNext]_networkVars /\ NetworkFairness
-----------------------------------------------------------------------------
(* Properties *)

\* Every part keeps its types.
NetworkTypeOK ==
    /\ moves \in Loops
    /\ PeerTypeOK /\ DialTypeOK /\ RegTypeOK /\ ReleaseTypeOK /\ LifeTypeOK

\* AnnouncedHeightReached of PeerSync.
PeersCatchUp == moves = "peers" => AnnouncedHeightReached

\* ListedDialedUnlessStopped of Dialing.
ListedNodeDialed == moves = "dialing" => ListedDialedUnlessStopped

\* DirectorySettles of Registry.
DirectorySettled == moves = "registry" => DirectorySettles

\* LatestInstalled of ReleaseUpdate.
ReleaseInstalled == moves = "release" => LatestInstalled

\* StopEnds of Lifecycle.
StopsInTime == moves = "life" => StopEnds

\* HttpAnswered of Lifecycle.
HttpServed == moves = "life" => HttpAnswered
=============================================================================
