------------------------------ MODULE Dialing -------------------------------
(***************************************************************************)
(* Who a node connects to (p2p.cpp): the address list with its failures    *)
(* and bans, the three threads that dial (connectLoop, the heartbeat with  *)
(* exchangeAddresses and refreshBootstrapHints, and the message thread     *)
(* with handleAddr and handleVerack), the accept thread, and the two       *)
(* mutexes between them.  An address stands for host and port; an address  *)
(* on a list is ordered as it likes.                                       *)
(***************************************************************************)
EXTENDS Naturals, FiniteSets

CONSTANTS
    Addrs,
    Kind,             \* Kind[a]: "public", "lan", "elsewhere" (a private net not ours), "own"
    Host,             \* Host[a]: "answers", "refuses" or "silent" (the dial times out)
    Peers,            \* --peer: the list at the start
    Directory,        \* what the bootstrap directory may list as accepting inbound
    Told,             \* what a peer's ADDR may name
    Conn, Beat, Msg,  \* the dialing threads
    Free,
    MaxOutbound,      \* MAX_OUTBOUND_CONNECTIONS (8)
    MaxPeers,         \* MAX_PEERS (125)
    SelectBelow,      \* select passes over an address with as many failures (5)
    BanAt             \* failures at which markFailure bans (10)

DialThreads == {Conn, Beat, Msg}

ASSUME DialingAssumption ==
    /\ Free \notin DialThreads
    /\ Kind \in [Addrs -> {"public", "lan", "elsewhere", "own"}]
    /\ Host \in [Addrs -> {"answers", "refuses", "silent"}]
    /\ Peers \subseteq Addrs /\ Directory \subseteq Addrs /\ Told \subseteq Addrs
    /\ {MaxOutbound, MaxPeers, SelectBelow, BanAt} \subseteq Nat \ {0}

VARIABLES
    failures,   \* addrList: each listed address with its failures
    banned,     \* bannedIPs
    listed,     \* what the directory lists now
    out,        \* out[a]: open outbound Peer objects for a in peers_
    shut,       \* closed outbound Peer objects still in peers_
    inbound,    \* inbound Peer objects in peers_
    accepting,  \* acceptConnection passed shouldAcceptConnection
    at,         \* at[t]: where dialing thread t is
    addrLock,   \* who holds AddrMan::mutex_
    peersLock   \* who holds peersMutex_

dialVars == <<failures, banned, listed, out, shut, inbound, accepting, at,
              addrLock, peersLock>>

Steps == {"idle", "select", "targets", "dial", "failed", "banning", "connected", "attempt"}
AtIdle == [step |-> "idle", addr |-> {}, todo |-> {}]

DialTypeOK ==
    /\ DOMAIN failures \subseteq Addrs
    /\ failures \in [DOMAIN failures -> 0..BanAt]
    /\ banned \subseteq Addrs /\ listed \subseteq Directory
    /\ out \in [Addrs -> Nat] /\ shut \in Nat /\ inbound \in Nat
    /\ accepting \in BOOLEAN
    /\ at \in [DialThreads -> [step : Steps, addr : SUBSET Addrs, todo : SUBSET Addrs]]
    /\ addrLock \in DialThreads \union {Free} /\ peersLock \in DialThreads \union {Free}

DialInit ==
    /\ failures = [a \in Peers |-> 0]
    /\ banned = {} /\ listed = {}
    /\ out = [a \in Addrs |-> 0] /\ shut = 0 /\ inbound = 0
    /\ accepting = FALSE
    /\ at = [t \in DialThreads |-> AtIdle]
    /\ addrLock = Free /\ peersLock = Free
-----------------------------------------------------------------------------
\* The open outbound Peer objects in peers_.
OpenPeers == UNION {{a} \X (1..out[a]) : a \in Addrs}

OpenOut == Cardinality(OpenPeers)

FaultyOutboundCount == OpenOut

\* getOutboundCount: closed peers count until the message thread removes them.
OutboundCount == OpenOut + shut

FaultyShouldDial(a) == Kind[a] = "lan"

\* publicUnicastHost, or privateUnicastHost on a network of ours; never this node.
ShouldDial(a) == Kind[a] \in {"public", "lan"}

ConnectedTo(a) == out[a] > 0

\* Thread t is at step s with the targets todo left and, in addr, the one it dials.
Goes(t, s, addr, todo) == at' = [at EXCEPT ![t] = [step |-> s, addr |-> addr, todo |-> todo]]

\* connectToPeer returned: connectLoop sleeps, dialDirectoryPeers goes on.
Returns(t) == IF t = Conn THEN Goes(t, "idle", {}, {})
                          ELSE Goes(t, "targets", {}, at[t].todo)
-----------------------------------------------------------------------------
(* Where the targets come from *)

\* connectLoop, every 10 seconds.
ConnectLoop ==
    /\ at[Conn].step = "idle"
    /\ peersLock = Free
    /\ OutboundCount < MaxOutbound
    /\ Goes(Conn, "select", {}, {})
    /\ UNCHANGED <<failures, banned, listed, out, shut, inbound, accepting, addrLock, peersLock>>

\* AddrMan::select; without a candidate it throws and connectLoop sleeps.
Select ==
    /\ at[Conn].step = "select"
    /\ addrLock = Free
    /\ LET viable == {a \in DOMAIN failures \ banned : failures[a] < SelectBelow} IN
         IF viable = {} THEN Goes(Conn, "idle", {}, {})
         ELSE \E a \in viable : Goes(Conn, "dial", {a}, {})
    /\ UNCHANGED <<failures, banned, listed, out, shut, inbound, accepting, addrLock, peersLock>>

\* exchangeAddresses of the heartbeat, and of a handshake that completes:
\* getMany passes over banned addresses, not over failing ones.
ExchangeAddresses(t) ==
    /\ t \in {Beat, Msg}
    /\ at[t].step = "idle"
    /\ t = Msg => inbound + OpenOut > 0
    /\ peersLock = Free /\ addrLock = Free
    /\ Goes(t, "targets", {}, DOMAIN failures \ banned)
    /\ UNCHANGED <<failures, banned, listed, out, shut, inbound, accepting, addrLock, peersLock>>

\* refreshBootstrapHints, every 30 seconds: the listed nodes are dialed.
RefreshBootstrapHints ==
    /\ at[Beat].step = "idle"
    /\ Goes(Beat, "targets", {}, listed)
    /\ UNCHANGED <<failures, banned, listed, out, shut, inbound, accepting, addrLock, peersLock>>

\* handleAddr: an ADDR is added to the list, less what is banned, and dialed.
HandleAddr ==
    /\ at[Msg].step = "idle"
    /\ inbound + OpenOut > 0
    /\ addrLock = Free
    /\ \E addrs \in SUBSET Told \ {{}} :
         /\ failures' = [a \in DOMAIN failures \union (addrs \ banned) |->
                           IF a \in DOMAIN failures THEN failures[a] ELSE 0]
         /\ Goes(Msg, "targets", {}, addrs)
    /\ UNCHANGED <<banned, listed, out, shut, inbound, accepting, addrLock, peersLock>>

\* A node registers with the directory.
Join(a) ==
    /\ a \in Directory \ listed
    /\ listed' = listed \union {a}
    /\ UNCHANGED <<failures, banned, out, shut, inbound, accepting, at, addrLock, peersLock>>
-----------------------------------------------------------------------------
(* dialDirectoryPeers and connectToPeer *)

\* The next target: nothing is dialed any more when enough are connected.
NextTarget(t, a) ==
    IF OutboundCount >= MaxOutbound THEN Goes(t, "idle", {}, {})
    ELSE IF ~ShouldDial(a) \/ ConnectedTo(a) THEN Goes(t, "targets", {}, at[t].todo \ {a})
    ELSE Goes(t, "dial", {a}, at[t].todo \ {a})

DialTargets(t) ==
    /\ at[t].step = "targets"
    /\ peersLock = Free
    /\ IF at[t].todo = {} THEN Goes(t, "idle", {}, {})
       ELSE \E a \in at[t].todo : NextTarget(t, a)
    /\ UNCHANGED <<failures, banned, listed, out, shut, inbound, accepting, addrLock, peersLock>>

\* connectToPeer: the node's own address is skipped; then connect and select
\* for up to five seconds, with no lock held.
Connect(t) ==
    /\ at[t].step = "dial"
    /\ \E a \in at[t].addr :
         IF Kind[a] = "own" THEN Returns(t)
         ELSE Goes(t, IF Host[a] = "silent" THEN "failed" ELSE "connected", {a}, at[t].todo)
    /\ UNCHANGED <<failures, banned, listed, out, shut, inbound, accepting, addrLock, peersLock>>

\* markFailure.  At the last failure it calls ban, which waits for the mutex
\* this thread holds: no step leads on from "banning".
MarkFailure(t) ==
    /\ at[t].step = "failed"
    /\ addrLock = Free
    /\ \E a \in at[t].addr :
         /\ failures' = [b \in DOMAIN failures |-> failures[b] + (IF b = a THEN 1 ELSE 0)]
         /\ IF a \in DOMAIN failures /\ failures[a] + 1 >= BanAt
            THEN addrLock' = t /\ Goes(t, "banning", {a}, at[t].todo)
            ELSE addrLock' = addrLock /\ Returns(t)
    /\ UNCHANGED <<banned, listed, out, shut, inbound, accepting, peersLock>>

\* The peer is added to peers_ and VERSION sent; a refused connection shows
\* only now.  peersMutex_ stays locked ...
AddPeer(t) ==
    /\ at[t].step = "connected"
    /\ peersLock = Free
    /\ \E a \in at[t].addr :
         /\ IF Host[a] = "answers"
            THEN out' = [out EXCEPT ![a] = @ + 1] /\ shut' = shut
            ELSE out' = out /\ shut' = shut + 1
         /\ Goes(t, "attempt", {a}, at[t].todo)
    /\ peersLock' = t
    /\ UNCHANGED <<failures, banned, listed, inbound, accepting, addrLock>>

\* ... over markAttempt.
MarkAttempt(t) ==
    /\ at[t].step = "attempt"
    /\ addrLock = Free
    /\ peersLock' = Free
    /\ Returns(t)
    /\ UNCHANGED <<failures, banned, listed, out, shut, inbound, accepting, addrLock>>
-----------------------------------------------------------------------------
(* Inbound connections and the end of connections *)

\* shouldAcceptConnection, once the probe found the port reachable (Registry).
ShouldAcceptConnection ==
    /\ ~accepting
    /\ peersLock = Free
    /\ OutboundCount + inbound < MaxPeers
    /\ accepting' = TRUE
    /\ UNCHANGED <<failures, banned, listed, out, shut, inbound, at, addrLock, peersLock>>

\* A connection arrives and is not banned; between the two locks others may dial.
AcceptConnection ==
    /\ accepting
    /\ peersLock = Free
    /\ inbound' = inbound + 1
    /\ accepting' = FALSE
    /\ UNCHANGED <<failures, banned, listed, out, shut, at, addrLock, peersLock>>

\* An outbound connection ends.
Close(a) ==
    /\ out[a] > 0
    /\ out' = [out EXCEPT ![a] = @ - 1]
    /\ shut' = shut + 1
    /\ UNCHANGED <<failures, banned, listed, inbound, accepting, at, addrLock, peersLock>>

\* processMessages: the ban score of a peer reached its threshold.
BanPeer(a) ==
    /\ at[Msg].step = "idle"
    /\ out[a] > 0
    /\ addrLock = Free
    /\ banned' = banned \union {a}
    /\ out' = [out EXCEPT ![a] = @ - 1]
    /\ shut' = shut + 1
    /\ UNCHANGED <<failures, listed, inbound, accepting, at, addrLock, peersLock>>

\* messageLoop removes what is closed, inbound or outbound.
RemoveClosed ==
    /\ at[Msg].step = "idle"
    /\ peersLock = Free
    /\ \E i \in 0..inbound :
         /\ shut + i > 0
         /\ inbound' = inbound - i
    /\ shut' = 0
    /\ UNCHANGED <<failures, banned, listed, out, accepting, at, addrLock, peersLock>>
-----------------------------------------------------------------------------
DialerStep(t) ==
    \/ ExchangeAddresses(t) \/ DialTargets(t)
    \/ Connect(t) \/ MarkFailure(t) \/ AddPeer(t) \/ MarkAttempt(t)

ConnStep == ConnectLoop \/ Select \/ DialerStep(Conn)
BeatStep == RefreshBootstrapHints \/ DialerStep(Beat)
MsgStep  == HandleAddr \/ RemoveClosed \/ (\E a \in Addrs : BanPeer(a)) \/ DialerStep(Msg)

DialNext ==
    \/ ConnStep \/ BeatStep \/ MsgStep
    \/ ShouldAcceptConnection \/ AcceptConnection
    \/ \E a \in Addrs : Join(a) \/ Close(a)

DialSpec == DialInit /\ [][DialNext]_dialVars

\* Each thread goes on; the heartbeat asks the directory again and again.
DialFairSpec ==
    /\ DialSpec
    /\ WF_dialVars(ConnStep) /\ WF_dialVars(BeatStep) /\ WF_dialVars(MsgStep)
    /\ SF_dialVars(RefreshBootstrapHints)
-----------------------------------------------------------------------------
(* Properties *)

\* Each dialer counts before it connects and the count is not held
\* (connectLoop, dialDirectoryPeers): the limits of p2p.hpp:28-29 are passed by
\* what the other dialers add in between, and by no more.
ConnectionsBounded ==
    /\ OpenOut + shut <= MaxOutbound + Cardinality(DialThreads) - 1
    /\ OpenOut + shut + inbound <= MaxPeers + MaxOutbound + Cardinality(DialThreads) - 1

\* A node with an open port that the directory comes to list is dialed
\* (refreshBootstrapHints), whatever the other dialers do meanwhile, unless the
\* outbound connections are full or a thread has stopped in the ban of
\* markFailure, which keeps the address list locked for good.
ListedDialedUnlessStopped ==
    \A a \in Directory :
      (a \in listed /\ Kind[a] = "public" /\ Host[a] = "answers")
        ~> (out[a] > 0 \/ OpenOut + shut >= MaxOutbound \/ addrLock # Free)

\* README.md:24: "An extra node that can accept inbound port 3141 is dialed by
\* nodes that already have the chain."
ExtraNodeDialed ==
    \A a \in Directory :
      (a \in listed /\ Kind[a] = "public" /\ Host[a] = "answers") ~> (out[a] > 0)
=============================================================================
