----------------------------- MODULE PeerSync ------------------------------
(***************************************************************************)
(* Nodes that bring each other up to date (p2p.cpp): connections, the      *)
(* VERSION/VERACK handshake, GETHEADERS, HEADERS, GETDATA, INV and BLOCK,  *)
(* the heartbeat that asks taller peers again, and connections that break. *)
(*                                                                         *)
(* One message thread per node handles one message at a time, to its end;  *)
(* only the headers of an answer are read one by one, since each read      *)
(* takes io_mutex_ anew and the heartbeat thread may adopt in between.     *)
(* submitblock and an adoption are single steps here: NodeChain has their  *)
(* own steps.  All blocks are valid and no clock is ahead.                 *)
(***************************************************************************)
EXTENDS Naturals, Sequences, SequencesExt

CONSTANTS
    Nodes, Nobody,
    Links,          \* pairs <<dialer, acceptor>> that connectLoop may connect
    Blocks,         \* every block that can be mined
    Branch,         \* Branch[b]: the chain from height 1 up to and including b
    Start,          \* Start[n]: the tips node n may start with
    Forsaken,       \* Forsaken[n]: blocks of a branch n left before and still indexes
    MaxHeaders,     \* headers in one HEADERS message (2000)
    MaxLocator,     \* recent hashes in a locator (10)
    MaxHeld,        \* blocks heldBlocks_ has room for (4000)
    MaxRefused,     \* and tips refusedTips_ has (256)
    MaxMishaps,     \* bound: connections that break, adoptions in the way of another
    MaxWire         \* bound: the heartbeat asks no peer with as many messages in flight

\* A block determines its ancestry, as in NodeChain.
ASSUME TreeAssumption ==
    /\ Branch \in [Blocks -> Seq(Blocks)]
    /\ \A b \in Blocks :
         /\ Len(Branch[b]) >= 1
         /\ Branch[b][Len(Branch[b])] = b
         /\ \A i \in 1..Len(Branch[b]) :
              Branch[Branch[b][i]] = SubSeq(Branch[b], 1, i)

ASSUME NetAssumption ==
    /\ Nobody \notin Nodes
    /\ Links \subseteq {l \in Nodes \X Nodes : l[1] # l[2]}
    /\ Start \in [Nodes -> SUBSET Blocks]
    /\ Forsaken \in [Nodes -> SUBSET Blocks]
    /\ {MaxHeaders, MaxLocator, MaxHeld, MaxRefused} \subseteq Nat \ {0}
    /\ MaxMishaps \in Nat /\ MaxWire \in Nat

VARIABLES
    store,    \* store[n]: blocks the index of n can name (headers_cache_)
    tip,      \* tip[n]: the last block of its active chain
    held,     \* heldBlocks_, the oldest first
    refused,  \* refusedTips_, the oldest first
    evicted,  \* blocks a full heldBlocks_ put out that did not come again (a history
              \* variable)
    peer,     \* peer[n][m]: the Peer object n keeps for m, or NoPeer
    wire,     \* wire[n][m]: bytes from n to m, as messages in order
    serving,  \* the answer to GETHEADERS a message thread is collecting
    mishaps   \* of those, so far

chainVars == <<store, tip, held, refused, evicted>>
peerVars == <<store, tip, held, refused, evicted, peer, wire, serving, mishaps>>

Height(b) == Len(Branch[b])
Parents(b) == {c \in Range(Branch[b]) : Height(c) = Height(b) - 1}   \* none at height 1
OnChain(c, b) == Height(c) <= Height(b) /\ Branch[b][Height(c)] = c
Best(n) == Height(tip[n])

NoPeer == [open |-> FALSE]

\* Peer::Peer, after sendVersion.
NewPeer ==
    [open |-> TRUE, versionReceived |-> FALSE, complete |-> FALSE,
     startHeight |-> 0, askedFromStart |-> FALSE, knownInv |-> {}]

PeerType ==
    {NoPeer} \union
    [open : {TRUE}, versionReceived : BOOLEAN, complete : BOOLEAN,
     startHeight : Nat, askedFromStart : BOOLEAN, knownInv : SUBSET Blocks]

Message ==
    [type : {"VERSION"}, height : Nat] \union [type : {"VERACK"}] \union
    [type : {"GETHEADERS"}, locator : Seq(Blocks)] \union
    [type : {"HEADERS", "GETDATA"}, list : Seq(Blocks)] \union
    [type : {"INV", "BLOCK"}, block : Blocks]

Idle == [to |-> Nobody]
Answer == {Idle} \union [to : Nodes, next : Nat, last : Nat, list : Seq(Blocks)]

\* The types, and the two ends of a connection exist together once both have it.
PeerTypeOK ==
    /\ store \in [Nodes -> SUBSET Blocks]
    /\ tip \in [Nodes -> Blocks]
    /\ held \in [Nodes -> Seq(Blocks)]
    /\ refused \in [Nodes -> Seq(Blocks)]
    /\ evicted \in [Nodes -> SUBSET Blocks]
    /\ peer \in [Nodes -> [Nodes -> PeerType]]
    /\ wire \in [Nodes -> [Nodes -> Seq(Message)]]
    /\ serving \in [Nodes -> Answer]
    /\ mishaps \in 0..MaxMishaps

PeerInit ==
    /\ tip \in {t \in [Nodes -> Blocks] : \A n \in Nodes : t[n] \in Start[n]}
    /\ \E left \in [Nodes -> SUBSET Blocks] :
         /\ \A n \in Nodes : left[n] \subseteq Forsaken[n]
         /\ store = [n \in Nodes |-> Range(Branch[tip[n]]) \union left[n]]
    /\ held = [n \in Nodes |-> << >>]
    /\ refused = [n \in Nodes |-> << >>]
    /\ evicted = [n \in Nodes |-> {}]
    /\ peer = [n \in Nodes |-> [m \in Nodes |-> NoPeer]]
    /\ wire = [n \in Nodes |-> [m \in Nodes |-> << >>]]
    /\ serving = [n \in Nodes |-> Idle]
    /\ mishaps = 0
-----------------------------------------------------------------------------
(* Messages *)

Version(n)       == [type |-> "VERSION", height |-> Best(n)]
Verack           == [type |-> "VERACK"]
GetHeaders(loc)  == [type |-> "GETHEADERS", locator |-> loc]
Headers(list)    == [type |-> "HEADERS", list |-> list]
GetData(list)    == [type |-> "GETDATA", list |-> list]
Inv(b)           == [type |-> "INV", block |-> b]
BlockMsg(b)      == [type |-> "BLOCK", block |-> b]

\* get_block_locator_hashes: the newest blocks, newest first.  The hash of
\* height 0 behind them is nobody's block.
Locator(t) ==
    LET all == Reverse(Branch[t])
    IN  SubSeq(all, 1, IF Len(all) < MaxLocator THEN Len(all) ELSE MaxLocator)

\* The blocks of a list that are in a set, in their order.
Picked(a, b) == IF b \in a.of THEN [a EXCEPT !.list = Append(@, b)] ELSE a
Among(S, list) == FoldLeft(Picked, [of |-> S, list |-> << >>], list).list

\* gossipBlock of one block, and of each block of bs to every peer whose
\* handshake is complete.
GossipBlock(msgs, b) == msgs \o <<Inv(b), BlockMsg(b)>>
Gossip(n, bs) ==
    [m \in Nodes |-> IF peer[n][m].open /\ peer[n][m].complete
                     THEN FoldLeft(GossipBlock, << >>, bs) ELSE << >>]

\* Node n handles the first message of m and sends out[k] to each k.
Sent(n, out) == [wire EXCEPT ![n] = [k \in Nodes |-> @[k] \o out[k]]]
Handled(n, m, out) == [Sent(n, out) EXCEPT ![m][n] = Tail(@)]
Only(m, msgs) == [k \in Nodes |-> IF k = m THEN msgs ELSE << >>]

\* The message at the head of the wire from m, which n's thread takes next.
Takes(n, m, type) ==
    /\ peer[n][m].open
    /\ serving[n] = Idle
    /\ wire[m][n] # << >>
    /\ Head(wire[m][n]).type = type

\* Both ends are closed and what is on the wires is lost.
Closed(n, m) ==
    /\ peer' = [peer EXCEPT ![n][m] = NoPeer, ![m][n] = NoPeer]
    /\ wire' = [wire EXCEPT ![n][m] = << >>, ![m][n] = << >>]
    /\ serving' = [k \in Nodes |-> IF k \in {n, m} /\ serving[k].to \in {n, m}
                                   THEN Idle ELSE serving[k]]
-----------------------------------------------------------------------------
(* Connections *)

\* connectToPeer: the peer is listed and VERSION is sent at once.
Dial(n, m) ==
    /\ <<n, m>> \in Links
    /\ ~peer[n][m].open /\ ~peer[m][n].open
    /\ peer' = [peer EXCEPT ![n][m] = NewPeer]
    /\ wire' = [wire EXCEPT ![n][m] = <<Version(n)>>]
    /\ UNCHANGED <<chainVars, serving, mishaps>>

\* acceptConnection.
Accept(n, m) ==
    /\ peer[m][n].open
    /\ ~peer[n][m].open
    /\ peer' = [peer EXCEPT ![n][m] = NewPeer]
    /\ wire' = [wire EXCEPT ![n][m] = <<Version(n)>>]
    /\ UNCHANGED <<chainVars, serving, mishaps>>

\* The connection breaks: recv fails, the socket buffer stays full for 20
\* seconds, or a timeout of pingLoop.
Drop(n, m) ==
    /\ mishaps < MaxMishaps
    /\ peer[n][m].open
    /\ Closed(n, m)
    /\ mishaps' = mishaps + 1
    /\ UNCHANGED chainVars

HandleVersion(n, m) ==
    /\ Takes(n, m, "VERSION")
    /\ LET msg == Head(wire[m][n]) IN
         IF peer[n][m].versionReceived
         THEN /\ wire' = Handled(n, m, Only(m, << >>))
              /\ UNCHANGED peer
         ELSE /\ wire' = Handled(n, m, Only(m, <<Verack>>))
              /\ peer' = [peer EXCEPT ![n][m].versionReceived = TRUE,
                                      ![n][m].startHeight = msg.height]
    /\ UNCHANGED <<chainVars, serving, mishaps>>

\* The peer announced a greater height in its VERSION than this node has now.
MustAsk(n, m) == peer[n][m].startHeight > Best(n)

HandleVerack(n, m) ==
    /\ Takes(n, m, "VERACK")
    /\ wire' = Handled(n, m, Only(m, IF ~peer[n][m].complete /\ MustAsk(n, m)
                                     THEN <<GetHeaders(Locator(tip[n]))>> ELSE << >>))
    /\ peer' = [peer EXCEPT ![n][m].complete = TRUE]
    /\ UNCHANGED <<chainVars, serving, mishaps>>
-----------------------------------------------------------------------------
(* Headers *)

\* The height after the first hash of the locator that n can name.
StartHeight(n, locator) ==
    LET known == Among(store[n], locator) IN
    IF known = << >> THEN 1 ELSE Height(Head(known)) + 1

\* handleGetHeaders looks up the locator and the greatest height ...
HandleGetHeaders(n, m) ==
    /\ Takes(n, m, "GETHEADERS")
    /\ serving' = [serving EXCEPT ![n] =
         [to |-> m, next |-> StartHeight(n, Head(wire[m][n]).locator),
          last |-> Best(n), list |-> << >>]]
    /\ wire' = Handled(n, m, Only(m, << >>))
    /\ UNCHANGED <<chainVars, peer, mishaps>>

MoreHeaders(n) ==
    /\ serving[n].next <= serving[n].last
    /\ Len(serving[n].list) < MaxHeaders

\* ... reads the active chain at one height after the other ...
ReadHeader(n) ==
    /\ serving[n] # Idle
    /\ MoreHeaders(n)
    /\ serving' = [serving EXCEPT ![n].next = @ + 1,
                                  ![n].list = Append(@, Branch[tip[n]][serving[n].next])]
    /\ UNCHANGED <<chainVars, peer, wire, mishaps>>

\* ... and sends what it found.
SendHeaders(n) ==
    /\ serving[n] # Idle
    /\ ~MoreHeaders(n)
    /\ wire' = Sent(n, Only(serving[n].to, IF serving[n].list = << >> THEN << >>
                                           ELSE <<Headers(serving[n].list)>>))
    /\ serving' = [serving EXCEPT ![n] = Idle]
    /\ UNCHANGED <<chainVars, peer, mishaps>>

\* The first header follows the zero hash or a block the index can name.
Placed(n, list) == Parents(list[1]) \subseteq store[n]

\* Each further header names the one before it.
Linked(list) == \A i \in 2..Len(list) : Parents(list[i]) = {list[i - 1]}

\* What handleHeaders asks for: the blocks that are not stored, and more
\* headers behind a full message.
Asked(n, list) ==
    LET missing == Among(Blocks \ store[n], list) IN
    (IF missing = << >> THEN << >> ELSE <<GetData(missing)>>) \o
    (IF Len(list) = MaxHeaders THEN <<GetHeaders(<<Last(list)>>)>> ELSE << >>)

\* A list that is not linked ("invalid header chain") ends the connection.
HandleHeaders(n, m) ==
    /\ Takes(n, m, "HEADERS")
    /\ LET list == Head(wire[m][n]).list IN
         /\ Placed(n, list)
         /\ IF Linked(list)
            THEN /\ wire' = Handled(n, m, Only(m, Asked(n, list)))
                 /\ UNCHANGED <<peer, serving>>
            ELSE Closed(n, m)
    /\ UNCHANGED <<chainVars, mishaps>>

\* "Header does not connect": ask from the start, once for each connection.
HandleStrayHeaders(n, m) ==
    /\ Takes(n, m, "HEADERS")
    /\ ~Placed(n, Head(wire[m][n]).list)
    /\ wire' = Handled(n, m, Only(m, IF peer[n][m].askedFromStart THEN << >>
                                     ELSE <<GetHeaders(<< >>)>>))
    /\ peer' = [peer EXCEPT ![n][m].askedFromStart = TRUE]
    /\ UNCHANGED <<chainVars, serving, mishaps>>
-----------------------------------------------------------------------------
(* Inventory and blocks *)

HandleInv(n, m) ==
    /\ Takes(n, m, "INV")
    /\ LET b == Head(wire[m][n]).block
           new == b \notin store[n] /\ b \notin peer[n][m].knownInv IN
         /\ wire' = Handled(n, m, Only(m, IF new THEN <<GetData(<<b>>)>> ELSE << >>))
         /\ peer' = IF b \in store[n] THEN peer
                    ELSE [peer EXCEPT ![n][m].knownInv = @ \union {b}]
    /\ UNCHANGED <<chainVars, serving, mishaps>>

FaultyServed(n, b) == b \in store[n] /\ Height(b) < Best(n)

\* handleGetData finds every block of the index, on the active chain or not.
Served(n, b) == b \in store[n]

HandleGetData(n, m) ==
    /\ Takes(n, m, "GETDATA")
    /\ LET found == Among({b \in Blocks : Served(n, b)}, Head(wire[m][n]).list) IN
         wire' = Handled(n, m, Only(m, [i \in DOMAIN found |-> BlockMsg(found[i])]))
    /\ UNCHANGED <<chainVars, peer, serving, mishaps>>

Extends(n, b) == Branch[b] = Append(Branch[tip[n]], b)

\* A list with room for max entries loses its oldest to a new one.
Pushed(list, x, max) == Append(IF Len(list) < max THEN list ELSE Tail(list), x)

\* noteOffTipBlock: a block that is held already keeps its place.
Noted(list, b) == IF b \in Range(list) THEN list ELSE Pushed(list, b, MaxHeld)

\* The block noted, the one it put out is held no more.
Evicting(n, b) ==
    evicted' = [evicted EXCEPT ![n] = (@ \union Range(held[n])) \ Range(Noted(held[n], b))]

\* Held blocks lead from c down to the active chain; c is strictly taller.
Fork(n, c) == Height(CHOOSE b \in Range(Branch[c]) :
                OnChain(b, tip[n]) /\ \A d \in Range(Branch[c]) :
                  OnChain(d, tip[n]) => Height(d) <= Height(b))
HandshakeJoined(n, c, pool) ==
    /\ \E b \in Range(Branch[c]) : OnChain(b, tip[n])
    /\ \A i \in (Fork(n, c) + 1)..Height(c) : Branch[c][i] \in pool
Adoptable(n, c, pool) ==
    /\ Height(c) > Best(n)
    /\ c \notin Range(refused[n])
    /\ HandshakeJoined(n, c, pool)

FaultyShortDropped(n, list) ==
    {[tip |-> tip[n], held |-> Among({b \in Blocks : Height(b) > Best(n)}, list),
      refused |-> refused[n], bodies |-> << >>]}

\* adoptLaterPeerChain with these held blocks: the results it can have.  A
\* branch whose first body the index already names is refused (NodeChain).
Adoptions(n, list) ==
    LET pool == {b \in Range(list) : ~OnChain(b, tip[n])}
        cand == {c \in pool : Adoptable(n, c, pool)}
        best == {c \in cand : \A d \in cand : Height(d) <= Height(c)}
        Result(c) ==
            LET bodies == SubSeq(Branch[c], Fork(n, c) + 1, Height(c)) IN
            IF bodies[1] \in store[n]
            THEN [tip |-> tip[n], held |-> Among(pool, list),
                  refused |-> Pushed(refused[n], c, MaxRefused), bodies |-> << >>]
            ELSE [tip |-> c, held |-> Among(pool \ Range(bodies), list),
                  refused |-> Among(Blocks \ {c}, refused[n]), bodies |-> bodies] IN
    IF best = {}
    THEN {[tip |-> tip[n], held |-> Among(pool, list), refused |-> refused[n],
           bodies |-> << >>]}
    ELSE {Result(c) : c \in best}

\* The node is where the adoption r left it.
After(n, r) ==
    /\ tip' = [tip EXCEPT ![n] = r.tip]
    /\ store' = [store EXCEPT ![n] = @ \union Range(r.bodies)]
    /\ held' = [held EXCEPT ![n] = r.held]
    /\ refused' = [refused EXCEPT ![n] = r.refused]

\* submitblock accepted a block that is new.
Stored(n, b) ==
    /\ tip' = [tip EXCEPT ![n] = b]
    /\ store' = [store EXCEPT ![n] = @ \union {b}]
    /\ UNCHANGED <<held, refused, evicted>>

\* A block that extends the tip; one already stored is accepted as a duplicate.
HandleBlock(n, m) ==
    /\ Takes(n, m, "BLOCK")
    /\ LET b == Head(wire[m][n]).block IN
         /\ Extends(n, b)
         /\ IF b \in store[n]
            THEN /\ wire' = Handled(n, m, Only(m, << >>))
                 /\ UNCHANGED chainVars
            ELSE /\ wire' = Handled(n, m, Gossip(n, <<b>>))
                 /\ Stored(n, b)
    /\ UNCHANGED <<peer, serving, mishaps>>

\* handleBlock once b is held and adoptLaterPeerChain left the node as r: a peer
\* that announced more than that is asked for headers.
OffTip(n, m, r) ==
    /\ After(n, r)
    /\ LET told == Gossip(n, r.bodies)
           ask  == IF peer[n][m].startHeight > Height(r.tip)
                   THEN <<GetHeaders(Locator(r.tip))>> ELSE << >> IN
         wire' = Handled(n, m, [told EXCEPT ![m] = @ \o ask])

\* A block off the tip is held and a taller branch is adopted.
HandleOffTip(n, m) ==
    /\ Takes(n, m, "BLOCK")
    /\ LET b == Head(wire[m][n]).block IN
         /\ ~Extends(n, b)
         /\ Evicting(n, b)
         /\ \E r \in Adoptions(n, Noted(held[n], b)) : OffTip(n, m, r)
    /\ UNCHANGED <<peer, serving, mishaps>>

\* The heartbeat is adopting: the mutex is only tried, and the block waits.
HandleOffTipBusy(n, m) ==
    /\ mishaps < MaxMishaps
    /\ Takes(n, m, "BLOCK")
    /\ LET b == Head(wire[m][n]).block IN
         /\ ~Extends(n, b)
         /\ Evicting(n, b)
         /\ OffTip(n, m, [tip |-> tip[n], held |-> Noted(held[n], b),
                          refused |-> refused[n], bodies |-> << >>])
    /\ mishaps' = mishaps + 1
    /\ UNCHANGED <<peer, serving>>

\* submitblock of a miner.
Mine(n, b) ==
    /\ Extends(n, b)
    /\ \A k \in Nodes : b \notin store[k]
    /\ Stored(n, b)
    /\ wire' = Sent(n, Gossip(n, <<b>>))
    /\ UNCHANGED <<peer, serving, mishaps>>

\* syncLaterPeers, every 30 seconds.
Heartbeat(n) ==
    /\ \E r \in Adoptions(n, held[n]) :
         /\ After(n, r)
         /\ LET told == Gossip(n, r.bodies)
                Ask(m) == IF /\ peer[n][m].open /\ peer[n][m].complete /\ MustAsk(n, m)
                             /\ Len(wire[n][m]) + Len(wire[m][n]) < MaxWire
                             /\ serving[m].to # n
                          THEN <<GetHeaders(Locator(tip[n]))>> ELSE << >> IN
            wire' = Sent(n, [m \in Nodes |-> Ask(m) \o told[m]])
    /\ UNCHANGED <<evicted, peer, serving, mishaps>>
-----------------------------------------------------------------------------
Receive(n) ==
    \E m \in Nodes :
      \/ HandleVersion(n, m) \/ HandleVerack(n, m) \/ HandleGetHeaders(n, m)
      \/ HandleHeaders(n, m) \/ HandleStrayHeaders(n, m)
      \/ HandleInv(n, m) \/ HandleGetData(n, m)
      \/ HandleBlock(n, m) \/ HandleOffTip(n, m) \/ HandleOffTipBusy(n, m)

MessageLoop(n) == Receive(n) \/ ReadHeader(n) \/ SendHeaders(n)

PeerNext ==
    \/ \E n \in Nodes : MessageLoop(n) \/ Heartbeat(n) \/ \E b \in Blocks : Mine(n, b)
    \/ \E n, m \in Nodes : Dial(n, m) \/ Accept(n, m) \/ Drop(n, m)

PeerSpec == PeerInit /\ [][PeerNext]_peerVars

\* The loops of the threads go on; nothing is assumed of miners and of
\* connections that break.
Fairness ==
    /\ \A n \in Nodes : WF_peerVars(MessageLoop(n)) /\ WF_peerVars(Heartbeat(n))
    /\ \A l \in Links : WF_peerVars(Dial(l[1], l[2])) /\ WF_peerVars(Accept(l[2], l[1]))

PeerFairSpec == PeerSpec /\ Fairness
-----------------------------------------------------------------------------
(* Properties *)

Sees(n, m, msg) == \E i \in DOMAIN wire[m][n] : wire[m][n][i] = msg
AsksFor(n, m, b) ==
    \E i \in DOMAIN wire[n][m] : /\ wire[n][m][i].type = "GETDATA"
                                 /\ b \in Range(wire[n][m][i].list)

\* Who can be connected to whom, and the heights a node may lack.
Pairs == Links \union {<<l[2], l[1]>> : l \in Links}
Heights == {Height(b) : b \in Blocks} \ {1}

\* The connection lasts, the peer announced a height n has not reached, and every
\* block n was sent found room.
Behind(n, m) ==
    peer[n][m].open /\ peer[n][m].complete /\ MustAsk(n, m) /\ evicted[n] = {}

\* handleInv asks a peer for a block only the first time it hears of it there
\* (knownInv), so the answer must not get lost while the connection lasts: the
\* block is asked for, on its way, held or stored; unless it was held, a later one
\* took its place in a full heldBlocks_, and it did not come again.
RequestIsAnswered ==
    \A n, m \in Nodes : peer[n][m].open =>
      \A b \in peer[n][m].knownInv :
        \/ b \in store[n] \union Range(held[n]) \union evicted[n]
        \/ AsksFor(n, m, b)
        \/ Sees(n, m, BlockMsg(b))

\* A node that heard in the handshake of a greater height reaches it, in one
\* HEADERS message or more, whatever else is mined and whichever thread adopts,
\* unless the connection breaks (handleVerack, handleHeaders, handleBlock,
\* syncLaterPeers) or a full heldBlocks_ puts out a body the rest may hang on.
\* This takes messages that reach past the node's own height: with shorter ones
\* TallerPeerWins fails.
AnnouncedHeightReached ==
    \A l \in Pairs : Behind(l[1], l[2]) ~> ~Behind(l[1], l[2])

\* docs/PI5_PISECURED.md:194: "A strictly taller peer chain that shares a
\* block replaces the local tip".
TallerPeerWins ==
    \A l \in Pairs : \A h \in Heights :
      LET n == l[1]  m == l[2] IN
      (peer[n][m].open /\ peer[n][m].complete /\ peer[m][n].open /\ Best(n) < h /\ Best(m) >= h)
        ~> (Best(n) >= h \/ ~peer[n][m].open)
=============================================================================
