------------------------------ MODULE WsServer ------------------------------
(***************************************************************************)
(* The WebSocket JSON-RPC server (ws_server.cpp).  One service thread gets *)
(* the pieces of every message from libwebsockets, puts them together per  *)
(* connection, drops what is too long, answers, and closes; other threads  *)
(* push events to subscribers.  What a request does to the chain is in the *)
(* other modules; here it is its length and its kind.                      *)
(***************************************************************************)
EXTENDS Naturals, SequencesExt

CONSTANTS
    Clients,
    Requests,  \* what clients send, by name
    SizeOf,    \* SizeOf[r]: its length
    KindOf,    \* "submitblock", "sendtransaction", "subscribe" or "list", which is
               \* JSON but not an object
    MaxWs,     \* kMaxWsMessage
    MaxTx,     \* kMaxTxJsonBytes and the envelope
    Piece,     \* rx chunk of libwebsockets
    MaxSent,   \* bound: requests of a connection
    MaxConnects \* bound: connections

ASSUME WsAssumption ==
    /\ \A r \in Requests : SizeOf[r] \in Nat \ {0}
    /\ Requests \intersect {"none", "event"} = {}
    /\ {MaxWs, MaxTx, Piece, MaxSent, MaxConnects} \subseteq Nat

VARIABLES
    wsRunning,  \* running_, and the context exists
    conn,       \* WsConnData of each client: rx is the length received so far
    wire,       \* the request a client is sending: its length not yet received
    sent,       \* requests of the connection that were received to the end
    answers,    \* what the connection was sent, in order
    connects

wsVars == <<wsRunning, conn, wire, sent, answers, connects>>

NoConn == [open |-> FALSE, rx |-> 0, skip |-> FALSE, sub |-> FALSE]
NoWire == [req |-> "none", left |-> 0]

Answer(r, n) == [to |-> r, parsed |-> n]
Event == [to |-> "event", parsed |-> 0]

Message == [to : Requests \cup {"event"}, parsed : 0..MaxWs]

WsTypeOK ==
    /\ wsRunning \in BOOLEAN
    /\ conn \in [Clients -> [open : BOOLEAN, rx : 0..MaxWs, skip : BOOLEAN, sub : BOOLEAN]]
    /\ wire \in [Clients -> [req : Requests \cup {"none"}, left : Nat]]
    /\ sent \in [Clients -> Seq(Requests)]
    /\ answers \in [Clients -> Seq(Message)]
    /\ connects \in 0..MaxConnects

WsInit ==
    /\ wsRunning = TRUE
    /\ conn = [c \in Clients |-> NoConn]
    /\ wire = [c \in Clients |-> NoWire]
    /\ sent = [c \in Clients |-> << >>]
    /\ answers = [c \in Clients |-> << >>]
    /\ connects = 0
-----------------------------------------------------------------------------
(* callback_pisecure *)

\* LWS_CALLBACK_ESTABLISHED
Established(c) ==
    /\ wsRunning /\ ~conn[c].open
    /\ connects < MaxConnects
    /\ connects' = connects + 1
    /\ conn' = [conn EXCEPT ![c] = [NoConn EXCEPT !.open = TRUE]]
    /\ sent' = [sent EXCEPT ![c] = << >>]
    /\ answers' = [answers EXCEPT ![c] = << >>]
    /\ UNCHANGED <<wsRunning, wire>>

\* The client begins a request.
Asks(c, r) ==
    /\ conn[c].open /\ wire[c] = NoWire
    /\ Len(sent[c]) < MaxSent
    /\ wire' = [wire EXCEPT ![c] = [req |-> r, left |-> SizeOf[r]]]
    /\ UNCHANGED <<wsRunning, conn, sent, answers, connects>>

\* A piece of n comes in; it is the last one of the request when none is left.
Arrives(c, n) ==
    /\ wsRunning /\ conn[c].open /\ wire[c] # NoWire
    /\ n <= wire[c].left
    /\ LET r == wire[c].req IN
       IF n = wire[c].left
       THEN wire' = [wire EXCEPT ![c] = NoWire] /\ sent' = [sent EXCEPT ![c] = Append(@, r)]
       ELSE wire' = [wire EXCEPT ![c].left = @ - n] /\ UNCHANGED sent

Final(c, n) == n = wire[c].left

\* The rest of a request that was too long.
ReceiveSkipped(c, n) ==
    /\ Arrives(c, n)
    /\ conn[c].skip
    /\ conn' = [conn EXCEPT ![c].skip = ~Final(c, n), ![c].rx = 0]
    /\ UNCHANGED <<wsRunning, answers, connects>>

TooLong(c, n) == conn[c].rx + n > MaxWs

FaultySkips(c, n) == TRUE

\* The rest is skipped unless this piece was the last.
Skips(c, n) == ~Final(c, n)

\* Over the cap: answered at once, without an id, and not parsed.
ReceiveTooLong(c, n) ==
    /\ Arrives(c, n)
    /\ ~conn[c].skip /\ TooLong(c, n)
    /\ conn' = [conn EXCEPT ![c].skip = Skips(c, n), ![c].rx = 0]
    /\ answers' = [answers EXCEPT ![c] = Append(@, Answer(wire[c].req, 0))]
    /\ UNCHANGED <<wsRunning, connects>>

ReceivePart(c, n) ==
    /\ Arrives(c, n)
    /\ ~conn[c].skip /\ ~TooLong(c, n) /\ ~Final(c, n)
    /\ conn' = [conn EXCEPT ![c].rx = @ + n]
    /\ UNCHANGED <<wsRunning, answers, connects>>

\* The answers to a whole request of length n: handle_request's own, and one
\* more for JSON that is not an object, whose method cannot be read after it.
Answers(r, n) ==
    IF KindOf[r] # "submitblock" /\ n > MaxTx THEN <<Answer(r, 0)>>
    ELSE IF KindOf[r] = "list" THEN <<Answer(r, n), Answer(r, n)>>
    ELSE IF KindOf[r] = "subscribe" THEN <<Answer(r, n), Event>>
    ELSE <<Answer(r, n)>>

ReceiveWhole(c, n) ==
    /\ Arrives(c, n)
    /\ ~conn[c].skip /\ ~TooLong(c, n) /\ Final(c, n)
    /\ LET r == wire[c].req
           whole == conn[c].rx + n IN
       /\ conn' = [conn EXCEPT ![c].rx = 0,
                               ![c].sub = @ \/ (KindOf[r] = "subscribe" /\ whole <= MaxTx)]
       /\ answers' = [answers EXCEPT ![c] = @ \o Answers(r, whole)]
    /\ UNCHANGED <<wsRunning, connects>>

\* LWS_CALLBACK_CLOSED
Closed(c) ==
    /\ conn[c].open
    /\ conn' = [conn EXCEPT ![c] = NoConn]
    /\ wire' = [wire EXCEPT ![c] = NoWire]
    /\ UNCHANGED <<wsRunning, sent, answers, connects>>

\* broadcast_block, broadcast_bucket_update, broadcast_threat, under conns_mutex_.
Broadcast ==
    /\ wsRunning
    /\ \E c \in Clients : conn[c].sub /\ Len(answers[c]) < 2 * MaxSent
    /\ answers' = [c \in Clients |-> IF conn[c].sub THEN Append(answers[c], Event)
                                                    ELSE answers[c]]
    /\ UNCHANGED <<wsRunning, conn, wire, sent, connects>>

\* stop: the service thread leaves its loop, the context closes every connection.
Stop ==
    /\ wsRunning /\ wsRunning' = FALSE
    /\ conn' = [c \in Clients |-> NoConn]
    /\ wire' = [c \in Clients |-> NoWire]
    /\ UNCHANGED <<sent, answers, connects>>
-----------------------------------------------------------------------------
WsNext ==
    \/ \E c \in Clients :
         \/ Established(c) \/ Closed(c)
         \/ \E r \in Requests : Asks(c, r)
         \/ \E n \in 1..Piece : \/ ReceiveSkipped(c, n) \/ ReceiveTooLong(c, n)
                                \/ ReceivePart(c, n) \/ ReceiveWhole(c, n)
    \/ Broadcast \/ Stop

WsSpec == WsInit /\ [][WsNext]_wsVars
-----------------------------------------------------------------------------
(* Properties *)

\* What a connection was sent, less the events that were pushed.
Reply(acc, a) == IF a.to = "event" THEN acc ELSE Append(acc, a)
RepliesIn(messages) == FoldLeft(Reply, << >>, messages)

Replies(c) == RepliesIn(answers[c])
Expected(c) ==
    IF wire[c].req # "none" /\ conn[c].skip THEN Append(sent[c], wire[c].req) ELSE sent[c]

\* However requests are cut into pieces and whatever was too long before, the
\* client is answered once for each request, in the order it sent them, and what
\* is parsed is the whole request, nothing of another one and never longer than
\* its cap; JSON that is not an object is set aside, it is answered twice
\* (callback_pisecure, LWS_CALLBACK_RECEIVE).
AnsweredOnceInOrder ==
    \A c \in Clients :
        conn[c].open /\ (\A r \in Requests : KindOf[r] = "list" => r \notin ToSet(sent[c])) =>
            /\ [i \in DOMAIN Replies(c) |-> Replies(c)[i].to] = Expected(c)
            /\ \A a \in ToSet(Replies(c)) :
                 a.parsed # 0 => /\ a.parsed = SizeOf[a.to]
                                 /\ KindOf[a.to] = "submitblock" \/ a.parsed <= MaxTx
=============================================================================
