--------------------------- MODULE Network_proofs ---------------------------
(***************************************************************************)
(* The parts of a node that move alone in MCNetwork.  PeerSync: a block a  *)
(* node asked a peer for once, and never asks it for again, is on its way, *)
(* held, stored or put out of a full heldBlocks_, as long as the           *)
(* connection lasts, for any nodes, connections and tree of blocks.        *)
(* ReleaseUpdate: the binary on the disk is whole at every moment, for any *)
(* number of releases and failures.  Registry, Lifecycle: types.           *)
(***************************************************************************)
EXTENDS PeerSync, ReleaseUpdate, Registry, Lifecycle, SequenceTheorems, TLAPS

-----------------------------------------------------------------------------
(* PeerSync: the invariant *)

\* What a message on the wire from n to m names is stored where it is asked for:
\* it was announced, or read off the active chain, by a node that has it.
Backed(n, m, msg) ==
    /\ msg.type = "INV" => msg.block \in store[n]
    /\ msg.type = "HEADERS" => Range(msg.list) \subseteq store[n]
    /\ msg.type = "GETDATA" => Range(msg.list) \subseteq store[m]

WiresBacked ==
    \A n, m \in Nodes : \A msg \in Range(wire[n][m]) : Backed(n, m, msg)

\* A node has no connection to itself and sends nothing on one that is closed.
OpenEnds ==
    \A n, m \in Nodes : /\ peer[n][m].open => n # m
                        /\ ~peer[n][m].open => wire[n][m] = << >>

\* A node stores its active chain.
TipStored == \A n \in Nodes : Range(Branch[tip[n]]) \subseteq store[n]

\* The answer to GETHEADERS goes to a peer and names stored blocks.
ServesStored ==
    \A n \in Nodes : serving[n] # Idle =>
        /\ serving[n] \in [to : Nodes, next : Nat \ {0}, last : 0..Best(n), list : Seq(store[n])]
        /\ peer[n][serving[n].to].open

\* The inductive invariant of PeerSync.
PeerInv ==
    /\ PeerTypeOK
    /\ OpenEnds
    /\ TipStored
    /\ ServesStored
    /\ WiresBacked
    /\ RequestIsAnswered

-----------------------------------------------------------------------------
(* Lists *)

\* What is in two lists one behind the other.
LEMMA RangeOfConcat ==
    ASSUME NEW S, NEW s \in Seq(S), NEW t \in Seq(S)
    PROVE  /\ s \o t \in Seq(S)
           /\ Range(s \o t) = Range(s) \cup Range(t)
<1>1. /\ s \o t \in Seq(S) /\ DOMAIN (s \o t) = 1..(Len(s) + Len(t))
      /\ Len(s) \in Nat /\ Len(t) \in Nat
      /\ DOMAIN s = 1..Len(s) /\ DOMAIN t = 1..Len(t)
  BY ConcatProperties, LenProperties
<1>2. \A i \in 1..Len(s) : (s \o t)[i] = s[i]
  BY <1>1, ConcatProperties
<1>3. \A i \in 1..Len(t) : (s \o t)[Len(s) + i] = t[i] /\ Len(s) + i \in DOMAIN (s \o t)
  BY <1>1, ConcatProperties
<1>4. \A i \in DOMAIN (s \o t) :
        i \in 1..Len(s) \/ (i - Len(s) \in 1..Len(t) /\ i = Len(s) + (i - Len(s)))
  BY <1>1
<1>5. Range(s \o t) \subseteq Range(s) \cup Range(t)
  BY <1>1, <1>2, <1>3, <1>4 DEF Range
<1>6. Range(s) \subseteq Range(s \o t)
  BY <1>1, <1>2 DEF Range
<1>7. Range(t) \subseteq Range(s \o t)
  BY <1>1, <1>3 DEF Range
<1> QED
  BY <1>1, <1>5, <1>6, <1>7

\* What is behind the head of a list.
LEMMA RangeOfTail ==
    ASSUME NEW S, NEW s \in Seq(S), s # << >>
    PROVE  /\ Head(s) \in S /\ Tail(s) \in Seq(S) /\ Head(s) \in Range(s)
           /\ Range(s) = {Head(s)} \cup Range(Tail(s))
<1>1. /\ Len(s) \in Nat \ {0} /\ DOMAIN s = 1..Len(s) /\ Head(s) = s[1]
      /\ Tail(s) \in Seq(S) /\ DOMAIN Tail(s) = 1..(Len(s) - 1)
      /\ \A i \in 1..(Len(s) - 1) : Tail(s)[i] = s[i + 1]
  OBVIOUS
<1>2. Head(s) \in Range(s) /\ Head(s) \in S
  BY <1>1 DEF Range
<1>3. Range(Tail(s)) \subseteq Range(s)
  BY <1>1 DEF Range
<1>4. \A i \in DOMAIN s : i = 1 \/ (i - 1 \in DOMAIN Tail(s) /\ s[i] = Tail(s)[i - 1])
  BY <1>1
<1>5. Range(s) \subseteq {Head(s)} \cup Range(Tail(s))
  BY <1>1, <1>4 DEF Range
<1> QED
  BY <1>1, <1>2, <1>3, <1>5

LEMMA RangeInSet == ASSUME NEW S, NEW s \in Seq(S) PROVE Range(s) \subseteq S
  BY DEF Range

LEMMA RangeOfAppend ==
    ASSUME NEW S, NEW s \in Seq(S), NEW x \in S
    PROVE  Append(s, x) \in Seq(S) /\ Range(Append(s, x)) = Range(s) \cup {x}
<1> DEFINE t == <<x>>
<1>1. t \in Seq(S) /\ Range(t) = {x}
  BY DEF Range
<1>2. Append(s, x) = s \o t
  BY AppendIsConcat
<1> HIDE DEF t
<1>3. s \o t \in Seq(S) /\ Range(s \o t) = Range(s) \cup Range(t)
  BY <1>1, RangeOfConcat
<1> QED
  BY <1>1, <1>2, <1>3

\* A list of one message, and of none.
LEMMA ShortLists ==
    /\ << >> \in Seq(Message) /\ Range(<< >>) = {}
    /\ \A msg \in Message : <<msg>> \in Seq(Message) /\ Range(<<msg>>) = {msg}
<1>1. << >> \in Seq(Message) /\ Range(<< >>) = {}
  BY DEF Range
<1>2. ASSUME NEW msg \in Message PROVE <<msg>> \in Seq(Message) /\ Range(<<msg>>) = {msg}
  BY DEF Range
<1> QED
  BY <1>1, <1>2

LEMMA RangeOfNone == Range(<< >>) = {}
  BY DEF Range

\* A list from a set is what is picked of it, one block after the other.
Picking(a, list) == FoldLeft(Picked, a, list)

IsPicked(a, S, list) ==
    \E l \in Seq(Blocks) : a = [of |-> S, list |-> l] /\ Range(l) = Range(list) \cap S

PickedOf(list) ==
    list \in Seq(Blocks) => \A S : IsPicked(Picking([of |-> S, list |-> << >>], list), S, list)

OfPicked == INSTANCE FoldTheorems WITH Op <- Picked, P <- PickedOf

LEMMA PickingFolds == \A a, list : Picking(a, list) = OfPicked!Fold(a, list)
  BY DEF Picking, OfPicked!Fold, FoldLeft, OfPicked!FoldLeft, MapThenFoldSet,
     OfPicked!MapThenFoldSet, Max, OfPicked!Max

LEMMA PickedNone == PickedOf(<< >>)
<1> SUFFICES ASSUME NEW S PROVE IsPicked(Picking([of |-> S, list |-> << >>], << >>), S, << >>)
  BY DEF PickedOf
<1>1. Picking([of |-> S, list |-> << >>], << >>) = [of |-> S, list |-> << >>]
  BY PickingFolds, OfPicked!FoldEmpty
<1>2. << >> \in Seq(Blocks) /\ Range(<< >>) = {}
  BY RangeOfNone
<1>3. Range(<< >>) = Range(<< >>) \cap S
  BY <1>2
<1> QED
  BY <1>1, <1>2, <1>3 DEF IsPicked

LEMMA PickedNext ==
    ASSUME NEW list \in Seq(Blocks), NEW b \in Blocks, PickedOf(list)
    PROVE  PickedOf(Append(list, b))
<1> SUFFICES ASSUME NEW S
    PROVE  IsPicked(Picking([of |-> S, list |-> << >>], Append(list, b)), S, Append(list, b))
  BY DEF PickedOf
<1> DEFINE base == [of |-> S, list |-> << >>]
<1>1. Picking(base, Append(list, b)) = Picked(Picking(base, list), b)
  BY PickingFolds, OfPicked!FoldAppend
<1>2. PICK l \in Seq(Blocks) : Picking(base, list) = [of |-> S, list |-> l]
                             /\ Range(l) = Range(list) \cap S
  BY DEF PickedOf, IsPicked
<1>3. Range(Append(list, b)) = Range(list) \cup {b}
  BY RangeOfAppend
<1>4. Append(l, b) \in Seq(Blocks) /\ Range(Append(l, b)) = Range(l) \cup {b}
  BY RangeOfAppend
<1>5. CASE b \in S
  <2>1. Picked([of |-> S, list |-> l], b) = [of |-> S, list |-> Append(l, b)]
    BY <1>5 DEF Picked
  <2>2. Range(Append(l, b)) = Range(Append(list, b)) \cap S
    BY <1>2, <1>3, <1>4, <1>5
  <2> QED
    BY <1>1, <1>2, <1>4, <2>1, <2>2 DEF IsPicked
<1>6. CASE b \notin S
  <2>1. Picked([of |-> S, list |-> l], b) = [of |-> S, list |-> l]
    BY <1>6 DEF Picked
  <2>2. Range(l) = Range(Append(list, b)) \cap S
    BY <1>2, <1>3, <1>6
  <2> QED
    BY <1>1, <1>2, <2>1, <2>2 DEF IsPicked
<1> QED
  BY <1>5, <1>6

LEMMA AmongRange ==
    ASSUME NEW list \in Seq(Blocks), NEW S
    PROVE  Among(S, list) \in Seq(Blocks) /\ Range(Among(S, list)) = Range(list) \cap S
<1>1. PickedOf(list)
  BY PickedNone, PickedNext, OfPicked!SeqInduction
<1>2. Among(S, list) = Picking([of |-> S, list |-> << >>], list).list
  BY DEF Among, Picking
<1>3. IsPicked(Picking([of |-> S, list |-> << >>], list), S, list)
  BY <1>1 DEF PickedOf
<1>4. PICK l \in Seq(Blocks) : Picking([of |-> S, list |-> << >>], list) = [of |-> S, list |-> l]
                             /\ Range(l) = Range(list) \cap S
  BY <1>3 DEF IsPicked
<1> QED
  BY <1>2, <1>4

\* What a node tells of blocks it stored: their inventory and the blocks.
Telling(msgs, bs) == FoldLeft(GossipBlock, msgs, bs)

News(bs) == {Inv(b) : b \in Range(bs)} \cup {BlockMsg(b) : b \in Range(bs)}

TellsOf(bs) ==
    bs \in Seq(Blocks) =>
        Telling(<< >>, bs) \in Seq(Message) /\ Range(Telling(<< >>, bs)) \subseteq News(bs)

OfGossip == INSTANCE FoldTheorems WITH Op <- GossipBlock, P <- TellsOf

LEMMA TellingFolds == \A msgs, bs : Telling(msgs, bs) = OfGossip!Fold(msgs, bs)
  BY DEF Telling, OfGossip!Fold, FoldLeft, OfGossip!FoldLeft, MapThenFoldSet,
     OfGossip!MapThenFoldSet, Max, OfGossip!Max

LEMMA TellingNone == Telling(<< >>, << >>) = << >>
  BY TellingFolds, OfGossip!FoldEmpty

LEMMA TellsNext ==
    ASSUME NEW bs \in Seq(Blocks), NEW b \in Blocks, TellsOf(bs)
    PROVE  TellsOf(Append(bs, b))
<1> DEFINE told == Telling(<< >>, bs)
           two == <<Inv(b), BlockMsg(b)>>
<1>1. Telling(<< >>, Append(bs, b)) = told \o two
  BY TellingFolds, OfGossip!FoldAppend DEF GossipBlock
<1>2. told \in Seq(Message) /\ Range(told) \subseteq News(bs)
  BY DEF TellsOf
<1>3. two \in Seq(Message) /\ Range(two) = {Inv(b), BlockMsg(b)}
  BY DEF Range, Message, Inv, BlockMsg
<1> HIDE DEF told, two
<1>4. told \o two \in Seq(Message) /\ Range(told \o two) = Range(told) \cup Range(two)
  BY <1>2, <1>3, RangeOfConcat
<1>5. Range(Append(bs, b)) = Range(bs) \cup {b}
  BY RangeOfAppend
<1>6. News(bs) \cup {Inv(b), BlockMsg(b)} \subseteq News(Append(bs, b))
  BY <1>5 DEF News
<1> QED
  BY <1>1, <1>2, <1>3, <1>4, <1>6 DEF TellsOf

LEMMA GossipType ==
    ASSUME NEW n \in Nodes, NEW bs \in Seq(Blocks)
    PROVE  /\ Gossip(n, bs) \in [Nodes -> Seq(Message)]
           /\ \A m \in Nodes : /\ Range(Gossip(n, bs)[m]) \subseteq News(bs)
                               /\ Gossip(n, bs)[m] # << >> => peer[n][m].open
           /\ bs = << >> => \A m \in Nodes : Gossip(n, bs)[m] = << >>
<1>1. << >> \in Seq(Message) /\ Range(<< >>) = {}
  BY RangeOfNone
<1>2. TellsOf(<< >>)
  BY <1>1, TellingNone DEF TellsOf
<1>3. TellsOf(bs)
  BY <1>2, TellsNext, OfGossip!SeqInduction
<1>4. Gossip(n, bs) = [m \in Nodes |-> IF peer[n][m].open /\ peer[n][m].complete
                                      THEN Telling(<< >>, bs) ELSE << >>]
  BY DEF Gossip, Telling
<1>5. << >> \in Seq(Message) /\ Range(<< >>) = {}
  BY RangeOfNone
<1>6. Telling(<< >>, bs) \in Seq(Message) /\ Range(Telling(<< >>, bs)) \subseteq News(bs)
  BY <1>3 DEF TellsOf
<1> QED
  BY <1>4, <1>5, <1>6, TellingNone
-----------------------------------------------------------------------------
(* Wires *)

\* Node n sends out on wires to its peers, and at most x is taken from the wire
\* from m to n.
Delivers(n, m, out, x) ==
    /\ wire' \in [Nodes -> [Nodes -> Seq(Message)]]
    /\ \A k, l \in Nodes :
         /\ Range(wire'[k][l]) \subseteq Range(wire[k][l]) \cup (IF k = n THEN Range(out[l]) ELSE {})
         /\ Range(wire[k][l]) \subseteq Range(wire'[k][l]) \cup (IF k = m /\ l = n THEN {x} ELSE {})
         /\ k = n => Range(out[l]) \subseteq Range(wire'[n][l])
         /\ wire[k][l] = << >> /\ (k = n => out[l] = << >>) => wire'[k][l] = << >>

LEMMA SentDelivers ==
    ASSUME PeerTypeOK, NEW n \in Nodes, NEW m \in Nodes, NEW x,
           NEW out \in [Nodes -> Seq(Message)], wire' = Sent(n, out)
    PROVE  Delivers(n, m, out, x)
<1>1. wire \in [Nodes -> [Nodes -> Seq(Message)]]
  BY DEF PeerTypeOK
<1>2. wire' = [wire EXCEPT ![n] = [k \in Nodes |-> wire[n][k] \o out[k]]]
  BY <1>1 DEF Sent
<1>3. \A l \in Nodes : /\ wire[n][l] \o out[l] \in Seq(Message)
                       /\ Range(wire[n][l] \o out[l]) = Range(wire[n][l]) \cup Range(out[l])
  BY <1>1, RangeOfConcat
<1>4. \A k, l \in Nodes : wire'[k][l] = IF k = n THEN wire[n][l] \o out[l] ELSE wire[k][l]
  BY <1>1, <1>2
<1>5. wire' \in [Nodes -> [Nodes -> Seq(Message)]]
  BY <1>1, <1>2, <1>3
<1>6. \A l \in Nodes : wire[n][l] = << >> /\ out[l] = << >> => wire[n][l] \o out[l] = << >>
  OBVIOUS
<1> QED
  BY <1>3, <1>4, <1>5, <1>6 DEF Delivers

LEMMA HandledDelivers ==
    ASSUME PeerTypeOK, NEW n \in Nodes, NEW m \in Nodes, n # m, wire[m][n] # << >>,
           NEW out \in [Nodes -> Seq(Message)], wire' = Handled(n, m, out)
    PROVE  Delivers(n, m, out, Head(wire[m][n]))
<1>1. wire \in [Nodes -> [Nodes -> Seq(Message)]]
  BY DEF PeerTypeOK
<1>2. \A l \in Nodes : /\ wire[n][l] \o out[l] \in Seq(Message)
                       /\ Range(wire[n][l] \o out[l]) = Range(wire[n][l]) \cup Range(out[l])
  BY <1>1, RangeOfConcat
<1> DEFINE lines == [k \in Nodes |-> wire[n][k] \o out[k]]
           sent == [wire EXCEPT ![n] = lines]
           rest == [wire[m] EXCEPT ![n] = Tail(wire[m][n])]
<1>3. lines \in [Nodes -> Seq(Message)]
  BY <1>2
<1>4. /\ Tail(wire[m][n]) \in Seq(Message)
      /\ Range(wire[m][n]) = {Head(wire[m][n])} \cup Range(Tail(wire[m][n]))
  BY <1>1, RangeOfTail
<1>5. /\ rest \in [Nodes -> Seq(Message)] /\ rest[n] = Tail(wire[m][n])
      /\ \A l \in Nodes : l # n => rest[l] = wire[m][l]
  BY <1>1, <1>4
<1>6. \A l \in Nodes : lines[l] = wire[n][l] \o out[l]
  OBVIOUS
<1> HIDE DEF lines
<1>7. /\ sent \in [Nodes -> [Nodes -> Seq(Message)]] /\ sent[m] = wire[m] /\ sent[n] = lines
      /\ \A k \in Nodes : k # n => sent[k] = wire[k]
  BY <1>1, <1>3
<1>8. wire' = [sent EXCEPT ![m] = rest]
  BY <1>1, <1>7 DEF Sent, Handled, lines
<1> HIDE DEF sent, rest
<1>9. /\ wire' \in [Nodes -> [Nodes -> Seq(Message)]] /\ wire'[n] = lines /\ wire'[m] = rest
      /\ \A k \in Nodes : k # n /\ k # m => wire'[k] = wire[k]
  BY <1>5, <1>7, <1>8
<1> SUFFICES ASSUME NEW k \in Nodes, NEW l \in Nodes
    PROVE
         /\ Range(wire'[k][l]) \subseteq Range(wire[k][l]) \cup (IF k = n THEN Range(out[l]) ELSE {})
         /\ Range(wire[k][l]) \subseteq Range(wire'[k][l])
                                     \cup (IF k = m /\ l = n THEN {Head(wire[m][n])} ELSE {})
         /\ k = n => Range(out[l]) \subseteq Range(wire'[n][l])
         /\ wire[k][l] = << >> /\ (k = n => out[l] = << >>) => wire'[k][l] = << >>
  BY <1>9 DEF Delivers
<1>10. CASE k = n
  <2>1. wire'[k][l] = wire[n][l] \o out[l]
    BY <1>6, <1>9, <1>10
  <2>2. wire[n][l] = << >> /\ out[l] = << >> => wire[n][l] \o out[l] = << >>
    OBVIOUS
  <2> QED
    BY <1>2, <1>10, <2>1, <2>2
<1>11. CASE k = m /\ l = n
  BY <1>4, <1>5, <1>9, <1>11
<1>12. CASE k # n /\ ~(k = m /\ l = n)
  <2>1. wire'[k][l] = wire[k][l]
    BY <1>5, <1>9, <1>12
  <2> QED
    BY <1>12, <2>1
<1> QED
  BY <1>10, <1>11, <1>12

-----------------------------------------------------------------------------
(* One message handled *)

\* What a node holds, or held until a full heldBlocks_ put it out.
Holds(k) == Range(held[k]) \cup evicted[k]

\* Every message of out is backed by what is stored after the step.
OutBacked(n, out) == \A l \in Nodes : \A msg \in Range(out[l]) : Backed(n, l, msg)'

\* A step that only adds to what is stored and held, and asks m for each block it
\* remembers to know from m.
Learns(n, m, out) ==
    /\ \A k \in Nodes : store[k] \subseteq store'[k] /\ Holds(k) \subseteq store'[k] \cup Holds(k)'
    /\ \A k, l \in Nodes :
         /\ peer'[k][l].open = peer[k][l].open
         /\ peer[k][l].open => \A b \in peer'[k][l].knownInv \ peer[k][l].knownInv :
                                   k = n /\ l = m /\ GetData(<<b>>) \in Range(out[m])

\* What x asks for goes out to m, and what x brings is kept.
Answers(n, m, out, x) ==
    /\ x.type = "GETDATA" => \A b \in Range(x.list) : BlockMsg(b) \in Range(out[m])
    /\ x.type = "BLOCK" => x.block \in store'[n] \cup Holds(n)'

\* Only open connections are written to.
ToPeers(n, out) == \A l \in Nodes : out[l] # << >> => peer[n][l].open

\* A request under way, an answer under way, or the block itself.
OnItsWay(n, m, b) ==
    \/ \E x \in Range(wire[n][m]) : x.type = "GETDATA" /\ b \in Range(x.list)
    \/ BlockMsg(b) \in Range(wire[m][n])

AllOnTheirWay ==
    \A n, m \in Nodes : peer[n][m].open =>
      \A b \in peer[n][m].knownInv : b \in store[n] \cup Holds(n) \/ OnItsWay(n, m, b)

LEMMA AskedOrSeen == RequestIsAnswered <=> AllOnTheirWay
<1>1. \A n, m, b : AsksFor(n, m, b) \/ Sees(n, m, BlockMsg(b)) <=> OnItsWay(n, m, b)
  BY DEF AsksFor, Sees, Range, OnItsWay
<1> QED
  BY <1>1 DEF RequestIsAnswered, AllOnTheirWay, Holds

LEMMA StepKeepsEnds ==
    ASSUME PeerInv, NEW n \in Nodes, NEW m \in Nodes, NEW out, NEW x,
           Delivers(n, m, out, x), Learns(n, m, out), ToPeers(n, out)
    PROVE  OpenEnds'
<1> SUFFICES ASSUME NEW k \in Nodes, NEW l \in Nodes
    PROVE  (peer'[k][l].open => k # l) /\ (~peer'[k][l].open => wire'[k][l] = << >>)
  BY DEF OpenEnds
<1>1. peer'[k][l].open = peer[k][l].open
  BY DEF Learns
<1>2. (peer[k][l].open => k # l) /\ (~peer[k][l].open => wire[k][l] = << >>)
  BY DEF PeerInv, OpenEnds
<1>3. ~peer[k][l].open /\ k = n => out[l] = << >>
  BY DEF ToPeers
<1>4. wire[k][l] = << >> /\ (k = n => out[l] = << >>) => wire'[k][l] = << >>
  BY DEF Delivers
<1> QED
  BY <1>1, <1>2, <1>3, <1>4

LEMMA StepKeepsBacked ==
    ASSUME PeerInv, NEW n \in Nodes, NEW m \in Nodes, NEW out, NEW x,
           Delivers(n, m, out, x), Learns(n, m, out), OutBacked(n, out)
    PROVE  WiresBacked'
<1> SUFFICES ASSUME NEW k \in Nodes, NEW l \in Nodes, NEW msg \in Range(wire'[k][l])
    PROVE  Backed(k, l, msg)'
  BY DEF WiresBacked
<1>1. CASE msg \in Range(wire[k][l])
  <2>1. Backed(k, l, msg)
    BY <1>1 DEF PeerInv, WiresBacked
  <2> QED
    BY <2>1 DEF Backed, Learns
<1>2. CASE k = n /\ msg \in Range(out[l])
  BY <1>2 DEF OutBacked
<1> QED
  BY <1>1, <1>2 DEF Delivers

LEMMA StepKeepsAnswered ==
    ASSUME PeerInv, NEW n \in Nodes, NEW m \in Nodes, NEW out, NEW x,
           Delivers(n, m, out, x), Learns(n, m, out), Answers(n, m, out, x)
    PROVE  RequestIsAnswered'
<1>1. RequestIsAnswered' <=> AllOnTheirWay'
  BY AskedOrSeen, PTL
<1> SUFFICES ASSUME NEW k \in Nodes, NEW l \in Nodes, peer'[k][l].open,
                    NEW b \in peer'[k][l].knownInv
    PROVE  \/ b \in store'[k] \cup Holds(k)'
           \/ \E y \in Range(wire'[k][l]) : y.type = "GETDATA" /\ b \in Range(y.list)
           \/ BlockMsg(b) \in Range(wire'[l][k])
  BY <1>1 DEF AllOnTheirWay, OnItsWay, BlockMsg
<1>2. PeerTypeOK /\ peer[k][l].open
  BY DEF PeerInv, Learns
<1>3. CASE b \notin peer[k][l].knownInv
  <2>1. k = n /\ l = m /\ GetData(<<b>>) \in Range(out[m])
    BY <1>2, <1>3 DEF Learns
  <2>2. Range(out[m]) \subseteq Range(wire'[n][m])
    BY DEF Delivers
  <2>3. GetData(<<b>>).type = "GETDATA" /\ b \in Range(GetData(<<b>>).list)
    BY DEF GetData, Range
  <2> QED
    BY <2>1, <2>3, <2>2
<1>4. CASE b \in store[k] \cup Holds(k)
  BY <1>4 DEF Learns
<1>5. ASSUME NEW y \in Range(wire[k][l]), y.type = "GETDATA", b \in Range(y.list),
             y \notin Range(wire'[k][l])
      PROVE  BlockMsg(b) \in Range(wire'[l][k])
  <2>1. k = m /\ l = n /\ y = x
    BY <1>5 DEF Delivers
  <2> QED
    BY <1>5, <2>1 DEF Answers, Delivers
<1>6. ASSUME BlockMsg(b) \in Range(wire[l][k]), BlockMsg(b) \notin Range(wire'[l][k])
      PROVE  b \in store'[k] \cup Holds(k)'
  <2>1. l = m /\ k = n /\ BlockMsg(b) = x
    BY <1>6 DEF Delivers
  <2>2. x.type = "BLOCK" /\ x.block = b
    BY <2>1 DEF BlockMsg
  <2> QED
    BY <2>1, <2>2 DEF Answers
<1>7. CASE b \in peer[k][l].knownInv
  <2>1. \/ b \in store[k] \cup Holds(k)
        \/ \E y \in Range(wire[k][l]) : y.type = "GETDATA" /\ b \in Range(y.list)
        \/ BlockMsg(b) \in Range(wire[l][k])
    BY <1>2, <1>7, AskedOrSeen DEF PeerInv, AllOnTheirWay, OnItsWay
  <2> QED
    BY <1>4, <1>5, <1>6, <2>1
<1> QED
  BY <1>3, <1>7
-----------------------------------------------------------------------------
(* The tree and adoptions *)

\* A block is at its height in its branch, and what is on a branch has its own
\* branch as the part below.
LEMMA BranchFacts ==
    ASSUME NEW b \in Blocks
    PROVE  /\ Branch[b] \in Seq(Blocks) /\ Height(b) \in Nat \ {0}
           /\ DOMAIN Branch[b] = 1..Height(b) /\ Branch[b][Height(b)] = b
           /\ Range(Branch[b]) \subseteq Blocks
           /\ \A i \in 1..Height(b) :
                /\ Branch[b][i] \in Blocks /\ Height(Branch[b][i]) = i
                /\ \A j \in 1..i : Branch[Branch[b][i]][j] = Branch[b][j]
<1>1. Branch[b] \in Seq(Blocks) /\ Len(Branch[b]) >= 1 /\ Branch[b][Len(Branch[b])] = b
  BY TreeAssumption
<1>2. Height(b) = Len(Branch[b]) /\ Len(Branch[b]) \in Nat /\ DOMAIN Branch[b] = 1..Len(Branch[b])
  BY <1>1 DEF Height
<1>3. Range(Branch[b]) \subseteq Blocks
  BY <1>1, RangeInSet
<1>4. ASSUME NEW i \in 1..Height(b)
      PROVE  /\ Branch[b][i] \in Blocks /\ Height(Branch[b][i]) = i
             /\ \A j \in 1..i : Branch[Branch[b][i]][j] = Branch[b][j]
  <2>1. Branch[Branch[b][i]] = SubSeq(Branch[b], 1, i)
    BY <1>2, TreeAssumption
  <2>2. i \in Nat /\ i >= 1 /\ i <= Len(Branch[b])
    BY <1>2
  <2>3. Len(SubSeq(Branch[b], 1, i)) = i
        /\ \A j \in 1..i : SubSeq(Branch[b], 1, i)[j] = Branch[b][j]
    BY <1>1, <2>2
  <2> QED
    BY <1>1, <1>2, <2>1, <2>2, <2>3 DEF Height
<1> QED
  BY <1>1, <1>2, <1>3, <1>4

LEMMA SameBelow ==
    ASSUME NEW b \in Blocks, NEW h \in 1..Height(b), NEW f, Branch[b][h] = f
    PROVE  \A i \in 1..h : Branch[f][i] = Branch[b][i]
<1>1. \A j \in 1..h : Branch[Branch[b][h]][j] = Branch[b][j]
  BY BranchFacts
<1> QED
  BY <1>1

\* The blocks of c on the active chain, of which Fork takes the highest.
Common(n, c) == {b \in Range(Branch[c]) : OnChain(b, tip[n])}

\* A branch is the same as the active chain up to the fork.
LEMMA ForkFacts ==
    ASSUME PeerTypeOK, NEW n \in Nodes, NEW c \in Blocks, Common(n, c) # {}
    PROVE  /\ Fork(n, c) \in 1..Height(c) /\ Fork(n, c) <= Best(n)
           /\ \A i \in 1..Fork(n, c) : Branch[c][i] = Branch[tip[n]][i]
<1> DEFINE t == tip[n]
<1>1. t \in Blocks
  BY DEF PeerTypeOK
<1>2. ASSUME NEW b \in Common(n, c)
      PROVE  /\ b \in Blocks /\ Height(b) \in 1..Height(c)
             /\ Height(b) <= Height(t) /\ Branch[t][Height(b)] = b
             /\ Branch[c][Height(b)] = b
  <2>1. Height(b) <= Height(t) /\ Branch[t][Height(b)] = b /\ b \in Range(Branch[c])
    BY DEF Common, OnChain
  <2>2. PICK i \in 1..Height(c) : b = Branch[c][i]
    BY <2>1, BranchFacts DEF Range
  <2>3. b \in Blocks /\ Height(b) = i
    BY <2>2, BranchFacts
  <2> QED
    BY <2>1, <2>2, <2>3
<1> DEFINE Gap == {g \in Nat : \E b \in Common(n, c) : g + Height(b) = Height(c)}
<1>3. Height(c) \in Nat
  BY BranchFacts
<1>4. \A b \in Common(n, c) : Height(c) - Height(b) \in Gap
  BY <1>2, <1>3
<1>5. Gap # {} /\ Gap \in SUBSET Nat
  BY <1>4
<1>6. PICK g \in Gap : \A k \in Gap : g <= k
  BY <1>5, OfPicked!LeastElement
<1>7. PICK top \in Common(n, c) : g + Height(top) = Height(c)
  BY <1>6
<1>8. \A d \in Common(n, c) : Height(d) <= Height(top)
  BY <1>2, <1>3, <1>4, <1>6, <1>7
<1> DEFINE Highest(b) == OnChain(b, tip[n]) /\ \A d \in Range(Branch[c]) :
                           OnChain(d, tip[n]) => Height(d) <= Height(b)
           f == CHOOSE b \in Range(Branch[c]) : Highest(b)
<1>9. \E b \in Range(Branch[c]) : Highest(b)
  BY <1>7, <1>8 DEF Common
<1>10. f \in Common(n, c)
  BY <1>9 DEF Common
<1>11. Fork(n, c) = Height(f)
  BY DEF Fork
<1> HIDE DEF f
<1> DEFINE h == Height(f)
<1>12. h \in 1..Height(c) /\ Branch[c][h] = f /\ h \in 1..Height(t) /\ Branch[t][h] = f
  <2>1. h \in 1..Height(c) /\ Branch[c][h] = f /\ h <= Height(t) /\ Branch[t][h] = f
    BY <1>2, <1>10
  <2>2. Height(t) \in Nat
    BY <1>1, BranchFacts
  <2> QED
    BY <1>3, <2>1, <2>2
<1> HIDE DEF h, t, Gap, Highest
<1>13. \A i \in 1..h : Branch[f][i] = Branch[c][i]
  BY <1>12, SameBelow
<1>14. \A i \in 1..h : Branch[f][i] = Branch[t][i]
  BY <1>1, <1>12, SameBelow
<1> QED
  BY <1>11, <1>12, <1>13, <1>14 DEF Best, h, t
\* The bodies of a branch from the fork on.
Bodies(n, c) == SubSeq(Branch[c], Fork(n, c) + 1, Height(c))

LEMMA BodiesFacts ==
    ASSUME PeerTypeOK, TipStored, NEW n \in Nodes, NEW c \in Blocks, Common(n, c) # {}
    PROVE  Bodies(n, c) \in Seq(Blocks)
           /\ Range(Branch[c]) \subseteq store[n] \cup Range(Bodies(n, c))
<1> DEFINE F == Fork(n, c)
           H == Height(c)
           q == Bodies(n, c)
<1>1. tip[n] \in Blocks
  BY DEF PeerTypeOK
<1>2. F \in 1..H /\ F <= Best(n) /\ \A i \in 1..F : Branch[c][i] = Branch[tip[n]][i]
  BY ForkFacts
<1>3. H \in Nat \ {0} /\ Best(n) \in Nat /\ DOMAIN Branch[tip[n]] = 1..Best(n)
      /\ DOMAIN Branch[c] = 1..H /\ Branch[c] \in Seq(Blocks) /\ Len(Branch[c]) = H
  BY <1>1, BranchFacts DEF Best, Height
<1>4. q = SubSeq(Branch[c], F + 1, H)
  BY DEF Bodies
<1> HIDE DEF F, H, q
<1>5. q \in Seq(Blocks) /\ DOMAIN q = 1..(H - F) /\ \A i \in 1..(H - F) : q[i] = Branch[c][F + i]
  BY <1>2, <1>3, <1>4
<1>6. \A i \in 1..F : Branch[c][i] \in store[n]
  <2>1. \A i \in 1..F : i \in DOMAIN Branch[tip[n]]
    BY <1>2, <1>3
  <2> QED
    BY <1>2, <2>1 DEF TipStored, Range
<1>7. \A i \in (F + 1)..H : Branch[c][i] \in Range(q)
  <2>1. \A i \in (F + 1)..H : i - F \in DOMAIN q /\ q[i - F] = Branch[c][i]
    BY <1>2, <1>3, <1>5
  <2> QED
    BY <2>1 DEF Range
<1>8. \A i \in 1..H : i \in 1..F \/ i \in (F + 1)..H
  BY <1>2, <1>3
<1>9. Range(Branch[c]) \subseteq store[n] \cup Range(q)
  BY <1>3, <1>6, <1>7, <1>8 DEF Range
<1> QED
  BY <1>5, <1>9 DEF q

\* An adoption goes no lower, stores the branch of its tip, and drops no block of
\* the list it was given: what is not held any more is stored.
Adopts(n, list, r) ==
    /\ r \in [tip : Blocks, held : Seq(Blocks), refused : Seq(Blocks), bodies : Seq(Blocks)]
    /\ Height(r.tip) >= Best(n)
    /\ Range(Branch[r.tip]) \subseteq store[n] \cup Range(r.bodies)
    /\ Range(list) \subseteq Range(r.held) \cup store[n] \cup Range(r.bodies)

\* A full list loses its first entry to the new one.
LEMMA PushedFacts ==
    ASSUME NEW list \in Seq(Blocks), NEW b \in Blocks, NEW max \in Nat \ {0}
    PROVE  /\ Pushed(list, b, max) \in Seq(Blocks)
           /\ b \in Range(Pushed(list, b, max))
<1> DEFINE rest == IF Len(list) < max THEN list ELSE Tail(list)
<1>1. rest \in Seq(Blocks)
  <2>1. ~(Len(list) < max) => list # << >>
    OBVIOUS
  <2> QED
    BY <2>1, RangeOfTail
<1>2. Pushed(list, b, max) = Append(rest, b)
  BY DEF Pushed
<1> HIDE DEF rest
<1> QED
  BY <1>1, <1>2, RangeOfAppend

LEMMA NotedFacts ==
    ASSUME NEW list \in Seq(Blocks), NEW b \in Blocks
    PROVE  Noted(list, b) \in Seq(Blocks) /\ b \in Range(Noted(list, b))
<1>1. MaxHeld \in Nat \ {0}
  BY NetAssumption
<1> QED
  BY <1>1, PushedFacts DEF Noted

LEMMA AdoptionFacts ==
    ASSUME PeerTypeOK, TipStored, NEW n \in Nodes, NEW list \in Seq(Blocks),
           NEW r \in Adoptions(n, list)
    PROVE  Adopts(n, list, r)
<1> DEFINE pool == {b \in Range(list) : ~OnChain(b, tip[n])}
           cand == {c \in pool : Adoptable(n, c, pool)}
           kept == Among(pool, list)
           Rest(c) == Among(pool \ Range(Bodies(n, c)), list)
           Full(c) == Pushed(refused[n], c, MaxRefused)
           Fewer(c) == Among(Blocks \ {c}, refused[n])
           Stay == [tip |-> tip[n], held |-> kept, refused |-> refused[n], bodies |-> << >>]
           Refuse(c) == [tip |-> tip[n], held |-> kept, refused |-> Full(c), bodies |-> << >>]
           Adopt(c) == [tip |-> c, held |-> Rest(c), refused |-> Fewer(c),
                        bodies |-> Bodies(n, c)]
<1>1. \/ r = Stay
      \/ \E c \in cand : r = Refuse(c) \/ r = Adopt(c)
  BY DEF Adoptions, Bodies
<1>2. tip[n] \in Blocks /\ refused[n] \in Seq(Blocks) /\ MaxRefused \in Nat \ {0}
      /\ Range(list) \subseteq Blocks
  BY NetAssumption, RangeInSet DEF PeerTypeOK
<1>3. Best(n) \in Nat /\ DOMAIN Branch[tip[n]] = 1..Best(n)
      /\ Range(Branch[tip[n]]) \subseteq store[n]
  BY <1>2, BranchFacts DEF Best, TipStored
<1>4. ASSUME NEW b \in Range(list), OnChain(b, tip[n]) PROVE b \in store[n]
  <2>1. Height(b) \in 1..Best(n) /\ Branch[tip[n]][Height(b)] = b
    BY <1>2, <1>3, <1>4, BranchFacts DEF OnChain, Best
  <2> QED
    BY <1>3, <2>1 DEF Range
<1>5. Range(list) \subseteq pool \cup store[n] /\ pool \subseteq Range(list)
  BY <1>4
<1>6. << >> \in Seq(Blocks)
  OBVIOUS
<1>7. ASSUME NEW c \in cand
      PROVE  c \in Blocks /\ Height(c) > Best(n) /\ Common(n, c) # {} /\ Height(c) \in Nat
  BY <1>2, BranchFacts DEF Adoptable, HandshakeJoined, Common
<1>8. \A c \in cand : Bodies(n, c) \in Seq(Blocks)
                     /\ Range(Branch[c]) \subseteq store[n] \cup Range(Bodies(n, c))
  BY <1>7, BodiesFacts
<1> HIDE DEF pool, cand
<1>9. kept \in Seq(Blocks) /\ Range(kept) = pool
  BY <1>5, AmongRange
<1>10. \A c \in cand : /\ Rest(c) \in Seq(Blocks)
                       /\ Range(Rest(c)) = pool \ Range(Bodies(n, c))
                       /\ Full(c) \in Seq(Blocks) /\ Fewer(c) \in Seq(Blocks)
  BY <1>2, <1>5, <1>7, AmongRange, PushedFacts
<1> HIDE DEF kept, Rest, Full, Fewer
<1>11. CASE r = Stay
  BY <1>2, <1>3, <1>5, <1>6, <1>9, <1>11 DEF Adopts, Best
<1>12. ASSUME NEW c \in cand, r = Refuse(c) PROVE Adopts(n, list, r)
  BY <1>2, <1>3, <1>5, <1>6, <1>7, <1>9, <1>10, <1>12 DEF Adopts, Best
<1>13. ASSUME NEW c \in cand, r = Adopt(c) PROVE Adopts(n, list, r)
  BY <1>2, <1>3, <1>5, <1>7, <1>8, <1>10, <1>13 DEF Adopts
<1> QED
  BY <1>1, <1>11, <1>12, <1>13
-----------------------------------------------------------------------------
(* The steps *)

\* What is known when n takes a message of m.
LEMMA TakenFacts ==
    ASSUME PeerInv, NEW n \in Nodes, NEW m \in Nodes, NEW type, Takes(n, m, type)
    PROVE  LET x == Head(wire[m][n]) IN
           /\ n # m /\ peer[n][m].open /\ wire[m][n] # << >> /\ serving[n] = Idle
           /\ x \in Message /\ x.type = type /\ Backed(m, n, x)
<1>1. n # m /\ peer[n][m].open /\ wire[m][n] # << >> /\ serving[n] = Idle
      /\ Head(wire[m][n]).type = type
  BY DEF Takes, PeerInv, OpenEnds
<1>2. wire[m][n] \in Seq(Message)
  BY DEF PeerInv, PeerTypeOK
<1>3. Head(wire[m][n]) \in Message /\ Head(wire[m][n]) \in Range(wire[m][n])
  BY <1>1, <1>2, RangeOfTail
<1> QED
  BY <1>1, <1>3 DEF PeerInv, WiresBacked

LEMMA HandledKeeps ==
    ASSUME PeerInv, NEW n \in Nodes, NEW m \in Nodes, n # m, wire[m][n] # << >>,
           NEW out \in [Nodes -> Seq(Message)], wire' = Handled(n, m, out),
           Learns(n, m, out), Answers(n, m, out, Head(wire[m][n])), ToPeers(n, out),
           OutBacked(n, out)
    PROVE  OpenEnds' /\ WiresBacked' /\ RequestIsAnswered'
           /\ wire' \in [Nodes -> [Nodes -> Seq(Message)]]
<1>1. PeerTypeOK
  BY DEF PeerInv
<1>2. Delivers(n, m, out, Head(wire[m][n]))
  BY <1>1, HandledDelivers
<1>3. OpenEnds'
  BY <1>2, StepKeepsEnds
<1>4. WiresBacked'
  BY <1>2, StepKeepsBacked
<1>5. RequestIsAnswered'
  BY <1>2, StepKeepsAnswered
<1> QED
  BY <1>2, <1>3, <1>4, <1>5 DEF Delivers

\* What is sent without a message taken.
LEMMA SentKeeps ==
    ASSUME PeerInv, NEW n \in Nodes, NEW m \in Nodes,
           NEW out \in [Nodes -> Seq(Message)], wire' = Sent(n, out),
           Learns(n, m, out), ToPeers(n, out), OutBacked(n, out)
    PROVE  OpenEnds' /\ WiresBacked' /\ RequestIsAnswered'
           /\ wire' \in [Nodes -> [Nodes -> Seq(Message)]]
<1>1. PeerTypeOK
  BY DEF PeerInv
<1>2. Delivers(n, m, out, Verack)
  BY <1>1, SentDelivers
<1>3. Answers(n, m, out, Verack)
  BY DEF Answers, Verack
<1>4. OpenEnds'
  BY <1>2, StepKeepsEnds
<1>5. WiresBacked'
  BY <1>2, StepKeepsBacked
<1>6. RequestIsAnswered'
  BY <1>2, <1>3, StepKeepsAnswered
<1> QED
  BY <1>2, <1>4, <1>5, <1>6 DEF Delivers

\* Messages to one peer.
LEMMA OnlyTo ==
    ASSUME NEW n \in Nodes, NEW m \in Nodes, peer[n][m].open, NEW msgs \in Seq(Message)
    PROVE  /\ Only(m, msgs) \in [Nodes -> Seq(Message)] /\ Only(m, msgs)[m] = msgs
           /\ ToPeers(n, Only(m, msgs))
           /\ (\A msg \in Range(msgs) : Backed(n, m, msg)') => OutBacked(n, Only(m, msgs))
<1>1. << >> \in Seq(Message) /\ Range(<< >>) = {}
  BY RangeOfNone
<1> QED
  BY <1>1 DEF Only, ToPeers, OutBacked

\* The parts of a peer on an open connection.
Connected == [open : {TRUE}, versionReceived : BOOLEAN, complete : BOOLEAN,
              startHeight : Nat, askedFromStart : BOOLEAN, knownInv : SUBSET Blocks]

LEMMA PeerSet ==
    ASSUME PeerInv, NEW n \in Nodes, NEW m \in Nodes, NEW p \in Connected,
           peer[n][m].open, peer' = [peer EXCEPT ![n][m] = p]
    PROVE  /\ peer' \in [Nodes -> [Nodes -> PeerType]]
           /\ \A k, l \in Nodes : /\ peer'[k][l].open = peer[k][l].open
                                  /\ peer'[k][l] = IF k = n /\ l = m THEN p ELSE peer[k][l]
<1>1. peer \in [Nodes -> [Nodes -> PeerType]]
  BY DEF PeerInv, PeerTypeOK
<1>2. p \in PeerType /\ p.open = TRUE
  BY DEF PeerType, Connected
<1>3. peer[n][m].open = TRUE
  BY <1>1 DEF PeerType, NoPeer
<1>4. peer[n] \in [Nodes -> PeerType]
  BY <1>1
<1> DEFINE lines == [peer[n] EXCEPT ![m] = p]
<1>5. lines \in [Nodes -> PeerType] /\ lines[m] = p /\ \A l \in Nodes : l # m => lines[l] = peer[n][l]
  BY <1>2, <1>4
<1>6. peer' = [peer EXCEPT ![n] = lines]
  BY <1>1
<1> HIDE DEF lines
<1>7. peer' \in [Nodes -> [Nodes -> PeerType]] /\ peer'[n] = lines
      /\ \A k \in Nodes : k # n => peer'[k] = peer[k]
  BY <1>1, <1>5, <1>6
<1> QED
  BY <1>2, <1>3, <1>5, <1>7

LEMMA ConnectedPeer ==
    ASSUME PeerInv, NEW n \in Nodes, NEW m \in Nodes, peer[n][m].open
    PROVE  peer[n][m] \in Connected
<1>1. peer[n][m] \in PeerType
  BY DEF PeerInv, PeerTypeOK
<1>2. PeerType = {NoPeer} \cup Connected
  BY DEF PeerType, Connected
<1>3. NoPeer.open = FALSE
  BY DEF NoPeer
<1> QED
  BY <1>1, <1>2, <1>3

\* A peer that learns of no block, on a chain that stays.
LEMMA LearnsNothing ==
    ASSUME PeerInv, NEW n \in Nodes, NEW m \in Nodes, NEW out, UNCHANGED chainVars,
           \A k, l \in Nodes : /\ peer'[k][l].open = peer[k][l].open
                               /\ peer[k][l].open => peer'[k][l].knownInv = peer[k][l].knownInv
    PROVE  Learns(n, m, out)
<1>1. \A k \in Nodes : store[k] \subseteq store'[k] /\ Holds(k) \subseteq store'[k] \cup Holds(k)'
  BY DEF chainVars, Holds
<1>2. ASSUME NEW k \in Nodes, NEW l \in Nodes
      PROVE  /\ peer'[k][l].open = peer[k][l].open
             /\ peer[k][l].open => \A b \in peer'[k][l].knownInv \ peer[k][l].knownInv :
                                       k = n /\ l = m /\ GetData(<<b>>) \in Range(out[m])
  <2>1. /\ peer'[k][l].open = peer[k][l].open
        /\ peer[k][l].open => peer'[k][l].knownInv = peer[k][l].knownInv
    OBVIOUS
  <2> QED
    BY <2>1
<1> QED
  BY <1>1, <1>2 DEF Learns

\* The chain and the answer in the making stay.
LEMMA ChainStays ==
    ASSUME PeerInv, UNCHANGED <<chainVars, serving>>,
           \A k, l \in Nodes : peer'[k][l].open = peer[k][l].open
    PROVE  TipStored' /\ ServesStored'
<1>1. TipStored'
  BY DEF PeerInv, TipStored, chainVars
<1>2. \A n \in Nodes : serving[n] # Idle => peer[n][serving[n].to].open /\ serving[n].to \in Nodes
  BY DEF PeerInv, ServesStored
<1>3. ServesStored'
  BY <1>2 DEF PeerInv, ServesStored, Best, chainVars
<1> QED
  BY <1>1, <1>3

\* A message is handled with an answer to its sender, and nothing else changes
\* but what is known of the sender.
LEMMA ReplyKeeps ==
    ASSUME PeerInv, NEW n \in Nodes, NEW m \in Nodes, NEW type, Takes(n, m, type),
           NEW msgs \in Seq(Message), wire' = Handled(n, m, Only(m, msgs)),
           NEW p \in Connected, peer' = [peer EXCEPT ![n][m] = p],
           UNCHANGED <<chainVars, serving, mishaps>>,
           \A b \in p.knownInv \ peer[n][m].knownInv : GetData(<<b>>) \in Range(msgs),
           \A msg \in Range(msgs) : Backed(n, m, msg),
           Answers(n, m, Only(m, msgs), Head(wire[m][n]))
    PROVE  PeerInv'
<1> DEFINE out == Only(m, msgs)
<1>1. n # m /\ peer[n][m].open /\ wire[m][n] # << >>
  BY TakenFacts
<1>2. /\ peer' \in [Nodes -> [Nodes -> PeerType]]
      /\ \A k, l \in Nodes : peer'[k][l].open = peer[k][l].open
      /\ \A k, l \in Nodes : peer'[k][l] = IF k = n /\ l = m THEN p ELSE peer[k][l]
  BY <1>1, PeerSet
<1>3. \A msg \in Range(msgs) : Backed(n, m, msg)'
  BY DEF Backed, chainVars
<1>4. out \in [Nodes -> Seq(Message)] /\ out[m] = msgs /\ ToPeers(n, out) /\ OutBacked(n, out)
  BY <1>1, <1>3, OnlyTo
<1> HIDE DEF out
<1>5. Learns(n, m, out)
  <2>1. \A k \in Nodes : store[k] \subseteq store'[k] /\ Holds(k) \subseteq store'[k] \cup Holds(k)'
    BY DEF chainVars, Holds
  <2>2. ASSUME NEW k \in Nodes, NEW l \in Nodes, peer[k][l].open,
               NEW b \in peer'[k][l].knownInv \ peer[k][l].knownInv
        PROVE  k = n /\ l = m /\ GetData(<<b>>) \in Range(out[m])
    BY <1>2, <1>4, <2>2
  <2> QED
    BY <1>2, <2>1, <2>2 DEF Learns
<1>6. OpenEnds' /\ WiresBacked' /\ RequestIsAnswered' /\ wire' \in [Nodes -> [Nodes -> Seq(Message)]]
  BY <1>1, <1>4, <1>5, HandledKeeps DEF out
<1>7. TipStored' /\ ServesStored'
  BY <1>2, ChainStays
<1> QED
  BY <1>2, <1>6, <1>7 DEF PeerInv, PeerTypeOK, chainVars

\* What may become of the peer of an open connection.
LEMMA ConnectedStays ==
    ASSUME NEW q \in Connected
    PROVE  /\ \A h \in Nat :
                LET r == [q EXCEPT !.versionReceived = TRUE, !.startHeight = h]
                IN  r \in Connected /\ r.knownInv = q.knownInv
           /\ LET r == [q EXCEPT !.complete = TRUE]
              IN  r \in Connected /\ r.knownInv = q.knownInv
           /\ LET r == [q EXCEPT !.askedFromStart = TRUE]
              IN  r \in Connected /\ r.knownInv = q.knownInv
           /\ \A b \in Blocks :
                LET r == [q EXCEPT !.knownInv = @ \union {b}]
                IN  r \in Connected /\ r.knownInv = q.knownInv \union {b}
  BY DEF Connected

\* The peer stays as it was.
LEMMA SamePeer ==
    ASSUME PeerInv, NEW n \in Nodes, NEW m \in Nodes, UNCHANGED peer
    PROVE  peer' = [peer EXCEPT ![n][m] = peer[n][m]]
  BY DEF PeerInv, PeerTypeOK

LEMMA HandleVersionKeeps ==
    ASSUME PeerInv, NEW n \in Nodes, NEW m \in Nodes, HandleVersion(n, m)
    PROVE  PeerInv'
<1> DEFINE x == Head(wire[m][n])
           seen == peer[n][m].versionReceived
           msgs == IF seen THEN << >> ELSE <<Verack>>
           p == IF seen THEN peer[n][m]
                ELSE [peer[n][m] EXCEPT !.versionReceived = TRUE, !.startHeight = x.height]
<1>1. Takes(n, m, "VERSION") /\ UNCHANGED <<chainVars, serving, mishaps>>
      /\ wire' = Handled(n, m, Only(m, msgs))
  BY DEF HandleVersion
<1>2. x \in Message /\ x.type = "VERSION" /\ peer[n][m].open
  BY <1>1, TakenFacts
<1>3. x.height \in Nat
  BY <1>2 DEF Message
<1>4. p \in Connected /\ p.knownInv = peer[n][m].knownInv
  BY <1>2, <1>3, ConnectedPeer, ConnectedStays
<1>5. peer' = [peer EXCEPT ![n][m] = p]
  BY DEF HandleVersion, PeerInv, PeerTypeOK
<1>6. msgs \in Seq(Message) /\ \A msg \in Range(msgs) : msg = Verack
  <2>1. Verack \in Message
    BY DEF Message, Verack
  <2> QED
    BY <2>1, ShortLists
<1>7. \A msg \in Range(msgs) : Backed(n, m, msg)
  BY <1>6 DEF Backed, Verack
<1>8. Answers(n, m, Only(m, msgs), x)
  BY <1>2 DEF Answers
<1> HIDE DEF msgs, p
<1> QED
  BY <1>1, <1>4, <1>5, <1>6, <1>7, <1>8, ReplyKeeps

\* A locator is a list of blocks.
LEMMA LocatorType == ASSUME NEW t \in Blocks PROVE GetHeaders(Locator(t)) \in Message
<1>1. Branch[t] \in Seq(Blocks)
  BY BranchFacts
<1>2. Reverse(Branch[t]) \in Seq(Blocks)
  BY <1>1 DEF Reverse
<1> DEFINE all == Reverse(Branch[t])
           last == IF Len(all) < MaxLocator THEN Len(all) ELSE MaxLocator
<1>3. last \in Nat /\ last <= Len(all)
  BY <1>2, NetAssumption
<1> HIDE DEF all, last
<1>4. SubSeq(all, 1, last) \in Seq(Blocks)
  BY <1>2, <1>3 DEF all
<1>5. Locator(t) = SubSeq(all, 1, last)
  BY DEF Locator, all, last
<1> QED
  BY <1>4, <1>5 DEF GetHeaders, Message

LEMMA HandleVerackKeeps ==
    ASSUME PeerInv, NEW n \in Nodes, NEW m \in Nodes, HandleVerack(n, m)
    PROVE  PeerInv'
<1> DEFINE x == Head(wire[m][n])
           asks == ~peer[n][m].complete /\ MustAsk(n, m)
           ask == GetHeaders(Locator(tip[n]))
           msgs == IF asks THEN <<ask>> ELSE << >>
           p == [peer[n][m] EXCEPT !.complete = TRUE]
<1>1. Takes(n, m, "VERACK") /\ UNCHANGED <<chainVars, serving, mishaps>>
      /\ wire' = Handled(n, m, Only(m, msgs))
  BY DEF HandleVerack
<1>2. x.type = "VERACK" /\ peer[n][m].open
  BY <1>1, TakenFacts
<1>3. p \in Connected /\ p.knownInv = peer[n][m].knownInv
  BY <1>2, ConnectedPeer, ConnectedStays
<1>4. peer' = [peer EXCEPT ![n][m] = p]
  BY DEF HandleVerack, PeerInv, PeerTypeOK
<1>5. msgs \in Seq(Message) /\ \A msg \in Range(msgs) : msg = ask
  <2>1. ask \in Message
    BY LocatorType DEF PeerInv, PeerTypeOK
  <2> QED
    BY <2>1, ShortLists
<1>6. \A msg \in Range(msgs) : Backed(n, m, msg)
  BY <1>5 DEF Backed, GetHeaders
<1>7. Answers(n, m, Only(m, msgs), x)
  BY <1>2 DEF Answers
<1> HIDE DEF msgs, p
<1> QED
  BY <1>1, <1>3, <1>4, <1>5, <1>6, <1>7, ReplyKeeps

\* A node asks from the start when headers do not connect.
LEMMA HandleStrayHeadersKeeps ==
    ASSUME PeerInv, NEW n \in Nodes, NEW m \in Nodes, HandleStrayHeaders(n, m)
    PROVE  PeerInv'
<1> DEFINE x == Head(wire[m][n])
           asked == peer[n][m].askedFromStart
           ask == GetHeaders(<< >>)
           msgs == IF asked THEN << >> ELSE <<ask>>
           p == [peer[n][m] EXCEPT !.askedFromStart = TRUE]
<1>1. Takes(n, m, "HEADERS") /\ UNCHANGED <<chainVars, serving, mishaps>>
      /\ wire' = Handled(n, m, Only(m, msgs))
  BY DEF HandleStrayHeaders, chainVars
<1>2. x.type = "HEADERS" /\ peer[n][m].open
  BY <1>1, TakenFacts
<1>3. p \in Connected /\ p.knownInv = peer[n][m].knownInv
  BY <1>2, ConnectedPeer, ConnectedStays
<1>4. peer' = [peer EXCEPT ![n][m] = p]
  BY DEF HandleStrayHeaders, PeerInv, PeerTypeOK
<1>5. msgs \in Seq(Message) /\ \A msg \in Range(msgs) : msg = ask
  <2>1. ask \in Message
    BY DEF GetHeaders, Message
  <2> QED
    BY <2>1, ShortLists
<1>6. \A msg \in Range(msgs) : Backed(n, m, msg)
  BY <1>5 DEF Backed, GetHeaders
<1>7. Answers(n, m, Only(m, msgs), x)
  BY <1>2 DEF Answers
<1> HIDE DEF msgs, p
<1> QED
  BY <1>1, <1>3, <1>4, <1>5, <1>6, <1>7, ReplyKeeps
\* The list of a message that has one.
LEMMA ListType ==
    ASSUME NEW x \in Message, x.type \in {"HEADERS", "GETDATA"}
    PROVE  x.list \in Seq(Blocks)
  BY DEF Message

\* What is asked for was announced.
LEMMA AskedType ==
    ASSUME NEW n \in Nodes, NEW list \in Seq(Blocks)
    PROVE  /\ Asked(n, list) \in Seq(Message)
           /\ \A msg \in Range(Asked(n, list)) :
                \/ msg.type = "GETHEADERS"
                \/ msg.type = "GETDATA" /\ Range(msg.list) \subseteq Range(list)
<1> DEFINE missing == Among(Blocks \ store[n], list)
           full == Len(list) = MaxHeaders
           data == GetData(missing)
           more == GetHeaders(<<Last(list)>>)
           first == IF missing = << >> THEN << >> ELSE <<data>>
           then == IF full THEN <<more>> ELSE << >>
<1>1. missing \in Seq(Blocks) /\ Range(missing) \subseteq Range(list)
  BY AmongRange
<1>2. data \in Message /\ data.type = "GETDATA" /\ Range(data.list) \subseteq Range(list)
  BY <1>1 DEF GetData, Message
<1>3. ASSUME full PROVE more \in Message /\ more.type = "GETHEADERS"
  <2>1. Len(list) \in Nat \ {0} /\ Last(list) = list[Len(list)]
    BY <1>3, NetAssumption DEF Last
  <2>2. <<Last(list)>> \in Seq(Blocks)
    BY <2>1
  <2> QED
    BY <2>2 DEF GetHeaders, Message
<1> HIDE DEF missing, data, more
<1>4. first \in Seq(Message) /\ \A msg \in Range(first) : msg = data
  BY <1>2, ShortLists
<1>5. then \in Seq(Message) /\ \A msg \in Range(then) : full /\ msg = more
  BY <1>3, ShortLists
<1>6. Asked(n, list) = first \o then
  BY DEF Asked, missing, data, more
<1> HIDE DEF first, then
<1>7. first \o then \in Seq(Message) /\ Range(first \o then) = Range(first) \cup Range(then)
  BY <1>4, <1>5, RangeOfConcat
<1> QED
  BY <1>2, <1>3, <1>4, <1>5, <1>6, <1>7

\* The two ends of a connection.
Ends(k, l, n, m) == (k = n /\ l = m) \/ (k = m /\ l = n)

WithBoth(f, n, m, v) == [f EXCEPT ![n][m] = v, ![m][n] = v]

Grid(S) == [Nodes -> [Nodes -> S]]

LEMMA BothEnds ==
    ASSUME NEW S, NEW f \in Grid(S), NEW n \in Nodes, NEW m \in Nodes, n # m,
           NEW v \in S, NEW g, g = WithBoth(f, n, m, v)
    PROVE  /\ g \in Grid(S)
           /\ \A k, l \in Nodes : g[k][l] = IF Ends(k, l, n, m) THEN v ELSE f[k][l]
<1> USE DEF Grid
<1> DEFINE there == [f[n] EXCEPT ![m] = v]
           one == [f EXCEPT ![n] = there]
           back == [f[m] EXCEPT ![n] = v]
<1>1. there \in [Nodes -> S] /\ there[m] = v /\ \A l \in Nodes : l # m => there[l] = f[n][l]
  OBVIOUS
<1>2. back \in [Nodes -> S] /\ back[n] = v /\ \A l \in Nodes : l # n => back[l] = f[m][l]
  OBVIOUS
<1> HIDE DEF there
<1>3. /\ one \in [Nodes -> [Nodes -> S]] /\ one[n] = there
      /\ \A k \in Nodes : k # n => one[k] = f[k]
  BY <1>1
<1>4. one[m] = f[m]
  BY <1>3
<1>5. g = [one EXCEPT ![m] = back]
  BY <1>4 DEF there, WithBoth
<1> HIDE DEF one, back
<1>6. /\ g \in [Nodes -> [Nodes -> S]] /\ g[m] = back
      /\ \A k \in Nodes : k # m => g[k] = one[k]
  BY <1>2, <1>3, <1>5
<1>7. /\ g \in [Nodes -> [Nodes -> S]] /\ g[n] = there /\ g[m] = back
      /\ \A k \in Nodes : k # n /\ k # m => g[k] = f[k]
  BY <1>3, <1>6
<1>8. ASSUME NEW k \in Nodes, NEW l \in Nodes
      PROVE  g[k][l] = IF Ends(k, l, n, m) THEN v ELSE f[k][l]
  BY <1>1, <1>2, <1>7 DEF Ends
<1> QED
  BY <1>7, <1>8

\* A connection is closed at both ends, with what is on its wires.
LEMMA ClosedKeeps ==
    ASSUME PeerInv, NEW n \in Nodes, NEW m \in Nodes, n # m, Closed(n, m),
           UNCHANGED chainVars, mishaps' \in 0..MaxMishaps
    PROVE  PeerInv'
<1>1. /\ peer \in [Nodes -> [Nodes -> PeerType]] /\ wire \in [Nodes -> [Nodes -> Seq(Message)]]
      /\ serving \in [Nodes -> Answer]
  BY DEF PeerInv, PeerTypeOK
<1>2. NoPeer \in PeerType /\ NoPeer.open = FALSE /\ << >> \in Seq(Message) /\ Idle \in Answer
  BY DEF PeerType, NoPeer, Answer
<1>3. /\ peer' \in [Nodes -> [Nodes -> PeerType]]
      /\ \A k, l \in Nodes : peer'[k][l] = IF Ends(k, l, n, m) THEN NoPeer ELSE peer[k][l]
  <2>1. peer' = WithBoth(peer, n, m, NoPeer)
    BY DEF Closed, WithBoth
  <2>2. peer \in Grid(PeerType)
    BY <1>1 DEF Grid
  <2>3. peer' \in Grid(PeerType)
        /\ \A k, l \in Nodes : peer'[k][l] = IF Ends(k, l, n, m) THEN NoPeer ELSE peer[k][l]
    BY <1>2, <2>1, <2>2, BothEnds
  <2> QED
    BY <2>3 DEF Grid
<1>4. /\ wire' \in [Nodes -> [Nodes -> Seq(Message)]]
      /\ \A k, l \in Nodes : wire'[k][l] = IF Ends(k, l, n, m) THEN << >> ELSE wire[k][l]
  <2> DEFINE Lists == Seq(Message)
             none == << >>
  <2>1. wire' = WithBoth(wire, n, m, none)
    BY DEF Closed, WithBoth
  <2>2. wire \in Grid(Lists)
    BY <1>1 DEF Grid
  <2>3. none \in Lists
    BY <1>2
  <2> HIDE DEF Lists, none
  <2>4. wire' \in Grid(Lists)
        /\ \A k, l \in Nodes : wire'[k][l] = IF Ends(k, l, n, m) THEN none ELSE wire[k][l]
    BY <2>1, <2>2, <2>3, BothEnds
  <2> QED
    BY <2>4 DEF Grid, Lists, none
<1>5. /\ serving' \in [Nodes -> Answer]
      /\ \A k \in Nodes : serving'[k] = IF k \in {n, m} /\ serving[k].to \in {n, m}
                                        THEN Idle ELSE serving[k]
  BY <1>1, <1>2 DEF Closed
<1>6. PeerTypeOK'
  BY <1>3, <1>4, <1>5 DEF PeerInv, PeerTypeOK, chainVars
<1>7. OpenEnds'
  <2> SUFFICES ASSUME NEW k \in Nodes, NEW l \in Nodes
      PROVE  (peer'[k][l].open => k # l) /\ (~peer'[k][l].open => wire'[k][l] = << >>)
    BY DEF OpenEnds
  <2>1. (peer[k][l].open => k # l) /\ (~peer[k][l].open => wire[k][l] = << >>)
    BY DEF PeerInv, OpenEnds
  <2> QED
    BY <1>2, <1>3, <1>4, <2>1
<1>8. TipStored'
  BY DEF PeerInv, TipStored, chainVars
<1>9. ServesStored'
  <2> SUFFICES ASSUME NEW k \in Nodes, serving'[k] # Idle
      PROVE  /\ serving'[k] \in [to : Nodes, next : Nat \ {0}, last : 0..Best(k)', list : Seq(store'[k])]
             /\ peer'[k][serving'[k].to].open
    BY DEF ServesStored
  <2>1. serving'[k] = serving[k] /\ ~(k \in {n, m} /\ serving[k].to \in {n, m}) /\ serving[k] # Idle
    BY <1>5
  <2>2. /\ serving[k] \in [to : Nodes, next : Nat \ {0}, last : 0..Best(k), list : Seq(store[k])]
        /\ peer[k][serving[k].to].open
    BY <2>1 DEF PeerInv, ServesStored
  <2>3. Best(k)' = Best(k) /\ store'[k] = store[k]
    BY DEF chainVars, Best
  <2>4. serving[k].to \in Nodes
    BY <2>2
  <2>5. peer'[k][serving[k].to] = peer[k][serving[k].to]
    BY <1>3, <2>1, <2>4 DEF Ends
  <2> QED
    BY <2>1, <2>2, <2>3, <2>5
<1>10. WiresBacked'
  <2> SUFFICES ASSUME NEW k \in Nodes, NEW l \in Nodes, NEW msg \in Range(wire'[k][l])
      PROVE  Backed(k, l, msg)'
    BY DEF WiresBacked
  <2>1. msg \in Range(wire[k][l])
    BY <1>4, RangeOfNone
  <2>2. Backed(k, l, msg)
    BY <2>1 DEF PeerInv, WiresBacked
  <2> QED
    BY <2>2 DEF Backed, chainVars
<1>11. RequestIsAnswered'
  <2>1. RequestIsAnswered' <=> AllOnTheirWay'
    BY AskedOrSeen, PTL
  <2> SUFFICES ASSUME NEW k \in Nodes, NEW l \in Nodes, peer'[k][l].open,
                      NEW b \in peer'[k][l].knownInv
      PROVE  b \in store'[k] \cup Holds(k)' \/ OnItsWay(k, l, b)'
    BY <2>1 DEF AllOnTheirWay
  <2>2. ~Ends(k, l, n, m) /\ peer'[k][l] = peer[k][l]
    BY <1>2, <1>3
  <2>3. wire'[k][l] = wire[k][l] /\ wire'[l][k] = wire[l][k]
    BY <1>4, <2>2 DEF Ends
  <2>4. b \in store[k] \cup Holds(k) \/ OnItsWay(k, l, b)
    BY <2>2, AskedOrSeen DEF PeerInv, AllOnTheirWay
  <2> QED
    BY <2>3, <2>4 DEF OnItsWay, BlockMsg, chainVars, Holds
<1> QED
  BY <1>6, <1>7, <1>8, <1>9, <1>10, <1>11 DEF PeerInv

LEMMA HandleHeadersKeeps ==
    ASSUME PeerInv, NEW n \in Nodes, NEW m \in Nodes, HandleHeaders(n, m)
    PROVE  PeerInv'
<1> DEFINE x == Head(wire[m][n])
           msgs == Asked(n, x.list)
<1>1. Takes(n, m, "HEADERS") /\ UNCHANGED chainVars /\ UNCHANGED mishaps
  BY DEF HandleHeaders
<1>2. n # m /\ peer[n][m].open /\ x \in Message /\ x.type = "HEADERS" /\ Backed(m, n, x)
  BY <1>1, TakenFacts
<1>3. x.list \in Seq(Blocks) /\ Range(x.list) \subseteq store[m]
  BY <1>2, ListType DEF Backed
<1>4. CASE ~Linked(x.list)
  <2>1. Closed(n, m) /\ mishaps' \in 0..MaxMishaps
    BY <1>1, <1>4 DEF HandleHeaders, PeerInv, PeerTypeOK
  <2> QED
    BY <1>1, <1>2, <2>1, ClosedKeeps
<1>5. CASE Linked(x.list)
  <2>1. wire' = Handled(n, m, Only(m, msgs)) /\ UNCHANGED peer /\ UNCHANGED serving
    BY <1>5 DEF HandleHeaders
  <2>2. peer[n][m] \in Connected
    BY <1>2, ConnectedPeer
  <2>3. peer' = [peer EXCEPT ![n][m] = peer[n][m]]
    BY <2>1, SamePeer
  <2>4. msgs \in Seq(Message) /\ \A msg \in Range(msgs) :
                \/ msg.type = "GETHEADERS"
                \/ msg.type = "GETDATA" /\ Range(msg.list) \subseteq Range(x.list)
    BY <1>3, AskedType
  <2>5. \A msg \in Range(msgs) : Backed(n, m, msg)
    BY <1>3, <2>4 DEF Backed
  <2>6. Answers(n, m, Only(m, msgs), x)
    BY <1>2 DEF Answers
  <2>7. UNCHANGED <<chainVars, serving, mishaps>>
    BY <1>1, <2>1 DEF chainVars
  <2> HIDE DEF msgs
  <2> QED
    BY <1>1, <2>1, <2>2, <2>3, <2>4, <2>5, <2>6, <2>7, ReplyKeeps
<1> QED
  BY <1>4, <1>5

\* A node asks for a block it hears of for the first time.
LEMMA HandleInvKeeps ==
    ASSUME PeerInv, NEW n \in Nodes, NEW m \in Nodes, HandleInv(n, m)
    PROVE  PeerInv'
<1> DEFINE x == Head(wire[m][n])
           b == x.block
           q == peer[n][m]
           new == b \notin store[n] /\ b \notin q.knownInv
           ask == GetData(<<b>>)
           msgs == IF new THEN <<ask>> ELSE << >>
           p == IF b \in store[n] THEN q ELSE [q EXCEPT !.knownInv = @ \union {b}]
<1>1. Takes(n, m, "INV") /\ UNCHANGED <<chainVars, serving, mishaps>>
      /\ wire' = Handled(n, m, Only(m, msgs))
  BY DEF HandleInv, chainVars
<1>2. x \in Message /\ x.type = "INV" /\ q.open /\ Backed(m, n, x)
  BY <1>1, TakenFacts
<1>3. b \in Blocks /\ b \in store[m]
  BY <1>2 DEF Message, Backed
<1>4. p \in Connected /\ (b \in store[n] => p.knownInv = q.knownInv)
      /\ p.knownInv \subseteq q.knownInv \cup {b}
  BY <1>2, <1>3, ConnectedPeer, ConnectedStays
<1>5. peer' = [peer EXCEPT ![n][m] = p]
  BY SamePeer DEF HandleInv, PeerInv, PeerTypeOK
<1>6. ask \in Message /\ ask.type = "GETDATA" /\ ask.list = <<b>> /\ Range(<<b>>) = {b}
  BY <1>3 DEF GetData, Message, Range
<1> HIDE DEF ask
<1>7. /\ msgs \in Seq(Message) /\ \A msg \in Range(msgs) : msg = ask
      /\ new => ask \in Range(msgs)
  BY <1>6, ShortLists
<1>8. \A msg \in Range(msgs) : Backed(n, m, msg)
  BY <1>3, <1>6, <1>7 DEF Backed
<1>9. Answers(n, m, Only(m, msgs), x)
  BY <1>2 DEF Answers
<1>10. \A c \in p.knownInv \ q.knownInv : c = b /\ new
  BY <1>4
<1>11. \A c \in p.knownInv \ q.knownInv : GetData(<<c>>) \in Range(msgs)
  BY <1>7, <1>10 DEF ask
<1> HIDE DEF msgs, p, new
<1> QED
  BY <1>1, <1>4, <1>5, <1>7, <1>8, <1>9, <1>11, ReplyKeeps

\* A node that is asked for blocks has them, and sends every one.
LEMMA HandleGetDataKeeps ==
    ASSUME PeerInv, NEW n \in Nodes, NEW m \in Nodes, HandleGetData(n, m)
    PROVE  PeerInv'
<1> DEFINE x == Head(wire[m][n])
           found == Among({b \in Blocks : Served(n, b)}, x.list)
           msgs == [i \in DOMAIN found |-> BlockMsg(found[i])]
<1>1. Takes(n, m, "GETDATA") /\ UNCHANGED <<chainVars, serving, mishaps>>
      /\ UNCHANGED peer /\ wire' = Handled(n, m, Only(m, msgs))
  BY DEF HandleGetData, chainVars
<1>2. x \in Message /\ x.type = "GETDATA" /\ peer[n][m].open /\ Backed(m, n, x)
  BY <1>1, TakenFacts
<1>3. x.list \in Seq(Blocks) /\ Range(x.list) \subseteq store[n] /\ Range(x.list) \subseteq Blocks
  BY <1>2, ListType, RangeInSet DEF Backed
<1>4. found \in Seq(Blocks) /\ Range(found) = Range(x.list)
  <2>1. found \in Seq(Blocks) /\ Range(found) = Range(x.list) \cap {b \in Blocks : Served(n, b)}
    BY <1>3, AmongRange
  <2> QED
    BY <1>3, <2>1 DEF Served
<1> HIDE DEF found
<1>5. \A b \in Blocks : BlockMsg(b) \in Message /\ BlockMsg(b).type = "BLOCK"
  BY DEF BlockMsg, Message
<1>6. /\ msgs \in Seq(Message) /\ \A msg \in Range(msgs) : msg.type = "BLOCK"
      /\ \A b \in Range(found) : BlockMsg(b) \in Range(msgs)
  BY <1>4, <1>5 DEF Range
<1> HIDE DEF msgs
<1>7. \A msg \in Range(msgs) : Backed(n, m, msg)
  BY <1>6 DEF Backed
<1>8. Answers(n, m, Only(m, msgs), x)
  <2>1. Only(m, msgs)[m] = msgs
    BY <1>2, <1>6, OnlyTo
  <2> QED
    BY <1>2, <1>4, <1>6, <2>1 DEF Answers
<1>9. peer[n][m] \in Connected
  BY <1>2, ConnectedPeer
<1>10. peer' = [peer EXCEPT ![n][m] = peer[n][m]]
  BY <1>1, SamePeer
<1> QED
  BY <1>1, <1>6, <1>7, <1>8, <1>9, <1>10, ReplyKeeps

\* The chain of a node may only grow, and no held block is lost.
Grown ==
    /\ store' \in [Nodes -> SUBSET Blocks] /\ tip' \in [Nodes -> Blocks]
    /\ held' \in [Nodes -> Seq(Blocks)] /\ refused' \in [Nodes -> Seq(Blocks)]
    /\ evicted' \in [Nodes -> SUBSET Blocks]
    /\ \A k \in Nodes : /\ store[k] \subseteq store'[k]
                        /\ Holds(k) \subseteq store'[k] \cup Holds(k)'
                        /\ Height(tip[k]) <= Height(tip'[k])
                        /\ Range(Branch[tip'[k]]) \subseteq store'[k]

LEMMA ListOfMore == \A S, T : S \subseteq T => \A s \in Seq(S) : s \in Seq(T)
  OBVIOUS

LEMMA UnchangedGrown == ASSUME PeerInv, UNCHANGED chainVars PROVE Grown
<1>1. \A k \in Nodes : Height(tip[k]) \in Nat
  BY BranchFacts DEF PeerInv, PeerTypeOK
<1> QED
  BY <1>1 DEF Grown, PeerInv, PeerTypeOK, TipStored, chainVars, Holds

LEMMA GrownKeeps ==
    ASSUME PeerInv, Grown, UNCHANGED peer
    PROVE  /\ TipStored'
           /\ \A n, m \in Nodes : \A out : Learns(n, m, out)
           /\ \A k \in Nodes : serving[k] # Idle =>
                /\ serving[k] \in [to : Nodes, next : Nat \ {0}, last : 0..Best(k)', list : Seq(store'[k])]
                /\ peer[k][serving[k].to].open
<1>1. TipStored'
  BY DEF Grown, TipStored
<1>2. \A n, m \in Nodes : \A out : Learns(n, m, out)
  BY DEF Grown, Learns
<1>3. ASSUME NEW k \in Nodes, serving[k] # Idle
      PROVE  /\ serving[k] \in [to : Nodes, next : Nat \ {0}, last : 0..Best(k)', list : Seq(store'[k])]
             /\ peer[k][serving[k].to].open
  <2>1. /\ serving[k] \in [to : Nodes, next : Nat \ {0}, last : 0..Best(k), list : Seq(store[k])]
        /\ peer[k][serving[k].to].open
    BY <1>3 DEF PeerInv, ServesStored
  <2>2. Height(tip[k]) \in Nat /\ Height(tip'[k]) \in Nat /\ Height(tip[k]) <= Height(tip'[k])
        /\ store[k] \subseteq store'[k]
    BY BranchFacts DEF PeerInv, PeerTypeOK, Grown
  <2>3. Best(k) = Height(tip[k]) /\ Best(k)' = Height(tip'[k])
    BY DEF Best, Height
  <2>4. serving[k].list \in Seq(store'[k])
    BY <2>1, <2>2, ListOfMore
  <2>5. serving[k].last \in 0..Best(k)'
    BY <2>1, <2>2, <2>3
  <2> QED
    BY <2>1, <2>4, <2>5
<1> QED
  BY <1>1, <1>2, <1>3

\* A node that stored a new block on its tip.
LEMMA StoredGrows ==
    ASSUME PeerInv, NEW n \in Nodes, NEW b \in Blocks, Extends(n, b), Stored(n, b)
    PROVE  Grown /\ b \in store'[n]
<1>1. /\ tip \in [Nodes -> Blocks] /\ store \in [Nodes -> SUBSET Blocks]
      /\ held \in [Nodes -> Seq(Blocks)] /\ refused \in [Nodes -> Seq(Blocks)]
      /\ evicted \in [Nodes -> SUBSET Blocks]
  BY DEF PeerInv, PeerTypeOK
<1>2. /\ tip' \in [Nodes -> Blocks] /\ store' \in [Nodes -> SUBSET Blocks]
      /\ tip'[n] = b /\ store'[n] = store[n] \cup {b}
      /\ \A k \in Nodes : k # n => tip'[k] = tip[k] /\ store'[k] = store[k]
      /\ UNCHANGED <<held, refused, evicted>>
  BY <1>1 DEF Stored
<1>3. Branch[tip[n]] \in Seq(Blocks) /\ Branch[b] = Append(Branch[tip[n]], b)
  BY <1>1, BranchFacts DEF Extends
<1>4. Range(Branch[b]) \subseteq store'[n]
  BY <1>2, <1>3, RangeOfAppend DEF PeerInv, TipStored
<1>5. Height(tip[n]) <= Height(b)
  BY <1>3 DEF Height
<1>6. \A k \in Nodes : Height(tip[k]) \in Nat
  BY <1>1, BranchFacts
<1>7. ASSUME NEW k \in Nodes
      PROVE  /\ store[k] \subseteq store'[k]
             /\ Holds(k) \subseteq store'[k] \cup Holds(k)'
             /\ Height(tip[k]) <= Height(tip'[k])
             /\ Range(Branch[tip'[k]]) \subseteq store'[k]
  <2>1. Holds(k)' = Holds(k)
    BY <1>2 DEF Holds
  <2>2. CASE k = n
    BY <1>2, <1>4, <1>5, <2>1, <2>2
  <2>3. CASE k # n
    BY <1>2, <1>6, <2>1, <2>3 DEF PeerInv, TipStored
  <2> QED
    BY <2>2, <2>3
<1> QED
  BY <1>1, <1>2, <1>7 DEF Grown

\* A node where an adoption with this list of held blocks left it.
LEMMA AfterGrows ==
    ASSUME PeerInv, NEW n \in Nodes, NEW list, NEW out \in SUBSET Blocks,
           evicted' = [evicted EXCEPT ![n] = out],
           Holds(n) \subseteq Range(list) \cup out, NEW r,
           Adopts(n, list, r), After(n, r)
    PROVE  /\ Grown
           /\ r.bodies \in Seq(Blocks) /\ r.tip \in Blocks
           /\ Range(r.bodies) \subseteq store'[n]
           /\ Range(list) \subseteq store'[n] \cup Holds(n)'
<1>1. /\ tip \in [Nodes -> Blocks] /\ store \in [Nodes -> SUBSET Blocks]
      /\ held \in [Nodes -> Seq(Blocks)] /\ refused \in [Nodes -> Seq(Blocks)]
      /\ evicted \in [Nodes -> SUBSET Blocks]
  BY DEF PeerInv, PeerTypeOK
<1>2. /\ r.tip \in Blocks /\ r.held \in Seq(Blocks) /\ r.refused \in Seq(Blocks)
      /\ r.bodies \in Seq(Blocks)
  BY DEF Adopts
<1>3. Range(r.bodies) \subseteq Blocks
  BY <1>2, RangeInSet
<1>4. /\ tip' \in [Nodes -> Blocks] /\ store' \in [Nodes -> SUBSET Blocks]
      /\ tip'[n] = r.tip /\ store'[n] = store[n] \cup Range(r.bodies)
      /\ \A k \in Nodes : k # n => tip'[k] = tip[k] /\ store'[k] = store[k]
  BY <1>1, <1>2, <1>3 DEF After
<1>5. /\ held' \in [Nodes -> Seq(Blocks)] /\ refused' \in [Nodes -> Seq(Blocks)]
      /\ evicted' \in [Nodes -> SUBSET Blocks]
      /\ held'[n] = r.held /\ evicted'[n] = out
      /\ \A k \in Nodes : k # n => held'[k] = held[k] /\ evicted'[k] = evicted[k]
  BY <1>1, <1>2 DEF After
<1>6. Holds(n)' = Range(r.held) \cup out
  BY <1>5 DEF Holds
<1>7. /\ Height(r.tip) >= Height(tip[n])
      /\ Range(Branch[r.tip]) \subseteq store'[n]
      /\ Range(list) \subseteq store'[n] \cup Holds(n)'
  BY <1>4, <1>6 DEF Adopts, Best
<1>8. \A k \in Nodes : Height(tip[k]) \in Nat
  BY <1>1, BranchFacts
<1>9. Height(r.tip) \in Nat
  BY <1>2, BranchFacts
<1>10. ASSUME NEW k \in Nodes
       PROVE  /\ store[k] \subseteq store'[k]
              /\ Holds(k) \subseteq store'[k] \cup Holds(k)'
              /\ Height(tip[k]) <= Height(tip'[k])
              /\ Range(Branch[tip'[k]]) \subseteq store'[k]
  <2>1. CASE k = n
    BY <1>4, <1>6, <1>7, <1>8, <1>9, <2>1
  <2>2. CASE k # n
    <3>1. Holds(k)' = Holds(k)
      BY <1>5, <2>2 DEF Holds
    <3> QED
      BY <1>4, <1>8, <2>2, <3>1 DEF PeerInv, TipStored
  <2> QED
    BY <2>1, <2>2
<1> QED
  BY <1>2, <1>4, <1>5, <1>7, <1>10 DEF Grown

\* Blocks that are stored may be told of.
LEMMA GossipKeeps ==
    ASSUME PeerInv, NEW n \in Nodes, NEW bs \in Seq(Blocks), Range(bs) \subseteq store'[n]
    PROVE  /\ Gossip(n, bs) \in [Nodes -> Seq(Message)]
           /\ ToPeers(n, Gossip(n, bs)) /\ OutBacked(n, Gossip(n, bs))
<1>1. /\ Gossip(n, bs) \in [Nodes -> Seq(Message)]
      /\ \A m \in Nodes : /\ Range(Gossip(n, bs)[m]) \subseteq News(bs)
                          /\ Gossip(n, bs)[m] # << >> => peer[n][m].open
  BY GossipType
<1>2. \A msg \in News(bs) : /\ msg.type \in {"INV", "BLOCK"} /\ msg.block \in store'[n]
  BY DEF News, Inv, BlockMsg
<1>3. ASSUME NEW l \in Nodes, NEW msg \in Range(Gossip(n, bs)[l]) PROVE Backed(n, l, msg)'
  BY <1>1, <1>2, <1>3 DEF Backed
<1> QED
  BY <1>1, <1>3 DEF ToPeers, OutBacked

\* Messages behind one another to each peer.
LEMMA BothOut ==
    ASSUME NEW n \in Nodes,
           NEW a \in [Nodes -> Seq(Message)], ToPeers(n, a), OutBacked(n, a),
           NEW c \in [Nodes -> Seq(Message)], ToPeers(n, c), OutBacked(n, c),
           NEW out, out = [l \in Nodes |-> a[l] \o c[l]]
    PROVE  out \in [Nodes -> Seq(Message)] /\ ToPeers(n, out) /\ OutBacked(n, out)
<1>1. ASSUME NEW l \in Nodes
      PROVE  /\ a[l] \o c[l] \in Seq(Message)
             /\ Range(a[l] \o c[l]) = Range(a[l]) \cup Range(c[l])
  BY RangeOfConcat
<1>2. ASSUME NEW l \in Nodes, a[l] \o c[l] # << >> PROVE peer[n][l].open
  <2>1. a[l] # << >> \/ c[l] # << >>
    BY <1>2
  <2> QED
    BY <2>1 DEF ToPeers
<1>3. ASSUME NEW l \in Nodes, NEW msg \in Range(out[l]) PROVE Backed(n, l, msg)'
  <2>1. msg \in Range(a[l]) \/ msg \in Range(c[l])
    BY <1>1, <1>3
  <2> QED
    BY <2>1 DEF OutBacked
<1> QED
  BY <1>1, <1>2, <1>3 DEF ToPeers, OutBacked

\* A BLOCK message handled by a node whose chain grew.
LEMMA GrownHandled ==
    ASSUME PeerInv, NEW n \in Nodes, NEW m \in Nodes, NEW type, Takes(n, m, type),
           type # "GETDATA", Grown, UNCHANGED <<peer, serving>>, mishaps' \in 0..MaxMishaps,
           NEW out \in [Nodes -> Seq(Message)], wire' = Handled(n, m, out),
           ToPeers(n, out), OutBacked(n, out),
           type = "BLOCK" => Head(wire[m][n]).block \in store'[n] \cup Holds(n)'
    PROVE  PeerInv'
<1>1. n # m /\ wire[m][n] # << >> /\ Head(wire[m][n]).type = type
  BY TakenFacts
<1>2. Answers(n, m, out, Head(wire[m][n]))
  BY <1>1 DEF Answers
<1>3. Learns(n, m, out) /\ TipStored'
  BY GrownKeeps
<1>4. OpenEnds' /\ WiresBacked' /\ RequestIsAnswered'
      /\ wire' \in [Nodes -> [Nodes -> Seq(Message)]]
  BY <1>1, <1>2, <1>3, HandledKeeps
<1>5. ServesStored'
  BY GrownKeeps DEF ServesStored
<1>6. PeerTypeOK'
  BY <1>4 DEF Grown, PeerInv, PeerTypeOK
<1> QED
  BY <1>3, <1>4, <1>5, <1>6 DEF PeerInv

\* What a node whose chain grew tells unasked.
LEMMA GrownSent ==
    ASSUME PeerInv, NEW n \in Nodes, Grown, UNCHANGED <<peer, serving, mishaps>>,
           NEW out \in [Nodes -> Seq(Message)], wire' = Sent(n, out),
           ToPeers(n, out), OutBacked(n, out)
    PROVE  PeerInv'
<1>1. Learns(n, n, out) /\ TipStored'
  BY GrownKeeps
<1>2. OpenEnds' /\ WiresBacked' /\ RequestIsAnswered'
      /\ wire' \in [Nodes -> [Nodes -> Seq(Message)]]
  BY <1>1, SentKeeps
<1>3. ServesStored'
  BY GrownKeeps DEF ServesStored
<1>4. PeerTypeOK'
  BY <1>2 DEF Grown, PeerInv, PeerTypeOK
<1> QED
  BY <1>1, <1>2, <1>3, <1>4 DEF PeerInv

\* A block that extends the tip is stored and told, one already stored is dropped.
LEMMA HandleBlockKeeps ==
    ASSUME PeerInv, NEW n \in Nodes, NEW m \in Nodes, HandleBlock(n, m)
    PROVE  PeerInv'
<1> DEFINE b == Head(wire[m][n]).block
<1>1. Takes(n, m, "BLOCK") /\ UNCHANGED <<peer, serving, mishaps>> /\ Extends(n, b)
  BY DEF HandleBlock
<1>2. b \in Blocks /\ peer[n][m].open
  BY <1>1, TakenFacts DEF Message
<1>3. mishaps' \in 0..MaxMishaps
  BY <1>1 DEF PeerInv, PeerTypeOK
<1>4. CASE b \in store[n]
  <2>1. wire' = Handled(n, m, Only(m, << >>)) /\ UNCHANGED chainVars
    BY <1>4 DEF HandleBlock
  <2>2. Grown
    BY <2>1, UnchangedGrown
  <2> DEFINE none == << >>
  <2>3. none \in Seq(Message) /\ \A msg \in Range(none) : Backed(n, m, msg)'
    BY RangeOfNone
  <2> HIDE DEF none
  <2>4. /\ Only(m, none) \in [Nodes -> Seq(Message)]
        /\ ToPeers(n, Only(m, none)) /\ OutBacked(n, Only(m, none))
    BY <1>2, <2>3, OnlyTo
  <2>5. wire' = Handled(n, m, Only(m, none))
    BY <2>1 DEF none
  <2>6. b \in store'[n] \cup Holds(n)'
    BY <1>4, <2>1 DEF chainVars
  <2> QED
    BY <1>1, <1>3, <2>2, <2>4, <2>6, <2>5, GrownHandled
<1>5. CASE b \notin store[n]
  <2>1. wire' = Handled(n, m, Gossip(n, <<b>>)) /\ Stored(n, b)
    BY <1>5 DEF HandleBlock
  <2>2. Grown /\ b \in store'[n]
    BY <1>1, <1>2, <2>1, StoredGrows
  <2>3. <<b>> \in Seq(Blocks) /\ Range(<<b>>) \subseteq store'[n]
    BY <1>2, <2>2 DEF Range
  <2>4. /\ Gossip(n, <<b>>) \in [Nodes -> Seq(Message)]
        /\ ToPeers(n, Gossip(n, <<b>>)) /\ OutBacked(n, Gossip(n, <<b>>))
    BY <2>3, GossipKeeps
  <2>5. b \in store'[n] \cup Holds(n)'
    BY <2>2
  <2> QED
    BY <1>1, <1>3, <2>1, <2>2, <2>4, <2>5, GrownHandled
<1> QED
  BY <1>4, <1>5

\* A block off the tip is held, unless the branch it completes is adopted.
LEMMA OffTipKeeps ==
    ASSUME PeerInv, NEW n \in Nodes, NEW m \in Nodes, Takes(n, m, "BLOCK"),
           NEW list, list = Noted(held[n], Head(wire[m][n]).block), NEW r,
           Adopts(n, list, r), Evicting(n, Head(wire[m][n]).block), OffTip(n, m, r),
           UNCHANGED <<peer, serving>>, mishaps' \in 0..MaxMishaps
    PROVE  PeerInv'
<1> DEFINE told == Gossip(n, r.bodies)
           ask == IF peer[n][m].startHeight > Height(r.tip)
                  THEN <<GetHeaders(Locator(r.tip))>> ELSE << >>
           out == [l \in Nodes |-> told[l] \o Only(m, ask)[l]]
<1>1. After(n, r) /\ wire' = Handled(n, m, [told EXCEPT ![m] = @ \o ask])
  BY DEF OffTip
<1>2. /\ list \in Seq(Blocks) /\ Head(wire[m][n]).block \in Range(list)
       /\ held[n] \in Seq(Blocks) /\ evicted[n] \in SUBSET Blocks
  <2>1. held[n] \in Seq(Blocks) /\ evicted[n] \in SUBSET Blocks
    BY DEF PeerInv, PeerTypeOK
  <2>2. Head(wire[m][n]).block \in Blocks
    BY TakenFacts DEF Message
  <2> QED
    BY <2>1, <2>2, NotedFacts
<1> DEFINE gone == (evicted[n] \union Range(held[n])) \ Range(list)
<1>3. gone \in SUBSET Blocks /\ Holds(n) \subseteq Range(list) \cup gone
  BY <1>2, RangeInSet DEF Holds
<1>4. evicted' = [evicted EXCEPT ![n] = gone]
  BY DEF Evicting
<1> HIDE DEF gone
<1>5. /\ Grown
      /\ r.bodies \in Seq(Blocks) /\ r.tip \in Blocks
      /\ Range(r.bodies) \subseteq store'[n]
      /\ Range(list) \subseteq store'[n] \cup Holds(n)'
  BY <1>1, <1>3, <1>4, AfterGrows
<1>6. told \in [Nodes -> Seq(Message)] /\ ToPeers(n, told) /\ OutBacked(n, told)
  BY <1>5, GossipKeeps
<1>7. GetHeaders(Locator(r.tip)) \in Message /\ GetHeaders(Locator(r.tip)).type = "GETHEADERS"
  BY <1>5, LocatorType DEF GetHeaders
<1>8. ask \in Seq(Message) /\ \A msg \in Range(ask) : msg.type = "GETHEADERS"
  BY <1>7, ShortLists
<1>9. peer[n][m].open
  BY TakenFacts
<1>10. (\A msg \in Range(ask) : Backed(n, m, msg)')
  BY <1>8 DEF Backed
<1> HIDE DEF told, ask
<1>11. /\ Only(m, ask) \in [Nodes -> Seq(Message)]
      /\ ToPeers(n, Only(m, ask)) /\ OutBacked(n, Only(m, ask))
  BY <1>8, <1>9, <1>10, OnlyTo
<1>12. out \in [Nodes -> Seq(Message)] /\ ToPeers(n, out) /\ OutBacked(n, out)
  BY <1>6, <1>11, BothOut
<1>13. [told EXCEPT ![m] = @ \o ask] = out
  <2>1. \A l \in Nodes : told[l] \o << >> = told[l]
    BY <1>6
  <2> QED
    BY <1>6, <2>1 DEF Only
<1> HIDE DEF out
<1>14. Head(wire[m][n]).block \in store'[n] \cup Holds(n)'
  BY <1>5, <1>2
<1>15. wire' = Handled(n, m, out)
  BY <1>1, <1>13 DEF told, ask
<1> QED
  BY <1>5, <1>12, <1>14, <1>15, GrownHandled

LEMMA HandleOffTipKeeps ==
    ASSUME PeerInv, NEW n \in Nodes, NEW m \in Nodes, HandleOffTip(n, m)
    PROVE  PeerInv'
<1> DEFINE b == Head(wire[m][n]).block
           list == Noted(held[n], b)
<1>1. Takes(n, m, "BLOCK") /\ UNCHANGED <<peer, serving, mishaps>> /\ Evicting(n, b)
  BY DEF HandleOffTip
<1>2. PICK r \in Adoptions(n, list) : OffTip(n, m, r)
  BY DEF HandleOffTip
<1>3. PeerTypeOK /\ TipStored /\ mishaps' \in 0..MaxMishaps
  BY <1>1 DEF PeerInv, PeerTypeOK
<1>4. list \in Seq(Blocks)
  <2>1. b \in Blocks
    BY <1>1, TakenFacts DEF Message
  <2>2. held[n] \in Seq(Blocks)
    BY <1>3 DEF PeerTypeOK
  <2> QED
    BY <2>1, <2>2, NotedFacts
<1> HIDE DEF list
<1>5. Adopts(n, list, r)
  BY <1>3, <1>4, AdoptionFacts
<1> QED
  BY <1>1, <1>2, <1>3, <1>5, OffTipKeeps DEF list

LEMMA HandleOffTipBusyKeeps ==
    ASSUME PeerInv, NEW n \in Nodes, NEW m \in Nodes, HandleOffTipBusy(n, m)
    PROVE  PeerInv'
<1> DEFINE b == Head(wire[m][n]).block
           list == Noted(held[n], b)
           r == [tip |-> tip[n], held |-> list, refused |-> refused[n], bodies |-> << >>]
<1>1. Takes(n, m, "BLOCK") /\ UNCHANGED <<peer, serving>> /\ Evicting(n, b)
      /\ OffTip(n, m, r)
  BY DEF HandleOffTipBusy
<1>2. mishaps' \in 0..MaxMishaps
  BY NetAssumption DEF HandleOffTipBusy, PeerInv, PeerTypeOK
<1>3. b \in Blocks
  BY <1>1, TakenFacts DEF Message
<1>4. Adopts(n, list, r)
  <2>1. /\ tip[n] \in Blocks /\ held[n] \in Seq(Blocks) /\ refused[n] \in Seq(Blocks)
        /\ Range(Branch[tip[n]]) \subseteq store[n]
    BY DEF PeerInv, PeerTypeOK, TipStored
  <2>2. Best(n) = Height(tip[n]) /\ Height(tip[n]) \in Nat
    BY <2>1, BranchFacts DEF Best
  <2>3. << >> \in Seq(Blocks)
    OBVIOUS
  <2>4. list \in Seq(Blocks)
    BY <1>3, <2>1, NotedFacts
  <2> HIDE DEF list
  <2> QED
    BY <2>1, <2>2, <2>3, <2>4 DEF Adopts
<1> HIDE DEF r
<1> QED
  BY <1>1, <1>2, <1>4, OffTipKeeps

LEMMA MineKeeps ==
    ASSUME PeerInv, NEW n \in Nodes, NEW b \in Blocks, Mine(n, b)
    PROVE  PeerInv'
<1>1. Extends(n, b) /\ Stored(n, b) /\ wire' = Sent(n, Gossip(n, <<b>>))
      /\ UNCHANGED <<peer, serving, mishaps>>
  BY DEF Mine
<1>2. Grown /\ b \in store'[n]
  BY <1>1, StoredGrows
<1>3. <<b>> \in Seq(Blocks) /\ Range(<<b>>) \subseteq store'[n]
  BY <1>2 DEF Range
<1>4. /\ Gossip(n, <<b>>) \in [Nodes -> Seq(Message)]
      /\ ToPeers(n, Gossip(n, <<b>>)) /\ OutBacked(n, Gossip(n, <<b>>))
  BY <1>3, GossipKeeps
<1> QED
  BY <1>1, <1>2, <1>4, GrownSent

LEMMA HeartbeatKeeps ==
    ASSUME PeerInv, NEW n \in Nodes, Heartbeat(n)
    PROVE  PeerInv'
<1>1. UNCHANGED <<evicted, peer, serving, mishaps>>
  BY DEF Heartbeat
<1> DEFINE Asks(m) == /\ peer[n][m].open /\ peer[n][m].complete /\ MustAsk(n, m)
                      /\ Len(wire[n][m]) + Len(wire[m][n]) < MaxWire
                      /\ serving[m].to # n
           get == GetHeaders(Locator(tip[n]))
           Ask(m) == IF Asks(m) THEN <<get>> ELSE << >>
           asks == [m \in Nodes |-> Ask(m)]
           Out(bs) == [m \in Nodes |-> Ask(m) \o Gossip(n, bs)[m]]
<1>2. PICK r \in Adoptions(n, held[n]) : After(n, r) /\ wire' = Sent(n, Out(r.bodies))
  BY DEF Heartbeat
<1>3. PeerTypeOK /\ TipStored /\ held[n] \in Seq(Blocks) /\ tip[n] \in Blocks
  BY DEF PeerInv, PeerTypeOK
<1>4. Adopts(n, held[n], r)
  BY <1>3, AdoptionFacts
<1>5. /\ Grown
      /\ r.bodies \in Seq(Blocks)
      /\ Range(r.bodies) \subseteq store'[n]
  <2>1. /\ evicted[n] \in SUBSET Blocks /\ evicted' = [evicted EXCEPT ![n] = evicted[n]]
        /\ Holds(n) \subseteq Range(held[n]) \cup evicted[n]
    BY <1>1 DEF PeerInv, PeerTypeOK, Holds
  <2> QED
    BY <1>2, <1>4, <2>1, AfterGrows
<1> DEFINE told == Gossip(n, r.bodies)
<1>6. told \in [Nodes -> Seq(Message)] /\ ToPeers(n, told) /\ OutBacked(n, told)
  BY <1>5, GossipKeeps
<1>7. get \in Message /\ get.type = "GETHEADERS"
  BY <1>3, LocatorType DEF GetHeaders
<1> HIDE DEF get, Asks
<1>8. \A m \in Nodes : /\ Ask(m) \in Seq(Message)
                       /\ Ask(m) # << >> => Asks(m)
                       /\ \A msg \in Range(Ask(m)) : msg = get
  BY <1>7, ShortLists
<1> HIDE DEF Ask
<1>9. asks \in [Nodes -> Seq(Message)] /\ ToPeers(n, asks) /\ OutBacked(n, asks)
  <2>1. ASSUME NEW l \in Nodes, NEW msg \in Range(asks[l]) PROVE Backed(n, l, msg)'
    BY <1>7, <1>8, <2>1 DEF Backed
  <2> QED
    BY <1>8, <2>1 DEF ToPeers, OutBacked, Asks
<1>10. Out(r.bodies) = [m \in Nodes |-> asks[m] \o told[m]]
  OBVIOUS
<1> DEFINE out == Out(r.bodies)
<1> HIDE DEF told, asks, Out
<1>11. out \in [Nodes -> Seq(Message)] /\ ToPeers(n, out) /\ OutBacked(n, out)
  BY <1>6, <1>9, <1>10, BothOut
<1> QED
  BY <1>1, <1>2, <1>5, <1>11, GrownSent

\* An answer of n in the making, as ServesStored has it.
Collecting(n) ==
    [to : Nodes, next : Nat \ {0}, last : 0..Best(n), list : Seq(store[n])]

LEMMA CollectingAnswers ==
    ASSUME PeerInv, NEW n \in Nodes, NEW a \in Collecting(n) PROVE a \in Answer
<1>1. store[n] \subseteq Blocks
  BY DEF PeerInv, PeerTypeOK
<1>2. tip[n] \in Blocks
  BY DEF PeerInv, PeerTypeOK
<1>3. Best(n) \in Nat
  BY <1>2, BranchFacts DEF Best
<1>4. a.list \in Seq(Blocks)
  BY <1>1, ListOfMore DEF Collecting
<1> QED
  BY <1>3, <1>4 DEF Collecting, Answer

LEMMA HandleGetHeadersKeeps ==
    ASSUME PeerInv, NEW n \in Nodes, NEW m \in Nodes, HandleGetHeaders(n, m)
    PROVE  PeerInv'
<1> DEFINE x == Head(wire[m][n])
           none == << >>
           a == [to |-> m, next |-> StartHeight(n, x.locator), last |-> Best(n), list |-> << >>]
<1>1. Takes(n, m, "GETHEADERS") /\ UNCHANGED chainVars /\ UNCHANGED <<peer, mishaps>>
      /\ wire' = Handled(n, m, Only(m, none)) /\ serving' = [serving EXCEPT ![n] = a]
  BY DEF HandleGetHeaders
<1>2. n # m /\ peer[n][m].open /\ wire[m][n] # << >> /\ x \in Message /\ x.type = "GETHEADERS"
  BY <1>1, TakenFacts
<1>3. x.locator \in Seq(Blocks)
  BY <1>2 DEF Message
<1>4. StartHeight(n, x.locator) \in Nat \ {0}
  <2> DEFINE known == Among(store[n], x.locator)
  <2>1. known \in Seq(Blocks)
    BY <1>3, AmongRange
  <2> HIDE DEF known
  <2>2. known # << >> => Head(known) \in Blocks
    BY <2>1
  <2>3. known # << >> => Height(Head(known)) \in Nat
    BY <2>2, BranchFacts
  <2>4. StartHeight(n, x.locator) = IF known = << >> THEN 1 ELSE Height(Head(known)) + 1
    BY DEF StartHeight, known
  <2> QED
    BY <2>3, <2>4
<1>5. tip[n] \in Blocks
  BY DEF PeerInv, PeerTypeOK
<1>6. Best(n) \in Nat
  BY <1>5, BranchFacts DEF Best
<1>7. a \in Collecting(n)
  BY <1>4, <1>6 DEF Collecting
<1> HIDE DEF a
<1>8. a \in Answer
  BY <1>7, CollectingAnswers
<1>9. none \in Seq(Message) /\ \A msg \in Range(none) : Backed(n, m, msg)'
  BY RangeOfNone
<1> HIDE DEF none
<1>10. /\ Only(m, none) \in [Nodes -> Seq(Message)]
       /\ ToPeers(n, Only(m, none)) /\ OutBacked(n, Only(m, none))
  BY <1>2, <1>9, OnlyTo
<1>11. Grown
  BY <1>1, UnchangedGrown
<1>12. Learns(n, m, Only(m, none)) /\ TipStored'
  BY <1>1, <1>11, GrownKeeps
<1>13. Answers(n, m, Only(m, none), x)
  BY <1>2 DEF Answers
<1>14. OpenEnds' /\ WiresBacked' /\ RequestIsAnswered'
       /\ wire' \in [Nodes -> [Nodes -> Seq(Message)]]
  BY <1>1, <1>2, <1>10, <1>12, <1>13, HandledKeeps
<1>15. serving \in [Nodes -> Answer]
  BY DEF PeerInv, PeerTypeOK
<1>16. PeerTypeOK'
  BY <1>1, <1>8, <1>14, <1>15 DEF PeerInv, PeerTypeOK, chainVars
<1>17. ServesStored'
  <2> SUFFICES ASSUME NEW k \in Nodes, serving'[k] # Idle
      PROVE  /\ serving'[k] \in Collecting(k)'
             /\ peer'[k][serving'[k].to].open
    BY DEF ServesStored, Collecting
  <2>1. Collecting(k)' = Collecting(k)
    BY <1>1 DEF Collecting, chainVars, Best
  <2>2. CASE k = n
    <3>1. serving'[k] = a /\ a.to = m
      BY <1>1, <1>15, <2>2 DEF a
    <3> QED
      BY <1>1, <1>2, <1>7, <2>1, <2>2, <3>1
  <2>3. CASE k # n
    <3>1. serving'[k] = serving[k]
      BY <1>1, <1>15, <2>3
    <3> QED
      BY <1>1, <2>1, <3>1 DEF PeerInv, ServesStored, Collecting
  <2> QED
    BY <2>2, <2>3
<1> QED
  BY <1>12, <1>14, <1>16, <1>17 DEF PeerInv

LEMMA ReadHeaderKeeps ==
    ASSUME PeerInv, NEW n \in Nodes, ReadHeader(n)
    PROVE  PeerInv'
<1> DEFINE q == serving[n]
           b == Branch[tip[n]][q.next]
           a == [q EXCEPT !.next = @ + 1, !.list = Append(@, b)]
<1>1. UNCHANGED chainVars /\ UNCHANGED <<peer, wire, mishaps>> /\ q # Idle /\ q.next <= q.last
  BY DEF ReadHeader, MoreHeaders
<1>2. q \in Collecting(n) /\ peer[n][q.to].open
  BY <1>1 DEF PeerInv, ServesStored, Collecting
<1>3. /\ serving \in [Nodes -> Answer] /\ tip[n] \in Blocks
      /\ Range(Branch[tip[n]]) \subseteq store[n]
  BY DEF PeerInv, PeerTypeOK, TipStored
<1>4. serving' = [serving EXCEPT ![n] = a]
  BY <1>3 DEF ReadHeader
<1>5. b \in store[n]
  <2>1. Best(n) \in Nat /\ DOMAIN Branch[tip[n]] = 1..Best(n)
    BY <1>3, BranchFacts DEF Best
  <2>2. q.next \in 1..Best(n)
    BY <1>1, <1>2, <2>1 DEF Collecting
  <2> QED
    BY <1>3, <2>1, <2>2 DEF Range
<1> HIDE DEF b, q
<1>6. a \in Collecting(n) /\ a.to = q.to
  <2>1. PICK to \in Nodes, next \in Nat \ {0}, last \in 0..Best(n), list \in Seq(store[n]) :
          q = [to |-> to, next |-> next, last |-> last, list |-> list]
    BY <1>2 DEF Collecting
  <2>2. Append(list, b) \in Seq(store[n]) /\ next + 1 \in Nat \ {0}
    BY <1>5, RangeOfAppend
  <2> DEFINE longer == Append(list, b)
  <2>3. a = [q EXCEPT !.next = next + 1, !.list = longer]
    BY <2>1
  <2> HIDE DEF a, longer
  <2>4. a = [to |-> to, next |-> next + 1, last |-> last, list |-> longer]
    BY <2>1, <2>3
  <2> QED
    BY <2>1, <2>2, <2>4 DEF Collecting, longer
<1> HIDE DEF a
<1>7. a \in Answer
  BY <1>6, CollectingAnswers
<1>8. PeerTypeOK'
  BY <1>1, <1>3, <1>4, <1>7 DEF PeerInv, PeerTypeOK, chainVars
<1>9. ServesStored'
  <2> SUFFICES ASSUME NEW k \in Nodes, serving'[k] # Idle
      PROVE  /\ serving'[k] \in Collecting(k)'
             /\ peer'[k][serving'[k].to].open
    BY DEF ServesStored, Collecting
  <2>1. Collecting(k)' = Collecting(k)
    BY <1>1 DEF Collecting, chainVars, Best
  <2>2. CASE k = n
    BY <1>1, <1>2, <1>3, <1>4, <1>6, <2>1, <2>2
  <2>3. CASE k # n
    <3>1. serving'[k] = serving[k]
      BY <1>3, <1>4, <2>3
    <3> QED
      BY <1>1, <2>1, <3>1 DEF PeerInv, ServesStored, Collecting
  <2> QED
    BY <2>2, <2>3
<1>10. OpenEnds' /\ TipStored' /\ WiresBacked'
  BY <1>1 DEF PeerInv, OpenEnds, TipStored, WiresBacked, Backed, chainVars
<1>11. RequestIsAnswered'
  BY <1>1 DEF PeerInv, RequestIsAnswered, AsksFor, Sees, BlockMsg, chainVars
<1> QED
  BY <1>8, <1>9, <1>10, <1>11 DEF PeerInv

LEMMA SendHeadersKeeps ==
    ASSUME PeerInv, NEW n \in Nodes, SendHeaders(n)
    PROVE  PeerInv'
<1> DEFINE q == serving[n]
           msg0 == Headers(q.list)
           msgs == IF q.list = << >> THEN << >> ELSE <<msg0>>
<1>1. UNCHANGED chainVars /\ UNCHANGED <<peer, mishaps>> /\ q # Idle
      /\ wire' = Sent(n, Only(q.to, msgs)) /\ serving' = [serving EXCEPT ![n] = Idle]
  BY DEF SendHeaders
<1>2. q \in Collecting(n) /\ peer[n][q.to].open
  BY <1>1 DEF PeerInv, ServesStored, Collecting
<1>3. q.to \in Nodes /\ q.list \in Seq(store[n])
  BY <1>2 DEF Collecting
<1>4. store[n] \subseteq Blocks /\ serving \in [Nodes -> Answer]
  BY DEF PeerInv, PeerTypeOK
<1>5. q.list \in Seq(Blocks) /\ Range(q.list) \subseteq store[n]
  BY <1>3, <1>4, ListOfMore, RangeInSet
<1>6. msg0 \in Message /\ msg0.type = "HEADERS" /\ msg0.list = q.list
  BY <1>5 DEF Headers, Message
<1> HIDE DEF msg0
<1>7. msgs \in Seq(Message) /\ \A msg \in Range(msgs) : msg = msg0
  BY <1>6, ShortLists
<1>8. PICK m \in Nodes : m = q.to
  BY <1>3
<1>9. \A msg \in Range(msgs) : Backed(n, m, msg)'
  BY <1>1, <1>5, <1>6, <1>7 DEF Backed, chainVars
<1>10. peer[n][m].open /\ wire' = Sent(n, Only(m, msgs))
  BY <1>1, <1>2, <1>8
<1> HIDE DEF msgs, q
<1>11. /\ Only(m, msgs) \in [Nodes -> Seq(Message)]
      /\ ToPeers(n, Only(m, msgs)) /\ OutBacked(n, Only(m, msgs))
  BY <1>7, <1>9, <1>10, OnlyTo
<1>12. Grown
  BY <1>1, UnchangedGrown
<1>13. Learns(n, n, Only(m, msgs)) /\ TipStored'
  BY <1>1, <1>12, GrownKeeps
<1>14. OpenEnds' /\ WiresBacked' /\ RequestIsAnswered'
       /\ wire' \in [Nodes -> [Nodes -> Seq(Message)]]
  BY <1>11, <1>13, <1>10, SentKeeps
<1>15. PeerTypeOK'
  BY <1>1, <1>4, <1>14 DEF PeerInv, PeerTypeOK, chainVars, Answer
<1>16. ServesStored'
  <2> SUFFICES ASSUME NEW k \in Nodes, serving'[k] # Idle
      PROVE  /\ serving'[k] \in Collecting(k)'
             /\ peer'[k][serving'[k].to].open
    BY DEF ServesStored, Collecting
  <2>1. Collecting(k)' = Collecting(k)
    BY <1>1 DEF Collecting, chainVars, Best
  <2>2. serving'[k] = serving[k]
    BY <1>1, <1>4
  <2> QED
    BY <1>1, <2>1, <2>2 DEF PeerInv, ServesStored, Collecting
<1> QED
  BY <1>13, <1>14, <1>15, <1>16 DEF PeerInv

\* A peer that is listed says its height, and knows nothing yet.
LEMMA OpenedKeeps ==
    ASSUME PeerInv, NEW n \in Nodes, NEW m \in Nodes, n # m, ~peer[n][m].open,
           peer' = [peer EXCEPT ![n][m] = NewPeer],
           wire' = [wire EXCEPT ![n][m] = <<Version(n)>>],
           UNCHANGED <<chainVars, serving, mishaps>>
    PROVE  PeerInv'
<1>1. /\ peer \in [Nodes -> [Nodes -> PeerType]] /\ wire \in [Nodes -> [Nodes -> Seq(Message)]]
      /\ tip[n] \in Blocks
  BY DEF PeerInv, PeerTypeOK
<1>2. NewPeer \in PeerType /\ NewPeer.open = TRUE /\ NewPeer.knownInv = {}
  BY DEF NewPeer, PeerType
<1>3. Version(n) \in Message /\ Version(n).type = "VERSION"
  <2>1. Best(n) \in Nat
    BY <1>1, BranchFacts DEF Best
  <2> QED
    BY <2>1 DEF Version, Message
<1> DEFINE hello == <<Version(n)>>
<1>4. hello \in Seq(Message) /\ \A msg \in Range(hello) : msg.type = "VERSION"
  BY <1>3, ShortLists
<1> HIDE DEF hello
<1>5. wire[n][m] = << >>
  BY DEF PeerInv, OpenEnds
<1>6. /\ peer' \in [Nodes -> [Nodes -> PeerType]]
      /\ \A k, l \in Nodes : peer'[k][l] = IF k = n /\ l = m THEN NewPeer ELSE peer[k][l]
  BY <1>1, <1>2
<1>7. /\ wire' \in [Nodes -> [Nodes -> Seq(Message)]]
      /\ \A k, l \in Nodes : wire'[k][l] = IF k = n /\ l = m THEN hello ELSE wire[k][l]
  <2> DEFINE Lists == Seq(Message)
             lines == [wire[n] EXCEPT ![m] = hello]
  <2>1. wire \in [Nodes -> [Nodes -> Lists]] /\ hello \in Lists
    BY <1>1, <1>4
  <2> HIDE DEF Lists
  <2>2. lines \in [Nodes -> Lists] /\ \A l \in Nodes : lines[l] = IF l = m THEN hello ELSE wire[n][l]
    BY <2>1
  <2>3. wire' = [wire EXCEPT ![n] = lines]
    BY <2>1 DEF hello
  <2> HIDE DEF lines
  <2>4. /\ wire' \in [Nodes -> [Nodes -> Lists]] /\ wire'[n] = lines
        /\ \A k \in Nodes : k # n => wire'[k] = wire[k]
    BY <2>1, <2>2, <2>3
  <2> QED
    BY <2>2, <2>4 DEF Lists
<1>8. PeerTypeOK'
  BY <1>6, <1>7 DEF PeerInv, PeerTypeOK, chainVars
<1>9. OpenEnds'
  BY <1>2, <1>6, <1>7 DEF PeerInv, OpenEnds
<1>10. TipStored'
  BY DEF PeerInv, TipStored, chainVars
<1>11. ServesStored'
  <2> SUFFICES ASSUME NEW k \in Nodes, serving[k] # Idle
      PROVE  /\ serving[k] \in Collecting(k)
             /\ peer'[k][serving[k].to].open
    BY DEF ServesStored, Collecting, Best, chainVars
  <2>1. serving[k] \in Collecting(k) /\ peer[k][serving[k].to].open
    BY DEF PeerInv, ServesStored, Collecting
  <2>2. serving[k].to \in Nodes
    BY <2>1 DEF Collecting
  <2> QED
    BY <1>2, <1>6, <2>1, <2>2
<1>12. WiresBacked'
  <2> SUFFICES ASSUME NEW k \in Nodes, NEW l \in Nodes, NEW msg \in Range(wire'[k][l])
      PROVE  Backed(k, l, msg)'
    BY DEF WiresBacked
  <2>1. msg \in Range(wire[k][l]) \/ msg.type = "VERSION"
    BY <1>4, <1>7
  <2>2. msg \in Range(wire[k][l]) => Backed(k, l, msg)
    BY DEF PeerInv, WiresBacked
  <2> QED
    BY <2>1, <2>2 DEF Backed, chainVars
<1>13. RequestIsAnswered'
  <2>1. RequestIsAnswered' <=> AllOnTheirWay'
    BY AskedOrSeen, PTL
  <2> SUFFICES ASSUME NEW k \in Nodes, NEW l \in Nodes, peer'[k][l].open,
                      NEW b \in peer'[k][l].knownInv
      PROVE  b \in store[k] \cup Holds(k) \/ OnItsWay(k, l, b)'
    BY <2>1 DEF AllOnTheirWay, chainVars, Holds
  <2>2. ~(k = n /\ l = m) /\ peer'[k][l] = peer[k][l]
    BY <1>2, <1>6
  <2>3. b \in store[k] \cup Holds(k) \/ OnItsWay(k, l, b)
    BY <2>2, AskedOrSeen DEF PeerInv, AllOnTheirWay
  <2>4. \A i, j \in Nodes : Range(wire[i][j]) \subseteq Range(wire'[i][j])
    BY <1>5, <1>7, RangeOfNone
  <2>5. OnItsWay(k, l, b) => OnItsWay(k, l, b)'
    BY <2>4 DEF OnItsWay, BlockMsg
  <2> QED
    BY <2>3, <2>5
<1> QED
  BY <1>8, <1>9, <1>10, <1>11, <1>12, <1>13 DEF PeerInv
-----------------------------------------------------------------------------
(* The invariant *)

LEMMA InitPeerInv == PeerInit => PeerInv
<1> SUFFICES ASSUME PeerInit PROVE PeerInv
  OBVIOUS
<1>1. PICK left \in [Nodes -> SUBSET Blocks] :
        store = [n \in Nodes |-> Range(Branch[tip[n]]) \union left[n]]
  BY DEF PeerInit
<1>2. tip \in [Nodes -> Blocks] /\ \A n \in Nodes : Range(Branch[tip[n]]) \subseteq Blocks
  BY BranchFacts DEF PeerInit
<1>3. store \in [Nodes -> SUBSET Blocks] /\ TipStored
  BY <1>1, <1>2 DEF TipStored
<1>4. peer = [n \in Nodes |-> [m \in Nodes |-> NoPeer]] /\ NoPeer \in PeerType /\ ~NoPeer.open
  BY DEF PeerInit, PeerType, NoPeer
<1>5. wire = [n \in Nodes |-> [m \in Nodes |-> << >>]] /\ << >> \in Seq(Message)
  BY DEF PeerInit
<1>6. PeerTypeOK
  BY <1>2, <1>3, <1>4, <1>5, NetAssumption DEF PeerInit, PeerTypeOK, Answer
<1>7. OpenEnds /\ RequestIsAnswered
  BY <1>4, <1>5 DEF OpenEnds, RequestIsAnswered
<1>8. ServesStored
  BY DEF ServesStored, PeerInit
<1>9. WiresBacked
  BY <1>5, RangeOfNone DEF WiresBacked
<1> QED
  BY <1>3, <1>6, <1>7, <1>8, <1>9 DEF PeerInv

LEMMA StutterKeepsPeerInv == ASSUME PeerInv, UNCHANGED peerVars PROVE PeerInv'
<1>1. PeerTypeOK' /\ OpenEnds' /\ TipStored'
  BY DEF PeerInv, peerVars, PeerTypeOK, OpenEnds, TipStored
<1>2. ServesStored'
  BY DEF PeerInv, peerVars, ServesStored, Best
<1>3. WiresBacked'
  BY DEF PeerInv, peerVars, WiresBacked, Backed
<1>4. RequestIsAnswered'
  BY DEF PeerInv, peerVars, RequestIsAnswered, AsksFor, Sees, BlockMsg
<1> QED
  BY <1>1, <1>2, <1>3, <1>4 DEF PeerInv

LEMMA MessageLoopKeeps ==
    ASSUME PeerInv, NEW n \in Nodes, MessageLoop(n) PROVE PeerInv'
<1>1. CASE ReadHeader(n)
  BY <1>1, ReadHeaderKeeps
<1>2. CASE SendHeaders(n)
  BY <1>2, SendHeadersKeeps
<1>3. CASE Receive(n)
  <2>1. PICK m \in Nodes :
      \/ HandleVersion(n, m) \/ HandleVerack(n, m) \/ HandleGetHeaders(n, m)
      \/ HandleHeaders(n, m) \/ HandleStrayHeaders(n, m)
      \/ HandleInv(n, m) \/ HandleGetData(n, m)
      \/ HandleBlock(n, m) \/ HandleOffTip(n, m) \/ HandleOffTipBusy(n, m)
    BY <1>3 DEF Receive
  <2> QED
    BY <2>1, HandleVersionKeeps, HandleVerackKeeps, HandleGetHeadersKeeps, HandleHeadersKeeps,
       HandleStrayHeadersKeeps, HandleInvKeeps, HandleGetDataKeeps, HandleBlockKeeps,
       HandleOffTipKeeps, HandleOffTipBusyKeeps
<1> QED
  BY <1>1, <1>2, <1>3 DEF MessageLoop

LEMMA NextKeepsPeerInv == ASSUME PeerInv, PeerNext PROVE PeerInv'
<1>1. ASSUME NEW n \in Nodes, MessageLoop(n) \/ Heartbeat(n) \/ \E b \in Blocks : Mine(n, b)
      PROVE  PeerInv'
  BY <1>1, MessageLoopKeeps, HeartbeatKeeps, MineKeeps
<1>2. ASSUME NEW n \in Nodes, NEW m \in Nodes, Dial(n, m) PROVE PeerInv'
  <2>1. n # m
    BY <1>2, NetAssumption DEF Dial
  <2> QED
    BY <1>2, <2>1, OpenedKeeps DEF Dial
<1>3. ASSUME NEW n \in Nodes, NEW m \in Nodes, Accept(n, m) PROVE PeerInv'
  <2>1. n # m
    BY <1>3 DEF Accept
  <2> QED
    BY <1>3, <2>1, OpenedKeeps DEF Accept
<1>4. ASSUME NEW n \in Nodes, NEW m \in Nodes, Drop(n, m) PROVE PeerInv'
  <2>1. n # m /\ Closed(n, m) /\ UNCHANGED chainVars
    BY <1>4 DEF Drop, PeerInv, OpenEnds
  <2>2. mishaps' \in 0..MaxMishaps
    BY <1>4, NetAssumption DEF Drop, PeerInv, PeerTypeOK
  <2> QED
    BY <2>1, <2>2, ClosedKeeps
<1> QED
  BY <1>1, <1>2, <1>3, <1>4 DEF PeerNext

\* The inductive invariant holds throughout (the message handlers of p2p.cpp).
THEOREM PeerInvariant == PeerSpec => []PeerInv
<1>1. PeerInit => PeerInv
  BY InitPeerInv
<1>2. PeerInv /\ [PeerNext]_peerVars => PeerInv'
  BY NextKeepsPeerInv, StutterKeepsPeerInv
<1> QED
  BY <1>1, <1>2, PTL DEF PeerSpec

\* A block a node will not ask a peer for again is asked for, on its way, held or
\* stored, unless heldBlocks_ was full and put it out: nothing asks for it then
\* (handleInv, Peer::known_inv and noteOffTipBlock, p2p.cpp).
THEOREM RequestsAnswered == PeerSpec => []RequestIsAnswered
<1>1. PeerInv => RequestIsAnswered
  BY DEF PeerInv
<1> QED
  BY <1>1, PeerInvariant, PTL

\* The chains, the connections and the messages keep their types (p2p.cpp).
THEOREM PeerTypeCorrect == PeerSpec => []PeerTypeOK
<1>1. PeerInv => PeerTypeOK
  BY DEF PeerInv
<1> QED
  BY <1>1, PeerInvariant, PTL
-----------------------------------------------------------------------------
(* ReleaseUpdate *)

\* What is about to be renamed over the binary is whole, and it is torn only
\* where update.sh writes it or something has failed.
Sane ==
    /\ apply.step # "none" => apply.tag \in Tags
    /\ apply.step = "rename" => staged = apply.tag
    /\ apply.step \in {"restore", "restoring"} => halfDone
    /\ IF script.step = "none" THEN script = NoApply ELSE script.tag \in Tags
    /\ ~halfDone /\ script.step # "installing" => image \in Tags

\* The records of the two updates.
Shaped ==
    /\ apply \in [step : {"none", "download", "stage", "copy", "rename", "record", "write",
                          "restore", "restoring", "restart"}, tag : 0..MaxTag]
    /\ script \in [step : {"none", "stop", "install", "installing", "record", "start"},
                    tag : 0..MaxTag]

ReleaseInv == ReleaseTypeOK /\ Shaped /\ Sane

LEMMA TagFacts ==
    /\ MaxTag \in Nat /\ MaxTag >= 1 /\ MaxFailures \in Nat
    /\ Tags = 1..MaxTag /\ Torn = MaxTag + 1 /\ Torn \notin Tags /\ Nothing = 0
    /\ NoApply = [step |-> "none", tag |-> 0]
  BY ReleaseAssumption DEF Tags, Torn, Nothing, NoApply

LEMMA InitReleaseInv == ReleaseInit => ReleaseInv
<1> SUFFICES ASSUME ReleaseInit PROVE ReleaseInv
  OBVIOUS
<1>1. {published, image, servedImage} \subseteq Tags /\ record \in Tags \cup {Nothing}
  BY TagFacts DEF ReleaseInit
<1>2. halfDone = FALSE /\ apply = NoApply /\ script = NoApply
  BY DEF ReleaseInit
<1>3. unit \in BOOLEAN /\ staged = Nothing /\ spent = 0
  BY DEF ReleaseInit
<1>4. ReleaseTypeOK
  <2>1. /\ published \in Tags /\ image \in Tags /\ servedImage \in Tags
        /\ record \in Tags \cup {Nothing}
    BY <1>1
  <2>2. /\ apply.step = "none" /\ apply.tag \in 0..MaxTag
        /\ script.step = "none" /\ script.tag \in 0..MaxTag /\ spent \in 0..MaxFailures
    BY <1>2, <1>3, TagFacts
  <2> QED
    BY <1>2, <1>3, <2>1, <2>2 DEF ReleaseTypeOK
<1>5. Shaped
  BY <1>2, TagFacts DEF Shaped
<1>6. Sane
  BY <1>1, <1>2, TagFacts DEF Sane
<1> QED
  BY <1>4, <1>5, <1>6 DEF ReleaseInv

\* The update of the daemon renames what download_member found whole.
LEMMA UpdateKeepsRelease == ASSUME ReleaseInv, Update PROVE ReleaseInv'
<1> USE TagFacts DEF ReleaseInv, ReleaseTypeOK, Shaped, Sane
<1>1. CASE CheckForUpdate
  BY <1>1 DEF CheckForUpdate, At
<1>2. CASE DownloadMember
  BY <1>2 DEF DownloadMember, At, Fails, Verified
<1>3. CASE StageOpens
  BY <1>3 DEF StageOpens, At, To, RecordWaits
<1>4. CASE StageCopies
  BY <1>4 DEF StageCopies, At, To, Fails, GiveUp
<1>5. CASE StageRenames
  BY <1>5 DEF StageRenames, At, To
<1>6. CASE RecordOpens
  <2> USE DEF RecordOpens, At, To, Fails
  <2>1. apply.tag \in Tags /\ halfDone' \in BOOLEAN /\ record' \in Tags \cup {Nothing}
    BY <1>6
  <2>2. apply' \in [step : {"write", "restart", "restore"}, tag : Tags]
    BY <1>6, <2>1
  <2> QED
    BY <1>6, <2>1, <2>2
<1>7. CASE RecordWrites
  <2> USE DEF RecordWrites, At, To, Fails
  <2>1. apply.tag \in Tags /\ halfDone' \in BOOLEAN /\ record' \in Tags \cup {Nothing}
    BY <1>7
  <2>2. apply' \in [step : {"write", "restart", "restore"}, tag : Tags]
    BY <1>7, <2>1
  <2> QED
    BY <1>7, <2>1, <2>2
<1>8. CASE RestoreOpens
  BY <1>8 DEF RestoreOpens, At, To
<1>9. CASE RestoreCopies
  BY <1>9 DEF RestoreCopies, At, Fails, GiveUp
<1>10. CASE RestartAfterApply
  BY <1>10 DEF RestartAfterApply, At, GiveUp
<1> QED
  BY <1>1, <1>2, <1>3, <1>4, <1>5, <1>6, <1>7, <1>8, <1>9, <1>10 DEF Update

\* update.sh writes the binary in place, and says so by its step.
LEMMA ScriptKeepsRelease == ASSUME ReleaseInv, Script PROVE ReleaseInv'
<1> USE TagFacts DEF ReleaseInv, ReleaseTypeOK, Shaped, Sane
<1>1. CASE ScriptRuns
  BY <1>1 DEF ScriptRuns
<1>2. CASE ScriptStops
  BY <1>2 DEF ScriptStops, ScriptAt
<1>3. CASE ScriptInstalls
  BY <1>3 DEF ScriptInstalls, ScriptAt
<1>4. CASE ScriptInstalled
  BY <1>4 DEF ScriptInstalled, ScriptAt
<1>5. CASE ScriptRecords
  BY <1>5 DEF ScriptRecords, ScriptAt
<1>6. CASE ScriptStarts
  BY <1>6 DEF ScriptStarts
<1>7. CASE ScriptFails
  BY <1>7 DEF ScriptFails, Fails
<1> QED
  BY <1>1, <1>2, <1>3, <1>4, <1>5, <1>6, <1>7 DEF Script

LEMMA NextKeepsRelease == ASSUME ReleaseInv, [ReleaseNext]_releaseVars PROVE ReleaseInv'
<1> USE TagFacts DEF ReleaseInv, ReleaseTypeOK, Shaped, Sane
<1>1. CASE Crash
  BY <1>1 DEF Crash, Fails, GiveUp
<1>2. CASE ServiceStart
  BY <1>2 DEF ServiceStart
<1>3. CASE Publish
  BY <1>3 DEF Publish
<1>4. CASE UNCHANGED releaseVars
  BY <1>4 DEF releaseVars
<1> QED
  BY <1>1, <1>2, <1>3, <1>4, UpdateKeepsRelease, ScriptKeepsRelease DEF ReleaseNext

\* The inductive invariant holds throughout (release_update.cpp, update.sh).
THEOREM ReleaseInvariant == ReleaseSpec => []ReleaseInv
  BY InitReleaseInv, NextKeepsRelease, PTL DEF ReleaseSpec

\* The files and the two updates keep their types.
THEOREM ReleaseTypeCorrect == ReleaseSpec => []ReleaseTypeOK
<1>1. ReleaseInv => ReleaseTypeOK
  BY DEF ReleaseInv
<1> QED
  BY <1>1, ReleaseInvariant, PTL

\* A service that dies at any moment finds a whole binary (install_member).
THEOREM ImageIsWhole == ReleaseSpec => []ImageWhole
<1>1. ReleaseInv => ImageWhole
  BY DEF ReleaseInv, Sane, ImageWhole, NoApply
<1> QED
  BY <1>1, ReleaseInvariant, PTL
-----------------------------------------------------------------------------
(* Registry: the heartbeat and the directory *)

\* What is posted is a row.
LEMMA PostedRow ==
    ASSUME RegTypeOK
    PROVE  Posted \in [listed : BOOLEAN, inbound : {"yes", "no", "unset"}]
<1>1. Inbound(probeReachable) \in {"yes", "no"}
  BY DEF Inbound
<1> QED
  BY <1>1 DEF Posted

LEMMA LostType ==
    ASSUME RegTypeOK, Answered \/ Lost
    PROVE  lostCalls' \in 0..MaxLost
  BY RegAssumption DEF RegTypeOK, Answered, Lost

LEMMA HeartbeatsKeep ==
    ASSUME RegTypeOK, Heartbeats
    PROVE  RegTypeOK'
<1>1. lostCalls' \in 0..MaxLost
  BY LostType DEF Heartbeats, ProbeAdvertisedP2P, RegisterBootstrapNode, PostBootstrapStatus,
                  ReportBootstrapChain
<1>2. UNCHANGED <<portOpen, oldDirectory, changes>>
  BY DEF Heartbeats, ProbeAdvertisedP2P, RegisterBootstrapNode, PostBootstrapStatus,
         ReportBootstrapChain
<1>3. row' = row \/ row' = Posted
  BY DEF Heartbeats, ProbeAdvertisedP2P, RegisterBootstrapNode, PostBootstrapStatus,
         ReportBootstrapChain
<1>4. row' \in [listed : BOOLEAN, inbound : {"yes", "no", "unset"}]
  BY <1>3, PostedRow DEF RegTypeOK
<1>5. probeReachable' \in BOOLEAN
  BY DEF RegTypeOK, Heartbeats, ProbeAdvertisedP2P, RegisterBootstrapNode, PostBootstrapStatus,
         ReportBootstrapChain
<1>6. stage' \in {"register", "status", "up"}
  BY DEF Heartbeats, ProbeAdvertisedP2P, RegisterBootstrapNode, PostBootstrapStatus,
         ReportBootstrapChain, AfterProbe, AfterReport
<1>7. portOpen' \in BOOLEAN /\ oldDirectory' \in BOOLEAN
  BY <1>2 DEF RegTypeOK
<1> QED
  BY <1>1, <1>2, <1>4, <1>5, <1>6, <1>7 DEF RegTypeOK

LEMMA DisturbKeeps == ASSUME RegTypeOK, Disturb PROVE RegTypeOK'
<1>1. changes' \in 0..MaxChanges /\ UNCHANGED lostCalls
  BY RegAssumption DEF RegTypeOK, Disturb
<1>2. portOpen' \in BOOLEAN /\ oldDirectory' \in BOOLEAN /\ probeReachable' \in BOOLEAN
  BY DEF RegTypeOK, Disturb
<1>3. row' \in [listed : BOOLEAN, inbound : {"yes", "no", "unset"}]
  <2>1. NoRow \in [listed : BOOLEAN, inbound : {"yes", "no", "unset"}]
    BY DEF NoRow
  <2>2. row' = NoRow \/ row' = row
    BY DEF Disturb
  <2> QED
    BY <2>1, <2>2 DEF RegTypeOK
<1>4. stage' \in {"start", "register", "status", "up"}
  BY DEF RegTypeOK, Disturb
<1> QED
  BY <1>1, <1>2, <1>3, <1>4 DEF RegTypeOK

\* The heartbeat thread posts rows of the form the directory keeps, at its four stages
\* (bootstrapHeartbeatLoop).
THEOREM RegistryTypeCorrect == RegSpec => []RegTypeOK
<1>1. RegInit => RegTypeOK
  <2> SUFFICES ASSUME RegInit PROVE RegTypeOK
    OBVIOUS
  <2>1. portOpen \in BOOLEAN /\ oldDirectory \in BOOLEAN /\ probeReachable \in BOOLEAN
    BY DEF RegInit
  <2>2. lostCalls \in 0..MaxLost /\ changes \in 0..MaxChanges
    BY RegAssumption DEF RegInit
  <2>3. row \in [listed : BOOLEAN, inbound : {"yes", "no", "unset"}]
    BY DEF RegInit, NoRow
  <2> QED
    BY <2>1, <2>2, <2>3 DEF RegInit, RegTypeOK
<1>2. RegTypeOK /\ [RegNext]_regVars => RegTypeOK'
  <2> SUFFICES ASSUME RegTypeOK, [RegNext]_regVars PROVE RegTypeOK'
    OBVIOUS
  <2>1. CASE Heartbeats
    BY <2>1, HeartbeatsKeep
  <2>2. CASE Disturb
    BY <2>2, DisturbKeeps
  <2>3. CASE UNCHANGED regVars
    BY <2>3 DEF RegTypeOK, regVars
  <2> QED
    BY <2>1, <2>2, <2>3 DEF RegNext
<1> QED
  BY <1>1, <1>2, PTL DEF RegSpec
-----------------------------------------------------------------------------
(* Lifecycle: the main thread and the workers *)

\* A step of the stop is followed by the next one.
LEMMA StopsInOrder ==
    /\ AfterStop("stopHttp") = "joinHttp" /\ AfterStop("joinHttp") = "stopWs"
    /\ AfterStop("stopWs") = "joinWs" /\ AfterStop("joinWs") = "stopP2P"
    /\ AfterStop("stopP2P") = "joinP2P" /\ AfterStop("joinP2P") = "ended"
<1>1. ASSUME NEW i \in 1..6 PROVE (CHOOSE j \in 1..6 : StopOrder[j] = StopOrder[i]) = i
  BY DEF StopOrder
<1> QED
  BY <1>1 DEF AfterStop, StopOrder

\* The thread of the HTTP server is not there before its start, and reads from one
\* client at a time.
LifeInv ==
    /\ LifeTypeOK
    /\ main \in {"storage", "restore", "p2p", "ws", "http"} => http = "off"
    /\ \A c, d \in HttpClients : client[c] = "served" /\ client[d] = "served" => c = d

\* The main thread does not touch the clients.
LEMMA MainKeeps ==
    ASSUME LifeInv, MainStep \/ StartFails \/ CheckAgain
    PROVE  LifeInv'
<1>1. UNCHANGED <<stopping, httpOn, client>>
  BY DEF MainStep, StartFails, CheckAgain, Prepare, StartP2P, StartWs, StartHttp, Checked,
         BeginStop, StopPart, Joined
<1>2. \/ Prepare \/ StartP2P \/ StartWs \/ StartHttp \/ Checked \/ StartFails \/ CheckAgain
      \/ BeginStop \/ \E step \in {"stopHttp", "stopWs", "stopP2P"}, part \in {"http", "ws", "p2p"} :
                        StopPart(step, part)
      \/ \E step \in {"joinHttp", "joinWs", "joinP2P"} : \E ended : Joined(step, ended)
  BY DEF MainStep
<1>3. /\ main' \in {"storage", "restore", "p2p", "ws", "http", "check", "loop",
                    "stopHttp", "joinHttp", "stopWs", "joinWs", "stopP2P", "joinP2P",
                    "ended", "failed"}
      /\ main' \in {"storage", "restore", "p2p", "ws", "http"} =>
           main \in {"storage", "restore", "p2p", "ws"} /\ UNCHANGED http
  BY <1>2, StopsInOrder
     DEF StartFails, CheckAgain, Prepare, StartP2P, StartWs, StartHttp, Checked,
         BeginStop, StopPart, Joined, StopOrder
<1>4. /\ http' \in {"off", "binding", "accepting", "reading", "done"}
      /\ http' = "reading" <=> http = "reading"
  BY <1>2 DEF StartFails, CheckAgain, Prepare, StartP2P, StartWs, StartHttp, Checked,
         BeginStop, StopPart, Joined, LifeInv, LifeTypeOK
<1>5. ws' \in {"off", "creating", "serving", "done"}
  BY <1>2 DEF StartFails, CheckAgain, Prepare, StartP2P, StartWs, StartHttp, Checked,
         BeginStop, StopPart, Joined, LifeInv, LifeTypeOK
<1>6. p2p' \in [P2PThreads -> {"off", "busy", "asleep", "stuck", "done"}]
  BY <1>2 DEF StartFails, CheckAgain, Prepare, StartP2P, StartWs, StartHttp, Checked,
         BeginStop, StopPart, Joined, LifeInv, LifeTypeOK
<1>7. flag' \in [{"http", "ws", "p2p"} -> BOOLEAN]
  <2>1. flag \in [{"http", "ws", "p2p"} -> BOOLEAN] /\ httpOn \in BOOLEAN
    BY DEF LifeInv, LifeTypeOK
  <2>2. \/ flag' = flag
        \/ \E part \in {"http", "ws", "p2p"}, b \in BOOLEAN : flag' = [flag EXCEPT ![part] = b]
    BY <1>2, <2>1 DEF StartFails, CheckAgain, Prepare, StartP2P, StartWs, StartHttp, Checked,
         BeginStop, StopPart, Joined
  <2> QED
    BY <2>1, <2>2
<1>8. LifeTypeOK'
  BY <1>1, <1>3, <1>4, <1>5, <1>6, <1>7 DEF LifeInv, LifeTypeOK
<1> QED
  BY <1>1, <1>3, <1>8 DEF LifeInv

\* What the workers and the clients do leaves the main thread where it is.
OnlyWorkers == UNCHANGED <<main, httpOn, flag>>

LEMMA WorkersKeep ==
    ASSUME LifeInv, OnlyWorkers, UNCHANGED <<http, client>>,
           stopping' \in BOOLEAN,
           ws' \in {"off", "creating", "serving", "done"},
           p2p' \in [P2PThreads -> {"off", "busy", "asleep", "stuck", "done"}]
    PROVE  LifeInv'
<1>1. flag' = flag /\ httpOn' = httpOn /\ main' = main
  BY DEF OnlyWorkers
<1>2. LifeTypeOK'
  BY <1>1 DEF LifeInv, LifeTypeOK
<1> QED
  BY <1>1, <1>2 DEF LifeInv

\* The HTTP server and its clients.
LEMMA ServerKeeps ==
    ASSUME LifeInv, OnlyWorkers, UNCHANGED <<stopping, ws, p2p>>,
           http' \in {"off", "binding", "accepting", "reading", "done"},
           client' \in [HttpClients -> {"away", "waiting", "served", "answered"}],
           (\E c \in HttpClients : client'[c] = "served") <=> http' = "reading",
           \A c, d \in HttpClients : client'[c] = "served" /\ client'[d] = "served" => c = d,
           main \in {"storage", "restore", "p2p", "ws", "http"} => http' = http
    PROVE  LifeInv'
<1>1. flag' = flag /\ httpOn' = httpOn /\ main' = main
  BY DEF OnlyWorkers
<1>2. LifeTypeOK'
  BY <1>1 DEF LifeInv, LifeTypeOK
<1> QED
  BY <1>1, <1>2 DEF LifeInv

LEMMA WorkStepKeeps ==
    ASSUME LifeInv,
           \/ Signal \/ WsCreates \/ WsLeaves
           \/ \E t \in P2PThreads : P2PTurn(t) \/ P2PSticks(t)
    PROVE  LifeInv'
<1>1. OnlyWorkers /\ UNCHANGED <<http, client>>
  BY DEF OnlyWorkers, Signal, WsCreates, WsLeaves, P2PTurn, P2PSticks
<1>2. stopping' \in BOOLEAN
  BY DEF Signal, WsCreates, WsLeaves, P2PTurn, P2PSticks, LifeInv, LifeTypeOK
<1>3. ws' \in {"off", "creating", "serving", "done"}
  BY DEF Signal, WsCreates, WsLeaves, P2PTurn, P2PSticks, LifeInv, LifeTypeOK
<1>4. p2p' \in [P2PThreads -> {"off", "busy", "asleep", "stuck", "done"}]
  BY DEF Signal, WsCreates, WsLeaves, P2PTurn, P2PSticks, LifeInv, LifeTypeOK
<1> QED
  BY <1>1, <1>2, <1>3, <1>4, WorkersKeep

LEMMA HttpStepKeeps ==
    ASSUME LifeInv,
           \/ HttpBinds \/ HttpAccepts \/ HttpAnswers
           \/ \E c \in HttpClients : HttpConnects(c)
    PROVE  LifeInv'
<1>1. OnlyWorkers /\ UNCHANGED <<stopping, ws, p2p>>
  BY DEF OnlyWorkers, HttpBinds, HttpAccepts, HttpAnswers, HttpConnects
<1>2. /\ client \in [HttpClients -> {"away", "waiting", "served", "answered"}]
      /\ (\E c \in HttpClients : client[c] = "served") <=> http = "reading"
      /\ \A c, d \in HttpClients : client[c] = "served" /\ client[d] = "served" => c = d
      /\ http \in {"off", "binding", "accepting", "reading", "done"}
      /\ main \in {"storage", "restore", "p2p", "ws", "http"} => http = "off"
  BY DEF LifeInv, LifeTypeOK
<1>3. /\ client' \in [HttpClients -> {"away", "waiting", "served", "answered"}]
      /\ http' \in {"off", "binding", "accepting", "reading", "done"}
      /\ main \in {"storage", "restore", "p2p", "ws", "http"} => http' = http
  BY <1>2 DEF HttpBinds, HttpAccepts, HttpAnswers, HttpConnects, Left, NextClient
<1>4. /\ (\E c \in HttpClients : client'[c] = "served") <=> http' = "reading"
      /\ \A c, d \in HttpClients : client'[c] = "served" /\ client'[d] = "served" => c = d
  <2>1. CASE HttpBinds
    BY <1>2, <2>1 DEF HttpBinds
  <2>2. CASE HttpAccepts
    BY <1>2, <2>2 DEF HttpAccepts
  <2>3. CASE HttpAnswers
    BY <1>2, <2>3 DEF HttpAnswers, Left, NextClient
  <2>4. ASSUME NEW c \in HttpClients, HttpConnects(c)
        PROVE  /\ (\E e \in HttpClients : client'[e] = "served") <=> http' = "reading"
               /\ \A e, d \in HttpClients : client'[e] = "served" /\ client'[d] = "served" => e = d
    BY <1>2, <2>4 DEF HttpConnects
  <2> QED
    BY <2>1, <2>2, <2>3, <2>4
<1> QED
  BY <1>1, <1>3, <1>4, ServerKeeps

\* The threads are where the code has them, and the HTTP server is reading exactly when
\* it has a client, one at a time (RPC::run_loop, Daemon::stop).
THEOREM LifeTypeCorrect == LifeSpec => []LifeTypeOK
<1>1. LifeInit => LifeInv
  BY DEF LifeInit, LifeInv, LifeTypeOK
<1>2. LifeInv /\ [LifeNext]_lifeVars => LifeInv'
  <2> SUFFICES ASSUME LifeInv, [LifeNext]_lifeVars PROVE LifeInv'
    OBVIOUS
  <2>1. CASE UNCHANGED lifeVars
    BY <2>1 DEF lifeVars, LifeInv, LifeTypeOK
  <2> QED
    BY <2>1, MainKeeps, WorkStepKeeps, HttpStepKeeps DEF LifeNext
<1>3. LifeInv => LifeTypeOK
  BY DEF LifeInv
<1> QED
  BY <1>1, <1>2, <1>3, PTL DEF LifeSpec
=============================================================================
