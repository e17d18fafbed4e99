---------------------------- MODULE Challenges -----------------------------
(***************************************************************************)
(* Mining work (chain_rpc.cpp): getblocktemplate hands a miner the tip, a  *)
(* timestamp and a challenge; submitblock takes the solved block back if   *)
(* the tip still stands, the challenge was issued for it and the time fits *)
(* the node's clock.  Blocks of peers and adoptions move the tip in        *)
(* between.  Everything else a block must satisfy holds here.              *)
(***************************************************************************)
EXTENDS Naturals

CONSTANTS
    Miners,         \* addresses that ask for work
    First,          \* first height whose block needs a challenge: 4
    Ahead,          \* seconds a block may be ahead of the node: 120
    MaxTip,         \* bound: height of the tip
    MaxNow,         \* bound: the clock
    MaxRoots,       \* bound: changes of the mempool, each with its merkle root
    MaxChallenges,  \* bound: challenges made
    MaxStarts       \* bound: restarts

ASSUME ChallengesAssumption ==
    {First, Ahead, MaxTip, MaxNow, MaxRoots, MaxChallenges, MaxStarts} \subseteq Nat

VARIABLES
    tip,          \* best block: its identity, height and timestamp
    now,          \* now_seconds
    root,         \* merkle root of the next template
    issued,       \* g_challenges: challenge and tip
    outstanding,  \* g_outstanding: tip, root, miner and challenge
    work,         \* the last template each miner got
    made,         \* challenges made so far; the next one is made + 1
    starts        \* restarts so far

challengeVars == <<tip, now, root, issued, outstanding, work, made, starts>>

NoWork == [tip |-> 0, height |-> 0, stamp |-> 0, challenge |-> 0, start |-> 0]

Tips == [id : Nat, height : Nat, time : Nat]
Works == [tip : Nat, height : Nat, stamp : Nat, challenge : Nat, start : Nat]

ChallengeTypeOK ==
    /\ tip \in Tips /\ now \in Nat /\ root \in Nat
    /\ issued \subseteq [challenge : 1..made, tip : 0..tip.id]
    /\ outstanding \subseteq
         [tip : 0..tip.id, root : 0..root, miner : Miners, challenge : 1..made]
    /\ work \in [Miners -> Works]
    /\ made \in Nat /\ starts \in Nat

ChallengeInit ==
    /\ tip = [id |-> 0, height |-> 0, time |-> 0]
    /\ now \in 0..MaxNow
    /\ root = 0
    /\ issued = {} /\ outstanding = {}
    /\ work = [m \in Miners |-> NoWork]
    /\ made = 0 /\ starts = 0
-----------------------------------------------------------------------------
(* getblocktemplate *)

FaultyStamp == now

\* One second past the parent when the clock is not there yet.
Stamp == IF now <= tip.time THEN tip.time + 1 ELSE now

ClockBehindTip == now <= tip.time /\ tip.time + 1 > now + Ahead

Asked(m) == {o \in outstanding : o.tip = tip.id /\ o.root = root /\ o.miner = m}

GiveWork(m, c) ==
    work' = [work EXCEPT ![m] =
        [tip |-> tip.id, height |-> tip.height + 1, stamp |-> Stamp,
         challenge |-> c, start |-> starts]]

\* challenge_for_template, a new one.
Issue(m) ==
    /\ issued' = issued \cup {[challenge |-> made + 1, tip |-> tip.id]}
    /\ outstanding' = outstanding \cup
         {[tip |-> tip.id, root |-> root, miner |-> m, challenge |-> made + 1]}

\* A first block of the chain, or work that was given out before.
TemplateAgain(m) ==
    /\ ~ClockBehindTip
    /\ \/ tip.height + 1 < First /\ GiveWork(m, 0)
       \/ tip.height + 1 >= First /\ \E o \in Asked(m) : GiveWork(m, o.challenge)
    /\ UNCHANGED <<tip, now, root, issued, outstanding, made, starts>>

TemplateNew(m) ==
    /\ ~ClockBehindTip
    /\ tip.height + 1 >= First /\ Asked(m) = {}
    /\ made < MaxChallenges
    /\ Issue(m)
    /\ GiveWork(m, made + 1)
    /\ made' = made + 1
    /\ UNCHANGED <<tip, now, root, starts>>

\* RAND_bytes fails: the template carries an empty challenge.
TemplateBare(m) ==
    /\ ~ClockBehindTip
    /\ tip.height + 1 >= First /\ Asked(m) = {}
    /\ GiveWork(m, 0)
    /\ UNCHANGED <<tip, now, root, issued, outstanding, made, starts>>
-----------------------------------------------------------------------------
(* submitblock *)

ChallengeFits(w) == w.height < First \/ [challenge |-> w.challenge, tip |-> tip.id] \in issued

TimeFits(t) == t > tip.time /\ t <= now + Ahead

\* forget_tip_locked
Retired(t) == [issued |-> {i \in issued : i.tip # t},
               outstanding |-> {o \in outstanding : o.tip # t}]

MoveTip(height, time) ==
    /\ height <= MaxTip
    /\ tip' = [id |-> tip.id + 1, height |-> height, time |-> time]

\* A miner's own block, require_local_policy; retire_challenge takes with it
\* whatever was issued for the tip.
SubmitWork(m) ==
    LET w == work[m] IN
    /\ w # NoWork
    /\ w.tip = tip.id /\ ChallengeFits(w) /\ TimeFits(w.stamp)
    /\ MoveTip(w.height, w.stamp)
    /\ LET left == IF w.height >= First THEN Retired(tip.id)
                   ELSE [issued |-> issued, outstanding |-> outstanding]
       IN issued' = left.issued /\ outstanding' = left.outstanding
    /\ UNCHANGED <<now, root, work, made, starts>>

\* A block of a peer, or a taller branch of one (rpc_adopt_peer_chain): its
\* challenge is not asked for and none is retired.
PeerTip ==
    /\ \E height \in tip.height + 1 .. MaxTip, time \in 1 .. now + Ahead :
         /\ height = tip.height + 1 => time > tip.time
         /\ MoveTip(height, time)
    /\ UNCHANGED <<now, root, issued, outstanding, work, made, starts>>
-----------------------------------------------------------------------------
PoolChanges ==
    /\ root < MaxRoots
    /\ root' = root + 1
    /\ UNCHANGED <<tip, now, issued, outstanding, work, made, starts>>

Tick ==
    /\ now < MaxNow
    /\ now' = now + 1
    /\ UNCHANGED <<tip, root, issued, outstanding, work, made, starts>>

\* The books are in memory only, and a Pi that was off may start with an old
\* clock.
StartAgain ==
    /\ starts < MaxStarts
    /\ starts' = starts + 1
    /\ now' \in 0..now
    /\ issued' = {} /\ outstanding' = {}
    /\ UNCHANGED <<tip, root, work, made>>
-----------------------------------------------------------------------------
ChallengeNext ==
    \/ \E m \in Miners : TemplateAgain(m) \/ TemplateNew(m) \/ TemplateBare(m) \/ SubmitWork(m)
    \/ PeerTip \/ PoolChanges \/ Tick \/ StartAgain

ChallengeSpec == ChallengeInit /\ [][ChallengeNext]_challengeVars
-----------------------------------------------------------------------------
(* Properties *)

\* Work handed out since the start, with its challenge, is accepted as long as
\* the tip it builds on stands: other miners, other templates, mempool changes
\* and the passing of time do not spoil it (getblocktemplate, submitblock).
WorkStands ==
    \A m \in Miners :
      LET w == work[m] IN
      w # NoWork /\ w.tip = tip.id /\ w.start = starts /\ (w.height < First \/ w.challenge # 0)
        => /\ w.height = tip.height + 1
           /\ w.height < First \/ [challenge |-> w.challenge, tip |-> tip.id] \in issued
           /\ tip.time < w.stamp /\ w.stamp <= now + Ahead
=============================================================================
