----------------------------- MODULE NodeChain -----------------------------
(***************************************************************************)
(* The chain of one pisecured node: the block file, the block index, the   *)
(* active chain, the blocks a peer sent off the tip, and the adoption of a *)
(* taller peer chain (storage.cpp, chain_rpc.cpp, p2p.cpp).                *)
(*                                                                         *)
(* Threads and locks.  submitblock runs on the RPC thread and, for a peer  *)
(* block, on the P2P message thread; both hold g_chain_mu, so it is one    *)
(* step.  adoptLaterPeerChain runs on the message thread or on the         *)
(* heartbeat thread, one at a time (adoptMutex_ is only tried).  It reads  *)
(* the storage WITHOUT g_chain_mu to pick a branch, and takes g_chain_mu   *)
(* inside rpc_adopt_peer_chain; the two are different steps here.  The     *)
(* submissions of an adoption are separate steps too, because each one     *)
(* writes the block file and the process can die between two writes.       *)
(*                                                                         *)
(* A block is accepted or not by its content (proof of work, coinbase,     *)
(* transactions, merkle root): Bad names the blocks that fail.  What the   *)
(* content rules are is the subject of other modules.                      *)
(***************************************************************************)
EXTENDS Naturals, Sequences, FiniteSets

CONSTANTS
    Blocks,     \* every block that can arrive
    Branch,     \* Branch[b]: the chain from height 1 up to and including b
    Bad,        \* blocks that fail the content rules on top of their parent
    Ahead,      \* blocks stamped more than 120 s ahead of the node's clock
    MaxHeld,    \* heldBlocks_ holds at most this many blocks (4000)
    MaxRefused  \* refusedTips_ holds at most this many tips (256)

\* prev_block_hash makes a block determine its whole ancestry: height i of
\* Branch[b] is a block whose own branch is the first i blocks of Branch[b].
ASSUME BranchAssumption ==
    /\ Branch \in [Blocks -> Seq(Blocks)]
    /\ \A b \in Blocks :
         /\ Len(Branch[b]) >= 1
         /\ Branch[b][Len(Branch[b])] = b
         /\ \A i \in 1..Len(Branch[b]) :
              Branch[Branch[b][i]] = SubSeq(Branch[b], 1, i)

ASSUME BlockSetAssumption ==
    Blocks # {} /\ Bad \subseteq Blocks /\ Ahead \subseteq Blocks

ASSUME CapacityAssumption == MaxHeld \in Nat \ {0} /\ MaxRefused \in Nat \ {0}

VARIABLES
    disk,     \* blk*.dat: blocks in the order they were appended
    known,    \* hash_to_index_ and headers_cache_: blocks the index can name
    active,   \* height_to_hash_: the chain the node answers with
    held,     \* heldBlocks_: blocks that did not extend the tip on arrival
    refused,  \* refusedTips_: tips an adoption has failed for
    inHand,   \* the block the message thread found off the tip, not held yet
    phase,    \* where adoptLaterPeerChain is
    job,      \* the branch it works on
    early,    \* blocks of Ahead the clock has not caught up with
    up        \* the daemon is running

vars == <<disk, known, active, held, refused, inHand, phase, job, early, up>>

Elems(s) == {s[i] : i \in 1..Len(s)}

Height(b) == Len(Branch[b])

Chains == Seq(Blocks)

\* tip: the held block to reach; fork: the height of the ancestor on the
\* active chain; next: the height submitted next; old: the chain to go back to.
Jobs == [tip : Blocks, fork : Nat, next : Nat, old : Chains]

NoJob == [tip |-> CHOOSE b \in Blocks : TRUE, fork |-> 0, next |-> 0, old |-> << >>]

Phases == {"idle", "picked", "applying", "adopted", "rejected"}

\* The type of every variable, and the two lists stay within their capacity
\* (heldBlocks_ and refusedTips_ drop an entry before they grow past it).
TypeOK ==
    /\ disk \in Chains
    /\ known \subseteq Blocks
    /\ active \in Chains
    /\ held \subseteq Blocks /\ IsFiniteSet(held) /\ Cardinality(held) <= MaxHeld
    /\ refused \subseteq Blocks /\ IsFiniteSet(refused)
    /\ Cardinality(refused) <= MaxRefused
    /\ inHand \subseteq Blocks
    /\ phase \in Phases
    /\ job \in Jobs
    /\ early \subseteq Ahead
    /\ up \in BOOLEAN

Init ==
    /\ disk = << >>
    /\ known = {}
    /\ active = << >>
    /\ held = {}
    /\ refused = {}
    /\ inHand = {}
    /\ phase = "idle"
    /\ job = NoJob
    /\ early = Ahead
    /\ up = TRUE
-----------------------------------------------------------------------------
(* Shared pieces of the handlers *)

\* prev_block_hash is the tip and height is one above it.
Extends(b) == Branch[b] = Append(active, b)

FaultyPasses(b) == b \notin early

\* The content and timestamp checks of submitblock.
Passes(b) == b \notin Bad /\ b \notin early

FaultyAppended(b) == disk

\* append_block.  A block already in the file but not in the index (another
\* fork before a restart) is appended again; only its first copy is ever read
\* back, so the second is left out here.
Appended(b) == IF b \in Elems(disk) THEN disk ELSE Append(disk, b)

\* store_block_with_header.
Store(b) ==
    /\ disk' = Appended(b)
    /\ known' = known \union {b}
    /\ active' = Append(active, b)

FaultyAdded(S, x, max) == {S \union {x}}

\* The lists that can result from putting x in list S of capacity max.  A
\* full list loses an entry that came earlier; which one is left open.
Added(S, x, max) ==
    IF x \in S \/ Cardinality(S) < max
    THEN {S \union {x}}
    ELSE {(S \ {oldest}) \union {x} : oldest \in S}

\* chain_ending_at succeeds only when every block down to height 1 is on disk.
OnDisk(c) == Elems(c) \subseteq Elems(disk)

FaultyReplayedActive(c) == active

\* rpc_replay_chain: rebuild the active chain as c from the block file.
ReplayedActive(c) == IF OnDisk(c) THEN c ELSE active
ReplayedKnown(c)  == IF OnDisk(c) THEN known \union Elems(c) ELSE known

FaultyChainFree == TRUE

\* g_chain_mu is held from the ancestor replay to the end of the adoption.
ChainFree == phase # "applying"
-----------------------------------------------------------------------------
(* submitblock and handleBlock *)

\* rpc_submitblock accepts a new block, mined here or sent by a peer.  A block
\* that is rejected, or accepted as a duplicate, changes nothing.
SubmitBlock(b) ==
    /\ up
    /\ ChainFree
    /\ Extends(b)
    /\ Passes(b)
    /\ b \notin known
    /\ Store(b)
    /\ UNCHANGED <<held, refused, inHand, phase, job, early, up>>

\* handleBlock: submitblock answered "does not link" or "does not extend".
\* The lock is released before the block is put aside.
PeerBlockOffTip(b) ==
    /\ up
    /\ ChainFree
    /\ inHand = {}
    /\ ~Extends(b)
    /\ inHand' = {b}
    /\ UNCHANGED <<disk, known, active, held, refused, phase, job, early, up>>

\* noteOffTipBlock, with heldMutex_ taken.
HoldBlock ==
    /\ up
    /\ \E b \in inHand : held' \in Added(held, b, MaxHeld)
    /\ inHand' = {}
    /\ UNCHANGED <<disk, known, active, refused, phase, job, early, up>>

\* The clock passes timestamp - 120 s of b.
ClockReaches(b) ==
    /\ b \in early
    /\ early' = early \ {b}
    /\ UNCHANGED <<disk, known, active, held, refused, inHand, phase, job, up>>
-----------------------------------------------------------------------------
(* adoptLaterPeerChain *)

\* Held blocks lead from t down to height f of the active chain; none of the
\* held blocks looked at is itself on the active chain.
Joins(t, f, pool) ==
    /\ f \in 1..(Height(t) - 1)
    /\ Branch[t][f] \in Elems(active)
    /\ \A h \in (f + 1)..Height(t) : Branch[t][h] \in pool

FaultyCandidate(t, f, pool) ==
    /\ t \in pool
    /\ Height(t) > Len(active)
    /\ t \notin refused
    /\ Joins(t, f, pool)

\* A held tip adoptLaterPeerChain may choose: taller than the local chain, not
\* refused before, joined to the active chain, and none of its bodies is
\* stamped ahead of the clock.
Candidate(t, f, pool) ==
    /\ t \in pool
    /\ Height(t) > Len(active)
    /\ t \notin refused
    /\ Joins(t, f, pool)
    /\ \A h \in (f + 1)..Height(t) : Branch[t][h] \notin early

\* Held blocks that reached the active chain are dropped, then a tallest
\* candidate is picked, if there is one.
PickBranch ==
    /\ up
    /\ phase = "idle"
    /\ LET pool == held \ Elems(active) IN
         /\ held' = pool
         /\ \E t \in pool : \E f \in 1..Height(t) :
              /\ Candidate(t, f, pool)
              /\ \A u \in pool : \A g \in 1..Height(u) :
                   Candidate(u, g, pool) => Height(u) <= Height(t)
              /\ job' = [tip |-> t, fork |-> f, next |-> f + 1, old |-> << >>]
    /\ phase' = "picked"
    /\ UNCHANGED <<disk, known, active, refused, inHand, early, up>>

\* The same pass when no held branch can be adopted.
PickNothing ==
    /\ up
    /\ phase = "idle"
    /\ held \intersect Elems(active) # {}
    /\ LET pool == held \ Elems(active) IN
         /\ held' = pool
         /\ \A t \in pool : \A f \in 1..Height(t) : ~Candidate(t, f, pool)
    /\ UNCHANGED <<disk, known, active, refused, inHand, phase, job, early, up>>
-----------------------------------------------------------------------------
(* rpc_adopt_peer_chain *)

Ancestor == SubSeq(Branch[job.tip], 1, job.fork)

\* Takes g_chain_mu, gives up when the branch is no longer strictly taller,
\* and replays the ancestor unless it is the tip.
BeginAdopt ==
    /\ up
    /\ phase = "picked"
    /\ LET taller == Height(job.tip) > Len(active)
           atTip  == active = Ancestor IN
         IF taller /\ (atTip \/ OnDisk(Ancestor))
         THEN /\ phase' = "applying"
              /\ job' = [job EXCEPT !.old = active]
              /\ active' = IF atTip THEN active ELSE Ancestor
              /\ known' = IF atTip THEN known ELSE known \union Elems(Ancestor)
         ELSE /\ phase' = "rejected"
              /\ UNCHANGED <<job, active, known>>
    /\ UNCHANGED <<disk, held, refused, inHand, early, up>>

NextBody == Branch[job.tip][job.next]

\* submitblock accepts the next body.  A body the index already names is
\* answered "accepted, duplicate" and does not move the tip.
SubmitNext ==
    /\ up
    /\ phase = "applying"
    /\ job.next <= Height(job.tip)
    /\ Extends(NextBody)
    /\ Passes(NextBody)
    /\ IF NextBody \in known
       THEN UNCHANGED <<disk, known, active>>
       ELSE Store(NextBody)
    /\ job' = [job EXCEPT !.next = @ + 1]
    /\ UNCHANGED <<held, refused, inHand, phase, early, up>>

\* submitblock rejects the next body: the old tip is replayed.
SubmitNextRejected ==
    /\ up
    /\ phase = "applying"
    /\ job.next <= Height(job.tip)
    /\ ~(Extends(NextBody) /\ Passes(NextBody))
    /\ active' = ReplayedActive(job.old)
    /\ known' = ReplayedKnown(job.old)
    /\ phase' = "rejected"
    /\ UNCHANGED <<disk, held, refused, inHand, job, early, up>>

\* Every body was accepted; g_chain_mu is released.
FinishAdopt ==
    /\ up
    /\ phase = "applying"
    /\ job.next > Height(job.tip)
    /\ phase' = "adopted"
    /\ UNCHANGED <<disk, known, active, held, refused, inHand, job, early, up>>

\* Back in adoptLaterPeerChain: forget the bodies that were applied.
Settle ==
    /\ up
    /\ phase = "adopted"
    /\ held' = held \ {Branch[job.tip][h] : h \in (job.fork + 1)..Height(job.tip)}
    /\ refused' = refused \ {job.tip}
    /\ phase' = "idle"
    /\ job' = NoJob
    /\ UNCHANGED <<disk, known, active, inHand, early, up>>

FaultyRefusedAfter == {refused}

\* refusedTips_ after a failure: the tip is refused from now on if it is still
\* taller than the chain the node is on.
RefusedAfter ==
    IF Height(job.tip) > Len(active)
    THEN Added(refused, job.tip, MaxRefused)
    ELSE {refused}

\* Back in adoptLaterPeerChain after a failure.
Refuse ==
    /\ up
    /\ phase = "rejected"
    /\ refused' \in RefusedAfter
    /\ phase' = "idle"
    /\ job' = NoJob
    /\ UNCHANGED <<disk, known, active, held, inHand, early, up>>
-----------------------------------------------------------------------------
(* Crash and restart *)

\* The process dies.  The memory of a dead process is not read again; only
\* disk survives.
Crash ==
    /\ up
    /\ up' = FALSE
    /\ UNCHANGED <<disk, known, active, held, refused, inHand, phase, job, early>>

FaultyIsLongest(i) == i = 1 /\ i <= Len(disk)

\* choose_longest_chain: the highest block whose ancestry is all on disk; of
\* several, the one first on disk.
IsLongest(i) ==
    /\ i \in 1..Len(disk)
    /\ OnDisk(Branch[disk[i]])
    /\ \A j \in 1..Len(disk) :
         OnDisk(Branch[disk[j]]) =>
            \/ Height(disk[j]) < Height(disk[i])
            \/ Height(disk[j]) = Height(disk[i]) /\ i <= j

\* restore_chain.  Only the blocks of the chosen chain enter the index.
Restart ==
    /\ ~up
    /\ up' = TRUE
    /\ \/ /\ \A i \in 1..Len(disk) : ~OnDisk(Branch[disk[i]])
          /\ active' = << >>
       \/ \E i \in 1..Len(disk) :
            /\ IsLongest(i)
            /\ active' = Branch[disk[i]]
    /\ known' = Elems(active')
    /\ held' = {}
    /\ refused' = {}
    /\ inHand' = {}
    /\ phase' = "idle"
    /\ job' = NoJob
    /\ UNCHANGED <<disk, early>>
-----------------------------------------------------------------------------
Adoption ==
    \/ PickBranch \/ PickNothing \/ BeginAdopt \/ SubmitNext
    \/ SubmitNextRejected \/ FinishAdopt \/ Settle \/ Refuse

Next ==
    \/ \E b \in Blocks : SubmitBlock(b) \/ PeerBlockOffTip(b) \/ ClockReaches(b)
    \/ HoldBlock
    \/ Adoption
    \/ Crash
    \/ Restart

Spec == Init /\ [][Next]_vars

\* The heartbeat thread calls adoptLaterPeerChain every 30 s, and a handler
\* that has started runs on.  Peers and miners need not send anything.
FairSpec ==
    /\ Spec
    /\ WF_vars(Adoption)
    /\ WF_vars(HoldBlock)
    /\ WF_vars(Restart)
    /\ \A b \in Blocks : WF_vars(ClockReaches(b))
-----------------------------------------------------------------------------
(* Safety *)

\* c is a chain the content rules allow: it is the whole branch of its last
\* block, and none of its blocks is bad.
SoundChain(c) ==
    /\ c # << >> => c = Branch[c[Len(c)]]
    /\ Elems(c) \intersect Bad = {}

\* The block file never holds a block without its whole ancestry, nor a block
\* submitblock must reject, however often the node switched branches, gave an
\* adoption up half way or died in one (append_block, restore_chain).
DiskClosed ==
    /\ \A b \in Elems(disk) : OnDisk(Branch[b])
    /\ Elems(disk) \intersect Bad = {}

\* The chain the node answers with is one linked, sound chain, and the index
\* names all of it and only blocks that can be read back, along with their
\* ancestors (height_to_hash_, hash_to_index_ and blk*.dat agree).
IndexMatchesDisk ==
    /\ SoundChain(active)
    /\ Elems(active) \subseteq known
    /\ known \subseteq Elems(disk)
    /\ \A b \in known : Elems(Branch[b]) \subseteq known

\* Where an adoption under way can be.  No mined or gossiped block slips in
\* between two of its bodies; the chain it left can always be replayed; and
\* the only way it can get stuck is on a first body the index already names,
\* which is answered "duplicate" without moving the tip
\* (rpc_adopt_peer_chain, rpc_submitblock).
AdoptionIntact ==
    /\ phase \in {"picked", "applying"} =>
         LET left == IF phase = "picked" THEN active ELSE job.old IN
         /\ phase = "picked" => job.next = job.fork + 1
         /\ job.fork \in 1..(Height(job.tip) - 1)
         /\ job.fork <= Len(left)
         /\ SubSeq(left, 1, job.fork) = Ancestor
         /\ \A h \in (job.fork + 1)..Height(job.tip) : Branch[job.tip][h] \notin early
    /\ phase = "applying" =>
         /\ SoundChain(job.old)
         /\ OnDisk(job.old)
         /\ Len(job.old) < Height(job.tip)
         /\ job.next \in (job.fork + 1)..(Height(job.tip) + 1)
         /\ \/ /\ active = SubSeq(Branch[job.tip], 1, job.next - 1)
               /\ job.next > job.fork + 1 =>
                    \A h \in job.next..Height(job.tip) : Branch[job.tip][h] \notin known
            \/ /\ active = Ancestor
               /\ job.next = job.fork + 2
               /\ Branch[job.tip][job.fork + 1] \in known

\* A branch that is taller than the chain is given up only for a bad body or
\* for a first body that was already stored; never because its ancestor could
\* not be replayed, because the clock is behind, or because of what happened
\* between the pick and the lock (adoptLaterPeerChain, rpc_adopt_peer_chain).
RejectedForCause ==
    phase = "rejected" /\ Height(job.tip) > Len(active) =>
        \/ Elems(Branch[job.tip]) \intersect Bad # {}
        \/ Branch[job.tip][job.fork + 1] \in known

\* A restart leaves no taller stored block behind: what an abandoned adoption
\* wrote counts as much as the chain itself (choose_longest_chain).
RestartTakesTallest ==
    [][~up /\ up' => \A b \in Elems(disk) : Height(b) <= Len(active')]_vars
-----------------------------------------------------------------------------
(* Refinement *)

\* While an adoption holds g_chain_mu nobody acts on the half-built chain: the
\* node is committed to the chain it would go back to.
Committed == IF phase = "applying" THEN job.old ELSE active

BC == INSTANCE BestChain WITH chain <- Committed

\* The node implements BestChain: the chain only ever gives way to a sound,
\* strictly taller one, and a restart never comes back shorter.
BestChainSpec == BC!Spec
-----------------------------------------------------------------------------
(* Liveness *)

\* t is held, and held blocks lead from it down to the active chain.
Reachable(t) ==
    /\ up
    /\ \E f \in 1..Height(t) : Joins(t, f, held \ Elems(active))

\* A taller held branch is not left alone for ever: the node reaches its
\* height, or refuses it, or loses one of its blocks
\* (bootstrapHeartbeatLoop, adoptLaterPeerChain).
HeldTipSettles ==
    \A t \in Blocks :
        Reachable(t) /\ Height(t) > Len(active) ~>
            Len(Committed) >= Height(t) \/ t \in refused \/ ~Reachable(t)
-----------------------------------------------------------------------------
(* What the documentation says *)

\* "A strictly taller peer chain that shares a block replaces the local tip"
\* (docs/PI5_PISECURED.md): a refused tip has a block that does not validate.
NoValidTipRefused ==
    \A t \in refused : Elems(Branch[t]) \intersect Bad # {}
=============================================================================
