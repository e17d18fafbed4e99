-------------------------- MODULE NodeChain_proofs --------------------------
(***************************************************************************)
(* Proofs about NodeChain for every block tree, every set of bad blocks    *)
(* and every capacity of the two lists.                                    *)
(***************************************************************************)
EXTENDS NodeChain, FiniteSetTheorems, TLAPS

-----------------------------------------------------------------------------
(* Chains and branches *)

\* A branch is a chain that ends in its block.
LEMMA BranchType ==
    ASSUME NEW b \in Blocks
    PROVE  /\ Branch[b] \in Chains
           /\ Height(b) \in Nat \ {0}
           /\ Branch[b][Height(b)] = b
           /\ \A i \in 1..Height(b) : Branch[b][i] \in Blocks
BY BranchAssumption DEF Chains, Height

\* Every block of a branch has the branch up to it as its own.
LEMMA BranchPrefix ==
    ASSUME NEW b \in Blocks, NEW i \in 1..Height(b)
    PROVE  /\ Branch[Branch[b][i]] = SubSeq(Branch[b], 1, i)
           /\ Height(Branch[b][i]) = i
<1>1. Branch[Branch[b][i]] = SubSeq(Branch[b], 1, i)
  BY BranchAssumption DEF Height
<1>2. Branch[b] \in Chains /\ Height(b) \in Nat
  BY BranchType
<1>3. Len(SubSeq(Branch[b], 1, i)) = i
  BY <1>2 DEF Chains, Height
<1> QED
  BY <1>1, <1>3 DEF Height

\* Appending a block adds it to the elements.
LEMMA ElemsOfAppend ==
    ASSUME NEW s \in Chains, NEW b \in Blocks
    PROVE  Elems(Append(s, b)) = Elems(s) \union {b}
<1>1. Len(Append(s, b)) = Len(s) + 1 /\ Len(s) \in Nat
  BY DEF Chains
<1>2. \A i \in 1..Len(s) : Append(s, b)[i] = s[i]
  BY DEF Chains
<1>3. Append(s, b)[Len(s) + 1] = b
  BY DEF Chains
<1>4. 1..(Len(s) + 1) = (1..Len(s)) \union {Len(s) + 1}
  BY <1>1
<1> QED
  BY <1>1, <1>2, <1>3, <1>4 DEF Elems

\* A prefix of a chain is a chain of the first blocks.
LEMMA PrefixOfChain ==
    ASSUME NEW s \in Chains, NEW n \in 0..Len(s)
    PROVE  /\ SubSeq(s, 1, n) \in Chains
           /\ Len(SubSeq(s, 1, n)) = n
           /\ \A i \in 1..n : SubSeq(s, 1, n)[i] = s[i]
           /\ Elems(SubSeq(s, 1, n)) \subseteq Elems(s)
<1>1. Len(s) \in Nat
  BY DEF Chains
<1>2. SubSeq(s, 1, n) \in Chains /\ Len(SubSeq(s, 1, n)) = n
  BY <1>1 DEF Chains
<1>3. \A i \in 1..n : SubSeq(s, 1, n)[i] = s[i]
  BY <1>1 DEF Chains
<1> QED
  BY <1>1, <1>2, <1>3 DEF Elems

\* A prefix followed by the next block is the longer prefix.
LEMMA PrefixGrows ==
    ASSUME NEW s \in Chains, NEW n \in 1..Len(s)
    PROVE  SubSeq(s, 1, n) = Append(SubSeq(s, 1, n - 1), s[n])
<1>1. Len(s) \in Nat /\ n - 1 \in 0..Len(s) /\ n \in 0..Len(s)
  BY DEF Chains
<1>2. s[n] \in Blocks
  BY <1>1 DEF Chains
<1> QED
  BY <1>1, <1>2, PrefixOfChain DEF Chains

\* The prefix of full length is the chain.
LEMMA WholePrefix ==
    ASSUME NEW s \in Chains
    PROVE  SubSeq(s, 1, Len(s)) = s
BY DEF Chains

\* The elements of a chain are blocks.
LEMMA ElementsAreBlocks ==
    ASSUME NEW s \in Chains
    PROVE  /\ Elems(s) \subseteq Blocks
           /\ Len(s) \in Nat
           /\ \A i \in 1..Len(s) : s[i] \in Elems(s)
           /\ s # << >> => Len(s) >= 1
BY DEF Chains, Elems

\* The blocks of a sound chain are its prefixes.
LEMMA SoundPrefix ==
    ASSUME NEW c \in Chains, SoundChain(c), NEW i \in 1..Len(c)
    PROVE  Branch[c[i]] = SubSeq(c, 1, i) /\ Height(c[i]) = i
<1>1. c # << >> /\ Len(c) \in Nat /\ c[Len(c)] \in Blocks
  BY ElementsAreBlocks DEF Chains
<1>2. c = Branch[c[Len(c)]]
  BY <1>1 DEF SoundChain
<1>3. Height(c[Len(c)]) = Len(c)
  BY <1>2 DEF Height
<1> QED
  BY <1>1, <1>2, <1>3, BranchPrefix

\* Where a branch meets a sound chain, both have the same blocks below.
LEMMA Meeting ==
    ASSUME NEW c \in Chains, SoundChain(c),
           NEW t \in Blocks, NEW f \in 1..Height(t), Branch[t][f] \in Elems(c)
    PROVE  f <= Len(c) /\ SubSeq(c, 1, f) = SubSeq(Branch[t], 1, f)
<1>1. PICK i \in 1..Len(c) : c[i] = Branch[t][f]
  BY DEF Elems
<1>2. Branch[c[i]] = SubSeq(c, 1, i) /\ Height(c[i]) = i
  BY SoundPrefix
<1>3. Branch[Branch[t][f]] = SubSeq(Branch[t], 1, f) /\ Height(Branch[t][f]) = f
  BY BranchPrefix
<1>4. Len(c) \in Nat
  BY ElementsAreBlocks
<1> QED
  BY <1>1, <1>2, <1>3, <1>4

\* The branch of a block is sound when none of its blocks is bad, and a prefix
\* of a sound branch is one.
LEMMA SoundBranch ==
    ASSUME NEW b \in Blocks, NEW n \in 0..Height(b),
           Elems(SubSeq(Branch[b], 1, n)) \intersect Bad = {}
    PROVE  SoundChain(SubSeq(Branch[b], 1, n))
<1>1. Branch[b] \in Chains /\ Height(b) \in Nat
  BY BranchType
<1>2. CASE n = 0
  <2>1. SubSeq(Branch[b], 1, n) = << >>
    BY <1>1, <1>2, PrefixOfChain DEF Height, Chains
  <2> QED
    BY <2>1 DEF SoundChain
<1>3. CASE n # 0
  <2>1. n \in 1..Height(b)
    BY <1>1, <1>3
  <2>2. Len(SubSeq(Branch[b], 1, n)) = n /\ SubSeq(Branch[b], 1, n)[n] = Branch[b][n]
    BY <1>1, <2>1, PrefixOfChain DEF Height
  <2>3. Branch[Branch[b][n]] = SubSeq(Branch[b], 1, n)
    BY <2>1, BranchPrefix
  <2> QED
    BY <2>2, <2>3 DEF SoundChain
<1> QED
  BY <1>2, <1>3

\* A list that takes a block stays within its capacity.
LEMMA AddedWithinCapacity ==
    ASSUME NEW S, IsFiniteSet(S), NEW max \in Nat \ {0}, Cardinality(S) <= max,
           NEW x, NEW T \in Added(S, x, max)
    PROVE  /\ T \subseteq S \union {x}
           /\ IsFiniteSet(T)
           /\ Cardinality(T) <= max
<1>1. Cardinality(S) \in Nat
  BY FS_CardinalityType
<1>2. CASE x \in S \/ Cardinality(S) < max
  <2>1. T = S \union {x}
    BY <1>2 DEF Added
  <2>2. IsFiniteSet(T) /\ (Cardinality(T) = Cardinality(S) \/ Cardinality(T) = Cardinality(S) + 1)
    BY <2>1, FS_AddElement
  <2>3. x \in S => Cardinality(T) = Cardinality(S)
    BY <2>1, FS_AddElement
  <2> QED
    BY <1>1, <1>2, <2>1, <2>2, <2>3
<1>3. CASE ~(x \in S \/ Cardinality(S) < max)
  <2>1. PICK oldest \in S : T = (S \ {oldest}) \union {x}
    BY <1>3 DEF Added
  <2>2. IsFiniteSet(S \ {oldest}) /\ Cardinality(S \ {oldest}) = Cardinality(S) - 1
    BY FS_RemoveElement
  <2>3. IsFiniteSet(T) /\ (Cardinality(T) = Cardinality(S \ {oldest}) \/ Cardinality(T) = Cardinality(S \ {oldest}) + 1)
    BY <2>1, <2>2, FS_AddElement
  <2> QED
    BY <1>1, <2>1, <2>2, <2>3
<1> QED
  BY <1>2, <1>3
-----------------------------------------------------------------------------
(* The inductive invariant *)

IInv == TypeOK /\ DiskClosed /\ IndexMatchesDisk /\ AdoptionIntact

\* What the pieces say of one another: an active chain or the chain an
\* adoption left is on disk, and so are the branches of its blocks.
LEMMA StoreKeeps ==
    ASSUME NEW b \in Blocks, TypeOK, DiskClosed, IndexMatchesDisk,
           Extends(b), b \notin Bad, Store(b)
    PROVE  /\ disk' \in Chains /\ known' \subseteq Blocks /\ active' \in Chains
           /\ Elems(disk') = Elems(disk) \union {b}
           /\ active' = Branch[b]
           /\ DiskClosed'
           /\ IndexMatchesDisk'
<1> USE DEF TypeOK
<1>1. active' = Append(active, b) /\ active' = Branch[b] /\ active' \in Chains
  BY BranchType DEF Store, Extends, Chains
<1>2. Elems(active') = Elems(active) \union {b}
  BY <1>1, ElemsOfAppend
<1>3. disk' \in Chains /\ Elems(disk') = Elems(disk) \union {b}
  <2>1. CASE b \in Elems(disk)
    BY <2>1 DEF Store, Appended
  <2>2. CASE b \notin Elems(disk)
    <3>1. disk' = Append(disk, b)
      BY <2>2 DEF Store, Appended
    <3> QED
      BY <3>1, ElemsOfAppend DEF Chains
  <2> QED
    BY <2>1, <2>2
<1>4. known' = known \union {b} /\ known' \subseteq Blocks
  BY DEF Store
<1>5. Elems(Branch[b]) \subseteq Elems(active) \union {b}
  BY <1>1, <1>2
<1>6. Elems(active) \subseteq known /\ known \subseteq Elems(disk)
  BY DEF IndexMatchesDisk
<1>7. DiskClosed'
  BY <1>3, <1>5, <1>6 DEF DiskClosed, OnDisk
<1>8. IndexMatchesDisk'
  <2>1. SoundChain(active)'
    <3>1. active' # << >> /\ active'[Len(active')] = b
      BY <1>1, BranchType DEF Height, Chains
    <3>2. Elems(active) \intersect Bad = {}
      BY DEF IndexMatchesDisk, SoundChain
    <3> QED
      BY <1>1, <1>2, <3>1, <3>2 DEF SoundChain
  <2>2. \A k \in known' : Elems(Branch[k]) \subseteq known'
    BY <1>4, <1>5, <1>6 DEF IndexMatchesDisk
  <2> QED
    BY <1>2, <1>3, <1>4, <1>6, <2>1, <2>2 DEF IndexMatchesDisk
<1> QED
  BY <1>1, <1>3, <1>4, <1>7, <1>8

\* A sound chain that is on disk can be replayed.
LEMMA ReplayKeeps ==
    ASSUME NEW c \in Chains, TypeOK, DiskClosed, IndexMatchesDisk,
           SoundChain(c), OnDisk(c),
           active' = c, known' = known \union Elems(c), disk' = disk
    PROVE  known' \subseteq Blocks /\ IndexMatchesDisk'
<1>1. known' \subseteq Blocks
  BY ElementsAreBlocks DEF TypeOK
<1>2. \A b \in Elems(c) : Elems(Branch[b]) \subseteq Elems(c)
  <2>1. TAKE b \in Elems(c)
  <2>2. PICK i \in 1..Len(c) : b = c[i]
    BY DEF Elems
  <2>3. Branch[b] = SubSeq(c, 1, i) /\ i \in 0..Len(c)
    BY <2>2, SoundPrefix, ElementsAreBlocks
  <2> QED
    BY <2>3, PrefixOfChain
<1>3. SoundChain(active)'
  BY DEF SoundChain, Elems
<1> QED
  BY <1>1, <1>2, <1>3 DEF IndexMatchesDisk, OnDisk

\* The job of an idle adoption has the type of a job.
LEMMA NoJobType == NoJob \in Jobs
<1>1. (CHOOSE b \in Blocks : TRUE) \in Blocks
  BY BlockSetAssumption
<1> QED
  BY <1>1 DEF NoJob, Jobs, Chains

\* The empty node satisfies the invariant.
LEMMA InitIInv == Init => IInv
<1> SUFFICES ASSUME Init PROVE IInv
  OBVIOUS
<1> USE DEF Init
<1>1. Elems(<< >>) = {}
  BY DEF Elems
<1>2. IsFiniteSet({}) /\ Cardinality({}) = 0
  BY FS_EmptySet
<1>3. NoJob \in Jobs
  BY NoJobType
<1>4. TypeOK
  BY <1>2, <1>3, CapacityAssumption DEF TypeOK, Chains, Phases
<1>5. DiskClosed /\ IndexMatchesDisk /\ AdoptionIntact
  BY <1>1 DEF DiskClosed, IndexMatchesDisk, SoundChain, AdoptionIntact
<1> QED
  BY <1>4, <1>5 DEF IInv

-----------------------------------------------------------------------------
(* One lemma per action *)

\* submitblock only appends to a sound tip.
LEMMA SubmitBlockKeeps ==
    ASSUME IInv, NEW b \in Blocks, SubmitBlock(b) PROVE IInv'
<1> USE DEF IInv, SubmitBlock
<1>1. /\ disk' \in Chains /\ known' \subseteq Blocks /\ active' \in Chains
      /\ active' = Branch[b]
      /\ DiskClosed'
      /\ IndexMatchesDisk'
  BY StoreKeeps DEF Passes
<1>2. TypeOK'
  BY <1>1 DEF TypeOK
<1>3. phase' # "applying"
  BY DEF ChainFree
<1>4. ASSUME phase = "picked"
      PROVE  job.fork <= Len(active') /\ SubSeq(active', 1, job.fork) = SubSeq(active, 1, job.fork)
  <2>1. active \in Chains /\ Len(active) \in Nat /\ job.fork \in Nat /\ job.fork <= Len(active)
    BY <1>4 DEF TypeOK, AdoptionIntact, Jobs, Chains
  <2>2. active' = Append(active, b)
    BY DEF Store
  <2> QED
    BY <2>1, <2>2 DEF Chains
<1>5. AdoptionIntact'
  BY <1>3, <1>4 DEF AdoptionIntact, Ancestor
<1> QED
  BY <1>1, <1>2, <1>5

\* A step that leaves disk, index and chain alone keeps what relates them.
LEMMA SameDiskAndIndex ==
    ASSUME DiskClosed, IndexMatchesDisk, UNCHANGED <<disk, known, active>>
    PROVE  DiskClosed' /\ IndexMatchesDisk'
<1>1. DiskClosed'
  BY DEF DiskClosed, OnDisk
<1>2. IndexMatchesDisk'
  BY DEF IndexMatchesDisk
<1> QED
  BY <1>1, <1>2

\* A step that changes neither storage nor adoption keeps the invariant.
LEMMA QuietKeeps ==
    ASSUME IInv, UNCHANGED <<disk, known, active, phase, job>>,
           early' \subseteq early, TypeOK'
    PROVE  IInv'
<1>1. DiskClosed' /\ IndexMatchesDisk'
  BY SameDiskAndIndex DEF IInv
<1>2. AdoptionIntact'
  BY DEF IInv, AdoptionIntact, Ancestor, OnDisk
<1> QED
  BY <1>1, <1>2 DEF IInv

\* Holding a block stays within capacity and touches nothing else.
LEMMA HoldBlockKeeps == ASSUME IInv, HoldBlock PROVE IInv'
<1> USE DEF HoldBlock
<1>1. PICK b \in inHand : held' \in Added(held, b, MaxHeld)
  OBVIOUS
<1>2. /\ held' \subseteq held \union {b}
      /\ IsFiniteSet(held')
      /\ Cardinality(held') <= MaxHeld
  BY <1>1, AddedWithinCapacity, CapacityAssumption DEF IInv, TypeOK
<1>3. TypeOK'
  BY <1>2 DEF IInv, TypeOK
<1> QED
  BY <1>3, QuietKeeps DEF IInv

\* Dropping held blocks stays within capacity.
LEMMA PruneWithinCapacity ==
    ASSUME TypeOK, NEW S
    PROVE  IsFiniteSet(held \ S) /\ Cardinality(held \ S) <= MaxHeld
<1>1. IsFiniteSet(held \ S) /\ Cardinality(held \ S) <= Cardinality(held)
  BY FS_Subset, FS_CardinalityType DEF TypeOK
<1>2. Cardinality(held) \in Nat /\ Cardinality(held \ S) \in Nat
  BY <1>1, FS_CardinalityType DEF TypeOK
<1> QED
  BY <1>1, <1>2, CapacityAssumption DEF TypeOK

\* A branch that is picked joins the active chain at its fork.
LEMMA PickBranchKeeps == ASSUME IInv, PickBranch PROVE IInv'
<1> DEFINE pool == held \ Elems(active)
<1>1. PICK t \in pool : \E f \in 1..Height(t) :
         /\ Candidate(t, f, pool)
         /\ job' = [tip |-> t, fork |-> f, next |-> f + 1, old |-> << >>]
  BY DEF PickBranch
<1>a. PICK f \in 1..Height(t) :
         /\ Candidate(t, f, pool)
         /\ job' = [tip |-> t, fork |-> f, next |-> f + 1, old |-> << >>]
  BY <1>1
<1>2. /\ t \in Blocks
      /\ f \in 1..(Height(t) - 1)
      /\ Branch[t][f] \in Elems(active)
      /\ \A h \in (f + 1)..Height(t) : Branch[t][h] \notin early
  BY <1>a DEF Candidate, Joins, IInv, TypeOK
<1>3. f <= Len(active) /\ SubSeq(active, 1, f) = SubSeq(Branch[t], 1, f)
  BY <1>a, <1>2, Meeting DEF IInv, TypeOK, IndexMatchesDisk
<1>4. TypeOK'
  <2>1. held' = pool /\ IsFiniteSet(held') /\ Cardinality(held') <= MaxHeld
    BY PruneWithinCapacity DEF PickBranch, IInv
  <2>2. job' \in Jobs
    BY <1>a, <1>2 DEF Jobs, Chains
  <2>3. phase' = "picked" /\ UNCHANGED <<disk, known, active, refused, inHand, early, up>>
    BY DEF PickBranch
  <2>4. held' \subseteq Blocks
    BY <2>1 DEF IInv, TypeOK
  <2> QED
    BY <2>1, <2>2, <2>3, <2>4 DEF IInv, TypeOK, Phases
<1>5. DiskClosed' /\ IndexMatchesDisk'
  BY SameDiskAndIndex DEF PickBranch, IInv
<1>6. AdoptionIntact'
  <2>1. phase' = "picked" /\ UNCHANGED <<active, early>>
    BY DEF PickBranch
  <2> QED
    BY <1>a, <1>2, <1>3, <2>1 DEF AdoptionIntact, Ancestor
<1> QED
  BY <1>4, <1>5, <1>6 DEF IInv

\* A pass without a candidate only drops held blocks.
LEMMA PickNothingKeeps == ASSUME IInv, PickNothing PROVE IInv'
<1>1. IsFiniteSet(held') /\ Cardinality(held') <= MaxHeld /\ held' \subseteq held
  BY PruneWithinCapacity DEF PickNothing, IInv
<1>2. TypeOK'
  BY <1>1 DEF PickNothing, IInv, TypeOK
<1> QED
  BY <1>2, QuietKeeps DEF PickNothing, IInv

\* The ancestor of the branch at work, before and after the lock is taken.
LEMMA AncestorFacts ==
    ASSUME IInv, phase \in {"picked", "applying"}
    PROVE  /\ job.tip \in Blocks /\ job.old \in Chains
           /\ job.fork \in 1..(Height(job.tip) - 1) /\ Height(job.tip) \in Nat
           /\ Ancestor \in Chains /\ Len(Ancestor) = job.fork
           /\ SoundChain(Ancestor) /\ OnDisk(Ancestor)
           /\ phase = "picked" => Ancestor = SubSeq(active, 1, job.fork)
           /\ phase = "applying" => Ancestor = SubSeq(job.old, 1, job.fork)
<1> DEFINE left == IF phase = "picked" THEN active ELSE job.old
<1>1. job.tip \in Blocks /\ job.old \in Chains
  BY DEF IInv, TypeOK, Jobs
<1>2. Height(job.tip) \in Nat /\ Branch[job.tip] \in Chains
  BY <1>1, BranchType
<1>3. /\ job.fork \in 1..(Height(job.tip) - 1)
      /\ job.fork <= Len(left)
      /\ SubSeq(left, 1, job.fork) = Ancestor
  BY DEF IInv, AdoptionIntact
<1>4. left \in Chains /\ SoundChain(left) /\ OnDisk(left)
  BY <1>1 DEF IInv, TypeOK, IndexMatchesDisk, AdoptionIntact, OnDisk
<1>5. job.fork \in 0..Len(left) /\ job.fork \in 0..Height(job.tip)
  BY <1>2, <1>3, <1>4, ElementsAreBlocks
<1>6. Ancestor \in Chains /\ Len(Ancestor) = job.fork /\ Elems(Ancestor) \subseteq Elems(left)
  BY <1>3, <1>4, <1>5, PrefixOfChain
<1>7. SoundChain(Ancestor)
  <2>1. Elems(Ancestor) \intersect Bad = {}
    BY <1>4, <1>6 DEF SoundChain
  <2> QED
    BY <1>1, <1>5, <2>1, SoundBranch DEF Ancestor
<1> QED
  BY <1>1, <1>2, <1>3, <1>4, <1>6, <1>7 DEF OnDisk

\* An adoption starts from an ancestor that can be replayed.
LEMMA BeginAdoptKeeps == ASSUME IInv, BeginAdopt PROVE IInv'
<1> USE DEF BeginAdopt
<1>1. /\ job.tip \in Blocks /\ job.fork \in 1..(Height(job.tip) - 1)
      /\ Height(job.tip) \in Nat
      /\ Ancestor \in Chains /\ SoundChain(Ancestor) /\ OnDisk(Ancestor)
      /\ Ancestor = SubSeq(active, 1, job.fork)
  BY AncestorFacts
<1>2. CASE Height(job.tip) > Len(active)
  <2>1. /\ phase' = "applying"
        /\ job' = [job EXCEPT !.old = active]
        /\ active' = Ancestor
        /\ UNCHANGED <<disk, held, refused, inHand, early, up>>
    BY <1>1, <1>2
  <2>2. known' = known \union Elems(Ancestor)
    <3>1. CASE active = Ancestor
      BY <1>1, <1>2, <3>1 DEF IInv, IndexMatchesDisk
    <3>2. CASE active # Ancestor
      BY <1>1, <1>2, <3>2
    <3> QED
      BY <3>1, <3>2
  <2>3. known' \subseteq Blocks /\ IndexMatchesDisk'
    BY <1>1, <2>1, <2>2, ReplayKeeps DEF IInv
  <2>4. DiskClosed'
    BY <2>1 DEF IInv, DiskClosed, OnDisk
  <2>5. /\ job' \in Jobs /\ job'.tip = job.tip /\ job'.fork = job.fork
        /\ job'.next = job.next /\ job'.old = active
    BY <2>1 DEF IInv, TypeOK, Jobs
  <2>6. TypeOK'
    BY <1>1, <2>1, <2>3, <2>5 DEF IInv, TypeOK, Phases
  <2>7. job.next = job.fork + 1
    BY DEF IInv, AdoptionIntact
  <2>8. AdoptionIntact'
    <3>1. Ancestor' = Ancestor
      BY <2>5 DEF Ancestor
    <3>2. SoundChain(active) /\ OnDisk(active)
      BY DEF IInv, IndexMatchesDisk, OnDisk
    <3>3. active' = SubSeq(Branch[job'.tip], 1, job'.next - 1)
      BY <1>1, <2>1, <2>5, <2>7 DEF Ancestor
    <3> QED
      BY <1>1, <1>2, <2>1, <2>5, <2>7, <3>1, <3>2, <3>3 DEF IInv, AdoptionIntact, OnDisk
  <2> QED
    BY <2>3, <2>4, <2>6, <2>8 DEF IInv
<1>3. CASE ~(Height(job.tip) > Len(active))
  <2>1. phase' = "rejected" /\ UNCHANGED <<disk, known, active, held, refused, inHand, job, early, up>>
    BY <1>3
  <2>2. DiskClosed' /\ IndexMatchesDisk'
    BY <2>1, SameDiskAndIndex DEF IInv
  <2> QED
    BY <2>1, <2>2 DEF IInv, TypeOK, Phases, AdoptionIntact
<1> QED
  BY <1>2, <1>3
\* The next body while an adoption is applying its branch.
LEMMA NextBodyFacts ==
    ASSUME IInv, phase = "applying", job.next <= Height(job.tip)
    PROVE  /\ NextBody \in Blocks
           /\ job.next \in (job.fork + 1)..Height(job.tip)
           /\ NextBody \notin early
           /\ Branch[NextBody] = SubSeq(Branch[job.tip], 1, job.next)
           /\ active = SubSeq(Branch[job.tip], 1, job.next - 1) => Extends(NextBody)
           /\ Extends(NextBody) => active = SubSeq(Branch[job.tip], 1, job.next - 1)
<1>1. /\ job.tip \in Blocks /\ job.fork \in 1..(Height(job.tip) - 1)
      /\ Height(job.tip) \in Nat
  BY AncestorFacts
<1>2. job.next \in (job.fork + 1)..Height(job.tip) /\ job.next \in 1..Height(job.tip)
  BY <1>1 DEF IInv, AdoptionIntact
<1>3. NextBody \in Blocks
  BY <1>1, <1>2, BranchType DEF NextBody
<1>4. Branch[NextBody] = SubSeq(Branch[job.tip], 1, job.next)
  BY <1>1, <1>2, BranchPrefix DEF NextBody
<1>5. SubSeq(Branch[job.tip], 1, job.next) = Append(SubSeq(Branch[job.tip], 1, job.next - 1), NextBody)
  BY <1>1, <1>2, BranchType, PrefixGrows DEF NextBody, Height
<1>6. NextBody \notin early
  BY <1>2 DEF IInv, AdoptionIntact, NextBody
<1>7. ASSUME Extends(NextBody)
      PROVE  active = SubSeq(Branch[job.tip], 1, job.next - 1)
  <2>1. active \in Seq(Blocks) /\ SubSeq(Branch[job.tip], 1, job.next - 1) \in Seq(Blocks)
    <3>1. Branch[job.tip] \in Chains /\ job.next - 1 \in 0..Len(Branch[job.tip])
      BY <1>1, <1>2, BranchType DEF Height
    <3> QED
      BY <3>1, PrefixOfChain DEF IInv, TypeOK, Chains
  <2>2. Append(active, NextBody) = Append(SubSeq(Branch[job.tip], 1, job.next - 1), NextBody)
    BY <1>4, <1>5, <1>7 DEF Extends
  <2> QED
    BY <1>3, <2>1, <2>2
<1> QED
  BY <1>2, <1>3, <1>4, <1>5, <1>6, <1>7 DEF Extends

\* The next body extends the branch, or is the one duplicate.
LEMMA SubmitNextKeeps == ASSUME IInv, SubmitNext PROVE IInv'
<1> USE DEF SubmitNext
<1>1. /\ NextBody \in Blocks
      /\ job.next \in (job.fork + 1)..Height(job.tip)
      /\ Branch[NextBody] = SubSeq(Branch[job.tip], 1, job.next)
      /\ active = SubSeq(Branch[job.tip], 1, job.next - 1)
  BY NextBodyFacts
<1>2. /\ job.tip \in Blocks /\ Height(job.tip) \in Nat /\ job.fork \in Nat
      /\ job.fork \in 1..(Height(job.tip) - 1)
  BY AncestorFacts DEF IInv, TypeOK, Jobs
<1>3. /\ job' \in Jobs /\ job'.tip = job.tip /\ job'.fork = job.fork
      /\ job'.next = job.next + 1 /\ job'.old = job.old
  BY DEF IInv, TypeOK, Jobs
<1>4. Ancestor' = Ancestor
  BY <1>3 DEF Ancestor
<1>5. CASE NextBody \in known
  <2>1. UNCHANGED <<disk, known, active>>
    BY <1>5
  <2>2. DiskClosed' /\ IndexMatchesDisk'
    BY <2>1, SameDiskAndIndex DEF IInv
  <2>3. TypeOK'
    BY <1>3, <2>1 DEF IInv, TypeOK
  <2>4. job.next = job.fork + 1 /\ active = Ancestor
    <3>1. active # Ancestor => job.next # job.fork + 1
      BY <1>1, <1>2 DEF Ancestor
    <3>2. job.next = job.fork + 1
      <4>1. SUFFICES ASSUME job.next # job.fork + 1 PROVE FALSE
        OBVIOUS
      <4>2. active # Ancestor
        <5>1. Len(Ancestor) = job.fork
          BY AncestorFacts
        <5>2. Branch[job.tip] \in Chains /\ job.next - 1 \in 0..Len(Branch[job.tip])
          BY <1>1, <1>2, BranchType DEF Height
        <5>3. Len(active) = job.next - 1
          BY <1>1, <5>2, PrefixOfChain
        <5> QED
          BY <1>1, <1>2, <4>1, <5>1, <5>3
      <4>3. \A h \in job.next..Height(job.tip) : Branch[job.tip][h] \notin known
        BY <1>1, <1>2, <4>1, <4>2 DEF IInv, AdoptionIntact
      <4> QED
        BY <1>1, <1>2, <1>5, <4>3 DEF NextBody
    <3> QED
      BY <3>1, <3>2
  <2>5. AdoptionIntact'
    <3>1. job'.next = job.fork + 2 /\ Branch[job.tip][job.fork + 1] \in known
      BY <1>2, <1>3, <1>5, <2>4 DEF NextBody
    <3>2. job'.next \in (job.fork + 1)..(Height(job.tip) + 1)
      BY <1>2, <3>1
    <3> QED
      BY <1>3, <1>4, <2>1, <2>4, <3>1, <3>2 DEF IInv, AdoptionIntact, OnDisk
  <2> QED
    BY <2>2, <2>3, <2>5 DEF IInv
<1>6. CASE NextBody \notin known
  <2>1. /\ disk' \in Chains /\ known' \subseteq Blocks /\ active' \in Chains
        /\ Elems(disk') = Elems(disk) \union {NextBody}
        /\ active' = Branch[NextBody]
        /\ DiskClosed' /\ IndexMatchesDisk'
    BY <1>1, <1>6, StoreKeeps DEF IInv, Passes
  <2>2. TypeOK'
    BY <1>3, <2>1 DEF IInv, TypeOK
  <2>3. known' = known \union {NextBody}
    BY <1>6 DEF Store
  \* A later body is not known before the next body is: the index holds whole
  \* branches.
  <2>4. \A h \in (job.next + 1)..Height(job.tip) : Branch[job.tip][h] \notin known'
    <3>1. SUFFICES ASSUME NEW h \in (job.next + 1)..Height(job.tip)
                   PROVE  Branch[job.tip][h] \notin known'
      OBVIOUS
    <3>2. h \in 1..Height(job.tip) /\ job.next \in 1..Height(job.tip) /\ h # job.next /\ job.next \in 1..h
      BY <1>1, <1>2
    <3>3. Branch[job.tip][h] # NextBody
      BY <1>2, <3>2, BranchPrefix DEF NextBody
    <3>4. NextBody \in Elems(Branch[Branch[job.tip][h]])
      <4>1. Branch[Branch[job.tip][h]] = SubSeq(Branch[job.tip], 1, h)
        BY <1>2, <3>2, BranchPrefix
      <4>2. Branch[job.tip] \in Chains /\ h \in 0..Len(Branch[job.tip])
        BY <1>2, <3>2, BranchType DEF Height
      <4>3. Len(SubSeq(Branch[job.tip], 1, h)) = h /\ SubSeq(Branch[job.tip], 1, h)[job.next] = NextBody
        BY <3>2, <4>2, PrefixOfChain DEF NextBody
      <4> QED
        BY <3>2, <4>1, <4>3 DEF Elems
    <3> QED
      BY <1>6, <2>3, <3>3, <3>4 DEF IInv, IndexMatchesDisk
  <2>5. AdoptionIntact'
    <3>1. active' = SubSeq(Branch[job'.tip], 1, job'.next - 1)
      BY <1>1, <1>2, <1>3, <2>1
    <3>2. job'.next \in (job'.fork + 1)..(Height(job'.tip) + 1)
      BY <1>1, <1>2, <1>3
    <3>3. OnDisk(job.old)'
      BY <1>3, <2>1 DEF IInv, AdoptionIntact, OnDisk
    <3> QED
      BY <1>3, <1>4, <2>4, <3>1, <3>2, <3>3 DEF IInv, AdoptionIntact
  <2> QED
    BY <2>1, <2>2, <2>5 DEF IInv
<1> QED
  BY <1>5, <1>6

\* After a rejected body the old chain is replayed in full.
LEMMA SubmitNextRejectedKeeps == ASSUME IInv, SubmitNextRejected PROVE IInv'
<1> USE DEF SubmitNextRejected
<1>1. job.old \in Chains /\ SoundChain(job.old) /\ OnDisk(job.old)
  BY DEF IInv, TypeOK, Jobs, AdoptionIntact
<1>2. active' = job.old /\ known' = known \union Elems(job.old) /\ disk' = disk
  BY <1>1 DEF ReplayedActive, ReplayedKnown
<1>3. known' \subseteq Blocks /\ IndexMatchesDisk'
  BY <1>1, <1>2, ReplayKeeps DEF IInv
<1>4. DiskClosed'
  BY <1>2 DEF IInv, DiskClosed, OnDisk
<1>5. TypeOK'
  BY <1>1, <1>2, <1>3 DEF IInv, TypeOK, Phases
<1> QED
  BY <1>3, <1>4, <1>5 DEF IInv, AdoptionIntact

\* Forgetting the applied bodies keeps the invariant.
LEMMA SettleKeeps == ASSUME IInv, Settle PROVE IInv'
<1> USE DEF Settle
<1>1. IsFiniteSet(held') /\ Cardinality(held') <= MaxHeld /\ held' \subseteq held
  BY PruneWithinCapacity DEF IInv
<1>2. IsFiniteSet(refused') /\ Cardinality(refused') <= MaxRefused
  <2>1. IsFiniteSet(refused') /\ Cardinality(refused') <= Cardinality(refused)
    BY FS_Subset DEF IInv, TypeOK
  <2>2. Cardinality(refused) \in Nat /\ Cardinality(refused') \in Nat
    BY <2>1, FS_CardinalityType DEF IInv, TypeOK
  <2> QED
    BY <2>1, <2>2, CapacityAssumption DEF IInv, TypeOK
<1>3. TypeOK'
  BY <1>1, <1>2, NoJobType DEF IInv, TypeOK, Phases
<1>4. DiskClosed' /\ IndexMatchesDisk'
  BY SameDiskAndIndex DEF IInv
<1> QED
  BY <1>3, <1>4 DEF IInv, AdoptionIntact

\* Refusing a tip stays within capacity.
LEMMA RefuseKeeps == ASSUME IInv, Refuse PROVE IInv'
<1> USE DEF Refuse
<1>1. job.tip \in Blocks
  BY DEF IInv, TypeOK, Jobs
<1>2. refused' \subseteq Blocks /\ IsFiniteSet(refused') /\ Cardinality(refused') <= MaxRefused
  <2>1. CASE Height(job.tip) > Len(active)
    <3>1. refused' \in Added(refused, job.tip, MaxRefused)
      BY <2>1 DEF RefusedAfter
    <3> QED
      BY <1>1, <3>1, AddedWithinCapacity, CapacityAssumption DEF IInv, TypeOK
  <2>2. CASE ~(Height(job.tip) > Len(active))
    BY <2>2 DEF RefusedAfter, IInv, TypeOK
  <2> QED
    BY <2>1, <2>2
<1>3. TypeOK'
  BY <1>2, NoJobType DEF IInv, TypeOK, Phases
<1>4. DiskClosed' /\ IndexMatchesDisk'
  BY SameDiskAndIndex DEF IInv
<1> QED
  BY <1>3, <1>4 DEF IInv, AdoptionIntact

\* Releasing the lock leaves a sound active chain.
LEMMA FinishAdoptKeeps == ASSUME IInv, FinishAdopt PROVE IInv'
<1> USE DEF FinishAdopt
<1>1. DiskClosed' /\ IndexMatchesDisk'
  BY SameDiskAndIndex DEF IInv
<1>2. TypeOK'
  BY DEF IInv, TypeOK, Phases
<1> QED
  BY <1>1, <1>2 DEF IInv, AdoptionIntact

\* A restart comes back with nothing, when nothing is stored, or with the
\* branch of a stored block that no stored block is taller than.
LEMMA RestartChoice ==
    ASSUME IInv, Restart
    PROVE  /\ active' \in Chains /\ SoundChain(active') /\ OnDisk(active')
           /\ \A b \in Elems(disk) : Height(b) <= Len(active')
           /\ active' = << >> \/ \E b \in Elems(disk) : active' = Branch[b]
<1> USE DEF IInv, TypeOK
<1>1. \A i \in 1..Len(disk) : disk[i] \in Elems(disk) /\ OnDisk(Branch[disk[i]])
  BY ElementsAreBlocks DEF DiskClosed
<1>2. \/ active' = << >> /\ \A i \in 1..Len(disk) : ~OnDisk(Branch[disk[i]])
      \/ \E i \in 1..Len(disk) : IsLongest(i) /\ active' = Branch[disk[i]]
  BY DEF Restart
<1>3. CASE active' = << >> /\ \A i \in 1..Len(disk) : ~OnDisk(Branch[disk[i]])
  <2>1. Elems(disk) = {}
    BY <1>1, <1>3 DEF Elems
  <2>2. << >> \in Chains /\ Elems(<< >>) = {}
    BY DEF Chains, Elems
  <2> QED
    BY <1>3, <2>1, <2>2 DEF SoundChain, OnDisk
<1>4. CASE \E i \in 1..Len(disk) : IsLongest(i) /\ active' = Branch[disk[i]]
  <2>1. PICK i \in 1..Len(disk) : IsLongest(i) /\ active' = Branch[disk[i]]
    BY <1>4
  <2>2. disk[i] \in Blocks /\ disk[i] \in Elems(disk) /\ OnDisk(Branch[disk[i]])
    BY <1>1, ElementsAreBlocks
  <2>3. active' \in Chains /\ Len(active') = Height(disk[i]) /\ OnDisk(active')
    BY <2>1, <2>2, BranchType DEF Height
  <2>4. SoundChain(active')
    <3>1. Elems(active') \intersect Bad = {}
      BY <2>3 DEF DiskClosed, OnDisk
    <3>2. active'[Len(active')] = disk[i]
      BY <2>1, <2>2, <2>3, BranchType
    <3> QED
      BY <2>1, <3>1, <3>2 DEF SoundChain
  <2>5. ASSUME NEW b \in Elems(disk)
        PROVE  Height(b) <= Len(active')
    <3>1. PICK j \in 1..Len(disk) : disk[j] = b
      BY DEF Elems
    <3>2. OnDisk(Branch[disk[j]])
      BY <1>1
    <3>3. Height(b) <= Height(disk[i])
      <4>1. Height(disk[j]) < Height(disk[i]) \/ Height(disk[j]) = Height(disk[i])
        BY <2>1, <3>2 DEF IsLongest
      <4>2. b \in Blocks
        BY ElementsAreBlocks
      <4>3. Height(b) \in Nat /\ Height(disk[i]) \in Nat
        BY <2>2, <4>2, BranchType
      <4> QED
        BY <3>1, <4>1, <4>3
    <3> QED
      BY <2>3, <3>3
  <2> QED
    BY <2>1, <2>2, <2>3, <2>4, <2>5
<1> QED
  BY <1>2, <1>3, <1>4

\* A restart indexes one sound chain found on disk.
LEMMA RestartKeeps == ASSUME IInv, Restart PROVE IInv'
<1>1. /\ active' \in Chains /\ SoundChain(active') /\ OnDisk(active')
      /\ active' = << >> \/ \E b \in Elems(disk) : active' = Branch[b]
  BY RestartChoice
<1>2. /\ UNCHANGED <<disk, early>> /\ known' = Elems(active') /\ up' = TRUE
      /\ held' = {} /\ refused' = {} /\ inHand' = {} /\ phase' = "idle" /\ job' = NoJob
  BY DEF Restart
<1>3. TypeOK'
  <2>1. IsFiniteSet({}) /\ Cardinality({}) = 0
    BY FS_EmptySet
  <2>2. known' \subseteq Blocks
    BY <1>1, <1>2, ElementsAreBlocks
  <2> QED
    BY <1>1, <1>2, <2>1, <2>2, NoJobType, CapacityAssumption DEF IInv, TypeOK, Phases
<1>4. DiskClosed'
  BY <1>2 DEF IInv, DiskClosed, OnDisk
<1>5. \A b \in Elems(active') : Elems(Branch[b]) \subseteq Elems(active')
  <2>1. TAKE b \in Elems(active')
  <2>2. PICK i \in 1..Len(active') : b = active'[i]
    BY DEF Elems
  <2>3. Branch[b] = SubSeq(active', 1, i) /\ i \in 0..Len(active')
    BY <1>1, <2>2, SoundPrefix, ElementsAreBlocks
  <2> QED
    BY <1>1, <2>3, PrefixOfChain
<1>6. IndexMatchesDisk'
  BY <1>1, <1>2, <1>5 DEF IndexMatchesDisk, OnDisk
<1>7. AdoptionIntact'
  BY <1>2 DEF AdoptionIntact
<1> QED
  BY <1>3, <1>4, <1>6, <1>7 DEF IInv
-----------------------------------------------------------------------------
(* The invariant holds *)

\* No step breaks the invariant.
LEMMA NextKeeps == ASSUME IInv, [Next]_vars PROVE IInv'
<1>1. CASE UNCHANGED vars
  <2>1. TypeOK'
    BY <1>1 DEF vars, IInv, TypeOK
  <2> QED
    BY <1>1, <2>1, QuietKeeps DEF vars
<1>2. ASSUME NEW b \in Blocks, SubmitBlock(b) PROVE IInv'
  BY <1>2, SubmitBlockKeeps
<1>3. ASSUME NEW b \in Blocks, PeerBlockOffTip(b) PROVE IInv'
  <2>1. TypeOK'
    BY <1>3 DEF PeerBlockOffTip, IInv, TypeOK
  <2> QED
    BY <1>3, <2>1, QuietKeeps DEF PeerBlockOffTip
<1>4. ASSUME NEW b \in Blocks, ClockReaches(b) PROVE IInv'
  <2>1. TypeOK'
    BY <1>4 DEF ClockReaches, IInv, TypeOK
  <2> QED
    BY <1>4, <2>1, QuietKeeps DEF ClockReaches
<1>5. CASE Crash
  <2>1. TypeOK'
    BY <1>5 DEF Crash, IInv, TypeOK
  <2> QED
    BY <1>5, <2>1, QuietKeeps DEF Crash
<1>6. CASE Adoption
  BY <1>6, PickBranchKeeps, PickNothingKeeps, BeginAdoptKeeps, SubmitNextKeeps,
     SubmitNextRejectedKeeps, FinishAdoptKeeps, SettleKeeps, RefuseKeeps DEF Adoption
<1> QED
  BY <1>1, <1>2, <1>3, <1>4, <1>5, <1>6, HoldBlockKeeps, RestartKeeps DEF Next

\* Every reachable state satisfies the inductive invariant: types, the block
\* file, the index and an adoption under way.
THEOREM Invariant == Spec => []IInv
<1>1. Init => IInv
  BY InitIInv
<1>2. IInv /\ [Next]_vars => IInv'
  BY NextKeeps
<1> QED
  BY <1>1, <1>2, PTL DEF Spec

\* Variables keep their type, and heldBlocks_ and refusedTips_ stay within
\* their capacity.
THEOREM TypeCorrect == Spec => []TypeOK
<1>1. IInv => TypeOK
  BY DEF IInv
<1> QED
  BY <1>1, Invariant, PTL

\* blk*.dat never holds a block without its ancestry, nor a bad one.
THEOREM DiskIsClosed == Spec => []DiskClosed
<1>1. IInv => DiskClosed
  BY DEF IInv
<1> QED
  BY <1>1, Invariant, PTL

\* The active chain is linked and sound, and the index, the active chain and
\* the block file agree.
THEOREM IndexAgrees == Spec => []IndexMatchesDisk
<1>1. IInv => IndexMatchesDisk
  BY DEF IInv
<1> QED
  BY <1>1, Invariant, PTL

\* rpc_adopt_peer_chain works on the chain it means to, and can always go back.
THEOREM AdoptionIsIntact == Spec => []AdoptionIntact
<1>1. IInv => AdoptionIntact
  BY DEF IInv
<1> QED
  BY <1>1, Invariant, PTL
-----------------------------------------------------------------------------
(* Why a branch is given up *)

\* A step into the rejected phase has one of the two causes.
LEMMA RejectionKeeps ==
    ASSUME IInv, RejectedForCause, [Next]_vars PROVE RejectedForCause'
<1> SUFFICES ASSUME phase' = "rejected", Height(job'.tip) > Len(active')
             PROVE  \/ Elems(Branch[job'.tip]) \intersect Bad # {}
                    \/ Branch[job'.tip][job'.fork + 1] \in known'
  BY DEF RejectedForCause
<1>1. CASE BeginAdopt
  <2>1. OnDisk(Ancestor)
    BY <1>1, AncestorFacts DEF BeginAdopt
  <2>2. ~(Height(job.tip) > Len(active)) /\ UNCHANGED <<job, active>>
    BY <1>1, <2>1 DEF BeginAdopt
  <2> QED
    BY <2>2
<1>2. CASE SubmitNextRejected
  <2>1. /\ NextBody \in Blocks
        /\ job.next \in (job.fork + 1)..Height(job.tip)
        /\ NextBody \notin early
        /\ active = SubSeq(Branch[job.tip], 1, job.next - 1) => Extends(NextBody)
    BY <1>2, NextBodyFacts DEF SubmitNextRejected
  <2>2. job' = job /\ known \subseteq known'
    BY <1>2 DEF SubmitNextRejected, ReplayedKnown
  <2>3. CASE NextBody \in Bad
    <3>1. /\ job.tip \in Blocks /\ job.fork \in 1..(Height(job.tip) - 1)
          /\ Height(job.tip) \in Nat
      BY <1>2, AncestorFacts DEF SubmitNextRejected
    <3>2. NextBody \in Elems(Branch[job.tip])
      BY <2>1, <3>1 DEF NextBody, Elems, Height
    <3> QED
      BY <2>2, <2>3, <3>2
  <2>4. CASE NextBody \notin Bad
    <3>1. ~Extends(NextBody)
      BY <1>2, <2>1, <2>4 DEF SubmitNextRejected, Passes
    <3>2. Branch[job.tip][job.fork + 1] \in known
      BY <1>2, <2>1, <3>1 DEF SubmitNextRejected, IInv, AdoptionIntact
    <3> QED
      BY <2>2, <3>2
  <2> QED
    BY <2>3, <2>4
<1>3. ASSUME NEW b \in Blocks, SubmitBlock(b) PROVE RejectedForCause'
  <2>1. /\ active' = Append(active, b) /\ known \subseteq known'
        /\ phase' = phase /\ job' = job
    BY <1>3 DEF SubmitBlock, Store
  <2>2. Height(job.tip) \in Nat /\ Len(active) \in Nat /\ Len(active') = Len(active) + 1
    <3>1. job.tip \in Blocks
      BY DEF IInv, TypeOK, Jobs
    <3> QED
      BY <2>1, <3>1, BranchType DEF IInv, TypeOK, Chains
  <2> QED
    BY <2>1, <2>2 DEF RejectedForCause
<1>4. CASE UNCHANGED <<known, active, phase, job>>
  BY <1>4 DEF RejectedForCause
<1>5. PickBranch \/ SubmitNext \/ FinishAdopt \/ Settle \/ Refuse \/ Restart => phase' # "rejected"
  BY DEF PickBranch, SubmitNext, FinishAdopt, Settle, Refuse, Restart
<1>6. UNCHANGED vars \/ HoldBlock \/ PickNothing \/ Crash => UNCHANGED <<known, active, phase, job>>
  BY DEF vars, HoldBlock, PickNothing, Crash
<1>7. ASSUME NEW b \in Blocks, PeerBlockOffTip(b) \/ ClockReaches(b)
      PROVE  UNCHANGED <<known, active, phase, job>>
  BY <1>7 DEF PeerBlockOffTip, ClockReaches
<1> QED
  BY <1>1, <1>2, <1>3, <1>4, <1>5, <1>6, <1>7 DEF Next, Adoption, RejectedForCause

\* adoptLaterPeerChain gives a taller branch up only for a bad body or for a
\* first body that was stored before.
THEOREM RejectionHasCause == Spec => []RejectedForCause
<1>1. Init => RejectedForCause
  BY DEF Init, RejectedForCause
<1>2. IInv /\ RejectedForCause /\ [Next]_vars => RejectedForCause'
  BY RejectionKeeps
<1> QED
  BY <1>1, <1>2, Invariant, PTL DEF Spec
-----------------------------------------------------------------------------
(* Restart and refinement *)

\* restore_chain leaves no taller stored block behind.
THEOREM RestartIsTallest == Spec => RestartTakesTallest
<1>1. IInv /\ [Next]_vars => [~up /\ up' => \A b \in Elems(disk) : Height(b) <= Len(active')]_vars
  <2>1. SUFFICES ASSUME IInv, [Next]_vars, ~up, up'
                 PROVE  \A b \in Elems(disk) : Height(b) <= Len(active')
    OBVIOUS
  <2>2. Restart
    BY <2>1 DEF vars, Next, Adoption, SubmitBlock, PeerBlockOffTip, ClockReaches,
       HoldBlock, PickBranch, PickNothing, BeginAdopt, SubmitNext,
       SubmitNextRejected, FinishAdopt, Settle, Refuse, Crash
  <2> QED
    BY <2>1, <2>2, RestartChoice
<1> QED
  BY <1>1, Invariant, PTL DEF Spec, RestartTakesTallest
\* A chain that grew by a sound step is a Move of BestChain.
LEMMA MoveStep ==
    ASSUME NEW b \in Blocks, up, up' = up,
           Elems(Branch[b]) \intersect Bad = {},
           Height(b) > Len(Committed), Committed' = Branch[b]
    PROVE  BC!Move
<1>1. BC!Sound(b)
  BY DEF BC!Sound, Elems
<1> QED
  BY <1>1 DEF BC!Move, Height

\* An accepted block on the tip is a Move of BestChain.
LEMMA SubmitBlockRefines ==
    ASSUME IInv, NEW b \in Blocks, SubmitBlock(b) PROVE BC!Move
<1> USE DEF SubmitBlock
<1>1. active' = Branch[b] /\ IndexMatchesDisk' /\ active' = Append(active, b)
  BY StoreKeeps DEF IInv, Passes, Store
<1>2. Elems(Branch[b]) \intersect Bad = {}
  BY <1>1 DEF IndexMatchesDisk, SoundChain
<1>3. Height(b) > Len(active)
  BY <1>1 DEF IInv, TypeOK, Chains, Height
<1>4. Committed = active /\ Committed' = active'
  BY DEF Committed, ChainFree
<1> QED
  BY <1>1, <1>2, <1>3, <1>4, MoveStep

\* When an adoption ends, either the tip is the one it went for, or its only
\* body was a duplicate and the chain is the one it started from.
LEMMA FinishAdoptRefines ==
    ASSUME IInv, FinishAdopt PROVE BC!Move \/ UNCHANGED <<Committed, up>>
<1> USE DEF FinishAdopt
<1>1. /\ job.tip \in Blocks /\ job.old \in Chains /\ job.fork \in Nat
      /\ Height(job.tip) \in Nat /\ Branch[job.tip] \in Chains
      /\ Ancestor = SubSeq(job.old, 1, job.fork)
      /\ job.fork <= Len(job.old) /\ Len(job.old) < Height(job.tip)
      /\ job.fork \in 1..(Height(job.tip) - 1)
  BY AncestorFacts, BranchType DEF IInv, AdoptionIntact
<1>2. job.next = Height(job.tip) + 1
  BY <1>1 DEF IInv, AdoptionIntact
<1>3. Committed = job.old /\ Committed' = active
  BY DEF Committed
<1>4. CASE active = SubSeq(Branch[job.tip], 1, job.next - 1)
  <2>1. active = Branch[job.tip]
    BY <1>1, <1>2, <1>4, WholePrefix DEF Height
  <2>2. Elems(Branch[job.tip]) \intersect Bad = {}
    BY <2>1 DEF IInv, IndexMatchesDisk, SoundChain
  <2>3. BC!Move
    BY <1>1, <1>3, <2>1, <2>2, MoveStep
  <2> QED
    BY <2>3
<1>5. CASE active = Ancestor /\ job.next = job.fork + 2
  <2>1. Len(job.old) = job.fork
    BY <1>1, <1>2, <1>5, ElementsAreBlocks
  <2>2. Ancestor = job.old
    BY <1>1, <2>1, WholePrefix
  <2> QED
    BY <1>3, <1>5, <2>2
<1> QED
  BY <1>4, <1>5 DEF IInv, AdoptionIntact

\* A restart is a Recover of BestChain.
LEMMA RestartRefines == ASSUME IInv, Restart PROVE BC!Recover
<1>1. /\ active' \in Chains /\ SoundChain(active')
      /\ \A b \in Elems(disk) : Height(b) <= Len(active')
      /\ active' = << >> \/ \E b \in Elems(disk) : active' = Branch[b]
  BY RestartChoice
<1>2. ~up /\ up' = TRUE /\ Committed' = active'
  BY DEF Restart, Committed
<1>3. Committed \in Chains /\ SoundChain(Committed) /\ OnDisk(Committed)
  BY DEF Committed, IInv, TypeOK, Jobs, IndexMatchesDisk, AdoptionIntact, OnDisk
<1>4. Len(Committed) <= Len(active')
  <2>1. CASE Committed = << >>
    BY <1>1, <2>1, ElementsAreBlocks
  <2>2. CASE Committed # << >>
    <3>1. /\ Committed[Len(Committed)] \in Elems(Committed)
          /\ Committed = Branch[Committed[Len(Committed)]]
      BY <1>3, <2>2, ElementsAreBlocks DEF SoundChain
    <3>2. Height(Committed[Len(Committed)]) = Len(Committed)
      BY <3>1 DEF Height
    <3> QED
      BY <1>1, <1>3, <3>1, <3>2 DEF OnDisk
  <2> QED
    BY <2>1, <2>2
<1>5. CASE active' = << >>
  <2>1. Len(Committed) = 0
    BY <1>3, <1>4, <1>5, ElementsAreBlocks
  <2>2. Committed' = Committed
    BY <1>2, <1>3, <1>5, <2>1, ElementsAreBlocks
  <2> QED
    BY <1>2, <2>2 DEF BC!Recover
<1>6. CASE \E b \in Elems(disk) : active' = Branch[b]
  <2>1. PICK b \in Elems(disk) : active' = Branch[b]
    BY <1>6
  <2>2. b \in Blocks
    BY ElementsAreBlocks DEF IInv, TypeOK
  <2>3. BC!Sound(b)
    BY <1>1, <2>1 DEF BC!Sound, SoundChain, Elems
  <2>4. Len(Branch[b]) >= Len(Committed)
    BY <1>1, <1>3, <1>4, <2>1, ElementsAreBlocks
  <2> QED
    BY <1>2, <2>1, <2>2, <2>3, <2>4 DEF BC!Recover
<1> QED
  BY <1>1, <1>5, <1>6

\* An adoption leaves the committed chain alone until it ends.
LEMMA AdoptionRefines ==
    ASSUME IInv, Adoption PROVE BC!Move \/ UNCHANGED <<Committed, up>>
<1>1. CASE BeginAdopt
  <2>1. up' = up /\ Committed = active
    BY <1>1 DEF BeginAdopt, Committed
  <2>2. CASE phase' = "applying"
    <3>1. job' = [job EXCEPT !.old = active]
      BY <1>1, <2>2 DEF BeginAdopt
    <3>2. job'.old = active
      BY <3>1 DEF IInv, TypeOK, Jobs
    <3> QED
      BY <2>1, <2>2, <3>2 DEF Committed
  <2>3. CASE phase' # "applying"
    BY <1>1, <2>1, <2>3 DEF BeginAdopt, Committed
  <2> QED
    BY <2>2, <2>3
<1>2. CASE SubmitNext
  <2>1. phase' = phase /\ phase = "applying" /\ up' = up /\ job'.old = job.old
    BY <1>2 DEF SubmitNext, IInv, TypeOK, Jobs
  <2> QED
    BY <2>1 DEF Committed
<1>3. CASE SubmitNextRejected
  <2>1. active' = job.old /\ phase' = "rejected" /\ phase = "applying" /\ up' = up
    BY <1>3 DEF SubmitNextRejected, IInv, AdoptionIntact, ReplayedActive
  <2> QED
    BY <2>1 DEF Committed
<1>4. CASE PickBranch \/ PickNothing \/ Settle \/ Refuse
  <2>1. phase # "applying" /\ phase' # "applying" /\ UNCHANGED <<active, up>>
    BY <1>4 DEF PickBranch, PickNothing, Settle, Refuse
  <2> QED
    BY <2>1 DEF Committed
<1> QED
  BY <1>1, <1>2, <1>3, <1>4, FinishAdoptRefines DEF Adoption

\* Every step of the node is a step or a stutter of BestChain.
LEMMA NextRefines ==
    ASSUME IInv, [Next]_vars PROVE BC!Next \/ UNCHANGED <<Committed, up>>
<1>1. CASE UNCHANGED vars
  BY <1>1 DEF vars, Committed
<1>2. ASSUME NEW b \in Blocks, PeerBlockOffTip(b) \/ ClockReaches(b)
      PROVE  UNCHANGED <<Committed, up>>
  BY <1>2 DEF PeerBlockOffTip, ClockReaches, Committed
<1>3. CASE HoldBlock
  BY <1>3 DEF HoldBlock, Committed
<1>4. CASE Crash
  <2>1. BC!Stop
    BY <1>4 DEF Crash, BC!Stop, Committed
  <2> QED
    BY <2>1 DEF BC!Next
<1> QED
  BY <1>1, <1>2, <1>3, <1>4, SubmitBlockRefines, AdoptionRefines, RestartRefines
     DEF Next, BC!Next

\* The node's committed chain behaves as BestChain says: while the node runs it
\* only gives way to a sound, strictly taller chain, and a restart never comes
\* back with a shorter one.
THEOREM NodeRefinesBestChain == Spec => BestChainSpec
<1>1. Init => BC!Init
  BY DEF Init, BC!Init, Committed
<1>2. IInv /\ [Next]_vars => [BC!Next]_(BC!chainVars)
  BY NextRefines DEF BC!chainVars
<1> QED
  BY <1>1, <1>2, Invariant, PTL DEF Spec, BestChainSpec, BC!Spec
=============================================================================
