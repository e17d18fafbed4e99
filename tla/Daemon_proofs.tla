--------------------------- MODULE Daemon_proofs ---------------------------
(***************************************************************************)
(* The parts of a daemon that work by themselves.  Dialing: the limits on  *)
(* its peers hold up to what the dialing threads add between counting and  *)
(* connecting, for every set of addresses and every limit.  WsServer: a    *)
(* client is answered once and in order, for every request, every cap and  *)
(* every way to cut a request into pieces.  Challenges: mining work that   *)
(* was handed out stands, for every number of miners, every first height   *)
(* with a challenge and every lead of the clock.  BlockFile: what a daemon *)
(* appended it reads back, and a scan finds every whole frame that no torn *)
(* one reaches over, for any blocks, sizes and crashes; the scan is a      *)
(* fold, and the proof goes by induction over the places of a file.        *)
(* FlagBook: the escrow balances and nobody is paid twice, for every set   *)
(* of transactions and every width of the amounts.                         *)
(***************************************************************************)
EXTENDS Dialing, WsServer, Challenges, BlockFile, FlagBook, FiniteSetTheorems, TLAPS

-----------------------------------------------------------------------------
(* Dialing: the connections counted and to come *)

\* The threads that counted and may still add a connection.
Pending == {t \in DialThreads : at[t].step \in {"select", "dial", "connected"}}

\* Connections and dials under way stay within the limit but for the dialers
\* that counted at the same time; who is let in is counted in.
Counted ==
    /\ IsFiniteSet(OpenPeers)
    /\ OutboundCount + Cardinality(Pending) <= MaxOutbound + Cardinality(DialThreads) - 1
    /\ inbound <= MaxPeers /\ (accepting => inbound < MaxPeers)

\* The last failure before a ban leaves the address list locked.
BanLocks == addrLock = Free => \A a \in DOMAIN failures : failures[a] < BanAt

DialInv == DialTypeOK /\ BanLocks /\ Counted

DialingLimits == {MaxOutbound, MaxPeers, SelectBelow, BanAt} \subseteq Nat \ {0}

\* The dialing threads are finitely many, and so are those that counted.
LEMMA Dialers ==
    /\ IsFiniteSet(DialThreads) /\ Cardinality(DialThreads) \in Nat
    /\ \A T \in SUBSET DialThreads : IsFiniteSet(T) /\ Cardinality(T) \in Nat
                                     /\ Cardinality(T) <= Cardinality(DialThreads)
    /\ Cardinality(DialThreads) > 0
<1>1. DialThreads = (({} \cup {Conn}) \cup {Beat}) \cup {Msg}
  BY DEF DialThreads
<1>2. IsFiniteSet(DialThreads)
  <2>1. IsFiniteSet({} \cup {Conn})
    BY FS_EmptySet, FS_AddElement
  <2>2. IsFiniteSet(({} \cup {Conn}) \cup {Beat})
    BY <2>1, FS_AddElement
  <2> QED
    BY <1>1, <2>2, FS_AddElement
<1>3. Cardinality(DialThreads) \in Nat
  BY <1>2, FS_CardinalityType
<1>4. ASSUME NEW T \in SUBSET DialThreads
      PROVE  IsFiniteSet(T) /\ Cardinality(T) \in Nat
             /\ Cardinality(T) <= Cardinality(DialThreads)
  BY <1>2, <1>4, FS_Subset, FS_CardinalityType
<1>5. Cardinality(DialThreads) # 0
  BY <1>1, <1>2, FS_EmptySet
<1> QED
  BY <1>2, <1>3, <1>4, <1>5

\* The set of peers after one more connection to an address.
LEMMA OnePeerMore ==
    ASSUME DialTypeOK, IsFiniteSet(OpenPeers), NEW a \in Addrs,
           out' = [out EXCEPT ![a] = @ + 1]
    PROVE  IsFiniteSet(OpenPeers)' /\ OpenOut' = OpenOut + 1
<1> DEFINE p == <<a, out[a] + 1>>
<1>1. out \in [Addrs -> Nat] /\ out[a] \in Nat
  BY DEF DialTypeOK
<1>2. OpenPeers' = OpenPeers \cup {p}
  <2>1. ASSUME NEW q PROVE q \in OpenPeers' <=> q \in OpenPeers \cup {p}
    <3>1. q \in OpenPeers' <=> \E b \in Addrs : \E i \in 1..out'[b] : q = <<b, i>>
      BY DEF OpenPeers
    <3>2. q \in OpenPeers <=> \E b \in Addrs : \E i \in 1..out[b] : q = <<b, i>>
      BY DEF OpenPeers
    <3>3. \A b \in Addrs : out'[b] = IF b = a THEN out[a] + 1 ELSE out[b]
      BY <1>1
    <3>4. \A i : i \in 1..(out[a] + 1) <=> i \in 1..out[a] \/ i = out[a] + 1
      BY <1>1
    <3> QED
      BY <3>1, <3>2, <3>3, <3>4
  <2> QED
    BY <2>1
<1>3. p \notin OpenPeers
  BY <1>1 DEF OpenPeers
<1> HIDE DEF p
<1> QED
  BY <1>2, <1>3, FS_AddElement DEF OpenOut

\* The set of peers after a connection to an address has ended.
LEMMA OnePeerLess ==
    ASSUME DialTypeOK, IsFiniteSet(OpenPeers), NEW a \in Addrs, out[a] > 0,
           out' = [out EXCEPT ![a] = @ - 1]
    PROVE  IsFiniteSet(OpenPeers)' /\ OpenOut' = OpenOut - 1
<1> DEFINE p == <<a, out[a]>>
<1>1. out \in [Addrs -> Nat] /\ out[a] \in Nat
  BY DEF DialTypeOK
<1>2. OpenPeers' = OpenPeers \ {p}
  <2>1. ASSUME NEW q PROVE q \in OpenPeers' <=> q \in OpenPeers \ {p}
    <3>1. q \in OpenPeers' <=> \E b \in Addrs : \E i \in 1..out'[b] : q = <<b, i>>
      BY DEF OpenPeers
    <3>2. q \in OpenPeers <=> \E b \in Addrs : \E i \in 1..out[b] : q = <<b, i>>
      BY DEF OpenPeers
    <3>3. \A b \in Addrs : out'[b] = IF b = a THEN out[a] - 1 ELSE out[b]
      BY <1>1
    <3>4. \A i : i \in 1..(out[a] - 1) <=> i \in 1..out[a] /\ i # out[a]
      BY <1>1
    <3> QED
      BY <3>1, <3>2, <3>3, <3>4
  <2> QED
    BY <2>1
<1>3. p \in OpenPeers
  BY <1>1 DEF OpenPeers
<1> HIDE DEF p
<1> QED
  BY <1>2, <1>3, FS_RemoveElement DEF OpenOut

\* The counts are natural numbers.
LEMMA Counts ==
    ASSUME DialInv
    PROVE  /\ OpenOut \in Nat /\ shut \in Nat /\ inbound \in Nat
           /\ OutboundCount = OpenOut + shut
           /\ MaxOutbound \in Nat \ {0} /\ MaxPeers \in Nat \ {0} /\ BanAt \in Nat \ {0}
           /\ Pending \subseteq DialThreads /\ Cardinality(Pending) \in Nat
           /\ Cardinality(Pending) <= Cardinality(DialThreads)
BY FS_CardinalityType, Dialers, DialingAssumption
   DEF DialInv, DialTypeOK, Counted, OpenOut, OutboundCount, Pending

\* A thread at a step that leads to a connection is pending, at another it is not.
LEMMA StepPends ==
    ASSUME DialTypeOK, NEW t \in DialThreads, NEW s \in Steps,
           NEW addr \in SUBSET Addrs, NEW todo \in SUBSET Addrs, Goes(t, s, addr, todo)
    PROVE  /\ at' \in [DialThreads -> [step : Steps, addr : SUBSET Addrs, todo : SUBSET Addrs]]
           /\ Pending' = IF s \in {"select", "dial", "connected"}
                         THEN Pending \cup {t} ELSE Pending \ {t}
           /\ Cardinality(Pending') <= Cardinality(DialThreads)
           /\ Cardinality(Pending') \in Nat
           /\ s \notin {"select", "dial", "connected"} \/ t \in Pending
                => Cardinality(Pending') <= Cardinality(Pending)
           /\ s \notin {"select", "dial", "connected"} /\ t \in Pending
                => Cardinality(Pending') = Cardinality(Pending) - 1
<1> DEFINE new == [step |-> s, addr |-> addr, todo |-> todo]
<1>1. at' = [at EXCEPT ![t] = new]
  BY DEF Goes
<1>2. new.step = s /\ new \in [step : Steps, addr : SUBSET Addrs, todo : SUBSET Addrs]
  OBVIOUS
<1> HIDE DEF new
<1>3. /\ at' \in [DialThreads -> [step : Steps, addr : SUBSET Addrs, todo : SUBSET Addrs]]
      /\ at'[t].step = s /\ \A u \in DialThreads \ {t} : at'[u] = at[u]
  BY <1>1, <1>2 DEF DialTypeOK
<1>4. Pending' = IF s \in {"select", "dial", "connected"}
                 THEN Pending \cup {t} ELSE Pending \ {t}
  BY <1>3 DEF Pending
<1>5. Pending' \subseteq DialThreads /\ Pending \subseteq DialThreads
  BY <1>4 DEF Pending
<1>6. IsFiniteSet(Pending) /\ Cardinality(Pending) \in Nat
  BY <1>5, Dialers
<1>7. Cardinality(Pending \ {t}) = IF t \in Pending THEN Cardinality(Pending) - 1
                                   ELSE Cardinality(Pending)
  BY <1>6, FS_RemoveElement
<1>8. t \in Pending => Pending \cup {t} = Pending
  OBVIOUS
<1> QED
  BY <1>3, <1>4, <1>5, <1>6, <1>7, <1>8, Dialers

\* A thread that goes on without a new dial keeps what was counted.
LEMMA GoingOn ==
    ASSUME DialInv, NEW t \in DialThreads, NEW s \in Steps,
           NEW addr \in SUBSET Addrs, NEW todo \in SUBSET Addrs, Goes(t, s, addr, todo),
           s \in {"select", "dial", "connected"}
             => t \in Pending \/ OutboundCount < MaxOutbound,
           UNCHANGED <<failures, banned, listed, out, shut, inbound, accepting, addrLock, peersLock>>
    PROVE  DialInv'
<1>1. /\ at' \in [DialThreads -> [step : Steps, addr : SUBSET Addrs, todo : SUBSET Addrs]]
      /\ Cardinality(Pending') <= Cardinality(DialThreads) /\ Cardinality(Pending') \in Nat
      /\ s \notin {"select", "dial", "connected"} \/ t \in Pending
           => Cardinality(Pending') <= Cardinality(Pending)
  BY StepPends DEF DialInv
<1>2. /\ OpenOut \in Nat /\ shut \in Nat /\ Cardinality(Pending) \in Nat
      /\ OutboundCount = OpenOut + shut /\ MaxOutbound \in Nat
      /\ Cardinality(DialThreads) \in Nat
  BY Counts, Dialers
<1>3. OpenPeers' = OpenPeers /\ OpenOut' = OpenOut /\ OutboundCount' = OutboundCount
  BY DEF OpenPeers, OpenOut, OutboundCount
<1>4. OutboundCount' + Cardinality(Pending') <= MaxOutbound + Cardinality(DialThreads) - 1
  BY <1>1, <1>2, <1>3 DEF DialInv, Counted
<1>5. DialTypeOK'
  BY <1>1 DEF DialInv, DialTypeOK
<1>6. BanLocks'
  BY DEF DialInv, BanLocks
<1>7. Counted'
  BY <1>3, <1>4 DEF DialInv, Counted, DialThreads
<1> QED
  BY <1>5, <1>6, <1>7 DEF DialInv

\* The threads are told apart by their names only where the code needs it.
LEMMA ThreadFacts ==
    /\ Conn \in DialThreads /\ Beat \in DialThreads /\ Msg \in DialThreads
    /\ \A s \in {"idle", "select", "targets", "dial", "failed", "banning", "connected",
                 "attempt"} : s \in Steps
    /\ {} \in SUBSET Addrs
BY DEF DialThreads, Steps

LEMMA ConnectLoopKeeps == ASSUME DialInv, ConnectLoop PROVE DialInv'
BY GoingOn, ThreadFacts DEF ConnectLoop

LEMMA SelectKeeps == ASSUME DialInv, Select PROVE DialInv'
<1>1. Conn \in Pending
  BY ThreadFacts DEF Select, Pending
<1>2. DOMAIN failures \subseteq Addrs
  BY DEF DialInv, DialTypeOK
<1>3. UNCHANGED <<failures, banned, listed, out, shut, inbound, accepting, addrLock, peersLock>>
  BY DEF Select
<1>4. CASE Goes(Conn, "idle", {}, {})
  BY <1>1, <1>3, <1>4, GoingOn, ThreadFacts
<1>5. ASSUME NEW a \in DOMAIN failures, Goes(Conn, "dial", {a}, {}) PROVE DialInv'
  <2>1. {a} \in SUBSET Addrs
    BY <1>2
  <2> QED
    BY <1>1, <1>3, <1>5, <2>1, GoingOn, ThreadFacts
<1> QED
  BY <1>4, <1>5 DEF Select

LEMMA ExchangeKeeps ==
    ASSUME DialInv, NEW t \in DialThreads, ExchangeAddresses(t) PROVE DialInv'
<1>1. DOMAIN failures \ banned \in SUBSET Addrs
  BY DEF DialInv, DialTypeOK
<1>2. UNCHANGED <<failures, banned, listed, out, shut, inbound, accepting, addrLock, peersLock>>
  BY DEF ExchangeAddresses
<1>3. Goes(t, "targets", {}, DOMAIN failures \ banned)
  BY DEF ExchangeAddresses
<1> QED
  BY <1>1, <1>2, <1>3, GoingOn, ThreadFacts

LEMMA RefreshKeeps == ASSUME DialInv, RefreshBootstrapHints PROVE DialInv'
<1>1. listed \in SUBSET Addrs
  BY DialingAssumption DEF DialInv, DialTypeOK
<1>2. UNCHANGED <<failures, banned, listed, out, shut, inbound, accepting, addrLock, peersLock>>
  BY DEF RefreshBootstrapHints
<1>3. Goes(Beat, "targets", {}, listed)
  BY DEF RefreshBootstrapHints
<1> QED
  BY <1>1, <1>2, <1>3, GoingOn, ThreadFacts

\* Only below the limit does a thread take up a target.
LEMMA DialTargetsKeeps ==
    ASSUME DialInv, NEW t \in DialThreads, DialTargets(t) PROVE DialInv'
<1>1. UNCHANGED <<failures, banned, listed, out, shut, inbound, accepting, addrLock, peersLock>>
  BY DEF DialTargets
<1>2. at[t].todo \in SUBSET Addrs /\ \A a \in at[t].todo :
         at[t].todo \ {a} \in SUBSET Addrs /\ {a} \in SUBSET Addrs
  BY DEF DialInv, DialTypeOK
<1>3. CASE Goes(t, "idle", {}, {})
  BY <1>1, <1>3, GoingOn, ThreadFacts
<1>4. ASSUME NEW a \in at[t].todo, NextTarget(t, a) PROVE DialInv'
  <2>1. CASE Goes(t, "targets", {}, at[t].todo \ {a})
    BY <1>1, <1>2, <2>1, GoingOn, ThreadFacts
  <2>2. CASE Goes(t, "dial", {a}, at[t].todo \ {a}) /\ ~(OutboundCount >= MaxOutbound)
    <3>1. OutboundCount < MaxOutbound
      BY <2>2, Counts
    <3>2. {a} \in SUBSET Addrs /\ at[t].todo \ {a} \in SUBSET Addrs
      BY <1>2
    <3> QED
      BY <1>1, <2>2, <3>1, <3>2, GoingOn, ThreadFacts
  <2> QED
    BY <1>3, <1>4, <2>1, <2>2 DEF NextTarget
<1> QED
  BY <1>3, <1>4 DEF DialTargets

\* A return to the caller is a step that is not pending.
LEMMA Returning ==
    ASSUME DialTypeOK, NEW t \in DialThreads, Returns(t)
    PROVE  \E s \in {"idle", "targets"} : \E todo \in SUBSET Addrs : Goes(t, s, {}, todo)
<1>1. at[t].todo \in SUBSET Addrs /\ {} \in SUBSET Addrs
  BY DEF DialTypeOK
<1> QED
  BY <1>1 DEF Returns

LEMMA ConnectKeeps == ASSUME DialInv, NEW t \in DialThreads, Connect(t) PROVE DialInv'
<1>1. UNCHANGED <<failures, banned, listed, out, shut, inbound, accepting, addrLock, peersLock>>
  BY DEF Connect
<1>2. t \in Pending
  BY DEF Connect, Pending
<1>3. at[t].addr \in SUBSET Addrs /\ at[t].todo \in SUBSET Addrs /\ DialTypeOK
  BY DEF DialInv, DialTypeOK
<1>4. PICK a \in at[t].addr :
         IF Kind[a] = "own" THEN Returns(t)
         ELSE Goes(t, IF Host[a] = "silent" THEN "failed" ELSE "connected", {a}, at[t].todo)
  BY DEF Connect
<1>5. CASE Returns(t)
  <2>1. PICK s \in {"idle", "targets"}, todo \in SUBSET Addrs : Goes(t, s, {}, todo)
    BY <1>3, <1>5, Returning
  <2>2. s \in Steps /\ s \notin {"select", "dial", "connected"}
    BY DEF Steps
  <2> QED
    BY <1>1, <2>1, <2>2, GoingOn, ThreadFacts
<1>6. CASE Goes(t, IF Host[a] = "silent" THEN "failed" ELSE "connected", {a}, at[t].todo)
  <2>1. {a} \in SUBSET Addrs
    BY <1>3
  <2>2. (IF Host[a] = "silent" THEN "failed" ELSE "connected") \in Steps
    BY DEF Steps
  <2> QED
    BY <1>1, <1>2, <1>3, <1>6, <2>1, <2>2, GoingOn
<1> QED
  BY <1>4, <1>5, <1>6

\* What stays when thread t moves to step s without counting again.
LEMMA Moving ==
    ASSUME DialInv, NEW t \in DialThreads, NEW s \in Steps,
           NEW addr \in SUBSET Addrs, NEW todo \in SUBSET Addrs, Goes(t, s, addr, todo),
           s \notin {"select", "dial", "connected"},
           UNCHANGED <<out, shut, inbound, accepting>>
    PROVE  /\ at' \in [DialThreads -> [step : Steps, addr : SUBSET Addrs, todo : SUBSET Addrs]]
           /\ Counted'
<1>1. /\ at' \in [DialThreads -> [step : Steps, addr : SUBSET Addrs, todo : SUBSET Addrs]]
      /\ Cardinality(Pending') \in Nat
      /\ Cardinality(Pending') <= Cardinality(Pending)
  BY StepPends DEF DialInv
<1>2. /\ OpenOut \in Nat /\ shut \in Nat /\ Cardinality(Pending) \in Nat
      /\ OutboundCount = OpenOut + shut /\ MaxOutbound \in Nat
      /\ Cardinality(DialThreads) \in Nat
  BY Counts, Dialers
<1>3. OpenPeers' = OpenPeers /\ OpenOut' = OpenOut /\ OutboundCount' = OutboundCount
  BY DEF OpenPeers, OpenOut, OutboundCount
<1>4. OutboundCount' + Cardinality(Pending') <= MaxOutbound + Cardinality(DialThreads) - 1
  BY <1>1, <1>2, <1>3 DEF DialInv, Counted
<1> QED
  BY <1>1, <1>3, <1>4 DEF DialInv, Counted, DialThreads

\* One more failure stays within the bound: at the bound the list is locked.
LEMMA MarkFailureKeeps == ASSUME DialInv, NEW t \in DialThreads, MarkFailure(t) PROVE DialInv'
<1>1. /\ at[t].step = "failed" /\ addrLock = Free
      /\ UNCHANGED <<banned, listed, out, shut, inbound, accepting, peersLock>>
  BY DEF MarkFailure
<1>2. PICK a \in at[t].addr :
         /\ failures' = [b \in DOMAIN failures |-> failures[b] + (IF b = a THEN 1 ELSE 0)]
         /\ IF a \in DOMAIN failures /\ failures[a] + 1 >= BanAt
            THEN addrLock' = t /\ Goes(t, "banning", {a}, at[t].todo)
            ELSE addrLock' = addrLock /\ Returns(t)
  BY DEF MarkFailure
<1>3. at[t].addr \in SUBSET Addrs /\ at[t].todo \in SUBSET Addrs /\ {a} \in SUBSET Addrs
  BY DEF DialInv, DialTypeOK
<1>4. BanAt \in Nat /\ Free \notin DialThreads
  BY DialingAssumption
<1>5. \A b \in DOMAIN failures : failures[b] \in Nat /\ failures[b] < BanAt
  BY <1>1 DEF DialInv, DialTypeOK, BanLocks
<1>6. /\ DOMAIN failures' = DOMAIN failures /\ DOMAIN failures' \subseteq Addrs
      /\ failures' \in [DOMAIN failures' -> 0..BanAt]
  <2>1. DOMAIN failures' = DOMAIN failures
    BY <1>2
  <2>2. \A b \in DOMAIN failures : failures'[b] \in 0..BanAt
    BY <1>2, <1>4, <1>5
  <2> QED
    BY <1>2, <2>1, <2>2 DEF DialInv, DialTypeOK
<1>7. CASE a \in DOMAIN failures /\ failures[a] + 1 >= BanAt
  <2>1. addrLock' = t /\ Goes(t, "banning", {a}, at[t].todo)
    BY <1>2, <1>7
  <2>2. "banning" \in Steps
    BY DEF Steps
  <2>3. /\ at' \in [DialThreads -> [step : Steps, addr : SUBSET Addrs, todo : SUBSET Addrs]]
        /\ Counted'
    BY <1>1, <1>3, <2>1, <2>2, Moving
  <2>4. BanLocks'
    BY <1>4, <2>1 DEF BanLocks
  <2>5. DialTypeOK'
    BY <1>1, <1>6, <2>1, <2>3 DEF DialInv, DialTypeOK
  <2> QED
    BY <2>3, <2>4, <2>5 DEF DialInv
<1>8. CASE ~(a \in DOMAIN failures /\ failures[a] + 1 >= BanAt)
  <2>1. addrLock' = addrLock /\ Returns(t)
    BY <1>2, <1>8
  <2>2. PICK s \in {"idle", "targets"}, todo \in SUBSET Addrs : Goes(t, s, {}, todo)
    BY <2>1, Returning DEF DialInv
  <2>3. s \in Steps /\ s \notin {"select", "dial", "connected"} /\ {} \in SUBSET Addrs
    BY DEF Steps
  <2>4. /\ at' \in [DialThreads -> [step : Steps, addr : SUBSET Addrs, todo : SUBSET Addrs]]
        /\ Counted'
    BY <1>1, <2>2, <2>3, Moving
  <2>5. BanLocks'
    BY <1>2, <1>4, <1>5, <1>8 DEF BanLocks
  <2>6. DialTypeOK'
    BY <1>1, <1>6, <2>1, <2>4 DEF DialInv, DialTypeOK
  <2> QED
    BY <2>4, <2>5, <2>6 DEF DialInv
<1> QED
  BY <1>7, <1>8

\* A connection takes the place of the dial that was counted.
LEMMA AddPeerKeeps == ASSUME DialInv, NEW t \in DialThreads, AddPeer(t) PROVE DialInv'
<1>1. /\ at[t].step = "connected" /\ peersLock' = t
      /\ UNCHANGED <<failures, banned, listed, inbound, accepting, addrLock>>
  BY DEF AddPeer
<1>2. PICK a \in at[t].addr :
         /\ IF Host[a] = "answers"
            THEN out' = [out EXCEPT ![a] = @ + 1] /\ shut' = shut
            ELSE out' = out /\ shut' = shut + 1
         /\ Goes(t, "attempt", {a}, at[t].todo)
  BY DEF AddPeer
<1>3. a \in Addrs /\ at[t].todo \in SUBSET Addrs /\ {a} \in SUBSET Addrs /\ "attempt" \in Steps
  BY DEF DialInv, DialTypeOK, Steps
<1>4. t \in Pending
  BY <1>1 DEF Pending
<1>5. /\ at' \in [DialThreads -> [step : Steps, addr : SUBSET Addrs, todo : SUBSET Addrs]]
      /\ Cardinality(Pending') = Cardinality(Pending) - 1
  BY <1>2, <1>3, <1>4, StepPends DEF DialInv
<1>6. /\ OpenOut \in Nat /\ shut \in Nat /\ Cardinality(Pending) \in Nat
      /\ OutboundCount = OpenOut + shut /\ MaxOutbound \in Nat
      /\ Cardinality(DialThreads) \in Nat
  BY Counts, Dialers
<1>7. OutboundCount' = OutboundCount + 1 /\ IsFiniteSet(OpenPeers)' /\ shut' \in Nat
      /\ out' \in [Addrs -> Nat]
  <2>1. CASE Host[a] = "answers"
    <3>1. IsFiniteSet(OpenPeers)' /\ OpenOut' = OpenOut + 1
      BY <1>2, <1>3, <2>1, OnePeerMore DEF DialInv, Counted
    <3> QED
      BY <1>2, <1>3, <1>6, <2>1, <3>1 DEF OutboundCount, DialInv, DialTypeOK
  <2>2. CASE Host[a] # "answers"
    <3>1. OpenPeers' = OpenPeers /\ OpenOut' = OpenOut
      BY <1>2, <2>2 DEF OpenPeers, OpenOut
    <3> QED
      BY <1>2, <1>6, <2>2, <3>1 DEF OutboundCount, DialInv, DialTypeOK, Counted
  <2> QED
    BY <2>1, <2>2
<1>8. OutboundCount' + Cardinality(Pending') <= MaxOutbound + Cardinality(DialThreads) - 1
  BY <1>5, <1>6, <1>7 DEF DialInv, Counted
<1>9. DialTypeOK'
  BY <1>1, <1>5, <1>7 DEF DialInv, DialTypeOK
<1>10. BanLocks' /\ Counted'
  BY <1>1, <1>7, <1>8 DEF DialInv, BanLocks, Counted, DialThreads
<1> QED
  BY <1>9, <1>10 DEF DialInv

LEMMA MarkAttemptKeeps == ASSUME DialInv, NEW t \in DialThreads, MarkAttempt(t) PROVE DialInv'
<1>1. PICK s \in {"idle", "targets"}, todo \in SUBSET Addrs : Goes(t, s, {}, todo)
  BY Returning DEF DialInv, MarkAttempt
<1>2. s \in Steps /\ s \notin {"select", "dial", "connected"} /\ {} \in SUBSET Addrs
  BY DEF Steps
<1>3. UNCHANGED <<failures, banned, listed, out, shut, inbound, accepting, addrLock>>
      /\ peersLock' = Free
  BY DEF MarkAttempt
<1>4. /\ at' \in [DialThreads -> [step : Steps, addr : SUBSET Addrs, todo : SUBSET Addrs]]
      /\ Counted'
  BY <1>1, <1>2, <1>3, Moving
<1>5. DialTypeOK' /\ BanLocks'
  BY <1>3, <1>4 DEF DialInv, DialTypeOK, BanLocks
<1> QED
  BY <1>4, <1>5 DEF DialInv

\* New addresses begin without failures.
LEMMA HandleAddrKeeps == ASSUME DialInv, HandleAddr PROVE DialInv'
<1>1. UNCHANGED <<banned, listed, out, shut, inbound, accepting, addrLock, peersLock>>
  BY DEF HandleAddr
<1>2. PICK addrs \in SUBSET Told :
         /\ failures' = [a \in DOMAIN failures \union (addrs \ banned) |->
                           IF a \in DOMAIN failures THEN failures[a] ELSE 0]
         /\ Goes(Msg, "targets", {}, addrs)
  BY DEF HandleAddr
<1>3. addrs \in SUBSET Addrs /\ BanAt \in Nat \ {0}
  BY DialingAssumption
<1>4. /\ at' \in [DialThreads -> [step : Steps, addr : SUBSET Addrs, todo : SUBSET Addrs]]
      /\ Counted'
  BY <1>1, <1>2, <1>3, Moving, ThreadFacts
<1>5. DOMAIN failures' = DOMAIN failures \union (addrs \ banned)
  BY <1>2
<1>6. \A a \in DOMAIN failures' : failures'[a] = IF a \in DOMAIN failures THEN failures[a] ELSE 0
  BY <1>2
<1>7. /\ DOMAIN failures' \subseteq Addrs
      /\ failures' \in [DOMAIN failures' -> 0..BanAt]
  <2>1. \A a \in DOMAIN failures' : failures'[a] \in 0..BanAt
    BY <1>3, <1>6 DEF DialInv, DialTypeOK
  <2>2. failures' = [a \in DOMAIN failures' |-> failures'[a]]
    BY <1>2
  <2> QED
    BY <1>3, <1>5, <2>1, <2>2 DEF DialInv, DialTypeOK
<1>8. BanLocks'
  BY <1>1, <1>3, <1>6 DEF DialInv, BanLocks
<1>9. DialTypeOK'
  BY <1>1, <1>4, <1>7 DEF DialInv, DialTypeOK
<1> QED
  BY <1>4, <1>8, <1>9 DEF DialInv

LEMMA JoinKeeps == ASSUME DialInv, NEW a \in Addrs, Join(a) PROVE DialInv'
<1>1. listed' = listed \union {a} /\ a \in Directory
      /\ UNCHANGED <<failures, banned, out, shut, inbound, accepting, at, addrLock, peersLock>>
  BY DEF Join
<1>2. OpenPeers' = OpenPeers /\ Pending' = Pending
  BY <1>1 DEF OpenPeers, Pending
<1>3. OutboundCount' = OutboundCount
  BY <1>1, <1>2 DEF OutboundCount, OpenOut
<1> QED
  BY <1>1, <1>2, <1>3 DEF DialInv, DialTypeOK, BanLocks, Counted, DialThreads

\* The place of an accepted connection was free when it was looked for.
LEMMA AcceptKeeps ==
    ASSUME DialInv, ShouldAcceptConnection \/ AcceptConnection PROVE DialInv'
<1>1. /\ OpenOut \in Nat /\ shut \in Nat /\ inbound \in Nat /\ OutboundCount = OpenOut + shut
      /\ MaxPeers \in Nat
  BY Counts
<1>2. UNCHANGED <<failures, banned, listed, out, shut, at, addrLock, peersLock>>
  BY DEF ShouldAcceptConnection, AcceptConnection
<1>3. OpenPeers' = OpenPeers /\ Pending' = Pending
  BY <1>2 DEF OpenPeers, Pending
<1>4. OutboundCount' = OutboundCount
  BY <1>2, <1>3 DEF OutboundCount, OpenOut
<1>5. CASE ShouldAcceptConnection
  <2>1. inbound' = inbound /\ accepting' = TRUE /\ inbound < MaxPeers
    BY <1>1, <1>5 DEF ShouldAcceptConnection
  <2> QED
    BY <1>1, <1>2, <1>3, <1>4, <2>1
       DEF DialInv, DialTypeOK, BanLocks, Counted, DialThreads
<1>6. CASE AcceptConnection
  <2>1. inbound' = inbound + 1 /\ accepting' = FALSE /\ inbound + 1 <= MaxPeers
    BY <1>1, <1>6 DEF AcceptConnection, DialInv, Counted
  <2>2. inbound' <= MaxPeers /\ (accepting' => inbound' < MaxPeers) /\ inbound' \in Nat
    BY <1>1, <2>1
  <2>3. Counted'
    BY <1>2, <1>3, <1>4, <2>2 DEF DialInv, Counted, DialThreads
  <2>4. DialTypeOK' /\ BanLocks'
    BY <1>2, <2>1, <2>2 DEF DialInv, DialTypeOK, BanLocks
  <2> QED
    BY <2>3, <2>4 DEF DialInv
<1> QED
  BY <1>5, <1>6

\* A connection that ended is counted until it is removed.
LEMMA ClosingKeeps ==
    ASSUME DialInv, NEW a \in Addrs, Close(a) \/ BanPeer(a) PROVE DialInv'
<1>1. /\ out[a] > 0 /\ out' = [out EXCEPT ![a] = @ - 1] /\ shut' = shut + 1
      /\ banned' = banned \/ banned' = banned \union {a}
      /\ UNCHANGED <<failures, listed, inbound, accepting, at, addrLock, peersLock>>
  BY DEF Close, BanPeer
<1>2. IsFiniteSet(OpenPeers)' /\ OpenOut' = OpenOut - 1
  BY <1>1, OnePeerLess DEF DialInv, Counted
<1>3. OpenOut \in Nat /\ shut \in Nat
  BY Counts
<1>4. OutboundCount' = OutboundCount /\ Pending' = Pending
  BY <1>1, <1>2, <1>3 DEF OutboundCount, Pending
<1>5. out' \in [Addrs -> Nat] /\ shut' \in Nat /\ banned' \subseteq Addrs
  BY <1>1, <1>3 DEF DialInv, DialTypeOK
<1> QED
  BY <1>1, <1>2, <1>4, <1>5 DEF DialInv, DialTypeOK, BanLocks, Counted, DialThreads

LEMMA RemoveClosedKeeps == ASSUME DialInv, RemoveClosed PROVE DialInv'
<1>1. PICK i \in 0..inbound : inbound' = inbound - i
  BY DEF RemoveClosed
<1>2. /\ shut' = 0
      /\ UNCHANGED <<failures, banned, listed, out, accepting, at, addrLock, peersLock>>
  BY DEF RemoveClosed
<1>3. OpenPeers' = OpenPeers /\ Pending' = Pending /\ OpenOut' = OpenOut
  BY <1>2 DEF OpenPeers, Pending, OpenOut
<1>4. /\ OpenOut \in Nat /\ shut \in Nat /\ inbound \in Nat /\ Cardinality(Pending) \in Nat
      /\ MaxPeers \in Nat /\ MaxOutbound \in Nat
  BY Counts
<1>5. OutboundCount' + Cardinality(Pending') <= MaxOutbound + Cardinality(DialThreads) - 1
  BY <1>2, <1>3, <1>4, Dialers DEF DialInv, Counted, OutboundCount
<1>6. inbound' \in Nat /\ inbound' <= inbound
  BY <1>1, <1>4
<1>7. inbound' <= MaxPeers /\ (accepting' => inbound' < MaxPeers)
  BY <1>2, <1>4, <1>6 DEF DialInv, Counted
<1> QED
  BY <1>2, <1>3, <1>5, <1>6, <1>7 DEF DialInv, DialTypeOK, BanLocks, Counted, DialThreads

LEMMA DialInitInv == ASSUME DialInit PROVE DialInv
<1>1. OpenPeers = {}
  <2>1. ASSUME NEW q \in OpenPeers PROVE FALSE
    BY <2>1 DEF OpenPeers, DialInit
  <2> QED
    BY <2>1
<1>2. IsFiniteSet(OpenPeers) /\ OutboundCount = 0
  BY <1>1, FS_EmptySet DEF OutboundCount, OpenOut, DialInit
<1>3. Pending = {}
  BY DEF Pending, DialInit, AtIdle
<1>4. Cardinality(Pending) = 0
  BY <1>3, FS_EmptySet
<1>5. Counted
  BY <1>2, <1>4, Dialers, DialingAssumption DEF Counted, DialInit
<1>6. AtIdle \in [step : Steps, addr : SUBSET Addrs, todo : SUBSET Addrs]
  BY DEF AtIdle, Steps
<1>7. DialTypeOK
  <2>1. /\ DOMAIN failures \subseteq Addrs
        /\ failures \in [DOMAIN failures -> 0..BanAt]
    BY DialingAssumption DEF DialInit
  <2>2. at \in [DialThreads -> [step : Steps, addr : SUBSET Addrs, todo : SUBSET Addrs]]
    BY <1>6 DEF DialInit
  <2>3. /\ out \in [Addrs -> Nat] /\ shut \in Nat /\ inbound \in Nat
        /\ banned \subseteq Addrs /\ listed \subseteq Directory /\ accepting \in BOOLEAN
        /\ addrLock \in DialThreads \union {Free} /\ peersLock \in DialThreads \union {Free}
    BY DEF DialInit
  <2> QED
    BY <2>1, <2>2, <2>3 DEF DialTypeOK
<1>8. BanLocks
  BY DialingAssumption DEF BanLocks, DialInit
<1> QED
  BY <1>5, <1>7, <1>8 DEF DialInv

LEMMA DialNextKeeps == ASSUME DialInv, [DialNext]_dialVars PROVE DialInv'
<1>1. ASSUME NEW t \in DialThreads, DialerStep(t) PROVE DialInv'
  BY <1>1, ExchangeKeeps, DialTargetsKeeps, ConnectKeeps, MarkFailureKeeps, AddPeerKeeps,
     MarkAttemptKeeps DEF DialerStep
<1>2. CASE UNCHANGED dialVars
  BY <1>2 DEF dialVars, DialInv, DialTypeOK, BanLocks, Counted, DialThreads, OpenPeers,
              OpenOut, OutboundCount, Pending
<1> QED
  BY <1>1, <1>2, ThreadFacts, ConnectLoopKeeps, SelectKeeps, RefreshKeeps, HandleAddrKeeps,
     RemoveClosedKeeps, ClosingKeeps, JoinKeeps, AcceptKeeps
     DEF DialNext, ConnStep, BeatStep, MsgStep

\* The invariant of dialing: what threads counted is what they may still add.
THEOREM DialInvariant == DialSpec => []DialInv
BY DialInitInv, DialNextKeeps, PTL DEF DialSpec

\* The address list, the connections and the owners of the two mutexes keep their
\* types (connectLoop, dialDirectoryPeers, handleAddr).
THEOREM DialTypeCorrect == DialSpec => []DialTypeOK
<1>1. DialInv => DialTypeOK
  BY DEF DialInv
<1> QED
  BY <1>1, DialInvariant, PTL

\* The connection limits are passed by what the other dialers add between a
\* count and its connection, and never by more, whatever the limits are.
THEOREM ConnectionsAreBounded == DialSpec => []ConnectionsBounded
<1>1. ASSUME DialInv PROVE ConnectionsBounded
  <2>1. /\ OpenOut \in Nat /\ shut \in Nat /\ inbound \in Nat /\ Cardinality(Pending) \in Nat
        /\ MaxPeers \in Nat /\ MaxOutbound \in Nat /\ OutboundCount = OpenOut + shut
    BY <1>1, Counts
  <2>2. OpenOut + shut <= MaxOutbound + Cardinality(DialThreads) - 1
    BY <1>1, <2>1, Dialers DEF DialInv, Counted
  <2>3. inbound <= MaxPeers
    BY <1>1, <2>1 DEF DialInv, Counted
  <2> QED
    BY <2>1, <2>2, <2>3, Dialers DEF ConnectionsBounded
<1> QED
  BY <1>1, DialInvariant, PTL
-----------------------------------------------------------------------------
(* The answers of the WebSocket server *)

\* What is shown of every sequence of messages.
RepliesTyped(messages) == RepliesIn(messages) \in Seq(Message)

OfReply == INSTANCE FoldTheorems WITH Op <- Reply, P <- RepliesTyped

LEMMA RepliesFold == \A s : RepliesIn(s) = OfReply!Fold(<< >>, s)
BY DEF RepliesIn, OfReply!Fold, FoldLeft, OfReply!FoldLeft, MapThenFoldSet,
       OfReply!MapThenFoldSet, Max, OfReply!Max

LEMMA RepliesNone == RepliesIn(<< >>) = << >>
BY RepliesFold, OfReply!FoldEmpty

\* One more message is one more reply unless it is an event.
LEMMA RepliesNext ==
    ASSUME NEW s \in Seq(Message), NEW a \in Message
    PROVE  RepliesIn(Append(s, a)) = IF a.to = "event" THEN RepliesIn(s)
                                     ELSE Append(RepliesIn(s), a)
BY RepliesFold, OfReply!FoldAppend DEF Reply

LEMMA RepliesType == \A s \in Seq(Message) : RepliesIn(s) \in Seq(Message)
<1>1. RepliesTyped(<< >>)
  <2>1. << >> \in Seq(Message)
    OBVIOUS
  <2> QED
    BY <2>1, RepliesNone DEF RepliesTyped
<1>2. ASSUME NEW s \in Seq(Message), NEW a \in Message, RepliesTyped(s)
      PROVE  RepliesTyped(Append(s, a))
  <2> DEFINE R == RepliesIn(s)
  <2>1. R \in Seq(Message)
    BY <1>2 DEF RepliesTyped
  <2>2. RepliesIn(Append(s, a)) = IF a.to = "event" THEN R ELSE Append(R, a)
    BY RepliesNext
  <2> HIDE DEF R
  <2>3. Append(R, a) \in Seq(Message)
    BY <2>1
  <2> QED
    BY <2>1, <2>2, <2>3 DEF RepliesTyped
<1>3. \A s \in Seq(Message) : RepliesTyped(s)
  BY <1>1, <1>2, OfReply!SeqInduction
<1> QED
  BY <1>3 DEF RepliesTyped

TosOf(replies) == [i \in DOMAIN replies |-> replies[i].to]

Truthful(a) ==
    a.parsed # 0 => a.parsed = SizeOf[a.to] /\ (KindOf[a.to] = "submitblock" \/ a.parsed <= MaxTx)

NoList(s) == \A r \in Requests : KindOf[r] = "list" => r \notin ToSet(s)

\* The requests s were answered, each once and truthfully.
Served(ans, s) ==
    /\ TosOf(RepliesIn(ans)) = s
    /\ \A a \in ToSet(RepliesIn(ans)) : Truthful(a)

\* What holds of one client: its connection, the request on the wire, what was
\* received and what was answered.  The bytes received so far and those to come
\* make the request, unless it is being skipped.
Session(cn, w, s, ans) ==
    /\ cn \in [open : BOOLEAN, rx : 0..MaxWs, skip : BOOLEAN, sub : BOOLEAN]
    /\ w \in [req : Requests \cup {"none"}, left : Nat]
    /\ s \in Seq(Requests) /\ ans \in Seq(Message)
    /\ ~cn.open => cn = NoConn /\ w = NoWire
    /\ w.req = "none" => w = NoWire /\ cn.rx = 0 /\ cn.skip = FALSE
    /\ w.req # "none" => w.left # 0 /\ (cn.skip = FALSE => cn.rx + w.left = SizeOf[w.req])
    /\ cn.open /\ NoList(s) =>
         Served(ans, IF w.req # "none" /\ cn.skip THEN Append(s, w.req) ELSE s)

WsInv ==
    /\ WsTypeOK
    /\ \A c \in Clients : Session(conn[c], wire[c], sent[c], answers[c])

\* One more truthful reply serves one more request.
LEMMA OneMoreServed ==
    ASSUME NEW ans \in Seq(Message), NEW s \in Seq(Requests), NEW a \in Message,
           a.to # "event", Served(ans, s), Truthful(a)
    PROVE  Served(Append(ans, a), Append(s, a.to))
<1> DEFINE R == RepliesIn(ans)
<1>1. R \in Seq(Message)
  BY RepliesType
<1>2. RepliesIn(Append(ans, a)) = Append(R, a)
  BY RepliesNext
<1>3. TosOf(R) = s /\ \A b \in ToSet(R) : Truthful(b)
  BY DEF Served
<1> HIDE DEF R
<1>4. TosOf(Append(R, a)) = Append(s, a.to)
  <2>1. Len(s) = Len(R) /\ \A i \in 1..Len(R) : s[i] = R[i].to
    <3>1. DOMAIN s = 1..Len(s) /\ DOMAIN R = 1..Len(R) /\ Len(s) \in Nat /\ Len(R) \in Nat
      BY <1>1
    <3>2. DOMAIN s = DOMAIN R /\ \A i \in DOMAIN R : s[i] = R[i].to
      BY <1>3 DEF TosOf
    <3>3. \A m, n \in Nat : 1..m = 1..n => m = n
      <4>1. ASSUME NEW m \in Nat, NEW n \in Nat, 1..m = 1..n, m < n PROVE FALSE
        <5>1. n \in 1..n /\ n \notin 1..m
          BY <4>1
        <5> QED
          BY <4>1, <5>1
      <4> QED
        BY <4>1
    <3> QED
      BY <3>1, <3>2, <3>3
  <2>2. /\ DOMAIN Append(R, a) = 1..(Len(R) + 1)
        /\ \A i \in 1..Len(R) : Append(R, a)[i] = R[i]
        /\ Append(R, a)[Len(R) + 1] = a
    BY <1>1
  <2>3. /\ Append(s, a.to) = [i \in 1..(Len(R) + 1) |-> Append(s, a.to)[i]]
        /\ \A i \in 1..Len(R) : Append(s, a.to)[i] = s[i]
        /\ Append(s, a.to)[Len(R) + 1] = a.to
    <3>1. a.to \in Requests
      BY DEF Message
    <3>2. Append(s, a.to) \in Seq(Requests)
      BY <3>1
    <3> QED
      BY <2>1, <3>1, <3>2
  <2>4. \A i \in 1..(Len(R) + 1) : i \in 1..Len(R) \/ i = Len(R) + 1
    BY <1>1
  <2>5. \A i \in 1..(Len(R) + 1) : Append(R, a)[i].to = Append(s, a.to)[i]
    BY <2>1, <2>2, <2>3, <2>4
  <2> QED
    BY <2>2, <2>3, <2>5 DEF TosOf
<1>5. \A b \in ToSet(Append(R, a)) : Truthful(b)
  <2>1. ASSUME NEW b \in ToSet(Append(R, a)) PROVE b \in ToSet(R) \/ b = a
    BY <1>1, <2>1 DEF ToSet
  <2> QED
    BY <1>3, <2>1
<1> QED
  BY <1>2, <1>4, <1>5 DEF Served

\* An event is no reply.
LEMMA EventServed ==
    ASSUME NEW ans \in Seq(Message)
    PROVE  Append(ans, Event) \in Seq(Message)
           /\ \A s : Served(ans, s) => Served(Append(ans, Event), s)
<1>1. Event \in Message /\ Event.to = "event"
  BY WsAssumption DEF Event, Message
<1>2. RepliesIn(Append(ans, Event)) = RepliesIn(ans)
  BY <1>1, RepliesNext
<1> QED
  BY <1>1, <1>2 DEF Served

\* A request of a client is neither of the names that stand for none.
LEMMA RequestNames ==
    \A r \in Requests : r # "none" /\ r # "event" /\ SizeOf[r] \in Nat \ {0}
BY WsAssumption

\* A step of one client leaves the sessions of the others alone.
LEMMA OneClient ==
    ASSUME WsInv, NEW c \in Clients, NEW cn, NEW w, NEW s, NEW ans, Session(cn, w, s, ans),
           conn' = [conn EXCEPT ![c] = cn], wire' = [wire EXCEPT ![c] = w],
           sent' = [sent EXCEPT ![c] = s], answers' = [answers EXCEPT ![c] = ans],
           wsRunning' \in BOOLEAN, connects' \in 0..MaxConnects
    PROVE  WsInv'
<1>1. /\ cn \in [open : BOOLEAN, rx : 0..MaxWs, skip : BOOLEAN, sub : BOOLEAN]
      /\ w \in [req : Requests \cup {"none"}, left : Nat]
      /\ s \in Seq(Requests) /\ ans \in Seq(Message)
  BY DEF Session
<1>2. WsTypeOK'
  BY <1>1 DEF WsInv, WsTypeOK, Message
<1>3. ASSUME NEW d \in Clients PROVE Session(conn'[d], wire'[d], sent'[d], answers'[d])
  <2>1. CASE d = c
    <3>1. conn'[d] = cn /\ wire'[d] = w /\ sent'[d] = s /\ answers'[d] = ans
      BY <2>1 DEF WsInv, WsTypeOK
    <3> QED
      BY <3>1
  <2>2. CASE d # c
    <3>1. conn'[d] = conn[d] /\ wire'[d] = wire[d] /\ sent'[d] = sent[d]
          /\ answers'[d] = answers[d]
      BY <2>2 DEF WsInv, WsTypeOK
    <3> QED
      BY <3>1 DEF WsInv
  <2> QED
    BY <2>1, <2>2
<1> QED
  BY <1>2, <1>3 DEF WsInv

\* What stays is what it was for the client.
LEMMA Standing ==
    ASSUME WsInv, NEW c \in Clients
    PROVE  /\ conn = [conn EXCEPT ![c] = conn[c]] /\ wire = [wire EXCEPT ![c] = wire[c]]
           /\ sent = [sent EXCEPT ![c] = sent[c]] /\ answers = [answers EXCEPT ![c] = answers[c]]
           /\ wsRunning \in BOOLEAN /\ connects \in 0..MaxConnects
           /\ Session(conn[c], wire[c], sent[c], answers[c])
BY DEF WsInv, WsTypeOK

\* A new connection has asked and been answered nothing.
LEMMA EstablishedKeeps == ASSUME WsInv, NEW c \in Clients, Established(c) PROVE WsInv'
<1> DEFINE cn == [NoConn EXCEPT !.open = TRUE]
<1>1. cn.open = TRUE /\ cn.rx = 0 /\ cn.skip = FALSE
      /\ cn \in [open : BOOLEAN, rx : 0..MaxWs, skip : BOOLEAN, sub : BOOLEAN]
  <2>1. /\ NoConn \in [open : BOOLEAN, rx : 0..MaxWs, skip : BOOLEAN, sub : BOOLEAN]
        /\ NoConn.rx = 0 /\ NoConn.skip = FALSE
    BY WsAssumption DEF NoConn
  <2> QED
    BY <2>1
<1> HIDE DEF cn
<1>2. wire[c] = NoWire
  BY DEF Established, WsInv, Session
<1>3. TosOf(<< >>) = << >> /\ ToSet(<< >>) = {}
  BY DEF TosOf, ToSet
<1>4. Served(<< >>, << >>)
  BY <1>3, RepliesNone DEF Served
<1>5. << >> \in Seq(Requests) /\ << >> \in Seq(Message) /\ NoWire \in [req : Requests \cup {"none"}, left : Nat]
  BY DEF NoWire
<1>6. NoWire.req = "none" /\ 0 \in 0..MaxWs
  BY WsAssumption DEF NoWire
<1>7. Session(cn, NoWire, << >>, << >>)
  BY <1>1, <1>4, <1>5, <1>6 DEF Session
<1>8. /\ conn' = [conn EXCEPT ![c] = cn] /\ sent' = [sent EXCEPT ![c] = << >>]
      /\ answers' = [answers EXCEPT ![c] = << >>] /\ wire' = [wire EXCEPT ![c] = NoWire]
  BY <1>2, Standing DEF Established, cn
<1>9. wsRunning' \in BOOLEAN /\ connects' \in 0..MaxConnects
  BY Standing, WsAssumption DEF Established
<1> QED
  BY <1>7, <1>8, <1>9, OneClient

\* A request begins with its whole length to come.
LEMMA AsksKeeps ==
    ASSUME WsInv, NEW c \in Clients, NEW r \in Requests, Asks(c, r) PROVE WsInv'
<1> DEFINE w == [req |-> r, left |-> SizeOf[r]]
<1>1. w.req = r /\ w.left = SizeOf[r] /\ w \in [req : Requests \cup {"none"}, left : Nat]
  BY RequestNames
<1>2. wire' = [wire EXCEPT ![c] = w] /\ wire[c].req = "none"
  BY DEF Asks, NoWire
<1> HIDE DEF w
<1>3. Session(conn[c], wire[c], sent[c], answers[c])
  BY Standing
<1>4. conn[c].rx = 0 /\ conn[c].skip = FALSE /\ conn[c].open = TRUE
  BY <1>2, <1>3 DEF Session, Asks
<1>5. Session(conn[c], w, sent[c], answers[c])
  BY <1>1, <1>2, <1>3, <1>4, RequestNames DEF Session
<1>6. /\ conn' = [conn EXCEPT ![c] = conn[c]] /\ sent' = [sent EXCEPT ![c] = sent[c]]
      /\ answers' = [answers EXCEPT ![c] = answers[c]]
      /\ wsRunning' \in BOOLEAN /\ connects' \in 0..MaxConnects
  BY Standing DEF Asks
<1> QED
  BY <1>2, <1>5, <1>6, OneClient

\* A connection that closes drops what it had of a request.
LEMMA ClosedKeeps == ASSUME WsInv, NEW c \in Clients, Closed(c) PROVE WsInv'
<1>1. Session(conn[c], wire[c], sent[c], answers[c])
  BY Standing
<1>2. /\ NoConn \in [open : BOOLEAN, rx : 0..MaxWs, skip : BOOLEAN, sub : BOOLEAN]
      /\ NoWire \in [req : Requests \cup {"none"}, left : Nat]
      /\ NoConn.open = FALSE /\ NoConn.rx = 0 /\ NoConn.skip = FALSE /\ NoWire.req = "none"
  BY WsAssumption DEF NoConn, NoWire
<1>3. Session(NoConn, NoWire, sent[c], answers[c])
  BY <1>1, <1>2 DEF Session
<1>4. /\ conn' = [conn EXCEPT ![c] = NoConn] /\ wire' = [wire EXCEPT ![c] = NoWire]
      /\ sent' = [sent EXCEPT ![c] = sent[c]] /\ answers' = [answers EXCEPT ![c] = answers[c]]
      /\ wsRunning' \in BOOLEAN /\ connects' \in 0..MaxConnects
  BY Standing DEF Closed
<1> QED
  BY <1>3, <1>4, OneClient

\* Stopping closes every connection.
LEMMA StopKeeps == ASSUME WsInv, Stop PROVE WsInv'
<1>1. /\ NoConn \in [open : BOOLEAN, rx : 0..MaxWs, skip : BOOLEAN, sub : BOOLEAN]
      /\ NoWire \in [req : Requests \cup {"none"}, left : Nat]
      /\ NoConn.open = FALSE /\ NoConn.rx = 0 /\ NoConn.skip = FALSE /\ NoWire.req = "none"
  BY WsAssumption DEF NoConn, NoWire
<1>2. ASSUME NEW c \in Clients PROVE Session(NoConn, NoWire, sent[c], answers[c])
  <2>1. Session(conn[c], wire[c], sent[c], answers[c])
    BY Standing
  <2> QED
    BY <1>1, <2>1 DEF Session
<1>3. \A c \in Clients : Session(conn'[c], wire'[c], sent'[c], answers'[c])
  BY <1>2 DEF Stop
<1>4. WsTypeOK'
  BY <1>1 DEF Stop, WsInv, WsTypeOK, Message
<1> QED
  BY <1>3, <1>4 DEF WsInv

\* An event goes to subscribers and answers nothing.
LEMMA BroadcastKeeps == ASSUME WsInv, Broadcast PROVE WsInv'
<1>1. answers' = [c \in Clients |-> IF conn[c].sub THEN Append(answers[c], Event)
                                                   ELSE answers[c]]
      /\ UNCHANGED <<wsRunning, conn, wire, sent, connects>>
  BY DEF Broadcast
<1>2. ASSUME NEW c \in Clients PROVE Session(conn[c], wire[c], sent[c], answers'[c])
  <2>1. Session(conn[c], wire[c], sent[c], answers[c]) /\ answers[c] \in Seq(Message)
    BY Standing DEF Session
  <2>2. answers'[c] = Append(answers[c], Event) \/ answers'[c] = answers[c]
    BY <1>1
  <2>3. CASE answers'[c] = Append(answers[c], Event)
    <3>1. Append(answers[c], Event) \in Seq(Message)
          /\ \A s : Served(answers[c], s) => Served(Append(answers[c], Event), s)
      BY <2>1, EventServed
    <3> QED
      BY <2>1, <2>3, <3>1 DEF Session
  <2> QED
    BY <2>1, <2>2, <2>3
<1>3. answers' \in [Clients -> Seq(Message)]
  <2>1. \A c \in Clients : answers'[c] \in Seq(Message)
    BY <1>2 DEF Session
  <2> QED
    BY <1>1, <2>1
<1>4. WsTypeOK'
  BY <1>1, <1>3 DEF WsInv, WsTypeOK, Message
<1> QED
  BY <1>1, <1>2, <1>4 DEF WsInv

Rest(r, left) == [req |-> r, left |-> left]

\* What a piece of n leaves of the request on the wire.
LEMMA Arriving ==
    ASSUME WsInv, NEW c \in Clients, NEW n \in 1..Piece, Arrives(c, n)
    PROVE  /\ wire[c].req \in Requests /\ wire[c].req # "none" /\ conn[c].open = TRUE
           /\ wire[c].left \in Nat /\ n \in Nat \ {0} /\ n <= wire[c].left
           /\ Final(c, n) =>
                /\ wire' = [wire EXCEPT ![c] = NoWire]
                /\ sent' = [sent EXCEPT ![c] = Append(sent[c], wire[c].req)]
           /\ ~Final(c, n) =>
                /\ wire' = [wire EXCEPT ![c] = Rest(wire[c].req, wire[c].left - n)]
                /\ sent' = [sent EXCEPT ![c] = sent[c]]
                /\ wire[c].left - n \in Nat \ {0}
<1>1. Session(conn[c], wire[c], sent[c], answers[c]) /\ wire \in [Clients -> [req : Requests \cup {"none"}, left : Nat]]
  BY Standing DEF WsInv, WsTypeOK
<1>2. wire[c].req \in Requests /\ wire[c].req # "none" /\ wire[c].left \in Nat
  BY <1>1 DEF Arrives, Session
<1>3. n \in Nat \ {0} /\ n <= wire[c].left /\ conn[c].open = TRUE
  BY <1>1, WsAssumption DEF Arrives, Session
<1>4. CASE Final(c, n)
  BY <1>2, <1>3, <1>4 DEF Arrives, Final
<1>5. CASE ~Final(c, n)
  <2>1. wire' = [wire EXCEPT ![c].left = @ - n] /\ sent' = sent
    BY <1>5 DEF Arrives, Final
  <2>2. [wire[c] EXCEPT !.left = wire[c].left - n] = Rest(wire[c].req, wire[c].left - n)
    BY <1>1, <1>2 DEF Rest
  <2>3. wire' = [wire EXCEPT ![c] = Rest(wire[c].req, wire[c].left - n)]
    <3>1. wire' = [wire EXCEPT ![c] = [wire[c] EXCEPT !.left = wire[c].left - n]]
      BY <2>1
    <3> QED
      BY <2>2, <3>1
  <2>4. wire[c].left - n \in Nat \ {0}
    BY <1>2, <1>3, <1>5 DEF Final
  <2>5. sent' = [sent EXCEPT ![c] = sent[c]]
    BY <2>1, Standing
  <2> QED
    BY <1>2, <1>3, <1>5, <2>3, <2>4, <2>5
<1> QED
  BY <1>4, <1>5

\* The two states a client can be in after a piece, given its new connection
\* and answers.
LEMMA AfterPiece ==
    ASSUME WsInv, NEW c \in Clients, NEW n \in 1..Piece, Arrives(c, n), NEW cn, NEW ans,
           conn' = [conn EXCEPT ![c] = cn], answers' = [answers EXCEPT ![c] = ans],
           Final(c, n) => Session(cn, NoWire, Append(sent[c], wire[c].req), ans),
           ~Final(c, n) => Session(cn, Rest(wire[c].req, wire[c].left - n), sent[c], ans),
           wsRunning' = wsRunning, connects' = connects
    PROVE  WsInv'
<1>1. wsRunning' \in BOOLEAN /\ connects' \in 0..MaxConnects
  BY Standing
<1>2. CASE Final(c, n)
  <2>1. /\ wire' = [wire EXCEPT ![c] = NoWire]
        /\ sent' = [sent EXCEPT ![c] = Append(sent[c], wire[c].req)]
    BY <1>2, Arriving
  <2> QED
    BY <1>1, <1>2, <2>1, OneClient
<1>3. CASE ~Final(c, n)
  <2>1. /\ wire' = [wire EXCEPT ![c] = Rest(wire[c].req, wire[c].left - n)]
        /\ sent' = [sent EXCEPT ![c] = sent[c]]
    BY <1>3, Arriving
  <2> QED
    BY <1>1, <1>3, <2>1, OneClient
<1> QED
  BY <1>2, <1>3

Received(cn, rx, skip) == [open |-> TRUE, rx |-> rx, skip |-> skip, sub |-> cn.sub]

\* What a session needs once the request on the wire came to its end: it was
\* answered, and nothing is left of it in the connection.
LEMMA EndedSession ==
    ASSUME NEW cn, NEW s \in Seq(Requests), NEW ans \in Seq(Message),
           cn \in [open : BOOLEAN, rx : 0..MaxWs, skip : BOOLEAN, sub : BOOLEAN],
           cn.open = TRUE, cn.rx = 0, cn.skip = FALSE, NoList(s) => Served(ans, s)
    PROVE  Session(cn, NoWire, s, ans)
<1>1. NoWire.req = "none" /\ NoWire \in [req : Requests \cup {"none"}, left : Nat]
  BY DEF NoWire
<1> QED
  BY <1>1 DEF Session

\* What it needs in the middle of a request.
LEMMA PartSession ==
    ASSUME NEW cn, NEW r \in Requests, NEW left \in Nat \ {0},
           NEW s \in Seq(Requests), NEW ans \in Seq(Message),
           cn \in [open : BOOLEAN, rx : 0..MaxWs, skip : BOOLEAN, sub : BOOLEAN],
           cn.open = TRUE, cn.skip = FALSE => cn.rx + left = SizeOf[r],
           NoList(s) => Served(ans, IF cn.skip THEN Append(s, r) ELSE s)
    PROVE  Session(cn, Rest(r, left), s, ans)
<1>1. /\ Rest(r, left).req = r /\ Rest(r, left).left = left /\ r # "none"
      /\ Rest(r, left) \in [req : Requests \cup {"none"}, left : Nat]
  BY RequestNames DEF Rest
<1> QED
  BY <1>1 DEF Session

\* A list among the requests stays among them.
LEMMA ListStays ==
    ASSUME NEW s \in Seq(Requests), NEW r \in Requests
    PROVE  /\ NoList(Append(s, r)) => NoList(s) /\ KindOf[r] # "list"
           /\ Append(s, r) \in Seq(Requests)
<1>1. Append(s, r) \in Seq(Requests)
  OBVIOUS
<1>2. r \in ToSet(Append(s, r))
  <2>1. Append(s, r)[Len(s) + 1] = r /\ Len(s) + 1 \in DOMAIN Append(s, r)
    OBVIOUS
  <2> QED
    BY <2>1 DEF ToSet
<1>3. ToSet(s) \subseteq ToSet(Append(s, r))
  <2>1. \A i \in DOMAIN s : i \in DOMAIN Append(s, r) /\ Append(s, r)[i] = s[i]
    OBVIOUS
  <2> QED
    BY <2>1 DEF ToSet
<1> QED
  BY <1>1, <1>2, <1>3 DEF NoList

\* A connection whose buffer was emptied.
LEMMA Emptied ==
    ASSUME WsInv, NEW c \in Clients, conn[c].open = TRUE, NEW x \in BOOLEAN,
           conn' = [conn EXCEPT ![c].skip = x, ![c].rx = 0]
    PROVE  /\ conn' = [conn EXCEPT ![c] = Received(conn[c], 0, x)]
           /\ Received(conn[c], 0, x) \in
                [open : BOOLEAN, rx : 0..MaxWs, skip : BOOLEAN, sub : BOOLEAN]
<1> DEFINE k == conn[c]
<1>1. k \in [open : BOOLEAN, rx : 0..MaxWs, skip : BOOLEAN, sub : BOOLEAN]
      /\ conn \in [Clients -> [open : BOOLEAN, rx : 0..MaxWs, skip : BOOLEAN, sub : BOOLEAN]]
  BY DEF WsInv, WsTypeOK
<1> DEFINE mid == [k EXCEPT !.skip = x]
<1>2. conn' = [conn EXCEPT ![c] = [mid EXCEPT !.rx = 0]]
  BY <1>1
<1>3. [mid EXCEPT !.rx = 0] = [open |-> k.open, rx |-> 0, skip |-> x, sub |-> k.sub]
  <2> HIDE DEF k
  <2>1. mid = [open |-> k.open, rx |-> k.rx, skip |-> x, sub |-> k.sub]
    BY <1>1
  <2> HIDE DEF mid
  <2> QED
    BY <2>1
<1> HIDE DEF k, mid
<1>4. k.open = TRUE
  BY DEF k
<1>5. 0 \in 0..MaxWs
  BY WsAssumption
<1> QED
  BY <1>1, <1>2, <1>3, <1>4, <1>5 DEF Received, k

\* The rest of a request that was too long adds no answer.
LEMMA SkippedKeeps ==
    ASSUME WsInv, NEW c \in Clients, NEW n \in 1..Piece, ReceiveSkipped(c, n) PROVE WsInv'
<1> DEFINE x == ~Final(c, n)
           cn == Received(conn[c], 0, x)
           r == wire[c].req
<1>1. Arrives(c, n) /\ conn[c].skip /\ wsRunning' = wsRunning /\ connects' = connects
      /\ answers' = answers
  BY DEF ReceiveSkipped
<1>2. r \in Requests /\ r # "none" /\ conn[c].open = TRUE /\ x \in BOOLEAN
  BY <1>1, Arriving
<1>3. conn' = [conn EXCEPT ![c].skip = x, ![c].rx = 0]
  BY DEF ReceiveSkipped
<1>4. Session(conn[c], wire[c], sent[c], answers[c]) /\ answers' = [answers EXCEPT ![c] = answers[c]]
  BY <1>1, Standing
<1>5. sent[c] \in Seq(Requests) /\ answers[c] \in Seq(Message)
      /\ (NoList(sent[c]) => Served(answers[c], Append(sent[c], r)))
  BY <1>1, <1>2, <1>4 DEF Session
<1> HIDE DEF x
<1>6. conn' = [conn EXCEPT ![c] = cn]
      /\ cn \in [open : BOOLEAN, rx : 0..MaxWs, skip : BOOLEAN, sub : BOOLEAN]
  BY <1>2, <1>3, Emptied
<1>7. cn.open = TRUE /\ cn.rx = 0 /\ cn.skip = x
  BY DEF Received
<1> HIDE DEF cn
<1>8. Append(sent[c], r) \in Seq(Requests) /\ (NoList(Append(sent[c], r)) => NoList(sent[c]))
  BY <1>2, <1>5, ListStays
<1>9. Final(c, n) => Session(cn, NoWire, Append(sent[c], r), answers[c])
  <2>1. SUFFICES ASSUME Final(c, n) PROVE Session(cn, NoWire, Append(sent[c], r), answers[c])
    OBVIOUS
  <2>2. cn.skip = FALSE
    BY <1>7, <2>1 DEF x
  <2> QED
    BY <1>5, <1>6, <1>7, <1>8, <2>2, EndedSession
<1>10. ~Final(c, n) => Session(cn, Rest(r, wire[c].left - n), sent[c], answers[c])
  <2>1. SUFFICES ASSUME ~Final(c, n)
                 PROVE  Session(cn, Rest(r, wire[c].left - n), sent[c], answers[c])
    OBVIOUS
  <2>2. cn.skip = TRUE /\ wire[c].left - n \in Nat \ {0}
    BY <1>1, <1>7, <2>1, Arriving DEF x
  <2> QED
    BY <1>2, <1>5, <1>6, <1>7, <2>2, PartSession
<1> QED
  BY <1>1, <1>4, <1>6, <1>9, <1>10, AfterPiece

\* A request over the cap is answered when it passes it.
LEMMA TooLongKeeps ==
    ASSUME WsInv, NEW c \in Clients, NEW n \in 1..Piece, ReceiveTooLong(c, n) PROVE WsInv'
<1> DEFINE x == Skips(c, n)
           cn == Received(conn[c], 0, x)
           r == wire[c].req
           a == Answer(r, 0)
           ans == Append(answers[c], a)
<1>1. Arrives(c, n) /\ ~conn[c].skip /\ wsRunning' = wsRunning /\ connects' = connects
  BY DEF ReceiveTooLong
<1>2. r \in Requests /\ r # "none" /\ conn[c].open = TRUE /\ x \in BOOLEAN
  BY <1>1, Arriving DEF Skips
<1>3. conn' = [conn EXCEPT ![c].skip = x, ![c].rx = 0]
  BY DEF ReceiveTooLong
<1>4. Session(conn[c], wire[c], sent[c], answers[c])
  BY Standing
<1>5. sent[c] \in Seq(Requests) /\ answers[c] \in Seq(Message)
      /\ (NoList(sent[c]) => Served(answers[c], sent[c]))
  BY <1>1, <1>2, <1>4 DEF Session
<1>6. answers' = [answers EXCEPT ![c] = ans]
  BY DEF ReceiveTooLong
<1>7. a \in Message /\ a.to = r /\ a.to # "event" /\ Truthful(a)
  BY <1>2, RequestNames, WsAssumption DEF Answer, Message, Truthful
<1> HIDE DEF x, a
<1>8. ans \in Seq(Message) /\ (NoList(sent[c]) => Served(ans, Append(sent[c], r)))
  BY <1>5, <1>7, OneMoreServed
<1>9. conn' = [conn EXCEPT ![c] = cn]
      /\ cn \in [open : BOOLEAN, rx : 0..MaxWs, skip : BOOLEAN, sub : BOOLEAN]
  BY <1>2, <1>3, Emptied
<1>10. cn.open = TRUE /\ cn.rx = 0 /\ cn.skip = x
  BY DEF Received
<1> HIDE DEF cn, ans
<1>11. Append(sent[c], r) \in Seq(Requests) /\ (NoList(Append(sent[c], r)) => NoList(sent[c]))
  BY <1>2, <1>5, ListStays
<1>12. Final(c, n) => Session(cn, NoWire, Append(sent[c], r), ans)
  <2>1. SUFFICES ASSUME Final(c, n) PROVE Session(cn, NoWire, Append(sent[c], r), ans)
    OBVIOUS
  <2>2. cn.skip = FALSE
    BY <1>10, <2>1 DEF x, Skips
  <2> QED
    BY <1>8, <1>9, <1>10, <1>11, <2>2, EndedSession
<1>13. ~Final(c, n) => Session(cn, Rest(r, wire[c].left - n), sent[c], ans)
  <2>1. SUFFICES ASSUME ~Final(c, n) PROVE Session(cn, Rest(r, wire[c].left - n), sent[c], ans)
    OBVIOUS
  <2>2. cn.skip = TRUE /\ wire[c].left - n \in Nat \ {0}
    BY <1>1, <1>10, <2>1, Arriving DEF x, Skips
  <2> QED
    BY <1>2, <1>5, <1>8, <1>9, <1>10, <2>2, PartSession
<1> QED
  BY <1>1, <1>6, <1>9, <1>12, <1>13, AfterPiece

\* A piece in the middle of a request that fits.
LEMMA PartKeeps ==
    ASSUME WsInv, NEW c \in Clients, NEW n \in 1..Piece, ReceivePart(c, n) PROVE WsInv'
<1> DEFINE k == conn[c]
           cn == Received(conn[c], conn[c].rx + n, FALSE)
           r == wire[c].req
<1>1. /\ Arrives(c, n) /\ ~conn[c].skip /\ ~TooLong(c, n) /\ ~Final(c, n)
      /\ wsRunning' = wsRunning /\ connects' = connects /\ answers' = answers
      /\ conn' = [conn EXCEPT ![c].rx = @ + n]
  BY DEF ReceivePart
<1>2. /\ r \in Requests /\ r # "none" /\ k.open = TRUE /\ wire[c].left \in Nat
      /\ n \in Nat \ {0} /\ wire[c].left - n \in Nat \ {0}
  BY <1>1, Arriving
<1>3. Session(k, wire[c], sent[c], answers[c]) /\ answers' = [answers EXCEPT ![c] = answers[c]]
  BY <1>1, Standing
<1>4. /\ k \in [open : BOOLEAN, rx : 0..MaxWs, skip : BOOLEAN, sub : BOOLEAN]
      /\ sent[c] \in Seq(Requests) /\ answers[c] \in Seq(Message)
      /\ (NoList(sent[c]) => Served(answers[c], sent[c]))
      /\ k.skip = FALSE /\ k.rx + wire[c].left = SizeOf[r]
  BY <1>1, <1>2, <1>3 DEF Session
<1>5. k.rx + n \in 0..MaxWs
  BY <1>1, <1>2, <1>4, WsAssumption DEF TooLong
<1>6. conn' = [conn EXCEPT ![c] = [k EXCEPT !.rx = k.rx + n]]
  BY <1>1
<1>7. cn \in [open : BOOLEAN, rx : 0..MaxWs, skip : BOOLEAN, sub : BOOLEAN]
      /\ cn.open = TRUE /\ cn.rx = k.rx + n /\ cn.skip = FALSE
  BY <1>4, <1>5 DEF Received
<1> HIDE DEF k
<1>8. [k EXCEPT !.rx = k.rx + n] = [open |-> k.open, rx |-> k.rx + n, skip |-> k.skip, sub |-> k.sub]
  BY <1>4
<1>9. conn' = [conn EXCEPT ![c] = cn]
  BY <1>2, <1>4, <1>6, <1>8 DEF Received, k
<1> HIDE DEF cn
<1>10. cn.rx + (wire[c].left - n) = SizeOf[r]
  BY <1>2, <1>4, <1>5, <1>7
<1>11. Session(cn, Rest(r, wire[c].left - n), sent[c], answers[c])
  BY <1>2, <1>4, <1>7, <1>10, PartSession
<1> QED
  BY <1>1, <1>3, <1>9, <1>11, AfterPiece

\* A whole request that fits is served by its answers, a list apart.
LEMMA AnswersServe ==
    ASSUME NEW r \in Requests, NEW n \in 0..MaxWs, n = SizeOf[r],
           NEW ans \in Seq(Message), NEW s \in Seq(Requests)
    PROVE  /\ ans \o Answers(r, n) \in Seq(Message)
           /\ Served(ans, s) /\ KindOf[r] # "list" => Served(ans \o Answers(r, n), Append(s, r))
<1> DEFINE a == Answer(r, n)
           e == Answer(r, 0)
<1>1. /\ a \in Message /\ a.to = r /\ a.parsed = n
      /\ e \in Message /\ e.to = r /\ e.parsed = 0 /\ r # "event"
  BY RequestNames, WsAssumption DEF Answer, Message
<1>2. Event \in Message
  BY WsAssumption DEF Event, Message
<1> HIDE DEF a, e
<1>3. /\ Append(ans, a) \in Seq(Message) /\ Append(ans, e) \in Seq(Message)
      /\ ans \o <<a>> = Append(ans, a) /\ ans \o <<e>> = Append(ans, e)
  BY <1>1
<1>4. ans \o <<a, a>> = Append(Append(ans, a), a)
      /\ ans \o <<a, Event>> = Append(Append(ans, a), Event)
  BY <1>1, <1>2
<1>5. Served(ans, s) => Served(Append(ans, e), Append(s, r))
  <2>1. Truthful(e)
    BY <1>1 DEF Truthful
  <2> QED
    BY <1>1, <2>1, OneMoreServed
<1>6. (KindOf[r] = "submitblock" \/ n <= MaxTx) /\ Served(ans, s)
        => Served(Append(ans, a), Append(s, r))
  <2>1. KindOf[r] = "submitblock" \/ n <= MaxTx => Truthful(a)
    BY <1>1 DEF Truthful
  <2> QED
    BY <1>1, <2>1, OneMoreServed
<1>7. n \in Nat /\ MaxTx \in Nat /\ (~(n > MaxTx) => n <= MaxTx)
  BY WsAssumption
<1>8. CASE KindOf[r] # "submitblock" /\ n > MaxTx
  <2>1. Answers(r, n) = <<e>>
    BY <1>8 DEF Answers, e
  <2> QED
    BY <1>3, <1>5, <2>1
<1>9. CASE ~(KindOf[r] # "submitblock" /\ n > MaxTx) /\ KindOf[r] = "list"
  <2>1. Answers(r, n) = <<a, a>>
    BY <1>9 DEF Answers, a
  <2> QED
    BY <1>1, <1>3, <1>4, <1>9, <2>1
<1>10. CASE ~(KindOf[r] # "submitblock" /\ n > MaxTx) /\ KindOf[r] = "subscribe"
  <2>1. Answers(r, n) = <<a, Event>>
    BY <1>10 DEF Answers, a
  <2>2. Append(Append(ans, a), Event) \in Seq(Message)
        /\ \A q : Served(Append(ans, a), q) => Served(Append(Append(ans, a), Event), q)
    BY <1>3, EventServed
  <2> QED
    BY <1>4, <1>6, <1>7, <1>10, <2>1, <2>2
<1>11. CASE ~(KindOf[r] # "submitblock" /\ n > MaxTx) /\ KindOf[r] \notin {"list", "subscribe"}
  <2>1. Answers(r, n) = <<a>>
    BY <1>11 DEF Answers, a
  <2> QED
    BY <1>3, <1>6, <1>7, <1>11, <2>1
<1> QED
  BY <1>8, <1>9, <1>10, <1>11

\* The last piece of a request that fits.
LEMMA WholeKeeps ==
    ASSUME WsInv, NEW c \in Clients, NEW n \in 1..Piece, ReceiveWhole(c, n) PROVE WsInv'
<1> DEFINE k == conn[c]
           r == wire[c].req
           whole == conn[c].rx + n
           sub == k.sub \/ (KindOf[r] = "subscribe" /\ whole <= MaxTx)
           cn == [open |-> TRUE, rx |-> 0, skip |-> FALSE, sub |-> sub]
           ans == answers[c] \o Answers(r, whole)
<1>1. /\ Arrives(c, n) /\ ~conn[c].skip /\ ~TooLong(c, n) /\ Final(c, n)
      /\ wsRunning' = wsRunning /\ connects' = connects
      /\ answers' = [answers EXCEPT ![c] = ans]
      /\ conn' = [conn EXCEPT ![c].rx = 0,
                              ![c].sub = @ \/ (KindOf[r] = "subscribe" /\ whole <= MaxTx)]
  BY DEF ReceiveWhole
<1>2. /\ r \in Requests /\ r # "none" /\ k.open = TRUE /\ wire[c].left \in Nat
      /\ n \in Nat \ {0} /\ n = wire[c].left
  BY <1>1, Arriving DEF Final
<1>3. Session(k, wire[c], sent[c], answers[c])
  BY Standing
<1>4. /\ k \in [open : BOOLEAN, rx : 0..MaxWs, skip : BOOLEAN, sub : BOOLEAN]
      /\ sent[c] \in Seq(Requests) /\ answers[c] \in Seq(Message)
      /\ (NoList(sent[c]) => Served(answers[c], sent[c]))
      /\ k.skip = FALSE /\ k.rx + wire[c].left = SizeOf[r]
  BY <1>1, <1>2, <1>3 DEF Session
<1>5. whole \in 0..MaxWs /\ whole = SizeOf[r]
  BY <1>1, <1>2, <1>4, WsAssumption DEF TooLong
<1>6. sub \in BOOLEAN
  BY <1>4
<1>7. conn' = [conn EXCEPT ![c] = cn]
  <2> DEFINE mid == [k EXCEPT !.rx = 0]
  <2>1. conn' = [conn EXCEPT ![c] = [mid EXCEPT !.sub = sub]]
    <3>1. mid.sub = k.sub
      BY <1>4
    <3>2. \A x : [[conn EXCEPT ![c].rx = 0] EXCEPT ![c].sub = x]
                   = [conn EXCEPT ![c] = [mid EXCEPT !.sub = x]]
      BY DEF WsInv, WsTypeOK
    <3>3. conn' = [[conn EXCEPT ![c].rx = 0] EXCEPT ![c].sub = sub]
      BY <1>1, <3>1 DEF WsInv, WsTypeOK
    <3> QED
      BY <3>2, <3>3
  <2> HIDE DEF k, sub
  <2>2. mid = [open |-> k.open, rx |-> 0, skip |-> k.skip, sub |-> k.sub]
    BY <1>4
  <2> HIDE DEF mid
  <2>3. [mid EXCEPT !.sub = sub] = [open |-> k.open, rx |-> 0, skip |-> k.skip, sub |-> sub]
    BY <2>2
  <2> QED
    BY <1>2, <1>4, <2>1, <2>3
<1>8. cn \in [open : BOOLEAN, rx : 0..MaxWs, skip : BOOLEAN, sub : BOOLEAN]
      /\ cn.open = TRUE /\ cn.rx = 0 /\ cn.skip = FALSE
  BY <1>6, WsAssumption
<1>9. /\ Append(sent[c], r) \in Seq(Requests)
      /\ (NoList(Append(sent[c], r)) => NoList(sent[c]) /\ KindOf[r] # "list")
  BY <1>2, <1>4, ListStays
<1>10. /\ ans \in Seq(Message)
       /\ NoList(Append(sent[c], r)) => Served(ans, Append(sent[c], r))
  BY <1>2, <1>4, <1>5, <1>9, AnswersServe
<1> HIDE DEF cn, ans
<1>11. Session(cn, NoWire, Append(sent[c], r), ans)
  BY <1>8, <1>9, <1>10, EndedSession
<1> QED
  BY <1>1, <1>7, <1>11, AfterPiece

LEMMA WsInitInv == ASSUME WsInit PROVE WsInv
<1>1. /\ NoConn \in [open : BOOLEAN, rx : 0..MaxWs, skip : BOOLEAN, sub : BOOLEAN]
      /\ NoWire \in [req : Requests \cup {"none"}, left : Nat]
      /\ NoConn.open = FALSE /\ NoConn.rx = 0 /\ NoConn.skip = FALSE /\ NoWire.req = "none"
  BY WsAssumption DEF NoConn, NoWire
<1>2. Session(NoConn, NoWire, << >>, << >>)
  BY <1>1 DEF Session
<1>3. WsTypeOK
  BY <1>1, WsAssumption DEF WsInit, WsTypeOK
<1> QED
  BY <1>2, <1>3 DEF WsInit, WsInv

LEMMA WsNextKeeps == ASSUME WsInv, [WsNext]_wsVars PROVE WsInv'
<1>1. CASE UNCHANGED wsVars
  BY <1>1 DEF wsVars, WsInv, WsTypeOK, Message
<1> QED
  BY <1>1, EstablishedKeeps, ClosedKeeps, AsksKeeps, SkippedKeeps, TooLongKeeps, PartKeeps,
     WholeKeeps, BroadcastKeeps, StopKeeps DEF WsNext

\* The invariant of the server: what each connection received, is to receive
\* and was answered.
THEOREM WsInvariant == WsSpec => []WsInv
BY WsInitInv, WsNextKeeps, PTL DEF WsSpec

\* Sessions, pieces and queues of the service thread keep their types (ws_server.cpp).
THEOREM WsTypeCorrect == WsSpec => []WsTypeOK
<1>1. WsInv => WsTypeOK
  BY DEF WsInv
<1> QED
  BY <1>1, WsInvariant, PTL

\* Every client is answered once for each request it finished or that was cut
\* off as too long, in the order it asked, and nothing is parsed but a whole
\* request within its cap.
THEOREM EveryRequestAnswered == WsSpec => []AnsweredOnceInOrder
<1>1. ASSUME WsInv PROVE AnsweredOnceInOrder
  <2>1. ASSUME NEW c \in Clients, conn[c].open,
               \A r \in Requests : KindOf[r] = "list" => r \notin ToSet(sent[c])
        PROVE  Served(answers[c], Expected(c))
    <3>1. Session(conn[c], wire[c], sent[c], answers[c]) /\ NoList(sent[c])
      BY <1>1, <2>1, Standing DEF NoList
    <3> QED
      BY <2>1, <3>1 DEF Session, Expected
  <2> QED
    BY <2>1 DEF AnsweredOnceInOrder, Served, TosOf, Truthful, Replies
<1> QED
  BY <1>1, WsInvariant, PTL
-----------------------------------------------------------------------------
(* Challenges and templates *)


\* A challenge that is handed out again is one that submitblock would find,
\* and no work is of a tip or a start that is still to come.
Remembered ==
    /\ \A o \in outstanding : [challenge |-> o.challenge, tip |-> o.tip] \in issued
    /\ \A m \in Miners : work[m].tip <= tip.id /\ work[m].start <= starts

ChallengeInv == ChallengeTypeOK /\ Remembered /\ WorkStands

LEMMA ChallengeNumbers ==
    First \in Nat /\ Ahead \in Nat /\ MaxTip \in Nat /\ MaxNow \in Nat
  BY ChallengesAssumption

\* What the clock has to say of the stamp of a template.
LEMMA StampFits ==
    ASSUME ChallengeTypeOK, ~ClockBehindTip
    PROVE  Stamp \in Nat /\ tip.time < Stamp /\ Stamp <= now + Ahead
  BY ChallengeNumbers DEF ChallengeTypeOK, Tips, Stamp, ClockBehindTip

LEMMA ChallengeInitInv == ChallengeInit => ChallengeInv
<1> SUFFICES ASSUME ChallengeInit PROVE ChallengeInv
  OBVIOUS
<1>1. ChallengeTypeOK
  BY ChallengeNumbers DEF ChallengeInit, ChallengeTypeOK, Tips, Works, NoWork
<1>2. Remembered
  BY DEF ChallengeInit, Remembered, NoWork
<1>3. WorkStands
  BY DEF ChallengeInit, WorkStands
<1> QED
  BY <1>1, <1>2, <1>3 DEF ChallengeInv
-----------------------------------------------------------------------------
(* getblocktemplate *)

\* Work of the present tip, with a challenge the node knows or none.
LEMMA GivenWork ==
    ASSUME ChallengeInv, ~ClockBehindTip, NEW m \in Miners, NEW c \in Nat, GiveWork(m, c),
           UNCHANGED <<tip, now, starts>>,
           issued \subseteq issued',
           \/ tip.height + 1 < First
           \/ c = 0
           \/ [challenge |-> c, tip |-> tip.id] \in issued'
    PROVE  /\ work' \in [Miners -> Works]
           /\ \A n \in Miners : work'[n].tip <= tip'.id /\ work'[n].start <= starts'
           /\ WorkStands'
<1> DEFINE given == [tip |-> tip.id, height |-> tip.height + 1, stamp |-> Stamp,
                     challenge |-> c, start |-> starts]
<1>1. /\ work \in [Miners -> Works] /\ tip.id \in Nat /\ tip.height \in Nat
      /\ tip.time \in Nat /\ now \in Nat /\ starts \in Nat
  BY DEF ChallengeInv, ChallengeTypeOK, Tips
<1>2. Stamp \in Nat /\ tip.time < Stamp /\ Stamp <= now + Ahead
  BY StampFits DEF ChallengeInv
<1>3. work' = [work EXCEPT ![m] = given]
  BY DEF GiveWork
<1>4. given \in Works
  BY <1>1, <1>2 DEF Works
<1>5. work' \in [Miners -> Works]
  BY <1>1, <1>3, <1>4
<1>6. \A n \in Miners : work'[n] = IF n = m THEN given ELSE work[n]
  BY <1>1, <1>3
<1>7. \A n \in Miners : work'[n].tip <= tip'.id /\ work'[n].start <= starts'
  BY <1>1, <1>6 DEF ChallengeInv, Remembered
<1>8. WorkStands'
  <2> SUFFICES ASSUME NEW n \in Miners, work'[n] # NoWork, work'[n].tip = tip.id,
                      work'[n].start = starts,
                      work'[n].height < First \/ work'[n].challenge # 0
               PROVE  /\ work'[n].height = tip.height + 1
                      /\ \/ work'[n].height < First
                         \/ [challenge |-> work'[n].challenge, tip |-> tip.id] \in issued'
                      /\ tip.time < work'[n].stamp /\ work'[n].stamp <= now + Ahead
    BY DEF WorkStands
  <2>1. CASE n = m
    BY <2>1, <1>6, <1>2
  <2>2. CASE n # m
    BY <2>2, <1>6 DEF ChallengeInv, WorkStands
  <2> QED
    BY <2>1, <2>2
<1> QED
  BY <1>5, <1>7, <1>8

LEMMA TemplateAgainKeeps == ASSUME ChallengeInv, NEW m \in Miners, TemplateAgain(m) PROVE ChallengeInv'
<1> USE DEF TemplateAgain
<1>1. PICK c \in Nat : /\ GiveWork(m, c)
                       /\ \/ tip.height + 1 < First
                          \/ [challenge |-> c, tip |-> tip.id] \in issued
  <2>1. CASE tip.height + 1 < First /\ GiveWork(m, 0)
    BY <2>1
  <2>2. CASE tip.height + 1 >= First /\ \E o \in Asked(m) : GiveWork(m, o.challenge)
    <3>1. PICK o \in Asked(m) : GiveWork(m, o.challenge)
      BY <2>2
    <3>2. o \in outstanding /\ o.tip = tip.id
      BY <3>1 DEF Asked
    <3>3. o.challenge \in Nat
      BY <3>2 DEF ChallengeInv, ChallengeTypeOK
    <3>4. [challenge |-> o.challenge, tip |-> tip.id] \in issued
      BY <3>2 DEF ChallengeInv, Remembered
    <3> QED
      BY <3>1, <3>3, <3>4
  <2> QED
    BY <2>1, <2>2
<1>2. /\ work' \in [Miners -> Works]
      /\ \A n \in Miners : work'[n].tip <= tip'.id /\ work'[n].start <= starts'
      /\ WorkStands'
  BY <1>1, GivenWork
<1> QED
  BY <1>2 DEF ChallengeInv, ChallengeTypeOK, Remembered

LEMMA TemplateNewKeeps == ASSUME ChallengeInv, NEW m \in Miners, TemplateNew(m) PROVE ChallengeInv'
<1> DEFINE fresh == [challenge |-> made + 1, tip |-> tip.id]
           handed == [tip |-> tip.id, root |-> root, miner |-> m, challenge |-> made + 1]
<1>1. /\ tip \in Tips /\ made \in Nat /\ root \in Nat /\ starts \in Nat /\ now \in Nat
      /\ issued \subseteq [challenge : 1..made, tip : 0..tip.id]
      /\ outstanding \subseteq
           [tip : 0..tip.id, root : 0..root, miner : Miners, challenge : 1..made]
  BY DEF ChallengeInv, ChallengeTypeOK
<1>2. /\ issued' = issued \cup {fresh} /\ outstanding' = outstanding \cup {handed}
      /\ made' = made + 1 /\ GiveWork(m, made + 1) /\ ~ClockBehindTip
      /\ UNCHANGED <<tip, now, root, starts>>
  BY DEF TemplateNew, Issue
<1>3. /\ work' \in [Miners -> Works]
      /\ \A n \in Miners : work'[n].tip <= tip'.id /\ work'[n].start <= starts'
      /\ WorkStands'
  BY <1>1, <1>2, GivenWork
<1>4. issued' \subseteq [challenge : 1..made', tip : 0..tip'.id]
  <2>1. fresh \in [challenge : 1..made', tip : 0..tip'.id]
    BY <1>1, <1>2 DEF Tips
  <2>2. 1..made \subseteq 1..made'
    BY <1>1, <1>2
  <2> QED
    BY <1>1, <1>2, <2>1, <2>2
<1>5. outstanding' \subseteq
        [tip : 0..tip'.id, root : 0..root', miner : Miners, challenge : 1..made']
  <2>1. handed \in [tip : 0..tip'.id, root : 0..root', miner : Miners, challenge : 1..made']
    BY <1>1, <1>2 DEF Tips
  <2>2. 1..made \subseteq 1..made'
    BY <1>1, <1>2
  <2> QED
    BY <1>1, <1>2, <2>1, <2>2
<1>6. ChallengeTypeOK'
  BY <1>1, <1>2, <1>3, <1>4, <1>5 DEF ChallengeTypeOK
<1>7. Remembered'
  BY <1>2, <1>3 DEF ChallengeInv, Remembered
<1> QED
  BY <1>3, <1>6, <1>7 DEF ChallengeInv

LEMMA TemplateBareKeeps == ASSUME ChallengeInv, NEW m \in Miners, TemplateBare(m) PROVE ChallengeInv'
<1>1. /\ work' \in [Miners -> Works]
      /\ \A n \in Miners : work'[n].tip <= tip'.id /\ work'[n].start <= starts'
      /\ WorkStands'
  BY GivenWork DEF TemplateBare
<1> QED
  BY <1>1 DEF ChallengeInv, ChallengeTypeOK, Remembered, TemplateBare
-----------------------------------------------------------------------------
(* submitblock and the rest *)

\* A new tip leaves no work for it, whatever challenges are taken away.
LEMMA NewTip ==
    ASSUME ChallengeInv, NEW height \in Nat, NEW time \in Nat, MoveTip(height, time),
           UNCHANGED <<now, root, work, made, starts>>,
           issued' \subseteq issued, outstanding' \subseteq outstanding,
           \A o \in outstanding' : [challenge |-> o.challenge, tip |-> o.tip] \in issued'
    PROVE  ChallengeInv'
<1>1. tip.id \in Nat /\ tip' = [id |-> tip.id + 1, height |-> height, time |-> time]
  BY DEF ChallengeInv, ChallengeTypeOK, Tips, MoveTip
<1>2. 0..tip.id \subseteq 0..tip'.id /\ tip' \in Tips /\ tip'.id = tip.id + 1
  BY <1>1 DEF Tips
<1>3. ChallengeTypeOK'
  BY <1>2 DEF ChallengeInv, ChallengeTypeOK
<1>4. \A m \in Miners : work[m].tip \in Nat /\ work[m].tip <= tip.id
  BY DEF ChallengeInv, ChallengeTypeOK, Remembered, Works
<1>5. Remembered'
  BY <1>1, <1>2, <1>4 DEF ChallengeInv, Remembered
<1>6. WorkStands'
  BY <1>1, <1>2, <1>4 DEF WorkStands
<1> QED
  BY <1>3, <1>5, <1>6 DEF ChallengeInv

LEMMA SubmitWorkKeeps == ASSUME ChallengeInv, NEW m \in Miners, SubmitWork(m) PROVE ChallengeInv'
<1>1. work[m] \in Works
  BY DEF ChallengeInv, ChallengeTypeOK
<1>2. work[m].height \in Nat /\ work[m].stamp \in Nat
  BY <1>1 DEF Works
<1>3. MoveTip(work[m].height, work[m].stamp) /\ UNCHANGED <<now, root, work, made, starts>>
  BY DEF SubmitWork
<1>4. /\ issued' \subseteq issued /\ outstanding' \subseteq outstanding
      /\ \A o \in outstanding' : [challenge |-> o.challenge, tip |-> o.tip] \in issued'
  <2>1. CASE work[m].height >= First
    BY <2>1 DEF SubmitWork, Retired, ChallengeInv, Remembered
  <2>2. CASE ~(work[m].height >= First)
    BY <2>2 DEF SubmitWork, ChallengeInv, Remembered
  <2> QED
    BY <2>1, <2>2
<1> QED
  BY <1>2, <1>3, <1>4, NewTip

LEMMA PeerTipKeeps == ASSUME ChallengeInv, PeerTip PROVE ChallengeInv'
<1>1. tip.height \in Nat /\ now \in Nat
  BY DEF ChallengeInv, ChallengeTypeOK, Tips
<1>2. PICK height \in tip.height + 1 .. MaxTip, time \in 1 .. now + Ahead :
        MoveTip(height, time)
  BY DEF PeerTip
<1>3. height \in Nat /\ time \in Nat
  BY <1>1, <1>2, ChallengeNumbers
<1> QED
  BY <1>2, <1>3, NewTip DEF PeerTip, ChallengeInv, Remembered

LEMMA PoolChangesKeeps == ASSUME ChallengeInv, PoolChanges PROVE ChallengeInv'
<1>1. root \in Nat /\ root' = root + 1 /\ UNCHANGED <<tip, now, issued, outstanding, work, made, starts>>
  BY DEF ChallengeInv, ChallengeTypeOK, PoolChanges
<1>2. 0..root \subseteq 0..root' /\ root' \in Nat
  BY <1>1
<1>3. ChallengeTypeOK'
  BY <1>1, <1>2 DEF ChallengeInv, ChallengeTypeOK
<1> QED
  BY <1>1, <1>3 DEF ChallengeInv, Remembered, WorkStands

LEMMA TickKeeps == ASSUME ChallengeInv, Tick PROVE ChallengeInv'
<1>1. now \in Nat /\ now' = now + 1 /\ UNCHANGED <<tip, root, issued, outstanding, work, made, starts>>
  BY DEF ChallengeInv, ChallengeTypeOK, Tick
<1>2. \A m \in Miners : work[m].stamp \in Nat
  BY DEF ChallengeInv, ChallengeTypeOK, Works
<1>3. \A m \in Miners : work[m].stamp <= now + Ahead => work[m].stamp <= now' + Ahead
  BY <1>1, <1>2, ChallengeNumbers
<1>4. WorkStands'
  BY <1>1, <1>3 DEF ChallengeInv, WorkStands
<1> QED
  BY <1>1, <1>4 DEF ChallengeInv, ChallengeTypeOK, Remembered

\* No work is of the start that begins.
LEMMA StartAgainKeeps == ASSUME ChallengeInv, StartAgain PROVE ChallengeInv'
<1>1. now \in Nat /\ starts \in Nat /\ \A m \in Miners : work[m].start \in Nat
  BY DEF ChallengeInv, ChallengeTypeOK, Works
<1>2. \A m \in Miners : work[m].start <= starts
  BY DEF ChallengeInv, Remembered
<1>3. /\ starts' = starts + 1 /\ now' \in Nat /\ issued' = {} /\ outstanding' = {}
      /\ UNCHANGED <<tip, root, work, made>>
  BY <1>1 DEF StartAgain
<1>4. WorkStands'
  BY <1>1, <1>2, <1>3 DEF WorkStands
<1>5. ChallengeTypeOK'
  BY <1>1, <1>3 DEF ChallengeInv, ChallengeTypeOK
<1>6. Remembered'
  BY <1>1, <1>2, <1>3 DEF ChallengeInv, Remembered
<1> QED
  BY <1>4, <1>5, <1>6 DEF ChallengeInv
-----------------------------------------------------------------------------
LEMMA ChallengeNextKeeps == ASSUME ChallengeInv, [ChallengeNext]_challengeVars PROVE ChallengeInv'
<1>1. ASSUME NEW m \in Miners,
             TemplateAgain(m) \/ TemplateNew(m) \/ TemplateBare(m) \/ SubmitWork(m)
      PROVE  ChallengeInv'
  BY <1>1, TemplateAgainKeeps, TemplateNewKeeps, TemplateBareKeeps, SubmitWorkKeeps
<1>2. CASE UNCHANGED challengeVars
  BY <1>2 DEF challengeVars, ChallengeInv, ChallengeTypeOK, Remembered, WorkStands
<1> QED
  BY <1>1, <1>2, PeerTipKeeps, PoolChangesKeeps, TickKeeps, StartAgainKeeps
     DEF ChallengeNext

\* The inductive invariant holds throughout (all of chain_rpc.cpp's challenges).
THEOREM ChallengeInvariant == ChallengeSpec => []ChallengeInv
  BY ChallengeInitInv, ChallengeNextKeeps, PTL DEF ChallengeSpec

\* The books of challenges keep their types.
THEOREM ChallengeTypeCorrect == ChallengeSpec => []ChallengeTypeOK
<1>1. ChallengeInv => ChallengeTypeOK
  BY DEF ChallengeInv
<1> QED
  BY <1>1, ChallengeInvariant, PTL

\* Work that was handed out (getblocktemplate) is accepted (submitblock) while
\* its tip stands.
THEOREM WorkIsAccepted == ChallengeSpec => []WorkStands
<1>1. ChallengeInv => WorkStands
  BY DEF ChallengeInv
<1> QED
  BY <1>1, ChallengeInvariant, PTL
-----------------------------------------------------------------------------
(* BlockFile: the cells of a file *)

\* A cell of a file.
Cell == ({"len"} \union Blocks) \X Nat

-----------------------------------------------------------------------------
(* A scan *)

\* A frame of f at k that no frame before it reaches into.
Laid(f, k) ==
    /\ f \in Seq(Cell) /\ k \in 1..Len(f) /\ IsFrame(f, k)
    /\ \A place \in 1..k - 1 : IsFrame(f, place) => End(f, place) < k

\* What a scan of the first n places of f shows of a frame at k.
InStep(f, k, n, scan) ==
    /\ scan \in [file : {f}, next : Nat, found : SUBSET Nat]
    /\ n < k => scan.next <= k
    /\ k <= n => k \in scan.found

\* A scan of the places s.
Scanning(scan, s) == FoldLeft(ScanAt, scan, s)

ScanReaches(s) ==
    \A f, k :
      Laid(f, k) /\ Len(s) <= Len(f) /\ (\A i \in 1..Len(s) : s[i] = i)
        => InStep(f, k, Len(s), Scanning(ScanOf(f), s))

OfScan == INSTANCE FoldTheorems WITH Op <- ScanAt, P <- ScanReaches

\* The scan is the fold the lemmas of FoldTheorems are about.
LEMMA ScanFold == \A scan, s : Scanning(scan, s) = OfScan!Fold(scan, s)
BY DEF Scanning, OfScan!Fold, FoldLeft, OfScan!FoldLeft, MapThenFoldSet, OfScan!MapThenFoldSet, Max, OfScan!Max

\* Finding a frame, field by field.
LEMMA FoundFields ==
    ASSUME NEW scan, NEW f, NEW place, scan \in [file : {f}, next : Nat, found : SUBSET Nat],
           place \in Nat, End(f, place) \in Nat
    PROVE  Found(scan, place) = [file |-> f, next |-> End(f, place) + 1, found |-> scan.found \union {place}]
<1> DEFINE mid == [scan EXCEPT !.next = End(scan.file, place) + 1]
<1>1. /\ mid \in [file : {f}, next : Nat, found : SUBSET Nat]
      /\ mid.file = f /\ mid.next = End(f, place) + 1 /\ mid.found = scan.found
  OBVIOUS
<1>2. Found(scan, place) = [mid EXCEPT !.found = @ \union {place}]
  BY DEF Found
<1> HIDE DEF mid
<1>3. QED
  BY <1>1, <1>2

\* One place further, the scan is still in step.
LEMMA ScanAtInStep ==
    ASSUME NEW f, NEW k, Laid(f, k), NEW n \in Nat, n + 1 <= Len(f),
           NEW scan, InStep(f, k, n, scan)
    PROVE  InStep(f, k, n + 1, ScanAt(scan, n + 1))
<1>1. /\ scan.file = f /\ scan.next \in Nat /\ scan.found \in SUBSET Nat
      /\ k \in 1..Len(f) /\ Len(f) \in Nat
  BY DEF InStep, Laid
<1>2. CASE n + 1 >= scan.next /\ IsFrame(f, n + 1)
  <2>1. f[n + 1] \in Cell
    BY <1>1 DEF Laid
  <2>2. End(f, n + 1) \in Nat /\ n + 1 <= End(f, n + 1)
    BY <2>1 DEF Cell, End
  <2>3. ScanAt(scan, n + 1) =
          [file |-> f, next |-> End(f, n + 1) + 1, found |-> scan.found \union {n + 1}]
    <3>1. ScanAt(scan, n + 1) = Found(scan, n + 1)
      BY <1>1, <1>2 DEF ScanAt
    <3>2. scan \in [file : {f}, next : Nat, found : SUBSET Nat]
      BY DEF InStep
    <3>3. n + 1 \in Nat /\ End(f, n + 1) \in Nat
      BY <2>2
    <3>4. Found(scan, n + 1) =
            [file |-> f, next |-> End(f, n + 1) + 1, found |-> scan.found \union {n + 1}]
      BY <3>2, <3>3, FoundFields, Zenon
    <3> QED
      BY <3>1, <3>4
  <2>4. n + 1 < k => End(f, n + 1) < k
    BY <1>1, <1>2 DEF Laid
  <2> QED
    BY <1>1, <2>2, <2>3, <2>4 DEF InStep
<1>3. CASE ~(n + 1 >= scan.next /\ IsFrame(f, n + 1))
  <2>1. ScanAt(scan, n + 1) = scan
    BY <1>1, <1>3 DEF ScanAt
  <2>2. n + 1 # k
    BY <1>1, <1>3 DEF Laid, InStep
  <2> QED
    BY <1>1, <2>1, <2>2 DEF InStep
<1> QED
  BY <1>2, <1>3

\* A scan of a file finds every frame that no frame before it reaches into.
LEMMA ScanFinds == \A f, k : Laid(f, k) => k \in Scan(f)
<1>1. ScanReaches(<< >>)
  <2> SUFFICES ASSUME NEW f, NEW k, Laid(f, k)
               PROVE  InStep(f, k, 0, Scanning(ScanOf(f), << >>))
    BY DEF ScanReaches
  <2>1. Scanning(ScanOf(f), << >>) = ScanOf(f)
    BY ScanFold, OfScan!FoldEmpty
  <2>2. QED
    <3>1. k \in 1..Len(f)
      BY DEF Laid
    <3>2. ScanOf(f) \in [file : {f}, next : Nat, found : SUBSET Nat] /\ ScanOf(f).next = 1
      BY DEF ScanOf
    <3>3. Len(f) \in Nat
      BY DEF Laid
    <3> QED
      BY <2>1, <3>1, <3>2, <3>3 DEF InStep
<1>2. \A s \in Seq(Nat), n \in Nat : ScanReaches(s) => ScanReaches(Append(s, n))
  <2> SUFFICES ASSUME NEW s \in Seq(Nat), NEW x \in Nat, ScanReaches(s), NEW f, NEW k, Laid(f, k),
                      Len(Append(s, x)) <= Len(f),
                      \A i \in 1..Len(Append(s, x)) : Append(s, x)[i] = i
               PROVE  InStep(f, k, Len(Append(s, x)), Scanning(ScanOf(f), Append(s, x)))
    BY DEF ScanReaches
  <2>1. /\ Len(s) \in Nat /\ Len(Append(s, x)) = Len(s) + 1 /\ Append(s, x)[Len(s) + 1] = x
        /\ \A i \in 1..Len(s) : Append(s, x)[i] = s[i]
    OBVIOUS
  <2>2. x = Len(s) + 1 /\ \A i \in 1..Len(s) : s[i] = i
    BY <2>1
  <2>3. Len(f) \in Nat
    BY DEF Laid
  <2>4. InStep(f, k, Len(s), Scanning(ScanOf(f), s))
    BY <2>1, <2>2, <2>3 DEF ScanReaches
  <2>5. Scanning(ScanOf(f), Append(s, x)) = ScanAt(Scanning(ScanOf(f), s), x)
    BY ScanFold, OfScan!FoldAppend
  <2> QED
    BY <2>1, <2>2, <2>3, <2>4, <2>5, ScanAtInStep
<1>3. \A s \in Seq(Nat) : ScanReaches(s)
  BY <1>1, <1>2, OfScan!SeqInduction
<1> SUFFICES ASSUME NEW f, NEW k, Laid(f, k) PROVE k \in Scan(f)
  OBVIOUS
<1>4. Len(f) \in Nat /\ k \in 1..Len(f)
  BY DEF Laid
<1>5. Places(f) \in Seq(Nat) /\ Len(Places(f)) = Len(f) /\ \A i \in 1..Len(f) : Places(f)[i] = i
  BY <1>4 DEF Places
<1>6. InStep(f, k, Len(f), Scanning(ScanOf(f), Places(f)))
  BY <1>3, <1>4, <1>5 DEF ScanReaches
<1> QED
  BY <1>4, <1>6 DEF Scan, Scanning, InStep

-----------------------------------------------------------------------------
(* The files *)

Positions == [file : Nat, at : Nat \ {0}, size : Nat \ {0}]
Records == [pos : Positions, block : Blocks]
Extents == [file : Nat, from : Nat, to : Nat]

FilesTyped ==
    /\ files \in Seq(Seq(Cell)) /\ Len(files) >= 1
    /\ scanned \in BOOLEAN
    /\ scanned => size = Len(files[Len(files)])

\* The frame of record k is in the files fs, whole.
Whole(fs, k) ==
    /\ k.pos.size = Size[k.block]
    /\ k.pos.file \in 1..Len(fs)
    /\ k.pos.at + k.pos.size <= Len(fs[k.pos.file])
    /\ fs[k.pos.file][k.pos.at] = <<"len", k.pos.size>>
    /\ \A i \in 1..k.pos.size : fs[k.pos.file][k.pos.at + i] = <<k.block, i>>

AllWhole(fs, K) == \A k \in K : Whole(fs, k)

KeptWhole == kept \in SUBSET Records /\ AllWhole(files, kept)

\* A length at a place of file n begins a frame of K or a torn one of T.
Begins(K, T, n, place, len) ==
    \/ \E k \in K : k.pos.file = n /\ k.pos.at = place
    \/ \E t \in T : t.file = n /\ t.from = place /\ t.to = place + len

AllBegin(fs, K, T) ==
    \A n \in 1..Len(fs) : \A place \in 1..Len(fs[n]) :
      fs[n][place][1] = "len" => Begins(K, T, n, place, fs[n][place][2])

LengthsBegin == torn \in SUBSET Extents /\ AllBegin(files, kept, torn)

OwnIndexed ==
    /\ own \subseteq kept /\ (~scanned => own = {})
    /\ \A o \in own : o.pos \in index

BlockInv == FilesTyped /\ KeptWhole /\ LengthsBegin /\ OwnIndexed

\* What a concatenation holds.
LEMMA Joined ==
    ASSUME NEW S, NEW s \in Seq(S), NEW t \in Seq(S)
    PROVE  /\ s \o t \in Seq(S) /\ Len(s \o t) = Len(s) + Len(t)
           /\ \A i \in 1..Len(s) : (s \o t)[i] = s[i]
           /\ \A i \in 1..Len(t) : (s \o t)[Len(s) + i] = t[i]
OBVIOUS

\* A frame is its length and then the payload (append_block).
LEMMA FrameCells ==
    ASSUME NEW b \in Blocks
    PROVE  /\ Size[b] \in Nat \ {0}
           /\ Frame(b) \in Seq(Cell) /\ Len(Frame(b)) = Size[b] + 1
           /\ Frame(b)[1] = <<"len", Size[b]>>
           /\ \A i \in 1..Size[b] : Frame(b)[i + 1] = <<b, i>>
<1>1. Size[b] \in Nat \ {0}
  BY BlockAssumption
<1> DEFINE head == << <<"len", Size[b]>> >>
<1>2. head \in Seq(Cell) /\ Len(head) = 1 /\ head[1] = <<"len", Size[b]>>
  BY <1>1 DEF Cell
<1>3. /\ Payload(b) \in Seq(Cell) /\ Len(Payload(b)) = Size[b]
      /\ \A i \in 1..Size[b] : Payload(b)[i] = <<b, i>>
  BY <1>1 DEF Payload, Cell
<1>4. Frame(b) = head \o Payload(b)
  BY DEF Frame
<1> HIDE DEF head
<1>5. /\ Frame(b) \in Seq(Cell) /\ Len(Frame(b)) = Size[b] + 1
      /\ Frame(b)[1] = head[1]
      /\ \A i \in 1..Size[b] : Frame(b)[i + 1] = Payload(b)[i]
  <2>1. /\ Frame(b) \in Seq(Cell) /\ Len(Frame(b)) = Len(head) + Len(Payload(b))
        /\ \A i \in 1..Len(head) : Frame(b)[i] = head[i]
        /\ \A i \in 1..Len(Payload(b)) : Frame(b)[Len(head) + i] = Payload(b)[i]
    <3> DEFINE tail == Payload(b)
    <3>1. head \in Seq(Cell) /\ tail \in Seq(Cell)
      BY <1>2, <1>3
    <3> HIDE DEF tail
    <3>2. /\ head \o tail \in Seq(Cell) /\ Len(head \o tail) = Len(head) + Len(tail)
          /\ \A i \in 1..Len(head) : (head \o tail)[i] = head[i]
          /\ \A i \in 1..Len(tail) : (head \o tail)[Len(head) + i] = tail[i]
      BY <3>1, Joined
    <3> QED
      BY <1>4, <3>2 DEF tail
  <2> DEFINE n == Size[b]
             f == Frame(b)
             tail == Payload(b)
  <2>2. /\ n \in Nat /\ Len(f) = 1 + n /\ \A i \in 1..1 : f[i] = head[i]
        /\ \A i \in 1..n : f[1 + i] = tail[i]
    BY <1>1, <1>2, <1>3, <2>1
  <2> HIDE DEF n, f, tail
  <2>3. Len(f) = n + 1 /\ f[1] = head[1] /\ \A i \in 1..n : f[i + 1] = tail[i]
    BY <2>2
  <2> QED
    BY <2>1, <2>3 DEF n, f, tail
<1> QED
  BY <1>1, <1>2, <1>3, <1>5, Zenon

\* The files fs are those there were, with cells behind place o of the last.
Grown(fs, o, cells) ==
    /\ fs \in Seq(Seq(Cell)) /\ Len(fs) >= Len(files) /\ o \in Nat
    /\ Len(fs[Len(fs)]) = o + Len(cells)
    /\ \A i \in 1..Len(cells) : fs[Len(fs)][o + i] = cells[i]
    /\ \A n \in 1..Len(files) :
         /\ Len(files[n]) <= Len(fs[n])
         /\ \A place \in 1..Len(files[n]) : fs[n][place] = files[n][place]
    /\ \A n \in 1..Len(fs) : \A place \in 1..Len(fs[n]) :
         \/ (n \in 1..Len(files) /\ place \in 1..Len(files[n]))
         \/ (n = Len(fs) /\ place - o \in 1..Len(cells))

\* What is written goes behind the last file, and changes nothing before.
LEMMA WritesBehind ==
    ASSUME FilesTyped, scanned, NEW b \in Blocks, NEW cells \in Seq(Cell), Len(cells) >= 1,
           NEW fs, fs = Written(b, cells)
    PROVE  Grown(fs, Offset(b), cells)
<1> DEFINE n == Len(files)
           f == files[n]
<1>1. /\ n \in Nat \ {0} /\ f \in Seq(Cell) /\ size = Len(f) /\ Len(f) \in Nat
      /\ Len(cells) \in Nat
      /\ \A m \in 1..n : files[m] \in Seq(Cell) /\ Len(files[m]) \in Nat
  BY DEF FilesTyped
<1>2. CASE Rotates(b)
  <2>1. fs = Append(files, cells) /\ Offset(b) = 0
    BY <1>2 DEF Written, Offset
  <2>2. /\ fs \in Seq(Seq(Cell)) /\ Len(fs) = n + 1 /\ fs[n + 1] = cells
        /\ \A m \in 1..n : fs[m] = files[m]
    BY <1>1, <2>1 DEF FilesTyped
  <2> HIDE DEF n, f
  <2> QED
    BY <1>1, <2>1, <2>2 DEF n, Grown
<1>3. CASE ~Rotates(b)
  <2> DEFINE g == f \o cells
  <2>1. fs = [files EXCEPT ![n] = g] /\ Offset(b) = Len(f)
    BY <1>1, <1>3 DEF Written, Offset
  <2>2. /\ g \in Seq(Cell) /\ Len(g) = Len(f) + Len(cells)
        /\ \A place \in 1..Len(f) : g[place] = f[place]
        /\ \A i \in 1..Len(cells) : g[Len(f) + i] = cells[i]
    BY <1>1, Joined
  <2> HIDE DEF g
  <2>3. /\ fs \in Seq(Seq(Cell)) /\ Len(fs) = n /\ fs[n] = g
        /\ \A m \in 1..n : m # n => fs[m] = files[m]
    BY <1>1, <2>1, <2>2 DEF FilesTyped
  <2>4. ASSUME NEW m \in 1..n
        PROVE  /\ Len(files[m]) <= Len(fs[m])
               /\ \A place \in 1..Len(files[m]) : fs[m][place] = files[m][place]
               /\ \A place \in 1..Len(fs[m]) :
                    place \in 1..Len(files[m]) \/ (m = n /\ place - Len(f) \in 1..Len(cells))
    <3>1. CASE m = n
      <4>1. Len(fs[m]) = Len(f) + Len(cells) /\ files[m] = f /\ fs[m] = g
        BY <2>2, <2>3, <3>1
      <4> HIDE DEF n, f
      <4> QED
        BY <1>1, <2>2, <3>1, <4>1
    <3>2. CASE m # n
      <4>1. fs[m] = files[m] /\ Len(files[m]) \in Nat
        BY <1>1, <2>3, <3>2
      <4> QED
        BY <4>1
    <3> QED
      BY <3>1, <3>2
  <2> HIDE DEF n, f
  <2>5. Offset(b) + Len(cells) = Len(fs[n]) /\ Offset(b) \in Nat
    BY <1>1, <2>1, <2>2, <2>3
  <2>6. /\ \A m \in 1..n : /\ Len(files[m]) <= Len(fs[m])
                           /\ \A place \in 1..Len(files[m]) : fs[m][place] = files[m][place]
        /\ \A m \in 1..n : \A place \in 1..Len(fs[m]) :
             (place \in 1..Len(files[m]) \/ (m = n /\ place - Offset(b) \in 1..Len(cells)))
    BY <2>1, <2>4
  <2>7. \A i \in 1..Len(cells) : fs[n][Offset(b) + i] = cells[i]
    BY <2>1, <2>2, <2>3
  <2>8. n = Len(files) /\ n = Len(fs)
    BY <2>3 DEF n
  <2> QED
    BY <2>3, <2>5, <2>6, <2>7, <2>8 DEF Grown
<1> QED
  BY <1>2, <1>3

\* Cells a file has stay: a frame that is whole stays whole.
LEMMA WholeStays ==
    ASSUME NEW fs \in Seq(Seq(Cell)), NEW gs \in Seq(Seq(Cell)), Len(gs) >= Len(fs),
           \A n \in 1..Len(fs) : /\ Len(fs[n]) <= Len(gs[n])
                                 /\ \A place \in 1..Len(fs[n]) : gs[n][place] = fs[n][place],
           NEW k \in Records, Whole(fs, k)
    PROVE  Whole(gs, k)
<1> DEFINE n == k.pos.file
           place == k.pos.at
           len == k.pos.size
<1>1. n \in 1..Len(fs) /\ n \in 1..Len(gs) /\ place \in Nat \ {0} /\ len \in Nat \ {0}
  BY DEF Records, Positions, Whole
<1>2. /\ len = Size[k.block] /\ fs[n][place] = <<"len", len>> /\ place + len <= Len(fs[n])
      /\ \A i \in 1..len : fs[n][place + i] = <<k.block, i>>
  BY DEF Whole
<1>3. ASSUME gs[n][place] = <<"len", len>>, place + len <= Len(gs[n]),
             \A i \in 1..len : gs[n][place + i] = <<k.block, i>>
      PROVE  Whole(gs, k)
  BY <1>1, <1>2, <1>3 DEF Whole
<1> HIDE DEF n, place, len
<1>4. fs[n] \in Seq(Cell) /\ gs[n] \in Seq(Cell)
  BY <1>1
<1>5. Len(fs[n]) \in Nat /\ Len(gs[n]) \in Nat /\ Len(fs[n]) <= Len(gs[n])
  BY <1>1, <1>4
<1> DEFINE p == Len(fs[n])
           q == Len(gs[n])
<1>6. /\ p \in Nat /\ q \in Nat /\ p <= q /\ place + len <= p /\ place \in Nat \ {0} /\ len \in Nat \ {0}
      /\ \A c \in 1..p : gs[n][c] = fs[n][c]
  BY <1>1, <1>2, <1>5
<1> HIDE DEF p, q
<1>7. place + len <= q /\ place \in 1..p /\ \A i \in 1..len : place + i \in 1..p
  BY <1>6
<1>8. /\ gs[n][place] = <<"len", len>> /\ place + len <= Len(gs[n])
      /\ \A i \in 1..len : gs[n][place + i] = <<k.block, i>>
  BY <1>2, <1>6, <1>7 DEF q
<1> QED
  BY <1>3, <1>8

\* The cells are the first ones of a frame, or all of it.
PartOf(cells, b) ==
    /\ cells \in Seq(Cell) /\ Len(cells) \in 1..Size[b] + 1
    /\ \A i \in 1..Len(cells) : cells[i] = Frame(b)[i]

\* A frame or the beginning of one is written: what is kept stays whole, and
\* the only new length begins it.
LEMMA WriteKeeps ==
    ASSUME BlockInv, scanned, NEW b \in Blocks, NEW cells, PartOf(cells, b),
           files' = Written(b, cells),
           NEW K, kept \subseteq K, NEW T, torn \subseteq T,
           Begins(K, T, Len(files'), Offset(b) + 1, Size[b])
    PROVE  AllWhole(files', kept) /\ AllBegin(files', K, T)
<1> DEFINE fs == files'
<1>1. Grown(fs, Offset(b), cells)
  <2>1. FilesTyped /\ cells \in Seq(Cell) /\ Len(cells) >= 1 /\ fs = Written(b, cells)
    BY FrameCells DEF BlockInv, PartOf
  <2> QED
    BY <2>1, WritesBehind
<1> HIDE DEF fs
<1>2. files \in Seq(Seq(Cell))
  BY DEF BlockInv, FilesTyped
<1>3. \A k \in kept : k \in Records /\ Whole(files, k)
  BY DEF BlockInv, KeptWhole, AllWhole
<1>4. \A k \in kept : Whole(fs, k)
  BY <1>1, <1>2, <1>3, WholeStays DEF Grown
<1>5. ASSUME NEW n \in 1..Len(fs), NEW place \in 1..Len(fs[n]), fs[n][place][1] = "len"
      PROVE  Begins(K, T, n, place, fs[n][place][2])
  <2>1. CASE n \in 1..Len(files) /\ place \in 1..Len(files[n])
    <3>1. fs[n][place] = files[n][place]
      BY <1>1, <2>1 DEF Grown
    <3>2. Begins(kept, torn, n, place, files[n][place][2])
      BY <1>5, <2>1, <3>1 DEF BlockInv, LengthsBegin, AllBegin
    <3> QED
      BY <3>1, <3>2 DEF Begins
  <2>2. CASE n = Len(fs) /\ place - Offset(b) \in 1..Len(cells)
    <3> DEFINE i == place - Offset(b)
    <3>1. /\ place \in Nat /\ i \in 1..Len(cells) /\ place = Offset(b) + i /\ Size[b] \in Nat
          /\ Len(cells) \in 1..Size[b] + 1
      BY <1>1, <2>2, FrameCells DEF Grown, PartOf
    <3> HIDE DEF i
    <3>2. fs[n][place] = Frame(b)[i]
      BY <1>1, <2>2, <3>1 DEF Grown, PartOf
    <3>3. CASE i = 1
      BY <2>2, <3>1, <3>2, <3>3, FrameCells DEF fs
    <3>4. CASE i # 1
      <4> DEFINE j == i - 1
      <4>1. j \in 1..Size[b] /\ i = j + 1
        BY <3>1, <3>4
      <4> HIDE DEF j
      <4>2. fs[n][place] = <<b, j>>
        BY <3>2, <4>1, FrameCells
      <4>3. fs[n][place][1] # "len"
        BY <4>2, BlockAssumption
      <4> QED
        BY <1>5, <4>3
    <3> QED
      BY <3>3, <3>4
  <2> QED
    BY <1>1, <2>1, <2>2 DEF Grown
<1> QED
  BY <1>4, <1>5 DEF fs, AllWhole, AllBegin

\* The records of the history, field by field.
LEMMA RecordsHold ==
    /\ \A n \in Nat, place, len \in Nat \ {0}, b \in Blocks :
         [pos |-> [file |-> n, at |-> place, size |-> len], block |-> b] \in Records
    /\ \A n, from, to \in Nat : [file |-> n, from |-> from, to |-> to] \in Extents
  BY DEF Records, Positions, Extents

\* An empty file holds nothing that could be lost.
LEMMA InitBlockInv == BlockInit => BlockInv
<1> SUFFICES ASSUME BlockInit PROVE BlockInv
  OBVIOUS
<1>1. /\ files = << << >> >> /\ size = 0 /\ scanned = TRUE
      /\ own = {} /\ kept = {} /\ torn = {}
  BY DEF BlockInit
<1>2. << >> \in Seq(Cell) /\ Len(files) = 1 /\ files[1] = << >>
  BY <1>1
<1>3. files \in Seq(Seq(Cell))
  BY <1>1, <1>2
<1> QED
  BY <1>1, <1>2, <1>3 DEF BlockInv, FilesTyped, KeptWhole, AllWhole, LengthsBegin, AllBegin, OwnIndexed

\* append_block: the frame is whole and indexed where it went.
LEMMA AppendKeeps ==
    ASSUME BlockInv, NEW b \in Blocks, AppendBlock(b)
    PROVE  BlockInv'
<1> DEFINE pos == [file |-> Len(files'), at |-> Offset(b) + 1, size |-> Size[b]]
           k == [pos |-> pos, block |-> b]
<1>1. /\ scanned /\ scanned' = scanned /\ torn' = torn
      /\ files' = Written(b, Frame(b)) /\ size' = Offset(b) + Len(Frame(b))
      /\ index' = index \union {pos} /\ own' = own \union {k} /\ kept' = kept \union {k}
  BY DEF AppendBlock
<1>2. /\ Size[b] \in Nat \ {0} /\ Frame(b) \in Seq(Cell) /\ Len(Frame(b)) = Size[b] + 1
      /\ Frame(b)[1] = <<"len", Size[b]>>
      /\ \A i \in 1..Size[b] : Frame(b)[i + 1] = <<b, i>>
  BY FrameCells
<1>3. FilesTyped /\ Len(Frame(b)) >= 1 /\ Len(Frame(b)) \in 1..Size[b] + 1
  BY <1>2 DEF BlockInv
<1>4. /\ files' \in Seq(Seq(Cell)) /\ Len(files') >= Len(files) /\ Offset(b) \in Nat
      /\ Len(files'[Len(files')]) = Offset(b) + Len(Frame(b))
      /\ \A i \in 1..Len(Frame(b)) : files'[Len(files')][Offset(b) + i] = Frame(b)[i]
  <2>1. Grown(files', Offset(b), Frame(b))
    BY <1>1, <1>2, <1>3, WritesBehind
  <2> QED
    BY <2>1 DEF Grown
<1>5. Len(files) >= 1 /\ Len(files) \in Nat /\ Len(files') \in Nat /\ Len(files') >= 1
  BY <1>3, <1>4 DEF FilesTyped
<1>6. k \in Records
  <2>1. Len(files') \in Nat /\ Offset(b) + 1 \in Nat \ {0} /\ Size[b] \in Nat \ {0}
    <3> DEFINE o == Offset(b)
    <3>1. o \in Nat
      BY <1>4
    <3> HIDE DEF o
    <3>2. o + 1 \in Nat \ {0}
      BY <3>1
    <3> QED
      BY <1>2, <1>5, <3>2 DEF o
  <2> QED
    BY <2>1, RecordsHold
<1>7. k.pos.file = Len(files') /\ k.pos.at = Offset(b) + 1 /\ k.pos.size = Size[b] /\ k.block = b
  OBVIOUS
<1> HIDE DEF k, pos
<1>8. Begins(kept', torn', Len(files'), Offset(b) + 1, Size[b])
  BY <1>1, <1>7 DEF Begins
<1>9. AllWhole(files', kept) /\ AllBegin(files', kept', torn')
  <2>1. PartOf(Frame(b), b)
    BY <1>2, <1>3 DEF PartOf
  <2> QED
    BY <1>1, <1>8, <2>1, WriteKeeps
<1>10. Whole(files', k)
  <2> DEFINE g == files'[Len(files')]
             place == Offset(b) + 1
             len == Size[b]
  <2>1. /\ len \in Nat \ {0} /\ place \in Nat \ {0} /\ Len(g) = place + len
        /\ \A i \in 1..len + 1 : g[place + i - 1] = Frame(b)[i]
    <3> DEFINE o == Offset(b)
    <3>1. /\ len \in Nat \ {0} /\ o \in Nat /\ place = o + 1 /\ Len(g) = o + (len + 1)
          /\ \A i \in 1..len + 1 : g[o + i] = Frame(b)[i]
      BY <1>2, <1>4
    <3> HIDE DEF o, g, place, len
    <3>2. place \in Nat \ {0} /\ Len(g) = place + len
      BY <3>1
    <3>3. ASSUME NEW i \in 1..len + 1 PROVE g[place + i - 1] = Frame(b)[i]
      <4>1. place + i - 1 = o + i
        BY <3>1
      <4> QED
        BY <3>1, <4>1
    <3> QED
      BY <3>1, <3>2, <3>3
  <2>2. Frame(b)[1] = <<"len", len>> /\ \A i \in 1..len : Frame(b)[i + 1] = <<b, i>>
    BY <1>2
  <2>3. ASSUME place + len <= Len(g), g[place] = <<"len", len>>,
               \A i \in 1..len : g[place + i] = <<b, i>>
        PROVE  Whole(files', k)
    <3>1. k.pos.at = place /\ k.pos.size = len /\ k.block = b /\ k.pos.file = Len(files')
      BY <1>7
    <3>2. Len(files') \in 1..Len(files') /\ g = files'[k.pos.file] /\ len = Size[k.block]
      BY <1>5, <1>7
    <3> HIDE DEF g, place, len
    <3> QED
      BY <2>3, <3>1, <3>2 DEF Whole
  <2> HIDE DEF g, place, len
  <2>4. g[place] = <<"len", len>>
    <3>1. 1 \in 1..len + 1 /\ place + 1 - 1 = place
      BY <2>1
    <3> QED
      BY <2>1, <2>2, <3>1
  <2>5. ASSUME NEW i \in 1..len PROVE g[place + i] = <<b, i>>
    <3>1. i + 1 \in 1..len + 1 /\ place + (i + 1) - 1 = place + i
      BY <2>1
    <3> QED
      BY <2>1, <2>2, <3>1
  <2>6. place + len <= Len(g)
    BY <2>1
  <2> QED
    BY <2>3, <2>4, <2>5, <2>6
<1>11. FilesTyped'
  BY <1>1, <1>3, <1>4, <1>5 DEF FilesTyped
<1>12. KeptWhole'
  BY <1>1, <1>6, <1>9, <1>10 DEF BlockInv, KeptWhole, AllWhole
<1>13. LengthsBegin'
  BY <1>1, <1>9 DEF BlockInv, LengthsBegin
<1>14. k.pos = pos
  BY DEF k
<1>15. OwnIndexed'
  BY <1>1, <1>14 DEF BlockInv, OwnIndexed
<1> QED
  BY <1>11, <1>12, <1>13, <1>15 DEF BlockInv

\* A crash in append_block leaves a torn extent and no other length.
LEMMA CrashAppendingKeeps ==
    ASSUME BlockInv, NEW b \in Blocks, NEW n \in 1..Size[b], CrashAppending(b, n)
    PROVE  BlockInv'
<1> DEFINE cells == SubSeq(Frame(b), 1, n)
           t == [file |-> Len(files'), from |-> Offset(b) + 1, to |-> Offset(b) + Len(Frame(b))]
<1>1. /\ scanned /\ scanned' = FALSE /\ own' = {} /\ kept' = kept
      /\ files' = Written(b, cells) /\ torn' = torn \union {t}
  BY DEF CrashAppending, Down
<1>2. Size[b] \in Nat \ {0} /\ Frame(b) \in Seq(Cell) /\ Len(Frame(b)) = Size[b] + 1
  BY FrameCells
<1>3. cells \in Seq(Cell) /\ Len(cells) = n /\ \A i \in 1..n : cells[i] = Frame(b)[i]
  BY <1>2
<1> HIDE DEF cells
<1>4. FilesTyped
  BY DEF BlockInv
<1>5. files' \in Seq(Seq(Cell)) /\ Len(files') >= Len(files) /\ Offset(b) \in Nat
  <2>1. Len(cells) >= 1
    BY <1>2, <1>3
  <2>2. Grown(files', Offset(b), cells)
    BY <1>1, <1>3, <1>4, <2>1, WritesBehind
  <2> QED
    BY <2>2 DEF Grown
<1>6. Len(files) >= 1 /\ Len(files) \in Nat /\ Len(files') \in Nat /\ Len(files') >= 1
  BY <1>4, <1>5 DEF FilesTyped
<1>7. t \in Extents
  <2> DEFINE o == Offset(b)
             len == Len(Frame(b))
  <2>1. Len(files') \in Nat /\ o \in Nat /\ Frame(b) \in Seq(Cell)
    BY <1>2, <1>5, <1>6
  <2>2. len \in Nat
    BY <2>1
  <2> HIDE DEF o, len
  <2>3. o + 1 \in Nat /\ o + len \in Nat
    BY <2>1, <2>2
  <2> QED
    BY <2>1, <2>3, RecordsHold DEF o, len
<1>8. Begins(kept', torn', Len(files'), Offset(b) + 1, Size[b])
  <2> DEFINE o == Offset(b)
             len == Size[b]
  <2>1. /\ t.file = Len(files') /\ t.from = o + 1 /\ t.to = o + (len + 1)
        /\ o \in Nat /\ len \in Nat
    BY <1>2, <1>5
  <2> HIDE DEF t, o, len
  <2>2. t.to = o + 1 + len
    BY <2>1
  <2> QED
    BY <1>1, <2>1, <2>2 DEF Begins, o, len
<1> HIDE DEF t
<1>9. Len(cells) \in 1..Size[b] + 1
  BY <1>2, <1>3
<1>10. AllWhole(files', kept) /\ AllBegin(files', kept', torn')
  <2>1. PartOf(cells, b)
    BY <1>3, <1>9 DEF PartOf
  <2> QED
    BY <1>1, <1>8, <2>1, WriteKeeps
<1>11. FilesTyped'
  BY <1>1, <1>5, <1>6 DEF FilesTyped
<1>12. KeptWhole'
  BY <1>1, <1>10 DEF BlockInv, KeptWhole
<1>13. LengthsBegin'
  BY <1>1, <1>7, <1>10 DEF BlockInv, LengthsBegin
<1>14. OwnIndexed'
  BY <1>1 DEF OwnIndexed
<1> QED
  BY <1>11, <1>12, <1>13, <1>14 DEF BlockInv

\* A crash between two appends leaves the files as they are.
LEMMA CrashIdleKeeps == ASSUME BlockInv, CrashIdle PROVE BlockInv'
BY DEF BlockInv, CrashIdle, Down, FilesTyped, KeptWhole, LengthsBegin, OwnIndexed

\* scan_existing: the size is that of the last file again.
LEMMA ScanAtStartKeeps == ASSUME BlockInv, ScanAtStart PROVE BlockInv'
<1>1. /\ ~scanned /\ scanned' = TRUE /\ size' = TailSize /\ files' = files
      /\ own' = own /\ kept' = kept /\ torn' = torn
  BY DEF ScanAtStart
<1>2. TailSize = Len(files[Len(files)])
  BY DEF TailSize, Last
<1> QED
  BY <1>1, <1>2 DEF BlockInv, FilesTyped, KeptWhole, LengthsBegin, OwnIndexed

\* The inductive invariant of the block files holds throughout: what is kept is
\* whole, and every length in a file begins a kept frame or a torn one.
THEOREM BlockInvariant == BlockSpec => []BlockInv
<1>1. ASSUME BlockInv, [BlockNext]_blockVars PROVE BlockInv'
  <2>1. CASE UNCHANGED blockVars
    BY <1>1, <2>1 DEF blockVars, BlockInv, FilesTyped, KeptWhole, LengthsBegin, OwnIndexed
  <2> QED
    BY <1>1, <2>1, AppendKeeps, CrashAppendingKeeps, CrashIdleKeeps, ScanAtStartKeeps
       DEF BlockNext
<1> QED
  BY <1>1, InitBlockInv, PTL DEF BlockSpec

\* read_block returns what was kept, from where it was put.
LEMMA KeptReads ==
    ASSUME BlockInv, NEW k \in kept
    PROVE  Reads(k.pos, k.block)
<1> DEFINE cells == files[k.pos.file]
<1>1. k \in Records /\ Whole(files, k)
  BY DEF BlockInv, KeptWhole, AllWhole
<1>2. /\ k.pos.file \in 1..Len(files) /\ k.pos.size = Size[k.block]
      /\ k.pos.at \in Nat \ {0} /\ k.pos.size \in Nat \ {0}
      /\ k.pos.at + k.pos.size <= Len(cells)
      /\ cells[k.pos.at] = <<"len", k.pos.size>>
      /\ \A i \in 1..k.pos.size : cells[k.pos.at + i] = <<k.block, i>>
  BY <1>1 DEF Records, Positions, Whole
<1>3. cells \in Seq(Cell)
  BY <1>2 DEF BlockInv, FilesTyped
<1> DEFINE place == k.pos.at
           len == k.pos.size
<1>4. Payload(k.block) = [i \in 1..len |-> <<k.block, i>>]
  BY <1>2 DEF Payload
<1>5. Reads(k.pos, k.block) <=>
        /\ place <= Len(cells) /\ cells[place] = <<"len", len>>
        /\ SubSeq(cells, place + 1, place + len) = Payload(k.block)
  BY DEF Reads
<1>6. /\ place \in Nat \ {0} /\ len \in Nat \ {0} /\ place + len <= Len(cells)
      /\ cells[place] = <<"len", len>>
      /\ \A i \in 1..len : cells[place + i] = <<k.block, i>>
  BY <1>2
<1> HIDE DEF cells, place, len
<1>7. SubSeq(cells, place + 1, place + len) = [i \in 1..len |-> cells[place + i]]
  BY <1>3, <1>6
<1>8. SubSeq(cells, place + 1, place + len) = Payload(k.block)
  BY <1>4, <1>6, <1>7
<1>9. place <= Len(cells)
  BY <1>3, <1>6
<1> QED
  BY <1>5, <1>6, <1>8, <1>9

\* What a running daemon appended it reads back, over rotations, crashes in the
\* middle of a frame and the starts behind them.
THEOREM OwnBlocksAreRead == BlockSpec => []OwnBlocksRead
<1>1. BlockInv => OwnBlocksRead
  BY KeptReads DEF BlockInv, OwnIndexed, OwnBlocksRead
<1> QED
  BY <1>1, BlockInvariant, PTL

\* A frame that no torn one reaches over is laid where a scan must find it.
LEMMA KeptIsLaid ==
    ASSUME BlockInv, NEW k \in kept, \A t \in torn : ~InExtent(k, t)
    PROVE  Laid(files[k.pos.file], k.pos.at)
<1> DEFINE n == k.pos.file
           f == files[n]
           c == k.pos.at
           len == k.pos.size
<1>1. k \in Records /\ Whole(files, k)
  BY DEF BlockInv, KeptWhole, AllWhole
<1>2. /\ n \in 1..Len(files) /\ c \in Nat \ {0} /\ len \in Nat \ {0} /\ c + len <= Len(f)
      /\ f[c] = <<"len", len>> /\ \A i \in 1..len : f[c + i] = <<k.block, i>>
      /\ k.block \in Blocks
  BY <1>1 DEF Records, Positions, Whole
<1>3. f \in Seq(Cell) /\ Len(f) \in Nat
  BY <1>2 DEF BlockInv, FilesTyped
<1>4. IsFrame(f, c)
  <2> HIDE DEF n, f, c, len
  <2>1. f[c + 1] = <<k.block, 1>>
    BY <1>2
  <2> QED
    BY <1>2, <2>1, BlockAssumption DEF IsFrame, End
<1>5. ASSUME NEW place \in 1..c - 1, IsFrame(f, place) PROVE End(f, place) < c
  <2>1. f[place][1] = "len" /\ place \in 1..Len(f) /\ f[place] \in Cell
    <3> HIDE DEF f, c, len
    <3> QED
      BY <1>2, <1>3, <1>5 DEF IsFrame
  <2>2. Begins(kept, torn, n, place, f[place][2])
    BY <1>2, <2>1 DEF BlockInv, LengthsBegin, AllBegin
  <2>3. f[place][2] \in Nat
    BY <2>1 DEF Cell
  <2>4. CASE \E j \in kept : j.pos.file = n /\ j.pos.at = place
    <3>1. PICK j \in kept : j.pos.file = n /\ j.pos.at = place
      BY <2>4
    <3>2. /\ j.pos.size \in Nat \ {0} /\ j.block \in Blocks
          /\ f[place] = <<"len", j.pos.size>>
          /\ \A i \in 1..j.pos.size : f[place + i] = <<j.block, i>>
      BY <3>1 DEF BlockInv, KeptWhole, AllWhole, Records, Positions, Whole
    <3> HIDE DEF f, c, n, len
    <3>3. ASSUME c <= place + j.pos.size PROVE FALSE
      <4> DEFINE i == c - place
      <4>1. i \in 1..j.pos.size /\ c = place + i
        <5>1. c \in Nat /\ place \in 1..c - 1 /\ j.pos.size \in Nat /\ c <= place + j.pos.size
          BY <1>2, <1>5, <3>2, <3>3
        <5> QED
          BY <5>1
      <4> HIDE DEF i
      <4>2. f[c] = <<j.block, i>>
        BY <3>2, <4>1
      <4> QED
        BY <1>2, <3>2, <4>2, BlockAssumption
    <3>4. End(f, place) = place + j.pos.size
      BY <3>2 DEF End
    <3> QED
      BY <1>2, <1>5, <3>2, <3>3, <3>4
  <2>5. CASE \E t \in torn : t.file = n /\ t.from = place /\ t.to = place + f[place][2]
    <3>1. PICK t \in torn : t.file = n /\ t.from = place /\ t.to = place + f[place][2]
      BY <2>5
    <3>2. ~(t.from <= c /\ c <= t.to)
      BY <3>1 DEF InExtent
    <3> HIDE DEF f, c, n, len
    <3> QED
      BY <1>2, <1>5, <2>3, <3>1, <3>2 DEF End
  <2> QED
    BY <2>2, <2>4, <2>5 DEF Begins
<1> HIDE DEF f, c, n, len
<1>6. c \in 1..Len(f)
  BY <1>2, <1>3
<1>7. Laid(f, c)
  BY <1>3, <1>4, <1>5, <1>6 DEF Laid
<1> QED
  BY <1>7 DEF f, c, n

\* A scan falls into step again behind whatever crashes left: it finds every
\* frame that was written whole and that no torn frame reaches over.
THEOREM ScanFallsIntoStep == BlockSpec => []ScanResyncs
<1>1. ASSUME BlockInv, NEW k \in kept, \A t \in torn : ~InExtent(k, t)
      PROVE  k.pos \in Scanned
  <2>1. k.pos.at \in Scan(files[k.pos.file])
    BY <1>1, KeptIsLaid, ScanFinds
  <2>2. /\ k.pos \in Positions /\ k.pos.file \in 1..Len(files)
        /\ files[k.pos.file][k.pos.at] = <<"len", k.pos.size>>
    BY <1>1 DEF BlockInv, KeptWhole, AllWhole, Whole, Records
  <2>3. k.pos = Position(k.pos.file, k.pos.at)
    BY <2>2 DEF Position, Positions
  <2> QED
    BY <2>1, <2>2, <2>3 DEF Scanned
<1>2. BlockInv => ScanResyncs
  BY <1>1 DEF ScanResyncs
<1> QED
  BY <1>2, BlockInvariant, PTL

-----------------------------------------------------------------------------
(* Types and limits *)

\* No file is over its limit, and the index names files that are there.
WithinLimits ==
    /\ \A n \in 1..Len(files) : Len(files[n]) <= MaxFileSize
    /\ \A pos \in index : pos.file \in 1..Len(files)

\* A frame, or a part of one, goes where there is room for it.
LEMMA WriteStaysWithin ==
    ASSUME FilesTyped, scanned, WithinLimits, NEW b \in Blocks,
           NEW cells \in Seq(Cell), Len(cells) \in 1..Size[b] + 1, files' = Written(b, cells)
    PROVE  \A n \in 1..Len(files') : Len(files'[n]) <= MaxFileSize
<1> DEFINE fs == files'
<1>1. Len(cells) >= 1 /\ fs = Written(b, cells) /\ Size[b] \in Nat /\ Size[b] < MaxFileSize
  BY BlockAssumption
<1> HIDE DEF fs
<1>2. Grown(fs, Offset(b), cells)
  BY <1>1, WritesBehind
<1>3. size \in Nat /\ MaxFileSize \in Nat
  BY BlockAssumption DEF FilesTyped
<1>4. Offset(b) + (Size[b] + 1) <= MaxFileSize
  <2>1. Len(Frame(b)) = Size[b] + 1
    BY FrameCells
  <2>2. CASE Rotates(b)
    BY <1>1, <1>3, <2>2 DEF Offset
  <2>3. CASE ~Rotates(b)
    <3>1. ~(size + (Size[b] + 1) > MaxFileSize) /\ Offset(b) = size
      BY <2>1, <2>3 DEF Rotates, Offset
    <3> QED
      BY <1>1, <1>3, <3>1
  <2> QED
    BY <2>2, <2>3
<1>5. ASSUME NEW n \in 1..Len(fs) PROVE Len(fs[n]) <= MaxFileSize
  <2>1. Len(fs[n]) \in Nat
    BY <1>2 DEF Grown
  <2>2. CASE n = Len(fs)
    <3> DEFINE o == Offset(b)
               len == Len(cells)
               max == Size[b]
    <3>1. /\ Len(fs[n]) = o + len /\ o \in Nat /\ len \in Nat /\ max \in Nat /\ len <= max + 1
          /\ o + (max + 1) <= MaxFileSize
      BY <1>1, <1>2, <1>4, <2>2 DEF Grown
    <3> HIDE DEF o, len, max
    <3> QED
      BY <1>3, <3>1
  <2>3. CASE n # Len(fs) /\ Len(fs[n]) > 0
    <3>1. Len(fs[n]) \in 1..Len(fs[n])
      BY <2>1, <2>3
    <3>2. n \in 1..Len(files) /\ Len(fs[n]) \in 1..Len(files[n])
      BY <1>2, <2>3, <3>1 DEF Grown
    <3>3. Len(files[n]) \in Nat /\ Len(files[n]) <= MaxFileSize
      BY <3>2 DEF WithinLimits, FilesTyped
    <3> QED
      BY <1>3, <3>2, <3>3
  <2>4. CASE Len(fs[n]) = 0
    BY <1>3, <2>4
  <2> QED
    BY <2>1, <2>2, <2>3, <2>4
<1> QED
  BY <1>5 DEF fs

\* Every step stays within the limit of a file.
LEMMA LimitsKept ==
    ASSUME BlockInv, WithinLimits, BlockNext
    PROVE  WithinLimits'
<1>1. FilesTyped
  BY DEF BlockInv
<1>2. ASSUME NEW b \in Blocks, AppendBlock(b) PROVE WithinLimits'
  <2>1. /\ scanned /\ files' = Written(b, Frame(b))
        /\ \E place, len : index' = index \union {[file |-> Len(files'), at |-> place, size |-> len]}
    BY <1>2 DEF AppendBlock
  <2>2. Frame(b) \in Seq(Cell) /\ Len(Frame(b)) \in 1..Size[b] + 1 /\ Len(Frame(b)) >= 1
    BY FrameCells
  <2>3. \A n \in 1..Len(files') : Len(files'[n]) <= MaxFileSize
    BY <1>1, <2>1, <2>2, WriteStaysWithin
  <2>4. files' \in Seq(Seq(Cell)) /\ Len(files') >= Len(files)
    <3>1. Grown(files', Offset(b), Frame(b))
      BY <1>1, <2>1, <2>2, WritesBehind
    <3> QED
      BY <3>1 DEF Grown
  <2>5. Len(files) \in Nat /\ Len(files) >= 1 /\ Len(files') \in Nat
    BY <1>1, <2>4 DEF FilesTyped
  <2>6. \A pos \in index' : pos.file \in 1..Len(files')
    BY <2>1, <2>4, <2>5 DEF WithinLimits
  <2> QED
    BY <2>3, <2>6 DEF WithinLimits
<1>3. ASSUME NEW b \in Blocks, NEW n \in 1..Size[b], CrashAppending(b, n) PROVE WithinLimits'
  <2> DEFINE cells == SubSeq(Frame(b), 1, n)
  <2>1. scanned /\ index' = {} /\ files' = Written(b, cells)
    BY <1>3 DEF CrashAppending, Down
  <2>2. Frame(b) \in Seq(Cell) /\ Len(Frame(b)) = Size[b] + 1 /\ Size[b] \in Nat \ {0}
    BY FrameCells
  <2>3. cells \in Seq(Cell) /\ Len(cells) \in 1..Size[b] + 1
    BY <2>2
  <2> HIDE DEF cells
  <2>4. \A m \in 1..Len(files') : Len(files'[m]) <= MaxFileSize
    BY <1>1, <2>1, <2>3, WriteStaysWithin
  <2> QED
    BY <2>1, <2>4 DEF WithinLimits
<1>4. CASE CrashIdle
  BY <1>4 DEF CrashIdle, Down, WithinLimits
<1>5. CASE ScanAtStart
  <2>1. index' = Scanned /\ files' = files
    BY <1>5 DEF ScanAtStart
  <2>2. \A pos \in Scanned : pos.file \in 1..Len(files)
    BY DEF Scanned, Position
  <2> QED
    BY <2>1, <2>2 DEF WithinLimits
<1> QED
  BY <1>2, <1>3, <1>4, <1>5 DEF BlockNext

\* The variables keep their types, no file passes kMaxBlockFileSize whatever
\* crashes left in it, and the size the next offset is computed from is that of
\* the last file.
THEOREM BlockTypeCorrect == BlockSpec => []BlockTypeOK
<1>1. BlockInit => WithinLimits
  BY BlockAssumption DEF BlockInit, WithinLimits
<1>2. ASSUME BlockInv, WithinLimits, [BlockNext]_blockVars PROVE WithinLimits'
  <2>1. CASE UNCHANGED blockVars
    BY <1>2, <2>1 DEF blockVars, WithinLimits
  <2> QED
    BY <1>2, <2>1, LimitsKept
<1>3. BlockInv /\ WithinLimits => BlockTypeOK
  BY DEF BlockInv, FilesTyped, WithinLimits, BlockTypeOK, Cell, Last
<1> QED
  BY <1>1, <1>2, <1>3, BlockInvariant, PTL DEF BlockSpec
-----------------------------------------------------------------------------
(* The escrow of a flag book *)

\* A lock that passes escrow_lock is the full product: the check by division
\* keeps the multiplication from wrapping.
LEMMA LockIsProduct ==
    ASSUME NEW max \in Nat, NEW bounty \in Nat, EscrowOk(max, bounty)
    PROVE  EscrowLock(max, bounty) = bounty * max
<1>1. CASE max = 0
  BY <1>1, UMaxAssumption DEF EscrowOk, EscrowLock
<1>2. CASE max # 0
  <2>1. bounty <= UMax \div max /\ max > 0
    BY <1>2 DEF EscrowOk
  <2>2. (UMax \div max) * max <= UMax /\ UMax \div max \in Nat
    BY <2>1, UMaxAssumption
  <2>3. bounty * max <= (UMax \div max) * max
    BY <2>1, <2>2
  <2>4. bounty * max \in 0..UMax
    BY <2>2, <2>3, UMaxAssumption
  <2>5. \A n \in 0..UMax : n % (UMax + 1) = n
    BY UMaxAssumption
  <2> QED
    BY <2>4, <2>5 DEF EscrowLock
<1> QED
  BY <1>1, <1>2

\* What is left of a lock after one more bounty is one bounty less.
LEMMA OneLess ==
    ASSUME NEW b \in Nat, NEW m \in Nat, NEW n \in Nat
    PROVE  b * (m - n) - b = b * (m - (n + 1))
<1> DEFINE d == m - (n + 1)
<1>1. d \in Int /\ m - n = d + 1
  OBVIOUS
<1> HIDE DEF d
<1>2. b * (d + 1) - b = b * d
  BY <1>1
<1> QED
  BY <1>1, <1>2 DEF d

FlagInv == FlagTypeOK /\ EscrowBalances /\ OneClaimEach

\* What the invariant says of one flag.
Sane(flag) ==
    /\ flag \in Flag
    /\ flag.max # 0 => Len(flag.claims) <= flag.max
    /\ flag.escrow = IF flag.max = 0 THEN 0
                     ELSE flag.bounty * (flag.max - Len(flag.claims))
    /\ flag.max = 0 => flag.bounty = 0
    /\ \A i, j \in 1..Len(flag.claims) :
         flag.claims[i].who = flag.claims[j].who => i = j

\* The invariant holds when it holds of every flag by itself.
LEMMA InvByFlag ==
    FlagInv <=> /\ DOMAIN flagBook \subseteq {c.flag : c \in Creates}
             /\ flagBook = [f \in DOMAIN flagBook |-> flagBook[f]]
             /\ applyHeight \in Nat
             /\ \A f \in DOMAIN flagBook : Sane(flagBook[f])
BY DEF FlagInv, FlagTypeOK, EscrowBalances, OneClaimEach, Sane

\* A new flag has its whole lock in escrow.
LEMMA NewFlagSane ==
    ASSUME NEW c \in Creates, EscrowOk(c.max, c.bounty) PROVE Sane(NewFlag(c))
<1>1. c.max \in Nat /\ c.bounty \in Nat /\ c.expires \in Nat
  BY FlagTxAssumption
<1>2. EscrowLock(c.max, c.bounty) = c.bounty * c.max
  BY <1>1, LockIsProduct
<1>3. c.bounty * c.max \in Nat
  BY <1>1
<1>4. NewFlag(c) \in Flag
  BY <1>1, <1>2, <1>3 DEF NewFlag, Flag
<1>5. c.max = 0 => c.bounty = 0 /\ c.bounty * c.max = 0
  BY <1>1 DEF EscrowOk
<1>6. c.bounty * (c.max - 0) = c.bounty * c.max
  BY <1>1
<1> QED
  BY <1>1, <1>2, <1>4, <1>5, <1>6 DEF Sane, NewFlag

\* A first claim takes one bounty out of escrow and closes one claim.
LEMMA ClaimedFlagSane ==
    ASSUME NEW flag, Sane(flag), NEW c \in Claims,
           Payable(flag, c, applyHeight), ~HasClaimed(flag, c.who)
    PROVE  Sane([flag EXCEPT !.escrow = @ - flag.bounty,
                             !.claims = Append(@, [who |-> c.who, txid |-> c.txid])])
<1> DEFINE e == [who |-> c.who, txid |-> c.txid]
           new == [flag EXCEPT !.escrow = @ - flag.bounty, !.claims = Append(@, e)]
<1>1. /\ flag \in Flag /\ flag.bounty \in Nat /\ flag.escrow \in Nat /\ flag.max \in Nat
      /\ flag.claims \in Seq(Entry) /\ Len(flag.claims) \in Nat
  BY DEF Sane, Flag
<1>2. e \in Entry
  BY DEF Entry
<1>3. new.claims = Append(flag.claims, e) /\ Len(new.claims) = Len(flag.claims) + 1
  BY <1>1, <1>2 DEF Flag
<1>4. new.escrow = flag.escrow - flag.bounty /\ new.escrow \in Nat
  BY <1>1 DEF Payable, Flag
<1>5. new \in Flag
  <2>1. new.claims \in Seq(Entry)
    BY <1>1, <1>2, <1>3
  <2> DEFINE mid == [flag EXCEPT !.escrow = flag.escrow - flag.bounty]
  <2>2. mid.escrow = flag.escrow - flag.bounty /\ mid.claims = flag.claims
    BY <1>1 DEF Flag
  <2>3. flag.escrow - flag.bounty \in Nat
    BY <1>1 DEF Payable
  <2>4. mid \in Flag
    BY <1>1, <2>3 DEF Flag
  <2>5. new = [mid EXCEPT !.claims = Append(flag.claims, e)]
    BY <1>1, <2>2 DEF Flag
  <2>6. Append(flag.claims, e) \in Seq(Entry)
    BY <1>1, <1>2
  <2> HIDE DEF mid, e
  <2> QED
    BY <2>4, <2>5, <2>6 DEF Flag
<1>6. new.max = flag.max /\ new.bounty = flag.bounty
  BY <1>1 DEF Flag
<1>7. new.max # 0 => Len(new.claims) <= new.max
  BY <1>1, <1>3, <1>6 DEF Payable
<1>8. new.escrow = IF new.max = 0 THEN 0 ELSE new.bounty * (new.max - Len(new.claims))
  <2>1. CASE flag.max = 0
    BY <1>1, <1>4, <1>6, <2>1 DEF Sane
  <2>2. CASE flag.max # 0
    <3>1. flag.escrow = flag.bounty * (flag.max - Len(flag.claims))
      BY <2>2 DEF Sane
    <3>2. flag.bounty * (flag.max - Len(flag.claims)) - flag.bounty
            = flag.bounty * (flag.max - (Len(flag.claims) + 1))
      BY <1>1, OneLess
    <3> QED
      BY <1>3, <1>4, <1>6, <2>2, <3>1, <3>2
  <2> QED
    BY <2>1, <2>2
<1>9. \A i, j \in 1..Len(new.claims) : new.claims[i].who = new.claims[j].who => i = j
  <2>1. \A i \in 1..Len(flag.claims) :
          new.claims[i] = flag.claims[i] /\ flag.claims[i].who # c.who
    BY <1>1, <1>2, <1>3 DEF HasClaimed
  <2>2. new.claims[Len(flag.claims) + 1].who = c.who
    BY <1>1, <1>2, <1>3
  <2>3. \A i, j \in 1..Len(flag.claims) : flag.claims[i].who = flag.claims[j].who => i = j
    BY DEF Sane
  <2>4. \A i \in 1..Len(new.claims) : i \in 1..Len(flag.claims) \/ i = Len(flag.claims) + 1
    BY <1>1, <1>3
  <2> QED
    BY <2>1, <2>2, <2>3, <2>4
<1> HIDE DEF new
<1>10. Sane(new)
  BY <1>5, <1>6, <1>7, <1>8, <1>9 DEF Sane
<1> QED
  BY <1>10 DEF new

\* The empty book satisfies the invariant.
LEMMA InitFlagInv == FlagInit => FlagInv
<1> SUFFICES ASSUME FlagInit PROVE FlagInv
  OBVIOUS
<1>1. flagBook = [f \in {} |-> {}] /\ applyHeight = 1 /\ DOMAIN flagBook = {}
  BY DEF FlagInit, EmptyBook
<1> QED
  BY <1>1 DEF FlagInv, FlagTypeOK, EscrowBalances, OneClaimEach

\* A create adds a flag with its whole lock, or changes nothing.
LEMMA CreateKeeps == ASSUME FlagInv, NEW c \in Creates, Create(c) PROVE FlagInv'
<1>1. CASE c.flag \in DOMAIN flagBook
  <2>1. UNCHANGED flagVars
    BY <1>1 DEF Create, AfterCreate, flagVars
  <2> QED
    BY <2>1 DEF flagVars, FlagInv, FlagTypeOK, EscrowBalances, OneClaimEach
<1>2. CASE c.flag \notin DOMAIN flagBook
  <2>1. /\ flagBook' = [f \in DOMAIN flagBook \union {c.flag} |->
                       IF f = c.flag THEN NewFlag(c) ELSE flagBook[f]]
        /\ applyHeight' = applyHeight /\ EscrowOk(c.max, c.bounty)
    BY <1>2 DEF Create, AfterCreate, CreateOk
  <2>2. \A f \in DOMAIN flagBook' : Sane(flagBook'[f])
    BY <2>1, NewFlagSane, InvByFlag
  <2>3. /\ DOMAIN flagBook' \subseteq {d.flag : d \in Creates}
        /\ flagBook' = [f \in DOMAIN flagBook' |-> flagBook'[f]]
        /\ applyHeight' \in Nat
    BY <2>1, InvByFlag
  <2>4. FlagTypeOK'
    BY <2>2, <2>3 DEF FlagTypeOK, Sane
  <2> QED
    BY <2>2, <2>4 DEF FlagInv, EscrowBalances, OneClaimEach, Sane
<1> QED
  BY <1>1, <1>2

\* A claim pays one bounty of one flag, or changes nothing.
LEMMA ClaimKeeps == ASSUME FlagInv, NEW c \in Claims, Claim(c) PROVE FlagInv'
<1>1. CASE HasClaimed(flagBook[c.flag], c.who)
  <2>1. UNCHANGED flagVars
    BY <1>1 DEF Claim, AfterClaim, flagVars
  <2> QED
    BY <2>1 DEF flagVars, FlagInv, FlagTypeOK, EscrowBalances, OneClaimEach
<1>2. CASE ~HasClaimed(flagBook[c.flag], c.who)
  <2> DEFINE flag == flagBook[c.flag]
             new == [flag EXCEPT !.escrow = @ - flag.bounty,
                                 !.claims = Append(@, [who |-> c.who, txid |-> c.txid])]
  <2>1. c.flag \in DOMAIN flagBook /\ Payable(flag, c, applyHeight) /\ applyHeight' = applyHeight
    BY <1>2 DEF Claim, ClaimOk
  <2>2. flagBook' = [flagBook EXCEPT ![c.flag].escrow = @ - flagBook[c.flag].bounty,
                      ![c.flag].claims = Append(@, [who |-> c.who, txid |-> c.txid])]
    BY <1>2 DEF Claim, AfterClaim
  <2>3. DOMAIN flagBook' = DOMAIN flagBook /\ flagBook' = [f \in DOMAIN flagBook' |-> flagBook'[f]]
    BY <2>1, <2>2, InvByFlag
  <2>4. flagBook'[c.flag] = new
    BY <2>1, <2>2, <2>3, InvByFlag DEF Sane, Flag
  <2>5. \A f \in DOMAIN flagBook : f # c.flag => flagBook'[f] = flagBook[f]
    BY <2>1, <2>2, InvByFlag
  <2>6. Sane(flagBook[c.flag])
    BY <2>1, InvByFlag
  <2>7. Sane(new)
    BY <1>2, <2>1, <2>6, ClaimedFlagSane
  <2> HIDE DEF new
  <2>8. \A f \in DOMAIN flagBook' : Sane(flagBook'[f])
    BY <2>3, <2>4, <2>5, <2>7, InvByFlag
  <2>9. FlagTypeOK'
    BY <2>1, <2>3, <2>8, InvByFlag DEF FlagTypeOK, Sane
  <2> QED
    BY <2>8, <2>9 DEF FlagInv, EscrowBalances, OneClaimEach, Sane
<1> QED
  BY <1>1, <1>2

\* No step breaks the invariant.
LEMMA NextKeeps == ASSUME FlagInv, [FlagNext]_flagVars PROVE FlagInv'
<1>1. CASE UNCHANGED flagVars
  BY <1>1 DEF flagVars, FlagInv, FlagTypeOK, EscrowBalances, OneClaimEach
<1>2. CASE NextHeight
  BY <1>2 DEF NextHeight, FlagInv, FlagTypeOK, EscrowBalances, OneClaimEach
<1> QED
  BY <1>1, <1>2, CreateKeeps, ClaimKeeps DEF FlagNext

\* The invariant of the flag book: type, escrow and claims of every flag.
THEOREM FlagInvariant == FlagSpec => []FlagInv
BY InitFlagInv, NextKeeps, PTL DEF FlagSpec

\* The book keeps its type: in particular the escrow never goes below zero.
THEOREM FlagTypeCorrect == FlagSpec => []FlagTypeOK
<1>1. FlagInv => FlagTypeOK
  BY DEF FlagInv
<1> QED
  BY <1>1, FlagInvariant, PTL

\* Every flag holds in escrow exactly one bounty for each claim still open.
THEOREM EscrowIsBalanced == FlagSpec => []EscrowBalances
<1>1. FlagInv => EscrowBalances
  BY DEF FlagInv
<1> QED
  BY <1>1, FlagInvariant, PTL

\* No recipient is recorded twice by one flag.
THEOREM NobodyPaidTwice == FlagSpec => []OneClaimEach
<1>1. FlagInv => OneClaimEach
  BY DEF FlagInv
<1> QED
  BY <1>1, FlagInvariant, PTL

\* What is recorded counts as claimed, so it is accepted and changes nothing.
LEMMA TakenIsAccepted ==
    ASSUME NEW bk, NEW c, TakenBy(bk, c), NEW h
    PROVE  ClaimOk(bk, c, h) /\ AfterClaim(bk, c) = bk
<1>1. PICK i \in 1..Len(bk[c.flag].claims) :
         bk[c.flag].claims[i] = [who |-> c.who, txid |-> c.txid]
  BY DEF TakenBy, Recorded
<1>2. bk[c.flag].claims[i].who = c.who
  BY <1>1
<1>3. HasClaimed(bk[c.flag], c.who)
  BY <1>2 DEF HasClaimed
<1> QED
  BY <1>3 DEF ClaimOk, AfterClaim, TakenBy

\* A create leaves every flag as it was.
LEMMA CreateKeepsTaken ==
    ASSUME NEW d \in Creates, Create(d), NEW c \in Claims, TakenBy(flagBook, c)
    PROVE  TakenBy(flagBook', c)
<1>1. c.flag \in DOMAIN flagBook' /\ flagBook'[c.flag] = flagBook[c.flag]
  BY DEF Create, AfterCreate, TakenBy
<1> QED
  BY <1>1 DEF TakenBy

\* A claim adds to the records of its flag and to no other.
LEMMA ClaimKeepsTaken ==
    ASSUME FlagInv, NEW d \in Claims, Claim(d), NEW c \in Claims, TakenBy(flagBook, c)
    PROVE  TakenBy(flagBook', c)
<1>1. CASE HasClaimed(flagBook[d.flag], d.who)
  <2>1. flagBook' = flagBook
    BY <1>1 DEF Claim, AfterClaim
  <2> QED
    BY <2>1 DEF TakenBy
<1>2. CASE ~HasClaimed(flagBook[d.flag], d.who)
  <2> DEFINE e == [who |-> d.who, txid |-> d.txid]
             old == flagBook[d.flag].claims
  <2>1. d.flag \in DOMAIN flagBook
    BY DEF Claim, ClaimOk
  <2>2. flagBook' = [flagBook EXCEPT ![d.flag].escrow = @ - flagBook[d.flag].bounty,
                                     ![d.flag].claims = Append(@, e)]
    BY <1>2 DEF Claim, AfterClaim
  <2>3. old \in Seq(Entry) /\ e \in Entry
    BY <2>1, InvByFlag DEF Sane, Flag, Entry
  <2>4. DOMAIN flagBook' = DOMAIN flagBook /\ flagBook'[d.flag].claims = Append(old, e)
    BY <2>1, <2>2, InvByFlag DEF Sane, Flag
  <2>5. \A f \in DOMAIN flagBook : f # d.flag => flagBook'[f] = flagBook[f]
    BY <2>1, <2>2, InvByFlag
  <2> HIDE DEF e, old
  <2>6. /\ Len(Append(old, e)) = Len(old) + 1 /\ Len(old) \in Nat
        /\ \A i \in 1..Len(old) : Append(old, e)[i] = old[i]
    BY <2>3
  <2>7. CASE c.flag = d.flag
    <3>1. PICK i \in 1..Len(old) : old[i] = [who |-> c.who, txid |-> c.txid]
      BY <2>7 DEF TakenBy, Recorded, old
    <3>2. i \in 1..Len(Append(old, e)) /\ Append(old, e)[i] = [who |-> c.who, txid |-> c.txid]
      BY <2>6, <3>1
    <3> QED
      BY <2>1, <2>4, <2>7, <3>2 DEF TakenBy, Recorded
  <2>8. CASE c.flag # d.flag
    BY <2>4, <2>5, <2>8 DEF TakenBy
  <2> QED
    BY <2>7, <2>8
<1> QED
  BY <1>1, <1>2

\* A recorded claim stays recorded, acceptable and without effect, whatever
\* creates and claims are applied to the book before it is reset (flags.hpp).
THEOREM RecordedStays == FlagSpec => RecordedClaimStays
<1>1. ASSUME FlagInv, [FlagNext]_flagVars, NEW c \in Claims, TakenBy(flagBook, c)
      PROVE  TakenBy(flagBook', c)
  <2>1. CASE UNCHANGED flagBook
    BY <1>1, <2>1 DEF TakenBy
  <2> QED
    BY <1>1, <2>1, CreateKeepsTaken, ClaimKeepsTaken DEF FlagNext, NextHeight, flagVars
<1>2. ASSUME FlagInv, [FlagNext]_flagVars
      PROVE  \A c \in Claims : TakenBy(flagBook, c) =>
                /\ TakenBy(flagBook', c)
                /\ ClaimOk(flagBook', c, applyHeight')
                /\ AfterClaim(flagBook', c) = flagBook'
  BY <1>1, <1>2, TakenIsAccepted
<1> QED
  BY <1>2, FlagInvariant, PTL DEF FlagSpec, RecordedClaimStays
=============================================================================
