---------------------------- MODULE BlockPoolProofs ----------------------------
(***************************************************************************)
(* Proofs about BlockPool, for every set of peers, every limit of the pool *)
(* and every number of lost peers, timeouts and bad blocks.                *)
(***************************************************************************)
EXTENDS BlockPool, FiniteSetTheorems, TLAPS

\* The pool never has more requesters than it may, and makeRequestersRoutine, once
\* it has found that there is room, still finds it when it comes back.
Room ==
  /\ Cardinality(Requested) <= maxTotalRequesters
  /\ making = "makeNextRequester" => Cardinality(Requested) < maxTotalRequesters

\* What the step of a requester tells about its fields: it holds no peer while it
\* picks one, only a height that the peers have gets one, and the block it holds
\* is from the peer it is assigned to.
SoundRequester(h, r) ==
  /\ r \in Requester
  /\ r.pc = "pick" => r.picked = NoPeer
  /\ r.pc = "assign" => r.picked \in Peers
  /\ r.pc \in {"pick", "assign"} => r.peerID = NoPeer /\ r.block = NoBlock
  /\ r.pc \in {"wait", "got", "reset"} => r.picked = NoPeer /\ r.peerID \in Peers
  /\ r.pc # "pick" => h <= MaxHeight
  /\ r.block # NoBlock => r.block = r.peerID

Requesters == \A h \in Requested : SoundRequester(h, requesters[h])

\* The height AddBlock holds pool.mtx for, and the two that poolRoutine has looked
\* at, keep their requesters.
InUse ==
  /\ adding # NotAdding => adding.height \in Requested
  /\ routine # Idle => {height, height + 1} \subseteq Requested /\ height < MaxHeight

IInv ==
  /\ TypeOK /\ Room /\ Requesters /\ InUse
  /\ RequestersContiguous /\ HandedOver

-----------------------------------------------------------------------------
(***************************************************************************)
(* Lemmas.                                                                 *)
(***************************************************************************)

\* The constants, and the heights that have a requester.
LEMMA Basics ==
  ASSUME IInv
  PROVE  /\ MaxHeight \in Nat \ {0} /\ maxTotalRequesters \in Nat \ {0} /\ MaxDrops \in Nat
         /\ Heights \subseteq Nat /\ IsFiniteSet(Heights)
         /\ height \in Nat /\ drops \in Nat
         /\ Requested \subseteq Heights /\ IsFiniteSet(Requested)
         /\ Cardinality(Requested) \in Nat
         /\ IsFiniteSet(Missing) /\ Cardinality(Missing) \in Nat
<1>1. /\ MaxHeight \in Nat \ {0} /\ maxTotalRequesters \in Nat \ {0} /\ MaxDrops \in Nat
  BY PoolAssumption
<1>2. Heights \subseteq Nat /\ IsFiniteSet(Heights)
  BY <1>1, FS_Interval DEF Heights
<1>3. height \in Nat /\ drops \in Nat /\ Requested \subseteq Heights
  BY <1>1 DEF IInv, TypeOK
<1>4. IsFiniteSet(Requested)
  BY Zenon, <1>2, <1>3, FS_Subset
<1>5. IsFiniteSet(Missing)
  BY <1>4, FS_Subset DEF Missing
<1>6. QED
  BY <1>1, <1>2, <1>3, <1>4, <1>5, FS_CardinalityType

\* A peer's count may grow; that of a new peer is zero.
LEMMA NewValues ==
  (\A x \in Peer : x.pending + 1 \in Int) /\ newBPPeer.pending = 0
  BY DEF Peer, newBPPeer

\* One more height at the upper end of an interval.
LEMMA IntervalGrows ==
  ASSUME NEW a \in Nat, NEW c \in Nat
  PROVE  (a..(a + c - 1)) \cup {a + c} = a..(a + c)
  OBVIOUS

\* One less at its lower end.
LEMMA IntervalShrinks ==
  ASSUME NEW a \in Nat, NEW b \in Int
  PROVE  (a..b) \ {a} = (a + 1)..b
  OBVIOUS

\* A step that leaves the requesters alone keeps what is said of them.
LEMMA RequestersKept ==
  ASSUME IInv, UNCHANGED <<height, requesters, adding>>,
         making' \in {making, "status"}, routine' \in {routine, Idle}
  PROVE  Room' /\ Requesters' /\ InUse' /\ RequestersContiguous' /\ HandedOver'
<1>1. UNCHANGED <<Requested, Missing>>
  BY DEF Requested, Missing
<1>2. Room' /\ InUse' /\ RequestersContiguous'
  BY <1>1 DEF IInv, Room, InUse, RequestersContiguous
<1>3. Requesters' /\ HandedOver'
  BY <1>1 DEF IInv, Requesters, HandedOver, SoundRequester
<1>4. QED
  BY <1>2, <1>3

\* So does a step that replaces one requester by a sound one.
LEMMA RequesterReplaced ==
  ASSUME IInv, NEW h \in Requested, NEW r,
         requesters' = [requesters EXCEPT ![h] = r],
         SoundRequester(h, r),
         r.block # NoBlock => h = adding'.height \/ r.pc \in {"got", "reset"},
         adding' # NotAdding => adding'.height \in Requested,
         adding' = adding \/ adding = NotAdding \/ (adding.height = h /\ adding' = NotAdding),
         UNCHANGED <<height, making, routine>>
  PROVE  /\ Requested' = Requested
         /\ \A k \in Requested' : requesters'[k] \in Requester
         /\ Room' /\ Requesters' /\ InUse' /\ RequestersContiguous' /\ HandedOver'
<1>1. Requested' = Requested
  BY DEF Requested
<1>2. requesters'[h] = r /\ \A k \in Requested \ {h} : requesters'[k] = requesters[k]
  BY DEF Requested
<1>3. Requesters'
  <2>1. ASSUME NEW k \in Requested PROVE SoundRequester(k, requesters'[k])
    BY <1>2 DEF IInv, Requesters
  <2>2. QED
    BY <1>1, <2>1 DEF Requesters, SoundRequester
<1>4. \A k \in Requested' : requesters'[k] \in Requester
  <2>1. \A k \in Requested : requesters[k] \in Requester
    BY DEF IInv, TypeOK
  <2>2. r \in Requester
    BY DEF SoundRequester
  <2>3. QED
    BY <1>1, <1>2, <2>1, <2>2
<1>5. Room' /\ InUse' /\ RequestersContiguous'
  BY <1>1 DEF IInv, Room, InUse, RequestersContiguous
<1>6. HandedOver'
  <2>1. ASSUME NEW k \in Requested, requesters'[k].block # NoBlock
        PROVE  k = adding'.height \/ requesters'[k].pc \in {"got", "reset"}
    <3>1. CASE k = h
      BY <1>2, <2>1, <3>1
    <3>2. CASE k # h
      <4>1. k \in Requested \ Missing
        BY <1>2, <2>1, <3>2 DEF Missing
      <4>2. k = adding.height \/ requesters[k].pc \in {"got", "reset"}
        BY <4>1 DEF IInv, HandedOver
      <4>3. k # 0
        BY Basics DEF Heights
      <4>4. QED
        BY <1>2, <3>2, <4>2, <4>3 DEF NotAdding
    <3>3. QED
      BY <3>1, <3>2
  <2>2. QED
    BY <1>1, <2>1 DEF HandedOver, Missing
<1>7. QED
  BY <1>1, <1>3, <1>4, <1>5, <1>6

\* removePeer leaves the counts of redos and of pending requests numbers.
LEMMA RemovePeersTypes ==
  ASSUME IInv, NEW P, removePeers(P)
  PROVE  redos' \in [Heights -> Nat] /\ numPending' \in Int /\ timers' \subseteq Peers
<1> DEFINE hit == {h \in Requested : requesters[h].peerID \in P}
<1>1. /\ redos' = [h \in Heights |-> redos[h] + IF h \in hit THEN 1 ELSE 0]
      /\ numPending' = numPending + Cardinality(hit \ Missing)
      /\ timers' = timers \cup {p \in P \cap DOMAIN peers : peers[p].monitored}
  BY DEF removePeers
<1>2. hit \ Missing \subseteq Requested
  OBVIOUS
<1>3. Cardinality(hit \ Missing) \in Nat
  <2> HIDE DEF hit
  <2> QED BY SMTT(30), <1>2, Basics, FS_Subset, FS_CardinalityType
<1>4. redos' \in [Heights -> Nat]
  BY <1>1 DEF IInv, TypeOK
<1>5. numPending' \in Int
  BY <1>1, <1>3 DEF IInv, TypeOK
<1>6. timers' \subseteq Peers
  BY <1>1 DEF IInv, TypeOK
<1>7. QED
  BY <1>4, <1>5, <1>6

\* The reactor's RemovePeer keeps the types of what it changes.
LEMMA RemovePeerTypes ==
  ASSUME IInv, NEW p \in Peers, RemovePeer(p)
  PROVE  /\ redos' \in [Heights -> Nat] /\ numPending' \in Int /\ timers' \subseteq Peers
         /\ DOMAIN peers' \subseteq Peers /\ \A q \in DOMAIN peers' : peers'[q] \in Peer
         /\ wire' \subseteq [height : Heights, peer : Peers]
         /\ received' \subseteq [height : Heights \cup {Status}, peer : Peers]
         /\ connected' \subseteq Peers
<1>1. redos' \in [Heights -> Nat] /\ numPending' \in Int /\ timers' \subseteq Peers
  BY RemovePeersTypes DEF RemovePeer
<1>2. DOMAIN peers' \subseteq Peers /\ \A q \in DOMAIN peers' : peers'[q] \in Peer
  BY DEF RemovePeer, Restrict, IInv, TypeOK
<1>3. wire' \subseteq wire /\ connected' \subseteq connected
  BY DEF RemovePeer
<1>4. received' \subseteq received \cup wire \cup {[height |-> Status, peer |-> p]}
  BY DEF RemovePeer
<1>5. /\ wire \subseteq [height : Heights, peer : Peers] /\ connected \subseteq Peers
      /\ received \subseteq [height : Heights \cup {Status}, peer : Peers]
  BY DEF IInv, TypeOK
<1>6. [height |-> Status, peer |-> p] \in [height : Heights \cup {Status}, peer : Peers]
  OBVIOUS
<1>7. wire \subseteq [height : Heights \cup {Status}, peer : Peers]
  BY <1>5
<1>8. received' \subseteq [height : Heights \cup {Status}, peer : Peers]
  BY <1>4, <1>5, <1>6, <1>7
<1>9. QED
  BY <1>1, <1>2, <1>3, <1>5, <1>8

-----------------------------------------------------------------------------
(***************************************************************************)
(* The inductive invariant.                                                *)
(***************************************************************************)

\* A pool that has just been made has no requesters and knows no peer.
LEMMA InitIInv == Init => IInv
<1> SUFFICES ASSUME Init PROVE IInv
  OBVIOUS
<1>1. MaxHeight \in Nat \ {0} /\ maxTotalRequesters \in Nat \ {0} /\ MaxDrops \in Nat
  BY PoolAssumption
<1>2. Requested = {} /\ DOMAIN peers = {} /\ Missing = {}
  BY DEF Init, Requested, Missing
<1>3. redos \in [Heights -> Nat] /\ height \in 1..MaxHeight /\ drops \in 0..MaxDrops
  BY <1>1 DEF Init
<1>4. TypeOK
  <2>a. panicked \in BOOLEAN
    BY Zenon DEF Init
  <2>1. numPending \in Int /\ making = "status" /\ adding = NotAdding /\ routine = Idle
    BY DEF Init
  <2>2. /\ requestsCh \cup wire = {} /\ received = {} /\ recovered = {}
        /\ timers \cup timeoutsCh \cup connected = Peers
    BY DEF Init
  <2>3. QED
    BY <1>2, <1>3, <2>a, <2>1, <2>2 DEF TypeOK
<1>5. Room /\ Requesters /\ InUse /\ HandedOver
  BY <1>1, <1>2, FS_EmptySet DEF Init, Room, Requesters, InUse, HandedOver
<1>6. RequestersContiguous
  BY <1>2, FS_EmptySet DEF Init, RequestersContiguous
<1>7. QED
  BY <1>4, <1>5, <1>6 DEF IInv

\* The steps of makeRequestersRoutine.
LEMMA MakeRequestersPreserves == ASSUME IInv, MakeRequestersRoutine PROVE IInv'
<1>a. /\ MaxHeight \in Nat \ {0} /\ maxTotalRequesters \in Nat \ {0} /\ MaxDrops \in Nat
      /\ Heights \subseteq Nat /\ height \in Nat /\ drops \in Nat
      /\ Requested \subseteq Heights /\ IsFiniteSet(Requested)
      /\ Cardinality(Requested) \in Nat
  BY Basics
<1>1. CASE GetStatus
  <2>1. /\ making' \in {"removeTimedoutPeers", "makeNextRequester"}
        /\ making' = "makeNextRequester" => ~(Cardinality(Requested) >= maxTotalRequesters)
        /\ UNCHANGED <<height, requesters, redos, numPending, peers, timers, adding,
                       requestsCh, timeoutsCh, routine, connected, wire, received,
                       drops, recovered, panicked>>
    BY <1>1 DEF GetStatus
  <2>2. UNCHANGED <<Requested, Missing>>
    BY <2>1 DEF Requested, Missing
  <2>3. TypeOK'
    BY <2>1, <2>2 DEF IInv, TypeOK
  <2>4. Room'
    BY SMTT(30), <1>a, <2>1, <2>2 DEF IInv, Room
  <2>5. Requesters' /\ InUse' /\ RequestersContiguous' /\ HandedOver'
    BY <2>1, <2>2
    DEF IInv, Requesters, InUse, RequestersContiguous, HandedOver, SoundRequester
  <2>6. QED
    BY <2>3, <2>4, <2>5 DEF IInv
<1>2. CASE makeNextRequester
  <2> DEFINE next == height + Cardinality(Requested)
  <2>1. /\ making = "makeNextRequester" /\ making' = "status"
        /\ requesters' = [h \in Requested \cup {next} |->
                            IF h = next THEN newBPRequester ELSE requesters[h]]
        /\ numPending' = numPending + 1
        /\ UNCHANGED <<height, redos, peers, timers, adding, requestsCh, timeoutsCh,
                       routine, connected, wire, received, drops, recovered, panicked>>
    BY <1>2 DEF makeNextRequester
  <2>2. Cardinality(Requested) < maxTotalRequesters
    BY <2>1 DEF IInv, Room
  <2>3. next \in Heights /\ next \notin Requested
    <3>1. Requested = height..(height + Cardinality(Requested) - 1)
      BY DEF IInv, RequestersContiguous
    <3>2. height <= MaxHeight /\ height >= 1
      BY <1>a DEF IInv, TypeOK
    <3>3. QED
      BY <1>a, <2>2, <3>1, <3>2 DEF Heights
  <2> HIDE DEF next
  <2>4. /\ Requested' = Requested \cup {next}
        /\ requesters'[next] = newBPRequester
        /\ \A h \in Requested : requesters'[h] = requesters[h]
    BY <2>1, <2>3 DEF Requested
  <2>5. Cardinality(Requested') = Cardinality(Requested) + 1
    BY Zenon, <1>a, <2>3, <2>4, FS_AddElement
  <2>6. newBPRequester \in Requester /\ SoundRequester(next, newBPRequester)
    BY DEF newBPRequester, Requester, SoundRequester, NoBlock
  <2>7. Requesters'
    <3>1. \A h \in Requested' : SoundRequester(h, requesters'[h])
      BY <2>4, <2>6 DEF IInv, Requesters
    <3>2. QED
      BY <3>1 DEF Requesters, SoundRequester
  <2>8. TypeOK'
    <3>1. \A h \in Requested' : requesters'[h] \in Requester
      BY <2>4, <2>6 DEF IInv, TypeOK
    <3>2. Requested' \subseteq Heights
      BY <1>a, <2>3, <2>4
    <3>3. numPending' \in Int
      BY <2>1 DEF IInv, TypeOK
    <3>4. QED
      BY Zenon, <2>1, <3>1, <3>2, <3>3 DEF IInv, TypeOK
  <2>9. Room'
    BY <1>a, <2>1, <2>2, <2>5 DEF Room
  <2>10. InUse'
    BY <2>1, <2>4 DEF IInv, InUse
  <2>11. RequestersContiguous'
    <3>1. Requested = height..(height + Cardinality(Requested) - 1)
      BY DEF IInv, RequestersContiguous
    <3>2. Requested' = height..(height + Cardinality(Requested))
      BY Zenon, <1>a, <2>4, <3>1, IntervalGrows DEF next
    <3>3. QED
      BY <1>a, <2>1, <2>5, <3>2 DEF RequestersContiguous
  <2>12. HandedOver'
    <3>1. Requested' \ Missing' \subseteq Requested \ Missing
      BY <2>4 DEF Missing, newBPRequester, NoBlock
    <3>2. QED
      BY <2>1, <2>4, <3>1 DEF IInv, HandedOver
  <2>13. QED
    BY <2>7, <2>8, <2>9, <2>10, <2>11, <2>12 DEF IInv
<1>3. CASE removeTimedoutPeers
  <2>1. PICK slow \in SUBSET DOMAIN peers, gone \in SUBSET DOMAIN peers :
          /\ drops + Cardinality(slow) <= MaxDrops
          /\ drops' = drops + Cardinality(slow)
          /\ timeoutsCh' = timeoutsCh \cup slow
          /\ removePeers(gone)
          /\ peers' = Restrict(peers, DOMAIN peers \ gone)
    BY Zenon, <1>3 DEF removeTimedoutPeers
  <2>2. /\ making' = "status"
        /\ UNCHANGED <<height, requesters, adding, requestsCh, routine, connected,
                       wire, received, recovered, panicked>>
    BY <1>3 DEF removeTimedoutPeers
  <2>3. Room' /\ Requesters' /\ InUse' /\ RequestersContiguous' /\ HandedOver'
    BY SMTT(30), <2>2, RequestersKept
  <2>4. TypeOK'
    <3>1. Cardinality(slow) \in Nat
      <4>1. slow \subseteq Peers
        BY DEF IInv, TypeOK
      <4>2. QED
        BY SMTT(30), <4>1, PoolAssumption, FS_Subset, FS_CardinalityType
    <3>2. drops' \in 0..MaxDrops
      BY <1>a, <2>1, <3>1
    <3>3. redos' \in [Heights -> Nat] /\ numPending' \in Int /\ timers' \subseteq Peers
      BY <2>1, RemovePeersTypes
    <3>4. DOMAIN peers' \subseteq Peers /\ \A q \in DOMAIN peers' : peers'[q] \in Peer
      BY SMTT(30), <2>1 DEF Restrict, IInv, TypeOK
    <3>5. timeoutsCh' \subseteq Peers
      BY <2>1 DEF IInv, TypeOK
    <3>6. QED
      BY SMTT(30), <2>2, <3>2, <3>3, <3>4, <3>5 DEF IInv, TypeOK, Requested
  <2>5. QED
    BY <2>3, <2>4 DEF IInv
<1>4. QED
  BY <1>1, <1>2, <1>3 DEF MakeRequestersRoutine

\* The steps of the goroutine of a requester.
LEMMA RequestRoutinePreserves ==
  ASSUME IInv, NEW h \in Heights, RequestRoutine(h) PROVE IInv'
<1> DEFINE r == requesters[h]
<1>a. h \in Requested /\ r \in Requester /\ SoundRequester(h, r)
  BY DEF RequestRoutine, pickIncrAvailablePeer, sendRequest, takeRedo, reset,
         IInv, TypeOK, Requesters
<1>b. adding # NotAdding => adding.height \in Requested
  BY DEF IInv, InUse
<1>c. r.block # NoBlock => h = adding.height \/ r.pc \in {"got", "reset"}
  BY <1>a DEF IInv, HandedOver, Missing
<1>1. CASE pickIncrAvailablePeer(h)
  <2>1. PICK gone \in SUBSET DOMAIN peers :
          /\ removePeers(gone)
          /\ \/ /\ h <= MaxHeight
                /\ \E p \in DOMAIN peers :
                     /\ peers' = [q \in DOMAIN peers \ gone |->
                                    IF q = p THEN incrPending(peers[q]) ELSE peers[q]]
                     /\ requesters' = [requesters EXCEPT ![h].pc = "assign", ![h].picked = p]
             \/ /\ peers' = Restrict(peers, DOMAIN peers \ gone)
                /\ UNCHANGED requesters
    BY Zenon, <1>1 DEF pickIncrAvailablePeer
  <2>2. /\ r.pc = "pick"
        /\ UNCHANGED <<height, adding, requestsCh, timeoutsCh, routine, connected,
                       wire, received, drops, making, recovered, panicked>>
    BY <1>1 DEF pickIncrAvailablePeer
  <2>3. DOMAIN peers' \subseteq Peers /\ \A q \in DOMAIN peers' : peers'[q] \in Peer
    <3>1. ASSUME NEW q \in DOMAIN peers
          PROVE  peers[q] \in Peer /\ incrPending(peers[q]) \in Peer
      <4>1. peers[q] \in Peer
        BY SMTT(30) DEF IInv, TypeOK
      <4>2. (peers[q].monitored \/ peers[q].pending = 0) \in BOOLEAN
        BY Zenon
      <4>3. peers[q].pending + 1 \in Int
        BY Zenon, <4>1, NewValues
      <4>4. PICK b \in BOOLEAN, c \in Int :
              incrPending(peers[q]) = [peers[q] EXCEPT !.pending = c, !.monitored = b]
        BY <4>2, <4>3, Zenon DEF incrPending
      <4>5. QED
        BY Zenon, <4>1, <4>4 DEF Peer
    <3>2. QED
      BY <2>1, <3>1 DEF IInv, TypeOK, Restrict
  <2>4. redos' \in [Heights -> Nat] /\ numPending' \in Int /\ timers' \subseteq Peers
    BY <2>1, RemovePeersTypes
  <2>5. /\ Requested' \subseteq Heights /\ \A k \in Requested' : requesters'[k] \in Requester
        /\ Room' /\ Requesters' /\ InUse' /\ RequestersContiguous' /\ HandedOver'
    <3>1. ASSUME NEW p \in DOMAIN peers, h <= MaxHeight,
                 requesters' = [requesters EXCEPT ![h].pc = "assign", ![h].picked = p]
          PROVE  /\ Requested' \subseteq Heights /\ \A k \in Requested' : requesters'[k] \in Requester
                 /\ Room' /\ Requesters' /\ InUse' /\ RequestersContiguous' /\ HandedOver'
      <4> DEFINE s == [r EXCEPT !.pc = "assign", !.picked = p]
      <4>1. requesters' = [requesters EXCEPT ![h] = s]
        BY Zenon, <1>a, <3>1 DEF Requested
      <4>2. p \in Peers
        BY DEF IInv, TypeOK
      <4>3. SoundRequester(h, s) /\ s.block = NoBlock
        BY Zenon, <1>a, <2>2, <3>1, <4>2 DEF SoundRequester, Requester, NoBlock
      <4> HIDE DEF s
      <4>4. QED
        BY Zenon, <1>a, <1>b, <2>2, <4>1, <4>3, RequesterReplaced, Basics
    <3>2. ASSUME UNCHANGED requesters
          PROVE  /\ Requested' \subseteq Heights /\ \A k \in Requested' : requesters'[k] \in Requester
                 /\ Room' /\ Requesters' /\ InUse' /\ RequestersContiguous' /\ HandedOver'
      <4>1. Requested' = Requested
        BY <3>2 DEF Requested
      <4>2. Requested' \subseteq Heights /\ \A k \in Requested' : requesters'[k] \in Requester
        BY ZenonT(30), <3>2, <4>1 DEF IInv, TypeOK
      <4>3. Room' /\ Requesters' /\ InUse' /\ RequestersContiguous' /\ HandedOver'
        BY Zenon, <2>2, <3>2, RequestersKept
      <4>4. QED
        BY Zenon, <4>2, <4>3
    <3>3. QED
      BY <2>1, <3>1, <3>2
  <2>6. TypeOK'
    BY Zenon, <2>2, <2>3, <2>4, <2>5 DEF IInv, TypeOK
  <2>7. QED
    BY <2>5, <2>6 DEF IInv
<1>2. CASE sendRequest(h)
  <2> DEFINE p == r.picked
             s == [r EXCEPT !.pc = "wait", !.peerID = p, !.picked = NoPeer]
  <2>1. /\ r.pc = "assign"
        /\ requesters' = [requesters EXCEPT ![h].pc = "wait", ![h].peerID = p,
                                            ![h].picked = NoPeer]
        /\ requestsCh' = requestsCh \cup {[height |-> h, peer |-> p]}
        /\ UNCHANGED <<height, redos, numPending, peers, timers, adding, timeoutsCh,
                       routine, connected, wire, received, drops, making, recovered,
                       panicked>>
    BY <1>2 DEF sendRequest
  <2>2. requesters' = [requesters EXCEPT ![h] = s]
    BY Zenon, <1>a, <2>1 DEF Requested
  <2>3. p \in Peers /\ SoundRequester(h, s) /\ s.block = NoBlock
    BY Zenon, <1>a, <2>1 DEF SoundRequester, Requester, NoBlock
  <2>4. /\ Requested' = Requested /\ \A k \in Requested' : requesters'[k] \in Requester
        /\ Room' /\ Requesters' /\ InUse' /\ RequestersContiguous' /\ HandedOver'
    <3> HIDE DEF s
    <3> QED BY ZenonT(30), <1>a, <1>b, <2>1, <2>2, <2>3, RequesterReplaced
  <2>5. requestsCh' \cup wire' \subseteq [height : Heights, peer : Peers]
    BY <2>1, <2>3 DEF IInv, TypeOK
  <2>6. TypeOK'
    BY Zenon, <2>1, <2>4, <2>5 DEF IInv, TypeOK
  <2>7. QED
    BY <2>4, <2>6 DEF IInv
<1>3. CASE takeRedo(h)
  <2> DEFINE s == [r EXCEPT !.pc = "reset"]
  <2>1. /\ r.pc \in {"wait", "got"} /\ redos[h] > 0
        /\ redos' = [redos EXCEPT ![h] = @ - 1]
        /\ requesters' = [requesters EXCEPT ![h] = s]
        /\ UNCHANGED <<height, numPending, peers, timers, adding, requestsCh,
                       timeoutsCh, routine, connected, wire, received, drops, making,
                       recovered, panicked>>
    BY <1>3 DEF takeRedo
  <2>2. SoundRequester(h, s) /\ s.pc = "reset"
    BY <1>a, <2>1 DEF SoundRequester, Requester
  <2>3. /\ Requested' = Requested /\ \A k \in Requested' : requesters'[k] \in Requester
        /\ Room' /\ Requesters' /\ InUse' /\ RequestersContiguous' /\ HandedOver'
    <3> HIDE DEF s
    <3> QED BY Zenon, <1>a, <1>b, <2>1, <2>2, RequesterReplaced
  <2>4. redos' \in [Heights -> Nat]
    BY <2>1 DEF IInv, TypeOK
  <2>5. TypeOK'
    BY <2>1, <2>3, <2>4 DEF IInv, TypeOK
  <2>6. QED
    BY <2>3, <2>5 DEF IInv
<1>4. CASE reset(h)
  <2>1. /\ requesters' = [requesters EXCEPT ![h] = newBPRequester]
        /\ UNCHANGED <<height, redos, numPending, peers, timers, adding, requestsCh,
                       timeoutsCh, routine, connected, wire, received, drops, making,
                       recovered, panicked>>
    BY <1>4 DEF reset
  <2>2. SoundRequester(h, newBPRequester) /\ newBPRequester.block = NoBlock
    BY DEF newBPRequester, Requester, SoundRequester, NoBlock
  <2>3. /\ Requested' = Requested /\ \A k \in Requested' : requesters'[k] \in Requester
        /\ Room' /\ Requesters' /\ InUse' /\ RequestersContiguous' /\ HandedOver'
    BY ZenonT(30), <1>a, <1>b, <2>1, <2>2, RequesterReplaced
  <2>4. TypeOK'
    BY <2>1, <2>3 DEF IInv, TypeOK
  <2>5. QED
    BY <2>3, <2>4 DEF IInv
<1>5. QED
  BY SMTT(30), <1>1, <1>2, <1>3, <1>4 DEF RequestRoutine

\* The steps that take a block from a peer.
LEMMA ReceiveBlockPreserves == ASSUME IInv, ReceiveBlock PROVE IInv'
<1>b. adding # NotAdding => adding.height \in Requested
  BY DEF IInv, InUse
<1>1. ASSUME NEW m \in wire \cup received, AddBlock(m) PROVE IInv'
  <2> DEFINE h == m.height
             taken == /\ h \in Requested
                      /\ requesters[h].block = NoBlock
                      /\ requesters[h].peerID = m.peer
  <2>1. /\ MutexFree /\ h # Status
        /\ wire' = wire \ {m} /\ received' = received \ {m}
        /\ UNCHANGED <<height, redos, numPending, peers, timers, requestsCh,
                       timeoutsCh, routine, connected, drops, making, recovered,
                       panicked>>
    BY <1>1 DEF AddBlock
  <2>2. m \in [height : Heights, peer : Peers]
    BY <2>1 DEF IInv, TypeOK
  <2>3. adding' \in [height : Heights, peer : Peers] \cup {NotAdding}
    BY SMTT(30), <1>1, <2>1, <2>2 DEF AddBlock, IInv, TypeOK
  <2>4. /\ Requested' \subseteq Heights /\ \A k \in Requested' : requesters'[k] \in Requester
        /\ Room' /\ Requesters' /\ InUse' /\ RequestersContiguous' /\ HandedOver'
    <3>1. CASE taken
      <4> DEFINE r == requesters[h]
                 s == [r EXCEPT !.block = m.peer]
      <4>1. requesters' = [requesters EXCEPT ![h] = s] /\ adding' = m /\ adding = NotAdding
        BY <1>1, <2>1, <3>1 DEF AddBlock, MutexFree
      <4>2. SoundRequester(h, r) /\ h \in Requested /\ r.peerID = m.peer /\ m.peer \in Peers
        BY SMTT(30), <2>2, <3>1 DEF IInv, Requesters
      <4>3. SoundRequester(h, s)
        BY <4>2, PoolAssumption DEF SoundRequester, Requester, Block
      <4>4. h = adding'.height
        BY SMTT(30), <4>1
      <4> HIDE DEF s, r, h
      <4>5. QED
        BY Zenon, <2>1, <4>1, <4>2, <4>3, <4>4, RequesterReplaced, Basics
    <3>2. CASE ~taken
      <4>1. UNCHANGED <<requesters, adding>>
        BY SMTT(30), <1>1, <3>2 DEF AddBlock
      <4>2. QED
        BY <2>1, <4>1, RequestersKept DEF IInv, TypeOK, Requested
    <3>3. QED
      BY <3>1, <3>2
  <2>5. TypeOK'
    BY Zenon, <2>1, <2>3, <2>4 DEF IInv, TypeOK
  <2>6. QED
    BY <2>4, <2>5 DEF IInv
<1>2. CASE gotBlock
  <2> DEFINE h == adding.height
             p == adding.peer
             r == requesters[h]
             s == [r EXCEPT !.pc = "got"]
  <2>1. /\ adding # NotAdding /\ adding' = NotAdding
        /\ r.pc = "wait"
        /\ requesters' = [requesters EXCEPT ![h] = s]
        /\ numPending' = numPending - 1
        /\ UNCHANGED <<height, redos, timers, requestsCh, timeoutsCh, routine,
                       connected, wire, received, drops, making, panicked>>
    BY <1>2 DEF gotBlock
  <2>2. \/ UNCHANGED <<peers, recovered>>
        \/ /\ p \in DOMAIN peers
           /\ peers' = [peers EXCEPT ![p].pending = @ - 1]
           /\ recovered' \subseteq recovered \cup {p}
    BY <1>2 DEF gotBlock
  <2>3. h \in Requested /\ SoundRequester(h, r)
    BY <1>b, <2>1 DEF IInv, Requesters
  <2>4. SoundRequester(h, s) /\ s.pc = "got"
    BY <2>1, <2>3 DEF SoundRequester, Requester
  <2>5. /\ Requested' = Requested /\ \A k \in Requested' : requesters'[k] \in Requester
        /\ Room' /\ Requesters' /\ InUse' /\ RequestersContiguous' /\ HandedOver'
    <3> HIDE DEF s
    <3> QED BY Zenon, <2>1, <2>3, <2>4, RequesterReplaced
  <2>6. DOMAIN peers' \subseteq Peers /\ \A q \in DOMAIN peers' : peers'[q] \in Peer
    <3>1. CASE UNCHANGED peers
      BY <3>1 DEF IInv, TypeOK
    <3>2. CASE p \in DOMAIN peers /\ peers' = [peers EXCEPT ![p].pending = @ - 1]
      <4>1. \A q \in DOMAIN peers : peers[q] \in Peer
        BY DEF IInv, TypeOK
      <4>2. [peers[p] EXCEPT !.pending = @ - 1] \in Peer
        BY <3>2, <4>1 DEF Peer
      <4>3. peers' = [peers EXCEPT ![p] = [peers[p] EXCEPT !.pending = @ - 1]]
        BY <3>2
      <4>4. DOMAIN peers \subseteq Peers
        BY DEF IInv, TypeOK
      <4>5. QED
        BY SMTT(30), <4>1, <4>2, <4>3, <4>4
    <3>3. QED
      BY <2>2, <3>1, <3>2
  <2>7. numPending' \in Int /\ recovered' \subseteq Peers
    BY <2>1, <2>2 DEF IInv, TypeOK
  <2>8. TypeOK'
    BY <2>1, <2>5, <2>6, <2>7 DEF IInv, TypeOK
  <2>9. QED
    BY <2>5, <2>8 DEF IInv
<1>3. QED
  BY <1>1, <1>2 DEF ReceiveBlock

\* A status response.
LEMMA SetPeerHeightPreserves ==
  ASSUME IInv, NEW p \in Peers, SetPeerHeight(p) PROVE IInv'
<1>1. /\ peers' = [q \in DOMAIN peers \cup {p} |-> IF q = p THEN newBPPeer ELSE peers[q]]
      /\ received' \subseteq received
      /\ UNCHANGED <<height, requesters, redos, numPending, timers, adding,
                     requestsCh, timeoutsCh, routine, connected, wire, drops,
                     making, recovered, panicked>>
  BY DEF SetPeerHeight
<1>2. newBPPeer \in Peer
  BY DEF newBPPeer, Peer
<1>3. DOMAIN peers' \subseteq Peers /\ \A q \in DOMAIN peers' : peers'[q] \in Peer
  BY SMTT(30), <1>1, <1>2 DEF IInv, TypeOK
<1>4. TypeOK'
  BY SMTT(30), <1>1, <1>3 DEF IInv, TypeOK, Requested
<1>5. QED
  BY <1>1, <1>4, RequestersKept DEF IInv

\* Lost peers, timeouts, recovered panics and new connections.
LEMMA FaultPreserves == ASSUME IInv, Fault PROVE IInv'
<1>a. drops \in Nat /\ MaxDrops \in Nat
  BY Basics
<1>1. ASSUME NEW p \in Peers, Disconnect(p) PROVE IInv'
  <2>1. /\ drops < MaxDrops /\ drops' = drops + 1 /\ RemovePeer(p)
        /\ UNCHANGED <<height, requesters, adding, requestsCh, timeoutsCh, routine,
                       making, recovered, panicked>>
    BY <1>1 DEF Disconnect
  <2>2. drops' \in 0..MaxDrops
    BY SMTT(30), <1>a, <2>1
  <2>3. TypeOK'
    BY Zenon, <2>1, <2>2, RemovePeerTypes DEF IInv, TypeOK, Requested
  <2>4. QED
    BY <2>1, <2>3, RequestersKept DEF IInv
<1>2. ASSUME NEW p \in Peers, onTimeout(p) PROVE IInv'
  <2>1. /\ drops < MaxDrops /\ drops' = drops + 1
        /\ timeoutsCh' = timeoutsCh \cup {p} /\ timers' \subseteq timers
        /\ UNCHANGED <<height, requesters, redos, numPending, adding, requestsCh,
                       routine, connected, wire, received, making, recovered,
                       panicked>>
    BY <1>2 DEF onTimeout
  <2>2. \/ UNCHANGED peers
        \/ p \in DOMAIN peers /\ peers' = [peers EXCEPT ![p].didTimeout = TRUE]
    BY <1>2 DEF onTimeout
  <2>3. drops' \in 0..MaxDrops
    BY <1>a, <2>1
  <2>4. DOMAIN peers' \subseteq Peers /\ \A q \in DOMAIN peers' : peers'[q] \in Peer
    <3>1. DOMAIN peers \subseteq Peers /\ \A q \in DOMAIN peers : peers[q] \in Peer
      BY DEF IInv, TypeOK
    <3>2. ASSUME p \in DOMAIN peers
          PROVE  [peers[p] EXCEPT !.didTimeout = TRUE] \in Peer
      BY ZenonT(30), <3>1, <3>2 DEF Peer
    <3>3. QED
      BY Zenon, <2>2, <3>1, <3>2
  <2>5. TypeOK'
    BY <2>1, <2>3, <2>4 DEF IInv, TypeOK, Requested
  <2>6. QED
    BY <2>1, <2>5, RequestersKept DEF IInv
<1>3. ASSUME NEW p \in Peers, stopForError(p) PROVE IInv'
  <2>1. /\ recovered' \subseteq recovered
        /\ UNCHANGED <<height, requesters, adding, requestsCh, timeoutsCh, routine,
                       making, panicked>>
    BY <1>3 DEF stopForError
  <2>2. CASE drops < MaxDrops /\ drops' = drops + 1 /\ RemovePeer(p)
    <3>1. drops' \in 0..MaxDrops
      BY <1>a, <2>2
    <3>2. TypeOK'
      BY Zenon, <2>1, <2>2, <3>1, RemovePeerTypes DEF IInv, TypeOK, Requested
    <3>3. QED
      BY <2>1, <3>2, RequestersKept DEF IInv
  <2>3. CASE UNCHANGED <<redos, numPending, peers, timers, connected, wire, received, drops>>
    <3>1. TypeOK'
      BY <2>1, <2>3 DEF IInv, TypeOK, Requested
    <3>2. QED
      BY <2>1, <3>1, RequestersKept DEF IInv
  <2>4. QED
    BY <1>3, <2>2, <2>3 DEF stopForError
<1>4. ASSUME NEW p \in Peers, Connect(p) PROVE IInv'
  <2>1. /\ connected' = connected \cup {p}
        /\ UNCHANGED <<height, requesters, redos, numPending, peers, timers, adding,
                       requestsCh, timeoutsCh, routine, wire, received, drops, making,
                       recovered, panicked>>
    BY SMTT(30), <1>4 DEF Connect
  <2>2. TypeOK'
    BY <2>1 DEF IInv, TypeOK, Requested
  <2>3. QED
    BY <2>1, <2>2, RequestersKept DEF IInv
<1>5. QED
  BY <1>1, <1>2, <1>3, <1>4 DEF Fault

\* The steps of poolRoutine.
LEMMA PoolRoutinePreserves == ASSUME IInv, PoolRoutine PROVE IInv'
<1>a. /\ MaxHeight \in Nat \ {0} /\ MaxDrops \in Nat
      /\ Heights \subseteq Nat /\ height \in Nat /\ drops \in Nat
      /\ Requested \subseteq Heights /\ IsFiniteSet(Requested)
      /\ Cardinality(Requested) \in Nat /\ maxTotalRequesters \in Nat
  BY Basics
<1>1. CASE PeekTwoBlocks
  <2>1. /\ {height, height + 1} \subseteq Requested \ Missing
        /\ routine' = [first |-> requesters[height].block,
                       second |-> requesters[height + 1].block]
        /\ UNCHANGED <<height, requesters, redos, numPending, peers, timers, adding,
                       requestsCh, timeoutsCh, connected, wire, received, drops,
                       making, recovered, panicked>>
    BY <1>1 DEF PeekTwoBlocks
  <2>2. UNCHANGED <<Requested, Missing>>
    BY SMTT(30), <2>1 DEF Requested, Missing
  <2>3. ASSUME NEW h \in Requested \ Missing
        PROVE  requesters[h].block \in Block /\ h <= MaxHeight
    <3>1. SoundRequester(h, requesters[h]) /\ requesters[h].block # NoBlock
      BY DEF IInv, Requesters, Missing
    <3>2. QED
      BY <3>1 DEF SoundRequester, Requester
  <2>4. routine' \in [first : Block, second : Block] /\ height < MaxHeight
    BY SMTT(30), <1>a, <2>1, <2>3
  <2>5. TypeOK'
    BY Zenon, <2>1, <2>2, <2>4 DEF IInv, TypeOK
  <2>6. InUse'
    BY ZenonT(30), <2>1, <2>2, <2>4 DEF IInv, InUse
  <2>7. Room' /\ Requesters' /\ RequestersContiguous' /\ HandedOver'
    BY Zenon, <2>1, <2>2
    DEF IInv, Room, Requesters, RequestersContiguous, HandedOver, SoundRequester
  <2>8. QED
    BY <2>5, <2>6, <2>7 DEF IInv
<1>2. CASE PopRequest
  <2>1. /\ adding = NotAdding /\ routine # Idle /\ routine' = Idle
        /\ requesters' = Restrict(requesters, Requested \ {height})
        /\ height' = height + 1
        /\ UNCHANGED <<redos, numPending, peers, timers, adding, requestsCh,
                       timeoutsCh, connected, wire, received, drops, making,
                       recovered, panicked>>
    BY Zenon, <1>2 DEF PopRequest, MutexFree
  <2>2. height \in Requested /\ height < MaxHeight
    BY <2>1 DEF IInv, InUse
  <2>3. /\ Requested' = Requested \ {height}
        /\ \A h \in Requested' : requesters'[h] = requesters[h]
    BY <2>1 DEF Requested, Restrict
  <2>4. Cardinality(Requested') = Cardinality(Requested) - 1
    BY Zenon, <1>a, <2>2, <2>3, FS_RemoveElement
  <2>5. height' \in 1..MaxHeight
    BY <1>a, <2>1, <2>2
  <2>6. TypeOK'
    BY Zenon, <2>1, <2>3, <2>5 DEF IInv, TypeOK
  <2>7. Room'
    BY <1>a, <2>1, <2>4 DEF IInv, Room
  <2>8. Requesters'
    <3>1. \A h \in Requested' : SoundRequester(h, requesters'[h])
      BY <2>3 DEF IInv, Requesters
    <3>2. QED
      BY <3>1 DEF Requesters, SoundRequester
  <2>9. InUse'
    BY <2>1 DEF InUse
  <2>10. RequestersContiguous'
    <3>1. Requested = height..(height + Cardinality(Requested) - 1)
      BY DEF IInv, RequestersContiguous
    <3>2. Requested' = (height + 1)..(height + Cardinality(Requested) - 1)
      BY <1>a, <2>3, <3>1, IntervalShrinks
    <3>3. QED
      BY <1>a, <2>1, <2>4, <3>2 DEF RequestersContiguous
  <2>11. HandedOver'
    <3>1. Requested' \ Missing' \subseteq Requested \ Missing
      BY <2>3 DEF Missing
    <3>2. QED
      BY Zenon, <2>1, <2>3, <3>1 DEF IInv, HandedOver
  <2>12. QED
    BY <2>6, <2>7, <2>8, <2>9, <2>10, <2>11 DEF IInv
<1>3. CASE RedoRequest
  <2>1. /\ drops < MaxDrops /\ drops' = drops + 1 /\ routine' = Idle
        /\ UNCHANGED <<height, requesters, adding, requestsCh, timeoutsCh, connected,
                       wire, received, making, recovered>>
    BY <1>3 DEF RedoRequest
  <2>2. /\ redos' \in [Heights -> Nat] /\ numPending' \in Int /\ timers' \subseteq Peers
        /\ DOMAIN peers' \subseteq Peers /\ \A q \in DOMAIN peers' : peers'[q] \in Peer
        /\ panicked' \in BOOLEAN
    <3>1. CASE height \in Missing
      <4>1. panicked' = TRUE
        BY <1>3, <3>1 DEF RedoRequest
      <4>2. UNCHANGED <<redos, numPending, peers, timers>>
        BY <1>3, <3>1 DEF RedoRequest
      <4>3. panicked' \in BOOLEAN
        BY <4>1
      <4>4. QED
        BY Zenon, <4>2, <4>3 DEF IInv, TypeOK
    <3>2. CASE height \notin Missing
      <4> DEFINE p == requesters[height].peerID
      <4>1. /\ removePeers({p}) /\ peers' = Restrict(peers, DOMAIN peers \ {p})
            /\ UNCHANGED panicked
        BY <1>3, <3>2 DEF RedoRequest
      <4>2. redos' \in [Heights -> Nat] /\ numPending' \in Int /\ timers' \subseteq Peers
        BY SMTT(30), <4>1, RemovePeersTypes
      <4>3. DOMAIN peers' \subseteq Peers /\ \A q \in DOMAIN peers' : peers'[q] \in Peer
        BY SMTT(30), <4>1 DEF Restrict, IInv, TypeOK
      <4>4. panicked' \in BOOLEAN
        BY <4>1 DEF IInv, TypeOK
      <4>5. QED
        BY <4>2, <4>3, <4>4
    <3>3. QED
      BY <3>1, <3>2
  <2>3. drops' \in 0..MaxDrops
    <3>1. drops < MaxDrops /\ drops' = drops + 1
      BY ZenonT(30), <2>1
    <3>2. QED
      BY <1>a, <3>1
  <2>4. TypeOK'
    BY Zenon, <2>1, <2>2, <2>3 DEF IInv, TypeOK, Requested
  <2>5. QED
    BY SMTT(30), <2>1, <2>4, RequestersKept DEF IInv
<1>4. ASSUME NEW m \in requestsCh, ForwardRequest(m) PROVE IInv'
  <2>1. /\ requestsCh' \subseteq requestsCh /\ wire' \subseteq wire \cup {m}
        /\ UNCHANGED <<height, requesters, redos, numPending, peers, timers, adding,
                       timeoutsCh, routine, connected, received, drops, making,
                       recovered, panicked>>
    BY <1>4 DEF ForwardRequest
  <2>2. requestsCh' \cup wire' \subseteq [height : Heights, peer : Peers]
    BY ZenonT(30), <2>1 DEF IInv, TypeOK
  <2>3. TypeOK'
    BY <2>1, <2>2 DEF IInv, TypeOK, Requested
  <2>4. QED
    BY <2>1, <2>3, RequestersKept DEF IInv
<1>5. ASSUME NEW p \in timeoutsCh, HandleTimeout(p) PROVE IInv'
  <2>1. /\ timeoutsCh' \subseteq timeoutsCh
        /\ UNCHANGED <<height, requesters, adding, requestsCh, routine, drops, making,
                       recovered, panicked>>
    BY <1>5 DEF HandleTimeout
  <2>2. p \in Peers
    BY DEF IInv, TypeOK
  <2>3. TypeOK'
    <3>1. CASE p \in connected
      <4>1. RemovePeer(p)
        BY SMTT(30), <1>5, <3>1 DEF HandleTimeout
      <4>2. QED
        BY Zenon, <2>1, <2>2, <4>1, RemovePeerTypes DEF IInv, TypeOK, Requested
    <3>2. CASE p \notin connected
      BY <1>5, <2>1, <3>2 DEF HandleTimeout, IInv, TypeOK, Requested
    <3>3. QED
      BY <3>1, <3>2
  <2>4. QED
    BY <2>1, <2>3, RequestersKept DEF IInv
<1>6. QED
  BY <1>1, <1>2, <1>3, <1>4, <1>5 DEF PoolRoutine

\* Every step preserves the invariant.
LEMMA StepPreserves == IInv /\ [Next]_vars => IInv'
<1> SUFFICES ASSUME IInv, [Next]_vars PROVE IInv'
  OBVIOUS
<1>1. CASE UNCHANGED vars
  <2>1. TypeOK'
    BY <1>1 DEF vars, IInv, TypeOK, Requested
  <2>2. QED
    BY SMTT(30), <1>1, <2>1, RequestersKept DEF vars, IInv
<1>2. QED
  BY <1>1, MakeRequestersPreserves, RequestRoutinePreserves, PoolRoutinePreserves,
     ReceiveBlockPreserves, SetPeerHeightPreserves, FaultPreserves DEF Next

\* The invariant holds in every state of every behaviour.
LEMMA Invariance == Spec => []IInv
  BY InitIInv, StepPreserves, PTL DEF Spec

-----------------------------------------------------------------------------
\* Every variable keeps its type: no requester beyond the heights that the limit
\* on requesters allows, and pool.height stays within the chain of the peers.
THEOREM PoolTypes == Spec => []TypeOK
  BY Invariance, PTL DEF IInv

\* The requesters are those of consecutive heights from pool.height on.
THEOREM RequestersContiguousThm == Spec => []RequestersContiguous
  BY Invariance, PTL DEF IInv

\* A block that a requester holds is from the peer that RedoRequest would drop
\* for it, whatever late answers and reassignments happened meanwhile.
THEOREM BlockFromAssignedPeerThm == Spec => []BlockFromAssignedPeer
<1>1. IInv => BlockFromAssignedPeer
  BY DEF IInv, Requesters, SoundRequester, BlockFromAssignedPeer, Missing
<1>2. QED
  BY <1>1, Invariance, PTL

\* No block is left with a requester that waits for one or looks for a peer,
\* except the one that AddBlock is just handing over.
THEOREM HandedOverThm == Spec => []HandedOver
  BY Invariance, PTL DEF IInv

=============================================================================
