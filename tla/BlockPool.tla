------------------------------- MODULE BlockPool -------------------------------
(***************************************************************************)
(* The block pool of fast sync (tendermint/blockchain/pool.go) and the     *)
(* goroutines around it: one requester per height, the routine that makes  *)
(* requesters, the reactor's poolRoutine, the goroutines that deliver the  *)
(* peers' messages, the timers, and the goroutines that carry a redo.      *)
(*                                                                         *)
(* pool.mtx is free unless AddBlock holds it while it waits for the        *)
(* requester to take the block (adding).  The channels to poolRoutine are  *)
(* buffered far beyond what the pool puts into them and never block.       *)
(***************************************************************************)
EXTENDS Integers, FiniteSets, Functions

CONSTANTS
  Peers, BadPeers,   \* the peers, and those that serve blocks that do not verify
  NoPeer,            \* the empty peer id
  MaxHeight,         \* the height every peer reports
  maxTotalRequesters, maxPendingRequestsPerPeer,
  MaxDrops           \* how many times a peer is lost, times out or sends a bad block

ASSUME PoolAssumption ==
  /\ BadPeers \subseteq Peers
  /\ IsFiniteSet(Peers)
  /\ NoPeer \notin Peers
  /\ {MaxHeight, maxTotalRequesters, maxPendingRequestsPerPeer} \subseteq Nat \ {0}
  /\ MaxDrops \in Nat

VARIABLES
  height,      \* pool.height: the next block to sync
  requesters,  \* pool.requesters: [pc, picked, peerID, block] by height
  redos,       \* goroutines waiting to send on each requester's redoCh
  numPending,  \* pool.numPending
  peers,       \* pool.peers: [pending, didTimeout, monitored] by peer
  making,      \* makeRequestersRoutine: what it does next
  timers,      \* peers dropped from pool.peers whose timer still runs
  adding,      \* the AddBlock that holds pool.mtx, or NotAdding
  requestsCh,  \* requests on their way to poolRoutine
  timeoutsCh,  \* timeouts on their way to poolRoutine
  routine,     \* poolRoutine: the two blocks it has peeked at, or Idle
  connected,   \* the switch's peers
  wire,        \* requests sent to peers, each standing for its answer as well
  received,    \* last messages of lost peers, still being handled by Receive
  drops,       \* losses, timeouts and bad blocks so far
  recovered,   \* peers in whose Receive goroutine a panic was recovered
  panicked     \* RedoRequest has panicked in poolRoutine: the process is gone

vars == <<height, requesters, redos, numPending, peers, making, timers, adding,
          requestsCh, timeoutsCh, routine, connected, wire, received, drops,
          recovered, panicked>>

\* A block is known by the peer that sent it.
Block == Peers
NoBlock == NoPeer
NotAdding == [height |-> 0, peer |-> NoPeer]
Idle == [first |-> NoBlock, second |-> NoBlock]
Status == 0   \* the height that stands for a status message in received

Requester ==
  [pc : {"pick", "assign", "wait", "got", "reset"},
   picked : Peers \cup {NoPeer}, peerID : Peers \cup {NoPeer},
   block : Block \cup {NoBlock}]

Peer == [pending : Int, didTimeout : BOOLEAN, monitored : BOOLEAN]

newBPRequester ==
  [pc |-> "pick", picked |-> NoPeer, peerID |-> NoPeer, block |-> NoBlock]
newBPPeer == [pending |-> 0, didTimeout |-> FALSE, monitored |-> FALSE]

\* Heights for which a requester may ever exist.
Heights == 1..(MaxHeight + maxTotalRequesters)

Alive == ~panicked
MutexFree == adding = NotAdding /\ Alive
Requested == DOMAIN requesters
Missing == {h \in Requested : requesters[h].block = NoBlock}

Init ==
  /\ height = 1
  /\ requesters = [h \in {} |-> newBPRequester]
  /\ redos = [h \in Heights |-> 0]
  /\ numPending = 0
  /\ peers = [p \in {} |-> newBPPeer]
  /\ making = "status"
  /\ timers = {}
  /\ adding = NotAdding
  /\ requestsCh = {}
  /\ timeoutsCh = {}
  /\ routine = Idle
  /\ connected = Peers
  /\ wire = {}
  /\ received = {}
  /\ drops = 0
  /\ recovered = {}
  /\ panicked = FALSE

-----------------------------------------------------------------------------
(***************************************************************************)
(* removePeer, called with pool.mtx held, for one peer or several in turn: *)
(* every requester assigned to the peer gets a goroutine that will tell it *)
(* to start over.                                                          *)
(***************************************************************************)
removePeers(P) ==
  LET hit == {h \in Requested : requesters[h].peerID \in P} IN
  /\ redos' = [h \in Heights |-> redos[h] + IF h \in hit THEN 1 ELSE 0]
  /\ numPending' = numPending + Cardinality(hit \ Missing)
  /\ timers' = timers \cup {p \in P \cap DOMAIN peers : peers[p].monitored}

\* The first request to a peer gives it a receive monitor and a timer.
incrPending(peer) ==
  [peer EXCEPT !.pending = @ + 1, !.monitored = @ \/ peer.pending = 0]

-----------------------------------------------------------------------------
(***************************************************************************)
(* makeRequestersRoutine: GetStatus under one hold of pool.mtx, and what   *)
(* it decided under a later one.                                           *)
(***************************************************************************)
GetStatus ==
  /\ MutexFree
  /\ making = "status"
  /\ making' = IF \/ numPending >= maxTotalRequesters
                  \/ Cardinality(Requested) >= maxTotalRequesters
               THEN "removeTimedoutPeers" ELSE "makeNextRequester"
  /\ UNCHANGED <<height, requesters, redos, numPending, peers, timers, adding,
                 requestsCh, timeoutsCh, routine, connected, wire, received,
                 drops, recovered, panicked>>

makeNextRequester ==
  /\ MutexFree
  /\ making = "makeNextRequester"
  /\ making' = "status"
  /\ LET next == height + Cardinality(Requested) IN
       requesters' = [h \in Requested \cup {next} |->
                        IF h = next THEN newBPRequester ELSE requesters[h]]
  /\ numPending' = numPending + 1
  /\ UNCHANGED <<height, redos, peers, timers, adding, requestsCh, timeoutsCh,
                 routine, connected, wire, received, drops, recovered,
                 panicked>>

\* Peers that receive too slowly time out here; all that timed out are dropped.
removeTimedoutPeers ==
  /\ MutexFree
  /\ making = "removeTimedoutPeers"
  /\ making' = "status"
  /\ \E slow \in SUBSET {p \in DOMAIN peers : /\ ~peers[p].didTimeout
                                             /\ peers[p].pending > 0} :
       LET gone == slow \cup {p \in DOMAIN peers : peers[p].didTimeout} IN
       /\ drops + Cardinality(slow) <= MaxDrops
       /\ drops' = drops + Cardinality(slow)
       /\ timeoutsCh' = timeoutsCh \cup slow
       /\ removePeers(gone)
       /\ peers' = Restrict(peers, DOMAIN peers \ gone)
  /\ UNCHANGED <<height, requesters, adding, requestsCh, routine, connected,
                 wire, received, recovered, panicked>>

-----------------------------------------------------------------------------
(***************************************************************************)
(* requestRoutine, the goroutine of the requester of height h.             *)
(***************************************************************************)

\* Faulty variant: a peer whose last block is h is passed over.
pickPeerAboveHeight(h) ==
  /\ MutexFree
  /\ h \in Requested
  /\ requesters[h].pc = "pick"
  /\ LET late == {p \in DOMAIN peers : peers[p].didTimeout}
         able == {p \in DOMAIN peers \ late :
                    /\ peers[p].pending < maxPendingRequestsPerPeer
                    /\ h < MaxHeight}
     IN \/ \E gone \in SUBSET late, p \in able :
             /\ removePeers(gone)
             /\ peers' = [q \in DOMAIN peers \ gone |->
                            IF q = p THEN incrPending(peers[q]) ELSE peers[q]]
             /\ requesters' = [requesters EXCEPT ![h].pc = "assign", ![h].picked = p]
        \/ /\ able = {}
           /\ late # {}
           /\ removePeers(late)
           /\ peers' = Restrict(peers, DOMAIN peers \ late)
           /\ UNCHANGED requesters
  /\ UNCHANGED <<height, adding, requestsCh, timeoutsCh, routine, connected,
                 wire, received, drops, making, recovered, panicked>>

\* pickIncrAvailablePeer walks the peers in an arbitrary order, dropping the ones
\* that timed out, until one can serve the height.
pickIncrAvailablePeer(h) ==
  /\ MutexFree
  /\ h \in Requested
  /\ requesters[h].pc = "pick"
  /\ LET late == {p \in DOMAIN peers : peers[p].didTimeout}
         able == {p \in DOMAIN peers \ late :
                    /\ peers[p].pending < maxPendingRequestsPerPeer
                    /\ h <= MaxHeight}
     IN \/ \E gone \in SUBSET late, p \in able :
             /\ removePeers(gone)
             /\ peers' = [q \in DOMAIN peers \ gone |->
                            IF q = p THEN incrPending(peers[q]) ELSE peers[q]]
             /\ requesters' = [requesters EXCEPT ![h].pc = "assign", ![h].picked = p]
        \/ /\ able = {}
           /\ late # {}
           /\ removePeers(late)
           /\ peers' = Restrict(peers, DOMAIN peers \ late)
           /\ UNCHANGED requesters
  /\ UNCHANGED <<height, adding, requestsCh, timeoutsCh, routine, connected,
                 wire, received, drops, making, recovered, panicked>>

\* The peer id is stored under the requester's own lock and the request is sent.
sendRequest(h) ==
  /\ Alive
  /\ h \in Requested
  /\ requesters[h].pc = "assign"
  /\ LET p == requesters[h].picked IN
       /\ requesters' = [requesters EXCEPT ![h].pc = "wait", ![h].peerID = p,
                                           ![h].picked = NoPeer]
       /\ requestsCh' = requestsCh \cup {[height |-> h, peer |-> p]}
  /\ UNCHANGED <<height, redos, numPending, peers, timers, adding, timeoutsCh,
                 routine, connected, wire, received, drops, making, recovered,
                 panicked>>

\* One of the two selects receives from redoCh ...
takeRedo(h) ==
  /\ Alive
  /\ h \in Requested
  /\ requesters[h].pc \in {"wait", "got"}
  /\ redos[h] > 0
  /\ redos' = [redos EXCEPT ![h] = @ - 1]
  /\ requesters' = [requesters EXCEPT ![h].pc = "reset"]
  /\ UNCHANGED <<height, numPending, peers, timers, adding, requestsCh,
                 timeoutsCh, routine, connected, wire, received, drops, making,
                 recovered, panicked>>

\* ... and the requester forgets the peer and the block and starts over.
reset(h) ==
  /\ Alive
  /\ h \in Requested
  /\ requesters[h].pc = "reset"
  /\ requesters' = [requesters EXCEPT ![h] = newBPRequester]
  /\ UNCHANGED <<height, redos, numPending, peers, timers, adding, requestsCh,
                 timeoutsCh, routine, connected, wire, received, drops, making,
                 recovered, panicked>>

-----------------------------------------------------------------------------
(***************************************************************************)
(* Messages from peers.                                                    *)
(***************************************************************************)

\* Faulty variant: setBlock does not compare the peer.
AddBlockFromAnyone(m) ==
  /\ MutexFree
  /\ m \in wire \cup received
  /\ m.height # Status
  /\ wire' = wire \ {m}
  /\ received' = received \ {m}
  /\ IF /\ m.height \in Requested
        /\ requesters[m.height].block = NoBlock
     THEN /\ requesters' = [requesters EXCEPT ![m.height].block = m.peer]
          /\ adding' = m
     ELSE UNCHANGED <<requesters, adding>>
  /\ UNCHANGED <<height, redos, numPending, peers, timers, requestsCh,
                 timeoutsCh, routine, connected, drops, making, recovered,
                 panicked>>

\* Faulty variant: the block is stored and nobody waits for the requester.
AddBlockSendLost(m) ==
  /\ MutexFree
  /\ m \in wire \cup received
  /\ m.height # Status
  /\ wire' = wire \ {m}
  /\ received' = received \ {m}
  /\ requesters' = IF /\ m.height \in Requested
                      /\ requesters[m.height].block = NoBlock
                      /\ requesters[m.height].peerID = m.peer
                   THEN [requesters EXCEPT ![m.height].block = m.peer]
                   ELSE requesters
  /\ UNCHANGED <<height, redos, numPending, peers, timers, adding, requestsCh,
                 timeoutsCh, routine, connected, drops, making, recovered,
                 panicked>>

\* AddBlock up to the send on gotBlockCh, which keeps pool.mtx.
AddBlock(m) ==
  /\ MutexFree
  /\ m \in wire \cup received
  /\ m.height # Status
  /\ wire' = wire \ {m}
  /\ received' = received \ {m}
  /\ IF /\ m.height \in Requested
        /\ requesters[m.height].block = NoBlock
        /\ requesters[m.height].peerID = m.peer
     THEN /\ requesters' = [requesters EXCEPT ![m.height].block = m.peer]
          /\ adding' = m
     ELSE UNCHANGED <<requesters, adding>>
  /\ UNCHANGED <<height, redos, numPending, peers, timers, requestsCh,
                 timeoutsCh, routine, connected, drops, making, recovered,
                 panicked>>

\* Faulty variant: AddBlock does not call decrPending.
gotBlockKeepsPeerPending ==
  /\ Alive
  /\ adding # NotAdding
  /\ LET h == adding.height IN
       /\ requesters[h].pc = "wait"
       /\ requesters' = [requesters EXCEPT ![h].pc = "got"]
       /\ numPending' = numPending - 1
       /\ UNCHANGED <<peers, recovered>>
  /\ adding' = NotAdding
  /\ UNCHANGED <<height, redos, timers, requestsCh, timeoutsCh, routine,
                 connected, wire, received, drops, making, panicked>>

\* The requester receives from gotBlockCh and AddBlock runs to its end.  A peer
\* that was dropped and has come back has neither monitor nor timer yet, and
\* decrPending panics; pool.mtx is released and the connection's goroutine recovers.
gotBlock ==
  /\ Alive
  /\ adding # NotAdding
  /\ LET h == adding.height
         p == adding.peer IN
       /\ requesters[h].pc = "wait"
       /\ requesters' = [requesters EXCEPT ![h].pc = "got"]
       /\ numPending' = numPending - 1
       /\ IF p \notin DOMAIN peers
          THEN UNCHANGED <<peers, recovered>>
          ELSE /\ peers' = [peers EXCEPT ![p].pending = @ - 1]
               /\ recovered' = recovered \cup (IF peers[p].monitored THEN {} ELSE {p})
  /\ adding' = NotAdding
  /\ UNCHANGED <<height, redos, timers, requestsCh, timeoutsCh, routine,
                 connected, wire, received, drops, making, panicked>>

\* A status response, from a connected peer or the last one of a lost peer.
SetPeerHeight(p) ==
  LET m == [height |-> Status, peer |-> p] IN
  /\ MutexFree
  /\ p \in connected \/ m \in received
  /\ p \notin DOMAIN peers
  /\ peers' = [q \in DOMAIN peers \cup {p} |-> IF q = p THEN newBPPeer ELSE peers[q]]
  /\ received' = received \ {m}
  /\ UNCHANGED <<height, requesters, redos, numPending, timers, adding,
                 requestsCh, timeoutsCh, routine, connected, wire, drops,
                 making, recovered, panicked>>

\* The timer of a peer, or of one dropped from the pool, runs out.  decrPending
\* stops the timer of a peer that owes nothing, but too late for one that has
\* run out and waits for pool.mtx.
onTimeout(p) ==
  /\ MutexFree
  /\ drops < MaxDrops
  /\ drops' = drops + 1
  /\ timeoutsCh' = timeoutsCh \cup {p}
  /\ \/ /\ p \in DOMAIN peers
        /\ peers[p].monitored
        /\ ~peers[p].didTimeout
        /\ peers' = [peers EXCEPT ![p].didTimeout = TRUE]
        /\ UNCHANGED timers
     \/ /\ p \in timers
        /\ timers' = timers \ {p}
        /\ UNCHANGED peers
  /\ UNCHANGED <<height, requesters, redos, numPending, adding, requestsCh,
                 routine, connected, wire, received, making, recovered,
                 panicked>>

\* The switch removes a peer and the reactor's RemovePeer follows; Receive may
\* still be busy with one last message of the peer.
RemovePeer(p) ==
  /\ removePeers({p})
  /\ peers' = Restrict(peers, DOMAIN peers \ {p})
  /\ connected' = connected \ {p}
  /\ wire' = {m \in wire : m.peer # p}
  /\ LET last == {m \in wire : m.peer = p} \cup {[height |-> Status, peer |-> p]} IN
       received' \in {received} \cup {received \cup {m} : m \in last}

Disconnect(p) ==
  /\ MutexFree
  /\ p \in connected
  /\ drops < MaxDrops
  /\ drops' = drops + 1
  /\ RemovePeer(p)
  /\ UNCHANGED <<height, requesters, adding, requestsCh, timeoutsCh, routine,
                 making, recovered, panicked>>

\* The connection whose goroutine recovered from a panic stops and, unless it had
\* reported an error before, the switch removes the peer of that key.
stopForError(p) ==
  /\ MutexFree
  /\ p \in recovered
  /\ recovered' = recovered \ {p}
  /\ \/ /\ drops < MaxDrops
        /\ drops' = drops + 1
        /\ RemovePeer(p)
     \/ UNCHANGED <<redos, numPending, peers, timers, connected, wire, received, drops>>
  /\ UNCHANGED <<height, requesters, adding, requestsCh, timeoutsCh, routine,
                 making, panicked>>

Connect(p) ==
  /\ Alive
  /\ p \notin connected
  /\ connected' = connected \cup {p}
  /\ UNCHANGED <<height, requesters, redos, numPending, peers, timers, adding,
                 requestsCh, timeoutsCh, routine, wire, received, drops, making,
                 recovered, panicked>>

-----------------------------------------------------------------------------
(***************************************************************************)
(* poolRoutine.                                                            *)
(***************************************************************************)
\* A request that finds the send queue full, or that the peer has no block for, is
\* one that stays on the wire.
ForwardRequest(m) ==
  /\ Alive
  /\ routine = Idle
  /\ m \in requestsCh
  /\ requestsCh' = requestsCh \ {m}
  /\ wire' = IF m.peer \in connected THEN wire \cup {m} ELSE wire
  /\ UNCHANGED <<height, requesters, redos, numPending, peers, timers, adding,
                 timeoutsCh, routine, connected, received, drops, making,
                 recovered, panicked>>

\* StopPeerForError, if the switch still has the peer.
HandleTimeout(p) ==
  /\ MutexFree
  /\ routine = Idle
  /\ p \in timeoutsCh
  /\ timeoutsCh' = timeoutsCh \ {p}
  /\ IF p \in connected
     THEN RemovePeer(p)
     ELSE UNCHANGED <<redos, numPending, peers, timers, connected, wire, received>>
  /\ UNCHANGED <<height, requesters, adding, requestsCh, routine, drops, making,
                 recovered, panicked>>

PeekTwoBlocks ==
  /\ MutexFree
  /\ routine = Idle
  /\ {height, height + 1} \subseteq Requested \ Missing
  /\ routine' = [first |-> requesters[height].block,
                 second |-> requesters[height + 1].block]
  /\ UNCHANGED <<height, requesters, redos, numPending, peers, timers, adding,
                 requestsCh, timeoutsCh, connected, wire, received, drops,
                 making, recovered, panicked>>

\* VerifyCommit: the first block and the commit in the second are the chain's.
VerifyCommit == {routine.first, routine.second} \cap BadPeers = {}

\* Faulty variant: pool.height is not advanced.
PopRequestKeepsHeight ==
  /\ MutexFree
  /\ routine # Idle
  /\ VerifyCommit
  /\ requesters' = Restrict(requesters, Requested \ {height})
  /\ routine' = Idle
  /\ UNCHANGED <<height, redos, numPending, peers, timers, adding, requestsCh,
                 timeoutsCh, connected, wire, received, drops, making,
                 recovered, panicked>>

\* PopRequest stops the requester; goroutines that wait for it stay behind.
PopRequest ==
  /\ MutexFree
  /\ routine # Idle
  /\ VerifyCommit
  /\ requesters' = Restrict(requesters, Requested \ {height})
  /\ height' = height + 1
  /\ routine' = Idle
  /\ UNCHANGED <<redos, numPending, peers, timers, adding, requestsCh,
                 timeoutsCh, connected, wire, received, drops, making,
                 recovered, panicked>>

RedoRequest ==
  /\ MutexFree
  /\ routine # Idle
  /\ ~VerifyCommit
  /\ drops < MaxDrops
  /\ drops' = drops + 1
  /\ IF height \in Missing
     THEN panicked' = TRUE /\ UNCHANGED <<redos, numPending, peers, timers>>
     ELSE LET p == requesters[height].peerID IN
          /\ removePeers({p})
          /\ peers' = Restrict(peers, DOMAIN peers \ {p})
          /\ UNCHANGED panicked
  /\ routine' = Idle
  /\ UNCHANGED <<height, requesters, adding, requestsCh, timeoutsCh, connected,
                 wire, received, making, recovered>>

-----------------------------------------------------------------------------
MakeRequestersRoutine == GetStatus \/ makeNextRequester \/ removeTimedoutPeers
RequestRoutine(h) ==
  pickIncrAvailablePeer(h) \/ sendRequest(h) \/ takeRedo(h) \/ reset(h)
PoolRoutine ==
  \/ PeekTwoBlocks \/ PopRequest \/ RedoRequest
  \/ \E m \in requestsCh : ForwardRequest(m)
  \/ \E p \in timeoutsCh : HandleTimeout(p)
ReceiveBlock == gotBlock \/ \E m \in wire \cup received : AddBlock(m)
Fault == \E p \in Peers : 
  Disconnect(p) \/ onTimeout(p) \/ stopForError(p) \/ Connect(p)

Next ==
  \/ MakeRequestersRoutine
  \/ \E h \in Heights : RequestRoutine(h)
  \/ PoolRoutine
  \/ ReceiveBlock
  \/ \E p \in Peers : SetPeerHeight(p)
  \/ Fault

Spec == Init /\ [][Next]_vars

\* A goroutine that can run does, and a connected peer answers.
FairSpec ==
  /\ Spec
  /\ WF_vars(MakeRequestersRoutine)
  /\ \A h \in Heights : WF_vars(RequestRoutine(h))
  /\ WF_vars(PoolRoutine)
  /\ WF_vars(ReceiveBlock)
  /\ \A p \in Peers : WF_vars(SetPeerHeight(p))

-----------------------------------------------------------------------------
\* The values each variable may hold.
TypeOK ==
  /\ height \in 1..MaxHeight
  /\ Requested \subseteq Heights
  /\ \A h \in Requested : requesters[h] \in Requester
  /\ redos \in [Heights -> Nat]
  /\ numPending \in Int
  /\ DOMAIN peers \subseteq Peers
  /\ \A p \in DOMAIN peers : peers[p] \in Peer
  /\ making \in {"status", "makeNextRequester", "removeTimedoutPeers"}
  /\ adding \in [height : Heights, peer : Peers] \cup {NotAdding}
  /\ requestsCh \cup wire \subseteq [height : Heights, peer : Peers]
  /\ received \subseteq [height : Heights \cup {Status}, peer : Peers]
  /\ routine \in [first : Block, second : Block] \cup {Idle}
  /\ timers \cup timeoutsCh \cup connected \subseteq Peers
  /\ drops \in 0..MaxDrops
  /\ recovered \subseteq Peers
  /\ panicked \in BOOLEAN

\* The requesters are those of consecutive heights from pool.height on, whatever
\* is popped, added or redone meanwhile: makeNextRequester's height plus length
\* is a height without requester, and PeekTwoBlocks looks at the right two.
RequestersContiguous ==
  Requested = height..(height + Cardinality(Requested) - 1)

\* A block a requester holds was sent by the peer it is assigned to, so that
\* RedoRequest drops the peer that sent the block it rejects, even when answers
\* of lost peers arrive late and requesters are reassigned.
BlockFromAssignedPeer ==
  \A h \in Requested \ Missing : requesters[h].block = requesters[h].peerID

\* Outside AddBlock's hand-over, a requester that holds a block has taken it: no
\* block is left with a requester that still waits for one or looks for a peer.
HandedOver ==
  \A h \in Requested \ Missing :
    h = adding.height \/ requesters[h].pc \in {"got", "reset"}

\* In a run without losses, timeouts and bad blocks, a peer's numPending counts the
\* requests it has been picked for and has not answered, so that its timer runs
\* exactly while it owes a block.  A peer that was dropped and comes back starts
\* again from zero, and the count may then be off.
PeerPendingExact ==
  adding = NotAdding =>
    \A p \in DOMAIN peers :
      peers[p].pending = Cardinality({h \in Missing : p \in {requesters[h].picked,
                                                            requesters[h].peerID}})

\* Every block but the last, which has no successor to verify it, is synced, in a
\* run without losses.
BlocksSynced == <>(height = MaxHeight)

-----------------------------------------------------------------------------
(***************************************************************************)
(* What comments and assertions of the code promise and a lost peer breaks. *)
(***************************************************************************)

\* numPending is what its declaration says, "number of requests pending
\* assignment or block response" (pool.go:57), whenever no redo is under way.  A
\* lost peer makes it drift for good.
NumPendingExact ==
  (/\ adding = NotAdding
   /\ \A h \in Requested : redos[h] = 0 /\ requesters[h].pc # "reset")
  => numPending = Cardinality(Missing)

\* RedoRequest finds the block it was called for (the assertion at pool.go:207,
\* "Expected block to be non-nil").
RedoFindsBlock == ~panicked

\* "RemovePeer will redo all requesters associated with this peer" (pool.go:209):
\* none goes on waiting for a peer that neither the switch nor the pool has.
RemovedPeerRedone ==
  \A h \in Missing :
    /\ requesters[h].pc = "wait"
    /\ requesters[h].peerID \notin connected \cup DOMAIN peers
    => redos[h] > 0

\* "Requests are continuously made for blocks of higher heights until the limit
\* is reached" (pool.go:44): AddBlock, which holds pool.mtx, never waits for a
\* requester that is itself waiting for pool.mtx to pick a peer.
LockHolderProceeds ==
  adding # NotAdding => requesters[adding.height].pc # "pick"

=============================================================================
