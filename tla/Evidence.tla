------------------------------- MODULE Evidence -------------------------------
(***************************************************************************)
(* The evidence pool: the goroutines that receive evidence from the peers, *)
(* the routine that broadcasts it, and ApplyBlock, which marks what a      *)
(* block carries as committed.  They share a LevelDB store without a lock, *)
(* each write is a step of its own, and a piece of evidence has up to      *)
(* three entries: in the outqueue, among the pending and in the lookup.    *)
(*                                                                         *)
(* The process may be killed (the store keeps what was written) or the     *)
(* machine may fail (the store keeps what was written up to some moment at *)
(* or after the last synced write).                                        *)
(***************************************************************************)
EXTENDS Integers, FiniteSets

CONSTANTS
  Ev,          \* pieces of evidence
  HeightOf,    \* the height each one is about
  Peers,       \* the peers that send evidence: one receiving goroutine each
  Genuine,     \* the pieces that verify and name a validator of their height
  MaxAge,      \* ConsensusParams.EvidenceParams.MaxAge
  MaxHeight,   \* the last block considered
  MaxCrashes   \* crashes considered

ASSUME EvidenceAssumption ==
  /\ HeightOf \in [Ev -> 1..MaxHeight]
  /\ Genuine \subseteq Ev
  /\ MaxAge \in Nat

VARIABLES
  db,        \* the store: outqueue, pending, lookup
  saved,     \* the contents the store may have after a failure of the machine
  height,    \* LastBlockHeight of the saved State, which is also the pool's copy
  recv,      \* what the goroutine of each peer is doing
  caster,    \* the evidence that broadcastRoutine has yet to mark, if any
  exec,      \* what ApplyBlock is doing
  inBlock,   \* the evidence in blocks that the saved State reflects
  marked,    \* the evidence that Update has marked as committed
  announced, \* the evidence that has been broadcast as new
  lastTick,  \* what the last periodic broadcast has sent
  crashes

vars == <<db, saved, height, recv, caster, exec, inBlock, marked, announced,
          lastTick, crashes>>

\* EvidenceInfo: the zero value has no evidence, and its priority is zero.
Info == {"none", "committed_unknown", "uncommitted", "committed"}

HasEvidence(info) == info \in {"uncommitted", "committed"}

Idle == [at |-> "idle"]

Init ==
  /\ db = [out |-> {}, pending |-> {}, lookup |-> [ev \in Ev |-> "none"]]
  /\ saved = {db}
  /\ height = 1
  /\ recv = [p \in Peers |-> Idle]
  /\ caster = {}
  /\ exec = Idle
  /\ inBlock = {} /\ marked = {} /\ announced = {} /\ lastTick = {}
  /\ crashes = 0

\* An unsynced write, and one that syncs the store.
Set(d) == db' = d /\ saved' = saved \cup {d}
SetSync(d) == db' = d /\ saved' = {d}

VerifyEvidence(ev) ==
  /\ height - HeightOf[ev] <= MaxAge
  /\ ev \in Genuine
  /\ HeightOf[ev] <= height + 1

-----------------------------------------------------------------------------
(* AddEvidence, called by the goroutine of a peer.                         *)

\* VerifyEvidence with the pool's State, whose lock Update keeps to its end.
Receive(p, ev) ==
  /\ recv[p] = Idle /\ exec = Idle
  /\ VerifyEvidence(ev)
  /\ recv' = [recv EXCEPT ![p] = [at |-> "check", ev |-> ev]]
  /\ UNCHANGED <<db, saved, height, caster, exec, inBlock, marked, announced,
                 lastTick, crashes>>

\* Faulty variant: the lookup entry comes first.
EntryOrderLookupFirst ==
  [outqueue |-> "lookup", lookup |-> "pending", pending |-> "send"]

\* AddNewEvidence's order of the entries: each is followed by the next.
EntryOrder == [outqueue |-> "pending", pending |-> "lookup", lookup |-> "send"]

\* Faulty variant: no write of AddNewEvidence is synced.
AddEntryUnsynced(ev, entry) ==
  Set(CASE entry = "outqueue" -> [db EXCEPT !.out = @ \cup {ev}]
        [] entry = "pending"  -> [db EXCEPT !.pending = @ \cup {ev}]
        [] entry = "lookup"   -> [db EXCEPT !.lookup[ev] = "uncommitted"])

AddEntry(ev, entry) ==
  CASE entry = "outqueue" -> Set([db EXCEPT !.out = @ \cup {ev}])
    [] entry = "pending"  -> Set([db EXCEPT !.pending = @ \cup {ev}])
    [] entry = "lookup"   -> SetSync([db EXCEPT !.lookup[ev] = "uncommitted"])

\* AddNewEvidence: the look whether the evidence is stored, or one of three writes.
AddNewEvidence(p) ==
  /\ \/ /\ recv[p].at = "check"
        /\ recv' = [recv EXCEPT ![p] = IF HasEvidence(db.lookup[@.ev]) THEN Idle
                                       ELSE [@ EXCEPT !.at = "outqueue"]]
        /\ UNCHANGED <<db, saved>>
     \/ /\ recv[p].at \in DOMAIN EntryOrder
        /\ AddEntry(recv[p].ev, recv[p].at)
        /\ recv' = [recv EXCEPT ![p].at = EntryOrder[@]]
  /\ UNCHANGED <<height, caster, exec, inBlock, marked, announced, lastTick, crashes>>

-----------------------------------------------------------------------------
(* broadcastRoutine.                                                       *)

\* The unbuffered evidenceChan: the goroutine that adds evidence and the
\* routine meet, and the evidence is broadcast.
Broadcast(p) ==
  /\ recv[p].at = "send" /\ caster = {}
  /\ recv' = [recv EXCEPT ![p] = Idle]
  /\ caster' = {recv[p].ev}
  /\ announced' = announced \cup {recv[p].ev}
  /\ UNCHANGED <<db, saved, height, exec, inBlock, marked, lastTick, crashes>>

\* Deletes the outqueue entry with the priority that the lookup entry tells: no
\* entry at all, if the lookup has none or one without evidence.
WithoutOut(ev) ==
  IF HasEvidence(db.lookup[ev]) THEN [db EXCEPT !.out = @ \ {ev}] ELSE db

\* Faulty variant: the routine waits until the peers have nothing more to say.
MarkEvidenceAsBroadcastedWaits ==
  \E ev \in caster :
    /\ \A p \in Peers : recv[p] = Idle
    /\ Set(WithoutOut(ev))
    /\ caster' = {}
    /\ UNCHANGED <<height, recv, exec, inBlock, marked, announced, lastTick, crashes>>

MarkEvidenceAsBroadcasted ==
  \E ev \in caster :
    /\ Set(WithoutOut(ev))
    /\ caster' = {}
    /\ UNCHANGED <<height, recv, exec, inBlock, marked, announced, lastTick, crashes>>

\* Faulty variant: what is broadcast again is the outqueue.
TickOutqueue ==
  /\ caster = {}
  /\ lastTick' = db.out
  /\ UNCHANGED <<db, saved, height, recv, caster, exec, inBlock, marked, announced,
                 crashes>>

\* The ticker fires: all pending evidence is broadcast again.
Tick ==
  /\ caster = {}
  /\ lastTick' = db.pending
  /\ UNCHANGED <<db, saved, height, recv, caster, exec, inBlock, marked, announced,
                 crashes>>

-----------------------------------------------------------------------------
(* ApplyBlock.                                                             *)

\* SaveState of a block with at most one piece of evidence, which ValidateBlock
\* has verified, and Update's copy of the State.
SaveState ==
  /\ exec = Idle /\ height < MaxHeight
  /\ \E evs \in {{}} \cup {{ev} : ev \in Ev} :
       /\ \A ev \in evs : VerifyEvidence(ev)
       /\ inBlock' = inBlock \cup evs
       /\ exec' = IF evs = {} THEN Idle
                  ELSE [at |-> "outqueue", ev |-> CHOOSE ev \in evs : TRUE]
  /\ height' = height + 1
  /\ UNCHANGED <<db, saved, recv, caster, marked, announced, lastTick, crashes>>

\* The three writes of MarkEvidenceAsCommitted, and the read before the last.
MarkEvidenceAsCommitted ==
  LET ev == exec.ev
  IN  \/ /\ exec.at = "outqueue"
         /\ Set(WithoutOut(ev))
         /\ exec' = [exec EXCEPT !.at = "pending"]
         /\ UNCHANGED marked
      \/ /\ exec.at = "pending"
         /\ Set([db EXCEPT !.pending = @ \ {ev}])
         /\ exec' = [exec EXCEPT !.at = "read"]
         /\ UNCHANGED marked
      \/ /\ exec.at = "read"
         /\ exec' = [at |-> "lookup", ev |-> ev, info |-> db.lookup[ev]]
         /\ UNCHANGED <<db, saved, marked>>
      \/ /\ exec.at = "lookup"
         /\ SetSync([db EXCEPT !.lookup[ev] = IF HasEvidence(exec.info) THEN "committed"
                                              ELSE "committed_unknown"])
         /\ exec' = Idle
         /\ marked' = marked \cup {ev}

UpdateStep ==
  /\ exec # Idle
  /\ MarkEvidenceAsCommitted
  /\ UNCHANGED <<height, recv, caster, inBlock, announced, lastTick, crashes>>

-----------------------------------------------------------------------------

\* The process is killed, or the machine fails; the node is started again.  The
\* handshake applies blocks with a mock evidence pool: Update is not repeated.
Crash ==
  /\ crashes < MaxCrashes
  /\ crashes' = crashes + 1
  /\ db' \in saved
  /\ saved' = {db'}
  /\ recv' = [p \in Peers |-> Idle]
  /\ caster' = {} /\ exec' = Idle /\ lastTick' = {}
  /\ UNCHANGED <<height, inBlock, marked, announced>>

Next ==
  \/ \E p \in Peers : \/ \E ev \in Ev : Receive(p, ev)
                      \/ AddNewEvidence(p)
                      \/ Broadcast(p)
  \/ MarkEvidenceAsBroadcasted
  \/ Tick
  \/ SaveState
  \/ UpdateStep
  \/ Crash

Spec == Init /\ [][Next]_vars

\* The goroutines run; the ticker fires again and again, and a select that finds
\* the ticker and the channel ready time and again takes each of them some time.
FairSpec ==
  /\ Spec
  /\ SF_vars(Tick)
  /\ WF_vars(MarkEvidenceAsBroadcasted)
  /\ \A p \in Peers : WF_vars(AddNewEvidence(p)) /\ SF_vars(Broadcast(p))

-----------------------------------------------------------------------------
(* Properties.                                                             *)

\* The variables have their types; only evidence of a saved block is marked.
TypeOK ==
  /\ db \in [out : SUBSET Ev, pending : SUBSET Ev, lookup : [Ev -> Info]]
  /\ db \in saved
  /\ height \in 1..MaxHeight
  /\ marked \subseteq inBlock
  /\ caster \subseteq announced /\ Cardinality(caster) <= 1

\* "Valid new evidence must be persisted immediately and never forgotten" and
\* "Uncommitted evidence must be continuously broadcast": evidence that the
\* lookup has, and that no block carries, is among the pending, also in every
\* store that a failure of the machine may leave behind.
KnownIsPending ==
  \A d \in saved, ev \in Ev \ inBlock :
    d.lookup[ev] # "none" => ev \in d.pending

\* Evidence is announced to the peers only once no failure can make the node
\* forget it: AddNewEvidence syncs before the evidence enters evidenceChan.
AnnouncedIsDurable ==
  \A d \in saved, ev \in announced : d.lookup[ev] # "none"

\* Evidence that no block carries stays in the periodic broadcasts: whenever it
\* is known, a later tick sends it, or a block has it by then.
ContinuouslyBroadcast ==
  \A ev \in Ev :
    [](db.lookup[ev] # "none" => <>(ev \in lastTick \/ ev \in inBlock))

\* A goroutine that has verified evidence gets rid of it: AddEvidence returns
\* unless the node is restarted ("Broadcasts must be non-blocking so routine is
\* always available to read off EvidenceChan").
AddEvidenceReturns ==
  \A p \in Peers : recv[p].at # "idle" ~> recv[p].at = "idle"

\* "Once committed, atomically remove from pending and update lookup": evidence
\* that Update has marked is not among the pending again.
CommittedNotPending ==
  marked \cap db.pending = {}
=============================================================================
