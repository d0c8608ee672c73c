---------------------------- MODULE EvidenceProofs ----------------------------
(***************************************************************************)
(* Proofs about Evidence, for every set of evidence, peers and crashes.    *)
(***************************************************************************)
EXTENDS Evidence, TLAPS

\* The contents the store can have.
Stores == [out : SUBSET Ev, pending : SUBSET Ev, lookup : [Ev -> Info]]

\* What a receiving goroutine and ApplyBlock can be doing.
Receiving == [at : {"check", "outqueue", "pending", "lookup", "send"}, ev : Ev]
Marking == [at : {"outqueue", "pending", "read"}, ev : Ev]
             \cup [at : {"lookup"}, ev : Ev, info : Info]

Types ==
  /\ db \in Stores
  /\ saved \subseteq Stores
  /\ db \in saved
  /\ recv \in [Peers -> Receiving \cup {Idle}]
  /\ exec \in Marking \cup {Idle}
  /\ caster \subseteq Ev /\ inBlock \subseteq Ev /\ announced \subseteq Ev

\* Only evidence of a block is being marked as committed; a receiver about to
\* write the lookup entry of other evidence has it among the pending; and a
\* receiver about to announce evidence has synced its lookup entry.
Steps ==
  /\ exec # Idle => exec.ev \in inBlock
  /\ \A p \in Peers : recv[p].at = "lookup" =>
       recv[p].ev \in inBlock \cup db.pending
  /\ \A p \in Peers : recv[p].at = "send" =>
       \A d \in saved : d.lookup[recv[p].ev] # "none"

IInv == Types /\ Steps /\ KnownIsPending /\ AnnouncedIsDurable

-----------------------------------------------------------------------------
\* A node starts with an empty evidence store and nothing under way.
LEMMA InitIInv == Init => IInv
  BY DEF Init, IInv, Types, Stores, Info, Steps, Idle, KnownIsPending, AnnouncedIsDurable

\* A new content of the store that keeps every lookup entry, and the pending
\* entry of everything outside the blocks, may be saved or be the only one left.
LEMMA StoreStep ==
  ASSUME IInv, NEW d \in Stores,
         db' = d,
         saved' \in {{d}, saved \cup {d}},
         inBlock' = inBlock,
         announced' = announced,
         \A ev \in Ev : db.lookup[ev] # "none" => d.lookup[ev] # "none",
         \A ev \in Ev \ inBlock : d.lookup[ev] # "none" => ev \in d.pending
  PROVE  /\ saved' \subseteq Stores /\ db' \in saved'
         /\ KnownIsPending' /\ AnnouncedIsDurable'
         /\ \A ev \in Ev : (\A e \in saved : e.lookup[ev] # "none")
                             => \A e \in saved' : e.lookup[ev] # "none"
  BY DEF IInv, Types, KnownIsPending, AnnouncedIsDurable

\* Every step preserves the invariant.
LEMMA StepPreserves == IInv /\ [Next]_vars => IInv'
<1> SUFFICES ASSUME IInv, [Next]_vars PROVE IInv'
  OBVIOUS
<1> USE DEF IInv, Types
<1>1. ASSUME NEW p \in Peers, NEW ev \in Ev, Receive(p, ev) PROVE IInv'
  BY <1>1 DEF Receive, Steps, Receiving, Idle, KnownIsPending, AnnouncedIsDurable
<1>2. ASSUME NEW p \in Peers, AddNewEvidence(p) PROVE IInv'
  <2>1. CASE recv[p].at = "check"
    BY <1>2, <2>1
    DEF AddNewEvidence, EntryOrder, Steps, Receiving, Idle, KnownIsPending,
        AnnouncedIsDurable
  <2>2. CASE recv[p].at \in DOMAIN EntryOrder
    <3> DEFINE ev == recv[p].ev
               at == recv[p].at
    <3>1. ev \in Ev /\ at \in {"outqueue", "pending", "lookup"}
      BY <2>2 DEF EntryOrder, Receiving, Idle
    <3>2. PICK d \in Stores :
            /\ db' = d
            /\ saved' \in {{d}, saved \cup {d}}
            /\ at = "outqueue" => d = [db EXCEPT !.out = @ \cup {ev}]
            /\ at = "pending" => d = [db EXCEPT !.pending = @ \cup {ev}]
            /\ at = "lookup" => /\ d = [db EXCEPT !.lookup[ev] = "uncommitted"]
                                /\ saved' = {d}
      <4>1. AddEntry(ev, at)
        <5>1. at # "check"
          BY <3>1
        <5>2. QED
          BY Zenon, <1>2, <5>1 DEF AddNewEvidence
      <4>2. /\ [db EXCEPT !.out = @ \cup {ev}] \in Stores
            /\ [db EXCEPT !.pending = @ \cup {ev}] \in Stores
            /\ [db EXCEPT !.lookup[ev] = "uncommitted"] \in Stores
        BY <3>1 DEF Stores, Info
      <4> HIDE DEF ev, at
      <4>3. CASE at = "outqueue"
        <5>1. Set([db EXCEPT !.out = @ \cup {ev}])
          BY <4>1, <4>3 DEF AddEntry
        <5>2. QED
          BY Zenon, <4>2, <4>3, <5>1 DEF Set
      <4>4. CASE at = "pending"
        <5>1. Set([db EXCEPT !.pending = @ \cup {ev}])
          BY <4>1, <4>4 DEF AddEntry
        <5>2. QED
          BY Zenon, <4>2, <4>4, <5>1 DEF Set
      <4>5. CASE at = "lookup"
        <5>1. SetSync([db EXCEPT !.lookup[ev] = "uncommitted"])
          BY <4>1, <4>5 DEF AddEntry
        <5>2. QED
          BY Zenon, <4>2, <4>5, <5>1 DEF SetSync
      <4>6. QED
        BY Zenon, <3>1, <4>3, <4>4, <4>5
    <3>3. \A x \in Ev : db.lookup[x] # "none" => d.lookup[x] # "none"
      BY <3>1, <3>2 DEF Stores
    <3>4. \A x \in Ev \ inBlock : d.lookup[x] # "none" => x \in d.pending
      BY <3>1, <3>2 DEF Stores, KnownIsPending, Steps
    <3>5. /\ UNCHANGED <<inBlock, announced, exec, caster>>
          /\ recv' = [recv EXCEPT ![p].at = EntryOrder[at]]
      BY <1>2, <2>2 DEF AddNewEvidence, EntryOrder
    <3>6. /\ saved' \subseteq Stores /\ db' \in saved'
          /\ KnownIsPending' /\ AnnouncedIsDurable'
          /\ \A x \in Ev : (\A e \in saved : e.lookup[x] # "none")
                             => \A e \in saved' : e.lookup[x] # "none"
      BY <3>2, <3>3, <3>4, <3>5, StoreStep
    <3>7. recv' \in [Peers -> Receiving \cup {Idle}]
      BY <3>1, <3>5 DEF EntryOrder, Receiving, Idle
    <3>8. db.pending \subseteq d.pending
      BY <3>1, <3>2 DEF Stores
    <3>9. Steps'
      <4>1. ASSUME NEW q \in Peers, recv'[q].at = "lookup"
            PROVE  recv'[q].ev \in inBlock \cup d.pending
        BY <3>1, <3>2, <3>5, <3>8, <4>1 DEF Steps, EntryOrder, Receiving, Idle, Stores
      <4>2. ASSUME NEW q \in Peers, recv'[q].at = "send"
            PROVE  \A e \in saved' : e.lookup[recv'[q].ev] # "none"
        BY <3>1, <3>2, <3>5, <3>6, <3>7, <4>2 DEF Steps, EntryOrder, Receiving, Idle, Stores
      <4>3. QED
        BY <3>2, <3>5, <4>1, <4>2 DEF Steps
    <3>10. QED
      BY <3>2, <3>5, <3>6, <3>7, <3>9
  <2>3. QED
    BY <1>2, <2>1, <2>2 DEF AddNewEvidence
<1>3. ASSUME NEW p \in Peers, Broadcast(p) PROVE IInv'
  BY <1>3 DEF Broadcast, Steps, Receiving, Idle, KnownIsPending, AnnouncedIsDurable
<1>4. CASE MarkEvidenceAsBroadcasted
  <2>1. PICK ev \in caster : Set(WithoutOut(ev))
    BY <1>4 DEF MarkEvidenceAsBroadcasted
  <2> DEFINE d == WithoutOut(ev)
  <2>2. /\ d \in Stores /\ d.lookup = db.lookup /\ d.pending = db.pending
        /\ db' = d /\ saved' = saved \cup {d}
    BY <2>1 DEF WithoutOut, Set, Stores
  <2>3. UNCHANGED <<inBlock, announced, exec, recv>> /\ caster' = {}
    BY <1>4 DEF MarkEvidenceAsBroadcasted
  <2>4. /\ saved' \subseteq Stores /\ db' \in saved'
        /\ KnownIsPending' /\ AnnouncedIsDurable'
        /\ \A x \in Ev : (\A e \in saved : e.lookup[x] # "none")
                           => \A e \in saved' : e.lookup[x] # "none"
    <3> HIDE DEF d
    <3> QED BY <2>2, <2>3, StoreStep DEF KnownIsPending
  <2>5. Steps'
    BY <2>2, <2>3, <2>4 DEF Steps, Receiving, Idle
  <2>6. QED
    BY <2>2, <2>3, <2>4, <2>5
<1>5. CASE Tick
  BY <1>5 DEF Tick, Steps, KnownIsPending, AnnouncedIsDurable
<1>6. CASE SaveState
  <2>1. PICK evs \in {{}} \cup {{ev} : ev \in Ev} :
          /\ inBlock' = inBlock \cup evs
          /\ exec' = IF evs = {} THEN Idle
                     ELSE [at |-> "outqueue", ev |-> CHOOSE ev \in evs : TRUE]
    BY <1>6 DEF SaveState
  <2>2. evs # {} => (CHOOSE ev \in evs : TRUE) \in evs
    OBVIOUS
  <2>3. UNCHANGED <<db, saved, recv, caster, announced>>
    BY <1>6 DEF SaveState
  <2>4. evs \subseteq Ev
    BY <2>1
  <2>5. /\ exec' \in Marking \cup {Idle}
        /\ exec' # Idle => exec'.ev \in inBlock'
    BY <2>1, <2>2, <2>4 DEF Marking, Idle
  <2>6. QED
    BY <2>1, <2>3, <2>4, <2>5 DEF Steps, KnownIsPending, AnnouncedIsDurable
<1>7. CASE UpdateStep
  <2> DEFINE ev == exec.ev
  <2>1. ev \in Ev /\ ev \in inBlock /\ exec \in Marking
    BY <1>7 DEF UpdateStep, Steps, Marking
  <2>2. UNCHANGED <<inBlock, announced, recv, caster>>
    BY <1>7 DEF UpdateStep
  <2>3. PICK d \in Stores :
          /\ db' = d
          /\ \/ saved' \in {{d}, saved \cup {d}}
             \/ d = db /\ saved' = saved
          /\ db.pending \ {ev} \subseteq d.pending
          /\ \A x \in Ev : db.lookup[x] # "none" => d.lookup[x] # "none"
          /\ \A x \in Ev \ {ev} : d.lookup[x] = db.lookup[x]
          /\ exec' \in Marking \cup {Idle}
          /\ exec' # Idle => exec'.ev = ev
    <3> USE <2>1
    <3>1. CASE exec.at = "outqueue"
      <4>1. /\ db' = WithoutOut(ev) /\ saved' = saved \cup {WithoutOut(ev)}
            /\ exec' = [exec EXCEPT !.at = "pending"]
        BY <1>7, <3>1 DEF UpdateStep, MarkEvidenceAsCommitted, Set
      <4>2. /\ WithoutOut(ev) \in Stores
            /\ WithoutOut(ev).lookup = db.lookup /\ WithoutOut(ev).pending = db.pending
        BY DEF WithoutOut, Stores
      <4>3. exec' \in Marking /\ exec'.ev = ev
        BY <4>1, <3>1 DEF Marking
      <4>4. QED
        BY <4>1, <4>2, <4>3
    <3>2. CASE exec.at = "pending"
      <4>1. /\ db' = [db EXCEPT !.pending = @ \ {ev}] /\ saved' = saved \cup {db'}
            /\ exec' = [exec EXCEPT !.at = "read"]
        BY Zenon, <1>7, <3>2 DEF UpdateStep, MarkEvidenceAsCommitted, Set
      <4>2. /\ db' \in Stores /\ db'.lookup = db.lookup /\ db'.pending = db.pending \ {ev}
        BY <4>1 DEF Stores
      <4>3. exec' \in Marking /\ exec'.ev = ev
        BY <4>1, <3>2 DEF Marking
      <4>4. QED
        BY Zenon, <4>1, <4>2, <4>3
    <3>3. CASE exec.at = "read"
      <4>1. /\ UNCHANGED <<db, saved>>
            /\ exec' = [at |-> "lookup", ev |-> ev, info |-> db.lookup[ev]]
        BY <1>7, <3>3 DEF UpdateStep, MarkEvidenceAsCommitted
      <4>2. exec' \in Marking /\ exec'.ev = ev
        BY <4>1 DEF Marking, Stores
      <4>3. QED
        BY <4>1, <4>2
    <3>4. CASE exec.at = "lookup"
      <4>1. PICK info \in {"committed", "committed_unknown"} :
              /\ db' = [db EXCEPT !.lookup[ev] = info] /\ saved' = {db'}
              /\ exec' = Idle
        BY <1>7, <3>4 DEF UpdateStep, MarkEvidenceAsCommitted, SetSync
      <4>2. /\ db' \in Stores /\ db'.pending = db.pending
            /\ db'.lookup = [db.lookup EXCEPT ![ev] = info]
        BY <4>1 DEF Stores, Info
      <4>3. QED
        BY Zenon, <4>1, <4>2 DEF Stores
    <3>5. QED
      BY <3>1, <3>2, <3>3, <3>4 DEF Marking
  <2>4. \A x \in Ev \ inBlock : d.lookup[x] # "none" => x \in d.pending
    BY <2>1, <2>3 DEF KnownIsPending
  <2>5. /\ saved' \subseteq Stores /\ db' \in saved'
        /\ KnownIsPending' /\ AnnouncedIsDurable'
        /\ \A x \in Ev : (\A e \in saved : e.lookup[x] # "none")
                           => \A e \in saved' : e.lookup[x] # "none"
    <3>1. CASE saved' \in {{d}, saved \cup {d}}
      BY <2>2, <2>3, <2>4, <3>1, StoreStep
    <3>2. CASE d = db /\ saved' = saved
      BY <2>2, <2>3, <3>2 DEF KnownIsPending, AnnouncedIsDurable
    <3>3. QED
      BY <2>3, <3>1, <3>2
  <2>6. Steps'
    BY <2>1, <2>2, <2>3, <2>5 DEF Steps, Receiving, Idle
  <2>7. QED
    BY <2>2, <2>3, <2>5, <2>6
<1>8. CASE Crash
  BY <1>8 DEF Crash, Steps, Idle, KnownIsPending, AnnouncedIsDurable
<1>9. CASE UNCHANGED vars
  BY <1>9 DEF vars, Steps, KnownIsPending, AnnouncedIsDurable
<1>10. QED
  BY <1>1, <1>2, <1>3, <1>4, <1>5, <1>6, <1>7, <1>8, <1>9 DEF Next

\* The invariant holds in every state of every behaviour.
LEMMA Invariance == Spec => []IInv
  BY InitIInv, StepPreserves, PTL DEF Spec

-----------------------------------------------------------------------------
\* Evidence that the store knows is pending until a block carries it, whatever
\* failure of the process or the machine decides which of the writes of
\* AddNewEvidence and MarkEvidenceAsCommitted have taken effect.
THEOREM KnownIsPendingThm == Spec => []KnownIsPending
  BY Invariance, PTL DEF IInv

\* Evidence that AddEvidence has handed to the broadcast routine is in every
\* store that a failure can leave: the synced write comes before the hand-over.
THEOREM AnnouncedIsDurableThm == Spec => []AnnouncedIsDurable
  BY Invariance, PTL DEF IInv
=============================================================================
