------------------------------ MODULE Validators ------------------------------
(***************************************************************************)
(* How the validator set changes.  A "val" transaction signed by the       *)
(* validators reaches the application, whose strategy keeps its own copy   *)
(* of the set in memory, checks the transaction against that copy and      *)
(* answers EndBlock with the updates.  The node applies the updates to the *)
(* set of its State, which is saved, verifies the commits of the blocks    *)
(* and decides who proposes next.                                          *)
(*                                                                         *)
(* A key is a natural number; its order is the order of the addresses.  A  *)
(* transaction is a list of items and the set of the keys whose signature  *)
(* on it verifies.                                                         *)
(***************************************************************************)
EXTENDS Integers, Sequences, FiniteSets, Functions

CONSTANTS
  Keys,        \* public keys of validators, present or future
  Geneses,     \* the voting powers a genesis file may give
  Blocks,      \* the lists of val transactions a block may carry
  MaxHeight,   \* the last block considered of a chain without val transactions
  ValHeight,   \* the last block considered of a chain with val transactions
  MaxVals,     \* how many blocks with val transactions are considered
  MaxRestarts  \* how often the two processes are stopped and started again

Nobody == 0    \* no proposer: not a key

\* An item of a val transaction, and the transaction.
ValItem == [key : Keys, power : Int]
ValTx == [items : Seq(ValItem), signers : SUBSET Keys]

ASSUME ValidatorsAssumption ==
  /\ IsFiniteSet(Keys) /\ Keys \subseteq Nat \ {Nobody}
  /\ \A g \in Geneses : /\ DOMAIN g \subseteq Keys /\ DOMAIN g # {}
                        /\ g \in [DOMAIN g -> Nat \ {0}]
  /\ <<>> \in Blocks /\ Blocks \subseteq Seq(ValTx)
  /\ {MaxHeight, ValHeight, MaxVals, MaxRestarts} \subseteq Nat

VARIABLES
  height,       \* State.LastBlockHeight
  validators,   \* State.Validators: key -> [power, accum]
  last,         \* State.LastValidators
  lastChanged,  \* State.LastHeightValidatorsChanged
  app,          \* the strategy: currentValidators (key -> power), updateValidators
  stored,       \* the block in the store that the State does not reflect yet
  responses,    \* the validator updates in the saved ABCIResponses
  phase,        \* how far the stored block has come
  chain,        \* a node of the network that is never restarted, one block ahead
  turns,        \* how often each key has been the proposer of a height
  vals,         \* blocks with val transactions so far
  regular,      \* whether all of them were regular
  missed,       \* whether the last restart fell between the application's Commit
                \* and SaveState of a block that changed the validators
  restarts

vars == <<height, validators, last, lastChanged, app, stored, responses, phase,
          chain, turns, vals, regular, missed, restarts>>

-----------------------------------------------------------------------------
(* Voting power.                                                           *)

Total(powers) == SumFunction(powers)

PowersOf(set) == [k \in DOMAIN set |-> set[k].power]

Without(f, k) == [j \in DOMAIN f \ {k} |-> f[j]]

With(f, k, v) == [j \in DOMAIN f \cup {k} |-> IF j = k THEN v ELSE f[j]]

Abs(n) == IF n < 0 THEN -n ELSE n

\* The voting power that an item moves.
Moved(powers, v) ==
  IF v.key \in DOMAIN powers THEN Abs(powers[v.key] - v.power) ELSE v.power

\* Faulty variant: an item replaces what the items before it have added up to.
ChangeLast(powers, items) ==
  IF items = <<>> THEN 0 ELSE Moved(powers, items[Len(items)])

\* How much voting power the items move, each against the set before the first.
Change(powers, items) ==
  SumFunction([i \in DOMAIN items |-> Moved(powers, items[i])])

\* Negative powers are an error of their own, with the same effect.
changeInVotingPowerMoreOrEqualToOneThird(powers, items) ==
  /\ items # <<>>
  /\ \/ \E i \in DOMAIN items : items[i].power < 0
     \/ Change(powers, items) >= Total(powers) \div 3

-----------------------------------------------------------------------------
(* The strategy of the application.                                        *)

emptyStrategy == [current |-> <<>>, updates |-> <<>>]

SetValidators(powers) == [emptyStrategy EXCEPT !.current = powers]

\* Faulty variant: the signatures are checked, the size of the change is not.
ParseSignaturesOnly(tx, powers) ==
  /\ DOMAIN powers # {}
  /\ \A i \in DOMAIN tx.items : tx.items[i].power >= 0
  /\ SumFunctionOnSet(powers, tx.signers \cap DOMAIN powers) > (Total(powers) * 2) \div 3

\* Whether a val transaction is accepted by the set with these powers.
ParseValidatorTx(tx, powers) ==
  /\ DOMAIN powers # {}
  /\ \A i \in DOMAIN tx.items : tx.items[i].power >= 0
  /\ Change(powers, tx.items) < Total(powers) \div 3
  /\ SumFunctionOnSet(powers, tx.signers \cap DOMAIN powers) > (Total(powers) * 2) \div 3

\* One round of the strategy's updateValidators.  A validator it adds is the
\* very object of the list of updates, so a later item for the same key changes
\* the list too: owner remembers which entry of the list each added key shares.
ApplyItem(r, i) ==
  LET v == r.updates[i]
  IN  IF v.key \notin DOMAIN r.current
        THEN [r EXCEPT !.current = With(@, v.key, v.power),
                       !.owner = With(@, v.key, i)]
      ELSE IF v.power = 0
        THEN [r EXCEPT !.current = Without(@, v.key),
                       !.owner = Without(@, v.key)]
      ELSE [r EXCEPT !.current[v.key] = v.power,
                     !.updates = IF v.key \in DOMAIN r.owner
                                   THEN [@ EXCEPT ![r.owner[v.key]].power = v.power]
                                   ELSE @]

\* The strategy's updateValidators, after each of the items.
StrategyAfter(powers, items) ==
  LET after[n \in 0..Len(items)] ==
        IF n = 0 THEN [current |-> powers, updates |-> items, owner |-> <<>>]
        ELSE ApplyItem(after[n - 1], n)
  IN  after

updateStrategy(powers, items) ==
  LET end == StrategyAfter(powers, items)[Len(items)]
  IN  [current |-> end.current, updates |-> end.updates]

\* DeliverTx of a val transaction.  A refused transaction leaves the strategy
\* alone; updateValidators' own refusal comes after the list of updates is set.
CollectTx(s, tx) ==
  IF ~ParseValidatorTx(tx, s.current) THEN s
  ELSE IF changeInVotingPowerMoreOrEqualToOneThird(s.current, tx.items)
    THEN [s EXCEPT !.updates = tx.items]
  ELSE updateStrategy(s.current, tx.items)

\* DeliverTx of a block's val transactions, after each of them.
DeliveredAfter(s, b) ==
  LET after[n \in 0..Len(b)] == IF n = 0 THEN s ELSE CollectTx(after[n - 1], b[n])
  IN  after

Delivered(s, b) == DeliveredAfter(s, b)[Len(b)]

\* Faulty variant: the updates stay in the strategy once EndBlock has returned them.
GetUpdateValidatorsKeeps(s) == s

\* What is left of the strategy when EndBlock has returned the updates.
GetUpdateValidators(s) == [s EXCEPT !.updates = <<>>]

-----------------------------------------------------------------------------
(* The node's validator set.                                               *)

\* The validator with the most accum; of two equals, the lower address.
Mostest(set) ==
  CHOOSE k \in DOMAIN set :
    \A j \in DOMAIN set \ {k} :
      \/ set[k].accum > set[j].accum
      \/ set[k].accum = set[j].accum /\ k < j

Accrued(set) == [k \in DOMAIN set |-> [set[k] EXCEPT !.accum = @ + set[k].power]]

\* Faulty variant: the proposer pays its own power instead of the total.
IncrementAccumOwnPower(set) ==
  LET accrued == Accrued(set)
  IN  [accrued EXCEPT ![Mostest(accrued)].accum = @ - set[Mostest(accrued)].power]

IncrementAccum(set) ==
  LET accrued == Accrued(set)
  IN  [accrued EXCEPT ![Mostest(accrued)].accum = @ - Total(PowersOf(set))]

\* IncrementAccum's other result.
Proposer(set) == Mostest(Accrued(set))

\* One round of updateValidators, and the set after each of the updates.
ApplyUpdate(set, v) ==
  IF v.key \notin DOMAIN set
    THEN With(set, v.key, [power |-> v.power, accum |-> 0])
  ELSE IF v.power = 0 THEN Without(set, v.key)
  ELSE [set EXCEPT ![v.key].power = v.power]

SetAfter(set, updates) ==
  LET after[n \in 0..Len(updates)] ==
        IF n = 0 THEN set ELSE ApplyUpdate(after[n - 1], updates[n])
  IN  after

updateValidators(set, updates) == SetAfter(set, updates)[Len(updates)]

\* Whether the precommits of these validators make a commit the set accepts.
VerifyCommit(set, signers) ==
  /\ signers \subseteq DOMAIN set
  /\ SumFunctionOnSet(PowersOf(set), signers) > (Total(PowersOf(set)) * 2) \div 3

-----------------------------------------------------------------------------
(* Blocks, crashes and restarts.                                           *)

Fresh(powers) == [k \in DOMAIN powers |-> [power |-> powers[k], accum |-> 0]]

Init ==
  \E g \in Geneses :
    /\ height = 0
    /\ validators = IncrementAccum(Fresh(g))
    /\ last = <<>>
    /\ lastChanged = 1
    /\ app = SetValidators(g)
    /\ stored = <<>> /\ responses = <<>> /\ phase = "idle"
    /\ turns = [k \in Keys |-> IF k = Proposer(Fresh(g)) THEN 1 ELSE 0]
    /\ chain = [app |-> SetValidators(g), validators |-> Fresh(g), halted |-> FALSE]
    /\ vals = 0 /\ regular = TRUE /\ missed = FALSE /\ restarts = 0

\* A block with at most one val transaction, which names a key at most once.
Regular(b) ==
  /\ Len(b) <= 1
  /\ \A i \in DOMAIN b : \A j, k \in DOMAIN b[i].items :
       b[i].items[j].key = b[i].items[k].key => j = k

\* The nodes of the network that decide the blocks run the same code.
Decided(b) ==
  LET s == Delivered(chain.app, b)
  IN  [app |-> GetUpdateValidators(s),
       validators |-> updateValidators(chain.validators, s.updates),
       halted |-> changeInVotingPowerMoreOrEqualToOneThird(PowersOf(chain.validators),
                                                           s.updates)]

\* The next block of the chain is stored, if its header names the validators of
\* the State (VerifyCommit, validateBlock) and the network is still alive.
StoreBlock ==
  /\ phase = "idle"
  /\ ~chain.halted /\ PowersOf(validators) = PowersOf(chain.validators)
  /\ \E b \in Blocks :
       /\ height < (IF vals = 0 /\ b = <<>> THEN MaxHeight ELSE ValHeight)
       /\ b # <<>> => vals < MaxVals
       /\ vals' = vals + (IF b = <<>> THEN 0 ELSE 1)
       /\ stored' = b
       /\ chain' = Decided(b)
       /\ regular' = (regular /\ Regular(b))
  /\ phase' = "stored"
  /\ UNCHANGED <<height, validators, last, lastChanged, app, responses, turns,
                 missed, restarts>>

\* execBlockOnProxyApp and saveABCIResponses.
ExecBlock ==
  /\ phase = "stored"
  /\ LET s == Delivered(app, stored)
     IN  /\ responses' = s.updates
         /\ app' = GetUpdateValidators(s)
  /\ phase' = "executed"
  /\ UNCHANGED <<height, validators, last, lastChanged, stored, chain, turns, vals,
                 regular, missed, restarts>>

\* updateState, then the application's Commit.  When the updates are refused
\* ApplyBlock returns an error and its caller panics.
Commit ==
  /\ phase = "executed"
  /\ phase' = IF changeInVotingPowerMoreOrEqualToOneThird(PowersOf(validators), responses)
                THEN "failed" ELSE "committed"
  /\ UNCHANGED <<height, validators, last, lastChanged, app, stored, responses, chain,
                 turns, vals, regular, missed, restarts>>

\* "change results from this height but only applies to the next height"
NextChanged == IF responses # <<>> THEN height + 2 ELSE lastChanged

\* SaveState of the State that updateState computed.
SaveState ==
  /\ phase = "committed"
  /\ LET next == updateValidators(validators, responses)
     IN  /\ validators' = IncrementAccum(next)
         /\ turns' = [turns EXCEPT ![Proposer(next)] = @ + 1]
  /\ last' = validators
  /\ lastChanged' = NextChanged
  /\ height' = height + 1
  /\ stored' = <<>> /\ responses' = <<>> /\ phase' = "idle"
  /\ UNCHANGED <<app, chain, vals, regular, missed, restarts>>

\* Both processes are stopped and started again.  The handshake sends InitChain
\* with the validators of the saved State, at every height.  A stored block is
\* executed again, unless the application has committed it: then the saved
\* responses serve, and the application does not see the block again.  Without
\* a block in the application nothing is replayed and the node does not start.
Restart ==
  /\ restarts < MaxRestarts
  /\ restarts' = restarts + 1
  /\ app' = SetValidators(PowersOf(validators))
  /\ phase # "refused"
  /\ phase' = IF phase \in {"idle", "committed"} THEN phase
              ELSE IF height = 0 THEN "refused" ELSE "stored"
  /\ missed' = (phase = "committed" /\ responses # <<>>)
  /\ UNCHANGED <<height, validators, last, lastChanged, stored, responses, chain, turns,
                 vals, regular>>

Next == StoreBlock \/ ExecBlock \/ Commit \/ SaveState \/ Restart

Spec == Init /\ [][Next]_vars

-----------------------------------------------------------------------------
(* Properties.                                                             *)

\* The variables have their types; no set is ever empty and no power negative.
TypeOK ==
  /\ height \in Nat
  /\ DOMAIN validators \subseteq Keys /\ DOMAIN validators # {}
  /\ validators \in [DOMAIN validators -> [power : Nat, accum : Int]]
  /\ Total(PowersOf(validators)) > 0
  /\ DOMAIN last \subseteq Keys
  /\ last \in [DOMAIN last -> [power : Nat, accum : Int]]
  /\ lastChanged \in 1..(height + 1)
  /\ DOMAIN app.current \subseteq Keys
  /\ app = [current |-> app.current, updates |-> <<>>]
  /\ app.current \in [DOMAIN app.current -> Nat]
  /\ stored \in Blocks
  /\ responses \in Seq([key : Keys, power : Nat])
  /\ phase \in {"idle", "stored", "executed", "committed", "failed", "refused"}
  /\ turns \in [Keys -> Nat]
  /\ vals \in 0..MaxVals /\ restarts \in 0..MaxRestarts
  /\ regular \in BOOLEAN /\ missed \in BOOLEAN

\* Two commits that the node accepts for consecutive heights (VerifyCommit with
\* LastValidators and with Validators) have a signer in common, whatever the
\* updates between them: this is what the limit of one third is for.
CommitsShareSigner ==
  \A c \in SUBSET DOMAIN last, d \in SUBSET DOMAIN validators :
    VerifyCommit(last, c) /\ VerifyCommit(validators, d) => c \cap d # {}

\* As long as every block is regular, updateState never refuses the updates:
\* what the strategy lets through (ParseValidatorTx) is within the limit that the
\* node checks again, also when a block is executed twice because of a restart.
UpdatesAccepted ==
  regular /\ ~missed => phase # "failed"

\* Between blocks the strategy knows exactly the set of the State, as long as
\* every block so far was regular: a restart at any moment restores it, but for
\* the one moment at which the block that changes the set is not executed again.
StrategyMatchesState ==
  regular /\ ~missed /\ phase = "idle" => app.current = PowersOf(validators)

\* While the set is the one of the genesis file, the validators propose in
\* proportion to their powers (IncrementAccum): after any number of heights none
\* has had a whole turn more than its share of them, and of n validators none has
\* had (n - 1) / 2 turns less.
ProposersProportional ==
  lastChanged = 1 =>
    LET total == Total(PowersOf(validators))
        n == Cardinality(DOMAIN validators)
        Ahead(k) == turns[k] * total - (height + 1) * validators[k].power
    IN  \A k \in DOMAIN validators :
          Ahead(k) < total /\ -2 * Ahead(k) <= (n - 1) * total

\* "GetCurrentValidators returns the current validators": between blocks the
\* strategy's copy is the set of the State.
GetCurrentValidators ==
  phase = "idle" => app.current = PowersOf(validators)
=============================================================================
