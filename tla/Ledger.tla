-------------------------------- MODULE Ledger --------------------------------
(***************************************************************************)
(* What a follower node promises its users: it takes the chain's blocks    *)
(* one at a time, and each goes through three stages in order.  It is      *)
(* stored, then executed by the application, then recorded in the node's   *)
(* state; the next block is stored only when the last one is recorded.     *)
(* Crashes are invisible here.  The application may be sent back to an     *)
(* earlier block by its operator, and executes the stored blocks again.    *)
(***************************************************************************)
EXTENDS Integers

CONSTANTS First, Last   \* where the ledger starts and where the chain ends

VARIABLES stored, executed, recorded

ledger == <<stored, executed, recorded>>

LedgerInit == stored = First /\ executed = First /\ recorded = First

Store ==
  /\ stored < Last
  /\ stored = recorded
  /\ executed = recorded
  /\ stored' = stored + 1
  /\ UNCHANGED <<executed, recorded>>

Execute ==
  /\ executed < stored
  /\ executed' = executed + 1
  /\ UNCHANGED <<stored, recorded>>

Record ==
  /\ recorded < stored
  /\ executed = stored
  /\ recorded' = stored
  /\ UNCHANGED <<stored, executed>>

Rewind ==
  /\ executed' \in 1..(executed - 1)
  /\ UNCHANGED <<stored, recorded>>

LedgerNext == Store \/ Execute \/ Record \/ Rewind

LedgerSafety == LedgerInit /\ [][LedgerNext]_ledger

\* A block that can move to its next stage does.
LedgerSpec == LedgerSafety /\ WF_ledger(Store \/ Execute \/ Record)

=============================================================================
