----------------------------- MODULE RunLedger ------------------------------
(***************************************************************************)
(* What a run directory promises to whoever reads it: a ledger of scored   *)
(* candidates that only grows, one candidate for each iteration and the    *)
(* iterations in order, and a published frontier that, when it can be read *)
(* at all, is the frontier of a prefix of that ledger which never shrinks. *)
(*                                                                         *)
(* candidate_results/ and best_candidates.json of OptimizerRun implement   *)
(* it, crashes and relaunches with --resume included.                      *)
(***************************************************************************)
EXTENDS Integers

CONSTANTS
  Scored,         \* the candidates there can be, records with it and name
  FrontierOf(_)   \* the frontier of a set of them

VARIABLES
  ledger,     \* the scored candidates
  published   \* the frontier the directory shows, {} when it shows none

LedgerInit ==
  /\ ledger = {}
  /\ published = {}

(* A seed while there are only seeds, or a candidate of an iteration later  *)
(* than all others.                                                         *)
Score(c) ==
  /\ \A d \in ledger : \/ d.it < c.it
                       \/ c.it = 0 /\ d.it = 0 /\ d.name # c.name
  /\ ledger' = ledger \cup {c}
  /\ UNCHANGED published

Publish ==
  /\ published' = FrontierOf(ledger)
  /\ UNCHANGED ledger

(* A crash while the frontier is being written. *)
Lose ==
  /\ published' = {}
  /\ UNCHANGED ledger

LedgerNext == (\E c \in Scored : Score(c)) \/ Publish \/ Lose

LedgerSpec == LedgerInit /\ [][LedgerNext]_<<ledger, published>>
=============================================================================
