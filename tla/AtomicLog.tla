------------------------------ MODULE AtomicLog ------------------------------
(***************************************************************************)
(* What the delivery log in MongoDB promises: an entry per reading, made   *)
(* when it is sent and confirmed when the agent has it.  Nothing is ever   *)
(* taken back as long as its two writers take turns.                       *)
(***************************************************************************)
CONSTANT Times

VARIABLES
  sent,       \* readings that have an entry
  confirmed,  \* those whose entry says RECEIVED
  serial      \* the writers have taken turns so far

vars == <<sent, confirmed, serial>>

Init == sent = {} /\ confirmed = {} /\ serial = TRUE

Add == \E t \in Times \ sent : sent' = sent \cup {t} /\ UNCHANGED <<confirmed, serial>>

Confirm ==
  \E t \in sent \ confirmed : confirmed' = confirmed \cup {t} /\ UNCHANGED <<sent, serial>>

\* When they do not, entries and confirmations may be lost, then and later; no
\* reading is confirmed without an entry.
Overlap ==
  /\ serial' = FALSE
  /\ sent' \in SUBSET Times /\ confirmed' \in SUBSET sent'

Next == Add \/ Confirm \/ Overlap

Spec == Init /\ [][Next]_vars
=============================================================================
