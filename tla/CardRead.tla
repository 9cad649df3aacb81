------------------------------ MODULE CardRead ------------------------------
(***************************************************************************)
(* What whoever reads a card may rely on, of either generation and with none *)
(* of the exchanges: the read ends; it succeeds only once the card was opened *)
(* with the number typed for it and every file wanted was read; when it is    *)
(* over nothing of the card's images is in hand.  SecondGenerationCard and    *)
(* CurrentCard implement it.                                                  *)
(***************************************************************************)
CONSTANT CardFiles   \* files of a card

VARIABLES
  phase,     \* "closed", "open" once the card accepted the number, "over"
  asked_for, \* the card on the reader is the one whose number was typed
  wanted,    \* the files a successful read consists of
  have,      \* files in hand
  holding,   \* image bytes are in hand
  outcome    \* "none", "success", "failure" (a refusal or an exception) or "handed_over"

read_vars == <<phase, asked_for, wanted, have, holding, outcome>>

Init ==
  /\ phase = "closed"
  /\ asked_for \in BOOLEAN
  /\ wanted \in SUBSET CardFiles
  /\ have = {}
  /\ holding = FALSE
  /\ outcome = "none"

\* The card accepts the number typed.
Open ==
  /\ phase = "closed"
  /\ asked_for
  /\ phase' = "open"
  /\ UNCHANGED <<asked_for, wanted, have, holding, outcome>>

\* Files come in, one or more at a time, and images come and go.
Read ==
  /\ phase = "open"
  /\ have' \in SUBSET CardFiles
  /\ have \subseteq have'
  /\ holding' \in BOOLEAN
  /\ UNCHANGED <<phase, asked_for, wanted, outcome>>

\* The read returns or raises; a card of another generation may be handed over unopened.
Finish ==
  /\ phase # "over"
  /\ phase' = "over"
  /\ holding' = FALSE
  /\ \/ outcome' = "failure"
     \/ outcome' = "handed_over" /\ phase = "closed"
     \/ outcome' = "success" /\ phase = "open" /\ wanted \subseteq have
  /\ UNCHANGED <<asked_for, wanted, have>>

Next == Open \/ Read \/ Finish

Spec == Init /\ [][Next]_read_vars

\* Every read ends.
FairSpec == Spec /\ WF_read_vars(Finish)
=============================================================================
