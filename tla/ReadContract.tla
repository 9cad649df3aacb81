---------------------------- MODULE ReadContract ----------------------------
(***************************************************************************)
(* What a member of staff may rely on when scanning a residence card, with *)
(* none of the threads' steps: every scan is answered once; at most one    *)
(* scan is in a card session at a time; a scan that finds another one in   *)
(* its session is refused, not queued; and data handed out belongs to the  *)
(* card number that was asked for.  ScanService implements it.             *)
(***************************************************************************)
CONSTANTS
  Threads,     \* worker threads of the web server
  Cards,       \* residence cards, each named by the number printed on it
  NoThread     \* nobody is in a card session

VARIABLES
  phase,       \* phase[t]: "idle", "asked", "reading", "answered"
  wanted,      \* wanted[t]: the cards whose data would answer t's request
  reading,     \* the thread in a card session, or NoThread
  answer       \* answer[t]: the cards whose data t's answer carries

contract_vars == <<phase, wanted, reading, answer>>

Init ==
  /\ phase   = [t \in Threads |-> "idle"]
  /\ wanted  = [t \in Threads |-> {}]
  /\ answer  = [t \in Threads |-> {}]
  /\ reading = NoThread

\* A request arrives; it wants one card (a scan) or none (a status query, a malformed number).
Ask(t, w) ==
  /\ phase[t] = "idle"
  /\ phase'  = [phase EXCEPT ![t] = "asked"]
  /\ wanted' = [wanted EXCEPT ![t] = w]
  /\ UNCHANGED <<reading, answer>>

\* Answered without a card session: an error, or sample data for the number asked.
AnswerOutside(t, a) ==
  /\ phase[t] \in {"idle", "asked"}
  /\ phase'  = [phase EXCEPT ![t] = "answered"]
  /\ \E w \in SUBSET Cards :
       /\ phase[t] = "asked" => w = wanted[t]
       /\ a \in {{}, w}
       /\ wanted' = [wanted EXCEPT ![t] = w]
  /\ answer' = [answer EXCEPT ![t] = a]
  /\ UNCHANGED reading

BeginRead(t) ==
  /\ phase[t] = "asked"
  /\ reading = NoThread
  /\ reading' = t
  /\ phase' = [phase EXCEPT ![t] = "reading"]
  /\ UNCHANGED <<wanted, answer>>

\* The session ends, in failure or with the data of the card wanted, and frees the reader.
EndRead(t, a) ==
  /\ phase[t] = "reading"
  /\ reading = t
  /\ a \in {{}, wanted[t]}
  /\ reading' = NoThread
  /\ phase'  = [phase EXCEPT ![t] = "answered"]
  /\ answer' = [answer EXCEPT ![t] = a]
  /\ UNCHANGED wanted

Deliver(t) ==
  /\ phase[t] = "answered"
  /\ phase'  = [phase EXCEPT ![t] = "idle"]
  /\ wanted' = [wanted EXCEPT ![t] = {}]
  /\ answer' = [answer EXCEPT ![t] = {}]
  /\ UNCHANGED reading

Next ==
  \E t \in Threads :
    \/ \E w \in SUBSET Cards : Ask(t, w)
    \/ \E a \in SUBSET Cards : AnswerOutside(t, a) \/ EndRead(t, a)
    \/ BeginRead(t)
    \/ Deliver(t)

Spec == Init /\ [][Next]_contract_vars

\* A request is answered or gets its session now: none waits for another one to end.
Resolve(t) ==
  /\ phase[t] = "asked"
  /\ BeginRead(t) \/ \E a \in SUBSET Cards : AnswerOutside(t, a)

\* A scan that got its session ends it, and one that was answered hears it.
Progress == \A t \in Threads :
              /\ WF_contract_vars(Resolve(t))
              /\ WF_contract_vars(\E a \in SUBSET Cards : EndRead(t, a))
              /\ WF_contract_vars(Deliver(t))

FairSpec == Spec /\ Progress
=============================================================================
