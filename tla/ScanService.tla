----------------------------- MODULE ScanService -----------------------------
(***************************************************************************)
(* reader/local_api.py: the web server's worker threads serving             *)
(* POST /manual-scan and GET /status against card readers that staff plug,  *)
(* unplug and swap cards on at any moment.  One action is one stretch of a   *)
(* handler between two points where another thread or the staff can act:    *)
(* listing the readers, trying the lock, the presence probe, the card        *)
(* connection, mutual authentication, each file, the lock's release.         *)
(*                                                                           *)
(* The card keeps one session: the commands of whoever authenticated last.   *)
(***************************************************************************)
EXTENDS Naturals, Sequences

CONSTANTS
  Threads,     \* worker threads of the server
  Readers,     \* PC/SC readers
  Cards,       \* residence cards, each named by the number printed on it
  Parts,       \* how many file reads one scan makes after authentication
  Handlers,    \* which handlers clients call: a subset of {"scan", "status"}
  NoThread, NoReader, NoCard, Malformed

ASSUME ScanAssumption ==
  /\ Parts \in Nat
  /\ Handlers \subseteq {"scan", "status"}
  /\ NoThread \notin Threads
  /\ NoReader \notin Readers
  /\ NoCard \notin Cards
  /\ Malformed \notin Cards

VARIABLES
  pc,              \* pc[t]: where thread t is in its handler
  number,          \* number[t]: the card number t's request names
  reader_id,       \* reader_id[t]: the index t's request names
  card_read_lock,  \* the thread holding _card_read_lock, or NoThread
  conn,            \* conn[t]: the reader t has a card connection to, or NoReader
  got,             \* got[t]: the cards whose data t has collected
  parts,           \* parts[t]: file reads t's scan has made
  outcome,         \* outcome[t]: the code of t's reply, once decided
  plugged,         \* the readers PC/SC lists, in index order
  card,            \* card[r]: the card lying on reader r, or NoCard
  session          \* session[r]: whose secure messaging r's card runs, or NoThread

thread_vars == <<pc, number, reader_id, conn, got, parts, outcome>>
world_vars  == <<plugged, card>>
vars == <<thread_vars, card_read_lock, world_vars, session>>

ReaderIds == 0 .. 1
InSession == {"auth", "read"}
Locked    == {"presence", "connect", "release"} \cup InSession
Codes     == {"none", "status", "ok", "invalid_card_number", "no_reader_found",
              "read_already_in_progress", "card_not_detected", "read_failed"}

\* The reader an index names right now; indices move when a reader is unplugged.
Listed(i)  == i < Len(plugged)
ReaderAt(i) == plugged[i + 1]
Powered(r) == \E i \in 1 .. Len(plugged) : plugged[i] = r

Goto(t, l) == pc' = [pc EXCEPT ![t] = l]
Conclude(t, code) == outcome' = [outcome EXCEPT ![t] = code]

Init ==
  /\ pc        = [t \in Threads |-> "idle"]
  /\ number    = [t \in Threads |-> Malformed]
  /\ reader_id = [t \in Threads |-> 0]
  /\ conn      = [t \in Threads |-> NoReader]
  /\ got       = [t \in Threads |-> {}]
  /\ parts     = [t \in Threads |-> 0]
  /\ outcome   = [t \in Threads |-> "none"]
  /\ card_read_lock = NoThread
  /\ plugged   = <<>>
  /\ card      = [r \in Readers |-> NoCard]
  /\ session   = [r \in Readers |-> NoThread]
-----------------------------------------------------------------------------
(* POST /api/local/manual-scan *)

\* The request is validated; sample data answers at once and never takes the lock.
ManualScan(t) ==
  /\ pc[t] = "idle"
  /\ "scan" \in Handlers
  /\ \E n \in Cards \cup {Malformed}, i \in ReaderIds, use_mock \in BOOLEAN :
       /\ number'    = [number EXCEPT ![t] = n]
       /\ reader_id' = [reader_id EXCEPT ![t] = i]
       /\ \/ /\ n = Malformed
             /\ Conclude(t, "invalid_card_number")
             /\ Goto(t, "reply")
             /\ UNCHANGED got
          \/ /\ n # Malformed /\ use_mock
             /\ Conclude(t, "ok")
             /\ got' = [got EXCEPT ![t] = {n}]
             /\ Goto(t, "reply")
          \/ /\ n # Malformed /\ ~use_mock
             /\ Goto(t, "list")
             /\ UNCHANGED <<outcome, got>>
  /\ UNCHANGED <<conn, parts, card_read_lock, world_vars, session>>

\* _reader_status(...)["available"]: some reader is listed, not necessarily the one asked for;
\* a listing that fails lists none, whatever is plugged.
ListReaders(t) ==
  /\ pc[t] = "list"
  /\ \/ /\ Conclude(t, "no_reader_found")
        /\ Goto(t, "reply")
     \/ /\ plugged # <<>>
        /\ Goto(t, "lock")
        /\ UNCHANGED outcome
  /\ UNCHANGED <<number, reader_id, conn, got, parts, card_read_lock, world_vars, session>>

\* _card_read_lock.acquire(blocking=False)
NeverTaken(t) == TRUE
LockIsFree(t) == card_read_lock = NoThread

\* A scan that finds it taken is refused at once.
RefusesNobody(t) == FALSE
LockIsTaken(t) == ~LockIsFree(t)

TryLock(t) ==
  /\ pc[t] = "lock"
  /\ \/ /\ LockIsFree(t)
        /\ card_read_lock' = t
        /\ Goto(t, "presence")
        /\ UNCHANGED outcome
     \/ /\ LockIsTaken(t)
        /\ Conclude(t, "read_already_in_progress")
        /\ Goto(t, "reply")
        /\ UNCHANGED card_read_lock
  /\ UNCHANGED <<number, reader_id, conn, got, parts, world_vars, session>>

\* check_card_presence: connects for the ATR and drops the connection, which may power the
\* card down and end whatever session it was running.
Probed(r) == session' \in {session, [session EXCEPT ![r] = NoThread]}

\* The label a failing step inside the lock goes to: the finally clause.
FailToReply == "reply"
FailToPoll == "presence"
FailTo == "release"

Presence(t) ==
  /\ pc[t] = "presence"
  /\ \/ /\ Conclude(t, "card_not_detected")
        /\ Goto(t, FailTo)
        /\ UNCHANGED session
     \/ /\ Listed(reader_id[t])
        /\ card[ReaderAt(reader_id[t])] # NoCard
        /\ Probed(ReaderAt(reader_id[t]))
        /\ Goto(t, "connect")
        /\ UNCHANGED outcome
  /\ UNCHANGED <<number, reader_id, conn, got, parts, card_read_lock, world_vars>>

\* A step of read_residence_card that fails: an APDU error, a refused card type, a raised
\* exception.  local_manual_scan turns each of them into "read_failed".
ReadFails(t) ==
  /\ pc[t] \in {"connect"} \cup InSession
  /\ Conclude(t, "read_failed")
  /\ got' = [got EXCEPT ![t] = {}]
  /\ Goto(t, "release")
  /\ UNCHANGED <<number, reader_id, conn, parts, card_read_lock, world_vars, session>>

\* The index is resolved again: it may name another reader than the probe saw.
Connect(t) ==
  /\ pc[t] = "connect"
  /\ Listed(reader_id[t])
  /\ LET r == ReaderAt(reader_id[t]) IN
       /\ card[r] # NoCard
       /\ conn'    = [conn EXCEPT ![t] = r]
       /\ session' = [session EXCEPT ![r] = t]
  /\ parts' = [parts EXCEPT ![t] = 0]
  /\ Goto(t, "auth")
  /\ UNCHANGED <<number, reader_id, got, outcome, card_read_lock, world_vars>>

\* Mutual authentication and VERIFY: the card opens itself to its own number only.
Opens(t) == card[conn[t]] = number[t]

Authenticate(t) ==
  /\ pc[t] = "auth"
  /\ session[conn[t]] = t
  /\ Opens(t)
  /\ Goto(t, "read")
  /\ UNCHANGED <<number, reader_id, conn, got, parts, outcome, card_read_lock,
                 world_vars, session>>

\* A scan makes Parts file reads after authentication.
MoreParts(t) == parts[t] < Parts

\* One file.  If another read took the card over, what comes back is whatever that card gives.
ReadPart(t) ==
  /\ pc[t] = "read"
  /\ MoreParts(t)
  /\ session[conn[t]] # NoThread
  /\ got'   = [got EXCEPT ![t] = @ \cup {card[conn[t]]}]
  /\ parts' = [parts EXCEPT ![t] = @ + 1]
  /\ UNCHANGED <<pc, number, reader_id, conn, outcome, card_read_lock, world_vars, session>>

ReadDone(t) ==
  /\ pc[t] = "read"
  /\ parts[t] = Parts
  /\ Conclude(t, "ok")
  /\ got' = [got EXCEPT ![t] = @ \cup {number[t]}]
  /\ Goto(t, "release")
  /\ UNCHANGED <<number, reader_id, conn, parts, card_read_lock, world_vars, session>>

\* finally: the lock is released and the connection, if any, dropped.
Release(t) ==
  /\ pc[t] = "release"
  /\ card_read_lock' = NoThread
  /\ \/ conn[t] = NoReader /\ UNCHANGED session
     \/ conn[t] # NoReader /\ Probed(conn[t])
  /\ conn' = [conn EXCEPT ![t] = NoReader]
  /\ Goto(t, "reply")
  /\ UNCHANGED <<number, reader_id, got, parts, outcome, world_vars>>
-----------------------------------------------------------------------------
(* GET /api/local/status *)

Status(t) ==
  /\ pc[t] = "idle"
  /\ "status" \in Handlers
  /\ \E i \in ReaderIds, check_card \in BOOLEAN :
       /\ reader_id' = [reader_id EXCEPT ![t] = i]
       /\ Goto(t, IF check_card THEN "probe" ELSE "reply")
       /\ outcome' = [outcome EXCEPT ![t] = "status"]
  /\ UNCHANGED <<number, conn, got, parts, card_read_lock, world_vars, session>>

\* check_card=true: a card connection is opened, without the lock ...
Probe(t) ==
  /\ pc[t] = "probe"
  /\ \/ Goto(t, "reply") /\ UNCHANGED conn
     \/ /\ Listed(reader_id[t])
        /\ card[ReaderAt(reader_id[t])] # NoCard
        /\ conn' = [conn EXCEPT ![t] = ReaderAt(reader_id[t])]
        /\ Goto(t, "probed")
  /\ UNCHANGED <<number, reader_id, got, parts, outcome, card_read_lock, world_vars, session>>

\* ... and dropped once the ATR is known.
ProbeDone(t) ==
  /\ pc[t] = "probed"
  /\ Probed(conn[t])
  /\ conn' = [conn EXCEPT ![t] = NoReader]
  /\ Goto(t, "reply")
  /\ UNCHANGED <<number, reader_id, got, parts, outcome, card_read_lock, world_vars>>

\* The reply leaves and the thread is free for another request.
Reply(t) ==
  /\ pc[t] = "reply"
  /\ Goto(t, "idle")
  /\ number'    = [number EXCEPT ![t] = Malformed]
  /\ reader_id' = [reader_id EXCEPT ![t] = 0]
  /\ outcome'   = [outcome EXCEPT ![t] = "none"]
  /\ got'       = [got EXCEPT ![t] = {}]
  /\ parts'     = [parts EXCEPT ![t] = 0]
  /\ UNCHANGED <<conn, card_read_lock, world_vars, session>>
-----------------------------------------------------------------------------
(* Staff and hardware: at any moment, during any handler. *)

PlugReader(r) ==
  /\ ~Powered(r)
  /\ plugged' = Append(plugged, r)
  /\ UNCHANGED <<thread_vars, card_read_lock, card, session>>

UnplugReader(r) ==
  /\ \E i \in 1 .. Len(plugged) :
       /\ plugged[i] = r
       /\ plugged' = SubSeq(plugged, 1, i - 1) \o SubSeq(plugged, i + 1, Len(plugged))
  /\ session' = [session EXCEPT ![r] = NoThread]
  /\ UNCHANGED <<thread_vars, card_read_lock, card>>

PlaceCard(r) ==
  /\ card[r] = NoCard
  /\ \E c \in Cards :
       /\ \A q \in Readers : card[q] # c
       /\ card' = [card EXCEPT ![r] = c]
  /\ UNCHANGED <<thread_vars, card_read_lock, plugged, session>>

TakeCard(r) ==
  /\ card[r] # NoCard
  /\ card'    = [card EXCEPT ![r] = NoCard]
  /\ session' = [session EXCEPT ![r] = NoThread]
  /\ UNCHANGED <<thread_vars, card_read_lock, plugged>>
-----------------------------------------------------------------------------
\* What thread t does next inside a request it has accepted.
Step(t) ==
  \/ ListReaders(t) \/ TryLock(t) \/ Presence(t) \/ Connect(t) \/ Authenticate(t)
  \/ ReadPart(t) \/ ReadDone(t) \/ ReadFails(t) \/ Release(t)
  \/ Probe(t) \/ ProbeDone(t) \/ Reply(t)

Request(t) == ManualScan(t) \/ Status(t)

World(r) == PlugReader(r) \/ UnplugReader(r) \/ PlaceCard(r) \/ TakeCard(r)

Next == (\E t \in Threads : Request(t) \/ Step(t)) \/ (\E r \in Readers : World(r))

Spec == Init /\ [][Next]_vars

\* A worker thread keeps running: its card calls return or raise, and nothing else blocks it.
Fairness == \A t \in Threads : WF_vars(Step(t))

FairSpec == Spec /\ Fairness
-----------------------------------------------------------------------------
Locations == {"idle", "list", "lock", "probe", "probed", "reply"} \cup Locked

\* The state's types: in particular a scan never counts past its Parts reads.
TypeOK ==
  /\ pc \in [Threads -> Locations]
  /\ number \in [Threads -> Cards \cup {Malformed}]
  /\ reader_id \in [Threads -> ReaderIds]
  /\ card_read_lock \in Threads \cup {NoThread}
  /\ conn \in [Threads -> Readers \cup {NoReader}]
  /\ got \in [Threads -> SUBSET Cards]
  /\ parts \in [Threads -> 0 .. Parts]
  /\ outcome \in [Threads -> Codes]
  /\ plugged \in Seq(Readers)
  /\ card \in [Readers -> Cards \cup {NoCard}]
  /\ session \in [Readers -> Threads \cup {NoThread}]

\* The lock is held by exactly the thread between a successful acquire and the finally
\* clause, on every error path: it never leaks and never covers two scans
\* (tests/test_card_read_serialisation.py: "a leaked lock would wedge the application").
LockHeldExactlyWhileReading ==
  \A t \in Threads : card_read_lock = t <=> pc[t] \in Locked

\* A scan that succeeds carries the data of the card whose number was typed and of no
\* other card, whatever staff did to the readers and whatever other requests arrived
\* (local_api.py:33: an overlap "can return one card's fields under the other's number").
ReplyMatchesRequest ==
  \A t \in Threads : outcome[t] = "ok" => got[t] = {number[t]}

\* No request waits for another: whatever the others hold or do, each has a next step of its
\* own.  A second scan is told so instead of queueing behind the first (local_api.py:34: "say
\* so plainly rather than queueing").
NobodyWaits == \A t \in Threads : pc[t] # "idle" => ENABLED Step(t)

\* While one thread is in a card session, no other has a connection to that reader
\* (local_api.py:32: "A PC/SC card session is not reentrant").
SoleConnection ==
  \A t, u \in Threads :
    t # u /\ pc[t] \in InSession /\ conn[t] # NoReader => conn[u] # conn[t]

\* The session of a scan in progress is ended by that scan or by hands on the hardware,
\* never by another request.
OnlyHandsEndASession ==
  [][\A t \in Threads :
       LET r == conn[t] IN
         pc[t] \in InSession /\ pc'[t] \in InSession /\ session[r] = t /\ session'[r] # t
           => card'[r] # card[r] \/ plugged' # plugged]_vars

(* What makes ReplyMatchesRequest inductive: how far a thread is says what it holds, and a
   session that opened is the reading thread's own, with the card of the number typed. *)
Progressed ==
  \A t \in Threads :
    /\ pc[t] \in InSession => conn[t] \in Readers
    /\ pc[t] \in {"list", "lock"} \cup (Locked \ {"release"}) =>
         number[t] \in Cards /\ outcome[t] = "none"
    /\ pc[t] \in {"idle", "list", "lock", "presence", "connect", "auth", "probe", "probed"} =>
         got[t] = {}
    /\ pc[t] = "read" => got[t] \subseteq {number[t]}
    /\ pc[t] = "idle" => outcome[t] = "none"
    /\ pc[t] \in {"probe", "probed"} => outcome[t] # "ok"
    /\ pc[t] \in {"idle", "probe", "probed"} => number[t] = Malformed
    /\ pc[t] \in {"release", "reply"} /\ outcome[t] # "ok" => got[t] = {}

SessionsAreOwn ==
  /\ \A r \in Readers : card[r] = NoCard => session[r] = NoThread
  /\ \A t \in Threads : pc[t] = "read" /\ session[conn[t]] # NoThread =>
       session[conn[t]] = t /\ card[conn[t]] = number[t]

\* The inductive invariant, whose parts the proofs use.
IInv ==
  /\ TypeOK
  /\ LockHeldExactlyWhileReading
  /\ Progressed
  /\ SessionsAreOwn
  /\ ReplyMatchesRequest

(* The refinement mapping *)
AbsPhase  == [t \in Threads |-> CASE pc[t] = "idle" -> "idle"
                                  [] pc[t] = "reply" -> "answered"
                                  [] pc[t] \in Locked -> "reading"
                                  [] OTHER -> "asked"]
AbsWanted == [t \in Threads |-> {number[t]} \ {Malformed}]
AbsAnswer == [t \in Threads |-> IF pc[t] = "reply" THEN got[t] ELSE {}]

Contract == INSTANCE ReadContract WITH
  phase <- AbsPhase, wanted <- AbsWanted, reading <- card_read_lock, answer <- AbsAnswer

\* The service implements the contract: one session at a time, refusal instead of
\* queueing, and answers that carry the wanted card's data or none.
ImplementsContract == Contract!Spec

\* ... and its progress, under the fairness of the worker threads.
ImplementsProgress == Contract!FairSpec
=============================================================================
