------------------------------ MODULE StaffPage ------------------------------
(***************************************************************************)
(* static/local.js, the one page staff see, and what answers it: app.py's    *)
(* request guard, the handlers of the Local API, and the processes that come *)
(* and go on the port.  Every request is a fetch of its own, so answers       *)
(* arrive in any order, after the page has changed, or never.  The handlers   *)
(* are taken as ScanService and ConfigStore leave them: each request is        *)
(* answered, a scan with data or a refusal, a save with its effect or without, *)
(* and whatever loads config.json may leave defaults in its place.             *)
(***************************************************************************)
EXTENDS Naturals

CONSTANTS
  Fetches,        \* requests of the page that may be on their way at once
  MaxReaders,     \* bound: readers attached at once
  MaxProcesses,   \* bound: server processes one after another on the port
  Comprehensive,  \* comprehensive_permission_code of the cards scanned
  Individual,     \* individual_permission_code of the cards scanned
  None

ReaderIds == 0 .. MaxReaders - 1
Processes == 1 .. MaxProcesses

VARIABLES
  server,    \* the process serving the port, which is also its token; 0 for none
  started,   \* processes that have served the port so far
  stored,    \* config.json's reader_id
  token,     \* localToken: the process that served the page; 0 before the page is loaded
  status,    \* state.status: the listing rendered last, or None
  selected,  \* readerSelect's value: an index, or None when no option is selected
  message,   \* scanMessage: "none", "reading", "checking" or "told", an outcome
  result,    \* state.result: the data on the screen, or None
  fetch,     \* fetch[f]: a request on its way and, once known, what it brings
  disturbed  \* history: since the last refresh or save began, something else has touched
             \* the page's selection or the stored setting, the load() of another request
             \* included, or its own load() missed what is stored

world_vars == <<server, started>>
page_vars  == <<token, status, selected, message, result>>
vars == <<world_vars, stored, page_vars, fetch, disturbed>>

Kinds == {"none", "status", "check", "config", "scan"}
Idle  == [what |-> "none", reader_id |-> 0, token |-> 0, awaited |-> FALSE, answer |-> None]

\* What the page makes of an answer: a status other than 2xx, or none, is a failure.
Failure  == [is |-> "failure"]
Saved    == [is |-> "saved"]
Refusal  == [is |-> "refusal"]
Presence == [is |-> "presence"]
Listings == [is : {"listing"}, count : 0 .. MaxReaders, reader_id : ReaderIds]
Data     == [is : {"data"}, process : Processes, comprehensive : Comprehensive,
             individual : Individual]
Answers  == {Failure, Saved, Refusal, Presence} \cup Listings \cup Data

ASSUME PageAssumption ==
  /\ MaxReaders \in Nat \ {0}
  /\ MaxProcesses \in Nat
  /\ None \notin ReaderIds \cup Answers

\* Requests whose outcome says what is stored, and whether the page waits for one.
Settling(f) == fetch[f].awaited /\ fetch[f].what \in {"status", "config"}
Quiet == \A f \in Fetches : ~Settling(f)

Init ==
  /\ server = 0
  /\ started = 0
  /\ stored \in ReaderIds
  /\ token = 0
  /\ status = None
  /\ selected = None
  /\ message = "none"
  /\ result = None
  /\ fetch = [f \in Fetches |-> Idle]
  /\ disturbed = FALSE
-----------------------------------------------------------------------------
(* The page *)

\* api(path, body): the request carries the token of the page that makes it.
Request(what, i, page) ==
  [what |-> what, reader_id |-> i, token |-> page, awaited |-> TRUE, answer |-> None]

Send(f, what, i) ==
  /\ token # 0
  /\ fetch[f] = Idle
  /\ fetch' = [fetch EXCEPT ![f] = Request(what, i, token)]

\* Number($("readerSelect").value || 0)
ReaderChosen == IF selected = None THEN 0 ELSE selected

\* GET / by the process now serving: a fresh page with its token, which refreshes at once.
\* Nobody waits any more for what an earlier page asked for.
Load(f) ==
  /\ server # 0
  /\ fetch[f] = Idle
  /\ token' = server
  /\ status' = None
  /\ selected' = None
  /\ message' = "none"
  /\ result' = None
  /\ fetch' = [g \in Fetches |->
                 IF g = f THEN Request("status", 0, server)
                 ELSE [fetch[g] EXCEPT !.awaited = FALSE]]
  /\ disturbed' = FALSE
  /\ UNCHANGED <<world_vars, stored>>

\* The button that refreshes the status.
Refresh(f) ==
  /\ Send(f, "status", 0)
  /\ disturbed' = ~Quiet
  /\ UNCHANGED <<world_vars, stored, page_vars>>

SaveReader(f) ==
  /\ Send(f, "config", ReaderChosen)
  /\ disturbed' = ~Quiet
  /\ UNCHANGED <<world_vars, stored, page_vars>>

CheckCard(f) ==
  /\ Send(f, "check", 0)
  /\ message' = "checking"
  /\ UNCHANGED <<world_vars, stored, token, status, selected, result, disturbed>>

\* The number typed and ReaderChosen go with it; what they do there is ScanService's.
Scan(f) ==
  /\ Send(f, "scan", 0)
  /\ message' = "reading"
  /\ UNCHANGED <<world_vars, stored, token, status, selected, result, disturbed>>

\* A number that does not look like a card's never leaves the page.
ScanMalformed ==
  /\ token # 0
  /\ message' = "told"
  /\ UNCHANGED <<world_vars, stored, token, status, selected, result, fetch, disturbed>>

Select(i) ==
  /\ status # None
  /\ i < status.count
  /\ selected' = i
  /\ disturbed' = TRUE
  /\ UNCHANGED <<world_vars, stored, token, status, message, result, fetch>>

\* renderStatus: the options are made anew; select.value takes an index that has an option.
Offered(count, i) == IF i < count THEN i ELSE None
Rendered(listing) ==
  /\ status' = listing
  /\ selected' = Offered(listing.count, listing.reader_id)

\* A change of language renders the last listing again.
Translate ==
  /\ status # None
  /\ Rendered(status)
  /\ UNCHANGED <<world_vars, stored, token, message, result, fetch, disturbed>>

Discard ==
  /\ result # None
  /\ result' = None
  /\ UNCHANGED <<world_vars, stored, token, status, selected, message, fetch, disturbed>>
-----------------------------------------------------------------------------
(* The server *)

\* enforce_local_request_policy: of its checks a request of the page itself can fail only
\* the token's; every path below /api/ but the launcher's health check needs one.
AnyToken(q) == q.token # 0
TokenMatches(q) == q.token = server

Answered(f, a) == fetch' = [fetch EXCEPT ![f].answer = a]

\* LocalConfigStore.load(): a file whose reading fails, or that a save in progress has torn, is
\* taken for the defaults, which stay in its place unless saving them fails or comes too early.
Loads(config) ==
  \/ config = stored /\ UNCHANGED stored
  \/ config = 0 /\ stored' \in {stored, 0}

\* local_status, local_config and local_manual_scan; each may also raise, which the guard
\* turns into a 500, and a save that fails leaves the file as it was or to be healed.
Handled(f) ==
  \/ /\ fetch[f].what = "status"
     /\ \E config \in {stored, 0}, n \in 0 .. MaxReaders :
          /\ Loads(config)
          /\ Answered(f, [is |-> "listing", count |-> n, reader_id |-> config])
          /\ disturbed' = (disturbed \/ config # stored' \/ (stored' # stored /\ ~fetch[f].awaited))
  \/ /\ fetch[f].what \in {"status", "check"}
     /\ \E config \in {stored, 0} : Loads(config)
     /\ \/ fetch[f].what = "check" /\ Answered(f, Presence)
        \/ Answered(f, Failure)
     /\ disturbed' = (disturbed \/ stored' # stored)
  \/ /\ fetch[f].what = "config"
     /\ \/ stored' = fetch[f].reader_id /\ Answered(f, Saved)
        \/ stored' \in {stored, 0} /\ Answered(f, Failure)
     /\ disturbed' = (disturbed \/ ~fetch[f].awaited)
  \/ /\ fetch[f].what = "scan"
     /\ \/ \E c \in Comprehensive, i \in Individual :
             Answered(f, [is |-> "data", process |-> server,
                          comprehensive |-> c, individual |-> i])
        \/ Answered(f, Refusal)
        \/ Answered(f, Failure)
     /\ UNCHANGED <<stored, disturbed>>

Serve(f) ==
  /\ fetch[f].what # "none"
  /\ fetch[f].answer = None
  /\ \/ /\ server # 0 /\ TokenMatches(fetch[f])
        /\ Handled(f)
     \/ /\ ~(server # 0 /\ TokenMatches(fetch[f]))
        /\ Answered(f, Failure)
        /\ UNCHANGED <<stored, disturbed>>
  /\ UNCHANGED <<world_vars, page_vars>>
-----------------------------------------------------------------------------
(* What the page does with an answer, whatever else it shows or asks for by then. *)

Freed(f) == fetch' = [fetch EXCEPT ![f] = Idle]
NeverGivesUp(f, what) ==
  fetch[f].awaited /\ fetch[f].what = what /\ fetch[f].answer \notin {None, Failure}
Arrives(f, what) == fetch[f].awaited /\ fetch[f].what = what /\ fetch[f].answer # None

\* refresh(): a failure leaves the listing on the screen.
StatusArrives(f) ==
  /\ Arrives(f, "status")
  /\ Freed(f)
  /\ \/ /\ fetch[f].answer # Failure
        /\ Rendered(fetch[f].answer)
        /\ UNCHANGED disturbed
     \/ /\ fetch[f].answer = Failure
        /\ disturbed' = TRUE
        /\ UNCHANGED <<status, selected>>
  /\ UNCHANGED <<world_vars, stored, token, message, result>>

\* say(reader_saved), then await refresh()
SavedOnly(f) == Freed(f)
ThenRefresh(f) == fetch' = [fetch EXCEPT ![f] = Request("status", 0, token)]

SaveArrives(f) ==
  /\ Arrives(f, "config")
  /\ \/ /\ fetch[f].answer = Saved
        /\ message' = "told"
        /\ ThenRefresh(f)
        /\ UNCHANGED disturbed
     \/ /\ fetch[f].answer = Failure
        /\ message' = "told"
        /\ Freed(f)
        /\ disturbed' = TRUE
  /\ UNCHANGED <<world_vars, stored, token, status, selected, result>>

\* The catch clauses say that it failed.
SilentFailure == message
FailureSaid == "told"

CheckArrives(f) ==
  /\ Arrives(f, "check")
  /\ Freed(f)
  /\ message' = IF fetch[f].answer = Failure THEN FailureSaid ELSE "told"
  /\ UNCHANGED <<world_vars, stored, token, status, selected, result, disturbed>>

\* An earlier result stays on the screen unless there is a new one.
ScanArrives(f) ==
  /\ Arrives(f, "scan")
  /\ Freed(f)
  /\ \/ /\ fetch[f].answer \notin {Failure, Refusal}
        /\ message' = "told"
        /\ result' = fetch[f].answer
     \/ /\ fetch[f].answer \in {Failure, Refusal}
        /\ message' = FailureSaid
        /\ UNCHANGED result
  /\ UNCHANGED <<world_vars, stored, token, status, selected, disturbed>>

\* The page that asked is gone; the handler ran nevertheless.
Unclaimed(f) ==
  /\ fetch[f].what # "none" /\ ~fetch[f].awaited /\ fetch[f].answer # None
  /\ Freed(f)
  /\ UNCHANGED <<world_vars, stored, page_vars, disturbed>>

Deliver(f) ==
  StatusArrives(f) \/ SaveArrives(f) \/ CheckArrives(f) \/ ScanArrives(f) \/ Unclaimed(f)
-----------------------------------------------------------------------------
(* Processes, hands, other windows *)

ServerStarts ==
  /\ server = 0
  /\ started < MaxProcesses
  /\ started' = started + 1
  /\ server' = started + 1
  /\ UNCHANGED <<stored, page_vars, fetch, disturbed>>

\* The page stays open when the server of another launcher, which it used, ends.
ServerEnds ==
  /\ server # 0
  /\ server' = 0
  /\ UNCHANGED <<started, stored, page_vars, fetch, disturbed>>

\* An answer under way when its process ended may not arrive.
Lost(f) ==
  /\ fetch[f].answer \notin {None, Failure}
  /\ fetch[f].token # server
  /\ Answered(f, Failure)
  /\ UNCHANGED <<world_vars, stored, page_vars, disturbed>>

\* The page of another launcher's window on the same server saves its reader.
OtherWindowSaves(i) ==
  /\ server # 0
  /\ stored' = i
  /\ disturbed' = TRUE
  /\ UNCHANGED <<world_vars, page_vars, fetch>>

Click ==
  \/ \E f \in Fetches : Load(f) \/ Refresh(f) \/ SaveReader(f) \/ CheckCard(f) \/ Scan(f)
  \/ ScanMalformed \/ Translate \/ Discard
  \/ \E i \in ReaderIds : Select(i)

World ==
  \/ ServerStarts \/ ServerEnds
  \/ \E f \in Fetches : Lost(f)
  \/ \E i \in ReaderIds : OtherWindowSaves(i)

Progress(f) == Serve(f) \/ Deliver(f)

Next == Click \/ World \/ \E f \in Fetches : Progress(f)

Spec == Init /\ [][Next]_vars

\* Every request that reaches a server is answered (ScanService's ImplementsProgress), one
\* that reaches none is refused, and the page's event loop runs what arrives.
Fairness == \A f \in Fetches : WF_vars(Progress(f))

FairSpec == Spec /\ Fairness
-----------------------------------------------------------------------------
(* What a card's permission codes are shown as. *)

\* The server's word, in display_fields.py: either permission grants the right.
Granted(card) == card.comprehensive \in {"1", "2"} \/ card.individual = "1"

\* The page's own, in English: the first code that is not empty decides.
FirstCode(card) == IF card.comprehensive # "" THEN card.comprehensive ELSE card.individual

PermissionShown(language, card) ==
  IF language = "ja" THEN Granted(card) ELSE FirstCode(card) # "0"

\* A result shows one permission in either language (display_fields.py:6-7: "so the browser
\* never has to re-implement card semantics and the same values stay consistent").
PermissionAgrees ==
  result # None => PermissionShown("en", result) = PermissionShown("ja", result)
-----------------------------------------------------------------------------
Messages == {"none", "reading", "checking", "told"}
Requests == [what : Kinds, reader_id : ReaderIds, token : 0 .. MaxProcesses,
             awaited : BOOLEAN, answer : Answers \cup {None}]

TypeOK ==
  /\ started \in 0 .. MaxProcesses
  /\ server \in {0, started}
  /\ stored \in ReaderIds
  /\ token \in 0 .. started
  /\ status \in Listings \cup {None}
  /\ selected \in ReaderIds \cup {None}
  /\ message \in Messages
  /\ result \in Data \cup {None}
  /\ fetch \in [Fetches -> Requests]
  /\ disturbed \in BOOLEAN

\* "Reading" and "checking" are on the screen only while such a request is on its way,
\* however many others were sent, answered, refused or lost meanwhile.
BusyIsWaiting ==
  /\ message = "reading"  => \E f \in Fetches : fetch[f].awaited /\ fetch[f].what = "scan"
  /\ message = "checking" => \E f \in Fetches : fetch[f].awaited /\ fetch[f].what = "check"

\* Card data on the screen was read by the process that served this page: not by one that
\* took the port over, nor for a page that was there before (app.py:27-30, index.html:7-8:
\* without the process's token "every staff API call made from it is refused").
ResultIsOfThisServer == result # None => token # 0 /\ result.process = token

\* Once a refresh, or a save and the refresh after it, is over and nothing else came between,
\* the page selects what is stored, if that reader is listed, in either language: what is
\* scanned with is what "check card" probes and the next start will find.  A load() comes
\* between that replaces the setting by defaults, that of a card check included, or that
\* shows defaults where it did not.
PageShowsStored ==
  token # 0 /\ Quiet /\ ~disturbed =>
    status # None /\ selected = Offered(status.count, stored)

\* No message stays at "reading" or "checking": a request that is refused, lost with its
\* server or answered to a page that has moved on still ends what the page says of it.
BusyEnds == message \in {"reading", "checking"} ~> message \notin {"reading", "checking"}

(* What makes these inductive: a request awaited is this page's, an answer fits its request,
   and while nothing else came between, one request at most is on its way that tells what is
   stored, and it tells the truth. *)
Fits(q) ==
  \/ q = Idle
  \/ q.what = "status" /\ q.answer \in Listings \cup {Failure, None}
  \/ q.what = "check"  /\ q.answer \in {Presence, Failure, None}
  \/ q.what = "config" /\ q.answer \in {Saved, Failure, None}
  \/ q.what = "scan"   /\ q.answer \in {Refusal, Failure, None}
  \/ q.what = "scan"   /\ q.answer \in Data /\ q.answer.process = q.token

OwnRequests ==
  \A f \in Fetches :
    /\ Fits(fetch[f])
    /\ fetch[f].awaited => fetch[f].token = token /\ token # 0

Undisturbed ==
  ~disturbed /\ token # 0 =>
    /\ \A f, g \in Fetches : Settling(f) /\ Settling(g) => f = g
    /\ \A f \in Fetches : Settling(f) /\ fetch[f].answer \in Listings =>
         fetch[f].answer.reader_id = stored
    /\ Quiet => /\ status # None
                /\ status.reader_id = stored
                /\ selected = Offered(status.count, stored)

\* The inductive invariant, whose parts the proofs use.
IInv ==
  /\ TypeOK
  /\ OwnRequests
  /\ BusyIsWaiting
  /\ ResultIsOfThisServer
  /\ Undisturbed
=============================================================================
