--------------------------- MODULE StaffPageProofs ---------------------------
(***************************************************************************)
(* Proofs about StaffPage for any number of requests on their way, readers   *)
(* and processes: its inductive invariant, and from it whose data is on the   *)
(* screen, what an undisturbed page selects, and that requests only move on.   *)
(***************************************************************************)
EXTENDS StaffPage, TLAPS

\* The indices and the forms of a request, once and for all.
LEMMA Forms ==
  /\ 0 \in ReaderIds
  /\ Idle \in Requests
  /\ \A what \in Kinds, i \in ReaderIds, page \in 0 .. MaxProcesses :
       Request(what, i, page) \in Requests
  /\ None \notin Listings
<1>1. 0 \in ReaderIds
  BY PageAssumption DEF ReaderIds
<1>2. 0 \in 0 .. MaxProcesses
  BY PageAssumption
<1> QED
  BY <1>1, <1>2, PageAssumption DEF Idle, Requests, Request, Kinds, Answers

\* The answers are told apart by what they are.
LEMMA AnswersDiffer ==
  /\ Failure \notin Listings /\ Saved \notin Listings /\ Refusal \notin Listings
  /\ Presence \notin Listings
  /\ \A a \in Data : a \notin Listings /\ a # Failure
  /\ Failure # Saved
<1>1. \A a \in Listings : a.is = "listing"
  BY DEF Listings
<1>2. \A a \in Data : a.is = "data"
  BY DEF Data
<1>3. /\ Failure.is = "failure" /\ Saved.is = "saved" /\ Refusal.is = "refusal"
      /\ Presence.is = "presence"
  BY DEF Failure, Saved, Refusal, Presence
<1> QED
  BY <1>1, <1>2, <1>3

\* The initial state.
LEMMA InitIInv == Init => IInv
<1> SUFFICES ASSUME Init PROVE IInv
  OBVIOUS
<1> USE DEF Init
<1>1. /\ started \in 0 .. MaxProcesses /\ server \in {0, started}
      /\ token \in 0 .. started
  BY PageAssumption
<1>2. fetch \in [Fetches -> Requests]
  BY Forms
<1>3. TypeOK
  BY <1>1, <1>2 DEF TypeOK, Messages
<1>4. OwnRequests
  BY DEF OwnRequests, Fits, Idle
<1>5. BusyIsWaiting /\ ResultIsOfThisServer /\ Undisturbed
  BY DEF BusyIsWaiting, ResultIsOfThisServer, Undisturbed
<1> QED
  BY <1>3, <1>4, <1>5 DEF IInv

\* What one request being replaced means for the others.
LEMMA Replaced ==
  ASSUME TypeOK, NEW f \in Fetches, NEW q \in Requests,
         fetch' = [fetch EXCEPT ![f] = q]
  PROVE  /\ fetch' \in [Fetches -> Requests]
         /\ fetch'[f] = q
         /\ \A g \in Fetches : g # f => fetch'[g] = fetch[g]
BY DEF TypeOK

\* An answer changes nothing else of its request.
LEMMA Answering ==
  ASSUME TypeOK, NEW f \in Fetches, NEW a \in Answers \cup {None}, Answered(f, a)
  PROVE  /\ fetch' = [fetch EXCEPT ![f] = [fetch[f] EXCEPT !.answer = a]]
         /\ [fetch[f] EXCEPT !.answer = a] \in Requests
         /\ fetch'[f].what = fetch[f].what
         /\ fetch'[f].awaited = fetch[f].awaited
         /\ fetch'[f].token = fetch[f].token
         /\ fetch'[f].answer = a
<1>1. fetch \in [Fetches -> Requests]
  BY DEF TypeOK
<1>2. [fetch[f] EXCEPT !.answer = a] \in Requests
  BY <1>1 DEF Requests
<1>3. fetch' = [fetch EXCEPT ![f] = [fetch[f] EXCEPT !.answer = a]]
  BY <1>1 DEF Answered
<1> QED
  BY <1>1, <1>2, <1>3 DEF Requests

\* Requests stay their page's own while one of them is replaced.
LEMMA OwnStep ==
  ASSUME TypeOK, OwnRequests, NEW f \in Fetches, NEW q \in Requests,
         fetch' = [fetch EXCEPT ![f] = q], token' = token,
         Fits(q), q.awaited => q.token = token /\ token # 0
  PROVE  OwnRequests'
<1>1. \A g \in Fetches : Fits(fetch'[g])
  BY Replaced DEF OwnRequests
<1>2. \A g \in Fetches : fetch'[g].awaited => fetch'[g].token = token' /\ token' # 0
  BY Replaced DEF OwnRequests
<1>3. \A g \in Fetches : Fits(fetch[g])' <=> Fits(fetch'[g])
  BY DEF Fits, Idle, Failure, Saved, Refusal, Presence, Listings, Data, ReaderIds, Processes
<1> QED
  BY <1>1, <1>2, <1>3 DEF OwnRequests

\* What the page says of a scan or a check stays true while another request is replaced.
LEMMA BusyStep ==
  ASSUME TypeOK, BusyIsWaiting, NEW f \in Fetches, NEW q \in Requests,
         fetch' = [fetch EXCEPT ![f] = q], message' = message,
         fetch[f].awaited /\ fetch[f].what \in {"scan", "check"} =>
           q.awaited /\ q.what = fetch[f].what
  PROVE  BusyIsWaiting'
<1>1. ASSUME NEW what \in {"scan", "check"}, NEW g \in Fetches,
             fetch[g].awaited, fetch[g].what = what
      PROVE  \E h \in Fetches : fetch'[h].awaited /\ fetch'[h].what = what
  BY <1>1, Replaced
<1> QED
  BY <1>1 DEF BusyIsWaiting

\* A step that touches neither requests nor what they are about.
LEMMA AsideStep ==
  ASSUME IInv, UNCHANGED <<fetch, stored, token, status, selected, disturbed>>,
         message' \in {message, "told"}, result' \in {result, None}
  PROVE  OwnRequests' /\ BusyIsWaiting' /\ ResultIsOfThisServer' /\ Undisturbed'
<1> USE DEF IInv
<1>1. OwnRequests'
  BY DEF OwnRequests, Fits, Idle, Failure, Saved, Refusal, Presence, Listings, Data, ReaderIds,
         Processes
<1>2. BusyIsWaiting'
  BY DEF BusyIsWaiting
<1>3. ResultIsOfThisServer'
  BY DEF ResultIsOfThisServer
<1>4. Undisturbed'
  BY DEF Undisturbed, Settling, Quiet, Offered, Listings, ReaderIds
<1> QED
  BY <1>1, <1>2, <1>3, <1>4

\* What the page says of its own state, where no request that settles it is touched.
LEMMA UndisturbedStep ==
  ASSUME TypeOK, Undisturbed, NEW f \in Fetches, NEW q \in Requests,
         fetch' = [fetch EXCEPT ![f] = q], ~Settling(f), ~(q.awaited /\ q.what \in {"status", "config"}),
         UNCHANGED <<stored, token, status, selected>>, disturbed => disturbed'
  PROVE  Undisturbed'
<1>1. \A g \in Fetches : Settling(g)' <=> Settling(g)
  BY Replaced DEF Settling
<1>2. \A g \in Fetches : Settling(g) => fetch'[g] = fetch[g]
  BY Replaced
<1>3. Quiet' <=> Quiet
  BY <1>1 DEF Quiet
<1>4. \A g, h \in Fetches : Settling(g)' /\ Settling(h)' => Settling(g) /\ Settling(h)
  BY <1>1
<1>5. \A g \in Fetches : Settling(g)' /\ fetch'[g].answer \in Listings =>
        Settling(g) /\ fetch[g].answer \in Listings /\ fetch'[g] = fetch[g]
  BY <1>1, <1>2
<1>6. Listings' = Listings /\ \A n, i : Offered(n, i)' = Offered(n, i)
  BY DEF Listings, Offered, ReaderIds
<1> QED
  BY <1>1, <1>2, <1>3, <1>4, <1>5, <1>6 DEF Undisturbed, Offered

\* Once something came between, nothing is claimed of what is selected.
LEMMA Forgotten == ASSUME disturbed' PROVE Undisturbed'
  BY DEF Undisturbed

\* A page that is loaded waits for its first listing and for nothing else.
LEMMA LoadPreserves ==
  ASSUME IInv, NEW f \in Fetches, Load(f) PROVE IInv'
<1> USE DEF IInv
<1> DEFINE q == Request("status", 0, server)
           left(g) == [fetch[g] EXCEPT !.awaited = FALSE]
<1>1. /\ fetch \in [Fetches -> Requests] /\ server \in 0 .. MaxProcesses
      /\ server \in 0 .. started /\ started \in 0 .. MaxProcesses
  BY PageAssumption DEF TypeOK
<1>2. q \in Requests /\ q.what = "status" /\ q.awaited /\ q.token = server /\ q.answer = None
  BY <1>1, Forms DEF Request, Kinds
<1>3. \A g \in Fetches : /\ left(g) \in Requests /\ ~left(g).awaited
                         /\ left(g).what = fetch[g].what /\ left(g).answer = fetch[g].answer
                         /\ left(g).token = fetch[g].token
  BY <1>1 DEF Requests
<1>4. /\ fetch' \in [Fetches -> Requests]
      /\ fetch'[f] = q
      /\ \A g \in Fetches : g # f => fetch'[g] = left(g)
  <2>1. fetch' = [g \in Fetches |-> IF g = f THEN q ELSE left(g)]
    BY DEF Load
  <2> HIDE DEF q, left
  <2> QED
    BY <2>1, <1>2, <1>3
<1>5. TypeOK'
  <2>1. server' = server /\ token' = server /\ started' = started /\ UNCHANGED stored
    BY DEF Load, world_vars
  <2>2. status' = None /\ selected' = None /\ message' = "none" /\ result' = None /\ disturbed' = FALSE
    BY DEF Load
  <2> HIDE DEF q, left
  <2> QED
    BY <2>1, <2>2, <1>1, <1>4 DEF TypeOK, Messages, Listings, Data, ReaderIds, Processes, Requests, Answers
<1>6. Fits(q)
  BY <1>2 DEF Fits
<1>7. \A g \in Fetches : Fits(left(g))
  <2> TAKE g \in Fetches
  <2>1. CASE fetch[g] = Idle
    <3>1. left(g) = [Idle EXCEPT !.awaited = FALSE]
      BY <2>1
    <3>2. \A r \in Requests : r.awaited = FALSE => [r EXCEPT !.awaited = FALSE] = r
      BY DEF Requests
    <3>3. Idle \in Requests /\ Idle.awaited = FALSE
      BY Forms DEF Idle
    <3> QED
      BY <3>1, <3>2, <3>3 DEF Fits
  <2>2. CASE fetch[g] # Idle
    <3>1. Fits(fetch[g])
      BY DEF OwnRequests
    <3> HIDE DEF left
    <3> QED
      BY <3>1, <2>2, <1>3 DEF Fits
  <2> QED
    BY <2>1, <2>2
<1> HIDE DEF q, left
<1>8. OwnRequests'
  <2>1. \A g \in Fetches : Fits(fetch'[g])
    BY <1>4, <1>6, <1>7
  <2>2. \A g \in Fetches : fetch'[g].awaited => fetch'[g].token = token' /\ token' # 0
    BY <1>2, <1>3, <1>4 DEF Load
  <2>3. \A g \in Fetches : Fits(fetch[g])' <=> Fits(fetch'[g])
    BY DEF Fits, Idle, Failure, Saved, Refusal, Presence, Listings, Data, ReaderIds, Processes
  <2> QED
    BY <2>1, <2>2, <2>3 DEF OwnRequests
<1>9. BusyIsWaiting' /\ ResultIsOfThisServer'
  BY DEF BusyIsWaiting, ResultIsOfThisServer, Load
<1>10. Undisturbed'
  <2>1. \A g \in Fetches : Settling(g)' <=> g = f
    BY <1>2, <1>3, <1>4 DEF Settling
  <2>2. ~Quiet'
    BY <2>1 DEF Quiet
  <2>3. fetch'[f].answer \notin Listings
    BY <1>2, <1>4, Forms
  <2>4. Listings' = Listings
    BY DEF Listings, ReaderIds
  <2> QED
    BY <2>1, <2>2, <2>3, <2>4 DEF Undisturbed
<1> QED
  BY <1>5, <1>8, <1>9, <1>10

\* A click that sends a request.
LEMMA Sending ==
  ASSUME IInv, NEW f \in Fetches, NEW what \in {"status", "check", "config", "scan"},
         NEW i \in ReaderIds, Send(f, what, i), token' = token
  PROVE  /\ Request(what, i, token) \in Requests
         /\ fetch' = [fetch EXCEPT ![f] = Request(what, i, token)]
         /\ fetch' \in [Fetches -> Requests]
         /\ fetch'[f] = Request(what, i, token)
         /\ Request(what, i, token).what = what /\ Request(what, i, token).awaited
         /\ Request(what, i, token).answer = None
         /\ ~fetch[f].awaited
         /\ OwnRequests'
<1> USE DEF IInv
<1>1. token \in 0 .. MaxProcesses
  BY PageAssumption DEF TypeOK
<1>2. Request(what, i, token) \in Requests
  BY <1>1, Forms DEF Kinds
<1>3. fetch' = [fetch EXCEPT ![f] = Request(what, i, token)] /\ token # 0 /\ ~fetch[f].awaited
  BY DEF Send, Idle
<1>4. /\ Request(what, i, token).what = what /\ Request(what, i, token).awaited
      /\ Request(what, i, token).answer = None /\ Request(what, i, token).token = token
  BY DEF Request
<1>5. Fits(Request(what, i, token))
  BY <1>4 DEF Fits
<1>6. OwnRequests'
  BY <1>2, <1>3, <1>4, <1>5, OwnStep
<1> QED
  BY <1>2, <1>3, <1>4, <1>6, Replaced

\* A refresh or a save sent while another one is on its way settles nothing; alone, it does.
LEMMA SettlingSent ==
  ASSUME IInv, NEW f \in Fetches, NEW q \in Requests, fetch' = [fetch EXCEPT ![f] = q],
         q.awaited, q.what \in {"status", "config"}, q.answer = None, disturbed' = ~Quiet
  PROVE  Undisturbed'
<1> USE DEF IInv
<1>1. CASE ~Quiet
  BY <1>1, Forgotten
<1>2. CASE Quiet
  <2>1. \A g \in Fetches : Settling(g)' <=> g = f
    BY <1>2, Replaced DEF Settling, Quiet
  <2>2. ~Quiet'
    BY <2>1 DEF Quiet
  <2>3. fetch'[f].answer \notin Listings'
    BY Replaced, Forms DEF Listings, ReaderIds
  <2> QED
    BY <2>1, <2>2, <2>3 DEF Undisturbed
<1> QED
  BY <1>1, <1>2

\* A request that the page sends keeps the invariant.
LEMMA SendPreserves ==
  ASSUME IInv, NEW f \in Fetches, Refresh(f) \/ SaveReader(f) \/ CheckCard(f) \/ Scan(f)
  PROVE  IInv'
<1> USE DEF IInv
<1>1. ReaderChosen \in ReaderIds
  BY Forms DEF ReaderChosen, TypeOK
<1>2. CASE Refresh(f) \/ SaveReader(f)
  <2>1. PICK what \in {"status", "config"}, i \in ReaderIds : Send(f, what, i)
    BY <1>1, <1>2, Forms DEF Refresh, SaveReader
  <2>2. /\ UNCHANGED <<server, started, stored, token, status, selected, message, result>>
        /\ disturbed' = ~Quiet
    BY <1>2 DEF Refresh, SaveReader, world_vars, page_vars
  <2> DEFINE q == Request(what, i, token)
  <2>3. /\ q \in Requests /\ fetch' = [fetch EXCEPT ![f] = q] /\ fetch' \in [Fetches -> Requests]
        /\ q.what = what /\ q.awaited /\ q.answer = None /\ ~fetch[f].awaited /\ OwnRequests'
    BY <2>1, <2>2, Sending
  <2> HIDE DEF q
  <2>4. TypeOK'
    BY <2>2, <2>3 DEF TypeOK, Messages, Listings, Data, ReaderIds, Processes, Requests, Answers
  <2>5. BusyIsWaiting'
    BY <2>2, <2>3, BusyStep
  <2>6. ResultIsOfThisServer'
    BY <2>2 DEF ResultIsOfThisServer
  <2>7. Undisturbed'
    BY <2>2, <2>3, SettlingSent
  <2> QED
    BY <2>3, <2>4, <2>5, <2>6, <2>7
<1>3. CASE CheckCard(f) \/ Scan(f)
  <2>1. PICK what \in {"check", "scan"} :
          /\ Send(f, what, 0)
          /\ message' = IF what = "check" THEN "checking" ELSE "reading"
    BY <1>3 DEF CheckCard, Scan
  <2>2. UNCHANGED <<server, started, stored, token, status, selected, result, disturbed>>
    BY <1>3 DEF CheckCard, Scan, world_vars
  <2> DEFINE q == Request(what, 0, token)
  <2>3. /\ q \in Requests /\ fetch' = [fetch EXCEPT ![f] = q] /\ fetch' \in [Fetches -> Requests]
        /\ q.what = what /\ q.awaited /\ q.answer = None /\ ~fetch[f].awaited /\ OwnRequests'
        /\ fetch'[f] = q
    BY <2>1, <2>2, Sending, Forms
  <2> HIDE DEF q
  <2>4. TypeOK'
    BY <2>1, <2>2, <2>3 DEF TypeOK, Messages, Listings, Data, ReaderIds, Processes, Requests, Answers
  <2>5. BusyIsWaiting'
    BY <2>1, <2>3 DEF BusyIsWaiting
  <2>6. ResultIsOfThisServer'
    BY <2>2 DEF ResultIsOfThisServer
  <2>7. ~Settling(f)
    BY <2>3 DEF Settling
  <2>8. Undisturbed'
    BY <2>2, <2>3, <2>7, UndisturbedStep
  <2> QED
    BY <2>3, <2>4, <2>5, <2>6, <2>8
<1> QED
  BY <1>2, <1>3

\* What staff or another window do beside any request.
LEMMA OffersTyped ==
  ASSUME NEW listing \in Listings
  PROVE  Offered(listing.count, listing.reader_id) \in ReaderIds \cup {None}
BY DEF Offered, Listings

\* What happens beside the requests keeps the invariant.
LEMMA AsidePreserves ==
  ASSUME IInv,
         ScanMalformed \/ Translate \/ Discard \/ ServerStarts \/ ServerEnds
           \/ \E i \in ReaderIds : Select(i) \/ OtherWindowSaves(i)
  PROVE  IInv'
<1> USE DEF IInv
<1>1. CASE ScanMalformed \/ Discard \/ ServerStarts \/ ServerEnds
  <2>1. /\ UNCHANGED <<fetch, stored, token, status, selected, disturbed>>
        /\ message' \in {message, "told"} /\ result' \in {result, None}
    BY <1>1 DEF ScanMalformed, Discard, ServerStarts, ServerEnds, page_vars, world_vars
  <2>2. /\ started' \in 0 .. MaxProcesses /\ server' \in {0, started'}
        /\ token' \in 0 .. started'
    BY <1>1, PageAssumption
    DEF TypeOK, ScanMalformed, Discard, ServerStarts, ServerEnds, page_vars, world_vars
  <2>3. TypeOK'
    BY <2>1, <2>2 DEF TypeOK, Messages, Listings, Data, ReaderIds, Processes, Requests, Answers
  <2> QED
    BY <2>1, <2>3, AsideStep
<1>2. CASE Translate
  <2>1. /\ UNCHANGED <<server, started, fetch, stored, token, message, result, disturbed, status>>
        /\ selected' = Offered(status.count, status.reader_id)
        /\ status \in Listings
    BY <1>2 DEF Translate, Rendered, world_vars, TypeOK
  <2>2. TypeOK'
    BY <2>1, OffersTyped DEF TypeOK, Messages, Listings, Data, ReaderIds, Processes, Requests, Answers
  <2>3. OwnRequests' /\ BusyIsWaiting' /\ ResultIsOfThisServer'
    BY ZenonT(60), <2>1 DEF OwnRequests, BusyIsWaiting, ResultIsOfThisServer, Fits, Idle, Failure, Saved,
                Refusal, Presence, Listings, Data, ReaderIds, Processes
  <2>4. Undisturbed'
    BY <2>1 DEF Undisturbed, Settling, Quiet, Offered, Listings, ReaderIds
  <2> QED
    BY <2>2, <2>3, <2>4
<1>3. CASE \E i \in ReaderIds : Select(i) \/ OtherWindowSaves(i)
  <2>1. /\ UNCHANGED <<server, started, fetch, token, message, result, status>>
        /\ stored' \in ReaderIds /\ selected' \in ReaderIds \cup {None} /\ disturbed'
        /\ disturbed' \in BOOLEAN
    BY <1>3 DEF Select, OtherWindowSaves, world_vars, page_vars, TypeOK
  <2>2. TypeOK'
    BY <2>1 DEF TypeOK, Messages, Listings, Data, ReaderIds, Processes, Requests, Answers
  <2>3. OwnRequests' /\ BusyIsWaiting' /\ ResultIsOfThisServer'
    BY <2>1 DEF OwnRequests, BusyIsWaiting, ResultIsOfThisServer, Fits, Idle, Failure, Saved,
                Refusal, Presence, Listings, Data, ReaderIds, Processes
  <2> QED
    BY <2>1, <2>2, <2>3, Forgotten
<1> QED
  BY <1>1, <1>2, <1>3

\* An answer that is known now, and what it means for the page that asked.
LEMMA AnsweredStep ==
  ASSUME IInv, NEW f \in Fetches, NEW a \in Answers, Answered(f, a),
         Fits([fetch[f] EXCEPT !.answer = a]),
         UNCHANGED <<world_vars, page_vars>>, stored' \in ReaderIds, disturbed' \in BOOLEAN,
         Undisturbed'
  PROVE  IInv'
<1> USE DEF IInv
<1> DEFINE q == [fetch[f] EXCEPT !.answer = a]
<1>1. /\ q \in Requests /\ fetch' = [fetch EXCEPT ![f] = q] /\ fetch' \in [Fetches -> Requests]
      /\ q.what = fetch[f].what /\ q.awaited = fetch[f].awaited /\ q.token = fetch[f].token
  BY Answering, Replaced
<1> HIDE DEF q
<1>2. UNCHANGED <<server, started, token, status, selected, message, result>>
  BY DEF world_vars, page_vars
<1>3. TypeOK'
  BY <1>1, <1>2 DEF TypeOK, Messages, Listings, Data, ReaderIds, Processes, Requests, Answers
<1>4. OwnRequests'
  <2>1. Fits(q)
    BY DEF q
  <2>2. q.awaited => q.token = token /\ token # 0
    BY <1>1 DEF OwnRequests
  <2> QED
    BY <1>1, <1>2, <2>1, <2>2, OwnStep
<1>5. BusyIsWaiting'
  BY <1>1, <1>2, BusyStep
<1>6. ResultIsOfThisServer'
  BY <1>2 DEF ResultIsOfThisServer
<1> QED
  BY <1>3, <1>4, <1>5, <1>6

\* An answer fits the request it is given to.
LEMMA AnswerFits ==
  ASSUME TypeOK, NEW f \in Fetches, NEW a \in Answers,
         \/ fetch[f].what = "status" /\ a \in Listings \cup {Failure}
         \/ fetch[f].what = "check"  /\ a \in {Presence, Failure}
         \/ fetch[f].what = "config" /\ a \in {Saved, Failure}
         \/ fetch[f].what = "scan"   /\ a \in {Refusal, Failure}
         \/ fetch[f].what = "scan"   /\ a \in Data /\ a.process = fetch[f].token
  PROVE  Fits([fetch[f] EXCEPT !.answer = a])
<1>1. fetch[f] \in Requests
  BY DEF TypeOK
<1> DEFINE q == [fetch[f] EXCEPT !.answer = a]
<1>2. q.what = fetch[f].what /\ q.token = fetch[f].token /\ q.answer = a
  BY <1>1 DEF Requests
<1> HIDE DEF q
<1>3. Fits(q)
  BY <1>2 DEF Fits
<1> QED
  BY <1>3 DEF q

\* A listing that tells what is stored, or an answer that is none, leaves the page right: a
\* setting that changes with it was the only thing the page waited for.
LEMMA TruthTold ==
  ASSUME IInv, NEW f \in Fetches, NEW a \in Answers, Answered(f, a),
         a \in Listings /\ ~disturbed' => a.reader_id = stored',
         stored' # stored /\ ~disturbed' => Settling(f) /\ a \in Listings,
         UNCHANGED <<token, status, selected>>, disturbed => disturbed'
  PROVE  Undisturbed'
<1> USE DEF IInv
<1>1. /\ fetch'[f].answer = a /\ \A g \in Fetches : g # f => fetch'[g] = fetch[g]
      /\ \A g \in Fetches : Settling(g)' <=> Settling(g)
  BY ZenonT(60), Answering, Replaced DEF Settling
<1>2. Quiet' <=> Quiet
  BY <1>1 DEF Quiet
<1>3. Listings' = Listings /\ \A n, i : Offered(n, i)' = Offered(n, i)
  BY DEF Listings, Offered, ReaderIds
<1> SUFFICES ASSUME ~disturbed', token' # 0
             PROVE  Undisturbed'
  BY DEF Undisturbed
<1>4. \A g, h \in Fetches : Settling(g)' /\ Settling(h)' => g = h
  BY <1>1 DEF Undisturbed
<1>5. \A g \in Fetches : Settling(g)' /\ fetch'[g].answer \in Listings =>
        fetch'[g].answer.reader_id = stored'
  BY <1>1 DEF Undisturbed
<1>6. Quiet => stored' = stored
  BY DEF Quiet
<1> QED
  BY <1>2, <1>3, <1>4, <1>5, <1>6 DEF Undisturbed, Offered

\* The guard's refusal and the handlers.
LEMMA ServePreserves ==
  ASSUME IInv, NEW f \in Fetches, Serve(f) PROVE IInv'
<1> USE DEF IInv
<1>1. /\ fetch \in [Fetches -> Requests] /\ stored \in ReaderIds /\ disturbed \in BOOLEAN
      /\ fetch[f] \in Requests /\ fetch[f].reader_id \in ReaderIds
  BY DEF TypeOK, Requests
<1>2. UNCHANGED <<world_vars, page_vars>> /\ UNCHANGED <<token, status, selected>>
  BY DEF Serve, page_vars
<1>3. fetch[f].what \in {"status", "check", "config", "scan"}
  BY <1>1 DEF Serve, Requests, Kinds
<1>4. CASE Answered(f, Failure) /\ UNCHANGED <<stored, disturbed>>
  <2>1. Failure \in Answers /\ Failure \notin Listings
    BY AnswersDiffer DEF Answers
  <2>2. Undisturbed'
    BY <1>2, <1>4, <2>1, TruthTold
  <2>3. Fits([fetch[f] EXCEPT !.answer = Failure])
    BY <1>3, <2>1, AnswerFits
  <2> QED
    BY <1>1, <1>2, <1>4, <2>1, <2>2, <2>3, AnsweredStep
<1>5. CASE server # 0 /\ TokenMatches(fetch[f]) /\ Handled(f)
  <2>1. ASSUME NEW config \in {stored, 0}, NEW n \in 0 .. MaxReaders,
               fetch[f].what = "status", Loads(config),
               Answered(f, [is |-> "listing", count |-> n, reader_id |-> config]),
               disturbed' = (disturbed \/ config # stored' \/ (stored' # stored /\ ~fetch[f].awaited))
        PROVE  IInv'
    <3> DEFINE a == [is |-> "listing", count |-> n, reader_id |-> config]
    <3>1. config \in ReaderIds /\ stored' \in ReaderIds
      BY <1>1, <2>1, Forms DEF Loads
    <3>2. a \in Listings /\ a \in Answers /\ a.reader_id = config
      BY <3>1 DEF Listings, Answers
    <3>3. Answered(f, a)
      BY <2>1
    <3> HIDE DEF a
    <3>4. ~disturbed' => ~disturbed /\ config = stored' /\ (stored' # stored => Settling(f))
      BY <2>1 DEF Settling
    <3>5. Undisturbed'
      BY <1>2, <3>2, <3>3, <3>4, TruthTold
    <3>6. Fits([fetch[f] EXCEPT !.answer = a])
      BY <2>1, <3>2, AnswerFits
    <3>7. disturbed' \in BOOLEAN
      BY <1>1, <2>1
    <3> QED
      BY <1>2, <3>1, <3>2, <3>3, <3>5, <3>6, <3>7, AnsweredStep
  <2>2. ASSUME fetch[f].what \in {"status", "check"}, \E config \in {stored, 0} : Loads(config),
               NEW a \in {Presence, Failure}, a = Failure \/ fetch[f].what = "check",
               Answered(f, a), disturbed' = (disturbed \/ stored' # stored)
        PROVE  IInv'
    <3>1. a \in Answers /\ a \notin Listings
      BY AnswersDiffer DEF Answers
    <3>2. stored' \in ReaderIds /\ disturbed' \in BOOLEAN
      BY <1>1, <2>2, Forms DEF Loads
    <3>3. Undisturbed'
      BY <1>2, <2>2, <3>1, TruthTold
    <3>4. Fits([fetch[f] EXCEPT !.answer = a])
      BY <2>2, <3>1, AnswerFits
    <3> QED
      BY <1>2, <2>2, <3>1, <3>2, <3>3, <3>4, AnsweredStep
  <2>3. CASE fetch[f].what = "config"
    <3>1. PICK a \in {Saved, Failure} : Answered(f, a) /\ stored' \in ReaderIds
      BY <1>1, <1>5, <2>3, Forms DEF Handled
    <3>2. a \in Answers /\ a \notin Listings
      BY AnswersDiffer DEF Answers
    <3>3. disturbed' = (disturbed \/ ~fetch[f].awaited)
      BY <1>5, <2>3 DEF Handled
    <3>4. Fits([fetch[f] EXCEPT !.answer = a])
      BY <2>3, <3>2, AnswerFits
    <3>5. Undisturbed'
      <4>1. CASE disturbed'
        BY <4>1, Forgotten
      <4>2. CASE ~disturbed'
        <5>1. /\ fetch'[f].answer = a /\ \A g \in Fetches : g # f => fetch'[g] = fetch[g]
              /\ \A g \in Fetches : Settling(g)' <=> Settling(g)
          BY ZenonT(60), <3>1, <3>2, Answering, Replaced DEF Settling
        <5>2. Settling(f) /\ ~disturbed
          BY <2>3, <3>3, <4>2, <1>1 DEF Settling
        <5>3. ~Quiet'
          BY <5>1, <5>2 DEF Quiet
        <5>4. Listings' = Listings
          BY DEF Listings, ReaderIds
        <5>5. token' = token
          BY <1>2
        <5> QED
          BY <3>2, <5>1, <5>2, <5>3, <5>4, <5>5 DEF Undisturbed
      <4> QED
        BY <4>1, <4>2
    <3>6. disturbed' \in BOOLEAN
      BY <1>1, <3>3
    <3> QED
      BY <1>2, <3>1, <3>2, <3>4, <3>5, <3>6, AnsweredStep
  <2>4. CASE fetch[f].what = "scan" /\ ~(Answered(f, Failure) /\ UNCHANGED <<stored, disturbed>>)
    <3>1. UNCHANGED <<stored, disturbed>>
      BY <1>5, <2>4 DEF Handled
    <3>2. PICK a \in Answers : /\ Answered(f, a) /\ a \notin Listings
                               /\ a = Refusal \/ (a \in Data /\ a.process = fetch[f].token)
      <4>1. CASE Answered(f, Refusal)
        BY <4>1, AnswersDiffer DEF Answers
      <4>2. CASE ~Answered(f, Refusal)
        <5>1. PICK c \in Comprehensive, i \in Individual :
                Answered(f, [is |-> "data", process |-> server,
                             comprehensive |-> c, individual |-> i])
          BY <1>5, <2>4, <4>2 DEF Handled
        <5> DEFINE a == [is |-> "data", process |-> server,
                         comprehensive |-> c, individual |-> i]
        <5>2. server \in Processes
          BY <1>5, PageAssumption DEF TypeOK, Processes
        <5>3. a \in Data /\ a.process = server
          BY <5>2 DEF Data
        <5>4. server = fetch[f].token
          BY <1>5 DEF TokenMatches
        <5> HIDE DEF a
        <5>5. a \in Answers /\ a \notin Listings
          BY <5>3, AnswersDiffer DEF Answers
        <5>6. Answered(f, a)
          BY <5>1 DEF a
        <5> QED
          BY <5>3, <5>4, <5>5, <5>6
      <4> QED
        BY <4>1, <4>2
    <3>3. Undisturbed'
      BY <1>2, <3>1, <3>2, TruthTold
    <3>4. Fits([fetch[f] EXCEPT !.answer = a])
      BY <2>4, <3>2, AnswerFits
    <3> QED
      BY <1>1, <1>2, <3>1, <3>2, <3>3, <3>4, AnsweredStep
  <2>5. CASE /\ fetch[f].what = "status"
             /\ \E config \in {stored, 0}, n \in 0 .. MaxReaders :
                  /\ Loads(config)
                  /\ Answered(f, [is |-> "listing", count |-> n, reader_id |-> config])
                  /\ disturbed' = (disturbed \/ config # stored'
                                             \/ (stored' # stored /\ ~fetch[f].awaited))
    BY <2>1, <2>5
  <2>6. CASE /\ fetch[f].what \in {"status", "check"}
             /\ \E config \in {stored, 0} : Loads(config)
             /\ \/ fetch[f].what = "check" /\ Answered(f, Presence)
                \/ Answered(f, Failure)
             /\ disturbed' = (disturbed \/ stored' # stored)
    BY <2>2, <2>6
  <2> QED
    BY <1>3, <1>4, <1>5, <2>3, <2>4, <2>5, <2>6 DEF Handled
<1> QED
  BY <1>4, <1>5 DEF Serve

\* A request that is over, or is followed by another, leaves the others as they were.
LEMMA ReplacedStep ==
  ASSUME IInv, NEW f \in Fetches, NEW q \in Requests, fetch' = [fetch EXCEPT ![f] = q],
         UNCHANGED <<world_vars, token>>, stored' \in ReaderIds, disturbed' \in BOOLEAN,
         Fits(q), q.awaited => q.token = token /\ token # 0,
         status' \in Listings \cup {None}, selected' \in ReaderIds \cup {None},
         \/ message' = "told"
         \/ /\ message' = message
            /\ ~(fetch[f].awaited /\ fetch[f].what \in {"scan", "check"}),
         result' = result \/ (result' \in Data /\ result'.process = token /\ token # 0),
         Undisturbed'
  PROVE  IInv'
<1> USE DEF IInv
<1>1. fetch' \in [Fetches -> Requests]
  BY Replaced
<1>2. server' = server /\ started' = started /\ token' = token
  BY DEF world_vars
<1>3. TypeOK'
  BY <1>1, <1>2 DEF TypeOK, Messages, Listings, Data, ReaderIds, Processes, Requests, Answers
<1>4. OwnRequests'
  BY <1>2, OwnStep
<1>5. BusyIsWaiting'
  <2>1. CASE message' = "told"
    BY <2>1 DEF BusyIsWaiting
  <2>2. CASE message' # "told"
    BY <2>2, BusyStep
  <2> QED
    BY <2>1, <2>2
<1>6. ResultIsOfThisServer'
  BY <1>2 DEF ResultIsOfThisServer
<1> QED
  BY <1>3, <1>4, <1>5, <1>6

\* What the page does with each kind of answer.
LEMMA DeliverPreserves ==
  ASSUME IInv, NEW f \in Fetches, Deliver(f) PROVE IInv'
<1> USE DEF IInv
<1>1. /\ fetch[f] \in Requests /\ Fits(fetch[f])
      /\ fetch[f].awaited => fetch[f].token = token /\ token # 0
      /\ status \in Listings \cup {None} /\ selected \in ReaderIds \cup {None}
      /\ stored \in ReaderIds /\ disturbed \in BOOLEAN
  BY DEF TypeOK, OwnRequests
<1>2. Idle \in Requests /\ Fits(Idle) /\ ~Idle.awaited
  BY Forms DEF Fits, Idle
<1>3. CASE StatusArrives(f)
  <2>1. /\ fetch[f].awaited /\ fetch[f].what = "status" /\ fetch[f].answer # None
        /\ fetch' = [fetch EXCEPT ![f] = Idle]
        /\ UNCHANGED <<world_vars, token, stored, message, result>>
    BY <1>3 DEF StatusArrives, Arrives, Freed
  <2>2. fetch[f].answer \in Listings \cup {Failure}
    BY <1>1, <2>1 DEF Fits, Idle
  <2>3. CASE fetch[f].answer = Failure
    <3>1. disturbed' = TRUE /\ UNCHANGED <<status, selected>>
      BY <1>3, <2>3 DEF StatusArrives
    <3>2. Undisturbed'
      BY <3>1, Forgotten
    <3> QED
      BY <1>1, <1>2, <2>1, <3>1, <3>2, ReplacedStep
  <2>4. CASE fetch[f].answer # Failure
    <3>1. /\ fetch[f].answer \in Listings
          /\ status' = fetch[f].answer
          /\ selected' = Offered(fetch[f].answer.count, fetch[f].answer.reader_id)
          /\ disturbed' = disturbed
      BY <1>3, <2>2, <2>4 DEF StatusArrives, Rendered
    <3>2. selected' \in ReaderIds \cup {None}
      BY <3>1, OffersTyped
    <3>3. Undisturbed'
      <4> SUFFICES ASSUME ~disturbed', token' # 0 PROVE Undisturbed'
        BY DEF Undisturbed
      <4>1. Settling(f) /\ \A g \in Fetches : Settling(g) => g = f
        BY <2>1, <3>1 DEF Undisturbed, Settling
      <4>2. fetch[f].answer.reader_id = stored
        BY <2>1, <3>1, <4>1 DEF Undisturbed
      <4>3. \A g \in Fetches : ~Settling(g)'
        BY <1>2, <2>1, <4>1, Replaced DEF Settling
      <4>4. status' # None
        BY <3>1, Forms
      <4>5. stored' = stored /\ \A n, i : Offered(n, i)' = Offered(n, i)
        BY <2>1 DEF Offered
      <4> QED
        BY <3>1, <4>2, <4>3, <4>4, <4>5 DEF Undisturbed, Offered
    <3> QED
      BY <1>1, <1>2, <2>1, <3>1, <3>2, <3>3, ReplacedStep
  <2> QED
    BY <2>3, <2>4
<1>4. CASE SaveArrives(f)
  <2>1. /\ fetch[f].awaited /\ fetch[f].what = "config" /\ message' = "told"
        /\ UNCHANGED <<world_vars, token, stored, status, selected, result>>
    BY <1>4 DEF SaveArrives, Arrives
  <2>2. CASE fetch' = [fetch EXCEPT ![f] = Idle] /\ disturbed' = TRUE
    BY <1>1, <1>2, <2>1, <2>2, Forgotten, ReplacedStep
  <2>3. CASE ThenRefresh(f) /\ disturbed' = disturbed
    <3> DEFINE q == Request("status", 0, token)
    <3>1. token \in 0 .. MaxProcesses
      BY PageAssumption DEF TypeOK
    <3>2. /\ q \in Requests /\ q.what = "status" /\ q.awaited /\ q.token = token
          /\ q.answer = None
      BY <3>1, Forms DEF Request, Kinds
    <3>3. fetch' = [fetch EXCEPT ![f] = q]
      BY <2>3 DEF ThenRefresh
    <3> HIDE DEF q
    <3>4. Fits(q)
      BY <3>2 DEF Fits
    <3>5. Undisturbed'
      <4> SUFFICES ASSUME ~disturbed', token' # 0 PROVE Undisturbed'
        BY DEF Undisturbed
      <4>1. Settling(f) /\ \A g \in Fetches : Settling(g) => g = f
        BY <2>1, <2>3 DEF Undisturbed, Settling
      <4>2. \A g \in Fetches : Settling(g)' <=> g = f
        BY <3>2, <3>3, <4>1, Replaced DEF Settling
      <4>3. fetch'[f].answer \notin Listings'
        BY <3>2, <3>3, Replaced, Forms DEF Listings, ReaderIds
      <4>4. ~Quiet'
        BY <4>2 DEF Quiet
      <4> QED
        BY <4>2, <4>3, <4>4 DEF Undisturbed
    <3> QED
      BY <1>1, <2>1, <2>3, <3>2, <3>3, <3>4, <3>5, ReplacedStep
  <2> QED
    BY <1>4, <2>2, <2>3 DEF SaveArrives, Freed
<1>5. CASE CheckArrives(f) \/ ScanArrives(f)
  <2>1. /\ fetch[f].awaited /\ fetch[f].what \in {"check", "scan"}
        /\ message' = "told" /\ fetch' = [fetch EXCEPT ![f] = Idle]
        /\ UNCHANGED <<world_vars, token, stored, status, selected, disturbed>>
    BY <1>5 DEF CheckArrives, ScanArrives, Arrives, Freed, FailureSaid
  <2>2. result' = result \/ (result' \in Data /\ result'.process = token /\ token # 0)
    <3>1. CASE result' = result
      BY <3>1
    <3>2. CASE result' # result
      <4>1. /\ fetch[f].what = "scan" /\ fetch[f].answer \notin {Failure, Refusal, None}
            /\ result' = fetch[f].answer
        BY <1>5, <3>2 DEF CheckArrives, ScanArrives, Arrives
      <4>2. fetch[f].answer \in Data /\ fetch[f].answer.process = fetch[f].token
        BY <1>1, <4>1 DEF Fits, Idle
      <4> QED
        BY <1>1, <2>1, <4>1, <4>2
    <3> QED
      BY <3>1, <3>2
  <2>3. ~Settling(f)
    BY <2>1 DEF Settling
  <2>4. Undisturbed'
    BY <1>2, <2>1, <2>3, UndisturbedStep
  <2> QED
    BY <1>1, <1>2, <2>1, <2>2, <2>4, ReplacedStep
<1>6. CASE Unclaimed(f)
  <2>1. /\ ~fetch[f].awaited /\ fetch' = [fetch EXCEPT ![f] = Idle]
        /\ UNCHANGED <<world_vars, token, stored, status, selected, message, result, disturbed>>
    BY <1>6 DEF Unclaimed, Freed, page_vars
  <2>2. ~Settling(f)
    BY <2>1 DEF Settling
  <2>3. Undisturbed'
    BY <1>2, <2>1, <2>2, UndisturbedStep
  <2> QED
    BY <1>1, <1>2, <2>1, <2>3, ReplacedStep
<1> QED
  BY <1>3, <1>4, <1>5, <1>6 DEF Deliver

\* An answer that gets lost keeps the invariant.
LEMMA LostPreserves ==
  ASSUME IInv, NEW f \in Fetches, Lost(f) PROVE IInv'
<1> USE DEF IInv
<1>1. /\ Answered(f, Failure) /\ UNCHANGED <<world_vars, page_vars, stored, disturbed>>
      /\ fetch[f].answer \notin {None, Failure}
  BY DEF Lost
<1>2. UNCHANGED <<token, status, selected>> /\ stored \in ReaderIds /\ disturbed \in BOOLEAN
  BY <1>1 DEF page_vars, TypeOK
<1>3. Failure \in Answers /\ Failure \notin Listings
  BY AnswersDiffer DEF Answers
<1>4. Undisturbed'
  BY <1>1, <1>2, <1>3, TruthTold
<1>5. Fits(fetch[f]) /\ fetch[f] # Idle
  BY <1>1 DEF OwnRequests, Idle
<1>6. fetch[f].what \in {"status", "check", "config", "scan"}
  BY <1>5 DEF Fits
<1>7. Fits([fetch[f] EXCEPT !.answer = Failure])
  BY <1>3, <1>6, AnswerFits
<1> QED
  BY <1>1, <1>2, <1>3, <1>4, <1>7, AnsweredStep

\* Every step keeps the invariant.
LEMMA StepIInv == IInv /\ [Next]_vars => IInv'
<1> SUFFICES ASSUME IInv, [Next]_vars PROVE IInv'
  OBVIOUS
<1>1. CASE Click
  BY <1>1, LoadPreserves, SendPreserves, AsidePreserves DEF Click
<1>2. CASE World
  BY <1>2, LostPreserves, AsidePreserves DEF World
<1>3. CASE \E f \in Fetches : Progress(f)
  BY <1>3, ServePreserves, DeliverPreserves DEF Progress
<1>4. CASE UNCHANGED vars
  <2>1. /\ UNCHANGED <<server, started, fetch, stored, token, status, selected, disturbed>>
        /\ UNCHANGED <<message, result>>
    BY <1>4 DEF vars, world_vars, page_vars
  <2>2. TypeOK'
    BY <2>1 DEF IInv, TypeOK, Messages, Listings, Data, ReaderIds, Processes, Requests, Answers
  <2> QED
    BY <2>1, <2>2, AsideStep DEF IInv
<1> QED
  BY <1>1, <1>2, <1>3, <1>4 DEF Next

\* Whatever staff click and whichever answers come, late, twice asked for or never: a request
\* awaited is the page's own, its answer fits, and "reading" means that a scan is on its way.
THEOREM Inductive == Spec => []IInv
BY InitIInv, StepIInv, PTL DEF Spec

\* Card data on the screen was read by the process that served this page (app.py's token check).
THEOREM ResultOfThisServer == Spec => []ResultIsOfThisServer
<1>1. IInv => ResultIsOfThisServer
  BY DEF IInv
<1> QED
  BY <1>1, Inductive, PTL

\* An undisturbed refresh or save leaves the stored reader selected (local.js renderStatus);
\* a load() that puts defaults in the setting's place is a disturbance.
THEOREM SelectionIsStored == Spec => []PageShowsStored
<1>1. IInv => PageShowsStored
  BY DEF IInv, PageShowsStored, Undisturbed
<1> QED
  BY <1>1, Inductive, PTL
-----------------------------------------------------------------------------
(* Requests only move on: what makes "reading" and "checking" end. *)

\* What is still to happen to a request: it is served, its answer delivered; a save's answer is
\* followed by a refresh.
StepsOf(q) ==
  IF q.what = "none" THEN 0
  ELSE (IF q.what = "config" THEN 3 ELSE 1) + (IF q.answer = None THEN 1 ELSE 0)

LEMMA StepsOfForms ==
  ASSUME NEW q
  PROVE  /\ q.what = "none" => StepsOf(q) = 0
         /\ q.what = "config" /\ q.answer = None => StepsOf(q) = 4
         /\ q.what = "config" /\ q.answer # None => StepsOf(q) = 3
         /\ q.what \in {"status", "check", "scan"} /\ q.answer = None => StepsOf(q) = 2
         /\ q.what \in {"status", "check", "scan"} /\ q.answer # None => StepsOf(q) = 1
         /\ StepsOf(q) \in 0 .. 4
  BY DEF StepsOf

MovesOn(f) ==
  /\ fetch[f] # Idle => StepsOf(fetch'[f]) <= StepsOf(fetch[f])
  /\ Progress(f) => StepsOf(fetch'[f]) < StepsOf(fetch[f])

\* Whatever a process or its absence makes of a request is an answer.
LEMMA ServeAnswers ==
  ASSUME TypeOK, NEW f \in Fetches, Serve(f)
  PROVE  \E a \in Answers : Answered(f, a)
<1>1. Failure \in Answers /\ Saved \in Answers /\ Refusal \in Answers /\ Presence \in Answers
  BY DEF Answers
<1>2. CASE server # 0 /\ Handled(f)
  <2>1. ASSUME NEW n \in 0 .. MaxReaders, NEW config \in {stored, 0}
        PROVE  [is |-> "listing", count |-> n, reader_id |-> config] \in Answers
    BY Forms DEF TypeOK, Answers, Listings
  <2>2. ASSUME NEW c \in Comprehensive, NEW i \in Individual
        PROVE  [is |-> "data", process |-> server, comprehensive |-> c, individual |-> i] \in Answers
    <3>1. server \in Processes
      BY <1>2, PageAssumption DEF TypeOK, Processes
    <3> QED
      BY <3>1 DEF Answers, Data
  <2> QED
    BY <1>1, <1>2, <2>1, <2>2 DEF Handled
<1>3. CASE Answered(f, Failure)
  BY <1>1, <1>3
<1> QED
  BY <1>2, <1>3 DEF Serve

\* A request that is served or delivered has a step less before it.
LEMMA ServeLowers ==
  ASSUME TypeOK, NEW f \in Fetches, Serve(f)
  PROVE  StepsOf(fetch'[f]) < StepsOf(fetch[f])
<1>1. PICK a \in Answers : Answered(f, a)
  BY ServeAnswers
<1>2. a # None
  BY PageAssumption
<1>3. fetch[f].what \in {"status", "check", "config", "scan"} /\ fetch[f].answer = None
  BY DEF Serve, TypeOK, Requests, Kinds
<1>4. fetch'[f].what = fetch[f].what /\ fetch'[f].answer = a
  BY <1>1, Answering
<1> QED
  BY <1>2, <1>3, <1>4, StepsOfForms

LEMMA DeliverLowers ==
  ASSUME TypeOK, NEW f \in Fetches, Deliver(f)
  PROVE  StepsOf(fetch'[f]) < StepsOf(fetch[f])
<1>1. fetch \in [Fetches -> Requests] /\ StepsOf(Idle) = 0
  BY StepsOfForms DEF TypeOK, Idle
<1>2. fetch[f].what \in {"status", "check", "config", "scan"} /\ fetch[f].answer # None
  BY <1>1 DEF Deliver, StatusArrives, SaveArrives, CheckArrives, ScanArrives, Arrives, Unclaimed,
              Requests, Kinds
<1>3. StepsOf(fetch[f]) \in {1, 3}
  BY <1>2, StepsOfForms
<1>4. CASE Freed(f)
  <2>1. fetch'[f] = Idle
    BY <1>1, <1>4 DEF Freed
  <2> QED
    BY <1>1, <1>3, <2>1
<1>5. CASE fetch[f].what = "config" /\ ThenRefresh(f)
  <2>1. fetch'[f].what = "status" /\ fetch'[f].answer = None
    BY <1>1, <1>5 DEF ThenRefresh, Request
  <2>2. StepsOf(fetch'[f]) = 2 /\ StepsOf(fetch[f]) = 3
    BY <1>2, <1>5, <2>1, StepsOfForms
  <2> QED
    BY <2>2
<1> QED
  BY <1>4, <1>5
     DEF Deliver, StatusArrives, SaveArrives, CheckArrives, ScanArrives, Arrives, Unclaimed

LEMMA ProgressLowers ==
  ASSUME TypeOK, NEW f \in Fetches, Progress(f)
  PROVE  StepsOf(fetch'[f]) < StepsOf(fetch[f])
  BY ServeLowers, DeliverLowers DEF Progress

\* No step puts a request on its way back: one that is lost has an answer, a failure, and one
\* whose page is gone is no longer awaited.
LEMMA NeverBack ==
  ASSUME TypeOK, [Next]_vars, NEW f \in Fetches, fetch[f] # Idle
  PROVE  StepsOf(fetch'[f]) <= StepsOf(fetch[f])
<1>0. fetch \in [Fetches -> Requests] /\ StepsOf(fetch[f]) \in 0 .. 4 /\ StepsOf(fetch'[f]) \in 0 .. 4
  BY StepsOfForms DEF TypeOK
<1>1. CASE fetch'[f] = fetch[f]
  BY <1>0, <1>1
<1>2. ASSUME NEW g \in Fetches, Load(g) PROVE StepsOf(fetch'[f]) <= StepsOf(fetch[f])
  <2>1. g # f /\ fetch'[f] = [fetch[f] EXCEPT !.awaited = FALSE]
    BY <1>2 DEF Load
  <2>2. fetch'[f].what = fetch[f].what /\ fetch'[f].answer = fetch[f].answer
    BY <1>0, <2>1 DEF Requests
  <2> QED
    BY <1>0, <2>2 DEF StepsOf
<1>3. ASSUME NEW g \in Fetches, Refresh(g) \/ SaveReader(g) \/ CheckCard(g) \/ Scan(g)
      PROVE  fetch'[f] = fetch[f]
  BY <1>0, <1>3 DEF Refresh, SaveReader, CheckCard, Scan, Send
<1>4. ASSUME NEW g \in Fetches, Lost(g) PROVE StepsOf(fetch'[f]) <= StepsOf(fetch[f])
  <2>1. CASE g # f
    BY <1>0, <1>1, <1>4, <2>1 DEF Lost, Answered
  <2>2. CASE g = f
    <3>1. Failure \in Answers
      BY DEF Answers
    <3>2. fetch'[f].what = fetch[f].what /\ fetch'[f].answer = Failure /\ fetch[f].answer # None
      BY <1>4, <2>2, <3>1, Answering DEF Lost
    <3>3. Failure # None
      BY <3>1, PageAssumption
    <3> QED
      BY <1>0, <3>2, <3>3 DEF StepsOf
  <2> QED
    BY <2>1, <2>2
<1>5. ASSUME NEW g \in Fetches, Progress(g) PROVE StepsOf(fetch'[f]) <= StepsOf(fetch[f])
  <2>1. CASE g = f
    BY <1>0, <1>5, <2>1, ProgressLowers
  <2>2. CASE g # f
    <3>1. CASE Serve(g)
      <4>1. PICK a \in Answers : Answered(g, a)
        BY <3>1, ServeAnswers
      <4> QED
        BY <1>0, <1>1, <2>2, <4>1 DEF Answered
    <3>2. CASE Deliver(g)
      <4>1. Freed(g) \/ ThenRefresh(g)
        BY <3>2 DEF Deliver, StatusArrives, SaveArrives, CheckArrives, ScanArrives, Unclaimed
      <4> QED
        BY <1>0, <1>1, <2>2, <4>1 DEF Freed, ThenRefresh
    <3> QED
      BY <1>5, <3>1, <3>2 DEF Progress
  <2> QED
    BY <2>1, <2>2
<1>6. CASE Click
  <2>1. ScanMalformed \/ Translate \/ Discard \/ (\E i \in ReaderIds : Select(i)) => UNCHANGED fetch
    BY DEF ScanMalformed, Translate, Discard, Select
  <2> QED
    BY <1>1, <1>2, <1>3, <1>6, <2>1 DEF Click
<1>7. CASE World
  <2>1. ServerStarts \/ ServerEnds \/ (\E i \in ReaderIds : OtherWindowSaves(i)) => UNCHANGED fetch
    BY DEF ServerStarts, ServerEnds, OtherWindowSaves
  <2> QED
    BY <1>1, <1>4, <1>7, <2>1 DEF World
<1>8. CASE UNCHANGED vars
  BY <1>1, <1>8 DEF vars
<1> QED
  BY <1>5, <1>6, <1>7, <1>8 DEF Next

\* A request on its way always has a next step: it is to be served, or it has an answer that the
\* page that asked knows what to do with, or that nobody waits for.
InGoodHands(f) ==
  fetch[f] # Idle =>
    \/ fetch[f].what # "none" /\ fetch[f].answer = None
    \/ /\ Arrives(f, fetch[f].what)
       /\ fetch[f].what = "config" => fetch[f].answer \in {Saved, Failure}
       /\ fetch[f].what = "status" => fetch[f].answer \in Listings \cup {Failure}
    \/ fetch[f].what # "none" /\ ~fetch[f].awaited /\ fetch[f].answer # None

\* Four steps at most lie before a request, none of them ever comes back, serving and delivering
\* take one each; and "reading" or "checking" is said only while such a request is on its way:
\* the safety half of BusyEnds.
THEOREM RequestsOnlyMoveOn ==
  Spec => /\ [][\A f \in Fetches : MovesOn(f)]_vars
          /\ [](BusyIsWaiting /\ \A f \in Fetches : InGoodHands(f))
<1>1. IInv /\ [Next]_vars => [\A f \in Fetches : MovesOn(f)]_vars
  BY NeverBack, ProgressLowers DEF IInv, MovesOn
<1>2. IInv => BusyIsWaiting /\ \A f \in Fetches : InGoodHands(f)
  <2> SUFFICES ASSUME IInv, NEW f \in Fetches PROVE InGoodHands(f)
    BY DEF IInv
  <2>1. fetch[f] # Idle =>
          /\ fetch[f].what # "none"
          /\ fetch[f].what = "config" => fetch[f].answer \in {Saved, Failure, None}
          /\ fetch[f].what = "status" => fetch[f].answer \in Listings \cup {Failure, None}
    BY DEF IInv, OwnRequests, Fits
  <2>2. fetch[f].awaited \in BOOLEAN
    BY DEF IInv, TypeOK, Requests
  <2> QED
    BY <2>1, <2>2 DEF InGoodHands, Arrives
<1> QED
  BY <1>1, <1>2, Inductive, PTL DEF Spec
=============================================================================
