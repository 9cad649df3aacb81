-------------------------- MODULE ConfigStoreProofs --------------------------
(***************************************************************************)
(* What config.json keeps whatever the number of worker threads, the indices  *)
(* clients save, the overlaps of their handlers, the crashes and the failing   *)
(* reads and saves: one induction over IInv carries the three promises.        *)
(***************************************************************************)
EXTENDS ConfigStore, TLAPS

\* A request that names an index is not one of the other two.
LEMMA RequestsDiffer ==
  /\ 0 \in ReaderIds /\ Defaults \in ReaderIds
  /\ Keep \notin ReaderIds /\ Look \notin ReaderIds /\ None \notin ReaderIds /\ Keep # Look
BY ConfigAssumption DEF Defaults

\* The invariant holds before the first request.
LEMMA InitIInv == Init => IInv
<1> SUFFICES ASSUME Init PROVE IInv
  OBVIOUS
<1>1. TypeOK
  <2>1. file \in [state : States, reader_id : ReaderIds]
    BY RequestsDiffer DEF Init, Config, States
  <2>2. pc \in [Threads -> Locations] /\ request \in [Threads -> Requests]
    BY DEF Init, Locations, Requests
  <2>3. loaded \in [Threads -> ReaderIds] /\ purpose \in [Threads -> Purposes]
    BY RequestsDiffer DEF Init, Purposes
  <2> QED
    BY <2>1, <2>2, <2>3 DEF Init, TypeOK
<1>2. Alone
  BY DEF Init, Alone, Busy, Saving
<1> QED
  BY <1>1, <1>2 DEF Init, IInv, Resting, Kept, Settled

-----------------------------------------------------------------------------
(* One step of one handler: what load() hands on, and what each exit leaves behind. *)

\* load() is done: a status query replies, a save opens the file.
LEMMA LoadedStep ==
  ASSUME TypeOK, NEW t \in Threads, NEW id \in ReaderIds, Loaded(t, id)
  PROVE  /\ loaded' \in [Threads -> ReaderIds] /\ purpose' \in [Threads -> Purposes]
         /\ pc' \in [Threads -> Locations]
         /\ \A u \in Threads : u # t => /\ pc'[u] = pc[u] /\ loaded'[u] = loaded[u]
                                        /\ purpose'[u] = purpose[u]
         /\ request[t] = Look => pc'[t] = "reply"
         /\ request[t] # Look => pc'[t] = "open" /\ purpose'[t] = "store"
<1>1. CASE request[t] = Look
  BY <1>1 DEF TypeOK, Loaded, Holds, Goto, Locations
<1>2. CASE request[t] # Look
  <2>1. Chosen(t, id) \in ReaderIds
    BY <1>2 DEF TypeOK, Chosen, Requests
  <2> QED
    BY <1>2, <2>1 DEF TypeOK, Loaded, Holds, Goto, Locations, Purposes
<1> QED
  BY <1>1, <1>2

\* Receive: a POST withdraws the selection, and an overlap is remembered.
LEMMA ReceiveStep == ASSUME IInv, NEW t \in Threads, Receive(t) PROVE IInv'
<1> USE DEF IInv
<1>1. PICK q \in Requests : /\ request' = [request EXCEPT ![t] = q]
                            /\ selected' = IF q = Look THEN selected ELSE None
  BY DEF Receive
<1>2. /\ pc[t] = "idle" /\ pc' = [pc EXCEPT ![t] = "exists"]
      /\ overlapped' = (overlapped \/ OthersBusy(t))
      /\ UNCHANGED <<file, loaded, purpose, answered, shaken>>
  BY DEF Receive, Goto
<1>3. TypeOK'
  <2>1. overlapped' \in BOOLEAN
    BY <1>2 DEF OthersBusy, TypeOK
  <2>2. pc' \in [Threads -> Locations] /\ request' \in [Threads -> Requests]
    BY <1>1, <1>2 DEF TypeOK, Locations
  <2> QED
    BY <1>1, <1>2, <2>1, <2>2 DEF TypeOK
<1>4. Alone'
  <2> SUFFICES ASSUME ~overlapped' PROVE Alone'
    BY DEF Alone
  <2>1. ~overlapped /\ \A u \in Threads : u # t => pc[u] = "idle"
    BY <1>2 DEF OthersBusy
  <2>2. \A u \in Threads : pc'[u] = IF u = t THEN "exists" ELSE "idle"
    BY <1>2, <2>1 DEF TypeOK
  <2> QED
    BY <2>2 DEF Alone, Busy, Saving
<1>5. Kept'
  BY <1>1, <1>2 DEF Kept, TypeOK
<1>6. Settled'
  BY <1>2 DEF Settled, TypeOK
<1>7. Resting'
  BY <1>1, <1>2 DEF Resting, TypeOK, Busy
<1> QED
  BY <1>3, <1>4, <1>5, <1>6, <1>7

\* Exists and Read: the file is not touched, and a reply is only reached from a current or
\* missing one.
LEMMA LoadingStep ==
  ASSUME IInv, NEW t \in Threads, Exists(t) \/ Read(t)
  PROVE  IInv'
<1> USE DEF IInv
<1>1. /\ pc[t] \in {"exists", "read"}
      /\ UNCHANGED <<file, request, overlapped, selected, answered, shaken>>
  BY DEF Exists, Read, history
<1>2. /\ loaded' \in [Threads -> ReaderIds] /\ purpose' \in [Threads -> Purposes]
      /\ pc' \in [Threads -> Locations]
      /\ \A u \in Threads : u # t => /\ pc'[u] = pc[u] /\ loaded'[u] = loaded[u]
                                     /\ purpose'[u] = purpose[u]
      /\ \/ pc'[t] = "read" /\ file.state # "missing"
         \/ pc'[t] = "reply" /\ request[t] = Look /\ file.state \in {"missing", "current"}
         \/ pc'[t] = "open" /\ purpose'[t] = "store" /\ request[t] # Look
         \/ /\ pc'[t] = "open" /\ purpose'[t] \in {"migrate", "heal"}
            /\ file.state \in {"legacy", "garbled"}
  <2>1. file.state \in States /\ file.reader_id \in ReaderIds /\ Defaults \in ReaderIds
    BY RequestsDiffer DEF TypeOK
  <2>2. CASE Exists(t) /\ Loaded(t, Defaults)
    <3>1. file.state = "missing"
      BY <2>2 DEF Exists, Loaded, Goto, TypeOK, Locations
    <3> QED
      BY <2>1, <2>2, <3>1, LoadedStep
  <2>3. CASE Exists(t) /\ file.state # "missing" /\ Goto(t, "read") /\ UNCHANGED <<loaded, purpose>>
    BY <2>3 DEF Goto, TypeOK, Locations
  <2>4. CASE Read(t) /\ Parses /\ ~HasForeignKeys /\ Loaded(t, file.reader_id)
    BY <2>1, <2>4, LoadedStep DEF Parses, HasForeignKeys, States
  <2>5. CASE /\ Read(t) /\ HasForeignKeys /\ Holds(t, file.reader_id) /\ Goto(t, "open")
             /\ purpose' = [purpose EXCEPT ![t] = "migrate"]
    BY <2>1, <2>5 DEF HasForeignKeys, Holds, Goto, TypeOK, Locations, Purposes
  <2>6. CASE /\ Read(t) /\ ~Parses /\ Holds(t, Defaults) /\ Goto(t, "open")
             /\ purpose' = [purpose EXCEPT ![t] = "heal"]
    BY <2>1, <2>6 DEF Parses, Holds, Goto, TypeOK, Locations, Purposes
  <2> QED
    BY <2>2, <2>3, <2>4, <2>5, <2>6 DEF Exists, Read
<1>3. TypeOK'
  BY <1>1, <1>2 DEF TypeOK
<1>4. Alone'
  <2> SUFFICES ASSUME ~overlapped' PROVE Alone'
    BY DEF Alone
  <2>1. ~overlapped /\ \A u \in Threads : u # t => pc[u] = "idle"
    BY <1>1 DEF Alone, Busy
  <2>2. \A u \in Threads : u # t => pc'[u] = "idle"
    BY <1>2, <2>1
  <2>3. pc'[t] = "reply" => request'[t] = Look
    BY <1>1, <1>2
  <2>4. Saving(t)' /\ purpose'[t] \in {"migrate", "heal"} => file'.state \in {"garbled", "legacy"}
    BY <1>1, <1>2 DEF Saving
  <2> QED
    BY <2>2, <2>3, <2>4 DEF Alone, Busy, Saving
<1>5. Kept'
  <2>1. selected # None => file.state = "current" /\ request[t] = Look
    BY DEF Kept, Config
  <2> QED
    BY <1>1, <1>2, <2>1 DEF Kept
<1>6. Settled'
  BY <1>1, <1>2 DEF Settled
<1>7. Resting'
  BY <1>1, <1>2 DEF Resting, TypeOK, Busy
<1> QED
  BY <1>3, <1>4, <1>5, <1>6, <1>7

\* ReadFails: defaults are to be saved with the selection given up, or the handler fails.
LEMMA ReadFailsStep == ASSUME IInv, NEW t \in Threads, ReadFails(t) PROVE IInv'
<1> USE DEF IInv
<1>1. /\ pc[t] \in {"exists", "read"}
      /\ UNCHANGED <<file, request, overlapped, answered, shaken>>
  BY DEF ReadFails
<1>2. /\ loaded' \in [Threads -> ReaderIds] /\ purpose' \in [Threads -> Purposes]
      /\ pc' \in [Threads -> Locations] /\ selected' \in ReaderIds \cup {None}
      /\ \A u \in Threads : u # t => /\ pc'[u] = pc[u] /\ loaded'[u] = loaded[u]
                                     /\ purpose'[u] = purpose[u]
      /\ \/ pc'[t] = "open" /\ purpose'[t] = "replace" /\ selected' = None
         \/ pc'[t] = "error" /\ selected' = selected
  <2>1. CASE /\ Holds(t, Defaults) /\ Goto(t, "open") /\ selected' = None
             /\ purpose' = [purpose EXCEPT ![t] = "replace"]
    BY <2>1, RequestsDiffer DEF Holds, Goto, TypeOK, Locations, Purposes
  <2>2. CASE Goto(t, "error") /\ UNCHANGED <<loaded, purpose, selected>>
    BY <2>2 DEF Goto, TypeOK, Locations
  <2> QED
    BY <2>1, <2>2 DEF ReadFails
<1>3. TypeOK'
  BY <1>1, <1>2 DEF TypeOK
<1>4. Alone'
  <2> SUFFICES ASSUME ~overlapped' PROVE Alone'
    BY DEF Alone
  <2>1. \A u \in Threads : u # t => pc'[u] = "idle"
    BY <1>1, <1>2 DEF Alone, Busy
  <2>2. pc'[t] # "reply" /\ ~ (Saving(t)' /\ purpose'[t] \in {"migrate", "heal"})
    BY <1>2 DEF Saving
  <2> QED
    BY <2>1, <2>2 DEF Alone, Busy, Saving
<1>5. Kept'
  BY <1>1, <1>2 DEF Kept
<1>6. Settled'
  BY <1>1, <1>2 DEF Settled
<1>7. Resting'
  BY <1>1, <1>2 DEF Resting, TypeOK, Busy
<1> QED
  BY <1>3, <1>4, <1>5, <1>6, <1>7

\* Open: the file is torn until the write that follows; nobody keeps a selection meanwhile.
LEMMA OpenStep == ASSUME IInv, NEW t \in Threads, Open(t) PROVE IInv'
<1> USE DEF IInv
<1>1. /\ pc[t] = "open" /\ pc' = [pc EXCEPT ![t] = "write"] /\ file' = Config("garbled", 0)
      /\ UNCHANGED <<request, loaded, purpose, overlapped, selected, answered, shaken>>
  BY DEF Open, Goto, history
<1>2. TypeOK'
  <2>1. file' \in [state : States, reader_id : ReaderIds] /\ pc' \in [Threads -> Locations]
    BY <1>1, RequestsDiffer DEF TypeOK, Config, States, Locations
  <2> QED
    BY <1>1, <2>1 DEF TypeOK
<1>3. Alone'
  <2> SUFFICES ASSUME ~overlapped' PROVE Alone'
    BY DEF Alone
  <2>1. \A u \in Threads : u # t => pc'[u] = "idle"
    BY <1>1 DEF Alone, Busy, TypeOK
  <2>2. pc'[t] = "write" /\ file'.state = "garbled"
    BY <1>1 DEF TypeOK, Config
  <2> QED
    BY <2>1, <2>2 DEF Alone, Busy, Saving
<1>4. Kept'
  <2>1. selected = None
    BY <1>1 DEF Kept
  <2> QED
    BY <1>1, <2>1 DEF Kept
<1>5. Settled'
  <2>1. file'.state = "garbled" /\ pc'[t] = "write"
    BY <1>1 DEF TypeOK, Config
  <2> QED
    BY <2>1 DEF Settled
<1>6. Resting'
  BY <1>1 DEF Resting, TypeOK, Busy
<1> QED
  BY <1>2, <1>3, <1>4, <1>5, <1>6

\* Write: whoever writes leaves a current file, with the index it loaded or was sent.
LEMMA WriteStep == ASSUME IInv, NEW t \in Threads, Write(t) PROVE IInv'
<1> USE DEF IInv
<1>1. /\ pc[t] = "write" /\ file' = Config("current", loaded[t])
      /\ UNCHANGED <<request, overlapped, selected, answered, shaken>>
  BY DEF Write, Written, history
<1>2. /\ loaded' \in [Threads -> ReaderIds] /\ purpose' \in [Threads -> Purposes]
      /\ pc' \in [Threads -> Locations]
      /\ \A u \in Threads : u # t => /\ pc'[u] = pc[u] /\ loaded'[u] = loaded[u]
                                     /\ purpose'[u] = purpose[u]
      /\ \/ pc'[t] = "reply" /\ loaded'[t] = loaded[t]
         \/ pc'[t] = "reply" /\ request[t] = Look
         \/ pc'[t] = "open" /\ purpose'[t] = "store"
  <2>1. CASE purpose[t] = "store" /\ Goto(t, "reply") /\ UNCHANGED <<loaded, purpose>>
    BY <2>1 DEF Goto, TypeOK, Locations
  <2>2. CASE Loaded(t, loaded[t])
    BY <2>2, LoadedStep DEF TypeOK
  <2> QED
    BY <2>1, <2>2 DEF Write
<1>3. file'.state = "current" /\ file' \in [state : States, reader_id : ReaderIds]
  BY <1>1 DEF Config, States, TypeOK
<1>4. TypeOK'
  BY <1>1, <1>2, <1>3 DEF TypeOK
<1>5. Alone'
  <2> SUFFICES ASSUME ~overlapped' PROVE Alone'
    BY DEF Alone
  <2>1. \A u \in Threads : u # t => pc'[u] = "idle"
    BY <1>1, <1>2 DEF Alone, Busy
  <2>2. /\ pc'[t] = "reply" /\ request'[t] # Look => file' = Config("current", loaded'[t])
        /\ ~ (Saving(t)' /\ purpose'[t] \in {"migrate", "heal"})
    BY <1>1, <1>2 DEF Saving
  <2> QED
    BY <2>1, <2>2 DEF Alone, Busy, Saving
<1>6. Kept'
  BY <1>1 DEF Kept
<1>7. Settled'
  BY <1>3 DEF Settled
<1>8. Resting'
  BY <1>1, <1>2 DEF Resting, TypeOK, Busy
<1> QED
  BY <1>4, <1>5, <1>6, <1>7, <1>8

\* SaveFails: the fault is remembered, and only a handler that looks goes on without the file.
LEMMA SaveFailsStep == ASSUME IInv, NEW t \in Threads, SaveFails(t) PROVE IInv'
<1> USE DEF IInv
<1>1. /\ pc[t] \in {"open", "write"} /\ shaken' = TRUE
      /\ UNCHANGED <<file, request, overlapped, selected, answered>>
  BY DEF SaveFails
<1>2. /\ loaded' \in [Threads -> ReaderIds] /\ purpose' \in [Threads -> Purposes]
      /\ pc' \in [Threads -> Locations]
      /\ \A u \in Threads : u # t => /\ pc'[u] = pc[u] /\ loaded'[u] = loaded[u]
                                     /\ purpose'[u] = purpose[u]
      /\ \/ pc'[t] = "open" /\ purpose[t] = "migrate"
         \/ pc'[t] = "open" /\ purpose'[t] = "store"
         \/ pc'[t] = "reply" /\ request[t] = Look
         \/ pc'[t] = "error"
  <2>1. CASE /\ purpose[t] = "migrate" /\ Holds(t, Defaults) /\ Goto(t, "open")
             /\ purpose' = [purpose EXCEPT ![t] = "heal"]
    BY <2>1, RequestsDiffer DEF Holds, Goto, TypeOK, Locations, Purposes
  <2>2. CASE Loaded(t, Defaults)
    BY <2>2, RequestsDiffer, LoadedStep
  <2>3. CASE Goto(t, AfterFailedStore) /\ UNCHANGED <<loaded, purpose>>
    BY <2>3 DEF AfterFailedStore, Goto, TypeOK, Locations
  <2> QED
    BY <2>1, <2>2, <2>3 DEF SaveFails
<1>3. TypeOK'
  BY <1>1, <1>2 DEF TypeOK
<1>4. Alone'
  <2> SUFFICES ASSUME ~overlapped' PROVE Alone'
    BY DEF Alone
  <2>1. \A u \in Threads : u # t => pc'[u] = "idle"
    BY <1>1, <1>2 DEF Alone, Busy
  <2>2. purpose[t] = "migrate" => file.state \in {"garbled", "legacy"}
    BY <1>1 DEF Alone, Saving
  <2>3. /\ ~ (pc'[t] = "reply" /\ request'[t] # Look)
        /\ Saving(t)' /\ purpose'[t] \in {"migrate", "heal"} =>
             file'.state \in {"garbled", "legacy"}
    BY <1>1, <1>2, <2>2 DEF Saving
  <2> QED
    BY <2>1, <2>3 DEF Alone, Busy, Saving
<1>5. Kept'
  BY <1>1 DEF Kept
<1>6. Settled'
  BY <1>1 DEF Settled
<1>7. Resting'
  BY <1>1, <1>2 DEF Resting, TypeOK, Busy
<1> QED
  BY <1>3, <1>4, <1>5, <1>6, <1>7

-----------------------------------------------------------------------------
\* Reply and ReplyError: the handler ends; alone, what it acknowledges is what the file holds.
LEMMA EndStep ==
  ASSUME IInv, NEW t \in Threads, Reply(t) \/ ReplyError(t)
  PROVE  IInv'
<1> USE DEF IInv
<1>1. /\ pc[t] \in {"reply", "error"} /\ UNCHANGED <<file, shaken>>
      /\ pc' = [pc EXCEPT ![t] = "idle"] /\ request' = [request EXCEPT ![t] = Look]
      /\ loaded' = [loaded EXCEPT ![t] = Defaults] /\ purpose' = [purpose EXCEPT ![t] = "none"]
      /\ overlapped' = (overlapped /\ OthersBusy(t))
  BY DEF Reply, ReplyError, Idle, Goto
<1>2. \A u \in Threads : /\ pc'[u] = IF u = t THEN "idle" ELSE pc[u]
                         /\ request'[u] = IF u = t THEN Look ELSE request[u]
  BY <1>1 DEF TypeOK
<1>3. \/ selected' = selected
      \/ pc[t] = "reply" /\ request[t] # Look /\ ~overlapped /\ selected' = loaded[t]
  BY DEF Reply, ReplyError
<1>4. answered' \in BOOLEAN /\ (answered' => answered \/ pc[t] = "reply")
  <2>1. CASE Reply(t)
    BY <2>1 DEF Reply
  <2>2. CASE ReplyError(t)
    <3>1. answered' = answered /\ answered \in BOOLEAN
      BY <2>2 DEF ReplyError, TypeOK
    <3> QED
      BY <3>1
  <2> QED
    BY <2>1, <2>2
<1>5. TypeOK'
  <2>1. overlapped' \in BOOLEAN
    BY <1>1 DEF TypeOK
  <2>2. selected' \in ReaderIds \cup {None}
    BY <1>3 DEF TypeOK
  <2>3. pc' \in [Threads -> Locations] /\ request' \in [Threads -> Requests]
    BY <1>1 DEF TypeOK, Locations, Requests
  <2>4. loaded' \in [Threads -> ReaderIds] /\ purpose' \in [Threads -> Purposes]
    BY <1>1, RequestsDiffer DEF TypeOK, Purposes
  <2> QED
    BY <1>1, <1>4, <2>1, <2>2, <2>3, <2>4 DEF TypeOK
<1>6. Alone'
  <2> SUFFICES ASSUME ~overlapped' PROVE Alone'
    BY DEF Alone
  <2>1. \A u \in Threads : u # t => pc[u] = "idle"
    BY <1>1 DEF OthersBusy, Alone, Busy
  <2>2. \A u \in Threads : pc'[u] = "idle"
    BY <1>2, <2>1
  <2> QED
    BY <2>2 DEF Alone, Busy, Saving
<1>7. Kept'
  <2>1. CASE selected' = selected
    BY <1>1, <1>2, <2>1 DEF Kept
  <2>2. CASE pc[t] = "reply" /\ request[t] # Look /\ ~overlapped /\ selected' = loaded[t]
    <3>1. file = Config("current", loaded[t]) /\ \A u \in Threads : u # t => pc[u] = "idle"
      BY <2>2 DEF Alone, Busy
    <3>2. \A u \in Threads : request[u] = Look \/ u = t
      BY <3>1 DEF Resting
    <3> QED
      BY <1>1, <1>2, <2>2, <3>1, <3>2 DEF Kept
  <2> QED
    BY <1>3, <2>1, <2>2
<1>8. Settled'
  <2> SUFFICES ASSUME ~shaken', answered' \/ \E u \in Threads : pc'[u] = "reply"
               PROVE  \/ file'.state \in {"missing", "current"}
                      \/ file'.state = "garbled" /\ \E u \in Threads : pc'[u] = "write"
    BY DEF Settled
  <2>1. ~shaken /\ (answered \/ \E u \in Threads : pc[u] = "reply")
    BY <1>1, <1>2, <1>4
  <2>2. \A u \in Threads : pc[u] = "write" => pc'[u] = "write"
    BY <1>1, <1>2
  <2> QED
    BY <1>1, <2>1, <2>2 DEF Settled
<1>9. Resting'
  BY <1>2 DEF Resting, TypeOK, Busy
<1> QED
  BY <1>5, <1>6, <1>7, <1>8, <1>9

\* Crash: every handler is gone, and the history of answers with it.
LEMMA CrashStep == ASSUME IInv, Crash PROVE IInv'
<1> USE DEF IInv
<1>1. TypeOK'
  <2>1. pc' \in [Threads -> Locations] /\ request' \in [Threads -> Requests]
    BY DEF Crash, Locations, Requests
  <2>2. loaded' \in [Threads -> ReaderIds] /\ purpose' \in [Threads -> Purposes]
    BY RequestsDiffer DEF Crash, Purposes
  <2> QED
    BY <2>1, <2>2 DEF Crash, TypeOK
<1>2. Alone' /\ Settled'
  BY DEF Crash, Alone, Settled, Busy, Saving
<1>3. Kept'
  BY DEF Crash, Kept
<1>4. Resting'
  BY DEF Crash, Resting
<1> QED
  BY <1>1, <1>2, <1>3, <1>4

\* Every step keeps the invariant.
LEMMA Inductive == IInv /\ [Next]_vars => IInv'
<1> SUFFICES ASSUME IInv, [Next]_vars PROVE IInv'
  OBVIOUS
<1>1. CASE UNCHANGED vars
  BY <1>1 DEF vars, history, IInv, TypeOK, Alone, Kept, Settled, Resting, Busy, Saving
<1>2. CASE Crash
  BY <1>2, CrashStep
<1>3. ASSUME NEW t \in Threads, Receive(t) \/ Step(t)
      PROVE  IInv'
  BY <1>3, ReceiveStep, LoadingStep, ReadFailsStep, OpenStep, WriteStep, SaveFailsStep, EndStep
     DEF Step
<1> QED
  BY <1>1, <1>2, <1>3 DEF Next

(* Whatever overlaps, crashes or fails: the types hold, a request alone knows what the file
   holds, and only a save in progress leaves it torn. *)
THEOREM Invariant == Spec => []IInv
<1> QED BY InitIInv, Inductive, PTL DEF Spec

(* An acknowledged selection stays what the file holds until the next POST /config begins
   or a handler fails to read the file. *)
THEOREM SelectionIsKept == Spec => []SelectionKept
<1>1. IInv => SelectionKept
  BY DEF IInv, Kept, SelectionKept
<1> QED BY <1>1, Invariant, PTL

(* With every handler done and no fault, the file rests absent or in the current form. *)
THEOREM CurrentAtRest == Spec => []RestsInCurrentForm
<1>1. IInv => RestsInCurrentForm
  BY DEF IInv, Settled, RestsInCurrentForm
<1> QED BY <1>1, Invariant, PTL

(* A load that overlaps no other request replaces with defaults only a file it could not
   parse, failed to rewrite, or failed to read. *)
THEOREM AloneHealsOnlyUnreadable == Spec => AloneDefaultsReplaceOnlyUnreadable
<1>1. IInv /\ [Next]_vars =>
        [\A t \in Threads :
           Heals(t) /\ ~overlapped => file.state \in {"garbled", "legacy"} \/ purpose[t] = "replace"]_vars
  BY DEF IInv, Alone, Heals, Saving
<1> QED BY <1>1, Invariant, PTL DEF Spec, AloneDefaultsReplaceOnlyUnreadable
=============================================================================
