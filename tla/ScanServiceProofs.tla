-------------------------- MODULE ScanServiceProofs --------------------------
(***************************************************************************)
(* Theorems about ScanService for any number of threads, readers, cards and *)
(* file reads: mutual exclusion on the card session, replies that match      *)
(* their request, and the refinement of ReadContract.                        *)
(***************************************************************************)
EXTENDS ScanService, TLAPS

\* Abbreviations of the specification, expanded in every proof below.
USE DEF thread_vars, world_vars, Goto, Conclude, Locations, Locked, InSession, ReaderIds, Codes

\* A listed index names a reader.
LEMMA ListedReader ==
  ASSUME TypeOK, NEW t \in Threads, Listed(reader_id[t])
  PROVE  ReaderAt(reader_id[t]) \in Readers
  BY SMTT(30) DEF TypeOK, Listed, ReaderAt

\* Taking a reader out of the list leaves a list of readers.
LEMMA UnpluggedList ==
  ASSUME NEW s \in Seq(Readers), NEW i \in 1 .. Len(s)
  PROVE  SubSeq(s, 1, i - 1) \o SubSeq(s, i + 1, Len(s)) \in Seq(Readers)
  OBVIOUS

\* No request, no lock, no session: the invariant holds initially.
LEMMA InitIInv == Init => IInv
  BY ScanAssumption DEF Init, IInv, TypeOK, LockHeldExactlyWhileReading, Progressed,
     SessionsAreOwn, ReplyMatchesRequest

\* An accepted, refused or mocked request takes no lock and holds at most its own number.
LEMMA ManualScanPreserves ==
  ASSUME IInv, NEW t \in Threads, ManualScan(t)
  PROVE  IInv'
  <1> USE ScanAssumption DEF IInv
  <1>a. pc[t] = "idle" /\ UNCHANGED <<conn, parts, card_read_lock, plugged, card, session>>
    BY DEF ManualScan
  <1>b. PICK n \in Cards \cup {Malformed}, i \in 0 .. 1 :
          /\ number'    = [number EXCEPT ![t] = n]
          /\ reader_id' = [reader_id EXCEPT ![t] = i]
          /\ \/ /\ n = Malformed /\ UNCHANGED got
                /\ outcome' = [outcome EXCEPT ![t] = "invalid_card_number"]
                /\ pc' = [pc EXCEPT ![t] = "reply"]
             \/ /\ n # Malformed /\ got' = [got EXCEPT ![t] = {n}]
                /\ outcome' = [outcome EXCEPT ![t] = "ok"]
                /\ pc' = [pc EXCEPT ![t] = "reply"]
             \/ /\ n # Malformed /\ UNCHANGED <<outcome, got>>
                /\ pc' = [pc EXCEPT ![t] = "list"]
    BY DEF ManualScan
  <1>c. n # Malformed => n \in Cards
    OBVIOUS
  <1>1. TypeOK'
    <2>1. /\ number' \in [Threads -> Cards \cup {Malformed}]
          /\ reader_id' \in [Threads -> 0 .. 1]
      BY <1>b DEF TypeOK
    <2>2. pc' \in [Threads -> Locations] /\ outcome' \in [Threads -> Codes]
      BY <1>b DEF TypeOK
    <2>3. got' \in [Threads -> SUBSET Cards]
      BY <1>b, <1>c DEF TypeOK
    <2> QED  BY <1>a, <2>1, <2>2, <2>3 DEF TypeOK
  <1>2. LockHeldExactlyWhileReading'
    BY <1>a, <1>b DEF TypeOK, LockHeldExactlyWhileReading
  <1>3. Progressed'
    <2> SUFFICES ASSUME NEW u \in Threads
                 PROVE  Progressed!(u)'
      BY DEF Progressed
    <2>1. CASE u # t
      BY <1>a, <1>b, <2>1 DEF TypeOK, Progressed
    <2>2. CASE u = t
      BY <1>a, <1>b, <1>c, <2>2 DEF TypeOK, Progressed
    <2> QED  BY <2>1, <2>2
  <1>4. SessionsAreOwn'
    BY <1>a, <1>b DEF TypeOK, SessionsAreOwn
  <1>5. ReplyMatchesRequest'
    BY <1>a, <1>b DEF TypeOK, Progressed, ReplyMatchesRequest
  <1> QED  BY <1>1, <1>2, <1>3, <1>4, <1>5

\* Listing the readers decides a reply or nothing.
LEMMA ListReadersPreserves ==
  ASSUME IInv, NEW t \in Threads, ListReaders(t)
  PROVE  IInv'
  <1> USE ScanAssumption DEF IInv, ListReaders
  <1>1. TypeOK'
    BY DEF TypeOK
  <1>2. LockHeldExactlyWhileReading'
    BY DEF TypeOK, LockHeldExactlyWhileReading
  <1>3. Progressed'
    BY SMTT(30) DEF TypeOK, Progressed
  <1>4. SessionsAreOwn'
    BY DEF TypeOK, LockHeldExactlyWhileReading, Progressed, SessionsAreOwn
  <1>5. ReplyMatchesRequest'
    BY DEF TypeOK, Progressed, ReplyMatchesRequest
  <1> QED  BY <1>1, <1>2, <1>3, <1>4, <1>5

\* The lock is taken by the thread that enters its stretch, or the scan is refused.
LEMMA TryLockPreserves ==
  ASSUME IInv, NEW t \in Threads, TryLock(t)
  PROVE  IInv'
  <1> USE ScanAssumption DEF IInv, TryLock, LockIsFree
  <1>1. TypeOK'
    BY DEF TypeOK
  <1>2. LockHeldExactlyWhileReading'
    BY DEF TypeOK, LockHeldExactlyWhileReading
  <1>3. Progressed'
    <2> SUFFICES ASSUME NEW u \in Threads
                 PROVE  Progressed!(u)'
      BY DEF Progressed
    <2>1. CASE u # t
      BY <2>1 DEF TypeOK, Progressed
    <2>2. CASE u = t
      BY <2>2 DEF TypeOK, Progressed
    <2> QED  BY <2>1, <2>2
  <1>4. SessionsAreOwn'
    BY DEF TypeOK, LockHeldExactlyWhileReading, Progressed, SessionsAreOwn
  <1>5. ReplyMatchesRequest'
    BY DEF TypeOK, Progressed, ReplyMatchesRequest
  <1> QED  BY <1>1, <1>2, <1>3, <1>4, <1>5

\* The presence probe may end a session but starts none.
LEMMA PresencePreserves ==
  ASSUME IInv, NEW t \in Threads, Presence(t)
  PROVE  IInv'
  <1> USE ScanAssumption DEF IInv, Presence, FailTo, Probed
  <1>a. Listed(reader_id[t]) => ReaderAt(reader_id[t]) \in Readers
    BY ListedReader
  <1>1. TypeOK'
    BY <1>a DEF TypeOK
  <1>2. LockHeldExactlyWhileReading'
    BY <1>a DEF TypeOK, LockHeldExactlyWhileReading
  <1>3. Progressed'
    <2> SUFFICES ASSUME NEW u \in Threads
                 PROVE  Progressed!(u)'
      BY DEF Progressed
    <2>1. CASE u # t
      BY <1>a, <2>1 DEF TypeOK, Progressed
    <2>2. CASE u = t
      BY <1>a, <2>2 DEF TypeOK, Progressed
    <2> QED  BY <2>1, <2>2
  <1>4. SessionsAreOwn'
    BY <1>a DEF TypeOK, LockHeldExactlyWhileReading, Progressed, SessionsAreOwn
  <1>5. ReplyMatchesRequest'
    BY ZenonT(60), <1>a DEF TypeOK, Progressed, ReplyMatchesRequest
  <1> QED  BY <1>1, <1>2, <1>3, <1>4, <1>5

\* A failing scan keeps the lock until its finally clause and hands out nothing.
LEMMA ReadFailsPreserves ==
  ASSUME IInv, NEW t \in Threads, ReadFails(t)
  PROVE  IInv'
  <1> USE ScanAssumption DEF IInv, ReadFails
  <1>1. TypeOK'
    BY DEF TypeOK
  <1>2. LockHeldExactlyWhileReading'
    BY DEF TypeOK, LockHeldExactlyWhileReading
  <1>3. Progressed'
    BY DEF TypeOK, Progressed
  <1>4. SessionsAreOwn'
    BY DEF TypeOK, LockHeldExactlyWhileReading, Progressed, SessionsAreOwn
  <1>5. ReplyMatchesRequest'
    BY DEF TypeOK, Progressed, ReplyMatchesRequest
  <1> QED  BY <1>1, <1>2, <1>3, <1>4, <1>5

\* Only the lock holder connects, so the session it opens replaces no other scan's.
LEMMA ConnectPreserves ==
  ASSUME IInv, NEW t \in Threads, Connect(t)
  PROVE  IInv'
  <1> USE ScanAssumption DEF IInv, Connect
  <1>a. Listed(reader_id[t]) => ReaderAt(reader_id[t]) \in Readers
    BY ListedReader
  <1>1. TypeOK'
    BY <1>a DEF TypeOK
  <1>2. LockHeldExactlyWhileReading'
    BY <1>a DEF TypeOK, LockHeldExactlyWhileReading
  <1>3. Progressed'
    BY <1>a DEF TypeOK, Progressed
  <1>4. SessionsAreOwn'
    BY <1>a DEF TypeOK, LockHeldExactlyWhileReading, Progressed, SessionsAreOwn
  <1>5. ReplyMatchesRequest'
    BY <1>a DEF TypeOK, Progressed, ReplyMatchesRequest
  <1> QED  BY <1>1, <1>2, <1>3, <1>4, <1>5

\* The session that opens is the thread's own, with the card of the number typed.
LEMMA AuthenticatePreserves ==
  ASSUME IInv, NEW t \in Threads, Authenticate(t)
  PROVE  IInv'
  <1> USE ScanAssumption DEF IInv, Authenticate, Opens
  <1>1. TypeOK'
    BY DEF TypeOK
  <1>2. LockHeldExactlyWhileReading'
    BY DEF TypeOK, LockHeldExactlyWhileReading
  <1>3. Progressed'
    BY DEF TypeOK, Progressed
  <1>4. SessionsAreOwn'
    BY DEF TypeOK, LockHeldExactlyWhileReading, Progressed, SessionsAreOwn
  <1>5. ReplyMatchesRequest'
    BY DEF TypeOK, Progressed, ReplyMatchesRequest
  <1> QED  BY <1>1, <1>2, <1>3, <1>4, <1>5

\* A file comes from the card of the session, which is the card of the number typed.
LEMMA ReadPartPreserves ==
  ASSUME IInv, NEW t \in Threads, ReadPart(t)
  PROVE  IInv'
  <1> USE ScanAssumption DEF IInv, ReadPart, MoreParts
  <1>a. conn[t] \in Readers /\ card[conn[t]] \in Cards
    BY DEF TypeOK, Progressed, SessionsAreOwn
  <1>1. TypeOK'
    BY <1>a DEF TypeOK
  <1>2. LockHeldExactlyWhileReading'
    BY <1>a DEF TypeOK, LockHeldExactlyWhileReading
  <1>3. Progressed'
    BY <1>a DEF TypeOK, Progressed, SessionsAreOwn
  <1>4. SessionsAreOwn'
    BY <1>a DEF TypeOK, LockHeldExactlyWhileReading, Progressed, SessionsAreOwn
  <1>5. ReplyMatchesRequest'
    BY <1>a DEF TypeOK, Progressed, ReplyMatchesRequest
  <1> QED  BY <1>1, <1>2, <1>3, <1>4, <1>5

\* A scan that completes has collected the data of its number only.
LEMMA ReadDonePreserves ==
  ASSUME IInv, NEW t \in Threads, ReadDone(t)
  PROVE  IInv'
  <1> USE ScanAssumption DEF IInv, ReadDone
  <1>1. TypeOK'
    BY DEF TypeOK, Progressed
  <1>2. LockHeldExactlyWhileReading'
    BY DEF TypeOK, LockHeldExactlyWhileReading
  <1>3. Progressed'
    BY DEF TypeOK, Progressed
  <1>4. SessionsAreOwn'
    BY DEF TypeOK, LockHeldExactlyWhileReading, Progressed, SessionsAreOwn
  <1>5. ReplyMatchesRequest'
    BY DEF TypeOK, Progressed, ReplyMatchesRequest
  <1> QED  BY <1>1, <1>2, <1>3, <1>4, <1>5

\* The finally clause frees the lock and leaves the stretch in one step.
LEMMA ReleasePreserves ==
  ASSUME IInv, NEW t \in Threads, Release(t)
  PROVE  IInv'
  <1> USE ScanAssumption DEF IInv, Release, Probed
  <1>1. TypeOK'
    BY DEF TypeOK
  <1>2. LockHeldExactlyWhileReading'
    BY DEF TypeOK, LockHeldExactlyWhileReading
  <1>3. Progressed'
    BY DEF TypeOK, Progressed
  <1>4. SessionsAreOwn'
    BY DEF TypeOK, LockHeldExactlyWhileReading, Progressed, SessionsAreOwn
  <1>5. ReplyMatchesRequest'
    BY DEF TypeOK, Progressed, ReplyMatchesRequest
  <1> QED  BY <1>1, <1>2, <1>3, <1>4, <1>5

\* A status query carries no number and no data.
LEMMA StatusPreserves ==
  ASSUME IInv, NEW t \in Threads, Status(t)
  PROVE  IInv'
  <1> USE ScanAssumption DEF IInv, Status
  <1>1. TypeOK'
    BY DEF TypeOK
  <1>2. LockHeldExactlyWhileReading'
    BY DEF TypeOK, LockHeldExactlyWhileReading
  <1>3. Progressed'
    BY DEF TypeOK, Progressed
  <1>4. SessionsAreOwn'
    BY DEF TypeOK, LockHeldExactlyWhileReading, Progressed, SessionsAreOwn
  <1>5. ReplyMatchesRequest'
    BY DEF TypeOK, Progressed, ReplyMatchesRequest
  <1> QED  BY <1>1, <1>2, <1>3, <1>4, <1>5

\* A probe connects without touching lock or session.
LEMMA ProbePreserves ==
  ASSUME IInv, NEW t \in Threads, Probe(t)
  PROVE  IInv'
  <1> USE ScanAssumption DEF IInv, Probe
  <1>a. Listed(reader_id[t]) => ReaderAt(reader_id[t]) \in Readers
    BY ListedReader
  <1>b. conn' \in [Threads -> Readers \cup {NoReader}] /\ pc' \in [Threads -> Locations]
    <2>1. CASE pc' = [pc EXCEPT ![t] = "reply"] /\ UNCHANGED conn
      BY <2>1 DEF TypeOK
    <2>2. CASE /\ Listed(reader_id[t])
               /\ conn' = [conn EXCEPT ![t] = ReaderAt(reader_id[t])]
               /\ pc' = [pc EXCEPT ![t] = "probed"]
      BY <1>a, <2>2 DEF TypeOK
    <2> QED  BY <2>1, <2>2
  <1>1. TypeOK'
    BY <1>a, <1>b DEF TypeOK
  <1>2. LockHeldExactlyWhileReading'
    BY <1>a, <1>b DEF TypeOK, LockHeldExactlyWhileReading
  <1>3. Progressed'
    BY <1>a, <1>b DEF TypeOK, Progressed
  <1>4. SessionsAreOwn'
    BY <1>a, <1>b DEF TypeOK, LockHeldExactlyWhileReading, Progressed, SessionsAreOwn
  <1>5. ReplyMatchesRequest'
    BY <1>a, <1>b DEF TypeOK, Progressed, ReplyMatchesRequest
  <1> QED  BY <1>1, <1>2, <1>3, <1>4, <1>5

\* Dropping the probe's connection can only end a session.
LEMMA ProbeDonePreserves ==
  ASSUME IInv, NEW t \in Threads, ProbeDone(t)
  PROVE  IInv'
  <1> USE ScanAssumption DEF IInv, ProbeDone, Probed
  <1>1. TypeOK'
    BY DEF TypeOK
  <1>2. LockHeldExactlyWhileReading'
    BY DEF TypeOK, LockHeldExactlyWhileReading
  <1>3. Progressed'
    BY DEF TypeOK, Progressed
  <1>4. SessionsAreOwn'
    BY DEF TypeOK, LockHeldExactlyWhileReading, Progressed, SessionsAreOwn
  <1>5. ReplyMatchesRequest'
    BY DEF TypeOK, Progressed, ReplyMatchesRequest
  <1> QED  BY <1>1, <1>2, <1>3, <1>4, <1>5

\* A thread that has replied is as it was initially.
LEMMA ReplyPreserves ==
  ASSUME IInv, NEW t \in Threads, Reply(t)
  PROVE  IInv'
  <1> USE ScanAssumption DEF IInv, Reply
  <1>1. TypeOK'
    BY DEF TypeOK
  <1>2. LockHeldExactlyWhileReading'
    BY DEF TypeOK, LockHeldExactlyWhileReading
  <1>3. Progressed'
    BY DEF TypeOK, Progressed
  <1>4. SessionsAreOwn'
    BY DEF TypeOK, LockHeldExactlyWhileReading, Progressed, SessionsAreOwn
  <1>5. ReplyMatchesRequest'
    BY DEF TypeOK, Progressed, ReplyMatchesRequest
  <1> QED  BY <1>1, <1>2, <1>3, <1>4, <1>5

\* Staff plugging, unplugging and swapping cards disturb no thread's own state; taking the
\* card or the reader away ends the session.
LEMMA WorldPreserves ==
  ASSUME IInv, NEW r \in Readers, World(r)
  PROVE  IInv'
  <1> USE ScanAssumption DEF IInv
  <1>1. CASE PlugReader(r)
    BY <1>1 DEF PlugReader, TypeOK, LockHeldExactlyWhileReading, Progressed,
       SessionsAreOwn, ReplyMatchesRequest
  <1>2. CASE UnplugReader(r)
    <2>1. plugged' \in Seq(Readers)
      BY <1>2, UnpluggedList DEF UnplugReader, TypeOK
    <2> QED
      BY <1>2, <2>1 DEF UnplugReader, TypeOK, LockHeldExactlyWhileReading, Progressed,
         SessionsAreOwn, ReplyMatchesRequest
  <1>3. CASE PlaceCard(r)
    BY <1>3 DEF PlaceCard, TypeOK, LockHeldExactlyWhileReading, Progressed,
       SessionsAreOwn, ReplyMatchesRequest
  <1>4. CASE TakeCard(r)
    BY <1>4 DEF TakeCard, TypeOK, LockHeldExactlyWhileReading, Progressed,
       SessionsAreOwn, ReplyMatchesRequest
  <1> QED  BY <1>1, <1>2, <1>3, <1>4 DEF World

\* Every step preserves the invariant.
LEMMA NextIInv == IInv /\ [Next]_vars => IInv'
  <1> SUFFICES ASSUME IInv, [Next]_vars
               PROVE  IInv'
    OBVIOUS
  <1>1. ASSUME NEW t \in Threads, Request(t)
        PROVE  IInv'
    BY <1>1, ManualScanPreserves, StatusPreserves DEF Request
  <1>2. ASSUME NEW t \in Threads, Step(t)
        PROVE  IInv'
    BY <1>2, ListReadersPreserves, TryLockPreserves, PresencePreserves, ReadFailsPreserves,
       ConnectPreserves, AuthenticatePreserves, ReadPartPreserves, ReadDonePreserves,
       ReleasePreserves, ProbePreserves, ProbeDonePreserves, ReplyPreserves DEF Step
  <1>3. ASSUME NEW r \in Readers, World(r)
        PROVE  IInv'
    BY <1>3, WorldPreserves
  <1>4. CASE UNCHANGED vars
    BY <1>4 DEF vars, IInv, TypeOK, LockHeldExactlyWhileReading, Progressed,
       SessionsAreOwn, ReplyMatchesRequest
  <1> QED  BY <1>1, <1>2, <1>3, <1>4 DEF Next

\* The inductive invariant holds of every reachable state.
THEOREM Inductive == Spec => []IInv
  BY InitIInv, NextIInv, PTL DEF Spec

\* Every state is well typed.
THEOREM TypeCorrect == Spec => []TypeOK
  <1>1. IInv => TypeOK  BY DEF IInv
  <1> QED  BY Inductive, <1>1, PTL

\* The card-read lock is held exactly by the thread inside the guarded stretch of
\* local_manual_scan: mutual exclusion on the card session, and no leak on any error path.
THEOREM LockDiscipline == Spec => []LockHeldExactlyWhileReading
  <1>1. IInv => LockHeldExactlyWhileReading  BY DEF IInv
  <1> QED  BY Inductive, <1>1, PTL

\* A successful scan carries the data of the card whose number was typed and of no other.
THEOREM RepliesMatch == Spec => []ReplyMatchesRequest
  <1>1. IInv => ReplyMatchesRequest  BY DEF IInv
  <1> QED  BY Inductive, <1>1, PTL
-----------------------------------------------------------------------------
(* The service implements ReadContract. *)

\* A step outside the lock's stretch that decides t's reply: AnswerOutside.
LEMMA AnswersOutside ==
  ASSUME IInv, IInv', NEW t \in Threads, NEW w \in SUBSET Cards,
         pc[t] \in {"idle", "list", "lock", "probe", "probed"},
         pc' = [pc EXCEPT ![t] = "reply"],
         pc[t] # "idle" => w = AbsWanted[t],
         AbsWanted' = [AbsWanted EXCEPT ![t] = w],
         \A u \in Threads : u # t => got'[u] = got[u],
         got'[t] \in {{}, w},
         UNCHANGED card_read_lock
  PROVE  Contract!AnswerOutside(t, got'[t])
  <1>1. AbsPhase[t] \in {"idle", "asked"} /\ (AbsPhase[t] = "asked" => pc[t] # "idle")
    BY DEF AbsPhase
  <1>2. AbsPhase' = [AbsPhase EXCEPT ![t] = "answered"]
    BY DEF AbsPhase, IInv, TypeOK
  <1>3. AbsAnswer' = [AbsAnswer EXCEPT ![t] = got'[t]]
    BY DEF AbsAnswer, IInv, TypeOK
  <1> QED  BY <1>1, <1>2, <1>3 DEF Contract!AnswerOutside

\* A step that moves t within one phase and changes nothing the contract speaks of.
LEMMA Stutters ==
  ASSUME IInv, NEW t \in Threads, NEW l \in Locations,
         pc' = [pc EXCEPT ![t] = l] \/ UNCHANGED pc,
         \/ pc[t] \in Locked /\ l \in Locked
         \/ pc[t] \in {"list", "lock", "probe", "probed"} /\ l \in {"list", "lock", "probe", "probed"},
         \A u \in Threads : u # t => got'[u] = got[u],
         UNCHANGED <<number, card_read_lock>>
  PROVE  UNCHANGED Contract!contract_vars
  <1>1. AbsPhase' = AbsPhase
    BY DEF AbsPhase, IInv, TypeOK
  <1>2. AbsAnswer' = AbsAnswer
    BY DEF AbsAnswer, IInv, TypeOK
  <1>3. AbsWanted' = AbsWanted
    BY DEF AbsWanted
  <1> QED  BY <1>1, <1>2, <1>3 DEF Contract!contract_vars

\* An accepted scan is Ask; one refused or mocked at once is AnswerOutside.
LEMMA RefineManualScan ==
  ASSUME IInv, IInv', NEW t \in Threads, ManualScan(t)
  PROVE  Contract!Next
  <1>1. pc[t] = "idle" /\ UNCHANGED card_read_lock
    BY DEF ManualScan
  <1>2. PICK n \in Cards \cup {Malformed} :
          /\ number' = [number EXCEPT ![t] = n]
          /\ \/ n = Malformed /\ UNCHANGED got /\ pc' = [pc EXCEPT ![t] = "reply"]
             \/ n # Malformed /\ got' = [got EXCEPT ![t] = {n}] /\ pc' = [pc EXCEPT ![t] = "reply"]
             \/ n # Malformed /\ UNCHANGED got /\ pc' = [pc EXCEPT ![t] = "list"]
    BY DEF ManualScan
  <1> DEFINE w == {n} \ {Malformed}
  <1>3. AbsWanted' = [AbsWanted EXCEPT ![t] = w] /\ w \in SUBSET Cards
    BY <1>2 DEF AbsWanted, IInv, TypeOK
  <1>4. got[t] = {} /\ number[t] = Malformed
    BY <1>1 DEF IInv, Progressed
  <1>5. CASE pc' = [pc EXCEPT ![t] = "reply"]
    <2>1. got'[t] \in {{}, w} /\ \A u \in Threads : u # t => got'[u] = got[u]
      <3>1. CASE UNCHANGED got
        BY <3>1, <1>4
      <3>2. CASE n # Malformed /\ got' = [got EXCEPT ![t] = {n}]
        BY <3>2 DEF IInv, TypeOK
      <3>3. pc'[t] = "reply"
        BY <1>5 DEF IInv, TypeOK
      <3> QED  BY <1>2, <3>1, <3>2, <3>3 DEF IInv, TypeOK
    <2>2. Contract!AnswerOutside(t, got'[t])
      <3> HIDE DEF w
      <3> QED  BY <1>1, <1>3, <1>5, <2>1, AnswersOutside
    <2>3. got'[t] \in SUBSET Cards
      BY <1>3, <2>1
    <2> QED  BY <2>2, <2>3 DEF Contract!Next
  <1>6. CASE pc' = [pc EXCEPT ![t] = "list"]
    <2>1. got' = got
      BY <1>2, <1>6 DEF IInv, TypeOK
    <2>2. AbsPhase[t] = "idle" /\ AbsPhase' = [AbsPhase EXCEPT ![t] = "asked"]
      BY ZenonT(60), <1>1, <1>6 DEF AbsPhase, IInv, TypeOK
    <2>3. AbsAnswer' = AbsAnswer
      BY <1>1, <1>6, <2>1 DEF AbsAnswer, IInv, TypeOK
    <2>4. Contract!Ask(t, w)
      BY <1>1, <1>3, <2>2, <2>3 DEF Contract!Ask
    <2> QED  BY <1>3, <2>4 DEF Contract!Next
  <1> QED  BY <1>2, <1>5, <1>6

\* A status query is Ask or AnswerOutside, wanting no card.
LEMMA RefineStatus ==
  ASSUME IInv, IInv', NEW t \in Threads, Status(t)
  PROVE  Contract!Next
  <1>1. /\ pc[t] = "idle"
        /\ UNCHANGED <<number, got, card_read_lock>>
        /\ pc' = [pc EXCEPT ![t] = "probe"] \/ pc' = [pc EXCEPT ![t] = "reply"]
    BY DEF Status
  <1>2. got[t] = {} /\ AbsWanted[t] = {} /\ AbsWanted' = [AbsWanted EXCEPT ![t] = {}]
    BY <1>1 DEF AbsWanted, IInv, Progressed
  <1>3. CASE pc' = [pc EXCEPT ![t] = "reply"]
    <2>1. Contract!AnswerOutside(t, got'[t]) /\ got'[t] \in SUBSET Cards
      BY <1>1, <1>2, <1>3, AnswersOutside
    <2> QED  BY <2>1 DEF Contract!Next
  <1>4. CASE pc' = [pc EXCEPT ![t] = "probe"]
    <2>1. AbsPhase[t] = "idle" /\ AbsPhase' = [AbsPhase EXCEPT ![t] = "asked"]
      BY ZenonT(60), <1>1, <1>4 DEF AbsPhase, IInv, TypeOK
    <2>2. AbsAnswer' = AbsAnswer
      BY <1>1, <1>4 DEF AbsAnswer, IInv, TypeOK
    <2>3. Contract!Ask(t, {})
      BY <1>1, <1>2, <2>1, <2>2 DEF Contract!Ask
    <2> QED  BY <2>3 DEF Contract!Next
  <1> QED  BY <1>1, <1>3, <1>4

\* A handler that gives up before its session answers without data.
LEMMA RefineGivesUp ==
  ASSUME IInv, IInv', NEW t \in Threads,
         pc[t] \in {"list", "lock", "probe", "probed"},
         pc' = [pc EXCEPT ![t] = "reply"],
         UNCHANGED <<number, got, card_read_lock>>
  PROVE  Contract!Next
  <1>1. got'[t] = {}
    BY DEF IInv, Progressed
  <1>2. {number[t]} \ {Malformed} \in SUBSET Cards
    BY DEF IInv, TypeOK
  <1>3. AbsWanted' = [AbsWanted EXCEPT ![t] = AbsWanted[t]]
    BY DEF AbsWanted
  <1>4. AbsWanted[t] \in SUBSET Cards
    BY <1>2 DEF AbsWanted
  <1>5. Contract!AnswerOutside(t, got'[t])
    BY <1>1, <1>3, <1>4, AnswersOutside
  <1> QED  BY <1>1, <1>5 DEF Contract!Next

\* Taking the lock is BeginRead; finding it taken is AnswerOutside.
LEMMA RefineTryLock ==
  ASSUME IInv, IInv', NEW t \in Threads, TryLock(t)
  PROVE  Contract!Next
  <1>1. CASE LockIsFree(t) /\ card_read_lock' = t /\ pc' = [pc EXCEPT ![t] = "presence"]
    <2>1. AbsPhase[t] = "asked" /\ AbsPhase' = [AbsPhase EXCEPT ![t] = "reading"]
      BY ZenonT(60), <1>1 DEF TryLock, AbsPhase, IInv, TypeOK
    <2>2. AbsAnswer' = AbsAnswer /\ AbsWanted' = AbsWanted
      BY <1>1 DEF TryLock, AbsAnswer, AbsWanted, IInv, TypeOK
    <2>3. Contract!BeginRead(t)
      BY <1>1, <2>1, <2>2 DEF LockIsFree, Contract!BeginRead
    <2> QED  BY <2>3 DEF Contract!Next
  <1>2. CASE UNCHANGED card_read_lock /\ pc' = [pc EXCEPT ![t] = "reply"]
    BY <1>2, RefineGivesUp DEF TryLock
  <1> QED  BY <1>1, <1>2 DEF TryLock

\* Releasing the lock is EndRead, with the wanted card's data or none.
LEMMA RefineRelease ==
  ASSUME IInv, IInv', NEW t \in Threads, Release(t)
  PROVE  Contract!Next
  <1>1. /\ pc[t] = "release" /\ pc' = [pc EXCEPT ![t] = "reply"]
        /\ card_read_lock' = NoThread /\ UNCHANGED <<number, got>>
    BY DEF Release
  <1>2. card_read_lock = t
    BY <1>1 DEF IInv, LockHeldExactlyWhileReading
  <1>3. AbsPhase[t] = "reading" /\ AbsPhase' = [AbsPhase EXCEPT ![t] = "answered"]
    BY ZenonT(60), <1>1 DEF AbsPhase, IInv, TypeOK
  <1>4. AbsAnswer' = [AbsAnswer EXCEPT ![t] = got[t]]
    BY <1>1 DEF AbsAnswer, IInv, TypeOK
  <1>5. got[t] \in {{}, AbsWanted[t]} /\ got[t] \in SUBSET Cards
    <2>1. got[t] \in SUBSET Cards
      BY DEF IInv, TypeOK
    <2>2. CASE outcome[t] = "ok"
      <3>1. got[t] = {number[t]}
        BY <2>2 DEF IInv, ReplyMatchesRequest
      <3>2. {number[t]} = {number[t]} \ {Malformed}
        BY <2>1, <3>1, ScanAssumption
      <3> QED  BY <2>1, <3>1, <3>2 DEF AbsWanted
    <2>3. CASE outcome[t] # "ok"
      BY <1>1, <2>3 DEF IInv, Progressed
    <2> QED  BY <2>1, <2>2, <2>3
  <1>6. AbsWanted' = AbsWanted
    BY <1>1 DEF AbsWanted
  <1>7. Contract!EndRead(t, got[t])
    BY <1>1, <1>2, <1>3, <1>4, <1>5, <1>6 DEF Contract!EndRead
  <1> QED  BY <1>5, <1>7 DEF Contract!Next

\* Replying is Deliver.
LEMMA RefineReply ==
  ASSUME IInv, IInv', NEW t \in Threads, Reply(t)
  PROVE  Contract!Next
  <1>1. AbsPhase[t] = "answered" /\ AbsPhase' = [AbsPhase EXCEPT ![t] = "idle"]
    BY ZenonT(60) DEF Reply, AbsPhase, IInv, TypeOK
  <1>2. AbsAnswer' = [AbsAnswer EXCEPT ![t] = {}]
    BY DEF Reply, AbsAnswer, IInv, TypeOK
  <1>3. AbsWanted' = [AbsWanted EXCEPT ![t] = {}]
    <2>1. {Malformed} \ {Malformed} = {}
      OBVIOUS
    <2>2. number' = [number EXCEPT ![t] = Malformed]
      BY DEF Reply
    <2> QED  BY <2>1, <2>2 DEF AbsWanted, IInv, TypeOK
  <1>4. Contract!Deliver(t)
    BY <1>1, <1>2, <1>3 DEF Reply, Contract!Deliver
  <1> QED  BY <1>4 DEF Contract!Next

\* The steps inside the session, and those of staff, are invisible to the contract.
LEMMA RefineInside ==
  ASSUME IInv, NEW t \in Threads,
         Presence(t) \/ ReadFails(t) \/ Connect(t) \/ Authenticate(t) \/ ReadPart(t) \/ ReadDone(t)
  PROVE  UNCHANGED Contract!contract_vars
  <1>1. UNCHANGED <<number, card_read_lock>> /\ pc[t] \in Locked
    BY DEF Presence, ReadFails, Connect, Authenticate, ReadPart, ReadDone
  <1>2. \A u \in Threads : u # t => got'[u] = got[u]
    BY DEF Presence, ReadFails, Connect, Authenticate, ReadPart, ReadDone, IInv, TypeOK
  <1>3. \E l \in Locked : pc' = [pc EXCEPT ![t] = l] \/ UNCHANGED pc
    BY DEF Presence, ReadFails, Connect, Authenticate, ReadPart, ReadDone, FailTo
  <1> QED  BY <1>1, <1>2, <1>3, Stutters

\* Every step of the service is a step of the contract or a stutter.
LEMMA RefineNext ==
  ASSUME IInv, IInv', [Next]_vars
  PROVE  [Contract!Next]_(Contract!contract_vars)
  <1>1. ASSUME NEW t \in Threads, Request(t)
        PROVE  Contract!Next
    BY <1>1, RefineManualScan, RefineStatus DEF Request
  <1>2. ASSUME NEW t \in Threads, Step(t)
        PROVE  [Contract!Next]_(Contract!contract_vars)
    <2>1. CASE ListReaders(t)
      <3>1. CASE pc' = [pc EXCEPT ![t] = "reply"]
        BY <2>1, <3>1, RefineGivesUp DEF ListReaders
      <3>2. CASE pc' = [pc EXCEPT ![t] = "lock"]
        BY <2>1, <3>2, Stutters DEF ListReaders
      <3> QED  BY <2>1, <3>1, <3>2 DEF ListReaders
    <2>2. CASE TryLock(t)
      BY <2>2, RefineTryLock
    <2>3. CASE Presence(t) \/ ReadFails(t) \/ Connect(t) \/ Authenticate(t)
               \/ ReadPart(t) \/ ReadDone(t)
      BY <2>3, RefineInside
    <2>4. CASE Release(t)
      BY <2>4, RefineRelease
    <2>5. CASE Probe(t)
      <3>1. CASE pc' = [pc EXCEPT ![t] = "reply"]
        BY <2>5, <3>1, RefineGivesUp DEF Probe
      <3>2. CASE pc' = [pc EXCEPT ![t] = "probed"]
        BY <2>5, <3>2, Stutters DEF Probe
      <3> QED  BY <2>5, <3>1, <3>2 DEF Probe
    <2>6. CASE ProbeDone(t)
      BY <2>6, RefineGivesUp DEF ProbeDone
    <2>7. CASE Reply(t)
      BY <2>7, RefineReply
    <2> QED  BY <1>2, <2>1, <2>2, <2>3, <2>4, <2>5, <2>6, <2>7 DEF Step
  <1>3. ASSUME NEW r \in Readers, World(r)
        PROVE  UNCHANGED Contract!contract_vars
    BY <1>3 DEF World, PlugReader, UnplugReader, PlaceCard, TakeCard,
       AbsPhase, AbsWanted, AbsAnswer, Contract!contract_vars
  <1>4. CASE UNCHANGED vars
    BY <1>4 DEF vars, AbsPhase, AbsWanted, AbsAnswer, Contract!contract_vars
  <1> QED  BY <1>1, <1>2, <1>3, <1>4 DEF Next

\* Every behaviour of the threads, readers and cards is one ReadContract allows: one card
\* session at a time, every other scan refused, every answer the wanted card's or empty.
THEOREM Refinement == Spec => ImplementsContract
  <1>1. Init => Contract!Init
    BY DEF Init, AbsPhase, AbsWanted, AbsAnswer, Contract!Init
  <1>2. IInv /\ IInv' /\ [Next]_vars => [Contract!Next]_(Contract!contract_vars)
    BY RefineNext
  <1> QED  BY <1>1, <1>2, Inductive, PTL DEF Spec, ImplementsContract, Contract!Spec
-----------------------------------------------------------------------------
(* Who ends a session, and how long a request can take. *)

\* Without GET /status no thread is at its probe: /status is the only handler that goes there.
NobodyProbes == \A t \in Threads : pc[t] \notin {"probe", "probed"}

\* The session of a scan in progress ends by that scan, by hands on the hardware, or by a probe
\* of GET /status?check_card=true on the very reader, which takes no lock.
OnlyHandsOrAProbeEndASession ==
  [][\A t \in Threads :
       pc[t] \in InSession /\ pc'[t] \in InSession /\ session[conn[t]] = t /\ session'[conn[t]] # t
         => \/ card'[conn[t]] # card[conn[t]]
            \/ plugged' # plugged
            \/ \E u \in Threads \ {t} : ProbeDone(u) /\ conn[u] = conn[t]]_vars

\* A step of a thread without the lock, and without a probe, leaves every session alone.
LEMMA SessionsChangeUnderTheLock ==
  ASSUME IInv, NEW u \in Threads, Request(u) \/ Step(u)
  PROVE  pc[u] \in Locked \cup {"probed"} \/ UNCHANGED session
  BY DEF Request, ManualScan, Status, Step, ListReaders, TryLock, Presence, Connect, Authenticate,
         ReadPart, ReadDone, ReadFails, Release, Probe, ProbeDone, Reply, Locked, InSession

\* A scan keeps its session through its own steps until it leaves it.
LEMMA OwnStepsKeepTheSession ==
  ASSUME IInv, NEW t \in Threads, Step(t), pc[t] \in InSession, pc'[t] \in InSession
  PROVE  UNCHANGED session
  <1>1. pc[t] \in {"auth", "read"} /\ pc'[t] # "release"
    BY DEF InSession
  <1> QED
    BY <1>1 DEF Step, ListReaders, TryLock, Presence, Connect, Authenticate, ReadPart, ReadDone,
       ReadFails, Release, Probe, ProbeDone, Reply, IInv, TypeOK, Goto

\* Unplugging a reader changes the list.
LEMMA UnpluggedIsShorter ==
  ASSUME NEW s \in Seq(Readers), NEW i \in 1 .. Len(s)
  PROVE  SubSeq(s, 1, i - 1) \o SubSeq(s, i + 1, Len(s)) # s
  <1> DEFINE a == SubSeq(s, 1, i - 1)
             b == SubSeq(s, i + 1, Len(s))
  <1>1. a \in Seq(Readers) /\ b \in Seq(Readers)
    OBVIOUS
  <1>2. Len(a) = i - 1 /\ Len(b) = Len(s) - i
    OBVIOUS
  <1> HIDE DEF a, b
  <1>3. Len(a \o b) = Len(a) + Len(b)
    BY <1>1
  <1>4. Len(s) \in Nat /\ Len(a \o b) # Len(s)
    BY <1>2, <1>3
  <1> QED
    BY <1>4 DEF a, b

\* What a step does to the session of a scan in progress.
LEMMA SessionEnds ==
  ASSUME IInv, [Next]_vars, NEW t \in Threads,
         pc[t] \in InSession, pc'[t] \in InSession, session[conn[t]] = t, session'[conn[t]] # t
  PROVE  \/ card'[conn[t]] # card[conn[t]]
         \/ plugged' # plugged
         \/ \E u \in Threads \ {t} : ProbeDone(u) /\ conn[u] = conn[t]
  <1>1. ASSUME NEW u \in Threads, Request(u) \/ Step(u)
        PROVE  \E v \in Threads \ {t} : ProbeDone(v) /\ conn[v] = conn[t]
    <2>1. pc[u] \in Locked \cup {"probed"}
      BY <1>1, SessionsChangeUnderTheLock
    <2>2. card_read_lock = t
      BY DEF IInv, LockHeldExactlyWhileReading, Locked
    <2>3. ASSUME u = t PROVE FALSE
      <3>1. Step(t)
        BY <1>1, <2>3 DEF Request, ManualScan, Status, InSession
      <3> QED
        BY <3>1, OwnStepsKeepTheSession
    <2>4. pc[u] = "probed"
      BY <2>1, <2>2, <2>3 DEF IInv, LockHeldExactlyWhileReading
    <2>5. ProbeDone(u)
      BY <1>1, <2>4, Zenon DEF Request, ManualScan, Status, Step, ListReaders, TryLock, Presence, Connect,
         Authenticate, ReadPart, ReadDone, ReadFails, Release, Probe, Reply, InSession
    <2>6. conn[u] = conn[t]
      <3>1. session' \in {session, [session EXCEPT ![conn[u]] = NoThread]}
        BY <2>5 DEF ProbeDone, Probed
      <3>2. session \in [Readers -> Threads \cup {NoThread}] /\ conn[t] \in Readers
        BY DEF IInv, TypeOK, Progressed
      <3> QED
        BY <3>1, <3>2
    <2> QED
      BY <2>3, <2>5, <2>6
  <1>2. ASSUME NEW r \in Readers, World(r)
        PROVE  card'[conn[t]] # card[conn[t]] \/ plugged' # plugged
    <2>1. conn[t] \in Readers
      BY DEF IInv, Progressed
    <2>2. CASE PlugReader(r) \/ PlaceCard(r)
      BY <2>2 DEF PlugReader, PlaceCard
    <2>3. CASE TakeCard(r)
      BY <2>1, <2>3, ScanAssumption DEF TakeCard, IInv, TypeOK
    <2>4. CASE UnplugReader(r)
      <3>1. PICK i \in 1 .. Len(plugged) :
              plugged' = SubSeq(plugged, 1, i - 1) \o SubSeq(plugged, i + 1, Len(plugged))
        BY <2>4 DEF UnplugReader
      <3>2. plugged \in Seq(Readers)
        BY DEF IInv, TypeOK
      <3> QED
        BY <3>1, <3>2, UnpluggedIsShorter
    <2> QED
      BY <1>2, <2>2, <2>3, <2>4 DEF World
  <1>3. CASE UNCHANGED vars
    BY <1>3 DEF vars, thread_vars
  <1> QED
    BY <1>1, <1>2, <1>3 DEF Next

\* The session of a scan ends by its own hand, by hands on the hardware, or by a probe that took no
\* lock (local_api.py: the lock covers read_residence_card and not the presence check of /status).
THEOREM SessionsEndByHandsOrAProbe == Spec => OnlyHandsOrAProbeEndASession
  <1> DEFINE Ends ==
        \A t \in Threads :
          pc[t] \in InSession /\ pc'[t] \in InSession /\ session[conn[t]] = t /\ session'[conn[t]] # t
            => \/ card'[conn[t]] # card[conn[t]]
               \/ plugged' # plugged
               \/ \E u \in Threads \ {t} : ProbeDone(u) /\ conn[u] = conn[t]
  <1>1. IInv /\ [Next]_vars => Ends
    BY SessionEnds
  <1>2. IInv /\ [Next]_vars => [Ends]_vars
    BY <1>1
  <1> QED
    BY <1>2, Inductive, PTL DEF Spec, OnlyHandsOrAProbeEndASession

\* Only GET /status brings a thread to a probe.
LEMMA NobodyProbesAlone ==
  ASSUME "status" \notin Handlers
  PROVE  Spec => []NobodyProbes
  <1>1. Init => NobodyProbes
    BY DEF Init, NobodyProbes
  <1>2. IInv /\ NobodyProbes /\ [Next]_vars => NobodyProbes'
    <2> SUFFICES ASSUME IInv, NobodyProbes, [Next]_vars PROVE NobodyProbes'
      OBVIOUS
    <2>1. ASSUME NEW t \in Threads, Request(t) \/ Step(t) PROVE NobodyProbes'
      <3>1. \A u \in Threads \ {t} : pc'[u] = pc[u]
        BY <2>1 DEF Request, ManualScan, Status, Step, ListReaders, TryLock, Presence, Connect,
           Authenticate, ReadPart, ReadDone, ReadFails, Release, Probe, ProbeDone, Reply, IInv, TypeOK
      <3>2. pc'[t] \notin {"probe", "probed"}
        BY <2>1 DEF NobodyProbes, Request, ManualScan, Status, Step, ListReaders, TryLock, Presence,
           Connect, Authenticate, ReadPart, ReadDone, ReadFails, Release, Probe, ProbeDone, Reply,
           FailTo, IInv, TypeOK
      <3> QED
        BY <3>1, <3>2 DEF NobodyProbes
    <2>2. ASSUME NEW r \in Readers, World(r) PROVE NobodyProbes'
      BY <2>2 DEF NobodyProbes, World, PlugReader, UnplugReader, PlaceCard, TakeCard
    <2>3. CASE UNCHANGED vars
      BY <2>3 DEF NobodyProbes, vars
    <2> QED
      BY <2>1, <2>2, <2>3 DEF Next
  <1> QED
    BY <1>1, <1>2, Inductive, PTL DEF Spec

\* Between scans alone, only the scan itself and hands on the hardware end a session.
THEOREM ScansDoNotEndSessions ==
  ASSUME "status" \notin Handlers
  PROVE  Spec => OnlyHandsEndASession
  <1> DEFINE Ends ==
        \A t \in Threads :
          LET r == conn[t] IN
            pc[t] \in InSession /\ pc'[t] \in InSession /\ session[r] = t /\ session'[r] # t
              => card'[r] # card[r] \/ plugged' # plugged
  <1>1. IInv /\ NobodyProbes /\ [Next]_vars => [Ends]_vars
    BY SessionEnds DEF NobodyProbes, ProbeDone
  <1> QED
    BY <1>1, Inductive, NobodyProbesAlone, PTL DEF Spec, OnlyHandsEndASession

\* How many of its own steps a request is from its end, at most.
StepsLeft(t) ==
  CASE pc[t] = "idle"               -> 0
    [] pc[t] = "reply"              -> 1
    [] pc[t] \in {"release", "probed"} -> 2
    [] pc[t] = "probe"              -> 3
    [] pc[t] = "read"               -> 3 + (Parts - parts[t])
    [] pc[t] = "auth"               -> 4 + Parts
    [] pc[t] = "connect"            -> 5 + Parts
    [] pc[t] = "presence"           -> 6 + Parts
    [] pc[t] = "lock"               -> 7 + Parts
    [] pc[t] = "list"               -> 8 + Parts

\* A request in progress comes nearer its end with every step of its thread, and nothing that
\* another thread, staff or the hardware does takes it further from it.
NothingProlongsARequest ==
  [][\A t \in Threads : pc[t] # "idle" =>
       /\ StepsLeft(t)' <= StepsLeft(t)
       /\ Step(t) => StepsLeft(t)' < StepsLeft(t)]_vars

\* The bound is a number, and zero exactly between requests.
LEMMA StepsLeftType ==
  ASSUME TypeOK, NEW t \in Threads
  PROVE  StepsLeft(t) \in 0 .. Parts + 8 /\ (StepsLeft(t) = 0 <=> pc[t] = "idle")
  <1>1. Parts \in Nat /\ parts[t] \in 0 .. Parts
    BY ScanAssumption DEF TypeOK
  <1>2. pc[t] \in Locations
    BY DEF TypeOK
  <1>3. CASE pc[t] \in {"idle", "reply", "release", "probed", "probe"}
    <2>1. pc[t] = "idle" => StepsLeft(t) = 0
      BY DEF StepsLeft
    <2>2. pc[t] # "idle" => StepsLeft(t) \in {1, 2, 3}
      BY <1>3 DEF StepsLeft
    <2> QED
      BY <1>1, <2>1, <2>2
  <1>4. CASE pc[t] = "read"
    BY <1>1, <1>4 DEF StepsLeft
  <1>5. CASE pc[t] \in {"auth", "connect", "presence", "lock", "list"}
    <2>1. StepsLeft(t) \in {4 + Parts, 5 + Parts, 6 + Parts, 7 + Parts, 8 + Parts}
      BY <1>5 DEF StepsLeft
    <2> QED
      BY <1>1, <1>5, <2>1
  <1> QED
    BY <1>2, <1>3, <1>4, <1>5

\* A step of thread t lowers its bound.
LEMMA OwnStepCounts ==
  ASSUME IInv, NEW t \in Threads, Step(t)
  PROVE  StepsLeft(t)' < StepsLeft(t)
  <1>1. Parts \in Nat /\ parts[t] \in 0 .. Parts /\ TypeOK
    BY ScanAssumption DEF IInv, TypeOK
  <1>2. CASE ListReaders(t) \/ TryLock(t) \/ Presence(t)
    BY <1>1, <1>2 DEF ListReaders, TryLock, Presence, FailTo, StepsLeft, TypeOK
  <1>3. CASE Connect(t)
    BY <1>1, <1>3 DEF Connect, StepsLeft, TypeOK
  <1>4. CASE Authenticate(t)
    BY <1>1, <1>4 DEF Authenticate, StepsLeft, TypeOK
  <1>5. CASE ReadPart(t)
    BY <1>1, <1>5 DEF ReadPart, MoreParts, StepsLeft, TypeOK
  <1>6. CASE ReadDone(t) \/ ReadFails(t)
    BY <1>1, <1>6 DEF ReadDone, ReadFails, StepsLeft, TypeOK
  <1>7. CASE Release(t) \/ Reply(t)
    BY <1>1, <1>7 DEF Release, Reply, StepsLeft, TypeOK
  <1>8. CASE Probe(t) \/ ProbeDone(t)
    BY <1>1, <1>8 DEF Probe, ProbeDone, StepsLeft, TypeOK
  <1> QED
    BY <1>2, <1>3, <1>4, <1>5, <1>6, <1>7, <1>8 DEF Step

\* A step of anyone else leaves it as it is.
LEMMA OthersDoNotCount ==
  ASSUME IInv, [Next]_vars, NEW t \in Threads, pc[t] # "idle", ~Step(t)
  PROVE  StepsLeft(t)' = StepsLeft(t)
  <1>1. UNCHANGED <<pc[t], parts[t]>>
    <2>1. ASSUME NEW u \in Threads, Request(u) \/ Step(u) PROVE UNCHANGED <<pc[t], parts[t]>>
      <3>1. u # t
        BY <2>1 DEF Request, ManualScan, Status
      <3> QED
        BY <2>1, <3>1 DEF Request, ManualScan, Status, Step, ListReaders, TryLock, Presence, Connect,
           Authenticate, ReadPart, ReadDone, ReadFails, Release, Probe, ProbeDone, Reply, IInv, TypeOK
    <2>2. ASSUME NEW r \in Readers, World(r) PROVE UNCHANGED <<pc[t], parts[t]>>
      BY <2>2 DEF World, PlugReader, UnplugReader, PlaceCard, TakeCard
    <2>3. CASE UNCHANGED vars
      BY <2>3 DEF vars
    <2> QED
      BY <2>1, <2>2, <2>3 DEF Next
  <1> QED
    BY <1>1 DEF StepsLeft

\* No request waits for another: each is over after at most Parts + 8 steps of its thread, for any
\* number of threads and readers (local_manual_scan never blocks: acquire(blocking=False)).
THEOREM RequestsAreBounded ==
  Spec => /\ [](\A t \in Threads :
                  StepsLeft(t) \in 0 .. Parts + 8 /\ (StepsLeft(t) = 0 <=> pc[t] = "idle"))
          /\ NothingProlongsARequest
  <1> DEFINE Bounded == \A t \in Threads :
                 StepsLeft(t) \in 0 .. Parts + 8 /\ (StepsLeft(t) = 0 <=> pc[t] = "idle")
             Counts == \A t \in Threads : pc[t] # "idle" =>
                 /\ StepsLeft(t)' <= StepsLeft(t)
                 /\ Step(t) => StepsLeft(t)' < StepsLeft(t)
  <1>1. IInv => Bounded
    BY StepsLeftType DEF IInv
  <1>2. IInv /\ Bounded /\ Bounded' /\ [Next]_vars => [Counts]_vars
    <2> SUFFICES ASSUME IInv, Bounded, Bounded', [Next]_vars, NEW t \in Threads, pc[t] # "idle"
                 PROVE  /\ StepsLeft(t)' <= StepsLeft(t)
                        /\ Step(t) => StepsLeft(t)' < StepsLeft(t)
      OBVIOUS
    <2>1. StepsLeft(t) \in Nat /\ StepsLeft(t)' \in Nat
      BY ScanAssumption
    <2> QED
      BY <2>1, OwnStepCounts, OthersDoNotCount
  <1> QED
    BY <1>1, <1>2, Inductive, PTL DEF Spec, NothingProlongsARequest
==============================================================================
