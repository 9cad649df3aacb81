--------------------- MODULE SecondGenerationCardProofs ---------------------
(***************************************************************************)
(* What one read of a second-generation card guarantees whatever the scopes, *)
(* the configuration, the card and the failures: no image outlives the read,  *)
(* every business file is the one its name says, a success has every file,    *)
(* DF1/EF03 is read only when needed, the address never costs the rest, and    *)
(* the read is bounded and keeps the contract of CardRead.                     *)
(***************************************************************************)
EXTENDS SecondGenerationCard, SequenceTheorems, TLAPS

InFile == at \in {"select", "read", "read_full"}

(* The inductive invariant: the buffers are empty before the read and overwritten after it, and
   the DF selected for the file being read stays selected until its content arrives. *)
ReadInv ==
  /\ images \in Buffers
  /\ at = "start" => images = [face |-> "empty", name |-> "empty"]
  /\ InFile /\ task = "images" => queue = <<"DF1/EF03">>
  /\ at \in {"read", "read_full"} /\ on_reader => df = Place(card.type, File)[1]
  /\ FilesComeFromTheirPlace
  /\ NoImageSurvives

\* A place is a DF and a short identifier, for every name.
LEMMA PlaceIsPair ==
  ASSUME NEW type, NEW f
  PROVE  Place(type, f) = <<Place(type, f)[1], Place(type, f)[2]>>
BY DEF Place, CommonPlaces

\* Nothing is read, and nothing held, before the read starts.
LEMMA InitReadInv == Init => ReadInv
BY DEF Init, ReadInv, Buffers, InFile, FilesComeFromTheirPlace, NoImageSurvives

\* The steps that exchange no file data leave buffers, files and log as they are.
LEMMA QuietStep ==
  ASSUME ReadInv, UNCHANGED <<card, files, read_log, images, signature>>,
         at # "done", at' # "start",
         at' = "done" => at = "start",
         InFile' /\ task' = "images" => InFile /\ UNCHANGED <<task, queue>>,
         at' \in {"read", "read_full"} /\ on_reader' =>
           \/ df' = Place(card.type, Head(queue'))[1]
           \/ at \in {"read", "read_full"} /\ on_reader /\ UNCHANGED <<df, queue>>
  PROVE  ReadInv'
BY DEF ReadInv, Buffers, InFile, File, FilesComeFromTheirPlace, NoImageSurvives

\* A file's content arrives: the buffers take DF1/EF03's images only.
LEMMA ReadBinaryPreserves == ReadInv /\ ReadBinary => ReadInv'
<1> SUFFICES ASSUME ReadInv, ReadBinary PROVE ReadInv'
  OBVIOUS
<1> USE DEF ReadInv, InFile, FilesComeFromTheirPlace, NoImageSurvives
<1>0. /\ at \in {"read", "read_full"} /\ on_reader
      /\ UNCHANGED <<config, card, on_reader, df, opened, signature, name>>
  BY DEF ReadBinary, config_vars, link_vars
<1>1. CASE GotFile
  <2>1. at' \in {"select", "parse", "address_ocr"}
    BY <1>1 DEF GotFile, AfterTask
  <2>2. InFile' /\ task' = "images" => queue' = <<"DF1/EF03">>
    <3>1. CASE task = "images"
      <4>1. Len(queue) = 1
        BY <1>0, <3>1
      <4>2. AfterTask
        BY <1>1, <4>1 DEF GotFile
      <4> QED BY <3>1, <4>2 DEF AfterTask
    <3>2. CASE task # "images"
      BY <1>1, <3>2 DEF GotFile, AfterTask
    <3> QED BY <3>1, <3>2
  <2>3. \A p \in files' : p[2] = Place(card.type, p[1])
    <3>1. Answered = Place(card.type, File)
      BY <1>0, PlaceIsPair DEF Answered
    <3>2. files' \subseteq files \cup {<<File, Answered>>}
      BY <1>1 DEF GotFile
    <3> QED BY <3>1, <3>2
  <2>4. images' \in Buffers
    BY <1>1 DEF GotFile, Kept, Buffers
  <2> QED BY <1>0, <2>1, <2>2, <2>3, <2>4
<1>2. CASE at' = "read_full" /\ UNCHANGED <<task, queue, files, read_log, images>>
  BY <1>0, <1>2 DEF File
<1>3. CASE /\ \E stage \in Results : Abandon(stage)
           /\ UNCHANGED <<task, queue, files, read_log, images>>
  <2>1. at' \in {"name", "finally"}
    BY <1>3 DEF Abandon, Fail
  <2> QED BY <1>0, <1>3, <2>1
<1>4. CASE /\ read_log' = read_log \cup {File} /\ Fail("tlv_parse_failed")
           /\ UNCHANGED <<task, queue, files, images>>
  BY <1>0, <1>4 DEF Fail
<1> QED BY <1>1, <1>2, <1>3, <1>4 DEF ReadBinary, GiveUp, Results

\* Parsing goes on to files that are not the images'.
LEMMA ParsePreserves == ReadInv /\ Parse => ReadInv'
<1> SUFFICES ASSUME ReadInv, Parse PROVE ReadInv'
  OBVIOUS
<1>1. /\ UNCHANGED <<card, files, read_log, images>> /\ at = "parse"
      /\ at' \in {"select", "finally"} /\ (at' = "select" => task' # "images")
  BY DEF Parse, Fail, config_vars, read_vars
<1> QED
  BY <1>1 DEF ReadInv, InFile, FilesComeFromTheirPlace, NoImageSurvives

\* The finally clause overwrites both buffers.
LEMMA FinallyPreserves == ReadInv /\ Finally => ReadInv'
BY DEF ReadInv, Finally, Overwrite, Overwritten, Buffers, InFile, config_vars, link_vars, field_vars,
       FilesComeFromTheirPlace, NoImageSurvives

\* Every step preserves the invariant.
LEMMA NextReadInv == ReadInv /\ [Next]_vars => ReadInv'
<1> SUFFICES ASSUME ReadInv, [Next]_vars PROVE ReadInv'
  OBVIOUS
<1>1. CASE Start
  BY <1>1, QuietStep DEF Start, InFile, config_vars, link_vars, read_vars, field_vars
<1>2. CASE Handshake
  BY <1>2, QuietStep DEF Handshake, Fail, InFile, config_vars, link_vars, read_vars, field_vars
<1>3. CASE VerifyNumber
  BY <1>3, QuietStep DEF VerifyNumber, Fail, InFile, config_vars, link_vars, field_vars
<1>4. CASE Select
  BY <1>4, QuietStep DEF Select, Selects, Abandon, Fail, File, InFile, config_vars, read_vars
<1>5. CASE ReadBinary
  BY <1>5, ReadBinaryPreserves
<1>6. CASE Raise
  BY <1>6, QuietStep DEF Raise, Abandon, Fail, InFile, config_vars, link_vars, read_vars
<1>7. CASE Parse
  BY <1>7, ParsePreserves
<1>8. CASE AddressOcr
  BY <1>8, QuietStep DEF AddressOcr, InFile, config_vars, link_vars, read_vars
<1>9. CASE NameOcr
  BY <1>9, QuietStep DEF NameOcr, InFile, config_vars, link_vars, read_vars
<1>10. CASE Finally
  BY <1>10, FinallyPreserves
<1>11. CASE LiftCard
  BY <1>11 DEF LiftCard, ReadInv, InFile, config_vars, read_vars, field_vars,
               FilesComeFromTheirPlace, NoImageSurvives
<1>12. CASE UNCHANGED vars
  BY <1>12 DEF ReadInv, InFile, File, FilesComeFromTheirPlace, NoImageSurvives,
               vars, config_vars, link_vars, read_vars, field_vars
<1> QED
  BY <1>1, <1>2, <1>3, <1>4, <1>5, <1>6, <1>7, <1>8, <1>9, <1>10, <1>11, <1>12 DEF Next, Step

\* The invariant holds throughout every read.
THEOREM ReadInvariant == Spec => []ReadInv
<1>1. Init => ReadInv
  BY InitReadInv
<1>2. ReadInv /\ [Next]_vars => ReadInv'
  BY NextReadInv
<1> QED BY <1>1, <1>2, PTL DEF Spec

\* Whatever fails on the way, a read that has returned or raised holds no card image.
THEOREM ImagesNeverSurvive == Spec => []NoImageSurvives
<1>1. ReadInv => NoImageSurvives
  BY DEF ReadInv
<1> QED BY <1>1, ReadInvariant, PTL

\* Every business file in hand is the content of its own place on the card.
THEOREM FilesAreTheirOwn == Spec => []FilesComeFromTheirPlace
<1>1. ReadInv => FilesComeFromTheirPlace
  BY DEF ReadInv
<1> QED BY <1>1, ReadInvariant, PTL
-----------------------------------------------------------------------------
(* The queue of files: what it holds has a place on the card, and together with what is in
   hand it covers every business file until all of them are. *)

Fields == {"none", "failed", "unavailable", "completed"}
Needed ==
  config.full \/ (config.name /\ config.allow) \/ config.scope = "authorized_test_all"
InHand(fs, f) == \E p \in fs : p[1] = f
Queued(q, f) == \E j \in 1 .. Len(q) : q[j] = f
Complete(fs, type) == \A i \in 1 .. Len(Business(type)) : InHand(fs, Business(type)[i])

QueueInv ==
  /\ TypeOK
  /\ InFile => queue # <<>>
  /\ opened => card.asked_for
  /\ at \notin {"start", "challenge", "mutual", "verify", "finally", "done"} => opened
  /\ InFile => task # "none"
  /\ Queued(queue, "DF1/EF03") => Needed
  /\ task = "images" => Needed
  /\ InFile /\ task = "business" =>
       \A i \in 1 .. Len(Business(card.type)) :
         InHand(files, Business(card.type)[i]) \/ Queued(queue, Business(card.type)[i])
  /\ InFile /\ task # "business" => Complete(files, card.type)
  /\ at \in {"parse", "address_ocr", "name"} => Complete(files, card.type)
  /\ SuccessIsComplete
  /\ FaceReadOnlyWhenNeeded

\* Every file a task reads exists on a card of the type, at a place of its own.
LEMMA FilesTyped ==
  ASSUME NEW type \in {"05", "06"}
  PROVE  /\ Business(type) \in Seq(Files(type))
         /\ Len(Business(type)) \in Nat /\ Len(Business(type)) > 0
         /\ \A i \in 1 .. Len(Business(type)) : Business(type)[i] # "DF1/EF03"
         /\ AllFiles(type) \in Seq(Files(type)) /\ AllFiles(type) # <<>>
         /\ Len(Business(type)) <= 5 /\ Len(AllFiles(type)) \in 1 .. 8
         /\ <<"DF1/EF03">> \in Seq(Files(type)) /\ <<"DF1/EF04">> \in Seq(Files(type))
<1>1. /\ {"DF1/EF01", "DF1/EF02", "DF1/EF03", "DF1/EF04", "DF3/EF01", "DF2/EF01"}
           \subseteq Files(type)
      /\ type = "05" => {"DF2/EF02", "DF2/EF03"} \subseteq Files(type)
  BY DEF Files, CommonPlaces
<1>2. /\ Business(type) \in Seq(Files(type))
      /\ Len(Business(type)) \in Nat /\ Len(Business(type)) > 0 /\ Len(Business(type)) <= 5
      /\ \A i \in 1 .. Len(Business(type)) : Business(type)[i] # "DF1/EF03"
  BY <1>1 DEF Business
<1>3. AllFiles(type) \in Seq(Files(type)) /\ AllFiles(type) # <<>> /\ Len(AllFiles(type)) \in 1 .. 8
  <2> DEFINE common == <<"DF1/EF01", "DF1/EF02", "DF1/EF03", "DF1/EF04">>
             others == IF type = "05" THEN <<"DF2/EF01", "DF2/EF02", "DF2/EF03", "DF3/EF01">>
                                      ELSE <<"DF2/EF01", "DF3/EF01">>
  <2>1. common \in Seq(Files(type)) /\ others \in Seq(Files(type)) /\ Len(common) = 4
        /\ Len(others) \in 2 .. 4
    BY <1>1
  <2>2. AllFiles(type) = common \o others
    BY DEF AllFiles
  <2> HIDE DEF common, others
  <2>3. common \o others \in Seq(Files(type)) /\ Len(common \o others) = Len(common) + Len(others)
    BY <2>1, ConcatProperties
  <2>4. Len(common \o others) # 0
    BY <2>1, <2>3
  <2>5. common \o others # <<>>
    BY <2>4
  <2> QED
    BY <2>1, <2>2, <2>3, <2>5
<1> QED
  BY <1>1, <1>2, <1>3

\* A business file lies in one of three DFs, under a short identifier.
LEMMA PlaceTyped ==
  ASSUME NEW type \in {"05", "06"}, NEW f \in Files(type)
  PROVE  Place(type, f) \in {"DF1", "DF2", "DF3"} \X (129 .. 134)
BY DEF Place, CommonPlaces, Files

\* Nothing is queued before the card is opened.
LEMMA InitQueueInv == Init => QueueInv
<1> SUFFICES ASSUME Init PROVE QueueInv
  OBVIOUS
<1> USE DEF Init
<1>1. queue \in Seq(Files(card.type)) /\ Len(queue) = 0
  OBVIOUS
<1>2. TypeOK
  BY <1>1 DEF TypeOK, Stages, Tasks, Buffers, Results
<1>3. ~Queued(queue, "DF1/EF03")
  BY <1>1 DEF Queued
<1> QED
  BY <1>2, <1>3 DEF QueueInv, InFile, SuccessIsComplete, FaceReadOnlyWhenNeeded

\* A step that leaves the queue alone, or drops it.
LEMMA AsideStep ==
  ASSUME QueueInv, UNCHANGED <<config, card, queue, files, read_log, opened>>,
         on_reader' \in BOOLEAN, df' \in {"MF", "none", "DF1", "DF2", "DF3"}, at' \in Stages,
         task' = task, images' \in Buffers,
         signature' \in {"none", "skipped", "refused", "verified"},
         address' \in {"none", "failed", "unavailable", "completed"},
         name' \in {"none", "blocked_by_privacy_policy", "disabled_by_config", "failed",
                    "unavailable", "completed"},
         result' \in Results,
         at' \notin {"start", "challenge", "mutual", "verify", "finally", "done"} => opened,
         InFile' => InFile,
         at' \in {"parse", "address_ocr", "name"} =>
           at \in {"parse", "address_ocr", "name"} \/ (InFile /\ task # "business"),
         result' = "completed" => result = "completed" \/ at = "name"
  PROVE  QueueInv'
<1> USE DEF QueueInv
<1>1. TypeOK'
  BY DEF TypeOK, Files, CommonPlaces, Configs, Cards
<1>2. Complete(files', card.type) <=> Complete(files, card.type)
  BY DEF Complete, InHand, Business
<1>3. \A f : (Queued(queue', f) <=> Queued(queue, f)) /\ (InHand(files', f) <=> InHand(files, f))
  BY DEF Queued, InHand
<1>4. Needed' <=> Needed
  BY DEF Needed
<1>5. SuccessIsComplete'
  <2>1. SuccessIsComplete <=> (result = "completed" => opened /\ card.asked_for /\ Complete(files, card.type))
    BY DEF SuccessIsComplete, Complete, InHand
  <2>2. SuccessIsComplete' <=> (result' = "completed" => opened /\ card.asked_for /\ Complete(files', card.type))
    BY DEF SuccessIsComplete, Complete, InHand
  <2>3. at = "name" => opened /\ card.asked_for /\ Complete(files, card.type)
    OBVIOUS
  <2> QED
    BY <1>2, <2>1, <2>2, <2>3
<1>6. FaceReadOnlyWhenNeeded'
  BY DEF FaceReadOnlyWhenNeeded
<1>7. InFile' /\ task' = "business" =>
        \A i \in 1 .. Len(Business(card.type)) :
          InHand(files', Business(card.type)[i]) \/ Queued(queue', Business(card.type)[i])
  BY DEF InHand, Queued, Business
<1> QED
  BY <1>1, <1>2, <1>3, <1>4, <1>5, <1>6, <1>7 DEF InFile

\* The exchanges and local stretches that bring no file.
LEMMA QuietQueueSteps ==
  ASSUME QueueInv,
         \/ Start \/ Handshake \/ Select \/ Raise \/ AddressOcr \/ NameOcr \/ Finally \/ LiftCard
         \/ UNCHANGED vars
  PROVE  QueueInv'
<1> USE DEF QueueInv
<1>1. CASE Start \/ Handshake
  BY <1>1, AsideStep DEF Start, Handshake, Fail, TypeOK, Stages, Results, InFile, config_vars,
     link_vars, read_vars, field_vars
<1>2. CASE Select \/ Raise
  <2>1. /\ UNCHANGED <<config, card, queue, files, read_log, opened, task, images, signature, name>>
        /\ on_reader' = on_reader /\ at' \in {"read", "name", "finally"}
        /\ at' = "read" => at = "select"
        /\ at' = "name" => InFile /\ task = "address"
        /\ result' \in Results /\ (result' = "completed" => result = "completed")
        /\ address' \in {address, "failed"}
    BY <1>2 DEF Select, Raise, Abandon, Tolerated, Fail, TypeOK, Results, InFile, config_vars,
       link_vars, read_vars
  <2>2. df' \in {"MF", "none", "DF1", "DF2", "DF3"}
    <3>1. CASE df' = df
      BY <3>1 DEF TypeOK
    <3>2. CASE df' # df
      <4>1. at = "select" /\ df' = Place(card.type, File)[1]
        BY <1>2, <3>2 DEF Select, Raise, Selects, link_vars
      <4>2. queue \in Seq(Files(card.type)) /\ queue # <<>> /\ card.type \in {"05", "06"}
        BY <4>1 DEF TypeOK, InFile, Cards
      <4>3. File \in Files(card.type)
        BY <4>2, HeadTailProperties DEF File
      <4>4. Place(card.type, File) \in {"DF1", "DF2", "DF3"} \X (129 .. 134)
        BY <4>2, <4>3, PlaceTyped
      <4> QED
        BY <4>1, <4>4
    <3> QED
      BY <3>1, <3>2
  <2>3. at' # "finally" => opened
    BY <1>2, <2>1 DEF Select, InFile
  <2> QED
    BY <2>1, <2>2, <2>3, AsideStep DEF TypeOK, Stages, InFile
<1>3. CASE AddressOcr \/ NameOcr
  BY <1>3, AsideStep DEF AddressOcr, NameOcr, TypeOK, Stages, Results, InFile, config_vars,
     link_vars, read_vars
<1>4. CASE Finally
  <2>1. images' \in Buffers
    BY <1>4 DEF Finally, Overwrite, Overwritten, TypeOK, Buffers
  <2> QED
    BY <1>4, <2>1, AsideStep DEF Finally, TypeOK, Stages, InFile, config_vars, link_vars, field_vars
<1>5. CASE LiftCard \/ UNCHANGED vars
  <2>1. /\ UNCHANGED <<config, card, at, task, queue, files, read_log, opened, images, signature,
                       address, name, result>>
        /\ on_reader' \in BOOLEAN /\ df' \in {"MF", "none", "DF1", "DF2", "DF3"}
    BY <1>5 DEF LiftCard, vars, TypeOK, config_vars, link_vars, read_vars, field_vars
  <2> QED
    BY <2>1, AsideStep DEF TypeOK, InFile
<1> QED
  BY <1>1, <1>2, <1>3, <1>4, <1>5

\* The card accepts the number: the business files are due.
LEMMA VerifyQueues == ASSUME QueueInv, VerifyNumber PROVE QueueInv'
<1> USE DEF QueueInv
<1>1. CASE at' = "finally"
  BY <1>1, AsideStep DEF VerifyNumber, Fail, TypeOK, Stages, Results, InFile, config_vars,
     link_vars, field_vars
<1>2. CASE at' # "finally"
  <2>1. /\ card.asked_for /\ opened' = TRUE /\ task' = "business" /\ at' = "select"
        /\ queue' = Business(card.type)
        /\ UNCHANGED <<config, card, on_reader, df, files, read_log, images, signature, address,
                       name, result>>
    BY <1>2 DEF VerifyNumber, Fail, config_vars, link_vars, field_vars
  <2>2. card.type \in {"05", "06"}
    BY DEF TypeOK, Cards
  <2>3. /\ queue' \in Seq(Files(card.type)) /\ queue' # <<>>
        /\ \A i \in 1 .. Len(queue') : queue'[i] # "DF1/EF03"
    BY <2>1, <2>2, FilesTyped
  <2>4. TypeOK'
    BY <2>1, <2>3 DEF TypeOK, Files, CommonPlaces, Stages, Tasks
  <2>5. \A i \in 1 .. Len(Business(card.type)) : Queued(queue', Business(card.type)[i])
    BY <2>1 DEF Queued, Business
  <2>6. ~Queued(queue', "DF1/EF03")
    BY <2>3 DEF Queued
  <2>7. SuccessIsComplete' /\ FaceReadOnlyWhenNeeded'
    BY <2>1 DEF SuccessIsComplete, FaceReadOnlyWhenNeeded, Business
  <2> QED
    BY <2>1, <2>3, <2>4, <2>5, <2>6, <2>7 DEF InFile, Business
<1> QED
  BY <1>1, <1>2

\* The files parsed, the test scope's files or the address are due.
LEMMA ParseQueues == ASSUME QueueInv, Parse PROVE QueueInv'
<1> USE DEF QueueInv
<1>1. CASE at' = "finally"
  BY <1>1, AsideStep DEF Parse, Fail, TypeOK, Stages, Results, InFile, config_vars, link_vars,
     read_vars
<1>2. CASE at' # "finally"
  <2>1. /\ at = "parse" /\ at' = "select" /\ task' \in {"test", "address"}
        /\ signature' \in {"skipped", "refused", "verified"}
        /\ UNCHANGED <<config, card, on_reader, df, opened, files, read_log, images, address, name,
                       result>>
    BY <1>2 DEF Parse, Fail, Verdict, config_vars, link_vars, read_vars
  <2>2. \/ queue' = AllFiles(card.type) /\ config.scope = "authorized_test_all"
        \/ queue' = <<"DF1/EF04">>
    BY <1>2 DEF Parse, Fail
  <2>3. card.type \in {"05", "06"}
    BY DEF TypeOK, Cards
  <2>4. queue' \in Seq(Files(card.type)) /\ queue' # <<>>
    <3>1. CASE queue' = <<"DF1/EF04">>
      BY <2>3, <3>1, FilesTyped
    <3>2. CASE queue' = AllFiles(card.type)
      BY <2>3, <3>2, FilesTyped
    <3> QED
      BY <2>2, <3>1, <3>2
  <2>5. TypeOK'
    BY <2>1, <2>4 DEF TypeOK, Files, CommonPlaces, Stages, Tasks
  <2>6. Queued(queue', "DF1/EF03") => Needed'
    <3>1. CASE queue' = <<"DF1/EF04">>
      BY <3>1 DEF Queued
    <3>2. CASE config.scope = "authorized_test_all"
      BY <2>1, <3>2 DEF Needed
    <3> QED
      BY <2>2, <3>1, <3>2
  <2>7. Complete(files', card.type)
    BY <2>1 DEF Complete, InHand, Business
  <2>8. SuccessIsComplete' /\ FaceReadOnlyWhenNeeded'
    BY <2>1 DEF SuccessIsComplete, FaceReadOnlyWhenNeeded, Business
  <2> QED
    BY <2>1, <2>4, <2>5, <2>6, <2>7, <2>8 DEF InFile
<1> QED
  BY <1>1, <1>2

\* What the length of a queue says about the length of its tail.
LEMMA Lengths == \A n \in Nat : /\ n > 0 => n = 1 \/ n > 1
                               /\ n > 1 => n - 1 # 0
  OBVIOUS

\* A file's content arrives: it leaves the queue, and a business file is in hand.
LEMMA GotFileQueues ==
  ASSUME QueueInv, InFile, GotFile, UNCHANGED <<address, result>>,
         UNCHANGED <<config, card, on_reader, df, opened, signature, name>>,
         at \in {"read", "read_full"}, on_reader,
         task = "business" => Answered \in {"DF1", "DF2", "DF3"} \X (129 .. 134)
  PROVE  QueueInv'
<1> USE DEF QueueInv
<1>1. /\ queue \in Seq(Files(card.type)) /\ queue # <<>> /\ card.type \in {"05", "06"}
      /\ Len(queue) \in Nat /\ Len(queue) > 0 /\ opened /\ card.asked_for
  BY DEF TypeOK, Cards, InFile
<1>2. /\ File \in Files(card.type) /\ File = queue[1] /\ Queued(queue, File)
      /\ Tail(queue) \in Seq(Files(card.type)) /\ Len(Tail(queue)) = Len(queue) - 1
      /\ \A i \in 1 .. Len(Tail(queue)) : Tail(queue)[i] = queue[i + 1]
  BY <1>1, HeadTailProperties DEF File, Queued
<1>3. /\ read_log' = read_log \cup {File}
      /\ files' = IF task = "business" THEN files \cup {<<File, Answered>>} ELSE files
      /\ images' \in Buffers
  BY DEF GotFile, Kept, Buffers, TypeOK
<1>4. /\ \A f : InHand(files, f) => InHand(files', f)
      /\ task = "business" => InHand(files', File)
      /\ task # "business" => files' = files
  <2>1. CASE task = "business"
    <3>1. <<File, Answered>> \in files' /\ <<File, Answered>>[1] = File
      BY <1>3, <2>1
    <3>2. \A p \in files : p \in files'
      BY <1>3, <2>1
    <3> QED
      BY <2>1, <3>1, <3>2 DEF InHand
  <2>2. CASE task # "business"
    BY <1>3, <2>2 DEF InHand
  <2> QED
    BY <2>1, <2>2
<1>5. /\ read_log' \subseteq Files(card.type)
      /\ files' \subseteq Files(card.type) \X ({"DF1", "DF2", "DF3"} \X (129 .. 134))
  <2>1. CASE task = "business"
    BY <1>2, <1>3, <2>1 DEF TypeOK
  <2>2. CASE task # "business"
    BY <1>2, <1>3, <2>2 DEF TypeOK
  <2> QED
    BY <2>1, <2>2
<1>6. FaceReadOnlyWhenNeeded'
  BY <1>2, <1>3 DEF FaceReadOnlyWhenNeeded, Needed
<1>7. result # "completed" => SuccessIsComplete'
  BY DEF SuccessIsComplete
<1>8. result = "completed" => SuccessIsComplete'
  BY ZenonT(60), <1>4 DEF SuccessIsComplete, InHand, Business
<1>9. CASE Len(queue) > 1
  <2>1. queue' = Tail(queue) /\ at' = "select" /\ task' = task
    BY <1>9 DEF GotFile
  <2>2. TypeOK'
    BY <1>2, <1>3, <1>5, <2>1 DEF TypeOK, Files, CommonPlaces, Stages
  <2>3. queue' # <<>>
    <3>1. Len(queue') = Len(queue) - 1
      BY <1>2, <2>1
    <3>2. Len(queue') # 0
      BY <1>1, <1>9, <3>1, Lengths, Zenon
    <3> QED
      BY <3>2
  <2>4. \A f : Queued(queue', f) => Queued(queue, f)
    <3> SUFFICES ASSUME NEW f, NEW j \in 1 .. Len(Tail(queue)), Tail(queue)[j] = f
                 PROVE  Queued(queue, f)
      BY <2>1 DEF Queued
    <3>1. j + 1 \in 1 .. Len(queue) /\ queue[j + 1] = f
      BY <1>1, <1>2
    <3> QED
      BY <3>1 DEF Queued
  <2>5. \A f : Queued(queue, f) /\ f # File => Queued(queue', f)
    <3> SUFFICES ASSUME NEW f, f # File, NEW j \in 1 .. Len(queue), queue[j] = f
                 PROVE  \E i \in 1 .. Len(Tail(queue)) : Tail(queue)[i] = f
      BY <2>1 DEF Queued
    <3>1. j - 1 \in 1 .. Len(Tail(queue)) /\ (j - 1) + 1 = j
      BY <1>1, <1>2
    <3> QED
      BY <1>2, <3>1
  <2>6. task = "business" =>
          \A i \in 1 .. Len(Business(card.type)) :
            InHand(files', Business(card.type)[i]) \/ Queued(queue', Business(card.type)[i])
    BY <1>4, <2>5 DEF InFile
  <2>7. task # "business" => Complete(files', card.type)
    BY <1>4 DEF Complete, InHand, Business, InFile
  <2>8. Needed' <=> Needed
    BY DEF Needed
  <2> QED
    BY <1>1, <1>6, <1>7, <1>8, <2>1, <2>2, <2>3, <2>4, <2>6, <2>7, <2>8 DEF InFile, Business
<1>10. CASE Len(queue) = 1
  <2>1. AfterTask
    BY <1>10 DEF GotFile
  <2>2. Complete(files', card.type)
    <3>1. \A f : Queued(queue, f) => f = File
      BY <1>2, <1>10 DEF Queued
    <3>2. CASE task = "business"
      <4>1. \A i \in 1 .. Len(Business(card.type)) : InHand(files', Business(card.type)[i])
        BY <1>4, <3>1, <3>2 DEF InFile
      <4> QED
        BY <4>1 DEF Complete, InHand, Business
    <3>3. CASE task # "business"
      BY <1>4, <3>3 DEF Complete, InHand, Business, InFile
    <3> QED
      BY <3>2, <3>3
  <2>3. \/ queue' = <<>> /\ at' \in {"parse", "address_ocr"} /\ task' = task
        \/ queue' = <<"DF1/EF03">> /\ at' = "select" /\ task' = "images" /\ ImagesNeeded(config)
        \/ queue' = <<"DF1/EF04">> /\ at' = "select" /\ task' = "address"
    BY <2>1 DEF AfterTask
  <2>8. queue' \in Seq(Files(card.type))
    <3>1. <<>> \in Seq(Files(card.type))
      OBVIOUS
    <3>2. /\ <<"DF1/EF03">> \in Seq(Files(card.type))
          /\ <<"DF1/EF04">> \in Seq(Files(card.type))
      BY <1>1, FilesTyped
    <3> QED
      BY <2>3, <3>1, <3>2
  <2>9. at' \in Stages /\ task' \in Tasks
    BY <2>3 DEF TypeOK, Stages, Tasks
  <2>4. TypeOK'
    BY <1>3, <1>5, <2>8, <2>9 DEF TypeOK
  <2>5. ImagesNeeded(config) => Needed'
    BY DEF ImagesNeeded, Needed
  <2>6. task = "images" => Needed'
    BY DEF Needed
  <2>7. Queued(queue', "DF1/EF03") => Needed'
    BY <2>3, <2>5 DEF Queued
  <2>10. opened' /\ card'.asked_for /\ Complete(files', card'.type)
    BY <1>1, <2>2
  <2>11. TypeOK' /\ SuccessIsComplete' /\ FaceReadOnlyWhenNeeded'
    BY <1>6, <1>7, <1>8, <2>4
  <2> HIDE DEF QueueInv
  <2>12. CASE queue' = <<>> /\ at' \in {"parse", "address_ocr"} /\ task' = task
    <3>1. ~ InFile' /\ (task' = "images" => Needed')
      BY <2>6, <2>12 DEF InFile
    <3> QED
      BY <2>7, <2>10, <2>11, <3>1 DEF QueueInv
  <2>13. CASE queue' = <<"DF1/EF03">> /\ at' = "select" /\ task' = "images" /\ ImagesNeeded(config)
    <3>1. queue' # <<>> /\ Needed' /\ task' # "business" /\ task' # "none"
      BY <2>5, <2>13
    <3> QED
      BY <2>10, <2>11, <3>1 DEF QueueInv
  <2>14. CASE queue' = <<"DF1/EF04">> /\ at' = "select" /\ task' = "address"
    <3>1. queue' # <<>> /\ task' # "images" /\ task' # "business" /\ task' # "none"
      BY <2>14
    <3> QED
      BY <2>7, <2>10, <2>11, <3>1 DEF QueueInv
  <2> QED
    BY <2>3, <2>12, <2>13, <2>14
<1>11. Len(queue) > 1 \/ Len(queue) = 1
  <2>1. Len(queue) \in Nat /\ Len(queue) > 0
    BY <1>1
  <2>2. \A n \in Nat : n > 0 => n = 1 \/ n > 1
    BY Lengths
  <2> HIDE DEF QueueInv
  <2> QED
    BY <2>1, <2>2
<1> QED
  BY <1>9, <1>10, <1>11

\* A file read is no longer queued, and the next one is of the same task or of the next.
LEMMA ReadQueues == ASSUME ReadInv, QueueInv, ReadBinary PROVE QueueInv'
<1> USE DEF QueueInv
<1>1. /\ at \in {"read", "read_full"} /\ on_reader /\ InFile /\ opened
      /\ UNCHANGED <<config, card, on_reader, df, opened, signature, name>>
  BY DEF ReadBinary, config_vars, link_vars, InFile
<1>2. CASE GotFile /\ UNCHANGED <<address, result>>
  <2>1. Answered \in {"DF1", "DF2", "DF3"} \X (129 .. 134)
    <3>1. File \in Files(card.type) /\ card.type \in {"05", "06"}
      BY <1>1, HeadTailProperties DEF TypeOK, File, Cards
    <3>2. Place(card.type, File) \in {"DF1", "DF2", "DF3"} \X (129 .. 134)
      BY <3>1, PlaceTyped
    <3>3. df = Place(card.type, File)[1]
      BY <1>1 DEF ReadInv
    <3> QED
      BY <3>2, <3>3 DEF Answered
  <2> QED
    BY <1>1, <1>2, <2>1, GotFileQueues
<1>3. CASE /\ at' = "read_full" /\ UNCHANGED <<task, queue, files, read_log, images, address, result>>
  BY <1>1, <1>3, AsideStep DEF TypeOK, Stages, InFile
<1>4. CASE /\ \E stage \in {"sm_read_failed", "tlv_parse_failed"} : Abandon(stage)
           /\ UNCHANGED <<task, queue, files, read_log, images>>
  <2>1. /\ at' \in {"name", "finally"} /\ (at' = "name" => task = "address")
        /\ result' \in Results /\ (result' = "completed" => result = "completed")
        /\ address' \in {address, "failed"}
    BY <1>4 DEF Abandon, Tolerated, Fail, TypeOK, Results
  <2> QED
    BY <1>1, <1>4, <2>1, AsideStep DEF TypeOK, Stages, InFile
<1>5. CASE /\ task = "images" /\ read_log' = read_log \cup {File} /\ Fail("tlv_parse_failed")
           /\ UNCHANGED <<task, queue, files, images, address>>
  <2>1. File \in Files(card.type)
    BY <1>1, HeadTailProperties DEF TypeOK, File, Cards
  <2>2. at' = "finally" /\ result' = "tlv_parse_failed" /\ Needed'
    BY <1>1, <1>5 DEF Fail, Needed
  <2>3. TypeOK'
    BY <1>1, <1>5, <2>1, <2>2 DEF TypeOK, Files, CommonPlaces, Stages, Results
  <2>4. Queued(queue', "DF1/EF03") => Needed'
    BY <2>2
  <2>5. SuccessIsComplete' /\ FaceReadOnlyWhenNeeded'
    BY <2>2 DEF SuccessIsComplete, FaceReadOnlyWhenNeeded, Needed
  <2> QED
    BY <1>1, <1>5, <2>2, <2>3, <2>4, <2>5 DEF InFile
<1> QED
  BY <1>2, <1>3, <1>4, <1>5 DEF ReadBinary, GiveUp

\* Every step keeps the queues.
LEMMA NextQueueInv == ReadInv /\ QueueInv /\ [Next]_vars => QueueInv'
BY QuietQueueSteps, VerifyQueues, ParseQueues, ReadQueues DEF Next, Step

\* The state's types, with every queued file one that the card type has.
THEOREM TypeCorrect == Spec => []TypeOK
<1>1. Init => QueueInv
  BY InitQueueInv
<1>2. ReadInv /\ QueueInv /\ [Next]_vars => QueueInv'
  BY NextQueueInv
<1>3. QueueInv => TypeOK
  BY DEF QueueInv
<1> QED BY <1>1, <1>2, <1>3, ReadInvariant, PTL DEF Spec

\* The queues are right throughout.
LEMMA QueueInvariant == Spec => []QueueInv
BY InitQueueInv, NextQueueInv, ReadInvariant, PTL DEF Spec

\* A read that succeeds has opened the card asked for and holds every business file of its type.
THEOREM SuccessHasEveryFile == Spec => []SuccessIsComplete
<1>1. QueueInv => SuccessIsComplete
  BY DEF QueueInv
<1> QED BY <1>1, QueueInvariant, PTL

\* The file with the face image leaves the card only for one of its purposes.
THEOREM FaceFileOnlyWhenNeeded == Spec => []FaceReadOnlyWhenNeeded
<1>1. QueueInv => FaceReadOnlyWhenNeeded
  BY DEF QueueInv
<1> QED BY <1>1, QueueInvariant, PTL
-----------------------------------------------------------------------------
(* The refinement: the read is a CardRead. *)

Phase == IF at = "done" THEN "over" ELSE IF opened THEN "open" ELSE "closed"
Have  == {p[1] : p \in files}
Holding == "held" \in {images.face, images.name}
Outcome ==
  IF at # "done" THEN "none" ELSE IF result = "completed" THEN "success" ELSE "failure"

\* A read starts as CardRead starts.
LEMMA InitRefines == Init => Read!Init
<1> SUFFICES ASSUME Init PROVE Read!Init
  OBVIOUS
<1>1. \A i \in DOMAIN Business(card.type) :
        Business(card.type)[i] \in DOMAIN CommonPlaces \cup {"DF2/EF01", "DF2/EF02", "DF2/EF03"}
  BY DEF Init, Business, CommonPlaces, Cards
<1>2. BusinessFiles \in SUBSET (DOMAIN CommonPlaces \cup {"DF2/EF01", "DF2/EF02", "DF2/EF03"})
  BY <1>1 DEF BusinessFiles
<1> QED
  BY <1>2 DEF Init, Read!Init, Cards

\* A step that changes nothing of what a CardRead sees.
LEMMA Unseen ==
  ASSUME UNCHANGED <<card, files, opened>>, Holding' = Holding, Outcome' = Outcome, Phase' = Phase
  PROVE  UNCHANGED Read!read_vars
BY DEF Read!read_vars, Phase, Holding, Outcome, BusinessFiles, Business

\* Every step of the read is a step of CardRead, or changes nothing that it sees.
LEMMA StepRefines ==
  ReadInv /\ ReadInv' /\ QueueInv /\ QueueInv' /\ [Next]_vars => [Read!Next]_(Read!read_vars)
<1> SUFFICES ASSUME ReadInv, ReadInv', QueueInv, QueueInv', [Next]_vars
             PROVE  Read!Next \/ UNCHANGED Read!read_vars
  OBVIOUS
<1>1. CASE (Start /\ at' # "done") \/ Handshake \/ Select \/ Raise \/ Parse \/ AddressOcr \/ NameOcr
  <2>1. UNCHANGED <<card, files, opened, images>> /\ at # "done" /\ at' # "done"
    BY <1>1 DEF Start, Handshake, Select, Raise, Parse, AddressOcr, NameOcr, Abandon, Fail,
                config_vars, read_vars
  <2> QED
    BY <2>1, Unseen DEF Phase, Holding, Outcome
<1>2. CASE LiftCard \/ UNCHANGED vars
  <2>1. UNCHANGED <<card, files, opened, images, at, result>>
    BY <1>2 DEF LiftCard, vars, config_vars, read_vars
  <2> QED
    BY <2>1, Unseen DEF Phase, Holding, Outcome
<1>3. CASE Start /\ at' = "done"
  <2>1. /\ UNCHANGED <<card, files, opened, images>> /\ at = "start" /\ result' # "completed"
    BY <1>3 DEF Start, config_vars, read_vars
  <2>2. ~Holding'
    BY <2>1 DEF ReadInv, Holding
  <2> QED
    BY <1>3, <2>1, <2>2 DEF Read!Next, Read!Finish, Holding, BusinessFiles, Business
<1>4. CASE VerifyNumber
  <2>1. /\ UNCHANGED <<card, files, images>> /\ at = "verify" /\ at' # "done"
        /\ opened' = opened \/ (opened' = TRUE /\ card.asked_for)
    BY <1>4 DEF VerifyNumber, Fail, config_vars
  <2>2. CASE opened' = opened
    BY <2>1, <2>2, Unseen DEF Phase, Holding, Outcome
  <2>3. CASE opened' # opened
    <3>1. ~opened /\ opened' /\ card.asked_for
      BY <2>1, <2>3 DEF QueueInv, TypeOK
    <3> QED
      BY <2>1, <3>1 DEF Read!Next, Read!Open, BusinessFiles, Business
  <2> QED
    BY <2>2, <2>3
<1>5. CASE ReadBinary
  <2>1. /\ UNCHANGED <<card, opened>> /\ at # "done" /\ at' # "done"
        /\ files \subseteq files'
    BY <1>5 DEF ReadBinary, GotFile, AfterTask, GiveUp, Abandon, Fail, config_vars
  <2>2. opened
    BY <1>5 DEF ReadBinary, QueueInv
  <2>3. Have \subseteq Have'
    BY <2>1 DEF Have
  <2>4. Have' \in SUBSET (DOMAIN CommonPlaces \cup {"DF2/EF01", "DF2/EF02", "DF2/EF03"})
    BY DEF QueueInv, TypeOK, Files, Have
  <2>5. Holding' \in BOOLEAN
    BY DEF Holding
  <2> QED
    BY <2>1, <2>2, <2>3, <2>4, <2>5
    DEF Read!Next, Read!Read, Have, Holding, BusinessFiles, Business
<1>6. CASE Finally
  <2>1. /\ UNCHANGED <<card, files, opened, result>> /\ at = "finally" /\ at' = "done"
    BY <1>6 DEF Finally, config_vars, field_vars
  <2>2. ~Holding'
    BY <2>1 DEF ReadInv, NoImageSurvives, Holding
  <2>3. result = "completed" => opened /\ BusinessFiles \subseteq Have
    <3> SUFFICES ASSUME result = "completed", NEW i \in 1 .. Len(Business(card.type))
                 PROVE  opened /\ Business(card.type)[i] \in Have
      BY FilesTyped DEF BusinessFiles, QueueInv, TypeOK, Cards
    <3>1. opened /\ \E p \in files : p[1] = Business(card.type)[i]
      BY DEF QueueInv, SuccessIsComplete
    <3> QED
      BY <3>1 DEF Have
  <2> QED
    BY <2>1, <2>2, <2>3 DEF Read!Next, Read!Finish, Holding, Have, BusinessFiles, Business
<1> QED
  BY <1>1, <1>2, <1>3, <1>4, <1>5, <1>6 DEF Next, Step

\* The read of a second-generation card is a CardRead, whatever is lifted, refused or unparsable.
THEOREM Refinement == Spec => IsCardRead
<1>1. Init => Read!Init
  BY InitRefines
<1>2. ReadInv /\ ReadInv' /\ QueueInv /\ QueueInv' /\ [Next]_vars => [Read!Next]_(Read!read_vars)
  BY StepRefines
<1> QED
  BY <1>1, <1>2, ReadInvariant, QueueInvariant, PTL DEF Spec, IsCardRead, Read!Spec
-----------------------------------------------------------------------------
(* How long a read can take.  A file costs three steps at most: its DF is selected, it is read,
   and read once more in full.  Behind the last file of a task the rest of the read follows. *)

\* The most steps that follow the last file of task t.
StepsAfter(t) ==
  CASE t = "business" -> 34 [] t = "images" -> 31 [] t = "test" -> 6 [] OTHER -> 3

StepsOfTask(t, n) == StepsAfter(t) + 3 * (n - 1)

\* The most steps from a stage on, with n files left to task t.
StepsFrom(stage, t, n) ==
  CASE stage = "start"     -> 53 [] stage = "challenge"   -> 52
    [] stage = "mutual"    -> 51 [] stage = "verify"      -> 50
    [] stage = "select"    -> StepsOfTask(t, n) + 3
    [] stage = "read"      -> StepsOfTask(t, n) + 2
    [] stage = "read_full" -> StepsOfTask(t, n) + 1
    [] stage = "parse"     -> 31 [] stage = "address_ocr" -> 3
    [] stage = "name"      -> 2  [] stage = "finally"     -> 1
    [] OTHER               -> 0

\* The most steps the reading thread still takes.
OwnStepsLeft == StepsFrom(at, task, Len(queue))

\* ... and the card can be lifted once.
StepsLeft == OwnStepsLeft + (IF on_reader THEN 1 ELSE 0)

\* The numbers, stage by stage.
LEMMA StageSteps ==
  ASSUME NEW t, NEW n
  PROVE  /\ StepsFrom("start", t, n) = 53 /\ StepsFrom("challenge", t, n) = 52
         /\ StepsFrom("mutual", t, n) = 51 /\ StepsFrom("verify", t, n) = 50
         /\ StepsFrom("select", t, n) = StepsOfTask(t, n) + 3
         /\ StepsFrom("read", t, n) = StepsOfTask(t, n) + 2
         /\ StepsFrom("read_full", t, n) = StepsOfTask(t, n) + 1
         /\ StepsFrom("parse", t, n) = 31 /\ StepsFrom("address_ocr", t, n) = 3
         /\ StepsFrom("name", t, n) = 2 /\ StepsFrom("finally", t, n) = 1
         /\ StepsFrom("done", t, n) = 0
  BY DEF StepsFrom

LEMMA TaskSteps ==
  /\ StepsAfter("business") = 34 /\ StepsAfter("images") = 31 /\ StepsAfter("test") = 6
  /\ StepsAfter("address") = 3
  /\ \A t : StepsAfter(t) \in {3, 6, 31, 34}
  BY DEF StepsAfter

\* With a file left the steps left are a number, and more than what follows the task.
LEMMA FileSteps ==
  ASSUME NEW t, NEW n \in Nat, n > 0
  PROVE  /\ StepsOfTask(t, n) \in Nat /\ StepsOfTask(t, n) >= StepsAfter(t)
         /\ StepsOfTask(t, n) >= 3
         /\ n = 1 => StepsOfTask(t, n) = StepsAfter(t)
<1>1. StepsAfter(t) \in {3, 6, 31, 34}
  BY TaskSteps
<1> QED
  BY <1>1 DEF StepsOfTask

\* While files are read there is one left.
LEMMA FileLeft ==
  ASSUME QueueInv, InFile
  PROVE  /\ queue \in Seq(Files(card.type)) /\ queue # <<>>
         /\ Len(queue) \in Nat /\ Len(queue) > 0
         /\ StepsOfTask(task, Len(queue)) \in Nat /\ StepsOfTask(task, Len(queue)) >= 3
         /\ OwnStepsLeft \in Nat /\ OwnStepsLeft > StepsOfTask(task, Len(queue))
<1>1. queue \in Seq(Files(card.type)) /\ queue # <<>>
  BY DEF QueueInv, TypeOK
<1>2. Len(queue) \in Nat /\ Len(queue) > 0
  BY <1>1
<1>3. StepsOfTask(task, Len(queue)) \in Nat /\ StepsOfTask(task, Len(queue)) >= 3
  BY <1>2, FileSteps
<1>4. OwnStepsLeft \in {StepsOfTask(task, Len(queue)) + 1, StepsOfTask(task, Len(queue)) + 2,
                        StepsOfTask(task, Len(queue)) + 3}
  BY StageSteps DEF OwnStepsLeft, InFile
<1> QED
  BY <1>1, <1>2, <1>3, <1>4

\* The steps left are a number.
LEMMA OwnStepsType == QueueInv => OwnStepsLeft \in Nat
<1> SUFFICES ASSUME QueueInv PROVE OwnStepsLeft \in Nat
  OBVIOUS
<1>1. CASE InFile
  BY <1>1, FileLeft
<1>2. CASE ~InFile
  <2>1. at \in {"start", "challenge", "mutual", "verify", "parse", "address_ocr", "name", "finally", "done"}
    BY <1>2 DEF QueueInv, TypeOK, Stages, InFile
  <2> QED
    BY <2>1, StageSteps DEF OwnStepsLeft
<1> QED
  BY <1>1, <1>2

\* A step out of the read, or to its last stages, from an earlier one.
LEMMA WayOutIsProgress ==
  ASSUME QueueInv, at' \in {"name", "finally"},
         InFile \/ at \in {"challenge", "mutual", "verify", "parse"}
  PROVE  OwnStepsLeft' < OwnStepsLeft
<1>1. OwnStepsLeft' \in {1, 2}
  BY StageSteps DEF OwnStepsLeft
<1>2. OwnStepsLeft \in Nat /\ OwnStepsLeft > 3
  <2>1. CASE InFile
    <3>1. /\ StepsOfTask(task, Len(queue)) \in Nat /\ StepsOfTask(task, Len(queue)) >= 3
          /\ OwnStepsLeft \in Nat /\ OwnStepsLeft > StepsOfTask(task, Len(queue))
      BY <2>1, FileLeft
    <3> QED
      BY <3>1
  <2>2. CASE at \in {"challenge", "mutual", "verify", "parse"}
    BY <2>2, StageSteps DEF OwnStepsLeft
  <2> QED
    BY <2>1, <2>2
<1> QED
  BY <1>1, <1>2

\* A file's content arrives: the queue, or what follows it, is shorter by a step at least.
LEMMA GotFileIsProgress ==
  ASSUME QueueInv, at \in {"read", "read_full"}, GotFile
  PROVE  OwnStepsLeft' < OwnStepsLeft
<1>1. /\ queue \in Seq(Files(card.type)) /\ queue # <<>> /\ Len(queue) \in Nat /\ Len(queue) > 0
      /\ StepsOfTask(task, Len(queue)) \in Nat
      /\ OwnStepsLeft \in Nat /\ OwnStepsLeft > StepsOfTask(task, Len(queue))
  BY FileLeft DEF InFile
<1>2. StepsAfter(task) \in Nat
  BY TaskSteps
<1>3. CASE Len(queue) > 1
  <2>1. queue' = Tail(queue) /\ at' = "select" /\ task' = task /\ Len(Tail(queue)) = Len(queue) - 1
    BY <1>1, <1>3, HeadTailProperties DEF GotFile
  <2>2. StepsOfTask(task, Len(queue) - 1) + 3 = StepsOfTask(task, Len(queue))
    BY <1>1, <1>2, <2>1 DEF StepsOfTask
  <2>3. OwnStepsLeft' = StepsFrom("select", task, Len(queue) - 1)
    BY <2>1 DEF OwnStepsLeft
  <2> QED
    BY <1>1, <2>2, <2>3, StageSteps
<1>4. CASE ~(Len(queue) > 1)
  <2>1. AfterTask /\ Len(queue) = 1
    <3>1. AfterTask
      BY <1>4, Zenon DEF GotFile
    <3>2. Len(queue) \in Nat /\ Len(queue) > 0
      BY <1>1
    <3>3. \A n \in Nat : n > 0 => n = 1 \/ n > 1
      BY Lengths
    <3> QED
      BY <1>4, <3>1, <3>2, <3>3
  <2>2. StepsOfTask(task, Len(queue)) = StepsAfter(task)
    BY <1>1, <2>1, FileSteps
  <2>3. OwnStepsLeft' = StepsAfter(task) \/ (OwnStepsLeft' = 31 /\ StepsAfter(task) \in {31, 34})
    <3> Len(<<"DF1/EF03">>) = 1 /\ Len(<<"DF1/EF04">>) = 1
      OBVIOUS
    <3>1. CASE task = "business" /\ task' = "images" /\ queue' = <<"DF1/EF03">> /\ at' = "select"
      <4>1. StepsOfTask("images", 1) = 31
        BY TaskSteps, FileSteps
      <4> QED
        BY <3>1, <4>1, StageSteps, TaskSteps DEF OwnStepsLeft
    <3>2. CASE task = "test" /\ task' = "address" /\ queue' = <<"DF1/EF04">> /\ at' = "select"
      <4>1. StepsOfTask("address", 1) = 3
        BY TaskSteps, FileSteps
      <4> QED
        BY <3>2, <4>1, StageSteps, TaskSteps DEF OwnStepsLeft
    <3>3. CASE task \in {"images", "business"} /\ at' = "parse"
      BY <3>3, StageSteps, TaskSteps DEF OwnStepsLeft
    <3>4. CASE task = "address" /\ at' = "address_ocr"
      BY <3>4, StageSteps, TaskSteps DEF OwnStepsLeft
    <3> QED
      BY <2>1, <3>1, <3>2, <3>3, <3>4 DEF AfterTask
  <2> QED
    BY <1>1, <1>2, <2>2, <2>3
<1> QED
  BY <1>3, <1>4

\* Every step of the thread is one of those that were left.
LEMMA OwnStepIsProgress ==
  ASSUME QueueInv, Step
  PROVE  OwnStepsLeft' < OwnStepsLeft
<1>1. CASE Start \/ Handshake
  <2>1. \/ at = "start" /\ at' \in {"challenge", "done"}
        \/ at = "challenge" /\ at' = "mutual"
        \/ at = "mutual" /\ at' = "verify"
        \/ at \in {"challenge", "mutual"} /\ at' = "finally"
    BY <1>1 DEF Start, Handshake, Fail
  <2> QED
    BY <2>1, StageSteps DEF OwnStepsLeft
<1>2. CASE VerifyNumber
  <2>1. CASE task' = "business" /\ queue' = Business(card.type) /\ at' = "select"
    <3> card.type \in {"05", "06"}
      BY DEF QueueInv, TypeOK, Cards
    <3>1. Len(queue') \in 1 .. 5
      <4>1. Len(Business(card.type)) \in 1 .. 5
        <5>1. /\ Len(Business(card.type)) \in Nat /\ Len(Business(card.type)) > 0
              /\ Len(Business(card.type)) <= 5
          BY FilesTyped
        <5>2. \A n \in Nat : n > 0 /\ n <= 5 => n \in 1 .. 5
          OBVIOUS
        <5> QED
          BY <5>1, <5>2, Zenon
      <4> QED
        BY <2>1, <4>1
    <3>2. OwnStepsLeft' = 34 + 3 * (Len(queue') - 1) + 3
      BY <2>1, StageSteps, TaskSteps DEF OwnStepsLeft, StepsOfTask
    <3>3. OwnStepsLeft = 50
      BY <1>2, StageSteps DEF VerifyNumber, OwnStepsLeft
    <3>4. \A n \in 1 .. 5 : 34 + 3 * (n - 1) + 3 < 50
      OBVIOUS
    <3> QED
      BY <3>1, <3>2, <3>3, <3>4, Zenon
  <2> QED
    BY <1>2, <2>1, WayOutIsProgress DEF VerifyNumber, Fail
<1>3. CASE Select
  <2>1. CASE at' = "read" /\ UNCHANGED <<task, queue>>
    <3>1. StepsOfTask(task, Len(queue)) \in Nat
      BY <1>3, FileLeft DEF Select, InFile
    <3>2. OwnStepsLeft = StepsOfTask(task, Len(queue)) + 3 /\ OwnStepsLeft' = StepsOfTask(task, Len(queue)) + 2
      BY <1>3, <2>1, StageSteps DEF Select, OwnStepsLeft
    <3> QED
      BY <3>1, <3>2
  <2> QED
    BY <1>3, <2>1, WayOutIsProgress DEF Select, Abandon, Fail, InFile
<1>4. CASE ReadBinary
  <2>1. CASE GotFile
    BY <1>4, <2>1, GotFileIsProgress DEF ReadBinary
  <2>2. CASE at = "read" /\ at' = "read_full" /\ UNCHANGED <<task, queue>>
    <3>1. StepsOfTask(task, Len(queue)) \in Nat
      BY <1>4, FileLeft DEF ReadBinary, InFile
    <3>2. OwnStepsLeft = StepsOfTask(task, Len(queue)) + 2 /\ OwnStepsLeft' = StepsOfTask(task, Len(queue)) + 1
      BY <2>2, StageSteps DEF OwnStepsLeft
    <3> QED
      BY <3>1, <3>2
  <2> QED
    BY <1>4, <2>1, <2>2, WayOutIsProgress DEF ReadBinary, GiveUp, Abandon, Fail, InFile
<1>5. CASE Raise
  BY <1>5, WayOutIsProgress DEF Raise, Abandon, Fail, InFile
<1>6. CASE Parse
  <2>1. OwnStepsLeft = 31
    BY <1>6, StageSteps DEF Parse, OwnStepsLeft
  <2>2. CASE at' = "select" /\ task' = "test" /\ queue' = AllFiles(card.type)
    <3> card.type \in {"05", "06"}
      BY DEF QueueInv, TypeOK, Cards
    <3>1. Len(queue') \in 1 .. 8
      BY <2>2, FilesTyped
    <3>2. OwnStepsLeft' = 6 + 3 * (Len(queue') - 1) + 3
      BY <2>2, StageSteps, TaskSteps DEF OwnStepsLeft, StepsOfTask
    <3>3. \A n \in 1 .. 8 : 6 + 3 * (n - 1) + 3 < 31
      OBVIOUS
    <3> QED
      BY <2>1, <3>1, <3>2, <3>3, Zenon
  <2>3. CASE at' = "select" /\ task' = "address" /\ queue' = <<"DF1/EF04">>
    <3>1. StepsOfTask("address", 1) = 3
      BY TaskSteps, FileSteps
    <3> QED
      BY <2>1, <2>3, <3>1, StageSteps DEF OwnStepsLeft
  <2> QED
    BY <1>6, <2>2, <2>3, WayOutIsProgress DEF Parse, Fail
<1>7. CASE AddressOcr \/ NameOcr \/ Finally
  <2>1. \/ at = "address_ocr" /\ at' = "name"
        \/ at = "name" /\ at' = "finally"
        \/ at = "finally" /\ at' = "done"
    BY <1>7 DEF AddressOcr, NameOcr, Finally
  <2> QED
    BY <2>1, StageSteps DEF OwnStepsLeft
<1> QED
  BY <1>1, <1>2, <1>3, <1>4, <1>5, <1>6, <1>7 DEF Step

\* ... and the steps left are as many fewer, the lift of the card among them.
LEMMA StepIsProgress ==
  ASSUME QueueInv, QueueInv', Next
  PROVE  StepsLeft \in Nat /\ StepsLeft' \in Nat /\ StepsLeft' < StepsLeft
<1>1. OwnStepsLeft \in Nat
  BY OwnStepsType
<1>2. (QueueInv => OwnStepsLeft \in Nat)'
  BY OwnStepsType, PTL
<1>3. OwnStepsLeft' \in Nat
  BY <1>2
<1>4. CASE Step
  <2>1. on_reader' = on_reader
    BY <1>4 DEF Step, Start, Handshake, VerifyNumber, Select, ReadBinary, Raise, Parse, AddressOcr,
                NameOcr, Finally, link_vars
  <2>2. OwnStepsLeft' < OwnStepsLeft
    BY <1>4, OwnStepIsProgress
  <2>3. \/ StepsLeft = OwnStepsLeft /\ StepsLeft' = OwnStepsLeft'
        \/ StepsLeft = OwnStepsLeft + 1 /\ StepsLeft' = OwnStepsLeft' + 1
    <3>1. CASE on_reader
      BY <1>1, <1>3, <2>1, <3>1, Zenon DEF StepsLeft
    <3>2. CASE ~on_reader
      <4>1. \A n \in Nat : n + 0 = n
        OBVIOUS
      <4> QED
        BY <1>1, <1>3, <2>1, <3>2, <4>1, Zenon DEF StepsLeft
    <3> QED
      BY <3>1, <3>2
  <2> QED
    BY <1>1, <1>3, <2>2, <2>3
<1>5. CASE LiftCard
  <2>1. at' = at /\ task' = task /\ queue' = queue /\ on_reader /\ ~on_reader'
    BY <1>5 DEF LiftCard
  <2>2. OwnStepsLeft' = OwnStepsLeft
    BY <2>1 DEF OwnStepsLeft
  <2> QED
    BY <1>1, <2>1, <2>2 DEF StepsLeft
<1> QED
  BY <1>4, <1>5 DEF Next

\* Whatever the card answers and whenever it is lifted, every step brings the end of the read
\* nearer: 53 steps of the reading thread at most, however often the card refuses a file.
THEOREM ReadIsBounded == Spec => [](StepsLeft \in 0 .. 54) /\ [][StepsLeft' < StepsLeft]_vars
<1>1. Init => StepsLeft \in 0 .. 54
  <2> SUFFICES ASSUME Init PROVE StepsLeft \in 0 .. 54
    OBVIOUS
  <2>1. OwnStepsLeft = 53
    BY StageSteps DEF Init, OwnStepsLeft
  <2> QED
    BY <2>1 DEF StepsLeft
<1>2. StepsLeft \in 0 .. 54 /\ QueueInv /\ QueueInv' /\ [Next]_vars => (StepsLeft \in 0 .. 54)'
  <2> SUFFICES ASSUME StepsLeft \in 0 .. 54, QueueInv, QueueInv', [Next]_vars
               PROVE  StepsLeft' \in 0 .. 54
    OBVIOUS
  <2>1. CASE Next
    BY <2>1, StepIsProgress
  <2>2. CASE UNCHANGED vars
    <3>1. at' = at /\ task' = task /\ queue' = queue /\ on_reader' = on_reader
      BY <2>2 DEF vars, link_vars
    <3> QED
      BY <3>1 DEF StepsLeft, OwnStepsLeft
  <2> QED
    BY <2>1, <2>2
<1>3. QueueInv /\ QueueInv' /\ [Next]_vars => [StepsLeft' < StepsLeft]_vars
  BY StepIsProgress
<1> QED
  BY <1>1, <1>2, <1>3, QueueInvariant, PTL DEF Spec
-----------------------------------------------------------------------------
(* What the address can do to the read: nothing. *)

AddressApart ==
  task = "address" =>
    \/ at \in {"select", "read", "read_full", "address_ocr", "name"}
    \/ at \in {"finally", "done"} /\ result = "completed"

\* Once the address is due the read goes on to the end, and in success, when it ends.
THEOREM AddressCannotCostTheRead ==
  Spec => /\ [](task = "address" /\ at = "done" => result = "completed")
          /\ [][task = "address" => task' = "address"]_vars
<1>1. Init => AddressApart
  BY DEF Init, AddressApart
<1>2. AddressApart /\ [Next]_vars => AddressApart' /\ (task = "address" => task' = "address")
  <2> SUFFICES ASSUME AddressApart, [Next]_vars
               PROVE  AddressApart' /\ (task = "address" => task' = "address")
    OBVIOUS
  <2>1. CASE Start \/ Handshake \/ VerifyNumber
    BY <2>1 DEF Start, Handshake, VerifyNumber, Fail, AddressApart
  <2>2. CASE Select \/ Raise
    BY <2>2 DEF Select, Raise, Abandon, Tolerated, Fail, AddressApart
  <2>3. CASE ReadBinary
    BY <2>3 DEF ReadBinary, GotFile, AfterTask, GiveUp, Abandon, Tolerated, Fail, AddressApart
  <2>4. CASE Parse \/ AddressOcr \/ NameOcr \/ Finally
    BY <2>4 DEF Parse, AddressOcr, NameOcr, Finally, Fail, AddressApart
  <2>5. CASE LiftCard \/ UNCHANGED vars
    BY <2>5 DEF LiftCard, vars, AddressApart
  <2> QED
    BY <2>1, <2>2, <2>3, <2>4, <2>5 DEF Next, Step
<1>3. AddressApart => (task = "address" /\ at = "done" => result = "completed")
  BY DEF AddressApart
<1>4. AddressApart /\ [Next]_vars => [task = "address" => task' = "address"]_vars
  BY <1>2
<1> QED
  BY <1>1, <1>2, <1>3, <1>4, PTL DEF Spec
=============================================================================
