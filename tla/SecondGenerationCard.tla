------------------------ MODULE SecondGenerationCard ------------------------
(***************************************************************************)
(* reader/protocols/second_generation_card.py: one read of a second-         *)
(* generation card (type 05 or 06).  An action is one APDU exchange, or one   *)
(* local stretch between two of them.  The card may answer any exchange with  *)
(* an error status and may be lifted off the reader before any of them, after *)
(* which every exchange raises.                                               *)
(***************************************************************************)
EXTENDS Naturals, Sequences

CONSTANT Scopes   \* the values of RC_READ_SCOPE considered

ASSUME ScopesAssumption == Scopes \subseteq {"business", "authorized_test_all"}

VARIABLES
  config,    \* get_rc2_config(): the environment's switches
  card,      \* the card: its type, whether it is the one whose number was typed, what it holds
  on_reader, \* the card still answers this connection
  df,        \* the dedicated file the card has selected
  at,        \* the next step
  task,      \* what the file being read is for
  queue,     \* files still to read for task, the current one first
  opened,    \* MUTUAL AUTHENTICATE and VERIFY succeeded
  files,     \* the business files in hand, each with the place on the card it came from
  read_log,  \* history: files whose contents left the card
  images,    \* the two transient buffers: "empty", "held" or "wiped"
  signature, \* what parse_rc2_business_fields says of the signature
  address,   \* address_ocr_status
  name,      \* name_ocr_status
  result     \* the stage of the result, "raised" for an exception, "none" before

config_vars == <<config, card>>
link_vars   == <<on_reader, df>>
read_vars   == <<opened, files, read_log, images>>
field_vars  == <<signature, address, name>>
vars == <<config_vars, link_vars, at, task, queue, read_vars, field_vars, result>>

(* RC2_FILE_MAP: where each file lives; the short EF identifiers of one DF differ. *)
CommonPlaces ==
  [f \in {"DF1/EF01", "DF1/EF02", "DF1/EF03", "DF1/EF04", "DF3/EF01"} |->
     CASE f = "DF1/EF01" -> <<"DF1", 129>>
       [] f = "DF1/EF02" -> <<"DF1", 131>>
       [] f = "DF1/EF03" -> <<"DF1", 132>>
       [] f = "DF1/EF04" -> <<"DF1", 134>>
       [] f = "DF3/EF01" -> <<"DF3", 130>>]

Files(type) == DOMAIN CommonPlaces \cup
  (IF type = "05" THEN {"DF2/EF01", "DF2/EF02", "DF2/EF03"} ELSE {"DF2/EF01"})

Place(type, f) ==
  CASE f \in DOMAIN CommonPlaces        -> CommonPlaces[f]
    [] type = "05" /\ f = "DF2/EF01"    -> <<"DF2", 129>>
    [] type = "05" /\ f = "DF2/EF02"    -> <<"DF2", 130>>
    [] OTHER                            -> <<"DF2", 131>>

SecureMessaging(type, f) == Place(type, f)[1] = "DF1"

\* read_default_business_files: the order they are read in.
Business(type) ==
  IF type = "05" THEN <<"DF1/EF02", "DF2/EF01", "DF2/EF02", "DF2/EF03", "DF3/EF01">>
                 ELSE <<"DF1/EF02", "DF2/EF01", "DF3/EF01">>

\* read_authorized_test_file_metadata: every file of the map, in its order.
AllFiles(type) ==
  <<"DF1/EF01", "DF1/EF02", "DF1/EF03", "DF1/EF04">> \o
  (IF type = "05" THEN <<"DF2/EF01", "DF2/EF02", "DF2/EF03", "DF3/EF01">>
                  ELSE <<"DF2/EF01", "DF3/EF01">>)

\* _transient_images_are_needed: DF1/EF03 holds the name image and the face image.
ImagesNeededForName(c) == c.full \/ c.name
ImagesNeeded(c) == c.full \/ (c.name /\ c.allow)

\* What verify_rc2_signature may say of this read; which of the two is SignatureVerification's.
Verdict ==
  IF ~config.full THEN {"skipped"}
  ELSE IF {images.face, images.name} = {"held"} THEN {"verified", "refused"} ELSE {"refused"}

Buffers == [face : {"empty", "held", "wiped"}, name : {"empty", "held", "wiped"}]

Configs == [enabled : BOOLEAN, full : BOOLEAN, name : BOOLEAN, allow : BOOLEAN, scope : Scopes]
Cards == [type : {"05", "06"}, asked_for : BOOLEAN, holds : SUBSET {"name", "face", "address"}]

Init ==
  /\ config \in Configs
  /\ card \in Cards
  /\ on_reader = TRUE
  /\ df = "MF"
  /\ at = "start"
  /\ task = "none"
  /\ queue = <<>>
  /\ opened = FALSE
  /\ files = {}
  /\ read_log = {}
  /\ images = [face |-> "empty", name |-> "empty"]
  /\ signature = "none"
  /\ address = "none"
  /\ name = "none"
  /\ result = "none"
-----------------------------------------------------------------------------
\* A failing step's way out: finally, then the result dict or the exception.
Fail(stage) == at' = "finally" /\ result' = stage

Start ==
  /\ at = "start"
  /\ IF config.enabled THEN at' = "challenge" /\ UNCHANGED result
     ELSE at' = "done" /\ result' = "disabled_by_config"
  /\ UNCHANGED <<config_vars, link_vars, task, queue, read_vars, field_vars>>

\* GET CHALLENGE, then MUTUAL AUTHENTICATE: wrong status, wrong length or a MAC or nonce
\* that does not verify ends the read.
Handshake ==
  /\ at \in {"challenge", "mutual"}
  /\ on_reader
  /\ \/ at' = (IF at = "challenge" THEN "mutual" ELSE "verify") /\ UNCHANGED result
     \/ Fail("auth_failed")
  /\ UNCHANGED <<config_vars, link_vars, task, queue, read_vars, field_vars>>

\* VERIFY: the card accepts its own number only.
VerifyNumber ==
  /\ at = "verify"
  /\ on_reader
  /\ \/ /\ card.asked_for
        /\ opened' = TRUE
        /\ task' = "business"
        /\ queue' = Business(card.type)
        /\ at' = "select"
        /\ UNCHANGED result
     \/ /\ Fail(IF card.asked_for THEN "auth_failed" ELSE "wrong_card_number")
        /\ UNCHANGED <<opened, task, queue>>
  /\ UNCHANGED <<config_vars, link_vars, files, read_log, images, field_vars>>
-----------------------------------------------------------------------------
(* read_rc2_file: SELECT the DF, READ BINARY with the expected length, once more without. *)

File == Head(queue)

\* Only the address read, the last one, swallows every exception.
NothingTolerated(t) == FALSE
AnyFileTolerated(t) == t \in {"address", "business"}
Tolerated(t) == t = "address"

Abandon(stage) ==
  IF Tolerated(task) THEN /\ address' = "failed"
                          /\ at' = "name"
                          /\ UNCHANGED result
                     ELSE /\ Fail(stage)
                          /\ UNCHANGED address

\* The DF is selected before every file, whichever was selected before.
SelectsOnce(d) == IF df = "MF" THEN d ELSE df
Selects(d) == d

Select ==
  /\ at = "select"
  /\ on_reader
  /\ \/ /\ at' = "read"
        /\ df' = Selects(Place(card.type, File)[1])
        /\ UNCHANGED <<address, result>>
     \/ /\ Abandon("sm_read_failed")
        /\ UNCHANGED df
  /\ UNCHANGED <<config_vars, on_reader, task, queue, read_vars, signature, name>>

\* READ BINARY addresses a file by its short identifier within the selected DF.
Answered == <<df, Place(card.type, File)[2]>>

\* What follows the last file of a task.
AfterTask ==
  \/ /\ task = "business" /\ ImagesNeeded(config)
     /\ task' = "images" /\ queue' = <<"DF1/EF03">> /\ at' = "select"
  \/ /\ task = "test"
     /\ task' = "address" /\ queue' = <<"DF1/EF04">> /\ at' = "select"
  \/ /\ task = "images" \/ (task = "business" /\ ~ImagesNeeded(config))
     /\ queue' = <<>> /\ at' = "parse" /\ UNCHANGED task
  \/ /\ task = "address"
     /\ queue' = <<>> /\ at' = "address_ocr" /\ UNCHANGED task

\* Only the images' buffers outlive the read of their file.
Kept(i) == IF i \in card.holds THEN "held" ELSE "empty"

GotFile ==
  /\ read_log' = read_log \cup {File}
  /\ files' = IF task = "business" THEN files \cup {<<File, Answered>>} ELSE files
  /\ images' = IF task = "images" THEN [face |-> Kept("face"), name |-> Kept("name")] ELSE images
  /\ IF Len(queue) > 1 THEN queue' = Tail(queue) /\ at' = "select" /\ UNCHANGED task
                       ELSE AfterTask

\* at = "read" asks for the expected length, at = "read_full" for whatever there is.
AskForEver(stage) == at' = "read" /\ UNCHANGED <<address, result>>
GiveUp(stage) == Abandon(stage)

ReadBinary ==
  /\ at \in {"read", "read_full"}
  /\ on_reader
  /\ \/ GotFile /\ UNCHANGED <<address, result>>
     \/ /\ at = "read"
        /\ at' = "read_full"
        /\ UNCHANGED <<task, queue, files, read_log, images, address, result>>
     \/ /\ at = "read_full"
        /\ GiveUp("sm_read_failed")
        /\ UNCHANGED <<task, queue, files, read_log, images>>
     \/ /\ SecureMessaging(card.type, File)
        /\ \E stage \in {"sm_read_failed", "tlv_parse_failed"} : Abandon(stage)
        /\ UNCHANGED <<task, queue, files, read_log, images>>
     \/ /\ task = "images"     \* read, but not a sequence of TLV objects
        /\ read_log' = read_log \cup {File}
        /\ Fail("tlv_parse_failed")
        /\ UNCHANGED <<task, queue, files, images, address>>
  /\ UNCHANGED <<config_vars, link_vars, opened, signature, name>>

\* The card is gone: transmit raises something no clause here names.
Raise ==
  /\ ~on_reader
  /\ \/ /\ at \in {"select", "read", "read_full"}
        /\ Abandon("raised")
     \/ /\ at \in {"challenge", "mutual", "verify"}
        /\ Fail("raised")
        /\ UNCHANGED address
  /\ UNCHANGED <<config_vars, link_vars, task, queue, read_vars, signature, name>>
-----------------------------------------------------------------------------
\* parse_rc2_business_fields, which verifies the signature; then the test scope's reads.
Parse ==
  /\ at = "parse"
  /\ \/ /\ signature' \in Verdict
        /\ at' = "select"
        /\ IF config.scope = "authorized_test_all"
           THEN task' = "test" /\ queue' = AllFiles(card.type)
           ELSE task' = "address" /\ queue' = <<"DF1/EF04">>
        /\ UNCHANGED result
     \/ /\ \E stage \in {"tlv_parse_failed", "raised"} : Fail(stage)
        /\ UNCHANGED <<signature, task, queue>>
  /\ UNCHANGED <<config_vars, link_vars, read_vars, address, name>>

\* The local OCR of the address image; whatever it raises is a status.
AddressOcr ==
  /\ at = "address_ocr"
  /\ address' \in {"failed"} \cup
       (IF "address" \in card.holds THEN {"completed", "unavailable"} ELSE {})
  /\ at' = "name"
  /\ UNCHANGED <<config_vars, link_vars, task, queue, read_vars, signature, name, result>>

NameOcr ==
  /\ at = "name"
  /\ name' \in
       IF ~ImagesNeeded(config) THEN {"blocked_by_privacy_policy"}
       ELSE IF ~config.name THEN {"disabled_by_config"}
       ELSE IF images.name = "empty" THEN {"failed"}
       ELSE {"completed", "unavailable", "failed"}
  /\ at' = "finally"
  /\ result' = "completed"
  /\ UNCHANGED <<config_vars, link_vars, task, queue, read_vars, signature, address>>

\* finally: both buffers are overwritten before any caller sees the result.
Overwritten(b) == IF b = "held" THEN "wiped" ELSE b
OverwriteName(i) == [i EXCEPT !.name = Overwritten(@)]
Overwrite(i) == [face |-> Overwritten(i.face), name |-> Overwritten(i.name)]

Finally ==
  /\ at = "finally"
  /\ images' = Overwrite(images)
  /\ at' = "done"
  /\ UNCHANGED <<config_vars, link_vars, task, queue, opened, files, read_log, field_vars, result>>

\* Staff lift the card at any moment; the connection never sees a card again.
LiftCard ==
  /\ on_reader
  /\ at # "done"
  /\ on_reader' = FALSE
  /\ df' = "none"
  /\ UNCHANGED <<config_vars, at, task, queue, read_vars, field_vars, result>>

Step == Start \/ Handshake \/ VerifyNumber \/ Select \/ ReadBinary \/ Raise
          \/ Parse \/ AddressOcr \/ NameOcr \/ Finally

Next == Step \/ LiftCard

Spec == Init /\ [][Next]_vars

\* The thread that runs the read is scheduled: each exchange returns or raises.
FairSpec == Spec /\ WF_vars(Step)
-----------------------------------------------------------------------------
Stages == {"start", "challenge", "mutual", "verify", "select", "read", "read_full",
           "parse", "address_ocr", "name", "finally", "done"}
Tasks == {"none", "business", "images", "test", "address"}
Results == {"none", "disabled_by_config", "auth_failed", "wrong_card_number", "sm_read_failed",
            "tlv_parse_failed", "raised", "completed"}

\* The state's types: what is queued is a file this card type has.
TypeOK ==
  /\ config \in Configs
  /\ card \in Cards
  /\ on_reader \in BOOLEAN
  /\ df \in {"MF", "none", "DF1", "DF2", "DF3"}
  /\ at \in Stages
  /\ task \in Tasks
  /\ queue \in Seq(Files(card.type))
  /\ opened \in BOOLEAN
  /\ files \subseteq Files(card.type) \X ({"DF1", "DF2", "DF3"} \X (129 .. 134))
  /\ read_log \subseteq Files(card.type)
  /\ images \in Buffers
  /\ signature \in {"none", "skipped", "refused", "verified"}
  /\ address \in {"none", "failed", "unavailable", "completed"}
  /\ name \in {"none", "blocked_by_privacy_policy", "disabled_by_config", "failed",
                "unavailable", "completed"}
  /\ result \in Results

\* No way out of the read, error status, lifted card or parser exception included, leaves
\* an image in its buffer (second_generation_card.py:672 "Overwrite both buffers before any
\* caller sees the result dict").
NoImageSurvives == at = "done" => "held" \notin {images.face, images.name}

\* A read that succeeds has opened the card the number was typed for and has every business
\* file of its type, whenever the card was lifted and whatever failed.
SuccessIsComplete ==
  result = "completed" =>
    /\ opened /\ card.asked_for
    /\ \A i \in 1 .. Len(Business(card.type)) : \E p \in files : p[1] = Business(card.type)[i]

\* A business file's contents are those of its own place on the card: DFs that share short
\* identifiers are never taken for each other.
FilesComeFromTheirPlace == \A p \in files : p[2] = Place(card.type, p[1])

\* Outside the test scope the file with the face image leaves the card only for the signature,
\* or for the name with the operator's consent to a transient face read
\* (_transient_images_are_needed: "the operator has explicitly opted into name OCR").
FaceReadOnlyWhenNeeded ==
  "DF1/EF03" \in read_log =>
    \/ config.full
    \/ config.name /\ config.allow
    \/ config.scope = "authorized_test_all"

\* Once the business files are parsed and the address is due, nothing, a lifted card included,
\* costs the read (second_generation_card.py:475 "chip fields were still read").
AddressNeverCostsTheRead == task = "address" ~> at = "done" /\ result = "completed"

(* The refinement mapping *)
BusinessFiles == {Business(card.type)[i] : i \in DOMAIN Business(card.type)}

Read == INSTANCE CardRead WITH
  CardFiles <- DOMAIN CommonPlaces \cup {"DF2/EF01", "DF2/EF02", "DF2/EF03"},
  phase     <- IF at = "done" THEN "over" ELSE IF opened THEN "open" ELSE "closed",
  asked_for <- card.asked_for,
  wanted    <- BusinessFiles,
  have      <- {p[1] : p \in files},
  holding   <- "held" \in {images.face, images.name},
  outcome   <- IF at # "done" THEN "none" ELSE IF result = "completed" THEN "success" ELSE "failure"

\* Whatever is lifted, refused or cannot be parsed, the read is a CardRead: it ends, in success
\* only with every business file of the card asked for, and without an image in hand.
IsCardRead == Read!Spec

\* ... and a card that keeps answering errors cannot hold it.
ImplementsCardRead == Read!FairSpec
=============================================================================
