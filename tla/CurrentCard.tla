------------------------------ MODULE CurrentCard ------------------------------
(***************************************************************************)
(* reader/residence_card_reader.py, read_residence_card: the two public files, *)
(* the classification of the card, and the read of a first-generation card     *)
(* (type 1 or 2).  A second-generation card is handed to SecondGenerationCard's *)
(* protocol.  An action is one APDU exchange or one local stretch between two   *)
(* of them.  The card may refuse any exchange and may be lifted before any.     *)
(***************************************************************************)
EXTENDS PlainEf, Sequences

CONSTANT Types   \* card type codes considered

ASSUME TypesAssumption == Types \subseteq STRING

VARIABLES
  card,      \* its type, the length form of its public files, whose number was typed, genuine
  on_reader, \* the card still answers this connection
  df, ef,    \* the card's selected DF and current file, a <<DF, short identifier>>
  at,        \* the next step
  task,      \* what is being read
  queue,     \* files still to read for the task, the current one first
  offset,    \* into the plain file being read
  contents,  \* contents[f]: the pieces <<place, first, length>> of plain file f in hand
  touched,   \* history: the protected files and steps the card was asked for
  opened,    \* access control succeeded
  buffers,   \* verify_first_generation_card_signature's copies: "empty", "held" or "wiped"
  ocr,       \* front_ocr_status
  signature, \* signature_metadata
  result     \* the stage of the result, "raised" for an exception, "none" before

link_vars == <<on_reader, df, ef>>
read_vars == <<offset, contents>>
end_vars  == <<ocr, signature, result>>
vars == <<card, link_vars, at, task, queue, read_vars, touched, opened, buffers, end_vars>>

CurrentTypes   == {"1", "2"}
SecondTypes    == {"05", "06"}
SpecifiedTypes == {"07", "08"}

\* classify_card_type
SpecifiedAsCurrent(type) ==
  CASE type \in CurrentTypes \cup SpecifiedTypes -> "current"
    [] type \in SecondTypes                      -> "second_generation"
    [] OTHER                                     -> "unknown"
Classify(type) ==
  CASE type \in CurrentTypes   -> "current"
    [] type \in SecondTypes    -> "second_generation"
    [] type \in SpecifiedTypes -> "specified"
    [] OTHER                   -> "unknown"

\* DF2_FILES and the signature file: their places on the card and their lengths.
PlainFiles ==
  [f \in {"DF2/EF01", "DF2/EF02", "DF2/EF03", "DF2/EF04", "DF3/EF01"} |->
     CASE f = "DF2/EF01" -> [place |-> <<"DF2", 129>>, length |-> 342]
       [] f = "DF2/EF02" -> [place |-> <<"DF2", 130>>, length |-> 122]
       [] f = "DF2/EF03" -> [place |-> <<"DF2", 131>>, length |-> 122]
       [] f = "DF2/EF04" -> [place |-> <<"DF2", 132>>, length |-> 3]
       [] f = "DF3/EF01" -> [place |-> <<"DF3", 130>>, length |-> 1464]]

\* Images are read whole, under secure messaging.
ImageFiles == {"DF1/EF01", "DF1/EF02"}

Tasks == [public    |-> <<"MF/EF01", "MF/EF02">>,
          front     |-> <<"DF1/EF01">>,
          face      |-> <<"DF1/EF02">>,
          signature |-> <<"DF3/EF01">>]

\* read_back_side_fields: permissions and update status are on residence cards only.
Back(type) ==
  IF type = "1" THEN <<"DF2/EF01", "DF2/EF02", "DF2/EF03", "DF2/EF04">> ELSE <<"DF2/EF01">>

SelectedFor(t) ==
  CASE t = "back" -> "DF2" [] t \in {"front", "face"} -> "DF1" [] OTHER -> "DF3"

LengthForms == {"short", "long", "unreasonable"}
Cards == [type : Types, form : LengthForms, asked_for : BOOLEAN, genuine : BOOLEAN]
Copies == {"front", "face", "signature"}

Init ==
  /\ card \in Cards
  /\ on_reader \in BOOLEAN
  /\ df = "MF"
  /\ ef = <<"none", 0>>
  /\ at = "connect"
  /\ task = "public"
  /\ queue = Tasks.public
  /\ offset = 0
  /\ contents = [f \in DOMAIN PlainFiles |-> <<>>]
  /\ touched = {}
  /\ opened = FALSE
  /\ buffers = [b \in Copies |-> "empty"]
  /\ ocr = "none"
  /\ signature = "none"
  /\ result = "none"
-----------------------------------------------------------------------------
File == Head(queue)

\* Only the signature check is isolated: every exception becomes its status.
Isolated(t) == t \in {"face", "signature"}

\* A ResidenceCardReadError gives a result, any other exception leaves read_residence_card.
Fail(stage) == at' = "done" /\ result' = stage

\* wipe(): its finally clause overwrites whatever copies exist.
WipedButFront(b) == [c \in Copies |-> IF b[c] = "held" /\ c # "front" THEN "wiped" ELSE b[c]]
Wiped(b) == [c \in Copies |-> IF b[c] = "held" THEN "wiped" ELSE b[c]]

AbandonUncaught(stage) == Fail(stage) /\ buffers' = Wiped(buffers) /\ UNCHANGED signature
Abandon(stage) ==
  IF Isolated(task)
  THEN /\ signature' = "verification_error"
       /\ buffers' = Wiped(buffers)
       /\ at' = "assemble"
       /\ UNCHANGED result
  ELSE /\ Fail(stage)
       /\ UNCHANGED <<signature, buffers>>

Begin(t, files) == task' = t /\ queue' = files /\ at' = "select" /\ offset' = 0

Connect ==
  /\ at = "connect"
  /\ \/ on_reader /\ at' = "header" /\ UNCHANGED result
     \/ Fail("access_control_failed")
  /\ UNCHANGED <<card, link_vars, task, queue, read_vars, touched, opened, buffers, ocr, signature>>
-----------------------------------------------------------------------------
(* read_short_tlv_file: the header, a long-form length if there is one, the whole object. *)

SameFileAgain == at' = "header" /\ UNCHANGED queue
AfterPublicFile ==
  IF Len(queue) > 1 THEN at' = "header" /\ queue' = Tail(queue)
                    ELSE at' = "classify" /\ queue' = <<>>

ReadPublic ==
  /\ at \in {"header", "prefix", "full"}
  /\ on_reader
  /\ \/ /\ at = "header" /\ card.form = "short"
        /\ at' = "full"
        /\ UNCHANGED <<queue, result>>
     \/ /\ at = "header" /\ card.form # "short"
        /\ at' = "prefix"
        /\ UNCHANGED <<queue, result>>
     \/ /\ at = "prefix" /\ card.form = "long"
        /\ at' = "full"
        /\ UNCHANGED <<queue, result>>
     \/ /\ at = "full"
        /\ AfterPublicFile
        /\ UNCHANGED result
     \/ /\ Fail("access_control_failed")
        /\ UNCHANGED queue
  /\ UNCHANGED <<card, link_vars, task, read_vars, touched, opened, buffers, ocr, signature>>

\* build_card_type_info, then the branch on the generation.
Generation == Classify(card.type)

ClassifyCard ==
  /\ at = "classify"
  /\ \/ Fail("access_control_failed")     \* not the expected tags
     \/ Generation = "current"           /\ at' = "challenge" /\ UNCHANGED result
     \/ Generation = "second_generation" /\ Fail("second_generation")
     \/ Generation = "specified"         /\ Fail("specified_card_blocked_by_policy")
     \/ Generation = "unknown"           /\ Fail("unsupported_card_type")
  /\ UNCHANGED <<card, link_vars, task, queue, read_vars, touched, opened, buffers, ocr, signature>>
-----------------------------------------------------------------------------
(* start_access_control *)

Authenticate ==
  /\ at \in {"challenge", "mutual", "verify"}
  /\ on_reader
  /\ touched' = touched \cup {at}
  /\ \/ /\ at = "challenge"
        /\ at' = "mutual"
        /\ UNCHANGED <<task, queue, offset, opened, result>>
     \/ /\ at = "mutual" /\ card.asked_for    \* the keys derive from the number
        /\ at' = "verify"
        /\ UNCHANGED <<task, queue, offset, opened, result>>
     \/ /\ at = "verify" /\ card.asked_for
        /\ opened' = TRUE
        /\ Begin("back", Back(card.type))
        /\ UNCHANGED result
     \/ /\ Fail("access_control_failed")
        /\ UNCHANGED <<task, queue, offset, opened>>
  /\ UNCHANGED <<card, link_vars, contents, buffers, ocr, signature>>
-----------------------------------------------------------------------------
(* The protected files. *)

Select ==
  /\ at = "select"
  /\ on_reader
  /\ touched' = touched \cup {SelectedFor(task)}
  /\ \/ /\ at' = "read"
        /\ df' = SelectedFor(task)
        /\ ef' = <<"none", 0>>
        /\ UNCHANGED <<buffers, signature, result>>
     \/ /\ Abandon("access_control_failed")
        /\ UNCHANGED <<df, ef>>
  /\ UNCHANGED <<card, on_reader, task, queue, read_vars, opened, ocr>>

\* What follows the last file of a task.
AfterTask ==
  \/ task = "back"      /\ Begin("front", Tasks.front) /\ UNCHANGED buffers
  \/ task = "front"     /\ at' = "ocr" /\ queue' = <<>> /\ UNCHANGED <<task, offset, buffers>>
  \/ task = "face"      /\ Begin("signature", Tasks.signature)
                        /\ buffers' = [buffers EXCEPT !.face = "held"]
  \/ task = "signature" /\ at' = "judge" /\ queue' = <<>>
                        /\ buffers' = [buffers EXCEPT !.signature = "held"]
                        /\ UNCHANGED <<task, offset>>

FileDone ==
  IF Len(queue) > 1 THEN /\ queue' = Tail(queue) /\ offset' = 0
                         /\ UNCHANGED <<at, task, buffers>>
                    ELSE AfterTask

\* One chunk of _read_plain_ef: what is asked, and what a card answers to that.  The file may
\* turn out not to hold TLV objects.
Total == PlainFiles[File].length
Ask == [p1 |-> HighByte(PlainFiles[File].place[2], offset), p2 |-> LowByte(offset),
        le |-> Le(ChunkLength(Total, offset))]
Answered == IF NamesFile(Ask.p1) THEN <<df, Ask.p1>> ELSE ef
Piece == <<Answered, OffsetAsked(Ask.p1, Ask.p2), LengthAsked(Ask.le)>>

StopsEarly(next) == next + ChunkSize >= Total
RunsOver(next) == next > Total
EndOfFile(next) == next >= Total

ReadChunk ==
  /\ at = "read" /\ File \in DOMAIN PlainFiles
  /\ on_reader
  /\ touched' = touched \cup {File}
  /\ \/ /\ ef' = Answered
        /\ contents' = [contents EXCEPT ![File] = Append(@, Piece)]
        /\ LET next == offset + ChunkLength(Total, offset)
           IN  IF EndOfFile(next) THEN FileDone
               ELSE offset' = next /\ UNCHANGED <<at, task, queue, buffers>>
        /\ UNCHANGED <<signature, result>>
     \/ /\ Abandon("access_control_failed")
        /\ UNCHANGED <<ef, contents, task, queue, offset>>
  /\ UNCHANGED <<card, on_reader, df, opened, ocr>>

\* READ BINARY of an image under secure messaging, which may not decrypt or hold the tag.
ReadImage ==
  /\ at = "read" /\ File \in ImageFiles
  /\ on_reader
  /\ touched' = touched \cup {File}
  /\ \/ FileDone /\ UNCHANGED <<signature, result>>
     \/ /\ \E stage \in {"access_control_failed", "raised"} : Abandon(stage)
        /\ UNCHANGED <<task, queue, offset>>
  /\ UNCHANGED <<card, link_vars, contents, opened, ocr>>

\* The card is gone: transmit raises what no clause of read_residence_card names.
Raise ==
  /\ ~on_reader
  /\ at \in {"header", "prefix", "full", "challenge", "mutual", "verify", "select", "read"}
  /\ Abandon("raised")
  /\ UNCHANGED <<card, link_vars, task, queue, read_vars, touched, opened, ocr>>
-----------------------------------------------------------------------------
(* decode_front_image_to_png, segmentation and OCR; then the signature. *)

RecogniseFront ==
  /\ at = "ocr"
  /\ \/ /\ ocr' \in {"completed", "unavailable"}
        /\ Begin("face", Tasks.face)
        /\ buffers' = [buffers EXCEPT !.front = "held"]
        /\ UNCHANGED result
     \/ /\ \E stage \in {"access_control_failed", "raised"} : Fail(stage)
        /\ UNCHANGED <<task, queue, offset, ocr, buffers>>
  /\ UNCHANGED <<card, link_vars, contents, touched, opened, signature>>

\* Contiguous pieces of the file's own place, from its first byte to its last.
Whole(f) ==
  LET p == contents[f]
  IN  /\ p # <<>>
      /\ p[1][2] = 0
      /\ \A i \in DOMAIN p : p[i][1] = PlainFiles[f].place
      /\ \A i \in 1 .. Len(p) - 1 : p[i + 1][2] = p[i][2] + p[i][3]
      /\ p[Len(p)][2] + p[Len(p)][3] = PlainFiles[f].length

\* verify_first_generation_signature_file: a genuine card's signature file verifies.
Verdicts ==
  {"refused", "verification_error"} \cup
  (IF card.genuine /\ Whole("DF3/EF01") THEN {"verified"} ELSE {})

Judge ==
  /\ at = "judge"
  /\ signature' \in Verdicts
  /\ buffers' = Wiped(buffers)
  /\ at' = "assemble"
  /\ UNCHANGED <<card, link_vars, task, queue, read_vars, touched, opened, ocr, result>>

Assemble ==
  /\ at = "assemble"
  /\ Fail("access_control_verified")
  /\ UNCHANGED <<card, link_vars, task, queue, read_vars, touched, opened, buffers, ocr, signature>>

\* Staff lift the card; this connection never sees a card again.
LiftCard ==
  /\ on_reader /\ at # "done"
  /\ on_reader' = FALSE
  /\ df' = "none" /\ ef' = <<"none", 0>>
  /\ UNCHANGED <<card, at, task, queue, read_vars, touched, opened, buffers, end_vars>>

Step == Connect \/ ReadPublic \/ ClassifyCard \/ Authenticate \/ Select \/ ReadChunk
          \/ ReadImage \/ Raise \/ RecogniseFront \/ Judge \/ Assemble

Next == Step \/ LiftCard

Spec == Init /\ [][Next]_vars

\* The reading thread is scheduled: each exchange returns or raises.
FairSpec == Spec /\ WF_vars(Step)
-----------------------------------------------------------------------------
Stages == {"connect", "header", "prefix", "full", "classify", "challenge", "mutual", "verify",
           "select", "read", "ocr", "judge", "assemble", "done"}
Results == {"none", "access_control_failed", "raised", "second_generation",
            "specified_card_blocked_by_policy", "unsupported_card_type", "access_control_verified"}
Places == {PlainFiles[f].place : f \in DOMAIN PlainFiles}

\* The state's types; a plain file is never read from beyond its end.
TypeOK ==
  /\ card \in Cards
  /\ on_reader \in BOOLEAN
  /\ df \in {"MF", "none", "DF1", "DF2", "DF3"}
  /\ ef \in Places \cup {<<"none", 0>>}
  /\ at \in Stages
  /\ task \in {"public", "back", "front", "face", "signature"}
  /\ queue \in Seq(DOMAIN PlainFiles \cup ImageFiles \cup {"MF/EF01", "MF/EF02"})
  /\ offset \in Nat
  /\ at = "read" /\ File \in DOMAIN PlainFiles => offset < Total
  /\ contents \in [DOMAIN PlainFiles -> Seq(Places \X Nat \X Nat)]
  /\ touched \subseteq {"challenge", "mutual", "verify", "DF1", "DF2", "DF3"}
                        \cup DOMAIN PlainFiles \cup ImageFiles
  /\ opened \in BOOLEAN
  /\ buffers \in [Copies -> {"empty", "held", "wiped"}]
  /\ ocr \in {"none", "completed", "unavailable"}
  /\ signature \in {"none", "verified", "refused", "verification_error"}
  /\ result \in Results

\* The chunks of a plain file in hand come from that file, each where the one before ends:
\* later chunks name no file and rely on the card's current one.
ChunksInOrder ==
  \A f \in DOMAIN PlainFiles : \A i \in DOMAIN contents[f] :
    /\ contents[f][i][1] = PlainFiles[f].place
    /\ contents[f][i][2] = IF i = 1 THEN 0 ELSE contents[f][i - 1][2] + contents[f][i - 1][3]

\* The structured files of the card's type.
Structured == {Back(card.type)[i] : i \in DOMAIN Back(card.type)}

\* A read that succeeds has opened the card the number was typed for and has every byte of
\* each structured file of its type, whenever the card was lifted and whatever failed.
SuccessIsComplete ==
  result = "access_control_verified" =>
    /\ opened /\ card.asked_for /\ ocr # "none"
    /\ \A f \in Structured : Whole(f)

\* However the signature check ends, a lifted card included, its copies of the front image, the
\* face image and the signature file are overwritten
\* (verify_first_generation_card_signature: "Do not let ... buffers escape the reader process").
CopiesAreWiped ==
  at \in {"assemble", "done"} => \A b \in Copies : buffers[b] # "held"

\* Nothing but the two public files is ever asked of a specified card (PRIVACY.md: "refused by
\* policy before any such access is attempted") or of an unknown one.
RefusedCardsAreUntouched == card.type \notin CurrentTypes => touched = {}

\* Once the signature check begins, the read succeeds whatever happens to it
\* (read_residence_card: "a failed authenticity check never fails the read").
SignatureNeverCostsTheRead ==
  task = "face" ~> at = "done" /\ result = "access_control_verified"

(* What makes these inductive: where the read stands says what it has done, and the pieces in
   hand and the files still queued together are the structured files. *)
Public == {"connect", "header", "prefix", "full", "classify", "challenge", "mutual", "verify"}
InFile == at \in {"select", "read"}
Queued(f) == \E i \in 1 .. Len(queue) : queue[i] = f

Standing ==
  /\ at \in Public => task = "public" /\ ~opened
  /\ at \notin Public \cup {"done"} => task # "public" /\ opened
  /\ at = "verify" \/ opened => card.asked_for
  /\ at = "ocr" => task = "front"
  /\ at = "judge" => task = "signature"
  /\ at = "assemble" => Isolated(task)
  /\ Isolated(task) => ocr # "none"
  /\ at # "done" => result = "none"

\* The queue of a task, its first file the one the card has selected once a chunk has come.
Queues ==
  /\ InFile /\ task # "back" => queue = Tasks[task]
  /\ InFile /\ task = "back" =>
       /\ queue # <<>>
       /\ \A i, j \in 1 .. Len(queue) : queue[i] = queue[j] => i = j
       /\ \A i \in 1 .. Len(queue) : queue[i] \in Structured
  /\ at = "select" => offset = 0
  /\ at = "read" /\ on_reader =>
       /\ df = SelectedFor(task)
       /\ File \in DOMAIN PlainFiles /\ offset # 0 => ef = PlainFiles[File].place

\* The byte after the last one in hand.
End(f) ==
  IF contents[f] = <<>> THEN 0
  ELSE contents[f][Len(contents[f])][2] + contents[f][Len(contents[f])][3]

Collected ==
  /\ at \in Public => \A f \in DOMAIN PlainFiles : contents[f] = <<>>
  /\ at \notin {"assemble", "done"} /\ task # "signature" => contents["DF3/EF01"] = <<>>
  /\ InFile /\ File \in DOMAIN PlainFiles => End(File) = offset
  /\ InFile /\ task = "back" => \A i \in 2 .. Len(queue) : contents[queue[i]] = <<>>
  /\ at \notin Public \cup {"done"} =>
       \A f \in Structured : Whole(f) \/ (InFile /\ task = "back" /\ Queued(f))

\* The inductive invariant, whose parts the proofs use.
IInv ==
  /\ TypeOK
  /\ ChunksInOrder
  /\ SuccessIsComplete
  /\ Standing
  /\ Queues
  /\ Collected

(* The refinement mapping *)
Read == INSTANCE CardRead WITH
  CardFiles <- DOMAIN PlainFiles,
  phase     <- IF at = "done" THEN "over" ELSE IF opened THEN "open" ELSE "closed",
  asked_for <- card.asked_for,
  wanted    <- Structured,
  have      <- {f \in DOMAIN PlainFiles : Whole(f)},
  holding   <- \E b \in Copies : buffers[b] = "held",
  outcome   <- IF at # "done" THEN "none"
               ELSE IF result = "access_control_verified" THEN "success"
               ELSE IF result = "second_generation" THEN "handed_over" ELSE "failure"

\* Whatever is lifted, refused or raised, the read is a CardRead: it ends, in success only with
\* every byte of the structured files of the card asked for, and without a copy of an image.
IsCardRead == Read!Spec

\* ... and a card that keeps answering errors cannot hold it.
ImplementsCardRead == Read!FairSpec
=============================================================================
