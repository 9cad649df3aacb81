--------------------------- MODULE CurrentCardProofs ---------------------------
(***************************************************************************)
(* First-generation reads, for every card and every failure: a chunk's two     *)
(* parameter bytes mean the offset they were made from, up to the 32 KiB that   *)
(* seven high bits can name; chunks come from their own file, in order and      *)
(* without a gap; a success has every byte of the structured files; the         *)
(* signature check's copies are overwritten; a card of another generation is    *)
(* asked for its public files only; the signature check never costs the rest;   *)
(* and the read is bounded and keeps the contract of CardRead.                  *)
(***************************************************************************)
EXTENDS CurrentCard, SequenceTheorems, TLAPS

\* The two bytes an offset below 32768 is split into.
LEMMA TwoBytes ==
  ASSUME NEW n \in Nat, n < 32768
  PROVE  /\ n \div 256 \in Nat /\ n \div 256 < 128
         /\ n % 256 \in Nat
         /\ 256 * (n \div 256) + (n % 256) = n
  OBVIOUS

\* The mask to seven bits leaves a byte below 128 as it is.
LEMMA SevenBits ==
  ASSUME NEW n \in Nat, n < 128
  PROVE  n % 128 = n
  OBVIOUS

\* The first chunk names its file and starts at its first byte (_read_plain_ef, offset 0).
LEMMA FirstChunk ==
  ASSUME NEW sfi \in Nat, sfi >= 128
  PROVE  /\ NamesFile(HighByte(sfi, 0))
         /\ HighByte(sfi, 0) = sfi
         /\ OffsetAsked(HighByte(sfi, 0), LowByte(0)) = 0
  BY DEF NamesFile, HighByte, LowByte, OffsetAsked

\* A later chunk names no file and the card takes its parameters for the very offset meant,
\* which the mask to seven bits guarantees below 32768 only.
THEOREM LaterChunks ==
  ASSUME NEW sfi \in Nat, NEW n \in Nat, 0 < n, n < 32768
  PROVE  /\ ~NamesFile(HighByte(sfi, n))
         /\ OffsetAsked(HighByte(sfi, n), LowByte(n)) = n
<1>1. HighByte(sfi, n) = n \div 256 /\ LowByte(n) = n % 256
  BY TwoBytes, SevenBits DEF HighByte, LowByte
<1>2. ~NamesFile(n \div 256)
  BY TwoBytes DEF NamesFile
<1> QED
  BY <1>1, <1>2, TwoBytes DEF OffsetAsked

\* Le asks for exactly the chunk, 256 bytes as 0 included.
THEOREM ChunkIsAskedInFull ==
  ASSUME NEW total \in Nat, NEW o \in Nat, o < total
  PROVE  /\ ChunkLength(total, o) \in 1 .. 256
         /\ o + ChunkLength(total, o) <= total
         /\ LengthAsked(Le(ChunkLength(total, o))) = ChunkLength(total, o)
<1>1. ChunkLength(total, o) \in 1 .. 256 /\ o + ChunkLength(total, o) <= total
  BY DEF ChunkLength, ChunkSize
<1>2. \A n \in 1 .. 256 : LengthAsked(Le(n)) = n
  BY DEF LengthAsked, Le
<1> QED
  BY <1>1, <1>2
-----------------------------------------------------------------------------
Allowed == {"connect", "header", "prefix", "full", "classify", "done"}

Untouched == card.type \notin CurrentTypes => touched = {} /\ at \in Allowed

\* Copies exist only between the OCR and the verdict.
Copied ==
  /\ buffers \in [Copies -> {"empty", "held", "wiped"}]
  /\ at \in Public => task = "public"
  /\ at = "ocr" => task = "front"
  /\ ~Isolated(task) \/ at \in {"assemble", "done"} => \A b \in Copies : buffers[b] # "held"

Apart == Untouched /\ Copied

USE DEF link_vars, read_vars, end_vars

\* The initial states satisfy the invariant.
LEMMA InitOK == Init => Apart
  BY DEF Init, Apart, Untouched, Copied, Public, Allowed, Isolated

\* Overwriting leaves nothing held.
LEMMA WipedOK ==
  ASSUME Copied
  PROVE  /\ Wiped(buffers) \in [Copies -> {"empty", "held", "wiped"}]
         /\ \A b \in Copies : Wiped(buffers)[b] # "held"
  BY DEF Copied, Wiped

\* A failing step leaves the signature check with its status, or the read.
LEMMA AbandonOK ==
  ASSUME Copied, NEW stage, Abandon(stage), at \notin {"assemble", "done"}, task' = task
  PROVE  Copied' /\ at' \in {"assemble", "done"}
<1>1. CASE Isolated(task)
  BY <1>1, WipedOK DEF Abandon, Copied, Public, Isolated
<1>2. CASE ~Isolated(task)
  BY <1>2 DEF Abandon, Fail, Copied, Public, Isolated
<1> QED
  BY <1>1, <1>2

\* What follows a file keeps the copies apart.
LEMMA FileDoneOK ==
  ASSUME Copied, FileDone, at = "read"
  PROVE  Copied'
<1>1. CASE UNCHANGED <<at, task, buffers>>
  BY <1>1 DEF Copied
<1>2. CASE AfterTask
  <2>1. CASE task = "back"
    BY <1>2, <2>1 DEF AfterTask, Begin, Copied, Public, Isolated
  <2>2. CASE task = "front"
    BY <1>2, <2>2 DEF AfterTask, Begin, Copied, Public, Isolated
  <2>3. CASE task = "face"
    BY <1>2, <2>3 DEF AfterTask, Begin, Copied, Public, Isolated, Copies
  <2>4. CASE task = "signature"
    BY <1>2, <2>4 DEF AfterTask, Begin, Copied, Public, Isolated, Copies
  <2> QED
    BY <1>2, <2>1, <2>2, <2>3, <2>4 DEF AfterTask
<1> QED
  BY <1>1, <1>2 DEF FileDone

\* Every step keeps the copies apart.
LEMMA CopiedStep == Copied /\ [Next]_vars => Copied'
<1> SUFFICES ASSUME Copied, [Next]_vars PROVE Copied'
  OBVIOUS
<1>1. CASE Connect
  BY <1>1 DEF Connect, Fail, Copied, Public, Isolated
<1>2. CASE ReadPublic
  BY <1>2 DEF ReadPublic, AfterPublicFile, Fail, Copied, Public, Isolated
<1>3. CASE ClassifyCard
  BY <1>3 DEF ClassifyCard, Fail, Copied, Public, Isolated
<1>4. CASE Authenticate
  BY <1>4 DEF Authenticate, Begin, Fail, Copied, Public, Isolated
<1>5. CASE Select
  <2>1. CASE UNCHANGED buffers /\ at' = "read"
    BY <1>5, <2>1 DEF Select, Copied, Public, Isolated
  <2>2. CASE Abandon("access_control_failed")
    BY <1>5, <2>2, AbandonOK DEF Select
  <2> QED
    BY <1>5, <2>1, <2>2 DEF Select
<1>6. CASE ReadChunk
  <2>1. CASE FileDone
    BY <1>6, <2>1, FileDoneOK DEF ReadChunk
  <2>2. CASE Abandon("access_control_failed") /\ UNCHANGED task
    BY <1>6, <2>2, AbandonOK DEF ReadChunk
  <2>3. CASE UNCHANGED <<at, task, queue, buffers>>
    BY <2>3 DEF Copied
  <2> QED
    BY <1>6, <2>1, <2>2, <2>3 DEF ReadChunk
<1>7. CASE ReadImage
  <2>1. CASE FileDone
    BY <1>7, <2>1, FileDoneOK DEF ReadImage
  <2>2. CASE UNCHANGED task /\ \E stage \in {"access_control_failed", "raised"} : Abandon(stage)
    BY <1>7, <2>2, AbandonOK DEF ReadImage
  <2> QED
    BY <1>7, <2>1, <2>2 DEF ReadImage
<1>8. CASE Raise
  BY <1>8, AbandonOK DEF Raise
<1>9. CASE RecogniseFront
  <2>1. CASE Begin("face", Tasks.face) /\ buffers' = [buffers EXCEPT !.front = "held"]
    BY <1>9, <2>1 DEF Begin, Copied, Public, Isolated, Copies
  <2>2. CASE UNCHANGED <<task, buffers>> /\ at' = "done"
    BY <1>9, <2>2 DEF RecogniseFront, Copied, Public, Isolated
  <2> QED
    BY <1>9, <2>1, <2>2 DEF RecogniseFront, Fail
<1>10. CASE Judge
  BY <1>10, WipedOK DEF Judge, Copied, Public
<1>11. CASE Assemble
  BY <1>11 DEF Assemble, Fail, Copied, Public, Isolated
<1>12. CASE LiftCard
  BY <1>12 DEF LiftCard, Copied
<1>13. CASE UNCHANGED vars
  BY <1>13 DEF vars, Copied
<1> QED
  BY <1>1, <1>2, <1>3, <1>4, <1>5, <1>6, <1>7, <1>8, <1>9, <1>10, <1>11, <1>12, <1>13
     DEF Next, Step

\* Every step leaves a card of another generation alone.
LEMMA UntouchedStep == Apart /\ [Next]_vars => Untouched'
<1>0. [Next]_vars => UNCHANGED card
  BY DEF Next, Step, vars, Connect, ReadPublic, ClassifyCard, Authenticate, Select, ReadChunk,
         ReadImage, Raise, RecogniseFront, Judge, Assemble, LiftCard
<1> SUFFICES ASSUME Apart, [Next]_vars, card.type \notin CurrentTypes
             PROVE  touched' = {} /\ at' \in Allowed
  BY <1>0 DEF Untouched
<1> USE DEF Apart, Untouched, Allowed
<1>1. CASE Connect
  BY <1>1 DEF Connect, Fail
<1>2. CASE ReadPublic
  BY <1>2 DEF ReadPublic, AfterPublicFile, Fail
<1>3. CASE ClassifyCard
  BY <1>3 DEF ClassifyCard, Generation, Classify, Fail, SecondTypes, SpecifiedTypes, CurrentTypes
<1>4. CASE Raise
  BY <1>4 DEF Raise, Abandon, Isolated, Fail, Copied, Public
<1>5. CASE LiftCard
  BY <1>5 DEF LiftCard
<1>6. CASE UNCHANGED vars
  BY <1>6 DEF vars
<1> QED
  BY <1>1, <1>2, <1>3, <1>4, <1>5, <1>6
     DEF Next, Step, Authenticate, Select, ReadChunk, ReadImage, RecogniseFront, Judge, Assemble

\* The invariant holds throughout.
LEMMA ApartInvariant == Spec => []Apart
<1>1. Apart /\ [Next]_vars => Apart'
  BY CopiedStep, UntouchedStep DEF Apart
<1> QED
  BY InitOK, <1>1, PTL DEF Spec

\* No copy of an image or of the signature file outlives the signature check.
THEOREM CopiesOverwritten == Spec => []CopiesAreWiped
<1>1. Apart => CopiesAreWiped
  BY DEF Apart, Copied, CopiesAreWiped
<1> QED
  BY <1>1, ApartInvariant, PTL

\* Nothing protected is asked of a card that is not a first-generation one.
THEOREM RefusedUntouched == Spec => []RefusedCardsAreUntouched
<1>1. Apart => RefusedCardsAreUntouched
  BY DEF Apart, Untouched, RefusedCardsAreUntouched
<1> QED
  BY <1>1, ApartInvariant, PTL
-----------------------------------------------------------------------------
(* The chunks and the files. *)

FileNames == DOMAIN PlainFiles \cup ImageFiles \cup {"MF/EF01", "MF/EF02"}
Chunks == Places \X Nat \X Nat

\* Every plain file has a place of its own, an identifier that P1 can name, and a length.
LEMMA FileFacts ==
  ASSUME NEW f \in DOMAIN PlainFiles
  PROVE  /\ PlainFiles[f].place \in Places
         /\ PlainFiles[f].place[2] \in 129 .. 132
         /\ PlainFiles[f].place = <<PlainFiles[f].place[1], PlainFiles[f].place[2]>>
         /\ PlainFiles[f].place[1] = IF f = "DF3/EF01" THEN "DF3" ELSE "DF2"
         /\ PlainFiles[f].length \in 1 .. 1464
<1>1. PlainFiles[f].place \in Places
  BY DEF Places
<1>2. f \in {"DF2/EF01", "DF2/EF02", "DF2/EF03", "DF2/EF04", "DF3/EF01"}
  BY DEF PlainFiles
<1> QED
  BY <1>1, <1>2 DEF PlainFiles

\* The structured files are plain files of DF2, each once.
LEMMA BackFacts ==
  ASSUME NEW type
  PROVE  /\ Back(type) \in Seq(DOMAIN PlainFiles \ {"DF3/EF01"})
         /\ Len(Back(type)) > 0
         /\ DOMAIN Back(type) = 1 .. Len(Back(type))
         /\ \A i, j \in 1 .. Len(Back(type)) : Back(type)[i] = Back(type)[j] => i = j
<1>1. DOMAIN PlainFiles = {"DF2/EF01", "DF2/EF02", "DF2/EF03", "DF2/EF04", "DF3/EF01"}
  BY DEF PlainFiles
<1>2. CASE type = "1"
  BY <1>1, <1>2 DEF Back
<1>3. CASE type # "1"
  BY <1>1, <1>3 DEF Back
<1> QED
  BY <1>2, <1>3

\* The structured files are those of the list, and never the signature file.
LEMMA StructuredFacts ==
  Structured = {Back(card.type)[i] : i \in 1 .. Len(Back(card.type))}
    /\ Structured \subseteq DOMAIN PlainFiles \ {"DF3/EF01"}
  BY BackFacts DEF Structured

\* Pieces that make a file whole, in any state.
WholeOf(p, f) ==
  /\ p # <<>>
  /\ p[1][2] = 0
  /\ \A i \in DOMAIN p : p[i][1] = PlainFiles[f].place
  /\ \A i \in 1 .. Len(p) - 1 : p[i + 1][2] = p[i][2] + p[i][3]
  /\ p[Len(p)][2] + p[Len(p)][3] = PlainFiles[f].length

InOrder(p, f) ==
  \A i \in DOMAIN p :
    /\ p[i][1] = PlainFiles[f].place
    /\ p[i][2] = IF i = 1 THEN 0 ELSE p[i - 1][2] + p[i - 1][3]

EndOf(p) == IF p = <<>> THEN 0 ELSE p[Len(p)][2] + p[Len(p)][3]

\* Pieces in order that end where the file ends are the whole file.
LEMMA WholeWhenEnded ==
  ASSUME NEW f \in DOMAIN PlainFiles, NEW p \in Seq(Chunks), InOrder(p, f),
         NEW n \in Nat, n > 0, EndOf(p) = n, PlainFiles[f].length = n
  PROVE  WholeOf(p, f)
<1>1. p # <<>>
  <2>1. p = <<>> => EndOf(p) = 0
    BY Zenon DEF EndOf
  <2> QED
    BY <2>1
<1>2. Len(p) \in Nat /\ Len(p) > 0 /\ DOMAIN p = 1 .. Len(p)
  BY <1>1, EmptySeq, LenProperties
<1>3. p[1][2] = 0
  BY <1>2 DEF InOrder
<1>4. \A i \in 1 .. Len(p) - 1 : p[i + 1][2] = p[i][2] + p[i][3]
  BY <1>2 DEF InOrder
<1> QED
  BY <1>1, <1>3, <1>4 DEF WholeOf, InOrder, EndOf

\* A piece that starts where the others end keeps them in order and moves the end.
LEMMA OnePieceMore ==
  ASSUME NEW f \in DOMAIN PlainFiles, NEW p \in Seq(Chunks), InOrder(p, f),
         NEW n \in Nat, NEW place \in Places, place = PlainFiles[f].place
  PROVE  LET q == Append(p, <<place, EndOf(p), n>>)
         IN  EndOf(p) \in Nat => /\ q \in Seq(Chunks)
                                 /\ InOrder(q, f)
                                 /\ EndOf(q) = EndOf(p) + n
<1> SUFFICES ASSUME EndOf(p) \in Nat
             PROVE  /\ Append(p, <<place, EndOf(p), n>>) \in Seq(Chunks)
                    /\ InOrder(Append(p, <<place, EndOf(p), n>>), f)
                    /\ EndOf(Append(p, <<place, EndOf(p), n>>)) = EndOf(p) + n
  OBVIOUS
<1> DEFINE e == <<place, EndOf(p), n>>
           q == Append(p, e)
<1>0. e \in Chunks /\ e[1] = place /\ e[2] = EndOf(p) /\ e[3] = n
  BY DEF Chunks
<1> HIDE DEF e
<1>1. /\ q \in Seq(Chunks) /\ Len(q) = Len(p) + 1 /\ Len(p) \in Nat /\ DOMAIN q = 1 .. Len(q)
      /\ DOMAIN p = 1 .. Len(p)
      /\ \A i \in 1 .. Len(p) : q[i] = p[i]
      /\ q[Len(q)] = e
  BY <1>0, AppendProperties, LenProperties
<1>2. q # <<>>
  BY <1>1, EmptySeq
<1>3. Len(p) = 0 <=> p = <<>>
  BY EmptySeq
<1> HIDE DEF q
<1>4. InOrder(q, f)
  <2> SUFFICES ASSUME NEW i \in DOMAIN q
               PROVE  /\ q[i][1] = PlainFiles[f].place
                      /\ q[i][2] = IF i = 1 THEN 0 ELSE q[i - 1][2] + q[i - 1][3]
    BY DEF InOrder
  <2>1. CASE i = Len(q)
    <3>1. q[i][1] = PlainFiles[f].place /\ q[i][2] = EndOf(p)
      BY <1>0, <1>1, <2>1
    <3>2. CASE i = 1
      BY <1>1, <1>3, <2>1, <3>1, <3>2 DEF EndOf
    <3>3. CASE i # 1
      <4>1. i - 1 = Len(p) /\ Len(p) \in 1 .. Len(p)
        BY <1>1, <2>1, <3>3
      <4>2. p # <<>> /\ q[i - 1] = p[Len(p)]
        BY <1>1, <1>3, <4>1
      <4> QED
        BY <3>1, <3>3, <4>2 DEF EndOf
    <3> QED
      BY <3>2, <3>3
  <2>2. CASE i # Len(q)
    <3>1. i \in 1 .. Len(p) /\ (i # 1 => i - 1 \in 1 .. Len(p))
      BY <1>1, <2>2
    <3>2. q[i] = p[i] /\ (i # 1 => q[i - 1] = p[i - 1])
      BY <1>1, <3>1
    <3> QED
      BY <1>1, <3>1, <3>2 DEF InOrder
  <2> QED
    BY <2>1, <2>2
<1>5. EndOf(q) = EndOf(p) + n
  BY <1>0, <1>1, <1>2 DEF EndOf
<1> QED
  BY <1>1, <1>4, <1>5 DEF q, e
-----------------------------------------------------------------------------
(* Each chunk is its file's next piece. *)

\* The files of a task are those of the DF selected for it.
LEMMA TaskFacts ==
  ASSUME IInv, InFile
  PROVE  /\ task \in {"back", "front", "face", "signature"}
         /\ queue \in Seq(FileNames) /\ queue # <<>>
         /\ File \in FileNames
         /\ task = "back" => File \in Structured
         /\ task = "front" => File = "DF1/EF01"
         /\ task = "face" => File = "DF1/EF02"
         /\ task = "signature" => File = "DF3/EF01"
         /\ File \in DOMAIN PlainFiles => PlainFiles[File].place[1] = SelectedFor(task)
<1>1. task \in {"back", "front", "face", "signature"}
  BY DEF IInv, TypeOK, Standing, InFile, Public
<1>2. queue \in Seq(FileNames)
  BY DEF IInv, TypeOK, FileNames
<1>3. queue # <<>>
  <2>1. CASE task = "back"
    BY <2>1 DEF IInv, Queues
  <2>2. CASE task # "back"
    BY <1>1, <2>2 DEF IInv, Queues, Tasks
  <2> QED
    BY <2>1, <2>2
<1>4. File \in FileNames /\ File = queue[1] /\ 1 \in 1 .. Len(queue)
  <2>1. Len(queue) \in Nat /\ Len(queue) # 0
    BY <1>2, <1>3, EmptySeq, LenProperties
  <2> QED
    BY <1>2, <1>3, <2>1, HeadTailProperties, ElementOfSeq DEF File
<1>5. task = "back" => File \in Structured
  BY <1>4 DEF IInv, Queues
<1>6. /\ task = "front" => File = "DF1/EF01"
      /\ task = "face" => File = "DF1/EF02"
      /\ task = "signature" => File = "DF3/EF01"
  BY <1>4 DEF IInv, Queues, Tasks
<1>7. DOMAIN PlainFiles = {"DF2/EF01", "DF2/EF02", "DF2/EF03", "DF2/EF04", "DF3/EF01"}
  BY DEF PlainFiles
<1>8. File \in DOMAIN PlainFiles => PlainFiles[File].place[1] = SelectedFor(task)
  <2>1. CASE task = "back"
    BY <1>5, <2>1, StructuredFacts, FileFacts DEF SelectedFor
  <2>2. CASE task = "signature"
    <3>1. File = "DF3/EF01" /\ SelectedFor(task) = "DF3"
      BY <1>6, <2>2 DEF SelectedFor
    <3>2. PlainFiles["DF3/EF01"].place[1] = "DF3"
      BY DEF PlainFiles
    <3> QED
      BY <3>1, <3>2
  <2>3. CASE task \in {"front", "face"}
    BY <1>6, <1>7, <2>3
  <2> QED
    BY <1>1, <2>1, <2>2, <2>3
<1> QED
  BY <1>1, <1>2, <1>3, <1>4, <1>5, <1>6, <1>8

\* What a card answers to a chunk: the file's own bytes, from where the last ones ended.
LEMMA PieceFacts ==
  ASSUME IInv, at = "read", on_reader, File \in DOMAIN PlainFiles
  PROVE  /\ Total \in 1 .. 1464
         /\ offset \in Nat
         /\ Answered = PlainFiles[File].place
         /\ ChunkLength(Total, offset) \in 1 .. 256
         /\ offset + ChunkLength(Total, offset) \in 1 .. Total
         /\ Piece = <<PlainFiles[File].place, offset, ChunkLength(Total, offset)>>
<1> DEFINE place == PlainFiles[File].place
           n == ChunkLength(Total, offset)
<1>1. Total \in 1 .. 1464
  BY FileFacts DEF Total
<1>2. place[2] \in 129 .. 132 /\ place = <<place[1], place[2]>>
  BY FileFacts
<1>3. offset \in Nat /\ offset < Total
  BY DEF IInv, TypeOK
<1>4. place[1] = df /\ (offset # 0 => ef = place)
  BY TaskFacts DEF IInv, Queues, InFile
<1> HIDE DEF place
<1>5. n \in 1 .. 256 /\ offset + n <= Total /\ LengthAsked(Le(n)) = n
  <2>1. Total \in Nat
    BY <1>1
  <2> QED
    BY <1>3, <2>1, ChunkIsAskedInFull
<1>6. Ask.p1 = HighByte(place[2], offset) /\ Ask.p2 = LowByte(offset) /\ Ask.le = Le(n)
  BY DEF Ask, place
<1>7. Answered = place /\ OffsetAsked(Ask.p1, Ask.p2) = offset
  <2>1. CASE offset = 0
    BY <1>2, <1>4, <1>6, <2>1, FirstChunk DEF Answered
  <2>2. CASE offset # 0
    <3>1. offset > 0 /\ offset < 32768
      BY <1>1, <1>3, <2>2
    <3>2. place[2] \in Nat
      BY <1>2
    <3>3. /\ ~NamesFile(HighByte(place[2], offset))
          /\ OffsetAsked(HighByte(place[2], offset), LowByte(offset)) = offset
      BY <1>3, <3>1, <3>2, LaterChunks
    <3> QED
      BY <1>4, <1>6, <2>2, <3>3 DEF Answered
  <2> QED
    BY <2>1, <2>2
<1>8. Piece = <<place, offset, n>>
  BY <1>5, <1>6, <1>7 DEF Piece
<1>9. offset + n \in 1 .. Total
  BY <1>1, <1>3, <1>5
<1> QED
  BY <1>1, <1>3, <1>5, <1>7, <1>8, <1>9 DEF place

Stored == contents' = [contents EXCEPT ![File] = Append(@, Piece)]

\* A chunk leaves every file in order, ends its own further on and leaves the others alone.
LEMMA ChunkStored ==
  ASSUME IInv, at = "read", on_reader, File \in DOMAIN PlainFiles,
         Stored
  PROVE  /\ contents' \in [DOMAIN PlainFiles -> Seq(Chunks)]
         /\ \A f \in DOMAIN PlainFiles : InOrder(contents'[f], f)
         /\ EndOf(contents'[File]) = offset + ChunkLength(Total, offset)
         /\ \A f \in DOMAIN PlainFiles \ {File} : contents'[f] = contents[f]
<1>1. contents \in [DOMAIN PlainFiles -> Seq(Chunks)]
  BY DEF IInv, TypeOK, Chunks
<1>2. \A f \in DOMAIN PlainFiles : InOrder(contents[f], f)
  BY DEF IInv, ChunksInOrder, InOrder
<1>3. EndOf(contents[File]) = offset
  BY DEF IInv, Collected, InFile, End, EndOf
<1> DEFINE n == ChunkLength(Total, offset)
<1>4. n \in 1 .. 256 /\ Piece = <<PlainFiles[File].place, offset, n>>
  BY PieceFacts
<1> HIDE DEF n
<1>5. offset \in Nat /\ n \in Nat /\ PlainFiles[File].place \in Places
  <2>1. offset \in Nat
    BY DEF IInv, TypeOK
  <2>2. n \in Nat
    BY <1>4
  <2>3. PlainFiles[File].place \in Places
    BY DEF Places
  <2> QED
    BY <2>1, <2>2, <2>3
<1> DEFINE q == Append(contents[File], <<PlainFiles[File].place, EndOf(contents[File]), n>>)
<1>6. q \in Seq(Chunks) /\ InOrder(q, File) /\ EndOf(q) = EndOf(contents[File]) + n
  BY <1>1, <1>2, <1>3, <1>5, OnePieceMore
<1>7. contents' = [contents EXCEPT ![File] = q]
  BY <1>1, <1>3, <1>4 DEF Stored
<1> HIDE DEF q
<1>8. contents'[File] = q /\ \A f \in DOMAIN PlainFiles \ {File} : contents'[f] = contents[f]
  BY <1>1, <1>7
<1>9. contents' \in [DOMAIN PlainFiles -> Seq(Chunks)]
  BY <1>1, <1>6, <1>7
<1>10. \A f \in DOMAIN PlainFiles : InOrder(contents'[f], f)
  BY <1>2, <1>6, <1>8
<1> QED
  BY <1>3, <1>6, <1>8, <1>9, <1>10 DEF n
-----------------------------------------------------------------------------
(* Every step keeps the invariant. *)

Touchable == {"challenge", "mutual", "verify", "DF1", "DF2", "DF3"}
               \cup DOMAIN PlainFiles \cup ImageFiles

\* Nothing that is said of files changes while card and pieces stay.
LEMMA SameFiles ==
  ASSUME UNCHANGED <<card, contents>>
  PROVE  /\ Structured' = Structured
         /\ \A f : (Whole(f)' <=> Whole(f)) /\ End(f)' = End(f)
         /\ ChunksInOrder' <=> ChunksInOrder
  BY DEF Structured, Whole, End, ChunksInOrder

\* The initial states satisfy the invariant.
LEMMA InitInv == Init => IInv
<1> SUFFICES ASSUME Init PROVE IInv
  OBVIOUS
<1> USE DEF Init
<1>1. queue \in Seq(FileNames)
  BY DEF Tasks, FileNames
<1>2. contents \in [DOMAIN PlainFiles -> Seq(Chunks)] /\ \A f \in DOMAIN PlainFiles : contents[f] = <<>>
  OBVIOUS
<1>3. TypeOK
  BY <1>1, <1>2 DEF TypeOK, FileNames, Chunks, Stages, Results
<1>4. ChunksInOrder
  BY <1>2 DEF ChunksInOrder
<1>5. Standing /\ Queues /\ SuccessIsComplete
  BY DEF Standing, Queues, SuccessIsComplete, Public, InFile, Isolated
<1>6. Collected
  <2>1. "DF3/EF01" \in DOMAIN PlainFiles
    BY DEF PlainFiles
  <2> QED
    BY <1>2, <2>1 DEF Collected, Public, InFile
<1> QED
  BY <1>3, <1>4, <1>5, <1>6 DEF IInv

\* The steps before the card is opened.
LEMMA StayPublic ==
  ASSUME IInv, at \in Public, at' \in Public \cup {"done"},
         UNCHANGED <<card, on_reader, df, ef, task, contents, opened, buffers, ocr, signature>>,
         queue' \in Seq(FileNames), offset' \in Nat, touched' \subseteq Touchable,
         result' \in Results \ {"access_control_verified"},
         at' # "done" => result' = "none",
         at' = "verify" => card.asked_for
  PROVE  IInv'
<1>1. TypeOK'
  BY DEF IInv, TypeOK, Cards, Public, Stages, FileNames, Touchable, Places
<1>2. ChunksInOrder' /\ SuccessIsComplete'
  BY SameFiles DEF IInv, SuccessIsComplete
<1>3. Standing'
  BY DEF IInv, Standing, Public, Isolated
<1>4. Queues'
  BY DEF Queues, InFile, Public
<1>5. Collected'
  BY DEF IInv, Collected, Standing, InFile, Public
<1> QED
  BY <1>1, <1>2, <1>3, <1>4, <1>5 DEF IInv

\* The ways out: of the read, or of the signature check to its end.
LEMMA Leave ==
  ASSUME IInv, at # "done", at' \in {"assemble", "done"},
         UNCHANGED <<card, task, queue, offset, contents, opened, ocr>>,
         on_reader' \in BOOLEAN,
         df' \in {"MF", "none", "DF1", "DF2", "DF3"}, ef' \in Places \cup {<<"none", 0>>},
         touched' \subseteq Touchable,
         buffers' \in [Copies -> {"empty", "held", "wiped"}],
         signature' \in {"none", "verified", "refused", "verification_error"},
         result' \in Results,
         at' = "assemble" => Isolated(task) /\ UNCHANGED result,
         result' = "access_control_verified" => at = "assemble"
  PROVE  IInv'
<1>1. TypeOK'
  BY DEF IInv, TypeOK, Cards, Stages, FileNames, Touchable, Places
<1>2. ChunksInOrder'
  BY SameFiles DEF IInv
<1>3. Isolated(task) /\ at \notin Public => opened /\ card.asked_for /\ ocr # "none"
  BY DEF IInv, Standing
<1>4. Isolated(task) => at \notin Public
  BY DEF IInv, Standing, Isolated
<1>5. Isolated(task) => \A f \in Structured : Whole(f)
  BY <1>4 DEF IInv, Collected, Isolated
<1>6. SuccessIsComplete'
  BY <1>3, <1>4, <1>5, SameFiles DEF IInv, Standing, SuccessIsComplete
<1>7. Standing'
  BY <1>3, <1>4 DEF IInv, Standing, Public, Isolated
<1>8. Queues'
  BY DEF Queues, InFile
<1>9. Collected'
  BY <1>5, SameFiles DEF Collected, InFile, Public
<1> QED
  BY <1>1, <1>2, <1>6, <1>7, <1>8, <1>9 DEF IInv

\* A failing step is one of them.
LEMMA AbandonLeaves ==
  ASSUME IInv, at # "done", at # "assemble", NEW stage \in Results \ {"access_control_verified"},
         Abandon(stage),
         UNCHANGED <<card, on_reader, task, queue, offset, contents, opened, ocr>>,
         UNCHANGED <<df, ef>>, touched' \subseteq Touchable
  PROVE  IInv'
<1>1. /\ at' \in {"assemble", "done"}
      /\ at' = "assemble" => Isolated(task) /\ UNCHANGED result
      /\ result' \in {stage, result}
      /\ signature' \in {"none", "verified", "refused", "verification_error"}
  BY DEF Abandon, Fail, IInv, TypeOK
<1>2. buffers' \in [Copies -> {"empty", "held", "wiped"}]
  BY DEF Abandon, Wiped, IInv, TypeOK
<1>3. result' \in Results /\ result' # "access_control_verified"
  BY <1>1 DEF IInv, TypeOK, Standing
<1> QED
  BY <1>1, <1>2, <1>3, Leave DEF IInv, TypeOK

\* The steps up to the classification, and the refusals of the access control.
LEMMA PublicSteps ==
  ASSUME IInv, Connect \/ ReadPublic \/ ClassifyCard \/ (Authenticate /\ at' # "select")
  PROVE  IInv'
<1> USE DEF FileNames, Touchable
<1>0. /\ at # "done" /\ at \in Public /\ offset \in Nat /\ touched \subseteq Touchable
      /\ queue \in Seq(FileNames) /\ result \in Results /\ result = "none"
  BY DEF IInv, TypeOK, Standing, Connect, ReadPublic, ClassifyCard, Authenticate, Public
<1>1. CASE Connect
  BY <1>0, <1>1, StayPublic DEF Connect, Fail, Public, Results
<1>2. CASE ReadPublic
  <2>1. queue' \in Seq(FileNames)
    <3>1. CASE UNCHANGED queue
      BY <1>0, <3>1
    <3>2. CASE queue' = <<>>
      BY <3>2
    <3>3. CASE Len(queue) > 1 /\ queue' = Tail(queue)
      <4>1. queue # <<>>
        BY <3>3
      <4> QED
        BY <1>0, <3>3, <4>1, HeadTailProperties
    <3> QED
      BY <1>2, <3>1, <3>2, <3>3 DEF ReadPublic, AfterPublicFile
  <2>2. at' \in {"header", "prefix", "full", "classify", "done"}
        /\ (at' # "done" => result' = "none")
        /\ result' \in {"none", "access_control_failed"}
    BY <1>0, <1>2 DEF ReadPublic, AfterPublicFile, Fail
  <2> QED
    BY <1>0, <1>2, <2>1, <2>2, StayPublic DEF ReadPublic, Public, Results
<1>3. CASE ClassifyCard
  BY <1>0, <1>3, StayPublic DEF ClassifyCard, Fail, Public, Results
<1>4. CASE Authenticate /\ at' # "select"
  <2>1. at \in {"challenge", "mutual", "verify"}
    BY <1>4 DEF Authenticate
  <2>2. /\ at' \in {"mutual", "verify", "done"} /\ (at' = "verify" => card.asked_for)
        /\ (at' # "done" => result' = "none")
        /\ result' \in {"none", "access_control_failed"}
        /\ UNCHANGED <<task, queue, offset, opened>>
    BY <1>0, <1>4 DEF Authenticate, Begin, Fail
  <2> QED
    BY <1>0, <1>4, <2>1, <2>2, StayPublic DEF Authenticate, Public, Results
<1> QED
  BY <1>1, <1>2, <1>3, <1>4

\* "DF3/EF01" is no structured file.
LEMMA SignatureFile == "DF3/EF01" \in DOMAIN PlainFiles /\ "DF3/EF01" \notin Structured
  BY StructuredFacts DEF PlainFiles

\* Whole and End speak of the pieces alone.
LEMMA FilePieces ==
  \A f : /\ Whole(f) <=> WholeOf(contents[f], f)
         /\ Whole(f)' <=> WholeOf(contents'[f], f)
         /\ End(f) = EndOf(contents[f])
         /\ End(f)' = EndOf(contents'[f])
  BY DEF Whole, WholeOf, End, EndOf

\* The other tasks read one file each.
LEMMA TaskQueues ==
  ASSUME NEW t \in {"front", "face", "signature"}
  PROVE  /\ Tasks[t] \in Seq(FileNames) /\ Len(Tasks[t]) = 1
         /\ Tasks[t][1] \in {"DF1/EF01", "DF1/EF02", "DF3/EF01"}
<1>1. {"DF1/EF01", "DF1/EF02", "DF3/EF01"} \subseteq FileNames
  BY DEF FileNames, ImageFiles, PlainFiles
<1>2. CASE t = "front"
  BY <1>1, <1>2 DEF Tasks
<1>3. CASE t = "face"
  BY <1>1, <1>3 DEF Tasks
<1>4. CASE t = "signature"
  BY <1>1, <1>4 DEF Tasks
<1> QED
  BY <1>2, <1>3, <1>4

\* A task begins once those before it are done.
LEMMA BeginOK ==
  ASSUME IInv, at # "done", NEW t \in {"back", "front", "face", "signature"},
         Begin(t, IF t = "back" THEN Back(card.type) ELSE Tasks[t]),
         UNCHANGED <<card, on_reader, df, result>>,
         card.asked_for, opened' = TRUE,
         Isolated(t) => ocr' # "none",
         ef' \in Places \cup {<<"none", 0>>}, ocr' \in {"none", "completed", "unavailable"},
         touched' \subseteq Touchable, signature' = signature,
         buffers' \in [Copies -> {"empty", "held", "wiped"}],
         contents' \in [DOMAIN PlainFiles -> Seq(Chunks)], ChunksInOrder',
         contents'["DF3/EF01"] = <<>>,
         t = "back" => \A f \in DOMAIN PlainFiles : contents'[f] = <<>>,
         t # "back" => \A f \in Structured : WholeOf(contents'[f], f)
  PROVE  IInv'
<1> DEFINE q == IF t = "back" THEN Back(card.type) ELSE Tasks[t]
<1>1. /\ at' = "select" /\ task' = t /\ queue' = q /\ offset' = 0 /\ result' = "none"
      /\ Structured' = Structured
  BY DEF Begin, IInv, Standing, Structured
<1>2. t # "back" => q \in Seq(FileNames) /\ Len(q) = 1 /\ q[1] \in {"DF1/EF01", "DF1/EF02", "DF3/EF01"}
  BY TaskQueues
<1>3. t = "back" => /\ q \in Seq(FileNames) /\ Len(q) > 0 /\ q # <<>>
                    /\ \A i, j \in 1 .. Len(q) : q[i] = q[j] => i = j
                    /\ \A i \in 1 .. Len(q) : q[i] \in Structured
                    /\ \A f \in Structured : \E i \in 1 .. Len(q) : q[i] = f
  <2> SUFFICES ASSUME t = "back"
               PROVE  /\ q \in Seq(FileNames) /\ Len(q) > 0 /\ q # <<>>
                      /\ \A i, j \in 1 .. Len(q) : q[i] = q[j] => i = j
                      /\ \A i \in 1 .. Len(q) : q[i] \in Structured
                      /\ \A f \in Structured : \E i \in 1 .. Len(q) : q[i] = f
    OBVIOUS
  <2>1. q = Back(card.type)
    OBVIOUS
  <2>2. /\ q \in Seq(DOMAIN PlainFiles \ {"DF3/EF01"}) /\ Len(q) > 0
        /\ \A i, j \in 1 .. Len(q) : q[i] = q[j] => i = j
    BY <2>1, BackFacts
  <2> HIDE DEF q
  <2>3. q \in Seq(FileNames)
    BY <2>2 DEF FileNames
  <2>4. Structured = {q[i] : i \in 1 .. Len(q)}
    BY <2>1, StructuredFacts
  <2>5. q # <<>>
    BY <2>2
  <2> QED
    BY <2>2, <2>3, <2>4, <2>5
<1> HIDE DEF q
<1>4. queue' \in Seq(FileNames)
  BY <1>1, <1>2, <1>3
<1>5. TypeOK'
  BY <1>1, <1>4 DEF IInv, TypeOK, Cards, Stages, FileNames, Touchable, Places, Chunks, Results
<1>6. Standing'
  BY <1>1 DEF Standing, Public, Isolated
<1>7. SuccessIsComplete'
  BY <1>1 DEF SuccessIsComplete
<1>8. Queues'
  BY <1>1, <1>3 DEF Queues, InFile, q
<1>9. Collected'
  <2>1. File' \in DOMAIN PlainFiles => contents'[File'] = <<>>
    <3>1. CASE t = "back"
      BY <3>1
    <3>2. CASE t # "back"
      <4>1. File' = q[1]
        BY <1>1, <1>2, <3>2, HeadTailProperties DEF File
      <4> QED
        BY <1>2, <3>2, <4>1 DEF PlainFiles
    <3> QED
      BY <3>1, <3>2
  <2>2. File' \in DOMAIN PlainFiles => End(File)' = offset'
    BY <1>1, <2>1 DEF End
  <2>3. task' = "back" => \A i \in 2 .. Len(queue') : contents'[queue'[i]] = <<>>
    <3> SUFFICES ASSUME t = "back", NEW i \in 2 .. Len(queue') PROVE contents'[queue'[i]] = <<>>
      BY <1>1
    <3>1. i \in 1 .. Len(q)
      BY <1>1
    <3>2. q[i] \in Structured
      BY <1>3, <3>1
    <3> QED
      BY <1>1, <3>2, StructuredFacts
  <2>4. \A f \in Structured : Whole(f)' \/ (InFile' /\ task' = "back" /\ Queued(f)')
    BY <1>1, <1>3, FilePieces DEF InFile, Queued
  <2> QED
    BY <1>1, <2>2, <2>3, <2>4 DEF Collected, Public
<1> QED
  BY <1>5, <1>6, <1>7, <1>8, <1>9 DEF IInv

\* The card accepts the number, and the structured files are due.
LEMMA VerifyBegins == ASSUME IInv, Authenticate, at' = "select" PROVE IInv'
<1>1. /\ at = "verify" /\ card.asked_for /\ opened' = TRUE /\ Begin("back", Back(card.type))
      /\ UNCHANGED <<card, on_reader, df, ef, contents, buffers, ocr, signature, result>>
      /\ touched' = touched \cup {"verify"}
  BY DEF Authenticate, Fail
<1>2. \A f \in DOMAIN PlainFiles : contents'[f] = <<>>
  BY <1>1 DEF IInv, Collected, Public
<1>3. ChunksInOrder'
  BY <1>1, SameFiles DEF IInv
<1> QED
  BY <1>1, <1>2, <1>3, SignatureFile, BeginOK DEF IInv, TypeOK, Touchable, Chunks, Isolated

\* The files of the task's DF can be asked for.
LEMMA SelectOK == ASSUME IInv, Select PROVE IInv'
<1>0. InFile /\ task \in {"back", "front", "face", "signature"} /\ offset = 0
  BY TaskFacts DEF Select, InFile, IInv, Queues
<1>1. touched' \subseteq Touchable
  BY <1>0 DEF Select, IInv, TypeOK, Touchable, SelectedFor
<1>2. CASE at' = "read" /\ UNCHANGED <<buffers, signature, result>>
  <2>1. /\ UNCHANGED <<card, on_reader, task, queue, offset, contents, opened, ocr, File, InFile>>
        /\ df' = SelectedFor(task) /\ ef' = <<"none", 0>>
    BY <1>0, <1>2 DEF Select, Abandon, Fail, File, InFile
  <2>2. TypeOK'
    <3>1. df' \in {"MF", "none", "DF1", "DF2", "DF3"}
      BY <1>0, <2>1 DEF SelectedFor
    <3>2. File' \in DOMAIN PlainFiles => offset' < Total'
      BY <1>0, <2>1, FileFacts, SMTT(60) DEF Total
    <3> QED
      BY <1>1, <1>2, <2>1, <3>1, <3>2, SMTT(60) DEF IInv, TypeOK, Cards, Stages, Touchable, Places
  <2>3. ChunksInOrder' /\ SuccessIsComplete'
    BY <1>2, <2>1, SameFiles DEF IInv, SuccessIsComplete
  <2>4. Standing' /\ Queues'
    BY <1>0, <1>2, <2>1 DEF IInv, Standing, Queues, Public, Isolated, Structured, InFile
  <2>5. Collected'
    BY <1>0, <1>2, <2>1, SameFiles DEF IInv, Collected, Public, Queued, InFile
  <2> QED
    BY <2>2, <2>3, <2>4, <2>5 DEF IInv
<1>3. CASE Abandon("access_control_failed") /\ UNCHANGED <<df, ef>>
  BY <1>1, <1>3, AbandonLeaves DEF Select, Results
<1> QED
  BY <1>2, <1>3 DEF Select

\* Lifting the card changes nothing that was read.
LEMMA LiftOK == ASSUME IInv, LiftCard PROVE IInv'
<1>1. /\ UNCHANGED <<card, at, task, queue, offset, contents, touched, opened, buffers, ocr,
                     signature, result, File, InFile, Structured, Total>>
      /\ on_reader' = FALSE /\ df' = "none" /\ ef' = <<"none", 0>>
  BY DEF LiftCard, File, InFile, Structured, Total
<1>2. TypeOK'
  BY <1>1, ZenonT(60) DEF IInv, TypeOK, Cards, Places
<1>3. Standing' /\ Queues'
  BY <1>1 DEF IInv, Standing, Queues, Isolated
<1>4. ChunksInOrder' /\ SuccessIsComplete' /\ Collected'
  BY <1>1, SameFiles DEF IInv, SuccessIsComplete, Collected, Queued
<1> QED
  BY <1>2, <1>3, <1>4 DEF IInv

\* Nothing at all happens.
LEMMA StutterOK == ASSUME IInv, UNCHANGED vars PROVE IInv'
<1>1. UNCHANGED <<card, on_reader, df, ef, at, task, queue, offset, contents, touched, opened,
                  buffers, ocr, signature, result, File, InFile, Structured, Total>>
  BY DEF vars, File, InFile, Structured, Total
<1>2. TypeOK'
  BY <1>1 DEF IInv, TypeOK, Cards, Places
<1>3. Standing' /\ Queues'
  BY <1>1 DEF IInv, Standing, Queues, Isolated
<1>4. ChunksInOrder' /\ SuccessIsComplete' /\ Collected'
  BY <1>1, SameFiles DEF IInv, SuccessIsComplete, Collected, Queued
<1> QED
  BY <1>2, <1>3, <1>4 DEF IInv

\* What a stored chunk leaves true, whichever file comes next.
LEMMA ChunkFacts ==
  ASSUME IInv, at = "read", on_reader, File \in DOMAIN PlainFiles, UNCHANGED card,
         Stored
  PROVE  LET next == offset + ChunkLength(Total, offset)
         IN  /\ contents' \in [DOMAIN PlainFiles -> Seq(Chunks)]
             /\ ChunksInOrder'
             /\ Structured' = Structured
             /\ next \in 1 .. Total
             /\ EndOf(contents'[File]) = next
             /\ next = Total => WholeOf(contents'[File], File)
             /\ \A f \in DOMAIN PlainFiles \ {File} :
                  /\ contents'[f] = contents[f]
                  /\ Whole(f)' <=> Whole(f)
             /\ ~Whole(File)
<1> DEFINE next == offset + ChunkLength(Total, offset)
<1>1. /\ contents' \in [DOMAIN PlainFiles -> Seq(Chunks)]
      /\ \A f \in DOMAIN PlainFiles : InOrder(contents'[f], f)
      /\ EndOf(contents'[File]) = next
      /\ \A f \in DOMAIN PlainFiles \ {File} : contents'[f] = contents[f]
  BY ChunkStored
<1>2. Total \in 1 .. 1464 /\ offset \in Nat
  BY PieceFacts
<1>3. next \in 1 .. Total
  BY PieceFacts
<1>4. offset < Total
  BY DEF IInv, TypeOK
<1> HIDE DEF next
<1>5. ChunksInOrder'
  BY <1>1 DEF ChunksInOrder, InOrder
<1>6. next = Total => WholeOf(contents'[File], File)
  <2>1. next \in Nat /\ next > 0
    BY <1>2, <1>3
  <2>2. contents'[File] \in Seq(Chunks) /\ InOrder(contents'[File], File)
    BY <1>1
  <2>3. Total = PlainFiles[File].length
    BY DEF Total
  <2> QED
    BY <1>1, <2>1, <2>2, <2>3, WholeWhenEnded
<1>7. \A f \in DOMAIN PlainFiles \ {File} : Whole(f)' <=> Whole(f)
  BY <1>1, FilePieces
<1>8. ~Whole(File)
  <2> SUFFICES ASSUME Whole(File) PROVE FALSE
    OBVIOUS
  <2>1. contents[File] # <<>>
        /\ contents[File][Len(contents[File])][2] + contents[File][Len(contents[File])][3] = Total
    BY DEF Whole, Total
  <2>2. End(File) = Total
    BY <2>1 DEF End
  <2>3. End(File) = offset
    BY DEF IInv, Collected, InFile
  <2> QED
    BY <1>2, <1>4, <2>2, <2>3
<1> QED
  BY <1>1, <1>3, <1>5, <1>6, <1>7, <1>8 DEF next, Structured

\* A later chunk of the same file is due.
LEMMA SameFileOK ==
  ASSUME IInv, ReadChunk, offset' = offset + ChunkLength(Total, offset),
         ef' = Answered, Stored,
         offset' # Total, UNCHANGED <<at, task, queue, buffers, signature, result>>
  PROVE  IInv'
<1>1. /\ at = "read" /\ on_reader /\ File \in DOMAIN PlainFiles
      /\ UNCHANGED <<card, on_reader, df, opened, ocr>>
      /\ touched' = touched \cup {File}
  BY DEF ReadChunk
<1>2. /\ contents' \in [DOMAIN PlainFiles -> Seq(Chunks)]
      /\ ChunksInOrder' /\ Structured' = Structured
      /\ offset' \in 1 .. Total
      /\ EndOf(contents'[File]) = offset'
      /\ \A f \in DOMAIN PlainFiles \ {File} :
           contents'[f] = contents[f] /\ (Whole(f)' <=> Whole(f))
      /\ ~Whole(File)
  BY <1>1, ChunkFacts
<1>3. ef' = PlainFiles[File].place /\ Total \in 1 .. 1464
  BY <1>1, PieceFacts
<1>4. File' = File /\ Total' = Total
  BY DEF File, Total
<1>5. /\ task \in {"back", "signature"} /\ queue # <<>> /\ queue \in Seq(FileNames)
      /\ task = "back" => File \in Structured
      /\ task = "signature" => File = "DF3/EF01"
  <2>1. "DF1/EF01" \notin DOMAIN PlainFiles /\ "DF1/EF02" \notin DOMAIN PlainFiles
    BY DEF PlainFiles
  <2> QED
    BY <1>1, <2>1, TaskFacts DEF InFile
<1>6. TypeOK'
  <2>1. ef' \in Places
    BY <1>1, <1>3, FileFacts
  <2>2. offset' < Total /\ offset' \in Nat
    BY <1>2, <1>3
  <2> QED
    BY <1>1, <1>2, <1>4, <2>1, <2>2, ZenonT(60) DEF IInv, TypeOK, Cards, Chunks
<1>7. Standing' /\ SuccessIsComplete'
  BY <1>1 DEF IInv, Standing, SuccessIsComplete, Public, Isolated
<1>8. Queues'
  BY <1>1, <1>2, <1>3, <1>4 DEF IInv, Queues, InFile
<1>9. Collected'
  <2>1. End(File)' = offset'
    BY <1>2, <1>4, FilePieces
  <2>2. task # "signature" => contents'["DF3/EF01"] = <<>>
    BY <1>1, <1>2, <1>5, SignatureFile DEF IInv, Collected
  <2>3. task = "back" => \A i \in 2 .. Len(queue) : contents'[queue[i]] = <<>>
    <3> SUFFICES ASSUME task = "back", NEW i \in 2 .. Len(queue) PROVE contents'[queue[i]] = <<>>
      OBVIOUS
    <3>1. Len(queue) \in Nat /\ i \in 1 .. Len(queue) /\ 1 \in 1 .. Len(queue) /\ i # 1
      BY <1>5, LenProperties
    <3>2. queue[i] # queue[1] /\ queue[i] \in Structured
      BY <1>1, <3>1 DEF IInv, Queues, InFile
    <3>3. File = queue[1]
      BY <1>5, HeadTailProperties DEF File
    <3>4. contents[queue[i]] = <<>>
      BY <1>1 DEF IInv, Collected, InFile
    <3> QED
      BY <1>2, <3>2, <3>3, <3>4, StructuredFacts
  <2>4. \A f \in Structured : Whole(f)' \/ (InFile' /\ task' = "back" /\ Queued(f)')
    <3> SUFFICES ASSUME NEW f \in Structured PROVE Whole(f)' \/ (task = "back" /\ Queued(f))
      BY <1>1 DEF InFile, Queued
    <3>1. Whole(f) \/ (task = "back" /\ Queued(f))
      BY <1>1 DEF IInv, Collected, Public
    <3>2. f \in DOMAIN PlainFiles /\ (f = File => ~Whole(f))
      BY <1>2, StructuredFacts
    <3> QED
      BY <1>2, <3>1, <3>2
  <2>5. at' = "read" /\ InFile'
    BY <1>1 DEF InFile
  <2> QED
    BY <1>2, <1>4, <1>5, <2>1, <2>2, <2>3, <2>4, <2>5 DEF Collected, Public
<1> QED
  BY <1>2, <1>6, <1>7, <1>8, <1>9 DEF IInv

\* The chunk that reaches the end of the file makes it whole.
LEMMA EndsWhole ==
  ASSUME IInv, at = "read", on_reader, File \in DOMAIN PlainFiles, UNCHANGED card, Stored,
         EndOfFile(offset + ChunkLength(Total, offset))
  PROVE  WholeOf(contents'[File], File)
<1>1. /\ Total \in 1 .. 1464
      /\ offset + ChunkLength(Total, offset) \in 1 .. Total
  BY PieceFacts
<1>2. offset + ChunkLength(Total, offset) = Total
  BY <1>1 DEF EndOfFile
<1> QED
  BY <1>2, ChunkFacts

\* Every file has a byte to read.
LEMMA NoFileIsEmpty == \A f \in DOMAIN PlainFiles : 0 < PlainFiles[f].length
<1> SUFFICES ASSUME NEW f \in DOMAIN PlainFiles PROVE 0 < PlainFiles[f].length
  OBVIOUS
<1>1. PlainFiles[f].length \in 1 .. 1464
  BY FileFacts
<1> QED
  BY <1>1, SMTT(30)

\* A queue with something in it is not the empty one.
LEMMA LongIsSome == \A q : Len(q) > 0 => q # <<>>
  OBVIOUS

\* The next structured file is due, with the card still in its DF.
LEMMA NextFileOK ==
  ASSUME IInv, at = "read", on_reader, File \in DOMAIN PlainFiles,
         EndOfFile(offset + ChunkLength(Total, offset)),
         Len(queue) > 1, queue' = Tail(queue), offset' = 0, ef' = Answered,
         Stored,
         touched' = touched \cup {File},
         UNCHANGED <<card, on_reader, df, at, task, opened, buffers, ocr, signature, result>>
  PROVE  IInv'
<1>1. /\ contents' \in [DOMAIN PlainFiles -> Seq(Chunks)]
      /\ ChunksInOrder' /\ Structured' = Structured
      /\ WholeOf(contents'[File], File)
      /\ \A f \in DOMAIN PlainFiles \ {File} :
           contents'[f] = contents[f] /\ (Whole(f)' <=> Whole(f))
  BY EndsWhole, ChunkFacts
<1>2. /\ task \in {"back", "front", "face", "signature"}
      /\ queue \in Seq(FileNames) /\ queue # <<>>
  BY TaskFacts DEF InFile
<1>3. task = "back"
  <2> SUFFICES ASSUME task # "back" PROVE FALSE
    OBVIOUS
  <2>1. queue = Tasks[task] /\ task \in {"front", "face", "signature"}
    BY <1>2 DEF IInv, Queues, InFile
  <2>2. Len(queue) = 1
    BY <2>1, TaskQueues
  <2> QED
    BY <2>2
<1>4. /\ Len(queue) \in Nat /\ Len(Tail(queue)) = Len(queue) - 1
      /\ Tail(queue) \in Seq(FileNames) /\ File = queue[1]
      /\ \A i \in 1 .. Len(Tail(queue)) : Tail(queue)[i] = queue[i + 1]
  BY <1>2, HeadTailProperties, LenProperties DEF File
<1>5. /\ \A i, j \in 1 .. Len(queue) : queue[i] = queue[j] => i = j
      /\ \A i \in 1 .. Len(queue) : queue[i] \in Structured
  BY <1>3 DEF IInv, Queues, InFile
<1> DEFINE q == Tail(queue)
<1>6. /\ q \in Seq(FileNames) /\ Len(q) \in Nat /\ Len(q) > 0 /\ q # <<>>
      /\ \A i \in 1 .. Len(q) : i + 1 \in 1 .. Len(queue) /\ q[i] = queue[i + 1]
  <2>1. Len(q) \in Nat /\ Len(q) > 0
    BY <1>4
  <2>2. q # <<>>
    BY <2>1, LongIsSome, Zenon
  <2>3. \A i \in 1 .. Len(q) : i + 1 \in 1 .. Len(queue)
    BY <1>4
  <2> QED
    BY <1>4, <2>1, <2>2, <2>3
<1> HIDE DEF q
<1>7. queue' = q
  BY DEF q
<1>8. /\ \A i \in 1 .. Len(q) : q[i] \in Structured \ {File}
      /\ \A i, j \in 1 .. Len(q) : q[i] = q[j] => i = j
  <2>1. \A i \in 1 .. Len(q) : q[i] \in Structured /\ q[i] # queue[1]
    <3> SUFFICES ASSUME NEW i \in 1 .. Len(q) PROVE q[i] \in Structured /\ q[i] # queue[1]
      OBVIOUS
    <3>1. i + 1 \in 1 .. Len(queue) /\ i + 1 # 1 /\ 1 \in 1 .. Len(queue)
      BY <1>4, <1>6
    <3> QED
      BY <1>5, <1>6, <3>1
  <2>2. \A i, j \in 1 .. Len(q) : q[i] = q[j] => i = j
    <3> SUFFICES ASSUME NEW i \in 1 .. Len(q), NEW j \in 1 .. Len(q), q[i] = q[j] PROVE i = j
      OBVIOUS
    <3>1. i + 1 = j + 1
      BY <1>5, <1>6
    <3> QED
      BY <1>6, <3>1
  <2> QED
    BY <1>4, <2>1, <2>2
<1>9. \A i \in 1 .. Len(q) : contents'[q[i]] = <<>>
  <2> SUFFICES ASSUME NEW i \in 1 .. Len(q) PROVE contents'[q[i]] = <<>>
    OBVIOUS
  <2>1. i + 1 \in 2 .. Len(queue)
    BY <1>4, <1>6
  <2>2. contents[queue[i + 1]] = <<>>
    BY <1>3, <2>1 DEF IInv, Collected, InFile
  <2> QED
    BY <1>1, <1>6, <1>8, <2>2, StructuredFacts
<1>10. File' = q[1] /\ File' \in Structured /\ contents'[File'] = <<>> /\ 1 \in 1 .. Len(q)
  <2>1. File' = q[1] /\ 1 \in 1 .. Len(q)
    BY <1>6, <1>7, HeadTailProperties DEF File
  <2> QED
    BY <1>8, <1>9, <2>1
<1>11. TypeOK'
  <2>1. ef' \in Places
    BY PieceFacts DEF Places
  <2>2. offset' < Total'
    <3>1. PICK f \in DOMAIN PlainFiles : f = File'
      BY <1>10, StructuredFacts
    <3>2. 0 < PlainFiles[f].length
      BY NoFileIsEmpty, Zenon
    <3>3. Total' = PlainFiles[f].length
      BY <3>1 DEF Total
    <3> QED
      BY <3>2, <3>3, Zenon
  <2>3. touched' \subseteq Touchable
    BY DEF IInv, TypeOK, Touchable
  <2>4. queue' \in Seq(FileNames)
    BY <1>6, <1>7
  <2>5. contents' \in [DOMAIN PlainFiles -> Seq(Chunks)] /\ offset' \in Nat
    BY <1>1
  <2> QED
    BY <2>1, <2>2, <2>3, <2>4, <2>5 DEF IInv, TypeOK, Cards, Chunks, FileNames, Touchable
<1>12. Standing' /\ SuccessIsComplete'
  BY DEF IInv, Standing, SuccessIsComplete, Public, Isolated
<1>13. Queues'
  BY <1>1, <1>3, <1>6, <1>7, <1>8 DEF IInv, Queues, InFile
<1>14. Collected'
  <2>1. End(File)' = offset'
    BY <1>10, FilePieces DEF EndOf
  <2>2. contents'["DF3/EF01"] = <<>>
    <3>1. contents["DF3/EF01"] = <<>>
      BY <1>3 DEF IInv, Collected
    <3>2. File \in Structured
      BY <1>3, TaskFacts DEF InFile
    <3> QED
      BY <1>1, <3>1, <3>2, SignatureFile
  <2>3. \A i \in 2 .. Len(queue') : contents'[queue'[i]] = <<>>
    <3>1. \A i \in 2 .. Len(q) : i \in 1 .. Len(q)
      BY <1>6
    <3> QED
      BY <1>7, <1>9, <3>1
  <2>4. \A f \in Structured : Whole(f)' \/ Queued(f)'
    <3> SUFFICES ASSUME NEW f \in Structured, f # File PROVE Whole(f)' \/ Queued(f)'
      BY <1>1, FilePieces
    <3>1. Whole(f) \/ Queued(f)
      BY DEF IInv, Collected, Public
    <3>2. CASE Whole(f)
      BY <1>1, <3>2, StructuredFacts
    <3>3. CASE Queued(f)
      <4>1. PICK i \in 1 .. Len(queue) : queue[i] = f
        BY <3>3 DEF Queued
      <4>2. i - 1 \in 1 .. Len(q) /\ (i - 1) + 1 = i
        BY <1>4, <4>1 DEF q
      <4>3. q[i - 1] = f
        BY <1>6, <4>1, <4>2
      <4> QED
        BY <1>7, <4>2, <4>3 DEF Queued
    <3> QED
      BY <3>1, <3>2, <3>3
  <2>5. InFile' /\ at' = "read" /\ task' = "back" /\ offset' = 0
    BY <1>3 DEF InFile
  <2> QED
    BY <1>1, <2>1, <2>2, <2>3, <2>4, <2>5 DEF Collected, Public
<1> QED
  BY <1>1, <1>11, <1>12, <1>13, <1>14 DEF IInv

\* The front image goes to the OCR, the signature file to the verdict.
LEMMA GoOn ==
  ASSUME IInv, InFile, queue' = <<>>,
         (at' = "ocr" /\ task = "front") \/ (at' = "judge" /\ task = "signature"),
         UNCHANGED <<card, on_reader, df, task, offset, opened, ocr, signature, result>>,
         ef' \in Places \cup {<<"none", 0>>}, touched' \subseteq Touchable,
         buffers' \in [Copies -> {"empty", "held", "wiped"}],
         contents' \in [DOMAIN PlainFiles -> Seq(Chunks)], ChunksInOrder',
         task = "front" => contents'["DF3/EF01"] = <<>>,
         \A f \in Structured : WholeOf(contents'[f], f)
  PROVE  IInv'
<1>1. TypeOK'
  <2>1. queue' \in Seq(FileNames)
    OBVIOUS
  <2> QED
    BY <2>1 DEF IInv, TypeOK, Cards, Stages, FileNames, Touchable, Chunks
<1>2. Standing'
  BY DEF IInv, Standing, Public, Isolated, InFile
<1>3. Queues' /\ SuccessIsComplete'
  BY DEF IInv, Queues, SuccessIsComplete, Standing, InFile
<1>4. Collected'
  <2>1. Structured' = Structured
    BY DEF Structured
  <2>2. \A f \in Structured : Whole(f)'
    BY FilePieces
  <2> QED
    BY <2>1, <2>2 DEF Collected, InFile, Public
<1> QED
  BY <1>1, <1>2, <1>3, <1>4 DEF IInv

\* A chunk: more of the file, the next file, the next task, or a way out.
LEMMA ReadChunkOK == ASSUME IInv, ReadChunk PROVE IInv'
<1>0. /\ at = "read" /\ on_reader /\ File \in DOMAIN PlainFiles /\ InFile
      /\ UNCHANGED <<card, on_reader, df, opened, ocr>>
      /\ touched' = touched \cup {File} /\ touched' \subseteq Touchable
  BY DEF ReadChunk, InFile, IInv, TypeOK, Touchable
<1>1. CASE Abandon("access_control_failed") /\ UNCHANGED <<ef, contents, task, queue, offset>>
  BY <1>0, <1>1, AbandonLeaves DEF Results
<1>2. CASE ~(Abandon("access_control_failed") /\ UNCHANGED <<ef, contents, task, queue, offset>>)
  <2>1. /\ Stored /\ ef' = Answered /\ UNCHANGED <<signature, result>>
        /\ IF EndOfFile(offset + ChunkLength(Total, offset)) THEN FileDone
           ELSE /\ offset' = offset + ChunkLength(Total, offset)
                /\ UNCHANGED <<at, task, queue, buffers>>
    BY <1>2 DEF ReadChunk, Stored
  <2>2. CASE ~EndOfFile(offset + ChunkLength(Total, offset))
    <3>1. Total \in 1 .. 1464 /\ offset + ChunkLength(Total, offset) \in 1 .. Total
      BY <1>0, PieceFacts
    <3>2. offset + ChunkLength(Total, offset) # Total
      BY <2>2, <3>1 DEF EndOfFile
    <3> QED
      BY <2>1, <2>2, <3>2, SameFileOK
  <2>3. CASE EndOfFile(offset + ChunkLength(Total, offset)) /\ Len(queue) > 1
    <3>1. queue' = Tail(queue) /\ offset' = 0 /\ UNCHANGED <<at, task, buffers>>
      BY <2>1, <2>3 DEF FileDone
    <3> QED
      BY <1>0, <2>1, <2>3, <3>1, NextFileOK
  <2>4. CASE EndOfFile(offset + ChunkLength(Total, offset)) /\ ~(Len(queue) > 1)
    <3>1. AfterTask
      BY <2>1, <2>4 DEF FileDone
    <3>2. /\ contents' \in [DOMAIN PlainFiles -> Seq(Chunks)]
          /\ ChunksInOrder' /\ WholeOf(contents'[File], File)
          /\ \A f \in DOMAIN PlainFiles \ {File} :
               contents'[f] = contents[f] /\ (Whole(f)' <=> Whole(f))
      BY <1>0, <2>1, <2>4, EndsWhole, ChunkFacts
    <3>3. /\ task \in {"back", "signature"} /\ opened /\ card.asked_for /\ result = "none"
          /\ queue \in Seq(FileNames) /\ queue # <<>>
          /\ task = "back" => File \in Structured
      <4>1. "DF1/EF01" \notin DOMAIN PlainFiles /\ "DF1/EF02" \notin DOMAIN PlainFiles
        BY DEF PlainFiles
      <4> QED
        BY <1>0, <4>1, TaskFacts DEF IInv, Standing, Public
    <3>4. \A f \in Structured : WholeOf(contents'[f], f)
      <4> SUFFICES ASSUME NEW f \in Structured, f # File PROVE Whole(f)'
        BY <3>2, FilePieces
      <4>1. Whole(f) \/ Queued(f)
        BY <1>0 DEF IInv, Collected, Public
      <4>2. ~Queued(f)
        <5>1. File = queue[1] /\ Len(queue) \in Nat
          BY <3>3, HeadTailProperties, LenProperties DEF File
        <5>2. \A i \in 1 .. Len(queue) : i = 1
          BY <2>4, <5>1
        <5> QED
          BY <5>1, <5>2 DEF Queued
      <4> QED
        BY <3>2, <4>1, <4>2, StructuredFacts
    <3>5. ef' \in Places
      BY <1>0, <2>1, PieceFacts DEF Places
    <3>6. CASE task = "back"
      <4>1. Begin("front", Tasks.front) /\ UNCHANGED buffers
        BY <3>1, <3>6 DEF AfterTask
      <4>2. contents'["DF3/EF01"] = <<>>
        BY <1>0, <3>2, <3>3, <3>6, SignatureFile DEF IInv, Collected
      <4> QED
        BY <1>0, <2>1, <3>2, <3>3, <3>4, <3>5, <4>1, <4>2, BeginOK DEF IInv, TypeOK, Isolated
    <3>7. CASE task = "signature"
      <4>1. /\ at' = "judge" /\ queue' = <<>> /\ UNCHANGED <<task, offset>>
            /\ buffers' = [buffers EXCEPT !.signature = "held"]
        BY <3>1, <3>7 DEF AfterTask
      <4>2. buffers' \in [Copies -> {"empty", "held", "wiped"}]
        BY <4>1 DEF IInv, TypeOK, Copies
      <4> QED
        BY <1>0, <2>1, <3>2, <3>4, <3>5, <3>7, <4>1, <4>2, GoOn
    <3> QED
      BY <3>3, <3>6, <3>7
  <2> QED
    BY <2>2, <2>3, <2>4
<1> QED
  BY <1>1, <1>2

\* An image: on to the OCR or to the signature file, or a way out.
LEMMA ReadImageOK == ASSUME IInv, ReadImage PROVE IInv'
<1>0. /\ at = "read" /\ on_reader /\ File \in ImageFiles /\ InFile
      /\ UNCHANGED <<card, on_reader, df, ef, contents, opened, ocr>>
      /\ touched' = touched \cup {File} /\ touched' \subseteq Touchable
  BY DEF ReadImage, InFile, IInv, TypeOK, Touchable
<1>1. ASSUME NEW stage \in {"access_control_failed", "raised"},
             Abandon(stage), UNCHANGED <<task, queue, offset>>
      PROVE  IInv'
  BY <1>0, <1>1, AbandonLeaves DEF Results
<1>2. CASE FileDone /\ UNCHANGED <<signature, result>>
  <2>1. /\ task \in {"front", "face"} /\ opened /\ card.asked_for /\ result = "none"
    <3>1. "DF3/EF01" \notin ImageFiles /\ File \notin Structured
      BY <1>0, StructuredFacts DEF ImageFiles, PlainFiles
    <3> QED
      BY <1>0, <3>1, TaskFacts DEF IInv, Standing, Public
  <2>2. AfterTask
    <3>1. Len(queue) = 1
      BY <1>0, <2>1, TaskQueues DEF IInv, Queues
    <3> QED
      BY <1>2, <3>1 DEF FileDone
  <2>3. \A f \in Structured : WholeOf(contents'[f], f)
    BY <1>0, <2>1, FilePieces DEF IInv, Collected, Public
  <2>4. /\ contents' \in [DOMAIN PlainFiles -> Seq(Chunks)] /\ ChunksInOrder'
        /\ contents'["DF3/EF01"] = <<>>
    BY <1>0, <2>1, SameFiles DEF IInv, TypeOK, Chunks, Collected
  <2>5. CASE task = "front"
    <3>1. at' = "ocr" /\ queue' = <<>> /\ UNCHANGED <<task, offset, buffers>>
      BY <2>2, <2>5 DEF AfterTask
    <3>2. /\ ef' \in Places \cup {<<"none", 0>>}
          /\ buffers' \in [Copies -> {"empty", "held", "wiped"}]
      BY <1>0, <3>1 DEF IInv, TypeOK
    <3>3. /\ UNCHANGED <<card, on_reader, df, task, offset, opened, ocr, signature, result>>
          /\ InFile /\ queue' = <<>> /\ at' = "ocr" /\ task = "front"
          /\ touched' \subseteq Touchable
      BY <1>0, <1>2, <2>5, <3>1
    <3> QED
      BY <2>3, <2>4, <3>2, <3>3, GoOn
  <2>6. CASE task = "face"
    <3>1. Begin("signature", Tasks.signature) /\ buffers' = [buffers EXCEPT !.face = "held"]
      BY <2>2, <2>6 DEF AfterTask
    <3>2. buffers' \in [Copies -> {"empty", "held", "wiped"}]
      BY <3>1 DEF IInv, TypeOK, Copies
    <3>3. ocr # "none"
      BY <2>6 DEF IInv, Standing, Isolated
    <3> QED
      BY <1>0, <1>2, <2>1, <2>3, <2>4, <3>1, <3>2, <3>3, BeginOK DEF IInv, TypeOK, Isolated
  <2> QED
    BY <2>1, <2>5, <2>6
<1> QED
  BY <1>1, <1>2 DEF ReadImage

\* The card raises; the OCR ends; the verdict is given; the result is put together.
LEMMA LocalSteps == ASSUME IInv, Raise \/ RecogniseFront \/ Judge \/ Assemble PROVE IInv'
<1>0. touched \subseteq Touchable
  BY DEF IInv, TypeOK, Touchable
<1>1. CASE Raise
  BY <1>0, <1>1, AbandonLeaves DEF Raise, Results
<1>2. CASE RecogniseFront /\ at' = "done"
  <2>1. /\ at = "ocr" /\ result' \in {"access_control_failed", "raised"}
        /\ UNCHANGED <<card, on_reader, df, ef, task, queue, offset, contents, touched, opened,
                       ocr, buffers, signature>>
    BY <1>2 DEF RecogniseFront, Begin, Fail
  <2> QED
    BY <1>0, <1>2, <2>1, Leave DEF IInv, TypeOK, Results
<1>3. CASE RecogniseFront /\ at' # "done"
  <2>1. /\ at = "ocr" /\ ocr' \in {"completed", "unavailable"} /\ Begin("face", Tasks.face)
        /\ buffers' = [buffers EXCEPT !.front = "held"]
        /\ UNCHANGED <<card, on_reader, df, ef, contents, touched, opened, signature, result>>
    BY <1>3 DEF RecogniseFront, Fail
  <2>2. opened /\ card.asked_for /\ task = "front"
    BY <2>1 DEF IInv, Standing, Public
  <2>3. /\ contents' \in [DOMAIN PlainFiles -> Seq(Chunks)] /\ ChunksInOrder'
        /\ contents'["DF3/EF01"] = <<>>
    BY <2>1, <2>2, SameFiles DEF IInv, TypeOK, Chunks, Collected
  <2>4. \A f \in Structured : WholeOf(contents'[f], f)
    BY <2>1, <2>2, FilePieces DEF IInv, Collected, Public
  <2>5. buffers' \in [Copies -> {"empty", "held", "wiped"}]
    BY <2>1 DEF IInv, TypeOK, Copies
  <2> QED
    BY <1>0, <2>1, <2>2, <2>3, <2>4, <2>5, BeginOK DEF IInv, TypeOK
<1>4. CASE Judge
  <2>1. /\ at = "judge" /\ at' = "assemble" /\ task = "signature"
        /\ signature' \in {"none", "verified", "refused", "verification_error"}
        /\ UNCHANGED <<card, on_reader, df, ef, task, queue, offset, contents, touched, opened,
                       ocr, result>>
    BY <1>4 DEF Judge, Verdicts, IInv, Standing
  <2>2. buffers' \in [Copies -> {"empty", "held", "wiped"}]
    BY <1>4 DEF Judge, Wiped, IInv, TypeOK
  <2>3. result = "none"
    BY <2>1 DEF IInv, Standing
  <2> QED
    BY <1>0, <2>1, <2>2, <2>3, Leave DEF IInv, TypeOK, Isolated
<1>5. CASE Assemble
  <2>1. /\ at = "assemble" /\ at' = "done" /\ result' = "access_control_verified"
        /\ UNCHANGED <<card, on_reader, df, ef, task, queue, offset, contents, touched, opened,
                       buffers, ocr, signature>>
    BY <1>5 DEF Assemble, Fail
  <2> QED
    BY <1>0, <2>1, Leave DEF IInv, TypeOK, Results
<1> QED
  BY <1>1, <1>2, <1>3, <1>4, <1>5

\* Every step keeps the invariant.
LEMMA NextInv == IInv /\ [Next]_vars => IInv'
<1>1. IInv /\ Authenticate => IInv'
  BY PublicSteps, VerifyBegins
<1> QED
  BY <1>1, PublicSteps, SelectOK, ReadChunkOK, ReadImageOK, LocalSteps, LiftOK, StutterOK
     DEF Next, Step

\* The invariant of a first-generation read holds throughout, for every card and failure.
THEOREM ReadInvariant == Spec => []IInv
  BY InitInv, NextInv, PTL DEF Spec

\* The chunks of every plain file come from that file, each where the one before ends.
THEOREM ChunksAreInOrder == Spec => []ChunksInOrder
<1>1. IInv => ChunksInOrder
  BY DEF IInv
<1> QED
  BY <1>1, ReadInvariant, PTL

\* A read that succeeds has every byte of the structured files of the card asked for.
THEOREM SuccessHasEveryByte == Spec => []SuccessIsComplete
<1>1. IInv => SuccessIsComplete
  BY DEF IInv
<1> QED
  BY <1>1, ReadInvariant, PTL
-----------------------------------------------------------------------------
(* The read implements CardRead. *)

Have == {f \in DOMAIN PlainFiles : Whole(f)}
Holding == \E b \in Copies : buffers[b] = "held"

\* Pieces come with chunks only, and a read that gives up keeps the pieces it has.
LEMMA OnlyChunks ==
  ASSUME Next
  PROVE  UNCHANGED <<card, contents>> \/ (ReadChunk /\ contents' # contents)
  BY DEF Next, Step, Connect, ReadPublic, ClassifyCard, Authenticate, Select, ReadChunk,
         ReadImage, Raise, RecogniseFront, Judge, Assemble, LiftCard

\* A step that stores a chunk does not end the read.
LEMMA ChunkStays ==
  ASSUME IInv, ReadChunk, contents' # contents
  PROVE  at' # "done"
<1>1. at = "read"
  BY DEF ReadChunk
<1>2. FileDone => at' # "done"
  BY <1>1 DEF FileDone, AfterTask, Begin
<1> QED
  BY <1>1, <1>2 DEF ReadChunk

\* Files in hand stay in hand.
LEMMA HaveGrows ==
  ASSUME IInv, Next
  PROVE  /\ Have \subseteq Have'
         /\ Have' # Have => at = "read"
<1>1. CASE UNCHANGED <<card, contents>>
  BY <1>1, SameFiles DEF Have
<1>2. CASE ReadChunk /\ contents' # contents
  <2>1. /\ at = "read" /\ on_reader /\ File \in DOMAIN PlainFiles /\ UNCHANGED card /\ Stored
    BY <1>2 DEF ReadChunk, Stored
  <2>2. /\ \A f \in DOMAIN PlainFiles \ {File} : Whole(f)' <=> Whole(f)
        /\ ~Whole(File)
    BY <2>1, ChunkFacts
  <2> QED
    BY <2>1, <2>2 DEF Have
<1> QED
  BY <1>1, <1>2, OnlyChunks

\* A read that is not over is closed until the card accepts the number, then open.
LEMMA Phases ==
  ASSUME IInv, Copied
  PROVE  /\ at \in Public => ~opened /\ ~Holding /\ at # "done"
         /\ at \notin Public \cup {"done"} => opened
         /\ at \in {"assemble", "done"} => ~Holding
  BY DEF IInv, Standing, Copied, Holding, Isolated, Public

\* What a step of the read is to CardRead.
LEMMA StepKinds ==
  ASSUME IInv, Next
  PROVE  /\ UNCHANGED card
         /\ at # "done"
         /\ \/ at \in Public /\ at' \in Public /\ UNCHANGED <<opened, buffers>>
            \/ at = "verify" /\ card.asked_for /\ opened' /\ at' = "select" /\ UNCHANGED buffers
            \/ at \notin Public /\ at' \notin Public \cup {"done"} /\ UNCHANGED opened
            \/ at' = "done" /\ UNCHANGED opened
         /\ at' = "done" /\ result' = "access_control_verified" => at = "assemble"
         /\ at' = "done" /\ result' = "second_generation" => at = "classify"
<1>0. at # "done" => result = "none"
  BY DEF IInv, Standing
<1>1. CASE Connect \/ ReadPublic \/ ClassifyCard
  BY <1>0, <1>1 DEF Connect, ReadPublic, ClassifyCard, AfterPublicFile, Fail, Public
<1>2. CASE Authenticate
  BY <1>0, <1>2 DEF Authenticate, Begin, Fail, Public
<1>3. CASE Select
  BY <1>0, <1>3 DEF Select, Abandon, Fail, Public
<1>4. CASE ReadChunk
  BY <1>0, <1>4 DEF ReadChunk, FileDone, AfterTask, Begin, Abandon, Fail, Public
<1>5. CASE ReadImage
  BY <1>0, <1>5 DEF ReadImage, FileDone, AfterTask, Begin, Abandon, Fail, Public
<1>6. CASE Raise
  <2>1. at \in Public => task = "public"
    BY DEF IInv, Standing
  <2> QED
    BY <1>0, <1>6, <2>1 DEF Raise, Abandon, Isolated, Fail, Public
<1>7. CASE RecogniseFront \/ Judge \/ Assemble
  BY <1>0, <1>7 DEF RecogniseFront, Judge, Assemble, Begin, Fail, Public
<1>8. CASE LiftCard
  BY <1>8 DEF LiftCard, Public
<1> QED
  BY <1>1, <1>2, <1>3, <1>4, <1>5, <1>6, <1>7, <1>8 DEF Next, Step

\* Every step of the read is a step of CardRead, or changes nothing that it sees.
LEMMA StepRefines ==
  ASSUME IInv, IInv', Copied, Copied', [Next]_vars
  PROVE  [Read!Next]_(Read!read_vars)
<1>1. CASE UNCHANGED vars
  <2>1. UNCHANGED <<card, at, opened, contents, buffers, result>>
    BY <1>1 DEF vars
  <2>2. \A f : Whole(f)' <=> Whole(f)
    BY <2>1, SameFiles
  <2> QED
    BY <2>1, <2>2 DEF Read!read_vars, Structured
<1>2. CASE Next
  <2> DEFINE phase == IF at = "done" THEN "over" ELSE IF opened THEN "open" ELSE "closed"
             outcome == IF at # "done" THEN "none"
                        ELSE IF result = "access_control_verified" THEN "success"
                        ELSE IF result = "second_generation" THEN "handed_over" ELSE "failure"
  <2>1. UNCHANGED card /\ Structured' = Structured /\ at # "done"
    BY <1>2, StepKinds DEF Structured
  <2>2. Have \subseteq Have' /\ (Have' # Have => at = "read")
    BY <1>2, HaveGrows
  <2>3. /\ at \in Public => ~opened /\ ~Holding
        /\ at \notin Public \cup {"done"} => opened
    BY Phases
  <2>9. /\ at' \in Public => ~opened' /\ ~Holding'
        /\ at' = "done" => ~Holding'
    BY DEF IInv, Standing, Copied, Holding, Isolated, Public
  <2>4. phase = (IF opened THEN "open" ELSE "closed") /\ outcome = "none"
    BY <2>1
  <2>5. CASE at \in Public /\ at' \in Public /\ UNCHANGED <<opened, buffers>>
    <3>1. at' # "done" /\ Have' = Have
      BY <2>2, <2>5 DEF Public
    <3>2. phase' = phase /\ outcome' = outcome /\ Holding' = Holding
      BY <2>1, <2>5, <3>1 DEF Holding
    <3> QED
      BY <2>1, <3>1, <3>2 DEF Read!read_vars, Have, Holding
  <2>6. CASE at = "verify" /\ card.asked_for /\ opened' /\ at' = "select" /\ UNCHANGED buffers
    <3>1. phase = "closed" /\ phase' = "open" /\ outcome' = "none" /\ Have' = Have
      BY <2>2, <2>3, <2>4, <2>6 DEF Public
    <3>2. Holding' = Holding
      BY <2>6 DEF Holding
    <3>3. Read!Open
      BY <2>1, <2>4, <2>6, <3>1, <3>2 DEF Read!Open, Have, Holding
    <3> QED
      BY <3>3 DEF Read!Next
  <2>7. CASE at \notin Public /\ at' \notin Public \cup {"done"} /\ UNCHANGED opened
    <3>1. phase = "open" /\ phase' = "open" /\ outcome' = "none"
      BY <2>1, <2>3, <2>7
    <3>2. Have \subseteq DOMAIN PlainFiles /\ Have' \subseteq DOMAIN PlainFiles
      BY DEF Have
    <3>3. Holding' \in BOOLEAN
      BY DEF Holding
    <3>4. Read!Read
      BY <2>1, <2>2, <2>4, <3>1, <3>2, <3>3 DEF Read!Read, Have, Holding
    <3> QED
      BY <3>4 DEF Read!Next
  <2>8. CASE at' = "done" /\ UNCHANGED opened
    <3>1. phase # "over" /\ phase' = "over" /\ ~Holding'
      BY <2>4, <2>8, <2>9
    <3>2. Have' = Have
      <4>1. CASE at # "read"
        BY <2>2, <4>1
      <4>2. CASE at = "read"
        <5>1. ~(ReadChunk /\ contents' # contents)
          BY <2>8, <4>2, ChunkStays
        <5> QED
          BY <1>2, <5>1, OnlyChunks, SameFiles DEF Have
      <4> QED
        BY <4>1, <4>2
    <3>3. result' = "access_control_verified" => phase = "open" /\ Structured \subseteq Have
      <4> SUFFICES ASSUME result' = "access_control_verified"
                   PROVE  phase = "open" /\ Structured \subseteq Have
        OBVIOUS
      <4>1. at = "assemble" /\ opened
        BY <1>2, <2>3, <2>8, StepKinds DEF Public
      <4>2. \A f \in Structured : Whole(f)
        BY <4>1 DEF IInv, Collected, InFile, Public
      <4> QED
        BY <4>1, <4>2, StructuredFacts DEF Have
    <3>4. result' = "second_generation" => phase = "closed"
      BY <1>2, <2>1, <2>3, <2>8, StepKinds DEF Public
    <3>5. Read!Finish
      BY <2>1, <2>8, <3>1, <3>2, <3>3, <3>4 DEF Read!Finish, Have, Holding
    <3> QED
      BY <3>5 DEF Read!Next
  <2> QED
    BY <1>2, <2>5, <2>6, <2>7, <2>8, StepKinds
<1> QED
  BY <1>1, <1>2

\* The safety half of ImplementsCardRead: every first-generation read, and every refusal of
\* another card, is a read of CardRead.
THEOREM Refinement == Spec => IsCardRead
<1>1. Init => Read!Init
  <2> SUFFICES ASSUME Init PROVE Read!Init
    OBVIOUS
  <2>1. IInv /\ Copied
    BY InitInv, InitOK DEF Apart
  <2>2. at = "connect" /\ ~opened /\ card.asked_for \in BOOLEAN
    BY DEF Init, Cards
  <2>3. Structured \subseteq DOMAIN PlainFiles
    BY StructuredFacts
  <2>4. \A f \in DOMAIN PlainFiles : ~Whole(f)
    BY DEF Init, Whole
  <2>5. ~Holding
    BY DEF Init, Holding
  <2> QED
    BY <2>2, <2>3, <2>4, <2>5 DEF Read!Init, Holding
<1>2. IInv /\ IInv' /\ Apart /\ Apart' /\ [Next]_vars => [Read!Next]_(Read!read_vars)
  BY StepRefines DEF Apart
<1> QED
  BY <1>1, <1>2, ReadInvariant, ApartInvariant, PTL DEF Spec, IsCardRead, Read!Spec
-----------------------------------------------------------------------------
(* What the signature check can do to the read: nothing. *)

SignatureApart ==
  /\ at \in Public => task = "public"
  /\ Isolated(task) =>
       \/ at \in {"select", "read", "judge", "assemble"}
       \/ at = "done" /\ result = "access_control_verified"

\* What follows a file keeps to the signature check, once that has begun.
LEMMA FileDoneApart ==
  ASSUME SignatureApart, at = "read", FileDone, UNCHANGED result
  PROVE  SignatureApart' /\ (Isolated(task) => Isolated(task'))
<1>1. CASE UNCHANGED <<at, task, buffers>>
  BY <1>1 DEF SignatureApart
<1>2. CASE AfterTask
  BY <1>2 DEF AfterTask, Begin, SignatureApart, Isolated, Public
<1> QED
  BY <1>1, <1>2 DEF FileDone

\* Once the signature check begins the read goes on to the end, and in success, when it ends:
\* the safety half of SignatureNeverCostsTheRead (read_residence_card: "a failed authenticity
\* check never fails the read").
THEOREM SignatureCannotCostTheRead ==
  Spec => /\ [](Isolated(task) /\ at = "done" => result = "access_control_verified")
          /\ [][Isolated(task) => Isolated(task')]_vars
<1>1. Init => SignatureApart
  BY DEF Init, SignatureApart, Isolated
<1>2. SignatureApart /\ [Next]_vars => SignatureApart' /\ (Isolated(task) => Isolated(task'))
  <2> SUFFICES ASSUME SignatureApart, [Next]_vars
               PROVE  SignatureApart' /\ (Isolated(task) => Isolated(task'))
    OBVIOUS
  <2>1. CASE Connect \/ ReadPublic \/ ClassifyCard
    BY <2>1 DEF Connect, ReadPublic, AfterPublicFile, ClassifyCard, Fail, SignatureApart, Isolated,
                Public
  <2>2. CASE Authenticate
    BY <2>2 DEF Authenticate, Begin, Fail, SignatureApart, Isolated, Public
  <2>3. CASE Select
    BY <2>3 DEF Select, Abandon, Fail, SignatureApart, Isolated, Public
  <2>4. CASE ReadChunk
    <3>1. CASE FileDone /\ UNCHANGED result
      BY <2>4, <3>1, FileDoneApart DEF ReadChunk
    <3>2. CASE UNCHANGED <<at, task, result>>
      BY <3>2 DEF SignatureApart
    <3>3. CASE Abandon("access_control_failed") /\ UNCHANGED task
      BY <2>4, <3>3 DEF ReadChunk, Abandon, Fail, SignatureApart, Isolated, Public
    <3> QED
      BY <2>4, <3>1, <3>2, <3>3 DEF ReadChunk
  <2>5. CASE ReadImage
    <3>1. CASE FileDone /\ UNCHANGED result
      BY <2>5, <3>1, FileDoneApart DEF ReadImage
    <3>2. CASE UNCHANGED task /\ \E stage \in {"access_control_failed", "raised"} : Abandon(stage)
      BY <2>5, <3>2 DEF ReadImage, Abandon, Fail, SignatureApart, Isolated, Public
    <3> QED
      BY <2>5, <3>1, <3>2 DEF ReadImage
  <2>6. CASE Raise
    BY <2>6 DEF Raise, Abandon, Fail, SignatureApart, Isolated, Public
  <2>7. CASE RecogniseFront
    BY <2>7 DEF RecogniseFront, Begin, Fail, SignatureApart, Isolated, Public
  <2>8. CASE Judge \/ Assemble
    BY <2>8 DEF Judge, Assemble, Fail, SignatureApart, Isolated, Public
  <2>9. CASE LiftCard \/ UNCHANGED vars
    BY <2>9 DEF LiftCard, vars, SignatureApart
  <2> QED
    BY <2>1, <2>2, <2>3, <2>4, <2>5, <2>6, <2>7, <2>8, <2>9 DEF Next, Step
<1>3. SignatureApart => (Isolated(task) /\ at = "done" => result = "access_control_verified")
  BY DEF SignatureApart
<1>4. SignatureApart /\ [Next]_vars => [Isolated(task) => Isolated(task')]_vars
  BY <1>2
<1> QED
  BY <1>1, <1>2, <1>3, <1>4, PTL DEF Spec
-----------------------------------------------------------------------------
(* How long a read can take.  A protected file costs seven steps at most: its DF is selected
   and the longest file comes in six chunks.  Behind the last file of a task the rest follows. *)

\* The chunks that n bytes make.
ChunksOf(n) == (n + 255) \div 256

\* The most chunks of file f still to come at offset o; an image comes whole.
ChunksLeft(f, o) == IF f \in ImageFiles THEN 1 ELSE ChunksOf(PlainFiles[f].length - o)

\* The most steps that follow the last file of task t.
StepsAfter(t) == CASE t = "back" -> 24 [] t = "front" -> 17 [] t = "face" -> 9 [] OTHER -> 2

StepsOfTask(t, n) == StepsAfter(t) + 6 * (n - 1)

\* The most steps from a stage on, with n files left to task t and c chunks to the first.
StepsFrom(stage, t, n, c) ==
  CASE stage = "connect"   -> 60         [] stage = "header" -> 53 + 3 * n
    [] stage = "prefix"    -> 52 + 3 * n [] stage = "full"   -> 51 + 3 * n
    [] stage = "classify"  -> 53         [] stage = "challenge" -> 52
    [] stage = "mutual"    -> 51         [] stage = "verify" -> 50
    [] stage = "select"    -> StepsOfTask(t, n) + 7
    [] stage = "read"      -> StepsOfTask(t, n) + c
    [] stage = "ocr"       -> 17         [] stage = "judge"  -> 2
    [] stage = "assemble"  -> 1          [] OTHER            -> 0

\* The most steps the reading thread still takes.
OwnStepsLeft == StepsFrom(at, task, Len(queue), ChunksLeft(File, offset))

\* ... and the card can be lifted once.
StepsLeft == OwnStepsLeft + (IF on_reader THEN 1 ELSE 0)

\* The numbers, stage by stage.
LEMMA StageSteps ==
  ASSUME NEW t, NEW n, NEW c
  PROVE  /\ StepsFrom("connect", t, n, c) = 60 /\ StepsFrom("header", t, n, c) = 53 + 3 * n
         /\ StepsFrom("prefix", t, n, c) = 52 + 3 * n /\ StepsFrom("full", t, n, c) = 51 + 3 * n
         /\ StepsFrom("classify", t, n, c) = 53 /\ StepsFrom("challenge", t, n, c) = 52
         /\ StepsFrom("mutual", t, n, c) = 51 /\ StepsFrom("verify", t, n, c) = 50
         /\ StepsFrom("select", t, n, c) = StepsOfTask(t, n) + 7
         /\ StepsFrom("read", t, n, c) = StepsOfTask(t, n) + c
         /\ StepsFrom("ocr", t, n, c) = 17 /\ StepsFrom("judge", t, n, c) = 2
         /\ StepsFrom("assemble", t, n, c) = 1 /\ StepsFrom("done", t, n, c) = 0
  BY DEF StepsFrom

LEMMA TaskSteps ==
  /\ StepsAfter("back") = 24 /\ StepsAfter("front") = 17 /\ StepsAfter("face") = 9
  /\ StepsAfter("signature") = 2
  /\ \A t : StepsAfter(t) \in {2, 9, 17, 24}
  BY DEF StepsAfter

\* With a file left the steps left are a number, and no fewer than what follows the task.
LEMMA FileSteps ==
  ASSUME NEW t, NEW n \in Nat, n > 0
  PROVE  /\ StepsOfTask(t, n) \in Nat /\ StepsOfTask(t, n) >= 2
         /\ n = 1 => StepsOfTask(t, n) = StepsAfter(t)
<1>1. StepsAfter(t) \in {2, 9, 17, 24}
  BY TaskSteps
<1> QED
  BY <1>1 DEF StepsOfTask

\* There are four structured files at most.
LEMMA BackLength ==
  ASSUME NEW type
  PROVE  Len(Back(type)) \in 1 .. 4
<1>1. CASE type = "1"
  BY <1>1 DEF Back
<1>2. CASE type # "1"
  BY <1>2 DEF Back
<1> QED
  BY <1>1, <1>2

\* The lengths a plain file may have.
Lengths == 1 .. 1464

\* The longest file comes in six chunks, and a chunk that is full is one of them.
LEMMA Rounding ==
  ASSUME NEW n \in Nat
  PROVE  /\ n \in Lengths => ChunksOf(n) \in 1 .. 6
         /\ n > 256 => ChunksOf(n - 256) = ChunksOf(n) - 1
  BY DEF ChunksOf, Lengths

LEMMA FewChunks ==
  ASSUME NEW l \in Lengths, NEW o \in Nat, o < l
  PROVE  ChunksOf(l - o) \in 1 .. 6
<1>1. l - o \in Nat /\ l - o \in Lengths
  BY DEF Lengths
<1> QED
  BY <1>1, Rounding, Zenon

LEMMA OneChunkLess ==
  ASSUME NEW l \in Lengths, NEW o \in Nat, o < l,
         NEW next, next = o + ChunkLength(l, o), ~(next >= l)
  PROVE  ChunksOf(l - next) = ChunksOf(l - o) - 1
<1>1. l - next = (l - o) - 256 /\ l - o \in Nat /\ l - o > 256
  BY DEF ChunkLength, ChunkSize, Lengths
<1> QED
  BY <1>1, Rounding

LEMMA LengthOfFile ==
  ASSUME NEW f \in DOMAIN PlainFiles
  PROVE  PlainFiles[f].length \in Lengths /\ f \notin ImageFiles
<1>1. f \notin ImageFiles
  BY DEF PlainFiles, ImageFiles
<1> QED
  BY <1>1, FileFacts DEF Lengths

\* One to six chunks are left of a file that is being read ...
LEMMA ChunksType ==
  ASSUME NEW f \in DOMAIN PlainFiles \cup ImageFiles, NEW o \in Nat,
         f \in DOMAIN PlainFiles => o < PlainFiles[f].length
  PROVE  ChunksLeft(f, o) \in 1 .. 6
<1>1. CASE f \in ImageFiles
  BY <1>1 DEF ChunksLeft
<1>2. CASE f \in DOMAIN PlainFiles
  <2>1. ChunksOf(PlainFiles[f].length - o) \in 1 .. 6
    BY <1>2, LengthOfFile, FewChunks, Zenon
  <2> QED
    BY <1>2, <2>1, LengthOfFile, Zenon DEF ChunksLeft
<1> QED
  BY <1>1, <1>2

\* ... and one fewer after a chunk that does not end it.
LEMMA ChunkTaken ==
  ASSUME NEW f \in DOMAIN PlainFiles, NEW o \in Nat, o < PlainFiles[f].length,
         NEW next, next = o + ChunkLength(PlainFiles[f].length, o), ~(next >= PlainFiles[f].length)
  PROVE  ChunksLeft(f, next) = ChunksLeft(f, o) - 1
<1>1. ChunksOf(PlainFiles[f].length - next) = ChunksOf(PlainFiles[f].length - o) - 1
  BY LengthOfFile, OneChunkLess, Zenon
<1> QED
  BY <1>1, LengthOfFile, Zenon DEF ChunksLeft
-----------------------------------------------------------------------------
\* The two public files are read one after the other.
PublicFiles ==
  /\ at = "connect" => queue = Tasks.public
  /\ at \in {"header", "prefix", "full"} => Len(queue) \in 1 .. 2

LEMMA PublicLength == Len(Tasks.public) = 2
  BY DEF Tasks

LEMMA PublicFilesStep == IInv /\ PublicFiles /\ [Next]_vars => PublicFiles'
<1> SUFFICES ASSUME IInv, PublicFiles, [Next]_vars PROVE PublicFiles'
  OBVIOUS
<1>1. CASE Connect
  <2>1. queue' = Tasks.public /\ at' # "connect"
    BY <1>1 DEF Connect, Fail, PublicFiles
  <2> QED
    BY <2>1, PublicLength DEF PublicFiles
<1>2. CASE ReadPublic
  <2>1. queue \in Seq(FileNames) /\ Len(queue) \in 1 .. 2
    BY <1>2 DEF ReadPublic, PublicFiles, IInv, TypeOK, FileNames
  <2>2. CASE AfterPublicFile /\ Len(queue) > 1
    <3>1. at' = "header" /\ queue' = Tail(queue) /\ Len(queue) = 2
      BY <2>1, <2>2 DEF AfterPublicFile
    <3>2. Len(queue') = 1
      BY <2>1, <3>1, EmptySeq, HeadTailProperties
    <3> QED
      BY <3>1, <3>2 DEF PublicFiles
  <2>3. CASE AfterPublicFile /\ ~(Len(queue) > 1)
    BY <2>3 DEF AfterPublicFile, PublicFiles
  <2> QED
    BY <1>2, <2>1, <2>2, <2>3 DEF ReadPublic, Fail, PublicFiles
<1>3. CASE ClassifyCard \/ Authenticate
  BY <1>3 DEF ClassifyCard, Authenticate, Begin, Fail, PublicFiles
<1>4. CASE Select
  BY <1>4 DEF Select, Abandon, Fail, PublicFiles
<1>5. CASE ReadChunk
  BY <1>5 DEF ReadChunk, FileDone, AfterTask, Begin, Abandon, Fail, PublicFiles
<1>6. CASE ReadImage
  BY <1>6 DEF ReadImage, FileDone, AfterTask, Begin, Abandon, Fail, PublicFiles
<1>7. CASE Raise
  BY <1>7 DEF Raise, Abandon, Fail, PublicFiles
<1>8. CASE RecogniseFront \/ Judge \/ Assemble
  BY <1>8 DEF RecogniseFront, Judge, Assemble, Begin, Fail, PublicFiles
<1>9. CASE LiftCard \/ UNCHANGED vars
  BY <1>9 DEF LiftCard, vars, PublicFiles
<1> QED
  BY <1>1, <1>2, <1>3, <1>4, <1>5, <1>6, <1>7, <1>8, <1>9 DEF Next, Step

Reading == IInv /\ PublicFiles

LEMMA ReadingInvariant == Spec => []Reading
<1>1. Init => PublicFiles
  BY DEF Init, PublicFiles
<1> QED
  BY <1>1, InitInv, NextInv, PublicFilesStep, PTL DEF Spec, Reading

\* While files are read there is one left, and a chunk of it.
LEMMA FileLeft ==
  ASSUME IInv, InFile
  PROVE  /\ queue \in Seq(FileNames) /\ queue # <<>>
         /\ Len(queue) \in Nat /\ Len(queue) > 0
         /\ StepsOfTask(task, Len(queue)) \in Nat /\ StepsOfTask(task, Len(queue)) >= 2
         /\ at = "read" => ChunksLeft(File, offset) \in 1 .. 6
         /\ OwnStepsLeft \in Nat /\ OwnStepsLeft > StepsOfTask(task, Len(queue))
<1>1. queue \in Seq(FileNames) /\ queue # <<>>
  BY TaskFacts
<1>2. Len(queue) \in Nat /\ Len(queue) > 0
  BY <1>1, EmptySeq, LenProperties
<1>3. StepsOfTask(task, Len(queue)) \in Nat /\ StepsOfTask(task, Len(queue)) >= 2
  BY <1>2, FileSteps
<1>4. at = "read" => ChunksLeft(File, offset) \in 1 .. 6
  <2>1. File \in DOMAIN PlainFiles \cup ImageFiles
    <3>1. CASE task \in {"back", "signature"}
      BY <3>1, TaskFacts, StructuredFacts, SignatureFile
    <3>2. CASE task \in {"front", "face"}
      BY <3>2, TaskFacts DEF ImageFiles
    <3> QED
      BY <3>1, <3>2, TaskFacts
  <2>2. offset \in Nat /\ (at = "read" /\ File \in DOMAIN PlainFiles => offset < PlainFiles[File].length)
    BY DEF IInv, TypeOK, Total
  <2> QED
    BY <2>1, <2>2, ChunksType
<1>5. CASE at = "select"
  <2>1. OwnStepsLeft = StepsOfTask(task, Len(queue)) + 7
    BY <1>5, StageSteps DEF OwnStepsLeft
  <2> QED
    BY <1>1, <1>2, <1>3, <1>4, <2>1
<1>6. CASE at = "read"
  <2>1. OwnStepsLeft = StepsOfTask(task, Len(queue)) + ChunksLeft(File, offset)
    BY <1>6, StageSteps DEF OwnStepsLeft
  <2> QED
    BY <1>1, <1>2, <1>3, <1>4, <1>6, <2>1
<1> QED
  BY <1>5, <1>6 DEF InFile

\* While a public file is read one or two are left.
LEMMA PublicLeft ==
  ASSUME Reading, at \in {"header", "prefix", "full"}
  PROVE  Len(queue) \in Nat /\ Len(queue) \in 1 .. 2 /\ OwnStepsLeft \in Nat /\ OwnStepsLeft > 53
<1>1. Len(queue) \in 1 .. 2
  BY DEF Reading, PublicFiles
<1>2. OwnStepsLeft \in {51 + 3 * Len(queue), 52 + 3 * Len(queue), 53 + 3 * Len(queue)}
  BY StageSteps DEF OwnStepsLeft
<1> QED
  BY <1>1, <1>2

\* The steps left are a number.
LEMMA OwnStepsType == Reading => OwnStepsLeft \in Nat
<1> SUFFICES ASSUME Reading PROVE OwnStepsLeft \in Nat
  OBVIOUS
<1>1. CASE InFile
  BY <1>1, FileLeft DEF Reading
<1>2. CASE at \in {"header", "prefix", "full"}
  BY <1>2, PublicLeft
<1>3. CASE ~InFile /\ at \notin {"header", "prefix", "full"}
  <2>1. at \in {"connect", "classify", "challenge", "mutual", "verify", "ocr", "judge", "assemble", "done"}
    BY <1>3 DEF Reading, IInv, TypeOK, Stages, InFile
  <2> QED
    BY <2>1, StageSteps DEF OwnStepsLeft
<1> QED
  BY <1>1, <1>2, <1>3

\* A step out of the read, or to the assembly of its result, from an earlier one.
LEMMA WayOutIsProgress ==
  ASSUME Reading, at' \in {"assemble", "done"}, at \notin {"assemble", "done"}
  PROVE  OwnStepsLeft' < OwnStepsLeft
<1>1. OwnStepsLeft' \in {0, 1}
  BY StageSteps DEF OwnStepsLeft
<1>2. OwnStepsLeft \in Nat /\ OwnStepsLeft > 1
  <2>1. CASE InFile
    <3>1. /\ StepsOfTask(task, Len(queue)) \in Nat /\ StepsOfTask(task, Len(queue)) >= 2
          /\ OwnStepsLeft \in Nat /\ OwnStepsLeft > StepsOfTask(task, Len(queue))
      BY <2>1, FileLeft DEF Reading
    <3> QED
      BY <3>1
  <2>2. CASE at \in {"header", "prefix", "full"}
    BY <2>2, PublicLeft
  <2>3. CASE ~InFile /\ at \notin {"header", "prefix", "full"}
    <3>1. at \in {"connect", "classify", "challenge", "mutual", "verify", "ocr", "judge"}
      BY <2>3 DEF Reading, IInv, TypeOK, Stages, InFile
    <3> QED
      BY <3>1, StageSteps DEF OwnStepsLeft
  <2> QED
    BY <2>1, <2>2, <2>3
<1> QED
  BY <1>1, <1>2

LEMMA ReadLeft == IInv /\ at = "read" => ChunksLeft(File, offset) \in 1 .. 6
  BY FileLeft DEF InFile

LEMMA SelectSteps == at' = "select" => OwnStepsLeft' = StepsOfTask(task', Len(queue')) + 7
  BY StageSteps DEF OwnStepsLeft

\* A file is done: the queue, or what follows it, is shorter by a step at least.
LEMMA FileDoneIsProgress ==
  ASSUME IInv, IInv', at = "read", FileDone
  PROVE  OwnStepsLeft' < OwnStepsLeft
<1>1. /\ queue \in Seq(FileNames) /\ queue # <<>> /\ Len(queue) \in Nat /\ Len(queue) > 0
      /\ StepsOfTask(task, Len(queue)) \in Nat
      /\ OwnStepsLeft \in Nat /\ OwnStepsLeft > StepsOfTask(task, Len(queue))
  BY FileLeft DEF InFile
<1>2. StepsAfter(task) \in Nat
  BY TaskSteps
<1>3. CASE Len(queue) > 1
  <2>1. queue' = Tail(queue) /\ at' = "read" /\ task' = task /\ Len(Tail(queue)) = Len(queue) - 1
    BY <1>1, <1>3, HeadTailProperties DEF FileDone
  <2>2. StepsOfTask(task, Len(queue) - 1) + 6 = StepsOfTask(task, Len(queue))
    BY <1>1, <1>2, <1>3 DEF StepsOfTask
  <2>3. (IInv /\ at = "read" => ChunksLeft(File, offset) \in 1 .. 6)'
    BY ReadLeft, PTL
  <2>4. ChunksLeft(File, offset)' \in 1 .. 6
    BY <2>1, <2>3
  <2>5. OwnStepsLeft' = StepsFrom("read", task, Len(queue) - 1, ChunksLeft(File, offset)')
    BY <2>1 DEF OwnStepsLeft
  <2>6. OwnStepsLeft' = StepsOfTask(task, Len(queue) - 1) + ChunksLeft(File, offset)'
    BY <2>5, StageSteps
  <2>7. StepsOfTask(task, Len(queue) - 1) \in Nat
    BY <1>1, <1>3, FileSteps
  <2> QED
    BY <1>1, <2>2, <2>4, <2>6, <2>7
<1>4. CASE ~(Len(queue) > 1)
  <2>1. AfterTask /\ Len(queue) = 1
    <3>1. AfterTask
      BY <1>4, Zenon DEF FileDone
    <3>2. \A n \in Nat : n > 0 => n = 1 \/ n > 1
      OBVIOUS
    <3> QED
      BY <1>1, <1>4, <3>1, <3>2
  <2>2. StepsOfTask(task, Len(queue)) = StepsAfter(task)
    BY <1>1, <2>1, FileSteps
  <2>3. OwnStepsLeft' = StepsAfter(task)
    <3> Len(Tasks.front) = 1 /\ Len(Tasks.signature) = 1
      BY DEF Tasks
    <3>1. CASE task = "back" /\ task' = "front" /\ queue' = Tasks.front /\ at' = "select"
      <4>1. OwnStepsLeft' = StepsOfTask(task', Len(queue')) + 7
        BY <3>1, SelectSteps
      <4>2. task' = "front" /\ Len(queue') = 1
        BY <3>1
      <4>3. OwnStepsLeft' = StepsOfTask("front", 1) + 7
        BY <4>1, <4>2, Zenon
      <4> QED
        BY <3>1, <4>3, FileSteps, TaskSteps
    <3>2. CASE task = "front" /\ at' = "ocr"
      BY <3>2, StageSteps, TaskSteps DEF OwnStepsLeft
    <3>3. CASE task = "face" /\ task' = "signature" /\ queue' = Tasks.signature /\ at' = "select"
      <4>1. OwnStepsLeft' = StepsOfTask(task', Len(queue')) + 7
        BY <3>3, SelectSteps
      <4>2. task' = "signature" /\ Len(queue') = 1
        BY <3>3
      <4>3. OwnStepsLeft' = StepsOfTask("signature", 1) + 7
        BY <4>1, <4>2, Zenon
      <4> QED
        BY <3>3, <4>3, FileSteps, TaskSteps
    <3>4. CASE task = "signature" /\ at' = "judge"
      BY <3>4, StageSteps, TaskSteps DEF OwnStepsLeft
    <3> QED
      BY <2>1, <3>1, <3>2, <3>3, <3>4 DEF AfterTask, Begin
  <2> QED
    BY <1>1, <1>2, <2>2, <2>3
<1> QED
  BY <1>3, <1>4

\* A public file's step is one of those that were left.
LEMMA PublicIsProgress ==
  ASSUME Reading, Connect \/ ReadPublic \/ ClassifyCard \/ Authenticate
  PROVE  OwnStepsLeft' < OwnStepsLeft
<1>1. CASE Connect
  <2>1. CASE at' = "header"
    <3>1. Len(queue') = 2
      BY <1>1, PublicLength DEF Connect, Reading, PublicFiles
    <3> QED
      BY <1>1, <2>1, <3>1, StageSteps DEF Connect, OwnStepsLeft
  <2> QED
    BY <1>1, <2>1, WayOutIsProgress DEF Connect, Fail
<1>2. CASE ReadPublic
  <2>1. queue \in Seq(FileNames) /\ Len(queue) \in Nat /\ Len(queue) \in 1 .. 2
    BY <1>2, PublicLeft DEF ReadPublic, Reading, IInv, TypeOK, FileNames
  <2>2. CASE at \in {"header", "prefix"} /\ at' \in {"prefix", "full"} /\ at' # at /\ UNCHANGED queue
    <3>1. /\ OwnStepsLeft = StepsFrom(at, task, Len(queue), ChunksLeft(File, offset))
          /\ OwnStepsLeft' = StepsFrom(at', task', Len(queue), ChunksLeft(File, offset)')
      BY <2>2 DEF OwnStepsLeft
    <3>2. CASE at = "header"
      BY <1>2, <2>1, <2>2, <3>1, <3>2, StageSteps
    <3>3. CASE at = "prefix" /\ at' = "full"
      BY <1>2, <2>1, <2>2, <3>1, <3>3, StageSteps
    <3> QED
      BY <2>2, <3>2, <3>3
  <2>3. CASE at = "full" /\ AfterPublicFile
    <3>1. OwnStepsLeft = 51 + 3 * Len(queue)
      BY <2>3, StageSteps DEF OwnStepsLeft
    <3>2. CASE Len(queue) > 1
      <4>1. at' = "header" /\ queue' = Tail(queue) /\ Len(queue) = 2
        BY <2>1, <2>3, <3>2 DEF AfterPublicFile
      <4>2. Len(queue') = 1
        BY <2>1, <4>1, EmptySeq, HeadTailProperties
      <4>3. OwnStepsLeft' = 53 + 3 * Len(queue')
        BY <4>1, StageSteps DEF OwnStepsLeft
      <4> QED
        BY <3>1, <4>1, <4>2, <4>3
    <3>3. CASE ~(Len(queue) > 1)
      <4>1. at' = "classify"
        BY <2>3, <3>3 DEF AfterPublicFile
      <4>2. OwnStepsLeft' = 53
        BY <4>1, StageSteps DEF OwnStepsLeft
      <4> QED
        BY <2>1, <3>1, <4>2
    <3> QED
      BY <3>2, <3>3
  <2>4. CASE at' = "done"
    BY <1>2, <2>4, WayOutIsProgress DEF ReadPublic
  <2> QED
    BY <1>2, <2>2, <2>3, <2>4 DEF ReadPublic, Fail
<1>3. CASE ClassifyCard
  <2>1. at = "classify" /\ at' \in {"challenge", "done"}
    BY <1>3 DEF ClassifyCard, Fail
  <2> QED
    BY <2>1, StageSteps DEF OwnStepsLeft
<1>4. CASE Authenticate
  <2>1. CASE at = "verify" /\ at' = "select" /\ task' = "back" /\ queue' = Back(card.type)
    <3>1. Len(queue') \in 1 .. 4
      BY <2>1, BackLength
    <3>2. OwnStepsLeft' = 24 + 6 * (Len(queue') - 1) + 7
      BY <2>1, StageSteps, TaskSteps DEF OwnStepsLeft, StepsOfTask
    <3>3. OwnStepsLeft = 50
      BY <2>1, StageSteps DEF OwnStepsLeft
    <3>4. \A n \in 1 .. 4 : 24 + 6 * (n - 1) + 7 < 50
      OBVIOUS
    <3> QED
      BY <3>1, <3>2, <3>3, <3>4, Zenon
  <2>2. CASE (at = "challenge" /\ at' = "mutual") \/ (at = "mutual" /\ at' = "verify")
    BY <2>2, StageSteps DEF OwnStepsLeft
  <2>3. CASE at' = "done"
    BY <1>4, <2>3, WayOutIsProgress DEF Authenticate
  <2>4. \/ at = "challenge" /\ at' = "mutual"
        \/ at = "mutual" /\ at' = "verify"
        \/ at = "verify" /\ at' = "select" /\ task' = "back" /\ queue' = Back(card.type)
        \/ at' = "done"
    BY <1>4 DEF Authenticate, Begin, Fail
  <2> QED
    BY <2>1, <2>2, <2>3, <2>4
<1> QED
  BY <1>1, <1>2, <1>3, <1>4

\* A step among the protected files is one of those that were left.
LEMMA FileIsProgress ==
  ASSUME IInv, IInv', PublicFiles, Select \/ ReadChunk \/ ReadImage
  PROVE  OwnStepsLeft' < OwnStepsLeft
<1> Reading
  BY DEF Reading
<1>1. CASE Select
  <2>1. CASE at = "select" /\ at' = "read" /\ UNCHANGED <<task, queue, offset>>
    <3>1. StepsOfTask(task, Len(queue)) \in Nat
      BY <2>1, FileLeft DEF InFile
    <3>2. (IInv /\ at = "read" => ChunksLeft(File, offset) \in 1 .. 6)'
      BY ReadLeft, PTL
    <3>3. ChunksLeft(File, offset)' \in 1 .. 6
      BY <2>1, <3>2
    <3>4. OwnStepsLeft = StepsOfTask(task, Len(queue)) + 7
      BY <2>1, StageSteps DEF OwnStepsLeft
    <3>5. OwnStepsLeft' = StepsFrom("read", task, Len(queue), ChunksLeft(File, offset)')
      BY <2>1 DEF OwnStepsLeft
    <3>6. OwnStepsLeft' = StepsOfTask(task, Len(queue)) + ChunksLeft(File, offset)'
      BY <3>5, StageSteps
    <3> QED
      BY <3>1, <3>3, <3>4, <3>6
  <2>2. CASE at = "select" /\ at' \in {"assemble", "done"}
    BY <2>2, WayOutIsProgress
  <2> QED
    BY <1>1, <2>1, <2>2 DEF Select, Abandon, Fail
<1>2. CASE ReadChunk
  <2>1. CASE at = "read" /\ FileDone
    BY <2>1, FileDoneIsProgress
  <2>2. CASE /\ ~EndOfFile(offset + ChunkLength(Total, offset))
             /\ offset' = offset + ChunkLength(Total, offset)
             /\ UNCHANGED <<at, task, queue, buffers>>
    <3>1. /\ StepsOfTask(task, Len(queue)) \in Nat /\ at = "read"
          /\ ChunksLeft(File, offset) \in 1 .. 6
      BY <1>2, FileLeft DEF ReadChunk, InFile
    <3>2. File \in DOMAIN PlainFiles /\ offset \in Nat /\ offset < PlainFiles[File].length
      BY <1>2, <3>1 DEF ReadChunk, IInv, TypeOK, Total
    <3>3. ChunksLeft(File, offset') = ChunksLeft(File, offset) - 1
      BY <2>2, <3>2, ChunkTaken DEF EndOfFile, Total
    <3>4. File' = File
      BY <2>2 DEF File
    <3>5. OwnStepsLeft = StepsOfTask(task, Len(queue)) + ChunksLeft(File, offset)
      BY <3>1, StageSteps DEF OwnStepsLeft
    <3>6. OwnStepsLeft' = StepsFrom("read", task, Len(queue), ChunksLeft(File, offset'))
      BY <2>2, <3>1, <3>4 DEF OwnStepsLeft
    <3>7. OwnStepsLeft' = StepsOfTask(task, Len(queue)) + ChunksLeft(File, offset')
      BY <3>6, StageSteps
    <3> QED
      BY <3>1, <3>3, <3>5, <3>7
  <2>3. CASE at = "read" /\ at' \in {"assemble", "done"}
    BY <2>3, WayOutIsProgress
  <2> QED
    BY <1>2, <2>1, <2>2, <2>3 DEF ReadChunk, Abandon, Fail
<1>3. CASE ReadImage
  <2>1. CASE at = "read" /\ FileDone
    BY <2>1, FileDoneIsProgress
  <2>2. CASE at = "read" /\ at' \in {"assemble", "done"}
    BY <2>2, WayOutIsProgress
  <2> QED
    BY <1>3, <2>1, <2>2 DEF ReadImage, Abandon, Fail
<1> QED
  BY <1>1, <1>2, <1>3

\* Every step of the thread is one of those that were left.
LEMMA OwnStepIsProgress ==
  ASSUME Reading, IInv', Step
  PROVE  OwnStepsLeft' < OwnStepsLeft
<1>1. CASE Raise
  BY <1>1, WayOutIsProgress DEF Raise, Abandon, Fail
<1>2. CASE RecogniseFront
  <2>1. CASE at' = "select" /\ task' = "face" /\ queue' = Tasks.face
    <3>1. OwnStepsLeft' = StepsOfTask(task', Len(queue')) + 7
      BY <2>1, SelectSteps
    <3>2. task' = "face" /\ Len(queue') = 1
      BY <2>1 DEF Tasks
    <3>3. OwnStepsLeft' = StepsOfTask("face", 1) + 7
      BY <3>1, <3>2, Zenon
    <3>4. OwnStepsLeft = 17
      BY <1>2, StageSteps DEF RecogniseFront, OwnStepsLeft
    <3> QED
      BY <3>3, <3>4, FileSteps, TaskSteps
  <2>2. CASE at' = "done"
    BY <1>2, <2>2, WayOutIsProgress DEF RecogniseFront
  <2> QED
    BY <1>2, <2>1, <2>2 DEF RecogniseFront, Begin, Fail
<1>3. CASE Judge
  BY <1>3, WayOutIsProgress DEF Judge
<1>4. CASE Assemble
  BY <1>4, StageSteps DEF Assemble, Fail, OwnStepsLeft
<1> QED
  BY <1>1, <1>2, <1>3, <1>4, PublicIsProgress, FileIsProgress DEF Step, Reading

\* ... and the steps left are as many fewer, the lift of the card among them.
LEMMA StepIsProgress ==
  ASSUME Reading, Reading', Next
  PROVE  StepsLeft \in Nat /\ StepsLeft' \in Nat /\ StepsLeft' < StepsLeft
<1>1. OwnStepsLeft \in Nat
  BY OwnStepsType
<1>2. (Reading => OwnStepsLeft \in Nat)'
  BY OwnStepsType, PTL
<1>3. OwnStepsLeft' \in Nat
  BY <1>2
<1>4. CASE Step
  <2>1. on_reader' = on_reader
    BY <1>4 DEF Step, Connect, ReadPublic, ClassifyCard, Authenticate, Select, ReadChunk, ReadImage,
                Raise, RecogniseFront, Judge, Assemble
  <2>2. OwnStepsLeft' < OwnStepsLeft
    BY <1>4, OwnStepIsProgress DEF Reading
  <2>3. \/ StepsLeft = OwnStepsLeft /\ StepsLeft' = OwnStepsLeft'
        \/ StepsLeft = OwnStepsLeft + 1 /\ StepsLeft' = OwnStepsLeft' + 1
    <3>1. CASE on_reader
      BY <1>1, <1>3, <2>1, <3>1, Zenon DEF StepsLeft
    <3>2. CASE ~on_reader
      <4>1. \A n \in Nat : n + 0 = n
        OBVIOUS
      <4> QED
        BY <1>1, <1>3, <2>1, <3>2, <4>1, Zenon DEF StepsLeft
    <3> QED
      BY <3>1, <3>2
  <2> QED
    BY <1>1, <1>3, <2>2, <2>3
<1>5. CASE LiftCard
  <2>1. /\ at' = at /\ task' = task /\ queue' = queue /\ offset' = offset
        /\ on_reader /\ ~on_reader'
    BY <1>5 DEF LiftCard
  <2>2. OwnStepsLeft' = OwnStepsLeft
    BY <2>1 DEF OwnStepsLeft, File
  <2> QED
    BY <1>1, <2>1, <2>2 DEF StepsLeft
<1> QED
  BY <1>4, <1>5 DEF Next

\* Whatever the card answers and whenever it is lifted, every step brings the end of the read
\* nearer: 60 steps of the reading thread at most, the chunks of its files included.
THEOREM ReadIsBounded == Spec => [](StepsLeft \in 0 .. 61) /\ [][StepsLeft' < StepsLeft]_vars
<1>1. Init => StepsLeft \in 0 .. 61
  <2> SUFFICES ASSUME Init PROVE StepsLeft \in 0 .. 61
    OBVIOUS
  <2>1. OwnStepsLeft = 60
    BY StageSteps DEF Init, OwnStepsLeft
  <2> QED
    BY <2>1 DEF StepsLeft
<1>2. StepsLeft \in 0 .. 61 /\ Reading /\ Reading' /\ [Next]_vars => (StepsLeft \in 0 .. 61)'
  <2> SUFFICES ASSUME StepsLeft \in 0 .. 61, Reading, Reading', [Next]_vars
               PROVE  StepsLeft' \in 0 .. 61
    OBVIOUS
  <2>1. CASE Next
    BY <2>1, StepIsProgress
  <2>2. CASE UNCHANGED vars
    <3>1. at' = at /\ task' = task /\ queue' = queue /\ offset' = offset /\ on_reader' = on_reader
      BY <2>2 DEF vars
    <3> QED
      BY <3>1 DEF StepsLeft, OwnStepsLeft, File
  <2> QED
    BY <2>1, <2>2
<1>3. Reading /\ Reading' /\ [Next]_vars => [StepsLeft' < StepsLeft]_vars
  BY StepIsProgress
<1> QED
  BY <1>1, <1>2, <1>3, ReadingInvariant, PTL DEF Spec
=============================================================================
