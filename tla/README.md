# Residence card reader: specifications and proofs

A Windows desktop program reads Japanese residence cards through a PC/SC reader. A launcher
starts one loopback web server and opens a window on its page; a member of staff types the number
printed on a card and scans it; the server authenticates to the card, reads its files, verifies
the issuer's signature and answers with fields to display. This directory holds TLA+ models of
that program (`src/`), the TLC configurations that check them on small instances, and TLAPS
proofs. `PROJECT.json` maps every definition to the source lines it models and lists runs,
mutants, hazards, findings and theorems; this file says how they fit together.

Paths below are relative to `src/`. Run `tlc -config X.cfg M` and `tlapm M.tla` in this directory.

## 1. The system

| component | code | state it keeps | operations | hard behaviour |
|---|---|---|---|---|
| Launcher | `launch_reader.py` | its session (none, external, owned), the server thread, `should_exit`, the TCP port | inspect the port, reuse or start a server, wait for health, open a window in one of five modes, wait, stop, `os._exit` | several launchers race for one port; probes are stale when used; Chromium delegates windows; deadlines |
| Web application, request guard | `app.py`, `reader/local_guard.py` | one token per process | token, host, origin and size checks; routing | a page outlives the process that served it |
| Local API | `reader/local_api.py`, `reader/pcsc.py` | `_card_read_lock`; card connections | `POST /manual-scan`, `GET /status`, `POST /config` | synchronous handlers on a pool of threads share readers and cards; the reader is looked up by index several times while staff plug, unplug and swap |
| Local configuration | `reader/local_config.py` | `config.json` | `load` (which migrates and heals), `save` | no lock; truncate then write; crashes; failing reads and saves |
| First-generation protocol | `reader/residence_card_reader.py` | card session, copies of images and of the signature file | public files, classification, authentication, five files in chunks, front OCR, signature check | some twenty exchanges, each of which may fail or find the card gone; the current file is card state |
| Second-generation protocol | `reader/protocols/second_generation_card.py` | card session, two image buffers | authentication, business files, images, address, two OCR runs | errors tolerated in one place and not in others; buffers to overwrite on every way out; configuration switches |
| Specified cards | `reader/protocols/specified_residence_card.py`, `reader/card_type.py` | none | classify, refuse | nothing protected may be asked of them |
| Signature, trust store | `reader/signature/*` | trust anchors on disk; a registry of what certificates were normalised from, keyed by `id(cert)` | normalise a certificate, choose its issuer, ordered verification decision | object addresses used again; missing, altered, unreadable or ambiguous anchors; many partial failures, each its own code |
| Parsing | `reader/parsing/*` | none | TLV, padding, field decoding | lengths, padding, boundaries |
| OCR | `reader/ocr/*` | none | image and text heuristics | not a protocol |
| Display, messages, policy | `reader/display_fields.py`, `i18n.py`, `policy.py`, `friendly_errors.py` | none | what a reply shows, what is filtered out | combinations of statuses |
| Diagnostics | `reader/diagnostics.py` | a trace | append, export | write-only |
| Staff page | `static/local.js` | token, listing, reader selected, message, result on the screen; requests on their way | load, refresh, save, check, scan, select, translate, discard | answers arrive in any order, after the page has changed, or never; a selection made anew by each rendering; another process on the port |
| Cryptography | `reader/crypto/*` | none | 3DES, AES, MACs | taken as verdicts |
| Build | `scripts/*` | none | packaging | out of scope |

How they interact: the launcher runs the web server in a thread of its own process and talks to
other launchers only through the port. Handlers of the Local API run on worker threads; they share
the card lock, the readers, the cards and `config.json`. `POST /manual-scan` calls
`read_residence_card` under the lock; that reads the public files, classifies the card and runs
either the first-generation read itself or the second-generation one; both call the parsers, OCR
and signature code as functions and turn what those raise into statuses or failures. The staff
page polls and posts over HTTP.

What makes each right: a *launcher* opens windows only on a reader and its server outlives its
window and nothing more; the *Local API* has one card session at a time, never leaks the lock,
never attributes one card's data to another; the *configuration* keeps what was acknowledged and
never replaces a good file that it can read by defaults; a *read* that reports success is complete, attributes
every byte to the right file, leaves no image behind whatever happens, and always returns; an
optional part (address, signature) that fails never costs the rest. The *staff page* shows what the
process that served it has read, selects the reader that is stored unless staff chose otherwise, and stops
saying that it is reading.

## 2. Modules

    ReadContract  <--implements--  ScanService  <-- MCScanService, ScanServiceProofs
                                   ConfigStore  <-- MCConfigStore, ConfigStoreProofs
    CardRead  <--implements--      SecondGenerationCard  <-- SecondGenerationCardProofs
    CardRead  <--implements--      CurrentCard  <-- CurrentCardProofs
    PlainEf   <--extends--         CurrentCard
                                   Launcher     <-- LauncherProofs
                                   SignatureVerification <-- MCSignatureVerification,
                                                             SignatureVerificationProofs
                                   Tlv          <-- MCTlv, TlvProofs
                                   StaffPage    <-- StaffPageProofs

**ReadContract** is the abstract specification of scanning: a request is asked, perhaps gets the
one card session, and is answered with the data of the card it wants or with nothing. No threads'
steps, readers or cards.

**ScanService** models `local_manual_scan` and `local_status` on worker threads. `pc[t]` is the
place in the handler; an action is the stretch between two points at which another thread or the
staff can come between: `ManualScan` (validation, sample data), `ListReaders` (a listing that fails
lists no reader, whatever is plugged), `TryLock`
(`acquire(blocking=False)`), `Presence`, `Connect`, `Authenticate`, `ReadPart`, `ReadDone`,
`ReadFails` (any error or exception of the read), `Release` (the `finally` clause), `Reply`; and
`Status`, `Probe`, `ProbeDone` for `GET /status`. A reader index is resolved anew at each use
against `plugged`, which `PlugReader`/`UnplugReader` change. `session[r]` is whose secure
messaging the card on reader `r` runs: taking the card or unplugging ends it, a new connection
takes it over, a probe may end it (the library may power the card down). `ImplementsContract` and
`ImplementsProgress` instantiate ReadContract with the mapping given at the end of the module.

**ConfigStore** models `LocalConfigStore.load`/`save` as called by the same handlers. The file is
missing, garbled (also: truncated by `write_text` and not yet written), legacy (with a former
agent's keys) or current. `purpose` tells four saves apart: inside `load` migrating, healing what does
not parse and replacing what could not be read (`ReadFails`: `read_text` raises `OSError`, whatever the
file holds), in `POST /config` storing; the failures of a save (`SaveFails`) are handled in three ways. `Crash`
ends the process between any two steps.

**CardRead** is the abstract specification of one read of a card, of either generation and with none
of its exchanges: closed, open once the card accepted the number typed, over; success needs every file
wanted, the end leaves no image in hand, and the end comes. SecondGenerationCard and CurrentCard
implement it (`IsCardRead`, and with its fairness `ImplementsCardRead`), each with the mapping at the end
of its module.

**SecondGenerationCard** models `read_second_generation_card` and all it calls, one APDU exchange
per action. The queue holds the files of the current task (business files, images, the authorised
test scope, the address). `df` is the DF the *card* has selected, and READ BINARY names a short
identifier within it, so a file's contents carry where they came from. `Abandon` is the way out of
a failing step, tolerated in the address task only; `Finally` overwrites the two buffers.

**CurrentCard** models `read_residence_card` for every card: the two public files, the
classification, and the first-generation read with the isolated signature check. **PlainEf** holds the
arithmetic of one READ BINARY: the chunk, the two parameter bytes, `Le`, and how ISO 7816-4 takes
them. A piece in `contents` records the file and offset at which the *card* read, computed from the
bytes sent and the card's current file.

**Launcher** models `main`, the session, the server thread and the waits of any number of
launchers. `listener` is the port; `OtherProgram` takes and frees it; `Delegate` is Chromium's
hand-over of a window to a running process; timeouts are choices.

**SignatureVerification** models `verify_rc2_signature` and `verify_first_generation_signature`
with everything they call, one verification after another; the card lock keeps them apart. What
lasts from one to the next is `_metadata_registry`, from which nothing is ever removed: `Entered`
writes the entry of a newly loaded certificate at its address, and a certificate of a later card may
get the address of an earlier one. A certificate has a form (plain DER, BER that is normalised,
null parameters that are removed, malformed), and whether its signed bytes can be had depends on the
entry found. What a card's data can have wrong is a set of `Flaws`; `Before` and `After` list
them in the order in which the code looks, on either side of the trust path. `TrustPath` is
`select_trust_path` over the anchors that load: those the profile and generation permit, their
fingerprint intact. Two things leave the verification as an exception instead of a code (`"raised"`): an anchor
file that exists and cannot be read (`Unreadable`), and extensions of the card's certificate that the parser refuses
otherwise than by `ValueError`. The profile is fixed for the life of the process.

**Tlv** models `parse_tlv_objects`, an iteration of its loop a step, over bytes as numbers; an object
is the bounds of its parts in the data. A string to parse is either any bytes at all or one with a `layout`:
`Laid(data, layout)` says that the data is the objects of the layout one after the other, each as `Holds` and
`LengthFields` describe an encoded object, and otherwise zeros. `meant` keeps that layout, and the parser never
looks at it. `Pad` and `Unpad` are the padding both protocols use (two copies of
the same functions).

**StaffPage** models `static/local.js` with what answers it. A request is a member of `Fetches` that
carries its page's token; `Serve` is the guard and the handler, `Deliver` what the page's continuation
does with the answer, by then in whatever state the page is. A failed request is a refusal of the guard, a
`500`, a connection refused, or (`Lost`) an answer that dies with its process. `Load` is a fresh page: nobody
awaits any more what an earlier one asked for, yet its handlers run to their end. Which reader
and number go with a scan is ScanService's matter, so a scan here carries only the page; the
configuration handler is one step, ConfigStore has its overlaps. Every handler that calls `load()` (status,
check, save) may put defaults in the setting's place, as ConfigStore shows (`Loads`). `disturbed` is a history
variable: since the last refresh or save began, something else touched the selection or the stored index, the
`load()` of another of the page's requests included, or that request's own `load()` missed what is stored. The module also has
what either language shows of a card's two permission codes (`display_fields.py`, `local.js`).

`MC*` modules give the instances: symmetry, inputs, a manifest. Operators named as a fault
(`NeverTaken`, `RunsOver`, ...) stand next to the operator they would replace: they are the mutated
forms `PROJECT.json` lists, each of which breaks the property it is listed with.

## 3. Runs

| run | instance | question |
|---|---|---|
| `scan_overlaps` | 3 threads, 2 readers, 2 cards, 1 file, scans | is the lock held exactly during a read, does a reply match its request however indices shift and cards are swapped, does only staff end a session? |
| `scan_progress` | 2 threads, 2 readers, 1 card, scans and status | is ReadContract implemented, with its progress, and so every request answered, every session ended and the lock freed; can the next step of a request always be taken, whoever holds the lock (`NobodyWaits`)? |
| `status_probe_in_session` | 2 threads, 1 reader, 1 card | violated, see findings |
| `config_shared` | 3 clients, 3 indices, crashes, failing reads and saves | is a selection acknowledged alone kept until the next `POST /config` or failed read, is the file at rest always in the current form, do defaults replace only what cannot be parsed, migrated or read while requests do not overlap, does the proofs' invariant hold? |
| `config_overlap` | 2 clients, no faults | the last question, overlapping: violated, see findings |
| `rc2_read` | every configuration and card, lifted at any exchange | completeness, attribution, buffers, consent, the address, and CardRead: the six properties of a second-generation read |
| `current_read` | types 1, 2, 05, 07 and an unknown one; every length form and failure | are chunks in order, is success complete, are copies wiped, refused cards left alone, the fields never lost to the signature check, is CardRead implemented, does the proofs' invariant hold? |
| `launch_two` | 2 launchers in all 25 pairs of modes, another program, kills | the five properties of launchers |
| `signature_verdicts` | a manifest shaped like the packaged one, any anchor file missing, unreadable or altered, 2 addresses, every certificate, at most one flaw | does "verified" mean a sound, unique, permitted issuer, is a genuine certificate verified whatever was loaded before, and an exception raised exactly if a permitted anchor cannot be read, does a test anchor never make production, is every registry entry that is used the certificate's own? |
| `tlv_parse` | every string of up to 5 of 10 bytes; encodings of up to two objects, and of one long one, in every length form with zeros around | is nothing sent lost or used twice, is what was encoded read back, does padding come off? |
| `staff_page` | one page, 2 requests at once, 2 readers, 2 processes one after the other, another window | is the result this server's, is the stored reader selected when nothing came between, the `load()` of other requests included, does every message of waiting end, does the proofs' invariant hold? |
| `page_permission` | a card with any pair of permission codes | violated, see findings |

Why the bounds are enough. *ScanService*: a session in progress, one that overlaps it and a third
that meets either are three threads; a swap needs two cards; two readers suffice for an index to
change its meaning, and the index range 0..1 covers listed and unlisted. Liveness is checked
without symmetry, hence with two threads and one card: progress does not depend on which card lies
there, since every step at a card may fail. `Parts` is the one
counter: one file read after authentication already separates "before", "between" and "after" for
a swap, and the theorems hold for every value. *ConfigStore*: two clients give every overlap of a
load with a save, three a save between another's truncation and write; index 0 is the default, so
a default differs from a chosen index and two chosen ones from each other. *The reads* are one
read each, which the lock makes the general case; card, configuration and every outcome are
enumerated, and file lengths are the real ones, so chunk counts (342, 122, 3 and 1464 bytes in
chunks of 256) are real too. *Launcher*: delegation and port races are between two; `slept` counts
to 2, which stands for more, since the code only asks whether any sleep has passed.

*Signatures*: two addresses are needed for a later certificate to meet a used one and a fresh one;
the set of entries, not their history, is the state, so any number of verifications is covered. With
one flaw every refusal is reached, and "success without flaws" needs no more; which of two flaws is
reported is the order of the two lists. Unlike in the packaged manifest two of the instance's
anchors share a key, so that an ambiguous path occurs. A whole manifest that cannot be loaded is the
case of all anchors missing. *Tlv*: the ten bytes are one of each kind the parser tells apart
(filler, small lengths, an extended tag, the padding mark, which is also the forbidden length form,
one and two length bytes, too many, the two tags of a signature file), five of them hold two objects
or one with its length bytes; the encodings add the long forms whole, up to 300 bytes. Block sizes
are those of the two ciphers.

*StaffPage*: two requests at once are every order of two answers, and a third only repeats one of
their kinds; two readers make an index that is listed, one that is no longer and the default; the second
process is the one an old page meets, a third would be to a second what it is to the first. Permission
codes matter only to `page_permission`, which enumerates them; `staff_page` has one card.

`CHECK_DEADLOCK FALSE` is set where the program ends: one read that has returned, launchers that are
gone, a parser at its end, a page none of whose processes is left. The scan service and the configuration never
stop, so deadlock is checked
there.

## 4. Fairness

*ScanService*: weak fairness of each thread's steps inside a request it has accepted (`Step(t)`):
the pool's threads are scheduled and each PC/SC call returns or raises (`ReadFails` and the failing
branches are always there). Nothing is assumed of clients or staff. *The reads*: weak fairness of
the reading thread; the card may refuse and be lifted forever, yet each exchange ends.
*Launcher*: weak fairness of main threads, of binding the port and of a windowless Chromium
process's end. A server need not obey `should_exit` (which is why `ClosedWindowEndsProcess` is
about `os._exit`), and nobody must close a window, dismiss a box or press Ctrl-C. *StaffPage*: weak fairness of
serving and delivering each request (`Progress(f)`): a request that reaches a process is answered, which is
what ScanService's `ImplementsProgress` and the shape of ConfigStore's handlers give; one that reaches none is
refused; and the browser's event loop runs what arrives. Nothing is assumed of staff, processes or other
windows. *ConfigStore* has no liveness property. The runs of safety properties of ScanService use the
specification without
fairness.

## 5. Proofs

TLAPS checks them for every value of the constants, under the named assumption of each
module (the special values differ from the sets' members; `Parts` is a natural number).

*ScanServiceProofs.* `ReplyMatchesRequest` is not inductive: that a reply carries only the right
card's data depends on whose session the card runs while files are read. `IInv` adds `Progressed`
(how far a thread is says what it holds: nothing before the first file, a subset of the number
asked while reading, no data with an error) and `SessionsAreOwn` (a reader without a card runs no
session; the session a reading thread uses, if it still exists, is its own, on the card whose number
was typed). The latter needs `LockHeldExactlyWhileReading`: only a lock holder opens sessions.
Each action has a lemma that preserves `IInv`; `Inductive` combines them, `TypeCorrect`,
`LockDiscipline` and `RepliesMatch` follow. From the same invariant: a session ends by its own scan, by hands on
the hardware or by a probe (`SessionsEndByHandsOrAProbe`, which holds with every handler and is exactly as far as the
code goes, see finding 1); with scans alone only the first two remain, and that is `OnlyHandsEndASession`
(`ScansDoNotEndSessions`, under the hypothesis that `"status"` is not in `Handlers`, as in the run). `RequestsAreBounded`
counts how many steps of its own a request has left, from its place and the files still to read: `Parts + 8` at most,
no step of another thread adds any and every step of its own takes some, so no request waits for another. `Refinement` shows that initial states map to initial
states of ReadContract and each action to the action of the contract it stands for, or to a
stutter, given `IInv`.

*ConfigStoreProofs.* The three promises (`SelectionIsKept`, `CurrentAtRest`,
`AloneHealsOnlyUnreadable`) follow from `IInv`, which `config_shared` also checks. `Alone`: while
no two requests overlap, the one in progress knows what the file holds (what it saved, or that it is about
to migrate or heal what is not in the current form). `Kept`: while a selection is kept, all handlers in progress only
look, at a file that holds it; one that fails to read it gives the selection up, which is where the code's promise
ends (see 6). `Settled`: without faults, only a save in progress keeps the file from being in the current
form once a request was answered. `Resting`: a thread between requests carries nothing over.

*SecondGenerationCardProofs.* `ImagesNeverSurvive`: `done` is reached only through `Finally`,
except for a disabled reader, which has read nothing. `FilesAreTheirOwn`: while at a
read step the card's DF is the one of the file at the head of the queue. `SuccessHasEveryFile` and
`FaceFileOnlyWhenNeeded` need `QueueInv`: what is queued and what is in hand together cover the
business files, and DF1/EF03 is queued only when an image is needed. `Refinement` (every step is one
of CardRead or a stutter) rests on them. `ReadIsBounded`: a rank over tasks, files queued and places within a file
falls with every step, from 53 steps of the thread and the one in which the card is lifted.
`AddressCannotCostTheRead`: the places a read can be at once the address is due (`AddressApart`) lead nowhere but to
success.

*CurrentCardProofs.* `LaterChunks`: for every offset below 32 KiB the two bytes of a later chunk name
no file and mean that offset (the mask to seven bits makes it fail beyond). `ChunkIsAskedInFull`: a
chunk stays in its file and `Le` asks for its length, 256 as 0 included. `ChunksAreInOrder` and
`SuccessHasEveryByte` follow from `IInv`, which `current_read` also checks (`ReadInvariant`). That
success is complete says nothing until the end, so `IInv` adds `Standing` (where the read stands says
what it has done: which task, whether the card is open), `Queues` (the queue of a task; once a chunk
has come, the file at its head is the card's current one) and `Collected` (the pieces in hand and the
files still queued are together the structured files, and `offset` is where the last piece ended).
`Refinement` maps each step to one of CardRead or a stutter. `ReadIsBounded` needs besides that the public files
come in order (`PublicFiles`) and counts the chunks a file still has, from the next one's offset: 60 steps.
`SignatureCannotCostTheRead` is to the signature check what `AddressCannotCostTheRead` is to the address.
`CopiesOverwritten` and `RefusedUntouched`
need less (`Apart`): copies exist only in the tasks of the signature check, and other generations
never get past classification.

*LauncherProofs.* `TypeCorrect` includes that a launcher listens exactly when its thread serves;
`IdentityBeforeWindow` that every way to a window passes an identified answer;
`WindowKeepsItsServer` that the step `stop` is reached only when the window is closed or is shown by
another's process, and `should_exit` is not set before. `HandedOverWindowGetsGrace`: a window handed over before
the first poll
is never the end of its server within the grace period. `LaunchersOnlyMoveOn` orders the places of a main thread in
stages and shows that none is entered twice; `GoneFreesThePort` that a process that is gone holds no port. Both use
what a way out implies (`Ending`).

*SignatureVerificationProofs.* That success is sound (`VerifiedMeansVerified`, and `TestIsNeverProduction` from
the profile in use) rests on what earlier steps of the same
verification found, so `IInv` says for each place how far the checks have come (`Checked`,
`Loaded`, `Matched` and `IssuerSound`, `Unjudged`, `SuccessEarned`). `RegistryNeverStale` uses that
every load enters its certificate before anyone asks for it. `GenuineAlwaysVerified` is the converse of soundness: for
a flawless card whose certificate names the one anchor that signed it, `GenuineInv` says that the signed bytes are at
hand whenever they are asked for, and that each check passes; the verdict is an exception exactly if a permitted
anchor cannot be read. It is assumed that no anchor's key is `None`, the
signer of a certificate nobody in the manifest signed. The set of anchors is finite, since the
code's choice of a single verified anchor is by count; nothing else is asked of the manifest.

*TlvProofs.* `PartsInOrder`: tag, length and value of one object lie in this order behind the index.
`ObjectsAlwaysTile` is inductive with the bounds of `TypeCorrect`, which say that no slice was
cut. `EncodedIsReadBack`: `ReadSoFar` says that the objects found are the first ones of the layout, bound for bound,
and that the index is in a gap before the next. Since `Laid` describes every encoded string and not only those of the
instance, this is by induction on the parser's steps, not on the data. `UnpadPad`, and from it
`PaddingAlwaysComesOff`: the mark is the only place that `IsMark` accepts, for every content and block
size.

*StaffPageProofs.* `OwnRequests`: a request that is awaited is this page's own, and an answer fits what was
asked (card data only from the process whose token the request carried); from it `ResultOfThisServer`.
`Undisturbed`: while nothing else came between, one request at most is on its way that tells what is
stored, it tells the truth, no other request's `load()` has changed that, and once it is over the page selects it; from it `SelectionIsStored`.
`Inductive` has one lemma per action. `RequestsOnlyMoveOn`: of the four steps that lie before a request (serve, deliver,
and the same for the listing that follows a save) none comes back, and who waits has such a request.

Only model-checked: liveness, since it needs ENABLED of the fair actions, which is out of the prover's reach. That
is `ImplementsProgress`, the fairness halves of `ImplementsCardRead`, `AddressNeverCostsTheRead`,
`SignatureNeverCostsTheRead`, `StartupEnds`, `ClosedWindowEndsProcess`, `BusyEnds` and `NobodyWaits`, an invariant that is itself an ENABLED. What remains to be checked of them is
small: that nobody goes back, and how many steps are left at most, are the theorems named above, and so is the safety
half of each refinement; the runs add that, while steps are left, one of them can be taken. Every other property of a
passing run is a theorem.

## 6. Findings

1. `status_probe_in_session`: `GET /status?check_card=true` opens a card connection without the
   lock, to the reader of a scan in its session, against `reader/local_api.py:31-35`. Replies
   still match their requests: what the probe costs is the scan, not its attribution.
2. `config_overlap`: a load that reads the file another request has just truncated takes it for
   malformed and, after the other's write, replaces it with defaults
   (`reader/local_config.py:47`, `:58`). The page can do this by itself: "check card" clicked beside "save".
3. `page_permission`: the server's rule is that either permission grants the right to work
   (`reader/display_fields.py:113`, `tests/test_display_fields.py:105`), and the module exists so that the
   browser never
   re-implements card semantics (`:5-7`). The page's English row does (`static/local.js:95`): it takes the first
   non-empty code. A card with comprehensive `0` and individual `1` is "Not permitted" in English and permitted in
   Japanese; one without codes, which is every first-generation card, is "Permitted" in English only.

Two met in reads of files that fail. A lone `GET /status` whose `read_text` raises `OSError` replaces a well-formed
`config.json`, and with it an acknowledged selection, by defaults (`reader/local_config.py:46-50`; its comment speaks
of "a malformed legacy file"): `ReadFails` in ConfigStore, the exception `SelectionKept` and
`AloneDefaultsReplaceOnlyUnreadable` name. And one anchor file that exists and cannot be read
(`reader/signature/trust_store.py:113`) ends every verification of its profile and generation with an exception,
although the choice of a trust path is written to return a `TrustPath` on both failure paths (`:201`); extensions that
raise something other than `ValueError`, and a manifest that is not UTF-8, do the same.

Two met in Launcher, which its model also shows: a launcher whose own server could not bind takes the health
answer of another
launcher's server for its own and calls that server owned (`launch_reader.py:171`, `:179`); and the grace period
for
delegated windows is granted only if Chromium's process is gone at the first poll, not when it goes during the
first
0.2 s of sleep (`launch_reader.py:359`, `docs/building.md:106-109`).

True by reading two lines, and therefore without a run: every result says
`face_photo_status = not_read_by_policy` (`reader/policy.py:6`), also when DF1/EF03 was read for the
signature; first-generation results list as not read two image files that were read
(`reader/residence_card_reader.py:892-894`); and `PRIVACY.md:39-40` says the face image is overwritten
as soon as verification finishes, while `read_second_generation_card` keeps it through the address
read and both OCR runs and overwrites it in its `finally` clause
(`reader/protocols/second_generation_card.py:625-675`). One found in the models: `public_key()` of a trusted
certificate with an unsupported key raises outside the `try` of `verify_rc2_signature`
(`reader/signature/rc_signature.py:227`), where the first generation's counterpart has it inside.

## 7. Abstractions, and what is not modelled

- Cryptography is a verdict: a card authenticates with its own number only; that a signature is
  checked, and over which buffers, is in the models of the reads, which verdict it gets in SignatureVerification. OCR is a status. Field decoding is
  an outcome: fields, or a failure.
- A card answers exactly the bytes it is asked for, or an error. Cards that answer `9000` with fewer
  bytes are outside; the code does not check this (`reader/residence_card_reader.py:442`).
- Copies an interpreter makes of a buffer are outside (`bytes(face_image)`,
  `reader/protocols/second_generation_card.py:625`, is one); `PRIVACY.md` declares them so too.
- Texts written to `config.json` have one length: two overlapping writes never leave a longer text's
  tail, as indices 9 and 10 could. That of two overlapping `POST /config` one may write back what it loaded before
  the other saved is in ConfigStore, whose `SelectionKept` promises nothing of overlapping selections.
- Of several objects with one tag `parse_tlvs` keeps the last (`reader/parsing/tlv.py:81`); Tlv
  models the objects, not the table made of them.
- The test hook `trust_profile=None` and `load_second_generation_trust_anchor`, which no read uses, are
  left out of SignatureVerification; names, keys and signatures are model values and flaws.
- In Launcher, Ctrl-C matters only in the wait for the server.
- Not modelled: the guard's host, origin and size checks and the policy filter (each a function of one request or
  one reply, without state, which unit tests reach); of the display rows all but the permission, and field decoding
  (dictionaries and date formats); OCR (image and text heuristics, no protocol); diagnostics (written,
  never read back); the ciphers and MACs; packaging scripts. The guard's token check is in StaffPage.

## 8. Plan

Done, in this order: ReadContract and ScanService with their proofs; ConfigStore; SecondGenerationCard;
Launcher; PlainEf and CurrentCard; SignatureVerification; Tlv; StaffPage with its proofs; CardRead and its two
refinements; the proofs of ConfigStore, of the rest of SecondGenerationCard, and of CurrentCard; the proofs of every other safety
and action property, and the bounds under the liveness properties.

What is left, and why it comes last:

1. The bytes a signature is over (`printed_entries_signed_target`, `build_signed_target`) and the
   fields read from the TLV values, on top of Tlv: their hazard is a wrong tag or order, which a test on one real
   card settles.
2. ScanService's `ReadPart` steps as steps of CardRead: ScanService already assumes less of a read (any
   part may fail at any time) than CardRead promises.
3. RequestGuard, PolicyFilter and the ranking of OCR candidates: pure functions whose definition would be
   their specification.
