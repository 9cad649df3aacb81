----------------------------- MODULE ConfigStore -----------------------------
(***************************************************************************)
(* reader/local_config.py: the one file the application keeps, config.json,  *)
(* loaded and saved by the handlers of GET /status and POST /config on        *)
(* several worker threads with no lock.  load() may itself save: to drop a     *)
(* former agent's settings, or to put defaults in the place of what it could    *)
(* not parse or could not read.                                                *)
(* save() is Path.write_text: the file is truncated when it is opened and      *)
(* holds its text only after the later write.                                  *)
(***************************************************************************)
EXTENDS Naturals

CONSTANTS
  Threads,       \* worker threads of the server
  ReaderIds,     \* reader indices clients save; 0 is the default
  Faults,        \* what may go wrong: a subset of {"crash", "save_error", "read_error"}
  None,
  Keep,          \* the request POST /config without a reader_id
  Look           \* the request GET /status

ASSUME ConfigAssumption ==
  /\ 0 \in ReaderIds
  /\ ReaderIds \subseteq Nat
  /\ Faults \subseteq {"crash", "save_error", "read_error"}
  /\ {None, Keep, Look} \cap ReaderIds = {}
  /\ Keep # Look

VARIABLES
  file,      \* config.json: its state and, when readable, its reader_id
  pc,        \* pc[t]: the next step of t's handler
  request,   \* request[t]: the index POST /config names, or Keep, or Look for GET /status
  loaded,    \* loaded[t]: config.reader_id in t's hands
  purpose,   \* purpose[t]: why t saves: "migrate", "heal" (what does not parse), "replace"
             \* (what could not be read) or "store"
  overlapped, \* history: two requests have overlapped since none was in progress
  selected,  \* history: the index last acknowledged alone, with no POST begun and no read
             \* failed since, or None
  answered,  \* history: some request was answered since the process started
  shaken     \* history: a save failed since the process started

history == <<overlapped, selected, answered, shaken>>
vars == <<file, pc, request, loaded, purpose, history>>

Requests == ReaderIds \cup {Keep, Look}
States   == {"missing", "garbled", "legacy", "current"}
Config(state, id) == [state |-> state, reader_id |-> id]
Defaults == 0
Purposes == {"none", "migrate", "heal", "replace", "store"}

Goto(t, l) == pc' = [pc EXCEPT ![t] = l]
OthersBusy(t) == \E u \in Threads \ {t} : pc[u] # "idle"
Holds(t, id) == loaded' = [loaded EXCEPT ![t] = id]

\* Any file an earlier version, a user or a torn write may have left.
Init ==
  /\ file \in {Config("missing", 0), Config("garbled", 0)}
               \cup {Config(s, id) : s \in {"legacy", "current"}, id \in ReaderIds}
  /\ pc       = [t \in Threads |-> "idle"]
  /\ request  = [t \in Threads |-> Look]
  /\ loaded   = [t \in Threads |-> Defaults]
  /\ purpose  = [t \in Threads |-> "none"]
  /\ overlapped = FALSE
  /\ selected = None
  /\ answered = FALSE
  /\ shaken   = FALSE

\* A handler starts with get_config_store().load().
Receive(t) ==
  /\ pc[t] = "idle"
  /\ \E q \in Requests :
       /\ request' = [request EXCEPT ![t] = q]
       /\ selected' = IF q = Look THEN selected ELSE None
  /\ overlapped' = (overlapped \/ OthersBusy(t))
  /\ Goto(t, "exists")
  /\ UNCHANGED <<file, loaded, purpose, answered, shaken>>

\* The index POST /config saves: the one it names, if it names one.
ChosenUnchecked(t, id) == request[t]
Chosen(t, id) == IF request[t] = Keep THEN id ELSE request[t]

\* What follows load(): GET /status replies, POST /config sets its index and saves.
Loaded(t, id) ==
  \/ /\ request[t] = Look
     /\ Holds(t, id)
     /\ Goto(t, "reply")
     /\ UNCHANGED purpose
  \/ /\ request[t] # Look
     /\ Holds(t, Chosen(t, id))
     /\ purpose' = [purpose EXCEPT ![t] = "store"]
     /\ Goto(t, "open")

\* if not self.path.exists(): return LocalConfig()
Exists(t) ==
  /\ pc[t] = "exists"
  /\ \/ /\ file.state = "missing"
        /\ Loaded(t, Defaults)
     \/ /\ file.state # "missing"
        /\ Goto(t, "read")
        /\ UNCHANGED <<loaded, purpose>>
  /\ UNCHANGED <<file, request, history>>

\* read_text, json.loads and int(...) accept the file; an empty one does not parse.
ParsesIfChosen == file.state # "garbled" /\ file.reader_id # Defaults
Parses == file.state # "garbled"

\* set(data) - {"reader_id", "app_version", "config_version"}
NeverForeign == FALSE
HasForeignKeys == file.state = "legacy"

\* What does not parse is healed with defaults; foreign keys are dropped by saving.
Read(t) ==
  /\ pc[t] = "read"
  /\ \/ /\ Parses /\ ~HasForeignKeys
        /\ Loaded(t, file.reader_id)
     \/ /\ Parses /\ HasForeignKeys
        /\ Holds(t, file.reader_id)
        /\ purpose' = [purpose EXCEPT ![t] = "migrate"]
        /\ Goto(t, "open")
     \/ /\ ~Parses
        /\ Holds(t, Defaults)
        /\ purpose' = [purpose EXCEPT ![t] = "heal"]
        /\ Goto(t, "open")
  /\ UNCHANGED <<file, request, history>>

\* read_text raises OSError and load() answers as to a malformed file, whatever the file
\* holds; exists() stands before the try, and its PermissionError fails the handler.
ReadFails(t) ==
  /\ "read_error" \in Faults
  /\ file.state # "missing"
  /\ \/ /\ pc[t] = "read"
        /\ Holds(t, Defaults)
        /\ purpose' = [purpose EXCEPT ![t] = "replace"]
        /\ Goto(t, "open")
        /\ selected' = None
     \/ /\ pc[t] = "exists"
        /\ Goto(t, "error")
        /\ UNCHANGED <<loaded, purpose, selected>>
  /\ UNCHANGED <<file, request, overlapped, answered, shaken>>

\* save(): write_text opens the file, which truncates it ...
Open(t) ==
  /\ pc[t] = "open"
  /\ file' = Config("garbled", 0)
  /\ Goto(t, "write")
  /\ UNCHANGED <<request, loaded, purpose, history>>

\* ... and writes the text.  Payloads of one length overwrite each other exactly.
Written(t) == Config("current", loaded[t])

Write(t) ==
  /\ pc[t] = "write"
  /\ file' = Written(t)
  /\ \/ /\ purpose[t] = "store"
        /\ Goto(t, "reply")
        /\ UNCHANGED <<loaded, purpose>>
     \/ /\ purpose[t] # "store"
        /\ Loaded(t, loaded[t])
  /\ UNCHANGED <<request, history>>

\* Nothing in POST /config catches the error of its own save.
SaveErrorIgnored == "reply"
AfterFailedStore == "error"

\* save() raises.  While migrating, load() falls back to defaults and saves those; while
\* saving defaults, it goes on with them unsaved; in POST /config the request fails.
SaveFails(t) ==
  /\ "save_error" \in Faults
  /\ pc[t] \in {"open", "write"}
  /\ shaken' = TRUE
  /\ \/ /\ purpose[t] = "migrate"
        /\ Holds(t, Defaults)
        /\ purpose' = [purpose EXCEPT ![t] = "heal"]
        /\ Goto(t, "open")
     \/ /\ purpose[t] \in {"heal", "replace"}
        /\ Loaded(t, Defaults)
     \/ /\ purpose[t] = "store"
        /\ Goto(t, AfterFailedStore)
        /\ UNCHANGED <<loaded, purpose>>
  /\ UNCHANGED <<file, request, overlapped, selected, answered>>

Idle(t) ==
  /\ Goto(t, "idle")
  /\ request' = [request EXCEPT ![t] = Look]
  /\ loaded'  = [loaded EXCEPT ![t] = Defaults]
  /\ purpose' = [purpose EXCEPT ![t] = "none"]
  /\ overlapped' = (overlapped /\ OthersBusy(t))

\* "config_saved" acknowledges the selection, if no other request came between.
Reply(t) ==
  /\ pc[t] = "reply"
  /\ selected' = IF request[t] # Look /\ ~overlapped THEN loaded[t] ELSE selected
  /\ answered' = TRUE
  /\ Idle(t)
  /\ UNCHANGED <<file, shaken>>

ReplyError(t) ==
  /\ pc[t] = "error"
  /\ Idle(t)
  /\ UNCHANGED <<file, selected, answered, shaken>>

\* The process ends, between any two steps of any thread, and is started again.
Crash ==
  /\ "crash" \in Faults
  /\ shaken'   = FALSE
  /\ answered' = FALSE
  /\ overlapped' = FALSE
  /\ pc'       = [t \in Threads |-> "idle"]
  /\ request'  = [t \in Threads |-> Look]
  /\ loaded'   = [t \in Threads |-> Defaults]
  /\ purpose'  = [t \in Threads |-> "none"]
  /\ UNCHANGED <<file, selected>>

Step(t) ==
  \/ Exists(t) \/ Read(t) \/ ReadFails(t)
  \/ Open(t) \/ Write(t) \/ SaveFails(t)
  \/ Reply(t) \/ ReplyError(t)

Next == (\E t \in Threads : Receive(t) \/ Step(t)) \/ Crash

Spec == Init /\ [][Next]_vars
-----------------------------------------------------------------------------
Locations == {"idle", "exists", "read", "open", "write", "reply", "error"}

\* The state's types.
TypeOK ==
  /\ file \in [state : States, reader_id : ReaderIds]
  /\ pc \in [Threads -> Locations]
  /\ request \in [Threads -> Requests]
  /\ loaded \in [Threads -> ReaderIds]
  /\ purpose \in [Threads -> Purposes]
  /\ overlapped \in BOOLEAN
  /\ selected \in ReaderIds \cup {None}
  /\ answered \in BOOLEAN
  /\ shaken \in BOOLEAN

Busy(t) == pc[t] # "idle"
Saving(t) == pc[t] \in {"open", "write"}

\* While no two requests overlap, the one in progress knows what the file holds.
Alone ==
  ~overlapped =>
    /\ \A t, u \in Threads : Busy(t) /\ Busy(u) => t = u
    /\ \A t \in Threads :
         /\ pc[t] = "reply" /\ request[t] # Look => file = Config("current", loaded[t])
         /\ Saving(t) /\ purpose[t] \in {"migrate", "heal"} => file.state \in {"garbled", "legacy"}

\* While a selection is kept, every handler in progress only looks, and read what it holds.
Kept ==
  selected # None =>
    /\ file = Config("current", selected)
    /\ \A t \in Threads :
         request[t] = Look /\ pc[t] \in {"idle", "exists", "read", "reply", "error"}

\* Once a handler is done with the file and no fault intervened, only a save in progress
\* keeps the file from resting in the current form.
Settled ==
  ~shaken /\ (answered \/ \E t \in Threads : pc[t] = "reply") =>
    \/ file.state \in {"missing", "current"}
    \/ file.state = "garbled" /\ \E t \in Threads : pc[t] = "write"

\* A worker thread between two requests carries nothing over.
Resting == \A t \in Threads : pc[t] = "idle" => request[t] = Look

(* The inductive invariant behind the three promises below.  It also says that what load()
   returns is always an index, whatever the file held (TypeOK). *)
IInv ==
  TypeOK /\ Resting /\ Alone /\ Kept /\ Settled

(* An acknowledged selection is what the file holds until the next POST /config begins or
   a handler fails to read the file: no status query that can read it, overlapping or not,
   no restart and no failed save takes it away (README.md: the reader selection is the one
   thing the application remembers). *)
SelectionKept ==
  selected # None /\ (\A t \in Threads : request[t] = Look) => file = Config("current", selected)

Heals(t) == purpose[t] \in {"heal", "replace"} /\ pc[t] = "open" /\ pc'[t] = "write"

(* Defaults only ever replace a file that is not a current configuration
   (local_config.py:47 "A malformed legacy file is safely replaced with defaults"). *)
DefaultsReplaceOnlyMalformed ==
  [][\A t \in Threads : Heals(t) => file.state \in {"garbled", "legacy"}]_vars

(* ... at least while no two requests overlap, whatever crashed or failed before, and save
   for the one exception local_config.py:46 makes: a file this very load() failed to read. *)
AloneDefaultsReplaceOnlyUnreadable ==
  [][\A t \in Threads :
       Heals(t) /\ ~overlapped => file.state \in {"garbled", "legacy"} \/ purpose[t] = "replace"]_vars

(* Once some request was answered and no fault intervened, a file at rest is either absent
   or in the current form: nothing of the former agent's settings stays on disk, and no
   overlap of saves leaves it torn. *)
RestsInCurrentForm ==
  answered /\ ~shaken /\ (\A t \in Threads : pc[t] = "idle")
    => file.state \in {"missing", "current"}
=============================================================================
