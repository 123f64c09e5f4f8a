---------------------------- MODULE ConfigReload ----------------------------
(***************************************************************************)
(* The reload of the configuration (src/workers/config_loader.rs).  Every  *)
(* edit of the file is an event of the file watcher; a bridge thread moves *)
(* the events into a bounded buffer and drops those that do not fit.  For  *)
(* each buffered event ConfigLoader reads the file, compares it with what  *)
(* it read last and, if it differs, publishes it through the send pool     *)
(* (HubSend).  The Modbus workers and DataStreamWorker take over what they *)
(* receive; the list of devices that HTTP shows is made at startup.  main  *)
(* has read the file before ConfigLoader installs the watch: what is       *)
(* written in between has no event.                                        *)
(***************************************************************************)
EXTENDS HubSend, ConfigRules

CONSTANTS
    Files,       \* name |-> a text that the file may hold
    Contents,    \* the names of those that are accepted
    Broken,      \* any text that is refused, as of a file that is being written
    Startup,     \* the name of the text at startup
    MaxEdits,    \* bound of the model: edits of the file
    BufferSize   \* CONFIG_EVENT_BUFFER_SIZE (100 in the code)

\* The devices of a content.
DevicesOf(name) ==
    LET devices == Parsed(Files[name]).devices
    IN  {devices[k].id : k \in DOMAIN devices}

ASSUME ReloadAssumption ==
    /\ Contents = {name \in DOMAIN Files : FromFile(Files[name])}
    /\ Broken \notin Contents
    /\ Startup \in Contents
    /\ MaxEdits \in Nat
    /\ BufferSize \in Nat \ {0}
    /\ Subscribers = Listeners(Parsed(Files[Startup]))
    /\ Messages = 1..MaxEdits
    /\ Single = {}
    /\ Recipients = [n \in Messages |-> Subscribers]

VARIABLES
    file,        \* what the configuration file holds
    edits,       \* how often it was edited
    lastEdit,    \* history: whether the file was watched at its last edit
    notified,    \* events in the unbounded channel of the watcher
    buffered,    \* events in the bounded channel
    loader,      \* what the thread of ConfigLoader does
    current,     \* current_config
    updates,     \* the contents it has published or tried to, in order
    config       \* the configuration each worker uses

fileVars == <<file, edits, lastEdit>>
loaderVars == <<buffered, loader, current, updates>>
reloadVars == <<hubVars, fileVars, notified, loaderVars, config>>

ReloadTypeOK ==
    /\ HubTypeOK
    /\ file \in Contents \cup {Broken}
    /\ edits \in 0..MaxEdits
    /\ lastEdit \in {"watched", "missed"}
    /\ notified \in 0..MaxEdits
    /\ buffered \in 0..BufferSize
    /\ loader \in {"starting", "gone", "idle", "triggered", "loaded", "sending"}
    /\ current \in Contents
    /\ updates \in Seq(Contents) /\ Len(updates) <= edits
    /\ config \in [Subscribers -> Contents]

ReloadInit ==
    /\ HubInit
    /\ file = Startup /\ edits = 0 /\ lastEdit = "watched"
    /\ notified = 0 /\ buffered = 0
    /\ loader = "starting"
    /\ current = Startup /\ updates = <<>>
    /\ config = [w \in Subscribers |-> Startup]

(* Definitions named ...Deviation are errors the code could plausibly have  *)
(* had.  They occur in no specification; substituted for the definition     *)
(* that follows them they show which property notices the error.            *)

-----------------------------------------------------------------------------
\* Somebody changes the file, perhaps in several writes; the watcher, if there
\* is one, notices.
Edit(content) ==
    /\ edits < MaxEdits
    /\ content # file
    /\ file' = content /\ edits' = edits + 1
    /\ IF loader \in {"starting", "gone"}
       THEN lastEdit' = "missed" /\ notified' = notified
       ELSE lastEdit' = "watched" /\ notified' = notified + 1
    /\ UNCHANGED <<hubVars, loaderVars, config>>

\* The bridge thread: try_send, the event is dropped if the buffer is full.
Bridge ==
    /\ notified > 0
    /\ notified' = notified - 1
    /\ buffered' = IF buffered < BufferSize THEN buffered + 1 ELSE buffered
    /\ UNCHANGED <<hubVars, fileVars, loader, current, updates, config>>

-----------------------------------------------------------------------------
\* The thread of ConfigLoader.

\* The watch is installed, or cannot be and run returns the error.
Watch ==
    /\ loader = "starting"
    /\ loader' \in {"idle", "gone"}
    /\ UNCHANGED <<hubVars, fileVars, notified, buffered, current, updates, config>>

TakeEvent ==
    /\ loader = "idle" /\ buffered > 0
    /\ buffered' = buffered - 1
    /\ loader' = "triggered"
    /\ UNCHANGED <<hubVars, fileVars, notified, current, updates, config>>

\* reload_config after the pause of 100 ms: a new content.
LoadChange ==
    /\ loader = "triggered"
    /\ file \in Contents \ {current}
    /\ current' = file
    /\ updates' = Append(updates, file)
    /\ loader' = "loaded"
    /\ UNCHANGED <<hubVars, fileVars, notified, buffered, config>>

\* "Failed to reload config", or no content change.
LoadNothing ==
    /\ loader = "triggered"
    /\ file \in {Broken, current}
    /\ loader' = "idle"
    /\ UNCHANGED <<hubVars, fileVars, notified, buffered, current, updates, config>>

Latest == Len(updates)

Publish ==
    /\ loader = "loaded"
    /\ SubmitAccepted(Latest)
    /\ loader' = "sending"
    /\ UNCHANGED <<fileVars, notified, buffered, current, updates, config>>

\* "Failed to broadcast config update": current_config stays as it is.
PublishRefused ==
    /\ loader = "loaded"
    /\ SubmitRefused(Latest)
    /\ loader' = "idle"
    /\ UNCHANGED <<fileVars, notified, buffered, current, updates, config>>

\* The loader does not wait for the send.
DoNotWaitDeviation ==
    /\ loader = "sending"
    /\ loader' = "idle"
    /\ UNCHANGED <<hubVars, fileVars, notified, buffered, current, updates, config>>

\* Events that came in during the send are taken for repetitions.
DebounceDeviation ==
    /\ loader = "sending"
    /\ call[Latest] = "ok"
    /\ loader' = "idle"
    /\ buffered' = 0
    /\ UNCHANGED <<hubVars, fileVars, notified, current, updates, config>>

PublishReturns ==
    /\ loader = "sending"
    /\ call[Latest] = "ok"
    /\ loader' = "idle"
    /\ UNCHANGED <<hubVars, fileVars, notified, buffered, current, updates, config>>

PublishTimesOut ==
    /\ loader = "sending"
    /\ CallerTimesOut(Latest)
    /\ loader' = "idle"
    /\ UNCHANGED <<fileVars, notified, buffered, current, updates, config>>

-----------------------------------------------------------------------------
PoolThreadStep(t) ==
    /\ TakeTask(t) \/ CompleteTask(t) \/ \E w \in Subscribers : Deliver(t, w)
    /\ UNCHANGED <<fileVars, notified, loaderVars, config>>

\* A worker takes over the configuration it receives.  (A Modbus worker whose
\* device is not in it goes on with the entry of its device that it has.)
Apply(w) ==
    /\ mailbox[w] # <<>>
    /\ config' = [config EXCEPT ![w] = updates[Head(mailbox[w])]]
    /\ Consume(w)
    /\ UNCHANGED <<fileVars, notified, loaderVars>>

\* The devices of device_states: those that DeviceManager registered.
Listed == DevicesOf(Startup)

LoaderStep ==
    \/ Watch \/ TakeEvent \/ LoadChange \/ LoadNothing
    \/ Publish \/ PublishRefused \/ PublishReturns \/ PublishTimesOut

ReloadQuiet ==
    /\ edits = MaxEdits
    /\ notified = 0 /\ buffered = 0 /\ loader \in {"idle", "gone"}
    /\ taskQueue = <<>>
    /\ \A t \in Threads : carried[t] = NoMessage
    /\ \A w \in Subscribers : mailbox[w] = <<>>

ReloadNext ==
    \/ \E content \in Contents \cup {Broken} : Edit(content)
    \/ Bridge
    \/ LoaderStep
    \/ \E t \in Threads : PoolThreadStep(t)
    \/ \E w \in Subscribers : Apply(w)
    \/ ReloadQuiet /\ UNCHANGED reloadVars

ReloadSpec == ReloadInit /\ [][ReloadNext]_reloadVars

\* Threads run; nothing is assumed of the time a send takes.
ReloadFairSpec ==
    /\ ReloadSpec
    /\ WF_reloadVars(Bridge)
    /\ WF_reloadVars(LoaderStep)
    /\ \A t \in Threads : WF_reloadVars(PoolThreadStep(t))
    /\ \A w \in Subscribers : WF_reloadVars(Apply(w))

-----------------------------------------------------------------------------
\* An event may be dropped and a half-written file may be read, but a change
\* the loader does not know of always has an event to come, unless it was made
\* before the watch (config_loader.rs:103-113, 137-144).
ChangePending ==
    file \in Contents \ {current} =>
        lastEdit = "missed" \/ notified > 0 \/ buffered > 0 \/ loader = "triggered"

\* When every update was sent in time and has been read, all workers use what
\* the loader read last (config_loader.rs:145-154).
FollowersAgree ==
    (\A n \in 1..Len(updates) : call[n] = "ok") =>
        \A w \in Subscribers : mailbox[w] = <<>> => config[w] = current

\* Whatever is written to the file and when, neither the loader nor a worker
\* ever uses a configuration that the workers cannot work with: what
\* Config::validate refuses is enough for what they take for granted, although
\* each of them reads the configuration by code of its own (config.rs:663-724,
\* operations.rs:87-110, data_stream_worker.rs:36-47, worker.rs:28-34).
OnlyUsable ==
    \A name \in {current} \cup {config[w] : w \in Subscribers} :
        Usable(Parsed(Files[name]))

\* The loader ends up with the content of the file, if it is a valid one and
\* was not written for the last time before the watch was installed: what was
\* missed then is read with the next change (config_loader.rs:132-144).
LoaderConverges == <>[](file = Broken \/ current = file \/ lastEdit = "missed")

\* "Automatically reloaded after a change of config.toml ... ConfigUpdate
\* tells the other workers" (docs/configuration.md:286-289).
WorkersConverge ==
    <>[](file = Broken \/ lastEdit = "missed" \/ \A w \in Subscribers : config[w] = file)

\* "Supports adding and removing devices of the list" (docs/configuration.md:290).
DeviceListFollows == <>[](file = Broken \/ lastEdit = "missed" \/ Listed = DevicesOf(file))
=============================================================================
