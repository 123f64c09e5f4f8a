----------------------------- MODULE ConfigRules -----------------------------
(***************************************************************************)
(* Which configuration files are taken (Config::from_file, src/config.rs), *)
(* which workers main.rs starts for one and what these ask of it.  A file  *)
(* is a record of its sections; a key that the file leaves out is missing  *)
(* in the record and gets its default.  The workers parse addresses once   *)
(* more by rules of their own (parse_register_address in operations.rs).   *)
(***************************************************************************)
EXTENDS Integers, Sequences, SequencesExt, FiniteSets

Types == INSTANCE FieldCodec WITH ByteBase <- 256, NotANumber <- -1

MaxU16 == 65535
U16 == 0..MaxU16

(* Definitions named ...Deviation are errors the code could plausibly have  *)
(* had.  They occur in no specification; substituted for the definition     *)
(* that follows them they show which property notices the error.            *)

-----------------------------------------------------------------------------
\* Defaults of the keys a file leaves out.
StreamDefaults == [poll_interval_ms |-> 100, enabled |-> TRUE, priority |-> 0]
DeviceDefaults ==
    [addressing_mode |-> "ZeroBased", byte_order |-> "BigEndian", tcp_nodelay |-> TRUE,
     max_concurrent_ops |-> 10, max_pool_size |-> 5, heartbeat_interval_sec |-> 30,
     pool_health_check_interval_sec |-> 30, signal_groups |-> <<>>]

\* The keys serde has no default for.  (The type, address, port and unit of a
\* device are left out: no rule looks at them.)
DeviceKeys == {"id"}
GroupKeys == {"name", "register_address", "register_count", "fields"}
FieldKeys == {"name", "data_type", "offset"}
StreamKeys == {"device_id", "signal_group"}
ServerKeys == {"rpc_port", "http_port"}

Section(text, name) == IF name \in DOMAIN text THEN text[name] ELSE <<>>

\* An array of tables: the keys with values of their types, and all those there
\* is no default for.
Array(entries) == entries \in Seq(ToSet(entries))

ReadableField(field) ==
    /\ FieldKeys \subseteq DOMAIN field
    /\ field.data_type \in Types!DataType
    /\ field.offset \in U16

ReadableGroup(group) ==
    /\ GroupKeys \subseteq DOMAIN group
    /\ group.register_count \in U16
    /\ Array(group.fields)
    /\ \A k \in DOMAIN group.fields : ReadableField(group.fields[k])

ReadableDevice(device) ==
    LET groups == Section(device, "signal_groups") IN
    /\ DeviceKeys \subseteq DOMAIN device
    /\ Array(groups)
    /\ \A g \in DOMAIN groups : ReadableGroup(groups[g])

ReadableStream(stream) ==
    /\ StreamKeys \subseteq DOMAIN stream
    /\ "poll_interval_ms" \in DOMAIN stream => stream.poll_interval_ms \in Nat

Readable(text) ==
    LET devices == Section(text, "devices")
        streams == Section(text, "streams")
    IN  /\ Array(devices)
        /\ \A k \in DOMAIN devices : ReadableDevice(devices[k])
        /\ Array(streams)
        /\ \A k \in DOMAIN streams : ReadableStream(streams[k])
        /\ "server" \in DOMAIN text => ServerKeys \subseteq DOMAIN text.server

WithDefaults(table, defaults) ==
    [key \in DOMAIN table \cup DOMAIN defaults |->
        IF key \in DOMAIN table THEN table[key] ELSE defaults[key]]

Completed(entries, defaults) ==
    [k \in DOMAIN entries |-> WithDefaults(entries[k], defaults)]

\* A section [server] that is missing altogether is Server::default(), which
\* has zeros where a section without these keys has 4 and 128.
ServerDefaults == [rpc_worker_threads |-> 4, rpc_max_blocking_threads |-> 128]
NoServer == [rpc_port |-> 0, http_port |-> 0,
             rpc_worker_threads |-> 0, rpc_max_blocking_threads |-> 0]

Parsed(text) ==
    [server |-> IF "server" \in DOMAIN text THEN WithDefaults(text.server, ServerDefaults)
               ELSE NoServer,
     devices |-> Completed(Section(text, "devices"), DeviceDefaults),
     streams |-> Completed(Section(text, "streams"), StreamDefaults)]

-----------------------------------------------------------------------------
\* Config::validate.  An address is the letter it begins with ("" before a
\* digit) and the number that follows, -1 for anything that is no number.

Prefix == {"h", "H", "i", "I", "c", "C", "d", "D"}

ValidAddress(address) ==
    /\ address.letter \in Prefix
    /\ address.number \in U16

\* offset.saturating_add(required)
EndOffset(field) ==
    LET sum == field.offset + Types!RequiredRegisters(field.data_type)
    IN  IF sum > MaxU16 THEN MaxU16 ELSE sum

\* Only where a field begins is compared with the size of its group.
ValidGroupDeviation(group) ==
    LET fields == group.fields IN
    /\ \A k, l \in DOMAIN fields : fields[k].name = fields[l].name => k = l
    /\ \A k \in DOMAIN fields : fields[k].offset < group.register_count

ValidGroup(group) ==
    LET fields == group.fields IN
    /\ \A k, l \in DOMAIN fields : fields[k].name = fields[l].name => k = l
    /\ \A k \in DOMAIN fields : EndOffset(fields[k]) <= group.register_count

ValidStream(stream) ==
    /\ stream.poll_interval_ms >= 5
    /\ stream.poll_interval_ms <= 5000

Valid(conf) ==
    /\ \A k, l \in DOMAIN conf.devices :
        conf.devices[k].id = conf.devices[l].id => k = l
    /\ \A k \in DOMAIN conf.devices :
        \A g \in DOMAIN conf.devices[k].signal_groups :
            LET group == conf.devices[k].signal_groups[g]
            IN  ValidAddress(group.register_address) /\ ValidGroup(group)
    /\ \A k \in DOMAIN conf.streams : ValidStream(conf.streams[k])

FromFile(text) == Readable(text) /\ Valid(Parsed(text))

-----------------------------------------------------------------------------
\* main: the workers in the order in which they are spawned, each with the
\* device it is for.

StartedWorkers(conf) ==
    LET one(kind) == <<[kind |-> kind, device |-> ""]>>
    IN  one("rpc") \o one("http") \o one("device_manager") \o one("config_loader")
        \o one("latency_monitor")
        \o [k \in DOMAIN conf.devices |-> [kind |-> "modbus", device |-> conf.devices[k].id]]
        \o one("heartbeat")
        \o IF conf.streams = <<>> THEN <<>> ELSE one("data_stream") \o one("sse")

\* RpcWorker builds its runtime with these numbers; tokio refuses a zero.
RuntimeStarts(conf) ==
    conf.server.rpc_worker_threads > 0 /\ conf.server.rpc_max_blocking_threads > 0

\* Those that take over a ConfigUpdate.
Listeners(conf) ==
    {w \in ToSet(StartedWorkers(conf)) : w.kind \in {"modbus", "data_stream"}}

-----------------------------------------------------------------------------
\* parse_register_address: no letter stands for a holding register.

KindOf == [h |-> "Holding", H |-> "Holding", i |-> "Input", I |-> "Input",
           c |-> "Coil", C |-> "Coil", d |-> "Discrete", D |-> "Discrete"]

Unparsable == [kind |-> "None", address |-> -1]

ParseRegisterAddress(address) ==
    IF address.number \notin U16 THEN Unparsable
    ELSE IF address.letter \in DOMAIN KindOf
    THEN [kind |-> KindOf[address.letter], address |-> address.number]
    ELSE IF address.letter = "" THEN [kind |-> "Holding", address |-> address.number]
    ELSE Unparsable

\* find_device_config: the entry a Modbus worker takes over.
DeviceConfigs(conf, id) == {k \in DOMAIN conf.devices : conf.devices[k].id = id}

\* group_streams_by_interval: enabled streams by interval, as they are listed.
StreamGroups(conf) ==
    LET enabled == {s \in ToSet(conf.streams) : s.enabled}
    IN  [interval \in {s.poll_interval_ms : s \in enabled} |->
            SelectSeq(conf.streams,
                      LAMBDA s : s \in enabled /\ s.poll_interval_ms = interval)]

-----------------------------------------------------------------------------
\* What the workers rely on without looking.
\* A group has registers they can address, its fields lie inside it and have
\* their names for themselves.  (A group of 65535 registers escapes the
\* comparison of the end of a field; no Modbus request reads that many.)
UsableGroup(group) ==
    LET fields == group.fields IN
    /\ ParseRegisterAddress(group.register_address) # Unparsable
    /\ Cardinality({fields[j].name : j \in DOMAIN fields}) = Len(fields)
    /\ group.register_count < MaxU16 =>
        \A j \in DOMAIN fields :
            fields[j].offset + Types!RequiredRegisters(fields[j].data_type)
                <= group.register_count

PollInterval == 5..5000

\* No two workers have one name and one device, a Modbus worker finds its device
\* once, and no group of streams is polled more often than the loop of
\* DataStreamWorker turns or hardly ever.
Usable(conf) ==
    LET started == StartedWorkers(conf) IN
    /\ \A k, l \in DOMAIN started : started[k] = started[l] => k = l
    /\ \A w \in ToSet(started) :
        w.kind = "modbus" => Cardinality(DeviceConfigs(conf, w.device)) = 1
    /\ \A k \in DOMAIN conf.devices :
        \A g \in DOMAIN conf.devices[k].signal_groups :
            UsableGroup(conf.devices[k].signal_groups[g])
    /\ \A interval \in DOMAIN StreamGroups(conf) : interval \in PollInterval
=============================================================================
