-------------------------- MODULE MCConfigReload --------------------------
(***************************************************************************)
(* Instances of ConfigReload for TLC: the contents of the file are those   *)
(* of a list of files that ConfigRules accepts.                            *)
(***************************************************************************)
EXTENDS ConfigReload

CONSTANTS t1, t2

At(letter, number) == [letter |-> letter, number |-> number]
F(name, type, offset) == [name |-> name, data_type |-> type, offset |-> offset]
Group(address, count, fields) ==
    <<[name |-> "main", register_address |-> address, register_count |-> count,
       fields |-> fields]>>
One(id, groups) == <<[id |-> id, signal_groups |-> groups]>>
Devices(devices) == [devices |-> devices]
Poll(device) == [device_id |-> device, signal_group |-> "main"]
Every(ms) == [streams |-> <<Poll("boiler") @@ [poll_interval_ms |-> ms]>>]

Server == [server |-> [rpc_port |-> 8080, http_port |-> 8081]]

Level == <<F("level", "F32", 0), F("on", "Bool", 2)>>

\* The first ones are accepted; each of the others has one mistake.
MCTexts ==
    [old     |-> Devices(One("boiler", Group(At("h", 100), 3, Level)))
                    @@ [streams |-> <<Poll("boiler")>>] @@ Server,
     new     |-> Devices(One("boiler", Group(At("I", 65535), 4, Level))
                            \o <<[id |-> "pump"]>>) @@ Every(5),
     top     |-> Devices(One("boiler", Group(At("H", 0), 65535, <<F("x", "F64", 65533)>>)))
                    @@ Every(5000),
     empty   |-> <<>>,
     double  |-> Devices(One("boiler", <<>>) \o One("boiler", <<>>)),
     outside |-> Devices(One("boiler", Group(At("h", 0), 4, <<F("x", "F64", 1)>>))),
     twice   |-> Devices(One("boiler", Group(At("h", 0), 4, Level \o Level))),
     far     |-> Devices(One("boiler", Group(At("h", 65536), 4, Level))),
     bare    |-> Devices(One("boiler", Group(At("", 100), 4, Level))),
     strange |-> Devices(One("boiler", Group(At("x", 100), 4, Level))),
     big     |-> Devices(One("boiler", Group(At("h", 0), 65536, Level))),
     before  |-> Devices(One("boiler", Group(At("h", 0), 4, <<F("x", "U16", -1)>>))),
     words   |-> Devices(One("boiler", Group(At("h", -1), 4, Level))),
     unnamed |-> Devices(<<[signal_groups |-> <<>>]>>),
     partial |-> Devices(One("boiler", <<[name |-> "main"]>>)),
     portless |-> [server |-> [rpc_port |-> 8080]],
     hasty   |-> Every(4),
     slow    |-> Every(5001)]

\* The two ways of leaving the threads of the RPC server out of the file: the
\* keys, which have defaults, or the section, which has others.
ASSUME ThreadsOfDefaults ==
    RuntimeStarts(Parsed(MCTexts.old)) /\ ~RuntimeStarts(Parsed(MCTexts.new))

\* The texts accepted and the workers of the one at startup.
AcceptedTexts == {name \in DOMAIN MCTexts : FromFile(MCTexts[name])}
StartupListeners == Listeners(Parsed(MCTexts[Startup]))

MCFiles == MCTexts
MCContents == AcceptedTexts
MCWorkers == StartupListeners
MCMessages == 1..MaxEdits
NoSingle == {}
OneThread == {t1}
TwoThreads == {t1, t2}
ToAll == [n \in Messages |-> Subscribers]
=============================================================================
