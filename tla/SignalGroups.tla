---------------------------- MODULE SignalGroups ----------------------------
(***************************************************************************)
(* What the signal groups of one device mean: named fields laid out in a   *)
(* range of registers or coils that callers read and write as a whole      *)
(* (src/workers/modbus/handler.rs, client.rs, src/config.rs).  A request   *)
(* is turned into a Modbus operation when it is admitted and executed      *)
(* later by one of the worker's threads, so that the operations of         *)
(* different callers overtake each other.  How requests reach the worker   *)
(* and how many it admits is the subject of DeviceControl.tla.             *)
(***************************************************************************)
EXTENDS FieldCodec

CONSTANTS
    Callers,        \* whose requests are in progress
    Groups,         \* name |-> [kind, address, count, fields], the configuration
    WriteRequests,  \* the [group, data] that callers may ask to be written
    MaxAddress,     \* the device has registers and coils 0..MaxAddress
    DeviceChanges,  \* the [kind, address, value] the device may store of its own accord
    Orders,         \* the byte orders the device may be configured with
    Idle,           \* a caller without a request in progress
    Nothing         \* no values known to be stored

Kind == {"Coil", "Discrete", "Input", "Holding"}
WritableKind == {"Coil", "Holding"}
Address == 0..MaxAddress

\* SignalGroup::validate and ConfigFile::validate.  Nothing keeps fields or
\* groups from overlapping.
ValidGroup(group) ==
    /\ group.kind \in Kind
    /\ group.address \in Nat
    /\ group.count \in Nat
    /\ group.fields \in Seq([name : STRING, type : DataType, offset : Nat])
    /\ \A k \in DOMAIN group.fields : EndOffset(group.fields[k]) <= group.count
    /\ \A k, l \in DOMAIN group.fields :
          group.fields[k].name = group.fields[l].name => k = l

Bit == {0, 1}
Cell(kind) == IF kind \in {"Coil", "Discrete"} THEN Bit ELSE Word

ASSUME SignalsAssumption ==
    /\ MaxAddress \in Nat
    /\ Orders \subseteq ByteOrder
    /\ \A change \in DeviceChanges :
          /\ change.kind \in Kind
          /\ change.address \in Address
          /\ change.value \in Cell(change.kind)
    /\ \A name \in DOMAIN Groups : ValidGroup(Groups[name])
    /\ \A request \in WriteRequests : \A name \in DOMAIN request.data :
          request.data[name] \in Int \/ request.data[name] = NotANumber

VARIABLES
    memory,   \* kind |-> address |-> the word or bit the device holds there
    order,    \* the byte order the device is configured with
    running,  \* caller |-> the Modbus operation made of its request
    answer,   \* the answer given last
    stored    \* group |-> the values its last write left, history only

vars == <<memory, order, running, answer, stored>>

SignalsInit ==
    /\ memory = [kind \in Kind |-> [a \in Address |-> 0]]
    /\ order \in Orders
    /\ running = [c \in Callers |-> Idle]
    /\ answer = [status |-> "none"]
    /\ stored = [name \in DOMAIN Groups |-> Nothing]

-----------------------------------------------------------------------------
\* From a request to a Modbus operation.

Complete(data, fields) == Names(fields) \subseteq DOMAIN data

\* The registers of a request in byte order o, or its coils: any word but zero
\* is on.
Cells(group, data, o) ==
    LET words == Encode(data, group.fields, group.count, o)
    IN  IF group.kind = "Coil"
        THEN [j \in DOMAIN words |-> IF words[j] # 0 THEN 1 ELSE 0]
        ELSE words

Writable(group, data) ==
    /\ group.kind \in WritableKind
    /\ Encodable(data, group.fields, group.count)

Refused == [status |-> "refused"]

\* A request that leaves fields out is refused at once.
RefuseIncomplete(c, name, data) ==
    /\ running[c] = Idle
    /\ name \in DOMAIN Groups
    /\ ~Complete(data, Groups[name].fields)
    /\ answer' = Refused
    /\ UNCHANGED <<memory, order, running, stored>>

(* Definitions named ...Deviation are errors the code could plausibly have  *)
(* had.  They occur in no specification; substituted for the definition     *)
(* that follows them they show which property notices the error.            *)

\* Completeness is checked for the answer only, the write goes on.
AdmitUnvalidatedDeviation(c, name, data) ==
    /\ running[c] = Idle
    /\ running' = [running EXCEPT ![c] =
            IF name \in DOMAIN Groups /\ Writable(Groups[name], data)
            THEN [op |-> "Write", group |-> name, given |-> data,
                  cells |-> Cells(Groups[name], data, order)]
            ELSE [op |-> "Invalid"]]
    /\ UNCHANGED <<memory, order, answer, stored>>

\* Every other write is admitted; one that cannot be turned into an operation
\* is refused by the thread that takes it.
AdmitWrite(c, name, data) ==
    /\ running[c] = Idle
    /\ name \in DOMAIN Groups => Complete(data, Groups[name].fields)
    /\ running' = [running EXCEPT ![c] =
            IF name \in DOMAIN Groups /\ Writable(Groups[name], data)
            THEN [op |-> "Write", group |-> name, given |-> data,
                  cells |-> Cells(Groups[name], data, order)]
            ELSE [op |-> "Invalid"]]
    /\ UNCHANGED <<memory, order, answer, stored>>

AdmitRead(c, name) ==
    /\ running[c] = Idle
    /\ running' = [running EXCEPT ![c] =
            IF name \in DOMAIN Groups THEN [op |-> "Read", group |-> name]
                                      ELSE [op |-> "Invalid"]]
    /\ UNCHANGED <<memory, order, answer, stored>>

-----------------------------------------------------------------------------
\* Execution by the threads of the worker's runtime, in any order.

Finish(c, reply) ==
    /\ running' = [running EXCEPT ![c] = Idle]
    /\ answer' = reply

RefuseInvalid(c) ==
    /\ running[c] # Idle
    /\ running[c].op = "Invalid"
    /\ Finish(c, Refused)
    /\ UNCHANGED <<memory, order, stored>>

Extent(group) == group.address..(group.address + group.count - 1)
OnDevice(group) == group.count > 0 /\ Extent(group) \subseteq Address

\* Where the cells of a write go: as many addresses as it carries cells.
Reached(group, cells) == {group.address + j - 1 : j \in DOMAIN cells}

\* The device has all of these addresses; a write of nothing is refused before.
Takes(group, cells) == DOMAIN cells # {} /\ Reached(group, cells) \subseteq Address

\* One Modbus transaction: the device takes all cells or none.
Written(group, cells) ==
    [memory EXCEPT ![group.kind] =
        [a \in Address |-> IF a \in Reached(group, cells)
                           THEN cells[a - group.address + 1] ELSE @[a]]]

\* What is known to be stored once cells of kind at addresses have changed.
Forgotten(kind, addresses) ==
    [name \in DOMAIN Groups |->
        IF Groups[name].kind = kind /\ Extent(Groups[name]) \cap addresses # {}
        THEN Nothing ELSE stored[name]]

ExecuteWrite(c) ==
    /\ running[c] # Idle
    /\ running[c].op = "Write"
    /\ LET name == running[c].group
           group == Groups[name]
           cells == running[c].cells
       IN  /\ Takes(group, cells)
           /\ memory' = Written(group, cells)
           /\ stored' = [Forgotten(group.kind, Reached(group, cells))
                            EXCEPT ![name] = running[c].given]
    /\ Finish(c, [status |-> "written"])
    /\ UNCHANGED order

\* The device refuses the operation or cannot be reached, or its answer is
\* lost: then a write has happened although an error is reported.
ExecuteFails(c) ==
    /\ running[c] # Idle
    /\ running[c].op \in {"Read", "Write"}
    /\ \/ UNCHANGED <<memory, stored>>
       \/ /\ running[c].op = "Write"
          /\ LET group == Groups[running[c].group]
                 cells == running[c].cells
             IN  /\ Takes(group, cells)
                 /\ memory' = Written(group, cells)
                 /\ stored' = Forgotten(group.kind, Reached(group, cells))
    /\ Finish(c, [status |-> "failed"])
    /\ UNCHANGED order

\* The words of a group as the device answers them.
WordsRead(group) == [j \in 1..group.count |-> memory[group.kind][group.address + j - 1]]

FieldsRead(group) == Parse(WordsRead(group), group.fields, order)

\* known is what the last write left, for the properties only.
ExecuteRead(c) ==
    /\ running[c] # Idle
    /\ running[c].op = "Read"
    /\ LET name == running[c].group
       IN  /\ OnDevice(Groups[name])
           /\ Finish(c, [status |-> "read", group |-> name,
                         fields |-> FieldsRead(Groups[name]), known |-> stored[name]])
    /\ UNCHANGED <<memory, order, stored>>

\* The program of the device works on the same memory.
DeviceStores(change) ==
    /\ memory' = [memory EXCEPT ![change.kind][change.address] = change.value]
    /\ stored' = Forgotten(change.kind, {change.address})
    /\ UNCHANGED <<order, running, answer>>

-----------------------------------------------------------------------------
SignalsNext ==
    \/ \E c \in Callers :
          \/ \E request \in WriteRequests :
                \/ RefuseIncomplete(c, request.group, request.data)
                \/ AdmitWrite(c, request.group, request.data)
          \/ \E name \in DOMAIN Groups : AdmitRead(c, name)
          \/ RefuseInvalid(c)
          \/ ExecuteWrite(c)
          \/ ExecuteFails(c)
          \/ ExecuteRead(c)
    \/ \E change \in DeviceChanges : DeviceStores(change)

SignalsSpec == SignalsInit /\ [][SignalsNext]_vars

-----------------------------------------------------------------------------
(* Properties.                                                             *)

\* Every cell holds what its kind can hold, and the operations in progress
\* write as many cells as their group has.
SignalsTypeOK ==
    /\ \A kind \in Kind : memory[kind] \in [Address -> Cell(kind)]
    /\ order \in ByteOrder
    /\ \A c \in Callers :
          \/ running[c] = Idle
          \/ running[c].op = "Invalid"
          \/ /\ running[c].op = "Read"
             /\ running[c].group \in DOMAIN Groups
          \/ /\ running[c].op = "Write"
             /\ running[c].group \in DOMAIN Groups
             /\ LET group == Groups[running[c].group]
                IN  /\ group.kind \in WritableKind
                    /\ running[c].cells \in [1..group.count -> Cell(group.kind)]

\* What a field of the type holds once the number has been written to it.
Held(number, type) ==
    IF type = "Bool" THEN IF number # 0 THEN 1 ELSE 0 ELSE Saturated(number, type)

Disjoint(fields) ==
    \A k, l \in DOMAIN fields :
        k # l => \/ EndOffset(fields[k]) <= fields[l].offset
                 \/ EndOffset(fields[l]) <= fields[k].offset

\* Groups that can give back what was written: their fields do not share
\* registers, and coils hold truth values only.
Faithful(group) ==
    /\ Disjoint(group.fields)
    /\ group.kind = "Coil" =>
          \A k \in DOMAIN group.fields : group.fields[k].type = "Bool"

\* Reading gives back what was written: if nobody has touched the cells of a
\* group since its last acknowledged write, a read answers with exactly the
\* fields of that write and their values, limited to the range of their types
\* (encode_fields_to_registers, parse_signal_group_fields and convert_byte_order
\* undo each other for every type, offset and byte order).
ReadBack ==
    /\ answer.status = "read"
    /\ answer.known # Nothing
    /\ Faithful(Groups[answer.group])
    => LET fields == Groups[answer.group].fields
       IN  /\ DOMAIN answer.fields = DOMAIN answer.known
           /\ \A k \in DOMAIN fields :
                 answer.fields[fields[k].name]
                     = Held(answer.known[fields[k].name], fields[k].type)

\* A write that has reached the device, acknowledged or not, leaves in every
\* field of its group what its caller asked for there: none is left out and
\* reset, although encode_fields_to_registers writes zero into the registers of
\* fields it is not given (validate_field_completeness stands before it).
\* Fields of other groups that share registers with this one do change.
FieldsAsAsked ==
    [][\A c \in Callers, name \in DOMAIN Groups :
        /\ running[c] # Idle /\ running[c].op = "Write" /\ running'[c] = Idle
        /\ running[c].group = name
        /\ answer'.status = "written" \/ memory' # memory
        => LET group == Groups[name]
               given == running[c].given
               words == [j \in 1..group.count |-> memory'[group.kind][group.address + j - 1]]
           IN  /\ Names(group.fields) \subseteq DOMAIN given
               /\ Faithful(group) =>
                     \A k \in DOMAIN group.fields :
                        LET field == group.fields[k]
                        IN  Parse(words, group.fields, order)[field.name]
                                = Held(given[field.name], field.type)]_vars

\* A request changes cells of its own group only: the memory of the device
\* outside the configured count of the group, and everything read-only, stays
\* as it is.  A write reaches as far as what has been encoded for it: nothing
\* else holds it inside (encode_fields_to_registers against
\* write_holding_registers_static and write_coils_static).
WriteStaysInGroup ==
    [][\A c \in Callers :
        running[c] # Idle /\ running'[c] = Idle
        => \A kind \in Kind, a \in Address :
              memory'[kind][a] # memory[kind][a]
              => /\ kind \in WritableKind
                 /\ running[c].op = "Write"
                 /\ kind = Groups[running[c].group].kind
                 /\ a \in Extent(Groups[running[c].group])]_vars

\* The bytes of a group in the order in which they are on the wire.
Wire(group, k) ==
    LET word == memory[group.kind][group.address + (k + 1) \div 2 - 1]
    IN  IF k % 2 = 1 THEN word \div ByteBase ELSE word % ByteBase

\* How many bytes of a number of n bytes stand below the one that comes as the
\* i-th on the wire, in byte order o.
BytesBelow(o, n, i) ==
    CASE o = "BigEndian" -> n - i
      [] o = "LittleEndian" -> i - 1
      [] o = "LittleEndianByteSwap" -> IF i % 2 = 1 THEN i ELSE i - 2
      [] o = "MidBig" -> IF i % 2 = 1 THEN n - i - 1 ELSE n - i + 1

\* The layout is the one other masters of the bus expect, not only one that the
\* middleware understands itself: the number in a field of several bytes is
\* spelled on the wire from its highest byte on (big_endian, ABCD), from its
\* lowest (little_endian, DCBA), by registers from the lowest one
\* (little_endian_byte_swap, CDAB) or by registers from the highest one with the
\* bytes of each swapped (mid_big, BADC).  This is what convert_byte_order and
\* its tests say of each order (data_conversion.rs:181-205, 443, 462, 493);
\* docs/configuration.md:267-268 names the last two the other way round.
SpelledInOrder ==
    \A name \in DOMAIN Groups :
        LET group == Groups[name]
        IN  /\ group.kind = "Holding"
            /\ Faithful(group)
            /\ stored[name] # Nothing
            => \A k \in DOMAIN group.fields :
                  LET field == group.fields[k]
                      n == ByteCount(field.type)
                      pattern == Held(stored[name][field.name], field.type) % Span(n)
                  IN  field.type # "Bool" =>
                      \A i \in 1..n :
                          Wire(group, 2 * field.offset + i)
                              = (pattern \div Span(BytesBelow(order, n, i))) % ByteBase
=============================================================================
