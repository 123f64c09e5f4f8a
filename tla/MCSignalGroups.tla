--------------------------- MODULE MCSignalGroups ---------------------------
(***************************************************************************)
(* Instances of SignalGroups.tla for TLC: a byte takes four values, so that *)
(* a register ends at 15 and the numbers asked for lie on both sides of     *)
(* every range.                                                            *)
(***************************************************************************)
EXTENDS SignalGroups

Mock == INSTANCE MockModbus

F(name, type, offset) == [name |-> name, type |-> type, offset |-> offset]

\* A mixed group, one that shares two registers with it, a group of coils, one
\* that cannot be written and one past the end of the device.
MixedGroups ==
    [settings |-> [kind |-> "Holding", address |-> 1, count |-> 4,
                   fields |-> <<F("level", "I32", 1), F("on", "Bool", 0), F("trim", "I16", 3)>>],
     totals   |-> [kind |-> "Holding", address |-> 3, count |-> 4,
                   fields |-> <<F("total", "F64", 0)>>],
     lamps    |-> [kind |-> "Coil", address |-> 0, count |-> 2,
                   fields |-> <<F("left", "Bool", 0), F("right", "Bool", 1)>>],
     inputs   |-> [kind |-> "Input", address |-> 0, count |-> 1,
                   fields |-> <<F("trim", "I16", 0)>>],
     beyond   |-> [kind |-> "Holding", address |-> 6, count |-> 3,
                   fields |-> <<F("trim", "U16", 0)>>]]

\* The device changes a register of two groups and a lamp.
MixedChanges ==
    {[kind |-> "Holding", address |-> 4, value |-> 4],
     [kind |-> "Coil", address |-> 1, value |-> 1]}

Asked(name, values) == [group |-> name, data |-> values]

MixedRequests ==
    {Asked("settings", [level |-> -101, on |-> 3, trim |-> 9]),
     Asked("settings", [on |-> 1, trim |-> 20]),
     Asked("settings", [level |-> 27, on |-> NotANumber, trim |-> 2]),
     Asked("totals", [total |-> 27182]),
     Asked("lamps", [left |-> 0, right |-> 2]),
     Asked("inputs", [trim |-> 1]),
     Asked("beyond", [trim |-> 1]),
     Asked("absent", [trim |-> 1])}

-----------------------------------------------------------------------------
\* The simulated device of the demos with the contents of memory, the requests
\* the Modbus library makes of an operation and what it makes of the answer.
BitKind == {"Coil", "Discrete"}
ReadCode == [Coil |-> Mock!ReadCoils, Discrete |-> Mock!ReadDiscreteInputs,
             Input |-> Mock!ReadInputRegisters, Holding |-> Mock!ReadHoldingRegisters]
WriteMultipleCoils == 15

\* An address of the protocol is a u16.
ASSUME SimulatorAssumption == MaxAddress < Mock!Addresses

Simulated(cells) ==
    [coils           |-> [a \in Address |-> cells["Coil"][a] = 1],
     discrete_inputs |-> [a \in Address |-> cells["Discrete"][a] = 1],
     input_registers   |-> cells["Input"],
     holding_registers |-> cells["Holding"]]

ReadRequest(kind, start, count) ==
    [code |-> ReadCode[kind], size |-> 4, start |-> start, count |-> count]

\* The first n of cells go to the registers or coils from the group's first on.
WriteRequest(group, cells, n) ==
    LET single(code, value) ==
            [code |-> code, size |-> 4, start |-> group.address, count |-> value]
        several(code, bytes) ==
            [code |-> code, size |-> 5 + bytes, start |-> group.address, count |-> n,
             byte_count |-> bytes, words |-> cells]
    IN  CASE n > 1 /\ group.kind = "Coil" -> several(WriteMultipleCoils, (n + 7) \div 8)
          [] n > 1 /\ group.kind # "Coil" -> several(Mock!WriteMultipleRegisters, 2 * n)
          [] n = 1 /\ group.kind = "Coil" ->
                single(Mock!WriteSingleCoil, IF cells[1] = 1 THEN Mock!CoilOn ELSE 0)
          [] n = 1 /\ group.kind # "Coil" -> single(Mock!WriteSingleRegister, cells[1])

\* What the simulator makes of a request that comes in a frame of its own.
Asking(request, tables) ==
    Mock!Serve([protocol |-> 0, length |-> request.size + 2, request |-> request], tables)

\* The answer to a read says how many bytes it has and carries the cells.
Weight == <<1, 2, 4, 8, 16, 32, 64, 128>>
Unpacked(bytes, count) ==
    [j \in 1..count |-> (bytes[((j - 1) \div 8) + 1] \div Weight[((j - 1) % 8) + 1]) % 2]

AnswersWith(response, kind, cells) ==
    IF kind \in BitKind
    THEN /\ response.byte_count = Len(response.bytes)
         /\ Unpacked(response.bytes, Len(cells)) = cells
    ELSE /\ response.byte_count = 2 * Len(response.words)
         /\ response.words = cells

\* What one frame can ask for or carry: at most 125 registers, no more coils
\* than bytes that can be counted in a byte.
Readable(kind, count) ==
    IF kind \in BitKind THEN (count + 7) \div 8 < 256 ELSE count <= Mock!MaxRegisters
InOneFrame(request) == request.size < Mock!MaxData

\* The simulator the demos run against is a device like the one every other
\* property is about: it answers the read of a group, or of a whole table and
\* more, with the cells that are there and zeros beyond them, and the write in
\* progress, or any first part of it, changes its tables as a device would and
\* is acknowledged; only several coils at once it refuses, without a trace
\* (mock_server.rs:219-530 against client.rs:643-838).
SimulatorIsADevice ==
    LET tables == Simulated(memory) IN
    /\ \A kind \in Kind : LET count == MaxAddress + 4 IN
        Readable(kind, count) =>
            AnswersWith(Asking(ReadRequest(kind, 1, count), tables).response, kind,
                [j \in 1..count |-> IF j \in Address THEN memory[kind][j] ELSE 0])
    /\ \A name \in DOMAIN Groups : LET group == Groups[name] IN
        OnDevice(group) /\ Readable(group.kind, group.count) =>
            AnswersWith(
                Asking(ReadRequest(group.kind, group.address, group.count), tables).response,
                group.kind, WordsRead(group))
    /\ \A c \in Callers :
        running[c] # Idle /\ running[c].op = "Write" =>
            \A n \in 1..Groups[running[c].group].count :
                LET group == [Groups[running[c].group] EXCEPT !.count = n]
                    cells == SubSeq(running[c].cells, 1, n)
                    request == WriteRequest(group, cells, n)
                    result == Asking(request, tables)
                IN  OnDevice(group) /\ InOneFrame(request) =>
                    IF request.code = WriteMultipleCoils
                    THEN /\ result.tables = tables
                         /\ result.response = Mock!Exception(request.code, Mock!IllegalFunction)
                    ELSE /\ result.tables = Simulated(Written(group, cells))
                         /\ result.response = Mock!Echo(request)
=============================================================================
