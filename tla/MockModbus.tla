----------------------------- MODULE MockModbus -----------------------------
(***************************************************************************)
(* The Modbus device that stands in for a real one in the demos            *)
(* (src/demo/mock_server.rs): what process_request answers to a request    *)
(* and what becomes of its four tables.  A table is a hash map: an address *)
(* nobody has written holds zero.  Requests and responses are records; the *)
(* words of a register are not taken apart into bytes, the bytes that      *)
(* carry coils are kept, because the packing is what can go wrong.         *)
(***************************************************************************)
EXTENDS Integers, Sequences

\* The function codes (mod codes, mod exceptions).
ReadCoils == 1
ReadDiscreteInputs == 2
ReadHoldingRegisters == 3
ReadInputRegisters == 4
WriteSingleCoil == 5
WriteSingleRegister == 6
WriteMultipleRegisters == 16

IllegalFunction == 1
IllegalDataValue == 3

Addresses == 65536
MaxRegisters == 125     \* of one read
CoilOn == 65280         \* 0xFF00

\* The table a function code is about.
TableOf(code) ==
    CASE code \in {ReadCoils, WriteSingleCoil} -> "coils"
      [] code = ReadDiscreteInputs -> "discrete_inputs"
      [] code = ReadInputRegisters -> "input_registers"
      [] OTHER -> "holding_registers"

\* The i-th address from start on (release build: it wraps), what a table
\* holds there, and a table after an insert.
Nth(start, i) == (start + i) % Addresses
Lookup(table, address, default) ==
    IF address \in DOMAIN table THEN table[address] ELSE default
Inserted(table, entries) ==
    [a \in DOMAIN table \cup DOMAIN entries |->
        IF a \in DOMAIN entries THEN entries[a] ELSE table[a]]

\* build_exception_response; code + 128 is code | 0x80 for the codes there are.
Exception(code, exception) == [code |-> code + 128, exception |-> exception]

-----------------------------------------------------------------------------
\* The handlers.  size is the number of bytes that follow the function code;
\* what it is too short for is not looked at.

\* handle_read_holding_registers, handle_read_input_registers
ReadRegisters(table, request) ==
    IF request.size < 4 \/ request.count > MaxRegisters
    THEN Exception(request.code, IllegalDataValue)
    ELSE [code |-> request.code, byte_count |-> 2 * request.count,
          words |-> [i \in 1..request.count |->
                        Lookup(table, Nth(request.start, i - 1), 0)]]

\* What the i-th of count coils adds to its byte: nothing beyond the last one.
CoilAt(table, start, count, i) ==
    IF i < count /\ Lookup(table, Nth(start, i), FALSE) THEN 1 ELSE 0

(* Definitions named ...Deviation are errors the code could plausibly have  *)
(* had.  They occur in no specification; substituted for the definition     *)
(* that follows them they show which property notices the error.            *)

\* The first coil goes into the highest bit of its byte.
PackedHighFirstDeviation(table, start, count, byte) ==
    LET on(bit) == CoilAt(table, start, count, 8 * byte + bit)
    IN  128 * on(0) + 64 * on(1) + 32 * on(2) + 16 * on(3)
            + 8 * on(4) + 4 * on(5) + 2 * on(6) + on(7)

\* The byte that carries eight coils, the first one in its lowest bit.
Packed(table, start, count, byte) ==
    LET on(bit) == CoilAt(table, start, count, 8 * byte + bit)
    IN  on(0) + 2 * on(1) + 4 * on(2) + 8 * on(3)
            + 16 * on(4) + 32 * on(5) + 64 * on(6) + 128 * on(7)

\* handle_read_coils, handle_read_discrete_inputs.  No limit of the count: the
\* number of bytes is cut off where it does not fit.
ReadBits(table, request) ==
    IF request.size < 4 THEN Exception(request.code, IllegalDataValue)
    ELSE LET bytes == (request.count + 7) \div 8
         IN  [code |-> request.code, byte_count |-> bytes % 256,
              bytes |-> [k \in 1..bytes |->
                            Packed(table, request.start, request.count, k - 1)]]

\* handle_write_single_coil, handle_write_single_register: the answer repeats
\* the request.
Echo(request) == [code |-> request.code, start |-> request.start, count |-> request.count]

\* In these requests the number after the address is the value.
WriteSingle(table, request) ==
    Inserted(table, [a \in {request.start} |->
        IF request.code = WriteSingleCoil THEN request.count = CoilOn ELSE request.count])

\* handle_write_multiple_registers
WellFormed(request) ==
    /\ request.size >= 5
    /\ request.size >= 5 + request.byte_count
    /\ request.count * 2 = request.byte_count

WriteMultiple(table, request) ==
    Inserted(table, [a \in {Nth(request.start, i) : i \in 0..(request.count - 1)} |->
        request.words[((a - request.start) % Addresses) + 1]])

\* process_request: the response, and the tables after it.
Process(request, tables) ==
    LET name == TableOf(request.code)
        table == tables[name]
        readonly(response) == [response |-> response, tables |-> tables]
        refused(exception) == readonly(Exception(request.code, exception))
        written(changed) == [response |-> Echo(request),
                             tables |-> [tables EXCEPT ![name] = changed]]
    IN  CASE request.code \in {ReadHoldingRegisters, ReadInputRegisters} ->
                readonly(ReadRegisters(table, request))
          [] request.code \in {ReadCoils, ReadDiscreteInputs} ->
                readonly(ReadBits(table, request))
          [] request.code \in {WriteSingleCoil, WriteSingleRegister} ->
                IF request.size < 4 THEN refused(IllegalDataValue)
                ELSE written(WriteSingle(table, request))
          [] request.code = WriteMultipleRegisters ->
                IF ~WellFormed(request) THEN refused(IllegalDataValue)
                ELSE written(WriteMultiple(table, request))
          [] OTHER -> refused(IllegalFunction)

-----------------------------------------------------------------------------
\* handle_connection: one frame of the connection.  length counts the unit and
\* the bytes of the request; a frame of another protocol is skipped (its body
\* is not: it is read as the next header), one that is too long ends the
\* connection, one without a function code has no answer.
MaxData == 260
NoAnswer == [code |-> 0]

Serve(frame, tables) ==
    LET data == frame.length - 1 IN
    IF frame.protocol # 0 \/ data \notin 1..MaxData
    THEN [response |-> NoAnswer, tables |-> tables]
    ELSE Process(frame.request, tables)
=============================================================================
