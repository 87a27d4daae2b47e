-------------------------------- MODULE I2c ---------------------------------
(***************************************************************************)
(* The I2C controller of riscv-i2c.adb with the EEPROM and a sensor on its *)
(* bus, and the guest that drives it through programs/i2c.c one operation  *)
(* at a time, in the sequences of the i2c command of programs/cli.c.       *)
(* The sensor stands for the thermometer and the accelerometer.            *)
(***************************************************************************)
EXTENDS Integers, Sequences

CONSTANTS
    EepromSize,   \* number of values of a byte and of EEPROM cells, 256 in the code
    Measured,     \* the sensor's registers
    Registers,    \* the registers and cells the guest asks for
    BusBytes      \* the bytes it writes

SensorSize == Len(Measured)
I2cByte == 0 .. EepromSize - 1
Waiting == EepromSize - 1   \* 0xFF: the EEPROM's pointer before its address byte

ASSUME I2cAssumption ==
    /\ EepromSize \in Nat \ {0, 1}
    /\ Measured \in Seq(I2cByte) /\ SensorSize \in 1 .. EepromSize - 1
    /\ Registers \subseteq I2cByte /\ BusBytes \subseteq I2cByte

VARIABLES
    active,       \* Transfer_Active
    current,      \* Current_Device
    data,         \* DATA
    ack,          \* STATUS has ACK_RECV
    pointer,      \* Reg_Pointer of each device
    eeprom,       \* the EEPROM's Data
    script,       \* the operations the guest's command has left, STOP last
    command,      \* the command
    heard,        \* what i2c_read_ack and i2c_read_nack have returned to it
    replies       \* history: what the last finished read of each device gave

i2cVars == <<active, current, data, ack, pointer, eeprom, script, command, heard, replies>>

Devices == {"eeprom", "sensor"}
Nobody == "nobody"             \* Current_Device = 0, an address without a device

Sensed == [r \in 0 .. SensorSize - 1 |-> Measured[r + 1]]
Erased == [a \in I2cByte |-> EepromSize - 1]

Start(d) == [op |-> "START", device |-> d]
Put(b)   == [op |-> "WRITE", byte |-> b]
Get      == [op |-> "READ"]
Stop     == [op |-> "STOP"]

NoCommand == [reads |-> FALSE, device |-> Nobody, asks |-> FALSE]

I2cTypeOK ==
    /\ active \in BOOLEAN /\ ack \in BOOLEAN /\ data \in I2cByte
    /\ current \in Devices \cup {Nobody}
    /\ pointer \in [Devices -> I2cByte] /\ eeprom \in [I2cByte -> I2cByte]
    /\ heard \in Seq(I2cByte) /\ replies \in [Devices -> Seq(I2cByte)]

I2cInit ==
    /\ active = FALSE /\ current = Nobody /\ data = 0 /\ ack = FALSE
    /\ pointer = [d \in Devices |-> IF d = "eeprom" THEN Waiting ELSE 0] /\ eeprom = Erased
    /\ script = <<>> /\ command = NoCommand /\ heard = <<>>
    /\ replies = [d \in Devices |-> <<>>]

----------------------------------------------------------------------------
(* Process_Operation, one action per operation *)

Advanced(p) == (p + 1) % EepromSize
Content(d) == IF d = "eeprom" THEN eeprom ELSE Sensed

\* A START finds the device; a repeated one leaves the pointers.
DoStart(d) ==
    /\ active' = TRUE /\ current' = d /\ ack' = (d # Nobody)
    /\ UNCHANGED <<data, pointer, eeprom>>

\* Fault variant: STOP leaves the EEPROM's pointer.
ReleasedKept == pointer

\* The pointers after STOP.
Released == IF current = "eeprom" THEN [pointer EXCEPT !["eeprom"] = Waiting] ELSE pointer

DoStop ==
    /\ active' = FALSE /\ current' = Nobody
    /\ pointer' = Released
    /\ UNCHANGED <<data, ack, eeprom>>

\* The byte is an address for a sensor and for an EEPROM that waits for one.
DoWrite(b) ==
    /\ active
    /\ data' = b /\ ack' = (current # Nobody)
    /\ \/ /\ current = "sensor" \/ (current = "eeprom" /\ pointer[current] = Waiting)
          /\ pointer' = [pointer EXCEPT ![current] = b]
          /\ UNCHANGED eeprom
       \/ /\ current = "eeprom" /\ pointer[current] # Waiting
          /\ eeprom' = [eeprom EXCEPT ![pointer[current]] = b]
          /\ pointer' = [pointer EXCEPT ![current] = Advanced(@)]
       \/ /\ current = Nobody
          /\ UNCHANGED <<pointer, eeprom>>
    /\ UNCHANGED <<active, current>>

DoRead ==
    /\ active
    /\ \/ /\ current # Nobody /\ pointer[current] \in DOMAIN Content(current)
          /\ data' = Content(current)[pointer[current]] /\ ack' = TRUE
          /\ pointer' = [pointer EXCEPT ![current] = Advanced(@)]
       \/ /\ current # Nobody => pointer[current] \notin DOMAIN Content(current)
          /\ data' = EepromSize - 1 /\ ack' = FALSE
          /\ UNCHANGED pointer
    /\ UNCHANGED <<active, current, eeprom>>

----------------------------------------------------------------------------
(* The guest *)

\* The i2c command's sequences: read, temp and accel; write; scan.
ReadScript(d, reg, n) ==
    <<Start(d), Put(reg), Start(d)>> \o [i \in 1 .. n |-> Get] \o <<Stop>>
WriteScript(d, reg, b) == <<Start(d), Put(reg), Put(b), Stop>>
ScanScript(d) == <<Start(d), Stop>>

\* A reading of the sensor is one register or several; of the EEPROM, one.
ReadCounts(d) == IF d = "sensor" THEN {1, SensorSize} ELSE {1}

\* asks: whether the command gives up when its first START is not answered,
\* as every form but eeprom does.  The accelerometer's second START (cli.c:918)
\* is not looked at either, but it has answered the first by then.
BeginCommand ==
    /\ script = <<>>
    /\ \E d \in Devices \cup {Nobody}, reg \in Registers, asks \in BOOLEAN :
          \/ /\ script' = ScanScript(d)
             /\ command' = NoCommand
          \/ /\ asks \/ d = "eeprom"
             /\ \E b \in BusBytes : script' = WriteScript(d, reg, b)
             /\ command' = [reads |-> FALSE, device |-> d, asks |-> asks]
          \/ /\ asks \/ d = "eeprom"
             /\ \E n \in ReadCounts(d) : script' = ReadScript(d, reg, n)
             /\ command' = [reads |-> TRUE, device |-> d, asks |-> asks]
    /\ heard' = <<>>
    /\ UNCHANGED <<active, current, data, ack, pointer, eeprom, replies>>

\* A store to CTRL and what the guest does with the answer.
Operation ==
    /\ script # <<>>
    /\ LET next == Head(script) IN
         \/ /\ next.op = "START" /\ DoStart(next.device)
            /\ script' = IF command.asks /\ ~ack' THEN <<Stop>> ELSE Tail(script)
            /\ UNCHANGED <<heard, replies>>
         \/ /\ next.op = "WRITE" /\ DoWrite(next.byte)
            /\ script' = Tail(script)
            /\ UNCHANGED <<heard, replies>>
         \/ /\ next.op = "READ" /\ DoRead
            /\ script' = Tail(script) /\ heard' = Append(heard, data')
            /\ UNCHANGED replies
         \/ /\ next.op = "STOP" /\ DoStop
            /\ script' = <<>> /\ UNCHANGED heard
            /\ replies' = IF command.reads /\ command.device # Nobody
                          THEN [replies EXCEPT ![command.device] = heard] ELSE replies
    /\ UNCHANGED command

I2cNext == BeginCommand \/ Operation

I2cSpec == I2cInit /\ [][I2cNext]_i2cVars

----------------------------------------------------------------------------
(* Properties *)

EepromStore == INSTANCE ByteStore WITH
    Size <- EepromSize, Writable <- EepromSize - 1, Initial <- Erased,
    Beyond <- EepromSize - 1, Addresses <- Registers,
    Buffers <- {<<b>> : b \in BusBytes}, Counts <- {1},
    cells <- eeprom, reply <- replies["eeprom"]

SensorStore == INSTANCE ByteStore WITH
    Size <- SensorSize, Writable <- 0, Initial <- Sensed,
    Beyond <- EepromSize - 1, Addresses <- Registers,
    Buffers <- {}, Counts <- {1, SensorSize},
    cells <- Sensed, reply <- replies["sensor"]

\* Each device on the bus is a byte store of its own, whatever was said to the
\* other ones, to nobody or to it before: a byte is never taken for an address
\* nor an address for a byte.  The EEPROM's last cell cannot be written, as its
\* address is the mark of a device that waits for one (Process_Operation).
BusIsByteStores == EepromStore!Spec /\ SensorStore!Spec
=============================================================================
