------------------------------ MODULE SpiFlash ------------------------------
(***************************************************************************)
(* The SPI flash: the byte-wise state machine of riscv-spi.adb and the     *)
(* driver programs/spi.c, which drives it one store to DATA at a time.     *)
(* What a byte means depends on the bytes since chip select went low, and  *)
(* data bytes have the values of commands.  The caller calls               *)
(* spi_flash_write_enable before each spi_flash_write, as spi.h asks.      *)
(***************************************************************************)
EXTENDS Integers, Sequences

CONSTANTS
    ByteRadix,         \* number of byte values, 256 in the code
    CMD_READ_ID,
    FlashSize,     \* Flash_Size
    FlashAddresses, FlashBuffers, FlashCounts   \* what the caller passes

CMD_PAGE_PROGRAM == 2
CMD_READ         == 3
CMD_READ_STATUS  == 5
CMD_WRITE_ENABLE == 6
FF     == ByteRadix - 1
Commands == {CMD_PAGE_PROGRAM, CMD_READ, CMD_READ_STATUS, CMD_WRITE_ENABLE, CMD_READ_ID}
MOSI   == 0 .. ByteRadix - 1

ASSUME SpiAssumption ==
    /\ ByteRadix \in Nat /\ FlashSize \in 1 .. ByteRadix * ByteRadix * ByteRadix
    /\ Commands \subseteq MOSI
    /\ CMD_READ_ID \notin {CMD_PAGE_PROGRAM, CMD_READ, CMD_READ_STATUS, CMD_WRITE_ENABLE}
    /\ FlashAddresses \subseteq 0 .. FlashSize - 1
    /\ FlashBuffers \subseteq Seq(MOSI) /\ FlashCounts \subseteq Nat

VARIABLES
    cs,            \* chip select is active
    fsm,           \* Flash_FSM
    flashAddr,     \* Flash_Addr
    wel,           \* Write_Enable
    dataIn,        \* Data_In
    flash,         \* the array
    call,          \* the driver's call: its name, the bytes it sends, what it answers
    sent,          \* how many of them it has sent
    rx,            \* what it has received
    enabled,       \* history: spi_flash_write_enable was called since the last write
    before,        \* history: the array when the call began
    flashReply     \* history: what the last read gave

device == <<cs, fsm, flashAddr, wel, dataIn, flash>>
driver == <<call, sent, rx>>
spiVars == <<device, driver, enabled, before, flashReply>>

States == {"Idle", "Read_Addr1", "Read_Addr2", "Read_Addr3", "Read_Data",
           "Program_Addr1", "Program_Addr2", "Program_Addr3", "Program_Data"}

NoCall == [name |-> "none", bytes |-> <<>>, header |-> 0]

SpiTypeOK ==
    /\ cs \in BOOLEAN /\ fsm \in States /\ wel \in BOOLEAN
    /\ flashAddr \in 0 .. ByteRadix * ByteRadix * ByteRadix
    /\ dataIn \in MOSI /\ flash \in [0 .. FlashSize - 1 -> MOSI]
    /\ call \in [name : {"none", "id", "status", "enable", "read", "write"},
                 bytes : Seq(MOSI), header : {0, 1, 4}]
    /\ sent \in 0 .. Len(call.bytes)
    /\ rx \in Seq(MOSI) /\ flashReply \in Seq(MOSI) /\ enabled \in BOOLEAN
    /\ before \in [0 .. FlashSize - 1 -> MOSI]

SpiInit ==
    /\ cs = FALSE /\ fsm = "Idle" /\ flashAddr = 0 /\ wel = FALSE /\ dataIn = FF
    /\ flash = [a \in 0 .. FlashSize - 1 |-> FF]
    /\ call = NoCall /\ sent = 0 /\ rx = <<>>
    /\ enabled = FALSE /\ before = flash /\ flashReply = <<>>

----------------------------------------------------------------------------
(* The device *)

\* The state after a command byte; one that sends no address leaves it Idle.
Command(b) ==
    CASE b = CMD_READ -> "Read_Addr1"
      [] b = CMD_PAGE_PROGRAM /\ wel -> "Program_Addr1"
      [] OTHER -> "Idle"

\* What a command byte is answered.  A READ or PAGE_PROGRAM leaves Data_In.
CommandReply(b) ==
    CASE b \in {CMD_READ, CMD_PAGE_PROGRAM} -> dataIn
      [] b = CMD_READ_ID -> FF - 1
      [] b = CMD_READ_STATUS -> IF wel THEN 2 ELSE 0
      [] OTHER -> FF

\* The state after an address byte.
Behind(s) ==
    CASE s = "Read_Addr1" -> "Read_Addr2" [] s = "Read_Addr2" -> "Read_Addr3"
      [] s = "Read_Addr3" -> "Read_Data"
      [] s = "Program_Addr1" -> "Program_Addr2" [] s = "Program_Addr2" -> "Program_Addr3"
      [] s = "Program_Addr3" -> "Program_Data"

\* Flash_Addr with an address byte or'ed into its place.
Addressed(s, b) ==
    CASE s \in {"Read_Addr1", "Program_Addr1"} -> b * ByteRadix * ByteRadix
      [] s \in {"Read_Addr2", "Program_Addr2"} -> flashAddr + b * ByteRadix
      [] s \in {"Read_Addr3", "Program_Addr3"} -> flashAddr + b

\* Process_SPI_Byte while chip select is active.
ProcessByte(b) ==
    \/ /\ fsm = "Idle"
       /\ fsm' = Command(b) /\ dataIn' = CommandReply(b)
       /\ flashAddr' = IF Command(b) = "Idle" THEN flashAddr ELSE 0
       /\ wel' = (wel \/ b = CMD_WRITE_ENABLE)
       /\ UNCHANGED flash
    \/ /\ fsm \in States \ {"Idle", "Read_Data", "Program_Data"}
       /\ fsm' = Behind(fsm) /\ flashAddr' = Addressed(fsm, b) /\ dataIn' = FF
       /\ UNCHANGED <<wel, flash>>
    \/ /\ fsm = "Read_Data"
       /\ IF flashAddr < FlashSize
          THEN dataIn' = flash[flashAddr] /\ flashAddr' = flashAddr + 1
          ELSE dataIn' = FF /\ UNCHANGED flashAddr
       /\ UNCHANGED <<fsm, wel, flash>>
    \/ /\ fsm = "Program_Data"
       /\ IF flashAddr < FlashSize
          THEN flash' = [flash EXCEPT ![flashAddr] = b] /\ flashAddr' = flashAddr + 1
          ELSE UNCHANGED <<flash, flashAddr>>
       /\ dataIn' = FF /\ wel' = FALSE
       /\ UNCHANGED fsm

\* Write_Word of CTRL with the chip select bit set.
Deselected == "Idle"

----------------------------------------------------------------------------
(* The driver.  A call is chip select low, the bytes, chip select high. *)

Filler(n) == [i \in 1 .. n |-> FF]
AddressBytes(a) ==
    <<(a \div (ByteRadix * ByteRadix)) % ByteRadix, (a \div ByteRadix) % ByteRadix, a % ByteRadix>>

spi_flash_read_id == [name |-> "id", bytes |-> <<CMD_READ_ID>> \o Filler(3), header |-> 1]
spi_flash_read_status == [name |-> "status", bytes |-> <<CMD_READ_STATUS>> \o Filler(1), header |-> 1]
spi_flash_write_enable == [name |-> "enable", bytes |-> <<CMD_WRITE_ENABLE>>, header |-> 1]
spi_flash_read(a, n) ==
    [name |-> "read", bytes |-> <<CMD_READ>> \o AddressBytes(a) \o Filler(n), header |-> 4]
spi_flash_write(a, buf) ==
    [name |-> "write", bytes |-> <<CMD_PAGE_PROGRAM>> \o AddressBytes(a) \o buf, header |-> 4]

Calls ==
    {spi_flash_read_id, spi_flash_read_status, spi_flash_write_enable}
    \cup {spi_flash_read(a, n) : a \in FlashAddresses, n \in FlashCounts}
    \cup {spi_flash_write(a, buf) : a \in FlashAddresses, buf \in FlashBuffers}

\* spi_cs_active
BeginCall ==
    /\ call = NoCall
    /\ \E c \in Calls : (c.name = "write" => enabled) /\ call' = c
    /\ sent' = 0 /\ rx' = <<>>
    /\ cs' = TRUE /\ before' = flash
    /\ UNCHANGED <<fsm, flashAddr, wel, dataIn, flash, enabled, flashReply>>

\* spi_transfer: a store to DATA and a load from it.
Transfer ==
    /\ call # NoCall /\ sent < Len(call.bytes)
    /\ ProcessByte(call.bytes[sent + 1])
    /\ sent' = sent + 1
    /\ rx' = IF sent < call.header THEN rx ELSE Append(rx, dataIn')
    /\ UNCHANGED <<cs, call, enabled, before, flashReply>>

\* spi_cs_inactive
EndCall ==
    /\ call # NoCall /\ sent = Len(call.bytes)
    /\ cs' = FALSE /\ fsm' = Deselected
    /\ call' = NoCall /\ sent' = 0 /\ rx' = <<>>
    /\ enabled' = CASE call.name = "enable" -> TRUE
                    [] call.name = "write" -> FALSE
                    [] OTHER -> enabled
    /\ before' = flash
    /\ flashReply' = IF call.name = "read" THEN rx ELSE flashReply
    /\ UNCHANGED <<flashAddr, wel, dataIn, flash>>

SpiNext == BeginCall \/ Transfer \/ EndCall

SpiSpec == SpiInit /\ [][SpiNext]_spiVars

----------------------------------------------------------------------------
(* Properties *)

Store == INSTANCE ByteStore WITH
    Size <- FlashSize, Writable <- FlashSize, Beyond <- FF,
    Initial <- [a \in 0 .. FlashSize - 1 |-> FF], Addresses <- FlashAddresses,
    Buffers <- FlashBuffers, Counts <- FlashCounts,
    cells <- before, reply <- flashReply

\* Driver and device together are a byte store: whatever calls came before, a
\* write puts its bytes where it should and nothing else changes, a read gives
\* what is there, and neither is disturbed by data that looks like a command
\* (Process_SPI_Byte, spi_flash_read, spi_flash_write).
FlashIsByteStore == Store!Spec
=============================================================================
