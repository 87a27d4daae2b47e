--------------------------- MODULE StorageProofs ----------------------------
(***************************************************************************)
(* The drivers of the SPI flash and of the I2C devices implement byte      *)
(* stores, for arrays of any size and calls of any length.  Neither        *)
(* protocol says what a byte on the wire means: it depends on the bytes    *)
(* before it.  The inductive invariants say, for every place in a call,    *)
(* what the device takes the next byte for, and what the bytes so far have *)
(* done.                                                                   *)
(***************************************************************************)
EXTENDS StorageDevices, Facts

----------------------------------------------------------------------------
(* The SPI flash *)

Cells == 0 .. FlashSize - 1
High(a) == (a \div (ByteRadix * ByteRadix)) % ByteRadix
Middle(a) == (a \div ByteRadix) % ByteRadix

\* Where the address register stands k data bytes after an address.
Reached(a, k) == IF a + k < FlashSize THEN a + k ELSE FlashSize

\* The device after the address bytes sent so far of a call that began with a
\* command whose states these are.
InHeader(a, states, dataState) ==
    /\ sent = 0 => fsm = "Idle"
    /\ sent = 1 => fsm = states[1] /\ flashAddr = 0
    /\ sent = 2 => fsm = states[2] /\ flashAddr = High(a) * (ByteRadix * ByteRadix)
    /\ sent = 3 => /\ fsm = states[3]
                   /\ flashAddr = High(a) * (ByteRadix * ByteRadix) + Middle(a) * ByteRadix
    /\ sent >= 4 => fsm = dataState /\ flashAddr = Reached(a, sent - 4)

ReadAt(a, n) ==
    /\ flash = before
    /\ InHeader(a, <<"Read_Addr1", "Read_Addr2", "Read_Addr3">>, "Read_Data")
    /\ Len(rx) = IF sent <= 4 THEN 0 ELSE sent - 4
    /\ \A i \in 1 .. Len(rx) :
          rx[i] = IF a + i - 1 < FlashSize THEN before[a + i - 1] ELSE FF

\* The cells when the first k bytes of a buffer are written.
WrittenTo(a, buf, k) ==
    [c \in Cells |-> IF c - a + 1 \in 1 .. k THEN buf[c - a + 1] ELSE before[c]]

WriteAt(a, buf) ==
    /\ enabled
    /\ InHeader(a, <<"Program_Addr1", "Program_Addr2", "Program_Addr3">>, "Program_Data")
    /\ sent <= 4 => flash = before
    /\ sent > 4 => flash = WrittenTo(a, buf, sent - 4)

\* A write that was announced finds the device ready for it.
Announced == enabled /\ ~(call.name = "write" /\ sent > 4) => wel

BetweenCalls == call = NoCall => fsm = "Idle" /\ sent = 0 /\ rx = <<>> /\ flash = before

\* The short calls leave the device where it was.
ShortCall ==
    call.name \in {"id", "status", "enable"} =>
        /\ fsm = "Idle" /\ flash = before
        /\ call.name = "enable" /\ sent = 1 => wel

SpiInv ==
    /\ SpiTypeOK /\ call \in Calls \cup {NoCall}
    /\ Announced /\ BetweenCalls /\ ShortCall
    /\ \A a \in FlashAddresses, n \in FlashCounts :
          call = spi_flash_read(a, n) => ReadAt(a, n)
    /\ \A a \in FlashAddresses, buf \in FlashBuffers :
          call = spi_flash_write(a, buf) => WriteAt(a, buf)


\* What a call puts on the wire: a command, three address bytes and the rest.
LEMMA Framed ==
    ASSUME NEW S, NEW c \in S, NEW x \in S, NEW y \in S, NEW z \in S, NEW s \in Seq(S)
    PROVE  LET w == <<c>> \o <<x, y, z>> \o s
           IN  /\ w \in Seq(S) /\ Len(w) = 4 + Len(s)
               /\ w[1] = c /\ w[2] = x /\ w[3] = y /\ w[4] = z
               /\ \A i \in 1 .. Len(s) : w[4 + i] = s[i]
<1> DEFINE h == <<c>> \o <<x, y, z>>
<1>1. /\ h \in Seq(S) /\ Len(h) = 4 /\ h[1] = c /\ h[2] = x /\ h[3] = y /\ h[4] = z
  <2>1. <<c>> \in Seq(S) /\ <<x, y, z>> \in Seq(S) /\ Len(<<c>>) = 1 /\ Len(<<x, y, z>>) = 3
    OBVIOUS
  <2>2. QED
    BY <2>1
<1> HIDE DEF h
<1>2. h \o s \in Seq(S) /\ Len(h \o s) = 4 + Len(s)
  BY <1>1, Concatenation
<1>3. /\ \A i \in 1 .. 4 : (h \o s)[i] = h[i]
      /\ \A i \in 1 .. Len(s) : (h \o s)[4 + i] = s[i]
  BY <1>1, <1>2
<1>4. QED
  BY <1>1, <1>2, <1>3 DEF h

LEMMA FillerType ==
    ASSUME NEW n \in Nat
    PROVE  Filler(n) \in Seq(MOSI) /\ Len(Filler(n)) = n /\ \A i \in 1 .. n : Filler(n)[i] = FF
<1>1. FF \in MOSI
  BY SpiAssumption DEF FF, MOSI, Commands, CMD_WRITE_ENABLE
<1>2. QED
  BY <1>1 DEF Filler

LEMMA AddressIs ==
    ASSUME NEW a \in FlashAddresses
    PROVE  /\ a \in Cells /\ High(a) \in MOSI /\ Middle(a) \in MOSI /\ a % ByteRadix \in MOSI
           /\ AddressBytes(a) = <<High(a), Middle(a), a % ByteRadix>>
           /\ High(a) * (ByteRadix * ByteRadix) \in 0 .. a
           /\ High(a) * (ByteRadix * ByteRadix) + Middle(a) * ByteRadix \in 0 .. a
           /\ High(a) * (ByteRadix * ByteRadix) + Middle(a) * ByteRadix + (a % ByteRadix) = a
<1>1. ByteRadix \in Nat \ {0} /\ a \in Cells
  BY SpiAssumption DEF Cells, Commands, CMD_WRITE_ENABLE, MOSI
<1>2. a \in 0 .. ByteRadix * ByteRadix * ByteRadix - 1
  BY <1>1, SpiAssumption DEF Cells
<1> DEFINE R == ByteRadix
<1>3. /\ High(a) \in 0 .. R - 1 /\ Middle(a) \in 0 .. R - 1 /\ a % R \in 0 .. R - 1
      /\ High(a) * (R * R) \in 0 .. a
      /\ High(a) * (R * R) + Middle(a) * R \in 0 .. a
      /\ High(a) * (R * R) + Middle(a) * R + (a % R) = a
  <2> HIDE DEF R
  <2>1. /\ (a \div (R * R)) % R \in 0 .. R - 1 /\ (a \div R) % R \in 0 .. R - 1
        /\ a % R \in 0 .. R - 1
        /\ ((a \div (R * R)) % R) * (R * R) \in 0 .. a
        /\ ((a \div (R * R)) % R) * (R * R) + ((a \div R) % R) * R \in 0 .. a
        /\ ((a \div (R * R)) % R) * (R * R) + ((a \div R) % R) * R + (a % R) = a
    <3>1. R \in Nat \ {0} /\ a \in 0 .. R * R * R - 1
      BY <1>1, <1>2 DEF R
    <3>2. QED
      BY <3>1, ThreeDigits, Zenon
  <2>2. High(a) = (a \div (R * R)) % R /\ Middle(a) = (a \div R) % R
    BY Zenon DEF High, Middle, R
  <2>3. QED
    BY <2>1, <2>2, Zenon
<1>4. AddressBytes(a) = <<High(a), Middle(a), a % R>>
  BY Zenon DEF AddressBytes, High, Middle, R
<1>5. MOSI = 0 .. R - 1
  BY DEF MOSI
<1>6. QED
  BY <1>1, <1>3, <1>4, <1>5, Zenon DEF R

\* The calls with an address, as the device sees them.
LEMMA ReadCall ==
    ASSUME NEW a \in FlashAddresses, NEW n \in FlashCounts
    PROVE  LET c == spi_flash_read(a, n)
           IN  /\ c.name = "read" /\ c.header = 4 /\ c.bytes \in Seq(MOSI) /\ Len(c.bytes) = 4 + n
               /\ c.bytes[1] = CMD_READ /\ c.bytes[2] = High(a) /\ c.bytes[3] = Middle(a)
               /\ c.bytes[4] = a % ByteRadix
<1>1. n \in Nat /\ CMD_READ \in MOSI
  BY SpiAssumption DEF Commands
<1>2. /\ High(a) \in MOSI /\ Middle(a) \in MOSI /\ a % ByteRadix \in MOSI
      /\ AddressBytes(a) = <<High(a), Middle(a), a % ByteRadix>>
  BY AddressIs
<1>3. Filler(n) \in Seq(MOSI) /\ Len(Filler(n)) = n
  BY <1>1, FillerType
<1> DEFINE w == <<CMD_READ>> \o <<High(a), Middle(a), a % ByteRadix>> \o Filler(n)
<1>4. /\ w \in Seq(MOSI) /\ Len(w) = 4 + Len(Filler(n))
      /\ w[1] = CMD_READ /\ w[2] = High(a) /\ w[3] = Middle(a) /\ w[4] = a % ByteRadix
  BY <1>1, <1>2, <1>3, Framed
<1>5. spi_flash_read(a, n) = [name |-> "read", bytes |-> w, header |-> 4]
  BY <1>2 DEF spi_flash_read
<1> HIDE DEF w
<1>6. QED
  BY <1>3, <1>4, <1>5

LEMMA WriteCall ==
    ASSUME NEW a \in FlashAddresses, NEW buf \in FlashBuffers
    PROVE  LET c == spi_flash_write(a, buf)
           IN  /\ c.name = "write" /\ c.header = 4 /\ c.bytes \in Seq(MOSI)
               /\ Len(c.bytes) = 4 + Len(buf)
               /\ c.bytes[1] = CMD_PAGE_PROGRAM /\ c.bytes[2] = High(a) /\ c.bytes[3] = Middle(a)
               /\ c.bytes[4] = a % ByteRadix
               /\ \A i \in 1 .. Len(buf) : c.bytes[4 + i] = buf[i]
<1>1. buf \in Seq(MOSI) /\ CMD_PAGE_PROGRAM \in MOSI
  BY SpiAssumption DEF Commands
<1>2. /\ High(a) \in MOSI /\ Middle(a) \in MOSI /\ a % ByteRadix \in MOSI
      /\ AddressBytes(a) = <<High(a), Middle(a), a % ByteRadix>>
  BY AddressIs
<1> DEFINE w == <<CMD_PAGE_PROGRAM>> \o <<High(a), Middle(a), a % ByteRadix>> \o buf
<1>3. /\ w \in Seq(MOSI) /\ Len(w) = 4 + Len(buf)
      /\ w[1] = CMD_PAGE_PROGRAM /\ w[2] = High(a) /\ w[3] = Middle(a) /\ w[4] = a % ByteRadix
      /\ \A i \in 1 .. Len(buf) : w[4 + i] = buf[i]
  BY <1>1, <1>2, Framed
<1>4. spi_flash_write(a, buf) = [name |-> "write", bytes |-> w, header |-> 4]
  BY <1>2 DEF spi_flash_write
<1> HIDE DEF w
<1>5. QED
  BY <1>3, <1>4

LEMMA ShortCalls ==
    /\ spi_flash_read_id.name = "id" /\ spi_flash_read_id.header = 1
    /\ spi_flash_read_id.bytes \in Seq(MOSI) /\ Len(spi_flash_read_id.bytes) = 4
    /\ spi_flash_read_id.bytes[1] = CMD_READ_ID
    /\ \A i \in 2 .. 4 : spi_flash_read_id.bytes[i] = FF
    /\ spi_flash_read_status.name = "status" /\ spi_flash_read_status.header = 1
    /\ spi_flash_read_status.bytes \in Seq(MOSI) /\ Len(spi_flash_read_status.bytes) = 2
    /\ spi_flash_read_status.bytes[1] = CMD_READ_STATUS
    /\ spi_flash_read_status.bytes[2] = FF
    /\ spi_flash_write_enable.name = "enable" /\ spi_flash_write_enable.header = 1
    /\ spi_flash_write_enable.bytes = <<CMD_WRITE_ENABLE>>
    /\ spi_flash_write_enable.bytes \in Seq(MOSI)
<1>1. FF \in MOSI /\ Commands \subseteq MOSI
  BY SpiAssumption DEF FF, MOSI, Commands, CMD_WRITE_ENABLE
<1>2. ASSUME NEW c \in MOSI, NEW n \in Nat
      PROVE  /\ <<c>> \o Filler(n) \in Seq(MOSI) /\ Len(<<c>> \o Filler(n)) = n + 1
             /\ (<<c>> \o Filler(n))[1] = c
             /\ \A i \in 2 .. n + 1 : (<<c>> \o Filler(n))[i] = FF
  <2> DEFINE f == Filler(n)
  <2>1. f \in Seq(MOSI) /\ Len(f) = n /\ \A i \in 1 .. n : f[i] = FF
    BY FillerType
  <2> HIDE DEF f
  <2>2. <<c>> \in Seq(MOSI) /\ Len(<<c>>) = 1
    OBVIOUS
  <2>3. \A i \in 2 .. n + 1 : i - 1 \in 1 .. n
    OBVIOUS
  <2>4. /\ <<c>> \o f \in Seq(MOSI) /\ Len(<<c>> \o f) = n + 1 /\ (<<c>> \o f)[1] = c
        /\ \A i \in 2 .. n + 1 : (<<c>> \o f)[i] = f[i - 1]
    BY <2>1, <2>2
  <2>5. QED
    BY <2>1, <2>3, <2>4 DEF f
<1>3. CMD_READ_ID \in MOSI /\ CMD_READ_STATUS \in MOSI /\ CMD_WRITE_ENABLE \in MOSI
  BY <1>1 DEF Commands
<1>4. QED
  BY <1>2, <1>3 DEF spi_flash_read_id, spi_flash_read_status, spi_flash_write_enable


LEMMA SpiConstants ==
    /\ ByteRadix \in Nat \ {0} /\ FlashSize \in Nat \ {0}
    /\ FlashSize <= ByteRadix * ByteRadix * ByteRadix
    /\ MOSI = 0 .. ByteRadix - 1 /\ FF \in MOSI /\ FF - 1 \in MOSI /\ {0, 2} \subseteq MOSI
    /\ FF \notin {CMD_PAGE_PROGRAM, CMD_READ, CMD_READ_STATUS}
<1>1. 6 \in MOSI /\ ByteRadix \in Nat
  BY SpiAssumption DEF Commands, CMD_WRITE_ENABLE
<1>2. QED
  BY <1>1, SpiAssumption
  DEF MOSI, FF, CMD_PAGE_PROGRAM, CMD_READ, CMD_READ_STATUS

CallRecords == [name : {"none", "id", "status", "enable", "read", "write"},
                bytes : Seq(MOSI), header : {0, 1, 4}]

LEMMA CallType == \A c \in Calls : c \in CallRecords /\ c # NoCall /\ c.name # "none"
<1>1. \A a \in FlashAddresses, n \in FlashCounts : spi_flash_read(a, n) \in CallRecords
  BY ReadCall DEF CallRecords, spi_flash_read
<1>2. \A a \in FlashAddresses, buf \in FlashBuffers : spi_flash_write(a, buf) \in CallRecords
  BY WriteCall DEF CallRecords, spi_flash_write
<1>3. {spi_flash_read_id, spi_flash_read_status, spi_flash_write_enable} \subseteq CallRecords
  BY ShortCalls
  DEF CallRecords, spi_flash_read_id, spi_flash_read_status, spi_flash_write_enable
<1>4. \A c \in Calls : c \in CallRecords
  BY <1>1, <1>2, <1>3 DEF Calls
<1>5. \A c \in Calls : c.name # "none"
  BY ReadCall, WriteCall, ShortCalls DEF Calls
<1>6. QED
  BY <1>4, <1>5 DEF NoCall

LEMMA SpiInitially == SpiInit => SpiInv
<1> SUFFICES ASSUME SpiInit PROVE SpiInv
  OBVIOUS
<1>1. call = NoCall /\ call.name = "none" /\ call.bytes = <<>> /\ call.header = 0
  BY DEF SpiInit, NoCall
<1>2. SpiTypeOK
  <2>1. call \in CallRecords
    BY DEF SpiInit, NoCall, CallRecords
  <2>2. flash \in [0 .. FlashSize - 1 -> MOSI] /\ 0 \in 0 .. ByteRadix * ByteRadix * ByteRadix
    BY SpiConstants DEF SpiInit
  <2>3. sent \in 0 .. Len(call.bytes) /\ rx \in Seq(MOSI) /\ flashReply \in Seq(MOSI)
    BY <1>1 DEF SpiInit
  <2>4. QED
    BY <2>1, <2>2, <2>3, SpiConstants DEF SpiInit, SpiTypeOK, CallRecords, States
<1>3. Announced /\ BetweenCalls /\ ShortCall
  BY <1>1 DEF SpiInit, Announced, BetweenCalls, ShortCall
<1>4. \A c \in Calls : call # c
  BY <1>1, CallType
<1>5. /\ \A a \in FlashAddresses, n \in FlashCounts : spi_flash_read(a, n) \in Calls
      /\ \A a \in FlashAddresses, buf \in FlashBuffers : spi_flash_write(a, buf) \in Calls
  BY DEF Calls
<1>6. QED
  BY <1>1, <1>2, <1>3, <1>4, <1>5 DEF SpiInv

\* A call begins with a device that waits for a command.
LEMMA SpiBegin == ASSUME SpiInv, BeginCall PROVE SpiInv'
<1>1. PICK c \in Calls : (c.name = "write" => enabled) /\ call' = c
  BY DEF BeginCall
<1>2. call = NoCall /\ fsm = "Idle" /\ sent' = 0 /\ rx' = <<>> /\ cs' = TRUE /\ before' = flash
      /\ UNCHANGED <<fsm, flashAddr, wel, dataIn, flash, enabled, flashReply>>
  BY DEF BeginCall, SpiInv, BetweenCalls
<1>3. c \in CallRecords /\ c # NoCall
  BY CallType
<1>4. SpiTypeOK'
  BY <1>1, <1>2, <1>3 DEF SpiInv, SpiTypeOK, CallRecords
<1>5. Announced' /\ BetweenCalls' /\ ShortCall'
  <2>1. Announced'
    BY <1>1, <1>2 DEF SpiInv, Announced, NoCall
  <2>2. BetweenCalls' /\ ShortCall'
    BY <1>1, <1>2, <1>3 DEF BetweenCalls, ShortCall
  <2>3. QED
    BY <2>1, <2>2
<1>6. ASSUME NEW a \in FlashAddresses, NEW n \in FlashCounts, call' = spi_flash_read(a, n)
      PROVE  ReadAt(a, n)'
  BY <1>2 DEF ReadAt, InHeader
<1>7. ASSUME NEW a \in FlashAddresses, NEW buf \in FlashBuffers, call' = spi_flash_write(a, buf)
      PROVE  WriteAt(a, buf)'
  <2>1. c.name = "write"
    BY <1>1, <1>7, WriteCall
  <2>2. QED
    BY <1>1, <1>2, <2>1 DEF WriteAt, InHeader
<1>8. call' \in Calls \cup {NoCall}
  BY <1>1
<1>9. QED
  BY <1>4, <1>5, <1>6, <1>7, <1>8 DEF SpiInv


\* What every byte of a call leaves alone, and the types it keeps.
LEMMA TransferKeeps ==
    ASSUME SpiInv, Transfer
    PROVE  /\ call \in Calls /\ call' = call /\ call.name # "none" /\ call # NoCall
           /\ sent \in 0 .. Len(call.bytes) - 1 /\ sent' = sent + 1
           /\ call.bytes[sent + 1] \in MOSI /\ call.bytes \in Seq(MOSI)
           /\ UNCHANGED <<cs, enabled, before, flashReply>>
           /\ ProcessByte(call.bytes[sent + 1])
           /\ dataIn' \in MOSI /\ wel' \in BOOLEAN /\ flash' \in [Cells -> MOSI]
           /\ rx' = IF sent < call.header THEN rx ELSE Append(rx, dataIn')
           /\ rx' \in Seq(MOSI)
<1>1. /\ call \in Calls /\ call' = call /\ call # NoCall
      /\ UNCHANGED <<cs, enabled, before, flashReply>>
      /\ sent < Len(call.bytes) /\ sent' = sent + 1 /\ ProcessByte(call.bytes[sent + 1])
      /\ rx' = IF sent < call.header THEN rx ELSE Append(rx, dataIn')
  BY DEF Transfer, SpiInv
<1>2. /\ call.name # "none" /\ call.bytes \in Seq(MOSI) /\ sent \in 0 .. Len(call.bytes)
      /\ dataIn \in MOSI /\ wel \in BOOLEAN /\ flash \in [Cells -> MOSI] /\ rx \in Seq(MOSI)
  BY <1>1, CallType DEF SpiInv, SpiTypeOK, Cells
<1>3. sent \in 0 .. Len(call.bytes) - 1 /\ sent + 1 \in 1 .. Len(call.bytes)
  BY <1>1, <1>2
<1> DEFINE b == call.bytes[sent + 1]
<1>4. b \in MOSI
  BY <1>2, <1>3
<1>5. ProcessByte(b)
  BY <1>1
<1> HIDE DEF b
<1>6. CommandReply(b) \in MOSI
  BY <1>2, SpiConstants DEF CommandReply
<1>7. dataIn' \in MOSI /\ wel' \in BOOLEAN /\ flash' \in [Cells -> MOSI]
  <2>1. CASE fsm = "Idle"
    BY <1>2, <1>5, <1>6, <2>1 DEF ProcessByte
  <2>2. CASE fsm \in States \ {"Idle", "Read_Data", "Program_Data"}
    BY <1>2, <1>5, <2>2, SpiConstants DEF ProcessByte
  <2>3. CASE fsm = "Read_Data"
    <3>1. \/ dataIn' = FF
          \/ flashAddr < FlashSize /\ dataIn' = flash[flashAddr]
      BY <1>5, <2>3 DEF ProcessByte
    <3>2. flashAddr \in Nat
      BY SpiConstants DEF SpiInv, SpiTypeOK
    <3>3. flashAddr < FlashSize => flashAddr \in Cells
      BY <3>2, SpiConstants DEF Cells
    <3>4. wel' = wel /\ flash' = flash
      BY <1>5, <2>3 DEF ProcessByte
    <3>5. QED
      BY <1>2, <3>1, <3>3, <3>4, SpiConstants
  <2>4. CASE fsm = "Program_Data"
    BY <1>2, <1>4, <1>5, <2>4, SpiConstants DEF ProcessByte
  <2>5. QED
    BY <1>5, <2>1, <2>2, <2>3, <2>4 DEF ProcessByte
<1>8. rx' \in Seq(MOSI)
  BY <1>1, <1>2, <1>7
<1>9. QED
  BY <1>1, <1>2, <1>3, <1>4, <1>7, <1>8 DEF b

LEMMA TransferShort ==
    ASSUME SpiInv, Transfer,
           call \in {spi_flash_read_id, spi_flash_read_status, spi_flash_write_enable}
    PROVE  /\ fsm' = "Idle" /\ UNCHANGED <<flash, flashAddr>>
           /\ wel => wel'
           /\ ShortCall'
<1> DEFINE b == call.bytes[sent + 1]
<1>1. /\ call' = call /\ sent \in 0 .. Len(call.bytes) - 1 /\ sent' = sent + 1
      /\ ProcessByte(b) /\ UNCHANGED before
  BY TransferKeeps
<1>2. call.name \in {"id", "status", "enable"} /\ fsm = "Idle" /\ flash = before
  BY ShortCalls DEF SpiInv, ShortCall
<1>3. /\ b \notin {CMD_READ, CMD_PAGE_PROGRAM}
      /\ call.name = "enable" => b = CMD_WRITE_ENABLE
  <2>1. CASE call = spi_flash_read_id
    <3>1. b = CMD_READ_ID \/ b = FF
      <4>1. sent + 1 = 1 \/ sent + 1 \in 2 .. 4
        BY <1>1, <2>1, ShortCalls
      <4>2. QED
        BY <2>1, <4>1, ShortCalls
    <3>2. QED
      BY <2>1, <3>1, ShortCalls, SpiAssumption, SpiConstants
  <2>2. CASE call = spi_flash_read_status
    <3>1. b = CMD_READ_STATUS \/ b = FF
      <4>1. sent + 1 = 1 \/ sent + 1 = 2
        BY <1>1, <2>2, ShortCalls
      <4>2. QED
        BY <2>2, <4>1, ShortCalls
    <3>2. call.name # "enable"
      BY <2>2, ShortCalls
    <3> HIDE DEF b
    <3>3. QED
      BY <3>1, <3>2, SpiConstants DEF CMD_READ, CMD_PAGE_PROGRAM, CMD_READ_STATUS
  <2>3. CASE call = spi_flash_write_enable
    <3>1. sent + 1 = 1
      BY <1>1, <2>3, ShortCalls
    <3>2. b = CMD_WRITE_ENABLE
      BY <2>3, <3>1, ShortCalls
    <3>3. QED
      BY <3>2 DEF CMD_READ, CMD_PAGE_PROGRAM, CMD_WRITE_ENABLE
  <2>4. QED
    BY <2>1, <2>2, <2>3
<1> HIDE DEF b
<1>4. Command(b) = "Idle"
  BY <1>3 DEF Command
<1>5. fsm' = "Idle" /\ UNCHANGED <<flash, flashAddr>> /\ wel' = (wel \/ b = CMD_WRITE_ENABLE)
  BY <1>1, <1>2, <1>4 DEF ProcessByte, States
<1>6. QED
  BY <1>1, <1>2, <1>3, <1>5 DEF ShortCall


\* An address byte puts its digit into the address register.
LEMMA TransferAddress ==
    ASSUME SpiInv, Transfer, NEW a \in FlashAddresses, NEW s1, NEW s2, NEW s3, NEW d,
           \/ s1 = "Read_Addr1" /\ s2 = "Read_Addr2" /\ s3 = "Read_Addr3" /\ d = "Read_Data"
           \/ /\ s1 = "Program_Addr1" /\ s2 = "Program_Addr2" /\ s3 = "Program_Addr3"
              /\ d = "Program_Data",
           sent \in 1 .. 3, InHeader(a, <<s1, s2, s3>>, d),
           call.bytes[2] = High(a), call.bytes[3] = Middle(a), call.bytes[4] = a % ByteRadix
    PROVE  /\ InHeader(a, <<s1, s2, s3>>, d)' /\ wel' = wel /\ flash' = flash
           /\ flashAddr' \in 0 .. a /\ fsm' \in States
<1> DEFINE b == call.bytes[sent + 1]
           S == ByteRadix * ByteRadix
<1>1. /\ call' = call /\ sent' = sent + 1 /\ ProcessByte(b)
  BY TransferKeeps
<1>2. /\ a \in 0 .. FlashSize - 1 /\ FlashSize \in Nat /\ a \in Nat /\ ByteRadix \in Nat
      /\ High(a) \in Nat /\ Middle(a) \in Nat /\ a % ByteRadix \in Nat
  BY AddressIs, SpiConstants DEF Cells
<1>3. /\ High(a) * S \in 0 .. a /\ High(a) * S + Middle(a) * ByteRadix \in 0 .. a
      /\ High(a) * S + Middle(a) * ByteRadix + (a % ByteRadix) = a
      /\ High(a) * ByteRadix * ByteRadix = High(a) * S
  <2>1. High(a) * ByteRadix * ByteRadix = High(a) * S
    BY <1>2
  <2>2. QED
    BY <2>1, AddressIs
<1>4. fsm \in States \ {"Idle", "Read_Data", "Program_Data"}
  BY DEF InHeader, States
<1>5. fsm' = Behind(fsm) /\ flashAddr' = Addressed(fsm, b) /\ UNCHANGED <<wel, flash>>
  BY <1>1, <1>4 DEF ProcessByte
<1> HIDE DEF b, S
<1>6. CASE sent = 1
  <2>1. b = High(a) /\ fsm = s1
    BY <1>6 DEF InHeader, b
  <2>2. fsm' = s2 /\ flashAddr' = High(a) * S
    BY <1>3, <1>5, <2>1 DEF Behind, Addressed
  <2>3. QED
    BY <1>1, <1>3, <1>5, <1>6, <2>2 DEF InHeader, States, S
<1>7. CASE sent = 2
  <2>1. b = Middle(a) /\ fsm = s2 /\ flashAddr = High(a) * S
    BY <1>7 DEF InHeader, b, S
  <2>2. fsm' = s3 /\ flashAddr' = High(a) * S + Middle(a) * ByteRadix
    BY <1>5, <2>1 DEF Behind, Addressed
  <2>3. QED
    BY <1>1, <1>3, <1>5, <1>7, <2>2 DEF InHeader, States, S
<1>8. CASE sent = 3
  <2>1. b = a % ByteRadix /\ fsm = s3 /\ flashAddr = High(a) * S + Middle(a) * ByteRadix
    BY <1>8 DEF InHeader, b, S
  <2>2. fsm' = d /\ flashAddr' = a
    BY <1>3, <1>5, <2>1 DEF Behind, Addressed
  <2>3. Reached(a, 0) = a /\ sent' = 4
    BY <1>1, <1>2, <1>8 DEF Reached
  <2>4. QED
    BY <1>1, <1>2, <1>5, <1>8, <2>2, <2>3 DEF InHeader, States
<1>9. QED
  BY <1>6, <1>7, <1>8

LEMMA ReachedType ==
    ASSUME NEW a \in FlashAddresses, NEW k \in Nat
    PROVE  /\ Reached(a, k) \in 0 .. FlashSize
           /\ Reached(a, k) < FlashSize <=> a + k < FlashSize
           /\ a + k < FlashSize => Reached(a, k) = a + k /\ a + k \in Cells
           /\ Reached(a, k + 1) = IF a + k < FlashSize THEN Reached(a, k) + 1 ELSE Reached(a, k)
<1>1. a \in 0 .. FlashSize - 1 /\ FlashSize \in Nat
  BY AddressIs, SpiConstants DEF Cells
<1>2. QED
  BY <1>1 DEF Reached, Cells


LEMMA TransferRead ==
    ASSUME SpiInv, Transfer, NEW a \in FlashAddresses, NEW n \in FlashCounts,
           call = spi_flash_read(a, n)
    PROVE  /\ ReadAt(a, n)' /\ wel' = wel
           /\ flashAddr' \in 0 .. FlashSize /\ fsm' \in States
<1> DEFINE b == call.bytes[sent + 1]
           states == <<"Read_Addr1", "Read_Addr2", "Read_Addr3">>
<1>1. /\ call' = call /\ sent \in 0 .. Len(call.bytes) - 1 /\ sent' = sent + 1
      /\ ProcessByte(b) /\ before' = before /\ dataIn' \in MOSI
      /\ rx' = IF sent < call.header THEN rx ELSE Append(rx, dataIn')
  BY TransferKeeps
<1>2. /\ call.header = 4 /\ Len(call.bytes) = 4 + n /\ n \in Nat
      /\ call.bytes[1] = CMD_READ /\ call.bytes[2] = High(a) /\ call.bytes[3] = Middle(a)
      /\ call.bytes[4] = a % ByteRadix
  BY ReadCall, SpiAssumption
<1>3. sent \in Nat
  BY <1>1
<1>4. /\ flash = before /\ InHeader(a, states, "Read_Data")
      /\ Len(rx) = IF sent <= 4 THEN 0 ELSE sent - 4
      /\ \A i \in 1 .. Len(rx) :
            rx[i] = IF a + i - 1 < FlashSize THEN before[a + i - 1] ELSE FF
      /\ rx \in Seq(MOSI)
  BY DEF SpiInv, SpiTypeOK, ReadAt
<1>5. a \in 0 .. FlashSize - 1 /\ FlashSize \in Nat
  BY AddressIs, SpiConstants DEF Cells
<1> HIDE DEF b
<1>6. CASE sent = 0
  <2>1. b = CMD_READ /\ fsm = "Idle"
    BY <1>2, <1>4, <1>6 DEF b, InHeader
  <2>2. fsm' = "Read_Addr1" /\ flashAddr' = 0 /\ wel' = wel /\ flash' = flash
    <3>1. Command(b) = "Read_Addr1" /\ b # CMD_WRITE_ENABLE
      BY <2>1 DEF Command, CMD_READ, CMD_PAGE_PROGRAM, CMD_WRITE_ENABLE
    <3>2. /\ fsm' = Command(b) /\ flash' = flash
          /\ flashAddr' = IF Command(b) = "Idle" THEN flashAddr ELSE 0
          /\ wel' = (wel \/ b = CMD_WRITE_ENABLE)
      BY <1>1, <2>1 DEF ProcessByte
    <3>3. wel' = wel
      BY <3>1, <3>2 DEF SpiInv, SpiTypeOK
    <3>4. QED
      BY <3>1, <3>2, <3>3
  <2>3. sent' = 1 /\ rx' = rx
    BY <1>1, <1>2, <1>6
  <2>4. QED
    BY <1>1, <1>4, <1>5, <1>6, <2>2, <2>3 DEF ReadAt, InHeader, States
<1>7. CASE sent \in 1 .. 3
  <2>1. /\ InHeader(a, states, "Read_Data")' /\ wel' = wel /\ flash' = flash
        /\ flashAddr' \in 0 .. a /\ fsm' \in States
    BY <1>2, <1>4, <1>7, TransferAddress
  <2>2. rx' = rx /\ sent' <= 4
    BY <1>1, <1>2, <1>7
  <2>3. QED
    BY <1>1, <1>3, <1>4, <1>5, <1>7, <2>1, <2>2 DEF ReadAt
<1>8. CASE sent >= 4
  <2> DEFINE k == sent - 4
  <2>1. k \in Nat /\ fsm = "Read_Data" /\ flashAddr = Reached(a, k) /\ Len(rx) = k
        /\ sent' - 4 = k + 1 /\ sent' > 4
    BY <1>1, <1>3, <1>4, <1>8 DEF InHeader
  <2>2. rx' = Append(rx, dataIn')
    BY <1>1, <1>2, <1>8
  <2>2a. k \in Nat
    BY <2>1
  <2>3. Len(rx') = k + 1 /\ rx'[k + 1] = dataIn' /\ \A i \in 1 .. k : rx'[i] = rx[i]
    BY <1>1, <1>4, <2>1, <2>2
  <2> HIDE DEF k
  <2>4. /\ fsm' = fsm /\ UNCHANGED <<wel, flash>>
        /\ IF flashAddr < FlashSize
           THEN dataIn' = flash[flashAddr] /\ flashAddr' = flashAddr + 1
           ELSE dataIn' = FF /\ flashAddr' = flashAddr
    BY <1>1, <2>1 DEF ProcessByte
  <2>5. /\ Reached(a, k) < FlashSize <=> a + k < FlashSize
        /\ a + k < FlashSize => Reached(a, k) = a + k
        /\ Reached(a, k + 1) = IF a + k < FlashSize THEN Reached(a, k) + 1 ELSE Reached(a, k)
        /\ Reached(a, k + 1) \in 0 .. FlashSize
    BY <2>2a, ReachedType
  <2>6. dataIn' = IF a + k < FlashSize THEN before[a + k] ELSE FF
    BY <1>4, <2>1, <2>4, <2>5
  <2>7. flashAddr' = Reached(a, k + 1)
    BY <2>1, <2>4, <2>5
  <2>8. \A i \in 1 .. k + 1 :
           rx'[i] = IF a + i - 1 < FlashSize THEN before[a + i - 1] ELSE FF
    <3> TAKE i \in 1 .. k + 1
    <3>1. CASE i = k + 1
      <4>1. a + i - 1 = a + k
        BY <1>5, <2>1, <3>1
      <4>2. QED
        BY <2>3, <2>6, <3>1, <4>1
    <3>2. CASE i \in 1 .. k
      BY <1>4, <2>1, <2>3, <3>2
    <3>3. QED
      BY <2>1, <3>1, <3>2
  <2>9. sent' >= 4 /\ ~(sent' <= 4) /\ sent' \notin {0, 1, 2, 3}
    BY <1>1, <1>3, <1>8
  <2>10. QED
    BY <1>1, <1>4, <2>1, <2>3, <2>4, <2>5, <2>7, <2>8, <2>9 DEF ReadAt, InHeader, States
<1>9. QED
  BY <1>3, <1>6, <1>7, <1>8

LEMMA TransferWrite ==
    ASSUME SpiInv, Transfer, NEW a \in FlashAddresses, NEW buf \in FlashBuffers,
           call = spi_flash_write(a, buf)
    PROVE  /\ WriteAt(a, buf)'
           /\ sent' <= 4 => wel'
           /\ flashAddr' \in 0 .. FlashSize /\ fsm' \in States
<1> DEFINE b == call.bytes[sent + 1]
           states == <<"Program_Addr1", "Program_Addr2", "Program_Addr3">>
<1>1. /\ call' = call /\ sent \in 0 .. Len(call.bytes) - 1 /\ sent' = sent + 1
      /\ ProcessByte(b) /\ before' = before /\ enabled' = enabled
      /\ flash' \in [Cells -> MOSI]
  BY TransferKeeps
<1>2. /\ Len(call.bytes) = 4 + Len(buf) /\ buf \in Seq(MOSI) /\ call.name = "write"
      /\ call.bytes[1] = CMD_PAGE_PROGRAM /\ call.bytes[2] = High(a)
      /\ call.bytes[3] = Middle(a) /\ call.bytes[4] = a % ByteRadix
      /\ \A i \in 1 .. Len(buf) : call.bytes[4 + i] = buf[i]
  BY WriteCall, SpiAssumption
<1>3. sent \in Nat
  BY <1>1
<1>4. /\ enabled /\ InHeader(a, states, "Program_Data")
      /\ sent <= 4 => flash = before
      /\ sent > 4 => flash = WrittenTo(a, buf, sent - 4)
      /\ sent <= 4 => wel
      /\ before \in [Cells -> MOSI] /\ flash \in [Cells -> MOSI]
  BY <1>2, <1>3 DEF SpiInv, SpiTypeOK, WriteAt, Announced, Cells
<1>5. a \in 0 .. FlashSize - 1 /\ FlashSize \in Nat
  BY AddressIs, SpiConstants DEF Cells
<1> HIDE DEF b
<1>6. CASE sent = 0
  <2>1. b = CMD_PAGE_PROGRAM /\ fsm = "Idle" /\ wel
    BY <1>2, <1>4, <1>6 DEF b, InHeader
  <2>2. fsm' = "Program_Addr1" /\ flashAddr' = 0 /\ wel' /\ flash' = flash
    <3>1. Command(b) = "Program_Addr1"
      BY <2>1 DEF Command, CMD_READ, CMD_PAGE_PROGRAM
    <3>2. /\ fsm' = Command(b) /\ flash' = flash
          /\ flashAddr' = IF Command(b) = "Idle" THEN flashAddr ELSE 0
          /\ wel' = (wel \/ b = CMD_WRITE_ENABLE)
      BY <1>1, <2>1 DEF ProcessByte
    <3>3. QED
      BY <2>1, <3>1, <3>2
  <2>3. sent' = 1
    BY <1>1, <1>6
  <2>4. QED
    BY <1>1, <1>4, <1>5, <1>6, <2>2, <2>3 DEF WriteAt, InHeader, States
<1>7. CASE sent \in 1 .. 3
  <2>1. /\ InHeader(a, states, "Program_Data")' /\ wel' = wel /\ flash' = flash
        /\ flashAddr' \in 0 .. a /\ fsm' \in States
    BY <1>2, <1>4, <1>7, TransferAddress
  <2>2. sent' <= 4 /\ ~(sent' > 4) /\ sent <= 4
    BY <1>1, <1>7
  <2>3. QED
    BY <1>1, <1>4, <1>5, <2>1, <2>2 DEF WriteAt
<1>8. CASE sent >= 4
  <2> DEFINE k == sent - 4
  <2>1. k \in 0 .. Len(buf) - 1 /\ fsm = "Program_Data" /\ flashAddr = Reached(a, k)
        /\ sent' - 4 = k + 1 /\ sent = 4 + k
    BY <1>1, <1>2, <1>3, <1>4, <1>8 DEF InHeader
  <2>2. b = buf[k + 1]
    <3>1. sent + 1 = 4 + (k + 1) /\ k + 1 \in 1 .. Len(buf)
      BY <1>3, <2>1
    <3>2. QED
      BY <1>2, <3>1 DEF b
  <2>3. flash = WrittenTo(a, buf, k)
    <3>1. CASE sent = 4
      <4>1. k = 0 /\ 1 .. k = {} /\ flash = before
        BY <1>4, <3>1
      <4>2. QED
        BY <1>4, <4>1 DEF WrittenTo
    <3>2. CASE sent > 4
      BY <1>4, <3>2
    <3>3. QED
      BY <1>3, <1>8, <3>1, <3>2
  <2>4. k \in Nat
    BY <2>1
  <2> HIDE DEF k
  <2>5. /\ fsm' = fsm
        /\ IF flashAddr < FlashSize
           THEN flash' = [flash EXCEPT ![flashAddr] = b] /\ flashAddr' = flashAddr + 1
           ELSE flash' = flash /\ flashAddr' = flashAddr
    BY <1>1, <2>1 DEF ProcessByte
  <2>6. /\ Reached(a, k) < FlashSize <=> a + k < FlashSize
        /\ a + k < FlashSize => Reached(a, k) = a + k /\ a + k \in Cells
        /\ Reached(a, k + 1) = IF a + k < FlashSize THEN Reached(a, k) + 1 ELSE Reached(a, k)
        /\ Reached(a, k + 1) \in 0 .. FlashSize
    BY <2>4, ReachedType
  <2>7. flashAddr' = Reached(a, k + 1)
    BY <2>1, <2>5, <2>6
  <2>8. flash' = WrittenTo(a, buf, k + 1)
    <3>1. ASSUME NEW c \in Cells
          PROVE  flash'[c] = IF c - a + 1 \in 1 .. k + 1 THEN buf[c - a + 1] ELSE before[c]
      <4>1. c \in Int
        BY DEF Cells
      <4>2. flash[c] = IF c - a + 1 \in 1 .. k THEN buf[c - a + 1] ELSE before[c]
        BY <2>3 DEF WrittenTo
      <4>3. CASE c = a + k
        <5>1. a + k < FlashSize /\ c - a + 1 = k + 1
          BY <1>5, <2>4, <4>3 DEF Cells
        <5>2. flash'[c] = buf[k + 1]
          BY <1>4, <2>1, <2>2, <2>5, <2>6, <4>3, <5>1
        <5>3. QED
          BY <2>4, <5>1, <5>2
      <4>4. CASE c # a + k
        <5>1. flash'[c] = flash[c]
          BY <1>4, <2>1, <2>5, <2>6, <4>4
        <5>2. c - a + 1 \in 1 .. k + 1 <=> c - a + 1 \in 1 .. k
          BY <1>5, <2>4, <4>1, <4>4
        <5>3. QED
          BY <4>2, <5>1, <5>2
      <4>5. QED
        BY <4>3, <4>4
    <3>2. QED
      BY <1>1, <3>1 DEF WrittenTo
  <2>9. sent' >= 4 /\ ~(sent' <= 4) /\ sent' > 4 /\ sent' \notin {0, 1, 2, 3}
    BY <1>1, <1>3, <1>8
  <2>10. InHeader(a, states, "Program_Data")'
    BY <2>1, <2>5, <2>7, <2>9 DEF InHeader
  <2>11. WriteAt(a, buf)'
    BY <1>1, <1>4, <2>1, <2>8, <2>9, <2>10 DEF WriteAt, WrittenTo
  <2>12. QED
    BY <2>1, <2>5, <2>6, <2>7, <2>9, <2>11 DEF States
<1>9. QED
  BY <1>3, <1>6, <1>7, <1>8


\* Which call it is, and its place in it, tells what the next byte does.
LEMMA SpiTransfer == ASSUME SpiInv, Transfer PROVE SpiInv'
<1>1. /\ call \in Calls /\ call' = call /\ call.name # "none" /\ call # NoCall
      /\ sent \in 0 .. Len(call.bytes) - 1 /\ sent' = sent + 1
      /\ UNCHANGED <<cs, enabled, before, flashReply>>
      /\ dataIn' \in MOSI /\ wel' \in BOOLEAN /\ flash' \in [Cells -> MOSI] /\ rx' \in Seq(MOSI)
  BY TransferKeeps
<1> DEFINE Device == /\ fsm' \in States
                     /\ flashAddr' \in 0 .. ByteRadix * ByteRadix * ByteRadix
                     /\ enabled' /\ ~(call.name = "write" /\ sent' > 4) => wel'
                     /\ ShortCall'
<1>2. ASSUME NEW x \in 0 .. FlashSize
      PROVE  x \in 0 .. ByteRadix * ByteRadix * ByteRadix
  <2> DEFINE top == ByteRadix * ByteRadix * ByteRadix
  <2>1. top \in Int /\ FlashSize \in Nat /\ FlashSize <= top
    BY SpiConstants
  <2> HIDE DEF top
  <2>2. x \in 0 .. top
    BY <2>1
  <2>3. QED
    BY <2>2 DEF top
<1>3. CASE call \in {spi_flash_read_id, spi_flash_read_status, spi_flash_write_enable}
  <2>1. fsm' = "Idle" /\ flashAddr' = flashAddr /\ (wel => wel') /\ ShortCall'
    BY <1>3, TransferShort
  <2>2. call.name # "write" /\ (enabled => wel)
    BY <1>3, ShortCalls DEF SpiInv, Announced
  <2>3. flashAddr' \in 0 .. ByteRadix * ByteRadix * ByteRadix
    BY <2>1 DEF SpiInv, SpiTypeOK
  <2>4. Device
    BY <1>1, <2>1, <2>2, <2>3 DEF States
  <2>5. /\ \A a \in FlashAddresses, n \in FlashCounts : call # spi_flash_read(a, n)
        /\ \A a \in FlashAddresses, buf \in FlashBuffers : call # spi_flash_write(a, buf)
    BY <1>3, ShortCalls, ReadCall, WriteCall
  <2>6. QED
    BY <1>1, <2>4, <2>5 DEF SpiInv, SpiTypeOK, Announced, BetweenCalls, Cells
<1>4. ASSUME NEW a \in FlashAddresses, NEW n \in FlashCounts, call = spi_flash_read(a, n)
      PROVE  SpiInv'
  <2>1. \A x \in FlashAddresses, m \in FlashCounts :
           call = spi_flash_read(x, m) =>
             /\ ReadAt(x, m)' /\ wel' = wel /\ flashAddr' \in 0 .. FlashSize /\ fsm' \in States
    BY TransferRead
  <2>2. call.name = "read"
    BY <1>4, ReadCall
  <2>3. ShortCall'
    BY <1>1, <2>2 DEF ShortCall
  <2>4. enabled => wel
    BY <2>2 DEF SpiInv, Announced
  <2>5. Device
    BY <1>1, <1>2, <1>4, <2>1, <2>3, <2>4
  <2>6. \A x \in FlashAddresses, buf \in FlashBuffers : call # spi_flash_write(x, buf)
    BY <2>2, WriteCall
  <2>7. QED
    BY <1>1, <2>1, <2>5, <2>6 DEF SpiInv, SpiTypeOK, Announced, BetweenCalls, Cells
<1>5. ASSUME NEW a \in FlashAddresses, NEW buf \in FlashBuffers, call = spi_flash_write(a, buf)
      PROVE  SpiInv'
  <2>1. \A x \in FlashAddresses, s \in FlashBuffers :
           call = spi_flash_write(x, s) =>
             /\ WriteAt(x, s)' /\ (sent' <= 4 => wel')
             /\ flashAddr' \in 0 .. FlashSize /\ fsm' \in States
    BY TransferWrite
  <2>2. call.name = "write"
    BY <1>5, WriteCall
  <2>3. ShortCall'
    BY <1>1, <2>2 DEF ShortCall
  <2>4. sent' \in Nat
    BY <1>1
  <2>5. Device
    BY <1>1, <1>2, <1>5, <2>1, <2>2, <2>3, <2>4
  <2>6. \A x \in FlashAddresses, n \in FlashCounts : call # spi_flash_read(x, n)
    BY <2>2, ReadCall
  <2>7. QED
    BY <1>1, <2>1, <2>5, <2>6 DEF SpiInv, SpiTypeOK, Announced, BetweenCalls, Cells
<1>6. QED
  BY <1>1, <1>3, <1>4, <1>5 DEF Calls

\* Every call ends with the device waiting for a command.
LEMMA SpiEnd == ASSUME SpiInv, EndCall PROVE SpiInv'
<1>1. /\ call \in Calls /\ sent = Len(call.bytes)
      /\ cs' = FALSE /\ fsm' = "Idle" /\ call' = NoCall /\ sent' = 0 /\ rx' = <<>>
      /\ before' = flash /\ UNCHANGED <<flashAddr, wel, dataIn, flash>>
  BY DEF EndCall, SpiInv, Deselected
<1>2. NoCall.name = "none" /\ NoCall.bytes = <<>> /\ NoCall \in CallRecords
  BY DEF NoCall, CallRecords
<1>3. /\ enabled' \in BOOLEAN /\ flashReply' \in Seq(MOSI)
      /\ enabled' => wel
  <2>1. flashReply' \in Seq(MOSI)
    BY DEF EndCall, SpiInv, SpiTypeOK
  <2>2. CASE call.name = "enable"
    <3>1. call = spi_flash_write_enable /\ sent = 1
      <4>1. call = spi_flash_write_enable
        BY <1>1, <2>2, ShortCalls, ReadCall, WriteCall DEF Calls
      <4>2. call.bytes = <<CMD_WRITE_ENABLE>>
        BY <4>1, ShortCalls
      <4>3. QED
        BY <1>1, <4>1, <4>2
    <3>2. wel /\ enabled' = TRUE
      BY <2>2, <3>1 DEF SpiInv, ShortCall, EndCall
    <3>3. QED
      BY <2>1, <3>2
  <2>3. CASE call.name = "write"
    BY <2>1, <2>3 DEF EndCall
  <2>4. CASE call.name \notin {"enable", "write"}
    BY <2>1, <2>4 DEF EndCall, SpiInv, SpiTypeOK, Announced
  <2>5. QED
    BY <2>2, <2>3, <2>4
<1>4. SpiTypeOK'
  <2>1. sent' \in 0 .. Len(call'.bytes) /\ rx' \in Seq(MOSI)
    BY <1>1, <1>2
  <2>2. QED
    BY <1>1, <1>2, <1>3, <2>1 DEF SpiInv, SpiTypeOK, CallRecords, States
<1>5. Announced' /\ BetweenCalls' /\ ShortCall'
  BY <1>1, <1>2, <1>3 DEF Announced, BetweenCalls, ShortCall
<1>6. \A c \in Calls : call' # c
  BY <1>1, CallType
<1>7. /\ \A a \in FlashAddresses, n \in FlashCounts : spi_flash_read(a, n) \in Calls
      /\ \A a \in FlashAddresses, buf \in FlashBuffers : spi_flash_write(a, buf) \in Calls
  BY DEF Calls
<1>8. call' \in Calls \cup {NoCall}
  BY <1>1
<1>9. QED
  BY <1>4, <1>5, <1>6, <1>7, <1>8 DEF SpiInv

LEMMA SpiInvariant == SpiSpec => []SpiInv
<1>1. SpiInv /\ [SpiNext]_spiVars => SpiInv'
  <2> SUFFICES ASSUME SpiInv, [SpiNext]_spiVars PROVE SpiInv'
    OBVIOUS
  <2>1. CASE BeginCall
    BY <2>1, SpiBegin
  <2>2. CASE Transfer
    BY <2>2, SpiTransfer
  <2>3. CASE EndCall
    BY <2>3, SpiEnd
  <2>4. CASE UNCHANGED spiVars
    <3>1. UNCHANGED <<cs, fsm, flashAddr, wel, dataIn, flash, call, sent, rx, enabled, before,
                      flashReply>>
      BY <2>4 DEF spiVars, device, driver
    <3>2. SpiTypeOK' /\ Announced' /\ BetweenCalls' /\ ShortCall' /\ call' \in Calls \cup {NoCall}
      BY <3>1 DEF SpiInv, SpiTypeOK, Announced, BetweenCalls, ShortCall
    <3>3. /\ \A a \in FlashAddresses, n \in FlashCounts :
                call' = spi_flash_read(a, n) => ReadAt(a, n)'
          /\ \A a \in FlashAddresses, buf \in FlashBuffers :
                call' = spi_flash_write(a, buf) => WriteAt(a, buf)'
      BY <3>1 DEF SpiInv, ReadAt, WriteAt, InHeader, WrittenTo
    <3>4. QED
      BY <3>2, <3>3 DEF SpiInv
  <2>5. QED
    BY <2>1, <2>2, <2>3, <2>4 DEF SpiNext
<1>2. QED
  BY <1>1, SpiInitially, PTL DEF SpiSpec


\* SpiTypeOK always holds: the state machine and its address register, the bytes
\* on the wire and the flash's cells keep their types (riscv-spi.ads, spi.c).
THEOREM SpiTypeCorrect == SpiSpec => []SpiTypeOK
<1>1. SpiInv => SpiTypeOK
  BY DEF SpiInv
<1>2. QED
  BY <1>1, SpiInvariant, PTL

\* A call that ends has done to the store what it was to do.
LEMMA SpiEndIsStep == ASSUME SpiInv, EndCall PROVE [Store!Next]_<<before, flashReply>>
<1>1. /\ call \in Calls /\ sent = Len(call.bytes) /\ before' = flash
      /\ flashReply' = IF call.name = "read" THEN rx ELSE flashReply
      /\ before \in [Cells -> MOSI] /\ flash \in [Cells -> MOSI] /\ rx \in Seq(MOSI)
  BY DEF EndCall, SpiInv, SpiTypeOK, Cells
<1>2. CASE call \in {spi_flash_read_id, spi_flash_read_status, spi_flash_write_enable}
  <2>1. call.name \in {"id", "status", "enable"}
    BY <1>2, ShortCalls
  <2>2. flash = before
    BY <2>1 DEF SpiInv, ShortCall
  <2>3. QED
    BY <1>1, <2>1, <2>2
<1>3. ASSUME NEW a \in FlashAddresses, NEW n \in FlashCounts, call = spi_flash_read(a, n)
      PROVE  Store!Read(a, n)
  <2>1. ReadAt(a, n) /\ call.name = "read" /\ sent = 4 + n /\ n \in Nat
    BY <1>1, <1>3, ReadCall, SpiAssumption DEF SpiInv
  <2>2. flash = before /\ Len(rx) = n
    BY <2>1 DEF ReadAt
  <2>3. rx = [i \in 1 .. n |-> IF a + i - 1 < FlashSize THEN before[a + i - 1] ELSE FF]
    <3>1. \A i \in 1 .. n :
             rx[i] = IF a + i - 1 < FlashSize THEN before[a + i - 1] ELSE FF
      BY <2>1, <2>2 DEF ReadAt
    <3>2. rx = [i \in 1 .. n |-> rx[i]]
      BY <1>1, <2>2
    <3>3. QED
      BY <3>1, <3>2
  <2>4. QED
    BY <1>1, <2>1, <2>2, <2>3 DEF Store!Read
<1>4. ASSUME NEW a \in FlashAddresses, NEW buf \in FlashBuffers, call = spi_flash_write(a, buf)
      PROVE  Store!Write(a, buf)
  <2>1. WriteAt(a, buf) /\ call.name = "write" /\ sent = 4 + Len(buf) /\ buf \in Seq(MOSI)
    BY <1>1, <1>4, WriteCall, SpiAssumption DEF SpiInv
  <2>2. flash = [c \in Cells |-> IF c < FlashSize /\ c - a + 1 \in DOMAIN buf
                                 THEN buf[c - a + 1] ELSE before[c]]
    <3>1. DOMAIN buf = 1 .. Len(buf) /\ Len(buf) \in Nat
      BY <2>1
    <3>2. \A c \in Cells : c < FlashSize
      BY SpiConstants DEF Cells
    <3>3. CASE Len(buf) = 0
      <4>1. flash = before /\ 1 .. Len(buf) = {}
        BY <2>1, <3>3 DEF WriteAt
      <4>2. QED
        BY <1>1, <3>1, <4>1
    <3>4. CASE Len(buf) > 0
      <4>1. flash = WrittenTo(a, buf, Len(buf))
        BY <2>1, <3>1, <3>4 DEF WriteAt
      <4>2. QED
        BY <3>1, <3>2, <4>1 DEF WrittenTo
    <3>5. QED
      BY <3>1, <3>3, <3>4
  <2>3. QED
    BY <1>1, <2>1, <2>2 DEF Store!Write, Cells
<1>5. QED
  BY <1>1, <1>2, <1>3, <1>4 DEF Calls, Store!Next

\* The driver and the flash behind it are a byte store of any size, for calls
\* of any length: a write puts its bytes where it should and nothing else
\* changes, and a read gives what is there, whatever calls came before and
\* however much their data look like commands (Process_SPI_Byte).
THEOREM SpiFlashIsByteStore == SpiSpec => FlashIsByteStore
<1>1. SpiInit => Store!Init
  BY DEF SpiInit, Store!Init
<1>2. SpiInv /\ [SpiNext]_spiVars => [Store!Next]_<<before, flashReply>>
  <2> SUFFICES ASSUME SpiInv, [SpiNext]_spiVars PROVE [Store!Next]_<<before, flashReply>>
    OBVIOUS
  <2>1. CASE BeginCall
    BY <2>1 DEF BeginCall, SpiInv, BetweenCalls
  <2>2. CASE Transfer
    BY <2>2 DEF Transfer
  <2>3. CASE EndCall
    BY <2>3, SpiEndIsStep
  <2>4. CASE UNCHANGED spiVars
    BY <2>4 DEF spiVars
  <2>5. QED
    BY <2>1, <2>2, <2>3, <2>4 DEF SpiNext
<1>3. QED
  BY <1>1, <1>2, SpiInvariant, PTL DEF SpiSpec, FlashIsByteStore, Store!Spec


----------------------------------------------------------------------------
(* The I2C bus: scripts *)

\* The end of a script that reads k more bytes.
Rest(k) == [i \in 1 .. k |-> Get] \o <<Stop>>

LEMMA ShortTail ==
    ASSUME NEW x, NEW y, NEW z, NEW u
    PROVE  /\ Head(<<x>>) = x /\ <<x>> # <<>>
           /\ Head(<<x, y>>) = x /\ Tail(<<x, y>>) = <<y>> /\ <<x, y>> # <<>>
           /\ Head(<<x, y, z>>) = x /\ Tail(<<x, y, z>>) = <<y, z>> /\ <<x, y, z>> # <<>>
           /\ Head(<<x, y, z, u>>) = x /\ Tail(<<x, y, z, u>>) = <<y, z, u>>
           /\ <<x, y, z, u>> # <<>>
  OBVIOUS

LEMMA TailOfOneMore ==
    ASSUME NEW S, NEW x \in S, NEW s \in Seq(S)
    PROVE  Head(<<x>> \o s) = x /\ Tail(<<x>> \o s) = s /\ <<x>> \o s # <<>>
<1> DEFINE w == <<x>> \o s
<1>1. <<x>> \in Seq(S) /\ Len(<<x>>) = 1 /\ <<x>>[1] = x
  OBVIOUS
<1>2. w \in Seq(S) /\ Len(w) = 1 + Len(s)
  BY <1>1, Concatenation
<1>3. w[1] = x /\ \A i \in 1 .. Len(s) : w[i + 1] = s[i]
  BY <1>1
<1> HIDE DEF w
<1>4. w # <<>> /\ Head(w) = x
  BY <1>2, <1>3
<1>5. Tail(w) \in Seq(S) /\ Len(Tail(w)) = Len(s) /\ \A i \in 1 .. Len(s) : Tail(w)[i] = s[i]
  BY <1>2, <1>3, <1>4
<1>6. Tail(w) = s
  BY <1>5
<1>7. QED
  BY <1>4, <1>6 DEF w

\* The operations of a read, and the beginnings of its script.
ReadSteps(d, reg) == {Start(d), Put(reg), Get, Stop}
AddressThen(d, reg, s) == <<Put(reg), Start(d)>> \o s
ReadThen(d, reg, s) == <<Start(d), Put(reg), Start(d)>> \o s

LEMMA TailOfRead ==
    ASSUME NEW d, NEW reg, NEW s \in Seq(ReadSteps(d, reg))
    PROVE  /\ Head(<<Start(d)>> \o s) = Start(d) /\ Tail(<<Start(d)>> \o s) = s
           /\ <<Start(d)>> \o s # <<>>
           /\ Head(AddressThen(d, reg, s)) = Put(reg)
           /\ Tail(AddressThen(d, reg, s)) = <<Start(d)>> \o s
           /\ AddressThen(d, reg, s) # <<>>
           /\ Head(ReadThen(d, reg, s)) = Start(d)
           /\ Tail(ReadThen(d, reg, s)) = AddressThen(d, reg, s)
           /\ ReadThen(d, reg, s) # <<>>
<1> DEFINE S == ReadSteps(d, reg)
           x == Start(d)
           y == Put(reg)
           one == <<x>> \o s
           two == <<y>> \o one
           three == <<x>> \o two
<1>1. x \in S /\ y \in S /\ s \in Seq(S)
  BY DEF ReadSteps
<1> HIDE DEF S, x, y
<1>2. /\ <<x>> \in Seq(S) /\ <<y>> \in Seq(S) /\ <<y, x>> \in Seq(S)
      /\ <<y>> \o <<x>> = <<y, x>> /\ <<x>> \o <<y, x>> = <<x, y, x>>
  <2>1. /\ <<x>> \in Seq(S) /\ Len(<<x>>) = 1 /\ <<x>>[1] = x
        /\ <<y>> \in Seq(S) /\ Len(<<y>>) = 1 /\ <<y>>[1] = y
        /\ <<y, x>> \in Seq(S) /\ Len(<<y, x>>) = 2 /\ <<y, x>>[1] = y /\ <<y, x>>[2] = x
    BY <1>1
  <2> DEFINE yx == <<y>> \o <<x>>
             xyx == <<x>> \o <<y, x>>
  <2>2. /\ yx \in Seq(S) /\ Len(yx) = 2 /\ yx[1] = y /\ yx[2] = x
        /\ xyx \in Seq(S) /\ Len(xyx) = 3 /\ xyx[1] = x /\ xyx[2] = y /\ xyx[3] = x
    BY <2>1
  <2> HIDE DEF yx, xyx
  <2>3. yx = <<y, x>> /\ xyx = <<x, y, x>>
    BY <2>2
  <2>4. QED
    BY <2>1, <2>3 DEF yx, xyx
<1>3. one \in Seq(S) /\ two \in Seq(S)
  <2>1. one \in Seq(S)
    BY <1>1, <1>2, Concatenation
  <2> HIDE DEF one
  <2>2. QED
    BY <1>2, <2>1, Concatenation
<1>4. two = <<y, x>> \o s
  <2>1. <<y>> \o (<<x>> \o s) = (<<y>> \o <<x>>) \o s
    BY <1>1, <1>2, ConcatenationAssociates
  <2>2. QED
    BY <1>2, <2>1, Zenon
<1>5. three = <<x, y, x>> \o s
  <2>1. <<x>> \o (<<y, x>> \o s) = (<<x>> \o <<y, x>>) \o s
    BY <1>1, <1>2, ConcatenationAssociates
  <2>2. QED
    BY <1>2, <1>4, <2>1, Zenon
<1>6. Head(one) = x /\ Tail(one) = s /\ one # <<>>
  BY <1>1, TailOfOneMore
<1>7. ASSUME NEW t \in Seq(S)
      PROVE  /\ Head(<<x>> \o t) = x /\ Tail(<<x>> \o t) = t /\ <<x>> \o t # <<>>
             /\ Head(<<y>> \o t) = y /\ Tail(<<y>> \o t) = t /\ <<y>> \o t # <<>>
  BY <1>1, TailOfOneMore
<1>8. /\ Head(two) = y /\ Tail(two) = one /\ two # <<>>
      /\ Head(three) = x /\ Tail(three) = two /\ three # <<>>
  BY <1>3, <1>7, Zenon
<1>9. AddressThen(d, reg, s) = two /\ ReadThen(d, reg, s) = three /\ one = <<Start(d)>> \o s
  BY <1>4, <1>5, Zenon DEF AddressThen, ReadThen, x, y
<1> HIDE DEF one, two, three
<1>10. QED
  BY <1>6, <1>8, <1>9 DEF x, y

LEMMA RestIsShorter ==
    /\ Rest(0) = <<Stop>>
    /\ \A k \in Nat : Rest(k) # <<>> /\ Rest(k) \in Seq({Get, Stop})
    /\ \A k \in Nat \ {0} : Head(Rest(k)) = Get /\ Tail(Rest(k)) = Rest(k - 1)
<1> DEFINE gets(k) == [i \in 1 .. k |-> Get]
           S == {Get, Stop}
<1>1. ASSUME NEW k \in Nat
      PROVE  gets(k) \in Seq(S) /\ Len(gets(k)) = k /\ \A i \in 1 .. k : gets(k)[i] = Get
  OBVIOUS
<1>2. <<Stop>> \in Seq(S) /\ Len(<<Stop>>) = 1 /\ <<Stop>>[1] = Stop
  OBVIOUS
<1> HIDE DEF gets, S
<1>3. ASSUME NEW k \in Nat
      PROVE  /\ Rest(k) \in Seq(S) /\ Len(Rest(k)) = k + 1 /\ Rest(k)[k + 1] = Stop
             /\ \A i \in 1 .. k : Rest(k)[i] = Get
  <2>1. Rest(k) = gets(k) \o <<Stop>>
    BY DEF Rest, gets
  <2>2. QED
    BY <1>1, <1>2, <2>1
<1>4. Rest(0) = <<Stop>>
  <2>1. Rest(0) \in Seq(S) /\ Len(Rest(0)) = 1 /\ Rest(0)[1] = Stop
    <3>1. 0 \in Nat /\ 0 + 1 = 1
      OBVIOUS
    <3>2. QED
      BY <1>3, <3>1
  <2>2. QED
    BY <1>2, <2>1
<1>5. ASSUME NEW k \in Nat \ {0}
      PROVE  Head(Rest(k)) = Get /\ Tail(Rest(k)) = Rest(k - 1)
  <2> DEFINE long == Rest(k)
             short == Rest(k - 1)
  <2>1. /\ long \in Seq(S) /\ Len(long) = k + 1 /\ long[k + 1] = Stop
        /\ \A i \in 1 .. k : long[i] = Get
    BY <1>3
  <2>2. /\ short \in Seq(S) /\ Len(short) = k /\ short[k] = Stop
        /\ \A i \in 1 .. k - 1 : short[i] = Get
    <3>1. k - 1 \in Nat /\ (k - 1) + 1 = k
      OBVIOUS
    <3>2. QED
      BY <1>3, <3>1
  <2> HIDE DEF long, short
  <2>3. Head(long) = Get
    BY <2>1
  <2>4. Tail(long) \in Seq(S) /\ Len(Tail(long)) = k /\ \A i \in 1 .. k : Tail(long)[i] = long[i + 1]
    BY <2>1
  <2>5. \A i \in 1 .. k : Tail(long)[i] = short[i]
    BY <2>1, <2>2, <2>4
  <2>6. Tail(long) = short
    BY <2>2, <2>4, <2>5
  <2>7. QED
    BY <2>3, <2>6 DEF long, short
<1>6. \A k \in Nat : Rest(k) # <<>>
  BY <1>3
<1>7. QED
  BY <1>3, <1>4, <1>5, <1>6 DEF S


----------------------------------------------------------------------------
(* The I2C bus: the invariant *)

Addressable == Devices \cup {Nobody}
CellsOf(d) == IF d = "eeprom" THEN EepromSize ELSE SensorSize

\* The EEPROM takes the next byte it is written for an address.
BusFree == pointer["eeprom"] = Waiting
OnWire(d) == active /\ current = d /\ d \in Devices

\* The first j bytes of a read are what the cells hold, and the device's
\* pointer is where the next one comes from.
Heard(d, reg, j) ==
    /\ Len(heard) = j
    /\ \A i \in 1 .. j :
          heard[i] = IF reg + i - 1 < CellsOf(d) THEN Content(d)[reg + i - 1] ELSE EepromSize - 1
    /\ j = 0 => pointer[d] = reg
    /\ d = "sensor" =>
         IF reg + j < SensorSize THEN pointer[d] = reg + j ELSE pointer[d] >= SensorSize

Scanning(d) == script = ScanScript(d) /\ BusFree /\ ~command.reads

Closing ==
    /\ script = <<Stop>>
    /\ current = "eeprom" \/ BusFree
    /\ ~(command.reads /\ command.device # Nobody)

Writing(d, reg, b) ==
    /\ ~command.reads
    /\ \/ script = WriteScript(d, reg, b) /\ BusFree /\ (command.asks \/ d # Nobody)
       \/ script = <<Put(reg), Put(b), Stop>> /\ OnWire(d) /\ BusFree
       \/ /\ script = <<Put(b), Stop>> /\ OnWire(d)
          /\ IF d = "eeprom" THEN pointer[d] = reg ELSE BusFree

Reading(d, reg, n) ==
    /\ command.reads /\ command.device = d
    /\ \/ /\ script = ReadScript(d, reg, n) /\ BusFree /\ heard = <<>>
          /\ command.asks \/ d # Nobody
       \/ script = <<Put(reg), Start(d)>> \o Rest(n) /\ OnWire(d) /\ BusFree /\ heard = <<>>
       \/ /\ script = <<Start(d)>> \o Rest(n) /\ OnWire(d) /\ heard = <<>>
          /\ pointer[d] = reg /\ (d = "eeprom" \/ BusFree)
       \/ /\ OnWire(d) /\ (d = "eeprom" \/ BusFree)
          /\ \E j \in 0 .. n : script = Rest(n - j) /\ Heard(d, reg, j)

\* What the device on the wire takes the next operation of the script for.
AtScript ==
    \/ script = <<>> /\ BusFree
    \/ Closing
    \/ \E d \in Addressable : Scanning(d)
    \/ \E d \in Addressable, reg \in Registers, b \in BusBytes : Writing(d, reg, b)
    \/ \E d \in Addressable, reg \in Registers : \E n \in ReadCounts(d) : Reading(d, reg, n)

I2cInv == I2cTypeOK /\ AtScript


----------------------------------------------------------------------------
(* The I2C bus: steps *)

LEMMA BusConstants ==
    /\ EepromSize \in Nat /\ EepromSize > 1 /\ I2cByte = 0 .. EepromSize - 1
    /\ SensorSize \in 1 .. EepromSize - 1 /\ Waiting = EepromSize - 1
    /\ Registers \subseteq I2cByte /\ BusBytes \subseteq I2cByte
    /\ Sensed \in [0 .. SensorSize - 1 -> I2cByte] /\ Erased \in [I2cByte -> I2cByte]
<1>1. EepromSize \in Nat /\ EepromSize > 1 /\ SensorSize \in 1 .. EepromSize - 1
  BY I2cAssumption
<1>2. Sensed \in [0 .. SensorSize - 1 -> I2cByte]
  <2>1. \A r \in 0 .. SensorSize - 1 : Measured[r + 1] \in I2cByte
    <3>1. Measured \in Seq(I2cByte) /\ SensorSize = Len(Measured)
      BY I2cAssumption DEF SensorSize
    <3>2. QED
      BY <1>1, <3>1
  <2>2. QED
    BY <2>1 DEF Sensed
<1>3. Erased \in [I2cByte -> I2cByte]
  BY <1>1 DEF Erased, I2cByte
<1>4. QED
  BY <1>1, <1>2, <1>3, I2cAssumption DEF Waiting, I2cByte

LEMMA I2cInitially == I2cInit => I2cInv
<1> SUFFICES ASSUME I2cInit PROVE I2cInv
  OBVIOUS
<1>1. pointer \in [Devices -> I2cByte] /\ pointer["eeprom"] = Waiting
  BY BusConstants DEF I2cInit, Devices
<1>2. I2cTypeOK
  <2>1. 0 \in I2cByte /\ eeprom \in [I2cByte -> I2cByte]
    <3>1. 0 \in I2cByte
      BY BusConstants
    <3>2. eeprom = Erased
      BY DEF I2cInit
    <3>3. QED
      BY <3>1, <3>2, BusConstants, Zenon
  <2>2. replies \in [Devices -> Seq(I2cByte)] /\ heard \in Seq(I2cByte)
    BY DEF I2cInit
  <2>3. QED
    BY <1>1, <2>1, <2>2 DEF I2cInit, I2cTypeOK
<1>3. AtScript
  BY <1>1 DEF I2cInit, AtScript, BusFree
<1>4. QED
  BY <1>2, <1>3 DEF I2cInv

LEMMA ReadScriptIs ==
    ASSUME NEW d, NEW reg, NEW n \in Nat
    PROVE  ReadScript(d, reg, n) = <<Start(d), Put(reg), Start(d)>> \o Rest(n)
<1> DEFINE S == {Start(d), Put(reg), Get, Stop}
           gets == [i \in 1 .. n |-> Get]
           head == <<Start(d), Put(reg), Start(d)>>
<1>1. head \in Seq(S) /\ <<Stop>> \in Seq(S)
  OBVIOUS
<1>2. gets \in Seq(S)
  OBVIOUS
<1>3. ReadScript(d, reg, n) = head \o gets \o <<Stop>> /\ Rest(n) = gets \o <<Stop>>
  BY DEF ReadScript, Rest
<1> HIDE DEF gets, head, S
<1>4. head \o (gets \o <<Stop>>) = (head \o gets) \o <<Stop>>
  BY <1>1, <1>2, ConcatenationAssociates
<1>5. QED
  BY <1>3, <1>4 DEF head

LEMMA ReadTails ==
    ASSUME NEW d, NEW reg, NEW n \in Nat
    PROVE  /\ Head(<<Start(d)>> \o Rest(n)) = Start(d) /\ Tail(<<Start(d)>> \o Rest(n)) = Rest(n)
           /\ <<Start(d)>> \o Rest(n) # <<>>
           /\ Head(<<Put(reg), Start(d)>> \o Rest(n)) = Put(reg)
           /\ Tail(<<Put(reg), Start(d)>> \o Rest(n)) = <<Start(d)>> \o Rest(n)
           /\ <<Put(reg), Start(d)>> \o Rest(n) # <<>>
           /\ Head(ReadScript(d, reg, n)) = Start(d)
           /\ Tail(ReadScript(d, reg, n)) = <<Put(reg), Start(d)>> \o Rest(n)
           /\ ReadScript(d, reg, n) # <<>>
<1>1. Rest(n) \in Seq(ReadSteps(d, reg))
  <2>1. Rest(n) \in Seq({Get, Stop})
    BY RestIsShorter
  <2>2. QED
    BY <2>1 DEF ReadSteps
<1>2. ReadScript(d, reg, n) = ReadThen(d, reg, Rest(n))
  BY ReadScriptIs DEF ReadThen
<1>3. <<Put(reg), Start(d)>> \o Rest(n) = AddressThen(d, reg, Rest(n))
  BY DEF AddressThen
<1> DEFINE s == Rest(n)
<1>4. s \in Seq(ReadSteps(d, reg))
  BY <1>1
<1> HIDE DEF s
<1>5. /\ Head(<<Start(d)>> \o s) = Start(d) /\ Tail(<<Start(d)>> \o s) = s
      /\ <<Start(d)>> \o s # <<>>
      /\ Head(AddressThen(d, reg, s)) = Put(reg)
      /\ Tail(AddressThen(d, reg, s)) = <<Start(d)>> \o s
      /\ AddressThen(d, reg, s) # <<>>
      /\ Head(ReadThen(d, reg, s)) = Start(d)
      /\ Tail(ReadThen(d, reg, s)) = AddressThen(d, reg, s)
      /\ ReadThen(d, reg, s) # <<>>
  BY <1>4, TailOfRead
<1>6. QED
  BY <1>2, <1>3, <1>5 DEF s

\* Every script the guest may be in the middle of has an operation left.
LEMMA NotEmpty ==
    ASSUME I2cInv, script = <<>>
    PROVE  BusFree
<1>1. script # <<Stop>>
  OBVIOUS
<1>2. \A d \in Addressable : ~Scanning(d)
  BY DEF Scanning, ScanScript
<1>3. \A d \in Addressable, reg \in Registers, b \in BusBytes : ~Writing(d, reg, b)
  BY DEF Writing, WriteScript
<1>4. ASSUME NEW d \in Addressable, NEW reg \in Registers, NEW n \in ReadCounts(d)
      PROVE  ~Reading(d, reg, n)
  <2>1. n \in Nat
    BY BusConstants DEF ReadCounts
  <2>2. \A j \in 0 .. n : Rest(n - j) # <<>>
    BY <2>1, RestIsShorter
  <2>3. /\ <<Start(d)>> \o Rest(n) # <<>> /\ <<Put(reg), Start(d)>> \o Rest(n) # <<>>
        /\ ReadScript(d, reg, n) # <<>>
    BY <2>1, ReadTails
  <2>4. QED
    BY <2>2, <2>3 DEF Reading
<1>5. QED
  BY <1>1, <1>2, <1>3, <1>4 DEF I2cInv, AtScript, Closing


LEMMA I2cBegin == ASSUME I2cInv, BeginCommand PROVE I2cInv'
<1>1. script = <<>> /\ heard' = <<>>
      /\ UNCHANGED <<active, current, data, ack, pointer, eeprom, replies>>
  BY DEF BeginCommand
<1>2. BusFree /\ BusFree'
  BY <1>1, NotEmpty DEF BusFree
<1>3. I2cTypeOK'
  BY <1>1 DEF I2cInv, I2cTypeOK
<1>4. PICK d \in Addressable, reg \in Registers, asks \in BOOLEAN :
        \/ script' = ScanScript(d) /\ command' = NoCommand
        \/ /\ asks \/ d = "eeprom"
           /\ \E b \in BusBytes : script' = WriteScript(d, reg, b)
           /\ command' = [reads |-> FALSE, device |-> d, asks |-> asks]
        \/ /\ asks \/ d = "eeprom"
           /\ \E n \in ReadCounts(d) : script' = ReadScript(d, reg, n)
           /\ command' = [reads |-> TRUE, device |-> d, asks |-> asks]
  BY DEF BeginCommand, Addressable
<1>5. d = "eeprom" => d # Nobody
  BY DEF Nobody
<1>6. CASE script' = ScanScript(d) /\ command' = NoCommand
  <2>1. Scanning(d)'
    BY <1>2, <1>6 DEF Scanning, NoCommand
  <2>2. QED
    BY <1>3, <2>1 DEF I2cInv, AtScript
<1>7. CASE /\ asks \/ d = "eeprom"
           /\ \E b \in BusBytes : script' = WriteScript(d, reg, b)
           /\ command' = [reads |-> FALSE, device |-> d, asks |-> asks]
  <2>1. PICK b \in BusBytes : script' = WriteScript(d, reg, b)
    BY <1>7
  <2>2. ~command'.reads /\ (command'.asks \/ d # Nobody)
    BY <1>5, <1>7
  <2>3. Writing(d, reg, b)'
    BY <1>2, <2>1, <2>2 DEF Writing
  <2>4. QED
    BY <1>3, <2>3 DEF I2cInv, AtScript
<1>8. CASE /\ asks \/ d = "eeprom"
           /\ \E n \in ReadCounts(d) : script' = ReadScript(d, reg, n)
           /\ command' = [reads |-> TRUE, device |-> d, asks |-> asks]
  <2>1. PICK n \in ReadCounts(d) : script' = ReadScript(d, reg, n)
    BY <1>8
  <2>2. command'.reads /\ command'.device = d /\ (command'.asks \/ d # Nobody)
    BY <1>5, <1>8
  <2>3. Reading(d, reg, n)'
    BY <1>1, <1>2, <2>1, <2>2 DEF Reading
  <2>4. QED
    BY <1>3, <2>3 DEF I2cInv, AtScript
<1>9. QED
  BY <1>4, <1>6, <1>7, <1>8

\* What each kind of operation does.
LEMMA OperationIs ==
    ASSUME Operation, NEW d, NEW b
    PROVE  /\ command' = command
           /\ Head(script) = Start(d) =>
                 /\ DoStart(d) /\ UNCHANGED <<heard, replies>>
                 /\ script' = IF command.asks /\ d = Nobody THEN <<Stop>> ELSE Tail(script)
           /\ Head(script) = Put(b) =>
                 /\ DoWrite(b) /\ UNCHANGED <<heard, replies>> /\ script' = Tail(script)
           /\ Head(script) = Get =>
                 /\ DoRead /\ heard' = Append(heard, data') /\ UNCHANGED replies
                 /\ script' = Tail(script)
           /\ Head(script) = Stop =>
                 /\ DoStop /\ heard' = heard /\ script' = <<>>
                 /\ replies' = IF command.reads /\ command.device # Nobody
                               THEN [replies EXCEPT ![command.device] = heard] ELSE replies
<1>1. command' = command
  BY DEF Operation
<1>2. /\ Start(d).op = "START" /\ Start(d).device = d /\ Put(b).op = "WRITE" /\ Put(b).byte = b
      /\ Get.op = "READ" /\ Stop.op = "STOP"
  BY DEF Start, Put, Get, Stop
<1>3. CASE Head(script) = Start(d)
  <2>1. DoStart(d) /\ UNCHANGED <<heard, replies>>
        /\ script' = IF command.asks /\ ~ack' THEN <<Stop>> ELSE Tail(script)
    BY <1>2, <1>3 DEF Operation
  <2>2. ack' = (d # Nobody)
    BY <2>1 DEF DoStart
  <2>3. Start(d) # Put(b) /\ Start(d) # Get /\ Start(d) # Stop
    BY <1>2
  <2>4. QED
    BY <1>1, <1>3, <2>1, <2>2, <2>3
<1>4. CASE Head(script) = Put(b)
  <2>1. DoWrite(b) /\ UNCHANGED <<heard, replies>> /\ script' = Tail(script)
    BY <1>2, <1>4 DEF Operation
  <2>2. Put(b) # Start(d) /\ Put(b) # Get /\ Put(b) # Stop
    BY <1>2
  <2>3. QED
    BY <1>1, <1>4, <2>1, <2>2
<1>5. CASE Head(script) = Get
  <2>1. DoRead /\ heard' = Append(heard, data') /\ UNCHANGED replies /\ script' = Tail(script)
    BY <1>2, <1>5 DEF Operation
  <2>2. Get # Start(d) /\ Get # Put(b) /\ Get # Stop
    BY <1>2
  <2>3. QED
    BY <1>1, <1>5, <2>1, <2>2
<1>6. CASE Head(script) = Stop
  <2>1. /\ DoStop /\ heard' = heard /\ script' = <<>>
        /\ replies' = IF command.reads /\ command.device # Nobody
                      THEN [replies EXCEPT ![command.device] = heard] ELSE replies
    BY <1>2, <1>6 DEF Operation
  <2>2. Stop # Start(d) /\ Stop # Put(b) /\ Stop # Get
    BY <1>2
  <2>3. QED
    BY <1>1, <1>6, <2>1, <2>2
<1>7. QED
  BY <1>1, <1>3, <1>4, <1>5, <1>6


LEMMA AdvancedType == \A p \in I2cByte : Advanced(p) \in I2cByte
<1>1. EepromSize \in Nat \ {0} /\ I2cByte = 0 .. EepromSize - 1
  BY BusConstants
<1>2. ASSUME NEW p \in I2cByte
      PROVE  Advanced(p) \in I2cByte
  <2>1. p + 1 \in Int
    BY <1>1
  <2>2. (p + 1) % EepromSize \in 0 .. EepromSize - 1
    BY <1>1, <2>1, ModRange
  <2>3. QED
    BY <1>1, <2>2 DEF Advanced
<1>3. QED
  BY <1>2

LEMMA StartType ==
    ASSUME I2cTypeOK, NEW d \in Addressable, DoStart(d), UNCHANGED <<heard, replies>>
    PROVE  I2cTypeOK'
  BY DEF I2cTypeOK, DoStart, Addressable

LEMMA PutType ==
    ASSUME I2cTypeOK, NEW b \in I2cByte, DoWrite(b), UNCHANGED <<heard, replies>>
    PROVE  I2cTypeOK'
<1>1. pointer \in [Devices -> I2cByte] /\ eeprom \in [I2cByte -> I2cByte]
      /\ current \in Devices \cup {Nobody}
  BY DEF I2cTypeOK
<1>2. pointer' \in [Devices -> I2cByte]
  <2>1. \/ pointer' = [pointer EXCEPT ![current] = b]
        \/ pointer' = [pointer EXCEPT ![current] = Advanced(pointer[current])] /\ current = "eeprom"
        \/ pointer' = pointer
    BY DEF DoWrite
  <2>2. current = "eeprom" => Advanced(pointer[current]) \in I2cByte
    BY <1>1, AdvancedType DEF Devices
  <2>3. QED
    BY <1>1, <2>1, <2>2
<1>3. eeprom' \in [I2cByte -> I2cByte]
  <2>1. eeprom' = eeprom \/ eeprom' = [eeprom EXCEPT ![pointer[current]] = b]
    BY DEF DoWrite
  <2>2. QED
    BY <1>1, <2>1
<1>4. ack' \in BOOLEAN /\ data' = b /\ active' = active /\ current' = current
  BY DEF DoWrite
<1>5. QED
  BY <1>2, <1>3, <1>4 DEF I2cTypeOK

LEMMA ContentType ==
    ASSUME I2cTypeOK, NEW d \in Devices
    PROVE  /\ Content(d) \in [0 .. CellsOf(d) - 1 -> I2cByte]
           /\ DOMAIN Content(d) = 0 .. CellsOf(d) - 1
<1>1. eeprom \in [I2cByte -> I2cByte] /\ I2cByte = 0 .. EepromSize - 1
  BY BusConstants DEF I2cTypeOK
<1>2. Sensed \in [0 .. SensorSize - 1 -> I2cByte]
  BY BusConstants
<1>3. Content(d) \in [0 .. CellsOf(d) - 1 -> I2cByte]
  BY <1>1, <1>2 DEF Content, CellsOf
<1>4. QED
  BY <1>3

LEMMA GetType ==
    ASSUME I2cTypeOK, DoRead, heard' = Append(heard, data'), UNCHANGED replies
    PROVE  I2cTypeOK' /\ data' \in I2cByte
<1>1. EepromSize - 1 \in I2cByte
  BY BusConstants
<1>2. data' \in I2cByte /\ ack' \in BOOLEAN /\ UNCHANGED <<active, current, eeprom>>
  <2>1. CASE current # Nobody /\ pointer[current] \in DOMAIN Content(current)
    <3>1. data' = Content(current)[pointer[current]] /\ ack' = TRUE
      BY <2>1 DEF DoRead
    <3>2. current \in Devices
      BY <2>1 DEF I2cTypeOK
    <3>3. data' \in I2cByte
      BY <2>1, <3>1, <3>2, ContentType
    <3>4. QED
      BY <3>1, <3>3 DEF DoRead
  <2>2. CASE ~(current # Nobody /\ pointer[current] \in DOMAIN Content(current))
    BY <1>1, <2>2 DEF DoRead
  <2>3. QED
    BY <2>1, <2>2
<1>3. pointer' \in [Devices -> I2cByte]
  <2>1. \/ pointer' = [pointer EXCEPT ![current] = Advanced(pointer[current])] /\ current # Nobody
        \/ pointer' = pointer
    BY DEF DoRead
  <2>2. pointer \in [Devices -> I2cByte] /\ current \in Devices \cup {Nobody}
    BY DEF I2cTypeOK
  <2>3. current # Nobody => Advanced(pointer[current]) \in I2cByte
    BY <2>2, AdvancedType
  <2>4. QED
    BY <2>1, <2>2, <2>3
<1>4. heard' \in Seq(I2cByte)
  BY <1>2 DEF I2cTypeOK
<1>5. QED
  BY <1>2, <1>3, <1>4 DEF I2cTypeOK

LEMMA StopType ==
    ASSUME I2cTypeOK, DoStop, heard' = heard,
           replies' = IF command.reads /\ command.device # Nobody
                      THEN [replies EXCEPT ![command.device] = heard] ELSE replies
    PROVE  I2cTypeOK'
<1>1. pointer' \in [Devices -> I2cByte]
  <2>1. Waiting \in I2cByte /\ pointer \in [Devices -> I2cByte]
    <3>1. EepromSize \in Nat \ {0} /\ I2cByte = 0 .. EepromSize - 1 /\ Waiting = EepromSize - 1
      BY BusConstants
    <3>2. QED
      BY <3>1 DEF I2cTypeOK
  <2>2. QED
    BY <2>1 DEF DoStop, Released
<1>2. replies' \in [Devices -> Seq(I2cByte)]
  BY DEF I2cTypeOK
<1>3. QED
  BY <1>1, <1>2 DEF I2cTypeOK, DoStop


\* A step of each of the two stores, or none.
StoresStep ==
    /\ [EepromStore!Next]_<<eeprom, replies["eeprom"]>>
    /\ [SensorStore!Next]_<<Sensed, replies["sensor"]>>

LEMMA QuietStep == ASSUME UNCHANGED <<eeprom, replies>> PROVE StoresStep
  BY DEF StoresStep

LEMMA StopFrees ==
    ASSUME I2cTypeOK, DoStop, current = "eeprom" \/ BusFree
    PROVE  BusFree' /\ eeprom' = eeprom
  BY DEF I2cTypeOK, DoStop, Released, BusFree, Devices

LEMMA ScanningStep ==
    ASSUME I2cInv, Operation, NEW d \in Addressable, Scanning(d)
    PROVE  I2cInv' /\ StoresStep
<1>1. script = <<Start(d), Stop>> /\ BusFree /\ ~command.reads
  BY DEF Scanning, ScanScript
<1>2. Head(script) = Start(d) /\ Tail(script) = <<Stop>>
  BY <1>1, ShortTail
<1>3. /\ DoStart(d) /\ UNCHANGED <<heard, replies, command>> /\ script' = <<Stop>>
  BY <1>2, OperationIs
<1>4. UNCHANGED <<pointer, eeprom>>
  BY <1>3 DEF DoStart
<1>5. Closing'
  BY <1>1, <1>3, <1>4 DEF Closing, BusFree
<1>6. I2cTypeOK'
  BY <1>3, StartType DEF I2cInv
<1>7. QED
  BY <1>3, <1>4, <1>5, <1>6, QuietStep DEF I2cInv, AtScript

LEMMA ClosingStep == ASSUME I2cInv, Operation, Closing PROVE I2cInv' /\ StoresStep
<1>1. script = <<Stop>> /\ (current = "eeprom" \/ BusFree)
      /\ ~(command.reads /\ command.device # Nobody)
  BY DEF Closing
<1>2. Head(script) = Stop
  BY <1>1, ShortTail
<1>3. DoStop /\ heard' = heard /\ script' = <<>> /\ replies' = replies
      /\ replies' = IF command.reads /\ command.device # Nobody
                    THEN [replies EXCEPT ![command.device] = heard] ELSE replies
  BY <1>1, <1>2, OperationIs
<1>4. BusFree' /\ eeprom' = eeprom
  BY <1>1, <1>3, StopFrees DEF I2cInv
<1>5. I2cTypeOK'
  BY <1>3, StopType DEF I2cInv
<1>6. QED
  BY <1>3, <1>4, <1>5, QuietStep DEF I2cInv, AtScript

\* A START of a script whose device is there or is asked for.
LEMMA StartAnswered ==
    ASSUME I2cInv, Operation, NEW d \in Addressable, Head(script) = Start(d), BusFree,
           command.asks \/ d # Nobody
    PROVE  /\ I2cTypeOK' /\ BusFree' /\ StoresStep
           /\ UNCHANGED <<heard, command, pointer, eeprom>>
           /\ d = Nobody => script' = <<Stop>>
           /\ d # Nobody => OnWire(d)' /\ script' = Tail(script)
<1>1. /\ DoStart(d) /\ UNCHANGED <<heard, replies, command>>
      /\ script' = IF command.asks /\ d = Nobody THEN <<Stop>> ELSE Tail(script)
  BY OperationIs
<1>2. UNCHANGED <<pointer, eeprom>> /\ active' = TRUE /\ current' = d
  BY <1>1 DEF DoStart
<1>3. I2cTypeOK'
  BY <1>1, StartType DEF I2cInv
<1>4. d # Nobody => OnWire(d)'
  BY <1>2 DEF OnWire, Addressable
<1>5. BusFree' /\ StoresStep
  BY <1>1, <1>2, QuietStep DEF BusFree
<1>6. QED
  BY <1>1, <1>2, <1>3, <1>4, <1>5

\* A byte that the device on the wire takes for an address.
LEMMA PutAddress ==
    ASSUME I2cInv, Operation, NEW d, NEW b \in I2cByte, Head(script) = Put(b), OnWire(d), BusFree
    PROVE  /\ I2cTypeOK' /\ StoresStep /\ OnWire(d)' /\ pointer'[d] = b
           /\ (d = "eeprom" \/ BusFree')
           /\ UNCHANGED <<heard, command, eeprom>> /\ script' = Tail(script)
<1>1. /\ DoWrite(b) /\ UNCHANGED <<heard, replies, command>> /\ script' = Tail(script)
  BY OperationIs
<1>2. d \in Devices /\ current = d /\ active /\ pointer \in [Devices -> I2cByte]
  BY DEF OnWire, I2cInv, I2cTypeOK
<1>3. /\ pointer' = [pointer EXCEPT ![d] = b]
      /\ UNCHANGED <<eeprom, active, current>>
  BY <1>1, <1>2 DEF DoWrite, BusFree, Devices, Nobody
<1>4. I2cTypeOK'
  BY <1>1, PutType DEF I2cInv
<1>5. d = "eeprom" \/ BusFree'
  BY <1>2, <1>3 DEF BusFree, Devices
<1>6. StoresStep
  BY <1>1, <1>3, QuietStep
<1>7. QED
  BY <1>1, <1>2, <1>3, <1>4, <1>5, <1>6 DEF OnWire


\* A byte that the EEPROM takes for the content of a cell.
LEMMA PutContent ==
    ASSUME I2cInv, Operation, NEW reg \in Registers, NEW b \in BusBytes, Head(script) = Put(b),
           OnWire("eeprom"), pointer["eeprom"] = reg, reg # Waiting
    PROVE  /\ I2cTypeOK' /\ StoresStep /\ current' = "eeprom"
           /\ UNCHANGED <<heard, command>> /\ script' = Tail(script)
<1>1. /\ DoWrite(b) /\ UNCHANGED <<heard, replies, command>> /\ script' = Tail(script)
  BY OperationIs
<1>2. current = "eeprom" /\ pointer[current] # Waiting
  BY DEF OnWire
<1>3. eeprom' = [eeprom EXCEPT ![reg] = b] /\ current' = current
  BY <1>1, <1>2 DEF DoWrite, Nobody
<1>4. /\ reg \in 0 .. EepromSize - 1 /\ b \in I2cByte /\ EepromSize \in Nat /\ Waiting = EepromSize - 1
      /\ I2cByte = 0 .. EepromSize - 1
  BY BusConstants
<1>5. I2cTypeOK'
  BY <1>1, <1>4, PutType DEF I2cInv
<1>6. EepromStore!Write(reg, <<b>>)
  <2>1. eeprom \in [0 .. EepromSize - 1 -> I2cByte]
    BY <1>4 DEF I2cInv, I2cTypeOK
  <2>2. DOMAIN <<b>> = {1} /\ <<b>>[1] = b
    OBVIOUS
  <2>3. ASSUME NEW c \in 0 .. EepromSize - 1
        PROVE  eeprom'[c] = IF c < EepromSize - 1 /\ c - reg + 1 \in DOMAIN <<b>>
                            THEN <<b>>[c - reg + 1] ELSE eeprom[c]
    <3>1. c - reg + 1 \in {1} <=> c = reg
      BY <1>4
    <3>2. CASE c = reg
      <4>1. c < EepromSize - 1 /\ c - reg + 1 = 1
        BY <1>4, <3>2
      <4>2. eeprom'[c] = b
        BY <1>3, <2>1, <3>2
      <4>3. QED
        BY <2>2, <4>1, <4>2
    <3>3. CASE c # reg
      BY <1>3, <2>1, <2>2, <3>1, <3>3
    <3>4. QED
      BY <3>2, <3>3
  <2>4. eeprom' = [c \in 0 .. EepromSize - 1 |->
                      IF c < EepromSize - 1 /\ c - reg + 1 \in DOMAIN <<b>>
                      THEN <<b>>[c - reg + 1] ELSE eeprom[c]]
    BY <1>3, <2>1, <2>3
  <2>5. QED
    BY <1>1, <2>4 DEF EepromStore!Write
<1>7. EepromStore!Next
  BY <1>6 DEF EepromStore!Next
<1>8. StoresStep
  BY <1>1, <1>7 DEF StoresStep
<1>9. QED
  BY <1>1, <1>2, <1>3, <1>5, <1>8

LEMMA WritingStep ==
    ASSUME I2cInv, Operation, NEW d \in Addressable, NEW reg \in Registers, NEW b \in BusBytes,
           Writing(d, reg, b)
    PROVE  I2cInv' /\ StoresStep
<1>1. ~command.reads /\ reg \in I2cByte /\ b \in I2cByte
  BY BusConstants DEF Writing
<1>2. CASE script = WriteScript(d, reg, b) /\ BusFree /\ (command.asks \/ d # Nobody)
  <2>1. Head(script) = Start(d) /\ Tail(script) = <<Put(reg), Put(b), Stop>>
    BY <1>2, ShortTail DEF WriteScript
  <2>2. /\ I2cTypeOK' /\ BusFree' /\ StoresStep /\ command' = command
        /\ d = Nobody => script' = <<Stop>>
        /\ d # Nobody => OnWire(d)' /\ script' = Tail(script)
    BY <1>2, <2>1, StartAnswered
  <2>3. CASE d = Nobody
    <3>1. Closing'
      BY <1>1, <2>2, <2>3 DEF Closing
    <3>2. QED
      BY <2>2, <3>1 DEF I2cInv, AtScript
  <2>4. CASE d # Nobody
    <3>1. Writing(d, reg, b)'
      BY <1>1, <2>1, <2>2, <2>4 DEF Writing
    <3>2. QED
      BY <2>2, <3>1 DEF I2cInv, AtScript
  <2>5. QED
    BY <2>3, <2>4
<1>3. CASE script = <<Put(reg), Put(b), Stop>> /\ OnWire(d) /\ BusFree
  <2>1. Head(script) = Put(reg) /\ Tail(script) = <<Put(b), Stop>>
    BY <1>3, ShortTail
  <2>2. /\ I2cTypeOK' /\ StoresStep /\ OnWire(d)' /\ pointer'[d] = reg
        /\ (d = "eeprom" \/ BusFree')
        /\ command' = command /\ script' = Tail(script)
    BY <1>1, <1>3, <2>1, PutAddress
  <2>3. Writing(d, reg, b)'
    BY <1>1, <2>1, <2>2 DEF Writing
  <2>4. QED
    BY <2>2, <2>3 DEF I2cInv, AtScript
<1>4. CASE /\ script = <<Put(b), Stop>> /\ OnWire(d)
           /\ IF d = "eeprom" THEN pointer[d] = reg ELSE BusFree
  <2>1. Head(script) = Put(b) /\ Tail(script) = <<Stop>>
    BY <1>4, ShortTail
  <2>2. CASE BusFree
    <3>1. /\ I2cTypeOK' /\ StoresStep /\ OnWire(d)' /\ (d = "eeprom" \/ BusFree')
          /\ command' = command /\ script' = Tail(script)
      BY <1>1, <1>4, <2>1, <2>2, PutAddress
    <3>2. Closing'
      BY <1>1, <2>1, <3>1 DEF Closing, OnWire
    <3>3. QED
      BY <3>1, <3>2 DEF I2cInv, AtScript
  <2>3. CASE ~BusFree
    <3>1. d = "eeprom" /\ pointer["eeprom"] = reg /\ reg # Waiting
      BY <1>4, <2>3 DEF BusFree
    <3>2. /\ I2cTypeOK' /\ StoresStep /\ current' = "eeprom"
          /\ command' = command /\ script' = Tail(script)
      BY <1>4, <2>1, <3>1, PutContent
    <3>3. Closing'
      BY <1>1, <2>1, <3>2 DEF Closing
    <3>4. QED
      BY <3>2, <3>3 DEF I2cInv, AtScript
  <2>4. QED
    BY <2>2, <2>3
<1>5. QED
  BY <1>2, <1>3, <1>4 DEF Writing


\* A READ adds the next cell to what was heard.
LEMMA GetHeard ==
    ASSUME I2cInv, Operation, Head(script) = Get, NEW d, OnWire(d), NEW reg \in Registers,
           NEW n \in ReadCounts(d), NEW j \in 0 .. n - 1, Heard(d, reg, j), d = "eeprom" \/ BusFree
    PROVE  /\ I2cTypeOK' /\ StoresStep /\ OnWire(d)' /\ (d = "eeprom" \/ BusFree')
           /\ Heard(d, reg, j + 1)'
           /\ command' = command /\ script' = Tail(script)
<1>1. /\ DoRead /\ heard' = Append(heard, data') /\ UNCHANGED <<replies, command>>
      /\ script' = Tail(script)
  BY OperationIs
<1>2. I2cTypeOK' /\ data' \in I2cByte
  BY <1>1, GetType DEF I2cInv
<1>3. /\ d \in Devices /\ current = d /\ active /\ d # Nobody
      /\ pointer \in [Devices -> I2cByte] /\ heard \in Seq(I2cByte)
  BY DEF OnWire, I2cInv, I2cTypeOK, Devices, Nobody
<1>4. UNCHANGED <<active, current, eeprom>>
  BY <1>1 DEF DoRead
<1>5. OnWire(d)' /\ StoresStep
  BY <1>1, <1>3, <1>4, QuietStep DEF OnWire
<1>6. /\ EepromSize \in Nat /\ EepromSize > 1 /\ I2cByte = 0 .. EepromSize - 1
      /\ SensorSize \in 1 .. EepromSize - 1 /\ reg \in 0 .. EepromSize - 1
  BY BusConstants
<1>7. n \in Nat /\ j \in Nat /\ (d = "eeprom" => j = 0)
  BY <1>6 DEF ReadCounts
<1>8. /\ Len(heard) = j /\ pointer[d] \in 0 .. EepromSize - 1
      /\ \A i \in 1 .. j :
           heard[i] = IF reg + i - 1 < CellsOf(d) THEN Content(d)[reg + i - 1] ELSE EepromSize - 1
  BY <1>3, <1>6 DEF Heard
<1>9. Content(d)' = Content(d) /\ DOMAIN Content(d) = 0 .. CellsOf(d) - 1
  BY <1>3, <1>4, ContentType DEF Content, I2cInv
<1>10. /\ reg + j < CellsOf(d) => pointer[d] = reg + j
       /\ reg + j >= CellsOf(d) => pointer[d] >= CellsOf(d)
  <2>1. CASE d = "eeprom"
    BY <1>6, <1>7, <2>1 DEF Heard, CellsOf
  <2>2. CASE d = "sensor"
    BY <1>6, <1>7, <2>2 DEF Heard, CellsOf
  <2>3. QED
    BY <1>3, <2>1, <2>2 DEF Devices
<1>11. CellsOf(d) \in Nat /\ CellsOf(d) <= EepromSize
  BY <1>6 DEF CellsOf
<1>12. pointer[d] \in DOMAIN Content(d) <=> reg + j < CellsOf(d)
  BY <1>6, <1>7, <1>8, <1>9, <1>10, <1>11
<1>13. data' = IF reg + j < CellsOf(d) THEN Content(d)[reg + j] ELSE EepromSize - 1
  BY <1>1, <1>3, <1>10, <1>12 DEF DoRead
<1>14. pointer' = IF reg + j < CellsOf(d)
                  THEN [pointer EXCEPT ![d] = Advanced(pointer[d])] ELSE pointer
  BY <1>1, <1>3, <1>12 DEF DoRead
<1>15. d = "eeprom" \/ BusFree'
  BY <1>3, <1>14 DEF BusFree, Devices
<1>16. d = "sensor" =>
          IF reg + (j + 1) < SensorSize THEN pointer'[d] = reg + (j + 1)
          ELSE pointer'[d] >= SensorSize
  <2> SUFFICES ASSUME d = "sensor"
               PROVE  IF reg + (j + 1) < SensorSize THEN pointer'[d] = reg + (j + 1)
                      ELSE pointer'[d] >= SensorSize
    OBVIOUS
  <2>1. CellsOf(d) = SensorSize
    BY DEF CellsOf
  <2>2. CASE reg + j < SensorSize
    <3>1. pointer'[d] = Advanced(reg + j)
      BY <1>3, <1>10, <1>14, <2>1, <2>2
    <3>2. reg + j + 1 \in 0 .. EepromSize - 1
      BY <1>6, <1>7, <2>2
    <3>3. (reg + j + 1) % EepromSize = reg + j + 1
      <4> DEFINE x == reg + j + 1
      <4>1. EepromSize \in Nat \ {0} /\ x \in 0 .. 2 * EepromSize - 1 /\ x < EepromSize
        BY <1>6, <3>2
      <4> HIDE DEF x
      <4>2. x % EepromSize = x
        BY <4>1, ModWrap
      <4>3. QED
        BY <4>2 DEF x
    <3>4. pointer'[d] = reg + j + 1
      BY <3>1, <3>3 DEF Advanced
    <3>5. QED
      BY <1>6, <1>7, <2>2, <3>4
  <2>3. CASE reg + j >= SensorSize
    <3>1. pointer'[d] = pointer[d] /\ pointer[d] >= SensorSize
      BY <1>6, <1>7, <1>10, <1>14, <2>1, <2>3
    <3>2. QED
      BY <1>6, <1>7, <2>3, <3>1
  <2>4. QED
    BY <1>6, <1>7, <2>2, <2>3
<1>17. Len(heard') = j + 1 /\ heard'[j + 1] = data' /\ \A i \in 1 .. j : heard'[i] = heard[i]
  BY <1>1, <1>2, <1>3, <1>8
<1>18. \A i \in 1 .. j + 1 :
          heard'[i] = IF reg + i - 1 < CellsOf(d) THEN Content(d)[reg + i - 1] ELSE EepromSize - 1
  <2> TAKE i \in 1 .. j + 1
  <2>1. CASE i = j + 1
    <3>1. reg + i - 1 = reg + j
      BY <1>6, <1>7, <2>1
    <3>2. QED
      BY <1>13, <1>17, <2>1, <3>1
  <2>2. CASE i \in 1 .. j
    BY <1>8, <1>17, <2>2
  <2>3. QED
    BY <1>7, <2>1, <2>2
<1>19. Heard(d, reg, j + 1)'
  <2>1. j + 1 # 0
    BY <1>7
  <2>2. QED
    BY <1>9, <1>16, <1>17, <1>18, <2>1 DEF Heard
<1>20. QED
  BY <1>1, <1>2, <1>5, <1>15, <1>19

\* The STOP of a read delivers what was heard.
LEMMA StopDelivers ==
    ASSUME I2cInv, Operation, Head(script) = Stop, NEW d, OnWire(d), NEW reg \in Registers,
           NEW n \in ReadCounts(d), Heard(d, reg, n), d = "eeprom" \/ BusFree,
           command.reads, command.device = d
    PROVE  I2cInv' /\ StoresStep
<1>1. d \in Devices /\ current = d /\ d # Nobody
  BY DEF OnWire, Devices, Nobody
<1>2. /\ DoStop /\ heard' = heard /\ script' = <<>>
      /\ replies' = [replies EXCEPT ![d] = heard]
      /\ replies' = IF command.reads /\ command.device # Nobody
                    THEN [replies EXCEPT ![command.device] = heard] ELSE replies
  BY <1>1, OperationIs
<1>3. BusFree' /\ eeprom' = eeprom
  BY <1>1, <1>2, StopFrees DEF I2cInv
<1>4. I2cTypeOK'
  BY <1>2, StopType DEF I2cInv
<1>5. I2cInv'
  BY <1>2, <1>3, <1>4 DEF I2cInv, AtScript
<1>6. replies \in [Devices -> Seq(I2cByte)] /\ heard \in Seq(I2cByte)
  BY DEF I2cInv, I2cTypeOK
<1>7. heard = [i \in 1 .. n |->
                  IF reg + i - 1 < CellsOf(d) THEN Content(d)[reg + i - 1] ELSE EepromSize - 1]
  <2>1. Len(heard) = n /\ \A i \in 1 .. n :
           heard[i] = IF reg + i - 1 < CellsOf(d) THEN Content(d)[reg + i - 1] ELSE EepromSize - 1
    BY DEF Heard
  <2>2. heard = [i \in 1 .. n |-> heard[i]]
    BY <1>6, <2>1
  <2>3. QED
    BY <2>1, <2>2
<1>8. CASE d = "eeprom"
  <2>1. replies'["eeprom"] = heard /\ replies'["sensor"] = replies["sensor"] /\ n = 1
    BY <1>2, <1>6, <1>8 DEF Devices, ReadCounts
  <2>2. EepromStore!Read(reg, n)
    BY <1>3, <1>7, <1>8, <2>1 DEF EepromStore!Read, CellsOf, Content
  <2>3. EepromStore!Next
    BY <2>1, <2>2 DEF EepromStore!Next
  <2>4. QED
    BY <1>5, <2>1, <2>3 DEF StoresStep
<1>9. CASE d = "sensor"
  <2>1. replies'["sensor"] = heard /\ replies'["eeprom"] = replies["eeprom"]
        /\ n \in {1, SensorSize}
    BY <1>2, <1>6, <1>9 DEF Devices, ReadCounts
  <2>2. SensorStore!Read(reg, n)
    BY <1>7, <1>9, <2>1 DEF SensorStore!Read, CellsOf, Content
  <2>3. SensorStore!Next
    BY <2>1, <2>2 DEF SensorStore!Next
  <2>4. QED
    BY <1>3, <1>5, <2>1, <2>3 DEF StoresStep
<1>10. QED
  BY <1>1, <1>8, <1>9 DEF Devices


LEMMA ReadingStep ==
    ASSUME I2cInv, Operation, NEW d \in Addressable, NEW reg \in Registers,
           NEW n \in ReadCounts(d), Reading(d, reg, n)
    PROVE  I2cInv' /\ StoresStep
<1>1. command.reads /\ command.device = d /\ reg \in I2cByte /\ n \in Nat
  BY BusConstants DEF Reading, ReadCounts
<1>2. CASE /\ script = ReadScript(d, reg, n) /\ BusFree /\ heard = <<>>
           /\ command.asks \/ d # Nobody
  <2>1. Head(script) = Start(d) /\ Tail(script) = <<Put(reg), Start(d)>> \o Rest(n)
    BY <1>1, <1>2, ReadTails
  <2>2. /\ I2cTypeOK' /\ BusFree' /\ StoresStep /\ UNCHANGED <<heard, command>>
        /\ d = Nobody => script' = <<Stop>>
        /\ d # Nobody => OnWire(d)' /\ script' = Tail(script)
    BY <1>2, <2>1, StartAnswered
  <2>3. CASE d = Nobody
    <3>1. Closing'
      BY <1>1, <2>2, <2>3 DEF Closing
    <3>2. QED
      BY <2>2, <3>1 DEF I2cInv, AtScript
  <2>4. CASE d # Nobody
    <3>1. Reading(d, reg, n)'
      BY <1>1, <1>2, <2>1, <2>2, <2>4 DEF Reading
    <3>2. QED
      BY <2>2, <3>1 DEF I2cInv, AtScript
  <2>5. QED
    BY <2>3, <2>4
<1>3. CASE script = <<Put(reg), Start(d)>> \o Rest(n) /\ OnWire(d) /\ BusFree /\ heard = <<>>
  <2>1. Head(script) = Put(reg) /\ Tail(script) = <<Start(d)>> \o Rest(n)
    BY <1>1, <1>3, ReadTails
  <2>2. /\ I2cTypeOK' /\ StoresStep /\ OnWire(d)' /\ pointer'[d] = reg
        /\ (d = "eeprom" \/ BusFree')
        /\ UNCHANGED <<heard, command>> /\ script' = Tail(script)
    BY <1>1, <1>3, <2>1, PutAddress
  <2>3. Reading(d, reg, n)'
    BY <1>1, <1>3, <2>1, <2>2 DEF Reading
  <2>4. QED
    BY <2>2, <2>3 DEF I2cInv, AtScript
<1>4. CASE /\ script = <<Start(d)>> \o Rest(n) /\ OnWire(d) /\ heard = <<>>
           /\ pointer[d] = reg /\ (d = "eeprom" \/ BusFree)
  <2>1. Head(script) = Start(d) /\ Tail(script) = Rest(n)
    BY <1>1, <1>4, ReadTails
  <2>2. d \in Devices /\ d # Nobody
    BY <1>4 DEF OnWire, Devices, Nobody
  <2>3. /\ DoStart(d) /\ UNCHANGED <<heard, replies, command>>
        /\ script' = Rest(n)
    BY <2>1, <2>2, OperationIs
  <2>4. UNCHANGED <<pointer, eeprom>> /\ active' = TRUE /\ current' = d
    BY <2>3 DEF DoStart
  <2>5. I2cTypeOK'
    BY <2>3, StartType DEF I2cInv
  <2>6. OnWire(d)' /\ (d = "eeprom" \/ BusFree') /\ StoresStep
    BY <1>4, <2>2, <2>3, <2>4, QuietStep DEF OnWire, BusFree
  <2>7. Heard(d, reg, 0)'
    <3>1. reg \in Nat /\ reg + 0 = reg /\ SensorSize \in Nat
      BY <1>1, BusConstants
    <3>2. heard' = <<>> /\ Len(<<>>) = 0 /\ pointer'[d] = reg
      BY <1>4, <2>3, <2>4
    <3>3. QED
      BY <3>1, <3>2 DEF Heard
  <2>8. Reading(d, reg, n)'
    <3>1. 0 \in 0 .. n /\ n - 0 = n
      BY <1>1
    <3>2. \E j \in 0 .. n : script' = Rest(n - j) /\ Heard(d, reg, j)'
      BY <2>3, <2>7, <3>1
    <3>3. QED
      BY <1>1, <2>3, <2>6, <3>2 DEF Reading
  <2>9. QED
    BY <2>5, <2>6, <2>8 DEF I2cInv, AtScript
<1>5. CASE /\ OnWire(d) /\ (d = "eeprom" \/ BusFree)
           /\ \E j \in 0 .. n : script = Rest(n - j) /\ Heard(d, reg, j)
  <2>1. PICK j \in 0 .. n : script = Rest(n - j) /\ Heard(d, reg, j)
    BY <1>5
  <2>2. CASE j = n
    <3>1. n - j = 0
      BY <1>1, <2>2
    <3>2. script = <<Stop>>
      BY <2>1, <3>1, RestIsShorter
    <3>3. Head(script) = Stop
      BY <3>2, ShortTail
    <3>4. QED
      BY <1>1, <1>5, <2>1, <2>2, <3>3, StopDelivers
  <2>3. CASE j # n
    <3>1. /\ j \in 0 .. n - 1 /\ n - j \in Nat \ {0}
          /\ (n - j) - 1 = n - (j + 1) /\ j + 1 \in 0 .. n
      BY <1>1, <2>1, <2>3
    <3>2. Head(script) = Get /\ Tail(script) = Rest(n - (j + 1))
      BY <2>1, <3>1, RestIsShorter
    <3>3. /\ I2cTypeOK' /\ StoresStep /\ OnWire(d)' /\ (d = "eeprom" \/ BusFree')
          /\ Heard(d, reg, j + 1)'
          /\ command' = command /\ script' = Tail(script)
      BY <1>5, <2>1, <3>1, <3>2, GetHeard
    <3>4. Reading(d, reg, n)'
      <4>1. \E i \in 0 .. n : script' = Rest(n - i) /\ Heard(d, reg, i)'
        BY <3>1, <3>2, <3>3
      <4>2. QED
        BY <1>1, <3>3, <4>1 DEF Reading
    <3>5. QED
      BY <3>3, <3>4 DEF I2cInv, AtScript
  <2>4. QED
    BY <2>2, <2>3
<1>6. QED
  BY <1>2, <1>3, <1>4, <1>5 DEF Reading

LEMMA I2cOperation == ASSUME I2cInv, Operation PROVE I2cInv' /\ StoresStep
<1>1. script # <<>>
  BY DEF Operation
<1>2. CASE Closing
  BY <1>2, ClosingStep
<1>3. CASE \E d \in Addressable : Scanning(d)
  BY <1>3, ScanningStep
<1>4. CASE \E d \in Addressable, reg \in Registers, b \in BusBytes : Writing(d, reg, b)
  BY <1>4, WritingStep
<1>5. CASE \E d \in Addressable, reg \in Registers : \E n \in ReadCounts(d) : Reading(d, reg, n)
  BY <1>5, ReadingStep
<1>6. QED
  BY <1>1, <1>2, <1>3, <1>4, <1>5 DEF I2cInv, AtScript

LEMMA I2cStep == ASSUME I2cInv, [I2cNext]_i2cVars PROVE I2cInv' /\ StoresStep
<1>1. CASE BeginCommand
  <2>1. UNCHANGED <<eeprom, replies>>
    BY <1>1 DEF BeginCommand
  <2>2. QED
    BY <1>1, <2>1, I2cBegin, QuietStep
<1>2. CASE Operation
  BY <1>2, I2cOperation
<1>3. CASE UNCHANGED i2cVars
  <2>1. UNCHANGED <<eeprom, replies>>
    BY <1>3 DEF i2cVars
  <2>2. I2cTypeOK'
    BY <1>3 DEF I2cInv, I2cTypeOK, i2cVars
  <2>3. AtScript'
    BY <1>3 DEF I2cInv, AtScript, Closing, Scanning, Writing, Reading, Heard, OnWire, BusFree,
                Content, i2cVars
  <2>4. QED
    BY <2>1, <2>2, <2>3, QuietStep DEF I2cInv
<1>4. QED
  BY <1>1, <1>2, <1>3 DEF I2cNext

LEMMA I2cInvariant == I2cSpec => []I2cInv
<1>1. I2cInv /\ [I2cNext]_i2cVars => I2cInv'
  BY I2cStep
<1>2. QED
  BY I2cInitially, <1>1, PTL DEF I2cSpec

\* The bus controller, its devices and the guest's command keep their types: no
\* transfer of Process_Operation moves a register pointer out of its byte.
THEOREM I2cTypeCorrect == I2cSpec => []I2cTypeOK
<1>1. I2cInv => I2cTypeOK
  BY DEF I2cInv
<1>2. QED
  BY I2cInvariant, <1>1, PTL

\* Each device of riscv-i2c.adb is a byte store to the guest of cli.c, whatever
\* the commands before left of the transfers and of the pointers.
THEOREM I2cBusIsByteStores == I2cSpec => BusIsByteStores
<1>1. I2cInit => EepromStore!Init /\ SensorStore!Init
  BY DEF I2cInit, EepromStore!Init, SensorStore!Init, Devices
<1>2. /\ I2cInv /\ [I2cNext]_i2cVars => [EepromStore!Next]_<<eeprom, replies["eeprom"]>>
      /\ I2cInv /\ [I2cNext]_i2cVars => [SensorStore!Next]_<<Sensed, replies["sensor"]>>
  BY I2cStep DEF StoresStep
<1>3. QED
  BY I2cInvariant, <1>1, <1>2, PTL DEF I2cSpec, BusIsByteStores, EepromStore!Spec, SensorStore!Spec

\* What the guest reads of the SPI flash and of the devices on the I2C bus is
\* what it wrote there: both controllers and their drivers implement ByteStore.
THEOREM StorageDevicesAreByteStores == SpiSpec /\ I2cSpec => DevicesAreByteStores
  BY SpiFlashIsByteStore, I2cBusIsByteStores, PTL DEF DevicesAreByteStores
=============================================================================
