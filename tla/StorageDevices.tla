--------------------------- MODULE StorageDevices ---------------------------
(***************************************************************************)
(* The devices that keep bytes behind a serial protocol, each with the     *)
(* driver of programs/ that speaks it.  They share no state.               *)
(***************************************************************************)
EXTENDS SpiFlash, I2c

\* The devices behind both drivers are byte stores: see FlashIsByteStore and
\* BusIsByteStores for what each of them promises (spi.c, i2c.c).
DevicesAreByteStores == FlashIsByteStore /\ BusIsByteStores
=============================================================================
