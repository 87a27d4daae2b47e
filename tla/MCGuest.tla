------------------------------ MODULE MCGuest ------------------------------
(***************************************************************************)
(* The guest's libraries: the lock routines on one hart with three threads *)
(* (LrSc), the counter routines (Counters), the FAT12 file system, and the *)
(* drivers of the SPI flash and of the I2C devices with those devices.     *)
(* They share no state and no property speaks of two of them, so a         *)
(* behaviour runs one; what the others could start with is cut to one.     *)
(***************************************************************************)
EXTENDS MCLrSc, Counters, Fat12, StorageDevices

\* A buffer that looks like commands, and one that runs past the flash's end.
MCFlashBuffers == {<<6, 2>>, <<3, 5, 0>>}
MCMeasured == <<1, 3>>

\* The three threads run the same code on the same hart.
ThreadSymmetry == Permutations(Threads)

VARIABLE runs   \* the library this behaviour runs

libraries == <<vars, counterVars, fatVars, spiVars, i2cVars>>

GuestInit ==
    /\ runs \in {"locks", "counters", "files", "flash", "bus"}
    /\ Init /\ (runs # "locks" => \A t \in Threads : target[t] = CHOOSE l \in Locks : TRUE)
    /\ CountersInit /\ FatInit /\ SpiInit /\ I2cInit

RunLocks ==
    runs = "locks" /\ Next /\ UNCHANGED <<counterVars, fatVars, spiVars, i2cVars, runs>>
RunCounters ==
    runs = "counters" /\ CountersNext /\ UNCHANGED <<vars, fatVars, spiVars, i2cVars, runs>>
RunFiles ==
    runs = "files" /\ FatNext /\ UNCHANGED <<vars, counterVars, spiVars, i2cVars, runs>>
RunFlash ==
    runs = "flash" /\ SpiNext /\ UNCHANGED <<vars, counterVars, fatVars, i2cVars, runs>>
RunBus ==
    runs = "bus" /\ I2cNext /\ UNCHANGED <<vars, counterVars, fatVars, spiVars, runs>>

GuestSpec ==
    /\ GuestInit
    /\ [][RunLocks \/ RunCounters \/ RunFiles \/ RunFlash \/ RunBus]_<<libraries, runs>>
=============================================================================
