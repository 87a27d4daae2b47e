------------------------------ MODULE MCTables ------------------------------
(***************************************************************************)
(* The two tables an access is looked up in: the CSR file and the memory   *)
(* map.  They share no state, so a behaviour runs one.  The CSR table has  *)
(* room for the registers a machine-mode trap needs; the map has RAM, a    *)
(* ROM behind it, a region that overlaps both, one at the top of the       *)
(* address space, and one device in a padded span above the ROM.           *)
(***************************************************************************)
EXTENDS CsrFile, Memory

MCPreset == <<"mstatus", "mhartid">>
MCTrapWrites == {<<"mepc", "mstatus">>}
MCStored == {"mstatus", "mhartid", "mie", "mip", "mepc"}
MCReset == [c \in MCStored |-> IF c = "mhartid" THEN {1} ELSE {}]
MCBits == {1, 5, 7}  \* the S software, S timer and M timer bits; SIE, SPIE and MPIE
MCValues == {{1, 5}}
MCTrapValues == {{1}}
MCWindowBits == [w \in Windows |-> IF w = "sstatus" THEN {1} ELSE {1, 5}]
MCWindowWrite == [w \in Windows |-> IF w = "sie" THEN {1, 5} ELSE {1}]

R(b, s, w) == [base |-> b, size |-> s, read |-> TRUE, write |-> w]
MCCandidates == {R(0, 2, TRUE), R(2, 2, FALSE), R(1, 2, TRUE), R(6, 2, TRUE)}
MCGuestData == {<<1, 0, 1, 1>>}

\* Every address has its slot; see Roomy.
ASSUME RoomAssumption == Roomy

VARIABLE runs   \* the table this behaviour looks things up in

TablesInit == Init /\ MemInit /\ runs \in {"csr", "memory"}

RunCsr    == runs = "csr" /\ Next /\ UNCHANGED <<memVars, runs>>
RunMemory == runs = "memory" /\ MemNext /\ UNCHANGED <<vars, runs>>

TablesSpec == TablesInit /\ [][RunCsr \/ RunMemory]_<<vars, memVars, runs>>
=============================================================================
