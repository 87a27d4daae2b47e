------------------------------- MODULE MCHart -------------------------------
(* One hart under firmware that delegates, unmasks and returns in any order. *)
EXTENDS Hart

CONSTANT Ints   \* interrupts the guest enables, raises and delegates

St(mie_, mpp, sie, tsr) ==
    [MIE |-> mie_, MPIE |-> mie_, MPP |-> mpp, SIE |-> sie, SPIE |-> sie, SPP |-> sie,
     TVM |-> tsr, TW |-> tsr, TSR |-> tsr]

MCStatusValues == {St(FALSE, 0, FALSE, FALSE), St(TRUE, 1, TRUE, FALSE), St(FALSE, 2, TRUE, TRUE)}
MCStatusPair == {St(TRUE, 0, FALSE, FALSE), St(FALSE, 1, TRUE, FALSE)}
MCStatusTrap == {St(FALSE, 1, FALSE, TRUE), St(TRUE, 2, TRUE, FALSE)}
MCIntSets == {{}, Ints}
MCIntTriple == {{}, Ints \ {MTI}, Ints}
=============================================================================
