---------------------------- MODULE MCOneWireTask ----------------------------
(* Every set of devices with three-bit ROM codes, searched while the *)
(* Temperature task waits.                                           *)
EXTENDS OneWireTask

MCRoms == [1..RomBits -> {0, 1}]
=============================================================================
