--------------------------- MODULE OneWireSearch ---------------------------
(***************************************************************************)
(* OneWire_Search of Periph/Src/onewire.c: the ROM search that rebuilds    *)
(* the table of one-wire devices.  Every pass sends one SEARCH ROM command *)
(* and walks the 64 ROM bits; at a bit on which the devices still taking   *)
(* part disagree (a fork) the pass chooses a branch, and the devices on    *)
(* the other branch drop out.  One pass is one step: it is a single bus    *)
(* transaction.                                                            *)
(*                                                                         *)
(* A ROM is its sequence of bits in the order they are sent.  The code has *)
(* RomBits = 64 and BusCapacity = 16.                                      *)
(***************************************************************************)
EXTENDS Integers, FiniteSets

CONSTANTS
    RomBits,      \* number of bits of a ROM code
    Roms,         \* the ROM codes of the devices that may be attached
    BusCapacity   \* NUM_DEVICES_ON_BUS, the rows of the device table

ASSUME RomBitsAssumption == RomBits \in Nat \ {0}
ASSUME RomsAssumption == Roms \subseteq [1..RomBits -> {0, 1}]
ASSUME BusCapacityAssumption == BusCapacity \in Nat \ {0}

VARIABLES
    attached,            \* the devices on the bus now
    oneWireDevices,      \* the table: a ROM, or zeroes, in every row
    oneWireDeviceCount,  \* rows filled by the latest search
    lastfork,            \* last fork at which the zero branch was taken
    search               \* "idle", "enumerate" or "done"

searchVars == <<oneWireDevices, oneWireDeviceCount, lastfork, search>>

ZeroRom == [i \in 1..RomBits |-> 0]

----------------------------------------------------------------------------
(* The bits at which a device agreeing with rom so far sends the other bit. *)
Forks(devices, rom) ==
    {i \in 1..RomBits : \E d \in devices :
        /\ d[i] # rom[i]
        /\ \A j \in 1..(i - 1) : d[j] = rom[j]}

(* The branch OneWire_Enumerate takes at fork i: before lastfork the bit the *)
(* row held before this pass, at lastfork one, and zero after it.            *)
Branch(row, last, i) ==
    IF i < last THEN row[i] ELSE IF i = last THEN 1 ELSE 0

(* The pass that starts from the given row and lastfork ends on rom. *)
Selects(devices, row, last, rom) ==
    /\ rom \in devices
    /\ \A i \in Forks(devices, rom) : rom[i] = Branch(row, last, i)

(* Mutation: every fork is recorded, not only those where zero was chosen. *)
ZeroForks_Any(devices, rom) == Forks(devices, rom)

(* The forks at which the pass records itself: those where it chose zero. *)
ZeroForks(devices, rom) == {i \in Forks(devices, rom) : rom[i] = 0}

(* Mutation: the first fork is kept instead of the last. *)
IsLastFork_First(last, devices, rom) ==
    LET zeroForks == ZeroForks(devices, rom) IN
    IF zeroForks = {}
        THEN last = 0
        ELSE last \in zeroForks /\ \A i \in zeroForks : last <= i

(* last is the value lastfork has after the pass: zero when none was recorded. *)
IsLastFork(last, devices, rom) ==
    LET zeroForks == ZeroForks(devices, rom) IN
    IF zeroForks = {}
        THEN last = 0
        ELSE last \in zeroForks /\ \A i \in zeroForks : i <= last

----------------------------------------------------------------------------
(* The table is cleared before the presence pulse is looked for, so a bus   *)
(* that does not answer leaves an empty table.                              *)
ClearTable ==
    /\ oneWireDevices' = [row \in 1..BusCapacity |-> ZeroRom]
    /\ oneWireDeviceCount' = 0

SearchFindsNoPresence ==
    /\ search = "idle"
    /\ attached = {}
    /\ ClearTable
    /\ search' = "done"
    /\ UNCHANGED lastfork

SearchBegins ==
    /\ search = "idle"
    /\ attached # {}
    /\ ClearTable
    /\ lastfork' = RomBits + 1
    /\ search' = "enumerate"

(* One successful OneWire_Enumerate, written to the next free row. *)
EnumerateDevice ==
    /\ search = "enumerate"
    /\ oneWireDeviceCount < BusCapacity
    /\ lastfork # 0
    /\ oneWireDeviceCount' = oneWireDeviceCount + 1
    /\ LET row == oneWireDeviceCount + 1 IN
       \E rom \in attached :
          /\ Selects(attached, oneWireDevices[row], lastfork, rom)
          /\ oneWireDevices' = [oneWireDevices EXCEPT ![row] = rom]
          /\ \E last \in 0..RomBits :
                /\ IsLastFork(last, attached, rom)
                /\ lastfork' = last
    /\ UNCHANGED search

(* Mutation: a pass that finds no fork left is repeated. *)
SearchEnds_WhenFull ==
    /\ search = "enumerate"
    /\ oneWireDeviceCount = BusCapacity
    /\ search' = "done"
    /\ UNCHANGED <<oneWireDevices, oneWireDeviceCount, lastfork>>

(* No fork is left, no device answers the reset, or the table is full. *)
SearchEnds ==
    /\ search = "enumerate"
    /\ lastfork = 0 \/ attached = {} \/ oneWireDeviceCount = BusCapacity
    /\ search' = "done"
    /\ UNCHANGED <<oneWireDevices, oneWireDeviceCount, lastfork>>

SearchStep ==
    SearchFindsNoPresence \/ SearchBegins \/ EnumerateDevice \/ SearchEnds

SearchInit ==
    /\ oneWireDevices = [row \in 1..BusCapacity |-> ZeroRom]
    /\ oneWireDeviceCount = 0
    /\ lastfork = 0
    /\ search = "idle"

----------------------------------------------------------------------------
(* One search of a bus nothing is plugged into or pulled from meanwhile. *)
SearchOnlyInit == SearchInit /\ attached \in SUBSET Roms

SearchOnlyNext == SearchStep /\ UNCHANGED attached

SearchSpec == SearchOnlyInit /\ [][SearchOnlyNext]_<<attached, searchVars>>

FairSearchSpec == SearchSpec /\ WF_<<attached, searchVars>>(SearchOnlyNext)

----------------------------------------------------------------------------
Found == {oneWireDevices[row] : row \in 1..oneWireDeviceCount}

(* Two devices with a common prefix that share bit i = 1 where another      *)
(* device of that prefix has 0, and that differ from each other later: a    *)
(* fork inside the one branch of a fork.                                    *)
ForkUnderOneBranch(devices) ==
    \E rom \in devices :
        LET forks == Forks(devices, rom) IN
        \E i, j \in forks : i < j /\ rom[i] = 1

SearchTypeOK ==
    /\ attached \in SUBSET Roms
    /\ oneWireDevices \in [1..BusCapacity -> Roms \union {ZeroRom}]
    /\ oneWireDeviceCount \in 0..BusCapacity
    /\ lastfork \in 0..(RomBits + 1)
    /\ search \in {"idle", "enumerate", "done"}

(* A search fills its rows with distinct devices unless the attached ROMs   *)
(* fork inside the one branch of a fork; there it revisits the zero branch. *)
RowsDistinctWithoutBranchFork ==
    (\E a, b \in 1..oneWireDeviceCount :
        a # b /\ oneWireDevices[a] = oneWireDevices[b])
    => ForkUnderOneBranch(attached)

(* A finished search of a bus the table can hold has found every attached   *)
(* device exactly when no fork lies inside the one branch of another fork.  *)
(* Every pass starts from a row memset to zero, so the branch taken before  *)
(* lastfork is always the zero branch (onewire.c:296-301, 338).             *)
CompleteExactlyWithoutBranchFork ==
    search = "done" /\ Cardinality(attached) <= BusCapacity =>
        (Found = attached <=> ~ForkUnderOneBranch(attached))

(* The passes come to an end, whatever is attached (onewire.c:341-344). *)
SearchTerminates == <>(search = "done")
=============================================================================
