------------------------ MODULE OneWireSearchProofs -------------------------
(***************************************************************************)
(* What one search of the bus finds, proved for every length of the ROM    *)
(* codes, every set of devices and every size of the table.  Every row     *)
(* starts from zeroes, so a pass that starts from lastfork takes the zero  *)
(* branch at every fork but that one.  When no fork lies inside the one    *)
(* branch of another, the forks all lie on the way to the device that the  *)
(* first pass finds, and the passes take their one branches from the last  *)
(* to the first; otherwise a device that takes two one branches is never   *)
(* found.                                                                  *)
(***************************************************************************)
EXTENDS OneWireSearch, FiniteSetTheorems, FunctionTheorems, WellFoundedInduction,
        TLAPS

(* A set of numbers that is not empty has a least one: of the intervals that *)
(* end in its members one has no other in it.                                *)
LEMMA LeastNumber ==
    ASSUME NEW T \in SUBSET Nat, T # {}
    PROVE  \E i \in T : \A j \in T : i <= j
<1> DEFINE F == {0..i : i \in T}
<1>1. F \subseteq FiniteSubsetsOf(Nat)
  <2> SUFFICES ASSUME NEW i \in T
               PROVE  0..i \in FiniteSubsetsOf(Nat)
    OBVIOUS
  <2>1. IsFiniteSet(0..i)
    BY FS_Interval
  <2> QED  BY <2>1 DEF FiniteSubsetsOf
<1>2. F # {}
  OBVIOUS
<1>3. PICK X \in F : \A Y \in F : <<Y, X>> \notin StrictSubsetOrdering(Nat)
  <2> HIDE DEF F
  <2>1. IsWellFoundedOn(StrictSubsetOrdering(Nat), FiniteSubsetsOf(Nat))
    BY FS_StrictSubsetOrderingWellFounded
  <2> QED  BY <1>1, <1>2, <2>1, WFMin
<1>4. PICK i \in T : X = 0..i
  BY <1>3
<1>5. ASSUME NEW j \in T
      PROVE  i <= j
  <2>1. 0..j \in F /\ i \in Nat /\ j \in Nat
    OBVIOUS
  <2>2. ~(0..j \subseteq 0..i /\ 0..j # 0..i)
    <3> DEFINE Y == 0..j
    <3>1. Y \in SUBSET Nat /\ X \in SUBSET Nat /\ Y \in F
      BY <1>4, <2>1
    <3>2. <<Y, X>> \notin StrictSubsetOrdering(Nat)
      BY <1>3, <3>1
    <3> HIDE DEF Y, F
    <3>3. ~(Y \subseteq X /\ Y # X)
      BY <3>1, <3>2 DEF StrictSubsetOrdering
    <3> QED  BY <1>4, <3>3 DEF Y
  <2>3. SUFFICES ASSUME j < i PROVE FALSE
    BY <2>1
  <2>4. 0..j \subseteq 0..i /\ i \in 0..i /\ i \notin 0..j
    BY <2>1, <2>3
  <2> QED  BY <2>2, <2>4
<1> QED  BY <1>5

-----------------------------------------------------------------------------
Codes == [1..RomBits -> {0, 1}]

(* Codes a and b agree up to bit n. *)
Agree(a, b, n) == \A j \in 1..n : a[j] = b[j]

(* Two devices part at a fork of both. *)
LEMMA FirstDifference ==
    ASSUME NEW D \in SUBSET Codes, NEW a \in D, NEW b \in D, a # b
    PROVE  \E g \in Forks(D, a) \cap Forks(D, b) : Agree(a, b, g - 1) /\ a[g] # b[g]
<1> DEFINE T == {i \in 1..RomBits : a[i] # b[i]}
<1>1. T \in SUBSET Nat /\ T # {}
  BY RomBitsAssumption DEF Codes
<1>2. PICK g \in T : \A j \in T : g <= j
  BY <1>1, LeastNumber
<1>3. g \in 1..RomBits /\ a[g] # b[g]
  BY <1>2
<1>4. Agree(a, b, g - 1)
  <2> SUFFICES ASSUME NEW j \in 1..(g - 1), a[j] # b[j]
               PROVE  FALSE
    BY DEF Agree
  <2>1. j \in T /\ ~(g <= j)
    BY <1>3, RomBitsAssumption
  <2> QED  BY <1>2, <2>1
<1>5. g \in Forks(D, a) /\ g \in Forks(D, b)
  BY <1>3, <1>4 DEF Forks, Agree
<1> QED  BY <1>3, <1>4, <1>5

(* A fork is one for every device that has not left the way to it. *)
LEMMA CommonForks ==
    ASSUME NEW D \in SUBSET Codes, NEW a \in D, NEW b \in D,
           NEW f \in 1..(RomBits + 1), Agree(a, b, f - 1),
           NEW i \in 1..RomBits, i < f
    PROVE  i \in Forks(D, a) <=> i \in Forks(D, b)
<1>1. \A j \in 1..i : a[j] = b[j]
  BY RomBitsAssumption DEF Agree
<1>2. i \in 1..i /\ \A j \in 1..(i - 1) : j \in 1..i
  OBVIOUS
<1> QED  BY <1>1, <1>2 DEF Forks

-----------------------------------------------------------------------------
(* The inductive invariant, one named part per concern. *)

(* Where a search stands. *)
PassInv ==
    /\ search = "idle" => oneWireDeviceCount = 0
    /\ search = "enumerate" =>
          /\ attached # {}
          /\ oneWireDeviceCount = 0 => lastfork = RomBits + 1
          /\ \A row \in (oneWireDeviceCount + 1)..BusCapacity :
                oneWireDevices[row] = ZeroRom
    /\ search = "done" =>
          \/ attached = {} /\ oneWireDeviceCount = 0
          \/ oneWireDeviceCount # 0 /\ lastfork = 0
          \/ oneWireDeviceCount = BusCapacity

(* No device was found that takes the one branch at two forks. *)
OneBranchInv ==
    \A row \in 1..oneWireDeviceCount :
        /\ oneWireDevices[row] \in attached
        /\ \A i, j \in Forks(attached, oneWireDevices[row]) :
              oneWireDevices[row][i] = 1 /\ oneWireDevices[row][j] = 1 => i = j

(* The device of the first row takes the zero branch at every fork, and the  *)
(* next pass leaves its way at one of them; every row found so far agrees    *)
(* with it up to there, and every device that does was found.                *)
FirstRow == oneWireDevices[1]

WayInv ==
    ~ForkUnderOneBranch(attached) /\ oneWireDeviceCount # 0 =>
        /\ \A i \in Forks(attached, FirstRow) : FirstRow[i] = 0
        /\ lastfork \in Forks(attached, FirstRow) \union {0}
        /\ \A row \in 1..oneWireDeviceCount :
              Agree(oneWireDevices[row], FirstRow, lastfork)
        /\ \A device \in attached :
              Agree(device, FirstRow, lastfork) => device \in Found

DistinctInv == RowsDistinctWithoutBranchFork

IInv == SearchTypeOK /\ PassInv /\ OneBranchInv /\ WayInv /\ DistinctInv

-----------------------------------------------------------------------------
(* A pass.                                                                   *)

(* What it leaves in lastfork. *)
LEMMA LastForkIs ==
    ASSUME NEW D \in SUBSET Codes, NEW rom \in D, NEW last, IsLastFork(last, D, rom)
    PROVE  /\ last \in ZeroForks(D, rom) \union {0}
           /\ \A i \in ZeroForks(D, rom) : i <= last
  BY DEF IsLastFork

(* The first pass takes the zero branch at every fork. *)
LEMMA FirstPass ==
    ASSUME NEW D \in SUBSET Codes, NEW rom, Selects(D, ZeroRom, RomBits + 1, rom)
    PROVE  rom \in D /\ \A i \in Forks(D, rom) : rom[i] = 0
<1>1. ASSUME NEW i \in Forks(D, rom)
      PROVE  rom[i] = 0
  <2>1. i \in 1..RomBits /\ i < RomBits + 1
    BY RomBitsAssumption DEF Forks
  <2>2. ZeroRom[i] = 0
    BY <2>1 DEF ZeroRom
  <2> QED  BY <1>1, <2>1, <2>2 DEF Selects, Branch
<1> QED  BY <1>1 DEF Selects

(* Every other pass takes it at every fork but lastfork. *)
LEMMA LaterPass ==
    ASSUME NEW D \in SUBSET Codes, NEW rom, NEW f \in 1..RomBits,
           Selects(D, ZeroRom, f, rom)
    PROVE  rom \in D /\ \A i \in Forks(D, rom) : rom[i] = IF i = f THEN 1 ELSE 0
<1>1. ASSUME NEW i \in Forks(D, rom)
      PROVE  rom[i] = IF i = f THEN 1 ELSE 0
  <2>1. i \in 1..RomBits
    BY DEF Forks
  <2>2. ZeroRom[i] = 0
    BY <2>1 DEF ZeroRom
  <2> QED  BY <1>1, <2>1, <2>2, RomBitsAssumption DEF Selects, Branch
<1> QED  BY <1>1 DEF Selects

(* A pass that starts from a fork of a device that takes the zero branch     *)
(* everywhere leaves its way at that fork and nowhere before it.             *)
LEMMA PassLeavesTheWay ==
    ASSUME NEW D \in SUBSET Codes, NEW z \in D, \A i \in Forks(D, z) : z[i] = 0,
           NEW f \in Forks(D, z), NEW rom \in D, Selects(D, ZeroRom, f, rom)
    PROVE  /\ Agree(rom, z, f - 1) /\ rom[f] = 1 /\ f \in Forks(D, rom)
           /\ \A i \in Forks(D, rom) : rom[i] = IF i = f THEN 1 ELSE 0
<1>0. f \in 1..RomBits /\ z[f] = 0
  BY DEF Forks
<1>1. rom \in D /\ \A i \in Forks(D, rom) : rom[i] = IF i = f THEN 1 ELSE 0
  BY <1>0, LaterPass
<1>2. rom # z
  <2> SUFFICES ASSUME rom = z PROVE FALSE
    OBVIOUS
  <2>1. z[f] = 1
    BY <1>1
  <2> QED  BY <1>0, <2>1
<1>3. PICK g \in Forks(D, rom) \cap Forks(D, z) :
          Agree(rom, z, g - 1) /\ rom[g] # z[g]
  BY <1>1, <1>2, FirstDifference
<1>4. z[g] = 0 /\ rom[g] = IF g = f THEN 1 ELSE 0
  BY <1>1, <1>3
<1>5. g = f
  BY <1>3, <1>4
<1> QED  BY <1>1, <1>3, <1>4, <1>5

-----------------------------------------------------------------------------
(* The steps. *)
searchAll == <<attached, searchVars>>

LEMMA Typing ==
    ASSUME SearchTypeOK
    PROVE  /\ attached \in SUBSET Codes
           /\ oneWireDevices \in [1..BusCapacity -> Roms \union {ZeroRom}]
           /\ oneWireDeviceCount \in 0..BusCapacity
           /\ lastfork \in 0..(RomBits + 1)
           /\ RomBits \in Nat \ {0} /\ BusCapacity \in Nat \ {0}
  BY RomsAssumption, RomBitsAssumption, BusCapacityAssumption
     DEF SearchTypeOK, Codes

LEMMA PassFills ==
    ASSUME IInv, EnumerateDevice
    PROVE  \E rom \in attached, last \in 0..RomBits :
              /\ Selects(attached, ZeroRom, lastfork, rom)
              /\ IsLastFork(last, attached, rom)
              /\ oneWireDeviceCount + 1 \in 1..BusCapacity
              /\ oneWireDevices' =
                    [oneWireDevices EXCEPT ![oneWireDeviceCount + 1] = rom]
              /\ lastfork' = last /\ lastfork # 0
              /\ oneWireDeviceCount' = oneWireDeviceCount + 1
              /\ search = "enumerate" /\ search' = "enumerate"
<1>0. /\ oneWireDeviceCount \in 0..BusCapacity /\ BusCapacity \in Nat
      /\ oneWireDeviceCount < BusCapacity /\ search = "enumerate"
  BY Typing DEF IInv, EnumerateDevice
<1>1. /\ oneWireDeviceCount + 1 \in 1..BusCapacity
      /\ oneWireDeviceCount + 1 \in (oneWireDeviceCount + 1)..BusCapacity
  BY <1>0
<1>2. oneWireDevices[oneWireDeviceCount + 1] = ZeroRom
  BY <1>0, <1>1 DEF IInv, PassInv
<1> QED  BY <1>0, <1>1, <1>2 DEF EnumerateDevice

(* The rows after a pass. *)
LEMMA RowsAfterPass ==
    ASSUME SearchTypeOK, NEW rom, oneWireDeviceCount + 1 \in 1..BusCapacity,
           oneWireDevices' =
                    [oneWireDevices EXCEPT ![oneWireDeviceCount + 1] = rom],
           oneWireDeviceCount' = oneWireDeviceCount + 1
    PROVE  /\ oneWireDevices'[oneWireDeviceCount'] = rom
           /\ oneWireDeviceCount' \in 1..oneWireDeviceCount'
           /\ \A row \in 1..oneWireDeviceCount :
                 /\ row \in 1..oneWireDeviceCount'
                 /\ oneWireDevices'[row] = oneWireDevices[row]
           /\ \A row \in 1..oneWireDeviceCount' :
                 row = oneWireDeviceCount' \/ row \in 1..oneWireDeviceCount
           /\ \A row \in (oneWireDeviceCount' + 1)..BusCapacity :
                 /\ row \in (oneWireDeviceCount + 1)..BusCapacity
                 /\ oneWireDevices'[row] = oneWireDevices[row]
           /\ Found' = Found \union {rom}
<1>0. /\ oneWireDevices \in [1..BusCapacity -> Roms \union {ZeroRom}]
      /\ oneWireDeviceCount \in 0..BusCapacity /\ BusCapacity \in Nat
  BY Typing
<1>1. /\ oneWireDevices'[oneWireDeviceCount'] = rom
      /\ oneWireDeviceCount' \in 1..oneWireDeviceCount'
  BY <1>0
<1>2. \A row \in 1..oneWireDeviceCount :
          /\ row \in 1..oneWireDeviceCount'
          /\ oneWireDevices'[row] = oneWireDevices[row]
  BY <1>0
<1>3. \A row \in 1..oneWireDeviceCount' :
          row = oneWireDeviceCount' \/ row \in 1..oneWireDeviceCount
  BY <1>0
<1>4. \A row \in (oneWireDeviceCount' + 1)..BusCapacity :
          /\ row \in (oneWireDeviceCount + 1)..BusCapacity
          /\ oneWireDevices'[row] = oneWireDevices[row]
  BY <1>0
<1>5. Found' = Found \union {rom}
  <2>1. Found' = {oneWireDevices'[row] : row \in 1..oneWireDeviceCount'}
    BY DEF Found
  <2>2. ASSUME NEW x \in Found'
        PROVE  x \in Found \union {rom}
    BY <1>1, <1>2, <1>3, <2>1 DEF Found
  <2>3. ASSUME NEW x \in Found \union {rom}
        PROVE  x \in Found'
    BY <1>1, <1>2, <2>1 DEF Found
  <2> QED  BY <2>2, <2>3
<1> QED  BY <1>1, <1>2, <1>3, <1>4, <1>5

(* The steps that fill no row. *)
LEMMA OtherSteps ==
    ASSUME IInv, [SearchOnlyNext]_searchAll, ~EnumerateDevice
    PROVE  /\ attached' = attached
           /\ \/ oneWireDeviceCount' = 0
              \/ UNCHANGED <<oneWireDevices, oneWireDeviceCount, lastfork>>
  BY DEF SearchOnlyNext, SearchStep, SearchFindsNoPresence, SearchBegins,
     SearchEnds, ClearTable, searchAll, searchVars

LEMMA TypesStep ==
    ASSUME IInv, [SearchOnlyNext]_searchAll
    PROVE  SearchTypeOK'
<1>0. /\ SearchTypeOK /\ attached \in SUBSET Roms
      /\ oneWireDevices \in [1..BusCapacity -> Roms \union {ZeroRom}]
      /\ RomBits \in Nat \ {0} /\ BusCapacity \in Nat \ {0}
  BY Typing DEF IInv, SearchTypeOK
<1>1. CASE SearchFindsNoPresence /\ UNCHANGED attached
  BY <1>0, <1>1 DEF SearchFindsNoPresence, ClearTable, SearchTypeOK
<1>2. CASE SearchBegins /\ UNCHANGED attached
  BY <1>0, <1>2 DEF SearchBegins, ClearTable, SearchTypeOK
<1>3. CASE EnumerateDevice /\ UNCHANGED attached
  <2>1. PICK rom \in attached, last \in 0..RomBits :
              /\ oneWireDeviceCount + 1 \in 1..BusCapacity
              /\ oneWireDevices' =
                    [oneWireDevices EXCEPT ![oneWireDeviceCount + 1] = rom]
              /\ lastfork' = last
              /\ oneWireDeviceCount' = oneWireDeviceCount + 1
              /\ search' = "enumerate"
    BY <1>3, PassFills
  <2>2. rom \in Roms
    BY <1>0
  <2>3. oneWireDevices' \in [1..BusCapacity -> Roms \union {ZeroRom}]
    BY <1>0, <2>1, <2>2
  <2>4. last \in 0..(RomBits + 1) /\ oneWireDeviceCount' \in 0..BusCapacity
    BY <1>0, <2>1
  <2> QED  BY <1>0, <1>3, <2>1, <2>3, <2>4 DEF SearchTypeOK
<1>4. CASE SearchEnds /\ UNCHANGED attached
  BY <1>0, <1>4 DEF SearchEnds, SearchTypeOK
<1>5. CASE UNCHANGED searchAll
  BY <1>0, <1>5 DEF searchAll, searchVars, SearchTypeOK
<1> QED  BY <1>1, <1>2, <1>3, <1>4, <1>5 DEF SearchOnlyNext, SearchStep

LEMMA PassStep ==
    ASSUME IInv, [SearchOnlyNext]_searchAll
    PROVE  PassInv'
<1>0. /\ SearchTypeOK /\ PassInv /\ RomBits \in Nat \ {0}
      /\ BusCapacity \in Nat \ {0} /\ oneWireDeviceCount \in 0..BusCapacity
  BY Typing DEF IInv
<1>1. CASE SearchFindsNoPresence /\ UNCHANGED attached
  BY <1>1 DEF SearchFindsNoPresence, ClearTable, PassInv
<1>2. CASE SearchBegins /\ UNCHANGED attached
  <2>1. /\ oneWireDeviceCount' = 0 /\ attached' # {} /\ search' = "enumerate"
        /\ lastfork' = RomBits + 1
        /\ oneWireDevices' = [row \in 1..BusCapacity |-> ZeroRom]
    BY <1>2 DEF SearchBegins, ClearTable
  <2>2. \A row \in (oneWireDeviceCount' + 1)..BusCapacity :
            oneWireDevices'[row] = ZeroRom
    BY <1>0, <2>1
  <2> QED  BY <2>1, <2>2 DEF PassInv
<1>3. CASE EnumerateDevice /\ UNCHANGED attached
  <2>1. PICK rom \in attached, last \in 0..RomBits :
              /\ oneWireDeviceCount + 1 \in 1..BusCapacity
              /\ oneWireDevices' =
                    [oneWireDevices EXCEPT ![oneWireDeviceCount + 1] = rom]
              /\ oneWireDeviceCount' = oneWireDeviceCount + 1
              /\ search = "enumerate" /\ search' = "enumerate"
    BY <1>3, PassFills
  <2>2. \A row \in (oneWireDeviceCount' + 1)..BusCapacity :
            /\ row \in (oneWireDeviceCount + 1)..BusCapacity
            /\ oneWireDevices'[row] = oneWireDevices[row]
    BY <1>0, <2>1, RowsAfterPass
  <2>3. oneWireDeviceCount' # 0
    BY <1>0, <2>1
  <2> QED  BY <1>0, <1>3, <2>1, <2>2, <2>3 DEF PassInv
<1>4. CASE SearchEnds /\ UNCHANGED attached
  <2>1. /\ search = "enumerate" /\ search' = "done"
        /\ UNCHANGED <<oneWireDevices, oneWireDeviceCount, lastfork, attached>>
        /\ lastfork = 0 \/ attached = {} \/ oneWireDeviceCount = BusCapacity
    BY <1>4 DEF SearchEnds
  <2>2. oneWireDeviceCount # 0 \/ lastfork # 0
    BY <1>0, <2>1 DEF PassInv
  <2> QED  BY <1>0, <2>1, <2>2 DEF PassInv
<1>5. CASE UNCHANGED searchAll
  BY <1>0, <1>5 DEF searchAll, searchVars, PassInv
<1> QED  BY <1>1, <1>2, <1>3, <1>4, <1>5 DEF SearchOnlyNext, SearchStep

LEMMA OneBranchStep ==
    ASSUME IInv, [SearchOnlyNext]_searchAll
    PROVE  OneBranchInv'
<1>0. /\ SearchTypeOK /\ OneBranchInv /\ attached \in SUBSET Codes
      /\ RomBits \in Nat \ {0} /\ lastfork \in 0..(RomBits + 1)
  BY Typing DEF IInv
<1>1. CASE ~EnumerateDevice
  BY <1>0, <1>1, OtherSteps DEF OneBranchInv
<1>2. CASE EnumerateDevice
  <2>0. attached' = attached
    BY <1>2 DEF SearchOnlyNext, searchAll
  <2>1. PICK rom \in attached, last \in 0..RomBits :
              /\ Selects(attached, ZeroRom, lastfork, rom)
              /\ oneWireDeviceCount + 1 \in 1..BusCapacity
              /\ oneWireDevices' =
                    [oneWireDevices EXCEPT ![oneWireDeviceCount + 1] = rom]
              /\ oneWireDeviceCount' = oneWireDeviceCount + 1
              /\ lastfork # 0
    BY <1>2, PassFills
  <2>2. \A i, j \in Forks(attached, rom) : rom[i] = 1 /\ rom[j] = 1 => i = j
    <3>1. CASE lastfork = RomBits + 1
      <4>1. \A i \in Forks(attached, rom) : rom[i] = 0
        BY <1>0, <2>1, <3>1, FirstPass
      <4> QED  BY <4>1
    <3>2. CASE lastfork # RomBits + 1
      <4>1. lastfork \in 1..RomBits
        BY <1>0, <2>1, <3>2
      <4>2. \A i \in Forks(attached, rom) : rom[i] = IF i = lastfork THEN 1 ELSE 0
        BY <1>0, <2>1, <4>1, LaterPass
      <4> QED  BY <4>2
    <3> QED  BY <3>1, <3>2
  <2>3. /\ oneWireDevices'[oneWireDeviceCount'] = rom
        /\ \A row \in 1..oneWireDeviceCount : oneWireDevices'[row] = oneWireDevices[row]
        /\ \A row \in 1..oneWireDeviceCount' :
              row = oneWireDeviceCount' \/ row \in 1..oneWireDeviceCount
    BY <1>0, <2>1, RowsAfterPass
  <2>4. ASSUME NEW row \in 1..oneWireDeviceCount'
        PROVE  /\ oneWireDevices'[row] \in attached
               /\ \A i, j \in Forks(attached, oneWireDevices'[row]) :
                     oneWireDevices'[row][i] = 1 /\ oneWireDevices'[row][j] = 1 => i = j
    <3>1. CASE row = oneWireDeviceCount'
      BY <2>2, <2>3, <3>1
    <3>2. CASE row \in 1..oneWireDeviceCount
      BY <1>0, <2>3, <3>2 DEF OneBranchInv
    <3> QED  BY <2>3, <3>1, <3>2
  <2> QED  BY <2>0, <2>4 DEF OneBranchInv
<1> QED  BY <1>1, <1>2

-----------------------------------------------------------------------------
(* The way, when no fork lies inside the one branch of another. *)
LEMMA WayBegins ==
    ASSUME NEW D \in SUBSET Codes, NEW z,
           Selects(D, ZeroRom, RomBits + 1, z),
           NEW last \in 0..RomBits, IsLastFork(last, D, z)
    PROVE  /\ z \in D /\ \A i \in Forks(D, z) : z[i] = 0
           /\ last \in Forks(D, z) \union {0}
           /\ \A device \in D : Agree(device, z, last) => device = z
<1>1. z \in D /\ \A i \in Forks(D, z) : z[i] = 0
  BY FirstPass
<1>2. /\ last \in ZeroForks(D, z) \union {0}
      /\ \A i \in ZeroForks(D, z) : i <= last
  BY <1>1, LastForkIs
<1>3. ZeroForks(D, z) = Forks(D, z)
  BY <1>1 DEF ZeroForks
<1>4. ASSUME NEW device \in D, Agree(device, z, last), device # z
      PROVE  FALSE
  <2>1. PICK g \in Forks(D, device) \cap Forks(D, z) : device[g] # z[g]
    BY <1>1, <1>4, FirstDifference
  <2>2. g \in 1..RomBits /\ g <= last
    BY <1>2, <1>3, <2>1 DEF Forks
  <2>3. g \in 1..last
    BY <2>2
  <2> QED  BY <1>4, <2>1, <2>3 DEF Agree
<1> QED  BY <1>1, <1>2, <1>3, <1>4

LEMMA WayGoesOn ==
    ASSUME NEW D \in SUBSET Codes, ~ForkUnderOneBranch(D),
           NEW z \in D, \A i \in Forks(D, z) : z[i] = 0,
           NEW f \in Forks(D, z), NEW rom \in D, Selects(D, ZeroRom, f, rom),
           NEW last \in 0..RomBits, IsLastFork(last, D, rom)
    PROVE  /\ last \in Forks(D, z) \union {0} /\ last < f
           /\ Agree(rom, z, last)
           /\ \A device \in D : Agree(device, z, last) =>
                 Agree(device, z, f) \/ device = rom
<1>0. f \in 1..RomBits /\ RomBits \in Nat \ {0} /\ f \in 1..(RomBits + 1)
  BY RomBitsAssumption DEF Forks
<1>1. /\ rom \in D /\ Agree(rom, z, f - 1) /\ rom[f] = 1 /\ f \in Forks(D, rom)
      /\ \A i \in Forks(D, rom) : rom[i] = IF i = f THEN 1 ELSE 0
  BY PassLeavesTheWay
<1>2. /\ last \in ZeroForks(D, rom) \union {0}
      /\ \A i \in ZeroForks(D, rom) : i <= last
  BY <1>1, LastForkIs
<1>3. \A j \in Forks(D, rom) : j \in 1..RomBits /\ ~(f < j)
  <2>1. \A j \in Forks(D, rom) : j \in 1..RomBits
    BY DEF Forks
  <2>2. \A j \in Forks(D, rom) : ~(f < j)
    BY <1>1 DEF ForkUnderOneBranch
  <2> QED  BY <2>1, <2>2
<1>4. \A i \in Forks(D, rom) : i # f => i < f
  BY <1>0, <1>3
<1>5. \A i \in 1..RomBits : i < f => (i \in Forks(D, rom) <=> i \in Forks(D, z))
  BY <1>0, <1>1, CommonForks
<1>6. last \in Forks(D, z) \union {0} /\ last < f
  <2>1. CASE last = 0
    BY <1>0, <2>1
  <2>2. CASE last \in ZeroForks(D, rom)
    <3>1. last \in Forks(D, rom) /\ last # f
      BY <1>1, <2>2 DEF ZeroForks
    <3>2. last < f /\ last \in 1..RomBits
      BY <1>3, <1>4, <3>1
    <3> QED  BY <1>5, <3>1, <3>2
  <2> QED  BY <1>2, <2>1, <2>2
<1>7. Agree(rom, z, last)
  BY <1>0, <1>1, <1>6 DEF Agree
<1>8. ASSUME NEW device \in D, Agree(device, z, last)
      PROVE  Agree(device, z, f) \/ device = rom
  <2>1. CASE device = z
    BY <2>1 DEF Agree
  <2>2. CASE device # z
    <3>1. PICK g \in Forks(D, device) \cap Forks(D, z) :
              Agree(device, z, g - 1) /\ device[g] # z[g]
      BY <2>2, FirstDifference
    <3>2. g \in 1..RomBits /\ z[g] = 0 /\ device[g] = 1
      <4>1. g \in 1..RomBits /\ z[g] = 0
        BY <3>1 DEF Forks
      <4>2. device[g] \in {0, 1}
        BY <4>1 DEF Codes
      <4> QED  BY <3>1, <4>1, <4>2
    <3>3. CASE g > f
      BY <1>0, <3>1, <3>2, <3>3 DEF Agree
    <3>4. CASE g < f
      <4>1. g \in Forks(D, rom) /\ rom[g] = 0
        BY <1>1, <1>5, <3>1, <3>2, <3>4
      <4>2. g <= last
        BY <1>2, <4>1 DEF ZeroForks
      <4>3. g \in 1..last
        BY <3>2, <4>2
      <4> QED  BY <1>8, <3>1, <4>3 DEF Agree
    <3>5. CASE g = f
      <4> SUFFICES ASSUME device # rom
                   PROVE  FALSE
        OBVIOUS
      <4>1. PICK h \in Forks(D, device) \cap Forks(D, rom) : device[h] # rom[h]
        BY <1>1, FirstDifference
      <4>2. h \in 1..RomBits /\ (h = f \/ h < f)
        BY <1>3, <1>4, <4>1
      <4>3. h # f
        BY <1>1, <3>2, <3>5, <4>1
      <4>4. h \in 1..(f - 1)
        BY <1>0, <4>2, <4>3
      <4> QED  BY <1>1, <3>1, <3>5, <4>1, <4>4 DEF Agree
    <3> QED  BY <1>0, <3>2, <3>3, <3>4, <3>5
  <2> QED  BY <2>1, <2>2
<1> QED  BY <1>6, <1>7, <1>8

LEMMA WayStep ==
    ASSUME IInv, [SearchOnlyNext]_searchAll
    PROVE  WayInv'
<1>0. /\ SearchTypeOK /\ PassInv /\ OneBranchInv /\ WayInv
      /\ attached \in SUBSET Codes /\ RomBits \in Nat \ {0}
      /\ oneWireDeviceCount \in 0..BusCapacity /\ BusCapacity \in Nat
  BY Typing DEF IInv
<1>1. CASE ~EnumerateDevice
  <2>1. /\ attached' = attached
        /\ \/ oneWireDeviceCount' = 0
           \/ UNCHANGED <<oneWireDevices, oneWireDeviceCount, lastfork>>
    BY <1>1, OtherSteps
  <2> QED  BY <1>0, <2>1 DEF WayInv, FirstRow, Found
<1>2. CASE EnumerateDevice
  <2>0. attached' = attached
    BY <1>2 DEF SearchOnlyNext, searchAll
  <2> SUFFICES ASSUME ~ForkUnderOneBranch(attached)
               PROVE  /\ \A i \in Forks(attached, FirstRow') : FirstRow'[i] = 0
                      /\ lastfork' \in Forks(attached, FirstRow') \union {0}
                      /\ \A row \in 1..oneWireDeviceCount' :
                            Agree(oneWireDevices'[row], FirstRow', lastfork')
                      /\ \A device \in attached :
                            Agree(device, FirstRow', lastfork') => device \in Found'
    BY <2>0 DEF WayInv
  <2>1. PICK rom \in attached, last \in 0..RomBits :
              /\ Selects(attached, ZeroRom, lastfork, rom)
              /\ IsLastFork(last, attached, rom)
              /\ oneWireDeviceCount + 1 \in 1..BusCapacity
              /\ oneWireDevices' =
                    [oneWireDevices EXCEPT ![oneWireDeviceCount + 1] = rom]
              /\ lastfork' = last /\ lastfork # 0
              /\ oneWireDeviceCount' = oneWireDeviceCount + 1
              /\ search = "enumerate"
    BY <1>2, PassFills
  <2>2. /\ oneWireDevices'[oneWireDeviceCount'] = rom
        /\ \A row \in 1..oneWireDeviceCount : oneWireDevices'[row] = oneWireDevices[row]
        /\ \A row \in 1..oneWireDeviceCount' :
              row = oneWireDeviceCount' \/ row \in 1..oneWireDeviceCount
        /\ Found' = Found \union {rom}
    BY <1>0, <2>1, RowsAfterPass
  <2>3. CASE oneWireDeviceCount = 0
    <3>1. lastfork = RomBits + 1
      BY <1>0, <2>1, <2>3 DEF PassInv
    <3>2. FirstRow' = rom /\ \A row \in 1..oneWireDeviceCount' : oneWireDevices'[row] = rom
      BY <2>1, <2>2, <2>3 DEF FirstRow
    <3>3. /\ \A i \in Forks(attached, rom) : rom[i] = 0
          /\ last \in Forks(attached, rom) \union {0}
          /\ \A device \in attached : Agree(device, rom, last) => device = rom
      BY <1>0, <2>1, <3>1, WayBegins
    <3>4. Agree(rom, rom, last)
      BY DEF Agree
    <3> QED  BY <2>1, <2>2, <3>2, <3>3, <3>4
  <2>4. CASE oneWireDeviceCount # 0
    <3>1. 1 \in 1..oneWireDeviceCount
      BY <1>0, <2>4
    <3>2. FirstRow' = FirstRow /\ FirstRow \in attached
      BY <1>0, <2>2, <3>1 DEF FirstRow, OneBranchInv
    <3>3. /\ \A i \in Forks(attached, FirstRow) : FirstRow[i] = 0
          /\ lastfork \in Forks(attached, FirstRow)
          /\ \A row \in 1..oneWireDeviceCount :
                Agree(oneWireDevices[row], FirstRow, lastfork)
          /\ \A device \in attached :
                Agree(device, FirstRow, lastfork) => device \in Found
      BY <1>0, <2>1, <2>4 DEF WayInv
    <3>4. /\ last \in Forks(attached, FirstRow) \union {0} /\ last < lastfork
          /\ Agree(rom, FirstRow, last)
          /\ \A device \in attached : Agree(device, FirstRow, last) =>
                Agree(device, FirstRow, lastfork) \/ device = rom
      BY <1>0, <2>1, <3>2, <3>3, WayGoesOn
    <3>5. \A row \in 1..oneWireDeviceCount' :
              Agree(oneWireDevices'[row], FirstRow, last)
      <4>1. \A row \in 1..oneWireDeviceCount : Agree(oneWireDevices[row], FirstRow, last)
        <5>1. lastfork \in Nat /\ last \in Nat
          BY <1>0, Typing
        <5> QED  BY <3>3, <3>4, <5>1 DEF Agree
      <4> QED  BY <2>2, <3>4, <4>1
    <3> QED  BY <2>1, <2>2, <3>2, <3>3, <3>4, <3>5
  <2> QED  BY <2>3, <2>4
<1> QED  BY <1>1, <1>2

LEMMA DistinctStep ==
    ASSUME IInv, [SearchOnlyNext]_searchAll
    PROVE  DistinctInv'
<1>0. /\ SearchTypeOK /\ PassInv /\ OneBranchInv /\ WayInv /\ DistinctInv
      /\ attached \in SUBSET Codes /\ RomBits \in Nat \ {0}
      /\ oneWireDeviceCount \in 0..BusCapacity /\ BusCapacity \in Nat
  BY Typing DEF IInv
<1>1. CASE ~EnumerateDevice
  <2>1. /\ attached' = attached
        /\ \/ oneWireDeviceCount' = 0
           \/ UNCHANGED <<oneWireDevices, oneWireDeviceCount, lastfork>>
    BY <1>1, OtherSteps
  <2> QED  BY <1>0, <2>1 DEF DistinctInv, RowsDistinctWithoutBranchFork
<1>2. CASE EnumerateDevice
  <2>0. attached' = attached
    BY <1>2 DEF SearchOnlyNext, searchAll
  <2> SUFFICES ASSUME ~ForkUnderOneBranch(attached),
                      NEW a \in 1..oneWireDeviceCount', NEW b \in 1..oneWireDeviceCount',
                      oneWireDevices'[a] = oneWireDevices'[b]
               PROVE  a = b
    BY <2>0 DEF DistinctInv, RowsDistinctWithoutBranchFork
  <2>1. PICK rom \in attached, last \in 0..RomBits :
              /\ Selects(attached, ZeroRom, lastfork, rom)
              /\ oneWireDeviceCount + 1 \in 1..BusCapacity
              /\ oneWireDevices' =
                    [oneWireDevices EXCEPT ![oneWireDeviceCount + 1] = rom]
              /\ lastfork # 0
              /\ oneWireDeviceCount' = oneWireDeviceCount + 1
    BY <1>2, PassFills
  <2>2. /\ oneWireDevices'[oneWireDeviceCount'] = rom
        /\ \A row \in 1..oneWireDeviceCount : oneWireDevices'[row] = oneWireDevices[row]
        /\ \A row \in 1..oneWireDeviceCount' :
              row = oneWireDeviceCount' \/ row \in 1..oneWireDeviceCount
    BY <1>0, <2>1, RowsAfterPass
  <2>3. \A row \in 1..oneWireDeviceCount : oneWireDevices[row] # rom
    <3>1. CASE oneWireDeviceCount = 0
      BY <3>1
    <3>2. CASE oneWireDeviceCount # 0
      <4>1. 1 \in 1..oneWireDeviceCount
        BY <1>0, <3>2
      <4>2. /\ FirstRow \in attached /\ \A i \in Forks(attached, FirstRow) : FirstRow[i] = 0
            /\ lastfork \in Forks(attached, FirstRow)
            /\ \A row \in 1..oneWireDeviceCount :
                  Agree(oneWireDevices[row], FirstRow, lastfork)
        BY <1>0, <2>1, <3>2, <4>1 DEF WayInv, OneBranchInv, FirstRow
      <4>3. rom[lastfork] = 1 /\ FirstRow[lastfork] = 0
        BY <1>0, <2>1, <4>2, PassLeavesTheWay
      <4>4. lastfork \in 1..lastfork
        BY <4>2 DEF Forks
      <4>5. \A row \in 1..oneWireDeviceCount : oneWireDevices[row][lastfork] = 0
        BY <4>2, <4>3, <4>4 DEF Agree
      <4> QED  BY <4>3, <4>5
    <3> QED  BY <3>1, <3>2
  <2>4. CASE a = oneWireDeviceCount' \/ b = oneWireDeviceCount'
    BY <2>2, <2>3, <2>4
  <2>5. CASE a \in 1..oneWireDeviceCount /\ b \in 1..oneWireDeviceCount
    BY <1>0, <2>2, <2>5 DEF DistinctInv, RowsDistinctWithoutBranchFork
  <2> QED  BY <2>2, <2>4, <2>5
<1> QED  BY <1>1, <1>2

LEMMA InitIInv == SearchOnlyInit => IInv
<1> SUFFICES ASSUME SearchOnlyInit
             PROVE  IInv
  OBVIOUS
<1>1. SearchTypeOK
  BY RomBitsAssumption, BusCapacityAssumption
     DEF SearchOnlyInit, SearchInit, SearchTypeOK
<1>2. oneWireDeviceCount = 0 /\ search = "idle"
  BY DEF SearchOnlyInit, SearchInit
<1> QED  BY <1>1, <1>2 DEF IInv, PassInv, OneBranchInv, WayInv, DistinctInv,
            RowsDistinctWithoutBranchFork

LEMMA NextIInv == IInv /\ [SearchOnlyNext]_searchAll => IInv'
  BY TypesStep, PassStep, OneBranchStep, WayStep, DistinctStep DEF IInv

-----------------------------------------------------------------------------
(* Whatever is attached, the rows of a search follow the forks as IInv says  *)
(* in every reachable state (onewire.c:276-346).                             *)
THEOREM SearchInvariant == SearchSpec => []IInv
<1>1. SearchOnlyInit => IInv
  BY InitIInv
<1>2. IInv /\ [SearchOnlyNext]_<<attached, searchVars>> => IInv'
  BY NextIInv DEF searchAll
<1> QED  BY <1>1, <1>2, PTL DEF SearchSpec

(* No row of a search repeats another one, unless a fork lies inside the one *)
(* branch of a fork: each pass takes the one branch where all earlier ones   *)
(* took the zero branch (onewire.c:296-306, 330).                            *)
THEOREM RowsAreDistinct == SearchSpec => []RowsDistinctWithoutBranchFork
<1>1. IInv => RowsDistinctWithoutBranchFork
  BY DEF IInv, DistinctInv
<1> QED  BY <1>1, SearchInvariant, PTL

-----------------------------------------------------------------------------
(* When no fork lies inside the one branch of another, a device is known by  *)
(* the fork at which it leaves the first row's way: there are finitely many. *)
LEMMA FinitelyManyDevices ==
    ASSUME NEW D \in SUBSET Codes, ~ForkUnderOneBranch(D),
           NEW z \in D, \A i \in Forks(D, z) : z[i] = 0
    PROVE  IsFiniteSet(D)
<1> DEFINE Leaves(d, g) == IF d = z THEN g = 0
                              ELSE /\ g \in Forks(D, d) \cap Forks(D, z)
                                   /\ Agree(d, z, g - 1) /\ d[g] # z[g]
           h == [d \in D |-> CHOOSE g \in 0..RomBits : Leaves(d, g)]
<1>1. ASSUME NEW d \in D
      PROVE  \E g \in 0..RomBits : Leaves(d, g)
  <2>1. CASE d = z
    BY <2>1, RomBitsAssumption
  <2>2. CASE d # z
    <3>1. PICK g \in Forks(D, d) \cap Forks(D, z) : Agree(d, z, g - 1) /\ d[g] # z[g]
      BY <2>2, FirstDifference
    <3>2. g \in 0..RomBits
      BY <3>1, RomBitsAssumption DEF Forks
    <3> QED  BY <2>2, <3>1, <3>2
  <2> QED  BY <2>1, <2>2
<1>2. ASSUME NEW a \in D, NEW b \in D, NEW g \in 0..RomBits,
             Leaves(a, g), Leaves(b, g), a # b
      PROVE  FALSE
  <2>1. a # z /\ b # z
    <3>1. 0 \notin Forks(D, a) /\ 0 \notin Forks(D, b)
      BY DEF Forks
    <3> QED  BY <1>2, <3>1
  <2>2. /\ g \in Forks(D, a) /\ g \in Forks(D, b) /\ g \in Forks(D, z)
        /\ Agree(a, z, g - 1) /\ Agree(b, z, g - 1) /\ a[g] # z[g] /\ b[g] # z[g]
    BY <1>2, <2>1
  <2>3. g \in 1..RomBits /\ z[g] = 0 /\ a[g] = 1 /\ b[g] = 1
    <3>1. g \in 1..RomBits /\ z[g] = 0
      BY <2>2 DEF Forks
    <3>2. a[g] \in {0, 1} /\ b[g] \in {0, 1}
      BY <3>1 DEF Codes
    <3> QED  BY <2>2, <3>1, <3>2
  <2>4. PICK k \in Forks(D, a) \cap Forks(D, b) : a[k] # b[k]
    BY <1>2, FirstDifference
  <2>5. k \in 1..RomBits /\ k # g
    BY <2>3, <2>4 DEF Forks
  <2>6. ~(k < g)
    <3> SUFFICES ASSUME k < g PROVE FALSE
      OBVIOUS
    <3>1. k \in 1..(g - 1)
      BY <2>3, <2>5
    <3> QED  BY <2>2, <2>4, <3>1 DEF Agree
  <2>7. g < k
    BY <2>3, <2>5, <2>6
  <2> QED  BY <2>2, <2>3, <2>4, <2>7 DEF ForkUnderOneBranch
<1> HIDE DEF Leaves
<1>3. \A d \in D : h[d] \in 0..RomBits /\ Leaves(d, h[d])
  BY <1>1
<1>4. h \in [D -> 0..RomBits]
  BY <1>3
<1> HIDE DEF h
<1>5. h \in Injection(D, 0..RomBits)
  BY <1>2, <1>3, <1>4, Fun_IsInj
<1>6. IsFiniteSet(0..RomBits)
  BY RomBitsAssumption, FS_Interval
<1> QED  BY <1>5, <1>6, FS_Injection

(* As many rows as devices, all different, are all devices. *)
LEMMA FullTable ==
    ASSUME IInv, oneWireDeviceCount = BusCapacity, IsFiniteSet(attached),
           Cardinality(attached) <= BusCapacity, ~ForkUnderOneBranch(attached)
    PROVE  Found = attached
<1>0. /\ oneWireDeviceCount \in Nat /\ OneBranchInv
      /\ BusCapacity \in Nat
      /\ \A a, b \in 1..oneWireDeviceCount :
            oneWireDevices[a] = oneWireDevices[b] => a = b
  BY Typing DEF IInv, DistinctInv, RowsDistinctWithoutBranchFork
<1> DEFINE n == oneWireDeviceCount
           h == [row \in 1..n |-> oneWireDevices[row]]
<1>1. Found \in SUBSET attached
  BY <1>0 DEF Found, OneBranchInv
<1>2. h \in [1..n -> Found] /\ \A a, b \in 1..n : h[a] = h[b] => a = b
  BY <1>0 DEF Found
<1>3. \A t \in Found : \E row \in 1..n : h[row] = t
  BY DEF Found
<1> HIDE DEF h
<1>4. ExistsBijection(1..n, Found)
  <2>1. h \in Injection(1..n, Found) /\ h \in Surjection(1..n, Found)
    BY <1>2, <1>3, Fun_IsInj, Fun_IsSurj
  <2> QED  BY <2>1 DEF ExistsBijection, Bijection
<1>5. Cardinality(Found) = n
  BY <1>0, <1>4, FS_CountingElements
<1>6. /\ Cardinality(Found) <= Cardinality(attached)
      /\ Cardinality(Found) = Cardinality(attached) => Found = attached
      /\ Cardinality(attached) \in Nat
  BY <1>1, FS_Subset, FS_CardinalityType
<1> QED  BY <1>0, <1>5, <1>6

(* A device with a fork inside its one branch shares it with one that takes  *)
(* the one branch there too.                                                 *)
LEMMA TwoOneBranches ==
    ASSUME NEW D \in SUBSET Codes, ForkUnderOneBranch(D)
    PROVE  \E d \in D : \E i, j \in Forks(D, d) : i # j /\ d[i] = 1 /\ d[j] = 1
<1>1. PICK rom \in D : \E i, j \in Forks(D, rom) : i < j /\ rom[i] = 1
  BY DEF ForkUnderOneBranch
<1>2. PICK i \in Forks(D, rom), j \in Forks(D, rom) : i < j /\ rom[i] = 1
  BY <1>1
<1>3. i \in 1..RomBits /\ j \in 1..RomBits /\ RomBits \in Nat
      /\ j \in 1..(RomBits + 1)
  BY RomBitsAssumption DEF Forks
<1>4. CASE rom[j] = 1
  BY <1>2, <1>3, <1>4
<1>5. CASE rom[j] # 1
  <2>1. PICK d \in D : Agree(d, rom, j - 1) /\ d[j] # rom[j]
    BY <1>2 DEF Forks, Agree
  <2>2. d[j] = 1
    <3>1. d[j] \in {0, 1} /\ rom[j] \in {0, 1}
      BY <1>3 DEF Codes
    <3> QED  BY <1>5, <2>1, <3>1
  <2>3. d[i] = 1
    <3>1. i \in 1..(j - 1)
      BY <1>2, <1>3
    <3> QED  BY <1>2, <2>1, <3>1 DEF Agree
  <2>4. i \in Forks(D, d)
    BY <1>2, <1>3, <2>1, CommonForks
  <2>5. j \in Forks(D, d)
    BY <1>3, <2>1 DEF Forks, Agree
  <2> QED  BY <1>2, <1>3, <2>2, <2>3, <2>4, <2>5
<1> QED  BY <1>4, <1>5

(* A finished search of a bus the table can hold has found all its devices   *)
(* exactly when no fork lies inside the one branch of another fork           *)
(* (onewire.c:276-346).                                                      *)
THEOREM SearchIsComplete == SearchSpec => []CompleteExactlyWithoutBranchFork
<1>1. ASSUME IInv, search = "done", Cardinality(attached) <= BusCapacity
      PROVE  Found = attached <=> ~ForkUnderOneBranch(attached)
  <2>0. /\ attached \in SUBSET Codes /\ PassInv /\ OneBranchInv /\ WayInv
        /\ oneWireDeviceCount \in 0..BusCapacity /\ BusCapacity \in Nat \ {0}
    BY <1>1, Typing DEF IInv
  <2>1. ASSUME Found = attached, ForkUnderOneBranch(attached)
        PROVE  FALSE
    <3>1. PICK d \in attached :
              \E i, j \in Forks(attached, d) : i # j /\ d[i] = 1 /\ d[j] = 1
      BY <2>0, <2>1, TwoOneBranches
    <3>2. PICK row \in 1..oneWireDeviceCount : d = oneWireDevices[row]
      BY <2>1, <3>1 DEF Found
    <3> QED  BY <2>0, <3>1, <3>2 DEF OneBranchInv
  <2>2. ASSUME ~ForkUnderOneBranch(attached)
        PROVE  Found = attached
    <3>1. CASE attached = {} /\ oneWireDeviceCount = 0
      BY <3>1 DEF Found
    <3>2. CASE oneWireDeviceCount # 0
      <4>1. FirstRow \in attached /\ \A i \in Forks(attached, FirstRow) : FirstRow[i] = 0
        <5>1. 1 \in 1..oneWireDeviceCount
          BY <2>0, <3>2
        <5> QED  BY <2>0, <2>2, <3>2, <5>1 DEF WayInv, OneBranchInv, FirstRow
      <4>2. CASE lastfork = 0
        <5>1. \A device \in attached : Agree(device, FirstRow, 0)
          BY DEF Agree
        <5>2. attached \subseteq Found
          BY <2>0, <2>2, <3>2, <4>2, <5>1 DEF WayInv
        <5>3. Found \subseteq attached
          BY <2>0 DEF Found, OneBranchInv
        <5> QED  BY <5>2, <5>3
      <4>3. CASE oneWireDeviceCount = BusCapacity
        BY <1>1, <2>0, <2>2, <4>1, <4>3, FinitelyManyDevices, FullTable
      <4> QED  BY <1>1, <2>0, <3>2, <4>2, <4>3 DEF PassInv
    <3> QED  BY <1>1, <2>0, <3>1, <3>2 DEF PassInv
  <2> QED  BY <2>1, <2>2
<1>2. IInv => CompleteExactlyWithoutBranchFork
  BY <1>1 DEF CompleteExactlyWithoutBranchFork
<1> QED  BY <1>2, SearchInvariant, PTL
=============================================================================
