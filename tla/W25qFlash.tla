------------------------------ MODULE W25qFlash ------------------------------
(***************************************************************************)
(* The driver of the W25Q64 flash (Periph/Src/w25qxx.c) as start-up uses   *)
(* it: W25Qxx_Init identifies the chip and W25Qxx_SelfTest erases the last *)
(* sector, programs its first page with a pattern and reads it back.       *)
(*                                                                         *)
(* The chip has no reset line: an erase or a program goes on through a     *)
(* reset of the microcontroller, and until it ends the chip answers only   *)
(* to a read of its status register.  Every transaction may fail, before   *)
(* its command reached the chip or after.                                  *)
(***************************************************************************)
EXTENDS Integers

CONSTANT PollLimit  \* W25QXX_BUSY_POLL_LIMIT

ASSUME PollLimitAssumption == PollLimit \in Nat \ {0}

VARIABLES
    flash,         \* what W25Qxx_Init does next, or its result
    polls,         \* remainingPolls of WaitWhileBusy
    busy,          \* the chip erases or programs
    writeEnabled,  \* the write enable latch of the chip
    page,          \* what the page of the self-test holds
    flashFault,    \* history: a transfer, a wait or the chip failed since the
                   \* reset
    foundBusy      \* history: the chip was busy when it was identified

chipVars == <<busy, writeEnabled, page>>
flashVars == <<flash, polls, chipVars, flashFault, foundBusy>>

FlashSteps == {"off", "identify", "eraseEnable", "erase", "eraseWait",
               "programEnable", "program", "programWait", "verify",
               "ready", "failed"}

(* Programming clears bits: over old contents it leaves a mixture, and a     *)
(* program that is cut short may be completed by another.                    *)
Programmed(contents, whole) ==
    CASE contents = "old" -> "old"
      [] contents = "pattern" \/ whole -> "pattern"
      [] OTHER -> "part"

(* Begin, header, payload and End of one transaction. *)
Transaction(step, next) ==
    /\ flash = step
    /\ \/ flash' = next /\ flashFault' = flashFault
       \/ flash' = "failed" /\ flashFault' = TRUE

NotSent == flash' = "failed" /\ UNCHANGED chipVars

(* Any identity but that of the W25Q64 is refused; a busy chip sends none. *)
Identify ==
    /\ Transaction("identify", IF busy THEN "failed" ELSE "eraseEnable")
    /\ foundBusy' = busy
    /\ UNCHANGED <<polls, chipVars>>

WriteEnable(step, next) ==
    /\ Transaction(step, next)
    /\ \/ writeEnabled' = (writeEnabled \/ ~busy) /\ UNCHANGED <<busy, page>>
       \/ NotSent
    /\ UNCHANGED <<polls, foundBusy>>

(* The chip takes the command if it is enabled and not busy. *)
Starts(contents) ==
    IF writeEnabled /\ ~busy
        THEN busy' = TRUE /\ writeEnabled' = FALSE /\ page' = contents
        ELSE UNCHANGED chipVars

(* Mutation: the erase is not waited for. *)
EraseSector_NoWait ==
    /\ Transaction("erase", "programEnable")
    /\ Starts("erased") \/ NotSent
    /\ polls' = PollLimit
    /\ UNCHANGED foundBusy

EraseSector ==
    /\ Transaction("erase", "eraseWait")
    /\ Starts("erased") \/ NotSent
    /\ polls' = PollLimit
    /\ UNCHANGED foundBusy

(* A transfer that fails may have programmed a part of the page, and a worn  *)
(* chip programs a part of it without telling.                               *)
ProgramPage ==
    /\ \/ Transaction("program", "programWait") /\ Starts(Programmed(page, TRUE))
       \/ /\ flash = "program" /\ flash' = "programWait" /\ flashFault' = TRUE
          /\ Starts("part")
       \/ /\ Transaction("program", "programWait")
          /\ flash' = "failed"
          /\ Starts(Programmed(page, FALSE)) \/ UNCHANGED chipVars
    /\ polls' = PollLimit
    /\ UNCHANGED foundBusy

(* Mutation: the counter is compared before it is decremented. *)
WaitWhileBusy_OffByOne(step, next) ==
    /\ flash = step
    /\ polls' = polls - 1
    /\ \/ /\ flash' = IF polls = 0 THEN "failed" ELSE IF busy THEN step ELSE next
          /\ flashFault' = (flashFault \/ polls = 0)
       \/ flash' = "failed" /\ flashFault' = TRUE
    /\ UNCHANGED <<chipVars, foundBusy>>

(* One poll.  The last one allowed is an error whatever it reads. *)
WaitWhileBusy(step, next) ==
    /\ flash = step
    /\ polls' = polls - 1
    /\ \/ /\ flash' = IF polls = 1 THEN "failed" ELSE IF busy THEN step ELSE next
          /\ flashFault' = (flashFault \/ polls = 1)
       \/ flash' = "failed" /\ flashFault' = TRUE
    /\ UNCHANGED <<chipVars, foundBusy>>

(* Mutation: the data that was read is not compared. *)
VerifyPage_Unread ==
    /\ Transaction("verify", "ready")
    /\ UNCHANGED <<polls, chipVars, foundBusy>>

VerifyPage ==
    /\ Transaction("verify",
                   IF page = "pattern" /\ ~busy THEN "ready" ELSE "failed")
    /\ UNCHANGED <<polls, chipVars, foundBusy>>

W25Qxx_Init ==
    \/ Identify
    \/ WriteEnable("eraseEnable", "erase")
    \/ EraseSector
    \/ WaitWhileBusy("eraseWait", "programEnable")
    \/ WriteEnable("programEnable", "program")
    \/ ProgramPage
    \/ WaitWhileBusy("programWait", "verify")
    \/ VerifyPage

ChipEnds ==
    /\ busy
    /\ busy' = FALSE
    /\ UNCHANGED <<flash, polls, writeEnabled, page, flashFault, foundBusy>>

(* What a reset leaves: the driver starts again, the chip does not notice. *)
FlashReset ==
    /\ flash' = "off"
    /\ polls' = PollLimit
    /\ flashFault' = FALSE
    /\ foundBusy' = FALSE
    /\ UNCHANGED chipVars

FlashInit ==
    /\ flash = "off"
    /\ polls = PollLimit
    /\ busy = FALSE
    /\ writeEnabled = FALSE
    /\ page = "old"
    /\ flashFault = FALSE
    /\ foundBusy = FALSE

FlashTypeOK ==
    /\ flash \in FlashSteps
    /\ polls \in 0..PollLimit
    /\ busy \in BOOLEAN
    /\ writeEnabled \in BOOLEAN
    /\ page \in {"old", "erased", "part", "pattern"}
    /\ flashFault \in BOOLEAN
    /\ foundBusy \in BOOLEAN

----------------------------------------------------------------------------
(* A flash that is called ready is idle, write protected again and holds the *)
(* whole pattern, whatever resets and failed transfers came before           *)
(* (w25qxx.c:148-189).                                                       *)
ReadyFlashHoldsThePattern ==
    flash = "ready" => ~busy /\ ~writeEnabled /\ page = "pattern"

(* A chip that works is refused for one reason only: it was still busy with  *)
(* an operation from before the reset when its identity was read             *)
(* (w25qxx.c:108-123).                                                       *)
WorkingFlashIsReadyUnlessFoundBusy ==
    flash = "failed" => flashFault \/ foundBusy
=============================================================================
