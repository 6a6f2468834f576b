----------------------------- MODULE FlashStore -----------------------------
(***************************************************************************)
(* The user string and the external flash chip it is stored in              *)
(* (flash_store.c, the user string in bidib_client_parser.c).  A write      *)
(* reads the sector into RAM, puts the record [len][data...] in, erases the *)
(* sector and programs it again page by page, and waits after each command  *)
(* until the chip is no longer busy.  Power may go at any moment, and in    *)
(* the middle of a command: what it was changing may then be anything.      *)
(***************************************************************************)
EXTENDS Naturals, Sequences, FiniteSetsExt

CONSTANTS
  SectorSize,   (* FLASH_SECTOR_SIZE, 4096                                     *)
  PageSize,     (* FLASH_PAGE_SIZE, 256                                        *)
  StringMax,    (* FLASH_USER_STRING_MAX and BIDIB_STRING_MAX, 24              *)
  Blank,        (* an erased byte, 0xFF                                        *)
  Over,         (* what a byte programmed over another gives                   *)
  HalfDone,     (* sectors, as a command that lost power may leave them        *)
  Payloads,     (* what MSG_STRING_SET may carry                               *)
  Default,      (* "Cool WiBiDiB2"                                             *)
  None,         (* no string can be read                                       *)
  Contents,     (* of the sector when the device is switched on for the first time *)
  Assumed       (* see Assumptions                                             *)

\* chip_present: the flash chip is there and answers.
Assumptions == {"chip_present"}

Cells == 0..SectorSize-1

\* Every byte but 0, which ends a string, is a character.
Bytes == 0..Blank
Chars == Bytes \ {0}

\* FLASH_USER_STRING_ADDR is 0: the record is in the first page of its sector.
ASSUME FlashSizesAssumption ==
  /\ SectorSize \in Nat /\ PageSize \in Nat /\ StringMax \in Nat
  /\ StringMax > 0 /\ 1 + StringMax <= PageSize
  /\ PageSize < SectorSize /\ SectorSize % PageSize = 0

ASSUME FlashSetsAssumption ==
  /\ Blank \in Nat /\ Blank > StringMax /\ Assumed \subseteq Assumptions
  /\ \A payload \in Payloads : payload \in Seq(Bytes)
  /\ Default \in Seq(Chars) /\ Len(Default) <= StringMax
  /\ Contents \subseteq [Cells -> Bytes] /\ HalfDone \subseteq [Cells -> Bytes]

\* Programming only clears bits: an erased byte becomes what is programmed.
ASSUME OverAssumption ==
  /\ Over \in [Bytes \X Bytes -> Bytes]
  /\ \A byte \in Bytes : Over[<<Blank, byte>>] = byte

VARIABLES
  chip,         (* "present", or not there with its data line "low" or "high" *)
  flash,        (* the sector                                                 *)
  user_string,  (* user_string, up to its end                                 *)
  pc,           (* what flash_store_write does: "idle", "read", "erase",      *)
                (* "erasing", "program", "programming"; "off" without power   *)
  sector,       (* sector, the copy in RAM                                    *)
  p,            (* start of the page being programmed                         *)
  first,        (* the sector as it was found                                 *)
  torn          (* power was lost in the middle of a write                    *)

vars == <<chip, flash, user_string, pc, sector, p, first, torn>>

-----------------------------------------------------------------------------
(* Reading *)

\* A chip that is not there answers with the level of its data line.
flash_store_read ==
  CASE chip = "present" -> flash
    [] chip = "low"     -> [i \in Cells |-> 0]
    [] OTHER            -> [i \in Cells |-> Blank]

\* Up to the first 0, as strlen finds it.
CString(s) ==
  LET zeros == {i \in DOMAIN s : s[i] = 0}
  IN IF zeros = {} THEN s ELSE SubSeq(s, 1, Min(zeros) - 1)

ReadString(cells) ==
  LET len == cells[0]
  IN IF len \in {0, Blank} \/ len > StringMax
       THEN None
       ELSE CString([i \in 1..len |-> cells[i]])

\* user_string_load, over the initial value
Loaded(cells) == IF ReadString(cells) = None THEN Default ELSE ReadString(cells)

Init ==
  /\ chip \in IF "chip_present" \in Assumed THEN {"present"} ELSE {"present", "low", "high"}
  /\ flash \in Contents
  /\ user_string = Loaded(flash_store_read)
  /\ pc = "idle"
  /\ sector = [i \in Cells |-> 0] /\ p = 0
  /\ first = flash /\ torn = FALSE

-----------------------------------------------------------------------------
(* MSG_STRING_SET: user_string_store, flash_store_write_string, flash_store_write *)

(* Fault: the string is not cut. *)
StoredStringLong(payload, sz) == CString(SubSeq(payload, 1, Min({sz, Len(payload)})))

\* The string announces its size, which is cut to what is there and what can be kept.
StoredString(payload, sz) ==
  CString(SubSeq(payload, 1, Min({sz, Len(payload), StringMax})))

StringSet(payload, sz) ==
  /\ pc = "idle"
  /\ user_string' = StoredString(payload, sz)
  /\ pc' = IF user_string' = <<>> THEN "idle" ELSE "read"
  /\ UNCHANGED <<chip, flash, sector, p, first, torn>>

(* Fault: the sector is not read back. *)
WithRecordAlone(cells) ==
  [i \in Cells |-> IF i = 0 THEN Len(user_string)
                   ELSE IF i <= Len(user_string) THEN user_string[i]
                   ELSE Blank]

(* Fault: the record is one byte short. *)
WithRecordShort(cells) ==
  [i \in Cells |-> IF i = 0 THEN Len(user_string)
                   ELSE IF i < Len(user_string) THEN user_string[i]
                   ELSE cells[i]]

WithRecord(cells) ==
  [i \in Cells |-> IF i = 0 THEN Len(user_string)
                   ELSE IF i <= Len(user_string) THEN user_string[i]
                   ELSE cells[i]]

SectorRead ==
  /\ pc = "read"
  /\ sector' = WithRecord(flash_store_read)
  /\ pc' = "erase"
  /\ UNCHANGED <<chip, flash, user_string, p, first, torn>>

SectorErase ==
  /\ pc = "erase"
  /\ pc' = "erasing"
  /\ UNCHANGED <<chip, flash, user_string, sector, p, first, torn>>

PageProgram ==
  /\ pc = "program"
  /\ pc' = "programming"
  /\ UNCHANGED <<chip, flash, user_string, sector, p, first, torn>>

\* Cells the command under way changes, and what it makes of them.
Touched ==
  CASE chip # "present"     -> {}
    [] pc = "erasing"       -> Cells
    [] pc = "programming"   -> p..p+PageSize-1
    [] OTHER                -> {}

After(i) == IF pc = "erasing" THEN Blank ELSE Over[<<flash[i], sector[i]>>]

Changed == [i \in Cells |-> IF i \in Touched THEN After(i) ELSE flash[i]]

\* The command is cut off: its cells may hold anything.
CutOff(bytes) == [i \in Cells |-> IF i \in Touched THEN bytes[i] ELSE flash[i]]

\* flash_wait_ready reads the status until it is no longer busy.
Ready == chip # "high"

EraseDone ==
  /\ pc = "erasing" /\ Ready
  /\ flash' = Changed
  /\ pc' = "program" /\ p' = 0
  /\ UNCHANGED <<chip, user_string, sector, first, torn>>

ProgramDone ==
  /\ pc = "programming" /\ Ready
  /\ flash' = Changed
  /\ p' = IF p + PageSize < SectorSize THEN p + PageSize ELSE 0
  /\ pc' = IF p + PageSize < SectorSize THEN "program" ELSE "idle"
  /\ UNCHANGED <<chip, user_string, sector, first, torn>>

-----------------------------------------------------------------------------
(* Power *)

PowerLoss ==
  /\ pc # "off"
  /\ flash' \in {flash, Changed} \cup {CutOff(bytes) : bytes \in HalfDone}
  /\ torn' = (torn \/ pc \in {"erasing", "program", "programming"})
  /\ pc' = "off"
  /\ UNCHANGED <<chip, user_string, sector, p, first>>

\* main: flash_store_init, whose refusal is only logged, and user_string_load.
PowerOn ==
  /\ pc = "off"
  /\ user_string' = Loaded(flash_store_read)
  /\ sector' = [i \in Cells |-> 0] /\ p' = 0
  /\ pc' = "idle"
  /\ UNCHANGED <<chip, flash, first, torn>>

Next ==
  \/ \E payload \in Payloads, sz \in 0..StringMax+1 : StringSet(payload, sz)
  \/ SectorRead \/ SectorErase \/ EraseDone
  \/ PageProgram \/ ProgramDone
  \/ PowerLoss \/ PowerOn

Spec == Init /\ [][Next]_vars

-----------------------------------------------------------------------------
\* The strings that can be in use.
Strings == UNION {[1..n -> Chars] : n \in 0..StringMax}

(* Type invariant; the string always fits the buffer. *)
TypeOK ==
  /\ chip \in {"present", "low", "high"}
  /\ flash \in [Cells -> Bytes]
  /\ user_string \in Strings
  /\ pc \in {"idle", "read", "erase", "erasing", "program", "programming", "off"}
  /\ sector \in [Cells -> Bytes]
  /\ p \in Cells
  /\ torn \in BOOLEAN

(***************************************************************************)
(* The chip, the copy in RAM and the string in use implement the store of   *)
(* one string: a set string that was answered is found by the next start,   *)
(* and power lost changes the string kept only in the middle of a command   *)
(* on the record's own page, which has no checksum and may then hold any    *)
(* string or none (flash_store.c:119-162, 176-200;                          *)
(* bidib_client_parser.c:262-281).                                          *)
(***************************************************************************)
Store == INSTANCE UserString WITH
  value <- user_string, kept <- ReadString(flash),
  setting <- pc \notin {"idle", "off"},
  risk <- pc = "erasing" \/ (pc = "programming" /\ p = 0),
  on <- pc # "off"

ImplementsUserString == Store!Spec

(***************************************************************************)
(* Storing the string changes nothing else in its sector, however often it  *)
(* is erased ("preserving the content", flash_store.c:116): only power lost *)
(* in the middle of a write may cost it.                                    *)
(***************************************************************************)
RestKept ==
  pc = "idle" /\ ~torn => \A i \in Cells : i > StringMax => flash[i] = first[i]
=============================================================================
