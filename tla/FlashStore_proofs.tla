-------------------------- MODULE FlashStore_proofs --------------------------
(***************************************************************************)
(* Proofs about FlashStore, for every sector and page size, string length,  *)
(* set of strings, content of a new chip and remains of a command cut off:  *)
(* wherever power goes, in the middle of a command too, the store keeps its *)
(* promise (UserString).  A chip that answers is assumed.                   *)
(***************************************************************************)
EXTENDS FlashStore, WellFoundedInduction, SequenceTheorems, TLAPS

ChipPresent == "chip_present" \in Assumed

-----------------------------------------------------------------------------
(* Strings. *)

(* A set of naturals has a least element, which is its Min. *)
LEMMA LeastElement ==
  ASSUME NEW S \in SUBSET Nat, S # {}
  PROVE  Min(S) \in S /\ \A y \in S : Min(S) <= y
<1> DEFINE R == OpToRel(<, Nat)
<1>1. IsWellFoundedOn(R, Nat)
  BY NatLessThanWellFounded
<1>2. \A x, y \in Nat : y < x => <<y, x>> \in R
  BY DEF OpToRel
<1> HIDE DEF R
<1>3. PICK x \in S : \A y \in S : ~ (<<y, x>> \in R)
  BY <1>1, WFMin
<1>4. \A y \in S : ~(y < x)
  BY <1>2, <1>3
<1>5. \A y \in S : x <= y
  BY <1>4
<1> QED
  BY <1>5 DEF Min

LEMMA StringFacts ==
  ASSUME NEW s \in Strings
  PROVE  /\ s \in Seq(Chars) /\ Len(s) \in 0..StringMax
         /\ s = [i \in 1..Len(s) |-> s[i]]
         /\ \A i \in 1..Len(s) : s[i] \in Chars
         /\ s # <<>> => Len(s) > 0
<1>1. PICK n \in 0..StringMax : s \in [1..n -> Chars]
  BY DEF Strings
<1>2. n \in Nat
  BY FlashSizesAssumption
<1>3. Len(s) = n /\ s \in Seq(Chars)
  BY <1>1, <1>2
<1> QED
  BY <1>1, <1>2, <1>3, EmptySeq

LEMMA IsString ==
  ASSUME NEW s \in Seq(Chars), Len(s) <= StringMax
  PROVE  s \in Strings
<1>1. Len(s) \in 0..StringMax /\ s \in [1..Len(s) -> Chars]
  BY FlashSizesAssumption, LenProperties
<1> QED
  BY <1>1 DEF Strings

(* What strlen makes of at most StringMax bytes is a string. *)
LEMMA CStringIsString ==
  ASSUME NEW s \in Seq(Bytes), Len(s) <= StringMax
  PROVE  CString(s) \in Strings
<1> DEFINE zeros == {i \in DOMAIN s : s[i] = 0}
<1>1. DOMAIN s = 1..Len(s) /\ Len(s) \in Nat /\ \A i \in 1..Len(s) : s[i] \in Bytes
  BY LenProperties
<1>2. CASE zeros = {}
  <2>1. \A i \in 1..Len(s) : s[i] \in Chars
    BY <1>1, <1>2 DEF Chars
  <2>2. s \in [1..Len(s) -> Chars]
    BY <1>1, <2>1, LenProperties
  <2>3. s \in Seq(Chars)
    BY <1>1, <2>2
  <2> QED
    BY <1>2, <2>3, IsString DEF CString
<1>3. CASE zeros # {}
  <2> DEFINE m == Min(zeros)
  <2>1. zeros \in SUBSET Nat
    BY <1>1
  <2>2. m \in zeros /\ \A y \in zeros : m <= y
    BY <1>3, <2>1, LeastElement
  <2>3. m \in 1..Len(s) /\ m - 1 \in Int /\ m - 1 <= StringMax
    BY <1>1, <2>2, FlashSizesAssumption
  <2> HIDE DEF m
  <2>4. ASSUME NEW i \in 1..m-1 PROVE s[i] \in Chars
    <3>1. i \in 1..Len(s) /\ ~(m <= i)
      BY <1>1, <2>3
    <3>2. s[i] # 0
      BY <1>1, <2>2, <3>1
    <3> QED
      BY <1>1, <3>1, <3>2 DEF Chars
  <2>5. /\ SubSeq(s, 1, m - 1) \in Seq(Chars)
        /\ Len(SubSeq(s, 1, m - 1)) <= StringMax
    BY <2>3, <2>4, SubSeqProperties, FlashSizesAssumption
  <2>6. CString(s) = SubSeq(s, 1, m - 1)
    BY <1>3 DEF CString, m
  <2> QED
    BY <2>5, <2>6, IsString
<1> QED
  BY <1>2, <1>3

(* A string that holds no 0 is not cut. *)
LEMMA CStringWhole ==
  ASSUME NEW s \in Strings
  PROVE  CString(s) = s
<1>1. \A i \in DOMAIN s : s[i] # 0
  BY StringFacts DEF Chars
<1> QED
  BY <1>1 DEF CString

LEMMA StoredIsString ==
  ASSUME NEW payload \in Payloads, NEW sz \in 0..StringMax+1
  PROVE  StoredString(payload, sz) \in Strings
<1> DEFINE S == {sz, Len(payload), StringMax}
           m == Min(S)
<1>1. payload \in Seq(Bytes) /\ Len(payload) \in Nat
  BY FlashSetsAssumption, LenProperties
<1>2. S \in SUBSET Nat /\ S # {}
  BY <1>1, FlashSizesAssumption
<1>3. m \in Nat /\ m <= Len(payload) /\ m <= StringMax
  BY <1>2, LeastElement
<1> HIDE DEF m
<1>4. /\ SubSeq(payload, 1, m) \in Seq(Bytes)
      /\ Len(SubSeq(payload, 1, m)) <= StringMax
  <2>1. \A i \in 1..m : payload[i] \in Bytes
    BY <1>1, <1>3, LenProperties
  <2> QED
    BY <1>3, <2>1, SubSeqProperties, FlashSizesAssumption
<1> QED
  BY <1>4, CStringIsString DEF StoredString, m

-----------------------------------------------------------------------------
(* Records. *)

Holds(cells, s) == cells[0] = Len(s) /\ \A i \in 1..Len(s) : cells[i] = s[i]

LEMMA RecordCells == 0 \in Cells /\ \A i \in 1..StringMax : i \in Cells
  BY FlashSizesAssumption DEF Cells

(* Whatever bytes there are, they read as a string or as none. *)
LEMMA RecordRead ==
  ASSUME NEW cells \in [Cells -> Bytes]
  PROVE  ReadString(cells) \in Strings \cup {None}
<1> DEFINE len == cells[0]
           s == [i \in 1..len |-> cells[i]]
<1>1. CASE len \in {0, Blank} \/ len > StringMax
  BY <1>1 DEF ReadString
<1>2. CASE ~(len \in {0, Blank} \/ len > StringMax)
  <2>1. len \in Nat /\ len <= StringMax
    BY <1>2, RecordCells, FlashSizesAssumption, FlashSetsAssumption DEF Bytes
  <2>2. \A i \in 1..len : cells[i] \in Bytes
    BY <2>1, RecordCells, FlashSizesAssumption
  <2> HIDE DEF len
  <2>3. s \in Seq(Bytes) /\ Len(s) = len
    BY <2>1, <2>2
  <2>4. CString(s) \in Strings
    BY <2>1, <2>3, CStringIsString
  <2> QED
    BY <1>2, <2>4 DEF ReadString, len
<1> QED
  BY <1>1, <1>2

LEMMA RecordHeld ==
  ASSUME NEW cells, NEW s \in Strings, s # <<>>, Holds(cells, s)
  PROVE  ReadString(cells) = s
<1>1. /\ cells[0] = Len(s) /\ Len(s) \in 1..StringMax
      /\ \A i \in 1..Len(s) : cells[i] = s[i] /\ s[i] \in Chars
  BY StringFacts, FlashSizesAssumption DEF Holds
<1>2. [i \in 1..cells[0] |-> cells[i]] = s
  BY <1>1, StringFacts
<1>3. ~(cells[0] \in {0, Blank} \/ cells[0] > StringMax)
  BY <1>1, FlashSizesAssumption, FlashSetsAssumption
<1> QED
  BY <1>2, <1>3, CStringWhole DEF ReadString

(* Reading it looks at the record only. *)
LEMMA SameRecord ==
  ASSUME NEW cells \in [Cells -> Bytes], NEW other, \A i \in 0..StringMax : other[i] = cells[i]
  PROVE  ReadString(other) = ReadString(cells)
<1>1. other[0] = cells[0] /\ cells[0] \in Nat
  BY RecordCells, FlashSizesAssumption, FlashSetsAssumption DEF Bytes
<1>2. CASE cells[0] \in {0, Blank} \/ cells[0] > StringMax
  BY <1>1, <1>2 DEF ReadString
<1>3. CASE ~(cells[0] \in {0, Blank} \/ cells[0] > StringMax)
  <2>1. \A i \in 1..cells[0] : other[i] = cells[i]
    BY <1>1, <1>3, FlashSizesAssumption
  <2>2. [i \in 1..other[0] |-> other[i]] = [i \in 1..cells[0] |-> cells[i]]
    BY <1>1, <2>1
  <2> QED
    BY <1>1, <1>3, <2>2 DEF ReadString
<1> QED
  BY <1>2, <1>3

LEMMA BlankRecord ==
  ASSUME NEW cells, cells[0] = Blank
  PROVE  ReadString(cells) = None
  BY DEF ReadString

LEMMA LoadedIsString ==
  ASSUME NEW cells \in [Cells -> Bytes]
  PROVE  Loaded(cells) \in Strings
<1>1. Default \in Strings
  BY FlashSetsAssumption, IsString
<1> QED
  BY <1>1, RecordRead DEF Loaded

-----------------------------------------------------------------------------
(* The invariant: what the chip and the copy in RAM hold at each step.       *)

Writing == {"erase", "erasing", "program", "programming"}
Programming == {"program", "programming"}

\* The erase is the only thing between the record found and the one written,
\* and the pages before p are written, those from p on blank.
WritePart ==
  /\ pc \in {"read"} \cup Writing => user_string # <<>>
  /\ pc \in Writing => Holds(sector, user_string)
  /\ pc \in Programming =>
       /\ \A i \in Cells : flash[i] = IF i < p THEN sector[i] ELSE Blank
       /\ p = 0 \/ p > StringMax

\* Behind the record the chip, or the copy while it is written, is as found.
RestPart ==
  ~torn => \A i \in Cells : i > StringMax =>
             /\ pc \notin Programming => flash[i] = first[i]
             /\ pc \in Writing => sector[i] = first[i]

FlashInv ==
  /\ TypeOK
  /\ chip = "present"
  /\ WritePart
  /\ RestPart

LEMMA FlashInit == ChipPresent /\ Init => FlashInv
<1> SUFFICES ASSUME ChipPresent, Init PROVE FlashInv
  OBVIOUS
<1>1. chip = "present"
  BY DEF ChipPresent, Init
<1>2. flash \in [Cells -> Bytes]
  BY FlashSetsAssumption DEF Init
<1>3. user_string \in Strings
  BY <1>1, <1>2, LoadedIsString DEF Init, flash_store_read
<1>4. sector \in [Cells -> Bytes] /\ p \in Cells
  BY RecordCells, FlashSetsAssumption DEF Init, Bytes
<1> QED
  BY <1>1, <1>2, <1>3, <1>4 DEF Init, FlashInv, TypeOK, WritePart, RestPart, Writing, Programming

(* The copy of the sector with the record in its place. *)
LEMMA RecordInCopy ==
  ASSUME FlashInv, pc = "read", sector' = WithRecord(flash_store_read)
  PROVE  /\ sector' \in [Cells -> Bytes]
         /\ Holds(sector', user_string)
         /\ \A i \in Cells : i > StringMax => sector'[i] = flash[i]
<1> DEFINE us == user_string
<1>1. us \in Strings /\ flash_store_read = flash /\ flash \in [Cells -> Bytes]
  BY DEF FlashInv, TypeOK, flash_store_read
<1>2. Len(us) \in 0..StringMax /\ \A i \in 1..Len(us) : us[i] \in Chars
  BY <1>1, StringFacts
<1>3. sector' = [i \in Cells |-> IF i = 0 THEN Len(us) ELSE IF i <= Len(us) THEN us[i] ELSE flash[i]]
  BY <1>1 DEF WithRecord
<1>4. sector' \in [Cells -> Bytes]
  <2>1. Len(us) \in Bytes
    BY <1>2, FlashSizesAssumption, FlashSetsAssumption DEF Bytes
  <2>2. \A i \in Cells : i # 0 /\ i <= Len(us) => i \in 1..Len(us)
    BY <1>2, FlashSizesAssumption DEF Cells
  <2>3. \A i \in Cells : i # 0 /\ i <= Len(us) => us[i] \in Bytes
    BY <1>2, <2>2 DEF Bytes, Chars
  <2> QED
    BY <1>1, <1>3, <2>1, <2>3
<1>5. Holds(sector', us)
  <2>1. \A i \in 1..Len(us) : i \in Cells /\ i # 0 /\ i <= Len(us)
    BY <1>2, FlashSizesAssumption DEF Cells
  <2> QED
    BY <1>3, <2>1, RecordCells DEF Holds
<1>6. ASSUME NEW i \in Cells, i > StringMax PROVE sector'[i] = flash[i]
  <2>1. i # 0 /\ ~(i <= Len(us))
    BY <1>2, <1>6, FlashSizesAssumption DEF Cells
  <2> QED
    BY <1>3, <2>1
<1> QED
  BY <1>4, <1>5, <1>6

(* What the command under way makes of the chip when it is done. *)
LEMMA CommandDone ==
  ASSUME FlashInv, pc \in {"erasing", "programming"}, flash' = Changed
  PROVE  flash' = [i \in Cells |-> IF pc = "programming" /\ i < p + PageSize
                                   THEN sector[i] ELSE Blank]
<1>1. chip = "present" /\ p \in Cells /\ PageSize \in Nat
  BY FlashSizesAssumption DEF FlashInv, TypeOK
<1>2. CASE pc = "erasing"
  <2>1. Touched = Cells
    BY <1>1, <1>2 DEF Touched
  <2> QED
    BY <1>2, <2>1 DEF Changed, After
<1>3. CASE pc = "programming"
  <2>1. Touched = p..p+PageSize-1
    BY <1>1, <1>3 DEF Touched
  <2>2. ASSUME NEW i \in Cells
        PROVE  (IF i \in Touched THEN After(i) ELSE flash[i])
                 = IF i < p + PageSize THEN sector[i] ELSE Blank
    <3>1. flash[i] = IF i < p THEN sector[i] ELSE Blank
      BY <1>3 DEF FlashInv, WritePart, Programming
    <3>2. i \in Touched <=> ~(i < p) /\ i < p + PageSize
      BY <1>1, <2>1 DEF Cells
    <3>3. ~(i < p) => After(i) = sector[i]
      BY <1>3, <3>1, OverAssumption DEF After, FlashInv, TypeOK
    <3>4. i < p => i < p + PageSize
      BY <1>1, FlashSizesAssumption DEF Cells
    <3> QED
      BY <3>1, <3>2, <3>3, <3>4
  <2> QED
    BY <1>3, <2>2 DEF Changed
<1> QED
  BY <1>2, <1>3

(* After a programmed page the record can be read. *)
LEMMA ProgrammedRecord ==
  ASSUME FlashInv, pc = "programming", flash' = Changed
  PROVE  ReadString(flash') = user_string
<1>1. flash' = [i \in Cells |-> IF i < p + PageSize THEN sector[i] ELSE Blank]
  BY CommandDone
<1>2. Holds(sector, user_string) /\ user_string \in Strings /\ user_string # <<>> /\ p \in Cells
  BY DEF FlashInv, TypeOK, WritePart, Writing
<1>3. Len(user_string) \in 0..StringMax
  BY <1>2, StringFacts
<1>4. \A i \in 0..StringMax : i \in Cells /\ i < p + PageSize
  BY <1>2, FlashSizesAssumption DEF Cells
<1>5. flash'[0] = sector[0] /\ \A i \in 1..Len(user_string) : flash'[i] = sector[i]
  BY <1>1, <1>3, <1>4, FlashSizesAssumption
<1>6. Holds(flash', user_string)
  BY <1>2, <1>5 DEF Holds
<1> QED
  BY <1>2, <1>6, RecordHeld

-----------------------------------------------------------------------------
(* One lemma per group of steps. *)

LEMMA SetKeeps ==
  ASSUME FlashInv, NEW payload \in Payloads, NEW sz \in 0..StringMax+1, StringSet(payload, sz)
  PROVE  FlashInv'
<1>1. user_string' \in Strings
  BY StoredIsString DEF StringSet
<1>2. /\ UNCHANGED <<chip, flash, sector, p, first, torn>>
      /\ pc = "idle" /\ pc' = IF user_string' = <<>> THEN "idle" ELSE "read"
  BY DEF StringSet
<1>3. TypeOK'
  BY <1>1, <1>2 DEF FlashInv, TypeOK
<1>4. WritePart' /\ RestPart'
  BY <1>2 DEF FlashInv, WritePart, RestPart, Writing, Programming
<1> QED
  BY <1>2, <1>3, <1>4 DEF FlashInv

LEMMA ReadKeeps ==
  ASSUME FlashInv, SectorRead
  PROVE  FlashInv'
<1>1. /\ UNCHANGED <<chip, flash, user_string, p, first, torn>>
      /\ pc = "read" /\ pc' = "erase"
  BY DEF SectorRead
<1>2. /\ sector' \in [Cells -> Bytes]
      /\ Holds(sector', user_string)
      /\ \A i \in Cells : i > StringMax => sector'[i] = flash[i]
  BY RecordInCopy DEF SectorRead
<1>3. TypeOK'
  BY <1>1, <1>2 DEF FlashInv, TypeOK
<1>4. WritePart'
  BY <1>1, <1>2 DEF FlashInv, WritePart, Writing, Programming
<1>5. RestPart'
  BY <1>1, <1>2 DEF FlashInv, RestPart, Writing, Programming
<1> QED
  BY <1>1, <1>3, <1>4, <1>5 DEF FlashInv

LEMMA CommandKeeps ==
  ASSUME FlashInv, SectorErase \/ PageProgram
  PROVE  FlashInv'
<1>1. /\ UNCHANGED <<chip, flash, user_string, sector, p, first, torn>>
      /\ \/ pc = "erase" /\ pc' = "erasing"
         \/ pc = "program" /\ pc' = "programming"
  BY DEF SectorErase, PageProgram
<1>2. TypeOK'
  BY <1>1 DEF FlashInv, TypeOK
<1>3. WritePart'
  BY <1>1 DEF FlashInv, WritePart, Writing, Programming
<1>4. RestPart'
  BY <1>1 DEF FlashInv, RestPart, Writing, Programming
<1> QED
  BY <1>1, <1>2, <1>3, <1>4 DEF FlashInv

(* The chip stays of the right type, whether a command is done or cut off. *)
LEMMA ChangedType ==
  ASSUME FlashInv
  PROVE  /\ Changed \in [Cells -> Bytes]
         /\ \A bytes \in HalfDone : CutOff(bytes) \in [Cells -> Bytes]
<1>1. flash \in [Cells -> Bytes] /\ sector \in [Cells -> Bytes]
  BY DEF FlashInv, TypeOK
<1>2. Blank \in Bytes
  BY FlashSetsAssumption DEF Bytes
<1>3. \A i \in Cells : After(i) \in Bytes
  BY <1>1, <1>2, OverAssumption DEF After
<1> QED
  BY <1>1, <1>3, FlashSetsAssumption DEF Changed, CutOff

LEMMA EraseKeeps ==
  ASSUME FlashInv, EraseDone
  PROVE  FlashInv'
<1>1. /\ UNCHANGED <<chip, user_string, sector, first, torn>>
      /\ pc = "erasing" /\ pc' = "program" /\ p' = 0 /\ flash' = Changed
  BY DEF EraseDone
<1>2. flash' = [i \in Cells |-> Blank]
  BY <1>1, CommandDone
<1>3. TypeOK'
  BY <1>1, ChangedType, RecordCells DEF FlashInv, TypeOK
<1>4. WritePart'
  BY <1>1, <1>2 DEF FlashInv, WritePart, Writing, Programming, Cells
<1>5. RestPart'
  BY <1>1 DEF FlashInv, RestPart, Writing, Programming
<1> QED
  BY <1>1, <1>3, <1>4, <1>5 DEF FlashInv

LEMMA ProgramKeeps ==
  ASSUME FlashInv, ProgramDone
  PROVE  FlashInv'
<1>1. /\ UNCHANGED <<chip, user_string, sector, first, torn>>
      /\ pc = "programming" /\ flash' = Changed
      /\ p' = IF p + PageSize < SectorSize THEN p + PageSize ELSE 0
      /\ pc' = IF p + PageSize < SectorSize THEN "program" ELSE "idle"
      /\ p \in Cells
  BY DEF ProgramDone, FlashInv, TypeOK
<1>2. flash' = [i \in Cells |-> IF i < p + PageSize THEN sector[i] ELSE Blank]
  BY <1>1, CommandDone
<1>3. TypeOK'
  <2>1. p' \in Cells
    BY <1>1, FlashSizesAssumption DEF Cells
  <2>2. flash' \in [Cells -> Bytes]
    BY <1>1, ChangedType
  <2>3. pc' \in {"idle", "program"}
    BY <1>1
  <2> QED
    BY <1>1, <2>1, <2>2, <2>3 DEF FlashInv, TypeOK
<1>4. CASE p + PageSize < SectorSize
  <2>1. p' = p + PageSize /\ pc' = "program" /\ p' > StringMax
    BY <1>1, <1>4, FlashSizesAssumption DEF Cells
  <2>2. WritePart'
    BY <1>1, <1>2, <2>1 DEF FlashInv, WritePart, Writing, Programming
  <2>3. RestPart'
    BY <1>1, <2>1 DEF FlashInv, RestPart, Writing, Programming
  <2> QED
    BY <1>1, <1>3, <2>2, <2>3 DEF FlashInv
<1>5. CASE ~(p + PageSize < SectorSize)
  <2>1. pc' = "idle"
    BY <1>1, <1>5
  <2>2. \A i \in Cells : i < p + PageSize
    BY <1>1, <1>5, FlashSizesAssumption DEF Cells
  <2>3. \A i \in Cells : flash'[i] = sector[i]
    BY <1>2, <2>2
  <2>4. WritePart' /\ RestPart'
    BY <1>1, <2>1, <2>3 DEF FlashInv, WritePart, RestPart, Writing, Programming
  <2> QED
    BY <1>1, <1>3, <2>4 DEF FlashInv
<1> QED
  BY <1>4, <1>5

(* Power lost changes only what the command under way is changing, and the  *)
(* record only if that is in its page.                                      *)
LEMMA LossRecord ==
  ASSUME FlashInv, PowerLoss
  PROVE  /\ flash' \in [Cells -> Bytes]
         /\ pc \notin {"erasing", "programming"} => flash' = flash
         /\ pc # "erasing" /\ ~(pc = "programming" /\ p = 0)
              => ReadString(flash') = ReadString(flash)
<1>1. flash \in [Cells -> Bytes]
  BY DEF FlashInv, TypeOK
<1>2. flash' \in [Cells -> Bytes]
  BY <1>1, ChangedType DEF PowerLoss
<1>3. \A i \in Cells : i \notin Touched => flash'[i] = flash[i]
  BY DEF PowerLoss, Changed, CutOff
<1>4. ASSUME pc \notin {"erasing", "programming"} PROVE flash' = flash
  <2>1. Touched = {}
    BY <1>4 DEF Touched
  <2> QED
    BY <1>1, <1>2, <1>3, <2>1
<1>5. ASSUME pc = "programming", p # 0 PROVE ReadString(flash') = ReadString(flash)
  <2>1. p > StringMax /\ p \in Nat /\ Touched = p..p+PageSize-1
    BY <1>5 DEF FlashInv, TypeOK, Cells, WritePart, Programming, Touched
  <2>2. \A i \in 0..StringMax : i \in Cells /\ i \notin Touched
    BY <2>1, RecordCells, FlashSizesAssumption
  <2> QED
    BY <1>1, <1>3, <2>2, SameRecord
<1> QED
  BY <1>2, <1>4, <1>5

LEMMA LossKeeps ==
  ASSUME FlashInv, PowerLoss
  PROVE  FlashInv'
<1>1. /\ UNCHANGED <<chip, user_string, sector, p, first>>
      /\ torn' = (torn \/ pc \in {"erasing", "program", "programming"})
      /\ pc' = "off"
  BY DEF PowerLoss
<1>2. flash' \in [Cells -> Bytes] /\ (pc \notin {"erasing", "programming"} => flash' = flash)
  BY LossRecord
<1>3. TypeOK'
  BY <1>1, <1>2 DEF FlashInv, TypeOK
<1>4. WritePart'
  BY <1>1 DEF WritePart, Writing, Programming
<1>5. RestPart'
  BY <1>1, <1>2 DEF FlashInv, TypeOK, RestPart, Writing, Programming
<1> QED
  BY <1>1, <1>2, <1>3, <1>4, <1>5 DEF FlashInv

LEMMA OnKeeps ==
  ASSUME FlashInv, PowerOn
  PROVE  FlashInv' /\ user_string' = Loaded(flash)
<1>1. /\ UNCHANGED <<chip, flash, first, torn>>
      /\ pc = "off" /\ pc' = "idle"
      /\ sector' = [i \in Cells |-> 0] /\ p' = 0
      /\ user_string' = Loaded(flash)
  BY DEF PowerOn, FlashInv, flash_store_read
<1>2. user_string' \in Strings
  BY <1>1, LoadedIsString DEF FlashInv, TypeOK
<1>3. sector' \in [Cells -> Bytes] /\ p' \in Cells
  BY <1>1, RecordCells, FlashSetsAssumption DEF Bytes
<1>4. TypeOK'
  BY <1>1, <1>2, <1>3 DEF FlashInv, TypeOK
<1>5. WritePart' /\ RestPart'
  BY <1>1 DEF FlashInv, WritePart, RestPart, Writing, Programming
<1> QED
  BY <1>1, <1>4, <1>5 DEF FlashInv

LEMMA FlashStep == FlashInv /\ [Next]_vars => FlashInv'
<1> SUFFICES ASSUME FlashInv, [Next]_vars PROVE FlashInv'
  OBVIOUS
<1>1. CASE UNCHANGED vars
  BY <1>1 DEF vars, FlashInv, TypeOK, WritePart, RestPart
<1> QED
  BY <1>1, SetKeeps, ReadKeeps, CommandKeeps, EraseKeeps, ProgramKeeps, LossKeeps, OnKeeps DEF Next

LEMMA FlashInvariant == ChipPresent => (Spec => []FlashInv)
<1> SUFFICES ASSUME ChipPresent PROVE Spec => []FlashInv
  OBVIOUS
<1>1. Init => FlashInv
  BY FlashInit
<1>2. FlashInv /\ [Next]_vars => FlashInv'
  BY FlashStep
<1> QED
  BY <1>1, <1>2, PTL DEF Spec

(* The string fits its buffer and the chip holds bytes, whatever was on it   *)
(* and wherever power goes.                                                  *)
THEOREM TypeCorrect == ChipPresent => (Spec => []TypeOK)
<1> SUFFICES ASSUME ChipPresent PROVE Spec => []TypeOK
  OBVIOUS
<1>1. FlashInv => TypeOK
  BY DEF FlashInv
<1> QED
  BY <1>1, FlashInvariant, PTL

(* Storing strings keeps the rest of the sector, unless power goes in the    *)
(* middle of a write (flash_store.c:116-162).                                *)
THEOREM RestIsKept == ChipPresent => (Spec => []RestKept)
<1> SUFFICES ASSUME ChipPresent PROVE Spec => []RestKept
  OBVIOUS
<1>1. FlashInv => RestKept
  BY DEF FlashInv, RestPart, RestKept, Programming
<1> QED
  BY <1>1, FlashInvariant, PTL

-----------------------------------------------------------------------------
(* Every step is a step of the store of one string. *)

AtRisk == pc = "erasing" \/ (pc = "programming" /\ p = 0)

LEMMA StoreInit == FlashInv /\ Init => Store!Init
<1> SUFFICES ASSUME FlashInv, Init PROVE Store!Init
  OBVIOUS
<1>1. ReadString(flash) \in Strings \cup {None}
  BY RecordRead DEF FlashInv, TypeOK
<1>2. user_string = Loaded(flash) /\ pc = "idle"
  BY DEF Init, FlashInv, flash_store_read
<1> QED
  BY <1>1, <1>2 DEF Store!Init, Store!InUse, Loaded

LEMMA StoreStep ==
  FlashInv /\ [Next]_vars
    => [Store!Next]_<<user_string, ReadString(flash), pc \notin {"idle", "off"}, AtRisk, pc # "off">>
<1> DEFINE stutter == UNCHANGED <<user_string, ReadString(flash), pc \notin {"idle", "off"}, AtRisk, pc # "off">>
<1> SUFFICES ASSUME FlashInv, [Next]_vars PROVE Store!Next \/ stutter
  OBVIOUS
<1>1. ASSUME NEW payload \in Payloads, NEW sz \in 0..StringMax+1, StringSet(payload, sz)
      PROVE  Store!Next
  <2>1. user_string' \in Strings
    BY <1>1, StoredIsString DEF StringSet
  <2>2. Store!Set(user_string')
    BY <1>1 DEF StringSet, Store!Set
  <2> QED
    BY <2>1, <2>2 DEF Store!Next
<1>2. CASE SectorRead \/ SectorErase \/ PageProgram
  <2>1. CASE SectorRead \/ (PageProgram /\ p # 0)
    BY <2>1 DEF SectorRead, PageProgram, AtRisk
  <2>2. CASE SectorErase \/ (PageProgram /\ p = 0)
    <3>1. Store!Change
      BY <2>2 DEF SectorErase, PageProgram, Store!Change
    <3> QED
      BY <3>1 DEF Store!Next
  <2> QED
    BY <1>2, <2>1, <2>2
<1>3. CASE EraseDone
  <2>1. flash' = [i \in Cells |-> Blank]
    BY <1>3, CommandDone DEF EraseDone
  <2>2. ReadString(flash') = None
    BY <2>1, RecordCells, BlankRecord
  <2>3. Store!Keep
    BY <1>3, <2>2 DEF EraseDone, Store!Keep
  <2> QED
    BY <2>3 DEF Store!Next
<1>4. CASE ProgramDone
  <2>1. ReadString(flash') = user_string
    BY <1>4, ProgrammedRecord DEF ProgramDone
  <2>2. CASE p = 0
    <3>1. Store!Keep
      BY <1>4, <2>1, <2>2, FlashSizesAssumption DEF ProgramDone, Store!Keep
    <3> QED
      BY <3>1 DEF Store!Next
  <2>3. CASE p # 0
    <3>1. p > StringMax
      BY <1>4, <2>3 DEF FlashInv, WritePart, Programming, ProgramDone
    <3>2. /\ \A i \in 0..StringMax : i \in Cells /\ i < p
          /\ Holds(sector, user_string) /\ user_string \in Strings /\ user_string # <<>>
      BY <1>4, <3>1, FlashSizesAssumption DEF FlashInv, TypeOK, WritePart, Writing, ProgramDone, Cells
    <3>3. \A i \in 0..StringMax : flash[i] = sector[i]
      BY <1>4, <3>2 DEF FlashInv, WritePart, Programming, ProgramDone
    <3>4. Len(user_string) \in 0..StringMax
      BY <3>2, StringFacts
    <3>5. Holds(flash, user_string)
      BY <3>2, <3>3, <3>4, FlashSizesAssumption DEF Holds
    <3>6. ReadString(flash) = user_string
      BY <3>2, <3>5, RecordHeld
    <3>7. CASE p + PageSize < SectorSize
      BY <1>4, <2>1, <2>3, <3>6, <3>7 DEF ProgramDone, AtRisk
    <3>8. CASE ~(p + PageSize < SectorSize)
      <4>1. Store!Finish
        BY <1>4, <2>1, <2>3, <3>6, <3>8 DEF ProgramDone, Store!Finish
      <4> QED
        BY <4>1 DEF Store!Next
    <3> QED
      BY <3>7, <3>8
  <2> QED
    BY <2>2, <2>3
<1>5. CASE PowerLoss
  <2>1. /\ ReadString(flash') \in Strings \cup {None}
        /\ ~AtRisk => ReadString(flash') = ReadString(flash)
    BY <1>5, LossRecord, RecordRead DEF AtRisk
  <2>2. Store!PowerLoss
    BY <1>5, <2>1 DEF PowerLoss, Store!PowerLoss, AtRisk
  <2> QED
    BY <2>2 DEF Store!Next
<1>6. CASE PowerOn
  <2>1. user_string' = Loaded(flash)
    BY <1>6, OnKeeps
  <2>2. Store!PowerOn
    BY <1>6, <2>1 DEF PowerOn, Store!PowerOn, Store!InUse, Loaded
  <2> QED
    BY <2>2 DEF Store!Next
<1>7. CASE UNCHANGED vars
  BY <1>7 DEF vars, AtRisk
<1> QED
  BY <1>1, <1>2, <1>3, <1>4, <1>5, <1>6, <1>7 DEF Next

(***************************************************************************)
(* The chip, the copy and the string in use implement the store of one      *)
(* string, with power lost at any moment and commands cut off: a string     *)
(* whose setting ended is found by the next start, and what is kept is lost *)
(* only in the middle of the erase or of the program of its own page; the   *)
(* code has no checksum to tell what is left then                           *)
(* (flash_store.c:119-162, 176-200; bidib_client_parser.c:262-281).         *)
(***************************************************************************)
THEOREM StringIsStored == ChipPresent => (Spec => ImplementsUserString)
<1> SUFFICES ASSUME ChipPresent PROVE Spec => ImplementsUserString
  OBVIOUS
<1>1. Init => FlashInv /\ Store!Init
  BY FlashInit, StoreInit
<1>2. FlashInv /\ [Next]_vars
        => [Store!Next]_<<user_string, ReadString(flash), pc \notin {"idle", "off"}, AtRisk, pc # "off">>
  BY StoreStep
<1> QED
  BY <1>1, <1>2, FlashInvariant, PTL DEF Spec, ImplementsUserString, Store!Spec, AtRisk
=============================================================================
