-------------------------- MODULE ConfigStoreProofs --------------------------
(***************************************************************************)
(* Proofs about ConfigStore for all values the app and the form may send,  *)
(* and any number of failed or interrupted commits.                        *)
(***************************************************************************)
EXTENDS ConfigStore, TLAPS

(* The variables agree with the copy, but for the one that a handler in    *)
(* the middle of its commit has yet to read back; also through a reset     *)
(* while nothing has gone wrong.                                           *)
InForce ==
  pc \notin {"boot", "cai_dat"} \/ trusted = 1 =>
    /\ pc = "V32" \/ downLimit = data[102]
    /\ pc = "V33" \/ upLimit = data[103]
    /\ \/ pc = "V34"
       \/ /\ HighByte(threshold) = data[104]
          /\ LowByte(threshold) # data[105] => data[105] = 1
    /\ rowIndex # data[106] => rowIndex = 1

(* Outside a commit that has not failed the sector holds the copy, but for *)
(* the cell that V11 writes without one; what a boot would load from that  *)
(* cell is in use, or is the 1 of V11.                                     *)
Saved ==
  trusted = 1 /\ pc \in {"run", "boot"} =>
    /\ \A c \in Cells \ {105} : flash[c] = data[c]
    /\ flash[105] # data[105] => data[105] = 1
    /\ LowByte(threshold) # flash[105] => flash[105] = 1

(* A handler has erased only what it is about to write.                    *)
Pending == pc \in Handlers => dirty = 1

Inv == TypeOK /\ CleanCopyIsSaved /\ InForce /\ Saved /\ Pending

-----------------------------------------------------------------------------
(* Splitting a word into bytes and putting it together again.              *)
LEMMA BytesOfWord ==
  ASSUME NEW v \in TwoBytes
  PROVE  HighByte(v) \in Byte /\ LowByte(v) \in Byte
<1>1. v \in Int /\ 0 <= v /\ v <= 65535
    BY DEF TwoBytes
<1>2. v \div 256 \in Int /\ v \div 256 >= 0
    BY <1>1
<1>3. v \div 256 <= 255
    BY <1>1
<1>4. v % 256 \in 0..255
    BY <1>1
<1>5. QED
    BY <1>2, <1>3, <1>4 DEF HighByte, LowByte, Byte

LEMMA WordOfBytes ==
  ASSUME NEW h \in Byte, NEW l \in Byte
  PROVE  /\ h * 256 + l \in TwoBytes
         /\ HighByte(h * 256 + l) = h
         /\ LowByte(h * 256 + l) = l
<1>1. h * 256 + l \in TwoBytes
    BY DEF Byte, TwoBytes
<1>2. HighByte(h * 256 + l) = h
    BY DEF HighByte, Byte
<1>3. LowByte(h * 256 + l) = l
    BY DEF LowByte, Byte
<1>4. QED
    BY <1>1, <1>2, <1>3

(* The cells, one by one, and the bytes in them.                           *)
LEMMA CellNames ==
  ASSUME NEW m \in [Cells -> Byte]
  PROVE  /\ {0, 100, 101, 102, 103, 104, 105, 106} = Cells
         /\ m[100] \in Byte /\ m[101] \in Byte /\ m[102] \in Byte
         /\ m[103] \in Byte /\ m[104] \in Byte /\ m[105] \in Byte
         /\ m[106] \in Byte
<1>1. {0, 100, 101, 102, 103, 104, 105, 106} = Cells
    BY DEF Cells
<1>2. QED
    BY <1>1

(* A word kept in two cells.                                               *)
LEMMA WordInCells ==
  ASSUME NEW m \in [Cells -> Byte], NEW c \in {100, 104}
  PROVE  /\ Word(m, c) \in TwoBytes
         /\ HighByte(Word(m, c)) = m[c]
         /\ LowByte(Word(m, c)) = m[c + 1]
<1>1. c \in Cells /\ c + 1 \in Cells
    BY DEF Cells
<1>2. m[c] \in Byte /\ m[c + 1] \in Byte
    BY <1>1
<1>3. Word(m, c) = m[c] * 256 + m[c + 1]
    BY DEF Word
<1>4. QED
    BY <1>2, <1>3, WordOfBytes

(* What AsByte() may store is a byte.                                      *)
LEMMA StoredByte ==
  ASSUME NEW v \in Limits
  PROVE  AsByte(v) \subseteq Byte
<1>1. v \in Int
    BY ConfigAssumption
<1>2. v % 256 \in 0..255
    BY <1>1
<1>3. LowByte(v) \in Byte /\ 255 \in Byte
    BY <1>2 DEF LowByte, Byte
<1>4. QED
    BY <1>3 DEF AsByte

LEMMA TornType ==
  ASSUME TypeOK, NEW n \in Cells
  PROVE  Torn(n) \in [Cells -> Byte]
<1>1. Empty \in Byte
    BY DEF Empty, Byte
<1>2. QED
    BY <1>1 DEF Torn, TypeOK

-----------------------------------------------------------------------------
(* Handlers that go on with the loop when they are done.                   *)
AppHandlers == Handlers \ {"cai_dat"}

(* What a handler reads back after its commit.                             *)
LEMMA ReadBackType ==
  ASSUME TypeOK, NEW h \in Handlers, data' \in [Cells -> Byte], ReadBack(h)
  PROVE  /\ downLimit' \in Byte /\ upLimit' \in Byte
         /\ threshold' \in TwoBytes /\ pc' \in {"run", "boot"}
<1>1. Word(data', 104) \in TwoBytes
    BY WordInCells
<1>2. 102 \in Cells /\ 103 \in Cells
    BY DEF Cells
<1>3. QED
    BY <1>1, <1>2 DEF ReadBack, AfterCommit, TypeOK

LEMMA ReadBackInForce ==
  ASSUME NEW h \in AppHandlers, data' \in [Cells -> Byte], ReadBack(h),
         h = "V32" \/ downLimit = data'[102],
         h = "V33" \/ upLimit = data'[103],
         \/ h = "V34"
         \/ /\ HighByte(threshold) = data'[104]
            /\ LowByte(threshold) # data'[105] => data'[105] = 1,
         rowIndex' # data'[106] => rowIndex' = 1
  PROVE  InForce' /\ pc' = "run"
<1>1. /\ HighByte(Word(data', 104)) = data'[104]
      /\ LowByte(Word(data', 104)) = data'[105]
    <2>1. 104 + 1 = 105
        OBVIOUS
    <2>2. QED
        BY <2>1, WordInCells
<1>2. pc' = "run"
    BY DEF ReadBack, AfterCommit, AppHandlers
<1>3. downLimit' = data'[102] /\ upLimit' = data'[103]
    BY DEF ReadBack
<1>4. HighByte(threshold') = data'[104]
    BY <1>1 DEF ReadBack
<1>5. LowByte(threshold') # data'[105] => data'[105] = 1
    BY <1>1 DEF ReadBack
<1>6. QED
    BY <1>2, <1>3, <1>4, <1>5 DEF InForce, HighByte, LowByte

(* A handler of the app that keeps InForce but for its own cells keeps the *)
(* invariant, whatever becomes of its commit.                              *)
LEMMA CommitKeepsInv ==
  ASSUME Inv, pc = "run", NEW h \in AppHandlers, Commit(h),
         data' \in [Cells -> Byte], rowIndex' \in Byte,
         wifiFlash' = wifiFlash,
         h = "V32" \/ data'[102] = data[102],
         h = "V33" \/ data'[103] = data[103],
         h = "V34" \/ data'[104] = data[104],
         h = "V34" \/ data'[105] = data[105],
         \/ rowIndex' = data'[106]
         \/ rowIndex' = rowIndex /\ data'[106] = data[106]
  PROVE  Inv'
<1>1. /\ h = "V32" \/ downLimit = data'[102]
      /\ h = "V33" \/ upLimit = data'[103]
      /\ \/ h = "V34"
         \/ /\ HighByte(threshold) = data'[104]
            /\ LowByte(threshold) # data'[105] => data'[105] = 1
      /\ rowIndex' # data'[106] => rowIndex' = 1
    BY DEF Inv, InForce
<1>2. h \in Handlers /\ h # "boot" /\ h # "run" /\ h # "cai_dat"
    BY DEF AppHandlers, Handlers
<1>3. Blank \in [Cells -> Byte]
    BY DEF Blank, Empty, Byte
<1>4. TypeOK
    BY DEF Inv
<1>5. CASE ~Unsaved /\ dirty' = 0 /\ ReadBack(h) /\ UNCHANGED <<flash, trusted>>
  <2>1. InForce' /\ pc' = "run"
      BY <1>1, <1>5, ReadBackInForce
  <2>2. TypeOK'
      BY <1>2, <1>4, <1>5, ReadBackType DEF TypeOK, Bit
  <2>3. flash' = data'
      BY <1>4, <1>5 DEF Inv, CleanCopyIsSaved, Unsaved, TypeOK, Bit
  <2>4. LowByte(threshold') # flash'[105] => flash'[105] = 1
      BY <2>1, <2>3 DEF InForce, HighByte, LowByte
  <2>5. Saved'
      BY <2>3, <2>4 DEF Saved, HighByte, LowByte
  <2>6. QED
      BY <2>1, <2>2, <2>3, <2>5 DEF Inv, CleanCopyIsSaved, Pending, Handlers
<1>6. CASE /\ Unsaved /\ dirty' = 1 /\ pc' = h /\ flash' = Blank
           /\ UNCHANGED <<limits, trusted>>
  <2>1. TypeOK'
      BY <1>2, <1>3, <1>4, <1>6 DEF TypeOK, Bit, limits
  <2>2. InForce'
      BY <1>1, <1>6 DEF InForce, limits, HighByte, LowByte
  <2>3. QED
      BY <1>2, <1>6, <2>1, <2>2 DEF Inv, CleanCopyIsSaved, Saved, Pending
<1>7. CASE /\ Unsaved /\ dirty' = 1 /\ ReadBack(h) /\ trusted' = 0
           /\ UNCHANGED flash
  <2>1. InForce' /\ pc' = "run"
      BY <1>1, <1>7, ReadBackInForce
  <2>2. TypeOK'
      BY <1>2, <1>4, <1>7, ReadBackType DEF TypeOK, Bit
  <2>3. QED
      BY <1>7, <2>1, <2>2 DEF Inv, CleanCopyIsSaved, Saved, Pending
<1>8. QED
    BY <1>5, <1>6, <1>7 DEF Commit

-----------------------------------------------------------------------------
LEMMA InitInv == Init => Inv
<1>1. Blank \in [Cells -> Byte]
    BY DEF Blank, Empty, Byte
<1>2. 1 \in Byte
    BY DEF Byte
<1>3. Initialised \in [Cells -> Byte]
    BY <1>1, <1>2 DEF Initialised
<1>4. QED
    BY <1>1, <1>3 DEF Init, Inv, TypeOK, CleanCopyIsSaved, InForce, Saved, Pending,
       Handlers, Bit, Byte, TwoBytes

LEMMA SetupInv == Inv /\ Setup => Inv'
<1> SUFFICES ASSUME Inv, Setup PROVE Inv'
    OBVIOUS
<1>1. flash \in [Cells -> Byte]
    BY DEF Inv, TypeOK
<1>2. /\ flash[102] \in Byte /\ flash[103] \in Byte /\ flash[106] \in Byte
    BY <1>1, CellNames
<1>3. /\ Word(flash, 104) \in TwoBytes
      /\ HighByte(Word(flash, 104)) = flash[104]
      /\ LowByte(Word(flash, 104)) = flash[105]
  <2>1. 104 + 1 = 105
      OBVIOUS
  <2>2. QED
      BY <1>1, <2>1, WordInCells
<1>4. TypeOK'
    BY <1>1, <1>2, <1>3 DEF Setup, Begin, LoadLimits, TypeOK, Bit
<1>5. HighByte(threshold') = data'[104] /\ LowByte(threshold') = data'[105]
    BY <1>3 DEF Setup, Begin, LoadLimits
<1>6. InForce'
    BY <1>5 DEF Setup, Begin, LoadLimits, InForce, HighByte, LowByte
<1>7. Saved'
    BY <1>5 DEF Setup, Begin, Saved, LowByte
<1>8. QED
    BY <1>4, <1>6, <1>7 DEF Inv, CleanCopyIsSaved, Pending, Setup, Begin,
       Handlers

LEMMA FlashWriteInv == Inv /\ FlashWrite => Inv'
<1> SUFFICES ASSUME Inv, FlashWrite PROVE Inv'
    OBVIOUS
<1>1. TypeOK /\ data' \in [Cells -> Byte] /\ pc \in Handlers
    BY DEF Inv, TypeOK, FlashWrite
<1>2. TypeOK'
    BY <1>1, ReadBackType DEF FlashWrite, TypeOK, Bit
<1>3. InForce'
  <2>1. CASE pc = "cai_dat"
      BY <2>1 DEF FlashWrite, ReadBack, AfterCommit, Inv, InForce, HighByte,
         LowByte
  <2>2. CASE pc # "cai_dat"
    <3>1. pc \in AppHandlers /\ pc # "boot"
        BY <1>1, <2>2 DEF AppHandlers, Handlers
    <3>2. QED
        BY <1>1, <2>2, <3>1, ReadBackInForce DEF FlashWrite, Inv, InForce
  <2>3. QED
      BY <2>1, <2>2
<1>4. flash' = data' /\ pc' \in {"run", "boot"}
    BY <1>1, ReadBackType DEF FlashWrite
<1>5. LowByte(threshold') # flash'[105] /\ trusted' = 1 => flash'[105] = 1
    BY <1>3, <1>4 DEF InForce, HighByte, LowByte
<1>6. Saved'
    BY <1>4, <1>5 DEF Saved, LowByte
<1>7. QED
    BY <1>2, <1>3, <1>4, <1>6 DEF Inv, CleanCopyIsSaved, Pending, Handlers

LEMMA FailureInv == Inv /\ (FlashWriteFails \/ PowerCut) => Inv'
<1> SUFFICES ASSUME Inv, FlashWriteFails \/ PowerCut PROVE Inv'
    OBVIOUS
<1>1. TypeOK /\ pc \in Handlers /\ dirty = 1
    BY DEF FlashWriteFails, PowerCut, Inv, Pending
<1>2. flash' \in [Cells -> Byte] /\ dirty' = 1 /\ trusted' = 0
    BY <1>1, TornType DEF FlashWriteFails, PowerCut
<1>3. CASE FlashWriteFails
  <2>1. data' \in [Cells -> Byte]
      BY <1>1, <1>3 DEF FlashWriteFails, TypeOK
  <2>2. TypeOK'
      BY <1>1, <1>2, <1>3, <2>1, ReadBackType DEF FlashWriteFails, TypeOK, Bit
  <2>3. InForce'
    <3>1. CASE pc = "cai_dat"
        BY <1>2, <1>3, <3>1 DEF FlashWriteFails, ReadBack, AfterCommit, InForce
    <3>2. CASE pc # "cai_dat"
      <4>1. pc \in AppHandlers /\ pc # "boot"
          BY <1>1, <3>2 DEF AppHandlers, Handlers
      <4>2. QED
          BY <1>1, <1>3, <2>1, <3>2, <4>1, ReadBackInForce
             DEF FlashWriteFails, Inv, InForce
    <3>3. QED
        BY <3>1, <3>2
  <2>4. QED
      BY <1>2, <2>2, <2>3 DEF Inv, CleanCopyIsSaved, Saved, Pending
<1>4. CASE PowerCut
  <2>1. TypeOK'
      BY <1>1, <1>2, <1>4 DEF PowerCut, TypeOK, Bit, limits
  <2>2. QED
      BY <1>2, <1>4, <2>1 DEF PowerCut, Inv, CleanCopyIsSaved, InForce, Saved,
         Pending
<1>5. QED
    BY <1>3, <1>4

LEMMA ResetInv == Inv /\ Reset => Inv'
BY DEF Inv, Reset, TypeOK, CleanCopyIsSaved, InForce, Saved, Pending, Bit,
   Handlers, storage, limits, HighByte, LowByte

LEMMA SettersInv == Inv /\ (V30 \/ V32 \/ V33 \/ V34) => Inv'
<1> SUFFICES ASSUME Inv PROVE (V30 \/ V32 \/ V33 \/ V34) => Inv'
    OBVIOUS
<1>1. /\ data \in [Cells -> Byte] /\ rowIndex \in Byte
      /\ 102 \in Cells /\ 103 \in Cells /\ 104 \in Cells
      /\ 105 \in Cells /\ 106 \in Cells
    BY DEF Inv, TypeOK, Cells
<1>2. {"V30", "V32", "V33", "V34"} \subseteq AppHandlers
    BY DEF AppHandlers, Handlers
<1>3. ASSUME V30 PROVE Inv'
  <2>1. PICK v \in Minutes : WriteWord(100, v)
      BY <1>3 DEF V30
  <2>2. HighByte(v) \in Byte /\ LowByte(v) \in Byte
      BY BytesOfWord, ConfigAssumption
  <2>3. data' = [data EXCEPT ![100] = HighByte(v), ![101] = LowByte(v)]
      BY <2>1 DEF WriteWord, Write
  <2>4. data' \in [Cells -> Byte]
      BY <1>1, <2>2, <2>3
  <2>5. /\ data'[102] = data[102] /\ data'[103] = data[103]
        /\ data'[104] = data[104] /\ data'[105] = data[105]
        /\ data'[106] = data[106]
      BY <1>1, <2>3
  <2>6. QED
      BY <1>1, <1>2, <1>3, <2>4, <2>5, CommitKeepsInv DEF V30, FromApp
<1>4. ASSUME V32 PROVE Inv'
  <2>1. PICK b \in Byte : data' = [data EXCEPT ![102] = b]
      BY <1>4, StoredByte DEF V32, Write
  <2>2. /\ data' \in [Cells -> Byte]
        /\ data'[103] = data[103] /\ data'[104] = data[104]
        /\ data'[105] = data[105] /\ data'[106] = data[106]
      BY <1>1, <2>1
  <2>3. QED
      BY <1>1, <1>2, <1>4, <2>2, CommitKeepsInv DEF V32, FromApp
<1>5. ASSUME V33 PROVE Inv'
  <2>1. PICK b \in Byte : data' = [data EXCEPT ![103] = b]
      BY <1>5, StoredByte DEF V33, Write
  <2>2. /\ data' \in [Cells -> Byte]
        /\ data'[102] = data[102] /\ data'[104] = data[104]
        /\ data'[105] = data[105] /\ data'[106] = data[106]
      BY <1>1, <2>1
  <2>3. QED
      BY <1>1, <1>2, <1>5, <2>2, CommitKeepsInv DEF V33, FromApp
<1>6. ASSUME V34 PROVE Inv'
  <2>1. PICK v \in Thresholds : WriteWord(104, v)
      BY <1>6 DEF V34
  <2>2. HighByte(v) \in Byte /\ LowByte(v) \in Byte
      BY BytesOfWord, ConfigAssumption
  <2>3. data' = [data EXCEPT ![104] = HighByte(v), ![105] = LowByte(v)]
      BY <2>1 DEF WriteWord, Write
  <2>4. /\ data' \in [Cells -> Byte] /\ data'[102] = data[102]
        /\ data'[103] = data[103] /\ data'[106] = data[106]
      BY <1>1, <2>2, <2>3
  <2>5. QED
    <3>1. /\ pc = "run" /\ Commit("V34")
          /\ rowIndex' = rowIndex /\ wifiFlash' = wifiFlash
        BY <1>6 DEF V34, FromApp
    <3>2. "V34" \in AppHandlers /\ rowIndex' \in Byte
        BY <1>1, <1>2, <3>1
    <3>3. QED
        BY <2>4, <3>1, <3>2, CommitKeepsInv
<1>7. QED
    BY <1>3, <1>4, <1>5, <1>6

(* The row that is added, and the next one, fit their cell.                *)
LEMMA RowType ==
  ASSUME TypeOK
  PROVE  RowToAdd + 1 \in Byte
<1>1. rowIndex \in Nat /\ rowIndex <= 255
    BY DEF TypeOK, Byte
<1>2. TableRows \in Nat /\ TableRows <= 253
    BY ConfigAssumption
<1>3. RowToAdd \in Nat /\ RowToAdd <= 254
    BY <1>1, <1>2 DEF RowToAdd
<1>4. QED
    BY <1>3 DEF Byte

LEMMA TableInv == Inv /\ UpdateToTable => Inv'
<1> SUFFICES ASSUME Inv, UpdateToTable PROVE Inv'
    OBVIOUS
<1>1. data \in [Cells -> Byte]
    BY DEF Inv, TypeOK
<1>2. rowIndex' \in Byte
    BY RowType DEF Inv, UpdateToTable
<1>3. data' = [data EXCEPT ![106] = rowIndex']
    BY DEF UpdateToTable, Write
<1>4. /\ 102 \in Cells /\ 103 \in Cells /\ 104 \in Cells
      /\ 105 \in Cells /\ 106 \in Cells
    BY DEF Cells
<1>5. /\ data' \in [Cells -> Byte] /\ data'[106] = rowIndex'
      /\ data'[102] = data[102] /\ data'[103] = data[103]
      /\ data'[104] = data[104] /\ data'[105] = data[105]
    BY <1>1, <1>2, <1>3, <1>4
<1>6. /\ pc = "run" /\ Commit("table") /\ wifiFlash' = wifiFlash
      /\ "table" \in AppHandlers
    BY DEF UpdateToTable, FromApp, AppHandlers, Handlers
<1>7. QED
    BY <1>2, <1>5, <1>6, CommitKeepsInv

LEMMA ClearInv == Inv /\ V11 => Inv'
<1> SUFFICES ASSUME Inv, V11 PROVE Inv'
    OBVIOUS
<1>1. /\ data \in [Cells -> Byte] /\ 1 \in Byte /\ 105 \in Cells
      /\ data' = [data EXCEPT ![105] = 1]
    BY DEF Inv, TypeOK, Byte, Cells, V11, Write, ClearedCell
<1>2. /\ data' \in [Cells -> Byte] /\ data'[105] = 1
      /\ \A c \in Cells \ {105} : data'[c] = data[c]
    BY <1>1
<1>3. /\ data'[102] = data[102] /\ data'[103] = data[103]
      /\ data'[104] = data[104]
    BY <1>2 DEF Cells
<1>4. TypeOK'
    BY <1>1, <1>2 DEF V11, Inv, TypeOK, Bit, limits
<1>5. CleanCopyIsSaved'
    BY DEF V11, Unsaved, Inv, TypeOK, Bit, CleanCopyIsSaved
<1>6. InForce'
    BY <1>2, <1>3 DEF V11, FromApp, Inv, InForce, limits, HighByte, LowByte
<1>7. Saved'
    BY <1>2 DEF V11, FromApp, Inv, Saved, limits, LowByte
<1>8. QED
    BY <1>4, <1>5, <1>6, <1>7 DEF V11, FromApp, Inv, Pending, Handlers

(* A form that is not overlong touches no cell from 100 on.                *)
LEMMA FormInv == Inv /\ CaiDat => Inv'
<1> SUFFICES ASSUME Inv, CaiDat PROVE Inv'
    OBVIOUS
<1>1. PICK n \in Overruns : SaveForm(n)
    BY DEF CaiDat
<1>2. PICK w \in Credentials, ch \in Characters :
        data' = [c \in Cells |-> IF c = 0 THEN w
                                ELSE IF c < 100 + n THEN ch ELSE data[c]]
    BY <1>1 DEF SaveForm, Write
<1>3. w \in Byte /\ ch \in Byte /\ data \in [Cells -> Byte]
    BY ConfigAssumption DEF Inv, TypeOK
<1>4. data' \in [Cells -> Byte]
    BY <1>2, <1>3
<1>5. Blank \in [Cells -> Byte]
    BY DEF Blank, Empty, Byte
<1>6. TypeOK'
    BY <1>1, <1>4, <1>5 DEF CaiDat, SaveForm, Inv, TypeOK, Bit, Handlers, limits
<1>7. dirty' = 1 /\ pc' \in {"cai_dat", "boot"}
    BY <1>1 DEF SaveForm
<1>8. InForce'
  <2>1. CASE trusted' = 1
    <3>1. n = 0 /\ trusted = 1
        BY <1>1, <2>1, ConfigAssumption DEF SaveForm
    <3>2. data'[102] = data[102] /\ data'[103] = data[103]
        BY <1>2, <3>1 DEF Cells
    <3>3. data'[104] = data[104] /\ data'[105] = data[105]
        BY <1>2, <3>1 DEF Cells
    <3>4. data'[106] = data[106]
        BY <1>2, <3>1 DEF Cells
    <3>5. QED
        BY <3>1, <3>2, <3>3, <3>4 DEF CaiDat, Inv, InForce, limits, HighByte,
           LowByte
  <2>2. CASE trusted' # 1
      BY <1>7, <2>2 DEF InForce
  <2>3. QED
      BY <2>1, <2>2
<1>9. Saved'
    BY <1>1 DEF SaveForm, Saved
<1>10. QED
    BY <1>6, <1>7, <1>8, <1>9 DEF Inv, CleanCopyIsSaved, Pending

-----------------------------------------------------------------------------
LEMMA NextInv == Inv /\ [Next]_vars => Inv'
<1> SUFFICES ASSUME Inv, [Next]_vars PROVE Inv'
    OBVIOUS
<1>1. CASE UNCHANGED vars
    BY <1>1 DEF vars, storage, limits, Inv, TypeOK, CleanCopyIsSaved, InForce,
       Saved, Pending, HighByte, LowByte
<1>2. QED
    BY <1>1, SetupInv, ResetInv, FlashWriteInv, FailureInv, SettersInv,
       TableInv, ClearInv, FormInv DEF Next

LEMMA InvHolds == Spec => []Inv
BY InitInv, NextInv, PTL DEF Spec

(* The variables keep their types, whatever is sent, cut or fails.         *)
THEOREM StoreTypes == Spec => []TypeOK
<1>1. Inv => TypeOK
    BY DEF Inv
<1>2. QED
    BY <1>1, InvHolds, PTL

(* commit() never skips a sector that differs from the copy.               *)
THEOREM NothingUnsaved == Spec => []CleanCopyIsSaved
<1>1. Inv => CleanCopyIsSaved
    BY DEF Inv
<1>2. QED
    BY <1>1, InvHolds, PTL

(* Between handlers the Center works with the settings of the copy, but    *)
(* for what V11 leaves behind.                                             *)
THEOREM SettingsTakeEffect == Spec => []SettingsInForce
<1>1. Inv => SettingsInForce
    BY DEF Inv, InForce, SettingsInForce
<1>2. QED
    BY <1>1, InvHolds, PTL

(* A boot keeps every setting after any number of complete commits, but    *)
(* for what V11 leaves behind.                                             *)
THEOREM BootsKeepSettings == Spec => SettingsSurvive
<1>1. Inv /\ [Next]_vars => [BootKeepsSettings]_vars
  <2> SUFFICES ASSUME Inv, Setup, pc = "boot", trusted = 1
               PROVE  BootKeepsSettings
      BY DEF Next, Setup, Reset, FlashWrite, FlashWriteFails, PowerCut, V11,
         V30, V32, V33, V34, UpdateToTable, CaiDat, FromApp, Handlers,
         BootKeepsSettings
  <2>1. /\ flash \in [Cells -> Byte] /\ data \in [Cells -> Byte]
        /\ flash[100] = data[100] /\ flash[101] = data[101]
        /\ flash[102] = data[102] /\ flash[103] = data[103]
        /\ flash[104] = data[104] /\ flash[106] = data[106]
        /\ flash[105] # data[105] => data[105] = 1
      BY DEF Inv, TypeOK, Saved, Cells
  <2>2. /\ Word(flash, 100) = Word(data, 100)
        /\ HighByte(Word(flash, 104)) = flash[104]
        /\ LowByte(Word(flash, 104)) = flash[105]
    <3>1. 100 + 1 = 101 /\ 104 + 1 = 105
        OBVIOUS
    <3>2. QED
        BY <2>1, <3>1, WordInCells DEF Word
  <2>3. /\ downLimit = data[102] /\ upLimit = data[103]
        /\ HighByte(threshold) = data[104]
        /\ LowByte(threshold) # flash[105] => flash[105] = 1
        /\ rowIndex # data[106] => rowIndex = 1
      BY DEF Inv, InForce, Saved
  <2>4. /\ data' = flash /\ downLimit' = flash[102] /\ upLimit' = flash[103]
        /\ threshold' = Word(flash, 104) /\ rowIndex' = flash[106]
      BY DEF Setup, Begin, LoadLimits
  <2>5. HighByte(threshold') = flash[104] /\ LowByte(threshold') = flash[105]
      BY <2>2, <2>4
  <2>6. Word(data', 100) = Word(data, 100)
      BY <2>2, <2>4
  <2>7. QED
      BY <2>1, <2>3, <2>4, <2>5, <2>6 DEF BootKeepsSettings
<1>2. QED
    BY <1>1, InvHolds, PTL DEF Spec, SettingsSurvive

-----------------------------------------------------------------------------
(* A value put into two cells is the value read from them.                 *)
LEMMA WordWritten ==
  ASSUME NEW m \in [Cells -> Byte], NEW v \in TwoBytes, NEW r,
         r = [m EXCEPT ![100] = HighByte(v), ![100 + 1] = LowByte(v)]
  PROVE  Word(r, 100) = v
<1>1. 100 \in Cells /\ 101 \in Cells /\ 100 + 1 = 101
    BY DEF Cells
<1>2. r[100] = HighByte(v) /\ r[101] = LowByte(v)
    BY <1>1
<1>3. v \in Int
    BY DEF TwoBytes
<1>4. v = (v \div 256) * 256 + (v % 256)
    BY <1>3
<1>5. Word(r, 100) = HighByte(v) * 256 + LowByte(v)
    BY <1>1, <1>2 DEF Word
<1>6. Word(r, 100) = (v \div 256) * 256 + (v % 256)
    BY <1>5 DEF HighByte, LowByte
<1>7. QED
    BY <1>4, <1>6

(* The unlock time changes by V30 alone: no other handler writes its       *)
(* cells, and a boot finds them as they were.                              *)
THEOREM UnlockTimeIsTheApps == Spec => UnlockTimeKept
<1>1. Inv /\ [Next]_vars => [OnlyV30Changes]_vars
  <2> SUFFICES ASSUME Inv, [Next]_vars, trusted = 1, trusted' = 1,
                      UnlockTime' # UnlockTime
               PROVE  FromApp /\ UnlockTime' \in Minutes
      BY DEF OnlyV30Changes
  <2>1. /\ data \in [Cells -> Byte] /\ flash \in [Cells -> Byte]
        /\ 100 \in Cells /\ 101 \in Cells /\ 100 + 1 = 101
      BY DEF Inv, TypeOK, Cells
  <2>2. data'[100] # data[100] \/ data'[101] # data[101]
      BY <2>1 DEF UnlockTime, Word
  <2>3. CASE V30
    <3>1. PICK v \in Minutes :
            data' = [data EXCEPT ![100] = HighByte(v), ![100 + 1] = LowByte(v)]
        BY <2>3 DEF V30, WriteWord, Write
    <3>2. UnlockTime' = v
        BY <2>1, <3>1, WordWritten, ConfigAssumption DEF UnlockTime, Word
    <3>3. QED
        BY <2>3, <3>2 DEF V30
  <2>4. CASE Setup
      BY <2>1, <2>2, <2>4 DEF Setup, Begin, Inv, Saved
  <2>5. CASE V32 \/ V33
      BY <2>1, <2>2, <2>5 DEF V32, V33, Write
  <2>6. CASE V34
    <3>1. PICK v \in Thresholds :
            data' = [data EXCEPT ![104] = HighByte(v), ![104 + 1] = LowByte(v)]
        BY <2>6 DEF V34, WriteWord, Write
    <3>2. QED
        BY <2>1, <2>2, <3>1
  <2>7. CASE V11 \/ UpdateToTable
      BY <2>1, <2>2, <2>7 DEF V11, UpdateToTable, Write, ClearedCell
  <2>8. CASE CaiDat
    <3>1. PICK n \in Overruns : SaveForm(n)
        BY <2>8 DEF CaiDat
    <3>2. PICK w \in Credentials, ch \in Characters :
            data' = [c \in Cells |-> IF c = 0 THEN w
                                    ELSE IF c < 100 + n THEN ch ELSE data[c]]
        BY <3>1 DEF SaveForm, Write
    <3>3. n = 0
        BY <3>1, ConfigAssumption DEF SaveForm
    <3>4. QED
        BY <2>1, <2>2, <3>2, <3>3
  <2>9. CASE UNCHANGED data
      BY <2>2, <2>9
  <2>10. QED
      BY <2>3, <2>4, <2>5, <2>6, <2>7, <2>8, <2>9
      DEF Next, Reset, FlashWrite, FlashWriteFails, PowerCut, storage, vars
<1>2. QED
    BY <1>1, InvHolds, PTL DEF Spec, UnlockTimeKept

-----------------------------------------------------------------------------
(* No cell for the row is ever 0: no form writes a 0 from 100 on, and what *)
(* is blank is not 0.                                                      *)
RowNotZero == rowIndex # 0 /\ data[106] # 0 /\ flash[106] # 0

LEMMA RowNotZeroKept == TypeOK /\ RowNotZero /\ [Next]_vars => RowNotZero'
<1> SUFFICES ASSUME TypeOK, RowNotZero, [Next]_vars PROVE RowNotZero'
    OBVIOUS
<1>1. /\ 106 \in Cells /\ Blank[106] # 0
      /\ \A n \in Cells : Torn(n)[106] # 0
    BY DEF Cells, Blank, Empty, Torn, RowNotZero
<1>2. data \in [Cells -> Byte] /\ flash \in [Cells -> Byte]
    BY DEF TypeOK
<1>3. RowToAdd + 1 # 0
    BY RowType DEF RowToAdd, TypeOK, Byte
<1>4. CASE UNCHANGED vars
    BY <1>4 DEF vars, storage, RowNotZero
<1>5. CASE Setup
    BY <1>5 DEF Setup, Begin, RowNotZero
<1>6. CASE Reset
    BY <1>6 DEF Reset, storage, RowNotZero
<1>7. CASE FlashWrite
    BY <1>7 DEF FlashWrite, RowNotZero
<1>8. CASE FlashWriteFails
    BY <1>1, <1>8 DEF FlashWriteFails, RowNotZero
<1>9. CASE PowerCut
    BY <1>1, <1>9 DEF PowerCut, RowNotZero
<1>10. CASE V11
    BY <1>2, <1>10 DEF V11, Write, ClearedCell, RowNotZero, Cells
<1>11. ASSUME NEW h, Commit(h) PROVE flash' = flash \/ flash' = Blank
    BY <1>11 DEF Commit
<1>12. CASE V30
  <2>1. PICK v \in Minutes :
          data' = [data EXCEPT ![100] = HighByte(v), ![100 + 1] = LowByte(v)]
      BY <1>12 DEF V30, WriteWord, Write
  <2>2. data'[106] = data[106]
      BY <1>1, <1>2, <2>1
  <2>3. QED
      BY <1>1, <1>11, <1>12, <2>2 DEF V30, RowNotZero
<1>13. CASE V32 \/ V33
  <2>1. data'[106] = data[106]
      BY <1>1, <1>2, <1>13 DEF V32, V33, Write
  <2>2. QED
      BY <1>1, <1>11, <1>13, <2>1 DEF V32, V33, RowNotZero
<1>14. CASE V34
  <2>1. PICK v \in Thresholds :
          data' = [data EXCEPT ![104] = HighByte(v), ![104 + 1] = LowByte(v)]
      BY <1>14 DEF V34, WriteWord, Write
  <2>2. data'[106] = data[106]
      BY <1>1, <1>2, <2>1
  <2>3. QED
      BY <1>1, <1>11, <1>14, <2>2 DEF V34, RowNotZero
<1>15. CASE UpdateToTable
  <2>1. data'[106] = rowIndex' /\ rowIndex' = RowToAdd + 1
      BY <1>1, <1>2, <1>15 DEF UpdateToTable, Write
  <2>2. QED
      BY <1>1, <1>3, <1>11, <1>15, <2>1 DEF UpdateToTable, RowNotZero
<1>16. CASE CaiDat
  <2>1. PICK n \in Overruns, w \in Credentials, ch \in Characters :
          data' = [c \in Cells |-> IF c = 0 THEN w
                                  ELSE IF c < 100 + n THEN ch ELSE data[c]]
      BY <1>16 DEF CaiDat, SaveForm, Write
  <2>2. data'[106] = ch \/ data'[106] = data[106]
      BY <1>1, <2>1
  <2>3. ch # 0
      BY ConfigAssumption
  <2>4. flash' = flash \/ flash' = Blank
      BY <1>16 DEF CaiDat, SaveForm
  <2>5. QED
      BY <1>1, <1>16, <2>2, <2>3, <2>4 DEF CaiDat, RowNotZero
<1>17. QED
    BY <1>4, <1>5, <1>6, <1>7, <1>8, <1>9, <1>10, <1>12, <1>13, <1>14, <1>15,
       <1>16 DEF Next

(* Every alarm goes into a row of the table, whatever the sector has been  *)
(* through.                                                                *)
THEOREM AlarmsHaveRows == Spec => []RowsExist
<1>1. Init => RowNotZero
    BY DEF Init, RowNotZero, Blank, Initialised, Empty, Cells
<1>2. TypeOK /\ RowNotZero => RowsExist
  <2> SUFFICES ASSUME TypeOK, RowNotZero PROVE RowToAdd \in 1..TableRows
      BY DEF RowsExist
  <2>1. rowIndex \in Nat /\ rowIndex >= 1
      BY DEF TypeOK, Byte, RowNotZero
  <2>2. TableRows \in Nat /\ TableRows >= 1
      BY ConfigAssumption
  <2>3. QED
      BY <2>1, <2>2 DEF RowToAdd
<1>3. QED
    BY <1>1, <1>2, RowNotZeroKept, StoreTypes, PTL DEF Spec
=============================================================================
