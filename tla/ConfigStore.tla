----------------------------- MODULE ConfigStore -----------------------------
(***************************************************************************)
(* The settings of the Center: a flash sector, the EEPROM library's copy   *)
(* of it in RAM, and the variables setup() fills from that copy.  The      *)
(* app's handlers write the RAM copy and commit it; commit() erases the    *)
(* sector and then writes it, and the power may go in between.             *)
(*                                                                         *)
(* A cell is a byte.  Cells 0 to 95, the WiFi name and password, are one   *)
(* value here, that of cell 0.  The handlers run one at a time, in the     *)
(* loop; the button's interrupt touches no cell.                           *)
(***************************************************************************)
EXTENDS Integers

CONSTANTS Minutes, Limits, Thresholds,   \* what V30, V32 and V33, V34 send
          Credentials, Characters,  \* what the WiFi form sends: a pair, a letter
          TableRows,    \* rows of the alarm table, 20 in the code
          Overruns      \* cells from 100 on that an overlong form reaches

Byte == 0..255
TwoBytes == {v \in Nat : v < 65536}
Empty == 255                    \* a cell of an erased sector
Cells == {0} \cup 100..106

ASSUME ConfigAssumption ==
  /\ Minutes \subseteq TwoBytes
  /\ Thresholds \subseteq TwoBytes
  /\ Limits \subseteq Nat
  /\ Credentials \subseteq Byte \ {0, Empty}
  /\ Characters \subseteq Byte \ {0}
  /\ TableRows \in 1..253
  /\ Overruns \subseteq 0..7

VARIABLES
  pc,         \* "boot", "run", or the handler whose commit has erased
  flash,      \* the sector
  data,       \* _data of the library
  dirty,      \* _dirty of the library
  downLimit, upLimit, threshold, rowIndex,   \* read from cells 102 to 106
  wifiFlash,  \* setup() found the network: the app can reach the handlers
  trusted     \* history: no commit failed or was cut and no form was overlong
              \* since the last boot or the last complete commit

storage == <<flash, data, dirty>>
limits == <<downLimit, upLimit, threshold>>
vars == <<pc, storage, limits, rowIndex, wifiFlash, trusted>>

Bit == {0, 1}
Handlers == {"V30", "V32", "V33", "V34", "table", "cai_dat"}

(* A number that a handler keeps in two cells, high byte first.            *)
Word(m, c) == m[c] * 256 + m[c + 1]
HighByte(v) == v \div 256
LowByte(v) == v % 256

Blank == [c \in Cells |-> Empty]

(* write_EEPROM.c, run on a new board.                                     *)
Initialised == [Blank EXCEPT ![105] = 1]

Init ==
  /\ pc = "boot" /\ flash \in {Blank, Initialised}
  /\ data = flash /\ dirty = 0
  /\ downLimit = 0 /\ upLimit = 0 /\ threshold = 0 /\ rowIndex = 1
  /\ wifiFlash = 0 /\ trusted = 0

-----------------------------------------------------------------------------
(* begin() loads the copy.                                                 *)
Begin == data' = flash /\ dirty' = 0

(* Mutant: the two limits are loaded from each other's cell.               *)
LoadLimitsSwapped ==
  /\ downLimit' = flash[103] /\ upLimit' = flash[102]
  /\ threshold' = Word(flash, 104)

LoadLimits ==
  /\ downLimit' = flash[102] /\ upLimit' = flash[103]
  /\ threshold' = Word(flash, 104)

(* setup(): the network may be found only if the sector names one.         *)
Setup ==
  /\ pc = "boot" /\ pc' = "run"
  /\ Begin /\ LoadLimits /\ rowIndex' = flash[106]
  /\ wifiFlash' \in (IF flash[0] \in Credentials THEN Bit ELSE {0})
  /\ trusted' = 1 /\ UNCHANGED flash

(* ESP.reset() of a lost network or a silent Relay, or the power goes.     *)
Reset ==
  /\ pc = "run" /\ pc' = "boot"
  /\ UNCHANGED <<storage, limits, rowIndex, wifiFlash, trusted>>

-----------------------------------------------------------------------------
(* Mutant: cai_dat() returns to the loop when it has saved.                *)
AfterCommitStays(h) == "run"

AfterCommit(h) == IF h = "cai_dat" THEN "boot" ELSE "run"

(* The rest of handler h, after its commit: the variable it reads back.    *)
ReadBack(h) ==
  /\ pc' = AfterCommit(h)
  /\ downLimit' = IF h = "V32" THEN data'[102] ELSE downLimit
  /\ upLimit' = IF h = "V33" THEN data'[103] ELSE upLimit
  /\ threshold' = IF h = "V34" THEN Word(data', 104) ELSE threshold

(* EEPROM.write() of the cells of m.                                       *)
Write(m) == data' = m

(* Mutant: only what this handler changes is saved.                        *)
UnsavedForgotten == data' # data

(* _dirty after it: a cell that has the value already leaves it as it is.  *)
Unsaved == dirty = 1 \/ data' # data

(* commit() by handler h: nothing to save, the sector is erased, or the    *)
(* erasure fails, which no handler looks at.                               *)
Commit(h) ==
  \/ ~Unsaved /\ dirty' = 0 /\ ReadBack(h) /\ UNCHANGED <<flash, trusted>>
  \/ Unsaved /\ dirty' = 1 /\ pc' = h /\ flash' = Blank
     /\ UNCHANGED <<limits, trusted>>
  \/ Unsaved /\ dirty' = 1 /\ ReadBack(h) /\ trusted' = 0 /\ UNCHANGED flash

(* commit() after the erasure: the write succeeds,                         *)
FlashWrite ==
  /\ pc \in Handlers
  /\ flash' = data /\ dirty' = 0 /\ UNCHANGED data
  /\ ReadBack(pc)
  /\ trusted' = IF pc = "cai_dat" THEN trusted ELSE 1
  /\ UNCHANGED <<rowIndex, wifiFlash>>

(* or stops before cell n, with an error or with the power.                *)
Torn(n) == [c \in Cells |-> IF c < n THEN data[c] ELSE Empty]

FlashWriteFails ==
  /\ pc \in Handlers
  /\ \E n \in Cells : flash' = Torn(n)
  /\ UNCHANGED <<data, dirty, rowIndex, wifiFlash>>
  /\ ReadBack(pc) /\ trusted' = 0

PowerCut ==
  /\ pc \in Handlers /\ pc' = "boot"
  /\ \E n \in Cells : flash' = Torn(n)
  /\ trusted' = 0
  /\ UNCHANGED <<data, dirty, limits, rowIndex, wifiFlash>>

-----------------------------------------------------------------------------
(* The app's handlers are called by Blynk.run(), which needs the network.  *)
FromApp == pc = "run" /\ wifiFlash = 1

WriteWord(c, v) ==
  Write([data EXCEPT ![c] = HighByte(v), ![c + 1] = LowByte(v)])

V30 ==
  /\ FromApp
  /\ \E v \in Minutes : WriteWord(100, v)
  /\ Commit("V30") /\ UNCHANGED <<rowIndex, wifiFlash>>

(* A float that does not fit the byte: the conversion may wrap or saturate.*)
AsByte(v) == IF v \in Byte THEN {v} ELSE {LowByte(v), 255}

V32 ==
  /\ FromApp
  /\ \E v \in Limits : \E b \in AsByte(v) : Write([data EXCEPT ![102] = b])
  /\ Commit("V32") /\ UNCHANGED <<rowIndex, wifiFlash>>

V33 ==
  /\ FromApp
  /\ \E v \in Limits : \E b \in AsByte(v) : Write([data EXCEPT ![103] = b])
  /\ Commit("V33") /\ UNCHANGED <<rowIndex, wifiFlash>>

V34 ==
  /\ FromApp
  /\ \E v \in Thresholds : WriteWord(104, v)
  /\ Commit("V34") /\ UNCHANGED <<rowIndex, wifiFlash>>

(* Mutant: the cell below the word that is really cleared.                 *)
ClearedCellLow == 101

(* V11 clears the alarm table: no commit, and cell 105, not 106.           *)
ClearedCell == 105

V11 ==
  /\ FromApp /\ rowIndex' = 1
  /\ Write([data EXCEPT ![ClearedCell] = 1])
  /\ dirty' = IF Unsaved THEN 1 ELSE 0
  /\ UNCHANGED <<pc, flash, limits, wifiFlash, trusted>>

(* Mutants: the row never wraps; the table is given one row too many.      *)
RowToAddUnbounded == rowIndex

RowToAddTooLate == IF rowIndex >= TableRows + 2 THEN 1 ELSE rowIndex

RowToAdd == IF rowIndex >= TableRows + 1 THEN 1 ELSE rowIndex

(* updateToTable(), called by updateWebsocket() for detected alcohol.      *)
UpdateToTable ==
  /\ FromApp
  /\ rowIndex' = RowToAdd + 1
  /\ Write([data EXCEPT ![106] = rowIndex'])
  /\ Commit("table") /\ UNCHANGED wifiFlash

(* cai_dat() of a complete form: its zeroes make the copy dirty whatever   *)
(* follows, and the first n cells from 100 on get what is too long.        *)
SaveForm(n) ==
  /\ \E w \in Credentials, ch \in Characters :
       Write([c \in Cells |-> IF c = 0 THEN w
                              ELSE IF c < 100 + n THEN ch ELSE data[c]])
  /\ dirty' = 1
  /\ \/ /\ pc' = "cai_dat" /\ flash' = Blank
        /\ trusted' = IF n > 0 THEN 0 ELSE trusted
     \/ pc' = "boot" /\ trusted' = 0 /\ UNCHANGED flash

(* An incomplete form only resets, as Reset does.                          *)
CaiDat ==
  /\ pc = "run" /\ \E n \in Overruns : SaveForm(n)
  /\ UNCHANGED <<limits, rowIndex, wifiFlash>>

-----------------------------------------------------------------------------
Next ==
  \/ Setup \/ Reset \/ FlashWrite \/ FlashWriteFails \/ PowerCut
  \/ V11 \/ V30 \/ V32 \/ V33 \/ V34 \/ UpdateToTable \/ CaiDat

Spec == Init /\ [][Next]_vars

-----------------------------------------------------------------------------
(* The types of the variables; limits are bytes, the threshold a word.     *)
TypeOK ==
  /\ pc \in {"boot", "run"} \cup Handlers
  /\ flash \in [Cells -> Byte] /\ data \in [Cells -> Byte]
  /\ dirty \in Bit /\ wifiFlash \in Bit /\ trusted \in Bit
  /\ downLimit \in Byte /\ upLimit \in Byte /\ threshold \in TwoBytes
  /\ rowIndex \in Byte

(* A copy that is not dirty is saved, so that a commit that skips the      *)
(* sector loses nothing: also after an erasure or a write that failed,     *)
(* whose result no handler looks at.                                       *)
CleanCopyIsSaved == dirty = 0 => flash = data

(* Between handlers the limits in use are those of the copy; so is the     *)
(* threshold, but for a low byte that V11 has set to 1, and the row, but   *)
(* for one that V11 has set back.  What an overlong form wrote is never    *)
(* used without a boot.                                                    *)
SettingsInForce ==
  pc = "run" =>
    /\ downLimit = data[102] /\ upLimit = data[103]
    /\ HighByte(threshold) = data[104]
    /\ LowByte(threshold) # data[105] => data[105] = 1
    /\ rowIndex # data[106] => rowIndex = 1

(* Every alarm is written into a row of the table, also from a sector that *)
(* is blank or torn.                                                       *)
RowsExist == pc = "run" => RowToAdd \in 1..TableRows

(* A boot changes no setting, unless a commit has failed or was cut or a   *)
(* form was overlong; only V11 leaves a low byte of 1 in the threshold and *)
(* a row that is not saved.                                                *)
BootKeepsSettings ==
  pc = "boot" /\ pc' = "run" /\ trusted = 1 =>
    /\ downLimit' = downLimit /\ upLimit' = upLimit
    /\ Word(data', 100) = Word(data, 100)
    /\ HighByte(threshold') = HighByte(threshold)
    /\ LowByte(threshold') # LowByte(threshold) => LowByte(threshold') = 1
    /\ rowIndex' # rowIndex => rowIndex = 1

SettingsSurvive == [][BootKeepsSettings]_vars

(* The unlock time that an update reads from the copy is the one Interlock *)
(* takes it for: only the app changes it, to a value it sent, however      *)
(* handlers, forms and boots follow each other, until something fails.     *)
UnlockTime == Word(data, 100)

OnlyV30Changes ==
  trusted = 1 /\ trusted' = 1 /\ UnlockTime' # UnlockTime =>
    FromApp /\ UnlockTime' \in Minutes

UnlockTimeKept == [][OnlyV30Changes]_vars
=============================================================================
