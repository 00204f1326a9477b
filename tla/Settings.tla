------------------------------ MODULE Settings ------------------------------
(***************************************************************************)
(* The persistent parameters: settings.c over eeprom.c over i2c.c, and the *)
(* part of main() that boots them.                                         *)
(*                                                                         *)
(* The EEPROM zone of mb_table (registers 100..149) is written to the chip *)
(* page by page, with a CRC-16 of the whole zone written last.  Only that  *)
(* CRC tells a usable image from a half-written one.  The CRC is modelled  *)
(* as injective: the CRC field holds the image it was computed from, or    *)
(* NoImage when it matches no image (blank or half-written).               *)
(*                                                                         *)
(* Actors: main() at boot and task_ui afterwards (never both), which run   *)
(* load and save; the Modbus master, whose writes land in mb_table between *)
(* any two steps of a save because task_modbus has the higher priority;    *)
(* the I2C bus, which may fail any transfer; the power supply.             *)
(***************************************************************************)
EXTENDS Naturals

CONSTANTS
  NPages,      \* EEPROM pages of the zone: 100 bytes in pages of 32, so 4
  ParamPages,  \* the pages that hold parameters; the others are spare
  Values,      \* what one page of the zone may hold
  Default,     \* a page of factory defaults
  Zero,        \* a page of mb_table after modbus_init()
  NoImage,     \* a CRC field no image matches
  Envs         \* the environments: sets of Disturbances

Disturbances == {"i2c", "power", "master"}
Pages  == 0 .. NPages - 1
Images == [Pages -> Values]

ASSUME ConfigAssumption ==
  /\ NPages \in Nat \ {0}
  /\ ParamPages \subseteq Pages
  /\ Default \in Values
  /\ Zero \in Values
  /\ NoImage \notin Images
  /\ Envs \subseteq SUBSET Disturbances

VARIABLES
  chip,     \* the data pages of the AT24C64
  stamp,    \* its CRC field
  ram,      \* the EEPROM zone of mb_table
  pc,       \* where the boot, or the UI task, is
  idx,      \* the page the loop of eeprom_write_regs is at
  sum,      \* the local variable crc of eeprom_write_regs
  caller,   \* who called settings_save
  ev,       \* bits EE_ERR, EE_RST, EE_WST of SYS_EV
  hwEr,     \* bit EE_ER of HW_ER
  env       \* what disturbs this behaviour

vars == <<chip, stamp, ram, pc, idx, sum, caller, ev, hwEr, env>>

Saving == {"crc", "page", "stamp"}
Blank  == [p \in Pages |-> Zero]

(* apply_defaults_to_mb_table: spare bytes keep what they hold.            *)
Defaults(image) ==
  [p \in Pages |-> IF p \in ParamPages THEN Default ELSE image[p]]

(* eeprom_check_crc when the transfer succeeds.  (Mutant: the CRC checked  *)
(* over another length than the one written, the bug of an earlier version *)
(* that eeprom.c:105-109 recalls.)                                         *)
CrcMatchesShort ==
  stamp # NoImage /\ \A p \in Pages \ {NPages - 1} : chip[p] = stamp[p]
CrcMatches == chip = stamp

-----------------------------------------------------------------------------
Init ==
  /\ chip \in Images
  /\ stamp \in {chip, NoImage}
  /\ ram = Blank /\ sum = Blank
  /\ pc = "off" /\ caller = "none" /\ idx = 0
  /\ ev = {} /\ hwEr = {}
  /\ env \in Envs

(* Entering settings_save, up to the first byte of crc16.                  *)
BeginSave(who) == pc' = "crc" /\ idx' = 0 /\ sum' = Blank /\ caller' = who

(* main(): the table is cleared, then the factory combo or settings_load.  *)
BootFactory ==
  /\ pc = "off"
  /\ ram' = Defaults(Blank)
  /\ ev' = {} /\ hwEr' = {}
  /\ BeginSave("factory")
  /\ UNCHANGED <<chip, stamp>>

BootLoad ==
  /\ pc = "off"
  /\ pc' = "check"
  /\ ram' = Blank
  /\ ev' = {} /\ hwEr' = {}
  /\ UNCHANGED <<chip, stamp, idx, sum, caller>>

-----------------------------------------------------------------------------
(* settings_load                                                           *)

CheckOk ==
  /\ pc = "check"
  /\ CrcMatches
  /\ pc' = "read"
  /\ UNCHANGED <<chip, stamp, ram, idx, sum, caller, ev, hwEr>>

(* eeprom_check_crc returns -1 for a mismatch and for an I2C error alike.  *)
(* (Mutant: the load retries until the CRC matches.)                       *)
CheckFailsRetries ==
  pc = "check" /\ (~CrcMatches \/ "i2c" \in env) /\ UNCHANGED vars
CheckFails ==
  /\ pc = "check"
  /\ ~CrcMatches \/ "i2c" \in env
  /\ ram' = Defaults(ram)
  /\ ev' = ev \cup {"EE_ERR"} /\ hwEr' = {"EE_ER"}
  /\ BeginSave("load")
  /\ UNCHANGED <<chip, stamp>>

ReadOk ==
  /\ pc = "read"
  /\ ram' = chip
  /\ ev' = ev \cup {"EE_RST"}
  /\ pc' = "run"
  /\ UNCHANGED <<chip, stamp, idx, sum, caller, hwEr>>

(* The transfer stops after k pages already copied into mb_table.          *)
ReadFails ==
  /\ pc = "read" /\ "i2c" \in env
  /\ \E k \in 0 .. NPages :
       ram' = Defaults([p \in Pages |-> IF p < k THEN chip[p] ELSE ram[p]])
  /\ ev' = ev \cup {"EE_ERR"} /\ hwEr' = {"EE_ER"}
  /\ pc' = "run"
  /\ UNCHANGED <<chip, stamp, idx, sum, caller>>

-----------------------------------------------------------------------------
(* settings_save, eeprom_write_regs                                        *)

SaveSucceeds == /\ pc' = "run" /\ idx' = 0 /\ sum' = Blank /\ caller' = "none"
                /\ ev' = ev \cup {"EE_WST"} /\ hwEr' = {}

(* (Mutant: both outcomes clear the error bit.)                            *)
SaveFailsQuietly == SaveSucceeds
SaveFails    == /\ pc' = "run" /\ idx' = 0 /\ sum' = Blank /\ caller' = "none"
                /\ ev' = ev \cup {"EE_ERR"} /\ hwEr' = {"EE_ER"}

(* The loop of either phase moves on to the next page, or to the phase     *)
(* after it.  (Mutants: one page too few, one too many.)                   *)
NextPageShort(after) ==
  IF idx + 2 < NPages THEN pc' = pc /\ idx' = idx + 1 ELSE pc' = after /\ idx' = 0
NextPageLong(after) ==
  IF idx < NPages THEN pc' = pc /\ idx' = idx + 1 ELSE pc' = after /\ idx' = 0
NextPage(after) ==
  IF idx + 1 < NPages THEN pc' = pc /\ idx' = idx + 1 ELSE pc' = after /\ idx' = 0

SumPage ==
  /\ pc = "crc"
  /\ sum' = [sum EXCEPT ![idx] = ram[idx]]
  /\ NextPage("page")
  /\ UNCHANGED <<chip, stamp, ram, caller, ev, hwEr>>

(* (Mutant: the data pointer is not advanced.)                             *)
PageWrittenFromStart ==
  /\ pc = "page"
  /\ chip' = [chip EXCEPT ![idx] = ram[0]]
  /\ NextPage("stamp")
  /\ UNCHANGED <<stamp, ram, sum, caller, ev, hwEr>>
PageWritten ==
  /\ pc = "page"
  /\ chip' = [chip EXCEPT ![idx] = ram[idx]]
  /\ NextPage("stamp")
  /\ UNCHANGED <<stamp, ram, sum, caller, ev, hwEr>>

(* A time-out ends in a STOP, which makes the chip store the bytes that    *)
(* did arrive: none, some or all of the page.                              *)
PageFails ==
  /\ pc = "page" /\ "i2c" \in env
  /\ \E v \in Values : chip' = [chip EXCEPT ![idx] = v]
  /\ SaveFails
  /\ UNCHANGED <<stamp, ram>>

StampWritten ==
  /\ pc = "stamp"
  /\ stamp' = sum
  /\ SaveSucceeds
  /\ UNCHANGED <<chip, ram>>

StampFails ==
  /\ pc = "stamp" /\ "i2c" \in env
  /\ stamp' \in {stamp, sum, NoImage}
  /\ SaveFails
  /\ UNCHANGED <<chip, ram>>

-----------------------------------------------------------------------------
(* The running system                                                      *)

(* A short press of PRG in an editor: the draft goes to mb_table only.     *)
EditorCommit(p, v) ==
  /\ pc = "run"
  /\ ram' = [ram EXCEPT ![p] = v]
  /\ UNCHANGED <<chip, stamp, pc, idx, sum, caller, ev, hwEr>>

(* A long press of PRG in an editor: the draft, then settings_save.        *)
EditorCommitAndSave(p, v) ==
  /\ pc = "run"
  /\ ram' = [ram EXCEPT ![p] = v]
  /\ BeginSave("menu")
  /\ UNCHANGED <<chip, stamp, ev, hwEr>>

(* Function code 6 or 16 on the zone.  The scheduler runs only after boot. *)
MasterWrite(p, v) ==
  /\ "master" \in env
  /\ pc = "run" \/ (pc \in Saving /\ caller = "menu")
  /\ ram' = [ram EXCEPT ![p] = v]
  /\ UNCHANGED <<chip, stamp, pc, idx, sum, caller, ev, hwEr>>

(* Power fails, or the watchdog resets the CPU.  A page or a CRC field in  *)
(* its write cycle is left with anything.                                  *)
PowerLoss ==
  /\ pc # "off" /\ "power" \in env
  /\ \/ pc = "page" /\ UNCHANGED stamp
        /\ \E v \in Values : chip' = [chip EXCEPT ![idx] = v]
     \/ pc = "stamp" /\ stamp' = NoImage /\ UNCHANGED chip
     \/ UNCHANGED <<chip, stamp>>
  /\ ram' = Blank /\ sum' = Blank
  /\ pc' = "off" /\ caller' = "none" /\ idx' = 0
  /\ ev' = {} /\ hwEr' = {}

-----------------------------------------------------------------------------
LoadStep == CheckOk \/ CheckFails \/ ReadOk \/ ReadFails
SaveStep == SumPage \/ PageWritten \/ PageFails \/ StampWritten \/ StampFails
Next ==
  /\ \/ BootFactory
     \/ BootLoad
     \/ LoadStep
     \/ SaveStep
     \/ \E p \in ParamPages, v \in Values : EditorCommit(p, v)
     \/ \E p \in ParamPages, v \in Values : EditorCommitAndSave(p, v)
     \/ \E p \in Pages, v \in Values : MasterWrite(p, v)
     \/ PowerLoss
  /\ UNCHANGED env

Spec == Init /\ [][Next]_vars

(* No loop of load or save waits without a time-out, so a task that has    *)
(* entered one keeps stepping.                                             *)
FairSpec == Spec /\ WF_vars((LoadStep \/ SaveStep) /\ UNCHANGED env)

-----------------------------------------------------------------------------
TypeOK ==
  /\ chip \in Images
  /\ stamp \in Images \cup {NoImage}
  /\ ram \in Images
  /\ pc \in {"off", "check", "read", "run"} \cup Saving
  /\ idx \in Pages
  /\ sum \in Images
  /\ caller \in {"none", "factory", "load", "menu"}
  /\ ev \subseteq {"EE_ERR", "EE_RST", "EE_WST"}
  /\ hwEr \subseteq {"EE_ER"}
  /\ env \in Envs

(* Nobody writes the zone while it is saved.                               *)
Quiet == "master" \notin env

(* With no error reported, the image in the chip is one the next boot      *)
(* accepts: settings_load and settings_save keep HW_ER.EE_ER truthful      *)
(* through every combination of failed and repeated loads and saves.       *)
HealthyFlagMeansUsableChip == Quiet /\ pc = "run" /\ hwEr = {} => CrcMatches

(* When settings_save returns 0 the chip holds, under a valid CRC, exactly *)
(* the zone that mb_table holds (settings.h:26, eeprom.h:53-55).           *)
SaveReturnedZero == pc = "stamp" /\ pc' = "run" /\ hwEr' = {}
SaveSuccessMeansStored ==
  [][Quiet /\ SaveReturnedZero => CrcMatches' /\ chip' = ram']_vars

(* What eeprom.h:53-55 says of every success, with the master writing too: *)
(* the next settings_load accepts the image.                               *)
SaveSuccessMeansUsable == [][SaveReturnedZero => CrcMatches']_vars

(* However earlier saves were cut short, the tasks start on one whole      *)
(* configuration: the stamped image, or the defaults with EE_ERR reported  *)
(* (or asked for by the factory combo).  Never on a mixture of two saves.  *)
BootEnds == pc \in {"read"} \cup Saving /\ pc' = "run" /\ caller # "menu"
OnDefaults == \A p \in ParamPages : ram[p] = Default
BootEndsOnWholeConfiguration ==
  [][BootEnds => \/ "EE_RST" \in ev' /\ ram' = stamp'
                 \/ "EE_ERR" \in ev' /\ OnDefaults'
                 \/ caller = "factory" /\ OnDefaults']_vars

(* Nothing the EEPROM or the bus does can keep the device from starting,   *)
(* nor keep task_ui in a save.                                             *)
LoadAndSaveEnd == pc \in {"check", "read"} \cup Saving ~> pc \in {"run", "off"}

(* settings.c and eeprom.c implement AtomicStore, where nobody writes the  *)
(* zone meanwhile (elsewhere nothing is claimed: the store stays as it is).*)
Store == INSTANCE AtomicStore WITH
  disk  <- IF Quiet /\ CrcMatches THEN stamp ELSE NoImage,
  last  <- IF Quiet THEN stamp ELSE NoImage,
  asked <- IF Quiet /\ pc \in Saving THEN ram ELSE NoImage
ImplementsAtomicStore == Store!StoreSpec
=============================================================================
