--------------------------- MODULE SettingsProofs ---------------------------
(***************************************************************************)
(* What Settings keeps for every number of pages, every set of values and, *)
(* where it says so, every environment.                                    *)
(***************************************************************************)
EXTENDS Settings, TLAPS

USE ConfigAssumption DEF ConfigAssumption, Disturbances, Pages

-----------------------------------------------------------------------------
(* A default image is an image.                                            *)
LEMMA DefaultsType ==
  ASSUME NEW image \in Images
  PROVE  Defaults(image) \in Images /\ \A p \in ParamPages : Defaults(image)[p] = Default
  BY DEF Defaults, Images

LEMMA BlankType == Blank \in Images
  BY DEF Blank, Images

(* Every action keeps every variable within its type, whatever fails and   *)
(* whoever writes.                                                         *)
LEMMA InitType == Init => TypeOK
  BY BlankType DEF Init, TypeOK, Saving

LEMMA StepType == TypeOK /\ [Next]_vars => TypeOK'
<1> SUFFICES ASSUME TypeOK, [Next]_vars PROVE TypeOK'
  OBVIOUS
<1>0. env' = env
  BY DEF Next, vars
<1> USE <1>0, BlankType DEF TypeOK, Saving, BeginSave, NextPage, SaveSucceeds, SaveFails
<1>1. CASE BootFactory
  BY <1>1, DefaultsType DEF BootFactory
<1>2. CASE BootLoad
  BY <1>2 DEF BootLoad
<1>3. CASE CheckOk
  BY <1>3 DEF CheckOk
<1>4. CASE CheckFails
  BY <1>4, DefaultsType DEF CheckFails
<1>5. CASE ReadOk
  BY <1>5 DEF ReadOk
<1>6. CASE ReadFails
  <2>1. PICK k \in 0 .. NPages :
          ram' = Defaults([p \in Pages |-> IF p < k THEN chip[p] ELSE ram[p]])
    BY <1>6 DEF ReadFails
  <2>2. [p \in Pages |-> IF p < k THEN chip[p] ELSE ram[p]] \in Images
    BY DEF Images
  <2>3. ram' \in Images
    BY <2>1, <2>2, DefaultsType
  <2>4. QED
    BY <1>6, <2>3 DEF ReadFails
<1>7. CASE SumPage
  BY <1>7 DEF SumPage, Images
<1>8. CASE PageWritten
  BY <1>8 DEF PageWritten, Images
<1>9. CASE PageFails
  BY <1>9 DEF PageFails, Images
<1>10. CASE StampWritten
  BY <1>10 DEF StampWritten
<1>11. CASE StampFails
  BY <1>11 DEF StampFails
<1>12. CASE \E p \in ParamPages, v \in Values : EditorCommit(p, v)
  BY <1>12 DEF EditorCommit, Images
<1>13. CASE \E p \in ParamPages, v \in Values : EditorCommitAndSave(p, v)
  BY <1>13 DEF EditorCommitAndSave, Images
<1>14. CASE \E p \in Pages, v \in Values : MasterWrite(p, v)
  BY <1>14 DEF MasterWrite, Images
<1>15. CASE PowerLoss
  BY <1>15 DEF PowerLoss, Images
<1>16. CASE UNCHANGED vars
  BY <1>16 DEF vars
<1>17. QED
  BY <1>1, <1>2, <1>3, <1>4, <1>5, <1>6, <1>7, <1>8, <1>9, <1>10, <1>11,
     <1>12, <1>13, <1>14, <1>15, <1>16 DEF Next, LoadStep, SaveStep

(* TypeOK is an invariant of Settings in every environment.                *)
THEOREM SettingsTypeCorrect == Spec => []TypeOK
  BY InitType, StepType, PTL DEF Spec

-----------------------------------------------------------------------------
(* What makes the start of the tasks safe: between a successful check and  *)
(* the read nothing changes the chip, and a save that ends a boot holds    *)
(* defaults that nobody can overwrite before the tasks start.              *)
BootInv ==
  /\ pc = "read" => CrcMatches
  /\ pc \in Saving => caller # "none"
  /\ pc \in Saving /\ caller # "menu" => OnDefaults
  /\ pc \in Saving /\ caller = "load" => "EE_ERR" \in ev

LEMMA BootInvInit == Init => BootInv
  BY DEF Init, BootInv, Saving

LEMMA BootInvStep == TypeOK /\ BootInv /\ [Next]_vars => BootInv'
<1> SUFFICES ASSUME TypeOK, BootInv, [Next]_vars PROVE BootInv'
  OBVIOUS
<1> USE DEF BootInv, OnDefaults, Saving, CrcMatches, BeginSave, NextPage, SaveSucceeds, SaveFails
<1>1. CASE BootFactory
  BY <1>1, BlankType, DefaultsType DEF BootFactory
<1>2. CASE CheckFails
  BY <1>2, DefaultsType DEF CheckFails, TypeOK
<1>3. CASE BootLoad \/ CheckOk \/ ReadOk \/ ReadFails
  BY <1>3 DEF BootLoad, CheckOk, ReadOk, ReadFails
<1>4. CASE SumPage \/ PageWritten
  BY <1>4 DEF SumPage, PageWritten
<1>5. CASE PageFails \/ StampWritten \/ StampFails \/ PowerLoss
  BY <1>5 DEF PageFails, StampWritten, StampFails, PowerLoss
<1>6. CASE \E p \in ParamPages, v \in Values : EditorCommit(p, v)
  BY <1>6 DEF EditorCommit
<1>7. CASE \E p \in ParamPages, v \in Values : EditorCommitAndSave(p, v)
  BY <1>7 DEF EditorCommitAndSave
<1>8. CASE \E p \in Pages, v \in Values : MasterWrite(p, v)
  BY <1>8 DEF MasterWrite
<1>9. CASE UNCHANGED vars
  BY <1>9 DEF vars
<1>10. QED
  BY <1>1, <1>2, <1>3, <1>4, <1>5, <1>6, <1>7, <1>8, <1>9 DEF Next, LoadStep, SaveStep

(* The tasks never start on a mixture of two configurations, in any        *)
(* environment.                                                            *)
THEOREM BootIsWhole == Spec => BootEndsOnWholeConfiguration
<1> DEFINE Whole == BootEnds => \/ "EE_RST" \in ev' /\ ram' = stamp'
                                \/ "EE_ERR" \in ev' /\ OnDefaults'
                                \/ caller = "factory" /\ OnDefaults'
<1>1. TypeOK /\ BootInv /\ [Next]_vars => [Whole]_vars
  <2> SUFFICES ASSUME TypeOK, BootInv, Next, BootEnds PROVE Whole
    BY DEF vars
  <2> USE DEF BootInv, BootEnds, OnDefaults, Saving, TypeOK
  <2>1. CASE ReadOk
    BY <2>1 DEF ReadOk, CrcMatches
  <2>2. CASE ReadFails
    <3>1. PICK k \in 0 .. NPages :
            ram' = Defaults([p \in Pages |-> IF p < k THEN chip[p] ELSE ram[p]])
      BY <2>2 DEF ReadFails
    <3>2. [p \in Pages |-> IF p < k THEN chip[p] ELSE ram[p]] \in Images
      BY DEF Images
    <3>3. OnDefaults'
      BY <3>1, <3>2, DefaultsType
    <3>4. QED
      BY <2>2, <3>3 DEF ReadFails
  <2>3. CASE SaveStep
    <3>1. UNCHANGED ram /\ ev \subseteq ev'
      BY <2>3 DEF SaveStep, SumPage, PageWritten, PageFails, StampWritten,
                  StampFails, SaveSucceeds, SaveFails
    <3>2. pc \in Saving
      BY <2>3 DEF SaveStep, SumPage, PageWritten, PageFails, StampWritten, StampFails
    <3>3. QED
      BY <3>1, <3>2
  <2>4. CASE BootFactory \/ BootLoad \/ CheckOk \/ CheckFails \/ PowerLoss
    BY <2>4 DEF BootFactory, BootLoad, CheckOk, CheckFails, PowerLoss, BeginSave
  <2>5. CASE \E p \in ParamPages, v \in Values : EditorCommit(p, v) \/ EditorCommitAndSave(p, v)
    BY <2>5 DEF EditorCommit, EditorCommitAndSave
  <2>6. CASE \E p \in Pages, v \in Values : MasterWrite(p, v)
    BY <2>6 DEF MasterWrite
  <2>7. QED
    BY <2>1, <2>2, <2>3, <2>4, <2>5, <2>6 DEF Next, LoadStep
<1>2. QED
  BY <1>1, SettingsTypeCorrect, BootInvInit, BootInvStep, PTL
     DEF Spec, BootEndsOnWholeConfiguration

-----------------------------------------------------------------------------
(* What a save relies on when nobody writes mb_table under it: the CRC     *)
(* covers the pages summed so far, the chip holds the pages written so     *)
(* far, and an error bit that is down vouches for the chip.                *)
SaveInv ==
  /\ pc = "crc" => \A p \in Pages : p < idx => sum[p] = ram[p]
  /\ pc \in {"page", "stamp"} => sum = ram
  /\ pc = "page" => \A p \in Pages : p < idx => chip[p] = ram[p]
  /\ pc = "stamp" => chip = ram
  /\ pc = "read" => CrcMatches
  /\ HealthyFlagMeansUsableChip

LEMMA SaveInvInit == Init => SaveInv
  BY DEF Init, SaveInv, HealthyFlagMeansUsableChip

(* The last page of a phase completes the whole image.                     *)
LEMMA LastPage ==
  ASSUME NEW f \in Images, NEW g \in Images, NEW i \in Pages, ~(i + 1 < NPages),
         \A p \in Pages : p < i => f[p] = g[p]
  PROVE  [f EXCEPT ![i] = g[i]] = g
<1> DEFINE h == [f EXCEPT ![i] = g[i]]
<1>1. \A p \in Pages : h[p] = g[p]
  BY DEF Images
<1>2. h \in Images
  BY DEF Images
<1>3. QED
  BY <1>1, <1>2 DEF Images

LEMMA SaveInvStep == Quiet /\ TypeOK /\ SaveInv /\ [Next]_vars => SaveInv'
<1> SUFFICES ASSUME Quiet, TypeOK, SaveInv, [Next]_vars PROVE SaveInv'
  OBVIOUS
<1> USE DEF SaveInv, HealthyFlagMeansUsableChip, CrcMatches
<1>1. CASE BootFactory \/ BootLoad \/ CheckOk \/ CheckFails
  BY <1>1 DEF BootFactory, BootLoad, CheckOk, CheckFails, BeginSave
<1>2. CASE ReadOk \/ ReadFails
  BY <1>2 DEF ReadOk, ReadFails
<1>3. CASE SumPage
  <2>1. CASE idx + 1 < NPages
    BY <1>3, <2>1 DEF SumPage, NextPage, TypeOK, Images
  <2>2. CASE ~(idx + 1 < NPages)
    <3>1. sum' = ram
      BY <1>3, <2>2, LastPage DEF SumPage, TypeOK
    <3>2. QED
      BY <1>3, <2>2, <3>1 DEF SumPage, NextPage
  <2>3. QED
    BY <2>1, <2>2
<1>4. CASE PageWritten
  <2>1. CASE idx + 1 < NPages
    BY <1>4, <2>1 DEF PageWritten, NextPage, TypeOK, Images
  <2>2. CASE ~(idx + 1 < NPages)
    <3>1. chip' = ram
      BY <1>4, <2>2, LastPage DEF PageWritten, TypeOK
    <3>2. QED
      BY <1>4, <2>2, <3>1 DEF PageWritten, NextPage
  <2>3. QED
    BY <2>1, <2>2
<1>5. CASE PageFails \/ StampFails \/ PowerLoss
  BY <1>5 DEF PageFails, StampFails, SaveFails, PowerLoss
<1>6. CASE StampWritten
  BY <1>6 DEF StampWritten, SaveSucceeds
<1>7. CASE \E p \in ParamPages, v \in Values : EditorCommit(p, v)
  BY <1>7 DEF EditorCommit
<1>8. CASE \E p \in ParamPages, v \in Values : EditorCommitAndSave(p, v)
  BY <1>8 DEF EditorCommitAndSave, BeginSave
<1>9. CASE \E p \in Pages, v \in Values : MasterWrite(p, v)
  BY <1>9 DEF MasterWrite, Quiet
<1>10. CASE UNCHANGED vars
  BY <1>10 DEF vars
<1>11. QED
  BY <1>1, <1>2, <1>3, <1>4, <1>5, <1>6, <1>7, <1>8, <1>9, <1>10 DEF Next, LoadStep, SaveStep

LEMMA QuietStays == [Next]_vars => (Quiet' <=> Quiet)
  BY DEF Next, vars, Quiet

LEMMA SaveInvariant == Spec => [](Quiet => SaveInv)
<1>1. (Quiet => SaveInv) /\ TypeOK /\ [Next]_vars => (Quiet => SaveInv)'
  BY SaveInvStep, QuietStays
<1>2. QED
  BY <1>1, SaveInvInit, SettingsTypeCorrect, PTL DEF Spec

(* While the master is quiet, an EE_ER bit that is down vouches for the    *)
(* stored image.                                                           *)
THEOREM HealthyFlag == Spec => []HealthyFlagMeansUsableChip
<1>1. (Quiet => SaveInv) => HealthyFlagMeansUsableChip
  BY DEF SaveInv, HealthyFlagMeansUsableChip
<1>2. QED
  BY <1>1, SaveInvariant, PTL

(* While the master is quiet, settings_save returns 0 only when the chip   *)
(* holds mb_table's zone under its CRC.                                    *)
THEOREM SaveSuccess == Spec => SaveSuccessMeansStored
<1>1. (Quiet => SaveInv) /\ TypeOK /\ [Next]_vars
        => [Quiet /\ SaveReturnedZero => CrcMatches' /\ chip' = ram']_vars
  <2> SUFFICES ASSUME SaveInv, Next, SaveReturnedZero
               PROVE  CrcMatches' /\ chip' = ram'
    OBVIOUS
  <2>1. StampWritten
    BY DEF SaveReturnedZero, Next, LoadStep, SaveStep, BootFactory, BootLoad, CheckOk,
           CheckFails, ReadOk, ReadFails, SumPage, PageWritten, PageFails, StampFails,
           SaveFails, EditorCommit, EditorCommitAndSave, MasterWrite, PowerLoss
  <2>2. QED
    BY <2>1 DEF StampWritten, SaveInv, CrcMatches
<1>2. QED
  BY <1>1, SaveInvariant, SettingsTypeCorrect, PTL DEF Spec, SaveSuccessMeansStored

-----------------------------------------------------------------------------
(* Every step of Settings is a step of AtomicStore, or does not show.      *)
LEMMA StoreInitRefines == Init => Store!StoreInit
  BY DEF Init, Quiet, Store!StoreInit, Saving, CrcMatches

LEMMA StoreStepRefines ==
  Quiet /\ TypeOK /\ SaveInv /\ [Next]_vars => [Store!StoreNext]_(Store!storeVars)
<1> SUFFICES ASSUME Quiet, TypeOK, SaveInv, [Next]_vars
             PROVE  Store!StoreNext \/ UNCHANGED Store!storeVars
  OBVIOUS
<1>0. Quiet /\ Quiet'
  BY QuietStays
<1> USE <1>0 DEF Saving, CrcMatches, Store!storeVars
<1>1. ASSUME pc \notin Saving, pc' = "crc", ram' \in Images, UNCHANGED <<chip, stamp>>
      PROVE  Store!Ask
  BY <1>1 DEF Store!Ask
<1>2. ASSUME pc \in Saving, UNCHANGED stamp,
             (pc' \in Saving /\ ram' = ram) \/ pc' \notin Saving
      PROVE  Store!Touch
  BY <1>2 DEF Store!Touch, TypeOK
<1>3. ASSUME pc = "stamp", chip' = ram, stamp' = ram, pc' = "run"
      PROVE  Store!Commit
  BY <1>3 DEF Store!Commit, TypeOK
<1>4. ASSUME pc = "stamp", stamp' = NoImage, pc' \notin Saving
      PROVE  Store!Garble
  BY <1>4 DEF Store!Garble, TypeOK
<1>5. TypeOK'
  BY StepType
<1>6. CASE BootFactory \/ CheckFails
  BY <1>1, <1>5, <1>6 DEF BootFactory, CheckFails, BeginSave, Store!StoreNext, TypeOK
<1>7. CASE \E p \in ParamPages, v \in Values : EditorCommitAndSave(p, v)
  BY <1>1, <1>5, <1>7 DEF EditorCommitAndSave, BeginSave, Store!StoreNext, TypeOK
<1>8. CASE BootLoad \/ CheckOk \/ ReadOk \/ ReadFails
  BY <1>8 DEF BootLoad, CheckOk, ReadOk, ReadFails
<1>9. CASE SumPage \/ PageWritten
  BY <1>2, <1>9 DEF SumPage, PageWritten, NextPage, Store!StoreNext
<1>10. CASE PageFails
  BY <1>2, <1>10 DEF PageFails, SaveFails, Store!StoreNext
<1>11. CASE StampWritten
  BY <1>3, <1>11 DEF StampWritten, SaveSucceeds, SaveInv, Store!StoreNext
<1>12. CASE StampFails
  BY <1>2, <1>3, <1>4, <1>12 DEF StampFails, SaveFails, SaveInv, Store!StoreNext
<1>13. CASE PowerLoss
  <2>1. CASE pc \in Saving /\ UNCHANGED stamp
    BY <1>2, <1>13, <2>1 DEF PowerLoss, Store!StoreNext
  <2>2. CASE stamp' = NoImage /\ pc = "stamp"
    BY <1>4, <1>13, <2>2 DEF PowerLoss, Store!StoreNext
  <2>3. CASE pc \notin Saving
    BY <1>13, <2>3 DEF PowerLoss
  <2>4. QED
    BY <1>13, <2>1, <2>2, <2>3 DEF PowerLoss
<1>14. CASE \E p \in ParamPages, v \in Values : EditorCommit(p, v)
  BY <1>14 DEF EditorCommit
<1>15. CASE \E p \in Pages, v \in Values : MasterWrite(p, v)
  BY <1>15 DEF MasterWrite, Quiet
<1>16. CASE UNCHANGED vars
  BY <1>16 DEF vars
<1>17. QED
  BY <1>6, <1>7, <1>8, <1>9, <1>10, <1>11, <1>12, <1>13, <1>14, <1>15, <1>16
     DEF Next, LoadStep, SaveStep

(* While the master is quiet, settings.c and eeprom.c are an atomic store: *)
(* whatever fails and wherever power is lost, a reader finds the whole     *)
(* image of one save or nothing.                                           *)
THEOREM SettingsImplementAtomicStore == Spec => ImplementsAtomicStore
<1>1. ~Quiet /\ [Next]_vars => UNCHANGED Store!storeVars
  BY QuietStays DEF Store!storeVars
<1>2. (Quiet => SaveInv) /\ TypeOK /\ [Next]_vars => [Store!StoreNext]_(Store!storeVars)
  BY <1>1, StoreStepRefines
<1>3. QED
  BY <1>2, StoreInitRefines, SaveInvariant, SettingsTypeCorrect, PTL
     DEF Spec, ImplementsAtomicStore, Store!StoreSpec
=============================================================================
