------------------------- MODULE ConfigStore_proofs -------------------------
(***************************************************************************)
(* That the settings of the last complete save survive every power cut     *)
(* until a start, or a save without its copy, gives them up, for every set *)
(* of settings.                                                            *)
(***************************************************************************)
EXTENDS ConfigStore, TLAPS

(* A whole system_config.json is what the last complete save wrote. *)
FileIsSaved == file.kind = "whole" => Holds(file)

(* While the file is whole the copy may be behind; from the moment a save  *)
(* that has copied is about to truncate it until a start gives up, the     *)
(* copy holds.                                                             *)
CopyInv ==
  ~gone => /\ pc \notin {"write", "load", "warn"} => Holds(file)
           /\ pc \in {"open", "write"} => Holds(backup)
           /\ Holds(file) \/ Holds(backup)

IInv == TypeOK /\ FileIsSaved /\ CopyInv /\ LoadsTheLastSave

LEMMA DefaultTypes ==
  /\ DefaultConfig \in Settings
  /\ \A kind \in {"absent", "empty", "part", "whole"} : File(kind) \in Files
  /\ \A s \in Settings : Whole(s) \in Files
BY ConstantsAssumption DEF DefaultConfig, Settings, File, Files, Settings, Whole

(* What a save writes is settings, with and without a display. *)
LEMMA JsonType ==
  ASSUME TypeOK
  PROVE  Json \in Settings
<1>1. /\ ram.option \in Options /\ ram.bright \in {0} \cup Levels
      /\ shown # NoDisplay => shown \in {0} \cup Levels
  BY DEF TypeOK, Settings
<1>2. Json.option \in Options /\ Json.bright \in {0} \cup Levels
  BY <1>1 DEF Json
<1> QED
  BY <1>1, <1>2 DEF Json, Settings

(* TypeOK: every variable keeps its type. *)
LEMMA TypeInductive == TypeOK /\ [Next]_vars => TypeOK'
<1> SUFFICES ASSUME TypeOK, [Next]_vars PROVE TypeOK'
  OBVIOUS
<1> USE DefaultTypes
<1>1. CASE NoFile
  BY <1>1 DEF NoFile, Save, TypeOK
<1>2. CASE NoMemory
  BY <1>2 DEF NoMemory, Save, TypeOK
<1>3. CASE BadJson
  BY <1>3 DEF BadJson, TypeOK
<1>4. CASE DismissWarning
  BY <1>4 DEF DismissWarning, Save, TypeOK
<1>5. CASE Load
  <2>1. file.settings \in Settings
    BY DEF TypeOK, Files
  <2>2. Parsed(file.settings) \in Settings
    BY <2>1 DEF Parsed, TypeOK, Settings
  <2> QED
    BY <1>5, <2>2 DEF Load, TypeOK
<1>6. CASE DisplayOn
  <2>1. ram.bright \in {0} \cup Levels
    BY DEF TypeOK, Settings
  <2> QED
    BY <1>6, <2>1 DEF DisplayOn, TypeOK
<1>7. CASE OpenCopy
  BY <1>7 DEF OpenCopy, AfterCopy, TypeOK
<1>8. CASE CloseCopy
  BY <1>8 DEF CloseCopy, AfterCopy, TypeOK
<1>9. CASE OpenFile
  BY <1>9 DEF OpenFile, TypeOK
<1>10. CASE CloseFile
  <2>1. file' \in Files /\ saved' \in Settings /\ gone' \in BOOLEAN
    BY <1>10, JsonType DEF CloseFile, TypeOK
  <2> QED
    BY <1>10, <2>1 DEF CloseFile, Save, TypeOK
<1>11. CASE ChangeOption
  <2>1. ram' \in Settings
    BY <1>11 DEF ChangeOption, TypeOK, Settings
  <2> QED
    BY <1>11, <2>1 DEF ChangeOption, Save, TypeOK
<1>12. CASE ChangeBrightness
  <2>1. ram' \in Settings
    BY <1>12 DEF ChangeBrightness, TypeOK, Settings
  <2> QED
    BY <1>12, <2>1 DEF ChangeBrightness, Save, TypeOK
<1>13. CASE Restart
  BY <1>13 DEF Restart, Torn, TypeOK
<1>14. CASE FactoryReset
  BY <1>14 DEF FactoryReset, TypeOK
<1>15. CASE UNCHANGED vars
  BY <1>15 DEF vars, TypeOK
<1> QED
  BY <1>1, <1>2, <1>3, <1>4, <1>5, <1>6, <1>7, <1>8, <1>9, <1>10, <1>11, <1>12,
     <1>13, <1>14, <1>15 DEF Next

SavedInv == FileIsSaved /\ CopyInv /\ LoadsTheLastSave

(* Steps that leave the files, the last save and "gone" alone, and do not  *)
(* enter or leave a stretch the invariants speak of.                       *)
LEMMA Quiet ==
  ASSUME SavedInv,
         UNCHANGED <<file, backup, saved, gone>>,
         pc' # "loaded",
         pc \in {"write", "load", "warn"} => pc' \in {"write", "load", "warn"} \/ gone,
         pc' \in {"open", "write"} => pc = pc' \/ gone
  PROVE  SavedInv'
BY DEF SavedInv, FileIsSaved, CopyInv, LoadsTheLastSave, Holds

LEMMA SavedInductive == TypeOK /\ SavedInv /\ [Next]_vars => SavedInv'
<1> SUFFICES ASSUME TypeOK, SavedInv, [Next]_vars PROVE SavedInv'
  OBVIOUS
<1> USE DEF SavedInv
<1>1. CASE NoFile
  BY <1>1 DEF NoFile, Save, FileIsSaved, CopyInv, LoadsTheLastSave, Holds
<1>2. CASE NoMemory
  BY <1>2 DEF NoMemory, Save, FileIsSaved, CopyInv, LoadsTheLastSave, Holds
<1>3. CASE BadJson
  BY <1>3, Quiet DEF BadJson
<1>4. CASE DismissWarning
  BY <1>4 DEF DismissWarning, Save, FileIsSaved, CopyInv, LoadsTheLastSave, Holds
<1>5. CASE Load
  <2>1. Parsed(file.settings) = file.settings
    BY DEF Parsed, TypeOK, Files, Settings
  <2>2. Holds(file)
    BY <1>5 DEF Load, FileIsSaved
  <2>3. ram' = saved
    BY <1>5, <2>1, <2>2 DEF Load, Holds
  <2> QED
    BY <1>5, <2>2, <2>3 DEF Load, FileIsSaved, CopyInv, LoadsTheLastSave, Holds
<1>6. CASE DisplayOn
  BY <1>6, Quiet DEF DisplayOn
<1>7. CASE OpenCopy
  <2>1. pc = "backup" /\ (~gone => Holds(file))
    BY <1>7 DEF OpenCopy, CopyInv
  <2>2. CASE pc' = AfterCopy(FALSE) /\ UNCHANGED backup
    BY <1>7, <2>1, <2>2, Quiet DEF OpenCopy, AfterCopy
  <2>3. CASE pc' = "copy"
    BY <1>7, <2>1, <2>3 DEF OpenCopy, FileIsSaved, CopyInv, LoadsTheLastSave, Holds
  <2> QED
    BY <1>7, <2>2, <2>3 DEF OpenCopy
<1>8. CASE CloseCopy
  <2>1. pc = "copy" /\ (~gone => Holds(file))
    BY <1>8 DEF CloseCopy, CopyInv
  <2>2. PICK whole \in BOOLEAN : backup' = (IF whole THEN file ELSE File("part")) /\ pc' = AfterCopy(whole)
    BY <1>8 DEF CloseCopy
  <2> QED
    BY <1>8, <2>1, <2>2 DEF CloseCopy, AfterCopy, FileIsSaved, CopyInv, LoadsTheLastSave, Holds
<1>9. CASE OpenFile
  <2>1. ~gone' => Holds(backup)
    BY <1>9 DEF OpenFile, CopyInv
  <2> QED
    BY <1>9, <2>1 DEF OpenFile, File, FileIsSaved, CopyInv, LoadsTheLastSave, Holds
<1>10. CASE CloseFile
  <2>1. pc' \in {"backup", "booted", "idle"}
    BY <1>10 DEF CloseFile, Save
  <2>2. CASE file' = Whole(Json) /\ saved' = Json
    <3>1. Holds(file)'
      BY <2>2 DEF Whole, Holds
    <3> QED
      BY <2>1, <3>1 DEF FileIsSaved, CopyInv, LoadsTheLastSave
  <2>3. CASE file' = File("part") /\ gone'
    BY <2>1, <2>3 DEF File, FileIsSaved, CopyInv, LoadsTheLastSave, Holds
  <2> QED
    BY <1>10, <2>2, <2>3 DEF CloseFile
<1>11. CASE ChangeOption
  BY <1>11, Quiet DEF ChangeOption, Save
<1>12. CASE ChangeBrightness
  BY <1>12, Quiet DEF ChangeBrightness, Save
<1>13. CASE Restart
  <2>1. file' = file \/ file'.kind # "whole"
    BY <1>13 DEF Restart, Torn, File
  <2>2. ~gone => Holds(file)' \/ Holds(backup)'
    BY <1>13 DEF Restart, CopyInv, Holds
  <2> QED
    BY <1>13, <2>1, <2>2 DEF Restart, FileIsSaved, CopyInv, LoadsTheLastSave, Holds
<1>14. CASE FactoryReset
  BY <1>14 DEF FactoryReset, File, FileIsSaved, CopyInv, LoadsTheLastSave, Holds
<1>15. CASE UNCHANGED vars
  BY <1>15 DEF vars, FileIsSaved, CopyInv, LoadsTheLastSave, Holds
<1> QED
  BY <1>1, <1>2, <1>3, <1>4, <1>5, <1>6, <1>7, <1>8, <1>9, <1>10, <1>11, <1>12,
     <1>13, <1>14, <1>15 DEF Next

LEMMA InitInv == Init => IInv
BY DefaultTypes DEF Init, IInv, TypeOK, FileIsSaved, CopyInv, LoadsTheLastSave, File, NoDisplay

LEMMA Inductive == IInv /\ [Next]_vars => IInv'
BY TypeInductive, SavedInductive DEF IInv, SavedInv

(* Every variable of the settings store keeps its type: in particular no   *)
(* file ever holds the brightness of a display that is not there.          *)
THEOREM SettingsTyped == Spec => []TypeOK
<1>1. IInv => TypeOK
  BY DEF IInv
<1> QED
  BY <1>1, InitInv, Inductive, PTL DEF Spec

(* Wherever power is cut, the settings of the last complete save are on    *)
(* the storage, until a start goes on with the defaults, a save's write    *)
(* falls short, or a save truncates the file without a copy.               *)
THEOREM SettingsKept == Spec => []LastSaveIsKept
<1>1. IInv => LastSaveIsKept
  BY DEF IInv, CopyInv, LastSaveIsKept
<1> QED
  BY <1>1, InitInv, Inductive, PTL DEF Spec

(* A start that reads the settings reads those of the last complete save.  *)
THEOREM SettingsLoaded == Spec => []LoadsTheLastSave
<1>1. IInv => LoadsTheLastSave
  BY DEF IInv
<1> QED
  BY <1>1, InitInv, Inductive, PTL DEF Spec
=============================================================================
