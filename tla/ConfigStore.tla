---------------------------- MODULE ConfigStore ----------------------------
(***************************************************************************)
(* The settings of the device: _config in memory, system_config.json and   *)
(* its copy system_config.json.bk on the FAT storage, and the display,     *)
(* which a save asks for the brightness.  Power may be cut between any two *)
(* file operations; the storage may be full; a file may fail to open, to   *)
(* be read or to find memory.                                              *)
(*                                                                         *)
(* Two settings stand for all: "option" for those that go from _config to  *)
(* the file and back, and "bright", which is saved from the display.       *)
(* One task saves at a time: the pages save in the application task, which *)
(* waits in the network page as long as the configuration server, whose    *)
(* handler saves too, is up (SystemLive).                                  *)
(* A file that cannot be opened for writing ends in popFatalError and a    *)
(* restart, which is a Restart at that step.  One that cannot be opened    *)
(* for reading is taken for one that does not exist.                       *)
(***************************************************************************)
EXTENDS Integers

CONSTANTS
  Options,  \* values of an ordinary setting
  Default,  \* the one CONFIG::SystemConfig_t starts with
  Levels    \* what the brightness page can set

ASSUME ConstantsAssumption ==
  /\ Default \in Options
  /\ Levels \subseteq 50 .. 255 /\ 255 \in Levels

NoDisplay == -1

VARIABLES
  pc,      \* what the task that loads, saves or waits for the user does next
  after,   \* why it saves: "first" (no file), "broken", "user", or "backup" (the extra copy of "first")
  ram,     \* _config
  shown,   \* the brightness of the display, or NoDisplay
  file,    \* system_config.json
  backup,  \* system_config.json.bk
  saved,   \* history: the settings of the last complete save
  gone,    \* history: since then a write fell short, a save did without the copy,
           \* or a start went on with the defaults
  why      \* history: why this start could not read the settings

vars == <<pc, after, ram, shown, file, backup, saved, gone, why>>

Settings == [option : Options, bright : {0} \cup Levels]
Files    == [kind : {"absent", "empty", "part", "whole"}, settings : Settings]

DefaultConfig == [option |-> Default, bright |-> 255]

File(kind) == [kind |-> kind, settings |-> DefaultConfig]
Whole(s)   == [kind |-> "whole", settings |-> s]

(* Types; a file holds what some save wrote, so never "no display". *)
TypeOK ==
  /\ pc \in {"load", "warn", "backup", "copy", "open", "bare", "write", "loaded", "booted", "idle"}
  /\ after \in {"first", "broken", "user", "backup"}
  /\ ram \in Settings /\ saved \in Settings
  /\ shown \in {NoDisplay, 0} \cup Levels
  /\ file \in Files /\ backup \in Files
  /\ gone \in BOOLEAN
  /\ why \in {"nothing", "memory", "json"}

Init ==
  /\ pc = "load" /\ after = "user" /\ ram = DefaultConfig /\ shown = NoDisplay
  /\ file = File("absent") /\ backup = File("absent")
  /\ saved = DefaultConfig /\ gone = TRUE /\ why = "nothing"
-----------------------------------------------------------------------------
(* loadSystemConfig *)

SaveWithoutCopy(reason) == pc' = "open" /\ after' = reason
Save(reason) == pc' = "backup" /\ after' = reason

(* fopen fails, and nobody asks why: a file that is there is replaced, and *)
(* its copy with it.                                                       *)
NoFile ==
  /\ pc = "load"
  /\ Save("first")
  /\ gone' = TRUE
  /\ UNCHANGED <<ram, shown, file, backup, saved, why>>

(* malloc fails; malloc(0) always may.  The copy is opened, if it can be,  *)
(* nothing of it is read, and a null pointer is parsed.  _disp_init leaves *)
(* the display dark.                                                       *)
NoMemory ==
  /\ pc = "load" /\ file.kind # "absent"
  /\ \/ /\ Save("first")
        /\ gone' = TRUE
        /\ UNCHANGED <<shown, why>>
     \/ /\ backup.kind # "absent"
        /\ pc' = "warn" /\ shown' = 0 /\ why' = "memory"
        /\ UNCHANGED <<after, gone>>
  /\ UNCHANGED <<ram, file, backup, saved>>

(* What is read does not parse; the read of a whole file may fall short.   *)
BadJson ==
  /\ pc = "load" /\ file.kind # "absent"
  /\ pc' = "warn" /\ shown' = 0 /\ why' = "json"
  /\ UNCHANGED <<after, ram, file, backup, saved, gone>>

(* The warning waits for a button; then the defaults are saved. *)
DismissWarning ==
  /\ pc = "warn"
  /\ Save("broken")
  /\ gone' = TRUE
  /\ UNCHANGED <<ram, shown, file, backup, saved, why>>

(* What is read from the file replaces what is in memory. *)
ParsedButBrightness(s) == [option |-> s.option, bright |-> ram.bright]
Parsed(s) == [option |-> s.option, bright |-> s.bright]

Load ==
  /\ pc = "load" /\ file.kind = "whole"
  /\ ram' = Parsed(file.settings)
  /\ pc' = "loaded"
  /\ UNCHANGED <<after, shown, file, backup, saved, gone, why>>

(* _disp_init and the start-up animation. *)
DisplayOn ==
  /\ pc \in {"loaded", "booted"}
  /\ shown' = ram.bright
  /\ pc' = "idle"
  /\ UNCHANGED <<after, ram, file, backup, saved, gone, why>>
-----------------------------------------------------------------------------
(* saveSystemConfig, one step per opening and per closing of a file.       *)

(* A save goes on whether it has a copy or not. *)
AfterCopy(copied) ==
  IF after = "backup" THEN "booted" ELSE IF copied THEN "open" ELSE "bare"

(* _backup_config_file returns when the file cannot be opened, absent or   *)
(* not.                                                                    *)
OpenCopy ==
  /\ pc = "backup"
  /\ \/ pc' = AfterCopy(FALSE) /\ UNCHANGED backup
     \/ file.kind # "absent" /\ pc' = "copy" /\ backup' = File("empty")
  /\ UNCHANGED <<after, ram, shown, file, saved, gone, why>>

CloseCopy ==
  /\ pc = "copy"
  /\ \E whole \in BOOLEAN :
       /\ backup' = IF whole THEN file ELSE File("part")
       /\ pc' = AfterCopy(whole)
  /\ UNCHANGED <<after, ram, shown, file, saved, gone, why>>

OpenFile ==
  /\ pc \in {"open", "bare"}
  /\ file' = File("empty")
  /\ gone' = (gone \/ pc = "bare")
  /\ pc' = "write"
  /\ UNCHANGED <<after, ram, shown, backup, saved, why>>

(* _create_config_json *)
JsonOfDisplay == [option |-> ram.option, bright |-> shown]
Json == [option |-> ram.option, bright |-> IF shown = NoDisplay THEN ram.bright ELSE shown]

CloseFile ==
  /\ pc = "write"
  /\ \/ /\ file' = Whole(Json)
        /\ saved' = Json
        /\ gone' = FALSE
     \/ /\ file' = File("part")
        /\ gone' = TRUE
        /\ UNCHANGED saved
  /\ \/ after = "first" /\ Save("backup")
     \/ after = "broken" /\ pc' = "booted" /\ UNCHANGED after
     \/ after = "user" /\ pc' = "idle" /\ UNCHANGED after
  /\ UNCHANGED <<ram, shown, backup, why>>
-----------------------------------------------------------------------------
(* The user, the configuration page's client, and the power.               *)

(* A settings page, the calibration, or the handler of set_syscfg.  The    *)
(* start-up image stays in memory only when the restart is declined.       *)
ChangeOption ==
  /\ pc = "idle"
  /\ \E o \in Options : ram' = [ram EXCEPT !.option = o]
  /\ \/ Save("user")
     \/ UNCHANGED <<pc, after>>
  /\ UNCHANGED <<shown, file, backup, saved, gone, why>>

ChangeBrightness ==
  /\ pc = "idle"
  /\ \E b \in Levels \ {shown} : shown' = b /\ ram' = [ram EXCEPT !.bright = b]
  /\ Save("user")
  /\ UNCHANGED <<file, backup, saved, gone, why>>

(* What is found at the next start of a file that was open for writing. *)
Torn == {File("empty"), File("part")}

(* A power cut, or a restart that a page or a fatal error asked for. *)
Restart ==
  /\ pc' = "load" /\ after' = "user" /\ ram' = DefaultConfig /\ shown' = NoDisplay
  /\ why' = "nothing"
  /\ IF pc = "write" THEN file' \in Torn ELSE UNCHANGED file
  /\ IF pc = "copy" THEN backup' \in Torn ELSE UNCHANGED backup
  /\ UNCHANGED <<saved, gone>>

FactoryReset ==
  /\ pc = "idle"
  /\ pc' = "load" /\ after' = "user" /\ ram' = DefaultConfig /\ shown' = NoDisplay
  /\ why' = "nothing"
  /\ file' = File("absent") /\ backup' = File("absent")
  /\ gone' = TRUE
  /\ UNCHANGED saved

Next ==
  \/ NoFile \/ NoMemory \/ BadJson \/ DismissWarning \/ Load \/ DisplayOn
  \/ OpenCopy \/ CloseCopy \/ OpenFile \/ CloseFile
  \/ ChangeOption \/ ChangeBrightness \/ Restart \/ FactoryReset

Spec == Init /\ [][Next]_vars
-----------------------------------------------------------------------------
Holds(f) == f.kind = "whole" /\ f.settings = saved

(* Wherever power is cut, the settings of the last complete save are on    *)
(* the storage, in the file or in its copy, until a start goes on with the *)
(* defaults, a save's own write falls short, or a save truncates the file  *)
(* although it could not copy it: saveSystemConfig copies before it        *)
(* truncates, and a broken copy or a cut by themselves lose nothing.       *)
LastSaveIsKept == ~gone => Holds(file) \/ Holds(backup)

(* A start that reads the settings reads those of the last complete save,  *)
(* after whatever cuts, copies and unsaved changes there were between.     *)
LoadsTheLastSave == pc = "loaded" => ram = saved

(* The display is never left darker than the brightness page's range,      *)
(* 50 to 255.  A save during the warning about a broken file stores the    *)
(* 0 of _disp_init, which the next start loads.                            *)
DisplayIsLit == pc = "idle" => shown \in 50 .. 255
=============================================================================
