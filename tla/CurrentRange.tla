--------------------------- MODULE CurrentRange ---------------------------
(***************************************************************************)
(* Measurement daemon and range switching (hal_power_monitor.cpp).         *)
(*                                                                         *)
(* Two sensors measure the same load: "lc" behind a large shunt, for small *)
(* currents, and "hc" behind a small one.  A pin selects the shunt and a   *)
(* flag, _is_low_current_mode, tells the daemon which sensor to read.      *)
(* Both are written, one after the other, by the interrupts of the two     *)
(* alert lines and by the tasks (the start and the daemon), which an       *)
(* interrupt can enter between the two writes.  The alerts are edges: a    *)
(* line that is asserted already raises none.                              *)
(*                                                                         *)
(* Currents are in mA.  The registers of the sensors hold their last       *)
(* conversion, which the load has left behind when it changed since.  The  *)
(* sensor of the high range is the coarse one: its conversions of one load *)
(* may vary, so that the two may disagree about a small current.           *)
(***************************************************************************)
EXTENDS Integers

CONSTANTS
  Loads,       \* the currents the load can draw, in mA
  High,        \* what conversions of the high range may make of each load, in mA
  Offsets,     \* the calibrations of the low range, in mA
  SameTimes,   \* equal verdicts that end the start (3)
  TryTimes,    \* attempts after which the start gives up (10)
  MaxChanges,  \* bound: changes of the load
  MaxFaults    \* bound: failed reads of a sensor

ASSUME LoadsAssumption == Loads \subseteq Int /\ 0 \in Loads
ASSUME HighAssumption == High \in [Loads -> SUBSET Int]
ASSUME OffsetsAssumption == Offsets \subseteq Int /\ 0 \in Offsets
ASSUME TimesAssumption == SameTimes \in Nat /\ TryTimes \in Nat
ASSUME BoundsAssumption == MaxChanges \in Nat /\ MaxFaults \in Nat

VARIABLES
  load,      \* the current that flows
  hc, lc,    \* current registers of the two sensors
  pending,   \* alert lines with an edge nobody has served
  lowMode,   \* _is_low_current_mode
  pin,       \* the shunt HAL_PIN_INA266_MODE_CTRL selects
  isr,       \* "idle", or the shunt an interrupt has yet to select
  pc,        \* where the task is: the start, then the daemon
  same, tries,
  reverse,   \* _is_reverse_measuring
  offset,    \* _pm_data_daemon_current_offset
  taken,     \* the reading the pass has in hand
  sample,    \* the last sample published
  changes, faults,
  torn,      \* history: the last switch was not alone with flag and pin
  hurried    \* history: the load changed before the last change was served

task == <<pc, same, tries, reverse, taken, sample>>
sensors == <<load, hc, lc, changes>>
switch == <<lowMode, pin>>
vars == <<sensors, pending, switch, isr, task, offset, faults, torn, hurried>>

StartReverseLate == -3
StartReverse == -5   \* low range, below: the current runs backwards
QuitReverse  == -3   \* high range, above: it does not any more
UnderLimit   == 30   \* alert of the high range, below
OverLimit    == 50   \* alert of the low range, above

Ranges == {"low", "high"}
Starting == {"readHigh", "readLow", "weigh", "mark", "count", "choose", "drive"}
Passing == {"test", "readLc", "flagHigh", "pinHigh", "readHc", "flagLow", "pinLow", "publish"}
NoReading == [range |-> "low", value |-> 0, ok |-> FALSE]
Readings == [range : {"low"}, value : Nat, ok : BOOLEAN]
            \cup [range : {"high"}, value : Int, ok : BOOLEAN]

(* A sensor answers with its register; a failed transfer leaves the 0 the  *)
(* variable was given before the call.                                     *)
Answers(register) == {[value |-> register, ok |-> TRUE]}
                     \cup (IF faults < MaxFaults THEN {[value |-> 0, ok |-> FALSE]} ELSE {})
Counted(answer) == faults' = IF answer.ok THEN faults ELSE faults + 1

Calibrated(value) == IF value - offset < 0 THEN 0 ELSE value - offset

Init ==
  /\ load \in Loads /\ hc \in High[load] /\ lc \in {load, 0}
  /\ pending = {} /\ isr = "idle"
  /\ lowMode = FALSE
  /\ pin \in Ranges
  /\ pc = "readHigh" /\ same = 0 /\ tries = 0
  /\ reverse = FALSE /\ offset = 0
  /\ taken = NoReading /\ sample = NoReading
  /\ changes = 0 /\ faults = 0
  /\ torn = FALSE /\ hurried = FALSE

-----------------------------------------------------------------------------
(* The load and the sensors.                                               *)

(* The load is shown, and nothing is left to switch for it. *)
Served == /\ hc \in High[load] /\ lc \in IF pin = "low" THEN {load} ELSE {load, 0}
          /\ pending = {} /\ isr = "idle" /\ pc = "rest"
          /\ sample.ok
          /\ sample.value \in IF sample.range = "low" THEN {Calibrated(load)} ELSE High[load]
          /\ reverse => hc <= QuitReverse

LoadChanges ==
  /\ changes < MaxChanges
  /\ load' \in Loads \ {load}
  /\ changes' = changes + 1
  /\ hurried' = (hurried \/ ~Served)
  /\ UNCHANGED <<hc, lc, pending, switch, isr, task, offset, faults, torn>>

(* Both shunts carry the load, except that the large one is bridged while  *)
(* the pin selects the small one.  An alert line falls when a conversion   *)
(* crosses its limit.                                                      *)
ConvertHigh ==
  /\ hc' \in High[load]
  /\ pending' = IF hc >= UnderLimit /\ hc' < UnderLimit THEN pending \cup {"hc"} ELSE pending
  /\ UNCHANGED <<load, lc, changes, switch, isr, task, offset, faults, torn, hurried>>

ConvertLow ==
  /\ lc' \in IF pin = "low" THEN {load} ELSE {load, 0}
  /\ pending' = IF lc <= OverLimit /\ lc' > OverLimit THEN pending \cup {"lc"} ELSE pending
  /\ UNCHANGED <<load, hc, changes, switch, isr, task, offset, faults, torn, hurried>>

-----------------------------------------------------------------------------
(* The interrupts: the flag, then the pin.                                 *)

TaskSwitching == pc \in Starting \cup {"fatal", "pinHigh", "pinLow"}

IsrFlag(line) ==
  /\ isr = "idle"
  /\ line \in pending
  /\ pending' = pending \ {line}
  /\ lowMode' = (line = "hc")
  /\ isr' = IF line = "hc" THEN "low" ELSE "high"
  /\ torn' = TaskSwitching
  /\ UNCHANGED <<sensors, pin, task, offset, faults, hurried>>

IsrFlagOnly ==
  /\ isr # "idle"
  /\ isr' = "idle"
  /\ torn' = (torn \/ TaskSwitching)
  /\ UNCHANGED <<sensors, pending, switch, task, offset, faults, hurried>>

IsrPin ==
  /\ isr # "idle"
  /\ pin' = isr
  /\ isr' = "idle"
  /\ torn' = (torn \/ TaskSwitching)
  /\ UNCHANGED <<sensors, pending, lowMode, task, offset, faults, hurried>>

-----------------------------------------------------------------------------
(* The start: the high range is read until its verdict has been the same   *)
(* for some tries; then the pin follows the flag.                          *)

At(from, to) == pc = from /\ pc' = to

StartKeeps == UNCHANGED <<sensors, pending, isr, reverse, offset, taken, sample>>

ReadHigh ==
  /\ \E answer \in Answers(hc) :
       /\ At("readHigh", IF answer.value >= OverLimit THEN "weigh" ELSE "readLow")
       /\ Counted(answer)
  /\ taken' = [taken EXCEPT !.range = "high"]
  /\ UNCHANGED <<sensors, pending, switch, isr, same, tries, reverse, offset, sample, torn, hurried>>

ReadLow ==
  /\ \E answer \in Answers(hc) :
       /\ At("readLow", IF answer.value <= UnderLimit THEN "weigh" ELSE "count")
       /\ Counted(answer)
  /\ taken' = [taken EXCEPT !.range = "low"]
  /\ UNCHANGED <<sensors, pending, switch, isr, same, tries, reverse, offset, sample, torn, hurried>>

Weigh ==
  /\ At("weigh", "mark")
  /\ same' = IF lowMode = (taken.range = "low") THEN same ELSE 0
  /\ StartKeeps /\ UNCHANGED <<switch, tries, faults, torn, hurried>>

Mark ==
  /\ At("mark", "count")
  /\ lowMode' = (taken.range = "low")
  /\ StartKeeps /\ UNCHANGED <<pin, same, tries, faults, torn, hurried>>

Count ==
  /\ pc = "count"
  /\ same' = same + 1
  /\ tries' = tries + 1
  /\ pc' = IF tries' > TryTimes THEN "fatal"
           ELSE IF same' > SameTimes THEN "choose" ELSE "readHigh"
  /\ StartKeeps /\ UNCHANGED <<switch, faults, torn, hurried>>

Choose ==
  /\ At("choose", "drive")
  /\ taken' = [taken EXCEPT !.range = IF lowMode THEN "low" ELSE "high"]
  /\ torn' = (isr # "idle")
  /\ same' = 0 /\ tries' = 0
  /\ UNCHANGED <<sensors, pending, switch, isr, reverse, offset, sample, faults, hurried>>

Drive ==
  /\ At("drive", "rest")
  /\ pin' = taken.range
  /\ torn' = (torn \/ isr # "idle")
  /\ taken' = NoReading
  /\ UNCHANGED <<sensors, pending, lowMode, isr, same, tries, reverse, offset, sample, faults, hurried>>

-----------------------------------------------------------------------------
(* The daemon.  A pass holds the data mutex from Begin to Publish and      *)
(* jumps back to Test after every switch it makes itself.                  *)

PassKeeps == UNCHANGED <<sensors, pending, isr, same, tries, offset>>

Begin ==
  /\ At("rest", "test")
  /\ PassKeeps /\ UNCHANGED <<switch, reverse, taken, sample, faults, torn, hurried>>

Test ==
  /\ At("test", IF lowMode THEN "readLc" ELSE "readHc")
  /\ PassKeeps /\ UNCHANGED <<switch, reverse, taken, sample, faults, torn, hurried>>

ReadLc ==
  /\ \E answer \in Answers(lc) :
       /\ Counted(answer)
       /\ IF answer.value < StartReverse
          THEN /\ At("readLc", "flagHigh")
               /\ reverse' = TRUE
               /\ UNCHANGED taken
          ELSE /\ At("readLc", "publish")
               /\ taken' = [range |-> "low", value |-> Calibrated(answer.value), ok |-> answer.ok]
               /\ UNCHANGED reverse
  /\ PassKeeps /\ UNCHANGED <<switch, sample, torn, hurried>>

ReadHcStays ==
  /\ \E answer \in Answers(hc) :
       /\ Counted(answer)
       /\ reverse' = (reverse /\ ~(answer.value > QuitReverse))
       /\ At("readHc", "publish")
       /\ taken' = [range |-> "high", value |-> answer.value, ok |-> answer.ok]
  /\ PassKeeps /\ UNCHANGED <<switch, sample, torn, hurried>>

ReadHc ==
  /\ \E answer \in Answers(hc) :
       LET quits == reverse /\ answer.value > QuitReverse
       IN  /\ Counted(answer)
           /\ reverse' = (reverse /\ ~quits)
           /\ IF quits /\ answer.value < OverLimit
              THEN At("readHc", "flagLow") /\ UNCHANGED taken
              ELSE /\ At("readHc", "publish")
                   /\ taken' = [range |-> "high", value |-> answer.value, ok |-> answer.ok]
  /\ PassKeeps /\ UNCHANGED <<switch, sample, torn, hurried>>

FlagHigh ==
  /\ At("flagHigh", "pinHigh")
  /\ lowMode' = FALSE
  /\ torn' = (isr # "idle")
  /\ PassKeeps /\ UNCHANGED <<pin, reverse, taken, sample, faults, hurried>>

PinHigh ==
  /\ At("pinHigh", "test")
  /\ pin' = "high"
  /\ torn' = (torn \/ isr # "idle")
  /\ PassKeeps /\ UNCHANGED <<lowMode, reverse, taken, sample, faults, hurried>>

FlagLow ==
  /\ At("flagLow", "pinLow")
  /\ lowMode' = TRUE
  /\ torn' = (isr # "idle")
  /\ PassKeeps /\ UNCHANGED <<pin, reverse, taken, sample, faults, hurried>>

PinLow ==
  /\ At("pinLow", "test")
  /\ pin' = "low"
  /\ torn' = (torn \/ isr # "idle")
  /\ PassKeeps /\ UNCHANGED <<lowMode, reverse, taken, sample, faults, hurried>>

Publish ==
  /\ At("publish", "rest")
  /\ sample' = taken
  /\ taken' = NoReading
  /\ PassKeeps /\ UNCHANGED <<switch, reverse, faults, torn, hurried>>

(* powerMonitorCalibration, at the start of the daemon and from the        *)
(* settings, waits for the mutex.                                          *)
Calibrate ==
  /\ pc = "rest"
  /\ offset' \in Offsets \ {offset}
  /\ UNCHANGED <<sensors, pending, switch, isr, task, faults, torn, hurried>>

-----------------------------------------------------------------------------
Start == ReadHigh \/ ReadLow \/ Weigh \/ Mark \/ Count \/ Choose \/ Drive
Pass == \/ Test \/ ReadLc \/ ReadHc \/ FlagHigh \/ PinHigh \/ FlagLow \/ PinLow \/ Publish
Interrupt == IsrPin \/ \E line \in {"hc", "lc"} : IsrFlag(line)
Next ==
  \/ LoadChanges \/ ConvertHigh \/ ConvertLow
  \/ Interrupt
  \/ Start \/ Begin \/ Pass
  \/ Calibrate

Spec == Init /\ [][Next]_vars

(* The tasks run, interrupts are served, the sensors convert continuously. *)
Fairness == /\ WF_vars(Start) /\ WF_vars(Begin) /\ WF_vars(Pass) /\ WF_vars(Interrupt)
            /\ WF_vars(ConvertHigh) /\ WF_vars(ConvertLow)
FairSpec == Spec /\ Fairness

-----------------------------------------------------------------------------
(* Every variable has its type; a reading of the low range is no negative  *)
(* current.                                                                *)
TypeOK ==
  /\ load \in Loads /\ hc \in Int /\ lc \in Loads
  /\ pending \subseteq {"hc", "lc"}
  /\ lowMode \in BOOLEAN /\ pin \in Ranges
  /\ isr \in Ranges \cup {"idle"}
  /\ pc \in Starting \cup Passing \cup {"rest", "fatal"}
  /\ same \in Nat /\ tries \in Nat
  /\ reverse \in BOOLEAN /\ offset \in Offsets
  /\ taken \in Readings /\ sample \in Readings
  /\ changes \in 0..MaxChanges /\ faults \in 0..MaxFaults
  /\ torn \in BOOLEAN /\ hurried \in BOOLEAN

(* The daemon reads the sensor whose shunt the pin selects: outside of a   *)
(* switch flag and pin agree, unless the last two switches overlapped; and *)
(* the next switch that is alone mends what an overlap has broken          *)
(* (_isr_switch_to_hc_mode, _isr_switch_to_lc_mode and the start).         *)
FlagMatchesPin == (isr = "idle" /\ ~TaskSwitching /\ ~torn) => (lowMode <=> pin = "low")

(* A pass that jumps between the sensors ends, and with it the wait for    *)
(* the data mutex, once the load rests and the transfers succeed, also     *)
(* while the two sensors disagree about the load, by less than lies        *)
(* between the two limits (the goto in _handle_basic_data_update).         *)
PassEnds == (pc \in Passing) ~> (pc = "rest")

(* A load that rests is measured in the range made for it, from wherever   *)
(* it came: the alerts, which are edges, and the daemon, which alone knows *)
(* the reverse direction, do not leave it in the other range.  Between two *)
(* limits, of the alerts or of the reverse direction, either range may     *)
(* keep it; but the measurement settles in one of them.  This is so if no  *)
(* switches overlapped, each load was shown before it changed again, and   *)
(* no transfer failed.                                                     *)
Orderly == ~torn /\ ~hurried /\ faults = 0 /\ pc # "fatal"
RangeFollowsLoad ==
  /\ <>[](Orderly /\ (load > OverLimit \/ load < StartReverse)) =>
       <>[](sample.range = "high" /\ sample.value \in High[load])
  /\ <>[](Orderly /\ load < UnderLimit /\ load > QuitReverse) => <>[](sample.range = "low")
  /\ <>[]Orderly => <>[](sample.range = "low") \/ <>[](sample.range = "high")

=============================================================================
