------------------------ MODULE CurrentRange_proofs ------------------------
(***************************************************************************)
(* That flag and pin of the range switch agree after every switch that was *)
(* alone, for all loads, calibrations and lengths of the start.            *)
(***************************************************************************)
EXTENDS CurrentRange, TLAPS

(* What an interrupt under way, and a task under way, is about to select.  *)
IsrInv ==
  /\ isr # "idle" /\ TaskSwitching => torn
  /\ isr # "idle" /\ ~torn => (lowMode <=> isr = "low")

TaskInv ==
  (isr = "idle" /\ ~torn) =>
    /\ pc = "pinHigh" => ~lowMode
    /\ pc = "pinLow" => lowMode
    /\ pc = "drive" => (lowMode <=> taken.range = "low")

SwitchInv == IsrInv /\ TaskInv /\ FlagMatchesPin

(* Before the daemon runs no reading is in hand, only its range. *)
NothingRead == pc \in Starting => taken.value = 0

LEMMA ConstantFacts ==
  /\ StartReverse = -5 /\ QuitReverse = -3 /\ UnderLimit = 30 /\ OverLimit = 50
  /\ NoReading \in Readings /\ NoReading.value = 0
BY DEF StartReverse, QuitReverse, UnderLimit, OverLimit, NoReading, Readings

LEMMA ReadingFields ==
  ASSUME NEW r \in Readings
  PROVE  /\ r.range \in Ranges /\ r.value \in Int /\ r.ok \in BOOLEAN
         /\ \A range \in Ranges : r.value = 0 => [r EXCEPT !.range = range] \in Readings
         /\ \A range \in Ranges : [r EXCEPT !.range = range].value = r.value
         /\ \A range \in Ranges : [r EXCEPT !.range = range].range = range
<1>1. r.range \in Ranges /\ r.value \in Int /\ r.ok \in BOOLEAN
  BY DEF Readings, Ranges
<1>2. ASSUME NEW range \in Ranges
      PROVE  [r EXCEPT !.range = range] = [range |-> range, value |-> r.value, ok |-> r.ok]
  BY DEF Readings, Ranges
<1>3. ASSUME NEW range \in Ranges, r.value = 0 PROVE [r EXCEPT !.range = range] \in Readings
  <2>1. [range |-> range, value |-> r.value, ok |-> r.ok] \in Readings
    BY <1>1, <1>3 DEF Readings, Ranges
  <2> QED
    BY <1>2, <2>1
<1>4. ASSUME NEW range \in Ranges PROVE [r EXCEPT !.range = range].value = r.value
  BY <1>2
<1>5. ASSUME NEW range \in Ranges PROVE [r EXCEPT !.range = range].range = range
  BY <1>2
<1> QED
  BY <1>1, <1>3, <1>4, <1>5

(* What a sensor answers is a current, and a failure is counted. *)
LEMMA AnswerType ==
  ASSUME TypeOK, NEW register \in Int, NEW answer \in Answers(register), Counted(answer)
  PROVE  answer.value \in Int /\ answer.ok \in BOOLEAN /\ faults' \in 0..MaxFaults
<1>1. register \in Int /\ faults \in Nat /\ MaxFaults \in Nat /\ faults <= MaxFaults
  BY BoundsAssumption DEF TypeOK
<1>2. CASE answer = [value |-> register, ok |-> TRUE]
  BY <1>1, <1>2 DEF Counted, TypeOK
<1>3. CASE faults < MaxFaults /\ answer = [value |-> 0, ok |-> FALSE]
  <2>1. answer.ok = FALSE /\ answer.value = 0
    BY <1>3
  <2>2. faults' = faults + 1
    BY <2>1 DEF Counted
  <2> QED
    BY <1>1, <1>3, <2>1, <2>2
<1> QED
  BY <1>2, <1>3 DEF Answers

(* What the high range makes of a load is a current. *)
LEMMA ConvertedHigh == \A current \in Loads : High[current] \subseteq Int
BY HighAssumption

(* A calibrated current of the low range is not negative. *)
LEMMA CalibratedType == ASSUME TypeOK, NEW v \in Int PROVE Calibrated(v) \in Nat
BY OffsetsAssumption DEF Calibrated, TypeOK

(* What the passes and the start leave alone keeps its type. *)
LEMMA PassFrame ==
  ASSUME TypeOK, PassKeeps, UNCHANGED <<torn, hurried>>
  PROVE  /\ load' \in Loads /\ hc' \in Int /\ lc' \in Loads /\ changes' \in 0..MaxChanges
         /\ pending' \subseteq {"hc", "lc"} /\ isr' \in Ranges \cup {"idle"}
         /\ same' \in Nat /\ tries' \in Nat /\ offset' \in Offsets
         /\ torn' \in BOOLEAN /\ hurried' \in BOOLEAN
BY DEF TypeOK, PassKeeps, sensors

(* TypeOK: every variable keeps its type. *)
LEMMA TypeInductive == TypeOK /\ NothingRead /\ [Next]_vars => TypeOK' /\ NothingRead'
<1> SUFFICES ASSUME TypeOK, NothingRead, [Next]_vars PROVE TypeOK' /\ NothingRead'
  OBVIOUS
<1> USE ConstantFacts
<1>0. taken \in Readings /\ sample \in Readings /\ hc \in Int /\ lc \in Int
  BY LoadsAssumption DEF TypeOK
<1>1. CASE LoadChanges
  BY <1>1, BoundsAssumption DEF LoadChanges, TypeOK, NothingRead, switch, task
<1>2. CASE ConvertHigh
  <2>1. hc' \in Int
    BY <1>2, ConvertedHigh DEF ConvertHigh, TypeOK
  <2> QED
    BY <1>2, <2>1 DEF ConvertHigh, TypeOK, NothingRead, switch, task
<1>3. CASE ConvertLow
  BY <1>3, LoadsAssumption DEF ConvertLow, TypeOK, NothingRead, switch, task
<1>4. CASE IsrPin
  BY <1>4 DEF IsrPin, TypeOK, NothingRead, TaskSwitching, Ranges, sensors, task
<1>5. ASSUME NEW line \in {"hc", "lc"}, IsrFlag(line) PROVE TypeOK' /\ NothingRead'
  BY <1>5 DEF IsrFlag, TypeOK, NothingRead, TaskSwitching, Ranges, sensors, task
<1>6. CASE ReadHigh
  <2>1. PICK answer \in Answers(hc) : /\ At("readHigh", IF answer.value >= OverLimit THEN "weigh" ELSE "readLow")
                                       /\ Counted(answer)
    BY <1>6 DEF ReadHigh
  <2>2. faults' \in 0..MaxFaults
    BY <1>0, <2>1, AnswerType
  <2>3. pc \in Starting /\ pc' \in {"weigh", "readLow"}
    BY <2>1 DEF At, Starting
  <2>4. taken' \in Readings /\ taken'.value = 0
    BY <1>0, <1>6, <2>3, ReadingFields DEF ReadHigh, NothingRead, Ranges
  <2> QED
    BY <1>6, <2>2, <2>3, <2>4 DEF ReadHigh, TypeOK, NothingRead, Starting, sensors, switch
<1>7. CASE ReadLow
  <2>1. PICK answer \in Answers(hc) : /\ At("readLow", IF answer.value <= UnderLimit THEN "weigh" ELSE "count")
                                       /\ Counted(answer)
    BY <1>7 DEF ReadLow
  <2>2. faults' \in 0..MaxFaults
    BY <1>0, <2>1, AnswerType
  <2>3. pc \in Starting /\ pc' \in {"weigh", "count"}
    BY <2>1 DEF At, Starting
  <2>4. taken' \in Readings /\ taken'.value = 0
    BY <1>0, <1>7, <2>3, ReadingFields DEF ReadLow, NothingRead, Ranges
  <2> QED
    BY <1>7, <2>2, <2>3, <2>4 DEF ReadLow, TypeOK, NothingRead, Starting, sensors, switch
<1>8. CASE Weigh
  BY <1>8 DEF Weigh, At, StartKeeps, TypeOK, NothingRead, Starting, sensors, switch
<1>9. CASE Mark
  BY <1>9 DEF Mark, At, StartKeeps, TypeOK, NothingRead, Starting, sensors
<1>10. CASE Count
  <2>1. same' \in Nat /\ tries' \in Nat /\ pc' \in {"fatal", "choose", "readHigh"}
    BY <1>10 DEF Count, TypeOK
  <2> QED
    BY <1>10, <2>1 DEF Count, StartKeeps, TypeOK, NothingRead, Starting, sensors, switch
<1>11. CASE Choose
  <2>1. taken' \in Readings /\ taken'.value = 0 /\ pc' = "drive"
    <3>1. taken.value = 0 /\ pc' = "drive"
      BY <1>11 DEF Choose, At, NothingRead, Starting
    <3>2. (IF lowMode THEN "low" ELSE "high") \in Ranges
      BY DEF Ranges
    <3>3. taken' = [taken EXCEPT !.range = IF lowMode THEN "low" ELSE "high"]
      BY <1>11 DEF Choose
    <3> QED
      BY <1>0, <3>1, <3>2, <3>3, ReadingFields
  <2> QED
    BY <1>11, <2>1 DEF Choose, TypeOK, NothingRead, Starting, sensors, switch
<1>12. CASE Drive
  <2>1. pin' \in Ranges
    BY <1>0, <1>12, ReadingFields DEF Drive
  <2> QED
    BY <1>12, <2>1 DEF Drive, At, TypeOK, NothingRead, Starting, sensors
<1>13. CASE Begin
  BY <1>13 DEF Begin, At, PassKeeps, TypeOK, NothingRead, Starting, Passing, sensors, switch
<1>14. CASE Test
  BY <1>14 DEF Test, At, PassKeeps, TypeOK, NothingRead, Starting, Passing, sensors, switch
<1>15. CASE ReadLc
  <2>1. PICK answer \in Answers(lc) :
           /\ Counted(answer)
           /\ pc' \in {"flagHigh", "publish"} /\ reverse' \in BOOLEAN
           /\ \/ UNCHANGED taken
              \/ taken' = [range |-> "low", value |-> Calibrated(answer.value), ok |-> answer.ok]
    BY <1>15 DEF ReadLc, At, TypeOK
  <2>2. answer.value \in Int /\ answer.ok \in BOOLEAN /\ faults' \in 0..MaxFaults
    BY <1>0, <2>1, AnswerType
  <2>3. Calibrated(answer.value) \in Nat
    BY <2>2, CalibratedType
  <2>4. taken' \in Readings
    BY <1>0, <2>1, <2>2, <2>3 DEF Readings
  <2>5. PassKeeps /\ UNCHANGED <<switch, sample, torn, hurried>>
    BY <1>15 DEF ReadLc
  <2> QED
    BY <2>1, <2>2, <2>4, <2>5, PassFrame DEF TypeOK, NothingRead, Starting, Passing, switch
<1>16. CASE ReadHc
  <2>1. PICK answer \in Answers(hc) :
           /\ Counted(answer)
           /\ pc' \in {"flagLow", "publish"} /\ reverse' \in BOOLEAN
           /\ \/ UNCHANGED taken
              \/ taken' = [range |-> "high", value |-> answer.value, ok |-> answer.ok]
    BY <1>16 DEF ReadHc, At
  <2>2. answer.value \in Int /\ answer.ok \in BOOLEAN /\ faults' \in 0..MaxFaults
    BY <1>0, <2>1, AnswerType
  <2>4. taken' \in Readings
    BY <1>0, <2>1, <2>2 DEF Readings
  <2>5. PassKeeps /\ UNCHANGED <<switch, sample, torn, hurried>>
    BY <1>16 DEF ReadHc
  <2> QED
    BY <2>1, <2>2, <2>4, <2>5, PassFrame DEF TypeOK, NothingRead, Starting, Passing, switch
<1>17. CASE FlagHigh
  BY <1>17 DEF FlagHigh, At, PassKeeps, TypeOK, NothingRead, Starting, Passing, sensors
<1>18. CASE PinHigh
  BY <1>18 DEF PinHigh, At, PassKeeps, TypeOK, NothingRead, Starting, Passing, Ranges, sensors
<1>19. CASE FlagLow
  BY <1>19 DEF FlagLow, At, PassKeeps, TypeOK, NothingRead, Starting, Passing, sensors
<1>20. CASE PinLow
  BY <1>20 DEF PinLow, At, PassKeeps, TypeOK, NothingRead, Starting, Passing, Ranges, sensors
<1>21. CASE Publish
  BY <1>0, <1>21 DEF Publish, At, PassKeeps, TypeOK, NothingRead, Starting, sensors, switch
<1>22. CASE Calibrate
  BY <1>22 DEF Calibrate, TypeOK, NothingRead, sensors, switch, task
<1>23. CASE UNCHANGED vars
  BY <1>23 DEF vars, TypeOK, NothingRead, sensors, switch, task
<1> QED
  BY <1>1, <1>2, <1>3, <1>4, <1>5, <1>6, <1>7, <1>8, <1>9, <1>10, <1>11, <1>12, <1>13, <1>14, <1>15,
     <1>16, <1>17, <1>18, <1>19, <1>20, <1>21, <1>22, <1>23 DEF Next, Start, Pass, Interrupt

LEMMA SwitchInductive == TypeOK /\ SwitchInv /\ [Next]_vars => SwitchInv'
<1> SUFFICES ASSUME TypeOK, SwitchInv, [Next]_vars PROVE SwitchInv'
  OBVIOUS
<1> USE DEF SwitchInv, IsrInv, TaskInv, FlagMatchesPin, TaskSwitching, Starting
<1>1. CASE LoadChanges \/ ConvertHigh \/ ConvertLow \/ Calibrate \/ UNCHANGED vars
  BY <1>1 DEF LoadChanges, ConvertHigh, ConvertLow, Calibrate, vars, switch, task
<1>2. CASE IsrPin
  BY <1>2 DEF IsrPin, task
<1>3. ASSUME NEW line \in {"hc", "lc"}, IsrFlag(line) PROVE SwitchInv'
  BY <1>3 DEF IsrFlag, task
<1>4. CASE ReadHigh
  <2>1. pc = "readHigh" /\ pc' \in {"weigh", "readLow"}
    BY <1>4 DEF ReadHigh, At
  <2> QED
    BY <1>4, <2>1 DEF ReadHigh, switch
<1>5. CASE ReadLow
  <2>1. pc = "readLow" /\ pc' \in {"weigh", "count"}
    BY <1>5 DEF ReadLow, At
  <2> QED
    BY <1>5, <2>1 DEF ReadLow, switch
<1>6. CASE Weigh
  BY <1>6 DEF Weigh, At, StartKeeps, switch
<1>7. CASE Mark
  BY <1>7 DEF Mark, At, StartKeeps
<1>8. CASE Count
  <2>1. pc = "count" /\ pc' \in {"fatal", "choose", "readHigh"} /\ UNCHANGED <<switch, isr, torn>>
    BY <1>8 DEF Count, StartKeeps
  <2> QED
    BY <2>1 DEF switch
<1>9. CASE Choose
  <2>1. pc = "choose" /\ pc' = "drive" /\ UNCHANGED <<lowMode, pin, isr>> /\ torn' = (isr # "idle")
    BY <1>9 DEF Choose, At, switch
  <2>2. taken'.range = IF lowMode THEN "low" ELSE "high"
    <3>1. taken \in Readings
      BY DEF TypeOK
    <3>2. (IF lowMode THEN "low" ELSE "high") \in Ranges
      BY DEF Ranges
    <3>3. taken' = [taken EXCEPT !.range = IF lowMode THEN "low" ELSE "high"]
      BY <1>9 DEF Choose
    <3> QED
      BY <3>1, <3>2, <3>3, ReadingFields
  <2> QED
    BY <2>1, <2>2
<1>10. CASE Drive
  BY <1>10 DEF Drive, At
<1>11. CASE Begin
  BY <1>11 DEF Begin, At, PassKeeps, switch
<1>12. CASE Test
  BY <1>12 DEF Test, At, PassKeeps, switch
<1>13. CASE ReadLc
  <2>1. pc = "readLc" /\ pc' \in {"flagHigh", "publish"}
    BY <1>13 DEF ReadLc, At
  <2> QED
    BY <1>13, <2>1 DEF ReadLc, PassKeeps, switch
<1>14. CASE ReadHc
  <2>1. pc = "readHc" /\ pc' \in {"flagLow", "publish"}
    BY <1>14 DEF ReadHc, At
  <2> QED
    BY <1>14, <2>1 DEF ReadHc, PassKeeps, switch
<1>15. CASE FlagHigh
  BY <1>15 DEF FlagHigh, At, PassKeeps
<1>16. CASE PinHigh
  BY <1>16 DEF PinHigh, At, PassKeeps
<1>17. CASE FlagLow
  BY <1>17 DEF FlagLow, At, PassKeeps
<1>18. CASE PinLow
  BY <1>18 DEF PinLow, At, PassKeeps
<1>19. CASE Publish
  BY <1>19 DEF Publish, At, PassKeeps, switch
<1> QED
  BY <1>1, <1>2, <1>3, <1>4, <1>5, <1>6, <1>7, <1>8, <1>9, <1>10, <1>11, <1>12, <1>13, <1>14, <1>15,
     <1>16, <1>17, <1>18, <1>19 DEF Next, Start, Pass, Interrupt

LEMMA RangeInit == Init => TypeOK /\ NothingRead /\ SwitchInv
<1> SUFFICES ASSUME Init PROVE TypeOK /\ NothingRead /\ SwitchInv
  OBVIOUS
<1>1. TypeOK /\ NothingRead
  <2>1. load \in Loads /\ hc \in Int /\ lc \in Loads /\ offset \in Offsets
    BY LoadsAssumption, OffsetsAssumption, ConvertedHigh DEF Init
  <2>2. taken \in Readings /\ sample \in Readings /\ taken.value = 0
    BY ConstantFacts DEF Init
  <2>3. changes \in 0..MaxChanges /\ faults \in 0..MaxFaults /\ same \in Nat /\ tries \in Nat
    BY BoundsAssumption DEF Init
  <2> QED
    BY <2>1, <2>2, <2>3 DEF Init, TypeOK, NothingRead, Starting
<1>2. SwitchInv
  BY DEF Init, SwitchInv, IsrInv, TaskInv, FlagMatchesPin, TaskSwitching, Starting
<1> QED
  BY <1>1, <1>2

(* TypeOK of the range switch: a reading of the low range is no negative   *)
(* current (_handle_basic_data_update).                                    *)
THEOREM RangeTyped == Spec => []TypeOK
BY RangeInit, TypeInductive, PTL DEF Spec

(* FlagMatchesPin: after a switch that was alone the daemon reads the      *)
(* sensor whose shunt is selected (_isr_switch_to_hc_mode).                *)
THEOREM RangeMatches == Spec => []FlagMatchesPin
<1>1. SwitchInv => FlagMatchesPin
  BY DEF SwitchInv
<1> QED
  BY <1>1, RangeInit, TypeInductive, SwitchInductive, PTL DEF Spec

=============================================================================
