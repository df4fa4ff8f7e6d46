-------------------------- MODULE ConversionProofs --------------------------
(***************************************************************************)
(* The judges of a reading agree with its status, for all settings, raw    *)
(* readings and spellings.                                                 *)
(***************************************************************************)
EXTENDS Conversion, TLAPS

\* Every state is well typed, for all settings and all raw readings of the
\* declared types: what a raw reading may be given is a value.
THEOREM TypeCorrect == Spec => []TypeOK
<1>1. Init => TypeOK
  BY SettingsAssumption DEF Init, TypeOK
<1>2. TypeOK /\ [Next]_vars => TypeOK'
  <2>. SUFFICES ASSUME TypeOK, [Next]_vars PROVE TypeOK'
    OBVIOUS
  <2>1. CASE Convert
    <3>1. \A measure : MayRead(raw, measure) \subseteq Values
      <4>. SUFFICES ASSUME NEW measure, NEW v \in MayRead(raw, measure)
                    PROVE  v \in Values
        OBVIOUS
      <4>1. CASE KeysOf(raw, measure) = {}
        BY <4>1 DEF MayRead, Values
      <4>2. CASE KeysOf(raw, measure) # {}
        <5>1. PICK k \in KeysOf(raw, measure) : v = raw.values[k]
          BY <4>2 DEF MayRead
        <5>2. k \in DOMAIN raw.values /\ raw \in Raws
          BY DEF KeysOf, TypeOK
        <5>. QED
          BY <5>1, <5>2, RawsAssumption
      <4>. QED
        BY <4>1, <4>2
    <3>2. PICK m \in MayRead(raw, "moisture"), t \in MayRead(raw, "temperature"),
               l \in MayRead(raw, "light"), b \in MayRead(raw, "battery") :
            LET values == [measure \in Measures |->
                             CASE measure = "moisture" -> m
                               [] measure = "temperature" -> t
                               [] measure = "light" -> l
                               [] measure = "battery" -> b]
            IN  reading' = [status |-> StatusOf(values), values |-> values]
      BY <2>1 DEF Convert
    <3>. DEFINE values == [measure \in Measures |->
                             CASE measure = "moisture" -> m
                               [] measure = "temperature" -> t
                               [] measure = "light" -> l
                               [] measure = "battery" -> b]
    <3>3. m \in Values /\ t \in Values /\ l \in Values /\ b \in Values
      BY <3>1
    <3>4. values \in [Measures -> Values]
      BY <3>3 DEF Measures
    <3>. HIDE DEF values
    <3>5. reading' = [status |-> StatusOf(values), values |-> values]
      BY <3>2 DEF values
    <3>6. StatusOf(values) \in {"accepted", "pending"}
      BY DEF StatusOf
    <3>7. reading'.status = StatusOf(values) /\ reading'.values = values
      BY <3>5
    <3>8. settings' = settings /\ raw' = raw
      BY <2>1 DEF Convert
    <3>. QED
      BY <3>4, <3>6, <3>7, <3>8 DEF TypeOK
  <2>2. CASE Refuse
    BY <2>2 DEF Refuse, TypeOK
  <2>3. CASE Proceed
    BY <2>3 DEF Proceed, TypeOK
  <2>4. CASE UNCHANGED vars
    BY <2>4 DEF vars, TypeOK
  <2>. QED
    BY <2>1, <2>2, <2>3, <2>4 DEF Next
<1>. QED
  BY <1>1, <1>2, PTL DEF Spec

\* The status of a converted reading is that of its values: the settings do
\* not change.
StatusInv ==
  Converted => reading.status = StatusOf(reading.values)

LEMMA StatusHolds == Spec => []StatusInv
<1>1. Init => StatusInv
  BY DEF Init, StatusInv, Converted, None
<1>2. StatusInv /\ [Next]_vars => StatusInv'
  <2>. SUFFICES ASSUME StatusInv, [Next]_vars PROVE StatusInv'
    OBVIOUS
  <2>1. CASE Convert
    <3>1. PICK values : reading' = [status |-> StatusOf(values), values |-> values]
      BY <2>1 DEF Convert
    <3>2. settings' = settings
      BY <2>1 DEF Convert
    <3>3. reading'.status = StatusOf(values) /\ reading'.values = values
      BY <3>1
    <3>4. StatusOf(reading.values)' = StatusOf(values)
      BY <3>2, <3>3 DEF StatusOf, ValidateValues
    <3>. QED
      BY <3>3, <3>4 DEF StatusInv
  <2>2. CASE Refuse
    BY <2>2 DEF Refuse, StatusInv, Converted, Refused
  <2>3. CASE Proceed
    BY <2>3 DEF Proceed, StatusInv, Converted, None
  <2>4. CASE UNCHANGED vars
    BY <2>4 DEF vars, StatusInv, Converted, StatusOf, ValidateValues
  <2>. QED
    BY <2>1, <2>2, <2>3, <2>4 DEF Next
<1>. QED
  BY <1>1, <1>2, PTL DEF Spec

\* Values within the settings draw nothing critical from either judge.
LEMMA WithinIsSound ==
  ASSUME NEW values, ValidateValues(values)
  PROVE  ~Critical(Diagnose(values)) /\ ~Critical(Check(values))
<1>1. \A i \in Diagnose(values) : i.severity = "warning"
  BY DEF ValidateValues, Within, Diagnose, Issue
<1>2. \A i \in Check(values) : i.severity = "warning"
  BY DEF ValidateValues, Check, Issue
<1>. QED
  BY <1>1, <1>2 DEF Critical

\* An accepted reading draws no critical issue and no critical alert.
THEOREM AcceptedSound == Spec => []AcceptedIsSound
<1>1. StatusInv => AcceptedIsSound
  <2>. SUFFICES ASSUME StatusInv, reading.status = "accepted"
                PROVE  /\ ~Critical(Diagnose(reading.values))
                       /\ ~Critical(Check(reading.values))
    BY DEF AcceptedIsSound
  <2>1. ValidateValues(reading.values)
    BY DEF StatusInv, Converted, StatusOf
  <2>. QED
    BY <2>1, WithinIsSound
<1>. QED
  BY <1>1, StatusHolds, PTL

\* Readings that raise no alert are within the settings.
THEOREM ClearInRange == Spec => []ClearIsInRange
<1>1. StatusInv => ClearIsInRange
  <2>. SUFFICES ASSUME StatusInv, Converted, Evaluate(reading) = {}
                PROVE  ValidateValues(reading.values)
    BY DEF ClearIsInRange
  <2>1. reading.status # "pending"
    BY DEF Evaluate
  <2>. QED
    BY <2>1 DEF StatusInv, Converted, StatusOf
<1>. QED
  BY <1>1, StatusHolds, PTL
=============================================================================
