----------------------------- MODULE Conversion -----------------------------
(***************************************************************************)
(* What becomes of one raw reading: normalize.Mapper.Convert decides       *)
(* whether it is refused, accepted or pending, and three judges look at    *)
(* the result, each with bounds of its own: Diagnose, Evaluate (alerts)    *)
(* and Policy.Check.                                                       *)
(*                                                                         *)
(* A raw key is a measure, or something the vendor's alias table does not  *)
(* know, in one of several spellings that NormalizeKey folds together.     *)
(* Values are integers in place of float64, and NotFinite stands for NaN   *)
(* and the infinities.  Texts, ids and times are left out: an id of a      *)
(* converted reading is never blank, nor are its field and capture time.   *)
(***************************************************************************)
EXTENDS Integers

CONSTANTS
  Spellings,    \* ways to write a key: case, dashes, blanks around it
  NotFinite,    \* a value that is no number
  SettingsSet,  \* settings the service may be created with
  Raws          \* raw readings an adapter may deliver

Measures == {"moisture", "temperature", "light", "battery"}
Keys == (Measures \cup {"unknown"}) \X Spellings
Limits == [low : Int, high : Int]
Values == Int \cup {NotFinite}

Raw == [known : BOOLEAN, named : BOOLEAN, field : {"absent", "blank", "given"},
        stamped : BOOLEAN, values : UNION {[K -> Values] : K \in SUBSET Keys}]

ASSUME NotFiniteAssumption == NotFinite \notin Int
ASSUME SettingsAssumption ==
  \A s \in SettingsSet : s \in [Measures -> Limits]
ASSUME RawsAssumption ==
  \A raw \in Raws :
    /\ raw.known \in BOOLEAN /\ raw.named \in BOOLEAN /\ raw.stamped \in BOOLEAN
    /\ DOMAIN raw.values \subseteq Keys
    /\ \A k \in DOMAIN raw.values : raw.values[k] \in Values

VARIABLES
  settings,  \* Mapper.settings
  raw,       \* the raw reading at hand
  reading    \* what it converts to

vars == <<settings, raw, reading>>

None == [status |-> "none"]
Refused == [status |-> "refused"]

\* Settings.Validate, which ProcessBatch asks first.
Validate(s) ==
  /\ s["moisture"].low < s["moisture"].high
  /\ s["temperature"].low < s["temperature"].high

-----------------------------------------------------------------------------
(* Convert *)

\* CheckRawReading, the vendor's alias table, and SensorReading.Validate,
\* which trims the field.
Complete(r) ==
  /\ r.known
  /\ r.named
  /\ r.field = "given"
  /\ r.stamped
  /\ DOMAIN r.values # {}

KeysOf(r, measure) == {k \in DOMAIN r.values : k[1] = measure}

\* The values a raw reading may be given: a measure it lacks is zero, and of
\* several keys for one measure the map iteration comes to any one last.
MayRead(r, measure) ==
  IF KeysOf(r, measure) = {} THEN {0}
  ELSE {r.values[k] : k \in KeysOf(r, measure)}

\* Mutant: an infinite or undefined value passes, as it is not below or above.
WithinUnlessNotFinite(value, range) ==
  value = NotFinite \/ (value >= range.low /\ value <= range.high)

Within(value, range) ==
  value # NotFinite /\ value >= range.low /\ value <= range.high

\* Mapper.ValidateValues.
ValidateValues(values) ==
  \A measure \in Measures : Within(values[measure], settings[measure])

\* Mutant: a reading out of range is marked as retried.
StatusOfRetried(values) == IF ValidateValues(values) THEN "accepted" ELSE "retried"

StatusOf(values) == IF ValidateValues(values) THEN "accepted" ELSE "pending"

Convert ==
  /\ reading = None
  /\ Complete(raw)
  /\ \E m \in MayRead(raw, "moisture"), t \in MayRead(raw, "temperature"),
        l \in MayRead(raw, "light"), b \in MayRead(raw, "battery") :
       LET values == [measure \in Measures |->
                        CASE measure = "moisture" -> m
                          [] measure = "temperature" -> t
                          [] measure = "light" -> l
                          [] measure = "battery" -> b]
       IN  reading' = [status |-> StatusOf(values), values |-> values]
  /\ UNCHANGED <<settings, raw>>

Refuse ==
  /\ reading = None
  /\ ~Complete(raw)
  /\ reading' = Refused
  /\ UNCHANGED <<settings, raw>>

\* ConvertMany goes on to the next raw reading.
Proceed ==
  /\ reading # None
  /\ reading' = None
  /\ raw' \in Raws
  /\ UNCHANGED settings

Init ==
  /\ settings \in {s \in SettingsSet : Validate(s)}
  /\ raw \in Raws
  /\ reading = None

Next == Convert \/ Refuse \/ Proceed

Spec == Init /\ [][Next]_vars

-----------------------------------------------------------------------------
(* The judges *)

Issue(code, severity) == [code |-> code, severity |-> severity]

\* normalize.Diagnose.
Diagnose(values) ==
  {Issue(<<"not_finite", m>>, "critical") : m \in {n \in Measures : values[n] = NotFinite}}
  \cup {Issue(<<"low", m>>, "warning") :
          m \in {n \in {"battery"} : Within(values[n], [low |-> 0, high |-> 9])}}

\* Mutant: a pending reading is left to the diagnosis.
EvaluateDiagnosis(r) == Diagnose(r.values)

\* alerts.Evaluate, on one reading.
Evaluate(r) ==
  LET issues == Diagnose(r.values)
  IN  IF r.status = "pending" /\ issues = {} THEN {Issue(<<"pending">>, "warning")}
      ELSE issues

\* alerts.Policy.Check, of the policy that PolicyFromSettings makes.
Check(values) ==
  {Issue(<<"range", m>>, "critical") :
     m \in {n \in Measures \ {"battery"} : ~Within(values[n], settings[n])}}
  \cup {Issue(<<"battery_low">>, "warning") :
          m \in {n \in {"battery"} : Within(values[n], [low |-> 0, high |-> 14])}}

Critical(issues) == \E i \in issues : i.severity = "critical"

-----------------------------------------------------------------------------
(* Properties *)

Converted == reading.status \in {"accepted", "pending"}

\* The state is a raw reading and nothing, a refusal or a reading.
TypeOK ==
  /\ settings \in [Measures -> Limits]
  /\ raw \in Raws
  /\ reading = None \/ reading = Refused
     \/ /\ reading.status \in {"accepted", "pending"}
        /\ reading.values \in [Measures -> Values]

\* A reading that was accepted draws no critical issue from the diagnosis and
\* no critical alert from the policy of the same settings, though each of the
\* three has a table of bounds of its own.
AcceptedIsSound ==
  reading.status = "accepted" =>
    ~Critical(Diagnose(reading.values)) /\ ~Critical(Check(reading.values))

\* If the alerts are clear, every value is within the settings, though the
\* alerts are raised from the diagnosis and the status, and not the settings.
ClearIsInRange ==
  Converted /\ Evaluate(reading) = {} => ValidateValues(reading.values)
=============================================================================
