---------------------------- MODULE MCConversion ----------------------------
(* Instances of Conversion: raw readings that differ from a sound one in one *)
(* value, in the keys they have, or in what else makes them complete.       *)
EXTENDS Conversion, TLC

Bounds(l, h) == [low |-> l, high |-> h]

WithBounds(light, battery) ==
  [measure \in Measures |->
     CASE measure = "moisture" -> Bounds(0, 100)
       [] measure = "temperature" -> Bounds(-40, 80)
       [] measure = "light" -> light
       [] measure = "battery" -> battery]

\* config.Default.
DefaultSettings == WithBounds(Bounds(0, 150000), Bounds(0, 100))

\* The default, and one that wants a better battery.
UsualSettings == {DefaultSettings, WithBounds(Bounds(0, 150000), Bounds(20, 100))}

Plain(measure) == <<measure, "plain">>
Dashed(measure) == <<measure, "dashed">>

SoundValues ==
  Plain("moisture") :> 45 @@ Plain("temperature") :> 20
  @@ Plain("light") :> 300 @@ Plain("battery") :> 88

Odd == {-41, -1, 0, 9, 10, 14, 15, 20, 81, 101, 150001, NotFinite}

RawOf(known, named, field, stamped, values) ==
  [known |-> known, named |-> named, field |-> field, stamped |-> stamped, values |-> values]

Delivered(values) == RawOf(TRUE, TRUE, "given", TRUE, values)

SampleRaws ==
  {RawOf(v, n, f, s, SoundValues) :
     v \in BOOLEAN, n \in BOOLEAN, f \in {"absent", "blank", "given"}, s \in BOOLEAN}
  \cup {Delivered([SoundValues EXCEPT ![Plain(m)] = v]) : m \in Measures, v \in Odd}
  \cup {Delivered((Dashed(m) :> v) @@ SoundValues) : m \in Measures, v \in Odd}
  \cup {Delivered([k \in K |-> SoundValues[k]]) : K \in SUBSET DOMAIN SoundValues}
  \cup {Delivered(Plain("unknown") :> 1)}
=============================================================================
