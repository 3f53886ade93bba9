------------------------------- MODULE MCSeries -------------------------------
(***************************************************************************)
(* Bounded instance of Series.                                             *)
(***************************************************************************)
EXTENDS Series

State(p, props) == [position |-> p, propulsors |-> props]

MCStates == {State(2, <<[id |-> "left", rpm |-> 1], [id |-> "left", rpm |-> 3],
                        [id |-> "right", rpm |-> NotFinite]>>)}

Field(id, type) == [id |-> id, type |-> type]

Schema(fields) == <<[stream |-> "s", rate |-> None, fields |-> fields]>>

MCSpawns ==
    {[name |-> "one", initial |-> <<>>,
      schemas |-> Schema(<<Field("a", "f64"), Field("b", "f64")>>)],
     [name |-> "two", initial |-> <<State(2, <<>>)>>,
      schemas |-> Schema(<<Field("b", "f64"), Field("a", "f64")>>)],
     [name |-> "twice", initial |-> <<>>,
      schemas |-> Schema(<<Field("a", "f64"), Field("a", "f64")>>)]}

Value(type, v) == [type |-> type, v |-> v]

MCFrames ==
    {[stream |-> "s", values |-> <<Value("f64", 1), Value("f64", 2)>>],
     [stream |-> "s", values |-> <<Value("bool", 1), Value("f64", NotFinite)>>]}

(* Six samples, three of them at one instant, with peaks in any bucket.    *)
MCRecordings ==
    {[NoSeries EXCEPT !.states =
        [i \in 1 .. 6 |-> [t |-> <<1, 1, 1, 2, 3, 4>>[i], state |-> State(v[i], <<>>)]]] :
        v \in {<<0, a, 2, b, 3, 0>> : a \in {0, 3}, b \in {1}}}

MCRequests ==
    {[sel |-> [kind |-> "standard", id |-> "position.x"], range |-> <<0, 4>>, max |-> 4],
     [sel |-> [kind |-> "telemetry", stream |-> "s", id |-> "a"], range |-> <<2, 4>>,
      max |-> 3],
     [sel |-> [kind |-> "propulsor", id |-> "left"], range |-> <<2, 4>>, max |-> 4]}
===============================================================================
