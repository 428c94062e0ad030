-------------------------- MODULE MCDataTransform --------------------------
(* DataTransform over rows of two key fields and a value: repeated keys,    *)
(* changed values, a key part that is missing, empty or the word null, and  *)
(* texts that hold the separator; and for merging over rows with arrays,    *)
(* objects and names that are inherited.                                    *)
EXTENDS DataTransform

Sep == <<"/">>
X == <<"x">>
Y == <<"y">>

MCPkNames == <<"id", "zone">>

TextRows ==
  { [id |-> X, zone |-> X, val |-> X],
    [id |-> X, zone |-> X, val |-> Y],
    [zone |-> X, val |-> X],
    [id |-> Null, zone |-> X, val |-> Y],
    [id |-> Empty, zone |-> X],
    [id |-> X, zone |-> X \o X],
    [id |-> X \o X, zone |-> X, val |-> Y],
    [id |-> X, zone |-> X \o Sep \o X],
    [id |-> X \o Sep \o X, zone |-> X, val |-> X] }

JsonRows ==
  { [id |-> X, tags |-> Array(<<X>>)],
    [id |-> X, val |-> Y, tags |-> Array(<<Y, X>>), info |-> Object([a |-> X])],
    [id |-> X, tags |-> X, info |-> Object([a |-> Y, b |-> X])],
    [id |-> X, tags |-> Object([constructor |-> X, a |-> X])],
    [id |-> X, constructor |-> Y, info |-> X],
    [id |-> <<"constructor">>, val |-> X] }

MCRows == TextRows \cup JsonRows
=============================================================================
