---------------------------- MODULE MCServerTable ----------------------------
(* A few configurations of the view, the odd ones included. *)
EXTENDS ServerTable

CONSTANTS a1, a2, dev11, uat

Row(names, types) == [names |-> names, types |-> types, hasCom |-> TRUE]

TwoRows  == <<Row(<<a1, a2>>, <<dev11>>), Row(<<a1>>, <<uat>>)>>
OneRow   == <<Row(<<a1>>, <<dev11, uat>>)>>
EmptyEnv == <<Row(<<a1>>, <<dev11, Blank>>)>>
Nameless == <<Row(<<>>, <<uat>>), Row(<<a1, Blank>>, <<>>)>>
NoCom    == <<[Row(<<a1>>, <<uat>>) EXCEPT !.hasCom = FALSE]>>

MCConfigs == {<<>>, TwoRows, OneRow, EmptyEnv, Nameless, NoCom}
=============================================================================
