------------------------------ MODULE MCProbe -------------------------------
(* Devices of every release series and their algorithm configurations.     *)
EXTENDS Probe

CONSTANT s1

Ids == {<<224, 5, 22, 225, 83, 84>>,               \* the shortest layout
        <<224, 5, 22, 225, 83, 86, 84>>,           \* with P-521
        <<224, 5, 22, 225, 83, 86, 84, 87, 88>>,   \* all
        <<224, 5, 22, 225, 10, 86, 84, 255, 88>>,  \* reserved identifiers
        <<224, 5, 22, 225, 5, 86, 84>>,            \* a repeated one
        <<224, 17, 22, 225, 83, 86, 84>>,          \* a fixed one
        <<224, 5, 22>>}                            \* too short

MCConfigs == [flag : 0 .. 1, ids : Ids]

Text(numbers, suffix) == [numbers |-> numbers, suffix |-> suffix]

Plain == [flag |-> 1, ids |-> <<224, 5, 22, 225, 83, 86, 84>>]

MCDevices ==
  [text : {Text(<<1, 3>>, "none"), Text(<<1, 4, 0>>, "none"), Text(<<2, 0, 0>>, "none"),
           Text(<<3, 0, 0>>, "none"), Text(<<3, 0, 9>>, "none"), Text(<<5, 0, 0>>, "none"),
           Text(<<3, 1, 0>>, "malformed")},
   config : {Plain}, switch : {FALSE}, foreign : {FALSE}, serial : {s1}]
    \cup [text : {Text(<<3, 0, 2>>, "none"), Text(<<3, 1, 4>>, "rc"), Text(<<4, 0>>, "none")},
          config : {Plain}, switch : {FALSE}, foreign : BOOLEAN, serial : {s1}]
=============================================================================
