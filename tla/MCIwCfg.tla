------------------------------ MODULE MCIwCfg -------------------------------
(* The instance of IwCfg for TLC.                                          *)
EXTENDS IwCfg, TLC

CONSTANTS port, file_name,              \* names
          one, seven, local,            \* texts: 1, 7, an address,
          bell, latin,                  \* a control character, no UTF-8
          loopback                      \* an address

NumberTable == [text \in {one, seven} |-> IF text = one THEN 1 ELSE 7]
AddressTable == [text \in {local} |-> loopback]

Crit(type, persist, fn, regexp) ==
  [type |-> type, persist |-> persist, fn |-> fn, regexp |-> regexp]
Declare(name, crit, default) ==
  [name |-> name, criteria |-> crit, default |-> default]
NumberValue(number) == [type |-> "NUMBER", v |-> number]

\* A number with and without criteria and the persist flag, a string and an address.
Settings ==
  {Declare(port, Crit("NUMBER", TRUE, INT, {-1, 1}), NumberValue(1)),
   Declare(port, Crit("NUMBER", FALSE, INT, INT), NumberValue(-1)),
   Declare(file_name, Crit("STRING", TRUE, Text \ {one}, Text), NoValue),
   Declare(file_name, Crit("ADDRESS", TRUE, Address, Address), NoValue)}

\* No file, and one with a boolean, a number beyond int, a string.
Edits ==
  {Damaged,
   (port :> [kind |-> "boolean", v |-> 1]) @@ (file_name :> [kind |-> "string", v |-> local]),
   (port :> [kind |-> "number", v |-> 7]) @@ (file_name :> NoValue)}
=============================================================================
