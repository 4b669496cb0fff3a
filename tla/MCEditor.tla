------------------------------ MODULE MCEditor ------------------------------
(* Small instances of Editor for TLC.                                      *)
EXTENDS Editor

OneNode    == 1..1
TwoNodes   == 1..2
Typewriter == {"insert", "backspace"}
Clicking   == {"insert", "backspace", "select"}
Deleting   == {"insert", "delete"}

====
