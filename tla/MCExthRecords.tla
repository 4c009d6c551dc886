--------------------------- MODULE MCExthRecords ----------------------------
(* Small instances of ExthRecords: a string tag, a numeric one, one that is *)
(* not in the table, and a binary one; integers in range and out of it, a  *)
(* string, a slice, and a value of another type.                           *)
EXTENDS ExthRecords

MCContents == {<<1, 2, 3>>, <<4, 5, 6>>}
MCCalls ==
  {[tag |-> t, value |-> [kind |-> "int", n |-> n]] : t \in {201, 999}, n \in {Short + 5, -1, Uint32 + 5}}
    \cup {[tag |-> t, value |-> v] :
            t \in {100, 201, 300},
            v \in {[kind |-> "string", s |-> <<65>>], [kind |-> "slice", ref |-> "buf"],
                   [kind |-> "int", n |-> 5], [kind |-> "other"]}}
=============================================================================
