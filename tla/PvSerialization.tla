-------------------------- MODULE PvSerialization --------------------------
(***************************************************************************)
(* What a client reads of a PV's structure in the two serializations that  *)
(* a command can choose: MessagePack (MsgpackEpicsConverter) and JSON      *)
(* (JsonSerializer).  Structures are those of PvMerge; the numbers of a    *)
(* field have the type field.of.  A scalar is written in its own type and  *)
(* a nested structure field by field.                                      *)
(***************************************************************************)
EXTENDS Integers, PvMerge

Serialization == {"JSON", "Msgpack"}

(* a number converted to an integer type of the given width *)
Signed(x, w) == ((x + 2 ^ (w - 1)) % 2 ^ w) - 2 ^ (w - 1)
Unsigned(x, w) == x % 2 ^ w
Converted(x, type) ==
  CASE type = "byte" -> Signed(x, 8)
    [] type = "short" -> Signed(x, 16)
    [] type = "ushort" -> Unsigned(x, 16)
    [] OTHER -> x

Written(field, type) ==
  [field EXCEPT !.leaves = [l \in DOMAIN @ |-> Converted(@[l], type)]]

(* MessagePack writes an array of shorts as unsigned ones *)
MsgpackArrayType(type) == IF type = "short" THEN "ushort" ELSE type
packField(field) ==
  Written(field, IF field.type = "scalarArray" THEN MsgpackArrayType(field.of) ELSE field.of)
epicsToMsgpack(structure) == [f \in DOMAIN structure |-> packField(structure[f])]

(* JSON writes an array of shorts as bytes *)
JsonArrayType(type) == IF type = "short" THEN "byte" ELSE type
processField(field) ==
  Written(field, IF field.type = "scalarArray" THEN JsonArrayType(field.of) ELSE field.of)

(* the members of a union array are skipped; the value of a union is written *)
(* under the key of the structure, and the structure replaces it             *)
Kept(structure) == {f \in DOMAIN structure : structure[f].type \notin Unions}
processStructure(structure) == [f \in Kept(structure) |-> processField(structure[f])]

Serialized(structure, ser) ==
  IF ser = "JSON" THEN processStructure(structure) ELSE epicsToMsgpack(structure)
=============================================================================
