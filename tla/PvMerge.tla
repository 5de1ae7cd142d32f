------------------------------ MODULE PvMerge ------------------------------
(***************************************************************************)
(* PVStructureMerger: joins the structures that two requests on one PV     *)
(* returned.  A structure is a function from field names to fields; a      *)
(* field has a type, the type of its numbers and its leaves, a function    *)
(* from the paths inside it to values (a scalar or an array has one leaf). *)
(* A null structure has no fields.                                         *)
(***************************************************************************)
EXTENDS Integers, Sequences

NoStructure == [f \in {} |-> 0]
Unions == {"union", "unionArray"}

Field(type, of, leaves) == [type |-> type, of |-> of, leaves |-> leaves, inside |-> {}]

(* the definition of a field: its type and leaves, without values *)
copyStructureDefinition(field) == [field EXCEPT !.leaves = [l \in DOMAIN @ |-> 0]]

(* a union may not hold a union: the definition cannot be built *)
copyUnionDefinition(field) ==
  IF field.inside \cap Unions # {}
    THEN [field EXCEPT !.type = "unsupported"]
    ELSE copyStructureDefinition(field)

addFieldToBuilder(field) ==
  IF field.type \in Unions THEN copyUnionDefinition(field) ELSE copyStructureDefinition(field)

(* leaf by leaf for a structure, as a whole for any other type *)
copyStructureValue(dest, src) ==
  [dest EXCEPT !.leaves = [l \in DOMAIN @ |-> IF l \in DOMAIN src.leaves THEN src.leaves[l] ELSE @[l]]]

StructureNotCopied(dest, src) == IF src.type = "structure" THEN dest ELSE src

copyFieldValue(dest, src) ==
  IF src.type = "structure" THEN copyStructureValue(dest, src) ELSE src

(* the fields that a request asked for and got *)
Found(item) == {f \in item.field_names : f \in DOMAIN item.structure}

(* the first source that has a field defines it *)
MergedDefinition(items) ==
  LET has(f) == {i \in DOMAIN items : f \in Found(items[i])}
      first(f) == CHOOSE i \in has(f) : \A j \in has(f) : i <= j
  IN [f \in UNION {Found(items[i]) : i \in DOMAIN items} |->
        addFieldToBuilder(items[first(f)].structure[f])]

(* two sources disagree on the type of a field, or a type is not supported *)
MergeThrows(items) ==
  LET dest == MergedDefinition(items)
  IN \E i \in DOMAIN items : \E f \in Found(items[i]) : dest[f].type # items[i].structure[f].type

(* every source that has a field copies its value, the last one last *)
mergeStructureAndValue(items) ==
  LET definition == MergedDefinition(items)
      copied[n \in 0 .. Len(items)] ==
        IF n = 0 THEN definition
        ELSE [f \in DOMAIN definition |->
                IF f \in Found(items[n])
                  THEN copyFieldValue(copied[n - 1][f], items[n].structure[f])
                  ELSE copied[n - 1][f]]
  IN copied[Len(items)]
=============================================================================
