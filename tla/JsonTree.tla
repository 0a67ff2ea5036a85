------------------------------ MODULE JsonTree -------------------------------
(***************************************************************************)
(* JSON documents as trees of tagged values, with the operations of gjson  *)
(* and sjson that the code uses.  What matters of a string is its identity *)
(* and whether it is itself the encoding of a JSON value: Parsed says so.  *)
(***************************************************************************)
EXTENDS Naturals, Sequences

CONSTANT Parsed   \* text -> the value json.Unmarshal makes of it

Null == [kind |-> "null"]
Number(n) == [kind |-> "number", value |-> n]
String(text) == [kind |-> "string", text |-> text]
Object(fields) == [kind |-> "object", fields |-> fields]
List(items) == [kind |-> "list", items |-> items]

(* A list made of a Go map has the order in which the map is iterated,     *)
(* which is random; its items are told apart by the keys they come from.   *)
Listing(byKey) == [kind |-> "listing", byKey |-> byKey]

Missing == [kind |-> "missing"]  \* value.Exists() is false
Error == [kind |-> "error"]      \* a function that returned an error

NoFields == [k \in {} |-> Null]

-----------------------------------------------------------------------------
Field(json, k) ==
    IF json.kind = "object" /\ k \in DOMAIN json.fields THEN json.fields[k] ELSE Missing

SetField(json, k, value) ==
    LET fields == IF json.kind = "object" THEN json.fields ELSE NoFields
    IN  Object([f \in DOMAIN fields \cup {k} |-> IF f = k THEN value ELSE fields[f]])

DropField(json, k) == Object([f \in DOMAIN json.fields \ {k} |-> json.fields[f]])

(* gjson.Get, sjson.Set and sjson.Delete (external), along one or two      *)
(* keys: no path of the code has more on either side of a "[*]".           *)
Get(json, keys) ==
    IF Len(keys) = 1 THEN Field(json, keys[1]) ELSE Field(Field(json, keys[1]), keys[2])

Set(json, keys, value) ==
    IF Len(keys) = 1 THEN SetField(json, keys[1], value)
    ELSE SetField(json, keys[1], SetField(Field(json, keys[1]), keys[2], value))

DeleteKeys(json, keys) ==
    IF Get(json, keys).kind = "missing" THEN json
    ELSE IF Len(keys) = 1 THEN DropField(json, keys[1])
    ELSE SetField(json, keys[1], DropField(Field(json, keys[1]), keys[2]))

(* value.String() decoded by json.Unmarshal, or as it is if that fails.    *)
(* The string of null is empty.                                            *)
Unpacked(value) ==
    IF value.kind = "string" /\ value.text \in DOMAIN Parsed THEN Parsed[value.text]
    ELSE IF value.kind = "null" THEN String("")
    ELSE value
=============================================================================
