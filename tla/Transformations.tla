-------------------------- MODULE Transformations ---------------------------
(***************************************************************************)
(* The functions that internal/projection/process gives to                 *)
(* jsonedit.Transform.                                                     *)
(***************************************************************************)
EXTENDS JsonTree

CONSTANT Md5   \* text -> its hash in hexadecimal

unpack(value) == value

dropKey(value) ==
    IF value.kind # "object" THEN Error
    ELSE IF DOMAIN value.fields = {} THEN Null
    ELSE Listing([k \in DOMAIN value.fields |-> value.fields[k]])

mapToList(value) ==
    LET Item(k, v) == IF v.kind = "object" THEN SetField(v, "id", String(k))
                      ELSE Object([key |-> String(k), value |-> v])
    IN  IF value.kind # "object" THEN Error
        ELSE IF DOMAIN value.fields = {} THEN Null
        ELSE Listing([k \in DOMAIN value.fields |-> Item(k, value.fields[k])])

hash(value) == IF value.kind = "string" THEN String(Md5[value.text]) ELSE value

(* A function value is represented by its name. *)
transformFn(fn, value) ==
    CASE fn = "unpack" -> unpack(value)
      [] fn = "dropKey" -> dropKey(value)
      [] fn = "mapToList" -> mapToList(value)
      [] fn = "hash" -> hash(value)
=============================================================================
