------------------------------ MODULE JsonEdit ------------------------------
(***************************************************************************)
(* pkg/jsonedit: edits of a JSON document along paths.                     *)
(*                                                                         *)
(* A path is what strings.Split(path, "[*]") makes of it: the keys to a    *)
(* value or, in two parts, to a list and from each of its items onwards.   *)
(***************************************************************************)
EXTENDS Transformations

isComplexPath(path) == Len(path) > 1

(* The end of Transform's loop: the item replaces the value, unless there  *)
(* is none or the function returned an error.                              *)
SetItem(json, keys, item) ==
    IF Get(json, keys).kind \in {"missing", "null"} \/ item.kind = "error" THEN json
    ELSE Set(json, keys, item)

(* The body of the loop for a path without "[*]". *)
TransformValue(json, keys, fn) ==
    SetItem(json, keys, transformFn(fn, Unpacked(Get(json, keys))))

(* Applied to each item of the list, which must be one. *)
transformFromComplexPath(json, path, fn) ==
    LET list == Unpacked(Get(json, path[1]))
        Child(i) == TransformValue(list.items[i], path[2], fn)
    IN  IF Len(path) # 2 \/ list.kind # "list" THEN json
        ELSE SetItem(json, path[1], List([i \in DOMAIN list.items |-> Child(i)]))

Transform(json, path, fn) ==
    IF isComplexPath(path) THEN transformFromComplexPath(json, path, fn)
    ELSE TransformValue(json, path[1], fn)

deleteFromComplexPath(json, path) ==
    LET list == Unpacked(Get(json, path[1]))
        Child(i) == DeleteKeys(list.items[i], path[2])
    IN  IF Len(path) # 2 \/ list.kind # "list" THEN json
        ELSE SetItem(json, path[1], List([i \in DOMAIN list.items |-> Child(i)]))

Delete(json, path) ==
    IF isComplexPath(path) THEN deleteFromComplexPath(json, path) ELSE DeleteKeys(json, path[1])

(* Rename: one path without "[*]", ... *)
RenameValue(json, src, dst) ==
    LET value == Get(json, src)
    IN  IF value.kind = "missing" THEN json ELSE DeleteKeys(Set(json, dst, Unpacked(value)), src)

(* ... and one entry of its map.  A list that is null is not decoded; one  *)
(* that is no list would be a panic.  (Mutant: an item without the child   *)
(* is left out of the new list.)                                           *)
RenameDroppingItems(json, src, dst) ==
    IF ~isComplexPath(src) THEN RenameValue(json, src[1], dst[1])
    ELSE IF Get(json, src[1]).kind \in {"missing", "null"} THEN json
    ELSE LET Has(item) == Get(item, src[2]).kind # "missing"
             items == SelectSeq(Unpacked(Get(json, src[1])).items, Has)
         IN  Set(json, dst[1],
                 List([i \in DOMAIN items |-> RenameValue(items[i], src[2], dst[2])]))

Rename(json, src, dst) ==
    IF ~isComplexPath(src) THEN RenameValue(json, src[1], dst[1])
    ELSE IF \/ Len(src) # 2 \/ Len(dst) # 2 \/ src[1] # dst[1]
            \/ Get(json, src[1]).kind \in {"missing", "null"}
    THEN json
    ELSE LET items == Unpacked(Get(json, src[1])).items
         IN  Set(json, dst[1],
                 List([i \in DOMAIN items |-> RenameValue(items[i], src[2], dst[2])]))
=============================================================================
