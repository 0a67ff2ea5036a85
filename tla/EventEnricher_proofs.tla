------------------------ MODULE EventEnricher_proofs ------------------------
(***************************************************************************)
(* Proofs about the event enricher: the document that comes out of its     *)
(* edits, for every event and every snapshot.                              *)
(***************************************************************************)
EXTENDS EventEnricher, FiniteSetTheorems, WellFoundedInduction, TLAPS

-----------------------------------------------------------------------------
(* Objects are compared field by field; a field that is not there is       *)
(* Missing.                                                                *)
Proper(v) ==
    /\ v = Object([k \in DOMAIN v.fields |-> v.fields[k]])
    /\ \A k \in DOMAIN v.fields : v.fields[k].kind # "missing"

LEMMA ProperKind == ASSUME NEW v, Proper(v) PROVE v.kind = "object"
  BY DEF Proper, Object

LEMMA ObjectField ==
    ASSUME NEW D, NEW f, f = [k \in D |-> f[k]]
    PROVE  /\ Object(f).kind = "object" /\ Object(f).fields = f
           /\ (\A k \in D : f[k].kind # "missing") => Proper(Object(f))
           /\ \A k : Field(Object(f), k) = IF k \in D THEN f[k] ELSE Missing
  BY DEF Proper, Object, Field

LEMMA ProperField ==
    ASSUME NEW d, Proper(d), NEW k, Field(d, k).kind = "missing" PROVE Field(d, k) = Missing
  BY ProperKind DEF Proper, Field

LEMMA IsObjectProper ==
    ASSUME NEW o, IsObject(o)
    PROVE  Proper(o) /\ \A k : Field(o, k) = Missing \/ Field(o, k).kind \in JsonKinds
  BY DEF Proper, IsObject, Object, Field, JsonKinds

LEMMA SetFieldIs ==
    ASSUME NEW d, NEW k, NEW v
    PROVE  /\ v.kind # "missing" /\ (d.kind = "object" => Proper(d)) => Proper(SetField(d, k, v))
           /\ SetField(d, k, v).kind = "object"
           /\ \A f : Field(SetField(d, k, v), f) = IF f = k THEN v ELSE Field(d, f)
  <1>1. PICK fields : fields = IF d.kind = "object" THEN d.fields ELSE NoFields
    OBVIOUS
  <1>2. PICK g : g = [x \in DOMAIN fields \cup {k} |-> IF x = k THEN v ELSE fields[x]]
    OBVIOUS
  <1>3. SetField(d, k, v) = Object(g)
    BY <1>1, <1>2 DEF SetField
  <1>4. /\ Object(g).kind = "object"
        /\ (\A x \in DOMAIN fields \cup {k} : g[x].kind # "missing") => Proper(Object(g))
        /\ \A f : Field(Object(g), f) = IF f \in DOMAIN fields \cup {k} THEN g[f] ELSE Missing
    BY <1>2, ObjectField
  <1>5. \A f : f # k => Field(d, f) = IF f \in DOMAIN fields THEN fields[f] ELSE Missing
    BY <1>1 DEF Field, NoFields
  <1>6. (d.kind = "object" => Proper(d)) => \A x \in DOMAIN fields : fields[x].kind # "missing"
    BY <1>1 DEF Proper, NoFields
  <1>7. ASSUME v.kind # "missing", d.kind = "object" => Proper(d)
        PROVE  Proper(Object(g))
    BY <1>2, <1>4, <1>6, <1>7
  <1>8. \A f : Field(Object(g), f) = IF f = k THEN v ELSE Field(d, f)
    BY <1>2, <1>4, <1>5
  <1> QED
    BY <1>3, <1>4, <1>7, <1>8

LEMMA DropFieldIs ==
    ASSUME NEW d, d.kind = "object", NEW k
    PROVE  /\ Proper(d) => Proper(DropField(d, k))
           /\ \A f : Field(DropField(d, k), f) = IF f = k THEN Missing ELSE Field(d, f)
  <1>1. PICK g : g = [x \in DOMAIN d.fields \ {k} |-> d.fields[x]]
    OBVIOUS
  <1>2. /\ (\A x \in DOMAIN d.fields \ {k} : g[x].kind # "missing") => Proper(Object(g))
        /\ \A f : Field(Object(g), f) = IF f \in DOMAIN d.fields \ {k} THEN g[f] ELSE Missing
    BY <1>1, ObjectField
  <1>3. Proper(d) => \A x \in DOMAIN d.fields : d.fields[x].kind # "missing"
    BY DEF Proper
  <1> QED
    BY <1>1, <1>2, <1>3 DEF DropField, Field

(* Objects that have the same fields are equal. *)
LEMMA SameFields ==
    ASSUME NEW c, Proper(c), NEW d, Proper(d), \A k : Field(c, k) = Field(d, k)
    PROVE  c = d
  <1>1. c.kind = "object" /\ d.kind = "object"
    BY ProperKind
  <1>2. /\ \A k \in DOMAIN c.fields : c.fields[k] # Missing
        /\ \A k \in DOMAIN d.fields : d.fields[k] # Missing
    BY DEF Proper, Missing
  <1>3. \A k : k \in DOMAIN c.fields <=> k \in DOMAIN d.fields
    BY <1>1, <1>2 DEF Field
  <1>4. DOMAIN c.fields = DOMAIN d.fields
    BY <1>3
  <1>5. \A k \in DOMAIN c.fields : c.fields[k] = d.fields[k]
    BY <1>1, <1>4 DEF Field
  <1>6. [k \in DOMAIN c.fields |-> c.fields[k]] = [k \in DOMAIN d.fields |-> d.fields[k]]
    BY <1>4, <1>5
  <1> QED
    BY <1>6 DEF Proper

-----------------------------------------------------------------------------
(* The edits: a step at a path, which is key k of the objects of a group.  *)
Groups == {"cluster", "host", "hostInfraEnv", "infraEnv"}
Transforms == {"unpack", "dropKey", "mapToList", "hash"}
Steps == Transforms \cup {"rename", "delete"}

Earlier(step) ==
    CASE step = "dropKey" -> {"unpack"}
      [] step = "mapToList" -> {"unpack", "dropKey"}
      [] step = "hash" -> {"unpack", "dropKey", "mapToList"}
      [] step = "rename" -> Transforms
      [] step = "delete" -> Transforms \cup {"rename"}
      [] step \in {"summary", "done"} -> Steps
      [] OTHER -> {}

Path(g, k) ==
    CASE g = "cluster" -> OfCluster(k)
      [] g = "host" -> OfHost(k)
      [] g = "hostInfraEnv" -> OfHostInfraEnv(k)
      [] OTHER -> OfInfraEnv(k)

Keys(step, g) ==
    CASE step = "unpack" /\ g = "cluster" ->
           {"feature_usage", "validations_info", "connectivity_majority_groups"}
      [] step = "unpack" /\ g = "host" ->
           {"inventory", "connectivity", "disks_info", "domain_name_resolutions",
            "free_addresses", "images_status", "ntp_sources", "validations_info"}
      [] step = "dropKey" /\ g = "cluster" -> {"feature_usage"}
      [] step = "mapToList" /\ g = "cluster" -> {"connectivity_majority_groups"}
      [] step = "mapToList" /\ g = "host" -> {"disks_info", "images_status"}
      [] step \in {"hash", "rename"} -> {"user_name"}
      [] step = "delete" /\ g = "cluster" -> {"pull_secret", "ssh_public_key"}
      [] step = "delete" /\ g \in {"hostInfraEnv", "infraEnv"} -> {"ssh_authorized_key"}
      [] OTHER -> {}

Paths(step) == UNION {{Path(g, k) : k \in Keys(step, g)} : g \in Groups}

Edits == UNION {{<<step, path>> : path \in Paths(step)} : step \in Steps}

(* The edits made when step st has the paths pd still to visit. *)
Made(st, pd) ==
    {e \in Edits : \/ e[1] \in Earlier(st)
                   \/ e[1] = st /\ e[2] \notin {pd[i] : i \in DOMAIN pd}}

-----------------------------------------------------------------------------
(* What the edits in E make of field k of an object o of group g. *)
Applied(step, v) ==
    IF v.kind \in {"missing", "null"} \/ transformFn(step, Unpacked(v)).kind = "error" THEN v
    ELSE transformFn(step, Unpacked(v))

Has(E, step, g, k) == <<step, Path(g, k)>> \in E

IfMade(E, step, g, k, v) == IF Has(E, step, g, k) THEN Applied(step, v) ELSE v

Transformed(E, g, o, k) ==
    IfMade(E, "hash", g, k, IfMade(E, "mapToList", g, k,
        IfMade(E, "dropKey", g, k, IfMade(E, "unpack", g, k, Field(o, k)))))

FieldAt(E, g, o, k) ==
    IF /\ k = "user_id"
       /\ Has(E, "rename", g, "user_name")
       /\ Field(o, "user_name").kind # "missing"
    THEN Unpacked(Transformed(E, g, o, "user_name"))
    ELSE IF Has(E, "rename", g, k) \/ Has(E, "delete", g, k) THEN Missing
    ELSE Transformed(E, g, o, k)

(* c is the object o of group g after the edits in E, but for the fields   *)
(* in except, which are objects or lists of objects of another group.      *)
ObjectAt(E, g, o, c, except) ==
    /\ Proper(c)
    /\ \A k : k \notin except => Field(c, k) = FieldAt(E, g, o, k)

(* The infra-env embedded in host i, if one is. *)
Matches(in, i) ==
    {j \in DOMAIN in.infraEnvs : Key(in.infraEnvs[j], "id") = Field(in.hosts[i], "infra_env_id")}

Embedded(in, i) == in.infraEnvs[CHOOSE j \in Matches(in, i) : \A l \in Matches(in, i) : l <= j]

HostAt(E, in, i, c) ==
    /\ ObjectAt(E, "host", in.hosts[i], c, {"infra_env"})
    /\ IF Matches(in, i) = {} THEN Field(c, "infra_env") = Missing
       ELSE ObjectAt(E, "hostInfraEnv", Embedded(in, i), Field(c, "infra_env"), {})

InfraEnvAt(E, in, i, c) == ObjectAt(E, "infraEnv", in.infraEnvs[i], c, {})

HostsAt(E, in, v) ==
    IF in.hosts = <<>> THEN v = Null
    ELSE /\ v = List([i \in DOMAIN in.hosts |-> v.items[i]])
         /\ \A i \in DOMAIN in.hosts : HostAt(E, in, i, v.items[i])

InfraEnvsAt(E, in, v) ==
    IF in.infraEnvs = <<>> THEN v = Missing
    ELSE /\ v = List([i \in DOMAIN in.infraEnvs |-> v.items[i]])
         /\ \A i \in DOMAIN in.infraEnvs : InfraEnvAt(E, in, i, v.items[i])

(* d is the document of the input after the edits in E. *)
DocumentAt(E, in, d) ==
    /\ Proper(d)
    /\ ObjectAt(E, "cluster", in.cluster, Field(d, "cluster"), {"hosts"})
    /\ HostsAt(E, in, Field(Field(d, "cluster"), "hosts"))
    /\ InfraEnvsAt(E, in, Field(d, "infra_envs"))

(* A step has its own paths to visit, each once. *)
PendingInv ==
    /\ pending \in Seq(Paths(stage))
    /\ \A i, j \in DOMAIN pending : pending[i] = pending[j] => i = j

DocumentInv == stage # "base" => DocumentAt(Made(stage, pending), input, json)

SummaryInv == stage = "done" => summary \in AddHostsSummary(json)

(* The control of the loops, for whatever input. *)
LoopInv ==
    /\ input \in Inputs
    /\ stage \in {"base", "summary", "done"} \cup Steps
    /\ PendingInv

EnricherInv == LoopInv /\ DocumentInv /\ SummaryInv

-----------------------------------------------------------------------------
(* Different groups or keys have different paths. *)
LEMMA PathInjective ==
    ASSUME NEW g \in Groups, NEW h \in Groups, NEW k, NEW f, Path(g, k) = Path(h, f)
    PROVE  g = h /\ k = f
  <1> DEFINE p == Path(g, k)
             q == Path(h, f)
  <1>1. /\ g = "cluster" => p = << <<"cluster", k>> >>
        /\ g = "host" => p = << <<"cluster", "hosts">>, <<k>> >>
        /\ g = "hostInfraEnv" => p = << <<"cluster", "hosts">>, <<"infra_env", k>> >>
        /\ g = "infraEnv" => p = << <<"infra_envs">>, <<k>> >>
    BY DEF Path, OfCluster, OfHost, OfHostInfraEnv, OfInfraEnv
  <1>2. /\ h = "cluster" => q = << <<"cluster", f>> >>
        /\ h = "host" => q = << <<"cluster", "hosts">>, <<f>> >>
        /\ h = "hostInfraEnv" => q = << <<"cluster", "hosts">>, <<"infra_env", f>> >>
        /\ h = "infraEnv" => q = << <<"infra_envs">>, <<f>> >>
    BY DEF Path, OfCluster, OfHost, OfHostInfraEnv, OfInfraEnv
  <1>3. p = q
    OBVIOUS
  <1> HIDE DEF p, q
  <1> QED
    BY <1>1, <1>2, <1>3 DEF Groups

LEMMA PathsOf ==
    ASSUME NEW step, NEW g \in Groups, NEW k
    PROVE  Path(g, k) \in Paths(step) <=> k \in Keys(step, g)
  BY PathInjective DEF Paths

LEMMA EditsOf ==
    ASSUME NEW step, NEW p
    PROVE  <<step, p>> \in Edits <=> step \in Steps /\ p \in Paths(step)
  BY DEF Edits

(* No step touches the fields that hold other objects, and only those of   *)
(* the anonymization touch the user.                                       *)
LEMMA KeysEdited ==
    ASSUME NEW step \in Steps, NEW g \in Groups, NEW k \in Keys(step, g)
    PROVE  /\ k \notin {"hosts", "infra_env", "user_id"}
           /\ k = "user_name" <=> step \in {"hash", "rename"}
  BY DEF Keys, Steps, Transforms, Groups

(* F has one edit more than E. *)
OneMore(E, step, g, k, F) == F = E \cup {<<step, Path(g, k)>>}

LEMMA HasAfter ==
    ASSUME NEW E, NEW step, NEW g \in Groups, NEW k, NEW F, OneMore(E, step, g, k, F)
    PROVE  \A h \in Groups : \A t, f :
              Has(F, t, h, f) <=> Has(E, t, h, f) \/ (t = step /\ h = g /\ f = k)
  BY PathInjective DEF Has, OneMore

-----------------------------------------------------------------------------
(* An edit of one object: its step at the keys src, renamed to dst. *)
Op(step, d, src, dst) ==
    IF step \in Transforms THEN SetItem(d, src, transformFn(step, Unpacked(Get(d, src))))
    ELSE IF step = "rename" THEN RenameValue(d, src, dst)
    ELSE DeleteKeys(d, src)

FieldAfter(step, k, d, f) ==
    IF step = "rename"
    THEN IF Field(d, "user_name").kind = "missing" THEN Field(d, f)
         ELSE IF f = "user_name" THEN Missing
         ELSE IF f = "user_id" THEN Unpacked(Field(d, "user_name"))
         ELSE Field(d, f)
    ELSE IF f # k THEN Field(d, f)
    ELSE IF step = "delete" THEN Missing
    ELSE Applied(step, Field(d, k))

EditedAs(step, k, d, e) == Proper(e) /\ \A f : Field(e, f) = FieldAfter(step, k, d, f)

(* Whatever is there is still there when it is decoded or transformed. *)
LEMMA UnpackedThere == ASSUME NEW v, v.kind # "missing" PROVE Unpacked(v).kind # "missing"
  BY EnricherAssumption DEF Unpacked, String, JsonKinds

LEMMA FnThere ==
    ASSUME NEW step \in Transforms, NEW v, v.kind # "missing" PROVE transformFn(step, v).kind # "missing"
  <1>1. CASE step = "unpack"
    BY <1>1 DEF transformFn, unpack
  <1>2. CASE step = "dropKey"
    BY <1>2 DEF transformFn, dropKey, Error, Null, Listing
  <1>3. CASE step = "mapToList"
    BY <1>3 DEF transformFn, mapToList, Error, Null, Listing
  <1>4. CASE step = "hash"
    BY <1>4 DEF transformFn, hash, String
  <1> QED
    BY <1>1, <1>2, <1>3, <1>4 DEF Transforms

LEMMA TransformedObject ==
    ASSUME NEW step \in Transforms, NEW d, Proper(d), NEW k, NEW dst
    PROVE  EditedAs(step, k, d, Op(step, d, <<k>>, dst))
  <1> DEFINE v == Field(d, k)
             r == transformFn(step, Unpacked(v))
             e == Op(step, d, <<k>>, dst)
  <1>1. e = IF v.kind \in {"missing", "null"} \/ r.kind = "error" THEN d ELSE SetField(d, k, r)
    BY DEF Op, SetItem, Get, Set
  <1>2. \A f : FieldAfter(step, k, d, f) =
                 IF f # k \/ v.kind \in {"missing", "null"} \/ r.kind = "error" THEN Field(d, f)
                 ELSE r
    BY DEF FieldAfter, Applied, Transforms
  <1>3. v.kind # "missing" => r.kind # "missing"
    BY UnpackedThere, FnThere
  <1>4. /\ r.kind # "missing" => Proper(SetField(d, k, r))
        /\ \A f : Field(SetField(d, k, r), f) = IF f = k THEN r ELSE Field(d, f)
    BY SetFieldIs
  <1> HIDE DEF v, r, e
  <1>5. Proper(e)
    BY <1>1, <1>3, <1>4
  <1>6. \A f : Field(e, f) = FieldAfter(step, k, d, f)
    BY <1>1, <1>2, <1>4
  <1> QED
    BY <1>5, <1>6 DEF EditedAs, e

LEMMA RenamedObject ==
    ASSUME NEW d, Proper(d)
    PROVE  EditedAs("rename", "user_name", d, Op("rename", d, <<"user_name">>, <<"user_id">>))
  <1> DEFINE v == Field(d, "user_name")
             s == SetField(d, "user_id", Unpacked(v))
             e == Op("rename", d, <<"user_name">>, <<"user_id">>)
  <1>1. /\ v.kind # "missing" => Proper(s)
        /\ s.kind = "object"
        /\ \A f : Field(s, f) = IF f = "user_id" THEN Unpacked(v) ELSE Field(d, f)
    BY SetFieldIs, UnpackedThere
  <1>2. e = IF v.kind = "missing" THEN d ELSE DropField(s, "user_name")
    <2>1. Field(s, "user_name") = v
      BY <1>1
    <2> QED
      BY <2>1 DEF Op, Transforms, RenameValue, Get, Set, DeleteKeys
  <1>3. /\ Proper(s) => Proper(DropField(s, "user_name"))
        /\ \A f : Field(DropField(s, "user_name"), f) = IF f = "user_name" THEN Missing ELSE Field(s, f)
    BY <1>1, DropFieldIs
  <1>4. \A f : FieldAfter("rename", "user_name", d, f) =
                 IF v.kind = "missing" THEN Field(d, f)
                 ELSE IF f = "user_name" THEN Missing
                 ELSE IF f = "user_id" THEN Unpacked(v) ELSE Field(d, f)
    BY DEF FieldAfter
  <1> HIDE DEF v, s, e
  <1>5. Proper(e)
    BY <1>1, <1>2, <1>3
  <1>6. \A f : Field(e, f) = FieldAfter("rename", "user_name", d, f)
    BY <1>1, <1>2, <1>3, <1>4
  <1> QED
    BY <1>5, <1>6 DEF EditedAs, e

LEMMA DeletedObject ==
    ASSUME NEW d, Proper(d), NEW k, NEW dst
    PROVE  EditedAs("delete", k, d, Op("delete", d, <<k>>, dst))
  <1> DEFINE e == Op("delete", d, <<k>>, dst)
  <1>1. e = IF Field(d, k).kind = "missing" THEN d ELSE DropField(d, k)
    BY DEF Op, Transforms, Get, DeleteKeys
  <1>2. /\ Proper(DropField(d, k))
        /\ \A f : Field(DropField(d, k), f) = IF f = k THEN Missing ELSE Field(d, f)
    BY DropFieldIs, ProperKind
  <1>3. Field(d, k).kind = "missing" => Field(d, k) = Missing
    BY ProperField
  <1>4. \A f : FieldAfter("delete", k, d, f) = IF f = k THEN Missing ELSE Field(d, f)
    BY DEF FieldAfter
  <1> HIDE DEF e
  <1> QED
    BY <1>1, <1>2, <1>3, <1>4 DEF EditedAs, e

LEMMA EditedObject ==
    ASSUME NEW step \in Steps, NEW g \in Groups, NEW k \in Keys(step, g), NEW d, Proper(d)
    PROVE  EditedAs(step, k, d, Op(step, d, <<k>>, <<"user_id">>))
  <1>1. step = "rename" => k = "user_name"
    BY KeysEdited
  <1> QED
    BY <1>1, TransformedObject, RenamedObject, DeletedObject DEF Steps

(* The same for an object in field a of another. *)
LEMMA EditedField ==
    ASSUME NEW step \in Steps, NEW g \in Groups, NEW k \in Keys(step, g), NEW a,
           NEW d, Proper(d), Proper(Field(d, a)),
           NEW e, e = Op(step, d, <<a, k>>, <<a, "user_id">>)
    PROVE  /\ Proper(e)
           /\ EditedAs(step, k, Field(d, a), Field(e, a))
           /\ \A f : f # a => Field(e, f) = Field(d, f)
  <1>1. PICK c : c = Field(d, a)
    OBVIOUS
  <1>2. PICK x : x = Op(step, c, <<k>>, <<"user_id">>)
    OBVIOUS
  <1>3. EditedAs(step, k, c, x)
    BY <1>1, <1>2, EditedObject
  <1>4. Proper(x) /\ x.kind # "missing"
    BY <1>3, ProperKind DEF EditedAs
  <1>5. Proper(e) /\ Field(e, a) = x /\ \A f : f # a => Field(e, f) = Field(d, f)
    <2>1. CASE step \in Transforms
      <3> DEFINE v == Field(c, k)
                 r == transformFn(step, Unpacked(v))
      <3>1. x = IF v.kind \in {"missing", "null"} \/ r.kind = "error" THEN c ELSE SetField(c, k, r)
        BY <1>2, <2>1 DEF Op, SetItem, Get, Set
      <3>2. e = IF v.kind \in {"missing", "null"} \/ r.kind = "error" THEN d
                ELSE SetField(d, a, SetField(c, k, r))
        BY <1>1, <2>1 DEF Op, SetItem, Get, Set
      <3> HIDE DEF v, r
      <3>3. (e = d /\ x = c) \/ e = SetField(d, a, x)
        BY <3>1, <3>2
      <3> QED
        BY <3>3, <1>1, <1>4, SetFieldIs
    <2>2. CASE step = "rename"
      <3> DEFINE v == Field(c, "user_name")
                 s == SetField(c, "user_id", Unpacked(v))
      <3>1. k = "user_name"
        BY <2>2, KeysEdited
      <3>2. Field(s, "user_name") = v
        BY SetFieldIs
      <3>3. x = IF v.kind = "missing" THEN c ELSE DropField(s, "user_name")
        BY <1>2, <2>2, <3>1, <3>2 DEF Op, Transforms, RenameValue, Get, Set, DeleteKeys
      <3>4. PICK m : m = SetField(d, a, s)
        OBVIOUS
      <3>5. s.kind # "missing" /\ (v.kind # "missing" => Proper(s))
        BY <1>1, SetFieldIs, UnpackedThere
      <3>6. /\ v.kind # "missing" => Proper(m)
            /\ Field(m, a) = s
            /\ \A f : f # a => Field(m, f) = Field(d, f)
        BY <3>4, <3>5, SetFieldIs
      <3>7. e = IF v.kind = "missing" THEN d ELSE DeleteKeys(m, <<a, "user_name">>)
        BY <1>1, <2>2, <3>1, <3>4 DEF Op, Transforms, RenameValue, Get, Set, DeleteKeys
      <3>8. v.kind # "missing" =>
              DeleteKeys(m, <<a, "user_name">>) = SetField(m, a, DropField(s, "user_name"))
        BY <3>2, <3>6 DEF Get, DeleteKeys
      <3> HIDE DEF v, s
      <3>9. IF v.kind = "missing" THEN e = d /\ x = c ELSE e = SetField(m, a, x)
        BY <3>3, <3>7, <3>8
      <3> QED
        BY <3>9, <3>6, <1>1, <1>4, SetFieldIs
    <2>3. CASE step = "delete"
      <3>1. x = IF Field(c, k).kind = "missing" THEN c ELSE DropField(c, k)
        BY <1>2, <2>3 DEF Op, Transforms, Get, DeleteKeys
      <3>2. e = IF Field(c, k).kind = "missing" THEN d ELSE SetField(d, a, DropField(c, k))
        BY <1>1, <2>3 DEF Op, Transforms, Get, DeleteKeys
      <3>3. (e = d /\ x = c) \/ e = SetField(d, a, x)
        BY <3>1, <3>2
      <3> QED
        BY <3>3, <1>1, <1>4, SetFieldIs
    <2> QED
      BY <2>1, <2>2, <2>3 DEF Steps
  <1> QED
    BY <1>1, <1>3, <1>5

LEMMA UneditedField ==
    ASSUME NEW step \in Steps, NEW k, NEW a, NEW d, Field(d, a) = Missing
    PROVE  Op(step, d, <<a, k>>, <<a, "user_id">>) = d
  <1>1. Get(d, <<a, k>>).kind = "missing"
    BY DEF Get, Field, Missing
  <1> QED
    BY <1>1 DEF Op, SetItem, RenameValue, DeleteKeys

-----------------------------------------------------------------------------
(* The edits in E are of the step or of earlier ones. *)
UpTo(E, step) == \A t, p : <<t, p>> \in E => t = step \/ t \in Earlier(step)

Exceptions == {{}, {"hosts"}, {"infra_env"}}

LEMMA AppliedThere ==
    ASSUME NEW step \in Transforms, NEW v
    PROVE  IF v.kind = "missing" THEN Applied(step, v) = v ELSE Applied(step, v).kind # "missing"
  BY UnpackedThere, FnThere DEF Applied

LEMMA TransformedThere ==
    ASSUME NEW E, NEW g, NEW o, NEW k
    PROVE  IF Field(o, k).kind = "missing" THEN Transformed(E, g, o, k) = Field(o, k)
           ELSE Transformed(E, g, o, k).kind # "missing"
  <1>1. ASSUME NEW step \in Transforms, NEW v
        PROVE  IF v.kind = "missing" THEN IfMade(E, step, g, k, v) = v
               ELSE IfMade(E, step, g, k, v).kind # "missing"
    BY AppliedThere DEF IfMade
  <1>2. PICK v0 : v0 = Field(o, k)
    OBVIOUS
  <1>3. PICK v1 : v1 = IfMade(E, "unpack", g, k, v0)
    OBVIOUS
  <1>4. PICK v2 : v2 = IfMade(E, "dropKey", g, k, v1)
    OBVIOUS
  <1>5. PICK v3 : v3 = IfMade(E, "mapToList", g, k, v2)
    OBVIOUS
  <1>6. PICK v4 : v4 = IfMade(E, "hash", g, k, v3)
    OBVIOUS
  <1>7. Transformed(E, g, o, k) = v4
    BY <1>2, <1>3, <1>4, <1>5, <1>6 DEF Transformed
  <1> QED
    BY <1>1, <1>2, <1>3, <1>4, <1>5, <1>6, <1>7 DEF Transforms

(* The edits of a group decide over its objects. *)
LEMMA SameEdits ==
    ASSUME NEW E, NEW F, NEW g, NEW o, NEW k,
           \A t \in Transforms : Has(E, t, g, k) <=> Has(F, t, g, k)
    PROVE  Transformed(E, g, o, k) = Transformed(F, g, o, k)
  BY DEF Transformed, IfMade, Transforms

LEMMA OtherGroup ==
    ASSUME NEW E, NEW step, NEW h \in Groups, NEW k, NEW g \in Groups, g # h,
           NEW F, OneMore(E, step, h, k, F),
           NEW o, NEW c, NEW except, ObjectAt(E, g, o, c, except)
    PROVE  ObjectAt(F, g, o, c, except)
  <1>2. \A t, f : Has(F, t, g, f) <=> Has(E, t, g, f)
    BY HasAfter
  <1>3. \A f : FieldAt(F, g, o, f) = FieldAt(E, g, o, f)
    <2>1. \A f : Transformed(F, g, o, f) = Transformed(E, g, o, f)
      BY <1>2, SameEdits
    <2> QED
      BY <1>2, <2>1 DEF FieldAt
  <1> QED
    BY <1>3 DEF ObjectAt

LEMMA TransformedOnce ==
    ASSUME NEW E, NEW step \in Transforms, UpTo(E, step), NEW g \in Groups, NEW k, NEW o,
           ~Has(E, step, g, k), NEW F, OneMore(E, step, g, k, F)
    PROVE  Transformed(F, g, o, k) = Applied(step, Transformed(E, g, o, k))
  <1>2. \A t : Has(F, t, g, k) <=> Has(E, t, g, k) \/ t = step
    BY HasAfter
  <1>3. \A t : Has(E, t, g, k) => t \in Earlier(step)
    BY DEF UpTo, Has
  <1>4. CASE step = "unpack"
    BY <1>2, <1>3, <1>4 DEF Transformed, IfMade, Earlier, Transforms
  <1>5. CASE step = "dropKey"
    BY <1>2, <1>3, <1>5 DEF Transformed, IfMade, Earlier, Transforms
  <1>6. CASE step = "mapToList"
    BY <1>2, <1>3, <1>6 DEF Transformed, IfMade, Earlier, Transforms
  <1>7. CASE step = "hash"
    BY <1>2, <1>3, <1>7 DEF Transformed, IfMade, Earlier, Transforms
  <1> QED
    BY <1>4, <1>5, <1>6, <1>7 DEF Transforms

(* An edit brings every object of its group to where the document is to be *)
(* after it.                                                               *)
LEMMA EditReaches ==
    ASSUME NEW step \in Steps, NEW g \in Groups, NEW k \in Keys(step, g),
           NEW E \in SUBSET Edits, UpTo(E, step), ~Has(E, step, g, k),
           NEW o, IsObject(o), NEW except \in Exceptions, NEW c, NEW e,
           NEW F, OneMore(E, step, g, k, F),
           ObjectAt(E, g, o, c, except), EditedAs(step, k, c, e)
    PROVE  ObjectAt(F, g, o, e, except)
  <1>2. \A t, f : Has(F, t, g, f) <=> Has(E, t, g, f) \/ (t = step /\ f = k)
    BY HasAfter
  <1>3. \A t, f : Has(E, t, g, f) => t = step \/ t \in Earlier(step)
    BY DEF UpTo, Has
  <1>4. /\ k \notin {"hosts", "infra_env", "user_id"}
        /\ k = "user_name" <=> step \in {"hash", "rename"}
    BY KeysEdited
  <1>5. \A f : f # k => Transformed(F, g, o, f) = Transformed(E, g, o, f)
    BY <1>2, SameEdits
  <1>6. Proper(e)
    BY DEF EditedAs
  <1>7. ASSUME NEW f, f \notin except PROVE Field(e, f) = FieldAt(F, g, o, f)
    <2>1. Field(e, f) = FieldAfter(step, k, c, f)
      BY DEF EditedAs
    <2>2. \A x : x \notin except => Field(c, x) = FieldAt(E, g, o, x)
      BY DEF ObjectAt
    <2>3. k \notin except /\ "user_name" \notin except
      BY <1>4 DEF Exceptions
    <2>4. CASE step \in Transforms
      <3>1. \A x : /\ ~Has(E, "rename", g, x) /\ ~Has(E, "delete", g, x)
                   /\ ~Has(F, "rename", g, x) /\ ~Has(F, "delete", g, x)
        BY <1>2, <1>3, <2>4 DEF Earlier, Transforms
      <3>2. \A x : /\ FieldAt(E, g, o, x) = Transformed(E, g, o, x)
                   /\ FieldAt(F, g, o, x) = Transformed(F, g, o, x)
        BY <3>1 DEF FieldAt
      <3>3. Transformed(F, g, o, k) = Applied(step, Transformed(E, g, o, k))
        BY <2>4, TransformedOnce
      <3>4. FieldAfter(step, k, c, f) = IF f = k THEN Applied(step, Field(c, k)) ELSE Field(c, f)
        BY <2>4 DEF FieldAfter, Transforms
      <3> QED
        BY <1>5, <1>7, <2>1, <2>2, <2>3, <3>2, <3>3, <3>4
    <2>5. CASE step = "rename"
      <3>1. k = "user_name"
        BY <1>4, <2>5
      <3>2. \A x : ~Has(E, "rename", g, x) /\ ~Has(E, "delete", g, x) /\ ~Has(F, "delete", g, x)
        <4>1. \A x : ~Has(E, "delete", g, x) /\ ~Has(F, "delete", g, x)
          BY <1>2, <1>3, <2>5 DEF Earlier, Transforms
        <4>2. \A x : Has(E, "rename", g, x) => x = "user_name"
          BY EditsOf, PathsOf DEF Has, Keys
        <4> QED
          BY <2>5, <3>1, <4>1, <4>2
      <3>3. \A x : Has(F, "rename", g, x) <=> x = "user_name"
        BY <1>2, <2>5, <3>1, <3>2
      <3>4. \A x : FieldAt(E, g, o, x) = Transformed(E, g, o, x)
        BY <3>2 DEF FieldAt
      <3>5. \A x : Transformed(F, g, o, x) = Transformed(E, g, o, x)
        <4>1. \A x : \A t \in Transforms : Has(F, t, g, x) <=> Has(E, t, g, x)
          BY <1>2, <2>5 DEF Transforms
        <4> QED
          BY <4>1, SameEdits
      <3>6. PICK n : n = Transformed(E, g, o, "user_name")
        OBVIOUS
      <3>7. n.kind = "missing" <=> Field(o, "user_name").kind = "missing"
        BY <3>6, TransformedThere
      <3>8. FieldAt(F, g, o, f) =
              IF f = "user_name" THEN Missing
              ELSE IF f = "user_id" /\ n.kind # "missing" THEN Unpacked(n)
              ELSE Transformed(E, g, o, f)
        BY <3>2, <3>3, <3>5, <3>6, <3>7 DEF FieldAt
      <3>9. Field(c, "user_name") = n /\ Field(c, f) = Transformed(E, g, o, f)
        BY <1>7, <2>2, <2>3, <3>4, <3>6
      <3>10. n.kind = "missing" => n = Missing
        BY <3>9, ProperField DEF ObjectAt
      <3>11. FieldAfter(step, k, c, f) =
               IF n.kind = "missing" THEN Field(c, f)
               ELSE IF f = "user_name" THEN Missing
               ELSE IF f = "user_id" THEN Unpacked(n) ELSE Field(c, f)
        BY <2>5, <3>9 DEF FieldAfter
      <3> QED
        BY <2>1, <3>6, <3>8, <3>9, <3>10, <3>11
    <2>6. CASE step = "delete"
      <3>1. \A x : Transformed(F, g, o, x) = Transformed(E, g, o, x)
        <4>1. \A x : \A t \in Transforms : Has(F, t, g, x) <=> Has(E, t, g, x)
          BY <1>2, <2>6 DEF Transforms
        <4> QED
          BY <4>1, SameEdits
      <3>2. \A x : /\ Has(F, "rename", g, x) <=> Has(E, "rename", g, x)
                   /\ Has(F, "delete", g, x) <=> Has(E, "delete", g, x) \/ x = k
        BY <1>2, <2>6
      <3>3. FieldAt(F, g, o, f) = IF f = k THEN Missing ELSE FieldAt(E, g, o, f)
        BY <1>4, <3>1, <3>2 DEF FieldAt
      <3>4. FieldAfter(step, k, c, f) = IF f = k THEN Missing ELSE Field(c, f)
        BY <2>6 DEF FieldAfter
      <3> QED
        BY <1>7, <2>1, <2>2, <3>3, <3>4
    <2> QED
      BY <2>4, <2>5, <2>6 DEF Steps
  <1> QED
    BY <1>6, <1>7 DEF ObjectAt

-----------------------------------------------------------------------------
(* The edits of the document: what a step does at a path. *)
DocumentOp(step, d, path) ==
    CASE step \in Transforms -> Transform(d, path, step)
      [] step = "rename" -> Rename(d, path, fieldsToAnonymize[path])
      [] OTHER -> Delete(d, path)

ListOf(g) == IF g = "infraEnv" THEN <<"infra_envs">> ELSE <<"cluster", "hosts">>

KeysIn(g, k) == IF g = "hostInfraEnv" THEN <<"infra_env", k>> ELSE <<k>>

LEMMA RenamedTo ==
    ASSUME NEW g \in Groups PROVE fieldsToAnonymize[Path(g, "user_name")] = Path(g, "user_id")
  <1>1. \A h \in Groups : Path(g, "user_name") = Path(h, "user_name") => h = g
    BY PathInjective
  <1>2. /\ Path("cluster", "user_name") = OfCluster("user_name")
        /\ Path("host", "user_name") = OfHost("user_name")
        /\ Path("hostInfraEnv", "user_name") = OfHostInfraEnv("user_name")
        /\ Path("infraEnv", "user_name") = OfInfraEnv("user_name")
        /\ Path("cluster", "user_id") = OfCluster("user_id")
        /\ Path("host", "user_id") = OfHost("user_id")
        /\ Path("hostInfraEnv", "user_id") = OfHostInfraEnv("user_id")
        /\ Path("infraEnv", "user_id") = OfInfraEnv("user_id")
    BY DEF Path
  <1>3. PICK p : p = Path(g, "user_name")
    OBVIOUS
  <1>4. CASE g = "cluster"
    BY <1>1, <1>2, <1>4 DEF fieldsToAnonymize, Groups
  <1>5. CASE g = "host"
    BY <1>1, <1>2, <1>5 DEF fieldsToAnonymize, Groups
  <1>6. CASE g = "hostInfraEnv"
    BY <1>1, <1>2, <1>6 DEF fieldsToAnonymize, Groups
  <1>7. CASE g = "infraEnv"
    BY <1>1, <1>2, <1>7 DEF fieldsToAnonymize, Groups
  <1> QED
    BY <1>4, <1>5, <1>6, <1>7 DEF Groups

LEMMA ClusterOp ==
    ASSUME NEW step \in Steps, NEW k \in Keys(step, "cluster"), NEW d
    PROVE  DocumentOp(step, d, Path("cluster", k)) =
              Op(step, d, <<"cluster", k>>, <<"cluster", "user_id">>)
  <1>1. PICK p : p = << <<"cluster", k>> >>
    OBVIOUS
  <1>2. Path("cluster", k) = p
    BY <1>1 DEF Path, OfCluster
  <1>3. ~isComplexPath(p) /\ p[1] = <<"cluster", k>>
    BY <1>1 DEF isComplexPath
  <1>4. CASE step \in Transforms
    BY <1>2, <1>3, <1>4 DEF DocumentOp, Transform, TransformValue, Op, Transforms
  <1>5. CASE step = "rename"
    <2>1. k = "user_name"
      BY <1>5, KeysEdited DEF Groups
    <2>2. fieldsToAnonymize[p] = << <<"cluster", "user_id">> >>
      BY <1>2, <2>1, RenamedTo DEF Groups, Path, OfCluster
    <2> QED
      BY <1>2, <1>3, <1>5, <2>2 DEF DocumentOp, Rename, Op, Transforms
  <1>6. CASE step = "delete"
    BY <1>2, <1>3, <1>6 DEF DocumentOp, Delete, Op, Transforms
  <1> QED
    BY <1>4, <1>5, <1>6 DEF Steps

(* At a path with "[*]": every item of the list is edited, if it is one. *)
Items(step, items, src, dst) == List([i \in DOMAIN items |-> Op(step, items[i], src, dst)])

LEMMA ListOp ==
    ASSUME NEW step \in Steps, NEW g \in Groups, g # "cluster", NEW k \in Keys(step, g), NEW d,
           NEW list, list = Get(d, ListOf(g)),
           NEW e, e = DocumentOp(step, d, Path(g, k))
    PROVE  /\ list.kind \in {"missing", "null"} => e = d
           /\ list.kind = "list" =>
                 e = Set(d, ListOf(g), Items(step, list.items, KeysIn(g, k), KeysIn(g, "user_id")))
  <1>1. PICK P, src, dst : P = ListOf(g) /\ src = KeysIn(g, k) /\ dst = KeysIn(g, "user_id")
    OBVIOUS
  <1>2. PICK p : p = <<P, src>>
    OBVIOUS
  <1>3. Path(g, k) = p
    BY <1>1, <1>2 DEF Path, OfHost, OfHostInfraEnv, OfInfraEnv, ListOf, KeysIn, Groups
  <1>4. isComplexPath(p) /\ Len(p) = 2 /\ p[1] = P /\ p[2] = src
    BY <1>2 DEF isComplexPath
  <1>5. /\ list.kind = "list" => Unpacked(list) = list
        /\ list.kind = "null" => Unpacked(list).kind # "list"
        /\ list.kind = "missing" => Unpacked(list).kind # "list"
    BY DEF Unpacked, String
  <1>6. \A x : x.kind = "list" => SetItem(d, P, x) = IF list.kind \in {"missing", "null"} THEN d
                                                     ELSE Set(d, P, x)
    BY <1>1 DEF SetItem
  <1>7. \A x : List(x).kind = "list"
    BY DEF List
  <1>8. CASE step \in Transforms
    <2>1. e = transformFromComplexPath(d, p, step)
      BY <1>3, <1>4, <1>8 DEF DocumentOp, Transform, Transforms
    <2> QED
      BY <1>1, <1>4, <1>5, <1>6, <1>7, <1>8, <2>1
      DEF transformFromComplexPath, TransformValue, Op, Items
  <1>9. CASE step = "rename"
    <2>1. k = "user_name"
      BY <1>9, KeysEdited
    <2>2. fieldsToAnonymize[p] = Path(g, "user_id")
      BY <1>3, <2>1, RenamedTo
    <2>3. Path(g, "user_id") = <<P, dst>>
      BY <1>1 DEF Path, OfHost, OfHostInfraEnv, OfInfraEnv, ListOf, KeysIn, Groups
    <2>4. PICK q : q = <<P, dst>>
      OBVIOUS
    <2>5. Len(q) = 2 /\ q[1] = P /\ q[2] = dst
      BY <2>4
    <2>6. e = Rename(d, p, q)
      BY <1>3, <1>9, <2>2, <2>3, <2>4 DEF DocumentOp, Transforms
    <2> QED
      BY <1>1, <1>4, <1>5, <1>9, <2>5, <2>6 DEF Rename, Op, Transforms, Items
  <1>10. CASE step = "delete"
    <2>1. e = deleteFromComplexPath(d, p)
      BY <1>3, <1>4, <1>10 DEF DocumentOp, Delete, Transforms
    <2> QED
      BY <1>1, <1>4, <1>5, <1>6, <1>7, <1>10, <2>1
      DEF deleteFromComplexPath, Op, Transforms, Items
  <1> QED
    BY <1>8, <1>9, <1>10 DEF Steps, Transforms

-----------------------------------------------------------------------------
(* At most one infra-env matches a host, and that one is embedded. *)
LEMMA EmbeddedIs ==
    ASSUME NEW in, IsInput(in), PlainInput(in), NEW i, Matches(in, i) # {}
    PROVE  \E j \in DOMAIN in.infraEnvs :
              /\ Matches(in, i) = {j}
              /\ Embedded(in, i) = in.infraEnvs[j]
              /\ Field(in.infraEnvs[j], "id") = Field(in.hosts[i], "infra_env_id")
  <1>1. \A j \in DOMAIN in.infraEnvs :
           /\ Field(in.infraEnvs[j], "id").kind = "string"
           /\ \A l \in DOMAIN in.infraEnvs :
                 Field(in.infraEnvs[j], "id") = Field(in.infraEnvs[l], "id") => j = l
    BY DEF PlainInput
  <1>2. \A j \in DOMAIN in.infraEnvs : Key(in.infraEnvs[j], "id") = Field(in.infraEnvs[j], "id")
    BY <1>1 DEF Key
  <1>3. \A j \in Matches(in, i) :
           /\ j \in DOMAIN in.infraEnvs
           /\ Field(in.infraEnvs[j], "id") = Field(in.hosts[i], "infra_env_id")
    BY <1>2 DEF Matches
  <1>4. PICK j : j \in Matches(in, i)
    OBVIOUS
  <1>5. Matches(in, i) = {j}
    BY <1>1, <1>3, <1>4
  <1>6. j <= j
    BY <1>3, <1>4 DEF IsInput, IsList
  <1>7. j = CHOOSE x \in Matches(in, i) : \A l \in Matches(in, i) : l <= x
    BY <1>5, <1>6
  <1> QED
    BY <1>3, <1>4, <1>5, <1>7 DEF Embedded

LEMMA InputObjects ==
    ASSUME NEW in, IsInput(in), PlainInput(in)
    PROVE  /\ IsObject(in.cluster)
           /\ \A i \in DOMAIN in.hosts : IsObject(in.hosts[i])
           /\ \A i \in DOMAIN in.infraEnvs : IsObject(in.infraEnvs[i])
           /\ \A i : Matches(in, i) # {} => IsObject(Embedded(in, i))
  <1>1. /\ IsObject(in.cluster)
        /\ \A i \in DOMAIN in.hosts : IsObject(in.hosts[i])
        /\ \A i \in DOMAIN in.infraEnvs : IsObject(in.infraEnvs[i])
    BY DEF IsInput, IsList
  <1>2. \A i : Matches(in, i) # {} => \E j \in DOMAIN in.infraEnvs : Embedded(in, i) = in.infraEnvs[j]
    BY EmbeddedIs
  <1> QED
    BY <1>1, <1>2

(* An edit that may come next after those in E. *)
MayFollow(E, step, g, k, F) ==
    /\ step \in Steps /\ g \in Groups /\ k \in Keys(step, g)
    /\ E \in SUBSET Edits /\ UpTo(E, step) /\ ~Has(E, step, g, k)
    /\ OneMore(E, step, g, k, F)

LEMMA HostFrame ==
    ASSUME NEW E, NEW step, NEW g \in {"cluster", "infraEnv"}, NEW k, NEW F, OneMore(E, step, g, k, F),
           NEW in, NEW i, NEW c, HostAt(E, in, i, c)
    PROVE  HostAt(F, in, i, c)
  BY OtherGroup DEF HostAt, Groups

LEMMA HostEdited ==
    ASSUME NEW E, NEW step, NEW g \in {"host", "hostInfraEnv"}, NEW k, NEW F, MayFollow(E, step, g, k, F),
           NEW in, IsInput(in), PlainInput(in), NEW i \in DOMAIN in.hosts, NEW c, HostAt(E, in, i, c),
           NEW e, e = Op(step, c, KeysIn(g, k), KeysIn(g, "user_id"))
    PROVE  HostAt(F, in, i, e)
  <1>1. /\ step \in Steps /\ g \in Groups /\ k \in Keys(step, g) /\ OneMore(E, step, g, k, F)
        /\ E \in SUBSET Edits /\ UpTo(E, step) /\ ~Has(E, step, g, k)
    BY DEF MayFollow
  <1>2. IsObject(in.hosts[i]) /\ (Matches(in, i) # {} => IsObject(Embedded(in, i)))
    BY InputObjects
  <1>3. ObjectAt(E, "host", in.hosts[i], c, {"infra_env"}) /\ Proper(c)
    BY DEF HostAt, ObjectAt
  <1>4. CASE g = "host"
    <2>1. e = Op(step, c, <<k>>, <<"user_id">>)
      BY <1>4 DEF KeysIn
    <2>2. EditedAs(step, k, c, e)
      BY <1>1, <1>3, <2>1, EditedObject
    <2>3. ObjectAt(F, "host", in.hosts[i], e, {"infra_env"})
      BY <1>1, <1>2, <1>3, <1>4, <2>2, EditReaches DEF Exceptions
    <2>4. Field(e, "infra_env") = Field(c, "infra_env")
      BY <1>1, <2>2, KeysEdited DEF EditedAs, FieldAfter
    <2>5. \A o, x : ObjectAt(E, "hostInfraEnv", o, x, {}) => ObjectAt(F, "hostInfraEnv", o, x, {})
      BY <1>1, <1>4, OtherGroup DEF Groups
    <2> QED
      BY <2>3, <2>4, <2>5 DEF HostAt
  <1>5. CASE g = "hostInfraEnv"
    <2>1. e = Op(step, c, <<"infra_env", k>>, <<"infra_env", "user_id">>)
      BY <1>5 DEF KeysIn
    <2>2. ObjectAt(F, "host", in.hosts[i], c, {"infra_env"})
      BY <1>1, <1>3, <1>5, OtherGroup DEF Groups
    <2>3. CASE Matches(in, i) = {}
      <3>1. e = c
        BY <1>1, <2>1, <2>3, UneditedField DEF HostAt
      <3> QED
        BY <2>2, <2>3, <3>1 DEF HostAt
    <2>4. CASE Matches(in, i) # {}
      <3>1. PICK x : x = Field(c, "infra_env")
        OBVIOUS
      <3>2. ObjectAt(E, "hostInfraEnv", Embedded(in, i), x, {}) /\ Proper(x)
        BY <2>4, <3>1 DEF HostAt, ObjectAt
      <3>3. /\ Proper(e)
            /\ EditedAs(step, k, x, Field(e, "infra_env"))
            /\ \A f : f # "infra_env" => Field(e, f) = Field(c, f)
        BY <1>1, <1>3, <2>1, <3>1, <3>2, EditedField
      <3>4. ObjectAt(F, "hostInfraEnv", Embedded(in, i), Field(e, "infra_env"), {})
        BY <1>1, <1>2, <1>5, <2>4, <3>2, <3>3, EditReaches DEF Exceptions
      <3>5. ObjectAt(F, "host", in.hosts[i], e, {"infra_env"})
        BY <2>2, <3>3 DEF ObjectAt
      <3> QED
        BY <2>4, <3>4, <3>5 DEF HostAt
    <2> QED
      BY <2>3, <2>4
  <1> QED
    BY <1>4, <1>5

LEMMA InfraEnvEdited ==
    ASSUME NEW E, NEW step, NEW k, NEW F, MayFollow(E, step, "infraEnv", k, F),
           NEW in, IsInput(in), NEW i \in DOMAIN in.infraEnvs, NEW c, InfraEnvAt(E, in, i, c)
    PROVE  InfraEnvAt(F, in, i, Op(step, c, <<k>>, <<"user_id">>))
  <1>1. PICK e, g : e = Op(step, c, <<k>>, <<"user_id">>) /\ g = "infraEnv"
    OBVIOUS
  <1>2. /\ step \in Steps /\ g \in Groups /\ k \in Keys(step, g) /\ OneMore(E, step, g, k, F)
        /\ E \in SUBSET Edits /\ UpTo(E, step) /\ ~Has(E, step, g, k)
    BY <1>1 DEF MayFollow
  <1>3. IsObject(in.infraEnvs[i])
    BY DEF IsInput, IsList
  <1>4. ObjectAt(E, g, in.infraEnvs[i], c, {}) /\ Proper(c)
    BY <1>1 DEF InfraEnvAt, ObjectAt
  <1>5. EditedAs(step, k, c, e)
    BY <1>1, <1>2, <1>4, EditedObject
  <1> QED
    BY <1>1, <1>2, <1>3, <1>4, <1>5, EditReaches DEF Exceptions, InfraEnvAt

LEMMA ListsFrame ==
    ASSUME NEW E, NEW step, NEW g \in Groups, NEW k, NEW F, OneMore(E, step, g, k, F), NEW in, NEW v
    PROVE  /\ g \in {"cluster", "infraEnv"} /\ HostsAt(E, in, v) => HostsAt(F, in, v)
           /\ g # "infraEnv" /\ InfraEnvsAt(E, in, v) => InfraEnvsAt(F, in, v)
           /\ in.hosts = <<>> /\ HostsAt(E, in, v) => HostsAt(F, in, v)
           /\ in.infraEnvs = <<>> /\ InfraEnvsAt(E, in, v) => InfraEnvsAt(F, in, v)
  <1>1. ASSUME g \in {"cluster", "infraEnv"} PROVE \A i, c : HostAt(E, in, i, c) => HostAt(F, in, i, c)
    BY <1>1, HostFrame
  <1>2. ASSUME g # "infraEnv" PROVE \A i, c : InfraEnvAt(E, in, i, c) => InfraEnvAt(F, in, i, c)
    BY <1>2, OtherGroup DEF InfraEnvAt, Groups
  <1>3. ASSUME g \in {"cluster", "infraEnv"}, HostsAt(E, in, v) PROVE HostsAt(F, in, v)
    BY <1>1, <1>3 DEF HostsAt
  <1>4. ASSUME g # "infraEnv", InfraEnvsAt(E, in, v) PROVE InfraEnvsAt(F, in, v)
    BY <1>2, <1>4 DEF InfraEnvsAt
  <1> QED
    BY <1>3, <1>4 DEF HostsAt, InfraEnvsAt

(* The edit of a document is that of its objects. *)
LEMMA DocumentEdited ==
    ASSUME NEW E, NEW step, NEW g, NEW k, NEW F, MayFollow(E, step, g, k, F),
           NEW in, IsInput(in), PlainInput(in), NEW d, DocumentAt(E, in, d)
    PROVE  DocumentAt(F, in, DocumentOp(step, d, Path(g, k)))
  <1>1. PICK e : e = DocumentOp(step, d, Path(g, k))
    OBVIOUS
  <1>2. PICK c, hosts, infraEnvs : /\ c = Field(d, "cluster")
                                   /\ hosts = Field(c, "hosts")
                                   /\ infraEnvs = Field(d, "infra_envs")
    OBVIOUS
  <1>3. /\ Proper(d) /\ Proper(c)
        /\ ObjectAt(E, "cluster", in.cluster, c, {"hosts"})
        /\ HostsAt(E, in, hosts)
        /\ InfraEnvsAt(E, in, infraEnvs)
    BY <1>2 DEF DocumentAt, ObjectAt
  <1>4. /\ step \in Steps /\ g \in Groups /\ k \in Keys(step, g) /\ OneMore(E, step, g, k, F)
        /\ E \in SUBSET Edits /\ UpTo(E, step) /\ ~Has(E, step, g, k)
    BY DEF MayFollow
  <1>5. IsObject(in.cluster)
    BY DEF IsInput
  <1>6. g # "cluster" => ObjectAt(F, "cluster", in.cluster, c, {"hosts"})
    BY <1>3, <1>4, OtherGroup DEF Groups
  <1>7. \A v : /\ g \in {"cluster", "infraEnv"} /\ HostsAt(E, in, v) => HostsAt(F, in, v)
               /\ g # "infraEnv" /\ InfraEnvsAt(E, in, v) => InfraEnvsAt(F, in, v)
               /\ in.hosts = <<>> /\ HostsAt(E, in, v) => HostsAt(F, in, v)
               /\ in.infraEnvs = <<>> /\ InfraEnvsAt(E, in, v) => InfraEnvsAt(F, in, v)
    BY <1>4, ListsFrame
  <1>8. CASE g = "cluster"
    <2>1. e = Op(step, d, <<"cluster", k>>, <<"cluster", "user_id">>)
      BY <1>1, <1>4, <1>8, ClusterOp
    <2>2. /\ Proper(e)
          /\ EditedAs(step, k, c, Field(e, "cluster"))
          /\ \A f : f # "cluster" => Field(e, f) = Field(d, f)
      BY <1>2, <1>3, <1>4, <2>1, EditedField
    <2>3. ObjectAt(F, "cluster", in.cluster, Field(e, "cluster"), {"hosts"})
      BY <1>3, <1>4, <1>5, <1>8, <2>2, EditReaches DEF Exceptions
    <2>4. Field(Field(e, "cluster"), "hosts") = hosts /\ Field(e, "infra_envs") = infraEnvs
      BY <1>2, <1>4, <2>2, KeysEdited DEF EditedAs, FieldAfter
    <2> QED
      BY <1>1, <1>3, <1>7, <1>8, <2>2, <2>3, <2>4 DEF DocumentAt
  <1>9. CASE g \in {"host", "hostInfraEnv"}
    <2>1. PICK list : list = Get(d, ListOf(g))
      OBVIOUS
    <2>2. list = hosts
      BY <1>2, <1>9, <2>1 DEF ListOf, Get
    <2>3. CASE in.hosts = <<>>
      <3>1. list.kind = "null"
        BY <1>3, <2>2, <2>3 DEF HostsAt, Null
      <3>2. e = d
        BY <1>1, <1>4, <1>9, <2>1, <3>1, ListOp
      <3> QED
        BY <1>1, <1>2, <1>3, <1>6, <1>7, <1>9, <2>3, <3>2 DEF DocumentAt
    <2>4. CASE in.hosts # <<>>
      <3>1. PICK items : items = hosts.items
        OBVIOUS
      <3>2. hosts = List([i \in DOMAIN in.hosts |-> items[i]])
        BY <1>3, <2>4, <3>1 DEF HostsAt
      <3>3. list.kind = "list" /\ DOMAIN items = DOMAIN in.hosts
        BY <2>2, <3>1, <3>2 DEF List
      <3>4. \A i \in DOMAIN in.hosts : HostAt(E, in, i, items[i])
        BY <1>3, <2>4, <3>1 DEF HostsAt
      <3>5. PICK new : new = Items(step, items, KeysIn(g, k), KeysIn(g, "user_id"))
        OBVIOUS
      <3>6. e = Set(d, ListOf(g), new)
        <4>1. list.items = items /\ g # "cluster"
          BY <1>9, <2>2, <3>1
        <4> QED
          BY <1>1, <1>4, <2>1, <3>3, <3>5, <4>1, ListOp
      <3>7. new.kind # "missing"
        BY <3>5 DEF Items, List
      <3>8. PICK x : x = SetField(c, "hosts", new)
        OBVIOUS
      <3>9. e = SetField(d, "cluster", x)
        BY <1>2, <1>9, <3>6, <3>8 DEF ListOf, Set
      <3>10. /\ Proper(x)
             /\ x.kind # "missing"
             /\ \A f : Field(x, f) = IF f = "hosts" THEN new ELSE Field(c, f)
        BY <1>3, <3>7, <3>8, SetFieldIs
      <3>11. Proper(e) /\ \A f : Field(e, f) = IF f = "cluster" THEN x ELSE Field(d, f)
        BY <1>3, <3>9, <3>10, SetFieldIs
      <3>12. ObjectAt(F, "cluster", in.cluster, x, {"hosts"})
        BY <1>6, <1>9, <3>10 DEF ObjectAt
      <3>13. \A i \in DOMAIN in.hosts : HostAt(F, in, i, new.items[i])
        <4>1. \A i \in DOMAIN in.hosts :
                 new.items[i] = Op(step, items[i], KeysIn(g, k), KeysIn(g, "user_id"))
          BY <3>3, <3>5 DEF Items, List
        <4> QED
          BY <1>9, <3>4, <4>1, HostEdited
      <3>14. new = List([i \in DOMAIN in.hosts |-> new.items[i]])
        BY <3>3, <3>5 DEF Items, List
      <3>15. HostsAt(F, in, new)
        BY <2>4, <3>13, <3>14 DEF HostsAt
      <3> QED
        BY <1>1, <1>2, <1>3, <1>7, <1>9, <3>10, <3>11, <3>12, <3>15 DEF DocumentAt
    <2> QED
      BY <2>3, <2>4
  <1>10. CASE g = "infraEnv"
    <2>1. PICK list : list = Get(d, ListOf(g))
      OBVIOUS
    <2>2. list = infraEnvs
      BY <1>2, <1>10, <2>1 DEF ListOf, Get
    <2>3. CASE in.infraEnvs = <<>>
      <3>1. list.kind = "missing"
        BY <1>3, <2>2, <2>3 DEF InfraEnvsAt, Missing
      <3>2. e = d
        BY <1>1, <1>4, <1>10, <2>1, <3>1, ListOp
      <3> QED
        BY <1>1, <1>2, <1>3, <1>6, <1>7, <1>10, <2>3, <3>2 DEF DocumentAt
    <2>4. CASE in.infraEnvs # <<>>
      <3>1. PICK items : items = infraEnvs.items
        OBVIOUS
      <3>2. infraEnvs = List([i \in DOMAIN in.infraEnvs |-> items[i]])
        BY <1>3, <2>4, <3>1 DEF InfraEnvsAt
      <3>3. list.kind = "list" /\ DOMAIN items = DOMAIN in.infraEnvs
        BY <2>2, <3>1, <3>2 DEF List
      <3>4. \A i \in DOMAIN in.infraEnvs : InfraEnvAt(E, in, i, items[i])
        BY <1>3, <2>4, <3>1 DEF InfraEnvsAt
      <3>5. PICK new : new = Items(step, items, <<k>>, <<"user_id">>)
        OBVIOUS
      <3>6. KeysIn(g, k) = <<k>> /\ KeysIn(g, "user_id") = <<"user_id">>
        BY <1>10 DEF KeysIn
      <3>7. e = Set(d, ListOf(g), new)
        BY <1>1, <1>4, <1>10, <2>1, <2>2, <3>1, <3>3, <3>5, <3>6, ListOp
      <3>8. new.kind # "missing"
        BY <3>5 DEF Items, List
      <3>9. e = SetField(d, "infra_envs", new)
        BY <1>10, <3>7 DEF ListOf, Set
      <3>10. Proper(e) /\ \A f : Field(e, f) = IF f = "infra_envs" THEN new ELSE Field(d, f)
        BY <1>3, <3>8, <3>9, SetFieldIs
      <3>11. \A i \in DOMAIN in.infraEnvs : InfraEnvAt(F, in, i, new.items[i])
        <4>1. \A i \in DOMAIN in.infraEnvs : new.items[i] = Op(step, items[i], <<k>>, <<"user_id">>)
          BY <3>3, <3>5 DEF Items, List
        <4> QED
          BY <1>10, <3>4, <4>1, InfraEnvEdited
      <3>12. new = List([i \in DOMAIN in.infraEnvs |-> new.items[i]])
        BY <3>3, <3>5 DEF Items, List
      <3>13. InfraEnvsAt(F, in, new)
        BY <2>4, <3>11, <3>12 DEF InfraEnvsAt
      <3> QED
        BY <1>1, <1>2, <1>3, <1>6, <1>7, <1>10, <3>10, <3>13 DEF DocumentAt
    <2> QED
      BY <2>3, <2>4
  <1> QED
    BY <1>4, <1>8, <1>9, <1>10 DEF Groups

-----------------------------------------------------------------------------
(* The base event. *)
LEMMA OmitEmptyIs ==
    ASSUME NEW d, Proper(d), NEW k, NEW v
    PROVE  /\ Proper(OmitEmpty(d, k, v))
           /\ \A f : f # k => Field(OmitEmpty(d, k, v), f) = Field(d, f)
           /\ v.kind = "missing" => OmitEmpty(d, k, v) = d
           /\ v.kind = "list" => Field(OmitEmpty(d, k, v), k) = IF v.items = <<>> THEN Field(d, k) ELSE v
  <1>1. v.kind # "missing" => Proper(SetField(d, k, v))
    BY SetFieldIs
  <1>2. \A f : Field(SetField(d, k, v), f) = IF f = k THEN v ELSE Field(d, f)
    BY SetFieldIs
  <1>3. /\ v.kind \in {"null", "missing"} => OmitEmpty(d, k, v) = d
        /\ OmitEmpty(d, k, v) = d \/ OmitEmpty(d, k, v) = SetField(d, k, v)
        /\ v.kind = "list" => OmitEmpty(d, k, v) = IF v.items = <<>> THEN d ELSE SetField(d, k, v)
    BY DEF OmitEmpty
  <1> QED
    BY <1>1, <1>2, <1>3

LEMMA NoEdits ==
    ASSUME NEW g, NEW o, NEW k PROVE FieldAt({}, g, o, k) = Field(o, k)
  BY DEF FieldAt, Transformed, IfMade, Has

LEMMA BaseFields ==
    ASSUME NEW in, IsInput(in)
    PROVE  LET base == GetBaseEnrichedEvent(in)
               hosts == getHostsWithEmbeddedInfraEnv(in.hosts, in.infraEnvs)
           IN  /\ Proper(base)
               /\ Field(base, "cluster") =
                    SetField(in.cluster, "hosts", IF in.hosts = <<>> THEN Null ELSE List(hosts))
               /\ Field(base, "versions") = getVersionsFromMetadata(in.metadata)
               /\ Field(base, "infra_envs") = IF in.infraEnvs = <<>> THEN Missing ELSE List(in.infraEnvs)
               /\ getReleaseTagFromMetadata(in.metadata).kind = "missing"
                    => Field(base, "release_tag") = Missing
  <1>1. PICK event : event = OmitEmpty(Object(NoFields), "props", getProps(in.props))
    OBVIOUS
  <1>2. PICK cluster : cluster = SetField(in.cluster, "hosts",
                         IF in.hosts = <<>> THEN Null
                         ELSE List(getHostsWithEmbeddedInfraEnv(in.hosts, in.infraEnvs)))
    OBVIOUS
  <1>3. PICK versions : versions = getVersionsFromMetadata(in.metadata)
    OBVIOUS
  <1>4. event.kind # "missing" /\ cluster.kind # "missing" /\ versions.kind # "missing"
    <2>1. Proper(Object(NoFields))
      BY DEF Proper, Object, NoFields
    <2>2. Proper(event)
      BY <1>1, <2>1, OmitEmptyIs
    <2>3. event.kind = "object"
      BY <2>2, ProperKind
    <2>4. cluster.kind = "object"
      BY <1>2, SetFieldIs
    <2>5. versions.kind \in {"object", "null"}
      BY <1>3 DEF getVersionsFromMetadata, Null
    <2> QED
      BY <2>3, <2>4, <2>5
  <1>5. PICK f : f = [event |-> event, cluster |-> cluster, versions |-> versions]
    OBVIOUS
  <1>6. /\ f = [k \in {"event", "cluster", "versions"} |-> f[k]]
        /\ f["event"] = event /\ f["cluster"] = cluster /\ f["versions"] = versions
    BY <1>5
  <1>7. /\ Proper(Object(f))
        /\ \A k : Field(Object(f), k) = IF k \in {"event", "cluster", "versions"} THEN f[k] ELSE Missing
    <2>1. \A k \in {"event", "cluster", "versions"} : f[k].kind # "missing"
      BY <1>4, <1>6
    <2> QED
      BY <1>6, <2>1, ObjectField
  <1>8. PICK list : list = List(in.infraEnvs)
    OBVIOUS
  <1>9. PICK doc : doc = OmitEmpty(Object(f), "infra_envs", list)
    OBVIOUS
  <1>l. list.kind = "list" /\ list.items = in.infraEnvs
    BY <1>8 DEF List
  <1>10. /\ Proper(doc)
         /\ \A k : k # "infra_envs" => Field(doc, k) = Field(Object(f), k)
         /\ Field(doc, "infra_envs") =
              IF in.infraEnvs = <<>> THEN Field(Object(f), "infra_envs") ELSE list
    BY <1>7, <1>9, <1>l, OmitEmptyIs
  <1>11. PICK tag : tag = getReleaseTagFromMetadata(in.metadata)
    OBVIOUS
  <1>12. PICK base : base = OmitEmpty(doc, "release_tag", tag)
    OBVIOUS
  <1>13. GetBaseEnrichedEvent(in) = base
    BY <1>1, <1>2, <1>3, <1>5, <1>8, <1>9, <1>11, <1>12 DEF GetBaseEnrichedEvent
  <1>14. /\ Proper(base)
         /\ \A k : k # "release_tag" => Field(base, k) = Field(doc, k)
         /\ tag.kind = "missing" => Field(base, "release_tag") = Field(doc, "release_tag")
    BY <1>10, <1>12, OmitEmptyIs
  <1>15. /\ Field(base, "cluster") = cluster
         /\ Field(base, "versions") = versions
         /\ Field(base, "infra_envs") = IF in.infraEnvs = <<>> THEN Missing ELSE list
         /\ tag.kind = "missing" => Field(base, "release_tag") = Missing
    BY <1>6, <1>7, <1>10, <1>14
  <1> QED
    BY <1>2, <1>3, <1>8, <1>11, <1>13, <1>14, <1>15

LEMMA BaseDocument ==
    ASSUME NEW in, IsInput(in), PlainInput(in)
    PROVE  DocumentAt({}, in, GetBaseEnrichedEvent(in))
  <1>1. PICK base : base = GetBaseEnrichedEvent(in)
    OBVIOUS
  <1>2. PICK items : items = getHostsWithEmbeddedInfraEnv(in.hosts, in.infraEnvs)
    OBVIOUS
  <1>3. PICK hosts : hosts = IF in.hosts = <<>> THEN Null ELSE List(items)
    OBVIOUS
  <1>4. /\ Proper(base)
        /\ Field(base, "cluster") = SetField(in.cluster, "hosts", hosts)
        /\ Field(base, "infra_envs") = IF in.infraEnvs = <<>> THEN Missing ELSE List(in.infraEnvs)
    BY <1>1, <1>2, <1>3, BaseFields
  <1>5. /\ Proper(in.cluster)
        /\ \A i \in DOMAIN in.hosts : Proper(in.hosts[i])
        /\ \A j \in DOMAIN in.infraEnvs : Proper(in.infraEnvs[j])
        /\ \A i : Matches(in, i) # {} => Proper(Embedded(in, i))
    BY InputObjects, IsObjectProper
  <1>6. hosts.kind # "missing"
    BY <1>3 DEF Null, List
  <1>7. /\ ObjectAt({}, "cluster", in.cluster, Field(base, "cluster"), {"hosts"})
        /\ Field(Field(base, "cluster"), "hosts") = hosts
    BY <1>4, <1>5, <1>6, SetFieldIs, NoEdits DEF ObjectAt
  <1>8. items = [i \in DOMAIN in.hosts |-> items[i]]
    BY <1>2 DEF getHostsWithEmbeddedInfraEnv
  <1>9. ASSUME NEW i \in DOMAIN in.hosts PROVE HostAt({}, in, i, items[i])
    <2>1. items[i] = IF Matches(in, i) = {} THEN in.hosts[i]
                     ELSE SetField(in.hosts[i], "infra_env", Embedded(in, i))
      BY <1>2 DEF getHostsWithEmbeddedInfraEnv, Matches, Embedded
    <2>2. CASE Matches(in, i) = {}
      <3>1. Field(in.hosts[i], "infra_env") = Missing
        BY DEF PlainInput
      <3> QED
        BY <1>5, <2>1, <2>2, <3>1, NoEdits DEF HostAt, ObjectAt
    <2>3. CASE Matches(in, i) # {}
      <3>1. PICK x : x = Embedded(in, i)
        OBVIOUS
      <3>2. Proper(x) /\ x.kind # "missing"
        BY <1>5, <2>3, <3>1, ProperKind
      <3>3. items[i] = SetField(in.hosts[i], "infra_env", x)
        BY <2>1, <2>3, <3>1
      <3>4. /\ Proper(items[i])
            /\ \A f : Field(items[i], f) = IF f = "infra_env" THEN x ELSE Field(in.hosts[i], f)
        BY <1>5, <3>2, <3>3, SetFieldIs
      <3> QED
        BY <2>3, <3>1, <3>2, <3>4, NoEdits DEF HostAt, ObjectAt
    <2> QED
      BY <2>2, <2>3
  <1>10. HostsAt({}, in, hosts)
    <2>1. in.hosts # <<>> => hosts = List(items) /\ hosts.items = items
      BY <1>3 DEF List
    <2> QED
      BY <1>3, <1>8, <1>9, <2>1 DEF HostsAt
  <1>11. InfraEnvsAt({}, in, Field(base, "infra_envs"))
    <2>1. in.infraEnvs = [j \in DOMAIN in.infraEnvs |-> in.infraEnvs[j]]
      BY DEF IsInput, IsList
    <2>2. List(in.infraEnvs).items = in.infraEnvs
      BY DEF List
    <2>3. \A j \in DOMAIN in.infraEnvs : InfraEnvAt({}, in, j, in.infraEnvs[j])
      BY <1>5, NoEdits DEF InfraEnvAt, ObjectAt
    <2> QED
      BY <1>4, <2>1, <2>2, <2>3 DEF InfraEnvsAt
  <1> QED
    BY <1>1, <1>4, <1>7, <1>10, <1>11 DEF DocumentAt

-----------------------------------------------------------------------------
(* A step goes through its paths, each once, in whatever order. *)
Order(s, step) ==
    /\ s \in Seq(Paths(step))
    /\ \A i, j \in DOMAIN s : s[i] = s[j] => i = j
    /\ \A p \in Paths(step) : \E i \in DOMAIN s : s[i] = p

LEMMA MapOrder ==
    ASSUME NEW step \in {"hash", "rename"}, NEW s \in MapOrders(DOMAIN fieldsToAnonymize)
    PROVE  Order(s, step)
  <1>1. PICK S : S = DOMAIN fieldsToAnonymize
    OBVIOUS
  <1>2. S = {Path("cluster", "user_name"), Path("host", "user_name"),
             Path("hostInfraEnv", "user_name"), Path("infraEnv", "user_name")}
    BY <1>1 DEF fieldsToAnonymize, Path
  <1>3. S = Paths(step)
    <2>1. \A g \in Groups : Keys(step, g) = {"user_name"}
      BY DEF Keys, Groups
    <2> QED
      BY <1>2, <2>1 DEF Paths, Groups
  <1>4. IsFiniteSet(S)
    <2>1. PICK a, b, c, d : S = {a, b, c, d}
      BY <1>2
    <2>2. S = (({a} \cup {b}) \cup {c}) \cup {d}
      BY <2>1
    <2> QED
      BY <2>2, FS_Singleton, FS_Union
  <1>5. Cardinality(S) \in Nat
    BY <1>4, FS_CardinalityType
  <1>6. s \in [1 .. Cardinality(S) -> S]
    BY <1>1 DEF MapOrders
  <1>7. s \in Seq(S) /\ DOMAIN s = 1 .. Cardinality(S)
    BY <1>5, <1>6
  <1>8. \A p \in S : \E i \in DOMAIN s : \A j \in DOMAIN s : s[j] = p <=> j = i
    BY <1>1 DEF MapOrders
  <1>9. \A i \in DOMAIN s : s[i] \in S
    BY <1>6, <1>7
  <1> QED
    BY <1>3, <1>7, <1>8, <1>9 DEF Order

(* A list of paths, given by their groups and keys. *)
Lists(s, step, n, G, K) ==
    /\ s \in Seq({s[i] : i \in 1 .. n}) /\ Len(s) = n
    /\ \A i \in 1 .. n : G[i] \in Groups /\ K[i] \in Keys(step, G[i]) /\ s[i] = Path(G[i], K[i])
    /\ \A i, j \in 1 .. n : G[i] = G[j] /\ K[i] = K[j] => i = j
    /\ \A g \in Groups : \A k \in Keys(step, g) : \E i \in 1 .. n : G[i] = g /\ K[i] = k

LEMMA ListOrder ==
    ASSUME NEW step, NEW n \in Nat, NEW G, NEW K, NEW s, Lists(s, step, n, G, K)
    PROVE  Order(s, step)
  <1>1. s \in Seq({s[i] : i \in 1 .. n}) /\ DOMAIN s = 1 .. n
    BY DEF Lists
  <1>2. \A i \in 1 .. n : s[i] \in Paths(step)
    BY PathsOf DEF Lists
  <1>3. s \in Seq(Paths(step))
    BY <1>1, <1>2
  <1>4. \A i, j \in DOMAIN s : s[i] = s[j] => i = j
    BY <1>1, PathInjective DEF Lists
  <1>5. \A p \in Paths(step) : \E i \in DOMAIN s : s[i] = p
    BY <1>1 DEF Paths, Lists
  <1> QED
    BY <1>3, <1>4, <1>5 DEF Order

LEMMA UnpackOrder == Order(fieldsToUnpack, "unpack")
  <1>1. PICK G : G = <<"cluster", "cluster", "cluster", "host", "host", "host", "host", "host",
                       "host", "host", "host">>
    OBVIOUS
  <1>2. PICK K : K = <<"feature_usage", "validations_info", "connectivity_majority_groups",
                       "inventory", "connectivity", "disks_info", "domain_name_resolutions",
                       "free_addresses", "images_status", "ntp_sources", "validations_info">>
    OBVIOUS
  <1>3. PICK s : s = fieldsToUnpack
    OBVIOUS
  <1>4. s \in Seq({s[i] : i \in 1 .. 11}) /\ Len(s) = 11
    BY <1>3 DEF fieldsToUnpack
  <1>5. \A i \in 1 .. 11 : G[i] \in Groups /\ K[i] \in Keys("unpack", G[i])
    BY <1>1, <1>2 DEF Groups, Keys
  <1>6. \A i \in 1 .. 11 : s[i] = Path(G[i], K[i])
    BY <1>1, <1>2, <1>3 DEF fieldsToUnpack, Path
  <1>7. \A i, j \in 1 .. 11 : G[i] = G[j] /\ K[i] = K[j] => i = j
    BY <1>1, <1>2
  <1>8. \A g \in Groups : \A k \in Keys("unpack", g) : \E i \in 1 .. 11 : G[i] = g /\ K[i] = k
    BY <1>1, <1>2 DEF Groups, Keys
  <1>9. Lists(s, "unpack", 11, G, K)
    BY <1>4, <1>5, <1>6, <1>7, <1>8 DEF Lists
  <1> QED
    BY <1>3, <1>9, ListOrder

LEMMA DropKeyOrder == Order(fieldsMapToListDropKey, "dropKey")
  <1>1. PICK G, K : G = <<"cluster">> /\ K = <<"feature_usage">>
    OBVIOUS
  <1>2. PICK s : s = fieldsMapToListDropKey
    OBVIOUS
  <1>3. s \in Seq({s[i] : i \in 1 .. 1}) /\ Len(s) = 1
    BY <1>2 DEF fieldsMapToListDropKey
  <1>4. \A i \in 1 .. 1 : /\ G[i] \in Groups /\ K[i] \in Keys("dropKey", G[i])
                          /\ s[i] = Path(G[i], K[i])
    BY <1>1, <1>2 DEF Groups, Keys, fieldsMapToListDropKey, Path
  <1>5. \A g \in Groups : \A k \in Keys("dropKey", g) : \E i \in 1 .. 1 : G[i] = g /\ K[i] = k
    BY <1>1 DEF Groups, Keys
  <1>6. \A i, j \in 1 .. 1 : G[i] = G[j] /\ K[i] = K[j] => i = j
    OBVIOUS
  <1>7. Lists(s, "dropKey", 1, G, K)
    BY <1>3, <1>4, <1>5, <1>6 DEF Lists
  <1> QED
    BY <1>2, <1>7, ListOrder

LEMMA MapToListOrder == Order(fieldsMapToList, "mapToList")
  <1>1. PICK G, K : /\ G = <<"cluster", "host", "host">>
                    /\ K = <<"connectivity_majority_groups", "disks_info", "images_status">>
    OBVIOUS
  <1>2. PICK s : s = fieldsMapToList
    OBVIOUS
  <1>3. s \in Seq({s[i] : i \in 1 .. 3}) /\ Len(s) = 3
    BY <1>2 DEF fieldsMapToList
  <1>4. \A i \in 1 .. 3 : /\ G[i] \in Groups /\ K[i] \in Keys("mapToList", G[i])
                          /\ s[i] = Path(G[i], K[i])
    BY <1>1, <1>2 DEF Groups, Keys, fieldsMapToList, Path
  <1>5. \A g \in Groups : \A k \in Keys("mapToList", g) : \E i \in 1 .. 3 : G[i] = g /\ K[i] = k
    BY <1>1 DEF Groups, Keys
  <1>6. \A i, j \in 1 .. 3 : G[i] = G[j] /\ K[i] = K[j] => i = j
    BY <1>1
  <1>7. Lists(s, "mapToList", 3, G, K)
    BY <1>3, <1>4, <1>5, <1>6 DEF Lists
  <1> QED
    BY <1>2, <1>7, ListOrder

LEMMA DeleteOrder == Order(fieldsToDelete, "delete")
  <1>1. PICK G, K : /\ G = <<"cluster", "cluster", "hostInfraEnv", "infraEnv">>
                    /\ K = <<"pull_secret", "ssh_public_key", "ssh_authorized_key",
                             "ssh_authorized_key">>
    OBVIOUS
  <1>2. PICK s : s = fieldsToDelete
    OBVIOUS
  <1>3. s \in Seq({s[i] : i \in 1 .. 4}) /\ Len(s) = 4
    BY <1>2 DEF fieldsToDelete
  <1>4. \A i \in 1 .. 4 : /\ G[i] \in Groups /\ K[i] \in Keys("delete", G[i])
                          /\ s[i] = Path(G[i], K[i])
    BY <1>1, <1>2 DEF Groups, Keys, fieldsToDelete, Path
  <1>5. \A g \in Groups : \A k \in Keys("delete", g) : \E i \in 1 .. 4 : G[i] = g /\ K[i] = k
    BY <1>1 DEF Groups, Keys
  <1>6. \A i, j \in 1 .. 4 : G[i] = G[j] /\ K[i] = K[j] => i = j
    BY <1>1
  <1>7. Lists(s, "delete", 4, G, K)
    BY <1>3, <1>4, <1>5, <1>6 DEF Lists
  <1> QED
    BY <1>2, <1>7, ListOrder

LEMMA OrdersOf ==
    ASSUME NEW step \in Steps \cup {"summary"}, NEW s \in Orders(step) PROVE Order(s, step)
  <1>1. CASE step = "unpack"
    BY <1>1, UnpackOrder DEF Orders
  <1>2. CASE step = "dropKey"
    BY <1>2, DropKeyOrder DEF Orders
  <1>3. CASE step = "mapToList"
    BY <1>3, MapToListOrder DEF Orders
  <1>4. CASE step \in {"hash", "rename"}
    BY <1>4, MapOrder DEF Orders
  <1>5. CASE step = "delete"
    BY <1>5, DeleteOrder DEF Orders
  <1>6. CASE step = "summary"
    <2>1. s = <<>>
      BY <1>6 DEF Orders
    <2>2. Paths("summary") = {}
      BY DEF Paths, Keys, Groups
    <2> QED
      BY <1>6, <2>1, <2>2 DEF Order
  <1> QED
    BY <1>1, <1>2, <1>3, <1>4, <1>5, <1>6 DEF Steps, Transforms

-----------------------------------------------------------------------------
(* One iteration of a step's loop makes one edit ... *)
LEMMA MadeNext ==
    ASSUME NEW st \in Steps, NEW pd, pd \in Seq(Paths(st)), pd # <<>>,
           \A i, j \in DOMAIN pd : pd[i] = pd[j] => i = j,
           NEW g \in Groups, NEW k \in Keys(st, g), Head(pd) = Path(g, k)
    PROVE  MayFollow(Made(st, pd), st, g, k, Made(st, Tail(pd)))
  <1>1. PICK p : p = Path(g, k)
    OBVIOUS
  <1>2. PICK W, V : W = {pd[i] : i \in DOMAIN pd} /\ V = {Tail(pd)[i] : i \in DOMAIN Tail(pd)}
    OBVIOUS
  <1>3. W = V \cup {p} /\ p \notin V
    <2>1. /\ Len(pd) \in Nat /\ Len(pd) >= 1 /\ DOMAIN pd = 1 .. Len(pd) /\ pd[1] = p
          /\ DOMAIN Tail(pd) = 1 .. Len(pd) - 1
          /\ \A i \in 1 .. Len(pd) - 1 : Tail(pd)[i] = pd[i + 1]
      BY <1>1
    <2>2. \A x \in V : x \in W /\ x # p
      BY <1>2, <2>1
    <2>3. \A x \in W : x = p \/ x \in V
      <3>1. SUFFICES ASSUME NEW i \in DOMAIN pd, pd[i] # p PROVE pd[i] \in V
        BY <1>2
      <3>2. i - 1 \in 1 .. Len(pd) - 1 /\ (i - 1) + 1 = i
        BY <2>1, <3>1
      <3> QED
        BY <1>2, <2>1, <3>2
    <2>4. p \in W
      BY <1>2, <2>1
    <2> QED
      BY <2>2, <2>3, <2>4
  <1>4. p \in Paths(st)
    BY <1>1, PathsOf
  <1>5. <<st, p>> \in Edits
    BY <1>4, EditsOf
  <1>6. st \notin Earlier(st)
    BY DEF Steps, Transforms, Earlier
  <1>7. Made(st, Tail(pd)) = Made(st, pd) \cup {<<st, p>>}
    <2>1. \A e : e \in Made(st, pd) <=> e \in Edits /\ (e[1] \in Earlier(st) \/ (e[1] = st /\ e[2] \notin W))
      BY <1>2 DEF Made
    <2>2. \A e : e \in Made(st, Tail(pd)) <=>
                   e \in Edits /\ (e[1] \in Earlier(st) \/ (e[1] = st /\ e[2] \notin V))
      BY <1>2 DEF Made
    <2>3. \A e \in Edits : e = <<e[1], e[2]>>
      BY DEF Edits
    <2> QED
      BY <1>3, <1>5, <2>1, <2>2, <2>3
  <1>8. <<st, p>> \notin Made(st, pd)
    BY <1>2, <1>3, <1>6 DEF Made
  <1>9. \A e \in Made(st, pd) : e \in Edits /\ (e[1] \in Earlier(st) \/ e[1] = st)
    BY DEF Made
  <1>10. UpTo(Made(st, pd), st)
    BY <1>9 DEF UpTo
  <1> QED
    BY <1>1, <1>7, <1>8, <1>9, <1>10 DEF MayFollow, OneMore, Has

(* ... and none is made when one step returns and the next one begins. *)
LEMMA MadeAtEntry ==
    ASSUME NEW n \in Steps \cup {"summary"}, NEW s, Order(s, n)
    PROVE  /\ n = "unpack" => Made(n, s) = {}
           /\ \A st \in Steps : n = NextStep[st] => Made(n, s) = Made(st, <<>>)
           /\ n = "summary" => s = <<>>
  <1>1. \A e : e \in Made(n, s) <=> e \in Edits /\ e[1] \in Earlier(n)
    <2>1. \A e \in Edits : e[1] = n => e[2] \in {s[i] : i \in DOMAIN s}
      BY DEF Edits, Order
    <2> QED
      BY <2>1 DEF Made
  <1>2. \A st, e : e \in Made(st, <<>>) <=> e \in Edits /\ (e[1] \in Earlier(st) \/ e[1] = st)
    BY DEF Made
  <1>3. ASSUME NEW st \in Steps, n = NextStep[st]
        PROVE  \A t \in Steps : t \in Earlier(n) <=> t \in Earlier(st) \/ t = st
    BY <1>3 DEF NextStep, Steps, Transforms, Earlier
  <1>4. \A e \in Edits : e[1] \in Steps
    BY DEF Edits
  <1>5. ASSUME NEW st \in Steps, n = NextStep[st] PROVE Made(n, s) = Made(st, <<>>)
    BY <1>1, <1>2, <1>3, <1>4, <1>5
  <1>6. n = "unpack" => Made(n, s) = {}
    BY <1>1, <1>4 DEF Earlier
  <1>7. n = "summary" => s = <<>>
    <2>1. Paths("summary") = {}
      BY DEF Paths, Keys, Groups
    <2> QED
      BY <2>1 DEF Order
  <1> QED
    BY <1>5, <1>6, <1>7

LEMMA AllMade == Made("summary", <<>>) = Edits /\ Made("done", <<>>) = Edits
  <1>1. \A e \in Edits : e[1] \in Steps
    BY DEF Edits
  <1> QED
    BY <1>1 DEF Made, Earlier

-----------------------------------------------------------------------------
(* The steps call each other and go through their paths as they should. *)
LEMMA NothingPending ==
    ASSUME stage \in {"base", "summary", "done"}, PendingInv PROVE pending = <<>>
  <1>1. Paths(stage) = {}
    BY DEF Paths, Keys, Groups
  <1> QED
    BY <1>1 DEF PendingInv

(* The actions that make an edit. *)
Editing ==
    \/ unpackJson \/ mapToListJsonDropKey \/ mapToListJson
    \/ anonymizeHash \/ anonymizeRename \/ deleteJson

LEMMA EditingVisits ==
    ASSUME Editing
    PROVE  stage \in Steps /\ Visit(stage, DocumentOp(stage, json, Head(pending)))
  <1>1. CASE unpackJson
    BY <1>1 DEF unpackJson, Visit, DocumentOp, Steps, Transforms
  <1>2. CASE mapToListJsonDropKey
    BY <1>2 DEF mapToListJsonDropKey, Visit, DocumentOp, Steps, Transforms
  <1>3. CASE mapToListJson
    BY <1>3 DEF mapToListJson, Visit, DocumentOp, Steps, Transforms
  <1>4. CASE anonymizeHash
    BY <1>4 DEF anonymizeHash, Visit, DocumentOp, Steps, Transforms
  <1>5. CASE anonymizeRename
    BY <1>5 DEF anonymizeRename, Visit, DocumentOp, Steps, Transforms
  <1>6. CASE deleteJson
    BY <1>6 DEF deleteJson, Visit, DocumentOp, Steps, Transforms
  <1> QED
    BY <1>1, <1>2, <1>3, <1>4, <1>5, <1>6 DEF Editing

LEMMA LoopStep == ASSUME LoopInv, [Next]_enricherVars PROVE LoopInv'
  <1>1. /\ input \in Inputs
        /\ pending \in Seq(Paths(stage))
        /\ \A i, j \in DOMAIN pending : pending[i] = pending[j] => i = j
        /\ stage \in {"base", "summary", "done"} \cup Steps
    BY DEF LoopInv, PendingInv
  <1>2. CASE CreateBaseEvent \/ StepReturns
    <2>1. input' = input /\ stage' = NextStep[stage] /\ pending' \in Orders(stage')
      BY <1>2 DEF CreateBaseEvent, StepReturns, Call
    <2>2. stage' \in Steps \cup {"summary"}
      BY <1>2, <2>1 DEF CreateBaseEvent, StepReturns, NextStep, Steps, Transforms
    <2>3. Order(pending', stage')
      BY <2>1, <2>2, OrdersOf
    <2> QED
      BY <1>1, <2>1, <2>2, <2>3 DEF LoopInv, PendingInv, Order
  <1>3. CASE Editing
    <2>1. input' = input /\ stage' = stage /\ pending # <<>> /\ pending' = Tail(pending)
      BY <1>3, EditingVisits DEF Visit
    <2>2. /\ Tail(pending) \in Seq(Paths(stage))
          /\ DOMAIN Tail(pending) = 1 .. Len(pending) - 1
          /\ \A i \in 1 .. Len(pending) - 1 : Tail(pending)[i] = pending[i + 1]
      BY <1>1, <2>1
    <2>3. \A i \in DOMAIN Tail(pending) : i \in Nat /\ i + 1 \in DOMAIN pending
      BY <1>1, <2>1, <2>2
    <2>4. \A i, j \in DOMAIN Tail(pending) : Tail(pending)[i] = Tail(pending)[j] => i = j
      BY <1>1, <2>2, <2>3
    <2> QED
      BY <1>1, <2>1, <2>2, <2>4 DEF LoopInv, PendingInv
  <1>4. CASE addHostsSummaryJson \/ NextEvent
    <2>1. /\ input' \in Inputs /\ pending' = pending
          /\ stage' \in {"done", "base"} /\ stage \in {"summary", "done"}
      BY <1>1, <1>4 DEF addHostsSummaryJson, NextEvent
    <2>2. pending = <<>>
      BY <2>1, NothingPending DEF LoopInv
    <2> QED
      BY <2>1, <2>2 DEF LoopInv, PendingInv
  <1>5. CASE UNCHANGED enricherVars
    BY <1>5 DEF LoopInv, PendingInv, enricherVars
  <1> QED
    BY <1>2, <1>3, <1>4, <1>5 DEF Next, Editing

-----------------------------------------------------------------------------
(* The document is kept, for inputs the code was written for. *)
LEMMA InvInit == ASSUME Init PROVE EnricherInv
  BY DEF Init, EnricherInv, LoopInv, PendingInv, DocumentInv, SummaryInv

LEMMA CreateKeepsDocument ==
    ASSUME PlainInputs, LoopInv, CreateBaseEvent PROVE DocumentInv' /\ SummaryInv'
  <1>1. /\ input \in Inputs /\ input' = input
        /\ stage' = "unpack"
        /\ pending' \in Orders("unpack")
        /\ json' = GetBaseEnrichedEvent(input)
    BY DEF LoopInv, CreateBaseEvent, Call, NextStep
  <1>2. Order(pending', "unpack")
    BY <1>1, OrdersOf DEF Steps, Transforms
  <1>3. Made("unpack", pending') = {}
    BY <1>2, MadeAtEntry DEF Steps, Transforms
  <1>4. DocumentAt({}, input, json')
    BY <1>1, BaseDocument, EnricherAssumption DEF PlainInputs
  <1> QED
    BY <1>1, <1>3, <1>4 DEF DocumentInv, SummaryInv

LEMMA ReturnKeepsDocument ==
    ASSUME EnricherInv, StepReturns PROVE DocumentInv' /\ SummaryInv'
  <1>1. /\ input' = input /\ json' = json
        /\ pending = <<>>
        /\ stage' = NextStep[stage]
        /\ pending' \in Orders(stage')
        /\ stage \in DOMAIN NextStep \ {"base"}
    BY DEF StepReturns, Call
  <1>2. stage \in Steps /\ stage' \in Steps \cup {"summary"} /\ stage' # "done" /\ stage # "base"
    BY <1>1 DEF NextStep, Steps, Transforms
  <1>3. Order(pending', stage')
    BY <1>1, <1>2, OrdersOf
  <1>4. Made(stage', pending') = Made(stage, pending)
    BY <1>1, <1>2, <1>3, MadeAtEntry
  <1>5. DocumentAt(Made(stage, pending), input, json)
    BY <1>2 DEF EnricherInv, DocumentInv
  <1>6. DocumentInv'
    BY <1>1, <1>4, <1>5 DEF DocumentInv
  <1> QED
    BY <1>2, <1>6 DEF SummaryInv

LEMMA NextPath ==
    ASSUME LoopInv, Editing
    PROVE  \E g \in Groups : \E k \in Keys(stage, g) : Head(pending) = Path(g, k)
  <1>1. pending \in Seq(Paths(stage)) /\ pending # <<>>
    BY EditingVisits DEF LoopInv, PendingInv, Visit
  <1>2. Head(pending) \in Paths(stage)
    BY <1>1
  <1> QED
    BY <1>2 DEF Paths

LEMMA EditKeepsDocument ==
    ASSUME PlainInputs, EnricherInv, Editing PROVE DocumentInv' /\ SummaryInv'
  <1>1. /\ stage \in Steps
        /\ input' = input /\ stage' = stage
        /\ pending # <<>> /\ pending' = Tail(pending)
        /\ json' = DocumentOp(stage, json, Head(pending))
    BY EditingVisits DEF Visit
  <1>2. /\ input \in Inputs
        /\ pending \in Seq(Paths(stage))
        /\ \A i, j \in DOMAIN pending : pending[i] = pending[j] => i = j
    BY DEF EnricherInv, LoopInv, PendingInv
  <1>3. PICK g \in Groups : \E k \in Keys(stage, g) : Head(pending) = Path(g, k)
    BY NextPath DEF EnricherInv
  <1>4. PICK k \in Keys(stage, g) : Head(pending) = Path(g, k)
    BY <1>3
  <1>5. MayFollow(Made(stage, pending), stage, g, k, Made(stage, Tail(pending)))
    BY <1>1, <1>2, <1>4, MadeNext
  <1>6. DocumentAt(Made(stage, pending), input, json)
    BY <1>1 DEF EnricherInv, DocumentInv, Steps, Transforms
  <1>7. IsInput(input) /\ PlainInput(input)
    BY <1>2, EnricherAssumption DEF PlainInputs
  <1>8. DocumentAt(Made(stage, Tail(pending)), input, json')
    BY <1>1, <1>4, <1>5, <1>6, <1>7, DocumentEdited
  <1> QED
    BY <1>1, <1>8 DEF DocumentInv, SummaryInv, Steps, Transforms

LEMMA SummaryKeepsDocument ==
    ASSUME EnricherInv, addHostsSummaryJson PROVE DocumentInv' /\ SummaryInv'
  <1>1. /\ input' = input /\ json' = json /\ pending' = pending
        /\ stage = "summary" /\ stage' = "done"
        /\ summary' \in AddHostsSummary(json)
    BY DEF addHostsSummaryJson
  <1>2. pending = <<>>
    BY <1>1, NothingPending DEF EnricherInv, LoopInv
  <1>3. DocumentAt(Made("done", <<>>), input, json)
    BY <1>1, <1>2, AllMade DEF EnricherInv, DocumentInv
  <1> QED
    BY <1>1, <1>2, <1>3 DEF DocumentInv, SummaryInv

LEMMA InvStep == ASSUME PlainInputs, EnricherInv, [Next]_enricherVars PROVE EnricherInv'
  <1>1. LoopInv'
    BY LoopStep DEF EnricherInv
  <1>2. CASE CreateBaseEvent
    BY <1>1, <1>2, CreateKeepsDocument DEF EnricherInv
  <1>3. CASE StepReturns
    BY <1>1, <1>3, ReturnKeepsDocument DEF EnricherInv
  <1>4. CASE Editing
    BY <1>1, <1>4, EditKeepsDocument DEF EnricherInv
  <1>5. CASE addHostsSummaryJson
    BY <1>1, <1>5, SummaryKeepsDocument DEF EnricherInv
  <1>6. CASE NextEvent
    BY <1>1, <1>6 DEF NextEvent, EnricherInv, DocumentInv, SummaryInv
  <1>7. CASE UNCHANGED enricherVars
    BY <1>1, <1>7 DEF EnricherInv, DocumentInv, SummaryInv, enricherVars
  <1> QED
    BY <1>2, <1>3, <1>4, <1>5, <1>6, <1>7 DEF Next, Editing

(* After every step of the code the document is the one its edits so far   *)
(* make of the event and the snapshots, object by object, whatever the     *)
(* order in which the maps are iterated.                                   *)
THEOREM DocumentFollowsEdits == ASSUME PlainInputs PROVE Spec => []EnricherInv
  <1>1. Init => EnricherInv
    BY InvInit
  <1>2. EnricherInv /\ [Next]_enricherVars => EnricherInv'
    BY InvStep
  <1> QED
    BY <1>1, <1>2, PTL DEF Spec

-----------------------------------------------------------------------------
(* What all the edits together make of a field. *)
LEMMA AllEdits ==
    ASSUME NEW t \in Steps, NEW g \in Groups, NEW k PROVE Has(Edits, t, g, k) <=> k \in Keys(t, g)
  BY EditsOf, PathsOf DEF Has

LEMMA UnpackedValue ==
    ASSUME NEW v, v.kind \in JsonKinds
    PROVE  Decoded(v).kind \in JsonKinds /\ Applied("unpack", v) = Decoded(v)
  <1>1. Unpacked(v).kind \in JsonKinds
    BY EnricherAssumption DEF Unpacked, String, JsonKinds
  <1> QED
    BY <1>1 DEF Decoded, Applied, transformFn, unpack, JsonKinds

LEMMA ListedValue ==
    ASSUME NEW v, v.kind \in JsonKinds, v.kind = "string" => v.text \notin DOMAIN Parsed
    PROVE  Applied("dropKey", v) = Listed(v, Same) /\ Applied("mapToList", v) = Listed(v, WithKey)
  <1>1. v.kind # "null" => Unpacked(v) = v
    BY DEF Unpacked
  <1>2. \A x : Listing(x).kind = "listing"
    BY DEF Listing
  <1>3. Null.kind = "null" /\ Error.kind = "error"
    BY DEF Null, Error
  <1>4. /\ v.kind # "object" => dropKey(v) = Error /\ Listed(v, Same) = v
        /\ v.kind = "object" /\ DOMAIN v.fields = {} => dropKey(v) = Null /\ Listed(v, Same) = Null
        /\ v.kind = "object" /\ DOMAIN v.fields # {} =>
              /\ dropKey(v) = Listing([k \in DOMAIN v.fields |-> v.fields[k]])
              /\ Listed(v, Same) = Listing([k \in DOMAIN v.fields |-> v.fields[k]])
    BY DEF dropKey, Listed, Same
  <1>5. Applied("dropKey", v) = Listed(v, Same)
    BY <1>1, <1>2, <1>3, <1>4 DEF Applied, transformFn, JsonKinds
  <1>6. /\ v.kind # "object" => mapToList(v) = Error /\ Listed(v, WithKey) = v
        /\ v.kind = "object" /\ DOMAIN v.fields = {} => mapToList(v) = Null /\ Listed(v, WithKey) = Null
    BY DEF mapToList, Listed
  <1>7. v.kind = "object" /\ DOMAIN v.fields # {} =>
           /\ mapToList(v) = Listing([k \in DOMAIN v.fields |-> WithKey(k, v.fields[k])])
           /\ Listed(v, WithKey) = Listing([k \in DOMAIN v.fields |-> WithKey(k, v.fields[k])])
    BY DEF mapToList, Listed, WithKey, SetField
  <1>8. Applied("mapToList", v) = Listed(v, WithKey)
    BY <1>1, <1>2, <1>3, <1>6, <1>7 DEF Applied, transformFn, JsonKinds
  <1> QED
    BY <1>5, <1>8

LEMMA HashedName ==
    ASSUME NEW name, name.kind \in JsonKinds,
           name.kind = "string" => name.text \notin DOMAIN Parsed /\ Md5[name.text] \notin DOMAIN Parsed
    PROVE  Unpacked(Applied("hash", name)) = UserID(name)
  <1>1. CASE name.kind = "null"
    BY <1>1 DEF Applied, Unpacked, UserID
  <1>2. CASE name.kind = "string"
    <2>1. Unpacked(name) = name
      BY <1>2 DEF Unpacked
    <2>2. Applied("hash", name) = String(Md5[name.text])
      BY <1>2, <2>1 DEF Applied, transformFn, hash, String
    <2>3. Unpacked(String(Md5[name.text])) = String(Md5[name.text])
      BY <1>2 DEF Unpacked, String
    <2> QED
      BY <1>2, <2>2, <2>3 DEF UserID
  <1>3. CASE name.kind \in {"number", "object", "list"}
    BY <1>3 DEF Applied, transformFn, hash, Unpacked, UserID
  <1> QED
    BY <1>1, <1>2, <1>3 DEF JsonKinds

LEMMA FinalUser ==
    ASSUME NEW g \in Groups, NEW o, IsObject(o), NEW maps, PlainObject(o, maps),
           Field(o, "user_name").kind # "missing"
    PROVE  FieldAt(Edits, g, o, "user_id") = UserID(Field(o, "user_name"))
  <1>1. PICK name : name = Field(o, "user_name")
    OBVIOUS
  <1>2. name.kind \in JsonKinds
    BY <1>1, IsObjectProper DEF Missing
  <1>3. name.kind = "string" => name.text \notin DOMAIN Parsed /\ Md5[name.text] \notin DOMAIN Parsed
    BY <1>1 DEF PlainObject
  <1>4. /\ Has(Edits, "hash", g, "user_name") /\ Has(Edits, "rename", g, "user_name")
        /\ ~Has(Edits, "unpack", g, "user_name")
        /\ ~Has(Edits, "dropKey", g, "user_name")
        /\ ~Has(Edits, "mapToList", g, "user_name")
    BY AllEdits DEF Steps, Transforms, Keys, Groups
  <1>5. Transformed(Edits, g, o, "user_name") = Applied("hash", name)
    BY <1>1, <1>4 DEF Transformed, IfMade
  <1> QED
    BY <1>1, <1>2, <1>3, <1>4, <1>5, HashedName DEF FieldAt

LEMMA FinalField ==
    ASSUME NEW g \in Groups, NEW o, NEW k, k # "user_id" \/ Field(o, "user_name").kind = "missing"
    PROVE  FieldAt(Edits, g, o, k) =
              IF k = "user_name" \/ k \in Keys("delete", g) THEN Missing ELSE Transformed(Edits, g, o, k)
  <1>1. Has(Edits, "rename", g, k) <=> k = "user_name"
    BY AllEdits DEF Steps, Keys
  <1>2. Has(Edits, "delete", g, k) <=> k \in Keys("delete", g)
    BY AllEdits DEF Steps
  <1> QED
    BY <1>1, <1>2 DEF FieldAt

LEMMA FinalClusterField ==
    ASSUME NEW o, IsObject(o), PlainObject(o, {"feature_usage", "connectivity_majority_groups"}),
           NEW k \in DOMAIN o.fields, k # "user_name"
    PROVE  Transformed(Edits, "cluster", o, k) = ClusterField(k, o.fields[k])
  <1>1. PICK v : v = o.fields[k]
    OBVIOUS
  <1>2. v = Field(o, k) /\ v.kind \in JsonKinds
    BY <1>1 DEF IsObject, Object, Field
  <1>3. PICK w : w = Decoded(v)
    OBVIOUS
  <1>4. w.kind \in JsonKinds /\ Applied("unpack", v) = w
    BY <1>2, <1>3, UnpackedValue
  <1>5. /\ Has(Edits, "unpack", "cluster", k) <=>
             k \in {"feature_usage", "validations_info", "connectivity_majority_groups"}
        /\ Has(Edits, "dropKey", "cluster", k) <=> k = "feature_usage"
        /\ Has(Edits, "mapToList", "cluster", k) <=> k = "connectivity_majority_groups"
        /\ ~Has(Edits, "hash", "cluster", k)
    BY AllEdits DEF Steps, Transforms, Keys, Groups
  <1>6. k \in {"feature_usage", "connectivity_majority_groups"} =>
          (w.kind = "string" => w.text \notin DOMAIN Parsed)
    BY <1>2, <1>3 DEF PlainObject, Decoded
  <1>7. k \in {"feature_usage", "connectivity_majority_groups"} =>
          Applied("dropKey", w) = Listed(w, Same) /\ Applied("mapToList", w) = Listed(w, WithKey)
    BY <1>4, <1>6, ListedValue
  <1>8. Transformed(Edits, "cluster", o, k) =
          IF k = "feature_usage" THEN Applied("dropKey", w)
          ELSE IF k = "connectivity_majority_groups" THEN Applied("mapToList", w)
          ELSE IF k = "validations_info" THEN w ELSE v
    BY <1>2, <1>4, <1>5 DEF Transformed, IfMade
  <1>9. ClusterField(k, v) =
          IF k = "feature_usage" THEN Listed(w, Same)
          ELSE IF k = "connectivity_majority_groups" THEN Listed(w, WithKey)
          ELSE IF k = "validations_info" THEN w ELSE v
    BY <1>3 DEF ClusterField
  <1> QED
    BY <1>1, <1>7, <1>8, <1>9

LEMMA FinalHostField ==
    ASSUME NEW o, IsObject(o), PlainObject(o, {"disks_info", "images_status"}),
           NEW k \in DOMAIN o.fields, k \notin {"user_name", "infra_env"}
    PROVE  Transformed(Edits, "host", o, k) = HostField(k, o.fields[k])
  <1>1. PICK v : v = o.fields[k]
    OBVIOUS
  <1>2. v = Field(o, k) /\ v.kind \in JsonKinds
    BY <1>1 DEF IsObject, Object, Field
  <1>3. PICK w : w = Decoded(v)
    OBVIOUS
  <1>4. w.kind \in JsonKinds /\ Applied("unpack", v) = w
    BY <1>2, <1>3, UnpackedValue
  <1>5. PICK decoded : decoded = {"inventory", "connectivity", "domain_name_resolutions",
                                  "free_addresses", "ntp_sources", "validations_info"}
    OBVIOUS
  <1>6. /\ Has(Edits, "unpack", "host", k) <=> k \in decoded \cup {"disks_info", "images_status"}
        /\ ~Has(Edits, "dropKey", "host", k)
        /\ Has(Edits, "mapToList", "host", k) <=> k \in {"disks_info", "images_status"}
        /\ ~Has(Edits, "hash", "host", k)
    BY <1>5, AllEdits DEF Steps, Transforms, Keys, Groups
  <1>7. k \in {"disks_info", "images_status"} => (w.kind = "string" => w.text \notin DOMAIN Parsed)
    BY <1>2, <1>3 DEF PlainObject, Decoded
  <1>8. k \in {"disks_info", "images_status"} => Applied("mapToList", w) = Listed(w, WithKey)
    BY <1>4, <1>7, ListedValue
  <1>9. Transformed(Edits, "host", o, k) =
          IF k \in {"disks_info", "images_status"} THEN Applied("mapToList", w)
          ELSE IF k \in decoded THEN w ELSE v
    BY <1>2, <1>4, <1>6 DEF Transformed, IfMade
  <1>10. HostField(k, v) =
          IF k \in {"disks_info", "images_status"} THEN Listed(w, WithKey)
          ELSE IF k \in decoded THEN w ELSE v
    BY <1>3, <1>5 DEF HostField
  <1> QED
    BY <1>1, <1>8, <1>9, <1>10

LEMMA FinalInfraEnvField ==
    ASSUME NEW g \in {"hostInfraEnv", "infraEnv"}, NEW o, NEW k, k # "user_name"
    PROVE  Transformed(Edits, g, o, k) = Field(o, k)
  <1>1. g \in Groups /\ \A t \in Transforms : k \notin Keys(t, g)
    BY DEF Groups, Transforms, Keys
  <1>2. \A t \in Transforms : ~Has(Edits, t, g, k)
    BY <1>1, AllEdits DEF Steps
  <1> QED
    BY <1>2 DEF Transformed, IfMade, Transforms

-----------------------------------------------------------------------------
(* The expected object, with R[k] for the replacement of field k. *)
Expected(o, secret, R) ==
    LET user == IF "user_name" \in DOMAIN o.fields THEN {"user_id"} ELSE {}
    IN  Object([k \in (DOMAIN o.fields \ (secret \cup {"user_name"})) \cup user |->
                   IF k \in user THEN UserID(o.fields["user_name"]) ELSE R[k]])

LEMMA ExpectedIs ==
    ASSUME NEW o, IsObject(o), NEW secret, NEW R, NEW c, Proper(c),
           \A k \in DOMAIN o.fields : k \notin secret \cup {"user_name"} => R[k].kind # "missing",
           Field(o, "user_name").kind # "missing" => Field(c, "user_id") = UserID(Field(o, "user_name")),
           \A k : k # "user_id" \/ Field(o, "user_name").kind = "missing" =>
                     Field(c, k) = IF k \in DOMAIN o.fields /\ k \notin secret \cup {"user_name"}
                                   THEN R[k] ELSE Missing
    PROVE  c = Expected(o, secret, R)
  <1>1. PICK name : name = Field(o, "user_name")
    OBVIOUS
  <1>2. /\ "user_name" \in DOMAIN o.fields <=> name.kind # "missing"
        /\ name.kind # "missing" => name = o.fields["user_name"]
    BY <1>1 DEF IsObject, Object, Field, Missing, JsonKinds
  <1>3. UserID(name).kind = "missing" => name.kind = "missing"
    BY DEF UserID, String
  <1>4. PICK user : user = IF "user_name" \in DOMAIN o.fields THEN {"user_id"} ELSE {}
    OBVIOUS
  <1>5. PICK D : D = (DOMAIN o.fields \ (secret \cup {"user_name"})) \cup user
    OBVIOUS
  <1>6. PICK f : f = [k \in D |-> IF k \in user THEN UserID(o.fields["user_name"]) ELSE R[k]]
    OBVIOUS
  <1>7. Expected(o, secret, R) = Object(f)
    BY <1>4, <1>5, <1>6 DEF Expected
  <1>8. \A k \in D : f[k] = IF k \in user THEN UserID(name) ELSE R[k]
    BY <1>2, <1>4, <1>6
  <1>9. \A k \in D : f[k].kind # "missing"
    BY <1>2, <1>3, <1>4, <1>5, <1>8
  <1>10. /\ Proper(Object(f))
         /\ \A k : Field(Object(f), k) = IF k \in D THEN f[k] ELSE Missing
    BY <1>6, <1>9, ObjectField
  <1>11. \A k : Field(c, k) = IF k \in D THEN f[k] ELSE Missing
    <2>1. SUFFICES ASSUME NEW k PROVE Field(c, k) = IF k \in D THEN f[k] ELSE Missing
      OBVIOUS
    <2>2. CASE k = "user_id" /\ name.kind # "missing"
      BY <1>1, <1>2, <1>4, <1>5, <1>8, <2>2
    <2>3. CASE ~(k = "user_id" /\ name.kind # "missing")
      <3>1. k \notin user
        BY <1>2, <1>4, <2>3
      <3> QED
        BY <1>1, <1>5, <1>8, <2>3, <3>1
    <2> QED
      BY <2>2, <2>3
  <1> QED
    BY <1>7, <1>10, <1>11, SameFields

LEMMA FinalCluster ==
    ASSUME NEW o, IsObject(o), PlainObject(o, {"feature_usage", "connectivity_majority_groups"}),
           NEW c, ObjectAt(Edits, "cluster", o, c, {"hosts"})
    PROVE  DropField(c, "hosts") =
              ExpectedObject(o, {"pull_secret", "ssh_public_key", "hosts"}, ClusterField)
  <1>1. PICK secret, R, e : /\ secret = {"pull_secret", "ssh_public_key", "hosts"}
                            /\ R = [k \in DOMAIN o.fields |-> ClusterField(k, o.fields[k])]
                            /\ e = DropField(c, "hosts")
    OBVIOUS
  <1>2. ExpectedObject(o, secret, ClusterField) = Expected(o, secret, R)
    BY <1>1 DEF ExpectedObject, Expected
  <1>3. Proper(c) /\ \A k : k # "hosts" => Field(c, k) = FieldAt(Edits, "cluster", o, k)
    BY DEF ObjectAt
  <1>4. /\ Proper(e)
        /\ \A k : Field(e, k) = IF k = "hosts" THEN Missing ELSE FieldAt(Edits, "cluster", o, k)
    BY <1>1, <1>3, DropFieldIs, ProperKind
  <1>5. \A k \in DOMAIN o.fields : k # "user_name" => R[k] = Transformed(Edits, "cluster", o, k)
    BY <1>1, FinalClusterField
  <1>6. \A k \in DOMAIN o.fields : Field(o, k) = o.fields[k] /\ Field(o, k).kind # "missing"
    BY DEF IsObject, Object, Field, JsonKinds
  <1>7. \A k \in DOMAIN o.fields : k # "user_name" => R[k].kind # "missing"
    BY <1>5, <1>6, TransformedThere
  <1>8. \A k : k \notin DOMAIN o.fields => Transformed(Edits, "cluster", o, k) = Missing
    BY TransformedThere DEF Field, Missing
  <1>9. Field(o, "user_name").kind # "missing" => Field(e, "user_id") = UserID(Field(o, "user_name"))
    BY <1>4, FinalUser DEF Groups
  <1>10. Keys("delete", "cluster") = {"pull_secret", "ssh_public_key"}
    BY DEF Keys
  <1>11. \A k : k # "user_id" \/ Field(o, "user_name").kind = "missing" =>
                  FieldAt(Edits, "cluster", o, k) =
                     IF k \in {"user_name", "pull_secret", "ssh_public_key"} THEN Missing
                     ELSE Transformed(Edits, "cluster", o, k)
    BY <1>10, FinalField DEF Groups
  <1>12. \A k : k # "user_id" \/ Field(o, "user_name").kind = "missing" =>
                  Field(e, k) = IF k \in DOMAIN o.fields /\ k \notin secret \cup {"user_name"}
                                THEN R[k] ELSE Missing
    BY <1>1, <1>4, <1>5, <1>8, <1>11
  <1>13. e = Expected(o, secret, R)
    BY <1>4, <1>7, <1>9, <1>12, ExpectedIs
  <1> QED
    BY <1>1, <1>2, <1>13

LEMMA FinalInfraEnv ==
    ASSUME NEW g \in {"hostInfraEnv", "infraEnv"}, NEW o, IsObject(o), PlainObject(o, {}),
           NEW c, ObjectAt(Edits, g, o, c, {})
    PROVE  c = ExpectedInfraEnv(o)
  <1>1. PICK secret, R : secret = {"ssh_authorized_key"} /\ R = [k \in DOMAIN o.fields |-> o.fields[k]]
    OBVIOUS
  <1>2. ExpectedInfraEnv(o) = Expected(o, secret, R)
    BY <1>1 DEF ExpectedInfraEnv, ExpectedObject, Expected, Same
  <1>3. Proper(c) /\ \A k : Field(c, k) = FieldAt(Edits, g, o, k)
    BY DEF ObjectAt
  <1>4. \A k : k # "user_name" => Transformed(Edits, g, o, k) = Field(o, k)
    BY FinalInfraEnvField
  <1>5. \A k : IF k \in DOMAIN o.fields THEN Field(o, k) = R[k] /\ R[k].kind # "missing"
               ELSE Field(o, k) = Missing
    BY <1>1 DEF IsObject, Object, Field, JsonKinds
  <1>6. g \in Groups /\ Keys("delete", g) = secret
    BY <1>1 DEF Groups, Keys
  <1>7. Field(o, "user_name").kind # "missing" => Field(c, "user_id") = UserID(Field(o, "user_name"))
    BY <1>3, <1>6, FinalUser
  <1>8. \A k : k # "user_id" \/ Field(o, "user_name").kind = "missing" =>
                 Field(c, k) = IF k \in DOMAIN o.fields /\ k \notin secret \cup {"user_name"}
                               THEN R[k] ELSE Missing
    BY <1>3, <1>4, <1>5, <1>6, FinalField
  <1>9. c = Expected(o, secret, R)
    BY <1>3, <1>5, <1>7, <1>8, ExpectedIs
  <1> QED
    BY <1>2, <1>9

LEMMA FinalHostObject ==
    ASSUME NEW o, IsObject(o), PlainObject(o, {"disks_info", "images_status"}), NEW c, Proper(c),
           \A k : k # "infra_env" => Field(c, k) = FieldAt(Edits, "host", o, k),
           Field(c, "infra_env") = IF "infra_env" \in DOMAIN o.fields
                                   THEN ExpectedInfraEnv(o.fields["infra_env"]) ELSE Missing
    PROVE  c = ExpectedObject(o, {}, HostField)
  <1>1. PICK R : R = [k \in DOMAIN o.fields |-> HostField(k, o.fields[k])]
    OBVIOUS
  <1>2. ExpectedObject(o, {}, HostField) = Expected(o, {}, R)
    BY <1>1 DEF ExpectedObject, Expected
  <1>3. \A k \in DOMAIN o.fields :
           k \notin {"user_name", "infra_env"} => R[k] = Transformed(Edits, "host", o, k)
    BY <1>1, FinalHostField
  <1>4. "infra_env" \in DOMAIN o.fields =>
           /\ R["infra_env"] = ExpectedInfraEnv(o.fields["infra_env"])
           /\ R["infra_env"].kind # "missing"
    BY <1>1 DEF HostField, ExpectedInfraEnv, ExpectedObject, Object
  <1>5. \A k \in DOMAIN o.fields : Field(o, k) = o.fields[k] /\ Field(o, k).kind # "missing"
    BY DEF IsObject, Object, Field, JsonKinds
  <1>6. \A k \in DOMAIN o.fields : k # "user_name" => R[k].kind # "missing"
    BY <1>3, <1>4, <1>5, TransformedThere
  <1>7. \A k : k \notin DOMAIN o.fields => Transformed(Edits, "host", o, k) = Missing
    BY TransformedThere DEF Field, Missing
  <1>8. Field(o, "user_name").kind # "missing" => Field(c, "user_id") = UserID(Field(o, "user_name"))
    BY FinalUser DEF Groups
  <1>9. Keys("delete", "host") = {}
    BY DEF Keys
  <1>10. \A k : k # "user_id" \/ Field(o, "user_name").kind = "missing" =>
                  FieldAt(Edits, "host", o, k) =
                     IF k = "user_name" THEN Missing ELSE Transformed(Edits, "host", o, k)
    BY <1>9, FinalField DEF Groups
  <1>11. \A k : k # "user_id" \/ Field(o, "user_name").kind = "missing" =>
                  Field(c, k) = IF k \in DOMAIN o.fields /\ k \notin {} \cup {"user_name"}
                                THEN R[k] ELSE Missing
    BY <1>3, <1>4, <1>7, <1>10
  <1>12. c = Expected(o, {}, R)
    BY <1>6, <1>8, <1>11, ExpectedIs
  <1> QED
    BY <1>2, <1>12

LEMMA FinalHost ==
    ASSUME NEW in, IsInput(in), PlainInput(in), NEW i \in DOMAIN in.hosts,
           NEW c, HostAt(Edits, in, i, c),
           NEW o, o = IF Matches(in, i) = {} THEN in.hosts[i]
                      ELSE SetField(in.hosts[i], "infra_env", Embedded(in, i))
    PROVE  c = ExpectedObject(o, {}, HostField)
  <1>1. PICK h, x : h = in.hosts[i] /\ x = Embedded(in, i)
    OBVIOUS
  <1>2. IsObject(h) /\ Proper(h) /\ (Matches(in, i) # {} => IsObject(x) /\ Proper(x))
    BY <1>1, InputObjects, IsObjectProper
  <1>3. PlainObject(h, {"disks_info", "images_status"}) /\ Field(h, "infra_env") = Missing
    BY <1>1 DEF PlainInput
  <1>4. Matches(in, i) # {} => PlainObject(x, {})
    BY <1>1, EmbeddedIs DEF PlainInput
  <1>5. /\ Proper(c)
        /\ \A k : k # "infra_env" => Field(c, k) = FieldAt(Edits, "host", h, k)
    BY <1>1 DEF HostAt, ObjectAt
  <1>6. CASE Matches(in, i) = {}
    <2>1. o = h /\ Field(c, "infra_env") = Missing
      BY <1>1, <1>6 DEF HostAt
    <2>2. "infra_env" \notin DOMAIN h.fields
      BY <1>2, <1>3 DEF IsObject, Object, Field, Missing, JsonKinds
    <2> QED
      BY <1>2, <1>3, <1>5, <2>1, <2>2, FinalHostObject
  <1>7. CASE Matches(in, i) # {}
    <2>1. o = SetField(h, "infra_env", x)
      BY <1>1, <1>7
    <2>2. \A k : Field(o, k) = IF k = "infra_env" THEN x ELSE Field(h, k)
      BY <2>1, SetFieldIs
    <2>3. Proper(o)
      BY <1>2, <1>7, <2>1, SetFieldIs, ProperKind
    <2>4. IsObject(o)
      <3>1. x.kind = "object"
        BY <1>2, <1>7, ProperKind
      <3>2. \A k : Field(h, k) = Missing \/ Field(h, k).kind \in JsonKinds
        BY <1>2, IsObjectProper
      <3>3. \A k : Field(o, k) = Missing \/ Field(o, k).kind \in JsonKinds
        BY <2>2, <3>1, <3>2 DEF JsonKinds
      <3>4. \A k \in DOMAIN o.fields : o.fields[k] = Field(o, k) /\ o.fields[k].kind # "missing"
        BY <2>3, ProperKind DEF Proper, Field
      <3> QED
        BY <2>3, <3>3, <3>4 DEF IsObject, Proper, Missing
    <2>5. PlainObject(o, {"disks_info", "images_status"})
      BY <1>3, <2>2 DEF PlainObject
    <2>6. \A k : k # "infra_env" => FieldAt(Edits, "host", o, k) = FieldAt(Edits, "host", h, k)
      BY <2>2 DEF FieldAt, Transformed
    <2>7. ObjectAt(Edits, "hostInfraEnv", x, Field(c, "infra_env"), {})
      BY <1>1, <1>7 DEF HostAt
    <2>8. Field(c, "infra_env") = ExpectedInfraEnv(x)
      BY <1>2, <1>4, <1>7, <2>7, FinalInfraEnv
    <2>9. "infra_env" \in DOMAIN o.fields /\ o.fields["infra_env"] = x
      <3>1. x # Missing
        BY <1>2, <1>7, ProperKind DEF Missing
      <3> QED
        BY <2>2, <2>3, <3>1, ProperKind DEF Field
    <2> QED
      BY <1>5, <2>4, <2>5, <2>6, <2>8, <2>9, FinalHostObject
  <1> QED
    BY <1>6, <1>7

LEMMA InfraEnvsOfIs ==
    ASSUME IsInput(input), PlainInput(input), NEW i
    PROVE  InfraEnvsOf(i) = IF Matches(input, i) = {} THEN {} ELSE {Embedded(input, i)}
  <1>1. \A j \in DOMAIN input.infraEnvs :
           Key(input.infraEnvs[j], "id") = Field(input.infraEnvs[j], "id")
    BY DEF PlainInput, Key
  <1>2. InfraEnvsOf(i) = {input.infraEnvs[j] : j \in Matches(input, i)}
    BY <1>1 DEF InfraEnvsOf, Matches
  <1>3. CASE Matches(input, i) = {}
    BY <1>2, <1>3
  <1>4. CASE Matches(input, i) # {}
    <2>1. PICK j \in DOMAIN input.infraEnvs :
            Matches(input, i) = {j} /\ Embedded(input, i) = input.infraEnvs[j]
      BY <1>4, EmbeddedIs
    <2> QED
      BY <1>2, <1>4, <2>1
  <1> QED
    BY <1>3, <1>4

LEMMA InvEnriched == ASSUME PlainInputs, EnricherInv PROVE EnrichedAsDeclared
  <1>1. SUFFICES ASSUME stage = "done" PROVE EnrichedAsDeclared
    BY DEF EnrichedAsDeclared
  <1>2. IsInput(input) /\ PlainInput(input)
    BY EnricherAssumption DEF EnricherInv, LoopInv, PlainInputs
  <1>3. pending = <<>>
    BY <1>1, NothingPending DEF EnricherInv, LoopInv
  <1>4. DocumentAt(Edits, input, json)
    BY <1>1, <1>3, AllMade DEF EnricherInv, DocumentInv
  <1>5. PICK cluster : cluster = Field(json, "cluster")
    OBVIOUS
  <1>6. /\ ObjectAt(Edits, "cluster", input.cluster, cluster, {"hosts"})
        /\ HostsAt(Edits, input, Field(cluster, "hosts"))
        /\ InfraEnvsAt(Edits, input, Field(json, "infra_envs"))
    BY <1>4, <1>5 DEF DocumentAt
  <1>7. DropField(cluster, "hosts") =
          ExpectedObject(input.cluster, {"pull_secret", "ssh_public_key", "hosts"}, ClusterField)
    BY <1>2, <1>6, FinalCluster DEF IsInput, PlainInput
  <1>8. Field(cluster, "hosts") =
          IF input.hosts = <<>> THEN Null ELSE List([i \in DOMAIN input.hosts |-> ExpectedHost(i)])
    <2>1. CASE input.hosts = <<>>
      BY <1>6, <2>1 DEF HostsAt
    <2>2. CASE input.hosts # <<>>
      <3>1. PICK items : items = Field(cluster, "hosts").items
        OBVIOUS
      <3>2. /\ Field(cluster, "hosts") = List([i \in DOMAIN input.hosts |-> items[i]])
            /\ \A i \in DOMAIN input.hosts : HostAt(Edits, input, i, items[i])
        BY <1>6, <2>2, <3>1 DEF HostsAt
      <3>3. ASSUME NEW i \in DOMAIN input.hosts PROVE items[i] = ExpectedHost(i)
        <4>1. PICK o : o = IF Matches(input, i) = {} THEN input.hosts[i]
                           ELSE SetField(input.hosts[i], "infra_env", Embedded(input, i))
          OBVIOUS
        <4>2. InfraEnvsOf(i) = IF Matches(input, i) = {} THEN {} ELSE {Embedded(input, i)}
          BY <1>2, InfraEnvsOfIs
        <4>3. ExpectedHost(i) = ExpectedObject(o, {}, HostField)
          BY <4>1, <4>2 DEF ExpectedHost
        <4> QED
          BY <1>2, <3>2, <4>1, <4>3, FinalHost
      <3> QED
        BY <2>2, <3>2, <3>3
    <2> QED
      BY <2>1, <2>2
  <1>9. Field(json, "infra_envs") =
          IF input.infraEnvs = <<>> THEN Missing
          ELSE List([i \in DOMAIN input.infraEnvs |-> ExpectedInfraEnv(input.infraEnvs[i])])
    <2>1. CASE input.infraEnvs = <<>>
      BY <1>6, <2>1 DEF InfraEnvsAt
    <2>2. CASE input.infraEnvs # <<>>
      <3>1. PICK items : items = Field(json, "infra_envs").items
        OBVIOUS
      <3>2. /\ Field(json, "infra_envs") = List([i \in DOMAIN input.infraEnvs |-> items[i]])
            /\ \A i \in DOMAIN input.infraEnvs :
                  ObjectAt(Edits, "infraEnv", input.infraEnvs[i], items[i], {})
        BY <1>6, <2>2, <3>1 DEF InfraEnvsAt, InfraEnvAt
      <3>3. \A i \in DOMAIN input.infraEnvs :
               IsObject(input.infraEnvs[i]) /\ PlainObject(input.infraEnvs[i], {})
        BY <1>2, InputObjects DEF PlainInput
      <3>4. \A i \in DOMAIN input.infraEnvs : items[i] = ExpectedInfraEnv(input.infraEnvs[i])
        BY <3>2, <3>3, FinalInfraEnv
      <3> QED
        BY <2>2, <3>2, <3>4
    <2> QED
      BY <2>1, <2>2
  <1> QED
    BY <1>1, <1>5, <1>7, <1>8, <1>9 DEF EnrichedAsDeclared

(* Whatever order the two maps are iterated in, the document that comes    *)
(* out is the declared one: every host in its place with its own infra-env,*)
(* every encoded field decoded, every map a list with all its entries, the *)
(* user names replaced, the secrets gone, and nothing else changed.        *)
THEOREM DocumentEnriched == ASSUME PlainInputs PROVE Spec => []EnrichedAsDeclared
  BY DocumentFollowsEdits, InvEnriched, PTL

-----------------------------------------------------------------------------
(* The edits touch nothing of the document but the cluster and the list of *)
(* infra-envs: this holds for every input.                                 *)
LEMMA ListUntouched ==
    ASSUME NEW step \in Steps, NEW g \in Groups, g # "cluster", NEW k \in Keys(step, g), NEW d,
           NEW e, e = DocumentOp(step, d, Path(g, k))
    PROVE  e = d \/ \E x : e = Set(d, ListOf(g), x)
  <1>1. PICK P, src, p : P = ListOf(g) /\ src = KeysIn(g, k) /\ p = <<P, src>>
    OBVIOUS
  <1>2. Path(g, k) = p
    BY <1>1 DEF Path, OfHost, OfHostInfraEnv, OfInfraEnv, ListOf, KeysIn, Groups
  <1>3. isComplexPath(p) /\ p[1] = P
    BY <1>1 DEF isComplexPath
  <1>4. \A x : SetItem(d, P, x) = d \/ SetItem(d, P, x) = Set(d, P, x)
    BY DEF SetItem
  <1>5. CASE step \in Transforms
    BY <1>1, <1>2, <1>3, <1>4, <1>5
    DEF DocumentOp, Transform, transformFromComplexPath, Transforms
  <1>6. CASE step = "rename"
    <2>1. k = "user_name"
      BY <1>6, KeysEdited
    <2>2. PICK q : q = Path(g, "user_id")
      OBVIOUS
    <2>3. q[1] = P
      BY <1>1, <2>2 DEF Path, OfHost, OfHostInfraEnv, OfInfraEnv, ListOf, Groups
    <2>4. e = Rename(d, p, q)
      BY <1>2, <1>6, <2>1, <2>2, RenamedTo DEF DocumentOp, Transforms
    <2> QED
      BY <1>1, <1>3, <2>3, <2>4 DEF Rename
  <1>7. CASE step = "delete"
    BY <1>1, <1>2, <1>3, <1>4, <1>7 DEF DocumentOp, Delete, deleteFromComplexPath, Transforms
  <1> QED
    BY <1>5, <1>6, <1>7 DEF Steps, Transforms

LEMMA Untouched ==
    ASSUME NEW step \in Steps, NEW g \in Groups, NEW k \in Keys(step, g), NEW d,
           NEW f, f \notin {"cluster", "infra_envs"}
    PROVE  Field(DocumentOp(step, d, Path(g, k)), f) = Field(d, f)
  <1>1. PICK e : e = DocumentOp(step, d, Path(g, k))
    OBVIOUS
  <1>2. /\ \A c, v : Field(SetField(c, "cluster", v), f) = Field(c, f)
        /\ \A c, v : Field(SetField(c, "infra_envs", v), f) = Field(c, f)
    BY SetFieldIs
  <1>3. CASE g = "cluster"
    <2>1. e = Op(step, d, <<"cluster", k>>, <<"cluster", "user_id">>)
      BY <1>1, <1>3, ClusterOp
    <2>2. ASSUME NEW c, NEW x, NEW v PROVE Field(Set(c, <<"cluster", x>>, v), f) = Field(c, f)
      <3>1. Set(c, <<"cluster", x>>, v) = SetField(c, "cluster", SetField(Field(c, "cluster"), x, v))
        BY DEF Set
      <3> QED
        BY <1>2, <3>1
    <2>3. ASSUME NEW c, NEW x PROVE Field(DeleteKeys(c, <<"cluster", x>>), f) = Field(c, f)
      <3>1. \/ DeleteKeys(c, <<"cluster", x>>) = c
            \/ \E v : DeleteKeys(c, <<"cluster", x>>) = SetField(c, "cluster", v)
        BY DEF DeleteKeys
      <3> QED
        BY <1>2, <3>1
    <2>4. CASE step \in Transforms
      BY <1>1, <2>1, <2>2, <2>4 DEF Op, SetItem
    <2>5. CASE step = "rename"
      BY <1>1, <2>1, <2>2, <2>3, <2>5 DEF Op, RenameValue, Transforms
    <2>6. CASE step = "delete"
      BY <1>1, <2>1, <2>3, <2>6 DEF Op, Transforms
    <2> QED
      BY <2>4, <2>5, <2>6 DEF Steps
  <1>4. CASE g # "cluster"
    <2>1. e = d \/ \E x : e = Set(d, ListOf(g), x)
      BY <1>1, <1>4, ListUntouched
    <2>2. \A x : Field(Set(d, ListOf(g), x), f) = Field(d, f)
      BY <1>2 DEF Set, ListOf
    <2> QED
      BY <1>1, <2>1, <2>2
  <1> QED
    BY <1>3, <1>4

(* The parts of the document no step edits are those of the base event. *)
BaseInv ==
    stage # "base" =>
        \A f \in {"versions", "release_tag"} : Field(json, f) = Field(GetBaseEnrichedEvent(input), f)

LEMMA BaseStep == ASSUME LoopInv, BaseInv, [Next]_enricherVars PROVE BaseInv'
  <1>1. CASE CreateBaseEvent
    BY <1>1 DEF CreateBaseEvent, Call, BaseInv
  <1>2. CASE StepReturns
    BY <1>2 DEF StepReturns, Call, BaseInv
  <1>3. CASE Editing
    <2>1. /\ stage \in Steps /\ input' = input /\ stage' = stage
          /\ json' = DocumentOp(stage, json, Head(pending))
      BY <1>3, EditingVisits DEF Visit
    <2>2. \A f \in {"versions", "release_tag"} : Field(json', f) = Field(json, f)
      BY <1>3, <2>1, NextPath, Untouched
    <2> QED
      BY <2>1, <2>2 DEF BaseInv
  <1>4. CASE addHostsSummaryJson
    BY <1>4 DEF addHostsSummaryJson, BaseInv
  <1>5. CASE NextEvent
    BY <1>5 DEF NextEvent, BaseInv
  <1>6. CASE UNCHANGED enricherVars
    BY <1>6 DEF BaseInv, enricherVars
  <1> QED
    BY <1>1, <1>2, <1>3, <1>4, <1>5, <1>6 DEF Next, Editing

LEMMA BaseVersions ==
    ASSUME NEW in, IsInput(in), NEW versions, versions.kind = "object",
           in.metadata = getMetadata(versions)
    PROVE  /\ Field(GetBaseEnrichedEvent(in), "versions") = versions
           /\ Field(GetBaseEnrichedEvent(in), "release_tag") = Missing
  <1>1. PICK m, inner : inner = Object([versions |-> versions]) /\ m = Object([versions |-> inner])
    OBVIOUS
  <1>2. in.metadata = m
    BY <1>1 DEF getMetadata
  <1>3. Field(m, "versions") = inner /\ Field(inner, "versions") = versions
    BY <1>1 DEF Field, Object
  <1>4. Field(inner, "release_tag") = Missing
    BY <1>1 DEF Field, Object
  <1>5. getVersionsFromMetadata(m) = versions
    BY <1>3 DEF getVersionsFromMetadata, Get
  <1>6. getReleaseTagFromMetadata(m).kind = "missing"
    BY <1>3, <1>4 DEF getReleaseTagFromMetadata, Get, Missing
  <1> QED
    BY <1>2, <1>5, <1>6, BaseFields

LEMMA BaseInvVersions == ASSUME LoopInv, BaseInv PROVE VersionsFound
  <1>1. IsInput(input)
    BY EnricherAssumption DEF LoopInv
  <1> QED
    BY <1>1, BaseVersions DEF BaseInv, VersionsFound

(* For every event, the versions that the on-prem process nests in the     *)
(* metadata are those of the enriched event, which has no release tag.     *)
THEOREM VersionsKept == Spec => []VersionsFound
  <1>1. Init => LoopInv /\ BaseInv
    BY DEF Init, LoopInv, PendingInv, BaseInv
  <1>2. LoopInv /\ BaseInv /\ [Next]_enricherVars => (LoopInv /\ BaseInv)'
    BY LoopStep, BaseStep
  <1>3. LoopInv /\ BaseInv => VersionsFound
    BY BaseInvVersions
  <1> QED
    BY <1>1, <1>2, <1>3, PTL DEF Spec

-----------------------------------------------------------------------------
(* The hosts summary counts the hosts of the input. *)
LEMMA LeastNatural == ASSUME NEW T \in SUBSET Nat, T # {} PROVE \E x \in T : \A y \in T : x <= y
  <1>1. IsWellFoundedOn(OpToRel(<, Nat), Nat)
    BY NatLessThanWellFounded
  <1>2. PICK x \in T : \A y \in T : ~(<<y, x>> \in OpToRel(<, Nat))
    BY <1>1, WFMin
  <1>3. \A y \in T : ~(y < x)
    BY <1>2 DEF OpToRel
  <1> QED
    BY <1>3

LEMMA HighestExists ==
    ASSUME NEW S, S # {}, NEW n \in Nat, NEW f, \A s \in S : f[s] \in Nat /\ f[s] <= n
    PROVE  \E m \in S : \A s \in S : f[m] >= f[s]
  <1>1. PICK T : T = {n - f[s] : s \in S}
    OBVIOUS
  <1>2. \A s \in S : n - f[s] \in Nat
    OBVIOUS
  <1>3. T \in SUBSET Nat /\ T # {}
    BY <1>1, <1>2
  <1>4. PICK t \in T : \A u \in T : t <= u
    BY <1>3, LeastNatural
  <1>5. PICK m \in S : t = n - f[m]
    BY <1>1, <1>4
  <1>6. \A s \in S : n - f[m] <= n - f[s]
    BY <1>1, <1>4, <1>5
  <1> QED
    BY <1>5, <1>6

(* The input's host i has an infra-env. *)
Known(i) == Matches(input, i) # {}

LEMMA HostsOfDocument ==
    ASSUME IsInput(input), DocumentAt(Edits, input, json)
    PROVE  /\ DOMAIN HostItems(json) = DOMAIN input.hosts
           /\ \A i \in DOMAIN input.hosts : HostAt(Edits, input, i, HostItems(json)[i])
  <1>1. PICK v : v = Field(Field(json, "cluster"), "hosts")
    OBVIOUS
  <1>2. HostsAt(Edits, input, v)
    BY <1>1 DEF DocumentAt
  <1>3. HostItems(json) = IF v.kind = "list" THEN v.items ELSE <<>>
    BY <1>1 DEF HostItems, Get
  <1>4. CASE input.hosts = <<>>
    <2>1. v.kind = "null"
      BY <1>2, <1>4 DEF HostsAt, Null
    <2> QED
      BY <1>3, <1>4, <2>1
  <1>5. CASE input.hosts # <<>>
    <2>1. /\ v = List([i \in DOMAIN input.hosts |-> v.items[i]])
          /\ \A i \in DOMAIN input.hosts : HostAt(Edits, input, i, v.items[i])
      BY <1>2, <1>5 DEF HostsAt
    <2>2. v.kind = "list" /\ DOMAIN v.items = DOMAIN input.hosts
      BY <2>1 DEF List
    <2> QED
      BY <1>3, <2>1, <2>2
  <1> QED
    BY <1>4, <1>5

LEMMA InfraEnvOfHost ==
    ASSUME IsInput(input), PlainInput(input), DocumentAt(Edits, input, json),
           NEW i \in DOMAIN input.hosts
    PROVE  /\ HostItems(json)[i].kind = "object"
           /\ getInfraEnvFromHost(json, i).kind = "object" <=> Known(i)
           /\ Known(i) => \A k \in Stats :
                            Field(getInfraEnvFromHost(json, i), k) = Field(Embedded(input, i), k)
  <1>1. PICK c, x : c = HostItems(json)[i] /\ x = Field(c, "infra_env")
    OBVIOUS
  <1>2. HostAt(Edits, input, i, c) /\ getInfraEnvFromHost(json, i) = x
    BY <1>1, HostsOfDocument DEF getInfraEnvFromHost
  <1>3. c.kind = "object"
    BY <1>2, ProperKind DEF HostAt, ObjectAt
  <1>4. CASE ~Known(i)
    BY <1>1, <1>2, <1>3, <1>4 DEF Known, HostAt, Missing
  <1>5. CASE Known(i)
    <2>1. ObjectAt(Edits, "hostInfraEnv", Embedded(input, i), x, {})
      BY <1>1, <1>2, <1>5 DEF Known, HostAt
    <2>2. x.kind = "object" /\ \A k : Field(x, k) = FieldAt(Edits, "hostInfraEnv", Embedded(input, i), k)
      BY <2>1, ProperKind DEF ObjectAt
    <2>3. \A k \in Stats : k \notin {"user_id", "user_name", "ssh_authorized_key"}
      BY DEF Stats
    <2>4. Keys("delete", "hostInfraEnv") = {"ssh_authorized_key"}
      BY DEF Keys
    <2>5. \A k \in Stats : Field(x, k) = Transformed(Edits, "hostInfraEnv", Embedded(input, i), k)
      BY <2>2, <2>3, <2>4, FinalField DEF Groups
    <2>6. \A k \in Stats : Field(x, k) = Field(Embedded(input, i), k)
      BY <2>3, <2>5, FinalInfraEnvField
    <2> QED
      BY <1>1, <1>2, <1>3, <1>5, <2>2, <2>6
  <1> QED
    BY <1>4, <1>5

(* The hosts with stat k as a string, and their labels. *)
Value(i, k) == Field(Embedded(input, i), k)
Counted(k) == {i \in DOMAIN input.hosts : Known(i) /\ Value(i, k).kind = "string"}

LEMMA LabelsOfInput ==
    ASSUME IsInput(input), PlainInput(input), NEW k
    PROVE  /\ Labels(k) = {Label(Value(i, k).text) : i \in Counted(k)}
           /\ \A l : Having(k, l) = {i \in Counted(k) : Label(Value(i, k).text) = l}
  <1>1. \A i : InfraEnvsOf(i) = IF Known(i) THEN {Embedded(input, i)} ELSE {}
    BY InfraEnvsOfIs DEF Known
  <1>2. \A i, e : e \in InfraEnvsOf(i) <=> Known(i) /\ e = Embedded(input, i)
    BY <1>1
  <1>3. PICK S : S = {x \in UNION {InfraEnvsOf(i) : i \in DOMAIN input.hosts} : Field(x, k).kind = "string"}
    OBVIOUS
  <1>4. \A e : e \in S <=> \E i \in Counted(k) : e = Embedded(input, i)
    BY <1>2, <1>3 DEF Counted, Value
  <1>5. Labels(k) = {Label(Field(e, k).text) : e \in S}
    BY <1>3 DEF Labels
  <1>6. Labels(k) = {Label(Value(i, k).text) : i \in Counted(k)}
    BY <1>4, <1>5 DEF Value
  <1>7. ASSUME NEW l PROVE Having(k, l) = {i \in Counted(k) : Label(Value(i, k).text) = l}
    BY <1>2 DEF Having, Counted, Value
  <1> QED
    BY <1>6, <1>7

LEMMA StatsOfDocument ==
    ASSUME IsInput(input), PlainInput(input), DocumentAt(Edits, input, json)
    PROVE  /\ getHostsFromEvent(json) = DOMAIN input.hosts
           /\ WithInfraEnv(json) = {i \in DOMAIN input.hosts : Known(i)}
           /\ \A k \in Stats : updateInfraEnvStats(json, k) = [l \in Labels(k) |-> Cardinality(Having(k, l))]
  <1>1. getHostsFromEvent(json) = DOMAIN input.hosts
    BY HostsOfDocument, InfraEnvOfHost DEF getHostsFromEvent
  <1>2. WithInfraEnv(json) = {i \in DOMAIN input.hosts : Known(i)}
    BY <1>1, InfraEnvOfHost DEF WithInfraEnv
  <1>3. ASSUME NEW k \in Stats
        PROVE  updateInfraEnvStats(json, k) = [l \in Labels(k) |-> Cardinality(Having(k, l))]
    <2>1. \A i \in WithInfraEnv(json) : Field(getInfraEnvFromHost(json, i), k) = Value(i, k)
      BY <1>2, InfraEnvOfHost DEF Value
    <2>2. PICK C : C = {i \in WithInfraEnv(json) : Field(getInfraEnvFromHost(json, i), k).kind = "string"}
      OBVIOUS
    <2>3. C = Counted(k)
      BY <1>2, <2>1, <2>2 DEF Counted
    <2>4. \A i \in C : Field(getInfraEnvFromHost(json, i), k) = Value(i, k)
      BY <2>1, <2>2
    <2>5. {Label(Field(getInfraEnvFromHost(json, i), k).text) : i \in C} = Labels(k)
      BY <2>3, <2>4, LabelsOfInput
    <2>6. \A l : {i \in C : Label(Field(getInfraEnvFromHost(json, i), k).text) = l} = Having(k, l)
      BY <2>3, <2>4, LabelsOfInput
    <2>7. updateInfraEnvStats(json, k) =
            [l \in {Label(Field(getInfraEnvFromHost(json, i), k).text) : i \in C} |->
                Cardinality({i \in C : Label(Field(getInfraEnvFromHost(json, i), k).text) = l})]
      BY <2>2 DEF updateInfraEnvStats
    <2> QED
      BY <2>5, <2>6, <2>7
  <1> QED
    BY <1>1, <1>2, <1>3

LEMMA LabelSets ==
    ASSUME IsInput(input), PlainInput(input), NEW k
    PROVE  /\ IsFiniteSet(DOMAIN input.hosts) /\ Cardinality(DOMAIN input.hosts) = Len(input.hosts)
           /\ IsFiniteSet(Counted(k)) /\ IsFiniteSet(Labels(k))
           /\ \A l : /\ IsFiniteSet(Having(k, l)) /\ Cardinality(Having(k, l)) \in Nat
                     /\ Cardinality(Having(k, l)) <= Len(input.hosts)
  <1>1. DOMAIN input.hosts = 1 .. Len(input.hosts) /\ Len(input.hosts) \in Nat
    BY DEF IsInput, IsList
  <1>2. IsFiniteSet(DOMAIN input.hosts) /\ Cardinality(DOMAIN input.hosts) = Len(input.hosts)
    BY <1>1, FS_Interval
  <1>3. Counted(k) \in SUBSET DOMAIN input.hosts
    BY DEF Counted
  <1>4. IsFiniteSet(Counted(k))
    BY <1>2, <1>3, FS_Subset
  <1>5. IsFiniteSet(Labels(k))
    <2>1. PICK f : f = [i \in Counted(k) |-> Label(Value(i, k).text)]
      OBVIOUS
    <2>2. f \in Surjection(Counted(k), Labels(k))
      BY <2>1, LabelsOfInput DEF Surjection
    <2> QED
      BY <1>4, <2>2, FS_Surjection
  <1>6. ASSUME NEW l
        PROVE  /\ IsFiniteSet(Having(k, l)) /\ Cardinality(Having(k, l)) \in Nat
               /\ Cardinality(Having(k, l)) <= Len(input.hosts)
    <2>1. Having(k, l) \in SUBSET DOMAIN input.hosts
      BY DEF Having
    <2> QED
      BY <1>2, <2>1, FS_Subset, FS_CardinalityType
  <1> QED
    BY <1>2, <1>4, <1>5, <1>6

(* Every host with an infra-env is counted under one label: one label has  *)
(* them all exactly when there is no other.                                *)
LEMMA OneLabel ==
    ASSUME IsInput(input), PlainInput(input), NEW k, Labels(k) # {},
           NEW W, W = Counted(k), NEW total, total = Cardinality(W)
    PROVE  (\A l \in Labels(k) : Cardinality(Having(k, l)) < total) <=> Cardinality(Labels(k)) > 1
  <1>1. /\ IsFiniteSet(W) /\ IsFiniteSet(Labels(k)) /\ total \in Nat /\ Cardinality(Labels(k)) \in Nat
        /\ \A l : Cardinality(Having(k, l)) \in Nat
    BY LabelSets, FS_CardinalityType
  <1>2. /\ Labels(k) = {Label(Value(i, k).text) : i \in W}
        /\ \A l : Having(k, l) = {i \in W : Label(Value(i, k).text) = l}
    BY LabelsOfInput
  <1>3. ASSUME Cardinality(Labels(k)) > 1, NEW l \in Labels(k)
        PROVE  Cardinality(Having(k, l)) < total
    <2>1. Labels(k) # {l}
      BY <1>3, FS_Singleton
    <2>2. PICK m \in Labels(k) : m # l
      BY <1>3, <2>1
    <2>3. PICK i \in W : Label(Value(i, k).text) = m
      BY <1>2, <2>2
    <2>4. Having(k, l) \in SUBSET W /\ Having(k, l) # W
      BY <1>2, <2>2, <2>3
    <2>5. /\ Cardinality(Having(k, l)) <= Cardinality(W)
          /\ Cardinality(W) = Cardinality(Having(k, l)) => W = Having(k, l)
      BY <1>1, <2>4, FS_Subset
    <2> QED
      BY <1>1, <2>4, <2>5
  <1>4. ASSUME ~(Cardinality(Labels(k)) > 1)
        PROVE  \E l \in Labels(k) : ~(Cardinality(Having(k, l)) < total)
    <2>1. Cardinality(Labels(k)) # 0
      BY <1>1, FS_EmptySet
    <2>2. Cardinality(Labels(k)) = 1
      BY <1>1, <1>4, <2>1
    <2>3. PICK l : Labels(k) = {l}
      BY <1>1, <2>2, FS_Singleton
    <2>4. Having(k, l) = W
      BY <1>2, <2>3
    <2> QED
      BY <1>1, <2>3, <2>4
  <1> QED
    BY <1>3, <1>4

LEMMA InvSummary == ASSUME PlainInputs, EnricherInv PROVE SummaryOfHosts
  <1>1. SUFFICES ASSUME stage = "done" PROVE SummaryOfHosts
    BY DEF SummaryOfHosts
  <1>2. IsInput(input) /\ PlainInput(input)
    BY EnricherAssumption DEF EnricherInv, LoopInv, PlainInputs
  <1>3. pending = <<>>
    BY <1>1, NothingPending DEF EnricherInv, LoopInv
  <1>4. DocumentAt(Edits, input, json)
    BY <1>1, <1>3, AllMade DEF EnricherInv, DocumentInv
  <1>5. PICK stats : stats = [k \in Stats |-> updateInfraEnvStats(json, k)]
    OBVIOUS
  <1>6. /\ stats["type"] = [l \in Labels("type") |-> Cardinality(Having("type", l))]
        /\ stats["cpu_architecture"] =
             [l \in Labels("cpu_architecture") |-> Cardinality(Having("cpu_architecture", l))]
    BY <1>2, <1>4, <1>5, StatsOfDocument DEF Stats
  <1>7. PICK total : total = Cardinality(WithInfraEnv(json))
    OBVIOUS
  <1>8. PICK k \in HighestKeys(stats["type"]) :
          /\ summary.host_count = Cardinality(getHostsFromEvent(json))
          /\ summary.iso_type = k
          /\ summary.heterogeneous_arch <=>
               \A l \in DOMAIN stats["cpu_architecture"] : stats["cpu_architecture"][l] < total
    <2>1. summary \in AddHostsSummary(json)
      BY <1>1 DEF EnricherInv, SummaryInv
    <2>2. PICK k \in HighestKeys(stats["type"]) :
            summary = [host_count |-> Cardinality(getHostsFromEvent(json)),
                       total |-> total,
                       infra_env |-> stats,
                       iso_type |-> k,
                       heterogeneous_arch |->
                          \A l \in DOMAIN stats["cpu_architecture"] : stats["cpu_architecture"][l] < total]
      BY <1>5, <1>7, <2>1 DEF AddHostsSummary, SummaryOf
    <2> QED
      BY <2>2
  <1>9. summary.host_count = Len(input.hosts)
    BY <1>2, <1>4, <1>8, StatsOfDocument, LabelSets
  <1>10. ASSUME NEW l \in Labels("type")
         PROVE  Cardinality(Having("type", summary.iso_type)) >= Cardinality(Having("type", l))
    <2>1. PICK f : f = stats["type"]
      OBVIOUS
    <2>2. DOMAIN f = Labels("type") /\ \A j \in Labels("type") : f[j] = Cardinality(Having("type", j))
      BY <1>6, <2>1
    <2>3. Len(input.hosts) \in Nat
      BY <1>2 DEF IsInput, IsList
    <2>4. \A j \in Labels("type") : f[j] \in Nat /\ f[j] <= Len(input.hosts)
      BY <1>2, <2>2, LabelSets
    <2>5. \E m \in Labels("type") : \A j \in Labels("type") : f[m] >= f[j]
      BY <2>3, <2>4, HighestExists
    <2>6. k \in Labels("type") /\ \A j \in Labels("type") : f[k] >= f[j]
      BY <1>8, <2>1, <2>2, <2>5 DEF HighestKeys
    <2> QED
      BY <1>8, <2>2, <2>6
  <1>11. ASSUME \A i \in DOMAIN input.hosts : \A e \in InfraEnvsOf(i) :
                   Field(e, "cpu_architecture").kind = "string",
                Labels("cpu_architecture") # {}
         PROVE  summary.heterogeneous_arch <=> Cardinality(Labels("cpu_architecture")) > 1
    <2>1. \A i : Known(i) => Embedded(input, i) \in InfraEnvsOf(i)
      BY <1>2, InfraEnvsOfIs DEF Known
    <2>2. WithInfraEnv(json) = Counted("cpu_architecture")
      <3>1. WithInfraEnv(json) = {i \in DOMAIN input.hosts : Known(i)}
        BY <1>2, <1>4, StatsOfDocument
      <3> QED
        BY <1>11, <2>1, <3>1 DEF Counted, Value
    <2>3. (\A l \in Labels("cpu_architecture") : Cardinality(Having("cpu_architecture", l)) < total)
            <=> Cardinality(Labels("cpu_architecture")) > 1
      BY <1>2, <1>7, <1>11, <2>2, OneLabel
    <2>4. summary.heterogeneous_arch <=>
            \A l \in Labels("cpu_architecture") : Cardinality(Having("cpu_architecture", l)) < total
      BY <1>6, <1>8
    <2> QED
      BY <2>3, <2>4
  <1> QED
    BY <1>1, <1>9, <1>10, <1>11 DEF SummaryOfHosts

(* The summary is that of the hosts the event was enriched with: all are   *)
(* counted, no ISO type outnumbers the one it names, and the cluster is    *)
(* heterogeneous exactly when two known architectures differ.              *)
THEOREM HostsSummarized == ASSUME PlainInputs PROVE Spec => []SummaryOfHosts
  BY DocumentFollowsEdits, InvSummary, PTL
=============================================================================
