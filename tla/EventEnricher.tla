--------------------------- MODULE EventEnricher ----------------------------
(***************************************************************************)
(* internal/projection/process: GetEnrichedEvent as the sequence of edits  *)
(* it makes to the JSON of an event and its snapshots.  An error of a step *)
(* is only logged, and the next step works on what is there.  Where the    *)
(* code iterates a Go map, any entry may come next.                        *)
(***************************************************************************)
EXTENDS JsonEdit, HostsSummary

CONSTANT Inputs   \* the arguments of GetEnrichedEvent

JsonKinds == {"null", "number", "string", "object", "list"}

(* A JSON object: a function from its keys to values that are there. *)
IsObject(v) ==
    /\ v = Object([k \in DOMAIN v.fields |-> v.fields[k]])
    /\ \A k \in DOMAIN v.fields : v.fields[k].kind \in JsonKinds

IsList(s) == s \in Seq({s[i] : i \in DOMAIN s}) /\ \A i \in DOMAIN s : IsObject(s[i])

(* What GetEnrichedEvent is given: the event's "props" and metadata, and   *)
(* the snapshots.                                                          *)
IsInput(in) == IsObject(in.cluster) /\ IsList(in.hosts) /\ IsList(in.infraEnvs)

ASSUME EnricherAssumption ==
    /\ \A in \in Inputs : IsInput(in)
    /\ \A text \in DOMAIN Parsed : Parsed[text].kind \in JsonKinds

VARIABLES input,    \* the arguments of the current call
          stage,    \* the step of getTransformedEvent that comes next
          json,     \* the document
          pending,  \* the paths that step has yet to visit
          summary   \* the hosts summary

enricherVars == <<input, stage, json, pending, summary>>

-----------------------------------------------------------------------------
(* getDefaultFieldsTo...: the paths the steps work on. *)
OfCluster(k) == << <<"cluster", k>> >>
OfHost(k) == << <<"cluster", "hosts">>, <<k>> >>
OfHostInfraEnv(k) == << <<"cluster", "hosts">>, <<"infra_env", k>> >>
OfInfraEnv(k) == << <<"infra_envs">>, <<k>> >>

fieldsToUnpack ==
    <<OfCluster("feature_usage"), OfCluster("validations_info"),
      OfCluster("connectivity_majority_groups"), OfHost("inventory"), OfHost("connectivity"),
      OfHost("disks_info"), OfHost("domain_name_resolutions"), OfHost("free_addresses"),
      OfHost("images_status"), OfHost("ntp_sources"), OfHost("validations_info")>>

fieldsMapToListDropKey == <<OfCluster("feature_usage")>>

fieldsMapToList ==
    <<OfCluster("connectivity_majority_groups"), OfHost("disks_info"), OfHost("images_status")>>

fieldsToDelete ==
    <<OfCluster("pull_secret"), OfCluster("ssh_public_key"), OfHostInfraEnv("ssh_authorized_key"),
      OfInfraEnv("ssh_authorized_key")>>

fieldsToAnonymize ==
    [path \in {OfCluster("user_name"), OfHost("user_name"), OfHostInfraEnv("user_name"),
               OfInfraEnv("user_name")} |->
        CASE path = OfCluster("user_name") -> OfCluster("user_id")
          [] path = OfHost("user_name") -> OfHost("user_id")
          [] path = OfHostInfraEnv("user_name") -> OfHostInfraEnv("user_id")
          [] path = OfInfraEnv("user_name") -> OfInfraEnv("user_id")]

-----------------------------------------------------------------------------
(* GetBaseEnrichedEvent.  A Go nil map or slice is encoded as null.        *)
(* infraEnv["id"] of an infra-env without one is nil; the last match wins. *)
Key(object, k) == IF Field(object, k).kind = "missing" THEN Null ELSE Field(object, k)

getHostsWithEmbeddedInfraEnv(hosts, infraEnvs) ==
    [i \in DOMAIN hosts |->
        LET matches == {j \in DOMAIN infraEnvs :
                           Key(infraEnvs[j], "id") = Field(hosts[i], "infra_env_id")}
        IN  IF matches = {} THEN hosts[i]
            ELSE LET last == CHOOSE j \in matches : \A l \in matches : l <= j
                 IN  SetField(hosts[i], "infra_env", infraEnvs[last])]

getProps(props) ==
    IF props.kind = "string" /\ Unpacked(props).kind = "object" THEN Unpacked(props) ELSE Null

(* (Mutant: the nested versions are not looked for.) *)
getVersionsNotNested(metadata) ==
    LET versions == Field(metadata, "versions")
    IN  IF versions.kind = "object" THEN versions ELSE Null

getVersionsFromMetadata(metadata) ==
    LET versions == Field(metadata, "versions")
        inner == Get(metadata, <<"versions", "versions">>)
    IN  IF inner.kind = "object" THEN inner
        ELSE IF versions.kind = "object" THEN versions ELSE Null

getReleaseTagFromMetadata(metadata) ==
    LET tag == Get(metadata, <<"versions", "release_tag">>)
    IN  IF tag.kind = "string" THEN tag ELSE Missing

(* The metadata the on-prem process gives its events. *)
getMetadata(versions) == Object([versions |-> Object([versions |-> versions])])

(* A field with omitempty. *)
OmitEmpty(object, k, value) ==
    IF \/ value.kind \in {"null", "missing"}
       \/ value.kind = "object" /\ DOMAIN value.fields = {}
       \/ value.kind = "list" /\ value.items = <<>>
    THEN object
    ELSE SetField(object, k, value)

GetBaseEnrichedEvent(in) ==
    LET hosts == getHostsWithEmbeddedInfraEnv(in.hosts, in.infraEnvs)
        event == OmitEmpty(Object(NoFields), "props", getProps(in.props))
        cluster == SetField(in.cluster, "hosts", IF in.hosts = <<>> THEN Null ELSE List(hosts))
        doc == Object([event |-> event, cluster |-> cluster,
                       versions |-> getVersionsFromMetadata(in.metadata)])
    IN  OmitEmpty(OmitEmpty(doc, "infra_envs", List(in.infraEnvs)),
                  "release_tag", getReleaseTagFromMetadata(in.metadata))

-----------------------------------------------------------------------------
(* The steps of getTransformedEvent in their order, and the orders in      *)
(* which each goes through its paths: that of its list or, for the keys of *)
(* fieldsToAnonymize, any.                                                 *)
NextStep ==
    [base |-> "unpack", unpack |-> "dropKey", dropKey |-> "mapToList", mapToList |-> "hash",
     hash |-> "rename", rename |-> "delete", delete |-> "summary"]

MapOrders(S) ==
    {s \in [1 .. Cardinality(S) -> S] :
        \A path \in S : \E i \in DOMAIN s : \A j \in DOMAIN s : s[j] = path <=> j = i}

Orders(step) ==
    CASE step = "unpack" -> {fieldsToUnpack}
      [] step = "dropKey" -> {fieldsMapToListDropKey}
      [] step = "mapToList" -> {fieldsMapToList}
      [] step \in {"hash", "rename"} -> MapOrders(DOMAIN fieldsToAnonymize)
      [] step = "delete" -> {fieldsToDelete}
      [] step = "summary" -> {<<>>}

Init ==
    /\ input \in Inputs
    /\ stage = "base"
    /\ json = Null
    /\ pending = <<>>
    /\ summary = Null

(* The next function is called. *)
Call ==
    /\ stage' = NextStep[stage]
    /\ pending' \in Orders(stage')
    /\ UNCHANGED <<input, summary>>

CreateBaseEvent == stage = "base" /\ json' = GetBaseEnrichedEvent(input) /\ Call

StepReturns == stage \in DOMAIN NextStep \ {"base"} /\ pending = <<>> /\ Call /\ UNCHANGED json

(* One iteration of a step's loop. *)
Visit(step, doc) ==
    /\ stage = step
    /\ pending # <<>>
    /\ json' = doc
    /\ pending' = Tail(pending)
    /\ UNCHANGED <<input, stage, summary>>

unpackJson == Visit("unpack", Transform(json, Head(pending), "unpack"))

mapToListJsonDropKey == Visit("dropKey", Transform(json, Head(pending), "dropKey"))

mapToListJson == Visit("mapToList", Transform(json, Head(pending), "mapToList"))

(* anonymizeJson: Transform over the keys of the map, then Rename, which   *)
(* iterates it again.                                                      *)
anonymizeHash == Visit("hash", Transform(json, Head(pending), "hash"))

anonymizeRename == Visit("rename", Rename(json, Head(pending), fieldsToAnonymize[Head(pending)]))

deleteJson == Visit("delete", Delete(json, Head(pending)))

addHostsSummaryJson ==
    /\ stage = "summary"
    /\ stage' = "done"
    /\ summary' \in AddHostsSummary(json)
    /\ UNCHANGED <<input, json, pending>>

(* GetEnrichedEvent returned; the enricher keeps nothing for the next call. *)
NextEvent ==
    /\ stage = "done"
    /\ input' \in Inputs
    /\ stage' = "base"
    /\ json' = Null
    /\ summary' = Null
    /\ UNCHANGED pending

Next ==
    \/ CreateBaseEvent
    \/ StepReturns
    \/ unpackJson
    \/ mapToListJsonDropKey
    \/ mapToListJson
    \/ anonymizeHash
    \/ anonymizeRename
    \/ deleteJson
    \/ addHostsSummaryJson
    \/ NextEvent

Spec == Init /\ [][Next]_enricherVars

-----------------------------------------------------------------------------
(* What the document should be, said field by field instead of path by     *)
(* path.  Replace(k, v) is the value of field k that had the value v.      *)
UserID(name) ==
    IF name.kind = "string" THEN String(Md5[name.text])
    ELSE IF name.kind = "null" THEN String("") ELSE name

ExpectedObject(object, secret, Replace(_, _)) ==
    LET fields == object.fields
        kept == DOMAIN fields \ (secret \cup {"user_name"})
        user == IF "user_name" \in DOMAIN fields THEN {"user_id"} ELSE {}
    IN  Object([k \in kept \cup user |->
                   IF k \in user THEN UserID(fields["user_name"]) ELSE Replace(k, fields[k])])

Same(k, v) == v

Listed(v, Item(_, _)) ==
    IF v.kind # "object" THEN v
    ELSE IF DOMAIN v.fields = {} THEN Null
    ELSE Listing([k \in DOMAIN v.fields |-> Item(k, v.fields[k])])

WithKey(k, v) ==
    IF v.kind = "object"
    THEN Object([f \in DOMAIN v.fields \cup {"id"} |-> IF f = "id" THEN String(k) ELSE v.fields[f]])
    ELSE Object([key |-> String(k), value |-> v])

Decoded(v) == IF v.kind = "null" THEN v ELSE Unpacked(v)

ExpectedInfraEnv(infraEnv) == ExpectedObject(infraEnv, {"ssh_authorized_key"}, Same)

HostField(k, v) ==
    IF k \in {"disks_info", "images_status"} THEN Listed(Decoded(v), WithKey)
    ELSE IF k = "infra_env" THEN ExpectedInfraEnv(v)
    ELSE IF k \in {"inventory", "connectivity", "domain_name_resolutions", "free_addresses",
                   "ntp_sources", "validations_info"} THEN Decoded(v)
    ELSE v

ClusterField(k, v) ==
    IF k = "feature_usage" THEN Listed(Decoded(v), Same)
    ELSE IF k = "connectivity_majority_groups" THEN Listed(Decoded(v), WithKey)
    ELSE IF k = "validations_info" THEN Decoded(v)
    ELSE v

(* Inputs the code was written for.  Neither a user name nor its hash is   *)
(* the encoding of a JSON value, and no map is encoded twice: both would   *)
(* be decoded once too often.  The infra-envs come from a Redis hash, one  *)
(* per id, and a host snapshot has none embedded.                          *)
PlainObject(object, maps) ==
    LET name == Field(object, "user_name")
        Map(k) == Unpacked(Field(object, k))
    IN  /\ name.kind = "string" =>
              name.text \notin DOMAIN Parsed /\ Md5[name.text] \notin DOMAIN Parsed
        /\ \A k \in maps : Map(k).kind = "string" => Map(k).text \notin DOMAIN Parsed

PlainInput(in) ==
    LET ID(j) == Field(in.infraEnvs[j], "id")
    IN  /\ PlainObject(in.cluster, {"feature_usage", "connectivity_majority_groups"})
        /\ \A i \in DOMAIN in.hosts :
              /\ PlainObject(in.hosts[i], {"disks_info", "images_status"})
              /\ Field(in.hosts[i], "infra_env") = Missing
        /\ \A j \in DOMAIN in.infraEnvs :
              /\ PlainObject(in.infraEnvs[j], {})
              /\ ID(j).kind = "string"
              /\ \A l \in DOMAIN in.infraEnvs : ID(j) = ID(l) => j = l

PlainInputs == \A in \in Inputs : PlainInput(in)

(* The infra-env of host i, if the cluster has it. *)
InfraEnvsOf(i) ==
    {input.infraEnvs[j] : j \in
        {l \in DOMAIN input.infraEnvs :
            Field(input.hosts[i], "infra_env_id") = Field(input.infraEnvs[l], "id")}}

ExpectedHost(i) ==
    LET host == IF InfraEnvsOf(i) = {} THEN input.hosts[i]
                ELSE SetField(input.hosts[i], "infra_env", CHOOSE e \in InfraEnvsOf(i) : TRUE)
    IN  ExpectedObject(host, {}, HostField)

(* Whatever order the two maps are iterated in, the document that comes    *)
(* out has every host, in its place and with its own infra-env, every      *)
(* encoded field decoded, every map turned into a list without losing an   *)
(* entry, the user names replaced, the fields to delete gone, and nothing  *)
(* else changed.                                                           *)
EnrichedAsDeclared ==
    stage = "done" =>
        LET cluster == Field(json, "cluster")
            expected == ExpectedObject(input.cluster, {"pull_secret", "ssh_public_key", "hosts"},
                                       ClusterField)
        IN  /\ DropField(cluster, "hosts") = expected
            /\ Field(cluster, "hosts") =
                  IF input.hosts = <<>> THEN Null
                  ELSE List([i \in DOMAIN input.hosts |-> ExpectedHost(i)])
            /\ Field(json, "infra_envs") =
                  IF input.infraEnvs = <<>> THEN Missing
                  ELSE List([i \in DOMAIN input.infraEnvs |-> ExpectedInfraEnv(input.infraEnvs[i])])

(* The hosts that have stat k as a string, and the labels they have. *)
Having(k, label) ==
    {i \in DOMAIN input.hosts :
        \E e \in InfraEnvsOf(i) : Field(e, k).kind = "string" /\ Label(Field(e, k).text) = label}

Labels(k) ==
    {Label(Field(e, k).text) : e \in
        {x \in UNION {InfraEnvsOf(i) : i \in DOMAIN input.hosts} : Field(x, k).kind = "string"}}

(* The summary that is added at the end is the one of the hosts the event  *)
(* was enriched with: all are counted, the ISO type is one that no other   *)
(* type outnumbers and, if the architecture of every embedded infra-env is *)
(* known and there is one, the cluster is heterogeneous exactly when two   *)
(* hosts differ - hosts without an infra-env do not count.                 *)
SummaryOfHosts ==
    stage = "done" =>
        LET known == \A i \in DOMAIN input.hosts : \A e \in InfraEnvsOf(i) :
                         Field(e, "cpu_architecture").kind = "string"
        IN  /\ summary.host_count = Len(input.hosts)
            /\ \A l \in Labels("type") :
                  Cardinality(Having("type", summary.iso_type)) >= Cardinality(Having("type", l))
            /\ known /\ Labels("cpu_architecture") # {} =>
                  (summary.heterogeneous_arch <=> Cardinality(Labels("cpu_architecture")) > 1)

(* What the on-prem process writes into the metadata of its events, the    *)
(* enricher finds there: the two processes agree on the nesting, through   *)
(* every edit of the document.                                             *)
VersionsFound ==
    stage = "done" =>
        LET versions == Get(input.metadata, <<"versions", "versions">>)
        IN  versions.kind = "object" /\ input.metadata = getMetadata(versions)
              => Field(json, "versions") = versions /\ Field(json, "release_tag") = Missing

(* The user_id of a cluster is the hash of its user_name. *)
UserIDIsHash ==
    stage = "done" =>
        LET name == Field(input.cluster, "user_name")
        IN  name.kind = "string" => Get(json, <<"cluster", "user_id">>) = String(Md5[name.text])
=============================================================================
