-------------------------- MODULE MCEventEnricher ---------------------------
(***************************************************************************)
(* Small instances of EventEnricher for TLC.                               *)
(***************************************************************************)
EXTENDS EventEnricher, TLC

Text(k, text) == k :> String(text)

(* Texts: the encodings of maps, of a number and of null. *)
MCParsed ==
    "{}" :> Object(NoFields)
      @@ "{map}" :> Object("a" :> Object("path" :> Number(1)) @@ "b" :> String("text"))
      @@ "42" :> Number(42)
      @@ "null" :> Null

MCMd5 == "alice" :> "md5 of alice" @@ "bob" :> "md5 of bob" @@ "42" :> "md5 of 42"
MCDotted == "4.12" :> "4_12"

(* Clusters: nothing known, maps encoded in strings, an empty map, a text  *)
(* that is no JSON, a list or null where a map is expected, hosts that     *)
(* come with the cluster itself.                                           *)
MCClusters ==
    {Object(NoFields),
     Object(Text("user_name", "alice") @@ Text("pull_secret", "key")
              @@ Text("feature_usage", "{map}") @@ Text("validations_info", "{map}")
              @@ Text("connectivity_majority_groups", "{map}")),
     Object(Text("ssh_public_key", "key") @@ Text("feature_usage", "{}")
              @@ Text("connectivity_majority_groups", "text") @@ "user_name" :> Null),
     Object("feature_usage" :> List(<<Number(1)>>) @@ "user_name" :> Number(7)
              @@ Text("connectivity_majority_groups", "null") @@ Text("name", "42")
              @@ "hosts" :> List(<<Object(Text("id", "old"))>>))}

(* Hosts: of the infra-envs i, j and k, of which k is never there. *)
Host(id, infraEnv) ==
    Object(Text("id", id) @@ Text("infra_env_id", infraEnv) @@ Text("user_name", "bob")
             @@ Text("disks_info", "{map}") @@ Text("inventory", "{map}"))
BareHost == Object(Text("id", "bare") @@ "images_status" :> Null)

MCHosts ==
    {<<>>, <<BareHost>>, <<Host("g", "i"), Host("h", "i")>>, <<Host("g", "i"), Host("h", "j")>>,
     <<Host("g", "i"), BareHost, Host("h", "k")>>,
     <<Host("f", "i"), Host("g", "j"), Host("h", "j")>>}

InfraEnv(id, iso, arch) ==
    Object(Text("id", id) @@ Text("user_name", "alice") @@ Text("type", iso)
             @@ Text("ssh_authorized_key", "key") @@ "cpu_architecture" :> arch
             @@ Text("openshift_version", "4.12"))

MCInfraEnvs ==
    {<<>>,
     <<InfraEnv("i", "full-iso", String("x86_64"))>>,
     <<InfraEnv("i", "full-iso", String("x86_64")), InfraEnv("j", "minimal-iso", String("x86_64"))>>,
     <<InfraEnv("j", "minimal-iso", String("arm64")), InfraEnv("i", "full-iso", String("x86_64"))>>,
     <<InfraEnv("j", "full-iso", Null), InfraEnv("i", "full-iso", String("x86_64"))>>}

Versions == Object(Text("assisted-installer", "4.12"))

MCMetadata ==
    {Object(NoFields), Object("versions" :> Versions), getMetadata(Versions),
     Object("versions" :> Object(Text("release_tag", "tag") @@ "versions" :> Versions)),
     Object("versions" :> Object("release_tag" :> Null @@ Text("versions", "text"))),
     Object(Text("versions", "text"))}

MCInputs ==
    [props : {String("{map}")}, metadata : {getMetadata(Versions)}, cluster : MCClusters,
     hosts : MCHosts, infraEnvs : MCInfraEnvs]
      \cup [props : {Missing, String("{}"), String("42"), Number(1)}, metadata : MCMetadata,
            cluster : {Object(Text("user_name", "alice"))}, hosts : {<<>>}, infraEnvs : {<<>>}]

ASSUME MCPlainInputs == \A in \in MCInputs : PlainInput(in)

(* Clusters whose user has one name or the other. *)
UserInputs ==
    [props : {Missing}, metadata : MCMetadata,
     cluster : {Object(Text("user_name", name)) : name \in {"alice", "42"}},
     hosts : {<<>>, <<BareHost>>}, infraEnvs : MCInfraEnvs]
=============================================================================
