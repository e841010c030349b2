---------------------------- MODULE MCReconcile ----------------------------
(***************************************************************************)
(* A network: a VPC, subnets looped and wired from the VPC's status, a     *)
(* ConfigMap under a condition, named by the environment, and a policy     *)
(* that refers to names; for each engine.  Beside it, a gateway with a     *)
(* loop bound that is observed and an envelope, two resources wired from   *)
(* each other, and documents that are wrong in one respect each, which the *)
(* checks are to refuse.                                                   *)
(***************************************************************************)
EXTENDS Reconcile

Node(type, required) == [type |-> type, required |-> required]
Parameter(type, required, default, enum) ==
    [type |-> type, required |-> required, default |-> default, enum |-> enum]
Managed(kind, fields, envelope, status) ==
    [kind |-> kind, native |-> FALSE, managed |-> TRUE, namespaced |-> TRUE, providers |-> {"aws"},
     fields |-> fields, envelope |-> envelope, status |-> status]
Native(kind, fields) ==
    [kind |-> kind, native |-> TRUE, managed |-> FALSE, namespaced |-> TRUE, providers |-> {},
     fields |-> fields, envelope |-> <<>>, status |-> <<>>]

String == Node("string", FALSE)
VPC == Managed("VPC",
    <<"region">> :> Node("string", TRUE) @@ <<"cidr">> :> String @@ <<"tags">> :> Node("map", FALSE)
    @@ <<"dns">> :> Node("object", TRUE) @@ <<"dns", "host">> :> String
    @@ <<"rules">> :> Node("array", TRUE) @@ <<"rules", "0", "to">> :> Node("string", TRUE)
    @@ <<"rules", "0", "on">> :> String,
    <<>>, <<"id">> :> String)
Subnet == Managed("Subnet",
    <<"vpcId">> :> Node("string", TRUE) @@ <<"cidr">> :> String @@ <<"mask">> :> Node("integer", FALSE)
    @@ <<"routes">> :> Node("array", FALSE) @@ <<"routes", "0", "to">> :> String,
    <<"deletion">> :> Node("object", TRUE) @@ <<"deletion", "policy">> :> String
    @@ <<"providerConfigRef">> :> Node("object", FALSE)
    @@ <<"providerConfigRef", "kind">> :> String @@ <<"providerConfigRef", "name">> :> String,
    <<"zones">> :> Node("integer", FALSE))
ConfigMap == Native("ConfigMap",
    <<"metadata">> :> Node("object", FALSE) @@ <<"metadata", "name">> :> String
    @@ <<"data">> :> Node("map", FALSE))
TestCrds == <<VPC, Subnet, ConfigMap>>

Unlooped == None
Always == [of |-> None, op |-> "", literal |-> 0]
Resource(name, kind, fields) ==
    [name |-> name, kind |-> kind, provider |-> IF kind = "ConfigMap" THEN NativeProvider ELSE "aws",
     when |-> Always, forEach |-> Unlooped, fields |-> fields, annotations |-> <<>>, envelope |-> <<>>]
Fixed == Source("value", "v", <<>>)

Blueprint(engine) ==
    [engine |-> engine, templateSource |-> "Inline", namespaced |-> TRUE, templates |-> {}, conventions |-> {}, env |-> <<>>,
     status |-> <<>>, resources |-> <<>>,
     params |-> <<"providerName">> :> Parameter("string", TRUE, FALSE, {1})]

-----------------------------------------------------------------------------

Network(engine) ==
    [Blueprint(engine) EXCEPT
       !.params = @ @@ <<"net">> :> Parameter("object", FALSE, FALSE, {1})
                    @@ <<"net", "cidr">> :> Parameter("string", TRUE, FALSE, {1})
                    @@ <<"net", "mask">> :> Parameter("integer", FALSE, TRUE, {1})
                    @@ <<"tags">> :> Parameter("object", FALSE, FALSE, {1})
                    @@ <<"zones">> :> Parameter("integer", FALSE, TRUE, {0, 2})
                    @@ <<"public">> :> Parameter("boolean", TRUE, FALSE, {0, 1}),
       !.status = <<"vpc">> :> [type |-> "string", from |-> Status("vpc", <<"id">>)],
       !.resources =
         <<[Resource("vpc", "VPC", <<"region">> :> NameOf("base") @@ <<"cidr">> :> Param(<<"net", "cidr">>)
                                   @@ <<"dns", "host">> :> Fixed @@ <<"tags">> :> Param(<<"tags">>)
                                   @@ <<"tags", "env">> :> Fixed @@ <<"rules", "0", "on">> :> Fixed
                                   @@ <<"rules", "1", "to">> :> Param(<<"net", "cidr">>)) EXCEPT
              !.annotations = "team" :> Param(<<"net", "mask">>)],
           [Resource("subnet", "Subnet", <<"vpcId">> :> Status("vpc", <<"id">>)
                                         @@ <<"mask">> :> Param(<<"net", "mask">>)
                                         @@ <<"routes", "0", "to">> :> NameOf("cm")
                                         @@ <<"routes", "1", "to">> :> Fixed) EXCEPT
              !.forEach = Param(<<"zones">>),
              !.envelope = <<"deletion", "policy">> :> Fixed],
           [Resource("cm", "ConfigMap", <<"metadata", "name">> :> NameOf("base")
                                        @@ <<"data", "key">> :> NameOf("base")) EXCEPT
              !.when = [of |-> Param(<<"public">>), op |-> "", literal |-> 0]],
           Resource("base", "ConfigMap", <<"metadata", "name">> :> Param(<<"net", "cidr">>))>>]

(* The same, with an environment: names and conditions taken from it.      *)
OnEnv(b) ==
    [b EXCEPT !.env = "owner" :> [type |-> "string", default |-> FALSE]
                      @@ "stage" :> [type |-> "string", default |-> TRUE],
              !.params[<<"zones">>].enum = {2}, !.params[<<"public">>].enum = {1},
              !.resources[4].fields[<<"metadata", "name">>] = Env("stage"),
              !.resources[4].when = [of |-> Env("owner"), op |-> "!=", literal |-> 0],
              !.resources[1].annotations = "team" :> Env("owner")]

(* Loops over an observed count, envelopes, templates by convention.       *)
Gateway(engine) ==
    [Blueprint(engine) EXCEPT
       !.params = @ @@ <<"net">> :> Parameter("object", TRUE, FALSE, {1})
                    @@ <<"net", "policy">> :> Parameter("string", TRUE, FALSE, {1})
                    @@ <<"config">> :> Parameter("string", FALSE, FALSE, {1}),
       !.resources =
         <<[Resource("first", "Subnet", <<"vpcId">> :> Fixed) EXCEPT
              !.envelope = <<"deletion", "policy">> :> Param(<<"net", "policy">>)
                           @@ <<"providerConfigRef", "name">> :> Param(<<"config">>)],
           [Resource("then", "Subnet", <<"vpcId">> :> Param(<<"config">>) @@ <<"mask">> :> Status("first", <<"zones">>)) EXCEPT
              !.envelope = <<"deletion", "policy">> :> Fixed
                           @@ <<"providerConfigRef", "kind">> :> Fixed],
           [Resource("each", "Subnet", <<"vpcId">> :> Fixed) EXCEPT
              !.forEach = Status("then", <<"zones">>),
              !.envelope = <<"deletion", "policy">> :> Fixed]>>]
WithTemplates(b) ==
    [b EXCEPT !.templates = {"cf.cidr"}, !.conventions = {[match |-> {"cidr"}, template |-> "cf.cidr"]}]
(* A loop over a count of the environment.                                 *)
Counted(b) == [b EXCEPT !.env = "count" :> [type |-> "integer", default |-> FALSE],
                        !.resources[3].forEach = Env("count")]

(* Two resources wired from each other's status: KCL and Python leave out  *)
(* the line, the Go template leaves out both resources for good.           *)
Ring(engine) ==
    [Blueprint(engine) EXCEPT
       !.resources =
         <<[Resource("a", "Subnet", <<"vpcId">> :> Fixed @@ <<"mask">> :> Status("b", <<"zones">>)) EXCEPT
              !.envelope = <<"deletion", "policy">> :> Fixed],
           [Resource("b", "Subnet", <<"vpcId">> :> Fixed @@ <<"mask">> :> Status("a", <<"zones">>)) EXCEPT
              !.envelope = <<"deletion", "policy">> :> Fixed]>>]

FileSystem(b) == [b EXCEPT !.templateSource = "FileSystem"]

-----------------------------------------------------------------------------
(* Documents the checks refuse. *)

OptionalCondition(b) == [b EXCEPT !.params[<<"public">>].required = FALSE]
OptionalPolicy(b) == [b EXCEPT !.params[<<"net">>].required = FALSE]
EmptyBranch(b) == [b EXCEPT !.resources[1].fields = [p \in DOMAIN @ \ {<<"dns", "host">>} |-> @[p]]]
NoProviderName(b) == [b EXCEPT !.params[<<"providerName">>].required = FALSE]
SelfWired(b) == [b EXCEPT !.resources[1].fields = @ @@ <<"mask">> :> Status("first", <<"zones">>)]

Networks == {Network("go-templating"), Network("kcl"), Network("python"),
             FileSystem(OnEnv(Network("go-templating"))), OnEnv(Network("python"))}
Gateways == {WithTemplates(Gateway("go-templating")), Gateway("kcl"), Gateway("python"),
             Counted(Gateway("go-templating")), Counted(Gateway("python"))}
Wrong == {OptionalCondition(Network("go-templating")), OptionalPolicy(Gateway("go-templating")),
          EmptyBranch(Network("go-templating")), NoProviderName(Network("python")),
          NoProviderName(Network("go-templating")), SelfWired(Gateway("go-templating")),
          FileSystem(Network("kcl"))}
Rings == {Ring("go-templating"), Ring("kcl"), Ring("python")}
AllDocs == Networks \union Gateways \union Rings \union Wrong
ASSUME \A d \in Networks \union Gateways \union Rings : Emits(d)
ASSUME ObjectsAtTop

WithheldDoc == {WithTemplates(Gateway("go-templating"))}
IndexSegments == <<"0", "1">>
=============================================================================
