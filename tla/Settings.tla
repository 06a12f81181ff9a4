------------------------------ MODULE Settings ------------------------------
(***************************************************************************)
(* What the provider makes of its configuration before it calls the cloud: *)
(* the settings of a Service (annotations over the [LoadBalancer] section), *)
(* the credentials (the [Global] section over the environment) and the      *)
(* names of a Service's resources.  HelperCases.tla checks it.              *)
(***************************************************************************)
EXTENDS Integers, Sequences, SequencesExt

(* An annotation is one of a few texts, "" if it is absent.  What strconv, *)
(* strings.Split and strings.ToUpper make of them is tabulated; an empty   *)
(* set of values is an error.                                              *)
Texts == {"", "x", "0", "7", "-1", "true", " , ", "a, b", "http", "/x"}

splitTrim(text) == CASE text = " , " -> <<>> [] text = "a, b" -> <<"a", "b">> [] OTHER -> <<text>>

Atoi(text) == CASE text = "0" -> {0} [] text = "7" -> {7} [] text = "-1" -> {-1} [] OTHER -> {}
ParseBool(text) == CASE text = "0" -> {FALSE} [] text = "true" -> {TRUE} [] OTHER -> {}

annString(text, default) == IF text = "" THEN default ELSE text
annList(text, default) == IF text = "" THEN default ELSE splitTrim(text)
annInt(text, default) == IF text = "" THEN {default} ELSE Atoi(text)
annBoolStrict(text, default) == ParseBool(text)
annBool(text, default) == IF text = "" THEN {default} ELSE ParseBool(text)

algorithmAsConfigured(text, default) == annString(text, default)
algorithm(text, default) == annString(text, annString(default, "ROUND_ROBIN"))

\* The annotations, one for each way to handle them: "flavor" stands for the
\* texts that are only passed on, "delay" for the numbers of a health check.
Annotations == {"flavor", "lb-algorithm", "zones", "eip-ids", "eip-bandwidth", "eip-keep",
                "idle-timeout", "enabled", "delay", "protocol", "url-path"}

\* The settings of a Service, one record, or none if an annotation is wrong.
settingsForService(defaults, ann) ==
    { s \in [ flavor : {annString(ann["flavor"], defaults.flavor)},
              alg : {algorithm(ann["lb-algorithm"], defaults.alg)},
              zones : {annList(ann["zones"], defaults.zones)},
              eipIDs : {annList(ann["eip-ids"], <<>>)},
              eipBandwidth : annInt(ann["eip-bandwidth"], 0),
              eipKeep : annBool(ann["eip-keep"], FALSE),
              idle : annInt(ann["idle-timeout"], 0),
              enabled : annBool(ann["enabled"], defaults.enabled),
              delay : annInt(ann["delay"], defaults.delay),
              protocol : IF ann["protocol"] \in {"", "http"}
                           THEN {IF ann["protocol"] = "http" THEN "HTTP" ELSE ""} ELSE {},
              path : {ann["url-path"]} \cap {"", "/x"} ] :
        /\ s.eipBandwidth >= 0
        /\ ~(s.eipBandwidth > 0 /\ s.eipIDs # <<>>)
        /\ s.idle >= 0 }

-----------------------------------------------------------------------------
(* The configuration.  A field is "" if it is not set, "f" if the file sets *)
(* it and "e" if the environment does.  "region" stands for the fields that *)
(* validate does not look at.                                              *)

Fields == {"auth-url", "username", "password", "access-key", "secret-key", "region"}

EnvironmentFirst(file, env) == [f \in Fields |-> annString(env[f], file[f])]
applyEnvFallbacks(file, env) == [f \in Fields |-> annString(file[f], env[f])]

AuthMethod(opts) ==
    IF opts["access-key"] # "" /\ opts["secret-key"] # "" THEN "aksk"
    ELSE IF opts["username"] # "" /\ opts["password"] # "" THEN "password"
    ELSE ""

validate(opts) == opts["auth-url"] # "" /\ AuthMethod(opts) # ""

\* The configuration the provider runs with, or none.
ReadConfig(file, env) == {opts \in {applyEnvFallbacks(file, env)} : validate(opts)}

\* What the provider's constructor demands of the fields, and which it uses.
CredentialsOf(method) ==
    IF method = "aksk" THEN {"auth-url", "access-key", "secret-key"}
                       ELSE {"auth-url", "username", "password"}

\* The providers NewOTC makes: method and credentials, or none for an error.
NewOTC(file, env) ==
    { [method |-> AuthMethod(opts), with |-> Restrict(opts, CredentialsOf(AuthMethod(opts)))] :
      opts \in {o \in ReadConfig(file, env) : \A f \in CredentialsOf(AuthMethod(o)) : o[f] # ""} }

-----------------------------------------------------------------------------
(* Names.  A name is a sequence of letters, the namespace and the name of a *)
(* Service have no "_".  The prefix with the cluster's name is one letter.  *)

cutString(name, length) == SubSeq(name, 1, Min({length, Len(name)}))

fullName(svc) == <<"cluster", "_">> \o svc.namespace \o <<"_">> \o svc.name

GetLoadBalancerName(svc, length) == cutString(fullName(svc), length)

\* Listeners, pools, monitors and groups are named after the port.
childName(svc, key, length) == cutString(GetLoadBalancerName(svc, length) \o <<"_", key>>, length)

namedLoosely(svc, name, length) == IsPrefix(GetLoadBalancerName(svc, length), name)

\* Whose resource it is, as far as the code can tell.
namedAfter(svc, name, length) == IsPrefix(Append(GetLoadBalancerName(svc, length), "_"), name)
=============================================================================
