---------------------------- MODULE TracingConfig ----------------------------
(***************************************************************************)
(* The tracing configuration of ApiTracing                                 *)
(* (plugins/apitracing/src/lib/config/Config.cpp and the -n argument in    *)
(* ApiTracing.cpp): which functions of which modules are traced in a       *)
(* process of a given name.                                                *)
(*                                                                         *)
(* The mappings of the file are sequences, for their order matters and a   *)
(* key may be written twice.                                               *)
(***************************************************************************)
EXTENDS Naturals, Sequences

CONSTANTS
    ProfileNodes,  \* "profiles": each [name, modules], and a module is [name, functions]
    TargetNodes,   \* "traced_processes": each [process, profile]; the profile may be Unnamed
    NamedProcess,  \* the argument -n, or Unnamed
    Unnamed

Elements(seq) == {seq[i] : i \in DOMAIN seq}

\* What the loader of the file makes of its sequences and mappings
ASSUME ConfigAssumption ==
    /\ TargetNodes \in Seq(Elements(TargetNodes))
    /\ ProfileNodes \in Seq(Elements(ProfileNodes))
    /\ \A p \in Elements(ProfileNodes) :
          /\ p.modules \in Seq(Elements(p.modules))
          /\ \A m \in Elements(p.modules) : m.functions \in Seq(Elements(m.functions))

First(S) == CHOOSE i \in S : \A j \in S : i <= j
Last0(S) == CHOOSE i \in S : \A j \in S : j <= i

TracedFunctions(module) ==
    [j \in DOMAIN module.functions |-> [module |-> module.name, function |-> module.functions[j]]]

\* parseProfile.  A profile is the sequence of its functions, module by module.
parseProfile(node) ==
    LET parsed[k \in 0..Len(node.modules)] ==
            IF k = 0 THEN <<>> ELSE parsed[k - 1] \o TracedFunctions(node.modules[k])
    IN  parsed[Len(node.modules)]

\* parseProfiles assigns: the last profile of a name counts.
profiles ==
    [n \in {ProfileNodes[i].name : i \in DOMAIN ProfileNodes} |->
        parseProfile(ProfileNodes[Last0({i \in DOMAIN ProfileNodes : ProfileNodes[i].name = n})])]

\* A name that is not in the map gets an empty profile there.
ProfileNamed(n) == IF n \in DOMAIN profiles THEN profiles[n] ELSE <<>>

\* parseTracingTargets emplaces: the first entry of a process counts.
TargetsIn(nodes) ==
    [p \in {nodes[i].process : i \in DOMAIN nodes} |->
        LET node == nodes[First({i \in DOMAIN nodes : nodes[i].process = p})]
        IN  ProfileNamed(IF node.profile = Unnamed THEN "default" ELSE node.profile)]

\* addTracingTarget comes after the file, so it changes nothing for a process of the file.
processTracingProfiles ==
    TargetsIn(IF NamedProcess = Unnamed THEN TargetNodes
              ELSE Append(TargetNodes, [process |-> NamedProcess, profile |-> Unnamed]))

\* getTracingProfile finds one
HasProfile(p) == p \in DOMAIN processTracingProfiles
=============================================================================
