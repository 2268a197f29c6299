----------------------------- MODULE MCPodSpecs -----------------------------
(* Instances of PodSpecs for TLC: three templates that may inherit from each *)
(* other in a chain or a cycle, and four sandboxes.                          *)
EXTENDS PodSpecs

Namespaced(n) == [kind |-> NamespacedKind, ns |-> "ns", name |-> n]
Leaf == Namespaced("leaf")
Mid == Namespaced("mid")
Base == [kind |-> ClusterKind, ns |-> None, name |-> "base"]
MCObjects == {Leaf, Mid, Base}

Ref(kind, n) == [kind |-> kind, ns |-> None, name |-> n]
Empty == Bare
Image(r) == [repository |-> r, pullSecret |-> None]
Named(n) == [name |-> n, image |-> n]
Pair(k, v) == [key |-> k, val |-> v]
AnAgent == [NoAgent EXCEPT !.given = TRUE]

Rule(cidr, ports) == [cidr |-> cidr, service |-> None, ports |-> ports]
Closed ==
  [internet |-> FALSE, peers |-> TRUE, egress |-> {Rule("10.0.0.0/8", {"80"}), [Rule(None, {}) EXCEPT !.service = "db"]},
   ingress |-> {Rule("10.0.0.0/8", {})}]
Open == [internet |-> TRUE, peers |-> TRUE, egress |-> {}, ingress |-> {Rule("10.0.0.0/8", {"80"})}]

\* The cluster's template: defaults of everything, or its end in a cycle.
BaseSpec ==
  [Empty EXCEPT
     !.own = [@ EXCEPT !["image"] = Image("base"), !["storage"] = [size |-> "10Gi", mountPath |-> "/data"],
                       !["resources"] = "small", !["network"] = Open,
                       !["security"] = "restricted"],
     !.account = "base",
     !.harness = [NoHarness EXCEPT !.own = [@ EXCEPT !["command"] = "base", !["useHTTPExec"] = "true"],
                                   !.agent = [AnAgent EXCEPT !.own = [@ EXCEPT !["maxConcurrentInvokes"] = "2"]]],
     !.env = <<Pair("A", "base"), Pair("B", "base")>>,
     !.files = <<Pair("f", "base")>>,
     !.joined = [@ EXCEPT !["sidecars"] = <<Named("proxy")>>, !["initScripts"] = <<"base">>]]

MidSpec ==
  [Empty EXCEPT
     !.inherits = Ref(ClusterKind, "base"),
     !.own = [@ EXCEPT !["storage"] = [size |-> "20Gi", mountPath |-> None], !["network"] = Closed],
     !.harness = [NoHarness EXCEPT !.agent = [AnAgent EXCEPT !.own = [@ EXCEPT !["entrypoint"] = "mid"],
                                                             !.env = <<Pair("M", "mid")>>]],
     !.env = <<Pair("B", "mid"), Pair("C", "mid")>>,
     !.joined = [@ EXCEPT !["credentials"] = <<[secret |-> "s1", as |-> None, path |-> None]>>,
                          !["initContainers"] = <<Named("wait")>>, !["initScripts"] = <<"mid">>]]

LeafSpec ==
  [Empty EXCEPT
     !.inherits = Ref(None, "mid"),
     !.own = [@ EXCEPT !["image"] = Image("leaf"), !["security"] = "privileged"],
     !.account = "leaf",
     !.harness = [NoHarness EXCEPT !.own = [@ EXCEPT !["useHTTPExec"] = "false", !["workingDir"] = "/app"]],
     !.env = <<Pair("A", "leaf")>>,
     !.joined = [@ EXCEPT !["credentials"] = <<[secret |-> "s2", as |-> "file", path |-> "/s2"]>>]]

MCSpecs ==
  [o \in MCObjects |->
     CASE o = Base -> {BaseSpec, [Empty EXCEPT !.inherits = Ref(NamespacedKind, "leaf")]}
       [] o = Mid  -> {MidSpec, [MidSpec EXCEPT !.inherits = None],
                       [Empty EXCEPT !.inherits = Ref(NamespacedKind, "mid"), !.env = <<Pair("A", "mid")>>]}
       [] o = Leaf -> {LeafSpec, [Empty EXCEPT !.inherits = Ref("Pod", "base")]}]

Sandbox(ref) ==
  [ref |-> ref, ns |-> "ns", mode |-> "code", own |-> [f \in Replaced |-> None], account |-> None, env |-> <<>>,
   joined |-> [l \in Joined |-> <<>>]]
MCSandboxes ==
  {Sandbox(None), [Sandbox(Ref(None, "leaf")) EXCEPT !.mode = "agent"],
   [Sandbox(Ref(NamespacedKind, "mid")) EXCEPT
      !.own = [@ EXCEPT !["image"] = Image("own"), !["storage"] = [size |-> "1Gi", mountPath |-> None]],
      !.env = <<Pair("C", "own"), Pair("A", "own")>>, !.account = "own",
      !.joined = [@ EXCEPT !["sidecars"] = <<Named("proxy")>>, !["initContainers"] = <<Named("fetch")>>]],
   [Sandbox(Ref(ClusterKind, "base")) EXCEPT
      !.env = <<Pair("B", "own")>>,
      !.joined = [@ EXCEPT !["sidecars"] = <<Named("log")>>]]}
=============================================================================
