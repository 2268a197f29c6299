------------------------------- MODULE PodSpecs -------------------------------
(* From templates to a pod: the chain of templates a sandbox refers to is   *)
(* read one object at a time (pkg/controller/template_resolver.go), merged  *)
(* with the sandbox's own spec, and built into a pod                        *)
(* (pkg/controller/pod_builder.go) by the reconcile of a sandbox in         *)
(* Creating. Templates may be edited between any two reads.                 *)
EXTENDS Naturals, FiniteSets, SequencesExt

CONSTANTS
  Objects,              \* keys of the templates a user may create
  Specs,                \* the specs a user may write in each of them
  Sandboxes,            \* the specs a sandbox may have
  DefaultImage, MemoryImage,   \* flags of the controller
  MaxInheritanceDepth,
  None

ASSUME DepthAssumption == MaxInheritanceDepth \in Nat \ {0}
VARIABLES
  templates,  \* the templates of the cluster
  sandbox,    \* the spec of the sandbox
  rec,        \* the reconcile: what it has read and built
  agent,      \* status.resolvedAgentSpec
  volume,     \* what the sandbox's volume was claimed with
  policy,     \* the sandbox's NetworkPolicy
  pod         \* the sandbox's pod: whether it holds the tokens of HTTP exec

vars == <<templates, sandbox, rec, agent, volume, policy, pod>>

\* A TemplateReference, and the object it stands for. What a reference leaves
\* out is None.
NamespacedKind == "SandboxTemplate"
ClusterKind == "ClusterSandboxTemplate"
Object(ref) ==
  IF ref.kind = ClusterKind THEN [kind |-> ClusterKind, ns |-> None, name |-> ref.name]
  ELSE [kind |-> IF ref.kind = None THEN NamespacedKind ELSE ref.kind,
        ns   |-> IF ref.ns = None THEN sandbox.ns ELSE ref.ns, name |-> ref.name]

\* SandboxTemplateSpec: fields a nearer spec replaces, the account, the
\* harness, env and files with a key each, and lists that are joined. A harness
\* that is not there sets nothing; of an agent that sets nothing it is kept
\* whether it is given.
Replaced == {"image", "resources", "storage", "network", "runtimeClass", "security"}
HarnessReplaced == {"command", "args", "workingDir", "shell", "systemPrompt", "hooks", "constraints", "useHTTPExec"}
AgentReplaced == {"entrypoint", "installCommand", "workingDir", "maxConcurrentInvokes", "defaultInvokeTimeout"}
Joined == {"sidecars", "initContainers", "credentials", "initScripts"}

IsList(x) == x \in Seq(ToSet(x))
IsSpec(s) ==
  /\ DOMAIN s.own = Replaced /\ DOMAIN s.harness.own = HarnessReplaced /\ DOMAIN s.harness.agent.own = AgentReplaced
  /\ s.harness.agent.given \in BOOLEAN
  /\ ~s.harness.agent.given => \A f \in AgentReplaced : s.harness.agent.own[f] = None
  /\ DOMAIN s.joined = Joined /\ IsList(s.env) /\ \A l \in Joined : IsList(s.joined[l])

\* What users write.
ASSUME SpecsAssumption ==
  /\ DOMAIN Specs = Objects /\ \A o \in Objects : None \notin Specs[o] /\ \A s \in Specs[o] : IsSpec(s)
  /\ \A b \in Sandboxes : /\ DOMAIN b.own = Replaced /\ DOMAIN b.joined = Joined
                          /\ IsList(b.env) /\ \A l \in Joined : IsList(b.joined[l])

\* An entry of the chain: the object and the spec read from it.
Entry == [key : Objects, spec : UNION {Specs[o] : o \in Objects}]

\* A template that sets nothing.
NoAgent == [given |-> FALSE, own |-> [f \in AgentReplaced |-> None], env |-> <<>>]
NoHarness == [own |-> [f \in HarnessReplaced |-> None], agent |-> NoAgent, tools |-> <<>>, skills |-> <<>>]
Bare ==
  [inherits |-> None, account |-> None, own |-> [f \in Replaced |-> None], harness |-> NoHarness,
   env |-> <<>>, files |-> <<>>, joined |-> [l \in Joined |-> <<>>]]

Idle == [pc |-> "idle", ref |-> None, visited |-> {}, chain |-> <<>>, template |-> Bare, config |-> None]

Init ==
  /\ templates \in [Objects -> {None}]
  /\ sandbox \in Sandboxes
  /\ rec = Idle /\ agent = None /\ volume = None /\ policy = None /\ pod = None

----------------------------------------------------------------------------
(* Merging two specs.                                                       *)

Overlay(parent, child) ==
  [f \in DOMAIN parent |-> IF child[f] # None THEN child[f] ELSE parent[f]]

\* The first pair of each key, in order, with the last value of the key.
KeysOf(s) == {s[i].key : i \in DOMAIN s}
LastOf(s, k) == s[CHOOSE i \in DOMAIN s : s[i].key = k /\ \A j \in DOMAIN s : s[j].key = k => j <= i]
Dedupe(s) ==
  LET IsFirst(i) == \A j \in 1..(i - 1) : s[j].key # s[i].key
  IN FlattenSeq([i \in DOMAIN s |-> IF IsFirst(i) THEN <<LastOf(s, s[i].key)>> ELSE <<>>])
MergeKeyed(parent, child) ==
  IF child = <<>> THEN parent ELSE IF parent = <<>> THEN child ELSE Dedupe(parent \o child)

MergeAgent(parent, child) ==
  [given |-> parent.given \/ child.given,
   own   |-> Overlay(parent.own, child.own), env |-> MergeKeyed(parent.env, child.env)]

MergeHarness(parent, child) ==
  [own    |-> Overlay(parent.own, child.own),
   agent  |-> MergeAgent(parent.agent, child.agent),
   tools  |-> parent.tools \o child.tools,
   skills |-> parent.skills \o child.skills]

\* The account stays the parent's.
MergeTemplates(parent, child) ==
  [inherits |-> parent.inherits, account |-> parent.account,
   own      |-> Overlay(parent.own, child.own),
   harness  |-> MergeHarness(parent.harness, child.harness),
   env      |-> MergeKeyed(parent.env, child.env),
   files    |-> MergeKeyed(parent.files, child.files),
   joined   |-> [l \in Joined |-> parent.joined[l] \o child.joined[l]]]

\* From the root of the chain to the template the sandbox refers to.
MergeChain(chain) ==
  LET merged[i \in DOMAIN chain] ==
        IF i = 1 THEN chain[1].spec ELSE MergeTemplates(merged[i - 1], chain[i].spec)
  IN merged[Len(chain)]

----------------------------------------------------------------------------
(* Merging the sandbox's spec with the templates'.                          *)

MemorySidecar == [name |-> "mem0", image |-> MemoryImage]
MemoryEnv == [key |-> "MEM0_BASE_URL", val |-> "mem0"]
HasMemory == MemoryImage # None /\ sandbox.mode = "agent"

MountPath(template) ==
  IF sandbox.own["storage"] # None /\ sandbox.own["storage"].mountPath # None THEN sandbox.own["storage"].mountPath
  ELSE IF template.own["storage"] # None /\ template.own["storage"].mountPath # None
       THEN template.own["storage"].mountPath ELSE "/workspace"

Lists(template) == [l \in Joined |-> template.joined[l] \o sandbox.joined[l]]

\* MergedPodConfig. Files and init scripts are the template's alone.
Config(template) ==
  LET own == Overlay(template.own, sandbox.own)
      lists == Lists(template)
      env == MergeKeyed(template.env, sandbox.env)
      h == template.harness.own
  IN [image      |-> IF own["image"] # None THEN own["image"].repository ELSE DefaultImage,
      pullSecret |-> IF own["image"] # None THEN own["image"].pullSecret ELSE None,
      resources  |-> own["resources"], storage |-> own["storage"], network |-> own["network"],
      runtimeClass |-> own["runtimeClass"], privileged |-> own["security"] = "privileged",
      mountPath  |-> MountPath(template),
      account    |-> IF sandbox.account # None THEN sandbox.account ELSE template.account,
      command    |-> h["command"], args |-> h["args"], workingDir |-> h["workingDir"],
      httpExec   |-> h["useHTTPExec"] = "true",
      env        |-> IF HasMemory THEN MergeKeyed(env, <<MemoryEnv>>) ELSE env,
      sidecars   |-> IF HasMemory THEN Append(lists["sidecars"], MemorySidecar) ELSE lists["sidecars"],
      initContainers |-> lists["initContainers"], credentials |-> lists["credentials"],
      initScripts |-> template.joined["initScripts"], files |-> template.files]

----------------------------------------------------------------------------
(* The pod of a configuration.                                              *)

Workspace == [kind |-> "workspace", of |-> None]
Tmp == [kind |-> "tmp", of |-> None]
Cred(secret) == [kind |-> "cred", of |-> secret]
Mount(vol, path) == [volume |-> vol, path |-> path]
WorkMount(c) == Mount(Workspace, c.mountPath)
TmpMount == Mount(Tmp, "/tmp")

Over(s, F(_)) == [i \in DOMAIN s |-> F(s[i])]
Those(s, Test(_)) == FlattenSeq(Over(s, LAMBDA x : IF Test(x) THEN <<x>> ELSE <<>>))
AsFile(c) == Those(c.credentials, LAMBDA r : r.as = "file")
AsEnv(c) == Those(c.credentials, LAMBDA r : r.as \in {"env", None})

\* The token and the key of the sandbox, from its Secrets.
TokenNames == {"AGENTTIER_RUNTIME_TOKEN", "AGENTTIER_SANDBOX_API_KEY"}
Tokens(c) == IF c.httpExec THEN TokenNames ELSE {}

Main(c) ==
  [name   |-> "sandbox",
   image  |-> IF c.image = None THEN DefaultImage ELSE c.image,
   mounts |-> <<WorkMount(c), TmpMount>> \o
              Over(Those(AsFile(c), LAMBDA r : r.path # None), LAMBDA r : Mount(Cred(r.secret), r.path)),
   env |-> c.env, envFrom |-> Over(AsEnv(c), LAMBDA r : r.secret), tokens |-> Tokens(c),
   command |-> c.command, args |-> c.args, resources |-> c.resources, privileged |-> c.privileged,
   workingDir |-> IF c.workingDir = None THEN c.mountPath ELSE c.workingDir]

\* The volumes of the pod, and again those of the file credentials.
CredVolumes(c) == Over(AsFile(c), LAMBDA r : Cred(r.secret))
Volumes(c) == <<Workspace, Tmp>> \o CredVolumes(c)

Plain(container) == [name |-> container.name, image |-> container.image, mounts |-> <<>>]
FileDeployer(c) == [name |-> "file-deployer", image |-> c.image, mounts |-> <<WorkMount(c), TmpMount>>]
ScriptRunnerSameName(c) == [name |-> "file-deployer", image |-> c.image, mounts |-> <<WorkMount(c), TmpMount>>]
ScriptRunner(c) == [name |-> "init-scripts", image |-> c.image, mounts |-> <<WorkMount(c), TmpMount>>]

Inits(c) ==
  <<[name |-> "fix-permissions", image |-> c.image, mounts |-> <<WorkMount(c)>>]>>
  \o (IF c.files = <<>> THEN <<>> ELSE <<FileDeployer(c)>>)
  \o (IF c.initScripts = <<>> THEN <<>> ELSE <<ScriptRunner(c)>>)
  \o Over(c.initContainers, Plain)

Build(c) ==
  [main |-> Main(c), sidecars |-> Over(c.sidecars, Plain), inits |-> Inits(c),
   volumes |-> Volumes(c) \o CredVolumes(c),
   runtimeClass |-> c.runtimeClass, account |-> c.account, pullSecret |-> c.pullSecret]

\* What the API server asks of a pod.
ContainersOf(p) ==
  LET plain(k) == [name |-> k.name, image |-> k.image, mounts |-> k.mounts]
  IN <<plain(p.main)>> \o p.sidecars \o p.inits
NamesDiffer(p) == IsInjective(Over(ContainersOf(p), LAMBDA k : k.name))
Mounted(p) == \A k \in ToSet(ContainersOf(p)) : \A n \in ToSet(k.mounts) : n.volume \in ToSet(p.volumes)
Accepted(p) ==
  /\ NamesDiffer(p) /\ Mounted(p) /\ IsInjective(p.volumes)
  /\ \A k \in ToSet(ContainersOf(p)) : k.image # None /\ IsInjective(Over(k.mounts, LAMBDA n : n.path))

----------------------------------------------------------------------------
(* The NetworkPolicy of a sandbox. No peers or no ports stand for all.      *)

Allow(peers, ports) == [peers |-> peers, ports |-> ports]
DnsRule == Allow({}, {"53"})
RouterRule == Allow({"router"}, {"9000"})
PeerRule == Allow({"peer"}, {})
Cidr(r) == IF r.cidr = None THEN {} ELSE {r.cidr}
EgressRule(r) == Allow(Cidr(r) \union (IF r.service = None THEN {} ELSE {"anyPod"}), r.ports)
IngressRule(r) == Allow(Cidr(r), r.ports)

\* The user's rules: with allowInternet, no other rule is read.
UserEgress(n) ==
  IF n = None THEN {} ELSE IF n.internet THEN {Allow({}, {})}
  ELSE {EgressRule(r) : r \in n.egress} \union (IF n.peers THEN {PeerRule} ELSE {})
UserIngress(n) ==
  IF n = None \/ n.internet THEN {}
  ELSE {IngressRule(r) : r \in n.ingress} \union (IF n.peers THEN {PeerRule} ELSE {})

PolicyReturnsEarly(n, httpExec) ==
  [egress  |-> {DnsRule} \union UserEgress(n),
   ingress |-> UserIngress(n) \union (IF httpExec /\ n # None /\ ~n.internet THEN {RouterRule} ELSE {})]
Policy(n, httpExec) ==
  [egress  |-> {DnsRule} \union UserEgress(n),
   ingress |-> UserIngress(n) \union (IF httpExec THEN {RouterRule} ELSE {})]

\* The size a volume is claimed with.
Claim(storage) == [size |-> IF storage = None \/ storage.size = None THEN "10Gi" ELSE storage.size]

\* A nil pointer is no object, and the Router's peer no range of addresses.
Given(f) == {s.own[f] : s \in (UNION {Specs[o] : o \in Objects}) \union Sandboxes}
ASSUME NoneAssumption ==
  /\ None \notin {Claim(z) : z \in Given("storage") \union {None}}
  /\ None \notin {Policy(n, h) : n \in Given("network") \union {None}, h \in BOOLEAN}
  /\ \A n \in Given("network") \ {None} : \A r \in n.ingress : r.cidr # "router"

----------------------------------------------------------------------------
(* The reconcile.                                                           *)

objects == <<agent, volume, policy, pod>>

Begin ==
  /\ rec.pc = "idle"
  /\ rec' = IF sandbox.ref = None THEN [Idle EXCEPT !.pc = "merge"]
            ELSE [Idle EXCEPT !.pc = "fetch", !.ref = sandbox.ref]
  /\ UNCHANGED <<templates, sandbox, objects>>

Failed == [Idle EXCEPT !.pc = "error"]

\* One call of resolveChain up to its recursive call: too deep, seen before,
\* missing, or one more entry at the front of the chain. At the root of it the
\* chain is merged.
Resolvable(ref) ==
  /\ Len(rec.chain) < MaxInheritanceDepth /\ ref \notin rec.visited
  /\ Object(ref) \in Objects /\ templates[Object(ref)] # None

Extend ==
  LET o == Object(rec.ref)
      s == templates[o]
      chain == <<[key |-> o, spec |-> s]>> \o rec.chain
      whole == s.inherits = None
  IN [rec EXCEPT !.visited = @ \union {rec.ref}, !.chain = chain, !.ref = s.inherits,
                 !.template = IF whole THEN MergeChain(chain) ELSE @, !.pc = IF whole THEN "merge" ELSE "fetch"]

FetchWaits ==
  /\ rec.pc = "fetch" /\ Resolvable(rec.ref)
  /\ rec' = Extend
  /\ UNCHANGED <<templates, sandbox, objects>>
FetchCuts ==
  /\ rec.pc = "fetch"
  /\ rec' = IF Resolvable(rec.ref) THEN Extend
            ELSE IF Len(rec.chain) >= MaxInheritanceDepth THEN [rec EXCEPT !.pc = "merge"] ELSE Failed
  /\ UNCHANGED <<templates, sandbox, objects>>
Fetch ==
  /\ rec.pc = "fetch"
  /\ \/ rec' = Failed
     \/ Resolvable(rec.ref) /\ rec' = Extend
  /\ UNCHANGED <<templates, sandbox, objects>>

\* The agent the Router is to run, kept when the templates no longer name one.
AgentSpec == IF rec.template.harness.agent.given THEN rec.template.harness.agent ELSE agent

\* transitionToError writes the status with what the pass put in it.
Abort ==
  /\ rec' = Failed /\ agent' = AgentSpec
  /\ UNCHANGED <<templates, sandbox, volume, policy, pod>>

\* The merge, and the two Secrets of HTTP exec.
Merge ==
  /\ rec.pc = "merge"
  /\ \/ Abort
     \/ /\ rec' = [rec EXCEPT !.pc = "volume", !.config = Config(rec.template)]
        /\ UNCHANGED <<templates, sandbox, objects>>

\* PVCBuilder.Build and ensurePVC: an existing volume is kept as it is.
EnsureVolume ==
  /\ rec.pc = "volume"
  /\ \/ Abort
     \/ /\ rec' = [rec EXCEPT !.pc = "isolate"]
        /\ volume' = IF volume # None THEN volume ELSE Claim(rec.config.storage)
        /\ UNCHANGED <<templates, sandbox, agent, policy, pod>>

\* An existing policy is given the rules of this pass.
IsolateIgnoresError ==
  /\ rec.pc = "isolate"
  /\ rec' = [rec EXCEPT !.pc = "create"]
  /\ policy' \in {policy, Policy(rec.config.network, rec.config.httpExec)}
  /\ UNCHANGED <<templates, sandbox, agent, volume, pod>>
Isolate ==
  /\ rec.pc = "isolate"
  /\ \/ Abort
     \/ /\ rec' = [rec EXCEPT !.pc = "create"]
        /\ policy' = Policy(rec.config.network, rec.config.httpExec)
        /\ UNCHANGED <<templates, sandbox, agent, volume, pod>>

\* An existing pod is left as it is; the status is written once it is ready.
CreatePod ==
  /\ rec.pc = "create"
  /\ \/ /\ pod # None /\ rec' = [Idle EXCEPT !.pc = "waiting"]
        /\ UNCHANGED agent \/ agent' = AgentSpec
        /\ UNCHANGED <<templates, sandbox, volume, policy, pod>>
     \/ pod = None /\ Abort
     \/ /\ pod = None /\ Accepted(Build(rec.config))
        /\ pod' = [tokens |-> Tokens(rec.config)] /\ agent' = AgentSpec
        /\ rec' = [Idle EXCEPT !.pc = "waiting"]
        /\ UNCHANGED <<templates, sandbox, volume, policy>>

\* The next reconcile while the pod starts, or after a resume.
Requeue ==
  /\ rec.pc \in {"waiting", "error"}
  /\ rec' = Idle
  /\ UNCHANGED <<templates, sandbox, objects>>

\* The sandbox is stopped, or its pod deleted.
LosePod ==
  /\ pod # None /\ pod' = None
  /\ UNCHANGED <<templates, sandbox, rec, agent, volume, policy>>

EditTemplate ==
  /\ \E o \in Objects : \E s \in Specs[o] \union {None} :
        templates[o] # s /\ templates' = [templates EXCEPT ![o] = s]
  /\ UNCHANGED <<sandbox, rec, objects>>

Reconcile == Begin \/ Fetch \/ Merge \/ EnsureVolume \/ Isolate \/ CreatePod
Next == Reconcile \/ Requeue \/ LosePod \/ EditTemplate

Spec == Init /\ [][Next]_vars /\ WF_vars(Reconcile)

----------------------------------------------------------------------------
(* Properties.                                                              *)

\* Values have their types, and a pass reads no more templates than the depth
\* allows, each under another reference (template_resolver.go:86-95).
TypeOK ==
  /\ DOMAIN templates = Objects /\ \A o \in Objects : templates[o] \in Specs[o] \union {None}
  /\ \A o \in Objects : templates[o] # None => IsSpec(templates[o])
  /\ sandbox \in Sandboxes /\ pod \in {None} \union [tokens : SUBSET TokenNames]
  /\ rec.pc \in {"idle", "fetch", "merge", "volume", "isolate", "create", "waiting", "error"}
  /\ rec.chain \in Seq(Entry)
  /\ Len(rec.chain) <= MaxInheritanceDepth /\ Cardinality(rec.visited) = Len(rec.chain)
  /\ agent # None => DOMAIN agent.own = AgentReplaced

Chain == rec.chain

\* A pod is only built from a whole chain: from the template the sandbox refers
\* to up to one that inherits from none, whatever was edited while it was read
\* (template_resolver.go:86-121).
WholeChain ==
  rec.pc = "create" =>
    IF sandbox.ref = None THEN Chain = <<>>
    ELSE /\ Chain # <<>> /\ Chain[Len(Chain)].key = Object(sandbox.ref)
         /\ Head(Chain).spec.inherits = None
         /\ \A i \in 2..Len(Chain) : Chain[i - 1].key = Object(Chain[i].spec.inherits)

\* The value nearest to the sandbox among those given, the sandbox's own last.
Nearest(values) ==
  LET given == {i \in DOMAIN values : values[i] # None}
  IN IF given = {} THEN None ELSE values[Max(given)]
OwnOf(f) == [i \in DOMAIN Chain |-> Chain[i].spec.own[f]] \o <<sandbox.own[f]>>
HarnessOf(f) == [i \in DOMAIN Chain |-> Chain[i].spec.harness.own[f]]
AgentOf(f) == [i \in DOMAIN Chain |-> Chain[i].spec.harness.agent.own[f]]
EnvOf == FlattenSeq([i \in DOMAIN Chain |-> Chain[i].spec.env]) \o sandbox.env
         \o (IF HasMemory THEN <<MemoryEnv>> ELSE <<>>)

\* The sandbox's spec overrides its template's, that its parent's, that the
\* defaults, one field at a time, at every depth (docs/docs/features.md:22,
\* templates.md:66-70); the account alone is excepted.
NearestWins ==
  rec.pc = "create" =>
    /\ rec.config.image = IF Nearest(OwnOf("image")) = None THEN DefaultImage ELSE Nearest(OwnOf("image")).repository
    /\ \A f \in {"resources", "storage", "network", "runtimeClass"} : rec.config[f] = Nearest(OwnOf(f))
    /\ \A f \in {"command", "args", "workingDir"} : rec.config[f] = Nearest(HarnessOf(f))
    /\ rec.config.httpExec = (Nearest(HarnessOf("useHTTPExec")) = "true")
    /\ rec.config.privileged = (Nearest(OwnOf("security")) = "privileged")
    /\ \A f \in AgentReplaced : Nearest(AgentOf(f)) # None => AgentSpec.own[f] = Nearest(AgentOf(f))
    /\ KeysOf(rec.config.env) = KeysOf(EnvOf)
    /\ \A k \in KeysOf(EnvOf) : LastOf(rec.config.env, k) = LastOf(EnvOf, k)

\* Containers, credentials and scripts add up, the root's first and the
\* sandbox's last, none lost and none twice (template_resolver.go:236-246).
AdditiveInOrder ==
  rec.pc = "create" =>
    LET all(l) == FlattenSeq([i \in DOMAIN Chain |-> Chain[i].spec.joined[l]])
    IN /\ rec.config.sidecars = all("sidecars") \o sandbox.joined["sidecars"]
                                 \o (IF HasMemory THEN <<MemorySidecar>> ELSE <<>>)
       /\ \A l \in {"initContainers", "credentials"} : rec.config[l] = all(l) \o sandbox.joined[l]
       /\ rec.config.initScripts = all("initScripts")

\* A pod means what its whole chain of templates and its sandbox say.
PodMeansSpecs == TypeOK /\ WholeChain /\ NearestWins /\ AdditiveInOrder

\* Every mount of the pod, a credential's too, names a volume of the pod: the
\* two are built by different functions (pod_builder.go:239-247, :345-356).
MountsHaveVolumes == rec.pc = "create" => Mounted(Build(rec.config))

\* The builder's own containers never clash with each other; a pod without
\* file credentials is accepted unless its inputs clash (pod_builder.go:363-398).
Reserved == {"sandbox", "fix-permissions", "file-deployer", "init-scripts", "mem0"}
AcceptedUnlessInputsClash ==
  rec.pc = "create" =>
    LET c == rec.config
        given == FlattenSeq([i \in DOMAIN Chain |-> Chain[i].spec.joined["sidecars"] \o Chain[i].spec.joined["initContainers"]])
                 \o sandbox.joined["sidecars"] \o sandbox.joined["initContainers"]
        names == Over(given, LAMBDA k : k.name)
    IN /\ AsFile(c) = <<>> /\ c.image # None /\ c.mountPath # "/tmp"
       /\ IsInjective(names) /\ ToSet(names) \intersect Reserved = {} /\ \A k \in ToSet(given) : k.image # None
       => Accepted(Build(c))

\* What the builder makes is a pod.
PodIsAccepted == MountsHaveVolumes /\ AcceptedUnlessInputsClash

Admits(rules, peer, port) ==
  \E r \in rules : (r.peers = {} \/ peer \in r.peers) /\ (r.ports = {} \/ port \in r.ports)
Matches(r, peers, peer, port) ==
  (peers = {} \/ peer \in peers) /\ (r.ports = {} \/ port \in r.ports)
CidrsOf(n) == UNION {Cidr(r) : r \in n.egress \union n.ingress}
PortsOf(n) == UNION {r.ports : r \in n.egress \union n.ingress}

\* Whichever return of the builder is taken, traffic is let through exactly
\* when it is DNS, the Router's over HTTP exec, or asked for by the spec
\* (networkpolicy.go:38-52, :84-130).
PolicyMeansSpec ==
  rec.pc = "isolate" =>
    LET n == rec.config.network
        built == Policy(n, rec.config.httpExec)
        peers == {"router", "anyPod", "peer", "world"} \union (IF n = None THEN {} ELSE CidrsOf(n))
        ports == {"53", "80", "9000"} \union (IF n = None THEN {} ELSE PortsOf(n))
        open == n # None /\ n.internet
        joined(p) == n # None /\ ~open /\ n.peers /\ p = "peer"
    IN \A p \in peers : \A t \in ports :
         /\ Admits(built.egress, p, t) <=>
              \/ t = "53" \/ open
              \/ joined(p)
              \/ n # None /\ \E r \in n.egress :
                   Matches(r, Cidr(r) \union (IF r.service = None THEN {} ELSE {"anyPod"}), p, t)
         /\ Admits(built.ingress, p, t) <=>
              \/ p = "router" /\ t = "9000" /\ rec.config.httpExec
              \/ joined(p)
              \/ n # None /\ ~open /\ \E r \in n.ingress : Matches(r, Cidr(r), p, t)

\* A pod comes last: its volume is there, and the policy lets the Router reach
\* the runtime in it just when it holds the token, though both were written by
\* earlier steps, or by earlier passes from templates edited since
\* (sandbox_controller.go:349-418).
PodComesLast ==
  [][pod = None /\ pod' # None =>
       volume # None /\ policy # None
       /\ (RouterRule \in policy.ingress <=> pod'.tokens # {})]_vars

\* Whatever templates are written meanwhile, cycles among them included, the
\* reading of a chain ends and the pass with it (template_resolver.go:87-95).
PassEnds == rec.pc = "fetch" ~> rec.pc \in {"waiting", "error"}
=============================================================================
