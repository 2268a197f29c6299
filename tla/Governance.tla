----------------------------- MODULE Governance -----------------------------
(* Governance policies (pkg/governance): a policy limits the sandboxes of a *)
(* scope, and the effective policy of a namespace is the cluster's default  *)
(* overridden by the namespace's own.                                       *)
EXTENDS Integers, FiniteSets

CONSTANTS
  Users,
  Names,           \* names of sandboxes, in the one namespace
  Templates,
  AgentTemplates,  \* those whose own mode is agent
  Images,          \* registries an image may come from
  Router,          \* the service account of the Router
  None

ASSUME GovernanceAssumption ==
  /\ IsFiniteSet(Names) /\ AgentTemplates \subseteq Templates
  /\ Router \notin Users /\ None \notin Images \union Names \union Templates \union Nat

Limits == {"cpu", "memory", "storage", "timeout", "idleTimeout"}
Durations == {"timeout", "idleTimeout"}
Scopes == {"cluster", "namespace"}

\* A policy: 0 and {} mean no limit.
Policy ==
  [total : Nat, perUser : Nat, agents : Nat, templates : SUBSET Templates,
   registries : SUBSET Images, agentImages : SUBSET Images,
   limits : [Limits -> Nat], invokes : Nat]
NoPolicy ==
  [total |-> 0, perUser |-> 0, agents |-> 0, templates |-> {}, registries |-> {},
   agentImages |-> {}, limits |-> [l \in Limits |-> 0], invokes |-> 0]
IsEmpty(p) == p = NoPolicy

\* What a sandbox asks for itself, where the duration 0 is for ever.
Asked == [Limits -> Nat \union {None}]
Mode(t) == IF t \in AgentTemplates THEN "agent" ELSE "code"

Override(x, y) == IF y # 0 THEN y ELSE x
OverrideSet(x, y) == IF y # {} THEN y ELSE x

MergePolicies(parent, child) ==
  [parent EXCEPT
     !.total = Override(@, child.total),
     !.perUser = Override(@, child.perUser),
     !.templates = OverrideSet(@, child.templates),
     !.registries = OverrideSet(@, child.registries),
     !.limits = [l \in Limits |-> Override(@[l], child.limits[l])]]

\* What counts against a quota among the sandboxes sbs.
Counts(sbs, n) == sbs[n] # None /\ sbs[n].phase \notin {"Deleting", "Error"}
CountUsage(sbs, user) ==
  [total |-> Cardinality({n \in Names : Counts(sbs, n)}),
   user |-> Cardinality({n \in Names : Counts(sbs, n) /\ sbs[n].owner = user}),
   agents |-> Cardinality({n \in Names : Counts(sbs, n) /\ sbs[n].mode = "agent"})]

Below(cap, used) == cap = 0 \/ used < cap
Allows(list, x) == list = {} \/ x = None \/ x \in list

CheckResourceLimits(p, sb) ==
  \A l \in Limits :
    p.limits[l] # 0 /\ sb.asked[l] # None => sb.asked[l] <= p.limits[l] /\ (l \in Durations => sb.asked[l] # 0)

\* TRUE when no rule is violated.
Check(p, used, sb) ==
  /\ Allows(p.templates, sb.template)
  /\ Allows(p.registries, sb.image)
  /\ Below(p.total, used.total)
  /\ Below(p.perUser, used.user)
  /\ sb.mode = "agent" => Below(p.agents, used.agents) /\ Allows(p.agentImages, sb.image)
  /\ CheckResourceLimits(p, sb)

FitsOneMore(cap, used, n) == cap = 0 \/ used + n <= cap + 1
Fits(cap, used, n) == cap = 0 \/ used + n <= cap
CheckBulk(p, used, n, agents) ==
  /\ Fits(p.total, used.total, n)
  /\ Fits(p.perUser, used.user, n)
  /\ agents > 0 => Fits(p.agents, used.agents, agents)
=============================================================================
