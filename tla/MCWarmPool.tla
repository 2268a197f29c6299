----------------------------- MODULE MCWarmPool -----------------------------
(* Instances of WarmPool for TLC: its configurations, as an admin edits them. *)
EXTENDS WarmPool, TLC

CONSTANT t1

\* One template, warmed and switched off.
TwoThenOff == {{<<t1, 2>>}, {<<t1, 0>>}}

\* One template, switched on and off.
OnOff == {{<<t1, 1>>}, {<<t1, 0>>}, {}}

Symmetric == Permutations(Sandboxes) \union Permutations(PodNames)
=============================================================================
