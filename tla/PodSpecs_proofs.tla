--------------------------- MODULE PodSpecs_proofs ---------------------------
(***************************************************************************)
(* Proofs about PodSpecs: a pod is built from a whole chain of templates,  *)
(* and means what they say; the policy means its spec, and is there, with  *)
(* the volume, before the pod.                                             *)
(***************************************************************************)
EXTENDS PodSpecs, Sums, SequenceTheorems

-----------------------------------------------------------------------------
(* The policy.                                                             *)

\* A set of rules admits what one of them does.
LEMMA AdmitsLaw ==
  ASSUME NEW p, NEW t
  PROVE  /\ \A A, B : Admits(A \union B, p, t) <=> Admits(A, p, t) \/ Admits(B, p, t)
         /\ \A peers, ports : Admits({Allow(peers, ports)}, p, t) <=>
              (peers = {} \/ p \in peers) /\ (ports = {} \/ t \in ports)
         /\ ~Admits({}, p, t)
<1>1. \A A, B : Admits(A \union B, p, t) <=> Admits(A, p, t) \/ Admits(B, p, t)
  BY DEF Admits
<1>2. \A peers, ports : Allow(peers, ports).peers = peers /\ Allow(peers, ports).ports = ports
  BY DEF Allow
<1>3. \A peers, ports : Admits({Allow(peers, ports)}, p, t) <=>
        (peers = {} \/ p \in peers) /\ (ports = {} \/ t \in ports)
  BY <1>2 DEF Admits
<1> QED BY <1>1, <1>3 DEF Admits

\* The rules of a list admit what one of them matches.
LEMMA RulesLaw ==
  ASSUME NEW p, NEW t, NEW S
  PROVE  /\ Admits({EgressRule(r) : r \in S}, p, t) <=>
              \E r \in S : Matches(r, Cidr(r) \union (IF r.service = None THEN {} ELSE {"anyPod"}), p, t)
         /\ Admits({IngressRule(r) : r \in S}, p, t) <=> \E r \in S : Matches(r, Cidr(r), p, t)
<1>1. \A peers, ports : Allow(peers, ports).peers = peers /\ Allow(peers, ports).ports = ports
  BY DEF Allow
<1>2. \A r : EgressRule(r).peers = Cidr(r) \union (IF r.service = None THEN {} ELSE {"anyPod"}) /\ EgressRule(r).ports = r.ports
  BY <1>1 DEF EgressRule
<1>3. \A r : IngressRule(r).peers = Cidr(r) /\ IngressRule(r).ports = r.ports
  BY <1>1 DEF IngressRule
<1>4. Admits({EgressRule(r) : r \in S}, p, t) <=>
        \E r \in S : Matches(r, Cidr(r) \union (IF r.service = None THEN {} ELSE {"anyPod"}), p, t)
  BY <1>2 DEF Admits, Matches
<1>5. Admits({IngressRule(r) : r \in S}, p, t) <=> \E r \in S : Matches(r, Cidr(r), p, t)
  BY <1>3 DEF Admits, Matches
<1> QED BY <1>4, <1>5

\* Whichever return the builder takes, what is admitted is what the spec asks for.
LEMMA PolicyLaw ==
  ASSUME NEW n, NEW h \in BOOLEAN, NEW p, NEW t
  PROVE  LET open == n # None /\ n.internet
             joined == n # None /\ ~open /\ n.peers /\ p = "peer"
         IN /\ Admits(Policy(n, h).egress, p, t) <=>
                 \/ t = "53"
                 \/ open
                 \/ joined
                 \/ n # None /\ \E r \in n.egress :
                      Matches(r, Cidr(r) \union (IF r.service = None THEN {} ELSE {"anyPod"}), p, t)
            /\ Admits(Policy(n, h).ingress, p, t) <=>
                 \/ p = "router" /\ t = "9000" /\ h
                 \/ joined
                 \/ n # None /\ ~open /\ \E r \in n.ingress : Matches(r, Cidr(r), p, t)
<1> DEFINE open == n # None /\ n.internet
           joined == n # None /\ ~open /\ n.peers /\ p = "peer"
           out == \E r \in n.egress : Matches(r, Cidr(r) \union (IF r.service = None THEN {} ELSE {"anyPod"}), p, t)
           in == \E r \in n.ingress : Matches(r, Cidr(r), p, t)
           all(x) == Admits(x, p, t)
<1>1. Policy(n, h).egress = {DnsRule} \union UserEgress(n)
      /\ Policy(n, h).ingress = UserIngress(n) \union (IF h THEN {RouterRule} ELSE {})
  BY DEF Policy
<1>2. all({DnsRule}) <=> t = "53"
  <2>1. all({Allow({}, {"53"})}) <=> ({} = {} \/ p \in {}) /\ ({"53"} = {} \/ t \in {"53"})
    BY AdmitsLaw, Zenon
  <2> QED BY <2>1 DEF DnsRule
<1>3. all({RouterRule}) <=> p = "router" /\ t = "9000"
  <2>1. all({Allow({"router"}, {"9000"})}) <=>
          ({"router"} = {} \/ p \in {"router"}) /\ ({"9000"} = {} \/ t \in {"9000"})
    BY AdmitsLaw, Zenon
  <2> QED BY <2>1 DEF RouterRule
<1>4. all({PeerRule}) <=> p = "peer"
  <2>1. all({Allow({"peer"}, {})}) <=> ({"peer"} = {} \/ p \in {"peer"}) /\ ({} = {} \/ t \in {})
    BY AdmitsLaw, Zenon
  <2> QED BY <2>1 DEF PeerRule
<1>5. all({Allow({}, {})})
  BY AdmitsLaw
<1>6. (all({EgressRule(r) : r \in n.egress}) <=> out) /\ (all({IngressRule(r) : r \in n.ingress}) <=> in)
  BY RulesLaw
<1>7. all(UserEgress(n)) <=> open \/ joined \/ (n # None /\ ~open /\ out)
  <2>1. CASE n = None
    BY <2>1, AdmitsLaw DEF UserEgress
  <2>2. CASE n # None /\ n.internet
    BY <2>2, <1>5 DEF UserEgress
  <2>3. CASE n # None /\ ~n.internet /\ n.peers
    <3>1. UserEgress(n) = {EgressRule(r) : r \in n.egress} \union {PeerRule}
      BY <2>3 DEF UserEgress
    <3>2. all(UserEgress(n)) <=> all({EgressRule(r) : r \in n.egress}) \/ all({PeerRule})
      BY <3>1, AdmitsLaw
    <3> HIDE DEF all, out
    <3> QED BY <2>3, <3>2, <1>4, <1>6
  <2>4. CASE n # None /\ ~n.internet /\ ~n.peers
    <3>1. UserEgress(n) = {EgressRule(r) : r \in n.egress} \union {}
      BY <2>4 DEF UserEgress
    <3>2. all(UserEgress(n)) <=> all({EgressRule(r) : r \in n.egress}) \/ all({})
      BY <3>1, AdmitsLaw
    <3>3. ~all({})
      BY AdmitsLaw
    <3> HIDE DEF all, out
    <3> QED BY <2>4, <3>2, <3>3, <1>6
  <2> QED BY <2>1, <2>2, <2>3, <2>4
<1>8. all(UserIngress(n)) <=> joined \/ (n # None /\ ~open /\ in)
  <2>1. CASE n = None \/ n.internet
    BY <2>1, AdmitsLaw DEF UserIngress
  <2>2. CASE n # None /\ ~n.internet /\ n.peers
    <3>1. UserIngress(n) = {IngressRule(r) : r \in n.ingress} \union {PeerRule}
      BY <2>2 DEF UserIngress
    <3> QED BY <2>2, <3>1, <1>4, <1>6, AdmitsLaw
  <2>3. CASE n # None /\ ~n.internet /\ ~n.peers
    <3>1. UserIngress(n) = {IngressRule(r) : r \in n.ingress} \union {}
      BY <2>3 DEF UserIngress
    <3> QED BY <2>3, <3>1, <1>6, AdmitsLaw
  <2> QED BY <2>1, <2>2, <2>3
<1>9. all(Policy(n, h).egress) <=> t = "53" \/ open \/ joined \/ (n # None /\ out)
  <2>1. all(Policy(n, h).egress) <=> all({DnsRule}) \/ all(UserEgress(n))
    BY <1>1, AdmitsLaw
  <2> HIDE DEF all, out
  <2> QED BY <2>1, <1>2, <1>7
<1>10. all(Policy(n, h).ingress) <=> (p = "router" /\ t = "9000" /\ h) \/ joined \/ (n # None /\ ~open /\ in)
  <2>1. CASE h
    <3>1. all(Policy(n, h).ingress) <=> all(UserIngress(n)) \/ all({RouterRule})
      BY <1>1, <2>1, AdmitsLaw
    <3> HIDE DEF all, in
    <3> QED BY <2>1, <3>1, <1>3, <1>8
  <2>2. CASE ~h
    <3>1. all(Policy(n, h).ingress) <=> all(UserIngress(n)) \/ all({})
      BY <1>1, <2>2, AdmitsLaw
    <3>2. ~all({})
      BY AdmitsLaw
    <3> HIDE DEF all, in
    <3> QED BY <2>2, <3>1, <3>2, <1>8
  <2> QED BY <2>1, <2>2
<1> QED BY <1>9, <1>10
-----------------------------------------------------------------------------
(* Lists.                                                                  *)

\* A sequence of anything is a list, and a function on 1..n is one of length n.
LEMMA ListLaw == ASSUME NEW x, IsList(x) PROVE x \in Seq(ToSet(x)) /\ Len(x) \in Nat /\ DOMAIN x = 1..Len(x)
<1>1. x \in Seq(ToSet(x))
  BY DEF IsList
<1> QED BY <1>1, LenProperties

LEMMA FunctionIsList ==
  ASSUME NEW x, NEW n \in Nat, x = [i \in 1..n |-> x[i]]
  PROVE  IsList(x) /\ Len(x) = n /\ DOMAIN x = 1..n
<1>1. DOMAIN x = 1..n
  OBVIOUS
<1>2. x \in [1..n -> ToSet(x)]
  BY <1>1 DEF ToSet
<1>3. x \in Seq(ToSet(x))
  BY <1>2, SeqDef
<1>4. Len(x) = n
  BY <1>1, <1>3, LenProperties
<1> QED BY <1>1, <1>3, <1>4 DEF IsList

LEMMA SeqIsList == ASSUME NEW S, NEW x \in Seq(S) PROVE IsList(x)
<1>1. Len(x) \in Nat /\ x \in [1..Len(x) -> S]
  BY LenProperties
<1>2. x = [i \in 1..Len(x) |-> x[i]]
  BY <1>1
<1> QED BY <1>1, <1>2, FunctionIsList

LEMMA EmptyIsList == IsList(<<>>) /\ Len(<<>>) = 0 /\ DOMAIN <<>> = {} /\ ToSet(<<>>) = {}
<1>1. IsList(<<>>)
  BY EmptySeq, SeqIsList
<1>2. DOMAIN <<>> = 1..0
  BY <1>1, EmptySeq, ListLaw
<1>3. 1..0 = {}
  OBVIOUS
<1> QED BY <1>1, <1>2, <1>3, EmptySeq DEF ToSet

LEMMA EmptyList == ASSUME NEW x, IsList(x), Len(x) = 0 PROVE x = <<>>
BY EmptySeq, ListLaw

LEMMA OneIsList == ASSUME NEW a PROVE IsList(<<a>>) /\ Len(<<a>>) = 1 /\ <<a>>[1] = a /\ ToSet(<<a>>) = {a}
<1>1. <<a>> \in Seq({a}) /\ Len(<<a>>) = 1 /\ <<a>>[1] = a
  OBVIOUS
<1>2. DOMAIN <<a>> = {1}
  BY <1>1, LenProperties
<1> QED BY <1>1, <1>2, SeqIsList DEF ToSet

\* Two lists together.
LEMMA ConcatList ==
  ASSUME NEW s, NEW t, IsList(s), IsList(t)
  PROVE  /\ IsList(s \o t) /\ Len(s \o t) = Len(s) + Len(t)
         /\ \A i \in 1..Len(s) : (s \o t)[i] = s[i]
         /\ \A i \in 1..Len(t) : (s \o t)[Len(s) + i] = t[i]
         /\ ToSet(s \o t) = ToSet(s) \union ToSet(t)
<1> DEFINE S == ToSet(s) \union ToSet(t)
<1>1. Len(s) \in Nat /\ DOMAIN s = 1..Len(s) /\ Len(t) \in Nat /\ DOMAIN t = 1..Len(t)
  BY ListLaw
<1>2. s \in Seq(S) /\ t \in Seq(S)
  <2>1. ToSet(s) \subseteq S /\ ToSet(t) \subseteq S
    OBVIOUS
  <2> HIDE DEF S
  <2> QED BY <2>1, ListLaw, SeqMonotonic
<1> HIDE DEF S
<1>3. /\ s \o t \in Seq(S) /\ Len(s \o t) = Len(s) + Len(t)
      /\ \A i \in 1..Len(s) + Len(t) : (s \o t)[i] = IF i <= Len(s) THEN s[i] ELSE t[i - Len(s)]
  BY <1>2, ConcatProperties
<1>4. IsList(s \o t) /\ DOMAIN (s \o t) = 1..(Len(s) + Len(t))
  BY <1>1, <1>3, SeqIsList, LenProperties
<1>5. \A i \in 1..Len(s) : (s \o t)[i] = s[i]
  BY <1>1, <1>3
<1>6. \A i \in 1..Len(t) : (s \o t)[Len(s) + i] = t[i]
  <2> SUFFICES ASSUME NEW i \in 1..Len(t) PROVE (s \o t)[Len(s) + i] = t[i]
    OBVIOUS
  <2>1. Len(s) + i \in 1..(Len(s) + Len(t)) /\ ~(Len(s) + i <= Len(s)) /\ (Len(s) + i) - Len(s) = i
    BY <1>1
  <2> QED BY <2>1, <1>3
<1>7. ToSet(s \o t) \subseteq ToSet(s) \union ToSet(t)
  <2> SUFFICES ASSUME NEW i \in 1..(Len(s) + Len(t)) PROVE (s \o t)[i] \in ToSet(s) \union ToSet(t)
    BY <1>4 DEF ToSet
  <2>1. CASE i <= Len(s)
    <3>1. i \in DOMAIN s
      BY <1>1, <2>1
    <3> QED BY <1>3, <2>1, <3>1 DEF ToSet
  <2>2. CASE ~(i <= Len(s))
    <3>1. i - Len(s) \in DOMAIN t
      BY <1>1, <2>2
    <3> QED BY <1>3, <2>2, <3>1 DEF ToSet
  <2> QED BY <2>1, <2>2
<1>8. ToSet(s) \subseteq ToSet(s \o t)
  <2>1. \A i \in DOMAIN s : i \in DOMAIN (s \o t)
    BY <1>1, <1>4
  <2> QED BY <1>1, <1>5, <2>1 DEF ToSet
<1>9. ToSet(t) \subseteq ToSet(s \o t)
  <2>1. \A i \in DOMAIN t : Len(s) + i \in DOMAIN (s \o t)
    BY <1>1, <1>4
  <2> QED BY <1>1, <1>6, <2>1 DEF ToSet
<1> QED BY <1>3, <1>4, <1>5, <1>6, <1>7, <1>8, <1>9

LEMMA ConcatAssoc == ASSUME NEW s, NEW t, NEW u, IsList(s), IsList(t), IsList(u) PROVE (s \o t) \o u = s \o (t \o u)
<1> DEFINE S == ToSet(s) \union ToSet(t) \union ToSet(u)
<1>1. ToSet(s) \subseteq S /\ ToSet(t) \subseteq S /\ ToSet(u) \subseteq S
  OBVIOUS
<1> HIDE DEF S
<1>2. s \in Seq(S) /\ t \in Seq(S) /\ u \in Seq(S)
  BY <1>1, ListLaw, SeqMonotonic
<1> QED BY <1>2, ConcatAssociative

LEMMA ConcatEmpty == ASSUME NEW s, IsList(s) PROVE s \o <<>> = s /\ <<>> \o s = s
BY ListLaw, ConcatEmptySeq

\* FlattenSeq joins its lists one after the other.
Flattens(ss, g) == g = [i \in 1..Len(ss) |-> IF i = 1 THEN ss[i] ELSE g[i - 1] \o ss[i]]

LEMMA FlattenIterates ==
  ASSUME NEW ss, IsList(ss), Len(ss) # 0
  PROVE  \E g : Flattens(ss, g) /\ FlattenSeq(ss) = g[Len(ss)]
<1> DEFINE Step(g, i) == IF i = 1 THEN ss[i] ELSE g[i - 1] \o ss[i]
           Good(n, g) == \A i \in 1..Len(ss) : i <= n => g[i] = Step(g, i)
           T == {n \in Nat : \E g : Good(n, g)}
<1>0. Len(ss) \in Nat
  BY ListLaw
<1>1. 0 \in T
  <2>1. Good(0, [i \in 1..Len(ss) |-> 0])
    BY <1>0
  <2> QED BY <2>1
<1>2. ASSUME NEW n \in Nat, n \in T PROVE n + 1 \in T
  <2>1. PICK g : Good(n, g)
    BY <1>2
  <2> DEFINE h == [i \in 1..Len(ss) |-> IF i <= n THEN g[i] ELSE Step(g, i)]
  <2>2. ASSUME NEW i \in 1..Len(ss), i <= n + 1 PROVE h[i] = Step(h, i)
    <3>1. h[i] = Step(g, i)
      BY <2>1
    <3>2. i # 1 => i - 1 \in 1..Len(ss) /\ i - 1 <= n
      BY <1>0, <2>2
    <3>3. i # 1 => h[i - 1] = g[i - 1]
      BY <3>2
    <3> HIDE DEF h
    <3> QED BY <3>1, <3>3
  <2>3. Good(n + 1, h)
    BY <2>2
  <2> HIDE DEF h
  <2>4. \E q : Good(n + 1, q)
    BY <2>3
  <2> QED BY <2>4
<1>3. Len(ss) \in T
  <2> HIDE DEF T
  <2>1. \A n \in Nat : n \in T
    BY <1>1, <1>2, Induction
  <2> QED BY <1>0, <2>1
<1>4. PICK g : Good(Len(ss), g)
  BY <1>3
<1> DEFINE h == [i \in 1..Len(ss) |-> g[i]]
<1>5. ASSUME NEW i \in 1..Len(ss) PROVE h[i] = Step(h, i)
  <2>1. g[i] = Step(g, i)
    BY <1>0, <1>4
  <2>2. i # 1 => h[i - 1] = g[i - 1]
    BY <1>0
  <2> QED BY <2>1, <2>2
<1>6. h = [i \in 1..Len(ss) |-> Step(h, i)]
  BY <1>5
<1> HIDE DEF h
<1>7. FlattenSeq(ss) = (CHOOSE q : q = [i \in 1..Len(ss) |-> Step(q, i)])[Len(ss)]
  BY DEF FlattenSeq
<1> QED BY <1>6, <1>7 DEF Flattens

\* What the lists of the first i hold.
LEMMA FlattenParts ==
  ASSUME NEW ss, IsList(ss), NEW g, Flattens(ss, g), \A i \in 1..Len(ss) : IsList(ss[i])
  PROVE  \A i \in 1..Len(ss) : IsList(g[i]) /\ ToSet(g[i]) = UNION {ToSet(ss[j]) : j \in 1..i}
<1> DEFINE Good(i) == i \in 1..Len(ss) => IsList(g[i]) /\ ToSet(g[i]) = UNION {ToSet(ss[j]) : j \in 1..i}
           T == {i \in Nat : Good(i)}
<1>0. Len(ss) \in Nat /\ \A i \in 1..Len(ss) : g[i] = IF i = 1 THEN ss[i] ELSE g[i - 1] \o ss[i]
  BY ListLaw DEF Flattens
<1>1. 0 \in T
  OBVIOUS
<1>2. ASSUME NEW i \in Nat, i \in T PROVE i + 1 \in T
  <2> SUFFICES ASSUME i + 1 \in 1..Len(ss) PROVE Good(i + 1)
    OBVIOUS
  <2>1. CASE i = 0
    <3>1. g[1] = ss[1] /\ IsList(ss[1])
      BY <1>0, <2>1
    <3>2. {ToSet(ss[j]) : j \in 1..1} = {ToSet(ss[1])}
      OBVIOUS
    <3> QED BY <2>1, <3>1, <3>2
  <2>2. CASE i # 0
    <3>0. (i + 1) - 1 = i /\ i + 1 # 1
      BY <2>2
    <3>1. i \in 1..Len(ss) /\ g[i + 1] = g[i] \o ss[i + 1] /\ IsList(ss[i + 1])
      <4>1. g[i + 1] = IF i + 1 = 1 THEN ss[i + 1] ELSE g[(i + 1) - 1] \o ss[i + 1]
        BY <1>0
      <4>2. i \in 1..Len(ss)
        BY <1>0, <2>2
      <4> QED BY <3>0, <4>1, <4>2
    <3>2. IsList(g[i]) /\ ToSet(g[i]) = UNION {ToSet(ss[j]) : j \in 1..i}
      BY <1>2, <3>1
    <3>3. IsList(g[i + 1]) /\ ToSet(g[i + 1]) = ToSet(g[i]) \union ToSet(ss[i + 1])
      BY <3>1, <3>2, ConcatList
    <3>4. 1..(i + 1) = 1..i \union {i + 1}
      OBVIOUS
    <3>5. {ToSet(ss[j]) : j \in 1..(i + 1)} = {ToSet(ss[j]) : j \in 1..i} \union {ToSet(ss[i + 1])}
      BY <3>4, Zenon
    <3> QED BY <3>2, <3>3, <3>5
  <2> QED BY <2>1, <2>2
<1>3. \A i \in Nat : i \in T
  <2> HIDE DEF T
  <2> QED BY <1>1, <1>2, Induction
<1>4. \A i \in Nat : Good(i)
  BY <1>3
<1> QED BY <1>0, <1>4

LEMMA FlattenLaw ==
  ASSUME NEW ss, IsList(ss), \A i \in 1..Len(ss) : IsList(ss[i])
  PROVE  IsList(FlattenSeq(ss)) /\ ToSet(FlattenSeq(ss)) = UNION {ToSet(ss[i]) : i \in 1..Len(ss)}
<1>0. Len(ss) \in Nat
  BY ListLaw
<1>1. CASE Len(ss) = 0
  <2>1. ss = <<>> /\ FlattenSeq(ss) = <<>>
    BY <1>1, EmptyList DEF FlattenSeq
  <2>2. 1..Len(ss) = {}
    BY <1>1
  <2> QED BY <2>1, <2>2, EmptyIsList
<1>2. CASE Len(ss) # 0
  <2>1. PICK g : Flattens(ss, g) /\ FlattenSeq(ss) = g[Len(ss)]
    BY <1>2, FlattenIterates
  <2>2. Len(ss) \in 1..Len(ss)
    BY <1>0, <1>2
  <2> QED BY <2>1, <2>2, FlattenParts
<1> QED BY <1>1, <1>2

-----------------------------------------------------------------------------
(* Keys.                                                                   *)

\* LastOf is the last member with the key.
IsLast(s, k, i) == i \in DOMAIN s /\ s[i].key = k /\ \A j \in DOMAIN s : s[j].key = k => j <= i

LEMMA LastIs ==
  ASSUME NEW s, IsList(s), NEW k, NEW i, IsLast(s, k, i)
  PROVE  LastOf(s, k) = s[i]
<1>1. DOMAIN s \subseteq Nat
  BY ListLaw
<1> DEFINE last == CHOOSE n \in DOMAIN s : s[n].key = k /\ \A j \in DOMAIN s : s[j].key = k => j <= n
<1>2. last \in DOMAIN s /\ s[last].key = k /\ \A j \in DOMAIN s : s[j].key = k => j <= last
  BY DEF IsLast
<1>3. LastOf(s, k) = s[last]
  BY DEF LastOf
<1> HIDE DEF last
<1>4. last = i
  BY <1>1, <1>2 DEF IsLast
<1> QED BY <1>3, <1>4

LEMMA LastExists ==
  ASSUME NEW s, IsList(s), NEW k \in KeysOf(s)
  PROVE  \E i : IsLast(s, k, i) /\ LastOf(s, k) = s[i] /\ LastOf(s, k).key = k
<1>0. Len(s) \in Nat /\ DOMAIN s = 1..Len(s)
  BY ListLaw
<1> DEFINE D == {d \in Nat : Len(s) - d \in DOMAIN s /\ s[Len(s) - d].key = k}
<1>1. PICK i \in DOMAIN s : s[i].key = k
  BY DEF KeysOf
<1>2. Len(s) - i \in Nat /\ Len(s) - (Len(s) - i) = i
  BY <1>0
<1>3. Len(s) - i \in D
  BY <1>1, <1>2
<1>4. PICK d \in D : \A e \in D : d <= e
  <2>1. D # {} /\ D \in SUBSET Nat
    BY <1>3
  <2> HIDE DEF D
  <2> QED BY <2>1, Least
<1>5. ASSUME NEW j \in DOMAIN s, s[j].key = k PROVE j <= Len(s) - d
  <2>1. Len(s) - j \in Nat /\ Len(s) - (Len(s) - j) = j
    BY <1>0
  <2>2. d <= Len(s) - j
    BY <1>4, <1>5, <2>1
  <2> QED BY <1>0, <1>4, <2>2
<1>6. IsLast(s, k, Len(s) - d)
  BY <1>4, <1>5 DEF IsLast
<1>7. LastOf(s, k) = s[Len(s) - d]
  BY <1>6, LastIs
<1> QED BY <1>6, <1>7 DEF IsLast

LEMMA FirstExists ==
  ASSUME NEW s, IsList(s), NEW k \in KeysOf(s)
  PROVE  \E i \in DOMAIN s : s[i].key = k /\ \A j \in 1..(i - 1) : s[j].key # k
<1>0. Len(s) \in Nat /\ DOMAIN s = 1..Len(s)
  BY ListLaw
<1> DEFINE D == {i \in DOMAIN s : s[i].key = k}
<1>1. D # {} /\ D \in SUBSET Nat
  BY <1>0 DEF KeysOf
<1>2. PICK i \in D : \A e \in D : i <= e
  <2> HIDE DEF D
  <2> QED BY <1>1, Least
<1>3. ASSUME NEW j \in 1..(i - 1) PROVE s[j].key # k
  <2>1. j \in DOMAIN s /\ ~(i <= j)
    BY <1>0
  <2> QED BY <1>2, <2>1
<1> QED BY <1>2, <1>3

\* Two lists of pairs that mean the same.
Same(s, t) ==
  /\ IsList(s) /\ IsList(t) /\ KeysOf(s) = KeysOf(t)
  /\ \A k \in KeysOf(t) : LastOf(s, k) = LastOf(t, k)

LEMMA KeysAreOfMembers == ASSUME NEW s PROVE KeysOf(s) = {m.key : m \in ToSet(s)}
BY DEF KeysOf, ToSet

LEMMA LastIsMember == ASSUME NEW s, IsList(s), NEW k \in KeysOf(s) PROVE LastOf(s, k) \in ToSet(s) /\ LastOf(s, k).key = k
BY LastExists DEF IsLast, ToSet

\* A later pair hides an earlier one.
LEMMA LastOfConcat ==
  ASSUME NEW s, NEW t, IsList(s), IsList(t)
  PROVE  /\ KeysOf(s \o t) = KeysOf(s) \union KeysOf(t)
         /\ \A k \in KeysOf(s \o t) : LastOf(s \o t, k) = IF k \in KeysOf(t) THEN LastOf(t, k) ELSE LastOf(s, k)
<1>1. /\ IsList(s \o t) /\ Len(s \o t) = Len(s) + Len(t) /\ ToSet(s \o t) = ToSet(s) \union ToSet(t)
      /\ \A i \in 1..Len(s) : (s \o t)[i] = s[i]
      /\ \A i \in 1..Len(t) : (s \o t)[Len(s) + i] = t[i]
  BY ConcatList
<1>2. KeysOf(s \o t) = KeysOf(s) \union KeysOf(t)
  BY <1>1, KeysAreOfMembers
<1>3. /\ Len(s) \in Nat /\ DOMAIN s = 1..Len(s) /\ Len(t) \in Nat /\ DOMAIN t = 1..Len(t)
      /\ DOMAIN (s \o t) = 1..(Len(s) + Len(t))
  BY <1>1, ListLaw
<1>4. ASSUME NEW k \in KeysOf(t) PROVE LastOf(s \o t, k) = LastOf(t, k)
  <2>1. PICK i : IsLast(t, k, i) /\ LastOf(t, k) = t[i]
    BY LastExists
  <2>2. i \in 1..Len(t) /\ t[i].key = k /\ \A j \in DOMAIN t : t[j].key = k => j <= i
    BY <1>3, <2>1 DEF IsLast
  <2>3. ASSUME NEW j \in DOMAIN (s \o t), (s \o t)[j].key = k PROVE j <= Len(s) + i
    <3>1. CASE j <= Len(s)
      BY <1>3, <2>2, <3>1
    <3>2. CASE ~(j <= Len(s))
      <4> DEFINE n == j - Len(s)
      <4>1. n \in 1..Len(t) /\ Len(s) + n = j
        BY <1>3, <3>2
      <4>2. t[n].key = k
        BY <1>1, <2>3, <4>1
      <4>3. n <= i
        BY <1>3, <2>2, <4>1, <4>2
      <4> QED BY <1>3, <2>2, <4>1, <4>3
    <3> QED BY <3>1, <3>2
  <2>4. Len(s) + i \in DOMAIN (s \o t) /\ (s \o t)[Len(s) + i] = t[i]
    BY <1>1, <1>3, <2>2
  <2>5. IsLast(s \o t, k, Len(s) + i)
    BY <2>2, <2>3, <2>4 DEF IsLast
  <2> QED BY <1>1, <2>1, <2>4, <2>5, LastIs
<1>5. ASSUME NEW k \in KeysOf(s) \ KeysOf(t) PROVE LastOf(s \o t, k) = LastOf(s, k)
  <2>1. PICK i : IsLast(s, k, i) /\ LastOf(s, k) = s[i]
    BY LastExists
  <2>2. i \in 1..Len(s) /\ s[i].key = k /\ \A j \in DOMAIN s : s[j].key = k => j <= i
    BY <1>3, <2>1 DEF IsLast
  <2>3. ASSUME NEW j \in DOMAIN (s \o t), (s \o t)[j].key = k PROVE j <= i
    <3>1. CASE j <= Len(s)
      <4>1. j \in 1..Len(s)
        BY <1>3, <3>1
      <4>2. s[j].key = k
        BY <1>1, <2>3, <4>1
      <4> QED BY <1>3, <2>2, <4>1, <4>2
    <3>2. CASE ~(j <= Len(s))
      <4> DEFINE n == j - Len(s)
      <4>1. n \in DOMAIN t /\ n \in 1..Len(t) /\ Len(s) + n = j
        BY <1>3, <3>2
      <4>2. t[n].key = k
        BY <1>1, <2>3, <4>1
      <4> HIDE DEF n
      <4>3. k \in KeysOf(t)
        BY <4>1, <4>2 DEF KeysOf
      <4> QED BY <4>3
    <3> QED BY <3>1, <3>2
  <2>4. i \in DOMAIN (s \o t) /\ (s \o t)[i] = s[i]
    BY <1>1, <1>3, <2>2
  <2>5. IsLast(s \o t, k, i)
    BY <2>2, <2>3, <2>4 DEF IsLast
  <2> QED BY <1>1, <2>1, <2>4, <2>5, LastIs
<1> QED BY <1>2, <1>4, <1>5

\* Leaving out the pairs that are hidden changes nothing.
LEMMA DedupeLaw == ASSUME NEW s, IsList(s) PROVE Same(Dedupe(s), s)
<1> DEFINE IsFirst(i) == \A j \in 1..(i - 1) : s[j].key # s[i].key
           ss == [i \in DOMAIN s |-> IF IsFirst(i) THEN <<LastOf(s, s[i].key)>> ELSE <<>>]
<1>0. Len(s) \in Nat /\ DOMAIN s = 1..Len(s)
  BY ListLaw
<1>1. \A i \in DOMAIN s : ss[i] = IF IsFirst(i) THEN <<LastOf(s, s[i].key)>> ELSE <<>>
  OBVIOUS
<1>2. IsList(ss) /\ Len(ss) = Len(s)
  <2>1. ss = [i \in 1..Len(s) |-> ss[i]]
    BY <1>0
  <2> HIDE DEF ss
  <2> QED BY <1>0, <2>1, FunctionIsList
<1>3. \A i \in DOMAIN s : IsList(ss[i]) /\ ToSet(ss[i]) = IF IsFirst(i) THEN {LastOf(s, s[i].key)} ELSE {}
  <2> SUFFICES ASSUME NEW i \in DOMAIN s
               PROVE  IsList(ss[i]) /\ ToSet(ss[i]) = IF IsFirst(i) THEN {LastOf(s, s[i].key)} ELSE {}
    OBVIOUS
  <2> DEFINE first == IsFirst(i)
  <2>1. ss[i] = IF first THEN <<LastOf(s, s[i].key)>> ELSE <<>>
    BY <1>1
  <2> HIDE DEF ss, first
  <2>2. IsList(ss[i]) /\ ToSet(ss[i]) = IF first THEN {LastOf(s, s[i].key)} ELSE {}
    BY <2>1, EmptyIsList, OneIsList
  <2> QED BY <2>2 DEF first
<1>4. Dedupe(s) = FlattenSeq(ss)
  BY DEF Dedupe
<1> HIDE DEF ss
<1>5. IsList(Dedupe(s)) /\ ToSet(Dedupe(s)) = UNION {ToSet(ss[i]) : i \in 1..Len(ss)}
  BY <1>0, <1>2, <1>3, <1>4, FlattenLaw
<1>6. ASSUME NEW m \in ToSet(Dedupe(s)) PROVE m.key \in KeysOf(s) /\ m = LastOf(s, m.key)
  <2>1. PICK i \in DOMAIN s : m \in ToSet(ss[i])
    BY <1>0, <1>2, <1>5, <1>6
  <2>2. m = LastOf(s, s[i].key)
    BY <1>3, <2>1
  <2>3. s[i].key \in KeysOf(s)
    BY DEF KeysOf
  <2> QED BY <2>2, <2>3, LastIsMember
<1>7. ASSUME NEW k \in KeysOf(s) PROVE LastOf(s, k) \in ToSet(Dedupe(s))
  <2>1. PICK i \in DOMAIN s : s[i].key = k /\ \A j \in 1..(i - 1) : s[j].key # k
    BY <1>7, FirstExists
  <2>2. IsFirst(i)
    BY <2>1
  <2>3. LastOf(s, k) \in ToSet(ss[i])
    BY <1>3, <2>1, <2>2
  <2> QED BY <1>0, <1>2, <1>5, <2>3
<1>8. KeysOf(Dedupe(s)) = KeysOf(s)
  <2>1. \A k \in KeysOf(s) : k \in KeysOf(Dedupe(s))
    BY <1>7, LastIsMember, KeysAreOfMembers
  <2>2. \A k \in KeysOf(Dedupe(s)) : k \in KeysOf(s)
    BY <1>6, KeysAreOfMembers
  <2> QED BY <2>1, <2>2
<1>9. ASSUME NEW k \in KeysOf(s) PROVE LastOf(Dedupe(s), k) = LastOf(s, k)
  <2>1. LastOf(Dedupe(s), k) \in ToSet(Dedupe(s)) /\ LastOf(Dedupe(s), k).key = k
    BY <1>5, <1>8, LastIsMember
  <2> QED BY <2>1, <1>6
<1> QED BY <1>5, <1>8, <1>9 DEF Same

LEMMA SameIsSame == ASSUME NEW s, IsList(s) PROVE Same(s, s)
BY DEF Same

\* Merging by key means joining.
LEMMA MergeKeyedLaw ==
  ASSUME NEW s, NEW t, NEW u, Same(s, t), IsList(u)
  PROVE  Same(MergeKeyed(s, u), t \o u)
<1>0. /\ IsList(s) /\ IsList(t) /\ IsList(s \o u) /\ IsList(t \o u)
      /\ KeysOf(s) = KeysOf(t) /\ \A k \in KeysOf(t) : LastOf(s, k) = LastOf(t, k)
  BY ConcatList DEF Same
<1>1. Same(s \o u, t \o u)
  <2>1. KeysOf(s \o u) = KeysOf(t \o u)
    BY <1>0, LastOfConcat
  <2>2. ASSUME NEW k \in KeysOf(t \o u) PROVE LastOf(s \o u, k) = LastOf(t \o u, k)
    BY <1>0, <2>1, LastOfConcat
  <2> QED BY <1>0, <2>1, <2>2 DEF Same
<1>2. CASE u = <<>>
  <2>1. t \o u = t /\ MergeKeyed(s, u) = s
    BY <1>0, <1>2, ConcatEmpty DEF MergeKeyed
  <2> QED BY <2>1
<1>3. CASE u # <<>> /\ s = <<>>
  <2>1. s \o u = u /\ MergeKeyed(s, u) = u
    BY <1>3, ConcatEmpty DEF MergeKeyed
  <2> QED BY <1>1, <2>1
<1>4. CASE u # <<>> /\ s # <<>>
  <2>1. MergeKeyed(s, u) = Dedupe(s \o u)
    BY <1>4 DEF MergeKeyed
  <2>2. Same(Dedupe(s \o u), s \o u)
    BY <1>0, DedupeLaw
  <2> QED BY <1>1, <2>1, <2>2 DEF Same
<1> QED BY <1>2, <1>3, <1>4

-----------------------------------------------------------------------------
(* The chain.                                                              *)

LEMMA Upwards ==
  ASSUME NEW n \in Nat, NEW T, n # 0 => 1 \in T, \A i \in 1..n : i + 1 <= n /\ i \in T => i + 1 \in T
  PROVE  \A i \in 1..n : i \in T
<1> DEFINE U == {i \in Nat : i \in 1..n => i \in T}
<1>1. 0 \in U
  OBVIOUS
<1>2. ASSUME NEW i \in Nat, i \in U PROVE i + 1 \in U
  <2>1. CASE i = 0
    BY <2>1
  <2>2. CASE i # 0
    BY <1>2, <2>2
  <2> QED BY <2>1, <2>2
<1>3. \A i \in Nat : i \in U
  <2> HIDE DEF U
  <2> QED BY <1>1, <1>2, Induction
<1> QED BY <1>3

\* The nearest of the first i values.
NearestUp(v, i, x) ==
  \/ x = None /\ \A j \in 1..i : v[j] = None
  \/ x # None /\ \E j \in 1..i : v[j] = x /\ \A k \in (j + 1)..i : v[k] = None

LEMMA NearestStep ==
  ASSUME NEW v, NEW i \in Nat, NEW x, NearestUp(v, i, x)
  PROVE  NearestUp(v, i + 1, IF v[i + 1] # None THEN v[i + 1] ELSE x)
<1>1. CASE v[i + 1] # None
  <2>1. i + 1 \in 1..(i + 1) /\ ((i + 1) + 1)..(i + 1) = {}
    OBVIOUS
  <2> QED BY <1>1, <2>1 DEF NearestUp
<1>2. CASE v[i + 1] = None /\ x = None
  <2>1. \A j \in 1..i : v[j] = None
    BY <1>2 DEF NearestUp
  <2>2. \A j \in 1..(i + 1) : j \in 1..i \/ j = i + 1
    OBVIOUS
  <2> QED BY <1>2, <2>1, <2>2 DEF NearestUp
<1>3. CASE v[i + 1] = None /\ x # None
  <2>1. PICK j \in 1..i : v[j] = x /\ \A k \in (j + 1)..i : v[k] = None
    BY <1>3 DEF NearestUp
  <2>2. j \in 1..(i + 1) /\ \A k \in (j + 1)..(i + 1) : k \in (j + 1)..i \/ k = i + 1
    OBVIOUS
  <2>3. \A k \in (j + 1)..(i + 1) : v[k] = None
    BY <1>3, <2>1, <2>2
  <2> QED BY <1>3, <2>1, <2>2, <2>3 DEF NearestUp
<1> QED BY <1>1, <1>2, <1>3

LEMMA NearestAgree ==
  ASSUME NEW v, NEW w, NEW i \in Nat, NEW x, NearestUp(v, i, x), \A j \in 1..i : v[j] = w[j]
  PROVE  NearestUp(w, i, x)
<1>1. CASE x = None
  BY <1>1 DEF NearestUp
<1>2. CASE x # None
  <2>1. PICK j \in 1..i : v[j] = x /\ \A k \in (j + 1)..i : v[k] = None
    BY <1>2 DEF NearestUp
  <2>2. \A k \in (j + 1)..i : k \in 1..i
    OBVIOUS
  <2>3. w[j] = x /\ \A k \in (j + 1)..i : w[k] = None
    BY <2>1, <2>2
  <2> QED BY <1>2, <2>3 DEF NearestUp
<1> QED BY <1>1, <1>2

LEMMA MaxIs == ASSUME NEW S \in SUBSET Nat, NEW j \in S, \A k \in S : k <= j PROVE Max(S) = j
<1> DEFINE m == CHOOSE n \in S : \A k \in S : n >= k
<1>1. \E n \in S : \A k \in S : n >= k
  BY SMT
<1>2. m \in S /\ \A k \in S : m >= k
  BY <1>1
<1> HIDE DEF m
<1>3. m = j
  BY <1>2
<1> QED BY <1>3 DEF Max, m

LEMMA NearestIs ==
  ASSUME NEW v, IsList(v), NEW x, NearestUp(v, Len(v), x)
  PROVE  Nearest(v) = x
<1> DEFINE given == {i \in DOMAIN v : v[i] # None}
<1>0. Len(v) \in Nat /\ DOMAIN v = 1..Len(v)
  BY ListLaw
<1>1. CASE x = None
  <2>1. given = {}
    BY <1>0, <1>1 DEF NearestUp
  <2> QED BY <1>1, <2>1 DEF Nearest
<1>2. CASE x # None
  <2>1. PICK j \in 1..Len(v) : v[j] = x /\ \A k \in (j + 1)..Len(v) : v[k] = None
    BY <1>2 DEF NearestUp
  <2>2. j \in given /\ given \subseteq Nat
    BY <1>0, <1>2, <2>1
  <2>3. ASSUME NEW k \in given PROVE k <= j
    <3>1. k \in 1..Len(v) /\ v[k] # None
      BY <1>0
    <3>2. ~(k \in (j + 1)..Len(v))
      BY <2>1, <3>1
    <3> QED BY <1>0, <3>1, <3>2
  <2>4. Max(given) = j
    <3> HIDE DEF given
    <3> QED BY <2>2, <2>3, MaxIs
  <2>5. Nearest(v) = IF given = {} THEN None ELSE v[Max(given)]
    BY DEF Nearest
  <2> HIDE DEF given
  <2> QED BY <2>1, <2>2, <2>4, <2>5
<1> QED BY <1>1, <1>2

\* A value that is the nearest is one of them.
LEMMA NearestGiven ==
  ASSUME NEW v, NEW i \in Nat, NEW x, NearestUp(v, i, x), x # None
  PROVE  \E j \in 1..i : v[j] = x
BY DEF NearestUp

\* MergeChain goes up from the root.
Merges(ch, m) ==
  m = [i \in DOMAIN ch |-> IF i = 1 THEN ch[1].spec ELSE MergeTemplates(m[i - 1], ch[i].spec)]

LEMMA MergeIterates ==
  ASSUME NEW ch, IsList(ch), ch # <<>>
  PROVE  \E m : Merges(ch, m) /\ MergeChain(ch) = m[Len(ch)]
<1> DEFINE Step(g, i) == IF i = 1 THEN ch[1].spec ELSE MergeTemplates(g[i - 1], ch[i].spec)
           Good(n, g) == \A i \in 1..Len(ch) : i <= n => g[i] = Step(g, i)
           T == {n \in Nat : \E g : Good(n, g)}
<1>0. Len(ch) \in Nat /\ DOMAIN ch = 1..Len(ch)
  BY ListLaw
<1>1. 0 \in T
  <2>1. Good(0, [i \in 1..Len(ch) |-> 0])
    BY <1>0
  <2> QED BY <2>1
<1>2. ASSUME NEW n \in Nat, n \in T PROVE n + 1 \in T
  <2>1. PICK g : Good(n, g)
    BY <1>2
  <2> DEFINE h == [i \in 1..Len(ch) |-> IF i <= n THEN g[i] ELSE Step(g, i)]
  <2>2. ASSUME NEW i \in 1..Len(ch), i <= n + 1 PROVE h[i] = Step(h, i)
    <3>1. h[i] = Step(g, i)
      BY <2>1
    <3>2. i # 1 => i - 1 \in 1..Len(ch) /\ i - 1 <= n
      BY <1>0, <2>2
    <3>3. i # 1 => h[i - 1] = g[i - 1]
      BY <3>2
    <3> HIDE DEF h
    <3> QED BY <3>1, <3>3
  <2>3. Good(n + 1, h)
    BY <2>2
  <2> HIDE DEF h
  <2>4. \E q : Good(n + 1, q)
    BY <2>3
  <2> QED BY <2>4
<1>3. Len(ch) \in T
  <2> HIDE DEF T
  <2>1. \A n \in Nat : n \in T
    BY <1>1, <1>2, Induction
  <2> QED BY <1>0, <2>1
<1>4. PICK g : Good(Len(ch), g)
  BY <1>3
<1> DEFINE h == [i \in DOMAIN ch |-> g[i]]
<1>5. ASSUME NEW i \in DOMAIN ch PROVE h[i] = Step(h, i)
  <2>1. g[i] = Step(g, i)
    BY <1>0, <1>4
  <2>2. i # 1 => h[i - 1] = g[i - 1]
    BY <1>0
  <2> QED BY <2>1, <2>2
<1>6. h = [i \in DOMAIN ch |-> Step(h, i)]
  BY <1>5
<1> HIDE DEF h
<1>7. MergeChain(ch) = (CHOOSE q : q = [i \in DOMAIN ch |-> Step(q, i)])[Len(ch)]
  BY DEF MergeChain
<1> QED BY <1>6, <1>7 DEF Merges

\* Specs are merged into specs.
LEMMA MergeIsSpec ==
  ASSUME NEW p, NEW c, IsSpec(p), IsSpec(c)
  PROVE  IsSpec(MergeTemplates(p, c))
<1> DEFINE m == MergeTemplates(p, c)
<1>1. /\ m.own = Overlay(p.own, c.own) /\ m.harness.own = Overlay(p.harness.own, c.harness.own)
      /\ m.harness.agent.own = Overlay(p.harness.agent.own, c.harness.agent.own)
      /\ m.harness.agent.given = (p.harness.agent.given \/ c.harness.agent.given)
      /\ m.joined = [l \in Joined |-> p.joined[l] \o c.joined[l]]
      /\ m.env = MergeKeyed(p.env, c.env)
  BY DEF MergeTemplates, MergeHarness, MergeAgent
<1> HIDE DEF m
<1>2. DOMAIN m.own = Replaced /\ DOMAIN m.harness.own = HarnessReplaced /\ DOMAIN m.harness.agent.own = AgentReplaced
  BY <1>1 DEF IsSpec, Overlay
<1>3. m.harness.agent.given \in BOOLEAN
  BY <1>1 DEF IsSpec
<1>4. ~m.harness.agent.given => \A f \in AgentReplaced : m.harness.agent.own[f] = None
  BY <1>1 DEF IsSpec, Overlay
<1>5. DOMAIN m.joined = Joined /\ \A l \in Joined : IsList(m.joined[l])
  BY <1>1, ConcatList DEF IsSpec
<1>6. IsList(m.env)
  <2>1. Same(MergeKeyed(p.env, c.env), p.env \o c.env)
    BY SameIsSame, MergeKeyedLaw DEF IsSpec
  <2> QED BY <1>1, <2>1 DEF Same
<1> QED BY <1>2, <1>3, <1>4, <1>5, <1>6 DEF m, IsSpec

\* One value laid over another at every step leaves the nearest.
LEMMA OverlaysUp ==
  ASSUME NEW n \in Nat, NEW v, NEW x, n # 0 => x[1] = v[1],
         \A i \in 1..n : i + 1 <= n => x[i + 1] = IF v[i + 1] # None THEN v[i + 1] ELSE x[i]
  PROVE  \A i \in 1..n : NearestUp(v, i, x[i])
<1> DEFINE T == {i \in 1..n : NearestUp(v, i, x[i])}
<1>1. n # 0 => 1 \in T
  <2> SUFFICES ASSUME n # 0 PROVE NearestUp(v, 1, v[1])
    OBVIOUS
  <2>1. 1 \in 1..1 /\ (1 + 1)..1 = {} /\ \A j \in 1..1 : j = 1
    OBVIOUS
  <2> QED BY <2>1 DEF NearestUp
<1>2. ASSUME NEW i \in 1..n, i + 1 <= n, i \in T PROVE i + 1 \in T
  <2>1. i + 1 \in 1..n /\ NearestUp(v, i, x[i]) /\ i \in Nat
    BY <1>2
  <2>2. NearestUp(v, i + 1, x[i + 1])
    BY <1>2, <2>1, NearestStep
  <2> QED BY <2>1, <2>2
<1>3. \A i \in 1..n : i \in T
  <2> HIDE DEF T
  <2> QED BY <1>1, <1>2, Upwards
<1> QED BY <1>3

\* A chain of specs, and what it is resolved to.
Specced(ch) == IsList(ch) /\ \A i \in DOMAIN ch : IsSpec(ch[i].spec)
Resolved(ch) == IF ch = <<>> THEN Bare ELSE MergeChain(ch)

LEMMA MergeSteps ==
  ASSUME NEW ch, Specced(ch), NEW m, Merges(ch, m)
  PROVE  /\ Len(ch) \in Nat /\ DOMAIN ch = 1..Len(ch)
         /\ Len(ch) # 0 => m[1] = ch[1].spec
         /\ \A i \in 1..Len(ch) : i + 1 <= Len(ch) => m[i + 1] = MergeTemplates(m[i], ch[i + 1].spec)
         /\ \A i \in 1..Len(ch) : IsSpec(m[i]) /\ IsSpec(ch[i].spec)
<1>1. Len(ch) \in Nat /\ DOMAIN ch = 1..Len(ch) /\ \A i \in 1..Len(ch) : IsSpec(ch[i].spec)
  BY ListLaw DEF Specced
<1>2. \A i \in 1..Len(ch) : m[i] = IF i = 1 THEN ch[1].spec ELSE MergeTemplates(m[i - 1], ch[i].spec)
  BY <1>1 DEF Merges
<1>3. Len(ch) # 0 => m[1] = ch[1].spec
  BY <1>1, <1>2
<1>4. ASSUME NEW i \in 1..Len(ch), i + 1 <= Len(ch) PROVE m[i + 1] = MergeTemplates(m[i], ch[i + 1].spec)
  <2>1. i + 1 \in 1..Len(ch) /\ i + 1 # 1 /\ (i + 1) - 1 = i
    BY <1>1, <1>4
  <2>2. m[i + 1] = IF i + 1 = 1 THEN ch[1].spec ELSE MergeTemplates(m[(i + 1) - 1], ch[i + 1].spec)
    BY <1>2, <2>1
  <2> QED BY <2>1, <2>2
<1> DEFINE T == {i \in 1..Len(ch) : IsSpec(m[i])}
<1>5. Len(ch) # 0 => 1 \in T
  BY <1>1, <1>3
<1>6. ASSUME NEW i \in 1..Len(ch), i + 1 <= Len(ch), i \in T PROVE i + 1 \in T
  <2>1. i + 1 \in 1..Len(ch) /\ IsSpec(m[i]) /\ IsSpec(ch[i + 1].spec)
    BY <1>1, <1>6
  <2>2. IsSpec(MergeTemplates(m[i], ch[i + 1].spec))
    BY <2>1, MergeIsSpec
  <2> QED BY <1>4, <1>6, <2>1, <2>2
<1>7. \A i \in 1..Len(ch) : i \in T
  <2> HIDE DEF T
  <2> QED BY <1>1, <1>5, <1>6, Upwards
<1> QED BY <1>1, <1>3, <1>4, <1>7

\* The values of a field along a chain.
OwnAlong(ch, f) == [i \in DOMAIN ch |-> ch[i].spec.own[f]]
HarnessAlong(ch, f) == [i \in DOMAIN ch |-> ch[i].spec.harness.own[f]]
AgentAlong(ch, f) == [i \in DOMAIN ch |-> ch[i].spec.harness.agent.own[f]]
JoinedAlong(ch, l) == [i \in DOMAIN ch |-> ch[i].spec.joined[l]]
EnvAlong(ch) == [i \in DOMAIN ch |-> ch[i].spec.env]

\* A chain resolves to the nearest of the values it gives.
LEMMA ResolvedNearest ==
  ASSUME NEW ch, Specced(ch)
  PROVE  /\ IsSpec(Resolved(ch)) /\ Len(ch) \in Nat /\ DOMAIN ch = 1..Len(ch)
         /\ \A f \in Replaced : NearestUp(OwnAlong(ch, f), Len(ch), Resolved(ch).own[f])
         /\ \A f \in HarnessReplaced : NearestUp(HarnessAlong(ch, f), Len(ch), Resolved(ch).harness.own[f])
         /\ \A f \in AgentReplaced : NearestUp(AgentAlong(ch, f), Len(ch), Resolved(ch).harness.agent.own[f])
<1>0. Len(ch) \in Nat /\ DOMAIN ch = 1..Len(ch)
  BY ListLaw DEF Specced
<1>1. CASE ch = <<>>
  <2>1. Len(ch) = 0 /\ 1..0 = {} /\ Resolved(ch) = Bare
    BY <1>1, EmptyIsList DEF Resolved
  <2>2. IsSpec(Bare)
    <3>1. /\ Bare.own = [f \in Replaced |-> None] /\ Bare.harness.own = [f \in HarnessReplaced |-> None]
          /\ Bare.harness.agent.own = [f \in AgentReplaced |-> None] /\ Bare.harness.agent.given = FALSE
          /\ Bare.joined = [l \in Joined |-> <<>>] /\ Bare.env = <<>>
      BY DEF Bare, NoHarness, NoAgent
    <3> QED BY <3>1, EmptyIsList DEF IsSpec
  <2>3. /\ \A f \in Replaced : Bare.own[f] = None
        /\ \A f \in HarnessReplaced : Bare.harness.own[f] = None
        /\ \A f \in AgentReplaced : Bare.harness.agent.own[f] = None
    BY DEF Bare, NoHarness, NoAgent
  <2> QED BY <1>0, <2>1, <2>2, <2>3 DEF NearestUp
<1>2. CASE ch # <<>>
  <2>1. PICK m : Merges(ch, m) /\ MergeChain(ch) = m[Len(ch)]
    BY <1>2, MergeIterates DEF Specced
  <2>2. /\ Len(ch) # 0 => m[1] = ch[1].spec
        /\ \A i \in 1..Len(ch) : i + 1 <= Len(ch) => m[i + 1] = MergeTemplates(m[i], ch[i + 1].spec)
        /\ \A i \in 1..Len(ch) : IsSpec(m[i]) /\ IsSpec(ch[i].spec)
    BY <2>1, MergeSteps
  <2>3. Len(ch) \in 1..Len(ch) /\ Resolved(ch) = m[Len(ch)]
    BY <1>0, <1>2, <2>1, EmptyList DEF Resolved, Specced
  <2>4. \A p, c : /\ MergeTemplates(p, c).own = Overlay(p.own, c.own)
                  /\ MergeTemplates(p, c).harness.own = Overlay(p.harness.own, c.harness.own)
                  /\ MergeTemplates(p, c).harness.agent.own = Overlay(p.harness.agent.own, c.harness.agent.own)
    BY DEF MergeTemplates, MergeHarness, MergeAgent
  <2>5. ASSUME NEW f \in Replaced PROVE NearestUp(OwnAlong(ch, f), Len(ch), Resolved(ch).own[f])
    <3> DEFINE v == OwnAlong(ch, f)
               x == [i \in 1..Len(ch) |-> m[i].own[f]]
    <3>1. \A i \in 1..Len(ch) : v[i] = ch[i].spec.own[f]
      BY <1>0 DEF OwnAlong
    <3>2. Len(ch) # 0 => x[1] = v[1]
      BY <1>0, <2>2, <3>1
    <3>3. ASSUME NEW i \in 1..Len(ch), i + 1 <= Len(ch) PROVE x[i + 1] = IF v[i + 1] # None THEN v[i + 1] ELSE x[i]
      <4>1. i + 1 \in 1..Len(ch) /\ DOMAIN m[i].own = Replaced
        BY <1>0, <2>2, <3>3 DEF IsSpec
      <4>2. m[i + 1].own = Overlay(m[i].own, ch[i + 1].spec.own)
        BY <2>2, <2>4, <3>3
      <4>3. m[i + 1].own[f] = IF ch[i + 1].spec.own[f] # None THEN ch[i + 1].spec.own[f] ELSE m[i].own[f]
        BY <4>1, <4>2 DEF Overlay
      <4> QED BY <3>1, <4>1, <4>3
    <3>4. x[Len(ch)] = Resolved(ch).own[f]
      BY <2>3
    <3> HIDE DEF x, v
    <3>5. \A i \in 1..Len(ch) : NearestUp(v, i, x[i])
      BY <1>0, <3>2, <3>3, OverlaysUp
    <3> QED BY <2>3, <3>4, <3>5 DEF v
  <2>6. ASSUME NEW f \in HarnessReplaced PROVE NearestUp(HarnessAlong(ch, f), Len(ch), Resolved(ch).harness.own[f])
    <3> DEFINE v == HarnessAlong(ch, f)
               x == [i \in 1..Len(ch) |-> m[i].harness.own[f]]
    <3>1. \A i \in 1..Len(ch) : v[i] = ch[i].spec.harness.own[f]
      BY <1>0 DEF HarnessAlong
    <3>2. Len(ch) # 0 => x[1] = v[1]
      BY <1>0, <2>2, <3>1
    <3>3. ASSUME NEW i \in 1..Len(ch), i + 1 <= Len(ch) PROVE x[i + 1] = IF v[i + 1] # None THEN v[i + 1] ELSE x[i]
      <4>1. i + 1 \in 1..Len(ch) /\ DOMAIN m[i].harness.own = HarnessReplaced
        BY <1>0, <2>2, <3>3 DEF IsSpec
      <4>2. m[i + 1].harness.own = Overlay(m[i].harness.own, ch[i + 1].spec.harness.own)
        BY <2>2, <2>4, <3>3
      <4>3. m[i + 1].harness.own[f] =
              IF ch[i + 1].spec.harness.own[f] # None THEN ch[i + 1].spec.harness.own[f] ELSE m[i].harness.own[f]
        BY <4>1, <4>2 DEF Overlay
      <4> QED BY <3>1, <4>1, <4>3
    <3>4. x[Len(ch)] = Resolved(ch).harness.own[f]
      BY <2>3
    <3> HIDE DEF x, v
    <3>5. \A i \in 1..Len(ch) : NearestUp(v, i, x[i])
      BY <1>0, <3>2, <3>3, OverlaysUp
    <3> QED BY <2>3, <3>4, <3>5 DEF v
  <2>7. ASSUME NEW f \in AgentReplaced PROVE NearestUp(AgentAlong(ch, f), Len(ch), Resolved(ch).harness.agent.own[f])
    <3> DEFINE v == AgentAlong(ch, f)
               x == [i \in 1..Len(ch) |-> m[i].harness.agent.own[f]]
    <3>1. \A i \in 1..Len(ch) : v[i] = ch[i].spec.harness.agent.own[f]
      BY <1>0 DEF AgentAlong
    <3>2. Len(ch) # 0 => x[1] = v[1]
      BY <1>0, <2>2, <3>1
    <3>3. ASSUME NEW i \in 1..Len(ch), i + 1 <= Len(ch) PROVE x[i + 1] = IF v[i + 1] # None THEN v[i + 1] ELSE x[i]
      <4>1. i + 1 \in 1..Len(ch) /\ DOMAIN m[i].harness.agent.own = AgentReplaced
        BY <1>0, <2>2, <3>3 DEF IsSpec
      <4>2. m[i + 1].harness.agent.own = Overlay(m[i].harness.agent.own, ch[i + 1].spec.harness.agent.own)
        BY <2>2, <2>4, <3>3
      <4>3. m[i + 1].harness.agent.own[f] =
              IF ch[i + 1].spec.harness.agent.own[f] # None THEN ch[i + 1].spec.harness.agent.own[f]
              ELSE m[i].harness.agent.own[f]
        BY <4>1, <4>2 DEF Overlay
      <4> QED BY <3>1, <4>1, <4>3
    <3>4. x[Len(ch)] = Resolved(ch).harness.agent.own[f]
      BY <2>3
    <3> HIDE DEF x, v
    <3>5. \A i \in 1..Len(ch) : NearestUp(v, i, x[i])
      BY <1>0, <3>2, <3>3, OverlaysUp
    <3> QED BY <2>3, <3>4, <3>5 DEF v
  <2>8. IsSpec(Resolved(ch))
    BY <2>2, <2>3
  <2> QED BY <1>0, <2>5, <2>6, <2>7, <2>8
<1> QED BY <1>1, <1>2

\* It joins the lists of the chain.
LEMMA ResolvedJoined ==
  ASSUME NEW ch, Specced(ch), NEW l \in Joined
  PROVE  /\ Resolved(ch).joined[l] = FlattenSeq(JoinedAlong(ch, l)) /\ IsList(Resolved(ch).joined[l])
         /\ IsList(JoinedAlong(ch, l)) /\ Len(JoinedAlong(ch, l)) = Len(ch)
         /\ \A i \in 1..Len(ch) : IsList(JoinedAlong(ch, l)[i])
<1> DEFINE ss == JoinedAlong(ch, l)
<1>0. Len(ch) \in Nat /\ DOMAIN ch = 1..Len(ch) /\ \A i \in 1..Len(ch) : IsList(ch[i].spec.joined[l])
  BY ListLaw DEF Specced, IsSpec
<1>1. ss = [i \in 1..Len(ch) |-> ss[i]] /\ \A i \in 1..Len(ch) : ss[i] = ch[i].spec.joined[l]
  BY <1>0 DEF JoinedAlong
<1> HIDE DEF ss
<1>2. IsList(ss) /\ Len(ss) = Len(ch)
  BY <1>0, <1>1, FunctionIsList
<1>3. \A i \in 1..Len(ch) : IsList(ss[i])
  BY <1>0, <1>1
<1>4. CASE ch = <<>>
  <2>1. Len(ss) = 0 /\ ss = <<>>
    BY <1>2, <1>4, EmptyIsList, EmptyList
  <2>2. Resolved(ch).joined[l] = <<>>
    BY <1>4 DEF Resolved, Bare
  <2>3. FlattenSeq(ss) = <<>>
    BY <2>1 DEF FlattenSeq
  <2> QED BY <1>2, <1>3, <2>2, <2>3, EmptyIsList DEF ss
<1>5. CASE ch # <<>>
  <2>1. PICK m : Merges(ch, m) /\ MergeChain(ch) = m[Len(ch)]
    BY <1>5, MergeIterates DEF Specced
  <2>2. /\ Len(ch) # 0 => m[1] = ch[1].spec
        /\ \A i \in 1..Len(ch) : i + 1 <= Len(ch) => m[i + 1] = MergeTemplates(m[i], ch[i + 1].spec)
    BY <2>1, MergeSteps
  <2>3. Len(ch) # 0 /\ Len(ch) \in 1..Len(ch) /\ Resolved(ch) = m[Len(ch)]
    BY <1>0, <1>5, <2>1, EmptyList DEF Resolved, Specced
  <2>4. PICK g : Flattens(ss, g) /\ FlattenSeq(ss) = g[Len(ss)]
    BY <1>2, <2>3, FlattenIterates
  <2>5. \A i \in 1..Len(ch) : g[i] = IF i = 1 THEN ss[i] ELSE g[i - 1] \o ss[i]
    BY <1>2, <2>4 DEF Flattens
  <2> DEFINE T == {i \in 1..Len(ch) : m[i].joined[l] = g[i]}
  <2>6. Len(ch) # 0 => 1 \in T
    BY <1>0, <1>1, <2>2, <2>3, <2>5
  <2>7. ASSUME NEW i \in 1..Len(ch), i + 1 <= Len(ch), i \in T PROVE i + 1 \in T
    <3>1. i + 1 \in 1..Len(ch) /\ i + 1 # 1 /\ (i + 1) - 1 = i
      BY <1>0, <2>7
    <3>2. g[i + 1] = IF i + 1 = 1 THEN ss[i + 1] ELSE g[(i + 1) - 1] \o ss[i + 1]
      BY <2>5, <3>1
    <3>3. m[i + 1].joined[l] = m[i].joined[l] \o ch[i + 1].spec.joined[l]
      <4>1. m[i + 1] = MergeTemplates(m[i], ch[i + 1].spec)
        BY <2>2, <2>7
      <4>2. \A p, c : MergeTemplates(p, c).joined[l] = p.joined[l] \o c.joined[l]
        BY DEF MergeTemplates
      <4> HIDE DEF T
      <4> QED BY <4>1, <4>2
    <3>4. m[i + 1].joined[l] = g[i + 1]
      BY <1>1, <2>7, <3>1, <3>2, <3>3
    <3> QED BY <3>1, <3>4
  <2>8. \A i \in 1..Len(ch) : i \in T
    <3> HIDE DEF T
    <3> QED BY <1>0, <2>6, <2>7, Upwards
  <2>9. Resolved(ch).joined[l] = FlattenSeq(ss)
    BY <1>2, <2>3, <2>4, <2>8
  <2> QED BY <1>2, <1>3, <2>9, FlattenLaw DEF ss
<1> QED BY <1>4, <1>5

\* And means what the env of the chain, joined, means.
LEMMA ResolvedEnv ==
  ASSUME NEW ch, Specced(ch)
  PROVE  Same(Resolved(ch).env, FlattenSeq(EnvAlong(ch)))
<1> DEFINE ss == EnvAlong(ch)
<1>0. Len(ch) \in Nat /\ DOMAIN ch = 1..Len(ch) /\ \A i \in 1..Len(ch) : IsList(ch[i].spec.env)
  BY ListLaw DEF Specced, IsSpec
<1>1. ss = [i \in 1..Len(ch) |-> ss[i]] /\ \A i \in 1..Len(ch) : ss[i] = ch[i].spec.env
  BY <1>0 DEF EnvAlong
<1> HIDE DEF ss
<1>2. IsList(ss) /\ Len(ss) = Len(ch)
  BY <1>0, <1>1, FunctionIsList
<1>3. \A i \in 1..Len(ch) : IsList(ss[i])
  BY <1>0, <1>1
<1>4. CASE ch = <<>>
  <2>1. Len(ss) = 0 /\ ss = <<>>
    BY <1>2, <1>4, EmptyIsList, EmptyList
  <2>2. Resolved(ch).env = <<>>
    BY <1>4 DEF Resolved, Bare
  <2>3. FlattenSeq(ss) = <<>>
    BY <2>1 DEF FlattenSeq
  <2> QED BY <2>2, <2>3, EmptyIsList, SameIsSame DEF ss
<1>5. CASE ch # <<>>
  <2>1. PICK m : Merges(ch, m) /\ MergeChain(ch) = m[Len(ch)]
    BY <1>5, MergeIterates DEF Specced
  <2>2. /\ Len(ch) # 0 => m[1] = ch[1].spec
        /\ \A i \in 1..Len(ch) : i + 1 <= Len(ch) => m[i + 1] = MergeTemplates(m[i], ch[i + 1].spec)
    BY <2>1, MergeSteps
  <2>3. Len(ch) # 0 /\ Len(ch) \in 1..Len(ch) /\ Resolved(ch) = m[Len(ch)]
    BY <1>0, <1>5, <2>1, EmptyList DEF Resolved, Specced
  <2>4. PICK g : Flattens(ss, g) /\ FlattenSeq(ss) = g[Len(ss)]
    BY <1>2, <2>3, FlattenIterates
  <2>5. \A i \in 1..Len(ch) : g[i] = IF i = 1 THEN ss[i] ELSE g[i - 1] \o ss[i]
    BY <1>2, <2>4 DEF Flattens
  <2> DEFINE T == {i \in 1..Len(ch) : Same(m[i].env, g[i])}
  <2>6. Len(ch) # 0 => 1 \in T
    <3>1. 1 \in 1..Len(ch) /\ m[1].env = ss[1] /\ g[1] = ss[1] /\ IsList(ss[1])
      BY <1>0, <1>1, <2>2, <2>3, <2>5
    <3> QED BY <3>1, SameIsSame
  <2>7. ASSUME NEW i \in 1..Len(ch), i + 1 <= Len(ch), i \in T PROVE i + 1 \in T
    <3>1. i + 1 \in 1..Len(ch) /\ i + 1 # 1 /\ (i + 1) - 1 = i
      BY <1>0, <2>7
    <3>2. g[i + 1] = IF i + 1 = 1 THEN ss[i + 1] ELSE g[(i + 1) - 1] \o ss[i + 1]
      BY <2>5, <3>1
    <3>3. m[i + 1].env = MergeKeyed(m[i].env, ss[i + 1])
      <4>1. m[i + 1] = MergeTemplates(m[i], ch[i + 1].spec)
        BY <2>2, <2>7
      <4>2. \A p, c : MergeTemplates(p, c).env = MergeKeyed(p.env, c.env)
        BY DEF MergeTemplates
      <4>3. ss[i + 1] = ch[i + 1].spec.env
        BY <1>1, <3>1
      <4> HIDE DEF T
      <4> QED BY <4>1, <4>2, <4>3
    <3>4. Same(MergeKeyed(m[i].env, ss[i + 1]), g[i] \o ss[i + 1])
      BY <1>3, <2>7, <3>1, MergeKeyedLaw
    <3> QED BY <3>1, <3>2, <3>3, <3>4
  <2>8. \A i \in 1..Len(ch) : i \in T
    <3> HIDE DEF T
    <3> QED BY <1>0, <2>6, <2>7, Upwards
  <2> QED BY <1>2, <2>3, <2>4, <2>8 DEF ss
<1> QED BY <1>4, <1>5

-----------------------------------------------------------------------------
(* The pass.                                                               *)

Later == {"merge", "volume", "isolate", "create"}
Fields == {"pc", "ref", "visited", "chain", "template", "config"}

\* Each entry is the template the next one inherits from.
Links(ch) == \A i \in 2..Len(ch) : ch[i - 1].key = Object(ch[i].spec.inherits)

\* What has been read: linked, from the sandbox's reference up to the one that
\* is fetched next, or to the root.
ChainInv ==
  /\ rec.chain \in Seq(Entry)
  /\ IsFiniteSet(rec.visited) /\ Cardinality(rec.visited) = Len(rec.chain)
  /\ Len(rec.chain) <= MaxInheritanceDepth
  /\ rec.pc \in {"fetch"} \union Later =>
       /\ Links(rec.chain)
       /\ rec.chain # <<>> => rec.chain[Len(rec.chain)].key = Object(sandbox.ref)
  /\ rec.pc = "fetch" =>
       /\ rec.ref = IF rec.chain = <<>> THEN sandbox.ref ELSE rec.chain[1].spec.inherits
       /\ sandbox.ref # None
  /\ rec.pc \in Later =>
       /\ rec.chain = <<>> <=> sandbox.ref = None
       /\ rec.chain # <<>> => rec.chain[1].spec.inherits = None

\* What was made of it.
BuiltInv ==
  /\ rec.pc \in Later => rec.template = Resolved(rec.chain)
  /\ rec.pc \in Later \ {"merge"} => rec.config = Config(rec.template)
  /\ rec.pc \in {"isolate", "create"} => volume # None
  /\ rec.pc = "create" => policy = Policy(rec.config.network, rec.config.httpExec)

StateTypes ==
  /\ DOMAIN templates = Objects /\ \A o \in Objects : templates[o] \in Specs[o] \union {None}
  /\ sandbox \in Sandboxes /\ pod \in {None} \union [tokens : SUBSET TokenNames]
  /\ rec.pc \in {"idle", "fetch", "waiting", "error"} \union Later
  /\ DOMAIN rec = Fields
  /\ agent # None => DOMAIN agent.own = AgentReplaced

PassInv == StateTypes /\ ChainInv /\ BuiltInv

LEMMA PrependLaw ==
  ASSUME NEW S, NEW e \in S, NEW s \in Seq(S)
  PROVE  /\ <<e>> \o s \in Seq(S) /\ Len(<<e>> \o s) = Len(s) + 1 /\ Len(s) \in Nat
         /\ (<<e>> \o s)[1] = e
         /\ \A i \in 1..Len(s) : (<<e>> \o s)[i + 1] = s[i]
<1>1. <<e>> \in Seq(S) /\ Len(<<e>>) = 1 /\ <<e>>[1] = e /\ Len(s) \in Nat
  BY LenProperties
<1>2. /\ <<e>> \o s \in Seq(S) /\ Len(<<e>> \o s) = 1 + Len(s)
      /\ \A i \in 1..(1 + Len(s)) : (<<e>> \o s)[i] = IF i <= 1 THEN <<e>>[i] ELSE s[i - 1]
  BY <1>1, ConcatProperties
<1>3. ASSUME NEW i \in 1..Len(s) PROVE (<<e>> \o s)[i + 1] = s[i]
  <2>1. i + 1 \in 1..(1 + Len(s)) /\ ~(i + 1 <= 1) /\ (i + 1) - 1 = i
    BY <1>1
  <2> QED BY <1>2, <2>1
<1> QED BY <1>1, <1>2, <1>3

\* Entries hold specs.
LEMMA ChainIsSpecced == ASSUME NEW ch \in Seq(Entry) PROVE Specced(ch)
<1>1. IsList(ch)
  BY SeqIsList
<1>2. ASSUME NEW i \in DOMAIN ch PROVE IsSpec(ch[i].spec)
  <2>1. ch[i] \in Entry
    BY LenProperties, ElementOfSeq
  <2> QED BY <2>1, SpecsAssumption DEF Entry
<1> QED BY <1>1, <1>2 DEF Specced

LEMMA ExtendKeeps ==
  ASSUME StateTypes, ChainInv, rec.pc = "fetch", Resolvable(rec.ref), rec' = Extend, UNCHANGED sandbox
  PROVE  ChainInv' /\ rec'.pc \in {"fetch", "merge"} /\ DOMAIN rec' = Fields /\ (rec'.pc = "merge" => rec'.template = Resolved(rec'.chain))
<1> DEFINE o == Object(rec.ref)
           s == templates[o]
           e == [key |-> o, spec |-> s]
           ch == <<e>> \o rec.chain
<1>1. /\ rec'.visited = rec.visited \union {rec.ref} /\ rec'.chain = ch /\ rec'.ref = s.inherits
      /\ rec'.pc = (IF s.inherits = None THEN "merge" ELSE "fetch") /\ DOMAIN rec' = Fields
      /\ rec'.template = (IF s.inherits = None THEN MergeChain(ch) ELSE rec.template)
  BY DEF Extend, StateTypes, Fields
<1>2. e \in Entry /\ e.key = o /\ e.spec = s
  BY DEF StateTypes, Resolvable, Entry
<1>3. rec.chain \in Seq(Entry) /\ Len(rec.chain) < MaxInheritanceDepth /\ rec.ref \notin rec.visited
  BY DEF ChainInv, Resolvable
<1> HIDE DEF e
<1>4. /\ ch \in Seq(Entry) /\ Len(ch) = Len(rec.chain) + 1 /\ Len(rec.chain) \in Nat
      /\ ch[1] = e /\ \A i \in 1..Len(rec.chain) : ch[i + 1] = rec.chain[i]
  BY <1>2, <1>3, PrependLaw
<1> HIDE DEF ch
<1>5. ch # <<>>
  BY <1>4
<1>6. IsFiniteSet(rec'.visited) /\ Cardinality(rec'.visited) = Len(ch) /\ Len(ch) <= MaxInheritanceDepth
  <2>1. IsFiniteSet(rec.visited) /\ Cardinality(rec.visited) = Len(rec.chain)
    BY DEF ChainInv
  <2>2. IsFiniteSet(rec.visited \union {rec.ref}) /\ Cardinality(rec.visited \union {rec.ref}) = Cardinality(rec.visited) + 1
    BY <1>3, <2>1, FS_AddElement
  <2> QED BY <1>1, <1>3, <1>4, <2>1, <2>2, DepthAssumption
<1>7. rec.ref = (IF rec.chain = <<>> THEN sandbox.ref ELSE rec.chain[1].spec.inherits) /\ sandbox.ref # None
  BY DEF ChainInv
<1>8. rec.chain = <<>> <=> Len(rec.chain) = 0
  <2>1. IsList(rec.chain)
    BY <1>3, SeqIsList
  <2> QED BY <2>1, EmptyList
<1>9. ASSUME NEW i \in 2..Len(ch) PROVE ch[i - 1].key = Object(ch[i].spec.inherits)
  <2>1. CASE i = 2
    <3>1. rec.chain # <<>> /\ 1 \in 1..Len(rec.chain) /\ 1 + 1 = 2 /\ 2 - 1 = 1
      BY <1>4, <1>8, <2>1
    <3>2. ch[2] = rec.chain[1]
      BY <1>4, <3>1
    <3> QED BY <1>2, <1>4, <1>7, <2>1, <3>1, <3>2
  <2>2. CASE i # 2
    <3> DEFINE j == i - 1
    <3>1. j \in 2..Len(rec.chain) /\ j \in 1..Len(rec.chain) /\ j + 1 = i /\ j - 1 \in 1..Len(rec.chain) /\ (j - 1) + 1 = i - 1
      BY <1>4, <2>2
    <3>2. ch[i] = rec.chain[j] /\ ch[i - 1] = rec.chain[j - 1]
      BY <1>4, <3>1
    <3>3. rec.chain[j - 1].key = Object(rec.chain[j].spec.inherits)
      BY <3>1 DEF ChainInv, Links
    <3> QED BY <3>2, <3>3
  <2> QED BY <2>1, <2>2
<1>10. Links(ch)
  BY <1>9 DEF Links
<1>11. ch[Len(ch)].key = Object(sandbox.ref)
  <2>1. CASE rec.chain = <<>>
    <3>1. Len(ch) = 1
      BY <1>4, <1>8, <2>1
    <3> QED BY <1>2, <1>4, <1>7, <2>1, <3>1
  <2>2. CASE rec.chain # <<>>
    <3>1. Len(rec.chain) \in 1..Len(rec.chain)
      BY <1>4, <1>8, <2>2
    <3>2. ch[Len(ch)] = rec.chain[Len(rec.chain)]
      BY <1>4, <3>1
    <3> QED BY <2>2, <3>2 DEF ChainInv
  <2> QED BY <2>1, <2>2
<1>12. \A r : Object(r)' = Object(r)
  BY DEF Object
<1>13. rec'.chain = ch /\ sandbox' = sandbox /\ rec'.pc \in {"fetch", "merge"}
  BY <1>1
<1>14. Links(rec.chain)'
  BY <1>9, <1>12, <1>13 DEF Links
<1>15. (rec.chain # <<>> => rec.chain[Len(rec.chain)].key = Object(sandbox.ref))'
  BY <1>11, <1>12, <1>13
<1>16. rec'.pc = "fetch" => rec'.ref = ch[1].spec.inherits /\ sandbox.ref # None
  BY <1>1, <1>2, <1>4, <1>7
<1>17. rec'.pc \in Later => sandbox.ref # None /\ ch[1].spec.inherits = None
  BY <1>1, <1>2, <1>4, <1>7 DEF Later
<1>18. ChainInv'
  BY <1>4, <1>5, <1>6, <1>13, <1>14, <1>15, <1>16, <1>17 DEF ChainInv
<1>19. rec'.pc = "merge" => rec'.template = Resolved(ch)
  BY <1>1, <1>5 DEF Resolved
<1> QED BY <1>1, <1>13, <1>18, <1>19

\* A field of the sandbox hides that of its template, and each is one that a
\* user gave.
LEMMA OverlaidIsGiven ==
  ASSUME sandbox \in Sandboxes, NEW ch \in Seq(Entry), NEW f \in Replaced
  PROVE  LET x == Overlay(Resolved(ch).own, sandbox.own)[f]
         IN x = (IF sandbox.own[f] # None THEN sandbox.own[f] ELSE Resolved(ch).own[f]) /\ x \in Given(f) \union {None}
<1> DEFINE x == Overlay(Resolved(ch).own, sandbox.own)[f]
           T == Resolved(ch).own[f]
           W == (UNION {Specs[o] : o \in Objects}) \union Sandboxes
<1>1. Specced(ch) /\ IsList(ch)
  BY ChainIsSpecced, SeqIsList
<1>2. DOMAIN Resolved(ch).own = Replaced /\ Len(ch) \in Nat /\ NearestUp(OwnAlong(ch, f), Len(ch), T) /\ DOMAIN ch = 1..Len(ch)
  BY <1>1, ResolvedNearest DEF IsSpec
<1>3. x = (IF sandbox.own[f] # None THEN sandbox.own[f] ELSE T)
  BY <1>2 DEF Overlay
<1>4. Given(f) = {s.own[f] : s \in W}
  BY DEF Given
<1>5. sandbox.own[f] \in Given(f)
  <2>1. sandbox \in W
    OBVIOUS
  <2> QED BY <1>4, <2>1, Zenon
<1>6. T \in Given(f) \union {None}
  <2>1. CASE T = None
    BY <2>1
  <2>2. CASE T # None
    <3> HIDE DEF T
    <3>1. \E i \in 1..Len(ch) : OwnAlong(ch, f)[i] = T
      BY <1>2, <2>2, NearestGiven
    <3>2. PICK i \in 1..Len(ch) : OwnAlong(ch, f)[i] = T
      BY <3>1
    <3>3. ch[i].spec.own[f] = T
      BY <1>2, <3>2 DEF OwnAlong
    <3>4. ch[i] \in Entry
      BY <1>2, ElementOfSeq
    <3>5. ch[i].spec \in UNION {Specs[o] : o \in Objects}
      BY <3>4 DEF Entry
    <3>6. ch[i].spec \in W
      BY <3>5
    <3> QED BY <1>4, <3>3, <3>6, Zenon
  <2> QED BY <2>1, <2>2
<1> HIDE DEF T
<1>7. x \in Given(f) \union {None}
  BY <1>3, <1>5, <1>6
<1> QED BY <1>3, <1>7 DEF T

\* What a pass makes of its chain.
LEMMA ConfigIsGiven ==
  ASSUME sandbox \in Sandboxes, NEW ch \in Seq(Entry)
  PROVE  LET c == Config(Resolved(ch))
         IN /\ c.httpExec \in BOOLEAN
            /\ c.storage \in Given("storage") \union {None} /\ Claim(c.storage) # None
            /\ c.network \in Given("network") \union {None} /\ Policy(c.network, c.httpExec) # None
<1> DEFINE own == Overlay(Resolved(ch).own, sandbox.own)
           c == Config(Resolved(ch))
<1>1. c.storage = own["storage"] /\ c.network = own["network"] /\ c.httpExec \in BOOLEAN
  BY DEF Config
<1>2. "storage" \in Replaced /\ "network" \in Replaced
  BY DEF Replaced
<1>3. own["storage"] \in Given("storage") \union {None} /\ own["network"] \in Given("network") \union {None}
  BY <1>2, OverlaidIsGiven
<1> HIDE DEF own, c
<1>4. Claim(c.storage) # None
  <2>1. Claim(c.storage) \in {Claim(z) : z \in Given("storage") \union {None}}
    BY <1>1, <1>3
  <2> QED BY <2>1, NoneAssumption
<1>5. Policy(c.network, c.httpExec) # None
  <2>1. Policy(c.network, c.httpExec) \in {Policy(n, h) : n \in Given("network") \union {None}, h \in BOOLEAN}
    BY <1>1, <1>3
  <2> QED BY <2>1, NoneAssumption
<1>6. c.httpExec \in BOOLEAN /\ c.storage \in Given("storage") \union {None} /\ c.network \in Given("network") \union {None}
  BY <1>1, <1>3
<1> QED BY <1>4, <1>5, <1>6 DEF c

LEMMA InitPass == Init => PassInv
<1> SUFFICES ASSUME Init PROVE PassInv
  OBVIOUS
<1> USE DEF Init, Idle
<1>1. rec.pc = "idle" /\ rec.chain = <<>> /\ rec.visited = {} /\ DOMAIN rec = Fields
  BY DEF Fields
<1>2. StateTypes
  BY <1>1 DEF StateTypes
<1>3. <<>> \in Seq(Entry) /\ Len(<<>>) = 0
  BY EmptySeq
<1>4. IsFiniteSet({}) /\ Cardinality({}) = 0
  BY FS_EmptySet
<1>5. ChainInv
  BY <1>1, <1>3, <1>4, DepthAssumption DEF ChainInv, Later
<1>6. BuiltInv
  BY <1>1 DEF BuiltInv, Later
<1> QED BY <1>2, <1>5, <1>6 DEF PassInv

\* A pass that is over, or has not begun, has read nothing.
LEMMA Over0 ==
  ASSUME rec'.pc \in {"idle", "waiting", "error"}, rec' = Idle \/ rec' = [Idle EXCEPT !.pc = rec'.pc]
  PROVE  ChainInv' /\ BuiltInv' /\ DOMAIN rec' = Fields
<1>1. rec'.chain = <<>> /\ rec'.visited = {} /\ DOMAIN rec' = Fields
  BY DEF Idle, Fields
<1>2. <<>> \in Seq(Entry) /\ Len(<<>>) = 0 /\ IsFiniteSet({}) /\ Cardinality({}) = 0
  BY EmptySeq, FS_EmptySet
<1>3. rec'.pc \notin Later /\ rec'.pc # "fetch"
  BY DEF Later
<1>4. rec'.pc \notin {"fetch"} \union Later /\ rec'.pc \notin Later \ {"merge"} /\ rec'.pc \notin {"isolate", "create"} /\ rec'.pc # "create"
  BY <1>3 DEF Later
<1>5. ChainInv'
  BY <1>1, <1>2, <1>3, <1>4, DepthAssumption DEF ChainInv
<1> QED BY <1>1, <1>3, <1>4, <1>5 DEF BuiltInv

\* The steps after the chain leave it as it is.
LEMMA ChainKept ==
  ASSUME ChainInv, StateTypes, sandbox' = sandbox, rec.pc \in Later, rec'.pc \in Later,
         rec'.chain = rec.chain, rec'.visited = rec.visited
  PROVE  ChainInv'
<1>1. \A r : Object(r)' = Object(r)
  BY DEF Object
<1>2. Links(rec.chain)'
  BY <1>1 DEF Links, ChainInv
<1>3. (rec.chain # <<>> => rec.chain[Len(rec.chain)].key = Object(sandbox.ref))'
  BY <1>1 DEF ChainInv
<1>4. rec'.pc # "fetch"
  BY DEF Later
<1> QED BY <1>2, <1>3, <1>4 DEF ChainInv

LEMMA FailedFields == DOMAIN Failed = Fields /\ Failed.pc = "error" /\ Failed = [Idle EXCEPT !.pc = "error"]
BY DEF Failed, Idle, Fields


\* The agent of the status sets the fields of one.
LEMMA AgentFields ==
  ASSUME PassInv, rec.pc \in Later
  PROVE  AgentSpec # None => DOMAIN AgentSpec.own = AgentReplaced
<1>1. rec.template = Resolved(rec.chain) /\ Specced(rec.chain)
  BY ChainIsSpecced DEF PassInv, BuiltInv, ChainInv
<1>2. IsSpec(rec.template)
  BY <1>1, ResolvedNearest
<1>3. DOMAIN rec.template.harness.agent.own = AgentReplaced
  BY <1>2 DEF IsSpec
<1>4. agent # None => DOMAIN agent.own = AgentReplaced
  BY DEF PassInv, StateTypes
<1> QED BY <1>3, <1>4 DEF AgentSpec

LEMMA AbortKeeps ==
  ASSUME PassInv, rec.pc \in Later, Abort
  PROVE  PassInv'
<1>1. rec' = Failed /\ agent' = AgentSpec /\ UNCHANGED <<templates, sandbox, volume, policy, pod>>
  BY DEF Abort
<1>2. rec'.pc = "error" /\ rec' = [Idle EXCEPT !.pc = rec'.pc]
  BY <1>1, FailedFields
<1>3. ChainInv' /\ BuiltInv' /\ DOMAIN rec' = Fields
  BY <1>2, Over0
<1>4. agent' # None => DOMAIN agent'.own = AgentReplaced
  BY <1>1, AgentFields
<1> QED BY <1>1, <1>2, <1>3, <1>4 DEF PassInv, StateTypes


LEMMA BeginKeeps == ASSUME PassInv, Begin PROVE PassInv'
<1> USE DEF Begin, Idle
<1>1. /\ rec'.chain = <<>> /\ rec'.visited = {} /\ DOMAIN rec' = Fields /\ rec'.template = Bare
      /\ UNCHANGED <<templates, sandbox, agent, volume, policy, pod>>
  BY DEF Fields, objects
<1>2. \/ sandbox.ref = None /\ rec'.pc = "merge"
      \/ sandbox.ref # None /\ rec'.pc = "fetch" /\ rec'.ref = sandbox.ref
  OBVIOUS
<1> HIDE DEF Begin, Idle
<1>3. <<>> \in Seq(Entry) /\ Len(<<>>) = 0 /\ IsFiniteSet({}) /\ Cardinality({}) = 0
  BY EmptySeq, FS_EmptySet
<1>4. Links(rec.chain)'
  BY <1>1, <1>3 DEF Links
<1>5. ChainInv'
  BY <1>1, <1>2, <1>3, <1>4, DepthAssumption DEF ChainInv, Later
<1>6. Resolved(rec'.chain) = Bare
  BY <1>1 DEF Resolved
<1>7. BuiltInv'
  BY <1>1, <1>2, <1>6 DEF BuiltInv, Later
<1>8. StateTypes'
  BY <1>1, <1>2 DEF PassInv, StateTypes, Later
<1> QED BY <1>5, <1>7, <1>8 DEF PassInv

LEMMA FetchKeeps == ASSUME PassInv, Fetch PROVE PassInv'
<1>1. UNCHANGED <<templates, sandbox, agent, volume, policy, pod>> /\ rec.pc = "fetch"
  BY DEF Fetch, objects
<1>2. CASE rec' = Failed
  <2>1. rec'.pc = "error" /\ rec' = [Idle EXCEPT !.pc = rec'.pc]
    BY <1>2, FailedFields
  <2>2. ChainInv' /\ BuiltInv' /\ DOMAIN rec' = Fields
    BY <2>1, Over0
  <2> QED BY <1>1, <2>1, <2>2 DEF PassInv, StateTypes
<1>3. CASE Resolvable(rec.ref) /\ rec' = Extend
  <2>1. /\ ChainInv' /\ rec'.pc \in {"fetch", "merge"} /\ DOMAIN rec' = Fields
        /\ rec'.pc = "merge" => rec'.template = Resolved(rec'.chain)
    BY <1>1, <1>3, ExtendKeeps DEF PassInv
  <2>2. BuiltInv'
    BY <2>1 DEF BuiltInv, Later
  <2>3. StateTypes'
    BY <1>1, <2>1 DEF PassInv, StateTypes, Later
  <2> QED BY <2>1, <2>2, <2>3 DEF PassInv
<1> QED BY <1>2, <1>3 DEF Fetch

LEMMA MergeKeeps == ASSUME PassInv, Merge PROVE PassInv'
<1>1. rec.pc = "merge" /\ rec.pc \in Later
  BY DEF Merge, Later
<1>2. CASE rec' = [rec EXCEPT !.pc = "volume", !.config = Config(rec.template)] /\ UNCHANGED <<templates, sandbox, objects>>
  <2>1. /\ rec'.pc = "volume" /\ rec'.config = Config(rec.template) /\ rec'.chain = rec.chain
        /\ rec'.visited = rec.visited /\ rec'.template = rec.template /\ DOMAIN rec' = Fields
        /\ UNCHANGED <<templates, sandbox, agent, volume, policy, pod>>
    BY <1>2 DEF PassInv, StateTypes, Fields, objects
  <2>2. ChainInv'
    BY <1>1, <2>1, ChainKept DEF PassInv, Later
  <2>3. Config(rec.template)' = Config(rec.template)
    BY <2>1 DEF Config, MountPath, Lists, HasMemory
  <2>4. (rec.template = Resolved(rec.chain))'
    BY <1>1, <2>1 DEF PassInv, BuiltInv
  <2>5. BuiltInv'
    BY <2>1, <2>3, <2>4 DEF BuiltInv
  <2>6. StateTypes'
    BY <2>1 DEF PassInv, StateTypes, Later
  <2> QED BY <2>2, <2>5, <2>6 DEF PassInv
<1> QED BY <1>1, <1>2, AbortKeeps DEF Merge

\* A step of the pass after the merge that goes on.
LEMMA GoesOn ==
  ASSUME PassInv, NEW to \in {"isolate", "create"}, rec' = [rec EXCEPT !.pc = to], rec.pc \in Later \ {"merge"},
         UNCHANGED <<templates, sandbox, agent, pod>>
  PROVE  /\ ChainInv' /\ StateTypes' /\ rec'.config = rec.config /\ rec'.pc = to
         /\ (rec.template = Resolved(rec.chain))' /\ (rec.config = Config(rec.template))'
<1>1. /\ rec'.pc = to /\ rec'.config = rec.config /\ rec'.chain = rec.chain
      /\ rec'.visited = rec.visited /\ rec'.template = rec.template /\ DOMAIN rec' = Fields
  BY DEF PassInv, StateTypes, Fields
<1>2. ChainInv'
  BY <1>1, ChainKept DEF PassInv, Later
<1>3. (rec.template = Resolved(rec.chain))'
  BY <1>1 DEF PassInv, BuiltInv
<1>4. Config(rec.template)' = Config(rec.template)
  BY <1>1 DEF Config, MountPath, Lists, HasMemory
<1>5. (rec.config = Config(rec.template))'
  BY <1>1, <1>4 DEF PassInv, BuiltInv
<1>6. StateTypes'
  BY <1>1 DEF PassInv, StateTypes, Later
<1> QED BY <1>1, <1>2, <1>3, <1>5, <1>6

LEMMA ConfigNow ==
  ASSUME PassInv, rec.pc \in Later \ {"merge"}
  PROVE  rec.config.httpExec \in BOOLEAN /\ Claim(rec.config.storage) # None /\ Policy(rec.config.network, rec.config.httpExec) # None
         /\ rec.config.network \in Given("network") \union {None}
BY ConfigIsGiven DEF PassInv, BuiltInv, ChainInv, StateTypes

LEMMA VolumeKeeps == ASSUME PassInv, EnsureVolume PROVE PassInv'
<1>1. rec.pc = "volume" /\ rec.pc \in Later /\ rec.pc \in Later \ {"merge"}
  BY DEF EnsureVolume, Later
<1>2. CASE /\ rec' = [rec EXCEPT !.pc = "isolate"]
           /\ volume' = IF volume # None THEN volume ELSE Claim(rec.config.storage)
           /\ UNCHANGED <<templates, sandbox, agent, policy, pod>>
  <2>1. /\ ChainInv' /\ StateTypes' /\ rec'.config = rec.config /\ rec'.pc = "isolate"
        /\ (rec.template = Resolved(rec.chain))' /\ (rec.config = Config(rec.template))'
    BY <1>1, <1>2, GoesOn
  <2>2. volume' # None
    BY <1>1, <1>2, ConfigNow
  <2>3. BuiltInv'
    BY <2>1, <2>2 DEF BuiltInv
  <2> QED BY <2>1, <2>3 DEF PassInv
<1> QED BY <1>1, <1>2, AbortKeeps DEF EnsureVolume

LEMMA IsolateKeeps == ASSUME PassInv, Isolate PROVE PassInv'
<1>1. rec.pc = "isolate" /\ rec.pc \in Later /\ rec.pc \in Later \ {"merge"}
  BY DEF Isolate, Later
<1>2. CASE /\ rec' = [rec EXCEPT !.pc = "create"]
           /\ policy' = Policy(rec.config.network, rec.config.httpExec)
           /\ UNCHANGED <<templates, sandbox, agent, volume, pod>>
  <2>1. /\ ChainInv' /\ StateTypes' /\ rec'.config = rec.config /\ rec'.pc = "create"
        /\ (rec.template = Resolved(rec.chain))' /\ (rec.config = Config(rec.template))'
    BY <1>1, <1>2, GoesOn
  <2>2. volume' # None
    BY <1>1, <1>2 DEF PassInv, BuiltInv
  <2>3. (policy = Policy(rec.config.network, rec.config.httpExec))'
    BY <1>2, <2>1
  <2>4. BuiltInv'
    BY <2>1, <2>2, <2>3 DEF BuiltInv
  <2> QED BY <2>1, <2>4 DEF PassInv
<1> QED BY <1>1, <1>2, AbortKeeps DEF Isolate

\* A pass that is over.
LEMMA EndKeeps ==
  ASSUME PassInv, NEW to \in {"idle", "waiting", "error"}, rec' = [Idle EXCEPT !.pc = to] \/ (to = "idle" /\ rec' = Idle),
         UNCHANGED <<templates, sandbox>>, pod' \in {None} \union [tokens : SUBSET TokenNames],
         agent' # None => DOMAIN agent'.own = AgentReplaced
  PROVE  PassInv'
<1>1. rec'.pc = to
  BY DEF Idle
<1>2. ChainInv' /\ BuiltInv' /\ DOMAIN rec' = Fields
  BY <1>1, Over0
<1> QED BY <1>1, <1>2 DEF PassInv, StateTypes

LEMMA CreateKeeps == ASSUME PassInv, CreatePod PROVE PassInv'
<1>1. rec.pc = "create" /\ rec.pc \in Later
  BY DEF CreatePod, Later
<1>2. AgentSpec # None => DOMAIN AgentSpec.own = AgentReplaced
  BY <1>1, AgentFields
<1>3. agent # None => DOMAIN agent.own = AgentReplaced
  BY DEF PassInv, StateTypes
<1>4. CASE rec' = [Idle EXCEPT !.pc = "waiting"] /\ UNCHANGED <<templates, sandbox, pod>> /\ agent' \in {agent, AgentSpec}
  <2>1. pod' \in {None} \union [tokens : SUBSET TokenNames]
    BY <1>4 DEF PassInv, StateTypes
  <2>2. agent' # None => DOMAIN agent'.own = AgentReplaced
    BY <1>2, <1>3, <1>4
  <2> QED BY <1>4, <2>1, <2>2, EndKeeps
<1>5. CASE rec' = [Idle EXCEPT !.pc = "waiting"] /\ UNCHANGED <<templates, sandbox>> /\ agent' = AgentSpec
           /\ pod' = [tokens |-> Tokens(rec.config)]
  <2>1. pod' \in {None} \union [tokens : SUBSET TokenNames]
    BY <1>5 DEF Tokens
  <2>2. agent' # None => DOMAIN agent'.own = AgentReplaced
    BY <1>2, <1>5
  <2> QED BY <1>5, <2>1, <2>2, EndKeeps
<1> QED BY <1>1, <1>4, <1>5, AbortKeeps DEF CreatePod

LEMMA EnvironmentKeeps == ASSUME PassInv, Requeue \/ LosePod \/ EditTemplate \/ UNCHANGED vars PROVE PassInv'
<1>1. CASE Requeue
  <2>1. /\ rec' = Idle /\ UNCHANGED <<templates, sandbox, agent, pod>>
    BY <1>1 DEF Requeue, objects
  <2> QED BY <2>1, EndKeeps DEF PassInv, StateTypes
<1>2. CASE UNCHANGED <<sandbox, rec, agent, volume, policy>> /\ DOMAIN templates' = Objects
           /\ (\A o \in Objects : templates'[o] \in Specs[o] \union {None}) /\ pod' \in {None} \union [tokens : SUBSET TokenNames]
  <2>1. \A r : Object(r)' = Object(r)
    BY <1>2 DEF Object
  <2>2. Links(rec.chain)' <=> Links(rec.chain)
    BY <1>2, <2>1 DEF Links
  <2>3. ChainInv'
    BY <1>2, <2>1, <2>2 DEF PassInv, ChainInv
  <2>4. Config(rec.template)' = Config(rec.template)
    BY <1>2 DEF Config, MountPath, Lists, HasMemory
  <2>5. BuiltInv'
    BY <1>2, <2>4 DEF PassInv, BuiltInv
  <2>6. StateTypes'
    BY <1>2 DEF PassInv, StateTypes
  <2> QED BY <2>3, <2>5, <2>6 DEF PassInv
<1>3. CASE EditTemplate
  <2>1. PICK o \in Objects : \E s \in Specs[o] \union {None} : templates' = [templates EXCEPT ![o] = s]
    BY <1>3 DEF EditTemplate
  <2>2. PICK s \in Specs[o] \union {None} : templates' = [templates EXCEPT ![o] = s]
    BY <2>1
  <2>3. DOMAIN templates' = Objects /\ \A q \in Objects : templates'[q] \in Specs[q] \union {None}
    BY <2>2 DEF PassInv, StateTypes
  <2> QED BY <1>2, <1>3, <2>3 DEF EditTemplate, objects, PassInv, StateTypes
<1>4. CASE LosePod
  BY <1>2, <1>4 DEF LosePod, PassInv, StateTypes
<1>5. CASE UNCHANGED vars
  BY <1>2, <1>5 DEF vars, PassInv, StateTypes
<1> QED BY <1>1, <1>3, <1>4, <1>5

LEMMA StepPass == PassInv /\ [Next]_vars => PassInv'
BY BeginKeeps, FetchKeeps, MergeKeeps, VolumeKeeps, IsolateKeeps, CreateKeeps, EnvironmentKeeps DEF Next, Reconcile

LEMMA AlwaysPass == Spec => []PassInv
BY InitPass, StepPass, PTL DEF Spec

-----------------------------------------------------------------------------
(* What a pass leaves behind.                                              *)

\* Whichever return of the builder is taken, the policy admits what the spec
\* asks for, DNS and the Router, and nothing else (networkpolicy.go:38-52,
\* :84-130).
THEOREM PolicyMeansItsSpec == Spec => []PolicyMeansSpec
<1>1. PassInv => PolicyMeansSpec
  <2> SUFFICES ASSUME PassInv, rec.pc = "isolate" PROVE PolicyMeansSpec
    BY DEF PolicyMeansSpec
  <2>1. rec.config.httpExec \in BOOLEAN
    BY ConfigNow DEF Later
  <2> DEFINE n == rec.config.network
             h == rec.config.httpExec
  <2> HIDE DEF n, h
  <2>2. ASSUME NEW p, NEW t
        PROVE  LET open == n # None /\ n.internet
                   joined == n # None /\ ~open /\ n.peers /\ p = "peer"
               IN /\ Admits(Policy(n, h).egress, p, t) <=>
                       \/ t = "53"
                       \/ open
                       \/ joined
                       \/ n # None /\ \E r \in n.egress :
                            Matches(r, Cidr(r) \union (IF r.service = None THEN {} ELSE {"anyPod"}), p, t)
                  /\ Admits(Policy(n, h).ingress, p, t) <=>
                       \/ p = "router" /\ t = "9000" /\ h
                       \/ joined
                       \/ n # None /\ ~open /\ \E r \in n.ingress : Matches(r, Cidr(r), p, t)
    BY <2>1, PolicyLaw DEF h
  <2> USE DEF n, h
  <2> QED BY <2>2, Zenon DEF PolicyMeansSpec
<1> QED BY <1>1, AlwaysPass, PTL

\* The builder opens the Router's port for no other reason than HTTP exec.
LEMMA RouterLaw ==
  ASSUME NEW n \in Given("network") \union {None}, NEW h \in BOOLEAN
  PROVE  RouterRule \in Policy(n, h).ingress <=> h
<1>1. RouterRule \in Policy(n, h).ingress <=> RouterRule \in UserIngress(n) \/ h
  BY DEF Policy
<1>2. RouterRule.peers = {"router"}
  BY DEF RouterRule, Allow
<1>3. PeerRule.peers # {"router"}
  BY DEF PeerRule, Allow
<1>4. ASSUME n # None, NEW r \in n.ingress PROVE IngressRule(r).peers # {"router"}
  <2>1. r.cidr # "router"
    BY <1>4, NoneAssumption
  <2>2. IngressRule(r).peers = Cidr(r)
    BY DEF IngressRule, Allow
  <2> QED BY <2>1, <2>2 DEF Cidr
<1>5. RouterRule \notin UserIngress(n)
  <2> SUFFICES ASSUME RouterRule \in UserIngress(n) PROVE FALSE
    OBVIOUS
  <2>1. n # None
    BY DEF UserIngress
  <2>2. RouterRule \in {IngressRule(r) : r \in n.ingress} \/ RouterRule = PeerRule
    BY <2>1 DEF UserIngress
  <2>3. CASE RouterRule = PeerRule
    BY <1>2, <1>3, <2>3
  <2>4. CASE RouterRule \in {IngressRule(r) : r \in n.ingress}
    <3>1. \E r \in n.ingress : RouterRule = IngressRule(r)
      BY <2>4, Zenon
    <3> QED BY <1>2, <1>4, <2>1, <3>1
  <2> QED BY <2>2, <2>3, <2>4
<1> QED BY <1>1, <1>5

\* A pod comes after its volume and a policy that lets the Router reach it just
\* when it holds the token (sandbox_controller.go:349-418).
THEOREM APodComesLast == Spec => PodComesLast
<1> DEFINE Step == pod = None /\ pod' # None =>
                     volume # None /\ policy # None /\ (RouterRule \in policy.ingress <=> pod'.tokens # {})
<1>1. PassInv /\ [Next]_vars => [Step]_vars
  <2> SUFFICES ASSUME PassInv, [Next]_vars, pod = None, pod' # None
               PROVE  volume # None /\ policy # None /\ (RouterRule \in policy.ingress <=> pod'.tokens # {})
    OBVIOUS
  <2>1. rec.pc = "create" /\ pod' = [tokens |-> Tokens(rec.config)]
    BY DEF Next, Reconcile, Begin, Fetch, Merge, EnsureVolume, Isolate, CreatePod, Abort, Requeue, LosePod,
           EditTemplate, objects, vars
  <2>2. volume # None /\ policy = Policy(rec.config.network, rec.config.httpExec)
    BY <2>1 DEF PassInv, BuiltInv
  <2>3. /\ rec.config.httpExec \in BOOLEAN /\ policy # None
        /\ rec.config.network \in Given("network") \union {None}
    BY <2>1, <2>2, ConfigNow DEF Later
  <2>4. RouterRule \in policy.ingress <=> rec.config.httpExec
    BY <2>2, <2>3, RouterLaw
  <2>5. pod'.tokens # {} <=> rec.config.httpExec
    BY <2>1, <2>3 DEF Tokens, TokenNames
  <2> QED BY <2>2, <2>3, <2>4, <2>5
<1> QED BY <1>1, AlwaysPass, PTL DEF Spec, PodComesLast

\* Values have their types, and the chain is whole.
LEMMA PassTypes == PassInv => TypeOK
<1> SUFFICES ASSUME PassInv PROVE TypeOK
  OBVIOUS
<1>1. ASSUME NEW o \in Objects, templates[o] # None PROVE IsSpec(templates[o])
  <2>1. templates[o] \in Specs[o]
    BY <1>1 DEF PassInv, StateTypes
  <2> QED BY <2>1, SpecsAssumption
<1>2. rec.pc \in {"idle", "fetch", "merge", "volume", "isolate", "create", "waiting", "error"}
  BY DEF PassInv, StateTypes, Later
<1> QED BY <1>1, <1>2 DEF PassInv, StateTypes, ChainInv, TypeOK

LEMMA PassWhole == PassInv => WholeChain
<1> SUFFICES ASSUME PassInv, rec.pc = "create" PROVE WholeChain
  BY DEF WholeChain
<1>1. /\ Links(rec.chain) /\ (rec.chain = <<>> <=> sandbox.ref = None)
      /\ rec.chain # <<>> => rec.chain[Len(rec.chain)].key = Object(sandbox.ref) /\ rec.chain[1].spec.inherits = None
      /\ rec.chain \in Seq(Entry)
  BY DEF PassInv, ChainInv, Later
<1>2. rec.chain # <<>> => Head(rec.chain) = rec.chain[1]
  BY <1>1
<1> QED BY <1>1, <1>2 DEF WholeChain, Chain, Links

\* Appending is joining a list of one.
LEMMA AppendIs == ASSUME NEW s, IsList(s), NEW x PROVE Append(s, x) = s \o <<x>>
<1> DEFINE S == ToSet(s) \union {x}
<1>1. s \in Seq(ToSet(s)) /\ ToSet(s) \subseteq S
  BY ListLaw
<1> HIDE DEF S
<1>2. s \in Seq(S) /\ x \in S
  BY <1>1 DEF S
<1> QED BY <1>2, AppendIsConcat

\* What a pass has read and built before it creates the pod.
LEMMA BeforePod ==
  ASSUME PassInv, rec.pc = "create"
  PROVE  /\ rec.chain \in Seq(Entry) /\ Specced(rec.chain) /\ IsList(rec.chain)
         /\ rec.template = Resolved(rec.chain) /\ rec.config = Config(rec.template)
         /\ sandbox \in Sandboxes /\ DOMAIN sandbox.own = Replaced /\ DOMAIN sandbox.joined = Joined
         /\ IsList(sandbox.env) /\ \A l \in Joined : IsList(sandbox.joined[l])
<1>1. rec.chain \in Seq(Entry) /\ rec.template = Resolved(rec.chain) /\ rec.config = Config(rec.template) /\ sandbox \in Sandboxes
  BY DEF PassInv, StateTypes, ChainInv, BuiltInv, Later
<1>2. Specced(rec.chain) /\ IsList(rec.chain)
  BY <1>1, ChainIsSpecced, SeqIsList
<1>3. /\ DOMAIN sandbox.own = Replaced /\ DOMAIN sandbox.joined = Joined
      /\ IsList(sandbox.env) /\ \A l \in Joined : IsList(sandbox.joined[l])
  BY <1>1, SpecsAssumption
<1> QED BY <1>1, <1>2, <1>3

\* Each field is the nearest value given for it.
LEMMA OwnIsNearest ==
  ASSUME PassInv, rec.pc = "create", NEW f \in Replaced
  PROVE  Nearest(OwnOf(f)) = Overlay(rec.template.own, sandbox.own)[f]
<1> DEFINE n == Len(rec.chain)
           v == OwnAlong(rec.chain, f)
           w == v \o <<sandbox.own[f]>>
           x == rec.template.own[f]
<1>1. Specced(rec.chain) /\ rec.template = Resolved(rec.chain) /\ IsList(rec.chain)
  BY BeforePod
<1>2. n \in Nat /\ NearestUp(v, n, x) /\ DOMAIN rec.chain = 1..n /\ DOMAIN rec.template.own = Replaced
  BY <1>1, ResolvedNearest DEF IsSpec
<1>3. v = [i \in 1..n |-> v[i]]
  BY <1>2 DEF OwnAlong
<1>4. OwnOf(f) = w
  BY DEF OwnOf, OwnAlong, Chain
<1> HIDE DEF n, v, x
<1>5. IsList(v) /\ Len(v) = n
  BY <1>2, <1>3, FunctionIsList
<1>6. IsList(<<sandbox.own[f]>>) /\ Len(<<sandbox.own[f]>>) = 1 /\ <<sandbox.own[f]>>[1] = sandbox.own[f]
  BY OneIsList
<1>7. IsList(w) /\ Len(w) = n + 1 /\ (\A i \in 1..n : w[i] = v[i]) /\ w[n + 1] = sandbox.own[f]
  BY <1>2, <1>5, <1>6, ConcatList
<1> HIDE DEF w
<1>8. NearestUp(w, n, x)
  BY <1>2, <1>7, NearestAgree
<1>9. NearestUp(w, n + 1, IF w[n + 1] # None THEN w[n + 1] ELSE x)
  BY <1>2, <1>8, NearestStep
<1>10. Nearest(w) = IF w[n + 1] # None THEN w[n + 1] ELSE x
  BY <1>7, <1>9, NearestIs
<1> QED BY <1>2, <1>4, <1>7, <1>10 DEF Overlay, x

LEMMA HarnessIsNearest ==
  ASSUME PassInv, rec.pc = "create"
  PROVE  /\ \A f \in HarnessReplaced : Nearest(HarnessOf(f)) = rec.template.harness.own[f]
         /\ \A f \in AgentReplaced : Nearest(AgentOf(f)) = rec.template.harness.agent.own[f]
         /\ ~rec.template.harness.agent.given => \A f \in AgentReplaced : rec.template.harness.agent.own[f] = None
<1> DEFINE n == Len(rec.chain)
<1>1. Specced(rec.chain) /\ rec.template = Resolved(rec.chain) /\ IsList(rec.chain)
  BY BeforePod
<1>2. /\ n \in Nat /\ DOMAIN rec.chain = 1..n /\ IsSpec(rec.template)
      /\ \A f \in HarnessReplaced : NearestUp(HarnessAlong(rec.chain, f), n, rec.template.harness.own[f])
      /\ \A f \in AgentReplaced : NearestUp(AgentAlong(rec.chain, f), n, rec.template.harness.agent.own[f])
  BY <1>1, ResolvedNearest
<1> HIDE DEF n
<1>3. ASSUME NEW f \in HarnessReplaced PROVE Nearest(HarnessOf(f)) = rec.template.harness.own[f]
  <2> DEFINE v == HarnessAlong(rec.chain, f)
  <2>1. v = [i \in 1..n |-> v[i]] /\ HarnessOf(f) = v
    BY <1>2 DEF HarnessAlong, HarnessOf, Chain
  <2>2. NearestUp(v, n, rec.template.harness.own[f])
    BY <1>2
  <2> HIDE DEF v
  <2>3. IsList(v) /\ Len(v) = n
    BY <1>2, <2>1, FunctionIsList
  <2> QED BY <2>1, <2>2, <2>3, NearestIs
<1>4. ASSUME NEW f \in AgentReplaced PROVE Nearest(AgentOf(f)) = rec.template.harness.agent.own[f]
  <2> DEFINE v == AgentAlong(rec.chain, f)
  <2>1. v = [i \in 1..n |-> v[i]] /\ AgentOf(f) = v
    BY <1>2 DEF AgentAlong, AgentOf, Chain
  <2>2. NearestUp(v, n, rec.template.harness.agent.own[f])
    BY <1>2
  <2> HIDE DEF v
  <2>3. IsList(v) /\ Len(v) = n
    BY <1>2, <2>1, FunctionIsList
  <2> QED BY <2>1, <2>2, <2>3, NearestIs
<1> QED BY <1>2, <1>3, <1>4 DEF IsSpec

\* The environment of the pod means that of the chain, the sandbox and the
\* memory, joined.
LEMMA EnvIsSame ==
  ASSUME PassInv, rec.pc = "create"
  PROVE  Same(rec.config.env, EnvOf)
<1> DEFINE F == FlattenSeq(EnvAlong(rec.chain))
           merged == MergeKeyed(rec.template.env, sandbox.env)
<1>1. Specced(rec.chain) /\ rec.template = Resolved(rec.chain) /\ rec.config = Config(rec.template) /\ IsList(sandbox.env)
  BY BeforePod
<1>2. Same(rec.template.env, F)
  BY <1>1, ResolvedEnv
<1>3. EnvOf = F \o sandbox.env \o (IF HasMemory THEN <<MemoryEnv>> ELSE <<>>)
  BY DEF EnvOf, EnvAlong, Chain
<1>4. rec.config.env = IF HasMemory THEN MergeKeyed(merged, <<MemoryEnv>>) ELSE merged
  BY <1>1 DEF Config
<1> HIDE DEF F, merged
<1>5. Same(merged, F \o sandbox.env)
  BY <1>1, <1>2, MergeKeyedLaw DEF merged
<1>6. CASE HasMemory
  <2>1. Same(MergeKeyed(merged, <<MemoryEnv>>), (F \o sandbox.env) \o <<MemoryEnv>>)
    BY <1>5, OneIsList, MergeKeyedLaw
  <2> QED BY <1>3, <1>4, <1>6, <2>1
<1>7. CASE ~HasMemory
  <2>1. (F \o sandbox.env) \o <<>> = F \o sandbox.env
    BY <1>5, ConcatEmpty DEF Same
  <2> QED BY <1>3, <1>4, <1>5, <1>7, <2>1
<1> QED BY <1>6, <1>7

LEMMA PassNearest == PassInv => NearestWins
<1> SUFFICES ASSUME PassInv, rec.pc = "create" PROVE NearestWins
  BY DEF NearestWins
<1> DEFINE own == Overlay(rec.template.own, sandbox.own)
           h == rec.template.harness.own
           c == rec.config
<1>1. c = Config(rec.template)
  BY BeforePod
<1>2. \A f \in Replaced : Nearest(OwnOf(f)) = own[f]
  BY OwnIsNearest
<1>3. \A f \in HarnessReplaced : Nearest(HarnessOf(f)) = h[f]
  BY HarnessIsNearest
<1>4. /\ c.image = (IF own["image"] # None THEN own["image"].repository ELSE DefaultImage)
      /\ c.resources = own["resources"] /\ c.storage = own["storage"] /\ c.network = own["network"]
      /\ c.runtimeClass = own["runtimeClass"] /\ c.privileged = (own["security"] = "privileged")
      /\ c.command = h["command"] /\ c.args = h["args"] /\ c.workingDir = h["workingDir"]
      /\ c.httpExec = (h["useHTTPExec"] = "true")
  BY <1>1 DEF Config
<1> HIDE DEF own, h, c
<1>5. {"image", "resources", "storage", "network", "runtimeClass", "security"} \subseteq Replaced
  BY DEF Replaced
<1>6. {"command", "args", "workingDir", "useHTTPExec"} \subseteq HarnessReplaced
  BY DEF HarnessReplaced
<1>7. c.image = IF Nearest(OwnOf("image")) = None THEN DefaultImage ELSE Nearest(OwnOf("image")).repository
  BY <1>2, <1>4, <1>5
<1>8. /\ c.resources = Nearest(OwnOf("resources")) /\ c.storage = Nearest(OwnOf("storage"))
      /\ c.network = Nearest(OwnOf("network")) /\ c.runtimeClass = Nearest(OwnOf("runtimeClass"))
      /\ c.privileged = (Nearest(OwnOf("security")) = "privileged")
  BY <1>2, <1>4, <1>5
<1>9. /\ c.command = Nearest(HarnessOf("command")) /\ c.args = Nearest(HarnessOf("args"))
      /\ c.workingDir = Nearest(HarnessOf("workingDir")) /\ c.httpExec = (Nearest(HarnessOf("useHTTPExec")) = "true")
  BY <1>3, <1>4, <1>6
<1>10. \A f \in {"resources", "storage", "network", "runtimeClass"} : c[f] = Nearest(OwnOf(f))
  BY <1>8
<1>11. \A f \in {"command", "args", "workingDir"} : c[f] = Nearest(HarnessOf(f))
  BY <1>9
<1>12. \A f \in AgentReplaced : Nearest(AgentOf(f)) # None => AgentSpec.own[f] = Nearest(AgentOf(f))
  BY HarnessIsNearest DEF AgentSpec
<1>13. KeysOf(c.env) = KeysOf(EnvOf) /\ \A k \in KeysOf(EnvOf) : LastOf(c.env, k) = LastOf(EnvOf, k)
  BY EnvIsSame DEF Same, c
<1> QED BY <1>7, <1>8, <1>9, <1>10, <1>11, <1>12, <1>13 DEF NearestWins, c

LEMMA PassJoined == PassInv => AdditiveInOrder
<1> SUFFICES ASSUME PassInv, rec.pc = "create" PROVE AdditiveInOrder
  BY DEF AdditiveInOrder
<1> DEFINE all(l) == FlattenSeq([i \in DOMAIN Chain |-> Chain[i].spec.joined[l]])
           c == rec.config
           T == rec.template
<1>1. Specced(rec.chain) /\ T = Resolved(rec.chain) /\ c = Config(T) /\ \A l \in Joined : IsList(sandbox.joined[l])
  BY BeforePod
<1>2. ASSUME NEW l \in Joined PROVE T.joined[l] = all(l) /\ IsList(T.joined[l])
  <2>1. T.joined[l] = FlattenSeq(JoinedAlong(rec.chain, l)) /\ IsList(T.joined[l])
    BY <1>1, ResolvedJoined
  <2>2. all(l) = FlattenSeq(JoinedAlong(rec.chain, l))
    BY DEF JoinedAlong, Chain
  <2> QED BY <2>1, <2>2
<1>3. \A l \in Joined : Lists(T)[l] = T.joined[l] \o sandbox.joined[l]
  BY DEF Lists
<1>4. /\ c.sidecars = (IF HasMemory THEN Append(Lists(T)["sidecars"], MemorySidecar) ELSE Lists(T)["sidecars"])
      /\ c.initContainers = Lists(T)["initContainers"] /\ c.credentials = Lists(T)["credentials"]
      /\ c.initScripts = T.joined["initScripts"]
  BY <1>1 DEF Config
<1> HIDE DEF all, c, T
<1>5. "sidecars" \in Joined /\ "initContainers" \in Joined /\ "credentials" \in Joined /\ "initScripts" \in Joined
  BY DEF Joined
<1> DEFINE side == all("sidecars") \o sandbox.joined["sidecars"]
<1>6. IsList(side) /\ Lists(T)["sidecars"] = side
  BY <1>1, <1>2, <1>3, <1>5, ConcatList
<1>7. c.sidecars = side \o (IF HasMemory THEN <<MemorySidecar>> ELSE <<>>)
  <2> HIDE DEF side
  <2>1. CASE HasMemory
    BY <1>4, <1>6, <2>1, AppendIs
  <2>2. CASE ~HasMemory
    BY <1>4, <1>6, <2>2, ConcatEmpty
  <2> QED BY <2>1, <2>2
<1>8. c.initContainers = all("initContainers") \o sandbox.joined["initContainers"]
  BY <1>2, <1>3, <1>4, <1>5
<1>9. c.credentials = all("credentials") \o sandbox.joined["credentials"]
  BY <1>2, <1>3, <1>4, <1>5
<1>10. c.initScripts = all("initScripts")
  BY <1>2, <1>4, <1>5
<1>11. \A l \in {"initContainers", "credentials"} : c[l] = all(l) \o sandbox.joined[l]
  BY <1>8, <1>9
<1> QED BY <1>7, <1>10, <1>11 DEF AdditiveInOrder, all, c

\* A pod is built from a whole chain, and every field, list and variable of it
\* is what the chain and the sandbox say, whatever was edited meanwhile
\* (template_resolver.go:86-246).
THEOREM APodMeansItsSpecs == Spec => []PodMeansSpecs
BY AlwaysPass, PassTypes, PassWhole, PassNearest, PassJoined, PTL DEF PodMeansSpecs

-----------------------------------------------------------------------------
(* The pod that is built.                                                  *)

\* A list made element by element.
LEMMA MapLaw ==
  ASSUME NEW s, IsList(s), NEW g, g = [i \in DOMAIN s |-> g[i]]
  PROVE  /\ IsList(g) /\ Len(g) = Len(s) /\ DOMAIN g = 1..Len(s) /\ DOMAIN s = 1..Len(s)
         /\ ToSet(g) = {g[i] : i \in 1..Len(s)}
<1>1. Len(s) \in Nat /\ DOMAIN s = 1..Len(s)
  BY ListLaw
<1>2. IsList(g) /\ Len(g) = Len(s) /\ DOMAIN g = 1..Len(s)
  BY <1>1, FunctionIsList
<1> QED BY <1>1, <1>2 DEF ToSet

\* A list from nothing is empty.
LEMMA FromNothing ==
  /\ FlattenSeq(<<>>) = <<>>
  /\ \A g : g = [i \in DOMAIN <<>> |-> g[i]] => g = <<>>
<1>1. IsList(<<>>) /\ Len(<<>>) = 0 /\ DOMAIN <<>> = {}
  BY EmptyIsList
<1>2. ASSUME NEW g, g = [i \in DOMAIN <<>> |-> g[i]] PROVE g = <<>>
  <2>1. IsList(g) /\ Len(g) = Len(<<>>)
    BY <1>1, <1>2, MapLaw
  <2> QED BY <1>1, <2>1, EmptyList
<1>3. FlattenSeq(<<>>) = <<>>
  <2> DEFINE e == <<>>
  <2>1. IsList(e) /\ Len(e) = 0
    BY <1>1
  <2> HIDE DEF e
  <2>2. IsList(FlattenSeq(e)) /\ ToSet(FlattenSeq(e)) = UNION {ToSet(e[i]) : i \in 1..Len(e)}
    BY <2>1, FlattenLaw
  <2>3. ToSet(FlattenSeq(e)) = {}
    BY <2>1, <2>2
  <2>4. Len(FlattenSeq(e)) \in Nat /\ DOMAIN FlattenSeq(e) = 1..Len(FlattenSeq(e))
    BY <2>2, ListLaw
  <2>5. 1 \notin DOMAIN FlattenSeq(e)
    BY <2>3 DEF ToSet
  <2>6. Len(FlattenSeq(e)) = 0
    BY <2>4, <2>5
  <2>7. FlattenSeq(e) = <<>>
    BY <2>2, <2>6, EmptyList
  <2> QED BY <2>7 DEF e
<1> QED BY <1>2, <1>3

\* A list from which elements are left out.
LEMMA ThoseLaw ==
  ASSUME NEW s, IsList(s), NEW ss, ss = [i \in DOMAIN s |-> ss[i]],
         \A i \in DOMAIN s : ss[i] = <<s[i]>> \/ ss[i] = <<>>
  PROVE  IsList(FlattenSeq(ss)) /\ ToSet(FlattenSeq(ss)) \subseteq ToSet(s)
<1>1. IsList(ss) /\ Len(ss) = Len(s) /\ DOMAIN s = 1..Len(s)
  BY MapLaw
<1>2. ASSUME NEW i \in 1..Len(ss) PROVE IsList(ss[i]) /\ ToSet(ss[i]) \subseteq ToSet(s)
  <2>1. s[i] \in ToSet(s)
    BY <1>1 DEF ToSet
  <2>2. ss[i] = <<s[i]>> \/ ss[i] = <<>>
    BY <1>1
  <2>3. CASE ss[i] = <<s[i]>>
    <3> DEFINE x == s[i]
    <3> HIDE DEF x
    <3>1. IsList(<<x>>) /\ ToSet(<<x>>) = {x}
      BY OneIsList
    <3>2. ss[i] = <<x>> /\ x \in ToSet(s)
      BY <2>1, <2>3 DEF x
    <3> QED BY <3>1, <3>2
  <2>4. CASE ss[i] = <<>>
    BY <2>4, EmptyIsList
  <2> QED BY <2>2, <2>3, <2>4
<1>3. IsList(FlattenSeq(ss)) /\ ToSet(FlattenSeq(ss)) = UNION {ToSet(ss[i]) : i \in 1..Len(ss)}
  BY <1>1, <1>2, FlattenLaw
<1> QED BY <1>2, <1>3

LEMMA ListsOfConfig ==
  ASSUME PassInv, rec.pc = "create"
  PROVE  /\ \A l \in Joined : /\ IsList(rec.template.joined[l]) /\ IsList(sandbox.joined[l])
                              /\ rec.template.joined[l] = FlattenSeq(JoinedAlong(rec.chain, l))
                              /\ IsList(rec.template.joined[l] \o sandbox.joined[l])
         /\ IsList(rec.config.sidecars) /\ IsList(rec.config.initContainers) /\ IsList(rec.config.credentials)
         /\ rec.config.sidecars = (rec.template.joined["sidecars"] \o sandbox.joined["sidecars"])
                                    \o (IF HasMemory THEN <<MemorySidecar>> ELSE <<>>)
         /\ rec.config.initContainers = rec.template.joined["initContainers"] \o sandbox.joined["initContainers"]
<1> DEFINE c == rec.config
           T == rec.template
           L(l) == T.joined[l] \o sandbox.joined[l]
<1>1. Specced(rec.chain) /\ T = Resolved(rec.chain) /\ c = Config(T) /\ \A l \in Joined : IsList(sandbox.joined[l])
  BY BeforePod
<1>2. ASSUME NEW l \in Joined
      PROVE  IsList(T.joined[l]) /\ IsList(L(l)) /\ T.joined[l] = FlattenSeq(JoinedAlong(rec.chain, l))
  BY <1>1, ResolvedJoined, ConcatList
<1>3. /\ c.sidecars = (IF HasMemory THEN Append(Lists(T)["sidecars"], MemorySidecar) ELSE Lists(T)["sidecars"])
      /\ c.initContainers = Lists(T)["initContainers"] /\ c.credentials = Lists(T)["credentials"]
  BY <1>1 DEF Config
<1>4. \A l \in Joined : Lists(T)[l] = L(l)
  BY DEF Lists
<1>5. "sidecars" \in Joined /\ "initContainers" \in Joined /\ "credentials" \in Joined
  BY DEF Joined
<1> DEFINE side == L("sidecars")
           M == IF HasMemory THEN <<MemorySidecar>> ELSE <<>>
<1>6. IsList(side) /\ Lists(T)["sidecars"] = side
  BY <1>2, <1>4, <1>5
<1>7. IsList(M)
  BY OneIsList, EmptyIsList
<1>8. c.sidecars = side \o M /\ IsList(side \o M)
  <2> HIDE DEF side
  <2>1. CASE HasMemory
    BY <1>3, <1>6, <1>7, <2>1, AppendIs, ConcatList
  <2>2. CASE ~HasMemory
    BY <1>3, <1>6, <1>7, <2>2, ConcatEmpty
  <2> QED BY <2>1, <2>2
<1>9. c.initContainers = L("initContainers") /\ c.credentials = L("credentials")
  BY <1>3, <1>4, <1>5
<1> QED BY <1>1, <1>2, <1>5, <1>8, <1>9

\* The credentials that are files, and their volumes.
LEMMA FilesLaw ==
  ASSUME NEW c, IsList(c.credentials)
  PROVE  /\ IsList(AsFile(c))
         /\ IsList(CredVolumes(c)) /\ ToSet(CredVolumes(c)) = {Cred(r.secret) : r \in ToSet(AsFile(c))}
         /\ \A x \in ToSet(Main(c).mounts) :
              x \in {WorkMount(c), TmpMount} \/ \E r \in ToSet(AsFile(c)) : x = Mount(Cred(r.secret), r.path)
         /\ IsList(Main(c).mounts)
<1> DEFINE s == c.credentials
           ss == [i \in DOMAIN s |-> IF s[i].as = "file" THEN <<s[i]>> ELSE <<>>]
           f == AsFile(c)
           ff == [i \in DOMAIN f |-> IF f[i].path # None THEN <<f[i]>> ELSE <<>>]
           g == FlattenSeq(ff)
           mm == [i \in DOMAIN g |-> Mount(Cred(g[i].secret), g[i].path)]
           two == <<WorkMount(c), TmpMount>>
           vv == [i \in DOMAIN f |-> Cred(f[i].secret)]
<1>1. f = FlattenSeq(ss)
  BY DEF AsFile, Those, Over
<1>2. CredVolumes(c) = vv
  BY DEF CredVolumes, Over
<1>3. Main(c).mounts = two \o mm
  BY DEF Main, Those, Over
<1>4. IsList(f)
  <2>1. ss = [i \in DOMAIN s |-> ss[i]] /\ \A i \in DOMAIN s : ss[i] = <<s[i]>> \/ ss[i] = <<>>
    OBVIOUS
  <2> HIDE DEF ss, f
  <2> QED BY <1>1, <2>1, ThoseLaw
<1> HIDE DEF f
<1>5. IsList(g) /\ ToSet(g) \subseteq ToSet(f)
  <2>1. ff = [i \in DOMAIN f |-> ff[i]] /\ \A i \in DOMAIN f : ff[i] = <<f[i]>> \/ ff[i] = <<>>
    OBVIOUS
  <2> HIDE DEF ff
  <2> QED BY <1>4, <2>1, ThoseLaw
<1> HIDE DEF g
<1>6. IsList(mm) /\ ToSet(mm) = {mm[i] : i \in 1..Len(g)} /\ DOMAIN g = 1..Len(g)
  <2>1. mm = [i \in DOMAIN g |-> mm[i]]
    OBVIOUS
  <2> HIDE DEF mm
  <2> QED BY <1>5, <2>1, MapLaw
<1>7. \A x \in ToSet(mm) : \E r \in ToSet(f) : x = Mount(Cred(r.secret), r.path)
  <2> SUFFICES ASSUME NEW x \in ToSet(mm) PROVE \E r \in ToSet(f) : x = Mount(Cred(r.secret), r.path)
    OBVIOUS
  <2>1. \E i \in 1..Len(g) : x = mm[i]
    BY <1>6
  <2>2. PICK i \in 1..Len(g) : x = mm[i]
    BY <2>1
  <2>3. x = Mount(Cred(g[i].secret), g[i].path)
    BY <1>6, <2>2
  <2>4. g[i] \in ToSet(f)
    BY <1>5, <1>6 DEF ToSet
  <2> QED BY <2>3, <2>4
<1>8. IsList(two) /\ ToSet(two) = {WorkMount(c), TmpMount}
  <2>1. two \in Seq({WorkMount(c), TmpMount})
    OBVIOUS
  <2>2. DOMAIN two = 1..2 /\ two[1] = WorkMount(c) /\ two[2] = TmpMount
    OBVIOUS
  <2>3. 1..2 = {1, 2}
    OBVIOUS
  <2> HIDE DEF two
  <2>4. ToSet(two) = {WorkMount(c), TmpMount}
    BY <2>2, <2>3 DEF ToSet
  <2> QED BY <2>1, <2>4, SeqIsList
<1>9. IsList(two \o mm) /\ ToSet(two \o mm) = ToSet(two) \union ToSet(mm)
  <2> HIDE DEF two, mm
  <2> QED BY <1>6, <1>8, ConcatList
<1>10. IsList(vv) /\ ToSet(vv) = {Cred(r.secret) : r \in ToSet(f)}
  <2>1. vv = [i \in DOMAIN f |-> vv[i]]
    OBVIOUS
  <2>2. IsList(vv) /\ ToSet(vv) = {vv[i] : i \in 1..Len(f)} /\ DOMAIN f = 1..Len(f)
    <3> HIDE DEF vv
    <3> QED BY <1>4, <2>1, MapLaw
  <2>3. ToSet(f) = {f[i] : i \in 1..Len(f)}
    BY <2>2 DEF ToSet
  <2>4. \A i \in 1..Len(f) : vv[i] = Cred(f[i].secret)
    BY <2>2
  <2> QED BY <2>2, <2>3, <2>4
<1>11. \A x \in ToSet(two \o mm) : x \in {WorkMount(c), TmpMount} \/ \E r \in ToSet(f) : x = Mount(Cred(r.secret), r.path)
  BY <1>7, <1>8, <1>9
<1> QED BY <1>2, <1>3, <1>4, <1>9, <1>10, <1>11 DEF f

\* The names of a list of containers, and whether they differ.
Names(s) == [i \in DOMAIN s |-> s[i].name]
NameSet(s) == {m.name : m \in ToSet(s)}
Distinct(s) == IsInjective(Names(s))

LEMMA DistinctIs ==
  ASSUME NEW s, IsList(s)
  PROVE  Distinct(s) <=> \A i, j \in 1..Len(s) : s[i].name = s[j].name => i = j
BY ListLaw DEF Distinct, Names, IsInjective

\* Two lists differ in their names when each does and they share none.
LEMMA DistinctConcat ==
  ASSUME NEW s, NEW t, IsList(s), IsList(t)
  PROVE  /\ NameSet(s \o t) = NameSet(s) \union NameSet(t)
         /\ Distinct(s \o t) <=> (Distinct(s) /\ Distinct(t) /\ NameSet(s) \intersect NameSet(t) = {})
<1> DEFINE m == Len(s)
           n == Len(t)
           u == s \o t
<1>1. /\ IsList(u) /\ Len(u) = m + n /\ m \in Nat /\ n \in Nat
      /\ \A i \in 1..m : u[i] = s[i]
      /\ \A i \in 1..n : u[m + i] = t[i]
      /\ ToSet(u) = ToSet(s) \union ToSet(t)
  BY ConcatList, ListLaw
<1>2. NameSet(s) = {s[i].name : i \in 1..m} /\ NameSet(t) = {t[i].name : i \in 1..n}
  BY ListLaw DEF NameSet, ToSet
<1>3. /\ Distinct(s) <=> \A i, j \in 1..m : s[i].name = s[j].name => i = j
      /\ Distinct(t) <=> \A i, j \in 1..n : t[i].name = t[j].name => i = j
      /\ Distinct(u) <=> \A i, j \in 1..(m + n) : u[i].name = u[j].name => i = j
  BY <1>1, DistinctIs
<1>4. NameSet(u) = NameSet(s) \union NameSet(t)
  BY <1>1 DEF NameSet
<1> HIDE DEF m, n, u
<1>5. ASSUME Distinct(u) PROVE Distinct(s) /\ Distinct(t) /\ NameSet(s) \intersect NameSet(t) = {}
  <2>1. \A i, j \in 1..m : s[i].name = s[j].name => i = j
    <3> TAKE i, j \in 1..m
    <3> HAVE s[i].name = s[j].name
    <3>1. i \in 1..(m + n) /\ j \in 1..(m + n) /\ u[i] = s[i] /\ u[j] = s[j]
      BY <1>1
    <3> QED BY <1>3, <1>5, <3>1
  <2>2. \A i, j \in 1..n : t[i].name = t[j].name => i = j
    <3> TAKE i, j \in 1..n
    <3> HAVE t[i].name = t[j].name
    <3>1. m + i \in 1..(m + n) /\ m + j \in 1..(m + n) /\ u[m + i] = t[i] /\ u[m + j] = t[j]
      BY <1>1
    <3>2. m + i = m + j
      BY <1>3, <1>5, <3>1
    <3> QED BY <1>1, <3>2
  <2>3. ASSUME NEW x \in NameSet(s), x \in NameSet(t) PROVE FALSE
    <3>1. \E i \in 1..m : x = s[i].name
      BY <1>2
    <3>2. \E j \in 1..n : x = t[j].name
      BY <1>2, <2>3
    <3>3. PICK i \in 1..m : x = s[i].name
      BY <3>1
    <3>4. PICK j \in 1..n : x = t[j].name
      BY <3>2
    <3>5. i \in 1..(m + n) /\ m + j \in 1..(m + n) /\ u[i] = s[i] /\ u[m + j] = t[j] /\ i # m + j
      BY <1>1
    <3> QED BY <1>3, <1>5, <3>3, <3>4, <3>5
  <2> QED BY <1>3, <2>1, <2>2, <2>3
<1>6. ASSUME Distinct(s), Distinct(t), NameSet(s) \intersect NameSet(t) = {} PROVE Distinct(u)
  <2>1. \A i, j \in 1..(m + n) : u[i].name = u[j].name => i = j
    <3> TAKE i, j \in 1..(m + n)
    <3> HAVE u[i].name = u[j].name
    <3>1. ASSUME NEW a \in 1..m, NEW b \in 1..(m + n), b > m, u[a].name = u[b].name PROVE FALSE
      <4> DEFINE d == b - m
      <4>1. d \in 1..n /\ m + d = b
        BY <1>1, <3>1
      <4>2. u[a] = s[a] /\ u[b] = t[d]
        BY <1>1, <4>1
      <4>3. s[a].name \in NameSet(s) /\ t[d].name \in NameSet(t)
        BY <1>2, <4>1
      <4> QED BY <1>6, <3>1, <4>2, <4>3
    <3>2. CASE i \in 1..m /\ j \in 1..m
      BY <1>1, <1>3, <1>6, <3>2
    <3>3. CASE i > m /\ j > m
      <4> DEFINE a == i - m
                 b == j - m
      <4>1. a \in 1..n /\ b \in 1..n /\ m + a = i /\ m + b = j
        BY <1>1, <3>3
      <4>2. u[i] = t[a] /\ u[j] = t[b]
        BY <1>1, <4>1
      <4>3. a = b
        BY <1>3, <1>6, <4>1, <4>2
      <4> QED BY <4>1, <4>3
    <3>4. CASE i \in 1..m /\ j > m
      BY <3>1, <3>4
    <3>5. CASE i > m /\ j \in 1..m
      BY <3>1, <3>5
    <3>6. i \in 1..m \/ i > m
      BY <1>1
    <3>7. j \in 1..m \/ j > m
      BY <1>1
    <3> QED BY <3>2, <3>3, <3>4, <3>5, <3>6, <3>7
  <2> QED BY <1>3, <2>1
<1> QED BY <1>4, <1>5, <1>6 DEF u

LEMMA DistinctFew ==
  /\ Distinct(<<>>) /\ NameSet(<<>>) = {}
  /\ \A a : Distinct(<<a>>) /\ NameSet(<<a>>) = {a.name}
<1>1. Distinct(<<>>) /\ NameSet(<<>>) = {}
  BY EmptyIsList, DistinctIs DEF NameSet
<1>2. ASSUME NEW a PROVE Distinct(<<a>>) /\ NameSet(<<a>>) = {a.name}
  <2>1. IsList(<<a>>) /\ Len(<<a>>) = 1 /\ ToSet(<<a>>) = {a}
    BY OneIsList
  <2>2. \A i, j \in 1..1 : i = j
    OBVIOUS
  <2> QED BY <2>1, <2>2, DistinctIs DEF NameSet
<1> QED BY <1>1, <1>2

\* What is given along a chain, in the order of the chain and list by list.
Pairwise(s, t) == [i \in DOMAIN s |-> s[i] \o t[i]]
LEMMA GivenTwice ==
  ASSUME NEW s, NEW t, IsList(s), IsList(t), Len(s) = Len(t),
         \A i \in 1..Len(s) : IsList(s[i]) /\ IsList(t[i])
  PROVE  LET G == FlattenSeq(Pairwise(s, t)) S == FlattenSeq(s) T == FlattenSeq(t)
         IN /\ IsList(G) /\ ToSet(G) = ToSet(S) \union ToSet(T)
            /\ Distinct(G) => Distinct(S) /\ Distinct(T) /\ NameSet(S) \intersect NameSet(T) = {}
<1> DEFINE u == Pairwise(s, t)
           n == Len(s)
<1>1. /\ n \in Nat /\ DOMAIN s = 1..n /\ IsList(u) /\ Len(u) = n /\ DOMAIN u = 1..n
      /\ \A i \in 1..n : u[i] = s[i] \o t[i]
  <2>1. u = [i \in DOMAIN s |-> s[i] \o t[i]]
    BY DEF Pairwise
  <2>2. u = [i \in DOMAIN s |-> u[i]]
    BY <2>1
  <2>3. IsList(u) /\ Len(u) = n /\ DOMAIN u = 1..n /\ DOMAIN s = 1..n
    <3> HIDE DEF u
    <3> QED BY <2>2, MapLaw
  <2> QED BY <2>1, <2>3, ListLaw
<1> HIDE DEF u, n
<1>2. \A i \in 1..n : IsList(s[i]) /\ IsList(t[i]) /\ IsList(u[i]) /\ Len(s) = n /\ Len(t) = n /\ Len(u) = n
  <2>1. n = Len(s) /\ Len(t) = n
    BY DEF n
  <2> SUFFICES ASSUME NEW i \in 1..n PROVE IsList(s[i]) /\ IsList(t[i]) /\ IsList(u[i])
    BY <1>1, <2>1
  <2> DEFINE a == s[i]
             b == t[i]
  <2>2. IsList(a) /\ IsList(b) /\ u[i] = a \o b
    BY <1>1, <2>1
  <2> HIDE DEF a, b
  <2>3. IsList(a \o b)
    BY <2>2, ConcatList
  <2> QED BY <2>2, <2>3 DEF a, b
<1>3. CASE n = 0
  <2>1. s = <<>> /\ t = <<>> /\ u = <<>>
    BY <1>1, <1>3, EmptyList DEF n
  <2>2. FlattenSeq(<<>>) = <<>>
    BY FromNothing
  <2>3. ToSet(<<>>) = {}
    BY EmptyIsList
  <2> QED BY <2>1, <2>2, <2>3, EmptyIsList, DistinctFew DEF u
<1>4. CASE n # 0
  <2>1. PICK gs : Flattens(s, gs) /\ FlattenSeq(s) = gs[n]
    BY <1>4, FlattenIterates DEF n
  <2>2. PICK gt : Flattens(t, gt) /\ FlattenSeq(t) = gt[n]
    BY <1>1, <1>4, FlattenIterates DEF n
  <2>3. PICK gu : Flattens(u, gu) /\ FlattenSeq(u) = gu[n]
    BY <1>1, <1>4, FlattenIterates
  <2>4. \A i \in 1..n : IsList(gs[i]) /\ IsList(gt[i]) /\ IsList(gu[i])
    BY <1>1, <1>2, <2>1, <2>2, <2>3, FlattenParts
  <2> DEFINE Good(i) == /\ ToSet(gu[i]) = ToSet(gs[i]) \union ToSet(gt[i])
                        /\ Distinct(gu[i]) => Distinct(gs[i]) /\ Distinct(gt[i]) /\ NameSet(gs[i]) \intersect NameSet(gt[i]) = {}
             W == {i \in Nat : Good(i)}
  <2>5. ASSUME NEW G, NEW S, NEW T, IsList(S), IsList(T), G = S \o T
        PROVE  /\ ToSet(G) = ToSet(S) \union ToSet(T)
               /\ Distinct(G) => Distinct(S) /\ Distinct(T) /\ NameSet(S) \intersect NameSet(T) = {}
    BY <2>5, ConcatList, DistinctConcat
  <2>6. Good(1)
    <3>1. 1 \in 1..n /\ 1 \in 1..Len(s) /\ 1 \in 1..Len(t) /\ 1 \in 1..Len(u)
      BY <1>1, <1>4 DEF n
    <3>2. gs[1] = s[1] /\ gt[1] = t[1] /\ gu[1] = s[1] \o t[1]
      BY <1>1, <2>1, <2>2, <2>3, <3>1 DEF Flattens
    <3> QED BY <1>2, <2>5, <3>1, <3>2
  <2>7. ASSUME NEW i \in 1..n, i + 1 <= n, Good(i) PROVE Good(i + 1)
    <3> DEFINE j == i + 1
               a == s[j]
               b == t[j]
    <3>1. j \in 1..n /\ j # 1 /\ j - 1 = i /\ n = Len(s) /\ n = Len(t) /\ n = Len(u)
      BY <1>1, <2>7 DEF n
    <3>2. gs[j] = gs[i] \o a /\ gt[j] = gt[i] \o b /\ gu[j] = gu[i] \o (a \o b)
      <4> HIDE DEF j
      <4> QED BY <1>1, <2>1, <2>2, <2>3, <3>1 DEF Flattens
    <3>3. IsList(a) /\ IsList(b) /\ IsList(a \o b)
      BY <1>2, <3>1, ConcatList
    <3> HIDE DEF j, a, b
    <3>4. IsList(gs[i]) /\ IsList(gt[i]) /\ IsList(gu[i])
      BY <2>4
    <3>5. /\ ToSet(gs[j]) = ToSet(gs[i]) \union ToSet(a)
          /\ ToSet(gt[j]) = ToSet(gt[i]) \union ToSet(b)
          /\ ToSet(gu[j]) = ToSet(gu[i]) \union (ToSet(a) \union ToSet(b))
      BY <3>2, <3>3, <3>4, ConcatList
    <3>6. ToSet(gu[j]) = ToSet(gs[j]) \union ToSet(gt[j])
      BY <2>7, <3>5
    <3>7. ASSUME Distinct(gu[j])
          PROVE  Distinct(gs[j]) /\ Distinct(gt[j]) /\ NameSet(gs[j]) \intersect NameSet(gt[j]) = {}
      <4>1. Distinct(gu[i]) /\ Distinct(a \o b) /\ NameSet(gu[i]) \intersect NameSet(a \o b) = {}
        BY <3>2, <3>3, <3>4, <3>7, DistinctConcat
      <4>2. Distinct(a) /\ Distinct(b) /\ NameSet(a) \intersect NameSet(b) = {} /\ NameSet(a \o b) = NameSet(a) \union NameSet(b)
        BY <3>3, <4>1, DistinctConcat
      <4>3. Distinct(gs[i]) /\ Distinct(gt[i]) /\ NameSet(gs[i]) \intersect NameSet(gt[i]) = {}
        BY <2>7, <4>1
      <4>4. NameSet(gu[i]) = NameSet(gs[i]) \union NameSet(gt[i])
        BY <2>7 DEF NameSet
      <4>5. /\ NameSet(gs[i]) \intersect NameSet(a) = {} /\ NameSet(gs[i]) \intersect NameSet(b) = {}
            /\ NameSet(gt[i]) \intersect NameSet(a) = {} /\ NameSet(gt[i]) \intersect NameSet(b) = {}
        BY <4>1, <4>2, <4>4
      <4>6. /\ Distinct(gs[j]) /\ NameSet(gs[j]) = NameSet(gs[i]) \union NameSet(a)
            /\ Distinct(gt[j]) /\ NameSet(gt[j]) = NameSet(gt[i]) \union NameSet(b)
        BY <3>2, <3>3, <3>4, <4>2, <4>3, <4>5, DistinctConcat
      <4> QED BY <4>2, <4>3, <4>5, <4>6
    <3> QED BY <3>6, <3>7 DEF j
  <2> HIDE DEF Good
  <2>8. \A i \in 1..n : i \in W
    <3>1. n # 0 => 1 \in W
      BY <2>6
    <3>2. \A i \in 1..n : i + 1 <= n /\ i \in W => i + 1 \in W
      BY <2>7
    <3> HIDE DEF W
    <3> QED BY <1>1, <3>1, <3>2, Upwards
  <2>9. n \in 1..n /\ Good(n)
    BY <1>1, <1>4, <2>8
  <2>10. IsList(gu[n])
    BY <2>4, <2>9
  <2> QED BY <2>1, <2>2, <2>3, <2>9, <2>10 DEF Good, u
<1> QED BY <1>3, <1>4

\* The containers of the inputs, as the pod has them.
Plains(s) == [i \in DOMAIN s |-> Plain(s[i])]
LEMMA PlainsLaw ==
  ASSUME NEW s, IsList(s)
  PROVE  /\ IsList(Plains(s)) /\ NameSet(Plains(s)) = NameSet(s) /\ (Distinct(Plains(s)) <=> Distinct(s))
         /\ \A k \in ToSet(Plains(s)) : \E x \in ToSet(s) : k = Plain(x)
<1> DEFINE g == Plains(s)
           n == Len(s)
<1>1. g = [i \in DOMAIN s |-> Plain(s[i])] /\ g = [i \in DOMAIN s |-> g[i]]
  BY DEF Plains
<1>2. IsList(g) /\ Len(g) = n /\ DOMAIN g = 1..n /\ DOMAIN s = 1..n /\ ToSet(g) = {g[i] : i \in 1..n}
  <2> HIDE DEF g
  <2> QED BY <1>1, MapLaw
<1>3. ToSet(s) = {s[i] : i \in 1..n}
  BY <1>2 DEF ToSet
<1>4. \A i \in 1..n : g[i] = Plain(s[i]) /\ g[i].name = s[i].name
  BY <1>1, <1>2 DEF Plain
<1> HIDE DEF g, n
<1>5. Distinct(g) <=> Distinct(s)
  BY <1>2, <1>4, DistinctIs DEF n
<1>6. NameSet(g) = NameSet(s)
  <2>1. NameSet(g) = {g[i].name : i \in 1..n}
    BY <1>2 DEF NameSet
  <2>2. NameSet(s) = {s[i].name : i \in 1..n}
    BY <1>3 DEF NameSet
  <2> QED BY <1>4, <2>1, <2>2
<1>7. \A k \in ToSet(g) : \E x \in ToSet(s) : k = Plain(x)
  BY <1>2, <1>3, <1>4
<1> QED BY <1>2, <1>5, <1>6, <1>7 DEF g

MainOf(c) == [name |-> "sandbox", image |-> Main(c).image, mounts |-> Main(c).mounts]
FixPermissions(c) == [name |-> "fix-permissions", image |-> c.image, mounts |-> <<WorkMount(c)>>]
BuilderNames == {"sandbox", "fix-permissions", "file-deployer", "init-scripts"}

LEMMA ContainersLaw ==
  ASSUME NEW c, IsList(c.sidecars), IsList(c.initContainers)
  PROVE  LET K == ContainersOf(Build(c))
         IN /\ IsList(K)
            /\ \A k \in ToSet(K) : \/ k \in {MainOf(c), FixPermissions(c), FileDeployer(c), ScriptRunner(c)}
                                   \/ \E x \in ToSet(c.sidecars) \union ToSet(c.initContainers) : k = Plain(x)
            /\ /\ Distinct(c.sidecars) /\ Distinct(c.initContainers)
               /\ NameSet(c.sidecars) \intersect NameSet(c.initContainers) = {}
               /\ (NameSet(c.sidecars) \union NameSet(c.initContainers)) \intersect BuilderNames = {}
               => Distinct(K)
<1> DEFINE sc == Plains(c.sidecars)
           ic == Plains(c.initContainers)
           fd == IF c.files = <<>> THEN <<>> ELSE <<FileDeployer(c)>>
           sr == IF c.initScripts = <<>> THEN <<>> ELSE <<ScriptRunner(c)>>
           m == <<MainOf(c)>>
           fp == <<FixPermissions(c)>>
           K == ContainersOf(Build(c))
<1>1. Build(c).sidecars = sc
  BY DEF Build, Over, Plains
<1>2. Build(c).inits = ((fp \o fd) \o sr) \o ic
  BY DEF Build, Inits, Over, Plains, FixPermissions
<1>3. K = (<<[name |-> Build(c).main.name, image |-> Build(c).main.image, mounts |-> Build(c).main.mounts]>>
           \o Build(c).sidecars) \o Build(c).inits
  BY DEF ContainersOf
<1>4. Build(c).main = Main(c) /\ Main(c).name = "sandbox"
  BY DEF Build, Main
<1>5. K = (m \o sc) \o (((fp \o fd) \o sr) \o ic)
  BY <1>1, <1>2, <1>3, <1>4 DEF MainOf
<1>6. /\ IsList(sc) /\ NameSet(sc) = NameSet(c.sidecars) /\ (Distinct(sc) <=> Distinct(c.sidecars))
      /\ IsList(ic) /\ NameSet(ic) = NameSet(c.initContainers) /\ (Distinct(ic) <=> Distinct(c.initContainers))
  BY PlainsLaw
<1>7. /\ \A k \in ToSet(sc) : \E x \in ToSet(c.sidecars) : k = Plain(x)
      /\ \A k \in ToSet(ic) : \E x \in ToSet(c.initContainers) : k = Plain(x)
  BY PlainsLaw
<1>8. /\ IsList(m) /\ ToSet(m) = {MainOf(c)} /\ Distinct(m) /\ NameSet(m) = {"sandbox"}
      /\ IsList(fp) /\ ToSet(fp) = {FixPermissions(c)} /\ Distinct(fp) /\ NameSet(fp) = {"fix-permissions"}
  BY OneIsList, DistinctFew DEF MainOf, FixPermissions
<1>9. /\ IsList(fd) /\ ToSet(fd) \subseteq {FileDeployer(c)} /\ Distinct(fd) /\ NameSet(fd) \subseteq {"file-deployer"}
  BY OneIsList, EmptyIsList, DistinctFew DEF FileDeployer
<1>10. /\ IsList(sr) /\ ToSet(sr) \subseteq {ScriptRunner(c)} /\ Distinct(sr) /\ NameSet(sr) \subseteq {"init-scripts"}
  BY OneIsList, EmptyIsList, DistinctFew DEF ScriptRunner
<1> HIDE DEF sc, ic, fd, sr, m, fp, K
<1> DEFINE a == m \o sc
           b == fp \o fd
           d == b \o sr
           e == d \o ic
<1>11. IsList(a) /\ ToSet(a) = ToSet(m) \union ToSet(sc) /\ IsList(b) /\ ToSet(b) = ToSet(fp) \union ToSet(fd)
  BY <1>6, <1>8, <1>9, ConcatList
<1>12. IsList(d) /\ ToSet(d) = ToSet(b) \union ToSet(sr)
  <2> HIDE DEF b
  <2> QED BY <1>10, <1>11, ConcatList
<1>13. IsList(e) /\ ToSet(e) = ToSet(d) \union ToSet(ic)
  <2> HIDE DEF d
  <2> QED BY <1>6, <1>12, ConcatList
<1>14. IsList(K) /\ ToSet(K) = ToSet(a) \union ToSet(e)
  <2>1. K = a \o e
    BY <1>5
  <2> HIDE DEF a, e
  <2> QED BY <1>11, <1>13, <2>1, ConcatList
<1>15. \A k \in ToSet(K) : \/ k \in {MainOf(c), FixPermissions(c), FileDeployer(c), ScriptRunner(c)}
                           \/ \E x \in ToSet(c.sidecars) \union ToSet(c.initContainers) : k = Plain(x)
  BY <1>7, <1>8, <1>9, <1>10, <1>11, <1>12, <1>13, <1>14
<1>16. ASSUME Distinct(c.sidecars), Distinct(c.initContainers), NameSet(c.sidecars) \intersect NameSet(c.initContainers) = {},
              (NameSet(c.sidecars) \union NameSet(c.initContainers)) \intersect BuilderNames = {}
       PROVE  Distinct(K)
  <2>1. /\ Distinct(sc) /\ Distinct(ic) /\ NameSet(sc) \intersect NameSet(ic) = {}
        /\ "sandbox" \notin NameSet(sc) \union NameSet(ic) /\ "fix-permissions" \notin NameSet(sc) \union NameSet(ic)
        /\ "file-deployer" \notin NameSet(sc) \union NameSet(ic) /\ "init-scripts" \notin NameSet(sc) \union NameSet(ic)
    BY <1>6, <1>16 DEF BuilderNames
  <2>2. Distinct(a) /\ NameSet(a) = {"sandbox"} \union NameSet(sc)
    BY <1>6, <1>8, <2>1, DistinctConcat
  <2>3. Distinct(b) /\ NameSet(b) \subseteq {"fix-permissions", "file-deployer"}
    <3>1. NameSet(fp) \intersect NameSet(fd) = {}
      BY <1>8, <1>9
    <3> QED BY <1>8, <1>9, <3>1, DistinctConcat
  <2>4. Distinct(d) /\ NameSet(d) \subseteq {"fix-permissions", "file-deployer", "init-scripts"}
    <3>1. NameSet(b) \intersect NameSet(sr) = {}
      BY <1>10, <2>3
    <3> HIDE DEF b
    <3> QED BY <1>10, <1>11, <2>3, <3>1, DistinctConcat
  <2>5. Distinct(e) /\ NameSet(e) \subseteq {"fix-permissions", "file-deployer", "init-scripts"} \union NameSet(ic)
    <3>1. NameSet(d) \intersect NameSet(ic) = {}
      BY <2>1, <2>4
    <3> HIDE DEF d
    <3> QED BY <1>6, <1>12, <2>1, <2>4, <3>1, DistinctConcat
  <2>6. NameSet(a) \intersect NameSet(e) = {}
    BY <2>1, <2>2, <2>5
  <2>7. K = a \o e
    BY <1>5
  <2> HIDE DEF a, e
  <2> QED BY <1>11, <1>13, <2>2, <2>5, <2>6, <2>7, DistinctConcat
<1> QED BY <1>14, <1>15, <1>16 DEF K

\* Every mount names a volume.
LEMMA PassMounts == PassInv => MountsHaveVolumes
<1> SUFFICES ASSUME PassInv, rec.pc = "create" PROVE Mounted(Build(rec.config))
  BY DEF MountsHaveVolumes
<1> DEFINE c == rec.config
           V == ToSet(Build(c).volumes)
<1>1. IsList(c.sidecars) /\ IsList(c.initContainers) /\ IsList(c.credentials)
  BY ListsOfConfig
<1> HIDE DEF c
<1>2. /\ IsList(CredVolumes(c)) /\ ToSet(CredVolumes(c)) = {Cred(r.secret) : r \in ToSet(AsFile(c))}
      /\ \A x \in ToSet(Main(c).mounts) :
           x \in {WorkMount(c), TmpMount} \/ \E r \in ToSet(AsFile(c)) : x = Mount(Cred(r.secret), r.path)
  BY <1>1, FilesLaw
<1>3. V = {Workspace, Tmp} \union ToSet(CredVolumes(c))
  <2> DEFINE two == <<Workspace, Tmp>>
             vs == CredVolumes(c)
  <2>1. Build(c).volumes = (two \o vs) \o vs
    BY DEF Build, Volumes
  <2>2. IsList(two) /\ ToSet(two) = {Workspace, Tmp}
    <3>1. two \in Seq({Workspace, Tmp}) /\ DOMAIN two = 1..2 /\ two[1] = Workspace /\ two[2] = Tmp /\ 1..2 = {1, 2}
      OBVIOUS
    <3> HIDE DEF two
    <3> QED BY <3>1, SeqIsList DEF ToSet
  <2> HIDE DEF two, vs
  <2>3. IsList(two \o vs) /\ ToSet(two \o vs) = ToSet(two) \union ToSet(vs)
    BY <1>2, <2>2, ConcatList DEF vs
  <2>4. ToSet((two \o vs) \o vs) = ToSet(two \o vs) \union ToSet(vs)
    BY <1>2, <2>3, ConcatList DEF vs
  <2> QED BY <2>1, <2>2, <2>3, <2>4 DEF vs
<1>4. WorkMount(c).volume = Workspace /\ TmpMount.volume = Tmp
  BY DEF WorkMount, TmpMount, Mount
<1>5. ASSUME NEW x \in ToSet(Main(c).mounts) PROVE x.volume \in V
  <2>1. CASE x \in {WorkMount(c), TmpMount}
    BY <1>3, <1>4, <2>1
  <2>2. CASE \E r \in ToSet(AsFile(c)) : x = Mount(Cred(r.secret), r.path)
    <3>1. PICK r \in ToSet(AsFile(c)) : x = Mount(Cred(r.secret), r.path)
      BY <2>2
    <3>2. x.volume = Cred(r.secret)
      BY <3>1 DEF Mount
    <3>3. Cred(r.secret) \in {Cred(q.secret) : q \in ToSet(AsFile(c))}
      BY <3>1
    <3> QED BY <1>2, <1>3, <3>2, <3>3
  <2> QED BY <1>2, <2>1, <2>2
<1>6. ToSet(<<WorkMount(c)>>) = {WorkMount(c)}
  BY OneIsList
<1>7. ToSet(<<WorkMount(c), TmpMount>>) = {WorkMount(c), TmpMount}
  <2> DEFINE two == <<WorkMount(c), TmpMount>>
  <2>1. DOMAIN two = 1..2 /\ two[1] = WorkMount(c) /\ two[2] = TmpMount /\ 1..2 = {1, 2}
    OBVIOUS
  <2> HIDE DEF two
  <2>2. ToSet(two) = {WorkMount(c), TmpMount}
    BY <2>1 DEF ToSet
  <2> QED BY <2>2 DEF two
<1>8. ASSUME NEW k \in ToSet(ContainersOf(Build(c))), NEW x \in ToSet(k.mounts) PROVE x.volume \in V
  <2>1. \/ k \in {MainOf(c), FixPermissions(c), FileDeployer(c), ScriptRunner(c)}
        \/ \E y \in ToSet(c.sidecars) \union ToSet(c.initContainers) : k = Plain(y)
    BY <1>1, ContainersLaw
  <2>2. CASE k = MainOf(c)
    <3>1. k.mounts = Main(c).mounts
      BY <2>2 DEF MainOf
    <3> QED BY <1>5, <1>8, <3>1
  <2>3. CASE k = FixPermissions(c)
    <3>1. k.mounts = <<WorkMount(c)>>
      BY <2>3 DEF FixPermissions
    <3> QED BY <1>3, <1>4, <1>6, <1>8, <3>1
  <2>4. CASE k \in {FileDeployer(c), ScriptRunner(c)}
    <3>1. k.mounts = <<WorkMount(c), TmpMount>>
      BY <2>4 DEF FileDeployer, ScriptRunner
    <3> QED BY <1>3, <1>4, <1>7, <1>8, <3>1
  <2>5. CASE \E y \in ToSet(c.sidecars) \union ToSet(c.initContainers) : k = Plain(y)
    <3>1. k.mounts = <<>>
      BY <2>5 DEF Plain
    <3> QED BY <1>8, <3>1, EmptyIsList
  <2> QED BY <2>1, <2>2, <2>3, <2>4, <2>5
<1> QED BY <1>8 DEF Mounted, c

LEMMA NoFiles ==
  ASSUME NEW c, AsFile(c) = <<>>
  PROVE  Main(c).mounts = <<WorkMount(c), TmpMount>> /\ Build(c).volumes = <<Workspace, Tmp>>
<1> DEFINE f == AsFile(c)
           ff == [i \in DOMAIN f |-> IF f[i].path # None THEN <<f[i]>> ELSE <<>>]
           g == FlattenSeq(ff)
           mm == [i \in DOMAIN g |-> Mount(Cred(g[i].secret), g[i].path)]
           two == <<WorkMount(c), TmpMount>>
           vv == [i \in DOMAIN f |-> Cred(f[i].secret)]
           vols == <<Workspace, Tmp>>
<1>1. Main(c).mounts = two \o mm
  BY DEF Main, Those, Over
<1>2. Build(c).volumes = (vols \o vv) \o vv
  BY DEF Build, Volumes, CredVolumes, Over
<1>3. ff = [i \in DOMAIN f |-> ff[i]] /\ vv = [i \in DOMAIN f |-> vv[i]]
  OBVIOUS
<1>4. mm = [i \in DOMAIN g |-> mm[i]]
  OBVIOUS
<1> HIDE DEF ff, vv, mm
<1>5. ff = <<>> /\ vv = <<>>
  BY <1>3, FromNothing
<1>6. g = <<>>
  BY <1>5, FromNothing
<1>7. mm = <<>>
  BY <1>4, <1>6, FromNothing
<1>8. two \in Seq({WorkMount(c), TmpMount}) /\ vols \in Seq({Workspace, Tmp})
  OBVIOUS
<1> HIDE DEF two, vols
<1>9. two \o <<>> = two /\ vols \o <<>> = vols
  BY <1>8, SeqIsList, ConcatEmpty
<1> QED BY <1>1, <1>2, <1>5, <1>7, <1>9 DEF two, vols

\* Unless the inputs clash, neither do they with the builder's containers.
LEMMA InputsApart ==
  ASSUME PassInv, rec.pc = "create",
         NEW given,
         given = FlattenSeq([i \in DOMAIN Chain |-> Chain[i].spec.joined["sidecars"] \o Chain[i].spec.joined["initContainers"]])
                   \o sandbox.joined["sidecars"] \o sandbox.joined["initContainers"],
         Distinct(given), NameSet(given) \intersect Reserved = {}, \A k \in ToSet(given) : k.image # None
  PROVE  LET c == rec.config
         IN /\ Distinct(c.sidecars) /\ Distinct(c.initContainers)
            /\ NameSet(c.sidecars) \intersect NameSet(c.initContainers) = {}
            /\ (NameSet(c.sidecars) \union NameSet(c.initContainers)) \intersect BuilderNames = {}
            /\ \A x \in ToSet(c.sidecars) \union ToSet(c.initContainers) : x.image # None
<1> DEFINE c == rec.config
           s == JoinedAlong(rec.chain, "sidecars")
           t == JoinedAlong(rec.chain, "initContainers")
           G == FlattenSeq(Pairwise(s, t))
           S == FlattenSeq(s)
           T == FlattenSeq(t)
           x == sandbox.joined["sidecars"]
           y == sandbox.joined["initContainers"]
           M == IF HasMemory THEN <<MemorySidecar>> ELSE <<>>
<1>1. "sidecars" \in Joined /\ "initContainers" \in Joined
  BY DEF Joined
<1>2. Specced(rec.chain)
  BY BeforePod
<1>3. /\ IsList(s) /\ IsList(t) /\ Len(s) = Len(rec.chain) /\ Len(t) = Len(rec.chain)
      /\ \A i \in 1..Len(rec.chain) : IsList(s[i]) /\ IsList(t[i])
  BY <1>1, <1>2, ResolvedJoined
<1>4. IsList(x) /\ IsList(y) /\ IsList(S) /\ IsList(T) /\ c.sidecars = (S \o x) \o M /\ c.initContainers = T \o y
  BY <1>1, ListsOfConfig
<1>5. given = (G \o x) \o y
  <2>1. [i \in DOMAIN Chain |-> Chain[i].spec.joined["sidecars"] \o Chain[i].spec.joined["initContainers"]] = Pairwise(s, t)
    BY DEF Pairwise, JoinedAlong, Chain
  <2> QED BY <2>1
<1>6. IsList(M) /\ Distinct(M) /\ NameSet(M) \subseteq {"mem0"} /\ \A k \in ToSet(M) : k.image # None
  <2>1. CASE HasMemory
    <3>1. MemorySidecar.name = "mem0" /\ MemorySidecar.image = MemoryImage /\ MemoryImage # None
      BY <2>1 DEF MemorySidecar, HasMemory
    <3> DEFINE m == MemorySidecar
    <3>2. M = <<m>>
      BY <2>1
    <3> HIDE DEF m, M
    <3>3. IsList(M) /\ ToSet(M) = {m} /\ Distinct(M) /\ NameSet(M) = {m.name}
      BY <3>2, OneIsList, DistinctFew
    <3> QED BY <3>1, <3>3 DEF m
  <2>2. CASE ~HasMemory
    BY <2>2, EmptyIsList, DistinctFew
  <2> QED BY <2>1, <2>2
<1> HIDE DEF c, s, t, S, T, x, y, M
<1>7. IsList(G) /\ ToSet(G) = ToSet(S) \union ToSet(T)
      /\ (Distinct(G) => Distinct(S) /\ Distinct(T) /\ NameSet(S) \intersect NameSet(T) = {})
  BY <1>3, GivenTwice DEF S, T
<1> HIDE DEF G
<1> DEFINE Gx == G \o x
           Sx == S \o x
           Ty == T \o y
<1>8. IsList(Gx) /\ IsList(Sx) /\ IsList(Ty)
      /\ ToSet(Gx) = ToSet(G) \union ToSet(x) /\ ToSet(Sx) = ToSet(S) \union ToSet(x) /\ ToSet(Ty) = ToSet(T) \union ToSet(y)
      /\ NameSet(Gx) = NameSet(G) \union NameSet(x) /\ NameSet(Sx) = NameSet(S) \union NameSet(x)
      /\ NameSet(Ty) = NameSet(T) \union NameSet(y)
      /\ (Distinct(Gx) <=> (Distinct(G) /\ Distinct(x) /\ NameSet(G) \intersect NameSet(x) = {}))
      /\ (Distinct(Sx) <=> (Distinct(S) /\ Distinct(x) /\ NameSet(S) \intersect NameSet(x) = {}))
      /\ (Distinct(Ty) <=> (Distinct(T) /\ Distinct(y) /\ NameSet(T) \intersect NameSet(y) = {}))
  BY <1>4, <1>7, ConcatList, DistinctConcat
<1>9. NameSet(G) = NameSet(S) \union NameSet(T)
  BY <1>7 DEF NameSet
<1> HIDE DEF Gx, Sx, Ty
<1>10. given = Gx \o y /\ c.sidecars = Sx \o M /\ c.initContainers = Ty
  BY <1>4, <1>5 DEF Gx, Sx, Ty
<1>11. /\ ToSet(given) = ToSet(Gx) \union ToSet(y) /\ NameSet(given) = NameSet(Gx) \union NameSet(y)
       /\ Distinct(Gx) /\ Distinct(y) /\ NameSet(Gx) \intersect NameSet(y) = {}
  <2>1. IsList(Gx) /\ IsList(y) /\ Distinct(Gx \o y)
    BY <1>4, <1>8, <1>10
  <2>2. ToSet(Gx \o y) = ToSet(Gx) \union ToSet(y)
    BY <2>1, ConcatList
  <2>3. NameSet(Gx \o y) = NameSet(Gx) \union NameSet(y)
    BY <2>1, DistinctConcat
  <2>4. Distinct(Gx) /\ Distinct(y) /\ NameSet(Gx) \intersect NameSet(y) = {}
    BY <2>1, DistinctConcat
  <2> QED BY <1>10, <2>2, <2>3, <2>4
<1>12. Distinct(G) /\ Distinct(x) /\ NameSet(G) \intersect NameSet(x) = {}
  BY <1>8, <1>11
<1>13. Distinct(S) /\ Distinct(T) /\ NameSet(S) \intersect NameSet(T) = {}
  BY <1>7, <1>12
<1>14. NameSet(given) = NameSet(S) \union NameSet(T) \union NameSet(x) \union NameSet(y)
  BY <1>8, <1>9, <1>11
<1>15. "mem0" \notin NameSet(given) /\ NameSet(given) \intersect BuilderNames = {} /\ "mem0" \notin BuilderNames
  BY DEF Reserved, BuilderNames
<1>16. Distinct(Sx) /\ Distinct(Ty) /\ NameSet(Sx) \intersect NameSet(Ty) = {}
  BY <1>8, <1>9, <1>11, <1>12, <1>13
<1>17. NameSet(Sx) \union NameSet(Ty) = NameSet(given)
  BY <1>8, <1>14
<1>18. /\ Distinct(c.sidecars) /\ NameSet(c.sidecars) = NameSet(Sx) \union NameSet(M)
       /\ ToSet(c.sidecars) = ToSet(Sx) \union ToSet(M)
  <2>1. NameSet(Sx) \intersect NameSet(M) = {}
    BY <1>6, <1>15, <1>17
  <2>2. IsList(Sx) /\ IsList(M) /\ Distinct(Sx) /\ Distinct(M)
    BY <1>6, <1>8, <1>16
  <2>3. Distinct(Sx \o M) /\ NameSet(Sx \o M) = NameSet(Sx) \union NameSet(M)
    BY <2>1, <2>2, DistinctConcat
  <2>4. ToSet(Sx \o M) = ToSet(Sx) \union ToSet(M)
    BY <2>2, ConcatList
  <2> QED BY <1>10, <2>3, <2>4
<1>19. NameSet(c.sidecars) \intersect NameSet(c.initContainers) = {}
  BY <1>6, <1>10, <1>15, <1>16, <1>17, <1>18
<1>20. (NameSet(c.sidecars) \union NameSet(c.initContainers)) \intersect BuilderNames = {}
  BY <1>6, <1>10, <1>15, <1>17, <1>18
<1>21. \A k \in ToSet(c.sidecars) \union ToSet(c.initContainers) : k.image # None
  BY <1>6, <1>7, <1>8, <1>10, <1>11, <1>18
<1> QED BY <1>10, <1>16, <1>18, <1>19, <1>20, <1>21 DEF c

\* The paths of two mounts.
LEMMA TwoPaths ==
  ASSUME NEW a, NEW b, a.path # b.path
  PROVE  IsInjective([i \in DOMAIN <<a, b>> |-> <<a, b>>[i].path])
<1> DEFINE two == <<a, b>>
<1>1. DOMAIN two = 1..2 /\ two[1] = a /\ two[2] = b /\ \A i \in 1..2 : i = 1 \/ i = 2
  OBVIOUS
<1> HIDE DEF two
<1>2. IsInjective([i \in DOMAIN two |-> two[i].path])
  BY <1>1 DEF IsInjective
<1> QED BY <1>2 DEF two

LEMMA PassAccepted == PassInv => AcceptedUnlessInputsClash
<1> DEFINE c == rec.config
           given == FlattenSeq([i \in DOMAIN Chain |-> Chain[i].spec.joined["sidecars"] \o Chain[i].spec.joined["initContainers"]])
                    \o sandbox.joined["sidecars"] \o sandbox.joined["initContainers"]
           names == Over(given, LAMBDA k : k.name)
<1> SUFFICES ASSUME PassInv, rec.pc = "create", AsFile(c) = <<>>, c.image # None, c.mountPath # "/tmp",
                    IsInjective(names), ToSet(names) \intersect Reserved = {}, \A k \in ToSet(given) : k.image # None
             PROVE  Accepted(Build(c))
  BY DEF AcceptedUnlessInputsClash
<1>1. names = Names(given)
  BY DEF Over, Names
<1>2. ToSet(names) = NameSet(given)
  <2> HIDE DEF given, names
  <2>1. DOMAIN names = DOMAIN given /\ \A i \in DOMAIN given : names[i] = given[i].name
    BY <1>1 DEF Names
  <2>2. ToSet(names) = {names[i] : i \in DOMAIN given} /\ ToSet(given) = {given[i] : i \in DOMAIN given}
    BY <2>1 DEF ToSet
  <2>3. NameSet(given) = {given[i].name : i \in DOMAIN given}
    BY <2>2 DEF NameSet
  <2> QED BY <2>1, <2>2, <2>3
<1>3. Distinct(given) /\ NameSet(given) \intersect Reserved = {}
  BY <1>1, <1>2 DEF Distinct
<1> HIDE DEF names
<1>4. /\ Distinct(c.sidecars) /\ Distinct(c.initContainers)
      /\ NameSet(c.sidecars) \intersect NameSet(c.initContainers) = {}
      /\ (NameSet(c.sidecars) \union NameSet(c.initContainers)) \intersect BuilderNames = {}
      /\ \A x \in ToSet(c.sidecars) \union ToSet(c.initContainers) : x.image # None
  BY <1>3, InputsApart
<1> HIDE DEF given
<1>5. IsList(c.sidecars) /\ IsList(c.initContainers)
  BY ListsOfConfig
<1> DEFINE K == ContainersOf(Build(c))
<1>6. Mounted(Build(c))
  BY PassMounts DEF MountsHaveVolumes
<1> HIDE DEF c
<1>7. /\ Distinct(K)
      /\ \A k \in ToSet(K) : \/ k \in {MainOf(c), FixPermissions(c), FileDeployer(c), ScriptRunner(c)}
                             \/ \E x \in ToSet(c.sidecars) \union ToSet(c.initContainers) : k = Plain(x)
  BY <1>4, <1>5, ContainersLaw
<1>8. NamesDiffer(Build(c))
  BY <1>7 DEF NamesDiffer, Over, Distinct, Names
<1>9. Main(c).mounts = <<WorkMount(c), TmpMount>> /\ Build(c).volumes = <<Workspace, Tmp>>
  BY NoFiles
<1>10. IsInjective(Build(c).volumes)
  <2> DEFINE two == <<Workspace, Tmp>>
  <2>1. DOMAIN two = 1..2 /\ two[1] = Workspace /\ two[2] = Tmp /\ \A i \in 1..2 : i = 1 \/ i = 2
    OBVIOUS
  <2>2. Workspace # Tmp
    BY DEF Workspace, Tmp
  <2> HIDE DEF two
  <2>3. IsInjective(two)
    BY <2>1, <2>2 DEF IsInjective
  <2> QED BY <1>9, <2>3 DEF two
<1>11. WorkMount(c).path # TmpMount.path
  BY DEF WorkMount, TmpMount, Mount
<1> DEFINE Paths(ms) == [i \in DOMAIN ms |-> ms[i].path]
<1>12. IsInjective(Paths(<<WorkMount(c), TmpMount>>))
  BY <1>11, TwoPaths
<1>13. IsInjective(Paths(<<WorkMount(c)>>)) /\ IsInjective(Paths(<<>>))
  BY DEF IsInjective
<1>14. Main(c).image = c.image
  BY DEF Main
<1>15. ASSUME NEW k \in ToSet(K) PROVE k.image # None /\ IsInjective(Paths(k.mounts))
  <2>1. CASE k = MainOf(c)
    <3>1. k.mounts = <<WorkMount(c), TmpMount>> /\ k.image = c.image
      BY <1>9, <1>14, <2>1 DEF MainOf
    <3> QED BY <1>12, <3>1
  <2>2. CASE k = FixPermissions(c)
    <3>1. k.mounts = <<WorkMount(c)>> /\ k.image = c.image
      BY <2>2 DEF FixPermissions
    <3> QED BY <1>13, <3>1
  <2>3. CASE k \in {FileDeployer(c), ScriptRunner(c)}
    <3>1. k.mounts = <<WorkMount(c), TmpMount>> /\ k.image = c.image
      BY <2>3 DEF FileDeployer, ScriptRunner
    <3> QED BY <1>12, <3>1
  <2>4. CASE \E x \in ToSet(c.sidecars) \union ToSet(c.initContainers) : k = Plain(x)
    <3>1. PICK x \in ToSet(c.sidecars) \union ToSet(c.initContainers) : k = Plain(x)
      BY <2>4
    <3>2. k.mounts = <<>> /\ k.image = x.image
      BY <3>1 DEF Plain
    <3> QED BY <1>4, <1>13, <3>1, <3>2
  <2> QED BY <1>7, <2>1, <2>2, <2>3, <2>4
<1> HIDE DEF K
<1>16. \A k \in ToSet(ContainersOf(Build(c))) : k.image # None /\ IsInjective(Over(k.mounts, LAMBDA n : n.path))
  BY <1>15 DEF Over, K
<1> QED BY <1>6, <1>8, <1>10, <1>16 DEF Accepted

\* The pod that is built is one the API server takes, unless the containers of
\* its inputs clash (pod_builder.go:363-398).
THEOREM TheBuiltPodIsAccepted == Spec => []PodIsAccepted
BY AlwaysPass, PassMounts, PassAccepted, PTL DEF PodIsAccepted
=============================================================================
