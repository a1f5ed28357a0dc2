-------------------------- MODULE NmosLayoutProofs --------------------------
(***************************************************************************)
(* The constructor of class nmos lays out the netlist of every description *)
(* that fits in a uint16_t: proved for any number of nodes and             *)
(* transistors, any word size, with and without assert().                  *)
(***************************************************************************)
EXTENDS NmosLayout, FiniteSetTheorems, SequenceTheorems, WellFoundedInduction, TLAPS

-----------------------------------------------------------------------------
(* The inductive invariant, of named parts. *)

Transistors == Len(desc.tdefs)
Collecting  == phase \in {"setup", "out_of_range"}

(* How many transistors, and which nodes, the loops have been through. *)
Through == IF Collecting THEN cursor - 1 ELSE Transistors

Placed ==
  CASE Collecting -> {}
    [] phase \in {"place", "abort"} -> 1 .. cursor - 1
    [] phase \in {"legs", "connect", "logic_error", "done"} -> 1 .. desc.count

Filled ==
  CASE Collecting \/ phase \in {"place", "abort"} -> {}
    [] phase = "legs" -> 1 .. cursor - 1
    [] phase \in {"connect", "logic_error", "done"} -> 1 .. desc.count

Joined ==
  CASE Collecting \/ phase \in {"place", "abort", "legs", "logic_error"} -> {}
    [] phase = "connect" -> 1 .. cursor - 1
    [] phase = "done" -> 1 .. desc.count

IdsOf(i) == {desc.tdefs[i].gate, desc.tdefs[i].c1, desc.tdefs[i].c2}

Bounds ==
  /\ desc \in Descs /\ phase \in Phases /\ cursor \in Nat \ {0}
  /\ Collecting => cursor <= Transistors + 1
  /\ ~Collecting /\ phase # "done" => cursor <= desc.count + 1
  /\ \A i \in 1 .. Through : IdsOf(i) \subseteq Ids
  /\ phase = "out_of_range" => cursor <= Transistors /\ ~(IdsOf(cursor) \subseteq Ids)
  /\ phase = "abort" => Len(nodes) + 1 >= Word
  /\ phase = "logic_error" => ~NodeIds \/ ~Fits

Ascending(s) == \A j, k \in DOMAIN s : j < k => s[j] < s[k]

(* The transistors gated by node n, and the legs on it, up to the last     *)
(* that the first loop has been through.                                   *)
GatedSoFar(n) == {i \in Kept(desc) : i <= Through /\ desc.tdefs[i].gate = n}
LegsSoFar(n)  == {l \in LegsOn(desc, n) : l \div 2 <= Through}

GatesCollected ==
  /\ gates \in [Ids -> Seq(Nat)]
  /\ \A n \in Ids : Ascending(gates[n]) /\ Range(gates[n]) = GatedSoFar(n)

(* The transistors of a set of legs, in the order of the legs. *)
Lists(s, S) ==
  \E ls \in Seq(Nat) :
    /\ Ascending(ls) /\ Range(ls) = S
    /\ Len(s) = Len(ls) /\ \A k \in 1 .. Len(ls) : s[k] = ls[k] \div 2

LegsCollected ==
  /\ siblings \in [Ids -> Seq(Nat)]
  /\ \A n \in Ids : Lists(siblings[n], LegsSoFar(n))

(* Where a node starts and ends. *)
Gated(n)   == Len(gates[n])
Joins(n)   == Len(siblings[n])
EndOf(n)   == offsets[n] + Header + 2 * Gated(n) + Joins(n)
Roomy      == Len(nodes) <= Word

Vector ==
  /\ nodes \in Seq(0 .. Word - 1)
  /\ DOMAIN offsets = {0} \cup Placed /\ offsets[0] = 0
  /\ \A n \in DOMAIN offsets :
       offsets[n] \in 0 .. Word - 1 /\ (Placed # {} => offsets[n] + Header <= Len(nodes))

Apart ==
  Roomy => /\ \A n \in Placed : EndOf(n) <= Len(nodes)
           /\ \A m, n \in Placed : m < n => EndOf(m) <= offsets[n]

Headers ==
  Roomy => \A n \in Placed :
    /\ At(offsets[n]) = IF n \in desc.pullups THEN 1 ELSE 0
    /\ At(offsets[n] + 1) = Gated(n)
    /\ At(offsets[n] + 2) = Joins(n)

(* The legs of the k-th transistor that node n gates. *)
Pair(n, k) == offsets[n] + Header + 2 * (k - 1)

LegsWritten ==
  Fits /\ NodeIds => \A n \in Filled : \A k \in 1 .. Gated(n) :
    /\ At(Pair(n, k)) = 2 * desc.tdefs[gates[n][k]].c1
    /\ At(Pair(n, k) + 1) = 2 * desc.tdefs[gates[n][k]].c2

(* Where the k-th connector of node n is, and where it leads. *)
Connector(n, k) == offsets[n] + Header + 2 * Gated(n) + k - 1
Side(n, i) == IF desc.tdefs[i].c1 = n THEN 1 ELSE 0

ConnectorsWritten ==
  Fits /\ NodeIds => \A n \in Joined : \A k \in 1 .. Joins(n) :
    LET i == siblings[n][k]
        g == desc.tdefs[i].gate
    IN \A j \in 1 .. Gated(g) :
         gates[g][j] = i => At(Connector(n, k)) = Pair(g, j) + Side(n, i)

LInv ==
  /\ Bounds /\ GatesCollected /\ LegsCollected
  /\ Vector /\ Apart /\ Headers /\ LegsWritten /\ ConnectorsWritten

-----------------------------------------------------------------------------
(* Ascending sequences are what Sorted makes of their members.             *)

LEMMA AscendingIsInjective ==
  ASSUME NEW s \in Seq(Nat), Ascending(s)
  PROVE  \A j, k \in 1 .. Len(s) : /\ s[j] = s[k] => j = k
                                   /\ s[j] < s[k] <=> j < k
<1>1. DOMAIN s = 1 .. Len(s) /\ Len(s) \in Nat /\ \A k \in 1 .. Len(s) : s[k] \in Nat
  OBVIOUS
<1> SUFFICES ASSUME NEW j \in 1 .. Len(s), NEW k \in 1 .. Len(s)
             PROVE  (s[j] = s[k] => j = k) /\ (s[j] < s[k] <=> j < k)
  OBVIOUS
<1>2. j < k => s[j] < s[k]
  BY <1>1 DEF Ascending
<1>3. k < j => s[k] < s[j]
  BY <1>1 DEF Ascending
<1> QED
  BY <1>1, <1>2, <1>3

LEMMA CountsPrefix ==
  ASSUME NEW s \in Seq(Nat), Ascending(s), NEW n \in 0 .. Len(s), NEW S,
         S = {s[j] : j \in 1 .. n}
  PROVE  Cardinality(S) = n
<1>1. \A j \in 1 .. n : j \in 1 .. Len(s)
  OBVIOUS
<1>2. \A j, k \in 1 .. n : s[j] = s[k] => j = k
  BY <1>1, AscendingIsInjective
<1> DEFINE f == [j \in 1 .. n |-> s[j]]
<1>3. f \in Injection(1 .. n, S)
  BY <1>2 DEF Injection, IsInjective
<1>4. f \in Surjection(1 .. n, S)
  BY DEF Surjection
<1>5. ExistsBijection(1 .. n, S)
  BY <1>3, <1>4 DEF Bijection, ExistsBijection
<1> QED
  BY <1>5, FS_CountingElements

LEMMA SortedIs ==
  ASSUME NEW s \in Seq(Nat), Ascending(s)
  PROVE  Sorted(Range(s)) = s
<1> DEFINE S == Range(s)
           Before(x) == {y \in S : y < x}
<1>1. DOMAIN s = 1 .. Len(s) /\ Len(s) \in Nat /\ S = {s[j] : j \in 1 .. Len(s)}
  BY DEF Range
<1>2. Cardinality(S) = Len(s)
  BY <1>1, CountsPrefix
<1>3. ASSUME NEW k \in 1 .. Len(s)
      PROVE  Cardinality(Before(s[k])) = k - 1
  <2>1. \A j \in 1 .. Len(s) : s[j] < s[k] <=> j < k
    BY AscendingIsInjective
  <2>2. Before(s[k]) = {s[j] : j \in 1 .. k - 1}
    BY <1>1, <2>1
  <2>3. k - 1 \in 0 .. Len(s)
    BY <1>1
  <2> HIDE DEF Before
  <2> QED
    BY <2>2, <2>3, CountsPrefix
<1>4. ASSUME NEW k \in 1 .. Len(s)
      PROVE  (CHOOSE x \in S : Cardinality(Before(x)) = k - 1) = s[k]
  <2>1. s[k] \in S /\ Cardinality(Before(s[k])) = k - 1
    BY <1>1, <1>3
  <2>2. \A x \in S : Cardinality(Before(x)) = k - 1 => x = s[k]
    <3> SUFFICES ASSUME NEW j \in 1 .. Len(s), Cardinality(Before(s[j])) = k - 1
                 PROVE  j = k
      BY <1>1
    <3> HIDE DEF Before
    <3> QED
      BY <1>3
  <2> HIDE DEF S, Before
  <2> QED
    BY <2>1, <2>2
<1>5. Sorted(S) = [k \in 1 .. Len(s) |-> CHOOSE x \in S : Cardinality(Before(x)) = k - 1]
  BY <1>2 DEF Sorted
<1>6. [k \in 1 .. Len(s) |-> CHOOSE x \in S : Cardinality(Before(x)) = k - 1]
        = [k \in 1 .. Len(s) |-> s[k]]
  <2> HIDE DEF S, Before
  <2> QED
    BY <1>4
<1>7. s = [k \in 1 .. Len(s) |-> s[k]]
  BY <1>1
<1> QED
  BY <1>5, <1>6, <1>7

LEMMA AppendAscends ==
  ASSUME NEW s \in Seq(Nat), Ascending(s), NEW x \in Nat, \A y \in Range(s) : y < x
  PROVE  /\ Append(s, x) \in Seq(Nat) /\ Ascending(Append(s, x))
         /\ Range(Append(s, x)) = Range(s) \cup {x}
<1> DEFINE t == Append(s, x)
           n == Len(s)
<1>1. /\ DOMAIN s = 1 .. n /\ n \in Nat /\ t \in Seq(Nat)
      /\ DOMAIN t = 1 .. n + 1
      /\ \A k \in 1 .. n : t[k] = s[k]
      /\ t[n + 1] = x
  OBVIOUS
<1>2. \A k \in 1 .. n + 1 : k \in 1 .. n \/ k = n + 1
  BY <1>1
<1>3. 1 .. n \subseteq 1 .. n + 1 /\ n + 1 \in 1 .. n + 1
  BY <1>1
<1>4. \A k \in 1 .. n : s[k] < x
  BY <1>1 DEF Range
<1> HIDE DEF t
<1>5. Range(t) = Range(s) \cup {x}
  <2> HIDE DEF n
  <2> QED
    BY <1>1, <1>2, <1>3 DEF Range
<1>6. Ascending(t)
  <2> SUFFICES ASSUME NEW j \in 1 .. n + 1, NEW k \in 1 .. n + 1, j < k PROVE t[j] < t[k]
    BY <1>1 DEF Ascending
  <2>1. j \in 1 .. n
    BY <1>1
  <2>2. CASE k = n + 1
    BY <1>1, <1>4, <2>1, <2>2
  <2>3. CASE k \in 1 .. n
    BY <1>1, <2>1, <2>3 DEF Ascending
  <2> QED
    BY <1>2, <2>2, <2>3
<1> QED
  BY <1>1, <1>5, <1>6 DEF t

-----------------------------------------------------------------------------
(* The first loop. *)

LEMMA SeqIs ==
  ASSUME NEW S, NEW s \in Seq(S)
  PROVE  Len(s) \in Nat /\ DOMAIN s = 1 .. Len(s) /\ \A i \in 1 .. Len(s) : s[i] \in S
OBVIOUS

LEMMA DescIs ==
  ASSUME Bounds
  PROVE  /\ desc.count \in Nat /\ Transistors \in Nat /\ DOMAIN desc.tdefs = 1 .. Transistors
         /\ \A i \in 1 .. Transistors : /\ desc.tdefs[i].gate \in Nat
                                        /\ desc.tdefs[i].c1 \in Nat /\ desc.tdefs[i].c2 \in Nat
         /\ Ids = 0 .. desc.count
         /\ Through \in 0 .. Transistors
<1>1. desc.count \in Nat /\ desc.tdefs \in Seq([gate : Nat, c1 : Nat, c2 : Nat])
  BY LayoutAssumption DEF Bounds
<1>2. Transistors \in Nat /\ DOMAIN desc.tdefs = 1 .. Transistors
      /\ \A i \in 1 .. Transistors : desc.tdefs[i] \in [gate : Nat, c1 : Nat, c2 : Nat]
  <2> DEFINE S == [gate : Nat, c1 : Nat, c2 : Nat]
  <2> HIDE DEF S
  <2> QED
    BY <1>1, SeqIs DEF S, Transistors
<1>3. Through \in 0 .. Transistors
  BY <1>2 DEF Through, Bounds
<1> QED
  BY <1>1, <1>2, <1>3 DEF Ids

LEMMA KeptAre ==
  ASSUME Bounds, NEW i
  PROVE  i \in Kept(desc) <=>
           /\ i \in 1 .. Transistors
           /\ \A j \in 1 .. i - 1 : ~SameTransistor(desc.tdefs[j], desc.tdefs[i])
BY DescIs DEF Kept

LEMMA Halving ==
  ASSUME NEW i \in Nat
  PROVE  /\ (2 * i) \div 2 = i /\ (2 * i + 1) \div 2 = i
         /\ (2 * i) % 2 = 0 /\ (2 * i + 1) % 2 = 1
         /\ 2 * i \in Nat /\ 2 * i + 1 \in Nat
OBVIOUS

(* The legs on a node: leg c1 and leg c2 of the transistors kept.          *)
LEMMA LegsAre ==
  ASSUME Bounds, NEW n, NEW l
  PROVE  l \in LegsOn(desc, n) <=>
           \E i \in Kept(desc) : \/ l = 2 * i /\ desc.tdefs[i].c1 = n
                                 \/ l = 2 * i + 1 /\ desc.tdefs[i].c2 = n
<1>1. \A i \in Kept(desc) : i \in Nat
  BY KeptAre, DescIs
<1>2. \A i \in Kept(desc) : /\ LegNode(desc, 2 * i) = desc.tdefs[i].c1
                            /\ LegNode(desc, 2 * i + 1) = desc.tdefs[i].c2
  <2> SUFFICES ASSUME NEW i \in Kept(desc)
               PROVE  /\ LegNode(desc, 2 * i) = desc.tdefs[i].c1
                      /\ LegNode(desc, 2 * i + 1) = desc.tdefs[i].c2
    OBVIOUS
  <2>1. /\ (2 * i) \div 2 = i /\ (2 * i + 1) \div 2 = i
        /\ (2 * i) % 2 = 0 /\ (2 * i + 1) % 2 = 1
    BY <1>1, Halving
  <2> QED
    BY <2>1 DEF LegNode
<1>3. l \in LegsOn(desc, n) <=>
        \E i \in Kept(desc) : l \in {2 * i, 2 * i + 1} /\ LegNode(desc, l) = n
  BY DEF LegsOn
<1> QED
  BY <1>2, <1>3

LEMMA ListsMore ==
  ASSUME NEW s \in Seq(Nat), NEW S, Lists(s, S), NEW i \in Nat, NEW l \in {2 * i, 2 * i + 1},
         \A y \in S : y < l
  PROVE  Append(s, i) \in Seq(Nat) /\ Lists(Append(s, i), S \cup {l})
<1>1. PICK ls \in Seq(Nat) : /\ Ascending(ls) /\ Range(ls) = S
                             /\ Len(s) = Len(ls) /\ \A k \in 1 .. Len(ls) : s[k] = ls[k] \div 2
  BY DEF Lists
<1>2. l \in Nat /\ l \div 2 = i
  BY Halving
<1> DEFINE ms == Append(ls, l)
           r  == Append(s, i)
<1>3. ms \in Seq(Nat) /\ Ascending(ms) /\ Range(ms) = S \cup {l}
  BY <1>1, <1>2, AppendAscends
<1>4. /\ Len(ms) = Len(ls) + 1 /\ ms[Len(ls) + 1] = l /\ \A k \in 1 .. Len(ls) : ms[k] = ls[k]
      /\ Len(r) = Len(s) + 1 /\ r[Len(s) + 1] = i /\ \A k \in 1 .. Len(s) : r[k] = s[k]
      /\ r \in Seq(Nat) /\ Len(ls) \in Nat
  BY <1>2
<1> HIDE DEF ms, r
<1>5. \A k \in 1 .. Len(ms) : k \in 1 .. Len(ls) \/ k = Len(ls) + 1
  BY <1>4
<1>6. \A k \in 1 .. Len(ms) : r[k] = ms[k] \div 2
  BY <1>1, <1>2, <1>4, <1>5
<1>7. Lists(r, S \cup {l})
  BY <1>1, <1>3, <1>4, <1>6 DEF Lists
<1> QED
  BY <1>4, <1>7 DEF r

(* One transistor more has been looked at, and was like an earlier one or  *)
(* not.                                                                    *)
LEMMA SoFarGrows ==
  ASSUME Bounds, SetupTransistor
  PROVE  /\ Through = cursor - 1 /\ Through' = cursor /\ desc' = desc
         /\ cursor \in 1 .. Transistors /\ IdsOf(cursor) \subseteq Ids
         /\ Known <=> cursor \notin Kept(desc)
<1>1. phase = "setup" /\ phase' = phase /\ cursor' = cursor + 1 /\ desc' = desc
      /\ cursor <= Transistors /\ IdsOf(cursor) \subseteq Ids
  BY DEF SetupTransistor, Transistors, IdsOf, This
<1>2. cursor \in 1 .. Transistors
  BY <1>1, DescIs DEF Bounds
<1>3. Through = cursor - 1 /\ Through' = cursor
  BY <1>1, <1>2, DescIs DEF Through, Collecting
<1>4. Known <=> cursor \notin Kept(desc)
  BY <1>2, KeptAre DEF Known, This
<1> QED
  BY <1>1, <1>2, <1>3, <1>4

LEMMA GatedGrows ==
  ASSUME Bounds, SetupTransistor, NEW n
  PROVE  GatedSoFar(n)' = IF cursor \in Kept(desc) /\ This.gate = n
                          THEN GatedSoFar(n) \cup {cursor} ELSE GatedSoFar(n)
<1>1. \A i \in Kept(desc) : i \in Nat
  BY KeptAre, DescIs
<1>2. \A i \in Kept(desc) : i <= cursor <=> i <= cursor - 1 \/ i = cursor
  BY <1>1, SoFarGrows
<1> QED
  BY <1>2, SoFarGrows DEF GatedSoFar, This

LEMMA LegsGrow ==
  ASSUME Bounds, SetupTransistor, NEW n
  PROVE  LegsSoFar(n)' =
           LegsSoFar(n)
             \cup (IF cursor \in Kept(desc) /\ This.c1 = n THEN {2 * cursor} ELSE {})
             \cup (IF cursor \in Kept(desc) /\ This.c2 = n THEN {2 * cursor + 1} ELSE {})
<1>1. \A i \in Kept(desc) : i \in Nat /\ (2 * i) \div 2 = i /\ (2 * i + 1) \div 2 = i
  <2>1. \A i \in Kept(desc) : i \in Nat
    BY KeptAre, DescIs
  <2> QED
    BY <2>1, Halving
<1>2. \A i \in Kept(desc) : i <= cursor <=> i <= cursor - 1 \/ i = cursor
  BY <1>1, SoFarGrows
<1>3. LegsSoFar(n)' = {l \in LegsOn(desc, n) : l \div 2 <= cursor}
      /\ LegsSoFar(n) = {l \in LegsOn(desc, n) : l \div 2 <= cursor - 1}
  BY SoFarGrows DEF LegsSoFar
<1>4. ASSUME NEW l
      PROVE  l \in LegsSoFar(n)' <=> \/ l \in LegsSoFar(n)
                                     \/ cursor \in Kept(desc) /\ This.c1 = n /\ l = 2 * cursor
                                     \/ cursor \in Kept(desc) /\ This.c2 = n /\ l = 2 * cursor + 1
  <2>1. ASSUME l \in LegsSoFar(n)'
        PROVE  \/ l \in LegsSoFar(n)
               \/ cursor \in Kept(desc) /\ This.c1 = n /\ l = 2 * cursor
               \/ cursor \in Kept(desc) /\ This.c2 = n /\ l = 2 * cursor + 1
    <3>1. PICK i \in Kept(desc) : \/ l = 2 * i /\ desc.tdefs[i].c1 = n
                                  \/ l = 2 * i + 1 /\ desc.tdefs[i].c2 = n
      BY <1>3, <2>1, LegsAre
    <3>2. l \div 2 = i /\ i <= cursor
      BY <1>1, <1>3, <2>1, <3>1
    <3> QED
      BY <1>2, <1>3, <2>1, <3>1, <3>2 DEF This
  <2>2. l \in LegsSoFar(n) => l \in LegsSoFar(n)'
    <3>1. ASSUME l \in LegsSoFar(n) PROVE l \in LegsSoFar(n)'
      <4>1. PICK i \in Kept(desc) : l = 2 * i \/ l = 2 * i + 1
        BY <1>3, <3>1, LegsAre
      <4>2. l \div 2 = i
        BY <1>1, <4>1
      <4> QED
        BY <1>2, <1>3, <3>1, <4>2
    <3> QED
      BY <3>1
  <2>3. ASSUME cursor \in Kept(desc), \/ This.c1 = n /\ l = 2 * cursor
                                      \/ This.c2 = n /\ l = 2 * cursor + 1
        PROVE  l \in LegsSoFar(n)'
    <3>1. l \in LegsOn(desc, n)
      BY <2>3, LegsAre DEF This
    <3>2. l \div 2 <= cursor
      BY <1>1, <2>3
    <3> QED
      BY <1>3, <3>1, <3>2
  <2> QED
    BY <2>1, <2>2, <2>3
<1>5. ASSUME NEW l
      PROVE  l \in LegsSoFar(n)' <=>
               l \in LegsSoFar(n)
                 \cup (IF cursor \in Kept(desc) /\ This.c1 = n THEN {2 * cursor} ELSE {})
                 \cup (IF cursor \in Kept(desc) /\ This.c2 = n THEN {2 * cursor + 1} ELSE {})
  BY <1>4
<1> QED
  BY <1>5, Zenon

LEMMA InitInv ==
  ASSUME Init
  PROVE  LInv
<1>1. /\ desc \in Descs /\ phase = "setup" /\ cursor = 1 /\ nodes = <<>>
      /\ gates = [n \in Ids |-> <<>>] /\ siblings = [n \in Ids |-> <<>>]
      /\ offsets = [n \in {0} |-> 0]
  BY DEF Init
<1>2. desc.count \in Nat /\ desc.tdefs \in Seq([gate : Nat, c1 : Nat, c2 : Nat])
  BY <1>1, LayoutAssumption
<1>3. Transistors \in Nat
  BY <1>2 DEF Transistors
<1>4. Collecting /\ Through = 0 /\ Placed = {} /\ Filled = {} /\ Joined = {}
  BY <1>1 DEF Collecting, Through, Placed, Filled, Joined
<1>5. Bounds
  BY <1>1, <1>3, <1>4 DEF Bounds, Phases, Ended, Collecting
<1>6. \A n : GatedSoFar(n) = {} /\ LegsSoFar(n) = {}
  <2> SUFFICES ASSUME NEW n PROVE GatedSoFar(n) = {} /\ LegsSoFar(n) = {}
    OBVIOUS
  <2>1. \A i \in Kept(desc) : i \in Nat /\ i > 0
    BY <1>5, KeptAre, DescIs
  <2>2. GatedSoFar(n) = {}
    BY <1>4, <2>1 DEF GatedSoFar
  <2>3. ASSUME NEW l \in LegsSoFar(n) PROVE FALSE
    <3>1. PICK i \in Kept(desc) : l = 2 * i \/ l = 2 * i + 1
      BY <1>5, <2>3, LegsAre DEF LegsSoFar
    <3>2. l \div 2 = i
      BY <2>1, <3>1, Halving
    <3> QED
      BY <1>4, <2>1, <3>2 DEF LegsSoFar
  <2> QED
    BY <2>2, <2>3
<1>7. <<>> \in Seq(Nat) /\ Ascending(<<>>) /\ Range(<<>>) = {} /\ Len(<<>>) = 0
  BY DEF Ascending, Range
<1>8. Lists(<<>>, {})
  <2> DEFINE e == <<>>
  <2>1. \A k \in 1 .. Len(e) : e[k] = e[k] \div 2
    BY <1>7
  <2>2. e \in Seq(Nat) /\ Ascending(e) /\ Range(e) = {} /\ Len(e) = Len(e)
    BY <1>7
  <2> HIDE DEF e
  <2>3. Lists(e, {})
    BY <2>1, <2>2 DEF Lists
  <2> QED
    BY <2>3 DEF e
<1>9. GatesCollected /\ LegsCollected
  BY <1>1, <1>6, <1>7, <1>8 DEF GatesCollected, LegsCollected
<1>10. Vector
  <2>1. offsets[0] = 0 /\ DOMAIN offsets = {0}
    BY <1>1
  <2>2. nodes \in Seq(0 .. Word - 1) /\ 0 \in 0 .. Word - 1
    BY <1>1, LayoutAssumption
  <2> QED
    BY <1>4, <2>1, <2>2 DEF Vector
<1>11. Apart /\ Headers /\ LegsWritten /\ ConnectorsWritten
  BY <1>4 DEF Apart, Headers, LegsWritten, ConnectorsWritten
<1> QED
  BY <1>5, <1>9, <1>10, <1>11 DEF LInv

LEMMA CollectedKept ==
  ASSUME GatesCollected, LegsCollected, UNCHANGED <<desc, gates, siblings>>, Through' = Through
  PROVE  GatesCollected' /\ LegsCollected'
<1>1. Ids' = Ids /\ \A n : GatedSoFar(n)' = GatedSoFar(n) /\ LegsSoFar(n)' = LegsSoFar(n)
  BY DEF Ids, GatedSoFar, LegsSoFar
<1>2. GatesCollected'
  BY <1>1 DEF GatesCollected
<1>3. LegsCollected'
  BY <1>1 DEF LegsCollected
<1> QED
  BY <1>2, <1>3

(* A loop that has only counted, or ended. *)
LEMMA WrittenKept ==
  ASSUME Vector, Apart, Headers, LegsWritten, ConnectorsWritten,
         UNCHANGED <<desc, gates, siblings, nodes, offsets>>,
         Placed' = Placed, Filled' \subseteq Filled, Joined' \subseteq Joined
  PROVE  Vector' /\ Apart' /\ Headers' /\ LegsWritten' /\ ConnectorsWritten'
<1>1. (Fits /\ NodeIds)' <=> Fits /\ NodeIds
  BY DEF Fits, NodeIds
<1>2. \A n : Gated(n)' = Gated(n) /\ Joins(n)' = Joins(n) /\ EndOf(n)' = EndOf(n) /\ At(n)' = At(n)
  BY DEF Gated, Joins, EndOf, At
<1>3. \A n, k : /\ Pair(n, k)' = Pair(n, k) /\ Connector(n, k)' = Connector(n, k)
                /\ Side(n, k)' = Side(n, k)
  BY <1>2 DEF Pair, Connector, Side
<1>4. Roomy' <=> Roomy
  BY DEF Roomy
<1>5. Vector'
  BY DEF Vector
<1>6. Apart'
  BY <1>2, <1>4 DEF Apart
<1>7. Headers'
  BY <1>2, <1>4 DEF Headers, At
<1>8. LegsWritten'
  BY <1>1, <1>2, <1>3 DEF LegsWritten, At
<1>9. ConnectorsWritten'
  BY <1>1, <1>2, <1>3 DEF ConnectorsWritten, At
<1> QED
  BY <1>5, <1>6, <1>7, <1>8, <1>9

LEMMA SetupGates ==
  ASSUME LInv, SetupTransistor
  PROVE  GatesCollected'
<1>1. Bounds /\ GatesCollected /\ Ids' = Ids
  BY SoFarGrows DEF LInv, Ids
<1>2. CASE Known
  <2>1. gates' = gates /\ \A n : GatedSoFar(n)' = GatedSoFar(n)
    BY <1>1, <1>2, SoFarGrows, GatedGrows DEF SetupTransistor
  <2> QED
    BY <1>1, <2>1 DEF GatesCollected
<1>3. CASE ~Known
  <2>1. gates' = [gates EXCEPT ![This.gate] = Append(@, cursor)]
    BY <1>3 DEF SetupTransistor
  <2>2. This.gate \in Ids /\ cursor \in Nat /\ cursor \in Kept(desc)
    BY <1>1, <1>3, SoFarGrows, DescIs DEF IdsOf, This
  <2>3. ASSUME NEW n \in Ids
        PROVE  /\ gates'[n] \in Seq(Nat) /\ Ascending(gates'[n])
               /\ Range(gates'[n]) = GatedSoFar(n)'
    <3>1. gates[n] \in Seq(Nat) /\ Ascending(gates[n]) /\ Range(gates[n]) = GatedSoFar(n)
      BY <1>1 DEF GatesCollected
    <3>2. CASE n = This.gate
      <4>1. gates'[n] = Append(gates[n], cursor)
        BY <1>1, <2>1, <2>2, <3>2 DEF GatesCollected
      <4>2. \A y \in GatedSoFar(n) : y < cursor
        <5>1. \A i \in Kept(desc) : i \in Nat
          BY <1>1, KeptAre, DescIs
        <5>2. Through = cursor - 1 /\ cursor \in Nat
          BY <1>1, <2>2, SoFarGrows
        <5>3. ASSUME NEW y \in GatedSoFar(n) PROVE y \in Kept(desc) /\ y <= Through
          BY <5>3 DEF GatedSoFar
        <5> QED
          BY <5>1, <5>2, <5>3
      <4>3. GatedSoFar(n)' = GatedSoFar(n) \cup {cursor}
        BY <1>1, <2>2, <3>2, GatedGrows
      <4> QED
        BY <2>2, <3>1, <4>1, <4>2, <4>3, AppendAscends
    <3>3. CASE n # This.gate
      <4>1. gates'[n] = gates[n]
        BY <1>1, <2>1, <2>2, <3>3 DEF GatesCollected
      <4>2. GatedSoFar(n)' = GatedSoFar(n)
        BY <1>1, <3>3, GatedGrows
      <4> QED
        BY <3>1, <4>1, <4>2
    <3> QED
      BY <3>2, <3>3
  <2>4. DOMAIN gates' = Ids /\ gates' = [n \in Ids |-> gates'[n]]
    BY <1>1, <2>1 DEF GatesCollected
  <2>5. gates' \in [Ids -> Seq(Nat)]
    BY <2>3, <2>4
  <2> QED
    BY <1>1, <2>3, <2>5 DEF GatesCollected
<1> QED
  BY <1>2, <1>3

LEMMA SetupLegs ==
  ASSUME LInv, SetupTransistor
  PROVE  LegsCollected'
<1>1. Bounds /\ LegsCollected /\ Ids' = Ids
  BY SoFarGrows DEF LInv, Ids
<1>2. CASE Known
  <2>1. siblings' = siblings /\ \A n : LegsSoFar(n)' = LegsSoFar(n)
    BY <1>1, <1>2, SoFarGrows, LegsGrow DEF SetupTransistor
  <2> QED
    BY <1>1, <2>1 DEF LegsCollected
<1>3. CASE ~Known
  <2> DEFINE once == [siblings EXCEPT ![This.c1] = Append(@, cursor)]
  <2>1. siblings' = [once EXCEPT ![This.c2] = Append(@, cursor)]
    BY <1>3 DEF SetupTransistor
  <2>2. This.c1 \in Ids /\ This.c2 \in Ids /\ cursor \in Nat /\ cursor \in Kept(desc)
    BY <1>1, <1>3, SoFarGrows, DescIs DEF IdsOf, This
  <2>3. ASSUME NEW n \in Ids
        PROVE  siblings'[n] \in Seq(Nat) /\ Lists(siblings'[n], LegsSoFar(n)')
    <3>1. siblings[n] \in Seq(Nat) /\ Lists(siblings[n], LegsSoFar(n))
      BY <1>1 DEF LegsCollected
    <3> DEFINE S == LegsSoFar(n)
               T == S \cup (IF This.c1 = n THEN {2 * cursor} ELSE {})
               s == siblings[n]
               t == IF This.c1 = n THEN Append(s, cursor) ELSE s
    <3>2. LegsSoFar(n)' = T \cup (IF This.c2 = n THEN {2 * cursor + 1} ELSE {})
      BY <1>1, <2>2, LegsGrow
    <3>3. once[n] = t
      BY <1>1, <2>2 DEF LegsCollected
    <3>4. siblings'[n] = IF This.c2 = n THEN Append(t, cursor) ELSE t
      <4>1. DOMAIN once = Ids
        BY <1>1 DEF LegsCollected
      <4> HIDE DEF once
      <4> QED
        BY <2>1, <2>2, <3>3, <4>1
    <3>5. \A y \in S : y < 2 * cursor
      <4> SUFFICES ASSUME NEW y \in S PROVE y < 2 * cursor
        OBVIOUS
      <4>1. PICK i \in Kept(desc) : y = 2 * i \/ y = 2 * i + 1
        BY <1>1, LegsAre DEF LegsSoFar
      <4>2. i \in Nat
        BY <1>1, KeptAre, DescIs
      <4>3. y \div 2 = i /\ y \div 2 <= cursor - 1
        BY <1>1, <4>1, <4>2, Halving, SoFarGrows DEF LegsSoFar
      <4> QED
        BY <2>2, <4>1, <4>2, <4>3
    <3> HIDE DEF S, s
    <3>6. t \in Seq(Nat) /\ Lists(t, T)
      <4>1. CASE This.c1 = n
        <5>1. t = Append(s, cursor) /\ T = S \cup {2 * cursor}
          BY <4>1
        <5>2. s \in Seq(Nat) /\ Lists(s, S)
          BY <3>1 DEF s, S
        <5> QED
          BY <2>2, <3>5, <5>1, <5>2, ListsMore
      <4>2. CASE This.c1 # n
        BY <3>1, <4>2 DEF s, S
      <4> QED
        BY <4>1, <4>2
    <3>7. \A y \in T : y < 2 * cursor + 1
      <4>1. \A y \in S : y \in Int
        BY <1>1, KeptAre, DescIs, LegsAre DEF LegsSoFar, S
      <4> QED
        BY <2>2, <3>5, <4>1
    <3> HIDE DEF t, T
    <3>8. CASE This.c2 = n
      <4>1. siblings'[n] = Append(t, cursor) /\ LegsSoFar(n)' = T \cup {2 * cursor + 1}
        BY <3>2, <3>4, <3>8
      <4>2. Append(t, cursor) \in Seq(Nat) /\ Lists(Append(t, cursor), T \cup {2 * cursor + 1})
        BY <2>2, <3>6, <3>7, ListsMore
      <4> QED
        BY <4>1, <4>2
    <3>9. CASE This.c2 # n
      BY <3>2, <3>4, <3>6, <3>9
    <3> QED
      BY <3>8, <3>9
  <2>4. DOMAIN siblings' = Ids /\ siblings' = [n \in Ids |-> siblings'[n]]
    BY <1>1, <2>1 DEF LegsCollected
  <2>5. siblings' \in [Ids -> Seq(Nat)]
    BY <2>3, <2>4
  <2> QED
    BY <1>1, <2>3, <2>5 DEF LegsCollected
<1> QED
  BY <1>2, <1>3

-----------------------------------------------------------------------------
(* The steps that write no word.                                           *)

LEMMA SetupNext ==
  ASSUME LInv, SetupTransistor
  PROVE  LInv'
<1>1. Bounds /\ Vector /\ phase = "setup" /\ phase' = phase /\ cursor' = cursor + 1
      /\ UNCHANGED <<desc, nodes, offsets>>
  BY DEF LInv, SetupTransistor
<1>2. Collecting' /\ Placed = {} /\ Placed' = {} /\ Filled' = {} /\ Joined' = {}
  BY <1>1 DEF Collecting, Placed, Filled, Joined
<1>3. Transistors' = Transistors /\ Ids' = Ids /\ \A i : IdsOf(i)' = IdsOf(i)
  BY <1>1 DEF Transistors, Ids, IdsOf
<1>4. Bounds'
  <2>1. cursor' \in Nat \ {0} /\ cursor' <= Transistors + 1
    BY <1>1, SoFarGrows, DescIs
  <2>2. \A i \in 1 .. Through' : IdsOf(i) \subseteq Ids
    <3>1. \A i \in 1 .. Through : IdsOf(i) \subseteq Ids
      BY <1>1 DEF Bounds
    <3> QED
      BY <1>1, <3>1, SoFarGrows
  <2> QED
    BY <1>1, <1>2, <1>3, <2>1, <2>2 DEF Bounds
<1>5. GatesCollected' /\ LegsCollected'
  BY SetupGates, SetupLegs
<1>6. Vector'
  BY <1>1, <1>2 DEF Vector
<1>7. Apart' /\ Headers' /\ LegsWritten' /\ ConnectorsWritten'
  BY <1>2 DEF Apart, Headers, LegsWritten, ConnectorsWritten
<1> QED
  BY <1>4, <1>5, <1>6, <1>7 DEF LInv

(* A step that leaves everything but the loop counter and the phase alone. *)
LEMMA LoopNext ==
  ASSUME LInv, UNCHANGED <<desc, gates, siblings, nodes, offsets>>,
         Bounds', Through' = Through,
         Placed' = Placed, Filled' \subseteq Filled, Joined' \subseteq Joined
  PROVE  LInv'
<1>1. GatesCollected' /\ LegsCollected'
  BY CollectedKept DEF LInv
<1>2. Vector' /\ Apart' /\ Headers' /\ LegsWritten' /\ ConnectorsWritten'
  BY WrittenKept DEF LInv
<1> QED
  BY <1>1, <1>2 DEF LInv

Same ==
  /\ UNCHANGED <<desc, gates, siblings, nodes, offsets>>
  /\ Transistors' = Transistors /\ Ids' = Ids /\ \A i : IdsOf(i)' = IdsOf(i)

LEMMA SameIs ==
  ASSUME UNCHANGED <<desc, gates, siblings, nodes, offsets>>
  PROVE  Same
BY DEF Same, Transistors, Ids, IdsOf

LEMMA OutOfRangeNext ==
  ASSUME LInv, IdOutOfRange
  PROVE  LInv'
<1>1. /\ phase = "setup" /\ phase' = "out_of_range" /\ cursor' = cursor /\ Bounds
      /\ cursor <= Transistors /\ ~(IdsOf(cursor) \subseteq Ids) /\ Same
  BY SameIs DEF LInv, IdOutOfRange, Transistors, IdsOf, This
<1>2. Collecting /\ Collecting' /\ Through' = Through
      /\ Placed = {} /\ Placed' = {} /\ Filled' = {} /\ Joined' = {}
  BY <1>1 DEF Collecting, Through, Placed, Filled, Joined
<1>3. Bounds'
  BY <1>1, <1>2 DEF Bounds, Same, Phases, Ended
<1> QED
  BY <1>1, <1>2, <1>3, LoopNext DEF Same

LEMMA SetupEndsNext ==
  ASSUME LInv, SetupEnds
  PROVE  LInv'
<1>1. /\ phase = "setup" /\ phase' = "place" /\ cursor' = 1 /\ Bounds
      /\ cursor > Transistors /\ Same
  BY SameIs DEF LInv, SetupEnds, LoopEnds, Transistors
<1>2. Collecting /\ ~Collecting'
      /\ Placed = {} /\ Placed' = {} /\ Filled' = {} /\ Joined' = {}
  BY <1>1 DEF Collecting, Placed, Filled, Joined
<1>3. Through = Transistors /\ Through' = Through
  BY <1>1, <1>2, DescIs DEF Through, Same, Bounds
<1>4. Bounds'
  BY <1>1, <1>2, <1>3, DescIs DEF Bounds, Same, Phases, Ended
<1> QED
  BY <1>1, <1>2, <1>3, <1>4, LoopNext DEF Same

LEMMA AssertFailsNext ==
  ASSUME LInv, AssertFails
  PROVE  LInv'
<1>1. /\ phase = "place" /\ phase' = "abort" /\ cursor' = cursor /\ Bounds /\ Vector
      /\ ~(Word - 1 > Len(nodes)) /\ Same
  BY SameIs DEF LInv, AssertFails, SizeAsserted
<1>2. ~Collecting /\ ~Collecting' /\ Through' = Through
      /\ Placed' = Placed /\ Filled' = {} /\ Joined' = {}
  BY <1>1 DEF Collecting, Through, Placed, Filled, Joined, Same
<1>3. Len(nodes) + 1 >= Word
  BY <1>1, LayoutAssumption DEF Vector
<1>4. Bounds'
  BY <1>1, <1>2, <1>3, DescIs DEF Bounds, Same, Phases, Ended
<1> QED
  BY <1>1, <1>2, <1>4, LoopNext DEF Same

LEMMA PlaceEndsNext ==
  ASSUME LInv, PlaceEnds
  PROVE  LInv'
<1>1. /\ phase = "place" /\ phase' = "legs" /\ cursor' = 1 /\ Bounds
      /\ cursor > desc.count /\ Same
  BY SameIs DEF LInv, PlaceEnds, LoopEnds
<1>2. cursor - 1 = desc.count
  BY <1>1, DescIs DEF Bounds, Collecting
<1>3. ~Collecting /\ ~Collecting' /\ Through' = Through
      /\ Placed' = Placed /\ Filled' = {} /\ Joined' = {}
  BY <1>1, <1>2 DEF Collecting, Through, Placed, Filled, Joined, Same
<1>4. Bounds'
  BY <1>1, <1>3, DescIs DEF Bounds, Same, Phases, Ended
<1> QED
  BY <1>1, <1>3, <1>4, LoopNext DEF Same

LEMMA LegsEndNext ==
  ASSUME LInv, LegsEnd
  PROVE  LInv'
<1>1. /\ phase = "legs" /\ phase' = "connect" /\ cursor' = 1 /\ Bounds
      /\ cursor > desc.count /\ Same
  BY SameIs DEF LInv, LegsEnd, LoopEnds
<1>2. cursor - 1 = desc.count
  BY <1>1, DescIs DEF Bounds, Collecting
<1>3. ~Collecting /\ ~Collecting' /\ Through' = Through
      /\ Placed' = Placed /\ Filled' = Filled /\ Joined' = {}
  BY <1>1, <1>2 DEF Collecting, Through, Placed, Filled, Joined, Same
<1>4. Bounds'
  BY <1>1, <1>3, DescIs DEF Bounds, Same, Phases, Ended
<1> QED
  BY <1>1, <1>3, <1>4, LoopNext DEF Same

LEMMA ConnectEndsNext ==
  ASSUME LInv, ConnectEnds
  PROVE  LInv'
<1>1. /\ phase = "connect" /\ phase' = "done" /\ cursor' = 1 /\ Bounds
      /\ cursor > desc.count /\ Same
  BY SameIs DEF LInv, ConnectEnds, LoopEnds
<1>2. cursor - 1 = desc.count
  BY <1>1, DescIs DEF Bounds, Collecting
<1>3. ~Collecting /\ ~Collecting' /\ Through' = Through
      /\ Placed' = Placed /\ Filled' = Filled /\ Joined' = Joined
  BY <1>1, <1>2 DEF Collecting, Through, Placed, Filled, Joined, Same
<1>4. Bounds'
  BY <1>1, <1>3, DescIs DEF Bounds, Same, Phases, Ended
<1> QED
  BY <1>1, <1>3, <1>4, LoopNext DEF Same

-----------------------------------------------------------------------------
(* The loop that places the nodes.                                         *)

LEMMA Modulo ==
  ASSUME NEW m \in Nat, NEW w \in Nat \ {0}
  PROVE  m % w \in 0 .. w - 1 /\ m % w <= m /\ (m < w => m % w = m)
<1>1. m % w \in 0 .. w - 1
  OBVIOUS
<1>2. m < w => m % w = m
  OBVIOUS
<1> QED
  BY <1>1, <1>2

LEMMA Appended ==
  ASSUME NEW S, NEW q \in Seq(S), NEW a \in S, NEW b \in S, NEW c \in S, NEW z \in S,
         NEW m \in Nat, NEW r, r = q \o <<a, b, c>> \o [i \in 1 .. m |-> z]
  PROVE  /\ r \in Seq(S) /\ Len(r) = Len(q) + 3 + m
         /\ \A i \in 1 .. Len(q) : r[i] = q[i]
         /\ r[Len(q) + 1] = a /\ r[Len(q) + 2] = b /\ r[Len(q) + 3] = c
<1> DEFINE h == <<a, b, c>>
           p == q \o h
           t == [i \in 1 .. m |-> z]
<1>1. h \in Seq(S) /\ Len(h) = 3 /\ h[1] = a /\ h[2] = b /\ h[3] = c
  OBVIOUS
<1>2. t \in Seq(S) /\ Len(t) = m
  <2>1. t \in Seq(S)
    BY SeqDef
  <2>2. DOMAIN t = 1 .. m /\ DOMAIN t = 1 .. Len(t) /\ Len(t) \in Nat
    BY <2>1, SeqIs
  <2> HIDE DEF t
  <2> QED
    BY <2>1, <2>2
<1> HIDE DEF h, t
<1>3. /\ p \in Seq(S) /\ Len(p) = Len(q) + 3
      /\ \A i \in 1 .. Len(q) : p[i] = q[i]
      /\ p[Len(q) + 1] = a /\ p[Len(q) + 2] = b /\ p[Len(q) + 3] = c
  <2> DEFINE both == Len(q) + Len(h)
  <2>4. /\ p \in Seq(S) /\ Len(p) = both
        /\ \A i \in 1 .. both : p[i] = IF i <= Len(q) THEN q[i] ELSE h[i - Len(q)]
    <3>1. h \in Seq(S)
      BY <1>1
    <3> HIDE DEF both
    <3>2. /\ q \o h \in Seq(S) /\ Len(q \o h) = Len(q) + Len(h)
          /\ \A i \in 1 .. Len(q) + Len(h) :
               (q \o h)[i] = IF i <= Len(q) THEN q[i] ELSE h[i - Len(q)]
      BY <3>1, ConcatProperties, Zenon
    <3> QED
      BY <3>2, Zenon DEF both
  <2>1. /\ p \in Seq(S) /\ Len(p) = Len(q) + 3 /\ Len(q) \in Nat
        /\ \A i \in 1 .. Len(q) + 3 : p[i] = IF i <= Len(q) THEN q[i] ELSE h[i - Len(q)]
    <3>1. Len(q) \in Nat /\ both = Len(q) + 3
      BY <1>1
    <3> HIDE DEF both, p
    <3> QED
      BY <2>4, <3>1
  <2> HIDE DEF p, both
  <2>2. \A i \in 1 .. 3 : p[Len(q) + i] = h[i]
    <3> SUFFICES ASSUME NEW i \in 1 .. 3 PROVE p[Len(q) + i] = h[i]
      OBVIOUS
    <3> DEFINE k == Len(q) + i
    <3>1. k \in 1 .. Len(q) + 3 /\ ~(k <= Len(q)) /\ k - Len(q) = i
      BY <2>1
    <3> HIDE DEF k
    <3>2. p[k] = h[i]
      BY <2>1, <3>1
    <3> QED
      BY <3>2 DEF k
  <2>3. \A i \in 1 .. Len(q) : p[i] = q[i]
    <3>1. \A i \in 1 .. Len(q) : i \in 1 .. Len(q) + 3 /\ i <= Len(q)
      BY <2>1
    <3> QED
      BY <2>1, <3>1
  <2> QED
    BY <1>1, <2>1, <2>2, <2>3
<1> HIDE DEF p
<1>4. r = p \o t
  BY DEF p, h, t
<1>5. r \in Seq(S) /\ Len(r) = Len(p) + Len(t) /\ \A i \in 1 .. Len(p) : r[i] = p[i]
  BY <1>2, <1>3, <1>4
<1> QED
  BY <1>2, <1>3, <1>5

LEMMA PlaceIs ==
  ASSUME LInv, PlaceNode
  PROVE  /\ phase = "place" /\ phase' = phase /\ cursor' = cursor + 1
         /\ UNCHANGED <<desc, gates, siblings>>
         /\ cursor \in 1 .. desc.count /\ Gated(cursor) \in Nat /\ Joins(cursor) \in Nat
         /\ Placed = 1 .. cursor - 1 /\ Placed' = 1 .. cursor
         /\ nodes' \in Seq(0 .. Word - 1)
         /\ Len(nodes') = Len(nodes) + Header + 2 * Gated(cursor) + Joins(cursor)
         /\ \A i \in 1 .. Len(nodes) : nodes'[i] = nodes[i]
         /\ nodes'[Len(nodes) + 1] = IF cursor \in desc.pullups THEN 1 ELSE 0
         /\ nodes'[Len(nodes) + 2] = Gated(cursor) % Word
         /\ nodes'[Len(nodes) + 3] = Joins(cursor) % Word
         /\ DOMAIN offsets' = 0 .. cursor
         /\ offsets'[cursor] = Len(nodes) % Word
         /\ \A n \in 0 .. cursor - 1 : offsets'[n] = offsets[n]
<1>1. /\ phase = "place" /\ phase' = phase /\ cursor' = cursor + 1 /\ cursor <= desc.count
      /\ UNCHANGED <<desc, gates, siblings>> /\ Bounds /\ GatesCollected /\ LegsCollected /\ Vector
  BY DEF LInv, PlaceNode
<1>2. cursor \in 1 .. desc.count /\ cursor \in Ids
  BY <1>1, DescIs DEF Bounds
<1>3. Gated(cursor) \in Nat /\ Joins(cursor) \in Nat
  BY <1>1, <1>2 DEF Gated, Joins, GatesCollected, LegsCollected
<1>4. Placed = 1 .. cursor - 1 /\ Placed' = 1 .. cursor
  BY <1>1, <1>2 DEF Placed, Collecting
<1> DEFINE flags == IF cursor \in desc.pullups THEN 1 ELSE 0
           g == Gated(cursor) % Word
           s == Joins(cursor) % Word
           m == 2 * Gated(cursor) + Joins(cursor)
<1>5. nodes' = nodes \o <<flags, g, s>> \o [i \in 1 .. m |-> 0]
  BY DEF PlaceNode, Gated, Joins
<1>6. flags \in 0 .. Word - 1 /\ g \in 0 .. Word - 1 /\ s \in 0 .. Word - 1 /\ 0 \in 0 .. Word - 1
      /\ m \in Nat
  BY <1>3, LayoutAssumption
<1>7. nodes \in Seq(0 .. Word - 1)
  BY <1>1 DEF Vector
<1> HIDE DEF flags, g, s, m
<1>8. /\ nodes' \in Seq(0 .. Word - 1) /\ Len(nodes') = Len(nodes) + 3 + m
      /\ \A i \in 1 .. Len(nodes) : nodes'[i] = nodes[i]
      /\ nodes'[Len(nodes) + 1] = flags /\ nodes'[Len(nodes) + 2] = g
      /\ nodes'[Len(nodes) + 3] = s
  <2> DEFINE S == 0 .. Word - 1
             r == nodes'
  <2>1. flags \in S /\ g \in S /\ s \in S /\ 0 \in S /\ nodes \in Seq(S)
        /\ r = nodes \o <<flags, g, s>> \o [i \in 1 .. m |-> 0]
    BY <1>5, <1>6, <1>7
  <2> HIDE DEF S, r
  <2>2. /\ r \in Seq(S) /\ Len(r) = Len(nodes) + 3 + m
        /\ \A i \in 1 .. Len(nodes) : r[i] = nodes[i]
        /\ r[Len(nodes) + 1] = flags /\ r[Len(nodes) + 2] = g /\ r[Len(nodes) + 3] = s
    BY <1>6, <2>1, Appended
  <2> QED
    BY <2>2 DEF S, r
<1>9. offsets' = [n \in 0 .. cursor |-> IF n = cursor THEN Len(nodes) % Word ELSE offsets[n]]
  BY DEF PlaceNode
<1>10. /\ DOMAIN offsets' = 0 .. cursor /\ offsets'[cursor] = Len(nodes) % Word
       /\ \A n \in 0 .. cursor - 1 : offsets'[n] = offsets[n]
  BY <1>2, <1>9
<1>11. Len(nodes') = Len(nodes) + Header + 2 * Gated(cursor) + Joins(cursor)
  <2> DEFINE G == Gated(cursor)
             J == Joins(cursor)
  <2>1. G \in Nat /\ J \in Nat /\ m = 2 * G + J /\ Len(nodes') = Len(nodes) + 3 + m
    BY <1>3, <1>8 DEF m
  <2>2. Len(nodes) \in Nat
    BY <1>7, SeqIs
  <2> HIDE DEF G, J
  <2>3. Len(nodes') = Len(nodes) + Header + 2 * G + J
    BY <2>1, <2>2 DEF Header
  <2> QED
    BY <2>3 DEF G, J
<1> QED
  BY <1>1, <1>2, <1>3, <1>4, <1>8, <1>10, <1>11 DEF flags, g, s

LEMMA Sizes ==
  ASSUME LInv, NEW n \in Ids
  PROVE  /\ Gated(n) \in Nat /\ Joins(n) \in Nat
         /\ DOMAIN gates[n] = 1 .. Gated(n) /\ DOMAIN siblings[n] = 1 .. Joins(n)
<1>1. gates[n] \in Seq(Nat) /\ siblings[n] \in Seq(Nat)
  BY DEF LInv, GatesCollected, LegsCollected
<1> QED
  BY <1>1 DEF Gated, Joins

LEMMA PlaceNext ==
  ASSUME LInv, PlaceNode
  PROVE  LInv'
<1> PICK c : c = cursor
  OBVIOUS
<1> DEFINE W == Word
<1>1. Bounds /\ Vector /\ Apart /\ Headers /\ W \in Nat
  BY LayoutAssumption DEF LInv
<1>2. Through' = Through /\ Filled' = {} /\ Joined' = {} /\ ~Collecting /\ ~Collecting'
  BY PlaceIs DEF Through, Filled, Joined, Collecting, Transistors
<1>3. Bounds'
  <2>1. Ids' = Ids /\ Transistors' = Transistors /\ \A i : IdsOf(i)' = IdsOf(i)
    BY PlaceIs DEF Ids, Transistors, IdsOf
  <2>2. c + 1 \in Nat \ {0} /\ c + 1 <= desc.count + 1
    <3>1. desc.count \in Nat
      BY <1>1, DescIs
    <3>2. c \in 1 .. desc.count
      BY PlaceIs
    <3> QED
      BY <3>1, <3>2
  <2> QED
    BY <1>1, <1>2, <2>1, <2>2, PlaceIs DEF Bounds
<1>4. GatesCollected' /\ LegsCollected'
  BY <1>2, PlaceIs, CollectedKept DEF LInv
<1>5. /\ DOMAIN offsets = {0} \cup 1 .. c - 1 /\ c \in Nat \ {0}
      /\ offsets[0] = 0 /\ Len(nodes) \in Nat
      /\ \A n \in 0 .. c - 1 : offsets[n] \in 0 .. W - 1 /\ (c # 1 => offsets[n] + Header <= Len(nodes))
  <2>1. c \in Nat \ {0} /\ Placed = 1 .. c - 1
    BY <1>1, PlaceIs, DescIs
  <2>2. \A n \in 0 .. c - 1 : n = 0 \/ n \in 1 .. c - 1
    BY <2>1
  <2>3. c # 1 => Placed # {}
    BY <2>1
  <2>4. DOMAIN offsets = {0} \cup Placed /\ offsets[0] = 0 /\ Len(nodes) \in Nat
    BY <1>1 DEF Vector
  <2>5. \A n \in DOMAIN offsets :
          offsets[n] \in 0 .. W - 1 /\ (Placed # {} => offsets[n] + Header <= Len(nodes))
    BY <1>1 DEF Vector
  <2>6. \A n \in 0 .. c - 1 : n \in DOMAIN offsets
    BY <2>1, <2>2, <2>4
  <2> HIDE DEF W
  <2> QED
    BY <2>1, <2>3, <2>4, <2>5, <2>6
<1> DEFINE L == Len(nodes)
           M == Len(nodes')
           G(n) == Gated(n)
           J(n) == Joins(n)
<1>6. /\ c \in 1 .. desc.count /\ G(c) \in Nat /\ J(c) \in Nat
      /\ M = L + Header + 2 * G(c) + J(c) /\ L \in Nat /\ M \in Nat /\ M >= L + Header
      /\ L + Header + 2 * G(c) <= M
  BY <1>5, PlaceIs DEF Header
<1>7. Vector'
  <2>1. L % W \in 0 .. W - 1 /\ L % W <= L
    BY <1>5, LayoutAssumption, Modulo
  <2>2. \A n \in 0 .. c : n = c \/ n \in 0 .. c - 1
    BY <1>5
  <2>3. \A n \in 0 .. c : offsets'[n] \in 0 .. W - 1 /\ offsets'[n] + Header <= M
    <3> SUFFICES ASSUME NEW n \in 0 .. c
                 PROVE  offsets'[n] \in 0 .. W - 1 /\ offsets'[n] + Header <= M
      OBVIOUS
    <3>1. CASE n = c
      <4>1. offsets'[n] = L % W
        BY <3>1, PlaceIs
      <4> QED
        BY <1>6, <2>1, <4>1 DEF Header
    <3>2. CASE n \in 0 .. c - 1
      <4>1. offsets'[n] = offsets[n] /\ offsets[n] \in 0 .. W - 1
        BY <1>5, <3>2, PlaceIs
      <4>2. CASE c = 1
        BY <1>5, <1>6, <3>2, <4>1, <4>2 DEF Header
      <4>3. CASE c # 1
        BY <1>5, <1>6, <3>2, <4>1, <4>3 DEF Header
      <4> QED
        BY <4>2, <4>3
    <3> QED
      BY <2>2, <3>1, <3>2
  <2>4. 0 .. c = {0} \cup 1 .. c /\ offsets'[0] = 0
    BY <1>5, PlaceIs
  <2> QED
    BY <2>3, <2>4, PlaceIs DEF Vector
<1>8. \A n : G(n)' = G(n) /\ J(n)' = J(n)
  BY PlaceIs DEF Gated, Joins
<1>9. Apart' /\ Headers'
  <2> SUFFICES ASSUME Roomy' PROVE Apart' /\ Headers'
    BY DEF Apart, Headers
  <2>1. M <= W /\ L <= W /\ L < W /\ Roomy
    BY <1>1, <1>6 DEF Roomy, Header
  <2>2. offsets'[c] = L
    <3>1. L % W = L
      BY <1>6, <2>1, LayoutAssumption, Modulo
    <3> QED
      BY <3>1, PlaceIs
  <2>3. EndOf(c)' = M
    BY <1>6, <1>8, <2>2 DEF EndOf
  <2>4. \A n \in 1 .. c : n = c \/ n \in 1 .. c - 1
    BY <1>5
  <2>5. \A n \in 1 .. c - 1 : offsets'[n] = offsets[n] /\ n \in Placed /\ n \in DOMAIN offsets
    BY <1>5, PlaceIs
  <2>6. \A n \in 1 .. c - 1 : EndOf(n)' = EndOf(n)
    BY <1>8, <2>5 DEF EndOf
  <2>7. /\ \A n \in 1 .. c - 1 : EndOf(n) <= L
        /\ \A m, n \in 1 .. c - 1 : m < n => EndOf(m) <= offsets[n]
    BY <1>1, <2>1, <2>5 DEF Apart
  <2>8. \A n \in 1 .. c - 1 : EndOf(n) \in Nat
    <3> SUFFICES ASSUME NEW n \in 1 .. c - 1 PROVE EndOf(n) \in Nat
      OBVIOUS
    <3>1. n \in Ids
      BY <1>1, <1>5, <1>6, DescIs
    <3>2. G(n) \in Nat /\ J(n) \in Nat
      BY <3>1, Sizes
    <3> QED
      BY <1>5, <3>2 DEF EndOf, Header
  <2>9. Apart'
    <3>1. \A n \in 1 .. c : EndOf(n)' <= M
      BY <1>6, <2>3, <2>4, <2>6, <2>7, <2>8 DEF Header
    <3>2. \A m, n \in 1 .. c : m < n => EndOf(m)' <= offsets'[n]
      <4> SUFFICES ASSUME NEW m \in 1 .. c, NEW n \in 1 .. c, m < n PROVE EndOf(m)' <= offsets'[n]
        OBVIOUS
      <4>1. m \in 1 .. c - 1
        BY <1>5
      <4> QED
        BY <2>2, <2>4, <2>5, <2>6, <2>7, <4>1
    <3> QED
      BY <3>1, <3>2, PlaceIs DEF Apart
  <2>10. Headers'
    <3> SUFFICES ASSUME NEW n \in 1 .. c
                 PROVE  /\ nodes'[offsets'[n] + 1] = IF n \in desc.pullups THEN 1 ELSE 0
                        /\ nodes'[offsets'[n] + 1 + 1] = G(n)
                        /\ nodes'[offsets'[n] + 2 + 1] = J(n)
      BY <1>8, PlaceIs DEF Headers, At
    <3>1. CASE n = c
      <4>1. G(c) % W = G(c) /\ J(c) % W = J(c)
        <5>1. G(c) < W /\ J(c) < W /\ W \in Nat \ {0}
          BY <1>6, <2>1, LayoutAssumption DEF Header
        <5> QED
          BY <1>6, <5>1, Modulo
      <4>2. L + 1 + 1 = L + 2 /\ L + 2 + 1 = L + 3
        BY <1>5
      <4> QED
        BY <2>2, <3>1, <4>1, <4>2, PlaceIs
    <3>2. CASE n \in 1 .. c - 1
      <4>1. /\ nodes[offsets[n] + 1] = IF n \in desc.pullups THEN 1 ELSE 0
            /\ nodes[offsets[n] + 1 + 1] = G(n)
            /\ nodes[offsets[n] + 2 + 1] = J(n)
        BY <1>1, <2>1, <2>5, <3>2 DEF Headers, At
      <4>2. offsets[n] \in Nat /\ offsets[n] + Header <= L
        BY <1>5, <3>2
      <4>3. {offsets[n] + 1, offsets[n] + 1 + 1, offsets[n] + 2 + 1} \subseteq 1 .. L
        BY <1>5, <4>2 DEF Header
      <4> QED
        BY <2>5, <3>2, <4>1, <4>3, PlaceIs
    <3> QED
      BY <2>4, <3>1, <3>2
  <2> QED
    BY <2>9, <2>10
<1>10. LegsWritten' /\ ConnectorsWritten'
  BY <1>2 DEF LegsWritten, ConnectorsWritten
<1> QED
  BY <1>3, <1>4, <1>7, <1>9, <1>10 DEF LInv

-----------------------------------------------------------------------------
(* The loops that write into the areas of the nodes.                       *)

LEMMA PlacedAreIds ==
  ASSUME LInv, NEW n \in Placed
  PROVE  n \in Ids
<1>1. Bounds /\ desc.count \in Nat /\ Ids = 0 .. desc.count
  BY DescIs DEF LInv
<1>2. cursor \in Nat \ {0} /\ (~Collecting /\ phase # "done" => cursor <= desc.count + 1)
  BY <1>1 DEF Bounds
<1>3. n \in 1 .. desc.count
  <2>1. CASE phase \in {"place", "abort"}
    BY <1>1, <1>2, <2>1 DEF Placed, Collecting
  <2>2. CASE phase \notin {"place", "abort"}
    BY <1>1, <2>2 DEF Placed, Collecting, Bounds, Phases, Ended
  <2> QED
    BY <2>1, <2>2
<1> QED
  BY <1>1, <1>3

LEMMA RoomOf ==
  ASSUME LInv, Roomy, NEW n \in Placed
  PROVE  /\ n \in Ids /\ offsets[n] \in Nat /\ Gated(n) \in Nat /\ Joins(n) \in Nat
         /\ Len(nodes) \in Nat /\ EndOf(n) \in Nat /\ EndOf(n) <= Len(nodes)
         /\ EndOf(n) = offsets[n] + 3 + 2 * Gated(n) + Joins(n)
<1>1. n \in DOMAIN offsets /\ offsets[n] \in Nat /\ Len(nodes) \in Nat
  BY LayoutAssumption DEF LInv, Vector
<1>2. n \in Ids
  BY PlacedAreIds
<1>3. EndOf(n) <= Len(nodes)
  BY DEF LInv, Apart
<1> QED
  BY <1>1, <1>2, <1>3, Sizes DEF EndOf, Header

(* A step that writes into the area of node c leaves every other area      *)
(* alone, and the header of c.                                             *)
WritesInto(c, low) ==
  /\ UNCHANGED <<desc, gates, siblings, offsets>> /\ Placed' = Placed
  /\ nodes' \in Seq(0 .. Word - 1) /\ Len(nodes') = Len(nodes)
  /\ \A i \in 1 .. Len(nodes) : i <= low \/ i > EndOf(c) => nodes'[i] = nodes[i]

LEMMA Elsewhere ==
  ASSUME LInv, Roomy, NEW c \in Placed, NEW low \in Nat, WritesInto(c, low),
         offsets[c] + 3 <= low,
         NEW n \in Placed, NEW i \in offsets[n] + 1 .. EndOf(n), n # c \/ i <= low
  PROVE  i \in 1 .. Len(nodes) /\ nodes'[i] = nodes[i]
<1>1. /\ offsets[n] \in Nat /\ EndOf(n) \in Nat /\ EndOf(n) <= Len(nodes) /\ Len(nodes) \in Nat
      /\ offsets[c] \in Nat /\ EndOf(c) \in Nat
  BY RoomOf
<1>2. i \in 1 .. Len(nodes)
  BY <1>1
<1>3. n # c => EndOf(n) <= offsets[c] \/ EndOf(c) <= offsets[n]
  <2>1. n \in Nat /\ c \in Nat
    BY RoomOf, DescIs DEF LInv
  <2> QED
    BY <2>1 DEF LInv, Apart
<1>4. i <= low \/ i > EndOf(c)
  BY <1>1, <1>2, <1>3
<1> QED
  BY <1>2, <1>4 DEF WritesInto

LEMMA HeadersKept ==
  ASSUME LInv, NEW c \in Placed, NEW low \in Nat, WritesInto(c, low), offsets[c] + 3 <= low
  PROVE  Vector' /\ Apart' /\ Headers'
<1>1. /\ UNCHANGED <<desc, gates, siblings, offsets>> /\ Placed' = Placed
      /\ nodes' \in Seq(0 .. Word - 1) /\ Len(nodes') = Len(nodes)
  BY DEF WritesInto
<1>2. Vector /\ Apart /\ Headers
  BY DEF LInv
<1>3. Vector'
  BY <1>1, <1>2 DEF Vector
<1>4. \A n : Gated(n)' = Gated(n) /\ Joins(n)' = Joins(n) /\ EndOf(n)' = EndOf(n)
  BY <1>1 DEF Gated, Joins, EndOf
<1>5. Apart'
  BY <1>1, <1>2, <1>4 DEF Apart, Roomy
<1>6. Headers'
  <2> SUFFICES ASSUME Roomy, NEW n \in Placed
               PROVE  /\ nodes'[offsets[n] + 1] = IF n \in desc.pullups THEN 1 ELSE 0
                      /\ nodes'[offsets[n] + 1 + 1] = Gated(n)
                      /\ nodes'[offsets[n] + 2 + 1] = Joins(n)
    BY <1>1, <1>4 DEF Headers, At, Roomy
  <2> DEFINE places == {offsets[n] + 1, offsets[n] + 1 + 1, offsets[n] + 2 + 1}
  <2>1. \A i \in places : i \in offsets[n] + 1 .. EndOf(n) /\ (n # c \/ i <= low)
    <3>1. /\ offsets[n] \in Nat /\ Gated(n) \in Nat /\ Joins(n) \in Nat /\ EndOf(n) \in Nat
          /\ EndOf(n) = offsets[n] + 3 + 2 * Gated(n) + Joins(n)
      BY RoomOf
    <3> QED
      BY <3>1
  <2>2. \A i \in places : nodes'[i] = nodes[i]
    <3> HIDE DEF places
    <3> QED
      BY <2>1, Elsewhere
  <2>3. /\ nodes[offsets[n] + 1] = IF n \in desc.pullups THEN 1 ELSE 0
        /\ nodes[offsets[n] + 1 + 1] = Gated(n)
        /\ nodes[offsets[n] + 2 + 1] = Joins(n)
    BY <1>2 DEF Headers, At
  <2> QED
    BY <2>2, <2>3
<1> QED
  BY <1>3, <1>5, <1>6

LEMMA PairKept ==
  ASSUME LInv, Roomy, NEW c \in Placed, NEW low \in Nat, WritesInto(c, low),
         offsets[c] + 3 <= low,
         NEW n \in Placed, NEW k \in 1 .. Gated(n), n # c \/ offsets[c] + 3 + 2 * Gated(c) <= low
  PROVE  At(Pair(n, k))' = At(Pair(n, k)) /\ At(Pair(n, k) + 1)' = At(Pair(n, k) + 1)
<1>1. UNCHANGED <<desc, gates, siblings, offsets>>
  BY DEF WritesInto
<1> DEFINE p == Pair(n, k)
           places == {p + 1, p + 1 + 1}
<1>2. \A i \in places : i \in offsets[n] + 1 .. EndOf(n) /\ (n # c \/ i <= low)
  <2>1. /\ offsets[n] \in Nat /\ Gated(n) \in Nat /\ Joins(n) \in Nat /\ EndOf(n) \in Nat
        /\ EndOf(n) = offsets[n] + 3 + 2 * Gated(n) + Joins(n)
    BY RoomOf
  <2> QED
    BY <2>1 DEF Pair, Header
<1>3. \A i \in places : nodes'[i] = nodes[i]
  <2> HIDE DEF places
  <2> QED
    BY <1>2, Elsewhere
<1>4. Pair(n, k)' = p
  BY <1>1 DEF Pair
<1> QED
  BY <1>3, <1>4 DEF At

LEMMA ConnectorKept ==
  ASSUME LInv, Roomy, NEW c \in Placed, NEW low \in Nat, WritesInto(c, low),
         offsets[c] + 3 <= low,
         NEW n \in Placed, NEW k \in 1 .. Joins(n), n # c
  PROVE  At(Connector(n, k))' = At(Connector(n, k))
<1>1. UNCHANGED <<desc, gates, siblings, offsets>>
  BY DEF WritesInto
<1> DEFINE i == Connector(n, k) + 1
<1>2. i \in offsets[n] + 1 .. EndOf(n)
  <2>1. /\ offsets[n] \in Nat /\ Gated(n) \in Nat /\ Joins(n) \in Nat /\ EndOf(n) \in Nat
        /\ EndOf(n) = offsets[n] + 3 + 2 * Gated(n) + Joins(n)
    BY RoomOf
  <2> QED
    BY <2>1 DEF Connector, Header
<1>3. nodes'[i] = nodes[i]
  <2> HIDE DEF i
  <2> QED
    BY <1>2, Elsewhere
<1>4. Connector(n, k)' = Connector(n, k)
  BY <1>1 DEF Connector, Gated
<1> QED
  BY <1>3, <1>4 DEF At

(* Some words of a sequence are replaced.                                  *)
LEMMA Rewritten ==
  ASSUME NEW S, NEW q \in Seq(S), NEW r, r = [i \in DOMAIN q |-> r[i]],
         \A i \in 1 .. Len(q) : r[i] \in S
  PROVE  r \in Seq(S) /\ Len(r) = Len(q)
<1>1. Len(q) \in Nat /\ DOMAIN q = 1 .. Len(q)
  BY SeqIs
<1>2. r \in [1 .. Len(q) -> S]
  BY <1>1
<1>3. r \in Seq(S)
  BY <1>1, <1>2, SeqDef
<1>4. DOMAIN r = 1 .. Len(q) /\ DOMAIN r = 1 .. Len(r) /\ Len(r) \in Nat
  BY <1>1, <1>3, SeqIs
<1> QED
  BY <1>1, <1>3, <1>4

-----------------------------------------------------------------------------
(* The loop that fills in the legs.                                        *)

LEMMA GateIs ==
  ASSUME LInv, NEW n \in Ids, NEW k \in 1 .. Gated(n)
  PROVE  /\ gates[n][k] \in GatedSoFar(n)
         /\ gates[n][k] \in Kept(desc) /\ gates[n][k] \in 1 .. Transistors
         /\ gates[n][k] <= Through /\ desc.tdefs[gates[n][k]].gate = n
         /\ desc.tdefs[gates[n][k]].c1 \in Nat /\ desc.tdefs[gates[n][k]].c2 \in Nat
<1> DEFINE i == gates[n][k]
<1>1. Bounds /\ Range(gates[n]) = GatedSoFar(n) /\ DOMAIN gates[n] = 1 .. Gated(n)
  BY Sizes DEF LInv, GatesCollected
<1>2. i \in GatedSoFar(n)
  BY <1>1 DEF Range
<1> HIDE DEF i
<1>3. i \in Kept(desc) /\ i <= Through /\ desc.tdefs[i].gate = n
  BY <1>2 DEF GatedSoFar
<1>4. i \in 1 .. Transistors
  BY <1>1, <1>3, KeptAre
<1>5. desc.tdefs[i].c1 \in Nat /\ desc.tdefs[i].c2 \in Nat
  BY <1>1, <1>4, DescIs
<1> QED
  BY <1>2, <1>3, <1>4, <1>5 DEF i

(* The k-th of the ids written for node n.                                 *)
LegId(n, k) ==
  LET t == desc.tdefs[gates[n][(k + 1) \div 2]] IN IF k % 2 = 1 THEN t.c1 ELSE t.c2

LEMMA LegIdIs ==
  ASSUME LInv, NEW n \in Ids, NEW k \in 1 .. Gated(n)
  PROVE  /\ LegId(n, 2 * k - 1) = desc.tdefs[gates[n][k]].c1
         /\ LegId(n, 2 * k) = desc.tdefs[gates[n][k]].c2
<1>1. k \in Nat
  BY Sizes
<1>2. /\ (2 * k - 1 + 1) \div 2 = k /\ (2 * k - 1) % 2 = 1
      /\ (2 * k + 1) \div 2 = k /\ (2 * k) % 2 = 0
  BY <1>1
<1> QED
  BY <1>2 DEF LegId

LEMMA LegIdIsNat ==
  ASSUME LInv, NEW n \in Ids, NEW k \in 1 .. 2 * Gated(n)
  PROVE  LegId(n, k) \in Nat
<1> DEFINE h == (k + 1) \div 2
<1>1. h \in 1 .. Gated(n)
  BY Sizes
<1> HIDE DEF h
<1>2. desc.tdefs[gates[n][h]].c1 \in Nat /\ desc.tdefs[gates[n][h]].c2 \in Nat
  BY <1>1, GateIs
<1> QED
  BY <1>2 DEF LegId, h

LEMMA FillIs ==
  ASSUME LInv, FillLegs, NEW c, c = cursor, NEW low, low = offsets[c] + 3
  PROVE  /\ phase = "legs" /\ phase' = phase /\ cursor' = c + 1
         /\ UNCHANGED <<desc, gates, siblings, offsets>>
         /\ c \in 1 .. desc.count /\ c \in Ids /\ c \in Placed
         /\ Placed = 1 .. desc.count /\ Placed' = Placed
         /\ Filled = 1 .. c - 1 /\ Filled' = 1 .. c /\ Joined' = {}
         /\ offsets[c] \in Nat /\ low \in Nat /\ Gated(c) \in Nat
         /\ nodes' = [i \in DOMAIN nodes |-> nodes'[i]]
         /\ \A i \in DOMAIN nodes :
              nodes'[i] = IF i \in low + 1 .. low + 2 * Gated(c)
                          THEN (2 * LegId(c, i - low)) % Word ELSE nodes[i]
<1>1. /\ phase = "legs" /\ phase' = phase /\ cursor' = c + 1 /\ c <= desc.count
      /\ UNCHANGED <<desc, gates, siblings, offsets>> /\ Bounds /\ Vector
  BY DEF LInv, FillLegs
<1>2. c \in 1 .. desc.count /\ c \in Ids
  BY <1>1, DescIs DEF Bounds
<1>3. Placed = 1 .. desc.count /\ Placed' = Placed
  BY <1>1 DEF Placed, Collecting
<1>4. Filled = 1 .. c - 1 /\ Filled' = 1 .. c /\ Joined' = {}
  <2>1. phase = "legs" /\ phase' = "legs" /\ cursor' - 1 = c
    BY <1>1, <1>2
  <2>2. ~Collecting /\ ~Collecting'
    BY <2>1 DEF Collecting
  <2>3. Filled = 1 .. c - 1
    BY <2>1, <2>2 DEF Filled
  <2>4. Filled' = 1 .. c
    BY <2>1, <2>2 DEF Filled
  <2>5. Joined' = {}
    BY <2>1, <2>2 DEF Joined
  <2> QED
    BY <2>3, <2>4, <2>5
<1>5. offsets[c] \in Nat /\ low \in Nat /\ Gated(c) \in Nat
  <2>1. offsets[c] \in 0 .. Word - 1
    BY <1>1, <1>2, <1>3 DEF Vector
  <2> QED
    BY <1>2, <2>1, Sizes, LayoutAssumption
<1> DEFINE first == NodeGates(c) + 1
           Value(i) == IF (i - first + 1) % 2 = 1
                       THEN desc.tdefs[gates[c][(i - first + 1 + 1) \div 2]].c1
                       ELSE desc.tdefs[gates[c][(i - first + 1 + 1) \div 2]].c2
<1>6. nodes' = [i \in DOMAIN nodes |->
                  IF i \in first .. first + 2 * Gated(c) - 1 THEN (2 * Value(i)) % Word ELSE nodes[i]]
  BY DEF FillLegs, Gated
<1>7. first = low + 1 /\ first + 2 * Gated(c) - 1 = low + 2 * Gated(c)
  BY <1>5 DEF NodeGates, Header
<1>8. DOMAIN nodes = 1 .. Len(nodes)
  BY <1>1 DEF Vector
<1>9. \A i \in DOMAIN nodes : i - first + 1 = i - low
  BY <1>5, <1>7, <1>8
<1>10. \A i \in DOMAIN nodes : Value(i) = LegId(c, i - low)
  BY <1>9 DEF LegId
<1> HIDE DEF first, Value
<1>11. nodes' = [i \in DOMAIN nodes |-> nodes'[i]]
  BY <1>6
<1>12. \A i \in DOMAIN nodes :
         nodes'[i] = IF i \in low + 1 .. low + 2 * Gated(c)
                     THEN (2 * LegId(c, i - low)) % Word ELSE nodes[i]
  BY <1>6, <1>7, <1>10
<1> QED
  BY <1>1, <1>2, <1>3, <1>4, <1>5, <1>11, <1>12

LEMMA FillWrites ==
  ASSUME LInv, FillLegs, NEW c, c = cursor, NEW low, low = offsets[c] + 3
  PROVE  WritesInto(c, low)
<1>1. /\ c \in Ids /\ c \in Placed /\ low \in Nat /\ Gated(c) \in Nat
      /\ UNCHANGED <<desc, gates, siblings, offsets>> /\ Placed' = Placed
      /\ nodes' = [i \in DOMAIN nodes |-> nodes'[i]]
      /\ \A i \in DOMAIN nodes :
           nodes'[i] = IF i \in low + 1 .. low + 2 * Gated(c)
                       THEN (2 * LegId(c, i - low)) % Word ELSE nodes[i]
  BY FillIs
<1> DEFINE S == 0 .. Word - 1
<1>2. nodes \in Seq(S) /\ DOMAIN nodes = 1 .. Len(nodes) /\ Len(nodes) \in Nat
      /\ \A i \in 1 .. Len(nodes) : nodes[i] \in S
  <2>1. nodes \in Seq(S)
    BY DEF LInv, Vector
  <2> HIDE DEF S
  <2> QED
    BY <2>1, SeqIs
<1>3. ASSUME NEW i \in 1 .. Len(nodes) PROVE nodes'[i] \in S
  <2>1. CASE i \in low + 1 .. low + 2 * Gated(c)
    <3>1. i - low \in 1 .. 2 * Gated(c)
      BY <1>1, <2>1
    <3> DEFINE v == 2 * LegId(c, i - low)
    <3>2. v \in Nat
      BY <1>1, <3>1, LegIdIsNat
    <3> HIDE DEF v
    <3>3. v % Word \in S
      BY <3>2, LayoutAssumption, Modulo
    <3>4. nodes'[i] = v % Word
      BY <1>1, <1>2, <2>1 DEF v
    <3> QED
      BY <3>3, <3>4
  <2>2. CASE i \notin low + 1 .. low + 2 * Gated(c)
    BY <1>1, <1>2, <2>2
  <2> QED
    BY <2>1, <2>2
<1>4. nodes' \in Seq(S) /\ Len(nodes') = Len(nodes)
  <2> DEFINE r == nodes'
  <2>1. r = [i \in DOMAIN nodes |-> r[i]] /\ \A i \in 1 .. Len(nodes) : r[i] \in S
    BY <1>1, <1>3
  <2> HIDE DEF S, r
  <2>2. r \in Seq(S) /\ Len(r) = Len(nodes)
    BY <1>2, <2>1, Rewritten
  <2> QED
    BY <2>2 DEF r
<1>5. EndOf(c) \in Nat /\ EndOf(c) >= low + 2 * Gated(c)
  BY <1>1, FillIs, Sizes DEF EndOf, Header
<1>6. \A i \in 1 .. Len(nodes) : i <= low => nodes'[i] = nodes[i]
  BY <1>1, <1>2
<1>7. \A i \in 1 .. Len(nodes) : i > EndOf(c) => nodes'[i] = nodes[i]
  BY <1>1, <1>2, <1>5
<1> QED
  BY <1>1, <1>2, <1>4, <1>6, <1>7 DEF WritesInto

LEMMA FillNext ==
  ASSUME LInv, FillLegs
  PROVE  LInv'
<1> PICK c : c = cursor
  OBVIOUS
<1> DEFINE low == offsets[c] + 3
<1>1. /\ phase = "legs" /\ phase' = phase /\ cursor' = c + 1
      /\ UNCHANGED <<desc, gates, siblings, offsets>>
      /\ c \in 1 .. desc.count /\ c \in Ids /\ c \in Placed
      /\ Placed = 1 .. desc.count /\ Placed' = Placed
      /\ Filled = 1 .. c - 1 /\ Filled' = 1 .. c /\ Joined' = {}
      /\ offsets[c] \in Nat /\ low \in Nat /\ Gated(c) \in Nat
      /\ \A i \in DOMAIN nodes :
           nodes'[i] = IF i \in low + 1 .. low + 2 * Gated(c)
                       THEN (2 * LegId(c, i - low)) % Word ELSE nodes[i]
  <2> HIDE DEF low
  <2>1. low = offsets[c] + 3
    BY DEF low
  <2> QED
    BY <2>1, FillIs
<1>2. Bounds /\ GatesCollected /\ LegsCollected /\ Vector /\ LegsWritten
  BY DEF LInv
<1>3. WritesInto(c, low)
  BY FillWrites
<1>4. ~Collecting /\ ~Collecting' /\ Through' = Through
  BY <1>1 DEF Collecting, Through, Transistors
<1>5. Bounds'
  <2>1. Ids' = Ids /\ Transistors' = Transistors /\ \A i : IdsOf(i)' = IdsOf(i)
    BY <1>1 DEF Ids, Transistors, IdsOf
  <2>2. c + 1 \in Nat \ {0} /\ c + 1 <= desc.count + 1
    BY <1>1, <1>2, DescIs
  <2> QED
    BY <1>1, <1>2, <1>4, <2>1, <2>2 DEF Bounds
<1>6. GatesCollected' /\ LegsCollected'
  BY <1>1, <1>2, <1>4, CollectedKept
<1>7. Vector' /\ Apart' /\ Headers'
  <2>1. offsets[c] + 3 <= low
    BY <1>1
  <2> HIDE DEF low
  <2> QED
    BY <1>1, <1>3, <2>1, HeadersKept
<1>8. ConnectorsWritten'
  BY <1>1 DEF ConnectorsWritten
<1>9. LegsWritten'
  <2> SUFFICES ASSUME Fits, NodeIds, NEW n \in 1 .. c, NEW k \in 1 .. Gated(n)
               PROVE  /\ At(Pair(n, k))' = 2 * desc.tdefs[gates[n][k]].c1
                      /\ At(Pair(n, k) + 1)' = 2 * desc.tdefs[gates[n][k]].c2
    <3>1. (Fits /\ NodeIds)' <=> Fits /\ NodeIds
      BY <1>1, <1>3 DEF WritesInto, Fits, NodeIds
    <3>2. \A n : Gated(n)' = Gated(n)
      BY <1>1 DEF Gated
    <3>3. \A n, k : /\ (desc.tdefs[gates[n][k]].c1)' = desc.tdefs[gates[n][k]].c1
                    /\ (desc.tdefs[gates[n][k]].c2)' = desc.tdefs[gates[n][k]].c2
      BY <1>1
    <3> QED
      BY <1>1, <3>1, <3>2, <3>3 DEF LegsWritten
  <2>1. Roomy /\ Word \in Nat \ {0}
    BY LayoutAssumption DEF Fits, Roomy
  <2>2. n \in Placed /\ n \in Ids /\ n \in Nat
    BY <1>1, <1>2, DescIs
  <2> DEFINE i  == gates[n][k]
             c1 == desc.tdefs[i].c1
             c2 == desc.tdefs[i].c2
  <2>3. CASE n # c
    <3>1. n \in Filled
      BY <1>1, <2>2, <2>3
    <3>2. At(Pair(n, k)) = 2 * c1 /\ At(Pair(n, k) + 1) = 2 * c2
      BY <1>2, <3>1 DEF LegsWritten
    <3>3. At(Pair(n, k))' = At(Pair(n, k)) /\ At(Pair(n, k) + 1)' = At(Pair(n, k) + 1)
      <4>1. offsets[c] + 3 <= low
        BY <1>1
      <4> HIDE DEF low
      <4> QED
        BY <1>1, <1>3, <2>1, <2>2, <2>3, <4>1, PairKept
    <3> QED
      BY <3>2, <3>3
  <2>4. CASE n = c
    <3>1. /\ EndOf(c) <= Len(nodes) /\ Len(nodes) \in Nat /\ DOMAIN nodes = 1 .. Len(nodes)
          /\ EndOf(c) = low + 2 * Gated(c) + Joins(c) /\ Joins(c) \in Nat
      BY <1>1, <1>2, <2>1, RoomOf DEF Vector
    <3>2. Pair(n, k)' = low + 2 * (k - 1)
      BY <1>1, <2>4 DEF Pair, Header
    <3> DEFINE p == low + 2 * k - 1
    <3>3. /\ p \in 1 .. Len(nodes) /\ p + 1 \in 1 .. Len(nodes)
          /\ p \in low + 1 .. low + 2 * Gated(c) /\ p + 1 \in low + 1 .. low + 2 * Gated(c)
          /\ p - low = 2 * k - 1 /\ (p + 1) - low = 2 * k
          /\ low + 2 * (k - 1) + 1 = p /\ low + 2 * (k - 1) + 1 + 1 = p + 1
      <4>1. low \in Nat /\ Gated(c) \in Nat /\ k \in 1 .. Gated(c)
        BY <1>1, <2>4
      <4> HIDE DEF low
      <4>2. 2 * k \in Nat /\ 2 * k >= 2 /\ 2 * k <= 2 * Gated(c) /\ 2 * (k - 1) = 2 * k - 2
        BY <4>1
      <4> QED
        BY <3>1, <4>1, <4>2
    <3> HIDE DEF p, low
    <3>4. nodes'[p] = (2 * LegId(c, 2 * k - 1)) % Word /\ nodes'[p + 1] = (2 * LegId(c, 2 * k)) % Word
      <4>1. \A x \in 1 .. Len(nodes) :
              x \in low + 1 .. low + 2 * Gated(c) => nodes'[x] = (2 * LegId(c, x - low)) % Word
        BY <1>1, <3>1
      <4> DEFINE q == p + 1
      <4>2. q \in 1 .. Len(nodes) /\ q \in low + 1 .. low + 2 * Gated(c) /\ q - low = 2 * k
        BY <3>3, Zenon
      <4> HIDE DEF q
      <4>3. nodes'[p] = (2 * LegId(c, p - low)) % Word /\ nodes'[q] = (2 * LegId(c, q - low)) % Word
        BY <3>3, <4>1, <4>2
      <4> QED
        BY <3>3, <4>2, <4>3, Zenon DEF q
    <3>5. LegId(c, 2 * k - 1) = c1 /\ LegId(c, 2 * k) = c2
      BY <2>2, <2>4, LegIdIs
    <3>6. (2 * c1) % Word = 2 * c1 /\ (2 * c2) % Word = 2 * c2
      <4>1. c1 \in 1 .. desc.count /\ c2 \in 1 .. desc.count
        <5>1. i \in 1 .. Transistors
          BY <2>2, GateIs
        <5> HIDE DEF i
        <5> QED
          BY <1>2, <5>1, DescIs DEF NodeIds
      <4>2. desc.count \in Nat
        BY <1>2, DescIs
      <4> HIDE DEF c1, c2
      <4>3. 2 * c1 \in Nat /\ 2 * c1 < Word /\ 2 * c2 \in Nat /\ 2 * c2 < Word
        BY <2>1, <4>1, <4>2 DEF Fits
      <4> DEFINE a == 2 * c1
                 b == 2 * c2
      <4> HIDE DEF a, b
      <4>4. a % Word = a /\ b % Word = b
        BY <2>1, <4>3, Modulo DEF a, b
      <4> QED
        BY <4>4 DEF a, b
    <3>7. nodes'[p] = 2 * c1 /\ nodes'[p + 1] = 2 * c2
      BY <3>4, <3>5, <3>6
    <3> HIDE DEF i, c1, c2
    <3>8. At(Pair(n, k))' = nodes'[p] /\ At(Pair(n, k) + 1)' = nodes'[p + 1]
      BY <3>2, <3>3 DEF At
    <3> QED
      BY <3>7, <3>8 DEF c1, c2, i
  <2> QED
    BY <2>3, <2>4
<1> QED
  BY <1>5, <1>6, <1>7, <1>8, <1>9 DEF LInv

-----------------------------------------------------------------------------
(* The loop that fills in the connectors.                                  *)

LEMMA LeastNat ==
  ASSUME NEW S \in SUBSET Nat, S # {}
  PROVE  (CHOOSE k \in S : \A j \in S : k <= j) \in S
<1>1. PICK n \in S : \A k \in S : <<k, n>> \notin OpToRel(<, Nat)
  BY NatLessThanWellFounded, WFMin
<1>2. \A k \in S : n <= k
  <2> SUFFICES ASSUME NEW k \in S, k < n PROVE FALSE
    OBVIOUS
  <2>1. <<k, n>> \in Nat \X Nat /\ <<k, n>>[1] < <<k, n>>[2]
    OBVIOUS
  <2> QED
    BY <1>1, <2>1 DEF OpToRel
<1> QED
  BY <1>2

LEMMA SiblingKept ==
  ASSUME LInv, NEW n \in Ids, NEW k \in 1 .. Joins(n)
  PROVE  siblings[n][k] \in Kept(desc) /\ siblings[n][k] \in 1 .. Transistors
<1> DEFINE i == siblings[n][k]
<1>1. Bounds
  BY DEF LInv
<1>2. PICK ls \in Seq(Nat) :
        /\ Range(ls) = LegsSoFar(n) /\ Len(siblings[n]) = Len(ls)
        /\ \A j \in 1 .. Len(ls) : siblings[n][j] = ls[j] \div 2
  BY DEF LInv, LegsCollected, Lists
<1>3. k \in 1 .. Len(ls) /\ DOMAIN ls = 1 .. Len(ls)
  BY <1>2, SeqIs DEF Joins
<1>4. ls[k] \in LegsOn(desc, n) /\ i = ls[k] \div 2
  BY <1>2, <1>3 DEF Range, LegsSoFar
<1>5. PICK t \in Kept(desc) : ls[k] = 2 * t \/ ls[k] = 2 * t + 1
  BY <1>1, <1>4, LegsAre
<1>6. t \in 1 .. Transistors
  BY <1>1, <1>5, KeptAre
<1>7. i = t
  <2>1. t \in Nat
    BY <1>1, <1>6, DescIs
  <2>2. (2 * t) \div 2 = t /\ (2 * t + 1) \div 2 = t
    BY <2>1, Halving
  <2> QED
    BY <1>4, <1>5, <2>2
<1> QED
  BY <1>5, <1>6, <1>7

LEMMA SiblingIs ==
  ASSUME LInv, ~Collecting, NEW n \in Ids, NEW k \in 1 .. Joins(n)
  PROVE  /\ siblings[n][k] \in Kept(desc) /\ siblings[n][k] \in 1 .. Transistors
         /\ desc.tdefs[siblings[n][k]].gate \in Ids
<1> DEFINE i == siblings[n][k]
<1>1. i \in Kept(desc) /\ i \in 1 .. Transistors
  BY SiblingKept
<1>2. Bounds /\ Through = Transistors
  BY DEF LInv, Through
<1> HIDE DEF i
<1>3. desc.tdefs[i].gate \in Ids
  BY <1>1, <1>2 DEF Bounds, IdsOf
<1> QED
  BY <1>1, <1>3 DEF i

LEMMA KeptDiffer ==
  ASSUME Bounds, NEW i \in Kept(desc), NEW j \in Kept(desc),
         desc.tdefs[i].gate = desc.tdefs[j].gate,
         desc.tdefs[i].c1 = desc.tdefs[j].c1, desc.tdefs[i].c2 = desc.tdefs[j].c2
  PROVE  i = j
<1>1. i \in Nat \ {0} /\ j \in Nat \ {0}
  BY KeptAre, DescIs
<1>2. SameTransistor(desc.tdefs[i], desc.tdefs[j]) /\ SameTransistor(desc.tdefs[j], desc.tdefs[i])
  BY DEF SameTransistor
<1>3. ~(i < j)
  BY <1>1, <1>2, KeptAre
<1>4. ~(j < i)
  BY <1>1, <1>2, KeptAre
<1> QED
  BY <1>1, <1>3, <1>4

(* A transistor is among those that its gate controls, once.               *)
LEMMA Position ==
  ASSUME LInv, ~Collecting, NEW i \in Kept(desc), desc.tdefs[i].gate \in Ids
  PROVE  \E j \in 1 .. Gated(desc.tdefs[i].gate) : gates[desc.tdefs[i].gate][j] = i
<1>1. Bounds /\ Through = Transistors
  BY DEF LInv, Through
<1>2. i \in 1 .. Transistors
  BY <1>1, KeptAre
<1> DEFINE g == desc.tdefs[i].gate
<1>3. i \in GatedSoFar(g)
  BY <1>1, <1>2, DescIs DEF GatedSoFar
<1>4. Range(gates[g]) = GatedSoFar(g) /\ DOMAIN gates[g] = 1 .. Gated(g)
  BY Sizes DEF LInv, GatesCollected
<1> HIDE DEF g
<1>5. \E j \in 1 .. Gated(g) : gates[g][j] = i
  BY <1>3, <1>4 DEF Range
<1> QED
  BY <1>5 DEF g

(* lookup_leg finds it, and nothing else.                                  *)
LEMMA MatchingIs ==
  ASSUME LInv, Fits, NodeIds, Filled = 1 .. desc.count, Placed = 1 .. desc.count,
         NEW i \in Kept(desc), NEW g, g = desc.tdefs[i].gate, g \in 1 .. desc.count,
         NEW j \in 1 .. Gated(g), gates[g][j] = i
  PROVE  Matching(desc.tdefs[i]) = {j - 1}
<1> DEFINE t == desc.tdefs[i]
           u(k) == desc.tdefs[gates[g][k + 1]]
           size == Gated(g)
<1>1. Bounds /\ Roomy /\ g \in Ids /\ g \in Placed /\ g \in Filled /\ size \in Nat
      /\ offsets[g] \in Nat
  <2>1. Roomy /\ Bounds /\ g \in Placed /\ g \in Filled
    BY DEF LInv, Fits, Roomy
  <2> QED
    BY <2>1, RoomOf
<1>2. At(offsets[g] + 1) = size
  BY <1>1 DEF LInv, Headers
<1>3. ASSUME NEW k \in 0 .. size - 1
      PROVE  /\ At(NodeGates(g) + 2 * k) \div 2 = u(k).c1
             /\ At(NodeGates(g) + 2 * k + 1) \div 2 = u(k).c2
  <2> DEFINE m == k + 1
  <2>1. m \in 1 .. size /\ NodeGates(g) + 2 * k = Pair(g, m)
    BY <1>1 DEF NodeGates, Pair, Header
  <2> HIDE DEF m
  <2>2. At(Pair(g, m)) = 2 * desc.tdefs[gates[g][m]].c1
        /\ At(Pair(g, m) + 1) = 2 * desc.tdefs[gates[g][m]].c2
    BY <1>1, <2>1 DEF LInv, LegsWritten
  <2>3. desc.tdefs[gates[g][m]].c1 \in Nat /\ desc.tdefs[gates[g][m]].c2 \in Nat
    BY <1>1, <2>1, GateIs
  <2>4. /\ At(Pair(g, m)) \div 2 = desc.tdefs[gates[g][m]].c1
        /\ At(Pair(g, m) + 1) \div 2 = desc.tdefs[gates[g][m]].c2
    BY <2>2, <2>3, Halving
  <2> QED
    BY <2>1, <2>4 DEF m
<1>4. ASSUME NEW k
      PROVE  k \in Matching(t) <=> k \in 0 .. size - 1 /\ u(k).c1 = t.c1 /\ u(k).c2 = t.c2
  <2> HIDE DEF u, size, t
  <2>1. t.gate = g
    BY DEF t
  <2>2. k \in Matching(t) <=> /\ k \in 0 .. size - 1
                              /\ At(NodeGates(g) + 2 * k) \div 2 = t.c1
                              /\ At(NodeGates(g) + 2 * k + 1) \div 2 = t.c2
    BY <1>2, <2>1 DEF Matching
  <2> QED
    BY <1>3, <2>2
<1>5. j - 1 \in 0 .. size - 1 /\ u(j - 1) = t
  BY <1>1
<1>6. ASSUME NEW k \in 0 .. size - 1, u(k).c1 = t.c1, u(k).c2 = t.c2 PROVE k = j - 1
  <2> DEFINE m == k + 1
  <2>1. m \in 1 .. size
    BY <1>1
  <2> HIDE DEF m
  <2>2. gates[g][m] \in Kept(desc) /\ desc.tdefs[gates[g][m]].gate = g
    BY <1>1, <2>1, GateIs
  <2>3. desc.tdefs[gates[g][m]].c1 = t.c1 /\ desc.tdefs[gates[g][m]].c2 = t.c2
    BY <1>6 DEF m
  <2>4. gates[g][m] = i
    BY <1>1, <2>2, <2>3, KeptDiffer
  <2>5. gates[g] \in Seq(Nat) /\ Ascending(gates[g])
    BY <1>1 DEF LInv, GatesCollected
  <2>6. m = j
    <3> DEFINE s == gates[g]
    <3>1. s \in Seq(Nat) /\ Ascending(s) /\ s[m] = s[j] /\ m \in 1 .. Len(s) /\ j \in 1 .. Len(s)
      BY <2>1, <2>4, <2>5 DEF Gated
    <3> HIDE DEF s
    <3> QED
      BY <3>1, AscendingIsInjective
  <2> QED
    BY <2>6 DEF m
<1>7. ASSUME NEW k PROVE k \in Matching(t) <=> k = j - 1
  <2> HIDE DEF u, t, size
  <2> QED
    BY <1>4, <1>5, <1>6
<1> QED
  BY <1>7, Zenon

LEMMA PairFits ==
  ASSUME NEW o \in Nat, NEW G \in Nat, NEW J \in Nat, NEW j \in 1 .. G, NEW s \in {0, 1}
  PROVE  o + 3 + 2 * (j - 1) + s \in Nat /\ o + 3 + 2 * (j - 1) + s < o + 3 + 2 * G + J
<1>1. 2 * (j - 1) \in Nat /\ 2 * (j - 1) + 2 <= 2 * G
  OBVIOUS
<1> QED
  BY <1>1

LEMMA LookupIs ==
  ASSUME LInv, Fits, NodeIds, Filled = 1 .. desc.count, Placed = 1 .. desc.count, ~Collecting,
         NEW i \in Kept(desc), NEW g, g = desc.tdefs[i].gate, g \in 1 .. desc.count,
         NEW j \in 1 .. Gated(g), gates[g][j] = i, NEW n
  PROVE  LookupLeg(n, desc.tdefs[i]) = Pair(g, j) + Side(n, i)
<1> DEFINE t == desc.tdefs[i]
           k == CHOOSE x \in Matching(t) : \A y \in Matching(t) : x <= y
<1>1. j \in Nat /\ Roomy /\ Word \in Nat \ {0}
  BY LayoutAssumption DEF Fits, Roomy
<1>2. k = j - 1
  <2>1. Matching(t) = {j - 1}
    BY MatchingIs
  <2> HIDE DEF t
  <2> QED
    BY <1>1, <2>1
<1> HIDE DEF k
<1>3. LookupLeg(n, t) = (NodeGates(g) + 2 * (j - 1) + Side(n, i)) % Word
  BY <1>2 DEF LookupLeg, Side, k
<1> DEFINE a == NodeGates(g) + 2 * (j - 1) + Side(n, i)
<1>4. /\ offsets[g] \in Nat /\ Gated(g) \in Nat /\ Joins(g) \in Nat /\ Len(nodes) \in Nat
      /\ EndOf(g) = offsets[g] + 3 + 2 * Gated(g) + Joins(g) /\ EndOf(g) <= Len(nodes)
  BY <1>1, RoomOf
<1>5. Side(n, i) \in {0, 1}
  BY DEF Side
<1>6. a \in Nat /\ a < Word /\ a = Pair(g, j) + Side(n, i)
  <2>1. a = offsets[g] + 3 + 2 * (j - 1) + Side(n, i) /\ a = Pair(g, j) + Side(n, i)
    BY DEF NodeGates, Header, Pair
  <2> HIDE DEF a
  <2>2. a \in Nat /\ a < EndOf(g)
    <3> DEFINE o == offsets[g]
               G == Gated(g)
               J == Joins(g)
               s == Side(n, i)
    <3>1. /\ o \in Nat /\ G \in Nat /\ J \in Nat /\ s \in {0, 1} /\ j \in 1 .. G
          /\ a = o + 3 + 2 * (j - 1) + s /\ EndOf(g) = o + 3 + 2 * G + J
      BY <1>4, <1>5, <2>1
    <3> HIDE DEF o, G, J, s
    <3>2. o + 3 + 2 * (j - 1) + s \in Nat /\ o + 3 + 2 * (j - 1) + s < o + 3 + 2 * G + J
      BY <3>1, PairFits
    <3> QED
      BY <3>1, <3>2
  <2>3. EndOf(g) \in Nat /\ EndOf(g) <= Word
    <3> DEFINE e == EndOf(g)
    <3>1. e \in Nat
      BY RoomOf, <1>1
    <3>2. e <= Len(nodes) /\ Len(nodes) <= Word
      BY <1>4 DEF Fits
    <3> HIDE DEF e
    <3>3. e <= Word
      BY <1>1, <1>4, <3>1, <3>2
    <3> QED
      BY <3>1, <3>3 DEF e
  <2> QED
    BY <1>1, <2>1, <2>2, <2>3
<1> HIDE DEF a
<1>7. a % Word = a
  BY <1>1, <1>6, Modulo
<1> QED
  BY <1>3, <1>6, <1>7 DEF a

(* It answers with an offset that a word can hold, whatever it finds.      *)
LEMMA LookupIsWord ==
  ASSUME LInv, ~Collecting, Placed = 1 .. desc.count, desc.count # 0,
         NEW i, desc.tdefs[i].gate \in Ids, Matching(desc.tdefs[i]) # {}, NEW n
  PROVE  LookupLeg(n, desc.tdefs[i]) \in 0 .. Word - 1
<1> DEFINE t == desc.tdefs[i]
           g == t.gate
           least == CHOOSE x \in Matching(t) : \A y \in Matching(t) : x <= y
<1>1. Word \in Nat \ {0} /\ desc.count \in Nat \ {0} /\ Ids = 0 .. desc.count
  BY LayoutAssumption, DescIs DEF LInv
<1>2. g \in DOMAIN offsets /\ Placed # {}
  <2> HIDE DEF g
  <2>1. g \in 0 .. desc.count
    BY <1>1 DEF g
  <2> QED
    BY <1>1, <2>1 DEF LInv, Vector
<1>3. offsets[g] \in Nat /\ offsets[g] + 3 <= Len(nodes) /\ Len(nodes) \in Nat
  <2>1. offsets[g] \in 0 .. Word - 1 /\ offsets[g] + Header <= Len(nodes) /\ Len(nodes) \in Nat
    BY <1>2 DEF LInv, Vector
  <2> QED
    BY <1>1, <2>1 DEF Header
<1>4. At(offsets[g] + 1) \in Nat
  <2> DEFINE p == offsets[g] + 2
             S == 0 .. Word - 1
  <2>1. nodes \in Seq(S) /\ S \subseteq Nat
    BY DEF LInv, Vector
  <2>2. p \in 1 .. Len(nodes) /\ offsets[g] + 1 + 1 = p
    BY <1>3
  <2> HIDE DEF p, S
  <2>3. nodes[p] \in S
    BY <2>1, <2>2, SeqIs
  <2> QED
    BY <2>1, <2>2, <2>3 DEF At
<1>5. Matching(t) \in SUBSET Nat
  <2> DEFINE m == At(offsets[g] + 1)
  <2>1. m \in Nat
    BY <1>4
  <2>2. Matching(t) \subseteq 0 .. m - 1
    BY DEF Matching
  <2> HIDE DEF m, t
  <2> QED
    BY <2>1, <2>2
<1>6. least \in Nat
  <2> HIDE DEF t
  <2>1. Matching(t) # {}
    BY DEF t
  <2> QED
    BY <1>5, <2>1, LeastNat
<1> DEFINE s == IF t.c1 = n THEN 1 ELSE 0
           a == NodeGates(g) + 2 * least + s
<1>7. LookupLeg(n, t) = a % Word
  BY DEF LookupLeg
<1>8. a \in Nat
  <2>1. NodeGates(g) \in Nat /\ s \in Nat
    BY <1>3 DEF NodeGates, Header
  <2> HIDE DEF least, s, g
  <2> QED
    BY <1>6, <2>1
<1> HIDE DEF a
<1>9. a % Word \in 0 .. Word - 1
  BY <1>1, <1>8, Modulo
<1> QED
  BY <1>7, <1>9

LEMMA JoinIs ==
  ASSUME LInv, FillConnectors, NEW c, c = cursor, NEW low, low = NodeConnectors(c)
  PROVE  /\ phase = "connect" /\ phase' = phase /\ cursor' = c + 1
         /\ UNCHANGED <<desc, gates, siblings, offsets>>
         /\ c \in 1 .. desc.count /\ c \in Ids /\ c \in Placed /\ desc.count \in Nat \ {0}
         /\ Placed = 1 .. desc.count /\ Placed' = Placed
         /\ Filled = 1 .. desc.count /\ Filled' = Filled
         /\ Joined = 1 .. c - 1 /\ Joined' = 1 .. c
         /\ ~Collecting /\ ~Collecting' /\ Through' = Through
         /\ offsets[c] \in Nat /\ low \in Nat /\ Joins(c) \in Nat /\ Gated(c) \in Nat
         /\ Roomy => low = offsets[c] + 3 + 2 * Gated(c)
<1>1. /\ phase = "connect" /\ phase' = phase /\ cursor' = c + 1 /\ c <= desc.count
      /\ UNCHANGED <<desc, gates, siblings, offsets>> /\ Bounds /\ Vector /\ Headers
  BY DEF LInv, FillConnectors
<1>2. c \in 1 .. desc.count /\ c \in Ids /\ desc.count \in Nat \ {0}
  BY <1>1, DescIs DEF Bounds
<1>3. Placed = 1 .. desc.count /\ Placed' = Placed /\ c \in Placed
  BY <1>1, <1>2 DEF Placed, Collecting
<1>4. ~Collecting /\ ~Collecting' /\ Through' = Through
  BY <1>1 DEF Collecting, Through, Transistors
<1>5. Filled = 1 .. desc.count /\ Filled' = Filled
  BY <1>1, <1>4 DEF Filled
<1>6. Joined = 1 .. c - 1 /\ Joined' = 1 .. c
  <2>1. phase = "connect" /\ phase' = "connect" /\ cursor' - 1 = c
    BY <1>1, <1>2
  <2>2. Joined = 1 .. c - 1
    BY <1>4, <2>1 DEF Joined
  <2>3. Joined' = 1 .. c
    BY <1>4, <2>1 DEF Joined
  <2> QED
    BY <2>2, <2>3
<1>7. Joins(c) \in Nat /\ Gated(c) \in Nat
  BY <1>2, Sizes
<1>8. offsets[c] \in Nat /\ offsets[c] + 3 <= Len(nodes) /\ Len(nodes) \in Nat
  <2>1. offsets[c] \in 0 .. Word - 1 /\ offsets[c] + Header <= Len(nodes) /\ Len(nodes) \in Nat
    BY <1>1, <1>3 DEF Vector
  <2> QED
    BY <2>1, LayoutAssumption DEF Header
<1>9. At(offsets[c] + 1) \in Nat
  <2> DEFINE p == offsets[c] + 2
             S == 0 .. Word - 1
  <2>1. nodes \in Seq(S) /\ S \subseteq Nat
    BY <1>1 DEF Vector
  <2>2. p \in 1 .. Len(nodes) /\ offsets[c] + 1 + 1 = p
    BY <1>8
  <2> HIDE DEF p, S
  <2>3. nodes[p] \in S
    BY <2>1, <2>2, SeqIs
  <2> QED
    BY <2>1, <2>2, <2>3 DEF At
<1>10. low = offsets[c] + 3 + 2 * At(offsets[c] + 1)
  BY DEF NodeConnectors, NodeGates, Header
<1>11. low \in Nat
  BY <1>8, <1>9, <1>10
<1>12. Roomy => low = offsets[c] + 3 + 2 * Gated(c)
  BY <1>1, <1>3, <1>10 DEF Headers
<1> QED
  BY <1>1, <1>2, <1>3, <1>4, <1>5, <1>6, <1>7, <1>8, <1>11, <1>12

LEMMA JoinWords ==
  ASSUME LInv, FillConnectors, NEW c, c = cursor, NEW low, low = NodeConnectors(c)
  PROVE  /\ nodes' \in Seq(0 .. Word - 1) /\ Len(nodes') = Len(nodes)
         /\ \A i \in 1 .. Len(nodes) :
              nodes'[i] = IF i \in low + 1 .. low + Joins(c)
                          THEN LookupLeg(c, desc.tdefs[siblings[c][i - low]]) ELSE nodes[i]
<1>1. /\ c \in Ids /\ low \in Nat /\ Joins(c) \in Nat /\ ~Collecting
      /\ Placed = 1 .. desc.count /\ desc.count \in Nat \ {0}
  BY JoinIs
<1> DEFINE first == NodeConnectors(c) + 1
           S == 0 .. Word - 1
<1>2. nodes' = [i \in DOMAIN nodes |->
                  IF i \in first .. first + Joins(c) - 1
                  THEN LookupLeg(c, desc.tdefs[siblings[c][i - first + 1]]) ELSE nodes[i]]
  BY DEF FillConnectors, Joins
<1>3. first = low + 1 /\ first + Joins(c) - 1 = low + Joins(c)
  BY <1>1
<1>4. nodes \in Seq(S) /\ DOMAIN nodes = 1 .. Len(nodes) /\ Len(nodes) \in Nat
      /\ \A i \in 1 .. Len(nodes) : nodes[i] \in S
  <2>1. nodes \in Seq(S)
    BY DEF LInv, Vector
  <2> HIDE DEF S
  <2> QED
    BY <2>1, SeqIs
<1>5. \A i \in 1 .. Len(nodes) : i - first + 1 = i - low
  BY <1>1, <1>3, <1>4
<1> HIDE DEF first
<1>6. \A i \in 1 .. Len(nodes) :
        nodes'[i] = IF i \in low + 1 .. low + Joins(c)
                    THEN LookupLeg(c, desc.tdefs[siblings[c][i - low]]) ELSE nodes[i]
  BY <1>2, <1>3, <1>4, <1>5
<1>7. ASSUME NEW i \in 1 .. Len(nodes) PROVE nodes'[i] \in S
  <2>1. CASE i \in low + 1 .. low + Joins(c)
    <3> DEFINE k == i - low
               t == siblings[c][k]
    <3>1. k \in 1 .. Joins(c)
      BY <1>1, <2>1
    <3>2. nodes'[i] = LookupLeg(c, desc.tdefs[t])
      BY <1>6, <2>1
    <3> HIDE DEF k
    <3>3. desc.tdefs[t].gate \in Ids
      BY <1>1, <3>1, SiblingIs
    <3>4. DOMAIN siblings[c] = 1 .. Joins(c)
      BY <1>1, Sizes
    <3>5. Matching(desc.tdefs[t]) # {}
      BY <3>1, <3>4 DEF FillConnectors, Joining
    <3> HIDE DEF t, S
    <3>6. LookupLeg(c, desc.tdefs[t]) \in S
      BY <1>1, <3>3, <3>5, LookupIsWord DEF S
    <3> QED
      BY <3>2, <3>6
  <2>2. CASE i \notin low + 1 .. low + Joins(c)
    BY <1>4, <1>6, <2>2
  <2> QED
    BY <2>1, <2>2
<1>8. nodes' = [i \in DOMAIN nodes |-> nodes'[i]]
  BY <1>2
<1>9. nodes' \in Seq(S) /\ Len(nodes') = Len(nodes)
  <2> DEFINE r == nodes'
  <2>1. r = [i \in DOMAIN nodes |-> r[i]] /\ \A i \in 1 .. Len(nodes) : r[i] \in S
    BY <1>7, <1>8
  <2> HIDE DEF S, r
  <2>2. r \in Seq(S) /\ Len(r) = Len(nodes)
    BY <1>4, <2>1, Rewritten
  <2> QED
    BY <2>2 DEF r
<1> QED
  BY <1>6, <1>9

LEMMA JoinWrites ==
  ASSUME LInv, FillConnectors, Roomy, NEW c, c = cursor, NEW low, low = NodeConnectors(c)
  PROVE  WritesInto(c, low)
<1>1. /\ c \in Placed /\ low \in Nat /\ Joins(c) \in Nat
      /\ UNCHANGED <<desc, gates, siblings, offsets>> /\ Placed' = Placed
      /\ low = offsets[c] + 3 + 2 * Gated(c)
  BY JoinIs
<1>2. /\ nodes' \in Seq(0 .. Word - 1) /\ Len(nodes') = Len(nodes)
      /\ \A i \in 1 .. Len(nodes) :
           nodes'[i] = IF i \in low + 1 .. low + Joins(c)
                       THEN LookupLeg(c, desc.tdefs[siblings[c][i - low]]) ELSE nodes[i]
  BY JoinWords
<1>3. EndOf(c) = low + Joins(c) /\ Len(nodes) \in Nat
  BY <1>1, RoomOf
<1>4. \A i \in 1 .. Len(nodes) :
        i <= low \/ i > EndOf(c) => ~(i \in low + 1 .. low + Joins(c))
  BY <1>1, <1>3
<1>5. \A i \in 1 .. Len(nodes) : i <= low \/ i > EndOf(c) => nodes'[i] = nodes[i]
  BY <1>2, <1>4
<1> QED
  BY <1>1, <1>2, <1>5 DEF WritesInto

LEMMA JoinNext ==
  ASSUME LInv, FillConnectors
  PROVE  LInv'
<1> PICK c : c = cursor
  OBVIOUS
<1> PICK low : low = NodeConnectors(c)
  OBVIOUS
<1>1. /\ phase = "connect" /\ phase' = phase /\ cursor' = c + 1
      /\ UNCHANGED <<desc, gates, siblings, offsets>>
      /\ c \in 1 .. desc.count /\ c \in Ids /\ c \in Placed /\ desc.count \in Nat \ {0}
      /\ Placed = 1 .. desc.count /\ Placed' = Placed
      /\ Filled = 1 .. desc.count /\ Filled' = Filled
      /\ Joined = 1 .. c - 1 /\ Joined' = 1 .. c
      /\ ~Collecting /\ ~Collecting' /\ Through' = Through
      /\ offsets[c] \in Nat /\ low \in Nat /\ Joins(c) \in Nat /\ Gated(c) \in Nat
      /\ Roomy => low = offsets[c] + 3 + 2 * Gated(c)
  BY JoinIs
<1>2. /\ nodes' \in Seq(0 .. Word - 1) /\ Len(nodes') = Len(nodes)
      /\ \A i \in 1 .. Len(nodes) :
           nodes'[i] = IF i \in low + 1 .. low + Joins(c)
                       THEN LookupLeg(c, desc.tdefs[siblings[c][i - low]]) ELSE nodes[i]
  BY JoinWords
<1>3. Bounds /\ GatesCollected /\ LegsCollected /\ Vector /\ LegsWritten /\ ConnectorsWritten
  BY DEF LInv
<1>4. Bounds'
  <2>1. Ids' = Ids /\ Transistors' = Transistors /\ \A i : IdsOf(i)' = IdsOf(i)
    BY <1>1 DEF Ids, Transistors, IdsOf
  <2>2. c + 1 \in Nat \ {0} /\ c + 1 <= desc.count + 1
    BY <1>1
  <2> QED
    BY <1>1, <1>3, <2>1, <2>2 DEF Bounds
<1>5. GatesCollected' /\ LegsCollected'
  BY <1>1, <1>3, CollectedKept
<1>6. Vector'
  BY <1>1, <1>2, <1>3 DEF Vector
<1>7. Roomy' <=> Roomy
  BY <1>2 DEF Roomy
<1>8. Roomy => WritesInto(c, low) /\ offsets[c] + 3 <= low
               /\ offsets[c] + 3 + 2 * Gated(c) <= low
  BY <1>1, JoinWrites
<1>9. Apart' /\ Headers'
  <2>1. CASE Roomy
    BY <1>1, <1>8, <2>1, HeadersKept
  <2>2. CASE ~Roomy
    BY <1>7, <2>2 DEF Apart, Headers
  <2> QED
    BY <2>1, <2>2
<1>10. (Fits /\ NodeIds)' <=> Fits /\ NodeIds
  BY <1>1, <1>2 DEF Fits, NodeIds
<1>11. \A n, k : /\ Gated(n)' = Gated(n) /\ Joins(n)' = Joins(n) /\ Pair(n, k)' = Pair(n, k)
                 /\ Connector(n, k)' = Connector(n, k) /\ Side(n, k)' = Side(n, k)
  BY <1>1 DEF Gated, Joins, Pair, Connector, Side
<1>12. LegsWritten'
  <2> SUFFICES ASSUME Fits, NodeIds, NEW n \in Filled, NEW k \in 1 .. Gated(n)
               PROVE  /\ At(Pair(n, k))' = 2 * desc.tdefs[gates[n][k]].c1
                      /\ At(Pair(n, k) + 1)' = 2 * desc.tdefs[gates[n][k]].c2
    <3>1. \A n, k : /\ (desc.tdefs[gates[n][k]].c1)' = desc.tdefs[gates[n][k]].c1
                    /\ (desc.tdefs[gates[n][k]].c2)' = desc.tdefs[gates[n][k]].c2
      BY <1>1
    <3> QED
      BY <1>1, <1>10, <1>11, <3>1 DEF LegsWritten
  <2>1. Roomy /\ n \in Placed
    BY <1>1 DEF Fits, Roomy
  <2>2. At(Pair(n, k))' = At(Pair(n, k)) /\ At(Pair(n, k) + 1)' = At(Pair(n, k) + 1)
    BY <1>1, <1>8, <2>1, PairKept
  <2>3. /\ At(Pair(n, k)) = 2 * desc.tdefs[gates[n][k]].c1
        /\ At(Pair(n, k) + 1) = 2 * desc.tdefs[gates[n][k]].c2
    BY <1>3 DEF LegsWritten
  <2> QED
    BY <2>2, <2>3
<1>13. ConnectorsWritten'
  <2> SUFFICES ASSUME Fits, NodeIds, NEW n \in 1 .. c, NEW k \in 1 .. Joins(n),
                      NEW i, i = siblings[n][k], NEW g, g = desc.tdefs[i].gate,
                      NEW j \in 1 .. Gated(g), gates[g][j] = i
               PROVE  At(Connector(n, k))' = Pair(g, j) + Side(n, i)
    <3>1. siblings' = siblings /\ gates' = gates /\ desc' = desc
      BY <1>1
    <3> QED
      BY <1>1, <1>10, <1>11, <3>1 DEF ConnectorsWritten
  <2>1. Roomy /\ n \in Placed /\ n \in Ids /\ n \in Nat
    BY <1>1, <1>3, DescIs DEF Fits, Roomy
  <2>2. CASE n # c
    <3>1. n \in Joined
      BY <1>1, <2>1, <2>2
    <3>2. At(Connector(n, k)) = Pair(g, j) + Side(n, i)
      BY <1>3, <3>1 DEF ConnectorsWritten
    <3>3. At(Connector(n, k))' = At(Connector(n, k))
      BY <1>1, <1>8, <2>1, <2>2, ConnectorKept
    <3> QED
      BY <3>2, <3>3
  <2>3. CASE n = c
    <3>1. i \in Kept(desc) /\ i \in 1 .. Transistors
      BY <1>1, <2>1, SiblingIs
    <3>2. g \in 1 .. desc.count
      BY <1>3, <3>1, DescIs DEF NodeIds
    <3>3. LookupLeg(c, desc.tdefs[i]) = Pair(g, j) + Side(c, i)
      <4>1. Filled = 1 .. desc.count /\ Placed = 1 .. desc.count /\ ~Collecting
        BY <1>1
      <4>2. i \in Kept(desc)
        BY <3>1
      <4> QED
        BY <3>2, <4>1, <4>2, LookupIs
    <3> DEFINE p == low + k
    <3>4. /\ EndOf(c) = low + Joins(c) /\ EndOf(c) <= Len(nodes) /\ Len(nodes) \in Nat
          /\ EndOf(c) \in Nat
      BY <1>1, <2>1, RoomOf
    <3>5. p \in 1 .. Len(nodes) /\ p \in low + 1 .. low + Joins(c) /\ p - low = k
      <4>1. low \in Nat /\ Joins(c) \in Nat /\ k \in 1 .. Joins(c)
        BY <1>1, <2>3
      <4> QED
        BY <3>4, <4>1
    <3>6. Connector(n, k)' = offsets[c] + 3 + 2 * Gated(c) + k - 1
      BY <1>11, <2>3 DEF Connector, Header
    <3>7. offsets[c] + 3 + 2 * Gated(c) + k - 1 + 1 = p
      <4>1. k \in Nat
        BY <1>1, <2>3
      <4> QED
        BY <1>1, <2>1, <4>1
    <3> HIDE DEF p
    <3>8. nodes'[p] = LookupLeg(c, desc.tdefs[i])
      <4>1. nodes'[p] = LookupLeg(c, desc.tdefs[siblings[c][p - low]])
        BY <1>2, <3>5
      <4> QED
        BY <2>3, <3>5, <4>1
    <3>9. At(Connector(n, k))' = nodes'[p]
      BY <3>6, <3>7 DEF At
    <3> QED
      BY <2>3, <3>3, <3>8, <3>9
  <2> QED
    BY <2>2, <2>3
<1> QED
  BY <1>4, <1>5, <1>6, <1>9, <1>12, <1>13 DEF LInv

LEMMA LegMissingNext ==
  ASSUME LInv, LegMissing
  PROVE  LInv'
<1>1. /\ phase = "connect" /\ phase' = "logic_error" /\ cursor' = cursor /\ Bounds
      /\ cursor <= desc.count /\ Same
  BY SameIs DEF LInv, LegMissing
<1>2. ~Collecting /\ ~Collecting' /\ Through' = Through
      /\ Placed = 1 .. desc.count /\ Placed' = Placed
      /\ Filled = 1 .. desc.count /\ Filled' = Filled /\ Joined' = {}
  BY <1>1 DEF Collecting, Through, Placed, Filled, Joined, Same
<1>3. ~(Fits /\ NodeIds)
  <2> SUFFICES ASSUME Fits, NodeIds PROVE FALSE
    OBVIOUS
  <2> PICK c : c = cursor
    OBVIOUS
  <2>1. c \in Ids
    BY <1>1, DescIs DEF Bounds
  <2>2. PICK k \in 1 .. Joins(c) : Matching(desc.tdefs[siblings[c][k]]) = {}
    <3>1. DOMAIN siblings[c] = 1 .. Joins(c)
      BY <2>1, Sizes
    <3> QED
      BY <3>1 DEF LegMissing, Joining
  <2> DEFINE i == siblings[c][k]
             g == desc.tdefs[i].gate
  <2>3. i \in Kept(desc) /\ i \in 1 .. Transistors /\ g \in Ids
    BY <1>2, <2>1, SiblingIs
  <2>4. g \in 1 .. desc.count
    <3> HIDE DEF i
    <3> QED
      BY <1>1, <2>3, DescIs DEF NodeIds
  <2>5. PICK j \in 1 .. Gated(g) : gates[g][j] = i
    BY <1>2, <2>3, Position
  <2>6. Matching(desc.tdefs[i]) = {j - 1}
    <3> HIDE DEF i
    <3> QED
      BY <1>2, <2>3, <2>4, <2>5, MatchingIs
  <2> QED
    BY <2>2, <2>6
<1>4. (Fits /\ NodeIds)' <=> Fits /\ NodeIds
  BY <1>1 DEF Same, Fits, NodeIds
<1>5. Bounds'
  BY <1>1, <1>2, <1>3, <1>4, DescIs DEF Bounds, Same, Phases, Ended
<1> QED
  BY <1>1, <1>2, <1>5, LoopNext DEF Same

LEMMA NextInv ==
  ASSUME LInv, [Next]_lvars
  PROVE  LInv'
<1>1. CASE UNCHANGED lvars
  <2>1. Same /\ UNCHANGED <<cursor, phase>>
    BY <1>1, SameIs DEF lvars
  <2>2. Through' = Through /\ Placed' = Placed /\ Filled' = Filled /\ Joined' = Joined
    BY <2>1 DEF Through, Placed, Filled, Joined, Collecting, Same
  <2>3. Bounds'
    <3>1. (Fits <=> Fits') /\ (NodeIds <=> NodeIds')
      BY <2>1 DEF Same, Fits, NodeIds
    <3> QED
      BY <2>1, <2>2, <3>1 DEF LInv, Bounds, Same, Collecting
  <2> QED
    BY <2>1, <2>2, <2>3, LoopNext DEF Same
<1>2. CASE IdOutOfRange
  BY <1>2, OutOfRangeNext
<1>3. CASE SetupTransistor
  BY <1>3, SetupNext
<1>4. CASE SetupEnds
  BY <1>4, SetupEndsNext
<1>5. CASE AssertFails
  BY <1>5, AssertFailsNext
<1>6. CASE PlaceNode
  BY <1>6, PlaceNext
<1>7. CASE PlaceEnds
  BY <1>7, PlaceEndsNext
<1>8. CASE FillLegs
  BY <1>8, FillNext
<1>9. CASE LegsEnd
  BY <1>9, LegsEndNext
<1>10. CASE LegMissing
  BY <1>10, LegMissingNext
<1>11. CASE FillConnectors
  BY <1>11, JoinNext
<1>12. CASE ConnectEnds
  BY <1>12, ConnectEndsNext
<1> QED
  BY <1>1, <1>2, <1>3, <1>4, <1>5, <1>6, <1>7, <1>8, <1>9, <1>10, <1>11, <1>12 DEF Next

(* The invariant holds of every chip, however large, whatever the size of  *)
(* a word and whether or not the assertion is compiled in.                 *)
THEOREM LayoutInvariant == Spec => []LInv
<1>1. Init => LInv
  BY InitInv
<1>2. LInv /\ [Next]_lvars => LInv'
  BY NextInv
<1> QED
  BY <1>1, <1>2, PTL DEF Spec

-----------------------------------------------------------------------------
(* What follows from the invariant.                                        *)

LEMMA SeqWithin ==
  ASSUME NEW S, NEW T, NEW s \in Seq(S), \A k \in 1 .. Len(s) : s[k] \in T
  PROVE  s \in Seq(T)
<1>1. Len(s) \in Nat /\ s = [k \in 1 .. Len(s) |-> s[k]]
  OBVIOUS
<1>2. s \in [1 .. Len(s) -> T]
  BY <1>1
<1> QED
  BY <1>1, <1>2, SeqDef

LEMMA Typed ==
  ASSUME LInv
  PROVE  TypeOK
<1>1. Bounds /\ GatesCollected /\ LegsCollected /\ Vector
  BY DEF LInv
<1>2. DOMAIN desc.tdefs = 1 .. Transistors /\ Ids = 0 .. desc.count /\ desc.count \in Nat
  BY <1>1, DescIs
<1> DEFINE T == 1 .. Transistors
<1>3. gates \in [Ids -> Seq(T)]
  <2>1. ASSUME NEW n \in Ids PROVE gates[n] \in Seq(T)
    <3>1. \A k \in 1 .. Gated(n) : gates[n][k] \in T
      BY GateIs
    <3> DEFINE s == gates[n]
    <3>2. s \in Seq(Nat) /\ \A k \in 1 .. Len(s) : s[k] \in T
      BY <1>1, <3>1 DEF GatesCollected, Gated
    <3> HIDE DEF s, T
    <3>3. s \in Seq(T)
      BY <3>2, SeqWithin
    <3> QED
      BY <3>3 DEF s
  <2> HIDE DEF T
  <2> QED
    BY <1>1, <2>1 DEF GatesCollected
<1>4. siblings \in [Ids -> Seq(T)]
  <2>1. ASSUME NEW n \in Ids PROVE siblings[n] \in Seq(T)
    <3>1. \A k \in 1 .. Joins(n) : siblings[n][k] \in T
      BY SiblingKept
    <3> DEFINE s == siblings[n]
    <3>2. s \in Seq(Nat) /\ \A k \in 1 .. Len(s) : s[k] \in T
      BY <1>1, <3>1 DEF LegsCollected, Joins
    <3> HIDE DEF s, T
    <3>3. s \in Seq(T)
      BY <3>2, SeqWithin
    <3> QED
      BY <3>3 DEF s
  <2> HIDE DEF T
  <2> QED
    BY <1>1, <2>1 DEF LegsCollected
<1>5. DOMAIN offsets \subseteq Ids
  <2>1. Placed \subseteq Ids
    BY PlacedAreIds
  <2> QED
    BY <1>1, <1>2, <2>1 DEF Vector
<1>6. \A n \in DOMAIN offsets : offsets[n] \in 0 .. Word - 1
  BY <1>1 DEF Vector
<1>7. nodes \in Seq(0 .. Word - 1) /\ cursor \in Nat /\ phase \in Phases
  BY <1>1 DEF Vector, Bounds
<1> QED
  BY <1>2, <1>3, <1>4, <1>5, <1>6, <1>7 DEF TypeOK

LEMMA FailsWell ==
  ASSUME LInv
  PROVE  FailsOnlyOnBadInput
<1>1. Bounds /\ Len(nodes) \in Nat /\ Word \in Nat
  BY LayoutAssumption DEF LInv, Vector
<1>2. /\ DOMAIN desc.tdefs = 1 .. Transistors /\ Ids = 0 .. desc.count
      /\ Transistors \in Nat
  BY <1>1, DescIs
<1>3. InRange(desc) <=> \A i \in 1 .. Transistors : IdsOf(i) \subseteq Ids
  BY <1>2 DEF InRange, IdsOf
<1>4. phase = "out_of_range" => ~InRange(desc)
  <2> SUFFICES ASSUME phase = "out_of_range" PROVE ~InRange(desc)
    OBVIOUS
  <2>1. cursor \in 1 .. Transistors /\ ~(IdsOf(cursor) \subseteq Ids)
    BY <1>1, <1>2 DEF Bounds
  <2> QED
    BY <1>3, <2>1
<1>5. phase = "done" => InRange(desc)
  <2>1. phase = "done" => Through = Transistors
    BY DEF Through, Collecting
  <2> QED
    BY <1>1, <1>3, <2>1 DEF Bounds
<1>6. phase = "logic_error" => ~NodeIds \/ ~Fits
  BY <1>1 DEF Bounds
<1>7. phase = "abort" => Len(nodes) + Header > Word
  BY <1>1 DEF Bounds, Header
<1> QED
  BY <1>4, <1>5, <1>6, <1>7 DEF FailsOnlyOnBadInput

LEMMA GatedByIs ==
  ASSUME LInv, ~Collecting, NEW n \in Ids
  PROVE  GatedBy(n) = gates[n]
<1>1. Bounds /\ Through = Transistors
  BY DEF LInv, Through
<1>2. \A i \in Kept(desc) : i <= Through
  BY <1>1, KeptAre, DescIs
<1>3. GatedSoFar(n) = {i \in Kept(desc) : desc.tdefs[i].gate = n}
  BY <1>2 DEF GatedSoFar
<1>4. gates[n] \in Seq(Nat) /\ Ascending(gates[n]) /\ Range(gates[n]) = GatedSoFar(n)
  BY DEF LInv, GatesCollected
<1>5. Sorted(GatedSoFar(n)) = gates[n]
  <2> DEFINE s == gates[n]
  <2>1. s \in Seq(Nat) /\ Ascending(s) /\ Range(s) = GatedSoFar(n)
    BY <1>4
  <2> HIDE DEF s
  <2>2. Sorted(Range(s)) = s
    BY <2>1, SortedIs
  <2> QED
    BY <2>1, <2>2 DEF s
<1> QED
  BY <1>3, <1>5 DEF GatedBy

(* The connectors that the netlist of the description has.                 *)
LEMMA ConnectorsAre ==
  ASSUME LInv, ~Collecting, NEW n \in Ids, NEW sibs, sibs = SiblingConnectors(desc, n)
  PROVE  /\ Len(sibs) = Joins(n) /\ DOMAIN sibs = 1 .. Joins(n)
         /\ \A k \in 1 .. Joins(n) :
              LET i == siblings[n][k]
                  t == desc.tdefs[i]
              IN sibs[k] = <<i, IF t.c1 = n THEN t.c2 ELSE t.c1>>
<1>1. Bounds /\ Through = Transistors
  BY DEF LInv, Through
<1>2. LegsSoFar(n) = LegsOn(desc, n)
  <2>1. ASSUME NEW l \in LegsOn(desc, n) PROVE l \div 2 <= Through
    <3>1. PICK i \in Kept(desc) : l = 2 * i \/ l = 2 * i + 1
      BY <1>1, LegsAre
    <3>2. i \in 1 .. Transistors /\ i \in Nat
      BY <1>1, KeptAre, DescIs
    <3>3. l \div 2 = i
      BY <3>1, <3>2, Halving
    <3> QED
      BY <1>1, <3>2, <3>3, DescIs
  <2> QED
    BY <2>1 DEF LegsSoFar
<1>3. PICK ls \in Seq(Nat) :
        /\ Ascending(ls) /\ Range(ls) = LegsSoFar(n) /\ Len(siblings[n]) = Len(ls)
        /\ \A j \in 1 .. Len(ls) : siblings[n][j] = ls[j] \div 2
  BY DEF LInv, LegsCollected, Lists
<1>4. Sorted(LegsOn(desc, n)) = ls
  BY <1>2, <1>3, SortedIs
<1>5. DOMAIN ls = 1 .. Joins(n) /\ Joins(n) \in Nat /\ Len(ls) = Joins(n)
  BY <1>3, SeqIs DEF Joins
<1> DEFINE Other(i) == LET t == desc.tdefs[i] IN IF t.c1 = n THEN t.c2 ELSE t.c1
<1>6. sibs = [k \in DOMAIN ls |-> <<ls[k] \div 2, Other(ls[k] \div 2)>>]
  BY <1>4 DEF SiblingConnectors
<1> HIDE DEF Other
<1>7. \A k \in 1 .. Joins(n) : sibs[k] = <<siblings[n][k], Other(siblings[n][k])>>
  BY <1>3, <1>5, <1>6
<1>8. Len(sibs) = Joins(n) /\ DOMAIN sibs = 1 .. Joins(n)
  <2> DEFINE S == {sibs[k] : k \in 1 .. Joins(n)}
             m == Joins(n)
  <2>1. sibs \in [1 .. m -> S] /\ m \in Nat
    BY <1>5, <1>6
  <2> HIDE DEF S
  <2>2. sibs \in Seq(S)
    BY <2>1, SeqDef
  <2>3. DOMAIN sibs = 1 .. m /\ DOMAIN sibs = 1 .. Len(sibs) /\ Len(sibs) \in Nat
    BY <2>1, <2>2, SeqIs
  <2> HIDE DEF m
  <2> QED
    BY <2>1, <2>3 DEF m
<1> QED
  BY <1>7, <1>8 DEF Other

LEMMA LegOfIs ==
  ASSUME LInv, ~Collecting, NEW i, NEW g \in Ids, g = desc.tdefs[i].gate,
         NEW j \in 1 .. Gated(g), gates[g][j] = i, NEW l
  PROVE  LegOf(i, l) = Pair(g, j) + l
<1> DEFINE s == gates[g]
<1>1. GatedBy(g) = s
  BY GatedByIs
<1>2. s \in Seq(Nat) /\ Ascending(s) /\ DOMAIN s = 1 .. Len(s) /\ Len(s) = Gated(g) /\ s[j] = i
  BY Sizes DEF LInv, GatesCollected, Gated
<1> DEFINE k == CHOOSE k \in DOMAIN s : s[k] = i
<1>3. k = j
  <2> HIDE DEF s
  <2>1. k \in DOMAIN s /\ s[k] = i
    BY <1>2
  <2> HIDE DEF k
  <2> QED
    BY <1>2, <2>1, AscendingIsInjective
<1>4. LegOf(i, l) = NodeGates(g) + 2 * (k - 1) + l
  BY <1>1 DEF LegOf
<1> HIDE DEF k
<1> QED
  BY <1>3, <1>4 DEF NodeGates, Pair

LEMMA LaysOut ==
  ASSUME LInv
  PROVE  LayoutIsNetlist
<1> SUFFICES ASSUME phase = "done", Fits, NodeIds, NEW n \in 1 .. desc.count,
                    NEW chip, chip = Construct(desc), NEW sibs, sibs = chip.sibs[n]
             PROVE  /\ At(offsets[n]) = 1 <=> n \in chip.pullups
                    /\ At(offsets[n] + 1) = Len(GatedBy(n))
                    /\ At(offsets[n] + 2) = Len(sibs)
                    /\ \A k \in DOMAIN sibs :
                         LET t    == sibs[k][1]
                             word == At(NodeConnectors(n) + k - 1)
                         IN /\ word = LegOf(t, IF chip.c1[t] = n THEN 1 ELSE 0)
                            /\ At(word) = 2 * sibs[k][2]
  BY DEF LayoutIsNetlist
<1>1. /\ Bounds /\ Roomy /\ ~Collecting /\ Through = Transistors
      /\ Placed = 1 .. desc.count /\ Filled = 1 .. desc.count /\ Joined = 1 .. desc.count
  BY DEF LInv, Fits, Roomy, Placed, Filled, Joined, Collecting, Through
<1>2. n \in Ids /\ n \in Nat /\ desc.count \in Nat
  BY <1>1, DescIs
<1>3. /\ chip.pullups = desc.pullups /\ sibs = SiblingConnectors(desc, n)
      /\ \A i \in Kept(desc) : chip.c1[i] = desc.tdefs[i].c1
  BY DEF Construct
<1>4. /\ At(offsets[n]) = IF n \in desc.pullups THEN 1 ELSE 0
      /\ At(offsets[n] + 1) = Gated(n)
      /\ At(offsets[n] + 2) = Joins(n)
  BY <1>1 DEF LInv, Headers
<1>5. Len(GatedBy(n)) = Gated(n)
  BY <1>1, <1>2, GatedByIs DEF Gated
<1>6. /\ Len(sibs) = Joins(n) /\ DOMAIN sibs = 1 .. Joins(n)
      /\ \A k \in 1 .. Joins(n) :
           LET i == siblings[n][k]
               t == desc.tdefs[i]
           IN sibs[k] = <<i, IF t.c1 = n THEN t.c2 ELSE t.c1>>
  BY <1>1, <1>2, <1>3, ConnectorsAre
<1>7. ASSUME NEW k \in 1 .. Joins(n)
      PROVE  LET t    == sibs[k][1]
                 word == At(NodeConnectors(n) + k - 1)
             IN /\ word = LegOf(t, IF chip.c1[t] = n THEN 1 ELSE 0)
                /\ At(word) = 2 * sibs[k][2]
  <2> DEFINE i == siblings[n][k]
             t == desc.tdefs[i]
             g == t.gate
  <2>1. i \in Kept(desc) /\ i \in 1 .. Transistors /\ g \in Ids
    BY <1>1, <1>2, SiblingIs
  <2>2. sibs[k][1] = i /\ sibs[k][2] = IF t.c1 = n THEN t.c2 ELSE t.c1
    BY <1>6
  <2> HIDE DEF i
  <2>3. g \in 1 .. desc.count
    BY <1>1, <2>1, DescIs DEF NodeIds
  <2>4. PICK j \in 1 .. Gated(g) : gates[g][j] = i
    BY <1>1, <2>1, Position
  <2>5. At(Connector(n, k)) = Pair(g, j) + Side(n, i)
    BY <1>1, <2>4 DEF LInv, ConnectorsWritten, i
  <2>6. NodeConnectors(n) + k - 1 = Connector(n, k)
    BY <1>4 DEF NodeConnectors, NodeGates, Connector
  <2>7. chip.c1[i] = t.c1
    BY <1>3, <2>1
  <2>8. LegOf(i, Side(n, i)) = Pair(g, j) + Side(n, i)
    <3> DEFINE h == g
    <3>1. h \in Ids /\ h = desc.tdefs[i].gate /\ j \in 1 .. Gated(h) /\ gates[h][j] = i
      BY <2>1, <2>4
    <3> HIDE DEF h
    <3>2. LegOf(i, Side(n, i)) = Pair(h, j) + Side(n, i)
      BY <1>1, <3>1, LegOfIs
    <3> QED
      BY <3>2 DEF h
  <2>9. /\ At(Pair(g, j)) = 2 * t.c1 /\ At(Pair(g, j) + 1) = 2 * t.c2
    BY <1>1, <2>3, <2>4 DEF LInv, LegsWritten
  <2>10. At(Pair(g, j) + Side(n, i)) = 2 * (IF t.c1 = n THEN t.c2 ELSE t.c1)
    <3>1. CASE t.c1 = n
      BY <2>9, <3>1 DEF Side
    <3>2. CASE t.c1 # n
      <4>1. Pair(g, j) \in Nat
        <5>1. offsets[g] \in Nat
          BY <1>1, <2>3, RoomOf
        <5>2. j \in Nat \ {0}
          BY <2>1, Sizes
        <5> QED
          BY <5>1, <5>2 DEF Pair, Header
      <4>2. Pair(g, j) + Side(n, i) = Pair(g, j)
        BY <3>2, <4>1 DEF Side
      <4> QED
        BY <2>9, <3>2, <4>2
    <3> QED
      BY <3>1, <3>2
  <2>11. Side(n, i) = IF chip.c1[i] = n THEN 1 ELSE 0
    BY <2>7 DEF Side
  <2> HIDE DEF g, t
  <2> QED
    BY <2>2, <2>5, <2>6, <2>8, <2>10, <2>11
<1> QED
  BY <1>3, <1>4, <1>5, <1>6, <1>7

(* Every word of the vector, every offset and every list stays of its      *)
(* type, in builds with and without assert(), for descriptions that do not *)
(* fit too (nmos.cc:27-52, 88-141, 293-354).                               *)
THEOREM LayoutTypeOK == Spec => []TypeOK
<1>1. LInv => TypeOK
  BY Typed
<1> QED
  BY <1>1, LayoutInvariant, PTL

(* Construction fails for an id that is no node's or for want of room, and *)
(* for nothing else: with good ids and room, lookup_leg finds the          *)
(* transistor it looks for (nmos.cc:88-105, 299-305, 324).                 *)
THEOREM LayoutFailsWell == Spec => []FailsOnlyOnBadInput
<1>1. LInv => FailsOnlyOnBadInput
  BY FailsWell
<1> QED
  BY <1>1, LayoutInvariant, PTL

(* What the constructor leaves in the vector is the netlist: for every     *)
(* description that fits, of any size, each node's pull-up and counts are  *)
(* right, and each connector leads to the word of the leg on the other     *)
(* side, which holds the node there (nmos.cc:316-354).                     *)
THEOREM LayoutIsTheNetlist == Spec => []LayoutIsNetlist
<1>1. LInv => LayoutIsNetlist
  BY LaysOut
<1> QED
  BY <1>1, LayoutInvariant, PTL

-----------------------------------------------------------------------------
(* What the simulator relies on in a chip is what the constructor makes of *)
(* a description like mos6502.inc.                                         *)

(* The place of a number in the ascending list of a finite set. *)
Rank(S, x) == Cardinality({y \in S : y < x}) + 1

LEMMA RankIs ==
  ASSUME NEW S \in SUBSET Nat, IsFiniteSet(S), NEW x \in S
  PROVE  /\ Rank(S, x) \in 1 .. Cardinality(S)
         /\ \A y \in S : x < y => Rank(S, x) < Rank(S, y)
<1> DEFINE Before(y) == {z \in S : z < y}
           n == Cardinality(S)
<1>1. ASSUME NEW y \in S
      PROVE  IsFiniteSet(Before(y)) /\ Cardinality(Before(y)) \in Nat
  BY FS_Subset, FS_CardinalityType
<1>2. n \in Nat /\ IsFiniteSet(S \ {x}) /\ Cardinality(S \ {x}) = n - 1
  BY FS_CardinalityType, FS_RemoveElement
<1>3. Cardinality(Before(x)) <= n - 1
  <2>1. Before(x) \in SUBSET (S \ {x})
    OBVIOUS
  <2> HIDE DEF Before, n
  <2> QED BY <1>2, <2>1, FS_Subset
<1>4. ASSUME NEW y \in S, x < y
      PROVE  Cardinality(Before(x)) < Cardinality(Before(y))
  <2>1. x \notin Before(x) /\ x \in Before(y)
    BY <1>4
  <2>2. Before(x) \in SUBSET Before(y)
    <3> SUFFICES ASSUME NEW z \in S, z < x PROVE z < y
      OBVIOUS
    <3>1. x \in Nat /\ y \in Nat /\ z \in Nat
      OBVIOUS
    <3> QED BY <1>4, <3>1
  <2> HIDE DEF Before
  <2>3. Cardinality(Before(x) \cup {x}) = Cardinality(Before(x)) + 1
    BY <1>1, <2>1, FS_AddElement
  <2>4. Before(x) \cup {x} \in SUBSET Before(y)
    BY <2>1, <2>2
  <2>5. Cardinality(Before(x) \cup {x}) <= Cardinality(Before(y))
    BY <1>1, <2>4, FS_Subset
  <2> QED BY <1>1, <2>3, <2>5
<1>5. \A y \in S : Rank(S, y) = Cardinality(Before(y)) + 1
  BY DEF Rank
<1> HIDE DEF Before, n
<1>6. Rank(S, x) \in 1 .. n
  BY <1>1, <1>2, <1>3, <1>5
<1> QED BY <1>1, <1>4, <1>5, <1>6 DEF n

(* Sorted gives a list of exactly the elements of a finite set. *)
LEMMA SortedLists ==
  ASSUME NEW S \in SUBSET Nat, IsFiniteSet(S)
  PROVE  /\ Sorted(S) \in Seq(S)
         /\ \A x \in S : \E k \in DOMAIN Sorted(S) : Sorted(S)[k] = x
<1> DEFINE n    == Cardinality(S)
           rank == [x \in S |-> Rank(S, x)]
<1>1. n \in Nat /\ IsFiniteSet(1 .. n) /\ Cardinality(1 .. n) = n
  <2>1. n \in Nat
    BY FS_CardinalityType
  <2>2. Cardinality(1 .. n) = IF 1 > n THEN 0 ELSE n - 1 + 1
    BY <2>1, FS_Interval
  <2> QED BY <2>1, <2>2, FS_Interval
<1>2. \A x \in S : rank[x] \in 1 .. n /\ rank[x] \in Nat
  BY <1>1, RankIs
<1>3. \A x, y \in S : rank[x] = rank[y] => x = y
  <2> SUFFICES ASSUME NEW x \in S, NEW y \in S, rank[x] = rank[y], x < y \/ y < x PROVE FALSE
    OBVIOUS
  <2>1. rank[x] < rank[y] \/ rank[y] < rank[x]
    BY RankIs
  <2> QED BY <1>2, <2>1
<1>4. rank \in Injection(S, 1 .. n)
  <2>1. rank \in [S -> 1 .. n]
    BY <1>2
  <2> HIDE DEF rank
  <2> QED BY <1>3, <2>1 DEF Injection, IsInjective
<1>5. rank \in Surjection(S, 1 .. n)
  <2> HIDE DEF rank
  <2>1. Cardinality(S) = Cardinality(1 .. n)
    BY <1>1
  <2> QED BY <1>1, <1>4, <2>1, FS_Injection
<1>6. \A k \in 1 .. n : \E x \in S : rank[x] = k
  BY <1>5 DEF Surjection
<1>7. \A x \in S, k \in 1 .. n : Cardinality({y \in S : y < x}) = k - 1 <=> rank[x] = k
  <2> SUFFICES ASSUME NEW x \in S, NEW k \in 1 .. n
               PROVE  Cardinality({y \in S : y < x}) = k - 1 <=> rank[x] = k
    OBVIOUS
  <2> DEFINE c == Cardinality({y \in S : y < x})
  <2>1. rank[x] = c + 1 /\ c \in Nat
    <3>1. {y \in S : y < x} \in SUBSET S
      OBVIOUS
    <3> QED BY <3>1, FS_Subset, FS_CardinalityType DEF Rank
  <2> HIDE DEF c, rank
  <2>2. c = k - 1 <=> rank[x] = k
    BY <1>1, <2>1
  <2> QED BY <2>2 DEF c
<1>8. Sorted(S) = [k \in 1 .. n |-> CHOOSE x \in S : Cardinality({y \in S : y < x}) = k - 1]
  BY DEF Sorted
<1> HIDE DEF rank, n
<1>9. ASSUME NEW k \in 1 .. n PROVE Sorted(S)[k] \in S /\ rank[Sorted(S)[k]] = k
  <2>1. Sorted(S)[k] = CHOOSE x \in S : Cardinality({y \in S : y < x}) = k - 1
    BY <1>8
  <2>2. \E x \in S : Cardinality({y \in S : y < x}) = k - 1
    BY <1>6, <1>7
  <2>3. Sorted(S)[k] \in S /\ Cardinality({y \in S : y < Sorted(S)[k]}) = k - 1
    BY <2>1, <2>2, Zenon
  <2> QED BY <1>7, <2>3
<1>10. DOMAIN Sorted(S) = 1 .. n
  BY <1>8
<1>11. Sorted(S) \in Seq(S)
  <2>1. Sorted(S) \in [1 .. n -> S]
    BY <1>8, <1>9
  <2> QED BY <1>1, <2>1, SeqDef
<1>12. ASSUME NEW x \in S PROVE Sorted(S)[rank[x]] = x
  BY <1>2, <1>3, <1>9
<1> QED BY <1>2, <1>10, <1>11, <1>12

-----------------------------------------------------------------------------
LEMMA WellFormedIs ==
  ASSUME NEW d, WellFormed(d)
  PROVE  /\ d.count \in Nat \ {0} /\ Len(d.tdefs) \in Nat
         /\ Kept(d) \subseteq 1 .. Len(d.tdefs) /\ IsFiniteSet(Kept(d))
         /\ \A i \in Kept(d) :
              /\ i \in Nat /\ d.tdefs[i].gate \in 1 .. d.count /\ d.tdefs[i].gate # d.power
              /\ d.tdefs[i].c1 \in 1 .. d.count /\ d.tdefs[i].c2 \in 1 .. d.count
<1> DEFINE ids == 1 .. d.count
           T   == [gate : ids \ {d.power}, c1 : ids, c2 : ids]
<1>1. d.count \in Nat \ {0} /\ d.tdefs \in Seq(T)
  BY DEF WellFormed
<1>2. \A t \in T : t.gate \in ids /\ t.gate # d.power /\ t.c1 \in ids /\ t.c2 \in ids
  OBVIOUS
<1> HIDE DEF T
<1>3. Len(d.tdefs) \in Nat /\ DOMAIN d.tdefs = 1 .. Len(d.tdefs)
      /\ \A i \in 1 .. Len(d.tdefs) : d.tdefs[i] \in T
  BY <1>1, SeqIs
<1>4. Kept(d) \in SUBSET (1 .. Len(d.tdefs))
  BY <1>3 DEF Kept
<1>5. IsFiniteSet(Kept(d))
  <2>1. IsFiniteSet(1 .. Len(d.tdefs))
    BY <1>3, FS_Interval
  <2> QED BY <1>4, <2>1, FS_Subset
<1> QED BY <1>1, <1>2, <1>3, <1>4, <1>5

LEMMA LegsOfNode ==
  ASSUME NEW d, WellFormed(d), NEW n
  PROVE  /\ LegsOn(d, n) \in SUBSET Nat /\ IsFiniteSet(LegsOn(d, n))
         /\ \A l \in LegsOn(d, n) :
              /\ l \div 2 \in Kept(d)
              /\ d.tdefs[l \div 2].c1 = n \/ d.tdefs[l \div 2].c2 = n
         /\ \A i \in Kept(d) :
              /\ d.tdefs[i].c1 = n => 2 * i \in LegsOn(d, n)
              /\ d.tdefs[i].c2 = n => 2 * i + 1 \in LegsOn(d, n)
<1>1. ASSUME NEW i \in Kept(d)
      PROVE  /\ 2 * i \in 0 .. 2 * Len(d.tdefs) + 1 /\ 2 * i + 1 \in 0 .. 2 * Len(d.tdefs) + 1
             /\ (2 * i) \div 2 = i /\ (2 * i + 1) \div 2 = i
             /\ LegNode(d, 2 * i) = d.tdefs[i].c1
             /\ LegNode(d, 2 * i + 1) = d.tdefs[i].c2
  <2>1. i \in 1 .. Len(d.tdefs) /\ i \in Nat /\ Len(d.tdefs) \in Nat
    BY WellFormedIs
  <2>2. /\ (2 * i) \div 2 = i /\ (2 * i + 1) \div 2 = i
        /\ (2 * i) % 2 = 0 /\ (2 * i + 1) % 2 = 1
    BY <2>1, Halving
  <2>3. 2 * i \in 0 .. 2 * Len(d.tdefs) + 1 /\ 2 * i + 1 \in 0 .. 2 * Len(d.tdefs) + 1
    BY <2>1
  <2> QED BY <2>2, <2>3 DEF LegNode
<1>2. \A l : l \in LegsOn(d, n) <=>
               \E i \in Kept(d) : l \in {2 * i, 2 * i + 1} /\ LegNode(d, l) = n
  BY DEF LegsOn
<1>3. LegsOn(d, n) \in SUBSET (0 .. 2 * Len(d.tdefs) + 1)
  <2> DEFINE all == 0 .. 2 * Len(d.tdefs) + 1
  <2>1. \A i \in Kept(d) : {2 * i, 2 * i + 1} \in SUBSET all
    BY <1>1
  <2> HIDE DEF all
  <2>2. \A l \in LegsOn(d, n) : l \in all
    BY <1>2, <2>1
  <2> QED BY <2>2 DEF all
<1>4. LegsOn(d, n) \in SUBSET Nat /\ IsFiniteSet(LegsOn(d, n))
  <2> DEFINE m == 2 * Len(d.tdefs) + 1
  <2>1. m \in Int
    BY WellFormedIs
  <2>2. LegsOn(d, n) \in SUBSET (0 .. m)
    BY <1>3
  <2> HIDE DEF m
  <2>3. IsFiniteSet(0 .. m) /\ 0 .. m \in SUBSET Nat
    BY <2>1, FS_Interval
  <2>4. IsFiniteSet(LegsOn(d, n))
    BY <2>2, <2>3, FS_Subset
  <2> QED BY <2>2, <2>3, <2>4
<1>5. ASSUME NEW l \in LegsOn(d, n)
      PROVE  /\ l \div 2 \in Kept(d)
             /\ d.tdefs[l \div 2].c1 = n \/ d.tdefs[l \div 2].c2 = n
  <2>1. PICK i \in Kept(d) : l \in {2 * i, 2 * i + 1} /\ LegNode(d, l) = n
    BY <1>2
  <2>2. l = 2 * i \/ l = 2 * i + 1
    BY <2>1
  <2>3. l \div 2 = i
    BY <1>1, <2>2
  <2>4. d.tdefs[i].c1 = n \/ d.tdefs[i].c2 = n
    BY <1>1, <2>1, <2>2
  <2> QED BY <2>3, <2>4
<1>6. ASSUME NEW i \in Kept(d)
      PROVE  /\ d.tdefs[i].c1 = n => 2 * i \in LegsOn(d, n)
             /\ d.tdefs[i].c2 = n => 2 * i + 1 \in LegsOn(d, n)
  <2>1. LegNode(d, 2 * i) = d.tdefs[i].c1 /\ LegNode(d, 2 * i + 1) = d.tdefs[i].c2
    BY <1>1
  <2>2. 2 * i \in {2 * i, 2 * i + 1} /\ 2 * i + 1 \in {2 * i, 2 * i + 1}
    OBVIOUS
  <2> QED BY <1>2, <2>1, <2>2
<1> QED BY <1>4, <1>5, <1>6

(* The connectors of a node name its transistors and their other legs, for *)
(* a transistor with both legs on it too.                                  *)
LEMMA ConnectorsOf ==
  ASSUME NEW d, WellFormed(d), NEW n \in 1 .. d.count
  PROVE  LET sibs == SiblingConnectors(d, n) IN
         /\ sibs \in Seq(Kept(d) \X (1 .. d.count))
         /\ \A con \in Range(sibs) :
              \/ d.tdefs[con[1]].c1 = n /\ d.tdefs[con[1]].c2 = con[2]
              \/ d.tdefs[con[1]].c2 = n /\ d.tdefs[con[1]].c1 = con[2]
         /\ \A i \in Kept(d) :
              /\ d.tdefs[i].c1 = n => <<i, d.tdefs[i].c2>> \in Range(sibs)
              /\ d.tdefs[i].c2 = n => <<i, d.tdefs[i].c1>> \in Range(sibs)
<1> DEFINE legs     == Sorted(LegsOn(d, n))
           Other(i) == LET t == d.tdefs[i] IN IF t.c1 = n THEN t.c2 ELSE t.c1
           sibs     == SiblingConnectors(d, n)
           L        == LegsOn(d, n)
<1>1. legs \in Seq(L) /\ \A l \in L : \E k \in DOMAIN legs : legs[k] = l
  BY LegsOfNode, SortedLists
<1>2. sibs = [k \in DOMAIN legs |-> <<legs[k] \div 2, Other(legs[k] \div 2)>>]
  BY DEF SiblingConnectors
<1>3. /\ \A l \in L : /\ l \div 2 \in Kept(d)
                      /\ d.tdefs[l \div 2].c1 = n \/ d.tdefs[l \div 2].c2 = n
      /\ \A i \in Kept(d) : /\ d.tdefs[i].c1 = n => 2 * i \in L
                            /\ d.tdefs[i].c2 = n => 2 * i + 1 \in L
  BY LegsOfNode
<1>4. \A i \in Kept(d) : Other(i) \in 1 .. d.count /\ (2 * i) \div 2 = i /\ (2 * i + 1) \div 2 = i
  BY WellFormedIs, Halving
<1>5. \A i \in Kept(d) :
        d.tdefs[i].c1 = n \/ d.tdefs[i].c2 = n =>
          \/ d.tdefs[i].c1 = n /\ d.tdefs[i].c2 = Other(i)
          \/ d.tdefs[i].c2 = n /\ d.tdefs[i].c1 = Other(i)
  OBVIOUS
<1>6. \A i \in Kept(d) : /\ d.tdefs[i].c1 = n => Other(i) = d.tdefs[i].c2
                         /\ d.tdefs[i].c2 = n => Other(i) = d.tdefs[i].c1
  OBVIOUS
<1> HIDE DEF legs, Other, sibs, L
<1>7. Len(legs) \in Nat /\ DOMAIN legs = 1 .. Len(legs) /\ \A k \in DOMAIN legs : legs[k] \in L
  BY <1>1, SeqIs
<1>8. sibs \in Seq(Kept(d) \X (1 .. d.count))
  <2>1. sibs \in [1 .. Len(legs) -> Kept(d) \X (1 .. d.count)]
    BY <1>2, <1>3, <1>4, <1>7
  <2> QED BY <1>7, <2>1, SeqDef
<1>9. \A k \in DOMAIN legs : sibs[k] = <<legs[k] \div 2, Other(legs[k] \div 2)>>
  BY <1>2
<1>10. DOMAIN sibs = DOMAIN legs
  BY <1>2
<1>11. ASSUME NEW con \in Range(sibs)
       PROVE  \/ d.tdefs[con[1]].c1 = n /\ d.tdefs[con[1]].c2 = con[2]
              \/ d.tdefs[con[1]].c2 = n /\ d.tdefs[con[1]].c1 = con[2]
  <2>1. PICK k \in DOMAIN legs : con = <<legs[k] \div 2, Other(legs[k] \div 2)>>
    BY <1>9, <1>10 DEF Range
  <2> DEFINE i == legs[k] \div 2
  <2>2. i \in Kept(d) /\ (d.tdefs[i].c1 = n \/ d.tdefs[i].c2 = n)
    BY <1>3, <1>7
  <2> HIDE DEF i
  <2>3. con[1] = i /\ con[2] = Other(i)
    BY <2>1 DEF i
  <2> QED BY <1>5, <2>2, <2>3
<1>12. ASSUME NEW i \in Kept(d), NEW l \in L, l \div 2 = i
       PROVE  <<i, Other(i)>> \in Range(sibs)
  <2>1. PICK k \in DOMAIN legs : legs[k] = l
    BY <1>1
  <2>2. sibs[k] = <<i, Other(i)>> /\ k \in DOMAIN sibs
    BY <1>9, <1>10, <1>12, <2>1
  <2> QED BY <2>2 DEF Range
<1>13. ASSUME NEW i \in Kept(d)
       PROVE  /\ d.tdefs[i].c1 = n => <<i, d.tdefs[i].c2>> \in Range(sibs)
              /\ d.tdefs[i].c2 = n => <<i, d.tdefs[i].c1>> \in Range(sibs)
  <2>1. CASE d.tdefs[i].c1 = n
    <3>1. <<i, Other(i)>> \in Range(sibs)
      BY <1>3, <1>4, <1>12, <2>1
    <3> QED BY <1>6, <2>1, <3>1
  <2>2. CASE d.tdefs[i].c2 = n
    <3>1. <<i, Other(i)>> \in Range(sibs)
      BY <1>3, <1>4, <1>12, <2>2
    <3> QED BY <1>6, <2>2, <3>1
  <2> QED BY <2>1, <2>2
<1> QED BY <1>8, <1>11, <1>13 DEF sibs

(* The two legs of a transistor between signals are joined to the same     *)
(* nodes, so they have one label.                                          *)
LEMMA ChannelAgrees ==
  ASSUME NEW d, WellFormed(d), NEW i \in Kept(d),
         {d.tdefs[i].c1, d.tdefs[i].c2} \cap {d.power, d.ground} = {}
  PROVE  Channel(d, d.tdefs[i].c1) = Channel(d, d.tdefs[i].c2)
<1> DEFINE signals   == 1 .. d.count \ {d.power, d.ground}
           legs(j)   == {d.tdefs[j].c1, d.tdefs[j].c2}
           closed(S) == \A j \in Kept(d) :
                          legs(j) \subseteq signals => (legs(j) \cap S = {} \/ legs(j) \subseteq S)
           joined(n) == {m \in signals : \A S \in SUBSET signals : n \in S /\ closed(S) => m \in S}
           a         == d.tdefs[i].c1
           b         == d.tdefs[i].c2
<1>1. a \in signals /\ b \in signals
  BY WellFormedIs
<1>2. \A S : closed(S) => (a \in S <=> b \in S)
  BY <1>1
<1>3. joined(a) = joined(b)
  <2> HIDE DEF closed, signals, a, b
  <2> QED BY <1>2
<1>4. ASSUME NEW n \in signals
      PROVE  Channel(d, n) = CHOOSE m \in joined(n) : \A k \in joined(n) : m <= k
  BY <1>4, Zenon DEF Channel
<1> HIDE DEF joined, signals
<1> QED BY <1>1, <1>3, <1>4

(* The assumption of Nmos is no more than what the constructor makes of a  *)
(* well-formed description, of any size: the record that Construct gives   *)
(* has nodes, transistors, connectors and channels as the simulator takes  *)
(* them (nmos.cc:293-314, 423-436).                                        *)
THEOREM ConstructsChips == ASSUME NEW d, WellFormed(d) PROVE ChipOK(Construct(d))
<1> DEFINE c == Construct(d)
<1>1. /\ c.count = d.count /\ c.power = d.power /\ c.ground = d.ground /\ c.pullups = d.pullups
      /\ c.trans = Kept(d)
      /\ c.gate = [i \in Kept(d) |-> d.tdefs[i].gate]
      /\ c.c1 = [i \in Kept(d) |-> d.tdefs[i].c1]
      /\ c.c2 = [i \in Kept(d) |-> d.tdefs[i].c2]
      /\ c.sibs = [n \in 1 .. d.count |-> SiblingConnectors(d, n)]
      /\ c.channel = [n \in 1 .. d.count |-> Channel(d, n)]
  BY DEF Construct
<1> HIDE DEF c
<1>2. \A i \in Kept(d) : /\ c.gate[i] = d.tdefs[i].gate
                         /\ c.c1[i] = d.tdefs[i].c1 /\ c.c2[i] = d.tdefs[i].c2
                         /\ c.c1[i] \in 1 .. d.count /\ c.c2[i] \in 1 .. d.count
  BY <1>1, WellFormedIs
<1>3. NodesOK(c)
  BY <1>1 DEF NodesOK, WellFormed
<1>4. TransistorsOK(c)
  BY <1>1, WellFormedIs DEF TransistorsOK
<1>5. ConnectorsOK(c)
  <2> DEFINE Sibs(n) == SiblingConnectors(d, n)
  <2>0. ASSUME NEW n \in 1 .. d.count
        PROVE  /\ Sibs(n) \in Seq(Kept(d) \X (1 .. d.count))
               /\ \A con \in Range(Sibs(n)) :
                    \/ d.tdefs[con[1]].c1 = n /\ d.tdefs[con[1]].c2 = con[2]
                    \/ d.tdefs[con[1]].c2 = n /\ d.tdefs[con[1]].c1 = con[2]
               /\ \A i \in Kept(d) :
                    /\ d.tdefs[i].c1 = n => <<i, d.tdefs[i].c2>> \in Range(Sibs(n))
                    /\ d.tdefs[i].c2 = n => <<i, d.tdefs[i].c1>> \in Range(Sibs(n))
    BY ConnectorsOf
  <2>1. /\ c.sibs = [n \in 1 .. d.count |-> Sibs(n)]
        /\ \A n \in 1 .. d.count : c.sibs[n] = Sibs(n)
    BY <1>1
  <2> HIDE DEF Sibs
  <2>2. c.sibs \in [1 .. d.count -> Seq(Kept(d) \X (1 .. d.count))]
    BY <2>0, <2>1
  <2>3. ASSUME NEW n \in 1 .. d.count, NEW con \in Range(c.sibs[n])
        PROVE  \/ c.c1[con[1]] = n /\ c.c2[con[1]] = con[2]
               \/ c.c2[con[1]] = n /\ c.c1[con[1]] = con[2]
    <3>1. con[1] \in Kept(d)
      <4>1. c.sibs[n] \in Seq(Kept(d) \X (1 .. d.count))
        BY <2>2
      <4>2. con \in Kept(d) \X (1 .. d.count)
        BY <4>1, <2>3, SeqIs DEF Range
      <4> QED BY <4>2
    <3>2. \/ d.tdefs[con[1]].c1 = n /\ d.tdefs[con[1]].c2 = con[2]
          \/ d.tdefs[con[1]].c2 = n /\ d.tdefs[con[1]].c1 = con[2]
      BY <2>0, <2>1, <2>3
    <3> QED BY <1>2, <3>1, <3>2
  <2>4. ASSUME NEW t \in Kept(d)
        PROVE  /\ <<t, c.c2[t]>> \in Range(c.sibs[c.c1[t]])
               /\ <<t, c.c1[t]>> \in Range(c.sibs[c.c2[t]])
    <3>1. <<t, d.tdefs[t].c2>> \in Range(Sibs(d.tdefs[t].c1))
      BY <1>2, <2>0
    <3>2. <<t, d.tdefs[t].c1>> \in Range(Sibs(d.tdefs[t].c2))
      BY <1>2, <2>0
    <3> QED BY <1>2, <2>1, <3>1, <3>2
  <2> QED BY <1>1, <2>2, <2>3, <2>4 DEF ConnectorsOK
<1>6. FanOutOK(c)
  <2>1. \A n : {t \in c.trans : c.gate[t] = n} = {i \in Kept(d) : d.tdefs[i].gate = n}
    BY <1>1, <1>2
  <2> QED BY <1>1, <2>1 DEF FanOutOK, WellFormed
<1>7. ChannelsOK(c)
  <2> SUFFICES ASSUME NEW t \in Kept(d), {c.c1[t], c.c2[t]} \cap {d.power, d.ground} = {}
               PROVE  c.channel[c.c1[t]] = c.channel[c.c2[t]]
    BY <1>1 DEF ChannelsOK
  <2>1. Channel(d, c.c1[t]) = Channel(d, c.c2[t])
    BY <1>2, ChannelAgrees
  <2> QED BY <1>1, <1>2, <2>1
<1> QED BY <1>3, <1>4, <1>5, <1>6, <1>7 DEF ChipOK, c
=============================================================================
