-------------------------- MODULE TestbenchProofs --------------------------
(***************************************************************************)
(* The process does what its arguments ask for: proved for any machines,   *)
(* any words and any number of them.                                       *)
(***************************************************************************)
EXTENDS Testbench, KernalCodeProofs, FiniteSetTheorems, SequenceTheorems, WellFoundedInduction, TLAPS

-----------------------------------------------------------------------------
(* Least and greatest members. *)

LEMMA MinIs ==
  ASSUME NEW S \in SUBSET Nat, NEW m \in S, \A x \in S : m <= x
  PROVE  Min(S) = m
<1>1. Min(S) \in S /\ \A y \in S : Min(S) <= y
  BY DEF Min
<1>2. Min(S) \in Nat /\ m \in Nat
  BY <1>1
<1>3. Min(S) <= m /\ m <= Min(S)
  BY <1>1
<1> QED
  BY <1>2, <1>3

LEMMA MaxIs ==
  ASSUME NEW S \in SUBSET Nat, NEW m \in S, \A x \in S : x <= m
  PROVE  Max(S) = m
<1>1. Max(S) \in S /\ \A y \in S : y <= Max(S)
  BY DEF Max
<1>2. Max(S) \in Nat /\ m \in Nat
  BY <1>1
<1>3. Max(S) <= m /\ m <= Max(S)
  BY <1>1
<1> QED
  BY <1>2, <1>3

LEMMA MinIn ==
  ASSUME NEW S \in SUBSET Nat, S # {}
  PROVE  Min(S) \in S
<1>1. PICK n \in S : \A k \in S : <<k, n>> \notin OpToRel(<, Nat)
  BY NatLessThanWellFounded, WFMin
<1>2. \A k \in S : n <= k
  <2> SUFFICES ASSUME NEW k \in S, k < n PROVE FALSE
    OBVIOUS
  <2>1. <<k, n>> \in Nat \X Nat /\ <<k, n>>[1] < <<k, n>>[2]
    OBVIOUS
  <2> QED
    BY <1>1, <2>1 DEF OpToRel
<1> QED
  BY <1>2 DEF Min

-----------------------------------------------------------------------------
(* Which arguments are paths. *)

TracesBefore(ws, p) == {k \in 1 .. p - 1 : \A j \in k .. p - 1 : ws[j] = Trace}

LEMMA AfterOther ==
  ASSUME NEW ws, NEW p \in Nat \ {0}, ws[p] # Trace
  PROVE  ~IsPath(ws, p + 1)
<1>1. TracesBefore(ws, p + 1) = {}
  BY DEF TracesBefore
<1>2. Cardinality({}) = 0
  BY FS_EmptySet
<1> QED
  BY <1>1, <1>2 DEF IsPath, TracesBefore

LEMMA AfterTrace ==
  ASSUME NEW ws, NEW p \in Nat \ {0}, ws[p] = Trace
  PROVE  IsPath(ws, p + 1) <=> ~IsPath(ws, p)
<1> DEFINE before == TracesBefore(ws, p)
<1>1. TracesBefore(ws, p + 1) = before \cup {p}
  BY DEF TracesBefore
<1>2. p \notin before
  BY DEF TracesBefore
<1>3. IsFiniteSet(before)
  <2>1. IsFiniteSet(1 .. p - 1)
    BY FS_Interval
  <2>2. before \subseteq 1 .. p - 1
    BY DEF TracesBefore
  <2> HIDE DEF before
  <2> QED
    BY <2>1, <2>2, FS_Subset
<1>4. Cardinality(before) \in Nat /\ Cardinality(before \cup {p}) = Cardinality(before) + 1
  <2> HIDE DEF before
  <2> QED
    BY <1>2, <1>3, FS_AddElement, FS_CardinalityType
<1>5. /\ IsPath(ws, p) <=> Cardinality(before) % 2 = 1
      /\ IsPath(ws, p + 1) <=> (Cardinality(before) + 1) % 2 = 1
  <2>1. IsPath(ws, p + 1) <=> Cardinality(TracesBefore(ws, p + 1)) % 2 = 1
    BY DEF IsPath, TracesBefore
  <2>2. IsPath(ws, p) <=> Cardinality(TracesBefore(ws, p)) % 2 = 1
    BY DEF IsPath, TracesBefore
  <2> QED
    BY <1>1, <1>4, <2>1, <2>2
<1> HIDE DEF before
<1> QED
  BY <1>4, <1>5

-----------------------------------------------------------------------------
(* How the arguments up to the n-th have been followed. *)

Done(ws, n) == {p \in Options(ws) : p <= n}

NoneStops(ws, n, made, broken) ==
  \A p \in Done(ws, n) : StopsWith(ws, p, made, broken) = GoesOn

ChosenBy(ws, n, made, name) ==
  \/ name = "none" /\ \A p \in Done(ws, n) : ws[p] \notin made
  \/ \E p \in Done(ws, n) :
       /\ ws[p] \in made /\ name = ws[p]
       /\ \A q \in Done(ws, n) : ws[q] \in made => q <= p

TracedBy(ws, n, path) ==
  \/ path = "none" /\ \A p \in Done(ws, n) : ws[p] # Trace
  \/ \E p \in Done(ws, n) :
       /\ ws[p] = Trace /\ path = ws[p + 1]
       /\ \A q \in Done(ws, n) : ws[q] = Trace => q <= p

StatsBy(ws, n, wanted) ==
  wanted \in BOOLEAN /\ (wanted <=> \E p \in Done(ws, n) : ws[p] = Stats)

Registered == {registry.names[i] : i \in DOMAIN registry.names}

FreshOK ==
  fresh # "none" =>
    /\ at = "arguments" /\ words # <<>>
    /\ fresh = Head(words) /\ fresh \in Registered \ failing

(* ws are all the arguments and known all the machines. *)
Follows(ws, n, known) ==
  /\ n <= Len(ws) /\ ~IsPath(ws, n + 1)
  /\ words \in Seq(Words) /\ Len(words) = Len(ws) - n
  /\ \A k \in 1 .. Len(words) : words[k] = ws[n + k]
  /\ known = linked \cup Registered /\ failing \subseteq known
  /\ asked = Asks(ws, known, failing)
  /\ NoneStops(ws, n, known \ failing, failing)
  /\ ChosenBy(ws, n, known \ failing, chosen)
  /\ TracedBy(ws, n, traceFile)
  /\ StatsBy(ws, n, stats)
  /\ at # "static" => linked = {} /\ known # {}
  /\ at = "run" => n = Len(ws) /\ chosen # "none"

LTypeOK ==
  /\ linked \subseteq Names
  /\ registry \in [made : BOOLEAN, names : Seq(Names), constructors : Seq(Names)]
  /\ registry.constructors = registry.names
  /\ chosen \in Names \cup {"none"}
  /\ at \in {"static", "arguments", "run", "exit", "done"}

LInv ==
  /\ LTypeOK
  /\ at \in {"static", "arguments", "run"} =>
       \E ws \in Seq(Words), n \in Nat, known \in SUBSET Names : Follows(ws, n, known)
  /\ at \in {"exit", "done"} => code = asked.code

-----------------------------------------------------------------------------
(* An argument more. *)

LEMMA DoneNext ==
  ASSUME NEW ws \in Seq(Words), NEW n \in Nat, n < Len(ws), ~IsPath(ws, n + 1),
         NEW m \in Nat, m <= Len(ws),
         \/ m = n + 1 /\ ws[n + 1] # Trace
         \/ m = n + 2 /\ ws[n + 1] = Trace
  PROVE  /\ Done(ws, m) = Done(ws, n) \cup {n + 1}
         /\ ~IsPath(ws, m + 1)
         /\ n + 1 \in Options(ws)
<1>1. n + 1 \in Options(ws)
  BY DEF Options
<1>2. CASE m = n + 1 /\ ws[n + 1] # Trace
  <2>1. ~IsPath(ws, m + 1)
    BY <1>2, AfterOther
  <2> QED
    BY <1>1, <1>2, <2>1 DEF Done, Options
<1>3. CASE m = n + 2 /\ ws[n + 1] = Trace
  <2>1. IsPath(ws, n + 2)
    BY <1>3, AfterTrace
  <2>2. ~IsPath(ws, m + 1)
    <3>1. CASE ws[n + 2] = Trace
      <4>1. IsPath(ws, (n + 2) + 1) <=> ~IsPath(ws, n + 2)
        BY <3>1, AfterTrace
      <4> QED
        BY <1>3, <2>1, <4>1
    <3>2. CASE ws[n + 2] # Trace
      <4>1. ~IsPath(ws, (n + 2) + 1)
        BY <3>2, AfterOther
      <4> QED
        BY <1>3, <4>1
    <3> QED
      BY <3>1, <3>2
  <2>3. \A p \in Nat : p <= m <=> p <= n \/ p = n + 1 \/ p = n + 2
    BY <1>3
  <2>4. n + 2 \notin Options(ws) /\ Options(ws) \subseteq Nat
    BY <2>1 DEF Options
  <2> QED
    BY <1>1, <1>3, <2>2, <2>3, <2>4 DEF Done
<1> QED
  BY <1>2, <1>3

(* The process goes on after it has looked at n + 1. *)
LEMMA Consume ==
  ASSUME NEW ws \in Seq(Words), NEW n \in Nat, NEW known, Follows(ws, n, known),
         at = "arguments", at' = at, n < Len(ws),
         NEW m \in Nat, m <= Len(ws),
         \/ m = n + 1 /\ ws[n + 1] # Trace
         \/ m = n + 2 /\ ws[n + 1] = Trace,
         words' = SubSeq(words, (m - n) + 1, Len(words)),
         UNCHANGED <<linked, registry, failing, asked>>,
         StopsWith(ws, n + 1, known \ failing, failing) = GoesOn,
         ChosenBy(ws, m, known \ failing, chosen'),
         TracedBy(ws, m, traceFile'),
         StatsBy(ws, m, stats')
  PROVE  Follows(ws, m, known)'
<1>1. Done(ws, m) = Done(ws, n) \cup {n + 1} /\ ~IsPath(ws, m + 1)
  BY DoneNext DEF Follows
<1>2. NoneStops(ws, m, known \ failing, failing)
  BY <1>1 DEF Follows, NoneStops
<1>3. /\ words' \in Seq(Words) /\ Len(words') = Len(ws) - m
      /\ \A k \in 1 .. Len(words') : words'[k] = ws[m + k]
  <2>1. /\ words \in Seq(Words) /\ Len(words) = Len(ws) - n
        /\ \A k \in 1 .. Len(words) : words[k] = ws[n + k]
    BY DEF Follows
  <2>2. (m - n) + 1 \in 1 .. Len(words) + 1
    <3>1. Len(ws) \in Nat /\ Len(words) \in Nat
      BY <2>1
    <3>2. m - n \in {1, 2}
      OBVIOUS
    <3>3. m - n <= Len(words)
      <4>1. Len(words) = Len(ws) - n
        BY <2>1
      <4> QED
        BY <3>1, <4>1
    <3> QED
      BY <3>1, <3>2, <3>3
  <2>3. /\ words' \in Seq(Words) /\ Len(words') = Len(words) - (m - n)
        /\ \A k \in 1 .. Len(words') : words'[k] = words[(m - n) + k]
    <3>0. PICK d \in Nat : d = m - n
      <4>1. m - n \in Nat
        OBVIOUS
      <4> QED
        BY <4>1
    <3>1. d = m - n /\ words' = SubSeq(words, d + 1, Len(words))
      BY <3>0
    <3>2. Len(words) \in Nat /\ d <= Len(words)
      BY <2>1, <2>2, <3>1
    <3>3. \A i \in d + 1 .. Len(words) : words[i] \in Words
      BY <2>1
    <3>4. /\ words' \in Seq(Words)
          /\ Len(words') = IF d + 1 <= Len(words) THEN (Len(words) - (d + 1)) + 1 ELSE 0
          /\ \A i \in 1 .. (Len(words) - (d + 1)) + 1 : words'[i] = words[((d + 1) + i) - 1]
      BY <3>1, <3>2, <3>3, SubSeqProperties
    <3>5. Len(words') = Len(words) - d
      <4>1. CASE d + 1 <= Len(words)
        <5>1. Len(words') = (Len(words) - (d + 1)) + 1
          BY <3>4, <4>1
        <5> QED
          BY <3>2, <5>1
      <4>2. CASE d = Len(words)
        <5>1. ~(d + 1 <= Len(words))
          BY <3>2, <4>2
        <5>2. Len(words') = 0
          BY <3>4, <5>1
        <5> QED
          BY <3>2, <4>2, <5>2
      <4> QED
        BY <3>2, <4>1, <4>2
    <3>6. \A k \in 1 .. Len(words') : words'[k] = words[d + k]
      <4> SUFFICES ASSUME NEW k \in 1 .. Len(words') PROVE words'[k] = words[d + k]
        OBVIOUS
      <4>1. k \in 1 .. (Len(words) - (d + 1)) + 1 /\ ((d + 1) + k) - 1 = d + k
        BY <3>2, <3>5
      <4> QED
        BY <3>4, <4>1
    <3> QED
      BY <3>1, <3>4, <3>5, <3>6
  <2> QED
    BY <2>1, <2>3
<1>4. Registered' = Registered
  BY DEF Registered
<1> QED
  BY <1>1, <1>2, <1>3, <1>4 DEF Follows

(* The process exits at argument n + 1. *)
LEMMA StopsAt ==
  ASSUME NEW ws \in Seq(Words), NEW n \in Nat, NEW known, Follows(ws, n, known),
         at = "arguments", n < Len(ws),
         StopsWith(ws, n + 1, known \ failing, failing) # GoesOn
  PROVE  /\ asked.code = StopsWith(ws, n + 1, known \ failing, failing)
         /\ asked.machine = "none"
<1> DEFINE made == known \ failing
           stops == {p \in Options(ws) : StopsWith(ws, p, made, failing) # GoesOn}
<1>1. n + 1 \in stops
  BY DEF Options, Follows
<1>2. stops \subseteq Nat
  BY DEF Options
<1>3. \A p \in stops : n + 1 <= p
  <2> SUFFICES ASSUME NEW p \in stops, ~(n + 1 <= p) PROVE FALSE
    OBVIOUS
  <2>1. p \in Options(ws) /\ p \in Nat
    BY <1>2
  <2>2. p \in Done(ws, n)
    BY <2>1 DEF Done
  <2> QED
    BY <2>2 DEF Follows, NoneStops
<1>4. Min(stops) = n + 1
  <2> HIDE DEF stops
  <2> QED
    BY <1>1, <1>2, <1>3, MinIs
<1>5. asked = [code |-> StopsWith(ws, Min(stops), made, failing), machine |-> "none",
               trace |-> "none", stats |-> FALSE]
  <2>1. asked = Asks(ws, known, failing) /\ known # {} /\ stops # {}
    BY <1>1 DEF Follows
  <2> QED
    BY <2>1 DEF Asks
<1> QED
  BY <1>4, <1>5

(* There is no argument left. *)
LEMMA AskedAll ==
  ASSUME NEW ws \in Seq(Words), NEW n \in Nat, NEW known \in SUBSET Names,
         Follows(ws, n, known), n = Len(ws), known # {}
  PROVE  asked = IF chosen = "none"
                 THEN [code |-> 2, machine |-> "none", trace |-> "none", stats |-> FALSE]
                 ELSE [code |-> 0, machine |-> chosen, trace |-> traceFile, stats |-> stats]
<1> DEFINE made == known \ failing
           stops == {p \in Options(ws) : StopsWith(ws, p, made, failing) # GoesOn}
           picks == {p \in Options(ws) : ws[p] \in made}
           traces == {p \in Options(ws) : ws[p] = Trace}
<1>1. Done(ws, n) = Options(ws) /\ Options(ws) \subseteq Nat
  BY DEF Done, Options
<1>2. stops = {}
  BY <1>1 DEF Follows, NoneStops
<1>3. asked = IF picks = {}
              THEN [code |-> 2, machine |-> "none", trace |-> "none", stats |-> FALSE]
              ELSE [code |-> 0, machine |-> ws[Max(picks)],
                    trace |-> IF traces = {} THEN "none" ELSE ws[Max(traces) + 1],
                    stats |-> \E p \in Options(ws) : ws[p] = Stats]
  <2>1. asked = Asks(ws, known, failing)
    BY DEF Follows
  <2> QED
    BY <1>2, <2>1 DEF Asks
<1>4. /\ picks = {} => chosen = "none"
      /\ picks # {} => chosen = ws[Max(picks)] /\ chosen # "none"
  <2>1. ChosenBy(ws, n, made, chosen) /\ "none" \notin made
    BY CommandLineAssumption DEF Follows
  <2>2. CASE \A p \in Options(ws) : ws[p] \notin made
    BY <1>1, <2>1, <2>2 DEF ChosenBy
  <2>3. CASE \E p \in Options(ws) : ws[p] \in made
    <3>1. PICK p \in Options(ws) :
            /\ ws[p] \in made /\ chosen = ws[p]
            /\ \A q \in Options(ws) : ws[q] \in made => q <= p
      BY <1>1, <2>1, <2>3 DEF ChosenBy
    <3>2. p \in picks /\ picks \in SUBSET Nat /\ \A q \in picks : q <= p
      BY <1>1, <3>1
    <3>3. Max(picks) = p
      <4> HIDE DEF picks
      <4> QED
        BY <3>2, MaxIs
    <3> QED
      BY <2>1, <3>1, <3>2, <3>3
  <2> QED
    BY <2>2, <2>3
<1>5. traceFile = IF traces = {} THEN "none" ELSE ws[Max(traces) + 1]
  <2>1. TracedBy(ws, n, traceFile)
    BY DEF Follows
  <2>2. CASE \A p \in Options(ws) : ws[p] # Trace
    BY <1>1, <2>1, <2>2 DEF TracedBy
  <2>3. CASE \E p \in Options(ws) : ws[p] = Trace
    <3>1. PICK p \in Options(ws) :
            /\ ws[p] = Trace /\ traceFile = ws[p + 1]
            /\ \A q \in Options(ws) : ws[q] = Trace => q <= p
      BY <1>1, <2>1, <2>3 DEF TracedBy
    <3>2. p \in traces /\ traces \in SUBSET Nat /\ \A q \in traces : q <= p
      BY <1>1, <3>1
    <3>3. Max(traces) = p
      <4> HIDE DEF traces
      <4> QED
        BY <3>2, MaxIs
    <3> QED
      BY <3>1, <3>2, <3>3
  <2> QED
    BY <2>2, <2>3
<1>6. stats = \E p \in Options(ws) : ws[p] = Stats
  BY <1>1 DEF Follows, StatsBy
<1> QED
  <2> HIDE DEF picks, traces
  <2> QED
    BY <1>3, <1>4, <1>5, <1>6

-----------------------------------------------------------------------------
(* The invariant. *)

LEMMA LInitInv == LInit => LInv
<1> SUFFICES ASSUME LInit PROVE LInv
  OBVIOUS
<1>1. PICK k \in 0 .. MaxWords : words \in [1 .. k -> Words]
  BY DEF LInit
<1>2. words \in Seq(Words) /\ Len(words) = k
  BY <1>1
<1>3. LTypeOK /\ Registered = {}
  BY DEF LInit, LTypeOK, Registered
<1>4. ~IsPath(words, 0 + 1) /\ Done(words, 0) = {}
  <2>1. TracesBefore(words, 1) = {}
    BY DEF TracesBefore
  <2>2. ~IsPath(words, 1)
    BY <2>1, FS_EmptySet DEF IsPath, TracesBefore
  <2> QED
    BY <1>2, <2>2 DEF Done, Options
<1>5. Follows(words, 0, linked)
  <2>1. /\ NoneStops(words, 0, linked \ failing, failing)
        /\ ChosenBy(words, 0, linked \ failing, chosen)
        /\ TracedBy(words, 0, traceFile)
        /\ StatsBy(words, 0, stats)
    BY <1>4 DEF LInit, NoneStops, ChosenBy, TracedBy, StatsBy
  <2>2. 0 <= Len(words) /\ Len(words) = Len(words) - 0 /\ \A i \in 1 .. Len(words) : words[i] = words[0 + i]
    BY <1>2
  <2>3. at = "static" /\ failing \subseteq linked /\ asked = Asks(words, linked, failing)
    BY DEF LInit
  <2> QED
    BY <1>2, <1>3, <1>4, <2>1, <2>2, <2>3 DEF Follows
<1> QED
  BY <1>2, <1>3, <1>5 DEF LInit, LInv

(* The next argument is one of the arguments. *)
LEMMA NextArgument ==
  ASSUME NEW ws \in Seq(Words), NEW n \in Nat, NEW known, Follows(ws, n, known),
         words # <<>>
  PROVE  /\ n < Len(ws) /\ Head(words) = ws[n + 1]
         /\ Len(words) = 1 <=> n + 1 = Len(ws)
         /\ Len(words) > 1 => n + 2 <= Len(ws) /\ words[2] = ws[n + 2]
<1>1. /\ words \in Seq(Words) /\ Len(words) = Len(ws) - n
      /\ \A k \in 1 .. Len(words) : words[k] = ws[n + k]
  BY DEF Follows
<1>2. Len(words) \in Nat \ {0} /\ Head(words) = words[1]
  BY <1>1
<1> QED
  BY <1>1, <1>2

(* The registry knows a machine by its name. *)
LEMMA Finds ==
  ASSUME LTypeOK, NEW name
  PROVE  /\ Is(name) <=> name \in Registered
         /\ name \in Registered => Constructor(name) = name
<1> DEFINE places == {i \in DOMAIN registry.names : registry.names[i] = name}
<1>1. registry.names \in Seq(Names) /\ registry.constructors = registry.names
  BY DEF LTypeOK
<1>2. places \subseteq Nat
  BY <1>1
<1>3. name \in Registered => places # {}
  BY DEF Registered
<1>4. places # {} => Min(places) \in places
  <2> HIDE DEF places
  <2> QED
    BY <1>2, MinIn
<1> QED
  BY <1>1, <1>3, <1>4 DEF Is, Constructor, Registered

(* The exit code is right, and no machine was to run. *)
LEMMA ExitStep ==
  ASSUME LInv, at = "arguments", NEW ws \in Seq(Words), NEW n \in Nat, NEW known,
         Follows(ws, n, known), n < Len(ws), NEW k \in {0, 1, 2},
         StopsWith(ws, n + 1, known \ failing, failing) = k,
         Exit(k), UNCHANGED <<linked, registry, failing, asked>>
  PROVE  LInv' /\ asked'.machine = "none"
<1>1. asked.code = k /\ asked.machine = "none"
  BY StopsAt DEF GoesOn
<1>2. LTypeOK'
  BY DEF LInv, LTypeOK, Exit
<1> QED
  BY <1>1, <1>2 DEF LInv, Exit

(* An option that keeps the process going. *)
LEMMA GoOnStep ==
  ASSUME LInv, at = "arguments", NEW ws \in Seq(Words), NEW n \in Nat,
         NEW known \in SUBSET Names,
         Follows(ws, n, known), n < Len(ws),
         NEW m \in Nat, m <= Len(ws), GoOn(m - n),
         \/ m = n + 1 /\ ws[n + 1] # Trace
         \/ m = n + 2 /\ ws[n + 1] = Trace,
         UNCHANGED <<linked, registry, failing, asked>>,
         chosen' \in Names \cup {"none"},
         StopsWith(ws, n + 1, known \ failing, failing) = GoesOn,
         ChosenBy(ws, m, known \ failing, chosen'),
         TracedBy(ws, m, traceFile'),
         StatsBy(ws, m, stats')
  PROVE  LInv' /\ at' = "arguments"
<1>1. at' = at /\ words' = SubSeq(words, (m - n) + 1, Len(words))
  BY DEF GoOn
<1>2. Follows(ws, m, known)'
  BY <1>1, Consume
<1>3. LTypeOK'
  BY <1>1 DEF LInv, LTypeOK
<1> QED
  BY <1>1, <1>2, <1>3 DEF LInv

LEMMA SameInv ==
  ASSUME LInv, UNCHANGED <<linked, registry, failing, words, at, chosen, traceFile, stats, code, asked>>
  PROVE  LInv'
<1>1. LTypeOK' /\ Registered' = Registered
  BY DEF LInv, LTypeOK, Registered
<1>2. \A ws, n, known : Follows(ws, n, known)' <=> Follows(ws, n, known)
  BY <1>1 DEF Follows
<1> QED
  BY <1>1, <1>2 DEF LInv

(* What each option does. *)
LEMMA Stops ==
  ASSUME NEW ws, NEW p \in Nat, Len(ws) \in Nat, NEW made, NEW broken \in SUBSET Names
  PROVE  LET picked == \E q \in Options(ws) : q < p /\ ws[q] \in made
             none   == p = Len(ws) \/ (p < Len(ws) /\ ws[p + 1] = "")
             cannot == p < Len(ws) /\ ws[p + 1] = "unwritable"
         IN /\ ws[p] = Help => StopsWith(ws, p, made, broken) = 0
            /\ ws[p] = Trace /\ none => StopsWith(ws, p, made, broken) = 2
            /\ ws[p] = Trace /\ cannot => StopsWith(ws, p, made, broken) = 1
            /\ ws[p] = Trace /\ ~none /\ ~cannot => StopsWith(ws, p, made, broken) = GoesOn
            /\ ws[p] = Stats => StopsWith(ws, p, made, broken) = GoesOn
            /\ ws[p] \notin {Help, Trace} =>
                  StopsWith(ws, p, made, broken) =
                  IF ws[p] \in broken /\ ~picked THEN 1 ELSE GoesOn
<1>1. Help \notin broken /\ Trace \notin broken /\ Stats \notin broken
  BY CommandLineAssumption
<1>2. Help # Trace /\ Help # Stats /\ Trace # Stats
  BY DEF Help, Trace, Stats
<1>3. "" # "unwritable"
  OBVIOUS
<1> DEFINE picked == \E q \in Options(ws) : q < p /\ ws[q] \in made
           none   == p = Len(ws) \/ (p < Len(ws) /\ ws[p + 1] = "")
           cannot == p < Len(ws) /\ ws[p + 1] = "unwritable"
<1>4. none /\ cannot => FALSE
  BY <1>3
<1>5. StopsWith(ws, p, made, broken) =
        CASE ws[p] = Help -> 0
          [] ws[p] = Trace /\ none -> 2
          [] ws[p] = Trace /\ cannot -> 1
          [] ws[p] \in broken /\ ~picked -> 1
          [] OTHER -> GoesOn
  BY DEF StopsWith
<1> HIDE DEF picked, none, cannot
<1>6. /\ ws[p] = Help => StopsWith(ws, p, made, broken) = 0
      /\ ws[p] = Trace /\ none => StopsWith(ws, p, made, broken) = 2
      /\ ws[p] = Trace /\ cannot => StopsWith(ws, p, made, broken) = 1
      /\ ws[p] = Trace /\ ~none /\ ~cannot => StopsWith(ws, p, made, broken) = GoesOn
      /\ ws[p] = Stats => StopsWith(ws, p, made, broken) = GoesOn
      /\ ws[p] \notin {Help, Trace} =>
            StopsWith(ws, p, made, broken) = IF ws[p] \in broken /\ ~picked THEN 1 ELSE GoesOn
  BY <1>1, <1>2, <1>4, <1>5
<1> QED
  BY <1>6 DEF picked, none, cannot

LEMMA ArgumentStep ==
  ASSUME LInv, FreshOK, ProcessArguments
  PROVE  LInv' /\ (at' = "exit" => asked'.machine = "none")
<1>0. at = "arguments" /\ UNCHANGED <<linked, registry, failing, asked>>
  BY DEF ProcessArguments, AskHelp, AskStats, TraceNoPath, TraceCannot, TraceTo,
         CreateMachine, ResetMachine, PickKeeps, PickFails, PickUnknown, NoMachine, Pick, Argument,
         FreshOK
<1>1. PICK ws \in Seq(Words), n \in Nat, known \in SUBSET Names : Follows(ws, n, known)
  BY <1>0 DEF LInv
<1> DEFINE made == known \ failing
<1>2. LTypeOK /\ known = Registered /\ failing \subseteq known /\ known # {}
  BY <1>0, <1>1 DEF LInv, Follows
<1>3. /\ ChosenBy(ws, n, made, chosen) /\ TracedBy(ws, n, traceFile) /\ StatsBy(ws, n, stats)
      /\ ~IsPath(ws, n + 1)
  BY <1>1 DEF Follows
<1>4. {Help, Trace, Stats, "", "none"} \cap Names = {}
  BY CommandLineAssumption
<1>5. CASE NoMachine
  <2>1. words = <<>> /\ chosen = "none" /\ Exit(2)
    BY <1>5 DEF NoMachine
  <2>2. n = Len(ws)
    BY <1>1, <2>1 DEF Follows
  <2>3. asked.code = 2 /\ asked.machine = "none"
    BY <1>1, <1>2, <2>1, <2>2, AskedAll
  <2>4. LTypeOK'
    BY <1>0, <2>1 DEF LInv, LTypeOK, Exit
  <2> QED
    BY <1>0, <2>1, <2>3, <2>4 DEF LInv, Exit
<1>6. CASE words # <<>>
  <2>1. /\ n < Len(ws) /\ Head(words) = ws[n + 1]
        /\ Len(words) = 1 <=> n + 1 = Len(ws)
        /\ Len(words) > 1 => n + 2 <= Len(ws) /\ words[2] = ws[n + 2]
    BY <1>1, <1>6, NextArgument
  <2>0. n + 1 \in Nat /\ Len(ws) \in Nat /\ failing \in SUBSET Names
    BY <1>2
  <2>s. LET none   == n + 1 = Len(ws) \/ (n + 1 < Len(ws) /\ ws[n + 2] = "")
             cannot == n + 1 < Len(ws) /\ ws[n + 2] = "unwritable"
         IN  /\ ws[n + 1] = Trace /\ none => StopsWith(ws, n + 1, made, failing) = 2
             /\ ws[n + 1] = Trace /\ cannot => StopsWith(ws, n + 1, made, failing) = 1
             /\ ws[n + 1] = Trace /\ ~none /\ ~cannot =>
                   StopsWith(ws, n + 1, made, failing) = GoesOn
    <3>1. PICK p \in Nat : p = n + 1 /\ p + 1 = n + 2
      BY <2>0
    <3> HIDE DEF made
    <3>2. LET none   == p = Len(ws) \/ (p < Len(ws) /\ ws[p + 1] = "")
              cannot == p < Len(ws) /\ ws[p + 1] = "unwritable"
          IN  /\ ws[p] = Trace /\ none => StopsWith(ws, p, made, failing) = 2
              /\ ws[p] = Trace /\ cannot => StopsWith(ws, p, made, failing) = 1
              /\ ws[p] = Trace /\ ~none /\ ~cannot => StopsWith(ws, p, made, failing) = GoesOn
      BY <2>0, Stops
    <3> QED
      BY <3>1, <3>2
  <2>2. n + 1 \in Nat /\ n + 1 <= Len(ws) /\ (n + 1) - n = 1
    BY <2>1
  <2>3. ws[n + 1] # Trace => Done(ws, n + 1) = Done(ws, n) \cup {n + 1}
    BY <1>3, <2>1, <2>2, DoneNext
  (* An option that picks no machine. *)
  <2>4. ASSUME ws[n + 1] # Trace, ws[n + 1] \notin made
        PROVE  ChosenBy(ws, n + 1, made, chosen) /\ TracedBy(ws, n + 1, traceFile)
    BY <1>3, <2>3, <2>4 DEF ChosenBy, TracedBy
  <2>5. ASSUME ws[n + 1] # Trace, ws[n + 1] # Stats PROVE StatsBy(ws, n + 1, stats)
    BY <1>3, <2>3, <2>5 DEF StatsBy
  <2>6. CASE AskHelp
    <3>1. Exit(0) /\ StopsWith(ws, n + 1, made, failing) = 0
      BY <2>0, <2>1, <2>6, Stops DEF AskHelp, Argument
    <3> QED
      BY <1>0, <1>1, <2>1, <3>1, ExitStep
  <2>7. CASE AskStats
    <3>1. /\ ws[n + 1] = Stats /\ ws[n + 1] # Trace /\ GoOn(1) /\ stats' = TRUE
          /\ UNCHANGED <<chosen, alive, traceFile>>
      BY <2>1, <2>7 DEF AskStats, Argument, Stats, Trace
    <3>2. ws[n + 1] \notin Names
      BY <1>4, <3>1
    <3>3. StopsWith(ws, n + 1, made, failing) = GoesOn
      BY <2>0, <3>1, Stops
    <3>4. StatsBy(ws, n + 1, stats')
      BY <2>3, <3>1 DEF StatsBy
    <3>5. chosen' \in Names \cup {"none"}
      BY <1>2, <3>1 DEF LTypeOK
    <3> QED
      BY <1>0, <1>1, <2>1, <2>2, <2>4, <3>1, <3>2, <3>3, <3>4, <3>5, GoOnStep
  <2>8. CASE TraceNoPath
    <3>1. Exit(2) /\ ws[n + 1] = Trace /\ (n + 1 = Len(ws) \/ (n + 1 < Len(ws) /\ ws[n + 2] = ""))
      <4>1. Len(words) > 1 => n + 1 < Len(ws)
        BY <2>0, <2>1
      <4> QED
        BY <2>1, <2>8, <4>1 DEF TraceNoPath, Argument
    <3>2. StopsWith(ws, n + 1, made, failing) = 2
      BY <2>s, <3>1
    <3> QED
      BY <1>0, <1>1, <2>1, <3>1, <3>2, ExitStep
  <2>9. CASE TraceCannot
    <3>1. Exit(1) /\ ws[n + 1] = Trace /\ n + 1 < Len(ws) /\ ws[n + 2] = "unwritable"
      <4>1. Len(words) > 1 => n + 1 < Len(ws)
        BY <2>0, <2>1
      <4> QED
        BY <2>1, <2>9, <4>1 DEF TraceCannot, Argument
    <3>2. StopsWith(ws, n + 1, made, failing) = 1
      BY <2>s, <3>1
    <3> QED
      BY <1>0, <1>1, <2>1, <3>1, <3>2, ExitStep
  <2>10. ASSUME NEW path, TraceTo(path)
         PROVE  LInv' /\ at' = "arguments"
    <3>1. /\ ws[n + 1] = Trace /\ n + 2 <= Len(ws) /\ ws[n + 2] = path
          /\ path \notin {"", "unwritable"}
          /\ traceFile' = path /\ GoOn(2) /\ UNCHANGED <<chosen, alive, stats>>
      BY <2>1, <2>10 DEF TraceTo, Argument
    <3>2. ws[n + 1] \notin Names /\ ws[n + 1] # Stats
      BY <1>4, <3>1 DEF Trace, Stats
    <3>3. StopsWith(ws, n + 1, made, failing) = GoesOn
      <4>1. n + 1 # Len(ws)
        <5>1. n + 2 <= Len(ws)
          BY <3>1
        <5> QED
          BY <2>0, <5>1
      <4>2. ~(n + 1 = Len(ws) \/ (n + 1 < Len(ws) /\ ws[n + 2] = "")) /\ ws[n + 2] # "unwritable"
        BY <3>1, <4>1
      <4> QED
        BY <2>s, <3>1, <4>2
    <3>4. n + 2 \in Nat /\ (n + 2) - n = 2 /\ (n + 1) + 1 = n + 2
      OBVIOUS
    <3>5. Done(ws, n + 2) = Done(ws, n) \cup {n + 1}
      <4>1. n + 2 = n + 2 /\ ws[n + 1] = Trace
        BY <3>1
      <4> QED
        BY <1>3, <2>1, <3>1, <3>4, <4>1, DoneNext
    <3>6. \A p \in Done(ws, n) : p <= n + 1
      BY DEF Done, Options
    <3>7. ChosenBy(ws, n + 2, made, chosen') /\ StatsBy(ws, n + 2, stats')
      <4>1. ws[n + 1] \notin made
        BY <3>2
      <4> QED
        BY <1>3, <3>1, <3>2, <3>5, <4>1 DEF ChosenBy, StatsBy
    <3>9. TracedBy(ws, n + 2, traceFile')
      <4>1. n + 1 \in Done(ws, n + 2) /\ traceFile' = ws[(n + 1) + 1]
        <5>1. ws[(n + 1) + 1] = ws[n + 2]
          BY <3>4
        <5> QED
          BY <3>1, <3>5, <5>1
      <4>2. \A q \in Done(ws, n + 2) : q <= n + 1
        BY <2>0, <3>5, <3>6
      <4> QED
        BY <3>1, <4>1, <4>2 DEF TracedBy
    <3>8. chosen' \in Names \cup {"none"}
      BY <1>2, <3>1 DEF LTypeOK
    <3> QED
      BY <1>0, <1>1, <2>1, <3>1, <3>3, <3>4, <3>7, <3>8, <3>9, GoOnStep
  <2>11. ASSUME NEW name, Pick(name)
         PROVE  /\ name = ws[n + 1] /\ ws[n + 1] # Trace /\ ws[n + 1] # Stats
                /\ ws[n + 1] # Help /\ (Is(name) <=> name \in known)
                /\ name \in known => Constructor(name) = name
    BY <1>2, <2>1, <2>11, Finds DEF Pick, Argument
  <2>16. ASSUME NEW name, CreateMachine(name)
         PROVE  LInv' /\ at' = "arguments"
    <3>1. UNCHANGED <<linked, registry, failing, words, at, chosen, traceFile, stats, code, asked>>
      BY <1>0, <2>16 DEF CreateMachine
    <3> QED
      BY <1>0, <3>1, SameInv
  <2>12. CASE ResetMachine
    <3> DEFINE name == fresh
    <3>0. /\ fresh = Head(words) /\ fresh \in Registered \ failing
          /\ chosen' = fresh /\ GoOn(1) /\ UNCHANGED <<traceFile, stats>>
      BY <2>12 DEF ResetMachine, FreshOK
    <3>1. /\ name \in made /\ chosen' = name /\ name \in Names
          /\ GoOn(1) /\ UNCHANGED <<traceFile, stats>>
      BY <1>2, <3>0
    <3>2. name = ws[n + 1] /\ ws[n + 1] # Trace /\ ws[n + 1] # Stats /\ ws[n + 1] # Help
      BY <1>4, <2>1, <3>0, <3>1
    <3> HIDE DEF name
    <3>3. StopsWith(ws, n + 1, made, failing) = GoesOn
      BY <1>2, <2>0, <3>1, <3>2, Stops
    <3>4. \A p \in Done(ws, n) : p <= n + 1
      BY DEF Done, Options
    <3>5. ChosenBy(ws, n + 1, made, chosen') /\ TracedBy(ws, n + 1, traceFile')
      BY <1>3, <2>2, <2>3, <3>1, <3>2, <3>4 DEF ChosenBy, TracedBy
    <3> QED
      BY <1>0, <1>1, <2>1, <2>2, <2>5, <3>1, <3>2, <3>3, <3>5, GoOnStep
  <2>13. ASSUME NEW name, PickKeeps(name)
         PROVE  LInv' /\ at' = "arguments"
    <3>1. /\ name \in failing /\ chosen # "none" /\ GoOn(1)
          /\ UNCHANGED <<chosen, traceFile, stats>>
      BY <2>13 DEF PickKeeps
    <3>2. name = ws[n + 1] /\ ws[n + 1] # Trace /\ ws[n + 1] # Stats /\ ws[n + 1] # Help
      BY <2>11, <2>13 DEF PickKeeps
    <3>3. \E q \in Options(ws) : q < n + 1 /\ ws[q] \in made
      BY <1>3, <3>1 DEF ChosenBy, Done, Options
    <3>4. StopsWith(ws, n + 1, made, failing) = GoesOn
      BY <2>0, <3>2, <3>3, Stops
    <3>5. chosen' \in Names \cup {"none"} /\ ws[n + 1] \notin made
      BY <1>2, <3>1, <3>2 DEF LTypeOK
    <3> QED
      BY <1>0, <1>1, <2>1, <2>2, <2>4, <2>5, <3>1, <3>2, <3>4, <3>5, GoOnStep
  <2>14. ASSUME NEW name, PickFails(name)
         PROVE  LInv' /\ asked'.machine = "none"
    <3>1. name \in failing /\ chosen = "none" /\ Exit(1)
      BY <2>14 DEF PickFails
    <3>2. name = ws[n + 1] /\ ws[n + 1] # Trace /\ ws[n + 1] # Stats /\ ws[n + 1] # Help
      BY <2>11, <2>14 DEF PickFails
    <3>3. ~\E q \in Options(ws) : q < n + 1 /\ ws[q] \in made
      <4>1. \A q \in Options(ws) : q < n + 1 => q \in Done(ws, n)
        BY DEF Done, Options
      <4>2. "none" \notin made
        BY <1>4
      <4> QED
        BY <1>3, <3>1, <4>1, <4>2 DEF ChosenBy
    <3>4. StopsWith(ws, n + 1, made, failing) = 1
      BY <2>0, <3>1, <3>2, <3>3, Stops
    <3> QED
      BY <1>0, <1>1, <2>1, <3>1, <3>4, ExitStep
  <2>15. ASSUME NEW name, PickUnknown(name)
         PROVE  LInv' /\ at' = "arguments"
    <3>1. name \notin known /\ GoOn(1) /\ UNCHANGED <<chosen, traceFile, stats>>
      BY <2>11, <2>15 DEF PickUnknown
    <3>2. name = ws[n + 1] /\ ws[n + 1] # Trace /\ ws[n + 1] # Stats /\ ws[n + 1] # Help
      BY <2>11, <2>15 DEF PickUnknown
    <3>3. StopsWith(ws, n + 1, made, failing) = GoesOn
      BY <1>2, <2>0, <3>1, <3>2, Stops
    <3>4. chosen' \in Names \cup {"none"} /\ ws[n + 1] \notin made
      BY <1>2, <3>1, <3>2 DEF LTypeOK
    <3> QED
      BY <1>0, <1>1, <2>1, <2>2, <2>4, <2>5, <3>1, <3>2, <3>3, <3>4, GoOnStep
  <2> QED
    BY <1>5, <2>6, <2>7, <2>8, <2>9, <2>10, <2>12, <2>13, <2>14, <2>15, <2>16 DEF ProcessArguments
<1> QED
  BY <1>5, <1>6 DEF ProcessArguments, AskHelp, AskStats, TraceNoPath, TraceCannot, TraceTo,
                    CreateMachine, ResetMachine, PickKeeps, PickFails, PickUnknown, Pick, Argument,
                    FreshOK

-----------------------------------------------------------------------------
(* The invariant, and that nothing was asked for where main ends early. *)

LEMMA EnterStep ==
  ASSUME LInv, EnterMain
  PROVE  LInv' /\ (at' = "exit" => asked'.machine = "none")
<1>1. /\ at = "static" /\ linked = {} /\ UNCHANGED <<linked, failing, words, chosen, traceFile, stats, asked>>
      /\ registry' = [registry EXCEPT !.made = TRUE]
      /\ IF registry.names = <<>> THEN at' = "exit" /\ code' = 1 ELSE at' = "arguments"
  BY DEF EnterMain
<1>2. LTypeOK' /\ registry'.names = registry.names
  BY <1>1 DEF LInv, LTypeOK
<1>3. PICK ws \in Seq(Words), n \in Nat, known \in SUBSET Names : Follows(ws, n, known)
  BY <1>1 DEF LInv
<1>4. known = Registered /\ registry.names \in Seq(Names)
  BY <1>1, <1>3 DEF Follows, LInv, LTypeOK
<1>5. CASE registry.names = <<>>
  <2>1. known = {}
    BY <1>4, <1>5 DEF Registered
  <2>2. asked = Asks(ws, {}, failing)
    BY <1>3, <2>1 DEF Follows
  <2>3. asked.code = 1 /\ asked.machine = "none"
    BY <2>2 DEF Asks
  <2> QED
    BY <1>1, <1>2, <1>5, <2>3 DEF LInv
<1>6. CASE registry.names # <<>>
  <2>1. 1 \in DOMAIN registry.names
    BY <1>4, <1>6
  <2>2. known # {}
    BY <1>4, <2>1 DEF Registered
  <2>3. Registered' = Registered
    BY <1>2 DEF Registered
  <2>4. Follows(ws, n, known)' /\ at' = "arguments"
    BY <1>1, <1>3, <1>6, <2>2, <2>3 DEF Follows
  <2> QED
    BY <1>2, <2>4 DEF LInv
<1> QED
  BY <1>5, <1>6

LEMMA RegistrarStep ==
  ASSUME LInv, NEW name \in Names, Registrar(name)
  PROVE  LInv' /\ at' = "static"
<1>1. /\ at = "static" /\ at' = at /\ name \in linked /\ linked' = linked \ {name}
      /\ registry' = [made |-> TRUE, names |-> Append(registry.names, name),
                      constructors |-> Append(registry.constructors, name)]
      /\ UNCHANGED <<failing, words, chosen, traceFile, stats, asked>>
  BY DEF Registrar
<1>2. LTypeOK'
  BY <1>1 DEF LInv, LTypeOK
<1>3. PICK ws \in Seq(Words), n \in Nat, known \in SUBSET Names : Follows(ws, n, known)
  BY <1>1 DEF LInv
<1>4. Registered' = Registered \cup {name}
  <2> DEFINE s == registry.names
  <2>1. s \in Seq(Names)
    BY DEF LInv, LTypeOK
  <2>2. /\ registry'.names = Append(s, name) /\ DOMAIN Append(s, name) = 1 .. Len(s) + 1
        /\ DOMAIN s = 1 .. Len(s) /\ Len(s) \in Nat
        /\ \A i \in 1 .. Len(s) : Append(s, name)[i] = s[i]
        /\ Append(s, name)[Len(s) + 1] = name
    BY <1>1, <2>1
  <2> HIDE DEF s
  <2>3. {Append(s, name)[i] : i \in 1 .. Len(s) + 1} = {s[i] : i \in 1 .. Len(s)} \cup {name}
    BY <2>2
  <2> QED
    BY <2>2, <2>3 DEF Registered, s
<1>5. known = (linked \cup Registered)'
  BY <1>1, <1>3, <1>4 DEF Follows
<1>6. Follows(ws, n, known)'
  BY <1>1, <1>3, <1>5 DEF Follows
<1> QED
  BY <1>1, <1>2, <1>6 DEF LInv

LEMMA LNextInv ==
  ASSUME LInv, FreshOK, [LNext]_lvars
  PROVE  LInv'
<1>1. CASE ProcessArguments
  BY <1>1, ArgumentStep
<1>2. CASE EnterMain
  BY <1>2, EnterStep
<1>3. ASSUME NEW name \in Names, Registrar(name) PROVE LInv'
  BY <1>3, RegistrarStep
<1>4. CASE Run
  <2>1. /\ at = "arguments" /\ words = <<>> /\ chosen # "none" /\ at' = "run"
        /\ UNCHANGED <<linked, registry, failing, words, chosen, traceFile, stats, asked>>
    BY <1>4 DEF Run
  <2>2. PICK ws \in Seq(Words), n \in Nat, known \in SUBSET Names : Follows(ws, n, known)
    BY <2>1 DEF LInv
  <2>3. n = Len(ws) /\ Registered' = Registered
    BY <2>1, <2>2 DEF Follows, Registered
  <2>4. Follows(ws, n, known)'
    BY <2>1, <2>2, <2>3 DEF Follows
  <2>5. LTypeOK'
    BY <2>1 DEF LInv, LTypeOK
  <2> QED
    BY <2>1, <2>4, <2>5 DEF LInv
<1>5. CASE RunReturns
  <2>1. /\ at = "run" /\ at' = "exit" /\ code' = 0
        /\ UNCHANGED <<linked, registry, chosen, asked>>
    BY <1>5 DEF RunReturns
  <2>2. PICK ws \in Seq(Words), n \in Nat, known \in SUBSET Names : Follows(ws, n, known)
    BY <2>1 DEF LInv
  <2>3. asked.code = 0
    <3>1. n = Len(ws) /\ known # {} /\ chosen # "none"
      BY <2>1, <2>2 DEF Follows
    <3> QED
      BY <2>2, <3>1, AskedAll
  <2>4. LTypeOK'
    BY <2>1 DEF LInv, LTypeOK
  <2> QED
    BY <2>1, <2>3, <2>4 DEF LInv
<1>6. CASE DeleteMachine \/ DeleteRegistry \/ Gone
  <2>1. at = "exit" /\ at' \in {"exit", "done"} /\ UNCHANGED <<asked, code>>
    BY <1>6 DEF DeleteMachine, DeleteRegistry, Gone
  <2>2. LTypeOK'
    <3>0. LTypeOK
      BY DEF LInv
    <3>1. CASE DeleteMachine
      BY <3>0, <3>1 DEF LTypeOK, DeleteMachine
    <3>2. CASE DeleteRegistry
      BY <3>0, <3>2 DEF LTypeOK, DeleteRegistry
    <3>3. CASE Gone
      BY <3>0, <3>3 DEF LTypeOK, Gone
    <3> QED
      BY <1>6, <3>1, <3>2, <3>3
  <2> QED
    BY <2>1, <2>2 DEF LInv
<1>7. CASE UNCHANGED lvars
  <2>1. UNCHANGED <<linked, registry, failing, words, at, chosen, traceFile, stats, code, asked>>
    BY <1>7 DEF lvars
  <2> QED
    BY <2>1, SameInv
<1> QED
  BY <1>1, <1>2, <1>3, <1>4, <1>5, <1>6, <1>7 DEF LNext, BeforeAndAfter

(* What create has returned is the machine of the argument in hand. *)
LEMMA FreshNext ==
  ASSUME LInv, FreshOK, [LNext]_lvars
  PROVE  FreshOK'
<1>1. ASSUME NEW word \in Words, CreateMachine(word)
      PROVE  FreshOK'
  <2>1. /\ at = "arguments" /\ words # <<>> /\ Head(words) = word /\ Is(word) /\ word \notin failing
        /\ fresh' = Constructor(word) /\ UNCHANGED <<words, at, registry, failing>>
    BY <1>1 DEF CreateMachine, Pick, Argument
  <2>2. word \in Registered /\ Constructor(word) = word
    BY <2>1, Finds DEF LInv
  <2>3. Registered' = Registered
    BY <2>1 DEF Registered
  <2> QED
    BY <2>1, <2>2, <2>3 DEF FreshOK
<1>2. CASE \/ AskHelp \/ AskStats \/ TraceNoPath \/ TraceCannot \/ NoMachine
           \/ \E word \in Words : TraceTo(word) \/ PickKeeps(word) \/ PickFails(word) \/ PickUnknown(word)
  <2>1. fresh' = "none"
    BY <1>2 DEF AskHelp, AskStats, TraceNoPath, TraceCannot, NoMachine, TraceTo, PickKeeps,
                PickFails, PickUnknown, Pick, Argument, Exit, GoOn, FreshOK
  <2> QED
    BY <2>1 DEF FreshOK
<1>3. CASE ResetMachine
  BY <1>3 DEF ResetMachine, FreshOK
<1>4. CASE \/ BeforeAndAfter \/ Run \/ RunReturns
  <2>1. fresh' = fresh /\ (at # "arguments" \/ words = <<>>)
    BY <1>4 DEF BeforeAndAfter, EnterMain, Registrar, DeleteMachine, DeleteRegistry, Gone, Run, RunReturns
  <2> QED
    BY <2>1 DEF FreshOK
<1>5. CASE UNCHANGED lvars
  BY <1>5 DEF lvars, FreshOK, Registered
<1> QED
  BY <1>1, <1>2, <1>3, <1>4, <1>5 DEF LNext, ProcessArguments

LEMMA LSpecInv == LSpec => [](LInv /\ FreshOK)
<1>1. LInit => LInv /\ FreshOK
  BY LInitInv DEF LInit, FreshOK
<1>2. LInv /\ FreshOK /\ [LNext]_lvars => LInv' /\ FreshOK'
  BY LNextInv, FreshNext
<1> QED
  BY <1>1, <1>2, PTL DEF LSpec

LEMMA AskedIsChosen == LInv => RunsWhatWasAsked
<1> SUFFICES ASSUME LInv, at = "run"
             PROVE  asked = [code |-> 0, machine |-> chosen, trace |-> traceFile, stats |-> stats]
  BY DEF LInv, RunsWhatWasAsked
<1>1. PICK ws \in Seq(Words), n \in Nat, known \in SUBSET Names : Follows(ws, n, known)
  BY DEF LInv
<1>2. n = Len(ws) /\ known # {} /\ chosen # "none"
  BY <1>1 DEF Follows
<1> QED
  BY <1>1, <1>2, AskedAll

(* What runs, what it is traced to and how the process ends is what the    *)
(* arguments ask for, by their places: for any machines and any            *)
(* arguments, in whatever order the registrars ran and whichever           *)
(* constructors throw (main.cc, machine_implementation.cc).                *)
THEOREM ArgumentsDecide == LSpec => []RunsWhatWasAsked
BY LSpecInv, AskedIsChosen, PTL

-----------------------------------------------------------------------------
(* What is made is deleted. *)

LEMMA LeakInit == LInit => NothingLeaks
BY DEF LInit, NothingLeaks

LEMMA LeakNext ==
  ASSUME LInv, FreshOK, NothingLeaks, [LNext]_lvars
  PROVE  NothingLeaks'
<1>1. CASE \/ AskHelp \/ AskStats \/ TraceNoPath \/ TraceCannot \/ NoMachine
           \/ \E word \in Words : TraceTo(word) \/ PickKeeps(word) \/ PickFails(word) \/ PickUnknown(word)
  <2>1. at' # "done" /\ UNCHANGED <<fresh, chosen, alive>> /\ fresh = "none"
    BY <1>1 DEF AskHelp, AskStats, TraceNoPath, TraceCannot, NoMachine, TraceTo, PickKeeps,
                PickFails, PickUnknown, Pick, Argument, Exit, GoOn, FreshOK
  <2> QED
    BY <2>1 DEF NothingLeaks
<1>2. ASSUME NEW word \in Words, CreateMachine(word) PROVE NothingLeaks'
  <2>1. /\ at = "arguments" /\ at' = at /\ fresh = "none" /\ UNCHANGED chosen
        /\ fresh' = Constructor(word) /\ alive' = alive + 1 /\ Is(word)
    BY <1>2 DEF CreateMachine, Pick, Argument
  <2>2. LTypeOK
    BY DEF LInv
  <2>3. word \in Registered /\ Constructor(word) = word
    BY <2>1, <2>2, Finds
  <2>4. word # "none"
    BY <2>2, <2>3, CommandLineAssumption DEF Registered, LTypeOK
  <2> QED
    BY <2>1, <2>3, <2>4 DEF NothingLeaks
<1>8. CASE ResetMachine
  BY <1>8 DEF ResetMachine, NothingLeaks, FreshOK, GoOn
<1>3. CASE EnterMain \/ (\E name \in Names : Registrar(name)) \/ Run \/ RunReturns
  <2>1. at' # "done" /\ UNCHANGED <<fresh, chosen, alive>> /\ fresh = "none"
    BY <1>3 DEF EnterMain, Registrar, Run, RunReturns, FreshOK
  <2> QED
    BY <2>1 DEF NothingLeaks
<1>4. CASE DeleteMachine
  BY <1>4 DEF DeleteMachine, NothingLeaks
<1>5. CASE DeleteRegistry
  BY <1>5 DEF DeleteRegistry, NothingLeaks
<1>6. CASE Gone
  BY <1>6 DEF Gone, NothingLeaks
<1>7. CASE UNCHANGED lvars
  BY <1>7 DEF lvars, NothingLeaks
<1> QED
  BY <1>1, <1>2, <1>3, <1>4, <1>5, <1>6, <1>7, <1>8 DEF LNext, BeforeAndAfter, ProcessArguments

(* There is a second machine only from its creation until machine.reset    *)
(* has deleted the one picked before it (main.cc:78), however often the    *)
(* arguments pick another; the one that runs is alone; and the destructors *)
(* of static objects, in either order, leave neither a machine nor the     *)
(* registry.                                                               *)
THEOREM MachineIsDeleted == LSpec => []NothingLeaks
<1>1. LInit => NothingLeaks
  BY LeakInit
<1>2. LInv /\ FreshOK /\ NothingLeaks /\ [LNext]_lvars => NothingLeaks'
  BY LeakNext
<1> QED
  BY <1>1, <1>2, LSpecInv, PTL DEF LSpec

-----------------------------------------------------------------------------
(* The whole testbench. *)

LEMMA SpecIsLSpec == Spec => LSpec
<1>1. Init => LInit
  BY DEF Init
<1>2. [Next]_<<lvars, kvars>> => [LNext]_lvars
  BY DEF Next, Start, RunCycles, End, LNext
<1> QED
  BY <1>1, <1>2, PTL DEF Spec, LSpec

(* The process starts the machine once, as KernalCode does, and leaves it  *)
(* alone before and after.                                                 *)
LEMMA SpecIsKSpec == Spec => KSpec
<1>1. Init => KInit
  BY DEF Init
<1>2. \A name : Creates(name) \in Machines
  BY DEF Creates, Machines
<1>3. [Next]_<<lvars, kvars>> => [KNext]_kvars
  BY <1>2 DEF Next, Start, RunCycles, End, KNext
<1> QED
  BY <1>1, <1>3, PTL DEF Spec, KSpec

MachineInv ==
  /\ at = "run" => machine = Creates(chosen)
  /\ RunsToTheEnd

LEMMA RunsKeepMachine == ASSUME Runs PROVE machine' = machine
<1>1. CASE Basic
  BY <1>1 DEF Basic, Break, Call, Enters
<1>2. CASE Kernal
  BY <1>2 DEF Kernal, Executes, Loads, Stores, Compares, IncrementsAck, IncrementsX, Branches,
              Jumps, JumpsToBasic, Pushes, PullsA, PullsP, ClearsFlag, Returns,
              ReturnsFromInterrupt
<1>3. CASE OnCPUCycle
  BY <1>3 DEF OnCPUCycle, Host, HostFetch, HostEndOfFile, HostClear, HostIdle
<1> QED
  BY <1>1, <1>2, <1>3 DEF Runs

LEMMA MachineNext ==
  ASSUME LInv, FreshOK, MachineInv, [Next]_<<lvars, kvars>>
  PROVE  MachineInv'
<1>1. CASE ProcessArguments /\ UNCHANGED kvars
  <2>1. at' \in {"arguments", "exit"}
    BY <1>1 DEF ProcessArguments, AskHelp, AskStats, TraceNoPath, TraceCannot, NoMachine, TraceTo,
                CreateMachine, ResetMachine, PickKeeps, PickFails, PickUnknown, Pick, Argument, Exit,
                GoOn, FreshOK
  <2>2. at' = "exit" => asked'.machine = "none"
    BY <1>1, ArgumentStep
  <2> QED
    BY <2>1, <2>2 DEF MachineInv, RunsToTheEnd
<1>2. CASE BeforeAndAfter /\ UNCHANGED kvars
  <2>1. CASE EnterMain
    <3>1. at' \in {"arguments", "exit"}
      BY <2>1 DEF EnterMain
    <3>2. at' = "exit" => asked'.machine = "none"
      BY <2>1, EnterStep
    <3> QED
      BY <3>1, <3>2 DEF MachineInv, RunsToTheEnd
  <2>2. ASSUME NEW name \in Names, Registrar(name) PROVE MachineInv'
    <3>1. at' = "static"
      BY <2>2, RegistrarStep
    <3> QED
      BY <3>1 DEF MachineInv, RunsToTheEnd
  <2>3. CASE DeleteMachine \/ DeleteRegistry \/ Gone
    <3>1. at = "exit" /\ at' \in {"exit", "done"} /\ asked' = asked
      BY <2>3 DEF DeleteMachine, DeleteRegistry, Gone
    <3>2. eof' = eof /\ machine' = machine
      BY <1>2 DEF kvars
    <3> QED
      BY <3>1, <3>2 DEF MachineInv, RunsToTheEnd
  <2> QED
    BY <1>2, <2>1, <2>2, <2>3 DEF BeforeAndAfter
<1>3. CASE Start
  <2>1. at' = "run" /\ chosen' = chosen /\ machine' = Creates(chosen)
    BY <1>3 DEF Start, Run, PowerOn
  <2>2. Creates(chosen)' = Creates(chosen)
    BY <2>1 DEF Creates
  <2> QED
    BY <2>1, <2>2 DEF MachineInv, RunsToTheEnd
<1>4. CASE RunCycles
  <2>1. at = "run" /\ UNCHANGED <<at, chosen>> /\ machine' = machine
    BY <1>4, RunsKeepMachine DEF RunCycles, lvars
  <2> QED
    BY <2>1 DEF MachineInv, RunsToTheEnd, Creates
<1>5. CASE End
  <2>1. at = "run" /\ at' = "exit" /\ asked' = asked /\ eof' = eof /\ machine' = machine /\ eof
    BY <1>5 DEF End, RunReturns, kvars
  <2>2. asked.machine = chosen
    BY <2>1, AskedIsChosen DEF RunsWhatWasAsked
  <2> QED
    BY <2>1, <2>2 DEF MachineInv, RunsToTheEnd, Creates
<1>6. CASE UNCHANGED <<lvars, kvars>>
  <2>1. UNCHANGED <<at, chosen, asked, eof, machine>>
    BY <1>6 DEF lvars, kvars
  <2> QED
    BY <2>1 DEF MachineInv, RunsToTheEnd, Creates
<1> QED
  BY <1>1, <1>2, <1>3, <1>4, <1>5, <1>6 DEF Next

(* A process whose arguments ask for a machine does not exit before that   *)
(* machine, made by the constructor in its place of the registry, has met  *)
(* the end of the input: for any calls of the kernal, any input and any    *)
(* arguments (main.cc, commodore.cc, machine_6502.cc).                     *)
THEOREM RunsUntilEndOfFile == Spec => []RunsToTheEnd
<1>1. Init => MachineInv
  BY DEF Init, LInit, MachineInv, RunsToTheEnd
<1>2. LInv /\ FreshOK /\ MachineInv /\ [Next]_<<lvars, kvars>> => MachineInv'
  BY MachineNext
<1>3. MachineInv => RunsToTheEnd
  BY DEF MachineInv
<1> QED
  BY <1>1, <1>2, <1>3, LSpecInv, SpecIsLSpec, PTL DEF Spec

(* The same holds of the arguments and of what is left behind when the     *)
(* kernal's code and the host run inside the process.                      *)
THEOREM TestbenchDoesWhatWasAsked == Spec => [](RunsWhatWasAsked /\ NothingLeaks)
BY SpecIsLSpec, ArgumentsDecide, MachineIsDeleted, PTL

(* In the process as well, whichever machine its arguments pick: no call   *)
(* runs into anything but code or meets anything but bytes, each returns   *)
(* to its caller, leaves the rest of the memory as it was and does what it *)
(* promises (cbm_tiny_kernel.s, commodore.cc).                             *)
THEOREM KernalInTestbench ==
  Spec => [](KTypeOK /\ ReturnsToCaller /\ LeavesTheRest) /\ ImplementsCalls
BY SpecIsKSpec, KTypeOKHolds, ReturnsToCallerHolds, LeavesTheRestHolds, CallsImplemented, PTL
=============================================================================
