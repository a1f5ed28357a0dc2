---------------------------- MODULE Mos65xxProofs ----------------------------
(***************************************************************************)
(* Proofs about the pins of the 6500 family: the invariant of the chip,    *)
(* that the getters read the registers (RegistersRead) of every model, and *)
(* that a pin drives its signal (PinsHold) and the buses read as the pins  *)
(* do (BusesArePins) in the five models whose two tables agree.            *)
(*                                                                         *)
(* A table is put together of runs of pins, and so is the enum beside it:  *)
(* the lemmas go over both, run by run, and the length of the one is the   *)
(* offset of the next.  The values of a bus are recursive functions, of    *)
(* which the lemma Recursion says that they are what they are defined by.  *)
(***************************************************************************)
EXTENDS Mos65xx, SequenceTheorems, WellFoundedInduction, TLAPS

-----------------------------------------------------------------------------
(* The two tables of a package.                                            *)

(* The signals of the family. *)
Signals ==
  {<<name, 0>> : name \in {"Vss", "Vcc", "RDY", "CLK0IN", "CLK1IN", "CLK2IN", "CLK1OUT",
                           "CLK2OUT", "IRQ", "NMI", "SYNC", "RW", "SO", "RES", "AEC", "none"}}
  \cup {<<name, i>> : name \in {"P", "DB"}, i \in 0 .. 7}
  \cup {<<"AB", i>> : i \in 0 .. 15}

(* The n pins after the first `from`, in the order of the table, are those *)
(* that the enum numbers, or have a signal that the enum leaves out.       *)
Fits(table, from, n, enum, out) ==
  /\ table \in Seq(Signals) /\ Len(table) = n
  /\ enum \subseteq Signals \X Int
  /\ \A e \in enum : e[2] - from \in 1 .. n /\ table[e[2] - from] = e[1]
  /\ \A k \in 1 .. n : table[k] \in out \/ <<table[k], k + from>> \in enum

(* The signals of a run are signals of the family. *)
IsRun(name, lo, hi) ==
  lo \in Nat /\ hi \in Nat /\ lo <= hi /\ \A i \in lo .. hi : <<name, i>> \in Signals

LEMMA OneFits ==
  ASSUME NEW name, Pin(name) \in Signals, NEW from \in Nat, NEW out, NEW pin, pin = from + 1
  PROVE  /\ Fits(One(name), from, 1, At(name, pin), out)
         /\ Pin(name) \in out => Fits(One(name), from, 1, {}, out)
BY DEF Fits, One, At

LEMMA UpFits ==
  ASSUME NEW name, NEW lo, NEW hi, IsRun(name, lo, hi), NEW from \in Nat, NEW out,
         NEW n, NEW pin, n = hi - lo + 1, pin = from + 1
  PROVE  Fits(Up(name, lo, hi), from, n, Rising(name, lo, hi, pin), out)
<1>0. lo \in Nat /\ hi \in Nat /\ lo <= hi /\ \A i \in lo .. hi : <<name, i>> \in Signals
  BY DEF IsRun
<1>1. n \in Nat /\ \A k \in 1 .. n : lo + k - 1 \in lo .. hi
  BY <1>0
<1>2. Up(name, lo, hi) \in Seq(Signals) /\ Len(Up(name, lo, hi)) = n
  BY <1>0, <1>1 DEF Up
<1>3. \A k \in 1 .. n : Up(name, lo, hi)[k] = <<name, lo + k - 1>>
  BY <1>0 DEF Up
<1>4. Rising(name, lo, hi, pin) \subseteq Signals \X Int
  BY <1>0 DEF Rising
<1>5. \A e \in Rising(name, lo, hi, pin) :
        e[2] - from \in 1 .. n /\ Up(name, lo, hi)[e[2] - from] = e[1]
  <2> SUFFICES ASSUME NEW i \in lo .. hi
               PROVE  LET k == pin + (i - lo) - from
                      IN k \in 1 .. n /\ Up(name, lo, hi)[k] = <<name, i>>
    BY <1>0 DEF Rising
  <2>1. pin + (i - lo) - from = i - lo + 1
    BY <1>0
  <2>2. i - lo + 1 \in 1 .. n /\ lo + (i - lo + 1) - 1 = i
    BY <1>0
  <2> QED
    BY <1>0, <1>3, <2>1, <2>2
<1>6. \A k \in 1 .. n : <<Up(name, lo, hi)[k], k + from>> \in Rising(name, lo, hi, pin)
  <2> TAKE k \in 1 .. n
  <2>1. lo + k - 1 \in lo .. hi /\ pin + ((lo + k - 1) - lo) = k + from
    BY <1>0
  <2> QED
    BY <1>0, <1>3, <2>1 DEF Rising
<1> QED
  BY <1>0, <1>2, <1>4, <1>5, <1>6 DEF Fits

LEMMA DownFits ==
  ASSUME NEW name, NEW lo, NEW hi, IsRun(name, lo, hi), NEW from \in Nat, NEW out,
         NEW n, NEW pin, n = hi - lo + 1, pin = from + 1
  PROVE  Fits(Down(name, hi, lo), from, n, Falling(name, hi, lo, pin), out)
<1>0. lo \in Nat /\ hi \in Nat /\ lo <= hi /\ \A i \in lo .. hi : <<name, i>> \in Signals
  BY DEF IsRun
<1>1. n \in Nat /\ \A k \in 1 .. n : hi - k + 1 \in lo .. hi
  BY <1>0
<1>2. Down(name, hi, lo) \in Seq(Signals) /\ Len(Down(name, hi, lo)) = n
  BY <1>0, <1>1 DEF Down
<1>3. \A k \in 1 .. n : Down(name, hi, lo)[k] = <<name, hi - k + 1>>
  BY <1>0 DEF Down
<1>4. Falling(name, hi, lo, pin) \subseteq Signals \X Int
  BY <1>0 DEF Falling
<1>5. \A e \in Falling(name, hi, lo, pin) :
        e[2] - from \in 1 .. n /\ Down(name, hi, lo)[e[2] - from] = e[1]
  <2> SUFFICES ASSUME NEW i \in lo .. hi
               PROVE  LET k == pin + (hi - i) - from
                      IN k \in 1 .. n /\ Down(name, hi, lo)[k] = <<name, i>>
    BY <1>0 DEF Falling
  <2>1. pin + (hi - i) - from = hi - i + 1
    BY <1>0
  <2>2. hi - i + 1 \in 1 .. n /\ hi - (hi - i + 1) + 1 = i
    BY <1>0
  <2> QED
    BY <1>0, <1>3, <2>1, <2>2
<1>6. \A k \in 1 .. n : <<Down(name, hi, lo)[k], k + from>> \in Falling(name, hi, lo, pin)
  <2> TAKE k \in 1 .. n
  <2>1. hi - k + 1 \in lo .. hi /\ pin + (hi - (hi - k + 1)) = k + from
    BY <1>0
  <2> QED
    BY <1>0, <1>3, <2>1 DEF Falling
<1> QED
  BY <1>0, <1>2, <1>4, <1>5, <1>6 DEF Fits

LEMMA BothFit ==
  ASSUME NEW s, NEW t, NEW from \in Nat, NEW m \in Nat, NEW n \in Nat, NEW d, NEW e, NEW out,
         Fits(s, from, m, d, out), Fits(t, from + m, n, e, out)
  PROVE  Fits(s \o t, from, m + n, d \cup e, out)
<1>1. /\ s \o t \in Seq(Signals) /\ Len(s \o t) = m + n
      /\ \A k \in 1 .. m : (s \o t)[k] = s[k] /\ k \in 1 .. m + n
      /\ \A k \in 1 .. n : (s \o t)[k + m] = t[k] /\ k + m \in 1 .. m + n
  BY DEF Fits
<1>2. d \cup e \subseteq Signals \X Int
  BY DEF Fits
<1>3. ASSUME NEW x \in d
      PROVE  x[2] - from \in 1 .. m + n /\ (s \o t)[x[2] - from] = x[1]
  <2>1. x[2] - from \in 1 .. m /\ s[x[2] - from] = x[1]
    BY <1>3 DEF Fits
  <2> QED
    BY <1>1, <2>1
<1>4. ASSUME NEW x \in e
      PROVE  x[2] - from \in 1 .. m + n /\ (s \o t)[x[2] - from] = x[1]
  <2>1. x[2] \in Int /\ x[2] - (from + m) \in 1 .. n /\ t[x[2] - (from + m)] = x[1]
    BY <1>4 DEF Fits
  <2>2. (x[2] - (from + m)) + m = x[2] - from
    BY <2>1
  <2> QED
    BY <1>1, <2>1, <2>2
<1>5. ASSUME NEW k \in 1 .. m + n
      PROVE  (s \o t)[k] \in out \/ <<(s \o t)[k], k + from>> \in d \cup e
  <2>1. CASE k <= m
    BY <1>1, <2>1 DEF Fits
  <2>2. CASE k > m
    <3>1. k - m \in 1 .. n /\ (k - m) + m = k /\ (k - m) + (from + m) = k + from
      BY <2>2
    <3>2. t[k - m] \in out \/ <<t[k - m], (k - m) + (from + m)>> \in e
      BY <3>1 DEF Fits
    <3> QED
      BY <1>1, <3>1, <3>2
  <2>3. k <= m \/ k > m
    OBVIOUS
  <2> QED
    BY <2>1, <2>2, <2>3
<1> QED
  BY <1>1, <1>2, <1>3, <1>4, <1>5 DEF Fits

(* A table grows by a pin, or by a run of pins. *)
WithAt(enum, name, pin)              == enum \cup At(name, pin)
WithRising(enum, name, lo, hi, pin)  == enum \cup Rising(name, lo, hi, pin)
WithFalling(enum, name, hi, lo, pin) == enum \cup Falling(name, hi, lo, pin)
ThenOne(table, name)                 == table \o One(name)
ThenUp(table, name, lo, hi)          == table \o Up(name, lo, hi)
ThenDown(table, name, hi, lo)        == table \o Down(name, hi, lo)

LEMMA AddOne ==
  ASSUME NEW s, NEW from \in Nat, NEW n \in Nat, NEW e, NEW out, Fits(s, from, n, e, out),
         NEW name, Pin(name) \in Signals, NEW pin, NEW m, m = n + 1, pin = from + m
  PROVE  Fits(ThenOne(s, name), from, m, WithAt(e, name, pin), out)
<1>1. pin = (from + n) + 1
  OBVIOUS
<1>2. Fits(One(name), from + n, 1, At(name, pin), out)
  BY <1>1, OneFits
<1> QED
  BY <1>2, BothFit DEF WithAt, ThenOne

LEMMA AddLeftOut ==
  ASSUME NEW s, NEW from \in Nat, NEW n \in Nat, NEW e, NEW out, Fits(s, from, n, e, out),
         NEW name, Pin(name) \in Signals, Pin(name) \in out,
         NEW m, m = n + 1
  PROVE  Fits(ThenOne(s, name), from, m, e, out)
<1>1. Fits(One(name), from + n, 1, {}, out)
  <2> DEFINE f == from + n
             pin == f + 1
  <2>1. f \in Nat /\ pin = f + 1
    OBVIOUS
  <2> HIDE DEF f, pin
  <2>2. Fits(One(name), f, 1, {}, out)
    BY <2>1, OneFits
  <2> QED
    BY <2>2 DEF f
<1>2. Fits(ThenOne(s, name), from, n + 1, e \cup {}, out)
  BY <1>1, BothFit DEF ThenOne
<1> QED
  BY <1>2

LEMMA AddUp ==
  ASSUME NEW s, NEW from \in Nat, NEW n \in Nat, NEW e, NEW out, Fits(s, from, n, e, out),
         NEW name, NEW lo, NEW hi, IsRun(name, lo, hi),
         NEW pin, NEW m, pin = from + n + 1, m = n + (hi - lo + 1)
  PROVE  Fits(ThenUp(s, name, lo, hi), from, m, WithRising(e, name, lo, hi, pin), out)
<1> DEFINE f == from + n
           k == hi - lo + 1
<1>0. lo \in Nat /\ hi \in Nat /\ lo <= hi
  BY DEF IsRun
<1>1. f \in Nat /\ k \in Nat /\ pin = f + 1
  BY <1>0
<1> HIDE DEF f
<1>2. Fits(Up(name, lo, hi), f, k, Rising(name, lo, hi, pin), out)
  BY <1>0, <1>1, UpFits
<1> HIDE DEF k
<1>3. Fits(Up(name, lo, hi), from + n, k, Rising(name, lo, hi, pin), out)
  BY <1>2 DEF f
<1>4. m = n + k
  BY <1>0 DEF k
<1> QED
  BY <1>1, <1>3, <1>4, BothFit DEF WithRising, ThenUp

LEMMA AddDown ==
  ASSUME NEW s, NEW from \in Nat, NEW n \in Nat, NEW e, NEW out, Fits(s, from, n, e, out),
         NEW name, NEW lo, NEW hi, IsRun(name, lo, hi),
         NEW pin, NEW m, pin = from + n + 1, m = n + (hi - lo + 1)
  PROVE  Fits(ThenDown(s, name, hi, lo), from, m, WithFalling(e, name, hi, lo, pin), out)
<1> DEFINE f == from + n
           k == hi - lo + 1
<1>0. lo \in Nat /\ hi \in Nat /\ lo <= hi
  BY DEF IsRun
<1>1. f \in Nat /\ k \in Nat /\ pin = f + 1
  BY <1>0
<1> HIDE DEF f
<1>2. Fits(Down(name, hi, lo), f, k, Falling(name, hi, lo, pin), out)
  BY <1>0, <1>1, DownFits
<1> HIDE DEF k
<1>3. Fits(Down(name, hi, lo), from + n, k, Falling(name, hi, lo, pin), out)
  BY <1>2 DEF f
<1>4. m = n + k
  BY <1>0 DEF k
<1> QED
  BY <1>1, <1>3, <1>4, BothFit DEF WithFalling, ThenDown

LEMMA SignalsAre ==
  /\ Pin("Vss") \in Signals /\ Pin("Vcc") \in Signals /\ Pin("RDY") \in Signals /\ Pin("CLK0IN") \in Signals
  /\ Pin("CLK1IN") \in Signals /\ Pin("CLK2IN") \in Signals /\ Pin("CLK1OUT") \in Signals /\ Pin("CLK2OUT") \in Signals
  /\ Pin("IRQ") \in Signals /\ Pin("NMI") \in Signals /\ Pin("SYNC") \in Signals /\ Pin("RW") \in Signals
  /\ Pin("SO") \in Signals /\ Pin("RES") \in Signals /\ Pin("AEC") \in Signals /\ Pin("none") \in Signals
  /\ IsRun("DB", 0, 7) /\ IsRun("DB", 1, 7) /\ IsRun("DB", 0, 0)
  /\ IsRun("P", 0, 5) /\ IsRun("P", 0, 7)
  /\ IsRun("AB", 0, 11) /\ IsRun("AB", 12, 15) /\ IsRun("AB", 0, 12)
  /\ IsRun("AB", 0, 13) /\ IsRun("AB", 14, 15)
BY DEF Signals, Pin, IsRun

LEMMA Fits6502 ==
  Fits(Pinout6502, 0, 40, Enum6502, {Pin("Vss"), Pin("none")})
<1> DEFINE out == {Pin("Vss"), Pin("none")}
<1>0. Pin("Vss") \in out /\ Pin("none") \in out
  OBVIOUS
<1> DEFINE s1 == One("Vss")                   e1 == {}
           s2 == ThenOne(s1, "RDY")           e2 == WithAt(e1, "RDY", 2)
           s3 == ThenOne(s2, "CLK1OUT")       e3 == WithAt(e2, "CLK1OUT", 3)
           s4 == ThenOne(s3, "IRQ")           e4 == WithAt(e3, "IRQ", 4)
           s5 == ThenOne(s4, "none")          e5 == e4
           s6 == ThenOne(s5, "NMI")           e6 == WithAt(e5, "NMI", 6)
           s7 == ThenOne(s6, "SYNC")          e7 == WithAt(e6, "SYNC", 7)
           s8 == ThenOne(s7, "Vcc")           e8 == WithAt(e7, "Vcc", 8)
           s9 == ThenUp(s8, "AB", 0, 11)      e9 == WithRising(e8, "AB", 0, 11, 9)
           s10 == ThenOne(s9, "Vss")          e10 == e9
           s11 == ThenUp(s10, "AB", 12, 15)   e11 == WithRising(e10, "AB", 12, 15, 22)
           s12 == ThenDown(s11, "DB", 7, 0)   e12 == WithFalling(e11, "DB", 7, 0, 26)
           s13 == ThenOne(s12, "RW")          e13 == WithAt(e12, "RW", 34)
           s14 == ThenOne(s13, "none")        e14 == e13
           s15 == ThenOne(s14, "none")        e15 == e14
           s16 == ThenOne(s15, "CLK0IN")      e16 == WithAt(e15, "CLK0IN", 37)
           s17 == ThenOne(s16, "SO")          e17 == WithAt(e16, "SO", 38)
           s18 == ThenOne(s17, "CLK2OUT")     e18 == WithAt(e17, "CLK2OUT", 39)
           s19 == ThenOne(s18, "RES")         e19 == WithAt(e18, "RES", 40)
<1> HIDE DEF out, s1, e1, s2, e2, s3, e3, s4, e4, s5, e5, s6, e6, s7, e7, s8, e8, s9, e9,
             s10, e10, s11, e11, s12, e12, s13, e13, s14, e14, s15, e15, s16, e16, s17, e17, s18, e18,
             s19, e19
<1>1. Fits(s1, 0, 1, e1, out)
  BY OneFits, SignalsAre, <1>0,
     0 \in Nat /\ 1 = 0 + 1, Zenon DEF s1, e1
<1>2. Fits(s2, 0, 2, e2, out)
  BY <1>1, AddOne, SignalsAre,
     0 \in Nat /\ 1 \in Nat /\ 2 = 1 + 1 /\ 2 = 0 + 2, Zenon DEF s2, e2
<1>3. Fits(s3, 0, 3, e3, out)
  BY <1>2, AddOne, SignalsAre,
     0 \in Nat /\ 2 \in Nat /\ 3 = 2 + 1 /\ 3 = 0 + 3, Zenon DEF s3, e3
<1>4. Fits(s4, 0, 4, e4, out)
  BY <1>3, AddOne, SignalsAre,
     0 \in Nat /\ 3 \in Nat /\ 4 = 3 + 1 /\ 4 = 0 + 4, Zenon DEF s4, e4
<1>5. Fits(s5, 0, 5, e5, out)
  BY <1>4, AddLeftOut, SignalsAre, <1>0,
     0 \in Nat /\ 4 \in Nat /\ 5 = 4 + 1, Zenon DEF s5, e5
<1>6. Fits(s6, 0, 6, e6, out)
  BY <1>5, AddOne, SignalsAre,
     0 \in Nat /\ 5 \in Nat /\ 6 = 5 + 1 /\ 6 = 0 + 6, Zenon DEF s6, e6
<1>7. Fits(s7, 0, 7, e7, out)
  BY <1>6, AddOne, SignalsAre,
     0 \in Nat /\ 6 \in Nat /\ 7 = 6 + 1 /\ 7 = 0 + 7, Zenon DEF s7, e7
<1>8. Fits(s8, 0, 8, e8, out)
  BY <1>7, AddOne, SignalsAre,
     0 \in Nat /\ 7 \in Nat /\ 8 = 7 + 1 /\ 8 = 0 + 8, Zenon DEF s8, e8
<1>9. Fits(s9, 0, 20, e9, out)
  BY <1>8, AddUp, SignalsAre,
     0 \in Nat /\ 8 \in Nat /\ 9 = 0 + 8 + 1 /\ 20 = 8 + (11 - 0 + 1), Zenon DEF s9, e9
<1>10. Fits(s10, 0, 21, e10, out)
  BY <1>9, AddLeftOut, SignalsAre, <1>0,
     0 \in Nat /\ 20 \in Nat /\ 21 = 20 + 1, Zenon DEF s10, e10
<1>11. Fits(s11, 0, 25, e11, out)
  BY <1>10, AddUp, SignalsAre,
     0 \in Nat /\ 21 \in Nat /\ 22 = 0 + 21 + 1 /\ 25 = 21 + (15 - 12 + 1), Zenon DEF s11, e11
<1>12. Fits(s12, 0, 33, e12, out)
  BY <1>11, AddDown, SignalsAre,
     0 \in Nat /\ 25 \in Nat /\ 26 = 0 + 25 + 1 /\ 33 = 25 + (7 - 0 + 1), Zenon DEF s12, e12
<1>13. Fits(s13, 0, 34, e13, out)
  BY <1>12, AddOne, SignalsAre,
     0 \in Nat /\ 33 \in Nat /\ 34 = 33 + 1 /\ 34 = 0 + 34, Zenon DEF s13, e13
<1>14. Fits(s14, 0, 35, e14, out)
  BY <1>13, AddLeftOut, SignalsAre, <1>0,
     0 \in Nat /\ 34 \in Nat /\ 35 = 34 + 1, Zenon DEF s14, e14
<1>15. Fits(s15, 0, 36, e15, out)
  BY <1>14, AddLeftOut, SignalsAre, <1>0,
     0 \in Nat /\ 35 \in Nat /\ 36 = 35 + 1, Zenon DEF s15, e15
<1>16. Fits(s16, 0, 37, e16, out)
  BY <1>15, AddOne, SignalsAre,
     0 \in Nat /\ 36 \in Nat /\ 37 = 36 + 1 /\ 37 = 0 + 37, Zenon DEF s16, e16
<1>17. Fits(s17, 0, 38, e17, out)
  BY <1>16, AddOne, SignalsAre,
     0 \in Nat /\ 37 \in Nat /\ 38 = 37 + 1 /\ 38 = 0 + 38, Zenon DEF s17, e17
<1>18. Fits(s18, 0, 39, e18, out)
  BY <1>17, AddOne, SignalsAre,
     0 \in Nat /\ 38 \in Nat /\ 39 = 38 + 1 /\ 39 = 0 + 39, Zenon DEF s18, e18
<1>19. Fits(s19, 0, 40, e19, out)
  BY <1>18, AddOne, SignalsAre,
     0 \in Nat /\ 39 \in Nat /\ 40 = 39 + 1 /\ 40 = 0 + 40, Zenon DEF s19, e19
<1> QED
  BY <1>19, Zenon
  DEF Pinout6502, Enum6502, WithAt, WithRising, WithFalling, ThenOne, ThenUp, ThenDown, out,
      s1, e1, s2, e2, s3, e3, s4, e4, s5, e5, s6, e6, s7, e7, s8, e8, s9, e9,
      s10, e10, s11, e11, s12, e12, s13, e13, s14, e14, s15, e15, s16, e16, s17, e17, s18, e18,
      s19, e19

LEMMA Last28Fits ==
  Fits(Last28, 17, 11, Last28Enum, {})
<1> DEFINE out == {}
<1> DEFINE s1 == Down("DB", 7, 0)         e1 == Falling("DB", 7, 0, 18)
           s2 == ThenOne(s1, "RW")        e2 == WithAt(e1, "RW", 26)
           s3 == ThenOne(s2, "CLK0IN")    e3 == WithAt(e2, "CLK0IN", 27)
           s4 == ThenOne(s3, "CLK2OUT")   e4 == WithAt(e3, "CLK2OUT", 28)
<1> HIDE DEF out, s1, e1, s2, e2, s3, e3, s4, e4
<1>1. Fits(s1, 17, 8, e1, out)
  BY DownFits, SignalsAre,
     17 \in Nat /\ 18 = 17 + 1 /\ 8 = 7 - 0 + 1, Zenon DEF s1, e1
<1>2. Fits(s2, 17, 9, e2, out)
  BY <1>1, AddOne, SignalsAre,
     17 \in Nat /\ 8 \in Nat /\ 9 = 8 + 1 /\ 26 = 17 + 9, Zenon DEF s2, e2
<1>3. Fits(s3, 17, 10, e3, out)
  BY <1>2, AddOne, SignalsAre,
     17 \in Nat /\ 9 \in Nat /\ 10 = 9 + 1 /\ 27 = 17 + 10, Zenon DEF s3, e3
<1>4. Fits(s4, 17, 11, e4, out)
  BY <1>3, AddOne, SignalsAre,
     17 \in Nat /\ 10 \in Nat /\ 11 = 10 + 1 /\ 28 = 17 + 11, Zenon DEF s4, e4
<1> QED
  BY <1>4, Zenon
  DEF Last28, Last28Enum, WithAt, WithRising, WithFalling, ThenOne, ThenUp, ThenDown, out,
      s1, e1, s2, e2, s3, e3, s4, e4

LEMMA Last28Ends ==
  ASSUME NEW s, NEW e, Fits(s, 0, 17, e, {})
  PROVE  Fits(s \o Last28, 0, 28, e \cup Last28Enum, {})
<1>1. Fits(Last28, 0 + 17, 11, Last28Enum, {})
  BY Last28Fits, 0 + 17 = 17
<1>2. Fits(s \o Last28, 0, 17 + 11, e \cup Last28Enum, {})
  BY <1>1, BothFit, 0 \in Nat /\ 17 \in Nat /\ 11 \in Nat, Zenon
<1> QED
  BY <1>2, 17 + 11 = 28

LEMMA Fits6510 ==
  Fits(Pinout6510, 0, 40, Enum6510, {})
<1> DEFINE out == {}
<1> DEFINE s1 == One("CLK1IN")                e1 == At("CLK1IN", 1)
           s2 == ThenOne(s1, "RDY")           e2 == WithAt(e1, "RDY", 2)
           s3 == ThenOne(s2, "IRQ")           e3 == WithAt(e2, "IRQ", 3)
           s4 == ThenOne(s3, "NMI")           e4 == WithAt(e3, "NMI", 4)
           s5 == ThenOne(s4, "AEC")           e5 == WithAt(e4, "AEC", 5)
           s6 == ThenOne(s5, "Vcc")           e6 == WithAt(e5, "Vcc", 6)
           s7 == ThenUp(s6, "AB", 0, 13)      e7 == WithRising(e6, "AB", 0, 13, 7)
           s8 == ThenOne(s7, "Vss")           e8 == WithAt(e7, "Vss", 21)
           s9 == ThenUp(s8, "AB", 14, 15)     e9 == WithRising(e8, "AB", 14, 15, 22)
           s10 == ThenDown(s9, "P", 5, 0)     e10 == WithFalling(e9, "P", 5, 0, 24)
           s11 == ThenDown(s10, "DB", 7, 0)   e11 == WithFalling(e10, "DB", 7, 0, 30)
           s12 == ThenOne(s11, "RW")          e12 == WithAt(e11, "RW", 38)
           s13 == ThenOne(s12, "CLK2OUT")     e13 == WithAt(e12, "CLK2OUT", 39)
           s14 == ThenOne(s13, "RES")         e14 == WithAt(e13, "RES", 40)
<1> HIDE DEF out, s1, e1, s2, e2, s3, e3, s4, e4, s5, e5, s6, e6, s7, e7, s8, e8, s9, e9,
             s10, e10, s11, e11, s12, e12, s13, e13, s14, e14
<1>1. Fits(s1, 0, 1, e1, out)
  BY OneFits, SignalsAre,
     0 \in Nat /\ 1 = 0 + 1, Zenon DEF s1, e1
<1>2. Fits(s2, 0, 2, e2, out)
  BY <1>1, AddOne, SignalsAre,
     0 \in Nat /\ 1 \in Nat /\ 2 = 1 + 1 /\ 2 = 0 + 2, Zenon DEF s2, e2
<1>3. Fits(s3, 0, 3, e3, out)
  BY <1>2, AddOne, SignalsAre,
     0 \in Nat /\ 2 \in Nat /\ 3 = 2 + 1 /\ 3 = 0 + 3, Zenon DEF s3, e3
<1>4. Fits(s4, 0, 4, e4, out)
  BY <1>3, AddOne, SignalsAre,
     0 \in Nat /\ 3 \in Nat /\ 4 = 3 + 1 /\ 4 = 0 + 4, Zenon DEF s4, e4
<1>5. Fits(s5, 0, 5, e5, out)
  BY <1>4, AddOne, SignalsAre,
     0 \in Nat /\ 4 \in Nat /\ 5 = 4 + 1 /\ 5 = 0 + 5, Zenon DEF s5, e5
<1>6. Fits(s6, 0, 6, e6, out)
  BY <1>5, AddOne, SignalsAre,
     0 \in Nat /\ 5 \in Nat /\ 6 = 5 + 1 /\ 6 = 0 + 6, Zenon DEF s6, e6
<1>7. Fits(s7, 0, 20, e7, out)
  BY <1>6, AddUp, SignalsAre,
     0 \in Nat /\ 6 \in Nat /\ 7 = 0 + 6 + 1 /\ 20 = 6 + (13 - 0 + 1), Zenon DEF s7, e7
<1>8. Fits(s8, 0, 21, e8, out)
  BY <1>7, AddOne, SignalsAre,
     0 \in Nat /\ 20 \in Nat /\ 21 = 20 + 1 /\ 21 = 0 + 21, Zenon DEF s8, e8
<1>9. Fits(s9, 0, 23, e9, out)
  BY <1>8, AddUp, SignalsAre,
     0 \in Nat /\ 21 \in Nat /\ 22 = 0 + 21 + 1 /\ 23 = 21 + (15 - 14 + 1), Zenon DEF s9, e9
<1>10. Fits(s10, 0, 29, e10, out)
  BY <1>9, AddDown, SignalsAre,
     0 \in Nat /\ 23 \in Nat /\ 24 = 0 + 23 + 1 /\ 29 = 23 + (5 - 0 + 1), Zenon DEF s10, e10
<1>11. Fits(s11, 0, 37, e11, out)
  BY <1>10, AddDown, SignalsAre,
     0 \in Nat /\ 29 \in Nat /\ 30 = 0 + 29 + 1 /\ 37 = 29 + (7 - 0 + 1), Zenon DEF s11, e11
<1>12. Fits(s12, 0, 38, e12, out)
  BY <1>11, AddOne, SignalsAre,
     0 \in Nat /\ 37 \in Nat /\ 38 = 37 + 1 /\ 38 = 0 + 38, Zenon DEF s12, e12
<1>13. Fits(s13, 0, 39, e13, out)
  BY <1>12, AddOne, SignalsAre,
     0 \in Nat /\ 38 \in Nat /\ 39 = 38 + 1 /\ 39 = 0 + 39, Zenon DEF s13, e13
<1>14. Fits(s14, 0, 40, e14, out)
  BY <1>13, AddOne, SignalsAre,
     0 \in Nat /\ 39 \in Nat /\ 40 = 39 + 1 /\ 40 = 0 + 40, Zenon DEF s14, e14
<1> QED
  BY <1>14, Zenon
  DEF Pinout6510, Enum6510, WithAt, WithRising, WithFalling, ThenOne, ThenUp, ThenDown, out,
      s1, e1, s2, e2, s3, e3, s4, e4, s5, e5, s6, e6, s7, e7, s8, e8, s9, e9,
      s10, e10, s11, e11, s12, e12, s13, e13, s14, e14

LEMMA Fits6503 ==
  Fits(Pinout6503, 0, 28, Enum6503, {})
<1> DEFINE out == {}
<1> DEFINE s1 == One("RES")                e1 == At("RES", 1)
           s2 == ThenOne(s1, "Vss")        e2 == WithAt(e1, "Vss", 2)
           s3 == ThenOne(s2, "IRQ")        e3 == WithAt(e2, "IRQ", 3)
           s4 == ThenOne(s3, "NMI")        e4 == WithAt(e3, "NMI", 4)
           s5 == ThenOne(s4, "Vcc")        e5 == WithAt(e4, "Vcc", 5)
           s6 == ThenUp(s5, "AB", 0, 11)   e6 == WithRising(e5, "AB", 0, 11, 6)
<1> HIDE DEF out, s1, e1, s2, e2, s3, e3, s4, e4, s5, e5, s6, e6
<1>1. Fits(s1, 0, 1, e1, out)
  BY OneFits, SignalsAre,
     0 \in Nat /\ 1 = 0 + 1, Zenon DEF s1, e1
<1>2. Fits(s2, 0, 2, e2, out)
  BY <1>1, AddOne, SignalsAre,
     0 \in Nat /\ 1 \in Nat /\ 2 = 1 + 1 /\ 2 = 0 + 2, Zenon DEF s2, e2
<1>3. Fits(s3, 0, 3, e3, out)
  BY <1>2, AddOne, SignalsAre,
     0 \in Nat /\ 2 \in Nat /\ 3 = 2 + 1 /\ 3 = 0 + 3, Zenon DEF s3, e3
<1>4. Fits(s4, 0, 4, e4, out)
  BY <1>3, AddOne, SignalsAre,
     0 \in Nat /\ 3 \in Nat /\ 4 = 3 + 1 /\ 4 = 0 + 4, Zenon DEF s4, e4
<1>5. Fits(s5, 0, 5, e5, out)
  BY <1>4, AddOne, SignalsAre,
     0 \in Nat /\ 4 \in Nat /\ 5 = 4 + 1 /\ 5 = 0 + 5, Zenon DEF s5, e5
<1>6. Fits(s6, 0, 17, e6, out)
  BY <1>5, AddUp, SignalsAre,
     0 \in Nat /\ 5 \in Nat /\ 6 = 0 + 5 + 1 /\ 17 = 5 + (11 - 0 + 1), Zenon DEF s6, e6
<1>7. Fits(s6 \o Last28, 0, 28, e6 \cup Last28Enum, {})
  BY <1>6, Last28Ends, Zenon DEF out
<1> QED
  BY <1>7, Zenon
  DEF Pinout6503, Enum6503, WithAt, WithRising, WithFalling, ThenOne, ThenUp, ThenDown, out,
      s1, e1, s2, e2, s3, e3, s4, e4, s5, e5, s6, e6

LEMMA Fits6504 ==
  Fits(Pinout6504, 0, 28, Enum6504, {})
<1> DEFINE out == {}
<1> DEFINE s1 == One("RES")                e1 == At("RES", 1)
           s2 == ThenOne(s1, "Vss")        e2 == WithAt(e1, "Vss", 2)
           s3 == ThenOne(s2, "IRQ")        e3 == WithAt(e2, "IRQ", 3)
           s4 == ThenOne(s3, "Vcc")        e4 == WithAt(e3, "Vcc", 4)
           s5 == ThenUp(s4, "AB", 0, 12)   e5 == WithRising(e4, "AB", 0, 12, 5)
<1> HIDE DEF out, s1, e1, s2, e2, s3, e3, s4, e4, s5, e5
<1>1. Fits(s1, 0, 1, e1, out)
  BY OneFits, SignalsAre,
     0 \in Nat /\ 1 = 0 + 1, Zenon DEF s1, e1
<1>2. Fits(s2, 0, 2, e2, out)
  BY <1>1, AddOne, SignalsAre,
     0 \in Nat /\ 1 \in Nat /\ 2 = 1 + 1 /\ 2 = 0 + 2, Zenon DEF s2, e2
<1>3. Fits(s3, 0, 3, e3, out)
  BY <1>2, AddOne, SignalsAre,
     0 \in Nat /\ 2 \in Nat /\ 3 = 2 + 1 /\ 3 = 0 + 3, Zenon DEF s3, e3
<1>4. Fits(s4, 0, 4, e4, out)
  BY <1>3, AddOne, SignalsAre,
     0 \in Nat /\ 3 \in Nat /\ 4 = 3 + 1 /\ 4 = 0 + 4, Zenon DEF s4, e4
<1>5. Fits(s5, 0, 17, e5, out)
  BY <1>4, AddUp, SignalsAre,
     0 \in Nat /\ 4 \in Nat /\ 5 = 0 + 4 + 1 /\ 17 = 4 + (12 - 0 + 1), Zenon DEF s5, e5
<1>6. Fits(s5 \o Last28, 0, 28, e5 \cup Last28Enum, {})
  BY <1>5, Last28Ends, Zenon DEF out
<1> QED
  BY <1>6, Zenon
  DEF Pinout6504, Enum6504, WithAt, WithRising, WithFalling, ThenOne, ThenUp, ThenDown, out,
      s1, e1, s2, e2, s3, e3, s4, e4, s5, e5

LEMMA Fits6505 ==
  Fits(Pinout6505, 0, 28, Enum6505, {})
<1> DEFINE out == {}
<1> DEFINE s1 == One("RES")                e1 == At("RES", 1)
           s2 == ThenOne(s1, "Vss")        e2 == WithAt(e1, "Vss", 2)
           s3 == ThenOne(s2, "RDY")        e3 == WithAt(e2, "RDY", 3)
           s4 == ThenOne(s3, "IRQ")        e4 == WithAt(e3, "IRQ", 4)
           s5 == ThenOne(s4, "Vcc")        e5 == WithAt(e4, "Vcc", 5)
           s6 == ThenUp(s5, "AB", 0, 11)   e6 == WithRising(e5, "AB", 0, 11, 6)
<1> HIDE DEF out, s1, e1, s2, e2, s3, e3, s4, e4, s5, e5, s6, e6
<1>1. Fits(s1, 0, 1, e1, out)
  BY OneFits, SignalsAre,
     0 \in Nat /\ 1 = 0 + 1, Zenon DEF s1, e1
<1>2. Fits(s2, 0, 2, e2, out)
  BY <1>1, AddOne, SignalsAre,
     0 \in Nat /\ 1 \in Nat /\ 2 = 1 + 1 /\ 2 = 0 + 2, Zenon DEF s2, e2
<1>3. Fits(s3, 0, 3, e3, out)
  BY <1>2, AddOne, SignalsAre,
     0 \in Nat /\ 2 \in Nat /\ 3 = 2 + 1 /\ 3 = 0 + 3, Zenon DEF s3, e3
<1>4. Fits(s4, 0, 4, e4, out)
  BY <1>3, AddOne, SignalsAre,
     0 \in Nat /\ 3 \in Nat /\ 4 = 3 + 1 /\ 4 = 0 + 4, Zenon DEF s4, e4
<1>5. Fits(s5, 0, 5, e5, out)
  BY <1>4, AddOne, SignalsAre,
     0 \in Nat /\ 4 \in Nat /\ 5 = 4 + 1 /\ 5 = 0 + 5, Zenon DEF s5, e5
<1>6. Fits(s6, 0, 17, e6, out)
  BY <1>5, AddUp, SignalsAre,
     0 \in Nat /\ 5 \in Nat /\ 6 = 0 + 5 + 1 /\ 17 = 5 + (11 - 0 + 1), Zenon DEF s6, e6
<1>7. Fits(s6 \o Last28, 0, 28, e6 \cup Last28Enum, {})
  BY <1>6, Last28Ends, Zenon DEF out
<1> QED
  BY <1>7, Zenon
  DEF Pinout6505, Enum6505, WithAt, WithRising, WithFalling, ThenOne, ThenUp, ThenDown, out,
      s1, e1, s2, e2, s3, e3, s4, e4, s5, e5, s6, e6

LEMMA Fits6510x ==
  ASSUME NEW second, NEW other, Pin(second) \in Signals, Pin(other) \in Signals
  PROVE  \E e : Fits(Pinout6510x(second, other), 0, 40, e, {})
<1> DEFINE out == {}
<1>0. Pin(second) \in Signals /\ Pin(other) \in Signals
  OBVIOUS
<1> DEFINE s1 == One("RES")                  e1 == At("RES", 1)
           s2 == ThenOne(s1, second)         e2 == WithAt(e1, second, 2)
           s3 == ThenOne(s2, "IRQ")          e3 == WithAt(e2, "IRQ", 3)
           s4 == ThenOne(s3, "AEC")          e4 == WithAt(e3, "AEC", 4)
           s5 == ThenOne(s4, "Vcc")          e5 == WithAt(e4, "Vcc", 5)
           s6 == ThenUp(s5, "AB", 0, 13)     e6 == WithRising(e5, "AB", 0, 13, 6)
           s7 == ThenOne(s6, "Vss")          e7 == WithAt(e6, "Vss", 20)
           s8 == ThenUp(s7, "AB", 14, 15)    e8 == WithRising(e7, "AB", 14, 15, 21)
           s9 == ThenDown(s8, "P", 7, 0)     e9 == WithFalling(e8, "P", 7, 0, 23)
           s10 == ThenDown(s9, "DB", 7, 0)   e10 == WithFalling(e9, "DB", 7, 0, 31)
           s11 == ThenOne(s10, "RW")         e11 == WithAt(e10, "RW", 39)
           s12 == ThenOne(s11, other)        e12 == WithAt(e11, other, 40)
<1> HIDE DEF out, s1, e1, s2, e2, s3, e3, s4, e4, s5, e5, s6, e6, s7, e7, s8, e8, s9, e9,
             s10, e10, s11, e11, s12, e12
<1>1. Fits(s1, 0, 1, e1, out)
  BY OneFits, SignalsAre,
     0 \in Nat /\ 1 = 0 + 1, Zenon DEF s1, e1
<1>2. Fits(s2, 0, 2, e2, out)
  BY <1>1, AddOne, SignalsAre, <1>0,
     0 \in Nat /\ 1 \in Nat /\ 2 = 1 + 1 /\ 2 = 0 + 2, Zenon DEF s2, e2
<1>3. Fits(s3, 0, 3, e3, out)
  BY <1>2, AddOne, SignalsAre,
     0 \in Nat /\ 2 \in Nat /\ 3 = 2 + 1 /\ 3 = 0 + 3, Zenon DEF s3, e3
<1>4. Fits(s4, 0, 4, e4, out)
  BY <1>3, AddOne, SignalsAre,
     0 \in Nat /\ 3 \in Nat /\ 4 = 3 + 1 /\ 4 = 0 + 4, Zenon DEF s4, e4
<1>5. Fits(s5, 0, 5, e5, out)
  BY <1>4, AddOne, SignalsAre,
     0 \in Nat /\ 4 \in Nat /\ 5 = 4 + 1 /\ 5 = 0 + 5, Zenon DEF s5, e5
<1>6. Fits(s6, 0, 19, e6, out)
  BY <1>5, AddUp, SignalsAre,
     0 \in Nat /\ 5 \in Nat /\ 6 = 0 + 5 + 1 /\ 19 = 5 + (13 - 0 + 1), Zenon DEF s6, e6
<1>7. Fits(s7, 0, 20, e7, out)
  BY <1>6, AddOne, SignalsAre,
     0 \in Nat /\ 19 \in Nat /\ 20 = 19 + 1 /\ 20 = 0 + 20, Zenon DEF s7, e7
<1>8. Fits(s8, 0, 22, e8, out)
  BY <1>7, AddUp, SignalsAre,
     0 \in Nat /\ 20 \in Nat /\ 21 = 0 + 20 + 1 /\ 22 = 20 + (15 - 14 + 1), Zenon DEF s8, e8
<1>9. Fits(s9, 0, 30, e9, out)
  BY <1>8, AddDown, SignalsAre,
     0 \in Nat /\ 22 \in Nat /\ 23 = 0 + 22 + 1 /\ 30 = 22 + (7 - 0 + 1), Zenon DEF s9, e9
<1>10. Fits(s10, 0, 38, e10, out)
  BY <1>9, AddDown, SignalsAre,
     0 \in Nat /\ 30 \in Nat /\ 31 = 0 + 30 + 1 /\ 38 = 30 + (7 - 0 + 1), Zenon DEF s10, e10
<1>11. Fits(s11, 0, 39, e11, out)
  BY <1>10, AddOne, SignalsAre,
     0 \in Nat /\ 38 \in Nat /\ 39 = 38 + 1 /\ 39 = 0 + 39, Zenon DEF s11, e11
<1>12. Fits(s12, 0, 40, e12, out)
  BY <1>11, AddOne, SignalsAre, <1>0,
     0 \in Nat /\ 39 \in Nat /\ 40 = 39 + 1 /\ 40 = 0 + 40, Zenon DEF s12, e12
<1>13. s12 = Pinout6510x(second, other)
  BY Zenon DEF Pinout6510x, ThenOne, ThenUp, ThenDown,
      s1, s2, s3, s4, s5, s6, s7, s8, s9, s10, s11, s12
<1> QED
  BY <1>12, <1>13 DEF out

(* Every signal of the enum has one pin. *)
OneEach(e)    == \A x \in e, y \in e : x[1] = y[1] => x[2] = y[2]
Clear(e, out) == \A x \in e : x[1] \notin out

LEMMA OnePin ==
  /\ OneEach(Enum6502)
  /\ OneEach(Enum6503)
  /\ OneEach(Enum6504)
  /\ OneEach(Enum6505)
  /\ OneEach(Enum6510)
<1>1. OneEach(Enum6502)
  BY DEF OneEach, Enum6502, At, Rising, Falling, Pin
<1>2. OneEach(Enum6503)
  BY DEF OneEach, Enum6503, Last28Enum, At, Rising, Falling, Pin
<1>3. OneEach(Enum6504)
  BY DEF OneEach, Enum6504, Last28Enum, At, Rising, Falling, Pin
<1>4. OneEach(Enum6505)
  BY DEF OneEach, Enum6505, Last28Enum, At, Rising, Falling, Pin
<1>5. OneEach(Enum6510)
  BY DEF OneEach, Enum6510, At, Rising, Falling, Pin
<1> QED
  BY <1>1, <1>2, <1>3, <1>4, <1>5

LEMMA NotLeftOut ==
  Clear(Enum6502, {Pin("Vss"), Pin("none")})
BY DEF Clear, Enum6502, At, Rising, Falling, Pin

(* The numbering of a table that fits is the place of the signal in it. *)
Numbered(e) == [s \in {x[1] : x \in e} |-> CHOOSE pin \in 1 .. 40 : <<s, pin>> \in e]

LEMMA NumberingIs ==
  ASSUME NEW table, NEW n \in 0 .. 40, NEW e, NEW out, Fits(table, 0, n, e, out),
         OneEach(e), Clear(e, out)
  PROVE  \A s \in DOMAIN Numbered(e) :
           /\ s \in Signals /\ Numbered(e)[s] \in 1 .. n
           /\ \A k \in 1 .. n : table[k] = s <=> k = Numbered(e)[s]
<1> DEFINE f == Numbered(e)
<1> SUFFICES ASSUME NEW s \in DOMAIN f
             PROVE  /\ s \in Signals /\ f[s] \in 1 .. n
                    /\ \A k \in 1 .. n : table[k] = s <=> k = f[s]
  OBVIOUS
<1>0. PICK x \in e : s = x[1]
  BY DEF Numbered
<1>1. /\ x = <<x[1], x[2]>> /\ x[1] \in Signals /\ x[2] \in Int
      /\ x[2] \in 1 .. n /\ table[x[2]] = x[1]
  <2>1. x \in Signals \X Int /\ x[2] - 0 \in 1 .. n /\ table[x[2] - 0] = x[1]
    BY DEF Fits
  <2>2. x[2] - 0 = x[2]
    BY <2>1
  <2> QED
    BY <2>1, <2>2
<1>2. f[x[1]] = x[2]
  <2>1. x[2] \in 1 .. 40 /\ <<x[1], x[2]>> \in e
    BY <1>1
  <2> DEFINE q == CHOOSE pin \in 1 .. 40 : <<x[1], pin>> \in e
  <2>2. <<x[1], q>> \in e
    BY <2>1
  <2>3. f[x[1]] = q
    BY DEF Numbered
  <2> HIDE DEF q
  <2>4. <<x[1], q>>[1] = x[1] /\ <<x[1], q>>[2] = q
    OBVIOUS
  <2> QED
    BY <1>1, <2>2, <2>3, <2>4 DEF OneEach
<1>3. ASSUME NEW k \in 1 .. n, table[k] = x[1] PROVE k = x[2]
  <2>1. <<x[1], k + 0>> \in e
    BY <1>3 DEF Fits, Clear
  <2>2. <<x[1], k + 0>>[1] = x[1] /\ <<x[1], k + 0>>[2] = k
    OBVIOUS
  <2> QED
    BY <2>1, <2>2 DEF OneEach
<1> QED
  BY <1>0, <1>1, <1>2, <1>3

(* The models for which the table and the enum agree. *)
Agreed == {"6502", "6503", "6504", "6505", "6510"}

LEMMA EnumIs ==
  ASSUME NEW m \in Agreed
  PROVE  \A s \in DOMAIN EnumPin(m) :
           /\ s \in Signals /\ EnumPin(m)[s] \in 1 .. Len(Pinout(m))
           /\ \A k \in 1 .. Len(Pinout(m)) : Pinout(m)[k] = s <=> k = EnumPin(m)[s]
<1> DEFINE Good(table, e) ==
             \E n, out :
               n \in 0 .. 40 /\ Fits(table, 0, n, e, out) /\ OneEach(e) /\ Clear(e, out)
<1>1. ASSUME NEW table, NEW n \in 0 .. 40, NEW e, Fits(table, 0, n, e, {}), OneEach(e)
      PROVE  Good(table, e)
  <2>1. Clear(e, {})
    BY DEF Clear
  <2> QED
    BY <1>1, <2>1, Zenon
<1>2. Good(Pinout6502, Enum6502)
  BY Fits6502, OnePin, NotLeftOut, 40 \in 0 .. 40, Zenon
<1>3. Good(Pinout6503, Enum6503)
  <2> HIDE DEF Good
  <2> QED
    BY <1>1, Fits6503, OnePin, 28 \in 0 .. 40, Zenon
<1>4. Good(Pinout6504, Enum6504)
  <2> HIDE DEF Good
  <2> QED
    BY <1>1, Fits6504, OnePin, 28 \in 0 .. 40, Zenon
<1>5. Good(Pinout6505, Enum6505)
  <2> HIDE DEF Good
  <2> QED
    BY <1>1, Fits6505, OnePin, 28 \in 0 .. 40, Zenon
<1>6. Good(Pinout6510, Enum6510)
  <2> HIDE DEF Good
  <2> QED
    BY <1>1, Fits6510, OnePin, 40 \in 0 .. 40, Zenon
<1>7. Good(Pinout(m), Numbering(m))
  <2> HIDE DEF Good
  <2>1. \/ Pinout(m) = Pinout6502 /\ Numbering(m) = Enum6502
        \/ Pinout(m) = Pinout6503 /\ Numbering(m) = Enum6503
        \/ Pinout(m) = Pinout6504 /\ Numbering(m) = Enum6504
        \/ Pinout(m) = Pinout6505 /\ Numbering(m) = Enum6505
        \/ Pinout(m) = Pinout6510 /\ Numbering(m) = Enum6510
    BY DEF Pinout, Numbering, Agreed
  <2> QED
    BY <1>2, <1>3, <1>4, <1>5, <1>6, <2>1, Zenon
<1> DEFINE table == Pinout(m)
           e == Numbering(m)
           f == EnumPin(m)
<1>8. f = Numbered(e)
  BY Zenon DEF EnumPin, Numbered
<1>9. Good(table, e)
  BY <1>7
<1> HIDE DEF table, e, f
<1>10. PICK n, out :
         n \in 0 .. 40 /\ Fits(table, 0, n, e, out) /\ OneEach(e) /\ Clear(e, out)
  BY <1>9, Zenon
<1>11. n = Len(table)
  BY <1>10 DEF Fits
<1>12. \A s \in DOMAIN f :
         /\ s \in Signals /\ f[s] \in 1 .. n
         /\ \A k \in 1 .. n : table[k] = s <=> k = f[s]
  <2>1. \A s \in DOMAIN Numbered(e) :
          /\ s \in Signals /\ Numbered(e)[s] \in 1 .. n
          /\ \A k \in 1 .. n : table[k] = s <=> k = Numbered(e)[s]
    BY <1>10, NumberingIs
  <2> QED
    BY <1>8, <2>1, Zenon
<1> QED
  BY <1>11, <1>12, Zenon DEF table, f

LEMMA PinoutIs ==
  ASSUME NEW m \in Models
  PROVE  Pinout(m) \in Seq(Signals)
<1>1. \A s, n, e, out : Fits(s, 0, n, e, out) => s \in Seq(Signals)
  BY Zenon DEF Fits
<1>2. m \in {"6510_1", "6510_2"} => \E second, other : /\ Pinout(m) = Pinout6510x(second, other)
                                                     /\ Pin(second) \in Signals /\ Pin(other) \in Signals
  BY SignalsAre DEF Pinout
<1>3. m \in Agreed => Pinout(m) \in {Pinout6502, Pinout6503, Pinout6504, Pinout6505, Pinout6510}
  BY DEF Pinout, Agreed
<1>4. m \in Agreed \/ m \in {"6510_1", "6510_2"}
  BY DEF Models, Agreed
<1>5. CASE m \in Agreed
  BY <1>5, <1>1, <1>3, Fits6502, Fits6503, Fits6504, Fits6505, Fits6510, Zenon
<1>6. CASE m \in {"6510_1", "6510_2"}
  <2>1. PICK second, other : /\ Pinout(m) = Pinout6510x(second, other)
                             /\ Pin(second) \in Signals /\ Pin(other) \in Signals
    BY <1>2, <1>6, Zenon
  <2>2. PICK e : Fits(Pinout6510x(second, other), 0, 40, e, {})
    BY <2>1, Fits6510x, Zenon
  <2> QED
    BY <1>1, <2>1, <2>2, Zenon
<1> QED
  BY <1>4, <1>5, <1>6, Zenon

(* The buses are on the pins, and no number is given to a missing signal. *)
Has(e, s) == \E x \in e : x[1] = s

LEMMA RunsHave ==
  ASSUME NEW name, NEW lo \in Nat, NEW hi \in Nat, NEW pin \in Nat, NEW i \in lo .. hi
  PROVE  /\ Has(Rising(name, lo, hi, pin), <<name, i>>)
         /\ Has(Falling(name, hi, lo, pin), <<name, i>>)
<1>1. <<<<name, i>>, pin + (i - lo)>> \in Rising(name, lo, hi, pin)
  BY DEF Rising
<1>2. <<<<name, i>>, pin + (hi - i)>> \in Falling(name, hi, lo, pin)
  BY DEF Falling
<1>3. \A p : <<<<name, i>>, p>>[1] = <<name, i>>
  OBVIOUS
<1> QED
  BY <1>1, <1>2, <1>3, Zenon DEF Has

LEMMA NumberedBuses ==
  ASSUME NEW m \in Agreed
  PROVE  /\ \A i \in 0 .. 7 : <<"DB", i>> \in DOMAIN EnumPin(m)
         /\ \A i \in 0 .. AddressBusWidth(m) - 1 : <<"AB", i>> \in DOMAIN EnumPin(m)
         /\ Pin("none") \notin DOMAIN EnumPin(m)
<1> DEFINE Buses(e, w) ==
             /\ \A i \in 0 .. 7 : Has(e, <<"DB", i>>)
             /\ \A i \in 0 .. w - 1 : Has(e, <<"AB", i>>)
             /\ \A x \in e : x[1] # Pin("none")
<1>1. Buses(Enum6502, 16)
  <2>1. \A i \in 0 .. 7 : Has(Enum6502, <<"DB", i>>)
    <3> TAKE i \in 0 .. 7
    <3>1. Has(Falling("DB", 7, 0, 26), <<"DB", i>>)
      BY RunsHave, 7 \in Nat /\ 0 \in Nat /\ 26 \in Nat, Zenon
    <3> QED
      BY <3>1, Zenon DEF Has, Enum6502
  <2>2. \A i \in 0 .. 15 : Has(Enum6502, <<"AB", i>>)
    <3> TAKE i \in 0 .. 15
    <3>1. \/ Has(Rising("AB", 0, 11, 9), <<"AB", i>>)
          \/ Has(Rising("AB", 12, 15, 22), <<"AB", i>>)
      <4>1. CASE i \in 0 .. 11
        BY <4>1, RunsHave, 0 \in Nat /\ 11 \in Nat /\ 9 \in Nat, Zenon
      <4>2. CASE i \in 12 .. 15
        BY <4>2, RunsHave, 12 \in Nat /\ 15 \in Nat /\ 22 \in Nat, Zenon
      <4> QED
        BY <4>1, <4>2
    <3> QED
      BY <3>1, Zenon DEF Has, Enum6502
  <2>3. \A x \in Enum6502 : x[1] # Pin("none")
    BY DEF Enum6502, At, Rising, Falling, Pin
  <2>4. 16 - 1 = 15
    OBVIOUS
  <2> QED
    BY <2>1, <2>2, <2>3, <2>4, Zenon
<1>2. Buses(Enum6503, 11)
  <2>1. \A i \in 0 .. 7 : Has(Enum6503, <<"DB", i>>)
    <3> TAKE i \in 0 .. 7
    <3>1. Has(Falling("DB", 7, 0, 18), <<"DB", i>>)
      BY RunsHave, 7 \in Nat /\ 0 \in Nat /\ 18 \in Nat, Zenon
    <3> QED
      BY <3>1, Zenon DEF Has, Enum6503, Last28Enum
  <2>2. \A i \in 0 .. 10 : Has(Enum6503, <<"AB", i>>)
    <3> TAKE i \in 0 .. 10
    <3>1. Has(Rising("AB", 0, 11, 6), <<"AB", i>>)
      BY RunsHave, 0 \in Nat /\ 11 \in Nat /\ 6 \in Nat /\ i \in 0 .. 11, Zenon
    <3> QED
      BY <3>1, Zenon DEF Has, Enum6503
  <2>3. \A x \in Enum6503 : x[1] # Pin("none")
    BY DEF Enum6503, Last28Enum, At, Rising, Falling, Pin
  <2>4. 11 - 1 = 10
    OBVIOUS
  <2> QED
    BY <2>1, <2>2, <2>3, <2>4, Zenon
<1>3. Buses(Enum6504, 12)
  <2>1. \A i \in 0 .. 7 : Has(Enum6504, <<"DB", i>>)
    <3> TAKE i \in 0 .. 7
    <3>1. Has(Falling("DB", 7, 0, 18), <<"DB", i>>)
      BY RunsHave, 7 \in Nat /\ 0 \in Nat /\ 18 \in Nat, Zenon
    <3> QED
      BY <3>1, Zenon DEF Has, Enum6504, Last28Enum
  <2>2. \A i \in 0 .. 11 : Has(Enum6504, <<"AB", i>>)
    <3> TAKE i \in 0 .. 11
    <3>1. Has(Rising("AB", 0, 12, 5), <<"AB", i>>)
      BY RunsHave, 0 \in Nat /\ 12 \in Nat /\ 5 \in Nat /\ i \in 0 .. 12, Zenon
    <3> QED
      BY <3>1, Zenon DEF Has, Enum6504
  <2>3. \A x \in Enum6504 : x[1] # Pin("none")
    BY DEF Enum6504, Last28Enum, At, Rising, Falling, Pin
  <2>4. 12 - 1 = 11
    OBVIOUS
  <2> QED
    BY <2>1, <2>2, <2>3, <2>4, Zenon
<1>4. Buses(Enum6505, 11)
  <2>1. \A i \in 0 .. 7 : Has(Enum6505, <<"DB", i>>)
    <3> TAKE i \in 0 .. 7
    <3>1. Has(Falling("DB", 7, 0, 18), <<"DB", i>>)
      BY RunsHave, 7 \in Nat /\ 0 \in Nat /\ 18 \in Nat, Zenon
    <3> QED
      BY <3>1, Zenon DEF Has, Enum6505, Last28Enum
  <2>2. \A i \in 0 .. 10 : Has(Enum6505, <<"AB", i>>)
    <3> TAKE i \in 0 .. 10
    <3>1. Has(Rising("AB", 0, 11, 6), <<"AB", i>>)
      BY RunsHave, 0 \in Nat /\ 11 \in Nat /\ 6 \in Nat /\ i \in 0 .. 11, Zenon
    <3> QED
      BY <3>1, Zenon DEF Has, Enum6505
  <2>3. \A x \in Enum6505 : x[1] # Pin("none")
    BY DEF Enum6505, Last28Enum, At, Rising, Falling, Pin
  <2>4. 11 - 1 = 10
    OBVIOUS
  <2> QED
    BY <2>1, <2>2, <2>3, <2>4, Zenon
<1>5. Buses(Enum6510, 16)
  <2>1. \A i \in 0 .. 7 : Has(Enum6510, <<"DB", i>>)
    <3> TAKE i \in 0 .. 7
    <3>1. Has(Falling("DB", 7, 0, 30), <<"DB", i>>)
      BY RunsHave, 7 \in Nat /\ 0 \in Nat /\ 30 \in Nat, Zenon
    <3> QED
      BY <3>1, Zenon DEF Has, Enum6510
  <2>2. \A i \in 0 .. 15 : Has(Enum6510, <<"AB", i>>)
    <3> TAKE i \in 0 .. 15
    <3>1. \/ Has(Rising("AB", 0, 13, 7), <<"AB", i>>)
          \/ Has(Rising("AB", 14, 15, 22), <<"AB", i>>)
      <4>1. CASE i \in 0 .. 13
        BY <4>1, RunsHave, 0 \in Nat /\ 13 \in Nat /\ 7 \in Nat, Zenon
      <4>2. CASE i \in 14 .. 15
        BY <4>2, RunsHave, 14 \in Nat /\ 15 \in Nat /\ 22 \in Nat, Zenon
      <4> QED
        BY <4>1, <4>2
    <3> QED
      BY <3>1, Zenon DEF Has, Enum6510
  <2>3. \A x \in Enum6510 : x[1] # Pin("none")
    BY DEF Enum6510, At, Rising, Falling, Pin
  <2>4. 16 - 1 = 15
    OBVIOUS
  <2> QED
    BY <2>1, <2>2, <2>3, <2>4, Zenon
<1> HIDE DEF Buses
<1>6. Buses(Numbering(m), AddressBusWidth(m))
  BY <1>1, <1>2, <1>3, <1>4, <1>5 DEF Numbering, AddressBusWidth, Agreed
<1>7. DOMAIN EnumPin(m) = {x[1] : x \in Numbering(m)}
  BY DEF EnumPin
<1>8. \A s : s \in DOMAIN EnumPin(m) <=> Has(Numbering(m), s)
  BY <1>7, Zenon DEF Has
<1>9. Pin("none") \notin DOMAIN EnumPin(m)
  BY <1>6, <1>8, Zenon DEF Buses, Has
<1> QED
  BY <1>6, <1>8, <1>9, Zenon DEF Buses

-----------------------------------------------------------------------------
(* The recursive functions that read several nodes or pins.                *)

(* Going up from 0 by single steps, one comes to n. *)
LEMMA Climb ==
  ASSUME NEW n \in Nat, NEW Reached, 0 \in Reached,
         \A m \in 0 .. n : m < n /\ m \in Reached => m + 1 \in Reached
  PROVE  n \in Reached
<1> DEFINE Missing == {m \in 0 .. n : m \notin Reached}
<1> SUFFICES ASSUME Missing # {} PROVE FALSE
  BY n \in 0 .. n
<1>1. Missing \subseteq Nat
  OBVIOUS
<1>2. PICK m \in Missing : \A k \in Missing : <<k, m>> \notin OpToRel(<, Nat)
  <2> HIDE DEF Missing
  <2> QED
    BY <1>1, NatLessThanWellFounded, WFMin
<1>3. m - 1 \in 0 .. n /\ m - 1 < n /\ (m - 1) + 1 = m
  BY m # 0
<1>4. m - 1 \in Missing
  BY <1>3
<1>5. <<m - 1, m>> \in Nat \X Nat /\ <<m - 1, m>>[1] < <<m - 1, m>>[2]
  BY <1>3
<1> QED
  BY <1>2, <1>4, <1>5 DEF OpToRel

LEMMA Recursion ==
  ASSUME NEW n \in Nat, NEW c \in Nat, NEW b \in [1 .. n -> Nat]
  PROVE  \E f \in [0 .. n -> Nat] :
           f = [k \in 0 .. n |-> IF k = 0 THEN 0 ELSE c * f[k - 1] + b[k]]
<1> DEFINE Upto(m, f) == /\ f \in [0 .. m -> Nat]
                         /\ f[0] = 0
                         /\ \A k \in 1 .. m : f[k] = c * f[k - 1] + b[k]
<1>1. Upto(0, [k \in 0 .. 0 |-> 0])
  OBVIOUS
<1>2. ASSUME NEW m \in 0 .. n, m < n, NEW f, Upto(m, f)
      PROVE  \E g : Upto(m + 1, g)
  <2> DEFINE g == [k \in 0 .. m + 1 |-> IF k = m + 1 THEN c * f[m] + b[m + 1] ELSE f[k]]
  <2>1. b[m + 1] \in Nat /\ f[m] \in Nat /\ c * f[m] \in Nat
    BY <1>2
  <2>2. g \in [0 .. m + 1 -> Nat]
    BY <1>2, <2>1
  <2>3. g[0] = 0 /\ \A k \in 0 .. m : g[k] = f[k]
    BY <1>2
  <2>4. g[m + 1] = c * g[m] + b[m + 1]
    BY <1>2, <2>3
  <2>5. \A k \in 1 .. m + 1 : g[k] = c * g[k - 1] + b[k]
    <3> TAKE k \in 1 .. m + 1
    <3> HIDE DEF g
    <3>1. CASE k = m + 1
      <4>1. (m + 1) - 1 = m
        OBVIOUS
      <4> QED
        BY <2>4, <3>1, <4>1
    <3>2. CASE k # m + 1
      <4>1. k \in 1 .. m /\ k - 1 \in 0 .. m /\ k \in 0 .. m
        BY <3>2
      <4>2. f[k] = c * f[k - 1] + b[k]
        BY <1>2, <4>1
      <4> QED
        BY <2>3, <4>1, <4>2
    <3> QED
      BY <3>1, <3>2
  <2> HIDE DEF g
  <2> QED
    BY <2>2, <2>3, <2>5
<1>3. \E f : Upto(n, f)
  <2> DEFINE Done == {m \in 0 .. n : \E f : Upto(m, f)}
  <2> HIDE DEF Upto
  <2>1. 0 \in Done
    BY <1>1
  <2>2. \A m \in 0 .. n : m < n /\ m \in Done => m + 1 \in Done
    BY <1>2
  <2> HIDE DEF Done
  <2>3. n \in Done
    BY <2>1, <2>2, Climb
  <2> QED
    BY <2>3 DEF Done
<1>4. PICK f : Upto(n, f)
  BY <1>3
<1>5. /\ f \in [0 .. n -> Nat]
      /\ f = [k \in 0 .. n |-> IF k = 0 THEN 0 ELSE c * f[k - 1] + b[k]]
  BY <1>4
<1> QED
  BY <1>5, Zenon

Set(b) == IF b THEN 1 ELSE 0

LEMMA ReadIs ==
  ASSUME NEW ids, NEW n \in Nat, Len(ids) = n
  PROVE  \E read : /\ read[0] = 0
                   /\ \A k \in 1 .. n : read[k] = 2 * read[k - 1] + Set(GetNode(ids[k]))
                   /\ ReadNodes(ids) = read[n]
<1> DEFINE F(f) == [k \in 0 .. n |->
                      IF k = 0 THEN 0 ELSE 2 * f[k - 1] + (IF GetNode(ids[k]) THEN 1 ELSE 0)]
           b == [k \in 1 .. n |-> Set(GetNode(ids[k]))]
           read == CHOOSE f : f = F(f)
<1>1. b \in [1 .. n -> Nat]
  BY DEF Set
<1>2. \E f \in [0 .. n -> Nat] :
        f = [k \in 0 .. n |-> IF k = 0 THEN 0 ELSE 2 * f[k - 1] + b[k]]
  <2> HIDE DEF b
  <2> QED
    BY <1>1, 2 \in Nat, Recursion
<1>3. \E f : f = F(f)
  <2>1. \A k \in 0 .. n : k # 0 => b[k] = IF GetNode(ids[k]) THEN 1 ELSE 0
    BY DEF Set
  <2>2. \A f : [k \in 0 .. n |-> IF k = 0 THEN 0 ELSE 2 * f[k - 1] + b[k]] = F(f)
    <3> HIDE DEF b
    <3> QED
      BY <2>1
  <2> HIDE DEF F, b
  <2> QED
    BY <1>2, <2>2
<1>4. read = F(read)
  <2> HIDE DEF F
  <2> QED
    BY <1>3
<1>5. ReadNodes(ids) = read[n]
  BY DEF ReadNodes
<1> HIDE DEF read, b
<1>6. read[0] = 0 /\ \A k \in 1 .. n : read[k] = 2 * read[k - 1] + Set(GetNode(ids[k]))
  BY <1>4 DEF Set
<1> QED
  BY <1>5, <1>6

LEMMA PinsValueIs ==
  ASSUME NEW name, NEW n \in Nat, \A i \in 1 .. n : 2 ^ (i - 1) \in Nat
  PROVE  \E value :
           /\ value[0] = 0
           /\ \A i \in 1 .. n :
                value[i] = value[i - 1]
                           + (IF PinRead(EnumPin(model)[<<name, i - 1>>]) THEN 2 ^ (i - 1) ELSE 0)
           /\ PinsValue(name, n) = value[n]
<1> DEFINE Weight(i) == IF PinRead(EnumPin(model)[<<name, i - 1>>]) THEN 2 ^ (i - 1) ELSE 0
           F(f) == [i \in 0 .. n |-> IF i = 0 THEN 0 ELSE f[i - 1] + Weight(i)]
           b == [i \in 1 .. n |-> Weight(i)]
           value == CHOOSE f : f = F(f)
<1>1. b \in [1 .. n -> Nat]
  BY 0 \in Nat
<1>2. \A i \in 0 .. n : i # 0 => b[i] = Weight(i)
  OBVIOUS
<1>3. PinsValue(name, n) = value[n]
  BY DEF PinsValue
<1> HIDE DEF b, Weight
<1>4. PICK f \in [0 .. n -> Nat] : f = [k \in 0 .. n |-> IF k = 0 THEN 0 ELSE 1 * f[k - 1] + b[k]]
  BY <1>1, 1 \in Nat, Recursion
<1>5. f = F(f)
  <2>1. \A k \in 0 .. n : k # 0 => 1 * f[k - 1] = f[k - 1]
    OBVIOUS
  <2>2. [k \in 0 .. n |-> IF k = 0 THEN 0 ELSE 1 * f[k - 1] + b[k]] = F(f)
    BY <1>2, <2>1
  <2> QED
    BY <1>4, <2>2
<1>6. value = F(value)
  <2> HIDE DEF F
  <2> QED
    BY <1>5
<1> HIDE DEF value
<1>7. value[0] = 0 /\ \A i \in 1 .. n : value[i] = value[i - 1] + Weight(i)
  BY <1>6
<1> QED
  BY <1>3, <1>7 DEF Weight

-----------------------------------------------------------------------------
(* Bits and bytes.                                                         *)

LEMMA Powers ==
  /\ 2 ^ 0 = 1 /\ 2 ^ 1 = 2 /\ 2 ^ 2 = 4 /\ 2 ^ 3 = 8
  /\ 2 ^ 4 = 16 /\ 2 ^ 5 = 32 /\ 2 ^ 6 = 64 /\ 2 ^ 7 = 128
OBVIOUS

LEMMA PowersAre ==
  ASSUME NEW i \in 0 .. 7
  PROVE  \/ (i = 0 /\ 2 ^ i = 1) \/ (i = 1 /\ 2 ^ i = 2) \/ (i = 2 /\ 2 ^ i = 4)
         \/ (i = 3 /\ 2 ^ i = 8) \/ (i = 4 /\ 2 ^ i = 16) \/ (i = 5 /\ 2 ^ i = 32)
         \/ (i = 6 /\ 2 ^ i = 64) \/ (i = 7 /\ 2 ^ i = 128)
<1>1. i = 0 => 2 ^ i = 1
  BY Powers, Zenon
<1>2. i = 1 => 2 ^ i = 2
  BY Powers, Zenon
<1>3. i = 2 => 2 ^ i = 4
  BY Powers, Zenon
<1>4. i = 3 => 2 ^ i = 8
  BY Powers, Zenon
<1>5. i = 4 => 2 ^ i = 16
  BY Powers, Zenon
<1>6. i = 5 => 2 ^ i = 32
  BY Powers, Zenon
<1>7. i = 6 => 2 ^ i = 64
  BY Powers, Zenon
<1>8. i = 7 => 2 ^ i = 128
  BY Powers, Zenon
<1>9. \/ i = 0 \/ i = 1 \/ i = 2 \/ i = 3 \/ i = 4 \/ i = 5 \/ i = 6 \/ i = 7
  OBVIOUS
<1> QED
  BY <1>1, <1>2, <1>3, <1>4, <1>5, <1>6, <1>7, <1>8, <1>9, SMT

(* A byte read off its bits, the highest first, is the number they are of. *)
LEMMA HighestFirst ==
  ASSUME NEW v \in Nat, NEW read, read[0] = 0,
         \A k \in 1 .. 8 : read[k] = 2 * read[k - 1] + Set(Bit(v, 8 - k))
  PROVE  read[8] = v % 256
<1>1. /\ read[1] = 2 * read[0] + ((v \div 128) % 2)
      /\ read[2] = 2 * read[1] + ((v \div 64) % 2)
      /\ read[3] = 2 * read[2] + ((v \div 32) % 2)
      /\ read[4] = 2 * read[3] + ((v \div 16) % 2)
      /\ read[5] = 2 * read[4] + ((v \div 8) % 2)
      /\ read[6] = 2 * read[5] + ((v \div 4) % 2)
      /\ read[7] = 2 * read[6] + ((v \div 2) % 2)
      /\ read[8] = 2 * read[7] + (v % 2)
  <2>1. \A w \in Nat : Set(w % 2 = 1) = w % 2
    BY DEF Set
  <2>2. \A i \in 0 .. 7 : Set(Bit(v, i)) = (v \div 2 ^ i) % 2
    <3> TAKE i \in 0 .. 7
    <3>1. v \div 2 ^ i \in Nat
      <4>1. \A d \in {1, 2, 4, 8, 16, 32, 64, 128} : v \div d \in Nat
        OBVIOUS
      <4>2. 2 ^ i \in {1, 2, 4, 8, 16, 32, 64, 128}
        BY PowersAre, Zenon
      <4> QED
        BY <4>1, <4>2, Zenon
    <3> QED
      BY <2>1, <3>1 DEF Bit
  <2>3. \A i \in 0 .. 7 : read[8 - i] = 2 * read[7 - i] + ((v \div 2 ^ i) % 2)
    <3> TAKE i \in 0 .. 7
    <3>1. 8 - i \in 1 .. 8 /\ (8 - i) - 1 = 7 - i /\ 8 - (8 - i) = i
      OBVIOUS
    <3> QED
      BY <2>2, <3>1
  <2>4. v \div 2 ^ 0 = v
    BY Powers
  <2> HIDE <2>1, <2>2
  <2>5. /\ 8 - 7 = 1 /\ 8 - 6 = 2 /\ 8 - 5 = 3 /\ 8 - 4 = 4 /\ 8 - 3 = 5 /\ 8 - 2 = 6
        /\ 8 - 1 = 7 /\ 8 - 0 = 8
        /\ 7 - 7 = 0 /\ 7 - 6 = 1 /\ 7 - 5 = 2 /\ 7 - 4 = 3 /\ 7 - 3 = 4 /\ 7 - 2 = 5
        /\ 7 - 1 = 6 /\ 7 - 0 = 7
    OBVIOUS
  <2> QED
    BY <2>3, <2>4, <2>5, Powers
<1>2. /\ v \div 128 = 2 * (v \div 256) + ((v \div 128) % 2)
      /\ v \div 64 = 2 * (v \div 128) + ((v \div 64) % 2)
      /\ v \div 32 = 2 * (v \div 64) + ((v \div 32) % 2)
      /\ v \div 16 = 2 * (v \div 32) + ((v \div 16) % 2)
      /\ v \div 8 = 2 * (v \div 16) + ((v \div 8) % 2)
      /\ v \div 4 = 2 * (v \div 8) + ((v \div 4) % 2)
      /\ v \div 2 = 2 * (v \div 4) + ((v \div 2) % 2)
      /\ v = 2 * (v \div 2) + (v % 2)
      /\ v % 256 = v - 256 * (v \div 256)
  OBVIOUS
<1>3. read[8] = v - 256 * (v \div 256)
  BY <1>1, <1>2
<1> QED
  BY <1>2, <1>3

(* The bits of a byte, the highest first, are its bits. *)
LEMMA BitsOf ==
  ASSUME NEW b \in [0 .. 7 -> BOOLEAN], NEW v,
         v = 128 * Set(b[7]) + 64 * Set(b[6]) + 32 * Set(b[5]) + 16 * Set(b[4])
             + 8 * Set(b[3]) + 4 * Set(b[2]) + 2 * Set(b[1]) + Set(b[0])
  PROVE  \A i \in 0 .. 7 : Bit(v, i) <=> b[i]
<1> DEFINE c(i) == Set(b[i])
<1>1. \A i \in 0 .. 7 : c(i) \in {0, 1} /\ (c(i) = 1 <=> b[i])
  BY DEF Set
<1>2. v = 128 * c(7) + 64 * c(6) + 32 * c(5) + 16 * c(4) + 8 * c(3) + 4 * c(2) + 2 * c(1) + c(0)
  OBVIOUS
<1> HIDE DEF c
<1>3. /\ (v \div 128) % 2 = c(7) /\ (v \div 64) % 2 = c(6)
      /\ (v \div 32) % 2 = c(5) /\ (v \div 16) % 2 = c(4)
      /\ (v \div 8) % 2 = c(3) /\ (v \div 4) % 2 = c(2)
      /\ (v \div 2) % 2 = c(1) /\ v % 2 = c(0)
  <2> DEFINE w == 16 * c(7) + 8 * c(6) + 4 * c(5) + 2 * c(4) + c(3)
             l == 4 * c(2) + 2 * c(1) + c(0)
  <2>1. c(0) \in 0 .. 1 /\ c(1) \in 0 .. 1 /\ c(2) \in 0 .. 1 /\ c(3) \in 0 .. 1
        /\ c(4) \in 0 .. 1 /\ c(5) \in 0 .. 1 /\ c(6) \in 0 .. 1 /\ c(7) \in 0 .. 1
    BY <1>1
  <2>2. v = 8 * w + l /\ w \in 0 .. 31 /\ l \in 0 .. 7
    BY <1>2, <2>1
  <2>3. w % 2 = c(3) /\ (w \div 2) % 2 = c(4) /\ (w \div 4) % 2 = c(5) /\ (w \div 8) % 2 = c(6)
        /\ (w \div 16) % 2 = c(7)
    BY <2>1
  <2>4. l % 2 = c(0) /\ (l \div 2) % 2 = c(1) /\ (l \div 4) % 2 = c(2)
    BY <2>1
  <2> HIDE DEF w, l
  <2>5. v \div 8 = w /\ v \div 16 = w \div 2 /\ v \div 32 = w \div 4 /\ v \div 64 = w \div 8
        /\ v \div 128 = w \div 16
    BY <2>2
  <2>6. v % 2 = l % 2 /\ (v \div 2) % 2 = (l \div 2) % 2 /\ (v \div 4) % 2 = (l \div 4) % 2
    <3>1. v \div 2 = 4 * w + (l \div 2)
      BY <2>2
    <3>2. v \div 4 = 2 * w + (l \div 4)
      BY <2>2
    <3>3. v % 2 = l % 2
      BY <2>2
    <3>4. (v \div 2) % 2 = (l \div 2) % 2
      BY <2>2, <3>1
    <3>5. (v \div 4) % 2 = (l \div 4) % 2
      BY <2>2, <3>2
    <3> QED
      BY <3>3, <3>4, <3>5
  <2> QED
    BY <2>3, <2>4, <2>5, <2>6
<1>4. v \div 1 = v
  BY <1>1, <1>2
<1>5. \A i \in 0 .. 7 : (v \div 2 ^ i) % 2 = c(i)
  <2> TAKE i \in 0 .. 7
  <2>1. i = 0 => (v \div 2 ^ i) % 2 = c(i)
    BY <1>3, <1>4, 2 ^ 0 = 1
  <2>2. i = 1 => (v \div 2 ^ i) % 2 = c(i)
    BY <1>3, <1>4, 2 ^ 1 = 2
  <2>3. i = 2 => (v \div 2 ^ i) % 2 = c(i)
    BY <1>3, <1>4, 2 ^ 2 = 4
  <2>4. i = 3 => (v \div 2 ^ i) % 2 = c(i)
    BY <1>3, <1>4, 2 ^ 3 = 8
  <2>5. i = 4 => (v \div 2 ^ i) % 2 = c(i)
    BY <1>3, <1>4, 2 ^ 4 = 16
  <2>6. i = 5 => (v \div 2 ^ i) % 2 = c(i)
    BY <1>3, <1>4, 2 ^ 5 = 32
  <2>7. i = 6 => (v \div 2 ^ i) % 2 = c(i)
    BY <1>3, <1>4, 2 ^ 6 = 64
  <2>8. i = 7 => (v \div 2 ^ i) % 2 = c(i)
    BY <1>3, <1>4, 2 ^ 7 = 128
  <2> QED
    BY <2>1, <2>2, <2>3, <2>4, <2>5, <2>6, <2>7, <2>8
<1>6. \A i \in 0 .. 7 : (v \div 2 ^ i) % 2 = 1 <=> b[i]
  <2> TAKE i \in 0 .. 7
  <2>1. c(i) = 1 <=> b[i]
    BY <1>1
  <2> QED
    BY <1>5, <2>1, Zenon
<1> QED
  BY <1>6, Zenon DEF Bit

(* The weights of the bits. *)
LEMMA Doubling ==
  ASSUME NEW i \in 0 .. 15
  PROVE  2 ^ i \in Nat \ {0} /\ 2 ^ (i + 1) = 2 * 2 ^ i
<1>1. i = 0 => 2 ^ i \in Nat \ {0} /\ 2 ^ (i + 1) = 2 * 2 ^ i
  BY 2 ^ 0 \in Nat \ {0} /\ 2 ^ (0 + 1) = 2 * 2 ^ 0, Zenon
<1>2. i = 1 => 2 ^ i \in Nat \ {0} /\ 2 ^ (i + 1) = 2 * 2 ^ i
  BY 2 ^ 1 \in Nat \ {0} /\ 2 ^ (1 + 1) = 2 * 2 ^ 1, Zenon
<1>3. i = 2 => 2 ^ i \in Nat \ {0} /\ 2 ^ (i + 1) = 2 * 2 ^ i
  BY 2 ^ 2 \in Nat \ {0} /\ 2 ^ (2 + 1) = 2 * 2 ^ 2, Zenon
<1>4. i = 3 => 2 ^ i \in Nat \ {0} /\ 2 ^ (i + 1) = 2 * 2 ^ i
  BY 2 ^ 3 \in Nat \ {0} /\ 2 ^ (3 + 1) = 2 * 2 ^ 3, Zenon
<1>5. i = 4 => 2 ^ i \in Nat \ {0} /\ 2 ^ (i + 1) = 2 * 2 ^ i
  BY 2 ^ 4 \in Nat \ {0} /\ 2 ^ (4 + 1) = 2 * 2 ^ 4, Zenon
<1>6. i = 5 => 2 ^ i \in Nat \ {0} /\ 2 ^ (i + 1) = 2 * 2 ^ i
  BY 2 ^ 5 \in Nat \ {0} /\ 2 ^ (5 + 1) = 2 * 2 ^ 5, Zenon
<1>7. i = 6 => 2 ^ i \in Nat \ {0} /\ 2 ^ (i + 1) = 2 * 2 ^ i
  BY 2 ^ 6 \in Nat \ {0} /\ 2 ^ (6 + 1) = 2 * 2 ^ 6, Zenon
<1>8. i = 7 => 2 ^ i \in Nat \ {0} /\ 2 ^ (i + 1) = 2 * 2 ^ i
  BY 2 ^ 7 \in Nat \ {0} /\ 2 ^ (7 + 1) = 2 * 2 ^ 7, Zenon
<1>9. i = 8 => 2 ^ i \in Nat \ {0} /\ 2 ^ (i + 1) = 2 * 2 ^ i
  BY 2 ^ 8 \in Nat \ {0} /\ 2 ^ (8 + 1) = 2 * 2 ^ 8, Zenon
<1>10. i = 9 => 2 ^ i \in Nat \ {0} /\ 2 ^ (i + 1) = 2 * 2 ^ i
  BY 2 ^ 9 \in Nat \ {0} /\ 2 ^ (9 + 1) = 2 * 2 ^ 9, Zenon
<1>11. i = 10 => 2 ^ i \in Nat \ {0} /\ 2 ^ (i + 1) = 2 * 2 ^ i
  BY 2 ^ 10 \in Nat \ {0} /\ 2 ^ (10 + 1) = 2 * 2 ^ 10, Zenon
<1>12. i = 11 => 2 ^ i \in Nat \ {0} /\ 2 ^ (i + 1) = 2 * 2 ^ i
  BY 2 ^ 11 \in Nat \ {0} /\ 2 ^ (11 + 1) = 2 * 2 ^ 11, Zenon
<1>13. i = 12 => 2 ^ i \in Nat \ {0} /\ 2 ^ (i + 1) = 2 * 2 ^ i
  BY 2 ^ 12 \in Nat \ {0} /\ 2 ^ (12 + 1) = 2 * 2 ^ 12, Zenon
<1>14. i = 13 => 2 ^ i \in Nat \ {0} /\ 2 ^ (i + 1) = 2 * 2 ^ i
  BY 2 ^ 13 \in Nat \ {0} /\ 2 ^ (13 + 1) = 2 * 2 ^ 13, Zenon
<1>15. i = 14 => 2 ^ i \in Nat \ {0} /\ 2 ^ (i + 1) = 2 * 2 ^ i
  BY 2 ^ 14 \in Nat \ {0} /\ 2 ^ (14 + 1) = 2 * 2 ^ 14, Zenon
<1>16. i = 15 => 2 ^ i \in Nat \ {0} /\ 2 ^ (i + 1) = 2 * 2 ^ i
  BY 2 ^ 15 \in Nat \ {0} /\ 2 ^ (15 + 1) = 2 * 2 ^ 15, Zenon
<1>17. \/ i = 0 \/ i = 1 \/ i = 2 \/ i = 3 \/ i = 4 \/ i = 5 \/ i = 6 \/ i = 7
       \/ i = 8 \/ i = 9 \/ i = 10 \/ i = 11 \/ i = 12 \/ i = 13 \/ i = 14 \/ i = 15
  OBVIOUS
<1> QED
  BY <1>1, <1>2, <1>3, <1>4, <1>5, <1>6, <1>7, <1>8, <1>9,
     <1>10, <1>11, <1>12, <1>13, <1>14, <1>15, <1>16, <1>17, Zenon

(* The value of a bus, from its highest bit down and from its lowest up.   *)
HighBitFirst(read, b, n) ==
  /\ read[0] = 0
  /\ \A k \in 1 .. n : read[k] = 2 * read[k - 1] + Set(b[n - k])

LowBitFirst(value, b, n) ==
  /\ value[0] = 0
  /\ \A i \in 1 .. n : value[i] = value[i - 1] + (IF b[i - 1] THEN 2 ^ (i - 1) ELSE 0)

LEMMA SameValue ==
  ASSUME NEW n \in 0 .. 16, NEW b, NEW read, NEW value,
         HighBitFirst(read, b, n), LowBitFirst(value, b, n)
  PROVE  read[n] = value[n]
<1> USE DEF HighBitFirst, LowBitFirst
<1> DEFINE Sums == {i \in 0 .. n : value[i] \in Int}
           Rest == {k \in 0 .. n : read[k] \in Int /\ value[n] = value[n - k] + 2 ^ (n - k) * read[k]}
<1>1. \A i \in 0 .. n : value[i] \in Int
  <2> SUFFICES ASSUME NEW i \in 0 .. n PROVE i \in Sums
    OBVIOUS
  <2>1. 0 \in Sums
    OBVIOUS
  <2>2. ASSUME NEW m \in 0 .. i, m < i, m \in Sums PROVE m + 1 \in Sums
    <3>1. m + 1 \in 1 .. n /\ (m + 1) - 1 = m /\ m \in 0 .. 15
      BY <2>2
    <3>2. value[m + 1] = value[m] + (IF b[m] THEN 2 ^ m ELSE 0)
      BY <3>1
    <3>3. 2 ^ m \in Nat
      BY <3>1, Doubling, Zenon
    <3> QED
      BY <2>2, <3>1, <3>2, <3>3
  <2> HIDE DEF Sums
  <2> QED
    BY <2>1, <2>2, Climb
<1>2. 0 \in Rest
  <2>1. 2 ^ n \in Nat
    <3>1. CASE n = 0
      BY <3>1, 2 ^ 0 = 1
    <3>2. CASE n # 0
      <4>1. n - 1 \in 0 .. 15 /\ (n - 1) + 1 = n
        BY <3>2
      <4>2. 2 ^ (n - 1) \in Nat /\ 2 ^ ((n - 1) + 1) = 2 * 2 ^ (n - 1)
        BY <4>1, Doubling, Zenon
      <4> QED
        BY <4>1, <4>2
    <3> QED
      BY <3>1, <3>2
  <2>2. \A w \in Nat : w * 0 = 0
    OBVIOUS
  <2> QED
    BY <1>1, <2>1, <2>2
<1>3. ASSUME NEW k \in 0 .. n, k < n, k \in Rest PROVE k + 1 \in Rest
  <2> DEFINE i == n - (k + 1)
             w == 2 ^ i
             c == Set(b[i])
             r == read[k]
  <2>1. i \in 0 .. 15 /\ i + 1 \in 1 .. n /\ (i + 1) - 1 = i /\ n - k = i + 1
        /\ k + 1 \in 1 .. n /\ (k + 1) - 1 = k
    BY <1>3
  <2>2. w \in Nat /\ 2 ^ (i + 1) = 2 * w
    BY <2>1, Doubling, Zenon
  <2>3. read[k + 1] = 2 * r + c
    BY <2>1
  <2>4. value[i + 1] = value[i] + w * c
    <3>1. value[i + 1] = value[i] + (IF b[i] THEN w ELSE 0)
      BY <2>1
    <3> QED
      BY <2>2, <3>1 DEF Set
  <2>5. r \in Int /\ value[n] = value[i + 1] + (2 * w) * r
    BY <1>3, <2>1, <2>2
  <2>6. c \in Int /\ value[i] \in Int
    BY <1>1, <2>1 DEF Set
  <2> HIDE DEF w, c, r
  <2>7. (2 * w) * r + w * c = w * (2 * r + c)
    BY <2>2, <2>5, <2>6
  <2>8. value[n] = value[i] + w * read[k + 1] /\ read[k + 1] \in Int
    BY <2>2, <2>3, <2>4, <2>5, <2>6, <2>7
  <2> QED
    BY <2>1, <2>8 DEF w
<1>4. n \in Rest
  <2> HIDE DEF Rest
  <2> QED
    BY <1>2, <1>3, Climb
<1> QED
  BY <1>4, 2 ^ 0 = 1, n - n = 0
-----------------------------------------------------------------------------
(* The signals on the pins, and the nodes.                                 *)

LEMMA SignalIs ==
  ASSUME NEW s \in Signals
  PROVE  /\ s = <<s[1], s[2]>> /\ s[1] # "register"
         /\ s[1] \in {"AEC", "none"} => s = Pin(s[1])
         /\ s[1] \in {"P", "DB"} => s[2] \in 0 .. 7
BY DEF Signals, Pin

LEMMA BusNodes ==
  /\ DataBusIds = [k \in 1 .. 8 |-> <<"DB", 8 - k>>] /\ Len(DataBusIds) = 8
  /\ AddressBusIds = [k \in 1 .. 16 |-> <<"AB", 16 - k>>] /\ Len(AddressBusIds) = 16
<1>1. 7 - 0 + 1 = 8 /\ 15 - 0 + 1 = 16
  OBVIOUS
<1>2. \A k \in 1 .. 16 : 7 - k + 1 = 8 - k /\ 15 - k + 1 = 16 - k
  OBVIOUS
<1>3. DataBusIds = [k \in 1 .. 8 |-> <<"DB", 8 - k>>]
  BY <1>1, <1>2 DEF DataBusIds, Down
<1>4. AddressBusIds = [k \in 1 .. 16 |-> <<"AB", 16 - k>>]
  BY <1>1, <1>2 DEF AddressBusIds, Down
<1> QED
  BY <1>3, <1>4

(* A pin has a node behind it or the port, and the registers are apart.    *)
PinsAndNodes ==
  /\ pinout \in Seq(Signals) /\ pinCount \in Nat
  /\ \A pin \in 1 .. pinCount :
       pinout[pin] \in Signals /\ (pinout[pin][1] \notin Ports => pinout[pin] \in Nodes)
  /\ \A s \in Nodes : s \in Signals /\ s[1] \notin Ports /\ s \notin RegisterNodes
  /\ \A i \in 0 .. 7 : <<"DB", i>> \in Nodes

LEMMA NodesAre ==
  ASSUME model \in Models
  PROVE  PinsAndNodes
<1>1. pinout \in Seq(Signals)
  BY PinoutIs DEF pinout
<1>2. pinCount \in Nat /\ DOMAIN pinout = 1 .. pinCount /\ \A pin \in 1 .. pinCount : pinout[pin] \in Signals
  BY <1>1 DEF pinCount
<1>3. \A s \in Range(DataBusIds) : \E i \in 0 .. 7 : s = <<"DB", i>>
  <2>1. \A k \in 1 .. 8 : 8 - k \in 0 .. 7
    OBVIOUS
  <2> QED
    BY <2>1, BusNodes DEF Range
<1>4. \A s \in Range(AddressBusIds) : \E i \in 0 .. 15 : s = <<"AB", i>>
  <2>1. \A k \in 1 .. 16 : 16 - k \in 0 .. 15
    OBVIOUS
  <2> QED
    BY <2>1, BusNodes DEF Range
<1>5. \A i \in 0 .. 7 : <<"DB", i>> \in Nodes
  <2> TAKE i \in 0 .. 7
  <2>1. 8 - i \in 1 .. 8 /\ 8 - (8 - i) = i
    OBVIOUS
  <2>2. <<"DB", i>> \in Range(DataBusIds)
    BY <2>1, BusNodes DEF Range
  <2> QED
    BY <2>2 DEF Nodes
<1>6. \A pin \in 1 .. pinCount : pinout[pin][1] \notin Ports => pinout[pin] \in Nodes
  BY <1>2 DEF Nodes, Range
<1>7. \A s \in Nodes : s \in Signals /\ s[1] \notin Ports
  <2> TAKE s \in Nodes
  <2>1. CASE s \in Range(pinout) /\ s[1] \notin Ports
    BY <1>2, <2>1 DEF Range
  <2>2. CASE s \in Range(DataBusIds)
    BY <1>3, <2>2 DEF Signals, Ports
  <2>3. CASE s \in Range(AddressBusIds)
    BY <1>4, <2>3 DEF Signals, Ports
  <2> QED
    BY <2>1, <2>2, <2>3 DEF Nodes
<1>8. \A s \in RegisterNodes : s[1] = "register"
  BY DEF RegisterNodes, NODE
<1> QED
  BY <1>1, <1>2, <1>5, <1>6, <1>7, <1>8, SignalIs DEF PinsAndNodes

-----------------------------------------------------------------------------
(* The invariant: no pin of the port is an output, and behind the pins the *)
(* nodes of the registers are those of what the CPU holds.                 *)

RegistersHeld == \A s \in RegisterNodes : s \in high <=> s \in Held(contents)
ChipInv == TypeOK /\ iodirs = {} /\ RegistersHeld

LEMMA Constants ==
  Chosen \subseteq Models /\ Contents \subseteq Words /\ MaxCalls \in Nat
BY PinsAssumption, Zenon

LEMMA SetNodeIs ==
  ASSUME NEW flag \in {"up", "down", "none"}, NEW value \in BOOLEAN
  PROVE  /\ SetNode(flag, value) \in {"up", "down", "none"}
         /\ SetNode(flag, value) = "up" <=> value
BY DEF SetNode

LEMMA BitsOfNothing ==
  ASSUME NEW i \in 0 .. 15
  PROVE  ~Bit(0, i)
<1>1. 2 ^ i \in Nat \ {0}
  BY Doubling, Zenon
<1>2. 0 \div 2 ^ i = 0
  BY <1>1
<1>3. 0 % 2 # 1
  OBVIOUS
<1> QED
  BY <1>2, <1>3, Zenon DEF Bit

LEMMA BitsOfAll ==
  ASSUME NEW i \in 0 .. 7
  PROVE  Bit(255, i)
<1>1. \A w \in {1, 2, 4, 8, 16, 32, 64, 128} : (255 \div w) % 2 = 1
  OBVIOUS
<1>2. 2 ^ i \in {1, 2, 4, 8, 16, 32, 64, 128}
  BY PowersAre, Zenon
<1>3. (255 \div 2 ^ i) % 2 = 1
  BY <1>1, <1>2
<1> QED
  BY <1>3 DEF Bit

LEMMA ChipStarts ==
  ASSUME Init
  PROVE  ChipInv
<1>1. model \in Chosen /\ model \in Models
  BY Constants DEF Init
<1>2. pinCount \in Nat
  BY <1>1, NodesAre DEF PinsAndNodes
<1>3. TypeOK
  <2>1. drive \in [Nodes -> {"up", "down", "none"}]
    BY DEF Init
  <2>2. contents \in Words
    <3>1. 0 \in Bytes /\ 255 \in Bytes /\ 0 \in DoubleBytes
      BY DEF Bytes, DoubleBytes
    <3> QED
      BY <3>1 DEF Init, Words
  <2>3. last \in [1 .. pinCount -> {"high", "low", "none"}]
    BY DEF Init
  <2>4. /\ high \subseteq Nodes \cup RegisterNodes
        /\ isAecHigh \in BOOLEAN /\ ioports \subseteq 0 .. 7 /\ iodirs \subseteq 0 .. 7
        /\ settled \in BOOLEAN
    BY DEF Init
  <2>5. calls \in 0 .. MaxCalls
    <3>1. calls = 0
      BY DEF Init
    <3> QED
      BY <3>1, Constants
  <2> QED
    BY <1>1, <2>1, <2>2, <2>3, <2>4, <2>5, Zenon DEF TypeOK
<1>4. RegistersHeld
  <2>0. \A s \in RegisterNodes : s \notin high
    <3>1. \A s \in RegisterNodes : s[1] # "Vcc"
      BY DEF RegisterNodes, NODE
    <3> QED
      BY <3>1 DEF Init
  <2> SUFFICES ASSUME NEW s \in RegisterNodes PROVE s \notin Held(contents)
    BY <2>0 DEF RegistersHeld
  <2>1. PICK name \in RegisterBytes, i \in 0 .. 7 : s = <<"register", name, i>>
    BY DEF RegisterNodes, NODE
  <2>2. s[2] = name /\ s[3] = i /\ i \in 0 .. 15 /\ i + 8 \in 0 .. 15
    BY <2>1
  <2>3. ~Bit(0, i) /\ ~Bit(0, i + 8) /\ Bit(255, i)
    BY <2>2, BitsOfNothing, BitsOfAll
  <2>4. /\ contents.A = 0 /\ contents.X = 0 /\ contents.Y = 0 /\ contents.S = 0
        /\ contents.P = 0 /\ contents.IR = 255 /\ contents.PC = 0
    BY DEF Init
  <2> HIDE DEF Init
  <2>5. s \notin Held(contents)
    <3>1. /\ name = "A" => (s \in Held(contents) => Bit(contents.A, i))
          /\ name = "X" => (s \in Held(contents) => Bit(contents.X, i))
          /\ name = "Y" => (s \in Held(contents) => Bit(contents.Y, i))
          /\ name = "S" => (s \in Held(contents) => Bit(contents.S, i))
          /\ name = "P" => (s \in Held(contents) => Bit(contents.P, i))
          /\ name = "PCH" => (s \in Held(contents) => Bit(contents.PC, i + 8))
          /\ name = "PCL" => (s \in Held(contents) => Bit(contents.PC, i))
          /\ name = "NOTIR" => (s \in Held(contents) => ~Bit(contents.IR, i))
      BY <2>2 DEF Held
    <3> HIDE DEF Bit
    <3> QED
      BY <2>3, <2>4, <3>1 DEF RegisterBytes
  <2> QED
    BY <2>5
<1> QED
  BY <1>3, <1>4 DEF ChipInv, Init

LEMMA SameChip ==
  ASSUME model' = model
  PROVE  pinout' = pinout /\ pinCount' = pinCount /\ Nodes' = Nodes
BY DEF pinout, pinCount, Nodes

LEMMA ChipGoesOn ==
  ASSUME ChipInv, [Next]_pvars
  PROVE  ChipInv'
<1>0. /\ model \in Models
      /\ TypeOK /\ iodirs = {} /\ RegistersHeld
  BY Constants DEF ChipInv, TypeOK
<1>1. /\ pinCount \in Nat
      /\ \A pin \in 1 .. pinCount :
           pinout[pin] \in Signals /\ (pinout[pin][1] \notin Ports => pinout[pin] \in Nodes)
      /\ \A s \in Nodes : s \notin RegisterNodes
  BY <1>0, NodesAre DEF PinsAndNodes
<1>2. ASSUME Called PROVE calls' \in 0 .. MaxCalls
  BY <1>0, <1>2, Constants DEF Called, TypeOK
<1>3. \A value \in BOOLEAN : Level(value) \in {"high", "low", "none"}
  BY DEF Level
<1>4. ASSUME NEW pin, NEW value \in BOOLEAN, PinWrite(pin, value)
      PROVE  ChipInv'
  <2>1. model' = model /\ pin \in 1 .. pinCount /\ pinout[pin] \in Nodes
    BY <1>1, <1>4 DEF PinWrite
  <2>2. drive' \in [Nodes -> {"up", "down", "none"}]
    BY <1>0, <1>4, <2>1, SetNodeIs DEF PinWrite, TypeOK
  <2>3. last' \in [1 .. pinCount -> {"high", "low", "none"}]
    BY <1>0, <1>3, <1>4 DEF PinWrite, TypeOK
  <2>4. calls' \in 0 .. MaxCalls /\ settled' \in BOOLEAN
    BY <1>2, <1>4 DEF PinWrite, Written
  <2>5. TypeOK'
    BY <1>0, <1>4, <2>1, <2>2, <2>3, <2>4, SameChip DEF PinWrite, TypeOK
  <2> QED
    BY <1>0, <1>4, <2>5 DEF PinWrite, ChipInv, RegistersHeld, Held
<1>5. ASSUME NEW pin, NEW value \in BOOLEAN, UnconnectedWrite(pin, value)
      PROVE  ChipInv'
  <2>1. model' = model
    BY <1>5 DEF UnconnectedWrite
  <2>3. last' \in [1 .. pinCount -> {"high", "low", "none"}]
    BY <1>0, <1>3, <1>5 DEF UnconnectedWrite, TypeOK
  <2>4. calls' \in 0 .. MaxCalls /\ settled' \in BOOLEAN
    BY <1>2, <1>5 DEF UnconnectedWrite, Written
  <2>5. TypeOK'
    BY <1>0, <1>5, <2>1, <2>3, <2>4, SameChip DEF UnconnectedWrite, TypeOK
  <2> QED
    BY <1>0, <1>5, <2>5 DEF UnconnectedWrite, ChipInv, RegistersHeld, Held
<1>6. ASSUME NEW pin, NEW value \in BOOLEAN, AecWrite(pin, value)
      PROVE  ChipInv'
  <2>1. model' = model
    BY <1>6 DEF AecWrite
  <2>3. last' \in [1 .. pinCount -> {"high", "low", "none"}]
    BY <1>0, <1>3, <1>6 DEF AecWrite, TypeOK
  <2>4. calls' \in 0 .. MaxCalls /\ settled' \in BOOLEAN
    BY <1>2, <1>6 DEF AecWrite, Written
  <2>5. TypeOK'
    BY <1>0, <1>6, <2>1, <2>3, <2>4, SameChip DEF AecWrite, TypeOK
  <2> QED
    BY <1>0, <1>6, <2>5 DEF AecWrite, ChipInv, RegistersHeld, Held
<1>7. ASSUME NEW pin, NEW value \in BOOLEAN, PortWrite(pin, value)
      PROVE  ChipInv'
  <2>1. model' = model /\ pin \in 1 .. pinCount /\ pinout[pin][2] \in 0 .. 7
    BY <1>1, <1>7, SignalIs DEF PortWrite
  <2>2. ioports' \subseteq 0 .. 7
    BY <1>0, <1>7, <2>1 DEF PortWrite, TypeOK
  <2>3. last' \in [1 .. pinCount -> {"high", "low", "none"}]
    BY <1>0, <1>3, <1>7 DEF PortWrite, TypeOK
  <2>4. calls' \in 0 .. MaxCalls /\ settled' \in BOOLEAN
    BY <1>2, <1>7 DEF PortWrite, Written
  <2>5. TypeOK'
    BY <1>0, <1>7, <2>1, <2>2, <2>3, <2>4, SameChip DEF PortWrite, TypeOK
  <2> QED
    BY <1>0, <1>7, <2>5 DEF PortWrite, ChipInv, RegistersHeld, Held
<1>8. ASSUME NEW value \in DataValues, WriteDataBus(value)
      PROVE  ChipInv'
  <2>1. model' = model
    BY <1>8 DEF WriteDataBus
  <2>2. drive' \in [Nodes -> {"up", "down", "none"}]
    <3>1. \A i : Bit(value, i) \in BOOLEAN
      BY DEF Bit
    <3>2. \A s \in Nodes : \A i : SetNode(drive[s], Bit(value, i)) \in {"up", "down", "none"}
      BY <1>0, <3>1, SetNodeIs DEF TypeOK
    <3> QED
      BY <1>0, <1>8, <3>2 DEF WriteDataBus, WriteNodes, TypeOK
  <2>3. last' \in [1 .. pinCount -> {"high", "low", "none"}]
    <3>1. \A i : Bit(value, i) \in BOOLEAN
      BY DEF Bit
    <3> QED
      BY <1>0, <1>3, <1>8, <3>1 DEF WriteDataBus, TypeOK
  <2>4. calls' \in 0 .. MaxCalls /\ settled' \in BOOLEAN
    BY <1>2, <1>8 DEF WriteDataBus, Written
  <2>5. TypeOK'
    BY <1>0, <1>8, <2>1, <2>2, <2>3, <2>4, SameChip DEF WriteDataBus, TypeOK
  <2> QED
    BY <1>0, <1>8, <2>5 DEF WriteDataBus, ChipInv, RegistersHeld, Held
<1>9. ASSUME NEW address \in Addresses, NEW reading \in BOOLEAN, NEW value \in DataValues,
             NEW words \in Contents, Recalc(address, reading, value, words)
      PROVE  ChipInv'
  <2>1. model' = model /\ contents' = words /\ words \in Words
    BY <1>9, Constants DEF Recalc
  <2>2. PICK N \in SUBSET Nodes : high' = Held(words) \cup N
    BY <1>9, Zenon DEF Recalc
  <2>3. Held(words) \subseteq RegisterNodes
    BY DEF Held
  <2>4. calls' \in 0 .. MaxCalls /\ settled' \in BOOLEAN
    BY <1>2, <1>9 DEF Recalc
  <2>5. TypeOK'
    BY <1>0, <1>9, <2>1, <2>2, <2>3, <2>4, SameChip DEF Recalc, TypeOK
  <2>6. RegistersHeld'
    BY <1>1, <2>1, <2>2 DEF RegistersHeld, Held
  <2> QED
    BY <1>0, <1>9, <2>5, <2>6 DEF Recalc, ChipInv
<1>10. ASSUME UNCHANGED pvars
       PROVE  ChipInv'
  BY <1>0, <1>10, SameChip DEF pvars, ChipInv, TypeOK, RegistersHeld, Held
<1> QED
  BY <1>4, <1>5, <1>6, <1>7, <1>8, <1>9, <1>10 DEF Next

THEOREM ChipInvariant == Spec => []ChipInv
<1>1. Init => ChipInv
  BY ChipStarts
<1>2. ChipInv /\ [Next]_pvars => ChipInv'
  BY ChipGoesOn
<1> QED
  BY <1>1, <1>2, PTL DEF Spec

THEOREM ChipTypeOK == Spec => []TypeOK
<1>1. ChipInv => TypeOK
  BY DEF ChipInv
<1> QED
  BY <1>1, ChipInvariant, PTL

-----------------------------------------------------------------------------
(* The registers.                                                          *)

(* The nodes of one register, the highest bit first. *)
Lists(ids, name) == Len(ids) = 8 /\ \A k \in 1 .. 8 : ids[k] = NODE(name, 8 - k)

(* The lists of the code, but for that of the flags, are of this kind. *)
LEMMA ListsAre ==
  /\ Lists(AIds, "A") /\ Lists(XIds, "X") /\ Lists(YIds, "Y") /\ Lists(SIds, "S")
  /\ Lists(PCHIds, "PCH") /\ Lists(PCLIds, "PCL") /\ Lists(NOTIRIds, "NOTIR")
<1>1. Lists(AIds, "A")
  BY DEF Lists, AIds
<1>2. Lists(XIds, "X")
  BY DEF Lists, XIds
<1>3. Lists(YIds, "Y")
  BY DEF Lists, YIds
<1>4. Lists(SIds, "S")
  BY DEF Lists, SIds
<1>5. Lists(PCHIds, "PCH")
  BY DEF Lists, PCHIds
<1>6. Lists(PCLIds, "PCL")
  BY DEF Lists, PCLIds
<1>7. Lists(NOTIRIds, "NOTIR")
  BY DEF Lists, NOTIRIds
<1> QED
  BY <1>1, <1>2, <1>3, <1>4, <1>5, <1>6, <1>7

(* A getter reads the byte that its nodes hold. *)
LEMMA GetterReads ==
  ASSUME ChipInv, NEW name \in RegisterBytes \ {"P"}, NEW v \in Nat,
         NEW ids, Lists(ids, name),
         \A i \in 0 .. 7 : NODE(name, i) \in Held(contents) <=> Bit(v, i)
  PROVE  ReadNodes(ids) = v % 256
<1>1. \A i \in 0 .. 7 : NODE(name, i) \in RegisterNodes
  BY DEF RegisterNodes, NODE
<1>2. Len(ids) = 8 /\ \A k \in 1 .. 8 : ids[k] = NODE(name, 8 - k)
  BY DEF Lists
<1>3. PICK read : /\ read[0] = 0
                  /\ \A k \in 1 .. 8 : read[k] = 2 * read[k - 1] + Set(GetNode(ids[k]))
                  /\ ReadNodes(ids) = read[8]
  BY <1>2, 8 \in Nat, ReadIs, Zenon
<1>4. \A k \in 1 .. 8 : GetNode(ids[k]) <=> Bit(v, 8 - k)
  <2> TAKE k \in 1 .. 8
  <2>1. 8 - k \in 0 .. 7
    OBVIOUS
  <2>2. ids[k] = NODE(name, 8 - k) /\ ids[k] \in RegisterNodes
    BY <1>1, <1>2, <2>1
  <2>3. ids[k] \in high <=> ids[k] \in Held(contents)
    BY <2>2, Zenon DEF ChipInv, RegistersHeld
  <2> QED
    BY <2>1, <2>2, <2>3, Zenon DEF GetNode
<1>5. \A k \in 1 .. 8 : read[k] = 2 * read[k - 1] + Set(Bit(v, 8 - k))
  BY <1>3, <1>4, Zenon DEF Set
<1>6. read[8] = v % 256
  BY <1>3, <1>5, HighestFirst, Zenon
<1> QED
  BY <1>3, <1>6

LEMMA UpperHalf ==
  ASSUME NEW v \in Nat, NEW i \in 0 .. 7
  PROVE  v \div 256 \in Nat /\ (Bit(v, i + 8) <=> Bit(v \div 256, i))
<1>1. i = 0 => v \div 2 ^ (i + 8) = (v \div 256) \div 2 ^ i
  BY 2 ^ 0 = 1 /\ 2 ^ (0 + 8) = 256
<1>2. i = 1 => v \div 2 ^ (i + 8) = (v \div 256) \div 2 ^ i
  BY 2 ^ 1 = 2 /\ 2 ^ (1 + 8) = 512
<1>3. i = 2 => v \div 2 ^ (i + 8) = (v \div 256) \div 2 ^ i
  BY 2 ^ 2 = 4 /\ 2 ^ (2 + 8) = 1024
<1>4. i = 3 => v \div 2 ^ (i + 8) = (v \div 256) \div 2 ^ i
  BY 2 ^ 3 = 8 /\ 2 ^ (3 + 8) = 2048
<1>5. i = 4 => v \div 2 ^ (i + 8) = (v \div 256) \div 2 ^ i
  BY 2 ^ 4 = 16 /\ 2 ^ (4 + 8) = 4096
<1>6. i = 5 => v \div 2 ^ (i + 8) = (v \div 256) \div 2 ^ i
  BY 2 ^ 5 = 32 /\ 2 ^ (5 + 8) = 8192
<1>7. i = 6 => v \div 2 ^ (i + 8) = (v \div 256) \div 2 ^ i
  BY 2 ^ 6 = 64 /\ 2 ^ (6 + 8) = 16384
<1>8. i = 7 => v \div 2 ^ (i + 8) = (v \div 256) \div 2 ^ i
  BY 2 ^ 7 = 128 /\ 2 ^ (7 + 8) = 32768
<1>9. v \div 2 ^ (i + 8) = (v \div 256) \div 2 ^ i
  BY <1>1, <1>2, <1>3, <1>4, <1>5, <1>6, <1>7, <1>8
<1>10. v \div 256 \in Nat
  OBVIOUS
<1> QED
  BY <1>9, <1>10, Zenon DEF Bit

(* Sixteen bits are their two halves. *)
LEMMA Halves ==
  ASSUME NEW v \in DoubleBytes
  PROVE  v \in Nat /\ 256 * ((v \div 256) % 256) + (v % 256) = v
<1>1. v \in Nat /\ v < 65536
  BY DEF DoubleBytes
<1> DEFINE h == v \div 256
           l == v % 256
<1>2. h \in Nat /\ h < 256 /\ l \in Nat /\ v = 256 * h + l
  BY <1>1
<1> HIDE DEF h, l
<1>3. h % 256 = h
  BY <1>2
<1>4. 256 * (h % 256) + l = v
  BY <1>2, <1>3
<1> QED
  BY <1>1, <1>4 DEF h, l

LEMMA Inverted ==
  ASSUME NEW v \in 0 .. 255, NEW i \in 0 .. 7
  PROVE  255 - v \in 0 .. 255 /\ (~Bit(v, i) <=> Bit(255 - v, i))
<1>1. i = 0 => ((255 - v) \div 2 ^ i) % 2 = 1 - ((v \div 2 ^ i) % 2)
  BY 2 ^ 0 = 1
<1>2. i = 1 => ((255 - v) \div 2 ^ i) % 2 = 1 - ((v \div 2 ^ i) % 2)
  BY 2 ^ 1 = 2
<1>3. i = 2 => ((255 - v) \div 2 ^ i) % 2 = 1 - ((v \div 2 ^ i) % 2)
  BY 2 ^ 2 = 4
<1>4. i = 3 => ((255 - v) \div 2 ^ i) % 2 = 1 - ((v \div 2 ^ i) % 2)
  BY 2 ^ 3 = 8
<1>5. i = 4 => ((255 - v) \div 2 ^ i) % 2 = 1 - ((v \div 2 ^ i) % 2)
  BY 2 ^ 4 = 16
<1>6. i = 5 => ((255 - v) \div 2 ^ i) % 2 = 1 - ((v \div 2 ^ i) % 2)
  BY 2 ^ 5 = 32
<1>7. i = 6 => ((255 - v) \div 2 ^ i) % 2 = 1 - ((v \div 2 ^ i) % 2)
  BY 2 ^ 6 = 64
<1>8. i = 7 => ((255 - v) \div 2 ^ i) % 2 = 1 - ((v \div 2 ^ i) % 2)
  BY 2 ^ 7 = 128
<1>9. ((255 - v) \div 2 ^ i) % 2 = 1 - ((v \div 2 ^ i) % 2)
  BY <1>1, <1>2, <1>3, <1>4, <1>5, <1>6, <1>7, <1>8
<1>10. v \div 2 ^ i \in Nat
  <2>1. \A d \in {1, 2, 4, 8, 16, 32, 64, 128} : v \div d \in Nat
    OBVIOUS
  <2>2. 2 ^ i \in {1, 2, 4, 8, 16, 32, 64, 128}
    BY PowersAre, Zenon
  <2> QED
    BY <2>1, <2>2, Zenon
<1>11. 255 - v \in 0 .. 255
  OBVIOUS
<1> DEFINE q == v \div 2 ^ i
<1>12. 1 - (q % 2) = 1 <=> q % 2 # 1
  <2> HIDE DEF q
  <2> QED
    BY <1>10 DEF q
<1> QED
  BY <1>9, <1>11, <1>12, Zenon DEF Bit

LEMMA FlagsRead ==
  ASSUME ChipInv
  PROVE  \A i \in 0 .. 7 : Bit(P, i) <=> i # 5 /\ Bit(contents.P, i)
<1> DEFINE ids == PIds
           b == [i \in 0 .. 7 |-> i # 5 /\ Bit(contents.P, i)]
<1>0. b \in [0 .. 7 -> BOOLEAN]
  BY DEF Bit
<1>1. \A i \in 0 .. 7 : i # 5 => NODE("P", i) \in RegisterNodes
  BY DEF RegisterNodes, NODE, RegisterBytes
<1>2. NODE("P", 5) \notin RegisterNodes
  BY DEF RegisterNodes
<1>3. Len(ids) = 8 /\ \A k \in 1 .. 8 : ids[k] = IF 8 - k = 5 THEN Pin("none") ELSE NODE("P", 8 - k)
  BY DEF PIds
<1> HIDE DEF ids
<1>4. PICK read : /\ read[0] = 0
                  /\ \A k \in 1 .. 8 : read[k] = 2 * read[k - 1] + Set(GetNode(ids[k]))
                  /\ ReadNodes(ids) = read[8]
  BY <1>3, 8 \in Nat, ReadIs, Zenon
<1>5. Pin("none") \notin high
  <2>1. model \in Models /\ high \subseteq Nodes \cup RegisterNodes
    BY Constants DEF ChipInv, TypeOK
  <2>2. Pin("none") \notin Nodes
    BY <2>1, NodesAre DEF PinsAndNodes, Ports, Pin
  <2>3. Pin("none") \notin RegisterNodes
    BY DEF RegisterNodes, NODE, Pin
  <2> QED
    BY <2>1, <2>2, <2>3
<1>6. \A k \in 1 .. 8 : Set(GetNode(ids[k])) = Set(b[8 - k])
  <2> TAKE k \in 1 .. 8
  <2>1. 8 - k \in 0 .. 7
    OBVIOUS
  <2>2. CASE 8 - k = 5
    <3>1. ~GetNode(ids[k]) /\ ~b[8 - k]
      BY <1>3, <1>5, <2>1, <2>2 DEF GetNode
    <3> QED
      BY <3>1 DEF Set
  <2>3. CASE 8 - k # 5
    <3>1. ids[k] = NODE("P", 8 - k) /\ ids[k] \in RegisterNodes
      BY <1>1, <1>3, <2>1, <2>3
    <3>2. ids[k] \in high <=> ids[k] \in Held(contents)
      BY <3>1, Zenon DEF ChipInv, RegistersHeld
    <3>3. ids[k] \in Held(contents) <=> Bit(contents.P, 8 - k)
      <4>1. ids[k][2] = "P" /\ ids[k][3] = 8 - k
        BY <3>1 DEF NODE
      <4>2. ids[k] \in RegisterNodes
        BY <3>1
      <4> HIDE DEF Bit
      <4> QED
        BY <4>1, <4>2 DEF Held
    <3>4. b[8 - k] <=> Bit(contents.P, 8 - k)
      BY <2>1, <2>3
    <3> QED
      BY <3>2, <3>3, <3>4, Zenon DEF Set, GetNode
  <2> QED
    BY <2>2, <2>3
<1> HIDE DEF b
<1>7. P = 128 * Set(b[7]) + 64 * Set(b[6]) + 32 * Set(b[5]) + 16 * Set(b[4])
          + 8 * Set(b[3]) + 4 * Set(b[2]) + 2 * Set(b[1]) + Set(b[0])
  <2>1. /\ read[1] = 2 * read[0] + Set(b[7]) /\ read[2] = 2 * read[1] + Set(b[6])
        /\ read[3] = 2 * read[2] + Set(b[5]) /\ read[4] = 2 * read[3] + Set(b[4])
        /\ read[5] = 2 * read[4] + Set(b[3]) /\ read[6] = 2 * read[5] + Set(b[2])
        /\ read[7] = 2 * read[6] + Set(b[1]) /\ read[8] = 2 * read[7] + Set(b[0])
    <3>1. \A k \in 1 .. 8 : read[k] = 2 * read[k - 1] + Set(b[8 - k])
      BY <1>4, <1>6, Zenon
    <3> HIDE <1>4, <1>6
    <3> QED
      BY <3>1
  <2>2. \A i \in 0 .. 7 : Set(b[i]) \in Int
    BY DEF Set
  <2>3. P = read[8]
    BY <1>4 DEF P, ids
  <2> QED
    BY <1>4, <2>1, <2>2, <2>3
<1>8. \A i \in 0 .. 7 : Bit(P, i) <=> b[i]
  BY <1>0, <1>7, BitsOf, Zenon
<1> QED
  BY <1>8 DEF b

LEMMA RegistersAre ==
  ASSUME ChipInv
  PROVE  RegistersRead
<1> DEFINE w == contents
<1>1. /\ w.A \in 0 .. 255 /\ w.X \in 0 .. 255 /\ w.Y \in 0 .. 255 /\ w.S \in 0 .. 255
      /\ w.IR \in 0 .. 255
  BY DEF ChipInv, TypeOK, Words, Bytes
<1>2. w.PC \in DoubleBytes
  BY DEF ChipInv, TypeOK, Words
<1>3. \A i \in 0 .. 7 :
        /\ NODE("A", i) \in Held(w) <=> Bit(w.A, i)
        /\ NODE("X", i) \in Held(w) <=> Bit(w.X, i)
        /\ NODE("Y", i) \in Held(w) <=> Bit(w.Y, i)
        /\ NODE("S", i) \in Held(w) <=> Bit(w.S, i)
        /\ NODE("PCH", i) \in Held(w) <=> Bit(w.PC, i + 8)
        /\ NODE("PCL", i) \in Held(w) <=> Bit(w.PC, i)
        /\ NODE("NOTIR", i) \in Held(w) <=> ~Bit(w.IR, i)
  <2> HIDE DEF w
  <2> TAKE i \in 0 .. 7
  <2>1. \A name \in RegisterBytes \ {"P"} :
          /\ NODE(name, i) \in RegisterNodes
          /\ NODE(name, i)[2] = name /\ NODE(name, i)[3] = i
    BY DEF RegisterNodes, NODE
  <2>2. \A s \in RegisterNodes :
          /\ s[2] = "A" => (s \in Held(w) <=> Bit(w.A, s[3]))
          /\ s[2] = "X" => (s \in Held(w) <=> Bit(w.X, s[3]))
          /\ s[2] = "Y" => (s \in Held(w) <=> Bit(w.Y, s[3]))
          /\ s[2] = "S" => (s \in Held(w) <=> Bit(w.S, s[3]))
          /\ s[2] = "PCH" => (s \in Held(w) <=> Bit(w.PC, s[3] + 8))
          /\ s[2] = "PCL" => (s \in Held(w) <=> Bit(w.PC, s[3]))
          /\ s[2] = "NOTIR" => (s \in Held(w) <=> ~Bit(w.IR, s[3]))
    BY DEF Held
  <2> QED
    BY <2>1, <2>2 DEF RegisterBytes
<1> HIDE DEF w
<1>4. ASSUME NEW name \in RegisterBytes \ {"P"}, NEW v \in 0 .. 255, NEW ids, Lists(ids, name),
             \A i \in 0 .. 7 : NODE(name, i) \in Held(w) <=> Bit(v, i)
      PROVE  ReadNodes(ids) = v
  <2>1. v \in Nat /\ v % 256 = v
    OBVIOUS
  <2>2. ReadNodes(ids) = v % 256
    BY <1>4, <2>1, GetterReads, Zenon DEF w
  <2> QED
    BY <2>1, <2>2
<1>5. /\ "A" \in RegisterBytes \ {"P"} /\ "X" \in RegisterBytes \ {"P"}
      /\ "Y" \in RegisterBytes \ {"P"} /\ "S" \in RegisterBytes \ {"P"}
      /\ "PCH" \in RegisterBytes \ {"P"} /\ "PCL" \in RegisterBytes \ {"P"}
      /\ "NOTIR" \in RegisterBytes \ {"P"}
  BY DEF RegisterBytes
<1>6. A = w.A /\ X = w.X /\ Y = w.Y /\ S = w.S
  <2>1. A = w.A
    <3>1. w.A \in 0 .. 255 /\ \A i \in 0 .. 7 : NODE("A", i) \in Held(w) <=> Bit(w.A, i)
      BY <1>1, <1>3, Zenon
    <3>2. "A" \in RegisterBytes \ {"P"} /\ Lists(AIds, "A")
      BY <1>5, ListsAre
    <3>3. ReadNodes(AIds) = w.A
      BY <1>4, <3>1, <3>2, Zenon
    <3> QED
      BY <3>3 DEF A
  <2>2. X = w.X
    <3>1. w.X \in 0 .. 255 /\ \A i \in 0 .. 7 : NODE("X", i) \in Held(w) <=> Bit(w.X, i)
      BY <1>1, <1>3, Zenon
    <3>2. "X" \in RegisterBytes \ {"P"} /\ Lists(XIds, "X")
      BY <1>5, ListsAre
    <3>3. ReadNodes(XIds) = w.X
      BY <1>4, <3>1, <3>2, Zenon
    <3> QED
      BY <3>3 DEF X
  <2>3. Y = w.Y
    <3>1. w.Y \in 0 .. 255 /\ \A i \in 0 .. 7 : NODE("Y", i) \in Held(w) <=> Bit(w.Y, i)
      BY <1>1, <1>3, Zenon
    <3>2. "Y" \in RegisterBytes \ {"P"} /\ Lists(YIds, "Y")
      BY <1>5, ListsAre
    <3>3. ReadNodes(YIds) = w.Y
      BY <1>4, <3>1, <3>2, Zenon
    <3> QED
      BY <3>3 DEF Y
  <2>4. S = w.S
    <3>1. w.S \in 0 .. 255 /\ \A i \in 0 .. 7 : NODE("S", i) \in Held(w) <=> Bit(w.S, i)
      BY <1>1, <1>3, Zenon
    <3>2. "S" \in RegisterBytes \ {"P"} /\ Lists(SIds, "S")
      BY <1>5, ListsAre
    <3>3. ReadNodes(SIds) = w.S
      BY <1>4, <3>1, <3>2, Zenon
    <3> QED
      BY <3>3 DEF S
  <2> QED
    BY <2>1, <2>2, <2>3, <2>4
<1>7. PC = w.PC
  <2>1. w.PC \in Nat /\ 256 * ((w.PC \div 256) % 256) + (w.PC % 256) = w.PC
    BY <1>2, Halves, Zenon
  <2>2. PCL = w.PC % 256
    BY <1>3, <1>5, <2>1, GetterReads, ListsAre, Zenon DEF PCL, w
  <2>3. PCH = (w.PC \div 256) % 256
    <3>1. w.PC \div 256 \in Nat /\ \A i \in 0 .. 7 : Bit(w.PC, i + 8) <=> Bit(w.PC \div 256, i)
      <4>1. w.PC \div 256 \in Nat
        BY <2>1
      <4> QED
        BY <2>1, <4>1, UpperHalf, Zenon
    <3>2. \A i \in 0 .. 7 : NODE("PCH", i) \in Held(w) <=> Bit(w.PC \div 256, i)
      BY <1>3, <3>1, Zenon
    <3>3. "PCH" \in RegisterBytes \ {"P"} /\ Lists(PCHIds, "PCH")
      BY <1>5, ListsAre
    <3>4. ReadNodes(PCHIds) = (w.PC \div 256) % 256
      BY <3>1, <3>2, <3>3, GetterReads, Zenon DEF w
    <3> QED
      BY <3>4 DEF PCH
  <2> QED
    BY <2>1, <2>2, <2>3, Zenon DEF PC
<1>8. 255 - IR = w.IR
  <2>1. \A i \in 0 .. 7 : NODE("NOTIR", i) \in Held(w) <=> Bit(255 - w.IR, i)
    BY <1>1, <1>3, Inverted, Zenon
  <2>2. 255 - w.IR \in 0 .. 255
    BY <1>1
  <2>3. IR = 255 - w.IR
    BY <1>4, <1>5, <2>1, <2>2, ListsAre, Zenon DEF IR
  <2> QED
    BY <1>1, <2>3
<1> QED
  BY <1>6, <1>7, <1>8, FlagsRead, Zenon DEF RegistersRead, w

THEOREM RegistersReadHolds == Spec => []RegistersRead
<1>1. ChipInv => RegistersRead
  BY RegistersAre
<1> QED
  BY <1>1, ChipInvariant, PTL

-----------------------------------------------------------------------------
(* The buses.                                                              *)

LEMMA WidthIs ==
  ASSUME NEW m \in Agreed
  PROVE  AddressBusWidth(m) \in 1 .. 16
BY DEF AddressBusWidth

LEMMA PinsValueReads ==
  ASSUME model \in Agreed, NEW name \in {"AB", "DB"}, NEW n \in 1 .. 16,
         \A i \in 0 .. n - 1 : <<name, i>> \in DOMAIN EnumPin(model),
         NEW ids, Len(ids) = n, \A k \in 1 .. n : ids[k] = <<name, n - k>>
  PROVE  ReadNodes(ids) = PinsValue(name, n)
<1> DEFINE b == [i \in 0 .. n - 1 |-> GetNode(<<name, i>>)]
<1>1. PICK read : /\ read[0] = 0
                  /\ \A k \in 1 .. n : read[k] = 2 * read[k - 1] + Set(GetNode(ids[k]))
                  /\ ReadNodes(ids) = read[n]
  <2>1. n \in Nat
    OBVIOUS
  <2> QED
    BY <2>1, ReadIs, Zenon
<1>2. PICK value :
        /\ value[0] = 0
        /\ \A i \in 1 .. n :
             value[i] = value[i - 1]
                        + (IF PinRead(EnumPin(model)[<<name, i - 1>>]) THEN 2 ^ (i - 1) ELSE 0)
        /\ PinsValue(name, n) = value[n]
  <2>1. n \in Nat /\ \A i \in 1 .. n : i - 1 \in 0 .. 15
    OBVIOUS
  <2>2. \A i \in 1 .. n : 2 ^ (i - 1) \in Nat
    BY <2>1, Doubling
  <2> QED
    BY <2>1, <2>2, PinsValueIs, Zenon
<1>3. \A k \in 1 .. n : n - k \in 0 .. n - 1 /\ b[n - k] = GetNode(ids[k])
  OBVIOUS
<1>4. \A i \in 0 .. n - 1 : PinRead(EnumPin(model)[<<name, i>>]) <=> b[i]
  <2> TAKE i \in 0 .. n - 1
  <2> DEFINE s == <<name, i>>
             pin == EnumPin(model)[s]
  <2>1. pin \in 1 .. pinCount /\ pinout[pin] = s
    <3>1. s \in DOMAIN EnumPin(model)
      OBVIOUS
    <3>2. pin \in 1 .. Len(Pinout(model)) /\ Pinout(model)[pin] = s
      BY <3>1, EnumIs, Zenon
    <3> QED
      BY <3>2, Zenon DEF pinCount, pinout
  <2>2. s[1] # "AEC" /\ s[1] # "P"
    OBVIOUS
  <2>3. PinRead(pin) <=> GetNode(s)
    <3> HIDE DEF s, pin
    <3> QED
      BY <2>1, <2>2 DEF PinRead, IOPinRead
  <2>4. b[i] = GetNode(s)
    OBVIOUS
  <2> QED
    BY <2>3, <2>4, Zenon
<1> HIDE DEF b
<1>5. \A k \in 1 .. n : read[k] = 2 * read[k - 1] + Set(b[n - k])
  BY <1>1, <1>3, Zenon
<1>6. \A i \in 1 .. n : value[i] = value[i - 1] + (IF b[i - 1] THEN 2 ^ (i - 1) ELSE 0)
  <2> TAKE i \in 1 .. n
  <2>1. i - 1 \in 0 .. n - 1
    OBVIOUS
  <2> QED
    BY <1>2, <1>4, <2>1, Zenon
<1>7. n \in 0 .. 16
  OBVIOUS
<1>8. read[n] = value[n]
  <2>1. HighBitFirst(read, b, n)
    BY <1>1, <1>5, Zenon DEF HighBitFirst
  <2>2. LowBitFirst(value, b, n)
    BY <1>2, <1>6, Zenon DEF LowBitFirst
  <2> QED
    BY <1>7, <2>1, <2>2, SameValue, Zenon
<1> QED
  BY <1>1, <1>2, <1>8, Zenon

LEMMA BusesAre ==
  ASSUME model \in Agreed
  PROVE  BusesArePins
<1>1. ReadDataBus = PinsValue("DB", 8)
  <2>1. Len(DataBusIds) = 8 /\ \A k \in 1 .. 8 : DataBusIds[k] = <<"DB", 8 - k>>
    BY BusNodes
  <2>2. \A i \in 0 .. 8 - 1 : <<"DB", i>> \in DOMAIN EnumPin(model)
    <3>1. 8 - 1 = 7
      OBVIOUS
    <3> QED
      BY <3>1, NumberedBuses, Zenon
  <2>3. 8 \in 1 .. 16 /\ "DB" \in {"AB", "DB"}
    OBVIOUS
  <2> QED
    BY <2>1, <2>2, <2>3, PinsValueReads, Zenon DEF ReadDataBus
<1>2. ReadAddressBus = PinsValue("AB", AddressBusWidth(model))
  <2> DEFINE w == AddressBusWidth(model)
             ids == SubSeq(AddressBusIds, 17 - w, 16)
  <2>1. w \in 1 .. 16
    BY WidthIs
  <2>2. \A i \in 0 .. w - 1 : <<"AB", i>> \in DOMAIN EnumPin(model)
    BY NumberedBuses, Zenon
  <2>3. ReadAddressBus = ReadNodes(ids)
    BY DEF ReadAddressBus
  <2> HIDE DEF w
  <2>4. Len(ids) = w /\ \A k \in 1 .. w : ids[k] = <<"AB", w - k>>
    <3>1. AddressBusIds \in Seq(Signals) /\ Len(AddressBusIds) = 16
      <4>1. \A k \in 1 .. 16 : <<"AB", 16 - k>> \in Signals
        BY DEF Signals
      <4> QED
        BY <4>1, BusNodes
    <3>2. Len(ids) = w /\ \A k \in 1 .. w : ids[k] = AddressBusIds[(17 - w) + k - 1]
      BY <2>1, <3>1
    <3>3. \A k \in 1 .. w : (17 - w) + k - 1 \in 1 .. 16 /\ 16 - ((17 - w) + k - 1) = w - k
      BY <2>1
    <3>4. \A k \in 1 .. 16 : AddressBusIds[k] = <<"AB", 16 - k>>
      BY BusNodes
    <3> QED
      BY <3>2, <3>3, <3>4
  <2> HIDE DEF ids
  <2>5. "AB" \in {"AB", "DB"}
    OBVIOUS
  <2> QED
    BY <2>1, <2>2, <2>3, <2>4, <2>5, PinsValueReads, Zenon DEF w
<1> QED
  BY <1>1, <1>2, Zenon DEF BusesArePins

THEOREM BusesArePinsHolds ==
  ASSUME Chosen \subseteq Agreed
  PROVE  Spec => []BusesArePins
<1>1. ChipInv => BusesArePins
  BY BusesAre DEF ChipInv, TypeOK
<1> QED
  BY <1>1, ChipInvariant, PTL

-----------------------------------------------------------------------------
(* The pins.                                                               *)

(* The signal s is high, as far as the host can drive it. *)
Raised(s) ==
  CASE s[1] = "P"   -> s[2] \in ioports
    [] s[1] = "AEC" -> isAecHigh
    [] OTHER        -> s \in Nodes /\ drive[s] = "up"

(* Its pin was never written, or it is as it was written last. *)
Holds(s) ==
  LET written == last[EnumPin(model)[s]]
  IN written # "none" => (Raised(s) <=> written = "high")

LEMMA PinsHoldIs ==
  PinsHold <=> \A s \in DOMAIN EnumPin(model) : Holds(s)
BY Zenon DEF PinsHold, Holds, Raised

LEMMA LevelIs ==
  ASSUME NEW value \in BOOLEAN
  PROVE  Level(value) # "none" /\ (Level(value) = "high" <=> value)
BY DEF Level

LEMMA EnumPinIs ==
  ASSUME model \in Agreed, NEW s \in DOMAIN EnumPin(model)
  PROVE  /\ s \in Signals /\ s # Pin("none")
         /\ EnumPin(model)[s] \in 1 .. pinCount
         /\ pinout[EnumPin(model)[s]] = s
         /\ \A pin \in 1 .. pinCount : pinout[pin] = s => pin = EnumPin(model)[s]
<1>1. Pin("none") \notin DOMAIN EnumPin(model)
  BY NumberedBuses, Zenon
<1>2. /\ s \in Signals /\ EnumPin(model)[s] \in 1 .. Len(Pinout(model))
      /\ \A k \in 1 .. Len(Pinout(model)) : Pinout(model)[k] = s <=> k = EnumPin(model)[s]
  BY EnumIs, Zenon
<1> QED
  BY <1>1, <1>2, Zenon DEF pinCount, pinout

(* A step that writes other pins, and leaves what s drives, leaves s.      *)
LEMMA StillHolds ==
  ASSUME NEW s, Holds(s), model' = model, last'[EnumPin(model)[s]] = last[EnumPin(model)[s]],
         Raised(s)' <=> Raised(s)
  PROVE  Holds(s)'
BY Zenon DEF Holds

LEMMA NowHolds ==
  ASSUME NEW s, NEW value \in BOOLEAN, model' = model,
         last'[EnumPin(model)[s]] = Level(value), Raised(s)' <=> value
  PROVE  Holds(s)'
BY LevelIs, Zenon DEF Holds

LEMMA PinsGoOnHolding ==
  ASSUME ChipInv, model \in Agreed, PinsHold, [Next]_pvars
  PROVE  PinsHold'
<1> DEFINE enum == EnumPin(model)
<1>0. /\ TypeOK /\ iodirs = {} /\ model \in Models
      /\ drive \in [Nodes -> {"up", "down", "none"}]
      /\ last \in [1 .. pinCount -> {"high", "low", "none"}]
  <2>1. model \in Models
    BY DEF Agreed, Models
  <2> QED
    BY <2>1, Zenon DEF ChipInv, TypeOK
<1>1. PinsAndNodes
  <2>1. model \in Models
    BY DEF Agreed, Models
  <2> QED
    BY <2>1, NodesAre, Zenon
<1>2. model' = model
  BY DEF Next, PinWrite, UnconnectedWrite, AecWrite, PortWrite, WriteDataBus, Recalc, pvars
<1>3. Nodes' = Nodes
  BY <1>2, SameChip
<1> SUFFICES ASSUME NEW s \in DOMAIN enum PROVE Holds(s)'
  <2>1. PinsHold' <=> \A s \in DOMAIN EnumPin(model') : Holds(s)'
    BY Zenon DEF PinsHold, Holds, Raised
  <2> QED
    BY <1>2, <2>1, Zenon
<1>4. Holds(s)
  BY PinsHoldIs, Zenon
<1>5. /\ s \in Signals /\ s # Pin("none") /\ enum[s] \in 1 .. pinCount
      /\ pinout[enum[s]] = s /\ \A pin \in 1 .. pinCount : pinout[pin] = s => pin = enum[s]
  BY EnumPinIs, Zenon
<1> HIDE DEF enum
<1>6. ASSUME NEW pin, NEW value \in BOOLEAN, PinWrite(pin, value)
      PROVE  Holds(s)'
  <2>1. /\ pin \in 1 .. pinCount /\ pinout[pin] \in Nodes /\ pinout[pin][1] \notin Ports
        /\ last' = [last EXCEPT ![pin] = Level(value)]
        /\ drive' = [drive EXCEPT ![pinout[pin]] = SetNode(@, value)]
        /\ isAecHigh' = isAecHigh /\ ioports' = ioports
    BY <1>1, <1>6 DEF PinWrite, PinsAndNodes
  <2>2. CASE pin = enum[s]
    <3>1. last'[enum[s]] = Level(value)
      BY <1>0, <2>1, <2>2
    <3>2. s \in Nodes /\ s[1] # "P" /\ s[1] # "AEC"
      BY <1>5, <2>1, <2>2 DEF Ports
    <3>3. drive'[s] = SetNode(drive[s], value) /\ drive[s] \in {"up", "down", "none"}
      BY <1>0, <1>5, <2>1, <2>2, <3>2
    <3>4. Raised(s)' <=> value
      BY <1>3, <3>2, <3>3, SetNodeIs DEF Raised
    <3> QED
      BY <1>2, <3>1, <3>4, NowHolds DEF enum
  <2>3. CASE pin # enum[s]
    <3>1. last'[enum[s]] = last[enum[s]]
      BY <1>0, <1>5, <2>1, <2>3
    <3>2. \A t \in Nodes : t # pinout[pin] => drive'[t] = drive[t]
      BY <1>0, <2>1
    <3>3. pinout[pin] # s
      BY <1>5, <2>1, <2>3
    <3>4. Raised(s)' <=> Raised(s)
      BY <1>3, <2>1, <3>2, <3>3 DEF Raised
    <3> QED
      BY <1>2, <1>4, <3>1, <3>4, StillHolds DEF enum
  <2> QED
    BY <2>2, <2>3
<1>7. ASSUME NEW pin, NEW value \in BOOLEAN, UnconnectedWrite(pin, value)
      PROVE  Holds(s)'
  <2>1. /\ pin \in 1 .. pinCount /\ pinout[pin] = Pin("none")
        /\ last' = [last EXCEPT ![pin] = Level(value)]
        /\ drive' = drive /\ isAecHigh' = isAecHigh /\ ioports' = ioports
    BY <1>1, <1>7, SignalIs DEF UnconnectedWrite, PinsAndNodes
  <2>2. last'[enum[s]] = last[enum[s]]
    BY <1>0, <1>5, <2>1
  <2>3. Raised(s)' <=> Raised(s)
    BY <1>3, <2>1 DEF Raised
  <2> QED
    BY <1>2, <1>4, <2>2, <2>3, StillHolds DEF enum
<1>8. ASSUME NEW pin, NEW value \in BOOLEAN, AecWrite(pin, value)
      PROVE  Holds(s)'
  <2>1. /\ pin \in 1 .. pinCount /\ pinout[pin] = Pin("AEC")
        /\ last' = [last EXCEPT ![pin] = Level(value)]
        /\ drive' = drive /\ isAecHigh' = value /\ ioports' = ioports
    BY <1>1, <1>8, SignalIs DEF AecWrite, PinsAndNodes
  <2>2. CASE s[1] = "AEC"
    <3>1. pin = enum[s]
      BY <1>5, <2>1, <2>2, SignalIs
    <3>2. last'[enum[s]] = Level(value)
      BY <1>0, <2>1, <3>1
    <3>3. Raised(s)' <=> value
      BY <2>1, <2>2 DEF Raised
    <3> QED
      BY <1>2, <3>2, <3>3, NowHolds DEF enum
  <2>3. CASE s[1] # "AEC"
    <3>1. last'[enum[s]] = last[enum[s]]
      BY <1>0, <1>5, <2>1, <2>3 DEF Pin
    <3>2. Raised(s)' <=> Raised(s)
      BY <1>3, <2>1, <2>3 DEF Raised
    <3> QED
      BY <1>2, <1>4, <3>1, <3>2, StillHolds DEF enum
  <2> QED
    BY <2>2, <2>3
<1>9. ASSUME NEW pin, NEW value \in BOOLEAN, PortWrite(pin, value)
      PROVE  Holds(s)'
  <2> DEFINE i == pinout[pin][2]
  <2>1. /\ pin \in 1 .. pinCount /\ pinout[pin][1] = "P" /\ pinout[pin] \in Signals
        /\ last' = [last EXCEPT ![pin] = Level(value)]
        /\ drive' = drive /\ isAecHigh' = isAecHigh
    BY <1>1, <1>9 DEF PortWrite, PinsAndNodes
  <2>2. ioports' = IF value THEN ioports \cup {i} ELSE ioports \ {i}
    BY <1>0, <1>9 DEF PortWrite
  <2>3. pinout[pin] = <<"P", i>>
    BY <2>1, SignalIs
  <2> HIDE DEF i
  <2>4. CASE pin = enum[s]
    <3>1. last'[enum[s]] = Level(value)
      BY <1>0, <2>1, <2>4
    <3>2. s[1] = "P" /\ s[2] = i
      BY <1>5, <2>3, <2>4
    <3>3. Raised(s)' <=> value
      BY <2>2, <3>2 DEF Raised
    <3> QED
      BY <1>2, <3>1, <3>3, NowHolds DEF enum
  <2>5. CASE pin # enum[s]
    <3>1. last'[enum[s]] = last[enum[s]]
      BY <1>0, <1>5, <2>1, <2>5
    <3>2. s[1] = "P" => s[2] # i
      BY <1>5, <2>1, <2>3, <2>5, SignalIs
    <3>3. Raised(s)' <=> Raised(s)
      BY <1>3, <2>1, <2>2, <3>2 DEF Raised
    <3> QED
      BY <1>2, <1>4, <3>1, <3>3, StillHolds DEF enum
  <2> QED
    BY <2>4, <2>5
<1>10. ASSUME NEW value \in DataValues, WriteDataBus(value)
       PROVE  Holds(s)'
  <2>1. /\ drive' = WriteNodes(DataBusIds, value)
        /\ last' = [pin \in DOMAIN last |->
                      IF pinout[pin][1] = "DB" THEN Level(Bit(value, pinout[pin][2])) ELSE last[pin]]
        /\ isAecHigh' = isAecHigh /\ ioports' = ioports
    BY <1>10 DEF WriteDataBus
  <2>2. last'[enum[s]] = IF s[1] = "DB" THEN Level(Bit(value, s[2])) ELSE last[enum[s]]
    BY <1>0, <1>5, <2>1
  <2>3. CASE s[1] = "DB"
    <3> DEFINE i == s[2]
    <3>1. i \in 0 .. 7 /\ s = <<"DB", i>> /\ s \in Nodes
      BY <1>1, <1>5, <2>3, SignalIs DEF PinsAndNodes
    <3>2. drive'[s] = SetNode(drive[s], Bit(value, i))
      <4>1. DOMAIN DataBusIds = 1 .. 8 /\ Len(DataBusIds) = 8
            /\ \A k \in 1 .. 8 : DataBusIds[k] = <<"DB", 8 - k>>
        BY BusNodes
      <4>2. 8 - i \in 1 .. 8 /\ DataBusIds[8 - i] = s
        BY <3>1, <4>1
      <4>3. \A k \in 1 .. 8 : DataBusIds[k] = s => k = 8 - i
        <5>1. \A k \in 1 .. 8 : <<"DB", 8 - k>>[2] = 8 - k
          OBVIOUS
        <5> QED
          BY <3>1, <4>1, <5>1
      <4> HIDE DEF i
      <4> DEFINE q == CHOOSE k \in DOMAIN DataBusIds : DataBusIds[k] = s
      <4>4. q = 8 - i
        BY <4>1, <4>2, <4>3
      <4>5. s \in Range(DataBusIds)
        BY <4>1, <4>2 DEF Range
      <4>6. drive'[s] = SetNode(drive[s], Bit(value, Len(DataBusIds) - q))
        BY <2>1, <3>1, <4>5 DEF WriteNodes
      <4>7. 8 - (8 - i) = i
        BY <3>1
      <4> QED
        BY <4>1, <4>4, <4>6, <4>7
    <3>3. drive[s] \in {"up", "down", "none"} /\ Bit(value, i) \in BOOLEAN
      BY <1>0, <3>1 DEF Bit
    <3>4. Raised(s)' <=> Bit(value, i)
      <4>1. drive'[s] = "up" <=> Bit(value, i)
        BY <3>2, <3>3, SetNodeIs
      <4> QED
        BY <1>3, <2>3, <3>1, <4>1 DEF Raised
    <3> QED
      BY <1>2, <2>2, <2>3, <3>3, <3>4, NowHolds DEF enum
  <2>4. CASE s[1] # "DB"
    <3>1. s \notin Range(DataBusIds)
      BY <2>4, BusNodes DEF Range
    <3>2. s \in Nodes => drive'[s] = drive[s]
      BY <2>1, <3>1 DEF WriteNodes
    <3>3. Raised(s)' <=> Raised(s)
      BY <1>3, <2>1, <3>2 DEF Raised
    <3>4. last'[enum[s]] = last[enum[s]]
      BY <2>2, <2>4
    <3> QED
      BY <1>2, <1>4, <3>3, <3>4, StillHolds DEF enum
  <2> QED
    BY <2>3, <2>4
<1>11. ASSUME last' = last, drive' = drive, isAecHigh' = isAecHigh, ioports' = ioports
       PROVE  Holds(s)'
  <2>1. Raised(s)' <=> Raised(s)
    BY <1>3, <1>11 DEF Raised
  <2> QED
    BY <1>2, <1>4, <1>11, <2>1, StillHolds DEF enum
<1>12. ASSUME NEW address, NEW reading, NEW value, NEW words, Recalc(address, reading, value, words)
       PROVE  Holds(s)'
  BY <1>11, <1>12 DEF Recalc
<1>13. ASSUME UNCHANGED pvars
       PROVE  Holds(s)'
  BY <1>11, <1>13 DEF pvars
<1> QED
  BY <1>6, <1>7, <1>8, <1>9, <1>10, <1>12, <1>13 DEF Next

LEMMA PinsStartHolding ==
  ASSUME Init, model \in Agreed
  PROVE  PinsHold
<1>1. \A s \in DOMAIN EnumPin(model) : Holds(s)
  BY EnumPinIs DEF Init, Holds
<1> QED
  BY <1>1, PinsHoldIs

THEOREM PinsHoldHolds ==
  ASSUME Chosen \subseteq Agreed
  PROVE  Spec => []PinsHold
<1>1. Init => PinsHold
  BY PinsStartHolding DEF Init
<1>2. ChipInv /\ PinsHold /\ [Next]_pvars => PinsHold'
  BY PinsGoOnHolding DEF ChipInv, TypeOK
<1> QED
  BY <1>1, <1>2, ChipInvariant, PTL DEF Spec
=============================================================================
