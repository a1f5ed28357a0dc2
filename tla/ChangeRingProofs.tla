-------------------------- MODULE ChangeRingProofs --------------------------
(***************************************************************************)
(* The ring of changed nodes implements the FIFO, for every size and every *)
(* set of ids.                                                             *)
(***************************************************************************)
EXTENDS ChangeRing, SequenceTheorems, TLAPS

-----------------------------------------------------------------------------
(* Arithmetic of the places, stated for the offsets themselves. *)

(* The length and the places of the entries. *)
LEMMA HeldBound ==
  ASSUME SlotsOK
  PROVE  /\ Held \in Slots
         /\ (Held = 0 <=> eating = feeding)
         /\ \A k \in Slots : Place(k) \in Slots
         /\ Place(Held) = feeding
         /\ \A k \in 0 .. Held - 1 : Place(k) # feeding
  BY RingAssumption DEF SlotsOK, Slots, Held, Place

(* Putting an entry in makes the ring longer by one, or empty. *)
LEMMA HeldPush ==
  ASSUME SlotsOK, feeding' = Following(feeding), eating' = eating
  PROVE  /\ Held' = (IF Held = Size - 1 THEN 0 ELSE Held + 1)
         /\ \A k \in Slots : Place(k)' = Place(k)
  BY RingAssumption DEF SlotsOK, Slots, Held, Place, Following

(* Taking one out makes it shorter, and every other entry comes one nearer.*)
LEMMA HeldPop ==
  ASSUME SlotsOK, ~IsEmpty, eating' = Following(eating), feeding' = feeding
  PROVE  /\ Held > 0
         /\ Held' = Held - 1
         /\ \A k \in 0 .. Held - 2 : Place(k)' = Place(k + 1)
         /\ Place(0) = eating
  BY RingAssumption DEF SlotsOK, Slots, Held, Place, Following, IsEmpty

-----------------------------------------------------------------------------
Inv == SlotsOK /\ HoldsIds

(* The zeroes of resize() are never handed out. *)
LEMMA InvInductive == Spec => []Inv
<1>1. Init => Inv
  BY RingAssumption DEF Init, Inv, SlotsOK, HoldsIds, Entries, Held, Slots
<1>2. Inv /\ [Next]_rvars => Inv'
  <2> SUFFICES ASSUME Inv, [Next]_rvars PROVE Inv'
    OBVIOUS
  <2> USE DEF Inv
  <2>1. ASSUME NEW id \in Ids, Push(id) PROVE Inv'
    <3>1. SlotsOK'
      BY <2>1, RingAssumption DEF Push, SlotsOK, Slots, Following
    <3>2. Held \in Slots /\ Place(Held) = feeding
      BY HeldBound
    <3>3. /\ Held' = (IF Held = Size - 1 THEN 0 ELSE Held + 1)
          /\ \A k \in Slots : Place(k)' = Place(k)
      BY <2>1, HeldPush DEF Push
    <3>4. ASSUME NEW k \in 1 .. Held' PROVE slots'[Place(k - 1)'] \in Ids
      <4>1. k - 1 \in Slots /\ k - 1 \in 0 .. Held
        BY <3>2, <3>3, <3>4, RingAssumption DEF Slots
      <4>2. Place(k - 1)' = Place(k - 1) /\ Place(k - 1) \in Slots
        BY <4>1, <3>3, HeldBound
      <4>3. CASE Place(k - 1) = feeding
        BY <4>2, <4>3, <2>1 DEF Push, SlotsOK
      <4>4. CASE Place(k - 1) # feeding
        <5>1. k \in 1 .. Held
          BY <4>1, <4>4, <3>2 DEF Slots
        <5>2. slots[Place(k - 1)] \in Ids
          BY <5>1 DEF HoldsIds, Entries
        <5> QED BY <5>2, <4>2, <4>4, <2>1 DEF Push, SlotsOK
      <4> QED BY <4>3, <4>4
    <3>5. HoldsIds'
      BY <3>4 DEF HoldsIds, Entries
    <3> QED BY <3>1, <3>5
  <2>2. CASE Pop
    <3>1. SlotsOK'
      BY <2>2, RingAssumption DEF Pop, SlotsOK, Slots, Following
    <3>2. Held \in Slots
      BY HeldBound
    <3>3. Held' = Held - 1 /\ \A k \in 0 .. Held - 2 : Place(k)' = Place(k + 1)
      BY <2>2, HeldPop DEF Pop
    <3>4. ASSUME NEW k \in 1 .. Held' PROVE slots'[Place(k - 1)'] \in Ids
      <4>1. k - 1 \in 0 .. Held - 2 /\ k + 1 \in 1 .. Held /\ k + 1 - 1 = k /\ k - 1 + 1 = k
        BY <3>2, <3>3, <3>4 DEF Slots
      <4>2. slots[Place(k)] \in Ids
        BY <4>1 DEF HoldsIds, Entries
      <4> QED BY <4>1, <4>2, <3>3, <2>2 DEF Pop
    <3>5. HoldsIds'
      BY <3>4 DEF HoldsIds, Entries
    <3> QED BY <3>1, <3>5
  <2>3. ASSUME NEW id \in Ids, Unmark(id) PROVE Inv'
    BY <2>3 DEF Unmark, SlotsOK, HoldsIds, Entries, Held, Place
  <2>4. CASE UNCHANGED rvars
    BY <2>4 DEF rvars, SlotsOK, HoldsIds, Entries, Held, Place
  <2> QED BY <2>1, <2>2, <2>3, <2>4 DEF Next
<1> QED BY <1>1, <1>2, PTL DEF Spec

(* The offsets stay inside the vector, which is what ++ and the comparison *)
(* with end() are for, and only ids that were pushed are ever taken out.   *)
THEOREM RingTypeCorrect == Spec => []TypeOK
BY InvInductive, PTL DEF Inv, TypeOK

-----------------------------------------------------------------------------
(* The entries after a push, and after a pop. *)
LEMMA EntriesPush ==
  ASSUME Inv, NEW id \in Ids, Push(id)
  PROVE  Entries' = IF Len(Entries) = Size - 1 THEN <<>> ELSE Append(Entries, id)
<1> USE DEF Inv
<1>1. Held \in Slots /\ Place(Held) = feeding
      /\ \A k \in 0 .. Held - 1 : Place(k) # feeding /\ Place(k) \in Slots
  BY HeldBound, RingAssumption DEF Slots
<1>2. /\ Held' = (IF Held = Size - 1 THEN 0 ELSE Held + 1)
      /\ \A k \in Slots : Place(k)' = Place(k)
  BY HeldPush DEF Push
<1>3. Held \in Nat /\ Len(Entries) = Held /\ DOMAIN Entries = 1 .. Held
  BY <1>1, RingAssumption DEF Slots, Entries
<1>4. CASE Held = Size - 1
  BY <1>2, <1>3, <1>4 DEF Entries
<1>5. CASE Held # Size - 1
  <2>1. Held' = Held + 1
    BY <1>2, <1>5
  <2>2. Entries' = [k \in 1 .. Held + 1 |-> slots'[Place(k - 1)']]
    BY <2>1 DEF Entries
  <2>3. ASSUME NEW k \in 1 .. Held + 1
        PROVE  slots'[Place(k - 1)'] = IF k <= Held THEN Entries[k] ELSE id
    <3>1. k - 1 \in Slots /\ k - 1 \in 0 .. Held
      BY <1>1, <1>5, <2>3, RingAssumption DEF Slots
    <3>2. Place(k - 1)' = Place(k - 1)
      BY <3>1, <1>2
    <3>3. CASE k <= Held
      <4>1. k \in 1 .. Held /\ k - 1 \in 0 .. Held - 1
        BY <3>3, <2>3, <1>3
      <4>2. slots'[Place(k - 1)] = slots[Place(k - 1)]
        BY <4>1, <1>1 DEF Push, SlotsOK
      <4> QED BY <4>1, <4>2, <3>2, <3>3 DEF Entries
    <3>4. CASE ~(k <= Held)
      <4>1. k - 1 = Held
        BY <3>4, <2>3, <1>3
      <4>2. slots'[feeding] = id
        BY DEF Push, SlotsOK
      <4> QED BY <4>1, <4>2, <3>2, <3>4, <1>1
    <3> QED BY <3>3, <3>4
  <2>4. Entries \in Seq(Ids) /\ Entries' \in Seq(Ids)
    <3>1. \A k \in 1 .. Held : slots[Place(k - 1)] \in Ids
      BY <1>3 DEF HoldsIds, Entries
    <3>2. \A k \in 1 .. Held + 1 : slots'[Place(k - 1)'] \in Ids
      <4>1. \A k \in 1 .. Held + 1 : (IF k <= Held THEN Entries[k] ELSE id) \in Ids
        BY <1>3 DEF HoldsIds
      <4> QED BY <4>1, <2>3
    <3>3. Entries \in Seq(Ids)
      BY <3>1, <1>3 DEF Entries
    <3>4. Entries' \in Seq(Ids)
      BY <3>2, <2>2, <1>3
    <3> QED BY <3>3, <3>4
  <2>5. Entries' = Append(Entries, id)
    <3> DEFINE app == Append(Entries, id)
    <3>1. app \in Seq(Ids) /\ Len(app) = Held + 1
          /\ (\A k \in 1 .. Held : app[k] = Entries[k]) /\ app[Held + 1] = id
      BY <2>4, <1>3, AppendProperties
    <3>2. Len(Entries') = Held + 1
      BY <2>2, <1>3
    <3>3. \A k \in 1 .. Held + 1 : Entries'[k] = app[k]
      <4>1. \A k \in 1 .. Held + 1 : Entries'[k] = IF k <= Held THEN Entries[k] ELSE id
        BY <2>2, <2>3
      <4>2. \A k \in 1 .. Held + 1 : k \in 1 .. Held \/ k = Held + 1
        BY <1>3
      <4> HIDE DEF app
      <4> QED BY <4>1, <4>2, <3>1, <1>3
    <3> HIDE DEF app
    <3>4. Entries' = app
      BY <3>1, <3>2, <3>3, <2>4, SeqEqual
    <3> QED BY <3>4 DEF app
  <2> QED BY <2>5, <1>3, <1>5
<1> QED BY <1>4, <1>5

LEMMA EntriesPop ==
  ASSUME Inv, Pop
  PROVE  /\ Entries # <<>>
         /\ Entries' = Tail(Entries)
         /\ Head(Entries) = slots[eating]
<1> USE DEF Inv
<1>1. Held \in Nat /\ Held > 0 /\ Held' = Held - 1 /\ Place(0) = eating
      /\ \A k \in 0 .. Held - 2 : Place(k)' = Place(k + 1)
  BY HeldBound, HeldPop DEF Pop, Slots
<1>2. Len(Entries) = Held /\ Entries \in Seq(Ids)
  BY <1>1 DEF HoldsIds, Entries
<1>3. Entries' = [k \in 1 .. Held - 1 |-> slots[Place(k - 1)']]
  BY <1>1 DEF Entries, Pop
<1>4. ASSUME NEW k \in 1 .. Held - 1 PROVE slots[Place(k - 1)'] = Entries[k + 1]
  <2>1. k - 1 \in 0 .. Held - 2 /\ k - 1 + 1 = k /\ k + 1 - 1 = k /\ k + 1 \in 1 .. Held
    BY <1>1, <1>4
  <2> QED BY <2>1, <1>1 DEF Entries
<1>5. Entries # <<>> /\ Tail(Entries) \in Seq(Ids) /\ Len(Tail(Entries)) = Held - 1
      /\ \A k \in 1 .. Held - 1 : Tail(Entries)[k] = Entries[k + 1]
  BY <1>1, <1>2, HeadTailProperties
<1>6. Entries' = Tail(Entries)
  <2>1. Len(Entries') = Held - 1
    BY <1>1, <1>3
  <2>2. \A k \in 1 .. Held - 1 : Entries'[k] = Tail(Entries)[k]
    BY <1>3, <1>4, <1>5
  <2>3. Entries' \in Seq(Ids)
    <3>1. \A k \in 1 .. Held - 1 : k + 1 \in 1 .. Held
      BY <1>1
    <3>2. \A k \in 1 .. Held - 1 : slots[Place(k - 1)'] \in Ids
      BY <3>1, <1>4, <1>2 DEF HoldsIds, Entries
    <3> QED BY <3>2, <1>1, <1>3
  <2> QED BY <2>1, <2>2, <2>3, <1>5, SeqEqual
<1>7. Head(Entries) = Entries[1] /\ Entries[1] = slots[Place(0)]
  BY <1>1, <1>2 DEF Entries
<1> QED BY <1>1, <1>2, <1>6, <1>7

(* changed_queue, its two iterators and its marks are a FIFO. *)
THEOREM RingRefinesFifo == Spec => RingImplementsFifo
<1>1. Init => Fifo!FInit
  BY RingAssumption DEF Init, Fifo!FInit, Entries, Held
<1>2. Inv /\ [Next]_rvars => [Fifo!FNext]_(Fifo!fvars)
  <2> SUFFICES ASSUME Inv, [Next]_rvars PROVE [Fifo!FNext]_(Fifo!fvars)
    OBVIOUS
  <2>1. ASSUME NEW id \in Ids, Push(id) PROVE Fifo!Push(id)
    BY <2>1, EntriesPush DEF Push, Fifo!Push
  <2>2. ASSUME Pop PROVE Fifo!Pop
    BY <2>2, EntriesPop DEF Pop, Fifo!Pop
  <2>3. ASSUME NEW id \in Ids, Unmark(id) PROVE Fifo!Unmark(id)
    BY <2>3 DEF Unmark, Fifo!Unmark, Entries, Held, Place
  <2>4. CASE UNCHANGED rvars
    BY <2>4 DEF rvars, Fifo!fvars, Entries, Held, Place
  <2> QED BY <2>1, <2>2, <2>3, <2>4 DEF Next, Fifo!FNext
<1>3. Spec => []Inv
  BY InvInductive
<1> QED BY <1>1, <1>2, <1>3, PTL DEF Spec, RingImplementsFifo, Fifo!FSpec
=============================================================================
