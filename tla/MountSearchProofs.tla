------------------------- MODULE MountSearchProofs -------------------------
(***************************************************************************)
(* Proofs about the mount's binary search, for a table of any size that is *)
(* a power of two (Slots = 4 * 2^Levels) and any number of records in it.  *)
(***************************************************************************)
EXTENDS MountSearch, TLAPS

(* With a step of StepSize[i] the boundary between written and erased      *)
(* slots is still less than two steps away on either side of cur, and the  *)
(* slot two steps below cur is known to be closed (or is the marker).      *)
Bracketed(i) ==
  /\ step = StepSize[i]
  /\ cur % 2 = 0
  /\ 2 * step <= cur /\ cur <= Slots - 2 * step
  /\ cur - 2 * step <= count /\ count < cur + 2 * step
  /\ unclosed => cur - 2 * step < count

(* The search is at its probe number Levels - i.                           *)
AtLevel(i) == Bracketed(i) /\ probes = Levels - i

FlashOK ==
  /\ count \in 0 .. Slots - 1
  /\ unclosed \in BOOLEAN
  /\ unclosed => count > 0
  /\ foreign \in 0 .. Slots - 1

(* The inductive invariant: what is known while the loop runs, and what is *)
(* known at each of its three ends.                                        *)
SInv ==
  /\ FlashOK
  /\ cur \in 1 .. Slots - 1
  /\ \/ outcome = "searching" /\ \E i \in 0 .. Levels : AtLevel(i)
     \/ /\ outcome = "found"
        /\ step = 0 /\ probes = Levels + 1
        /\ cur % 2 = 1 /\ count \in {cur - 1, cur}
        /\ unclosed => count = cur
     \/ /\ outcome = "repair"
        /\ \E i \in 0 .. Levels : step = StepSize[i]
        /\ probes \in 1 .. Levels + 1
        /\ unclosed /\ cur = count
     \/ /\ outcome = "corrupt"
        /\ \E i \in 0 .. Levels : step = StepSize[i]
        /\ probes \in 1 .. Levels + 1

(* Halving a step gives the step of the level below, and the last one is 1. *)
LEMMA HalfStep ==
  ASSUME NEW i \in 0 .. Levels
  PROVE  /\ StepSize[i] \in Nat /\ StepSize[i] >= 1
         /\ i = 0 => StepSize[i] = 1 /\ StepSize[i] \div 2 = 0
         /\ i > 0 => /\ i - 1 \in 0 .. Levels
                     /\ StepSize[i] \div 2 = StepSize[i - 1]
                     /\ StepSize[i] = 2 * StepSize[i - 1]
                     /\ StepSize[i - 1] \in Nat /\ StepSize[i - 1] >= 1
<1>1. StepSize[i] \in Nat \ {0}
  BY SearchAssumption
<1>2. i = 0 => StepSize[i] = 1 /\ StepSize[i] \div 2 = 0
  BY SearchAssumption
<1>3. ASSUME i > 0
      PROVE  /\ i - 1 \in 0 .. Levels
             /\ StepSize[i] = 2 * StepSize[i - 1]
             /\ StepSize[i - 1] \in Nat \ {0}
  <2>1. i \in 1 .. Levels /\ i - 1 \in 0 .. Levels
    BY <1>3, SearchAssumption
  <2>. QED  BY <2>1, SearchAssumption
<1>4. i > 0 => StepSize[i] \div 2 = StepSize[i - 1]
  BY <1>3
<1>. QED  BY <1>1, <1>2, <1>3, <1>4

LEMMA SInvInit == Init => SInv
<1>. SUFFICES ASSUME Init PROVE SInv
  OBVIOUS
<1>1. Levels \in 0 .. Levels /\ StepSize[Levels] \in Nat /\ StepSize[Levels] >= 1
  BY SearchAssumption
<1>2. cur = 2 * StepSize[Levels] /\ step = StepSize[Levels] /\ Slots \in Nat
  <2>1. Slots = 4 * StepSize[Levels]
    BY SearchAssumption
  <2>2. cur = Slots \div 2 /\ step = cur \div 2
    BY DEF Init
  <2>. QED  BY <1>1, <2>1, <2>2
<1>3. FlashOK /\ cur \in 1 .. Slots - 1
  <2>1. unclosed \in BOOLEAN /\ (count = 0 => ~unclosed)
    BY Zenon DEF Init
  <2>2. count \in 0 .. Slots - 1 /\ foreign \in 0 .. Slots - 1
    BY DEF Init
  <2>3. cur \in 1 .. Slots - 1
    BY <1>1, <1>2, SearchAssumption
  <2>. QED  BY <1>2, <2>1, <2>2, <2>3 DEF FlashOK
<1>4. AtLevel(Levels)
  <2>1. Slots = 4 * StepSize[Levels] /\ Levels \in Nat
    BY SearchAssumption
  <2>2. probes = Levels - Levels
    BY <2>1 DEF Init
  <2>3. cur % 2 = 0 /\ 2 * step <= cur /\ cur <= Slots - 2 * step
    BY <1>1, <1>2, <2>1
  <2>4. cur - 2 * step <= count /\ count < cur + 2 * step
        /\ (unclosed => cur - 2 * step < count)
    BY <1>1, <1>2, <1>3, <2>1 DEF FlashOK
  <2>. QED  BY <1>2, <2>2, <2>3, <2>4 DEF AtLevel, Bracketed
<1>. QED  BY <1>1, <1>3, <1>4 DEF SInv, Init

(* A move that keeps the boundary within one step of the new slot, and the *)
(* slot one step below it closed, keeps the invariant.                     *)
LEMMA SInvMove ==
  ASSUME SInv, Searching, NEW next \in Int, MoveTo(next),
         next \in {cur - step, cur + step},
         next - step <= count, count < next + step,
         unclosed => next - step < count
  PROVE  SInv'
<1>1. PICK i \in 0 .. Levels : AtLevel(i)
  BY DEF SInv, Searching
<1>. Slots \in Nat /\ Levels \in Nat
  BY SearchAssumption
<1>2. FlashOK' /\ cur' = next /\ next \in 1 .. Slots - 1
  BY <1>1, HalfStep DEF SInv, FlashOK, MoveTo, flash, AtLevel, Bracketed
<1>3. CASE i = 0
  <2>1. step = 1 /\ step' = 0 /\ outcome' = "found" /\ probes' = Levels + 1
    BY <1>1, <1>3, HalfStep DEF MoveTo, AtLevel, Bracketed
  <2>2. cur' % 2 = 1
    BY <1>1, <1>2, <2>1 DEF AtLevel, Bracketed, SInv
  <2>3. count' \in {cur' - 1, cur'} /\ (unclosed' => count' = cur')
    BY <1>2, <2>1 DEF MoveTo, flash, SInv, FlashOK
  <2>. QED  BY <1>2, <2>1, <2>2, <2>3 DEF SInv
<1>4. CASE i > 0
  <2>1. /\ i - 1 \in 0 .. Levels
        /\ step' = StepSize[i - 1] /\ step = 2 * step'
        /\ step' \in Nat /\ step' >= 1
    BY <1>1, <1>4, HalfStep DEF MoveTo, AtLevel, Bracketed
  <2>2. outcome' = "searching" /\ probes' = Levels - (i - 1)
    BY <1>1, <2>1 DEF MoveTo, AtLevel
  <2>3. cur' % 2 = 0 /\ 2 * step' <= cur' /\ cur' <= Slots - 2 * step'
    BY <1>1, <1>2, <2>1 DEF AtLevel, Bracketed, SInv
  <2>4. AtLevel(i - 1)'
    BY <1>2, <2>1, <2>2, <2>3 DEF AtLevel, Bracketed, MoveTo, flash
  <2>. QED  BY <1>2, <2>1, <2>2, <2>4 DEF SInv
<1>. QED  BY <1>3, <1>4

LEMMA SInvStop ==
  ASSUME SInv, Searching, NEW how \in {"repair", "corrupt"}, Stop(how),
         how = "repair" => unclosed /\ cur = count
  PROVE  SInv'
<1>1. PICK i \in 0 .. Levels : AtLevel(i)
  BY DEF SInv, Searching
<1>2. probes' \in 1 .. Levels + 1 /\ step' = StepSize[i]
  BY <1>1, SearchAssumption DEF Stop, AtLevel, Bracketed
<1>3. FlashOK' /\ cur' \in 1 .. Slots - 1
  BY DEF SInv, FlashOK, Stop, flash
<1>. QED  BY <1>1, <1>2, <1>3 DEF SInv, Stop, flash

LEMMA SInvNext == SInv /\ [Next]_vars => SInv'
<1>. SUFFICES ASSUME SInv, [Next]_vars PROVE SInv'
  OBVIOUS
<1>. Slots \in Nat
  BY SearchAssumption
<1>0. ASSUME Searching
      PROVE  /\ cur \in Int /\ step \in Int /\ step >= 1
             /\ cur - 2 * step <= count /\ count < cur + 2 * step
             /\ unclosed => cur - 2 * step < count
             /\ count \in Nat
  <2>1. PICK i \in 0 .. Levels : AtLevel(i)
    BY <1>0 DEF SInv, Searching
  <2>. QED  BY <2>1, HalfStep DEF SInv, FlashOK, AtLevel, Bracketed
<1>1. CASE ProbeEmpty
  <2>1. Searching /\ MoveTo(cur - step) /\ count < cur
    BY <1>1, <1>0 DEF ProbeEmpty, Read
  <2>. QED  BY <2>1, <1>0, SInvMove
<1>2. CASE ProbeClosed
  <2>1. Searching /\ MoveTo(cur + step) /\ cur <= count /\ (unclosed => cur < count)
    BY <1>2, <1>0 DEF ProbeClosed, Read
  <2>. QED  BY <2>1, <1>0, SInvMove
<1>3. CASE ProbeUnclosed
  <2>1. Searching /\ Stop("repair") /\ unclosed /\ cur = count
    BY <1>3 DEF ProbeUnclosed, Read
  <2>. QED  BY <2>1, SInvStop
<1>4. CASE ProbeForeign
  BY <1>4, SInvStop DEF ProbeForeign
<1>5. CASE UNCHANGED vars
  BY <1>5 DEF SInv, FlashOK, AtLevel, Bracketed, vars, flash
<1>. QED  BY <1>1, <1>2, <1>3, <1>4, <1>5 DEF Next

(* Every step of the search keeps the invariant.                           *)
LEMMA SearchInvariant == Spec => []SInv
<1>. QED  BY SInvInit, SInvNext, PTL DEF Spec

(* The search never reads outside the table and always has a power of two  *)
(* for its step: TypeOK, for every table size (myfs.cpp:115-157).          *)
THEOREM SearchTypeOK == Spec => []TypeOK
<1>1. SInv => TypeOK
  <2>. SUFFICES ASSUME SInv PROVE TypeOK
    OBVIOUS
  <2>. Levels \in Nat
    BY SearchAssumption
  <2>1. step \in {0} \cup {StepSize[i] : i \in 0 .. Levels}
    BY DEF SInv, AtLevel, Bracketed
  <2>2. probes \in 0 .. Levels + 1 /\ outcome \in Outcomes
    BY DEF SInv, AtLevel, Outcomes
  <2>. QED  BY <2>1, <2>2 DEF SInv, FlashOK, TypeOK
<1>. QED  BY <1>1, SearchInvariant, PTL

(* The search ends beside the last record, so that the neighbours read     *)
(* after the loop always contain it (myfs.cpp:160-243).                    *)
THEOREM SearchFindsLastRecord == Spec => []FoundBesideLastRecord
<1>1. SInv => FoundBesideLastRecord
  BY DEF SInv, FoundBesideLastRecord
<1>. QED  BY <1>1, SearchInvariant, PTL

(* Only the interrupted record is handed to the repair (myfs.cpp:139-147). *)
THEOREM SearchRepairsLast == Spec => []RepairsTheLastRecord
<1>1. SInv => RepairsTheLastRecord
  BY DEF SInv, RepairsTheLastRecord
<1>. QED  BY <1>1, SearchInvariant, PTL

(* An interrupted record in an even slot is always probed, hence noticed.  *)
THEOREM SearchProbesEvenUnclosed == Spec => []EvenUnclosedIsProbed
<1>1. SInv => EvenUnclosedIsProbed
  BY DEF SInv, EvenUnclosedIsProbed
<1>. QED  BY <1>1, SearchInvariant, PTL

(* Mounting takes Levels + 1 probes, whatever the number of records.       *)
THEOREM SearchIsLogarithmic == Spec => []LogarithmicProbes
<1>1. SInv => LogarithmicProbes
  BY SearchAssumption DEF SInv, LogarithmicProbes, AtLevel
<1>. QED  BY <1>1, SearchInvariant, PTL
============================================================================
