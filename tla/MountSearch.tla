---------------------------- MODULE MountSearch ----------------------------
(***************************************************************************)
(* The binary search with which myfs_mount finds the last record of the    *)
(* descriptor table (lib/myfs/myfs.cpp), one flash read per step.          *)
(*                                                                         *)
(* Slot 0 of the table holds the format marker, slots 1 .. Slots-1 hold    *)
(* descriptors.  Records are only ever appended, so the table is a prefix  *)
(* of written slots; the last of them may be unclosed (its size is still   *)
(* the erased word) if the power went away during a recording.             *)
(***************************************************************************)
EXTENDS Integers

CONSTANTS
  Slots,     \* descriptors in the table, the marker's slot included
  Levels,    \* Slots = 2 ^ (Levels + 2)
  StepSize   \* StepSize[i] = 2 ^ i

ASSUME SearchAssumption ==
  /\ Levels \in Nat
  /\ StepSize \in [0 .. Levels -> Nat \ {0}]
  /\ StepSize[0] = 1
  /\ \A i \in 1 .. Levels : StepSize[i] = 2 * StepSize[i - 1]
  /\ Slots = 4 * StepSize[Levels]

VARIABLES
  count,     \* flash: how many slots are written
  unclosed,  \* flash: the last written slot has no size yet
  foreign,   \* flash: a slot whose magic word is neither erased nor a file's, or 0
  cur,       \* current_file_id
  step,      \* current_step_size
  probes,    \* descriptors read so far
  outcome    \* how the loop ended, "searching" while it has not

flash == <<count, unclosed, foreign>>
vars  == <<flash, cur, step, probes, outcome>>

Outcomes == {"searching", "found", "repair", "corrupt"}

(* What a read of slot i's descriptor finds.                               *)
Read(i) ==
  IF i = foreign THEN "foreign"
  ELSE IF i > count THEN "empty"
  ELSE IF i = count /\ unclosed THEN "unclosed"
  ELSE "closed"

(* Mutant: the step starts as large as the slot, not half of it.           *)
InitFullStep ==
  /\ count \in 0 .. Slots - 1
  /\ unclosed \in IF count = 0 THEN {FALSE} ELSE BOOLEAN
  /\ foreign \in 0 .. Slots - 1
  /\ cur = Slots \div 2
  /\ step = cur
  /\ probes = 0
  /\ outcome = "searching"

Init ==
  /\ count \in 0 .. Slots - 1
  /\ unclosed \in IF count = 0 THEN {FALSE} ELSE BOOLEAN
  /\ foreign \in 0 .. Slots - 1
  /\ cur = Slots \div 2
  /\ step = cur \div 2
  /\ probes = 0
  /\ outcome = "searching"

Searching == outcome = "searching" /\ step > 0

(* Mutant: the step shrinks by one instead of by half.                     *)
MoveToLinear(next) ==
  /\ cur' = next
  /\ step' = step - 1
  /\ outcome' = IF step' = 0 THEN "found" ELSE "searching"
  /\ probes' = probes + 1
  /\ UNCHANGED flash

(* The probed slot settled the direction: halve the step, and stop the     *)
(* loop once it is zero.                                                   *)
MoveTo(next) ==
  /\ cur' = next
  /\ step' = step \div 2
  /\ outcome' = IF step' = 0 THEN "found" ELSE "searching"
  /\ probes' = probes + 1
  /\ UNCHANGED flash

ProbeEmpty ==
  /\ Searching
  /\ Read(cur) = "empty"
  /\ MoveTo(cur - step)

(* Mutant: the search goes down from a written slot.                       *)
ProbeClosedDown ==
  /\ Searching
  /\ Read(cur) = "closed"
  /\ MoveTo(cur - step)

(* Mutant: the size of a written record is not looked at.                  *)
ProbeWritten ==
  /\ Searching
  /\ Read(cur) \in {"closed", "unclosed"}
  /\ MoveTo(cur + step)

ProbeClosed ==
  /\ Searching
  /\ Read(cur) = "closed"
  /\ MoveTo(cur + step)

Stop(how) ==
  /\ outcome' = how
  /\ probes' = probes + 1
  /\ UNCHANGED <<flash, cur, step>>

(* Mutant: any written record is taken for an interrupted one.             *)
ProbeWrittenStops ==
  /\ Searching
  /\ Read(cur) \in {"closed", "unclosed"}
  /\ Stop("repair")

ProbeUnclosed ==
  /\ Searching
  /\ Read(cur) = "unclosed"
  /\ Stop("repair")

(* Mutant: a damaged descriptor is only noticed on the first probe.        *)
ProbeForeignOnce ==
  /\ Searching
  /\ Read(cur) = "foreign"
  /\ probes = 0
  /\ Stop("corrupt")

ProbeForeign ==
  /\ Searching
  /\ Read(cur) = "foreign"
  /\ Stop("corrupt")

Next == ProbeEmpty \/ ProbeClosed \/ ProbeUnclosed \/ ProbeForeign

Spec == Init /\ [][Next]_vars

(* The loop runs inside one call of myfs_mount, which no other task can    *)
(* stop for ever: it keeps taking its steps.                               *)
FairSpec == Spec /\ WF_vars(Next)

----------------------------------------------------------------------------

(* The search only ever reads descriptor slots and its step is a power of  *)
(* two (myfs.cpp:115-117).                                                 *)
TypeOK ==
  /\ count \in 0 .. Slots - 1
  /\ unclosed \in BOOLEAN
  /\ foreign \in 0 .. Slots - 1
  /\ cur \in 1 .. Slots - 1
  /\ step \in {0} \cup {StepSize[i] : i \in 0 .. Levels}
  /\ probes \in 0 .. Levels + 1
  /\ outcome \in Outcomes

(* When the loop ends normally, the last record is in the slot it ended on *)
(* or the one before: the case analysis that follows (myfs.cpp:160-243),   *)
(* which reads only the neighbours of that slot, cannot miss it.           *)
FoundBesideLastRecord ==
  outcome = "found" => cur % 2 = 1 /\ count \in {cur - 1, cur}

(* Repair is asked for the record the power loss interrupted and no other  *)
(* (myfs.cpp:139-147).                                                     *)
RepairsTheLastRecord ==
  outcome = "repair" => unclosed /\ cur = count

(* An interrupted record in an even slot never goes unnoticed: only one in *)
(* an odd slot reaches the code after the loop.                            *)
EvenUnclosedIsProbed ==
  outcome = "found" /\ unclosed => count % 2 = 1

(* Mounting reads as many descriptors as the table has doublings, however  *)
(* many records there are (myfs.h:13-14 asks for better than linear).      *)
LogarithmicProbes ==
  /\ outcome = "found" => probes = Levels + 1
  /\ probes <= Levels + 1

(* The loop ends.                                                          *)
Terminates == <>(outcome # "searching")
============================================================================
