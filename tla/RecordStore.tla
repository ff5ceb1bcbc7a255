---------------------------- MODULE RecordStore ----------------------------
(***************************************************************************)
(* What the record memory promises the rest of the device: the saved       *)
(* records form a list, a record is written sample by sample, it joins the *)
(* list with exactly the samples written to it, and a saved record is read *)
(* back unchanged until all of them are wiped at once.  It does not promise *)
(* to refuse a record when the list is full: that one cannot be saved, and *)
(* it costs the list's first record.                                       *)
(***************************************************************************)
EXTENDS Naturals, Sequences

CONSTANTS
  Record,         \* records
  Sample,         \* bytes of one sample
  Content(_, _),  \* Content(r, n): what a reader of the n bytes of r gets
  Capacity,       \* the longest list
  Spoilt(_)       \* what is left of the first record's content

VARIABLES
  saved,    \* the list of saved records, [rec, size, content]
  writing   \* the records being written, at most one: {} or {[rec, bytes]}

storeVars == <<saved, writing>>

Init == saved = <<>> /\ writing = {}

Begin(r) ==
  /\ writing = {} /\ Len(saved) < Capacity
  /\ writing' = {[rec |-> r, bytes |-> 0]}
  /\ UNCHANGED saved

BeginBeyond(r) ==
  /\ writing = {} /\ Len(saved) = Capacity
  /\ writing' = {[rec |-> r, bytes |-> 0]}
  /\ saved' = [saved EXCEPT ![1].content = Spoilt(@)]

AddSample ==
  /\ writing # {}
  /\ \E w \in writing : writing' = {[w EXCEPT !.bytes = @ + Sample]}
  /\ UNCHANGED saved

Save ==
  /\ writing # {} /\ writing' = {} /\ Len(saved) < Capacity
  /\ \E w \in writing :
       saved' = Append(saved, [rec |-> w.rec, size |-> w.bytes,
                               content |-> Content(w.rec, w.bytes)])

(* An unfinished record is lost, or every record is.                       *)
Abandon == writing # {} /\ writing' = {} /\ UNCHANGED saved
Wipe    == writing' = {} /\ saved # <<>> /\ saved' = <<>>

Next == (\E r \in Record : Begin(r) \/ BeginBeyond(r)) \/ AddSample \/ Save \/ Abandon \/ Wipe

Spec == Init /\ [][Next]_storeVars
=============================================================================
