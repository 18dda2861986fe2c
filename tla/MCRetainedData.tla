----------------------------- MODULE MCRetainedData -----------------------------
(* RetainedData within bounds: windows of several samples with one         *)
(* registration, or of the first sample with any number of them and a day  *)
(* more.                                                                   *)
EXTENDS RetainedData

First == CHOOSE s \in Samples : \A t \in Samples : s <= t

Windowed == clock <= 1 /\ \A c, d \in Calls : reg[c].pc = "new" \/ reg[d].pc = "new" \/ c = d
Documented == taken \subseteq {First} /\ snap.sel \in {None, <<First, First>>}

MCNext == DataNext /\ (Windowed' \/ Documented')

MCSpec == DataInit /\ [][MCNext]_dataVars
=================================================================================
