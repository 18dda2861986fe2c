------------------------------ MODULE MCIngestion ------------------------------
(***************************************************************************)
(* The ingestion worker and the executor it submits through, in one run.   *)
(* They share no state here: every outcome of a call of execute is an      *)
(* outcome of the worker's job, whatever the stations did.  The calls of   *)
(* execute come first; the worker acts in one of the states they end in.   *)
(***************************************************************************)
EXTENDS IngestionWorker, SponsoredExecutor

allVars == <<vars, executorVars>>

(* Every call was answered by its first station, and committed. *)
Executed ==
    \A o \in Operations : outcome[o] = "success" /\ station[o] = 1 /\ garbled[o] = {}

MCInit == Init /\ ExecutorInit

MCNext ==
    \/ ExecutorNext /\ UNCHANGED vars
    \/ Executed /\ Next /\ UNCHANGED executorVars

(* The fairness of the two specifications, each in its turn. *)
MCFairness ==
    /\ \A o \in Operations : WF_allVars(Step(o) /\ UNCHANGED vars)
    /\ WF_allVars(Executed /\ Dequeue /\ UNCHANGED executorVars)
    /\ WF_allVars(Executed /\ (\E i \in DOMAIN queue : DelayElapses(i)) /\ UNCHANGED executorVars)
    /\ WF_allVars(Executed /\ (Succeed \/ \E fault \in FaultClasses : Fail(fault)) /\ UNCHANGED executorVars)
    /\ WF_allVars(Executed /\ (CheckAnswers \/ CheckThrows) /\ UNCHANGED executorVars)

MCSpec == MCInit /\ [][MCNext]_allVars /\ MCFairness
================================================================================
