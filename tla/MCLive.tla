-------------------------------- MODULE MCLive --------------------------------
(* The decisions about authority and the live telemetry they let in, in    *)
(* one run.  They share no state: a behaviour exercises one of the guards, *)
(* or, while the guards are idle, the manager's stream or the analysis.    *)
EXTENDS TwinAuthority, LiveTelemetry, TLC

VARIABLE scene

Symmetry == Permutations(Requests)

Periods == [g \in Guards \ {"idle"} |-> 2]
SomeGrants == {[role |-> "OPERATOR", from |-> 2, to |-> 4], [role |-> "AUDITOR", from |-> 0, to |-> 0]}

MCInit ==
    /\ AuthInit /\ Init
    /\ scene \in IF guard = "idle" THEN {"stream", "analysis"} ELSE {"guard"}

Telemetry ==
    \/ \E p \in Payloads : Publish(p)
    \/ scene = "stream" /\ StreamNext
    \/ scene = "analysis" /\ AnalysisNext

MCNext ==
    \/ scene = "guard" /\ AuthNext /\ UNCHANGED <<vars, scene>>
    \/ scene # "guard" /\ Telemetry /\ UNCHANGED <<authVars, scene>>

MCSpec == MCInit /\ [][MCNext]_<<authVars, vars, scene>>
=============================================================================
