------------------------------- MODULE MCRequests -------------------------------
(***************************************************************************)
(* What the API keeps between requests, in one run: the idempotency        *)
(* entries and the tenants' credentials.  They share no state: a behaviour *)
(* exercises one of them.                                                  *)
(***************************************************************************)
EXTENDS Idempotency, TenantCredentials, TLC

VARIABLE scene

(* Requests and Ops may be the same model values: nothing relates them.    *)
Symmetry == Permutations(Requests) \cup Permutations(Ops) \cup Permutations(Tenants)

(* What the requests ask for is given when a behaviour starts: one choice  *)
(* is enough where none of them acts.                                      *)
Unasked ==
    /\ ~remote
    /\ key = [r \in Requests |-> CHOOSE k \in Keys : TRUE]
    /\ body = [r \in Requests |-> CHOOSE b \in Bodies : TRUE]

MCInit == Init /\ TenantInit /\ (scene = "idempotency" \/ (scene = "tenants" /\ Unasked))

MCNext ==
    \/ scene = "idempotency" /\ Next /\ UNCHANGED <<tenantVars, scene>>
    \/ scene = "tenants" /\ TenantNext /\ UNCHANGED <<vars, scene>>

MCSpec == MCInit /\ [][MCNext]_<<vars, tenantVars, scene>>
=================================================================================
