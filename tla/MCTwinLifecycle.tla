---------------------------- MODULE MCTwinLifecycle ----------------------------
(* The Twins a run starts from. *)
EXTENDS TwinLifecycle

Live(a) == [at |-> "live", sub |-> a, version |-> "1", prepared |-> FALSE]
Obj(i, t, of) == [id |-> i, type |-> t, of |-> of]
Sample(i, o, h) ==
    [id |-> i, type |-> "state", of |-> None, stream |-> CHOOSE x \in Streams : TRUE, observed |-> o, hash |-> h]
Published(i, of, h) == [id |-> i, type |-> "event", of |-> of, hash |-> h, created |-> 0]

Owner == CHOOSE a \in Subscriptions : TRUE

SomeRegistries ==
    {[twin |-> [Live(Owner) EXCEPT !.at = "none"], children |-> {}],
     [twin |-> [Live(Owner) EXCEPT !.version = "none"], children |-> {}],
     [twin |-> Live(Owner),
      children |-> {Obj(0, "foreign", None), Sample(1, 1, "digest"), Sample(2, 0, "digest"),
                    Published(3, 2, "other")}],
     [twin |-> Live(Owner), children |-> {Obj(0, "composition", None), Obj(1, "member", 0)}],
     [twin |-> Live(Owner), children |-> {Obj(0, "assessment", None), Obj(1, "indicator", 0)}],
     [twin |-> Live(Owner), children |-> {Sample(0, 1, "digest"), Sample(1, 0, "digest"), Published(2, 1, "")}],
     [twin |-> [Live(Owner) EXCEPT !.version = "2"],
      children |-> {Sample(0, 1, "digest"), Sample(1, 0, "digest"), Published(2, 0, "")}]}

(* Those whose deletion the owner may see to the end. *)
Deletable == {R \in SomeRegistries : R.twin.version # "2" /\ OfType(R.children, "state") = {}}

(* A Twin whose owner activated the policy. *)
Administered == {[twin |-> [Live(Owner) EXCEPT !.version = "2"], children |-> {}]}
=============================================================================
