---------------------------- MODULE MCThreadVerifier ----------------------------
(***************************************************************************)
(* ThreadVerifier with threads that may have holes, repeated revisions,    *)
(* wrong transitions and unsound events.                                   *)
(***************************************************************************)
EXTENDS ThreadVerifier, SequencesExt

CONSTANTS
    HealthyLength,     \* the length of the longest healthy thread
    Damage             \* the highest revision of a damaged thread

Regular(r, wanted) == [revisionBefore |-> r - 1, revisionAfter |-> r, sound |-> TRUE, wanted |-> wanted]

HealthyThreads ==
    UNION {{[i \in 1..n |-> Regular(i, wanted[i])] : wanted \in [1..n -> BOOLEAN]} : n \in 0..HealthyLength}

Sorted(events) == SetToSortSeq(events, LAMBDA a, b :
    \/ a.revisionAfter < b.revisionAfter
    \/ a.revisionAfter = b.revisionAfter /\ a.revisionBefore < b.revisionBefore
    \/ /\ a.revisionAfter = b.revisionAfter
       /\ a.revisionBefore = b.revisionBefore
       /\ a.sound /\ ~b.sound)

AnyEvents == [revisionBefore : 0..2, revisionAfter : 1..Damage, sound : BOOLEAN, wanted : {TRUE}]

DamagedThreads == {Sorted(events) : events \in UNION {kSubset(k, AnyEvents) : k \in 0..3}}

AllThreads == HealthyThreads \cup DamagedThreads

(* The whole thread, ranges that begin at its first revision or in its     *)
(* middle and end behind it, one that is no range, and a client that       *)
(* starts behind the first event.                                          *)
SomeQueries == [from : {NoBound}, to : {NoBound}, cursor : {0, 1}]
               \cup [from : {0, 1, 2, 5}, to : {4}, cursor : {0}]

===============================================================================
