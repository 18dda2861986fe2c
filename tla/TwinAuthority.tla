----------------------------- MODULE TwinAuthority -----------------------------
(***************************************************************************)
(* How the server decides that a caller has some authority over a Twin     *)
(* that the chain records, and for how long it goes by what it once read:  *)
(* the role policy of mutations and commands, the subscription check of    *)
(* connector messages, the public flags of anonymous reads and streams,    *)
(* and the DID login of device owners.  The four share no state, so a      *)
(* behaviour exercises one of them, guard, on one Twin and one caller.     *)
(***************************************************************************)
EXTENDS Integers, FiniteSets

CONSTANTS
    Guards,            \* the decision makers to exercise
    Requests,          \* requests that run at a time
    Grants,            \* what the chain may record for the caller
    Action,            \* what a request guarded by the role policy wants to do
    Ttl,               \* how long each guard goes by what it read
    ChallengeTtl,      \* how long a login challenge can be answered
    Capacity,          \* challenges, and sessions, kept at a time (1000 in the code)
    MaxTime,           \* bound: the clock
    MaxChanges,        \* bound: changes on the chain
    MaxChallenges,     \* bound: login challenges issued
    Nil

ASSUME AuthorityAssumption ==
    /\ Guards \subseteq {"role", "connector", "public", "session", "idle"}
    /\ Ttl \in [Guards \ {"idle"} -> Nat \ {0}] /\ ChallengeTtl \in Nat \ {0}
    /\ {MaxTime, MaxChanges, MaxChallenges} \subseteq Nat /\ Capacity \in Nat \ {0}
    /\ Grants # {} /\ Nil \notin Grants /\ Nil \notin Requests

VARIABLES
    guard,             \* the decision maker of this behaviour
    now,               \* the clock
    grant,             \* what the chain records for the caller, or Nil
    owner,             \* the caller owns the Twin
    canonical,         \* the Twin has an access policy on the chain
    changes,           \* counter: changes on the chain
    cache,             \* the guard's cache entry of the Twin, or Nil
    inflight,          \* the verification that other messages join, or Nil
    req,               \* the requests
    challenges,        \* login challenges: id and expiry
    sessions,          \* login sessions
    issued,            \* counter: challenges issued
    decision,          \* history: the permission the last step gave a request, or Nil
    present,           \* history: when each grant was last on the chain
    owned,             \* history: when the caller last owned the Twin
    opened             \* history: sessions each challenge has opened

login == <<challenges, sessions, issued, opened>>
chainVars == <<now, grant, owner, canonical, changes, present, owned>>
authVars == <<guard, chainVars, cache, inflight, req, login, decision>>

Permissions ==
    LET all == {"publish_state", "add_dataset", "add_model", "add_interface", "emit_maintenance_event",
                "emit_business_event", "maturity_assessment", "modify_composition",
                "modify_identifier_mapping", "modify_metadata", "delete_twin", "execute_command"}
    IN  [OWNER |-> all, STEWARD |-> all,
         OPERATOR |-> {"publish_state", "emit_business_event", "execute_command"},
         MAINTAINER |-> {"publish_state", "add_dataset", "emit_maintenance_event", "execute_command"},
         DATA_PROVIDER |-> {"publish_state", "add_dataset"},
         MODEL_PROVIDER |-> {"add_model"},
         SERVICE_PROVIDER |-> {"add_interface"},
         CERTIFIER |-> {"maturity_assessment", "emit_business_event"},
         AUDITOR |-> {}]

(* A grant of a role counts inside its period, 0 standing for no limit.    *)
(* For the other guards there is one grant, and it counts while it lasts.  *)
Holds(g, t) ==
    /\ g # Nil
    /\ guard = "role" =>
        /\ g.from = 0 \/ g.from <= t
        /\ g.to = 0 \/ g.to >= t
        /\ Action \in Permissions[g.role]

Recordable == IF guard = "role" THEN Grants ELSE {CHOOSE g \in Grants : TRUE}

Never == 0 - MaxTime - 1000
Idle == [at |-> "idle", began |-> 0, since |-> 0, owner |-> FALSE, read |-> Nil, rev |-> 0, challenge |-> Nil]

AuthInit ==
    /\ guard \in Guards
    /\ grant \in IF guard = "idle" THEN {Nil} ELSE Recordable \cup {Nil}
    /\ owner = FALSE
    /\ canonical \in IF guard \in {"role", "public"} THEN BOOLEAN ELSE {FALSE}
    /\ now = 1 /\ changes = 0 /\ cache = Nil /\ inflight = Nil
    /\ req = [r \in Requests |-> Idle]
    /\ challenges = {} /\ sessions = {} /\ issued = 0
    /\ decision = Nil
    /\ present = [g \in Grants |-> IF g = grant THEN now ELSE Never]
    /\ owned = Never
    /\ opened = [c \in 1..MaxChallenges |-> 0]

-----------------------------------------------------------------------------
(* The clock and the chain. *)

Tick ==
    /\ guard # "idle" /\ now < MaxTime
    /\ now' = now + 1
    /\ present' = [g \in Grants |-> IF g = grant THEN now' ELSE present[g]]
    /\ owned' = IF owner THEN now' ELSE owned
    /\ decision' = Nil
    /\ UNCHANGED <<guard, grant, owner, canonical, changes, cache, inflight, req, login>>

Change ==
    /\ guard # "idle" /\ changes < MaxChanges
    /\ changes' = changes + 1
    /\ \/ /\ grant' \in (Recordable \cup {Nil}) \ {grant} /\ UNCHANGED owner
       \/ /\ guard = "role" /\ owner' = ~owner /\ UNCHANGED grant
    /\ present' = [g \in Grants |-> IF g = grant' THEN now ELSE present[g]]
    /\ owned' = IF owner' THEN now ELSE owned
    /\ decision' = Nil
    /\ UNCHANGED <<guard, now, canonical, cache, inflight, req, login>>

-----------------------------------------------------------------------------
(* How requests go on. *)

At(r, step) == req[r].at = step

(* A permission: by a grant, or by ownership when it names none. *)
Granted(value, at, since, done) == [value |-> value, at |-> at, since |-> since, done |-> done]

(* Request r ends: with a permission if g holds at time t, else refused. *)
Decide(r, g, t, since, done) ==
    /\ req' = [req EXCEPT ![r] = Idle]
    /\ decision' = IF Holds(g, t) THEN Granted(g, t, since, done) ELSE Nil

(* A read of the chain: what it finds is used later. *)
Capture(r, kind) ==
    /\ guard = kind /\ At(r, "read")
    /\ req' = [req EXCEPT ![r].at = "resume", ![r].read = grant]
    /\ decision' = Nil
    /\ UNCHANGED <<guard, chainVars, cache, inflight, login>>

(* A read fails, or another check of the route refuses the request. *)
Refuse(r) ==
    /\ req[r].at \notin {"idle", "wait"}
    /\ LET joined == IF inflight = r THEN {w \in Requests : At(w, "wait")} ELSE {} IN
       req' = [w \in Requests |-> IF w \in joined \cup {r} THEN Idle ELSE req[w]]
    /\ inflight' = IF inflight = r THEN Nil ELSE inflight
    /\ decision' = Nil
    /\ UNCHANGED <<guard, chainVars, cache, login>>

-----------------------------------------------------------------------------
(* The role policy. *)

AskRole(r) ==
    /\ guard = "role" /\ At(r, "idle")
    /\ req' = [req EXCEPT ![r] = [Idle EXCEPT !.at = IF canonical THEN "policy" ELSE "twin", !.began = now]]
    /\ decision' = Nil
    /\ UNCHANGED <<guard, chainVars, cache, inflight, login>>

(* The owner and the admins that the policy on the chain names need no role. *)
PolicyRights(r) ==
    /\ guard = "role" /\ At(r, "policy")
    /\ IF owner
       THEN /\ req' = [req EXCEPT ![r] = Idle]
            /\ decision' = Granted(Nil, now, req[r].began, now)
       ELSE /\ req' = [req EXCEPT ![r].at = "twin"]
            /\ decision' = Nil
    /\ UNCHANGED <<guard, chainVars, cache, inflight, login>>

ReadTwin(r) ==
    /\ guard = "role" /\ At(r, "twin")
    /\ req' = [req EXCEPT ![r].at = "lookup", ![r].owner = owner]
    /\ decision' = Nil
    /\ UNCHANGED <<guard, chainVars, cache, inflight, login>>

(* PolicyEngine.assertAllowed, with the Twin's owner as ReadTwin found it. *)
AssertAllowed(r, g, t, since) ==
    IF req[r].owner
    THEN /\ req' = [req EXCEPT ![r] = Idle]
         /\ decision' = Granted(Nil, t, req[r].began, t)
    ELSE Decide(r, g, t, since, since)

LookupRole(r) ==
    /\ guard = "role" /\ At(r, "lookup")
    /\ IF cache # Nil /\ cache.expires > now
       THEN AssertAllowed(r, cache.value, now, cache.since)
       ELSE /\ req' = [req EXCEPT ![r].at = "read", ![r].since = now]
            /\ decision' = Nil
    /\ UNCHANGED <<guard, chainVars, cache, inflight, login>>

ReadGrants(r) == Capture(r, "role")

(* Faulty: the grants expire a period after they arrived. *)
StoreGrantsFault(r) ==
    /\ guard = "role" /\ At(r, "resume")
    /\ cache' = [value |-> req[r].read, expires |-> now + Ttl["role"], since |-> req[r].since, done |-> now]
    /\ AssertAllowed(r, req[r].read, req[r].since, req[r].since)
    /\ UNCHANGED <<guard, chainVars, inflight, login>>

(* The period of the entry, and the time a grant is judged at, count from  *)
(* before the grants were asked for.                                       *)
StoreGrants(r) ==
    /\ guard = "role" /\ At(r, "resume")
    /\ LET t == req[r].since IN
       /\ cache' = [value |-> req[r].read, expires |-> t + Ttl["role"], since |-> t, done |-> t]
       /\ AssertAllowed(r, req[r].read, t, t)
    /\ UNCHANGED <<guard, chainVars, inflight, login>>

-----------------------------------------------------------------------------
(* Messages of connectors: the Twin must be of the tenant's subscription.  *)

AskConnector(r) ==
    /\ guard = "connector" /\ At(r, "idle")
    /\ IF cache # Nil /\ cache.expires > now
       THEN Decide(r, cache.value, now, cache.since, cache.done) /\ UNCHANGED inflight
       ELSE /\ req' = [req EXCEPT ![r] = IF inflight = Nil THEN [Idle EXCEPT !.at = "read", !.since = now]
                                           ELSE [Idle EXCEPT !.at = "wait"]]
            /\ inflight' = IF inflight = Nil THEN r ELSE inflight
            /\ decision' = Nil
    /\ UNCHANGED <<guard, chainVars, cache, login>>

ReadSubscription(r) == Capture(r, "connector")

(* The verification ends for every message that waits for it; only a good  *)
(* one is remembered.                                                      *)
VerifiedSubscription(r) ==
    /\ guard = "connector" /\ At(r, "resume")
    /\ LET good == req[r].read # Nil
           all == {r} \cup {w \in Requests : At(w, "wait")}
           since == req[r].since IN
       /\ cache' = IF good THEN [value |-> req[r].read, expires |-> now + Ttl["connector"], since |-> since, done |-> now]
                   ELSE cache
       /\ req' = [w \in Requests |-> IF w \in all THEN Idle ELSE req[w]]
       /\ decision' = IF good THEN Granted(req[r].read, now, since, now) ELSE Nil
    /\ inflight' = Nil
    /\ UNCHANGED <<guard, chainVars, login>>

-----------------------------------------------------------------------------
(* Anonymous reads and streams. *)

(* A Twin with a policy on the chain is asked for each time; the flags of  *)
(* one without are kept for a while, whatever they are.                    *)
LookupPublic(r) ==
    IF ~canonical /\ cache # Nil /\ now - cache.done < Ttl["public"]
    THEN Decide(r, cache.value, now, cache.since, cache.done)
    ELSE /\ req' = [req EXCEPT ![r] = [Idle EXCEPT !.at = "read", !.since = now]]
         /\ decision' = Nil

(* A read of the status, the data or the position, or one event or         *)
(* heartbeat of an open stream.                                            *)
AskPublic(r) ==
    /\ guard = "public" /\ At(r, "idle")
    /\ LookupPublic(r)
    /\ UNCHANGED <<guard, chainVars, cache, inflight, login>>

ReadPublicAccess(r) == Capture(r, "public")

StorePublicAccess(r) ==
    /\ guard = "public" /\ At(r, "resume")
    /\ cache' = IF canonical THEN cache ELSE [value |-> req[r].read, since |-> req[r].since, done |-> now]
    /\ \/ Decide(r, req[r].read, now, req[r].since, now)
       \/ canonical /\ req[r].read # Nil /\ req' = [req EXCEPT ![r].at = "filter"] /\ decision' = Nil
    /\ UNCHANGED <<guard, chainVars, inflight, login>>

(* The data of a Twin with a policy on the chain are filtered by that      *)
(* policy, read once more, and leave only if a last read finds the same    *)
(* revision.                                                               *)
FilterPublic(r) ==
    /\ guard = "public" /\ At(r, "filter")
    /\ req' = [req EXCEPT ![r] = IF grant = Nil THEN Idle ELSE [@ EXCEPT !.at = "recheck", !.read = grant, !.rev = changes]]
    /\ decision' = Nil
    /\ UNCHANGED <<guard, chainVars, cache, inflight, login>>

RecheckPublic(r) ==
    /\ guard = "public" /\ At(r, "recheck")
    /\ Decide(r, IF req[r].rev = changes THEN req[r].read ELSE Nil, now, now, now)
    /\ UNCHANGED <<guard, chainVars, cache, inflight, login>>

-----------------------------------------------------------------------------
(* The DID login. *)

Live(S) == {s \in S : s.expires > now}

Challenge ==
    /\ guard = "session" /\ issued < MaxChallenges
    /\ Cardinality(Live(challenges)) < Capacity
    /\ issued' = issued + 1
    /\ challenges' = Live(challenges) \cup {[id |-> issued', expires |-> now + ChallengeTtl]}
    /\ sessions' = Live(sessions)
    /\ decision' = Nil
    /\ UNCHANGED <<guard, chainVars, cache, inflight, req, opened>>

(* Faulty: the challenge is checked and stays. *)
VerifyFault(r, c) ==
    /\ guard = "session" /\ At(r, "idle") /\ c \in challenges
    /\ req' = IF c.expires > now THEN [req EXCEPT ![r] = [Idle EXCEPT !.at = "read", !.since = now, !.challenge = c.id]] ELSE req
    /\ decision' = Nil
    /\ UNCHANGED <<guard, chainVars, cache, inflight, login>>

(* A challenge is spent by the first attempt to answer it. *)
Verify(r, c) ==
    /\ guard = "session" /\ At(r, "idle") /\ c \in challenges
    /\ challenges' = challenges \ {c}
    /\ req' = IF c.expires > now THEN [req EXCEPT ![r] = [Idle EXCEPT !.at = "read", !.since = now, !.challenge = c.id]] ELSE req
    /\ decision' = Nil
    /\ UNCHANGED <<guard, chainVars, cache, inflight, sessions, issued, opened>>

ReadController(r) == Capture(r, "session")

OpenSession(r) ==
    /\ guard = "session" /\ At(r, "resume")
    /\ req' = [req EXCEPT ![r] = Idle]
    /\ LET c == req[r].challenge IN
       IF req[r].read = Nil
       THEN UNCHANGED login
       ELSE /\ challenges' = Live(challenges)
            /\ IF Cardinality(Live(sessions)) < Capacity
               THEN /\ sessions' = Live(sessions) \cup
                           {[id |-> c, value |-> req[r].read, expires |-> now + Ttl["session"], since |-> req[r].since, done |-> now]}
                    /\ opened' = [opened EXCEPT ![c] = @ + 1]
               ELSE sessions' = Live(sessions) /\ UNCHANGED opened
            /\ UNCHANGED issued
    /\ decision' = Nil
    /\ UNCHANGED <<guard, chainVars, cache, inflight>>

(* context(): a request with the cookie of session s. *)
UseSession(r, s) ==
    /\ guard = "session" /\ At(r, "idle")
    /\ challenges' = Live(challenges) /\ sessions' = Live(sessions)
    /\ IF s \in sessions'
       THEN Decide(r, s.value, now, s.since, s.done)
       ELSE decision' = Nil /\ UNCHANGED req
    /\ UNCHANGED <<guard, chainVars, cache, inflight, issued, opened>>

Logout(s) ==
    /\ guard = "session"
    /\ sessions' = sessions \ {s}
    /\ decision' = Nil
    /\ UNCHANGED <<guard, chainVars, cache, inflight, req, challenges, issued, opened>>

-----------------------------------------------------------------------------
AuthNext ==
    \/ Tick \/ Change
    \/ \E r \in Requests :
        \/ Refuse(r)
        \/ AskRole(r) \/ PolicyRights(r) \/ ReadTwin(r) \/ LookupRole(r) \/ ReadGrants(r) \/ StoreGrants(r)
        \/ AskConnector(r) \/ ReadSubscription(r) \/ VerifiedSubscription(r)
        \/ AskPublic(r) \/ ReadPublicAccess(r) \/ StorePublicAccess(r)
        \/ FilterPublic(r) \/ RecheckPublic(r)
        \/ ReadController(r) \/ OpenSession(r)
        \/ \E c \in challenges : Verify(r, c)
        \/ \E s \in sessions : UseSession(r, s)
    \/ Challenge \/ \E s \in sessions : Logout(s)

AuthSpec == AuthInit /\ [][AuthNext]_authVars

-----------------------------------------------------------------------------
(* A request is let through only by an authority that counts at the time   *)
(* it is judged at, and that the chain still recorded less than the        *)
(* guard's period earlier: counted from the moment of the decision for the *)
(* role policy; for the others, which date an entry when its read ends,    *)
(* that read's duration comes on top.  Reads that overtake each other, or  *)
(* whose answer is shared, do not prolong it.  The owner's own authority   *)
(* is never older than the request.                                        *)
ActsOnRecentAuthority ==
    decision # Nil =>
        LET d == decision IN
        IF d.value = Nil THEN owned >= d.since
        ELSE /\ Holds(d.value, d.at)
             /\ present[d.value] + Ttl[guard] + (d.done - d.since) > d.at

(* A login challenge opens at most one session, however many answers to it *)
(* arrive while the chain is being asked, and neither table outgrows its   *)
(* capacity.                                                               *)
LoginIsSingleUse ==
    /\ \A c \in 1..MaxChallenges : opened[c] <= 1
    /\ Cardinality(sessions) <= Capacity /\ Cardinality(challenges) <= Capacity
=============================================================================
