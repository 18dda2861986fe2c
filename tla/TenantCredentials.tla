--------------------------- MODULE TenantCredentials ---------------------------
(***************************************************************************)
(* TenantRegistry: the dynamic tenant file, the Mosquitto password file    *)
(* and the Mosquitto ACL file.  Every operation reads the whole tenant     *)
(* file, writes the whole file back through one temporary name, updates    *)
(* the password file entry by entry and rewrites the ACL from the tenants  *)
(* it holds in memory.  Nothing locks the file.                            *)
(***************************************************************************)
EXTENDS Naturals

CONSTANTS
    Ops,               \* calls; a call that issues secrets names them after itself
    Tenants,           \* owner DIDs
    Devices,           \* the Twins or devices of each tenant
    Issued,            \* the account key of a tenant that is already registered
    None               \* no secret

ASSUME TenantAssumption ==
    /\ None \notin Ops \cup {Issued}
    /\ Issued \notin Ops
    /\ Devices \cap {"internal", "tenant", "base", "app", None} = {}
    /\ None \notin {"internal", "tenant"}
    /\ Ops \cap {"nothing", "contested", "revoked"} = {}

VARIABLES
    file,              \* the dynamic tenant file
    tmp,               \* the temporary file
    passwd,            \* the password file: a secret of each principal
    acl,               \* the ACL file: the principals with topics
    stage,             \* where each call is
    call,              \* what it does
    held,              \* the tenants it holds in memory
    todo,              \* passwords it still has to delete
    told,              \* history: what the last answer said of each credential
    shared,            \* history: the calls that overlapped another one
    overlapped,        \* history: some calls have overlapped
    clean              \* history: the latest call overlapped none and succeeded

tenantVars == <<file, tmp, passwd, acl, stage, call, held, todo, told, shared, overlapped, clean>>

(* The MQTT user names of a tenant's applications: the two routes that     *)
(* rotate them choose different names.                                     *)
Logins == {"internal", "tenant"}
Principals == Logins \cup Devices

(* saveDynamic, rotateExternalCredentials, revokeExternalCredentials with  *)
(* or without the devices, rotateTwinCredentials, revokeTwinCredentials.   *)
Calls ==
    [kind : {"save"}, t : Tenants]
        \cup [kind : {"rotateApp"}, t : Tenants, route : Logins]
        \cup [kind : {"revokeApp"}, t : Tenants, devices : BOOLEAN]
        \cup [kind : {"rotateDevice", "revokeDevice"}, t : Tenants, d : Devices]

Nothing == [kind |-> "nothing"]

(* A tenant definition holds the account's key, the external key, the MQTT *)
(* user name, credentialsRevokedAt and the device credentials; that of a   *)
(* tenant which is not in the file:                                        *)
Unknown == [base |-> None, key |-> None, login |-> None, off |-> FALSE,
            devs |-> [d \in Devices |-> "absent"]]

(* What an answer can speak of. *)
Scopes == {"base", "app"} \cup Devices

TenantInit ==
    /\ file \in [Tenants -> {Unknown, [Unknown EXCEPT !.base = Issued]}]
    /\ tmp = <<>>
    /\ passwd = [t \in Tenants |-> [p \in Principals |-> None]]
    /\ acl = {}
    /\ stage = [o \in Ops |-> "new"]
    /\ call = [o \in Ops |-> Nothing]
    /\ held = [o \in Ops |-> <<>>]
    /\ todo = [o \in Ops |-> {}]
    /\ told = [t \in Tenants |-> [s \in Scopes |-> "nothing"]]
    /\ shared = {}
    /\ overlapped = FALSE
    /\ clean = FALSE

Underway == {o \in Ops : stage[o] \notin {"new", "done", "failed"}}

(* A call ends, with its answer or with an error. *)
End(o, how) ==
    /\ stage' = [stage EXCEPT ![o] = how]
    /\ call' = [call EXCEPT ![o] = Nothing]
    /\ held' = [held EXCEPT ![o] = <<>>]
    /\ todo' = [todo EXCEPT ![o] = {}]

(* Faulty variants (names ending in Fault) change one definition the way a *)
(* plausible bug would; no specification uses them.                        *)
-------------------------------------------------------------------------------
(* The scopes of its tenant that a call changes. *)
ScopesOf(c) ==
    CASE c.kind = "save" -> {"base"}
      [] c.kind = "rotateApp" -> {"app"}
      [] c.kind = "revokeApp" -> {"app"} \cup (IF c.devices THEN Devices ELSE {})
      [] OTHER -> {c.d}

Begin(o, c) ==
    /\ stage[o] = "new"
    /\ stage' = [stage EXCEPT ![o] = "read"]
    /\ call' = [call EXCEPT ![o] = c]
    /\ told' = [told EXCEPT ![c.t] =
          [s \in Scopes |->
              IF s \notin ScopesOf(c) THEN @[s]
              ELSE IF \E q \in Underway : call[q].t = c.t /\ s \in ScopesOf(call[q])
              THEN "contested" ELSE "nothing"]]
    /\ shared' = IF Underway = {} THEN {} ELSE shared \cup Underway \cup {o}
    /\ overlapped' = (overlapped \/ Underway # {})
    /\ clean' = FALSE
    /\ UNCHANGED <<file, tmp, passwd, acl, held, todo>>

(* The tenant definition a call writes. *)
Changed(before, c, o) ==
    CASE c.kind = "save" -> [before EXCEPT !.base = o]
      [] c.kind = "rotateApp" ->
            [before EXCEPT !.key = o, !.off = FALSE,
                !.login = IF c.route = "tenant" /\ @ # None THEN @ ELSE c.route]
      [] c.kind = "revokeApp" ->
            [before EXCEPT !.key = None, !.off = TRUE,
                !.devs = [d \in Devices |->
                    IF c.devices /\ @[d] # "absent" THEN "revoked" ELSE @[d]]]
      [] c.kind = "rotateDevice" -> [before EXCEPT !.devs[c.d] = "active"]
      [] c.kind = "revokeDevice" ->
            [before EXCEPT !.devs[c.d] = IF @ = "absent" THEN @ ELSE "revoked"]

(* The passwords a call deletes, from what it read. *)
Deleted(before, c) ==
    CASE c.kind = "revokeApp" ->
            {p \in Principals :
                \/ p = before.login
                \/ c.devices /\ p \in Devices /\ before.devs[p] = "active"}
      [] c.kind = "revokeDevice" -> {d \in {c.d} : before.devs[d] # "absent"}
      [] OTHER -> {}

(* readDynamic, and the new state is computed.  Only saveDynamic creates a *)
(* tenant.                                                                 *)
Read(o) ==
    LET c == call[o] IN
    /\ stage[o] = "read"
    /\ IF file[c.t].base = None /\ c.kind # "save"
       THEN End(o, "failed")
       ELSE /\ held' = [held EXCEPT ![o] = [file EXCEPT ![c.t] = Changed(@, c, o)]]
            /\ todo' = [todo EXCEPT ![o] = Deleted(file[c.t], c)]
            /\ stage' = [stage EXCEPT ![o] = "write"]
            /\ UNCHANGED call
    /\ UNCHANGED <<file, tmp, passwd, acl, told, shared, overlapped, clean>>

(* writeDynamic: all calls of a process share the temporary name. *)
Write(o) ==
    /\ stage[o] = "write"
    /\ tmp' = held[o]
    /\ stage' = [stage EXCEPT ![o] = "rename"]
    /\ UNCHANGED <<file, passwd, acl, call, held, todo, told, shared, overlapped, clean>>

(* What a call's answer says of the scopes it changed, unless another call *)
(* on the same scope overlapped it.                                        *)
Answered(o) ==
    LET c == call[o] IN
    told' = [told EXCEPT ![c.t] =
        [s \in Scopes |-> IF s \notin ScopesOf(c) \/ @[s] = "contested" THEN @[s]
                          ELSE IF c.kind \in {"revokeApp", "revokeDevice"} THEN "revoked"
                          ELSE o]]

(* The rename takes whatever the temporary file holds, or finds none. *)
Rename(o) ==
    /\ stage[o] = "rename"
    /\ \/ /\ tmp # <<>>
          /\ file' = tmp
          /\ tmp' = <<>>
          /\ IF call[o].kind = "save"
             THEN End(o, "done") /\ Answered(o)
             ELSE /\ stage' = [stage EXCEPT ![o] = "passwords"]
                  /\ UNCHANGED <<call, held, todo, told>>
       \/ /\ tmp = <<>>
          /\ End(o, "failed")
          /\ UNCHANGED <<file, tmp, told>>
    /\ UNCHANGED <<passwd, acl, shared, overlapped, clean>>

(* mosquitto_passwd -b for a rotation. *)
Upsert(o) ==
    LET c == call[o]
        p == IF c.kind = "rotateApp" THEN held[o][c.t].login ELSE c.d
    IN
    /\ stage[o] = "passwords"
    /\ c.kind \in {"rotateApp", "rotateDevice"}
    /\ passwd' = [passwd EXCEPT ![c.t][p] = o]
    /\ stage' = [stage EXCEPT ![o] = "acl"]
    /\ UNCHANGED <<file, tmp, acl, call, held, todo, told, shared, overlapped, clean>>

(* mosquitto_passwd -D, one principal at a time; a missing one is fine. *)
Delete(o) ==
    /\ stage[o] = "passwords"
    /\ \E p \in todo[o] :
          /\ passwd' = [passwd EXCEPT ![call[o].t][p] = None]
          /\ todo' = [todo EXCEPT ![o] = @ \ {p}]
    /\ UNCHANGED <<file, tmp, acl, stage, call, held, told, shared, overlapped, clean>>

DeletedAll(o) ==
    /\ stage[o] = "passwords"
    /\ call[o].kind \in {"revokeApp", "revokeDevice"}
    /\ todo[o] = {}
    /\ stage' = [stage EXCEPT ![o] = "acl"]
    /\ UNCHANGED <<file, tmp, passwd, acl, call, held, todo, told, shared, overlapped, clean>>

EntriesFault(tenants) ==
    {e \in Tenants \X Principals :
        LET x == tenants[e[1]] p == e[2]
        IN  \/ p = x.login /\ x.key # None /\ ~x.off
            \/ p \in Devices /\ x.devs[p] # "absent"}

(* The principals rewriteMqttAcl gives topics to. *)
Entries(tenants) ==
    {e \in Tenants \X Principals :
        LET x == tenants[e[1]] p == e[2]
        IN  \/ p = x.login /\ x.key # None /\ ~x.off
            \/ p \in Devices /\ x.devs[p] = "active"}

RewriteAclFault(o) ==
    /\ stage[o] = "acl"
    /\ acl' = acl \cup Entries(held[o])
    /\ End(o, "done")
    /\ Answered(o)
    /\ clean' = (o \notin shared)
    /\ UNCHANGED <<file, tmp, passwd, shared, overlapped>>

(* The ACL follows the tenants the call holds, not the file; then it answers. *)
RewriteAcl(o) ==
    /\ stage[o] = "acl"
    /\ acl' = Entries(held[o])
    /\ End(o, "done")
    /\ Answered(o)
    /\ clean' = (o \notin shared)
    /\ UNCHANGED <<file, tmp, passwd, shared, overlapped>>

(* A step throws, or the process dies: what is done stays done. *)
Fail(o) ==
    /\ o \in Underway
    /\ End(o, "failed")
    /\ UNCHANGED <<file, tmp, passwd, acl, told, shared, overlapped, clean>>

TenantNext ==
    \E o \in Ops :
        \/ \E c \in Calls : Begin(o, c)
        \/ Read(o) \/ Write(o) \/ Rename(o)
        \/ Upsert(o) \/ Delete(o) \/ DeletedAll(o)
        \/ RewriteAcl(o) \/ Fail(o)

TenantSpec == TenantInit /\ [][TenantNext]_tenantVars

-------------------------------------------------------------------------------
(* The broker lets the principal in with this secret and onto its topics. *)
Admits(t, p, secret) == secret # None /\ passwd[t][p] = secret /\ <<t, p>> \in acl

(* "Rotation invalidates the previous credential at the selected scope":   *)
(* what the last answer said of an API key is what authenticateApiKey sees *)
(* until the next call on that scope, whatever else ran or failed since.   *)
KeysAsAnswered ==
    \A t \in Tenants :
        /\ told[t]["base"] \in Ops => file[t].base = told[t]["base"]
        /\ told[t]["app"] \in Ops => file[t].key = told[t]["app"]
        /\ told[t]["app"] = "revoked" => file[t].key = None

(* The same of the broker: a rotated credential is the only one that gets  *)
(* in, a revoked one does not.                                             *)
BrokerAsAnswered ==
    \A t \in Tenants :
        /\ told[t]["app"] \in Ops =>
              \A p \in Logins, o \in Ops :
                  Admits(t, p, o) <=> o = told[t]["app"] /\ p = file[t].login
        /\ told[t]["app"] = "revoked" => \A p \in Logins, o \in Ops : ~Admits(t, p, o)
        /\ \A d \in Devices :
              /\ told[t][d] \in Ops => \A o \in Ops : Admits(t, d, o) <=> o = told[t][d]
              /\ told[t][d] = "revoked" => \A o \in Ops : ~Admits(t, d, o)

(* An administration that makes one call after the other, each of which    *)
(* may fail half way, gets what it was told of API keys and of the broker. *)
(* Calls that overlap do not: the later write of the tenant file restores  *)
(* what the other call had replaced or revoked.                            *)
SerialAsAnswered == ~overlapped => KeysAsAnswered /\ BrokerAsAnswered

(* Whatever overlapped or failed before, a call that runs by itself and    *)
(* succeeds leaves an ACL that agrees with the tenant file.                *)
AclHeals == clean => acl = Entries(file)

===============================================================================
