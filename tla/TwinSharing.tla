------------------------------ MODULE TwinSharing ------------------------------
(***************************************************************************)
(* TwinSharing and SharedDatasets: who may read the data of one Twin.      *)
(* A Twin of version 1 is governed by a policy file of this server and by  *)
(* the Twin's metadata, one of version 2 by a policy on the chain that     *)
(* only its owner can sign.  Every read asks for the policy anew, in       *)
(* several asynchronous steps, while the owner changes it.                 *)
(***************************************************************************)
EXTENDS Naturals, Sequences, FiniteSets, TLC

CONSTANTS
    Updates,           \* calls of PUT /twins/:id/data-access
    Requests,          \* requests of one reader's DID
    Kinds,             \* the routes they use
    Owners,            \* DIDs that own the Twin at some time
    Wants,             \* what an update asks for, as far as the reader is concerned
    Grants,            \* what the owner grants the reader on the chain
    MaxChain,          \* bound: transactions of others on the Twin
    MaxJobs,           \* exports kept at a time
    None

ASSUME SharingAssumption ==
    /\ Wants \subseteq {"private", "public", "others", "realtime", "storage"}
    /\ Grants \subseteq {"none", "live", "admin", "broken"}
    /\ Kinds \subseteq {"dashboard", "location", "latest", "stream", "history", "export", "download", "cancel",
                        "manage", "challenge", "verify"}
    /\ MaxChain \in Nat /\ MaxJobs \in Nat
    /\ None \notin Updates \cup Requests
    /\ \A n \in 0..MaxChain : <<"chain", n>> \notin Updates \cup {None}
    /\ None \notin [p : Wants \cup {"private"}, owner : Owners, rev : Updates, pending : BOOLEAN]

VARIABLES
    chain,             \* the Twin object and its access policy
    file,              \* the policy file, or None
    upd,               \* the updates
    queue,             \* updates that wait for each other, oldest first
    late,              \* a timed out metadata transaction that may still happen, or None
    req,               \* the requests of the reader
    job,               \* the table of exports, by the request that created them
    login,             \* what this server holds for the reader: a challenge, an open session
    settled,           \* history: the policy the owner asked for and has in force
    seen               \* history: policies in force since the request's check began

vars == <<chain, file, upd, queue, late, req, job, login, settled, seen>>

Symmetry == Permutations(Updates) \cup Permutations(Owners)

(* The checks of each route; the first is that of the router, which asks   *)
(* for a session.                                                          *)
Checks ==
    [dashboard |-> <<"discover">>,
     location |-> <<"discover", "location">>,
     latest |-> <<"discover", "realtime", "realtime">>,
     stream |-> <<"discover", "realtime", "realtime">>,
     history |-> <<"discover", "storage", "storage">>,
     export |-> <<"discover", "export", "export", "export">>,
     download |-> <<"discover", "export">>,
     cancel |-> <<"discover", "export">>,
     manage |-> <<"admin">>,
     challenge |-> <<"discover">>,
     verify |-> <<"discover">>]

Mode(w) == IF w \in {"private", "public"} THEN w ELSE "restricted"

(* What a restricted policy of the server gives the reader, who is neither *)
(* owner nor steward: others only, live data, or also the archive.         *)
LegacyRights(p) ==
    [scopes |-> CASE p = "realtime" -> {"discover", "realtime"}
                  [] p = "storage" -> {"discover", "realtime", "storage", "export"}
                  [] OTHER -> {},
     keys |-> {"m1", "m2"}]

(* The entry of the reader in a policy on the chain. *)
Reader(g) ==
    [scopes |-> CASE g = "live" -> {"realtime"}
                  [] g = "admin" -> {"realtime", "storage", "export", "location", "evidence", "admin"}
                  [] g = "broken" -> {"export"}
                  [] OTHER -> {},
     keys |-> CASE g = "live" -> {"m1"} [] g = "admin" -> {"m1", "m2"} [] OTHER -> {}]

NormalizeReader(r) ==
    /\ "export" \in r.scopes => "storage" \in r.scopes
    /\ r.scopes \cap {"realtime", "storage"} # {} => r.keys # {}

ChainRights(g) ==
    LET r == Reader(g) IN
    [scopes |-> IF g = "none" THEN {} ELSE r.scopes \cup {"discover"}, keys |-> r.keys]

Rights(p) == IF p \in Wants THEN LegacyRights(p) ELSE ChainRights(p)

(* What the reader is sent of a sample: only measurements of the grant and *)
(* a position where that scope is granted; a legacy grant of the archive   *)
(* returns it as it was stored.  A manager is let through to the API.      *)
FilterPayload(p, scope) ==
    IF scope \notin Rights(p).scopes \/ scope = "discover" THEN {} ELSE
    CASE scope = "location" -> {"position"}
      [] scope = "admin" -> {"api"}
      [] p = "storage" /\ scope \notin {"location", "admin", "realtime"} -> {"m1", "m2", "position"}
      [] OTHER -> Rights(p).keys \cup (IF "location" \in Rights(p).scopes THEN {"position"} ELSE {})

Denied == [rev |-> None, p |-> "none"]
Idle == [kind |-> None, pc |-> "idle", n |-> 0, f |-> None, ans |-> Denied,
         rev |-> None, out |-> {}, of |-> None]

Init ==
    /\ chain \in [ver : {1, 2}, vis : {"private", "restricted"}, owner : Owners, pol : Grants,
                  polOwner : Owners, rev : {0}]
    /\ chain.owner = chain.polOwner
    /\ IF chain.ver = 1 THEN chain.pol = "none" ELSE chain.vis = "private"
    /\ file = None
    /\ upd = [u \in Updates |-> [pc |-> "new", by |-> None, want |-> None, base |-> None]]
    /\ queue = <<>>
    /\ late = None
    /\ req = [r \in Requests |-> Idle]
    /\ job = [r \in Requests |-> None]
    /\ login \in {{}, {"session"}}
    /\ settled = [p |-> "none", owner |-> None]
    /\ seen = [r \in Requests |-> {}]

FileRev == IF file = None THEN None ELSE file.rev
Active == {u \in Updates : upd[u].pc \notin {"new", "done", "failed"}}
-------------------------------------------------------------------------------
(* The policies the reader can rightly be treated by at this moment: the   *)
(* one of the chain or the one settled with the server, and the ones the   *)
(* owner is just asking for.                                               *)
Entitled ==
    {upd[u].want : u \in Active}
    \cup (IF chain.ver = 1
          THEN IF settled.owner = chain.owner /\ chain.vis = "restricted" THEN {settled.p} ELSE {}
          ELSE IF chain.ver = 2 /\ chain.polOwner = chain.owner THEN {chain.pol} ELSE {})

Checking(q) == q.pc \in {"twin", "policy", "decide"}

(* The instants of a check, up to the answer, as a conjunct of every step. *)
Watch ==
    seen' = [r \in Requests |->
                IF Checking(req[r]) /\ req'[r].pc \in {req[r].pc, "policy", "decide", "sent"}
                THEN seen[r] \cup Entitled'
                ELSE IF Checking(req'[r]) THEN Entitled'
                ELSE IF req'[r].pc = "sent" THEN seen[r] ELSE {}]

(* policyChanged: streams of the Twin are closed, exports forgotten. *)
Revoke ==
    /\ req' = [r \in Requests |-> IF req[r].kind = "stream" /\ req[r].n > 1
                                  THEN [req[r] EXCEPT !.pc = "closed"] ELSE req[r]]
    /\ job' = [r \in Requests |-> None]

(* Faulty variants (names ending in Fault) change one definition the way a *)
(* plausible bug would; no specification uses them.                        *)
-------------------------------------------------------------------------------
(* The owner opens the dialog, which shows the revision of the file, and   *)
(* confirms it.                                                            *)
Submit(u, by, w) ==
    /\ upd[u].pc = "new"
    /\ upd' = [upd EXCEPT ![u] = [pc |-> "queued", by |-> by, want |-> w, base |-> FileRev]]
    /\ queue' = Append(queue, u)
    /\ UNCHANGED <<chain, file, late, req, job, login, settled>>

TurnFault(u) == upd[u].pc = "queued"
Turn(u) == upd[u].pc = "queued" /\ queue[1] = u

End(u, how) ==
    /\ upd' = [upd EXCEPT ![u] = [pc |-> how, by |-> None, want |-> None,
                                  base |-> IF how = "done" THEN @.base ELSE None]]
    /\ queue' = Tail(queue)

(* manage: only the owner, and only a Twin without a policy on the chain. *)
Manage(u) ==
    /\ Turn(u)
    /\ IF chain.owner = upd[u].by /\ chain.ver = 1
       THEN upd' = [upd EXCEPT ![u].pc = "managed"] /\ UNCHANGED queue
       ELSE End(u, "failed")
    /\ UNCHANGED <<chain, file, late, req, job, login, settled>>

(* The revision must still be the one the dialog showed. *)
CompareRevision(u) ==
    /\ upd[u].pc = "managed"
    /\ IF upd[u].base = FileRev
       THEN upd' = [upd EXCEPT ![u].pc = "compared"] /\ UNCHANGED queue
       ELSE End(u, "failed")
    /\ UNCHANGED <<chain, file, late, req, job, login, settled>>

(* commit, first half: the file is replaced ... *)
Rename(u, from, to, policy, s) ==
    /\ upd[u].pc = from
    /\ file' = policy
    /\ settled' = s
    /\ upd' = [upd EXCEPT ![u].pc = to]
    /\ UNCHANGED <<chain, queue, late, req, job, login>>

ClosePolicy(u) ==
    Rename(u, "compared", "closing", [p |-> "private", owner |-> upd[u].by, rev |-> u, pending |-> TRUE],
           [p |-> "none", owner |-> None])

(* ... second half: the listeners hear of it. *)
AnnounceFault(u) ==
    /\ upd[u].pc \in {"closing", "opening"}
    /\ IF upd[u].pc = "closing"
       THEN upd' = [upd EXCEPT ![u].pc = "closed"] /\ UNCHANGED <<queue, req, job>>
       ELSE End(u, "done") /\ Revoke
    /\ UNCHANGED <<chain, file, late, login, settled>>

Announce(u) ==
    /\ upd[u].pc \in {"closing", "opening"}
    /\ Revoke
    /\ IF upd[u].pc = "closing"
       THEN upd' = [upd EXCEPT ![u].pc = "closed"] /\ UNCHANGED queue
       ELSE End(u, "done")
    /\ UNCHANGED <<chain, file, late, login, settled>>

(* updateTwin writes the mode into the Twin's metadata; it may fail with   *)
(* or without an effect, or with one that comes later.                     *)
Confirmed(u) ==
    /\ upd[u].pc = "closed"
    /\ chain' = [chain EXCEPT !.vis = Mode(upd[u].want)]
    /\ upd' = [upd EXCEPT ![u].pc = "confirmed"]
    /\ UNCHANGED <<file, queue, late, req, job, login, settled>>

Unconfirmed(u) ==
    /\ upd[u].pc = "closed"
    /\ \/ chain' = [chain EXCEPT !.vis = Mode(upd[u].want)] /\ UNCHANGED late
       \/ UNCHANGED chain /\ late' \in {late, Mode(upd[u].want)}
    /\ End(u, "failed")
    /\ UNCHANGED <<file, req, job, login, settled>>

Land ==
    /\ late # None
    /\ chain' = [chain EXCEPT !.vis = late]
    /\ late' = None
    /\ UNCHANGED <<file, upd, queue, req, job, login, settled>>

OpenPolicy(u) ==
    Rename(u, "confirmed", "opening", [p |-> upd[u].want, owner |-> upd[u].by, rev |-> u, pending |-> FALSE],
           [p |-> upd[u].want, owner |-> upd[u].by])
-------------------------------------------------------------------------------
(* The chain, by transactions this server does not submit: the owner       *)
(* grants or revokes, migrates the Twin, edits its metadata, hands it over *)
(* or prepares its deletion.                                               *)
OthersTransact ==
    /\ chain.rev < MaxChain
    /\ \E c \in {[chain EXCEPT !.rev = @ + 1]} :
          \/ \E g \in Grants : chain' = [c EXCEPT !.ver = 2, !.pol = g, !.polOwner = chain.owner]
          \/ chain.ver = 1 /\ chain' = [c EXCEPT !.vis = "private"]
          \/ \E o \in Owners \ {chain.owner} : chain' = [c EXCEPT !.owner = o]
          \/ chain.ver = 2 /\ chain' = [c EXCEPT !.ver = 0]
    /\ UNCHANGED <<file, upd, queue, late, req, job, login, settled>>
-------------------------------------------------------------------------------
(* A request: its route and, for a download or a cancellation, the export. *)
Begin(r, k, j) ==
    /\ req[r].pc \in {"idle", "done"}
    /\ k = "verify" => "challenge" \in login
    /\ login' = IF k = "verify" THEN login \ {"challenge"} ELSE login
    /\ req' = [req EXCEPT ![r] = [Idle EXCEPT !.kind = k, !.n = 1, !.of = j,
                 !.pc = IF k = "verify" THEN "controller"
                        ELSE IF k = "challenge" \/ "session" \in login THEN "twin" ELSE "denied"]]
    /\ UNCHANGED <<chain, file, upd, queue, late, job, settled>>

(* The signer's address holds a controller capability of the DID: one of   *)
(* the older package, or one of IOTA Identity that its identity still      *)
(* lists.                                                                  *)
OwnsIdentityController(caps, identity) ==
    "legacy" \in caps \/ ("native" \in caps /\ identity = "listed")

(* verify asks for it before it asks for the policy. *)
VerifyController(r) ==
    /\ req[r].pc = "controller"
    /\ \E caps \in SUBSET {"legacy", "native"}, identity \in {"listed", "unlisted", "deleted"} :
          req' = [req EXCEPT ![r].pc = IF OwnsIdentityController(caps, identity) THEN "twin" ELSE "denied"]
    /\ UNCHANGED <<chain, file, upd, queue, late, job, login, settled>>

(* authorize: the Twin object is read first, *)
ReadTwin(r) ==
    /\ req[r].pc = "twin"
    /\ req' = [req EXCEPT ![r].pc = "policy",
                          ![r].f = [ver |-> chain.ver, vis |-> chain.vis, owner |-> chain.owner]]
    /\ UNCHANGED <<chain, file, upd, queue, late, job, login, settled>>

(* then the policy on the chain for version 2, else the file, *)
LoadChainPolicy(f) ==
    IF f.ver = 2 /\ chain.polOwner = f.owner /\ NormalizeReader(Reader(chain.pol))
    THEN [rev |-> <<"chain", chain.rev>>, p |-> chain.pol] ELSE Denied

Stored(f) ==
    IF /\ file # None /\ ~file.pending
       /\ Mode(file.p) = "restricted" /\ f.vis = "restricted"
       /\ file.owner = f.owner
    THEN [rev |-> file.rev, p |-> file.p] ELSE Denied

ReadPolicy(r) ==
    /\ req[r].pc = "policy"
    /\ req' = [req EXCEPT ![r].pc = "decide", ![r].f = None,
          ![r].ans = IF req[r].f.ver = 1 THEN Stored(req[r].f) ELSE LoadChainPolicy(req[r].f)]
    /\ UNCHANGED <<chain, file, upd, queue, late, job, login, settled>>

(* and the answer needs the scope, and a session that still lives. *)
Scope(q) == Checks[q.kind][q.n]
LastCheck(q) == q.n = Len(Checks[q.kind])
Decides(r, ok) ==
    /\ req[r].pc = "decide"
    /\ ok <=> /\ Scope(req[r]) \in Rights(req[r].ans.p).scopes
              /\ req[r].kind \in {"challenge", "verify"} \/ "session" \in login
    /\ UNCHANGED <<chain, file, upd, queue, late, settled>>

(* The request goes on to its next check.  The revision of the first check *)
(* behind the router's has to last; what is sent is filtered by the rights *)
(* of the next to last.                                                    *)
Learn(q) ==
    [q EXCEPT !.rev = IF q.n = 2 THEN q.ans.rev ELSE @,
              !.out = IF q.n = Len(Checks[q.kind]) - 1 THEN FilterPayload(q.ans.p, Scope(q)) ELSE @,
              !.n = @ + 1, !.pc = "twin", !.ans = Denied]

SameRevisionFault(q) == TRUE
SameRevision(q) == Len(Checks[q.kind]) > 2 => q.ans.rev = q.rev

Answer(r, how, out) ==
    req' = [req EXCEPT ![r].pc = how, ![r].out = out, ![r].ans = Denied]

(* A refusal; it fails an export in preparation and ends a stream. *)
Deny(r) ==
    /\ \/ Decides(r, FALSE)
       \/ Decides(r, TRUE) /\ LastCheck(req[r]) /\ ~SameRevision(req[r])
    /\ Answer(r, "denied", {})
    /\ job' = [job EXCEPT ![r] = IF @ = None THEN @ ELSE [@ EXCEPT !.pc = "failed"]]
    /\ UNCHANGED login

Continue(r) ==
    /\ Decides(r, TRUE) /\ ~LastCheck(req[r])
    /\ <<req[r].kind, req[r].n>> \notin {<<"stream", 1>>, <<"export", 2>>}
    /\ req[r].kind = "export" /\ req[r].n = 3 => job[r] # None
    /\ req' = [req EXCEPT ![r] = Learn(@)]
    /\ UNCHANGED <<job, login>>

(* The stream registers for revocations before it reads anything. *)
OpenStream(r) ==
    /\ Decides(r, TRUE) /\ req[r].kind = "stream" /\ req[r].n = 1
    /\ req' = [req EXCEPT ![r].pc = "sent", ![r].n = 2, ![r].ans = Denied]
    /\ UNCHANGED <<job, login>>

(* A sample for an open stream, or a heartbeat, which makes one check. *)
Event(r) ==
    /\ req[r].kind = "stream" /\ req[r].pc = "sent"
    /\ req' = [req EXCEPT ![r].pc = "twin", ![r].n = 2, ![r].rev = None, ![r].out = {}]
    /\ UNCHANGED <<chain, file, upd, queue, late, job, login, settled>>

Heartbeat(r) ==
    /\ Decides(r, TRUE) /\ req[r].kind = "stream" /\ req[r].n = 2
    /\ Answer(r, "sent", {})
    /\ UNCHANGED <<job, login>>

(* dashboard, location/latest, realtime/latest, a stream's sample,         *)
(* history/query and a management call answer after their last check.      *)
Deliver(r) ==
    /\ Decides(r, TRUE) /\ LastCheck(req[r]) /\ SameRevision(req[r])
    /\ req[r].kind \in {"dashboard", "location", "latest", "stream", "history", "manage"}
    /\ Answer(r, "sent", IF req[r].n = 3 THEN req[r].out ELSE FilterPayload(req[r].ans.p, Scope(req[r])))
    /\ UNCHANGED <<job, login>>

(* An export is entered in the table, unless that is full, and prepared in *)
(* the background; the samples are collected only while it is there.       *)
CreateJob(r) ==
    /\ Decides(r, TRUE) /\ req[r].kind = "export" /\ req[r].n = 2
    /\ IF Cardinality({q \in Requests : job[q] # None}) >= MaxJobs
       THEN Answer(r, "denied", {}) /\ UNCHANGED job
       ELSE /\ job' = [job EXCEPT ![r] = [pc |-> "preparing", rev |-> req[r].ans.rev, out |-> {}]]
            /\ req' = [req EXCEPT ![r] = Learn(@)]
    /\ UNCHANGED login

Prepared(r) ==
    /\ Decides(r, TRUE) /\ req[r].kind = "export" /\ LastCheck(req[r]) /\ SameRevision(req[r])
    /\ job[r] # None
    /\ job' = [job EXCEPT ![r] = [pc |-> "ready", rev |-> @.rev, out |-> req[r].out]]
    /\ Answer(r, "done", {})
    /\ UNCHANGED login

Dropped(r) ==
    /\ Decides(r, TRUE) /\ req[r].kind = "export" /\ req[r].n > 2 /\ job[r] = None
    /\ Answer(r, "denied", {})
    /\ UNCHANGED <<job, login>>

(* A download or a cancellation; an export of another revision goes.  *)
UseJob(r) ==
    LET j == job[req[r].of] IN
    /\ Decides(r, TRUE) /\ req[r].kind \in {"download", "cancel"} /\ LastCheck(req[r])
    /\ IF j = None THEN Answer(r, "denied", {}) /\ UNCHANGED job
       ELSE IF j.rev # req[r].ans.rev \/ req[r].kind = "cancel"
       THEN Answer(r, "denied", {}) /\ job' = [job EXCEPT ![req[r].of] = None]
       ELSE /\ Answer(r, IF j.pc = "ready" THEN "sent" ELSE "denied", j.out)
            /\ UNCHANGED job
    /\ UNCHANGED login

Expire(r) ==
    /\ job[r] # None
    /\ job' = [job EXCEPT ![r] = None]
    /\ UNCHANGED <<chain, file, upd, queue, late, req, login, settled>>

(* challenge and verify; a thousand sessions of others refuse one more. *)
LogIn(r) ==
    /\ Decides(r, TRUE) /\ req[r].kind \in {"challenge", "verify"}
    /\ \/ login' = login \cup {IF req[r].kind = "verify" THEN "session" ELSE "challenge"} /\ Answer(r, "done", {})
       \/ req[r].kind = "verify" /\ UNCHANGED login /\ Answer(r, "denied", {})
    /\ UNCHANGED job

LoginExpires ==
    /\ \E x \in login : login' = login \ {x}
    /\ UNCHANGED <<chain, file, upd, queue, late, req, job, settled>>
-------------------------------------------------------------------------------
(* A restart forgets everything but the file. *)
Crash ==
    /\ Active # {}
    /\ upd' = [u \in Updates |-> IF u \notin Active THEN upd[u]
                                 ELSE [pc |-> "failed", by |-> None, want |-> None, base |-> None]]
    /\ queue' = <<>>
    /\ late' \in {late} \cup {Mode(upd[u].want) : u \in {v \in Updates : upd[v].pc = "closed"}}
    /\ req' = [r \in Requests |-> IF req[r].pc = "idle" THEN req[r] ELSE [Idle EXCEPT !.pc = "denied"]]
    /\ job' = [r \in Requests |-> None]
    /\ login' = {}
    /\ UNCHANGED <<chain, file, settled>>

UpdateStep ==
    \E u \in Updates :
        \/ \E by \in Owners, w \in Wants : Submit(u, by, w)
        \/ Manage(u) \/ CompareRevision(u) \/ ClosePolicy(u) \/ Announce(u)
        \/ Confirmed(u) \/ Unconfirmed(u) \/ OpenPolicy(u)

RequestStep ==
    \E r \in Requests :
        \/ \E k \in Kinds, j \in Requests : Begin(r, k, IF k \in {"download", "cancel"} THEN j ELSE None)
        \/ VerifyController(r) \/ ReadTwin(r) \/ ReadPolicy(r) \/ Deny(r) \/ Continue(r)
        \/ OpenStream(r) \/ Event(r) \/ Heartbeat(r) \/ Deliver(r)
        \/ CreateJob(r) \/ Prepared(r) \/ Dropped(r) \/ UseJob(r) \/ Expire(r) \/ LogIn(r)

Next == (UpdateStep \/ RequestStep \/ OthersTransact \/ Land \/ LoginExpires \/ Crash) /\ Watch

Spec == Init /\ [][Next]_vars
-------------------------------------------------------------------------------
(* Whatever a reader is sent was granted: some one policy that was in      *)
(* force between the start of the request's last check and the answer      *)
(* covers all of it, although the Twin, the policy and the data are read   *)
(* one after the other and by several checks.  A policy whose update       *)
(* failed half way, or whose owner has given the Twin away, covers         *)
(* nothing.                                                                *)
DeliveredWasGranted ==
    \A r \in Requests :
        req[r].pc = "sent" /\ req[r].out # {} =>
            \E p \in seen[r] : req[r].out \subseteq FilterPayload(p, Scope(req[r]))

(* Once a change of the policy file has been announced, no stream that     *)
(* was let in by an earlier revision is still open and no archive prepared *)
(* under one can still be downloaded.                                      *)
RevokedTogether ==
    (\A u \in Updates : upd[u].pc \notin {"closing", "opening"}) =>
        /\ \A r \in Requests :
              req[r].kind = "stream" /\ req[r].pc \notin {"denied", "closed"} /\ req[r].rev \in Updates =>
                  file.rev = req[r].rev /\ ~file.pending
        /\ \A r \in Requests :
              job[r] # None /\ job[r].pc = "ready" /\ job[r].rev \in Updates =>
                  file.rev = job[r].rev /\ ~file.pending

(* Two updates never build on the same revision: an owner's dialog that    *)
(* shows settings someone has changed since cannot overwrite them.         *)
EditsBuildOnEachOther ==
    \A u, v \in Updates :
        /\ u # v
        /\ {upd[u].pc, upd[v].pc} \subseteq {"closing", "closed", "confirmed", "opening", "done"}
        => upd[u].base # upd[v].base
================================================================================
