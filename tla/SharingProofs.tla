----------------------------- MODULE SharingProofs -----------------------------
(***************************************************************************)
(* Proofs about TwinSharing, for any number of updates, requests, owners,  *)
(* exports and transactions of others.                                     *)
(*                                                                         *)
(* First the updates by themselves, which need no more than the queue and  *)
(* the file.  Then every step of a request is summarised as one of Moves,  *)
(* and every other step by what it leaves of the requests (Elsewhere), so  *)
(* that the two later invariants, on what is revoked and on what is sent,  *)
(* are carried through the few summaries and not through the actions.      *)
(***************************************************************************)
EXTENDS TwinSharing, TLAPS

Places == {"new", "queued", "managed", "compared", "closing", "closed", "confirmed", "opening", "done", "failed"}
Working == {"managed", "compared", "closing", "closed", "confirmed", "opening"}
Closed == {"closing", "closed", "confirmed"}
Committed == Closed \cup {"opening", "done"}
Before == {"new", "queued", "managed", "compared"}

Modes == {"private", "public", "restricted"}
Policies == [p : Wants \cup {"private"}, owner : Owners, rev : Updates, pending : BOOLEAN]
Dialogs == [pc : Places, by : Owners \cup {None}, want : Wants \cup {None}, base : Updates \cup {None}]

UpdateTypes ==
    /\ upd \in [Updates -> Dialogs]
    /\ queue \in Seq(Updates)
    /\ file # None => file \in Policies
    /\ \A u \in Active : upd[u].by \in Owners /\ upd[u].want \in Wants

(* Updates take turns: only the oldest is at work. *)
InTurn ==
    /\ \A u \in Active : \E i \in 1..Len(queue) : queue[i] = u
    /\ \A u \in Updates : upd[u].pc \in Working => queue[1] = u

(* An update that has not written the file has left no trace; what one has *)
(* built on is no longer in the file.                                      *)
BuiltOn ==
    /\ \A u \in Updates : upd[u].pc \in Before => FileRev # u /\ \A v \in Updates : upd[v].base # u
    /\ \A u \in Updates : upd[u].pc = "compared" => upd[u].base = FileRev
    /\ \A u \in Updates : upd[u].pc \in Committed => upd[u].base # FileRev
    /\ \A u \in Updates : upd[u].pc \in Closed \cup {"opening"} =>
          file # None /\ file.rev = u /\ file.pending = (upd[u].pc # "opening")

UpdateInv == UpdateTypes /\ InTurn /\ BuiltOn /\ EditsBuildOnEachOther
-------------------------------------------------------------------------------
KindNames == {"dashboard", "location", "latest", "stream", "history", "export", "download", "cancel",
              "manage", "challenge", "verify"}
Pcs == {"idle", "controller", "twin", "policy", "decide", "sent", "done", "denied", "closed"}
ChainRevs == {<<"chain", n>> : n \in 0..MaxChain}
Revs == Updates \cup ChainRevs
Names == Wants \cup Grants \cup {"private", "none"}
Data == {"m1", "m2", "position", "api"}
Twins == [ver : 0..2, vis : Modes, owner : Owners, pol : Grants \cup {"none"}, polOwner : Owners, rev : 0..MaxChain]
Frames == [ver : 0..2, vis : Modes, owner : Owners]
Answers == [rev : Revs \cup {None}, p : Names]
Reqs == [kind : KindNames \cup {None}, pc : Pcs, n : 0..4, f : Frames \cup {None}, ans : Answers,
         rev : Revs \cup {None}, out : SUBSET Data, of : Requests \cup {None}]
Jobs == [pc : {"preparing", "ready", "failed"}, rev : Revs, out : SUBSET Data]

Typed(r) ==
    /\ req[r].pc = "idle" => req[r].kind = None /\ req[r].n = 0
    /\ Checking(req[r]) => req[r].kind \in KindNames /\ req[r].n \in 1..Len(Checks[req[r].kind])
    /\ req[r].pc = "controller" => req[r].kind = "verify" /\ req[r].n = 1 /\ req[r].out = {}
    /\ req[r].pc = "sent" => req[r].kind \in KindNames
    /\ req[r].pc = "policy" => req[r].f \in Frames
    /\ Checking(req[r]) /\ req[r].kind \in {"download", "cancel"} => req[r].of \in Requests
    /\ req[r].pc \notin {"decide", "closed"} => req[r].ans = Denied
    /\ req[r].ans.rev = None => req[r].ans = Denied
    /\ req[r].n <= 1 => req[r].rev = None
    /\ Checking(req[r]) /\ req[r].n = 1 => req[r].out = {}
    /\ Checking(req[r]) /\ req[r].n > 2 => req[r].rev # None

RequestTypes ==
    /\ chain \in Twins
    /\ late # None => late \in Modes
    /\ req \in [Requests -> Reqs]
    /\ job \in [Requests -> Jobs \cup {None}]
    /\ \A r \in Requests : Typed(r)

-------------------------------------------------------------------------------
(* Where the dialogs and the file are left alone. *)
LEMMA UpdatesUntouched ==
    ASSUME UpdateInv, UNCHANGED <<upd, queue, file>>
    PROVE  UpdateInv'
  BY DEF UpdateInv, UpdateTypes, InTurn, BuiltOn, EditsBuildOnEachOther, Active, FileRev

LEMMA UpdateInit == ASSUME SharingAssumption, Init PROVE UpdateInv
  BY DEF Init, UpdateInv, UpdateTypes, InTurn, BuiltOn, EditsBuildOnEachOther, Active, FileRev, Dialogs, Places,
         Working, Closed, Committed, Before, SharingAssumption

(* The head of the queue goes on: nobody else works, and the queue stays.  *)
LEMMA Alone ==
    ASSUME UpdateInv, NEW u \in Updates, queue[1] = u
    PROVE  \A v \in Updates \ {u} : upd[v].pc \notin Working
  BY DEF UpdateInv, InTurn

LEMMA FileRevTyped == ASSUME UpdateInv PROVE FileRev \in Updates \cup {None}
  BY DEF UpdateInv, UpdateTypes, FileRev, Policies

LEMMA WorkerIsFirst ==
    ASSUME UpdateInv, NEW u \in Updates, upd[u].pc \in Working \/ Turn(u)
    PROVE  queue[1] = u /\ Len(queue) > 0 /\ upd[u].by \in Owners /\ upd[u].want \in Wants
  <1>1. upd[u].pc \in Places /\ u \in Active
    BY DEF UpdateInv, UpdateTypes, Dialogs, Active, Working, Turn
  <1> QED BY <1>1 DEF UpdateInv, UpdateTypes, InTurn, Turn

LEMMA SubmitKeepsUpdates ==
    ASSUME SharingAssumption, UpdateInv, NEW u \in Updates, NEW by \in Owners, NEW w \in Wants, Submit(u, by, w)
    PROVE  UpdateInv'
  <1>0. FileRev \in Updates \cup {None} BY FileRevTyped
  <1>1. /\ upd' = [upd EXCEPT ![u] = [pc |-> "queued", by |-> by, want |-> w, base |-> FileRev]]
        /\ queue' = Append(queue, u) /\ file' = file /\ upd[u].pc = "new"
    BY DEF Submit
  <1>2. FileRev' = FileRev BY <1>1 DEF FileRev
  <1>3. upd \in [Updates -> Dialogs] /\ queue \in Seq(Updates) /\ (file # None => file \in Policies)
    BY DEF UpdateInv, UpdateTypes
  <1>4. \A v \in Updates \ {u} : upd'[v] = upd[v] BY <1>1, <1>3
  <1>5. upd'[u].pc = "queued" /\ upd'[u].by = by /\ upd'[u].want = w /\ upd'[u].base = FileRev BY <1>1, <1>3
  <1>6. UpdateTypes'
    <2>1. upd' \in [Updates -> Dialogs] BY <1>0, <1>1, <1>3 DEF Dialogs, Places
    <2>2. queue' \in Seq(Updates) BY <1>1, <1>3
    <2>3. \A v \in Active' : upd'[v].by \in Owners /\ upd'[v].want \in Wants
      BY <1>4, <1>5 DEF UpdateInv, UpdateTypes, Active
    <2> QED BY <1>1, <1>3, <2>1, <2>2, <2>3 DEF UpdateTypes
  <1>7. InTurn'
    <2>1. Len(queue) \in Nat /\ Len(queue') = Len(queue) + 1 /\ queue'[Len(queue) + 1] = u BY <1>1, <1>3
    <2>2. \A i \in 1..Len(queue) : queue'[i] = queue[i] BY <1>1, <1>3
    <2>3. \A v \in Active \ {u} : \E i \in 1..Len(queue') : queue'[i] = v
      BY <2>1, <2>2 DEF UpdateInv, InTurn
    <2>4. \E i \in 1..Len(queue') : queue'[i] = u BY <2>1
    <2>5. ASSUME NEW v \in Updates, upd'[v].pc \in Working PROVE queue'[1] = v
      <3>1. v # u BY <1>5, <2>5 DEF Working
      <3>2. upd[v].pc \in Working BY <1>4, <2>5, <3>1
      <3> QED BY <2>1, <2>2, <3>2, WorkerIsFirst
    <2> QED BY <1>4, <2>3, <2>4, <2>5 DEF InTurn, Active
  <1>8. BuiltOn'
    BY <1>1, <1>2, <1>4, <1>5 DEF UpdateInv, BuiltOn, Before, Closed, Committed
  <1>9. EditsBuildOnEachOther'
    BY <1>4, <1>5 DEF UpdateInv, EditsBuildOnEachOther
  <1> QED BY <1>6, <1>7, <1>8, <1>9 DEF UpdateInv

(* A dialog leaves the queue, without a change of the file. *)
LEMMA EndKeepsUpdates ==
    ASSUME SharingAssumption, UpdateInv, NEW u \in Updates, NEW how \in {"failed", "done"}, End(u, how),
           queue[1] = u, Len(queue) > 0, file' = file, how = "done" => upd[u].pc = "opening"
    PROVE  UpdateInv'
  <1>1. /\ upd' = [upd EXCEPT ![u] = [pc |-> how, by |-> None, want |-> None,
                                      base |-> IF how = "done" THEN upd[u].base ELSE None]]
        /\ queue' = Tail(queue)
    BY DEF End
  <1>2. FileRev' = FileRev BY DEF FileRev
  <1>3. upd \in [Updates -> Dialogs] /\ queue \in Seq(Updates) /\ (file # None => file \in Policies)
    BY DEF UpdateInv, UpdateTypes
  <1>4. \A v \in Updates \ {u} : upd'[v] = upd[v] BY <1>1, <1>3
  <1>5. upd'[u].pc = how /\ upd'[u].base = (IF how = "done" THEN upd[u].base ELSE None) BY <1>1, <1>3
  <1>6. UpdateTypes'
    <2>1. upd[u].base \in Updates \cup {None} BY <1>3 DEF Dialogs
    <2>2. upd' \in [Updates -> Dialogs] BY <1>1, <1>3, <2>1 DEF Dialogs, Places
    <2>3. queue' \in Seq(Updates) BY <1>1, <1>3
    <2>4. \A v \in Active' : upd'[v].by \in Owners /\ upd'[v].want \in Wants
      BY <1>4, <1>5 DEF UpdateInv, UpdateTypes, Active
    <2> QED BY <1>3, <2>2, <2>3, <2>4 DEF UpdateTypes
  <1>7. InTurn'
    <2>1. Len(queue) \in Nat /\ Len(queue') = Len(queue) - 1 BY <1>1, <1>3
    <2>2. \A i \in 1..Len(queue') : queue'[i] = queue[i + 1] BY <1>1, <1>3
    <2>3. ASSUME NEW v \in Active' PROVE \E i \in 1..Len(queue') : queue'[i] = v
      <3>1. v # u /\ v \in Active BY <1>4, <1>5 DEF Active
      <3>2. PICK i \in 1..Len(queue) : queue[i] = v BY <3>1 DEF UpdateInv, InTurn
      <3>3. i # 1 BY <3>1, <3>2
      <3>4. i - 1 \in 1..Len(queue') /\ queue'[i - 1] = v BY <2>1, <2>2, <3>2, <3>3
      <3> QED BY <3>4
    <2>4. \A v \in Updates : upd'[v].pc \notin Working BY <1>4, <1>5, Alone DEF Working
    <2> QED BY <2>3, <2>4 DEF InTurn
  <1>8. BuiltOn'
    <2>1. \A v \in Updates : upd'[v].base \in {upd[v].base, None} BY <1>4, <1>5
    <2>2. \A v \in Updates : upd'[v].pc \in Before => FileRev' # v /\ \A x \in Updates : upd'[x].base # v
      BY <1>2, <1>4, <1>5, <2>1 DEF UpdateInv, BuiltOn, Before, SharingAssumption
    <2>3. \A v \in Updates : upd'[v].pc = "compared" => upd'[v].base = FileRev'
      BY <1>2, <1>4, <1>5 DEF UpdateInv, BuiltOn
    <2>4. \A v \in Updates : upd'[v].pc \in Committed => upd'[v].base # FileRev'
      BY <1>2, <1>4, <1>5 DEF UpdateInv, BuiltOn, Committed, Closed
    <2>5. \A v \in Updates : upd'[v].pc \in Closed \cup {"opening"} =>
             file' # None /\ file'.rev = v /\ file'.pending = (upd'[v].pc # "opening")
      BY <1>4, <1>5 DEF UpdateInv, BuiltOn, Closed
    <2> QED BY <2>2, <2>3, <2>4, <2>5 DEF BuiltOn
  <1>9. EditsBuildOnEachOther'
    BY <1>4, <1>5 DEF UpdateInv, EditsBuildOnEachOther
  <1> QED BY <1>6, <1>7, <1>8, <1>9 DEF UpdateInv

(* The head of the queue goes on to its next place. *)
LEMMA HeadMoves ==
    ASSUME UpdateInv, NEW u \in Updates, NEW to \in Working, upd' = [upd EXCEPT ![u].pc = to], queue' = queue,
           queue[1] = u, u \in Active, file' = file \/ file' \in Policies
    PROVE  /\ UpdateTypes' /\ InTurn'
           /\ \A v \in Updates \ {u} : upd'[v] = upd[v] /\ upd'[v].pc \notin Working
           /\ upd'[u].pc = to /\ upd'[u].base = upd[u].base
  <1>1. upd \in [Updates -> Dialogs] /\ queue \in Seq(Updates) /\ (file # None => file \in Policies)
    BY DEF UpdateInv, UpdateTypes
  <1>2. \A v \in Updates \ {u} : upd'[v] = upd[v] /\ upd'[v].pc \notin Working BY <1>1, Alone
  <1>3. upd'[u].pc = to /\ upd'[u].by = upd[u].by /\ upd'[u].want = upd[u].want /\ upd'[u].base = upd[u].base
    BY <1>1 DEF Dialogs
  <1>4. upd' \in [Updates -> Dialogs] BY <1>1 DEF Dialogs, Places, Working
  <1>5. Active' = Active BY <1>2, <1>3 DEF Active, Working
  <1>6. UpdateTypes' BY <1>1, <1>2, <1>3, <1>4, <1>5 DEF UpdateInv, UpdateTypes
  <1>7. InTurn' BY <1>2, <1>3, <1>5 DEF UpdateInv, InTurn
  <1> QED BY <1>2, <1>3, <1>6, <1>7

LEMMA ManageKeepsUpdates == ASSUME SharingAssumption, UpdateInv, NEW u \in Updates, Manage(u) PROVE UpdateInv'
  <1>1. Turn(u) /\ file' = file BY DEF Manage
  <1>2. queue[1] = u /\ Len(queue) > 0 /\ u \in Active BY <1>1, WorkerIsFirst DEF Turn, Active
  <1>3. CASE End(u, "failed") BY <1>1, <1>2, <1>3, EndKeepsUpdates
  <1>4. CASE upd' = [upd EXCEPT ![u].pc = "managed"] /\ UNCHANGED queue
    <2>1. /\ UpdateTypes' /\ InTurn'
          /\ \A v \in Updates \ {u} : upd'[v] = upd[v] /\ upd'[v].pc \notin Working
          /\ upd'[u].pc = "managed" /\ upd'[u].base = upd[u].base
      BY <1>1, <1>2, <1>4, HeadMoves DEF Working
    <2>2. FileRev' = FileRev BY <1>1 DEF FileRev
    <2>3. BuiltOn' BY <1>1, <2>1, <2>2 DEF Turn, UpdateInv, BuiltOn, Before, Closed, Committed
    <2>4. EditsBuildOnEachOther' BY <2>1 DEF UpdateInv, EditsBuildOnEachOther
    <2> QED BY <2>1, <2>3, <2>4 DEF UpdateInv
  <1> QED BY <1>3, <1>4 DEF Manage

LEMMA CompareKeepsUpdates == ASSUME SharingAssumption, UpdateInv, NEW u \in Updates, CompareRevision(u) PROVE UpdateInv'
  <1>1. upd[u].pc = "managed" /\ file' = file BY DEF CompareRevision
  <1>2. queue[1] = u /\ Len(queue) > 0 /\ u \in Active BY <1>1, WorkerIsFirst DEF Working, Active
  <1>3. CASE End(u, "failed") BY <1>1, <1>2, <1>3, EndKeepsUpdates
  <1>4. CASE upd[u].base = FileRev /\ upd' = [upd EXCEPT ![u].pc = "compared"] /\ UNCHANGED queue
    <2>1. /\ UpdateTypes' /\ InTurn'
          /\ \A v \in Updates \ {u} : upd'[v] = upd[v] /\ upd'[v].pc \notin Working
          /\ upd'[u].pc = "compared" /\ upd'[u].base = upd[u].base
      BY <1>1, <1>2, <1>4, HeadMoves DEF Working
    <2>2. FileRev' = FileRev BY <1>1 DEF FileRev
    <2>3. BuiltOn' BY <1>1, <1>4, <2>1, <2>2 DEF UpdateInv, BuiltOn, Before, Closed, Committed
    <2>4. EditsBuildOnEachOther' BY <2>1 DEF UpdateInv, EditsBuildOnEachOther
    <2> QED BY <2>1, <2>3, <2>4 DEF UpdateInv
  <1> QED BY <1>3, <1>4 DEF CompareRevision

(* The file is closed: what others have built on is not in it, and its     *)
(* revision is new.                                                        *)
LEMMA CloseKeepsUpdates == ASSUME SharingAssumption, UpdateInv, NEW u \in Updates, ClosePolicy(u) PROVE UpdateInv'
  <1> DEFINE f == [p |-> "private", owner |-> upd[u].by, rev |-> u, pending |-> TRUE]
  <1>1. upd[u].pc = "compared" /\ queue' = queue /\ file' = f /\ upd' = [upd EXCEPT ![u].pc = "closing"]
    BY DEF ClosePolicy, Rename
  <1>2. queue[1] = u /\ u \in Active /\ upd[u].by \in Owners BY <1>1, WorkerIsFirst DEF Working, Active
  <1>3. f \in Policies /\ f # None
    <2>1. f \in Policies BY <1>2 DEF Policies
    <2>2. None \notin Policies BY DEF Policies, SharingAssumption
    <2> QED BY <2>1, <2>2
  <1>4. /\ UpdateTypes' /\ InTurn'
        /\ \A v \in Updates \ {u} : upd'[v] = upd[v] /\ upd'[v].pc \notin Working
        /\ upd'[u].pc = "closing" /\ upd'[u].base = upd[u].base
    BY <1>1, <1>2, <1>3, HeadMoves DEF Working
  <1>5. FileRev' = u /\ file'.rev = u /\ file'.pending BY <1>1, <1>3 DEF FileRev
  <1>6. upd[u].base = FileRev /\ FileRev # u /\ \A v \in Updates : upd[v].base # u
    BY <1>1 DEF UpdateInv, BuiltOn, Before
  <1>7. BuiltOn'
    <2>1. \A v \in Updates : upd'[v].pc \in Before => FileRev' # v /\ \A x \in Updates : upd'[x].base # v
      BY <1>4, <1>5, <1>6 DEF UpdateInv, BuiltOn, Before
    <2>2. \A v \in Updates : upd'[v].pc = "compared" => upd'[v].base = FileRev'
      BY <1>4 DEF Working
    <2>3. \A v \in Updates : upd'[v].pc \in Committed => upd'[v].base # FileRev'
      BY <1>4, <1>5, <1>6
    <2>4. \A v \in Updates : upd'[v].pc \in Closed \cup {"opening"} =>
             file' # None /\ file'.rev = v /\ file'.pending = (upd'[v].pc # "opening")
      BY <1>1, <1>3, <1>4, <1>5 DEF Working, Closed
    <2> QED BY <2>1, <2>2, <2>3, <2>4 DEF BuiltOn
  <1>8. \A v \in Updates \ {u} : upd[v].pc \in Committed => upd[v].base # upd[u].base
    BY <1>6 DEF UpdateInv, BuiltOn
  <1>9. EditsBuildOnEachOther'
    BY <1>4, <1>8 DEF UpdateInv, EditsBuildOnEachOther, Committed, Closed
  <1> QED BY <1>4, <1>7, <1>9 DEF UpdateInv

LEMMA AnnounceKeepsUpdates == ASSUME SharingAssumption, UpdateInv, NEW u \in Updates, Announce(u) PROVE UpdateInv'
  <1>1. upd[u].pc \in {"closing", "opening"} /\ file' = file BY DEF Announce
  <1>2. queue[1] = u /\ Len(queue) > 0 /\ u \in Active BY <1>1, WorkerIsFirst DEF Working, Active
  <1>3. CASE upd[u].pc = "opening" /\ End(u, "done") BY <1>1, <1>2, <1>3, EndKeepsUpdates
  <1>4. CASE upd[u].pc = "closing" /\ upd' = [upd EXCEPT ![u].pc = "closed"] /\ UNCHANGED queue
    <2>1. /\ UpdateTypes' /\ InTurn'
          /\ \A v \in Updates \ {u} : upd'[v] = upd[v] /\ upd'[v].pc \notin Working
          /\ upd'[u].pc = "closed" /\ upd'[u].base = upd[u].base
      BY <1>1, <1>2, <1>4, HeadMoves DEF Working
    <2>2. FileRev' = FileRev BY <1>1 DEF FileRev
    <2>3. BuiltOn' BY <1>1, <1>4, <2>1, <2>2 DEF UpdateInv, BuiltOn, Before, Closed, Committed
    <2>4. EditsBuildOnEachOther' BY <1>4, <2>1 DEF UpdateInv, EditsBuildOnEachOther
    <2> QED BY <2>1, <2>3, <2>4 DEF UpdateInv
  <1> QED BY <1>1, <1>3, <1>4 DEF Announce

LEMMA ConfirmedKeepsUpdates == ASSUME UpdateInv, NEW u \in Updates, Confirmed(u) PROVE UpdateInv'
  <1>1. upd[u].pc = "closed" /\ file' = file /\ queue' = queue /\ upd' = [upd EXCEPT ![u].pc = "confirmed"]
    BY DEF Confirmed
  <1>2. queue[1] = u /\ u \in Active BY <1>1, WorkerIsFirst DEF Working, Active
  <1>3. /\ UpdateTypes' /\ InTurn'
        /\ \A v \in Updates \ {u} : upd'[v] = upd[v] /\ upd'[v].pc \notin Working
        /\ upd'[u].pc = "confirmed" /\ upd'[u].base = upd[u].base
    BY <1>1, <1>2, HeadMoves DEF Working
  <1>4. FileRev' = FileRev BY <1>1 DEF FileRev
  <1>5. BuiltOn' BY <1>1, <1>3, <1>4 DEF UpdateInv, BuiltOn, Before, Closed, Committed
  <1>6. EditsBuildOnEachOther' BY <1>1, <1>3 DEF UpdateInv, EditsBuildOnEachOther
  <1> QED BY <1>3, <1>5, <1>6 DEF UpdateInv

LEMMA UnconfirmedKeepsUpdates == ASSUME SharingAssumption, UpdateInv, NEW u \in Updates, Unconfirmed(u) PROVE UpdateInv'
  <1>1. upd[u].pc = "closed" /\ file' = file /\ End(u, "failed") BY DEF Unconfirmed
  <1>2. queue[1] = u /\ Len(queue) > 0 BY <1>1, WorkerIsFirst DEF Working
  <1> QED BY <1>1, <1>2, EndKeepsUpdates

LEMMA OpenKeepsUpdates == ASSUME SharingAssumption, UpdateInv, NEW u \in Updates, OpenPolicy(u) PROVE UpdateInv'
  <1> DEFINE f == [p |-> upd[u].want, owner |-> upd[u].by, rev |-> u, pending |-> FALSE]
  <1>1. upd[u].pc = "confirmed" /\ queue' = queue /\ file' = f /\ upd' = [upd EXCEPT ![u].pc = "opening"]
    BY DEF OpenPolicy, Rename
  <1>2. queue[1] = u /\ u \in Active /\ upd[u].by \in Owners /\ upd[u].want \in Wants
    BY <1>1, WorkerIsFirst DEF Working, Active
  <1>3. f \in Policies /\ f # None
    <2>1. f \in Policies BY <1>2 DEF Policies
    <2>2. None \notin Policies BY DEF Policies, SharingAssumption
    <2> QED BY <2>1, <2>2
  <1>4. /\ UpdateTypes' /\ InTurn'
        /\ \A v \in Updates \ {u} : upd'[v] = upd[v] /\ upd'[v].pc \notin Working
        /\ upd'[u].pc = "opening" /\ upd'[u].base = upd[u].base
    BY <1>1, <1>2, <1>3, HeadMoves DEF Working
  <1>5. FileRev = u /\ FileRev' = u BY <1>1, <1>3 DEF FileRev, UpdateInv, BuiltOn, Closed
  <1>6. BuiltOn'
    <2>1. \A v \in Updates : upd'[v].pc \in Closed \cup {"opening"} =>
             file' # None /\ file'.rev = v /\ file'.pending = (upd'[v].pc # "opening")
      BY <1>1, <1>3, <1>4 DEF Working, Closed
    <2>2. upd[u].pc \in Committed BY <1>1 DEF Committed, Closed
    <2> QED BY <1>4, <1>5, <2>1, <2>2 DEF UpdateInv, BuiltOn, Before, Working
  <1>7. EditsBuildOnEachOther' BY <1>1, <1>4 DEF UpdateInv, EditsBuildOnEachOther
  <1> QED BY <1>4, <1>6, <1>7 DEF UpdateInv

(* A restart fails every dialog and keeps the file. *)
LEMMA CrashKeepsUpdates == ASSUME SharingAssumption, UpdateInv, Crash PROVE UpdateInv'
  <1>1. /\ upd' = [u \in Updates |-> IF u \notin Active THEN upd[u]
                                     ELSE [pc |-> "failed", by |-> None, want |-> None, base |-> None]]
        /\ queue' = <<>> /\ file' = file
    BY DEF Crash
  <1>2. FileRev' = FileRev BY <1>1 DEF FileRev
  <1>3. upd \in [Updates -> Dialogs] /\ (file # None => file \in Policies) BY DEF UpdateInv, UpdateTypes
  <1>4. \A v \in Updates : \/ upd'[v] = upd[v] /\ upd[v].pc \in {"new", "done", "failed"}
                           \/ upd'[v].pc = "failed" /\ upd'[v].base = None
    BY <1>1 DEF Active
  <1>5. upd' \in [Updates -> Dialogs] BY <1>1, <1>3 DEF Dialogs, Places
  <1>6. Active' = {} BY <1>4 DEF Active
  <1>7. UpdateTypes' BY <1>1, <1>3, <1>5, <1>6 DEF UpdateTypes
  <1>8. InTurn' BY <1>4, <1>6 DEF InTurn, Working
  <1>9. BuiltOn'
    BY <1>2, <1>4, SharingAssumption DEF UpdateInv, BuiltOn, Before, Closed, Committed, SharingAssumption
  <1>10. EditsBuildOnEachOther' BY <1>4 DEF UpdateInv, EditsBuildOnEachOther
  <1> QED BY <1>7, <1>8, <1>9, <1>10 DEF UpdateInv

LEMMA RequestsKeepUpdates == ASSUME RequestStep PROVE UNCHANGED <<upd, queue, file>>
  BY DEF RequestStep, Begin, VerifyController, ReadTwin, ReadPolicy, Deny, Continue, OpenStream, Event, Heartbeat,
         Deliver, CreateJob, Prepared, Dropped, UseJob, Expire, LogIn, Decides

LEMMA UpdateStepKeepsUpdates == ASSUME SharingAssumption, UpdateInv, UpdateStep PROVE UpdateInv'
  BY SubmitKeepsUpdates, ManageKeepsUpdates, CompareKeepsUpdates, CloseKeepsUpdates, AnnounceKeepsUpdates,
     ConfirmedKeepsUpdates, UnconfirmedKeepsUpdates, OpenKeepsUpdates DEF UpdateStep

LEMMA UpdateNext == ASSUME SharingAssumption, UpdateInv, [Next]_vars PROVE UpdateInv'
  <1>1. CASE UpdateStep BY <1>1, UpdateStepKeepsUpdates
  <1>2. CASE RequestStep BY <1>2, RequestsKeepUpdates, UpdatesUntouched
  <1>3. CASE OthersTransact \/ Land \/ LoginExpires
    <2>1. UNCHANGED <<upd, queue, file>> BY <1>3 DEF OthersTransact, Land, LoginExpires
    <2> QED BY <2>1, UpdatesUntouched
  <1>4. CASE Crash BY <1>4, CrashKeepsUpdates
  <1>5. CASE UNCHANGED vars
    <2>1. UNCHANGED <<upd, queue, file>> BY <1>5 DEF vars
    <2> QED BY <2>1, UpdatesUntouched
  <1> QED BY <1>1, <1>2, <1>3, <1>4, <1>5 DEF Next

(* The invariant of the updates: they take turns, and each writes a        *)
(* revision that nothing was built on.                                     *)
THEOREM UpdateInvariance == Spec => []UpdateInv
  <1>1. Init => UpdateInv BY UpdateInit, SharingAssumption
  <1>2. UpdateInv /\ [Next]_vars => UpdateInv' BY UpdateNext, SharingAssumption
  <1> QED BY <1>1, <1>2, PTL DEF Spec

(* Two updates never build on the same revision, however many owners'      *)
(* dialogs are open and wherever a restart or a failed transaction ends    *)
(* one.                                                                    *)
THEOREM NoLostEdit == Spec => []EditsBuildOnEachOther
  <1>1. UpdateInv => EditsBuildOnEachOther BY DEF UpdateInv
  <1> QED BY <1>1, UpdateInvariance, PTL

-------------------------------------------------------------------------------
(* What the table of the checks says. *)
LEMMA CheckFacts ==
    ASSUME NEW k \in KindNames
    PROVE  /\ Checks[k] \in Seq({"discover", "location", "realtime", "storage", "export", "admin"})
           /\ Len(Checks[k]) = IF k = "export" THEN 4 ELSE IF k \in {"latest", "stream", "history"} THEN 3
                               ELSE IF k \in {"location", "download", "cancel"} THEN 2 ELSE 1
           /\ k \in {"latest", "stream", "history"} => Checks[k][2] = Checks[k][3]
           /\ k = "export" => Checks[k][3] = "export" /\ Checks[k][4] = "export"
           /\ k \in {"download", "cancel"} => Checks[k][2] = "export"
  <1>1. CASE k \in {"dashboard", "challenge", "verify"}
    <2>1. Checks[k] = <<"discover">> BY <1>1 DEF Checks
    <2> QED BY <1>1, <2>1
  <1>2. CASE k = "manage"
    <2>1. Checks[k] = <<"admin">> BY <1>2 DEF Checks
    <2> QED BY <1>2, <2>1
  <1>3. CASE k = "location"
    <2>1. Checks[k] = <<"discover", "location">> BY <1>3 DEF Checks
    <2> QED BY <1>3, <2>1
  <1>4. CASE k \in {"latest", "stream"}
    <2>1. Checks[k] = <<"discover", "realtime", "realtime">> BY <1>4 DEF Checks
    <2> QED BY <1>4, <2>1
  <1>5. CASE k = "history"
    <2>1. Checks[k] = <<"discover", "storage", "storage">> BY <1>5 DEF Checks
    <2> QED BY <1>5, <2>1
  <1>6. CASE k = "export"
    <2>1. Checks[k] = <<"discover", "export", "export", "export">> BY <1>6 DEF Checks
    <2> QED BY <1>6, <2>1
  <1>7. CASE k \in {"download", "cancel"}
    <2>1. Checks[k] = <<"discover", "export">> BY <1>7 DEF Checks
    <2> QED BY <1>7, <2>1
  <1> QED BY <1>1, <1>2, <1>3, <1>4, <1>5, <1>6, <1>7 DEF KindNames

LEMMA FilterTyped == ASSUME NEW p, NEW s PROVE FilterPayload(p, s) \in SUBSET Data
  <1>1. Rights(p).keys \subseteq {"m1", "m2"}
    BY DEF Rights, LegacyRights, ChainRights, Reader
  <1> QED BY <1>1 DEF FilterPayload, Data

LEMMA DeniedMeansNothing == ASSUME SharingAssumption PROVE Rights("none").scopes = {}
  BY DEF Rights, ChainRights, SharingAssumption

-------------------------------------------------------------------------------
(* What the step of a request does to it and to the exports. *)
Same(r) ==
    /\ req'[r].kind = req[r].kind /\ req'[r].n = req[r].n /\ req'[r].rev = req[r].rev /\ req'[r].of = req[r].of

Begun(r) ==
    /\ req[r].pc \in {"idle", "done"} /\ req'[r].pc \in {"controller", "twin", "denied"}
    /\ req'[r].pc = "controller" => req'[r].kind = "verify"
    /\ req'[r].kind \in {"download", "cancel"} => req'[r].of \in Requests
    /\ req'[r].kind \in KindNames /\ req'[r].n = 1 /\ req'[r].rev = None /\ req'[r].out = {}
    /\ req'[r].ans = Denied /\ job' = job

Passed(r) ==
    /\ req[r].pc = "controller" /\ req'[r].pc \in {"twin", "denied"}
    /\ Same(r) /\ req'[r].out = req[r].out /\ req'[r].ans = req[r].ans /\ job' = job

TwinRead(r) ==
    /\ req[r].pc = "twin" /\ req'[r].pc = "policy"
    /\ Same(r) /\ req'[r].out = req[r].out /\ req'[r].ans = req[r].ans /\ job' = job
    /\ req'[r].f = [ver |-> chain.ver, vis |-> chain.vis, owner |-> chain.owner]

PolicyRead(r) ==
    /\ req[r].pc = "policy" /\ req'[r].pc = "decide"
    /\ Same(r) /\ req'[r].out = req[r].out /\ job' = job
    /\ req'[r].ans = IF req[r].f.ver = 1 THEN Stored(req[r].f) ELSE LoadChainPolicy(req[r].f)

Allowed(r) == req[r].pc = "decide" /\ Scope(req[r]) \in Rights(req[r].ans.p).scopes

Learned(r) ==
    /\ Allowed(r) /\ req[r].n < Len(Checks[req[r].kind]) /\ req'[r].pc = "twin"
    /\ req'[r].kind = req[r].kind /\ req'[r].of = req[r].of /\ req'[r].n = req[r].n + 1 /\ req'[r].ans = Denied
    /\ req'[r].rev = IF req[r].n = 2 THEN req[r].ans.rev ELSE req[r].rev
    /\ req'[r].out = IF req[r].n = Len(Checks[req[r].kind]) - 1 THEN FilterPayload(req[r].ans.p, Scope(req[r]))
                     ELSE req[r].out
    /\ <<req[r].kind, req[r].n>> # <<"stream", 1>>
    /\ IF req[r].kind = "export" /\ req[r].n = 2
       THEN job' = [job EXCEPT ![r] = [pc |-> "preparing", rev |-> req[r].ans.rev, out |-> {}]]
       ELSE job' = job

Opened(r) ==
    /\ req[r].pc = "decide" /\ req[r].kind = "stream" /\ req[r].n = 1 /\ req'[r].pc = "sent"
    /\ req'[r].kind = "stream" /\ req'[r].n = 2 /\ req'[r].rev = req[r].rev /\ req'[r].out = req[r].out
    /\ req'[r].ans = Denied /\ job' = job

Resumed(r) ==
    /\ req[r].pc = "sent" /\ req[r].kind = "stream" /\ req'[r].pc = "twin"
    /\ req'[r].kind = "stream" /\ req'[r].n = 2 /\ req'[r].rev = None /\ req'[r].out = {}
    /\ req'[r].ans = req[r].ans /\ job' = job

(* The answer with data, or without. *)
Sent(r) ==
    /\ Allowed(r) /\ req'[r].pc = "sent" /\ Same(r) /\ req'[r].ans = Denied /\ job' = job
    /\ \/ req'[r].out = {}
       \/ /\ req[r].kind \notin {"export", "download", "cancel"} /\ LastCheck(req[r]) /\ SameRevision(req[r])
          /\ req'[r].out = IF req[r].n = 3 THEN req[r].out ELSE FilterPayload(req[r].ans.p, Scope(req[r]))
       \/ /\ req[r].kind = "download" /\ LastCheck(req[r])
          /\ \E q \in Requests : /\ job[q] # None /\ job[q].pc = "ready" /\ job[q].rev = req[r].ans.rev
                                 /\ req'[r].out = job[q].out

Ended(r) ==
    /\ req[r].pc = "decide" /\ req'[r].pc \in {"done", "denied"} /\ Same(r) /\ req'[r].ans = Denied
    /\ \A q \in Requests :
          \/ job'[q] \in {job[q], None}
          \/ q = r /\ job[r] # None /\ job'[r].pc = "failed" /\ job'[r].rev = job[r].rev
          \/ /\ q = r /\ req[r].kind = "export" /\ LastCheck(req[r]) /\ SameRevision(req[r]) /\ Allowed(r)
             /\ job[r] # None /\ job'[r].rev = job[r].rev /\ job'[r].out = req[r].out

Expired(r) == req' = req /\ \A q \in Requests : job'[q] \in {job[q], None}

Local(r) ==
    /\ req' \in [Requests -> Reqs] /\ job' \in [Requests -> Jobs \cup {None}]
    /\ \A q \in Requests \ {r} : req'[q] = req[q]

LEMMA BeginMoves ==
    ASSUME SharingAssumption, RequestTypes, NEW r \in Requests, NEW k \in Kinds, NEW j \in Requests \cup {None},
           k \in {"download", "cancel"} => j \in Requests, Begin(r, k, j)
    PROVE  Local(r) /\ Begun(r)
  <1> DEFINE q == [Idle EXCEPT !.kind = k, !.n = 1, !.of = j,
                     !.pc = IF k = "verify" THEN "controller"
                              ELSE IF k = "challenge" \/ "session" \in login THEN "twin" ELSE "denied"]
  <1>1. k \in KindNames BY DEF SharingAssumption, KindNames
  <1>a. Idle \in Reqs /\ Idle.rev = None /\ Idle.out = {} /\ Idle.ans = Denied
    <2>1. Denied \in Answers BY DEF Denied, Answers, Names
    <2> QED BY <2>1 DEF Idle, Reqs, Pcs
  <1>2. /\ q \in Reqs /\ q.kind = k /\ q.of = j /\ q.n = 1 /\ q.rev = None /\ q.out = {} /\ q.ans = Denied
        /\ q.pc \in {"controller", "twin", "denied"} /\ (q.pc = "controller" => q.kind = "verify")
    <2> DEFINE a == [Idle EXCEPT !.kind = k]
               c == [a EXCEPT !.n = 1]
               b == [c EXCEPT !.of = j]
    <2>a. a \in Reqs /\ a.kind = k /\ a.rev = None /\ a.out = {} /\ a.ans = Denied BY <1>1, <1>a DEF Reqs
    <2> HIDE DEF a
    <2>c. c \in Reqs /\ c.kind = k /\ c.n = 1 /\ c.rev = None /\ c.out = {} /\ c.ans = Denied BY <2>a DEF Reqs
    <2> HIDE DEF c
    <2>1. b \in Reqs /\ b.kind = k /\ b.of = j /\ b.n = 1 /\ b.rev = None /\ b.out = {} /\ b.ans = Denied
      BY <2>c DEF Reqs
    <2>2. PICK p \in {"controller", "twin", "denied"} :
             /\ p = IF k = "verify" THEN "controller"
                    ELSE IF k = "challenge" \/ "session" \in login THEN "twin" ELSE "denied"
             /\ p = "controller" => k = "verify"
      OBVIOUS
    <2>3. q = [b EXCEPT !.pc = p] BY <2>2 DEF a, c
    <2> HIDE DEF b, q
    <2> QED BY <2>1, <2>2, <2>3 DEF Reqs, Pcs
  <1>3. req' = [req EXCEPT ![r] = q] /\ job' = job /\ req[r].pc \in {"idle", "done"} BY DEF Begin
  <1> HIDE DEF q
  <1>4. req' \in [Requests -> Reqs] /\ req'[r] = q /\ \A x \in Requests \ {r} : req'[x] = req[x]
    BY <1>2, <1>3 DEF RequestTypes
  <1>5. job' \in [Requests -> Jobs \cup {None}] BY <1>3 DEF RequestTypes
  <1> QED BY <1>1, <1>2, <1>3, <1>4, <1>5 DEF Local, Begun

LEMMA VerifyMoves ==
    ASSUME RequestTypes, NEW r \in Requests, VerifyController(r) PROVE Local(r) /\ Passed(r)
  <1>1. PICK to \in {"twin", "denied"} : req' = [req EXCEPT ![r].pc = to] BY DEF VerifyController
  <1>2. req[r].pc = "controller" /\ job' = job BY DEF VerifyController
  <1>3. req \in [Requests -> Reqs] /\ job \in [Requests -> Jobs \cup {None}] BY DEF RequestTypes
  <1>4. req' \in [Requests -> Reqs] BY <1>1, <1>3 DEF Reqs, Pcs
  <1> QED BY <1>1, <1>2, <1>3, <1>4 DEF Local, Passed, Same, Reqs

LEMMA ReadTwinMoves ==
    ASSUME RequestTypes, NEW r \in Requests, ReadTwin(r) PROVE Local(r) /\ TwinRead(r)
  <1> DEFINE f == [ver |-> chain.ver, vis |-> chain.vis, owner |-> chain.owner]
  <1>1. f \in Frames BY DEF RequestTypes, Twins, Frames
  <1>2. req[r].pc = "twin" /\ job' = job /\ req' = [req EXCEPT ![r].pc = "policy", ![r].f = f] BY DEF ReadTwin
  <1>3. req \in [Requests -> Reqs] /\ job \in [Requests -> Jobs \cup {None}] BY DEF RequestTypes
  <1> HIDE DEF f
  <1>4. req' \in [Requests -> Reqs]
    <2> DEFINE g == [req EXCEPT ![r].pc = "policy"]
    <2>1. g \in [Requests -> Reqs] BY <1>3 DEF Reqs, Pcs
    <2>2. req' = [g EXCEPT ![r].f = f] BY <1>2
    <2> HIDE DEF g
    <2> QED BY <1>1, <2>1, <2>2 DEF Reqs
  <1>5. req'[r].f = f BY <1>2, <1>3 DEF Reqs
  <1>6. Same(r) /\ req'[r].out = req[r].out /\ req'[r].ans = req[r].ans /\ req'[r].pc = "policy"
    BY <1>2, <1>3 DEF Same, Reqs
  <1> QED BY <1>2, <1>3, <1>4, <1>5, <1>6 DEF Local, TwinRead, f

LEMMA AnswerTyped ==
    ASSUME SharingAssumption, RequestTypes, file # None => file \in Policies, NEW f \in Frames
    PROVE  /\ LoadChainPolicy(f) \in Answers /\ Stored(f) \in Answers
           /\ LoadChainPolicy(f).rev = None => LoadChainPolicy(f) = Denied
           /\ Stored(f).rev = None => Stored(f) = Denied
  <1>1. <<"chain", chain.rev>> \in Revs /\ chain.pol \in Names /\ <<"chain", chain.rev>> # None
    BY DEF RequestTypes, Twins, Revs, ChainRevs, Names, SharingAssumption
  <1>2. Denied \in Answers BY DEF Denied, Answers, Names
  <1>3. CASE file # None
    <2>1. file.rev \in Revs /\ file.p \in Names /\ file.rev # None
      BY <1>3 DEF Policies, Revs, Names, SharingAssumption
    <2> QED BY <1>1, <1>2, <2>1 DEF LoadChainPolicy, Stored, Answers
  <1>4. CASE file = None BY <1>1, <1>2, <1>4 DEF LoadChainPolicy, Stored, Answers
  <1> QED BY <1>3, <1>4

LEMMA ReadPolicyMoves ==
    ASSUME SharingAssumption, RequestTypes, UpdateInv, NEW r \in Requests, ReadPolicy(r)
    PROVE  Local(r) /\ PolicyRead(r)
  <1> DEFINE a == IF req[r].f.ver = 1 THEN Stored(req[r].f) ELSE LoadChainPolicy(req[r].f)
  <1>1. req[r].pc = "policy" /\ job' = job
        /\ req' = [req EXCEPT ![r].pc = "decide", ![r].f = None, ![r].ans = a]
    BY DEF ReadPolicy
  <1>2. req[r].f \in Frames BY <1>1 DEF RequestTypes, Typed
  <1>3. a \in Answers BY <1>2, AnswerTyped DEF UpdateInv, UpdateTypes
  <1>4. req \in [Requests -> Reqs] /\ job \in [Requests -> Jobs \cup {None}] BY DEF RequestTypes
  <1> HIDE DEF a
  <1>5. req' \in [Requests -> Reqs]
    <2> DEFINE g == [req EXCEPT ![r].pc = "decide"]
               h == [g EXCEPT ![r].f = None]
    <2>1. g \in [Requests -> Reqs] BY <1>4 DEF Reqs, Pcs
    <2> HIDE DEF g
    <2>2. h \in [Requests -> Reqs] BY <2>1 DEF Reqs
    <2>3. req' = [h EXCEPT ![r].ans = a] BY <1>1 DEF g
    <2> HIDE DEF h
    <2> QED BY <1>3, <2>2, <2>3 DEF Reqs
  <1>6. Same(r) /\ req'[r].out = req[r].out /\ req'[r].ans = a /\ req'[r].pc = "decide"
    BY <1>1, <1>4 DEF Same, Reqs
  <1> QED BY <1>1, <1>4, <1>5, <1>6 DEF Local, PolicyRead, a

LEMMA AnswerMoves ==
    ASSUME RequestTypes, NEW r \in Requests, NEW how \in {"sent", "done", "denied"}, NEW out \in SUBSET Data,
           Answer(r, how, out)
    PROVE  /\ req' \in [Requests -> Reqs] /\ \A q \in Requests \ {r} : req'[q] = req[q]
           /\ Same(r) /\ req'[r].pc = how /\ req'[r].out = out /\ req'[r].ans = Denied
  <1> DEFINE g == [req EXCEPT ![r].pc = how]
             h == [g EXCEPT ![r].out = out]
  <1>1. req \in [Requests -> Reqs] BY DEF RequestTypes
  <1>2. Denied \in Answers BY DEF Denied, Answers, Names
  <1>3. g \in [Requests -> Reqs] /\ g[r].pc = how /\ g[r].kind = req[r].kind /\ g[r].n = req[r].n
        /\ g[r].rev = req[r].rev /\ g[r].of = req[r].of /\ \A q \in Requests \ {r} : g[q] = req[q]
    BY <1>1 DEF Reqs, Pcs
  <1>4. req' = [h EXCEPT ![r].ans = Denied] BY DEF Answer
  <1> HIDE DEF g
  <1>5. h \in [Requests -> Reqs] /\ h[r].pc = how /\ h[r].kind = req[r].kind /\ h[r].n = req[r].n
        /\ h[r].rev = req[r].rev /\ h[r].of = req[r].of /\ h[r].out = out /\ \A q \in Requests \ {r} : h[q] = req[q]
    BY <1>3 DEF Reqs
  <1> HIDE DEF h
  <1> QED BY <1>2, <1>4, <1>5 DEF Reqs, Same

LEMMA LearnMoves ==
    ASSUME RequestTypes, NEW r \in Requests, Checking(req[r]), ~LastCheck(req[r]),
           req' = [req EXCEPT ![r] = Learn(req[r])]
    PROVE  /\ req' \in [Requests -> Reqs] /\ \A q \in Requests \ {r} : req'[q] = req[q]
           /\ req[r].n < Len(Checks[req[r].kind])
           /\ req'[r].pc = "twin" /\ req'[r].kind = req[r].kind /\ req'[r].of = req[r].of
              /\ req'[r].n = req[r].n + 1
           /\ req'[r].ans = Denied
           /\ req'[r].rev = IF req[r].n = 2 THEN req[r].ans.rev ELSE req[r].rev
           /\ req'[r].out = IF req[r].n = Len(Checks[req[r].kind]) - 1
                            THEN FilterPayload(req[r].ans.p, Scope(req[r])) ELSE req[r].out
  <1> DEFINE q == req[r]
             rv == IF q.n = 2 THEN q.ans.rev ELSE q.rev
             ot == IF q.n = Len(Checks[q.kind]) - 1 THEN FilterPayload(q.ans.p, Scope(q)) ELSE q.out
             q1 == [q EXCEPT !.rev = rv]
             q2 == [q1 EXCEPT !.out = ot]
             q3 == [q2 EXCEPT !.n = q.n + 1]
             q4 == [q3 EXCEPT !.pc = "twin"]
             q5 == [q4 EXCEPT !.ans = Denied]
  <1>1. req \in [Requests -> Reqs] /\ q \in Reqs /\ q.kind \in KindNames /\ q.n \in 1..Len(Checks[q.kind])
    BY DEF RequestTypes, Typed
  <1>2. Denied \in Answers BY DEF Denied, Answers, Names
  <1>3. q.n \in Nat /\ Len(Checks[q.kind]) \in Nat /\ q.n < Len(Checks[q.kind]) /\ q.n + 1 \in 0..4
    BY <1>1, CheckFacts DEF LastCheck
  <1>4. rv \in Revs \cup {None} BY <1>1 DEF Reqs, Answers
  <1>5. ot \in SUBSET Data BY <1>1, FilterTyped DEF Reqs
  <1>6. Learn(req[r]) = q5 BY <1>1 DEF Learn, Reqs
  <1> HIDE DEF q, rv, ot
  <1>7. q1 \in Reqs /\ q1.kind = q.kind /\ q1.of = q.of /\ q1.rev = rv /\ q1.n = q.n BY <1>1, <1>4 DEF Reqs
  <1> HIDE DEF q1
  <1>8. q2 \in Reqs /\ q2.kind = q.kind /\ q2.of = q.of /\ q2.rev = rv /\ q2.n = q.n /\ q2.out = ot
    BY <1>5, <1>7 DEF Reqs
  <1> HIDE DEF q2
  <1>9. q3 \in Reqs /\ q3.kind = q.kind /\ q3.of = q.of /\ q3.rev = rv /\ q3.n = q.n + 1 /\ q3.out = ot
    BY <1>3, <1>8 DEF Reqs
  <1> HIDE DEF q3
  <1>10. q4 \in Reqs /\ q4.kind = q.kind /\ q4.of = q.of /\ q4.rev = rv /\ q4.n = q.n + 1 /\ q4.out = ot
         /\ q4.pc = "twin"
    BY <1>9 DEF Reqs, Pcs
  <1> HIDE DEF q4
  <1>11. q5 \in Reqs /\ q5.kind = q.kind /\ q5.of = q.of /\ q5.rev = rv /\ q5.n = q.n + 1 /\ q5.out = ot
         /\ q5.pc = "twin"
         /\ q5.ans = Denied
    BY <1>2, <1>10 DEF Reqs
  <1> HIDE DEF q5
  <1>12. req' \in [Requests -> Reqs] /\ req'[r] = q5 /\ \A x \in Requests \ {r} : req'[x] = req[x]
    BY <1>1, <1>6, <1>11
  <1> QED BY <1>3, <1>11, <1>12 DEF q, rv, ot

LEMMA JobsUntouched == ASSUME RequestTypes, job' = job PROVE job' \in [Requests -> Jobs \cup {None}]
  BY DEF RequestTypes

LEMMA DenyMoves == ASSUME RequestTypes, NEW r \in Requests, Deny(r) PROVE Local(r) /\ Ended(r)
  <1>1. req[r].pc = "decide" /\ Answer(r, "denied", {}) BY DEF Deny, Decides
  <1>2. /\ req' \in [Requests -> Reqs] /\ \A q \in Requests \ {r} : req'[q] = req[q]
        /\ Same(r) /\ req'[r].pc = "denied" /\ req'[r].ans = Denied
    BY <1>1, AnswerMoves
  <1>3. job' = [job EXCEPT ![r] = IF job[r] = None THEN job[r] ELSE [job[r] EXCEPT !.pc = "failed"]]
    BY DEF Deny
  <1>4. job \in [Requests -> Jobs \cup {None}] BY DEF RequestTypes
  <1>5. job' \in [Requests -> Jobs \cup {None}] BY <1>3, <1>4 DEF Jobs
  <1>6. \A q \in Requests :
           \/ job'[q] = job[q]
           \/ q = r /\ job[r] # None /\ job'[r].pc = "failed" /\ job'[r].rev = job[r].rev
    BY <1>3, <1>4 DEF Jobs
  <1> QED BY <1>1, <1>2, <1>5, <1>6 DEF Local, Ended

LEMMA ContinueMoves == ASSUME RequestTypes, NEW r \in Requests, Continue(r) PROVE Local(r) /\ Learned(r)
  <1>1. /\ req[r].pc = "decide" /\ Allowed(r) /\ ~LastCheck(req[r]) /\ job' = job
        /\ <<req[r].kind, req[r].n>> \notin {<<"stream", 1>>, <<"export", 2>>}
        /\ req' = [req EXCEPT ![r] = Learn(req[r])]
    BY DEF Continue, Decides, Allowed
  <1>2. Checking(req[r]) BY <1>1 DEF Checking
  <1> QED BY <1>1, <1>2, LearnMoves, JobsUntouched DEF Local, Learned

LEMMA OpenStreamMoves == ASSUME RequestTypes, NEW r \in Requests, OpenStream(r) PROVE Local(r) /\ Opened(r)
  <1> DEFINE g == [req EXCEPT ![r].pc = "sent"]
             h == [g EXCEPT ![r].n = 2]
  <1>1. /\ req[r].pc = "decide" /\ req[r].kind = "stream" /\ req[r].n = 1 /\ job' = job
        /\ req' = [h EXCEPT ![r].ans = Denied]
    BY DEF OpenStream, Decides
  <1>2. req \in [Requests -> Reqs] /\ Denied \in Answers BY DEF RequestTypes, Denied, Answers, Names
  <1>3. g \in [Requests -> Reqs] /\ g[r].pc = "sent" /\ g[r].kind = req[r].kind /\ g[r].out = req[r].out
        /\ g[r].rev = req[r].rev /\ \A q \in Requests \ {r} : g[q] = req[q]
    BY <1>2 DEF Reqs, Pcs
  <1> HIDE DEF g
  <1>4. h \in [Requests -> Reqs] /\ h[r].pc = "sent" /\ h[r].kind = req[r].kind /\ h[r].out = req[r].out
        /\ h[r].rev = req[r].rev /\ h[r].n = 2 /\ \A q \in Requests \ {r} : h[q] = req[q]
    BY <1>3 DEF Reqs
  <1> HIDE DEF h
  <1>5. /\ req' \in [Requests -> Reqs] /\ req'[r].pc = "sent" /\ req'[r].kind = req[r].kind
        /\ req'[r].out = req[r].out /\ req'[r].rev = req[r].rev /\ req'[r].n = 2 /\ req'[r].ans = Denied
        /\ \A q \in Requests \ {r} : req'[q] = req[q]
    BY <1>1, <1>2, <1>4 DEF Reqs
  <1> QED BY <1>1, <1>5, JobsUntouched DEF Local, Opened

LEMMA EventMoves == ASSUME RequestTypes, NEW r \in Requests, Event(r) PROVE Local(r) /\ Resumed(r)
  <1> DEFINE g == [req EXCEPT ![r].pc = "twin"]
             h == [g EXCEPT ![r].n = 2]
             i == [h EXCEPT ![r].rev = None]
  <1>1. req[r].pc = "sent" /\ req[r].kind = "stream" /\ job' = job /\ req' = [i EXCEPT ![r].out = {}]
    BY DEF Event
  <1>2. req \in [Requests -> Reqs] BY DEF RequestTypes
  <1>3. g \in [Requests -> Reqs] /\ g[r].pc = "twin" /\ g[r].kind = req[r].kind /\ g[r].ans = req[r].ans
        /\ \A q \in Requests \ {r} : g[q] = req[q]
    BY <1>2 DEF Reqs, Pcs
  <1> HIDE DEF g
  <1>4. h \in [Requests -> Reqs] /\ h[r].pc = "twin" /\ h[r].kind = req[r].kind /\ h[r].ans = req[r].ans
        /\ h[r].n = 2 /\ \A q \in Requests \ {r} : h[q] = req[q]
    BY <1>3 DEF Reqs
  <1> HIDE DEF h
  <1>5. i \in [Requests -> Reqs] /\ i[r].pc = "twin" /\ i[r].kind = req[r].kind /\ i[r].ans = req[r].ans
        /\ i[r].n = 2 /\ i[r].rev = None /\ \A q \in Requests \ {r} : i[q] = req[q]
    BY <1>4 DEF Reqs
  <1> HIDE DEF i
  <1>6. /\ req' \in [Requests -> Reqs] /\ req'[r].pc = "twin" /\ req'[r].kind = req[r].kind
        /\ req'[r].ans = req[r].ans /\ req'[r].n = 2 /\ req'[r].rev = None /\ req'[r].out = {}
        /\ \A q \in Requests \ {r} : req'[q] = req[q]
    BY <1>1, <1>5 DEF Reqs
  <1> QED BY <1>1, <1>6, JobsUntouched DEF Local, Resumed

LEMMA HeartbeatMoves == ASSUME RequestTypes, NEW r \in Requests, Heartbeat(r) PROVE Local(r) /\ Sent(r)
  <1>1. Allowed(r) /\ Answer(r, "sent", {}) /\ job' = job BY DEF Heartbeat, Decides, Allowed
  <1> QED BY <1>1, AnswerMoves, JobsUntouched DEF Local, Sent

LEMMA DeliverMoves == ASSUME RequestTypes, NEW r \in Requests, Deliver(r) PROVE Local(r) /\ Sent(r)
  <1> DEFINE out == IF req[r].n = 3 THEN req[r].out ELSE FilterPayload(req[r].ans.p, Scope(req[r]))
  <1>1. /\ Allowed(r) /\ LastCheck(req[r]) /\ SameRevision(req[r]) /\ job' = job
        /\ req[r].kind \notin {"export", "download", "cancel"} /\ Answer(r, "sent", out)
    BY DEF Deliver, Decides, Allowed
  <1>2. out \in SUBSET Data BY FilterTyped DEF RequestTypes, Reqs
  <1>3. /\ req' \in [Requests -> Reqs] /\ \A q \in Requests \ {r} : req'[q] = req[q]
        /\ Same(r) /\ req'[r].pc = "sent" /\ req'[r].out = out /\ req'[r].ans = Denied
    BY <1>1, <1>2, AnswerMoves
  <1> QED BY <1>1, <1>3, JobsUntouched DEF Local, Sent

LEMMA CreateJobMoves ==
    ASSUME SharingAssumption, RequestTypes, NEW r \in Requests, CreateJob(r)
    PROVE  Local(r) /\ (Learned(r) \/ Ended(r))
  <1>1. Allowed(r) /\ req[r].pc = "decide" /\ req[r].kind = "export" /\ req[r].n = 2
    BY DEF CreateJob, Decides, Allowed
  <1>2. CASE Answer(r, "denied", {}) /\ job' = job
    <2>1. /\ req' \in [Requests -> Reqs] /\ \A q \in Requests \ {r} : req'[q] = req[q]
          /\ Same(r) /\ req'[r].pc = "denied" /\ req'[r].ans = Denied
      <3>1. Answer(r, "denied", {}) BY <1>2
      <3>2. {} \in SUBSET Data OBVIOUS
      <3>3. "denied" \in {"sent", "done", "denied"} OBVIOUS
      <3> QED BY <3>1, <3>2, <3>3, AnswerMoves, Zenon
    <2> QED BY <1>1, <1>2, <2>1, JobsUntouched DEF Local, Ended
  <1>3. CASE /\ job' = [job EXCEPT ![r] = [pc |-> "preparing", rev |-> req[r].ans.rev, out |-> {}]]
             /\ req' = [req EXCEPT ![r] = Learn(req[r])]
    <2>1. Checking(req[r]) /\ "export" \in KindNames BY <1>1 DEF Checking, KindNames
    <2>2. ~LastCheck(req[r]) BY <1>1, <2>1, CheckFacts DEF LastCheck
    <2>3. req[r].ans.rev \in Revs
      BY <1>1, DeniedMeansNothing DEF RequestTypes, Typed, Reqs, Answers, Allowed, Denied
    <2>4. job' \in [Requests -> Jobs \cup {None}] BY <1>3, <2>3 DEF RequestTypes, Jobs
    <2> QED BY <1>1, <1>3, <2>1, <2>2, <2>4, LearnMoves DEF Local, Learned
  <1> QED BY <1>2, <1>3 DEF CreateJob

LEMMA PreparedMoves == ASSUME RequestTypes, NEW r \in Requests, Prepared(r) PROVE Local(r) /\ Ended(r)
  <1>1. /\ Allowed(r) /\ req[r].pc = "decide" /\ req[r].kind = "export" /\ LastCheck(req[r])
        /\ SameRevision(req[r]) /\ job[r] # None /\ Answer(r, "done", {})
        /\ job' = [job EXCEPT ![r] = [pc |-> "ready", rev |-> job[r].rev, out |-> req[r].out]]
    BY DEF Prepared, Decides, Allowed
  <1>2. /\ req' \in [Requests -> Reqs] /\ \A q \in Requests \ {r} : req'[q] = req[q]
        /\ Same(r) /\ req'[r].pc = "done" /\ req'[r].ans = Denied
    BY <1>1, AnswerMoves
  <1>3. job \in [Requests -> Jobs \cup {None}] /\ req[r].out \in SUBSET Data BY DEF RequestTypes, Reqs
  <1>4. job' \in [Requests -> Jobs \cup {None}] BY <1>1, <1>3 DEF Jobs
  <1>5. /\ \A q \in Requests \ {r} : job'[q] = job[q]
        /\ job'[r].rev = job[r].rev /\ job'[r].out = req[r].out
    BY <1>1, <1>3
  <1> QED BY <1>1, <1>2, <1>4, <1>5 DEF Local, Ended

LEMMA DroppedMoves == ASSUME RequestTypes, NEW r \in Requests, Dropped(r) PROVE Local(r) /\ Ended(r)
  <1>1. req[r].pc = "decide" /\ Answer(r, "denied", {}) /\ job' = job BY DEF Dropped, Decides
  <1> QED BY <1>1, AnswerMoves, JobsUntouched DEF Local, Ended

LEMMA UseJobMoves ==
    ASSUME RequestTypes, NEW r \in Requests, UseJob(r) PROVE Local(r) /\ (Sent(r) \/ Ended(r))
  <1> DEFINE x == req[r].of
             j == job[x]
  <1>1. Allowed(r) /\ req[r].pc = "decide" /\ req[r].kind \in {"download", "cancel"} /\ LastCheck(req[r])
    BY DEF UseJob, Decides, Allowed
  <1>2. CASE Answer(r, "denied", {}) /\ job' = job
    BY <1>1, <1>2, AnswerMoves, JobsUntouched DEF Local, Ended
  <1>3. CASE Answer(r, "denied", {}) /\ job' = [job EXCEPT ![x] = None]
    <2>1. job' \in [Requests -> Jobs \cup {None}] /\ \A q \in Requests : job'[q] \in {job[q], None}
      BY <1>3 DEF RequestTypes
    <2> QED BY <1>1, <1>3, <2>1, AnswerMoves DEF Local, Ended
  <1>4. CASE /\ j # None /\ req[r].kind # "cancel" /\ j.rev = req[r].ans.rev
             /\ Answer(r, IF j.pc = "ready" THEN "sent" ELSE "denied", j.out) /\ job' = job
    <2>1. x \in Requests /\ j \in Jobs BY <1>1, <1>4 DEF RequestTypes, Typed, Reqs, Checking
    <2>2. j.out \in SUBSET Data BY <2>1 DEF Jobs
    <2> QED BY <1>1, <1>4, <2>1, <2>2, AnswerMoves, JobsUntouched DEF Local, Sent, Ended
  <1> QED BY <1>2, <1>3, <1>4 DEF UseJob

LEMMA ExpireMoves == ASSUME RequestTypes, NEW r \in Requests, Expire(r) PROVE Local(r) /\ Expired(r)
  BY DEF Expire, RequestTypes, Local, Expired

LEMMA LogInMoves == ASSUME RequestTypes, NEW r \in Requests, LogIn(r) PROVE Local(r) /\ Ended(r)
  <1>1. /\ req[r].pc = "decide" /\ job' = job
        /\ Answer(r, "done", {}) \/ Answer(r, "denied", {})
    BY DEF LogIn, Decides
  <1> QED BY <1>1, AnswerMoves, JobsUntouched DEF Local, Ended

Moved(r) ==
    Begun(r) \/ Passed(r) \/ TwinRead(r) \/ PolicyRead(r) \/ Learned(r) \/ Opened(r) \/ Resumed(r) \/ Sent(r)
    \/ Ended(r) \/ Expired(r)

LEMMA RequestMoves ==
    ASSUME SharingAssumption, RequestTypes, UpdateInv, RequestStep
    PROVE  /\ UNCHANGED <<chain, file, upd, queue, late, settled>>
           /\ \E r \in Requests : Local(r) /\ Moved(r)
  <1>1. UNCHANGED <<chain, file, upd, queue, late, settled>>
    BY DEF RequestStep, Begin, VerifyController, ReadTwin, ReadPolicy, Deny, Continue, OpenStream, Event,
           Heartbeat, Deliver, CreateJob, Prepared, Dropped, UseJob, Expire, LogIn, Decides
  <1>2. SUFFICES ASSUME NEW r \in Requests,
                        \/ \E k \in Kinds, j \in Requests : Begin(r, k, IF k \in {"download", "cancel"} THEN j ELSE None)
                        \/ VerifyController(r) \/ ReadTwin(r) \/ ReadPolicy(r) \/ Deny(r) \/ Continue(r)
                        \/ OpenStream(r) \/ Event(r) \/ Heartbeat(r) \/ Deliver(r)
                        \/ CreateJob(r) \/ Prepared(r) \/ Dropped(r) \/ UseJob(r) \/ Expire(r) \/ LogIn(r)
                 PROVE  Local(r) /\ Moved(r)
    BY <1>1 DEF RequestStep
  <1>3. ASSUME NEW k \in Kinds, NEW j \in Requests, Begin(r, k, IF k \in {"download", "cancel"} THEN j ELSE None)
        PROVE  Local(r) /\ Begun(r)
    <2>1. PICK i \in Requests \cup {None} : /\ i = IF k \in {"download", "cancel"} THEN j ELSE None
                                            /\ k \in {"download", "cancel"} => i \in Requests
      OBVIOUS
    <2>2. Begin(r, k, i) BY <1>3, <2>1
    <2> QED BY <2>1, <2>2, BeginMoves
  <1>4. CASE VerifyController(r) BY <1>4, VerifyMoves DEF Moved
  <1>5. CASE ReadTwin(r) BY <1>5, ReadTwinMoves DEF Moved
  <1>6. CASE ReadPolicy(r) BY <1>6, ReadPolicyMoves DEF Moved
  <1>7. CASE Deny(r) BY <1>7, DenyMoves DEF Moved
  <1>8. CASE Continue(r) BY <1>8, ContinueMoves DEF Moved
  <1>9. CASE OpenStream(r) BY <1>9, OpenStreamMoves DEF Moved
  <1>10. CASE Event(r) BY <1>10, EventMoves DEF Moved
  <1>11. CASE Heartbeat(r) BY <1>11, HeartbeatMoves DEF Moved
  <1>12. CASE Deliver(r) BY <1>12, DeliverMoves DEF Moved
  <1>13. CASE CreateJob(r) BY <1>13, CreateJobMoves DEF Moved
  <1>14. CASE Prepared(r) BY <1>14, PreparedMoves DEF Moved
  <1>15. CASE Dropped(r) BY <1>15, DroppedMoves DEF Moved
  <1>16. CASE UseJob(r) BY <1>16, UseJobMoves DEF Moved
  <1>17. CASE Expire(r) BY <1>17, ExpireMoves DEF Moved
  <1>18. CASE LogIn(r) BY <1>18, LogInMoves DEF Moved
  <1> QED BY <1>2, <1>3, <1>4, <1>5, <1>6, <1>7, <1>8, <1>9, <1>10, <1>11, <1>12, <1>13, <1>14, <1>15, <1>16,
             <1>17, <1>18 DEF Moved

-------------------------------------------------------------------------------
(* Types. *)
LEMMA LenTyped == \A k \in KindNames : Len(Checks[k]) \in 1..4
  <1> SUFFICES ASSUME NEW k \in KindNames PROVE Len(Checks[k]) \in 1..4 OBVIOUS
  <1>1. Len(Checks[k]) \in {1, 2, 3, 4} BY CheckFacts
  <1> QED BY <1>1

LEMMA MoveIsTyped ==
    ASSUME SharingAssumption, RequestTypes, UpdateInv, NEW r \in Requests, Local(r), Moved(r)
    PROVE  Typed(r)'
  <1>1. Typed(r) /\ req[r] \in Reqs /\ req'[r] \in Reqs BY DEF RequestTypes, Local
  <1>2. CASE Begun(r)
    <2>1. Len(Checks[req'[r].kind]) \in 1..4 BY <1>2, LenTyped DEF Begun
    <2>2. /\ req'[r].pc \in {"controller", "twin", "denied"} /\ req'[r].ans = Denied
          /\ req'[r].kind \in KindNames /\ req'[r].n = 1 /\ req'[r].rev = None /\ req'[r].out = {}
          /\ req'[r].pc = "controller" => req'[r].kind = "verify"
          /\ req'[r].kind \in {"download", "cancel"} => req'[r].of \in Requests
      BY <1>2 DEF Begun
    <2>3. 1 \in 1..Len(Checks[req'[r].kind])
      <3>1. \A n \in 1..4 : 1 \in 1..n OBVIOUS
      <3> QED BY <2>1, <3>1
    <2>4. Checking(req[r])' => req'[r].kind \in KindNames /\ req'[r].n \in 1..Len(Checks[req'[r].kind])
      BY <2>2, <2>3
    <2> QED BY <2>2, <2>4 DEF Typed, Checking
  <1>3. CASE Passed(r)
    <2>1. Len(Checks["verify"]) = 1 /\ "verify" \in KindNames BY CheckFacts DEF KindNames
    <2>2. req'[r].kind = "verify" /\ req'[r].n = 1 /\ req'[r].rev = None /\ req'[r].ans = Denied
      BY <1>1, <1>3 DEF Passed, Same, Typed
    <2>3. req'[r].out = req[r].out /\ req'[r].pc \in {"twin", "denied"} /\ req[r].pc = "controller"
      BY <1>3 DEF Passed
    <2>4. req[r].out = {} BY <1>1, <2>3 DEF Typed
    <2>5. Len(Checks[req'[r].kind]) = 1 /\ req'[r].kind \in KindNames BY <2>1, <2>2
    <2> QED BY <2>2, <2>3, <2>4, <2>5 DEF Typed, Checking
  <1>4. CASE TwinRead(r)
    <2>1. req'[r].f \in Frames BY <1>4 DEF TwinRead, RequestTypes, Twins, Frames
    <2> QED BY <1>1, <1>4, <2>1 DEF TwinRead, Same, Typed, Checking
  <1>5. CASE PolicyRead(r)
    <2>1. req[r].f \in Frames BY <1>1, <1>5 DEF PolicyRead, Typed
    <2>2. req'[r].ans.rev = None => req'[r].ans = Denied
      BY <1>5, <2>1, AnswerTyped DEF PolicyRead, UpdateInv, UpdateTypes
    <2> QED BY <1>1, <1>5, <2>2 DEF PolicyRead, Same, Typed, Checking
  <1>6. CASE Learned(r)
    <2>a. Checking(req[r]) BY <1>6 DEF Learned, Allowed, Checking
    <2>b. req[r].kind \in KindNames /\ req[r].n \in 1..Len(Checks[req[r].kind]) /\ req[r].n \in 0..4
      BY <1>1, <2>a DEF Typed, Reqs
    <2>1. req[r].kind \in KindNames /\ req[r].n \in 1..Len(Checks[req[r].kind]) /\ req[r].n \in 0..4
          /\ Len(Checks[req[r].kind]) \in 1..4
      BY <2>b, LenTyped
    <2>2. req'[r].n \in 1..Len(Checks[req'[r].kind]) /\ req'[r].n > 1 BY <1>6, <2>1 DEF Learned
    <2>3. req[r].ans.rev # None
      BY <1>1, <1>6, DeniedMeansNothing DEF Learned, Allowed, Typed, Denied
    <2>4. req'[r].n > 2 => req'[r].rev # None
      BY <1>1, <1>6, <2>1, <2>3 DEF Learned, Allowed, Typed, Checking
    <2>5. /\ req'[r].pc = "twin" /\ req'[r].ans = Denied /\ req'[r].kind \in KindNames
          /\ req'[r].kind = req[r].kind /\ req'[r].of = req[r].of
      BY <1>6, <2>1 DEF Learned
    <2>6. req'[r].kind \in {"download", "cancel"} => req'[r].of \in Requests BY <1>1, <2>a, <2>5 DEF Typed
    <2>7. req'[r].n \in Nat /\ req'[r].n > 1 BY <2>2, LenTyped, <2>5
    <2> QED BY <2>2, <2>4, <2>5, <2>6, <2>7 DEF Typed, Checking
  <1>7. CASE Opened(r) BY <1>1, <1>7 DEF Opened, Typed, Checking, Denied, KindNames
  <1>8. CASE Resumed(r)
    <2>1. Len(Checks["stream"]) = 3 /\ "stream" \in KindNames BY CheckFacts DEF KindNames
    <2> QED BY <1>1, <1>8, <2>1 DEF Resumed, Typed, Checking
  <1>9. CASE Sent(r) BY <1>1, <1>9 DEF Sent, Allowed, Same, Typed, Checking, Denied
  <1>10. CASE Ended(r) BY <1>1, <1>10 DEF Ended, Same, Typed, Checking, Denied
  <1>11. CASE Expired(r) BY <1>1, <1>11 DEF Expired, Typed
  <1> QED BY <1>2, <1>3, <1>4, <1>5, <1>6, <1>7, <1>8, <1>9, <1>10, <1>11 DEF Moved

LEMMA RequestStepIsTyped ==
    ASSUME SharingAssumption, RequestTypes, UpdateInv, RequestStep PROVE RequestTypes'
  <1>1. UNCHANGED <<chain, late>> BY RequestMoves
  <1>2. PICK r \in Requests : Local(r) /\ Moved(r) BY RequestMoves
  <1>3. Typed(r)' BY <1>2, MoveIsTyped
  <1>4. ASSUME NEW q \in Requests \ {r} PROVE Typed(q)'
    <2>1. req'[q] = req[q] /\ Typed(q) BY <1>2 DEF Local, RequestTypes
    <2> QED BY <2>1 DEF Typed
  <1> QED BY <1>1, <1>2, <1>3, <1>4 DEF RequestTypes, Local

(* A revocation closes streams and forgets exports. *)
LEMMA RevokeMoves ==
    ASSUME RequestTypes, Revoke
    PROVE  /\ req' \in [Requests -> Reqs] /\ \A r \in Requests : job'[r] = None
           /\ \A r \in Requests :
                 \/ req'[r] = req[r] /\ ~(req[r].kind = "stream" /\ req[r].n > 1)
                 \/ /\ req[r].kind = "stream" /\ req[r].n > 1 /\ req'[r].pc = "closed"
                    /\ req'[r] = [req[r] EXCEPT !.pc = "closed"]
                    /\ Same(r) /\ req'[r].ans = req[r].ans
           /\ UNCHANGED <<chain, late>> => RequestTypes'
  <1>1. req \in [Requests -> Reqs] BY DEF RequestTypes
  <1>2. \A r \in Requests : [req[r] EXCEPT !.pc = "closed"] \in Reqs BY <1>1 DEF Reqs, Pcs
  <1>3. req' \in [Requests -> Reqs] BY <1>1, <1>2 DEF Revoke
  <1>4. ASSUME NEW r \in Requests
        PROVE  \/ req'[r] = req[r] /\ ~(req[r].kind = "stream" /\ req[r].n > 1)
               \/ /\ req[r].kind = "stream" /\ req[r].n > 1 /\ req'[r].pc = "closed"
                  /\ req'[r] = [req[r] EXCEPT !.pc = "closed"]
                  /\ Same(r) /\ req'[r].ans = req[r].ans
    BY <1>1 DEF Revoke, Same, Reqs
  <1>5. \A r \in Requests : job'[r] = None BY DEF Revoke
  <1>6. job' \in [Requests -> Jobs \cup {None}] BY DEF Revoke
  <1>7. ASSUME NEW r \in Requests PROVE Typed(r)'
    <2>1. Typed(r) BY DEF RequestTypes
    <2>2. CASE req'[r] = req[r] BY <2>1, <2>2 DEF Typed
    <2>3. CASE /\ req[r].kind = "stream" /\ req[r].n > 1 /\ req'[r].pc = "closed"
               /\ Same(r) /\ req'[r].ans = req[r].ans
      BY <2>1, <2>3 DEF Typed, Same, Checking
    <2> QED BY <1>4, <2>2, <2>3
  <1> QED BY <1>3, <1>4, <1>5, <1>6, <1>7 DEF RequestTypes

LEMMA CrashMoves ==
    ASSUME RequestTypes, Crash
    PROVE  /\ req' \in [Requests -> Reqs] /\ \A r \in Requests : job'[r] = None
           /\ \A r \in Requests :
                 /\ req'[r].pc \in {"idle", "denied"} /\ req'[r].kind = None /\ req'[r].n = 0
                 /\ req'[r].ans = Denied /\ req'[r].rev = None
           /\ job' \in [Requests -> Jobs \cup {None}]
  <1>1. req \in [Requests -> Reqs] /\ job' = [r \in Requests |-> None]
        /\ req' = [r \in Requests |-> IF req[r].pc = "idle" THEN req[r] ELSE [Idle EXCEPT !.pc = "denied"]]
    BY DEF RequestTypes, Crash
  <1> DEFINE d == [Idle EXCEPT !.pc = "denied"]
  <1>2. Idle \in Reqs /\ Idle.kind = None /\ Idle.n = 0 /\ Idle.ans = Denied /\ Idle.rev = None
    <2>1. Denied \in Answers BY DEF Denied, Answers, Names
    <2> QED BY <2>1 DEF Idle, Reqs, Pcs
  <1>3. d \in Reqs /\ d.pc = "denied" /\ d.kind = None /\ d.n = 0 /\ d.ans = Denied /\ d.rev = None
    BY <1>2 DEF Reqs, Pcs
  <1> HIDE DEF d
  <1>4. req' = [r \in Requests |-> IF req[r].pc = "idle" THEN req[r] ELSE d] BY <1>1 DEF d
  <1>5. req' \in [Requests -> Reqs] BY <1>1, <1>3, <1>4
  <1>6. ASSUME NEW r \in Requests
        PROVE  /\ req'[r].pc \in {"idle", "denied"} /\ req'[r].kind = None /\ req'[r].n = 0
               /\ req'[r].ans = Denied /\ req'[r].rev = None
    <2>1. CASE req[r].pc = "idle"
      <3>1. Typed(r) /\ req'[r] = req[r] BY <1>4, <2>1 DEF RequestTypes
      <3> QED BY <2>1, <3>1 DEF Typed
    <2>2. CASE req[r].pc # "idle" BY <1>3, <1>4, <2>2
    <2> QED BY <2>1, <2>2
  <1> QED BY <1>1, <1>5, <1>6

LEMMA ModeTyped == ASSUME NEW w PROVE Mode(w) \in Modes
  BY DEF Mode, Modes

LEMMA ChainIsTyped ==
    ASSUME SharingAssumption, RequestTypes, UNCHANGED <<req, job>>,
           OthersTransact \/ Land \/ (\E w \in Wants : chain' = [chain EXCEPT !.vis = Mode(w)] /\ late' = late)
           \/ (chain' = chain /\ late' \in {late} \cup Modes)
    PROVE  RequestTypes' /\ chain' \in Twins
  <1>1. chain \in Twins /\ (late # None => late \in Modes) BY DEF RequestTypes
  <1>2. CASE OthersTransact
    <2>1. chain.rev \in 0..MaxChain /\ chain.rev + 1 \in 0..MaxChain
      <3>1. chain.rev \in 0..MaxChain BY <1>1 DEF Twins
      <3>2. chain.rev < MaxChain BY <1>2 DEF OthersTransact
      <3>3. MaxChain \in Nat BY DEF SharingAssumption
      <3> QED BY <3>1, <3>2, <3>3
    <2> DEFINE c == [chain EXCEPT !.rev = chain.rev + 1]
    <2>2. c \in Twins BY <1>1, <2>1 DEF Twins
    <2>3. late' = late BY <1>2 DEF OthersTransact
    <2>4. \/ \E g \in Grants : chain' = [c EXCEPT !.ver = 2, !.pol = g, !.polOwner = chain.owner]
          \/ chain' = [c EXCEPT !.vis = "private"]
          \/ \E o \in Owners : chain' = [c EXCEPT !.owner = o]
          \/ chain' = [c EXCEPT !.ver = 0]
      BY <1>2 DEF OthersTransact
    <2>5. chain.owner \in Owners BY <1>1 DEF Twins
    <2> HIDE DEF c
    <2>6. ASSUME \E g \in Grants : chain' = [c EXCEPT !.ver = 2, !.pol = g, !.polOwner = chain.owner]
          PROVE  chain' \in Twins
      <3>1. PICK g \in Grants : chain' = [c EXCEPT !.ver = 2, !.pol = g, !.polOwner = chain.owner] BY <2>6
      <3> DEFINE d == [c EXCEPT !.ver = 2]
                 e == [d EXCEPT !.pol = g]
      <3>2. d \in Twins BY <2>2 DEF Twins
      <3> HIDE DEF d
      <3>3. e \in Twins BY <3>2 DEF Twins
      <3>4. chain' = [e EXCEPT !.polOwner = chain.owner] BY <3>1 DEF d
      <3> HIDE DEF e
      <3>5. [e EXCEPT !.polOwner = chain.owner] \in Twins BY <2>5, <3>3 DEF Twins
      <3> QED BY <3>4, <3>5
    <2>7. [c EXCEPT !.vis = "private"] \in Twins BY <2>2 DEF Twins, Modes
    <2>8. \A o \in Owners : [c EXCEPT !.owner = o] \in Twins BY <2>2 DEF Twins
    <2>9. [c EXCEPT !.ver = 0] \in Twins BY <2>2 DEF Twins
    <2>10. chain' \in Twins BY <2>4, <2>6, <2>7, <2>8, <2>9
    <2> QED BY <1>1, <2>3, <2>10 DEF RequestTypes, Typed
  <1>3. CASE Land
    <2>1. chain' = [chain EXCEPT !.vis = late] /\ late # None /\ late' = None BY <1>3 DEF Land
    <2>2. chain' \in Twins BY <1>1, <2>1 DEF Twins
    <2> QED BY <2>1, <2>2 DEF RequestTypes, Typed
  <1>4. CASE \E w \in Wants : chain' = [chain EXCEPT !.vis = Mode(w)] /\ late' = late
    <2>1. chain' \in Twins BY <1>1, <1>4, ModeTyped DEF Twins
    <2> QED BY <1>1, <1>4, <2>1 DEF RequestTypes, Typed
  <1>5. CASE chain' = chain /\ late' \in {late} \cup Modes BY <1>1, <1>5 DEF RequestTypes, Typed
  <1> QED BY <1>2, <1>3, <1>4, <1>5

LEMMA UpdateStepIsTyped ==
    ASSUME SharingAssumption, RequestTypes, UpdateInv, UpdateStep PROVE RequestTypes'
  <1>1. SUFFICES ASSUME NEW u \in Updates,
                        \/ \E by \in Owners, w \in Wants : Submit(u, by, w)
                        \/ Manage(u) \/ CompareRevision(u) \/ ClosePolicy(u) \/ Announce(u)
                        \/ Confirmed(u) \/ Unconfirmed(u) \/ OpenPolicy(u)
                 PROVE  RequestTypes'
    BY DEF UpdateStep
  <1>2. CASE \/ \E by \in Owners, w \in Wants : Submit(u, by, w)
             \/ Manage(u) \/ CompareRevision(u) \/ ClosePolicy(u) \/ OpenPolicy(u)
    <2>1. UNCHANGED <<chain, late, req, job>>
      BY <1>2 DEF Submit, Manage, CompareRevision, ClosePolicy, OpenPolicy, Rename
    <2> QED BY <2>1, ChainIsTyped
  <1>3. CASE Announce(u)
    <2>1. Revoke /\ UNCHANGED <<chain, late>> BY <1>3 DEF Announce
    <2> QED BY <2>1, RevokeMoves
  <1>4. CASE Confirmed(u)
    <2>1. UNCHANGED <<req, job, late>> /\ chain' = [chain EXCEPT !.vis = Mode(upd[u].want)] BY <1>4 DEF Confirmed
    <2>2. upd[u].want \in Wants BY <1>4, WorkerIsFirst DEF Confirmed, Working
    <2> QED BY <2>1, <2>2, ChainIsTyped
  <1>5. CASE Unconfirmed(u)
    <2>1. /\ UNCHANGED <<req, job>>
          /\ \/ chain' = [chain EXCEPT !.vis = Mode(upd[u].want)] /\ late' = late
             \/ chain' = chain /\ late' \in {late, Mode(upd[u].want)}
      BY <1>5 DEF Unconfirmed
    <2>2. upd[u].want \in Wants BY <1>5, WorkerIsFirst DEF Unconfirmed, Working
    <2> QED BY <2>1, <2>2, ModeTyped, ChainIsTyped
  <1> QED BY <1>1, <1>2, <1>3, <1>4, <1>5

LEMMA CrashIsTyped == ASSUME SharingAssumption, RequestTypes, Crash PROVE RequestTypes'
  <1>1. chain' = chain /\ late' \in {late} \cup {Mode(upd[u].want) : u \in {v \in Updates : upd[v].pc = "closed"}}
    BY DEF Crash
  <1>2. late' # None => late' \in Modes BY <1>1, ModeTyped DEF RequestTypes
  <1>3. ASSUME NEW r \in Requests PROVE Typed(r)'
    <2>1. /\ req'[r].pc \in {"idle", "denied"} /\ req'[r].kind = None /\ req'[r].n = 0
          /\ req'[r].ans = Denied /\ req'[r].rev = None
      BY CrashMoves
    <2> QED BY <2>1 DEF Typed, Checking
  <1> QED BY <1>1, <1>2, <1>3, CrashMoves DEF RequestTypes

LEMMA TypesNext ==
    ASSUME SharingAssumption, RequestTypes, UpdateInv, [Next]_vars PROVE RequestTypes'
  <1>1. CASE UpdateStep BY <1>1, UpdateStepIsTyped
  <1>2. CASE RequestStep BY <1>2, RequestStepIsTyped
  <1>3. CASE OthersTransact
    <2>1. UNCHANGED <<req, job>> BY <1>3 DEF OthersTransact
    <2> QED BY <1>3, <2>1, ChainIsTyped
  <1>4. CASE Land
    <2>1. UNCHANGED <<req, job>> BY <1>4 DEF Land
    <2> QED BY <1>4, <2>1, ChainIsTyped
  <1>5. CASE LoginExpires \/ UNCHANGED vars
    <2>1. UNCHANGED <<chain, late, req, job>> BY <1>5 DEF LoginExpires, vars
    <2> QED BY <2>1, ChainIsTyped
  <1>6. CASE Crash BY <1>6, CrashIsTyped
  <1> QED BY <1>1, <1>2, <1>3, <1>4, <1>5, <1>6 DEF Next

LEMMA TypesInit == ASSUME SharingAssumption, Init PROVE RequestTypes
  <1>1. /\ chain \in [ver : {1, 2}, vis : {"private", "restricted"}, owner : Owners, pol : Grants,
                      polOwner : Owners, rev : {0}]
        /\ late = None /\ req = [r \in Requests |-> Idle] /\ job = [r \in Requests |-> None]
    BY DEF Init
  <1>2. chain \in Twins
    <2>1. 0 \in 0..MaxChain BY DEF SharingAssumption
    <2> QED BY <1>1, <2>1 DEF Twins, Modes
  <1>3. Idle \in Reqs /\ Idle.kind = None /\ Idle.n = 0 /\ Idle.ans = Denied /\ Idle.rev = None /\ Idle.pc = "idle"
    <2>1. Denied \in Answers BY DEF Denied, Answers, Names
    <2> QED BY <2>1 DEF Idle, Reqs, Pcs
  <1>4. ASSUME NEW r \in Requests PROVE Typed(r)
    <2>1. req[r] = Idle BY <1>1
    <2> QED BY <1>3, <2>1 DEF Typed, Checking
  <1> QED BY <1>1, <1>2, <1>3, <1>4 DEF RequestTypes

-------------------------------------------------------------------------------
(* What a change of the file has to revoke is of the revision in the file, *)
(* unless a change is just being announced.                                *)
Announcing == \E u \in Updates : upd[u].pc \in {"closing", "opening"}
InForce == file # None /\ ~file.pending
Current(rev) == rev \in Updates => InForce /\ file.rev = rev
Preparing(r) == req[r].kind = "export" /\ req[r].n > 2 /\ Checking(req[r]) /\ job[r] # None

Fresh(r) ==
    /\ req[r].kind = "stream" /\ req[r].pc \notin {"denied", "closed"} =>
          Current(req[r].rev) /\ (req[r].n > 1 => Current(req[r].ans.rev))
    /\ Preparing(r) => Current(req[r].ans.rev)
    /\ job[r] # None /\ job[r].pc = "ready" => Current(job[r].rev)

Revocable ==
    \A r \in Requests :
        /\ Preparing(r) => job[r].rev = req[r].rev
        /\ ~Announcing => Fresh(r)

LEMMA OutsideUpdates ==
    ASSUME SharingAssumption PROVE None \notin Updates /\ Updates \cap ChainRevs = {}
  BY DEF SharingAssumption, ChainRevs

LEMMA AnswersAreCurrent ==
    ASSUME SharingAssumption, RequestTypes, NEW f
    PROVE  Current(Stored(f).rev) /\ Current(LoadChainPolicy(f).rev)
  <1>1. LoadChainPolicy(f).rev \in ChainRevs \cup {None}
    <2>1. <<"chain", chain.rev>> \in ChainRevs BY DEF RequestTypes, Twins, ChainRevs
    <2> QED BY <2>1 DEF LoadChainPolicy, Denied
  <1>2. Stored(f).rev = None \/ (InForce /\ Stored(f).rev = file.rev) BY DEF Stored, InForce, Denied
  <1> QED BY <1>1, <1>2, OutsideUpdates DEF Current

LEMMA MoveIsRevocable ==
    ASSUME SharingAssumption, RequestTypes, Revocable, NEW r \in Requests, Local(r), Moved(r),
           UNCHANGED <<file, upd>>
    PROVE  Revocable'
  <1>1. /\ \A rev : Current(rev)' = Current(rev)
        /\ Announcing' = Announcing
    BY DEF Current, InForce, Announcing
  <1>2. ASSUME NEW q \in Requests \ {r}
        PROVE  (Preparing(q) => job[q].rev = req[q].rev)' /\ (~Announcing => Fresh(q))'
    <2>1. req'[q] = req[q] BY DEF Local
    <2>2. job'[q] \in {job[q], None}
      <3>1. CASE Learned(r) BY <3>1 DEF Learned, RequestTypes
      <3>2. CASE ~Learned(r)
        BY <3>2 DEF Moved, Begun, Passed, TwinRead, PolicyRead, Opened, Resumed, Sent, Ended, Expired
      <3> QED BY <3>1, <3>2
    <2> QED BY <1>1, <2>1, <2>2 DEF Revocable, Fresh, Preparing, Checking
  <1>3. Typed(r) /\ req[r] \in Reqs /\ req'[r] \in Reqs BY DEF RequestTypes, Local
  <1>4. (Preparing(r) => job[r].rev = req[r].rev) /\ (~Announcing => Fresh(r)) BY DEF Revocable
  <1>5. Current(None) BY OutsideUpdates DEF Current
  <1>6. (Preparing(r) => job[r].rev = req[r].rev)' /\ (~Announcing => Fresh(r))'
    <2>1. CASE Begun(r)
      BY <1>1, <1>3, <1>4, <1>5, <2>1 DEF Begun, Fresh, Preparing, Checking, Denied
    <2>2. CASE Passed(r)
      BY <1>1, <1>3, <1>4, <1>5, <2>2 DEF Passed, Same, Fresh, Preparing, Checking, Typed
    <2>3. CASE TwinRead(r)
      BY <1>1, <1>3, <1>4, <1>5, <2>3 DEF TwinRead, Same, Fresh, Preparing, Checking
    <2>4. CASE PolicyRead(r)
      <3>1. Current(req'[r].ans.rev) BY <2>4, AnswersAreCurrent DEF PolicyRead
      <3> QED BY <1>1, <1>3, <1>4, <2>4, <3>1 DEF PolicyRead, Same, Fresh, Preparing, Checking
    <2>5. CASE Learned(r)
      <3>1. req'[r].ans.rev = None /\ req'[r].pc = "twin" BY <2>5 DEF Learned, Denied
      <3>2. CASE req[r].kind = "export" /\ req[r].n = 2
        <4>1. job'[r] = [pc |-> "preparing", rev |-> req[r].ans.rev, out |-> {}]
          BY <2>5, <3>2 DEF Learned, RequestTypes
        <4>2. req'[r].rev = req[r].ans.rev /\ req'[r].kind = "export" BY <2>5, <3>2 DEF Learned
        <4> QED BY <1>1, <1>5, <3>1, <4>1, <4>2 DEF Fresh, Preparing
      <3>3. CASE ~(req[r].kind = "export" /\ req[r].n = 2)
        <4>1. job' = job /\ req'[r].kind = req[r].kind /\ req'[r].n = req[r].n + 1 /\ req[r].pc = "decide"
          BY <2>5, <3>3 DEF Learned, Allowed
        <4>2. req[r].kind = "stream" => req[r].n > 1
          BY <1>3, <2>5, <4>1 DEF Learned, Typed, Checking, Reqs
        <4>3. req[r].kind = "stream" /\ ~Announcing => Current(req'[r].rev)
          BY <1>4, <2>5, <4>1, <4>2 DEF Learned, Fresh
        <4>4. req[r].kind = "export" /\ req'[r].n > 2 => req[r].n > 2 /\ req'[r].rev = req[r].rev
          BY <1>3, <2>5, <3>3, <4>1 DEF Learned, Reqs
        <4> QED BY <1>1, <1>4, <1>5, <3>1, <4>1, <4>3, <4>4 DEF Fresh, Preparing, Checking
      <3> QED BY <3>2, <3>3
    <2>6. CASE Opened(r)
      BY <1>1, <1>3, <1>4, <1>5, <2>6 DEF Opened, Fresh, Preparing, Checking, Denied
    <2>7. CASE Resumed(r)
      BY <1>1, <1>3, <1>4, <1>5, <2>7 DEF Resumed, Fresh, Preparing, Checking, Typed, Denied
    <2>8. CASE Sent(r)
      BY <1>1, <1>3, <1>4, <1>5, <2>8 DEF Sent, Allowed, Same, Fresh, Preparing, Checking, Denied
    <2>9. CASE Ended(r)
      <3>1. ~Checking(req[r])' /\ req'[r].ans.rev = None /\ Same(r) /\ req[r].pc = "decide"
        BY <2>9 DEF Ended, Checking, Denied
      <3>2. CASE job'[r] \in {job[r], None}
        BY <1>1, <1>3, <1>4, <1>5, <3>1, <3>2 DEF Same, Fresh, Preparing, Checking
      <3>3. CASE job'[r].pc = "failed"
        BY <1>1, <1>3, <1>4, <1>5, <3>1, <3>3 DEF Same, Fresh, Preparing, Checking
      <3>4. CASE /\ req[r].kind = "export" /\ LastCheck(req[r]) /\ SameRevision(req[r])
                 /\ job[r] # None /\ job'[r].rev = job[r].rev
        <4>1. Len(Checks[req[r].kind]) = 4 BY <3>4, CheckFacts DEF KindNames
        <4>2. req[r].n = 4 /\ req[r].ans.rev = req[r].rev BY <3>4, <4>1 DEF LastCheck, SameRevision
        <4>3. Preparing(r) BY <3>1, <3>4, <4>2 DEF Preparing, Checking
        <4>4. ~Announcing => Current(job'[r].rev) BY <1>4, <3>4, <4>2, <4>3 DEF Fresh
        <4> QED BY <1>1, <1>4, <1>5, <3>1, <3>4, <4>4 DEF Same, Fresh, Preparing, Checking
      <3> QED BY <2>9, <3>2, <3>3, <3>4 DEF Ended
    <2>10. CASE Expired(r)
      BY <1>1, <1>3, <1>4, <1>5, <2>10 DEF Expired, Fresh, Preparing, Checking
    <2> QED BY <2>1, <2>2, <2>3, <2>4, <2>5, <2>6, <2>7, <2>8, <2>9, <2>10 DEF Moved
  <1> QED BY <1>2, <1>6 DEF Revocable

(* A dialog's other steps: an announcement under way stays under way. *)
LEMMA DialogIsRevocable ==
    ASSUME Revocable, UNCHANGED <<req, job>>, UNCHANGED file \/ Announcing',
           \A v \in Updates : upd[v].pc \in {"closing", "opening"} => upd'[v] = upd[v]
    PROVE  Revocable'
  <1>1. Announcing => Announcing' BY DEF Announcing
  <1> QED BY <1>1 DEF Revocable, Fresh, Preparing, Checking, Current, InForce

LEMMA RevokeIsRevocable ==
    ASSUME SharingAssumption, RequestTypes, Revoke PROVE Revocable'
  <1> SUFFICES ASSUME NEW r \in Requests
               PROVE  (Preparing(r) => job[r].rev = req[r].rev)' /\ Fresh(r)'
    BY DEF Revocable
  <1>1. job'[r] = None BY RevokeMoves
  <1>2. Current(None)' BY OutsideUpdates DEF Current
  <1>3. CASE req'[r] = req[r] /\ ~(req[r].kind = "stream" /\ req[r].n > 1)
    <2>1. req'[r].kind = "stream" => req'[r].n <= 1
      BY <1>3 DEF RequestTypes, Reqs
    <2>2. req'[r].n <= 1 => req'[r].rev = None BY <1>3 DEF RequestTypes, Typed
    <2>3. req'[r].n \in 0..4 BY <1>3 DEF RequestTypes, Reqs
    <2> QED BY <1>1, <1>2, <2>1, <2>2, <2>3 DEF Fresh, Preparing
  <1>4. CASE req'[r].pc = "closed" BY <1>1, <1>4 DEF Fresh, Preparing
  <1> QED BY <1>3, <1>4, RevokeMoves

LEMMA UpdateStepIsRevocable ==
    ASSUME SharingAssumption, RequestTypes, UpdateInv, Revocable, UpdateStep PROVE Revocable'
  <1>1. SUFFICES ASSUME NEW u \in Updates,
                        \/ \E by \in Owners, w \in Wants : Submit(u, by, w)
                        \/ Manage(u) \/ CompareRevision(u) \/ ClosePolicy(u) \/ Announce(u)
                        \/ Confirmed(u) \/ Unconfirmed(u) \/ OpenPolicy(u)
                 PROVE  Revocable'
    BY DEF UpdateStep
  <1>2. upd \in [Updates -> Dialogs] BY DEF UpdateInv, UpdateTypes
  <1>3. CASE \/ \E by \in Owners, w \in Wants : Submit(u, by, w)
             \/ Manage(u) \/ CompareRevision(u) \/ Confirmed(u) \/ Unconfirmed(u)
    <2>1. UNCHANGED <<req, job, file>> /\ upd[u].pc \notin {"closing", "opening"}
      BY <1>3 DEF Submit, Manage, Turn, CompareRevision, Confirmed, Unconfirmed
    <2>2. \A v \in Updates \ {u} : upd'[v] = upd[v]
      BY <1>2, <1>3 DEF Submit, Manage, CompareRevision, Confirmed, Unconfirmed, End
    <2> QED BY <2>1, <2>2, DialogIsRevocable
  <1>4. CASE ClosePolicy(u) \/ OpenPolicy(u)
    <2>1. PICK from \in {"compared", "confirmed"}, to \in {"closing", "opening"} :
             UNCHANGED <<req, job>> /\ upd[u].pc = from /\ upd' = [upd EXCEPT ![u].pc = to]
      BY <1>4 DEF ClosePolicy, OpenPolicy, Rename
    <2>2. upd'[u].pc = to /\ \A v \in Updates \ {u} : upd'[v] = upd[v] BY <1>2, <2>1 DEF Dialogs
    <2>3. Announcing' BY <2>2 DEF Announcing
    <2> QED BY <2>1, <2>2, <2>3, DialogIsRevocable
  <1>5. CASE Announce(u) BY <1>5, RevokeIsRevocable DEF Announce
  <1> QED BY <1>1, <1>3, <1>4, <1>5

LEMMA CrashIsRevocable == ASSUME SharingAssumption, RequestTypes, Crash PROVE Revocable'
  <1> SUFFICES ASSUME NEW r \in Requests
               PROVE  (Preparing(r) => job[r].rev = req[r].rev)' /\ Fresh(r)'
    BY DEF Revocable
  <1>1. /\ job'[r] = None /\ req'[r].pc \in {"idle", "denied"} /\ req'[r].n = 0 /\ req'[r].rev = None
    BY CrashMoves
  <1>2. Current(None)' BY OutsideUpdates DEF Current
  <1> QED BY <1>1, <1>2 DEF Fresh, Preparing

LEMMA RevocableNext ==
    ASSUME SharingAssumption, RequestTypes, UpdateInv, Revocable, [Next]_vars PROVE Revocable'
  <1>1. CASE UpdateStep BY <1>1, UpdateStepIsRevocable
  <1>2. CASE RequestStep
    <2>1. PICK r \in Requests : Local(r) /\ Moved(r) BY <1>2, RequestMoves
    <2>2. UNCHANGED <<file, upd>> BY <1>2, RequestMoves
    <2> QED BY <2>1, <2>2, MoveIsRevocable
  <1>3. CASE OthersTransact \/ Land \/ LoginExpires \/ UNCHANGED vars
    <2>1. UNCHANGED <<file, upd, req, job>> BY <1>3 DEF OthersTransact, Land, LoginExpires, vars
    <2> QED BY <2>1, DialogIsRevocable
  <1>4. CASE Crash BY <1>4, CrashIsRevocable
  <1> QED BY <1>1, <1>2, <1>3, <1>4 DEF Next

LEMMA RevocableInit == ASSUME SharingAssumption, Init PROVE Revocable
  <1>1. req = [r \in Requests |-> Idle] /\ job = [r \in Requests |-> None] BY DEF Init
  <1>2. Idle.n = 0 /\ Idle.rev = None /\ Current(None) BY OutsideUpdates DEF Idle, Current
  <1> QED BY <1>1, <1>2 DEF Revocable, Fresh, Preparing

(* Types and revocation, of every reachable state. *)
THEOREM RevocationInvariance == Spec => [](UpdateInv /\ RequestTypes /\ Revocable)
  <1>1. Init => UpdateInv /\ RequestTypes /\ Revocable
    BY UpdateInit, TypesInit, RevocableInit, SharingAssumption
  <1>2. UpdateInv /\ RequestTypes /\ Revocable /\ [Next]_vars => (UpdateInv /\ RequestTypes /\ Revocable)'
    BY UpdateNext, TypesNext, RevocableNext, SharingAssumption
  <1> QED BY <1>1, <1>2, PTL DEF Spec

(* Once a change of the policy file has been announced, no stream that an  *)
(* earlier revision let in is open, and no archive prepared under one can  *)
(* be downloaded: however the checks of the requests fall between the      *)
(* rename of the file and its announcement.                                *)
THEOREM NoStaleAccess == Spec => []RevokedTogether
  <1>1. Revocable => RevokedTogether
    BY DEF Revocable, RevokedTogether, Announcing, Fresh, Current, InForce
  <1> QED BY <1>1, RevocationInvariance, PTL

-------------------------------------------------------------------------------
(* A revision is used for the first time after its policy is in force. *)
ChainRev == <<"chain", chain.rev>>
Used(r, rev) == req[r].ans.rev = rev \/ req[r].rev = rev \/ (job[r] # None /\ job[r].rev = rev)

Unused ==
    \A r \in Requests :
        /\ \A u \in Updates : upd[u].pc \in Before \cup Closed => ~Used(r, u)
        /\ \A k \in 0..MaxChain : k > chain.rev => ~Used(r, <<"chain", k>>)

(* A Twin once migrated is governed by the chain. *)
Migrated ==
    \A r \in Requests :
        /\ req[r].pc = "policy" /\ req[r].f.ver # 1 => chain.ver # 1
        /\ req[r].ans.rev \notin Updates \cup {None} => chain.ver # 1
        /\ Checking(req[r]) /\ req[r].rev \notin Updates \cup {None} =>
              chain.ver # 1 /\ (req[r].pc = "policy" => req[r].f.ver # 1)

LEMMA AnswerFrom ==
    ASSUME SharingAssumption, NEW f, NEW a, a = IF f.ver = 1 THEN Stored(f) ELSE LoadChainPolicy(f)
    PROVE  \/ a.rev = None
           \/ /\ f.ver = 1 /\ InForce /\ a.rev = file.rev /\ a.p = file.p /\ Mode(file.p) = "restricted"
              /\ f.vis = "restricted" /\ file.owner = f.owner
           \/ f.ver = 2 /\ a.rev = ChainRev /\ a.p = chain.pol /\ chain.polOwner = f.owner
  BY DEF Stored, LoadChainPolicy, Denied, InForce, ChainRev

LEMMA RevisionsTyped ==
    ASSUME SharingAssumption, RequestTypes, UpdateInv
    PROVE  /\ ChainRev \in ChainRevs /\ chain.rev \in 0..MaxChain
           /\ InForce => file.rev \in Updates /\ upd[file.rev].pc \notin Before \cup Closed /\ file \in Policies
           /\ \A k, n \in 0..MaxChain : <<"chain", k>> = <<"chain", n>> => k = n
           /\ None \notin Revs /\ Updates \cap ChainRevs = {}
  <1>1. chain.rev \in 0..MaxChain BY DEF RequestTypes, Twins
  <1>2. ChainRev \in ChainRevs BY <1>1 DEF ChainRev, ChainRevs
  <1>3. InForce => file.rev \in Updates /\ file \in Policies BY DEF InForce, UpdateInv, UpdateTypes, Policies
  <1>4. InForce => upd[file.rev].pc \notin Before
    BY <1>3 DEF UpdateInv, BuiltOn, FileRev, InForce
  <1>5. InForce => upd[file.rev].pc \notin Closed
    BY <1>3 DEF UpdateInv, BuiltOn, InForce, Closed
  <1>6. None \notin Revs /\ Updates \cap ChainRevs = {} BY DEF SharingAssumption, Revs, ChainRevs
  <1> QED BY <1>1, <1>2, <1>3, <1>4, <1>5, <1>6

(* What a step does to the others of a request. *)
LEMMA MoveOfOthers ==
    ASSUME RequestTypes, NEW r \in Requests, Local(r), Moved(r), NEW q \in Requests \ {r}
    PROVE  req'[q] = req[q] /\ job'[q] \in {job[q], None}
  <1>1. req'[q] = req[q] BY DEF Local
  <1>2. CASE Learned(r) BY <1>1, <1>2 DEF Learned, RequestTypes
  <1>3. CASE ~Learned(r)
    BY <1>1, <1>3 DEF Moved, Begun, Passed, TwinRead, PolicyRead, Opened, Resumed, Sent, Ended, Expired
  <1> QED BY <1>2, <1>3

LEMMA MoveUses ==
    ASSUME SharingAssumption, RequestTypes, UpdateInv, NEW r \in Requests, Local(r), Moved(r),
           NEW q \in Requests, NEW rev \in Revs, Used(q, rev)'
    PROVE  Used(q, rev) \/ rev = ChainRev \/ (InForce /\ rev = file.rev)
  <1>1. rev # None BY RevisionsTyped
  <1>2. CASE q # r BY <1>2, MoveOfOthers DEF Used
  <1>3. CASE q = r /\ PolicyRead(r)
    <2>1. \/ req'[r].ans.rev = None \/ (InForce /\ req'[r].ans.rev = file.rev) \/ req'[r].ans.rev = ChainRev
      BY <1>3, AnswerFrom DEF PolicyRead
    <2> QED BY <1>1, <1>3, <2>1 DEF PolicyRead, Same, Used
  <1>4. CASE q = r /\ Learned(r)
    <2>1. job'[r] # None /\ job'[r].rev = rev => (job[r] # None /\ job[r].rev = rev) \/ req[r].ans.rev = rev
      BY <1>4 DEF Learned, RequestTypes
    <2> QED BY <1>1, <1>4, <2>1 DEF Learned, Used, Denied
  <1>5. CASE q = r /\ Ended(r)
    <2>1. req'[r].ans.rev = None /\ req'[r].rev = req[r].rev BY <1>5 DEF Ended, Same, Denied
    <2>2. CASE job'[r] \in {job[r], None} BY <1>1, <1>5, <2>1, <2>2 DEF Used
    <2>3. CASE job'[r].rev = job[r].rev /\ job[r] # None BY <1>1, <1>5, <2>1, <2>3 DEF Used
    <2> QED BY <1>5, <2>2, <2>3 DEF Ended
  <1>6. CASE q = r /\ ~PolicyRead(r) /\ ~Learned(r) /\ ~Ended(r)
    BY <1>1, <1>6 DEF Moved, Begun, Passed, TwinRead, Opened, Resumed, Sent, Expired, Same, Used, Denied
  <1> QED BY <1>2, <1>3, <1>4, <1>5, <1>6

LEMMA MoveKeepsUnused ==
    ASSUME SharingAssumption, RequestTypes, UpdateInv, Unused, NEW r \in Requests, Local(r), Moved(r),
           UNCHANGED <<chain, upd>>
    PROVE  Unused'
  <1> SUFFICES ASSUME NEW q \in Requests
               PROVE  /\ \A u \in Updates : upd[u].pc \in Before \cup Closed => ~Used(q, u)'
                      /\ \A k \in 0..MaxChain : k > chain.rev => ~Used(q, <<"chain", k>>)'
    BY DEF Unused
  <1>1. ASSUME NEW u \in Updates, upd[u].pc \in Before \cup Closed, Used(q, u)' PROVE FALSE
    <2>1. u \in Revs BY DEF Revs
    <2>2. Used(q, u) \/ u = ChainRev \/ (InForce /\ u = file.rev) BY <1>1, <2>1, MoveUses
    <2> QED BY <1>1, <2>2, RevisionsTyped DEF Unused
  <1>2. ASSUME NEW k \in 0..MaxChain, k > chain.rev, Used(q, <<"chain", k>>)' PROVE FALSE
    <2> DEFINE c == <<"chain", k>>
    <2>1. c \in Revs /\ c \in ChainRevs BY DEF Revs, ChainRevs
    <2>2. Used(q, c) \/ c = ChainRev \/ (InForce /\ c = file.rev) BY <1>2, <2>1, MoveUses
    <2>3. ~Used(q, c) BY <1>2 DEF Unused
    <2>4. c = ChainRev => k = chain.rev BY RevisionsTyped DEF ChainRev
    <2>5. chain.rev \in Nat BY RevisionsTyped
    <2> QED BY <1>2, <2>1, <2>2, <2>3, <2>4, <2>5, RevisionsTyped
  <1> QED BY <1>1, <1>2

LEMMA MoveKeepsMigrated ==
    ASSUME SharingAssumption, RequestTypes, UpdateInv, Migrated, NEW r \in Requests, Local(r), Moved(r),
           UNCHANGED chain
    PROVE  Migrated'
  <1>1. ASSUME NEW q \in Requests \ {r}
        PROVE  /\ req'[q].pc = "policy" /\ req'[q].f.ver # 1 => chain.ver # 1
               /\ req'[q].ans.rev \notin Updates \cup {None} => chain.ver # 1
               /\ Checking(req'[q]) /\ req'[q].rev \notin Updates \cup {None} =>
                     chain.ver # 1 /\ (req'[q].pc = "policy" => req'[q].f.ver # 1)
    BY MoveOfOthers DEF Migrated
  <1>2. /\ req'[r].pc = "policy" /\ req'[r].f.ver # 1 => chain.ver # 1
        /\ req'[r].ans.rev \notin Updates \cup {None} => chain.ver # 1
        /\ Checking(req'[r]) /\ req'[r].rev \notin Updates \cup {None} =>
              chain.ver # 1 /\ (req'[r].pc = "policy" => req'[r].f.ver # 1)
    <2>1. Typed(r) BY DEF RequestTypes
    <2>2. /\ req[r].pc = "policy" /\ req[r].f.ver # 1 => chain.ver # 1
          /\ req[r].ans.rev \notin Updates \cup {None} => chain.ver # 1
          /\ Checking(req[r]) /\ req[r].rev \notin Updates \cup {None} =>
                chain.ver # 1 /\ (req[r].pc = "policy" => req[r].f.ver # 1)
      BY DEF Migrated
    <2>3. CASE PolicyRead(r)
      <3>1. req'[r].ans.rev \in Updates \cup {None} \/ req[r].f.ver = 2
        BY <2>3, AnswerFrom, RevisionsTyped DEF PolicyRead
      <3> QED BY <2>2, <2>3, <3>1 DEF PolicyRead, Same, Checking
    <2>4. CASE TwinRead(r)
      <3>1. req'[r].f.ver = chain.ver /\ req'[r].pc = "policy" /\ req'[r].ans = req[r].ans /\ Checking(req[r])
            /\ req'[r].rev = req[r].rev
        BY <2>4 DEF TwinRead, Checking, Same
      <3> QED BY <2>2, <3>1
    <2>5. CASE Learned(r) BY <2>2, <2>5 DEF Learned, Allowed, Checking, Denied
    <2>6. CASE Passed(r)
      <3>1. req'[r].rev = None /\ req'[r].ans.rev = None /\ req'[r].pc # "policy"
        BY <2>1, <2>6 DEF Passed, Same, Typed, Denied
      <3> QED BY <3>1
    <2>7. CASE Begun(r) \/ Opened(r) \/ Resumed(r) \/ Sent(r) \/ Ended(r) \/ Expired(r)
      BY <2>2, <2>7 DEF Begun, Opened, Resumed, Sent, Ended, Expired, Same, Denied, Checking
    <2> QED BY <2>3, <2>4, <2>5, <2>6, <2>7 DEF Moved
  <1> QED BY <1>1, <1>2 DEF Migrated

-------------------------------------------------------------------------------
(* A revision stands for one policy: pi says for which. *)
Means(pi) ==
    /\ InForce => pi[file.rev] = file.p
    /\ pi[ChainRev] = chain.pol

(* The revision a request is bound to will not be answered again.          *)
Gone(r) ==
    /\ req[r].ans.rev # req[r].rev
    /\ IF req[r].rev \in Updates
       THEN ~(InForce /\ file.rev = req[r].rev) \/ (chain.ver # 1 /\ (req[r].pc = "policy" => req[r].f.ver # 1))
       ELSE req[r].rev # ChainRev

Lent(r) == Checking(req[r]) /\ req[r].n > 2 /\ LastCheck(req[r])

(* Answers, prepared exports and collected data are by these policies.     *)
Collected(r, pi) ==
    /\ req[r].ans.rev # None => pi[req[r].ans.rev] = req[r].ans.p
    /\ job[r] # None /\ job[r].pc = "ready" => job[r].out = FilterPayload(pi[job[r].rev], "export")
    /\ Lent(r) =>
          req[r].out = FilterPayload(pi[req[r].rev], Checks[req[r].kind][req[r].n - 1]) \/ Gone(r)
    /\ req[r].pc = "decide" /\ req[r].kind = "export" /\ req[r].n = 3 /\ req[r].ans.rev \notin {None, req[r].rev} =>
          Gone(r)

PolicyPerRevision == \E pi \in [Revs -> Names] : Means(pi) /\ \A r \in Requests : Collected(r, pi)

LEMMA Granted ==
    ASSUME SharingAssumption, RequestTypes, NEW r \in Requests, Allowed(r)
    PROVE  req[r].ans.rev \in Revs /\ Checking(req[r]) /\ req[r].kind \in KindNames
           /\ req[r].n \in 1..Len(Checks[req[r].kind]) /\ Len(Checks[req[r].kind]) \in 1..4
  <1>1. req[r] \in Reqs /\ Typed(r) BY DEF RequestTypes
  <1>2. req[r].ans.rev # None BY <1>1, DeniedMeansNothing DEF Allowed, Typed, Denied
  <1>3. req[r].ans.rev \in Revs BY <1>1, <1>2 DEF Reqs, Answers
  <1>4. Checking(req[r]) BY DEF Allowed, Checking
  <1>5. req[r].kind \in KindNames /\ req[r].n \in 1..Len(Checks[req[r].kind]) BY <1>1, <1>4 DEF Typed
  <1> QED BY <1>3, <1>4, <1>5, LenTyped

(* Once gone, a revision stays away while the policy is read.              *)
LEMMA ReadKeepsGone ==
    ASSUME SharingAssumption, RequestTypes, UpdateInv, Migrated, NEW r \in Requests, Local(r), PolicyRead(r),
           UNCHANGED <<chain, file, upd>>
    PROVE  /\ Gone(r) /\ req[r].rev # None => Gone(r)'
           /\ req[r].rev # None /\ req'[r].ans.rev \notin {None, req'[r].rev} => Gone(r)'
           /\ req'[r].ans.rev # None =>
                 \/ InForce /\ req'[r].ans.rev = file.rev /\ req'[r].ans.p = file.p
                 \/ req'[r].ans.rev = ChainRev /\ req'[r].ans.p = chain.pol
  <1> DEFINE a == req'[r].ans
             f == req[r].f
             v == req[r].rev
  <1>1. \/ a.rev = None
        \/ f.ver = 1 /\ InForce /\ a.rev = file.rev /\ a.p = file.p
        \/ f.ver = 2 /\ a.rev = ChainRev /\ a.p = chain.pol
    BY AnswerFrom DEF PolicyRead
  <1>2. req'[r].rev = v /\ req'[r].pc = "decide" /\ req[r].pc = "policy" BY DEF PolicyRead, Same
  <1>3. InForce' = InForce /\ ChainRev' = ChainRev BY DEF InForce, ChainRev
  <1>4. /\ f.ver # 1 => chain.ver # 1
        /\ v \notin Updates \cup {None} => f.ver # 1
    BY <1>2 DEF Migrated, Checking
  <1>5. a.rev \notin {None, v} /\ v # None => Gone(r)'
    BY <1>1, <1>2, <1>3, <1>4, RevisionsTyped DEF Gone
  <1>6. Gone(r) /\ v # None => Gone(r)'
    BY <1>1, <1>2, <1>3, <1>4, RevisionsTyped DEF Gone
  <1> QED BY <1>1, <1>2, <1>5, <1>6

LEMMA MoveIsCollected ==
    ASSUME SharingAssumption, RequestTypes, UpdateInv, Revocable, Migrated, NEW pi \in [Revs -> Names], Means(pi),
           \A q \in Requests : Collected(q, pi), NEW r \in Requests, Local(r), Moved(r),
           UNCHANGED <<chain, file, upd>>
    PROVE  Means(pi)' /\ \A q \in Requests : Collected(q, pi)'
  <1>1. Means(pi)' BY DEF Means, InForce, ChainRev
  <1>2. InForce' = InForce /\ ChainRev' = ChainRev BY DEF InForce, ChainRev
  <1>3. ASSUME NEW q \in Requests \ {r} PROVE Collected(q, pi)'
    <2>1. req'[q] = req[q] /\ job'[q] \in {job[q], None} BY MoveOfOthers
    <2>2. Gone(q)' <=> Gone(q) BY <1>2, <2>1 DEF Gone
    <2>3. Lent(q)' <=> Lent(q) BY <2>1 DEF Lent, Checking, LastCheck
    <2> QED BY <2>1, <2>2, <2>3 DEF Collected
  <1>4. Collected(r, pi) /\ Typed(r) /\ req[r] \in Reqs BY DEF RequestTypes
  <1>5. Collected(r, pi)'
    <2>1. CASE PolicyRead(r)
      <3>1. /\ req'[r].kind = req[r].kind /\ req'[r].n = req[r].n /\ req'[r].rev = req[r].rev
            /\ req'[r].out = req[r].out /\ job' = job /\ req[r].pc = "policy" /\ req'[r].pc = "decide"
        BY <2>1 DEF PolicyRead, Same
      <3>2. req'[r].ans.rev # None => pi[req'[r].ans.rev] = req'[r].ans.p
        BY <2>1, ReadKeepsGone DEF Means
      <3>3. Checking(req[r]) BY <3>1 DEF Checking
      <3>4. req[r].n > 2 => req[r].rev # None BY <1>4, <3>3 DEF Typed
      <3>5. Lent(r)' => Lent(r) BY <3>1, <3>3 DEF Lent, LastCheck
      <3>6. req[r].n > 2 /\ Gone(r) => Gone(r)' BY <2>1, <3>4, ReadKeepsGone
      <3>7. Lent(r) => req[r].n > 2 BY DEF Lent
      <3>8. req[r].n = 3 /\ req'[r].ans.rev \notin {None, req'[r].rev} => Gone(r)' BY <2>1, <3>4, ReadKeepsGone
      <3> QED BY <1>4, <3>1, <3>2, <3>5, <3>6, <3>7, <3>8 DEF Collected
    <2>2. CASE TwinRead(r)
      <3>1. /\ req'[r].kind = req[r].kind /\ req'[r].n = req[r].n /\ req'[r].rev = req[r].rev
            /\ req'[r].out = req[r].out /\ req'[r].ans = req[r].ans /\ job' = job
            /\ req[r].pc = "twin" /\ req'[r].pc = "policy" /\ req'[r].f.ver = chain.ver
        BY <2>2 DEF TwinRead, Same
      <3>2. Lent(r)' => Lent(r) BY <3>1 DEF Lent, LastCheck, Checking
      <3>3. Gone(r) => Gone(r)' BY <1>2, <3>1 DEF Gone
      <3> QED BY <1>4, <3>1, <3>2, <3>3 DEF Collected
    <2>3. CASE Learned(r)
      <3>1. /\ req[r].ans.rev \in Revs /\ req[r].kind \in KindNames
            /\ req[r].n \in 1..Len(Checks[req[r].kind]) /\ Len(Checks[req[r].kind]) \in 1..4
        BY <2>3, Granted DEF Learned
      <3>2. /\ req'[r].kind = req[r].kind /\ req'[r].n = req[r].n + 1 /\ req'[r].ans.rev = None
            /\ req[r].pc = "decide" /\ req'[r].pc = "twin"
        BY <2>3 DEF Learned, Allowed, Denied
      <3>3. job'[r] # None /\ job'[r].pc = "ready" => job'[r] = job[r]
        BY <2>3 DEF Learned, RequestTypes
      <3>4. ASSUME Lent(r)'
            PROVE  req'[r].out = FilterPayload(pi[req'[r].rev], Checks[req'[r].kind][req'[r].n - 1]) \/ Gone(r)'
        <4>1. req[r].n = Len(Checks[req[r].kind]) - 1 /\ req[r].n \in 2..3
          <5>1. req'[r].n > 2 /\ req'[r].n = Len(Checks[req'[r].kind]) BY <3>4 DEF Lent, LastCheck
          <5>2. req[r].n + 1 > 2 /\ req[r].n + 1 = Len(Checks[req[r].kind]) BY <3>2, <5>1
          <5>3. PICK l \in 1..4 : l = Len(Checks[req[r].kind]) BY <3>1
          <5>4. PICK n \in 1..l : n = req[r].n BY <3>1, <5>3
          <5>5. n + 1 > 2 /\ n + 1 = l BY <5>2, <5>3, <5>4
          <5>6. n = l - 1 /\ n \in 2..3 BY <5>5
          <5> QED BY <5>3, <5>4, <5>6
        <4>2. req'[r].out = FilterPayload(req[r].ans.p, Checks[req[r].kind][req[r].n])
          BY <2>3, <4>1 DEF Learned, Scope
        <4>3. req'[r].n - 1 = req[r].n BY <3>2, <4>1
        <4>4. pi[req[r].ans.rev] = req[r].ans.p BY <1>4, <3>1, RevisionsTyped DEF Collected
        <4>5. CASE req[r].n = 2
          <5>1. req'[r].rev = req[r].ans.rev BY <2>3, <4>5 DEF Learned
          <5> QED BY <3>2, <4>2, <4>3, <4>4, <5>1
        <4>6. CASE req[r].n = 3
          <5>1. req'[r].rev = req[r].rev BY <2>3, <4>6 DEF Learned
          <5>2. req[r].kind = "export" BY <3>1, <4>1, <4>6, CheckFacts
          <5>3. CASE req[r].ans.rev = req[r].rev BY <3>2, <4>2, <4>3, <4>4, <5>1, <5>3
          <5>4. CASE req[r].ans.rev # req[r].rev
            <6>1. Gone(r) BY <1>4, <3>1, <3>2, <4>6, <5>2, <5>4, RevisionsTyped DEF Collected
            <6>2. req[r].rev # None BY <1>4, <3>2, <4>6 DEF Typed, Checking
            <6>3. Gone(r)' BY <1>2, <3>2, <5>1, <6>1, <6>2 DEF Gone
            <6> QED BY <6>3
          <5> QED BY <5>3, <5>4
        <4> QED BY <4>1, <4>5, <4>6
      <3> QED BY <1>4, <3>2, <3>3, <3>4 DEF Collected
    <2>4. CASE Ended(r)
      <3>1. req'[r].ans.rev = None /\ ~Checking(req'[r]) /\ req'[r].pc # "decide"
        BY <2>4 DEF Ended, Denied, Checking
      <3>2. job'[r] # None /\ job'[r].pc = "ready" => job'[r].out = FilterPayload(pi[job'[r].rev], "export")
        <4>1. CASE job'[r] \in {job[r], None} \/ job'[r].pc = "failed" BY <1>4, <4>1 DEF Collected
        <4>2. CASE /\ req[r].kind = "export" /\ LastCheck(req[r]) /\ SameRevision(req[r]) /\ Allowed(r)
                   /\ job[r] # None /\ job'[r].rev = job[r].rev /\ job'[r].out = req[r].out
          <5>1. Len(Checks[req[r].kind]) = 4 /\ Checks[req[r].kind][3] = "export"
            BY <4>2, CheckFacts DEF KindNames
          <5>2. req[r].n = 4 /\ req[r].ans.rev = req[r].rev BY <4>2, <5>1 DEF LastCheck, SameRevision
          <5>3. Checking(req[r]) BY <4>2 DEF Allowed, Checking
          <5>4. Lent(r) BY <4>2, <5>2, <5>3 DEF Lent
          <5>5. ~Gone(r) BY <5>2 DEF Gone
          <5>6. job[r].rev = req[r].rev BY <4>2, <5>2, <5>3 DEF Revocable, Preparing
          <5>7. Checks[req[r].kind][req[r].n - 1] = "export" BY <5>1, <5>2
          <5> QED BY <1>4, <4>2, <5>4, <5>5, <5>6, <5>7 DEF Collected
        <4> QED BY <2>4, <4>1, <4>2 DEF Ended
      <3> QED BY <3>1, <3>2 DEF Collected, Lent
    <2>5. CASE Begun(r)
      <3>1. req'[r].ans.rev = None /\ req'[r].n = 1 /\ job' = job BY <2>5 DEF Begun, Denied
      <3> QED BY <1>4, <3>1 DEF Collected, Lent
    <2>6. CASE Passed(r)
      <3>1. req'[r].ans.rev = None /\ req'[r].n = 1 /\ job' = job BY <1>4, <2>6 DEF Passed, Same, Typed, Denied
      <3> QED BY <1>4, <3>1 DEF Collected, Lent
    <2>7. CASE Opened(r) \/ Resumed(r)
      <3>1. req'[r].ans.rev = None /\ req'[r].n = 2 /\ job' = job BY <1>4, <2>7 DEF Opened, Resumed, Typed, Denied
      <3> QED BY <1>4, <3>1 DEF Collected, Lent
    <2>8. CASE Sent(r)
      <3>1. req'[r].ans.rev = None /\ ~Checking(req'[r]) /\ req'[r].pc # "decide" /\ job' = job
        BY <2>8 DEF Sent, Denied, Checking
      <3> QED BY <1>4, <3>1 DEF Collected, Lent
    <2>9. CASE Expired(r)
      <3>1. req' = req /\ job'[r] \in {job[r], None} BY <2>9 DEF Expired
      <3>2. (Gone(r)' <=> Gone(r)) /\ (Lent(r)' <=> Lent(r)) BY <1>2, <3>1 DEF Gone, Lent, Checking, LastCheck
      <3> QED BY <1>4, <3>1, <3>2 DEF Collected
    <2> QED BY <2>1, <2>2, <2>3, <2>4, <2>5, <2>6, <2>7, <2>8, <2>9 DEF Moved
  <1> QED BY <1>1, <1>3, <1>5

-------------------------------------------------------------------------------
(* The policies that a check finds were in force since it began. *)
Settled == InForce => settled = [p |-> file.p, owner |-> file.owner]

Witnessed(r) ==
    /\ /\ req[r].pc = "policy" /\ req[r].f.ver = 1 /\ InForce /\ Mode(file.p) = "restricted"
       /\ req[r].f.vis = "restricted" /\ file.owner = req[r].f.owner
       => file.p \in seen[r]
    /\ req[r].pc = "policy" /\ req[r].f.ver = 2 /\ chain.polOwner = req[r].f.owner => chain.pol \in seen[r]
    /\ req[r].pc = "decide" /\ req[r].ans.rev # None => req[r].ans.p \in seen[r]

Rightly(r) ==
    req[r].pc = "sent" /\ req[r].out # {} =>
        \E p \in seen[r] : req[r].out \subseteq FilterPayload(p, Scope(req[r]))

LEMMA SeenGrows ==
    ASSUME Watch, NEW r \in Requests
    PROVE  /\ Checking(req[r]) /\ req'[r].pc \in {"policy", "decide", "sent"} => seen'[r] = seen[r] \cup Entitled'
           /\ Checking(req[r]) /\ req'[r].pc = req[r].pc => seen'[r] = seen[r] \cup Entitled'
           /\ req[r].pc = "sent" /\ req'[r].pc = "sent" => seen'[r] = seen[r]
  BY DEF Watch, Checking

(* A request that a step leaves alone. *)
LEMMA OthersAreWitnessed ==
    ASSUME Watch, NEW r \in Requests, Witnessed(r), Rightly(r), req'[r] = req[r],
           /\ req[r].pc = "policy" /\ InForce' => file' = file \/ file'.p \in Entitled'
           /\ req[r].pc = "policy" /\ req[r].f.ver = 2 =>
                 \/ chain'.pol = chain.pol /\ chain'.polOwner = chain.polOwner
                 \/ chain'.pol \in Entitled'
    PROVE  Witnessed(r)' /\ Rightly(r)'
  <1>1. Witnessed(r)'
    <2>1. CASE Checking(req[r])
      <3>1. seen'[r] = seen[r] \cup Entitled' BY <2>1, SeenGrows
      <3> QED BY <3>1 DEF Witnessed, InForce
    <2>2. CASE ~Checking(req[r]) BY <2>2 DEF Witnessed, Checking
    <2> QED BY <2>1, <2>2
  <1>2. Rightly(r)' BY SeenGrows DEF Rightly, Scope
  <1> QED BY <1>1, <1>2

LEMMA MoveIsWitnessed ==
    ASSUME SharingAssumption, RequestTypes, UpdateInv, Settled, Watch, NEW r \in Requests, Local(r), Moved(r),
           \A q \in Requests : Witnessed(q) /\ Rightly(q), NEW pi \in [Revs -> Names],
           \A q \in Requests : Collected(q, pi), UNCHANGED <<chain, file, upd, settled>>
    PROVE  \A q \in Requests : Witnessed(q)' /\ Rightly(q)'
  <1>1. ASSUME NEW q \in Requests \ {r} PROVE Witnessed(q)' /\ Rightly(q)'
    <2>1. req'[q] = req[q] BY DEF Local
    <2> QED BY <2>1, OthersAreWitnessed
  <1>2. InForce' = InForce BY DEF InForce
  <1>3. Witnessed(r)' /\ Rightly(r)'
    <2>1. CASE TwinRead(r)
      <3>1. /\ req'[r].f.ver = chain.ver /\ req'[r].f.vis = chain.vis /\ req'[r].f.owner = chain.owner
            /\ req'[r].pc = "policy" /\ Checking(req[r])
        BY <2>1 DEF TwinRead, Checking
      <3>2. seen'[r] = seen[r] \cup Entitled' BY <3>1, SeenGrows
      <3>3. Entitled' = Entitled BY DEF Entitled, Active
      <3>4. InForce /\ chain.ver = 1 /\ chain.vis = "restricted" /\ file.owner = chain.owner => file.p \in Entitled
        BY DEF Settled, Entitled
      <3>5. chain.ver = 2 /\ chain.polOwner = chain.owner => chain.pol \in Entitled BY DEF Entitled
      <3> QED BY <1>2, <3>1, <3>2, <3>3, <3>4, <3>5 DEF Witnessed, Rightly
    <2>2. CASE PolicyRead(r)
      <3>1. /\ req'[r].ans = IF req[r].f.ver = 1 THEN Stored(req[r].f) ELSE LoadChainPolicy(req[r].f)
            /\ req[r].pc = "policy" /\ req'[r].pc = "decide" /\ Checking(req[r])
        BY <2>2 DEF PolicyRead, Checking
      <3>2. seen'[r] = seen[r] \cup Entitled' BY <3>1, SeenGrows
      <3>3. Witnessed(r) OBVIOUS
      <3>4. req'[r].ans.rev # None => req'[r].ans.p \in seen[r] BY <3>1, <3>3, AnswerFrom DEF Witnessed
      <3> QED BY <3>1, <3>2, <3>4 DEF Witnessed, Rightly
    <2>3. CASE Sent(r)
      <3>1. req'[r].pc = "sent" /\ req'[r].kind = req[r].kind /\ req'[r].n = req[r].n /\ Allowed(r)
        BY <2>3 DEF Sent, Same
      <3>2. /\ req[r].ans.rev \in Revs /\ Checking(req[r]) /\ req[r].kind \in KindNames /\ req[r].pc = "decide"
            /\ req[r].n \in 1..Len(Checks[req[r].kind]) /\ Len(Checks[req[r].kind]) \in 1..4
        BY <3>1, Granted DEF Allowed
      <3>3. seen'[r] = seen[r] \cup Entitled' BY <3>1, <3>2, SeenGrows
      <3>4. req[r].ans.p \in seen'[r] BY <3>2, <3>3, RevisionsTyped DEF Witnessed
      <3>5. Scope(req'[r]) = Scope(req[r]) /\ Scope(req[r]) = Checks[req[r].kind][req[r].n] BY <3>1 DEF Scope
      <3>6. pi[req[r].ans.rev] = req[r].ans.p BY <3>2, RevisionsTyped DEF Collected
      <3>7. req'[r].out # {} => req'[r].out = FilterPayload(req[r].ans.p, Scope(req[r]))
        <4>1. CASE /\ req[r].kind \notin {"export", "download", "cancel"} /\ LastCheck(req[r])
                      /\ SameRevision(req[r])
                   /\ req[r].n = 3 /\ req'[r].out = req[r].out
          <5>1. Lent(r) /\ Len(Checks[req[r].kind]) = 3 BY <3>2, <4>1 DEF Lent, LastCheck
          <5>2. req[r].kind \in {"latest", "stream", "history"} BY <3>2, <5>1, CheckFacts
          <5>3. req[r].ans.rev = req[r].rev BY <4>1, <5>1 DEF SameRevision
          <5>4. ~Gone(r) BY <5>3 DEF Gone
          <5>5. req[r].out = FilterPayload(pi[req[r].rev], Checks[req[r].kind][2]) BY <4>1, <5>1, <5>4 DEF Collected
          <5>6. Checks[req[r].kind][2] = Checks[req[r].kind][3] BY <3>2, <5>2, CheckFacts
          <5> QED BY <3>5, <3>6, <4>1, <5>3, <5>5, <5>6
        <4>2. CASE req'[r].out = FilterPayload(req[r].ans.p, Scope(req[r])) BY <4>2
        <4>3. CASE /\ req[r].kind = "download" /\ LastCheck(req[r])
                   /\ \E q \in Requests : /\ job[q] # None /\ job[q].pc = "ready" /\ job[q].rev = req[r].ans.rev
                                          /\ req'[r].out = job[q].out
          <5>1. Len(Checks[req[r].kind]) = 2 /\ Checks[req[r].kind][2] = "export" BY <3>2, <4>3, CheckFacts
          <5>2. Scope(req[r]) = "export" BY <3>5, <4>3, <5>1 DEF LastCheck
          <5>3. req'[r].out = FilterPayload(pi[req[r].ans.rev], "export") BY <4>3 DEF Collected
          <5> QED BY <3>6, <5>2, <5>3
        <4> QED BY <2>3, <4>1, <4>2, <4>3 DEF Sent
      <3>8. Witnessed(r)' BY <3>1 DEF Witnessed
      <3>9. Rightly(r)' BY <3>4, <3>5, <3>7 DEF Rightly
      <3> QED BY <3>8, <3>9
    <2>4. CASE Opened(r)
      <3>1. req'[r].pc = "sent" /\ req'[r].out = {}
        BY <2>4 DEF Opened, RequestTypes, Typed, Checking
      <3> QED BY <3>1 DEF Witnessed, Rightly
    <2>5. CASE Expired(r)
      <3>1. req'[r] = req[r] BY <2>5 DEF Expired
      <3> QED BY <3>1, OthersAreWitnessed
    <2>6. CASE Begun(r) \/ Passed(r) \/ Learned(r) \/ Resumed(r) \/ Ended(r)
      <3>1. req'[r].pc \notin {"policy", "decide", "sent"} BY <2>6 DEF Begun, Passed, Learned, Resumed, Ended
      <3> QED BY <3>1 DEF Witnessed, Rightly
    <2> QED BY <2>1, <2>2, <2>3, <2>4, <2>5, <2>6 DEF Moved
  <1> QED BY <1>1, <1>3

-------------------------------------------------------------------------------
(* The steps of the owner, of the chain and of the server leave a request  *)
(* alone, close it or forget it.                                           *)
Quiet(r) ==
    /\ \/ req'[r] = req[r]
       \/ /\ req'[r].pc = "closed" /\ req'[r].ans = req[r].ans /\ req'[r].rev = req[r].rev
       \/ req'[r].pc \in {"idle", "denied"} /\ req'[r].ans = Denied /\ req'[r].rev = None
    /\ job'[r] \in {job[r], None}

FileStep ==
    \/ file' = file /\ settled' = settled
    \/ ~InForce'
    \/ \E u \in Updates :
          /\ chain' = chain /\ upd[u].pc = "confirmed" /\ file' # None /\ ~file'.pending /\ file'.rev = u
          /\ file'.p \in Names /\ file'.p \in Entitled' /\ settled' = [p |-> file'.p, owner |-> file'.owner]

ChainStep ==
    \/ chain'.rev = chain.rev /\ chain'.pol = chain.pol /\ chain'.polOwner = chain.polOwner
       /\ chain'.ver = chain.ver
    \/ /\ chain'.rev = chain.rev + 1 /\ chain'.rev \in 0..MaxChain /\ chain'.pol \in Names
       /\ chain.ver # 1 => chain'.ver # 1
       /\ (chain'.pol = chain.pol /\ chain'.polOwner = chain.polOwner) \/ chain'.pol \in Entitled'

NoneReopens == \A u \in Updates : upd'[u].pc \in Before \cup Closed => upd[u].pc \in Before \cup Closed

Elsewhere == (\A r \in Requests : Quiet(r)) /\ FileStep /\ ChainStep /\ NoneReopens

LEMMA RevokeIsQuiet == ASSUME RequestTypes, Revoke, NEW r \in Requests PROVE Quiet(r)
  BY RevokeMoves DEF Quiet, Same

LEMMA UpdateIsElsewhere ==
    ASSUME SharingAssumption, RequestTypes, UpdateInv, UpdateStep PROVE Elsewhere
  <1>1. SUFFICES ASSUME NEW u \in Updates,
                        \/ \E by \in Owners, w \in Wants : Submit(u, by, w)
                        \/ Manage(u) \/ CompareRevision(u) \/ ClosePolicy(u) \/ Announce(u)
                        \/ Confirmed(u) \/ Unconfirmed(u) \/ OpenPolicy(u)
                 PROVE  Elsewhere
    BY DEF UpdateStep
  <1>2. upd \in [Updates -> Dialogs] BY DEF UpdateInv, UpdateTypes
  <1>3. CASE \/ \E by \in Owners, w \in Wants : Submit(u, by, w)
             \/ Manage(u) \/ CompareRevision(u) \/ Confirmed(u) \/ Unconfirmed(u)
    <2>1. UNCHANGED <<req, job, file, settled>>
      BY <1>3 DEF Submit, Manage, CompareRevision, Confirmed, Unconfirmed
    <2>2. ChainStep
      <3>1. chain' = chain \/ \E m \in Modes : chain' = [chain EXCEPT !.vis = m]
        BY <1>3, ModeTyped DEF Submit, Manage, CompareRevision, Confirmed, Unconfirmed
      <3>2. chain \in Twins BY DEF RequestTypes
      <3> QED BY <3>1, <3>2 DEF ChainStep, Twins
    <2>3. NoneReopens
      <3>1. \A v \in Updates \ {u} : upd'[v] = upd[v]
        BY <1>2, <1>3 DEF Submit, Manage, CompareRevision, Confirmed, Unconfirmed, End
      <3>2. upd[u].pc \in Before \cup Closed
        BY <1>3 DEF Submit, Manage, Turn, CompareRevision, Confirmed, Unconfirmed, Before, Closed
      <3> QED BY <3>1, <3>2 DEF NoneReopens
    <2> QED BY <2>1, <2>2, <2>3 DEF Elsewhere, Quiet, FileStep
  <1>4. CASE ClosePolicy(u)
    <2>1. /\ UNCHANGED <<req, job, chain>> /\ upd[u].pc = "compared" /\ upd' = [upd EXCEPT ![u].pc = "closing"]
          /\ file' = [p |-> "private", owner |-> upd[u].by, rev |-> u, pending |-> TRUE]
      BY <1>4 DEF ClosePolicy, Rename
    <2>2. ~InForce' BY <2>1 DEF InForce
    <2>3. upd[u].pc \in Before /\ \A v \in Updates \ {u} : upd'[v] = upd[v] BY <1>2, <2>1 DEF Before
    <2> QED BY <2>1, <2>2, <2>3 DEF Elsewhere, Quiet, FileStep, ChainStep, NoneReopens
  <1>5. CASE Announce(u)
    <2>1. Revoke /\ UNCHANGED <<chain, file, settled>> /\ upd[u].pc \in {"closing", "opening"} BY <1>5 DEF Announce
    <2>2. /\ \A v \in Updates \ {u} : upd'[v] = upd[v]
          /\ upd[u].pc = "closing" \/ upd'[u].pc = "done"
      BY <1>2, <1>5 DEF Announce, End
    <2>3. NoneReopens BY <2>2 DEF NoneReopens, Before, Closed
    <2> QED BY <2>1, <2>3, RevokeIsQuiet DEF Elsewhere, FileStep, ChainStep
  <1>6. CASE OpenPolicy(u)
    <2> DEFINE f == [p |-> upd[u].want, owner |-> upd[u].by, rev |-> u, pending |-> FALSE]
    <2>1. /\ UNCHANGED <<req, job, chain>> /\ upd[u].pc = "confirmed" /\ upd' = [upd EXCEPT ![u].pc = "opening"]
          /\ file' = f /\ settled' = [p |-> upd[u].want, owner |-> upd[u].by]
      BY <1>6 DEF OpenPolicy, Rename
    <2>2. upd[u].want \in Wants /\ upd[u].by \in Owners BY <2>1, WorkerIsFirst DEF Working
    <2>3. f # None
      <3>1. f \in Policies BY <2>2 DEF Policies
      <3>2. None \notin Policies BY DEF Policies, SharingAssumption
      <3> QED BY <3>1, <3>2
    <2>4. upd'[u].pc = "opening" /\ upd'[u].want = upd[u].want /\ \A v \in Updates \ {u} : upd'[v] = upd[v]
      BY <1>2, <2>1 DEF Dialogs
    <2>5. file'.p \in Entitled' BY <2>1, <2>4 DEF Entitled, Active
    <2>6. file'.p = upd[u].want /\ file'.rev = u /\ file'.owner = upd[u].by /\ ~file'.pending /\ file' # None
      BY <2>1, <2>3
    <2>7. FileStep BY <2>1, <2>2, <2>5, <2>6 DEF FileStep, Names
    <2>8. NoneReopens BY <2>1, <2>4 DEF NoneReopens, Closed
    <2> QED BY <2>1, <2>7, <2>8 DEF Elsewhere, Quiet, ChainStep
  <1> QED BY <1>1, <1>3, <1>4, <1>5, <1>6

LEMMA OthersTransactIsElsewhere ==
    ASSUME SharingAssumption, RequestTypes, OthersTransact PROVE Elsewhere
  <1>1. chain \in Twins BY DEF RequestTypes
  <1>2. UNCHANGED <<req, job, file, settled, upd>> /\ chain.rev < MaxChain BY DEF OthersTransact
  <1>3. chain.rev + 1 \in 0..MaxChain
    <2>1. chain.rev \in 0..MaxChain /\ MaxChain \in Nat BY <1>1 DEF Twins, SharingAssumption
    <2> QED BY <1>2, <2>1
  <1> DEFINE c == [chain EXCEPT !.rev = chain.rev + 1]
  <1>4. /\ c \in Twins /\ c.rev = chain.rev + 1 /\ c.pol = chain.pol /\ c.polOwner = chain.polOwner
        /\ c.ver = chain.ver /\ c.owner = chain.owner
    BY <1>1, <1>3 DEF Twins
  <1>5. \/ \E g \in Grants : chain' = [c EXCEPT !.ver = 2, !.pol = g, !.polOwner = chain.owner]
        \/ chain' = [c EXCEPT !.vis = "private"]
        \/ \E o \in Owners : chain' = [c EXCEPT !.owner = o]
        \/ chain' = [c EXCEPT !.ver = 0]
    BY DEF OthersTransact
  <1> HIDE DEF c
  <1>6. chain.pol \in Names BY <1>1 DEF Twins, Names
  <1>7. ASSUME NEW g \in Grants, chain' = [c EXCEPT !.ver = 2, !.pol = g, !.polOwner = chain.owner]
        PROVE  ChainStep
    <2>1. /\ chain'.rev = chain.rev + 1 /\ chain'.pol = g /\ chain'.ver = 2 /\ chain'.polOwner = chain.owner
          /\ chain'.owner = chain.owner
      BY <1>4, <1>7 DEF Twins
    <2>2. chain'.pol \in Entitled' BY <2>1 DEF Entitled
    <2> QED BY <1>3, <2>1, <2>2 DEF ChainStep, Names
  <1>8. ASSUME \/ chain' = [c EXCEPT !.vis = "private"]
               \/ \E o \in Owners : chain' = [c EXCEPT !.owner = o]
               \/ chain' = [c EXCEPT !.ver = 0]
        PROVE  ChainStep
    <2>1. /\ chain'.rev = chain.rev + 1 /\ chain'.pol = chain.pol /\ chain'.polOwner = chain.polOwner
          /\ chain'.ver \in {chain.ver, 0}
      BY <1>4, <1>8 DEF Twins
    <2> QED BY <1>3, <1>6, <2>1 DEF ChainStep
  <1>9. ChainStep BY <1>5, <1>7, <1>8
  <1> QED BY <1>2, <1>9 DEF Elsewhere, Quiet, FileStep, NoneReopens

LEMMA RestIsElsewhere ==
    ASSUME SharingAssumption, RequestTypes, UpdateInv, Land \/ LoginExpires \/ Crash PROVE Elsewhere
  <1>1. CASE Land \/ LoginExpires
    <2>1. UNCHANGED <<req, job, file, settled, upd>> /\ (chain' = chain \/ chain' = [chain EXCEPT !.vis = late])
      BY <1>1 DEF Land, LoginExpires
    <2>2. ChainStep BY <2>1 DEF ChainStep, RequestTypes, Twins
    <2> QED BY <2>1, <2>2 DEF Elsewhere, Quiet, FileStep, NoneReopens
  <1>2. CASE Crash
    <2>1. UNCHANGED <<chain, file, settled>> BY <1>2 DEF Crash
    <2>2. \A r \in Requests : Quiet(r) BY <1>2, CrashMoves DEF Quiet
    <2>3. \A u \in Updates : upd'[u] = upd[u] \/ upd'[u].pc = "failed" BY <1>2 DEF Crash
    <2>4. NoneReopens BY <2>3 DEF NoneReopens, Before, Closed
    <2> QED BY <2>1, <2>2, <2>4 DEF Elsewhere, FileStep, ChainStep
  <1> QED BY <1>1, <1>2

LEMMA ChainRevMoves ==
    ASSUME SharingAssumption, RequestTypes, ChainStep
    PROVE  /\ chain'.rev \in 0..MaxChain /\ chain'.rev >= chain.rev
           /\ \/ ChainRev' = ChainRev
              \/ ChainRev' \in Revs /\ ChainRev' = <<"chain", chain'.rev>> /\ chain'.rev > chain.rev
  <1>1. chain.rev \in 0..MaxChain BY DEF RequestTypes, Twins
  <1>2. CASE chain'.rev = chain.rev BY <1>1, <1>2 DEF ChainRev
  <1>3. CASE chain'.rev = chain.rev + 1 /\ chain'.rev \in 0..MaxChain
    <2>1. ChainRev' = <<"chain", chain'.rev>> BY DEF ChainRev
    <2>2. ChainRev' \in Revs BY <1>3, <2>1 DEF Revs, ChainRevs
    <2> QED BY <1>1, <1>3, <2>1, <2>2
  <1> QED BY <1>2, <1>3 DEF ChainStep

LEMMA QuietUses ==
    ASSUME SharingAssumption, NEW r \in Requests, Quiet(r), NEW rev \in Revs, Used(r, rev)' PROVE Used(r, rev)
  <1>1. rev # None BY DEF Revs, ChainRevs, SharingAssumption
  <1> QED BY <1>1 DEF Quiet, Used, Denied

LEMMA ElsewhereKeepsUnused ==
    ASSUME SharingAssumption, RequestTypes, Unused, Elsewhere PROVE Unused'
  <1>1. ASSUME NEW r \in Requests, NEW u \in Updates, upd'[u].pc \in Before \cup Closed, Used(r, u)' PROVE FALSE
    <2>1. Used(r, u) BY <1>1, QuietUses DEF Elsewhere, Revs
    <2> QED BY <1>1, <2>1 DEF Unused, Elsewhere, NoneReopens
  <1>2. ASSUME NEW r \in Requests, NEW k \in 0..MaxChain, k > chain'.rev, Used(r, <<"chain", k>>)' PROVE FALSE
    <2>1. <<"chain", k>> \in Revs BY DEF Revs, ChainRevs
    <2>2. Used(r, <<"chain", k>>) BY <1>2, <2>1, QuietUses DEF Elsewhere
    <2>3. chain'.rev \in 0..MaxChain /\ chain'.rev >= chain.rev BY ChainRevMoves DEF Elsewhere
    <2>4. chain.rev \in 0..MaxChain BY DEF RequestTypes, Twins
    <2>5. k > chain.rev BY <1>2, <2>3, <2>4
    <2> QED BY <2>2, <2>5 DEF Unused
  <1> QED BY <1>1, <1>2 DEF Unused

LEMMA ElsewhereKeepsMigrated == ASSUME SharingAssumption, Migrated, Elsewhere PROVE Migrated'
  <1>1. chain.ver # 1 => chain'.ver # 1 BY DEF Elsewhere, ChainStep
  <1>2. ASSUME NEW r \in Requests
        PROVE  /\ req'[r].pc = "policy" /\ req'[r].f.ver # 1 => chain'.ver # 1
               /\ req'[r].ans.rev \notin Updates \cup {None} => chain'.ver # 1
               /\ Checking(req'[r]) /\ req'[r].rev \notin Updates \cup {None} =>
                     chain'.ver # 1 /\ (req'[r].pc = "policy" => req'[r].f.ver # 1)
    <2>1. Quiet(r) BY DEF Elsewhere
    <2>2. CASE req'[r] = req[r] BY <1>1, <2>2 DEF Migrated
    <2>3. CASE req'[r].pc = "closed" /\ req'[r].ans = req[r].ans
      BY <1>1, <2>3 DEF Migrated, Checking
    <2>4. CASE req'[r].pc \in {"idle", "denied"} /\ req'[r].ans = Denied BY <2>4 DEF Checking, Denied
    <2> QED BY <2>1, <2>2, <2>3, <2>4 DEF Quiet
  <1> QED BY <1>2 DEF Migrated

LEMMA ElsewhereKeepsSettled == ASSUME Settled, Elsewhere PROVE Settled'
  BY DEF Settled, InForce, Elsewhere, FileStep

LEMMA ElsewhereIsWitnessed ==
    ASSUME Watch, Elsewhere, NEW r \in Requests, Witnessed(r), Rightly(r) PROVE Witnessed(r)' /\ Rightly(r)'
  <1>1. Quiet(r) BY DEF Elsewhere
  <1>2. CASE req'[r] = req[r]
    <2>1. InForce' => file' = file \/ file'.p \in Entitled' BY DEF Elsewhere, FileStep
    <2>2. \/ chain'.pol = chain.pol /\ chain'.polOwner = chain.polOwner
          \/ chain'.pol \in Entitled'
      BY DEF Elsewhere, ChainStep
    <2> QED BY <1>2, <2>1, <2>2, OthersAreWitnessed
  <1>3. CASE req'[r].pc \in {"closed", "idle", "denied"} BY <1>3 DEF Witnessed, Rightly
  <1> QED BY <1>1, <1>2, <1>3 DEF Quiet

(* A meaning of the revisions in use carries over, and so does a revision  *)
(* that has gone.                                                          *)
LEMMA QuietIsCollected ==
    ASSUME SharingAssumption, RequestTypes, NEW r \in Requests, Quiet(r),
           NEW pi \in [Revs -> Names], NEW pj \in [Revs -> Names], Collected(r, pi),
           \A rev \in Revs : Used(r, rev) =>
               /\ pj[rev] = pi[rev]
               /\ InForce' /\ file'.rev = rev => InForce /\ file.rev = rev
               /\ ChainRev' = rev => ChainRev = rev,
           chain.ver # 1 => chain'.ver # 1
    PROVE  Collected(r, pj)'
  <1>1. Typed(r) /\ req[r] \in Reqs /\ job[r] \in Jobs \cup {None} BY DEF RequestTypes
  <1>2. req[r].ans.rev # None => req[r].ans.rev \in Revs /\ Used(r, req[r].ans.rev)
    BY <1>1 DEF Reqs, Answers, Used
  <1>3. req[r].rev # None => req[r].rev \in Revs /\ Used(r, req[r].rev) BY <1>1 DEF Reqs, Used
  <1>4. job[r] # None => job[r].rev \in Revs /\ Used(r, job[r].rev) BY <1>1 DEF Jobs, Used
  <1>5. job'[r] # None /\ job'[r].pc = "ready" => job'[r].out = FilterPayload(pj[job'[r].rev], "export")
    BY <1>4 DEF Quiet, Collected
  <1>6. CASE req'[r] = req[r]
    <2>1. req[r].rev # None /\ Gone(r) => Gone(r)' BY <1>3, <1>6 DEF Gone
    <2>2. req[r].ans.rev # None => pj[req[r].ans.rev] = req[r].ans.p BY <1>2 DEF Collected
    <2>3. Lent(r)' <=> Lent(r) BY <1>6 DEF Lent, Checking, LastCheck
    <2>4. Checking(req[r]) /\ req[r].n > 2 => req[r].rev # None BY <1>1 DEF Typed
    <2>5. Lent(r) => \/ req[r].out = FilterPayload(pj[req[r].rev], Checks[req[r].kind][req[r].n - 1])
                     \/ Gone(r)'
      BY <1>3, <2>1, <2>4 DEF Collected, Lent
    <2>6. req[r].pc = "decide" /\ req[r].kind = "export" /\ req[r].n = 3 /\ req[r].ans.rev \notin {None, req[r].rev}
             => Gone(r)'
      BY <2>1, <2>4 DEF Collected, Checking
    <2> QED BY <1>5, <1>6, <2>2, <2>3, <2>5, <2>6 DEF Collected
  <1>7. CASE req'[r].pc = "closed" /\ req'[r].ans = req[r].ans
    <2>1. req'[r].ans.rev # None => pj[req'[r].ans.rev] = req'[r].ans.p BY <1>2, <1>7 DEF Collected
    <2> QED BY <1>5, <1>7, <2>1 DEF Collected, Lent, Checking
  <1>8. CASE req'[r].pc \in {"idle", "denied"} /\ req'[r].ans = Denied
    BY <1>5, <1>8 DEF Collected, Lent, Checking, Denied
  <1> QED BY <1>6, <1>7, <1>8 DEF Quiet

LEMMA ElsewhereIsCollected ==
    ASSUME SharingAssumption, RequestTypes, UpdateInv, Unused, PolicyPerRevision, Elsewhere
    PROVE  PolicyPerRevision'
  <1>1. PICK pi \in [Revs -> Names] : Means(pi) /\ \A r \in Requests : Collected(r, pi) BY DEF PolicyPerRevision
  <1>2. chain.ver # 1 => chain'.ver # 1 BY DEF Elsewhere, ChainStep
  <1>3. CASE (file' = file \/ ~InForce') /\ ChainRev' = ChainRev /\ chain'.pol = chain.pol
    <2>1. Means(pi)' BY <1>1, <1>3 DEF Means, InForce
    <2>2. \A rev \in Revs : /\ InForce' /\ file'.rev = rev => InForce /\ file.rev = rev
                            /\ ChainRev' = rev => ChainRev = rev
      BY <1>3 DEF InForce
    <2>3. \A r \in Requests : Collected(r, pi)' BY <1>1, <1>2, <2>2, QuietIsCollected DEF Elsewhere
    <2> QED BY <2>1, <2>3 DEF PolicyPerRevision
  <1>4. CASE /\ ChainRev' = ChainRev /\ chain'.pol = chain.pol
             /\ \E u \in Updates : /\ upd[u].pc = "confirmed" /\ file' # None /\ ~file'.pending /\ file'.rev = u
                                   /\ file'.p \in Names
    <2>1. PICK u \in Updates : upd[u].pc = "confirmed" /\ file' # None /\ ~file'.pending /\ file'.rev = u
                               /\ file'.p \in Names
      BY <1>4
    <2>2. u \in Revs /\ u # ChainRev BY RevisionsTyped DEF Revs
    <2>3. PICK pj \in [Revs -> Names] : pj[u] = file'.p /\ \A rev \in Revs \ {u} : pj[rev] = pi[rev]
      <3>1. [pi EXCEPT ![u] = file'.p] \in [Revs -> Names] BY <2>1, <2>2
      <3> QED BY <2>2, <3>1
    <2>4. \A r \in Requests : ~Used(r, u) BY <2>1 DEF Unused, Closed
    <2>5. ChainRev \in Revs BY RevisionsTyped DEF Revs
    <2>6. Means(pj)' BY <1>1, <1>4, <2>1, <2>2, <2>3, <2>5 DEF Means, InForce
    <2>7. \A r \in Requests : \A rev \in Revs : Used(r, rev) =>
             /\ pj[rev] = pi[rev]
             /\ InForce' /\ file'.rev = rev => InForce /\ file.rev = rev
             /\ ChainRev' = rev => ChainRev = rev
      BY <1>4, <2>1, <2>3, <2>4
    <2>8. \A r \in Requests : Collected(r, pj)' BY <1>1, <1>2, <2>7, QuietIsCollected DEF Elsewhere
    <2> QED BY <2>6, <2>8 DEF PolicyPerRevision
  <1>5. CASE /\ file' = file \/ ~InForce'
             /\ ChainRev' \in Revs /\ ChainRev' = <<"chain", chain'.rev>> /\ chain'.rev > chain.rev
             /\ chain'.rev \in 0..MaxChain /\ chain'.pol \in Names
    <2> DEFINE c == <<"chain", chain'.rev>>
    <2>1. c \in Revs /\ c \in ChainRevs /\ ChainRev' = c BY <1>5 DEF ChainRevs
    <2>2. PICK pj \in [Revs -> Names] : pj[c] = chain'.pol /\ \A rev \in Revs \ {c} : pj[rev] = pi[rev]
      <3>1. [pi EXCEPT ![c] = chain'.pol] \in [Revs -> Names] BY <1>5, <2>1
      <3> QED BY <2>1, <3>1
    <2>3. \A r \in Requests : ~Used(r, c) BY <1>5 DEF Unused
    <2>4. InForce => file.rev \in Updates /\ file.rev \in Revs /\ file.rev # c
      BY <2>1, RevisionsTyped DEF Revs
    <2>5. Means(pj)' BY <1>1, <1>5, <2>1, <2>2, <2>4 DEF Means, InForce
    <2>6. \A r \in Requests : \A rev \in Revs : Used(r, rev) =>
             /\ pj[rev] = pi[rev]
             /\ InForce' /\ file'.rev = rev => InForce /\ file.rev = rev
             /\ ChainRev' = rev => ChainRev = rev
      BY <1>5, <2>1, <2>2, <2>3 DEF InForce
    <2>7. \A r \in Requests : Collected(r, pj)' BY <1>1, <1>2, <2>6, QuietIsCollected DEF Elsewhere
    <2> QED BY <2>5, <2>7 DEF PolicyPerRevision
  <1>6. \/ ChainRev' = ChainRev /\ chain'.pol = chain.pol
        \/ /\ ChainRev' \in Revs /\ ChainRev' = <<"chain", chain'.rev>> /\ chain'.rev > chain.rev
           /\ chain'.rev \in 0..MaxChain /\ chain'.pol \in Names
    <2>1. chain.rev \in 0..MaxChain BY RevisionsTyped
    <2> QED BY <2>1, ChainRevMoves DEF Elsewhere, ChainStep, ChainRev
  <1>7. CASE file' = file \/ ~InForce' BY <1>3, <1>5, <1>6, <1>7
  <1>8. CASE \E u \in Updates : /\ chain' = chain /\ upd[u].pc = "confirmed" /\ file' # None /\ ~file'.pending
                                /\ file'.rev = u /\ file'.p \in Names
    <2>1. ChainRev' = ChainRev /\ chain'.pol = chain.pol BY <1>8 DEF ChainRev
    <2> QED BY <1>4, <1>8, <2>1
  <1> QED BY <1>7, <1>8 DEF Elsewhere, FileStep

-------------------------------------------------------------------------------
Granting ==
    /\ Unused /\ Migrated /\ Settled /\ PolicyPerRevision
    /\ \A r \in Requests : Witnessed(r) /\ Rightly(r)

(* The parts together. *)
LEMMA GrantingInit == ASSUME SharingAssumption, Init PROVE Granting
  <1>1. /\ req = [r \in Requests |-> Idle] /\ job = [r \in Requests |-> None] /\ file = None
        /\ chain \in Twins /\ chain.rev = 0
    <2>1. RequestTypes BY TypesInit
    <2>2. chain.rev = 0 BY DEF Init
    <2> QED BY <2>1, <2>2 DEF Init, RequestTypes
  <1>2. /\ Idle.pc = "idle" /\ Idle.rev = None /\ Idle.ans = Denied
    BY DEF Idle
  <1>3. None \notin Revs BY DEF Revs, ChainRevs, SharingAssumption
  <1>4. Unused
    <2>1. ASSUME NEW r \in Requests, NEW rev \in Revs PROVE ~Used(r, rev)
      BY <1>1, <1>2, <1>3 DEF Used, Denied
    <2>2. \A k \in 0..MaxChain : <<"chain", k>> \in Revs BY DEF Revs, ChainRevs
    <2>3. Updates \subseteq Revs BY DEF Revs
    <2> QED BY <2>1, <2>2, <2>3 DEF Unused
  <1>5. Migrated BY <1>1, <1>2 DEF Migrated, Checking, Denied
  <1>6. ~InForce BY <1>1 DEF InForce
  <1>7. PolicyPerRevision
    <2>1. chain.pol \in Names /\ ChainRev \in Revs BY <1>1 DEF Twins, Names, ChainRev, Revs, ChainRevs
    <2>2. PICK pi \in [Revs -> Names] : pi = [rev \in Revs |-> chain.pol] BY <2>1
    <2>3. Means(pi) BY <1>6, <2>1, <2>2 DEF Means
    <2>4. \A r \in Requests : Collected(r, pi) BY <1>1, <1>2 DEF Collected, Lent, Checking, Denied
    <2> QED BY <2>3, <2>4 DEF PolicyPerRevision
  <1>8. \A r \in Requests : Witnessed(r) /\ Rightly(r) BY <1>1, <1>2 DEF Witnessed, Rightly
  <1> QED BY <1>4, <1>5, <1>6, <1>7, <1>8 DEF Granting, Settled

LEMMA GrantingNext ==
    ASSUME SharingAssumption, RequestTypes, UpdateInv, Revocable, Granting, [Next]_vars
    PROVE  Granting'
  <1>1. CASE Elsewhere /\ Watch
    <2>1. Unused' /\ Migrated' /\ Settled' /\ PolicyPerRevision'
      BY <1>1, ElsewhereKeepsUnused, ElsewhereKeepsMigrated, ElsewhereKeepsSettled, ElsewhereIsCollected DEF
         Granting
    <2>2. \A r \in Requests : Witnessed(r)' /\ Rightly(r)' BY <1>1, ElsewhereIsWitnessed DEF Granting
    <2> QED BY <2>1, <2>2 DEF Granting
  <1>2. CASE UpdateStep /\ Watch BY <1>1, <1>2, UpdateIsElsewhere
  <1>3. CASE OthersTransact /\ Watch BY <1>1, <1>3, OthersTransactIsElsewhere
  <1>4. CASE (Land \/ LoginExpires \/ Crash) /\ Watch BY <1>1, <1>4, RestIsElsewhere
  <1>5. CASE RequestStep /\ Watch
    <2>1. UNCHANGED <<chain, file, upd, settled>> BY <1>5, RequestMoves
    <2>2. PICK r \in Requests : Local(r) /\ Moved(r) BY <1>5, RequestMoves
    <2>3. PICK pi \in [Revs -> Names] : Means(pi) /\ \A q \in Requests : Collected(q, pi)
      BY DEF Granting, PolicyPerRevision
    <2>4. Unused' BY <2>1, <2>2, MoveKeepsUnused DEF Granting
    <2>5. Migrated' BY <2>1, <2>2, MoveKeepsMigrated DEF Granting
    <2>6. Settled' BY <2>1 DEF Granting, Settled, InForce
    <2>7. PolicyPerRevision' BY <2>1, <2>2, <2>3, MoveIsCollected DEF Granting, PolicyPerRevision
    <2>8. \A q \in Requests : Witnessed(q)' /\ Rightly(q)' BY <1>5, <2>1, <2>2, <2>3, MoveIsWitnessed DEF Granting
    <2> QED BY <2>4, <2>5, <2>6, <2>7, <2>8 DEF Granting
  <1>6. CASE UNCHANGED vars
    <2>1. UNCHANGED <<chain, file, upd, req, job, settled, seen>> BY <1>6 DEF vars
    <2>2. Unused' /\ Migrated' /\ Settled' BY <2>1 DEF Granting, Unused, Used, Migrated, Checking, Settled, InForce
    <2>3. PICK pi \in [Revs -> Names] : Means(pi) /\ \A q \in Requests : Collected(q, pi)
      BY DEF Granting, PolicyPerRevision
    <2>4. Means(pi)' /\ \A q \in Requests : Collected(q, pi)'
      BY <2>1, <2>3 DEF Means, InForce, ChainRev, Collected, Lent, Gone, Checking, LastCheck
    <2>5. \A q \in Requests : Witnessed(q)' /\ Rightly(q)'
      BY <2>1 DEF Granting, Witnessed, Rightly, InForce, Scope
    <2> QED BY <2>2, <2>4, <2>5 DEF Granting, PolicyPerRevision
  <1> QED BY <1>2, <1>3, <1>4, <1>5, <1>6 DEF Next

(* The whole inductive invariant. *)
THEOREM SharingInvariance == Spec => [](UpdateInv /\ RequestTypes /\ Revocable /\ Granting)
  <1>1. Init => UpdateInv /\ RequestTypes /\ Revocable /\ Granting
    BY UpdateInit, TypesInit, RevocableInit, GrantingInit, SharingAssumption
  <1>2. UpdateInv /\ RequestTypes /\ Revocable /\ Granting /\ [Next]_vars
           => (UpdateInv /\ RequestTypes /\ Revocable /\ Granting)'
    BY UpdateNext, TypesNext, RevocableNext, GrantingNext, SharingAssumption
  <1> QED BY <1>1, <1>2, PTL DEF Spec

(* Whatever a reader is sent, one policy that was in force during the last *)
(* check of the request covers all of it, however the owner's changes, the *)
(* migration of the Twin, failures and restarts fall between the reads of  *)
(* the Twin, of the policy and of the data.                                *)
THEOREM SentAsGranted == Spec => []DeliveredWasGranted
  <1>1. Granting => DeliveredWasGranted BY DEF Granting, Rightly, DeliveredWasGranted
  <1> QED BY <1>1, SharingInvariance, PTL
===============================================================================
